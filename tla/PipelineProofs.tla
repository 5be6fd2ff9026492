--------------------------- MODULE PipelineProofs ---------------------------
(***************************************************************************)
(* Proofs about the poll cycle, for every number of instances, sinks,      *)
(* items and documents and every bound on failures and ages.               *)
(***************************************************************************)
EXTENDS Pipeline, TLAPS

\* The provers of a leaf that names none, in turn; the translation for Z3 may give up.
USE Z3T(30), ZenonT(20), SMTT(30), Z3T(31), SMTT(31)

\* The phases in which a poll has detected nothing.
Fresh == {"idle", "meta", "fetch", "release"}

\* The entries a poll still has to classify or publish are entries of the
\* document it fetched, and the change it publishes is one of the pending ones.
Indices ==
  \A p \in Inst :
    /\ scan[p] \subseteq DOMAIN body[p]
    /\ \A c \in todo[p] : c.idx \in DOMAIN body[p]
    /\ pc[p] \in Fresh => todo[p] = {}
    /\ pc[p] = "publish" => cur[p] \in todo[p] /\ k[p] \in 1 .. NumSinks + 1

TypeInv == TypeOK /\ Indices

-----------------------------------------------------------------------------
\* An entry of a well-typed document has an item and a hash.
LEMMA EntryType ==
  ASSUME NEW b \in Seq(Entry), NEW j \in DOMAIN b
  PROVE  b[j].id \in Items /\ b[j].hash \in Hashes /\ j \in Nat
<1>1. b[j] \in Entry /\ j \in Nat
  OBVIOUS
<1> QED
  BY <1>1 DEF Entry

\* A document the origin may serve is a sequence of entries.
LEMMA BodyType == \A b \in Bodies : b \in Seq(Entry) /\ DOMAIN b \in SUBSET Nat
BY PipelineAssumptions

\* The change of a poll that publishes is a well-typed entry of its document.
LEMMA CurType ==
  ASSUME TypeInv, NEW p \in Inst, pc[p] = "publish"
  PROVE  /\ Cur(p).id \in Items /\ Cur(p).hash \in Hashes
         /\ Pair(Cur(p)) \in Items \X Hashes
<1>1. body[p] \in Seq(Entry) /\ cur[p].idx \in DOMAIN body[p]
  BY DEF TypeInv, TypeOK, LocalsOK, Indices
<1> QED
  BY <1>1, EntryType DEF Cur, Pair

\* What an action leaves alone keeps its type.
LEMMA Frame ==
  /\ StoreOK /\ UNCHANGED storeVars => StoreOK'
  /\ SinksOK /\ UNCHANGED sinkVars => SinksOK'
  /\ CleanOK /\ UNCHANGED cleanVars => CleanOK'
  /\ LocalsOK /\ UNCHANGED jobVars => LocalsOK'
<1>1. StoreOK /\ UNCHANGED storeVars => StoreOK'
  BY DEF StoreOK, storeVars
<1>2. SinksOK /\ UNCHANGED sinkVars => SinksOK'
  BY DEF SinksOK, sinkVars
<1>3. CleanOK /\ UNCHANGED cleanVars => CleanOK'
  BY DEF CleanOK, cleanVars
<1>4. LocalsOK /\ UNCHANGED jobVars => LocalsOK'
  BY DEF LocalsOK, jobVars
<1> QED
  BY <1>1, <1>2, <1>3, <1>4

\* An instance that moves to a phase other than publish keeps Indices when it
\* keeps its locals.
LEMMA FrameIndices ==
  ASSUME Indices, UNCHANGED jobVars, pc \in [Inst -> Phases],
         NEW p \in Inst, NEW l, l # "publish", l \in Fresh => pc[p] \in Fresh, Goto(p, l)
  PROVE  Indices'
BY DEF Indices, jobVars, Goto

\* The failure budget stays within its bound.
LEMMA FaultType == faults \in 0 .. MaxFaults /\ (Fault \/ NoFault) => faults' \in 0 .. MaxFaults
BY PipelineAssumptions DEF Fault, NoFault

\* Moving an instance to a phase keeps pc well typed.
LEMMA GotoType ==
  ASSUME pc \in [Inst -> Phases], NEW p, NEW l \in Phases, Goto(p, l)
  PROVE  pc' \in [Inst -> Phases]
BY ZenonT(60) DEF Goto

\* Detection and the sweep write well-typed empty values.
LEMMA EmptyType ==
  /\ NoChange \in Change /\ 0 \in Age /\ 0 \in 0 .. NumSinks + 1
  /\ NoRow \in [hash : HashOrNone, age : Age]
  /\ NoMeta \in [tag : Bodies \cup {None}, age : Age]
BY PipelineAssumptions DEF NoChange, Change, HashOrNone, Age, NoRow, NoMeta

\* A RunOnce that returns leaves well-typed, empty locals.
LEMMA ForgetType ==
  ASSUME LocalsOK, Indices, pc \in [Inst -> Phases],
         NEW p \in Inst, NEW l, l # "publish", Goto(p, l), Forget(p)
  PROVE  LocalsOK' /\ Indices'
<1>1. <<>> \in Seq(Entry)
  OBVIOUS
<1>2. LocalsOK'
  BY <1>1, EmptyType DEF Forget, LocalsOK
<1>3. Indices'
  BY DEF Forget, Goto, LocalsOK, Indices
<1> QED
  BY <1>2, <1>3

LEMMA InitTypeInv == Init => TypeInv
<1> SUFFICES ASSUME Init PROVE TypeInv
  OBVIOUS
<1>1. LocalsOK
  BY EmptyType DEF Init, LocalsOK
<1>2. StoreOK /\ CleanOK
  BY ZenonT(60), EmptyType DEF Init, StoreOK, CleanOK
<1>3. SinksOK
  BY ZenonT(60) DEF Init, SinksOK, HashOrNone
<1>4. Indices
  BY DEF Init, Indices
<1> QED
  BY <1>1, <1>2, <1>3, <1>4, EmptyType, PipelineAssumptions
  DEF Init, TypeInv, TypeOK, Phases

LEMMA NextTypeInv == TypeInv /\ [Next]_vars => TypeInv'
<1> SUFFICES ASSUME TypeInv, [Next]_vars PROVE TypeInv'
  OBVIOUS
<1>0. /\ origin \in Bodies /\ lease \in Inst \cup {None} /\ pc \in [Inst -> Phases]
      /\ obs \in [Items -> Age] /\ faults \in 0 .. MaxFaults
      /\ StoreOK /\ SinksOK /\ LocalsOK /\ CleanOK /\ Indices
  BY DEF TypeInv, TypeOK
<1>P. /\ "idle" \in Phases /\ "meta" \in Phases /\ "fetch" \in Phases
      /\ "upsertMeta" \in Phases /\ "detect" \in Phases /\ "loop" \in Phases
      /\ "publish" \in Phases /\ "release" \in Phases
  BY DEF Phases
<1>1. ASSUME NEW p \in Inst, TryAcquire(p) PROVE TypeInv'
  BY <1>0, <1>P, <1>1, Frame, FrameIndices, GotoType DEF TryAcquire, TypeInv, TypeOK, Fresh
<1>2. ASSUME NEW p \in Inst, TryAcquireError(p) PROVE TypeInv'
  <2>1. Indices'
    BY <1>0, <1>2 DEF TryAcquireError, Indices, jobVars
  <2> QED
    BY <1>0, <1>2, <2>1, Frame, FaultType DEF TryAcquireError, TypeInv, TypeOK
<1>3. ASSUME NEW p \in Inst, Release(p) PROVE TypeInv'
  BY <1>0, <1>P, <1>3, Frame, FrameIndices, GotoType, FaultType
  DEF Release, TypeInv, TypeOK, Fresh
<1>4. ASSUME NEW p \in Inst, GetFeedMeta(p) PROVE TypeInv'
  <2>1. CASE Return(p)
    BY <1>0, <1>P, <1>4, <2>1, Frame, ForgetType, GotoType, FaultType
    DEF GetFeedMeta, Return, TypeInv, TypeOK
  <2>2. CASE ~Return(p)
    <3>1. /\ Goto(p, "fetch") /\ tag' = [tag EXCEPT ![p] = meta.tag]
          /\ UNCHANGED <<at, detectVars, loopVars>>
      BY <1>4, <2>2 DEF GetFeedMeta
    <3>2. LocalsOK'
      BY <1>0, <3>1 DEF LocalsOK, StoreOK, detectVars, loopVars
    <3>3. Indices'
      BY <1>0, <1>4, <3>1 DEF GetFeedMeta, Indices, detectVars, loopVars, Goto, Fresh
    <3> QED
      BY <1>0, <1>P, <1>4, <3>1, <3>2, <3>3, Frame, GotoType, FaultType
      DEF GetFeedMeta, TypeInv, TypeOK
  <2> QED
    BY <2>1, <2>2
<1>5. ASSUME NEW p \in Inst, Fetch(p) PROVE TypeInv'
  <2>1. obs' \in [Items -> Age]
    BY ZenonT(60), <1>0, <1>5 DEF Fetch
  <2>2. CASE Return(p)
    BY <1>0, <1>P, <1>5, <2>1, <2>2, Frame, ForgetType, GotoType, FaultType
    DEF Fetch, Return, TypeInv, TypeOK
  <2>3. CASE ~Return(p)
    <3>1. /\ Goto(p, "upsertMeta") /\ tag' = [tag EXCEPT ![p] = ETag]
          /\ body' = [body EXCEPT ![p] = origin]
          /\ scan' = [scan EXCEPT ![p] = DOMAIN origin]
          /\ UNCHANGED <<at, todo, loopVars>>
          /\ pc[p] = "fetch" /\ todo[p] = {}
      BY <1>0, <1>5, <2>3 DEF Fetch, Indices, Fresh
    <3>2. LocalsOK'
      BY <1>0, <3>1, BodyType DEF LocalsOK, ETag, loopVars
    <3>3. Indices'
      BY <1>0, <3>1, BodyType DEF Indices, LocalsOK, loopVars, Goto
    <3> QED
      BY <1>0, <1>P, <1>5, <2>1, <3>1, <3>2, <3>3, Frame, GotoType, FaultType
      DEF Fetch, TypeInv, TypeOK
  <2> QED
    BY <2>2, <2>3
<1>6. ASSUME NEW p \in Inst, UpsertFeedMeta(p) PROVE TypeInv'
  <2>1. StoreOK'
    BY <1>0, <1>6, EmptyType DEF UpsertFeedMeta, MetaRow, StoreOK, LocalsOK
  <2> QED
    BY <1>0, <1>P, <1>6, <2>1, Frame, FrameIndices, GotoType, FaultType
    DEF UpsertFeedMeta, TypeInv, TypeOK, Fresh
<1>7. ASSUME NEW p \in Inst, classify(p) PROVE TypeInv'
  <2>0. obs' \in [Items -> Age]
    <3>1. obs' = obs \/ \E j \in scan[p] : obs' = [obs EXCEPT ![body[p][j].id] = at[p]]
      BY ZenonT(60), <1>7 DEF classify
    <3>2. \A j \in scan[p] : body[p][j].id \in Items
      BY <1>0, EntryType DEF LocalsOK, Indices
    <3>3. at[p] \in Age
      BY <1>0 DEF LocalsOK
    <3> QED
      BY <1>0, <3>1, <3>2, <3>3
  <2>1. CASE Return(p)
    BY <1>0, <1>P, <1>7, <2>0, <2>1, Frame, ForgetType, GotoType, FaultType
    DEF classify, Return, TypeInv, TypeOK
  <2>2. CASE ~Return(p)
    <3>1. PICK j \in scan[p] :
            /\ scan' = [scan EXCEPT ![p] = @ \ {j}]
            /\ todo' \in {todo, [todo EXCEPT ![p] =
                 @ \cup {[idx |-> j, old |-> seen[body[p][j].id].hash]}]}
            /\ UNCHANGED <<pc, at, tag, body, loopVars>>
      BY <1>7, <2>2 DEF classify
    <3>2. j \in DOMAIN body[p] /\ body[p] \in Seq(Entry)
      BY <1>0 DEF LocalsOK, Indices
    <3>3. seen[body[p][j].id].hash \in HashOrNone /\ j \in Nat
      BY <1>0, <3>2, EntryType DEF StoreOK
    <3>4. [idx |-> j, old |-> seen[body[p][j].id].hash] \in Change
      BY <3>3 DEF Change
    <3>5. LocalsOK'
      <4>1. scan' \in [Inst -> SUBSET Nat]
        BY <1>0, <3>1 DEF LocalsOK
      <4>2. todo' \in [Inst -> SUBSET Change]
        <5> DEFINE c == [idx |-> j, old |-> seen[body[p][j].id].hash]
        <5>1. todo \in [Inst -> SUBSET Change] /\ c \in Change
          BY <1>0, <3>4 DEF LocalsOK
        <5>2. todo' \in {todo, [todo EXCEPT ![p] = @ \cup {c}]}
          BY <3>1
        <5> HIDE DEF c
        <5> QED
          BY <5>1, <5>2
      <4> QED
        BY <1>0, <3>1, <4>1, <4>2 DEF LocalsOK, loopVars
    <3>6. Indices'
      <4>1. pc[p] = "detect" /\ pc' = pc /\ body' = body /\ cur' = cur /\ k' = k
        BY ZenonT(60), <1>7, <3>1 DEF classify, loopVars
      <4>2. \A q \in Inst : q # p => scan'[q] = scan[q] /\ todo'[q] = todo[q]
        BY <1>0, <3>1 DEF LocalsOK
      <4>3. scan'[p] \subseteq DOMAIN body[p]
        BY <1>0, <3>1 DEF LocalsOK, Indices
      <4>4. \A c \in todo'[p] : c.idx \in DOMAIN body[p]
        <5>1. \A c \in todo'[p] : c \in todo[p] \/ c.idx = j
          BY <1>0, <3>1 DEF LocalsOK
        <5> QED
          BY <1>0, <3>2, <5>1 DEF Indices
      <4> QED
        BY <1>0, <4>1, <4>2, <4>3, <4>4 DEF Indices, Fresh
    <3> QED
      BY <1>0, <1>7, <2>0, <3>1, <3>5, <3>6, Frame, FaultType DEF classify, TypeInv, TypeOK
  <2> QED
    BY <2>1, <2>2
<1>8. ASSUME NEW p \in Inst, DetectEnd(p) PROVE TypeInv'
  BY <1>0, <1>P, <1>8, Frame, FrameIndices, GotoType DEF DetectEnd, TypeInv, TypeOK, Fresh
<1>9. ASSUME NEW p \in Inst, NextChange(p) PROVE TypeInv'
  <2>1. CASE Return(p)
    BY <1>0, <1>P, <1>9, <2>1, Frame, ForgetType, GotoType
    DEF NextChange, Return, TypeInv, TypeOK
  <2>2. CASE ~Return(p)
    <3>1. PICK c \in todo[p] :
            /\ cur' = [cur EXCEPT ![p] = c]
            /\ k' = [k EXCEPT ![p] = 1]
            /\ ok' = [ok EXCEPT ![p] = TRUE]
            /\ Goto(p, "publish")
            /\ UNCHANGED <<at, tag, detectVars>>
      BY <1>9, <2>2 DEF NextChange
    <3>2. LocalsOK'
      BY <1>0, <3>1, PipelineAssumptions DEF LocalsOK, detectVars
    <3>3. Indices'
      BY <1>0, <3>1, PipelineAssumptions DEF LocalsOK, Indices, detectVars, Goto, Fresh
    <3> QED
      BY <1>0, <1>P, <1>9, <3>1, <3>2, <3>3, Frame, GotoType
      DEF NextChange, TypeInv, TypeOK
  <2> QED
    BY <2>1, <2>2
<1>10. ASSUME NEW p \in Inst, Deliver(p) PROVE TypeInv'
  <2>1. k[p] \in Sink /\ pc[p] = "publish"
    BY <1>10 DEF Deliver
  <2>2. Cur(p).id \in Items /\ Cur(p).hash \in Hashes /\ Pair(Cur(p)) \in Items \X Hashes
    BY <2>1, CurType
  <2>3. SinksOK'
    <3>1. /\ got' \in [Sink -> SUBSET (Items \X Hashes)]
          /\ dlq' \in [Sink -> SUBSET (Items \X Hashes)]
      BY <1>0, <1>10, <2>1, <2>2 DEF Deliver, SinksOK
    <3>2. last' \in [Sink -> [Items -> HashOrNone]]
      BY <1>0, <1>10, <2>1, <2>2 DEF Deliver, SinksOK, HashOrNone
    <3>3. dup' \in BOOLEAN
      BY <1>10 DEF Deliver
    <3> QED
      BY <3>1, <3>2, <3>3 DEF SinksOK
  <2>4. LocalsOK'
    <3>1. ok' \in [Inst -> BOOLEAN]
      BY <1>0, <1>10 DEF Deliver, LocalsOK
    <3>2. k' \in [Inst -> 0 .. NumSinks + 1]
      BY <1>0, <1>10, <2>1, PipelineAssumptions DEF Deliver, LocalsOK, Sink
    <3> QED
      BY <1>0, <1>10, <3>1, <3>2 DEF Deliver, LocalsOK, detectVars
  <2>5. Indices'
    <3>1. k' = [k EXCEPT ![p] = @ + 1] /\ UNCHANGED <<pc, body, scan, todo, cur>>
      BY <1>10 DEF Deliver, detectVars
    <3> QED
      BY <1>0, <2>1, <3>1, PipelineAssumptions DEF LocalsOK, Indices, Sink
  <2> QED
    BY <1>0, <1>10, <2>3, <2>4, <2>5, Frame, FaultType DEF Deliver, TypeInv, TypeOK
<1>11. ASSUME NEW p \in Inst, UpsertItem(p) PROVE TypeInv'
  <2>1. Cur(p).id \in Items /\ Cur(p).hash \in Hashes
    BY ZenonT(60), <1>11, CurType DEF UpsertItem
  <2>2. StoreOK'
    <3>1. [hash |-> Cur(p).hash, age |-> at[p]] \in [hash : HashOrNone, age : Age]
      BY <1>0, <2>1 DEF LocalsOK, HashOrNone
    <3>2. seen' \in {seen, [seen EXCEPT ![Cur(p).id] = [hash |-> Cur(p).hash, age |-> at[p]]]}
      BY <1>11 DEF UpsertItem
    <3>3. seen' \in [Items -> [hash : HashOrNone, age : Age]]
      BY <1>0, <2>1, <3>1, <3>2 DEF StoreOK
    <3> QED
      BY <1>0, <1>11, <3>3 DEF UpsertItem, StoreOK
  <2>3. LocalsOK'
    BY <1>0, <1>11, EmptyType DEF UpsertItem, LocalsOK
  <2>4. Indices'
    BY <1>0, <1>11 DEF UpsertItem, LocalsOK, Indices, Goto, Fresh
  <2> QED
    BY ZenonT(60), <1>0, <1>P, <1>11, <2>2, <2>3, <2>4, Frame, GotoType, FaultType
    DEF UpsertItem, TypeInv, TypeOK
<1>12. ASSUME NEW p \in Inst, Crash(p) PROVE TypeInv'
  BY <1>0, <1>P, <1>12, Frame, ForgetType, GotoType, FaultType DEF Crash, TypeInv, TypeOK
<1>13. CASE LeaseExpire
  <2>1. Indices'
    BY <1>0, <1>13 DEF LeaseExpire, Indices, jobVars
  <2> QED
    BY <1>0, <1>13, <2>1, Frame, FaultType DEF LeaseExpire, TypeInv, TypeOK
<1>14. ASSUME NEW d \in Age, NEW dMeta \in Age, PruneItemsBefore(d, dMeta) PROVE TypeInv'
  <2>1. StoreOK' /\ CleanOK'
    BY <1>0, <1>14, EmptyType DEF PruneItemsBefore, StoreOK, CleanOK
  <2>2. Indices'
    BY <1>0, <1>14 DEF PruneItemsBefore, Indices, jobVars
  <2> QED
    BY <1>0, <1>14, <2>1, <2>2, Frame DEF PruneItemsBefore, TypeInv, TypeOK
<1>15. CASE StateCleanup \/ AdminPrune
  BY <1>14, <1>15, PipelineAssumptions DEF StateCleanup, AdminPrune
<1>16. CASE PruneFeedMetaBefore
  <2>1. StoreOK' /\ CleanOK'
    BY <1>0, <1>16, EmptyType DEF PruneFeedMetaBefore, StoreOK, CleanOK
  <2>2. Indices'
    BY <1>0, <1>16 DEF PruneFeedMetaBefore, Indices, jobVars
  <2> QED
    BY <1>0, <1>16, <2>1, <2>2, Frame, FaultType DEF PruneFeedMetaBefore, TypeInv, TypeOK
<1>17. CASE Tick
  <2>1. \A a \in Age : Older(a) \in Age
    BY PipelineAssumptions DEF Older, Age
  <2>2. StoreOK' /\ CleanOK' /\ obs' \in [Items -> Age]
    BY <1>0, <1>17, <2>1 DEF Tick, StoreOK, CleanOK
  <2>3. LocalsOK'
    BY <1>0, <1>17, <2>1 DEF Tick, LocalsOK, detectVars, loopVars
  <2>4. Indices'
    BY <1>0, <1>17 DEF Tick, Indices, detectVars, loopVars
  <2> QED
    BY <1>0, <1>17, <2>2, <2>3, <2>4, Frame DEF Tick, TypeInv, TypeOK
<1>18. CASE OriginChange
  <2>1. Indices'
    BY <1>0, <1>18 DEF OriginChange, Indices, jobVars
  <2> QED
    BY <1>0, <1>18, <2>1, Frame DEF OriginChange, TypeInv, TypeOK
<1>19. CASE UNCHANGED vars
  <2>1. Indices'
    BY <1>0, <1>19 DEF vars, Indices
  <2>2. UNCHANGED <<storeVars, sinkVars, cleanVars, jobVars>>
    BY <1>19 DEF vars, storeVars, sinkVars, cleanVars, jobVars
  <2> QED
    BY <1>0, <1>19, <2>1, <2>2, Frame DEF vars, TypeInv, TypeOK
<1>20. QED
  BY <1>1, <1>2, <1>3, <1>4, <1>5, <1>6, <1>7, <1>8, <1>9, <1>10, <1>11, <1>12, <1>13,
     <1>15, <1>16, <1>17, <1>18, <1>19 DEF Next, Step

\* Every reachable state is well typed: no action of the poll cycle, the
\* retention sweep or the admin prune leaves the state space.
THEOREM TypeCorrect == Spec => []TypeOK
<1>1. Spec => []TypeInv
  BY InitTypeInv, NextTypeInv, PTL DEF Spec
<1>2. TypeInv => TypeOK
  BY DEF TypeInv
<1> QED
  BY <1>1, <1>2, PTL

-----------------------------------------------------------------------------
\* While no sink has dropped the change a poll publishes, the sinks before the
\* current one have handled it: in their stream or in their dead letter.
HandledSoFar ==
  \A p \in Inst : pc[p] = "publish" /\ ok[p] =>
    \A s \in Sink : s < k[p] => Handled(s, Cur(p).id, Cur(p).hash)

\* A pending change classified as "updated" is about an item that every sink or
\* dead letter has received before.
OldWasDelivered ==
  \A p \in Inst : \A c \in todo[p] : c.old # None =>
    \A s \in Sink : \E h \in Hashes : Handled(s, body[p][c.idx].id, h)

IInv == TypeInv /\ HandledSoFar /\ CommittedWasDelivered /\ OldWasDelivered

\* Nothing is ever taken back from a sink or a dead letter.
LEMMA SinksGrow ==
  ASSUME TypeInv, [Next]_vars
  PROVE  \A s \in Sink : got[s] \subseteq got'[s] /\ dlq[s] \subseteq dlq'[s]
<1>1. ASSUME NEW p \in Inst, Deliver(p)
      PROVE  \A s \in Sink : got[s] \subseteq got'[s] /\ dlq[s] \subseteq dlq'[s]
  BY <1>1 DEF Deliver, TypeInv, TypeOK, SinksOK
<1>2. CASE UNCHANGED sinkVars
  BY <1>2 DEF sinkVars
<1>3. (\E p \in Inst : Deliver(p)) \/ UNCHANGED sinkVars
  <2>1. ASSUME NEW p \in Inst, Step(p) PROVE Deliver(p) \/ UNCHANGED sinkVars
    BY ZenonT(60), <2>1 DEF Step, TryAcquire, GetFeedMeta, Fetch, UpsertFeedMeta, classify, DetectEnd,
       NextChange, UpsertItem, Release
  <2>2. ASSUME NEW p \in Inst, TryAcquireError(p) \/ Crash(p) PROVE UNCHANGED sinkVars
    BY <2>2 DEF TryAcquireError, Crash
  <2>3. CASE \/ LeaseExpire \/ StateCleanup \/ AdminPrune \/ PruneFeedMetaBefore
             \/ Tick \/ OriginChange
    BY <2>3 DEF LeaseExpire, StateCleanup, AdminPrune, PruneItemsBefore,
       PruneFeedMetaBefore, Tick, OriginChange
  <2>4. CASE UNCHANGED vars
    BY <2>4 DEF vars, sinkVars
  <2> QED
    BY <2>1, <2>2, <2>3, <2>4 DEF Next
<1> QED
  BY <1>1, <1>2, <1>3

\* A committed row is new only if it is the change its poll has just handed to
\* every sink; every other action keeps or removes rows.
LEMMA RowsFromCommits ==
  ASSUME TypeInv, [Next]_vars, NEW i \in Items, seen'[i].hash # None
  PROVE  \/ seen'[i].hash = seen[i].hash
         \/ \E p \in Inst : /\ pc[p] = "publish" /\ ok[p] /\ k[p] = NumSinks + 1
                            /\ i = Cur(p).id /\ seen'[i].hash = Cur(p).hash
<1>1. ASSUME NEW p \in Inst, UpsertItem(p)
      PROVE  \/ seen'[i].hash = seen[i].hash
             \/ /\ pc[p] = "publish" /\ ok[p] /\ k[p] = NumSinks + 1
                /\ i = Cur(p).id /\ seen'[i].hash = Cur(p).hash
  <2>1. CASE seen' = seen
    BY <2>1
  <2>2. CASE /\ ok[p]
             /\ seen' = [seen EXCEPT ![Cur(p).id] = [hash |-> Cur(p).hash, age |-> at[p]]]
    BY ZenonT(60), <1>1, <2>2 DEF UpsertItem, TypeInv, TypeOK, StoreOK
  <2> QED
    BY <1>1, <2>1, <2>2 DEF UpsertItem, MayCommit
<1>2. ASSUME NEW d, NEW dMeta, PruneItemsBefore(d, dMeta)
      PROVE  seen'[i].hash = seen[i].hash
  BY <1>2 DEF PruneItemsBefore, NoRow
<1>3. CASE Tick
  BY <1>3 DEF Tick, TypeInv, TypeOK, StoreOK
<1>4. CASE seen' = seen
  BY <1>4
<1>5. \/ \E p \in Inst : UpsertItem(p)
      \/ \E d, dMeta : PruneItemsBefore(d, dMeta)
      \/ Tick
      \/ seen' = seen
  BY ZenonT(60) DEF Next, Step, vars, storeVars, TryAcquire, TryAcquireError, GetFeedMeta, Fetch,
     UpsertFeedMeta, classify, DetectEnd, NextChange, Deliver, Release, Crash,
     LeaseExpire, StateCleanup, AdminPrune, PruneFeedMetaBefore, OriginChange
<1> QED
  BY <1>1, <1>2, <1>3, <1>4, <1>5

\* A poll that publishes after a step was publishing the same change before it,
\* or has just started with its first sink.
LEMMA PublishingStep ==
  ASSUME TypeInv, [Next]_vars, NEW p \in Inst, pc'[p] = "publish"
  PROVE  /\ body'[p] = body[p] /\ todo'[p] = todo[p]
         /\ \/ pc[p] = "publish" /\ cur'[p] = cur[p] /\ k'[p] = k[p] /\ ok'[p] = ok[p]
            \/ pc[p] = "loop" /\ cur'[p] \in todo[p] /\ k'[p] = 1
            \/ pc[p] = "publish" /\ cur'[p] = cur[p] /\ Deliver(p)
<1> DEFINE G == /\ body'[p] = body[p] /\ todo'[p] = todo[p]
                /\ \/ /\ pc[p] = "publish" /\ cur'[p] = cur[p] /\ k'[p] = k[p]
                      /\ ok'[p] = ok[p]
                   \/ pc[p] = "loop" /\ cur'[p] \in todo[p] /\ k'[p] = 1
                   \/ pc[p] = "publish" /\ cur'[p] = cur[p] /\ Deliver(p)
<1>0. /\ pc \in [Inst -> Phases] /\ body \in [Inst -> Seq(Entry)]
      /\ todo \in [Inst -> SUBSET Change] /\ cur \in [Inst -> Change]
      /\ k \in [Inst -> 0 .. NumSinks + 1] /\ ok \in [Inst -> BOOLEAN]
  BY DEF TypeInv, TypeOK, LocalsOK
<1>1. ASSUME NEW q \in Inst, q # p, Step(q) \/ Crash(q) PROVE G
  <2>1. /\ pc'[p] = pc[p] /\ body'[p] = body[p] /\ todo'[p] = todo[p]
        /\ cur'[p] = cur[p] /\ k'[p] = k[p] /\ ok'[p] = ok[p]
    <3>1. CASE TryAcquire(q) \/ UpsertFeedMeta(q) \/ DetectEnd(q) \/ Release(q)
      BY ZenonT(60), <1>0, <1>1, <3>1 DEF TryAcquire, UpsertFeedMeta, DetectEnd, Release, Goto, jobVars
    <3>2. CASE Crash(q)
      BY ZenonT(60), <1>0, <1>1, <3>2 DEF Crash, Goto, Forget
    <3>3. CASE GetFeedMeta(q)
      BY <1>0, <1>1, <3>3 DEF GetFeedMeta, Goto, Return, Forget, detectVars, loopVars
    <3>4. CASE Fetch(q)
      BY <1>0, <1>1, <3>4 DEF Fetch, Goto, Return, Forget, loopVars
    <3>5. CASE classify(q)
      BY ZenonT(60), <1>0, <1>1, <3>5 DEF classify, Goto, Return, Forget, loopVars
    <3>6. CASE NextChange(q)
      BY <1>0, <1>1, <3>6 DEF NextChange, Goto, Return, Forget, detectVars
    <3>7. CASE Deliver(q)
      BY <1>0, <1>1, <3>7 DEF Deliver, detectVars
    <3>8. CASE UpsertItem(q)
      BY ZenonT(60), <1>0, <1>1, <3>8 DEF UpsertItem, Goto
    <3> QED
      BY ZenonT(60), <1>1, <3>1, <3>2, <3>3, <3>4, <3>5, <3>6, <3>7, <3>8 DEF Step
  <2> QED
    BY ZenonT(60), <2>1
<1>2. CASE Step(p)
  <2>1. CASE NextChange(p)
    BY <1>0, <2>1 DEF NextChange, Goto, Return, detectVars
  <2>2. CASE Deliver(p)
    BY ZenonT(60), <1>0, <2>2 DEF Deliver, detectVars
  <2>3. CASE TryAcquire(p) \/ UpsertFeedMeta(p) \/ DetectEnd(p) \/ Release(p) \/ UpsertItem(p)
    BY ZenonT(60), <1>0, <2>3 DEF TryAcquire, UpsertFeedMeta, DetectEnd, Release, UpsertItem, Goto
  <2>4. CASE GetFeedMeta(p) \/ Fetch(p) \/ classify(p)
    BY ZenonT(60), <1>0, <2>4 DEF GetFeedMeta, Fetch, classify, Goto, Return
  <2> QED
    BY ZenonT(60), <1>2, <2>1, <2>2, <2>3, <2>4 DEF Step
<1>3. CASE Crash(p)
  BY ZenonT(60), <1>0, <1>3 DEF Crash, Goto
<1>4. CASE \/ \E q \in Inst : TryAcquireError(q)
           \/ LeaseExpire \/ StateCleanup \/ AdminPrune \/ PruneFeedMetaBefore
           \/ OriginChange
  BY <1>4 DEF TryAcquireError, LeaseExpire, StateCleanup, AdminPrune, PruneItemsBefore,
     PruneFeedMetaBefore, OriginChange, jobVars
<1>5. CASE Tick
  BY <1>5 DEF Tick, detectVars, loopVars
<1>6. CASE UNCHANGED vars
  BY ZenonT(60), <1>6 DEF vars
<1> QED
  BY ZenonT(60), <1>1, <1>2, <1>3, <1>4, <1>5, <1>6 DEF Next

\* A pending change was pending before the step, or was classified by it
\* against the row then in the store.
LEMMA TodoStep ==
  ASSUME TypeInv, [Next]_vars, NEW p \in Inst, NEW c \in todo'[p]
  PROVE  /\ body'[p] = body[p]
         /\ \/ c \in todo[p]
            \/ \E j \in DOMAIN body[p] :
                 c = [idx |-> j, old |-> seen[body[p][j].id].hash]
<1> DEFINE G == /\ body'[p] = body[p]
                /\ \/ c \in todo[p]
                   \/ \E j \in DOMAIN body[p] :
                        c = [idx |-> j, old |-> seen[body[p][j].id].hash]
<1>0. /\ body \in [Inst -> Seq(Entry)] /\ todo \in [Inst -> SUBSET Change] /\ Indices
  BY ZenonT(60) DEF TypeInv, TypeOK, LocalsOK
<1>1. ASSUME NEW q \in Inst, Forget(q) PROVE G
  BY ZenonT(60), <1>0, <1>1 DEF Forget
<1>2. CASE body' = body /\ todo' = todo
  BY <1>2
<1>3. ASSUME NEW q \in Inst, Step(q) PROVE G
  <2>1. CASE TryAcquire(q) \/ UpsertFeedMeta(q) \/ DetectEnd(q) \/ Release(q) \/ Deliver(q)
    BY ZenonT(60), <1>2, <2>1 DEF TryAcquire, UpsertFeedMeta, DetectEnd, Release, Deliver, jobVars,
       detectVars
  <2>2. CASE GetFeedMeta(q) \/ NextChange(q)
    BY ZenonT(60), <1>1, <1>2, <2>2 DEF GetFeedMeta, NextChange, Return, detectVars
  <2>3. CASE Fetch(q)
    <3>1. CASE Return(q)
      BY ZenonT(60), <1>1, <3>1 DEF Return
    <3>2. CASE ~Return(q)
      <4>1. body' = [body EXCEPT ![q] = origin] /\ todo' = todo /\ pc[q] = "fetch"
        BY <2>3, <3>2 DEF Fetch
      <4>2. todo[q] = {}
        BY <1>0, <4>1 DEF Indices, Fresh
      <4> QED
        BY ZenonT(60), <1>0, <4>1, <4>2
    <3> QED
      BY ZenonT(60), <3>1, <3>2
  <2>4. CASE classify(q)
    <3>1. CASE Return(q)
      BY <1>1, <3>1 DEF Return
    <3>2. CASE ~Return(q)
      <4>1. PICK j \in scan[q] :
              /\ todo' \in {todo, [todo EXCEPT ![q] =
                   @ \cup {[idx |-> j, old |-> seen[body[q][j].id].hash]}]}
              /\ body' = body
        BY <2>4, <3>2 DEF classify
      <4>2. j \in DOMAIN body[q]
        BY <1>0 DEF Indices
      <4> DEFINE x == [idx |-> j, old |-> seen[body[q][j].id].hash]
      <4>3. todo' = todo \/ todo' = [todo EXCEPT ![q] = @ \cup {x}]
        BY ZenonT(60), <4>1
      <4> HIDE DEF x
      <4>4. c \in todo[p] \/ (p = q /\ c = x)
        <5>1. CASE todo' = todo
          BY ZenonT(60), <5>1
        <5>2. CASE todo' = [todo EXCEPT ![q] = @ \cup {x}]
          BY ZenonT(60), <1>0, <5>2
        <5> QED
          BY ZenonT(60), <4>3, <5>1, <5>2
      <4> QED
        BY ZenonT(60), <4>1, <4>2, <4>4 DEF x
    <3> QED
      BY <3>1, <3>2
  <2>5. CASE UpsertItem(q)
    BY <1>0, <2>5 DEF UpsertItem
  <2> QED
    BY ZenonT(60), <1>3, <2>1, <2>2, <2>3, <2>4, <2>5 DEF Step
<1>4. CASE \E q \in Inst : Crash(q)
  BY ZenonT(60), <1>1, <1>4 DEF Crash
<1>5. CASE \/ \E q \in Inst : TryAcquireError(q)
           \/ LeaseExpire \/ StateCleanup \/ AdminPrune \/ PruneFeedMetaBefore
           \/ OriginChange
  BY <1>2, <1>5 DEF TryAcquireError, LeaseExpire, StateCleanup, AdminPrune, PruneItemsBefore,
     PruneFeedMetaBefore, OriginChange, jobVars
<1>6. CASE Tick
  BY <1>2, <1>6 DEF Tick, detectVars
<1>7. CASE UNCHANGED vars
  BY ZenonT(60), <1>2, <1>7 DEF vars
<1> QED
  BY ZenonT(60), <1>3, <1>4, <1>5, <1>6, <1>7 DEF Next

\* The inductive step: commits follow complete deliveries.
LEMMA NextIInv == IInv /\ [Next]_vars => IInv'
<1> SUFFICES ASSUME IInv, [Next]_vars PROVE IInv'
  OBVIOUS
<1>1. TypeInv /\ TypeInv'
  BY NextTypeInv DEF IInv
<1>2. CommittedWasDelivered'
  <2> SUFFICES ASSUME NEW i \in Items, seen'[i].hash # None, NEW s \in Sink
               PROVE  Handled(s, i, seen[i].hash)'
    BY DEF CommittedWasDelivered
  <2>1. CASE seen'[i].hash = seen[i].hash
    <3>1. Handled(s, i, seen[i].hash)
      BY <2>1 DEF IInv, CommittedWasDelivered
    <3> QED
      BY <1>1, <2>1, <3>1, SinksGrow DEF Handled
  <2>2. ASSUME NEW p \in Inst, pc[p] = "publish", ok[p], k[p] = NumSinks + 1,
               i = Cur(p).id, seen'[i].hash = Cur(p).hash
        PROVE  Handled(s, i, seen[i].hash)'
    <3>1. s < k[p]
      BY <2>2, PipelineAssumptions DEF Sink
    <3>2. Handled(s, Cur(p).id, Cur(p).hash)
      BY <2>2, <3>1 DEF IInv, HandledSoFar
    <3> QED
      BY <1>1, <2>2, <3>2, SinksGrow DEF Handled
  <2> QED
    BY ZenonT(60), <1>1, <2>1, <2>2, RowsFromCommits
<1>3. HandledSoFar'
  <2> SUFFICES ASSUME NEW p \in Inst, pc'[p] = "publish", ok'[p],
                      NEW s \in Sink, s < k'[p]
               PROVE  Handled(s, Cur(p).id, Cur(p).hash)'
    BY DEF HandledSoFar
  <2>1. body'[p] = body[p]
    BY <1>1, PublishingStep
  <2>2. CASE pc[p] = "publish" /\ cur'[p] = cur[p] /\ k'[p] = k[p] /\ ok'[p] = ok[p]
    <3>1. Handled(s, Cur(p).id, Cur(p).hash)
      BY <2>2 DEF IInv, HandledSoFar
    <3> QED
      BY <1>1, <2>1, <2>2, <3>1, SinksGrow DEF Handled, Cur
  <2>3. CASE k'[p] = 1
    BY <2>3 DEF Sink
  <2>4. CASE pc[p] = "publish" /\ cur'[p] = cur[p] /\ Deliver(p)
    <3>1. ok[p] /\ k'[p] = k[p] + 1 /\ k[p] \in Sink
      BY <1>1, <2>4 DEF Deliver, TypeInv, TypeOK, LocalsOK
    <3>2. CASE s < k[p]
      <4>1. Handled(s, Cur(p).id, Cur(p).hash)
        BY ZenonT(60), <2>4, <3>1, <3>2 DEF IInv, HandledSoFar
      <4> QED
        BY ZenonT(60), <1>1, <2>1, <2>4, <4>1, SinksGrow DEF Handled, Cur
    <3>3. CASE s = k[p]
      <4>1. <<Cur(p).id, Cur(p).hash>> \in got'[s] \cup dlq'[s]
        <5>1. PICK out \in {"success", "dlq", "dropped"}, reached \in BOOLEAN :
                /\ out = "success" => reached
                /\ got' = IF reached THEN [got EXCEPT ![k[p]] = @ \cup {Pair(Cur(p))}] ELSE got
                /\ dlq' = IF out = "dlq" THEN [dlq EXCEPT ![k[p]] = @ \cup {Pair(Cur(p))}]
                          ELSE dlq
                /\ ok' = [ok EXCEPT ![p] = @ /\ out # "dropped"]
          BY ZenonT(60), <2>4 DEF Deliver
        <5>2. out # "dropped"
          BY ZenonT(60), <1>1, <5>1 DEF TypeInv, TypeOK, LocalsOK
        <5>3. got \in [Sink -> SUBSET (Items \X Hashes)] /\ dlq \in [Sink -> SUBSET (Items \X Hashes)]
          BY ZenonT(60), <1>1 DEF TypeInv, TypeOK, SinksOK
        <5>4. CASE reached
          BY ZenonT(60), <3>3, <5>1, <5>3, <5>4 DEF Pair
        <5>5. CASE out = "dlq"
          BY <3>3, <5>1, <5>3, <5>5 DEF Pair
        <5> QED
          BY ZenonT(60), <5>1, <5>2, <5>4, <5>5
      <4> QED
        BY ZenonT(60), <2>1, <2>4, <4>1 DEF Handled, Cur
    <3> QED
      BY <3>1, <3>2, <3>3 DEF Sink
  <2> QED
    BY ZenonT(60), <1>1, <2>2, <2>3, <2>4, PublishingStep
<1>4. OldWasDelivered'
  <2> SUFFICES ASSUME NEW p \in Inst, NEW c \in todo'[p], c.old # None, NEW s \in Sink
               PROVE  \E h \in Hashes : Handled(s, body[p][c.idx].id, h)'
    BY DEF OldWasDelivered
  <2>1. body'[p] = body[p]
    BY <1>1, TodoStep
  <2>2. \E h \in Hashes : Handled(s, body[p][c.idx].id, h)
    <3>1. CASE c \in todo[p]
      BY <3>1 DEF IInv, OldWasDelivered
    <3>2. ASSUME NEW j \in DOMAIN body[p],
                 c = [idx |-> j, old |-> seen[body[p][j].id].hash]
          PROVE  \E h \in Hashes : Handled(s, body[p][c.idx].id, h)
      <4>1. c.idx = j /\ c.old = seen[body[p][j].id].hash
        BY <3>2
      <4>5. body[p] \in Seq(Entry)
        BY <1>1 DEF TypeInv, TypeOK, LocalsOK
      <4>2. body[p][j].id \in Items
        BY <4>5, EntryType
      <4>3. c.old \in Hashes
        BY <1>1, <4>1, <4>2 DEF TypeInv, TypeOK, StoreOK, HashOrNone
      <4>4. Handled(s, body[p][c.idx].id, c.old)
        BY ZenonT(60), <4>1, <4>2 DEF IInv, CommittedWasDelivered
      <4> QED
        BY <4>3, <4>4
    <3> QED
      BY <1>1, <3>1, <3>2, TodoStep
  <2> QED
    BY ZenonT(60), <1>1, <2>1, <2>2, SinksGrow DEF Handled
<1> QED
  BY <1>1, <1>2, <1>3, <1>4 DEF IInv

LEMMA InitIInv == Init => IInv
<1> SUFFICES ASSUME Init PROVE IInv
  OBVIOUS
<1>1. HandledSoFar /\ OldWasDelivered
  BY DEF Init, HandledSoFar, OldWasDelivered
<1>2. CommittedWasDelivered
  BY DEF Init, CommittedWasDelivered, NoRow
<1> QED
  BY <1>1, <1>2, InitTypeInv DEF IInv

\* The inductive invariant holds in every reachable state.
THEOREM Inductive == Spec => []IInv
BY InitIInv, NextIInv, PTL DEF Spec

\* At-least-once delivery: whatever fails, crashes, expires or is pruned, an item
\* is recorded as seen only with content that every sink or its dead letter has
\* received.
THEOREM AtLeastOnce == Spec => []CommittedWasDelivered
<1>1. IInv => CommittedWasDelivered
  BY DEF IInv
<1> QED
  BY <1>1, Inductive, PTL

\* An item is announced as "updated" to a sink only if every sink or dead letter
\* has received an earlier version of it, under any loss of leases.
THEOREM UpdatesFollowNews == Spec => []UpdatedAfterNew
<1>1. IInv => UpdatedAfterNew
  BY DEF IInv, TypeInv, Indices, OldWasDelivered, UpdatedAfterNew, Cur
<1> QED
  BY <1>1, Inductive, PTL

-----------------------------------------------------------------------------
\* Nothing has failed and no row has been pruned so far.
Clean == faults = 0 /\ ~pruned

\* Only the holder of the lease is inside RunOnce.
Sole == \A p \in Inst : pc[p] # "idle" => lease = p

\* The sinks before the current one were last handed the change being
\* published, the others what the store records for its item.
Handing ==
  \A p \in Inst : pc[p] = "publish" =>
    /\ ok[p]
    /\ \A s \in Sink : last[s][Cur(p).id] = IF s < k[p] THEN Cur(p).hash
                                             ELSE seen[Cur(p).id].hash

\* For every item that is not being published the sinks agree with the store.
Settled ==
  \A i \in Items : (\A p \in Inst : pc[p] = "publish" => Cur(p).id # i) =>
    \A s \in Sink : last[s][i] = seen[i].hash

AgreeInv == Clean => Sole /\ Handing /\ Settled

\* A step after which nothing has failed is the step of a clean state.
LEMMA CleanStep ==
  ASSUME TypeInv, [Next]_vars, Clean'
  PROVE  Clean /\ NoFault
<1>1. faults \in 0 .. MaxFaults
  BY DEF TypeInv, TypeOK
<1>2. Fault \/ NoFault
  <2>1. ASSUME NEW p \in Inst, Step(p) PROVE Fault \/ NoFault
    <3>1. CASE TryAcquire(p) \/ DetectEnd(p) \/ NextChange(p)
      BY ZenonT(60), <3>1 DEF TryAcquire, DetectEnd, NextChange, NoFault
    <3>2. CASE Release(p) \/ GetFeedMeta(p) \/ Fetch(p) \/ UpsertFeedMeta(p) \/ UpsertItem(p)
      BY ZenonT(60), <3>2 DEF Release, GetFeedMeta, Fetch, UpsertFeedMeta, UpsertItem
    <3>3. CASE classify(p) \/ Deliver(p)
      BY ZenonT(60), <3>3 DEF classify, Deliver
    <3> QED
      BY ZenonT(60), <2>1, <3>1, <3>2, <3>3 DEF Step
  <2>2. ASSUME NEW p \in Inst, TryAcquireError(p) \/ Crash(p) PROVE Fault
    BY ZenonT(60), <2>2 DEF TryAcquireError, Crash
  <2>3. CASE \/ LeaseExpire \/ StateCleanup \/ AdminPrune \/ PruneFeedMetaBefore
             \/ Tick \/ OriginChange
    BY ZenonT(60), <2>3 DEF LeaseExpire, StateCleanup, AdminPrune, PruneItemsBefore,
       PruneFeedMetaBefore, Tick, OriginChange, NoFault
  <2>4. CASE UNCHANGED vars
    BY ZenonT(60), <2>4 DEF vars, NoFault
  <2> QED
    BY ZenonT(60), <2>1, <2>2, <2>3, <2>4 DEF Next
<1>3. NoFault /\ faults = 0
  BY <1>1, <1>2, PipelineAssumptions DEF Clean, Fault, NoFault
<1>4. pruned => pruned'
  <2>1. CASE pruned' = pruned
    BY ZenonT(60), <2>1
  <2>2. CASE StateCleanup \/ AdminPrune
    BY ZenonT(60), <2>2 DEF StateCleanup, AdminPrune, PruneItemsBefore
  <2>3. pruned' = pruned \/ StateCleanup \/ AdminPrune
    BY ZenonT(60) DEF Next, Step, vars, cleanVars, TryAcquire, TryAcquireError, GetFeedMeta, Fetch,
       UpsertFeedMeta, classify, DetectEnd, NextChange, Deliver, UpsertItem, Release, Crash,
       LeaseExpire, PruneFeedMetaBefore, Tick, OriginChange
  <2> QED
    BY ZenonT(60), <2>1, <2>2, <2>3
<1> QED
  BY <1>3, <1>4 DEF Clean

\* Without a failure the lease passes on only between polls.
LEMMA SoleStep ==
  ASSUME TypeInv, [Next]_vars, Exclusive, Sole, NoFault, faults = 0
  PROVE  Sole'
<1>0. pc \in [Inst -> Phases] /\ lease \in Inst \cup {None} /\ None \notin Inst
  BY PipelineAssumptions DEF TypeInv, TypeOK
<1>1. ~Fault
  BY DEF Fault, NoFault
<1>2. ASSUME NEW p \in Inst, pc[p] # "idle", lease' = lease, NEW l, Goto(p, l)
      PROVE  Sole'
  BY ZenonT(60), <1>0, <1>2 DEF Sole, Goto
<1>3. CASE lease' = lease /\ pc' = pc
  BY ZenonT(60), <1>3 DEF Sole
<1>4. ASSUME NEW p \in Inst, Step(p) PROVE Sole'
  <2>1. CASE TryAcquire(p)
    BY ZenonT(60), <1>0, <2>1 DEF TryAcquire, Granted, Goto, Sole
  <2>2. CASE Release(p)
    BY ZenonT(60), <1>0, <1>1, <2>2 DEF Release, Goto, Sole
  <2>3. CASE GetFeedMeta(p) \/ Fetch(p) \/ UpsertFeedMeta(p) \/ classify(p)
    BY ZenonT(60), <1>1, <1>2, <1>3, <2>3
    DEF GetFeedMeta, Fetch, UpsertFeedMeta, classify, Return
  <2>4. CASE DetectEnd(p) \/ NextChange(p) \/ Deliver(p) \/ UpsertItem(p)
    BY ZenonT(60), <1>2, <1>3, <2>4 DEF DetectEnd, NextChange, Deliver, UpsertItem, Return
  <2> QED
    BY ZenonT(60), <1>4, <2>1, <2>2, <2>3, <2>4 DEF Step
<1>5. ASSUME NEW p \in Inst, TryAcquireError(p) \/ Crash(p) PROVE Sole'
  BY <1>1, <1>5 DEF TryAcquireError, Crash
<1>6. CASE LeaseExpire
  BY ZenonT(60), <1>0, <1>1, <1>6 DEF LeaseExpire, Sole
<1>7. CASE StateCleanup \/ AdminPrune \/ PruneFeedMetaBefore \/ Tick \/ OriginChange
  BY ZenonT(60), <1>3, <1>7 DEF StateCleanup, AdminPrune, PruneItemsBefore, PruneFeedMetaBefore,
     Tick, OriginChange
<1>8. CASE UNCHANGED vars
  BY ZenonT(60), <1>3, <1>8 DEF vars
<1> QED
  BY ZenonT(60), <1>4, <1>5, <1>6, <1>7, <1>8 DEF Next

\* The publishing polls are left alone, and so are the sinks and the hashes of
\* the rows.
Calm ==
  /\ last' = last
  /\ \A i \in Items : seen'[i].hash = seen[i].hash
  /\ \A q \in Inst : /\ pc'[q] = "publish" <=> pc[q] = "publish"
                     /\ pc[q] = "publish" => /\ body'[q] = body[q] /\ cur'[q] = cur[q]
                                             /\ k'[q] = k[q] /\ ok'[q] = ok[q]

\* Only picking a change, delivering it and committing it disturb that.
LEMMA CalmStep ==
  ASSUME TypeInv, [Next]_vars, Clean, Clean', NoFault
  PROVE  Calm \/ \E p \in Inst : (NextChange(p) /\ ~Return(p)) \/ Deliver(p) \/ UpsertItem(p)
<1>0. /\ pc \in [Inst -> Phases] /\ body \in [Inst -> Seq(Entry)]
      /\ cur \in [Inst -> Change] /\ k \in [Inst -> 0 .. NumSinks + 1]
      /\ ok \in [Inst -> BOOLEAN]
  BY DEF TypeInv, TypeOK, LocalsOK
<1>1. ~Fault
  BY DEF Clean, NoFault, Fault
<1>2. ASSUME NEW p \in Inst, NEW l, Goto(p, l), l # "publish", pc[p] # "publish",
             UNCHANGED <<last, seen, body, loopVars>>
      PROVE  Calm
  BY ZenonT(60), <1>0, <1>2 DEF Goto, Calm, loopVars
<1>3. ASSUME NEW p \in Inst, Return(p), pc[p] # "publish", UNCHANGED <<last, seen>>
      PROVE  Calm
  BY ZenonT(60), <1>0, <1>3 DEF Return, Forget, Goto, Calm
<1>4. ASSUME UNCHANGED <<last, seen, pc, body, loopVars>> PROVE Calm
  BY ZenonT(60), <1>4 DEF Calm, loopVars
<1>5. ASSUME NEW p \in Inst, Step(p)
      PROVE  Calm \/ (NextChange(p) /\ ~Return(p)) \/ Deliver(p) \/ UpsertItem(p)
  <2>1. CASE TryAcquire(p) \/ UpsertFeedMeta(p) \/ DetectEnd(p) \/ Release(p)
    BY ZenonT(60), <1>2, <2>1 DEF TryAcquire, UpsertFeedMeta, DetectEnd, Release, storeVars, sinkVars,
       jobVars, loopVars
  <2>2. CASE GetFeedMeta(p) \/ NextChange(p)
    BY ZenonT(60), <1>1, <1>2, <1>3, <2>2 DEF GetFeedMeta, NextChange, storeVars, sinkVars, detectVars
  <2>3. CASE Fetch(p)
    <3>1. CASE Return(p)
      BY ZenonT(60), <1>3, <2>3, <3>1 DEF Fetch, storeVars, sinkVars
    <3>2. CASE ~Return(p)
      <4>1. /\ pc[p] = "fetch" /\ Goto(p, "upsertMeta")
            /\ body' = [body EXCEPT ![p] = origin]
            /\ UNCHANGED <<last, seen, loopVars>>
        BY ZenonT(60), <2>3, <3>2 DEF Fetch, storeVars, sinkVars
      <4> QED
        BY ZenonT(60), <1>0, <4>1 DEF Goto, Calm, loopVars
    <3> QED
      BY ZenonT(60), <3>1, <3>2
  <2>4. CASE classify(p)
    <3>1. UNCHANGED <<pc, body, loopVars>>
      BY <1>1, <2>4 DEF classify, loopVars
    <3>2. UNCHANGED <<last, seen>>
      BY ZenonT(60), <2>4 DEF classify, storeVars, sinkVars
    <3> QED
      BY ZenonT(60), <1>4, <3>1, <3>2
  <2> QED
    BY ZenonT(60), <1>5, <2>1, <2>2, <2>3, <2>4 DEF Step
<1>6. ASSUME NEW p \in Inst PROVE ~TryAcquireError(p) /\ ~Crash(p)
  BY ZenonT(60), <1>1 DEF TryAcquireError, Crash
<1>7. CASE StateCleanup \/ AdminPrune
  <2>1. seen' = seen
    BY ZenonT(60), <1>7 DEF StateCleanup, AdminPrune, PruneItemsBefore, Clean
  <2> QED
    BY ZenonT(60), <1>4, <1>7, <2>1 DEF StateCleanup, AdminPrune, PruneItemsBefore, jobVars, loopVars,
       sinkVars
<1>8. CASE LeaseExpire \/ PruneFeedMetaBefore \/ OriginChange
  BY ZenonT(60), <1>4, <1>8 DEF LeaseExpire, PruneFeedMetaBefore, OriginChange, jobVars, loopVars,
     sinkVars, storeVars
<1>9. CASE Tick
  <2>1. \A i \in Items : seen'[i].hash = seen[i].hash
    BY <1>9 DEF Tick, TypeInv, TypeOK, StoreOK
  <2> QED
    BY ZenonT(60), <1>9, <2>1 DEF Tick, Calm, loopVars, detectVars, sinkVars
<1>10. CASE UNCHANGED vars
  BY ZenonT(60), <1>4, <1>10 DEF vars, loopVars
<1> QED
  BY ZenonT(60), <1>5, <1>6, <1>7, <1>8, <1>9, <1>10 DEF Next

\* The poll that publishes is the only one under way.
LEMMA OnlyPublisher ==
  ASSUME Sole, NEW p \in Inst, pc[p] # "idle"
  PROVE  \A q \in Inst : q # p => pc[q] = "idle"
BY ZenonT(60) DEF Sole

\* What every sink was handed last follows the store, one change at a time.
LEMMA AgreeStep ==
  ASSUME TypeInv, [Next]_vars, Clean, Clean', NoFault, Sole, Handing, Settled
  PROVE  Handing' /\ Settled'
<1>0. /\ pc \in [Inst -> Phases] /\ body \in [Inst -> Seq(Entry)]
      /\ cur \in [Inst -> Change] /\ k \in [Inst -> 0 .. NumSinks + 1]
      /\ ok \in [Inst -> BOOLEAN] /\ last \in [Sink -> [Items -> HashOrNone]]
      /\ seen \in [Items -> [hash : HashOrNone, age : Age]]
  BY DEF TypeInv, TypeOK, LocalsOK, SinksOK, StoreOK
<1>1. CASE Calm
  <2>1. \A q \in Inst : pc[q] = "publish" => Cur(q)' = Cur(q) /\ Cur(q).id \in Items
    BY ZenonT(60), <1>1, CurType DEF Calm, Cur
  <2>2. Handing'
    BY <1>1, <2>1 DEF Calm, Handing
  <2>3. Settled'
    BY ZenonT(60), <1>1, <2>1 DEF Calm, Settled
  <2> QED
    BY <2>2, <2>3
<1>2. ASSUME NEW p \in Inst, NextChange(p), ~Return(p) PROVE Handing' /\ Settled'
  <2>1. PICK c \in todo[p] :
          /\ pc[p] = "loop"
          /\ cur' = [cur EXCEPT ![p] = c]
          /\ k' = [k EXCEPT ![p] = 1]
          /\ ok' = [ok EXCEPT ![p] = TRUE]
          /\ Goto(p, "publish")
          /\ UNCHANGED <<body, seen, last>>
    BY ZenonT(60), <1>2 DEF NextChange, detectVars, storeVars, sinkVars
  <2>2. \A q \in Inst : pc[q] # "publish"
    BY ZenonT(60), <2>1, OnlyPublisher
  <2>3. \A i \in Items, s \in Sink : last[s][i] = seen[i].hash
    BY ZenonT(60), <2>2 DEF Settled
  <2>4. \A q \in Inst : pc'[q] = "publish" => q = p
    BY ZenonT(60), <1>0, <2>1, <2>2 DEF Goto
  <2>5. TypeInv' /\ pc'[p] = "publish" /\ k'[p] = 1 /\ ok'[p]
    BY ZenonT(60), <1>0, <2>1, NextTypeInv DEF Goto
  <2>6. Cur(p)'.id \in Items
    <3>1. body[p] \in Seq(Entry) /\ c.idx \in DOMAIN body[p]
      BY <1>0 DEF TypeInv, Indices
    <3>2. Cur(p)' = body[p][c.idx]
      BY ZenonT(60), <1>0, <2>1 DEF Cur
    <3> QED
      BY <3>1, <3>2, EntryType
  <2>7. Handing'
    <3>1. \A s \in Sink : last'[s][Cur(p)'.id] = seen'[Cur(p)'.id].hash
      BY ZenonT(60), <2>1, <2>3, <2>6
    <3>2. \A s \in Sink : ~(s < k'[p])
      BY ONLY Z3T(30), SMTT(30), <2>5 DEF Sink
    <3> QED
      BY ZenonT(60), <2>4, <2>5, <3>1, <3>2 DEF Handing
  <2>8. Settled'
    BY ZenonT(60), <2>1, <2>3 DEF Settled
  <2> QED
    BY <2>7, <2>8
<1>3. ASSUME NEW p \in Inst, Deliver(p) PROVE Handing' /\ Settled'
  <2>1. /\ pc[p] = "publish" /\ k[p] \in Sink
        /\ last' = [last EXCEPT ![k[p]][Cur(p).id] = Cur(p).hash]
        /\ ok' = ok
        /\ k' = [k EXCEPT ![p] = @ + 1]
        /\ UNCHANGED <<pc, body, cur, seen>>
    <3>1. ~Fault
      BY DEF Clean, NoFault, Fault
    <3>2. PICK out \in {"success", "dlq", "dropped"}, reached \in BOOLEAN :
            /\ out = "success" => reached
            /\ IF out = "success" THEN NoFault ELSE Fault
            /\ last' = IF reached \/ out = "dlq"
                       THEN [last EXCEPT ![k[p]][Cur(p).id] = Cur(p).hash] ELSE last
            /\ ok' = [ok EXCEPT ![p] = @ /\ out # "dropped"]
      BY ZenonT(60), <1>3 DEF Deliver
    <3>3. out = "success" /\ reached
      BY ZenonT(60), <3>1, <3>2
    <3>4. ok' = ok
      BY <1>0, <3>2, <3>3
    <3> QED
      BY ZenonT(60), <1>3, <3>2, <3>3, <3>4 DEF Deliver, detectVars, storeVars
  <2>2. Cur(p).id \in Items /\ \A q \in Inst : Cur(q)' = Cur(q)
    BY <2>1, CurType DEF Cur
  <2>3. \A q \in Inst : pc[q] = "publish" => q = p
    BY ZenonT(60), <2>1, OnlyPublisher
  <2>4. ok[p] /\ \A s \in Sink : last[s][Cur(p).id] = IF s < k[p] THEN Cur(p).hash
                                                      ELSE seen[Cur(p).id].hash
    BY ZenonT(60), <2>1 DEF Handing
  <2>5. \A s \in Sink : last'[s][Cur(p).id] = IF s = k[p] THEN Cur(p).hash
                                              ELSE last[s][Cur(p).id]
    BY <1>0, <2>1, <2>2
  <2>6. \A s \in Sink, i \in Items : i # Cur(p).id => last'[s][i] = last[s][i]
    BY <1>0, <2>1, <2>2
  <2>7. \A s \in Sink : last'[s][Cur(p).id] = IF s < k[p] + 1 THEN Cur(p).hash
                                              ELSE seen[Cur(p).id].hash
    BY <2>1, <2>4, <2>5 DEF Sink
  <2>8. ok'[p] /\ k'[p] = k[p] + 1
    BY <1>0, <2>1, <2>4
  <2>9. Handing'
    BY <2>1, <2>2, <2>3, <2>7, <2>8 DEF Handing
  <2>10. Settled'
    BY <2>1, <2>2, <2>6 DEF Settled
  <2> QED
    BY <2>9, <2>10
<1>4. ASSUME NEW p \in Inst, UpsertItem(p) PROVE Handing' /\ Settled'
  <2>1. /\ pc[p] = "publish" /\ k[p] = NumSinks + 1 /\ ok[p]
        /\ seen' = [seen EXCEPT ![Cur(p).id] = [hash |-> Cur(p).hash, age |-> at[p]]]
        /\ Goto(p, "loop") /\ last' = last
    <3>1. ~Fault
      BY DEF Clean, NoFault, Fault
    <3> QED
      BY ZenonT(60), <1>4, <3>1 DEF UpsertItem, MayCommit, sinkVars, Handing
  <2>2. \A q \in Inst : pc[q] = "publish" => q = p
    BY ZenonT(60), <2>1, OnlyPublisher
  <2>3. \A q \in Inst : pc'[q] # "publish"
    BY ZenonT(60), <1>0, <2>1, <2>2 DEF Goto
  <2>4. Cur(p).id \in Items
    BY ZenonT(60), <2>1, CurType
  <2>5. \A s \in Sink : last[s][Cur(p).id] = Cur(p).hash
    <3>1. NumSinks \in Nat
      BY PipelineAssumptions
    <3>2. \A s \in Sink : s < NumSinks + 1
      BY ONLY Z3T(30), ZenonT(20), SMTT(30), <3>1 DEF Sink
    <3> QED
      BY ZenonT(60), <2>1, <3>2 DEF Handing
  <2>6. \A i \in Items : i # Cur(p).id => \A s \in Sink : last[s][i] = seen[i].hash
    BY ZenonT(60), <2>2 DEF Settled
  <2>7. \A i \in Items : seen'[i].hash = IF i = Cur(p).id THEN Cur(p).hash ELSE seen[i].hash
    BY ZenonT(60), <1>0, <2>1, <2>4
  <2>8. Settled'
    BY ZenonT(60), <2>1, <2>5, <2>6, <2>7 DEF Settled
  <2> QED
    BY ZenonT(60), <2>3, <2>8 DEF Handing
<1> QED
  BY ZenonT(60), <1>1, <1>2, <1>3, <1>4, CalmStep

LEMMA NextAgree == ASSUME Exclusive PROVE TypeInv /\ AgreeInv /\ [Next]_vars => AgreeInv'
<1> SUFFICES ASSUME TypeInv, AgreeInv, [Next]_vars, Clean'
             PROVE  Sole' /\ Handing' /\ Settled'
  BY DEF AgreeInv
<1>1. Clean /\ NoFault
  BY CleanStep
<1>2. Sole /\ Handing /\ Settled
  BY <1>1 DEF AgreeInv
<1>3. Sole'
  BY <1>1, <1>2, SoleStep DEF Clean
<1> QED
  BY <1>1, <1>2, <1>3, AgreeStep

LEMMA InitAgree == Init => AgreeInv
<1> SUFFICES ASSUME Init PROVE AgreeInv
  OBVIOUS
<1>1. Sole /\ Handing
  BY ZenonT(60) DEF Init, Sole, Handing
<1>2. Settled
  BY DEF Init, Settled, NoRow
<1> QED
  BY <1>1, <1>2 DEF AgreeInv

\* With a coordinator that grants the lease to one instance at a time, what the
\* sinks were handed last is what the store records whenever no poll is under
\* way, as long as nothing failed and nothing was pruned: for every number of
\* instances and every sequence of documents.
THEOREM ExclusiveAgrees == ASSUME Exclusive PROVE Spec => []SinksAgreeWithStore
<1>1. TypeInv /\ AgreeInv /\ [Next]_vars => AgreeInv'
  BY NextAgree
<1>2. AgreeInv => SinksAgreeWithStore
  BY DEF AgreeInv, SinksAgreeWithStore, Clean, Settled
<1>3. Spec => []TypeInv
  BY InitTypeInv, NextTypeInv, PTL DEF Spec
<1> QED
  BY <1>1, <1>2, <1>3, InitAgree, PTL DEF Spec

-----------------------------------------------------------------------------
\* Every entry is classified once, and a pending change is not what the store
\* records for its item.
NewsIn(b, left, pending, rows) ==
  /\ b \in Bodies \cup {<<>>}
  /\ \A c \in pending : /\ c.idx \notin left
                        /\ rows[b[c.idx].id].hash # b[c.idx].hash
                        /\ \A d \in pending : c.idx = d.idx => c = d

PendingIsNews == \A p \in Inst : NewsIn(body[p], scan[p], todo[p], seen)

NewsInv == Clean => PendingIsNews /\ ~dup

LEMMA NewsStep ==
  ASSUME TypeInv, [Next]_vars, ListsItemsOnce, Clean, Clean', NoFault, Sole, Handing,
         PendingIsNews
  PROVE  PendingIsNews'
<1>0. /\ pc \in [Inst -> Phases] /\ body \in [Inst -> Seq(Entry)]
      /\ scan \in [Inst -> SUBSET Nat] /\ todo \in [Inst -> SUBSET Change]
      /\ seen \in [Items -> [hash : HashOrNone, age : Age]]
      /\ origin \in Bodies /\ Indices
  BY DEF TypeInv, TypeOK, LocalsOK, StoreOK
<1>1. ~Fault
  BY DEF Clean, NoFault, Fault
<1>2. \A p \in Inst : \A c \in todo[p] : body[p][c.idx].id \in Items
  BY ZenonT(60), <1>0, EntryType DEF Indices
<1>3. ASSUME \A i \in Items : seen'[i].hash = seen[i].hash, UNCHANGED detectVars
      PROVE  PendingIsNews'
  <2>1. body' = body /\ scan' = scan /\ todo' = todo
    BY ZenonT(60), <1>3 DEF detectVars
  <2>2. \A p \in Inst : \A c \in todo[p] : seen'[body[p][c.idx].id].hash = seen[body[p][c.idx].id].hash
    BY ZenonT(60), <1>2, <1>3
  <2> QED
    BY ZenonT(60), <2>1, <2>2 DEF PendingIsNews, NewsIn
<1>4. ASSUME NEW p \in Inst, Forget(p), seen' = seen PROVE PendingIsNews'
  <2>1. body'[p] = <<>> /\ todo'[p] = {}
    BY <1>0, <1>4 DEF Forget
  <2>2. \A q \in Inst : q # p => body'[q] = body[q] /\ todo'[q] = todo[q] /\ scan'[q] = scan[q]
    BY ZenonT(60), <1>0, <1>4 DEF Forget
  <2>3. seen' = seen
    BY ZenonT(60), <1>4
  <2> QED
    <3>1. NewsIn(body'[p], scan'[p], todo'[p], seen')
      BY ONLY ZenonT(60), <2>1 DEF NewsIn
    <3>2. ASSUME NEW q \in Inst, q # p PROVE NewsIn(body'[q], scan'[q], todo'[q], seen')
      <4>1. NewsIn(body[q], scan[q], todo[q], seen)
        BY ONLY ZenonT(60), PendingIsNews, q \in Inst DEF PendingIsNews
      <4> QED
        BY ONLY ZenonT(60), q \in Inst, <3>2, <4>1, <2>2, <2>3
    <3> QED
      BY ONLY ZenonT(60), <3>1, <3>2 DEF PendingIsNews
<1>5. ASSUME NEW p \in Inst, Step(p) PROVE PendingIsNews'
  <2>1. CASE TryAcquire(p) \/ UpsertFeedMeta(p) \/ DetectEnd(p) \/ Release(p) \/ Deliver(p)
    BY ZenonT(60), <1>3, <2>1 DEF TryAcquire, UpsertFeedMeta, DetectEnd, Release, Deliver, storeVars,
       jobVars, detectVars
  <2>2. CASE GetFeedMeta(p) \/ NextChange(p)
    BY ZenonT(60), <1>3, <1>4, <2>2 DEF GetFeedMeta, NextChange, Return, storeVars
  <2>3. CASE Fetch(p)
    <3>1. CASE Return(p)
      BY ZenonT(60), <1>4, <2>3, <3>1 DEF Fetch, Return, storeVars
    <3>2. CASE ~Return(p)
      <4>1. /\ pc[p] = "fetch" /\ body' = [body EXCEPT ![p] = origin]
            /\ scan' = [scan EXCEPT ![p] = DOMAIN origin] /\ UNCHANGED <<todo, seen>>
        BY ZenonT(60), <1>1, <2>3, <3>2 DEF Fetch, storeVars
      <4>2. todo[p] = {}
        BY <1>0, <4>1 DEF Indices, Fresh
      <4>3. body'[p] \in Bodies /\ todo'[p] = {}
        BY <1>0, <4>1, <4>2
      <4>4. \A q \in Inst : q # p => body'[q] = body[q] /\ scan'[q] = scan[q] /\ todo'[q] = todo[q]
        BY ZenonT(60), <1>0, <4>1
      <4>5. seen' = seen
        BY ZenonT(60), <4>1
      <4> QED
        <5>1. NewsIn(body'[p], scan'[p], todo'[p], seen')
          BY ONLY ZenonT(60), <4>3 DEF NewsIn
        <5>2. ASSUME NEW q \in Inst, q # p PROVE NewsIn(body'[q], scan'[q], todo'[q], seen')
          <6>1. NewsIn(body[q], scan[q], todo[q], seen)
            BY ONLY ZenonT(60), PendingIsNews, q \in Inst DEF PendingIsNews
          <6> QED
            BY ONLY ZenonT(60), q \in Inst, <5>2, <6>1, <4>4, <4>5
        <5> QED
          BY ONLY ZenonT(60), <5>1, <5>2 DEF PendingIsNews
    <3> QED
      BY ZenonT(60), <3>1, <3>2
  <2>4. CASE classify(p)
    <3>1. PICK j \in scan[p] :
            /\ scan' = [scan EXCEPT ![p] = @ \ {j}]
            /\ todo' = IF Unchanged(seen[body[p][j].id], body[p][j]) THEN todo
                       ELSE [todo EXCEPT ![p] =
                               @ \cup {[idx |-> j, old |-> seen[body[p][j].id].hash]}]
            /\ UNCHANGED <<body, seen>>
      BY ZenonT(60), <1>1, <2>4 DEF classify, storeVars
    <3> DEFINE c0 == [idx |-> j, old |-> seen[body[p][j].id].hash]
    <3>2. c0.idx = j
      BY ZenonT(60)
    <3>3. scan'[p] = scan[p] \ {j}
      BY <1>0, <3>1
    <3>4. \A q \in Inst : q # p => scan'[q] = scan[q] /\ todo'[q] = todo[q]
      BY <1>0, <3>1
    <3>5. \/ todo'[p] = todo[p]
          \/ /\ todo'[p] = todo[p] \cup {c0}
             /\ seen[body[p][j].id].hash # body[p][j].hash
      BY <1>0, <3>1 DEF Unchanged
    <3> HIDE DEF c0
    <3>6. ASSUME NEW q \in Inst, q # p
          PROVE  NewsIn(body'[q], scan'[q], todo'[q], seen')
      <4>1. NewsIn(body[q], scan[q], todo[q], seen)
        BY ONLY ZenonT(60), PendingIsNews, q \in Inst DEF PendingIsNews
      <4>2. body' = body /\ seen' = seen
        BY ZenonT(60), <3>1
      <4> QED
        BY ONLY ZenonT(60), q \in Inst, <3>4, <3>6, <4>1, <4>2
    <3>7. NewsIn(body'[p], scan'[p], todo'[p], seen')
      <4>1. /\ body[p] \in Bodies \cup {<<>>}
            /\ \A c \in todo[p] :
               /\ c.idx \notin scan[p]
               /\ seen[body[p][c.idx].id].hash # body[p][c.idx].hash
               /\ \A d \in todo[p] : c.idx = d.idx => c = d
        BY ZenonT(60) DEF PendingIsNews, NewsIn
      <4>2. body'[p] = body[p] /\ seen' = seen
        BY ZenonT(60), <3>1
      <4> QED
        BY ZenonT(60), <3>2, <3>3, <3>5, <4>1, <4>2 DEF NewsIn
    <3> QED
      BY ONLY ZenonT(60), <3>6, <3>7 DEF PendingIsNews
  <2>5. CASE UpsertItem(p)
    <3>1. /\ pc[p] = "publish" /\ todo' = [todo EXCEPT ![p] = @ \ {cur[p]}]
          /\ seen' = [seen EXCEPT ![Cur(p).id] = [hash |-> Cur(p).hash, age |-> at[p]]]
          /\ UNCHANGED <<body, scan>>
      BY ZenonT(60), <1>1, <2>5 DEF UpsertItem, MayCommit, Handing
    <3>2. \A q \in Inst : q # p => todo'[q] = {}
      BY ZenonT(60), <1>0, <3>1, OnlyPublisher DEF Indices, Fresh
    <3>3. Cur(p).id \in Items /\ cur[p] \in todo[p]
      BY ZenonT(60), <1>0, <3>1, CurType DEF Indices
    <3>4. ASSUME NEW c \in todo'[p]
          PROVE  /\ c \in todo[p]
                 /\ seen'[body[p][c.idx].id].hash # body[p][c.idx].hash
      <4>1. c \in todo[p] /\ c # cur[p]
        BY ZenonT(60), <1>0, <3>1, <3>4
      <4>2. c.idx # cur[p].idx
        BY ZenonT(60), <3>3, <4>1 DEF PendingIsNews, NewsIn
      <4>3. c.idx \in DOMAIN body[p] /\ cur[p].idx \in DOMAIN body[p]
        BY ZenonT(60), <1>0, <3>3, <4>1 DEF Indices
      <4>4. body[p] \in Bodies
        <5>1. body[p] \in Bodies \cup {<<>>}
          BY ZenonT(60) DEF PendingIsNews, NewsIn
        <5> QED
          BY ONLY Z3T(30), ZenonT(20), SMTT(30), <4>3, <5>1
      <4>5. body[p][c.idx].id # Cur(p).id
        BY ZenonT(60), <4>2, <4>3, <4>4 DEF ListsItemsOnce, Cur
      <4>6. body[p][c.idx].id \in Items
        BY ZenonT(60), <1>2, <4>1
      <4>7. seen'[body[p][c.idx].id].hash = seen[body[p][c.idx].id].hash
        BY ZenonT(60), <1>0, <3>1, <4>5, <4>6
      <4> QED
        BY ZenonT(60), <4>1, <4>7 DEF PendingIsNews, NewsIn
    <3> QED
      BY ZenonT(60), <3>1, <3>2, <3>4 DEF PendingIsNews, NewsIn
  <2> QED
    BY ZenonT(60), <1>5, <2>1, <2>2, <2>3, <2>4, <2>5 DEF Step
<1>6. ASSUME NEW p \in Inst PROVE ~TryAcquireError(p) /\ ~Crash(p)
  BY ZenonT(60), <1>1 DEF TryAcquireError, Crash
<1>7. CASE StateCleanup \/ AdminPrune
  <2>1. seen' = seen
    BY ZenonT(60), <1>7 DEF StateCleanup, AdminPrune, PruneItemsBefore, Clean
  <2> QED
    BY ZenonT(60), <1>3, <1>7, <2>1 DEF StateCleanup, AdminPrune, PruneItemsBefore, jobVars, detectVars
<1>8. CASE LeaseExpire \/ PruneFeedMetaBefore \/ OriginChange
  BY ZenonT(60), <1>3, <1>8 DEF LeaseExpire, PruneFeedMetaBefore, OriginChange, jobVars, detectVars,
     storeVars
<1>9. CASE Tick
  <2>1. \A i \in Items : seen'[i].hash = seen[i].hash
    BY <1>9 DEF Tick, TypeInv, TypeOK, StoreOK
  <2> QED
    BY ZenonT(60), <1>3, <1>9, <2>1 DEF Tick
<1>10. CASE UNCHANGED vars
  BY ZenonT(60), <1>3, <1>10 DEF vars, detectVars
<1> QED
  BY ZenonT(60), <1>5, <1>6, <1>7, <1>8, <1>9, <1>10 DEF Next

\* Whatever is delivered differs from what the sink was handed last.
LEMMA NoDupStep ==
  ASSUME TypeInv, [Next]_vars, Clean, NoFault, Handing, PendingIsNews, ~dup
  PROVE  ~dup'
<1>1. ASSUME NEW p \in Inst, Deliver(p) PROVE ~dup'
  <2>1. pc[p] = "publish" /\ k[p] \in Sink /\ cur[p] \in todo[p]
    BY <1>1 DEF Deliver, TypeInv, Indices
  <2>2. last[k[p]][Cur(p).id] = seen[Cur(p).id].hash
    <3>1. ~(k[p] < k[p])
      BY <2>1 DEF Sink
    <3> QED
      BY ZenonT(60), <2>1, <3>1 DEF Handing
  <2>3. seen[Cur(p).id].hash # Cur(p).hash
    BY ZenonT(60), <2>1 DEF PendingIsNews, NewsIn, Cur
  <2> QED
    BY ZenonT(60), <1>1, <2>2, <2>3 DEF Deliver
<1>2. CASE dup' = dup
  BY <1>2
<1>3. (\E p \in Inst : Deliver(p)) \/ dup' = dup
  BY ZenonT(60) DEF Next, Step, vars, sinkVars, TryAcquire, TryAcquireError, GetFeedMeta, Fetch,
     UpsertFeedMeta, classify, DetectEnd, NextChange, UpsertItem, Release, Crash,
     LeaseExpire, StateCleanup, AdminPrune, PruneItemsBefore, PruneFeedMetaBefore, Tick,
     OriginChange
<1> QED
  BY ZenonT(60), <1>1, <1>2, <1>3

LEMMA NextNews ==
  ASSUME Exclusive, ListsItemsOnce
  PROVE  TypeInv /\ AgreeInv /\ NewsInv /\ [Next]_vars => NewsInv'
<1> SUFFICES ASSUME TypeInv, AgreeInv, NewsInv, [Next]_vars, Clean'
             PROVE  PendingIsNews' /\ ~dup'
  BY DEF NewsInv
<1>1. Clean /\ NoFault
  BY CleanStep
<1>2. Sole /\ Handing /\ PendingIsNews /\ ~dup
  BY <1>1 DEF AgreeInv, NewsInv
<1> QED
  BY <1>1, <1>2, NewsStep, NoDupStep

LEMMA InitNews == Init => NewsInv
BY DEF Init, NewsInv, PendingIsNews, NewsIn

\* With such a coordinator no sink is handed twice in a row the same content of
\* an item, unless something failed or was pruned or a document lists an item
\* twice: a poll publishes only what the store does not record, and commits it
\* before the next poll reads the store.
THEOREM ExclusiveDedupes == ASSUME Exclusive PROVE Spec => []NoDuplicateWithoutFault
<1>1. CASE ListsItemsOnce
  <2>1. TypeInv /\ AgreeInv /\ [Next]_vars => AgreeInv'
    BY NextAgree
  <2>2. TypeInv /\ AgreeInv /\ NewsInv /\ [Next]_vars => NewsInv'
    BY <1>1, NextNews
  <2>3. TypeInv /\ NewsInv => NoDuplicateWithoutFault
    BY DEF TypeInv, TypeOK, NewsInv, NoDuplicateWithoutFault, Clean
  <2>4. Spec => []TypeInv
    BY InitTypeInv, NextTypeInv, PTL DEF Spec
  <2> QED
    BY <2>1, <2>2, <2>3, <2>4, InitAgree, InitNews, PTL DEF Spec
<1>2. CASE ~ListsItemsOnce
  <2>1. NoDuplicateWithoutFault
    BY <1>2 DEF NoDuplicateWithoutFault
  <2> QED
    BY <2>1, PTL
<1> QED
  BY <1>1, <1>2

=============================================================================
