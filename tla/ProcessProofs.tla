---------------------------- MODULE ProcessProofs ----------------------------
(***************************************************************************)
(* Proofs about the parts of one process: the scheduler, for every number  *)
(* of feeds, configurations and loops; the aggregated feed sources, for    *)
(* every list of sources with names of their own; the one-shot commands,   *)
(* for every number of feeds and workers; and the delays between attempts, *)
(* for every width of the word and every setting.                          *)
(***************************************************************************)
EXTENDS Scheduler, Sources, OneShot, Backoff, FiniteSetTheorems, TLAPS

\* The provers of a leaf that names none, in turn; the translation for Z3 may give up.
USE Z3T(30), ZenonT(20), SMTT(30), Z3T(31), SMTT(31)

-----------------------------------------------------------------------------
(* Scheduler *)

\* A started loop is the one that the running map holds for its URL, with a
\* configuration that was accepted.
LoopsKnown ==
  \A l \in Loop : st[l] # "free" =>
    lurl[l] \in Url /\ running[lurl[l]] = l /\ lcfg[l] \in Cfg \ Bad

\* The running map holds started loops, under their own URLs.
RunningKnown ==
  \A u \in Url : running[u] # None => st[running[u]] # "free" /\ lurl[running[u]] = u

\* While the main goroutine waits for a loop, that loop is in the map and the
\* reconcile in progress has a reason to stop it.
Waiting ==
  /\ main \in {"stopping", "restarting"} => at \in Url /\ running[at] # None
  /\ main = "stopping" => snap[at] = None
  /\ main = "restarting" => at \in todo

\* Everything left to start was built.
Buildable == \A u \in todo : snap[u] \in Cfg \ Bad

\* A wanted feed that is not left to start runs as wanted.
Planned ==
  \A u \in Url \ todo : snap[u] # None => running[u] # None /\ lcfg[running[u]] = snap[u]

\* Once removed feeds are stopped, only wanted ones run.
NoExtra ==
  main \notin {"stop", "stopping"} => \A u \in Url : snap[u] = None => running[u] = None

\* Between reconciles nothing is left to start.
Settled == main \in {"plan", "select", "drain", "exit"} => todo = {}

SInv == LoopsKnown /\ RunningKnown /\ Waiting /\ Buildable /\ Planned /\ NoExtra /\ Settled
IInv == TypeOK /\ SInv

-----------------------------------------------------------------------------
\* The initial states satisfy the invariant.
LEMMA SchedulerInit == ASSUME SchedulerAssumptions, Init PROVE IInv
<1>1. TypeOK
  <2>1. asks \in Seq(Url) /\ Len(asks) <= QueueLen /\ faults \in 0 .. MaxFaults
    BY DEF SchedulerAssumptions, Init
  <2>2. cancelled \in [Loop -> BOOLEAN] /\ poke \in [Loop -> BOOLEAN]
    BY DEF Init
  <2>3. running \in [Url -> Loop \cup {None}] /\ snap \in FeedSet
    BY DEF Init, NoFeeds, FeedSet
  <2>4. want \in FeedSet BY ZenonT(60) DEF SchedulerAssumptions, Init
  <2>5. QED BY ZenonT(60), <2>1, <2>2, <2>3, <2>4 DEF Init, TypeOK
<1>2. SInv
  BY DEF SchedulerAssumptions, Init, SInv, LoopsKnown, RunningKnown, Waiting, Buildable,
         Planned, NoExtra, Settled, FeedSet, NoFeeds
<1>3. QED BY <1>1, <1>2 DEF IInv

\* A step that leaves the main goroutine, its plan, the running map and the
\* identity of the loops alone, and starts or frees no loop, preserves the
\* invariant on the loops.
LEMMA LoopStep ==
  ASSUME SInv, TypeOK,
         UNCHANGED <<main, rec, running, lurl, lcfg>>,
         \A l \in Loop : st'[l] = "free" <=> st[l] = "free"
  PROVE  SInv'
  BY DEF SInv, TypeOK, LoopsKnown, RunningKnown, Waiting, Buildable, Planned, NoExtra,
         Settled, rec

\* Plan preserves the invariant.
LEMMA PlanStep == ASSUME SchedulerAssumptions, IInv, Plan PROVE IInv'
<1> USE DEF IInv
<1>1. TypeOK'
  <2>1. /\ main' \in {"select", "stop"} /\ faults' \in 0 .. MaxFaults
        /\ snap' \in {snap, want} /\ todo' \in {todo, ToStart(want)} /\ at' = at
    BY DEF SchedulerAssumptions, Plan, TypeOK, rec
  <2>2. UNCHANGED <<want, owe, sig, asks, down, running, st, lurl, lcfg, cancelled, poke, owed>>
    BY DEF Plan, env, loops
  <2>3. ToStart(want) \subseteq Url
    BY DEF ToStart
  <2>4. QED BY <2>1, <2>2, <2>3 DEF TypeOK
<1>2. LoopsKnown' /\ RunningKnown'
  BY DEF Plan, SInv, LoopsKnown, RunningKnown, loops
<1>3. CASE main' = "select" /\ UNCHANGED rec
  <2>1. UNCHANGED <<snap, todo, at, running, st, lurl, lcfg>> /\ main = "plan"
    BY <1>3 DEF Plan, rec, loops
  <2>2. Waiting' /\ Buildable' /\ Planned' /\ NoExtra' /\ Settled'
    BY <1>3, <2>1 DEF SInv, Waiting, Buildable, Planned, NoExtra, Settled
  <2>3. QED BY <1>1, <1>2, <2>2 DEF SInv
<1>4. CASE /\ ~Aborts(want) /\ main' = "stop"
           /\ snap' = want /\ todo' = ToStart(want)
  <2>1. want \in FeedSet BY DEF TypeOK
  <2>2. Buildable'
    BY <1>4, <2>1 DEF Aborts, Buildable, ToStart, FeedSet
  <2>3. Planned'
    BY <1>4 DEF Plan, Planned, ToStart, Config, loops
  <2>4. Waiting' /\ NoExtra' /\ Settled'
    BY <1>4 DEF Waiting, NoExtra, Settled
  <2>5. QED BY <1>1, <1>2, <2>2, <2>3, <2>4 DEF SInv
<1>5. QED BY <1>1, <1>3, <1>4 DEF Plan

\* StopRemoved and StopChanged preserve the invariant.
LEMMA StopStep ==
  ASSUME SchedulerAssumptions, IInv, NEW u \in Url, StopRemoved(u) \/ StopChanged(u)
  PROVE  IInv'
<1> USE DEF IInv
<1>1. /\ cancelled' = [cancelled EXCEPT ![running[u]] = TRUE]
      /\ at' = u /\ main' \in {"stopping", "restarting"} /\ running[u] # None
      /\ main' = "stopping" => (main = "stop" /\ snap[u] = None)
      /\ main' = "restarting" => (main = "start" /\ u \in todo)
      /\ UNCHANGED <<env, sig, asks, down, snap, todo, running, st, lurl, lcfg, poke,
                     owed, faults>>
  BY DEF StopRemoved, StopChanged, Stop
<1>2. TypeOK'
  BY <1>1 DEF TypeOK, env
<1>3. SInv'
  BY <1>1 DEF SInv, LoopsKnown, RunningKnown, Waiting, Buildable, Planned, NoExtra, Settled
<1>4. QED BY <1>2, <1>3

\* Stopped preserves the invariant.
LEMMA StoppedStep == ASSUME SchedulerAssumptions, IInv, Stopped PROVE IInv'
<1> USE DEF IInv
<1>1. /\ at \in Url /\ running[at] \in Loop /\ lurl[running[at]] = at
      /\ main = "stopping" => snap[at] = None
      /\ main = "restarting" => at \in todo
  BY DEF Stopped, SInv, Waiting, RunningKnown, TypeOK
<1>2. TypeOK'
  BY <1>1 DEF Stopped, TypeOK, env
<1>3. LoopsKnown' /\ RunningKnown'
  BY <1>1 DEF SchedulerAssumptions, Stopped, SInv, LoopsKnown, RunningKnown, TypeOK
<1>4. Planned'
  BY <1>1 DEF SchedulerAssumptions, Stopped, SInv, Planned, RunningKnown, TypeOK
<1>5. Waiting' /\ Buildable' /\ NoExtra' /\ Settled'
  BY <1>1 DEF Stopped, SInv, Waiting, Buildable, NoExtra, Settled, TypeOK
<1>6. QED BY <1>2, <1>3, <1>4, <1>5 DEF SInv

\* startFeed preserves the invariant.
LEMMA StartStep ==
  ASSUME SchedulerAssumptions, IInv, NEW u \in Url, startFeed(u) PROVE IInv'
<1> USE DEF IInv
<1>1. PICK l \in Loop :
        /\ st[l] = "free"
        /\ st' = [st EXCEPT ![l] = "poll"]
        /\ lurl' = [lurl EXCEPT ![l] = u]
        /\ lcfg' = [lcfg EXCEPT ![l] = snap[u]]
        /\ running' = [running EXCEPT ![u] = l]
  BY ZenonT(60) DEF startFeed
<1>2. /\ main = "start" /\ u \in todo /\ running[u] = None
      /\ todo' = todo \ {u} /\ owed' \subseteq owed
      /\ UNCHANGED <<env, sig, asks, down, main, snap, at, cancelled, poke, faults>>
  BY DEF startFeed, Vacant
<1>3. snap[u] \in Cfg \ Bad
  BY <1>2 DEF SInv, Buildable
<1>4. TypeOK'
  BY <1>1, <1>2, <1>3 DEF TypeOK, env
<1>5. LoopsKnown' /\ RunningKnown'
  BY <1>1, <1>2, <1>3 DEF SchedulerAssumptions, SInv, LoopsKnown, RunningKnown, TypeOK
<1>6. Planned'
  BY <1>1, <1>2 DEF SchedulerAssumptions, SInv, Planned, LoopsKnown, RunningKnown, TypeOK
<1>7. Waiting' /\ Buildable' /\ NoExtra' /\ Settled'
  BY <1>1, <1>2, <1>3 DEF SchedulerAssumptions, SInv, Waiting, Buildable, NoExtra, Settled, TypeOK
<1>8. QED BY <1>4, <1>5, <1>6, <1>7 DEF SInv

\* The loops, the environment and the rest of the main goroutine only move
\* loops between their active states or touch the channels.
LEMMA OtherStep ==
  ASSUME SchedulerAssumptions, IInv,
         \/ SelectChanges \/ SelectPollNow \/ SelectDone \/ drainAll \/ StopEnd \/ StartEnd
         \/ \E l \in Loop : runTickEnd(l) \/ LoopTick(l) \/ LoopPoke(l) \/ LoopExit(l)
         \/ \E d \in FeedSets : Change(d)
         \/ Trigger \/ Terminate
         \/ \E u \in Url : PollNow(u)
  PROVE  IInv'
<1> USE DEF IInv
<1>1. CASE SelectChanges \/ SelectDone \/ drainAll \/ StopEnd \/ StartEnd
  <2>1. /\ UNCHANGED <<want, owe, asks, down, snap, todo, at, running, st, lurl, lcfg, poke,
                       owed, faults>>
        /\ sig' \in BOOLEAN /\ cancelled' \in [Loop -> BOOLEAN]
    BY ZenonT(60), <1>1 DEF TypeOK, SelectChanges, SelectDone, drainAll, StopEnd, StartEnd, env, rec, loops
  <2>2. \/ main' \in {"plan", "drain"} /\ main = "select"
        \/ main' = "exit" /\ main = "drain"
        \/ main' = "start" /\ main = "stop" /\ \A u \in Url : running[u] # None => snap[u] # None
        \/ main' = "select" /\ main = "start" /\ todo = {}
    BY ZenonT(60), <1>1 DEF SelectChanges, SelectDone, drainAll, StopEnd, StartEnd
  <2>3. TypeOK' BY <2>1, <2>2 DEF TypeOK
  <2>4. SInv'
    BY <2>1, <2>2 DEF SInv, LoopsKnown, RunningKnown, Waiting, Buildable, Planned, NoExtra,
                      Settled, TypeOK
  <2>5. QED BY <2>3, <2>4
<1>2. CASE SelectPollNow
  <2>1. TypeOK'
    <3>1. asks' \in Seq(Url) /\ Len(asks') <= QueueLen
      BY <1>2 DEF SchedulerAssumptions, SelectPollNow, TypeOK
    <3>2. poke' \in [Loop -> BOOLEAN]
      BY <1>2 DEF SelectPollNow, TypeOK
    <3>3. QED BY <1>2, <3>1, <3>2 DEF SelectPollNow, TypeOK, env, rec
  <2>2. SInv' BY ZenonT(60), <1>2, LoopStep DEF SelectPollNow
  <2>3. QED BY <2>1, <2>2
<1>3. CASE \E l \in Loop : runTickEnd(l) \/ LoopTick(l) \/ LoopPoke(l) \/ LoopExit(l)
  <2>1. PICK l \in Loop : runTickEnd(l) \/ LoopTick(l) \/ LoopPoke(l) \/ LoopExit(l)
    BY <1>3
  <2>2. PICK t \in {"poll", "wait", "done"} : st[l] # "free" /\ st' = [st EXCEPT ![l] = t]
    BY ZenonT(60), <2>1 DEF runTickEnd, LoopTick, LoopPoke, LoopExit, BeginPoll
  <2>3. /\ owed' \subseteq owed
        /\ poke' = poke \/ poke' = [poke EXCEPT ![l] = FALSE]
        /\ UNCHANGED <<want, owe, sig, asks, down, main, snap, todo, at, running, lurl, lcfg,
                       cancelled, faults>>
    BY ZenonT(60), <2>1 DEF runTickEnd, LoopTick, LoopPoke, LoopExit, BeginPoll, env, rec
  <2>4. TypeOK' BY ZenonT(60), <2>2, <2>3 DEF TypeOK
  <2>5. \A k \in Loop : st'[k] = "free" <=> st[k] = "free"
    BY <2>2 DEF TypeOK
  <2>6. SInv' BY ZenonT(60), <2>3, <2>5, LoopStep DEF rec
  <2>7. QED BY <2>4, <2>6
<1>4. CASE (\E d \in FeedSets : Change(d)) \/ Trigger \/ Terminate
  <2>1. want' \in FeedSet /\ owe' \in BOOLEAN /\ sig' \in BOOLEAN /\ down' \in BOOLEAN
    BY ZenonT(60), <1>4 DEF SchedulerAssumptions, Change, Trigger, Terminate, Signalled, TypeOK, env
  <2>2. UNCHANGED <<asks, main, snap, todo, at, running, st, lurl, lcfg, cancelled, poke, owed,
                    faults>>
    BY ZenonT(60), <1>4 DEF Change, Trigger, Terminate, rec, loops
  <2>3. TypeOK' BY <2>1, <2>2 DEF TypeOK
  <2>4. /\ UNCHANGED <<main, rec, running, lurl, lcfg>>
        /\ \A k \in Loop : st'[k] = "free" <=> st[k] = "free"
    BY ZenonT(60), <2>2 DEF rec
  <2>5. SInv' BY ZenonT(60), <2>4, LoopStep
  <2>6. QED BY <2>3, <2>5
<1>5. CASE \E u \in Url : PollNow(u)
  <2>0. PICK u \in Url : PollNow(u)
    BY ZenonT(60), <1>5
  <2>a. /\ asks' = Append(asks, u) /\ owed' = owed \cup {u} /\ Len(asks) < QueueLen
        /\ UNCHANGED <<env, sig, down, main, rec, running, loops, faults>>
    BY ZenonT(60), <2>0 DEF PollNow, Room
  <2>1. asks' \in Seq(Url) /\ Len(asks') <= QueueLen /\ owed' \subseteq Url
    <3>1. asks \in Seq(Url) /\ owed \subseteq Url /\ QueueLen \in Nat
      BY ZenonT(60) DEF SchedulerAssumptions, TypeOK
    <3> QED
      BY ONLY Z3T(30), SMTT(30), <2>a, <3>1
  <2>2. UNCHANGED <<want, owe, sig, down, main, snap, todo, at, running, st, lurl, lcfg,
                    cancelled, poke, faults>>
    BY ONLY ZenonT(60), <2>a DEF env, rec, loops
  <2>3. TypeOK' BY <2>1, <2>2 DEF TypeOK
  <2>4. SInv' BY ZenonT(60), <2>2, LoopStep DEF rec
  <2>5. QED BY <2>3, <2>4
<1>6. QED BY <1>1, <1>2, <1>3, <1>4, <1>5

\* A stuttering step preserves the invariant.
LEMMA StutterStep == ASSUME IInv, UNCHANGED vars PROVE IInv'
<1>1. UNCHANGED <<want, owe, sig, asks, down, main, snap, todo, at, running, st, lurl, lcfg,
                  cancelled, poke, owed, faults>>
  BY DEF vars, env, rec, loops
<1>2. TypeOK' BY <1>1 DEF IInv, TypeOK
<1>3. SInv' BY <1>1, LoopStep DEF IInv, rec
<1>4. QED BY <1>2, <1>3 DEF IInv

\* Every reachable state satisfies the invariant.
THEOREM SchedulerInductive == ASSUME SchedulerAssumptions PROVE Spec => []IInv
<1>1. Init => IInv BY SchedulerInit
<1>2. IInv /\ [Next]_vars => IInv'
  BY PlanStep, StopStep, StoppedStep, StartStep, OtherStep, StutterStep DEF Next, Reconcile
<1>3. QED BY <1>1, <1>2, PTL DEF Spec

\* The state of the scheduler is well typed.
THEOREM SchedulerTypeCorrect == ASSUME SchedulerAssumptions PROVE Spec => []TypeOK
<1>1. IInv => TypeOK BY DEF IInv
<1>2. QED BY <1>1, SchedulerInductive, PTL

\* A feed never has two loops, whatever is reloaded or restarted.
THEOREM SchedulerOneLoop == ASSUME SchedulerAssumptions PROVE Spec => []OneLoopPerUrl
<1>1. IInv => OneLoopPerUrl
  BY DEF IInv, SInv, LoopsKnown, OneLoopPerUrl, Live
<1>2. QED BY <1>1, SchedulerInductive, PTL

\* Reloads are atomic.
THEOREM SchedulerAtomicReload == ASSUME SchedulerAssumptions PROVE Spec => []AtomicReload
<1>1. IInv => AtomicReload
  BY DEF IInv, SInv, TypeOK, FeedSet, Planned, NoExtra, Settled, AtomicReload, Config
<1>2. QED BY <1>1, SchedulerInductive, PTL

\* A refused configuration never runs.
THEOREM SchedulerNoBadFeed == ASSUME SchedulerAssumptions PROVE Spec => []NoBadFeedRuns
<1>1. IInv => NoBadFeedRuns
  BY DEF IInv, SInv, LoopsKnown, NoBadFeedRuns, Live
<1>2. QED BY <1>1, SchedulerInductive, PTL

\* The three together: whatever is reloaded, restarted or refused, the loops are those
\* of one accepted feed set.
THEOREM SchedulerReloadIsSafe == ASSUME SchedulerAssumptions PROVE Spec => []ReloadIsSafe
BY SchedulerOneLoop, SchedulerAtomicReload, SchedulerNoBadFeed, PTL DEF ReloadIsSafe

-----------------------------------------------------------------------------
(* Sources *)

\* A nonempty set of natural numbers has a least element.
LEMMA LeastNat ==
  ASSUME NEW T \in SUBSET Nat, T # {} PROVE \E x \in T : \A y \in T : x <= y
<1>1. PICK x \in T : \A y \in T : ~(<<y, x>> \in OpToRel(<, Nat))
  BY ZenonT(60), NatLessThanWellFounded, WFMin
<1>2. \A y \in T : ~(y < x) BY ZenonT(60), <1>1 DEF OpToRel
<1>3. QED BY <1>2

\* Sources have names of their own, as they do unless feed_sources gives two the same.
DistinctNames == \A j, k \in Idx : SourceName[j] = SourceName[k] => j = k

\* The list of a source's last successful read is its slot of the call under way, or
\* else what the aggregator remembers under its name.
SourcesInv ==
  /\ results \in [Idx -> [feeds : SUBSET FeedUrl, ok : BOOLEAN, filled : BOOLEAN]]
  /\ offered \in [Idx -> [feeds : SUBSET FeedUrl, ok : BOOLEAN]]
  /\ lastGood = [n \in {SourceName[k] : k \in Idx} |-> lastGood[n]]
  /\ lastRead = [k \in Idx |-> lastRead[k]]
  /\ merged \in [FeedUrl -> Idx \cup {0}]
  /\ \A k \in Idx : /\ ~results[k].filled => ~results[k].ok
                    /\ lastRead[k] = IF results[k].ok THEN results[k].feeds ELSE lastGood[SourceName[k]]

LEMMA IdxIs == Idx = 1 .. Len(SourceName) /\ Len(SourceName) \in Nat /\ Idx \subseteq Nat \ {0}
BY SourcesAssumptions DEF SourcesAssumptions, Idx

\* A merge maps a feed to a source that lists it, or to none.
LEMMA MergeIs ==
  ASSUME NEW lists, NEW u \in FeedUrl
  PROVE  /\ Merge(lists) \in [FeedUrl -> Idx \cup {0}]
         /\ Merge(lists)[u] = 0 => \A k \in Idx : u \notin lists[k]
<1>1. ASSUME NEW w \in FeedUrl, NEW by, by = {k \in Idx : w \in lists[k]}, by # {}
      PROVE  Min(by) \in Idx /\ Min(by) # 0
  <2>1. by \in SUBSET Nat /\ by \subseteq Idx /\ 0 \notin by
    BY <1>1, IdxIs
  <2>2. \E x \in by : \A y \in by : x <= y
    BY <1>1, <2>1, LeastNat
  <2>3. Min(by) \in by
    BY <2>2 DEF Min
  <2> QED
    BY ZenonT(60), <2>1, <2>3
<1>2. \A w \in FeedUrl : LET by == {k \in Idx : w \in lists[k]}
                         IN  (IF by = {} THEN 0 ELSE Min(by)) \in Idx \cup {0}
  BY <1>1
<1>3. Merge(lists)[u] = 0 => {k \in Idx : u \in lists[k]} = {}
  BY <1>1 DEF Merge
<1> QED
  BY <1>2, <1>3 DEF Merge

LEMMA ListIs ==
  ASSUME NEW l \in {List(s) : s \in SUBSET FeedUrl} \cup {Broken}
  PROVE  l \in [feeds : SUBSET FeedUrl, ok : BOOLEAN]
<1>1. \A s \in SUBSET FeedUrl : \A b \in BOOLEAN : [feeds |-> s, ok |-> b] \in [feeds : SUBSET FeedUrl, ok : BOOLEAN]
  OBVIOUS
<1>2. {} \in SUBSET FeedUrl /\ TRUE \in BOOLEAN /\ FALSE \in BOOLEAN
  OBVIOUS
<1> QED
  BY <1>1, <1>2, ZenonT(60) DEF List, Broken

LEMMA SourcesInitInv == SourcesInit => SourcesInv
<1> SUFFICES ASSUME SourcesInit PROVE SourcesInv
  OBVIOUS
<1>1. results = NoSlots /\ merged = NoFeed /\ lastRead = [k \in Idx |-> {}]
      /\ lastGood = [n \in {SourceName[k] : k \in Idx} |-> {}]
  BY DEF SourcesInit
<1>2. results \in [Idx -> [feeds : SUBSET FeedUrl, ok : BOOLEAN, filled : BOOLEAN]]
      /\ \A k \in Idx : ~results[k].filled /\ ~results[k].ok
  BY <1>1 DEF NoSlots, Pending
<1>3. offered \in [Idx -> [feeds : SUBSET FeedUrl, ok : BOOLEAN]]
  <2>1. offered \in [Idx -> {List(s) : s \in SUBSET FeedUrl}]
    BY DEF SourcesInit
  <2>2. {List(s) : s \in SUBSET FeedUrl} \subseteq [feeds : SUBSET FeedUrl, ok : BOOLEAN]
    BY ListIs, ZenonT(60)
  <2> QED
    BY <2>1, <2>2
<1>4. merged \in [FeedUrl -> Idx \cup {0}]
  BY <1>1 DEF NoFeed
<1>5. \A k \in Idx : lastRead[k] = {} /\ lastGood[SourceName[k]] = {}
  BY <1>1
<1> QED
  BY <1>1, <1>2, <1>3, <1>4, <1>5 DEF SourcesInv

LEMMA SourcesNextInv ==
  ASSUME DistinctNames, SourcesInv, [SourcesNext]_sourceVars
  PROVE  SourcesInv'
<1>1. ASSUME UNCHANGED <<results, lastGood, lastRead, merged>>,
             offered' \in [Idx -> [feeds : SUBSET FeedUrl, ok : BOOLEAN]]
      PROVE  SourcesInv'
  BY <1>1 DEF SourcesInv
<1>2. ASSUME NEW k \in Idx, EditList(k) PROVE SourcesInv'
  <2>1. offered' \in [Idx -> [feeds : SUBSET FeedUrl, ok : BOOLEAN]]
    <3>1. PICK l \in {List(s) : s \in SUBSET FeedUrl} \cup {Broken} : offered' = [offered EXCEPT ![k] = l]
      BY <1>2, ZenonT(60) DEF EditList
    <3>2. l \in [feeds : SUBSET FeedUrl, ok : BOOLEAN]
      BY ListIs, ZenonT(60)
    <3> QED
      BY <3>1, <3>2 DEF SourcesInv
  <2> QED
    BY <1>1, <1>2, <2>1 DEF EditList, history
<1>3. ASSUME NEW k \in Idx, Emit(k) \/ PollTicks(k) \/ ForwardStep(k) PROVE SourcesInv'
  <2>1. UNCHANGED <<results, lastGood, lastRead, merged, offered>>
    BY <1>3 DEF Emit, PollTicks, ForwardStep, ForwardTakes, ForwardTriggers, history
  <2> QED
    BY <1>1, <2>1 DEF SourcesInv
<1>4. ASSUME NEW k \in Idx, Feeds(k) PROVE SourcesInv'
  <2>0. PICK ok \in {offered[k].ok, FALSE} :
          /\ results' = [results EXCEPT ![k] = [feeds |-> IF ok THEN offered[k].feeds ELSE {}, ok |-> ok,
                                                filled |-> TRUE]]
          /\ lastRead' = [lastRead EXCEPT ![k] = IF ok THEN offered[k].feeds ELSE @]
    BY ZenonT(60), <1>4 DEF Feeds
  <2>1. ~results[k].filled /\ UNCHANGED <<offered, lastGood, merged>>
    BY <1>4 DEF Feeds
  <2>2. offered[k].feeds \in SUBSET FeedUrl /\ offered[k].ok \in BOOLEAN /\ ok \in BOOLEAN
    BY ZenonT(60), <2>0 DEF SourcesInv
  <2> DEFINE slot == [feeds |-> IF ok THEN offered[k].feeds ELSE {}, ok |-> ok, filled |-> TRUE]
  <2>3. /\ slot \in [feeds : SUBSET FeedUrl, ok : BOOLEAN, filled : BOOLEAN]
        /\ slot.ok = ok /\ slot.filled = TRUE /\ slot.feeds = IF ok THEN offered[k].feeds ELSE {}
    BY <2>2
  <2>4. results' = [results EXCEPT ![k] = slot]
    BY <2>0
  <2> HIDE DEF slot
  <2>5. lastRead[k] = lastGood[SourceName[k]]
    BY <2>1 DEF SourcesInv
  <2>6. \A j \in Idx :
          /\ ~results'[j].filled => ~results'[j].ok
          /\ lastRead'[j] = IF results'[j].ok THEN results'[j].feeds ELSE lastGood'[SourceName[j]]
    BY <2>0, <2>1, <2>3, <2>4, <2>5 DEF SourcesInv
  <2>7. results' \in [Idx -> [feeds : SUBSET FeedUrl, ok : BOOLEAN, filled : BOOLEAN]]
    BY <2>3, <2>4 DEF SourcesInv
  <2>8. lastRead' = [j \in Idx |-> lastRead'[j]]
    BY ZenonT(60), <2>0 DEF SourcesInv
  <2> QED
    BY ZenonT(60), <2>1, <2>6, <2>7, <2>8 DEF SourcesInv
<1>5. CASE Reload
  BY <1>1, <1>5 DEF Reload, history, SourcesInv
<1>6. ASSUME NEW who, DesiredStarts(who) PROVE SourcesInv'
  BY <1>1, <1>6 DEF DesiredStarts, history, SourcesInv
<1>7. CASE DesiredReturns
  <2> DEFINE Good(n) == {k \in Idx : SourceName[k] = n /\ results[k].ok}
  <2>1. /\ lastGood' = [n \in DOMAIN lastGood |->
                          IF Good(n) = {} THEN lastGood[n] ELSE results[Max(Good(n))].feeds]
        /\ merged' \in {Merge([k \in Idx |-> Contribution(k)]), merged}
        /\ results' = NoSlots /\ UNCHANGED <<offered, lastRead>>
    BY ZenonT(60), <1>7 DEF DesiredReturns, history
  <2>2. DOMAIN lastGood = {SourceName[k] : k \in Idx}
    BY DEF SourcesInv
  <2>3. \A k \in Idx : lastGood'[SourceName[k]] = lastRead[k]
    <3> TAKE k \in Idx
    <3>1. SourceName[k] \in DOMAIN lastGood
      BY <2>2
    <3>2. CASE results[k].ok
      <4>1. Good(SourceName[k]) = {k}
        BY <3>2 DEF DistinctNames
      <4>2. k \in Nat
        BY IdxIs
      <4>3. Max({k}) = k
        BY <4>2 DEF Max
      <4> QED
        BY ZenonT(60), <2>1, <3>1, <3>2, <4>1, <4>3 DEF SourcesInv
    <3>3. CASE ~results[k].ok
      <4>1. Good(SourceName[k]) = {}
        BY <3>3 DEF DistinctNames
      <4> QED
        BY ZenonT(60), <2>1, <3>1, <3>3, <4>1 DEF SourcesInv
    <3> QED
      BY <3>2, <3>3
  <2>4. merged' \in [FeedUrl -> Idx \cup {0}]
    <3>1. CASE FeedUrl = {}
      BY ZenonT(60), <2>1, <3>1 DEF SourcesInv, Merge
    <3>2. CASE FeedUrl # {}
      <4>1. Merge([k \in Idx |-> Contribution(k)]) \in [FeedUrl -> Idx \cup {0}]
        BY <3>2, MergeIs
      <4> QED
        BY <2>1, <4>1 DEF SourcesInv
    <3> QED
      BY <3>1, <3>2
  <2>5. /\ results' \in [Idx -> [feeds : SUBSET FeedUrl, ok : BOOLEAN, filled : BOOLEAN]]
        /\ \A k \in Idx : ~results'[k].filled /\ ~results'[k].ok
    BY <2>1 DEF NoSlots, Pending
  <2>6. lastGood' = [n \in {SourceName[k] : k \in Idx} |-> lastGood'[n]]
    BY <2>1, <2>2
  <2> QED
    BY ZenonT(60), <2>1, <2>3, <2>4, <2>5, <2>6 DEF SourcesInv
<1>8. CASE UNCHANGED sourceVars
  BY ZenonT(60), <1>1, <1>8 DEF sourceVars, SourcesInv
<1> QED
  BY <1>2, <1>3, <1>4, <1>5, <1>6, <1>7, <1>8 DEF SourcesNext

\* For every number of sources with names of their own: a read that fails takes none of
\* its source's feeds away from the scheduler.
THEOREM SourcesKeepFeeds == ASSUME DistinctNames PROVE SourcesSpec => KeepsLastGood
<1>1. SourcesInv /\ [SourcesNext]_sourceVars =>
        [\A u \in FeedUrl : merged[u] # 0 /\ merged'[u] = 0 => u \notin lastRead[merged[u]]]_sourceVars
  <2> SUFFICES ASSUME SourcesInv, SourcesNext, NEW u \in FeedUrl, merged[u] # 0, merged'[u] = 0
               PROVE  u \notin lastRead[merged[u]]
    OBVIOUS
  <2>1. merged' = Merge([k \in Idx |-> Contribution(k)])
    BY ZenonT(60) DEF SourcesNext, EditList, Emit, PollTicks, ForwardStep, ForwardTakes, ForwardTriggers, Feeds,
           Reload, DesiredStarts, DesiredReturns
  <2>2. merged[u] \in Idx
    BY DEF SourcesInv
  <2>3. u \notin Contribution(merged[u])
    BY <2>1, <2>2, MergeIs
  <2>4. LastGoodOf(merged[u]) = lastGood[SourceName[merged[u]]]
    <3>1. \A j \in Idx : j < merged[u] => j # merged[u]
      BY <2>2, IdxIs
    <3>2. {j \in Idx : j < merged[u] /\ SourceName[j] = SourceName[merged[u]] /\ results[j].ok} = {}
      BY <2>2, <3>1 DEF DistinctNames
    <3> QED
      BY <3>2 DEF LastGoodOf
  <2> QED
    BY <2>2, <2>3, <2>4 DEF Contribution, SourcesInv
<1>2. SourcesInv /\ [SourcesNext]_sourceVars => SourcesInv'
  BY SourcesNextInv
<1> QED
  BY <1>1, <1>2, SourcesInitInv, PTL DEF SourcesSpec, KeepsLastGood

-----------------------------------------------------------------------------
(* OneShot *)

OneShotTypeOK ==
  /\ cycle \in {"snapshot", "feed", "close", "returned"}
  /\ wanted \in SUBSET Job /\ queue \in Seq(wanted)
  /\ doing \in [Worker -> wanted \cup {NoJob}]
  /\ worker \in [Worker -> {"idle", "check", "poll", "gone"}]
  /\ stopped \in BOOLEAN
  /\ ran \in SUBSET (wanted \X {"ok", "failed", "cancelled"})

Queued == {queue[k] : k \in 1 .. Len(queue)}
Taken == {doing[w] : w \in Worker} \ {NoJob}
RanJobs == {r[1] : r \in ran}

\* A pipeline of the cycle is in one place only: in the queue, once, or with one worker,
\* or run.
OnePlace ==
  /\ \A k, l \in 1 .. Len(queue) : queue[k] = queue[l] => k = l
  /\ \A v, w \in Worker : doing[v] = doing[w] /\ doing[v] # NoJob => v = w
  /\ Queued \cap Taken = {} /\ Queued \cap RanJobs = {} /\ Taken \cap RanJobs = {}

\* Until its context ends, a cycle drops no pipeline, and an outcome that is not reported
\* is a success.
Accounted ==
  /\ ~stopped => wanted \subseteq Queued \cup Taken \cup RanJobs
  /\ \A r \in ran : (r[2] = "failed" => r[1] \in errs) /\ (r[2] = "cancelled" => stopped)

OneShotInv ==
  /\ OneShotTypeOK /\ OnePlace /\ Accounted
  /\ \A w \in Worker : doing[w] # NoJob <=> worker[w] \in {"check", "poll"}
  /\ cycle = "snapshot" => ran = {} /\ \A w \in Worker : worker[w] = "gone"
  /\ cycle # "feed" => queue = <<>>
  /\ cycle = "returned" => \A w \in Worker : worker[w] = "gone"

LEMMA TailIs ==
  ASSUME NEW S, NEW q \in Seq(S), q # <<>>
  PROVE  /\ Len(q) \in Nat \ {0} /\ Tail(q) \in Seq(S) /\ Len(Tail(q)) = Len(q) - 1
         /\ \A k \in 1 .. Len(q) - 1 : Tail(q)[k] = q[k + 1]
         /\ Head(q) = q[1] /\ q[1] \in S
OBVIOUS

\* Taking the first of the queue leaves the others in it.
LEMMA QueueTail ==
  ASSUME OneShotInv, queue # <<>>, queue' = Tail(queue)
  PROVE  /\ Queued' = Queued \ {Head(queue)} /\ Head(queue) \in Queued
         /\ \A k, l \in 1 .. Len(queue') : queue'[k] = queue'[l] => k = l
<1>1. queue \in Seq(wanted) /\ \A k, l \in 1 .. Len(queue) : queue[k] = queue[l] => k = l
  BY DEF OneShotInv, OneShotTypeOK, OnePlace
<1>2. /\ Len(queue) \in Nat \ {0} /\ Len(queue') = Len(queue) - 1
      /\ \A k \in 1 .. Len(queue) - 1 : queue'[k] = queue[k + 1]
      /\ Head(queue) = queue[1]
  BY <1>1, TailIs
<1>3. \A k, l \in 1 .. Len(queue') : queue'[k] = queue'[l] => k = l
  BY <1>1, <1>2
<1>4. Head(queue) \in Queued
  BY <1>2 DEF Queued
<1>5. \A k \in 1 .. Len(queue') : queue'[k] \in Queued \ {Head(queue)}
  BY <1>1, <1>2 DEF Queued
<1>6. ASSUME NEW k \in 1 .. Len(queue), queue[k] # Head(queue) PROVE queue[k] \in Queued'
  <2>1. k - 1 \in 1 .. Len(queue') /\ queue'[k - 1] = queue[k]
    BY <1>2, <1>6
  <2> QED
    BY <2>1 DEF Queued
<1>7. \A x \in Queued' : x \in Queued \ {Head(queue)}
  BY ZenonT(60), <1>5 DEF Queued
<1>8. \A x \in Queued \ {Head(queue)} : x \in Queued'
  BY <1>6 DEF Queued
<1>9. Queued' = Queued \ {Head(queue)}
  BY ONLY ZenonT(60), <1>7, <1>8
<1> QED
  BY ONLY Z3T(30), SMTT(30), <1>3, <1>4, <1>9

\* A queue as long as the set it lists, without repetition, lists all of it.
LEMMA QueueListsAll ==
  ASSUME NEW S \in SUBSET Job,
         NEW q \in {f \in [1 .. Cardinality(S) -> S] : IsInjective(f)}
  PROVE  /\ q \in Seq(S) /\ S = {q[k] : k \in 1 .. Len(q)}
         /\ \A k, l \in 1 .. Len(q) : q[k] = q[l] => k = l
<1>1. IsFiniteSet(S)
  BY OneShotAssumptions, FS_Subset DEF OneShotAssumptions
<1>2. PICK n \in Nat : n = Cardinality(S)
  BY <1>1, FS_CardinalityType
<1>3. q \in [1 .. n -> S] /\ IsInjective(q)
  BY <1>2
<1>4. q \in Injection(1 .. n, S)
  BY <1>3, ZenonT(60) DEF Injection
<1>5. Cardinality(1 .. n) = n
  BY FS_Interval
<1>6. q \in Surjection(1 .. n, S)
  BY <1>1, <1>2, <1>4, <1>5, FS_Injection, ZenonT(60)
<1>7. \A t \in S : \E k \in 1 .. n : q[k] = t
  BY <1>6, ZenonT(60) DEF Surjection
<1>8. q \in Seq(S) /\ Len(q) = n
  BY <1>3
<1>9. \A k, l \in 1 .. n : q[k] = q[l] => k = l
  BY <1>3, ZenonT(60) DEF IsInjective
<1>10. \A k \in 1 .. n : q[k] \in S
  BY ZenonT(60), <1>3
<1>11. S = {q[k] : k \in 1 .. n}
  BY <1>7, <1>10, ZenonT(60)
<1> QED
  BY <1>8, <1>9, <1>11

LEMMA OneShotInitInv == OneShotInit => OneShotInv
<1> SUFFICES ASSUME OneShotInit PROVE OneShotInv
  OBVIOUS
<1>1. Queued = {} /\ Taken = {} /\ RanJobs = {} /\ Len(queue) = 0 /\ queue \in Seq(wanted)
  BY DEF OneShotInit, Queued, Taken, RanJobs
<1>2. OneShotTypeOK
  BY ZenonT(60), <1>1 DEF OneShotInit, OneShotTypeOK
<1>3. OnePlace /\ Accounted
  BY <1>1 DEF OneShotInit, OnePlace, Accounted
<1> QED
  BY <1>2, <1>3 DEF OneShotInit, OneShotInv

\* Where the pipelines are after a worker's has changed.
LEMMA TakenBy ==
  ASSUME OneShotInv, NEW w \in Worker, NEW j \in wanted \cup {NoJob},
         doing' = [doing EXCEPT ![w] = j]
  PROVE  /\ Taken' = (Taken \ {doing[w]}) \cup ({j} \ {NoJob})
         /\ j \notin Taken => \A u, v \in Worker : doing'[u] = doing'[v] /\ doing'[u] # NoJob => u = v
<1>1. /\ doing \in [Worker -> wanted \cup {NoJob}]
      /\ \A u, v \in Worker : doing[u] = doing[v] /\ doing[u] # NoJob => u = v
  BY DEF OneShotInv, OneShotTypeOK, OnePlace
<1>2. doing'[w] = j /\ \A v \in Worker : v # w => doing'[v] = doing[v]
  BY <1>1
<1>3. Taken' \subseteq (Taken \ {doing[w]}) \cup ({j} \ {NoJob})
  BY <1>1, <1>2 DEF Taken
<1>4. (Taken \ {doing[w]}) \cup ({j} \ {NoJob}) \subseteq Taken'
  BY <1>1, <1>2 DEF Taken
<1>5. j \notin Taken => \A u, v \in Worker : doing'[u] = doing'[v] /\ doing'[u] # NoJob => u = v
  BY <1>1, <1>2 DEF Taken
<1> QED
  BY <1>3, <1>4, <1>5

LEMMA OneShotNextInv == OneShotInv /\ [OneShotNext]_oneShotVars => OneShotInv'
<1> SUFFICES ASSUME OneShotInv, [OneShotNext]_oneShotVars PROVE OneShotInv'
  OBVIOUS
<1>0. OneShotTypeOK /\ OnePlace /\ Accounted
  BY DEF OneShotInv
<1>n. NoJob \notin wanted
  BY <1>0, OneShotAssumptions DEF OneShotAssumptions, OneShotTypeOK
<1>1. CASE Snapshot
  <2>0. /\ ran' = {} /\ doing' = [w \in Worker |-> NoJob] /\ stopped' = stopped /\ Taken' = {} /\ RanJobs' = {}
        /\ cycle = "snapshot" /\ \A w \in Worker : worker[w] = "gone"
    <3>1. /\ cycle = "snapshot" /\ UNCHANGED <<doing, stopped, ran>>
      BY <1>1 DEF Snapshot
    <3>2. ran = {} /\ \A w \in Worker : worker[w] = "gone" /\ doing[w] = NoJob
      BY <3>1 DEF OneShotInv
    <3> QED
      BY <1>0, <3>1, <3>2 DEF OneShotTypeOK, Taken, RanJobs
  <2>1. CASE cycle' = "returned" /\ UNCHANGED <<wanted, queue, worker>>
    <3>1. UNCHANGED <<wanted, queue, worker, doing, stopped, ran>>
      BY <1>1, <2>1 DEF Snapshot
    <3>2. OneShotTypeOK'
      BY ZenonT(60), <1>0, <2>1, <3>1 DEF OneShotTypeOK
    <3>3. Queued' = Queued /\ Taken' = Taken /\ RanJobs' = RanJobs
      BY ZenonT(60), <3>1 DEF Queued, Taken, RanJobs
    <3>4. OnePlace'
      BY ZenonT(60), <1>0, <3>1, <3>3 DEF OnePlace
    <3>5. Accounted'
      <4>1. ~stopped' => wanted' \subseteq Queued' \cup Taken' \cup RanJobs'
        BY ZenonT(60), <1>0, <3>1, <3>3 DEF Accounted
      <4>2. \A r \in ran' : (r[2] = "failed" => r[1] \in errs') /\ (r[2] = "cancelled" => stopped')
        BY ZenonT(60), <2>0
      <4> QED
        BY ONLY ZenonT(60), <4>1, <4>2 DEF Accounted
    <3>6. queue' = <<>>
      BY <2>0, <3>1 DEF OneShotInv
    <3> QED
      BY ZenonT(60), <2>0, <2>1, <3>1, <3>2, <3>4, <3>5, <3>6 DEF OneShotInv
  <2>2. CASE /\ wanted' \in SUBSET Job
             /\ queue' \in {q \in [1 .. Cardinality(wanted') -> wanted'] : IsInjective(q)}
             /\ \E pool \in SUBSET Worker : worker' = [w \in Worker |-> IF w \in pool THEN "idle" ELSE "gone"]
             /\ cycle' = "feed"
    <3>1. /\ queue' \in Seq(wanted') /\ wanted' = Queued'
          /\ \A k, l \in 1 .. Len(queue') : queue'[k] = queue'[l] => k = l
      BY ZenonT(60), <2>2, QueueListsAll DEF Queued
    <3>2. OneShotTypeOK'
      BY <1>0, <2>0, <2>2, <3>1 DEF OneShotTypeOK
    <3>3. OnePlace' /\ Accounted'
      BY <2>0, <3>1 DEF OnePlace, Accounted
    <3> QED
      BY <2>0, <2>2, <3>2, <3>3 DEF OneShotInv
  <2> QED
    BY <1>1, <2>1, <2>2 DEF Snapshot
<1>2. CASE SkipJob
  <2>1. /\ cycle = "feed" /\ queue # <<>> /\ stopped /\ queue' = Tail(queue)
        /\ UNCHANGED <<cycle, wanted, doing, worker, stopped, ran, errs>>
    BY <1>2 DEF SkipJob, MaySkip
  <2>2. queue' \in Seq(wanted)
    BY <1>0, <2>1 DEF OneShotTypeOK
  <2>3. Taken' = Taken /\ RanJobs' = RanJobs
    BY <2>1 DEF Taken, RanJobs
  <2>4. OnePlace'
    BY <1>0, <2>1, <2>3, QueueTail DEF OnePlace
  <2> QED
    BY ZenonT(60), <1>0, <2>1, <2>2, <2>4 DEF OneShotInv, OneShotTypeOK, Accounted
<1>3. ASSUME UNCHANGED <<wanted, queue, doing, ran, errs>>,
             UNCHANGED stopped \/ stopped' = TRUE, worker' \in [Worker -> {"idle", "check", "poll", "gone"}],
             \A w \in Worker : worker[w] \in {"check", "poll"} <=> worker'[w] \in {"check", "poll"},
             \/ cycle' = cycle /\ \A w \in Worker : worker[w] = "gone" => worker'[w] = "gone"
             \/ cycle' = "close" /\ queue = <<>>
             \/ cycle' = "returned" /\ queue = <<>> /\ \A w \in Worker : worker'[w] = "gone"
      PROVE  OneShotInv'
  <2>1. Queued' = Queued /\ Taken' = Taken /\ RanJobs' = RanJobs
    BY ZenonT(60), <1>3 DEF Queued, Taken, RanJobs
  <2>2. OneShotTypeOK'
    BY ZenonT(60), <1>0, <1>3 DEF OneShotTypeOK
  <2>3. OnePlace' /\ Accounted'
    BY <1>0, <1>3, <2>1 DEF OnePlace, Accounted, OneShotTypeOK
  <2>4. \A w \in Worker : doing'[w] # NoJob <=> worker'[w] \in {"check", "poll"}
    BY ZenonT(60), <1>3 DEF OneShotInv
  <2>5. /\ cycle' = "snapshot" => ran' = {} /\ \A w \in Worker : worker'[w] = "gone"
        /\ cycle' # "feed" => queue' = <<>>
        /\ cycle' = "returned" => \A w \in Worker : worker'[w] = "gone"
    BY <1>3 DEF OneShotInv
  <2> QED
    BY <2>2, <2>3, <2>4, <2>5 DEF OneShotInv
<1>4. CASE CloseJobs \/ RunOnceReturns \/ ContextEnds \/ UNCHANGED oneShotVars
  <2>1. /\ UNCHANGED <<wanted, queue, doing, ran, errs, worker>> /\ (UNCHANGED stopped \/ stopped' = TRUE)
        /\ \/ cycle' = cycle
           \/ cycle' = "close" /\ queue = <<>>
           \/ cycle' = "returned" /\ cycle = "close" /\ \A w \in Worker : worker[w] = "gone"
    BY <1>4 DEF CloseJobs, RunOnceReturns, ContextEnds, oneShotVars
  <2>2. cycle = "close" => queue = <<>>
    BY DEF OneShotInv
  <2> QED
    BY ZenonT(60), <1>0, <1>3, <2>1, <2>2 DEF OneShotTypeOK
<1>5. ASSUME NEW w \in Worker, HandOut(w) PROVE OneShotInv'
  <2>1. /\ cycle = "feed" /\ queue # <<>> /\ worker[w] = "idle"
        /\ worker' = [worker EXCEPT ![w] = "check"] /\ doing' = [doing EXCEPT ![w] = Head(queue)]
        /\ queue' = Tail(queue) /\ UNCHANGED <<cycle, wanted, stopped, ran, errs>>
    BY <1>5 DEF HandOut
  <2>2. queue' \in Seq(wanted) /\ Head(queue) \in wanted
    BY <1>0, <2>1 DEF OneShotTypeOK
  <2>3. /\ Queued' = Queued \ {Head(queue)} /\ Head(queue) \in Queued
        /\ \A k, l \in 1 .. Len(queue') : queue'[k] = queue'[l] => k = l
    BY <2>1, QueueTail
  <2>4. doing[w] = NoJob
    BY <2>1 DEF OneShotInv
  <2>5. Head(queue) \notin Taken /\ Head(queue) \notin RanJobs /\ Head(queue) # NoJob /\ RanJobs' = RanJobs
    BY <1>0, <1>n, <2>1, <2>2, <2>3 DEF OnePlace, RanJobs
  <2>6. /\ Taken' = Taken \cup {Head(queue)}
        /\ \A u, v \in Worker : doing'[u] = doing'[v] /\ doing'[u] # NoJob => u = v
    <3>1. Taken \ {doing[w]} = Taken
      BY <2>4 DEF Taken
    <3>2. {Head(queue)} \ {NoJob} = {Head(queue)}
      BY <2>5
    <3>3. Head(queue) \in wanted \cup {NoJob}
      BY <2>2
    <3>4. /\ Taken' = (Taken \ {doing[w]}) \cup ({Head(queue)} \ {NoJob})
          /\ \A u, v \in Worker : doing'[u] = doing'[v] /\ doing'[u] # NoJob => u = v
      BY ZenonT(60), <2>1, <2>5, <3>3, TakenBy
    <3> QED
      BY <3>1, <3>2, <3>4
  <2>7. OneShotTypeOK'
    BY <1>0, <2>1, <2>2 DEF OneShotTypeOK
  <2>8. OnePlace' /\ Accounted'
    BY <1>0, <2>1, <2>3, <2>5, <2>6 DEF OnePlace, Accounted
  <2>9. \A v \in Worker : doing'[v] # NoJob <=> worker'[v] \in {"check", "poll"}
    BY ZenonT(60), <1>0, <2>1, <2>5 DEF OneShotInv, OneShotTypeOK
  <2> QED
    BY <2>1, <2>7, <2>8, <2>9 DEF OneShotInv
<1>6. ASSUME NEW w \in Worker, NEW next,
             doing' = [doing EXCEPT ![w] = NoJob], worker' = [worker EXCEPT ![w] = next], next \in {"idle", "gone"},
             UNCHANGED <<cycle, wanted, queue, stopped>>, worker[w] \in {"check", "poll"},
             ran' \in SUBSET (wanted \X {"ok", "failed", "cancelled"}),
             RanJobs' = RanJobs \cup {doing[w]} \/ (stopped /\ RanJobs' = RanJobs),
             \A r \in ran' : (r[2] = "failed" => r[1] \in errs') /\ (r[2] = "cancelled" => stopped)
      PROVE  OneShotInv'
  <2>1. doing[w] # NoJob /\ doing[w] \in Taken /\ doing[w] \notin Queued /\ doing[w] \notin RanJobs
    BY ZenonT(60), <1>0, <1>6 DEF OneShotInv, OnePlace, Taken
  <2>2. Queued' = Queued /\ Taken' = Taken \ {doing[w]} /\ NoJob \notin Taken
    <3>1. Queued' = Queued /\ NoJob \notin Taken
      BY <1>6 DEF Queued, Taken
    <3>2. Taken' = (Taken \ {doing[w]}) \cup ({NoJob} \ {NoJob})
      BY ZenonT(60), <1>6, TakenBy
    <3> QED
      BY <3>1, <3>2
  <2>3. \A u, v \in Worker : doing'[u] = doing'[v] /\ doing'[u] # NoJob => u = v
    BY ZenonT(60), <1>6, <2>2, TakenBy
  <2>4. OneShotTypeOK'
    BY <1>0, <1>6 DEF OneShotTypeOK
  <2>5. OnePlace'
    BY ZenonT(60), <1>0, <1>6, <2>1, <2>2, <2>3 DEF OnePlace
  <2>6. Accounted'
    BY <1>0, <1>6, <2>1, <2>2 DEF Accounted
  <2>7. \A v \in Worker : doing'[v] # NoJob <=> worker'[v] \in {"check", "poll"}
    BY <1>0, <1>6 DEF OneShotInv, OneShotTypeOK
  <2>8. cycle \notin {"snapshot", "returned"}
    BY <1>6 DEF OneShotInv
  <2> QED
    BY <1>6, <2>4, <2>5, <2>6, <2>7, <2>8 DEF OneShotInv
<1>7. ASSUME NEW w \in Worker, WorkerChecks(w) PROVE OneShotInv'
  <2>1. CASE stopped
    <3>1. /\ worker[w] = "check" /\ worker' = [worker EXCEPT ![w] = "gone"]
          /\ doing' = [doing EXCEPT ![w] = NoJob] /\ UNCHANGED <<cycle, wanted, queue, stopped, ran, errs>>
      BY <1>7, <2>1 DEF WorkerChecks
    <3>2. RanJobs' = RanJobs
      BY <3>1 DEF RanJobs
    <3>3. /\ ran' \in SUBSET (wanted \X {"ok", "failed", "cancelled"})
          /\ \A r \in ran' : (r[2] = "failed" => r[1] \in errs') /\ (r[2] = "cancelled" => stopped)
      BY <1>0, <3>1 DEF OneShotTypeOK, Accounted
    <3> QED
      BY ZenonT(60), <1>6, <2>1, <3>1, <3>2, <3>3
  <2>2. CASE ~stopped
    <3>1. /\ worker[w] = "check" /\ worker' = [worker EXCEPT ![w] = "poll"]
          /\ UNCHANGED <<cycle, wanted, queue, stopped, ran, errs>> /\ doing' = [doing EXCEPT ![w] = @]
      BY <1>7, <2>2 DEF WorkerChecks
    <3>2. doing' = doing
      BY <1>0, <3>1 DEF OneShotTypeOK
    <3> QED
      BY <1>0, <1>3, <3>1, <3>2 DEF OneShotTypeOK
  <2> QED
    BY <2>1, <2>2
<1>8. ASSUME NEW w \in Worker, PollEnds(w) PROVE OneShotInv'
  <2>1. PICK o \in Outcome : /\ ran' = ran \cup {<<doing[w], o>>}
                             /\ errs' = IF Reported(o) THEN errs \cup {doing[w]} ELSE errs
    BY <1>8 DEF PollEnds
  <2>2. /\ worker[w] = "poll" /\ worker' = [worker EXCEPT ![w] = "idle"]
        /\ doing' = [doing EXCEPT ![w] = NoJob] /\ UNCHANGED <<cycle, wanted, queue, stopped>>
    BY <1>8 DEF PollEnds
  <2>3. doing[w] \in wanted
    BY <1>0, <2>2 DEF OneShotInv, OneShotTypeOK
  <2>4. o \in {"ok", "failed", "cancelled"} /\ (o = "cancelled" => stopped)
    BY <2>1 DEF Outcome
  <2>5. RanJobs' = RanJobs \cup {doing[w]}
    <3>1. <<doing[w], o>>[1] = doing[w]
      OBVIOUS
    <3>2. RanJobs' = {r[1] : r \in ran \cup {<<doing[w], o>>}}
      BY ZenonT(60), <2>1 DEF RanJobs
    <3>3. RanJobs' = RanJobs \cup {<<doing[w], o>>[1]}
      BY <3>2, ZenonT(60) DEF RanJobs
    <3> QED
      BY <3>1, <3>3
  <2>6. ran' \in SUBSET (wanted \X {"ok", "failed", "cancelled"})
    BY <1>0, <2>1, <2>3, <2>4 DEF OneShotTypeOK
  <2>7. \A r \in ran' : (r[2] = "failed" => r[1] \in errs') /\ (r[2] = "cancelled" => stopped)
    BY <1>0, <2>1, <2>4 DEF Accounted, Reported
  <2> QED
    BY ZenonT(60), <1>6, <2>2, <2>5, <2>6, <2>7
<1>9. ASSUME NEW w \in Worker, WorkerExits(w) PROVE OneShotInv'
  BY <1>0, <1>3, <1>9 DEF WorkerExits, OneShotTypeOK
<1> QED
  BY <1>1, <1>2, <1>4, <1>5, <1>7, <1>8, <1>9 DEF OneShotNext, CycleStep, WorkerStep

\* For any feeds and any number of workers: a cycle that returns without error before its
\* context ends has polled every feed with success, and no cycle polls a feed twice.
THEOREM CyclePollsAll == OneShotSpec => []SuccessMeansPolled
<1>1. OneShotInv => SuccessMeansPolled
  <2> SUFFICES ASSUME OneShotInv PROVE SuccessMeansPolled
    OBVIOUS
  <2>0. OneShotTypeOK /\ OnePlace /\ Accounted
    BY DEF OneShotInv
  <2>1. ASSUME cycle = "returned", errs = {}, ~stopped PROVE ran = {<<j, "ok">> : j \in wanted}
    <3>1. Queued = {} /\ Taken = {}
      BY <2>0, <2>1 DEF OneShotInv, Queued, Taken
    <3>2. wanted \subseteq RanJobs
      BY <2>0, <2>1, <3>1 DEF Accounted
    <3>3. \A r \in ran : r \in wanted \X {"ok", "failed", "cancelled"} /\ r[2] = "ok"
      BY <2>0, <2>1 DEF OneShotTypeOK, Accounted
    <3>4. \A r \in ran : r[1] \in wanted /\ r = <<r[1], "ok">>
      BY <3>3
    <3> QED
      BY <3>2, <3>4 DEF RanJobs
  <2>2. ASSUME NEW w \in Worker, worker[w] = "poll" PROVE doing[w] \notin {r[1] : r \in ran}
    <3>1. doing[w] \in Taken
      BY <2>2 DEF OneShotInv, Taken
    <3> QED
      BY <2>0, <3>1 DEF OnePlace, RanJobs
  <2> QED
    BY ZenonT(60), <2>1, <2>2 DEF SuccessMeansPolled
<1> QED
  BY <1>1, OneShotInitInv, OneShotNextInv, PTL DEF OneShotSpec

-----------------------------------------------------------------------------
(* Backoff *)

\* The powers of two up to the n-th.
Powers(n, f) ==
  f \in [0 .. n -> Nat] /\ f[0] = 1 /\ \A k \in 1 .. n : f[k] = 2 * f[k - 1]

\* There are powers up to every n.
LEMMA PowersExist == \A n \in Nat : \E f : Powers(n, f)
<1> DEFINE T == {n \in Nat : ~\E f : Powers(n, f)}
<1> SUFFICES ASSUME T # {}
             PROVE  FALSE
  OBVIOUS
<1>1. PICK m \in T : \A n \in T : m <= n
  BY ZenonT(60), LeastNat
<1>2. m \in Nat /\ ~\E f : Powers(m, f)
  OBVIOUS
<1>3. CASE m = 0
  <2> DEFINE f == [k \in 0 .. 0 |-> 1]
  <2>1. Powers(0, f)
    BY DEF Powers
  <2> QED
    BY <1>2, <1>3, <2>1
<1>4. CASE m # 0
  <2>1. m - 1 \in Nat /\ m - 1 \notin T
    BY <1>1, <1>2, <1>4
  <2>2. PICK f : Powers(m - 1, f)
    BY <2>1
  <2> DEFINE g == [k \in 0 .. m |-> IF k = m THEN 2 * f[m - 1] ELSE f[k]]
  <2>3. f \in [0 .. m - 1 -> Nat] /\ f[0] = 1 /\ \A k \in 1 .. m - 1 : f[k] = 2 * f[k - 1]
    BY <2>2 DEF Powers
  <2>4. f[m - 1] \in Nat
    BY <1>2, <1>4, <2>3
  <2>5. g \in [0 .. m -> Nat] /\ g[0] = 1
    BY <1>2, <1>4, <2>3, <2>4
  <2>6. ASSUME NEW k \in 1 .. m
        PROVE  g[k] = 2 * g[k - 1]
    BY <1>2, <1>4, <2>3
  <2>7. Powers(m, g)
    BY ZenonT(60), <2>5, <2>6 DEF Powers
  <2> QED
    BY <1>2, <2>7
<1> QED
  BY <1>3, <1>4

\* Two tables of powers agree where both are defined.
LEMMA PowersAgree ==
  ASSUME NEW m \in Nat, NEW n \in Nat, m <= n, NEW f, NEW g, Powers(m, f), Powers(n, g)
  PROVE  \A k \in 0 .. m : f[k] = g[k]
<1> DEFINE T == {k \in 0 .. m : f[k] # g[k]}
<1> SUFFICES ASSUME T # {}
             PROVE  FALSE
  OBVIOUS
<1>1. PICK k \in T : \A l \in T : k <= l
  <2>1. T \in SUBSET Nat
    OBVIOUS
  <2> HIDE DEF T
  <2> QED
    BY <2>1, LeastNat
<1>2. k \in 0 .. m /\ f[k] # g[k]
  OBVIOUS
<1>3. k # 0
  BY <1>2 DEF Powers
<1>4. k - 1 \in 0 .. m /\ k - 1 \notin T
  BY <1>1, <1>2, <1>3
<1>5. f[k - 1] = g[k - 1]
  BY <1>4
<1>6. f[k] = 2 * f[k - 1] /\ g[k] = 2 * g[k - 1]
  BY <1>2, <1>3 DEF Powers
<1> QED
  BY <1>2, <1>5, <1>6

\* Pow2 is what its definition says.
LEMMA Pow2Def ==
  /\ Pow2 \in [Nat -> Nat] /\ Pow2[0] = 1
  /\ \A n \in Nat : Pow2[n + 1] = 2 * Pow2[n]
<1> DEFINE F(n) == CHOOSE f : Powers(n, f)
           G == [n \in Nat |-> F(n)[n]]
<1>1. \A n \in Nat : Powers(n, F(n))
  BY ZenonT(60), PowersExist
<1> HIDE DEF F
<1>2. \A n \in Nat : F(n)[n] \in Nat
  BY <1>1 DEF Powers
<1>3. F(0)[0] = 1
  BY <1>1 DEF Powers
<1>4. ASSUME NEW n \in Nat, n # 0
      PROVE  F(n)[n] = 2 * F(n - 1)[n - 1]
  <2>1. n - 1 \in Nat /\ n - 1 <= n /\ n - 1 \in 0 .. n - 1 /\ n \in 1 .. n
    BY <1>4
  <2>2. F(n)[n] = 2 * F(n)[n - 1]
    BY <1>1, <2>1 DEF Powers
  <2>3. F(n - 1)[n - 1] = F(n)[n - 1]
    <3>1. Powers(n - 1, F(n - 1)) /\ Powers(n, F(n))
      BY ZenonT(60), <1>1, <2>1
    <3>2. \A k \in 0 .. n - 1 : F(n - 1)[k] = F(n)[k]
      BY <2>1, <3>1, PowersAgree
    <3> QED
      BY ZenonT(60), <2>1, <3>2
  <2> QED
    BY <2>2, <2>3
<1>5. G = [n \in Nat |-> IF n = 0 THEN 1 ELSE 2 * G[n - 1]]
  BY <1>3, <1>4
<1>6. Pow2 = CHOOSE g : g = [n \in Nat |-> IF n = 0 THEN 1 ELSE 2 * g[n - 1]]
  BY DEF Pow2
<1>7. Pow2 = [n \in Nat |-> IF n = 0 THEN 1 ELSE 2 * Pow2[n - 1]]
  <2> HIDE DEF G
  <2> QED
    BY ZenonT(60), <1>5, <1>6
<1>8. Pow2[0] = 1 /\ \A n \in Nat : n # 0 => Pow2[n] = 2 * Pow2[n - 1]
  BY ZenonT(60), <1>7
<1>9. \A n \in Nat : Pow2[n] \in Nat
  <2> DEFINE T == {n \in Nat : Pow2[n] \notin Nat}
  <2> SUFFICES ASSUME T # {}
               PROVE  FALSE
    OBVIOUS
  <2>1. PICK m \in T : \A n \in T : m <= n
    BY ZenonT(60), LeastNat
  <2>2. m # 0
    BY <1>8
  <2>3. m - 1 \in Nat /\ m - 1 \notin T
    BY <2>1, <2>2
  <2> QED
    BY <1>8, <2>1, <2>2, <2>3
<1>10. Pow2 \in [Nat -> Nat]
  BY ZenonT(60), <1>7, <1>9
<1>11. \A n \in Nat : Pow2[n + 1] = 2 * Pow2[n]
  BY <1>8
<1> QED
  BY ZenonT(60), <1>8, <1>10, <1>11

\* Powers multiply, so that a smaller one divides a larger one.
LEMMA Pow2Sum ==
  ASSUME NEW m \in Nat, NEW n \in Nat
  PROVE  Pow2[m + n] = Pow2[m] * Pow2[n]
<1> DEFINE T == {j \in Nat : Pow2[m + j] # Pow2[m] * Pow2[j]}
<1> SUFFICES ASSUME T # {}
             PROVE  FALSE
  BY ZenonT(60)
<1>1. PICK k \in T : \A l \in T : k <= l
  BY ZenonT(60), LeastNat
<1>2. k # 0
  BY Pow2Def
<1>3. k - 1 \in Nat /\ k - 1 \notin T
  BY <1>1, <1>2
<1>4. Pow2[m + (k - 1)] = Pow2[m] * Pow2[k - 1]
  BY <1>3
<1>5. Pow2[m + k] = 2 * Pow2[m + (k - 1)] /\ Pow2[k] = 2 * Pow2[k - 1]
  <2>1. m + (k - 1) \in Nat /\ (m + (k - 1)) + 1 = m + k /\ (k - 1) + 1 = k
    BY <1>3
  <2> HIDE DEF T
  <2> QED
    BY ZenonT(60), <1>3, <2>1, Pow2Def
<1>6. Pow2[m] \in Nat /\ Pow2[k - 1] \in Nat
  BY <1>3, Pow2Def
<1>7. 2 * (Pow2[m] * Pow2[k - 1]) = Pow2[m] * (2 * Pow2[k - 1])
  BY ONLY Z3T(30), SMTT(30), <1>6
<1>8. Pow2[m + k] = Pow2[m] * Pow2[k]
  <2> HIDE DEF T
  <2> QED
    BY ZenonT(60), <1>4, <1>5, <1>7
<1> QED
  BY ZenonT(60), <1>8

\* No power of two is zero.
LEMMA Pow2Positive == \A n \in Nat : Pow2[n] \in Nat \ {0}
<1> DEFINE T == {n \in Nat : Pow2[n] = 0}
<1> SUFFICES ASSUME T # {}
             PROVE  FALSE
  BY Pow2Def
<1>1. PICK m \in T : \A n \in T : m <= n
  BY ZenonT(60), LeastNat
<1>2. m # 0
  BY Pow2Def
<1>3. m - 1 \in Nat /\ m - 1 \notin T
  BY <1>1, <1>2
<1>4. Pow2[m] = 2 * Pow2[m - 1] /\ Pow2[m - 1] \in Nat
  <2>1. (m - 1) + 1 = m
    BY <1>3
  <2> HIDE DEF T
  <2> QED
    BY ZenonT(60), <1>3, <2>1, Pow2Def
<1> QED
  BY <1>3, <1>4

-----------------------------------------------------------------------------
\* The first value that does not fit the word.
Half == Pow2[Width - 1]

\* The word holds two halves.
LEMMA HalfFacts ==
  ASSUME BackoffAssumptions
  PROVE  Half \in Nat \ {0} /\ Pow2[Width] = 2 * Half /\ Width \in Nat /\ Width - 1 \in Nat
<1>1. Width - 1 \in Nat /\ (Width - 1) + 1 = Width
  BY DEF BackoffAssumptions
<1> QED
  BY ZenonT(60), <1>1, Pow2Def, Pow2Positive DEF Half, BackoffAssumptions

\* Quotient and remainder.
LEMMA DivMod ==
  ASSUME NEW y \in Int, NEW M \in Int, M > 0
  PROVE  /\ y % M \in Nat /\ y % M < M /\ y \div M \in Int
         /\ y = M * (y \div M) + (y % M)
         /\ 0 <= y /\ y < M => y % M = y
<1>1. y % M \in Nat /\ y % M < M
  BY Z3T(30), SMTT(30)
<1>2. y \div M \in Int
  BY Z3T(30), SMTT(30)
<1>3. y = M * (y \div M) + (y % M)
  BY Z3T(30), SMTT(30)
<1>4. 0 <= y /\ y < M => y % M = y
  BY Z3T(30), SMTT(30)
<1> QED
  BY ZenonT(60), <1>1, <1>2, <1>3, <1>4

\* Wrapping adds a multiple of the word, and nothing to what fits it.
LEMMA WrapFacts ==
  ASSUME BackoffAssumptions, NEW x \in Nat
  PROVE  /\ Wrap(x) \in Int /\ Wrap(x) < Half
         /\ x < Half => Wrap(x) = x
         /\ \E k \in Int : Wrap(x) = x - (2 * Half) * k
<1>1. Half \in Nat \ {0} /\ Pow2[Width] = 2 * Half
  BY ZenonT(60), HalfFacts
<1>2. Wrap(x) = ((x + Half) % (2 * Half)) - Half
  BY ZenonT(60), <1>1 DEF Wrap, Half
<1> DEFINE M == 2 * Half
           y == x + Half
<1>3. M \in Int /\ M > 0 /\ y \in Int
  BY <1>1
<1> HIDE DEF M, y
<1>4. /\ y % M \in Nat /\ y % M < M /\ y \div M \in Int
      /\ y = M * (y \div M) + (y % M)
      /\ 0 <= y /\ y < M => y % M = y
  BY ZenonT(60), <1>3, DivMod
<1>5. Wrap(x) = (y % M) - Half /\ y = x + Half /\ M = 2 * Half
  BY ZenonT(60), <1>2 DEF M, y
<1>6. Wrap(x) \in Int /\ Wrap(x) < Half
  BY ONLY Z3T(30), SMTT(30), <1>1, <1>4, <1>5
<1>7. x < Half => Wrap(x) = x
  BY ONLY Z3T(30), SMTT(30), <1>1, <1>4, <1>5, x \in Nat
<1> DEFINE q == y \div M
<1>8. q \in Int /\ y = M * q + (y % M)
  BY ZenonT(60), <1>4
<1> HIDE DEF q
<1>9. Wrap(x) = x - M * q
  BY ONLY Z3T(30), SMTT(30), <1>1, <1>3, <1>4, <1>5, <1>8, x \in Nat
<1> QED
  BY ZenonT(60), <1>5, <1>6, <1>7, <1>8, <1>9

\* A shift that does not fit the word, and by so much that the power reaches the cap,
\* wraps to zero, below zero, or at least to the cap.
LEMMA OverflowReachesCap ==
  ASSUME BackoffAssumptions, NEW b \in Nat \ {0}, NEW m \in Nat, NEW n \in Nat,
         m < Half, m <= Pow2[n]
  PROVE  Wrap(b * Pow2[n]) <= 0 \/ Wrap(b * Pow2[n]) >= m
<1> DEFINE p == Pow2[n]
           y == Wrap(b * p)
<1>1. p \in Nat \ {0} /\ b * p \in Nat
  <2>1. p \in Nat \ {0}
    BY ZenonT(60), Pow2Positive
  <2> HIDE DEF p
  <2> QED
    BY <2>1
<1>2. Half \in Nat \ {0} /\ Pow2[Width] = 2 * Half /\ Width \in Nat
  BY ZenonT(60), HalfFacts
<1>3. PICK k \in Int : y = b * p - (2 * Half) * k
  <2> HIDE DEF p
  <2> QED
    BY ZenonT(60), <1>1, WrapFacts
<1>4. y \in Int /\ y < Half
  <2> HIDE DEF p
  <2> QED
    BY ZenonT(60), <1>1, WrapFacts
<1>5. CASE n < Width
  <2>1. Width - n \in Nat /\ n + (Width - n) = Width
    BY <1>2, <1>5
  <2> DEFINE q == Pow2[Width - n]
  <2>2. q \in Nat /\ 2 * Half = p * q
    BY ZenonT(60), <1>2, <2>1, Pow2Sum, Pow2Positive
  <2> HIDE DEF p, q, y
  <2>3. y = p * (b - q * k)
    BY ONLY Z3T(30), SMTT(30), <1>1, <1>3, <2>2, k \in Int, b \in Nat
  <2>4. b - q * k \in Int
    BY ONLY Z3T(30), SMTT(30), <2>2, k \in Int, b \in Nat
  <2>5. y > 0 => y >= p
    BY ONLY Z3T(30), SMTT(30), <1>1, <2>3, <2>4
  <2>6. m <= p
    BY ZenonT(60) DEF p
  <2> QED
    BY ONLY Z3T(30), SMTT(30), <1>1, <1>4, <2>5, <2>6, m \in Nat DEF p, y
<1>6. CASE n >= Width
  <2>1. n - Width \in Nat /\ Width + (n - Width) = n
    BY <1>2, <1>6
  <2> DEFINE q == Pow2[n - Width]
  <2>2. Pow2[Width + (n - Width)] = Pow2[Width] * q /\ q \in Nat
    BY ZenonT(60), <1>2, <2>1, Pow2Sum, Pow2Positive
  <2>7. p = (2 * Half) * q
    BY ZenonT(60), <1>2, <2>1, <2>2
  <2> HIDE DEF p, q, y
  <2>3. y = (2 * Half) * (b * q - k)
    BY ONLY Z3T(30), SMTT(30), <1>1, <1>2, <1>3, <2>2, <2>7, k \in Int, b \in Nat
  <2>4. b * q - k \in Int
    BY ONLY Z3T(30), SMTT(30), <2>2, k \in Int, b \in Nat
  <2>5. y > 0 => y >= 2 * Half
    BY ONLY Z3T(30), SMTT(30), <1>2, <2>3, <2>4
  <2>6. y <= 0
    BY ONLY Z3T(30), SMTT(30), <1>2, <1>4, <2>5
  <2> QED
    BY ZenonT(60), <2>6 DEF p, y
<1> QED
  BY <1>2, <1>5, <1>6

\* base and max after the defaults of Do: max is at least base and at most ten settings.
BackoffTypeOK ==
  /\ baseDelay \in Nat \ {0} /\ baseDelay <= MaxSetting
  /\ maxDelay \in Nat /\ baseDelay <= maxDelay /\ maxDelay <= 10 * MaxSetting
  /\ retryNo \in Nat

\* The ceiling of an attempt is positive and never above the cap, and exact when
\* base, or its odd part, times max fits the word.
LEMMA CeilingFacts ==
  ASSUME BackoffAssumptions, BackoffTypeOK, NEW n \in Nat
  PROVE  /\ Clipped(Wrap(baseDelay * Pow2[n])) \in 1 .. maxDelay
         /\ OddPartFits =>
              Clipped(Wrap(baseDelay * Pow2[n])) = Smaller(maxDelay, baseDelay * Pow2[n])
<1> DEFINE p == Pow2[n]
           x == baseDelay * p
           y == Wrap(x)
<1>1. p \in Nat \ {0}
  BY ZenonT(60), Pow2Positive
<1>2. Half \in Nat \ {0}
  BY ZenonT(60), HalfFacts
<1>3. /\ baseDelay \in Nat \ {0} /\ maxDelay \in Nat /\ baseDelay <= maxDelay
      /\ maxDelay < Half
  <2>1. 10 * MaxSetting < Half /\ MaxSetting \in Nat
    BY ZenonT(60) DEF BackoffAssumptions, Half
  <2> QED
    BY ONLY Z3T(30), SMTT(30), <1>2, <2>1, BackoffTypeOK DEF BackoffTypeOK
<1> HIDE DEF p
<1>4. x \in Nat
  BY ONLY Z3T(30), SMTT(30), <1>1, <1>3
<1>5. /\ y \in Int /\ y < Half
      /\ x < Half => y = x
  <2> HIDE DEF x
  <2> QED
    BY ZenonT(60), <1>4, WrapFacts
<1>6. Clipped(y) = IF y <= 0 \/ y > maxDelay THEN maxDelay ELSE y
  BY ZenonT(60) DEF Clipped
<1>7. Smaller(maxDelay, x) = IF maxDelay < x THEN maxDelay ELSE x
  BY ZenonT(60) DEF Smaller
<1>8. Clipped(y) \in 1 .. maxDelay
  <2> HIDE DEF x, y
  <2> QED
    BY ONLY Z3T(30), SMTT(30), <1>3, <1>5, <1>6
<1>9. ASSUME OddPartFits
      PROVE  Clipped(y) = Smaller(maxDelay, x)
  <2>0. PICK j \in 0 .. Width, odd \in 1 .. baseDelay :
          baseDelay = odd * Pow2[j] /\ odd * maxDelay <= Half
    BY ZenonT(60), <1>9 DEF OddPartFits, Half
  <2>4. j \in Nat /\ odd \in Nat \ {0} /\ j + n \in Nat
    BY HalfFacts, <1>3, <2>0
  <2> DEFINE g == Pow2[j]
             r == Pow2[j + n]
  <2>5. g \in Nat /\ r \in Nat /\ r = g * p
    BY ZenonT(60), <2>4, Pow2Sum, Pow2Positive DEF p
  <2>6. baseDelay = odd * g /\ x = baseDelay * p
    BY ZenonT(60), <2>0
  <2>7. x = odd * r
    <3> HIDE DEF g, r, x
    <3> QED
      BY ONLY Z3T(30), SMTT(30), <1>1, <2>4, <2>5, <2>6
  <2>1. CASE x < Half
    <3>1. x >= 1
      BY ONLY Z3T(30), SMTT(30), <1>1, <1>3
    <3> HIDE DEF x, y
    <3> QED
      BY ONLY Z3T(30), SMTT(30), <1>3, <1>4, <1>5, <1>6, <1>7, <2>1, <3>1
  <2>2. CASE ~ (x < Half)
    <3>1. maxDelay <= r
      <4>1. odd * maxDelay <= Half
        BY ZenonT(60), <2>0
      <4>2. Half <= odd * r
        <5> HIDE DEF x, r
        <5> QED
          BY ONLY Z3T(30), SMTT(30), <1>2, <1>4, <2>2, <2>4, <2>7
      <4> HIDE DEF r, x
      <4> QED
        BY ONLY Z3T(30), SMTT(30), <1>2, <1>3, <2>4, <2>5, <4>1, <4>2
    <3>2. y <= 0 \/ y >= maxDelay
      BY ZenonT(60), <1>3, <2>4, <2>7, <3>1, OverflowReachesCap
    <3> HIDE DEF x, y
    <3> QED
      BY ONLY Z3T(30), SMTT(30), <1>2, <1>3, <1>4, <1>5, <1>6, <1>7, <2>2, <3>2
  <2> QED
    BY ZenonT(60), <2>1, <2>2
<1> QED
  BY ZenonT(60), <1>8, <1>9 DEF p

\* The inductive invariant: the last ceiling is the one of the last attempt.
BackoffInv ==
  /\ BackoffTypeOK
  /\ retryNo > 0 => ceiling = CeilingFor(retryNo)

\* The defaults of Do establish it.
LEMMA BackoffInitInv ==
  ASSUME BackoffAssumptions, BackoffInit
  PROVE  BackoffInv
<1>1. PICK b \in -1 .. MaxSetting, m \in -1 .. MaxSetting :
        baseDelay = BaseOf(b) /\ maxDelay = MaxOf(m, BaseOf(b))
  BY ZenonT(60) DEF BackoffInit
<1>2. retryNo = 0
  BY ZenonT(60) DEF BackoffInit
<1>3. MaxSetting \in Nat /\ DefaultBase \in 1 .. MaxSetting
  BY ZenonT(60) DEF BackoffAssumptions
<1>4. baseDelay \in 1 .. MaxSetting
  BY ONLY Z3T(30), SMTT(30), <1>1, <1>3 DEF BaseOf
<1>5. maxDelay = MaxOf(m, baseDelay)
  BY ZenonT(60), <1>1
<1>6. maxDelay \in Nat /\ baseDelay <= maxDelay /\ maxDelay <= 10 * MaxSetting
  BY ONLY Z3T(30), SMTT(30), <1>3, <1>4, <1>5, m \in -1 .. MaxSetting DEF MaxOf
<1> QED
  BY ONLY Z3T(30), SMTT(30), <1>2, <1>3, <1>4, <1>6 DEF BackoffInv, BackoffTypeOK

\* A further delay keeps it.
LEMMA BackoffStep ==
  ASSUME BackoffInv, [BackoffNext]_backoffVars
  PROVE  BackoffInv'
<1>1. CASE NextDelay
  <2>1. /\ retryNo' = retryNo + 1 /\ ceiling' = CeilingFor(retryNo + 1)
        /\ baseDelay' = baseDelay /\ maxDelay' = maxDelay
    BY ZenonT(60), <1>1 DEF NextDelay
  <2>2. CeilingFor(retryNo + 1) = (CeilingFor(retryNo))'
    BY ZenonT(60), <2>1 DEF CeilingFor, Clipped
  <2>3. BackoffTypeOK'
    BY ONLY Z3T(30), SMTT(30), <2>1, BackoffInv DEF BackoffInv, BackoffTypeOK
  <2> QED
    BY ZenonT(60), <2>1, <2>2, <2>3 DEF BackoffInv
<1>2. CASE UNCHANGED backoffVars
  BY ZenonT(60), <1>2 DEF BackoffInv, BackoffTypeOK, backoffVars, CeilingFor, Clipped
<1> QED
  BY ZenonT(60), <1>1, <1>2 DEF BackoffNext

\* It implies the property.
LEMMA BackoffInvImplies ==
  ASSUME BackoffAssumptions, BackoffInv
  PROVE  CeilingIsExact
<1> SUFFICES ASSUME retryNo > 0
             PROVE  /\ ceiling \in 1 .. maxDelay
                    /\ OddPartFits =>
                         ceiling = Smaller(maxDelay, baseDelay * Pow2[retryNo - 1])
  BY ZenonT(60) DEF CeilingIsExact
<1>1. retryNo \in Nat /\ BackoffTypeOK
  BY ZenonT(60) DEF BackoffInv, BackoffTypeOK
<1>2. retryNo - 1 \in Nat
  BY ONLY Z3T(30), SMTT(30), <1>1, retryNo > 0
<1>3. ceiling = Clipped(Wrap(baseDelay * Pow2[retryNo - 1]))
  BY ZenonT(60) DEF BackoffInv, CeilingFor
<1> QED
  BY ZenonT(60), <1>1, <1>2, <1>3, CeilingFacts

\* Every ceiling that delayFor draws under is positive and at most max_delay, however
\* often the shift overflows, and it is base * 2^(attempt-1) capped at max_delay when
\* the odd part of base, times max, fits the word: for every width, every setting and
\* every attempt.
THEOREM DelaysAreExact == BackoffSpec => []CeilingIsExact
<1>1. BackoffInit => BackoffInv
  BY ZenonT(60), BackoffAssumptions, BackoffInitInv
<1>2. BackoffInv /\ [BackoffNext]_backoffVars => BackoffInv'
  BY ZenonT(60), BackoffStep
<1>3. BackoffInv => CeilingIsExact
  BY ZenonT(60), BackoffAssumptions, BackoffInvImplies
<1> QED
  BY <1>1, <1>2, <1>3, PTL DEF BackoffSpec
=============================================================================
