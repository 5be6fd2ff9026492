------------------------------ MODULE Pipeline ------------------------------
(***************************************************************************)
(* The poll cycle of one feed (cmd/rss2msg/pipeline.go, RunOnce): gate on  *)
(* the coordinator, read the cached HTTP validators, fetch, persist the    *)
(* new validators, detect changes against the seen-items table, hand each  *)
(* change to every sink and commit it as seen.  Several instances share    *)
(* the coordinator, the state store and the sinks.  The retention sweep    *)
(* and the admin prune run beside them.                                    *)
(*                                                                         *)
(* A store row carries its age in clock ticks (capped at MaxAge) instead   *)
(* of a time stamp.  Every failure the code handles spends one unit of     *)
(* MaxFaults.                                                              *)
(***************************************************************************)
EXTENDS Integers, Sequences, FiniteSets

CONSTANTS Inst,          \* instances polling this feed
          Items,         \* identity keys (model.IdentityKey)
          Hashes,        \* content hashes (model.ContentHash)
          None,          \* no row, no validator, no holder
          Bodies,        \* documents the origin may serve
          NumSinks,      \* sinks of the feed, in configuration order
          HasDLQ,        \* the sinks with a dead_letter
          Validators,    \* does the origin send an ETag or Last-Modified?
          Exclusive,     \* FALSE: the memory coordinator, always grants
          LeaseLoss,     \* may a lease end while its holder still polls?
          ItemTTL,       \* state.item_ttl in ticks; 0 keeps rows
          ExplicitPrune, \* durations an admin prune request may carry
          AdminEnabled,  \* is the admin API on?
          MaxAge,        \* bound: ages are capped here; 0 freezes the clock
          MaxFaults      \* bound: number of failures

Sink == 1 .. NumSinks
Entry == [id : Items, hash : Hashes, pub : Nat]
HashOrNone == Hashes \cup {None}
Change == [idx : Nat, old : HashOrNone]
Age == 0 .. MaxAge

ASSUME PipelineAssumptions ==
  /\ None \notin Inst /\ None \notin Hashes /\ None \notin Bodies
  /\ Bodies \subseteq Seq(Entry) /\ Bodies # {}
  /\ NumSinks \in Nat /\ HasDLQ \subseteq Sink
  /\ Validators \in BOOLEAN /\ Exclusive \in BOOLEAN /\ LeaseLoss \in BOOLEAN
  /\ AdminEnabled \in BOOLEAN
  /\ MaxAge \in Nat /\ ItemTTL \in Age /\ ExplicitPrune \subseteq Age
  /\ MaxFaults \in Nat

VARIABLES
  origin,  \* the document the feed URL serves now
  lease,   \* holder of the feed's lease as the coordinator's backend sees it
  seen,    \* seen_items: the row of each item
  meta,    \* feed_meta: the row of this feed
  pc,      \* where each instance is in RunOnce
  at,      \* RunOnce's locals: ticks since its start time,
  tag,     \*   the validator it sends, then the one it received,
  body,    \*   the document it fetched,
  scan,    \*   the entries not classified yet,
  todo,    \*   the changes not published yet,
  cur,     \*   the change being published,
  k,       \*   the sink whose turn it is,
  ok,      \*   allOK: no sink dropped the change so far
  got,     \* <<item, hash>> pairs each sink received
  dlq,     \* pairs handed to each sink's dead letter
  sweep,   \* cutoff age of a prune between its two statements, or -1
  last,    \* history: the hash of each item each sink was last handed
  obs,     \* history: ticks since the last poll that found each item unchanged
  dup,     \* history: some sink was handed what it was handed last
  pruned,  \* history: a prune removed an item row
  faults   \* history: number of failures so far

detectVars == <<body, scan, todo>>
loopVars == <<cur, k, ok>>
jobVars == <<at, tag, body, scan, todo, cur, k, ok>>
storeVars == <<seen, meta>>
sinkVars == <<got, dlq, last, dup>>
cleanVars == <<sweep, pruned>>
vars == <<origin, lease, seen, meta, pc, at, tag, body, scan, todo, cur, k, ok, got,
          dlq, sweep, last, obs, dup, pruned, faults>>

NoRow == [hash |-> None, age |-> 0]
NoMeta == [tag |-> None, age |-> 0]
NoChange == [idx |-> 0, old |-> None]

Phases == {"idle", "meta", "fetch", "upsertMeta", "detect", "loop", "publish",
           "release"}

Init ==
  /\ origin \in Bodies
  /\ lease = None
  /\ seen = [i \in Items |-> NoRow]
  /\ meta = NoMeta
  /\ pc = [p \in Inst |-> "idle"]
  /\ at = [p \in Inst |-> 0]
  /\ tag = [p \in Inst |-> None]
  /\ body = [p \in Inst |-> <<>>]
  /\ scan = [p \in Inst |-> {}]
  /\ todo = [p \in Inst |-> {}]
  /\ cur = [p \in Inst |-> NoChange]
  /\ k = [p \in Inst |-> 0]
  /\ ok = [p \in Inst |-> FALSE]
  /\ got = [s \in Sink |-> {}]
  /\ dlq = [s \in Sink |-> {}]
  /\ sweep = -1
  /\ last = [s \in Sink |-> [i \in Items |-> None]]
  /\ obs = [i \in Items |-> 0]
  /\ dup = FALSE
  /\ pruned = FALSE
  /\ faults = 0

-----------------------------------------------------------------------------
Fault == faults < MaxFaults /\ faults' = faults + 1
NoFault == faults' = faults

Goto(p, l) == pc' = [pc EXCEPT ![p] = l]

\* RunOnce is over: its locals are gone.
Forget(p) ==
  /\ at' = [at EXCEPT ![p] = 0]
  /\ tag' = [tag EXCEPT ![p] = None]
  /\ body' = [body EXCEPT ![p] = <<>>]
  /\ scan' = [scan EXCEPT ![p] = {}]
  /\ todo' = [todo EXCEPT ![p] = {}]
  /\ cur' = [cur EXCEPT ![p] = NoChange]
  /\ k' = [k EXCEPT ![p] = 0]
  /\ ok' = [ok EXCEPT ![p] = FALSE]

\* Every return of RunOnce runs the deferred release.
Return(p) == Goto(p, "release") /\ Forget(p)

\* sort.SliceStable by published date; an undated entry has pub = 0.
publishedBefore(b, i, j) ==
  \/ b[i].pub < b[j].pub
  \/ b[i].pub = b[j].pub /\ i < j

\* The validator of the response: content-derived, so it changes with the body.
ETag == IF Validators THEN origin ELSE None

-----------------------------------------------------------------------------
\* Coordinator gate.  A cycle that is not granted returns at once and changes
\* nothing.
UngatedGrant == TRUE
Granted == Exclusive => lease = None

TryAcquire(p) ==
  /\ pc[p] = "idle" /\ Granted
  /\ lease' = IF Exclusive THEN p ELSE lease
  /\ Goto(p, "meta")
  /\ UNCHANGED <<origin, storeVars, jobVars, sinkVars, cleanVars, obs, faults>>

\* The backend granted the lease but the call failed: the poll is skipped.
TryAcquireError(p) ==
  /\ pc[p] = "idle"
  /\ Exclusive /\ lease = None
  /\ Fault
  /\ lease' = p
  /\ UNCHANGED <<origin, storeVars, pc, jobVars, sinkVars, cleanVars, obs>>

\* release compares the holder before it deletes; it may fail.
Release(p) ==
  /\ pc[p] = "release"
  /\ Goto(p, "idle")
  /\ \/ NoFault /\ lease' = IF lease = p THEN None ELSE lease
     \/ Fault /\ lease = p /\ lease' = lease
  /\ UNCHANGED <<origin, storeVars, jobVars, sinkVars, cleanVars, obs>>

\* The backend drops a lease: of a holder that no longer polls, or, if
\* LeaseLoss, of one whose poll outran it.
LeaseExpire ==
  /\ lease # None
  /\ \/ pc[lease] = "idle" /\ NoFault
     \/ LeaseLoss /\ pc[lease] # "idle" /\ Fault
  /\ lease' = None
  /\ UNCHANGED <<origin, storeVars, pc, jobVars, sinkVars, cleanVars, obs>>

-----------------------------------------------------------------------------
GetFeedMeta(p) ==
  /\ pc[p] = "meta"
  /\ \/ /\ NoFault /\ Goto(p, "fetch")
        /\ tag' = [tag EXCEPT ![p] = meta.tag]
        /\ UNCHANGED <<at, detectVars, loopVars>>
     \/ Fault /\ Return(p)
  /\ UNCHANGED <<origin, lease, storeVars, sinkVars, cleanVars, obs>>

\* Conditional GET.  retry.Do around it ends in an answer or in an error.
Fetch(p) ==
  /\ pc[p] = "fetch"
  /\ \/ /\ NoFault
        /\ \/ /\ ETag # None /\ tag[p] = ETag      \* 304 Not Modified
              /\ Return(p)
           \/ /\ ETag = None \/ tag[p] # ETag
              /\ Goto(p, "upsertMeta")
              /\ tag' = [tag EXCEPT ![p] = ETag]
              /\ body' = [body EXCEPT ![p] = origin]
              /\ scan' = [scan EXCEPT ![p] = DOMAIN origin]
              /\ UNCHANGED <<at, todo, loopVars>>
     \/ Fault /\ Return(p)
  /\ UNCHANGED <<origin, lease, storeVars, sinkVars, cleanVars, obs>>

MetaRow(p) == [tag |-> tag[p], age |-> 0]

\* A failure to persist the validators is only logged.
UpsertFeedMeta(p) ==
  /\ pc[p] = "upsertMeta"
  /\ \/ NoFault /\ meta' = MetaRow(p)
     \/ Fault /\ meta' = meta
  /\ Goto(p, "detect")
  /\ UNCHANGED <<origin, lease, seen, jobVars, sinkVars, cleanVars, obs>>

\* No change if the row of the item carries the entry's content hash.
NeverUnchanged(row, e) == FALSE
Unchanged(row, e) == row.hash = e.hash

\* Detect: classify the entries oldest first; nothing is committed here.
classify(p) ==
  /\ pc[p] = "detect"
  /\ \E j \in scan[p] :
       LET e == body[p][j]
           row == seen[e.id]
       IN  /\ \A i \in scan[p] \ {j} : publishedBefore(body[p], j, i)
           /\ \/ /\ NoFault
                 /\ scan' = [scan EXCEPT ![p] = @ \ {j}]
                 /\ todo' = IF Unchanged(row, e) THEN todo
                            ELSE [todo EXCEPT ![p] = @ \cup {[idx |-> j, old |-> row.hash]}]
                 /\ obs' = IF Unchanged(row, e) THEN [obs EXCEPT ![e.id] = at[p]] ELSE obs
                 /\ UNCHANGED <<pc, at, tag, body, loopVars>>
              \/ Fault /\ Return(p) /\ UNCHANGED obs
  /\ UNCHANGED <<origin, lease, storeVars, sinkVars, cleanVars>>

DetectEnd(p) ==
  /\ pc[p] = "detect" /\ scan[p] = {}
  /\ Goto(p, "loop")
  /\ UNCHANGED <<origin, lease, storeVars, jobVars, sinkVars, cleanVars, obs, faults>>

NextChange(p) ==
  /\ pc[p] = "loop"
  /\ \/ todo[p] = {} /\ Return(p)
     \/ \E c \in todo[p] :
          /\ \A d \in todo[p] \ {c} : publishedBefore(body[p], c.idx, d.idx)
          /\ cur' = [cur EXCEPT ![p] = c]
          /\ k' = [k EXCEPT ![p] = 1]
          /\ ok' = [ok EXCEPT ![p] = TRUE]
          /\ Goto(p, "publish")
          /\ UNCHANGED <<at, tag, detectVars>>
  /\ UNCHANGED <<origin, lease, storeVars, sinkVars, cleanVars, obs, faults>>

-----------------------------------------------------------------------------
Cur(p) == body[p][cur[p].idx]
Pair(e) == <<e.id, e.hash>>

\* One sink's Deliver: Success, captured by its DLQ, or Dropped.  A sink
\* that reported an error may have received the change all the same.
Deliver(p) ==
  /\ pc[p] = "publish" /\ k[p] \in Sink
  /\ \E out \in {"success", "dlq", "dropped"}, reached \in BOOLEAN :
       LET s == k[p]
           e == Cur(p)
           handed == reached \/ out = "dlq"
       IN  /\ out = "success" => reached
           /\ out = "dlq" => s \in HasDLQ
           /\ IF out = "success" THEN NoFault ELSE Fault
           /\ got' = IF reached THEN [got EXCEPT ![s] = @ \cup {Pair(e)}] ELSE got
           /\ dlq' = IF out = "dlq" THEN [dlq EXCEPT ![s] = @ \cup {Pair(e)}] ELSE dlq
           /\ dup' = (dup \/ (handed /\ last[s][e.id] = e.hash))
           /\ last' = IF handed THEN [last EXCEPT ![s][e.id] = e.hash] ELSE last
           /\ ok' = [ok EXCEPT ![p] = @ /\ out # "dropped"]
  /\ k' = [k EXCEPT ![p] = @ + 1]
  /\ UNCHANGED <<origin, lease, storeVars, pc, at, tag, detectVars, cur, cleanVars, obs>>

\* allOK: no sink dropped the change.
CommitAnyway(p) == TRUE
MayCommit(p) == ok[p]

\* After the last sink: UpsertItem if none dropped.  A failed UpsertItem is
\* only logged; the row may have been written all the same.
UpsertItem(p) ==
  /\ pc[p] = "publish" /\ k[p] = NumSinks + 1
  /\ LET e == Cur(p)
         committed == [seen EXCEPT ![e.id] = [hash |-> e.hash, age |-> at[p]]]
     IN  \/ MayCommit(p) /\ NoFault /\ seen' = committed
         \/ MayCommit(p) /\ Fault /\ seen' \in {seen, committed}
         \/ ~MayCommit(p) /\ NoFault /\ seen' = seen
  /\ todo' = [todo EXCEPT ![p] = @ \ {cur[p]}]
  /\ cur' = [cur EXCEPT ![p] = NoChange]
  /\ k' = [k EXCEPT ![p] = 0]
  /\ ok' = [ok EXCEPT ![p] = FALSE]
  /\ Goto(p, "loop")
  /\ UNCHANGED <<origin, lease, meta, at, tag, body, scan, sinkVars, cleanVars, obs>>

\* The process dies; its lease outlives it.
Crash(p) ==
  /\ pc[p] # "idle"
  /\ Fault
  /\ Goto(p, "idle") /\ Forget(p)
  /\ UNCHANGED <<origin, lease, storeVars, sinkVars, cleanVars, obs>>

-----------------------------------------------------------------------------
Older(a) == IF a < MaxAge THEN a + 1 ELSE a

\* PruneItemsBefore, then (same sweep) PruneFeedMetaBefore with its own cutoff.
PruneItemsBefore(d, dMeta) ==
  /\ sweep = -1
  /\ seen' = [i \in Items |-> IF seen[i].age > d THEN NoRow ELSE seen[i]]
  /\ pruned' = (pruned \/ seen' # seen)
  /\ sweep' = dMeta
  /\ UNCHANGED <<origin, lease, meta, pc, jobVars, sinkVars, obs, faults>>

PruneFeedMetaBefore ==
  /\ sweep # -1
  /\ \/ NoFault /\ meta' = IF meta.age > sweep THEN NoMeta ELSE meta
     \/ Fault /\ meta' = meta
  /\ sweep' = -1
  /\ UNCHANGED <<origin, lease, seen, pc, jobVars, sinkVars, pruned, obs>>

\* statecleanup.Run starts only for a positive item_ttl.
StateCleanup == MaxAge > 0 /\ ItemTTL > 0 /\ PruneItemsBefore(ItemTTL, ItemTTL)

\* handlePrune: a missing duration defaults to state.item_ttl.
AdminPrune ==
  /\ MaxAge > 0 /\ AdminEnabled
  /\ \E d, dMeta \in ExplicitPrune \cup {ItemTTL} : PruneItemsBefore(d, dMeta)

Tick ==
  /\ MaxAge > 0
  /\ seen' = [i \in Items |-> IF seen[i].hash = None THEN seen[i]
                              ELSE [seen[i] EXCEPT !.age = Older(@)]]
  /\ meta' = IF meta.tag = None THEN meta ELSE [meta EXCEPT !.age = Older(@)]
  /\ at' = [p \in Inst |-> IF pc[p] \in {"idle", "release"} THEN at[p] ELSE Older(at[p])]
  /\ obs' = [i \in Items |-> Older(obs[i])]
  /\ sweep' = IF sweep = -1 THEN sweep ELSE Older(sweep)
  /\ UNCHANGED <<origin, lease, pc, tag, detectVars, loopVars, sinkVars, pruned, faults>>

\* The publisher of the feed edits it.
OriginChange ==
  /\ origin' \in Bodies \ {origin}
  /\ UNCHANGED <<lease, storeVars, pc, jobVars, sinkVars, cleanVars, obs, faults>>

-----------------------------------------------------------------------------
Step(p) ==
  \/ TryAcquire(p) \/ GetFeedMeta(p) \/ Fetch(p) \/ UpsertFeedMeta(p)
  \/ classify(p) \/ DetectEnd(p) \/ NextChange(p) \/ Deliver(p) \/ UpsertItem(p)
  \/ Release(p)

Next ==
  \/ \E p \in Inst : Step(p) \/ TryAcquireError(p) \/ Crash(p)
  \/ LeaseExpire \/ StateCleanup \/ AdminPrune \/ PruneFeedMetaBefore
  \/ Tick \/ OriginChange

Spec == Init /\ [][Next]_vars

\* A running instance keeps polling on its ticker and a poll's calls return;
\* an abandoned lease expires.  Nothing is assumed of the origin.
Fairness == (\A p \in Inst : WF_vars(Step(p))) /\ WF_vars(LeaseExpire)

FairSpec == Spec /\ Fairness

-----------------------------------------------------------------------------
StoreOK ==
  /\ seen \in [Items -> [hash : HashOrNone, age : Age]]
  /\ meta \in [tag : Bodies \cup {None}, age : Age]

SinksOK ==
  /\ got \in [Sink -> SUBSET (Items \X Hashes)]
  /\ dlq \in [Sink -> SUBSET (Items \X Hashes)]
  /\ last \in [Sink -> [Items -> HashOrNone]]
  /\ dup \in BOOLEAN

LocalsOK ==
  /\ at \in [Inst -> Age]
  /\ tag \in [Inst -> Bodies \cup {None}]
  /\ body \in [Inst -> Seq(Entry)]
  /\ scan \in [Inst -> SUBSET Nat]
  /\ todo \in [Inst -> SUBSET Change]
  /\ cur \in [Inst -> Change]
  /\ k \in [Inst -> 0 .. NumSinks + 1]
  /\ ok \in [Inst -> BOOLEAN]

CleanOK == sweep \in Age \cup {-1} /\ pruned \in BOOLEAN

\* Type invariant: rows, locals, sinks and history stay in their domains.
TypeOK ==
  /\ origin \in Bodies
  /\ lease \in Inst \cup {None}
  /\ pc \in [Inst -> Phases]
  /\ obs \in [Items -> Age]
  /\ faults \in 0 .. MaxFaults
  /\ StoreOK /\ SinksOK /\ LocalsOK /\ CleanOK

Handled(s, i, h) == <<i, h>> \in got[s] \cup dlq[s]

\* At-least-once: an item recorded as seen with some content was handed, with
\* that content, to every sink or to that sink's dead letter.  UpsertItem runs
\* only after every Deliver of the change was a Success or was captured.
CommittedWasDelivered ==
  \A i \in Items : seen[i].hash # None =>
    \A s \in Sink : Handled(s, i, seen[i].hash)

\* A change announced as "updated" is about an item every sink (or its dead
\* letter) has already received in some version: the kind is decided from the
\* seen-items row, and a row implies an earlier complete delivery.
UpdatedAfterNew ==
  \A p \in Inst : pc[p] = "publish" /\ cur[p].old # None =>
    \A s \in Sink : \E h \in Hashes : Handled(s, Cur(p).id, h)

\* Every document lists an item at most once; Detect does not look for repeats.
ListsItemsOnce == \A b \in Bodies : \A i, j \in DOMAIN b : b[i].id = b[j].id => i = j

\* Without a failure and without pruning, no sink is handed the content it was
\* handed last for that item, if documents list an item once: detection and
\* commit dedupe across instances.
NoDuplicateWithoutFault == ListsItemsOnce /\ dup => faults > 0 \/ pruned

\* Between polls, if nothing failed and nothing was pruned, what every sink was
\* handed last for an item is what the store records for it, in whatever order
\* the instances polled and whatever documents they saw.
SinksAgreeWithStore ==
  faults = 0 /\ ~pruned /\ (\A p \in Inst : pc[p] = "idle") =>
    \A s \in Sink, i \in Items : last[s][i] = seen[i].hash

\* If the origin settles on a document, every entry of it is eventually in
\* every sink or dead letter, whatever poll was cut short, dropped a change or
\* failed to commit one on the way.
EventuallyDelivered ==
  \A b \in Bodies : <>[](origin = b) =>
    <>(\A j \in DOMAIN b : \A s \in Sink : Handled(s, b[j].id, b[j].hash))

\* A change some sink dropped in this poll is detected again by a later poll
\* and reaches every sink or dead letter, unless the feed moves on.
DroppedIsRedetected ==
  \A p \in Inst, i \in Items, h \in Hashes :
    (pc[p] = "publish" /\ ~ok[p] /\ Pair(Cur(p)) = <<i, h>>)
      ~> \/ \A s \in Sink : Handled(s, i, h)
         \/ \A j \in DOMAIN origin : Pair(origin[j]) # <<i, h>>

\* A sweep removes a row only when no poll begun in the last ItemTTL ticks found
\* its item in the feed, unchanged: such a poll refreshes the row.
PresentItemsKept ==
  [][\A i \in Items : seen[i].hash # None /\ seen'[i].hash = None
                        => obs[i] > ItemTTL]_vars
=============================================================================
