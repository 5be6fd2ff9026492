---------------------------- MODULE CosmosLease ----------------------------
(* The Cosmos DB coordinator (internal/coord/cosmosdb/cosmosdb.go) for one   *)
(* feed: a lock document created if absent, replaced or deleted on condition *)
(* that its ETag is the one the caller knows. An ETag is only compared with   *)
(* that of the present document, so the model keeps who knows the present one. *)
(* Times are relative, as in DynamoLease.                                       *)
EXTENDS Integers, FiniteSets

CONSTANTS Holder, LockTime, ClockSkew, MaxWait, MaxFailures

ASSUME CosmosAssumptions ==
  /\ LockTime \in Nat \ {0} /\ ClockSkew \in Nat /\ MaxWait \in Nat /\ MaxFailures \in Nat

VARIABLES
  doc,       \* is there a lock document?
  left,      \* its lease_expiry minus the time of the slowest clock
  ahead,     \* how far each instance's clock is ahead of that
  at,        \* where TryAcquire, the poll or the release is
  since,     \* ticks since TryAcquire read the clock
  mine,      \* instances whose lease holds the document's ETag
  read,      \* instances that read the document's ETag in tryReclaim
  inHeld,    \* instances whose lease is in c.held
  closed,    \* instances whose Close was called
  closing,   \* those whose Close has yet to delete the lease it took
  lateDel,   \* a delete with the document's ETag timed out and may still run
  failures   \* history: number of failed calls

cosmosVars == <<doc, left, ahead, at, since, mine, read, inHeld, closed, closing, lateDel, failures>>
lock == <<doc, left, mine, read, lateDel>>

CosmosInit ==
  /\ ahead \in [Holder -> 0 .. ClockSkew] /\ \E p \in Holder : ahead[p] = 0
  /\ doc = FALSE /\ left = 0 /\ mine = {} /\ read = {} /\ lateDel = FALSE
  /\ at = [p \in Holder |-> "idle"] /\ since = [p \in Holder |-> 0]
  /\ inHeld = {} /\ closed = {} /\ closing = {} /\ failures = 0

CallFails == failures < MaxFailures /\ failures' = failures + 1
CallReturns == failures' = failures

Clock(p) == ahead[p] - since[p]
Timed == {"create", "read", "replace", "won", "poll"}
Go(p, where) ==
  /\ at' = [at EXCEPT ![p] = where]
  /\ since' = [since EXCEPT ![p] = IF where \in Timed THEN @ ELSE 0]

\* A write gives the document a new ETag, which only those in who learn.
Write(p, who) ==
  /\ doc' = TRUE /\ left' = Clock(p) + LockTime /\ mine' = who /\ read' = {} /\ lateDel' = FALSE
Erase == doc' = FALSE /\ left' = 0 /\ mine' = {} /\ read' = {} /\ lateDel' = FALSE

-----------------------------------------------------------------------------
TryAcquire(p) ==
  /\ at[p] = "idle" /\ Go(p, "create")
  /\ UNCHANGED <<lock, ahead, inHeld, closed, closing, failures>>

\* 409 Conflict leads to tryReclaim; a lost reply leaves a lease nobody knows of.
CreateItem(p) ==
  /\ at[p] = "create"
  /\ \/ ~doc /\ Write(p, {p}) /\ Go(p, "won") /\ CallReturns
     \/ ~doc /\ Write(p, {}) /\ Go(p, "idle") /\ CallFails
     \/ doc /\ Go(p, "read") /\ CallReturns /\ UNCHANGED lock
     \/ Go(p, "idle") /\ CallFails /\ UNCHANGED lock
  /\ UNCHANGED <<ahead, inHeld, closed, closing>>

\* Live as long as LeaseExpiry > now, for the now of TryAcquire.
LiveWithinSkew(p) == left > Clock(p) + ClockSkew
NeverLapses(p) == doc
Live(p) == left > Clock(p)

ReadItem(p) ==
  /\ at[p] = "read"
  /\ \/ (~doc \/ Live(p)) /\ Go(p, "idle") /\ CallReturns /\ UNCHANGED read
     \/ doc /\ ~Live(p) /\ Go(p, "replace") /\ read' = read \cup {p} /\ CallReturns
     \/ Go(p, "idle") /\ CallFails /\ UNCHANGED read
  /\ UNCHANGED <<doc, left, mine, lateDel, ahead, inHeld, closed, closing>>

\* IfMatchEtag of the ReplaceItem.
AnyVersion(p) == doc
Unchanged(p) == p \in read

ReplaceItem(p) ==
  /\ at[p] = "replace"
  /\ \/ Unchanged(p) /\ Write(p, {p}) /\ Go(p, "won") /\ CallReturns
     \/ Unchanged(p) /\ Write(p, {}) /\ Go(p, "idle") /\ CallFails
     \/ ~Unchanged(p) /\ Go(p, "idle") /\ CallReturns /\ UNCHANGED lock
     \/ Go(p, "idle") /\ CallFails /\ read' = read \ {p} /\ UNCHANGED <<doc, left, mine, lateDel>>
  /\ UNCHANGED <<ahead, inHeld, closed, closing>>

\* IfMatchEtag of the DeleteItem. A call that times out may still be executed.
AnyLease(p) == doc
OwnVersion(p) == p \in mine

conditionalDelete(p) ==
  \/ OwnVersion(p) /\ Erase /\ CallReturns
  \/ ~OwnVersion(p) /\ CallReturns /\ UNCHANGED lock
  \/ /\ CallFails
     /\ lateDel' = (lateDel \/ OwnVersion(p)) /\ mine' = mine \ {p}
     /\ UNCHANGED <<doc, left, read>>

recordHeld(p) ==
  /\ at[p] = "won"
  /\ \/ /\ p \notin closed /\ inHeld' = inHeld \cup {p} /\ Go(p, "poll")
        /\ UNCHANGED <<lock, failures>>
     \/ p \in closed /\ conditionalDelete(p) /\ Go(p, "idle") /\ UNCHANGED inHeld
  /\ UNCHANGED <<ahead, closed, closing>>

\* The release function: nothing is left to do if Close took the lease.
ReleaseLease(p) ==
  /\ at[p] = "poll"
  /\ Go(p, IF p \in inHeld THEN "release" ELSE "idle")
  /\ inHeld' = inHeld \ {p}
  /\ UNCHANGED <<lock, ahead, closed, closing, failures>>

ReleaseDeletes(p) ==
  /\ at[p] = "release" /\ conditionalDelete(p) /\ Go(p, "idle")
  /\ UNCHANGED <<ahead, inHeld, closed, closing>>

CloseTakes(p) ==
  /\ p \notin closed
  /\ closed' = closed \cup {p}
  /\ closing' = closing \cup (inHeld \cap {p})
  /\ inHeld' = inHeld \ {p}
  /\ UNCHANGED <<lock, ahead, at, since, failures>>

CloseDeletes(p) ==
  /\ p \in closing /\ conditionalDelete(p)
  /\ closing' = closing \ {p}
  /\ UNCHANGED <<ahead, at, since, inHeld, closed>>

\* A new process, after Close and the last poll or after a crash.
NewProcess(p) ==
  /\ \/ p \in closed \ closing /\ at[p] = "idle" /\ CallReturns
     \/ CallFails
  /\ Go(p, "idle")
  /\ closed' = closed \ {p} /\ closing' = closing \ {p} /\ inHeld' = inHeld \ {p}
  /\ mine' = mine \ {p} /\ read' = read \ {p}
  /\ UNCHANGED <<doc, left, lateDel, ahead>>

-----------------------------------------------------------------------------
LateDeleteItem ==
  /\ lateDel
  /\ \/ Erase
     \/ lateDel' = FALSE /\ UNCHANGED <<doc, left, mine, read>>
  /\ UNCHANGED <<ahead, at, since, inHeld, closed, closing, failures>>

InCall(p) == at[p] \in {"create", "read", "replace"}

TickCosmos ==
  /\ \A p \in Holder : InCall(p) => since[p] < MaxWait
  /\ left' = IF doc /\ left > 0 - MaxWait THEN left - 1 ELSE left
  /\ since' = [p \in Holder |-> IF InCall(p) \/ (at[p] \in Timed /\ since[p] < LockTime)
                                  THEN since[p] + 1 ELSE since[p]]
  /\ UNCHANGED <<doc, mine, read, lateDel, ahead, at, inHeld, closed, closing, failures>>

CosmosStep(p) ==
  \/ TryAcquire(p) \/ CreateItem(p) \/ ReadItem(p) \/ ReplaceItem(p) \/ recordHeld(p)
  \/ ReleaseLease(p) \/ ReleaseDeletes(p) \/ CloseDeletes(p)

CosmosNext ==
  \/ \E p \in Holder : CosmosStep(p) \/ CloseTakes(p) \/ NewProcess(p)
  \/ LateDeleteItem \/ TickCosmos

CosmosSpec == CosmosInit /\ [][CosmosNext]_cosmosVars

-----------------------------------------------------------------------------
InTime(p) == at[p] = "poll" /\ p \in inHeld /\ since[p] < LockTime - ClockSkew

\* Until lease_duration less the skew has passed since TryAcquire read its clock,
\* the document is the version the poller wrote: no reclaim by another instance,
\* however old the clock reading it decides with, and no delete of an earlier
\* lease that arrives late takes it away.
LockCoversPoll == \A p \in Holder : InTime(p) => doc /\ mine = {p}

\* The coordinator contract. A lease is lost when the document is not the holder's
\* version, or the fastest clock could read it as expired.
HasLease(p) == at[p] \in {"won", "poll"}
CosmosCoord == INSTANCE Coordinator WITH
  Inst <- Holder,
  holding <- {p \in Holder : HasLease(p)},
  lost <- {p \in Holder : HasLease(p) /\ (p \notin mine \/ left <= ClockSkew)}
CosmosImplements == CosmosCoord!CSpec

\* Once instances are no longer shut down the feed is polled again and again: a
\* lease whose owner is gone, or never learned that it won, expires and is reclaimed.
CosmosPolledAgain == <>[](closed = {}) => []<>(\E p \in Holder : at[p] = "poll")
=============================================================================
