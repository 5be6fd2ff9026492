----------------------------- MODULE DynamoLease -----------------------------
(***************************************************************************)
(* The DynamoDB coordinator (internal/coord/dynamodb/dynamodb.go) for one  *)
(* feed: a row with an owner and an expiry stamped by the clock of the     *)
(* process that wrote it, a conditional put, a conditional delete, Close.  *)
(*                                                                         *)
(* Times are relative to true time: rem is the row's lease_expiry minus    *)
(* the true time, which is that of the slowest clock, and the clock of p   *)
(* is off[p] ahead of it.  age[p] is the time since p read its clock in    *)
(* TryAcquire, so that reading was off[p] - age[p].                        *)
(***************************************************************************)
EXTENDS Integers, FiniteSets

CONSTANTS Inst,
          Owner,      \* newOwnerToken values
          None,
          Lease,      \* lease_duration in ticks
          Skew,       \* largest difference between two clocks
          MaxDelay,   \* bound: ticks from reading the clock to the put
          MaxFaults   \* bound: number of failures

ASSUME DynamoAssumptions ==
  /\ None \notin Owner
  /\ Lease \in Nat \ {0} /\ Skew \in Nat /\ MaxDelay \in Nat /\ MaxFaults \in Nat

VARIABLES
  row,     \* the lock row: its owner (None: absent) and its remaining time
  off,     \* clock offset of each instance
  owner,   \* c.owner of the process that runs as each instance
  pc,      \* where its poll is
  age,     \* ticks since TryAcquire read the clock
  held,    \* is the lease in c.held?
  open,    \* Close has not been called
  taken,   \* Close has yet to delete the lease it took out of c.held
  dels,    \* owners of conditional deletes that timed out but may still run
  hurt,    \* history: a Close, or an earlier delete of p, threatens this lease
  faults   \* history: number of failures

vars == <<row, off, owner, pc, age, held, open, taken, dels, hurt, faults>>
proc == <<off, owner, open>>

\* Ages above both bounds are alike.
MaxAge == 1 + (IF MaxDelay < Lease - Skew THEN Lease - Skew ELSE MaxDelay)
NoRow == [owner |-> None, rem |-> 0]

Init ==
  /\ row = NoRow
  /\ off \in [Inst -> 0 .. Skew] /\ \E p \in Inst : off[p] = 0
  /\ owner \in [Inst -> Owner]
  /\ \A p, q \in Inst : owner[p] = owner[q] => p = q
  /\ pc = [p \in Inst |-> "idle"]
  /\ age = [p \in Inst |-> 0]
  /\ held = [p \in Inst |-> FALSE]
  /\ open = [p \in Inst |-> TRUE]
  /\ taken = [p \in Inst |-> FALSE]
  /\ dels = {}
  /\ hurt = [p \in Inst |-> FALSE]
  /\ faults = 0

-----------------------------------------------------------------------------
Fault == faults < MaxFaults /\ faults' = faults + 1
NoFault == faults' = faults

\* The lease struct of p becomes garbage.
Drop(p) ==
  /\ pc' = [pc EXCEPT ![p] = "idle"]
  /\ age' = [age EXCEPT ![p] = 0]
  /\ held' = [held EXCEPT ![p] = FALSE]
  /\ hurt' = [hurt EXCEPT ![p] = FALSE]

\* ConditionExpression of the put: no row, or #exp < :now.
FreeIfAbsent(p) == row.owner = None
StealEarly(p) == row.owner = None \/ row.rem <= off[p] - age[p] + Skew
Free(p) == row.owner = None \/ row.rem < off[p] - age[p]

\* The item of the put: expiry is the clock reading plus lease_duration.
Item(p) == [owner |-> owner[p], rem |-> off[p] - age[p] + Lease]

\* The delete, on condition #owner = :me.
Del(t) == IF row.owner = t THEN NoRow ELSE row

\* conditionalDelete: a call that timed out may still be executed.
conditionalDelete(p) ==
  \/ row' = Del(owner[p]) /\ dels' = dels /\ NoFault
  \/ row' = row /\ dels' = dels \cup {owner[p]} /\ Fault

-----------------------------------------------------------------------------
\* TryAcquire reads the clock.
Now(p) ==
  /\ pc[p] = "idle"
  /\ pc' = [pc EXCEPT ![p] = "put"]
  /\ UNCHANGED <<row, age, held, taken, dels, hurt, faults, proc>>

PutItem(p) ==
  /\ pc[p] = "put" /\ Free(p)
  /\ row' = Item(p)
  /\ pc' = [pc EXCEPT ![p] = "won"]
  /\ hurt' = [hurt EXCEPT ![p] = owner[p] \in dels]
  /\ UNCHANGED <<age, held, taken, dels, faults, proc>>

\* ConditionalCheckFailed, or an error: the row is unchanged, or it was written
\* and the reply was lost.
PutItemFails(p) ==
  /\ pc[p] = "put"
  /\ \/ ~Free(p) /\ row' = row /\ NoFault
     \/ row' = row /\ Fault
     \/ Free(p) /\ row' = Item(p) /\ Fault
  /\ Drop(p)
  /\ UNCHANGED <<taken, dels, proc>>

\* TryAcquire after the reply: register the lease, or give it back if closing.
Register(p) ==
  /\ pc[p] = "won"
  /\ \/ /\ open[p]
        /\ pc' = [pc EXCEPT ![p] = "poll"]
        /\ held' = [held EXCEPT ![p] = TRUE]
        /\ UNCHANGED <<row, age, dels, hurt, faults>>
     \/ /\ ~open[p]
        /\ conditionalDelete(p) /\ Drop(p)
  /\ UNCHANGED <<taken, proc>>

\* release: nothing to do if Close took the lease.
Release(p) ==
  /\ pc[p] = "poll"
  /\ \/ ~held[p] /\ Drop(p)
     \/ /\ held[p]
        /\ pc' = [pc EXCEPT ![p] = "release"]
        /\ held' = [held EXCEPT ![p] = FALSE]
        /\ age' = [age EXCEPT ![p] = 0]
        /\ UNCHANGED hurt
  /\ UNCHANGED <<row, taken, dels, faults, proc>>

ReleaseDelete(p) ==
  /\ pc[p] = "release"
  /\ conditionalDelete(p) /\ Drop(p)
  /\ UNCHANGED <<taken, proc>>

-----------------------------------------------------------------------------
CloseStart(p) ==
  /\ open[p]
  /\ open' = [open EXCEPT ![p] = FALSE]
  /\ taken' = [taken EXCEPT ![p] = held[p]]
  /\ held' = [held EXCEPT ![p] = FALSE]
  /\ hurt' = [hurt EXCEPT ![p] = (pc[p] # "idle")]
  /\ UNCHANGED <<row, off, owner, pc, age, dels, faults>>

CloseLease(p) ==
  /\ taken[p]
  /\ conditionalDelete(p)
  /\ taken' = [taken EXCEPT ![p] = FALSE]
  /\ UNCHANGED <<pc, age, held, hurt, proc>>

\* The process ends, after Close or by a crash, and a new one takes its place.
Restart(p) ==
  /\ \/ ~open[p] /\ ~taken[p] /\ NoFault
     \/ Fault
  /\ \E t \in Owner \ dels :
       /\ t # row.owner /\ \A q \in Inst : t # owner[q]
       /\ owner' = [owner EXCEPT ![p] = t]
  /\ open' = [open EXCEPT ![p] = TRUE]
  /\ taken' = [taken EXCEPT ![p] = FALSE]
  /\ Drop(p)
  /\ UNCHANGED <<row, off, dels>>

-----------------------------------------------------------------------------
\* DynamoDB executes, or never executes, a delete whose caller has given up.
LateDelete(t) ==
  /\ t \in dels
  /\ row' \in {row, Del(t)}
  /\ dels' = dels \ {t}
  /\ UNCHANGED <<off, owner, pc, age, held, open, taken, hurt, faults>>

Floor == -MaxDelay - 1

Tick ==
  /\ \A p \in Inst : pc[p] = "put" => age[p] < MaxDelay
  /\ row' = [row EXCEPT !.rem = IF row.owner # None /\ @ > Floor THEN @ - 1 ELSE @]
  /\ age' = [p \in Inst |-> IF pc[p] \notin {"idle", "release"} /\ age[p] < MaxAge THEN age[p] + 1
                                                                 ELSE age[p]]
  /\ UNCHANGED <<pc, held, taken, dels, hurt, faults, proc>>

-----------------------------------------------------------------------------
Step(p) ==
  \/ Now(p) \/ PutItem(p) \/ PutItemFails(p) \/ Register(p) \/ Release(p)
  \/ ReleaseDelete(p) \/ CloseLease(p)

Next ==
  \/ \E p \in Inst : Step(p) \/ CloseStart(p) \/ Restart(p)
  \/ \E t \in Owner : LateDelete(t)
  \/ Tick

Spec == Init /\ [][Next]_vars

\* The poll loop of a process goes on and the clock advances.
FairSpec == Spec /\ WF_vars(Tick) /\ \A p \in Inst : WF_vars(Step(p))

-----------------------------------------------------------------------------
\* Type invariant.
TypeOK ==
  /\ row \in [owner : Owner \cup {None}, rem : Int]
  /\ off \in [Inst -> 0 .. Skew]
  /\ owner \in [Inst -> Owner]
  /\ pc \in [Inst -> {"idle", "put", "won", "poll", "release"}]
  /\ age \in [Inst -> 0 .. MaxAge]
  /\ held \in [Inst -> BOOLEAN]
  /\ open \in [Inst -> BOOLEAN]
  /\ taken \in [Inst -> BOOLEAN]
  /\ dels \subseteq Owner
  /\ hurt \in [Inst -> BOOLEAN]
  /\ faults \in 0 .. MaxFaults

Covered(p) == pc[p] = "poll" /\ ~hurt[p] /\ age[p] <= Lease - Skew

\* The row stays with an instance for lease_duration less the clock skew, counted
\* from the clock reading and not from the reply: no put, release, Close or late
\* delete of another process takes it away before.
LeaseCoversPoll == \A p \in Inst : Covered(p) => row.owner = owner[p]

\* So polls that end within that time never overlap.
CoveredPollsExclude == \A p, q \in Inst : Covered(p) /\ Covered(q) => p = q

\* Once processes are no longer shut down, the feed is polled again and again:
\* neither a row whose owner is gone, nor one whose own process does not know that
\* it wrote it, blocks the feed for good.
PolledAgain == <>[](\A p \in Inst : open[p]) => []<>(\E p \in Inst : pc[p] = "poll")

\* The coordinator contract.  A lease is lost when the row is not the holder's, or
\* the fastest clock could read it as expired.
Holds(p) == pc[p] \in {"won", "poll"}
Coord == INSTANCE Coordinator WITH
  holding <- {p \in Inst : Holds(p)},
  lost <- {p \in Inst : Holds(p) /\ (row.owner # owner[p] \/ row.rem < Skew)}
ImplementsCoordinator == Coord!CSpec
=============================================================================
