------------------------------- MODULE PgLock -------------------------------
(* The Postgres coordinator (internal/coord/postgres): session-level advisory *)
(* locks taken on pooled connections, which polls hold and the heartbeat       *)
(* shares. The pool and the server (a session's locks outlive the connection   *)
(* until the server notices) are external.                                      *)
EXTENDS Integers, FiniteSets

CONSTANTS PgInst, LockedFeed, Beats, Slot, FreeLock, Dying, NoSlot, MaxBreaks

ASSUME PgAssumptions ==
  /\ Beats \notin LockedFeed /\ NoSlot \notin Slot /\ {FreeLock, Dying} \cap (PgInst \X Slot) = {}
  /\ MaxBreaks \in Nat

Task == LockedFeed \cup {Beats}   \* the polls of an instance, and its heartbeat

VARIABLES
  conns,    \* each slot of each pool: none, idle, used, or broken (used, session gone)
  advisory, \* holder of each advisory lock: a session <<i, s>>, Dying or FreeLock
  task,     \* where each task of each instance is
  using,    \* the slot it uses
  heldBy,   \* c.held: slots per instance
  pool,     \* open, closing (c.held is nil) or closed
  breaks    \* history: number of failures

pgVars == <<conns, advisory, task, using, heldBy, pool, breaks>>

PgInit ==
  /\ conns = [i \in PgInst |-> [s \in Slot |-> "none"]]
  /\ advisory = [f \in LockedFeed |-> FreeLock]
  /\ task = [i \in PgInst |-> [t \in Task |-> "idle"]]
  /\ using = [i \in PgInst |-> [t \in Task |-> NoSlot]]
  /\ heldBy = [i \in PgInst |-> {}]
  /\ pool = [i \in PgInst |-> "open"]
  /\ breaks = 0

Breaks == breaks < MaxBreaks /\ breaks' = breaks + 1
Fine == breaks' = breaks

Goes(i, t, where) == task' = [task EXCEPT ![i][t] = where]
Conn(i, t) == using[i][t]
SetConn(i, s, state) == conns' = [conns EXCEPT ![i][s] = state]

\* conn.Release: a broken connection, or one of a closed pool, is destroyed.
ReleaseConn(i, s) == SetConn(i, s, IF conns[i][s] = "used" THEN "idle" ELSE "none")
Leaves(i, t) == Goes(i, t, "idle") /\ using' = [using EXCEPT ![i][t] = NoSlot]

\* The sessions in gone have lost their client.
Orphan(gone) == [f \in LockedFeed |-> IF advisory[f] \in gone THEN Dying ELSE advisory[f]]

-----------------------------------------------------------------------------
\* pool.Acquire, by TryAcquire and by the heartbeat's statements.
Wants(i, t) ==
  /\ task[i][t] = "idle" /\ pool[i] = "open" /\ Goes(i, t, "acquire")
  /\ UNCHANGED <<conns, advisory, using, heldBy, pool, breaks>>

AcquireConn(i, t) ==
  /\ task[i][t] = "acquire" /\ pool[i] # "closed"
  /\ \E s \in Slot :
       /\ conns[i][s] \in {"none", "idle"} /\ SetConn(i, s, "used")
       /\ using' = [using EXCEPT ![i][t] = s]
  /\ Goes(i, t, "query")
  /\ UNCHANGED <<advisory, heldBy, pool, breaks>>

\* The context is done, or the pool is closed.
AcquireFails(i, t) ==
  /\ task[i][t] = "acquire"
  /\ IF pool[i] = "closed" THEN Fine ELSE Breaks
  /\ Leaves(i, t) /\ UNCHANGED <<conns, advisory, heldBy, pool>>

\* pg_try_advisory_lock is granted to the session that has the lock already, too.
SharedLock(i, f) == conns[i][Conn(i, f)] = "used"
Grantable(i, f) ==
  conns[i][Conn(i, f)] = "used" /\ advisory[f] \in {FreeLock, <<i, Conn(i, f)>>}

\* Somebody else has it: the connection goes back to the pool.
LeakConn(i, f) == UNCHANGED conns
GiveBack(i, f) == ReleaseConn(i, Conn(i, f))

TryLock(i, f) ==
  /\ f \in LockedFeed /\ task[i][f] = "query" /\ conns[i][Conn(i, f)] = "used"
  /\ \/ /\ Grantable(i, f) /\ Goes(i, f, "won")
        /\ advisory' = [advisory EXCEPT ![f] = <<i, Conn(i, f)>>]
        /\ UNCHANGED <<conns, using>>
     \/ /\ ~Grantable(i, f)
        /\ GiveBack(i, f) /\ Leaves(i, f) /\ UNCHANGED advisory
  /\ UNCHANGED <<heldBy, pool>> /\ Fine

\* A query that is interrupted, by its context or by the network, closes the
\* connection; the server may have granted the lock all the same.
QueryFails(i, t) ==
  /\ task[i][t] = "query"
  /\ IF conns[i][Conn(i, t)] = "broken" THEN Fine ELSE Breaks
  /\ \E granted \in BOOLEAN :
       /\ granted => t \in LockedFeed /\ Grantable(i, t)
       /\ advisory' = LET a == Orphan({<<i, Conn(i, t)>>})
                      IN IF granted THEN [a EXCEPT ![t] = Dying] ELSE a
  /\ SetConn(i, Conn(i, t), "none") /\ Leaves(i, t)
  /\ UNCHANGED <<heldBy, pool>>

\* The heartbeat's statements, which need no lock.
BeatDone(i) ==
  /\ task[i][Beats] = "query" /\ conns[i][Conn(i, Beats)] = "used"
  /\ ReleaseConn(i, Conn(i, Beats)) /\ Leaves(i, Beats)
  /\ UNCHANGED <<advisory, heldBy, pool, breaks>>

\* The rest of TryAcquire: enter the connection in c.held, or give it up.
RegisterHeld(i, f) ==
  /\ task[i][f] = "won"
  /\ \/ /\ pool[i] = "open" /\ Goes(i, f, "poll")
        /\ heldBy' = [heldBy EXCEPT ![i] = @ \cup {Conn(i, f)}]
        /\ UNCHANGED <<conns, using, advisory>>
     \/ /\ pool[i] # "open"
        /\ ReleaseConn(i, Conn(i, f)) /\ Leaves(i, f) /\ UNCHANGED <<heldBy, advisory>>
  /\ UNCHANGED <<pool, breaks>>

ReleaseFunc(i, f) ==
  /\ task[i][f] = "poll"
  /\ IF Conn(i, f) \in heldBy[i]
       THEN Goes(i, f, "unlock") /\ UNCHANGED using
       ELSE Leaves(i, f)
  /\ heldBy' = [heldBy EXCEPT ![i] = @ \ {Conn(i, f)}]
  /\ UNCHANGED <<conns, advisory, pool, breaks>>

Unlock(i, f) ==
  /\ task[i][f] = "unlock" /\ conns[i][Conn(i, f)] = "used"
  /\ advisory' = [advisory EXCEPT ![f] = IF @ = <<i, Conn(i, f)>> THEN FreeLock ELSE @]
  /\ ReleaseConn(i, Conn(i, f)) /\ Leaves(i, f)
  /\ UNCHANGED <<heldBy, pool, breaks>>

\* The unlock failed: the connection is hijacked and closed, not pooled again.
Hijack(i, f) == SetConn(i, Conn(i, f), "none") /\ advisory' = Orphan({<<i, Conn(i, f)>>})

UnlockFails(i, f) ==
  /\ task[i][f] = "unlock"
  /\ IF conns[i][Conn(i, f)] = "broken" THEN Fine ELSE Breaks
  /\ Hijack(i, f) /\ Leaves(i, f)
  /\ UNCHANGED <<heldBy, pool>>

-----------------------------------------------------------------------------
\* Close: hijack and close the held connections, then pool.Close.
CloseHeld(i) ==
  /\ pool[i] = "open" /\ pool' = [pool EXCEPT ![i] = "closing"]
  /\ heldBy' = [heldBy EXCEPT ![i] = {}]
  /\ conns' = [conns EXCEPT ![i] = [s \in Slot |-> IF s \in heldBy[i] THEN "none" ELSE @[s]]]
  /\ advisory' = Orphan({i} \X heldBy[i])
  /\ UNCHANGED <<task, using, breaks>>

\* It waits for the connections that are in use.
PoolClose(i) ==
  /\ pool[i] = "closing" /\ \A s \in Slot : conns[i][s] \in {"none", "idle"}
  /\ pool' = [pool EXCEPT ![i] = "closed"]
  /\ conns' = [conns EXCEPT ![i] = [s \in Slot |-> "none"]]
  /\ advisory' = Orphan({i} \X Slot)
  /\ UNCHANGED <<task, using, heldBy, breaks>>

\* A new process takes the place of one that was closed, or that crashed.
ProcessStarts(i) ==
  /\ IF pool[i] = "closed" THEN Fine ELSE Breaks
  /\ pool' = [pool EXCEPT ![i] = "open"]
  /\ conns' = [conns EXCEPT ![i] = [s \in Slot |-> "none"]]
  /\ advisory' = Orphan({i} \X Slot)
  /\ task' = [task EXCEPT ![i] = [t \in Task |-> "idle"]]
  /\ using' = [using EXCEPT ![i] = [t \in Task |-> NoSlot]]
  /\ heldBy' = [heldBy EXCEPT ![i] = {}]

\* The network or the server ends a session; the client finds out when it next
\* uses the connection. Idle ones are replaced on Acquire.
SessionBreaks(i, s) ==
  /\ conns[i][s] \in {"used", "idle"} /\ Breaks
  /\ SetConn(i, s, IF conns[i][s] = "used" THEN "broken" ELSE "none")
  /\ advisory' = Orphan({<<i, s>>})
  /\ UNCHANGED <<task, using, heldBy, pool>>

SessionEnds ==
  /\ \E f \in LockedFeed :
       advisory[f] = Dying /\ advisory' = [advisory EXCEPT ![f] = FreeLock]
  /\ UNCHANGED <<conns, task, using, heldBy, pool, breaks>>

TaskStep(i, t) ==
  \/ Wants(i, t) \/ AcquireFails(i, t) \/ QueryFails(i, t)
  \/ t \in LockedFeed /\ (TryLock(i, t) \/ RegisterHeld(i, t) \/ ReleaseFunc(i, t)
                          \/ Unlock(i, t) \/ UnlockFails(i, t))
  \/ t = Beats /\ BeatDone(i)

PgNext ==
  \/ \E i \in PgInst : \E t \in Task : TaskStep(i, t) \/ AcquireConn(i, t)
  \/ \E i \in PgInst : CloseHeld(i) \/ PoolClose(i) \/ ProcessStarts(i)
  \/ \E i \in PgInst, s \in Slot : SessionBreaks(i, s)
  \/ SessionEnds

PgSpec == PgInit /\ [][PgNext]_pgVars

-----------------------------------------------------------------------------
\* As long as the coordinator is open no connection waits in its pool with an
\* advisory lock: neither a refused or interrupted TryAcquire nor a failed unlock
\* puts one there, which would block the feed everywhere until the process ends.
NoPooledLock ==
  \A i \in PgInst, s \in Slot, f \in LockedFeed :
    pool[i] = "open" /\ advisory[f] = <<i, s>> => conns[i][s] = "used"

\* The coordinator contract for one of the feeds, all of which are alike; a poll
\* loses its lease when its session ends.
Polls(f) == {i \in PgInst : task[i][f] \in {"won", "poll"}}
AFeed == CHOOSE f \in LockedFeed : TRUE
PgCoord == INSTANCE Coordinator WITH
  Inst <- PgInst, holding <- Polls(AFeed),
  lost <- {i \in Polls(AFeed) : advisory[AFeed] # <<i, using[i][AFeed]>>}
PgImplements == PgCoord!CSpec

\* Once no process stops any more, each feed is polled again and again.
PgPolledAgain ==
  <>[](\A i \in PgInst : pool[i] = "open") =>
    \A f \in LockedFeed : []<>(Polls(f) # {})
=============================================================================
