-------------------------------- MODULE Fleet --------------------------------
(***************************************************************************)
(* Dynamic assignment: processes register under a TTL, heartbeat, derive   *)
(* the feeds they own from the live members and reconcile their loops      *)
(* (internal/scheduler/ownerprovider.go, internal/coord/*/membership.go,   *)
(* cmd/rss2msg/serve.go).  A process never reuses an identity.             *)
(***************************************************************************)
EXTENDS Assign, Integers

CONSTANTS Feed,
          Score,      \* Score[f][m]: the hash of member and feed
          TTL,        \* member_ttl, in ticks
          Beat,       \* heartbeat_interval
          LocalClock, \* TRUE: DynamoDB, Cosmos DB; FALSE: Redis, Postgres
          Off,        \* how far each process's clock is ahead
          Skew,       \* bound on the difference of two clocks
          MaxFaults   \* bound: failed calls, stalls, late requests

ASSUME FleetAssumptions ==
  /\ Score \in [Feed -> Scores]
  /\ TTL \in Nat /\ Beat \in Nat \ {0} /\ TTL > Beat
  /\ LocalClock \in BOOLEAN /\ Skew \in Nat /\ MaxFaults \in Nat
  /\ Off \in [Member -> Int] /\ \A m, n \in Member : Off[m] - Off[n] <= Skew
  /\ ~LocalClock => \A m \in Member : Off[m] = 0

VARIABLES
  pc,     \* "off", "prime", "up", "down", "drained", "gone"
  hb,     \* the heartbeat in progress: "idle", "scan", "reap"
  due,    \* ticks since the last heartbeat began
  table,  \* member entries in the coordinator
  life,   \* ticks until an entry's expiry, by the clock of its writer
  seen,   \* ids collected by the heartbeat in progress
  stale,  \* expired entries it still has to delete
  view,   \* OwnerProvider.members
  known,  \* some heartbeat succeeded (lastKey is not empty)
  sig,    \* Changes() holds a signal, or the first reconcile is due
  run,    \* the feeds it runs
  age,    \* ticks since the process registered or left
  clean,  \* it deregistered
  hurt,   \* history: it had a failed call or a stall
  faults  \* history: number of failures

proc == <<pc, hb, due>>
entries == <<table, life>>
scan == <<seen, stale>>
prov == <<view, known, sig, run>>
hist == <<age, clean, hurt, faults>>
vars == <<proc, entries, scan, prov, hist>>

\* No process takes an entry with so little left for live, however old its clock
\* reading is.
Expired == 0 - (Skew + MaxFaults)
MaxAge == TTL + Skew + Beat + 1

Init ==
  /\ pc = [m \in Member |-> "off"] /\ hb = [m \in Member |-> "idle"]
  /\ due = [m \in Member |-> 0]
  /\ table = {} /\ life = [m \in Member |-> Expired]
  /\ seen = [m \in Member |-> {}] /\ stale = [m \in Member |-> {}]
  /\ view = [m \in Member |-> {m}]
  /\ known = [m \in Member |-> FALSE] /\ sig = [m \in Member |-> FALSE]
  /\ run = [m \in Member |-> {}]
  /\ age = [m \in Member |-> 0] /\ clean = [m \in Member |-> FALSE]
  /\ hurt = [m \in Member |-> FALSE] /\ faults = 0

Running(m) == pc[m] \in {"prime", "up"}

Hurts(m) == /\ faults < MaxFaults /\ faults' = faults + 1
            /\ hurt' = [hurt EXCEPT ![m] = TRUE]

-----------------------------------------------------------------------------
Start(m) ==
  /\ pc[m] = "off"
  /\ pc' = [pc EXCEPT ![m] = "prime"] /\ due' = [due EXCEPT ![m] = Beat]
  /\ UNCHANGED <<hb, entries, scan, prov, hist>>

\* A process is up once its priming heartbeat returned; Run begins with another
\* heartbeat, ServeDynamic with a reconcile.
Primed(m) ==
  /\ pc' = [pc EXCEPT ![m] = "up"]
  /\ due' = [due EXCEPT ![m] = IF pc[m] = "prime" THEN Beat ELSE due[m]]

\* The write of Heartbeat.
RegisterOnce(m, t) ==
  /\ table' = table \cup {m} /\ life' = IF m \in table THEN life ELSE [life EXCEPT ![m] = t]
Register(m, t) ==
  /\ table' = table \cup {m} /\ life' = [life EXCEPT ![m] = t]

\* An entry that leaves the table.
KeepEntry(m) == UNCHANGED entries
Remove(m) == table' = table \ {m} /\ life' = [life EXCEPT ![m] = Expired]

DueIfListed(m) == Running(m) /\ hb[m] = "idle" /\ due[m] >= Beat /\ m \in view[m]
HeartbeatDue(m) == Running(m) /\ hb[m] = "idle" /\ due[m] >= Beat

\* A heartbeat that is overdue began at some time since it was due; a local clock
\* was read then.
HeartbeatPut(m) ==
  /\ HeartbeatDue(m)
  /\ \E d \in 0 .. due[m] - Beat :
       /\ Register(m, IF LocalClock THEN TTL - d ELSE TTL)
       /\ due' = [due EXCEPT ![m] = d]
  /\ hb' = [hb EXCEPT ![m] = "scan"]
  /\ age' = [age EXCEPT ![m] = IF pc[m] = "prime" THEN 0 ELSE age[m]]
  /\ UNCHANGED <<pc, scan, prov, clean, hurt, faults>>

\* The write or the query fails, with or without effect: the last known set stays.
HeartbeatError(m) ==
  /\ Hurts(m)
  /\ \/ HeartbeatDue(m) /\ (Register(m, TTL) \/ UNCHANGED entries)
     \/ hb[m] = "scan" /\ UNCHANGED entries
  /\ hb' = [hb EXCEPT ![m] = "idle"]
  /\ pc' = [pc EXCEPT ![m] = "up"]
  /\ due' = [due EXCEPT ![m] = IF pc[m] = "prime" THEN Beat ELSE 0]
  /\ sig' = [sig EXCEPT ![m] = @ \/ pc[m] = "prime"]
  /\ UNCHANGED <<scan, view, known, run, age, clean>>

\* An entry as the reader r sees it, by the clock it read when its heartbeat began.
Now(r) == IF LocalClock /\ hb[r] # "idle" THEN Off[r] - due[r] ELSE Off[r]
Live(r, w) == w \in table /\ life[w] + Off[w] > Now(r)

\* The scan follows its pages to the end.
AllPages(m) == {w \in Member : Live(m, w)}

HeartbeatScan(m) ==
  /\ hb[m] = "scan"
  /\ seen' = [seen EXCEPT ![m] = AllPages(m)]
  /\ stale' = [stale EXCEPT ![m] = {w \in table : ~Live(m, w)}]
  /\ hb' = [hb EXCEPT ![m] = "reap"]
  /\ UNCHANGED <<pc, due, entries, prov, hist>>

\* The unconditional delete of an entry that was expired when it was read; its
\* error is ignored.
HeartbeatReap(m, w) ==
  /\ hb[m] = "reap" /\ w \in stale[m]
  /\ stale' = [stale EXCEPT ![m] = @ \ {w}]
  /\ \/ Remove(w) /\ faults' = faults
     \/ faults < MaxFaults /\ faults' = faults + 1 /\ UNCHANGED entries
  /\ UNCHANGED <<proc, seen, prov, age, clean, hurt>>

\* The set is compared with the last one that was adopted.
FirstOnly(m) == ~known[m]
Changed(m) == ~known[m] \/ seen[m] # view[m]

HeartbeatAdopt(m) ==
  /\ hb[m] = "reap" /\ stale[m] = {}
  /\ view' = [view EXCEPT ![m] = seen[m]]
  /\ known' = [known EXCEPT ![m] = TRUE]
  /\ sig' = [sig EXCEPT ![m] = @ \/ Changed(m) \/ pc[m] = "prime"]
  /\ seen' = [seen EXCEPT ![m] = {}]
  /\ hb' = [hb EXCEPT ![m] = "idle"]
  /\ Primed(m)
  /\ UNCHANGED <<entries, stale, run, hist>>

Owned(m) == {f \in Feed : OwnsIf(Score[f], m, view[m])}

\* ServeDynamic applies Desired.
Reconcile(m) ==
  /\ pc[m] = "up" /\ sig[m]
  /\ sig' = [sig EXCEPT ![m] = FALSE]
  /\ run' = [run EXCEPT ![m] = Owned(m)]
  /\ UNCHANGED <<proc, entries, scan, view, known, hist>>

-----------------------------------------------------------------------------
\* The volatile state of a process that ends.
Forget(m) ==
  /\ hb' = [hb EXCEPT ![m] = "idle"] /\ due' = [due EXCEPT ![m] = 0]
  /\ seen' = [seen EXCEPT ![m] = {}] /\ stale' = [stale EXCEPT ![m] = {}]
  /\ view' = [view EXCEPT ![m] = {m}] /\ known' = [known EXCEPT ![m] = FALSE]
  /\ sig' = [sig EXCEPT ![m] = FALSE]

\* SIGTERM cancels ctx: heartbeats stop at once, the feeds drain.
Terminate(m) ==
  /\ pc[m] = "up"
  /\ pc' = [pc EXCEPT ![m] = "down"] /\ Forget(m)
  /\ UNCHANGED <<entries, run, hist>>

Drain(m) ==
  /\ pc[m] = "down"
  /\ pc' = [pc EXCEPT ![m] = "drained"] /\ run' = [run EXCEPT ![m] = {}]
  /\ UNCHANGED <<hb, due, entries, scan, view, known, sig, hist>>

\* OwnerProvider.Close.  A lost delete leaves the entry to its expiry.
Deregister(m) ==
  /\ pc[m] = "drained"
  /\ pc' = [pc EXCEPT ![m] = "gone"] /\ age' = [age EXCEPT ![m] = 0]
  /\ \/ /\ Remove(m) /\ clean' = [clean EXCEPT ![m] = TRUE]
        /\ UNCHANGED <<hurt, faults>>
     \/ Hurts(m) /\ UNCHANGED <<entries, clean>>
  /\ UNCHANGED <<hb, due, scan, prov>>

\* A heartbeat write that was cancelled by SIGTERM takes effect after the delete.
LatePut(m) ==
  /\ clean[m] /\ Hurts(m)
  /\ Register(m, TTL)
  /\ clean' = [clean EXCEPT ![m] = FALSE] /\ age' = [age EXCEPT ![m] = 0]
  /\ UNCHANGED <<proc, scan, prov>>

Crash(m) ==
  /\ pc[m] \in {"prime", "up", "down", "drained"}
  /\ pc' = [pc EXCEPT ![m] = "gone"] /\ Forget(m)
  /\ run' = [run EXCEPT ![m] = {}] /\ age' = [age EXCEPT ![m] = 0]
  /\ UNCHANGED <<entries, clean, hurt, faults>>

-----------------------------------------------------------------------------
\* Time passes for all entries and processes.  A coordinator that keeps the time
\* drops an expired entry itself.
Elapse ==
  /\ life' = [m \in Member |-> IF life[m] > Expired THEN life[m] - 1 ELSE Expired]
  /\ table' = IF LocalClock THEN table ELSE {m \in table : life[m] > 1}
  /\ due' = [m \in Member |-> IF Running(m) THEN due[m] + 1 ELSE due[m]]
  /\ age' = [m \in Member |-> IF pc[m] # "off" /\ age[m] < MaxAge THEN age[m] + 1 ELSE age[m]]
  /\ UNCHANGED <<pc, hb, scan, prov, clean>>

\* A process is on time while no heartbeat of it is overdue or under way.
OnTime(m) == Running(m) => hb[m] = "idle" /\ due[m] < Beat

Tick ==
  /\ \A m \in Member : OnTime(m)
  /\ Elapse /\ UNCHANGED <<hurt, faults>>

\* A process is late: paused, or waiting for the coordinator.
Stall(m) ==
  /\ ~OnTime(m) /\ \A n \in Member \ {m} : OnTime(n)
  /\ Hurts(m)
  /\ Elapse

-----------------------------------------------------------------------------
Heartbeat(m) == \/ HeartbeatPut(m) \/ HeartbeatScan(m) \/ HeartbeatAdopt(m)
                \/ \E w \in Member : HeartbeatReap(m, w)

Next ==
  \/ \E m \in Member :
       \/ Start(m) \/ Heartbeat(m) \/ HeartbeatError(m) \/ Reconcile(m)
       \/ Terminate(m) \/ Drain(m) \/ Deregister(m) \/ LatePut(m) \/ Crash(m)
       \/ Stall(m)
  \/ Tick

Spec == Init /\ [][Next]_vars

\* Goroutines run, time passes.
FairSpec ==
  /\ Spec /\ WF_vars(Tick)
  /\ \A m \in Member : WF_vars(Heartbeat(m)) /\ WF_vars(Reconcile(m))
                       /\ WF_vars(Drain(m)) /\ WF_vars(Deregister(m))

-----------------------------------------------------------------------------
\* Type invariant.
TypeOK ==
  /\ pc \in [Member -> {"off", "prime", "up", "down", "drained", "gone"}]
  /\ hb \in [Member -> {"idle", "scan", "reap"}]
  /\ due \in [Member -> 0 .. Beat + MaxFaults]
  /\ table \subseteq Member /\ life \in [Member -> Expired .. TTL]
  /\ seen \in [Member -> SUBSET Member] /\ stale \in [Member -> SUBSET Member]
  /\ view \in [Member -> SUBSET Member]
  /\ known \in [Member -> BOOLEAN] /\ sig \in [Member -> BOOLEAN]
  /\ run \in [Member -> SUBSET Feed]
  /\ age \in [Member -> 0 .. MaxAge] /\ clean \in [Member -> BOOLEAN]
  /\ hurt \in [Member -> BOOLEAN] /\ faults \in 0 .. MaxFaults

Healthy(m) == pc[m] = "up" /\ ~hurt[m]

\* A process whose heartbeats are on time and succeed is live in the eyes of every
\* other process, at every moment: nobody takes its feeds from it.
NoFalseEviction ==
  \A m, r \in Member : Healthy(m) /\ Running(r) => Live(r, m)

\* One heartbeat interval after a process has joined, every healthy process counts
\* it in.
JoinNoticed ==
  \A m, r \in Member : Healthy(m) /\ Healthy(r) /\ age[m] > Beat => m \in view[r]

\* One heartbeat interval after a process has deregistered no healthy process
\* counts it in; after a crash it takes member_ttl more, and the clock skew.
LeaveBound(m) == IF clean[m] THEN Beat ELSE TTL + Skew + Beat
LeaveNoticed ==
  \A m, r \in Member :
    pc[m] = "gone" /\ Healthy(r) /\ age[m] > LeaveBound(m) => m \notin view[r]

\* What a process thinks of the others is right but for bounded delays: nobody is
\* evicted who should not be, and who joins or leaves is noticed in time.
ViewsAreTimely == NoFalseEviction /\ JoinNoticed /\ LeaveNoticed

\* Once every join and leave has been noticed and applied, every feed is run by
\* exactly one process: the views agree although nobody coordinates them.
Quiet ==
  \A m \in Member :
    \/ pc[m] = "off"
    \/ Healthy(m) /\ age[m] > Beat /\ ~sig[m]
    \/ pc[m] = "gone" /\ age[m] > LeaveBound(m)
OneRunner ==
  Quiet /\ (\E m \in Member : pc[m] = "up") =>
    \A f \in Feed : \E m \in Member : {n \in Member : f \in run[n]} = {m}

\* The fleet heals: when processes stop coming and going, whatever failed before
\* them, every feed ends up run by exactly one of those that are up.
Heals ==
  \A S \in SUBSET Member \ {{}} :
    <>[](/\ \A m \in S : pc[m] = "up"
         /\ \A n \in Member \ S : pc[n] \in {"off", "gone"})
    => <>[](\A f \in Feed : \E m \in S : {n \in Member : f \in run[n]} = {m})
=============================================================================
