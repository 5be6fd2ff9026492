----------------------------- MODULE RedisLease -----------------------------
(***************************************************************************)
(* The Redis coordinator (internal/coord/redis/redis.go) for one feed: a   *)
(* key set NX with a TTL and a fresh token per acquisition, a renewal      *)
(* goroutine, a compare-and-delete release, and Close.                     *)
(*                                                                         *)
(* Time is discrete.  A renewal or a reply that is later than its tick is  *)
(* a Stall of its instance, one of the MaxFaults failures.                 *)
(***************************************************************************)
EXTENDS Naturals, FiniteSets

CONSTANTS Inst,
          Token,     \* uuid.NewString values
          None,
          TTL,       \* lock_ttl in ticks
          Interval,  \* renewal_interval in ticks
          MaxFaults  \* bound: number of failures

ASSUME RedisAssumptions ==
  /\ None \notin Token
  /\ TTL \in Nat /\ Interval \in 1 .. TTL - 1   \* config.Validate: renewal_interval < lock_ttl
  /\ MaxFaults \in Nat

VARIABLES
  key,     \* the Redis key: its token (None: absent) and its remaining TTL
  pc,      \* where the poll of each instance is
  tok,     \* its lease's token
  renew,   \* is its renewLoop running?
  timer,   \* ticks until its renewal ticker fires
  held,    \* is the lease in c.held?
  mode,    \* "open", "closing" or "closed" (c.held = nil from closing on)
  taken,   \* token of the lease Close took out of c.held, or None
  dels,    \* tokens of compare-and-deletes that timed out but may still run
  hurt,    \* history: the instance had a failure or a Close during this lease
  faults   \* history: number of failures

vars == <<key, pc, tok, renew, timer, held, mode, taken, dels, hurt, faults>>
lease == <<pc, tok, renew, timer, held>>

NoKey == [tok |-> None, ttl |-> 0]

Init ==
  /\ key = NoKey
  /\ pc = [p \in Inst |-> "idle"]
  /\ tok = [p \in Inst |-> None]
  /\ renew = [p \in Inst |-> FALSE]
  /\ timer = [p \in Inst |-> 0]
  /\ held = [p \in Inst |-> FALSE]
  /\ mode = [p \in Inst |-> "open"]
  /\ taken = [p \in Inst |-> None]
  /\ dels = {}
  /\ hurt = [p \in Inst |-> FALSE]
  /\ faults = 0

-----------------------------------------------------------------------------
Fault == faults < MaxFaults /\ faults' = faults + 1
NoFault == faults' = faults

\* A UUID is never one that is still in use anywhere.
Fresh(t) ==
  /\ t \in Token \ dels /\ t # key.tok
  /\ \A p \in Inst : t # tok[p] /\ t # taken[p]

\* The lease struct of p becomes garbage.
Drop(p) ==
  /\ pc' = [pc EXCEPT ![p] = "idle"]
  /\ tok' = [tok EXCEPT ![p] = None]
  /\ renew' = [renew EXCEPT ![p] = FALSE]
  /\ timer' = [timer EXCEPT ![p] = 0]
  /\ held' = [held EXCEPT ![p] = FALSE]
  /\ hurt' = [hurt EXCEPT ![p] = FALSE]

\* The release script: DEL the key only if it still carries the token.
Del(t) == IF key.tok = t THEN NoKey ELSE key

\* casDelete: not run once the client is closed; a call that timed out may
\* still be executed.
casDelete(p, t) ==
  \/ mode[p] = "closed" /\ UNCHANGED <<key, dels>> /\ NoFault
  \/ mode[p] # "closed" /\ key' = Del(t) /\ dels' = dels /\ NoFault
  \/ mode[p] # "closed" /\ key' = key /\ dels' = dels \cup {t} /\ Fault

-----------------------------------------------------------------------------
\* The NX of SET.
SetAlways == TRUE
NX == key.tok = None

\* TryAcquire: SET key token NX EX ttl.
SetNX(p) ==
  /\ pc[p] = "idle" /\ mode[p] # "closed"
  /\ NX
  /\ \E t \in Token :
       /\ Fresh(t)
       /\ key' = [tok |-> t, ttl |-> TTL]
       /\ tok' = [tok EXCEPT ![p] = t]
  /\ pc' = [pc EXCEPT ![p] = "won"]
  /\ UNCHANGED <<renew, timer, held, mode, taken, dels, hurt, faults>>

\* The reply is lost (an error, or the client's retry finds the key taken).
SetNXLost(p) ==
  /\ pc[p] = "idle" /\ mode[p] # "closed"
  /\ NX
  /\ Fault
  /\ \E t \in Token : Fresh(t) /\ key' = [tok |-> t, ttl |-> TTL]
  /\ UNCHANGED <<lease, mode, taken, dels, hurt>>

\* TryAcquire after the reply: register and start renewLoop, or give the
\* lease back if the coordinator is closing.
Register(p) ==
  /\ pc[p] = "won"
  /\ \/ /\ mode[p] = "open"
        /\ pc' = [pc EXCEPT ![p] = "poll"]
        /\ held' = [held EXCEPT ![p] = TRUE]
        /\ renew' = [renew EXCEPT ![p] = TRUE]
        /\ timer' = [timer EXCEPT ![p] = Interval]
        /\ UNCHANGED <<key, tok, dels, hurt, faults>>
     \/ /\ mode[p] # "open"
        /\ casDelete(p, tok[p]) /\ Drop(p)
  /\ UNCHANGED <<mode, taken>>

\* The renew script: PEXPIRE only if the key still carries the token.
NoExtend(t) == key
Extend(t) == IF key.tok = t THEN [key EXCEPT !.ttl = TTL] ELSE key

\* renewLoop on a tick of its ticker.  It exits on an error and on a
\* mismatch; an error is reported after 5s, whether or not Redis ran the
\* script.
Renew(p) ==
  /\ renew[p] /\ timer[p] = 0
  /\ \/ /\ mode[p] # "closed" /\ NoFault
        /\ key' = Extend(tok[p])
        /\ renew' = [renew EXCEPT ![p] = (key.tok = tok[p])]
        /\ timer' = [timer EXCEPT ![p] = Interval]
        /\ hurt' = hurt
     \/ /\ mode[p] # "closed" /\ Fault
        /\ key' \in {key, Extend(tok[p])}
        /\ renew' = [renew EXCEPT ![p] = FALSE]
        /\ hurt' = [hurt EXCEPT ![p] = TRUE]
        /\ timer' = timer
  /\ UNCHANGED <<pc, tok, held, mode, taken, dels>>

\* The renewLoop of a lease that Close took, and whose poll has ended since, runs
\* until Close cancels it.
RenewTaken(p) ==
  /\ taken[p] # None /\ taken[p] # tok[p]
  /\ key' = Extend(taken[p])
  /\ UNCHANGED <<lease, mode, taken, dels, hurt, faults>>

\* release: nothing to do if Close took the lease; else stop renewLoop and
\* wait for it.
Release(p) ==
  /\ pc[p] = "poll"
  /\ \/ ~held[p] /\ Drop(p)
     \/ /\ held[p]
        /\ pc' = [pc EXCEPT ![p] = "release"]
        /\ held' = [held EXCEPT ![p] = FALSE]
        /\ renew' = [renew EXCEPT ![p] = FALSE]
        /\ UNCHANGED <<tok, timer, hurt>>
  /\ UNCHANGED <<key, mode, taken, dels, faults>>

ReleaseDelete(p) ==
  /\ pc[p] = "release"
  /\ casDelete(p, tok[p]) /\ Drop(p)
  /\ UNCHANGED <<mode, taken>>

-----------------------------------------------------------------------------
\* Close takes every lease out of c.held, whoever still polls under it.
CloseStart(p) ==
  /\ mode[p] = "open"
  /\ mode' = [mode EXCEPT ![p] = "closing"]
  /\ taken' = [taken EXCEPT ![p] = IF held[p] THEN tok[p] ELSE None]
  /\ held' = [held EXCEPT ![p] = FALSE]
  /\ hurt' = [hurt EXCEPT ![p] = (pc[p] # "idle")]
  /\ UNCHANGED <<key, pc, tok, renew, timer, dels, faults>>

CloseLease(p) ==
  /\ taken[p] # None
  /\ casDelete(p, taken[p])
  /\ renew' = [renew EXCEPT ![p] = @ /\ tok[p] # taken[p]]
  /\ taken' = [taken EXCEPT ![p] = None]
  /\ UNCHANGED <<pc, tok, timer, held, mode, hurt>>

CloseEnd(p) ==
  /\ mode[p] = "closing" /\ taken[p] = None
  /\ mode' = [mode EXCEPT ![p] = "closed"]
  /\ UNCHANGED <<key, lease, taken, dels, hurt, faults>>

\* The process ends and is started again, after Close or by a crash.
Restart(p) ==
  /\ \/ mode[p] = "closed" /\ NoFault
     \/ mode[p] # "closed" /\ Fault
  /\ mode' = [mode EXCEPT ![p] = "open"]
  /\ taken' = [taken EXCEPT ![p] = None]
  /\ Drop(p)
  /\ UNCHANGED <<key, dels>>

-----------------------------------------------------------------------------
\* Redis executes, or never executes, a delete whose caller has given up.
LateDelete(t) ==
  /\ t \in dels
  /\ key' \in {key, Del(t)}
  /\ dels' = dels \ {t}
  /\ UNCHANGED <<lease, mode, taken, hurt, faults>>

Stall(p) ==
  /\ ~hurt[p] /\ pc[p] # "idle"
  /\ Fault
  /\ hurt' = [hurt EXCEPT ![p] = TRUE]
  /\ UNCHANGED <<key, lease, mode, taken, dels>>

Punctual(p) == pc[p] = "won" \/ (renew[p] /\ timer[p] = 0) => hurt[p]

\* The EX of SET: Redis drops the key when its time is up.
NeverExpires == key
Expire == IF key.ttl <= 1 THEN NoKey ELSE [key EXCEPT !.ttl = @ - 1]

Tick ==
  /\ \A p \in Inst : Punctual(p)
  /\ key.tok # None \/ \E p \in Inst : timer[p] > 0
  /\ key' = Expire
  /\ timer' = [p \in Inst |-> IF timer[p] = 0 THEN 0 ELSE timer[p] - 1]
  /\ UNCHANGED <<pc, tok, renew, held, mode, taken, dels, hurt, faults>>

-----------------------------------------------------------------------------
Step(p) ==
  Register(p) \/ Renew(p) \/ Release(p) \/ ReleaseDelete(p) \/ CloseLease(p)

Next ==
  \/ \E p \in Inst : \/ SetNX(p) \/ SetNXLost(p) \/ Step(p) \/ CloseStart(p)
                     \/ RenewTaken(p) \/ CloseEnd(p) \/ Restart(p) \/ Stall(p)
  \/ \E t \in Token : LateDelete(t)
  \/ Tick

Spec == Init /\ [][Next]_vars

\* Polls end, renewals, replies and Close make progress (every call has a
\* timeout), the clock advances.
FairSpec == Spec /\ (\A p \in Inst : WF_vars(Step(p))) /\ WF_vars(Tick)

-----------------------------------------------------------------------------
\* Type invariant.
TypeOK ==
  /\ key \in [tok : Token \cup {None}, ttl : 0 .. TTL]
  /\ pc \in [Inst -> {"idle", "won", "poll", "release"}]
  /\ tok \in [Inst -> Token \cup {None}]
  /\ renew \in [Inst -> BOOLEAN]
  /\ timer \in [Inst -> 0 .. Interval]
  /\ held \in [Inst -> BOOLEAN]
  /\ mode \in [Inst -> {"open", "closing", "closed"}]
  /\ taken \in [Inst -> Token \cup {None}]
  /\ dels \subseteq Token
  /\ hurt \in [Inst -> BOOLEAN]
  /\ faults \in 0 .. MaxFaults

Polling(p) == pc[p] \in {"won", "poll"}

\* An instance whose own renewals succeed in time, and that is not shut down,
\* keeps its lease for as long as its poll runs: neither the expiry of the key
\* nor a release, a Close or a late delete of another instance takes it away.
LossIsOwnFault == \A p \in Inst : Polling(p) /\ ~hurt[p] => key.tok = tok[p]

\* So two instances poll the feed at once only if one of them failed or was shut
\* down with its poll still running.
OverlapNeedsFault ==
  \A p, q \in Inst : Polling(p) /\ Polling(q) /\ p # q => hurt[p] \/ hurt[q]

\* A key whose acquirer is gone (crash, lost reply, failed or skipped delete)
\* does not block the feed forever: it is deleted or it expires.
OrphanExpires ==
  \A t \in Token : []<>(key.tok # t \/ \E p \in Inst : tok[p] = t)

\* The coordinator contract: a poller that still has the key excludes all others.
Coord == INSTANCE Coordinator WITH
  holding <- {p \in Inst : Polling(p)},
  lost <- {p \in Inst : Polling(p) /\ key.tok # tok[p]}
ImplementsCoordinator == Coord!CSpec
=============================================================================
