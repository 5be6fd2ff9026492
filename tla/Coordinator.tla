---------------------------- MODULE Coordinator ----------------------------
(***************************************************************************)
(* What a coordinator (internal/coord/coord.go) promises about one feed.   *)
(* An instance that TryAcquire told it won polls until it releases.  The   *)
(* backend may take the lease away from it (expiry, a dropped session, a   *)
(* shutdown): it is then in "lost", still polling, and only then may       *)
(* another instance win.                                                   *)
(***************************************************************************)
EXTENDS Naturals, FiniteSets

CONSTANT Inst

VARIABLES holding,  \* instances that were told they won and have not released
          lost      \* those of them whose lease is gone

cvars == <<holding, lost>>

CInit == holding = {} /\ lost = {}

\* TryAcquire returns true only if no holder still has its lease.  The winner's
\* own may be over by the time it is told.
Win(p) ==
  /\ p \notin holding /\ holding \subseteq lost
  /\ holding' = holding \cup {p} /\ lost' \in {lost, lost \cup {p}}

Lose(p) ==
  /\ p \in holding \ lost
  /\ lost' = lost \cup {p} /\ holding' = holding

\* release returns, or the process dies.
Leave(p) ==
  /\ p \in holding
  /\ holding' = holding \ {p} /\ lost' = lost \ {p}

CNext == \E p \in Inst : Win(p) \/ Lose(p) \/ Leave(p)

CSpec == CInit /\ [][CNext]_cvars

\* At most one holder has its lease.
AtMostOneHolder == \A p, q \in holding \ lost : p = q
=============================================================================
