------------------------------- MODULE Assign -------------------------------
(***************************************************************************)
(* Feed ownership by rendezvous hashing (internal/assign/assign.go).  A    *)
(* score function s gives the weight of each member for one feed; ties go  *)
(* to the larger member ID.                                                *)
(***************************************************************************)
EXTENDS Naturals

CONSTANTS Member,
          Rank,    \* the lexical order of the member IDs
          MaxRank, \* there are finitely many IDs
          MaxScore \* largest 64-bit hash

ASSUME AssignAssumptions ==
  /\ MaxRank \in Nat /\ MaxScore \in Nat
  /\ Rank \in [Member -> 0 .. MaxRank]
  /\ \A m, n \in Member : Rank[m] = Rank[n] => m = n

Scores == [Member -> 0 .. MaxScore]

\* The condition under which the loop of Owner replaces n by m.
Beats(s, m, n) == s[m] > s[n] \/ (s[m] = s[n] /\ Rank[m] > Rank[n])

IsOwner(s, m, S) == m \in S /\ \A n \in S \ {m} : Beats(s, m, n)

\* What Owner promises: the member of S that beats all others.
OwnerOf(s, S) == CHOOSE m \in S : IsOwner(s, m, S)

\* Owned, for one feed.
OwnsIf(s, m, S) == m \in S /\ OwnerOf(s, S) = m
=============================================================================
