------------------------------ MODULE OwnerLoop ------------------------------
(* The loop of assign.Owner, one iteration per step, for any list of members *)
(* (in any order, with duplicates) and any scores.                           *)
EXTENDS Assign, Sequences

CONSTANT MaxLen \* bound on the length of the member list

ASSUME LoopAssumptions == MaxLen \in Nat

VARIABLES score, members, i, best, bestScore, found

ownerVars == <<score, members, i, best, bestScore, found>>

Anyone == CHOOSE m \in Member : TRUE

OwnerInit ==
  /\ score \in Scores /\ members \in UNION {[1 .. n -> Member] : n \in 0 .. MaxLen}
  /\ i = 1 /\ best = Anyone /\ bestScore = 0 /\ found = FALSE

\* The if of the loop body.
Greater(m) == ~found \/ score[m] > bestScore
Better(m) == \/ ~found \/ score[m] > bestScore
             \/ (score[m] = bestScore /\ Rank[m] > Rank[best])

\* range visits every index.
NextIndex == i + 1

Iterate ==
  /\ i <= Len(members)
  /\ i' = NextIndex
  /\ IF Better(members[i])
       THEN best' = members[i] /\ bestScore' = score[members[i]] /\ found' = TRUE
       ELSE UNCHANGED <<best, bestScore, found>>
  /\ UNCHANGED <<score, members>>

OwnerNext == Iterate

OwnerSpec == OwnerInit /\ [][OwnerNext]_ownerVars

-----------------------------------------------------------------------------
Visited == {members[j] : j \in 1 .. i - 1}
Returned == i = Len(members) + 1

\* Type invariant.
OwnerTypeOK ==
  /\ score \in Scores /\ members \in Seq(Member)
  /\ i \in 1 .. Len(members) + 1
  /\ best \in Member /\ bestScore \in 0 .. MaxScore /\ found \in BOOLEAN

\* Owner returns the declarative owner of the set, so the result does not depend
\* on the order of the list or on duplicates, also when scores tie; it reports
\* ok = false exactly for an empty list.
ReturnsOwner ==
  Returned => (found <=> Visited # {}) /\ (found => IsOwner(score, best, Visited))

\* A feed moves only when its owner leaves: with any of the other members gone the
\* owner is the same, so feeds never move between survivors.
MinimalChurn ==
  Returned /\ found =>
    \A S \in SUBSET Visited : best \in S => OwnerOf(score, S) = best
=============================================================================
