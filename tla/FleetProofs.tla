----------------------------- MODULE FleetProofs -----------------------------
(***************************************************************************)
(* Proofs about rendezvous assignment, for any members and scores: a set   *)
(* has exactly one owner, a feed moves only from a member that left or to  *)
(* one that joined, and the loop of Owner finds the owner.  And about      *)
(* Fleet for every number of processes and feeds, every heartbeat          *)
(* interval, and every TTL that leaves room for the clock skew: a healthy  *)
(* process is never evicted, joins and leaves are noticed in time, and     *)
(* then every feed has exactly one runner.                                 *)
(***************************************************************************)
EXTENDS Fleet, OwnerLoop, WellFoundedInduction, TLAPS

\* The provers of a leaf that names none, in turn; the translation for Z3 may give up.
USE Z3T(30), ZenonT(20), SMTT(30), Z3T(31), SMTT(31)

-----------------------------------------------------------------------------
(* Assign *)

\* Two members cannot both beat each other: a set has at most one owner.
LEMMA OwnerUnique ==
  ASSUME AssignAssumptions, NEW s \in Scores, NEW S \in SUBSET Member,
         NEW m, NEW n, IsOwner(s, m, S), IsOwner(s, n, S)
  PROVE  m = n
<1> SUFFICES ASSUME m # n PROVE FALSE OBVIOUS
<1>1. m \in Member /\ n \in Member /\ Beats(s, m, n) /\ Beats(s, n, m)
  BY DEF IsOwner
<1>2. s[m] \in Nat /\ s[n] \in Nat /\ Rank[m] \in Nat /\ Rank[n] \in Nat
  BY <1>1 DEF AssignAssumptions, Scores
<1>3. QED BY <1>1, <1>2 DEF Beats

\* A nonempty set of natural numbers has a least element.
LEMMA LeastNat ==
  ASSUME NEW T \in SUBSET Nat, T # {} PROVE \E x \in T : \A y \in T : x <= y
<1>1. PICK x \in T : \A y \in T : ~(<<y, x>> \in OpToRel(<, Nat))
  BY ZenonT(60), NatLessThanWellFounded, WFMin
<1>2. \A y \in T : ~(y < x) BY ZenonT(60), <1>1 DEF OpToRel
<1>3. QED BY <1>2

\* Every nonempty set of members has an owner: take the largest rank among those
\* with the largest score.
LEMMA OwnerExists ==
  ASSUME AssignAssumptions, NEW s \in Scores, NEW S \in SUBSET Member, S # {}
  PROVE  \E m \in S : IsOwner(s, m, S)
<1>1. /\ \A m \in Member : s[m] \in 0 .. MaxScore /\ Rank[m] \in 0 .. MaxRank
      /\ MaxScore \in Nat /\ MaxRank \in Nat
  BY DEF AssignAssumptions, Scores
<1> DEFINE gaps == {MaxScore - s[m] : m \in S}
<1>2. gaps \in SUBSET Nat /\ gaps # {} BY <1>1
<1>3. PICK x \in gaps : \A y \in gaps : x <= y BY ZenonT(60), <1>2, LeastNat
<1> DEFINE top == {m \in S : MaxScore - s[m] = x}
           low == {MaxRank - Rank[m] : m \in top}
<1>4. low \in SUBSET Nat /\ low # {} BY <1>1, <1>3
<1>5. PICK z \in low : \A y \in low : z <= y BY ZenonT(60), <1>4, LeastNat
<1>6. PICK m \in top : MaxRank - Rank[m] = z BY <1>5
<1>7. \A n \in S \ {m} : Beats(s, m, n)
  <2> SUFFICES ASSUME NEW n \in S \ {m} PROVE Beats(s, m, n) OBVIOUS
  <2>1. s[m] >= s[n]
    <3>1. MaxScore - s[n] \in gaps /\ x = MaxScore - s[m] BY <1>6
    <3>2. x <= MaxScore - s[n] BY <1>3, <3>1
    <3>3. QED BY <1>1, <3>1, <3>2
  <2>2. CASE s[m] = s[n]
    <3>1. n \in top BY <2>2, <1>6
    <3>2. Rank[m] >= Rank[n]
      <4>1. z <= MaxRank - Rank[n] /\ MaxRank - Rank[m] = z BY ZenonT(60), <1>5, <1>6, <3>1
      <4>2. Rank[m] \in 0 .. MaxRank /\ Rank[n] \in 0 .. MaxRank BY ZenonT(60), <1>1
      <4>3. QED BY ONLY Z3T(30), SMTT(30), <1>1, <4>1, <4>2
    <3>3. Rank[m] # Rank[n] BY DEF AssignAssumptions
    <3>4. QED BY <1>1, <2>2, <3>2, <3>3 DEF Beats
  <2>3. QED BY <1>1, <2>1, <2>2 DEF Beats
<1>8. QED BY <1>7 DEF IsOwner

\* An owner by the declarative definition is what OwnerOf returns.
LEMMA OwnerOfIs ==
  ASSUME AssignAssumptions, NEW s \in Scores, NEW S \in SUBSET Member,
         NEW m, IsOwner(s, m, S)
  PROVE  OwnerOf(s, S) = m
<1>1. m \in S BY DEF IsOwner
<1>2. IsOwner(s, OwnerOf(s, S), S)
  BY <1>1 DEF OwnerOf
<1>3. QED BY <1>2, OwnerUnique

\* The owner of a set owns every subset that contains it.
LEMMA OwnerOfSubset ==
  ASSUME AssignAssumptions, NEW s \in Scores, NEW S \in SUBSET Member,
         NEW T \in SUBSET S, NEW m \in T, IsOwner(s, m, S)
  PROVE  OwnerOf(s, T) = m
<1>1. IsOwner(s, m, T) BY DEF IsOwner
<1>2. QED BY <1>1, OwnerOfIs

\* When a member c joins, a feed stays with its owner or moves to c: it never
\* moves between the members that were there before.
THEOREM JoinMovesOnlyToNewcomer ==
  ASSUME AssignAssumptions, NEW s \in Scores, NEW S \in SUBSET Member, NEW c \in Member,
         NEW m, IsOwner(s, m, S)
  PROVE  OwnerOf(s, S \cup {c}) \in {m, c}
<1>1. m \in Member /\ m \in S BY DEF IsOwner
<1>2. CASE m = c \/ Beats(s, m, c)
  <2>1. IsOwner(s, m, S \cup {c}) BY <1>1, <1>2 DEF IsOwner
  <2>2. QED BY <2>1, OwnerOfIs
<1>3. CASE m # c /\ ~Beats(s, m, c)
  <2>1. \A n \in Member : s[n] \in Nat /\ Rank[n] \in Nat
    BY DEF AssignAssumptions, Scores
  <2>2. Beats(s, c, m)
    BY <1>1, <1>3, <2>1 DEF Beats, AssignAssumptions
  <2>3. \A n \in S \ {c} : Beats(s, c, n)
    <3>1. SUFFICES ASSUME NEW n \in S \ {c}, n # m PROVE Beats(s, c, n) BY <2>2
    <3>2. Beats(s, m, n) BY <3>1 DEF IsOwner
    <3>3. QED BY <1>1, <2>1, <2>2, <3>1, <3>2 DEF Beats
  <2>4. IsOwner(s, c, S \cup {c}) BY <2>3 DEF IsOwner
  <2>5. QED BY <2>4, OwnerOfIs
<1>4. QED BY <1>2, <1>3

-----------------------------------------------------------------------------
(* OwnerLoop *)

\* What the loop has established after the members before i.
LoopInv ==
  /\ OwnerTypeOK
  /\ found <=> i > 1
  /\ found => bestScore = score[best] /\ IsOwner(score, best, Visited)

LEMMA LoopInit == ASSUME AssignAssumptions, LoopAssumptions, Member # {}, OwnerInit PROVE LoopInv
<1>1. members \in Seq(Member)
  <2>1. PICK n \in 0 .. MaxLen : members \in [1 .. n -> Member]
    BY DEF OwnerInit
  <2>2. QED BY <2>1 DEF LoopAssumptions
<1>2. Anyone \in Member BY DEF Anyone
<1>3. OwnerTypeOK
  <2>1. 1 \in 1 .. Len(members) + 1 /\ 0 \in 0 .. MaxScore BY <1>1 DEF LoopAssumptions
  <2>2. QED BY ZenonT(60), <1>1, <1>2, <2>1 DEF OwnerInit, OwnerTypeOK
<1>4. QED BY <1>3 DEF OwnerInit, LoopInv

LEMMA LoopNext == ASSUME AssignAssumptions, LoopAssumptions, LoopInv, [OwnerNext]_ownerVars PROVE LoopInv'
<1> USE DEF LoopInv
<1>1. CASE UNCHANGED ownerVars
  BY <1>1 DEF ownerVars, OwnerTypeOK, Visited, IsOwner, Beats
<1>2. CASE Iterate
  <2> DEFINE m == members[i]
  <2>1. /\ i \in 1 .. Len(members) /\ m \in Member /\ i' = i + 1
        /\ score' = score /\ members' = members
    BY <1>2 DEF Iterate, NextIndex, OwnerTypeOK
  <2>2. Visited' = Visited \cup {m}
    <3>1. 1 .. i' - 1 = (1 .. i - 1) \cup {i} BY <2>1
    <3>2. QED BY <2>1, <3>1 DEF Visited
  <2>3. score \in [Member -> Nat] /\ Rank \in [Member -> Nat] /\ Visited \subseteq Member
    BY DEF OwnerTypeOK, AssignAssumptions, Scores, Visited
  <2>4. CASE Better(m)
    <3>1. best' = m /\ bestScore' = score[m] /\ found' = TRUE
      BY <1>2, <2>4 DEF Iterate
    <3>2. OwnerTypeOK' BY <2>1, <3>1 DEF OwnerTypeOK, Scores
    <3>3. \A n \in Visited \ {m} : Beats(score, m, n)
      <4>1. CASE ~found BY <4>1 DEF Visited, OwnerTypeOK
      <4>2. CASE found
        <5>1. best \in Visited /\ bestScore = score[best] BY <4>2 DEF IsOwner
        <5>2. score[m] > score[best] \/ (score[m] = score[best] /\ Rank[m] > Rank[best])
          BY <2>4, <4>2, <5>1 DEF Better
        <5>3. \A n \in Visited \ {best} : Beats(score, best, n) BY <4>2 DEF IsOwner
        <5>4. QED BY <2>1, <2>3, <5>1, <5>2, <5>3 DEF Beats
      <4>3. QED BY <4>1, <4>2
    <3>4. IsOwner(score, m, Visited \cup {m}) BY <3>3 DEF IsOwner
    <3>5. QED BY <2>1, <2>2, <3>1, <3>2, <3>4 DEF OwnerTypeOK
  <2>5. CASE ~Better(m)
    <3>1. UNCHANGED <<best, bestScore, found>> /\ found
      BY <1>2, <2>5 DEF Iterate, Better
    <3>2. OwnerTypeOK' BY <2>1, <3>1 DEF OwnerTypeOK, Scores
    <3>3. m # best => Beats(score, best, m)
      <4>1. bestScore = score[best] /\ best \in Member BY <3>1 DEF OwnerTypeOK
      <4>2. ~(score[m] > score[best]) /\ ~(score[m] = score[best] /\ Rank[m] > Rank[best])
        BY <2>5, <4>1 DEF Better
      <4>3. QED BY <2>1, <2>3, <4>1, <4>2 DEF Beats, AssignAssumptions
    <3>4. IsOwner(score, best, Visited \cup {m}) BY <3>1, <3>3 DEF IsOwner
    <3>5. QED BY <2>1, <2>2, <3>1, <3>2, <3>4 DEF OwnerTypeOK
  <2>6. QED BY <2>4, <2>5
<1>3. QED BY <1>1, <1>2 DEF OwnerNext

\* The loop invariant holds throughout.
THEOREM LoopInductive ==
  ASSUME AssignAssumptions, LoopAssumptions, Member # {} PROVE OwnerSpec => []LoopInv
<1>1. OwnerInit => LoopInv BY LoopInit
<1>2. LoopInv /\ [OwnerNext]_ownerVars => LoopInv' BY LoopNext
<1>3. QED BY <1>1, <1>2, PTL DEF OwnerSpec

\* Owner returns the owner of the set its argument lists, whatever the order.
THEOREM OwnerCorrect ==
  ASSUME AssignAssumptions, LoopAssumptions, Member # {} PROVE OwnerSpec => []ReturnsOwner
<1>1. LoopInv => ReturnsOwner
  BY DEF LoopInv, ReturnsOwner, OwnerTypeOK, Visited, Returned
<1>2. QED BY <1>1, LoopInductive, PTL

\* Removing other members does not move a feed.
THEOREM OwnerMinimalChurn ==
  ASSUME AssignAssumptions, LoopAssumptions, Member # {} PROVE OwnerSpec => []MinimalChurn
<1>1. LoopInv => MinimalChurn
  <2> SUFFICES ASSUME LoopInv, found, NEW S \in SUBSET Visited, best \in S
               PROVE  OwnerOf(score, S) = best
    BY DEF MinimalChurn
  <2>1. score \in Scores /\ Visited \in SUBSET Member
    BY DEF LoopInv, OwnerTypeOK, Visited
  <2>2. IsOwner(score, best, Visited) BY DEF LoopInv
  <2>3. QED BY <2>1, <2>2, OwnerOfSubset
<1>2. QED BY <1>1, LoopInductive, PTL

-----------------------------------------------------------------------------
(* Fleet *)

\* What the configuration must satisfy; with the coordinator's clock, Skew is 0 and
\* this is the validated member_ttl > heartbeat_interval.
Tuned == TTL > Beat + Skew

Fit(m) == Running(m) /\ ~hurt[m]

\* A process without failures that has written its entry.
Listed(m) == Fit(m) /\ (pc[m] = "up" \/ hb[m] # "idle")

\* Heartbeats are on time, and take no time.
OnBeat ==
  \A m \in Member : Fit(m) => due[m] <= Beat /\ (hb[m] # "idle" => due[m] = 0)

\* Only a running process has a heartbeat in progress; one that deregistered is
\* gone, with its entry.
Phases ==
  \A m \in Member : /\ hb[m] # "idle" => Running(m)
                    /\ clean[m] => pc[m] = "gone" /\ m \notin table

\* An entry that is refreshed on time has at least TTL - due left.
Kept == \A m \in Member : Listed(m) => m \in table /\ life[m] + due[m] >= TTL

\* A process that has not written its entry has none.
Unlisted ==
  \A m \in Member : pc[m] = "off" \/ (Fit(m) /\ ~Listed(m)) => m \notin table

\* No entry about to be deleted is that of a process without failures.
Reaped == \A r, w \in Member : w \in stale[r] => pc[w] # "off" /\ ~Fit(w)

\* What a process can have missed of the joins, given the time since it looked.
JoinView ==
  \A m, r \in Member : Listed(m) /\ Fit(r) =>
    /\ pc[r] = "up" /\ m \notin view[r] => age[m] <= (IF hb[r] = "idle" THEN due[r] ELSE Beat)
    /\ hb[r] = "reap" /\ m \notin seen[r] => age[m] = 0

\* The entry of a process that is gone fades.
Fades ==
  \A m \in Member : pc[m] = "gone" /\ m \in table =>
    life[m] = Expired \/ life[m] + age[m] <= TTL

\* What it can have missed of the leaves.
Lag(m) == IF clean[m] THEN 0 ELSE TTL + Skew
LeaveView ==
  \A m, r \in Member : pc[m] = "gone" /\ Fit(r) =>
    /\ pc[r] = "up" /\ m \in view[r] =>
         age[m] <= Lag(m) + (IF hb[r] = "idle" THEN due[r] ELSE Beat)
    /\ hb[r] = "reap" /\ m \in seen[r] => age[m] <= Lag(m)

\* Processes that never started are in nobody's view.
Started ==
  \A r, w \in Member : w \in seen[r] \/ (w \in view[r] /\ w # r) => pc[w] # "off"

\* Without a pending signal a process runs what its view says.
Applied ==
  \A r \in Member : /\ pc[r] = "up" /\ ~sig[r] => run[r] = Owned(r)
                    /\ pc[r] \notin {"up", "down"} => run[r] = {}

\* Only stalls make a heartbeat late.
Late == \A m \in Member : due[m] <= Beat + faults

FInv == /\ Late /\ OnBeat /\ Phases /\ Kept /\ Unlisted /\ Reaped
        /\ JoinView /\ Fades /\ LeaveView /\ Started /\ Applied
IInv == TypeOK /\ FInv

-----------------------------------------------------------------------------
\* The types of the constants.
LEMMA Numbers ==
  /\ TTL \in Nat /\ Beat \in Nat /\ Beat > 0 /\ TTL > Beat
  /\ Skew \in Nat /\ MaxFaults \in Nat /\ Expired \in Int /\ Expired <= 0 - Skew
  /\ MaxAge \in Nat /\ MaxAge > TTL + Skew + Beat
BY FleetAssumptions DEF Expired, MaxAge

\* A listed process is live for every process without failures.
LEMMA ListedIsLive ==
  ASSUME Tuned, IInv, NEW m \in Member, NEW r \in Member, Listed(m)
  PROVE  Live(r, m)
<1>1. m \in table /\ life[m] + due[m] >= TTL /\ due[m] <= Beat
  BY DEF IInv, FInv, Kept, OnBeat, Listed
<1>2. /\ life[m] \in Int /\ due[m] \in Nat /\ due[r] \in Nat
      /\ Off[m] \in Int /\ Off[r] \in Int /\ Off[r] - Off[m] <= Skew
  BY FleetAssumptions DEF IInv, TypeOK, Expired
<1>3. TTL \in Nat /\ Beat \in Nat /\ Skew \in Nat BY FleetAssumptions
<1>4. life[m] + Off[m] > Off[r] BY <1>1, <1>2, <1>3 DEF Tuned
<1>5. Now(r) <= Off[r] BY <1>2 DEF Now
<1>6. Now(r) \in Int BY <1>2 DEF Now
<1>7. QED BY <1>1, <1>2, <1>4, <1>5, <1>6 DEF Live

\* The initial states satisfy the invariant.
LEMMA FleetInit == ASSUME Init PROVE IInv
<1>1. TypeOK
  <2>1. 0 \in 0 .. Beat + MaxFaults /\ Expired \in Expired .. TTL /\ 0 \in 0 .. MaxAge
        /\ 0 \in 0 .. MaxFaults
    BY FleetAssumptions DEF Expired, MaxAge
  <2>2. known \in [Member -> BOOLEAN] /\ sig \in [Member -> BOOLEAN]
        /\ clean \in [Member -> BOOLEAN] /\ hurt \in [Member -> BOOLEAN]
    BY DEF Init
  <2>3. QED BY <2>1, <2>2 DEF Init, TypeOK
<1>2. FInv
  BY Numbers DEF Init, FInv, Late, OnBeat, Phases, Kept, Unlisted, Reaped, JoinView, Fades, LeaveView,
         Started, Applied, Fit, Running, Listed
<1>3. QED BY <1>1, <1>2 DEF IInv

\* A step in which no process gains: a process without failures is left alone, and
\* others only lose entries, views and the claim to be healthy.
LosesAt(n) ==
  /\ due'[n] <= Beat \/ due'[n] = due[n]
  /\ pc'[n] = "off" <=> pc[n] = "off"
  /\ pc[n] = "off" /\ n \notin table => n \notin table'
  /\ Fit(n)' => /\ Fit(n) /\ pc'[n] = pc[n] /\ hb'[n] = hb[n] /\ due'[n] = due[n]
                /\ view'[n] = view[n] /\ seen'[n] = seen[n] /\ age'[n] = age[n]
                /\ (n \in table' <=> n \in table) /\ life'[n] = life[n]
  /\ pc'[n] = "gone" =>
       \/ age'[n] = 0
       \/ /\ pc[n] = "gone" /\ age'[n] = age[n] /\ clean'[n] = clean[n]
          /\ n \in table' => n \in table /\ life'[n] = life[n]
  /\ stale'[n] \subseteq stale[n] /\ seen'[n] \subseteq seen[n]
  /\ view'[n] \subseteq view[n] \cup {n}

Loses == faults' >= faults /\ \A n \in Member : LosesAt(n)

\* Such a step preserves the invariant.
LEMMA LosesStep ==
  ASSUME Tuned, IInv, Loses, TypeOK', Phases', Applied'
  PROVE  IInv'
<1> USE Numbers DEF IInv, FInv
<1>1. Late'
  <2>1. /\ faults \in Nat /\ faults' \in Nat
        /\ \A n \in Member : due[n] \in Nat /\ due'[n] \in Nat
    BY DEF TypeOK
  <2>2. QED BY <2>1 DEF Late, Loses, LosesAt
<1>2. \A n \in Member : Listed(n)' => Listed(n) /\ Fit(n)'
  BY DEF Listed, Loses, LosesAt
<1>3. OnBeat' BY DEF OnBeat, Loses, LosesAt
<1>4. Kept' BY <1>2 DEF Kept, Loses, LosesAt
<1>5. Unlisted'
  <2>1. \A n \in Member : Fit(n)' /\ ~Listed(n)' => ~Listed(n) BY DEF Listed, Loses, LosesAt
  <2>2. QED BY <2>1 DEF Unlisted, Loses, LosesAt
<1>6. Reaped' BY DEF Reaped, Loses, LosesAt
<1>7. JoinView' BY <1>2 DEF JoinView, Loses, LosesAt
<1>8. Fades'
  <2> SUFFICES ASSUME NEW m \in Member, pc'[m] = "gone", m \in table'
               PROVE  life'[m] = Expired \/ life'[m] + age'[m] <= TTL
    BY ZenonT(60) DEF Fades
  <2>1. \/ age'[m] = 0
        \/ pc[m] = "gone" /\ age'[m] = age[m] /\ m \in table /\ life'[m] = life[m]
    BY ZenonT(60) DEF Loses, LosesAt
  <2>2. life'[m] \in Int /\ life'[m] <= TTL
    <3>1. life'[m] \in Expired .. TTL
      BY ZenonT(60) DEF TypeOK
    <3>2. QED BY ONLY Z3T(30), SMTT(30), <3>1, Numbers
  <2>3. CASE age'[m] = 0
    BY ONLY Z3T(30), SMTT(30), <2>2, <2>3, Numbers
  <2>4. CASE pc[m] = "gone" /\ age'[m] = age[m] /\ m \in table /\ life'[m] = life[m]
    BY ZenonT(60), <2>4 DEF Fades
  <2>5. QED BY ZenonT(60), <2>1, <2>3, <2>4
<1>9. LeaveView'
  <2> SUFFICES ASSUME NEW m \in Member, NEW r \in Member, pc'[m] = "gone", Fit(r)'
               PROVE  /\ pc'[r] = "up" /\ m \in view'[r] =>
                           age'[m] <= Lag(m)' + (IF hb'[r] = "idle" THEN due'[r] ELSE Beat)
                      /\ hb'[r] = "reap" /\ m \in seen'[r] => age'[m] <= Lag(m)'
    BY ZenonT(60) DEF LeaveView
  <2>1. Lag(m)' \in Nat /\ due'[r] \in Nat BY DEF Lag, TypeOK
  <2>2. /\ Fit(r) /\ pc'[r] = pc[r] /\ hb'[r] = hb[r] /\ due'[r] = due[r]
        /\ view'[r] = view[r] /\ seen'[r] = seen[r]
    BY ZenonT(60) DEF Loses, LosesAt
  <2>3. CASE age'[m] = 0
    BY ONLY Z3T(30), SMTT(30), Numbers, <2>1, <2>3
  <2>4. CASE pc[m] = "gone" /\ age'[m] = age[m] /\ clean'[m] = clean[m]
    <3>1. Lag(m)' = Lag(m) BY ONLY ZenonT(60), <2>4 DEF Lag
    <3>2. /\ pc[r] = "up" /\ m \in view[r] =>
               age[m] <= Lag(m) + (IF hb[r] = "idle" THEN due[r] ELSE Beat)
          /\ hb[r] = "reap" /\ m \in seen[r] => age[m] <= Lag(m)
      BY ZenonT(60), <2>2, <2>4 DEF LeaveView
    <3>3. QED BY ONLY Z3T(30), SMTT(30), <2>2, <2>4, <3>1, <3>2
  <2>5. QED BY ZenonT(60), <2>3, <2>4 DEF Loses, LosesAt
<1>10. Started' BY DEF Started, Loses, LosesAt
<1>11. QED
  BY <1>1, <1>3, <1>4, <1>5, <1>6, <1>7, <1>8, <1>9, <1>10

\* Start preserves the invariant.
LEMMA StartStep ==
  ASSUME Tuned, IInv, NEW m \in Member, Start(m)
  PROVE  IInv'
<1> USE Numbers DEF IInv, FInv
<1>0. /\ pc[m] = "off" /\ pc' = [pc EXCEPT ![m] = "prime"] /\ due' = [due EXCEPT ![m] = Beat]
      /\ UNCHANGED <<hb, table, life, seen, stale, view, known, sig, run, age, clean, hurt, faults>>
  BY DEF Start, entries, scan, prov, hist
<1>1. TypeOK'
  BY <1>0 DEF TypeOK
<1>2. Late'
  BY <1>0 DEF TypeOK, Late
<1>3. OnBeat'
  BY <1>0 DEF TypeOK, OnBeat, Fit, Running, Phases
<1>4. Phases'
  BY <1>0 DEF TypeOK, Phases, Running
<1>5. Kept'
  BY <1>0 DEF TypeOK, OnBeat, Kept, Phases, Listed, Fit, Running
<1>6. Unlisted'
  BY <1>0 DEF TypeOK, Unlisted, Phases, Listed, Fit, Running
<1>7. Reaped'
  BY <1>0 DEF TypeOK, Reaped, Fit, Running
<1>8. JoinView'
  BY <1>0 DEF TypeOK, JoinView, OnBeat, Phases, Listed, Fit, Running
<1>9. Fades'
  BY <1>0 DEF TypeOK, Fades
<1>10. LeaveView'
  BY <1>0 DEF TypeOK, LeaveView, Lag, Phases, OnBeat, Fit, Running
<1>11. Started'
  BY <1>0 DEF TypeOK, Started
<1>12. Applied'
  BY <1>0 DEF TypeOK, Applied, Owned
<1>13. QED BY <1>1, <1>2, <1>3, <1>4, <1>5, <1>6, <1>7, <1>8, <1>9, <1>10, <1>11, <1>12

\* The write of a heartbeat preserves the invariant.
LEMMA PutStep ==
  ASSUME Tuned, IInv, NEW m \in Member, HeartbeatPut(m)
  PROVE  IInv'
<1> USE Numbers DEF IInv, FInv
<1>a. PICK d \in 0 .. due[m] - Beat :
        Register(m, IF LocalClock THEN TTL - d ELSE TTL) /\ due' = [due EXCEPT ![m] = d]
  BY ZenonT(60) DEF HeartbeatPut
<1> DEFINE t == IF LocalClock THEN TTL - d ELSE TTL
<1>b. /\ d \in Nat /\ d + Beat <= due[m] /\ d <= faults /\ (Fit(m) => d = 0)
      /\ t \in Expired .. TTL /\ (d = 0 => t = TTL)
  BY <1>a DEF HeartbeatPut, HeartbeatDue, TypeOK, Late, OnBeat, Expired
<1> HIDE DEF t
<1>0. /\ Running(m) /\ hb[m] = "idle" /\ due[m] >= Beat
      /\ d \in Nat /\ d + Beat <= due[m] /\ d <= faults /\ (Fit(m) => d = 0)
      /\ t \in Expired .. TTL /\ (d = 0 => t = TTL)
      /\ table' = table \cup {m} /\ life' = [life EXCEPT ![m] = t]
      /\ due' = [due EXCEPT ![m] = d] /\ hb' = [hb EXCEPT ![m] = "scan"]
      /\ age' = [age EXCEPT ![m] = IF pc[m] = "prime" THEN 0 ELSE age[m]]
      /\ UNCHANGED <<pc, seen, stale, view, known, sig, run, clean, hurt, faults>>
  BY ZenonT(60), <1>a, <1>b DEF HeartbeatPut, HeartbeatDue, Register, scan, prov, t
<1>1. TypeOK'
  BY <1>0 DEF TypeOK
<1>2. Late'
  BY <1>0 DEF TypeOK, Late
<1>3. OnBeat'
  BY <1>0 DEF TypeOK, OnBeat, Fit, Running
<1>4. Phases'
  BY <1>0 DEF TypeOK, Phases, Running, TypeOK
<1>5. Kept'
  BY <1>0 DEF TypeOK, OnBeat, Kept, Phases, Listed, Fit, Running
<1>6. Unlisted'
  BY <1>0 DEF TypeOK, Unlisted, Phases, Listed, Fit, Running
<1>7. Reaped'
  BY <1>0 DEF TypeOK, Reaped, Fit, Running
<1>8. JoinView'
  BY <1>0 DEF TypeOK, JoinView, OnBeat, Phases, Listed, Fit, Running
<1>9. Fades'
  BY <1>0 DEF TypeOK, Fades, Running
<1>10. LeaveView'
  BY <1>0 DEF TypeOK, LeaveView, Lag, Phases, OnBeat, Fit, Running
<1>11. Started'
  BY <1>0 DEF TypeOK, Started
<1>12. Applied'
  BY <1>0 DEF TypeOK, Applied, Owned
<1>13. QED BY <1>1, <1>2, <1>3, <1>4, <1>5, <1>6, <1>7, <1>8, <1>9, <1>10, <1>11, <1>12

\* A failed heartbeat preserves the invariant.
LEMMA ErrorStep ==
  ASSUME Tuned, IInv, NEW m \in Member, HeartbeatError(m)
  PROVE  IInv'
<1> USE Numbers DEF IInv, FInv
<1>0. /\ Running(m) /\ faults < MaxFaults /\ faults' = faults + 1
      /\ hurt' = [hurt EXCEPT ![m] = TRUE]
      /\ \/ table' = table \cup {m} /\ life' = [life EXCEPT ![m] = TTL]
         \/ table' = table /\ life' = life
      /\ hb' = [hb EXCEPT ![m] = "idle"] /\ pc' = [pc EXCEPT ![m] = "up"]
      /\ due' = [due EXCEPT ![m] = IF pc[m] = "prime" THEN Beat ELSE 0]
      /\ sig' = [sig EXCEPT ![m] = @ \/ pc[m] = "prime"]
      /\ UNCHANGED <<seen, stale, view, known, run, age, clean>>
  BY DEF HeartbeatError, HeartbeatDue, Hurts, Register, entries, scan, Phases
<1>1. TypeOK'
  BY <1>0 DEF TypeOK
<1>2. Phases' BY <1>0 DEF TypeOK, Phases, Running
<1>3. Applied' BY ZenonT(60), <1>0 DEF TypeOK, Applied, Owned, Running
<1>4. Loses
  <2>1. faults' >= faults BY <1>0 DEF TypeOK
  <2>2. LosesAt(m) BY <1>0 DEF TypeOK, LosesAt, Fit, Running
  <2>3. ASSUME NEW n \in Member \ {m} PROVE LosesAt(n)
    BY <1>0 DEF TypeOK, LosesAt, Fit, Running
  <2>4. QED BY ZenonT(60), <2>1, <2>2, <2>3 DEF Loses
<1>5. QED BY <1>1, <1>2, <1>3, <1>4, LosesStep

\* The scan of a heartbeat preserves the invariant.
LEMMA ScanStep ==
  ASSUME Tuned, IInv, NEW m \in Member, HeartbeatScan(m)
  PROVE  IInv'
<1> USE Numbers DEF IInv, FInv
<1>0. /\ hb[m] = "scan" /\ seen' = [seen EXCEPT ![m] = AllPages(m)]
      /\ stale' = [stale EXCEPT ![m] = {w \in table : ~Live(m, w)}]
      /\ hb' = [hb EXCEPT ![m] = "reap"]
      /\ UNCHANGED <<pc, due, table, life, view, known, sig, run, age, clean, hurt, faults>>
  BY DEF HeartbeatScan, entries, prov, hist
<1>a. \A w \in Member : Listed(w) => Live(m, w) BY ListedIsLive
<1>b. ASSUME NEW w \in Member, Live(m, w), pc[w] = "gone", Fit(m)
      PROVE  ~clean[w] /\ age[w] <= TTL + Skew
  <2>1. w \in table /\ life[w] + Off[w] > Off[m]
    BY <1>0, <1>b, FleetAssumptions DEF Live, Now, OnBeat
  <2>2. /\ Off[m] \in Int /\ Off[w] \in Int /\ Off[w] - Off[m] <= Skew
        /\ life[w] \in Int /\ age[w] \in Nat
    BY FleetAssumptions DEF TypeOK
  <2>3. life[w] > 0 - Skew /\ life[w] # Expired BY <2>1, <2>2
  <2>4. life[w] + age[w] <= TTL BY ZenonT(60), <1>b, <2>1, <2>3 DEF Fades
  <2>5. ~clean[w] BY ZenonT(60), <2>1 DEF Phases
  <2>6. age[w] <= TTL + Skew BY ONLY Z3T(30), SMTT(30), <2>2, <2>3, <2>4, Numbers
  <2>7. QED BY ZenonT(60), <2>5, <2>6
<1>c. AllPages(m) = {w \in Member : Live(m, w)} BY DEF AllPages
<1>1. TypeOK'
  BY <1>0, <1>c DEF TypeOK
<1>2. Late'
  BY <1>0 DEF TypeOK, Late
<1>3. OnBeat'
  BY <1>0 DEF TypeOK, OnBeat, Fit, Running
<1>4. Phases'
  BY <1>0 DEF TypeOK, Phases, Running
<1>5. Kept'
  BY <1>0 DEF TypeOK, OnBeat, Kept, Phases, Listed, Fit, Running
<1>6. Unlisted'
  BY <1>0 DEF TypeOK, Unlisted, Phases, Listed, Fit, Running
<1>7. Reaped'
  BY <1>0, <1>a DEF TypeOK, Reaped, Unlisted, Listed, Fit, Running
<1>8. JoinView'
  BY <1>0, <1>a, <1>c DEF TypeOK, JoinView, OnBeat, Phases, Listed, Fit, Running
<1>9. Fades'
  BY <1>0 DEF TypeOK, Fades
<1>10. LeaveView'
  BY <1>0, <1>b, <1>c DEF TypeOK, LeaveView, Lag, Fit, Running
<1>11. Started'
  BY <1>0, <1>c DEF TypeOK, Started, Live, Unlisted
<1>12. Applied'
  BY <1>0 DEF TypeOK, Applied, Owned
<1>13. QED BY <1>1, <1>2, <1>3, <1>4, <1>5, <1>6, <1>7, <1>8, <1>9, <1>10, <1>11, <1>12

\* The delete of an expired entry preserves the invariant.
LEMMA ReapStep ==
  ASSUME Tuned, IInv, NEW m \in Member, NEW w \in Member, HeartbeatReap(m, w)
  PROVE  IInv'
<1> USE Numbers DEF IInv, FInv
<1>0. /\ w \in stale[m] /\ stale' = [stale EXCEPT ![m] = @ \ {w}]
      /\ faults' \in 0 .. MaxFaults /\ faults' >= faults
      /\ \/ table' = table \ {w} /\ life' = [life EXCEPT ![w] = Expired]
         \/ table' = table /\ life' = life
      /\ UNCHANGED <<pc, hb, due, seen, view, known, sig, run, age, clean, hurt>>
  BY DEF HeartbeatReap, Remove, entries, prov, proc, TypeOK
<1>1. TypeOK'
  BY <1>0 DEF TypeOK
<1>2. Phases' BY <1>0 DEF TypeOK, Phases, Running
<1>3. Applied' BY <1>0 DEF TypeOK, Applied, Owned, Running
<1>4. Loses
  <2>1. faults' >= faults BY <1>0 DEF TypeOK
  <2>2. LosesAt(m) BY <1>0 DEF TypeOK, LosesAt, Reaped, Fit, Running
  <2>3. ASSUME NEW n \in Member \ {m} PROVE LosesAt(n)
    BY <1>0 DEF TypeOK, LosesAt, Reaped, Fit, Running
  <2>4. QED BY ZenonT(60), <2>1, <2>2, <2>3 DEF Loses
<1>5. QED BY <1>1, <1>2, <1>3, <1>4, LosesStep

\* The adoption of a member set preserves the invariant.
LEMMA AdoptStep ==
  ASSUME Tuned, IInv, NEW m \in Member, HeartbeatAdopt(m)
  PROVE  IInv'
<1> USE Numbers DEF IInv, FInv
<1>0. /\ hb[m] = "reap" /\ stale[m] = {} /\ Running(m)
      /\ view' = [view EXCEPT ![m] = seen[m]] /\ known' = [known EXCEPT ![m] = TRUE]
      /\ sig' = [sig EXCEPT ![m] = @ \/ Changed(m) \/ pc[m] = "prime"]
      /\ seen' = [seen EXCEPT ![m] = {}] /\ hb' = [hb EXCEPT ![m] = "idle"]
      /\ pc' = [pc EXCEPT ![m] = "up"]
      /\ due' = [due EXCEPT ![m] = IF pc[m] = "prime" THEN Beat ELSE due[m]]
      /\ UNCHANGED <<table, life, stale, run, age, clean, hurt, faults>>
  BY DEF HeartbeatAdopt, Primed, Phases, entries, hist
<1>1. TypeOK'
  BY <1>0 DEF TypeOK
<1>2. Late'
  BY <1>0 DEF TypeOK, Late
<1>3. OnBeat'
  BY <1>0 DEF TypeOK, OnBeat, Fit, Running
<1>4. Phases'
  BY <1>0 DEF TypeOK, Phases, Running, TypeOK
<1>5. Kept'
  BY <1>0 DEF TypeOK, OnBeat, Kept, Phases, Listed, Fit, Running
<1>6. Unlisted'
  BY <1>0 DEF TypeOK, Unlisted, Phases, Listed, Fit, Running
<1>7. Reaped'
  BY <1>0 DEF TypeOK, Reaped, Fit, Running
<1>8. JoinView'
  BY <1>0 DEF TypeOK, JoinView, OnBeat, Phases, Listed, Fit, Running
<1>9. Fades'
  BY <1>0 DEF TypeOK, Fades, Running
<1>10. LeaveView'
  BY <1>0 DEF TypeOK, LeaveView, Lag, Phases, OnBeat, Fit, Running
<1>11. Started'
  BY <1>0 DEF TypeOK, Started, Running
<1>12. Applied'
  BY ZenonT(60), <1>0 DEF TypeOK, Applied, Owned, Running, Changed
<1>13. QED BY <1>1, <1>2, <1>3, <1>4, <1>5, <1>6, <1>7, <1>8, <1>9, <1>10, <1>11, <1>12

\* A reconcile preserves the invariant.
LEMMA ReconcileStep ==
  ASSUME Tuned, IInv, NEW m \in Member, Reconcile(m)
  PROVE  IInv'
<1> USE Numbers DEF IInv, FInv
<1>0. /\ pc[m] = "up" /\ sig' = [sig EXCEPT ![m] = FALSE] /\ run' = [run EXCEPT ![m] = Owned(m)]
      /\ UNCHANGED <<pc, hb, due, table, life, seen, stale, view, known, age, clean, hurt, faults>>
  BY ZenonT(60) DEF Reconcile, entries, scan, prov, hist, proc
<1>1. TypeOK'
  BY <1>0 DEF TypeOK, Owned
<1>2. Phases' BY <1>0 DEF TypeOK, Phases, Running
<1>3. Applied' BY <1>0 DEF TypeOK, Applied, Owned, Running
<1>4. Loses
  <2>1. faults' >= faults BY <1>0 DEF TypeOK
  <2>2. LosesAt(m) BY ZenonT(60), <1>0 DEF TypeOK, LosesAt, Fit, Running
  <2>3. ASSUME NEW n \in Member \ {m} PROVE LosesAt(n)
    BY ZenonT(60), <1>0 DEF TypeOK, LosesAt, Fit, Running
  <2>4. QED BY ZenonT(60), <2>1, <2>2, <2>3 DEF Loses
<1>5. QED BY <1>1, <1>2, <1>3, <1>4, LosesStep

\* SIGTERM preserves the invariant.
LEMMA TerminateStep ==
  ASSUME Tuned, IInv, NEW m \in Member, Terminate(m)
  PROVE  IInv'
<1> USE Numbers DEF IInv, FInv
<1>0. /\ pc[m] = "up" /\ pc' = [pc EXCEPT ![m] = "down"]
      /\ hb' = [hb EXCEPT ![m] = "idle"] /\ due' = [due EXCEPT ![m] = 0]
      /\ seen' = [seen EXCEPT ![m] = {}] /\ stale' = [stale EXCEPT ![m] = {}]
      /\ view' = [view EXCEPT ![m] = {m}] /\ known' = [known EXCEPT ![m] = FALSE]
      /\ sig' = [sig EXCEPT ![m] = FALSE]
      /\ UNCHANGED <<table, life, run, age, clean, hurt, faults>>
  BY DEF Terminate, Forget, entries, hist
<1>1. TypeOK'
  BY <1>0 DEF TypeOK
<1>2. Phases' BY <1>0 DEF TypeOK, Phases, Running
<1>3. Applied' BY <1>0 DEF TypeOK, Applied, Owned, Running
<1>4. Loses
  <2>1. faults' >= faults BY <1>0 DEF TypeOK
  <2>2. LosesAt(m) BY <1>0 DEF TypeOK, LosesAt, Fit, Running
  <2>3. ASSUME NEW n \in Member \ {m} PROVE LosesAt(n)
    BY <1>0 DEF TypeOK, LosesAt, Fit, Running
  <2>4. QED BY ZenonT(60), <2>1, <2>2, <2>3 DEF Loses
<1>5. QED BY <1>1, <1>2, <1>3, <1>4, LosesStep

\* The end of the drain preserves the invariant.
LEMMA DrainStep ==
  ASSUME Tuned, IInv, NEW m \in Member, Drain(m)
  PROVE  IInv'
<1> USE Numbers DEF IInv, FInv
<1>0. /\ pc[m] = "down" /\ pc' = [pc EXCEPT ![m] = "drained"] /\ run' = [run EXCEPT ![m] = {}]
      /\ UNCHANGED <<hb, due, table, life, seen, stale, view, known, sig, age, clean, hurt, faults>>
  BY DEF Drain, entries, scan, prov, hist, proc
<1>1. TypeOK'
  BY <1>0 DEF TypeOK
<1>2. Phases' BY <1>0 DEF TypeOK, Phases, Running
<1>3. Applied' BY <1>0 DEF TypeOK, Applied, Owned, Running
<1>4. Loses
  <2>1. faults' >= faults BY <1>0 DEF TypeOK
  <2>2. LosesAt(m) BY <1>0 DEF TypeOK, LosesAt, Fit, Running
  <2>3. ASSUME NEW n \in Member \ {m} PROVE LosesAt(n)
    BY <1>0 DEF TypeOK, LosesAt, Fit, Running
  <2>4. QED BY ZenonT(60), <2>1, <2>2, <2>3 DEF Loses
<1>5. QED BY <1>1, <1>2, <1>3, <1>4, LosesStep

\* Deregistration preserves the invariant, with and without effect.
LEMMA DeregisterStep ==
  ASSUME Tuned, IInv, NEW m \in Member, Deregister(m)
  PROVE  IInv'
<1> USE Numbers DEF IInv, FInv
<1>0. /\ pc[m] = "drained" /\ pc' = [pc EXCEPT ![m] = "gone"] /\ age' = [age EXCEPT ![m] = 0]
      /\ \/ /\ table' = table \ {m} /\ life' = [life EXCEPT ![m] = Expired]
            /\ clean' = [clean EXCEPT ![m] = TRUE] /\ UNCHANGED <<hurt, faults>>
         \/ /\ faults < MaxFaults /\ faults' = faults + 1 /\ hurt' = [hurt EXCEPT ![m] = TRUE]
            /\ UNCHANGED <<table, life, clean>>
      /\ UNCHANGED <<hb, due, seen, stale, view, known, sig, run>>
  BY DEF Deregister, Remove, Hurts, entries, scan, prov, hist, proc
<1>1. TypeOK'
  <2>1. clean' \in [Member -> BOOLEAN] /\ hurt' \in [Member -> BOOLEAN]
    BY ZenonT(60), <1>0 DEF TypeOK
  <2>2. /\ faults' \in 0 .. MaxFaults /\ life' \in [Member -> Expired .. TTL]
        /\ table' \subseteq Member /\ age' \in [Member -> 0 .. MaxAge]
    BY <1>0 DEF TypeOK
  <2>3. QED BY <1>0, <2>1, <2>2 DEF TypeOK
<1>2. Phases' BY <1>0 DEF TypeOK, Phases, Running
<1>3. Applied' BY <1>0 DEF TypeOK, Applied, Owned, Running
<1>4. Loses
  <2>1. faults' >= faults BY <1>0 DEF TypeOK
  <2>2. LosesAt(m) BY <1>0 DEF TypeOK, LosesAt, Fit, Running
  <2>3. ASSUME NEW n \in Member \ {m} PROVE LosesAt(n)
    BY <1>0 DEF TypeOK, LosesAt, Fit, Running
  <2>4. QED BY ZenonT(60), <2>1, <2>2, <2>3 DEF Loses
<1>5. QED BY <1>1, <1>2, <1>3, <1>4, LosesStep

\* A late write preserves the invariant.
LEMMA LatePutStep ==
  ASSUME Tuned, IInv, NEW m \in Member, LatePut(m)
  PROVE  IInv'
<1> USE Numbers DEF IInv, FInv
<1>0. /\ clean[m] /\ faults < MaxFaults /\ faults' = faults + 1
      /\ hurt' = [hurt EXCEPT ![m] = TRUE]
      /\ table' = table \cup {m} /\ life' = [life EXCEPT ![m] = TTL]
      /\ clean' = [clean EXCEPT ![m] = FALSE] /\ age' = [age EXCEPT ![m] = 0]
      /\ UNCHANGED <<pc, hb, due, seen, stale, view, known, sig, run>>
  BY DEF LatePut, Hurts, Register, entries, scan, prov, hist, proc
<1>1. TypeOK'
  BY <1>0 DEF TypeOK
<1>2. Phases' BY <1>0 DEF TypeOK, Phases, Running
<1>3. Applied' BY <1>0 DEF TypeOK, Applied, Owned, Running
<1>4. Loses
  <2>1. pc[m] = "gone" BY ZenonT(60), <1>0 DEF Phases
  <2>2. faults' >= faults BY <1>0 DEF TypeOK
  <2>3. QED BY ZenonT(60), <1>0, <2>1, <2>2 DEF TypeOK, Loses, LosesAt, Fit, Running
<1>5. QED BY <1>1, <1>2, <1>3, <1>4, LosesStep

\* A crash preserves the invariant.
LEMMA CrashStep ==
  ASSUME Tuned, IInv, NEW m \in Member, Crash(m)
  PROVE  IInv'
<1> USE Numbers DEF IInv, FInv
<1>0. /\ pc[m] \in {"prime", "up", "down", "drained"} /\ pc' = [pc EXCEPT ![m] = "gone"]
      /\ hb' = [hb EXCEPT ![m] = "idle"] /\ due' = [due EXCEPT ![m] = 0]
      /\ seen' = [seen EXCEPT ![m] = {}] /\ stale' = [stale EXCEPT ![m] = {}]
      /\ view' = [view EXCEPT ![m] = {m}] /\ known' = [known EXCEPT ![m] = FALSE]
      /\ sig' = [sig EXCEPT ![m] = FALSE]
      /\ run' = [run EXCEPT ![m] = {}] /\ age' = [age EXCEPT ![m] = 0]
      /\ UNCHANGED <<table, life, clean, hurt, faults>>
  BY DEF Crash, Forget, entries
<1>1. TypeOK'
  BY <1>0 DEF TypeOK
<1>2. Phases' BY <1>0 DEF TypeOK, Phases, Running
<1>3. Applied' BY <1>0 DEF TypeOK, Applied, Owned, Running
<1>4. Loses
  <2>1. faults' >= faults BY <1>0 DEF TypeOK
  <2>2. LosesAt(m) BY <1>0 DEF TypeOK, LosesAt, Fit, Running
  <2>3. ASSUME NEW n \in Member \ {m} PROVE LosesAt(n)
    BY <1>0 DEF TypeOK, LosesAt, Fit, Running
  <2>4. QED BY ZenonT(60), <2>1, <2>2, <2>3 DEF Loses
<1>5. QED BY <1>1, <1>2, <1>3, <1>4, LosesStep

\* Time passes; who does not get a mark is on time.
Aging ==
  /\ Elapse /\ faults' \in 0 .. MaxFaults /\ faults' >= faults
  /\ hurt' \in [Member -> BOOLEAN]
  /\ \A n \in Member : /\ hurt[n] => hurt'[n]
                       /\ ~hurt'[n] => OnTime(n)
                       /\ OnTime(n) \/ faults' = faults + 1

\* The passing of time preserves the invariant, whoever is late.
LEMMA ElapseStep ==
  ASSUME Tuned, IInv, Aging PROVE IInv'
<1> USE DEF IInv, FInv
<1>0. /\ life' = [n \in Member |-> IF life[n] > Expired THEN life[n] - 1 ELSE Expired]
      /\ table' = (IF LocalClock THEN table ELSE {n \in table : life[n] > 1})
      /\ due' = [n \in Member |-> IF Running(n) THEN due[n] + 1 ELSE due[n]]
      /\ age' = [n \in Member |-> IF pc[n] # "off" /\ age[n] < MaxAge THEN age[n] + 1 ELSE age[n]]
  BY ZenonT(60) DEF Aging, Elapse
<1>a. UNCHANGED <<pc, hb, seen, stale, view, known, sig, run, clean>>
  BY ZenonT(60) DEF Aging, Elapse, scan, prov
<1>1. \A n \in Member :
        /\ Fit(n)' => Fit(n) /\ hb[n] = "idle" /\ due[n] < Beat /\ due'[n] = due[n] + 1
        /\ Listed(n)' => Listed(n) /\ Fit(n)'
  BY <1>0, <1>a, Numbers DEF Aging, Fit, Running, Listed, OnTime
<1>2. \A n \in Member :
        /\ age[n] \in Nat /\ age'[n] \in 0 .. MaxAge /\ age'[n] <= age[n] + 1
        /\ life[n] \in Int /\ due[n] \in Nat
        /\ life'[n] = IF life[n] > Expired THEN life[n] - 1 ELSE Expired
  <2> SUFFICES ASSUME NEW n \in Member
               PROVE  /\ age[n] \in Nat /\ age'[n] \in 0 .. MaxAge /\ age'[n] <= age[n] + 1
                      /\ life[n] \in Int /\ due[n] \in Nat
                      /\ life'[n] = IF life[n] > Expired THEN life[n] - 1 ELSE Expired
    OBVIOUS
  <2>1. age[n] \in 0 .. MaxAge /\ life[n] \in Expired .. TTL /\ due[n] \in 0 .. Beat + MaxFaults
    BY ZenonT(60) DEF TypeOK
  <2>2. age'[n] = IF pc[n] # "off" /\ age[n] < MaxAge THEN age[n] + 1 ELSE age[n]
    BY ONLY ZenonT(60), <1>0
  <2>3. life'[n] = IF life[n] > Expired THEN life[n] - 1 ELSE Expired
    BY ONLY ZenonT(60), <1>0
  <2>4. age[n] \in Nat /\ life[n] \in Int /\ due[n] \in Nat
    BY ONLY Z3T(30), SMTT(30), Numbers, <2>1
  <2>5. age'[n] \in 0 .. MaxAge /\ age'[n] <= age[n] + 1
    BY ONLY Z3T(30), SMTT(30), Numbers, <2>1, <2>2
  <2>6. QED BY ZenonT(60), <2>3, <2>4, <2>5
<1>3. due' \in [Member -> 0 .. Beat + MaxFaults] /\ Late'
  BY <1>0, Numbers DEF Aging, TypeOK, Late, OnTime, Running
<1>4. TypeOK'
  <2>1. life' \in [Member -> Expired .. TTL] /\ age' \in [Member -> 0 .. MaxAge]
    BY <1>0, <1>2, Numbers DEF TypeOK
  <2>2. table' \subseteq Member BY <1>0 DEF TypeOK
  <2>3. hurt' \in [Member -> BOOLEAN] /\ faults' \in 0 .. MaxFaults BY ZenonT(60) DEF Aging
  <2>4. /\ pc' \in [Member -> {"off", "prime", "up", "down", "drained", "gone"}]
        /\ hb' \in [Member -> {"idle", "scan", "reap"}]
        /\ seen' \in [Member -> SUBSET Member] /\ stale' \in [Member -> SUBSET Member]
        /\ view' \in [Member -> SUBSET Member] /\ run' \in [Member -> SUBSET Feed]
        /\ known' \in [Member -> BOOLEAN] /\ sig' \in [Member -> BOOLEAN]
        /\ clean' \in [Member -> BOOLEAN]
    BY ZenonT(60), <1>a DEF TypeOK
  <2>5. QED BY ZenonT(60), <1>3, <2>1, <2>2, <2>3, <2>4 DEF TypeOK
<1>5. OnBeat'
  <2> SUFFICES ASSUME NEW m \in Member, Fit(m)'
               PROVE  due'[m] <= Beat /\ (hb[m] # "idle" => due'[m] = 0)
    BY ZenonT(60), <1>a DEF OnBeat
  <2>1. hb[m] = "idle" /\ due[m] < Beat /\ due'[m] = due[m] + 1 BY ZenonT(60), <1>1
  <2>2. due[m] \in Nat BY ZenonT(60), <1>2
  <2>3. due'[m] <= Beat BY ONLY Z3T(30), SMTT(30), Numbers, <2>1, <2>2
  <2>4. QED BY ZenonT(60), <2>1, <2>3
<1>6. table' \subseteq table BY <1>0
<1>7. Phases' BY ZenonT(60), <1>a, <1>6 DEF Phases, Running
<1>8. Kept'
  <2> SUFFICES ASSUME NEW m \in Member, Listed(m)'
               PROVE  m \in table' /\ life'[m] + due'[m] >= TTL
    BY ZenonT(60) DEF Kept
  <2>1. m \in table /\ life[m] + due[m] >= TTL /\ due[m] < Beat /\ due'[m] = due[m] + 1
    BY ZenonT(60), <1>1 DEF Kept
  <2>2. /\ life[m] \in Int /\ due[m] \in Nat
        /\ life'[m] = IF life[m] > Expired THEN life[m] - 1 ELSE Expired
    BY ZenonT(60), <1>2
  <2>3. life[m] > 1 /\ life'[m] = life[m] - 1 BY ONLY Z3T(30), SMTT(30), Numbers, <2>1, <2>2
  <2>4. m \in table' BY ONLY Z3T(30), SMTT(30), ZenonT(60), <1>0, <2>1, <2>3
  <2>5. life'[m] + due'[m] >= TTL BY ONLY Z3T(30), SMTT(30), Numbers, <2>1, <2>2, <2>3
  <2>6. QED BY ZenonT(60), <2>4, <2>5
<1>9. Unlisted' BY ZenonT(60), <1>a, <1>1, <1>6 DEF Unlisted, Fit, Listed, Running
<1>10. Reaped' BY ZenonT(60), <1>a, <1>1 DEF Reaped
<1>11. JoinView'
  <2> SUFFICES ASSUME NEW m \in Member, NEW r \in Member, Listed(m)', Fit(r)'
               PROVE  pc[r] = "up" /\ m \notin view[r] => age'[m] <= due'[r]
    BY ZenonT(60), <1>a, <1>1 DEF JoinView
  <2>1. Listed(m) /\ Fit(r) /\ hb[r] = "idle" /\ due'[r] = due[r] + 1 BY ZenonT(60), <1>1
  <2>2. age[m] \in Nat /\ age'[m] \in 0 .. MaxAge /\ age'[m] <= age[m] + 1 /\ due[r] \in Nat
    BY ZenonT(60), <1>2
  <2>3. pc[r] = "up" /\ m \notin view[r] => age[m] <= due[r] BY ZenonT(60), <2>1 DEF JoinView
  <2>4. \A x, y \in Nat : \A z \in Int : z <= x + 1 /\ x <= y => z <= y + 1
    BY ONLY Z3T(30), SMTT(30)
  <2>5. age'[m] \in Int BY ONLY Z3T(30), SMTT(30), <2>2, Numbers
  <2>6. age[m] <= due[r] => age'[m] <= due[r] + 1 BY ONLY ZenonT(60), <2>2, <2>4, <2>5
  <2>7. QED BY ONLY ZenonT(60), <2>1, <2>3, <2>6
<1>12. Fades'
  <2> SUFFICES ASSUME NEW m \in Member, pc[m] = "gone", m \in table
               PROVE  life'[m] = Expired \/ life'[m] + age'[m] <= TTL
    BY <1>a, <1>6 DEF Fades
  <2>1. /\ life[m] \in Int /\ age[m] \in Nat /\ age'[m] \in 0 .. MaxAge /\ age'[m] <= age[m] + 1
        /\ life'[m] = IF life[m] > Expired THEN life[m] - 1 ELSE Expired
    BY ZenonT(60), <1>2
  <2>2. life[m] = Expired \/ life[m] + age[m] <= TTL BY ZenonT(60) DEF Fades
  <2>3. QED BY ONLY Z3T(30), SMTT(30), Numbers, <2>1, <2>2
<1>13. LeaveView'
  <2> SUFFICES ASSUME NEW m \in Member, NEW r \in Member, pc[m] = "gone", Fit(r)'
               PROVE  pc[r] = "up" /\ m \in view[r] => age'[m] <= Lag(m) + due'[r]
    BY ZenonT(60), <1>a, <1>1 DEF LeaveView, Lag
  <2>1. Fit(r) /\ hb[r] = "idle" /\ due'[r] = due[r] + 1 BY ZenonT(60), <1>1
  <2>2. Lag(m) \in Nat BY Numbers DEF Lag
  <2>3. age[m] \in Nat /\ age'[m] \in 0 .. MaxAge /\ age'[m] <= age[m] + 1 /\ due[r] \in Nat
    BY ZenonT(60), <1>2
  <2>4. pc[r] = "up" /\ m \in view[r] => age[m] <= Lag(m) + due[r] BY ZenonT(60), <2>1 DEF LeaveView
  <2>5. QED BY ONLY Z3T(30), SMTT(30), <2>1, <2>2, <2>3, <2>4
<1>14. Started' /\ Applied' BY ZenonT(60), <1>a DEF Started, Applied, Owned
<1>15. QED
  BY ZenonT(60), <1>3, <1>4, <1>5, <1>7, <1>8, <1>9, <1>10, <1>11, <1>12, <1>13, <1>14

\* Tick and Stall.
LEMMA TimeStep ==
  ASSUME Tuned, IInv, Tick \/ \E k \in Member : Stall(k) PROVE IInv'
<1>1. CASE Tick
  <2>1. faults' \in 0 .. MaxFaults /\ faults' >= faults BY <1>1, Numbers DEF Tick, IInv, TypeOK
  <2>2. Aging BY <1>1, <2>1 DEF Tick, Aging, IInv, TypeOK
  <2>3. QED BY <2>2, ElapseStep
<1>2. ASSUME NEW k \in Member, Stall(k) PROVE IInv'
  <2>1. /\ hurt' = [hurt EXCEPT ![k] = TRUE] /\ faults' = faults + 1 /\ faults < MaxFaults
        /\ Elapse /\ \A n \in Member \ {k} : OnTime(n)
    BY <1>2 DEF Stall, Hurts
  <2>2. /\ hurt' \in [Member -> BOOLEAN] /\ \A n \in Member : hurt[n] => hurt'[n]
        /\ \A n \in Member : ~hurt'[n] => OnTime(n)
    BY <2>1 DEF IInv, TypeOK
  <2>3. faults' \in 0 .. MaxFaults /\ faults' >= faults BY <2>1, Numbers DEF IInv, TypeOK
  <2>4. Aging BY <2>1, <2>2, <2>3 DEF Aging
  <2>5. QED BY <2>4, ElapseStep
<1>3. QED BY <1>1, <1>2


-----------------------------------------------------------------------------
\* Every step preserves the invariant.
LEMMA FleetNext ==
  ASSUME Tuned, IInv, [Next]_vars PROVE IInv'
<1>1. CASE UNCHANGED vars
  <2>1. TypeOK'
    BY ZenonT(60), <1>1 DEF vars, proc, entries, scan, prov, hist, IInv, TypeOK
  <2>2. Late' /\ OnBeat' /\ Phases' /\ Started'
    BY ZenonT(60), <1>1 DEF vars, proc, entries, scan, prov, hist, IInv, FInv, Late, OnBeat, Phases,
       Started, Fit, Running, Listed
  <2>3. Kept' /\ Unlisted' /\ Reaped'
    BY ZenonT(60), <1>1 DEF vars, proc, entries, scan, prov, hist, IInv, FInv, Kept, Unlisted, Reaped,
       Fit, Running, Listed
  <2>4. JoinView' /\ Applied'
    BY ZenonT(60), <1>1 DEF vars, proc, entries, scan, prov, hist, IInv, FInv, JoinView, Applied, Owned,
       Fit, Running, Listed
  <2>5. Fades' /\ LeaveView'
    BY ZenonT(60), <1>1 DEF vars, proc, entries, scan, prov, hist, IInv, FInv, Fades, LeaveView, Lag,
       Fit, Running, Listed
  <2> QED
    BY <2>1, <2>2, <2>3, <2>4, <2>5 DEF IInv, FInv
<1>2. CASE Tick \/ \E m \in Member : Stall(m) BY <1>2, TimeStep
<1>3. ASSUME NEW m \in Member,
             \/ Start(m) \/ Heartbeat(m) \/ HeartbeatError(m) \/ Reconcile(m)
             \/ Terminate(m) \/ Drain(m) \/ Deregister(m) \/ LatePut(m) \/ Crash(m)
      PROVE  IInv'
  BY ZenonT(60), <1>3, StartStep, PutStep, ScanStep, ReapStep, AdoptStep, ErrorStep, ReconcileStep,
     TerminateStep, DrainStep, DeregisterStep, LatePutStep, CrashStep DEF Heartbeat
<1>4. QED BY <1>1, <1>2, <1>3 DEF Next

\* The invariant holds in every reachable state.
THEOREM FleetInductive == ASSUME Tuned PROVE Spec => []IInv
<1>1. Init => IInv BY FleetInit
<1>2. IInv /\ [Next]_vars => IInv' BY FleetNext
<1>3. QED BY <1>1, <1>2, PTL DEF Spec

\* Type correctness.
THEOREM FleetTypeCorrect == ASSUME Tuned PROVE Spec => []TypeOK
<1>1. IInv => TypeOK BY DEF IInv
<1>2. QED BY <1>1, FleetInductive, PTL

\* No healthy process is evicted, whoever looks and whatever its clock says.
THEOREM FleetNoFalseEviction == ASSUME Tuned PROVE Spec => []NoFalseEviction
<1>1. IInv => NoFalseEviction
  BY ZenonT(60), ListedIsLive DEF NoFalseEviction, Healthy, Listed, Fit, Running
<1>2. QED BY <1>1, FleetInductive, PTL

\* The invariant implies JoinNoticed.
LEMMA JoinInv == ASSUME IInv PROVE JoinNoticed
<1> SUFFICES ASSUME NEW m \in Member, NEW r \in Member, Healthy(m), Healthy(r), m \notin view[r]
             PROVE  ~(age[m] > Beat)
  BY DEF JoinNoticed
<1>1. age[m] <= (IF hb[r] = "idle" THEN due[r] ELSE Beat) /\ due[r] <= Beat
  BY DEF IInv, FInv, JoinView, OnBeat, Listed, Fit, Running, Healthy
<1>2. QED BY <1>1, Numbers DEF IInv, TypeOK

\* A join is noticed by every healthy process within one heartbeat interval.
THEOREM FleetJoinNoticed == ASSUME Tuned PROVE Spec => []JoinNoticed
BY JoinInv, FleetInductive, PTL

\* The invariant implies LeaveNoticed.
LEMMA LeaveInv == ASSUME IInv PROVE LeaveNoticed
<1> SUFFICES ASSUME NEW m \in Member, NEW r \in Member, pc[m] = "gone", Healthy(r), m \in view[r]
             PROVE  ~(age[m] > LeaveBound(m))
  BY DEF LeaveNoticed
<1>1. age[m] <= Lag(m) + (IF hb[r] = "idle" THEN due[r] ELSE Beat) /\ due[r] <= Beat
  BY DEF IInv, FInv, LeaveView, OnBeat, Fit, Running, Healthy
<1>2. QED BY <1>1, Numbers DEF IInv, TypeOK, Lag, LeaveBound

\* A deregistration is noticed within one heartbeat interval, a crash within
\* member_ttl, the skew and one heartbeat interval.
THEOREM FleetLeaveNoticed == ASSUME Tuned PROVE Spec => []LeaveNoticed
BY LeaveInv, FleetInductive, PTL

\* The views follow the processes within these bounds.
THEOREM FleetViewsAreTimely == ASSUME Tuned PROVE Spec => []ViewsAreTimely
<1>1. IInv => ViewsAreTimely
  <2>1. IInv => NoFalseEviction
    BY ZenonT(60), ListedIsLive DEF NoFalseEviction, Healthy, Listed, Fit, Running
  <2>2. QED BY <2>1, JoinInv, LeaveInv DEF ViewsAreTimely
<1>2. QED BY <1>1, FleetInductive, PTL

\* In a quiet state the views of the processes that are up are the same set, so
\* rendezvous hashing gives each feed one owner, which runs it.
LEMMA OneRunnerInv == ASSUME AssignAssumptions, IInv PROVE OneRunner
<1> SUFFICES ASSUME Quiet, \E m \in Member : pc[m] = "up", NEW f \in Feed
             PROVE  \E m \in Member : {n \in Member : f \in run[n]} = {m}
  BY DEF OneRunner
<1> DEFINE U == {m \in Member : pc[m] = "up"}
<1>1. \A m \in U : Healthy(m) /\ age[m] > Beat /\ ~sig[m]
  BY ZenonT(60) DEF Quiet
<1>2. \A m \in Member \ U : pc[m] = "off" \/ (pc[m] = "gone" /\ age[m] > LeaveBound(m))
  BY ZenonT(60) DEF Quiet, Healthy
<1>3. ASSUME NEW r \in U PROVE view[r] = U
  <2>1. U \subseteq view[r] BY ZenonT(60), <1>1, <1>3, JoinInv DEF JoinNoticed
  <2>2. view[r] \subseteq Member BY <1>3 DEF IInv, TypeOK
  <2>3. ASSUME NEW w \in view[r], w \notin U PROVE FALSE
    <3>1. w \in Member /\ pc[w] # "off" BY ZenonT(60), <1>3, <2>2, <2>3 DEF IInv, FInv, Started
    <3>2. pc[w] = "gone" /\ age[w] > LeaveBound(w) BY ZenonT(60), <1>2, <2>3, <3>1
    <3>3. QED BY <1>1, <1>3, <2>3, <3>1, <3>2, LeaveInv DEF LeaveNoticed
  <2>4. QED BY <2>1, <2>2, <2>3
<1>4. Score[f] \in Scores BY FleetAssumptions
<1>5. \A m \in Member : f \in run[m] <=> m \in U /\ OwnerOf(Score[f], U) = m
  <2>1. \A m \in Member \ U : run[m] = {} BY ZenonT(60), <1>2 DEF IInv, FInv, Applied
  <2>2. \A m \in U : run[m] = Owned(m) BY ZenonT(60), <1>1 DEF IInv, FInv, Applied
  <2>3. \A m \in U : Owned(m) = {g \in Feed : OwnsIf(Score[g], m, U)} BY ZenonT(60), <1>3 DEF Owned
  <2>4. ASSUME NEW m \in U PROVE f \in run[m] <=> OwnsIf(Score[f], m, U)
    <3>1. run[m] = {g \in Feed : OwnsIf(Score[g], m, U)} BY ZenonT(60), <2>2, <2>3, <2>4
    <3> HIDE DEF U
    <3>2. QED BY ZenonT(60), <3>1
  <2> HIDE DEF U
  <2>5. \A m \in U : OwnsIf(Score[f], m, U) <=> OwnerOf(Score[f], U) = m BY ZenonT(60) DEF OwnsIf
  <2>6. QED BY ZenonT(60), <2>1, <2>4, <2>5
<1>6. PICK m \in U : IsOwner(Score[f], m, U) BY ZenonT(60), <1>4, OwnerExists
<1>7. OwnerOf(Score[f], U) = m BY <1>4, <1>6, OwnerOfIs
<1>8. QED BY ZenonT(60), <1>5, <1>6, <1>7

\* Once joins and leaves are noticed and applied, every feed has exactly one runner.
THEOREM FleetOneRunner == ASSUME Tuned PROVE Spec => []OneRunner
<1>1. IInv => OneRunner BY OneRunnerInv, AssignAssumptions
<1>2. QED BY <1>1, FleetInductive, PTL
=============================================================================
