---------------------------- MODULE LeaseProofs ----------------------------
(***************************************************************************)
(* Proofs about the Redis coordinator, for every set of instances and      *)
(* tokens, every lock_ttl and every shorter renewal_interval; and about    *)
(* the Cosmos DB coordinator, for every set of instances, every            *)
(* lease_duration and every clock skew.                                    *)
(***************************************************************************)
EXTENDS RedisLease, CosmosLease, TLAPS

\* The provers of a leaf that names none, in turn; the translation for Z3 may give up.
USE Z3T(30), ZenonT(20), SMTT(30), Z3T(31), SMTT(31)

-----------------------------------------------------------------------------
(* RedisLease *)

\* The lease of an idle instance is gone; the tokens of leases are distinct.
Leases ==
  \A p \in Inst :
    /\ pc[p] = "idle" => tok[p] = None /\ ~renew[p] /\ ~held[p]
    /\ pc[p] # "idle" => tok[p] \in Token
    /\ tok[p] # None => \A q \in Inst : q # p => tok[q] # tok[p] /\ taken[q] # tok[p]

\* A lease whose holder had no failure is registered, renewed and not about to
\* be deleted, and its key outlives the next renewal.
Healthy(p) ==
  /\ tok[p] \notin dels /\ taken[p] # tok[p]
  /\ key.tok = tok[p]
  /\ pc[p] = "won" => key.ttl = TTL
  /\ pc[p] = "poll" => /\ held[p] /\ renew[p] /\ mode[p] = "open"
                       /\ key.ttl >= timer[p] + (TTL - Interval)

HealthInv == \A p \in Inst : Polling(p) /\ ~hurt[p] => Healthy(p)

LeaseInv == TypeOK /\ Leases

\* A registered lease that is released or abandoned leaves well-typed locals.
LEMMA DropType ==
  ASSUME TypeOK, NEW p \in Inst, Drop(p)
  PROVE  /\ pc' \in [Inst -> {"idle", "won", "poll", "release"}]
         /\ tok' \in [Inst -> Token \cup {None}] /\ renew' \in [Inst -> BOOLEAN]
         /\ timer' \in [Inst -> 0 .. Interval] /\ held' \in [Inst -> BOOLEAN]
         /\ hurt' \in [Inst -> BOOLEAN]
BY RedisAssumptions DEF Drop, TypeOK

\* The two scripts leave a well-typed key.
LEMMA ScriptType ==
  ASSUME TypeOK, NEW t
  PROVE  /\ Del(t) \in [tok : Token \cup {None}, ttl : 0 .. TTL]
         /\ Extend(t) \in [tok : Token \cup {None}, ttl : 0 .. TTL]
         /\ Extend(t).tok = key.tok
BY RedisAssumptions DEF TypeOK, Del, Extend, NoKey

\* A compare-and-delete deletes at most the key that carries its token.
LEMMA casDeleteEffect ==
  ASSUME TypeOK, NEW p \in Inst, NEW t \in Token, casDelete(p, t)
  PROVE  /\ key' \in [tok : Token \cup {None}, ttl : 0 .. TTL] /\ dels' \subseteq Token
         /\ faults' \in 0 .. MaxFaults
         /\ key' = key \/ (key.tok = t /\ key' = NoKey)
         /\ dels' \subseteq dels \cup {t}
BY RedisAssumptions, ScriptType DEF casDelete, Del, Fault, NoFault, TypeOK

LEMMA InitLeaseInv == Init => LeaseInv
BY RedisAssumptions DEF Init, LeaseInv, TypeOK, Leases, NoKey

\* Types and token discipline are preserved: one step per action.
LEMMA NextLeaseInv == LeaseInv /\ [Next]_vars => LeaseInv'
<1> SUFFICES ASSUME LeaseInv, [Next]_vars PROVE LeaseInv'
  OBVIOUS
<1>0. TypeOK /\ Leases
  BY DEF LeaseInv
<1>1. ASSUME NEW p \in Inst, SetNX(p) PROVE LeaseInv'
  <2>1. PICK t \in Token : /\ Fresh(t) /\ key' = [tok |-> t, ttl |-> TTL]
                           /\ tok' = [tok EXCEPT ![p] = t]
    BY ZenonT(60), <1>1 DEF SetNX, NX
  <2>2. TypeOK'
    BY <1>0, <1>1, <2>1, RedisAssumptions DEF SetNX, NX, TypeOK
  <2>3. Leases'
    BY <1>0, <1>1, <2>1, RedisAssumptions DEF SetNX, NX, TypeOK, Leases, Fresh
  <2> QED
    BY <2>2, <2>3 DEF LeaseInv
<1>2. ASSUME NEW p \in Inst, SetNXLost(p) PROVE LeaseInv'
  BY <1>0, <1>2, RedisAssumptions DEF SetNXLost, NX, LeaseInv, TypeOK, Leases, lease, Fault
<1>3. ASSUME NEW p \in Inst, Register(p) PROVE LeaseInv'
  <2>1. tok[p] \in Token
    BY <1>0, <1>3 DEF Register, Leases
  <2>2. CASE mode[p] = "open"
    <3>0. /\ pc' = [pc EXCEPT ![p] = "poll"] /\ held' = [held EXCEPT ![p] = TRUE]
          /\ renew' = [renew EXCEPT ![p] = TRUE]
          /\ timer' = [timer EXCEPT ![p] = Interval]
          /\ UNCHANGED <<key, tok, dels, hurt, faults, mode, taken>>
      BY <1>3, <2>2 DEF Register
    <3>1. TypeOK'
      BY <1>0, <3>0, RedisAssumptions DEF TypeOK
    <3>2. Leases'
      BY <1>0, <1>3, <2>2 DEF Register, TypeOK, Leases
    <3> QED
      BY <3>1, <3>2 DEF LeaseInv
  <2>3. CASE mode[p] # "open"
    <3>1. casDelete(p, tok[p]) /\ Drop(p) /\ UNCHANGED <<mode, taken>>
      BY <1>3, <2>3 DEF Register
    <3>2. TypeOK'
      BY <1>0, <2>1, <3>1, casDeleteEffect, DropType DEF TypeOK
    <3>3. Leases'
      BY <1>0, <3>1 DEF Drop, TypeOK, Leases
    <3> QED
      BY <3>2, <3>3 DEF LeaseInv
  <2> QED
    BY <2>2, <2>3
<1>4. ASSUME NEW p \in Inst, Renew(p) PROVE LeaseInv'
  <2>1. key' \in {key, Extend(tok[p])} /\ UNCHANGED <<pc, tok, held, mode, taken, dels>>
    BY <1>4 DEF Renew
  <2>2. \E b \in BOOLEAN : renew' = [renew EXCEPT ![p] = b]
    BY ZenonT(60), <1>4 DEF Renew
  <2>3. /\ timer' \in {timer, [timer EXCEPT ![p] = Interval]}
        /\ hurt' \in {hurt, [hurt EXCEPT ![p] = TRUE]}
        /\ NoFault \/ Fault
    BY <1>4 DEF Renew
  <2>a. timer' \in [Inst -> 0 .. Interval]
    BY <1>0, <2>3, RedisAssumptions DEF TypeOK
  <2>b. hurt' \in [Inst -> BOOLEAN]
    BY ZenonT(60), <1>0, <2>3 DEF TypeOK
  <2>e. renew' \in [Inst -> BOOLEAN]
    BY <1>0, <2>2 DEF TypeOK
  <2>c. faults' \in 0 .. MaxFaults
    BY <1>0, <2>3, RedisAssumptions DEF TypeOK, Fault, NoFault
  <2>d. key' \in [tok : Token \cup {None}, ttl : 0 .. TTL]
    BY <1>0, <2>1, ScriptType DEF TypeOK
  <2>4. TypeOK'
    BY <1>0, <2>1, <2>a, <2>b, <2>c, <2>d, <2>e DEF TypeOK
  <2>5. Leases'
    BY <1>0, <1>4, <2>1 DEF Renew, TypeOK, Leases
  <2> QED
    BY <2>4, <2>5 DEF LeaseInv
<1>5. ASSUME NEW p \in Inst, Release(p) PROVE LeaseInv'
  <2>0. UNCHANGED <<key, mode, taken, dels, faults>> /\ pc[p] = "poll"
    BY <1>5 DEF Release
  <2>1. CASE Drop(p)
    <3>1. TypeOK'
      BY <1>0, <2>0, <2>1, DropType DEF TypeOK
    <3>2. Leases'
      BY <1>0, <2>0, <2>1 DEF Drop, TypeOK, Leases
    <3> QED
      BY <3>1, <3>2 DEF LeaseInv
  <2>2. CASE ~Drop(p)
    <3>0. /\ pc' = [pc EXCEPT ![p] = "release"] /\ held' = [held EXCEPT ![p] = FALSE]
          /\ renew' = [renew EXCEPT ![p] = FALSE] /\ UNCHANGED <<tok, timer, hurt>>
      BY <1>5, <2>2 DEF Release
    <3>1. TypeOK'
      BY <1>0, <2>0, <3>0 DEF TypeOK
    <3>2. Leases'
      BY <1>0, <2>0, <3>0 DEF TypeOK, Leases
    <3> QED
      BY <3>1, <3>2 DEF LeaseInv
  <2> QED
    BY <2>1, <2>2
<1>6. ASSUME NEW p \in Inst, ReleaseDelete(p) PROVE LeaseInv'
  <2>1. casDelete(p, tok[p]) /\ Drop(p) /\ UNCHANGED <<mode, taken>> /\ tok[p] \in Token
    BY <1>0, <1>6 DEF ReleaseDelete, Leases
  <2>2. TypeOK'
    BY <1>0, <2>1, casDeleteEffect, DropType DEF TypeOK
  <2>3. Leases'
    BY <1>0, <2>1 DEF Drop, TypeOK, Leases
  <2> QED
    BY <2>2, <2>3 DEF LeaseInv
<1>7. ASSUME NEW p \in Inst, CloseStart(p) PROVE LeaseInv'
  <2>1. TypeOK'
    BY <1>0, <1>7 DEF CloseStart, TypeOK
  <2>2. Leases'
    BY <1>0, <1>7, RedisAssumptions DEF CloseStart, TypeOK, Leases
  <2> QED
    BY <2>1, <2>2 DEF LeaseInv
<1>8. ASSUME NEW p \in Inst, CloseLease(p) PROVE LeaseInv'
  <2>1. taken[p] \in Token
    BY <1>0, <1>8 DEF CloseLease, TypeOK
  <2>2. \E b \in BOOLEAN : renew' = [renew EXCEPT ![p] = b /\ renew[p]]
    BY ZenonT(60), <1>8 DEF CloseLease
  <2>3. TypeOK'
    BY <1>0, <1>8, <2>1, <2>2, casDeleteEffect DEF CloseLease, TypeOK
  <2>4. Leases'
    BY <1>0, <1>8, <2>2, RedisAssumptions DEF CloseLease, TypeOK, Leases
  <2> QED
    BY <2>3, <2>4 DEF LeaseInv
<1>9. ASSUME NEW p \in Inst, CloseEnd(p) PROVE LeaseInv'
  BY <1>0, <1>9 DEF CloseEnd, LeaseInv, TypeOK, Leases, lease
<1>10. ASSUME NEW p \in Inst, Restart(p) PROVE LeaseInv'
  <2>1. Drop(p) /\ UNCHANGED <<key, dels>> /\ taken' = [taken EXCEPT ![p] = None]
        /\ mode' = [mode EXCEPT ![p] = "open"] /\ faults' \in 0 .. MaxFaults
    BY <1>0, <1>10, RedisAssumptions DEF Restart, TypeOK, Fault, NoFault
  <2>2. TypeOK'
    BY <1>0, <2>1, DropType DEF TypeOK
  <2>3. Leases'
    BY <1>0, <2>1 DEF Drop, TypeOK, Leases
  <2> QED
    BY <2>2, <2>3 DEF LeaseInv
<1>11. ASSUME NEW p \in Inst, Stall(p) PROVE LeaseInv'
  BY <1>0, <1>11, RedisAssumptions DEF Stall, LeaseInv, TypeOK, Leases, lease, Fault
<1>12. ASSUME NEW t \in Token, LateDelete(t) PROVE LeaseInv'
  <2>1. TypeOK'
    BY <1>0, <1>12, ScriptType DEF LateDelete, TypeOK, lease
  <2>2. Leases'
    BY <1>0, <1>12 DEF LateDelete, Leases, lease
  <2> QED
    BY <2>1, <2>2 DEF LeaseInv
<1>13. CASE Tick
  <2>1. key' \in [tok : Token \cup {None}, ttl : 0 .. TTL]
    BY <1>0, <1>13, RedisAssumptions DEF Tick, Expire, TypeOK, NoKey
  <2>2. timer' \in [Inst -> 0 .. Interval]
    BY <1>0, <1>13, RedisAssumptions DEF Tick, Expire, TypeOK
  <2> QED
    BY <1>0, <1>13, <2>1, <2>2 DEF Tick, Expire, LeaseInv, TypeOK, Leases
<1>15. ASSUME NEW p \in Inst, RenewTaken(p) PROVE LeaseInv'
  BY <1>0, <1>15, ScriptType DEF RenewTaken, LeaseInv, TypeOK, Leases, lease
<1>14. CASE UNCHANGED vars
  BY <1>0, <1>14 DEF vars, LeaseInv, TypeOK, Leases
<1> QED
  BY <1>1, <1>2, <1>3, <1>4, <1>5, <1>6, <1>7, <1>8, <1>9, <1>10, <1>11, <1>12, <1>13,
     <1>14, <1>15 DEF Next, Step

-----------------------------------------------------------------------------
\* What another instance q does to the healthy lease of p: nothing.
LEMMA OtherKeeps ==
  ASSUME LeaseInv, NEW p \in Inst, Polling(p), Healthy(p),
         NEW q \in Inst, q # p, NEW t \in Token, casDelete(q, t), t # tok[p]
  PROVE  key' = key /\ tok[p] \notin dels'
BY casDeleteEffect DEF LeaseInv, Healthy

\* The renewal margin is preserved: one step per action.
LEMMA NextHealthInv == LeaseInv /\ HealthInv /\ [Next]_vars => HealthInv'
<1> SUFFICES ASSUME LeaseInv, HealthInv, [Next]_vars,
                    NEW p \in Inst, Polling(p)', ~hurt'[p]
             PROVE  Healthy(p)'
  BY DEF HealthInv
<1>0. TypeOK /\ Leases /\ TypeOK'
  BY NextLeaseInv DEF LeaseInv
<1>h. ASSUME Polling(p), ~hurt[p]
      PROVE  Healthy(p) /\ tok[p] \in Token /\ key.tok = tok[p]
  BY <1>0, <1>h DEF HealthInv, Healthy, Leases, Polling
<1>1. ASSUME NEW q \in Inst, SetNX(q) PROVE Healthy(p)'
  <2>1. PICK t \in Token : /\ Fresh(t) /\ key' = [tok |-> t, ttl |-> TTL]
                           /\ tok' = [tok EXCEPT ![q] = t]
    BY ZenonT(60), <1>1 DEF SetNX, NX
  <2>2. CASE p = q
    BY <1>0, <1>1, <2>1, <2>2 DEF SetNX, NX, TypeOK, Healthy, Fresh
  <2>3. CASE p # q
    <3>1. Polling(p) /\ ~hurt[p]
      BY <1>0, <1>1, <2>3 DEF SetNX, NX, TypeOK, Polling
    <3> QED
      BY <1>1, <1>h, <3>1, RedisAssumptions DEF SetNX, NX
  <2> QED
    BY <2>2, <2>3
<1>2. ASSUME NEW q \in Inst, SetNXLost(q) PROVE Healthy(p)'
  BY <1>2, <1>h, RedisAssumptions DEF SetNXLost, NX, lease, Polling
<1>3. ASSUME NEW q \in Inst, Register(q) PROVE Healthy(p)'
  <2>1. CASE mode[q] = "open" /\ p = q
    BY <1>0, <1>3, <1>h, <2>1, RedisAssumptions DEF Register, TypeOK, Healthy, Polling
  <2>2. CASE mode[q] = "open" /\ p # q
    BY <1>0, <1>3, <1>h, <2>2 DEF Register, TypeOK, Healthy, Polling
  <2>3. CASE mode[q] # "open"
    <3>1. casDelete(q, tok[q]) /\ Drop(q) /\ UNCHANGED <<mode, taken>> /\ tok[q] \in Token
      BY <1>0, <1>3, <2>3 DEF Register, Leases
    <3>2. p # q /\ Polling(p) /\ ~hurt[p]
      BY <1>0, <3>1 DEF Drop, TypeOK, Polling
    <3>3. key' = key /\ tok[p] \notin dels'
      BY <1>0, <1>h, <3>1, <3>2, OtherKeeps, RedisAssumptions DEF Leases
    <3> QED
      BY <1>0, <1>h, <3>1, <3>2, <3>3 DEF Drop, TypeOK, Healthy
  <2> QED
    BY <2>1, <2>2, <2>3
<1>4. ASSUME NEW q \in Inst, Renew(q) PROVE Healthy(p)'
  <2>0. UNCHANGED <<pc, tok, held, mode, taken, dels>> /\ renew[q]
    BY <1>4 DEF Renew
  <2>1. Polling(p) /\ ~hurt[p]
    BY <1>0, <1>4 DEF Renew, TypeOK, Polling
  <2>2. CASE p = q
    <3>1. /\ key' = Extend(tok[p]) /\ renew' = [renew EXCEPT ![p] = (key.tok = tok[p])]
          /\ timer' = [timer EXCEPT ![p] = Interval]
      BY <1>0, <1>4, <2>2 DEF Renew, TypeOK
    <3>2. key' = [key EXCEPT !.ttl = TTL] /\ renew' = [renew EXCEPT ![p] = TRUE]
      BY ZenonT(60), <1>h, <2>1, <3>1 DEF Extend
    <3>3. key'.tok = tok[p] /\ key'.ttl = TTL /\ renew'[p] /\ timer'[p] = Interval
      BY <1>0, <1>h, <2>1, <3>1, <3>2 DEF TypeOK
    <3>4. TTL >= Interval + (TTL - Interval)
      BY ONLY Z3T(30), SMTT(30), RedisAssumptions
    <3> QED
      BY ZenonT(60), <1>h, <2>0, <2>1, <3>3, <3>4 DEF Healthy
  <2>3. CASE p # q
    <3>1. tok[q] # tok[p]
      BY <1>0, <1>h, <2>1, <2>3, RedisAssumptions DEF Leases
    <3>2. key' = key
      BY <1>4, <1>h, <2>1, <3>1 DEF Renew, Extend
    <3>3. renew'[p] = renew[p] /\ timer'[p] = timer[p]
      BY <1>0, <1>4, <2>3 DEF Renew, TypeOK
    <3> QED
      BY ZenonT(60), <1>h, <2>0, <2>1, <3>2, <3>3 DEF Healthy
  <2> QED
    BY <2>2, <2>3
<1>5. ASSUME NEW q \in Inst, Release(q) PROVE Healthy(p)'
  <2>0. UNCHANGED <<key, mode, taken, dels, faults>> /\ pc'[q] \in {"idle", "release"}
    BY <1>0, <1>5 DEF Release, Drop, TypeOK
  <2>1. p # q
    BY <2>0 DEF Polling
  <2>2. /\ pc'[p] = pc[p] /\ tok'[p] = tok[p] /\ held'[p] = held[p]
        /\ renew'[p] = renew[p] /\ timer'[p] = timer[p] /\ hurt'[p] = hurt[p]
    BY <1>0, <1>5, <2>1 DEF Release, Drop, TypeOK
  <2> QED
    BY <1>h, <2>0, <2>2 DEF Healthy, Polling
<1>6. ASSUME NEW q \in Inst, ReleaseDelete(q) PROVE Healthy(p)'
  <2>1. casDelete(q, tok[q]) /\ Drop(q) /\ UNCHANGED <<mode, taken>> /\ tok[q] \in Token
    BY <1>0, <1>6 DEF ReleaseDelete, Leases
  <2>2. p # q /\ Polling(p) /\ ~hurt[p]
    BY <1>0, <2>1 DEF Drop, TypeOK, Polling
  <2>3. key' = key /\ tok[p] \notin dels'
    BY <1>0, <1>h, <2>1, <2>2, OtherKeeps, RedisAssumptions DEF Leases
  <2> QED
    BY <1>0, <1>h, <2>1, <2>2, <2>3 DEF Drop, TypeOK, Healthy
<1>7. ASSUME NEW q \in Inst, CloseStart(q) PROVE Healthy(p)'
  <2>1. p # q
    BY ZenonT(60), <1>0, <1>7 DEF CloseStart, TypeOK, Polling
  <2> QED
    BY <1>0, <1>7, <1>h, <2>1 DEF CloseStart, TypeOK, Healthy, Polling
<1>8. ASSUME NEW q \in Inst, CloseLease(q) PROVE Healthy(p)'
  <2>1. /\ taken[q] \in Token /\ casDelete(q, taken[q])
        /\ UNCHANGED <<pc, tok, timer, held, mode, hurt>>
    BY <1>0, <1>8 DEF CloseLease, TypeOK
  <2>2. Polling(p) /\ ~hurt[p]
    BY <2>1 DEF Polling
  <2>3. taken[q] # tok[p]
    BY <1>0, <1>h, <2>2, RedisAssumptions DEF Leases, Healthy
  <2>4. key' = key /\ tok[p] \notin dels'
    BY <1>0, <1>h, <2>1, <2>2, <2>3, casDeleteEffect DEF Healthy
  <2>5. renew'[p] = renew[p] /\ taken'[p] # tok[p]
    BY <1>0, <1>8, <1>h, <2>2, <2>3, RedisAssumptions DEF CloseLease, TypeOK, Healthy
  <2> QED
    BY <1>h, <2>1, <2>2, <2>4, <2>5 DEF Healthy
<1>9. ASSUME NEW q \in Inst, CloseEnd(q) PROVE Healthy(p)'
  BY <1>0, <1>9, <1>h DEF CloseEnd, TypeOK, Healthy, lease, Polling
<1>10. ASSUME NEW q \in Inst, Restart(q) PROVE Healthy(p)'
  <2>1. /\ Drop(q) /\ UNCHANGED <<key, dels>> /\ taken' = [taken EXCEPT ![q] = None]
        /\ mode' = [mode EXCEPT ![q] = "open"]
    BY <1>10 DEF Restart
  <2>2. p # q /\ Polling(p) /\ ~hurt[p]
    BY <1>0, <2>1 DEF Drop, TypeOK, Polling
  <2> QED
    BY <1>0, <1>h, <2>1, <2>2 DEF Drop, TypeOK, Healthy
<1>11. ASSUME NEW q \in Inst, Stall(q) PROVE Healthy(p)'
  BY <1>0, <1>11, <1>h DEF Stall, TypeOK, Healthy, lease, Polling
<1>12. ASSUME NEW t \in Token, LateDelete(t) PROVE Healthy(p)'
  <2>1. Polling(p) /\ ~hurt[p]
    BY ZenonT(60), <1>12 DEF LateDelete, lease, Polling
  <2>2. key' = key
    BY <1>12, <1>h, <2>1 DEF LateDelete, Del, Healthy
  <2> QED
    BY ZenonT(60), <1>12, <1>h, <2>1, <2>2 DEF LateDelete, Healthy, lease
<1>13. CASE Tick
  <2>1. Polling(p) /\ ~hurt[p] /\ pc' = pc
    BY <1>13 DEF Tick, Expire, Polling
  <2>2. pc[p] = "poll" /\ renew[p] /\ timer[p] # 0
    BY <1>13, <1>h, <2>1 DEF Tick, Expire, Punctual, Healthy, Polling
  <2>3. key.ttl \in Nat /\ timer[p] \in Nat /\ key.ttl >= timer[p] + (TTL - Interval)
        /\ timer'[p] = timer[p] - 1
    BY <1>0, <1>13, <1>h, <2>1, <2>2 DEF Tick, Expire, TypeOK, Healthy
  <2>4. key.ttl > 1
    BY <2>2, <2>3, RedisAssumptions
  <2>5. key'.tok = key.tok /\ key'.ttl = key.ttl - 1
    BY <1>0, <1>13, <2>3, <2>4 DEF Tick, Expire, TypeOK
  <2> QED
    BY <1>13, <1>h, <2>1, <2>2, <2>3, <2>5, RedisAssumptions DEF Tick, Expire, Healthy
<1>15. ASSUME NEW q \in Inst, RenewTaken(q) PROVE Healthy(p)'
  <2>1. Polling(p) /\ ~hurt[p]
    BY <1>15 DEF RenewTaken, lease, Polling
  <2>2. taken[q] # tok[p]
    BY <1>0, <1>h, <2>1, RedisAssumptions DEF Leases, Healthy
  <2>3. key' = key
    BY <1>15, <1>h, <2>1, <2>2 DEF RenewTaken, Extend
  <2> QED
    BY <1>15, <1>h, <2>1, <2>3 DEF RenewTaken, Healthy, lease
<1>14. CASE UNCHANGED vars
  BY <1>14, <1>h DEF vars, Healthy, Polling
<1> QED
  BY <1>1, <1>2, <1>3, <1>4, <1>5, <1>6, <1>7, <1>8, <1>9, <1>10, <1>11, <1>12, <1>13,
     <1>14, <1>15 DEF Next, Step

-----------------------------------------------------------------------------
\* The state of every instance and of the key is well typed in every execution.
THEOREM RedisTypeCorrect == Spec => []TypeOK
<1>1. Spec => []LeaseInv
  BY InitLeaseInv, NextLeaseInv, PTL DEF Spec
<1>2. LeaseInv => TypeOK
  BY DEF LeaseInv
<1> QED
  BY <1>1, <1>2, PTL

\* The inductive invariant: types, token discipline and the renewal margin of
\* every lease whose holder had no failure.
THEOREM RedisInductive == Spec => [](LeaseInv /\ HealthInv)
<1>1. Init => LeaseInv /\ HealthInv
  BY InitLeaseInv DEF Init, HealthInv, Polling
<1>2. LeaseInv /\ HealthInv /\ [Next]_vars => (LeaseInv /\ HealthInv)'
  BY NextLeaseInv, NextHealthInv
<1> QED
  BY <1>1, <1>2, PTL DEF Spec

\* Whatever the other instances do, an instance without a failure of its own
\* keeps its lease while it polls (renewLoop, casDelete, Close).
THEOREM RedisKeepsLease == Spec => []LossIsOwnFault
<1>1. HealthInv => LossIsOwnFault
  BY DEF HealthInv, Healthy, LossIsOwnFault
<1> QED
  BY <1>1, RedisInductive, PTL

\* Two instances poll at once only if one had a failure or was shut down.
THEOREM RedisExcludes == Spec => []OverlapNeedsFault
<1>1. LeaseInv /\ HealthInv => OverlapNeedsFault
  <2> SUFFICES ASSUME LeaseInv, HealthInv, NEW p \in Inst, NEW q \in Inst,
                      Polling(p), Polling(q), p # q, ~hurt[p], ~hurt[q]
               PROVE  FALSE
    BY DEF OverlapNeedsFault
  <2>1. key.tok = tok[p] /\ key.tok = tok[q]
    BY DEF HealthInv, Healthy
  <2>2. tok[p] \in Token /\ tok[p] # tok[q]
    BY RedisAssumptions DEF LeaseInv, Leases, Polling
  <2> QED
    BY <2>1, <2>2
<1> QED
  BY <1>1, RedisInductive, PTL

-----------------------------------------------------------------------------
CoordStep == [Coord!CNext]_(Coord!cvars)

\* A step that only ends the lifetime of the key takes the lease of at most the
\* one poller whose token it carried.
LEMMA KeyMayGo ==
  ASSUME LeaseInv, UNCHANGED <<pc, tok>>, key'.tok \in {key.tok, None}
  PROVE  CoordStep
<1>1. CASE \E p \in Inst : Polling(p) /\ key.tok = tok[p] /\ key'.tok = None
  <2>1. PICK p \in Inst : Polling(p) /\ key.tok = tok[p] /\ key'.tok = None
    BY <1>1
  <2>2. \A q \in Inst : q # p /\ Polling(q) => tok[q] # tok[p]
    BY <2>1, RedisAssumptions DEF LeaseInv, Leases, Polling
  <2>3. tok[p] # None
    BY <2>1, RedisAssumptions DEF LeaseInv, Leases, Polling
  <2>4. Coord!Lose(p)
    BY <2>1, <2>2, <2>3, RedisAssumptions DEF Coord!Lose, Polling, LeaseInv, Leases
  <2> QED
    BY <2>4 DEF CoordStep, Coord!CNext
<1>2. CASE ~\E p \in Inst : Polling(p) /\ key.tok = tok[p] /\ key'.tok = None
  <2>1. \A p \in Inst : Polling(p) => (key'.tok # tok'[p] <=> key.tok # tok[p])
    BY <1>2, RedisAssumptions DEF LeaseInv, Leases, Polling
  <2> QED
    BY <2>1 DEF CoordStep, Coord!cvars, Polling
<1> QED
  BY <1>1, <1>2

\* A step that ends the poll of p and deletes at most p's own key.
LEMMA PollEnds ==
  ASSUME LeaseInv, NEW p \in Inst, ~Polling(p)',
         \A q \in Inst : q # p => pc'[q] = pc[q] /\ tok'[q] = tok[q],
         key'.tok = key.tok \/ (key.tok = tok[p] /\ tok[p] # None /\ key'.tok = None)
  PROVE  CoordStep
<1>1. \A q \in Inst : q # p /\ Polling(q) => (key'.tok # tok'[q] <=> key.tok # tok[q])
  BY RedisAssumptions DEF LeaseInv, Leases, Polling
<1>2. \A q \in Inst : q # p => (Polling(q)' <=> Polling(q))
  BY DEF Polling
<1>3. CASE Polling(p)
  <2>1. Coord!Leave(p)
    BY <1>1, <1>2, <1>3 DEF Coord!Leave
  <2> QED
    BY <2>1 DEF CoordStep, Coord!CNext
<1>4. CASE ~Polling(p)
  BY <1>1, <1>2, <1>4 DEF CoordStep, Coord!cvars
<1> QED
  BY <1>3, <1>4

LEMMA NextCoord == LeaseInv /\ [Next]_vars => CoordStep
<1> SUFFICES ASSUME LeaseInv, [Next]_vars PROVE CoordStep
  OBVIOUS
<1>0. TypeOK /\ Leases
  BY DEF LeaseInv
<1>1. ASSUME NEW p \in Inst, SetNX(p) PROVE CoordStep
  <2>1. PICK t \in Token : /\ Fresh(t) /\ key' = [tok |-> t, ttl |-> TTL]
                           /\ tok' = [tok EXCEPT ![p] = t]
    BY ZenonT(60), <1>1 DEF SetNX, NX
  <2>2. \A q \in Inst : Polling(q) => tok[q] \in Token /\ key.tok # tok[q]
    BY <1>0, <1>1, RedisAssumptions DEF SetNX, NX, Leases, Polling
  <2>3. \A q \in Inst : q # p => (Polling(q)' <=> Polling(q)) /\ key'.tok # tok'[q]
    BY <1>0, <1>1, <2>1 DEF SetNX, NX, TypeOK, Polling, Fresh
  <2>4. ~Polling(p) /\ Polling(p)' /\ key'.tok = tok'[p]
    BY <1>0, <1>1, <2>1 DEF SetNX, NX, TypeOK, Polling
  <2>5. Coord!Win(p)
    BY <2>2, <2>3, <2>4 DEF Coord!Win
  <2> QED
    BY <2>5 DEF CoordStep, Coord!CNext
<1>2. ASSUME NEW p \in Inst, SetNXLost(p) PROVE CoordStep
  <2>1. UNCHANGED <<pc, tok>> /\ key.tok = None /\ \A q \in Inst : key'.tok # tok[q]
    BY <1>2 DEF SetNXLost, NX, lease, Fresh
  <2>2. \A q \in Inst : Polling(q) => key.tok # tok[q]
    BY <1>0, <2>1, RedisAssumptions DEF Leases, Polling
  <2> QED
    BY <2>1, <2>2 DEF CoordStep, Coord!cvars, Polling
<1>3. ASSUME NEW p \in Inst, Register(p) PROVE CoordStep
  <2>1. CASE mode[p] = "open"
    <3>1. UNCHANGED <<key, tok>> /\ pc[p] = "won" /\ pc' = [pc EXCEPT ![p] = "poll"]
      BY <1>3, <2>1 DEF Register
    <3>2. \A q \in Inst : Polling(q)' <=> Polling(q)
      BY <1>0, <3>1 DEF TypeOK, Polling
    <3> QED
      BY <3>1, <3>2 DEF CoordStep, Coord!cvars
  <2>2. CASE mode[p] # "open"
    <3>1. casDelete(p, tok[p]) /\ Drop(p) /\ tok[p] \in Token
      BY ZenonT(60), <1>0, <1>3, <2>2 DEF Register, Leases
    <3>2. key'.tok = key.tok \/ (key.tok = tok[p] /\ key'.tok = None)
      BY <1>0, <3>1, casDeleteEffect DEF NoKey
    <3> QED
      BY <1>0, <3>1, <3>2, PollEnds, RedisAssumptions DEF Drop, TypeOK, Polling
  <2> QED
    BY <2>1, <2>2
<1>4. ASSUME NEW p \in Inst, Renew(p) PROVE CoordStep
  BY <1>0, <1>4, ScriptType, KeyMayGo DEF Renew
<1>5. ASSUME NEW p \in Inst, Release(p) PROVE CoordStep
  <2>1. UNCHANGED key /\ pc'[p] \in {"idle", "release"}
    BY <1>0, <1>5 DEF Release, Drop, TypeOK
  <2>2. \A q \in Inst : q # p => pc'[q] = pc[q] /\ tok'[q] = tok[q]
    BY <1>0, <1>5 DEF Release, Drop, TypeOK
  <2> QED
    BY <2>1, <2>2, PollEnds DEF Polling
<1>6. ASSUME NEW p \in Inst, ReleaseDelete(p) PROVE CoordStep
  <2>1. casDelete(p, tok[p]) /\ Drop(p) /\ tok[p] \in Token
    BY <1>0, <1>6 DEF ReleaseDelete, Leases
  <2>2. key'.tok = key.tok \/ (key.tok = tok[p] /\ key'.tok = None)
    BY <1>0, <2>1, casDeleteEffect DEF NoKey
  <2> QED
    BY <1>0, <2>1, <2>2, PollEnds, RedisAssumptions DEF Drop, TypeOK, Polling
<1>7. ASSUME NEW p \in Inst, CloseStart(p) PROVE CoordStep
  BY <1>7, KeyMayGo DEF CloseStart
<1>8. ASSUME NEW p \in Inst, CloseLease(p) PROVE CoordStep
  <2>1. taken[p] \in Token /\ casDelete(p, taken[p]) /\ UNCHANGED <<pc, tok>>
    BY <1>0, <1>8 DEF CloseLease, TypeOK
  <2> QED
    BY <1>0, <2>1, casDeleteEffect, KeyMayGo DEF NoKey
<1>9. ASSUME NEW p \in Inst, CloseEnd(p) PROVE CoordStep
  BY <1>9, KeyMayGo DEF CloseEnd, lease
<1>10. ASSUME NEW p \in Inst, Restart(p) PROVE CoordStep
  BY <1>0, <1>10, PollEnds DEF Restart, Drop, TypeOK, Polling
<1>11. ASSUME NEW p \in Inst, Stall(p) PROVE CoordStep
  BY <1>11, KeyMayGo DEF Stall, lease
<1>12. ASSUME NEW t \in Token, LateDelete(t) PROVE CoordStep
  BY <1>12, KeyMayGo DEF LateDelete, lease, Del, NoKey
<1>13. CASE Tick
  BY <1>0, <1>13, KeyMayGo DEF Tick, Expire, NoKey, TypeOK
<1>15. ASSUME NEW p \in Inst, RenewTaken(p) PROVE CoordStep
  BY <1>0, <1>15, ScriptType, KeyMayGo DEF RenewTaken, lease
<1>14. CASE UNCHANGED vars
  BY <1>14, KeyMayGo DEF vars
<1> QED
  BY <1>1, <1>2, <1>3, <1>4, <1>5, <1>6, <1>7, <1>8, <1>9, <1>10, <1>11, <1>12, <1>13,
     <1>14, <1>15 DEF Next, Step

\* The Redis lease implements the coordinator contract: an instance wins only
\* when every poller of the feed has already lost its key.
THEOREM RedisImplements == Spec => ImplementsCoordinator
<1>1. Init => Coord!CInit
  BY DEF Init, Coord!CInit, Polling
<1>2. Spec => []LeaseInv
  BY InitLeaseInv, NextLeaseInv, PTL DEF Spec
<1> QED
  BY <1>1, <1>2, NextCoord, PTL DEF Spec, CoordStep, ImplementsCoordinator, Coord!CSpec

-----------------------------------------------------------------------------
(* CosmosLease *)

CosmosTypeOK ==
  /\ doc \in BOOLEAN /\ left \in Int /\ lateDel \in BOOLEAN
  /\ ahead \in [Holder -> 0 .. ClockSkew]
  /\ at \in [Holder -> {"idle", "create", "read", "replace", "won", "poll", "release"}]
  /\ since \in [Holder -> Nat]
  /\ mine \subseteq Holder /\ read \subseteq Holder
  /\ inHeld \subseteq Holder /\ closed \subseteq Holder /\ closing \subseteq Holder

\* One lease at most holds the ETag of the document; none does once there is no
\* document or its delete may still arrive. Whoever has read the ETag to reclaim
\* the document found it expired. Close takes the leases of closed coordinators.
VersionInv ==
  /\ \A p, q \in mine : p = q
  /\ ~doc => mine = {} /\ read = {}
  /\ lateDel => mine = {}
  /\ read # {} => left <= ClockSkew
  /\ closing \subseteq closed /\ inHeld \cap closed = {}

\* A lease that is recorded, or about to be, and whose time is not up.
Valid(p) ==
  /\ since[p] < LockTime - ClockSkew
  /\ (at[p] = "won" /\ p \notin closed) \/ (at[p] = "poll" /\ p \in inHeld)

\* The document is the version p wrote, and its expiry is the clock reading plus
\* lease_duration.
Intact(p) == doc /\ mine = {p} /\ left = Clock(p) + LockTime

IntactInv == \A p \in Holder : Valid(p) => Intact(p)

CosmosLeaseInv == CosmosTypeOK /\ VersionInv /\ IntactInv

LEMMA CosmosNumbers ==
  /\ LockTime \in Nat /\ LockTime > 0 /\ ClockSkew \in Nat /\ MaxWait \in Nat
BY CosmosAssumptions

LEMMA CosmosInitInv == CosmosInit => CosmosLeaseInv
<1> SUFFICES ASSUME CosmosInit PROVE CosmosLeaseInv
  OBVIOUS
<1>1. CosmosTypeOK
  <2>1. at \in [Holder -> {"idle", "create", "read", "replace", "won", "poll", "release"}]
    BY ZenonT(60) DEF CosmosInit
  <2>2. since \in [Holder -> Nat]
    BY DEF CosmosInit
  <2>3. left \in Int
    BY DEF CosmosInit
  <2> QED
    BY ZenonT(60), <2>1, <2>2, <2>3 DEF CosmosInit, CosmosTypeOK
<1>2. VersionInv
  BY DEF CosmosInit, VersionInv
<1>3. IntactInv
  BY DEF CosmosInit, IntactInv, Valid
<1> QED
  BY <1>1, <1>2, <1>3 DEF CosmosLeaseInv

\* Moving an instance to a point of its loop.
LEMMA GoEffect ==
  ASSUME CosmosTypeOK, NEW p \in Holder, Go(p, "won") \/ Go(p, "poll") \/ Go(p, "idle") \/ Go(p, "create")
                                          \/ Go(p, "read") \/ Go(p, "replace") \/ Go(p, "release")
  PROVE  /\ at' \in [Holder -> {"idle", "create", "read", "replace", "won", "poll", "release"}]
         /\ since' \in [Holder -> Nat]
         /\ \A q \in Holder : q # p => at'[q] = at[q] /\ since'[q] = since[q]
BY DEF CosmosTypeOK, Go, Timed

LEMMA GoWhere ==
  ASSUME CosmosTypeOK, NEW p \in Holder, NEW where, Go(p, where)
  PROVE  at'[p] = where /\ (where \in Timed => since'[p] = since[p])
BY DEF CosmosTypeOK, Go

\* An instance reads its clock at most the skew ahead of the slowest one.
LEMMA ClockType ==
  ASSUME CosmosTypeOK, NEW p \in Holder
  PROVE  Clock(p) \in Int /\ Clock(p) <= ClockSkew
BY CosmosNumbers DEF CosmosTypeOK, Clock

\* A conditional delete takes away at most the caller's own version.
LEMMA DeleteEffect ==
  ASSUME CosmosTypeOK, VersionInv, NEW p \in Holder, conditionalDelete(p)
  PROVE  /\ doc' \in BOOLEAN /\ left' \in Int /\ lateDel' \in BOOLEAN
         /\ mine' = mine \ {p} /\ read' \subseteq read
         /\ p \notin mine => doc' = doc /\ left' = left
         /\ ~doc' => mine' = {} /\ read' = {}
         /\ lateDel' => mine' = {}
         /\ read' # {} => left' <= ClockSkew
<1>1. CASE OwnVersion(p) /\ Erase
  <2>1. mine \ {p} = {}
    BY <1>1 DEF OwnVersion, VersionInv
  <2>2. left' \in Int
    BY <1>1 DEF Erase
  <2> QED
    BY ZenonT(60), <1>1, <2>1, <2>2 DEF OwnVersion, Erase
<1>2. CASE ~OwnVersion(p) /\ UNCHANGED lock
  BY <1>2 DEF OwnVersion, lock, CosmosTypeOK, VersionInv
<1>3. CASE /\ lateDel' = (lateDel \/ OwnVersion(p)) /\ mine' = mine \ {p}
           /\ UNCHANGED <<doc, left, read>>
  <2>1. lateDel' => mine' = {}
    BY ZenonT(60), <1>3 DEF OwnVersion, VersionInv
  <2> QED
    BY <1>3, <2>1 DEF CosmosTypeOK, VersionInv
<1> QED
  BY <1>1, <1>2, <1>3 DEF conditionalDelete

\* A lease whose owner does nothing stays intact unless its version is replaced.
LEMMA OthersIntact ==
  ASSUME CosmosTypeOK, IntactInv, NEW q \in Holder, Valid(q)',
         at'[q] = at[q], since'[q] = since[q], ahead' = ahead,
         q \in closed => q \in closed', q \in inHeld' => q \in inHeld,
         mine = {q} => doc' = doc /\ left' = left /\ mine' = mine
  PROVE  Intact(q)'
<1>1. Valid(q)
  BY DEF Valid
<1>2. Intact(q)
  BY <1>1 DEF IntactInv
<1> QED
  BY <1>2 DEF Intact, Clock

\* A step that leaves the document alone, and its instance neither with the lock nor polling.
LEMMA ElsewhereIntact ==
  ASSUME CosmosTypeOK, IntactInv, NEW p \in Holder,
         Go(p, "idle") \/ Go(p, "create") \/ Go(p, "read") \/ Go(p, "replace") \/ Go(p, "release"),
         UNCHANGED <<doc, left, mine, ahead, closed>>, inHeld' \subseteq inHeld
  PROVE  IntactInv'
<1>1. at'[p] \notin {"won", "poll"}
  BY GoWhere
<1>2. ~Valid(p)'
  BY <1>1 DEF Valid
<1>3. \A q \in Holder : q # p => at'[q] = at[q] /\ since'[q] = since[q]
  BY GoEffect
<1>4. ASSUME NEW q \in Holder, Valid(q)' PROVE Intact(q)'
  <2>1. q # p
    BY <1>2, <1>4
  <2>2. at'[q] = at[q] /\ since'[q] = since[q]
    BY <1>3, <2>1
  <2>3. /\ ahead' = ahead /\ (q \in closed => q \in closed') /\ (q \in inHeld' => q \in inHeld)
        /\ mine = {q} => doc' = doc /\ left' = left /\ mine' = mine
    OBVIOUS
  <2> QED
    BY <1>4, <2>2, <2>3, OthersIntact
<1> QED
  BY <1>4 DEF IntactInv

\* The invariant is preserved: one step per action.
LEMMA CosmosNextInv == CosmosLeaseInv /\ [CosmosNext]_cosmosVars => CosmosLeaseInv'
<1> SUFFICES ASSUME CosmosLeaseInv, [CosmosNext]_cosmosVars PROVE CosmosLeaseInv'
  OBVIOUS
<1>0. CosmosTypeOK /\ VersionInv /\ IntactInv
  BY DEF CosmosLeaseInv
<1>1. ASSUME NEW p \in Holder, TryAcquire(p) PROVE CosmosLeaseInv'
  <2>1. Go(p, "create") /\ UNCHANGED <<lock, ahead, inHeld, closed, closing>>
    BY <1>1 DEF TryAcquire
  <2>2. CosmosTypeOK' /\ VersionInv'
    BY <1>0, <2>1, GoEffect DEF CosmosTypeOK, VersionInv, lock
  <2>3. IntactInv'
    BY <1>0, <2>1, ElsewhereIntact DEF lock
  <2> QED
    BY <2>2, <2>3 DEF CosmosLeaseInv
<1>2. ASSUME NEW p \in Holder, Write(p, {p}), Go(p, "won"), mine = {} \/ left <= ClockSkew,
             since' = since, UNCHANGED <<ahead, inHeld, closed, closing>>
      PROVE  CosmosLeaseInv'
  <2>1. CosmosTypeOK'
    <3>1. left' \in Int
      BY <1>0, <1>2, ClockType, CosmosNumbers DEF Write
    <3>2. /\ at' \in [Holder -> {"idle", "create", "read", "replace", "won", "poll", "release"}]
          /\ since' \in [Holder -> Nat]
      BY <1>0, <1>2, GoEffect
    <3> QED
      BY ZenonT(60), <1>0, <1>2, <3>1, <3>2 DEF CosmosTypeOK, Write
  <2>2. VersionInv'
    BY <1>0, <1>2 DEF VersionInv, Write
  <2>3. ASSUME NEW q \in Holder, Valid(q)' PROVE Intact(q)'
    <3>1. CASE q = p
      BY <1>2, <3>1 DEF Intact, Write, Clock
    <3>2. CASE q # p
      <4>1. Valid(q)
        BY <1>0, <1>2, <2>3, <3>2, GoEffect DEF Valid
      <4>2. Intact(q)
        BY <1>0, <4>1 DEF IntactInv
      <4>3. left > ClockSkew /\ mine = {q}
        BY <1>0, <4>1, <4>2, CosmosNumbers DEF Valid, Intact, Clock, CosmosTypeOK
      <4> QED
        BY ONLY Z3T(30), SMTT(30), <1>0, <1>2, <4>3, CosmosNumbers DEF CosmosTypeOK
    <3> QED
      BY <3>1, <3>2
  <2> QED
    BY <2>1, <2>2, <2>3 DEF CosmosLeaseInv, IntactInv
<1>3. ASSUME NEW p \in Holder, Write(p, {}), Go(p, "idle"), mine = {} \/ left <= ClockSkew,
             UNCHANGED <<ahead, inHeld, closed, closing>>
      PROVE  CosmosLeaseInv'
  <2>1. CosmosTypeOK'
    <3>1. left' \in Int
      BY <1>0, <1>3, ClockType, CosmosNumbers DEF Write
    <3>2. /\ at' \in [Holder -> {"idle", "create", "read", "replace", "won", "poll", "release"}]
          /\ since' \in [Holder -> Nat]
      BY <1>0, <1>3, GoEffect
    <3> QED
      BY ZenonT(60), <1>0, <1>3, <3>1, <3>2 DEF CosmosTypeOK, Write
  <2>2. VersionInv'
    BY <1>0, <1>3 DEF VersionInv, Write
  <2>3. ASSUME NEW q \in Holder, Valid(q)' PROVE FALSE
    <3>1. CASE q = p
      BY <1>0, <1>3, <2>3, <3>1, GoWhere DEF Valid
    <3>2. CASE q # p
      <4>1. Valid(q)
        BY <1>0, <1>3, <2>3, <3>2, GoEffect DEF Valid
      <4>2. Intact(q)
        BY <1>0, <4>1 DEF IntactInv
      <4>3. left > ClockSkew /\ mine = {q}
        BY <1>0, <4>1, <4>2, CosmosNumbers DEF Valid, Intact, Clock, CosmosTypeOK
      <4> QED
        BY ONLY Z3T(30), SMTT(30), <1>0, <1>3, <4>3, CosmosNumbers DEF CosmosTypeOK
    <3> QED
      BY <3>1, <3>2
  <2> QED
    BY <2>1, <2>2, <2>3 DEF CosmosLeaseInv, IntactInv
<1>4. ASSUME NEW p \in Holder, Go(p, "read") \/ Go(p, "idle"),
             UNCHANGED <<doc, left, mine, lateDel, ahead, inHeld, closed, closing>>,
             read' \subseteq read
      PROVE  CosmosLeaseInv'
  <2>1. CosmosTypeOK' /\ VersionInv'
    BY <1>0, <1>4, GoEffect DEF CosmosTypeOK, VersionInv
  <2>2. IntactInv'
    BY <1>0, <1>4, ElsewhereIntact
  <2> QED
    BY <2>1, <2>2 DEF CosmosLeaseInv
<1>5. ASSUME NEW p \in Holder, CreateItem(p) PROVE CosmosLeaseInv'
  <2>1. CASE ~doc /\ Write(p, {p}) /\ Go(p, "won")
    <3>1. since' = since
      BY <1>0, <2>1 DEF Go, Timed, CosmosTypeOK
    <3> QED
      BY <1>0, <1>2, <1>5, <2>1, <3>1 DEF CreateItem, VersionInv
  <2>2. CASE ~doc /\ Write(p, {}) /\ Go(p, "idle")
    BY <1>0, <1>3, <1>5, <2>2 DEF CreateItem, VersionInv
  <2>3. CASE (Go(p, "read") \/ Go(p, "idle")) /\ UNCHANGED lock
    BY <1>4, <1>5, <2>3 DEF CreateItem, lock
  <2> QED
    BY <1>5, <2>1, <2>2, <2>3 DEF CreateItem
<1>6. ASSUME NEW p \in Holder, ReadItem(p) PROVE CosmosLeaseInv'
  <2>1. CASE Go(p, "idle") /\ UNCHANGED read
    BY <1>4, <1>6, <2>1 DEF ReadItem
  <2>2. CASE doc /\ ~Live(p) /\ Go(p, "replace") /\ read' = read \cup {p}
    <3>1. UNCHANGED <<doc, left, mine, lateDel, ahead, inHeld, closed, closing>>
      BY <1>6 DEF ReadItem
    <3>2. left <= ClockSkew
      BY <1>0, <2>2, ClockType, CosmosNumbers DEF Live, CosmosTypeOK
    <3>3. CosmosTypeOK' /\ VersionInv'
      BY <1>0, <2>2, <3>1, <3>2, GoEffect DEF CosmosTypeOK, VersionInv
    <3>4. IntactInv'
      BY <1>0, <2>2, <3>1, ElsewhereIntact
    <3> QED
      BY <3>3, <3>4 DEF CosmosLeaseInv
  <2> QED
    BY <1>6, <2>1, <2>2 DEF ReadItem
<1>7. ASSUME NEW p \in Holder, ReplaceItem(p) PROVE CosmosLeaseInv'
  <2>0. UNCHANGED <<ahead, inHeld, closed, closing>>
    BY <1>7 DEF ReplaceItem
  <2>1. CASE Unchanged(p) /\ Write(p, {p}) /\ Go(p, "won")
    <3>1. since' = since
      BY <1>0, <2>1 DEF Go, Timed, CosmosTypeOK
    <3>2. left <= ClockSkew
      BY <1>0, <2>1 DEF Unchanged, VersionInv
    <3> QED
      BY <1>2, <2>0, <2>1, <3>1, <3>2
  <2>2. CASE Unchanged(p) /\ Write(p, {}) /\ Go(p, "idle")
    <3>1. left <= ClockSkew
      BY <1>0, <2>2 DEF Unchanged, VersionInv
    <3> QED
      BY <1>3, <2>0, <2>2, <3>1
  <2>3. CASE Go(p, "idle") /\ UNCHANGED lock
    BY <1>4, <2>0, <2>3 DEF lock
  <2>4. CASE Go(p, "idle") /\ read' = read \ {p} /\ UNCHANGED <<doc, left, mine, lateDel>>
    <3>1. read' \subseteq read
      BY <2>4
    <3> QED
      BY <1>4, <2>0, <2>4, <3>1
  <2> QED
    BY <1>7, <2>1, <2>2, <2>3, <2>4 DEF ReplaceItem
<1>8. ASSUME NEW p \in Holder, conditionalDelete(p), UNCHANGED <<ahead, inHeld, closed>>,
             closing' \subseteq closing, ~Valid(p)',
             Go(p, "idle") \/ UNCHANGED <<at, since>>
      PROVE  CosmosLeaseInv'
  <2>1. CosmosTypeOK'
    BY <1>0, <1>8, DeleteEffect, GoEffect DEF CosmosTypeOK
  <2>2. VersionInv'
    BY <1>0, <1>8, DeleteEffect DEF VersionInv
  <2>3. ASSUME NEW q \in Holder, Valid(q)' PROVE Intact(q)'
    <3>1. q # p
      BY <1>8, <2>3
    <3>2. at'[q] = at[q] /\ since'[q] = since[q]
      BY <1>0, <1>8, <3>1, GoEffect
    <3>3. mine = {q} => doc' = doc /\ left' = left /\ mine' = mine
      BY <1>0, <1>8, <3>1, DeleteEffect
    <3> QED
      BY ZenonT(60), <1>0, <1>8, <2>3, <3>2, <3>3, OthersIntact
  <2> QED
    BY <2>1, <2>2, <2>3 DEF CosmosLeaseInv, IntactInv
<1>9. ASSUME NEW p \in Holder, recordHeld(p) PROVE CosmosLeaseInv'
  <2>1. CASE p \in closed /\ conditionalDelete(p) /\ Go(p, "idle") /\ UNCHANGED inHeld
    <3>1. ~Valid(p)'
      BY <1>0, <2>1, GoWhere DEF Valid
    <3> QED
      BY <1>8, <1>9, <2>1, <3>1 DEF recordHeld
  <2>2. CASE /\ p \notin closed /\ inHeld' = inHeld \cup {p} /\ Go(p, "poll")
             /\ UNCHANGED lock
    <3>0. at[p] = "won" /\ UNCHANGED <<ahead, closed, closing>>
      BY <1>9 DEF recordHeld
    <3>1. CosmosTypeOK' /\ VersionInv'
      BY <1>0, <2>2, <3>0, GoEffect DEF CosmosTypeOK, VersionInv, lock
    <3>2. ASSUME NEW q \in Holder, Valid(q)' PROVE Intact(q)'
      <4>1. CASE q = p
        <5>1. since'[p] = since[p]
          BY <1>0, <2>2, GoWhere DEF Timed
        <5>2. Valid(p)
          BY ZenonT(60), <2>2, <3>0, <3>2, <4>1, <5>1 DEF Valid
        <5> QED
          BY ZenonT(60), <1>0, <2>2, <3>0, <4>1, <5>1, <5>2 DEF IntactInv, Intact, Clock, lock
      <4>2. CASE q # p
        <5>1. at'[q] = at[q] /\ since'[q] = since[q]
          BY ZenonT(60), <1>0, <2>2, <4>2, GoEffect
        <5>2. /\ doc' = doc /\ left' = left /\ mine' = mine
              /\ q \in inHeld' => q \in inHeld
          BY ONLY Z3T(30), SMTT(30), ZenonT(60), <2>2, <4>2 DEF lock
        <5> QED
          BY ZenonT(60), <1>0, <3>0, <3>2, <5>1, <5>2, OthersIntact
      <4> QED
        BY <4>1, <4>2
    <3> QED
      BY <3>1, <3>2 DEF CosmosLeaseInv, IntactInv
  <2> QED
    BY <1>9, <2>1, <2>2 DEF recordHeld
<1>10. ASSUME NEW p \in Holder, ReleaseLease(p) PROVE CosmosLeaseInv'
  <2>1. /\ Go(p, "release") \/ Go(p, "idle")
        /\ inHeld' = inHeld \ {p} /\ UNCHANGED <<lock, ahead, closed, closing>>
    BY ZenonT(60), <1>10 DEF ReleaseLease
  <2>2. CosmosTypeOK' /\ VersionInv'
    BY <1>0, <2>1, GoEffect DEF CosmosTypeOK, VersionInv, lock
  <2>3. IntactInv'
    BY <1>0, <2>1, ElsewhereIntact DEF lock
  <2> QED
    BY <2>2, <2>3 DEF CosmosLeaseInv
<1>11. ASSUME NEW p \in Holder, ReleaseDeletes(p) PROVE CosmosLeaseInv'
  <2>1. ~Valid(p)'
    BY <1>0, <1>11, GoWhere DEF ReleaseDeletes, Valid
  <2> QED
    BY <1>8, <1>11, <2>1 DEF ReleaseDeletes
<1>12. ASSUME NEW p \in Holder, CloseTakes(p) PROVE CosmosLeaseInv'
  <2>1. /\ closed' = closed \cup {p} /\ closing' = closing \cup (inHeld \cap {p})
        /\ inHeld' = inHeld \ {p} /\ UNCHANGED <<lock, ahead, at, since>>
    BY <1>12 DEF CloseTakes
  <2>2. CosmosTypeOK' /\ VersionInv'
    BY <1>0, <2>1 DEF CosmosTypeOK, VersionInv, lock
  <2>3. IntactInv'
    BY ZenonT(60), <1>0, <2>1, OthersIntact DEF IntactInv, lock
  <2> QED
    BY <2>2, <2>3 DEF CosmosLeaseInv
<1>13. ASSUME NEW p \in Holder, CloseDeletes(p) PROVE CosmosLeaseInv'
  <2>1. p \in closed /\ p \notin inHeld
    BY <1>0, <1>13 DEF CloseDeletes, VersionInv
  <2>2. ~Valid(p)' /\ closing' \subseteq closing
    BY <1>13, <2>1 DEF CloseDeletes, Valid
  <2> QED
    BY <1>8, <1>13, <2>2 DEF CloseDeletes
<1>14. ASSUME NEW p \in Holder, NewProcess(p) PROVE CosmosLeaseInv'
  <2>1. /\ Go(p, "idle") /\ UNCHANGED <<doc, left, lateDel, ahead>>
        /\ closed' = closed \ {p} /\ closing' = closing \ {p} /\ inHeld' = inHeld \ {p}
        /\ mine' = mine \ {p} /\ read' = read \ {p}
    BY <1>14 DEF NewProcess
  <2>2. CosmosTypeOK' /\ VersionInv'
    BY <1>0, <2>1, GoEffect DEF CosmosTypeOK, VersionInv
  <2>3. ASSUME NEW q \in Holder, Valid(q)' PROVE Intact(q)'
    <3>1. at'[p] = "idle"
      BY ZenonT(60), <1>0, <2>1, GoWhere
    <3>2. q # p
      BY ONLY Z3T(30), SMTT(30), ZenonT(60), <2>3, <3>1 DEF Valid
    <3>3. at'[q] = at[q] /\ since'[q] = since[q]
      BY ZenonT(60), <1>0, <2>1, <3>2, GoEffect
    <3>4. /\ q \in closed => q \in closed'
          /\ q \in inHeld' => q \in inHeld
          /\ mine = {q} => mine' = mine
      BY ONLY Z3T(30), SMTT(30), ZenonT(60), <2>1, <3>2
    <3> QED
      BY ZenonT(60), <1>0, <2>1, <2>3, <3>3, <3>4, OthersIntact
  <2> QED
    BY <2>2, <2>3 DEF CosmosLeaseInv, IntactInv
<1>15. CASE LateDeleteItem
  <2>1. UNCHANGED <<ahead, at, since, inHeld, closed, closing>> /\ mine = {}
    BY <1>0, <1>15 DEF LateDeleteItem, VersionInv
  <2>2. Erase \/ (lateDel' = FALSE /\ UNCHANGED <<doc, left, mine, read>>)
    BY <1>15 DEF LateDeleteItem
  <2>3. CosmosTypeOK' /\ VersionInv'
    <3>1. CASE Erase
      <4>1. left' \in Int
        BY <3>1 DEF Erase
      <4> QED
        BY ZenonT(60), <1>0, <2>1, <3>1, <4>1 DEF CosmosTypeOK, VersionInv, Erase
    <3>2. CASE lateDel' = FALSE /\ UNCHANGED <<doc, left, mine, read>>
      BY ZenonT(60), <1>0, <2>1, <3>2 DEF CosmosTypeOK, VersionInv
    <3> QED
      BY ZenonT(60), <2>2, <3>1, <3>2
  <2>4. \A q \in Holder : Valid(q)' => Valid(q)
    BY <2>1 DEF Valid
  <2>5. \A q \in Holder : ~Valid(q)
    BY <1>0, <2>1 DEF IntactInv, Intact
  <2> QED
    BY <2>3, <2>4, <2>5 DEF CosmosLeaseInv, IntactInv
<1>16. CASE TickCosmos
  <2>0. /\ left' = IF doc /\ left > 0 - MaxWait THEN left - 1 ELSE left
        /\ since' = [p \in Holder |-> IF InCall(p) \/ (at[p] \in Timed /\ since[p] < LockTime)
                                        THEN since[p] + 1 ELSE since[p]]
        /\ UNCHANGED <<doc, mine, read, lateDel, ahead, at, inHeld, closed, closing>>
    BY <1>16 DEF TickCosmos
  <2>1. CosmosTypeOK'
    BY <1>0, <2>0, CosmosNumbers DEF CosmosTypeOK
  <2>2. VersionInv'
    BY <1>0, <2>0, CosmosNumbers DEF CosmosTypeOK, VersionInv
  <2>3. ASSUME NEW q \in Holder, Valid(q)' PROVE Intact(q)'
    <3>1. since[q] \in Nat /\ left \in Int /\ ahead[q] \in 0 .. ClockSkew
      BY <1>0 DEF CosmosTypeOK
    <3>2. at[q] \in Timed /\ since'[q] < LockTime - ClockSkew
      BY <2>0, <2>3 DEF Valid, Timed
    <3>3. since'[q] = IF InCall(q) \/ since[q] < LockTime THEN since[q] + 1 ELSE since[q]
      BY <2>0, <3>2
    <3>4. since'[q] = since[q] + 1 /\ since[q] < LockTime - ClockSkew
      BY ONLY Z3T(30), SMTT(30), <3>1, <3>2, <3>3, CosmosNumbers
    <3>5. Valid(q)
      BY <2>0, <2>3, <3>4 DEF Valid
    <3>6. doc /\ mine = {q} /\ left = ahead[q] - since[q] + LockTime
      BY <1>0, <3>5 DEF IntactInv, Intact, Clock
    <3>7. left' = left - 1
      BY ONLY Z3T(30), ZenonT(20), SMTT(30), <2>0, <3>1, <3>4, <3>6, CosmosNumbers
    <3> QED
      BY <2>0, <3>1, <3>4, <3>6, <3>7, CosmosNumbers DEF Intact, Clock
  <2> QED
    BY <2>1, <2>2, <2>3 DEF CosmosLeaseInv, IntactInv
<1>17. CASE UNCHANGED cosmosVars
  <2>1. CosmosTypeOK' /\ VersionInv'
    BY <1>0, <1>17 DEF CosmosTypeOK, VersionInv, cosmosVars
  <2>2. IntactInv'
    BY ZenonT(60), <1>0, <1>17 DEF IntactInv, Valid, Intact, Clock, cosmosVars
  <2> QED
    BY <2>1, <2>2 DEF CosmosLeaseInv
<1> QED
  BY <1>1, <1>5, <1>6, <1>7, <1>9, <1>10, <1>11, <1>12, <1>13, <1>14, <1>15, <1>16, <1>17
  DEF CosmosNext, CosmosStep

\* A lease keeps its document until lease_duration less the skew has passed since
\* the clock was read, whatever other instances, closes and late deletes do.
THEOREM CosmosKeepsLock == CosmosSpec => []LockCoversPoll
<1>1. CosmosLeaseInv => LockCoversPoll
  BY DEF CosmosLeaseInv, IntactInv, LockCoversPoll, InTime, Valid, Intact
<1> QED
  BY <1>1, CosmosInitInv, CosmosNextInv, PTL DEF CosmosSpec

\* So no two polls that are within that time overlap.
THEOREM CosmosExcludes ==
  CosmosSpec => [](\A p, q \in Holder : InTime(p) /\ InTime(q) => p = q)
<1>1. LockCoversPoll => \A p, q \in Holder : InTime(p) /\ InTime(q) => p = q
  BY DEF LockCoversPoll
<1> QED
  BY <1>1, CosmosKeepsLock, PTL

-----------------------------------------------------------------------------
\* The coordinator's view of the state.
Having == {p \in Holder : HasLease(p)}
Losing == {p \in Holder : HasLease(p) /\ (p \notin mine \/ left <= ClockSkew)}

\* A step of the contract that the mapping of a step of the model must be.
AbstractStep ==
  \/ UNCHANGED <<Having, Losing>>
  \/ \E p \in Holder :
       \/ p \notin Having /\ Having \subseteq Losing /\ Having' = Having \cup {p} /\ Losing' \in {Losing, Losing \cup {p}}
       \/ p \in Having \ Losing /\ Losing' = Losing \cup {p} /\ Having' = Having
       \/ p \in Having /\ Having' = Having \ {p} /\ Losing' = Losing \ {p}

\* Nobody's place changes, and only leases that are lost already lose the document.
LEMMA StayStep ==
  ASSUME CosmosTypeOK, at' = at \/ \E p \in Holder : /\ ~HasLease(p) /\ ~HasLease(p)'
                                                    /\ \A q \in Holder : q # p => at'[q] = at[q],
         \A q \in Holder : HasLease(q) => ((q \notin mine' \/ left' <= ClockSkew)
                                             <=> (q \notin mine \/ left <= ClockSkew))
  PROVE  AbstractStep
<1>1. \A q \in Holder : HasLease(q)' <=> HasLease(q)
  BY DEF HasLease
<1>2. UNCHANGED <<Having, Losing>>
  BY <1>1 DEF Having, Losing
<1> QED
  BY <1>2 DEF AbstractStep

\* An instance gives its lease up, with or without the document.
LEMMA LeaveStep ==
  ASSUME CosmosTypeOK, NEW p \in Holder, HasLease(p), ~HasLease(p)',
         \A q \in Holder : q # p => at'[q] = at[q],
         \A q \in Holder : q # p /\ HasLease(q) => ((q \notin mine' \/ left' <= ClockSkew)
                                                      <=> (q \notin mine \/ left <= ClockSkew))
  PROVE  AbstractStep
<1>1. \A q \in Holder : HasLease(q)' <=> (HasLease(q) /\ q # p)
  BY DEF HasLease
<1>2. p \in Having /\ Having' = Having \ {p} /\ Losing' = Losing \ {p}
  BY <1>1 DEF Having, Losing
<1> QED
  BY <1>2 DEF AbstractStep

\* An instance wins: its version is the document's, and all others have lost theirs.
LEMMA WinStep ==
  ASSUME CosmosTypeOK, NEW p \in Holder, ~HasLease(p), HasLease(p)',
         \A q \in Holder : q # p => at'[q] = at[q],
         mine = {} \/ left <= ClockSkew, mine' = {p}
  PROVE  AbstractStep
<1>1. \A q \in Holder : HasLease(q)' <=> (HasLease(q) \/ q = p)
  BY DEF HasLease
<1>2. p \notin Having /\ Having \subseteq Losing /\ Having' = Having \cup {p}
  BY <1>1 DEF Having, Losing
<1>3. Losing' \in {Losing, Losing \cup {p}}
  BY <1>1 DEF Losing
<1> QED
  BY <1>2, <1>3 DEF AbstractStep

\* Time, or Close, takes the document from the one lease that had it.
LEMMA LoseStep ==
  ASSUME CosmosTypeOK, NEW p \in Holder, at' = at, mine' \subseteq mine, left' <= left \/ mine' = {},
         left \in Int, left' \in Int, mine \subseteq {p},
         \A q \in mine \ mine' : q = p
  PROVE  AbstractStep
<1>1. \A q \in Holder : HasLease(q)' <=> HasLease(q)
  BY DEF HasLease
<1>2. Having' = Having
  BY <1>1 DEF Having
<1>3. \A q \in Holder : q # p => (q \in Losing' <=> q \in Losing)
  BY <1>1 DEF Losing
<1>4. p \in Losing => p \in Losing'
  BY <1>1, CosmosNumbers DEF Losing
<1>5. Losing \subseteq Holder /\ Losing' \subseteq Holder /\ Having \subseteq Holder
  BY DEF Losing, Having
<1>6. CASE p \in Losing' /\ p \notin Losing
  <2>1. p \in Having
    BY <1>1, <1>6 DEF Losing, Having
  <2>2. Losing' = Losing \cup {p}
    BY <1>3, <1>5, <1>6
  <2> QED
    BY <1>2, <1>6, <2>1, <2>2 DEF AbstractStep
<1>7. CASE ~(p \in Losing' /\ p \notin Losing)
  <2>1. Losing' = Losing
    BY <1>3, <1>4, <1>5, <1>7
  <2> QED
    BY <1>2, <2>1 DEF AbstractStep
<1> QED
  BY <1>6, <1>7

LEMMA CosmosRefines ==
  ASSUME CosmosLeaseInv, [CosmosNext]_cosmosVars
  PROVE  AbstractStep
<1>0. CosmosTypeOK /\ VersionInv
  BY DEF CosmosLeaseInv
<1>1. ASSUME NEW p \in Holder, ~HasLease(p), UNCHANGED <<mine, left>>,
             Go(p, "create") \/ Go(p, "read") \/ Go(p, "replace") \/ Go(p, "idle")
      PROVE  AbstractStep
  <2>1. ~HasLease(p)' /\ \A q \in Holder : q # p => at'[q] = at[q]
    BY <1>0, <1>1, GoEffect, GoWhere DEF HasLease
  <2> QED
    BY <1>0, <1>1, <2>1, StayStep
<1>2. ASSUME NEW p \in Holder, ~HasLease(p), mine = {} \/ left <= ClockSkew,
             Write(p, {p}), Go(p, "won")
      PROVE  AbstractStep
  <2>1. HasLease(p)' /\ \A q \in Holder : q # p => at'[q] = at[q]
    BY <1>0, <1>2, GoEffect, GoWhere DEF HasLease
  <2> QED
    BY <1>0, <1>2, <2>1, WinStep DEF Write
<1>3. ASSUME NEW p \in Holder, ~HasLease(p), mine = {} \/ left <= ClockSkew,
             Write(p, {}), Go(p, "idle")
      PROVE  AbstractStep
  <2>1. ~HasLease(p)' /\ \A q \in Holder : q # p => at'[q] = at[q]
    BY <1>0, <1>3, GoEffect, GoWhere DEF HasLease
  <2>2. mine' = {}
    BY <1>3 DEF Write
  <2> QED
    BY <1>0, <1>3, <2>1, <2>2, StayStep
<1>4. ASSUME NEW p \in Holder, TryAcquire(p) \/ ReadItem(p) PROVE AbstractStep
  BY ZenonT(60), <1>1, <1>4 DEF TryAcquire, ReadItem, HasLease, lock
<1>5. ASSUME NEW p \in Holder, CreateItem(p) PROVE AbstractStep
  <2>1. ~HasLease(p)
    BY <1>5 DEF CreateItem, HasLease
  <2> QED
    BY ZenonT(60), <1>0, <1>1, <1>2, <1>3, <1>5, <2>1 DEF CreateItem, VersionInv, lock
<1>6. ASSUME NEW p \in Holder, ReplaceItem(p) PROVE AbstractStep
  <2>1. ~HasLease(p)
    BY <1>6 DEF ReplaceItem, HasLease
  <2>2. Unchanged(p) => left <= ClockSkew
    BY <1>0 DEF Unchanged, VersionInv
  <2> QED
    BY ZenonT(60), <1>1, <1>2, <1>3, <1>6, <2>1, <2>2 DEF ReplaceItem, lock
<1>7. ASSUME NEW p \in Holder, conditionalDelete(p)
      PROVE  \A q \in Holder : q # p => ((q \notin mine' \/ left' <= ClockSkew)
                                          <=> (q \notin mine \/ left <= ClockSkew))
  <2> SUFFICES ASSUME NEW q \in Holder, q # p
               PROVE  (q \notin mine' \/ left' <= ClockSkew)
                        <=> (q \notin mine \/ left <= ClockSkew)
    OBVIOUS
  <2>1. mine' = mine \ {p} /\ (p \notin mine => left' = left)
    BY <1>0, <1>7, DeleteEffect
  <2>2. p \in mine => q \notin mine
    BY <1>0 DEF VersionInv
  <2> QED
    BY <2>1, <2>2
<1>8. ASSUME NEW p \in Holder, recordHeld(p) PROVE AbstractStep
  <2>1. HasLease(p)
    BY <1>8 DEF recordHeld, HasLease
  <2>2. CASE Go(p, "poll") /\ UNCHANGED lock
    <3>1. \A q \in Holder : HasLease(q)' <=> HasLease(q)
      BY <1>0, <2>1, <2>2, GoEffect, GoWhere DEF HasLease
    <3>2. UNCHANGED <<Having, Losing>>
      BY <2>2, <3>1 DEF Having, Losing, lock
    <3> QED
      BY <3>2 DEF AbstractStep
  <2>3. CASE conditionalDelete(p) /\ Go(p, "idle")
    <3>1. ~HasLease(p)' /\ \A q \in Holder : q # p => at'[q] = at[q]
      BY <1>0, <2>3, GoEffect, GoWhere DEF HasLease
    <3> QED
      BY <1>0, <1>7, <2>1, <2>3, <3>1, LeaveStep
  <2> QED
    BY ZenonT(60), <1>8, <2>2, <2>3 DEF recordHeld
<1>9. ASSUME NEW p \in Holder, ReleaseLease(p) PROVE AbstractStep
  <2>1. HasLease(p) /\ (Go(p, "release") \/ Go(p, "idle")) /\ UNCHANGED <<mine, left>>
    BY <1>9 DEF ReleaseLease, HasLease, lock
  <2>2. ~HasLease(p)' /\ \A q \in Holder : q # p => at'[q] = at[q]
    BY <1>0, <2>1, GoEffect, GoWhere DEF HasLease
  <2> QED
    BY <1>0, <2>1, <2>2, LeaveStep
<1>10. ASSUME NEW p \in Holder, ReleaseDeletes(p) PROVE AbstractStep
  <2>1. ~HasLease(p) /\ ~HasLease(p)' /\ \A q \in Holder : q # p => at'[q] = at[q]
    BY <1>0, <1>10, GoEffect, GoWhere DEF ReleaseDeletes, HasLease
  <2>2. \A q \in Holder : HasLease(q) => ((q \notin mine' \/ left' <= ClockSkew)
                                            <=> (q \notin mine \/ left <= ClockSkew))
    <3>1. conditionalDelete(p)
      BY ZenonT(60), <1>10 DEF ReleaseDeletes
    <3> QED
      BY ZenonT(60), <1>7, <2>1, <3>1
  <2> QED
    BY <1>0, <2>1, <2>2, StayStep
<1>11. ASSUME NEW p \in Holder, CloseTakes(p) PROVE AbstractStep
  BY ZenonT(60), <1>0, <1>11, StayStep DEF CloseTakes, lock
<1>12. ASSUME NEW p \in Holder, CloseDeletes(p) PROVE AbstractStep
  <2>0. conditionalDelete(p) /\ at' = at
    BY <1>12 DEF CloseDeletes
  <2>1. mine' = mine \ {p} /\ (p \notin mine => left' = left) /\ left' \in Int /\ left \in Int
    BY <1>0, <2>0, DeleteEffect DEF CosmosTypeOK
  <2>2. CASE p \in mine
    <3>1. mine \subseteq {p} /\ mine' = {}
      BY <1>0, <2>1, <2>2 DEF VersionInv
    <3> QED
      BY <1>0, <2>0, <2>1, <3>1, LoseStep
  <2>3. CASE p \notin mine
    <3>1. mine' = mine /\ left' = left
      BY <2>1, <2>3
    <3> QED
      BY <1>0, <2>0, <3>1, StayStep
  <2> QED
    BY <2>2, <2>3
<1>13. ASSUME NEW p \in Holder, NewProcess(p) PROVE AbstractStep
  <2>1. Go(p, "idle") /\ left' = left /\ mine' = mine \ {p}
    BY <1>13 DEF NewProcess
  <2>2. ~HasLease(p)' /\ \A q \in Holder : q # p => at'[q] = at[q]
    BY <1>0, <2>1, GoEffect, GoWhere DEF HasLease
  <2>3. \A q \in Holder : q # p => ((q \notin mine' \/ left' <= ClockSkew)
                                      <=> (q \notin mine \/ left <= ClockSkew))
    BY <2>1
  <2>4. CASE HasLease(p)
    BY <1>0, <2>2, <2>3, <2>4, LeaveStep
  <2>5. CASE ~HasLease(p)
    BY <1>0, <2>2, <2>3, <2>5, StayStep
  <2> QED
    BY <2>4, <2>5
<1>14. CASE LateDeleteItem
  <2>1. at' = at /\ mine = {} /\ mine' = {}
    BY <1>0, <1>14 DEF LateDeleteItem, VersionInv, Erase
  <2> QED
    BY <1>0, <2>1, StayStep
<1>15. CASE TickCosmos
  <2>1. at' = at /\ mine' = mine /\ left' = IF doc /\ left > 0 - MaxWait THEN left - 1 ELSE left
    BY <1>15 DEF TickCosmos
  <2>2. left \in Int /\ left' \in Int /\ left' <= left
    BY <1>0, <2>1, CosmosNumbers DEF CosmosTypeOK
  <2>3. CASE mine = {}
    BY <1>0, <2>1, <2>3, StayStep
  <2>4. CASE mine # {}
    <3>1. PICK p \in Holder : mine \subseteq {p}
      BY <1>0, <2>4 DEF CosmosTypeOK, VersionInv
    <3> QED
      BY <1>0, <2>1, <2>2, <3>1, LoseStep
  <2> QED
    BY <2>3, <2>4
<1>16. CASE UNCHANGED cosmosVars
  BY <1>0, <1>16, StayStep DEF cosmosVars
<1> QED
  BY <1>4, <1>5, <1>6, <1>8, <1>9, <1>10, <1>11, <1>12, <1>13, <1>14, <1>15, <1>16
  DEF CosmosNext, CosmosStep

\* The Cosmos DB coordinator keeps the contract of every coordinator: an instance
\* is told it won only when every earlier winner that still polls has lost its
\* lease, for any lease_duration, skew and delay.
THEOREM CosmosKeepsContract == CosmosSpec => CosmosImplements
<1>1. CosmosInit => CosmosCoord!CInit
  BY DEF CosmosInit, CosmosCoord!CInit, HasLease
<1>2. CosmosLeaseInv /\ [CosmosNext]_cosmosVars => [CosmosCoord!CNext]_(CosmosCoord!cvars)
  <2> SUFFICES ASSUME CosmosLeaseInv, [CosmosNext]_cosmosVars
               PROVE  [CosmosCoord!CNext]_(CosmosCoord!cvars)
    OBVIOUS
  <2>1. AbstractStep
    BY CosmosRefines
  <2> QED
    BY ZenonT(60), <2>1 DEF AbstractStep, Having, Losing, CosmosCoord!CNext, CosmosCoord!cvars, CosmosCoord!Win,
       CosmosCoord!Lose, CosmosCoord!Leave
<1> QED
  BY <1>1, <1>2, CosmosInitInv, CosmosNextInv, PTL
  DEF CosmosSpec, CosmosImplements, CosmosCoord!CSpec
=============================================================================
