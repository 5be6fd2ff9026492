---------------------------- MODULE PgLockProofs ----------------------------
(***************************************************************************)
(* Proofs about the Postgres coordinator, for every set of instances,      *)
(* feeds and connections and any number of failures.                       *)
(***************************************************************************)
EXTENDS PgLock, TLAPS

\* The provers of a leaf that names none, in turn; the translation for Z3 may give up.
USE Z3T(30), ZenonT(20), SMTT(30), Z3T(31), SMTT(31)

Conns == [PgInst -> [Slot -> {"none", "idle", "used", "broken"}]]
Locks == [LockedFeed -> (PgInst \X Slot) \cup {FreeLock, Dying}]
Places == {"idle", "acquire", "query", "won", "poll", "unlock"}

\* Type invariant.
PgTypeOK ==
  /\ conns \in Conns /\ advisory \in Locks
  /\ task \in [PgInst -> [Task -> Places]]
  /\ using \in [PgInst -> [Task -> Slot \cup {NoSlot}]]
  /\ heldBy \in [PgInst -> SUBSET Slot]
  /\ pool \in [PgInst -> {"open", "closing", "closed"}]

Has(i, t) == task[i][t] \in {"query", "won", "poll", "unlock"}

\* A task is past Acquire exactly while it has a connection.
Uses == \A i \in PgInst, t \in Task : Has(i, t) <=> using[i][t] # NoSlot

\* As long as the pool is open its connections are not shared: Close takes those of
\* the polls away, and the pool may then open others in their place.
Unshared ==
  \A i \in PgInst : pool[i] = "open" =>
    \A t \in Task : Has(i, t) =>
      /\ conns[i][using[i][t]] \in {"used", "broken"}
      /\ \A u \in Task : Has(i, u) /\ using[i][u] = using[i][t] => u = t

\* A poll's connection is in c.held, as long as the pool is open.
Registered ==
  \A i \in PgInst, f \in LockedFeed :
    pool[i] = "open" /\ task[i][f] = "poll" => using[i][f] \in heldBy[i]

\* An advisory lock belongs to the task that asked for it, on a live connection.
OwnLock ==
  \A i \in PgInst, s \in Slot, f \in LockedFeed :
    pool[i] = "open" /\ advisory[f] = <<i, s>> =>
      /\ task[i][f] \in {"won", "poll", "unlock"} /\ using[i][f] = s
      /\ conns[i][s] = "used"

PgInv == PgTypeOK /\ Uses /\ Unshared /\ Registered /\ OwnLock

-----------------------------------------------------------------------------
\* The updates of the actions are well typed.
LEMMA GoesType ==
  ASSUME PgTypeOK, NEW i \in PgInst, NEW t \in Task, NEW w \in Places, Goes(i, t, w)
  PROVE  task' \in [PgInst -> [Task -> Places]]
BY DEF PgTypeOK, Goes

LEMMA LeavesType ==
  ASSUME PgTypeOK, NEW i \in PgInst, NEW t \in Task, Leaves(i, t)
  PROVE  /\ task' \in [PgInst -> [Task -> Places]]
         /\ using' \in [PgInst -> [Task -> Slot \cup {NoSlot}]]
BY DEF PgTypeOK, Leaves, Goes, Places

LEMMA SetConnType ==
  ASSUME PgTypeOK, NEW i \in PgInst, NEW s, NEW v \in {"none", "idle", "used", "broken"},
         SetConn(i, s, v)
  PROVE  conns' \in Conns
BY ZenonT(60) DEF PgTypeOK, SetConn, Conns

LEMMA ReleaseType ==
  ASSUME PgTypeOK, NEW i \in PgInst, NEW s, ReleaseConn(i, s)
  PROVE  conns' \in Conns
BY ZenonT(60) DEF PgTypeOK, ReleaseConn, SetConn, Conns

\* A session that loses its client loses its locks, the others keep theirs.
LEMMA OrphanType ==
  ASSUME PgTypeOK, NEW STATE gone
  PROVE  /\ Orphan(gone) \in Locks
         /\ \A f \in LockedFeed :
              Orphan(gone)[f] = IF advisory[f] \in gone THEN Dying ELSE advisory[f]
BY DEF PgTypeOK, Orphan, Locks

\* A task that gives its connection up keeps the invariant, if no lock of the
\* connection's session is left behind.
LEMMA LeaveInv ==
  ASSUME PgInv, NEW i \in PgInst, NEW t \in Task, Has(i, t), Leaves(i, t),
         NEW v \in {"none", "idle", "used", "broken"}, SetConn(i, Conn(i, t), v),
         advisory' \in Locks, UNCHANGED <<heldBy, pool>>,
         \A f \in LockedFeed, j \in PgInst, s \in Slot :
           advisory'[f] = <<j, s>> =>
             /\ advisory[f] = <<j, s>>
             /\ pool[i] = "open" => ~(j = i /\ s = Conn(i, t))
  PROVE  PgInv'
<1>0. PgTypeOK /\ Uses /\ Unshared /\ Registered /\ OwnLock
  BY DEF PgInv
<1>1. PgTypeOK'
  BY <1>0, LeavesType, SetConnType DEF PgTypeOK
<1>2. /\ \A j \in PgInst, u \in Task : ~(j = i /\ u = t) =>
           task'[j][u] = task[j][u] /\ using'[j][u] = using[j][u]
      /\ task'[i][t] = "idle" /\ using'[i][t] = NoSlot
  BY <1>0 DEF PgTypeOK, Leaves, Goes
<1>3. \A j \in PgInst, s \in Slot : ~(j = i /\ s = using[i][t]) => conns'[j][s] = conns[j][s]
  BY <1>0 DEF PgTypeOK, Conns, SetConn, Conn
<1>4. using[i][t] \in Slot /\ \A j \in PgInst, u \in Task : Has(j, u) => using[j][u] \in Slot
  BY <1>0 DEF PgTypeOK, Uses
<1>5. Uses'
  BY <1>0, <1>2 DEF Uses, Has
<1>6. Unshared'
  BY <1>0, <1>2, <1>3, <1>4 DEF Unshared, Has
<1>7. Registered'
  BY <1>0, <1>2 DEF Registered, Task
<1>8. OwnLock'
  <2> SUFFICES ASSUME NEW j \in PgInst, NEW s \in Slot, NEW f \in LockedFeed,
                      pool[j] = "open", advisory'[f] = <<j, s>>
               PROVE  /\ task'[j][f] \in {"won", "poll", "unlock"} /\ using'[j][f] = s
                      /\ conns'[j][s] = "used"
    BY DEF OwnLock
  <2>1. /\ task[j][f] \in {"won", "poll", "unlock"} /\ using[j][f] = s
        /\ conns[j][s] = "used" /\ ~(j = i /\ s = using[i][t])
    BY <1>0 DEF OwnLock, Conn
  <2> QED
    BY <1>2, <1>3, <2>1 DEF Task
<1> QED
  BY <1>1, <1>5, <1>6, <1>7, <1>8 DEF PgInv

\* No lock is left where a session's locks are orphaned.
LEMMA OrphanLeaves ==
  ASSUME PgTypeOK, NEW STATE gone, advisory' = Orphan(gone),
         NEW f \in LockedFeed, NEW j \in PgInst, NEW s \in Slot, advisory'[f] = <<j, s>>
  PROVE  advisory[f] = <<j, s>> /\ <<j, s>> \notin gone
<1>1. <<j, s>> # Dying
  BY PgAssumptions
<1>2. Orphan(gone)[f] = IF advisory[f] \in gone THEN Dying ELSE advisory[f]
  BY OrphanType
<1> QED
  BY <1>1, <1>2

\* Locks stay with their tasks where no task and none of their connections changes.
LEMMA OwnLockKept ==
  ASSUME OwnLock,
         \A j \in PgInst, s \in Slot, f \in LockedFeed :
           pool'[j] = "open" /\ advisory'[f] = <<j, s>> =>
             /\ pool[j] = "open" /\ advisory[f] = <<j, s>>
             /\ task'[j][f] = task[j][f] /\ using'[j][f] = using[j][f]
             /\ conns'[j][s] = conns[j][s]
  PROVE  OwnLock'
<1> SUFFICES ASSUME NEW j \in PgInst, NEW s \in Slot, NEW f \in LockedFeed,
                    pool'[j] = "open", advisory'[f] = <<j, s>>
             PROVE  /\ task'[j][f] \in {"won", "poll", "unlock"} /\ using'[j][f] = s
                    /\ conns'[j][s] = "used"
  BY DEF OwnLock
<1>1. /\ pool[j] = "open" /\ advisory[f] = <<j, s>>
      /\ task'[j][f] = task[j][f] /\ using'[j][f] = using[j][f] /\ conns'[j][s] = conns[j][s]
  OBVIOUS
<1>2. task[j][f] \in {"won", "poll", "unlock"} /\ using[j][f] = s /\ conns[j][s] = "used"
  BY <1>1 DEF OwnLock
<1> QED
  BY <1>1, <1>2

\* While the pool is open, only the task itself has locks on its connection.
LEMMA LocksOf ==
  ASSUME PgInv, NEW i \in PgInst, NEW t \in Task, Has(i, t), pool[i] = "open",
         NEW f \in LockedFeed, advisory[f] = <<i, Conn(i, t)>>
  PROVE  f = t /\ task[i][t] \in {"won", "poll", "unlock"}
<1>1. Conn(i, t) \in Slot
  BY DEF PgInv, PgTypeOK, Uses, Conn
<1>2. task[i][f] \in {"won", "poll", "unlock"} /\ using[i][f] = Conn(i, t)
  BY <1>1 DEF PgInv, OwnLock
<1> QED
  BY <1>2 DEF PgInv, Unshared, Has, Conn, Task

LEMMA WantsInv == ASSUME PgInv, NEW i \in PgInst, NEW t \in Task, Wants(i, t) PROVE PgInv'
<1>1. PgTypeOK'
  BY GoesType DEF PgInv, Wants, PgTypeOK, Places
<1>2. Uses' /\ Unshared'
  BY DEF PgInv, PgTypeOK, Uses, Unshared, Has, Wants, Goes
<1>3. Registered' /\ OwnLock'
  BY DEF PgInv, PgTypeOK, Registered, OwnLock, Task, Wants, Goes
<1> QED
  BY <1>1, <1>2, <1>3 DEF PgInv

LEMMA AcquireConnInv ==
  ASSUME PgInv, NEW i \in PgInst, NEW t \in Task, AcquireConn(i, t) PROVE PgInv'
<1>0. PgTypeOK /\ Uses /\ Unshared /\ Registered /\ OwnLock
  BY DEF PgInv
<1>1. PICK s \in Slot : /\ conns[i][s] \in {"none", "idle"} /\ SetConn(i, s, "used")
                        /\ using' = [using EXCEPT ![i][t] = s]
  BY ZenonT(60) DEF AcquireConn
<1>2. /\ task[i][t] = "acquire" /\ Goes(i, t, "query")
      /\ UNCHANGED <<advisory, heldBy, pool>>
  BY DEF AcquireConn
<1>3. PgTypeOK'
  <2>1. using' \in [PgInst -> [Task -> Slot \cup {NoSlot}]]
    BY <1>0, <1>1 DEF PgTypeOK
  <2> QED
    BY <1>0, <1>1, <1>2, <2>1, GoesType, SetConnType DEF PgTypeOK, Places
<1>4. /\ \A j \in PgInst, u \in Task : ~(j = i /\ u = t) =>
           task'[j][u] = task[j][u] /\ using'[j][u] = using[j][u]
      /\ task'[i][t] = "query" /\ using'[i][t] = s
  BY <1>0, <1>1, <1>2 DEF PgTypeOK, Goes
<1>5. /\ \A j \in PgInst, r \in Slot : ~(j = i /\ r = s) => conns'[j][r] = conns[j][r]
      /\ conns'[i][s] = "used"
  BY <1>0, <1>1 DEF PgTypeOK, Conns, SetConn
<1>6. \A j \in PgInst, u \in Task : Has(j, u) => using[j][u] \in Slot
  BY <1>0 DEF PgTypeOK, Uses
<1>7. Uses'
  BY <1>0, <1>4, PgAssumptions DEF Uses, Has
<1>8. pool[i] = "open" => \A u \in Task : Has(i, u) => using[i][u] # s
  BY <1>0, <1>1 DEF Unshared
<1>9. Unshared'
  BY <1>0, <1>2, <1>4, <1>5, <1>6, <1>8 DEF Unshared, Has
<1>10. Registered'
  BY <1>0, <1>2, <1>4 DEF Registered, Task
<1>11. OwnLock'
  BY <1>0, <1>1, <1>2, <1>4, <1>5 DEF OwnLock, Task
<1> QED
  BY <1>3, <1>7, <1>9, <1>10, <1>11 DEF PgInv

LEMMA AcquireFailsInv ==
  ASSUME PgInv, NEW i \in PgInst, NEW t \in Task, AcquireFails(i, t) PROVE PgInv'
<1>1. PgTypeOK'
  BY LeavesType DEF PgInv, AcquireFails, PgTypeOK
<1>2. Uses' /\ Unshared'
  BY DEF PgInv, PgTypeOK, Uses, Unshared, Has, AcquireFails, Leaves, Goes
<1>3. Registered' /\ OwnLock'
  BY DEF PgInv, PgTypeOK, Registered, OwnLock, Task, AcquireFails, Leaves, Goes
<1> QED
  BY <1>1, <1>2, <1>3 DEF PgInv

LEMMA QueryFailsInv ==
  ASSUME PgInv, NEW i \in PgInst, NEW t \in Task, QueryFails(i, t) PROVE PgInv'
<1>0. PgTypeOK
  BY DEF PgInv
<1>1. /\ Has(i, t) /\ SetConn(i, Conn(i, t), "none") /\ Leaves(i, t)
      /\ UNCHANGED <<heldBy, pool>>
  BY DEF QueryFails, Has
<1>2. \/ advisory' = Orphan({<<i, Conn(i, t)>>})
      \/ t \in LockedFeed /\ advisory' = [Orphan({<<i, Conn(i, t)>>}) EXCEPT ![t] = Dying]
  BY DEF QueryFails
<1>3. advisory' \in Locks
  BY <1>0, <1>2, OrphanType DEF Locks
<1>4. ASSUME NEW f \in LockedFeed, NEW j \in PgInst, NEW s \in Slot, advisory'[f] = <<j, s>>
      PROVE  advisory[f] = <<j, s>> /\ ~(j = i /\ s = Conn(i, t))
  <2>1. <<j, s>> # Dying
    BY PgAssumptions
  <2>2. Orphan({<<i, Conn(i, t)>>})[f] = <<j, s>>
    BY <1>0, <1>2, <1>4, <2>1, OrphanType DEF Locks
  <2>3. Orphan({<<i, Conn(i, t)>>})[f] =
          IF advisory[f] \in {<<i, Conn(i, t)>>} THEN Dying ELSE advisory[f]
    BY <1>0, OrphanType
  <2> QED
    BY ZenonT(60), <2>1, <2>2, <2>3
<1> QED
  BY <1>1, <1>3, <1>4, LeaveInv

LEMMA TryLockInv ==
  ASSUME PgInv, NEW i \in PgInst, NEW t \in LockedFeed, TryLock(i, t) PROVE PgInv'
<1>0. PgTypeOK /\ Uses /\ Unshared /\ Registered /\ OwnLock /\ t \in Task
  BY DEF PgInv, Task
<1>1. /\ task[i][t] = "query" /\ Has(i, t) /\ conns[i][Conn(i, t)] = "used"
      /\ UNCHANGED <<heldBy, pool>>
  BY DEF TryLock, Has
<1>2. Conn(i, t) \in Slot
  BY <1>0, <1>1 DEF PgTypeOK, Uses, Conn
<1>3. CASE /\ Goes(i, t, "won") /\ UNCHANGED <<conns, using>>
           /\ advisory' = [advisory EXCEPT ![t] = <<i, Conn(i, t)>>]
  <2>1. advisory' \in Locks
    BY <1>0, <1>2, <1>3 DEF PgTypeOK, Locks
  <2>2. PgTypeOK'
    BY <1>0, <1>1, <1>3, <2>1, GoesType DEF PgTypeOK, Places
  <2>3. /\ \A j \in PgInst, u \in Task : ~(j = i /\ u = t) => task'[j][u] = task[j][u]
        /\ task'[i][t] = "won"
    BY <1>0, <1>3 DEF PgTypeOK, Goes
  <2>4. Uses' /\ Unshared'
    BY <1>0, <1>1, <1>3, <2>3 DEF Uses, Unshared, Has
  <2>5. Registered'
    BY <1>0, <1>1, <1>3, <2>3 DEF Registered, Task
  <2>6. OwnLock'
    <3> SUFFICES ASSUME NEW j \in PgInst, NEW s \in Slot, NEW f \in LockedFeed,
                        pool[j] = "open", advisory'[f] = <<j, s>>
                 PROVE  /\ task'[j][f] \in {"won", "poll", "unlock"} /\ using[j][f] = s
                        /\ conns[j][s] = "used"
      BY <1>1, <1>3 DEF OwnLock
    <3>1. CASE f = t
      BY <1>0, <1>1, <1>3, <2>3, <3>1 DEF PgTypeOK, Locks, Conn
    <3>2. CASE f # t
      <4>1. advisory[f] = <<j, s>> /\ task'[j][f] = task[j][f]
        BY <1>0, <1>3, <2>3, <3>2 DEF PgTypeOK, Locks, Task
      <4> QED
        BY <1>0, <4>1 DEF OwnLock
    <3> QED
      BY <3>1, <3>2
  <2> QED
    BY <2>2, <2>4, <2>5, <2>6 DEF PgInv
<1>4. CASE ~Grantable(i, t) /\ GiveBack(i, t) /\ Leaves(i, t) /\ UNCHANGED advisory
  <2>1. SetConn(i, Conn(i, t), "idle")
    BY <1>1, <1>4 DEF GiveBack, ReleaseConn
  <2>2. ASSUME NEW f \in LockedFeed, advisory[f] = <<i, Conn(i, t)>>, pool[i] = "open"
        PROVE  FALSE
    BY <1>0, <1>1, <2>2, LocksOf
  <2>3. ASSUME NEW f \in LockedFeed, NEW j \in PgInst, NEW s \in Slot, advisory'[f] = <<j, s>>
        PROVE  advisory[f] = <<j, s>> /\ (pool[i] = "open" => ~(j = i /\ s = Conn(i, t)))
    BY <1>4, <2>2, <2>3
  <2> QED
    BY ZenonT(60), <1>0, <1>1, <1>4, <2>1, <2>3, LeaveInv DEF PgTypeOK
<1> QED
  BY <1>3, <1>4 DEF TryLock

LEMMA RegisterHeldInv ==
  ASSUME PgInv, NEW i \in PgInst, NEW t \in LockedFeed, RegisterHeld(i, t) PROVE PgInv'
<1>0. PgTypeOK /\ Uses /\ Unshared /\ Registered /\ OwnLock /\ t \in Task
  BY DEF PgInv, Task
<1>1. task[i][t] = "won" /\ Has(i, t) /\ UNCHANGED pool
  BY DEF RegisterHeld, Has
<1>2. Conn(i, t) \in Slot
  BY <1>0, <1>1 DEF PgTypeOK, Uses, Conn
<1>3. CASE /\ Goes(i, t, "poll") /\ UNCHANGED <<conns, using, advisory>>
           /\ heldBy' = [heldBy EXCEPT ![i] = @ \cup {Conn(i, t)}]
  <2>1. heldBy' \in [PgInst -> SUBSET Slot]
    BY <1>0, <1>2, <1>3 DEF PgTypeOK
  <2>2. PgTypeOK'
    BY <1>0, <1>1, <1>3, <2>1, GoesType DEF PgTypeOK, Places
  <2>3. /\ \A j \in PgInst, u \in Task : ~(j = i /\ u = t) => task'[j][u] = task[j][u]
        /\ task'[i][t] = "poll"
    BY <1>0, <1>3 DEF PgTypeOK, Goes
  <2>4. \A j \in PgInst : heldBy[j] \subseteq heldBy'[j]
    BY <1>0, <1>3 DEF PgTypeOK
  <2>5. using[i][t] \in heldBy'[i]
    BY <1>0, <1>3 DEF PgTypeOK, Conn
  <2>6. Uses' /\ Unshared'
    BY <1>0, <1>1, <1>3, <2>3 DEF Uses, Unshared, Has
  <2>7. Registered' /\ OwnLock'
    BY <1>0, <1>1, <1>3, <2>3, <2>4, <2>5 DEF Registered, OwnLock, Task
  <2> QED
    BY <2>2, <2>6, <2>7 DEF PgInv
<1>4. CASE /\ pool[i] # "open" /\ ReleaseConn(i, Conn(i, t)) /\ Leaves(i, t)
           /\ UNCHANGED <<heldBy, advisory>>
  <2>1. PICK v \in {"none", "idle", "used", "broken"} : SetConn(i, Conn(i, t), v)
    BY <1>4 DEF ReleaseConn
  <2> QED
    BY ZenonT(60), <1>0, <1>1, <1>4, <2>1, LeaveInv DEF PgTypeOK
<1> QED
  BY <1>3, <1>4 DEF RegisterHeld

LEMMA ReleaseFuncInv ==
  ASSUME PgInv, NEW i \in PgInst, NEW t \in LockedFeed, ReleaseFunc(i, t) PROVE PgInv'
<1>0. PgTypeOK /\ Uses /\ Unshared /\ Registered /\ OwnLock /\ t \in Task
  BY DEF PgInv, Task
<1>1. /\ task[i][t] = "poll" /\ UNCHANGED <<conns, advisory, pool>>
      /\ heldBy' = [heldBy EXCEPT ![i] = @ \ {Conn(i, t)}]
  BY DEF ReleaseFunc
<1>2. heldBy' \in [PgInst -> SUBSET Slot]
  BY <1>0, <1>1 DEF PgTypeOK
<1>3. \A j \in PgInst : \A s \in heldBy[j] : ~(j = i /\ s = using[i][t]) => s \in heldBy'[j]
  BY <1>0, <1>1 DEF PgTypeOK, Conn
<1>4. CASE Goes(i, t, "unlock") /\ UNCHANGED using
  <2>1. PgTypeOK'
    BY <1>0, <1>1, <1>2, <1>4, GoesType DEF PgTypeOK, Places
  <2>2. /\ \A j \in PgInst, u \in Task : ~(j = i /\ u = t) => task'[j][u] = task[j][u]
        /\ task'[i][t] = "unlock"
    BY <1>0, <1>4 DEF PgTypeOK, Goes
  <2>3. Uses' /\ Unshared'
    BY <1>0, <1>1, <1>4, <2>2 DEF Uses, Unshared, Has
  <2>4. pool[i] = "open" => \A f \in LockedFeed :
          task[i][f] = "poll" /\ f # t => using[i][f] # using[i][t]
    BY <1>0, <1>1 DEF Unshared, Has, Task
  <2>5. Registered'
    BY <1>0, <1>1, <1>3, <1>4, <2>2, <2>4 DEF Registered, Task
  <2>6. OwnLock'
    BY <1>0, <1>1, <1>4, <2>2 DEF OwnLock, Task
  <2> QED
    BY <2>1, <2>3, <2>5, <2>6 DEF PgInv
<1>5. CASE Conn(i, t) \notin heldBy[i] /\ Leaves(i, t)
  <2>0. pool[i] # "open"
    BY <1>0, <1>1, <1>5 DEF Registered, Conn
  <2>1. PgTypeOK'
    BY <1>0, <1>1, <1>2, <1>5, LeavesType DEF PgTypeOK
  <2>2. /\ \A j \in PgInst, u \in Task : ~(j = i /\ u = t) =>
             task'[j][u] = task[j][u] /\ using'[j][u] = using[j][u]
        /\ task'[i][t] = "idle" /\ using'[i][t] = NoSlot
    BY <1>0, <1>5 DEF PgTypeOK, Leaves, Goes
  <2>3. Uses' /\ Unshared'
    BY <1>0, <1>1, <2>0, <2>2 DEF Uses, Unshared, Has
  <2>4. Registered' /\ OwnLock'
    BY <1>0, <1>1, <1>3, <2>0, <2>2 DEF Registered, OwnLock, Task
  <2> QED
    BY <2>1, <2>3, <2>4 DEF PgInv
<1> QED
  BY <1>4, <1>5 DEF ReleaseFunc

LEMMA UnlockInv ==
  ASSUME PgInv, NEW i \in PgInst, NEW t \in LockedFeed, Unlock(i, t) PROVE PgInv'
<1>0. PgTypeOK /\ t \in Task
  BY DEF PgInv, Task
<1>1. /\ task[i][t] = "unlock" /\ Has(i, t) /\ SetConn(i, Conn(i, t), "idle") /\ Leaves(i, t)
      /\ advisory' = [advisory EXCEPT ![t] = IF @ = <<i, Conn(i, t)>> THEN FreeLock ELSE @]
      /\ UNCHANGED <<heldBy, pool>>
  BY DEF Unlock, Has, ReleaseConn
<1>2. advisory' \in Locks
  BY <1>0, <1>1 DEF PgTypeOK, Locks
<1>3. ASSUME NEW f \in LockedFeed, NEW j \in PgInst, NEW s \in Slot, advisory'[f] = <<j, s>>
      PROVE  advisory[f] = <<j, s>> /\ (pool[i] = "open" => ~(j = i /\ s = Conn(i, t)))
  <2>1. <<j, s>> # FreeLock
    BY PgAssumptions
  <2>2. advisory[f] = <<j, s>> /\ (f = t => <<j, s>> # <<i, Conn(i, t)>>)
    BY ZenonT(60), <1>0, <1>1, <1>3, <2>1 DEF PgTypeOK, Locks
  <2>3. ASSUME pool[i] = "open", j = i, s = Conn(i, t) PROVE FALSE
    BY <1>0, <1>1, <2>2, <2>3, LocksOf
  <2> QED
    BY <2>2, <2>3
<1> QED
  BY ZenonT(60), <1>0, <1>1, <1>2, <1>3, LeaveInv

LEMMA UnlockFailsInv ==
  ASSUME PgInv, NEW i \in PgInst, NEW t \in LockedFeed, UnlockFails(i, t) PROVE PgInv'
<1>0. PgTypeOK /\ t \in Task
  BY DEF PgInv, Task
<1>1. /\ Has(i, t) /\ SetConn(i, Conn(i, t), "none") /\ Leaves(i, t)
      /\ advisory' = Orphan({<<i, Conn(i, t)>>}) /\ UNCHANGED <<heldBy, pool>>
  BY DEF UnlockFails, Has, Hijack
<1>2. ASSUME NEW f \in LockedFeed, NEW j \in PgInst, NEW s \in Slot, advisory'[f] = <<j, s>>
      PROVE  advisory[f] = <<j, s>> /\ ~(j = i /\ s = Conn(i, t))
  <2>1. advisory[f] = <<j, s>> /\ <<j, s>> \notin {<<i, Conn(i, t)>>}
    BY ZenonT(60), <1>0, <1>1, <1>2, OrphanLeaves
  <2> QED
    BY <2>1
<1>3. advisory' \in Locks
  BY ZenonT(60), <1>0, <1>1, OrphanType
<1> QED
  BY ZenonT(60), <1>0, <1>1, <1>2, <1>3, LeaveInv

LEMMA BeatDoneInv == ASSUME PgInv, NEW i \in PgInst, BeatDone(i) PROVE PgInv'
<1>0. PgTypeOK /\ Beats \in Task /\ Beats \notin LockedFeed
  BY PgAssumptions DEF PgInv, Task
<1>1. /\ Has(i, Beats) /\ SetConn(i, Conn(i, Beats), "idle") /\ Leaves(i, Beats)
      /\ UNCHANGED <<advisory, heldBy, pool>>
  BY DEF BeatDone, Has, ReleaseConn
<1>2. ASSUME NEW f \in LockedFeed, advisory[f] = <<i, Conn(i, Beats)>>, pool[i] = "open"
      PROVE  FALSE
  BY <1>0, <1>1, <1>2, LocksOf
<1> QED
  BY ZenonT(60), <1>0, <1>1, <1>2, LeaveInv DEF PgTypeOK

\* Steps that orphan sessions of i and leave its tasks where they are.
LEMMA CloseHeldInv == ASSUME PgInv, NEW i \in PgInst, CloseHeld(i) PROVE PgInv'
<1>0. PgTypeOK /\ Uses /\ Unshared /\ Registered /\ OwnLock
  BY DEF PgInv
<1>1. /\ pool' = [pool EXCEPT ![i] = "closing"] /\ heldBy' = [heldBy EXCEPT ![i] = {}]
      /\ conns' = [conns EXCEPT ![i] = [s \in Slot |-> IF s \in heldBy[i] THEN "none" ELSE @[s]]]
      /\ advisory' = Orphan({i} \X heldBy[i]) /\ UNCHANGED <<task, using>>
  BY DEF CloseHeld
<1>2. conns' \in Conns /\ \A j \in PgInst : j # i => conns'[j] = conns[j]
  BY <1>0, <1>1 DEF PgTypeOK, Conns
<1>3. /\ pool' \in [PgInst -> {"open", "closing", "closed"}] /\ pool'[i] # "open"
      /\ \A j \in PgInst : j # i => pool'[j] = pool[j] /\ heldBy'[j] = heldBy[j]
      /\ heldBy' \in [PgInst -> SUBSET Slot]
  BY <1>0, <1>1 DEF PgTypeOK
<1>4. PgTypeOK'
  BY <1>0, <1>1, <1>2, <1>3, OrphanType DEF PgTypeOK
<1>5. Uses' /\ Unshared'
  BY <1>0, <1>1, <1>2, <1>3 DEF Uses, Unshared, Has
<1>6. Registered'
  BY <1>0, <1>1, <1>3 DEF Registered
<1>7. OwnLock'
  <2>1. ASSUME NEW f \in LockedFeed, NEW j \in PgInst, NEW s \in Slot,
               pool'[j] = "open", advisory'[f] = <<j, s>>
        PROVE  pool[j] = "open" /\ advisory[f] = <<j, s>> /\ conns'[j][s] = conns[j][s]
    <3>0. <<j, s>> # Dying
      BY PgAssumptions
    <3>1. advisory'[f] = IF advisory[f] \in {i} \X heldBy[i] THEN Dying ELSE advisory[f]
      BY <1>1 DEF Orphan
    <3>2. advisory[f] = <<j, s>>
      BY ZenonT(60), <2>1, <3>0, <3>1
    <3> QED
      BY <1>2, <1>3, <2>1, <3>2
  <2> QED
    BY ZenonT(60), <1>0, <1>1, <2>1, OwnLockKept
<1> QED
  BY <1>4, <1>5, <1>6, <1>7 DEF PgInv

LEMMA PoolCloseInv == ASSUME PgInv, NEW i \in PgInst, PoolClose(i) PROVE PgInv'
<1>0. PgTypeOK /\ Uses /\ Unshared /\ Registered /\ OwnLock
  BY DEF PgInv
<1>1. /\ pool' = [pool EXCEPT ![i] = "closed"]
      /\ conns' = [conns EXCEPT ![i] = [s \in Slot |-> "none"]]
      /\ advisory' = Orphan({i} \X Slot) /\ UNCHANGED <<task, using, heldBy>>
  BY DEF PoolClose
<1>2. conns' \in Conns /\ \A j \in PgInst : j # i => conns'[j] = conns[j]
  BY <1>0, <1>1 DEF PgTypeOK, Conns
<1>3. /\ pool' \in [PgInst -> {"open", "closing", "closed"}] /\ pool'[i] # "open"
      /\ \A j \in PgInst : j # i => pool'[j] = pool[j]
  BY <1>0, <1>1 DEF PgTypeOK
<1>4. PgTypeOK'
  BY <1>0, <1>1, <1>2, <1>3, OrphanType DEF PgTypeOK
<1>5. Uses' /\ Unshared'
  BY <1>0, <1>1, <1>2, <1>3 DEF Uses, Unshared, Has
<1>6. Registered'
  BY <1>0, <1>1, <1>3 DEF Registered
<1>7. OwnLock'
  <2>1. ASSUME NEW f \in LockedFeed, NEW j \in PgInst, NEW s \in Slot,
               pool'[j] = "open", advisory'[f] = <<j, s>>
        PROVE  pool[j] = "open" /\ advisory[f] = <<j, s>> /\ conns'[j][s] = conns[j][s]
    <3>0. PgTypeOK /\ advisory' = Orphan({i} \X Slot) /\ advisory'[f] = <<j, s>>
      BY ZenonT(60), <1>0, <1>1, <2>1
    <3>1. advisory[f] = <<j, s>>
      BY ZenonT(60), <3>0, OrphanLeaves
    <3> QED
      BY <1>2, <1>3, <2>1, <3>1
  <2> QED
    BY ZenonT(60), <1>0, <1>1, <2>1, OwnLockKept
<1> QED
  BY <1>4, <1>5, <1>6, <1>7 DEF PgInv

LEMMA ProcessStartsInv == ASSUME PgInv, NEW i \in PgInst, ProcessStarts(i) PROVE PgInv'
<1>0. PgTypeOK /\ Uses /\ Unshared /\ Registered /\ OwnLock
  BY DEF PgInv
<1>1. /\ pool' = [pool EXCEPT ![i] = "open"] /\ heldBy' = [heldBy EXCEPT ![i] = {}]
      /\ conns' = [conns EXCEPT ![i] = [s \in Slot |-> "none"]]
      /\ advisory' = Orphan({i} \X Slot)
      /\ task' = [task EXCEPT ![i] = [t \in Task |-> "idle"]]
      /\ using' = [using EXCEPT ![i] = [t \in Task |-> NoSlot]]
  BY DEF ProcessStarts
<1>2. conns' \in Conns /\ \A j \in PgInst : j # i => conns'[j] = conns[j]
  BY <1>0, <1>1 DEF PgTypeOK, Conns
<1>3. /\ pool' \in [PgInst -> {"open", "closing", "closed"}]
      /\ \A j \in PgInst : j # i => pool'[j] = pool[j] /\ heldBy'[j] = heldBy[j]
      /\ heldBy' \in [PgInst -> SUBSET Slot]
  BY <1>0, <1>1 DEF PgTypeOK
<1>4. /\ task' \in [PgInst -> [Task -> Places]] /\ \A t \in Task : task'[i][t] = "idle"
      /\ using' \in [PgInst -> [Task -> Slot \cup {NoSlot}]]
      /\ \A t \in Task : using'[i][t] = NoSlot
      /\ \A j \in PgInst : j # i => task'[j] = task[j] /\ using'[j] = using[j]
  BY <1>0, <1>1 DEF PgTypeOK, Places
<1>5. PgTypeOK'
  BY <1>0, <1>1, <1>2, <1>3, <1>4, OrphanType DEF PgTypeOK
<1>6. Uses' /\ Unshared'
  <2>1. Uses'
    BY <1>0, <1>4 DEF Uses, Has
  <2>2. Unshared'
    BY <1>0, <1>2, <1>3, <1>4 DEF Unshared, Has
  <2> QED
    BY <2>1, <2>2
<1>7. Registered'
  BY <1>0, <1>3, <1>4 DEF Registered, Task
<1>8. OwnLock'
  <2>1. ASSUME NEW f \in LockedFeed, NEW j \in PgInst, NEW s \in Slot, advisory'[f] = <<j, s>>
        PROVE  advisory[f] = <<j, s>> /\ j # i
    <3>1. advisory[f] = <<j, s>> /\ <<j, s>> \notin {i} \X Slot
      BY ZenonT(60), <1>0, <1>1, <2>1, OrphanLeaves
    <3> QED
      BY <3>1
  <2> QED
    BY <1>0, <1>2, <1>3, <1>4, <2>1, OwnLockKept
<1> QED
  BY <1>5, <1>6, <1>7, <1>8 DEF PgInv

LEMMA SessionBreaksInv ==
  ASSUME PgInv, NEW i \in PgInst, NEW s \in Slot, SessionBreaks(i, s) PROVE PgInv'
<1>0. PgTypeOK /\ Uses /\ Unshared /\ Registered /\ OwnLock
  BY DEF PgInv
<1>1. /\ conns[i][s] \in {"used", "idle"}
      /\ SetConn(i, s, IF conns[i][s] = "used" THEN "broken" ELSE "none")
      /\ advisory' = Orphan({<<i, s>>}) /\ UNCHANGED <<task, using, heldBy, pool>>
  BY DEF SessionBreaks
<1>2. /\ \A j \in PgInst, r \in Slot : ~(j = i /\ r = s) => conns'[j][r] = conns[j][r]
      /\ conns[i][s] = "used" => conns'[i][s] = "broken"
  BY <1>0, <1>1 DEF PgTypeOK, Conns, SetConn
<1>3. PgTypeOK'
  BY <1>0, <1>1, OrphanType, SetConnType DEF PgTypeOK
<1>4. \A j \in PgInst, u \in Task : Has(j, u) => using[j][u] \in Slot
  BY <1>0 DEF PgTypeOK, Uses
<1>5. Uses' /\ Unshared'
  <2>1. Uses'
    BY <1>0, <1>1 DEF Uses, Has
  <2>2. ASSUME NEW j \in PgInst, pool[j] = "open", NEW t \in Task, Has(j, t)
        PROVE  /\ conns'[j][using[j][t]] \in {"used", "broken"}
               /\ \A u \in Task : Has(j, u) /\ using[j][u] = using[j][t] => u = t
    <3>1. /\ conns[j][using[j][t]] \in {"used", "broken"} /\ using[j][t] \in Slot
          /\ \A u \in Task : Has(j, u) /\ using[j][u] = using[j][t] => u = t
      BY ZenonT(60), <1>0, <1>4, <2>2 DEF Unshared
    <3>2. CASE j = i /\ using[j][t] = s
      BY <1>1, <1>2, <3>1, <3>2
    <3>3. CASE ~(j = i /\ using[j][t] = s)
      BY <1>2, <3>1, <3>3
    <3> QED
      BY <3>2, <3>3
  <2>3. \A j \in PgInst, t \in Task : Has(j, t)' <=> Has(j, t)
    BY <1>1 DEF Has
  <2>4. Unshared'
    BY <1>1, <2>2, <2>3 DEF Unshared
  <2> QED
    BY <2>1, <2>4
<1>6. Registered'
  BY <1>0, <1>1 DEF Registered
<1>7. OwnLock'
  <2>1. ASSUME NEW f \in LockedFeed, NEW j \in PgInst, NEW r \in Slot, advisory'[f] = <<j, r>>
        PROVE  advisory[f] = <<j, r>> /\ conns'[j][r] = conns[j][r]
    <3>1. advisory[f] = <<j, r>> /\ <<j, r>> \notin {<<i, s>>}
      BY ZenonT(60), <1>0, <1>1, <2>1, OrphanLeaves
    <3> QED
      BY <1>2, <3>1
  <2> QED
    BY ZenonT(60), <1>0, <1>1, <2>1, OwnLockKept
<1> QED
  BY <1>3, <1>5, <1>6, <1>7 DEF PgInv

LEMMA SessionEndsInv == ASSUME PgInv, SessionEnds PROVE PgInv'
<1>0. PgTypeOK /\ Uses /\ Unshared /\ Registered /\ OwnLock
  BY DEF PgInv
<1>1. PICK f \in LockedFeed : advisory' = [advisory EXCEPT ![f] = FreeLock]
  BY ZenonT(60) DEF SessionEnds
<1>2. UNCHANGED <<conns, task, using, heldBy, pool>>
  BY DEF SessionEnds
<1>3. PgTypeOK'
  BY <1>0, <1>1, <1>2 DEF PgTypeOK, Locks
<1>4. Uses' /\ Unshared' /\ Registered'
  BY <1>0, <1>2 DEF Uses, Unshared, Registered, Has
<1>5. OwnLock'
  <2>1. ASSUME NEW g \in LockedFeed, NEW j \in PgInst, NEW s \in Slot, advisory'[g] = <<j, s>>
        PROVE  advisory[g] = <<j, s>>
    <3>1. <<j, s>> # FreeLock
      BY PgAssumptions
    <3> QED
      BY ZenonT(60), <1>0, <1>1, <2>1, <3>1 DEF PgTypeOK, Locks
  <2> QED
    BY <1>0, <1>2, <2>1 DEF OwnLock
<1> QED
  BY <1>3, <1>4, <1>5 DEF PgInv

LEMMA InitPgInv == PgInit => PgInv
<1> SUFFICES ASSUME PgInit PROVE PgInv
  OBVIOUS
<1>1. PgTypeOK
  BY DEF PgInit, PgTypeOK, Conns, Locks, Places
<1>2. Uses /\ Unshared /\ Registered
  BY DEF PgInit, Uses, Unshared, Registered, Has, Task
<1>3. OwnLock
  BY PgAssumptions DEF PgInit, OwnLock
<1> QED
  BY <1>1, <1>2, <1>3 DEF PgInv

LEMMA NextPgInv == PgInv /\ [PgNext]_pgVars => PgInv'
<1> SUFFICES ASSUME PgInv, [PgNext]_pgVars PROVE PgInv'
  OBVIOUS
<1>1. ASSUME NEW i \in PgInst, NEW t \in Task, TaskStep(i, t) \/ AcquireConn(i, t) PROVE PgInv'
  BY <1>1, WantsInv, AcquireConnInv, AcquireFailsInv, QueryFailsInv, TryLockInv, RegisterHeldInv,
     ReleaseFuncInv, UnlockInv, UnlockFailsInv, BeatDoneInv DEF TaskStep
<1>2. ASSUME NEW i \in PgInst, CloseHeld(i) \/ PoolClose(i) \/ ProcessStarts(i) PROVE PgInv'
  BY <1>2, CloseHeldInv, PoolCloseInv, ProcessStartsInv
<1>3. ASSUME NEW i \in PgInst, NEW s \in Slot, SessionBreaks(i, s) PROVE PgInv'
  BY <1>3, SessionBreaksInv
<1>4. CASE SessionEnds
  BY <1>4, SessionEndsInv
<1>5. CASE UNCHANGED pgVars
  BY <1>5 DEF PgInv, pgVars, PgTypeOK, Uses, Unshared, Registered, OwnLock, Has
<1> QED
  BY <1>1, <1>2, <1>3, <1>4, <1>5 DEF PgNext

\* The state of the coordinator is well typed, connections of an open pool are not
\* shared, and every lock belongs to the task that asked for it.
THEOREM PgInductive == PgSpec => []PgInv
BY InitPgInv, NextPgInv, PTL DEF PgSpec

\* No connection waits in an open pool with an advisory lock on it, for any number of
\* processes, feeds and connections, and whatever breaks.
THEOREM PgNoPooledLock == PgSpec => []NoPooledLock
<1>1. PgInv => NoPooledLock
  BY DEF PgInv, OwnLock, NoPooledLock
<1> QED
  BY <1>1, PgInductive, PTL

-----------------------------------------------------------------------------
CoordStep == [PgCoord!CNext]_(PgCoord!cvars)
Polling(i) == task[i][AFeed] \in {"won", "poll"}
Lost(i) == advisory[AFeed] # <<i, using[i][AFeed]>>

\* A step that leaves the polls of AFeed as they are, and gives nobody a lost lock
\* back, loses at most the one lock there is.
LEMMA LockMayGo ==
  ASSUME \A q \in PgInst : Polling(q)' <=> Polling(q),
         \A q \in PgInst : Polling(q) /\ Lost(q) => Lost(q)'
  PROVE  CoordStep
<1>1. CASE \E p \in PgInst : Polling(p) /\ ~Lost(p) /\ Lost(p)'
  <2>1. PICK p \in PgInst : Polling(p) /\ ~Lost(p) /\ Lost(p)'
    BY <1>1
  <2>2. \A q \in PgInst : q # p => Lost(q)
    BY <2>1 DEF Lost
  <2>3. PgCoord!Lose(p)
    BY <2>1, <2>2 DEF PgCoord!Lose, Polls, Polling, Lost
  <2> QED
    BY <2>3 DEF CoordStep, PgCoord!CNext
<1>2. CASE ~\E p \in PgInst : Polling(p) /\ ~Lost(p) /\ Lost(p)'
  BY <1>2 DEF CoordStep, PgCoord!cvars, Polls, Polling, Lost
<1> QED
  BY <1>1, <1>2

\* A step that ends the poll of p, if there is one, and changes no lock of another.
LEMMA PollEnds ==
  ASSUME NEW p \in PgInst, ~Polling(p)',
         \A q \in PgInst : q # p => (Polling(q)' <=> Polling(q)),
         \A q \in PgInst : q # p /\ Polling(q) => (Lost(q)' <=> Lost(q))
  PROVE  CoordStep
<1>1. CASE Polling(p)
  <2>1. PgCoord!Leave(p)
    BY <1>1 DEF PgCoord!Leave, Polls, Polling, Lost
  <2> QED
    BY <2>1 DEF CoordStep, PgCoord!CNext
<1>2. CASE ~Polling(p)
  BY <1>2 DEF CoordStep, PgCoord!cvars, Polls, Polling, Lost
<1> QED
  BY <1>1, <1>2

LEMMA AFeedIs == ASSUME LockedFeed # {} PROVE AFeed \in LockedFeed /\ AFeed \in Task
BY DEF AFeed, Task

\* A step that starts and ends no poll of AFeed and grants nobody its lock.
LEMMA NobodyWins ==
  ASSUME LockedFeed # {}, PgInv,
         \A q \in PgInst : Polling(q)' <=> Polling(q),
         \A q \in PgInst : Polling(q) => using'[q][AFeed] = using[q][AFeed],
         advisory'[AFeed] \in {advisory[AFeed], Dying, FreeLock}
  PROVE  CoordStep
<1>1. ASSUME NEW q \in PgInst, Polling(q), Lost(q) PROVE Lost(q)'
  <2>1. using[q][AFeed] \in Slot
    BY <1>1, AFeedIs DEF PgInv, PgTypeOK, Uses, Has, Polling
  <2>2. <<q, using[q][AFeed]>> \notin {Dying, FreeLock}
    BY <2>1, PgAssumptions
  <2>3. advisory[AFeed] # <<q, using[q][AFeed]>>
    BY <1>1 DEF Lost
  <2>4. advisory'[AFeed] # <<q, using'[q][AFeed]>>
    BY <1>1, <2>2, <2>3
  <2> QED
    BY <2>4 DEF Lost
<1> QED
  BY <1>1, LockMayGo

\* A step touches the task of t alone.
Alone(i, t) ==
  \A j \in PgInst, u \in Task : ~(j = i /\ u = t) =>
    task'[j][u] = task[j][u] /\ using'[j][u] = using[j][u]

\* A step of one task, if it is of another feed or neither finds nor leaves it polling.
LEMMA TaskCoord ==
  ASSUME LockedFeed # {}, PgInv, NEW i \in PgInst, NEW t \in Task, Alone(i, t),
         \/ t # AFeed
         \/ task[i][t] \notin {"won", "poll"} /\ task'[i][t] \notin {"won", "poll"},
         advisory'[AFeed] \in {advisory[AFeed], Dying, FreeLock}
  PROVE  CoordStep
<1>1. \A q \in PgInst : Polling(q)' <=> Polling(q)
  BY AFeedIs DEF Polling, Alone
<1>2. \A q \in PgInst : Polling(q) => using'[q][AFeed] = using[q][AFeed]
  BY AFeedIs DEF Polling, Alone
<1> QED
  BY <1>1, <1>2, NobodyWins

\* What a task's update leaves alone.
LEMMA GoesTo ==
  ASSUME PgTypeOK, NEW i \in PgInst, NEW t \in Task, NEW w, Goes(i, t, w)
  PROVE  task'[i][t] = w
BY DEF PgTypeOK, Goes

LEMMA GoesOnly ==
  ASSUME PgTypeOK, NEW i \in PgInst, NEW t \in Task, NEW w, Goes(i, t, w), UNCHANGED using
  PROVE  Alone(i, t)
BY DEF PgTypeOK, Goes, Alone

LEMMA LeavesOnly ==
  ASSUME PgTypeOK, NEW i \in PgInst, NEW t \in Task, Leaves(i, t)
  PROVE  Alone(i, t) /\ task'[i][t] = "idle"
BY DEF PgTypeOK, Leaves, Goes, Alone

\* A task that gives up where it does not poll.
LEMMA LeavesCoord ==
  ASSUME LockedFeed # {}, PgInv, NEW i \in PgInst, NEW t \in Task, Leaves(i, t),
         task[i][t] \in {"acquire", "query", "unlock"} \/ t # AFeed,
         advisory'[AFeed] \in {advisory[AFeed], Dying, FreeLock}
  PROVE  CoordStep
<1>1. Alone(i, t) /\ task'[i][t] = "idle"
  BY ZenonT(60), LeavesOnly DEF PgInv
<1>2. \/ t # AFeed
      \/ task[i][t] \notin {"won", "poll"} /\ task'[i][t] \notin {"won", "poll"}
  BY ONLY Z3T(30), SMTT(30), <1>1, task[i][t] \in {"acquire", "query", "unlock"} \/ t # AFeed
<1> QED
  BY ZenonT(60), <1>1, <1>2, TaskCoord

\* The steps of a task on the way to its connection, and of the heartbeat.
LEMMA IdleCoord ==
  ASSUME LockedFeed # {}, PgInv, NEW i \in PgInst, NEW t \in Task,
         Wants(i, t) \/ AcquireConn(i, t) \/ AcquireFails(i, t) \/ (t = Beats /\ BeatDone(i))
  PROVE  CoordStep
<1>0. PgTypeOK /\ Beats # AFeed
  BY AFeedIs, PgAssumptions DEF PgInv
<1>1. CASE Wants(i, t)
  <2>1. task[i][t] = "idle" /\ Goes(i, t, "acquire") /\ advisory' = advisory /\ UNCHANGED using
    BY <1>1 DEF Wants
  <2>2. Alone(i, t) /\ task'[i][t] = "acquire"
    BY ZenonT(60), <1>0, <2>1, GoesOnly, GoesTo
  <2> QED
    BY <2>1, <2>2, TaskCoord
<1>2. CASE AcquireConn(i, t)
  <2>1. task[i][t] = "acquire" /\ Goes(i, t, "query") /\ advisory' = advisory
    BY <1>2 DEF AcquireConn
  <2>2. task'[i][t] = "query"
    BY ZenonT(60), <1>0, <2>1, GoesTo
  <2>3. Alone(i, t)
    BY <1>0, <1>2 DEF PgTypeOK, AcquireConn, Goes, Alone
  <2> QED
    BY <2>1, <2>2, <2>3, TaskCoord
<1>3. CASE AcquireFails(i, t)
  <2>1. task[i][t] = "acquire" /\ Leaves(i, t) /\ advisory' = advisory
    BY <1>3 DEF AcquireFails
  <2> QED
    BY <2>1, LeavesCoord
<1>4. CASE t = Beats /\ BeatDone(i)
  <2>1. Leaves(i, t) /\ advisory' = advisory
    BY <1>4 DEF BeatDone
  <2> QED
    BY <1>0, <1>4, <2>1, LeavesCoord
<1> QED
  BY <1>1, <1>2, <1>3, <1>4

LEMMA QueryFailsCoord ==
  ASSUME LockedFeed # {}, PgInv, NEW i \in PgInst, NEW t \in Task, QueryFails(i, t)
  PROVE  CoordStep
<1>1. task[i][t] = "query" /\ Leaves(i, t)
  BY DEF QueryFails
<1>2. \/ advisory' = Orphan({<<i, Conn(i, t)>>})
      \/ advisory' = [Orphan({<<i, Conn(i, t)>>}) EXCEPT ![t] = Dying]
  BY DEF QueryFails
<1>3. advisory'[AFeed] \in {advisory[AFeed], Dying}
  BY ZenonT(60), <1>2, AFeedIs DEF Orphan
<1> QED
  BY <1>1, <1>3, LeavesCoord

\* pg_try_advisory_lock: the winner excludes every poller that still has its lock.
LEMMA TryLockCoord ==
  ASSUME LockedFeed # {}, PgInv, NEW i \in PgInst, NEW t \in LockedFeed, TryLock(i, t)
  PROVE  CoordStep
<1>0. PgTypeOK /\ t \in Task /\ task[i][t] = "query"
  BY DEF PgInv, TryLock, Task
<1>1. CASE /\ Grantable(i, t) /\ Goes(i, t, "won") /\ UNCHANGED <<conns, using>>
           /\ advisory' = [advisory EXCEPT ![t] = <<i, Conn(i, t)>>]
  <2>1. CASE t = AFeed
    <3>0. Alone(i, t) /\ task'[i][t] = "won"
      BY ZenonT(60), <1>0, <1>1, GoesOnly, GoesTo
    <3>1. ~Polling(i) /\ Polling(i)' /\ \A q \in PgInst : q # i => (Polling(q)' <=> Polling(q))
      BY <1>0, <2>1, <3>0 DEF Polling, Alone
    <3>2. \A q \in PgInst : advisory[AFeed] = <<q, using[q][AFeed]>> /\ Polling(q) => q = i
      <4>1. ASSUME NEW q \in PgInst, advisory[AFeed] = <<q, using[q][AFeed]>>, Polling(q)
            PROVE  q = i
        <5>1. using[q][AFeed] \in Slot
          BY <1>0, <2>1, <4>1 DEF PgInv, PgTypeOK, Uses, Has, Polling
        <5>2. <<q, using[q][AFeed]>> # FreeLock
          BY <5>1, PgAssumptions
        <5>3. advisory[AFeed] = <<i, Conn(i, t)>>
          BY <1>1, <2>1, <4>1, <5>2 DEF Grantable
        <5> QED
          BY <4>1, <5>3
      <4> QED
        BY <4>1
    <3>3. \A q \in PgInst : Polling(q) => Lost(q)
      BY <3>1, <3>2 DEF Lost
    <3>4. advisory'[AFeed] = <<i, using[i][AFeed]>>
      BY <1>0, <1>1, <2>1 DEF PgTypeOK, Locks, Conn
    <3>5. ~Lost(i)' /\ \A q \in PgInst : q # i => Lost(q)'
      BY <1>1, <3>4 DEF Lost
    <3>6. PgCoord!Win(i)
      BY <3>1, <3>3, <3>5 DEF PgCoord!Win, Polls, Polling, Lost
    <3> QED
      BY <3>6 DEF CoordStep, PgCoord!CNext
  <2>2. CASE t # AFeed
    <3>1. advisory'[AFeed] = advisory[AFeed]
      BY <1>0, <1>1, <2>2, AFeedIs DEF PgTypeOK, Locks
    <3>2. Alone(i, t)
      BY ZenonT(60), <1>0, <1>1, GoesOnly
    <3> QED
      BY <1>0, <2>2, <3>1, <3>2, TaskCoord
  <2> QED
    BY <2>1, <2>2
<1>2. CASE Leaves(i, t) /\ UNCHANGED advisory
  BY <1>0, <1>2, LeavesCoord
<1> QED
  BY <1>1, <1>2 DEF TryLock

LEMMA PollCoord ==
  ASSUME LockedFeed # {}, PgInv, NEW i \in PgInst, NEW t \in LockedFeed,
         RegisterHeld(i, t) \/ ReleaseFunc(i, t)
  PROVE  CoordStep
<1>0. PgTypeOK /\ t \in Task /\ advisory' = advisory
  BY DEF PgInv, Task, RegisterHeld, ReleaseFunc
<1>1. Alone(i, t)
  <2>1. \/ Leaves(i, t)
        \/ Goes(i, t, "poll") /\ UNCHANGED using
        \/ Goes(i, t, "unlock") /\ UNCHANGED using
    BY DEF RegisterHeld, ReleaseFunc
  <2>2. CASE Leaves(i, t)
    BY <1>0, <2>2, LeavesOnly
  <2>3. CASE Goes(i, t, "poll") /\ UNCHANGED using
    BY <1>0, <2>3, GoesOnly
  <2>4. CASE Goes(i, t, "unlock") /\ UNCHANGED using
    BY <1>0, <2>4, GoesOnly
  <2> QED
    BY <2>1, <2>2, <2>3, <2>4
<1>2. CASE t # AFeed
  BY <1>0, <1>1, <1>2, TaskCoord
<1>3. CASE t = AFeed
  <2>1. \A q \in PgInst : q # i => (Polling(q)' <=> Polling(q)) /\ (Lost(q)' <=> Lost(q))
    BY <1>0, <1>1, <1>3 DEF Polling, Lost, Alone
  <2>2. CASE RegisterHeld(i, t) /\ task'[i][t] = "poll" /\ UNCHANGED using
    <3>1. Polling(i) /\ Polling(i)' /\ (Lost(i)' <=> Lost(i))
      BY <1>0, <1>3, <2>2 DEF RegisterHeld, Polling, Lost
    <3>2. \A q \in PgInst : Polling(q)' <=> Polling(q)
      BY <2>1, <3>1
    <3>3. \A q \in PgInst : Polling(q) /\ Lost(q) => Lost(q)'
      BY <2>1, <3>1
    <3> QED
      BY <3>2, <3>3, LockMayGo
  <2>3. CASE task'[i][t] \in {"idle", "unlock"}
    <3>1. ~Polling(i)'
      BY <1>3, <2>3 DEF Polling
    <3>2. \A q \in PgInst : q # i => (Polling(q)' <=> Polling(q))
      BY <2>1
    <3>3. \A q \in PgInst : q # i /\ Polling(q) => (Lost(q)' <=> Lost(q))
      BY <2>1
    <3> QED
      BY <3>1, <3>2, <3>3, PollEnds
  <2>4. \/ task'[i][t] \in {"idle", "unlock"}
        \/ RegisterHeld(i, t) /\ task'[i][t] = "poll" /\ UNCHANGED using
    <3>1. Leaves(i, t) => task'[i][t] = "idle"
      BY <1>0, LeavesOnly
    <3>2. Goes(i, t, "unlock") => task'[i][t] = "unlock"
      BY <1>0, GoesTo
    <3>3. Goes(i, t, "poll") => task'[i][t] = "poll"
      BY <1>0, GoesTo
    <3> QED
      BY <3>1, <3>2, <3>3 DEF RegisterHeld, ReleaseFunc
  <2> QED
    BY <2>2, <2>3, <2>4
<1> QED
  BY <1>2, <1>3

LEMMA UnlockCoord ==
  ASSUME LockedFeed # {}, PgInv, NEW i \in PgInst, NEW t \in LockedFeed,
         Unlock(i, t) \/ UnlockFails(i, t)
  PROVE  CoordStep
<1>1. PgTypeOK /\ t \in Task /\ task[i][t] = "unlock" /\ Leaves(i, t)
  BY DEF PgInv, Task, Unlock, UnlockFails
<1>2. advisory'[AFeed] \in {advisory[AFeed], Dying, FreeLock}
  BY <1>1, AFeedIs DEF PgTypeOK, Locks, Unlock, UnlockFails, Hijack, Orphan
<1> QED
  BY <1>1, <1>2, LeavesCoord

\* The steps that leave every task where it is.
LEMMA SessionCoord ==
  ASSUME LockedFeed # {}, PgInv, UNCHANGED <<task, using>>,
         \/ \E i \in PgInst : CloseHeld(i) \/ PoolClose(i) \/ \E s \in Slot : SessionBreaks(i, s)
         \/ SessionEnds
         \/ UNCHANGED advisory
  PROVE  CoordStep
<1>1. \A q \in PgInst : (Polling(q)' <=> Polling(q)) /\ using'[q][AFeed] = using[q][AFeed]
  BY DEF Polling
<1>2. advisory'[AFeed] \in {advisory[AFeed], Dying, FreeLock}
  BY AFeedIs DEF PgInv, PgTypeOK, Locks, CloseHeld, PoolClose, SessionBreaks, SessionEnds, Orphan
<1> QED
  BY <1>1, <1>2, NobodyWins

LEMMA StartCoord ==
  ASSUME LockedFeed # {}, PgInv, NEW i \in PgInst, ProcessStarts(i)
  PROVE  CoordStep
<1>1. /\ task'[i][AFeed] = "idle"
      /\ \A q \in PgInst : q # i => task'[q] = task[q] /\ using'[q] = using[q]
  BY AFeedIs DEF PgInv, PgTypeOK, ProcessStarts
<1>2. advisory'[AFeed] = IF advisory[AFeed] \in {i} \X Slot THEN Dying ELSE advisory[AFeed]
  BY AFeedIs DEF ProcessStarts, Orphan
<1>3. ~Polling(i)' /\ \A q \in PgInst : q # i => (Polling(q)' <=> Polling(q))
  BY <1>1 DEF Polling
<1>4. ASSUME NEW q \in PgInst, q # i, Polling(q) PROVE Lost(q)' <=> Lost(q)
  <2>1. using[q][AFeed] \in Slot
    BY <1>4, AFeedIs DEF PgInv, PgTypeOK, Uses, Has, Polling
  <2>2. <<q, using[q][AFeed]>> # Dying /\ <<q, using[q][AFeed]>> \notin {i} \X Slot
    BY <1>4, <2>1, PgAssumptions
  <2>3. using'[q][AFeed] = using[q][AFeed]
    BY <1>1, <1>4
  <2> QED
    BY <1>2, <2>2, <2>3 DEF Lost
<1> QED
  BY <1>3, <1>4, PollEnds

LEMMA NextCoord ==
  ASSUME LockedFeed # {}, PgInv, [PgNext]_pgVars
  PROVE  CoordStep
<1>1. ASSUME NEW i \in PgInst, NEW t \in Task, TaskStep(i, t) \/ AcquireConn(i, t)
      PROVE  CoordStep
  <2>1. CASE Wants(i, t) \/ AcquireConn(i, t) \/ AcquireFails(i, t) \/ (t = Beats /\ BeatDone(i))
    BY <2>1, IdleCoord
  <2>2. CASE QueryFails(i, t)
    BY <2>2, QueryFailsCoord
  <2>3. CASE t \in LockedFeed /\ TryLock(i, t)
    BY <2>3, TryLockCoord
  <2>4. CASE t \in LockedFeed /\ (RegisterHeld(i, t) \/ ReleaseFunc(i, t))
    BY <2>4, PollCoord
  <2>5. CASE t \in LockedFeed /\ (Unlock(i, t) \/ UnlockFails(i, t))
    BY <2>5, UnlockCoord
  <2> QED
    BY <1>1, <2>1, <2>2, <2>3, <2>4, <2>5 DEF TaskStep
<1>2. ASSUME NEW i \in PgInst, ProcessStarts(i) PROVE CoordStep
  BY <1>2, StartCoord
<1>3. ASSUME NEW i \in PgInst, CloseHeld(i) \/ PoolClose(i) PROVE CoordStep
  <2>1. UNCHANGED <<task, using>>
    BY <1>3 DEF CloseHeld, PoolClose
  <2> QED
    BY <1>3, <2>1, SessionCoord
<1>4. ASSUME NEW i \in PgInst, NEW s \in Slot, SessionBreaks(i, s) PROVE CoordStep
  <2>1. UNCHANGED <<task, using>>
    BY <1>4 DEF SessionBreaks
  <2> QED
    BY <1>4, <2>1, SessionCoord
<1>5. CASE SessionEnds
  <2>1. UNCHANGED <<task, using>>
    BY <1>5 DEF SessionEnds
  <2> QED
    BY <1>5, <2>1, SessionCoord
<1>6. CASE UNCHANGED pgVars
  BY <1>6, SessionCoord DEF pgVars
<1> QED
  BY <1>1, <1>2, <1>3, <1>4, <1>5, <1>6 DEF PgNext

\* The pooled connections implement the coordinator's contract, for any number of
\* processes, connections and feeds: a lock is won only when every poll that is
\* under way has lost its own, and it is lost one poller at a time.
THEOREM PgImplementsCoordinator ==
  ASSUME LockedFeed # {} PROVE PgSpec => PgImplements
<1>1. PgInit => PgCoord!CInit
  BY AFeedIs DEF PgInit, PgCoord!CInit, Polls
<1>2. PgInit => PgInv
  BY InitPgInv
<1>3. PgInv /\ [PgNext]_pgVars => PgInv'
  BY NextPgInv
<1>4. PgInv /\ [PgNext]_pgVars => CoordStep
  BY NextCoord
<1> QED
  BY <1>1, <1>2, <1>3, <1>4, PTL DEF PgSpec, CoordStep, PgImplements, PgCoord!CSpec
=============================================================================
