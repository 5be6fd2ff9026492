----------------------------- MODULE StoreProofs -----------------------------
(***************************************************************************)
(* Proofs about what is kept and shown, for all values of the constants:   *)
(* the state stores, the sliding window of the feed sink, the HTTP server  *)
(* that publishes it, and the comparison of a document with the store.     *)
(***************************************************************************)
EXTENDS StateStore, FeedWindow, FeedServer, Detector, FiniteSetTheorems, TLAPS

\* The provers of a leaf that names none, in turn; the translation for Z3 may give up.
USE Z3T(30), ZenonT(20), SMTT(30), Z3T(31), SMTT(31)

-----------------------------------------------------------------------------
(* StateStore *)

\* A row as written: without an expiry, or with one that is at most half a second
\* before item_ttl ends.
TimesOK(age, life) ==
  /\ age \in Nat /\ life \in Int
  /\ ttl = 0 \/ db \in Sql => life = Forever
  /\ ttl > 0 /\ db \notin Sql => life >= 0 /\ (age + life >= ttl - 1 \/ age >= AgeCap)

ItemOK ==
  /\ Found(lastItem) => /\ lastItem = [hash |-> lastItem.hash, age |-> lastItem.age, life |-> lastItem.life]
                        /\ TimesOK(lastItem.age, lastItem.life)
  /\ itemRow = lastItem \/ (itemRow = NoItem /\ (Found(lastItem) => ~InTTL(lastItem.age)))

\* last_modified as the driver reads it.
ReadTime(v) == CASE db = "postgres" -> PgTime(v) [] db = "sqlite" -> SqliteTime(v)
                 [] db = "dynamodb" -> DynamoTime(v) [] db = "cosmosdb" -> CosmosTime(v)
MetaRow(e, lm, age, life) == [etag |-> e, lm |-> lm, age |-> age, life |-> life, set |-> TRUE]

MetaOK ==
  /\ lastMeta.set \in BOOLEAN
  /\ lastMeta.set => /\ lastMeta = MetaRow(lastMeta.etag, lastMeta.lm, lastMeta.age, lastMeta.life)
                     /\ TimesOK(lastMeta.age, lastMeta.life)
  /\ ~lastMeta.set => lastMeta = NoMeta
  /\ \/ metaRow = NoMeta /\ (lastMeta.set => ~InTTL(lastMeta.age))
     \/ /\ lastMeta.set /\ ReadTime(metaRow.lm) = lastMeta.lm
        /\ metaRow = MetaRow(lastMeta.etag, metaRow.lm, lastMeta.age, lastMeta.life)

\* The cutoff of a sweep was item_ttl ago when it was computed.
StoreInv ==
  /\ db \in {"postgres", "sqlite", "dynamodb", "cosmosdb"}
  /\ ttl \in Nat /\ ttl + 4 < AgeCap /\ half \in 0 .. 1
  /\ sweepAge \in Int /\ (sweepAge # NoSweep => sweepAge >= ttl /\ ttl > 0)
  /\ ItemOK /\ MetaOK

\* The markers are no ages and no times.
LEMMA Markers == NoSweep \in Int /\ NoSweep < 0 /\ Forever \in Int /\ Forever < 0
BY DEF NoSweep, Forever

LEMMA NoTextIs == NoText \notin {"null", "absent", "t"}
BY ZenonT(60) DEF NoText

LEMMA StoreInitInv == StoreInit => StoreInv
<1> SUFFICES ASSUME StoreInit PROVE StoreInv
  OBVIOUS
<1>1. /\ db \in {"postgres", "sqlite", "dynamodb", "cosmosdb"}
      /\ ttl \in Nat /\ ttl + 4 < AgeCap /\ half \in 0 .. 1
      /\ sweepAge \in Int /\ sweepAge = NoSweep
  BY StoreAssumptions, Markers DEF StoreInit, StoreAssumptions
<1>2. ItemOK
  BY DEF StoreInit, ItemOK, NoItem, Found
<1>3. MetaOK
  BY DEF StoreInit, MetaOK, NoMeta
<1> QED
  BY <1>1, <1>2, <1>3 DEF StoreInv

\* Halving loses at most one half second.
LEMMA Halves ==
  ASSUME NEW n \in Int
  PROVE  n \div 2 \in Int /\ (2 * (n \div 2) = n \/ 2 * (n \div 2) = n - 1)
OBVIOUS

\* What the drivers compute for the expiry of a row.
LEMMA DynamoTimes ==
  ASSUME StoreInv, ttl > 0, db \notin Sql, NEW lag \in Nat
  PROVE  TimesOK(lag, FromNow(WholeSecond(lag - ttl)))
<1>1. ttl \in Nat /\ half \in 0 .. 1
  BY DEF StoreInv
<1> DEFINE w == (half - (lag - ttl)) \div 2
<1>2. half - (lag - ttl) \in Int
  BY ONLY Z3T(30), ZenonT(20), SMTT(30), <1>1, lag \in Nat
<1>3. w \in Int /\ (2 * w = half - (lag - ttl) \/ 2 * w = half - (lag - ttl) - 1)
  BY ONLY Z3T(30), ZenonT(20), SMTT(30), <1>2, Halves
<1> HIDE DEF w
<1>4. 2 * w - half >= ttl - lag - 1 /\ 2 * w - half \in Int
  BY ONLY Z3T(30), ZenonT(20), SMTT(30), <1>1, <1>3, lag \in Nat
<1>5. PICK f \in Nat : f = FromNow(w) /\ f >= ttl - lag - 1
  BY ONLY Z3T(30), ZenonT(20), SMTT(30), <1>1, <1>4, lag \in Nat DEF FromNow
<1>6. lag + f >= ttl - 1
  BY ONLY Z3T(30), ZenonT(20), SMTT(30), <1>1, <1>5, lag \in Nat
<1>7. WholeSecond(lag - ttl) = w
  BY DEF WholeSecond, w
<1> QED
  BY <1>1, <1>5, <1>6, <1>7 DEF TimesOK

LEMMA CosmosTimes ==
  ASSUME StoreInv, db \notin Sql, NEW lag \in Nat
  PROVE  TimesOK(lag, CosmosLife)
<1>1. ttl \in Nat
  BY DEF StoreInv
<1>2. CASE ttl = 0
  BY <1>2, Markers DEF TimesOK, CosmosLife
<1>3. CASE ttl > 0
  <2> DEFINE w == ttl \div 2
  <2>1. w \in Int /\ (2 * w = ttl \/ 2 * w = ttl - 1)
    BY <1>1, Halves
  <2>2. CosmosLife = IF ttl < 2 THEN 2 ELSE 2 * w
    BY <1>1, <1>3 DEF CosmosLife
  <2> HIDE DEF w
  <2>3. CosmosLife \in Nat /\ CosmosLife >= ttl - 1
    BY ONLY Z3T(30), ZenonT(20), SMTT(30), <1>1, <1>3, <2>1, <2>2
  <2>4. lag + CosmosLife >= ttl - 1
    BY ONLY Z3T(30), ZenonT(20), SMTT(30), <1>1, <2>3, lag \in Nat
  <2> QED
    BY <1>1, <1>3, <2>3, <2>4 DEF TimesOK
<1> QED
  BY <1>1, <1>2, <1>3

\* A row that is older than the cutoff of a prune is past item_ttl.
LEMMA PrunedIsOld ==
  ASSUME StoreInv, ttl > 0, NEW age \in Int, NEW cut \in Int, cut >= ttl, Prunes(age, cut)
  PROVE  ~InTTL(age)
<1>1. ttl \in Nat /\ half \in 0 .. 1 /\ db \in Sql
  BY DEF StoreInv, Prunes
<1>2. age > cut
  <2>1. CASE db = "sqlite"
    <3> DEFINE a == (half - age) \div 2
               c == (half - cut) \div 2
    <3>1. a < c
      BY <2>1 DEF Prunes, Before, SqliteBefore, WholeSecond
    <3>2. half - age \in Int /\ half - cut \in Int
      BY ONLY Z3T(30), ZenonT(20), SMTT(30), <1>1, age \in Int, cut \in Int
    <3>3. /\ a \in Int /\ (2 * a = half - age \/ 2 * a = half - age - 1)
          /\ c \in Int /\ (2 * c = half - cut \/ 2 * c = half - cut - 1)
      BY ONLY Z3T(30), ZenonT(20), SMTT(30), <3>2, Halves
    <3> HIDE DEF a, c
    <3> QED
      BY ONLY Z3T(30), ZenonT(20), SMTT(30), <1>1, <3>1, <3>3, age \in Int, cut \in Int
  <2>2. CASE db # "sqlite"
    BY <2>2 DEF Prunes, Before, PgBefore
  <2> QED
    BY <2>1, <2>2
<1> QED
  BY <1>1, <1>2 DEF InTTL

\* So is one that its service may delete.
LEMMA ExpiredIsOld ==
  ASSUME StoreInv, NEW age, TimesOK(age, 0)
  PROVE  ~InTTL(age)
<1>1. ttl > 0 /\ db \notin Sql /\ ttl \in Nat /\ age \in Nat /\ AgeCap \in Nat /\ ttl + 4 < AgeCap
  BY StoreAssumptions, Markers DEF TimesOK, StoreInv, StoreAssumptions
<1>2. age >= ttl - 1
  BY <1>1 DEF TimesOK
<1> QED
  BY <1>1, <1>2 DEF InTTL

-----------------------------------------------------------------------------
\* The steps that touch neither the rows of a kind nor their history.
LEMMA ItemUntouched ==
  ASSUME ItemOK, UNCHANGED <<db, ttl, itemRow, lastItem>>
  PROVE  ItemOK'
BY DEF ItemOK, TimesOK, InTTL, Found, NoItem

LEMMA MetaUntouched ==
  ASSUME MetaOK, UNCHANGED <<db, ttl, metaRow, lastMeta>>
  PROVE  MetaOK'
BY ZenonT(60) DEF MetaOK, TimesOK, InTTL, ReadTime, PgTime, SqliteTime, DynamoTime, CosmosTime, MetaRow, NoMeta

\* A row that is pruned or expired was past item_ttl.
LEMMA ItemPruned ==
  ASSUME StoreInv, ttl > 0, NEW cut \in Int, cut >= ttl,
         itemRow' = PruneItems(cut), UNCHANGED <<db, ttl, lastItem>>
  PROVE  ItemOK'
<1>1. CASE itemRow' = itemRow
  BY <1>1, ItemUntouched DEF StoreInv
<1>2. CASE Found(itemRow) /\ Prunes(itemRow.age, cut) /\ itemRow' = NoItem
  <2>1. itemRow = lastItem /\ Found(lastItem)
    BY <1>2 DEF StoreInv, ItemOK, Found, NoItem
  <2>2. lastItem.age \in Nat
    BY <2>1 DEF StoreInv, ItemOK, TimesOK
  <2>3. ~InTTL(lastItem.age)
    BY <1>2, <2>1, <2>2, PrunedIsOld
  <2> QED
    BY <1>2, <2>3 DEF StoreInv, ItemOK, TimesOK, InTTL, Found
<1> QED
  BY <1>1, <1>2 DEF PruneItems

LEMMA MetaPruned ==
  ASSUME StoreInv, ttl > 0, NEW cut \in Int, cut >= ttl,
         metaRow' = PruneFeedMeta(cut), UNCHANGED <<db, ttl, lastMeta>>
  PROVE  MetaOK'
<1>1. CASE metaRow' = metaRow
  BY <1>1, MetaUntouched DEF StoreInv
<1>2. CASE metaRow.set /\ Prunes(metaRow.age, cut) /\ metaRow' = NoMeta
  <2>1. lastMeta.set /\ metaRow.age = lastMeta.age
    BY <1>2 DEF StoreInv, MetaOK, MetaRow, NoMeta
  <2>2. lastMeta.age \in Nat
    BY <2>1 DEF StoreInv, MetaOK, TimesOK
  <2>3. ~InTTL(lastMeta.age)
    BY <1>2, <2>1, <2>2, PrunedIsOld
  <2> QED
    BY <1>2, <2>3 DEF StoreInv, MetaOK, TimesOK, InTTL, MetaRow, NoMeta
<1> QED
  BY <1>1, <1>2 DEF PruneFeedMeta

\* A write.
LEMMA ItemWritten ==
  ASSUME StoreInv, NEW h \in HashVal, NEW lag \in 0 .. MaxLag, UpsertItem(h, lag)
  PROVE  ItemOK'
<1> USE StoreAssumptions DEF StoreAssumptions
<1>1. /\ db \in {"postgres", "sqlite", "dynamodb", "cosmosdb"} /\ ttl \in Nat /\ lag \in Nat
      /\ h # NoText
  BY DEF StoreInv
<1>2. PICK life : itemRow' = Item(h, lag, life) /\ TimesOK(lag, life)
  <2>1. CASE db \in Sql
    <3>1. itemRow' = Item(h, lag, Forever)
      BY <1>1, <2>1 DEF UpsertItem, Sql, PgItem, SqliteItem
    <3>2. TimesOK(lag, Forever)
      BY <1>1, <2>1, Markers DEF TimesOK
    <3> QED
      BY <3>1, <3>2
  <2>2. CASE db = "dynamodb"
    <3>1. itemRow' = DynamoItem(h, lag) /\ db \notin Sql
      BY <2>2 DEF UpsertItem, Sql
    <3>2. CASE ttl > 0
      BY <1>1, <3>1, <3>2, DynamoTimes DEF DynamoItem
    <3>3. CASE ttl = 0
      <4>1. TimesOK(lag, Forever)
        BY <1>1, <3>3, Markers DEF TimesOK
      <4> QED
        BY <3>1, <3>3, <4>1 DEF DynamoItem
    <3> QED
      BY <1>1, <3>2, <3>3
  <2>3. CASE db = "cosmosdb"
    <3>1. itemRow' = CosmosItem(h, lag) /\ db \notin Sql
      BY <2>3 DEF UpsertItem, Sql
    <3> QED
      BY <1>1, <3>1, CosmosTimes DEF CosmosItem
  <2> QED
    BY <1>1, <2>1, <2>2, <2>3 DEF Sql
<1>3. lastItem' = itemRow' /\ UNCHANGED <<db, ttl>>
  BY DEF UpsertItem
<1> QED
  BY <1>1, <1>2, <1>3 DEF ItemOK, Item, Found, TimesOK

LEMMA MetaWritten ==
  ASSUME StoreInv, NEW e \in EtagVal, NEW lm \in {NoText, "t"}, UpsertFeedMeta(e, lm)
  PROVE  MetaOK'
<1>1. db \in {"postgres", "sqlite", "dynamodb", "cosmosdb"} /\ ttl \in Nat /\ 0 \in Nat
  BY DEF StoreInv
<1>2. PICK life, v : metaRow' = MetaRow(e, v, 0, life) /\ TimesOK(0, life) /\ ReadTime(v) = lm
  <2>1. CASE db \in Sql
    <3>1. metaRow' = Meta(e, IF lm = NoText THEN "null" ELSE lm, Forever)
      BY <1>1, <2>1 DEF UpsertFeedMeta, Sql, PgMeta, SqliteMeta
    <3>2. TimesOK(0, Forever)
      BY <1>1, <2>1, Markers DEF TimesOK
    <3>3. ReadTime(IF lm = NoText THEN "null" ELSE lm) = lm
      BY <2>1 DEF Sql, ReadTime, PgTime, SqliteTime
    <3> QED
      BY ZenonT(60), <3>1, <3>2, <3>3 DEF Meta, MetaRow
  <2>2. CASE db = "dynamodb"
    <3> DEFINE life == IF ttl > 0 THEN FromNow(WholeSecond(0 - ttl)) ELSE Forever
    <3>1. metaRow' = Meta(e, IF lm = NoText THEN "absent" ELSE lm, life) /\ db \notin Sql
      BY <2>2 DEF UpsertFeedMeta, Sql, DynamoMeta
    <3>2. TimesOK(0, life)
      <4>1. CASE ttl > 0
        BY <1>1, <3>1, <4>1, DynamoTimes
      <4>2. CASE ttl = 0
        BY <1>1, <4>2, Markers DEF TimesOK
      <4> QED
        BY <1>1, <4>1, <4>2
    <3>3. ReadTime(IF lm = NoText THEN "absent" ELSE lm) = lm
      BY <2>2 DEF ReadTime, DynamoTime
    <3> HIDE DEF life
    <3> QED
      BY ZenonT(60), <3>1, <3>2, <3>3 DEF Meta, MetaRow
  <2>3. CASE db = "cosmosdb"
    <3>1. metaRow' = Meta(e, lm, CosmosLife) /\ db \notin Sql
      BY <2>3 DEF UpsertFeedMeta, Sql, CosmosMeta
    <3>2. TimesOK(0, CosmosLife) /\ ReadTime(lm) = lm
      BY <1>1, <2>3, <3>1, CosmosTimes DEF ReadTime, CosmosTime
    <3> QED
      BY ZenonT(60), <3>1, <3>2 DEF Meta, MetaRow
  <2> QED
    BY <1>1, <2>1, <2>2, <2>3 DEF Sql
<1>3. lastMeta' = MetaRow(e, lm, 0, life) /\ UNCHANGED <<db, ttl>>
  <2>1. lastMeta' = [metaRow' EXCEPT !.lm = lm] /\ UNCHANGED <<db, ttl>>
    BY DEF UpsertFeedMeta
  <2> QED
    BY ZenonT(60), <1>2, <2>1 DEF MetaRow
<1>4. TimesOK(0, life)' /\ ReadTime(v)' = lm
  BY ZenonT(60), <1>2, <1>3 DEF TimesOK, ReadTime, PgTime, SqliteTime, DynamoTime, CosmosTime
<1> QED
  BY <1>2, <1>3, <1>4 DEF MetaOK, MetaRow

-----------------------------------------------------------------------------
\* Half a second on, a row is still within its times, and one that was past item_ttl
\* still is.
LEMMA TimesPass ==
  ASSUME StoreInv, NEW age, NEW life, TimesOK(age, life), UNCHANGED <<db, ttl>>
  PROVE  /\ TimesOK(Older(age), Shorter(life))'
         /\ ~InTTL(age) => ~InTTL(Older(age))'
<1>1. /\ age \in Nat /\ life \in Int /\ AgeCap \in Nat /\ ttl \in Nat
      /\ (life = Forever => Shorter(life) = Forever)
      /\ Older(age) \in Nat /\ Older(age) >= age /\ Shorter(life) \in Int
  BY StoreAssumptions, Markers DEF TimesOK, StoreInv, StoreAssumptions, Older, Shorter
<1>2. ~InTTL(age) => ~InTTL(Older(age))'
  BY <1>1 DEF InTTL
<1>3. ttl = 0 \/ db \in Sql => Shorter(life) = Forever
  BY <1>1 DEF TimesOK
<1>4. ttl > 0 /\ db \notin Sql =>
        Shorter(life) >= 0 /\ (Older(age) + Shorter(life) >= ttl - 1 \/ Older(age) >= AgeCap)
  <2> SUFFICES ASSUME ttl > 0, db \notin Sql
               PROVE  Shorter(life) >= 0 /\ (Older(age) + Shorter(life) >= ttl - 1 \/ Older(age) >= AgeCap)
    OBVIOUS
  <2>1. life >= 0 /\ (age + life >= ttl - 1 \/ age >= AgeCap)
    BY DEF TimesOK
  <2> QED
    BY ONLY Z3T(30), ZenonT(20), SMTT(30), <1>1, <2>1 DEF Older, Shorter
<1> QED
  BY <1>1, <1>2, <1>3, <1>4 DEF TimesOK

LEMMA HalfSecondKeeps ==
  ASSUME StoreInv, HalfSecond
  PROVE  StoreInv'
<1>0. /\ UNCHANGED <<db, ttl>> /\ half' = 1 - half
      /\ itemRow' = Aged(itemRow, Found(itemRow)) /\ lastItem' = Aged(lastItem, Found(lastItem))
      /\ metaRow' = Aged(metaRow, metaRow.set) /\ lastMeta' = Aged(lastMeta, lastMeta.set)
      /\ sweepAge' = IF sweepAge = NoSweep THEN NoSweep ELSE Older(sweepAge)
  BY DEF HalfSecond
<1>1. ItemOK'
  <2>1. CASE ~Found(lastItem)
    <3>1. lastItem' = lastItem
      BY <1>0, <2>1 DEF Aged
    <3>2. ~Found(itemRow) /\ itemRow' = itemRow
      BY <1>0, <2>1 DEF StoreInv, ItemOK, Found, NoItem, Aged
    <3> QED
      BY <1>0, <3>1, <3>2, ItemUntouched DEF StoreInv
  <2>2. CASE Found(lastItem)
    <3>1. PICK h, age, life : /\ lastItem = [hash |-> h, age |-> age, life |-> life]
                              /\ TimesOK(age, life) /\ h # NoText
      BY <2>2 DEF StoreInv, ItemOK, Found
    <3>2. lastItem' = [hash |-> h, age |-> Older(age), life |-> Shorter(life)]
      BY ZenonT(60), <1>0, <2>2, <3>1 DEF Aged
    <3>3. TimesOK(Older(age), Shorter(life))' /\ (~InTTL(age) => ~InTTL(Older(age))')
      BY <1>0, <3>1, TimesPass
    <3>4. CASE itemRow = lastItem
      <4>1. itemRow' = lastItem'
        BY <1>0, <3>4
      <4> QED
        BY <3>1, <3>2, <3>3, <4>1 DEF ItemOK, Found
    <3>5. CASE itemRow = NoItem /\ ~InTTL(lastItem.age)
      <4>1. itemRow' = NoItem
        BY <1>0, <3>5 DEF Aged, Found, NoItem
      <4>2. ~InTTL(age)
        BY <3>1, <3>5
      <4> QED
        BY <3>1, <3>2, <3>3, <4>1, <4>2 DEF ItemOK, Found
    <3> QED
      BY <2>2, <3>4, <3>5 DEF StoreInv, ItemOK
  <2> QED
    BY <2>1, <2>2
<1>2. MetaOK'
  <2>1. CASE ~lastMeta.set
    <3>1. lastMeta' = lastMeta
      BY <1>0, <2>1 DEF Aged
    <3>2. ~metaRow.set /\ metaRow' = metaRow
      BY <1>0, <2>1 DEF StoreInv, MetaOK, NoMeta, Aged
    <3> QED
      BY <1>0, <3>1, <3>2, MetaUntouched DEF StoreInv
  <2>2. CASE lastMeta.set
    <3>1. PICK e, lm, age, life : lastMeta = MetaRow(e, lm, age, life) /\ TimesOK(age, life)
      BY <2>2 DEF StoreInv, MetaOK
    <3>2. lastMeta' = MetaRow(e, lm, Older(age), Shorter(life))
      BY ZenonT(60), <1>0, <2>2, <3>1 DEF Aged, MetaRow
    <3>3. TimesOK(Older(age), Shorter(life))' /\ (~InTTL(age) => ~InTTL(Older(age))')
      BY <1>0, <3>1, TimesPass
    <3>4. CASE metaRow = NoMeta /\ ~InTTL(lastMeta.age)
      <4>1. metaRow' = NoMeta
        BY <1>0, <3>4 DEF Aged, NoMeta
      <4>2. ~InTTL(age)
        BY <3>1, <3>4 DEF MetaRow
      <4> QED
        BY <3>2, <3>3, <4>1, <4>2 DEF MetaOK, MetaRow
    <3>5. CASE /\ ReadTime(metaRow.lm) = lastMeta.lm
               /\ metaRow = MetaRow(lastMeta.etag, metaRow.lm, lastMeta.age, lastMeta.life)
      <4>1. PICK v : metaRow = MetaRow(e, v, age, life) /\ ReadTime(v) = lm
        BY <3>1, <3>5 DEF MetaRow
      <4>2. metaRow' = MetaRow(e, v, Older(age), Shorter(life))
        BY ZenonT(60), <1>0, <4>1 DEF Aged, MetaRow
      <4>3. ReadTime(v)' = lm
        BY ZenonT(60), <1>0, <4>1 DEF ReadTime, PgTime, SqliteTime, DynamoTime, CosmosTime
      <4> QED
        BY <3>2, <3>3, <4>2, <4>3 DEF MetaOK, MetaRow
    <3> QED
      BY <2>2, <3>4, <3>5 DEF StoreInv, MetaOK
  <2> QED
    BY <2>1, <2>2
<1>3. half' \in 0 .. 1
  BY <1>0 DEF StoreInv
<1>4. sweepAge' \in Int /\ (sweepAge' # NoSweep => sweepAge' >= ttl /\ ttl > 0)
  <2>1. sweepAge \in Int /\ ttl \in Nat /\ AgeCap \in Nat /\ (sweepAge # NoSweep => sweepAge >= ttl /\ ttl > 0)
    BY StoreAssumptions DEF StoreInv, StoreAssumptions
  <2> QED
    BY ONLY Z3T(30), ZenonT(20), SMTT(30), <1>0, <2>1, Markers DEF Older
<1> QED
  BY <1>0, <1>1, <1>2, <1>3, <1>4 DEF StoreInv

LEMMA StoreNextInv == StoreInv /\ [StoreNext]_storeVars => StoreInv'
<1> SUFFICES ASSUME StoreInv, [StoreNext]_storeVars PROVE StoreInv'
  OBVIOUS
<1>0. ttl \in Nat /\ ItemOK /\ MetaOK /\ ttl # NoSweep
  BY Markers DEF StoreInv
<1>1. ASSUME NEW h \in HashVal, NEW lag \in 0 .. MaxLag, UpsertItem(h, lag) PROVE StoreInv'
  <2>1. ItemOK' /\ MetaOK' /\ UNCHANGED <<db, ttl, half, sweepAge>>
    BY ZenonT(60), <1>0, <1>1, ItemWritten, MetaUntouched DEF UpsertItem
  <2> QED
    BY <2>1 DEF StoreInv
<1>2. ASSUME NEW e \in EtagVal, NEW lm \in {NoText, "t"}, UpsertFeedMeta(e, lm) PROVE StoreInv'
  <2>1. ItemOK' /\ MetaOK' /\ UNCHANGED <<db, ttl, half, sweepAge>>
    BY ZenonT(60), <1>0, <1>2, MetaWritten, ItemUntouched DEF UpsertFeedMeta
  <2> QED
    BY <2>1 DEF StoreInv
<1>3. CASE SweepItems
  <2>1. ttl > 0 /\ MetaOK' /\ UNCHANGED <<db, ttl, half, lastItem>>
    BY <1>0, <1>3, MetaUntouched DEF SweepItems, Sweeps
  <2>2. CASE itemRow' = PruneItems(ttl) /\ sweepAge' = ttl
    <3>1. ItemOK'
      BY <1>0, <2>1, <2>2, ItemPruned
    <3> QED
      BY <1>0, <2>1, <2>2, <3>1 DEF StoreInv
  <2>3. CASE UNCHANGED <<itemRow, sweepAge>>
    <3>1. ItemOK'
      BY <1>0, <2>1, <2>3, ItemUntouched
    <3> QED
      BY <2>1, <2>3, <3>1 DEF StoreInv
  <2> QED
    BY <1>3, <2>2, <2>3 DEF SweepItems
<1>4. CASE SweepFeedMeta
  <2>1. /\ sweepAge # NoSweep /\ sweepAge' = NoSweep /\ ItemOK' /\ UNCHANGED <<db, ttl, half, lastMeta>>
        /\ metaRow' \in {PruneFeedMeta(sweepAge), metaRow}
    BY <1>0, <1>4, ItemUntouched DEF SweepFeedMeta
  <2>2. sweepAge \in Int /\ sweepAge >= ttl /\ ttl > 0
    BY <2>1 DEF StoreInv
  <2>3. MetaOK'
    BY <1>0, <2>1, <2>2, MetaPruned, MetaUntouched
  <2> QED
    BY <2>1, <2>3, Markers DEF StoreInv
<1>5. CASE SweepTicks
  <2>1. ItemOK' /\ MetaOK' /\ UNCHANGED <<db, ttl, half, sweepAge>>
    BY <1>0, <1>5, ItemUntouched, MetaUntouched DEF SweepTicks
  <2> QED
    BY <2>1 DEF StoreInv
<1>6. CASE handlePrune
  <2>1. ttl > 0 /\ UNCHANGED <<db, ttl, half, lastItem, lastMeta, sweepAge>>
    BY <1>6 DEF handlePrune
  <2>2. itemRow' \in {PruneItems(ttl), itemRow} /\ metaRow' \in {PruneFeedMeta(ttl), metaRow}
    BY <1>6 DEF handlePrune
  <2>3. ItemOK' /\ MetaOK'
    BY <1>0, <2>1, <2>2, ItemPruned, ItemUntouched, MetaPruned, MetaUntouched
  <2> QED
    BY <2>1, <2>3 DEF StoreInv
<1>7. CASE ServiceExpires
  <2>1. UNCHANGED <<db, ttl, half, lastItem, lastMeta, sweepAge>>
    BY <1>7 DEF ServiceExpires
  <2>2. CASE Found(itemRow) /\ itemRow.life = 0 /\ itemRow' = NoItem /\ UNCHANGED metaRow
    <3>1. itemRow = lastItem /\ Found(lastItem)
      BY <1>0, <2>2 DEF ItemOK, Found, NoItem
    <3>2. ~InTTL(lastItem.age)
      BY <1>0, <2>2, <3>1, ExpiredIsOld DEF ItemOK
    <3>3. ItemOK'
      BY <1>0, <2>1, <2>2, <3>2 DEF ItemOK, TimesOK, InTTL, Found
    <3> QED
      BY <1>0, <2>1, <2>2, <3>3, MetaUntouched DEF StoreInv
  <2>3. CASE metaRow.set /\ metaRow.life = 0 /\ metaRow' = NoMeta /\ UNCHANGED itemRow
    <3>1. lastMeta.set /\ lastMeta.life = 0
      BY <1>0, <2>3 DEF MetaOK, MetaRow, NoMeta
    <3>2. ~InTTL(lastMeta.age)
      BY <1>0, <3>1, ExpiredIsOld DEF MetaOK
    <3>3. MetaOK'
      BY <1>0, <2>1, <2>3, <3>2 DEF MetaOK, TimesOK, InTTL, MetaRow, NoMeta
    <3> QED
      BY <1>0, <2>1, <2>3, <3>3, ItemUntouched DEF StoreInv
  <2> QED
    BY <1>7, <2>2, <2>3 DEF ServiceExpires
<1>8. CASE HalfSecond
  BY <1>8, HalfSecondKeeps
<1>9. CASE UNCHANGED storeVars
  <2>1. ItemOK' /\ MetaOK' /\ UNCHANGED <<db, ttl, half, sweepAge>>
    BY <1>0, <1>9, ItemUntouched, MetaUntouched DEF storeVars
  <2> QED
    BY <2>1 DEF StoreInv
<1> QED
  BY <1>1, <1>2, <1>3, <1>4, <1>5, <1>6, <1>7, <1>8, <1>9 DEF StoreNext

\* For every driver and item_ttl: an item, and the validators of a feed, are found as
\* last written until item_ttl has passed, whatever is pruned, swept or expires.
THEOREM StoreKeepsRows == StoreSpec => []KeptForTTL
<1>1. StoreInv => KeptForTTL
  <2> SUFFICES ASSUME StoreInv PROVE KeptForTTL
    OBVIOUS
  <2>1. Found(lastItem) /\ InTTL(lastItem.age) => itemRow = lastItem
    BY DEF StoreInv, ItemOK
  <2>2. ASSUME lastMeta.set, InTTL(lastMeta.age) PROVE GetFeedMeta = lastMeta
    <3>1. /\ ReadTime(metaRow.lm) = lastMeta.lm
          /\ metaRow = MetaRow(lastMeta.etag, metaRow.lm, lastMeta.age, lastMeta.life)
          /\ lastMeta = MetaRow(lastMeta.etag, lastMeta.lm, lastMeta.age, lastMeta.life)
      BY <2>2 DEF StoreInv, MetaOK
    <3>2. GetFeedMeta = [metaRow EXCEPT !.lm = ReadTime(metaRow.lm)]
      BY DEF GetFeedMeta, ReadTime
    <3>3. PICK e, v, lm, age, life :
            metaRow = MetaRow(e, v, age, life) /\ lastMeta = MetaRow(e, lm, age, life)
      BY <3>1
    <3>4. ReadTime(metaRow.lm) = lm
      BY <3>1, <3>3 DEF MetaRow
    <3>5. [MetaRow(e, v, age, life) EXCEPT !.lm = lm] = MetaRow(e, lm, age, life)
      <4>1. \A s : [[etag |-> e, lm |-> v, age |-> age, life |-> life, set |-> s] EXCEPT !.lm = lm]
                    = [etag |-> e, lm |-> lm, age |-> age, life |-> life, set |-> s]
        OBVIOUS
      <4> QED
        BY ZenonT(60), <4>1 DEF MetaRow
    <3>6. GetFeedMeta = [MetaRow(e, v, age, life) EXCEPT !.lm = lm]
      BY ONLY Z3T(30), ZenonT(20), SMTT(30), <3>2, <3>3, <3>4, ZenonT(60)
    <3> QED
      BY <3>3, <3>5, <3>6
  <2> QED
    BY <2>1, <2>2 DEF KeptForTTL
<1> QED
  BY <1>1, StoreInitInv, StoreNextInv, PTL DEF StoreSpec

-----------------------------------------------------------------------------
(* FeedWindow *)

\* There are MaxItems rows that are not older than y.
Outdone(rows, y) ==
  \E s \in SUBSET rows : Cardinality(s) = MaxItems /\ \A x \in s : x.at >= y.at

\* The rows are last versions, and one that is missing could not be shown: there are
\* enough newer ones.
Complete(rows, all) == rows \subseteq all /\ \A y \in all \ rows : Outdone(rows, y)

WindowInv ==
  /\ latest \in [Entry -> Nat]
  /\ IsFiniteSet(Written)
  /\ Complete(window, Written)

Rows == [entry : Entry, at : Nat]

\* What is outdone by the rows is outdone by the newest of them.
LEMMA NewestOutdo ==
  ASSUME NEW W \in SUBSET Rows, IsFiniteSet(W), NEW t \in Newest(W, MaxItems),
         NEW y \in Rows, Outdone(W, y)
  PROVE  Cardinality(t) = MaxItems /\ \A x \in t : x.at >= y.at
<1>1. PICK s \in SUBSET W : Cardinality(s) = MaxItems /\ \A x \in s : x.at >= y.at
  BY DEF Outdone
<1>2. /\ IsFiniteSet(s) /\ Cardinality(s) <= Cardinality(W) /\ Cardinality(W) \in Nat
      /\ MaxItems \in Nat
  BY FS_Subset, FS_CardinalityType, FeedWindowAssumptions DEF FeedWindowAssumptions
<1>3. /\ t \subseteq W /\ Cardinality(t) = Least(MaxItems, Cardinality(W))
      /\ \A x \in t, z \in W \ t : x.at >= z.at
  BY DEF Newest
<1>4. Cardinality(t) = MaxItems
  BY ONLY Z3T(30), ZenonT(20), SMTT(30), <1>1, <1>2, <1>3 DEF Least
<1>5. ASSUME NEW x \in t, ~(x.at >= y.at) PROVE FALSE
  <2>1. x \notin s
    BY <1>1, <1>5
  <2>2. x \in Rows /\ x.at \in Nat /\ y.at \in Nat
    BY <1>3 DEF Rows
  <2>3. \A z \in s \ t : z.at \in Nat /\ z.at >= y.at /\ x.at >= z.at
    BY <1>1, <1>3 DEF Rows
  <2>4. s \ t = {}
    BY <1>5, <2>2, <2>3
  <2>5. s \subseteq t
    BY <2>4
  <2>6. IsFiniteSet(t)
    BY <1>3, FS_Subset
  <2>7. s = t
    BY <1>1, <1>4, <2>5, <2>6, FS_Subset
  <2> QED
    BY <2>1, <2>7
<1> QED
  BY <1>4, <1>5

\* What is pruned is outdone by what stays.
LEMMA PrunedIsOutdone ==
  ASSUME NEW W \in SUBSET Rows, IsFiniteSet(W), NEW t \in Newest(W, MaxItems), NEW y \in W \ t
  PROVE  Cardinality(t) = MaxItems /\ \A x \in t : x.at >= y.at
<1>1. /\ t \subseteq W /\ Cardinality(t) = Least(MaxItems, Cardinality(W))
      /\ \A x \in t, z \in W \ t : x.at >= z.at
  BY DEF Newest
<1>2. Cardinality(W) # Cardinality(t)
  BY <1>1, FS_Subset
<1>3. Cardinality(W) \in Nat /\ MaxItems \in Nat
  BY FS_CardinalityType, FeedWindowAssumptions DEF FeedWindowAssumptions
<1>4. Cardinality(t) = MaxItems
  BY ONLY Z3T(30), ZenonT(20), SMTT(30), <1>1, <1>2, <1>3 DEF Least
<1> QED
  BY <1>1, <1>4

LEMMA PruneKeepsComplete ==
  ASSUME NEW W \in SUBSET Rows, NEW all \in SUBSET Rows, IsFiniteSet(all), Complete(W, all),
         NEW t \in Newest(W, MaxItems)
  PROVE  /\ Complete(t, all)
         /\ \A y \in all \ t : Cardinality(t) = MaxItems /\ \A x \in t : x.at >= y.at
<1>1. W \subseteq all /\ IsFiniteSet(W) /\ t \subseteq W
  BY FS_Subset DEF Complete, Newest
<1>2. ASSUME NEW y \in all \ t
      PROVE  Cardinality(t) = MaxItems /\ \A x \in t : x.at >= y.at
  <2>1. CASE y \in W
    BY <1>1, <2>1, PrunedIsOutdone
  <2>2. CASE y \notin W
    BY <1>1, <2>2, NewestOutdo DEF Complete
  <2> QED
    BY <2>1, <2>2
<1> QED
  BY <1>1, <1>2 DEF Complete, Outdone

-----------------------------------------------------------------------------
\* The last version of an entry.
Version(e) == [entry |-> e, at |-> latest[e]]

LEMMA WrittenRows ==
  ASSUME WindowInv
  PROVE  /\ Written \subseteq Rows /\ window \subseteq Rows
         /\ \A x \in Written : x.entry \in Entry /\ x = Version(x.entry) /\ latest[x.entry] > 0
         /\ \A e \in Entry : latest[e] > 0 => Version(e) \in Written
<1>1. \A x \in Written : \E e \in Entry : latest[e] > 0 /\ x = [entry |-> e, at |-> latest[e]]
  BY DEF Written
<1>2. \A x \in Written : x \in Rows /\ x.entry \in Entry /\ x = Version(x.entry) /\ latest[x.entry] > 0
  BY <1>1 DEF WindowInv, Rows, Version
<1>3. \A e \in Entry : latest[e] > 0 => Version(e) \in Written
  BY DEF Written, Version
<1> QED
  BY <1>2, <1>3 DEF WindowInv, Complete

\* The last versions after a write.
LEMMA WrittenAfter ==
  ASSUME WindowInv, NEW e \in Entry, NEW at \in 1 .. MaxStamp, latest' = [latest EXCEPT ![e] = at]
  PROVE  /\ Written' = {x \in Written : x.entry # e} \cup {[entry |-> e, at |-> at]}
         /\ latest' \in [Entry -> Nat] /\ IsFiniteSet(Written')
<1>0. at \in Nat /\ at > 0
  BY FeedWindowAssumptions DEF FeedWindowAssumptions
<1>1. latest' \in [Entry -> Nat] /\ latest'[e] = at /\ \A d \in Entry \ {e} : latest'[d] = latest[d]
  BY <1>0 DEF WindowInv
<1>2. Written' = {[entry |-> d, at |-> latest'[d]] : d \in {d \in Entry : latest'[d] > 0}}
  BY DEF Written
<1>3. \A x : x \in Written' <=> \E d \in Entry : latest'[d] > 0 /\ x = [entry |-> d, at |-> latest'[d]]
  BY ONLY Z3T(30), ZenonT(20), SMTT(30), <1>2
<1>4. \A x : x \in Written <=> \E d \in Entry : latest[d] > 0 /\ x = [entry |-> d, at |-> latest[d]]
  BY DEF Written
<1>5. Written' \subseteq {x \in Written : x.entry # e} \cup {[entry |-> e, at |-> at]}
  <2> SUFFICES ASSUME NEW x \in Written', x # [entry |-> e, at |-> at]
               PROVE  x \in Written /\ x.entry # e
    OBVIOUS
  <2>1. PICK d \in Entry : latest'[d] > 0 /\ x = [entry |-> d, at |-> latest'[d]]
    BY <1>3
  <2>2. d # e
    BY <1>1, <2>1
  <2> QED
    BY <1>1, <1>4, <2>1, <2>2
<1>6. {x \in Written : x.entry # e} \subseteq Written'
  <2> SUFFICES ASSUME NEW x \in Written, x.entry # e PROVE x \in Written'
    OBVIOUS
  <2>1. PICK d \in Entry : latest[d] > 0 /\ x = [entry |-> d, at |-> latest[d]]
    BY <1>4
  <2> QED
    BY <1>1, <1>3, <2>1
<1>7. [entry |-> e, at |-> at] \in Written'
  BY <1>0, <1>1, <1>3
<1>8. IsFiniteSet({x \in Written : x.entry # e})
  BY FS_Subset DEF WindowInv
<1>9. IsFiniteSet({x \in Written : x.entry # e} \cup {[entry |-> e, at |-> at]})
  BY ZenonT(60), <1>8, FS_AddElement
<1> QED
  BY ZenonT(60), <1>1, <1>5, <1>6, <1>7, <1>9

\* A write, before anything is pruned: the new version stands for the old one among
\* the rows that outdo another.
LEMMA PutKeepsComplete ==
  ASSUME WindowInv, NEW e \in Entry, NEW at \in 1 .. MaxStamp, at >= latest[e],
         latest' = [latest EXCEPT ![e] = at]
  PROVE  Complete(Put(e, at), Written')
<1> DEFINE new == [entry |-> e, at |-> at]
           rows == Put(e, at)
<1>0. /\ at \in Nat /\ latest \in [Entry -> Nat] /\ window \subseteq Written
      /\ \A y \in Written \ window : Outdone(window, y)
      /\ IsFiniteSet(window) /\ MaxItems \in Nat
  BY FS_Subset, FeedWindowAssumptions DEF WindowInv, Complete, FeedWindowAssumptions
<1>1. Written' = {x \in Written : x.entry # e} \cup {new}
  BY ZenonT(60), WrittenAfter
<1>2. rows = {x \in window : x.entry # e} \cup {new}
  BY DEF Put
<1>3. new.entry = e /\ new.at = at
  OBVIOUS
<1> HIDE DEF new, rows
<1>4. ASSUME NEW y \in Written' \ rows PROVE Outdone(rows, y)
  <2>1. y \in Written /\ y \notin window /\ y \in Rows /\ y.at \in Nat
    BY <1>1, <1>2, <1>4, WrittenRows DEF Rows
  <2>2. PICK s \in SUBSET window : Cardinality(s) = MaxItems /\ \A x \in s : x.at >= y.at
    BY <1>0, <2>1 DEF Outdone
  <2>3. IsFiniteSet(s)
    BY <1>0, FS_Subset
  <2>4. CASE \A x \in s : x.entry # e
    <3>1. s \subseteq rows
      BY <1>2, <2>4
    <3> QED
      BY <2>2, <3>1 DEF Outdone
  <2>5. ASSUME NEW o \in s, o.entry = e PROVE Outdone(rows, y)
    <3>1. o = Version(e) /\ \A x \in s : x.entry = e => x = o
      BY <1>0, <2>5, WrittenRows
    <3>2. o.at = latest[e] /\ latest[e] \in Nat
      BY <1>0, <3>1 DEF Version
    <3> DEFINE r == (s \ {o}) \cup {new}
    <3>3. r \subseteq rows
      BY <1>2, <3>1
    <3>4. new \notin s \ {o}
      BY <1>3, <3>1
    <3>5. IsFiniteSet(s \ {o}) /\ Cardinality(s \ {o}) = Cardinality(s) - 1
      BY <2>3, <2>5, FS_RemoveElement
    <3>6. Cardinality(r) = Cardinality(s \ {o}) + 1
      BY <3>4, <3>5, FS_AddElement
    <3>7. Cardinality(r) = MaxItems
      BY ONLY Z3T(30), ZenonT(20), SMTT(30), <1>0, <2>2, <3>5, <3>6
    <3>8. new.at >= y.at
      <4>1. o.at >= y.at
        BY <2>2, <2>5
      <4> QED
        BY ONLY Z3T(30), ZenonT(20), SMTT(30), <1>0, <1>3, <2>1, <3>2, <4>1, at >= latest[e]
    <3>9. \A x \in r : x.at >= y.at
      BY <2>2, <3>8
    <3> QED
      BY <3>3, <3>7, <3>9 DEF Outdone
  <2> QED
    BY <2>4, <2>5
<1>5. rows \subseteq Written'
  BY <1>0, <1>1, <1>2
<1> QED
  BY <1>4, <1>5 DEF Complete, rows

LEMMA WindowInitInv == WindowInit => WindowInv
<1> SUFFICES ASSUME WindowInit PROVE WindowInv
  OBVIOUS
<1>1. latest = [e \in Entry |-> 0] /\ window = {}
  BY DEF WindowInit
<1>2. {x \in Entry : latest[x] > 0} = {}
  BY <1>1
<1>3. Written = {}
  BY <1>2 DEF Written
<1> QED
  BY <1>1, <1>3, FS_EmptySet DEF WindowInv, Complete

LEMMA WindowNextInv == WindowInv /\ [WindowNext]_windowVars => WindowInv'
<1> SUFFICES ASSUME WindowInv, [WindowNext]_windowVars PROVE WindowInv'
  OBVIOUS
<1>1. ASSUME NEW e \in Entry, NEW at \in 1 .. MaxStamp, Write(e, at) PROVE WindowInv'
  <2>0. at >= latest[e] /\ latest' = [latest EXCEPT ![e] = at]
    BY <1>1 DEF Write
  <2>1. /\ latest' \in [Entry -> Nat] /\ IsFiniteSet(Written') /\ Complete(Put(e, at), Written')
        /\ Written' = {x \in Written : x.entry # e} \cup {[entry |-> e, at |-> at]}
    BY ZenonT(60), <2>0, WrittenAfter, PutKeepsComplete
  <2>2. [entry |-> e, at |-> at] \in Rows
    BY FeedWindowAssumptions DEF Rows, FeedWindowAssumptions
  <2>3. Written' \subseteq Rows /\ Put(e, at) \subseteq Rows
    BY <2>1, <2>2, WrittenRows DEF Put
  <2>4. window' = Put(e, at) \/ window' \in Newest(Put(e, at), MaxItems)
    BY <1>1 DEF Write, MemoryWrite, SqlWrite, Prune
  <2>5. Complete(window', Written')
    BY <2>1, <2>3, <2>4, PruneKeepsComplete
  <2>6. Complete(window, Written)'
    BY <2>5 DEF Complete, Outdone
  <2> QED
    BY <2>1, <2>6 DEF WindowInv
<1>2. CASE UNCHANGED windowVars
  BY <1>2 DEF windowVars, WindowInv, Written, Complete, Outdone
<1> QED
  BY <1>1, <1>2 DEF WindowNext

\* For every number of entries, every max_items and every interval of the prune, which
\* may also fail: what the feed shows are the newest max_items of all last versions.
THEOREM WindowShowsNewest == WindowSpec => []WindowIsNewest
<1>1. WindowInv => WindowIsNewest
  <2> SUFFICES ASSUME WindowInv, NEW rows \in Newest(window, MaxItems)
               PROVE  rows \in Newest(Written, MaxItems)
    BY DEF WindowIsNewest, Recent
  <2>1. /\ Written \subseteq Rows /\ window \subseteq Rows /\ IsFiniteSet(Written)
        /\ Complete(window, Written)
    BY WrittenRows DEF WindowInv
  <2>2. /\ rows \subseteq Written
        /\ \A y \in Written \ rows : Cardinality(rows) = MaxItems /\ \A x \in rows : x.at >= y.at
    BY <2>1, PruneKeepsComplete DEF Complete
  <2>3. Cardinality(rows) <= Cardinality(Written) /\ Cardinality(Written) \in Nat /\ MaxItems \in Nat
    BY <2>1, <2>2, FS_Subset, FS_CardinalityType, FeedWindowAssumptions DEF FeedWindowAssumptions
  <2>4. Cardinality(rows) = Least(MaxItems, Cardinality(Written))
    <3>1. CASE rows = Written
      <4>1. window = Written
        BY <2>1, <3>1 DEF Newest, Complete
      <4> QED
        BY <3>1, <4>1 DEF Newest
    <3>2. CASE rows # Written
      <4>1. Cardinality(rows) = MaxItems
        BY <2>2, <3>2
      <4> QED
        BY ONLY Z3T(30), ZenonT(20), SMTT(30), <2>3, <4>1 DEF Least
    <3> QED
      BY <3>1, <3>2
  <2> QED
    BY <2>2, <2>4 DEF Newest
<1> QED
  BY <1>1, WindowInitInv, WindowNextInv, PTL DEF WindowSpec

-----------------------------------------------------------------------------
(* FeedServer *)

Docs == [shows : Int, modified : Int, read : Int, at : Int]

\* A rendering under way read the store at most MaxRender ago, and so had the one
\* that filled the cache when it did.
ServerInv ==
  /\ second \in Int /\ newest \in Int /\ changes \in Int /\ cached \in Docs
  /\ request \in [Request -> {"idle", "render", "served"}]
  /\ draft \in [Request -> Docs] /\ shown \in [Request -> Docs]
  /\ \A r \in Request : request[r] = "render" => second - draft[r].read <= MaxRender
  /\ cached # NoDoc => cached.at - cached.read <= MaxRender

LEMMA NoDocType == NoDoc \in Docs
BY DEF NoDoc, Docs

LEMMA ServerInitInv == ServerInit => ServerInv
BY NoDocType DEF ServerInit, ServerInv

LEMMA ServerNextInv == ServerInv /\ [ServerNext]_serverVars => ServerInv'
<1> SUFFICES ASSUME ServerInv, [ServerNext]_serverVars PROVE ServerInv'
  OBVIOUS
<1> USE FeedServerAssumptions
<1>1. ASSUME NEW at \in 1 .. MaxSecond, PublishChange(at) PROVE ServerInv'
  BY <1>1 DEF ServerInv, PublishChange, Newer
<1>2. ASSUME NEW r \in Request, CacheHit(r) PROVE ServerInv'
  BY <1>2 DEF ServerInv, CacheHit, Serve
<1>3. ASSUME NEW r \in Request, ReadRecent(r) PROVE ServerInv'
  <2> DEFINE d == [shows |-> changes, modified |-> newest, read |-> second, at |-> second]
  <2>1. d \in Docs /\ second - d.read <= MaxRender
    BY DEF ServerInv, Docs, FeedServerAssumptions
  <2>2. /\ draft' = [draft EXCEPT ![r] = d] /\ request' = [request EXCEPT ![r] = "render"]
        /\ UNCHANGED <<changes, newest, second, cached, shown>>
    BY <1>3 DEF ReadRecent
  <2> HIDE DEF d
  <2> QED
    BY <2>1, <2>2 DEF ServerInv
<1>4. ASSUME NEW r \in Request, Render(r) PROVE ServerInv'
  <2>1. /\ draft[r] \in Docs /\ second - draft[r].read <= MaxRender /\ second \in Int
        /\ shown[r] \in Docs
    BY <1>4 DEF ServerInv, Render
  <2> DEFINE d == Stamped(r)
  <2>2. d \in Docs /\ d.at - d.read <= MaxRender
    BY <2>1 DEF Stamped, Docs
  <2>3. /\ request[r] = "render" /\ cached' = d /\ draft' = [draft EXCEPT ![r] = NoDoc]
        /\ shown' = [shown EXCEPT ![r] = IF NotModified(d, shown[r]) THEN @ ELSE d]
        /\ request' = [request EXCEPT ![r] = "served"]
        /\ UNCHANGED <<changes, newest, second>>
    BY <1>4 DEF Render, Serve
  <2> HIDE DEF d
  <2> QED
    BY <2>1, <2>2, <2>3, NoDocType DEF ServerInv
<1>5. ASSUME NEW r \in Request, RequestAgain(r) PROVE ServerInv'
  BY <1>5 DEF ServerInv, RequestAgain
<1>6. CASE SecondPasses
  <2>1. /\ second' = second + 1 /\ UNCHANGED <<changes, newest, cached, draft, shown>>
        /\ request' = [r \in Request |-> IF request[r] = "served" THEN "idle" ELSE request[r]]
        /\ \A r \in Request : request[r] = "render" => second - draft[r].read < MaxRender
    BY <1>6 DEF SecondPasses
  <2>2. \A r \in Request : draft[r].read \in Int
    BY DEF ServerInv, Docs
  <2>3. \A r \in Request : request'[r] = "render" => second' - draft'[r].read <= MaxRender
    BY <2>1, <2>2 DEF ServerInv, FeedServerAssumptions
  <2> QED
    BY <2>1, <2>3 DEF ServerInv
<1>7. CASE UNCHANGED serverVars
  BY <1>7 DEF ServerInv, serverVars
<1> QED
  BY <1>1, <1>2, <1>3, <1>4, <1>5, <1>6, <1>7 DEF ServerNext

\* A client is served what the store held less than the cache time and one rendering
\* ago, for every number of concurrent requests, and a 304 hides no change.
THEOREM ServerIsFresh == ServerSpec => ServedIsFresh
<1>1. ServerInv /\ [ServerNext]_serverVars =>
        [\A r \in Request : request[r] # "served" /\ request'[r] = "served" =>
           /\ request[r] = "idle" => second - cached.read < CacheTTL + MaxRender
           /\ shown'[r] # cached' => shown'[r].modified > cached'.modified]_serverVars
  <2> SUFFICES ASSUME ServerInv, ServerNext, NEW r \in Request,
                      request[r] # "served", request'[r] = "served"
               PROVE  /\ request[r] = "idle" => second - cached.read < CacheTTL + MaxRender
                      /\ shown'[r] # cached' => shown'[r].modified > cached'.modified
    OBVIOUS
  <2>1. CacheHit(r) \/ Render(r)
    BY ZenonT(60) DEF ServerInv, ServerNext, PublishChange, CacheHit, Render, Serve, ReadRecent, RequestAgain,
           SecondPasses
  <2>2. CASE CacheHit(r)
    <3>1. /\ cached # NoDoc /\ second - cached.at < CacheTTL /\ cached' = cached
          /\ shown' = [shown EXCEPT ![r] = IF NotModified(cached, shown[r]) THEN @ ELSE cached]
      BY <2>2 DEF CacheHit, Fresh, Serve
    <3>2. /\ cached.at \in Int /\ cached.read \in Int /\ cached.modified \in Int
          /\ shown[r].modified \in Int /\ second \in Int /\ cached.at - cached.read <= MaxRender
      BY <3>1 DEF ServerInv, Docs
    <3>3. second - cached.read < CacheTTL + MaxRender
      BY ONLY Z3T(30), ZenonT(20), SMTT(30), <3>1, <3>2, FeedServerAssumptions DEF FeedServerAssumptions
    <3>4. shown'[r] # cached' => shown'[r].modified > cached'.modified
      BY <3>1, <3>2 DEF ServerInv, NotModified
    <3> QED
      BY <3>3, <3>4
  <2>3. CASE Render(r)
    <3>1. /\ request[r] # "idle" /\ cached' = Stamped(r)
          /\ shown' = [shown EXCEPT ![r] = IF NotModified(Stamped(r), shown[r]) THEN @ ELSE Stamped(r)]
      BY <2>3 DEF Render, Serve
    <3>2. Stamped(r).modified \in Int /\ shown[r].modified \in Int
      BY DEF ServerInv, Docs, Stamped
    <3> QED
      BY <3>1, <3>2 DEF ServerInv, NotModified
  <2> QED
    BY <2>1, <2>2, <2>3
<1>2. QED
  BY <1>1, ServerInitInv, ServerNextInv, PTL DEF ServerSpec, ServedIsFresh

-----------------------------------------------------------------------------
(* Detector *)

IsDocument(d) == d \in Seq(FeedEntry)

\* The indices of a document are finitely many numbers, and its dates are numbers.
LEMMA DocumentFacts ==
  ASSUME NEW d, IsDocument(d)
  PROVE  /\ DOMAIN d = 1 .. Len(d) /\ Len(d) \in Nat
         /\ \A i \in DOMAIN d : d[i] \in FeedEntry /\ d[i].pub \in Nat /\ i \in Nat
         /\ \A S \in SUBSET DOMAIN d : IsFiniteSet(S) /\ Cardinality(S) \in Nat
<1>1. DOMAIN d = 1 .. Len(d) /\ Len(d) \in Nat /\ \A i \in DOMAIN d : d[i] \in FeedEntry /\ i \in Nat
  BY ONLY Z3T(30), ZenonT(20), SMTT(30), IsDocument(d) DEF IsDocument
<1>2. \A e \in FeedEntry : e.pub \in Nat
  BY DEF FeedEntry
<1>3. IsFiniteSet(1 .. Len(d))
  BY <1>1, FS_Interval
<1>4. \A S \in SUBSET DOMAIN d : IsFiniteSet(S) /\ Cardinality(S) \in Nat
  BY ZenonT(60), <1>1, <1>3, FS_Subset, FS_CardinalityType
<1> QED
  BY ZenonT(60), <1>1, <1>2, <1>4

\* PubBefore orders the entries of a document totally.
LEMMA PubBeforeOrder ==
  ASSUME NEW d, IsDocument(d), NEW i \in DOMAIN d, NEW j \in DOMAIN d, NEW k \in DOMAIN d
  PROVE  /\ ~PubBefore(d, i, i)
         /\ PubBefore(d, i, j) /\ PubBefore(d, j, k) => PubBefore(d, i, k)
         /\ i # j => PubBefore(d, i, j) \/ PubBefore(d, j, i)
<1>1. \A n \in {i, j, k} : d[n].pub \in Nat /\ n \in Nat
  BY ZenonT(60), DocumentFacts
<1> QED
  BY <1>1 DEF PubBefore

\* An entry that comes before another has a smaller place.
LEMMA PlaceGrows ==
  ASSUME NEW d, IsDocument(d), NEW S \in SUBSET DOMAIN d, NEW i \in S, NEW j \in S
  PROVE  /\ Place(d, S, i) \in 1 .. Cardinality(S)
         /\ PubBefore(d, i, j) <=> Place(d, S, i) < Place(d, S, j)
         /\ Place(d, S, i) = Place(d, S, j) => i = j
<1> DEFINE Ahead(x) == {y \in S : PubBefore(d, y, x)}
<1>1. \A x \in S : /\ IsFiniteSet(Ahead(x)) /\ Cardinality(Ahead(x)) \in Nat
                   /\ Place(d, S, x) = Cardinality(Ahead(x)) + 1
  <2> SUFFICES ASSUME NEW x \in S
               PROVE  /\ IsFiniteSet(Ahead(x)) /\ Cardinality(Ahead(x)) \in Nat
                      /\ Place(d, S, x) = Cardinality(Ahead(x)) + 1
    OBVIOUS
  <2>1. Ahead(x) \in SUBSET DOMAIN d
    BY ZenonT(60)
  <2> HIDE DEF Ahead
  <2>2. IsFiniteSet(Ahead(x)) /\ Cardinality(Ahead(x)) \in Nat
    BY ZenonT(60), <2>1, DocumentFacts
  <2> QED
    BY ZenonT(60), <2>2 DEF Place, Ahead
<1>2. ASSUME NEW x \in S, NEW y \in S, PubBefore(d, x, y)
      PROVE  Place(d, S, x) < Place(d, S, y)
  <2>1. Ahead(x) \in SUBSET Ahead(y)
    BY ZenonT(60), <1>2, PubBeforeOrder
  <2>2. x \in Ahead(y) /\ x \notin Ahead(x)
    BY ZenonT(60), <1>2, PubBeforeOrder
  <2>3. Ahead(x) # Ahead(y)
    BY ZenonT(60), <2>2
  <2> HIDE DEF Ahead
  <2>4. Cardinality(Ahead(x)) <= Cardinality(Ahead(y)) /\ Cardinality(Ahead(x)) # Cardinality(Ahead(y))
    BY ZenonT(60), <1>1, <2>1, <2>3, FS_Subset
  <2> QED
    BY <1>1, <2>4
<1>3. Place(d, S, i) \in 1 .. Cardinality(S)
  <2>1. IsFiniteSet(S) /\ Cardinality(S) \in Nat
    BY ZenonT(60), DocumentFacts
  <2>2. Ahead(i) \in SUBSET S
    BY ZenonT(60)
  <2>3. i \notin Ahead(i)
    BY ZenonT(60), PubBeforeOrder
  <2>4. Ahead(i) # S
    BY ZenonT(60), <2>3
  <2> HIDE DEF Ahead
  <2>5. Cardinality(Ahead(i)) <= Cardinality(S) /\ Cardinality(Ahead(i)) # Cardinality(S)
    BY ZenonT(60), <2>1, <2>2, <2>4, FS_Subset
  <2> QED
    BY <1>1, <2>1, <2>5
<1> HIDE DEF Ahead
<1>4. Place(d, S, i) \in Int /\ Place(d, S, j) \in Int
  BY <1>1
<1>5. i # j => PubBefore(d, i, j) \/ PubBefore(d, j, i)
  BY ZenonT(60), PubBeforeOrder
<1>6. i = j => ~PubBefore(d, i, j)
  BY ZenonT(60), PubBeforeOrder
<1>7. PubBefore(d, i, j) => Place(d, S, i) < Place(d, S, j)
  BY ZenonT(60), <1>2
<1>8. PubBefore(d, j, i) => Place(d, S, j) < Place(d, S, i)
  BY ZenonT(60), <1>2
<1> QED
  BY ONLY Z3T(30), ZenonT(20), SMTT(30), <1>3, <1>4, <1>5, <1>6, <1>7, <1>8

\* The order of publication lists every entry to publish once, the oldest first.
THEOREM OldestFirstIsSorted ==
  ASSUME NEW d, IsDocument(d), NEW S \in SUBSET DOMAIN d
  PROVE  /\ OldestFirst(d, S) \in Bijection(1 .. Cardinality(S), S)
         /\ \A j, k \in 1 .. Cardinality(S) :
              j < k => PubBefore(d, OldestFirst(d, S)[j], OldestFirst(d, S)[k])
<1> DEFINE n == Cardinality(S)
           p == [i \in S |-> Place(d, S, i)]
           o == OldestFirst(d, S)
<1>1. n \in Nat /\ IsFiniteSet(S)
  BY ZenonT(60), DocumentFacts
<1>2. p \in Injection(S, 1 .. n)
  <2>1. \A i, j \in S : Place(d, S, i) \in 1 .. n /\ (Place(d, S, i) = Place(d, S, j) => i = j)
    BY ZenonT(60), PlaceGrows
  <2> QED
    BY ZenonT(60), <2>1 DEF Injection, IsInjective
<1>3. IsFiniteSet(1 .. n) /\ Cardinality(1 .. n) = n
  BY <1>1, FS_Interval
<1>4. p \in Surjection(S, 1 .. n)
  BY ZenonT(60), <1>2, <1>3, FS_Injection
<1>5. \A k \in 1 .. n : \E i \in S : Place(d, S, i) = k
  BY ZenonT(60), <1>4 DEF Surjection
<1>6. \A k \in 1 .. n : o[k] \in S /\ Place(d, S, o[k]) = k
  BY ZenonT(60), <1>5 DEF OldestFirst
<1>7. \A i \in S : \E k \in 1 .. n : o[k] = i
  <2> SUFFICES ASSUME NEW i \in S
               PROVE  \E k \in 1 .. n : o[k] = i
    OBVIOUS
  <2>1. Place(d, S, i) \in 1 .. n
    BY ZenonT(60), PlaceGrows
  <2>2. o[Place(d, S, i)] = i
    BY ZenonT(60), <1>6, <2>1, PlaceGrows
  <2> QED
    BY ZenonT(60), <2>1, <2>2
<1>8. o \in [1 .. n -> S]
  BY ZenonT(60), <1>6 DEF OldestFirst
<1>9. \A j, k \in 1 .. n : o[j] = o[k] => j = k
  BY ZenonT(60), <1>6
<1>10. \A j, k \in 1 .. n : j < k => PubBefore(d, o[j], o[k])
  BY ZenonT(60), <1>6, PlaceGrows
<1> QED
  BY ZenonT(60), <1>7, <1>8, <1>9, <1>10 DEF Bijection, Injection, Surjection, IsInjective

-----------------------------------------------------------------------------
\* A change of the poll under way is that of an entry of the document, and an entry
\* whose row is not up to date is among the changes still to be committed.
Lists(k, e) == detected[k].id = IdentityKey(e) /\ detected[k].hash = ContentHash(e)

DetectorInv ==
  /\ document \in Seq(Entries) /\ polling \in BOOLEAN /\ detected \in Seq(Range(detected))
  /\ polling =>
       /\ \A k \in DOMAIN detected : \E i \in DOMAIN document : Lists(k, document[i])
       /\ ~Ambiguous(document) => \A i \in DOMAIN document :
            Same(document[i]) \/ \E k \in DOMAIN detected : Lists(k, document[i])

LEMMA DocumentIsDocument ==
  ASSUME DetectorAssumptions, document \in Seq(Entries)
  PROVE  IsDocument(document)
<1>1. Entries \subseteq FeedEntry
  BY ZenonT(60) DEF DetectorAssumptions
<1> QED
  BY ONLY Z3T(30), ZenonT(20), SMTT(30), <1>1, document \in Seq(Entries) DEF IsDocument

\* What a poll detects is a list of changes, one for each entry whose row is not up to date.
LEMMA DetectLists ==
  ASSUME NEW d, IsDocument(d)
  PROVE  /\ Detect(d) \in Seq(Range(Detect(d)))
         /\ \A k \in DOMAIN Detect(d) : \E i \in DOMAIN d :
              Detect(d)[k].id = IdentityKey(d[i]) /\ Detect(d)[k].hash = ContentHash(d[i])
         /\ \A i \in News(d) : \E k \in DOMAIN Detect(d) :
              Detect(d)[k].id = IdentityKey(d[i]) /\ Detect(d)[k].hash = ContentHash(d[i])
<1> DEFINE o == OldestFirst(d, News(d))
           n == Cardinality(News(d))
<1>1. News(d) \in SUBSET DOMAIN d
  BY ZenonT(60) DEF News
<1>2. n \in Nat
  BY ZenonT(60), <1>1, DocumentFacts
<1>3. o \in Bijection(1 .. n, News(d))
  BY ZenonT(60), <1>1, OldestFirstIsSorted
<1>4. /\ DOMAIN Detect(d) = 1 .. n
      /\ \A k \in 1 .. n : /\ Detect(d)[k].id = IdentityKey(d[o[k]])
                           /\ Detect(d)[k].hash = ContentHash(d[o[k]])
  <2>1. \A e : ChangeOf(e).id = IdentityKey(e) /\ ChangeOf(e).hash = ContentHash(e)
    BY ZenonT(60) DEF ChangeOf
  <2> QED
    BY ZenonT(60), <2>1 DEF Detect
<1>5. /\ \A k \in 1 .. n : o[k] \in News(d)
      /\ \A i \in News(d) : \E k \in 1 .. n : o[k] = i
  BY ZenonT(60), <1>3 DEF Bijection, Injection, Surjection
<1>6. Detect(d) \in Seq(Range(Detect(d)))
  <2>1. \A k \in 1 .. n : Detect(d)[k] \in Range(Detect(d))
    BY ZenonT(60), <1>4 DEF Range
  <2>2. Detect(d) \in [1 .. n -> Range(Detect(d))]
    BY ZenonT(60), <1>4, <2>1 DEF Detect
  <2> HIDE DEF n
  <2> QED
    BY ONLY Z3T(30), ZenonT(20), SMTT(30), <1>2, <2>2
<1> HIDE DEF o, n
<1>7. \A k \in DOMAIN Detect(d) : \E i \in DOMAIN d :
        Detect(d)[k].id = IdentityKey(d[i]) /\ Detect(d)[k].hash = ContentHash(d[i])
  BY ZenonT(60), <1>1, <1>4, <1>5
<1>8. \A i \in News(d) : \E k \in DOMAIN Detect(d) :
        Detect(d)[k].id = IdentityKey(d[i]) /\ Detect(d)[k].hash = ContentHash(d[i])
  <2> SUFFICES ASSUME NEW i \in News(d)
               PROVE  \E k \in DOMAIN Detect(d) :
                        Detect(d)[k].id = IdentityKey(d[i]) /\ Detect(d)[k].hash = ContentHash(d[i])
    BY ZenonT(60)
  <2>1. PICK k \in 1 .. n : o[k] = i
    BY ZenonT(60), <1>5
  <2>2. Detect(d)[k].id = IdentityKey(d[i]) /\ Detect(d)[k].hash = ContentHash(d[i])
    BY ZenonT(60), <1>4, <2>1
  <2> QED
    BY ZenonT(60), <1>4, <2>2
<1> QED
  BY ZenonT(60), <1>6, <1>7, <1>8

LEMMA DetectorInitInv ==
  ASSUME DetectorAssumptions, DetectorInit
  PROVE  DetectorInv
<1>1. document \in Seq(Entries) /\ polling = FALSE /\ detected = <<>>
  BY ZenonT(60) DEF DetectorAssumptions, DetectorInit
<1>2. detected \in Seq(Range(detected))
  BY <1>1
<1> QED
  BY ZenonT(60), <1>1, <1>2 DEF DetectorInv

\* A committed change brings every entry of its item up to date, unless the entries differ.
LEMMA CommitStep ==
  ASSUME DetectorInv, Commit
  PROVE  DetectorInv'
<1> DEFINE h == Head(detected)
<1>1. /\ polling /\ detected # <<>> /\ document' = document /\ polling' = polling
      /\ detected' = Tail(detected)
      /\ seen' = {row \in seen : row.id # h.id} \cup {[id |-> h.id, hash |-> h.hash]}
      /\ detected \in Seq(Range(detected)) /\ document \in Seq(Entries) /\ polling \in BOOLEAN
  BY ZenonT(60) DEF Commit, DetectorInv
<1>2. /\ DOMAIN detected = 1 .. Len(detected) /\ Len(detected) \in Nat \ {0} /\ 1 \in DOMAIN detected
      /\ h = detected[1] /\ DOMAIN detected' = 1 .. (Len(detected) - 1)
      /\ \A k \in DOMAIN detected' : k + 1 \in DOMAIN detected /\ detected'[k] = detected[k + 1]
  BY ONLY Z3T(30), ZenonT(20), SMTT(30), <1>1
<1>3. detected' \in Seq(Range(detected'))
  <2>1. DOMAIN detected' = 1 .. Len(detected') /\ Len(detected') \in Nat
    BY ONLY Z3T(30), ZenonT(20), SMTT(30), <1>1
  <2>2. \A k \in DOMAIN detected' : detected'[k] \in Range(detected')
    BY ZenonT(60) DEF Range
  <2>3. detected' \in Seq(Range(detected))
    BY ONLY Z3T(30), ZenonT(20), SMTT(30), <1>1
  <2> QED
    BY ONLY Z3T(30), ZenonT(20), SMTT(30), <2>1, <2>2, <2>3
<1>4. \A k \in DOMAIN detected' : \E i \in DOMAIN document : Lists(k, document[i])'
  <2> SUFFICES ASSUME NEW k \in DOMAIN detected'
               PROVE  \E i \in DOMAIN document : Lists(k, document[i])'
    OBVIOUS
  <2>1. PICK i \in DOMAIN document : Lists(k + 1, document[i])
    BY ZenonT(60), <1>1, <1>2 DEF DetectorInv
  <2>2. Lists(k, document[i])'
    BY ZenonT(60), <1>1, <1>2, <2>1 DEF Lists
  <2> QED
    BY <2>2
<1>5. ASSUME ~Ambiguous(document), NEW i \in DOMAIN document
      PROVE  Same(document[i])' \/ \E k \in DOMAIN detected' : Lists(k, document[i])'
  <2> DEFINE e == document[i]
  <2>0. IdentityKey(e)' = IdentityKey(e) /\ ContentHash(e)' = ContentHash(e)
    BY ZenonT(60), <1>1
  <2>1. CASE IdentityKey(e) = h.id
    <3>1. PICK j \in DOMAIN document : Lists(1, document[j])
      BY ZenonT(60), <1>1, <1>2 DEF DetectorInv
    <3>2. ContentHash(e) = h.hash
      <4>1. h.id = IdentityKey(document[j]) /\ h.hash = ContentHash(document[j])
        BY ZenonT(60), <1>2, <3>1 DEF Lists
      <4> QED
        BY ZenonT(60), <1>5, <2>1, <4>1 DEF Ambiguous
    <3>3. \E row \in seen' : row.id = IdentityKey(e) /\ row.hash = ContentHash(e)
      <4>1. [id |-> h.id, hash |-> h.hash] \in seen'
        BY ZenonT(60), <1>1
      <4> QED
        BY ZenonT(60), <2>1, <3>2, <4>1
    <3> QED
      BY ZenonT(60), <2>0, <3>3 DEF Same
  <2>2. CASE IdentityKey(e) # h.id /\ Same(e)
    BY ZenonT(60), <1>1, <2>0, <2>2 DEF Same
  <2>3. CASE IdentityKey(e) # h.id /\ ~Same(e)
    <3>1. PICK k \in DOMAIN detected : Lists(k, e)
      BY ZenonT(60), <1>1, <1>5, <2>3 DEF DetectorInv
    <3>2. k # 1
      BY ZenonT(60), <1>2, <2>3, <3>1 DEF Lists
    <3>3. k - 1 \in DOMAIN detected' /\ k - 1 + 1 = k
      BY ONLY Z3T(30), ZenonT(20), SMTT(30), <1>2, <3>2, k \in DOMAIN detected
    <3>4. detected'[k - 1] = detected[k]
      BY ZenonT(60), <1>2, <3>3
    <3>5. Lists(k - 1, e)'
      BY ZenonT(60), <2>0, <3>1, <3>4 DEF Lists
    <3> QED
      BY ZenonT(60), <3>3, <3>5
  <2> QED
    BY <2>1, <2>2, <2>3
<1>6. Ambiguous(document)' = Ambiguous(document)
  BY ZenonT(60), <1>1
<1>7. (\A k \in DOMAIN detected : \E i \in DOMAIN document : Lists(k, document[i]))'
  BY ZenonT(60), <1>1, <1>4
<1>8. (~Ambiguous(document) => \A i \in DOMAIN document :
          Same(document[i]) \/ \E k \in DOMAIN detected : Lists(k, document[i]))'
  <2> SUFFICES ASSUME ~Ambiguous(document)', NEW i \in DOMAIN document'
               PROVE  Same(document[i])' \/ \E k \in DOMAIN detected' : Lists(k, document[i])'
    BY ZenonT(60)
  <2>1. ~Ambiguous(document) /\ i \in DOMAIN document
    BY ZenonT(60), <1>1, <1>6
  <2> QED
    BY ZenonT(60), <1>5, <2>1
<1>9. document' \in Seq(Entries) /\ polling' \in BOOLEAN
  BY ZenonT(60), <1>1
<1> QED
  BY ZenonT(60), <1>3, <1>7, <1>8, <1>9 DEF DetectorInv

\* A poll lists every entry whose row is not up to date.
LEMMA PollStep ==
  ASSUME DetectorAssumptions, DetectorInv, Poll
  PROVE  DetectorInv'
<1>1. /\ document' = document /\ polling' = TRUE /\ detected' = Detect(document) /\ seen' = seen
      /\ document \in Seq(Entries)
  BY ZenonT(60) DEF Poll, DetectorInv
<1>2. IsDocument(document)
  BY ZenonT(60), <1>1, DocumentIsDocument
<1>3. /\ detected' \in Seq(Range(detected'))
      /\ \A k \in DOMAIN detected' : \E i \in DOMAIN document :
           /\ detected'[k].id = IdentityKey(document[i])
           /\ detected'[k].hash = ContentHash(document[i])
      /\ \A i \in News(document) : \E k \in DOMAIN detected' :
           /\ detected'[k].id = IdentityKey(document[i])
           /\ detected'[k].hash = ContentHash(document[i])
  BY ZenonT(60), <1>1, <1>2, DetectLists
<1>4. \A i \in DOMAIN document : /\ IdentityKey(document[i])' = IdentityKey(document[i])
                                 /\ ContentHash(document[i])' = ContentHash(document[i])
  BY ZenonT(60), <1>1
<1>5. (\A k \in DOMAIN detected : \E i \in DOMAIN document : Lists(k, document[i]))'
  BY ZenonT(60), <1>1, <1>3, <1>4 DEF Lists
<1>6. ASSUME NEW i \in DOMAIN document'
      PROVE  Same(document[i])' \/ \E k \in DOMAIN detected' : Lists(k, document[i])'
  <2>1. CASE i \in News(document)
    BY ZenonT(60), <1>1, <1>3, <1>4, <2>1 DEF Lists
  <2>2. CASE Same(document[i])
    BY ZenonT(60), <1>1, <1>4, <1>6, <2>2 DEF Same
  <2> QED
    BY ZenonT(60), <1>1, <1>6, <2>1, <2>2 DEF News
<1>7. document' \in Seq(Entries) /\ polling' \in BOOLEAN
  BY ZenonT(60), <1>1
<1> QED
  BY ZenonT(60), <1>3, <1>5, <1>6, <1>7 DEF DetectorInv

\* Another version of the document may come once the poll is over.
LEMMA NextVersionStep ==
  ASSUME DetectorInv, NextVersion
  PROVE  DetectorInv'
<1>1. PICK k \in DOMAIN document, e \in Entries : document' = [document EXCEPT ![k] = e]
  BY ZenonT(60) DEF NextVersion
<1>2. document \in Seq(Entries) /\ polling' = FALSE /\ detected' = detected
      /\ detected \in Seq(Range(detected))
  BY ZenonT(60) DEF DetectorInv, NextVersion
<1>3. document' \in Seq(Entries)
  BY ONLY Z3T(30), ZenonT(20), SMTT(30), <1>1, <1>2
<1>4. detected' \in Seq(Range(detected'))
  BY ZenonT(60), <1>2
<1> QED
  BY ZenonT(60), <1>2, <1>3, <1>4 DEF DetectorInv

\* White space that the hash leaves out, and a description beside a content, make no news.
LEMMA RespacedSame ==
  ASSUME NEW d, IsDocument(d), NEW r \in {d} \cup Respaced(d)
  PROVE  /\ DOMAIN r = DOMAIN d
         /\ \A i \in DOMAIN d : /\ IdentityKey(r[i]) = IdentityKey(d[i])
                                /\ ContentHash(r[i]) = ContentHash(d[i])
<1>0. \A i \in DOMAIN d : d[i] \in FeedEntry
  BY ZenonT(60), DocumentFacts
<1>1. CASE r = d
  BY ZenonT(60), <1>1
<1>2. ASSUME NEW k \in DOMAIN d, NEW e,
             r = [d EXCEPT ![k] = e],
             IdentityKey(e) = IdentityKey(d[k]), ContentHash(e) = ContentHash(d[k])
      PROVE  /\ DOMAIN r = DOMAIN d
             /\ \A i \in DOMAIN d : /\ IdentityKey(r[i]) = IdentityKey(d[i])
                                    /\ ContentHash(r[i]) = ContentHash(d[i])
  <2>1. DOMAIN r = DOMAIN d /\ \A i \in DOMAIN d : r[i] = IF i = k THEN e ELSE d[i]
    BY ZenonT(60), <1>2
  <2> QED
    BY ZenonT(60), <1>2, <2>1
<1>3. ASSUME NEW k \in DOMAIN d, NEW s, r = [d EXCEPT ![k].spaced = s],
             HasKey(d[k]) \/ (d[k].spaced # "inside" /\ s # "inside")
      PROVE  /\ DOMAIN r = DOMAIN d
             /\ \A i \in DOMAIN d : /\ IdentityKey(r[i]) = IdentityKey(d[i])
                                    /\ ContentHash(r[i]) = ContentHash(d[i])
  <2> DEFINE e == [d[k] EXCEPT !.spaced = s]
  <2>1. r = [d EXCEPT ![k] = e]
    BY ZenonT(60), <1>3
  <2>2. /\ e.guid = d[k].guid /\ e.link = d[k].link /\ e.title = d[k].title /\ e.pub = d[k].pub
        /\ e.content = d[k].content /\ e.desc = d[k].desc /\ e.spaced = s
    BY <1>0 DEF FeedEntry
  <2> HIDE DEF e
  <2>3. IdentityKey(e) = IdentityKey(d[k])
    BY ZenonT(60), <1>3, <2>2 DEF IdentityKey, HasKey
  <2>4. ContentHash(e) = ContentHash(d[k])
    BY ZenonT(60), <2>2 DEF ContentHash, body
  <2> QED
    BY ZenonT(60), <1>2, <2>1, <2>3, <2>4
<1>4. ASSUME NEW k \in DOMAIN d, NEW t, r = [d EXCEPT ![k].desc = t], d[k].content # ""
      PROVE  /\ DOMAIN r = DOMAIN d
             /\ \A i \in DOMAIN d : /\ IdentityKey(r[i]) = IdentityKey(d[i])
                                    /\ ContentHash(r[i]) = ContentHash(d[i])
  <2> DEFINE e == [d[k] EXCEPT !.desc = t]
  <2>1. r = [d EXCEPT ![k] = e]
    BY ZenonT(60), <1>4
  <2>2. /\ e.guid = d[k].guid /\ e.link = d[k].link /\ e.title = d[k].title /\ e.pub = d[k].pub
        /\ e.content = d[k].content /\ e.spaced = d[k].spaced
    BY <1>0 DEF FeedEntry
  <2> HIDE DEF e
  <2>3. IdentityKey(e) = IdentityKey(d[k])
    BY ZenonT(60), <2>2 DEF IdentityKey
  <2>4. ContentHash(e) = ContentHash(d[k])
    BY ZenonT(60), <1>4, <2>2 DEF ContentHash, body
  <2> QED
    BY ZenonT(60), <1>2, <2>1, <2>3, <2>4
<1> QED
  BY ZenonT(60), <1>1, <1>3, <1>4 DEF Respaced

LEMMA DetectorInvImplies ==
  ASSUME DetectorAssumptions, DetectorInv
  PROVE  QuietWithoutNews
<1> SUFFICES ASSUME Polled, ~Ambiguous(document), NEW r \in {document} \cup Respaced(document)
             PROVE  Detect(r) = <<>>
  BY ZenonT(60) DEF QuietWithoutNews
<1>1. \A i \in DOMAIN document : Same(document[i])
  <2>1. detected = <<>> /\ polling
    BY ZenonT(60) DEF Polled
  <2>2. DOMAIN detected = {}
    BY <2>1
  <2> QED
    BY ZenonT(60), <2>1, <2>2 DEF DetectorInv
<1>2. IsDocument(document)
  BY ZenonT(60), DocumentIsDocument DEF DetectorInv
<1>3. \A i \in DOMAIN r : Same(r[i])
  BY ZenonT(60), <1>1, <1>2, RespacedSame DEF Same
<1>4. News(r) = {}
  BY ZenonT(60), <1>3 DEF News
<1>5. Cardinality(News(r)) = 0
  BY ZenonT(60), <1>4, FS_EmptySet
<1>6. 1 .. 0 = {}
  OBVIOUS
<1>7. DOMAIN Detect(r) = {} /\ Detect(r) = [k \in {} |-> ChangeOf(r[OldestFirst(r, News(r))[k]])]
  BY ZenonT(60), <1>5, <1>6 DEF Detect
<1> QED
  BY <1>7

\* Once a poll has committed its changes, polling the document again detects nothing,
\* also if only white space changed (Detector.QuietWithoutNews), for documents of any
\* length with any dates and contents, and however often they change.
THEOREM PollsAreQuiet == DetectorSpec => []QuietWithoutNews
<1>1. DetectorInit => DetectorInv
  BY DetectorInitInv, DetectorAssumptions
<1>2. DetectorInv /\ [DetectorNext]_detectorVars => DetectorInv'
  <2>1. ASSUME DetectorInv, UNCHANGED detectorVars
        PROVE  DetectorInv'
    BY ZenonT(60), <2>1 DEF detectorVars, DetectorInv, Lists, Same
  <2> QED
    BY <2>1, PollStep, CommitStep, NextVersionStep, DetectorAssumptions DEF DetectorNext
<1>3. DetectorInv => QuietWithoutNews
  BY DetectorInvImplies, DetectorAssumptions
<1> QED
  BY <1>1, <1>2, <1>3, PTL DEF DetectorSpec
=============================================================================
