----------------------------- MODULE StateStore -----------------------------
(* The state drivers (internal/state), the sweeper   (internal/statecleanup)   *)
(* and the admin prune, for one item and one feed's metadata. Time is counted   *)
(* in half seconds, relative to now: a row has the age of its last_seen_at or    *)
(* updated_at, and half says in which half of a second now is, for the formats   *)
(* that keep whole seconds only.                                                  *)
EXTENDS Integers

CONSTANTS StoreDriver, TTLs, HashVal, EtagVal, MaxLag, AgeCap

\* The empty string: no hash, and the zero last_modified.
NoText == ""

ASSUME StoreAssumptions ==
  /\ StoreDriver \subseteq {"postgres", "sqlite", "dynamodb", "cosmosdb"} /\ NoText \notin HashVal
  /\ TTLs \subseteq Nat /\ MaxLag \in Nat /\ AgeCap \in Nat /\ \A t \in TTLs : t + 4 < AgeCap

VARIABLES
  db,         \* the driver
  ttl,        \* item_ttl, 0: none
  half,       \* 0 or 1
  itemRow,    \* content_hash, age of last_seen_at, time until the service may delete it
  metaRow,    \* etag, last_modified, age of updated_at, time until ...
  lastItem,   \* history: the last item written, as the caller passed it
  lastMeta,   \* history: the last metadata written
  sweepAge,   \* age of the cutoff of a sweep that has yet to prune feed_meta
  sweepDue    \* the ticker of the sweeper has fired

storeVars == <<db, ttl, half, itemRow, metaRow, lastItem, lastMeta, sweepAge, sweepDue>>

NoSweep == -1
Forever == -1
NoItem == [hash |-> NoText, age |-> 0, life |-> Forever]
NoMeta == [etag |-> NoText, lm |-> NoText, age |-> 0, life |-> Forever, set |-> FALSE]
Sql == {"postgres", "sqlite"}

StoreInit ==
  /\ db \in StoreDriver /\ ttl \in TTLs /\ half \in 0 .. 1
  /\ itemRow = NoItem /\ metaRow = NoMeta /\ lastItem = NoItem /\ lastMeta = NoMeta
  /\ sweepAge = NoSweep /\ sweepDue = TRUE

Found(row) == row.hash # NoText

\* The second, relative to this one, of the time that is age half seconds ago.
WholeSecond(age) == (half - age) \div 2

-----------------------------------------------------------------------------
\* What the drivers store. SQL rows carry no expiry.
Item(h, lag, life) == [hash |-> h, age |-> lag, life |-> life]
PgItem(h, lag) == Item(h, lag, Forever)
SqliteItem(h, lag) == Item(h, lag, Forever)

\* ttl_attribute: the time of sighting plus item_ttl, cut to whole seconds.
FromNow(second) == IF 2 * second - half < 0 THEN 0 ELSE 2 * second - half
DynamoItem(h, lag) == Item(h, lag, IF ttl > 0 THEN FromNow(WholeSecond(lag - ttl)) ELSE Forever)

\* ttl: whole seconds, at least one, from the write on.
CosmosLife == IF ttl = 0 THEN Forever ELSE IF ttl < 2 THEN 2 ELSE 2 * (ttl \div 2)
CosmosItem(h, lag) == Item(h, lag, CosmosLife)

\* The zero last_modified is NULL, left out, or "" ...
Meta(e, lm, life) == [etag |-> e, lm |-> lm, age |-> 0, life |-> life, set |-> TRUE]
PgMeta(e, lm) == Meta(e, IF lm = NoText THEN "null" ELSE lm, Forever)
SqliteMeta(e, lm) == Meta(e, IF lm = NoText THEN "null" ELSE lm, Forever)
DynamoMeta(e, lm) ==
  Meta(e, IF lm = NoText THEN "absent" ELSE lm, IF ttl > 0 THEN FromNow(WholeSecond(0 - ttl)) ELSE Forever)
CosmosMeta(e, lm) == Meta(e, lm, CosmosLife)

\* ... and read back as zero.
PgTime(v) == IF v = "null" THEN NoText ELSE v
SqliteTime(v) == IF v \in {"null", NoText} THEN NoText ELSE v
DynamoTime(v) == IF v \in {"absent", NoText} THEN NoText ELSE v
CosmosTime(v) == v

UpsertItem(h, lag) ==
  /\ itemRow' = CASE db = "postgres" -> PgItem(h, lag) [] db = "sqlite" -> SqliteItem(h, lag)
                   [] db = "dynamodb" -> DynamoItem(h, lag) [] db = "cosmosdb" -> CosmosItem(h, lag)
  /\ lastItem' = itemRow'
  /\ UNCHANGED <<db, ttl, half, metaRow, lastMeta, sweepAge, sweepDue>>

UpsertFeedMeta(e, lm) ==
  /\ metaRow' = CASE db = "postgres" -> PgMeta(e, lm) [] db = "sqlite" -> SqliteMeta(e, lm)
                   [] db = "dynamodb" -> DynamoMeta(e, lm) [] db = "cosmosdb" -> CosmosMeta(e, lm)
  /\ lastMeta' = [metaRow' EXCEPT !.lm = lm]
  /\ UNCHANGED <<db, ttl, half, itemRow, lastItem, sweepAge, sweepDue>>

GetFeedMeta ==
  [metaRow EXCEPT !.lm = CASE db = "postgres" -> PgTime(@) [] db = "sqlite" -> SqliteTime(@)
                           [] db = "dynamodb" -> DynamoTime(@) [] db = "cosmosdb" -> CosmosTime(@)]

\* WHERE last_seen_at < cutoff
PgBefore(age, cut) == age > cut
\* WHERE datetime(last_seen_at) < datetime(cutoff), in whole seconds
SqliteNotAfter(age, cut) == WholeSecond(age) <= WholeSecond(cut)
SqliteBefore(age, cut) == WholeSecond(age) < WholeSecond(cut)

Before(age, cut) == IF db = "sqlite" THEN SqliteBefore(age, cut) ELSE PgBefore(age, cut)
\* DynamoDB and Cosmos DB leave pruning to the service.
Prunes(age, cut) == db \in Sql /\ Before(age, cut)

PruneItems(cut) == IF Found(itemRow) /\ Prunes(itemRow.age, cut) THEN NoItem ELSE itemRow
PruneFeedMeta(cut) == IF metaRow.set /\ Prunes(metaRow.age, cut) THEN NoMeta ELSE metaRow

\* serve starts the sweeper for a SQL store with an item_ttl.
Sweeps == ttl > 0 /\ db \in Sql

\* One sweep: the cutoff is computed once; metadata follow if items did not fail.
SweepItems ==
  /\ Sweeps /\ sweepDue /\ sweepAge = NoSweep
  /\ \/ itemRow' = PruneItems(ttl) /\ sweepAge' = ttl
     \/ UNCHANGED <<itemRow, sweepAge>>
  /\ sweepDue' = FALSE
  /\ UNCHANGED <<db, ttl, half, metaRow, lastItem, lastMeta>>

SweepFeedMeta ==
  /\ sweepAge # NoSweep /\ sweepAge' = NoSweep
  /\ metaRow' \in {PruneFeedMeta(sweepAge), metaRow}
  /\ UNCHANGED <<db, ttl, half, itemRow, lastItem, lastMeta, sweepDue>>

SweepTicks ==
  /\ Sweeps /\ ~sweepDue /\ sweepDue' = TRUE
  /\ UNCHANGED <<db, ttl, half, itemRow, metaRow, lastItem, lastMeta, sweepAge>>

\* The admin API's prune with its default, item_ttl; metadata follow if items did
\* not fail.
handlePrune ==
  /\ ttl > 0
  /\ \/ itemRow' = PruneItems(ttl) /\ metaRow' \in {PruneFeedMeta(ttl), metaRow}
     \/ UNCHANGED <<itemRow, metaRow>>
  /\ UNCHANGED <<db, ttl, half, lastItem, lastMeta, sweepAge, sweepDue>>

\* The service deletes a row some time after its expiry.
ServiceExpires ==
  /\ \/ Found(itemRow) /\ itemRow.life = 0 /\ itemRow' = NoItem /\ UNCHANGED metaRow
     \/ metaRow.set /\ metaRow.life = 0 /\ metaRow' = NoMeta /\ UNCHANGED itemRow
  /\ UNCHANGED <<db, ttl, half, lastItem, lastMeta, sweepAge, sweepDue>>

Older(age) == IF age < AgeCap THEN age + 1 ELSE age
Shorter(life) == IF life > 0 THEN life - 1 ELSE life
Aged(row, set) == IF set THEN [row EXCEPT !.age = Older(@), !.life = Shorter(@)] ELSE row

HalfSecond ==
  /\ half' = 1 - half
  /\ itemRow' = Aged(itemRow, Found(itemRow)) /\ lastItem' = Aged(lastItem, Found(lastItem))
  /\ metaRow' = Aged(metaRow, metaRow.set) /\ lastMeta' = Aged(lastMeta, lastMeta.set)
  /\ sweepAge' = IF sweepAge = NoSweep THEN NoSweep ELSE Older(sweepAge)
  /\ UNCHANGED <<db, ttl, sweepDue>>

StoreNext ==
  \/ \E h \in HashVal, lag \in 0 .. MaxLag : UpsertItem(h, lag)
  \/ \E e \in EtagVal, lm \in {NoText, "t"} : UpsertFeedMeta(e, lm)
  \/ SweepItems \/ SweepFeedMeta \/ SweepTicks \/ handlePrune \/ ServiceExpires \/ HalfSecond

StoreSpec == StoreInit /\ [][StoreNext]_storeVars

-----------------------------------------------------------------------------
\* A row of this age is to be kept; drivers that store whole seconds may be early.
InTTL(age) == ttl = 0 \/ age <= ttl - (IF db \in Sql THEN 0 ELSE 2)

\* For item_ttl after it was seen an item is found with the hash last written,
\* whatever sweep, prune or service deletes meanwhile; without item_ttl it is kept
\* for good. If it were lost earlier, it would be published again as new. So are the
\* cache validators, which come back as they were stored: a missing Last-Modified is
\* not turned into one.
KeptForTTL ==
  /\ Found(lastItem) /\ InTTL(lastItem.age) => itemRow = lastItem
  /\ lastMeta.set /\ InTTL(lastMeta.age) => GetFeedMeta = lastMeta
=============================================================================
