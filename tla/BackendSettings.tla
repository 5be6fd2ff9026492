--------------------------- MODULE BackendSettings ---------------------------
(* The settings of the state stores and of the coordinators: Validate against  *)
(* the constructors, as in SinkSettings, and the durations they resolve to.    *)
EXTENDS SinkSettings, Integers

\* A DSN may switch TLS off; pgSSLModeIsDisable.
Dsn == Address \cup {"disable"}
\* ca stands for the TLS fields other than the client certificate.
TLSSet(s) == Has(s.ca) \/ TLSFromConfig(s)
ValidPgTLS(s, dsn) == (TLSSet(s) => dsn # "disable") /\ Pair(s.cert, s.key)

StatePgSettings ==
  [dsn : Dsn, ca : Flag, cert : Flag, key : Flag, item_ttl : Choice, cleanup : Choice]
ValidItemTTL(s) == Known(s.item_ttl)                  \* "bad" is negative
ValidCleanup(s) == Known(s.cleanup) /\ (Has(s.cleanup) => Has(s.item_ttl))
ValidStatePg(s) == Given(s.dsn) /\ ValidPgTLS(s, s.dsn) /\ ValidItemTTL(s) /\ ValidCleanup(s)
NewStatePg(s) == Known(s.dsn) /\ BuildTLS(s)

StateSqliteSettings == [path : Text, item_ttl : Choice, cleanup : Choice]
ValidStateSqlite(s) == Given(s.path) /\ ValidItemTTL(s) /\ ValidCleanup(s)
NewStateSqlite(s) == TRUE

StateDynamoSettings == [table : Text, ttl_attribute : Text, item_ttl : Choice]
ValidStateDynamo(s) ==
  Given(s.table) /\ ValidItemTTL(s) /\ (Has(s.item_ttl) => Given(s.ttl_attribute))
NewStateDynamo(s) == Has(s.table) /\ (Has(s.ttl_attribute) <=> s.item_ttl = "ok")

StateCosmosSettings ==
  [endpoint : Address, connection : Address, database : Text, item_ttl : Choice]
ValidStateCosmos(s) ==
  One(Given(s.endpoint), Given(s.connection)) /\ Given(s.database) /\ ValidItemTTL(s)
NewStateCosmos(s) == CosmosClient(s) /\ Has(s.database) /\ Known(s.item_ttl)

-----------------------------------------------------------------------------
(* Coordination *)

\* Validate falls back to state.postgres.dsn when the DSN is blank,
\* openCoordinator only when it is empty.
CoordPgSettings == [dsn : Dsn, state_dsn : Dsn, ca : Flag, cert : Flag, key : Flag]
CheckedDSN(s) == IF Given(s.dsn) THEN s.dsn ELSE s.state_dsn
ValidCoordPg(s) == Given(CheckedDSN(s)) /\ ValidPgTLS(s, CheckedDSN(s))
UsedDSN(s) == IF Has(s.dsn) THEN s.dsn ELSE s.state_dsn
NewCoordPg(s) == Has(UsedDSN(s)) /\ Known(UsedDSN(s)) /\ BuildTLS(s)

\* Validate reads the URL by redisparseURL, the client by redis.ParseURL: "odd" is a
\* rediss URL (with an unknown option, say) that only the first takes.
CoordRedisSettings ==
  [mode : {"", "single", "sentinel", "cluster", "bad"},
   url : {"", "blank", "redis", "rediss", "odd", "bad"},
   master : Text, sentinels : Flag, nodes : Flag, ca : Flag, cert : Flag, key : Flag]
SentinelSet(s) == Has(s.master) \/ Has(s.sentinels)
ValidCoordRedis(s) ==
  /\ \/ /\ s.mode \in {"", "single"} /\ ~SentinelSet(s) /\ ~Has(s.nodes)
        /\ s.url \in {"redis", "rediss", "odd"} /\ (TLSSet(s) => s.url # "redis")
     \/ /\ s.mode = "sentinel" /\ ~Given(s.url) /\ ~Has(s.nodes)
        /\ Given(s.master) /\ Has(s.sentinels)
     \/ s.mode = "cluster" /\ ~Given(s.url) /\ ~SentinelSet(s) /\ Has(s.nodes)
  /\ Pair(s.cert, s.key)
buildClient(s) ==
  \/ /\ s.mode \in {"", "single"} /\ s.url \in {"redis", "rediss"}
     /\ TLSSet(s) => s.url = "rediss" /\ BuildTLS(s)
  \/ s.mode \in {"sentinel", "cluster"} /\ BuildTLS(s)

CoordDynamoSettings == [table : Text]
ValidCoordDynamo(s) == Given(s.table)
NewCoordDynamo(s) == Has(s.table)

CoordCosmosSettings == [endpoint : Address, connection : Address, database : Text]
ValidCoordCosmos(s) == One(Given(s.endpoint), Given(s.connection)) /\ Given(s.database)
NewCoordCosmos(s) == CosmosClient(s) /\ Has(s.database)

-----------------------------------------------------------------------------
(* Durations, in thirds of a second; 0 is unset and negative values are legal  *)
(* to write down.                                                              *)

Second == 3
Duration == {-1, 0, 1, Second, 5 * Second, 10 * Second, 30 * Second, 60 * Second}
TimerSettings ==
  [lock_ttl : Duration, renewal : Duration, heartbeat : Duration, member_ttl : Duration]

OrDefault(d, default) == IF d <= 0 THEN default ELSE d
Unset(d, default) == IF d = 0 THEN default ELSE d

\* lock_ttl of Redis, lease_duration of DynamoDB and Cosmos DB.
ValidLease(d) == d # 0 => d >= Second
ValidRenewal(s) == s.renewal # 0 => s.renewal < Unset(s.lock_ttl, 30 * Second)
ValidAssignment(s) ==
  /\ s.heartbeat >= 0 /\ s.member_ttl >= 0
  /\ Unset(s.member_ttl, 30 * Second) > Unset(s.heartbeat, 10 * Second)

\* resolved; newWithClient and newWithContainer; NewOwnerProvider; Membership.
ResolvedLock(s) == OrDefault(s.lock_ttl, 30 * Second)
ResolvedRenewal(s) == OrDefault(s.renewal, ResolvedLock(s) \div 3)
ResolvedHeartbeat(s) == OrDefault(s.heartbeat, 10 * Second)
RedisMemberTTL(s) == OrDefault(s.member_ttl, 30 * Second)
PostgresMemberTTL(s) == OrDefault(s.member_ttl, 30 * Second)
DynamoMemberTTL(s) == OrDefault(s.member_ttl, OrDefault(s.lock_ttl, 60 * Second))
CosmosMemberTTL(s) == OrDefault(s.member_ttl, OrDefault(s.lock_ttl, 60 * Second))
=============================================================================
