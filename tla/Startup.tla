------------------------------ MODULE Startup ------------------------------
(* A configuration on its way to a running backend: Validate, and then the     *)
(* constructor of the driver, for every driver and every setting of it.        *)
EXTENDS BackendSettings

VARIABLES part,      \* the driver that is configured, or "timers"
          setting,
          startPhase \* read, then accepted or rejected, then built, refused or panicked

startVars == <<part, setting, startPhase>>

Parts == [
  kafka |-> KafkaSettings, sqs |-> QueueSettings, sns |-> QueueSettings,
  dynamodb |-> DynamoSettings, gcp_pubsub |-> PubsubSettings, stdout |-> StdoutSettings,
  http |-> HttpSettings, grpc |-> GrpcSettings, amqp091 |-> Amqp091Settings,
  amqp10 |-> Amqp10Settings, rabbitmq_stream |-> StreamSettings,
  azureservicebus |-> ServiceBusSettings, cosmosdb |-> CosmosSettings,
  dapr_pubsub |-> DaprSettings, nats |-> NatsSettings, postgres |-> PostgresSettings,
  feed |-> FeedSettings, state_postgres |-> StatePgSettings,
  state_sqlite |-> StateSqliteSettings, state_dynamodb |-> StateDynamoSettings,
  state_cosmosdb |-> StateCosmosSettings, coord_postgres |-> CoordPgSettings,
  coord_redis |-> CoordRedisSettings, coord_dynamodb |-> CoordDynamoSettings,
  coord_cosmosdb |-> CoordCosmosSettings, timers |-> TimerSettings]

StartupInit == \E p \in DOMAIN Parts : part = p /\ setting \in Parts[p] /\ startPhase = "read"

\* validate: the rules of the part (the others hold or fail by themselves).
Accepts(s) ==
  CASE part = "kafka" -> ValidKafka(s)     [] part = "sqs" -> ValidSqs(s)
    [] part = "sns" -> ValidSns(s)         [] part = "dynamodb" -> ValidDynamo(s)
    [] part = "gcp_pubsub" -> ValidPubsub(s) [] part = "stdout" -> ValidStdout(s)
    [] part = "http" -> ValidHttp(s)       [] part = "grpc" -> ValidGrpc(s)
    [] part = "amqp091" -> ValidAmqp091(s) [] part = "amqp10" -> ValidAmqp10(s)
    [] part = "rabbitmq_stream" -> ValidStream(s)
    [] part = "azureservicebus" -> ValidServiceBus(s)
    [] part = "cosmosdb" -> ValidCosmos(s) [] part = "dapr_pubsub" -> ValidDapr(s)
    [] part = "nats" -> ValidNats(s)       [] part = "postgres" -> ValidPostgres(s)
    [] part = "feed" -> ValidFeed(s)
    [] part = "state_postgres" -> ValidStatePg(s)
    [] part = "state_sqlite" -> ValidStateSqlite(s)
    [] part = "state_dynamodb" -> ValidStateDynamo(s)
    [] part = "state_cosmosdb" -> ValidStateCosmos(s)
    [] part = "coord_postgres" -> ValidCoordPg(s)
    [] part = "coord_redis" -> ValidCoordRedis(s)
    [] part = "coord_dynamodb" -> ValidCoordDynamo(s)
    [] part = "coord_cosmosdb" -> ValidCoordCosmos(s)
    [] part = "timers" -> ValidLease(s.lock_ttl) /\ ValidRenewal(s) /\ ValidAssignment(s)

Validate ==
  /\ startPhase = "read"
  /\ startPhase' = IF Accepts(setting) THEN "accepted" ELSE "rejected"
  /\ UNCHANGED <<part, setting>>

\* buildPublisher, openStateStore and openCoordinator.
buildPublisher(s) ==
  CASE part = "kafka" -> NewKafka(s)     [] part = "sqs" -> NewSqs(s)
    [] part = "sns" -> NewSns(s)         [] part = "dynamodb" -> NewDynamo(s)
    [] part = "gcp_pubsub" -> NewPubsub(s) [] part = "stdout" -> NewStdout(s)
    [] part = "http" -> NewHttp(s)       [] part = "grpc" -> NewGrpc(s)
    [] part = "amqp091" -> NewAmqp091(s) [] part = "amqp10" -> NewAmqp10(s)
    [] part = "rabbitmq_stream" -> NewStream(s)
    [] part = "azureservicebus" -> NewServiceBus(s)
    [] part = "cosmosdb" -> NewCosmos(s) [] part = "dapr_pubsub" -> NewDapr(s)
    [] part = "nats" -> NewNats(s)       [] part = "postgres" -> NewPostgres(s)
    [] part = "feed" -> NewFeed(s)

openStateStore(s) ==
  CASE part = "state_postgres" -> NewStatePg(s)   [] part = "state_sqlite" -> NewStateSqlite(s)
    [] part = "state_dynamodb" -> NewStateDynamo(s) [] part = "state_cosmosdb" -> NewStateCosmos(s)

openCoordinator(s) ==
  CASE part = "coord_postgres" -> NewCoordPg(s)     [] part = "coord_redis" -> buildClient(s)
    [] part = "coord_dynamodb" -> NewCoordDynamo(s) [] part = "coord_cosmosdb" -> NewCoordCosmos(s)
    [] part = "timers" -> TRUE

Stores == {"state_postgres", "state_sqlite", "state_dynamodb", "state_cosmosdb"}
Coordinators == {"coord_postgres", "coord_redis", "coord_dynamodb", "coord_cosmosdb", "timers"}

NewAccepts(s) ==
  CASE part \in Stores -> openStateStore(s) [] part \in Coordinators -> openCoordinator(s)
    [] OTHER -> buildPublisher(s)

Construct ==
  /\ startPhase = "accepted"
  /\ startPhase' = CASE part = "feed" /\ PanicsFeed(setting) -> "panicked"
                     [] ~NewAccepts(setting) -> "refused"
                     [] OTHER -> "built"
  /\ UNCHANGED <<part, setting>>

StartupNext == Validate \/ Construct

-----------------------------------------------------------------------------
\* A validated lease that is not renewed, or an entry whose heartbeat does not come,
\* before it ends; or a ticker whose period is not positive, which panics.
TooLate ==
  \/ ResolvedRenewal(setting) \notin 1 .. ResolvedLock(setting) - 1
  \/ \E ttl \in {RedisMemberTTL(setting), PostgresMemberTTL(setting),
                 DynamoMemberTTL(setting), CosmosMemberTTL(setting)} :
       ttl <= ResolvedHeartbeat(setting)

\* validate.go:123: "A nil error means the config is usable".
Unusable ==
  \/ startPhase \in {"refused", "panicked"}
  \/ part = "timers" /\ startPhase = "built" /\ TooLate

\* Values that Validate trims and the constructors take as they are.
Untrimmed == part # "timers" /\ \E f \in DOMAIN setting : setting[f] \in {"blank", "padded"}

\* The addresses, DSNs and connection strings of a part that its client will parse.
Addresses(s) ==
  CASE part = "kafka" -> {s.brokers}    [] part = "gcp_pubsub" -> {s.endpoint}
    [] part = "grpc" -> {s.target}      [] part \in {"amqp091", "amqp10", "nats"} -> {s.url}
    [] part = "rabbitmq_stream" -> IF Has(s.uris) THEN {s.uris} ELSE {s.url}
    [] part = "azureservicebus" -> {s.connection, s.namespace}
    [] part \in {"cosmosdb", "state_cosmosdb", "coord_cosmosdb"} -> {s.connection, s.endpoint}
    [] part = "dapr_pubsub" -> {s.address}
    [] part \in {"postgres", "state_postgres"} -> {s.dsn}
    [] part = "feed" -> IF s.store = "postgres" THEN {s.place} ELSE {}
    [] part = "coord_postgres" -> {CheckedDSN(s)}
    [] OTHER -> {}

\* What Validate leaves to the constructors. It never parses an address, nor an Avro
\* schema, and it reads a Redis URL more freely than the client. With DynamoDB and
\* Cosmos DB an unset member_ttl is the lease's duration, where Validate takes 30s.
Unchecked ==
  \/ "bad" \in Addresses(setting)
  \/ part = "coord_redis" /\ setting.url = "odd"
  \/ part = "kafka" /\ Has(setting.url) /\ setting.format = "avro" /\ ~Known(setting.schema)
  \/ part = "kafka" /\ (~Has(setting.brokers) \/ ~Has(setting.topic)
                        \/ ~Known(setting.acks) \/ ~Known(setting.compression))
  \/ part = "postgres" /\ (~Has(setting.dsn) \/ ~Known(setting.table))
  \/ part = "feed" /\ (setting.mcp = "/" \/ (setting.store = "sqlite" /\ ~Known(setting.table)))
  \/ part = "state_dynamodb" /\ Has(setting.ttl_attribute) /\ ~Has(setting.item_ttl)
  \/ /\ part = "timers" /\ setting.member_ttl = 0
     /\ \E ttl \in {DynamoMemberTTL(setting), CosmosMemberTTL(setting)} :
          ttl <= ResolvedHeartbeat(setting)

=============================================================================
