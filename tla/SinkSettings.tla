---------------------------- MODULE SinkSettings ----------------------------
(* The settings of each sink driver, what Validate accepts of them and what   *)
(* the driver's New accepts. A setting is "" (unset), "blank" (white space),   *)
(* "bad" (set, not a legal value) or "ok"; New sees it as buildPublisher       *)
(* passes it on, untrimmed. A bad address, DSN or connection string is one     *)
(* that the client library refuses to parse. Whether a server answers or a     *)
(* file can be read is not a matter of settings: see Boot.                     *)
EXTENDS Naturals, FiniteSets

Flag == {"", "ok"}
Text == {"", "blank", "ok"}
Choice == {"", "ok", "bad"}
Address == {"", "blank", "ok", "bad"}

\* x != "" and strings.TrimSpace(x) != "".
Has(x) == x # ""
Given(x) == x \notin {"", "blank"}
Known(x) == x # "bad"               \* member of a map that also has ""
Pair(a, b) == Has(a) <=> Has(b)     \* both set or both empty
One(a, b) == a # b                  \* exactly one of two conditions

\* buildTLSConfig runs when a TLS field is set, and then wants the pair. No rule of a
\* sink looks at the CA file, the server name or insecure_skip_verify.
TLSFromConfig(s) == s.cert # "" \/ s.key # ""
BuildTLS(s) == TLSFromConfig(s) => (Has(s.cert) /\ Has(s.key))

ValidClientTLS(s) == Pair(s.cert, s.key)

-----------------------------------------------------------------------------
KafkaSettings ==
  [brokers : Choice, topic : Text, acks : Choice, compression : Choice,
   url : Flag, format : {"", "avro", "ok", "bad"}, schema : Choice,
   user : Flag, pass : Flag, cert : Flag, key : Flag]
Formats == {"avro", "ok"}       \* ok: json or protobuf

\* Validate looks at the schema registry and the TLS files only, and of the schema
\* whether its file exists.
ValidKafka(s) ==
  /\ ValidClientTLS(s)
  /\ IF Has(s.url) THEN s.format \in Formats /\ Pair(s.user, s.pass) ELSE ~Has(s.format)

\* Only the Avro encoder parses the schema.
AvroNew(s) == s.format = "avro" => Known(s.schema)
SchemaNew(s) == Has(s.url) => s.format \in Formats /\ Has(s.topic) /\ AvroNew(s)
NewKafka(s) ==
  /\ s.brokers = "ok" /\ Has(s.topic) /\ Known(s.acks) /\ Known(s.compression)
  /\ BuildTLS(s) /\ SchemaNew(s)

\* The queue URL or topic ARN of the AWS sinks; FIFO ones end in .fifo.
QueueSettings == [queue : {"", "blank", "ok", "fifo"}, group : Choice]
ValidSqs(s) == Given(s.queue) /\ (Has(s.group) => Known(s.group) /\ s.queue = "fifo")
NewSqs(s) == Has(s.queue) /\ (Has(s.group) => Known(s.group) /\ s.queue = "fifo")
ValidSns(s) == Given(s.queue) /\ (Has(s.group) => Known(s.group) /\ s.queue = "fifo")
NewSns(s) == Has(s.queue) /\ (Has(s.group) => Known(s.group) /\ s.queue = "fifo")

DynamoSettings == [table : Text, ttl_attribute : Text, item_ttl : Flag]
ValidDynamo(s) == Given(s.table) /\ (Has(s.item_ttl) => Given(s.ttl_attribute))
NewDynamo(s) == Has(s.table) /\ (Has(s.item_ttl) => Has(s.ttl_attribute))

PubsubSettings == [project : Text, topic : Text, ordering : Choice, endpoint : Choice]
ValidPubsub(s) == Given(s.project) /\ Given(s.topic) /\ Known(s.ordering)
NewPubsub(s) == Has(s.project) /\ Has(s.topic) /\ Known(s.ordering) /\ Known(s.endpoint)

StdoutSettings == [target : Choice, format : Choice]
ValidStdout(s) == Known(s.target) /\ Known(s.format)
NewStdout(s) == Known(s.target) /\ Known(s.format)

\* "padded" is an https URL after a space: Validate trims it, New does not.
HttpSettings ==
  [url : {"", "blank", "http", "https", "padded", "bad"}, http3 : Flag,
   method : Choice, codes : Choice, cert : Flag, key : Flag]
HttpScheme(s, urls) == s.url \in urls /\ (Has(s.http3) => s.url # "http")
ValidHttp(s) ==
  /\ HttpScheme(s, {"http", "https", "padded"})
  /\ Known(s.method) /\ Known(s.codes) /\ ValidClientTLS(s)
NewHttp(s) ==
  /\ HttpScheme(s, {"http", "https"})
  /\ Known(s.method) /\ Known(s.codes) /\ BuildTLS(s)

GrpcSettings == [target : Address, timeout : Choice, metadata : Choice, cert : Flag, key : Flag]
ValidGrpc(s) == Given(s.target) /\ Known(s.timeout) /\ Known(s.metadata) /\ ValidClientTLS(s)
NewGrpc(s) == Given(s.target) /\ Known(s.target) /\ BuildTLS(s)

Amqp091Settings ==
  [url : Address, exchange : Text, exchange_type : Choice, declare : Flag, cert : Flag, key : Flag]
ValidAmqp091(s) ==
  /\ Given(s.url) /\ Known(s.exchange_type)
  /\ (Has(s.declare) => Given(s.exchange)) /\ ValidClientTLS(s)
NewAmqp091(s) ==
  /\ Has(s.url) /\ Known(s.url) /\ Known(s.exchange_type)
  /\ (Has(s.declare) => Has(s.exchange)) /\ BuildTLS(s)

Amqp10Settings == [url : Address, target : Text, cert : Flag, key : Flag]
ValidAmqp10(s) == Given(s.url) /\ Given(s.target) /\ ValidClientTLS(s)
NewAmqp10(s) == Has(s.url) /\ Known(s.url) /\ Has(s.target) /\ BuildTLS(s)

StreamSettings == [stream : Text, uris : Choice, url : Address, cert : Flag, key : Flag]
ValidStream(s) == Given(s.stream) /\ (Has(s.uris) \/ Given(s.url)) /\ ValidClientTLS(s)
\* The URIs, when there are any, are used instead of the URL.
NewStream(s) ==
  /\ Has(s.stream) /\ (Has(s.uris) \/ Has(s.url))
  /\ IF Has(s.uris) THEN Known(s.uris) ELSE Known(s.url)
  /\ BuildTLS(s)

ServiceBusSettings == [connection : Address, namespace : Address, queue : Text, topic : Text]
ValidServiceBus(s) ==
  One(Given(s.connection), Given(s.namespace)) /\ One(Given(s.queue), Given(s.topic))
NewServiceBus(s) ==
  /\ One(Has(s.connection), Has(s.namespace)) /\ One(Has(s.queue), Has(s.topic))
  /\ Known(s.connection) /\ Known(s.namespace)

CosmosSettings == [endpoint : Address, connection : Address, database : Text, throughput : Choice]
CosmosClient(s) ==
  One(Has(s.endpoint), Has(s.connection)) /\ Known(s.endpoint) /\ Known(s.connection)
ValidCosmos(s) ==
  One(Given(s.endpoint), Given(s.connection)) /\ Given(s.database) /\ Known(s.throughput)
NewCosmos(s) == CosmosClient(s) /\ Has(s.database)

DaprSettings == [pubsub : Text, topic : Text, address : Choice]
ValidDapr(s) == Given(s.pubsub) /\ Given(s.topic)
NewDapr(s) == Has(s.pubsub) /\ Has(s.topic) /\ Known(s.address)

NatsSettings ==
  [url : Address, subject : Text, token : Text, username : Text, password : Text,
   creds : Text, cert : Flag, key : Flag]
AtMostOne(S, set(_)) == Cardinality({x \in S : set(x[2])}) <= 1
NatsAuth(s) == {<<"token", s.token>>, <<"user", s.username>>, <<"creds", s.creds>>}
ValidNats(s) ==
  /\ Given(s.url) /\ Given(s.subject) /\ (Given(s.username) <=> Given(s.password))
  /\ AtMostOne(NatsAuth(s), Given) /\ ValidClientTLS(s)
NewNats(s) ==
  /\ Has(s.url) /\ Known(s.url) /\ Has(s.subject) /\ (Has(s.username) <=> Has(s.password))
  /\ AtMostOne(NatsAuth(s), Has) /\ BuildTLS(s)

\* table = "" takes the default name.
PostgresSettings == [dsn : Address, table : Choice, cert : Flag, key : Flag]
ValidPostgres(s) == ValidClientTLS(s)
NewPostgres(s) == Has(s.dsn) /\ Known(s.dsn) /\ Known(s.table) /\ BuildTLS(s)

-----------------------------------------------------------------------------
(* The feed sink. A surface is off or served under a path; store.place is the  *)
(* path or DSN of the store's own driver, table always store.postgres.table.   *)

FeedSettings ==
  [listen : {"blank", "ok"}, rss : {"off", "/rss", "/", "bad"}, atom : {"off", "/atom", "/"},
   mcp : {"off", "/mcp", "/"}, proxies : {"ok", "bad"}, http3 : Flag, cert : Flag, key : Flag,
   store : {"memory", "sqlite", "postgres", "bad"}, place : Address, table : Choice]

Surfaces(s) == {<<"rss", s.rss>>, <<"atom", s.atom>>, <<"mcp", s.mcp>>}
Served(s) == {x \in Surfaces(s) : x[2] # "off"}
DistinctPaths(s) == \A x, y \in Served(s) : x[2] = y[2] => x = y

\* storeDriverOrDefault has been applied: "memory" stands for "" too. The TLS rules of
\* the Postgres store are those of the state store (BackendSettings).
ValidFeedStore(s) ==
  /\ Known(s.store)
  /\ s.store \in {"sqlite", "postgres"} => Given(s.place)
  /\ s.store = "postgres" => Known(s.table)

ValidFeed(s) ==
  /\ Given(s.listen)
  /\ \A x \in Served(s) : x[2] # "bad"
  /\ DistinctPaths(s) /\ Served(s) # {}
  /\ Known(s.proxies) /\ Pair(s.cert, s.key)
  /\ (Has(s.http3) => Has(s.cert) /\ Has(s.key))
  /\ ValidFeedStore(s)

\* openStore: both SQL stores are given the same table setting. A bad place is a DSN
\* that does not parse.
OpenFeedStore(s) ==
  /\ Known(s.store)
  /\ s.store \in {"sqlite", "postgres"} => Known(s.table)
  /\ s.store = "postgres" => Known(s.place)
NewFeed(s) ==
  /\ OpenFeedStore(s) /\ Known(s.proxies)
  /\ (Has(s.http3) => Has(s.cert) /\ Has(s.key))

\* The mux already has a handler for "/"; a second registration panics.
PanicsFeed(s) == OpenFeedStore(s) /\ Known(s.proxies) /\ s.mcp = "/"
=============================================================================
