-------------------------------- MODULE Boot --------------------------------
(* The start and the stop of serve: telemetry, store, sinks, coordinator,     *)
(* sources and servers are opened in turn, any step of any constructor can    *)
(* fail, and what has been opened is closed again. Settings are Startup's      *)
(* subject. Closing a connection closes what was opened over it.               *)
EXTENDS Integers, Sequences

CONSTANTS BootPlans   \* the configured parts, in the order serve opens them

VARIABLES bootPlan, bootAt, bootStep, \* part and step of its constructor that come next
          openRes,                    \* <<part, resource>> that are open
          bootPhase,                  \* opening, up, closing or ended
          closeOrder                  \* kinds of parts still to be closed

bootVars == <<bootPlan, bootAt, bootStep, openRes, bootPhase, closeOrder>>

\* A step of a constructor: what it opens, and what is closed when it fails.
NewStep(opens, undo) == [opens |-> opens, undo |-> undo]
Opens(r) == NewStep({r}, {})
MayFail == NewStep({}, {})

-----------------------------------------------------------------------------
(* Constructors and Close methods, for the settings that open the most *)

\* Setup does not take back the exporters it has set up when a later one fails.
TelemetrySetup == <<Opens("sentry"), Opens("posthog"), Opens("cloudwatch"), Opens("tracer")>>
MeterProvider == <<MayFail, Opens("prometheus"), MayFail>>

PgStoreNew == <<Opens("pool"), NewStep({}, {"pool"})>>
SqliteStoreNew == <<Opens("db"), NewStep({}, {"db"}), NewStep({}, {"db"})>>
CloudStoreNew == <<MayFail, MayFail>>

KafkaNew == <<MayFail, Opens("client")>>
Amqp091New == <<Opens("conn"), NewStep({"channel"}, {"conn"}), NewStep({}, {"channel", "conn"})>>
Amqp10New ==
  <<Opens("conn"), NewStep({"session"}, {"conn"}), NewStep({"sender"}, {"session", "conn"})>>
StreamNew == <<Opens("env"), NewStep({}, {"env"}), NewStep({"producer"}, {"env"})>>
NatsNew == <<Opens("conn"), NewStep({}, {"conn"})>>
ServiceBusNew == <<Opens("client"), NewStep({"sender"}, {"client"})>>
PubsubNew == <<Opens("client")>>
PgSinkNew == <<Opens("pool"), NewStep({}, {"pool"})>>
ClientNew == <<Opens("client")>>    \* http, grpc, dapr
AwsNew == <<MayFail>>               \* sqs, sns, dynamodb: nothing that Close must release
CompositeNew == <<MayFail>>

\* The feed sink over a SQLite window: store, proxies, instruments, listener, HTTP/3.
WindowNew == SqliteStoreNew
FeedLeavesStore ==
  WindowNew \o <<NewStep({}, {"db"}), NewStep({}, {"db"}), NewStep({"listener"}, {"db"}),
                 NewStep({"udp"}, {"listener"})>>
FeedNew ==
  WindowNew \o <<NewStep({}, {"db"}), NewStep({}, {"db"}), NewStep({"listener"}, {"db"}),
                 NewStep({"udp"}, {"listener", "db"})>>

CoordRedisNew == <<Opens("client"), NewStep({}, {"client"})>>
CoordPgNew == <<Opens("pool")>>
FileNew == <<Opens("watcher"), NewStep({}, {"watcher"})>>
PgSourceNew == <<Opens("pool")>>
HttpSourceNew == <<MayFail, Opens("ticker")>>
KubernetesNew == <<MayFail, MayFail, Opens("informer"), NewStep({}, {"informer"})>>

Constructor(d) ==
  CASE d = "telemetry" -> TelemetrySetup \o MeterProvider
    [] d = "state_postgres" -> PgStoreNew   [] d = "state_sqlite" -> SqliteStoreNew
    [] d = "state_cloud" -> CloudStoreNew   [] d = "kafka" -> KafkaNew
    [] d = "amqp091" -> Amqp091New          [] d = "amqp10" -> Amqp10New
    [] d = "rabbitmq_stream" -> StreamNew   [] d = "nats" -> NatsNew
    [] d = "azureservicebus" -> ServiceBusNew [] d = "gcp_pubsub" -> PubsubNew
    [] d = "postgres" -> PgSinkNew          [] d = "client" -> ClientNew
    [] d = "aws" -> AwsNew                  [] d = "composite" -> CompositeNew
    [] d = "feed" -> FeedNew                [] d = "coord_redis" -> CoordRedisNew
    [] d = "coord_postgres" -> CoordPgNew   [] d = "instruments" -> <<MayFail>>
    [] d = "file" -> FileNew                [] d = "source_postgres" -> PgSourceNew
    [] d = "kubernetes" -> KubernetesNew    [] d = "source_http" -> HttpSourceNew
    [] d = "owner" -> <<MayFail, Opens("member")>>
    [] d = "health" -> <<Opens("listener")>>    [] d = "admin" -> <<Opens("listener")>>

\* The HTTP/3 server's Close leaves the UDP socket it was given open.
FeedCloses(r) == r # "udp"
Closes(d, r) == d = "feed" => FeedCloses(r)

Kind(d) ==
  CASE d \in {"state_postgres", "state_sqlite", "state_cloud"} -> "store"
    [] d \in {"coord_redis", "coord_postgres"} -> "coord"
    [] d \in {"file", "source_postgres", "source_http", "kubernetes"} -> "sources"
    [] d \in {"telemetry", "instruments", "owner", "health", "admin"} -> d
    [] OTHER -> "sinks"

\* Inside wireAll until the instruments exist, in serve from then on.
InWireAll(d) == Kind(d) \in {"telemetry", "store", "sinks", "coord", "instruments"}

\* The parts a part calls while it is open.
UsedBy(kind) ==
  CASE kind = "owner" -> {"coord"} [] kind = "health" -> {"store", "coord"}
    [] kind = "admin" -> {"store", "coord", "owner"} [] OTHER -> {}

\* The order in which serve opens its parts: telemetry first, then the rest of wireAll,
\* and every part after those it calls.
BootParts == {
  "telemetry", "state_postgres", "state_sqlite", "state_cloud", "kafka", "amqp091", "amqp10",
  "rabbitmq_stream", "nats", "azureservicebus", "gcp_pubsub", "postgres", "client", "aws",
  "composite", "feed", "coord_redis", "coord_postgres", "instruments", "file",
  "source_postgres", "kubernetes", "source_http", "owner", "health", "admin"}

InOrder(plan) ==
  /\ plan \in Seq(BootParts)
  /\ \A j \in 1 .. Len(plan), k \in 1 .. Len(plan) :
       j < k => /\ plan[k] # "telemetry" /\ (InWireAll(plan[k]) => InWireAll(plan[j]))
                /\ Kind(plan[k]) \notin UsedBy(Kind(plan[j]))

ASSUME BootAssumptions == \A plan \in BootPlans : InOrder(plan)

\* wireAll's error paths, and then bootstrap's. Setup itself closes nothing.
WireAllFails(kind) ==
  IF kind = "telemetry" THEN <<>> ELSE <<"coord", "sinks", "store", "telemetry">>

\* The deferred calls of serve, last one first, and wired.Close.
WiredClose == <<"sinks", "coord", "store">>
ServeDefers == <<"admin", "health", "owner", "sources", "telemetry">> \o WiredClose

-----------------------------------------------------------------------------
BootInit ==
  /\ bootPlan \in BootPlans
  /\ bootAt = 1 /\ bootStep = 1 /\ openRes = {} /\ bootPhase = "opening" /\ closeOrder = <<>>

Current == Constructor(bootPlan[bootAt])

OpenStep ==
  /\ bootPhase = "opening" /\ bootAt <= Len(bootPlan)
  /\ openRes' = openRes \cup {<<bootAt, r>> : r \in Current[bootStep].opens}
  /\ IF bootStep < Len(Current)
       THEN bootStep' = bootStep + 1 /\ UNCHANGED bootAt
       ELSE bootStep' = 1 /\ bootAt' = bootAt + 1
  /\ UNCHANGED <<bootPlan, bootPhase, closeOrder>>

\* A failed first heartbeat is only logged.
OpenFails ==
  /\ bootPhase = "opening" /\ bootAt <= Len(bootPlan)
  /\ bootPlan[bootAt] = "owner" => bootStep = 1
  /\ openRes' = openRes \ {<<bootAt, r>> : r \in Current[bootStep].undo}
  /\ closeOrder' = IF InWireAll(bootPlan[bootAt]) THEN WireAllFails(Kind(bootPlan[bootAt]))
                                                  ELSE ServeDefers
  /\ bootPhase' = "closing"
  /\ UNCHANGED <<bootPlan, bootAt, bootStep>>

ServeRuns ==
  /\ bootPhase = "opening" /\ bootAt > Len(bootPlan)
  /\ bootPhase' = "up"
  /\ UNCHANGED <<bootPlan, bootAt, bootStep, openRes, closeOrder>>

\* ServeDynamic returns.
ServeReturns ==
  /\ bootPhase = "up" /\ bootPhase' = "closing" /\ closeOrder' = ServeDefers
  /\ UNCHANGED <<bootPlan, bootAt, bootStep, openRes>>

\* One kind of parts is closed: those that are registered, that is complete.
CloseKind ==
  /\ bootPhase = "closing" /\ closeOrder # <<>>
  /\ openRes' = {x \in openRes : \/ Kind(bootPlan[x[1]]) # Head(closeOrder)
                                 \/ x[1] = bootAt
                                 \/ ~Closes(bootPlan[x[1]], x[2])}
  /\ closeOrder' = Tail(closeOrder)
  /\ UNCHANGED <<bootPlan, bootAt, bootStep, bootPhase>>

BootEnds ==
  /\ bootPhase = "closing" /\ closeOrder = <<>> /\ bootPhase' = "ended"
  /\ UNCHANGED <<bootPlan, bootAt, bootStep, openRes, closeOrder>>

BootNext == OpenStep \/ OpenFails \/ ServeRuns \/ ServeReturns \/ CloseKind \/ BootEnds

BootSpec == BootInit /\ [][BootNext]_bootVars

-----------------------------------------------------------------------------
\* Whichever step of whichever constructor fails, and after a regular stop, no
\* connection, pool, listener or goroutine stays behind: every error path closes
\* what the steps before it opened. Exceptions: the exporters when Setup fails
\* half-way, and the UDP socket of HTTP/3.
NothingLeftOpen ==
  bootPhase = "ended" =>
    \A x \in openRes : \/ x[2] = "udp"
                       \/ bootPlan[x[1]] = "telemetry" /\ bootAt = x[1]

\* Nothing is closed, on any of the ways out, while a part that calls it is open:
\* the probes and the admin API ping the store and the coordinator, the member
\* deregisters through the coordinator.
ClosedAfterItsUsers ==
  \A x \in openRes, i \in 1 .. Len(bootPlan) :
    Kind(bootPlan[i]) \in UsedBy(Kind(bootPlan[x[1]])) =>
      \A s \in DOMAIN Constructor(bootPlan[i]) :
        \A r \in Constructor(bootPlan[i])[s].opens : <<i, r>> \in openRes

\* serve, runOnce and wireAll end with everything closed, each part after its users,
\* at whichever step of whichever constructor they fail.
OrderlyStop == NothingLeftOpen /\ ClosedAfterItsUsers
=============================================================================
