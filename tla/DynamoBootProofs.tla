-------------------------- MODULE DynamoBootProofs --------------------------
(***************************************************************************)
(* Proofs about two parts that do not meet: the start and the stop of      *)
(* serve, runOnce and wireAll, for every list of parts in the order in     *)
(* which serve opens them; and the DynamoDB coordinator, for every number  *)
(* of instances, every lease_duration, every clock skew and every delay of *)
(* the put.                                                                *)
(***************************************************************************)
EXTENDS Boot, DynamoLease, TLAPS

\* The provers of a leaf that names none, in turn; the translation for Z3 may give up.
USE Z3T(30), ZenonT(20), SMTT(30), Z3T(31), SMTT(31)

-----------------------------------------------------------------------------
(* Boot *)

Resources == {
  "sentry", "posthog", "cloudwatch", "tracer", "prometheus", "pool", "db", "client", "conn",
  "channel", "session", "sender", "env", "producer", "listener", "udp", "watcher", "ticker",
  "informer", "member"}
Steps == [opens : SUBSET Resources, undo : SUBSET Resources]

\* Every step that fails closes what the steps before it opened.
Undoes(c) ==
  /\ c \in Seq(Steps) /\ Len(c) >= 1
  /\ \A s \in 1 .. Len(c) : \A t \in 1 .. s - 1 : c[t].opens \subseteq c[s].undo

LEMMA StepIs ==
  ASSUME NEW S \in SUBSET Resources, NEW U \in SUBSET Resources
  PROVE  NewStep(S, U) \in Steps /\ NewStep(S, U).opens = S /\ NewStep(S, U).undo = U
BY DEF NewStep, Steps

LEMMA Undoes1 == ASSUME NEW a \in Steps PROVE Undoes(<<a>>)
<1>1. <<a>> \in Seq(Steps) /\ Len(<<a>>) = 1
  OBVIOUS
<1> QED
  BY <1>1 DEF Undoes

LEMMA Undoes2 ==
  ASSUME NEW a \in Steps, NEW b \in Steps, a.opens \subseteq b.undo PROVE Undoes(<<a, b>>)
<1>1. <<a, b>> \in Seq(Steps) /\ Len(<<a, b>>) = 2 /\ <<a, b>>[1] = a /\ <<a, b>>[2] = b
  OBVIOUS
<1>2. \A s \in 1 .. 2 : \A t \in 1 .. s - 1 : s = 2 /\ t = 1
  OBVIOUS
<1> QED
  BY <1>1, <1>2 DEF Undoes

LEMMA Undoes3 ==
  ASSUME NEW a \in Steps, NEW b \in Steps, NEW c \in Steps,
         a.opens \subseteq b.undo, a.opens \subseteq c.undo, b.opens \subseteq c.undo
  PROVE  Undoes(<<a, b, c>>)
<1> DEFINE q == <<a, b, c>>
<1>1. q \in Seq(Steps) /\ Len(q) = 3 /\ q[1] = a /\ q[2] = b /\ q[3] = c
  OBVIOUS
<1>2. \A s \in 1 .. 3 : \A t \in 1 .. s - 1 : (s = 2 /\ t = 1) \/ (s = 3 /\ t = 1) \/ (s = 3 /\ t = 2)
  OBVIOUS
<1> HIDE DEF q
<1>3. Undoes(q)
  BY <1>1, <1>2 DEF Undoes
<1> QED
  BY <1>3 DEF q

LEMMA UndoesConcat ==
  ASSUME NEW c, NEW e, Undoes(c), Undoes(e),
         \A s \in 1 .. Len(e), t \in 1 .. Len(c) : c[t].opens \subseteq e[s].undo
  PROVE  Undoes(c \o e)
<1>1. c \in Seq(Steps) /\ e \in Seq(Steps) /\ Len(c) \in Nat /\ Len(e) \in Nat /\ Len(c) >= 1
  BY DEF Undoes
<1>2. PICK m \in Nat : m = Len(c)
  BY <1>1
<1>3. PICK n \in Nat : n = Len(e)
  BY <1>1
<1>4. /\ c \o e \in Seq(Steps) /\ Len(c \o e) = m + n
      /\ \A s \in 1 .. m + n : (c \o e)[s] = IF s <= m THEN c[s] ELSE e[s - m]
  BY <1>1, <1>2, <1>3
<1>5. ASSUME NEW s \in 1 .. m + n, NEW t \in 1 .. s - 1 PROVE (c \o e)[t].opens \subseteq (c \o e)[s].undo
  <2>1. CASE s <= m
    <3>1. t <= m /\ s \in 1 .. m /\ t \in 1 .. m + n
      BY <1>5, <2>1
    <3> QED
      BY ZenonT(60), <1>2, <1>4, <1>5, <2>1, <3>1 DEF Undoes
  <2>2. CASE s > m /\ t <= m
    <3>1. s - m \in 1 .. n /\ t \in 1 .. m /\ t \in 1 .. m + n
      BY <1>5, <2>2
    <3> QED
      BY <1>2, <1>3, <1>4, <2>2, <3>1
  <2>3. CASE s > m /\ t > m
    <3>1. s - m \in 1 .. n /\ t - m \in 1 .. (s - m) - 1 /\ t \in 1 .. m + n
      BY <1>5, <2>3
    <3>2. (c \o e)[s] = e[s - m] /\ (c \o e)[t] = e[t - m]
      BY <1>4, <1>5, <2>3, <3>1
    <3>3. \A k \in 1 .. n : \A l \in 1 .. k - 1 : e[l].opens \subseteq e[k].undo
      BY <1>3 DEF Undoes
    <3>4. e[t - m].opens \subseteq e[s - m].undo
      BY <3>1, <3>3
    <3> QED
      BY <3>2, <3>4
  <2>4. s \in Nat /\ t \in Nat /\ t < s
    BY <1>5
  <2>5. s <= m \/ (s > m /\ t <= m) \/ (s > m /\ t > m)
    BY <2>4
  <2> QED
    BY <2>1, <2>2, <2>3, <2>5, ZenonT(60)
<1>6. Len(c \o e) >= 1
  BY <1>1, <1>2, <1>4
<1> QED
  BY <1>4, <1>5, <1>6, ZenonT(60) DEF Undoes

LEMMA WindowUndoes == Undoes(WindowNew) /\ \A t \in 1 .. Len(WindowNew) : WindowNew[t].opens \subseteq {"db"}
<1>1. /\ NewStep({"db"}, {}) \in Steps /\ NewStep({"db"}, {}).opens = {"db"}
      /\ NewStep({}, {"db"}) \in Steps /\ NewStep({}, {"db"}).opens = {} /\ NewStep({}, {"db"}).undo = {"db"}
  <2>1. {} \in SUBSET Resources /\ {"db"} \in SUBSET Resources
    BY DEF Resources
  <2> QED
    BY <2>1, StepIs, ZenonT(60)
<1> DEFINE a == NewStep({"db"}, {})
           b == NewStep({}, {"db"})
<1>2. WindowNew = <<a, b, b>>
  BY DEF WindowNew, SqliteStoreNew, Opens
<1> HIDE DEF a, b
<1>3. a \in Steps /\ b \in Steps /\ a.opens = {"db"} /\ b.opens = {} /\ b.undo = {"db"}
  BY <1>1 DEF a, b
<1>4. Undoes(<<a, b, b>>)
  BY <1>3, Undoes3
<1> QED
  BY <1>2, <1>3, <1>4

LEMMA FeedUndoes == Undoes(FeedNew)
<1> DEFINE a == NewStep({}, {"db"})
           b == NewStep({"listener"}, {"db"})
           c == NewStep({"udp"}, {"listener", "db"})
           e == <<a, b, c>>
           f == <<a, a, b, c>>
<1>1. /\ a \in Steps /\ b \in Steps /\ c \in Steps
      /\ a.opens = {} /\ b.opens = {"listener"} /\ c.opens = {"udp"}
      /\ a.undo = {"db"} /\ b.undo = {"db"} /\ c.undo = {"listener", "db"}
  <2>1. /\ {} \in SUBSET Resources /\ {"db"} \in SUBSET Resources /\ {"listener"} \in SUBSET Resources
        /\ {"udp"} \in SUBSET Resources /\ {"listener", "db"} \in SUBSET Resources
    BY DEF Resources
  <2> QED
    BY <2>1, StepIs, ZenonT(60)
<1>2. FeedNew = WindowNew \o f
  BY DEF FeedNew
<1> HIDE DEF a, b, c
<1>3. /\ f \in Seq(Steps) /\ Len(f) = 4 /\ f[1] = a /\ f[2] = a /\ f[3] = b /\ f[4] = c
  BY <1>1
<1> HIDE DEF f
<1>4. \A s \in 1 .. 4 : s = 1 \/ s = 2 \/ s = 3 \/ s = 4
  OBVIOUS
<1>5. \A s \in 1 .. 4 : {"db"} \subseteq f[s].undo
  BY <1>1, <1>3, <1>4
<1>6. \A s \in 1 .. 4 : \A t \in 1 .. s - 1 : t = 1 \/ t = 2 \/ (t = 3 /\ s = 4)
  OBVIOUS
<1>7. Undoes(f)
  BY <1>1, <1>3, <1>6 DEF Undoes
<1>8. \A s \in 1 .. Len(f), t \in 1 .. Len(WindowNew) : WindowNew[t].opens \subseteq f[s].undo
  BY <1>3, <1>5, WindowUndoes
<1> QED
  BY <1>2, <1>7, <1>8, WindowUndoes, UndoesConcat

LEMMA OneStep == ASSUME NEW S \in SUBSET Resources PROVE Undoes(<<NewStep(S, {})>>)
<1>1. {} \in SUBSET Resources
  OBVIOUS
<1> QED
  BY <1>1, StepIs, Undoes1, ZenonT(60)

LEMMA TwoSteps ==
  ASSUME NEW S \in SUBSET Resources, NEW T \in SUBSET Resources, NEW U \in SUBSET Resources, S \subseteq U
  PROVE  Undoes(<<NewStep(S, {}), NewStep(T, U)>>)
<1>1. {} \in SUBSET Resources
  OBVIOUS
<1>2. NewStep(S, {}) \in Steps /\ NewStep(T, U) \in Steps /\ NewStep(S, {}).opens = S /\ NewStep(T, U).undo = U
  BY <1>1, StepIs, ZenonT(60)
<1>3. NewStep(S, {}).opens \subseteq NewStep(T, U).undo
  BY <1>2, ZenonT(60)
<1> QED
  BY <1>2, <1>3, Undoes2, ZenonT(60)

LEMMA ThreeSteps ==
  ASSUME NEW S \in SUBSET Resources, NEW T \in SUBSET Resources, NEW U \in SUBSET Resources,
         NEW V \in SUBSET Resources, NEW W \in SUBSET Resources, S \subseteq U, S \subseteq W, T \subseteq W
  PROVE  Undoes(<<NewStep(S, {}), NewStep(T, U), NewStep(V, W)>>)
<1>1. {} \in SUBSET Resources
  OBVIOUS
<1>2. /\ NewStep(S, {}) \in Steps /\ NewStep(T, U) \in Steps /\ NewStep(V, W) \in Steps
      /\ NewStep(S, {}).opens = S /\ NewStep(T, U).opens = T /\ NewStep(T, U).undo = U /\ NewStep(V, W).undo = W
  BY <1>1, StepIs, ZenonT(60)
<1>3. /\ NewStep(S, {}).opens \subseteq NewStep(T, U).undo /\ NewStep(S, {}).opens \subseteq NewStep(V, W).undo
      /\ NewStep(T, U).opens \subseteq NewStep(V, W).undo
  BY <1>2, ZenonT(60)
<1> QED
  BY <1>2, <1>3, Undoes3, ZenonT(60)

LEMMA KubernetesUndoes == Undoes(KubernetesNew)
<1> DEFINE a == NewStep({}, {})
           b == NewStep({"informer"}, {})
           c == NewStep({}, {"informer"})
           f == <<a, a, b, c>>
<1>1. /\ a \in Steps /\ b \in Steps /\ c \in Steps
      /\ a.opens = {} /\ b.opens = {"informer"} /\ c.opens = {} /\ c.undo = {"informer"}
  <2>1. {} \in SUBSET Resources /\ {"informer"} \in SUBSET Resources
    BY DEF Resources
  <2> QED
    BY <2>1, StepIs, ZenonT(60)
<1>2. KubernetesNew = f
  BY DEF KubernetesNew, Opens, MayFail
<1> HIDE DEF a, b, c
<1>3. /\ f \in Seq(Steps) /\ Len(f) = 4 /\ f[1] = a /\ f[2] = a /\ f[3] = b /\ f[4] = c
  BY <1>1
<1> HIDE DEF f
<1>4. \A s \in 1 .. 4 : \A t \in 1 .. s - 1 : t = 1 \/ t = 2 \/ (t = 3 /\ s = 4)
  OBVIOUS
<1>5. Undoes(f)
  BY <1>1, <1>3, <1>4 DEF Undoes
<1> QED
  BY <1>2, <1>5

\* But for Setup, every constructor closes on its error paths what it has opened.
LEMMA ConstructorsUndo == \A d \in BootParts \ {"telemetry"} : Undoes(Constructor(d))
<1> USE DEF Constructor, Opens, MayFail
<1>1. /\ {} \in SUBSET Resources /\ {"pool"} \in SUBSET Resources /\ {"db"} \in SUBSET Resources
      /\ {"client"} \in SUBSET Resources /\ {"conn"} \in SUBSET Resources
      /\ {"channel"} \in SUBSET Resources /\ {"channel", "conn"} \in SUBSET Resources
      /\ {"session"} \in SUBSET Resources /\ {"sender"} \in SUBSET Resources
      /\ {"session", "conn"} \in SUBSET Resources /\ {"env"} \in SUBSET Resources
      /\ {"producer"} \in SUBSET Resources /\ {"listener"} \in SUBSET Resources
      /\ {"watcher"} \in SUBSET Resources /\ {"ticker"} \in SUBSET Resources
      /\ {"member"} \in SUBSET Resources
  BY DEF Resources
<1>2. /\ Undoes(<<NewStep({}, {})>>) /\ Undoes(<<NewStep({"client"}, {})>>) /\ Undoes(<<NewStep({"pool"}, {})>>)
      /\ Undoes(<<NewStep({"listener"}, {})>>)
  BY <1>1, OneStep, ZenonT(60)
<1>3. ASSUME NEW S \in SUBSET Resources
      PROVE  Undoes(<<NewStep({}, {}), NewStep(S, {})>>) /\ Undoes(<<NewStep(S, {}), NewStep({}, S)>>)
  BY <1>1, TwoSteps
<1>4. Undoes(<<NewStep({"client"}, {}), NewStep({"sender"}, {"client"})>>)
  BY <1>1, TwoSteps, ZenonT(60)
<1>5. /\ Undoes(<<NewStep({"db"}, {}), NewStep({}, {"db"}), NewStep({}, {"db"})>>)
      /\ Undoes(<<NewStep({"env"}, {}), NewStep({}, {"env"}), NewStep({"producer"}, {"env"})>>)
      /\ Undoes(<<NewStep({"conn"}, {}), NewStep({"channel"}, {"conn"}), NewStep({}, {"channel", "conn"})>>)
      /\ Undoes(<<NewStep({"conn"}, {}), NewStep({"session"}, {"conn"}), NewStep({"sender"}, {"session", "conn"})>>)
  <2>1. /\ {} \subseteq {"db"} /\ {} \subseteq {"env"} /\ {"conn"} \subseteq {"channel", "conn"}
        /\ {"channel"} \subseteq {"channel", "conn"} /\ {"conn"} \subseteq {"session", "conn"}
        /\ {"session"} \subseteq {"session", "conn"}
    OBVIOUS
  <2>2. \A S \in SUBSET Resources : S \subseteq S
    OBVIOUS
  <2> QED
    BY <1>1, <2>1, <2>2, ThreeSteps, ZenonT(60)
<1>6. /\ Undoes(Constructor("aws")) /\ Undoes(Constructor("composite")) /\ Undoes(Constructor("instruments"))
      /\ Undoes(Constructor("client")) /\ Undoes(Constructor("gcp_pubsub")) /\ Undoes(Constructor("health"))
      /\ Undoes(Constructor("coord_postgres")) /\ Undoes(Constructor("source_postgres"))
      /\ Undoes(Constructor("admin"))
  BY <1>2 DEF AwsNew, CompositeNew, ClientNew, PubsubNew, CoordPgNew, PgSourceNew
<1>7. /\ Undoes(Constructor("state_postgres")) /\ Undoes(Constructor("postgres"))
      /\ Undoes(Constructor("nats")) /\ Undoes(Constructor("coord_redis")) /\ Undoes(Constructor("file"))
  BY ZenonT(60), <1>1, <1>3 DEF PgStoreNew, PgSinkNew, NatsNew, CoordRedisNew, FileNew
<1>8. /\ Undoes(Constructor("state_cloud")) /\ Undoes(Constructor("kafka"))
      /\ Undoes(Constructor("source_http")) /\ Undoes(Constructor("owner"))
  BY ZenonT(60), <1>1, <1>3 DEF CloudStoreNew, KafkaNew, HttpSourceNew
<1>9. /\ Undoes(Constructor("azureservicebus")) /\ Undoes(Constructor("state_sqlite"))
      /\ Undoes(Constructor("rabbitmq_stream")) /\ Undoes(Constructor("amqp091")) /\ Undoes(Constructor("amqp10"))
  BY <1>4, <1>5 DEF ServiceBusNew, SqliteStoreNew, StreamNew, Amqp091New, Amqp10New
<1>10. Undoes(Constructor("feed")) /\ Undoes(Constructor("kubernetes"))
  BY FeedUndoes, KubernetesUndoes
<1> HIDE DEF Constructor, Opens, MayFail
<1> QED
  BY <1>6, <1>7, <1>8, <1>9, <1>10 DEF BootParts

LEMMA TelemetryIs == Constructor("telemetry") \in Seq(Steps) /\ Len(Constructor("telemetry")) >= 1
<1>1. TelemetrySetup \in Seq(Steps) /\ Len(TelemetrySetup) = 4
  <2>1. \A r \in {"sentry", "posthog", "cloudwatch", "tracer"} : Opens(r) \in Steps
    BY StepIs DEF Opens, Resources
  <2> QED
    BY <2>1 DEF TelemetrySetup
<1>2. MeterProvider \in Seq(Steps) /\ Len(MeterProvider) = 3
  <2>1. MayFail \in Steps /\ Opens("prometheus") \in Steps
    BY StepIs DEF Opens, MayFail, Resources
  <2> QED
    BY <2>1 DEF MeterProvider
<1>3. Constructor("telemetry") = TelemetrySetup \o MeterProvider
  BY DEF Constructor
<1>4. \A c, e \in Seq(Steps) : c \o e \in Seq(Steps) /\ Len(c \o e) = Len(c) + Len(e)
  OBVIOUS
<1>5. /\ TelemetrySetup \o MeterProvider \in Seq(Steps)
      /\ Len(TelemetrySetup \o MeterProvider) = Len(TelemetrySetup) + Len(MeterProvider)
  BY <1>1, <1>2, <1>4, ZenonT(60)
<1>6. Len(TelemetrySetup) + Len(MeterProvider) = 7
  BY <1>1, <1>2
<1>7. \A n : n = 7 => n >= 1
  OBVIOUS
<1> QED
  BY <1>3, <1>5, <1>6, <1>7, ZenonT(60)

\* What a part has open once it is complete.
AllOpens(d) == UNION {Constructor(d)[s].opens : s \in 1 .. Len(Constructor(d))}

Undone(s, c) == UNION {c[t].opens : t \in 1 .. s - 1} \subseteq c[s].undo

LEMMA ConstructorIs ==
  ASSUME NEW d \in BootParts
  PROVE  /\ Constructor(d) \in Seq(Steps) /\ Len(Constructor(d)) \in Nat \ {0}
         /\ d # "telemetry" => \A s \in 1 .. Len(Constructor(d)) : Undone(s, Constructor(d))
<1>1. Constructor(d) \in Seq(Steps) /\ Len(Constructor(d)) >= 1
  BY ConstructorsUndo, TelemetryIs DEF Undoes
<1>2. d # "telemetry" => \A s \in 1 .. Len(Constructor(d)) :
        \A t \in 1 .. s - 1 : Constructor(d)[t].opens \subseteq Constructor(d)[s].undo
  BY ConstructorsUndo DEF Undoes
<1> QED
  BY <1>1, <1>2 DEF Undone

LEMMA OpensByUsers ==
  ASSUME NEW d \in {"owner", "health", "admin"} PROVE AllOpens(d) \subseteq {"member", "listener"}
<1>1. \A S, T : \A s \in 1 .. Len(<<S, T>>) : <<S, T>>[s] = S \/ <<S, T>>[s] = T
  OBVIOUS
<1>2. \A S : \A s \in 1 .. Len(<<S>>) : <<S>>[s] = S
  OBVIOUS
<1>3. /\ MayFail.opens = {} /\ Opens("member").opens = {"member"} /\ Opens("listener").opens = {"listener"}
  BY DEF MayFail, Opens, NewStep
<1>4. \A s \in 1 .. Len(Constructor(d)) : Constructor(d)[s].opens \subseteq {"member", "listener"}
  <2>1. CASE d = "owner"
    <3>1. Constructor(d) = <<MayFail, Opens("member")>>
      BY <2>1 DEF Constructor
    <3> QED
      BY <1>1, <1>3, <3>1
  <2>2. CASE d # "owner"
    <3>1. Constructor(d) = <<Opens("listener")>>
      BY <2>2 DEF Constructor
    <3> QED
      BY <1>2, <1>3, <3>1
  <2> QED
    BY <2>1, <2>2
<1> QED
  BY <1>4 DEF AllOpens

LEMMA InstrumentsOpenNothing == AllOpens("instruments") = {}
<1>1. Constructor("instruments") = <<MayFail>>
  BY DEF Constructor
<1>2. Len(<<MayFail>>) = 1 /\ <<MayFail>>[1] = MayFail /\ MayFail.opens = {}
  BY DEF MayFail, NewStep
<1> QED
  BY <1>1, <1>2 DEF AllOpens

Kinds == {"telemetry", "store", "sinks", "coord", "instruments", "sources", "owner", "health", "admin"}

LEMMA KindIs ==
  ASSUME NEW d \in BootParts
  PROVE  /\ Kind(d) \in Kinds
         /\ Kind(d) = "telemetry" <=> d = "telemetry"
         /\ Kind(d) = "instruments" <=> d = "instruments"
         /\ UsedBy(Kind(d)) # {} => d \in {"owner", "health", "admin"} /\ ~InWireAll(d)
         /\ Kind(d) \notin UsedBy(Kind(d))
<1>1. /\ Kind(d) \in Kinds /\ (Kind(d) = "telemetry" <=> d = "telemetry")
      /\ Kind(d) = "instruments" <=> d = "instruments"
      /\ Kind(d) \in {"owner", "health", "admin"} => d \in {"owner", "health", "admin"}
  BY DEF Kind, Kinds, BootParts
<1>2. UsedBy(Kind(d)) # {} => Kind(d) \in {"owner", "health", "admin"}
  BY <1>1 DEF UsedBy, Kinds
<1>3. Kind(d) \notin UsedBy(Kind(d))
  BY <1>1 DEF UsedBy, Kinds
<1>4. Kind(d) \in {"owner", "health", "admin"} => ~InWireAll(d)
  BY DEF InWireAll
<1> QED
  BY <1>1, <1>2, <1>3, <1>4

\* The orders of closing name a kind once, and the parts it calls after it.
UsersFirst(order) ==
  /\ order \in Seq(Kinds)
  /\ \A k, l \in 1 .. Len(order) : order[k] = order[l] => k = l
  /\ \A k \in 1 .. Len(order) : UsedBy(order[k]) \subseteq {order[l] : l \in k + 1 .. Len(order)}

LEMMA DefersInOrder ==
  /\ UsersFirst(ServeDefers)
  /\ \A kind \in Kinds \ {"instruments"} : \E k \in 1 .. Len(ServeDefers) : ServeDefers[k] = kind
<1> DEFINE a == <<"admin", "health", "owner", "sources", "telemetry">>
           q == ServeDefers
<1>1. q = a \o WiredClose
  BY DEF ServeDefers
<1>2. /\ q \in Seq(Kinds) /\ Len(q) = 8 /\ q[1] = "admin" /\ q[2] = "health" /\ q[3] = "owner"
      /\ q[4] = "sources" /\ q[5] = "telemetry" /\ q[6] = "sinks" /\ q[7] = "coord" /\ q[8] = "store"
  <2>1. /\ a \in Seq(Kinds) /\ Len(a) = 5 /\ a[1] = "admin" /\ a[2] = "health" /\ a[3] = "owner"
        /\ a[4] = "sources" /\ a[5] = "telemetry"
    BY DEF Kinds
  <2>2. /\ WiredClose \in Seq(Kinds) /\ Len(WiredClose) = 3
        /\ WiredClose[1] = "sinks" /\ WiredClose[2] = "coord" /\ WiredClose[3] = "store"
    BY DEF WiredClose, Kinds
  <2> HIDE DEF a
  <2>3. ASSUME NEW c \in Seq(Kinds), NEW e \in Seq(Kinds), Len(c) = 5, Len(e) = 3
        PROVE  /\ c \o e \in Seq(Kinds) /\ Len(c \o e) = 8
               /\ \A k \in 1 .. 8 : (c \o e)[k] = IF k <= 5 THEN c[k] ELSE e[k - 5]
    <3>1. \A k \in 1 .. Len(c) + Len(e) : (c \o e)[k] = IF k <= Len(c) THEN c[k] ELSE e[k - Len(c)]
      OBVIOUS
    <3>2. c \o e \in Seq(Kinds) /\ Len(c \o e) = Len(c) + Len(e)
      OBVIOUS
    <3> QED
      BY <2>3, <3>1, <3>2
  <2>4. /\ q \in Seq(Kinds) /\ Len(q) = 8
        /\ \A k \in 1 .. 8 : q[k] = IF k <= 5 THEN a[k] ELSE WiredClose[k - 5]
    BY <1>1, <2>1, <2>2, <2>3
  <2> HIDE DEF q
  <2> QED
    BY <2>1, <2>2, <2>4
<1> HIDE DEF q
<1>3. \A k \in 1 .. 8 : k = 1 \/ k = 2 \/ k = 3 \/ k = 4 \/ k = 5 \/ k = 6 \/ k = 7 \/ k = 8
  OBVIOUS
<1>4. \A k, l \in 1 .. 8 : q[k] = q[l] => k = l
  BY <1>2, <1>3
<1>5. \A k \in 1 .. 8 : UsedBy(q[k]) \subseteq {q[l] : l \in k + 1 .. 8}
  <2>1. /\ UsedBy("admin") = {"store", "coord", "owner"} /\ UsedBy("health") = {"store", "coord"}
        /\ UsedBy("owner") = {"coord"} /\ UsedBy("sources") = {} /\ UsedBy("telemetry") = {}
        /\ UsedBy("sinks") = {} /\ UsedBy("coord") = {} /\ UsedBy("store") = {}
    BY DEF UsedBy
  <2>2. "store" \in {q[l] : l \in 2 .. 8} /\ "coord" \in {q[l] : l \in 2 .. 8} /\ "owner" \in {q[l] : l \in 2 .. 8}
    BY <1>2
  <2>3. "store" \in {q[l] : l \in 3 .. 8} /\ "coord" \in {q[l] : l \in 3 .. 8} /\ "coord" \in {q[l] : l \in 4 .. 8}
    BY <1>2
  <2>4. /\ UsedBy(q[1]) \subseteq {q[l] : l \in 2 .. 8} /\ UsedBy(q[2]) \subseteq {q[l] : l \in 3 .. 8}
        /\ UsedBy(q[3]) \subseteq {q[l] : l \in 4 .. 8}
    BY <1>2, <2>1, <2>2, <2>3
  <2>5. \A k \in 4 .. 8 : UsedBy(q[k]) = {}
    BY <1>2, <1>3, <2>1
  <2> QED
    BY <1>3, <2>4, <2>5
<1>6. \A kind \in Kinds \ {"instruments"} : \E k \in 1 .. 8 : q[k] = kind
  BY <1>2 DEF Kinds
<1> QED
  BY <1>2, <1>4, <1>5, <1>6 DEF UsersFirst, q

LEMMA WireAllInOrder ==
  ASSUME NEW kind \in Kinds
  PROVE  /\ UsersFirst(WireAllFails(kind))
         /\ kind # "telemetry" =>
              \A a \in {"telemetry", "store", "sinks", "coord"} :
                \E k \in 1 .. Len(WireAllFails(kind)) : WireAllFails(kind)[k] = a
<1>1. UsersFirst(<<>>)
  BY DEF UsersFirst
<1> DEFINE q == <<"coord", "sinks", "store", "telemetry">>
<1>2. WireAllFails(kind) = IF kind = "telemetry" THEN <<>> ELSE q
  BY DEF WireAllFails
<1>3. q \in Seq(Kinds) /\ Len(q) = 4 /\ q[1] = "coord" /\ q[2] = "sinks" /\ q[3] = "store" /\ q[4] = "telemetry"
  BY DEF Kinds
<1> HIDE DEF q
<1>4. \A k \in 1 .. 4 : k = 1 \/ k = 2 \/ k = 3 \/ k = 4
  OBVIOUS
<1>5. \A k \in 1 .. 4 : UsedBy(q[k]) = {}
  BY <1>3, <1>4 DEF UsedBy
<1>6. \A k, l \in 1 .. 4 : q[k] = q[l] => k = l
  BY <1>3, <1>4
<1>7. UsersFirst(q)
  BY <1>3, <1>5, <1>6 DEF UsersFirst
<1>8. \A a \in {"telemetry", "store", "sinks", "coord"} : \E k \in 1 .. Len(q) : q[k] = a
  BY <1>3
<1> QED
  BY <1>1, <1>2, <1>7, <1>8

Places == 1 .. Len(bootPlan)

\* What is open while serve opens its parts: all of the complete ones, and what the steps
\* so far of the current constructor opened.
OpenedAt(p) ==
  IF p < bootAt THEN AllOpens(bootPlan[p])
  ELSE IF p = bootAt THEN UNION {Current[t].opens : t \in 1 .. bootStep - 1} ELSE {}

Todo == {closeOrder[k] : k \in 1 .. Len(closeOrder)}

\* While the parts are closed: those whose turn has not come are complete, and nothing
\* else is open.
ClosingInv ==
  /\ UsersFirst(closeOrder)
  /\ \A p \in Places, r \in Resources : <<p, r>> \in openRes =>
       /\ r \in AllOpens(bootPlan[p])
       /\ \/ p < bootAt /\ Kind(bootPlan[p]) \in Todo
          \/ r = "udp"
          \/ p = bootAt /\ bootPlan[p] = "telemetry"
  /\ \A p \in Places : p < bootAt /\ Kind(bootPlan[p]) \in Todo =>
       \A r \in AllOpens(bootPlan[p]) : <<p, r>> \in openRes

BootTypeOK ==
  /\ bootPlan \in BootPlans /\ bootAt \in 1 .. Len(bootPlan) + 1 /\ bootStep \in Nat \ {0}
  /\ bootAt <= Len(bootPlan) => bootStep <= Len(Current)
  /\ bootPhase \in {"opening", "up", "closing", "ended"}
  /\ openRes \in SUBSET (Places \X Resources)

BootInv ==
  /\ BootTypeOK
  /\ bootPhase = "up" => bootAt = Len(bootPlan) + 1
  /\ bootPhase \in {"opening", "up"} =>
       \A p \in Places, r \in Resources : <<p, r>> \in openRes <=> r \in OpenedAt(p)
  /\ bootPhase \in {"closing", "ended"} => ClosingInv
  /\ bootPhase = "ended" => closeOrder = <<>>

LEMMA PlanIs ==
  ASSUME bootPlan \in BootPlans
  PROVE  /\ Len(bootPlan) \in Nat /\ \A p \in Places : bootPlan[p] \in BootParts
         /\ \A p, q \in Places :
              p < q => /\ bootPlan[q] # "telemetry" /\ (InWireAll(bootPlan[q]) => InWireAll(bootPlan[p]))
                       /\ Kind(bootPlan[q]) \notin UsedBy(Kind(bootPlan[p]))
BY BootAssumptions DEF BootAssumptions, InOrder, Places

\* Steps of a constructor open resources, and all of them make up the part.
LEMMA StepOpens ==
  ASSUME NEW d \in BootParts, NEW n \in 0 .. Len(Constructor(d))
  PROVE  /\ UNION {Constructor(d)[t].opens : t \in 1 .. n} \subseteq AllOpens(d)
         /\ AllOpens(d) \subseteq Resources
         /\ n = Len(Constructor(d)) => UNION {Constructor(d)[t].opens : t \in 1 .. n} = AllOpens(d)
<1>1. \A t \in 1 .. Len(Constructor(d)) : Constructor(d)[t] \in Steps
  BY ConstructorIs
<1>2. \A t \in 1 .. Len(Constructor(d)) : Constructor(d)[t].opens \subseteq Resources
  BY <1>1 DEF Steps
<1>3. 1 .. n \subseteq 1 .. Len(Constructor(d))
  BY ConstructorIs
<1> QED
  BY <1>2, <1>3 DEF AllOpens

LEMMA BootInitInv == BootInit => BootInv
<1> SUFFICES ASSUME BootInit PROVE BootInv
  OBVIOUS
<1>1. /\ bootPlan \in BootPlans /\ bootAt = 1 /\ bootStep = 1 /\ openRes = {} /\ bootPhase = "opening"
  BY DEF BootInit
<1>2. Len(bootPlan) \in Nat /\ \A p \in Places : bootPlan[p] \in BootParts
  BY <1>1, PlanIs
<1>3. 1 <= Len(bootPlan) => bootPlan[1] \in BootParts
  BY <1>2 DEF Places
<1>4. bootAt <= Len(bootPlan) => bootStep <= Len(Current)
  BY <1>1, <1>3, ConstructorIs DEF Current
<1>5. BootTypeOK
  BY <1>1, <1>2, <1>4 DEF BootTypeOK
<1>6. \A p \in Places : OpenedAt(p) = {}
  BY <1>1, <1>2 DEF OpenedAt, Places
<1> QED
  BY <1>1, <1>5, <1>6 DEF BootInv

LEMMA OpenStepInv == ASSUME BootInv, OpenStep PROVE BootInv'
<1>0. /\ BootTypeOK /\ bootPhase = "opening" /\ bootAt <= Len(bootPlan)
      /\ openRes' = openRes \cup {<<bootAt, r>> : r \in Current[bootStep].opens}
      /\ UNCHANGED <<bootPlan, bootPhase, closeOrder>>
      /\ \A p \in Places, r \in Resources : <<p, r>> \in openRes <=> r \in OpenedAt(p)
  BY DEF BootInv, OpenStep
<1>1. /\ bootPlan \in BootPlans /\ Len(bootPlan) \in Nat /\ bootAt \in Places /\ Places' = Places
      /\ bootStep \in 1 .. Len(Current) /\ openRes \in SUBSET (Places \X Resources)
  BY <1>0, PlanIs DEF BootTypeOK, Places
<1>2. \A p \in Places : bootPlan[p] \in BootParts
  BY <1>1, PlanIs
<1> DEFINE d == bootPlan[bootAt]
           c == Constructor(d)
<1>3. d \in BootParts /\ Current = c /\ Len(c) \in Nat \ {0} /\ c \in Seq(Steps)
  BY <1>1, <1>2, ConstructorIs DEF Current
<1> HIDE DEF c, d
<1>4. c[bootStep] \in Steps /\ c[bootStep].opens \subseteq Resources
  <2>1. c[bootStep] \in Steps
    BY <1>1, <1>3
  <2> QED
    BY <2>1 DEF Steps
<1>5. openRes' \in SUBSET (Places' \X Resources)
  BY <1>0, <1>1, <1>3, <1>4
<1>6. \A p \in Places, r \in Resources :
        <<p, r>> \in openRes' <=> r \in OpenedAt(p) \/ (p = bootAt /\ r \in c[bootStep].opens)
  BY ZenonT(60), <1>0, <1>3
<1>7. OpenedAt(bootAt) = UNION {c[t].opens : t \in 1 .. bootStep - 1}
  <2>1. ~(bootAt < bootAt)
    BY <1>1 DEF Places
  <2> QED
    BY <1>3, <2>1, ZenonT(60) DEF OpenedAt
<1>8. OpenedAt(bootAt) \cup c[bootStep].opens = UNION {c[t].opens : t \in 1 .. bootStep}
  <2>1. 1 .. bootStep = (1 .. bootStep - 1) \cup {bootStep}
    BY <1>1
  <2> QED
    BY <1>7, <2>1
<1>9. CASE bootStep < Len(c)
  <2>1. bootStep' = bootStep + 1 /\ bootAt' = bootAt
    BY <1>3, <1>9 DEF OpenStep
  <2>2. Current' = c
    BY <1>0, <1>3, <2>1 DEF Current, c, d
  <2>3. \A p \in Places : OpenedAt(p)' = IF p = bootAt THEN UNION {c[t].opens : t \in 1 .. bootStep} ELSE OpenedAt(p)
    <3>1. bootStep' - 1 = bootStep
      BY <1>1, <2>1
    <3>2. \A p \in Places : p \in Nat
      BY DEF Places
    <3>3. \A p \in Places : p = bootAt => ~(p < bootAt)
      BY <1>1, <3>2
    <3>4. UNION {Current'[t].opens : t \in 1 .. bootStep' - 1} = UNION {c[t].opens : t \in 1 .. bootStep}
      BY ONLY ZenonT(60), <2>2, <3>1
    <3>5. \A p \in Places : OpenedAt(p)' =
            IF p < bootAt THEN AllOpens(bootPlan[p])
            ELSE IF p = bootAt THEN UNION {c[t].opens : t \in 1 .. bootStep} ELSE {}
      BY ZenonT(60), <1>0, <2>1, <3>4 DEF OpenedAt
    <3> QED
      BY ONLY ZenonT(60), <3>3, <3>5 DEF OpenedAt
  <2>4. BootTypeOK'
    BY <1>0, <1>1, <1>3, <1>5, <1>9, <2>1, <2>2 DEF BootTypeOK
  <2>5. \A p \in Places, r \in Resources : <<p, r>> \in openRes' <=> r \in OpenedAt(p)'
    <3> SUFFICES ASSUME NEW p \in Places, NEW r \in Resources
                 PROVE  <<p, r>> \in openRes' <=> r \in OpenedAt(p)'
      BY ZenonT(60)
    <3>1. <<p, r>> \in openRes' <=> r \in OpenedAt(p) \/ (p = bootAt /\ r \in c[bootStep].opens)
      BY ZenonT(60), <1>6
    <3>2. CASE p = bootAt
      <4>1. OpenedAt(p)' = OpenedAt(bootAt) \cup c[bootStep].opens
        BY ZenonT(60), <1>8, <2>3, <3>2
      <4> QED
        BY ZenonT(60), <3>1, <3>2, <4>1
    <3>3. CASE p # bootAt
      BY ZenonT(60), <2>3, <3>1, <3>3
    <3> QED
      BY <3>2, <3>3
  <2> QED
    BY <1>0, <1>1, <2>4, <2>5 DEF BootInv
<1>10. CASE ~(bootStep < Len(c))
  <2>1. bootStep' = 1 /\ bootAt' = bootAt + 1 /\ bootStep = Len(c)
    BY <1>1, <1>3, <1>10 DEF OpenStep
  <2>2. UNION {c[t].opens : t \in 1 .. bootStep} = AllOpens(d)
    BY <1>3, <2>1, StepOpens DEF c
  <2>3. \A p \in Places : OpenedAt(p)' = IF p = bootAt THEN AllOpens(d) ELSE OpenedAt(p)
    <3>1. \A p \in Places : p \in Nat /\ (p < bootAt' <=> p < bootAt \/ p = bootAt)
      BY <1>1, <2>1 DEF Places
    <3>2. bootStep' - 1 = 0 /\ 1 .. 0 = {}
      BY <2>1
    <3>3. \A p \in Places : OpenedAt(p)' = IF p < bootAt' THEN AllOpens(bootPlan[p]) ELSE {}
      BY ZenonT(60), <1>0, <3>2 DEF OpenedAt
    <3>4. \A p \in Places : p # bootAt => OpenedAt(p) = IF p < bootAt THEN AllOpens(bootPlan[p]) ELSE {}
      BY DEF OpenedAt
    <3>5. ~(bootAt < bootAt)
      BY <1>1 DEF Places
    <3> QED
      BY <3>1, <3>3, <3>4, <3>5 DEF d
  <2>4. BootTypeOK'
    <3>1. bootAt' \in 1 .. Len(bootPlan) + 1
      BY <1>1, <2>1 DEF Places
    <3>2. bootAt' <= Len(bootPlan) => bootPlan[bootAt'] \in BootParts
      BY <1>1, <1>2, <3>1 DEF Places
    <3>3. Current' = Constructor(bootPlan[bootAt'])
      BY <1>0 DEF Current
    <3>4. bootAt' <= Len(bootPlan) => bootStep' <= Len(Current')
      BY <2>1, <3>2, <3>3, ConstructorIs
    <3> QED
      BY <1>0, <1>1, <1>5, <2>1, <3>1, <3>4 DEF BootTypeOK
  <2>5. \A p \in Places, r \in Resources : <<p, r>> \in openRes' <=> r \in OpenedAt(p)'
    BY ZenonT(60), <1>6, <1>8, <2>2, <2>3
  <2> QED
    BY <1>0, <1>1, <2>4, <2>5 DEF BootInv
<1> QED
  BY <1>9, <1>10

\* The first thing to close is chosen: everything open is of a kind that will be closed.
LEMMA ClosingBegins ==
  ASSUME BootInv, bootPhase \in {"opening", "up"}, UNCHANGED <<bootPlan, bootAt>>,
         UsersFirst(closeOrder'), openRes' \subseteq openRes,
         \A p \in Places, r \in Resources : p < bootAt => (<<p, r>> \in openRes' <=> <<p, r>> \in openRes),
         \A p \in Places : p < bootAt /\ bootPlan[p] # "instruments" => Kind(bootPlan[p]) \in Todo',
         bootAt \in Places /\ bootPlan[bootAt] # "telemetry" => \A r \in Resources : <<bootAt, r>> \notin openRes'
  PROVE  ClosingInv'
<1>1. /\ BootTypeOK /\ bootPlan \in BootPlans
      /\ \A p \in Places, r \in Resources : <<p, r>> \in openRes <=> r \in OpenedAt(p)
  BY DEF BootInv, BootTypeOK
<1>2. /\ Len(bootPlan) \in Nat /\ \A p \in Places : bootPlan[p] \in BootParts /\ p \in Nat
      /\ bootAt \in Nat /\ Places' = Places
  BY <1>1, PlanIs DEF Places, BootTypeOK
<1>3. \A p \in Places : AllOpens(bootPlan[p]) \subseteq Resources
  BY <1>2, StepOpens, ConstructorIs
<1>4. ASSUME NEW p \in Places, NEW r \in Resources, <<p, r>> \in openRes'
      PROVE  /\ r \in AllOpens(bootPlan[p])
             /\ \/ p < bootAt /\ Kind(bootPlan[p]) \in Todo'
                \/ p = bootAt /\ bootPlan[p] = "telemetry"
  <2>1. r \in OpenedAt(p)
    BY <1>1, <1>4
  <2>2. CASE p < bootAt
    <3>1. r \in AllOpens(bootPlan[p])
      BY <2>1, <2>2 DEF OpenedAt
    <3>2. bootPlan[p] # "instruments"
      BY <3>1, InstrumentsOpenNothing
    <3>3. Kind(bootPlan[p]) \in Todo'
      BY <2>2, <3>2
    <3> QED
      BY <2>2, <3>1, <3>3
  <2>3. CASE p = bootAt
    <3>1. r \in UNION {Current[t].opens : t \in 1 .. bootStep - 1}
      BY <1>2, <2>1, <2>3 DEF OpenedAt
    <3>2. bootStep - 1 \in 0 .. Len(Current) /\ Current = Constructor(bootPlan[p])
      <4>1. Len(Constructor(bootPlan[p])) \in Nat
        BY <1>2, ConstructorIs
      <4> QED
        BY <1>1, <1>2, <2>3, <4>1 DEF BootTypeOK, Current, Places
    <3>3. r \in AllOpens(bootPlan[p])
      BY <1>2, <3>1, <3>2, StepOpens
    <3> QED
      BY <1>4, <2>3, <3>3
  <2>4. CASE p > bootAt
    BY <1>2, <2>1, <2>4 DEF OpenedAt
  <2> QED
    BY <1>2, <2>2, <2>3, <2>4
<1>5. ASSUME NEW p \in Places, p < bootAt, NEW r \in AllOpens(bootPlan[p]) PROVE <<p, r>> \in openRes'
  BY <1>1, <1>3, <1>5 DEF OpenedAt
<1> QED
  BY <1>2, <1>4, <1>5 DEF ClosingInv

LEMMA OpenFailsInv == ASSUME BootInv, OpenFails PROVE BootInv'
<1>0. /\ BootTypeOK /\ bootPhase = "opening" /\ bootAt <= Len(bootPlan) /\ bootPhase' = "closing"
      /\ openRes' = openRes \ {<<bootAt, r>> : r \in Current[bootStep].undo}
      /\ closeOrder' = IF InWireAll(bootPlan[bootAt]) THEN WireAllFails(Kind(bootPlan[bootAt])) ELSE ServeDefers
      /\ UNCHANGED <<bootPlan, bootAt, bootStep>>
      /\ \A p \in Places, r \in Resources : <<p, r>> \in openRes <=> r \in OpenedAt(p)
  BY DEF BootInv, OpenFails
<1>1. /\ bootPlan \in BootPlans /\ Len(bootPlan) \in Nat /\ bootAt \in Places /\ Places' = Places
      /\ bootStep \in 1 .. Len(Current) /\ openRes \in SUBSET (Places \X Resources)
  BY <1>0, PlanIs DEF BootTypeOK, Places
<1>2. \A p \in Places : bootPlan[p] \in BootParts /\ p \in Nat
  BY <1>1, PlanIs DEF Places
<1> DEFINE d == bootPlan[bootAt]
<1>3. d \in BootParts /\ Kind(d) \in Kinds
  BY <1>1, <1>2, KindIs
<1>4. UsersFirst(closeOrder')
  BY <1>0, <1>3, DefersInOrder, WireAllInOrder
<1>5. ASSUME NEW p \in Places, p < bootAt, bootPlan[p] # "instruments" PROVE Kind(bootPlan[p]) \in Todo'
  <2>1. Kind(bootPlan[p]) \in Kinds \ {"instruments"} /\ d # "telemetry" /\ Kind(d) # "telemetry"
    BY <1>1, <1>2, <1>3, <1>5, PlanIs, KindIs
  <2>2. CASE InWireAll(d)
    <3>1. InWireAll(bootPlan[p])
      BY <1>1, <1>5, <2>2, PlanIs
    <3>2. Kind(bootPlan[p]) \in {"telemetry", "store", "sinks", "coord"}
      BY <2>1, <3>1 DEF InWireAll
    <3>3. closeOrder' = WireAllFails(Kind(d))
      BY ZenonT(60), <1>0, <2>2
    <3>4. \E k \in 1 .. Len(closeOrder') : closeOrder'[k] = Kind(bootPlan[p])
      BY ZenonT(60), <1>3, <2>1, <3>2, <3>3, WireAllInOrder
    <3> QED
      BY ONLY ZenonT(60), <3>4 DEF Todo
  <2>3. CASE ~InWireAll(d)
    <3>1. closeOrder' = ServeDefers
      BY ZenonT(60), <1>0, <2>3
    <3>2. \E k \in 1 .. Len(closeOrder') : closeOrder'[k] = Kind(bootPlan[p])
      BY ZenonT(60), <2>1, <3>1, DefersInOrder
    <3> QED
      BY ONLY ZenonT(60), <3>2 DEF Todo
  <2> QED
    BY <2>2, <2>3
<1>6. ASSUME d # "telemetry", NEW r \in Resources PROVE <<bootAt, r>> \notin openRes'
  <2>1. ~(bootAt < bootAt) /\ Current = Constructor(d)
    BY <1>1, <1>2 DEF Current
  <2>2. OpenedAt(bootAt) = UNION {Current[t].opens : t \in 1 .. bootStep - 1}
    BY <2>1, ZenonT(60) DEF OpenedAt
  <2>3. OpenedAt(bootAt) \subseteq Current[bootStep].undo
    BY <1>1, <1>3, <1>6, <2>1, <2>2, ConstructorIs DEF Undone
  <2>4. <<bootAt, r>> \in openRes <=> r \in OpenedAt(bootAt)
    BY <1>0, <1>1
  <2> QED
    BY <1>0, <2>3, <2>4
<1>7. \A p \in Places, r \in Resources : p < bootAt => (<<p, r>> \in openRes' <=> <<p, r>> \in openRes)
  BY <1>0, <1>1, <1>2
<1>8. ClosingInv'
  BY <1>0, <1>4, <1>5, <1>6, <1>7, ClosingBegins
<1>9. BootTypeOK'
  BY <1>0, <1>1 DEF BootTypeOK, Current
<1> QED
  BY <1>0, <1>8, <1>9 DEF BootInv

LEMMA ServeReturnsInv == ASSUME BootInv, ServeReturns PROVE BootInv'
<1>0. /\ BootTypeOK /\ bootPhase = "up" /\ bootPhase' = "closing" /\ closeOrder' = ServeDefers
      /\ UNCHANGED <<bootPlan, bootAt, bootStep, openRes>> /\ bootAt = Len(bootPlan) + 1
  BY DEF BootInv, ServeReturns
<1>1. /\ bootPlan \in BootPlans /\ Len(bootPlan) \in Nat /\ \A p \in Places : bootPlan[p] \in BootParts
  BY <1>0, PlanIs DEF BootTypeOK
<1>2. \A p \in Places : bootPlan[p] # "instruments" => Kind(bootPlan[p]) \in Todo'
  BY <1>0, <1>1, KindIs, DefersInOrder DEF Todo
<1>3. bootAt \notin Places
  BY <1>0, <1>1 DEF Places
<1>4. ClosingInv'
  BY <1>0, <1>2, <1>3, DefersInOrder, ClosingBegins
<1>5. BootTypeOK'
  BY <1>0 DEF BootTypeOK, Current, Places
<1> QED
  BY <1>0, <1>4, <1>5 DEF BootInv

LEMMA TodoTail ==
  ASSUME UsersFirst(closeOrder), closeOrder # <<>>, closeOrder' = Tail(closeOrder)
  PROVE  UsersFirst(closeOrder') /\ Todo' = Todo \ {Head(closeOrder)}
<1>1. /\ closeOrder \in Seq(Kinds) /\ \A k, l \in 1 .. Len(closeOrder) : closeOrder[k] = closeOrder[l] => k = l
      /\ \A k \in 1 .. Len(closeOrder) : UsedBy(closeOrder[k]) \subseteq {closeOrder[l] : l \in k + 1 .. Len(closeOrder)}
  BY DEF UsersFirst
<1>2. PICK n \in Nat : n = Len(closeOrder) - 1
  BY <1>1
<1>3. /\ Len(closeOrder) = n + 1 /\ closeOrder' \in Seq(Kinds) /\ Len(closeOrder') = n
      /\ \A k \in 1 .. n : closeOrder'[k] = closeOrder[k + 1]
      /\ Head(closeOrder) = closeOrder[1]
  BY <1>1, <1>2
<1>4. \A k, l \in 1 .. n : closeOrder'[k] = closeOrder'[l] => k = l
  BY <1>1, <1>3
<1>5. ASSUME NEW k \in 1 .. n, NEW u \in UsedBy(closeOrder'[k])
      PROVE  u \in {closeOrder'[l] : l \in k + 1 .. n}
  <2>1. PICK l \in k + 2 .. n + 1 : u = closeOrder[l]
    BY <1>1, <1>3, <1>5
  <2>2. l - 1 \in k + 1 .. n /\ l - 1 \in 1 .. n /\ closeOrder'[l - 1] = closeOrder[l]
    BY <1>3, <2>1
  <2> QED
    BY ZenonT(60), <2>1, <2>2
<1>6. UsersFirst(closeOrder')
  BY ZenonT(60), <1>3, <1>4, <1>5 DEF UsersFirst
<1>7. \A k \in 1 .. n : closeOrder'[k] \in Todo \ {Head(closeOrder)}
  BY <1>1, <1>3 DEF Todo
<1>8. ASSUME NEW k \in 1 .. n + 1, closeOrder[k] # Head(closeOrder) PROVE closeOrder[k] \in Todo'
  <2>1. k - 1 \in 1 .. n /\ closeOrder'[k - 1] = closeOrder[k]
    BY <1>3, <1>8
  <2> QED
    BY <1>3, <2>1 DEF Todo
<1> QED
  BY <1>3, <1>6, <1>7, <1>8 DEF Todo

LEMMA CloseKindInv == ASSUME BootInv, CloseKind PROVE BootInv'
<1>0. /\ BootTypeOK /\ ClosingInv /\ bootPhase = "closing" /\ closeOrder # <<>>
      /\ openRes' = {x \in openRes : \/ Kind(bootPlan[x[1]]) # Head(closeOrder)
                                     \/ x[1] = bootAt
                                     \/ ~Closes(bootPlan[x[1]], x[2])}
      /\ closeOrder' = Tail(closeOrder) /\ UNCHANGED <<bootPlan, bootAt, bootStep, bootPhase>>
  BY DEF BootInv, CloseKind
<1>1. UsersFirst(closeOrder') /\ Todo' = Todo \ {Head(closeOrder)} /\ Places' = Places
  BY <1>0, TodoTail DEF ClosingInv, Places
<1>2. \A p \in Places, r \in Resources :
        <<p, r>> \in openRes' <=>
          /\ <<p, r>> \in openRes
          /\ Kind(bootPlan[p]) # Head(closeOrder) \/ p = bootAt \/ ~Closes(bootPlan[p], r)
  BY <1>0
<1>3. \A p \in Places, r \in Resources : ~Closes(bootPlan[p], r) => r = "udp"
  BY DEF Closes, FeedCloses
<1>4. bootAt \in Nat /\ \A p \in Places : p \in Nat
  BY <1>0 DEF BootTypeOK, Places
<1>5. \A p \in Places, r \in Resources : <<p, r>> \in openRes' =>
        /\ r \in AllOpens(bootPlan[p])
        /\ \/ p < bootAt /\ Kind(bootPlan[p]) \in Todo'
           \/ r = "udp"
           \/ p = bootAt /\ bootPlan[p] = "telemetry"
  BY <1>0, <1>1, <1>2, <1>3, <1>4 DEF ClosingInv
<1>6. ASSUME NEW p \in Places, p < bootAt, Kind(bootPlan[p]) \in Todo', NEW r \in AllOpens(bootPlan[p])
      PROVE  <<p, r>> \in openRes'
  <2>1. Kind(bootPlan[p]) \in Todo /\ Kind(bootPlan[p]) # Head(closeOrder)
    BY <1>1, <1>6
  <2>2. <<p, r>> \in openRes
    BY <1>0, <1>6, <2>1 DEF ClosingInv
  <2> QED
    BY <1>0, <2>1, <2>2
<1>7. ClosingInv'
  BY <1>0, <1>1, <1>5, <1>6 DEF ClosingInv
<1>8. BootTypeOK'
  BY <1>0, <1>1 DEF BootTypeOK, Current
<1> QED
  BY <1>0, <1>7, <1>8 DEF BootInv

LEMMA BootNextInv == BootInv /\ [BootNext]_bootVars => BootInv'
<1> SUFFICES ASSUME BootInv, [BootNext]_bootVars PROVE BootInv'
  OBVIOUS
<1>1. CASE ServeRuns
  <2>1. /\ BootTypeOK /\ bootPhase = "opening" /\ bootPhase' = "up" /\ bootAt > Len(bootPlan)
        /\ UNCHANGED <<bootPlan, bootAt, bootStep, openRes, closeOrder>>
    BY <1>1 DEF BootInv, ServeRuns
  <2>2. Len(bootPlan) \in Nat
    BY <2>1, PlanIs DEF BootTypeOK
  <2>3. bootAt' = Len(bootPlan') + 1
    BY <2>1, <2>2 DEF BootTypeOK
  <2> QED
    BY <2>1, <2>3 DEF BootInv, BootTypeOK, OpenedAt, Current, Places
<1>2. CASE BootEnds \/ UNCHANGED bootVars
  BY <1>2 DEF BootEnds, bootVars, BootInv, BootTypeOK, OpenedAt, Current, Places, ClosingInv, Todo
<1> QED
  BY <1>1, <1>2, OpenStepInv, OpenFailsInv, ServeReturnsInv, CloseKindInv DEF BootNext

LEMMA BootInvOrderly == BootInv => OrderlyStop
<1> SUFFICES ASSUME BootInv PROVE OrderlyStop
  OBVIOUS
<1>0. BootTypeOK /\ bootPlan \in BootPlans /\ openRes \in SUBSET (Places \X Resources)
  BY DEF BootInv, BootTypeOK
<1>1. /\ Len(bootPlan) \in Nat /\ \A p \in Places : bootPlan[p] \in BootParts /\ p \in Nat
      /\ bootAt \in Nat
  BY <1>0, PlanIs DEF Places, BootTypeOK
<1>2. NothingLeftOpen
  <2> SUFFICES ASSUME bootPhase = "ended", NEW x \in openRes
               PROVE  x[2] = "udp" \/ (bootPlan[x[1]] = "telemetry" /\ bootAt = x[1])
    BY DEF NothingLeftOpen
  <2>1. ClosingInv /\ Todo = {}
    BY DEF BootInv, Todo
  <2>2. PICK p \in Places, r \in Resources : x = <<p, r>>
    BY <1>0
  <2>3. r = "udp" \/ (p = bootAt /\ bootPlan[p] = "telemetry")
    BY <2>1, <2>2 DEF ClosingInv
  <2> QED
    BY <2>2, <2>3
<1>3. ClosedAfterItsUsers
  <2> SUFFICES ASSUME NEW x \in openRes, NEW q \in Places,
                      Kind(bootPlan[q]) \in UsedBy(Kind(bootPlan[x[1]])),
                      NEW s \in DOMAIN Constructor(bootPlan[q]), NEW o \in Constructor(bootPlan[q])[s].opens
               PROVE  <<q, o>> \in openRes
    BY DEF ClosedAfterItsUsers, Places
  <2>1. PICK p \in Places, r \in Resources : x = <<p, r>>
    BY <1>0
  <2>2. Kind(bootPlan[q]) \in UsedBy(Kind(bootPlan[p])) /\ <<p, r>> \in openRes
    BY <2>1
  <2>3. q < p
    <3>1. q # p
      BY <1>1, <2>2, KindIs
    <3>2. ~(p < q)
      BY <1>0, <2>2, PlanIs
    <3> QED
      BY <1>1, <3>1, <3>2
  <2>4. o \in AllOpens(bootPlan[q]) /\ o \in Resources
    <3>1. DOMAIN Constructor(bootPlan[q]) = 1 .. Len(Constructor(bootPlan[q]))
      BY <1>1, ConstructorIs
    <3>2. o \in AllOpens(bootPlan[q])
      BY <3>1 DEF AllOpens
    <3> QED
      BY <1>1, <3>2, StepOpens, ConstructorIs
  <2>5. CASE bootPhase \in {"opening", "up"}
    <3>1. \A k \in Places, z \in Resources : <<k, z>> \in openRes <=> z \in OpenedAt(k)
      BY ZenonT(60), <2>5 DEF BootInv
    <3>2. ~(p > bootAt)
      BY <1>1, <2>2, <3>1 DEF OpenedAt
    <3>3. q < bootAt
      BY <1>1, <2>3, <3>2
    <3> QED
      BY <2>4, <3>1, <3>3 DEF OpenedAt
  <2>6. CASE bootPhase \in {"closing", "ended"}
    <3>1. ClosingInv
      BY <2>6 DEF BootInv
    <3>2. bootPlan[p] \in {"owner", "health", "admin"}
      BY <1>1, <2>2, KindIs
    <3>3. r # "udp"
      BY <2>2, <3>1, <3>2, OpensByUsers DEF ClosingInv
    <3>4. p < bootAt /\ Kind(bootPlan[p]) \in Todo
      BY <2>2, <3>1, <3>2, <3>3 DEF ClosingInv
    <3>5. Kind(bootPlan[q]) \in Todo
      <4>1. PICK k \in 1 .. Len(closeOrder) : closeOrder[k] = Kind(bootPlan[p])
        BY <3>4 DEF Todo
      <4>2. Kind(bootPlan[q]) \in {closeOrder[l] : l \in k + 1 .. Len(closeOrder)}
        BY ZenonT(60), <2>2, <3>1, <4>1 DEF ClosingInv, UsersFirst
      <4>3. Len(closeOrder) \in Nat
        BY <3>1 DEF ClosingInv, UsersFirst
      <4> QED
        BY <4>2, <4>3 DEF Todo
    <3>6. q < bootAt
      BY <1>1, <2>3, <3>4
    <3> QED
      BY <2>4, <3>1, <3>5, <3>6 DEF ClosingInv
  <2> QED
    BY <1>0, <2>5, <2>6 DEF BootTypeOK
<1> QED
  BY <1>2, <1>3 DEF OrderlyStop

\* For every configuration, with any number of sinks and sources: wherever the start of
\* serve fails, and after a regular stop, everything is closed, each part after its users.
THEOREM BootStopsOrderly == BootSpec => []OrderlyStop
BY BootInitInv, BootNextInv, BootInvOrderly, PTL DEF BootSpec

-----------------------------------------------------------------------------
(* DynamoLease *)

\* Processes have different owner tokens; what Close does, it does after closing.
Discipline ==
  /\ \A p, q \in Inst : owner[p] = owner[q] => p = q
  /\ \A p \in Inst : taken[p] => ~open[p]
  /\ \A p \in Inst : pc[p] = "poll" /\ ~open[p] => hurt[p]

LeaseInv == TypeOK /\ Discipline

\* The row is p's until the skew can matter, and while it is, its expiry is the
\* clock reading plus lease_duration.
Healthy(p) ==
  /\ owner[p] \notin dels
  /\ age[p] <= Lease - Skew => row.owner = owner[p]
  /\ row.owner = owner[p] /\ age[p] <= Lease - Skew => row.rem = Lease + off[p] - age[p]

Safe(p) == pc[p] \in {"won", "poll"} /\ ~hurt[p] /\ open[p]
HealthInv == \A p \in Inst : Safe(p) => Healthy(p)

LEMMA DropType ==
  ASSUME TypeOK, NEW p \in Inst, Drop(p)
  PROVE  /\ pc' \in [Inst -> {"idle", "put", "won", "poll", "release"}]
         /\ age' \in [Inst -> 0 .. MaxAge] /\ held' \in [Inst -> BOOLEAN]
         /\ hurt' \in [Inst -> BOOLEAN]
BY DynamoAssumptions DEF Drop, TypeOK, MaxAge

LEMMA RowType ==
  ASSUME TypeOK, NEW p \in Inst, NEW t
  PROVE  /\ Del(t) \in [owner : Owner \cup {None}, rem : Int]
         /\ Item(p) \in [owner : Owner \cup {None}, rem : Int]
         /\ Item(p).owner = owner[p] /\ Item(p).rem = off[p] - age[p] + Lease
BY DynamoAssumptions DEF TypeOK, Del, Item, NoRow, MaxAge

\* A conditional delete deletes at most the row of its own process.
LEMMA DeleteEffect ==
  ASSUME TypeOK, NEW p \in Inst, conditionalDelete(p)
  PROVE  /\ row' \in [owner : Owner \cup {None}, rem : Int] /\ dels' \subseteq Owner
         /\ faults' \in 0 .. MaxFaults
         /\ row' = row \/ (row.owner = owner[p] /\ row' = NoRow)
         /\ dels' \subseteq dels \cup {owner[p]}
BY DynamoAssumptions, RowType DEF conditionalDelete, Del, Fault, NoFault, TypeOK

LEMMA InitLeaseInv == Init => LeaseInv
BY DynamoAssumptions DEF Init, LeaseInv, TypeOK, Discipline, NoRow, MaxAge

\* Types and the discipline are preserved: one step per action.
LEMMA NextLeaseInv == LeaseInv /\ [Next]_vars => LeaseInv'
<1> SUFFICES ASSUME LeaseInv, [Next]_vars PROVE LeaseInv'
  OBVIOUS
<1>0. TypeOK /\ Discipline
  BY DEF LeaseInv
<1>1. ASSUME NEW p \in Inst, Now(p) PROVE LeaseInv'
  BY <1>0, <1>1 DEF Now, proc, LeaseInv, TypeOK, Discipline
<1>2. ASSUME NEW p \in Inst, PutItem(p) PROVE LeaseInv'
  <2>1. /\ row' = Item(p) /\ pc' = [pc EXCEPT ![p] = "won"]
        /\ UNCHANGED <<age, held, taken, dels, faults, off, owner, open>>
    BY <1>2 DEF PutItem, proc
  <2>h. hurt' \in [Inst -> BOOLEAN] /\ \A q \in Inst : q # p => hurt'[q] = hurt[q]
    BY <1>0, <1>2 DEF PutItem, TypeOK
  <2>2. TypeOK'
    BY ZenonT(60), <1>0, <2>1, <2>h, RowType DEF TypeOK
  <2>3. Discipline'
    BY <1>0, <2>1, <2>h DEF TypeOK, Discipline
  <2> QED
    BY <2>2, <2>3 DEF LeaseInv
<1>3. ASSUME NEW p \in Inst, PutItemFails(p) PROVE LeaseInv'
  <2>1. /\ Drop(p) /\ UNCHANGED <<taken, dels, off, owner, open>>
        /\ row' \in {row, Item(p)} /\ (Fault \/ NoFault)
    BY <1>3 DEF PutItemFails, proc
  <2>2. faults' \in 0 .. MaxFaults
    BY <1>0, <2>1, DynamoAssumptions DEF TypeOK, Fault, NoFault
  <2>3. TypeOK'
    BY <1>0, <2>1, <2>2, DropType, RowType DEF TypeOK
  <2>4. Discipline'
    BY <1>0, <2>1 DEF Drop, TypeOK, Discipline
  <2> QED
    BY <2>3, <2>4 DEF LeaseInv
<1>4. ASSUME NEW p \in Inst, Register(p) PROVE LeaseInv'
  <2>1. CASE open[p]
    <3>1. /\ pc' = [pc EXCEPT ![p] = "poll"] /\ held' = [held EXCEPT ![p] = TRUE]
          /\ UNCHANGED <<row, age, dels, hurt, faults, taken, off, owner, open>>
      BY <1>4, <2>1 DEF Register, proc
    <3>2. TypeOK'
      BY <1>0, <3>1 DEF TypeOK
    <3>3. Discipline'
      BY <1>0, <2>1, <3>1 DEF TypeOK, Discipline
    <3> QED
      BY <3>2, <3>3 DEF LeaseInv
  <2>2. CASE ~open[p]
    <3>1. conditionalDelete(p) /\ Drop(p) /\ UNCHANGED <<taken, off, owner, open>>
      BY <1>4, <2>2 DEF Register, proc
    <3>2. TypeOK'
      BY <1>0, <3>1, DeleteEffect, DropType DEF TypeOK
    <3>3. Discipline'
      BY <1>0, <3>1 DEF Drop, TypeOK, Discipline
    <3> QED
      BY <3>2, <3>3 DEF LeaseInv
  <2> QED
    BY <2>1, <2>2
<1>5. ASSUME NEW p \in Inst, Release(p) PROVE LeaseInv'
  <2>0. UNCHANGED <<row, taken, dels, faults, off, owner, open>>
    BY <1>5 DEF Release, proc
  <2>1. CASE Drop(p)
    <3>1. TypeOK'
      BY <1>0, <2>0, <2>1, DropType DEF TypeOK
    <3>2. Discipline'
      BY <1>0, <2>0, <2>1 DEF Drop, TypeOK, Discipline
    <3> QED
      BY <3>1, <3>2 DEF LeaseInv
  <2>2. CASE ~Drop(p)
    <3>0. /\ pc' = [pc EXCEPT ![p] = "release"] /\ held' = [held EXCEPT ![p] = FALSE]
          /\ age' = [age EXCEPT ![p] = 0] /\ UNCHANGED hurt
      BY <1>5, <2>2 DEF Release
    <3>1. TypeOK'
      BY <1>0, <2>0, <3>0, DynamoAssumptions DEF TypeOK, MaxAge
    <3>2. Discipline'
      BY <1>0, <2>0, <3>0 DEF TypeOK, Discipline
    <3> QED
      BY <3>1, <3>2 DEF LeaseInv
  <2> QED
    BY <2>1, <2>2
<1>6. ASSUME NEW p \in Inst, ReleaseDelete(p) PROVE LeaseInv'
  <2>1. conditionalDelete(p) /\ Drop(p) /\ UNCHANGED <<taken, off, owner, open>>
    BY <1>6 DEF ReleaseDelete, proc
  <2>2. TypeOK'
    BY <1>0, <2>1, DeleteEffect, DropType DEF TypeOK
  <2>3. Discipline'
    BY <1>0, <2>1 DEF Drop, TypeOK, Discipline
  <2> QED
    BY <2>2, <2>3 DEF LeaseInv
<1>7. ASSUME NEW p \in Inst, CloseStart(p) PROVE LeaseInv'
  <2>1. TypeOK'
    BY <1>0, <1>7 DEF CloseStart, TypeOK
  <2>2. Discipline'
    BY <1>0, <1>7 DEF CloseStart, TypeOK, Discipline
  <2> QED
    BY <2>1, <2>2 DEF LeaseInv
<1>8. ASSUME NEW p \in Inst, CloseLease(p) PROVE LeaseInv'
  <2>1. TypeOK'
    BY <1>0, <1>8, DeleteEffect DEF CloseLease, proc, TypeOK
  <2>2. Discipline'
    BY <1>0, <1>8 DEF CloseLease, proc, TypeOK, Discipline
  <2> QED
    BY <2>1, <2>2 DEF LeaseInv
<1>9. ASSUME NEW p \in Inst, Restart(p) PROVE LeaseInv'
  <2>1. PICK t \in Owner : /\ \A q \in Inst : t # owner[q]
                           /\ owner' = [owner EXCEPT ![p] = t]
    BY ZenonT(60), <1>9 DEF Restart
  <2>2. /\ Drop(p) /\ UNCHANGED <<row, off, dels>> /\ taken' = [taken EXCEPT ![p] = FALSE]
        /\ open' = [open EXCEPT ![p] = TRUE] /\ (Fault \/ NoFault)
    BY <1>9 DEF Restart
  <2>3. faults' \in 0 .. MaxFaults
    BY <1>0, <2>2, DynamoAssumptions DEF TypeOK, Fault, NoFault
  <2>4. TypeOK'
    BY <1>0, <2>1, <2>2, <2>3, DropType DEF TypeOK
  <2>5. Discipline'
    BY <1>0, <2>1, <2>2 DEF Drop, TypeOK, Discipline
  <2> QED
    BY <2>4, <2>5 DEF LeaseInv
<1>10. ASSUME NEW t \in Owner, LateDelete(t) PROVE LeaseInv'
  <2>1. row' \in {row, Del(t)} /\ dels' \subseteq Owner
        /\ UNCHANGED <<off, owner, pc, age, held, open, taken, hurt, faults>>
    BY <1>0, <1>10 DEF LateDelete, TypeOK
  <2>2. row' \in [owner : Owner \cup {None}, rem : Int]
    BY <1>0, <2>1, DynamoAssumptions DEF TypeOK, Del, NoRow
  <2> QED
    BY <1>0, <2>1, <2>2 DEF LeaseInv, TypeOK, Discipline
<1>11. CASE Tick
  <2>1. row' \in [owner : Owner \cup {None}, rem : Int]
    BY <1>0, <1>11 DEF Tick, TypeOK
  <2>2. age' \in [Inst -> 0 .. MaxAge]
    BY <1>0, <1>11, DynamoAssumptions DEF Tick, TypeOK, MaxAge
  <2> QED
    BY <1>0, <1>11, <2>1, <2>2 DEF Tick, proc, LeaseInv, TypeOK, Discipline
<1>12. CASE UNCHANGED vars
  BY <1>0, <1>12 DEF vars, LeaseInv, TypeOK, Discipline
<1> QED
  BY <1>1, <1>2, <1>3, <1>4, <1>5, <1>6, <1>7, <1>8, <1>9, <1>10, <1>11, <1>12
     DEF Next, Step

-----------------------------------------------------------------------------
\* A put by another process finds the row of p free only when p's lease may be
\* over: the skew bounds how far ahead the other clock can be.
LEMMA OthersWait ==
  ASSUME LeaseInv, NEW p \in Inst, Healthy(p), NEW q \in Inst, Free(q)
  PROVE  age[p] > Lease - Skew
<1> SUFFICES ASSUME age[p] <= Lease - Skew PROVE FALSE
  BY DynamoAssumptions DEF LeaseInv, TypeOK, MaxAge
<1>1. age[p] \in Nat /\ age[q] \in Nat /\ off[p] \in Nat /\ off[q] \in 0 .. Skew
  BY DynamoAssumptions DEF LeaseInv, TypeOK, MaxAge
<1>2. row.owner = owner[p] /\ row.owner # None
  BY DynamoAssumptions DEF Healthy, LeaseInv, TypeOK
<1>3. row.rem = Lease + off[p] - age[p] /\ row.rem < off[q] - age[q]
  BY <1>1, <1>2, DynamoAssumptions DEF Healthy, Free
<1> QED
  BY <1>1, <1>3, DynamoAssumptions

\* A step that changes nothing of p and leaves its row alone.
LEMMA Untouched ==
  ASSUME NEW p \in Inst, Healthy(p), row' = row, owner[p] \notin dels',
         owner'[p] = owner[p], age'[p] = age[p], off'[p] = off[p]
  PROVE  Healthy(p)'
BY DEF Healthy

\* The lease time of an unthreatened holder is preserved: one step per action.
LEMMA NextHealthInv == LeaseInv /\ HealthInv /\ [Next]_vars => HealthInv'
<1> SUFFICES ASSUME LeaseInv, HealthInv, [Next]_vars, NEW p \in Inst, Safe(p)'
             PROVE  Healthy(p)'
  BY DEF HealthInv
<1>0. TypeOK /\ Discipline
  BY DEF LeaseInv
<1>h. Safe(p) => Healthy(p)
  BY DEF HealthInv
<1>d. ASSUME NEW q \in Inst, q # p, conditionalDelete(q), Healthy(p)
      PROVE  owner[p] \notin dels' /\ (row' = row \/ (row.owner # owner[p] /\ row' = NoRow))
  <2>1. owner[q] # owner[p] /\ owner[p] \notin dels
    BY <1>0, <1>d DEF Healthy, Discipline
  <2>2. /\ row' = row \/ (row.owner = owner[q] /\ row' = NoRow)
        /\ dels' \subseteq dels \cup {owner[q]}
    BY <1>0, <1>d, DeleteEffect
  <2> QED
    BY <2>1, <2>2
<1>n. ASSUME Healthy(p), row.owner # owner[p], row'.owner # owner[p],
             owner[p] \notin dels', owner'[p] = owner[p], age'[p] = age[p]
      PROVE  Healthy(p)'
  BY <1>n DEF Healthy
<1>w. owner[p] # None
  BY <1>0, DynamoAssumptions DEF TypeOK
<1>x. ASSUME NEW q \in Inst, q # p, conditionalDelete(q), Safe(p),
             owner'[p] = owner[p], age'[p] = age[p], off'[p] = off[p]
      PROVE  Healthy(p)'
  <2>1. Healthy(p) /\ owner[p] \notin dels' /\ (row' = row \/ (row.owner # owner[p] /\ row' = NoRow))
    BY ZenonT(60), <1>d, <1>h, <1>x
  <2>2. CASE row' = row
    BY ZenonT(60), <1>x, <2>1, <2>2, Untouched
  <2>3. CASE row.owner # owner[p] /\ row' = NoRow
    <3>1. row'.owner # owner[p]
      BY <1>w, <2>3 DEF NoRow
    <3> QED
      BY ZenonT(60), <1>n, <1>x, <2>1, <2>3, <3>1
  <2> QED
    BY <2>1, <2>2, <2>3
<1>1. ASSUME NEW q \in Inst, Now(q) PROVE Healthy(p)'
  <2>1. Safe(p)
    BY <1>0, <1>1 DEF Now, proc, TypeOK, Safe
  <2> QED
    BY <1>1, <1>h, <2>1, Untouched DEF Now, proc, Healthy
<1>2. ASSUME NEW q \in Inst, PutItem(q) PROVE Healthy(p)'
  <2>0. row'.owner = owner[q] /\ row'.rem = off[q] - age[q] + Lease
    BY <1>0, <1>2, RowType DEF PutItem
  <2>1. CASE p = q
    <3>1. owner[p] \notin dels /\ UNCHANGED <<owner, age, off, dels>>
      BY <1>0, <1>2, <2>1 DEF PutItem, proc, TypeOK, Safe
    <3> QED
      BY <1>0, <2>0, <2>1, <3>1, DynamoAssumptions DEF Healthy, TypeOK, MaxAge
  <2>2. CASE p # q
    <3>1. Safe(p) /\ UNCHANGED <<owner, age, off, dels>> /\ Free(q)
      BY <1>0, <1>2, <2>2 DEF PutItem, proc, TypeOK, Safe
    <3>2. age[p] > Lease - Skew
      BY <1>h, <3>1, OthersWait
    <3>3. row'.owner # owner[p]
      BY <1>0, <2>0, <2>2 DEF Discipline
    <3> QED
      BY <1>0, <1>h, <3>1, <3>2, <3>3, DynamoAssumptions DEF Healthy, TypeOK, MaxAge
  <2> QED
    BY <2>1, <2>2
<1>3. ASSUME NEW q \in Inst, PutItemFails(q) PROVE Healthy(p)'
  <2>1. Drop(q) /\ UNCHANGED <<dels, off, owner, open>>
        /\ (row' = row \/ (Free(q) /\ row' = Item(q)))
    BY <1>3 DEF PutItemFails, proc
  <2>2. p # q /\ Safe(p) /\ age'[p] = age[p]
    BY <1>0, <2>1 DEF Drop, TypeOK, Safe
  <2>3. CASE row' = row
    BY ZenonT(60), <1>h, <2>1, <2>2, <2>3, Untouched DEF Healthy
  <2>4. CASE Free(q) /\ row' = Item(q)
    <3>1. age[p] > Lease - Skew
      BY <1>h, <2>2, <2>4, OthersWait
    <3>2. row'.owner # owner[p]
      BY <1>0, <2>2, <2>4, RowType DEF Discipline
    <3> QED
      BY <1>0, <1>h, <2>1, <2>2, <3>1, <3>2, DynamoAssumptions DEF Healthy, TypeOK, MaxAge
  <2> QED
    BY <2>1, <2>3, <2>4
<1>4. ASSUME NEW q \in Inst, Register(q) PROVE Healthy(p)'
  <2>1. CASE open[q]
    <3>1. UNCHANGED <<row, age, dels, hurt, off, owner, open>>
          /\ pc[q] = "won" /\ pc' = [pc EXCEPT ![q] = "poll"]
      BY <1>4, <2>1 DEF Register, proc
    <3>2. Safe(p)
      BY <1>0, <3>1 DEF TypeOK, Safe
    <3> QED
      BY <1>h, <3>1, <3>2, Untouched DEF Healthy
  <2>2. CASE ~open[q]
    <3>1. conditionalDelete(q) /\ Drop(q) /\ UNCHANGED <<off, owner, open>>
      BY <1>4, <2>2 DEF Register, proc
    <3>2. p # q /\ Safe(p) /\ age'[p] = age[p]
      BY <1>0, <3>1 DEF Drop, TypeOK, Safe
    <3> QED
      BY ZenonT(60), <1>x, <3>1, <3>2
  <2> QED
    BY <2>1, <2>2
<1>5. ASSUME NEW q \in Inst, Release(q) PROVE Healthy(p)'
  <2>1. UNCHANGED <<row, dels, off, owner, open>> /\ pc'[q] \in {"idle", "release"}
    BY <1>0, <1>5 DEF Release, Drop, proc, TypeOK
  <2>2. p # q
    BY <2>1 DEF Safe
  <2>3. pc'[p] = pc[p] /\ hurt'[p] = hurt[p] /\ age'[p] = age[p]
    BY <1>0, <1>5, <2>2 DEF Release, Drop, TypeOK
  <2> QED
    BY <1>h, <2>1, <2>3, Untouched DEF Safe, Healthy
<1>6. ASSUME NEW q \in Inst, ReleaseDelete(q) PROVE Healthy(p)'
  <2>1. conditionalDelete(q) /\ Drop(q) /\ UNCHANGED <<off, owner, open>>
    BY <1>6 DEF ReleaseDelete, proc
  <2>2. p # q /\ Safe(p) /\ age'[p] = age[p]
    BY <1>0, <2>1 DEF Drop, TypeOK, Safe
  <2> QED
    BY ZenonT(60), <1>x, <2>1, <2>2
<1>7. ASSUME NEW q \in Inst, CloseStart(q) PROVE Healthy(p)'
  <2>1. p # q /\ Safe(p)
    BY <1>0, <1>7 DEF CloseStart, TypeOK, Safe
  <2> QED
    BY ZenonT(60), <1>7, <1>h, <2>1, Untouched DEF CloseStart, Healthy
<1>8. ASSUME NEW q \in Inst, CloseLease(q) PROVE Healthy(p)'
  <2>1. conditionalDelete(q) /\ taken[q] /\ UNCHANGED <<pc, age, hurt, off, owner, open>>
    BY <1>8 DEF CloseLease, proc
  <2>2. p # q /\ Safe(p)
    BY <1>0, <2>1 DEF Safe, Discipline
  <2> QED
    BY ZenonT(60), <1>x, <2>1, <2>2
<1>9. ASSUME NEW q \in Inst, Restart(q) PROVE Healthy(p)'
  <2>1. /\ Drop(q) /\ UNCHANGED <<row, off, dels>> /\ open' = [open EXCEPT ![q] = TRUE]
        /\ \E t \in Owner : owner' = [owner EXCEPT ![q] = t]
    BY ZenonT(60), <1>9 DEF Restart
  <2>2. p # q /\ Safe(p) /\ age'[p] = age[p] /\ owner'[p] = owner[p]
    BY <1>0, <2>1 DEF Drop, TypeOK, Safe
  <2> QED
    BY ZenonT(60), <1>h, <2>1, <2>2, Untouched DEF Healthy
<1>10. ASSUME NEW t \in Owner, LateDelete(t) PROVE Healthy(p)'
  <2>1. Safe(p) /\ UNCHANGED <<age, off, owner>> /\ t \in dels /\ dels' \subseteq dels
    BY ZenonT(60), <1>10 DEF LateDelete, Safe
  <2>2. row' = row \/ (row.owner = t /\ row' = NoRow)
    BY <1>10 DEF LateDelete, Del
  <2> QED
    BY ZenonT(60), <1>h, <1>n, <1>w, <2>1, <2>2, Untouched DEF Healthy, NoRow
<1>11. CASE Tick
  <2>1. Safe(p) /\ UNCHANGED <<owner, off, dels>> /\ pc[p] \notin {"idle", "release"} /\ row'.owner = row.owner
    BY <1>0, <1>11 DEF Tick, proc, Safe, TypeOK
  <2>2. age[p] \in 0 .. MaxAge /\ off[p] \in Nat /\ row.rem \in Int
    BY <1>0 DEF TypeOK
  <2>3. age'[p] = IF age[p] < MaxAge THEN age[p] + 1 ELSE age[p]
    BY <1>11, <2>1 DEF Tick
  <2>4. CASE age'[p] <= Lease - Skew
    <3>1. age'[p] = age[p] + 1 /\ age[p] <= Lease - Skew
      BY <2>2, <2>3, <2>4, DynamoAssumptions DEF MaxAge
    <3>2. CASE row.owner = owner[p]
      <4>1. row.rem = Lease + off[p] - age[p] /\ row.rem > Floor /\ row.owner # None
        BY <1>h, <1>w, <2>1, <2>2, <3>1, <3>2, DynamoAssumptions DEF Healthy, Floor
      <4>2. row'.rem = row.rem - 1
        BY <1>0, <1>11, <4>1 DEF Tick, TypeOK
      <4>3. row'.rem = Lease + off[p] - age'[p]
        BY ONLY Z3T(30), SMTT(30), <2>2, <3>1, <4>1, <4>2, DynamoAssumptions
      <4>4. owner[p] \notin dels
        BY ZenonT(60), <1>h, <2>1 DEF Healthy
      <4> QED
        BY ZenonT(60), <2>1, <3>2, <4>3, <4>4 DEF Healthy
    <3>3. CASE row.owner # owner[p]
      BY <1>h, <2>1, <2>2, <3>1, <3>3, DynamoAssumptions DEF Healthy
    <3> QED
      BY <3>2, <3>3
  <2>5. CASE ~(age'[p] <= Lease - Skew)
    BY <1>h, <2>1, <2>5 DEF Healthy
  <2> QED
    BY <2>4, <2>5
<1>12. CASE UNCHANGED vars
  BY <1>12, <1>h DEF vars, Healthy, Safe
<1> QED
  BY <1>1, <1>2, <1>3, <1>4, <1>5, <1>6, <1>7, <1>8, <1>9, <1>10, <1>11, <1>12
     DEF Next, Step

-----------------------------------------------------------------------------
\* The state of every process and of the row is well typed in every execution.
THEOREM DynamoTypeCorrect == Spec => []TypeOK
<1>1. Spec => []LeaseInv
  BY InitLeaseInv, NextLeaseInv, PTL DEF Spec
<1>2. LeaseInv => TypeOK
  BY DEF LeaseInv
<1> QED
  BY <1>1, <1>2, PTL

\* The inductive invariant: types, distinct owners, and the expiry of the row of
\* every holder that no Close or earlier delete of its own threatens.
THEOREM DynamoInductive == Spec => [](LeaseInv /\ HealthInv)
<1>1. Init => LeaseInv /\ HealthInv
  BY InitLeaseInv DEF Init, HealthInv, Safe
<1>2. LeaseInv /\ HealthInv /\ [Next]_vars => (LeaseInv /\ HealthInv)'
  BY NextLeaseInv, NextHealthInv
<1> QED
  BY <1>1, <1>2, PTL DEF Spec

\* The row stays with its holder for lease_duration less the clock skew, counted
\* from the clock reading in TryAcquire, whatever the other processes do.
THEOREM DynamoKeepsLease == Spec => []LeaseCoversPoll
<1>1. LeaseInv /\ HealthInv => LeaseCoversPoll
  BY DEF LeaseInv, Discipline, HealthInv, Safe, Healthy, LeaseCoversPoll, Covered
<1> QED
  BY <1>1, DynamoInductive, PTL

\* Polls that end within that time do not overlap.
THEOREM DynamoExcludes == Spec => []CoveredPollsExclude
<1>1. LeaseInv /\ LeaseCoversPoll => CoveredPollsExclude
  BY DEF LeaseInv, Discipline, LeaseCoversPoll, CoveredPollsExclude
<1>2. Spec => []LeaseInv
  BY InitLeaseInv, NextLeaseInv, PTL DEF Spec
<1> QED
  BY <1>1, <1>2, DynamoKeepsLease, PTL

-----------------------------------------------------------------------------
CoordStep == [Coord!CNext]_(Coord!cvars)
Gone(p) == row.owner # owner[p] \/ row.rem < Skew

\* A row that is free for some clock is the live lease of nobody.
LEMMA FreeIsGone ==
  ASSUME LeaseInv, NEW q \in Inst, Free(q), NEW p \in Inst
  PROVE  Gone(p)
<1>1. off[q] \in 0 .. Skew /\ age[q] \in Nat /\ row.rem \in Int /\ owner[p] # None
  BY DynamoAssumptions DEF LeaseInv, TypeOK, MaxAge
<1> QED
  BY <1>1, DynamoAssumptions DEF Free, Gone

\* A step that starts and ends no poll, and revives no lost lease, loses at most
\* the one live lease.
LEMMA LeaseMayGo ==
  ASSUME LeaseInv, UNCHANGED owner, \A q \in Inst : Holds(q)' <=> Holds(q),
         \A q \in Inst : Holds(q) /\ Gone(q) => Gone(q)'
  PROVE  CoordStep
<1>1. CASE \E p \in Inst : Holds(p) /\ ~Gone(p) /\ Gone(p)'
  <2>1. PICK p \in Inst : Holds(p) /\ ~Gone(p) /\ Gone(p)'
    BY <1>1
  <2>2. \A q \in Inst : q # p => Gone(q)
    BY <2>1 DEF LeaseInv, Discipline, Gone
  <2>3. Coord!Lose(p)
    BY <2>1, <2>2 DEF Coord!Lose, Gone
  <2> QED
    BY <2>3 DEF CoordStep, Coord!CNext
<1>2. CASE ~\E p \in Inst : Holds(p) /\ ~Gone(p) /\ Gone(p)'
  BY <1>2 DEF CoordStep, Coord!cvars, Gone
<1> QED
  BY <1>1, <1>2

\* A step that ends the poll of p, if it has one, and leaves the others' leases
\* as they are.
LEMMA PollEnds ==
  ASSUME NEW p \in Inst, ~Holds(p)',
         \A q \in Inst : q # p => (Holds(q)' <=> Holds(q)),
         \A q \in Inst : q # p => (Gone(q)' <=> Gone(q))
  PROVE  CoordStep
<1>1. CASE Holds(p)
  <2>1. Coord!Leave(p)
    BY <1>1 DEF Coord!Leave, Gone
  <2> QED
    BY <2>1 DEF CoordStep, Coord!CNext
<1>2. CASE ~Holds(p)
  BY <1>2 DEF CoordStep, Coord!cvars, Gone
<1> QED
  BY <1>1, <1>2

\* A delete by p is no change for the leases of the others.
LEMMA DeleteIsOwn ==
  ASSUME LeaseInv, NEW p \in Inst, conditionalDelete(p), UNCHANGED owner
  PROVE  /\ \A q \in Inst : q # p => (Gone(q)' <=> Gone(q))
         /\ \A q \in Inst : Gone(q) => Gone(q)'
<1>1. row' = row \/ (row.owner = owner[p] /\ row' = NoRow)
  BY DeleteEffect DEF LeaseInv
<1>2. \A q \in Inst : owner[q] # None /\ (q # p => owner[q] # owner[p])
  BY DynamoAssumptions DEF LeaseInv, TypeOK, Discipline
<1> QED
  BY <1>1, <1>2 DEF Gone, NoRow

LEMMA NextCoord == LeaseInv /\ [Next]_vars => CoordStep
<1> SUFFICES ASSUME LeaseInv, [Next]_vars PROVE CoordStep
  OBVIOUS
<1>0. TypeOK /\ Discipline
  BY DEF LeaseInv
<1>1. ASSUME NEW p \in Inst, Now(p) PROVE CoordStep
  BY <1>0, <1>1, LeaseMayGo DEF Now, proc, TypeOK, Holds, Gone
<1>2. ASSUME NEW p \in Inst, PutItem(p) PROVE CoordStep
  <2>1. UNCHANGED owner /\ \A q \in Inst : Gone(q)
    BY <1>2, FreeIsGone DEF PutItem, proc
  <2>a. \A q \in Inst : q # p => (Holds(q)' <=> Holds(q))
    BY <1>0, <1>2 DEF PutItem, TypeOK, Holds
  <2>b. row'.owner = owner[p]
    BY <1>0, <1>2, RowType DEF PutItem
  <2>c. \A q \in Inst : q # p => Gone(q)'
    BY <1>0, <2>1, <2>b DEF Discipline, Gone
  <2>2. \A q \in Inst : q # p => (Holds(q)' <=> Holds(q)) /\ Gone(q)'
    BY <2>a, <2>c
  <2>3. ~Holds(p) /\ Holds(p)'
    BY <1>0, <1>2 DEF PutItem, TypeOK, Holds
  <2>4. Coord!Win(p)
    BY <2>1, <2>2, <2>3 DEF Coord!Win, Gone
  <2> QED
    BY <2>4 DEF CoordStep, Coord!CNext
<1>3. ASSUME NEW p \in Inst, PutItemFails(p) PROVE CoordStep
  <2>1. /\ Drop(p) /\ UNCHANGED owner
        /\ row' = row \/ (Free(p) /\ row' = Item(p))
    BY <1>3 DEF PutItemFails, proc
  <2>2. ~Holds(p)' /\ \A q \in Inst : q # p => (Holds(q)' <=> Holds(q))
    BY <1>0, <2>1 DEF Drop, TypeOK, Holds
  <2>3. \A q \in Inst : q # p => (Gone(q)' <=> Gone(q))
    <3>1. CASE row' = row
      BY <2>1, <3>1 DEF Gone
    <3>2. CASE Free(p) /\ row' = Item(p)
      BY <1>0, <2>1, <3>2, FreeIsGone, RowType DEF Gone, Discipline
    <3> QED
      BY <2>1, <3>1, <3>2
  <2> QED
    BY <2>2, <2>3, PollEnds
<1>4. ASSUME NEW p \in Inst, Register(p) PROVE CoordStep
  <2>1. CASE open[p]
    <3>1. UNCHANGED <<row, owner>> /\ pc[p] = "won" /\ pc' = [pc EXCEPT ![p] = "poll"]
      BY <1>4, <2>1 DEF Register, proc
    <3> QED
      BY <1>0, <3>1, LeaseMayGo DEF TypeOK, Holds, Gone
  <2>2. CASE ~open[p]
    <3>1. conditionalDelete(p) /\ Drop(p) /\ UNCHANGED owner
      BY <1>4, <2>2 DEF Register, proc
    <3> QED
      BY <1>0, <3>1, DeleteIsOwn, PollEnds DEF Drop, TypeOK, Holds
  <2> QED
    BY <2>1, <2>2
<1>5. ASSUME NEW p \in Inst, Release(p) PROVE CoordStep
  <2>1. UNCHANGED <<row, owner>> /\ pc'[p] \in {"idle", "release"}
    BY <1>0, <1>5 DEF Release, Drop, proc, TypeOK
  <2>2. \A q \in Inst : q # p => pc'[q] = pc[q]
    BY <1>0, <1>5 DEF Release, Drop, TypeOK
  <2> QED
    BY <2>1, <2>2, PollEnds DEF Holds, Gone
<1>6. ASSUME NEW p \in Inst, ReleaseDelete(p) PROVE CoordStep
  <2>1. conditionalDelete(p) /\ Drop(p) /\ UNCHANGED owner
    BY <1>6 DEF ReleaseDelete, proc
  <2> QED
    BY <1>0, <2>1, DeleteIsOwn, PollEnds DEF Drop, TypeOK, Holds
<1>7. ASSUME NEW p \in Inst, CloseStart(p) PROVE CoordStep
  BY ZenonT(60), <1>7, LeaseMayGo DEF CloseStart, Holds, Gone
<1>8. ASSUME NEW p \in Inst, CloseLease(p) PROVE CoordStep
  <2>1. conditionalDelete(p) /\ UNCHANGED <<owner, pc>>
    BY <1>8 DEF CloseLease, proc
  <2> QED
    BY <2>1, DeleteIsOwn, LeaseMayGo DEF Holds
<1>9. ASSUME NEW p \in Inst, Restart(p) PROVE CoordStep
  <2>1. /\ Drop(p) /\ UNCHANGED row
        /\ \E t \in Owner : owner' = [owner EXCEPT ![p] = t]
    BY ZenonT(60), <1>9 DEF Restart
  <2>2. ~Holds(p)' /\ \A q \in Inst : q # p => pc'[q] = pc[q] /\ owner'[q] = owner[q]
    BY <1>0, <2>1 DEF Drop, TypeOK, Holds
  <2> QED
    BY <2>1, <2>2, PollEnds DEF Holds, Gone
<1>10. ASSUME NEW t \in Owner, LateDelete(t) PROVE CoordStep
  <2>1. UNCHANGED <<owner, pc>> /\ (row' = row \/ row' = NoRow)
    BY <1>10 DEF LateDelete, Del
  <2>2. \A q \in Inst : Gone(q) => Gone(q)'
    BY <1>0, <2>1, DynamoAssumptions DEF Gone, NoRow, TypeOK
  <2> QED
    BY <2>1, <2>2, LeaseMayGo DEF Holds
<1>11. CASE Tick
  <2>1. UNCHANGED <<owner, pc>>
    BY <1>11 DEF Tick, proc
  <2>2. row'.owner = row.owner /\ row'.rem \in {row.rem, row.rem - 1} /\ row.rem \in Int
    BY <1>0, <1>11 DEF Tick, TypeOK
  <2>3. \A q \in Inst : Gone(q) => Gone(q)'
    BY <2>1, <2>2, DynamoAssumptions DEF Gone
  <2> QED
    BY <2>1, <2>3, LeaseMayGo DEF Holds
<1>12. CASE UNCHANGED vars
  BY <1>12, LeaseMayGo DEF vars, Holds, Gone
<1> QED
  BY <1>1, <1>2, <1>3, <1>4, <1>5, <1>6, <1>7, <1>8, <1>9, <1>10, <1>11, <1>12
     DEF Next, Step

\* The DynamoDB lease implements the coordinator contract: a put wins only when no
\* poller has a lease that some clock still reads as live.
THEOREM DynamoImplements == Spec => ImplementsCoordinator
<1>1. Init => Coord!CInit
  BY DEF Init, Coord!CInit, Holds
<1>2. Spec => []LeaseInv
  BY InitLeaseInv, NextLeaseInv, PTL DEF Spec
<1> QED
  BY <1>1, <1>2, NextCoord, PTL DEF Spec, CoordStep, ImplementsCoordinator, Coord!CSpec
=============================================================================
