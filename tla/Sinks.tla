-------------------------------- MODULE Sinks --------------------------------
(* What the drivers' Publish calls leave at their destinations, over repeated  *)
(* attempts, lost answers and late requests, while an item's content changes.  *)
(* A poll that found new content is abstracted to DetectNew; the destinations     *)
(* are external.                                                               *)
EXTENDS Integers, Sequences, FiniteSets, Functions

CONSTANTS Driver, SinkItem, Hash, NoHash,
          MaxPolls, MaxTries,  \* bounds on detections, and on attempts of a delivery
          MaxLate              \* bound on requests that outlive their caller

\* Driver names, some with the setting of the sink or of the broker's entity that
\* matters here ("dedup": the entity has duplicate detection turned on).
AllDrivers ==
  {"kafka", "kafka_noacks", "amqp091", "amqp10", "amqp10_dedup", "rabbitmq_stream", "nats",
   "gcp_pubsub", "azureservicebus", "azureservicebus_dedup", "http", "grpc", "dapr", "stdout",
   "sqs", "sqs_fifo", "sns", "sns_fifo", "postgres", "dynamodb", "cosmosdb"}

ASSUME SinksAssumptions ==
  /\ Driver \subseteq AllDrivers
  /\ NoHash \notin Hash /\ MaxPolls \in Nat /\ MaxTries \in Nat /\ MaxLate \in Nat

VARIABLES driver, content, stored, \* the feed's entries and the hashes of the state store
          storedAt,                \* detection time of the committed change
          change, tries,           \* the change being delivered, attempts so far
          dest,                    \* what a consumer or reader of the destination gets
          dedup,                   \* ids in the destination's deduplication window
          late, landed,            \* abandoned requests under way; one has taken effect
          polls, paused            \* polls so far; the ordering key is paused

sinkVars == <<driver, content, stored, storedAt, change, tries, dest, dedup, late, landed,
              polls, paused>>

NoChange == [item |-> "", hash |-> NoHash, at |-> 0]

-----------------------------------------------------------------------------
(* The drivers: how the destination identifies a message (id), what it does    *)
(* with one whose id it knows (known), and whether Publish waits until the      *)
(* destination has it (waits).                                                  *)

Appends(waits) == [id |-> <<>>, known |-> "append", waits |-> waits]

Coalesces(id) == [id |-> id, known |-> "coalesce", waits |-> TRUE]

Kafka(acks) == Appends(acks # "none")
Amqp091 == Appends(FALSE)          \* no publisher confirms
\* MessageID is the ItemID; an entity that detects duplicates goes by it.
Amqp10(c, detects) == IF detects THEN Coalesces(<<c.item>>) ELSE Appends(TRUE)
AzureServiceBus(c, detects) == IF detects THEN Coalesces(<<c.item>>) ELSE Appends(TRUE)
RabbitmqStream == Appends(TRUE)
Nats == Appends(TRUE)
GcpPubsub == Appends(TRUE)
Http == Appends(TRUE)
Grpc == Appends(TRUE)
Dapr == Appends(TRUE)
Stdout == Appends(TRUE)

\* fifoDedupID of the SQS and SNS sinks.
fifoDedupID(c) == <<c.item, c.hash>>
Sqs(c, fifo) == IF fifo THEN Coalesces(fifoDedupID(c)) ELSE Appends(TRUE)
SnsDedupID(c) == <<c.item, c.hash>>
Sns(c, fifo) == IF fifo THEN Coalesces(SnsDedupID(c)) ELSE Appends(TRUE)

\* Table sinks: PRIMARY KEY and ON CONFLICT DO NOTHING, PutItem, CreateItem.
KeyWithoutTime(c) == <<c.item>>
PostgresKey(c) == <<c.item, c.at>>
Postgres(c) == [id |-> PostgresKey(c), known |-> "keep", waits |-> TRUE]
DynamoDB(c) == [id |-> <<c.item>>, known |-> "replace", waits |-> TRUE]
docID(c) == <<c.item>>
CosmosDB(c) == [id |-> docID(c), known |-> "keep", waits |-> TRUE]

Sent(c) ==
  CASE driver = "kafka" -> Kafka("all")      [] driver = "kafka_noacks" -> Kafka("none")
    [] driver = "amqp091" -> Amqp091         [] driver = "amqp10" -> Amqp10(c, FALSE)
    [] driver = "amqp10_dedup" -> Amqp10(c, TRUE)
    [] driver = "rabbitmq_stream" -> RabbitmqStream [] driver = "nats" -> Nats
    [] driver = "gcp_pubsub" -> GcpPubsub
    [] driver = "azureservicebus" -> AzureServiceBus(c, FALSE)
    [] driver = "azureservicebus_dedup" -> AzureServiceBus(c, TRUE)
    [] driver = "http" -> Http               [] driver = "grpc" -> Grpc
    [] driver = "dapr" -> Dapr               [] driver = "stdout" -> Stdout
    [] driver = "sqs" -> Sqs(c, FALSE)       [] driver = "sqs_fifo" -> Sqs(c, TRUE)
    [] driver = "sns" -> Sns(c, FALSE)       [] driver = "sns_fifo" -> Sns(c, TRUE)
    [] driver = "postgres" -> Postgres(c)    [] driver = "dynamodb" -> DynamoDB(c)
    [] driver = "cosmosdb" -> CosmosDB(c)

Ordered == driver = "gcp_pubsub"   \* with an ordering key

\* External: a message reaches the destination.
Holds(c) == \E i \in DOMAIN dest : Sent(dest[i]).id = Sent(c).id
Reach(c) ==
  LET rule == Sent(c).known
  IN  /\ dest' = CASE rule = "append" -> Append(dest, c)
                   [] rule = "coalesce" -> IF Sent(c).id \in dedup THEN dest ELSE Append(dest, c)
                   [] rule = "keep" -> IF Holds(c) THEN dest ELSE Append(dest, c)
                   [] rule = "replace" ->
                        IF Holds(c) THEN [k \in DOMAIN dest |-> IF dest[k].item = c.item THEN c ELSE dest[k]]
                        ELSE Append(dest, c)
      /\ dedup' = IF rule = "coalesce" THEN dedup \cup {Sent(c).id} ELSE dedup

-----------------------------------------------------------------------------
SinksInit(drivers) ==
  /\ driver \in drivers
  /\ content \in [SinkItem -> Hash] /\ stored = [i \in SinkItem |-> NoHash]
  /\ storedAt = [i \in SinkItem |-> 0]
  /\ change = NoChange /\ tries = 0 /\ dest = <<>> /\ dedup = {} /\ late = {}
  /\ landed = FALSE /\ polls = 0 /\ paused = FALSE

\* External: the site changes an entry, also back to what it was.
Edit(i) ==
  /\ \E h \in Hash \ {content[i]} : content' = [content EXCEPT ![i] = h]
  /\ change = NoChange /\ polls < MaxPolls
  /\ UNCHANGED <<driver, stored, storedAt, change, tries, dest, dedup, late, landed, polls, paused>>

\* A poll finds content that the store does not have; every poll has its own time.
DetectNew(i) ==
  /\ change = NoChange /\ polls < MaxPolls /\ content[i] # stored[i]
  /\ polls' = polls + 1 /\ tries' = 0
  /\ change' = [item |-> i, hash |-> content[i], at |-> polls + 1]
  /\ UNCHANGED <<driver, content, stored, storedAt, dest, dedup, late, landed, paused>>

\* Publish succeeds: the item is committed.
Committed ==
  /\ stored' = [stored EXCEPT ![change.item] = change.hash]
  /\ storedAt' = [storedAt EXCEPT ![change.item] = change.at]
  /\ change' = NoChange /\ tries' = 0

\* Publish fails: another attempt, or none is left and the item stays uncommitted.
Failed ==
  /\ tries' = IF tries + 1 < MaxTries THEN tries + 1 ELSE 0
  /\ change' = IF tries + 1 < MaxTries THEN change ELSE NoChange
  /\ UNCHANGED <<stored, storedAt>>

\* A failed publish pauses the ordering key; the driver resumes it on every error.
Resumed == FALSE

CanSend == change # NoChange /\ ~(Ordered /\ paused)

PublishAcked ==
  /\ CanSend /\ Reach(change) /\ Committed
  /\ UNCHANGED <<driver, content, late, landed, polls, paused>>

\* The destination has the message, the answer is an error or is lost.
PublishAnswerLost ==
  /\ CanSend /\ Reach(change) /\ Failed /\ paused' = Resumed
  /\ UNCHANGED <<driver, content, late, landed, polls>>

\* Not delivered. A driver that does not wait reports success all the same.
PublishRefused ==
  /\ CanSend
  /\ \/ Failed /\ paused' = Resumed
     \/ ~Sent(change).waits /\ Committed /\ UNCHANGED paused
  /\ UNCHANGED <<driver, content, dest, dedup, late, landed, polls>>

\* The deadline passes while the request is under way.
PublishAbandoned ==
  /\ CanSend /\ Cardinality(late) < MaxLate
  /\ late' = late \cup {change} /\ Failed /\ paused' = Resumed
  /\ UNCHANGED <<driver, content, dest, dedup, landed, polls>>

\* ErrPublishingPaused; the error path resumes the key.
PublishPaused ==
  /\ change # NoChange /\ Ordered /\ paused
  /\ Failed /\ paused' = Resumed
  /\ UNCHANGED <<driver, content, dest, dedup, late, landed, polls>>

\* External: an abandoned request takes effect, or fails and pauses its key.
Land ==
  \E c \in late :
    /\ late' = late \ {c}
    /\ \/ Reach(c) /\ landed' = TRUE /\ UNCHANGED paused
       \/ paused' = Ordered /\ UNCHANGED <<dest, dedup, landed>>
    /\ UNCHANGED <<driver, content, stored, storedAt, change, tries, polls>>

\* External: the window ends (five minutes, or as long as the entity is set to), long
\* after a delivery and its requests.
WindowEnds ==
  /\ dedup # {} /\ change = NoChange /\ late = {}
  /\ dedup' = {}
  /\ UNCHANGED <<driver, content, stored, storedAt, change, tries, dest, late, landed, polls, paused>>

SinksNext ==
  \/ \E i \in SinkItem : Edit(i) \/ DetectNew(i)
  \/ PublishAcked \/ PublishAnswerLost \/ PublishRefused \/ PublishAbandoned \/ PublishPaused
  \/ Land \/ WindowEnds

SinksSpec == SinksInit(Driver) /\ [][SinksNext]_sinkVars

-----------------------------------------------------------------------------
EntriesOf(i) == {k \in DOMAIN dest : dest[k].item = i}

\* The destination has no entry of a committed item, or the last one is older.
Behind(i) ==
  /\ stored[i] # NoHash /\ Sent(NoChange).waits /\ ~landed
  /\ \A k \in EntriesOf(i) : (\A j \in EntriesOf(i) : j <= k) =>
       dest[k].hash # stored[i] /\ dest[k].at <= storedAt[i]

\* The exception of a deduplication window: the destination has a message with the id
\* of the committed change and dropped that one. On a FIFO queue it has the same
\* content (the content went back); by MessageID it may be any version of the item.
Coalesced(i) ==
  /\ Sent(NoChange).known = "coalesce"
  /\ LET committed == [item |-> i, hash |-> stored[i], at |-> storedAt[i]]
     IN  \E k \in EntriesOf(i) : Sent(dest[k]).id = Sent(committed).id

\* Whatever was retried, refused or answered too late, a reader of the destination
\* sees the committed content of an item, or newer, and where the driver sends an id
\* the attempts of one change leave one entry. It rests on the ids the drivers
\* choose. Exceptions: drivers that do not wait for the destination; requests that
\* took effect after their caller had given up; a destination that drops what has a
\* known id: content that goes back on a FIFO queue, and every update of an item
\* within the window of an entity that detects duplicates, as azureservicebus.go:166
\* and amqp10.go:159 send the ItemID alone as MessageID; and the Cosmos DB sink (see
\* UpdatesAreWritten).
CurrentAndOnce ==
  /\ driver # "cosmosdb" => \A i \in SinkItem : Behind(i) => Coalesced(i)
  /\ Sent(NoChange).known # "append" => IsInjective(dest)

\* The Cosmos DB sink's comments: "Each Change is written as a JSON document" and
\* "Publish upserts the change as a document" (cosmosdb.go:2,161).
UpdatesAreWritten == driver = "cosmosdb" => \A i \in SinkItem : ~Behind(i)
=============================================================================
