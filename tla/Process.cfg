SPECIFICATION MCSpec
CONSTANTS
  BootPlans <- MCBootPlans
  Url = {u1, u2}
  Cfg = {c1, c2, c3}
  Bad = {c3}
  Loop = {l1, l2}
  None = None
  FeedSets <- FeedSet
  Assigned = FALSE
  QueueLen = 0
  MaxFaults = 1
  Member <- MCMember
  Rank <- MCRank
  MaxRank = 3
  MaxScore = 2
  MaxLen = 4
  StoreDriver = {"postgres", "sqlite", "dynamodb", "cosmosdb"}
  TTLs = {0, 3}
  HashVal = {"a", "b"}
  EtagVal = {"e"}
  MaxLag = 1
  AgeCap = 8
  Entry = {e1, e2, e3, e4}
  MaxItems = 2
  PruneEvery = 2
  MaxStamp = 4
  MaxWrites = 5
  Request = {r1, r2}
  CacheTTL = 1
  MaxRender = 1
  MaxSecond = 4
  MaxChanges = 2
  Document <- MCDocument
  MaxVersions = 2
  Driver = {"kafka", "kafka_noacks", "amqp091", "amqp10", "amqp10_dedup", "rabbitmq_stream", "nats", "gcp_pubsub", "azureservicebus", "azureservicebus_dedup", "http", "grpc", "dapr", "stdout", "sqs", "sqs_fifo", "sns", "sns_fifo", "postgres", "dynamodb", "cosmosdb"}
  SinkItem = {i1}
  Hash = {h1, h2}
  NoHash = NoHash
  MaxPolls = 3
  MaxTries = 2
  MaxLate = 1
  Width = 10
  DefaultBase = 3
  MaxSetting = 40
  MaxRetry = 11
INVARIANTS ReloadIsSafe ReturnsOwner  OrderlyStop WindowIsNewest
INVARIANTS QuietWithoutNews KeptForTTL CurrentAndOnce CeilingIsExact
PROPERTIES ServedIsFresh
SYMMETRY Symmetry
CHECK_DEADLOCK FALSE
