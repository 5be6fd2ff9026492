SPECIFICATION MCSpec
CONSTANTS
  Driver = {"cosmosdb"}
  SinkItem = {i1}
  Hash = {h1, h2}
  NoHash = NoHash
  MaxPolls = 3
  MaxTries = 2
  MaxLate = 1
INVARIANT UpdatesAreWritten
CHECK_DEADLOCK FALSE
