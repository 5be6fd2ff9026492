SPECIFICATION FairSpec
CONSTANTS
  N = 2
  Member <- MCMember
  Rank <- MCRank
  MaxRank = 3
  MaxScore = 3
  Feed <- MCFeed
  Score <- MCScore
  TTL = 3
  Beat = 1
  LocalClock = TRUE
  Off <- OneAhead
  Skew = 1
  MaxFaults = 1
INVARIANTS ViewsAreTimely OneRunner
PROPERTIES Heals
CHECK_DEADLOCK FALSE
