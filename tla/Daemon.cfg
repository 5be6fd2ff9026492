SPECIFICATION MCSpec
CONSTANTS
  Url = {u1, u2}
  Cfg = {c1, c2, c3}
  Bad = {c3}
  Loop = {l1}
  None = None
  FeedSets <- MCFeedSets
  Assigned = TRUE
  QueueLen = 1
  MaxFaults = 0
  Resource = {k1, k2}
  KubeUrl = {w1, w2}
  NoUrl = NoUrl
  NoResource = NoResource
  MaxApplies = 3
  Job = {j1, j2, j3}
  Worker = {w3, w4}
  NoJob = NoJob
  PgInst = {i1, i2}
  LockedFeed = {f1}
  Beats = Beats
  Slot = {s1}
  FreeLock = FreeLock
  Dying = Dying
  NoSlot = NoSlot
  MaxBreaks = 1
PROPERTIES Converges ShutdownEnds PollNowServed StatusArrives CycleEnds PgImplements PgPolledAgain
CHECK_DEADLOCK FALSE
