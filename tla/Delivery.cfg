SPECIFICATION MCSpec
CONSTANTS
  Sink = {s1, s2, s3}
  NoSink = NoSink
  MaxAttempts = 2
  MaxDepth = 20
  Caller = {p1, p2}
  MaxCalls = 2
  Holder = {q1, q2}
  LockTime = 3
  ClockSkew = 1
  MaxWait = 2
  MaxFailures = 1
INVARIANTS NothingLostSilently NoResendToChildren ConfirmIsOwn LockCoversPoll
PROPERTIES DeliveryEnds PublishEnds CosmosImplements CosmosPolledAgain
CHECK_DEADLOCK FALSE
