SPECIFICATION MCSpec
CONSTANTS
  Inst = {p1, p2}
  Token = {t1, t2, t3, t4}
  None = None
  TTL = 3
  Interval = 1
  MaxFaults = 1
  Peer = {m1, m2}
  EntryTTL = 4
  Period = 1
  PeerSkew = 1
  MaxStall = 1
  MaxErrors = 1
  FeedUrl = {v1}
  SourceTypes <- MCSourceTypes
  SourceName <- MCSourceName
  MaxEdits = 1
  MaxReadErrors = 1
INVARIANTS LossIsOwnFault
PROPERTIES ImplementsCoordinator OrphanExpires ListedForGood KeepsLastGood ChangesArrive
