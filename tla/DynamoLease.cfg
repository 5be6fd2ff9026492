SPECIFICATION FairSpec
CONSTANTS
  Inst = {p1, p2}
  Owner = {o1, o2, o3}
  None = None
  Lease = 2
  Skew = 1
  MaxDelay = 1
  MaxFaults = 1
INVARIANTS LeaseCoversPoll
PROPERTIES PolledAgain
