SPECIFICATION FairSpec
CONSTANTS
  Inst = {p1, p2}
  Items = {"a"}
  Hashes = {"v1", "v2"}
  None = None
  Bodies <- MCOneItem
  NumSinks = 1
  HasDLQ = {}
  Validators = FALSE
  Exclusive = TRUE
  LeaseLoss = TRUE
  ItemTTL = 0
  ExplicitPrune = {}
  AdminEnabled = FALSE
  MaxAge = 0
  MaxFaults = 2
PROPERTIES EventuallyDelivered
