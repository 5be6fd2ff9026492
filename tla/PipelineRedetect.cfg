SPECIFICATION FairSpec
CONSTANTS
  Inst = {p1}
  Items = {"a"}
  Hashes = {"v1", "v2"}
  None = None
  Bodies <- MCOneItem
  NumSinks = 1
  HasDLQ = {}
  Validators = TRUE
  Exclusive = TRUE
  LeaseLoss = TRUE
  ItemTTL = 0
  ExplicitPrune = {}
  AdminEnabled = FALSE
  MaxAge = 0
  MaxFaults = 1
PROPERTIES DroppedIsRedetected
