SPECIFICATION Spec
CONSTANTS
  Inst = {p1}
  Items = {"a"}
  Hashes = {"v1", "v2"}
  None = None
  Bodies <- MCOneItem
  NumSinks = 1
  HasDLQ = {}
  Validators = FALSE
  Exclusive = FALSE
  LeaseLoss = FALSE
  ItemTTL = 1
  ExplicitPrune = {}
  AdminEnabled = FALSE
  MaxAge = 2
  MaxFaults = 0
PROPERTIES PresentItemsKept
