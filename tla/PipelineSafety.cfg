SPECIFICATION Spec
CONSTANTS
  Inst = {p1, p2}
  Items = {"a"}
  Hashes = {"v1", "v2"}
  None = None
  Bodies <- MCOneItem
  NumSinks = 2
  HasDLQ = {1}
  Validators = TRUE
  Exclusive = TRUE
  LeaseLoss = TRUE
  ItemTTL = 1
  ExplicitPrune = {0}
  AdminEnabled = TRUE
  MaxAge = 2
  MaxFaults = 1
SYMMETRY Symmetry
VIEW WithoutHistories
INVARIANTS CommittedWasDelivered
