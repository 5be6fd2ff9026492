SPECIFICATION Spec
CONSTANTS
  Inst = {p1, p2}
  Items = {"a", "b"}
  Hashes = {"v1", "v2"}
  None = None
  Bodies <- MCBodies
  NumSinks = 2
  HasDLQ = {1}
  Validators = TRUE
  Exclusive = TRUE
  LeaseLoss = FALSE
  ItemTTL = 0
  ExplicitPrune = {}
  AdminEnabled = FALSE
  MaxAge = 0
  MaxFaults = 1
SYMMETRY Symmetry
INVARIANTS NoDuplicateWithoutFault SinksAgreeWithStore
