SPECIFICATION Spec
CONSTANTS
  Programs = {p1, p2}
  Endpoints <- MCEndpoints
  Labels <- MCLabels
  TypedUrls <- MCTypedUrls
  Stored <- MCStored
  MaxCommands = 3
  MaxDisturbed = 2
  MayDie = TRUE
SYMMETRY Symmetry
INVARIANTS TypeOK ComputersStayApart StoreIsTrue
CHECK_DEADLOCK FALSE
