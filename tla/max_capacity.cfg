SPECIFICATION Spec
CONSTANTS
  Doubly = TRUE
  Storage = "paged"
  PageSize = 4
  Inplace = 0
  Npos = 7
  Capacities = {0, 1, 3}
  MaxRequest = 6
  Reserving = "never"
  Clearing = FALSE
  Reversing = FALSE
  Values = {a, b}
  Raw = Raw
  Moved = Moved
  None = None
  End = End
CHECK_DEADLOCK FALSE
INVARIANTS NeverAborts
