SPECIFICATION Spec
CONSTANTS
  Doubly = TRUE
  Storage = "fixed"
  PageSize = 1
  Inplace = 4
  Npos = 15
  Capacities = {0, 1, 3}
  MaxRequest = 4
  Reserving = "always"
  Clearing = FALSE
  Reversing = TRUE
  Values = {a, b}
  Raw = Raw
  Moved = Moved
  None = None
  End = End
CHECK_DEADLOCK FALSE
INVARIANTS PrevMirrorsNext FreeListPrev Lifetimes
PROPERTIES ImplementsList
