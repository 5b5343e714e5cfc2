SPECIFICATION Spec
CONSTANTS
  Doubly = FALSE
  Storage = "contiguous"
  PageSize = 1
  Inplace = 2
  Npos = 15
  Capacities = {0, 1, 3}
  MaxRequest = 6
  Reserving = "empty"
  Clearing = FALSE
  Reversing = FALSE
  Values = {a, b}
  Raw = Raw
  Moved = Moved
  None = None
  End = End
CHECK_DEADLOCK FALSE
INVARIANTS TypeOK IteratorStable NoUndefined
PROPERTIES BeginIsEnd DistanceIsSize ImplementsList
