SPECIFICATION Spec
CONSTANTS
  Doubly = TRUE
  Storage = "paged"
  PageSize = 2
  Inplace = 0
  Npos = 15
  Capacities = {0, 1, 3}
  MaxRequest = 6
  Reserving = "always"
  Clearing = FALSE
  Reversing = FALSE
  Values = {a, b}
  Raw = Raw
  Moved = Moved
  None = None
  End = End
CHECK_DEADLOCK FALSE
PROPERTIES DistanceIsSize
