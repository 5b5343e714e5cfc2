SPECIFICATION Spec
CONSTANTS
  Kinds = {"fixed", "raw", "soa", "small", "small_soa", "paged"}
  N = 2
  MaxSize = 5
  MaxPaged = 10
  PageSize = 4
  Policy <- MCPolicy
  ElmSize = 256
  Threshold = 1024
  Builds = {"debug", "release"}
  Careful = TRUE
  Values = {a, b}
  Raw = Raw
  Moved = Moved
CHECK_DEADLOCK FALSE
INVARIANTS TypeOK ContentsKept CapacityBacked NoUndefined
SYMMETRY Symmetry
