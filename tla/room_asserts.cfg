SPECIFICATION Spec
CONSTANTS
  Kinds = {"raw"}
  N = 2
  MaxSize = 3
  MaxPaged = 10
  PageSize = 4
  Policy <- MCPolicy
  ElmSize = 256
  Threshold = 1024
  Builds = {"debug"}
  Careful = TRUE
  Values = {a, b}
  Raw = Raw
  Moved = Moved
CHECK_DEADLOCK FALSE
INVARIANT NeverAborts
