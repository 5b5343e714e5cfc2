SPECIFICATION Spec
CONSTANTS
  Bases = {malloc, arena}
  Malloc = malloc
  Containers = {c1, c2}
  Small = {c1, c2}
  N = 1
  MaxSize = 2
  MaxScopes = 2
  ErrorChoices <- MCErrorChoices
  Careful = TRUE
  None = None
INVARIANTS TypeOK NoDangling BlocksGoHome CountsBalance ClosedBalanced
PROPERTIES ImplementsScopes MaxTracksPeak
CHECK_DEADLOCK FALSE
SYMMETRY Symmetry
