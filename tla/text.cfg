SPECIFICATION Spec
CONSTANTS
  Chars = {"1", " ", "/"}
  NUL = "0"
  Junk = "?"
  Slash = "/"
  Space = " "
  Digit = "1"
  ArrSize = 2
  Blocks <- MCBlocks
  Short = 0
  Pieces <- MCPieces
  MaxLine = 5
  MaxShared = 2
  MaxText = 3
  Careful = TRUE
INVARIANTS TypeOK BlocksOwned StringKept StreamKept SplitsJoin PopsAgree
CHECK_DEADLOCK FALSE
