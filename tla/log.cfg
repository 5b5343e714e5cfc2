SPECIFICATION Spec
CONSTANTS
  Threads = {t1, t2}
  Configurer = t1
  Names = {net}
  PrefixOf <- MCPrefixOf
  MaxChannels = 1
  RefSize = 2
  Modes <- MCModes
  ErrorChoices <- MCErrorChoices
  Levels <- MCLevels
  ChannelLevels <- MCChannelLevels
  ErrorLines = 2
  Body = 2
  MaxCalls = 2
  Careful = TRUE
  None = None
INVARIANTS TypeOK NothingLost WholeMessages TakenWhole AbortShown
PROPERTIES ImplementsSharedText GetsThrough
CHECK_DEADLOCK FALSE
