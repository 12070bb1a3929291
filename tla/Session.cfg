SPECIFICATION FairSpec
CONSTANTS
  INTERNAL_CMD_CLASS = 1
  Builtins <- OnlyHelp
  AppCommands <- LateOnly
  HistoryMax = 2
  Typed <- SomeTyped
  Escaped <- SomeEscaped
  MaxLine = 2
INVARIANTS
  TypeOK
  IndexesValid
  HistoryInOrder
  TabCompletesFirst
PROPERTIES
  CompletionAgrees
  ParserRecovers
CHECK_DEADLOCK FALSE
