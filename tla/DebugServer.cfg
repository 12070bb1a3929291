SPECIFICATION FairSpec
CONSTANTS
  x = x
  y = y
  other = other
  dbg = dbg
  Clients = {x, y}
  OverIPv6 = {y}
  Habits <- Meetings
  Receivers = {dbg, other}
  Emissions <- Severities
  BindMayFail = TRUE
  MayStop = TRUE
  MaxConnQueued = 1
  SendBuffer = 1
  MaxTrees = 1
  MaxEntries = 2
INVARIANTS
  TypeOK
  NoAnswerLost
  AutoAnswersOnce
  TreePeersCurrent
  LogPeersComplete
PROPERTIES
  EveryoneAccepted
  AnswersArrive
