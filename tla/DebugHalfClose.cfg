SPECIFICATION Spec
CONSTANTS
  x = x
  y = y
  other = other
  dbg = dbg
  Clients = {x, y}
  OverIPv6 = {y}
  Habits <- OneShots
  Receivers = {dbg, other}
  Emissions <- Severities
  BindMayFail = TRUE
  MayStop = TRUE
  MaxConnQueued = 1
  SendBuffer = 1
  MaxTrees = 1
  MaxEntries = 2
INVARIANT
  AutoAnswered
