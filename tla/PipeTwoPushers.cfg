SPECIFICATION Spec
CONSTANTS
  S = S
  M = M
  A = A
  B = B
  pusher = pusher
  relay = relay
  NoPipe = NoPipe
  Pipes = {S, A, B}
  Callers = {pusher, relay}
  SizeMax <- Two
  Blocking = {S}
  Wiring <- Star
  Pushes <- TwoPushers
  Wirings <- None
  Sources = {S}
  Sinks = {}
  Quits = {}
  Tunings <- None
  Drops = {}
  MaxCommits = 3
INVARIANTS
  BroadcastReachesAll
CHECK_DEADLOCK FALSE
