SPECIFICATION FairSpec
CONSTANTS
  S = S
  M = M
  A = A
  B = B
  pusher = pusher
  relay = relay
  NoPipe = NoPipe
  Pipes = {S, M, A, B}
  Callers = {pusher, relay}
  SizeMax <- Small
  Blocking = {S, M}
  Wiring <- Tree
  Pushes <- TreePushes
  Wirings <- None
  Sources = {S}
  Sinks = {A, B}
  Quits = {}
  Tunings <- None
  Drops = {}
  MaxCommits = 6
INVARIANTS
  TypeOK
  StreamConserved
PROPERTIES
  Delivers
CHECK_DEADLOCK FALSE
