SPECIFICATION Spec
CONSTANTS
  S = S
  M = M
  A = A
  B = B
  pusher = pusher
  relay = relay
  NoPipe = NoPipe
  Pipes = {S, M, A, B}
  Callers = {pusher, relay}
  SizeMax <- Small
  Blocking = {S, M, A, B}
  Wiring <- Loose
  Pushes <- OnePusher
  Wirings <- Rewire
  Sources = {S}
  Sinks = {A}
  Quits = {S}
  Tunings <- MovedTunings
  Drops = {A}
  MaxCommits = 3
INVARIANTS
  Bounded
  InOrder
  OneFeeder
  LinksAgree
PROPERTIES
  ClosedIsFinal
CHECK_DEADLOCK FALSE
