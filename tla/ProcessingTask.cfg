SPECIFICATION Spec
CONSTANTS
  Root = Root
  A = A
  B = B
  NoProc = NoProc
  Procs = {Root, A, B}
  Starts <- ChainOfParents
  Calls <- TaskCalls
  AppReleases = {}
  Restarts = FALSE
  Retries = FALSE
  SpawnMayFail = TRUE
  MaxBurst = 1
INVARIANTS
  TypeOK
  RemovedIsSettled
  ChildrenReleased
  OutcomeJustified
PROPERTIES
  KeepsPromise
