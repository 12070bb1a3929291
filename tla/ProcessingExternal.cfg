SPECIFICATION Spec
CONSTANTS
  Root = Root
  A = A
  B = B
  NoProc = NoProc
  Procs = {Root, A, B}
  Starts <- WithExternal
  Calls <- NoCalls
  AppReleases = {B}
  Restarts = FALSE
  Retries = FALSE
  SpawnMayFail = FALSE
  MaxBurst = 1
INVARIANTS
  ExternalChildHoldsRoot
