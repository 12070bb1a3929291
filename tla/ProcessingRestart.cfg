SPECIFICATION FairSpec
CONSTANTS
  Root = Root
  A = A
  B = B
  NoProc = NoProc
  Procs = {Root, A}
  Starts <- Single
  Calls <- SingleCalls
  AppReleases = {}
  Restarts = TRUE
  Retries = FALSE
  SpawnMayFail = TRUE
  MaxBurst = 2
INVARIANTS
  OneDriver
  NoThreadOutlivesRoot
PROPERTIES
  KeepsPromise
  Settles
  CancelFinishes
  ReleasedLeaves
