SPECIFICATION HWFairSpec
CONSTANTS
  Root = Root
  D = D
  C0 = C0
  C1 = C1
  C2 = C2
  NoProc = NoProc
  Flush = Flush
  Unlink = Unlink
  Procs = {Root, D, C0, C1, C2}
  Starts <- Introduction
  Calls <- NoCalls
  AppReleases = {}
  Restarts = FALSE
  Retries = FALSE
  SpawnMayFail = FALSE
  MaxBurst = 1
  Renderers <- DrawsRoot
  Displays <- HidesItself
  Destructor = {Flush, Unlink}
  Debugger = D
  Child <- Children
  Registrations <- Registering
INVARIANTS
  ExitSucceeds
  UnwoundInReverse
PROPERTIES
  Ends
  VerdictStable
