SPECIFICATION Spec
CONSTANTS
  p1 = p1
  p2 = p2
  p3 = p3
  Procs <- Two
  Lossy = FALSE
  MaxDups = 1
  IntMax = 1
  Commands <- Mixed
  Concurrent = FALSE
  Killable = TRUE
  Faults = {"socket", "sendto", "recvfrom", "sqlite3_open", "sqlite3_prepare"}
  RxDescs = 4
  Hw <- UartSuspect
  PbufFails = FALSE
SYMMETRY SymTwo
INVARIANTS IdsNeverRepeat ExitZeroMeansLogged PrintsOwnRow SuccessMeansAllPassed ResultFromOwnInvocation
CHECK_DEADLOCK FALSE
