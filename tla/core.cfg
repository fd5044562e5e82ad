SPECIFICATION Spec
CONSTANTS
  p1 = p1
  p2 = p2
  p3 = p3
  Procs <- Two
  Lossy = TRUE
  MaxDups = 0
  IntMax = 7
  Commands <- Pair
  Concurrent = TRUE
  Killable = TRUE
  Faults = {}
  RxDescs = 1
  Hw <- UartSuspect
  PbufFails = FALSE
SYMMETRY SymTwo
INVARIANTS TypeOK ResultIsOwn PerformedOnce NoLockAcrossNetwork
PROPERTIES LedgerKept
CHECK_DEADLOCK FALSE
