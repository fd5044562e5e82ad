SPECIFICATION Spec
CONSTANTS
  p1 = p1
  p2 = p2
  p3 = p3
  Procs <- Two
  Lossy = FALSE
  MaxDups = 0
  IntMax = 7
  Commands <- Single
  Concurrent = TRUE
  Killable = FALSE
  Faults = {}
  RxDescs = 4
  Hw <- UartSuspect
  PbufFails = FALSE
SYMMETRY SymTwo
INVARIANTS LoggedWhenReturnsOne
CHECK_DEADLOCK FALSE
