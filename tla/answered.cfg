SPECIFICATION FairSpec
CONSTANTS
  p1 = p1
  p2 = p2
  p3 = p3
  Procs <- Two
  Lossy = FALSE
  MaxDups = 0
  IntMax = 7
  Commands <- Pair
  Concurrent = TRUE
  Killable = FALSE
  Faults = {}
  RxDescs = 2
  Hw <- UartSuspect
  PbufFails = FALSE
PROPERTIES Terminates
CHECK_DEADLOCK FALSE
