SPECIFICATION BenchFairSpec
CONSTANTS
  c1 = c1
  c2 = c2
  c3 = c3
  c4 = c4
  c5 = c5
  c6 = c6
  Procs <- Three
  Lossy = FALSE
  MaxDups = 0
  RxDescs = 2
  Kinds <- AllKinds
  Hw <- Hanging
  PbufFails = TRUE
INVARIANTS ServedInOrder VerdictSound
PROPERTY AcceptedIsServed
CHECK_DEADLOCK FALSE
