SPECIFICATION BenchSpec
CONSTANTS
  c1 = c1
  c2 = c2
  c3 = c3
  c4 = c4
  c5 = c5
  c6 = c6
  Procs <- Six
  Lossy = FALSE
  MaxDups = 0
  RxDescs = 4
  Kinds <- OneKind
  Hw <- Working
  PbufFails = FALSE
SYMMETRY SymSix
PROPERTIES HeldInAQueue
CHECK_DEADLOCK FALSE
