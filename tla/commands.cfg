SPECIFICATION RetrievalFairSpec
CONSTANTS
  v = v
  p1 = p1
  p2 = p2
  Procs = {v, p1, p2}
  Viewer = v
  Lossy = FALSE
  MaxDups = 0
  IntMax = 1
  Commands = {}
  Concurrent = TRUE
  Killable = FALSE
  Faults = {"sqlite3_step"}
  ArgLists <- AllLists
  Earlier <- Tables
  Fetched <- Unlogged
INVARIANTS RetrievalTypeOK ParsesByTheRules GetAnswers ExportIsWhole
PROPERTY Ends
CHECK_DEADLOCK FALSE
