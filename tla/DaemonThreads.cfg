SPECIFICATION FairSpec
CONSTANTS
  Main = main
  Free = free
  Workers = {w1, w2}
  MainOps <- AllMain
  WorkerOps <- BothWorker
  MaxDepth = 3
INVARIANTS LocksConsistent ClosedSensorIsLeftAlone
PROPERTY OnlyLoopsBlockMain
CHECK_DEADLOCK FALSE
