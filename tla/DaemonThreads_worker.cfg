SPECIFICATION FairSpec
CONSTANTS
  Main = main
  Free = free
  Workers = {w1}
  MainOps <- VerifyMain
  WorkerOps <- EnrollWorker
  MaxDepth = 1
PROPERTY MainResponsive
CHECK_DEADLOCK FALSE
