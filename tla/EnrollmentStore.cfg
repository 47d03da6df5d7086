SPECIFICATION StoreSpec
CONSTANTS
  u1 = u1
  f1 = f1
  f2 = f2
  RootUser = root
  Users <- MCUsers
  Fingers <- MCFingers
  NoFinger = nofinger
  Main = main
  Workers = {w1}
  Limits = {1, 2}
  MaxSavedUids = 2
  FaultSets <- SomeFaults
  MaxScans = 2
  MaxKeys = 2
  MaxStarts = 2
INVARIANT StoreConsistent
PROPERTIES CapacityHolds RestartRestores
SYMMETRY Symmetry
CHECK_DEADLOCK FALSE
