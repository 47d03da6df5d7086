SPECIFICATION LimiterSpec
CONSTANTS
  u1 = u1
  u2 = u2
  u3 = u3
  t1 = t1
  t2 = t2
  NoUid = NoUid
  Uids <- MCUids
  Threads <- MCThreads
  TableSize = 2
  RingSize = 2
  MaxAttempts = 3
  Window = 1
  BaseLockout = 2
  MaxLockout = 3
  MaxDoublings = 6
  MaxClock = 4
SYMMETRY Symmetry
INVARIANTS
  TableConsistent

  
  
