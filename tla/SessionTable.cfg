SPECIFICATION FairSpec
CONSTANTS
  MaxSlots = 2
  RootUid = 0
  UintRange = 8
  MaxClock = 3
  MaxTokens = 3
  Uids <- MCUids
  Senders <- MCSenders
  UidOf <- MCUidOf
  Ages <- MCAges
  Extensions <- MCExtensions
  ScanTimes <- MCScanTimes
INVARIANTS
  TableConsistent
  VerifiedWasProved
  ExtensionsSound
PROPERTIES
  EndsAreFinal
  ExpiredIsCleared
