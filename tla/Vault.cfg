SPECIFICATION Spec
CONSTANTS
  Users <- MCUsers
  Uuids = {"i1", "i2"}
  TotpIds = {"t1"}
  Loads <- MCLoads
  MaxVaults = 2
  MaxEntries = 2
  MaxHistory = 1
  None = None
INVARIANTS StoreConsistent AnnouncedUnlockedIsReal
PROPERTIES  IdleLocks ImplementsPromise
CHECK_DEADLOCK FALSE
