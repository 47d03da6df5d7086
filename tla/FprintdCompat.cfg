SPECIFICATION FairSpec
CONSTANTS
  c1 = c1
  c2 = c2
  alice = alice
  root = root
  NoClient = NoClient
  NoUser = NoUser
  Root = root
  MaxOps = 2
  Clients <- MCClients
  Users <- MCUsers
  UserOf <- MCUserOf
  Kinds <- Both
CHECK_DEADLOCK FALSE
PROPERTIES
  
  NoticedClaimerReleased
INVARIANTS
  DeviceConsistent
  BusyHasLiveTask
  StoppedStaysSilent
