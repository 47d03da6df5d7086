SPECIFICATION DaemonSpec
CONSTANTS
  a1 = a1
  a2 = a2
  c1 = c1
  c2 = c2
  c3 = c3
  Apps = {a1, a2}
  Cids = {c1, c2, c3}
  Broadcast = Broadcast
  None = None
  Channels = 2
  InitData = 1
  ContData = 1
  MaxMsg = 3
  NonceLen = 1
  QueueMax = 2
  MaxRequests = 2
  Uses <- MCUses
INVARIANTS
  MessagesWhole
  EngineOutlivesUsers
PROPERTIES
  
  ShutdownEnds
CHECK_DEADLOCK FALSE
