SPECIFICATION Spec
CONSTANTS
  r1 = r1
  r2 = r2
  v1 = v1
  v2 = v2
  p1 = p1
  p2 = p2
  Rps <- MCRps
  Users <- MCUsers
  Protections = {1, 3}
  Pins <- MCPins
  NoPin = nopin
  NoRp = norp
  MaxCredentials = 2
  MaxRetries = 2
  MaxTemplates = 2
  Samples = 2
  Environments <- MCEnvironments
  MaxIds = 3
  MaxCount = 3
  MaxStarts = 2
INVARIANTS TriesBounded PinInForce StoreConsistent
  NextIsOfSameRp EnumerationIsLive  OneIncompleteTemplate
SYMMETRY Symmetry
CHECK_DEADLOCK FALSE
