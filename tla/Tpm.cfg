SPECIFICATION Spec
CONSTANTS
  None = None
  daemon = daemon
  vault = vault
  primary = primary
  Contexts = {daemon, vault}
  Handles = {1, 2, 3}
  Primary <- MCPrimary
  Indexes = {7}
  Ops <- MCOps
  MaxFaults = 1
  MaxExtends = 1
INVARIANTS
  NothingLeftBehind
  
