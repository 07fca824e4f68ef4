\* A node reconnects before the hub notices that its first connection died.
SPECIFICATION Spec
CONSTANTS
  n1 = n1
  Nodes = {n1}
  Conns = {k1, k2}
  NodeOf <- NodeOfConn
  SendSlots = 1
  GC = FALSE
  MaxRows = 2
  None = None
INVARIANT
  RegistryShowsConnected
CHECK_DEADLOCK FALSE
