SPECIFICATION ProxySpec
CHECK_DEADLOCK FALSE
CONSTANTS
  ClientIds = {"c1", "c2"}
  ServerIds = {"s1"}
  Globals <- MCGlobals
  Table <- MCTable
  Privileged = {"secret"}
  MaxObjects = 2
  MaxVersion = 2
  Window = 0
  Gates = {"paste"}
  MaxFlight = 2
  Conns = {1}
  Says <- MCSays
  MaxConnections = 1
  MaxQueue = 1
  MaxTotal = 5
  MaxFds = 1
  MaxBatch = 2
  Cap = 1
  Shortages = 1
INVARIANT RelayKept
PROPERTIES PolicyKept RelayRests
