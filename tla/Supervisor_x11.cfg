SPECIFICATION FairSpec
CONSTANTS
  Cmd = cmd
  Server = server
  Wm = wm
  NConns = 1
  MaxPending = 1
  Grace = 1
  RequestTimeout = 1
  HasX11 = TRUE
  HasWm = TRUE
INVARIANTS
  ServerOutlivesClients
PROPERTIES
  NothingStartsLate
  RunEnds
