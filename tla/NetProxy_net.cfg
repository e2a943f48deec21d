SPECIFICATION MCSpec
CHECK_DEADLOCK FALSE
CONSTANTS
  N = 2
  MaxTunnels = 1
  Allow <- MCAllow
  Targets <- MCTargets
  Answers <- MCAnswers
  Inward <- MCInward
  Attempts = 2
  MaxCnames = 3
  Chunk = 2
  MaxUnits = 2
  HostLen = 2
  WlArgs = 2
INVARIANTS TunnelTrue Understood AllowedAsWritten
PROPERTIES ServedInTime TunnelsAreStreams
