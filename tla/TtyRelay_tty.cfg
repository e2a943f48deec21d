SPECIFICATION MCSpec
CONSTANTS
  Chunk = 2
  PendingMax = 2
  PtyMax = 2
  DetachRun = 2
  MaxOut = 5
  MaxKeys = 2
  MaxResizes = 2
  Callers <- MCCallers
INVARIANTS
  OutputKept
  GivenBack
PROPERTIES
  RelayEnds
