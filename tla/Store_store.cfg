SPECIFICATION MCSpec
CHECK_DEADLOCK FALSE
CONSTANTS
  Runs = {r1, r2, r3}
  Probes = {p1}
  NoOne = NoOne
  Crashes = TRUE
  Pids = {1, 2}
  NoDir = NoDir
  MaxTexts = 5
  MaxStarts = 3
  Shells = {s1, s2}
  Names = {n1, n2}
  Owners = {a, b}
  Nobody = Nobody
  MaxWraps = 3
  MaxUser = 1
  Writers = {w1, w2}
  Tees = {w1}
  MaxLog = 3
  NoteLen = 2
  StoppedLen = 2
  Chunk = 1
  PipeSize = 2
INVARIANTS ClaimIsThePath GuardCleans
PROPERTIES ProbesEnd StoreKept ShimsKept LogKept
