SPECIFICATION MCSpec
CHECK_DEADLOCK FALSE
CONSTANTS
  Configs <- FewConfigs
  Runners = {1, 2, 3}
  Instance <- RunInstance
  Pid <- RunPid
  TreeNodes = {1, 2, 3, 4, 5}
  LEFTOVER_BUDGET = 2
  READ_BATCH = 2
  MaxStarts = 3
  Numbers = {1, 2, 3, 4, 5, 6, 7, 8, 9, 10, 11, 12, 13, 14, 15, 16}
  MaxStrays = 2
  Shells = {1, 2}
  MaxJobs = 2
  MaxEdits = 1
  QuoteLen = 3
INVARIANTS StartGated TornDown FiltersAsWritten GateIsProxys EachItsOwn LeftoversShrink Contained
PROPERTIES StopEnds
