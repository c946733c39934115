\* Fair threads and no spurious wakeup, so a lost signal is a deadlock or a run
\* that never ends.
CONSTANTS
  Main = main
  Workers = {w1, w2}
  NumSystems = 3
  MainOnly = {2}
  Parallel = {1}
  After <- NoPairs
  AccessConflicts <- OneThree
  MaxPortions = 2
  BatchSize = 1
  MaxRuns = 1
  MaxChanges = 1
  ExclusiveMayEnable = FALSE
  SpuriousWakeups = FALSE
SPECIFICATION FairSpec
PROPERTIES
  RunTerminates
  ShutdownJoins
