\* Exclusive callbacks may also enable a system that is disabled.
CONSTANTS
  Main = main
  Workers = {w1, w2}
  NumSystems = 3
  MainOnly = {2}
  Parallel = {1}
  After <- NoPairs
  AccessConflicts <- OneThree
  MaxPortions = 2
  BatchSize = 2
  MaxRuns = 1
  MaxChanges = 2
  ExclusiveMayEnable = TRUE
  SpuriousWakeups = FALSE
SYMMETRY WorkerSymmetry
SPECIFICATION Spec
INVARIANT MainOnlyIsExclusive
