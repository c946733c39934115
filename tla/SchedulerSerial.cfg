\* No workers: the calling thread runs every portion in cursor order.
CONSTANTS
  Main = main
  Workers = {}
  NumSystems = 4
  MainOnly = {2}
  Parallel = {1}
  After <- OneThree
  AccessConflicts <- ThreeFour
  MaxPortions = 2
  BatchSize = 2
  MaxRuns = 2
  MaxChanges = 2
  ExclusiveMayEnable = FALSE
  SpuriousWakeups = FALSE
SPECIFICATION Spec
INVARIANTS
  RunFinished
PROPERTIES
  StartsAfterPrerequisites
