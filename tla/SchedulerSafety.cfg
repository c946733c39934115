\* Two workers; a writer, a parallel system, a main-thread-only system and
\* an explicit dependency.
CONSTANTS
  Main = main
  Workers = {w1, w2}
  NumSystems = 4
  MainOnly = {2}
  Parallel = {1}
  After <- OneThree
  AccessConflicts <- ThreeFour
  MaxPortions = 2
  BatchSize = 2
  MaxRuns = 1
  MaxChanges = 2
  ExclusiveMayEnable = FALSE
  SpuriousWakeups = TRUE
SYMMETRY WorkerSymmetry
SPECIFICATION Spec
INVARIANTS
  TypeOK
  NoConflictingCallbacks
  ReservationQuiescence
  RunFinished
  PendingCounts
PROPERTIES
  StartsAfterPrerequisites
  PublicationInOrder
