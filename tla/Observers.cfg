SPECIFICATION ObserversSpec
CONSTANTS
  Entities = {1, 2, 3}
  IndexOf <- MCIndexOf
  Comps <- MCComps
  Shared <- MCShared
  Requires <- MCRequires
  Shapes <- MCShapes
  MaxTables = 3
  MaxQueries = 2
  BaseHazards = {}
  Events = {1}
  MaxObservers = 2
  MaxDepth = 1
  EndInCallback = FALSE
INVARIANTS
  ObserversTypeOK
  ListsExact
  TargetsExact
  CalledOnce
  EveryListenerCalled
CHECK_DEADLOCK FALSE
