SPECIFICATION Spec
CONSTANTS
  Entities = {1, 2, 3}
  IndexOf <- MCIndexOf
  Comps <- MCComps
  Shared <- MCShared
  Requires <- MCRequires
  Shapes <- MCShapes
  MaxTables = 4
  MaxQueries = 2
  BaseHazards = {"move"}
INVARIANTS
  FieldsCurrent
CHECK_DEADLOCK FALSE
