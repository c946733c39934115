SPECIFICATION MCSpec
CONSTANTS
  Entities = {1, 2, 3}
  IndexOf <- MCIndexOf
  Comps <- MCComps
  Shared <- MCShared
  Requires <- MCRequires
  Shapes <- MCShapes
  MaxTables = 6
  MaxQueries = 2
  BaseHazards = {"change"}
INVARIANTS
  TypeOK
  RecordsAgree
  CacheExact
  FieldsCurrent
  AsIfNew
CHECK_DEADLOCK FALSE
