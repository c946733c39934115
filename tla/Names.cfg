SPECIFICATION Spec
CONSTANTS
  Entities = {1, 2, 3}
  Names = {"a", "b"}
  Hash <- MCHash
  Capacity = 4
INVARIANTS
  TypeOK
  ProbesEnd
  IndexExact
PROPERTIES
  ImplementsTree
CHECK_DEADLOCK FALSE
