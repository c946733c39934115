SPECIFICATION Spec
CONSTANTS
  Entities = {b, e1, e2}
  b = b
  e1 = e1
  e2 = e2
  e3 = e3
  P = P
  Q = Q
  Components = {P, Q}
  NoEntity = NoEntity
  Requires <- MCRequires
  Copied = {P, Q}
  Values = {0, 1, 2}
  Inputs = {1}
  Default = 0
  Absent = Absent
  Starts <- MCStarts
  Divergences = {}
  TransitionCapacity = 2
  MaxDepth = 1
  MaxCalls = 4
SYMMETRY Alike
CHECK_DEADLOCK FALSE
INVARIANTS
  TypeOK
  SettledAsPromised
  TransitionFresh
