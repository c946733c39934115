\* Two threads, slices of two ids and fewer kills of an id than generations.
CONSTANTS
  WorkerCount = 1
  Chunk = 2
  GenLimit = 4
  MaxId = 6
  MaxKills = 3
SPECIFICATION Spec
INVARIANTS
  TypeOK
  OneHome
PROPERTY
  HandlesAreFresh
