\* A query that writes and one that reads are iterated; a parallel system reads,
\* and another reads and writes.
CONSTANTS
  Queries = {writer, reader, both, scan}
  Writers = {writer, both}
  Filtered = {reader, both, scan}
  Parallel = {both, scan}
  Tables = 2
  Nesting = 1
  MaxClock = 2
  MaxChanges = 3
  Threads = {main, worker}
  ChunkSize = 2
  BatchSize = 4
  Sizes <- OneShortOneLong
  NoRun = NoRun
SYMMETRY ThreadSymmetry
SPECIFICATION PSpec
CHECK_DEADLOCK FALSE
INVARIANTS
  PortionsTypeOK
  ReportsEveryChange
  EachRowOnce
