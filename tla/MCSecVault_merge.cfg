SPECIFICATION Spec
CONSTANTS
  Devices = {d1, d2}
  Ids = {i1, i2}
  Vals = {a, b}
  Absent = Absent
  None = None
  Torn = Torn
  Commands = {"add", "edit", "rm", "sync", "pull", "quit"}
  MaxMoves = 6
  MaxFaults = 1
  MaxTime = 1
SYMMETRY Symmetry
INVARIANTS
  TypeOk SyncInv WriterHadMerged CacheIsVersion FailureHasCause EntriesOnlyAdvance CleanMeansSaved
