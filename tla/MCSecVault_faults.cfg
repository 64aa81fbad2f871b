SPECIFICATION FairSpec
CONSTANTS
  Devices = {d1, d2}
  Ids = {i1}
  Vals = {a}
  Absent = Absent
  None = None
  Torn = Torn
  Commands = {"add", "sync", "pull", "ping", "quit", "offline", "BAD_LOGIN", "REGISTER"}
  MaxMoves = 4
  MaxFaults = 2
  MaxTime = 0
INVARIANTS
  WriterHadMerged CacheIsVersion FailureHasCause
PROPERTY CommandsEnd
