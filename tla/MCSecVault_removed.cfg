SPECIFICATION Spec
CONSTANTS
  Devices = {d1, d2}
  Ids = {i1}
  Vals = {a}
  Absent = Absent
  None = None
  Torn = Torn
  Commands = {"add", "rm", "sync"}
  MaxMoves = 8
  MaxFaults = 0
  MaxTime = 0
PROPERTY RemovedStaysRemoved
