SPECIFICATION Spec
CONSTANTS
  Devices = {d1, d2}
  Ids = {i1}
  Vals = {a}
  Absent = Absent
  None = None
  Torn = Torn
  Commands = {"add", "sync"}
  MaxMoves = 3
  MaxFaults = 2
  MaxTime = 0
INVARIANT SessionIsEnsured
