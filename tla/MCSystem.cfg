SPECIFICATION Spec
CONSTANTS
  Devices = {d1, d2}
  Ids = {i1}
  Vals = {a}
  Absent = Absent
  None = None
  Torn = Torn
  Commands = {"sync", "pull", "quit", "REGISTER"}
  MaxMoves = 4
  MaxFaults = 1
  Conns = {c1, c2, c3, c4}
  User = user
  VaultId = vault
SYMMETRY DeviceSymmetry
INVARIANTS TokenWorks SystemInv
PROPERTY ImplementsSecVault
