SPECIFICATION Spec
CONSTANTS
  Conns = {c1, c2}
  Users = {u1}
  Names = {u1}
  TotpUsers = {}
  Clients = {k1}
  Vaults = {v1}
  Blobs = {b1}
  None = None
  Frames <- SessionFrames
  TTL = 1
  MaxReplies = 3
  MaxFrags = 0
  MaxTime = 1
PROPERTY AckedWhileValid
