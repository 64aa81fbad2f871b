SPECIFICATION FairSpec
CONSTANTS
  Conns = {c1, c2}
  Users = {u1, u2}
  Names = {u1, u2, x}
  TotpUsers = {u2}
  Clients = {k1, k2}
  Vaults = {v1}
  Blobs = {b1}
  None = None
  Frames <- SessionsFrames
  TTL = 1
  MaxReplies = 3
  MaxFrags = 1
  MaxTime = 1
INVARIANTS
  TokenIsStored SessionsBackedByLogin
PROPERTIES
  Answered WriteLockReleased
