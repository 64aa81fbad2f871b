SPECIFICATION Spec
CONSTANTS
  Conns = {c1, c2}
  Users = {u1, u2}
  Names = {u1, u2}
  TotpUsers = {}
  Clients = {k1}
  Vaults = {v1}
  Blobs = {b1, b2}
  None = None
  Frames <- PutFrames
  TTL = 1
  MaxReplies = 4
  MaxFrags = 0
  MaxTime = 0
SYMMETRY Symmetry
INVARIANTS
  TypeOk SafetyInv RowIsLastPut OneOwner AckIsCommitted OneAckPerVersion DataIsCommitted MonotonicReplies RowIsRecent
PROPERTY ImplementsVersionedVault
