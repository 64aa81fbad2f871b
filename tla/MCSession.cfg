SPECIFICATION Spec
CONSTANTS
  Base = 4
  KeyLen = 2
  IdLen = 1
  MaxName = 3
  MaxPayload = 20
  MaxBlob = 28
  None = None
  Dummy = Dummy
  Blobs <- SomeBlobs
  Name <- SomeName
  TotpCodes <- SomeCodes
  MaxConns = 3
  MaxAsked = 4
INVARIANTS TypeOk SessionInv OnlyOversizeIsRefused NoStandstill OnlyWholeCacheLoads
PROPERTY Understood
CHECK_DEADLOCK FALSE
