SPECIFICATION FairSpec
CONSTANTS
  Sizes <- Uploads
  MaxFrags = 3
  FragTimeout = 2
  IdleTimeout = 6
INVARIANTS
  TypeOk StreamInv OnlyWholePuts BufferIsRun BufferExpires
PROPERTY VanishedIsClosed
