SPECIFICATION Spec
CONSTANTS
  Sizes <- TwoUploads
  MaxFrags = 3
  FragTimeout = 2
  IdleTimeout = 6
INVARIANT SilenceIsBounded
