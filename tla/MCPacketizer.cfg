CONSTANTS
  coredump = coredump
  event = event
  None = None
  Order <- TwoSources
  RleSource = coredump
  Sizes = {6, 16}
  BufLens = {8, 9, 12}
  MaxMessages = 2
  MaxMasks = 2
  MaxErrors = 1
  VarintBase = 128
  MaxTotal = 18
  MaxBufLen = 12
  MaxAborts = 1
SPECIFICATION FairSpec
INVARIANTS SizeIsCurrent Intact
PROPERTIES DeliveredOnceInOrder Drained
