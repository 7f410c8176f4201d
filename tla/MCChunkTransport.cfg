CONSTANTS
  VarintBase = 2
  MaxTotal = 20
  MaxBufLen = 12
  MaxAborts = 1
SPECIFICATION ChunkFairSpec
INVARIANTS ChunkFits ReadsInBounds Reassembled AnnouncedLength
PROPERTY Completes
