CONSTANTS
  TotalSpace = 3
  Byte = {0, 1}
  MaxLen = 3
SPECIFICATION Spec
INVARIANT TypeOK
PROPERTY ImplementsFifo
