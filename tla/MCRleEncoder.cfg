CONSTANTS
  Byte = {0, 1}
  MaxLen = 9
  TempLen = 3
  VarintBase = 4
  MaxAborts = 1
SPECIFICATION Spec
INVARIANT DecodesBack
