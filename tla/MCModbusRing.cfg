CONSTANTS
  Byte <- TwoBytes
  MAX_BUFFER = 3
  U8 = 3
  MaxFrame = 7
SPECIFICATION RingSpec
PROPERTY OverflowReported
