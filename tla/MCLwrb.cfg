SPECIFICATION Spec
CONSTANTS
  Byte <- TwoBytes
  Size = 3
INVARIANTS
  TypeOK
  UnreadUntouched
  ReadsPublished
  LinearInBounds
PROPERTIES InPlaceNeverClipped ImplementsFifo
