CONSTANTS
  Piece <- TwoPieces
  Image <- Images
  Alike <- SameDigest
  Slot = {1, 2}
  SlotLen = 4
  SectorStart = {0, 2}
  CACHE = 5
  MAX_DOWNLOAD = 3
  Downloads = 2
  NoFile = NoFile
  Erased = Erased
  Mixed = Mixed
SPECIFICATION Spec
INVARIANTS ActiveSlotWhole Resumable
PROPERTY InstalledAsAsked
