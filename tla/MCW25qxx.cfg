SPECIFICATION MCSpec
CONSTANTS
    Bits <- MCBits
    Unknown = 1
    PAGE = 2
    SECTOR = 4
    BLOCK32 = 4
    BLOCK64 = 8
    BANK = 4
    Places <- MCPlaces
    Sizes <- MCSizes
    Writes <- MCWrites
    Pages <- MCPages
INVARIANTS TypeOK InStep NeverMisread
PROPERTY WritesInPlace

