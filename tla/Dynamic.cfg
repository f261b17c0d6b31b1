SPECIFICATION Spec
CONSTANTS
    Obj = {c1, c2}
    bits_per_block = 2
    Kind = "dynamic"
    Counted = TRUE
    N = 0
    MaxBlocks = 2
VIEW View
INVARIANTS
    TypeOK
    UnusedBitsClear
    StoredCountExact
    EqualIffSameBits
PROPERTIES
    ImplementsBitString
    ReservedNeverThrows
