SPECIFICATION MCSpec
CONSTANTS
    bits_per_block = 2
    MaxBlocks = 3
    SizeMod = 32
INVARIANTS
    TypeOK
    MovesExactly
    SourceIntact
PROPERTIES
    Terminates
