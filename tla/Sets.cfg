SPECIFICATION SetSpec
CONSTANTS
    Obj = {s}
    bits_per_block = 2
    Kind = "dynamic"
    Counted = TRUE
    N = 0
    MaxBlocks = 3
    SizeMod = 16
    IsClosed = FALSE
    KeyMappingSize = 0
    is_descending = FALSE
VIEW SetView
INVARIANTS
    LookupsExact
PROPERTIES
    ImplementsKeySet
    HeldEndMovesForKeys
