SPECIFICATION SetSpec
CONSTANTS
    Obj = {s}
    bits_per_block = 2
    Kind = "inplace"
    Counted = FALSE
    N = 5
    MaxBlocks = 3
    SizeMod = 16
    IsClosed = TRUE
    KeyMappingSize = 5
    is_descending = TRUE
VIEW SetView
INVARIANTS
    LookupsExact
PROPERTIES
    ImplementsKeySet
