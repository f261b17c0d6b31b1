SPECIFICATION PairSpec
CONSTANTS
    Obj = {s, t}
    bits_per_block = 2
    Kind = "dynamic"
    Counted = TRUE
    N = 0
    MaxBlocks = 2
    SizeMod = 16
    IsClosed = FALSE
    KeyMappingSize = 0
    is_descending = FALSE
VIEW SetView
INVARIANTS
    Admitted
PROPERTIES
    ImplementsKeySet
