SPECIFICATION FairSetSpec
CONSTANTS
    Obj = {s}
    bits_per_block = 3
    Kind = "static"
    Counted = FALSE
    N = 4
    MaxBlocks = 2
    SizeMod = 18
    IsClosed = TRUE
    KeyMappingSize = 4
    is_descending = FALSE
VIEW SetView
PROPERTIES
    ImplementsKeySet
    EveryCallEnds
