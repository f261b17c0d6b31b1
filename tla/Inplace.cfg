SPECIFICATION ArraySpec
CONSTANTS
    Obj = {c1, c2}
    bits_per_block = 2
    Kind = "inplace"
    Counted = FALSE
    N = 3
    MaxBlocks = 2
VIEW ArrayView
INVARIANTS
    UnusedBitsClear
PROPERTIES
    ImplementsBoolArray
    ReservedNeverThrows
