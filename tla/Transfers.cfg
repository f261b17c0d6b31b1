SPECIFICATION SpecGrown
CONSTANTS
    Obj = {c1, c2}
    bits_per_block = 2
    Kind = "inplace"
    Counted = FALSE
    N = 5
    MaxBlocks = 3
    word_digits = 4
VIEW View
INVARIANTS
    MovedFromTailClear
