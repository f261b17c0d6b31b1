SPECIFICATION MCSpec
CONSTANTS
    Obj = {v, tmp, src}
    v = v
    tmp = tmp
    src = src
    bits_per_block = 2
    Kind = "inplace"
    Counted = FALSE
    N = 3
    MaxBlocks = 2
    SizeMod = 64
    MaxWidth = 3
    MaxSource = 3
VIEW View
INVARIANTS
    GrowthRefusedUnwritten
