SPECIFICATION MCSpec
CONSTANTS
    Obj = {v, tmp, src}
    v = v
    tmp = tmp
    src = src
    bits_per_block = 2
    Kind = "dynamic"
    Counted = FALSE
    N = 0
    MaxBlocks = 3
    SizeMod = 64
    MaxWidth = 3
    MaxSource = 4
VIEW View
INVARIANTS
    SplicedExactly
    ThrowHasNoEffects
    ThrowKeepsPrefix
