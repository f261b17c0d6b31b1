SPECIFICATION SpecGrown
CONSTANTS
    Obj = {c1}
    bits_per_block = 4
    Kind = "inplace"
    Counted = FALSE
    N = 12
    MaxBlocks = 3
    bits_per_byte = 2
    bools_per_block = 8
    string_blocks_per_update = 1
    assembly_bytes = 3
VIEW View
INVARIANTS
    ScansExact
    ReductionsExact
    WordsExact
    SearchesExact
    RewritesExact
    WalksExact
    SelectionsExact
    LayoutsExact
    HashesExact
