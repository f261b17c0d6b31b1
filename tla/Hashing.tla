------------------------------- MODULE Hashing -------------------------------
(***************************************************************************)
(* What the hash functions write to a hash algorithm: the message of the   *)
(* std type a reading models, and the canonical byte string of its bits.   *)
(* A message is a sequence of tagged writes; the updates it is chunked     *)
(* into are the hash algorithm's own concern, as they are Hash2's.         *)
(***************************************************************************)
EXTENDS Conversions

CONSTANTS
    bools_per_block,            \* positions expanded at a time
    string_blocks_per_update,   \* such expansions gathered per update
    assembly_bytes              \* bytes assembled per update

ASSUME HashingAssumption ==
    /\ bools_per_block \in Nat \ {0} /\ bools_per_block % bits_per_byte = 0
    /\ string_blocks_per_update \in Nat \ {0} /\ assembly_bytes \in Nat \ {0}

Nul == <<<<"byte", zero>>>>

SizeOf(n) == <<<<"size", n>>>>

(***************************************************************************)
(* The model's message: a byte of nought or one for each bool.             *)
(***************************************************************************)
\* Mutation: narrower blocks are read past the last of them's bytes only.
string_block_short(b, digits, k) ==
    LET per  == bools_per_block \div bits_per_byte
        last == Min({(k + 1) * per, num_blocks(b)})
    IN  UNION {{o + bits_per_byte * (j - k * per) : o \in block_byte(b, digits, j)} :
                  j \in k * per .. last - 1}

\* Positions from k * bools_per_block on, nought past the last block.
string_block(b, digits, k) ==
    LET wide  == digits \div bools_per_block
        per   == bools_per_block \div bits_per_byte
        last  == Min({(k + 1) * per, value_bytes(b, digits)})
    IN  IF digits % bools_per_block = 0
        THEN {o \in 0 .. bools_per_block - 1 : o + bools_per_block * (k % wide) \in b[k \div wide]}
        ELSE UNION {{o + bits_per_byte * (j - k * per) : o \in block_byte(b, digits, j)} :
                       j \in k * per .. last - 1}

expand_block(block) == [i \in 1 .. bools_per_block |-> <<"bool", i - 1 \in block>>]

\* One update: expanded blocks from first on, as far as position n.
bools_update(b, digits, n, first) ==
    LET last  == Min({first + string_blocks_per_update, divided_up(n, bools_per_block)})
        bools == FlattenSeq([k \in 1 .. last - first |-> expand_block(string_block(b, digits, first + k - 1))])
    IN  SubSeq(bools, 1, Min({n, last * bools_per_block}) - first * bools_per_block)

update_bools(b, digits, n) ==
    LET string_blocks == divided_up(n, bools_per_block)
    IN  FlattenSeq([u \in 1 .. divided_up(string_blocks, string_blocks_per_update) |->
                       bools_update(b, digits, n, (u - 1) * string_blocks_per_update)])

hash_append_bools(b, digits, n, static) ==
    IF static THEN (IF n = 0 THEN Nul ELSE update_bools(b, digits, n))
    ELSE update_bools(b, digits, n) \o SizeOf(n)

hash_append_keys(keys, size) == [i \in DOMAIN keys |-> <<"key", keys[i]>>] \o SizeOf(size)

(***************************************************************************)
(* The byte string, unused high bits nought.                               *)
(***************************************************************************)
bytes_update(b, digits, first, n) ==
    [j \in 1 .. Min({assembly_bytes, n - first}) |-> <<"byte", block_byte(b, digits, first + j - 1)>>]

assemble_bit_bytes(b, digits, n) ==
    FlattenSeq([u \in 1 .. divided_up(n, assembly_bytes) |->
                   bytes_update(b, digits, (u - 1) * assembly_bytes, n)])

\* Where the storage is the string, one update over it.
update_bit_bytes(b, digits, n, copies) ==
    IF copies THEN [j \in 1 .. n |-> <<"byte", block_byte(b, digits, j - 1)>>]
    ELSE assemble_bit_bytes(b, digits, n)

\* Mutation: a run-time set's string is as long as its width.
bit_byte_count_of_width(reading, b, size, static) == byte_count(size)

\* Equal run-time sets may differ in width: up to the last key's byte.
bit_byte_count(reading, b, size, static) ==
    LET last == total_find_prev(b, size, size)
    IN  IF reading = "sequence" \/ static THEN byte_count(size)
        ELSE IF last = size THEN 0 ELSE (last \div bits_per_byte) + 1

\* c holds b's bits in blocks of digits; b itself answers where the last is.
hash_append_bit_string(reading, b, size, c, digits, static, copies) ==
    LET n     == bit_byte_count(reading, b, size, static)
        bytes == update_bit_bytes(c, digits, n, copies)
    IN  IF static THEN (IF size = 0 THEN Nul ELSE bytes)
        ELSE bytes \o SizeOf(IF reading = "set" THEN n ELSE size)

(***************************************************************************)
(* A range of planes, each of static width n: one update over the range    *)
(* where the planes' objects are their strings, else string by string.     *)
(***************************************************************************)
\* Mutation: the bytes past ceil(n / 8) that blocks have are not asked about.
plane_is_its_string_always(c, digits, n, copies) == copies

plane_is_its_string(c, digits, n, copies) == copies /\ value_bytes(c, digits) = byte_count(n)

object_bytes(c, digits) == [j \in 1 .. value_bytes(c, digits) |-> <<"byte", block_byte(c, digits, j - 1)>>]

hash_append_bit_planes(planes, digits, n, copies, static) ==
    LET dense  == \A i \in DOMAIN planes : plane_is_its_string(planes[i], digits, n, copies)
        each   == FlattenSeq([i \in DOMAIN planes |->
                      IF dense THEN object_bytes(planes[i], digits)
                      ELSE IF n = 0 THEN Nul
                      ELSE update_bit_bytes(planes[i], digits, byte_count(n), copies)])
    IN  IF static THEN (IF planes = <<>> THEN Nul ELSE each)
        ELSE each \o SizeOf(Len(planes))

=============================================================================
