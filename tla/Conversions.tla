----------------------------- MODULE Conversions -----------------------------
(***************************************************************************)
(* Bits read and written as bytes, and converted between types: blocks of  *)
(* any two widths in digits, fixed and run-time widths, sets, sequences    *)
(* and windows, masks and the sets of them.  Byte j holds the positions    *)
(* [j * bits_per_byte, (j + 1) * bits_per_byte), lowest first, in blocks   *)
(* of whole bytes.  An argument named digits is the width of the blocks of *)
(* the argument before it.                                                 *)
(***************************************************************************)
EXTENDS BlockScans, SequencesExt

CONSTANT bits_per_byte

ASSUME BytesAssumption ==
    bits_per_byte \in Nat \ {0} /\ bits_per_block % bits_per_byte = 0

divided_up(n, d) == (n + d - 1) \div d

byte_count(n) == divided_up(n, bits_per_byte)

bytes_per_block(digits) == digits \div bits_per_byte

value_bytes(b, digits) == num_blocks(b) * bytes_per_block(digits)

cleared(n, digits) == [i \in 0 .. divided_up(n, digits) - 1 |-> zero]

\* Mutation: a block's bytes are counted from its top.
block_byte_from_top(b, digits, j) ==
    LET shift == bits_per_byte * (bytes_per_block(digits) - 1 - (j % bytes_per_block(digits)))
    IN  {o \in 0 .. bits_per_byte - 1 : o + shift \in b[j \div bytes_per_block(digits)]}

block_byte(b, digits, j) ==
    LET shift == bits_per_byte * (j % bytes_per_block(digits))
    IN  {o \in 0 .. bits_per_byte - 1 : o + shift \in b[j \div bytes_per_block(digits)]}

\* An or, into blocks that start clear.
or_block_byte(b, digits, j, byte) ==
    [b EXCEPT ![j \div bytes_per_block(digits)] =
        @ \cup {o + bits_per_byte * (j % bytes_per_block(digits)) : o \in byte}]

\* Byte to byte, as far as the shorter of the two reaches.
copy_bits(src, src_digits, dst, digits) ==
    FoldLeft(LAMBDA b, j : or_block_byte(b, digits, j - 1, block_byte(src, src_digits, j - 1)), dst,
             [j \in 1 .. Min({value_bytes(src, src_digits), value_bytes(dst, digits)}) |-> j])

\* Bytes are blocks of one byte each.
bit_bytes(b, digits, n) == copy_bits(b, digits, cleared(n, bits_per_byte), bits_per_byte)

bytes_bits(bytes, n, digits) == copy_bits(bytes, bits_per_byte, cleared(n, digits), digits)

\* In blocks of any width.
count_bytes(b) == MapThenSumSet(LAMBDA i : popcount(b[i]), DOMAIN b)

\* What is at or past n in the last of the blocks holding n, erased.
trimmed(b, digits, n) ==
    [i \in DOMAIN b |-> {o \in b[i] : i # last_block(b) \/ i * digits + o < n}]

assign_bits(b, digits, n, to) == trimmed(bytes_bits(bit_bytes(b, digits, n), n, to), to, n)

(***************************************************************************)
(* A source, as the conversions see it: blocks of digits each.             *)
(*   "set"       its whole blocks count, capped at max_size                *)
(*   "sequence"  its size counts                                           *)
(*   "fixed"     a width its type names                                    *)
(*   "window"    size positions from first                                 *)
(***************************************************************************)
source(kind, b, digits, size, max_size, first) ==
    [kind |-> kind, blocks |-> b, digits |-> digits, size |-> size, max_size |-> max_size, first |-> first]

source_width(s) ==
    IF s.kind = "set" THEN Min({num_blocks(s.blocks) * s.digits, s.max_size}) ELSE s.size

source_count(s) ==
    IF s.kind = "window" THEN count_range(s.blocks, s.first, s.size) ELSE count_bytes(s.blocks)

\* Mutation: the last chunk brings what lies past the window with it.
window_chunk_whole(s, p, step) == block_at(s.blocks, s.first + p) \cap partial_block_mask(step)

window_chunk(s, p, step) ==
    block_at(s.blocks, s.first + p) \cap partial_block_mask(Min({step, s.size - p}))

\* Steps of the narrower block, each landing inside one target block.
window_copy(s, dst, digits) ==
    LET step == Min({s.digits, digits})
        n    == Min({s.size, num_blocks(dst) * digits})
    IN  FoldLeft(LAMBDA b, p : [b EXCEPT ![p \div digits] =
                                   @ \cup {o + (p % digits) : o \in window_chunk(s, p, step)}],
                 dst, [j \in 1 .. divided_up(n, step) |-> (j - 1) * step])

source_copy(s, dst, digits) ==
    IF s.kind = "window" THEN window_copy(s, dst, digits)
    ELSE copy_bits(s.blocks, s.digits, dst, digits)

(***************************************************************************)
(* Into a run-time width.  A cap is Unbounded where there is none.    *)
(***************************************************************************)
Unbounded == -1

target_width(reading, width, digits, cap) ==
    IF reading = "sequence" THEN width
    ELSE IF cap = Unbounded THEN divided_up(width, digits) * digits
    ELSE Min({divided_up(width, digits) * digits, cap})

\* Mutation: a set capped below its source's width is not asked what it lost.
refuse_lost_keys_never(capped, kept, width, count) == FALSE

refuse_lost_keys(capped, kept, width, count) == capped < width /\ kept # count

thrown(what) == [outcome |-> what]
made(b, size) == [outcome |-> "ok", blocks |-> b, size |-> size]

copy_blocks(s, reading, digits, cap) ==
    LET width == source_width(s)
        size  == target_width(reading, width, digits, cap)
        to    == trimmed(source_copy(s, cleared(size, digits), digits), digits, size)
    IN  IF cap # Unbounded /\ size > cap THEN thrown("bad_alloc")
        ELSE IF reading = "set" /\ cap # Unbounded /\ refuse_lost_keys(size, count_bytes(to), width, source_count(s))
        THEN thrown("bad_alloc")
        ELSE made(to, size)

\* The source's blocks moved, not copied: a sequence then takes its width.
adopt_blocks(s, reading) ==
    LET whole == num_blocks(s.blocks) * s.digits
    IN  IF reading = "sequence" THEN made(s.blocks, source_width(s))
        ELSE made(s.blocks, Min({whole, s.max_size}))

(***************************************************************************)
(* Into a fixed width n: from a fixed width no wider nothing is lost, from *)
(* a run-time width a position at or past n is refused.                    *)
(***************************************************************************)
convert_fixed(s, digits, n) ==
    LET bytes == bit_bytes(s.blocks, s.digits, s.size)
        wide  == copy_bits(bytes, bits_per_byte, cleared(n, bits_per_byte), bits_per_byte)
    IN  IF s.digits = digits
        THEN made([i \in DOMAIN cleared(n, digits) |-> padded_block(s.blocks, i)], n)
        ELSE made(bytes_bits(wide, n, digits), n)

narrow_blocks(s, digits, n) ==
    LET copied == source_copy(s, cleared(n, bits_per_byte), bits_per_byte)
        bytes  == IF n % bits_per_byte = 0 THEN copied ELSE trimmed(copied, bits_per_byte, n)
    IN  IF count_bytes(bytes) # source_count(s) THEN thrown("overflow_error")
        ELSE made(bytes_bits(bytes, n, digits), n)

adopts_from(s, digits, cap, moved) ==
    moved /\ s.kind \in {"set", "sequence"} /\ s.digits = digits /\ cap = Unbounded

bit_convert(s, reading, digits, cap, n, moved) ==
    IF reading = "fixed" THEN (IF s.kind = "fixed" THEN convert_fixed(s, digits, n) ELSE narrow_blocks(s, digits, n))
    ELSE IF adopts_from(s, digits, cap, moved) THEN adopt_blocks(s, reading)
    ELSE copy_blocks(s, reading, digits, cap)

(***************************************************************************)
(* Foreign fields of bits: a bool per position, and blocks handed over one *)
(* at a time through an output iterator or pulled through a gather.        *)
(***************************************************************************)
bools_packed(bools, dst, digits) ==
    LET n == Len(bools)
        byte(j) == {k \in 0 .. Min({bits_per_byte, n - j * bits_per_byte}) - 1 :
                        bools[j * bits_per_byte + k + 1]}
    IN  FoldLeft(LAMBDA b, j : or_block_byte(b, digits, j - 1, byte(j - 1)), dst,
                 [j \in 1 .. Min({byte_count(n), value_bytes(dst, digits)}) |-> j])

bools_unpacked(s) ==
    LET bytes == source_copy(s, cleared(source_width(s), bits_per_byte), bits_per_byte)
    IN  [i \in 1 .. source_width(s) |->
            (i - 1) % bits_per_byte \in block_byte(bytes, bits_per_byte, (i - 1) \div bits_per_byte)]

\* Block k of the source's, written on its own positions as far as they exist.
block_sink(src, src_digits, dst, digits) ==
    LET per   == bytes_per_block(src_digits)
        one(k) == [i \in {0} |-> src[k]]
        last(k) == Max({k * per, Min({(k + 1) * per, value_bytes(dst, digits)})})
        pieces(b, k) ==
            FoldLeft(LAMBDA c, j : or_block_byte(c, digits, k * per + j - 1, block_byte(one(k), src_digits, j - 1)),
                     b, [j \in 1 .. last(k) - k * per |-> j])
    IN  FoldLeft(LAMBDA b, k : IF src_digits # digits THEN pieces(b, k - 1)
                               ELSE IF k - 1 < num_blocks(b) THEN [b EXCEPT ![k - 1] = src[k - 1]] ELSE b,
                 dst, [k \in 1 .. num_blocks(src) |-> k])

gather_block(src, src_digits, digits, i) ==
    LET first == i * bytes_per_block(digits)
        bytes == first .. Min({first + bytes_per_block(digits), value_bytes(src, src_digits)}) - 1
    IN  IF src_digits = digits THEN src[i]
        ELSE UNION {{o + bits_per_byte * (j - first) : o \in block_byte(src, src_digits, j)} : j \in bytes}

(***************************************************************************)
(* A set of flags, of static width n, against any value of its mask type:  *)
(* a word of digits bits, those at or above n in no set.                   *)
(***************************************************************************)
low_bits_of(mask, digits, n) == assign_bits([i \in {0} |-> mask], digits, n, bits_per_block)

fits(mask, digits, n) == n = digits \/ {o \in 0 .. digits - 1 : o + n \in mask} = zero

as_mask(b, n, digits) == bytes_bits(bit_bytes(b, bits_per_block, n), digits, digits)[0]

\* A list of masks is their union.
mask_list(masks, digits, n) ==
    FoldLeft(LAMBDA b, mask : [i \in DOMAIN b |-> b[i] \cup low_bits_of(mask, digits, n)[i]],
             cleared(n, bits_per_block), masks)

\* The value's bits at or above n meet nothing: "or", "xor" and a mask minus a
\* set, which would bring them in, assert there are none.
mask_combined(op, b, mask, digits, n) ==
    LET m == low_bits_of(mask, digits, n)
    IN  [i \in DOMAIN b |->
            CASE op = "and" -> b[i] \cap m[i] [] op = "or" -> b[i] \cup m[i]
              [] op = "xor" -> bit_xor(b[i], m[i]) [] op = "minus" -> b[i] \ m[i]]

mask_minus(mask, b, digits, n) ==
    LET m == low_bits_of(mask, digits, n) IN [i \in DOMAIN b |-> m[i] \ b[i]]

\* Mutation: the value's bits at or above n are not looked at.
equals_mask_low(b, mask, digits, n) == b = low_bits_of(mask, digits, n)

equals_mask(b, mask, digits, n) == fits(mask, digits, n) /\ b = low_bits_of(mask, digits, n)

\* Exactly one bit, below n, makes a mask a key.
is_flag(mask, n) == popcount(mask) = 1 /\ Min(mask) < n

=============================================================================
