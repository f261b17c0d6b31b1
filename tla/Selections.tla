----------------------------- MODULE Selections -----------------------------
(***************************************************************************)
(* The positions a valarray's subscripts select, and the three passes over *)
(* them: gather packs the selected bits from position nought, expand lays  *)
(* bits at the selected positions in order, fill lays one value at all of  *)
(* them.  A selection is worked through as a run, as a mask per block, or  *)
(* one position at a time; bit_compress and bit_expand use the masks.      *)
(***************************************************************************)
EXTENDS BlockScans, SequencesExt

\* How a scatter combines a destination block d with the bits e under m.
Combiner == {"assign", "and", "or", "xor"}

scatter(f, d, e, m) ==
    CASE f = "assign" -> (d \ m) \cup e
      [] f = "and"    -> d \cap (e \cup complement(m))
      [] f = "or"     -> d \cup e
      [] f = "xor"    -> bit_xor(d, e)

splat(value) == IF value THEN ones ELSE zero

rank(o, mask) == Cardinality({q \in mask : q < o})

\* Within one block: the bits the mask selects, packed; and bits deposited.
compressed(b, mask) == {rank(o, mask) : o \in b \cap mask}

expanded(b, mask) == {o \in mask : rank(o, mask) \in b}

blocks_of_width(n) == [i \in 0 .. blocks_for(n) - 1 |-> zero]

(***************************************************************************)
(* A mask per block, in order: pairs <<block, mask>>.                      *)
(***************************************************************************)
\* Mutation: what did not fit into the block stored is dropped.
packed_over_dropped(packed, before) == zero

\* What did not fit, shifted in two steps, none of them by a whole block.
packed_over(packed, before) == shr(shr(packed, 1), bits_per_block - before - 1)

pack_block(src, acc, at) ==
    LET packed == compressed(padded_block(src, at[1]), at[2])
        block  == acc.block \cup shl(packed, acc.fill)
        fill   == acc.fill + popcount(at[2])
    IN  IF fill >= bits_per_block
        THEN [out   |-> Append(acc.out, block),
              fill  |-> fill - bits_per_block,
              block |-> packed_over(packed, acc.fill)]
        ELSE [acc EXCEPT !.block = block, !.fill = fill]

compress_blocks(src, masks, dst) ==
    LET end == FoldLeft(LAMBDA acc, at : pack_block(src, acc, at),
                        [out |-> <<>>, fill |-> 0, block |-> zero], masks)
        out == IF end.fill # 0 THEN Append(end.out, end.block) ELSE end.out
    IN  [i \in DOMAIN dst |-> IF i < Len(out) THEN out[i + 1] ELSE dst[i]]

\* Mutation: the bits held are forgotten when the next block is reached.
taken_forgetting(src, s, count) ==
    IF count <= s.avail
    THEN [s EXCEPT !.bits = s.buffer, !.buffer = shr(s.buffer, count), !.avail = @ - count]
    ELSE [bits   |-> shl(src[s.next], s.avail),
          buffer |-> shr(src[s.next], count - s.avail),
          avail  |-> bits_per_block - (count - s.avail),
          next   |-> s.next + 1]

\* The next count bits of the blocks read as one stream, garbage above them.
taken(src, s, count) ==
    IF count <= s.avail
    THEN [s EXCEPT !.bits = s.buffer, !.buffer = shr(s.buffer, count), !.avail = @ - count]
    ELSE [bits   |-> s.buffer \cup shl(src[s.next], s.avail),
          buffer |-> shr(src[s.next], count - s.avail),
          avail  |-> bits_per_block - (count - s.avail),
          next   |-> s.next + 1]

unread == [bits |-> zero, buffer |-> zero, avail |-> 0, next |-> 0]

expand_blocks(src, masks, dst, f) ==
    FoldLeft(LAMBDA acc, at :
                 LET s == taken(src, acc.stream, popcount(at[2]))
                 IN  [stream |-> s,
                      dst |-> [acc.dst EXCEPT ![at[1]] = scatter(f, @, expanded(s.bits, at[2]), at[2])]],
             [stream |-> unread, dst |-> dst], masks).dst

fill_blocks(value, masks, dst, f) ==
    FoldLeft(LAMBDA d, at : [d EXCEPT ![at[1]] = scatter(f, @, at[2] \cap splat(value), at[2])],
             dst, masks)

stored_masks(b) == [i \in 1 .. num_blocks(b) |-> <<i - 1, b[i - 1]>>]

\* The masks a gslice stores as wider words, up to the last position.
word_masks(words, width) ==
    [i \in 1 .. blocks_for(width) |->
        <<i - 1, {o \in Offset : (i - 1) * bits_per_block + o \in words}>>]

(***************************************************************************)
(* The masks of a slice whose stride is below a block: the edges cut, the  *)
(* blocks between from a table over whole periods of the stride.           *)
(***************************************************************************)
gcd(a, b) == Max({d \in 1 .. b : a % d = 0 /\ b % d = 0})

span_of(stride) ==
    LET period == stride \div gcd(stride, bits_per_block)
    IN  (bits_per_block \div period) * period

final(start, size, stride) == start + (size - 1) * stride

\* Every stride-th offset from the one given.
strided(stride, off) == shl({o \in Offset : o % stride = 0}, off)

\* Mutation: the offset steps as if a period ended with each block.
stepped_in_phase(off, stride) == off

\* The first offset of the next block: a block is not whole strides.
stepped(off, stride) ==
    LET carry == bits_per_block % stride
    IN  IF off >= carry THEN off - carry ELSE off + stride - carry

slice_table(start, stride) ==
    LET off[p \in 0 .. span_of(stride)] ==
            IF p = 0 THEN offset(start) % stride ELSE stepped(off[p - 1], stride)
    IN  [p \in 0 .. span_of(stride) |-> strided(stride, off[p])]

slice_masks(start, size, stride) ==
    LET first == index(start)
        last  == index(final(start, size, stride)) + 1
        span  == span_of(stride)
        spans_end == first + 1 + ((last - first - Min({last - first, 2})) \div span) * span
        table == slice_table(start, stride)
        head  == table[0] \ partial_block_mask(offset(start))
        tail  == partial_block_mask(offset(final(start, size, stride)) + 1)
        \* The table's entry for the p-th block past the first.
        entry(p) == table[1 + (p % span)]
        mask(k) == CASE k = first /\ first + 1 = last -> head \cap tail
                     [] k = first /\ first + 1 < last -> head
                     [] first < k /\ k = last - 1     -> entry(last - first - 2) \cap tail
                     [] first < k /\ k < last - 1 /\ span = bits_per_block -> table[1]
                     [] first < k /\ k < last - 1 /\ span # bits_per_block ->
                            entry(IF k < spans_end THEN k - first - 1 ELSE k - spans_end)
    IN  [i \in 1 .. last - first |-> <<first + i - 1, mask(first + i - 1)>>]

(***************************************************************************)
(* A run of positions: whole blocks from a block boundary, then windows.   *)
(***************************************************************************)
whole_blocks(start, size) == IF offset(start) = 0 THEN size \div bits_per_block ELSE 0

run_windows(start, size) ==
    LET whole == whole_blocks(start, size)
    IN  [i \in 1 .. blocks_for(size) - whole |-> (whole + i - 1) * bits_per_block]

run_mask(size, j) == partial_block_mask(Min({bits_per_block, size - j}))

gather_run(src, start, size, dst) ==
    LET whole == whole_blocks(start, size)
        copied == [i \in DOMAIN dst |-> IF i < whole THEN src[index(start) + i] ELSE dst[i]]
    IN  FoldLeft(LAMBDA d, j : written_at(d, j, block_at(src, start + j), run_mask(size, j)),
                 copied, run_windows(start, size))

\* The window of the run from j, read, combined and written back.
run_written(d, bits, start, size, j, f) ==
    LET mask == run_mask(size, j)
    IN  written_at(d, start + j, scatter(f, block_at(d, start + j), bits \cap mask, mask), mask)

whole_combined(from, start, size, dst, f) ==
    LET at == index(start)
    IN  [i \in DOMAIN dst |->
            IF at <= i /\ i < at + whole_blocks(start, size)
            THEN scatter(f, dst[i], from[i - at], ones) ELSE dst[i]]

expand_run(src, start, size, dst, f) ==
    FoldLeft(LAMBDA d, j : run_written(d, block_at(src, j), start, size, j, f),
             whole_combined(src, start, size, dst, f), run_windows(start, size))

fill_run(value, start, size, dst, f) ==
    FoldLeft(LAMBDA d, j : run_written(d, splat(value), start, size, j, f),
             whole_combined([i \in DOMAIN dst |-> splat(value)], start, size, dst, f), run_windows(start, size))

(***************************************************************************)
(* One position at a time, in order: at is the sequence of the positions.  *)
(***************************************************************************)
bit_at(src, p) == shr(src[index(p)], offset(p)) \cap {0}

gather_indices(src, at, dst) ==
    [i \in DOMAIN dst |->
        IF i < blocks_for(Len(at))
        THEN UNION {shl(bit_at(src, at[j]), offset(j - 1)) : j \in {n \in 1 .. Len(at) : index(n - 1) = i}}
        ELSE dst[i]]

\* Mutation: the later of two bits for one position gives way.
expand_indices_first(src, at, dst, f) ==
    FoldLeft(LAMBDA d, j : [d EXCEPT ![index(at[j])] =
                               scatter(f, @, shl(bit_at(src, j - 1), offset(at[j])), {offset(at[j])})],
             dst, [j \in 1 .. Len(at) |-> Len(at) + 1 - j])

\* A position named twice takes what f makes of its later bit.
expand_indices(src, at, dst, f) ==
    FoldLeft(LAMBDA d, j : [d EXCEPT ![index(at[j])] =
                               scatter(f, @, shl(bit_at(src, j - 1), offset(at[j])), {offset(at[j])})],
             dst, [j \in 1 .. Len(at) |-> j])

fill_indices(value, at, dst, f) ==
    FoldLeft(LAMBDA d, p : [d EXCEPT ![index(p)] =
                               scatter(f, @, {offset(p)} \cap splat(value), {offset(p)})],
             dst, at)

(***************************************************************************)
(* The positions of a gslice, in row-major order by an odometer over its   *)
(* lengths; as one bit per position where they ascend.                     *)
(***************************************************************************)
count_of(lengths) == IF lengths = <<>> THEN 0 ELSE FoldLeft(LAMBDA a, b : a * b, 1, lengths)

step_at(s, d, strides) == [counter |-> [s.counter EXCEPT ![d] = @ + 1], pos |-> s.pos + strides[d]]

\* Mutation: a counter that ran out does not give its steps back.
carry_over_kept(s, d, lengths, strides) ==
    step_at([s EXCEPT !.counter[d] = 0], d - 1, strides)

\* The counter of d ran out, and carries into the one before it.
carry_over(s, d, lengths, strides) ==
    step_at([counter |-> [s.counter EXCEPT ![d] = 0], pos |-> s.pos - lengths[d] * strides[d]],
            d - 1, strides)

next_odometer(s, lengths, strides) ==
    FoldLeft(LAMBDA t, d : IF t.counter[d] = lengths[d] /\ d # 1
                           THEN carry_over(t, d, lengths, strides) ELSE t,
             step_at(s, Len(lengths), strides),
             [d \in 1 .. Len(lengths) |-> Len(lengths) + 1 - d])

gslice_positions(start, lengths, strides) ==
    LET s[t \in 1 .. count_of(lengths)] ==
            IF t = 1 THEN [counter |-> [d \in DOMAIN lengths |-> 0], pos |-> start]
            ELSE next_odometer(s[t - 1], lengths, strides)
    IN  [t \in 1 .. count_of(lengths) |-> s[t].pos]

\* Mutation: a stride that only reaches the last position inside it clears it.
ascending_span_touching(lengths, strides) ==
    FoldRight(LAMBDA d, span : IF span = 0 \/ lengths[d] < 2 THEN span
                               ELSE IF strides[d] + 1 < span THEN 0
                               ELSE span + (lengths[d] - 1) * strides[d],
              [d \in DOMAIN lengths |-> d], 1)

\* The span of positions that ascend, each stride clearing all inside it.
ascending_span(lengths, strides) ==
    FoldRight(LAMBDA d, span : IF span = 0 \/ lengths[d] < 2 THEN span
                               ELSE IF strides[d] < span THEN 0
                               ELSE span + (lengths[d] - 1) * strides[d],
              [d \in DOMAIN lengths |-> d], 1)

gslice_index(start, lengths, strides) ==
    LET at   == gslice_positions(start, lengths, strides)
        span == ascending_span(lengths, strides)
        made(width, words, positions) ==
            [start |-> start, lengths |-> lengths, strides |-> strides, count |-> Len(at),
             width |-> width, words |-> words, positions |-> positions]
    IN  IF at = <<>> THEN made(0, {}, <<>>)
        ELSE IF span # 0 THEN made(start + span, Range(at), <<>>)
        ELSE made(Max(Range(at)) + 1, {}, at)

is_masked(g) == g.positions = <<>>

(***************************************************************************)
(* A selection, and its three passes.                                      *)
(*   [kind |-> "slice", start, size, stride]                               *)
(*   [kind |-> "gslice", index]         as worked out by gslice_index      *)
(*   [kind |-> "mask", masks]           the mask's blocks, as they stand   *)
(*   [kind |-> "indirect", positions]                                      *)
(***************************************************************************)
is_strided(s) == s.size # 0 /\ 1 < s.stride /\ s.stride < bits_per_block

Way(s) ==
    CASE s.kind = "slice" -> IF s.stride = 1 THEN "run" ELSE IF is_strided(s) THEN "masks" ELSE "indices"
      [] s.kind = "gslice" -> IF is_masked(s.index) THEN "masks" ELSE "indices"
      [] s.kind = "mask" -> "masks"
      [] s.kind = "indirect" -> "indices"

Masks(s) ==
    CASE s.kind = "slice"  -> slice_masks(s.start, s.size, s.stride)
      [] s.kind = "gslice" -> word_masks(s.index.words, s.index.width)
      [] s.kind = "mask"   -> stored_masks(s.masks)

Indices(s) ==
    CASE s.kind = "slice"    -> [j \in 1 .. s.size |-> s.start + (j - 1) * s.stride]
      [] s.kind = "gslice"   -> s.index.positions
      [] s.kind = "indirect" -> s.positions

gather(s, src, dst) ==
    CASE Way(s) = "run"     -> gather_run(src, s.start, s.size, dst)
      [] Way(s) = "masks"   -> compress_blocks(src, Masks(s), dst)
      [] Way(s) = "indices" -> gather_indices(src, Indices(s), dst)

expand(s, src, dst, f) ==
    CASE Way(s) = "run"     -> expand_run(src, s.start, s.size, dst, f)
      [] Way(s) = "masks"   -> expand_blocks(src, Masks(s), dst, f)
      [] Way(s) = "indices" -> expand_indices(src, Indices(s), dst, f)

fill(s, value, dst, f) ==
    CASE Way(s) = "run"     -> fill_run(value, s.start, s.size, dst, f)
      [] Way(s) = "masks"   -> fill_blocks(value, Masks(s), dst, f)
      [] Way(s) = "indices" -> fill_indices(value, Indices(s), dst, f)

(***************************************************************************)
(* bit_compress and bit_expand over two owners, x of its own width and the *)
(* mask m of width n: a narrower set's absent keys are nought.             *)
(***************************************************************************)
bit_compress(x, m, n) == compress_blocks(x, stored_masks(m), blocks_of_width(n))

bit_expand(x, m, n) ==
    LET wide == IF num_blocks(x) < num_blocks(m)
                THEN [i \in DOMAIN m |-> padded_block(x, i)] ELSE x
    IN  expand_blocks(wide, stored_masks(m), blocks_of_width(n), "assign")

\* Packed into an unsigned integer of digits bits: once full, the shift wraps.
compress_low(x, m, digits) ==
    FoldLeft(LAMBDA acc, at :
                 LET packed == compressed(padded_block(x, at[1]), at[2])
                 IN  [fill |-> acc.fill + popcount(at[2]),
                      u |-> acc.u \cup {p \in {o + (acc.fill % digits) : o \in packed} : p < digits}],
             [fill |-> 0, u |-> {}], stored_masks(m)).u

\* An unsigned integer's low bits, as far as the width n reaches, laid at m.
assign_low(u, digits, n) ==
    erase_unused([i \in 0 .. blocks_for(n) - 1 |->
                     IF i * bits_per_block < digits
                     THEN {o \in Offset : i * bits_per_block + o \in u} ELSE zero], n)

bit_expand_low(u, digits, m, n) == bit_expand(assign_low(u, digits, n), m, n)

=============================================================================
