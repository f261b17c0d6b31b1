---------------------------- MODULE BlockStorage ----------------------------
(***************************************************************************)
(* The value a bit_block_container keeps in m_blocks: a run of whole       *)
(* blocks, indexed from 0 as the source indexes it.  Position p is offset  *)
(* p % bits_per_block of block p \div bits_per_block.  The definitions     *)
(* here are what each member function leaves in the blocks, as a function  *)
(* of the blocks it found; n is a width where it is named size, else a     *)
(* position or a distance.                                                 *)
(***************************************************************************)
EXTENDS Blocks

Storage(k) == [0 .. k - 1 -> Block]

no_blocks == [i \in {} |-> zero]

num_blocks(b) == Cardinality(DOMAIN b)

last_block(b) == num_blocks(b) - 1

num_bits(b) == num_blocks(b) * bits_per_block

\* How many blocks a width needs, none at width zero.
blocks_for(n) ==
    (n \div bits_per_block) + (IF n % bits_per_block # 0 THEN 1 ELSE 0)

index(p)  == p \div bits_per_block
offset(p) == p % bits_per_block

BitAt(b, p) == offset(p) \in b[index(p)]

\* The positions set, those at or above the width included if there are any.
Positions(b) == {p \in 0 .. num_bits(b) - 1 : BitAt(b, p)}

PositionsIn(b, n, len) == {p \in n .. n + len - 1 : BitAt(b, p)}

(***************************************************************************)
(* The unused tail.                                                        *)
(***************************************************************************)
has_unused_bits(b, size) == num_bits(b) # size

used_bits(b, size) == shr(ones, num_bits(b) - size)

erase_unused(b, size) ==
    IF has_unused_bits(b, size)
    THEN [b EXCEPT ![last_block(b)] = @ \cap used_bits(b, size)]
    ELSE b

\* No block holds a bit at or above the width.
TailClear(b, size) ==
    \A i \in DOMAIN b : \A o \in b[i] : i * bits_per_block + o < size

(***************************************************************************)
(* Blocks read and written at any position.                                *)
(***************************************************************************)
padded_block(b, i) == IF i < num_blocks(b) THEN b[i] ELSE zero

straddled_block(b, i, L_shift, R_shift) ==
    shl(b[i + 1], L_shift) \cup shr(b[i], R_shift)

\* Mutation: the block above is not read.
block_at_low(b, n) == shr(b[index(n)], offset(n))

block_at(b, n) ==
    IF offset(n) = 0 \/ index(n) = last_block(b)
    THEN shr(b[index(n)], offset(n))
    ELSE straddled_block(b, index(n), bits_per_block - offset(n), offset(n))

\* Mutation: the block above is not written.
written_at_low(b, n, value, mask) ==
    LET up == offset(n)
    IN  [b EXCEPT ![index(n)] = (@ \ shl(mask, up)) \cup shl(value \cap mask, up)]

\* The masked write: [n, n + bits_per_block) takes value where mask is set.
written_at(b, n, value, mask) ==
    LET at    == index(n)
        up    == offset(n)
        shift == bits_per_block - up
        low   == (b[at] \ shl(mask, up)) \cup shl(value \cap mask, up)
        high  == (b[at + 1] \ shr(mask, shift)) \cup shr(value \cap mask, shift)
    IN  IF up # 0 /\ at # last_block(b)
        THEN [b EXCEPT ![at] = low, ![at + 1] = high]
        ELSE [b EXCEPT ![at] = low]

\* The range [n, n + len) set to value: the end blocks masked, the blocks
\* between them stored whole.
range_set(b, n, len, value) ==
    LET first == index(n)
        last  == index(n + len - 1)
        from_head == shl(ones, offset(n))
        to_tail   == shr(ones, left_bit - offset(n + len - 1))
        mask(i) == (IF i = first THEN from_head ELSE ones) \cap
                   (IF i = last  THEN to_tail   ELSE ones)
    IN  IF len = 0
        THEN b
        ELSE [i \in DOMAIN b |->
                IF i < first \/ last < i THEN b[i]
                ELSE IF value THEN b[i] \cup mask(i)
                ELSE b[i] \ mask(i)]

(***************************************************************************)
(* Shifts, rotation and reversal.  The source runs these in place, a block *)
(* at a time; the order of its loops is the subject of InPlaceLoops.       *)
(***************************************************************************)
shifted_up(b, n) ==
    LET n_blocks == n \div bits_per_block
        L_shift  == n % bits_per_block
        R_shift  == bits_per_block - L_shift
    IN  [i \in DOMAIN b |->
            IF i < n_blocks THEN zero
            ELSE IF L_shift = 0 THEN b[i - n_blocks]
            ELSE IF i = n_blocks THEN shl(b[0], L_shift)
            ELSE straddled_block(b, i - n_blocks - 1, L_shift, R_shift)]

shifted_down(b, n) ==
    LET n_blocks == n \div bits_per_block
        R_shift  == n % bits_per_block
        L_shift  == bits_per_block - R_shift
        last     == last_block(b)
    IN  [i \in DOMAIN b |->
            IF last - n_blocks < i THEN zero
            ELSE IF R_shift = 0 THEN b[i + n_blocks]
            ELSE IF i = last - n_blocks THEN shr(b[last], R_shift)
            ELSE straddled_block(b, i + n_blocks, L_shift, R_shift)]

blocks_rotated_down(b, R_shift) ==
    LET L_shift == bits_per_block - R_shift
        last    == last_block(b)
    IN  [i \in DOMAIN b |->
            IF i = last THEN shl(b[0], L_shift) \cup shr(b[last], R_shift)
            ELSE straddled_block(b, i, L_shift, R_shift)]

\* The n positions that wrapped move down across the gap the tail leaves.
padding_closed(b, size, n) ==
    LET gap == num_bits(b) - size
    IN  [i \in DOMAIN b |->
            {o \in Offset :
                LET p == i * bits_per_block + o
                IN  IF size - n <= p /\ p < size
                    THEN BitAt(b, p + gap)
                    ELSE o \in b[i]}]

\* Mutation: the positions that wrapped stay above the gap.
rotated_down_across(b, size, n) ==
    LET n_blocks == n \div bits_per_block
        R_shift  == n % bits_per_block
        blockwise == [i \in DOMAIN b |-> b[(i + n_blocks) % num_blocks(b)]]
    IN  erase_unused(IF R_shift # 0 THEN blocks_rotated_down(blockwise, R_shift) ELSE blockwise, size)

rotated_down(b, size, n) ==
    LET n_blocks == n \div bits_per_block
        R_shift  == n % bits_per_block
        blockwise == [i \in DOMAIN b |-> b[(i + n_blocks) % num_blocks(b)]]
        turned == IF R_shift # 0
                  THEN blocks_rotated_down(blockwise, R_shift)
                  ELSE blockwise
        closed == IF has_unused_bits(b, size)
                  THEN padding_closed(turned, size, n)
                  ELSE turned
    IN  IF n = 0 THEN b ELSE erase_unused(closed, size)

modulo_width(n, size) == IF size = 0 THEN 0 ELSE n % size

rotated(b, size, n) == rotated_down(b, size, modulo_width(n, size))

end_for_end(b, size) ==
    LET turned == [i \in DOMAIN b |-> reversed(b[last_block(b) - i])]
    IN  IF has_unused_bits(b, size)
        THEN blocks_rotated_down(turned, num_bits(b) - size)
        ELSE turned

(***************************************************************************)
(* Growth and the bulk writes.                                             *)
(***************************************************************************)
\* std::vector::resize, which is external: kept blocks, then copies of fill.
blocks_resized(b, k, fill) ==
    [i \in 0 .. k - 1 |-> IF i < num_blocks(b) THEN b[i] ELSE fill]

\* Mutations: a narrower width keeps its blocks; and leaves its tail as it was.
resized_keeping_blocks(b, size, n, value) ==
    LET k == IF blocks_for(n) < num_blocks(b) THEN num_blocks(b) ELSE blocks_for(n)
    IN  erase_unused(blocks_resized(b, k, IF value THEN ones ELSE zero), n)

resized_unmasked(b, size, n, value) ==
    blocks_resized(b, blocks_for(n), IF value /\ n > size THEN ones ELSE zero)

\* resize_to: the old last block's tail joins the new positions when they
\* arrive as ones, and the new last block is masked.
resized(b, size, n, value) ==
    LET k    == blocks_for(n)
        tail == complement(used_bits(b, size))
        old  == last_block(b)
        with_ones == blocks_resized(b, k, ones)
        grown == IF has_unused_bits(b, size)
                 THEN [with_ones EXCEPT ![old] = @ \cup tail]
                 ELSE with_ones
    IN  erase_unused(IF value /\ n > size
                     THEN grown
                     ELSE blocks_resized(b, k, zero), n)

\* Mutations: the old last block is not filled up; and is taken to hold it all.
appended_apart(b, size, value) ==
    [i \in 0 .. num_blocks(b) |->
        IF i < num_blocks(b) THEN b[i] ELSE shr(value, bits_per_block - offset(size))]

appended_within(b, size, value) ==
    IF offset(size) = 0
    THEN [i \in 0 .. num_blocks(b) |-> IF i = num_blocks(b) THEN value ELSE b[i]]
    ELSE [b EXCEPT ![last_block(b)] = @ \cup shl(value, offset(size))]

appended(b, size, value) ==
    LET k  == num_blocks(b)
        up == offset(size)
    IN  [i \in 0 .. k |->
            IF i = k THEN IF up # 0 THEN shr(value, bits_per_block - up) ELSE value
            ELSE IF i = k - 1 /\ up # 0 THEN b[i] \cup shl(value, up)
            ELSE b[i]]

\* Mutations: every block written, and the tail with them.
all_set_unmasked(b, size) == [i \in DOMAIN b |-> ones]

all_flipped_unmasked(b, size) == [i \in DOMAIN b |-> complement(b[i])]

all_set(b, size) == erase_unused([i \in DOMAIN b |-> ones], size)

all_reset(b) == [i \in DOMAIN b |-> zero]

all_flipped(b, size) == erase_unused([i \in DOMAIN b |-> complement(b[i])], size)

bit_set(b, n)     == [b EXCEPT ![index(n)] = @ \cup {offset(n)}]
bit_reset(b, n)   == [b EXCEPT ![index(n)] = @ \ {offset(n)}]
bit_flipped(b, n) == [b EXCEPT ![index(n)] = bit_xor(@, {offset(n)})]

\* Mutation: the scan for the last set block starts at the wrong end.
back_block_from_front(b) == Min({i \in DOMAIN b : b[i] # zero})

\* The first, and the last, block that holds a bit; any() is required.
front_block(b) == Min({i \in DOMAIN b : b[i] # zero})
back_block(b)  == Max({i \in DOMAIN b : b[i] # zero})

find_front(b) == bits_per_block * front_block(b) + countr_zero(b[front_block(b)])
find_back(b)  == bits_per_block * back_block(b) + left_bit - countl_zero(b[back_block(b)])

front_dropped(b) == [b EXCEPT ![front_block(b)] = drop_lowest(@)]
back_dropped(b)  == [b EXCEPT ![back_block(b)]  = drop_highest(@)]

any(b) == \E i \in DOMAIN b : b[i] # zero

\* The bits of [n, n + len), and those of every block.
count_in(b, n, len) == Cardinality(PositionsIn(b, n, len))
count_blocks(b)     == Cardinality(Positions(b))

=============================================================================
