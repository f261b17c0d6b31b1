----------------------------- MODULE BlockScans -----------------------------
(***************************************************************************)
(* The queries of bit_block_container, as the source computes them: a      *)
(* block at a time, from counts of leading and trailing zeros, with        *)
(* separate arms where the type fixes one block or two.  An arm is named   *)
(* after the number of blocks it is compiled for; the name alone is the    *)
(* general arm, which serves every other width.                            *)
(***************************************************************************)
EXTENDS BlockStorage

\* The first, or last, set block of a range of blocks is where a loop over
\* them ends; an empty set is a loop that runs out.
set_blocks(b, lo, hi) == {i \in lo .. hi : b[i] # zero}

base(i) == bits_per_block * i

(***************************************************************************)
(* Scans upwards.                                                          *)
(***************************************************************************)
inclusive_find_next(b, size, n) ==
    LET here  == shr(b[index(n)], offset(n))
        from  == index(n) + 1
        later == set_blocks(b, from, last_block(b))
        up    == n + bits_per_block - offset(n)
    IN  IF n = size THEN size
        ELSE IF here # zero THEN n + countr_zero(here)
        ELSE IF later = {} THEN size
        ELSE up + countr_zero(b[Min(later)]) + base(Min(later) - from)

inclusive_find_next_1(b, size, n) ==
    LET here == shr(b[0], n)
    IN  IF n = size \/ here = zero THEN size ELSE n + countr_zero(here)

inclusive_find_next_2(b, size, n) ==
    LET here == shr(b[index(n)], offset(n))
    IN  IF n = size THEN size
        ELSE IF here # zero THEN n + countr_zero(here)
        ELSE IF index(n) = 0 /\ b[1] # zero THEN bits_per_block + countr_zero(b[1])
        ELSE size

find_first(b, size) == inclusive_find_next(b, size, 0)

\* Whole blocks: an empty block counts its width, which is size() itself.
find_first_1(b) == countr_zero(b[0])

find_first_2(b) ==
    IF b[0] # zero THEN countr_zero(b[0]) ELSE bits_per_block + countr_zero(b[1])

\* Mutation: the position itself is not left out.
above_inclusive(b, n) == b[index(n)] \cap shl(ones, offset(n))

above(b, n) == b[index(n)] \cap shl(ones \ {0}, offset(n))

exclusive_find_next(b, size, n) ==
    LET here  == above(b, n)
        later == set_blocks(b, index(n) + 1, last_block(b))
    IN  IF here # zero THEN base(index(n)) + countr_zero(here)
        ELSE IF later = {} THEN size
        ELSE base(Min(later)) + countr_zero(b[Min(later)])

\* One block, the width its digits: an empty block counts to size().
exclusive_find_next_1(b, size, n) ==
    LET here == above(b, n)
    IN  IF size = bits_per_block THEN countr_zero(here)
        ELSE IF here # zero THEN base(index(n)) + countr_zero(here)
        ELSE size

exclusive_find_next_2(b, size, n) ==
    LET here == above(b, n)
    IN  IF here # zero THEN base(index(n)) + countr_zero(here)
        ELSE IF index(n) = 0 /\ b[1] # zero THEN bits_per_block + countr_zero(b[1])
        ELSE size

(***************************************************************************)
(* Scans downwards.  exclusive_find_prev requires a set position below n.  *)
(***************************************************************************)
exclusive_find_prev(b, n) ==
    LET m    == n - 1
        back == left_bit - offset(m)
        here == shl(b[index(m)], back)
        skip == back # 0
        from == IF skip THEN index(m) - 1 ELSE index(m)
        at   == IF skip THEN m - (bits_per_block - back) ELSE m
        i    == Max(set_blocks(b, 0, from))
    IN  IF skip /\ here # zero
        THEN m - countl_zero(here)
        ELSE at - countl_zero(b[i]) - base(from - i)

exclusive_find_prev_1(b, n) ==
    (n - 1) - countl_zero(shl(b[0], left_bit - (n - 1)))

exclusive_find_prev_2(b, n) ==
    LET here == shl(b[index(n - 1)], left_bit - offset(n - 1))
    IN  IF here # zero THEN n - 1 - countl_zero(here) ELSE left_bit - countl_zero(b[0])

\* Mutation: a loop that stops before block zero, as an unsigned i > 0 would.
total_find_prev_short(b, size, n) ==
    LET here  == shl(b[index(n - 1)], left_bit - offset(n - 1))
        below == set_blocks(b, 1, index(n - 1) - 1)
    IN  IF n = 0 THEN size
        ELSE IF here # zero THEN n - 1 - countl_zero(here)
        ELSE IF below = {} THEN size
        ELSE base(Max(below)) + left_bit - countl_zero(b[Max(below)])

total_find_prev(b, size, n) ==
    LET here  == shl(b[index(n - 1)], left_bit - offset(n - 1))
        below == set_blocks(b, 0, index(n - 1) - 1)
    IN  IF n = 0 THEN size
        ELSE IF here # zero THEN n - 1 - countl_zero(here)
        ELSE IF below = {} THEN size
        ELSE base(Max(below)) + left_bit - countl_zero(b[Max(below)])

total_find_prev_2(b, size, n) ==
    LET here == shl(b[index(n - 1)], left_bit - offset(n - 1))
    IN  IF n = 0 THEN size
        ELSE IF here # zero THEN n - 1 - countl_zero(here)
        ELSE IF index(n - 1) = 1 /\ b[0] # zero THEN left_bit - countl_zero(b[0])
        ELSE size

\* The two ends of a container that holds a position.
find_front_1(b) == countr_zero(b[0])

find_front_2(b) ==
    IF b[0] # zero THEN countr_zero(b[0]) ELSE countr_zero(b[1]) + bits_per_block

last_bit(b) == num_bits(b) - 1

find_back_1(b) == last_bit(b) - countl_zero(b[0])

find_back_2(b) ==
    IF b[1] # zero THEN last_bit(b) - countl_zero(b[1]) ELSE left_bit - countl_zero(b[0])

(***************************************************************************)
(* Reductions over a range, a window of bits_per_block positions at a time *)
(* and the last masked; and over every block.                              *)
(***************************************************************************)
windows(n, len) == {pos \in n .. n + len - 1 : (pos - n) % bits_per_block = 0}

\* Mutation: the last window is not cut off at the end of the range.
window_mask_whole(n, len, pos) == ones

window_mask(n, len, pos) == partial_block_mask(Min({bits_per_block, n + len - pos}))

count_range(b, n, len) ==
    MapThenSumSet(LAMBDA pos : popcount(block_at(b, pos) \cap window_mask(n, len, pos)),
                  windows(n, len))

any_range(b, n, len) ==
    \E pos \in windows(n, len) : block_at(b, pos) \cap window_mask(n, len, pos) # zero

all_range(b, n, len) ==
    ~ \E pos \in windows(n, len) :
          block_at(b, pos) \cap window_mask(n, len, pos) # window_mask(n, len, pos)

all_but_last_are_ones(b) == \A i \in 0 .. last_block(b) - 1 : b[i] = ones

all(b, size) ==
    \/ num_blocks(b) = 0
    \/ all_but_last_are_ones(b) /\ b[last_block(b)] = used_bits(b, size)

\* A few static blocks, folded: the padding filled in, and every block and-ed.
all_folded(b, size) ==
    LET every == {o \in Offset : \A i \in DOMAIN b :
                    o \in b[i] \cup (IF i = last_block(b) THEN complement(used_bits(b, size)) ELSE zero)}
    IN  every = ones

none(b) == \A i \in DOMAIN b : b[i] = zero

test(b, n) == shr(b[index(n)], offset(n)) \cap {0} # zero

(***************************************************************************)
(* Two storages against each other.                                        *)
(***************************************************************************)
\* The first block at which two values of one width differ, and its xor.
first_difference(b, c) ==
    LET differ == {i \in 0 .. last_block(b) - 1 : bit_xor(b[i], c[i]) # zero}
        at     == IF differ = {} THEN last_block(b) ELSE Min(differ)
    IN  IF num_blocks(b) = 0 THEN <<0, zero>> ELSE <<at, bit_xor(b[at], c[at])>>

first_difference_2(b, c) ==
    IF bit_xor(b[0], c[0]) # zero THEN <<0, bit_xor(b[0], c[0])>> ELSE <<1, bit_xor(b[1], c[1])>>

\* Whether a position above a clear one is set.
any_above(b, i, o) ==
    shr(b[i], o) # zero \/ set_blocks(b, i + 1, last_block(b)) # {}

any_above_2(b, i, o) == shr(b[i], o) # zero \/ (i = 0 /\ b[1] # zero)

any_block_set(b, first, last) == set_blocks(b, first, last - 1) # {}

\* Mutation: the block of the position is searched from its foot again.
padded_any_above_block(b, i, o) ==
    any_block_set(b, Min({i, num_blocks(b)}), num_blocks(b))

padded_any_above(b, i, o) ==
    LET n == num_blocks(b)
    IN  \/ i < n /\ shr(b[i], o) # zero
        \/ any_block_set(b, Min({i + 1, n}), n)

padded_first_difference(b, c, n) ==
    LET differ == {i \in 0 .. n - 1 : padded_block(b, i) # padded_block(c, i)}
    IN  IF differ = {} THEN n ELSE Min(differ)

(***************************************************************************)
(* The arithmetic behind the words: a block as the unsigned integer it is. *)
(***************************************************************************)
Modulus == 2 ^ bits_per_block

value_of(b) == MapThenSumSet(LAMBDA o : 2 ^ o, b)

block_of(v) == {o \in Offset : (v \div 2 ^ o) % 2 = 1}

\* w & (w - 1), and w ^ (1 << (left_bit - countl_zero(w))).
drop_lowest_word(b)  == b \cap block_of((value_of(b) - 1) % Modulus)
drop_highest_word(b) == bit_xor(b, shl({0}, left_bit - countl_zero(b)))

\* A full block is every bit, with no shift by digits.
partial_block_mask_word(count) ==
    IF count = bits_per_block THEN ones
    ELSE block_of((value_of(shl({0}, count)) - 1) % Modulus)

\* Swaps of ever narrower halves, where bits_per_block is a power of two.
halved(h) ==
    LET w == h.width
    IN  [block |-> (shr(h.block, w) \cap h.mask) \cup shl(h.block \cap h.mask, w),
         mask  |-> bit_xor(h.mask, shl(h.mask, w \div 2)),
         width |-> w \div 2]

reversed_by_halves(b) ==
    LET half == bits_per_block \div 2
        step[k \in 0 .. bits_per_block] ==
            IF k = 0 THEN [block |-> b, mask |-> shr(ones, half), width |-> half]
            ELSE halved(step[k - 1])
        swaps == CHOOSE k \in 0 .. bits_per_block : 2 ^ k = bits_per_block
    IN  step[swaps].block

(***************************************************************************)
(* The one-block arms of the writers whose general arm is in BlockStorage. *)
(***************************************************************************)
rotated_down_1(b, size, n) ==
    IF n = 0 THEN b
    ELSE erase_unused([b EXCEPT ![0] = shr(@, n) \cup shl(@, size - n)], size)

end_for_end_1(b, size) == [b EXCEPT ![0] = shr(reversed(@), num_bits(b) - size)]

range_extreme_dropped_2(b, front) ==
    IF front
    THEN IF b[0] # zero THEN [b EXCEPT ![0] = drop_lowest(@)] ELSE [b EXCEPT ![1] = drop_lowest(@)]
    ELSE IF b[1] # zero THEN [b EXCEPT ![1] = drop_highest(@)] ELSE [b EXCEPT ![0] = drop_highest(@)]

=============================================================================
