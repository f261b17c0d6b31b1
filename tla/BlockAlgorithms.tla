-------------------------- MODULE BlockAlgorithms ---------------------------
(***************************************************************************)
(* The block algorithms, what the std::ranges algorithm of the same name   *)
(* does a bool or a key at a time done a block at a time.  A sequence is a *)
(* window of its container's blocks, n positions from first; an answer is  *)
(* counted from first, n where std's is the end.  A set is its container.  *)
(***************************************************************************)
EXTENDS BlockScans, SequencesExt

\* The numbers of a set, lowest first.
upward(s)   == [j \in 1 .. Cardinality(s) |-> CHOOSE p \in s : Cardinality({q \in s : q < p}) = j - 1]
downward(s) == Reverse(upward(s))

(***************************************************************************)
(* Finding a value: an xor turns a search for false into one for true.     *)
(***************************************************************************)
flip_for(value) == IF value THEN zero ELSE ones

matching(b, first, n, k, value) ==
    bit_xor(block_at(b, first + k), flip_for(value)) \cap partial_block_mask(Min({bits_per_block, n - k}))

steps(n) == {k \in 0 .. n - 1 : k % bits_per_block = 0}

hits(b, first, n, value) == {k \in steps(n) : matching(b, first, n, k, value) # zero}

find_value(b, first, n, value) ==
    LET k == Min(hits(b, first, n, value))
    IN  IF hits(b, first, n, value) = {} THEN n
        ELSE k + countr_zero(matching(b, first, n, k, value))

\* Mutation: what lies past the window in its last block is searched too.
find_last_value_unmasked(b, first, n, value) ==
    LET block(k) == bit_xor(block_at(b, first + k), flip_for(value))
        found == {k \in steps(n) : block(k) # zero}
    IN  IF found = {} THEN n ELSE Max(found) + left_bit - countl_zero(block(Max(found)))

find_last_value(b, first, n, value) ==
    LET k == Max(hits(b, first, n, value))
    IN  IF hits(b, first, n, value) = {} THEN n
        ELSE k + left_bit - countl_zero(matching(b, first, n, k, value))

bit_find(b, first, n, value) == find_value(b, first, n, value)

bit_find_last(b, first, n, value) == find_last_value(b, first, n, value)

\* A predicate on bools is what it answers of false and of true.
bit_find_if(b, first, n, on_false, on_true) ==
    IF n < 2
    THEN IF n = 1 /\ (IF BitAt(b, first) THEN on_true ELSE on_false) THEN 0 ELSE n
    ELSE IF on_false # on_true THEN find_value(b, first, n, on_true)
    ELSE IF on_true THEN 0 ELSE n

bit_partition_point(b, first, n) == find_value(b, first, n, FALSE)

bit_is_partitioned(b, first, n) ==
    LET at == find_value(b, first, n, FALSE)
    IN  find_value(b, first + at, n - at, TRUE) = n - at

bit_is_sorted(b, first, n) ==
    LET at == find_value(b, first, n, TRUE)
    IN  find_value(b, first + at, n - at, FALSE) = n - at

whole(b, size, first, n) == first = 0 /\ n = size

count_true(b, size, first, n) ==
    IF whole(b, size, first, n) THEN count_blocks(b) ELSE count_range(b, first, n)

bit_count(b, size, first, n, value) ==
    IF value THEN count_true(b, size, first, n) ELSE n - count_true(b, size, first, n)

bit_any_of(b, size, first, n) ==
    IF whole(b, size, first, n) THEN any(b) ELSE any_range(b, first, n)

bit_none_of(b, size, first, n) ==
    IF whole(b, size, first, n) THEN none(b) ELSE ~any_range(b, first, n)

bit_all_of(b, size, first, n) ==
    IF whole(b, size, first, n) THEN all(b, size) ELSE all_range(b, first, n)

(***************************************************************************)
(* Rewriting a sequence in place; with a subrange where std returns one.   *)
(***************************************************************************)
bit_fill(b, size, first, n, value) ==
    IF whole(b, size, first, n)
    THEN IF value THEN all_set(b, size) ELSE all_reset(b)
    ELSE range_set(b, first, n, value)

\* Mutation: the zeros go in first where the ones still counted lie.
bit_sort_recounted(b, size, first, n) ==
    LET zeros == range_set(b, first, n - count_true(b, size, first, n), FALSE)
        again == count_true(zeros, size, first, n)
    IN  range_set(zeros, first + n - again, again, TRUE)

bit_sort(b, size, first, n) ==
    LET set == count_true(b, size, first, n)
    IN  range_set(range_set(b, first, n - set, FALSE), first + n - set, set, TRUE)

bit_partition(b, size, first, n) ==
    LET set == count_true(b, size, first, n)
    IN  <<range_set(range_set(b, first, set, TRUE), first + set, n - set, FALSE), set>>

\* A shift by the width or more has no effects.
bit_shift_left(b, size, n) ==
    IF n = 0 \/ size <= n THEN b ELSE shifted_down(b, n)

bit_shift_right(b, size, n) ==
    IF n = 0 \/ size <= n THEN b ELSE erase_unused(shifted_up(b, n), size)

bit_rotate(b, size, middle) == rotated(b, size, middle)

bit_reverse(b, size) == end_for_end(b, size)

(***************************************************************************)
(* Writing a window of another's blocks, lowest first: block[k] holds the  *)
(* positions from k of the n written from d.                               *)
(***************************************************************************)
write_up(dst, d, n, block) ==
    FoldLeft(LAMBDA b, k : written_at(b, d + k, block[k], partial_block_mask(Min({bits_per_block, n - k}))),
             dst, upward(steps(n)))

copy_bools(dst, d, src, s, n) == write_up(dst, d, n, [k \in steps(n) |-> block_at(src, s + k)])

\* Mutation: a short block's bits are left at the top.
reverse_copy_bools_high(dst, d, src, s, n) ==
    write_up(dst, d, n, [k \in steps(n) |->
        reversed(block_at(src, s + n - k - Min({bits_per_block, n - k})))])

\* The count read from below position k land at the top, and come down.
reverse_copy_bools(dst, d, src, s, n) ==
    write_up(dst, d, n, [k \in steps(n) |->
        LET count == Min({bits_per_block, n - k})
        IN  shr(reversed(block_at(src, s + n - k - count)), bits_per_block - count)])

bit_copy(dst, d, src, s, n) == copy_bools(dst, d, src, s, n)

bit_move(dst, d, src, s, n) == copy_bools(dst, d, src, s, n)

bit_reverse_copy(dst, d, src, s, n) == reverse_copy_bools(dst, d, src, s, n)

bit_rotate_copy(dst, d, src, s, n, m) ==
    copy_bools(copy_bools(dst, d, src, s + m, n - m), d + n - m, src, s, m)

\* x from i and y from j trade n bools: y takes what was read before x did.
swap_bools(x, i, y, j, n) ==
    FoldLeft(LAMBDA both, k :
                 LET mask   == partial_block_mask(Min({bits_per_block, n - k}))
                     from_x == block_at(both[1], i + k)
                 IN  <<written_at(both[1], i + k, block_at(both[2], j + k), mask),
                       written_at(both[2], j + k, from_x, mask)>>,
             <<x, y>>, upward(steps(n)))

bit_swap_ranges(x, i, n, y, j, m) == swap_bools(x, i, y, j, Min({n, m}))

\* A function of bools as blocks, one for each answer of its truth table.
constant(value) == IF value THEN ones ELSE zero

unary_table(if_false, if_true, x) ==
    (x \cap constant(if_true)) \cup (complement(x) \cap constant(if_false))

binary_table(f, x, y) ==
    UNION {x \cap y \cap constant(f[TRUE, TRUE]),
           x \cap complement(y) \cap constant(f[TRUE, FALSE]),
           complement(x) \cap y \cap constant(f[FALSE, TRUE]),
           complement(x) \cap complement(y) \cap constant(f[FALSE, FALSE])}

bit_transform(dst, d, src, s, n, if_false, if_true) ==
    write_up(dst, d, n, [k \in steps(n) |-> unary_table(if_false, if_true, block_at(src, s + k))])

bit_transform_2(dst, d, x, i, n, y, j, m, f) ==
    write_up(dst, d, Min({n, m}), [k \in steps(Min({n, m})) |->
        binary_table(f, block_at(x, i + k), block_at(y, j + k))])

(***************************************************************************)
(* Walks: the elements in the order they are handed to a function.         *)
(***************************************************************************)
walk_block_up(block, at)   == upward({at + o : o \in block})
walk_block_down(block, at) == downward({at + o : o \in block})

walk_keys_up(b) == FlattenSeq([i \in 1 .. num_blocks(b) |-> walk_block_up(b[i - 1], base(i - 1))])

walk_keys_down(b) ==
    FlattenSeq([i \in 1 .. num_blocks(b) |->
                   walk_block_down(b[num_blocks(b) - i], base(num_blocks(b) - i))])

bools_of(b, first, n, k) ==
    [i \in 1 .. Min({bits_per_block, n - k}) |-> shr(block_at(b, first + k), i - 1) \cap {0} # zero]

walk_bools_up(b, first, n) ==
    FlattenSeq([j \in 1 .. Cardinality(steps(n)) |-> bools_of(b, first, n, base(j - 1))])

walk_bools_down(b, first, n) ==
    FlattenSeq([j \in 1 .. Cardinality(steps(n)) |->
                   Reverse(bools_of(b, first, n, base(Cardinality(steps(n)) - j)))])

bit_for_each_key(b, descends, against) ==
    IF against # descends THEN walk_keys_down(b) ELSE walk_keys_up(b)

bit_for_each_bool(b, first, n, against) ==
    IF against THEN walk_bools_down(b, first, n) ELSE walk_bools_up(b, first, n)

NoKey == "none"

\* The walk of the keys, left at the first that is accepted.
find_key_if(b, accepted, descends) ==
    LET keys == bit_for_each_key(b, descends, FALSE)
    IN  IF Range(keys) \cap accepted = {} THEN NoKey
        ELSE keys[Min({j \in DOMAIN keys : keys[j] \in accepted})]

(***************************************************************************)
(* The n-th key: whole blocks passed over by popcount, the last selected   *)
(* in.  An iterator is its position, the end the container's size.         *)
(***************************************************************************)
bit_select(block, n) == CHOOSE o \in block : Cardinality({q \in block : q < o}) = n

\* Mutation: what lies below the range in its first block is counted.
masked_block_below(b, i, first, last) ==
    IF i = index(last - 1) THEN b[i] \cap partial_block_mask(offset(last - 1) + 1) ELSE b[i]

masked_block(b, i, first, last) ==
    LET above_first == IF i = index(first) THEN b[i] \ partial_block_mask(offset(first)) ELSE b[i]
    IN  IF i = index(last - 1)
        THEN above_first \cap partial_block_mask(offset(last - 1) + 1) ELSE above_first

\* n less the positions passed, or where the n-th of them is.
selecting(b, first, last, found, i, downwards) ==
    LET block == masked_block(b, i, first, last)
        at    == IF downwards THEN popcount(block) - found.missing ELSE found.missing - 1
    IN  IF found.missing = 0 THEN found
        ELSE IF found.missing <= popcount(block)
             THEN [position |-> base(i) + bit_select(block, at), missing |-> 0]
             ELSE [found EXCEPT !.missing = @ - popcount(block)]

select_up(b, first, last, n) ==
    LET blocks == IF first = last THEN {} ELSE index(first) .. index(last - 1)
    IN  FoldLeft(LAMBDA found, i : selecting(b, first, last, found, i, FALSE),
                 [position |-> last, missing |-> n], upward(blocks))

select_down(b, first, last, n) ==
    LET blocks == IF first = last THEN {} ELSE index(first) .. index(last - 1)
    IN  FoldLeft(LAMBDA found, i : selecting(b, first, last, found, i, TRUE),
                 [position |-> first, missing |-> n], downward(blocks))

\* An iterator at p moved n keys, not past bound; and the steps it fell short.
advance_keys(b, size, p, n, bound, descends) ==
    LET m      == IF n < 0 THEN -n ELSE n
        found  == IF (0 < n) # descends
                  THEN select_up(b, IF p = size THEN 0 ELSE p + 1, bound, m)
                  ELSE select_down(b, IF bound = size THEN 0 ELSE bound + 1, p, m)
        rest   == found.missing - 1
    IN  IF n = 0 \/ p = bound THEN <<p, n>>
        ELSE IF found.missing = 0 THEN <<found.position, 0>>
        ELSE <<bound, IF n < 0 THEN -rest ELSE rest>>

first_key_position(b, size, descends) ==
    IF descends THEN total_find_prev(b, size, size) ELSE find_first(b, size)

\* bit_advance(it, n), unbounded, bounds itself by the end it moves towards.
bit_advance(b, size, p, n, descends) ==
    advance_keys(b, size, p, n, IF 0 < n THEN size ELSE first_key_position(b, size, descends), descends)

keys_between(b, size, from, until, descends) ==
    IF ~descends THEN count_range(b, from, until - from)
    ELSE IF from = size THEN 0
    ELSE LET lo == IF until = size THEN 0 ELSE until + 1
         IN  count_range(b, lo, from + 1 - lo)

(***************************************************************************)
(* Two sets.                                                               *)
(***************************************************************************)
shared(x, y) == 0 .. Min({num_blocks(x), num_blocks(y)}) - 1

\* Mutation: the blocks only the second has are not looked at.
bit_includes_shared(x, y) == \A i \in shared(x, y) : y[i] \cap complement(x[i]) = zero

bit_includes(x, y) ==
    /\ \A i \in shared(x, y) : y[i] \cap complement(x[i]) = zero
    /\ ~any_block_set(y, num_blocks(x), num_blocks(y))

bit_intersects(x, y) == \E i \in shared(x, y) : x[i] \cap y[i] # zero

bit_disjoint(x, y) == ~bit_intersects(x, y)

=============================================================================
