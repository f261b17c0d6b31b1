---------------------------- MODULE MCBlockScans ----------------------------
(***************************************************************************)
(* The queries against their meaning on the positions, in every state of   *)
(* containers grown, shrunk and flipped a bit at a time: every width up to *)
(* the capacity and every value of it.  Where the blocks are one, or two,  *)
(* the arms compiled for that many must agree too.                         *)
(***************************************************************************)
EXTENDS BitBlockContainer, BlockScans

View == contents

NextGrown ==
    \E x \in Obj :
        \/ \E value \in BOOLEAN : push_back(x, value)
        \/ pop_back(x)
        \/ \E n \in Width : flip(x, n)

SpecGrown == Init /\ [][NextGrown]_vars

(***************************************************************************)
(* The reference: positions and nothing else.                              *)
(***************************************************************************)
Ones(x) == {p \in 0 .. m_size[x] - 1 : Bit(x, p)}

LeastFrom(x, n)  == IF \E p \in Ones(x) : p >= n THEN Min({p \in Ones(x) : p >= n}) ELSE m_size[x]
GreatestBelow(x, n) == IF \E p \in Ones(x) : p < n THEN Max({p \in Ones(x) : p < n}) ELSE m_size[x]

Blocks1(x) == num_blocks(m_blocks[x]) = 1
Blocks2(x) == num_blocks(m_blocks[x]) = 2
Whole(x)   == num_bits(m_blocks[x]) = m_size[x]

\* find_first, and the inclusive and exclusive scans upwards, name the least
\* set position from theirs on, and size() where there is none, in every arm.
ScansUpExact ==
    \A x \in Obj : LET b == m_blocks[x] size == m_size[x] IN
        /\ find_first(b, size) = LeastFrom(x, 0)
        /\ Blocks1(x) /\ Whole(x) => find_first_1(b) = LeastFrom(x, 0)
        /\ Blocks2(x) /\ Whole(x) => find_first_2(b) = LeastFrom(x, 0)
        /\ \A n \in 0 .. size :
            /\ inclusive_find_next(b, size, n) = LeastFrom(x, n)
            /\ Blocks1(x) => inclusive_find_next_1(b, size, n) = LeastFrom(x, n)
            /\ Blocks2(x) => inclusive_find_next_2(b, size, n) = LeastFrom(x, n)
        /\ \A n \in 0 .. size - 1 :
            /\ exclusive_find_next(b, size, n) = LeastFrom(x, n + 1)
            /\ Blocks1(x) => exclusive_find_next_1(b, size, n) = LeastFrom(x, n + 1)
            /\ Blocks2(x) => exclusive_find_next_2(b, size, n) = LeastFrom(x, n + 1)

\* The scans downwards and the two ends name the greatest, or least, set
\* position, in every arm, whenever their precondition holds.
ScansDownExact ==
    \A x \in Obj : LET b == m_blocks[x] size == m_size[x] IN
        /\ \A n \in 0 .. size :
            /\ total_find_prev(b, size, n) = GreatestBelow(x, n)
            /\ Blocks2(x) => total_find_prev_2(b, size, n) = GreatestBelow(x, n)
            /\ (\E p \in Ones(x) : p < n) =>
                /\ exclusive_find_prev(b, n) = GreatestBelow(x, n)
                /\ Blocks1(x) => exclusive_find_prev_1(b, n) = GreatestBelow(x, n)
                /\ Blocks2(x) => exclusive_find_prev_2(b, n) = GreatestBelow(x, n)
        /\ Ones(x) # {} =>
            /\ find_front(b) = Min(Ones(x)) /\ find_back(b) = Max(Ones(x))
            /\ Blocks1(x) => find_front_1(b) = Min(Ones(x)) /\ find_back_1(b) = Max(Ones(x))
            /\ Blocks2(x) => find_front_2(b) = Min(Ones(x)) /\ find_back_2(b) = Max(Ones(x))

\* Every scan, in either direction and in every arm, finds the nearest set
\* position, and size() upwards where there is none.
ScansExact == ScansUpExact /\ ScansDownExact

\* The ranged reductions, by windows that may straddle blocks and stop short,
\* answer what their range of positions says; and so do the whole ones.
ReductionsExact ==
    \A x \in Obj : LET b == m_blocks[x] size == m_size[x] IN
        /\ \A n \in 0 .. size : \A len \in 0 .. size - n :
            LET range == {p \in Ones(x) : n <= p /\ p < n + len} IN
            /\ count_range(b, n, len) = Cardinality(range)
            /\ any_range(b, n, len) <=> range # {}
            /\ all_range(b, n, len) <=> Cardinality(range) = len
        /\ all(b, size) <=> Cardinality(Ones(x)) = size
        /\ all_folded(b, size) <=> Cardinality(Ones(x)) = size
        /\ none(b) <=> Ones(x) = {}
        /\ \A n \in 0 .. size - 1 : test(b, n) <=> n \in Ones(x)

\* A block read at any position holds that window of the positions, clear past
\* the width; the arithmetic of words is that of sets of offsets; and the
\* one- and two-block arms of the writers write what the general arm writes.
WordsExact ==
    \A x \in Obj : LET b == m_blocks[x] size == m_size[x] IN
        /\ \A n \in 0 .. size - 1 : block_at(b, n) = {o \in Offset : n + o \in Ones(x)}
        /\ \A i \in DOMAIN b :
            /\ value_of(b[i]) \in 0 .. Modulus - 1 /\ block_of(value_of(b[i])) = b[i]
            /\ reversed_by_halves(b[i]) = reversed(b[i])
            /\ b[i] # zero => /\ drop_lowest_word(b[i]) = drop_lowest(b[i])
                              /\ drop_highest_word(b[i]) = drop_highest(b[i])
        /\ \A count \in 1 .. bits_per_block :
               partial_block_mask_word(count) = partial_block_mask(count)
        /\ Blocks1(x) => /\ end_for_end_1(b, size) = end_for_end(b, size)
                         /\ \A n \in 0 .. size - 1 :
                                rotated_down_1(b, size, n) = rotated_down(b, size, n)
        /\ Blocks2(x) /\ any(b) =>
            /\ range_extreme_dropped_2(b, TRUE)  = front_dropped(b)
            /\ range_extreme_dropped_2(b, FALSE) = back_dropped(b)

=============================================================================
