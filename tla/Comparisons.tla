---------------------------- MODULE Comparisons -----------------------------
(***************************************************************************)
(* Equality and the orders of the readings, as the source computes them    *)
(* over the blocks of two storages: b of width m and c of width n.  Where  *)
(* the two have one type, block against block, the blocks one lacks read   *)
(* as zero; else by words of word_digits, put together from whichever      *)
(* blocks hold them.                                                       *)
(***************************************************************************)
EXTENDS BlockScans

CONSTANT word_digits    \* the digits of a word two storages are compared in

ASSUME WordDigitsAssumption ==
    word_digits \in Nat \ {0} /\ word_digits % bits_per_block = 0

(***************************************************************************)
(* Blocks.                                                                 *)
(***************************************************************************)
most_blocks(b, c)  == Max({num_blocks(b), num_blocks(c)})
least_blocks(b, c) == Min({num_blocks(b), num_blocks(c)})

\* Mutation: what the wider set holds past the other's blocks is not asked.
set_equal_shared(b, c) == \A i \in 0 .. least_blocks(b, c) - 1 : b[i] = c[i]

set_equal(b, c) ==
    /\ \A i \in 0 .. least_blocks(b, c) - 1 : b[i] = c[i]
    /\ ~any_block_set(b, least_blocks(b, c), num_blocks(b))
    /\ ~any_block_set(c, least_blocks(b, c), num_blocks(c))

\* The masks as unsigned numbers, from the highest block.
numeric_three_way(b, c) ==
    LET differ == {i \in 0 .. most_blocks(b, c) - 1 : padded_block(b, i) # padded_block(c, i)}
        at     == Max(differ)
    IN  IF differ = {} THEN "equal"
        ELSE IF value_of(padded_block(b, at)) < value_of(padded_block(c, at))
        THEN "less" ELSE "greater"

\* Mutation: the lower key wins, whatever the other set still holds.
at_first_difference_lower(reading, b_holds, b_above, c_above) ==
    IF b_holds = (reading = "sequence") THEN "greater" ELSE "less"

\* The order where two values first differ; above says whether each holds
\* a position past it.
at_first_difference(reading, b_holds, b_above, c_above) ==
    CASE reading = "sequence" -> IF b_holds THEN "greater" ELSE "less"
      [] reading = "set" /\ b_holds  -> IF c_above THEN "less" ELSE "greater"
      [] reading = "set" /\ ~b_holds -> IF b_above THEN "greater" ELSE "less"

padded_three_way(reading, b, m, c, n) ==
    LET k    == most_blocks(b, c)
        i    == padded_first_difference(b, c, k)
        low  == countr_zero(bit_xor(padded_block(b, i), padded_block(c, i)))
    IN  IF i = k
        THEN IF reading = "set" THEN "equal" ELSE IF m < n THEN "less" ELSE "greater"
        ELSE at_first_difference(reading, low \in padded_block(b, i),
                                 padded_any_above(b, i, low), padded_any_above(c, i, low))

three_way(reading, b, m, c, n) ==
    LET d   == first_difference(b, c)
        low == countr_zero(d[2])
    IN  IF m # n THEN padded_three_way(reading, b, m, c, n)
        ELSE IF d[2] = zero THEN "equal"
        ELSE at_first_difference(reading, low \in b[d[1]],
                                 any_above(b, d[1], low), any_above(c, d[1], low))

\* A static width of one: false before true, in either reading.
three_way_1(b, c) ==
    CASE test(b, 0) = test(c, 0) -> "equal"
      [] test(b, 0) # test(c, 0) -> IF test(c, 0) THEN "less" ELSE "greater"

\* Mutation: a difference in the shorter's padding is answered as it stands.
first_mismatch_in_padding(b, c, n) ==
    LET d == first_difference(b, c)
    IN  IF n = 0 \/ d[2] = zero THEN n ELSE base(d[1]) + countr_zero(d[2])

\* Of the first n positions, those of b, and no more than c has.
first_mismatch(b, c, n) ==
    LET d == first_difference(b, c)
    IN  IF n = 0 \/ d[2] = zero THEN n
        ELSE Min({base(d[1]) + countr_zero(d[2]), n})

(***************************************************************************)
(* Words, [n, n + word_digits) cut off at last.                            *)
(***************************************************************************)
word_at(b, n, last) ==
    LET count == Min({word_digits, last - n})
        parts == {j \in 0 .. count - 1 : j % bits_per_block = 0}
    IN  {o \in 0 .. count - 1 : \E j \in parts : o - j \in block_at(b, n + j)}

word_starts(n) == {k \in 0 .. n - 1 : k % word_digits = 0}

\* The first word, of those that start at s, where two storages differ.
words_differ(b, m, c, n, s) == {k \in s : word_at(b, k, m) # word_at(c, k, n)}

\* The lowest position of the first word that differs, given its index.
difference_in(k, bw, cw) == k + Min((bw \ cw) \cup (cw \ bw))

most(m, n) == Max({m, n})

equal_keys(b, m, c, n) == words_differ(b, m, c, n, word_starts(most(m, n))) = {}

\* Windows of len positions, from first in b and from second in c.
windows_differ(b, first, c, second, len) ==
    {k \in word_starts(len) :
        word_at(b, first + k, first + len) # word_at(c, second + k, second + len)}

equal_bools(b, first, c, second, len) == windows_differ(b, first, c, second, len) = {}

three_way_bools(b, first, m, c, second, n) ==
    LET len    == Min({m, n})
        differ == windows_differ(b, first, c, second, len)
        k      == Min(differ)
        bw     == word_at(b, first + k, first + len)
        cw     == word_at(c, second + k, second + len)
    IN  CASE differ # {} -> IF difference_in(0, bw, cw) \in bw THEN "greater" ELSE "less"
          [] differ = {} -> IF m < n THEN "less" ELSE IF m > n THEN "greater" ELSE "equal"

holds_above(b, m, p) == p + 1 < m /\ any_range(b, p + 1, m - p - 1)

word_value(w) == MapThenSumSet(LAMBDA o : 2 ^ o, w)

\* Mutation: the width rounded down to whole words.
words_down(m, n) == most(m, n) \div word_digits

words(m, n) == (most(m, n) + word_digits - 1) \div word_digits

numeric_words_three_way(b, m, c, n) ==
    LET differ == words_differ(b, m, c, n, {k * word_digits : k \in 0 .. words(m, n) - 1})
        at     == Max(differ)
    IN  IF differ = {} THEN "equal"
        ELSE IF word_value(word_at(b, at, m)) < word_value(word_at(c, at, n))
        THEN "less" ELSE "greater"

ascending_words_three_way(b, m, c, n) ==
    LET differ == words_differ(b, m, c, n, word_starts(most(m, n)))
        k      == Min(differ)
        bw     == word_at(b, k, m)
        p      == difference_in(k, bw, word_at(c, k, n))
    IN  IF differ = {} THEN "equal"
        ELSE at_first_difference("set", p - k \in bw, holds_above(b, m, p), holds_above(c, n, p))

=============================================================================
