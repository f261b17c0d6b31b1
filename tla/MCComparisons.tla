--------------------------- MODULE MCComparisons ----------------------------
(***************************************************************************)
(* The comparisons against the sequences they compare, for every pair of   *)
(* widths up to the capacity and every pair of values: of containers grown *)
(* and shrunk, written a bit and a block at a time, and combined.          *)
(***************************************************************************)
EXTENDS BitBlockContainer, Comparisons, Sequences

S == INSTANCE SequencesExt

View == contents

NextGrown ==
    \/ \E x \in Obj, value \in BOOLEAN : push_back(x, value)
    \/ \E x \in Obj : pop_back(x)
    \/ \E x \in Obj, n \in Width : flip(x, n)
    \/ \E x \in Obj, n \in Width, value \in Block : write_block_at(x, n, value, ones)
    \/ \E x, y \in Obj, f \in Kernel : transform(x, y, f)

SpecGrown == Init /\ [][NextGrown]_vars

(***************************************************************************)
(* The reference: lexicographic comparison of two sequences, given which   *)
(* element is less: for keys it is the lower one, descending sets too.     *)
(***************************************************************************)
Lex(s, t, Less(_, _)) ==
    LET less(u, v) == \E i \in 1 .. Len(v) :
            /\ \A j \in 1 .. i - 1 : j <= Len(u) /\ u[j] = v[j]
            /\ i <= Len(u) => Less(u[i], v[i])
    IN  IF less(s, t) THEN "less" ELSE IF less(t, s) THEN "greater" ELSE "equal"

Ones(x) == {p \in 0 .. m_size[x] - 1 : Bit(x, p)}

Ascending(x)  == S!SetToSortSeq(Ones(x), LAMBDA a, b : a < b)
Descending(x) == S!SetToSortSeq(Ones(x), LAMBDA a, b : b < a)

\* The bools of [first, first + len).
Bools(x, first, len) == [i \in 1 .. len |-> Bit(x, first + i - 1)]

KeyOrder(x, y)     == Lex(Ascending(x), Ascending(y), LAMBDA a, b : a < b)
ReverseOrder(x, y) == Lex(Descending(x), Descending(y), LAMBDA a, b : a < b)
BoolOrder(s, t)    == Lex(s, t, LAMBDA a, b : ~a /\ b)

Blocks2(x) == num_blocks(m_blocks[x]) = 2

\* What the comparisons rest on: where two storages first differ, and whether
\* one holds anything above a position, at one width and at two.
DifferencesExact ==
    \A x, y \in Obj :
        LET b == m_blocks[x]  c == m_blocks[y]
            differ == (Ones(x) \ Ones(y)) \cup (Ones(y) \ Ones(x))
            first  == IF differ = {} THEN most_blocks(b, c) ELSE index(Min(differ))
        IN  /\ m_size[x] = m_size[y] /\ differ = {} => first_difference(b, c)[2] = zero
            /\ m_size[x] = m_size[y] /\ differ # {} =>
                LET d == first_difference(b, c)
                IN  /\ base(d[1]) + countr_zero(d[2]) = Min(differ)
                    /\ Blocks2(x) => first_difference_2(b, c) = d
            /\ padded_first_difference(b, c, most_blocks(b, c)) = first
            /\ \A p \in 0 .. m_size[y] - 1 :
                /\ p \notin Ones(x) =>
                    (padded_any_above(b, index(p), offset(p)) <=> \E q \in Ones(x) : q > p)
                /\ p < m_size[x] /\ p \notin Ones(x) =>
                    /\ any_above(b, index(p), offset(p)) <=> \E q \in Ones(x) : q > p
                    /\ Blocks2(x) => (any_above_2(b, index(p), offset(p)) <=> \E q \in Ones(x) : q > p)

\* In blocks of two a difference in the padding can only lie at the width, as
\* if none were found; in blocks of three it may lie past it, so the first
\* mismatch is also asked of every two values of up to five bits in those.
Threes == INSTANCE Comparisons WITH bits_per_block <- 3, word_digits <- 3

InThrees(width, s) ==
    [i \in 0 .. Threes!blocks_for(width) - 1 |-> {o \in 0 .. 2 : 3 * i + o \in s}]

PaddingPassedOver ==
    \A n \in 0 .. 5 : \A m \in 0 .. n : \A s \in SUBSET (0 .. m - 1), t \in SUBSET (0 .. n - 1) :
        LET differ == {p \in 0 .. m - 1 : (p \in s) # (p \in t)}
        IN  Threes!first_mismatch(InThrees(m, s), InThrees(n, t), m)
                = IF differ = {} THEN m ELSE Min(differ)

\* Every equality, between any two widths, holds exactly where the keys, or
\* the bools, agree one for one, and a mismatch is the first of them.
EqualityExact ==
    PaddingPassedOver /\ \A x, y \in Obj :
        LET b == m_blocks[x]  m == m_size[x]
            c == m_blocks[y]  n == m_size[y]
            differ == {p \in 0 .. m - 1 : Bit(x, p) # Bit(y, p)}
        IN  /\ set_equal(b, c) <=> Ones(x) = Ones(y)
            /\ equal_keys(b, m, c, n) <=> Ones(x) = Ones(y)
            /\ m <= n => first_mismatch(b, c, m) = IF differ = {} THEN m ELSE Min(differ)
            /\ \A first \in 0 .. m, second \in 0 .. n :
               \A len \in 0 .. Min({m - first, n - second}) :
                    equal_bools(b, first, c, second, len)
                        <=> Bools(x, first, len) = Bools(y, second, len)

\* The orders of sets are the lexicographic ones of their keys, ascending or
\* descending, and that of sequences the one of their bools, across any two
\* widths and in either way of computing them.
OrdersExact ==
    \A x, y \in Obj :
        LET b == m_blocks[x]  m == m_size[x]
            c == m_blocks[y]  n == m_size[y]
        IN  /\ three_way("set", b, m, c, n) = KeyOrder(x, y)
            /\ ascending_words_three_way(b, m, c, n) = KeyOrder(x, y)
            /\ numeric_three_way(b, c) = ReverseOrder(x, y)
            /\ numeric_words_three_way(b, m, c, n) = ReverseOrder(x, y)
            /\ three_way("sequence", b, m, c, n) = BoolOrder(Bools(x, 0, m), Bools(y, 0, n))
            /\ m = 1 /\ n = 1 => three_way_1(b, c) = KeyOrder(x, y)
            /\ \A first \in 0 .. m, second \in 0 .. n :
                  three_way_bools(b, first, m - first, c, second, n - second)
                    = BoolOrder(Bools(x, first, m - first), Bools(y, second, n - second))

=============================================================================
