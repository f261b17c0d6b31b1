------------------------------- MODULE MCPairs -------------------------------
(***************************************************************************)
(* The algorithms over two containers and the passes of the selections,    *)
(* against what they mean on the positions: for the pairs of values that   *)
(* MCComparisons reaches, and for blocks wide enough that a stride has     *)
(* several phases in them, over every start, size and stride.              *)
(***************************************************************************)
EXTENDS MCComparisons, BlockAlgorithms, Selections

\* dst as it is rebuilt when k of its n bools from d are read from New.
Laid(dst, size, b, d, n, New(_)) ==
    \A p \in 0 .. size - 1 :
        BitAt(b, p) = IF p \in d .. d + n - 1 THEN New(p - d) ELSE BitAt(dst, p)

BoolOps == {"and", "xor", "less", "second"}

Answer(op, u, v) ==
    CASE op = "and" -> u /\ v [] op = "xor" -> u # v [] op = "less" -> ~u /\ v [] op = "second" -> v

\* Its truth table.
Table(op) == [pair \in BOOLEAN \X BOOLEAN |-> Answer(op, pair[1], pair[2])]

\* What the algorithms that write the n bools of c from s into those of b from d
\* leave: the copies and the map, the copies turned, and the map of two.
CopiesLaid(b, size, c, other, d, s, n) ==
    LET exchanged == swap_bools(b, d, c, s, n)
    IN  /\ Laid(b, size, bit_copy(b, d, c, s, n), d, n, LAMBDA k : BitAt(c, s + k))
        /\ Laid(b, size, bit_reverse_copy(b, d, c, s, n), d, n, LAMBDA k : BitAt(c, s + n - 1 - k))
        /\ Laid(b, size, exchanged[1], d, n, LAMBDA k : BitAt(c, s + k))
        /\ Laid(c, other, exchanged[2], s, n, LAMBDA k : BitAt(b, d + k))
        /\ \A if_false, if_true \in BOOLEAN :
              Laid(b, size, bit_transform(b, d, c, s, n, if_false, if_true), d, n,
                   LAMBDA k : IF BitAt(c, s + k) THEN if_true ELSE if_false)

RotationsLaid(b, size, c, d, s, n) ==
    \A turn \in 0 .. n :
        Laid(b, size, bit_rotate_copy(b, d, c, s, n, turn), d, n,
             LAMBDA k : BitAt(c, s + ((k + turn) % n)))

AnswersLaid(b, size, c, d, s, n) ==
    \A op \in BoolOps :
        Laid(b, size, bit_transform_2(b, d, b, d, size - d, c, s, n, Table(op)),
             d, Min({size - d, n}), LAMBDA k : Answer(op, BitAt(b, d + k), BitAt(c, s + k)))

\* The algorithms that write one container from another, at any two places in
\* their blocks and of any length, write the n bools that std's would and no
\* other; the set algorithms answer what the keys do, whichever set is wider.
CopiesExact ==
    \A x, y \in Obj : x # y =>
        LET b == m_blocks[x]  m == m_size[x]
            c == m_blocks[y]  n == m_size[y]
        IN  /\ \A d \in 0 .. Min({m, 3}), s \in 0 .. Min({n, 3}) : \A len \in 0 .. Min({m - d, n - s}) :
                /\ CopiesLaid(b, m, c, n, d, s, len)
                /\ d + s < 2 => RotationsLaid(b, m, c, d, s, len)
                /\ d < 2 => AnswersLaid(b, m, c, d, s, len)
            /\ bit_includes(b, c) <=> Ones(y) \subseteq Ones(x)
            /\ bit_intersects(b, c) <=> Ones(x) \cap Ones(y) # {}

\* bit_compress packs the masked keys and bit_expand deposits, between any two
\* widths, through the bits that are carried from one block into the next.
PermutationsExact ==
    \A x, y \in Obj :
        LET b == m_blocks[x]  m == m_size[x]
            c == m_blocks[y]  n == m_size[y]
            Rank(p) == Cardinality({q \in Ones(y) : q < p})
        IN  /\ Positions(bit_compress(b, c, n)) = {Rank(p) : p \in Ones(x) \cap Ones(y)}
            /\ Positions(bit_expand(b, c, n)) = {p \in Ones(y) : Rank(p) \in Ones(x)}
            /\ m = n /\ Cardinality(Ones(y)) <= 3 =>
                  compress_low(b, c, 3) = {Rank(p) : p \in Ones(x) \cap Ones(y)}
            /\ Positions(assign_low(Ones(x), 4, n)) = {p \in Ones(x) : p < Min({n, 4})}

=============================================================================
