---------------------------- MODULE MCAlgorithms -----------------------------
(***************************************************************************)
(* The block algorithms over one container, against what std's algorithms  *)
(* of the same names answer and leave on the positions: in every state     *)
(* MCBlockScans reaches, over windows that start in each place of a block. *)
(***************************************************************************)
EXTENDS MCBlockScans, BlockAlgorithms, Selections

\* Two blocks and a bit of a third are every case of a window and of a walk.
Asked(x) == m_size[x] <= 2 * bits_per_block + 1

\* A window starts at a block's foot, inside one or at its top.
Starts == {0, 1, 3, 6}

Window(size) == {w \in Starts \X (0 .. size) : w[1] + w[2] <= size}

\* The elements of a window that have a value, by their distance from first.
Where(x, first, n, value) == {k \in 0 .. n - 1 : Bit(x, first + k) = value}

FirstOf(s, n) == IF s = {} THEN n ELSE Min(s)
LastOf(s, n)  == IF s = {} THEN n ELSE Max(s)

\* What the bools of b are when the window's alone are given anew.
Rewritten(x, b, first, n, New(_)) ==
    \A p \in 0 .. m_size[x] - 1 :
        BitAt(b, p) = IF p \in first .. first + n - 1 THEN New(p - first) ELSE Bit(x, p)

\* Every search and count over a window answers what std's algorithm does of
\* its bools, and a search for false too, although the bits past a width are
\* clear.
SearchesOf(x, first, n) ==
    LET b == m_blocks[x]  size == m_size[x]
        ones_at == Where(x, first, n, TRUE)  zeros_at == Where(x, first, n, FALSE)
    IN  /\ bit_find(b, first, n, TRUE) = FirstOf(ones_at, n)
        /\ bit_find_last(b, first, n, TRUE) = LastOf(ones_at, n)
        /\ bit_find_last(b, first, n, FALSE) = LastOf(zeros_at, n)
        /\ bit_partition_point(b, first, n) = FirstOf(zeros_at, n)
        /\ bit_is_partitioned(b, first, n) <=> \A k \in ones_at, l \in zeros_at : k < l
        /\ bit_is_sorted(b, first, n) <=> \A k \in ones_at, l \in zeros_at : l < k
        /\ \A on_false, on_true \in BOOLEAN :
              bit_find_if(b, first, n, on_false, on_true)
                = FirstOf((IF on_true THEN ones_at ELSE {}) \cup (IF on_false THEN zeros_at ELSE {}), n)
        /\ \A value \in BOOLEAN :
              bit_count(b, size, first, n, value) = Cardinality(Where(x, first, n, value))
        /\ bit_any_of(b, size, first, n) <=> ones_at # {}
        /\ bit_none_of(b, size, first, n) <=> ones_at = {}
        /\ bit_all_of(b, size, first, n) <=> zeros_at = {}

\* Every search and count answers what std's algorithm does, the last window
\* past the end of the storage included.
SearchesExact ==
    \A x \in {x \in Obj : Asked(x)} : \A w \in Window(m_size[x]) : SearchesOf(x, w[1], w[2])

\* Every algorithm that rewrites a window leaves its bools as std's does and
\* every bool outside it alone.
RewritesOf(x, first, n) ==
    LET b == m_blocks[x]  size == m_size[x]
        held  == Cardinality(Where(x, first, n, TRUE))
        parts == bit_partition(b, size, first, n)
    IN  /\ Rewritten(x, bit_sort(b, size, first, n), first, n, LAMBDA k : n - held <= k)
        /\ Rewritten(x, parts[1], first, n, LAMBDA k : k < held) /\ parts[2] = held
        /\ TailClear(parts[1], size)
        /\ \A value \in BOOLEAN :
            LET filled == bit_fill(b, size, first, n, value)
            IN  Rewritten(x, filled, first, n, LAMBDA k : value) /\ TailClear(filled, size)

\* Those that take a whole container leave its bools as std's does, and its
\* bits past the width clear.
ShiftsOf(x, n) ==
    LET b == m_blocks[x]  size == m_size[x]
        left == bit_shift_left(b, size, n)  right == bit_shift_right(b, size, n)
    IN  /\ TailClear(left, size) /\ TailClear(right, size)
        /\ Rewritten(x, left, 0, size, LAMBDA k :
                IF n < size THEN k + n < size /\ Bit(x, k + n) ELSE Bit(x, k))
        /\ Rewritten(x, right, 0, size, LAMBDA k :
                IF n < size THEN n <= k /\ Bit(x, k - n) ELSE Bit(x, k))

TurnsOf(x, middle) ==
    LET b == m_blocks[x]  size == m_size[x]
        rotated_by == bit_rotate(b, size, middle)  turned == bit_reverse(b, size)
    IN  /\ TailClear(rotated_by, size) /\ TailClear(turned, size)
        /\ Rewritten(x, rotated_by, 0, size, LAMBDA k : Bit(x, (k + middle) % size))
        /\ Rewritten(x, turned, 0, size, LAMBDA k : Bit(x, size - 1 - k))

\* Every algorithm that rewrites in place leaves what std's does where it is to,
\* and no other bit changed.
RewritesExact ==
    \A x \in {x \in Obj : Asked(x)} :
        /\ \A w \in Window(m_size[x]) : RewritesOf(x, w[1], w[2])
        /\ \A n \in 0 .. m_size[x] + 1 : ShiftsOf(x, n)
        /\ \A middle \in 0 .. m_size[x] : TurnsOf(x, middle)

\* An iterator of a set as a place in its keys in order, the end past the last.
KeysOf(x, descends) ==
    [i \in 1 .. Cardinality(Ones(x)) |->
        CHOOSE p \in Ones(x) : Cardinality({q \in Ones(x) : q # p /\ (q < p) # descends}) = i - 1]

Place(keys, size) == [i \in 1 .. Len(keys) + 1 |-> IF i <= Len(keys) THEN keys[i] ELSE size]

\* The walks hand over each element once and in order, and every jump over
\* whole blocks lands where as many single steps would, in a set of either
\* order, from any key or the end to any bound; what is left is told.
WalksExact ==
    \A x \in {x \in Obj : Asked(x)} : LET b == m_blocks[x] size == m_size[x] IN
        /\ \A w \in Window(size) :
            LET bools == [k \in 1 .. w[2] |-> Bit(x, w[1] + k - 1)]
            IN  /\ bit_for_each_bool(b, w[1], w[2], FALSE) = bools
                /\ bit_for_each_bool(b, w[1], w[2], TRUE) = Reverse(bools)
        /\ \A descends \in BOOLEAN :
            LET keys == KeysOf(x, descends)  at == Place(keys, size)  last == Len(keys) + 1 IN
            /\ bit_for_each_key(b, descends, FALSE) = keys
            /\ bit_for_each_key(b, descends, TRUE) = Reverse(keys)
            /\ first_key_position(b, size, descends) = at[1]
            /\ \A accepted \in {{p \in 0 .. size : p % 3 = r} : r \in 0 .. 2} :
                  find_key_if(b, accepted, descends)
                    = IF Range(keys) \cap accepted = {} THEN NoKey
                      ELSE CHOOSE k \in Range(keys) \cap accepted :
                               \A q \in Range(keys) \cap accepted : q = k \/ (k < q) # descends
            /\ \A i, j \in 1 .. last :
                /\ i <= j => keys_between(b, size, at[i], at[j], descends) = j - i
                /\ bit_advance(b, size, at[i], j - i, descends) = <<at[j], 0>>
                /\ \A more \in {1, 3} :
                    LET n == IF i <= j THEN j - i + more ELSE j - i - more
                        rest == IF i <= j THEN more ELSE -more
                    IN  /\ advance_keys(b, size, at[i], n, at[j], descends) = <<at[j], rest>>
                        /\ i # j => advance_keys(b, size, at[i], IF i < j THEN 1 ELSE -1, at[j], descends)
                                        = <<at[IF i < j THEN i + 1 ELSE i - 1], 0>>

(***************************************************************************)
(* Selections, of positions in three blocks.                               *)
(***************************************************************************)
Laid(s) == [i \in 0 .. 2 |-> {o \in Offset : base(i) + o \in s}]

\* Every slice whose stride is below a block: all its positions, no other.
StridesMasked ==
    \A stride \in 2 .. left_bit, start \in 0 .. 5, size \in 1 .. 24 :
        LET masks == slice_masks(start, size, stride)
        IN  UNION {{base(masks[i][1]) + o : o \in masks[i][2]} : i \in DOMAIN masks}
                = {start + k * stride : k \in 0 .. size - 1}

\* The positions of a slice of twelve, by a run, by masks or one at a time.
Slices ==
    {[kind |-> "slice", start |-> start, size |-> size, stride |-> stride] :
        start \in 0 .. 11, size \in 1 .. 12, stride \in {1, 2, 3, 5}}

Nth(s, k) == s.start + k * s.stride

Fitting == {s \in Slices : Nth(s, s.size - 1) <= 11}

Samples == {{}, 0 .. 11, {0, 3, 4, 7, 11}, {1, 2, 5, 8, 9, 10}}

Combined(f, d, e) ==
    CASE f = "assign" -> e [] f = "and" -> d /\ e [] f = "or" -> d \/ e [] f = "xor" -> d # e

PassesExact ==
    \A s \in Fitting : \A src \in Samples, dst \in Samples :
        LET selected == {Nth(s, k) : k \in 0 .. s.size - 1}
        IN  /\ \A p \in 0 .. s.size - 1 :
                  BitAt(gather(s, Laid(src), Laid(dst)), p) <=> Nth(s, p) \in src
            /\ \A f \in Combiner : \A p \in 0 .. 11 :
                LET laid   == BitAt(expand(s, Laid(src), Laid(dst), f), p)
                    filled == BitAt(fill(s, 3 \in src, Laid(dst), f), p)
                    k      == (p - s.start) \div s.stride
                IN  IF p \in selected
                    THEN /\ laid = Combined(f, p \in dst, k \in src)
                         /\ filled = Combined(f, p \in dst, 3 \in src)
                    ELSE laid = (p \in dst) /\ filled = (p \in dst)

\* Row-major order: the last subscript steps fastest.
RowMajor(start, lengths, strides) ==
    LET inner(d) == FoldRight(LAMBDA e, product : IF e > d THEN product * lengths[e] ELSE product,
                              [e \in DOMAIN lengths |-> e], 1)
    IN  [t \in 1 .. count_of(lengths) |->
            start + FoldLeft(LAMBDA sum, d : sum + (((t - 1) \div inner(d)) % lengths[d]) * strides[d],
                             0, [d \in DOMAIN lengths |-> d])]

Lengths == {<<3>>, <<2, 3>>, <<3, 2>>, <<1, 3, 2>>} \cup [1 .. 3 -> 1 .. 2]

GslicesExact ==
    \A lengths \in Lengths : \A strides \in [DOMAIN lengths -> {0, 1, 2, 3, 6}] :
        LET g  == gslice_index(1, lengths, strides)
            at == RowMajor(1, lengths, strides)
        IN  /\ g.count = Len(at)
            /\ IF is_masked(g)
               THEN Range(at) = g.words /\ \A t \in 2 .. Len(at) : at[t - 1] < at[t]
               ELSE g.positions = at

\* A selection's positions are the ones its subscript names, and its passes
\* read, lay and fill those alone and in order: by a run, one at a time, or by
\* masks whose stride is out of phase with the blocks they are made for; and by
\* a mask that is the very array it selects from.
SelectionsExact ==
    /\ StridesMasked /\ PassesExact /\ GslicesExact
    /\ \A x \in {x \in Obj : Asked(x)} :
        LET b == m_blocks[x]
            itself == [kind |-> "mask", masks |-> b]
            Rank(p) == Cardinality({q \in Ones(x) : q < p})
        IN  /\ \A p \in Ones(x) : BitAt(gather(itself, b, b), Rank(p))
            /\ none(fill(itself, FALSE, b, "assign"))
            /\ Positions(expand(itself, b, all_reset(b), "assign")) = {p \in Ones(x) : Rank(p) \in Ones(x)}

=============================================================================
