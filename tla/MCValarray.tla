----------------------------- MODULE MCValarray -----------------------------
(***************************************************************************)
(* Two valarrays of at most three elements in blocks of two, and at most   *)
(* one subscript of theirs kept while either is written.                   *)
(***************************************************************************)
EXTENDS MCBitBlockContainer, Valarray

ArrayView == <<contents, subscript>>

\* Bounds: the distances a shift is asked for, and what a subscript selects.
Distance == -4 .. 4

slice(start, size, stride) ==
    [kind |-> "slice", start |-> start, size |-> size, stride |-> stride]

gslice(start, lengths, strides) ==
    [kind |-> "gslice", index |-> gslice_index(start, lengths, strides)]

indirect(positions) == [kind |-> "indirect", positions |-> positions]

\* Empty ones, runs that start and end inside blocks, whole strides, and one
\* position over and over.
Slice == {slice(0, 0, 1), slice(0, 2, 1), slice(1, 2, 1), slice(0, 3, 1), slice(0, 2, 2), slice(1, 2, 0)}

\* Positions that ascend, that repeat and that come back.
Gslice == {gslice(0, <<>>, <<>>), gslice(0, <<2>>, <<2>>), gslice(0, <<2, 2>>, <<1, 1>>), gslice(1, <<2, 1>>, <<1, 2>>)}

Indirect == {indirect(<<2, 0>>), indirect(<<1, 1>>), indirect(<<0, 1, 0, 1>>)}

Mask == {[kind |-> "mask", mask |-> y] : y \in Obj}

(***************************************************************************)
(* The specification.                                                      *)
(***************************************************************************)
Whole(x) ==
    \/ \E n \in Width : \E s \in SUBSET (0 .. n - 1) : list(x, n, s)
    \/ \E value \in BOOLEAN : assign(x, value)
    \/ \E n \in Width, value \in BOOLEAN : array_resize(x, n, value)
    \/ \E y \in Obj, n \in Distance : shift(x, y, n) \/ cshift(x, y, n)
    \/ \E y \in Obj, at_false, at_true \in BOOLEAN : apply(x, y, at_false, at_true)
    \/ \E y, z \in Obj, f \in Kernel : zip(x, y, z, f)
    \/ \E y \in Obj, value \in BOOLEAN, f \in Kernel :
            zip_scalar(x, y, value, f) \/ scalar_zip(x, value, y, f)
    \/ \E y \in Obj, f \in Logical : compound_array(x, y, f)
    \/ \E value \in BOOLEAN, f \in Logical : compound_scalar(x, value, f)
    \/ \E n \in Width : left_shift(x, n) \/ right_shift(x, n)
    \/ fold(x)

\* While a subscript is kept nothing changes a width, which would move blocks.
Meanwhile(x) ==
    \/ \E n \in Width : flip(x, n)
    \/ \E value \in BOOLEAN : assign(x, value)

Through ==
    \/ \E f \in Combiner, y \in Obj : scatter_array(f, y)
    \/ \E f \in Combiner, value \in BOOLEAN : scatter_scalar(f, value)
    \/ \E x \in Obj, s \in Slice :
            within(s, m_size[x]) /\ scatter_proxy("assign", proxy(x, s))

ArrayNext ==
    \/ subscript = NoSubscript /\ (Next \/ \E x \in Obj : Whole(x)) /\ UNCHANGED subscript
    \/ /\ subscript = NoSubscript
       /\ \E x \in Obj, s \in Slice \cup Gslice \cup Indirect \cup Mask : subscripted(x, s)
    \/ /\ subscript # NoSubscript
       /\ Through \/ \E x \in Obj : Meanwhile(x)
       /\ UNCHANGED subscript
    \/ /\ subscript # NoSubscript
       /\ \E y \in Obj : gather_into(y)
       /\ subscript' = NoSubscript
    \/ subscript # NoSubscript /\ drop

ArraySpec == Init /\ subscript = NoSubscript /\ [][ArrayNext]_array_vars

(***************************************************************************)
(* Refinement.  The positions a subscript selects are worked out from what *)
(* it says, not from how it is run through.                                *)
(***************************************************************************)
\* The t-th of the index tuples, in row-major order.
Inner(lengths, d) == FoldLeft(LAMBDA a, b : a * b, 1, SubSeq(lengths, d + 1, Len(lengths)))

RowMajor(start, lengths, strides) ==
    [t \in 1 .. count_of(lengths) |->
        start + FoldLeft(LAMBDA a, d : a + strides[d] * (((t - 1) \div Inner(lengths, d)) % lengths[d]),
                         0, [d \in DOMAIN lengths |-> d])]

Selects(s) ==
    CASE s.kind = "slice"    -> [j \in 1 .. s.size |-> s.start + (j - 1) * s.stride]
      [] s.kind = "gslice"   -> RowMajor(s.index.start, s.index.lengths, s.index.strides)
      [] s.kind = "indirect" -> s.positions
      [] s.kind = "mask"     -> <<>>

Meaning(t) ==
    IF t = NoSubscript THEN NoSubscript
    ELSE [owner |-> t.owner, size |-> t.size, at |-> Selects(t.selection),
          mask |-> IF t.selection.kind = "mask" THEN t.selection.mask ELSE "none"]

Array == INSTANCE BoolArray WITH
    Chunk       <- bits_per_block,
    Limit       <- N,
    MoveEmpties <- has_stored_size,
    width       <- m_size,
    bits        <- [x \in Obj |-> Positions(m_blocks[x])],
    call        <- IF call.op = "write_subscript"
                   THEN [call EXCEPT !.args = <<@[1], Meaning(@[2])>>] ELSE call,
    sub         <- Meaning(subscript)

\* Every call, of the storage, of the whole array or through the subscript
\* kept, does to the elements what the abstract array does.
ImplementsBoolArray == Array!ArraySpec

=============================================================================
