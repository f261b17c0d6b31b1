------------------------------ MODULE Valarray ------------------------------
(***************************************************************************)
(* The valarray reading over a bit_block_container: whole arrays by kernels *)
(* on their blocks, and a subscript kept while the arrays go on changing.  *)
(* subscript is the proxy a subscript of a non-const array returns, or     *)
(* NoSubscript: the array it writes through to, what it selects there, and *)
(* for a mask the size counted when it was made.  A mask is referred to,   *)
(* never copied: its blocks are read when the proxy is used.               *)
(*                                                                         *)
(* A function that returns an array is modelled with its result assigned   *)
(* to x.  The arrays are bit_inplace_valarray or bit_array_valarray: a     *)
(* dynamic one makes the same values in storage it has to ask for first.   *)
(***************************************************************************)
EXTENDS BitBlockContainer, Selections

ASSUME ArrayAssumption == Kind # "dynamic"

VARIABLE subscript

array_vars == <<vars, subscript>>

NoSubscript == [owner |-> "none"]

(***************************************************************************)
(* Whole arrays.                                                           *)
(***************************************************************************)
magnitude(n) == IF n < 0 THEN -n ELSE n

filled(x, value) == IF value THEN all_set(m_blocks[x], m_size[x]) ELSE all_reset(m_blocks[x])

flipped(x) == all_flipped(m_blocks[x], m_size[x])

does(op, x, args, b) == write(x, 0, b) /\ call' = Returned(op, x, args, NoResult)

\* An array as wide as y is made aside and assigned to x.
makes(op, x, args, y, b) ==
    /\ store(x, m_size[y], 0, b) /\ UNCHANGED capacity
    /\ call' = Returned(op, x, args, NoResult)

\* The bools of a list, an array or a pointer, as many as there are.
list(x, n, s) ==
    \/ /\ ~check_capacity(n)
       /\ refused("list", x, <<n, s>>)
    \/ /\ check_capacity(n) /\ (has_stored_size \/ n = N)
       /\ store(x, n, 0, [i \in 0 .. blocks_for(n) - 1 |-> {o \in Offset : base(i) + o \in s}])
       /\ UNCHANGED capacity
       /\ call' = Returned("list", x, <<n, s>>, NoResult)

assign(x, value) == does("assign", x, <<value>>, filled(x, value))

\* Mutation: only the new elements take the value.
array_resize_grown(x, n, value) ==
    /\ has_stored_size /\ resize_to(x, n, value)
    /\ call' = Returned("array_resize", x, <<n, value>>, NoResult)

array_resize(x, n, value) ==
    /\ has_stored_size
    /\ \/ ~check_capacity(n) /\ refused("array_resize", x, <<n, value>>)
       \/ /\ check_capacity(n) /\ reallocate(x, blocks_for(n))
          /\ LET b == resized(m_blocks[x], m_size[x], n, value)
             IN  store(x, n, 0, IF value THEN all_set(b, n) ELSE all_reset(b))
          /\ call' = Returned("array_resize", x, <<n, value>>, NoResult)

moved_up(x, n)   == erase_unused(shifted_up(m_blocks[x], n), m_size[x])
moved_down(x, n) == shifted_down(m_blocks[x], n)

shift(x, y, n) ==
    makes("shift", x, <<y, n>>, y,
          CASE magnitude(n) >= m_size[y] -> filled(y, FALSE)
            [] magnitude(n) < m_size[y] /\ n > 0 -> moved_down(y, n)
            [] OTHER -> moved_up(y, magnitude(n)))

\* Mutation: the distance is not reduced before it is taken from the size.
cshift_wrapping(x, y, n) ==
    makes("cshift", x, <<y, n>>, y,
          rotated(m_blocks[y], m_size[y], (IF n >= 0 THEN n ELSE m_size[y] + n) % 16))

cshift(x, y, n) ==
    makes("cshift", x, <<y, n>>, y,
          CASE n >= 0 -> rotated(m_blocks[y], m_size[y], n)
            [] n < 0 /\ m_size[y] # 0 ->
                   rotated(m_blocks[y], m_size[y], m_size[y] - (magnitude(n) % m_size[y]))
            [] OTHER -> m_blocks[y])

\* A function of one bool, by what it makes of each.
apply(x, y, at_false, at_true) ==
    makes("apply", x, <<y, at_false, at_true>>, y,
          CASE at_false = at_true   -> filled(y, at_false)
            [] at_false /\ ~at_true -> flipped(y)
            [] OTHER                -> m_blocks[y])

zip(x, y, z, f) ==
    /\ m_size[y] = m_size[z]
    /\ makes("zip", x, <<y, z, f>>, y, erase_unused(transformed(y, z, f), m_size[y]))

zip_scalar(x, y, value, f) ==
    makes("zip_scalar", x, <<y, value, f>>, y,
          erase_unused([i \in DOMAIN m_blocks[y] |-> kernel(f, m_blocks[y][i], splat(value))], m_size[y]))

\* Mutation: the tail a kernel sets is left set.
scalar_zip_unmasked(x, value, y, f) ==
    makes("scalar_zip", x, <<value, y, f>>, y,
          [i \in DOMAIN m_blocks[y] |-> kernel(f, splat(value), m_blocks[y][i])])

scalar_zip(x, value, y, f) ==
    makes("scalar_zip", x, <<value, y, f>>, y,
          erase_unused([i \in DOMAIN m_blocks[y] |-> kernel(f, splat(value), m_blocks[y][i])], m_size[y]))

\* The logical three, against an array and against a scalar.
Logical == {"and", "or", "xor"}

compound_array(x, y, f) ==
    /\ m_size[x] = m_size[y]
    /\ does("compound", x, <<y, f>>, erase_unused(transformed(x, y, f), m_size[x]))

compound_scalar(x, value, f) ==
    does("compound_scalar", x, <<value, f>>,
         CASE f = "and" /\ ~value -> filled(x, FALSE)
           [] f = "or" /\ value   -> filled(x, TRUE)
           [] f = "xor" /\ value  -> flipped(x)
           [] OTHER               -> m_blocks[x])

left_shift(x, n) ==
    does("<<=", x, <<n>>, IF n < m_size[x] THEN moved_up(x, n) ELSE filled(x, FALSE))

right_shift(x, n) ==
    does(">>=", x, <<n>>, IF n < m_size[x] THEN moved_down(x, n) ELSE filled(x, FALSE))

\* sum, min and max.
fold(x) ==
    /\ call' = Returned("fold", x, <<>>,
                        <<any(m_blocks[x]), all(m_blocks[x], m_size[x]), any(m_blocks[x])>>)
    /\ UNCHANGED contents

(***************************************************************************)
(* A subscript.                                                            *)
(***************************************************************************)
resolved(s) == IF s.kind = "mask" THEN [kind |-> "mask", masks |-> m_blocks[s.mask]] ELSE s

selected(s) ==
    CASE s.kind = "slice"    -> s.size
      [] s.kind = "gslice"   -> s.index.count
      [] s.kind = "mask"     -> count_blocks(m_blocks[s.mask])
      [] s.kind = "indirect" -> Len(s.positions)

\* What each subscript asserts of the positions it selects.
within(s, n) ==
    CASE s.kind = "slice"    -> s.size = 0 \/ final(s.start, s.size, s.stride) < n
      [] s.kind = "gslice"   -> s.index.width <= n
      [] s.kind = "mask"     -> m_size[s.mask] = n
      [] s.kind = "indirect" -> \A j \in DOMAIN s.positions : s.positions[j] < n

names_each_once(s) ==
    s.kind = "indirect" => Cardinality(Range(s.positions)) = Len(s.positions)

proxy(x, s) == [owner |-> x, selection |-> s, size |-> selected(s)]

subscripted(x, s) ==
    /\ within(s, m_size[x])
    /\ subscript' = proxy(x, s)
    /\ call' = Returned("subscript", x, <<>>, selected(s))
    /\ UNCHANGED contents

\* The caller may have written the mask since, but not changed its count: the
\* array gathered into was sized by the count taken when the proxy was made.
still_counts(t) == t.selection.kind = "mask" => selected(t.selection) = t.size

writes(op, args, b) == does(op, subscript.owner, args, b)

\* Through the proxy, from another array: std excludes the owner itself.
scatter_array(f, y) ==
    /\ y # subscript.owner /\ m_size[y] = subscript.size
    /\ still_counts(subscript) /\ names_each_once(subscript.selection)
    /\ writes("write", <<f, y>>,
              expand(resolved(subscript.selection), m_blocks[y], m_blocks[subscript.owner], f))

scatter_scalar(f, value) ==
    /\ still_counts(subscript) /\ names_each_once(subscript.selection)
    /\ writes("write_scalar", <<f, value>>,
              fill(resolved(subscript.selection), value, m_blocks[subscript.owner], f))

gathered(t) == gather(resolved(t.selection), m_blocks[t.owner], blocks_of_width(t.size))

\* Mutation: the other proxy is read where its elements are, not gathered.
scatter_proxy_direct(f, t) ==
    /\ t.size = subscript.size
    /\ still_counts(subscript) /\ names_each_once(subscript.selection)
    /\ subscript.selection.kind = "slice" /\ t.owner = subscript.owner
    /\ writes("write_subscript", <<f, t>>,
              FoldLeft(LAMBDA d, j : IF BitAt(d, Indices(t.selection)[j])
                                     THEN bit_set(d, Indices(subscript.selection)[j])
                                     ELSE bit_reset(d, Indices(subscript.selection)[j]),
                       m_blocks[t.owner], [j \in 1 .. t.size |-> j]))

\* From another proxy, of this owner perhaps: gathered first, into blocks of
\* their own, which there may be no memory for.
scatter_proxy(f, t) ==
    /\ t.size = subscript.size
    /\ still_counts(subscript) /\ names_each_once(subscript.selection)
    /\ \/ refused("write_subscript", subscript.owner, <<f, t>>)
       \/ writes("write_subscript", <<f, t>>,
                 expand(resolved(subscript.selection), gathered(t), m_blocks[subscript.owner], f))

\* y = subscript: gathered into an array of its own, then assigned.
gather_into(y) ==
    /\ still_counts(subscript)
    /\ \/ /\ ~check_capacity(subscript.size)
          /\ refused("gather", y, <<>>)
       \/ /\ check_capacity(subscript.size) /\ (has_stored_size \/ subscript.size = N)
          /\ store(y, subscript.size, 0, gathered(subscript)) /\ UNCHANGED capacity
          /\ call' = Returned("gather", y, <<>>, NoResult)

drop == subscript' = NoSubscript /\ UNCHANGED vars

=============================================================================
