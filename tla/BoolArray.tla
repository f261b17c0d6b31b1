----------------------------- MODULE BoolArray ------------------------------
(***************************************************************************)
(* What a valarray of bool promises: a bit string that is also read and    *)
(* written elementwise, shifted either way by any distance, and through a  *)
(* subscript, which refers to some of its elements in some order and is    *)
(* kept while the array goes on changing.  A mask's positions are those it *)
(* holds when the subscript is used, not when it was made.                 *)
(***************************************************************************)
EXTENDS BitString, FiniteSets

CONSTANT Limit  \* the most elements an array can have

VARIABLE sub    \* the subscript kept, or NoSubscript

array_vars == <<width, bits, call, sub>>

NoSubscript == [owner |-> "none"]

(***************************************************************************)
(* Whole arrays.                                                           *)
(***************************************************************************)
\* An array made aside is given to x.
Makes(op, x, args, n, s) == Does(op, x, args) /\ Value(x, n, s)

\* n elements listed, of which those of s are true.
List(x, n, s) ==
    \/ n > width[x] /\ Fails("list", x, <<n, s>>)
    \/ Makes("list", x, <<n, s>>, n, s)

AssignScalar(x, value) == Does("assign", x, <<value>>) /\ Bits(x, {p \in Pos(x) : value})

ArrayResize(x, n, value) ==
    \/ n > width[x] /\ Fails("array_resize", x, <<n, value>>)
    \/ Does("array_resize", x, <<n, value>>) /\ Value(x, n, {p \in 0 .. n - 1 : value})

Shifted(y, n) == {p \in Pos(y) : p + n \in bits[y]}

Turned(y, n) == {p \in Pos(y) : (p + n) % width[y] \in bits[y]}

ArrayShift(x, y, n) == Makes("shift", x, <<y, n>>, width[y], Shifted(y, n))
CShift(x, y, n)     == Makes("cshift", x, <<y, n>>, width[y], Turned(y, n))

Apply(x, y, at_false, at_true) ==
    Makes("apply", x, <<y, at_false, at_true>>, width[y],
          {p \in Pos(y) : IF p \in bits[y] THEN at_true ELSE at_false})

Zip(x, y, z, f) ==
    /\ width[y] = width[z]
    /\ Makes("zip", x, <<y, z, f>>, width[y],
             {p \in Pos(y) : Holds(f, p \in bits[y], p \in bits[z])})

\* A scalar on the one side or the other.
ZipScalar(x, y, value, f) ==
    Makes("zip_scalar", x, <<y, value, f>>, width[y], {p \in Pos(y) : Holds(f, p \in bits[y], value)})

ScalarZip(x, value, y, f) ==
    Makes("scalar_zip", x, <<value, y, f>>, width[y], {p \in Pos(y) : Holds(f, value, p \in bits[y])})

Compound(x, y, f) ==
    /\ Does("compound", x, <<y, f>>)
    /\ width[x] = width[y]
    /\ Bits(x, {p \in Pos(x) : Holds(f, p \in bits[x], p \in bits[y])})

CompoundScalar(x, value, f) ==
    /\ Does("compound_scalar", x, <<value, f>>)
    /\ Bits(x, {p \in Pos(x) : Holds(f, p \in bits[x], value)})

LeftShift(x, n)  == Does("<<=", x, <<n>>) /\ Bits(x, Shifted(x, -n))
RightShift(x, n) == Does(">>=", x, <<n>>) /\ Bits(x, Shifted(x, n))

\* The sum, the least and the greatest of the elements.
Fold(x) ==
    /\ call' = Returned("fold", x, <<>>, <<bits[x] # {}, bits[x] = Pos(x), bits[x] # {}>>)
    /\ UNCHANGED <<width, bits>>

(***************************************************************************)
(* Subscripts.                                                             *)
(***************************************************************************)
\* The n-th of some positions, from the least.
Nth(s, n) == CHOOSE p \in s : Cardinality({q \in s : q < p}) = n - 1

At(t) == IF t.mask \in Obj THEN [j \in 1 .. t.size |-> Nth(bits[t.mask], j)] ELSE t.at

Gathered(t) == {j - 1 : j \in {i \in DOMAIN At(t) : At(t)[i] \in bits[t.owner]}}

Combined(f, was, is) == IF f = "assign" THEN is ELSE Holds(f, was, is)

\* Element j of the subscript is combined with value[j], one after another.
Scattered(t, f, value) ==
    LET after[j \in 0 .. t.size] ==
            IF j = 0 THEN bits[t.owner]
            ELSE IF Combined(f, At(t)[j] \in after[j - 1], value[j])
                 THEN after[j - 1] \cup {At(t)[j]} ELSE after[j - 1] \ {At(t)[j]}
    IN  after[t.size]

Subscribe(t) ==
    /\ call' = Returned("subscript", t.owner, <<>>, t.size)
    /\ sub' = t /\ UNCHANGED <<width, bits>>

Write(f, y) ==
    /\ Does("write", sub.owner, <<f, y>>)
    /\ Bits(sub.owner, Scattered(sub, f, [j \in 1 .. sub.size |-> j - 1 \in bits[y]]))

WriteScalar(f, value) ==
    /\ Does("write_scalar", sub.owner, <<f, value>>)
    /\ Bits(sub.owner, Scattered(sub, f, [j \in 1 .. sub.size |-> value]))

\* Every element of the other subscript is read before any is written.
WriteSubscript(f, t) ==
    \/ Fails("write_subscript", sub.owner, <<f, t>>)
    \/ /\ Does("write_subscript", sub.owner, <<f, t>>)
       /\ Bits(sub.owner, Scattered(sub, f, [j \in 1 .. sub.size |-> At(t)[j] \in bits[t.owner]]))

Gather(y) ==
    \/ sub.size > width[y] /\ Fails("gather", y, <<>>)
    \/ Does("gather", y, <<>>) /\ Value(y, sub.size, Gathered(sub))

Drop == sub' = NoSubscript /\ UNCHANGED <<width, bits, call>>

(***************************************************************************)
(* The specification.                                                      *)
(***************************************************************************)
ArrayInit == Init /\ sub = NoSubscript

Whole(a) ==
    \E x \in Obj :
        \/ Is({"assign"}) /\ AssignScalar(x, a[1])
        \/ Is({"list"}) /\ List(x, a[1], a[2])
        \/ Is({"array_resize"}) /\ ArrayResize(x, a[1], a[2])
        \/ Is({"shift"}) /\ ArrayShift(x, a[1], a[2])
        \/ Is({"cshift"}) /\ CShift(x, a[1], a[2])
        \/ Is({"apply"}) /\ Apply(x, a[1], a[2], a[3])
        \/ Is({"zip"}) /\ Zip(x, a[1], a[2], a[3])
        \/ Is({"zip_scalar"}) /\ ZipScalar(x, a[1], a[2], a[3])
        \/ Is({"scalar_zip"}) /\ ScalarZip(x, a[1], a[2], a[3])
        \/ Is({"compound"}) /\ Compound(x, a[1], a[2])
        \/ Is({"compound_scalar"}) /\ CompoundScalar(x, a[1], a[2])
        \/ Is({"<<="}) /\ LeftShift(x, a[1])
        \/ Is({">>="}) /\ RightShift(x, a[1])
        \/ Is({"fold"}) /\ Fold(x)

Through(a) ==
    \/ Is({"write"}) /\ Write(a[1], a[2])
    \/ Is({"write_scalar"}) /\ WriteScalar(a[1], a[2])
    \/ Is({"write_subscript"}) /\ WriteSubscript(a[1], a[2])

ArrayNext ==
    \/ Drop
    \/ Is({"subscript"}) /\ Subscribe(sub')
    \/ (Whole(call'.args) \/ Next) /\ UNCHANGED sub
    \/ sub # NoSubscript /\ Through(call'.args) /\ UNCHANGED sub
    \/ Is({"gather"}) /\ sub # NoSubscript /\ sub' = NoSubscript /\ \E y \in Obj : Gather(y)

\* No array is ever longer than it can be, whatever makes it.
Bounded == \A x \in Obj : width[x] <= Limit

ArraySpec == ArrayInit /\ [][ArrayNext /\ Bounded']_array_vars

=============================================================================
