----------------------------- MODULE BitString ------------------------------
(***************************************************************************)
(* What a bit container promises, with no blocks in sight: each container  *)
(* is a string of width[x] bits, and bits[x] is the set of its positions   *)
(* that hold a one.  A call does what its name says to the string, answers *)
(* what it should, and touches no other container; a call that throws      *)
(* changes nothing at all, and only a call that would widen its container, *)
(* or make room for that, throws.                                          *)
(***************************************************************************)
EXTENDS Integers

CONSTANTS
    Obj,        \* the containers
    Chunk,      \* the positions one append adds, one raw write rewrites
    Width,      \* the widths, positions and distances a caller names
    Kernel      \* the names of the elementwise operators

VARIABLES width, bits, call

vars == <<width, bits, call>>

NoResult == "none"

Returned(op, x, args, result) ==
    [op |-> op, x |-> x, args |-> args, outcome |-> "ok", result |-> result]

Threw(op, x, args) ==
    [op |-> op, x |-> x, args |-> args, outcome |-> "bad_alloc", result |-> NoResult]

Value(x, n, s) ==
    /\ width' = [width EXCEPT ![x] = n]
    /\ bits'  = [bits  EXCEPT ![x] = s]

Bits(x, s) == Value(x, width[x], s)

Pos(x) == 0 .. width[x] - 1

Valid(x, n) == n \in Pos(x)

\* A call that returns nothing, and one that may throw instead.
Does(op, x, args) == call' = Returned(op, x, args, NoResult)

Fails(op, x, args) == call' = Threw(op, x, args) /\ UNCHANGED <<width, bits>>

Resized(x, n, value) ==
    Value(x, n, {p \in bits[x] : p < n} \cup {p \in width[x] .. n - 1 : value})

Resize(x, n, value) ==
    \/ n > width[x] /\ Fails("resize", x, <<n, value>>)
    \/ Does("resize", x, <<n, value>>) /\ Resized(x, n, value)

PushBack(x, value) ==
    \/ Fails("push_back", x, <<value>>)
    \/ Does("push_back", x, <<value>>) /\ Resized(x, width[x] + 1, value)

PopBack(x) ==
    /\ Does("pop_back", x, <<>>)
    /\ width[x] > 0
    /\ Resized(x, width[x] - 1, FALSE)

Clear(x) == Does("clear", x, <<>>) /\ Value(x, 0, {})

Append(x, chunk) ==
    \/ Fails("append", x, <<chunk>>)
    \/ /\ Does("append", x, <<chunk>>)
       /\ Value(x, width[x] + Chunk, bits[x] \cup {width[x] + o : o \in chunk})

GrowingInsert(x, n) ==
    \/ n >= width[x] /\ Fails("growing_insert", x, <<n>>)
    \/ /\ call' = Returned("growing_insert", x, <<n>>, n \notin bits[x])
       /\ Value(x, IF n < width[x] THEN width[x] ELSE n + 1, bits[x] \cup {n})

\* As wide as it must be to hold the other's bits, and no wider.
GrowToAdmit(x, y) ==
    \/ (\E p \in bits[y] : p >= width[x]) /\ Fails("grow_to_admit", x, <<y>>)
    \/ /\ Does("grow_to_admit", x, <<y>>)
       /\ \E n \in {width[x]} \cup {p + 1 : p \in bits[y]} :
             /\ n >= width[x] /\ \A p \in bits[y] : p < n
             /\ n > width[x] => n - 1 \in bits[y]
             /\ Value(x, n, bits[x])

Reserve(x, n) ==
    \/ n > width[x] /\ Fails("reserve", x, <<n>>)
    \/ Does("reserve", x, <<n>>) /\ UNCHANGED <<width, bits>>

ShrinkToFit(x) == Does("shrink_to_fit", x, <<>>) /\ UNCHANGED <<width, bits>>

\* Whole chunks adopted; and extracted, which leaves the string empty.
Replace(x) ==
    /\ call'.op = "replace"
    /\ \E n \in {k * Chunk : k \in Width} : \E s \in SUBSET (0 .. n - 1) :
            Does("replace", x, <<n, s>>) /\ Value(x, n, s)

Extract(x) == call' = Returned("extract", x, <<>>, bits[x]) /\ Value(x, 0, {})

\* Bits written over the width's chunks: those past the width are dropped.
WriteBlocks(x) ==
    /\ call'.op = "write_blocks"
    /\ \E s \in SUBSET (0 .. width[x] + Chunk - 1) :
            Does("write_blocks", x, <<s>>) /\ Bits(x, s \cap Pos(x))

CopyAssign(x, y) ==
    \/ width[y] > width[x] /\ Fails("copy_assign", x, <<y>>)
    \/ Does("copy_assign", x, <<y>>) /\ Value(x, width[y], bits[y])

CONSTANT MoveEmpties    \* whether a moved-from string is left empty

MoveAssign(x, y) ==
    /\ Does("move_assign", x, <<y>>)
    /\ IF x = y \/ ~MoveEmpties
       THEN Value(x, width[y], bits[y])
       ELSE /\ width' = [width EXCEPT ![x] = width[y], ![y] = 0]
            /\ bits'  = [bits  EXCEPT ![x] = bits[y],  ![y] = {}]

Swap(x, y) ==
    /\ Does("swap", x, <<y>>)
    /\ width' = [width EXCEPT ![x] = width[y], ![y] = width[x]]
    /\ bits'  = [bits  EXCEPT ![x] = bits[y],  ![y] = bits[x]]

Set(x, n)   == Does("set", x, <<n>>)   /\ Valid(x, n) /\ Bits(x, bits[x] \cup {n})
Reset(x, n) == Does("reset", x, <<n>>) /\ Valid(x, n) /\ Bits(x, bits[x] \ {n})

Flip(x, n) ==
    /\ Does("flip", x, <<n>>)
    /\ Valid(x, n)
    /\ Bits(x, IF n \in bits[x] THEN bits[x] \ {n} ELSE bits[x] \cup {n})

Insert(x, n) ==
    /\ call' = Returned("insert", x, <<n>>, n \notin bits[x])
    /\ Valid(x, n)
    /\ Bits(x, bits[x] \cup {n})

Erase(x, n) ==
    /\ call' = Returned("erase", x, <<n>>, n \in bits[x])
    /\ Valid(x, n)
    /\ Bits(x, bits[x] \ {n})

DropFront(x) ==
    /\ Does("drop_front", x, <<>>)
    /\ \E p \in bits[x] : (\A q \in bits[x] : p <= q) /\ Bits(x, bits[x] \ {p})

DropBack(x) ==
    /\ Does("drop_back", x, <<>>)
    /\ \E p \in bits[x] : (\A q \in bits[x] : q <= p) /\ Bits(x, bits[x] \ {p})

SetRange(x) ==
    /\ call'.op = "set_range"
    /\ \E n, len \in Width, value \in BOOLEAN :
        /\ Does("set_range", x, <<n, len, value>>)
        /\ n + len <= width[x]
        /\ Bits(x, (bits[x] \ (n .. n + len - 1)) \cup {p \in n .. n + len - 1 : value})

SetAll(x)   == Does("set_all", x, <<>>)   /\ Bits(x, Pos(x))
ResetAll(x) == Does("reset_all", x, <<>>) /\ Bits(x, {})
FlipAll(x)  == Does("flip_all", x, <<>>)  /\ Bits(x, Pos(x) \ bits[x])

\* The positions the mask names, counted from n, take the bits of value.
WriteBlockAt(x) ==
    /\ call'.op = "write_block_at"
    /\ \E n \in Width, value, mask \in SUBSET (0 .. Chunk - 1) :
        LET named == {n + o : o \in mask}
        IN  /\ Does("write_block_at", x, <<n, value, mask>>)
            /\ named \subseteq Pos(x)
            /\ Bits(x, (bits[x] \ named) \cup {n + o : o \in value \cap mask})

ShiftUp(x, n)   == Does("shift_up", x, <<n>>)   /\ Bits(x, {p \in Pos(x) : p - n \in bits[x]})
ShiftDown(x, n) == Does("shift_down", x, <<n>>) /\ Bits(x, {p \in Pos(x) : p + n \in bits[x]})

Rotate(x, n) ==
    /\ Does("rotate", x, <<n>>)
    /\ Bits(x, {p \in Pos(x) : (p + n) % width[x] \in bits[x]})

Reverse(x) ==
    /\ Does("reverse", x, <<>>)
    /\ Bits(x, {p \in Pos(x) : width[x] - 1 - p \in bits[x]})

AndAssign(x, y)   == Does("and_assign", x, <<y>>)   /\ Bits(x, bits[x] \cap bits[y])
MinusAssign(x, y) == Does("minus_assign", x, <<y>>) /\ Bits(x, bits[x] \ bits[y])
OrAssign(x, y)    == Does("or_assign", x, <<y>>)    /\ Bits(x, bits[x] \cup bits[y])

XorAssign(x, y) ==
    /\ Does("xor_assign", x, <<y>>)
    /\ Bits(x, (bits[x] \ bits[y]) \cup (bits[y] \ bits[x]))

\* The comparison of two bools, false before true, and the bitwise operators.
Holds(f, a, b) ==
    \/ f = "and"           /\ a /\ b
    \/ f = "or"            /\ (a \/ b)
    \/ f = "xor"           /\ a # b
    \/ f = "equal"         /\ a = b
    \/ f = "less"          /\ ~a /\ b
    \/ f = "greater"       /\ a /\ ~b
    \/ f = "less_equal"    /\ (a => b)
    \/ f = "greater_equal" /\ (b => a)

Transform(x, y, f) ==
    /\ Does("transform", x, <<y, f>>)
    /\ width[x] = width[y]
    /\ Bits(x, {p \in Pos(x) : Holds(f, p \in bits[x], p \in bits[y])})

Init ==
    /\ width \in [Obj -> Width]
    /\ bits = [x \in Obj |-> {}]
    /\ call = [op |-> "construct", outcome |-> "ok"]

\* The history names the one operation a step can be: the rest are ruled out
\* before their arguments are tried.
Is(ops) == call'.op \in ops

Next ==
    \E x \in Obj :
        \/ Is({"resize"}) /\ \E n \in Width, value \in BOOLEAN : Resize(x, n, value)
        \/ Is({"push_back"}) /\ \E value \in BOOLEAN : PushBack(x, value)
        \/ Is({"append"}) /\ \E chunk \in SUBSET (0 .. Chunk - 1) : Append(x, chunk)
        \/ PopBack(x) \/ Clear(x) \/ ShrinkToFit(x)
        \/ Replace(x) \/ Extract(x) \/ WriteBlocks(x)
        \/ DropFront(x) \/ DropBack(x) \/ Reverse(x)
        \/ SetAll(x) \/ ResetAll(x) \/ FlipAll(x) \/ SetRange(x) \/ WriteBlockAt(x)
        \/ /\ Is({"growing_insert", "reserve", "set", "reset", "flip", "insert", "erase"})
           /\ \E n \in Width : \/ GrowingInsert(x, n) \/ Reserve(x, n)
                              \/ Set(x, n) \/ Reset(x, n) \/ Flip(x, n)
                              \/ Insert(x, n) \/ Erase(x, n)
        \/ /\ Is({"shift_up", "shift_down", "rotate"})
           /\ \E n \in Width : ShiftUp(x, n) \/ ShiftDown(x, n) \/ Rotate(x, n)
        \/ \E y \in Obj :
            \/ CopyAssign(x, y) \/ MoveAssign(x, y) \/ Swap(x, y) \/ GrowToAdmit(x, y)
            \/ AndAssign(x, y) \/ MinusAssign(x, y) \/ OrAssign(x, y) \/ XorAssign(x, y)
            \/ Is({"transform"}) /\ \E f \in Kernel : Transform(x, y, f)

Spec == Init /\ [][Next]_vars

=============================================================================
