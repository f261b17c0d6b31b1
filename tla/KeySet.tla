------------------------------- MODULE KeySet -------------------------------
(***************************************************************************)
(* What a set of keys promises, with no positions, widths or blocks in     *)
(* sight.  A call does to the set what its name says and answers what it   *)
(* should; a key the set may not hold is refused, by the exception the     *)
(* storage and the universe name; and a call that throws leaves the set as *)
(* it was, except those that go key by key, which leave what they did.     *)
(*                                                                         *)
(* A call is one step, the one that answers it or throws.                  *)
(***************************************************************************)
EXTENDS Integers, FiniteSets, Sequences

CONSTANTS
    Obj,        \* the sets
    Key,        \* the keys a caller names
    Owner,      \* "heap", "inplace" or "static"
    Limit,      \* the keys an inplace or a static set has room for
    Universe,   \* the keys the mapping ranks
    Countable,  \* the keys a heap can count
    MaxSize,    \* max_size()
    Descending  \* whether keys are iterated from the highest

VARIABLES keys, answer

vars == <<keys, answer>>

NoResult == "none"

Answered(op, x, args, result) ==
    /\ answer'.outcome = "ok"
    /\ answer' = [op |-> op, x |-> x, args |-> args, outcome |-> "ok", result |-> result]

Threw(op, x, args, exception) ==
    answer' = [op |-> op, x |-> x, args |-> args, outcome |-> exception, result |-> NoResult]

Becomes(x, s) == keys' = [keys EXCEPT ![x] = s]

Does(op, x, args, s) == Answered(op, x, args, NoResult) /\ Becomes(x, s)

\* No effects.
Fails(op, x, args, exception) == Threw(op, x, args, exception) /\ UNCHANGED keys

(***************************************************************************)
(* Refusals.  A key outside the universe is out_of_range; one past what a  *)
(* heap can count length_error; one past the room of an inplace set        *)
(* bad_alloc; and a heap may throw bad_alloc for any key it does not hold. *)
(***************************************************************************)
Refusal(n) ==
    IF Owner = "static"
    THEN IF n < Limit THEN "none" ELSE "out_of_range"
    ELSE CASE n \notin Universe -> "out_of_range"
           [] n \in Universe \ Countable -> "length_error"
           [] n \in Universe \cap Countable ->
                IF Owner = "inplace" /\ n >= Limit THEN "bad_alloc" ELSE "none"

\* What adding n to the keys of s may throw.
Refusals(s, n) ==
    {e \in {Refusal(n)} : e # "none"} \cup {e \in {"bad_alloc"} : Owner = "heap" /\ n \notin s /\ Refusal(n) = "none"}

Admitted(n) == Refusal(n) = "none"

(***************************************************************************)
(* Order.                                                                  *)
(***************************************************************************)
Before(a, b) == IF Descending THEN b < a ELSE a < b

\* The first, and the last, of some keys, or none of none.
First(s) == {k \in s : \A j \in s : j = k \/ Before(k, j)}
Last(s)  == {k \in s : \A j \in s : j = k \/ Before(j, k)}

After(s, k) == {j \in s : Before(k, j)}

(***************************************************************************)
(* Insertion.                                                              *)
(***************************************************************************)
Insert(x, n) ==
    \/ \E e \in Refusals(keys[x], n) : Fails("insert", x, <<n>>, e)
    \/ /\ Admitted(n)
       /\ Answered("insert", x, <<n>>, <<{n}, n \notin keys[x]>>)
       /\ Becomes(x, keys[x] \cup {n})

\* Consecutive keys: all of them, or none.
InsertRange(x, lo, len) ==
    \/ \E e \in Refusals(keys[x], lo + len - 1) :
          len > 0 /\ Fails("insert_range", x, <<lo, len>>, e)
    \/ /\ len > 0 => Admitted(lo + len - 1)
       /\ Does("insert_range", x, <<lo, len>>, keys[x] \cup (lo .. lo + len - 1))

\* Key by key, to the keys of s: a refusal leaves those before it.
InsertEach(op, x, s) ==
    LET args == answer'.args
        upto(k) == s \cup {args[i] : i \in 1 .. k}
        admitted(k) == \A i \in 1 .. k : Admitted(args[i])
    IN  \/ admitted(Len(args)) /\ Does(op, x, args, upto(Len(args)))
        \/ \E k \in 0 .. Len(args) - 1 :
              /\ admitted(k)
              /\ \E e \in Refusals(upto(k), args[k + 1]) : Threw(op, x, args, e)
              /\ Becomes(x, upto(k))

(***************************************************************************)
(* Erasure.                                                                *)
(***************************************************************************)
EraseAt(x, k) ==
    /\ k \in keys[x]
    /\ Answered("erase_at", x, <<{k}>>, First(After(keys[x], k)))
    /\ Becomes(x, keys[x] \ {k})

Erase(x, n) ==
    /\ Answered("erase", x, <<n>>, Cardinality(keys[x] \cap {n}))
    /\ Becomes(x, keys[x] \ {n})

\* Between two iterators, each a key or, as no key, the end.
EraseBetween(x, first, last) ==
    /\ Answered("erase_between", x, <<first, last>>, last)
    /\ Becomes(x, {k \in keys[x] : \/ \E f \in first : Before(k, f)
                                   \/ first = {}
                                   \/ \E l \in last : ~Before(k, l)})

EraseEquivalent(x, lo, hi) ==
    /\ Answered("erase_equivalent", x, <<lo, hi>>, Cardinality(keys[x] \cap (lo .. hi - 1)))
    /\ Becomes(x, keys[x] \ (lo .. hi - 1))

PopFront(x) == keys[x] # {} /\ Does("pop_front", x, <<>>, keys[x] \ First(keys[x]))
PopBack(x)  == keys[x] # {} /\ Does("pop_back",  x, <<>>, keys[x] \ Last(keys[x]))
Clear(x)    == Does("clear", x, <<>>, {})

\* A predicate that throws does so at a key, with those before it dealt with.
EraseIf(x, chosen) ==
    \/ /\ Answered("erase_if", x, <<chosen>>, Cardinality(keys[x] \cap chosen))
       /\ Becomes(x, keys[x] \ chosen)
    \/ /\ Threw("erase_if", x, <<chosen>>, "predicate")
       /\ \E at \in keys[x] : Becomes(x, {k \in keys[x] : Before(k, at) => k \notin chosen})

(***************************************************************************)
(* Operators, with a set and with a key.                                   *)
(***************************************************************************)
\* Only a heap that lacks one of the other's keys is refused.
Joins(op, x, y, s) ==
    \/ Owner = "heap" /\ ~(keys[y] \subseteq keys[x]) /\ Fails(op, x, <<y>>, "bad_alloc")
    \/ Does(op, x, <<y>>, s)

OrAssign(x, y)    == Joins("or",  x, y, keys[x] \cup keys[y])
XorAssign(x, y)   == Joins("xor", x, y, (keys[x] \cup keys[y]) \ (keys[x] \cap keys[y]))
AndAssign(x, y)   == Does("and",   x, <<y>>, keys[x] \cap keys[y])
MinusAssign(x, y) == Does("minus", x, <<y>>, keys[x] \ keys[y])

JoinsKey(op, x, n, s) ==
    /\ n < MaxSize
    /\ \/ Owner = "heap" /\ n \notin keys[x] /\ Fails(op, x, <<n>>, "bad_alloc")
       \/ Does(op, x, <<n>>, s)

OrAssignKey(x, n)  == JoinsKey("or_key", x, n, keys[x] \cup {n})
XorAssignKey(x, n) == JoinsKey("xor_key", x, n, (keys[x] \cup {n}) \ (keys[x] \cap {n}))
AndAssignKey(x, n)   == Does("and_key",   x, <<n>>, keys[x] \cap {n})
MinusAssignKey(x, n) == Does("minus_key", x, <<n>>, keys[x] \ {n})

Complement(x) == Does("complement", x, <<>>, (0 .. Limit - 1) \ keys[x])

\* The keys translated, and those that pass max_size(), or zero, dropped.
ShiftUp(x, n) ==
    \/ Owner = "heap" /\ keys[x] # {} /\ Fails("shift_up", x, <<n>>, "bad_alloc")
    \/ Does("shift_up", x, <<n>>, {k \in {j + n : j \in keys[x]} : k < MaxSize})

ShiftDown(x, n) ==
    Does("shift_down", x, <<n>>, {k \in {j - n : j \in keys[x]} : k >= 0})

(***************************************************************************)
(* Whole sets.                                                             *)
(***************************************************************************)
Copy(x, y) ==
    \/ Owner = "heap" /\ x # y /\ Fails("copy", x, <<y>>, "bad_alloc")
    \/ Does("copy", x, <<y>>, keys[y])

Move(x, y) ==
    /\ Answered("move", x, <<y>>, NoResult)
    /\ IF x = y \/ Owner = "static"
       THEN Becomes(x, keys[y])
       ELSE keys' = [keys EXCEPT ![x] = keys[y], ![y] = {}]

Swap(x, y) ==
    /\ Answered("swap", x, <<y>>, NoResult)
    /\ keys' = [keys EXCEPT ![x] = keys[y], ![y] = keys[x]]

Replace(x) ==
    \E s \in SUBSET Key : s \subseteq Universe /\ Does("replace", x, <<s>>, s)

Extract(x) == Answered("extract", x, <<>>, keys[x]) /\ Becomes(x, {})

(***************************************************************************)
(* The specification.  The history names the one call a step can be, and   *)
(* its arguments: the rest are ruled out before any is tried.              *)
(***************************************************************************)
Init ==
    /\ keys = [x \in Obj |-> {}]
    /\ answer = [op |-> "construct", outcome |-> "ok"]

Is(op) == answer'.op = op

Next ==
    \E x \in Obj :
        LET a == answer'.args
        IN  \/ Is("insert") /\ Insert(x, a[1])
            \/ Is("insert_range") /\ InsertRange(x, a[1], a[2])
            \/ Is("insert_each") /\ InsertEach("insert_each", x, keys[x])
            \/ Is("assign_each") /\ InsertEach("assign_each", x, {})
            \/ Is("erase_at") /\ \E k \in a[1] : EraseAt(x, k)
            \/ Is("erase") /\ Erase(x, a[1])
            \/ Is("erase_between") /\ EraseBetween(x, a[1], a[2])
            \/ Is("erase_equivalent") /\ EraseEquivalent(x, a[1], a[2])
            \/ Is("pop_front") /\ PopFront(x)
            \/ Is("pop_back") /\ PopBack(x)
            \/ Is("clear") /\ Clear(x)
            \/ Is("erase_if") /\ EraseIf(x, a[1])
            \/ Is("and") /\ AndAssign(x, a[1])
            \/ Is("or") /\ OrAssign(x, a[1])
            \/ Is("xor") /\ XorAssign(x, a[1])
            \/ Is("minus") /\ MinusAssign(x, a[1])
            \/ Is("and_key") /\ AndAssignKey(x, a[1])
            \/ Is("or_key") /\ OrAssignKey(x, a[1])
            \/ Is("xor_key") /\ XorAssignKey(x, a[1])
            \/ Is("minus_key") /\ MinusAssignKey(x, a[1])
            \/ Is("complement") /\ Complement(x)
            \/ Is("shift_up") /\ ShiftUp(x, a[1])
            \/ Is("shift_down") /\ ShiftDown(x, a[1])
            \/ Is("copy") /\ Copy(x, a[1])
            \/ Is("move") /\ Move(x, a[1])
            \/ Is("swap") /\ Swap(x, a[1])
            \/ Is("replace") /\ Replace(x)
            \/ Is("extract") /\ Extract(x)

Spec == Init /\ [][Next]_vars

=============================================================================
