---------------------------- MODULE MCSetAdaptor ----------------------------
(***************************************************************************)
(* The set reading on small instances: that it implements KeySet, what its *)
(* lookups and iterators find, and that every call ends.                   *)
(***************************************************************************)
EXTENDS SetAdaptor

\* No step reads the histories of the calls before it.
SetView == <<contents, pending>>

(***************************************************************************)
(* Two sets: enough insertions and erasures to reach every pair, and every *)
(* call that takes both.                                                   *)
(***************************************************************************)
PairNext ==
    \/ \E x \in Obj, n \in Key : DoInsert(x, n) \/ EraseKey(x, n)
    \/ \E x, y \in Obj : Binary(x, y)
    \/ Combine

PairSpec == SetInit /\ [][PairNext]_set_vars

(***************************************************************************)
(* Fairness: a call in progress takes its next step.  Nothing makes a      *)
(* predicate throw.                                                        *)
(***************************************************************************)
Runs ==
    \/ SetSpan \/ InsertNext \/ InsertedEach \/ EraseIfNext \/ ErasedIf
    \/ Combine \/ Keep \/ Shift

FairSetSpec == SetSpec /\ WF_SetView(Runs)

\* Every call ends: the loops of erase_if and of insertion key by key run out
\* of keys, although the first erases what it iterates over.
EveryCallEnds == []<>Idle

(***************************************************************************)
(* Refinement.                                                             *)
(***************************************************************************)
\* The keys of a set are its positions, not cut off at the width; and, while a
\* call is under way, those it had when the call began.
KeysNow == [x \in Obj |-> IF ~Idle /\ pending.x = x THEN pending.was ELSE Positions(bits(x))]

Keys == INSTANCE KeySet WITH
    Owner      <- IF Kind = "dynamic" THEN "heap" ELSE Kind,
    Limit      <- N,
    Universe   <- {n \in 0 .. top : is_key(n)},
    Countable  <- 0 .. max_width - 1,
    MaxSize    <- max_size,
    Descending <- is_descending,
    keys       <- KeysNow

\* Every call, however many calls of the storage it makes and whichever of
\* them is refused, does to the keys what it would to a set of keys, answers
\* what it should, and has no effects where it throws and promises none.
ImplementsKeySet == Keys!Spec

(***************************************************************************)
(* Lookups.                                                                *)
(***************************************************************************)
\* The iterator to the first of some keys, the end if there are none.
FirstOf(x, s) == IF s = {} THEN end(x) ELSE IF is_descending THEN Max(s) ELSE Min(s)

LastOf(s) == IF is_descending THEN Min(s) ELSE Max(s)

\* Whether one key comes before another.
Earlier(a, b) == IF is_descending THEN b < a ELSE a < b

\* A lookup of any value answers what a search of the keys in their order
\* would, whatever the width: the bounds of a value that is no key included.
KeyLookupsExact(x, n) ==
    LET held == Positions(bits(x))
    IN  /\ contains(x, n) <=> n \in held
        /\ find(x, n) = IF n \in held THEN n ELSE end(x)
        /\ lower_bound(x, n) = FirstOf(x, {k \in held : ~Earlier(k, n)})
        /\ upper_bound(x, n) = FirstOf(x, {k \in held : Earlier(n, k)})

\* And one by a value equivalent to a run of keys.
EquivalentLookupsExact(x, lo, hi) ==
    LET held == Positions(bits(x))
        run  == {k \in held : lo <= k /\ k < hi}
        passed == {k \in held : IF is_descending THEN k >= hi ELSE k < lo}
    IN  /\ contains_equivalent(x, lo, hi) <=> run # {}
        /\ find_equivalent(x, lo, hi) = IF run = {} THEN end(x) ELSE Min(run)
        /\ lower_bound_equivalent(x, lo, hi) = FirstOf(x, held \ passed)
        /\ upper_bound_equivalent(x, lo, hi) = FirstOf(x, held \ (passed \cup run))

\* From begin() the increments visit every key in order and then reach end(),
\* and the decrements go back over the same keys.
IterationExact(x) ==
    LET held == Positions(bits(x))
    IN  /\ begin(x) = FirstOf(x, held)
        /\ \A k \in held : next_position(x, k) = FirstOf(x, {j \in held : Earlier(k, j)})
        /\ \A i \in Iterators(x) :
              LET before == {j \in held : i = end(x) \/ Earlier(j, i)}
              IN  before # {} => prev_position(x, i) = LastOf(before)

\* Every lookup of every value, and the walk of the keys, in every set that
\* calls can leave.
LookupsExact ==
    \A x \in Obj :
        /\ \A n \in Key : KeyLookupsExact(x, n)
        /\ \A lo, hi \in Width : lo <= hi => EquivalentLookupsExact(x, lo, hi)
        /\ IterationExact(x)

(***************************************************************************)
(* Iterators held across a call.                                           *)
(***************************************************************************)
\* Calls that put other blocks in the set's place.
Exchanges == {"copy", "move", "swap", "replace", "extract"}

\* An iterator is an index, so growth keeps every iterator to a key; but end()
\* is the index size(), and one held goes stale when a call moves it.  Only an
\* insertion of its highest key, a |= or ^= with a set whose highest key is
\* past it, and a <<= do: no erasure, no step that is refused, no other write.
\* A <<= alone may move it down, to max_size(), when blocks wider than a
\* closed universe were adopted.
EndMoves ==
    \A x \in Obj :
        \/ end(x)' = end(x)
        \/ Idle' /\ answer'.op \in Exchanges
        \/ pending'.step = "shift" /\ end(x)' = Min({end(x) + pending'.args[1], max_size})
        \/ /\ end(x)' > end(x)
           /\ \/ end(x)' - 1 \in Positions(bits(x))'
              \/ pending'.step = "combine" /\ end(x)' - 1 \in Positions(bits(pending.args[1]))'

HeldEndMovesForKeys == [][EndMoves]_set_vars

=============================================================================
