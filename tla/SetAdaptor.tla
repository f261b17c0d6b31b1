----------------------------- MODULE SetAdaptor -----------------------------
(***************************************************************************)
(* The set reading: a set of keys over a bit_block_container, a key being  *)
(* the position its mapping ranks it at.  A call that makes one call of    *)
(* the storage is one action; one that makes several, each of which may be *)
(* refused, is one action for each, and pending says what is left of it.   *)
(*                                                                         *)
(* An iterator is the container and an index; the end, in either           *)
(* direction, is the index size(), the width.                              *)
(***************************************************************************)
EXTENDS BitBlockContainer, BlockScans, Widths, Sequences

CONSTANTS
    IsClosed,       \* whether the mapping names a size, and so closes the universe
    KeyMappingSize, \* that size
    is_descending   \* whether Compare is a greater

ASSUME KeyAssumption ==
    /\ IsClosed \in BOOLEAN /\ is_descending \in BOOLEAN
    /\ KeyMappingSize \in Nat
    /\ IsClosed /\ Kind # "dynamic" => KeyMappingSize = N

ASSUME StorageAssumption == MaxBlocks * bits_per_block + 1 < max_width

\* A block is more than a bit, and a word a whole number of them, so its top
\* value lies past the last whole block.
ASSUME WordAssumption == max_width < top

VARIABLES
    pending,    \* what is left of the call being made, and the keys it found
    answer      \* a history of the last call, and of what it answered or threw

set_vars == <<vars, pending, answer>>

\* The positions a caller's value may rank at: around every width there can
\* be, and around the most a heap can count.
Key == Width \cup {max_width - 1, max_width, top}

is_key(n) == IsClosed => n < KeyMappingSize

bits(x) == m_blocks[x]

max_size ==
    CASE Kind # "dynamic" -> N
      [] Kind = "dynamic" /\ IsClosed -> Min({KeyMappingSize, max_width})
      [] OTHER -> max_width

keys_size(x) == IF Counted THEN m_count[x] ELSE count_blocks(bits(x))

(***************************************************************************)
(* Calls and their outcomes.                                               *)
(***************************************************************************)
Nothing == [step |-> "none"]

Idle == pending.step = "none"

Answers(op, x, args, result) ==
    /\ answer' = Returned(op, x, args, result)
    /\ pending' = Nothing

Throws(op, x, args, exception) ==
    /\ answer' = [Threw(op, x, args) EXCEPT !.outcome = exception]
    /\ pending' = Nothing

\* The storage was called last, and answered or refused.
Settles(op, x, args, result) ==
    IF call'.outcome = "bad_alloc"
    THEN Throws(op, x, args, "bad_alloc")
    ELSE Answers(op, x, args, result)

\* The call goes on with a step, or throws what the storage threw.
Continues(step, op, x, args) ==
    IF call'.outcome = "bad_alloc"
    THEN Throws(op, x, args, "bad_alloc")
    ELSE /\ pending' = [step |-> step, op |-> op, x |-> x, args |-> args,
                        was |-> Positions(bits(x)), at |-> 0]
         /\ UNCHANGED answer

\* No call of the storage: the history of its last one is that of an ok.
Untouched == UNCHANGED contents /\ call' = [op |-> "none", outcome |-> "ok"]

Awaits(step) == pending.step = step

(***************************************************************************)
(* What a named write refuses: a key past a closed universe or a static    *)
(* width, and one past what the storage can count.                         *)
(***************************************************************************)
guard_key(n) ==
    CASE Kind = "static" /\ n >= N -> "out_of_range"
      [] Kind # "static" /\ ~is_key(n) -> "out_of_range"
      [] Kind # "static" /\ is_key(n) /\ width_sum(n, 1) > max_width -> "length_error"
      [] OTHER -> "none"

\* The operators' key, a precondition.
require_key(n) == IsClosed /\ is_key(n) /\ n < max_size

(***************************************************************************)
(* Iterators.                                                              *)
(***************************************************************************)
end(x) == m_size[x]

\* The key an iterator names, or none at the end.
key_at(x, i) == IF i = end(x) THEN {} ELSE {i}

\* Mutation: a step that may stay where it is.
next_position_inclusive(x, n) ==
    IF is_descending
    THEN total_find_prev(bits(x), m_size[x], n + 1)
    ELSE inclusive_find_next(bits(x), m_size[x], n)

next_position(x, n) ==
    IF is_descending
    THEN total_find_prev(bits(x), m_size[x], n)
    ELSE exclusive_find_next(bits(x), m_size[x], n)

\* Mutation: descending, the end is taken to lie past the highest key.
prev_position_highest(x, n) ==
    IF ~is_descending THEN exclusive_find_prev(bits(x), n)
    ELSE IF n = m_size[x] THEN total_find_prev(bits(x), m_size[x], n)
    ELSE exclusive_find_next(bits(x), m_size[x], n)

prev_position(x, n) ==
    IF ~is_descending THEN exclusive_find_prev(bits(x), n)
    ELSE IF n = m_size[x] THEN find_first(bits(x), m_size[x])
    ELSE exclusive_find_next(bits(x), m_size[x], n)

begin(x) ==
    IF is_descending
    THEN total_find_prev(bits(x), m_size[x], m_size[x])
    ELSE find_first(bits(x), m_size[x])

Iterators(x) == Positions(bits(x)) \cup {end(x)}

\* Whether an increment or more leads from one iterator to another.
reaches(x, first, last) ==
    \/ first = last
    \/ /\ first # end(x)
       /\ last = end(x) \/ (IF is_descending THEN last < first ELSE first < last)

(***************************************************************************)
(* Lookups, total over the keys.                                           *)
(***************************************************************************)
contains(x, n) == is_key(n) /\ n < m_size[x] /\ test(bits(x), n)

find(x, n) == IF contains(x, n) THEN n ELSE end(x)

\* The positions whose keys are equivalent to a value, which lie in [lo, hi),
\* partition points of the widths below the width.
equivalent_positions(x, lo, hi) == <<Min({lo, m_size[x]}), Min({hi, m_size[x]})>>

\* A value that is no key ranks at or past every key of its universe.
bound_between(x) ==
    LET lo == equivalent_positions(x, KeyMappingSize, KeyMappingSize)[1]
    IN  IF is_descending
        THEN total_find_prev(bits(x), m_size[x], lo)
        ELSE inclusive_find_next(bits(x), m_size[x], lo)

\* Mutation: descending, the scan starts below the key itself.
lower_bound_strict(x, n) ==
    IF ~is_key(n) THEN bound_between(x)
    ELSE IF is_descending
    THEN total_find_prev(bits(x), m_size[x], Min({n, m_size[x]}))
    ELSE IF n >= m_size[x] THEN end(x)
    ELSE inclusive_find_next(bits(x), m_size[x], n)

lower_bound(x, n) ==
    IF ~is_key(n) THEN bound_between(x)
    ELSE IF is_descending
    THEN total_find_prev(bits(x), m_size[x], IF n < m_size[x] THEN n + 1 ELSE m_size[x])
    ELSE IF n >= m_size[x] THEN end(x)
    ELSE inclusive_find_next(bits(x), m_size[x], n)

\* Mutation: the key itself is not stepped over.
upper_bound_inclusive(x, n) ==
    IF ~is_key(n) THEN bound_between(x)
    ELSE IF is_descending
    THEN total_find_prev(bits(x), m_size[x], Min({n + 1, m_size[x]}))
    ELSE IF n >= m_size[x] THEN end(x)
    ELSE inclusive_find_next(bits(x), m_size[x], n)

upper_bound(x, n) ==
    IF ~is_key(n) THEN bound_between(x)
    ELSE IF is_descending
    THEN total_find_prev(bits(x), m_size[x], Min({n, m_size[x]}))
    ELSE IF n >= m_size[x] THEN end(x)
    ELSE exclusive_find_next(bits(x), m_size[x], n)

(***************************************************************************)
(* Lookups of a value of another type, which the comparator takes to be    *)
(* equivalent to the keys of [lo, hi), hi a bound of the caller's type.    *)
(***************************************************************************)
contains_equivalent(x, lo, hi) ==
    LET e == equivalent_positions(x, lo, hi)
    IN  inclusive_find_next(bits(x), m_size[x], e[1]) < e[2]

find_equivalent(x, lo, hi) ==
    LET e   == equivalent_positions(x, lo, hi)
        pos == inclusive_find_next(bits(x), m_size[x], e[1])
    IN  IF pos < e[2] THEN pos ELSE end(x)

lower_bound_equivalent(x, lo, hi) ==
    LET e == equivalent_positions(x, lo, hi)
    IN  IF is_descending
        THEN total_find_prev(bits(x), m_size[x], e[2])
        ELSE inclusive_find_next(bits(x), m_size[x], e[1])

upper_bound_equivalent(x, lo, hi) ==
    LET e == equivalent_positions(x, lo, hi)
    IN  IF is_descending
        THEN total_find_prev(bits(x), m_size[x], e[1])
        ELSE inclusive_find_next(bits(x), m_size[x], e[2])

(***************************************************************************)
(* Insertion.                                                              *)
(***************************************************************************)
\* insert, emplace and their hinted forms.
DoInsert(x, n) ==
    /\ Idle
    /\ IF guard_key(n) # "none"
       THEN Throws("insert", x, <<n>>, guard_key(n)) /\ Untouched
       ELSE /\ growing_insert(x, n)
            /\ Settles("insert", x, <<n>>, <<{n}, call'.result>>)

\* Consecutive identity keys: the last first, so that there is room for all.
InsertRange(x, lo, len) ==
    LET hi == width_sum(lo, len - 1)
    IN  /\ Idle /\ ~IsClosed
        /\ IF len = 0
           THEN Answers("insert_range", x, <<lo, len>>, NoResult) /\ Untouched
           ELSE IF guard_key(hi) # "none"
           THEN Throws("insert_range", x, <<lo, len>>, guard_key(hi)) /\ Untouched
           ELSE /\ growing_insert(x, hi)
                /\ Continues("span", "insert_range", x, <<lo, len>>)

SetSpan ==
    /\ Awaits("span")
    /\ set_range(pending.x, pending.args[1], pending.args[2], TRUE)
    /\ Answers("insert_range", pending.x, pending.args, NoResult)

\* Any other range, a list assigned after a clear, and the constructors over
\* blocks just reset: key by key.
InsertEach(x, s) ==
    /\ Idle /\ Untouched
    /\ Continues("each", "insert_each", x, s)

AssignEach(x, s) ==
    /\ Idle
    /\ reset_all(x)
    /\ Continues("each", "assign_each", x, s)

InsertNext ==
    LET n == pending.args[pending.at + 1]
    IN  /\ Awaits("each") /\ pending.at < Len(pending.args)
        /\ IF guard_key(n) # "none"
           THEN Throws(pending.op, pending.x, pending.args, guard_key(n)) /\ Untouched
           ELSE /\ growing_insert(pending.x, n)
                /\ IF call'.outcome = "bad_alloc"
                   THEN Throws(pending.op, pending.x, pending.args, "bad_alloc")
                   ELSE /\ pending' = [pending EXCEPT !.at = @ + 1]
                        /\ UNCHANGED answer

InsertedEach ==
    /\ Awaits("each") /\ pending.at = Len(pending.args)
    /\ Answers(pending.op, pending.x, pending.args, NoResult) /\ Untouched

(***************************************************************************)
(* Erasure.                                                                *)
(***************************************************************************)
\* The successor is found first, and the position it steps from never read.
EraseAt(x, i) ==
    /\ Idle
    /\ i \in Positions(bits(x))
    /\ reset(x, i)
    /\ Answers("erase_at", x, <<{i}>>, key_at(x, next_position(x, i)))

EraseKey(x, n) ==
    /\ Idle
    /\ IF ~is_key(n) \/ n >= m_size[x]
       THEN Answers("erase", x, <<n>>, 0) /\ Untouched
       ELSE erase(x, n) /\ Answers("erase", x, <<n>>, one_if(call'.result))

\* Mutation: descending, the span starts at the iterator it is to stop at.
span_from_last(x, first, last) ==
    IF ~is_descending THEN <<first, last>>
    ELSE <<IF last = end(x) THEN 0 ELSE last, first + 1>>

\* The positions between two iterators, [lo, hi).
span(x, first, last) ==
    IF ~is_descending THEN <<first, last>>
    ELSE <<IF last = end(x) THEN 0 ELSE last + 1, first + 1>>

EraseBetween(x, first, last) ==
    LET s == span(x, first, last)
    IN  /\ Idle
        /\ {first, last} \subseteq Iterators(x) /\ reaches(x, first, last)
        /\ IF first # last THEN set_range(x, s[1], s[2] - s[1], FALSE) ELSE Untouched
        /\ Answers("erase_between", x, <<key_at(x, first), key_at(x, last)>>, key_at(x, last))

\* A value of another type: its keys counted and then cleared as one range.
EraseEquivalent(x, lo, hi) ==
    LET e == equivalent_positions(x, lo, hi)
    IN  /\ Idle
        /\ set_range(x, e[1], e[2] - e[1], FALSE)
        /\ Answers("erase_equivalent", x, <<lo, hi>>,
                   Cardinality(PositionsIn(bits(x), e[1], e[2] - e[1])))

PopFront(x) ==
    /\ Idle
    /\ IF is_descending THEN drop_back(x) ELSE drop_front(x)
    /\ Answers("pop_front", x, <<>>, NoResult)

PopBack(x) ==
    /\ Idle
    /\ IF is_descending THEN drop_front(x) ELSE drop_back(x)
    /\ Answers("pop_back", x, <<>>, NoResult)

\* Mutation: the storage is cleared, and its width with it.
Clear_narrowing(x) ==
    Idle /\ clear(x) /\ Answers("clear", x, <<>>, NoResult)

Clear(x) ==
    /\ Idle
    /\ reset_all(x)
    /\ Answers("clear", x, <<>>, NoResult)

\* erase_if, a loop over iterators it erases through, its end held throughout.
EraseIf(x, chosen) ==
    /\ Idle /\ Untouched
    /\ pending' = [step |-> "erase_if", op |-> "erase_if", x |-> x, args |-> <<chosen>>,
                   was |-> Positions(bits(x)), at |-> begin(x),
                   last |-> end(x), original_size |-> keys_size(x)]
    /\ UNCHANGED answer

EraseIfNext ==
    LET i == pending.at
    IN  /\ Awaits("erase_if") /\ i # pending.last
        /\ IF i \in pending.args[1] THEN reset(pending.x, i) ELSE Untouched
        /\ pending' = [pending EXCEPT !.at = next_position(pending.x, i)]
        /\ UNCHANGED answer

\* The predicate throws, and what was erased stays so.
EraseIfThrows ==
    /\ Awaits("erase_if") /\ pending.at # pending.last
    /\ Throws("erase_if", pending.x, pending.args, "predicate") /\ Untouched

ErasedIf ==
    /\ Awaits("erase_if") /\ pending.at = pending.last /\ Untouched
    /\ Answers("erase_if", pending.x, pending.args,
               pending.original_size - keys_size(pending.x))

(***************************************************************************)
(* The operators between two sets: union and symmetric difference grow to  *)
(* the other's highest key first, the other two never do.                  *)
(***************************************************************************)
AndAssign(x, y) ==
    Idle /\ and_assign(x, y) /\ Answers("and", x, <<y>>, NoResult)

MinusAssign(x, y) ==
    Idle /\ minus_assign(x, y) /\ Answers("minus", x, <<y>>, NoResult)

\* Mutation: the storage's operator, with no room made first.
GrowsFirst_not(op, x, y) ==
    Idle /\ Untouched /\ Continues("combine", op, x, <<y>>)

\* At a static width there is nothing to widen.
GrowsFirst(op, x, y) ==
    /\ Idle
    /\ IF has_stored_size THEN grow_to_admit(x, y) ELSE Untouched
    /\ Continues("combine", op, x, <<y>>)

OrAssign(x, y)  == GrowsFirst("or", x, y)
XorAssign(x, y) == GrowsFirst("xor", x, y)

Combine ==
    /\ Awaits("combine")
    /\ IF pending.op = "or" THEN or_assign(pending.x, pending.args[1])
                            ELSE xor_assign(pending.x, pending.args[1])
    /\ Answers(pending.op, pending.x, pending.args, NoResult)

(***************************************************************************)
(* The operators with an enumerator, the set that holds it alone.          *)
(***************************************************************************)
single(x, n) == bit_set(all_reset(bits(x)), n)

\* Mutation: only the block of the position is masked.
AndAssignKey_block(x, n) ==
    LET masked == [bits(x) EXCEPT ![index(n)] = @ \cap single(x, n)[index(n)]]
    IN  /\ Idle /\ require_key(n)
        /\ ~has_stored_size
        /\ write(x, count_blocks(masked), masked)
        /\ call' = Returned("and_assign", x, <<>>, NoResult)
        /\ Answers("and_key", x, <<n>>, NoResult)

\* At a static width a mask of one position; else a clear, and the key back.
AndAssignKey(x, n) ==
    LET masked == [i \in DOMAIN bits(x) |-> bits(x)[i] \cap single(x, n)[i]]
    IN  /\ Idle /\ require_key(n)
        /\ IF ~has_stored_size
           THEN /\ write(x, count_blocks(masked), masked)
                /\ call' = Returned("and_assign", x, <<>>, NoResult)
                /\ Answers("and_key", x, <<n>>, NoResult)
           ELSE /\ reset_all(x)
                /\ IF n < m_size[x] /\ test(bits(x), n)
                   THEN Continues("keep", "and_key", x, <<n>>)
                   ELSE Answers("and_key", x, <<n>>, NoResult)

Keep ==
    /\ Awaits("keep")
    /\ set(pending.x, pending.args[1])
    /\ Answers("and_key", pending.x, pending.args, NoResult)

OrAssignKey(x, n) ==
    /\ Idle /\ require_key(n)
    /\ growing_insert(x, n)
    /\ Settles("or_key", x, <<n>>, NoResult)

\* complement(x): a key past the width grows to it, one within is flipped.
XorAssignKey(x, n) ==
    /\ Idle /\ require_key(n)
    /\ IF has_stored_size /\ n >= m_size[x] THEN growing_insert(x, n) ELSE flip(x, n)
    /\ Settles("xor_key", x, <<n>>, NoResult)

MinusAssignKey(x, n) ==
    /\ Idle /\ require_key(n)
    /\ IF n < m_size[x] THEN erase(x, n) ELSE Untouched
    /\ Answers("minus_key", x, <<n>>, NoResult)

\* The complement of the whole set, where the width is the universe.
Complement(x) ==
    /\ Idle /\ Kind = "static"
    /\ flip_all(x)
    /\ Answers("complement", x, <<>>, NoResult)

(***************************************************************************)
(* The shifts translate the keys; n < max_size() is their precondition.    *)
(***************************************************************************)
\* Mutation: the width is not stopped at max_size().
shift_width_unbounded(x, n) == width_sum(m_size[x], n)

shift_width(x, n) == Min({width_sum(m_size[x], n), max_size})

\* Whether no key lands below max_size().
shifts_out(x, n) ==
    LET lowest == find_first(bits(x), m_size[x])
    IN  lowest = m_size[x] \/ n >= max_size - lowest

ShiftUp(x, n) ==
    /\ Idle /\ n < max_size
    /\ IF ~has_stored_size
       THEN shift_up(x, n) /\ Answers("shift_up", x, <<n>>, NoResult)
       ELSE IF shifts_out(x, n)
       THEN reset_all(x) /\ Answers("shift_up", x, <<n>>, NoResult)
       ELSE resize(x, shift_width(x, n), FALSE) /\ Continues("shift", "shift_up", x, <<n>>)

Shift ==
    /\ Awaits("shift")
    /\ shift_up(pending.x, pending.args[1])
    /\ Answers("shift_up", pending.x, pending.args, NoResult)

ShiftDown(x, n) ==
    /\ Idle /\ n < max_size
    /\ IF n < m_size[x] THEN shift_down(x, n) ELSE reset_all(x)
    /\ Answers("shift_down", x, <<n>>, NoResult)

(***************************************************************************)
(* Whole sets: assignments, exchange, and the blocks in and out.           *)
(***************************************************************************)
CopyAssign(x, y) ==
    Idle /\ copy_assign(x, y) /\ Settles("copy", x, <<y>>, NoResult)

MoveAssign(x, y) ==
    Idle /\ move_assign(x, y) /\ Answers("move", x, <<y>>, NoResult)

Swap(x, y) ==
    Idle /\ swap(x, y) /\ Answers("swap", x, <<y>>, NoResult)

\* The positions set in blocks adopted whole are keys of the universe.
Replace(x, b) ==
    /\ Idle
    /\ \A n \in Positions(b) : is_key(n)
    /\ replace(x, b)
    /\ Answers("replace", x, <<Positions(b)>>, NoResult)

Extract(x) ==
    Idle /\ extract(x) /\ Answers("extract", x, <<>>, Positions(bits(x)))

(***************************************************************************)
(* The state machine.  A set is constructed empty.                         *)
(***************************************************************************)
SetInit ==
    /\ Init
    /\ has_stored_size => m_size = [x \in Obj |-> 0]
    /\ pending = Nothing
    /\ answer = [op |-> "construct", outcome |-> "ok"]

Insertions(x) ==
    \/ \E n \in Key : DoInsert(x, n)
    \/ \E lo, len \in Key : lo + len <= top /\ InsertRange(x, lo, len)
    \/ \E n, m \in Key : InsertEach(x, <<n, m>>) \/ AssignEach(x, <<n, m>>)

Erasures(x) ==
    \/ \E i \in Width : EraseAt(x, i)
    \/ \E n \in Key : EraseKey(x, n)
    \/ \E first, last \in Width : EraseBetween(x, first, last)
    \/ \E lo, hi \in Width : lo <= hi /\ EraseEquivalent(x, lo, hi)
    \/ PopFront(x) \/ PopBack(x) \/ Clear(x)
    \/ \E chosen \in SUBSET Positions(bits(x)) : EraseIf(x, chosen)

KeyOperators(x) ==
    \E n \in Key : \/ AndAssignKey(x, n) \/ OrAssignKey(x, n)
                   \/ XorAssignKey(x, n) \/ MinusAssignKey(x, n)
                   \/ ShiftUp(x, n) \/ ShiftDown(x, n)

Whole(x) ==
    \/ Complement(x) \/ Extract(x)
    \/ \E k \in 0 .. MaxBlocks : \E b \in Storage(k) : Replace(x, b)

Binary(x, y) ==
    \/ AndAssign(x, y) \/ OrAssign(x, y) \/ XorAssign(x, y) \/ MinusAssign(x, y)
    \/ CopyAssign(x, y) \/ MoveAssign(x, y) \/ Swap(x, y)

Proceeds ==
    \/ SetSpan \/ InsertNext \/ InsertedEach
    \/ EraseIfNext \/ EraseIfThrows \/ ErasedIf
    \/ Combine \/ Keep \/ Shift

SetNext ==
    \/ \E x \in Obj : Insertions(x) \/ Erasures(x) \/ KeyOperators(x) \/ Whole(x)
    \/ \E x, y \in Obj : Binary(x, y)
    \/ Proceeds

SetSpec == SetInit /\ [][SetNext]_set_vars

\* Room is made for every key of the other set before the storage's |= or ^=,
\* which would leave those past the width in the unused tail, is reached.
Admitted == Awaits("combine") => admits(pending.x, pending.args[1])

=============================================================================
