-------------------------- MODULE SetAdaptorProofs --------------------------
(***************************************************************************)
(* The storage under the set reading, proved for every set of sets, kind   *)
(* of storage, block width, capacity, word and direction.  Over the        *)
(* storage alone |= and ^= need the other side admitted; here nothing is   *)
(* assumed of it: that the reading grows before it combines is an          *)
(* invariant of the call in progress, and each step of a call is then a    *)
(* step the storage allows.  Then what the lookups and iterators find,     *)
(* from what the scans of blocks do, and that the reading, call for call,  *)
(* is a set of keys.                                                       *)
(***************************************************************************)
EXTENDS MCSetAdaptor, BitStringProofs

(***************************************************************************)
(* The invariant.                                                          *)
(***************************************************************************)
\* What a call left half done relies on when it goes on: the positions it was
\* given are positions, and the other side of |= and ^= has been admitted.
PendingOK ==
    ~Idle =>
        /\ {"step", "op", "x", "args", "at"} \subseteq DOMAIN pending
        /\ pending.x \in Obj
        /\ Awaits("span") => pending.args[1] \in Nat /\ pending.args[2] \in Nat
        /\ Awaits("each") => /\ pending.at \in Nat
                         /\ \A i \in 1 .. Len(pending.args) : pending.args[i] \in Nat
        /\ Awaits("combine") => pending.args[1] \in Obj /\ admits(pending.x, pending.args[1])

SetInv == TypeOK /\ UnusedBitsClear /\ StoredCountExact /\ PendingOK

(***************************************************************************)
(* Numbers.                                                                *)
(***************************************************************************)
LEMMA MinOfTwo ==
    ASSUME NEW a \in Nat, NEW b \in Nat
    PROVE  Min({a, b}) \in {a, b} /\ Min({a, b}) <= a /\ Min({a, b}) <= b
<1>1. {a, b} \in SUBSET Nat /\ {a, b} # {}
  OBVIOUS
<1> QED
  BY <1>1, MinExists

\* The widths asked for are natural numbers and reach past the capacity.
LEMMA WidthBounds ==
    /\ MaxBlocks * bits_per_block \in Nat
    /\ Width = 0 .. MaxBlocks * bits_per_block + 1
    /\ 0 .. Ceiling \subseteq Width
<1>1. MaxBlocks * bits_per_block \in Nat
  BY MaxBlocksAssumption, BitsPerBlockAssumption
<1>2. Kind # "dynamic" => N <= MaxBlocks * bits_per_block
  BY MaxBlocksAssumption, NAssumption, BlocksForBounds
<1> QED
  BY <1>1, <1>2, NAssumption DEF Width, Ceiling

\* The positions up to a width are arguments the storage's calls range over.
LEMMA WithinWidth ==
    ASSUME TypeOK, NEW x \in Obj
    PROVE  m_size[x] \in Nat /\ 0 .. m_size[x] \subseteq Width
BY BlocksType, WidthBounds, CeilingType DEF TypeOK

\* The word a width is computed in has a positive range, and keys are natural numbers.
LEMMA WordBounds ==
    /\ top \in Nat
    /\ max_width \in Nat \ {0}
    /\ Key \subseteq Nat
<1>1. top \in Int
  BY SizeModAssumption DEF top
<1>2. max_width \in Int
  BY <1>1, BitsPerBlockAssumption DEF max_width
<1>3. max_width > 0
  BY <1>2, WidthBounds, StorageAssumption
<1>4. top \in Nat
  BY SizeModAssumption DEF top
<1> QED
  BY <1>2, <1>3, <1>4, WidthBounds DEF Key

\* A clamped sum of widths is a width.
LEMMA WidthSumType ==
    ASSUME NEW width \in Nat, NEW count \in Nat
    PROVE  width_sum(width, count) \in Nat
BY WordBounds DEF width_sum

\* So is the width a shift needs.
LEMMA ShiftWidthType ==
    ASSUME TypeOK, NEW x \in Obj, NEW n \in Nat
    PROVE  shift_width(x, n) \in Nat
<1>1. max_size \in Nat
  BY WordBounds, MinOfTwo, NAssumption, KeyAssumption DEF max_size
<1>2. width_sum(m_size[x], n) \in Nat
  BY WidthSumType, BlocksType
<1> QED
  BY <1>1, <1>2, MinOfTwo DEF shift_width

(***************************************************************************)
(* What the clear tail says of the positions, and the highest of them.     *)
(***************************************************************************)
\* No position is above the highest.
LEMMA FindBackHighest ==
    ASSUME NEW k \in Nat, NEW b \in Storage(k), NEW p \in Positions(b)
    PROVE  any(b) /\ find_back(b) \in Nat /\ p \in Nat /\ p <= find_back(b)
<1>1. any(b) /\ p \in Nat
  BY AnyPosition DEF Positions
<1> QED
  BY <1>1, EndPositions, FindBackType

(***************************************************************************)
(* The calls of the storage.  Each is a step of the storage's own, or is   *)
(* refused and leaves what there was, although the reading asks for widths *)
(* and positions the storage's own steps do not range over.                *)
(***************************************************************************)
StorageStep == Next \/ UNCHANGED contents

\* A step of the storage keeps the storage's invariants.
LEMMA StorageStepKeeps ==
    ASSUME TypeOK, UnusedBitsClear, StorageStep
    PROVE  TypeOK' /\ UnusedBitsClear' /\ (StoredCountExact => StoredCountExact')
<1>1. CASE UNCHANGED contents
  BY <1>1, RefusedType, UnwrittenTail, UnwrittenCount DEF contents
<1>2. CASE \E x \in Obj : Grow(x) \/ Exchange(x) \/ WritePosition(x) \/ WriteMany(x) \/ Move(x)
  BY <1>2, GrowType, ExchangeType, WritePositionType, WriteManyType, MoveType,
     GrowTail, ExchangeTail, WritePositionTail, WriteManyTail, MoveTail,
     GrowCount, ExchangeCount, WritePositionCount, WriteManyCount, MoveCount
<1>3. CASE \E x, y \in Obj : Pairwise(x, y)
  BY <1>3, PairwiseType, PairwiseTail, PairwiseCount
<1> QED
  BY <1>1, <1>2, <1>3 DEF StorageStep, Next

\* A width that was granted is one the storage's steps range over.
LEMMA GrantedWithin ==
    ASSUME TypeOK, has_stored_size, NEW x \in Obj, NEW n \in Nat,
           check_capacity(n), reallocate(x, blocks_for(n))
    PROVE  n \in Width
<1>1. blocks_for(n) <= MaxBlocks
  BY BlocksForBounds, ReallocateType
<1> QED
  BY <1>1, GrantedWidth, WidthBounds

\* A resize to any width is a step of the storage.
LEMMA ResizeStep ==
    ASSUME TypeOK, NEW x \in Obj, NEW n \in Nat, resize(x, n, FALSE)
    PROVE  StorageStep
<1>1. CASE UNCHANGED contents
  BY <1>1 DEF StorageStep
<1>2. CASE resize_to(x, n, FALSE)
  <2>1. n \in Width
    BY <1>2, GrantedWithin DEF resize, resize_to
  <2> QED
    BY <2>1 DEF StorageStep, Next, Grow
<1> QED
  BY <1>1, <1>2 DEF resize, refused

\* So is an insertion of any key.
LEMMA GrowingInsertStep ==
    ASSUME TypeOK, NEW x \in Obj, NEW n \in Nat, growing_insert(x, n)
    PROVE  StorageStep
<1>1. CASE UNCHANGED contents
  BY <1>1 DEF StorageStep
<1>2. CASE n < m_size[x]
  <2>1. n \in Width
    BY <1>2, WithinWidth
  <2> QED
    BY <2>1 DEF StorageStep, Next, Grow
<1>3. CASE has_stored_size /\ check_capacity(n + 1) /\ reallocate(x, blocks_for(n + 1))
  <2>1. n + 1 \in Width
    BY <1>3, GrantedWithin
  <2>2. n \in Width
    BY <2>1, WidthBounds
  <2> QED
    BY <2>2 DEF StorageStep, Next, Grow
<1> QED
  BY <1>1, <1>2, <1>3 DEF growing_insert, refused

\* So is a write to any range.
LEMMA SetRangeStep ==
    ASSUME TypeOK, NEW x \in Obj, NEW n \in Nat, NEW len \in Nat, NEW value \in BOOLEAN,
           set_range(x, n, len, value)
    PROVE  StorageStep
<1>1. n + len <= m_size[x]
  BY DEF set_range
<1>2. n \in 0 .. m_size[x] /\ len \in 0 .. m_size[x]
  BY <1>1, BlocksType
<1>3. n \in Width /\ len \in Width
  BY <1>2, WithinWidth
<1> QED
  BY <1>3 DEF StorageStep, Next, WriteMany

\* A call on one position checks it against the width.
LEMMA PositionStep ==
    ASSUME TypeOK, NEW x \in Obj, NEW n,
           \/ set(x, n) \/ reset(x, n) \/ flip(x, n) \/ erase(x, n)
           \/ shift_up(x, n) \/ shift_down(x, n)
    PROVE  StorageStep
<1>1. n \in 0 .. m_size[x] - 1
  BY DEF set, reset, flip, erase, shift_up, shift_down, is_valid
<1>2. n \in Width
  BY <1>1, WithinWidth
<1> QED
  BY <1>2 DEF StorageStep, Next, WritePosition, Move

\* So are the calls on the whole storage.
LEMMA WholeStep ==
    ASSUME NEW x \in Obj,
           \/ drop_front(x) \/ drop_back(x) \/ reset_all(x) \/ flip_all(x) \/ extract(x)
           \/ \E k \in 0 .. MaxBlocks : \E b \in Storage(k) : replace(x, b)
    PROVE  StorageStep
BY DEF StorageStep, Next, WritePosition, WriteMany, Exchange

\* So are the calls on two, those that combine where the other is admitted.
LEMMA PairStep ==
    ASSUME NEW x \in Obj, NEW y \in Obj,
           \/ copy_assign(x, y) \/ move_assign(x, y) \/ swap(x, y) \/ grow_to_admit(x, y)
           \/ and_assign(x, y) \/ minus_assign(x, y)
           \/ admits(x, y) /\ (or_assign(x, y) \/ xor_assign(x, y))
    PROVE  StorageStep
BY DEF StorageStep, Next, Pairwise

\* What the operators with a key leave at a static width is part of what there
\* was.
LEMMA MaskKeeps ==
    ASSUME TypeOK, UnusedBitsClear, NEW x \in Obj, NEW mask,
           LET masked == [i \in DOMAIN bits(x) |-> bits(x)[i] \cap mask[i]]
           IN  write(x, count_blocks(masked), masked)
    PROVE  TypeOK' /\ UnusedBitsClear' /\ (StoredCountExact => StoredCountExact')
<1> DEFINE k == blocks_for(m_size[x])
           b == m_blocks[x]
           masked == [i \in DOMAIN b |-> b[i] \cap mask[i]]
<1>1. k \in Nat /\ b \in Storage(k) /\ TailClear(b, m_size[x])
  BY BlocksType DEF UnusedBitsClear
<1>2. DOMAIN b = 0 .. k - 1 /\ \A i \in 0 .. k - 1 : b[i] \in Block
  BY <1>1, NumBlocks DEF Storage
<1>3. masked \in Storage(k) /\ \A i \in 0 .. k - 1 : masked[i] \subseteq b[i]
  BY <1>2 DEF Storage, Block
<1>4. write(x, count_blocks(masked), masked)
  BY DEF bits
<1> HIDE DEF b, masked
<1>5. TailClear(masked, m_size[x])
  BY <1>1, <1>3, SubsetTail
<1>6. count_blocks(masked) \in Int
  BY <1>1, <1>3, CountBlocksType
<1> QED
  BY <1>1, <1>3, <1>4, <1>5, <1>6, WriteType, WriteTail, WriteCount

(***************************************************************************)
(* Room is made for the other side of |= and ^= before it is combined.     *)
(***************************************************************************)
\* Two sets of one width, or one set twice.
LEMMA SameWidthAdmits ==
    ASSUME TypeOK, UnusedBitsClear, NEW x \in Obj, NEW y \in Obj, m_size[x] = m_size[y]
    PROVE  admits(x, y)
BY BlocksType, KeysBelow DEF admits, UnusedBitsClear

\* grow_to_admit, unless it was refused, admits.
LEMMA GrownAdmits ==
    ASSUME TypeOK, UnusedBitsClear, NEW x \in Obj, NEW y \in Obj,
           grow_to_admit(x, y), call'.outcome # "bad_alloc"
    PROVE  admits(x, y)'
<1> DEFINE b == m_blocks[y]
           n == find_back(b) + 1
           k == blocks_for(m_size[y])
<1>1. k \in Nat /\ b \in Storage(k) /\ m_size[x] \in Nat
  BY BlocksType
<1>2. \A p \in Positions(b) : any(b) /\ n \in Nat /\ p \in Nat /\ p < n
  BY <1>1, FindBackHighest
<1>3. CASE UNCHANGED contents /\ ~(any(b) /\ n > m_size[x])
  <2>1. \A p \in Positions(b) : p < m_size[x]
    BY <1>1, <1>2, <1>3
  <2> QED
    BY <1>3, <2>1 DEF admits, contents
<1>4. CASE any(b) /\ n > m_size[x] /\ resize_to(x, n, FALSE)
  <2>1. CASE x = y
    <3>1. TypeOK' /\ UnusedBitsClear'
      BY PairStep, StorageStepKeeps
    <3>2. m_size'[y] \in Nat /\ m_blocks'[y] \in Storage(blocks_for(m_size'[y]))
      BY <3>1, CeilingType DEF TypeOK
    <3>3. \A p \in Positions(m_blocks'[y]) : p < m_size'[y]
      BY <3>1, <3>2, BlocksForBounds, KeysBelow DEF UnusedBitsClear
    <3> QED
      BY <2>1, <3>3 DEF admits
  <2>2. CASE x # y
    <3>1. m_size'[x] = n /\ m_blocks'[y] = b
      BY <1>4, <2>2 DEF resize_to, store, TypeOK
    <3> QED
      BY <1>2, <3>1 DEF admits
  <2> QED
    BY <2>1, <2>2
<1>5. ~refused("grow_to_admit", x, <<y>>)
  BY DEF refused, Threw
<1> QED
  BY <1>3, <1>4, <1>5 DEF grow_to_admit

(***************************************************************************)
(* What is left of a call.                                                 *)
(***************************************************************************)
LEMMA EndsKeep ==
    ASSUME pending' = Nothing
    PROVE  PendingOK'
BY DEF PendingOK, Idle, Nothing

\* A call that returns leaves nothing pending.
LEMMA SettlesKeep ==
    ASSUME NEW op, NEW x, NEW args, NEW result, Settles(op, x, args, result)
    PROVE  PendingOK'
BY EndsKeep DEF Settles, Throws, Answers

\* A call that goes on leaves what its next step needs.
LEMMA ContinuesKeep ==
    ASSUME NEW step \in {"span", "each", "combine", "keep", "shift"}, NEW op, NEW x \in Obj,
           NEW args, Continues(step, op, x, args),
           step = "span" => args[1] \in Nat /\ args[2] \in Nat,
           step = "each" => \A i \in 1 .. Len(args) : args[i] \in Nat,
           step = "combine" /\ call'.outcome # "bad_alloc" => args[1] \in Obj /\ admits(x, args[1])'
    PROVE  PendingOK'
<1>1. CASE call'.outcome = "bad_alloc"
  BY <1>1, EndsKeep DEF Continues, Throws
<1>2. CASE call'.outcome # "bad_alloc"
  <2> DEFINE was == Positions(bits(x))
  <2>1. pending' = [step |-> step, op |-> op, x |-> x, args |-> args, was |-> was, at |-> 0]
    BY <1>2 DEF Continues
  <2> HIDE DEF was
  <2>2. /\ {"step", "op", "x", "args", "at"} \subseteq DOMAIN pending'
        /\ pending'.step = step /\ pending'.x = x /\ pending'.args = args /\ pending'.at = 0
    BY <2>1
  <2> QED
    BY <1>2, <2>2 DEF PendingOK, Idle, Awaits
<1> QED
  BY <1>1, <1>2

(***************************************************************************)
(* Every step, by the group of calls it belongs to.                        *)
(***************************************************************************)
LEMMA InsertionsKeep ==
    ASSUME SetInv, NEW x \in Obj, Insertions(x)
    PROVE  SetInv'
<1> USE DEF SetInv
<1>1. ASSUME NEW n \in Key, DoInsert(x, n)
      PROVE  StorageStep /\ PendingOK'
  <2>1. n \in Nat
    BY WordBounds
  <2>2. CASE guard_key(n) # "none"
    BY <1>1, <2>2, EndsKeep DEF DoInsert, Throws, Untouched, StorageStep
  <2>3. CASE guard_key(n) = "none"
    <3>1. growing_insert(x, n)
      BY <1>1, <2>3 DEF DoInsert
    <3>2. StorageStep
      BY <2>1, <3>1, GrowingInsertStep
    <3>3. pending' = Nothing
      BY <1>1, <2>3 DEF DoInsert, Settles, Throws, Answers
    <3> QED
      BY <3>2, <3>3, EndsKeep
  <2> QED
    BY <2>2, <2>3
<1>2. ASSUME NEW lo \in Key, NEW len \in Key, InsertRange(x, lo, len)
      PROVE  StorageStep /\ PendingOK'
  <2> DEFINE hi == width_sum(lo, len - 1)
  <2>1. lo \in Nat /\ len \in Nat
    BY WordBounds
  <2>2. CASE len = 0 \/ guard_key(hi) # "none"
    BY <1>2, <2>2, EndsKeep DEF InsertRange, Answers, Throws, Untouched, StorageStep
  <2>3. CASE len # 0 /\ guard_key(hi) = "none"
    <3>1. hi \in Nat
      BY <2>1, <2>3, WidthSumType
    <3>2. growing_insert(x, hi) /\ Continues("span", "insert_range", x, <<lo, len>>)
      BY <1>2, <2>3 DEF InsertRange
    <3> HIDE DEF hi
    <3>3. StorageStep
      BY <3>1, <3>2, GrowingInsertStep
    <3> QED
      BY <2>1, <3>2, <3>3, ContinuesKeep
  <2> QED
    BY <2>2, <2>3
<1>3. ASSUME NEW n \in Key, NEW m \in Key, InsertEach(x, <<n, m>>) \/ AssignEach(x, <<n, m>>)
      PROVE  StorageStep /\ PendingOK'
  <2>1. n \in Nat /\ m \in Nat
    BY WordBounds
  <2>2. \A i \in 1 .. Len(<<n, m>>) : <<n, m>>[i] \in Nat
    BY <2>1
  <2>3. StorageStep
    BY <1>3, WholeStep DEF InsertEach, AssignEach, Untouched, StorageStep
  <2>4. CASE InsertEach(x, <<n, m>>)
    BY <2>2, <2>3, <2>4, ContinuesKeep DEF InsertEach
  <2>5. CASE AssignEach(x, <<n, m>>)
    BY <2>2, <2>3, <2>5, ContinuesKeep DEF AssignEach
  <2> QED
    BY <1>3, <2>4, <2>5
<1> QED
  BY <1>1, <1>2, <1>3, StorageStepKeeps DEF Insertions

\* The range between two iterators of a set is a range of natural numbers.
LEMMA SpanBounds ==
    ASSUME TypeOK, UnusedBitsClear, NEW x \in Obj, NEW first \in Width, NEW last \in Width,
           {first, last} \subseteq Iterators(x), reaches(x, first, last), first # last
    PROVE  LET s == span(x, first, last)
           IN  s[1] \in Nat /\ s[2] - s[1] \in Nat
<1>1. first \in Nat /\ last \in Nat
  BY WidthBounds
<1>2. first # end(x) /\ first \in Positions(bits(x))
  BY DEF reaches, Iterators
<1>3. first < end(x)
  BY <1>2, BlocksType, KeysBelow DEF UnusedBitsClear, bits, end
<1>4. CASE is_descending
  <2>1. last = end(x) \/ last < first
    BY <1>4 DEF reaches
  <2>2. span(x, first, last) = <<IF last = end(x) THEN 0 ELSE last + 1, first + 1>>
    BY <1>4 DEF span
  <2> QED
    BY <1>1, <2>1, <2>2
<1>5. CASE ~is_descending
  <2>1. first < last
    BY <1>3, <1>5 DEF reaches
  <2>2. span(x, first, last) = <<first, last>>
    BY <1>5 DEF span
  <2> QED
    BY <1>1, <2>1, <2>2
<1> QED
  BY <1>4, <1>5

\* The erasures keep the invariant.
LEMMA ErasuresKeep ==
    ASSUME SetInv, NEW x \in Obj, Erasures(x)
    PROVE  SetInv'
<1> USE DEF SetInv
<1>1. ASSUME NEW i \in Width, EraseAt(x, i)
      PROVE  StorageStep /\ PendingOK'
  BY <1>1, PositionStep, EndsKeep DEF EraseAt, Answers
<1>2. ASSUME NEW n \in Key, EraseKey(x, n)
      PROVE  StorageStep /\ PendingOK'
  <2>1. pending' = Nothing
    BY <1>2 DEF EraseKey, Answers
  <2>2. UNCHANGED contents \/ erase(x, n)
    BY <1>2 DEF EraseKey, Untouched
  <2> QED
    BY <2>1, <2>2, EndsKeep, PositionStep DEF StorageStep
<1>3. ASSUME NEW first \in Width, NEW last \in Width, EraseBetween(x, first, last)
      PROVE  StorageStep /\ PendingOK'
  <2> DEFINE s == span(x, first, last)
  <2>1. pending' = Nothing
    BY <1>3 DEF EraseBetween, Answers
  <2>2. CASE first = last
    BY <1>3, <2>1, <2>2, EndsKeep DEF EraseBetween, Untouched, StorageStep
  <2>3. CASE first # last
    <3>1. s[1] \in Nat /\ s[2] - s[1] \in Nat
      BY <1>3, <2>3, SpanBounds DEF EraseBetween
    <3>2. set_range(x, s[1], s[2] - s[1], FALSE)
      BY <1>3, <2>3 DEF EraseBetween
    <3> HIDE DEF s
    <3> QED
      BY <2>1, <3>1, <3>2, EndsKeep, SetRangeStep
  <2> QED
    BY <2>2, <2>3
<1>4. ASSUME NEW lo \in Width, NEW hi \in Width, lo <= hi, EraseEquivalent(x, lo, hi)
      PROVE  StorageStep /\ PendingOK'
  <2> DEFINE l == Min({lo, m_size[x]})
             h == Min({hi, m_size[x]})
  <2>1. lo \in Nat /\ hi \in Nat /\ m_size[x] \in Nat
    BY WidthBounds, BlocksType
  <2>2. l \in {lo, m_size[x]} /\ l <= lo /\ l <= m_size[x] /\ h \in {hi, m_size[x]}
    BY <2>1, MinOfTwo
  <2> HIDE DEF l, h
  <2>3. l \in Nat /\ h - l \in Nat
    BY <1>4, <2>1, <2>2
  <2>4. set_range(x, l, h - l, FALSE) /\ pending' = Nothing
    BY <1>4 DEF EraseEquivalent, equivalent_positions, Answers, l, h
  <2> QED
    BY <2>3, <2>4, EndsKeep, SetRangeStep
<1>5. ASSUME PopFront(x) \/ PopBack(x) \/ Clear(x)
      PROVE  StorageStep /\ PendingOK'
  BY <1>5, WholeStep, EndsKeep DEF PopFront, PopBack, Clear, Answers
<1>6. ASSUME NEW chosen, EraseIf(x, chosen)
      PROVE  StorageStep /\ PendingOK'
  <2>1. StorageStep
    BY <1>6 DEF EraseIf, Untouched, StorageStep
  <2>2. PICK was, at, last, size :
           pending' = [step |-> "erase_if", op |-> "erase_if", x |-> x, args |-> <<chosen>>,
                       was |-> was, at |-> at, last |-> last, original_size |-> size]
    BY <1>6 DEF EraseIf
  <2>3. /\ {"step", "op", "x", "args", "at"} \subseteq DOMAIN pending'
        /\ pending'.step = "erase_if" /\ pending'.x = x
    BY <2>2
  <2> QED
    BY <2>1, <2>3 DEF PendingOK, Idle, Awaits
<1> QED
  BY <1>1, <1>2, <1>3, <1>4, <1>5, <1>6, StorageStepKeeps DEF Erasures

\* So do the operators on a set and one key, and the shifts.
LEMMA KeyOperatorsKeep ==
    ASSUME SetInv, NEW x \in Obj, KeyOperators(x)
    PROVE  SetInv'
<1> USE DEF SetInv
<1> PICK n \in Key : \/ AndAssignKey(x, n) \/ OrAssignKey(x, n)
                     \/ XorAssignKey(x, n) \/ MinusAssignKey(x, n)
                     \/ ShiftUp(x, n) \/ ShiftDown(x, n)
  BY DEF KeyOperators
<1>1. n \in Nat
  BY WordBounds
<1>2. CASE AndAssignKey(x, n) /\ ~has_stored_size
  <2>1. pending' = Nothing
    BY <1>2 DEF AndAssignKey, Answers
  <2>2. TypeOK' /\ UnusedBitsClear' /\ StoredCountExact'
    BY <1>2, MaskKeeps DEF AndAssignKey
  <2> QED
    BY <2>1, <2>2, EndsKeep
<1>3. CASE AndAssignKey(x, n) /\ has_stored_size
  <2>1. StorageStep
    BY <1>3, WholeStep DEF AndAssignKey
  <2>2. PendingOK'
    BY <1>3, EndsKeep, ContinuesKeep DEF AndAssignKey, Answers
  <2> QED
    BY <2>1, <2>2, StorageStepKeeps
<1>4. CASE OrAssignKey(x, n)
  BY <1>1, <1>4, GrowingInsertStep, SettlesKeep, StorageStepKeeps DEF OrAssignKey
<1>5. CASE XorAssignKey(x, n)
  BY <1>1, <1>5, GrowingInsertStep, PositionStep, SettlesKeep, StorageStepKeeps DEF XorAssignKey
<1>6. CASE MinusAssignKey(x, n)
  <2>1. pending' = Nothing
    BY <1>6 DEF MinusAssignKey, Answers
  <2>2. UNCHANGED contents \/ erase(x, n)
    BY <1>6 DEF MinusAssignKey, Untouched
  <2> QED
    BY <2>1, <2>2, EndsKeep, PositionStep, StorageStepKeeps DEF StorageStep
<1>7. CASE ShiftUp(x, n)
  <2>1. CASE ~has_stored_size \/ shifts_out(x, n)
    <3>1. pending' = Nothing
      BY <1>7, <2>1 DEF ShiftUp, Answers
    <3>2. shift_up(x, n) \/ reset_all(x)
      BY <1>7, <2>1 DEF ShiftUp
    <3> QED
      BY <3>1, <3>2, EndsKeep, PositionStep, WholeStep, StorageStepKeeps
  <2>2. CASE has_stored_size /\ ~shifts_out(x, n)
    <3>1. resize(x, shift_width(x, n), FALSE) /\ Continues("shift", "shift_up", x, <<n>>)
      BY <1>7, <2>2 DEF ShiftUp
    <3>2. StorageStep
      BY <1>1, <3>1, ShiftWidthType, ResizeStep
    <3> QED
      BY <3>1, <3>2, ContinuesKeep, StorageStepKeeps
  <2> QED
    BY <2>1, <2>2
<1>8. CASE ShiftDown(x, n)
  <2>1. pending' = Nothing
    BY <1>8 DEF ShiftDown, Answers
  <2>2. shift_down(x, n) \/ reset_all(x)
    BY <1>8 DEF ShiftDown
  <2> QED
    BY <2>1, <2>2, EndsKeep, PositionStep, WholeStep, StorageStepKeeps
<1> QED
  BY <1>2, <1>3, <1>4, <1>5, <1>6, <1>7, <1>8

\* So do the calls on the whole set.
LEMMA WholeKeep ==
    ASSUME SetInv, NEW x \in Obj, Whole(x)
    PROVE  SetInv'
<1> USE DEF SetInv
<1>1. pending' = Nothing
  BY DEF Whole, Complement, Extract, Replace, Answers
<1>2. \/ flip_all(x) \/ extract(x)
      \/ \E k \in 0 .. MaxBlocks : \E b \in Storage(k) : replace(x, b)
  BY DEF Whole, Complement, Extract, Replace
<1> QED
  BY <1>1, <1>2, EndsKeep, WholeStep, StorageStepKeeps

\* So do the calls on two sets.
LEMMA BinaryKeep ==
    ASSUME SetInv, NEW x \in Obj, NEW y \in Obj, Binary(x, y)
    PROVE  SetInv'
<1> USE DEF SetInv
<1>1. CASE AndAssign(x, y) \/ MinusAssign(x, y) \/ MoveAssign(x, y) \/ Swap(x, y)
  <2>1. pending' = Nothing
    BY <1>1 DEF AndAssign, MinusAssign, MoveAssign, Swap, Answers
  <2>2. and_assign(x, y) \/ minus_assign(x, y) \/ move_assign(x, y) \/ swap(x, y)
    BY <1>1 DEF AndAssign, MinusAssign, MoveAssign, Swap
  <2> QED
    BY <2>1, <2>2, EndsKeep, PairStep, StorageStepKeeps
<1>2. CASE CopyAssign(x, y)
  BY <1>2, SettlesKeep, PairStep, StorageStepKeeps DEF CopyAssign
<1>3. ASSUME NEW op, GrowsFirst(op, x, y)
      PROVE  SetInv'
  <2>1. Continues("combine", op, x, <<y>>)
    BY <1>3 DEF GrowsFirst
  <2>2. CASE has_stored_size
    <3>1. grow_to_admit(x, y)
      BY <1>3, <2>2 DEF GrowsFirst
    <3>2. call'.outcome # "bad_alloc" => admits(x, y)'
      BY <3>1, GrownAdmits
    <3> QED
      BY <2>1, <3>1, <3>2, ContinuesKeep, PairStep, StorageStepKeeps
  <2>3. CASE ~has_stored_size
    <3>1. UNCHANGED contents
      BY <1>3, <2>3 DEF GrowsFirst, Untouched
    <3>2. admits(x, y)
      BY <2>3, SameWidthAdmits DEF TypeOK, has_stored_size
    <3>3. admits(x, y)'
      BY <3>1, <3>2 DEF admits, contents
    <3> QED
      BY <2>1, <3>1, <3>3, ContinuesKeep, StorageStepKeeps DEF StorageStep
  <2> QED
    BY <2>2, <2>3
<1> QED
  BY <1>1, <1>2, <1>3 DEF Binary, OrAssign, XorAssign

\* So does the next step of a call already begun.
LEMMA ProceedsKeep ==
    ASSUME SetInv, Proceeds
    PROVE  SetInv'
<1> USE DEF SetInv
<1> DEFINE x == pending.x
           args == pending.args
<1>1. CASE SetSpan
  <2>1. x \in Obj /\ args[1] \in Nat /\ args[2] \in Nat
    BY <1>1 DEF SetSpan, Awaits, Idle, PendingOK
  <2>2. set_range(x, args[1], args[2], TRUE) /\ pending' = Nothing
    BY <1>1 DEF SetSpan, Answers
  <2> HIDE DEF x, args
  <2> QED
    BY <2>1, <2>2, EndsKeep, SetRangeStep, StorageStepKeeps
<1>2. CASE InsertNext
  <2> DEFINE n == args[pending.at + 1]
  <2>1. /\ {"step", "op", "x", "args", "at"} \subseteq DOMAIN pending
        /\ x \in Obj /\ pending.at \in Nat /\ pending.step = "each"
        /\ \A i \in 1 .. Len(args) : args[i] \in Nat
    BY <1>2 DEF InsertNext, Awaits, Idle, PendingOK
  <2>2. CASE guard_key(n) # "none"
    BY <1>2, <2>2, EndsKeep, StorageStepKeeps DEF InsertNext, Throws, Untouched, StorageStep
  <2>3. CASE guard_key(n) = "none"
    <3>1. n \in Nat
      <4>1. pending.at < Len(args)
        BY <1>2 DEF InsertNext
      <4>2. Len(args) \in Nat
        OBVIOUS
      <4> QED
        BY <2>1, <4>1, <4>2
    <3>2. growing_insert(x, n)
      BY <1>2, <2>3 DEF InsertNext
    <3> HIDE DEF n
    <3>3. TypeOK' /\ UnusedBitsClear' /\ StoredCountExact'
      BY <2>1, <3>1, <3>2, GrowingInsertStep, StorageStepKeeps
    <3>4. pending' = Nothing \/ pending' = [pending EXCEPT !.at = @ + 1]
      BY <1>2, <2>3 DEF InsertNext, Throws, n
    <3>5. CASE pending' = [pending EXCEPT !.at = @ + 1]
      <4>1. /\ DOMAIN pending' = DOMAIN pending
            /\ pending'.step = "each" /\ pending'.x = x /\ pending'.args = args
            /\ pending'.at = pending.at + 1
        BY <2>1, <3>5
      <4> QED
        BY <2>1, <3>3, <4>1 DEF PendingOK, Idle, Awaits
    <3> QED
      BY <3>3, <3>4, <3>5, EndsKeep
  <2> QED
    BY <2>2, <2>3
<1>3. CASE InsertedEach \/ EraseIfThrows \/ ErasedIf
  <2>1. pending' = Nothing /\ UNCHANGED contents
    BY <1>3 DEF InsertedEach, EraseIfThrows, ErasedIf, Answers, Throws, Untouched
  <2> QED
    BY <2>1, EndsKeep, StorageStepKeeps DEF StorageStep
<1>4. CASE EraseIfNext
  <2>1. /\ {"step", "op", "x", "args", "at"} \subseteq DOMAIN pending
        /\ x \in Obj /\ pending.step = "erase_if"
    BY <1>4 DEF EraseIfNext, Awaits, Idle, PendingOK
  <2>2. reset(x, pending.at) \/ UNCHANGED contents
    BY <1>4 DEF EraseIfNext, Untouched
  <2>3. TypeOK' /\ UnusedBitsClear' /\ StoredCountExact'
    BY <2>1, <2>2, PositionStep, StorageStepKeeps DEF StorageStep
  <2>4. PICK next : pending' = [pending EXCEPT !.at = next]
    BY <1>4 DEF EraseIfNext
  <2>5. DOMAIN pending' = DOMAIN pending /\ pending'.step = "erase_if" /\ pending'.x = x
    BY <2>1, <2>4
  <2> QED
    BY <2>1, <2>3, <2>5 DEF PendingOK, Idle, Awaits
<1>5. CASE Combine
  <2>1. x \in Obj /\ args[1] \in Obj /\ admits(x, args[1])
    BY <1>5 DEF Combine, Awaits, Idle, PendingOK
  <2>2. or_assign(x, args[1]) \/ xor_assign(x, args[1])
    BY <1>5 DEF Combine
  <2>3. pending' = Nothing
    BY <1>5 DEF Combine, Answers
  <2> HIDE DEF x, args
  <2> QED
    BY <2>1, <2>2, <2>3, EndsKeep, PairStep, StorageStepKeeps
<1>6. CASE Keep \/ Shift
  <2>1. x \in Obj
    BY <1>6 DEF Keep, Shift, Awaits, Idle, PendingOK
  <2>2. set(x, args[1]) \/ shift_up(x, args[1])
    BY <1>6 DEF Keep, Shift
  <2>3. pending' = Nothing
    BY <1>6 DEF Keep, Shift, Answers
  <2> HIDE DEF x, args
  <2> QED
    BY <2>1, <2>2, <2>3, EndsKeep, PositionStep, StorageStepKeeps
<1> QED
  BY <1>1, <1>2, <1>3, <1>4, <1>5, <1>6 DEF Proceeds

(***************************************************************************)
(* The lookups of a set, where its positions are keys.                     *)
(***************************************************************************)
\* No position is set past the keys of the universe.
HeldAreKeys == \A x \in Obj : \A p \in Positions(bits(x)) : is_key(p)

\* What a set's scans find of its positions.
LEMMA SetScans ==
    ASSUME TypeOK, UnusedBitsClear, NEW x \in Obj
    PROVE  LET P == Positions(bits(x))
               size == m_size[x]
               first(T) == IF T = {} THEN size ELSE Min(T)
               last(T) == IF T = {} THEN size ELSE Max(T)
           IN  /\ size \in Nat
               /\ P \in SUBSET (0 .. size) /\ \A p \in P : p \in Nat /\ p < size
               /\ find_first(bits(x), size) = first(P)
               /\ \A n \in 0 .. size :
                     /\ inclusive_find_next(bits(x), size, n) = first({p \in P : n <= p})
                     /\ total_find_prev(bits(x), size, n) = last({p \in P : p < n})
                     /\ {p \in P : p < n} # {} =>
                           exclusive_find_prev(bits(x), n) = Max({p \in P : p < n})
               /\ \A n \in Nat : n < size =>
                     /\ exclusive_find_next(bits(x), size, n) = first({p \in P : n < p})
                     /\ test(bits(x), n) <=> n \in P
<1> DEFINE b == bits(x)
           P == Positions(b)
           size == m_size[x]
<1>1. Scanned(b, size)
  BY BlocksType DEF Scanned, UnusedBitsClear, bits
<1> HIDE DEF b, size
<1>2. size \in Nat /\ \A p \in P : p \in Nat /\ p < size
  BY <1>1, ScannedPositions
<1>3. P \in SUBSET (0 .. size)
  BY <1>2
<1>4. \A T \in SUBSET P : T \in SUBSET Nat /\ T \in SUBSET (0 .. size)
  BY <1>3
<1>5. ASSUME NEW n \in 0 .. size
      PROVE  inclusive_find_next(b, size, n)
                = IF {p \in P : n <= p} = {} THEN size ELSE Min({p \in P : n <= p})
  <2> DEFINE T == {p \in P : n <= p}
             r == inclusive_find_next(b, size, n)
  <2>1. IsFirst(T, r, size) /\ T \in SUBSET Nat
    BY <1>1, <1>4, InclusiveFindNext
  <2> HIDE DEF T, r
  <2>2. r = IF T = {} THEN size ELSE Min(T)
    BY <2>1, FirstIsMin
  <2> QED
    BY <2>2 DEF T, r
<1>6. ASSUME NEW n \in 0 .. size
      PROVE  total_find_prev(b, size, n)
                = IF {p \in P : p < n} = {} THEN size ELSE Max({p \in P : p < n})
  <2> DEFINE T == {p \in P : p < n}
             r == total_find_prev(b, size, n)
  <2>1. IsLast(T, r, size) /\ T \in SUBSET (0 .. size)
    BY <1>1, <1>4, TotalFindPrev
  <2> HIDE DEF T, r
  <2>2. r = IF T = {} THEN size ELSE Max(T)
    BY <1>2, <2>1, LastIsMax
  <2> QED
    BY <2>2 DEF T, r
<1>7. ASSUME NEW n \in 0 .. size, {p \in P : p < n} # {}
      PROVE  exclusive_find_prev(b, n) = Max({p \in P : p < n})
  <2> DEFINE T == {p \in P : p < n}
             r == exclusive_find_prev(b, n)
  <2>1. PICK q \in P : q < n
    BY <1>7
  <2>2. r \in P /\ r < n /\ \A p \in P : p < n => p <= r
    BY <1>1, <2>1, ExclusiveFindPrev
  <2> HIDE DEF r, P
  <2>3. r \in T /\ \A p \in T : p <= r
    BY <2>2
  <2>4. T \in SUBSET (0 .. size) /\ T # {}
    BY <1>3, <2>1
  <2> HIDE DEF T
  <2>5. IsLast(T, r, size)
    BY <2>3, <2>4 DEF IsLast
  <2>6. r = Max(T)
    BY <1>2, <2>4, <2>5, LastIsMax
  <2> QED
    BY <2>6 DEF r, T
<1>8. ASSUME NEW n \in Nat, n < size
      PROVE  /\ exclusive_find_next(b, size, n)
                   = IF {p \in P : n < p} = {} THEN size ELSE Min({p \in P : n < p})
             /\ test(b, n) <=> n \in P
  <2>1. n \in 0 .. size - 1
    BY <1>2, <1>8
  <2> QED
    BY <1>1, <1>4, <2>1, ExclusiveFindNext, FirstIsMin, TestIsMember
<1>9. find_first(b, size) = IF P = {} THEN size ELSE Min(P)
  <2>1. {p \in P : 0 <= p} = P /\ 0 \in 0 .. size
    BY <1>2
  <2> QED
    BY <1>5, <2>1 DEF find_first
<1> QED
  BY <1>2, <1>3, <1>5, <1>6, <1>7, <1>8, <1>9 DEF b, size

\* A lookup by a key, or by a value that is none.
LEMMA KeyLookups ==
    ASSUME TypeOK, UnusedBitsClear, HeldAreKeys, NEW x \in Obj, NEW n \in Nat
    PROVE  KeyLookupsExact(x, n)
<1> DEFINE P == Positions(bits(x))
           size == m_size[x]
           lo == Min({KeyMappingSize, size})
<1> USE DEF end
<1>0. /\ size \in Nat /\ \A p \in P : p \in Nat /\ p < size
      /\ \A p \in P : IsClosed => p < KeyMappingSize
      /\ KeyMappingSize \in Nat /\ IsClosed \in BOOLEAN
  BY SetScans, KeyAssumption DEF HeldAreKeys, is_key
<1>1. contains(x, n) <=> n \in P
  BY <1>0, SetScans DEF contains, is_key
<1>2. lo \in {KeyMappingSize, size} /\ lo <= KeyMappingSize /\ lo <= size /\ lo \in 0 .. size
  <2>1. lo \in {KeyMappingSize, size} /\ lo <= KeyMappingSize /\ lo <= size
    BY <1>0, MinOfTwo
  <2> QED
    BY <1>0, <2>1
<1>3. ASSUME ~is_key(n)
      PROVE  bound_between(x) = IF is_descending THEN FirstOf(x, P) ELSE size
  <2>1. IsClosed /\ ~(n < KeyMappingSize)
    BY <1>3 DEF is_key
  <2>2. bound_between(x) = IF is_descending THEN total_find_prev(bits(x), size, lo)
                                            ELSE inclusive_find_next(bits(x), size, lo)
    BY DEF bound_between, equivalent_positions
  <2>3. {p \in P : p < lo} = P /\ {p \in P : lo <= p} = {}
    <3>1. \A p \in P : p \in Nat /\ p < lo /\ ~(lo <= p)
      BY <1>0, <1>2, <2>1
    <3> QED
      BY <3>1
  <2> HIDE DEF lo
  <2> QED
    BY <1>2, <2>2, <2>3, SetScans DEF FirstOf
<1>4. lower_bound(x, n) = FirstOf(x, {k \in P : ~Earlier(k, n)})
  <2> DEFINE T == {k \in P : ~Earlier(k, n)}
  <2>1. CASE ~is_key(n)
    <3>1. \A p \in P : p < n /\ ~(n < p)
      BY <1>0, <2>1 DEF is_key
    <3>2. T = IF is_descending THEN P ELSE {}
      BY <3>1 DEF Earlier
    <3> QED
      BY <1>3, <2>1, <3>2 DEF lower_bound, FirstOf
  <2>2. CASE is_key(n) /\ is_descending
    <3> DEFINE m == IF n < size THEN n + 1 ELSE size
    <3>1. m \in 0 .. size
      BY <1>0
    <3>2. T = {p \in P : p < m}
      <4>1. \A p \in P : ~(n < p) <=> p < m
        BY <1>0
      <4> QED
        BY <2>2, <4>1 DEF Earlier
    <3>3. lower_bound(x, n) = total_find_prev(bits(x), size, m)
      BY <2>2 DEF lower_bound
    <3> HIDE DEF m
    <3> QED
      BY <2>2, <3>1, <3>2, <3>3, SetScans DEF FirstOf
  <2>3. CASE is_key(n) /\ ~is_descending
    <3>1. T = {p \in P : n <= p}
      <4>1. \A p \in P : ~(p < n) <=> n <= p
        BY <1>0
      <4> QED
        BY <2>3, <4>1 DEF Earlier
    <3>2. CASE n >= size
      <4>1. T = {}
        BY <1>0, <3>1, <3>2
      <4> QED
        BY <2>3, <3>2, <4>1 DEF lower_bound, FirstOf
    <3>3. CASE ~(n >= size)
      <4>1. n \in 0 .. size
        BY <1>0, <3>3
      <4>2. lower_bound(x, n) = inclusive_find_next(bits(x), size, n)
        BY <2>3, <3>3 DEF lower_bound
      <4> QED
        BY <2>3, <3>1, <4>1, <4>2, SetScans DEF FirstOf
    <3> QED
      BY <3>2, <3>3
  <2> QED
    BY <2>1, <2>2, <2>3
<1>5. upper_bound(x, n) = FirstOf(x, {k \in P : Earlier(n, k)})
  <2> DEFINE T == {k \in P : Earlier(n, k)}
  <2>1. CASE ~is_key(n)
    <3>1. \A p \in P : p < n /\ ~(n < p)
      BY <1>0, <2>1 DEF is_key
    <3>2. T = IF is_descending THEN P ELSE {}
      BY <3>1 DEF Earlier
    <3> QED
      BY <1>3, <2>1, <3>2 DEF upper_bound, FirstOf
  <2>2. CASE is_key(n) /\ is_descending
    <3> DEFINE m == Min({n, size})
    <3>1. m \in {n, size} /\ m <= n /\ m <= size
      BY <1>0, MinOfTwo
    <3>2. m \in 0 .. size
      BY <1>0, <3>1
    <3>3. upper_bound(x, n) = total_find_prev(bits(x), size, m)
      BY <2>2 DEF upper_bound
    <3> HIDE DEF m
    <3>4. T = {p \in P : p < m}
      <4>1. \A p \in P : p < n <=> p < m
        BY <1>0, <3>1
      <4> QED
        BY <2>2, <4>1 DEF Earlier
    <3> QED
      BY <2>2, <3>2, <3>3, <3>4, SetScans DEF FirstOf
  <2>3. CASE is_key(n) /\ ~is_descending
    <3>1. T = {p \in P : n < p}
      BY <2>3 DEF Earlier
    <3>2. CASE n >= size
      <4>1. T = {}
        BY <1>0, <3>1, <3>2
      <4> QED
        BY <2>3, <3>2, <4>1 DEF upper_bound, FirstOf
    <3>3. CASE ~(n >= size)
      <4>1. n < size
        BY <1>0, <3>3
      <4>2. upper_bound(x, n) = exclusive_find_next(bits(x), size, n)
        BY <2>3, <3>3 DEF upper_bound
      <4> QED
        BY <2>3, <3>1, <4>1, <4>2, SetScans DEF FirstOf
    <3> QED
      BY <3>2, <3>3
  <2> QED
    BY <2>1, <2>2, <2>3
<1> QED
  BY <1>1, <1>4, <1>5 DEF KeyLookupsExact, find

\* A lookup by a value equivalent to a run of keys.
LEMMA EquivalentLookups ==
    ASSUME TypeOK, UnusedBitsClear, NEW x \in Obj, NEW lo \in Nat, NEW hi \in Nat, lo <= hi
    PROVE  EquivalentLookupsExact(x, lo, hi)
<1> DEFINE P == Positions(bits(x))
           size == m_size[x]
           l == Min({lo, size})
           h == Min({hi, size})
           run == {k \in P : lo <= k /\ k < hi}
           passed == {k \in P : IF is_descending THEN k >= hi ELSE k < lo}
           pos == inclusive_find_next(bits(x), size, l)
<1> USE DEF end
<1>0. size \in Nat /\ \A p \in P : p \in Nat /\ p < size
  BY SetScans
<1>1. /\ l \in {lo, size} /\ l <= lo /\ l <= size
      /\ h \in {hi, size} /\ h <= hi /\ h <= size
  BY <1>0, MinOfTwo
<1>2. l \in 0 .. size /\ h \in 0 .. size
  BY <1>0, <1>1
<1>3. equivalent_positions(x, lo, hi) = <<l, h>>
  BY DEF equivalent_positions
<1> HIDE DEF l, h
<1>4. \A p \in P : (lo <= p <=> l <= p) /\ (hi <= p <=> h <= p) /\ (p < lo <=> p < l) /\ (p < hi <=> p < h)
  BY <1>0, <1>1
<1>5. \A k : k \in <<l, h>>[1] .. <<l, h>>[2] <=> k \in l .. h
  OBVIOUS
<1>6. pos = IF {p \in P : l <= p} = {} THEN size ELSE Min({p \in P : l <= p})
  BY <1>2, SetScans
<1>7. /\ pos < h <=> run # {}
      /\ run # {} => pos = Min(run)
  <2> DEFINE T == {p \in P : l <= p}
  <2>0. T \in SUBSET Nat
    BY <1>0
  <2>1. ASSUME NEW k \in run PROVE pos < h /\ pos \in run /\ pos <= k
    <3>1. k \in T /\ k < h
      BY <1>4
    <3>2. pos \in T /\ pos <= k
      BY <1>6, <2>0, <3>1, MinExists
    <3>3. pos \in P /\ pos \in Nat /\ pos < h /\ k \in Nat
      BY <1>0, <1>2, <3>1, <3>2
    <3> QED
      BY <1>4, <3>2, <3>3
  <2>2. ASSUME pos < h PROVE run # {}
    <3>1. T # {}
      BY <1>0, <1>1, <1>2, <1>6, <2>2
    <3>2. pos \in T
      BY <1>6, <2>0, <3>1, MinExists
    <3>3. pos \in run
      BY <1>4, <2>2, <3>2
    <3> QED
      BY <3>3
  <2>3. ASSUME run # {} PROVE pos = Min(run)
    <3>1. PICK k \in run : TRUE
      BY <2>3
    <3>2. pos \in run /\ \A j \in run : pos <= j
      BY <2>1, <3>1
    <3>3. run \in SUBSET Nat
      BY <1>0
    <3> HIDE DEF run, pos
    <3>4. IsFirst(run, pos, size)
      BY <2>3, <3>2 DEF IsFirst
    <3> QED
      BY <2>3, <3>3, <3>4, FirstIsMin
  <2> QED
    BY <2>1, <2>2, <2>3
<1>8. contains_equivalent(x, lo, hi) <=> pos < h
  BY <1>3 DEF contains_equivalent
<1>9. find_equivalent(x, lo, hi) = IF pos < h THEN pos ELSE size
  BY <1>3 DEF find_equivalent
<1>10. lower_bound_equivalent(x, lo, hi) = FirstOf(x, P \ passed)
  <2>1. CASE is_descending
    <3>1. P \ passed = {p \in P : p < h}
      <4>1. \A p \in P : ~(p >= hi) <=> p < h
        BY <1>0, <1>2, <1>4
      <4> QED
        BY <2>1, <4>1
    <3>2. lower_bound_equivalent(x, lo, hi) = total_find_prev(bits(x), size, h)
      BY <1>3, <2>1 DEF lower_bound_equivalent
    <3> QED
      BY <1>2, <2>1, <3>1, <3>2, SetScans DEF FirstOf
  <2>2. CASE ~is_descending
    <3>1. P \ passed = {p \in P : l <= p}
      <4>1. \A p \in P : ~(p < lo) <=> l <= p
        BY <1>0, <1>2, <1>4
      <4> QED
        BY <2>2, <4>1
    <3>2. lower_bound_equivalent(x, lo, hi) = inclusive_find_next(bits(x), size, l)
      BY <1>3, <2>2 DEF lower_bound_equivalent
    <3> QED
      BY <1>2, <2>2, <3>1, <3>2, SetScans DEF FirstOf
  <2> QED
    BY <2>1, <2>2
<1>11. upper_bound_equivalent(x, lo, hi) = FirstOf(x, P \ (passed \cup run))
  <2>1. CASE is_descending
    <3>1. P \ (passed \cup run) = {p \in P : p < l}
      <4>1. \A p \in P : (~(p >= hi) /\ ~(lo <= p /\ p < hi)) <=> p < l
        BY <1>0, <1>1, <1>2, <1>4
      <4> QED
        BY <2>1, <4>1
    <3>2. upper_bound_equivalent(x, lo, hi) = total_find_prev(bits(x), size, l)
      BY <1>3, <2>1 DEF upper_bound_equivalent
    <3> QED
      BY <1>2, <2>1, <3>1, <3>2, SetScans DEF FirstOf
  <2>2. CASE ~is_descending
    <3>1. P \ (passed \cup run) = {p \in P : h <= p}
      <4>1. \A p \in P : (~(p < lo) /\ ~(lo <= p /\ p < hi)) <=> h <= p
        BY <1>0, <1>1, <1>2, <1>4
      <4> QED
        BY <2>2, <4>1
    <3>2. upper_bound_equivalent(x, lo, hi) = inclusive_find_next(bits(x), size, h)
      BY <1>3, <2>2 DEF upper_bound_equivalent
    <3> QED
      BY <1>2, <2>2, <3>1, <3>2, SetScans DEF FirstOf
  <2> QED
    BY <2>1, <2>2
<1> HIDE DEF pos, run, passed, P
<1> QED
  BY <1>7, <1>8, <1>9, <1>10, <1>11 DEF EquivalentLookupsExact, run, passed, P

\* The increments and the decrements.
LEMMA Iteration ==
    ASSUME TypeOK, UnusedBitsClear, NEW x \in Obj
    PROVE  IterationExact(x)
<1> DEFINE P == Positions(bits(x))
           size == m_size[x]
<1> USE DEF end
<1>0. size \in Nat /\ size \in 0 .. size /\ \A p \in P : p \in Nat /\ p < size
  BY SetScans
<1>1. begin(x) = FirstOf(x, P)
  <2>1. {p \in P : p < size} = P
    BY <1>0
  <2>2. total_find_prev(bits(x), size, size) = IF P = {} THEN size ELSE Max(P)
    BY <1>0, <2>1, SetScans
  <2>3. find_first(bits(x), size) = IF P = {} THEN size ELSE Min(P)
    BY SetScans
  <2> QED
    BY <2>2, <2>3 DEF begin, FirstOf
<1>2. ASSUME NEW k \in P
      PROVE  next_position(x, k) = FirstOf(x, {j \in P : Earlier(k, j)})
  <2>1. k \in Nat /\ k < size /\ k \in 0 .. size
    BY <1>0
  <2>2. CASE is_descending
    <3>1. {j \in P : Earlier(k, j)} = {j \in P : j < k}
      BY <2>2 DEF Earlier
    <3> QED
      BY <2>1, <2>2, <3>1, SetScans DEF next_position, FirstOf
  <2>3. CASE ~is_descending
    <3>1. {j \in P : Earlier(k, j)} = {j \in P : k < j}
      BY <2>3 DEF Earlier
    <3> QED
      BY <2>1, <2>3, <3>1, SetScans DEF next_position, FirstOf
  <2> QED
    BY <2>2, <2>3
<1>3. ASSUME NEW i \in Iterators(x),
             {j \in P : i = end(x) \/ Earlier(j, i)} # {}
      PROVE  prev_position(x, i) = LastOf({j \in P : i = end(x) \/ Earlier(j, i)})
  <2> DEFINE T == {j \in P : i = end(x) \/ Earlier(j, i)}
  <2>1. i \in 0 .. size /\ (i # size => i \in P)
    BY <1>0 DEF Iterators
  <2>2. CASE ~is_descending
    <3>1. T = {j \in P : j < i}
      BY <1>0, <2>2 DEF Earlier
    <3>2. exclusive_find_prev(bits(x), i) = Max({j \in P : j < i})
      BY <1>3, <2>1, <3>1, SetScans
    <3> QED
      BY <2>2, <3>1, <3>2 DEF prev_position, LastOf
  <2>3. CASE is_descending /\ i = size
    <3>1. T = P
      BY <2>3
    <3>2. find_first(bits(x), size) = Min(P)
      BY <1>3, <3>1, SetScans
    <3> QED
      BY <2>3, <3>1, <3>2 DEF prev_position, LastOf
  <2>4. CASE is_descending /\ i # size
    <3>1. T = {j \in P : i < j}
      BY <2>4 DEF Earlier
    <3>2. exclusive_find_next(bits(x), size, i) = Min({j \in P : i < j})
      BY <1>0, <1>3, <2>1, <2>4, <3>1, SetScans
    <3> QED
      BY <2>4, <3>1, <3>2 DEF prev_position, LastOf
  <2> QED
    BY <2>2, <2>3, <2>4
<1> QED
  BY <1>1, <1>2, <1>3 DEF IterationExact

\* Every lookup and every step of an iterator, in a set whose positions are keys.
LEMMA Lookups ==
    ASSUME TypeOK, UnusedBitsClear, HeldAreKeys
    PROVE  LookupsExact
BY KeyLookups, EquivalentLookups, Iteration, WordBounds, WidthType DEF LookupsExact

(***************************************************************************)
(* The theorems.                                                           *)
(***************************************************************************)
LEMMA SetInvariant == SetSpec => []SetInv
<1>1. SetInit => SetInv
  <2> SUFFICES ASSUME SetInit PROVE SetInv
    OBVIOUS
  <2>1. Init /\ pending = Nothing
    BY DEF SetInit
  <2>2. \A x \in Obj : \A i \in DOMAIN m_blocks[x] : m_blocks[x][i] = zero
    BY <2>1 DEF Init
  <2>3. StoredCountExact
    BY <2>1, InitCount
  <2> QED
    BY <2>1, <2>2, <2>3, InitType
    DEF SetInv, UnusedBitsClear, TailClear, zero, PendingOK, Idle, Nothing
<1>2. SetInv /\ [SetNext]_set_vars => SetInv'
  <2> SUFFICES ASSUME SetInv, [SetNext]_set_vars PROVE SetInv'
    OBVIOUS
  <2>1. CASE UNCHANGED set_vars
    <3>1. UNCHANGED contents /\ UNCHANGED pending
      BY <2>1 DEF set_vars, vars, contents
    <3>2. PendingOK'
      BY <3>1 DEF SetInv, PendingOK, Idle, Awaits, admits, contents
    <3> QED
      BY <3>1, <3>2, StorageStepKeeps DEF SetInv, StorageStep
  <2>2. CASE \E x \in Obj : Insertions(x) \/ Erasures(x) \/ KeyOperators(x) \/ Whole(x)
    BY <2>2, InsertionsKeep, ErasuresKeep, KeyOperatorsKeep, WholeKeep
  <2>3. CASE \E x, y \in Obj : Binary(x, y)
    BY <2>3, BinaryKeep
  <2>4. CASE Proceeds
    BY <2>4, ProceedsKeep
  <2> QED
    BY <2>1, <2>2, <2>3, <2>4 DEF SetNext
<1> QED
  BY <1>1, <1>2, PTL DEF SetSpec

\* Whatever a set is told to do, at every step of a call and after every one
\* that is refused, its storage holds exactly the blocks its width needs.
THEOREM SetTypeCorrect == SetSpec => []TypeOK
BY SetInvariant, PTL DEF SetInv

\* The unused tail under the set reading: no call of a set, |= and ^= between
\* two widths included, and no step of one, leaves a bit set at or above the
\* width.  The storage's theorem takes the admission for granted; here it is
\* what grow_to_admit was called for.
THEOREM SetUnusedBitsStayClear == SetSpec => []UnusedBitsClear
BY SetInvariant, PTL DEF SetInv

\* The count under the set reading: with the widths and positions a set asks for,
\* the block mask of a static set's &= included, size() is the number of keys.
THEOREM SetStoredCountStaysExact == SetSpec => []StoredCountExact
BY SetInvariant, PTL DEF SetInv

\* When the storage's |= or ^= is reached, the set written has room for every
\* key of the other.
THEOREM AdmittedBeforeCombined == SetSpec => []Admitted
<1>1. SetInv => Admitted
  BY DEF SetInv, PendingOK, Admitted, Awaits, Idle
<1> QED
  BY <1>1, SetInvariant, PTL

(***************************************************************************)
(* That the set reading implements the set of keys.                        *)
(*                                                                         *)
(* A call of a set makes calls of the storage, each of which is a step     *)
(* here and may be refused, and the keys of the abstract set are those it  *)
(* had when the call began until the call ends.  The invariant says, of    *)
(* each call that can be half done, what it has done so far to the keys it *)
(* began with; each step is then one of its call, and the last of them the *)
(* step of the set of keys.                                                *)
(***************************************************************************)
\* Fewer blocks hold fewer positions.
LEMMA WholeBelow ==
    ASSUME NEW k \in Nat, NEW m \in Nat, k <= m
    PROVE  k * bits_per_block \in Nat /\ k * bits_per_block <= m * bits_per_block
BY BitsPerBlockAssumption

(***************************************************************************)
(* What a call of the storage leaves: one set with a width and positions,  *)
(* and every other set with its own.                                       *)
(***************************************************************************)
Held(x) == Positions(bits(x))

Leaves(x, size, S) ==
    /\ m_size'[x] = size
    /\ Positions(m_blocks'[x]) = S
    /\ \A y \in Obj \ {x} :
          m_size'[y] = m_size[y] /\ Positions(m_blocks'[y]) = Positions(m_blocks[y])

\* The call was refused, and has no effects.
Refused == call'.outcome = "bad_alloc" /\ UNCHANGED contents

\* The value of a string, and the members that hold it.
LEMMA ValueLeaves ==
    ASSUME TypeOK, NEW x \in Obj, NEW w, NEW S, String!Value(x, w, S)
    PROVE  Leaves(x, w, S)
<1>1. /\ m_size' = [m_size EXCEPT ![x] = w]
      /\ [y \in Obj |-> Positions(m_blocks'[y])]
             = [[y \in Obj |-> Positions(m_blocks[y])] EXCEPT ![x] = S]
  BY DEF String!Value
<1>2. \A y \in Obj : /\ m_size'[y] = IF y = x THEN w ELSE m_size[y]
                     /\ Positions(m_blocks'[y]) = IF y = x THEN S ELSE Positions(m_blocks[y])
  BY <1>1 DEF TypeOK
<1> QED
  BY <1>2 DEF Leaves

\* Bits written, and the width as it was.
LEMMA BitsLeave ==
    ASSUME TypeOK, NEW x \in Obj, NEW S, String!Bits(x, S)
    PROVE  Leaves(x, m_size[x], S)
BY ValueLeaves DEF String!Bits

\* A call of the storage left alone leaves every set as it was.
LEMMA UnwrittenLeaves ==
    ASSUME NEW x \in Obj, UNCHANGED contents
    PROVE  Leaves(x, m_size[x], Held(x))
BY DEF Leaves, contents, Held, bits

(***************************************************************************)
(* The writes to one position.                                             *)
(***************************************************************************)
LEMMA PositionLeaves ==
    ASSUME TypeOK, UnusedBitsClear, NEW x \in Obj, NEW n
    PROVE  /\ set(x, n) => Leaves(x, m_size[x], Held(x) \cup {n})
           /\ reset(x, n) => Leaves(x, m_size[x], Held(x) \ {n})
           /\ flip(x, n) => Leaves(x, m_size[x], (Held(x) \cup {n}) \ (Held(x) \cap {n}))
           /\ erase(x, n) => /\ Leaves(x, m_size[x], Held(x) \ {n})
                             /\ call'.result = (n \in Held(x))
           /\ set(x, n) \/ reset(x, n) \/ flip(x, n) \/ erase(x, n) =>
                 call'.outcome = "ok" /\ n \in Nat /\ n < m_size[x]
<1>1. set(x, n) => Leaves(x, m_size[x], Held(x) \cup {n})
  BY WritePositionSteps, BitsLeave DEF String!Set, Held, bits
<1>2. reset(x, n) => Leaves(x, m_size[x], Held(x) \ {n})
  BY WritePositionSteps, BitsLeave DEF String!Reset, Held, bits
<1>3. ASSUME flip(x, n) PROVE Leaves(x, m_size[x], (Held(x) \cup {n}) \ (Held(x) \cap {n}))
  <2>1. Leaves(x, m_size[x], IF n \in Held(x) THEN Held(x) \ {n} ELSE Held(x) \cup {n})
    BY <1>3, WritePositionSteps, BitsLeave DEF String!Flip, Held, bits
  <2>2. (IF n \in Held(x) THEN Held(x) \ {n} ELSE Held(x) \cup {n})
           = (Held(x) \cup {n}) \ (Held(x) \cap {n})
    OBVIOUS
  <2> QED
    BY <2>1, <2>2
<1>4. ASSUME erase(x, n)
      PROVE  /\ Leaves(x, m_size[x], Held(x) \ {n})
             /\ call'.result = (n \in Held(x))
  <2>1. String!Erase(x, n)
    BY <1>4, WritePositionSteps
  <2>2. Leaves(x, m_size[x], Held(x) \ {n})
    BY <2>1, BitsLeave DEF String!Erase, Held, bits
  <2>3. call' = String!Returned("erase", x, <<n>>, n \in Held(x))
    BY <2>1 DEF String!Erase, Held, bits
  <2>4. call'.result = (n \in Held(x))
    BY <2>3, Zenon DEF String!Returned
  <2> QED
    BY <2>2, <2>4
<1>5. set(x, n) \/ reset(x, n) \/ flip(x, n) \/ erase(x, n) =>
         call'.outcome = "ok" /\ n \in Nat /\ n < m_size[x]
  BY BlocksType DEF set, reset, flip, erase, is_valid, Returned
<1> QED
  BY <1>1, <1>2, <1>3, <1>4, <1>5

\* The lowest, or the highest, position of a set that holds one.
LEMMA DropLeaves ==
    ASSUME TypeOK, UnusedBitsClear, NEW x \in Obj
    PROVE  /\ drop_front(x) => \E p \in Held(x) : /\ \A q \in Held(x) : p <= q
                                                  /\ Leaves(x, m_size[x], Held(x) \ {p})
           /\ drop_back(x) => \E p \in Held(x) : /\ \A q \in Held(x) : q <= p
                                                 /\ Leaves(x, m_size[x], Held(x) \ {p})
BY DropSteps, BitsLeave DEF String!DropFront, String!DropBack, Held, bits

(***************************************************************************)
(* The writes to many.                                                     *)
(***************************************************************************)
LEMMA ManyLeave ==
    ASSUME TypeOK, UnusedBitsClear, NEW x \in Obj
    PROVE  /\ reset_all(x) => Leaves(x, m_size[x], {}) /\ call'.outcome = "ok"
           /\ flip_all(x) => Leaves(x, m_size[x], (0 .. m_size[x] - 1) \ Held(x))
<1>1. ASSUME reset_all(x) PROVE Leaves(x, m_size[x], {}) /\ call'.outcome = "ok"
  <2>1. String!Bits(x, {})
    BY <1>1, WriteManySteps DEF String!ResetAll
  <2>2. call'.outcome = "ok"
    BY <1>1 DEF reset_all, Returned
  <2> QED
    BY <2>1, <2>2, BitsLeave
<1>2. ASSUME flip_all(x) PROVE Leaves(x, m_size[x], (0 .. m_size[x] - 1) \ Held(x))
  <2>1. String!Bits(x, (0 .. m_size[x] - 1) \ Held(x))
    BY <1>2, WriteManySteps DEF String!FlipAll, String!Pos, Held, bits
  <2> QED
    BY <2>1, BitsLeave
<1> QED
  BY <1>1, <1>2

\* A range, wherever it lies in the width.
LEMMA RangeLeaves ==
    ASSUME TypeOK, UnusedBitsClear, NEW x \in Obj, NEW n \in Nat, NEW len \in Nat,
           NEW value \in BOOLEAN, set_range(x, n, len, value)
    PROVE  Leaves(x, m_size[x], (Held(x) \ (n .. n + len - 1)) \cup {p \in n .. n + len - 1 : value})
<1>1. n + len <= m_size[x]
  BY DEF set_range
<1>2. n \in 0 .. m_size[x] /\ len \in 0 .. m_size[x]
  BY <1>1, BlocksType
<1>3. n \in Width /\ len \in Width
  BY <1>2, WithinWidth
<1>4. String!SetRange(x)
  BY <1>3, WriteManySteps
<1>5. PICK m \in Width, l \in Width, v \in BOOLEAN :
        /\ String!Does("set_range", x, <<m, l, v>>)
        /\ String!Bits(x, (Held(x) \ (m .. m + l - 1)) \cup {p \in m .. m + l - 1 : v})
  BY <1>4 DEF String!SetRange, Held, bits
<1>6. call'.args = <<m, l, v>>
  BY <1>5 DEF String!Does, String!Returned
<1>7. call'.args = <<n, len, value>>
  BY DEF set_range, Returned
<1>8. m = n /\ l = len /\ v = value
  BY <1>6, <1>7
<1> QED
  BY <1>5, <1>8, BitsLeave

\* The shifts, by less than the width.
LEMMA ShiftLeaves ==
    ASSUME TypeOK, UnusedBitsClear, NEW x \in Obj, NEW n
    PROVE  /\ shift_up(x, n) =>
                 Leaves(x, m_size[x], {p \in 0 .. m_size[x] - 1 : p - n \in Held(x)})
           /\ shift_down(x, n) =>
                 Leaves(x, m_size[x], {p \in 0 .. m_size[x] - 1 : p + n \in Held(x)})
           /\ shift_up(x, n) \/ shift_down(x, n) => n \in Nat /\ n < m_size[x]
<1>1. shift_up(x, n) \/ shift_down(x, n) => n \in 0 .. m_size[x] - 1
  BY DEF shift_up, shift_down, is_valid
<1>2. shift_up(x, n) \/ shift_down(x, n) => n \in Width
  BY <1>1, WithinWidth
<1>3. ASSUME shift_up(x, n)
      PROVE  Leaves(x, m_size[x], {p \in 0 .. m_size[x] - 1 : p - n \in Held(x)})
  <2>1. String!Bits(x, {p \in 0 .. m_size[x] - 1 : p - n \in Held(x)})
    BY <1>2, <1>3, MoveSteps DEF String!ShiftUp, String!Pos, Held, bits
  <2> QED
    BY <2>1, BitsLeave
<1>4. ASSUME shift_down(x, n)
      PROVE  Leaves(x, m_size[x], {p \in 0 .. m_size[x] - 1 : p + n \in Held(x)})
  <2>1. String!Bits(x, {p \in 0 .. m_size[x] - 1 : p + n \in Held(x)})
    BY <1>2, <1>4, MoveSteps DEF String!ShiftDown, String!Pos, Held, bits
  <2> QED
    BY <2>1, BitsLeave
<1> QED
  BY <1>1, <1>3, <1>4, BlocksType

(***************************************************************************)
(* Growth, which may be refused.                                           *)
(***************************************************************************)
\* An insertion that was not refused answers whether the position was clear.
LEMMA GrowingInsertAnswers ==
    ASSUME NEW x \in Obj, NEW n, String!GrowingInsert(x, n),
           call' # String!Threw("growing_insert", x, <<n>>)
    PROVE  /\ String!Value(x, IF n < m_size[x] THEN m_size[x] ELSE n + 1, Held(x) \cup {n})
           /\ call' = String!Returned("growing_insert", x, <<n>>, n \notin Held(x))
<1>1. [y \in Obj |-> Positions(m_blocks[y])][x] = Held(x)
  BY DEF Held, bits
<1> QED
  BY <1>1, Zenon DEF String!GrowingInsert, String!Fails

\* An insertion of any key: refused, it was past the width, and past the
\* capacity where that is in the type.
LEMMA InsertLeaves ==
    ASSUME TypeOK, UnusedBitsClear, NEW x \in Obj, NEW n \in Nat, growing_insert(x, n)
    PROVE  \/ /\ Refused /\ has_stored_size
              /\ n >= m_size[x] /\ n \notin Held(x)
              /\ Kind = "inplace" => n >= N
           \/ /\ call'.outcome = "ok" /\ call'.result = (n \notin Held(x))
              /\ Leaves(x, IF n < m_size[x] THEN m_size[x] ELSE n + 1, Held(x) \cup {n})
              /\ Kind # "dynamic" => n < N
<1>0. m_size[x] \in Nat /\ m_size[x] <= Ceiling /\ Ceiling \in Nat
  BY BlocksType, CeilingType DEF TypeOK
<1>1. n >= m_size[x] => n \notin Held(x)
  BY <1>0, SetScans DEF Held
<1>2. CASE refused("growing_insert", x, <<n>>) /\ has_stored_size /\ n >= m_size[x]
           /\ Refuses(x, blocks_for(n + 1), n + 1)
  <2>1. Refused
    BY <1>2 DEF refused, Refused, Threw
  <2>2. Kind = "inplace" => n >= N
    BY <1>2, NAssumption DEF Refuses, check_capacity
  <2> QED
    BY <1>1, <1>2, <2>1, <2>2
<1>3. CASE /\ has_stored_size /\ n >= m_size[x] /\ check_capacity(n + 1)
           /\ reallocate(x, blocks_for(n + 1))
           /\ call' = Returned("growing_insert", x, <<n>>, TRUE)
  <2>1. n + 1 \in Width
    BY <1>3, GrantedWithin
  <2>2. n \in Width
    BY <2>1, WidthBounds
  <2>3. String!GrowingInsert(x, n)
    BY <2>2, GrowingInsertSteps
  <2>4. call' # String!Threw("growing_insert", x, <<n>>)
    BY <1>3 DEF Returned, String!Threw
  <2>5. String!Value(x, IF n < m_size[x] THEN m_size[x] ELSE n + 1, Held(x) \cup {n})
    BY <2>3, <2>4, GrowingInsertAnswers
  <2>6. call'.outcome = "ok" /\ call'.result = TRUE
    BY <1>3 DEF Returned
  <2>9. call'.result = (n \notin Held(x))
    <3>1. n \notin Held(x)
      BY <1>1, <1>3
    <3> QED
      BY <2>6, <3>1, Zenon
  <2>7. Kind # "dynamic" => n < N
    BY <1>3, NAssumption, KindAssumption DEF check_capacity, has_stored_size
  <2>8. Leaves(x, IF n < m_size[x] THEN m_size[x] ELSE n + 1, Held(x) \cup {n})
    BY <2>5, ValueLeaves
  <2> QED
    BY <2>6, <2>7, <2>8, <2>9
<1>4. CASE /\ n < m_size[x]
           /\ call' = Returned("growing_insert", x, <<n>>, ~BitAt(m_blocks[x], n))
  <2>1. n \in Width
    BY <1>4, WithinWidth
  <2>2. String!GrowingInsert(x, n)
    BY <2>1, GrowingInsertSteps
  <2>3. call' # String!Threw("growing_insert", x, <<n>>)
    BY <1>4 DEF Returned, String!Threw
  <2>4. /\ String!Value(x, IF n < m_size[x] THEN m_size[x] ELSE n + 1, Held(x) \cup {n})
        /\ call' = String!Returned("growing_insert", x, <<n>>, n \notin Held(x))
    BY <2>2, <2>3, GrowingInsertAnswers
  <2>5. call'.outcome = "ok"
    BY <1>4 DEF Returned
  <2>6. call'.result = (n \notin Held(x))
    BY <2>4, Zenon DEF String!Returned
  <2>7. Leaves(x, IF n < m_size[x] THEN m_size[x] ELSE n + 1, Held(x) \cup {n})
    BY <2>4, ValueLeaves
  <2>8. Kind # "dynamic" => n < N
    BY <1>0, <1>4, NAssumption DEF Ceiling
  <2> QED
    BY <2>5, <2>6, <2>7, <2>8
<1> QED
  BY <1>2, <1>3, <1>4 DEF growing_insert

\* A resize to any width that fills with zeros.
LEMMA ResizeLeaves ==
    ASSUME TypeOK, UnusedBitsClear, NEW x \in Obj, NEW n \in Nat, resize(x, n, FALSE)
    PROVE  \/ Refused /\ (Kind = "dynamic" \/ n > N)
           \/ call'.outcome = "ok" /\ Leaves(x, n, {p \in Held(x) : p < n})
<1>1. CASE Refuses(x, blocks_for(n), n) /\ refused("resize", x, <<n, FALSE>>)
  BY <1>1, NAssumption DEF Refuses, check_capacity, refused, Refused, Threw
<1>2. CASE resize_to(x, n, FALSE) /\ call' = Returned("resize", x, <<n, FALSE>>, NoResult)
  <2>1. String!Value(x, n, {p \in Held(x) : p < n})
    BY <1>2, ResizeIsValue DEF Held, bits
  <2> QED
    BY <1>2, <2>1, ValueLeaves DEF Returned
<1> QED
  BY <1>1, <1>2 DEF resize

\* Room made for the keys of another, its highest the last of the width.
LEMMA AdmitLeaves ==
    ASSUME TypeOK, UnusedBitsClear, NEW x \in Obj, NEW y \in Obj, grow_to_admit(x, y)
    PROVE  \/ Refused /\ Kind = "dynamic" /\ ~(Held(y) \subseteq Held(x))
           \/ \E n \in Nat : /\ call'.outcome = "ok" /\ Leaves(x, n, Held(x))
                             /\ n # m_size[x] => n > m_size[x] /\ n - 1 \in Held(y)
<1>0. /\ m_size[x] \in Nat /\ m_size[y] \in Nat /\ m_size[y] <= Ceiling /\ Ceiling \in Nat
      /\ \A p \in Held(x) : p \in Nat /\ p < m_size[x]
      /\ \A p \in Held(y) : p \in Nat /\ p < m_size[y]
  BY BlocksType, CeilingType, SetScans DEF TypeOK, Held
<1>1. String!GrowToAdmit(x, y)
  BY GrowToAdmitSteps
<1>2. CASE call' = String!Threw("grow_to_admit", x, <<y>>)
  <2> DEFINE n == find_back(m_blocks[y]) + 1
  <2>1. any(m_blocks[y]) /\ n > m_size[x] /\ Refuses(x, blocks_for(n), n) /\ UNCHANGED contents
    BY <1>2 DEF grow_to_admit, refused, Returned, String!Threw
  <2>2. find_back(m_blocks[y]) \in Held(y)
    BY <2>1, BlocksType, EndPositions DEF Held, bits
  <2>3. n \in Nat /\ n <= m_size[y]
    BY <1>0, <2>2
  <2>4. Kind = "dynamic"
    BY <1>0, <2>1, <2>3, KindAssumption, NAssumption DEF Refuses, check_capacity, Ceiling
  <2>5. ~(Held(y) \subseteq Held(x))
    BY <1>0, <2>1, <2>2
  <2> QED
    BY <1>2, <2>1, <2>4, <2>5 DEF Refused, String!Threw
<1>3. CASE call' # String!Threw("grow_to_admit", x, <<y>>)
  <2>1. /\ String!Does("grow_to_admit", x, <<y>>)
        /\ \E n \in {m_size[x]} \cup {p + 1 : p \in Held(y)} :
             /\ n >= m_size[x]
             /\ n > m_size[x] => n - 1 \in Held(y)
             /\ String!Value(x, n, Held(x))
    BY <1>1, <1>3 DEF String!GrowToAdmit, String!Fails, Held, bits
  <2>2. call'.outcome = "ok"
    BY <2>1 DEF String!Does, String!Returned
  <2>3. PICK n \in {m_size[x]} \cup {p + 1 : p \in Held(y)} :
             /\ n >= m_size[x]
             /\ n > m_size[x] => n - 1 \in Held(y)
             /\ String!Value(x, n, Held(x))
    BY <2>1
  <2>4. n \in Nat
    BY <1>0, <2>3
  <2>5. Leaves(x, n, Held(x))
    BY <2>3, ValueLeaves
  <2>6. n # m_size[x] => n > m_size[x] /\ n - 1 \in Held(y)
    BY <1>0, <2>3, <2>4
  <2> QED
    BY <2>2, <2>4, <2>5, <2>6
<1> QED
  BY <1>2, <1>3

(***************************************************************************)
(* Two sets.                                                               *)
(***************************************************************************)
\* Those that keep the width; the last two where the other has been admitted.
LEMMA CombineLeaves ==
    ASSUME TypeOK, UnusedBitsClear, NEW x \in Obj, NEW y \in Obj
    PROVE  /\ and_assign(x, y) => Leaves(x, m_size[x], Held(x) \cap Held(y))
           /\ minus_assign(x, y) => Leaves(x, m_size[x], Held(x) \ Held(y))
           /\ admits(x, y) /\ or_assign(x, y) => Leaves(x, m_size[x], Held(x) \cup Held(y))
           /\ admits(x, y) /\ xor_assign(x, y) =>
                 Leaves(x, m_size[x], (Held(x) \cup Held(y)) \ (Held(x) \cap Held(y)))
<1>1. /\ and_assign(x, y) => String!Bits(x, Held(x) \cap Held(y))
      /\ minus_assign(x, y) => String!Bits(x, Held(x) \ Held(y))
      /\ admits(x, y) /\ or_assign(x, y) => String!Bits(x, Held(x) \cup Held(y))
      /\ admits(x, y) /\ xor_assign(x, y) =>
             String!Bits(x, (Held(x) \ Held(y)) \cup (Held(y) \ Held(x)))
  BY CombineSteps
  DEF String!AndAssign, String!MinusAssign, String!OrAssign, String!XorAssign, Held, bits
<1>2. (Held(x) \ Held(y)) \cup (Held(y) \ Held(x))
         = (Held(x) \cup Held(y)) \ (Held(x) \cap Held(y))
  OBVIOUS
<1> QED
  BY <1>1, <1>2, BitsLeave

\* Whole sets copied, of which a heap may be refused the room, and moved.
LEMMA AssignLeaves ==
    ASSUME TypeOK, UnusedBitsClear, NEW x \in Obj, NEW y \in Obj
    PROVE  /\ copy_assign(x, y) =>
                 \/ Refused /\ Kind = "dynamic" /\ x # y
                 \/ call'.outcome = "ok" /\ Leaves(x, m_size[y], Held(y))
           /\ move_assign(x, y) /\ (x = y \/ ~has_stored_size) => Leaves(x, m_size[y], Held(y))
           /\ (move_assign(x, y) /\ ~(x = y \/ ~has_stored_size)) \/ swap(x, y) =>
                 \A z \in Obj : Positions(m_blocks'[z]) =
                     IF z = y THEN (IF swap(x, y) THEN Held(x) ELSE {})
                     ELSE IF z = x THEN Held(y) ELSE Held(z)
<1>0. Positions(no_blocks) = {}
  <2>1. 0 \in Nat /\ no_blocks \in Storage(0) /\ ~any(no_blocks)
    BY DEF no_blocks, Storage, any
  <2> QED
    BY <2>1, AnyPosition
<1>1. ASSUME copy_assign(x, y)
      PROVE  \/ Refused /\ Kind = "dynamic" /\ x # y
             \/ call'.outcome = "ok" /\ Leaves(x, m_size[y], Held(y))
  BY <1>1 DEF copy_assign, refused, Refused, Threw, Returned, Leaves, store, TypeOK, Held, bits
<1>2. ASSUME move_assign(x, y), x = y \/ ~has_stored_size
      PROVE  Leaves(x, m_size[y], Held(y))
  BY <1>2 DEF move_assign, Leaves, store, TypeOK, Held, bits
<1>3. ASSUME move_assign(x, y), ~(x = y \/ ~has_stored_size)
      PROVE  ~swap(x, y) /\ \A z \in Obj : Positions(m_blocks'[z]) =
                IF z = y THEN {} ELSE IF z = x THEN Held(y) ELSE Held(z)
  <2>1. m_blocks' = [m_blocks EXCEPT ![x] = m_blocks[y], ![y] = no_blocks]
    BY <1>3 DEF move_assign
  <2>2. call'.op = "move_assign" /\ (swap(x, y) => call'.op = "swap")
    BY <1>3 DEF move_assign, swap, Returned
  <2> QED
    BY <1>0, <2>1, <2>2 DEF TypeOK, Held, bits
<1>4. ASSUME swap(x, y)
      PROVE  \A z \in Obj : Positions(m_blocks'[z]) =
                IF z = y THEN Held(x) ELSE IF z = x THEN Held(y) ELSE Held(z)
  <2>1. m_blocks' = [m_blocks EXCEPT ![x] = m_blocks[y], ![y] = m_blocks[x]]
    BY <1>4 DEF swap
  <2> QED
    BY <2>1 DEF TypeOK, Held, bits
<1> QED
  BY <1>1, <1>2, <1>3, <1>4

\* Whole blocks adopted, and extracted.
LEMMA ExchangeLeaves ==
    ASSUME TypeOK, UnusedBitsClear, NEW x \in Obj
    PROVE  /\ \A k \in 0 .. MaxBlocks : \A b \in Storage(k) : replace(x, b) =>
                 Leaves(x, num_bits(b), Positions(b)) /\ Positions(b) \subseteq Width
           /\ extract(x) => Leaves(x, 0, {})
<1>0. Positions(no_blocks) = {}
  <2>1. 0 \in Nat /\ no_blocks \in Storage(0) /\ ~any(no_blocks)
    BY DEF no_blocks, Storage, any
  <2> QED
    BY <2>1, AnyPosition
<1>1. ASSUME NEW k \in 0 .. MaxBlocks, NEW b \in Storage(k), replace(x, b)
      PROVE  Leaves(x, num_bits(b), Positions(b)) /\ Positions(b) \subseteq Width
  <2>1. Leaves(x, num_bits(b), Positions(b))
    BY <1>1 DEF replace, store, Leaves, TypeOK
  <2>2. num_bits(b) \in Nat /\ num_bits(b) <= MaxBlocks * bits_per_block
    BY MaxBlocksAssumption, NumBlocks, WholeBelow
  <2>3. Positions(b) \subseteq 0 .. num_bits(b) - 1
    BY DEF Positions
  <2> QED
    BY <2>1, <2>2, <2>3, WidthBounds
<1>2. ASSUME extract(x) PROVE Leaves(x, 0, {})
  BY <1>0, <1>2 DEF extract, store, Leaves, TypeOK
<1> QED
  BY <1>1, <1>2

(***************************************************************************)
(* Keys.                                                                   *)
(***************************************************************************)
\* The widths, the keys and the ceilings in the word that holds them all.
LEMMA KeyBounds ==
    /\ max_width \in Nat /\ top \in Nat /\ max_width < top
    /\ Ceiling \in Nat /\ Ceiling < max_width
    /\ Kind # "dynamic" => Ceiling = N
    /\ Width \subseteq Key /\ Key \subseteq 0 .. top /\ \A n \in Width : n < max_width
    /\ max_size \in Nat /\ max_size <= max_width
    /\ Kind # "dynamic" => max_size = N
    /\ \A n \in Nat : n < max_size => is_key(n)
    /\ \A n \in Nat : is_key(n) /\ n < Ceiling => n < max_size
<1> DEFINE capacity_bits == MaxBlocks * bits_per_block
<1>1. /\ max_width \in Nat /\ top \in Nat /\ max_width < top
      /\ capacity_bits \in Nat /\ Width = 0 .. capacity_bits + 1 /\ capacity_bits + 1 < max_width
  BY WordBounds, WidthBounds, WordAssumption, StorageAssumption
<1>2. Ceiling \in Nat /\ Ceiling \in Width
  BY CeilingType, WidthBounds
<1>3. Ceiling <= capacity_bits
  <2>1. CASE Kind = "dynamic"
    BY <1>1, <2>1 DEF Ceiling
  <2>2. CASE Kind # "dynamic"
    BY <2>2, MaxBlocksAssumption, NAssumption, BlocksForBounds DEF Ceiling
  <2> QED
    BY <2>1, <2>2
<1> HIDE DEF capacity_bits
<1>4. Ceiling < max_width /\ (Kind # "dynamic" => Ceiling = N)
  BY <1>1, <1>2, <1>3 DEF Ceiling
<1>5. Key \subseteq 0 .. top /\ Width \subseteq Key /\ \A n \in Width : n < max_width
  BY <1>1 DEF Key
<1> DEFINE m == Min({KeyMappingSize, max_width})
<1>6. m \in {KeyMappingSize, max_width} /\ m <= KeyMappingSize /\ m <= max_width
  BY <1>1, MinOfTwo, KeyAssumption
<1>7. max_size = CASE Kind # "dynamic" -> N
                   [] Kind = "dynamic" /\ IsClosed -> m
                   [] OTHER -> max_width
  BY DEF max_size
<1> HIDE DEF m
<1>8. /\ max_size \in Nat /\ max_size <= max_width
      /\ Kind # "dynamic" => max_size = N
      /\ \A n \in Nat : n < max_size => is_key(n)
      /\ \A n \in Nat : is_key(n) /\ n < Ceiling => n < max_size
  <2>1. CASE Kind # "dynamic"
    BY <1>1, <1>4, <1>7, <2>1, NAssumption, KeyAssumption DEF is_key, Ceiling
  <2>2. CASE Kind = "dynamic" /\ IsClosed
    BY <1>1, <1>2, <1>4, <1>6, <1>7, <2>2, KeyAssumption DEF is_key
  <2>3. CASE Kind = "dynamic" /\ ~IsClosed
    BY <1>1, <1>2, <1>4, <1>7, <2>3, KeyAssumption DEF is_key
  <2> QED
    BY <2>1, <2>2, <2>3
<1> QED
  BY <1>1, <1>2, <1>4, <1>5, <1>8

\* What a named write refuses is what a set of keys refuses, but for the room
\* of an inplace set, which the storage refuses.
LEMMA GuardIsRefusal ==
    ASSUME NEW n \in 0 .. top
    PROVE  /\ guard_key(n) # "none" => Keys!Refusal(n) = guard_key(n)
           /\ guard_key(n) = "none" =>
                 /\ is_key(n) /\ (Kind = "static" => n < N)
                 /\ Keys!Refusal(n) = IF Kind = "inplace" /\ n >= N THEN "bad_alloc" ELSE "none"
<1>0. top \in Nat /\ n \in Nat /\ n <= top /\ max_width \in Nat /\ max_width < top /\ N \in Nat
  BY KeyBounds, NAssumption
<1>1. width_sum(n, 1) > max_width <=> n >= max_width
  BY <1>0 DEF width_sum
<1>2. CASE Kind = "static"
  BY <1>0, <1>2, KeyAssumption DEF guard_key, Keys!Refusal, is_key
<1>3. CASE Kind # "static"
  <2>1. /\ n \in {k \in 0 .. top : is_key(k)} <=> is_key(n)
        /\ n \in 0 .. max_width - 1 <=> n < max_width
    BY <1>0
  <2>2. Kind \in {"dynamic", "inplace"}
    BY <1>3, KindAssumption
  <2>3. CASE ~is_key(n)
    BY <1>3, <2>1, <2>2, <2>3 DEF guard_key, Keys!Refusal
  <2>4. CASE is_key(n) /\ n >= max_width
    BY <1>0, <1>1, <1>3, <2>1, <2>2, <2>4 DEF guard_key, Keys!Refusal
  <2>5. CASE is_key(n) /\ n < max_width
    BY <1>0, <1>1, <1>3, <2>1, <2>2, <2>5 DEF guard_key, Keys!Refusal
  <2> QED
    BY <1>0, <2>3, <2>4, <2>5
<1> QED
  BY <1>2, <1>3

\* A position of a set is a key that max_size() counts.
LEMMA HeldBounds ==
    ASSUME TypeOK, UnusedBitsClear, HeldAreKeys, NEW x \in Obj
    PROVE  /\ m_size[x] \in Nat /\ m_size[x] <= Ceiling
           /\ Kind # "dynamic" => m_size[x] <= N
           /\ Kind = "static" => m_size[x] = N
           /\ Held(x) \subseteq Nat
           /\ \A p \in Held(x) : p \in Nat /\ p < m_size[x] /\ is_key(p) /\ p < max_size
<1>1. m_size[x] \in Nat /\ m_size[x] <= Ceiling /\ (Kind = "static" => m_size[x] = N)
  BY BlocksType, CeilingType DEF TypeOK
<1>2. \A p \in Held(x) : p \in Nat /\ p < m_size[x]
  BY SetScans DEF Held
<1>3. \A p \in Held(x) : is_key(p)
  BY DEF HeldAreKeys, Held
<1>4. \A p \in Held(x) : p < Ceiling
  BY <1>1, <1>2, KeyBounds
<1> QED
  BY <1>1, <1>2, <1>3, <1>4, KeyBounds

(***************************************************************************)
(* The keys of a set, while a call of it is under way and after.           *)
(***************************************************************************)
\* What the calls half done have done, step by step.  An insertion of
\* consecutive keys has inserted the last of them.
SpanExact ==
    \E lo, len \in Nat :
        /\ pending.op = "insert_range" /\ pending.args = <<lo, len>>
        /\ len > 0 /\ ~IsClosed /\ lo + len - 1 \in Nat /\ Keys!Admitted(lo + len - 1)
        /\ Held(pending.x) = pending.was \cup {lo + len - 1}

\* An insertion key by key has inserted the keys up to here.
EachExact ==
    /\ pending.op \in {"insert_each", "assign_each"} /\ "was" \in DOMAIN pending
    /\ pending.args \in Seq(0 .. top) /\ pending.at <= Len(pending.args)
    /\ \A i \in 1 .. pending.at : Keys!Admitted(pending.args[i])
    /\ Held(pending.x) = (IF pending.op = "insert_each" THEN pending.was ELSE {})
                            \cup {pending.args[i] : i \in 1 .. pending.at}

\* An erasure of the keys chosen has erased those before here.
EraseIfExact ==
    \E chosen :
        /\ pending.op = "erase_if" /\ pending.args = <<chosen>>
        /\ {"was", "last", "original_size"} \subseteq DOMAIN pending
        /\ pending.last = end(pending.x)
        /\ IsFiniteSet(pending.was) /\ pending.original_size = Cardinality(pending.was)
        /\ \A k \in pending.was : k \in Nat /\ k < pending.last
        /\ pending.at \in pending.was \cup {pending.last}
        /\ Held(pending.x) =
              {k \in pending.was :
                  pending.at = pending.last \/ Keys!Before(k, pending.at) => k \notin chosen}

\* A union has made room, an intersection with a key has cleared the rest, and
\* a shift has the width that the keys it keeps need.
CombineExact ==
    /\ pending.op \in {"or", "xor"} /\ \E y \in Obj : pending.args = <<y>>
    /\ Held(pending.x) = pending.was

KeepExact ==
    \E n \in Nat : /\ pending.op = "and_key" /\ pending.args = <<n>>
                   /\ n \in pending.was /\ is_key(n) /\ Held(pending.x) = {}

ShiftExact ==
    \E n \in Nat : /\ pending.op = "shift_up" /\ pending.args = <<n>>
                   /\ Held(pending.x) = pending.was /\ pending.was \subseteq Nat
                   /\ m_size[pending.x] <= max_size
                   /\ \A k \in pending.was : k + n < max_size => k + n < m_size[pending.x]

PendingExact ==
    /\ Awaits("span") => SpanExact
    /\ Awaits("each") => EachExact
    /\ Awaits("erase_if") => EraseIfExact
    /\ Awaits("combine") => CombineExact
    /\ Awaits("keep") => KeepExact
    /\ Awaits("shift") => ShiftExact

\* The invariant the refinement rests on.
KeyInv == SetInv /\ HeldAreKeys /\ PendingExact

\* What every step keeps.
Kept == HeldAreKeys' /\ PendingExact' /\ EndMoves

KeyStep == Keys!Next \/ UNCHANGED Keys!vars

\* A set written holds keys, and its width moves for one of them or not at all.
Grows(x, size, S) ==
    /\ \A p \in S : is_key(p)
    /\ size = m_size[x] \/ (size > m_size[x] /\ size - 1 \in S)

\* Nothing pending is exact.
LEMMA NothingPending ==
    ASSUME pending' = Nothing
    PROVE  PendingExact' /\ Idle'
BY DEF PendingExact, Idle, Awaits, Nothing

\* Keys written leave keys.
LEMMA LeavesKeys ==
    ASSUME HeldAreKeys, NEW x \in Obj, NEW size, NEW S, Leaves(x, size, S), \A p \in S : is_key(p)
    PROVE  HeldAreKeys'
BY DEF HeldAreKeys, Leaves, bits, is_key

\* A call that ends leaves what it wrote, and the other sets as they were.
LEMMA EndsWith ==
    ASSUME NEW x \in Obj, Idle \/ pending.x = x, pending' = Nothing,
           NEW size, NEW S, Leaves(x, size, S)
    PROVE  Keys!Becomes(x, S)
<1>1. KeysNow' = [y \in Obj |-> Positions(m_blocks'[y])]
  BY NothingPending DEF KeysNow, Held, bits
<1>2. \A y \in Obj : Positions(m_blocks'[y]) = [KeysNow EXCEPT ![x] = S][y]
  BY DEF Leaves, KeysNow, Held, bits
<1>3. KeysNow' = [KeysNow EXCEPT ![x] = S]
  BY <1>1, <1>2 DEF KeysNow
<1> QED
  BY <1>3 DEF Keys!Becomes, KeysNow, Held

\* The keys of a set that no call is under way on, and of one that a call is.
LEMMA KeysWhenIdle ==
    ASSUME NEW x \in Obj
    PROVE  /\ Idle => KeysNow[x] = Held(x)
           /\ ~Idle /\ pending.x = x => KeysNow[x] = pending.was
BY DEF KeysNow, Held

\* What was answered, in the words of both.
LEMMA AnswersAre ==
    ASSUME NEW op, NEW x, NEW args, NEW result, Answers(op, x, args, result)
    PROVE  /\ Keys!Answered(op, x, args, result)
           /\ answer'.op = op /\ answer'.args = args /\ pending' = Nothing
BY DEF Answers, Returned, Keys!Answered

\* And thrown.
LEMMA ThrowsAre ==
    ASSUME NEW op, NEW x, NEW args, NEW exception, Throws(op, x, args, exception)
    PROVE  /\ Keys!Threw(op, x, args, exception)
           /\ answer'.op = op /\ answer'.args = args /\ pending' = Nothing
BY DEF Throws, Threw, Keys!Threw, NoResult, Keys!NoResult

\* A call that answers.
LEMMA AnswersKeep ==
    ASSUME HeldAreKeys, NEW x \in Obj, Idle \/ pending.x = x,
           NEW op, NEW args, NEW result, Answers(op, x, args, result),
           NEW size, NEW S, Leaves(x, size, S), Grows(x, size, S)
    PROVE  /\ Kept /\ Keys!Becomes(x, S) /\ Keys!Answered(op, x, args, result)
           /\ answer'.op = op /\ answer'.args = args
<1>1. EndMoves
  BY DEF EndMoves, Leaves, Grows, end, bits
<1> QED
  BY <1>1, AnswersAre, NothingPending, EndsWith, LeavesKeys DEF Kept, Grows

\* A call that throws, at its first step or a later one.
LEMMA ThrowsKeep ==
    ASSUME HeldAreKeys, UNCHANGED contents,
           NEW x, NEW op, NEW args, NEW exception, Throws(op, x, args, exception)
    PROVE  /\ Kept /\ Keys!Threw(op, x, args, exception)
           /\ answer'.op = op /\ answer'.args = args
           /\ Idle => UNCHANGED KeysNow
<1>1. EndMoves
  BY DEF EndMoves, contents, end, bits
<1>2. HeldAreKeys'
  BY DEF HeldAreKeys, contents, bits, is_key
<1>3. Idle => UNCHANGED KeysNow
  BY ThrowsAre, NothingPending DEF KeysNow, Held, bits, contents
<1> QED
  BY <1>1, <1>2, <1>3, ThrowsAre, NothingPending DEF Kept

\* One that was refused before it wrote, and has no effects.
LEMMA FailsKeep ==
    ASSUME HeldAreKeys, Idle, UNCHANGED contents,
           NEW x, NEW op, NEW args, NEW exception, Throws(op, x, args, exception)
    PROVE  /\ Kept /\ Keys!Fails(op, x, args, exception)
           /\ answer'.op = op /\ answer'.args = args
<1>1. /\ Kept /\ Keys!Threw(op, x, args, exception)
      /\ answer'.op = op /\ answer'.args = args /\ UNCHANGED KeysNow
  BY ThrowsKeep
<1> QED
  BY <1>1 DEF Keys!Fails, KeysNow, Held

\* A call that goes on has answered nothing yet.
LEMMA BeginsWith ==
    ASSUME HeldAreKeys, Idle, NEW x \in Obj,
           NEW step, step # "none", NEW op, NEW args, Continues(step, op, x, args),
           call'.outcome # "bad_alloc",
           NEW size, NEW S, Leaves(x, size, S), \A p \in S : is_key(p)
    PROVE  /\ HeldAreKeys' /\ KeyStep
           /\ pending' = [step |-> step, op |-> op, x |-> x, args |-> args, was |-> Held(x), at |-> 0]
           /\ Held(x)' = S
<1> DEFINE was == Positions(bits(x))
<1>1. /\ pending' = [step |-> step, op |-> op, x |-> x, args |-> args, was |-> was, at |-> 0]
      /\ UNCHANGED answer
  BY DEF Continues
<1> HIDE DEF was
<1>2. pending'.step = step /\ pending'.x = x /\ pending'.was = was
  BY <1>1
<1>3. ~Idle'
  BY <1>2 DEF Idle
<1>4. \A y \in Obj : KeysNow'[y] = KeysNow[y]
  BY <1>2, <1>3 DEF KeysNow, Leaves, Held, bits, was
<1>5. UNCHANGED KeysNow
  BY <1>4 DEF KeysNow
<1>6. UNCHANGED Keys!vars
  BY <1>1, <1>5 DEF Keys!vars, KeysNow, Held
<1> QED
  BY <1>1, <1>6, LeavesKeys DEF KeyStep, was, Held, Leaves, bits

(***************************************************************************)
(* Insertion.                                                              *)
(***************************************************************************)
\* Refused, by the reading or by the storage, as a set of keys refuses.
LEMMA RefusedInsertion ==
    ASSUME TypeOK, UnusedBitsClear, NEW x \in Obj, NEW n \in 0 .. top,
           NEW e, \/ guard_key(n) # "none" /\ e = guard_key(n)
                  \/ /\ guard_key(n) = "none" /\ e = "bad_alloc"
                     /\ has_stored_size /\ (Kind = "inplace" => n >= N)
                     /\ n \notin Held(x)
    PROVE  e \in Keys!Refusals(Held(x), n)
<1>1. CASE guard_key(n) # "none" /\ e = guard_key(n)
  BY <1>1, GuardIsRefusal DEF Keys!Refusals
<1>2. CASE /\ guard_key(n) = "none" /\ e = "bad_alloc"
           /\ has_stored_size /\ (Kind = "inplace" => n >= N)
           /\ n \notin Held(x)
  <2>1. Keys!Refusal(n) = IF Kind = "inplace" THEN "bad_alloc" ELSE "none"
    BY <1>2, GuardIsRefusal
  <2>2. Kind \in {"dynamic", "inplace"}
    BY <1>2, KindAssumption DEF has_stored_size
  <2> QED
    BY <1>2, <2>1, <2>2 DEF Keys!Refusals
<1> QED
  BY <1>1, <1>2

\* Granted, the key is admitted.
LEMMA GrantedInsertion ==
    ASSUME NEW n \in 0 .. top, guard_key(n) = "none", Kind # "dynamic" => n < N
    PROVE  Keys!Admitted(n) /\ is_key(n)
BY GuardIsRefusal, NAssumption DEF Keys!Admitted

\* What an insertion grows by.
LEMMA InsertionGrows ==
    ASSUME TypeOK, UnusedBitsClear, HeldAreKeys, NEW x \in Obj, NEW n \in Nat, is_key(n)
    PROVE  Grows(x, IF n < m_size[x] THEN m_size[x] ELSE n + 1, Held(x) \cup {n})
BY HeldBounds DEF Grows

\* An insertion of one key, refused by the reading, by the storage, or granted.
LEMMA DoInsertKeeps ==
    ASSUME KeyInv, NEW x \in Obj, NEW n \in Key, DoInsert(x, n)
    PROVE  Kept /\ KeyStep
<1>4. PICK args : args = <<n>>
  OBVIOUS
<1>0. /\ TypeOK /\ UnusedBitsClear /\ HeldAreKeys /\ Idle
      /\ n \in 0 .. top /\ n \in Nat
  BY KeyBounds DEF KeyInv, SetInv, DoInsert
<1>5. args[1] = n
  BY <1>4
<1>1. ASSUME NEW e, Throws("insert", x, args, e), UNCHANGED contents,
             e \in Keys!Refusals(Held(x), n)
      PROVE  Kept /\ KeyStep
  <2>1. /\ Kept /\ Keys!Fails("insert", x, args, e)
        /\ answer'.op = "insert" /\ answer'.args = args
    BY <1>0, <1>1, FailsKeep
  <2>2. Keys!Insert(x, n)
    BY <1>0, <1>1, <2>1, <1>4, KeysWhenIdle DEF Keys!Insert
  <2> QED
    BY <1>5, <2>1, <2>2 DEF KeyStep, Keys!Next, Keys!Is
<1>2. CASE guard_key(n) # "none"
  <2>1. Throws("insert", x, args, guard_key(n)) /\ UNCHANGED contents
    BY <1>2, <1>4 DEF DoInsert, Untouched
  <2> QED
    BY <1>0, <1>1, <1>2, <2>1, RefusedInsertion
<1>3. CASE guard_key(n) = "none"
  <2>1. growing_insert(x, n) /\ Settles("insert", x, args, <<{n}, call'.result>>)
    BY <1>3, <1>4 DEF DoInsert
  <2>2. CASE /\ Refused /\ has_stored_size
             /\ n >= m_size[x] /\ n \notin Held(x)
             /\ Kind = "inplace" => n >= N
    <3>1. Throws("insert", x, args, "bad_alloc") /\ UNCHANGED contents
      BY <2>1, <2>2 DEF Settles, Refused
    <3>2. "bad_alloc" \in Keys!Refusals(Held(x), n)
      BY <1>0, <1>3, <2>2, RefusedInsertion
    <3> QED
      BY <1>1, <3>1, <3>2
  <2>3. CASE /\ call'.outcome = "ok" /\ call'.result = (n \notin Held(x))
             /\ Leaves(x, IF n < m_size[x] THEN m_size[x] ELSE n + 1, Held(x) \cup {n})
             /\ Kind # "dynamic" => n < N
    <3>1. PICK size, S, result :
            /\ size = IF n < m_size[x] THEN m_size[x] ELSE n + 1
            /\ S = Held(x) \cup {n}
            /\ result = <<{n}, n \notin Held(x)>>
      OBVIOUS
    <3>2. Answers("insert", x, args, <<{n}, call'.result>>)
      BY <2>1, <2>3 DEF Settles
    <3>3. Answers("insert", x, args, result)
      BY <2>3, <3>1, <3>2, Zenon
    <3>4. Keys!Admitted(n) /\ is_key(n)
      BY <1>0, <1>3, <2>3, GrantedInsertion
    <3>5. Grows(x, size, S)
      BY <1>0, <3>1, <3>4, InsertionGrows
    <3>6. Leaves(x, size, S)
      BY <2>3, <3>1
    <3>7. /\ Kept /\ Keys!Becomes(x, S) /\ Keys!Answered("insert", x, args, result)
          /\ answer'.op = "insert" /\ answer'.args = args
      BY <1>0, <3>3, <3>5, <3>6, AnswersKeep
    <3>8. Keys!Insert(x, n)
      <4>1. PICK K : K = Held(x)
        OBVIOUS
      <4>2. Keys!Answered("insert", x, <<n>>, <<{n}, n \notin K>>)
        BY <1>4, <3>1, <3>7, <4>1, Zenon
      <4>3. Keys!Becomes(x, K \cup {n})
        BY <3>1, <3>7, <4>1
      <4>4. KeysNow[x] = K
        BY <1>0, <4>1, KeysWhenIdle
      <4> QED
        BY <3>4, <4>2, <4>3, <4>4, Zenon DEF Keys!Insert
    <3> QED
      BY <1>5, <3>7, <3>8 DEF KeyStep, Keys!Next, Keys!Is
  <2> QED
    BY <1>0, <2>1, <2>2, <2>3, InsertLeaves
<1> QED
  BY <1>2, <1>3

\* The width a call leaves, as a step may move the end.
LEMMA GrowsEndMoves ==
    ASSUME NEW x \in Obj, NEW size, NEW S, Leaves(x, size, S), Grows(x, size, S)
    PROVE  EndMoves
BY DEF EndMoves, Leaves, Grows, end, bits

\* A call that answers nothing but that it is done.
LEMMA DoesKeep ==
    ASSUME HeldAreKeys, NEW x \in Obj, Idle \/ pending.x = x,
           NEW op, NEW args, Answers(op, x, args, NoResult),
           NEW size, NEW S, Leaves(x, size, S), Grows(x, size, S)
    PROVE  /\ Kept /\ Keys!Does(op, x, args, S)
           /\ answer'.op = op /\ answer'.args = args
<1> DEFINE result == NoResult
<1>1. Answers(op, x, args, result)
  OBVIOUS
<1>2. result = Keys!NoResult
  BY DEF NoResult, Keys!NoResult
<1> HIDE DEF result
<1>3. /\ Kept /\ Keys!Becomes(x, S) /\ Keys!Answered(op, x, args, result)
      /\ answer'.op = op /\ answer'.args = args
  BY <1>1, AnswersKeep
<1> QED
  BY <1>2, <1>3 DEF Keys!Does

\* What a call leaves whose keys were keys and whose width stays.
LEMMA KeepsWidth ==
    ASSUME HeldAreKeys, NEW x \in Obj, NEW S, \A p \in S : p \in Held(x) \/ is_key(p)
    PROVE  Grows(x, m_size[x], S)
BY DEF Grows, HeldAreKeys, Held

\* A set left alone.
LEMMA UntouchedLeaves ==
    ASSUME HeldAreKeys, NEW x \in Obj, Untouched
    PROVE  /\ Leaves(x, m_size[x], Held(x)) /\ Grows(x, m_size[x], Held(x))
           /\ UNCHANGED contents /\ call'.outcome = "ok"
BY UnwrittenLeaves, KeepsWidth DEF Untouched

\* An insertion of consecutive keys: none, or the last of them first.
LEMMA InsertRangeKeeps ==
    ASSUME KeyInv, NEW x \in Obj, NEW lo \in Key, NEW len \in Key, lo + len <= top,
           InsertRange(x, lo, len)
    PROVE  Kept /\ KeyStep
<1> DEFINE hi == width_sum(lo, len - 1)
           R == lo .. lo + len - 1
<1>0. /\ TypeOK /\ UnusedBitsClear /\ HeldAreKeys /\ Idle /\ ~IsClosed
      /\ lo \in 0 .. top /\ len \in 0 .. top /\ top \in Nat
  BY KeyBounds DEF KeyInv, SetInv, InsertRange
<1>1. len > 0 => hi = lo + len - 1 /\ hi \in 0 .. top /\ hi \in Nat
  BY <1>0 DEF width_sum
<1>7. PICK args : args = <<lo, len>>
  OBVIOUS
<1>2. args[1] = lo /\ args[2] = len
  BY <1>7
<1>3. CASE len = 0
  <2>1. Answers("insert_range", x, args, NoResult) /\ Untouched
    BY <1>3, <1>7 DEF InsertRange
  <2>2. /\ Kept /\ Keys!Does("insert_range", x, args, Held(x))
        /\ answer'.op = "insert_range" /\ answer'.args = args
    BY <1>0, <2>1, UntouchedLeaves, DoesKeep
  <2>3. Held(x) \cup R = Held(x)
    BY <1>0, <1>3
  <2>4. Keys!InsertRange(x, lo, len)
    <3>1. len > 0 => Keys!Admitted(lo + len - 1)
      BY <1>0, <1>3
    <3>2. Keys!Does("insert_range", x, <<lo, len>>, Held(x) \cup (lo .. lo + len - 1))
      BY <1>7, <2>2, <2>3
    <3> QED
      BY <1>0, <3>1, <3>2, KeysWhenIdle DEF Keys!InsertRange
  <2> QED
    BY <1>2, <2>2, <2>4 DEF KeyStep, Keys!Next, Keys!Is
<1>4. ASSUME len > 0, NEW e, Throws("insert_range", x, args, e), UNCHANGED contents,
             e \in Keys!Refusals(Held(x), hi)
      PROVE  Kept /\ KeyStep
  <2>1. /\ Kept /\ Keys!Fails("insert_range", x, args, e)
        /\ answer'.op = "insert_range" /\ answer'.args = args
    BY <1>0, <1>4, FailsKeep
  <2>2. e \in Keys!Refusals(Held(x), lo + len - 1)
    BY <1>1, <1>4
  <2>3. Keys!InsertRange(x, lo, len)
    BY <1>0, <1>4, <1>7, <2>1, <2>2, KeysWhenIdle DEF Keys!InsertRange
  <2> QED
    BY <1>2, <2>1, <2>3 DEF KeyStep, Keys!Next, Keys!Is
<1> HIDE DEF hi
<1>5. CASE len > 0 /\ guard_key(hi) # "none"
  <2>1. Throws("insert_range", x, args, guard_key(hi)) /\ UNCHANGED contents
    BY <1>0, <1>5, <1>7 DEF InsertRange, Untouched, hi
  <2>2. guard_key(hi) \in Keys!Refusals(Held(x), hi)
    BY <1>0, <1>1, <1>5, RefusedInsertion
  <2> QED
    BY <1>4, <1>5, <2>1, <2>2
<1>6. CASE len > 0 /\ guard_key(hi) = "none"
  <2>1. growing_insert(x, hi) /\ Continues("span", "insert_range", x, args)
    BY <1>0, <1>6, <1>7 DEF InsertRange, hi
  <2>2. CASE /\ Refused /\ has_stored_size
             /\ hi >= m_size[x] /\ hi \notin Held(x)
             /\ Kind = "inplace" => hi >= N
    <3>1. Throws("insert_range", x, args, "bad_alloc") /\ UNCHANGED contents
      BY <2>1, <2>2 DEF Continues, Refused
    <3>2. "bad_alloc" \in Keys!Refusals(Held(x), hi)
      BY <1>0, <1>1, <1>6, <2>2, RefusedInsertion
    <3> QED
      BY <1>4, <1>6, <3>1, <3>2
  <2>3. CASE /\ call'.outcome = "ok" /\ call'.result = (hi \notin Held(x))
             /\ Leaves(x, IF hi < m_size[x] THEN m_size[x] ELSE hi + 1, Held(x) \cup {hi})
             /\ Kind # "dynamic" => hi < N
    <3> DEFINE size == IF hi < m_size[x] THEN m_size[x] ELSE hi + 1
    <3>1. call'.outcome # "bad_alloc" /\ Leaves(x, size, Held(x) \cup {hi})
      BY <2>3
    <3>2. Keys!Admitted(hi) /\ is_key(hi)
      BY <1>0, <1>1, <1>6, <2>3, GrantedInsertion
    <3>3. Grows(x, size, Held(x) \cup {hi})
      BY <1>0, <1>1, <1>6, <3>2, InsertionGrows
    <3> HIDE DEF size
    <3>4. /\ HeldAreKeys' /\ KeyStep
          /\ pending' = [step |-> "span", op |-> "insert_range", x |-> x, args |-> args,
                         was |-> Held(x), at |-> 0]
          /\ Held(x)' = Held(x) \cup {hi}
      BY <1>0, <2>1, <3>1, <3>3, BeginsWith DEF Grows
    <3>5. EndMoves
      BY <3>1, <3>3, GrowsEndMoves
    <3>6. PendingExact'
      <4> DEFINE was == Held(x)
      <4>1. pending' = [step |-> "span", op |-> "insert_range", x |-> x, args |-> args,
                        was |-> was, at |-> 0] /\ Held(x)' = was \cup {hi}
        BY <3>4
      <4> HIDE DEF was
      <4>2. /\ pending'.step = "span" /\ pending'.op = "insert_range" /\ pending'.x = x
            /\ pending'.args = args /\ pending'.was = was
        BY <4>1
      <4>3. Held(pending.x)' = pending'.was \cup {lo + len - 1}
        BY <1>1, <1>6, <4>1, <4>2 DEF Held, bits
      <4>4. Keys!Admitted(lo + len - 1) /\ lo + len - 1 \in Nat
        BY <1>1, <1>6, <3>2
      <4>5. lo \in Nat /\ len \in Nat
        BY <1>0
      <4>6. SpanExact'
        BY <1>0, <1>6, <4>2, <4>3, <4>4, <4>5, <1>7 DEF SpanExact
      <4> QED
        BY <4>2, <4>6 DEF PendingExact, Awaits
    <3> QED
      BY <3>4, <3>5, <3>6 DEF Kept
  <2> QED
    BY <1>0, <1>1, <1>6, <2>1, <2>2, <2>3, InsertLeaves
<1> QED
  BY <1>0, <1>3, <1>5, <1>6

\* The rest of the consecutive keys, for which there is room.
LEMMA SetSpanKeeps ==
    ASSUME KeyInv, SetSpan
    PROVE  Kept /\ KeyStep
<1>0. /\ TypeOK /\ UnusedBitsClear /\ HeldAreKeys /\ ~Idle /\ pending.x \in Obj /\ SpanExact
  BY DEF KeyInv, SetInv, SetSpan, Awaits, Idle, PendingOK, PendingExact
<1>1. PICK lo \in Nat, len \in Nat :
        /\ pending.op = "insert_range" /\ pending.args = <<lo, len>>
        /\ len > 0 /\ ~IsClosed /\ lo + len - 1 \in Nat /\ Keys!Admitted(lo + len - 1)
        /\ Held(pending.x) = pending.was \cup {lo + len - 1}
  BY <1>0 DEF SpanExact
<1> DEFINE R == lo .. lo + len - 1
<1>2. PICK x, args, was, S :
        /\ x = pending.x /\ x \in Obj /\ args = <<lo, len>> /\ was = pending.was /\ S = was \cup R
  BY <1>0
<1>3. args[1] = lo /\ args[2] = len /\ pending.args = args
  BY <1>1, <1>2
<1>4. set_range(x, lo, len, TRUE) /\ Answers("insert_range", x, args, NoResult)
  BY <1>1, <1>2, <1>3 DEF SetSpan
<1>5. Leaves(x, m_size[x], (Held(x) \ R) \cup {p \in R : TRUE})
  BY <1>0, <1>2, <1>4, RangeLeaves
<1>6. Leaves(x, m_size[x], S)
  <2>1. (Held(x) \ R) \cup {p \in R : TRUE} = S
    BY <1>1, <1>2
  <2> QED
    BY <1>5, <2>1
<1>7. Grows(x, m_size[x], S)
  BY <1>0, <1>1, <1>2, KeepsWidth DEF is_key
<1>8. /\ Kept /\ Keys!Does("insert_range", x, args, S)
      /\ answer'.op = "insert_range" /\ answer'.args = args
  BY <1>0, <1>2, <1>4, <1>6, <1>7, DoesKeep
<1>9. KeysNow[x] = was
  BY <1>0, <1>2, KeysWhenIdle
<1>10. Keys!InsertRange(x, lo, len)
  <2>1. Keys!Does("insert_range", x, <<lo, len>>, was \cup (lo .. lo + len - 1))
    BY <1>2, <1>8
  <2> QED
    BY <1>1, <1>9, <2>1 DEF Keys!InsertRange
<1> QED
  BY <1>2, <1>3, <1>8, <1>10 DEF KeyStep, Keys!Next, Keys!Is

\* Key by key, from the keys there were or from none.
LEMMA BeginEachKeeps ==
    ASSUME KeyInv, NEW x \in Obj, NEW n \in Key, NEW m \in Key,
           InsertEach(x, <<n, m>>) \/ AssignEach(x, <<n, m>>)
    PROVE  Kept /\ KeyStep
<1> DEFINE args == <<n, m>>
<1>0. TypeOK /\ UnusedBitsClear /\ HeldAreKeys /\ Idle
  BY DEF KeyInv, SetInv, InsertEach, AssignEach
<1>1. args \in Seq(0 .. top) /\ Len(args) = 2
  BY KeyBounds
<1> HIDE DEF args
<1>2. ASSUME NEW op \in {"insert_each", "assign_each"}, Continues("each", op, x, args),
             call'.outcome # "bad_alloc", NEW S, Leaves(x, m_size[x], S),
             S = IF op = "insert_each" THEN Held(x) ELSE {}
      PROVE  Kept /\ KeyStep
  <2>1. Grows(x, m_size[x], S) /\ \A p \in S : is_key(p)
    BY <1>0, <1>2 DEF Grows, HeldAreKeys, Held
  <2>2. /\ HeldAreKeys' /\ KeyStep
        /\ pending' = [step |-> "each", op |-> op, x |-> x, args |-> args,
                       was |-> Held(x), at |-> 0]
        /\ Held(x)' = S
    BY <1>0, <1>2, <2>1, BeginsWith
  <2> DEFINE was == Held(x)
  <2>3. /\ pending' = [step |-> "each", op |-> op, x |-> x, args |-> args,
                       was |-> was, at |-> 0]
        /\ Held(x)' = IF op = "insert_each" THEN was ELSE {}
    BY <1>2, <2>2
  <2> HIDE DEF was
  <2>4. /\ pending'.step = "each" /\ pending'.op = op /\ pending'.x = x /\ pending'.at = 0
        /\ pending'.args = args /\ pending'.was = was /\ "was" \in DOMAIN pending'
    BY <2>3
  <2>5. Held(pending.x)' = IF pending'.op = "insert_each" THEN pending'.was ELSE {}
    BY <2>3, <2>4 DEF Held, bits
  <2>6. EachExact'
    BY <1>1, <1>2, <2>4, <2>5 DEF EachExact
  <2>7. PendingExact'
    BY <2>4, <2>6 DEF PendingExact, Awaits
  <2> QED
    BY <1>2, <2>1, <2>2, <2>7, GrowsEndMoves DEF Kept
<1>3. CASE InsertEach(x, <<n, m>>)
  <2>1. Untouched /\ Continues("each", "insert_each", x, args)
    BY <1>3 DEF InsertEach, args
  <2> QED
    BY <1>0, <1>2, <2>1, UntouchedLeaves
<1>4. CASE AssignEach(x, <<n, m>>)
  <2>1. reset_all(x) /\ Continues("each", "assign_each", x, args)
    BY <1>4 DEF AssignEach, args
  <2>2. Leaves(x, m_size[x], {}) /\ call'.outcome = "ok"
    BY <1>0, <2>1, ManyLeave
  <2> QED
    BY <1>2, <2>1, <2>2
<1> QED
  BY <1>3, <1>4

\* What an insertion key by key does is a step.
LEMMA EachIsStep ==
    ASSUME NEW x \in Obj, NEW op \in {"insert_each", "assign_each"}, NEW s,
           ~Idle, pending.x = x, s = IF op = "insert_each" THEN pending.was ELSE {},
           answer'.op = op, Keys!InsertEach(op, x, s)
    PROVE  KeyStep
<1>1. op = "insert_each" => s = KeysNow[x]
  BY KeysWhenIdle
<1>2. op = "insert_each" => Keys!InsertEach("insert_each", x, KeysNow[x])
  BY <1>1
<1>3. op = "assign_each" => Keys!InsertEach("assign_each", x, {})
  OBVIOUS
<1> QED
  BY <1>2, <1>3 DEF KeyStep, Keys!Next, Keys!Is

\* Each key refused, or inserted.
LEMMA InsertNextKeeps ==
    ASSUME KeyInv, InsertNext
    PROVE  Kept /\ KeyStep
<1>0. /\ TypeOK /\ UnusedBitsClear /\ HeldAreKeys /\ ~Idle /\ pending.x \in Obj /\ EachExact
      /\ Awaits("each") /\ pending.at \in Nat /\ pending.at < Len(pending.args)
      /\ {"was", "at"} \subseteq DOMAIN pending
  BY DEF KeyInv, SetInv, InsertNext, Awaits, Idle, PendingOK, PendingExact, EachExact
<1>1. PICK x, op, args, k, was, s, n :
        /\ x = pending.x /\ op = pending.op /\ args = pending.args /\ k = pending.at
        /\ was = pending.was /\ s = (IF op = "insert_each" THEN was ELSE {}) /\ n = args[k + 1]
  OBVIOUS
<1> DEFINE upto(i) == s \cup {args[j] : j \in 1 .. i}
<1>2. /\ op \in {"insert_each", "assign_each"} /\ args \in Seq(0 .. top)
      /\ \A i \in 1 .. k : Keys!Admitted(args[i])
      /\ Held(x) = upto(k)
      /\ x \in Obj /\ pending.x = x /\ k \in Nat /\ k < Len(args)
  BY <1>0, <1>1 DEF EachExact
<1>3. n \in 0 .. top /\ n \in Nat /\ Len(args) \in Nat
  BY <1>1, <1>2, KeyBounds
<1>4. ASSUME NEW e, Throws(op, x, args, e), UNCHANGED contents, e \in Keys!Refusals(Held(x), n)
      PROVE  Kept /\ KeyStep
  <2>1. /\ Kept /\ Keys!Threw(op, x, args, e)
        /\ answer'.op = op /\ answer'.args = args /\ pending' = Nothing
    BY <1>0, <1>4, ThrowsKeep, ThrowsAre
  <2>2. PICK S : S = upto(k)
    OBVIOUS
  <2>3. Keys!Becomes(x, S)
    BY <1>2, <1>4, <2>1, <2>2, UnwrittenLeaves, EndsWith
  <2>4. Keys!InsertEach(op, x, s)
    <3>1. k \in 0 .. Len(args) - 1
      BY <1>2, <1>3
    <3>2. e \in Keys!Refusals(upto(k), args[k + 1])
      BY <1>1, <1>2, <1>4
    <3> QED
      BY <1>2, <2>1, <2>2, <2>3, <3>1, <3>2 DEF Keys!InsertEach
  <2> QED
    BY <2>1, <2>4, <1>0, <1>1, <1>2, EachIsStep
<1>5. CASE guard_key(n) # "none"
  <2>1. Throws(op, x, args, guard_key(n)) /\ UNCHANGED contents
    BY <1>1, <1>5 DEF InsertNext, Untouched
  <2>2. guard_key(n) \in Keys!Refusals(Held(x), n)
    BY <1>0, <1>2, <1>3, <1>5, RefusedInsertion
  <2> QED
    BY <1>4, <2>1, <2>2
<1>6. CASE guard_key(n) = "none"
  <2>1. /\ growing_insert(x, n)
        /\ IF call'.outcome = "bad_alloc"
           THEN Throws(op, x, args, "bad_alloc")
           ELSE pending' = [pending EXCEPT !.at = @ + 1] /\ UNCHANGED answer
    BY <1>1, <1>6 DEF InsertNext
  <2>2. CASE /\ Refused /\ has_stored_size
             /\ n >= m_size[x] /\ n \notin Held(x)
             /\ Kind = "inplace" => n >= N
    <3>1. Throws(op, x, args, "bad_alloc") /\ UNCHANGED contents
      BY <2>1, <2>2 DEF Refused
    <3>2. "bad_alloc" \in Keys!Refusals(Held(x), n)
      BY <1>0, <1>2, <1>3, <1>6, <2>2, RefusedInsertion
    <3> QED
      BY <1>4, <3>1, <3>2
  <2>3. CASE /\ call'.outcome = "ok" /\ call'.result = (n \notin Held(x))
             /\ Leaves(x, IF n < m_size[x] THEN m_size[x] ELSE n + 1, Held(x) \cup {n})
             /\ Kind # "dynamic" => n < N
    <3>1. PICK size, S : /\ size = (IF n < m_size[x] THEN m_size[x] ELSE n + 1)
                         /\ S = Held(x) \cup {n}
      OBVIOUS
    <3>2. Leaves(x, size, S)
      BY <2>3, <3>1
    <3>3. Keys!Admitted(n) /\ is_key(n)
      BY <1>3, <1>6, <2>3, GrantedInsertion
    <3>4. Grows(x, size, S)
      BY <1>0, <1>2, <1>3, <3>1, <3>3, InsertionGrows
    <3>5. pending' = [pending EXCEPT !.at = @ + 1] /\ UNCHANGED answer
      BY <2>1, <2>3
    <3>6. /\ pending'.step = pending.step /\ pending'.op = op /\ pending'.x = x
          /\ pending'.args = args /\ pending'.was = was /\ pending'.at = k + 1
          /\ "was" \in DOMAIN pending'
      BY <1>0, <1>1, <3>5
    <3>7. S = upto(k + 1)
      <4>1. {args[j] : j \in 1 .. k + 1} = {args[j] : j \in 1 .. k} \cup {n}
        BY <1>1, <1>2
      <4> QED
        BY <1>2, <3>1, <4>1
    <3>8. Held(pending.x)' = S
      BY <3>2, <3>6 DEF Leaves, Held, bits
    <3>9. \A i \in 1 .. k + 1 : Keys!Admitted(args[i])
      <4> TAKE i \in 1 .. k + 1
      <4>1. i \in 1 .. k \/ i = k + 1
        BY <1>2
      <4> QED
        BY <1>1, <1>2, <3>3, <4>1
    <3>10. k + 1 <= Len(args)
      BY <1>2, <1>3
    <3>11. EachExact'
      BY <1>1, <1>2, <3>6, <3>7, <3>8, <3>9, <3>10 DEF EachExact
    <3>12. PendingExact'
      BY <1>0, <3>6, <3>11 DEF PendingExact, Awaits
    <3>13. HeldAreKeys' /\ EndMoves
      BY <1>0, <1>2, <3>2, <3>4, LeavesKeys, GrowsEndMoves DEF Grows
    <3>14. ~Idle'
      BY <1>0, <3>6 DEF Idle
    <3>15. \A y \in Obj : KeysNow'[y] = KeysNow[y]
      BY <1>0, <1>1, <1>2, <3>2, <3>6, <3>14 DEF KeysNow, Leaves, bits
    <3>16. UNCHANGED KeysNow
      BY <3>15 DEF KeysNow
    <3> QED
      BY <3>5, <3>12, <3>13, <3>16 DEF Kept, KeyStep, Keys!vars
  <2> QED
    BY <1>0, <1>2, <1>3, <2>1, <2>2, <2>3, InsertLeaves
<1> QED
  BY <1>5, <1>6

\* An insertion key by key, at its end.
LEMMA InsertedEachKeeps ==
    ASSUME KeyInv, InsertedEach
    PROVE  Kept /\ KeyStep
<1>0. /\ TypeOK /\ UnusedBitsClear /\ HeldAreKeys /\ ~Idle /\ pending.x \in Obj /\ EachExact
      /\ pending.at = Len(pending.args) /\ Untouched
      /\ Answers(pending.op, pending.x, pending.args, NoResult)
  BY DEF KeyInv, SetInv, InsertedEach, Awaits, Idle, PendingOK, PendingExact
<1>1. PICK x, op, args, was, s, S :
        /\ x = pending.x /\ op = pending.op /\ args = pending.args
        /\ was = pending.was /\ s = (IF op = "insert_each" THEN was ELSE {})
        /\ S = s \cup {args[j] : j \in 1 .. Len(args)}
  OBVIOUS
<1>2. /\ op \in {"insert_each", "assign_each"} /\ args \in Seq(0 .. top)
      /\ \A i \in 1 .. Len(args) : Keys!Admitted(args[i])
      /\ Held(x) = S /\ x \in Obj /\ pending.x = x
  BY <1>0, <1>1 DEF EachExact
<1>3. Leaves(x, m_size[x], S) /\ Grows(x, m_size[x], S) /\ Answers(op, x, args, NoResult)
  BY <1>0, <1>1, <1>2, UntouchedLeaves
<1>4. /\ Kept /\ Keys!Does(op, x, args, S)
      /\ answer'.op = op /\ answer'.args = args
  BY <1>0, <1>2, <1>3, DoesKeep
<1>5. Keys!InsertEach(op, x, s)
  BY <1>1, <1>2, <1>4 DEF Keys!InsertEach
<1> QED
  BY <1>0, <1>1, <1>2, <1>4, <1>5, EachIsStep

(***************************************************************************)
(* Erasure.                                                                *)
(***************************************************************************)
\* The first of some keys of a set is the key its iterator names.
LEMMA FirstIsKey ==
    ASSUME TypeOK, UnusedBitsClear, NEW x \in Obj, NEW S, S \subseteq Held(x)
    PROVE  /\ Keys!First(S) = key_at(x, FirstOf(x, S))
           /\ S # {} => /\ FirstOf(x, S) \in S /\ FirstOf(x, S) # end(x)
                        /\ Keys!First(S) = {FirstOf(x, S)}
                        /\ \A k \in S : k = FirstOf(x, S) \/ Keys!Before(FirstOf(x, S), k)
           /\ S = {} => Keys!First(S) = {} /\ FirstOf(x, S) = end(x)
<1>1. m_size[x] \in Nat /\ Held(x) \in SUBSET (0 .. m_size[x]) /\ \A p \in Held(x) : p \in Nat /\ p < m_size[x]
  BY SetScans DEF Held
<1>2. CASE S = {}
  BY <1>2 DEF Keys!First, key_at, FirstOf
<1>3. CASE S # {}
  <2> DEFINE f == FirstOf(x, S)
  <2>1. f \in S /\ \A k \in S : IF is_descending THEN k <= f ELSE f <= k
    BY <1>1, <1>3, MinExists, MaxExists DEF FirstOf
  <2>2. f # end(x) /\ f \in Nat /\ \A k \in S : k \in Nat
    BY <1>1, <2>1 DEF end
  <2> HIDE DEF f
  <2>3. \A k \in S : k = f \/ Keys!Before(f, k)
    BY <2>1, <2>2 DEF Keys!Before
  <2>4. \A k \in S : k # f => ~Keys!Before(k, f)
    BY <2>1, <2>2 DEF Keys!Before
  <2>5. Keys!First(S) = {f}
    BY <2>1, <2>3, <2>4 DEF Keys!First
  <2> QED
    BY <1>3, <2>1, <2>2, <2>3, <2>5 DEF f, key_at
<1> QED
  BY <1>2, <1>3

\* The last, in the other direction.
LEMMA LastIsKey ==
    ASSUME NEW S \in SUBSET Int, NEW p \in S, \A q \in S : IF is_descending THEN p <= q ELSE q <= p
    PROVE  Keys!Last(S) = {p}
<1>1. \A q \in S : q = p \/ Keys!Before(q, p)
  BY DEF Keys!Before
<1>2. \A q \in S : q # p => ~Keys!Before(p, q)
  BY DEF Keys!Before
<1> QED
  BY <1>1, <1>2 DEF Keys!Last

\* What is left when one goes is left keys.
LEMMA LessKeepsWidth ==
    ASSUME HeldAreKeys, NEW x \in Obj, NEW S, S \subseteq Held(x)
    PROVE  Grows(x, m_size[x], S)
BY KeepsWidth

\* An erasure through an iterator answers the next key.
LEMMA EraseAtKeeps ==
    ASSUME KeyInv, NEW x \in Obj, NEW i, EraseAt(x, i)
    PROVE  Kept /\ KeyStep
<1>0. /\ TypeOK /\ UnusedBitsClear /\ HeldAreKeys /\ Idle /\ i \in Held(x) /\ reset(x, i)
      /\ Answers("erase_at", x, <<{i}>>, key_at(x, next_position(x, i)))
  BY DEF KeyInv, SetInv, EraseAt, Held
<1>1. PICK args, K, S, A, result :
        /\ args = <<{i}>> /\ K = Held(x) /\ S = Held(x) \ {i}
        /\ A = {j \in Held(x) : Keys!Before(i, j)} /\ result = key_at(x, next_position(x, i))
  OBVIOUS
<1>2. next_position(x, i) = FirstOf(x, A)
  <2>1. next_position(x, i) = FirstOf(x, {j \in Held(x) : Earlier(i, j)})
    BY <1>0, Iteration DEF IterationExact, Held
  <2>2. A = {j \in Held(x) : Earlier(i, j)}
    BY <1>1 DEF Keys!Before, Earlier
  <2> QED
    BY <2>1, <2>2
<1>3. result = Keys!First(Keys!After(K, i))
  <2>1. A = Keys!After(K, i)
    BY <1>1 DEF Keys!After
  <2> QED
    BY <1>0, <1>1, <1>2, <2>1, FirstIsKey
<1>4. Leaves(x, m_size[x], S) /\ Grows(x, m_size[x], S)
  BY <1>0, <1>1, PositionLeaves, LessKeepsWidth
<1>5. /\ Kept /\ Keys!Becomes(x, S) /\ Keys!Answered("erase_at", x, args, result)
      /\ answer'.op = "erase_at" /\ answer'.args = args
  BY <1>0, <1>1, <1>4, AnswersKeep
<1>6. Keys!EraseAt(x, i)
  BY <1>0, <1>1, <1>3, <1>5, KeysWhenIdle DEF Keys!EraseAt
<1>7. args[1] = {i}
  BY <1>1
<1> QED
  BY <1>5, <1>6, <1>7 DEF KeyStep, Keys!Next, Keys!Is

\* Both modules count alike.
LEMMA CountsAgree ==
    ASSUME NEW S
    PROVE  Keys!Cardinality(S) = Cardinality(S)
BY DEF Keys!Cardinality, Cardinality

\* An erasure of a key, of one that is not held, and of a value that is no key.
LEMMA EraseKeyKeeps ==
    ASSUME KeyInv, NEW x \in Obj, NEW n \in Key, EraseKey(x, n)
    PROVE  Kept /\ KeyStep
<1>0. TypeOK /\ UnusedBitsClear /\ HeldAreKeys /\ Idle /\ n \in Nat
  BY KeyBounds DEF KeyInv, SetInv, EraseKey
<1>1. PICK args, K, S, size, result :
        /\ args = <<n>> /\ K = Held(x) /\ S = Held(x) \ {n} /\ size = m_size[x]
        /\ result = Cardinality(Held(x) \cap {n})
  OBVIOUS
<1>2. result = IF n \in K THEN 1 ELSE 0
  <2>1. K \cap {n} = IF n \in K THEN {n} ELSE {}
    OBVIOUS
  <2> QED
    BY <1>1, <2>1, FS_Singleton, FS_EmptySet
<1>3. Answers("erase", x, args, result) /\ Leaves(x, size, S)
  <2>1. CASE ~is_key(n) \/ n >= m_size[x]
    <3>1. n \notin K
      BY <1>0, <1>1, <2>1, HeldBounds
    <3>2. S = K
      BY <1>1, <3>1
    <3> QED
      BY <1>0, <1>1, <1>2, <2>1, <3>1, <3>2, UntouchedLeaves DEF EraseKey
  <2>2. CASE ~(~is_key(n) \/ n >= m_size[x])
    <3>1. erase(x, n) /\ Answers("erase", x, <<n>>, one_if(call'.result))
      BY <2>2 DEF EraseKey
    <3>2. Leaves(x, size, S) /\ call'.result = (n \in Held(x))
      BY <1>0, <1>1, <3>1, PositionLeaves
    <3>3. one_if(call'.result) = result
      BY <1>1, <1>2, <3>2 DEF one_if
    <3> QED
      BY <1>1, <3>1, <3>2, <3>3
  <2> QED
    BY <2>1, <2>2
<1>4. Grows(x, size, S)
  BY <1>0, <1>1, LessKeepsWidth
<1>5. /\ Kept /\ Keys!Becomes(x, S) /\ Keys!Answered("erase", x, args, result)
      /\ answer'.op = "erase" /\ answer'.args = args
  BY <1>0, <1>3, <1>4, AnswersKeep
<1>6. Keys!Erase(x, n)
  BY <1>0, <1>1, <1>5, KeysWhenIdle, CountsAgree DEF Keys!Erase
<1>7. args[1] = n
  BY <1>1
<1> QED
  BY <1>5, <1>6, <1>7 DEF KeyStep, Keys!Next, Keys!Is

\* Between two iterators.
LEMMA EraseBetweenKeeps ==
    ASSUME KeyInv, NEW x \in Obj, NEW first \in Width, NEW last \in Width,
           EraseBetween(x, first, last)
    PROVE  Kept /\ KeyStep
<1>0. /\ TypeOK /\ UnusedBitsClear /\ HeldAreKeys /\ Idle
      /\ {first, last} \subseteq Held(x) \cup {end(x)} /\ reaches(x, first, last)
  BY DEF KeyInv, SetInv, EraseBetween, Iterators, Held
<1>9. PICK K, f, l, size, result :
        /\ f = key_at(x, first) /\ l = key_at(x, last) /\ result = key_at(x, last)
        /\ K = Held(x) /\ size = m_size[x]
  OBVIOUS
<1>10. PICK args, S :
        /\ args = <<f, l>>
        /\ S = {k \in K : \/ \E a \in f : Keys!Before(k, a)
                          \/ f = {}
                          \/ \E b \in l : ~Keys!Before(k, b)}
  OBVIOUS
<1>1. /\ f = key_at(x, first) /\ l = key_at(x, last)
      /\ args = <<f, l>> /\ K = Held(x) /\ size = m_size[x] /\ result = l
      /\ S = {k \in K : \/ \E a \in f : Keys!Before(k, a)
                        \/ f = {}
                        \/ \E b \in l : ~Keys!Before(k, b)}
  BY <1>9, <1>10
<1>2. /\ size \in Nat /\ end(x) = size /\ first \in Nat /\ last \in Nat
      /\ \A k \in K : k \in Nat /\ k < size
      /\ first = size => f = {}
      /\ first # size => f = {first} /\ first \in K
      /\ last = size => l = {}
      /\ last # size => l = {last} /\ last \in K
  BY <1>0, <1>1, HeldBounds, WidthBounds DEF end, key_at
<1>3. Answers("erase_between", x, args, result)
  BY <1>1 DEF EraseBetween
<1>4. Leaves(x, size, S)
  <2>1. CASE first = last
    <3>1. S = K
      <4>1. \A k \in K : \/ \E a \in f : Keys!Before(k, a)
                         \/ f = {}
                         \/ \E b \in l : ~Keys!Before(k, b)
        <5> SUFFICES ASSUME NEW k \in K
                     PROVE  \/ f = {}
                            \/ \E a \in f : Keys!Before(k, a) \/ ~Keys!Before(k, a)
          BY <1>1, <2>1
        <5> QED
          BY <1>2
      <4> QED
        BY <1>1, <4>1
    <3> QED
      BY <1>1, <2>1, <3>1, <1>0, UntouchedLeaves DEF EraseBetween
  <2>2. CASE first # last
    <3> DEFINE lo == span(x, first, last)[1]
               hi == span(x, first, last)[2]
    <3>1. set_range(x, lo, hi - lo, FALSE)
      BY <2>2 DEF EraseBetween
    <3>2. first \in K /\ f = {first}
      BY <1>0, <1>2, <2>2 DEF reaches
    <3>3. /\ ~is_descending => lo = first /\ hi = last
          /\ is_descending => lo = (IF last = size THEN 0 ELSE last + 1) /\ hi = first + 1
      BY <1>2 DEF span
    <3> HIDE DEF lo, hi
    <3>4. last # size => IF is_descending THEN last < first ELSE first < last
      BY <1>0, <1>2, <2>2 DEF reaches
    <3>5. lo \in Nat /\ hi \in Nat /\ lo <= hi
      BY <1>2, <3>2, <3>3, <3>4
    <3>6. hi - lo \in Nat /\ lo + (hi - lo) = hi
      BY <3>5
    <3>7. Leaves(x, m_size[x], (Held(x) \ (lo .. lo + (hi - lo) - 1))
                                  \cup {p \in lo .. lo + (hi - lo) - 1 : FALSE})
      BY <1>0, <3>1, <3>5, <3>6, RangeLeaves
    <3>8. \A k \in K : k \in lo .. hi - 1 <=> ~(\/ \E a \in f : Keys!Before(k, a)
                                               \/ f = {}
                                               \/ \E b \in l : ~Keys!Before(k, b))
      <4> SUFFICES ASSUME NEW k \in K
                   PROVE  k \in lo .. hi - 1 <=>
                             ~Keys!Before(k, first) /\ (last # size => Keys!Before(k, last))
        BY <1>2, <3>2
      <4>1. k \in Nat /\ k < size
        BY <1>2
      <4>2. CASE is_descending
        BY <1>2, <3>2, <3>3, <3>5, <4>1, <4>2 DEF Keys!Before
      <4>3. CASE ~is_descending
        BY <1>2, <3>2, <3>3, <3>5, <4>1, <4>3 DEF Keys!Before
      <4> QED
        BY <4>2, <4>3
    <3>9. (Held(x) \ (lo .. lo + (hi - lo) - 1)) \cup {p \in lo .. lo + (hi - lo) - 1 : FALSE} = S
      <4>1. lo .. lo + (hi - lo) - 1 = lo .. hi - 1
        BY <3>5, <3>6
      <4> QED
        BY <1>1, <3>8, <4>1
    <3> QED
      BY <1>1, <3>7, <3>9
  <2> QED
    BY <2>1, <2>2
<1>5. Grows(x, size, S)
  BY <1>0, <1>1, LessKeepsWidth
<1>6. /\ Kept /\ Keys!Becomes(x, S) /\ Keys!Answered("erase_between", x, args, result)
      /\ answer'.op = "erase_between" /\ answer'.args = args
  BY <1>0, <1>3, <1>4, <1>5, AnswersKeep
<1>7. Keys!EraseBetween(x, f, l)
  BY <1>0, <1>1, <1>6, KeysWhenIdle DEF Keys!EraseBetween
<1>8. args[1] = f /\ args[2] = l
  BY <1>1
<1> QED
  BY <1>6, <1>7, <1>8 DEF KeyStep, Keys!Next, Keys!Is

\* Below the width a bit says whether a position is held.
LEMMA HeldIsBit ==
    ASSUME TypeOK, NEW x \in Obj, NEW p \in Nat, p < m_size[x]
    PROVE  BitAt(bits(x), p) <=> p \in Held(x)
<1>3. /\ m_size[x] \in Nat /\ blocks_for(m_size[x]) \in Nat
      /\ m_blocks[x] \in Storage(blocks_for(m_size[x]))
  BY BlocksType, BlocksForBounds
<1> DEFINE whole == blocks_for(m_size[x]) * bits_per_block
<1>4. num_bits(m_blocks[x]) = whole
  BY <1>3, NumBlocks
<1>5. whole \in Nat
  BY <1>3, WholeBelow
<1>6. m_size[x] <= whole
  BY <1>3, BlocksForBounds
<1> HIDE DEF whole
<1>1. num_bits(m_blocks[x]) = whole /\ m_size[x] \in Nat /\ m_size[x] <= whole /\ whole \in Nat
  BY <1>3, <1>4, <1>5, <1>6
<1>2. p \in 0 .. whole - 1
  BY <1>1
<1> QED
  BY <1>1, <1>2 DEF Held, Positions, bits

\* A value equivalent to a run of keys.
LEMMA EraseEquivalentKeeps ==
    ASSUME KeyInv, NEW x \in Obj, NEW lo \in Width, NEW hi \in Width, lo <= hi,
           EraseEquivalent(x, lo, hi)
    PROVE  Kept /\ KeyStep
<1>0. TypeOK /\ UnusedBitsClear /\ HeldAreKeys /\ Idle /\ lo \in Nat /\ hi \in Nat
  BY WidthBounds DEF KeyInv, SetInv, EraseEquivalent
<1>1. PICK args, K, S, size, l, h :
        /\ args = <<lo, hi>> /\ K = Held(x) /\ size = m_size[x] /\ S = K \ (lo .. hi - 1)
        /\ l = Min({lo, size}) /\ h = Min({hi, size})
  OBVIOUS
<1>2. size \in Nat /\ \A k \in K : k \in Nat /\ k < size
  BY <1>0, <1>1, HeldBounds
<1>3. /\ l \in {lo, size} /\ l <= lo /\ l <= size
      /\ h \in {hi, size} /\ h <= hi /\ h <= size
  BY <1>0, <1>1, <1>2, MinOfTwo
<1>4. l \in Nat /\ h \in Nat /\ l <= h /\ h - l \in Nat /\ l + (h - l) = h
  BY <1>0, <1>2, <1>3
<1>5. equivalent_positions(x, lo, hi)[1] = l /\ equivalent_positions(x, lo, hi)[2] = h
  BY <1>1 DEF equivalent_positions
<1>6. PICK result : result = Cardinality(PositionsIn(bits(x), l, h - l))
  OBVIOUS
<1>7. set_range(x, l, h - l, FALSE) /\ Answers("erase_equivalent", x, args, result)
  BY <1>1, <1>5, <1>6 DEF EraseEquivalent
<1>8. \A k \in K : k \in l .. h - 1 <=> k \in lo .. hi - 1
  BY <1>0, <1>2, <1>3
<1>9. Leaves(x, size, S)
  <2>1. Leaves(x, m_size[x], (Held(x) \ (l .. l + (h - l) - 1))
                                \cup {p \in l .. l + (h - l) - 1 : FALSE})
    BY <1>0, <1>4, <1>7, RangeLeaves
  <2>2. (Held(x) \ (l .. l + (h - l) - 1)) \cup {p \in l .. l + (h - l) - 1 : FALSE} = S
    <3>1. l .. l + (h - l) - 1 = l .. h - 1
      BY <1>4
    <3> QED
      BY <1>1, <1>8, <3>1
  <2> QED
    BY <1>1, <2>1, <2>2
<1>10. result = Cardinality(K \cap (lo .. hi - 1))
  <2>1. PositionsIn(bits(x), l, h - l) = K \cap (l .. h - 1)
    <3>1. PositionsIn(bits(x), l, h - l) = {p \in l .. h - 1 : BitAt(bits(x), p)}
      <4>1. l .. l + (h - l) - 1 = l .. h - 1
        BY <1>4
      <4> QED
        BY <4>1 DEF PositionsIn
    <3>2. \A p \in l .. h - 1 : BitAt(bits(x), p) <=> p \in K
      <4> TAKE p \in l .. h - 1
      <4>1. p \in Nat /\ p < size
        BY <1>3, <1>4, <1>2
      <4> QED
        BY <1>0, <1>1, <4>1, HeldIsBit
    <3> QED
      BY <3>1, <3>2
  <2>2. K \cap (l .. h - 1) = K \cap (lo .. hi - 1)
    BY <1>8
  <2> QED
    BY <1>6, <2>1, <2>2
<1>11. Grows(x, size, S)
  BY <1>0, <1>1, LessKeepsWidth
<1>12. /\ Kept /\ Keys!Becomes(x, S) /\ Keys!Answered("erase_equivalent", x, args, result)
       /\ answer'.op = "erase_equivalent" /\ answer'.args = args
  BY <1>0, <1>7, <1>9, <1>11, AnswersKeep
<1>13. Keys!EraseEquivalent(x, lo, hi)
  BY <1>0, <1>1, <1>10, <1>12, KeysWhenIdle, CountsAgree DEF Keys!EraseEquivalent
<1>14. args[1] = lo /\ args[2] = hi
  BY <1>1
<1> QED
  BY <1>12, <1>13, <1>14 DEF KeyStep, Keys!Next, Keys!Is

\* The key at either end of the order.
LEMMA PopKeeps ==
    ASSUME KeyInv, NEW x \in Obj, PopFront(x) \/ PopBack(x)
    PROVE  Kept /\ KeyStep
<1>0. TypeOK /\ UnusedBitsClear /\ HeldAreKeys /\ Idle
  BY DEF KeyInv, SetInv, PopFront, PopBack
<1>1. PICK K, size : K = Held(x) /\ size = m_size[x]
  OBVIOUS
<1>2. K \subseteq Nat
  BY <1>0, <1>1, HeldBounds
<1>3. ASSUME NEW p \in K, NEW op, Answers(op, x, <<>>, NoResult), Leaves(x, size, K \ {p})
      PROVE  /\ Kept /\ Keys!Does(op, x, <<>>, K \ {p})
             /\ answer'.op = op
  <2>1. PICK S, args : S = K \ {p} /\ args = <<>>
    OBVIOUS
  <2>2. Grows(x, size, S)
    BY <1>0, <1>1, <2>1, LessKeepsWidth
  <2>3. Kept /\ Keys!Does(op, x, args, S) /\ answer'.op = op
    BY <1>0, <1>3, <2>1, <2>2, DoesKeep
  <2> QED
    BY <2>1, <2>3
<1>4. CASE PopFront(x)
  <2>1. PICK p \in K : /\ \A q \in K : IF is_descending THEN q <= p ELSE p <= q
                       /\ Leaves(x, size, K \ {p})
    BY <1>0, <1>1, <1>4, DropLeaves DEF PopFront
  <2>2. Keys!First(K) = {p}
    <3>1. \A q \in K : q = p \/ Keys!Before(p, q)
      BY <1>2, <2>1 DEF Keys!Before
    <3>2. \A q \in K : q # p => ~Keys!Before(q, p)
      BY <1>2, <2>1 DEF Keys!Before
    <3> QED
      BY <3>1, <3>2 DEF Keys!First
  <2>3. Answers("pop_front", x, <<>>, NoResult)
    BY <1>4 DEF PopFront
  <2>4. Kept /\ Keys!Does("pop_front", x, <<>>, K \ {p}) /\ answer'.op = "pop_front"
    BY <1>3, <2>1, <2>3
  <2>5. Keys!PopFront(x)
    BY <1>0, <1>1, <2>1, <2>2, <2>4, KeysWhenIdle DEF Keys!PopFront
  <2> QED
    BY <2>4, <2>5 DEF KeyStep, Keys!Next, Keys!Is
<1>5. CASE PopBack(x)
  <2>1. PICK p \in K : /\ \A q \in K : IF is_descending THEN p <= q ELSE q <= p
                       /\ Leaves(x, size, K \ {p})
    BY <1>0, <1>1, <1>5, DropLeaves DEF PopBack
  <2>2. Keys!Last(K) = {p}
    BY <1>2, <2>1, LastIsKey
  <2>3. Answers("pop_back", x, <<>>, NoResult)
    BY <1>5 DEF PopBack
  <2>4. Kept /\ Keys!Does("pop_back", x, <<>>, K \ {p}) /\ answer'.op = "pop_back"
    BY <1>3, <2>1, <2>3
  <2>5. Keys!PopBack(x)
    BY <1>0, <1>1, <2>1, <2>2, <2>4, KeysWhenIdle DEF Keys!PopBack
  <2> QED
    BY <2>4, <2>5 DEF KeyStep, Keys!Next, Keys!Is
<1> QED
  BY <1>4, <1>5

\* A clear keeps the width.
LEMMA ClearKeeps ==
    ASSUME KeyInv, NEW x \in Obj, Clear(x)
    PROVE  Kept /\ KeyStep
<1>0. TypeOK /\ UnusedBitsClear /\ HeldAreKeys /\ Idle
  BY DEF KeyInv, SetInv, Clear
<1>1. Leaves(x, m_size[x], {}) /\ Grows(x, m_size[x], {}) /\ Answers("clear", x, <<>>, NoResult)
  BY <1>0, ManyLeave, LessKeepsWidth DEF Clear
<1>2. Kept /\ Keys!Does("clear", x, <<>>, {}) /\ answer'.op = "clear"
  BY <1>0, <1>1, DoesKeep
<1>3. Keys!Clear(x)
  BY <1>2 DEF Keys!Clear
<1> QED
  BY <1>2, <1>3 DEF KeyStep, Keys!Next, Keys!Is

(***************************************************************************)
(* erase_if: the loop over iterators, through which it erases.             *)
(***************************************************************************)
\* The size of a set is how many positions it has, counted or kept.
LEMMA SizeIsCount ==
    ASSUME TypeOK, UnusedBitsClear, StoredCountExact, NEW x \in Obj
    PROVE  IsFiniteSet(Held(x)) /\ keys_size(x) = Cardinality(Held(x))
<1>1. blocks_for(m_size[x]) \in Nat /\ bits(x) \in Storage(blocks_for(m_size[x]))
  BY CountBefore DEF bits
<1>2. IsFiniteSet(Held(x)) /\ count_blocks(bits(x)) = Cardinality(Held(x))
  BY <1>1, FinitePositions DEF Held
<1>3. keys_size(x) = count_blocks(bits(x))
  BY CountBefore DEF keys_size, bits
<1> QED
  BY <1>2, <1>3

\* It starts at the first key, with its end and its count in hand.
LEMMA EraseIfKeeps ==
    ASSUME KeyInv, NEW x \in Obj, NEW chosen, EraseIf(x, chosen)
    PROVE  Kept /\ KeyStep
<1>0. /\ TypeOK /\ UnusedBitsClear /\ HeldAreKeys /\ StoredCountExact /\ Idle /\ Untouched
  BY DEF KeyInv, SetInv, EraseIf
<1>1. PICK args, was, at, last, count :
        /\ args = <<chosen>> /\ was = Positions(bits(x)) /\ at = begin(x) /\ last = end(x)
        /\ count = keys_size(x)
  OBVIOUS
<1>2. /\ pending' = [step |-> "erase_if", op |-> "erase_if", x |-> x, args |-> args,
                     was |-> was, at |-> at, last |-> last, original_size |-> count]
      /\ UNCHANGED answer
  BY <1>1 DEF EraseIf
<1>3. /\ pending'.step = "erase_if" /\ pending'.op = "erase_if" /\ pending'.x = x
      /\ pending'.args = args /\ pending'.was = was /\ pending'.at = at
      /\ pending'.last = last /\ pending'.original_size = count
      /\ {"was", "at", "last", "original_size"} \subseteq DOMAIN pending'
  BY <1>2
<1>4. was = Held(x) /\ IsFiniteSet(was) /\ count = Cardinality(was)
  BY <1>0, <1>1, SizeIsCount DEF Held
<1>5. /\ last \in Nat /\ \A k \in was : k \in Nat /\ k < last
  BY <1>0, <1>1, <1>4, HeldBounds DEF end
<1>6. at = FirstOf(x, was)
  BY <1>0, <1>1, Iteration DEF IterationExact
<1>7. /\ at \in was \cup {last}
      /\ \A k \in was : ~(at = last \/ Keys!Before(k, at))
  <2>1. CASE was = {}
    BY <1>0, <1>1, <1>4, <1>6, <2>1, FirstIsKey
  <2>2. CASE was # {}
    <3>1. at \in was /\ at # last /\ \A k \in was : k = at \/ Keys!Before(at, k)
      BY <1>0, <1>1, <1>4, <1>6, <2>2, FirstIsKey
    <3>2. \A k \in was : ~Keys!Before(k, at)
      BY <1>5, <3>1 DEF Keys!Before
    <3> QED
      BY <3>1, <3>2
  <2> QED
    BY <2>1, <2>2
<1>8. /\ \A y \in Obj : Positions(m_blocks'[y]) = Positions(m_blocks[y])
      /\ \A y \in Obj : m_size'[y] = m_size[y]
  BY <1>0 DEF Untouched, contents
<1>9. EraseIfExact'
  <2>1. Held(pending.x)' = was
    BY <1>1, <1>3, <1>8 DEF Held, bits
  <2>2. was = {k \in was : at = last \/ Keys!Before(k, at) => k \notin chosen}
    BY <1>7
  <2>3. end(pending.x)' = last
    BY <1>1, <1>3, <1>8 DEF end
  <2>4. pending'.args = <<chosen>>
    BY <1>1, <1>3
  <2> QED
    BY <1>3, <1>4, <1>5, <1>7, <2>1, <2>2, <2>3, <2>4 DEF EraseIfExact
<1>10. PendingExact'
  BY <1>3, <1>9 DEF PendingExact, Awaits
<1>11. HeldAreKeys' /\ EndMoves
  BY <1>0, UntouchedLeaves, LeavesKeys, GrowsEndMoves DEF HeldAreKeys, Held
<1>12. ~Idle'
  BY <1>3 DEF Idle
<1>13. \A y \in Obj : KeysNow'[y] = KeysNow[y]
  BY <1>0, <1>1, <1>3, <1>8, <1>12 DEF KeysNow, bits
<1>14. UNCHANGED KeysNow
  BY <1>13 DEF KeysNow
<1> QED
  BY <1>2, <1>10, <1>11, <1>14 DEF Kept, KeyStep, Keys!vars

\* What an erase_if that goes on relies on.
LEMMA EraseIfState ==
    ASSUME KeyInv, Awaits("erase_if")
    PROVE  /\ TypeOK /\ UnusedBitsClear /\ HeldAreKeys /\ StoredCountExact
           /\ ~Idle /\ pending.x \in Obj
           /\ {"step", "op", "x", "args", "at", "was", "last", "original_size"} \subseteq DOMAIN pending
           /\ pending.op = "erase_if" /\ pending.args = <<pending.args[1]>>
           /\ pending.last = end(pending.x) /\ pending.last \in Nat
           /\ IsFiniteSet(pending.was) /\ pending.original_size = Cardinality(pending.was)
           /\ \A k \in pending.was : k \in Nat /\ k < pending.last
           /\ pending.at \in pending.was \cup {pending.last}
           /\ Held(pending.x) =
                 {k \in pending.was : pending.at = pending.last \/ Keys!Before(k, pending.at)
                                         => k \notin pending.args[1]}
<1>1. /\ TypeOK /\ UnusedBitsClear /\ HeldAreKeys /\ StoredCountExact /\ EraseIfExact
      /\ ~Idle /\ pending.x \in Obj /\ {"step", "op", "x", "args", "at"} \subseteq DOMAIN pending
  BY DEF KeyInv, SetInv, PendingExact, PendingOK, Idle, Awaits
<1>2. PICK chosen :
        /\ pending.op = "erase_if" /\ pending.args = <<chosen>>
        /\ {"was", "last", "original_size"} \subseteq DOMAIN pending
        /\ pending.last = end(pending.x)
        /\ IsFiniteSet(pending.was) /\ pending.original_size = Cardinality(pending.was)
        /\ \A k \in pending.was : k \in Nat /\ k < pending.last
        /\ pending.at \in pending.was \cup {pending.last}
        /\ Held(pending.x) =
              {k \in pending.was :
                  pending.at = pending.last \/ Keys!Before(k, pending.at) => k \notin chosen}
  BY <1>1 DEF EraseIfExact
<1>3. pending.args[1] = chosen
  BY <1>2
<1>4. pending.last \in Nat
  BY <1>1, <1>2, HeldBounds DEF end
<1> QED
  BY <1>1, <1>2, <1>3, <1>4

\* The step of the iterator is found before the key it names is gone.
LEMMA EraseIfNextKeeps ==
    ASSUME KeyInv, EraseIfNext
    PROVE  Kept /\ KeyStep
<1>0. Awaits("erase_if") /\ pending.at # pending.last
  BY DEF EraseIfNext
<1>1. PICK x, args, chosen, was, at, last, K, next :
        /\ x = pending.x /\ args = pending.args /\ chosen = pending.args[1] /\ was = pending.was
        /\ at = pending.at /\ last = pending.last /\ K = Held(pending.x)
        /\ next = next_position(pending.x, pending.at)
  OBVIOUS
<1>2. /\ TypeOK /\ UnusedBitsClear /\ HeldAreKeys /\ x \in Obj /\ ~Idle /\ args = <<chosen>>
      /\ last = end(x) /\ last \in Nat /\ \A k \in was : k \in Nat /\ k < last
      /\ at \in was /\ K = Held(x)
      /\ K = {k \in was : Keys!Before(k, at) => k \notin chosen}
  BY <1>0, <1>1, EraseIfState
<1>3. /\ pending' = [pending EXCEPT !.at = next]
      /\ UNCHANGED answer
  BY <1>1 DEF EraseIfNext
<1>4. /\ pending'.step = "erase_if" /\ pending'.op = "erase_if" /\ pending'.x = x
      /\ pending'.args = args /\ pending'.was = was /\ pending'.at = next
      /\ pending'.last = last /\ pending'.original_size = pending.original_size
      /\ {"was", "last", "original_size"} \subseteq DOMAIN pending'
  BY <1>0, <1>1, <1>3, EraseIfState DEF Awaits
<1>5. at \in K
  BY <1>2 DEF Keys!Before
<1> DEFINE A == {j \in K : Keys!Before(at, j)}
<1>6. next = FirstOf(x, A)
  <2>1. next_position(x, at) = FirstOf(x, {j \in K : Earlier(at, j)})
    BY <1>2, <1>5, Iteration DEF IterationExact, Held
  <2>2. A = {j \in K : Earlier(at, j)}
    BY DEF Keys!Before, Earlier
  <2> QED
    BY <1>1, <2>1, <2>2
<1>7. A = {j \in was : Keys!Before(at, j)}
  <2>1. \A j \in was : Keys!Before(at, j) => ~Keys!Before(j, at)
    BY <1>2 DEF Keys!Before
  <2> QED
    BY <1>2, <2>1
<1>8. /\ next \in was \cup {last}
      /\ \A k \in was : next = last \/ Keys!Before(k, next) <=> (k = at \/ Keys!Before(k, at))
  <2>1. CASE A = {}
    <3>1. next = last
      BY <1>2, <1>6, <2>1, FirstIsKey
    <3>2. \A k \in was : k = at \/ Keys!Before(k, at)
      BY <1>2, <1>7, <2>1 DEF Keys!Before
    <3> QED
      BY <3>1, <3>2
  <2>2. CASE A # {}
    <3>1. next \in A /\ next # last /\ \A k \in A : k = next \/ Keys!Before(next, k)
      BY <1>2, <1>6, <2>2, FirstIsKey
    <3>2. next \in was /\ Keys!Before(at, next)
      BY <1>7, <3>1
    <3>3. ASSUME NEW k \in was
          PROVE  Keys!Before(k, next) <=> (k = at \/ Keys!Before(k, at))
      <4>1. Keys!Before(at, k) => k = next \/ Keys!Before(next, k)
        BY <1>7, <3>1, <3>3
      <4>2. k \in Nat /\ at \in Nat /\ next \in Nat
        BY <1>2, <3>2, <3>3
      <4> QED
        BY <3>2, <4>1, <4>2 DEF Keys!Before
    <3> QED
      BY <3>1, <3>2, <3>3
  <2> QED
    BY <2>1, <2>2
<1>9. PICK S : S = {k \in was : next = last \/ Keys!Before(k, next) => k \notin chosen}
  OBVIOUS
<1>10. S = IF at \in chosen THEN K \ {at} ELSE K
  <2>1. \A k \in was : k \in S <=> ((k = at \/ Keys!Before(k, at)) => k \notin chosen)
    BY <1>8, <1>9
  <2>2. S \subseteq was /\ K \subseteq was
    BY <1>2, <1>9
  <2>3. ~Keys!Before(at, at)
    BY <1>2 DEF Keys!Before
  <2> QED
    BY <1>2, <2>1, <2>2, <2>3
<1>11. Leaves(x, m_size[x], S)
  <2>1. CASE at \in chosen
    <3>1. reset(x, at)
      BY <1>1, <2>1 DEF EraseIfNext
    <3> QED
      BY <1>2, <1>10, <2>1, <3>1, PositionLeaves
  <2>2. CASE at \notin chosen
    <3>1. Untouched
      BY <1>1, <2>2 DEF EraseIfNext
    <3> QED
      BY <1>2, <1>10, <2>2, <3>1, UntouchedLeaves
  <2> QED
    BY <2>1, <2>2
<1>12. Grows(x, m_size[x], S)
  BY <1>2, <1>10, LessKeepsWidth
<1>13. EraseIfExact'
  <2>1. Held(pending.x)' = S
    BY <1>4, <1>11 DEF Leaves, Held, bits
  <2>2. end(pending.x)' = last
    BY <1>2, <1>4, <1>11 DEF Leaves, end
  <2>3. IsFiniteSet(was) /\ pending.original_size = Cardinality(was)
    BY <1>0, <1>1, EraseIfState
  <2> QED
    BY <1>2, <1>4, <1>8, <1>9, <2>1, <2>2, <2>3 DEF EraseIfExact
<1>14. PendingExact'
  BY <1>4, <1>13 DEF PendingExact, Awaits
<1>15. HeldAreKeys' /\ EndMoves
  BY <1>2, <1>11, <1>12, LeavesKeys, GrowsEndMoves DEF Grows
<1>16. ~Idle'
  BY <1>4 DEF Idle
<1>17. \A y \in Obj : KeysNow'[y] = KeysNow[y]
  BY <1>1, <1>2, <1>4, <1>11, <1>16 DEF KeysNow, Leaves, bits
<1>18. UNCHANGED KeysNow
  BY <1>17 DEF KeysNow
<1> QED
  BY <1>3, <1>14, <1>15, <1>18 DEF Kept, KeyStep, Keys!vars

\* A predicate that throws leaves what was erased before it did.
LEMMA EraseIfThrowsKeeps ==
    ASSUME KeyInv, EraseIfThrows
    PROVE  Kept /\ KeyStep
<1>0. Awaits("erase_if") /\ pending.at # pending.last /\ Untouched
  BY DEF EraseIfThrows
<1>1. PICK x, args, chosen, was, at, S :
        /\ x = pending.x /\ args = pending.args /\ chosen = pending.args[1] /\ was = pending.was
        /\ at = pending.at /\ S = Held(pending.x)
  OBVIOUS
<1>2. /\ TypeOK /\ UnusedBitsClear /\ HeldAreKeys /\ x \in Obj /\ ~Idle /\ args = <<chosen>>
      /\ at \in was /\ S = Held(x) /\ S = {k \in was : Keys!Before(k, at) => k \notin chosen}
  BY <1>0, <1>1, EraseIfState
<1>3. Throws("erase_if", x, args, "predicate") /\ UNCHANGED contents
  BY <1>0, <1>1 DEF EraseIfThrows, Untouched
<1>4. /\ Kept /\ Keys!Threw("erase_if", x, args, "predicate")
      /\ answer'.op = "erase_if" /\ answer'.args = args /\ pending' = Nothing
  BY <1>2, <1>3, ThrowsKeep, ThrowsAre
<1>5. Keys!Becomes(x, S)
  BY <1>1, <1>2, <1>3, <1>4, UnwrittenLeaves, EndsWith
<1>6. KeysNow[x] = was
  BY <1>1, <1>2, KeysWhenIdle
<1>7. Keys!EraseIf(x, chosen)
  BY <1>2, <1>4, <1>5, <1>6 DEF Keys!EraseIf
<1>8. args[1] = chosen
  BY <1>2
<1> QED
  BY <1>2, <1>4, <1>7, <1>8 DEF KeyStep, Keys!Next, Keys!Is

\* erase_if, at its end: it answers how many keys it erased.
LEMMA ErasedIfKeeps ==
    ASSUME KeyInv, ErasedIf
    PROVE  Kept /\ KeyStep
<1>0. Awaits("erase_if") /\ pending.at = pending.last /\ Untouched
  BY DEF ErasedIf
<1>1. PICK x, args, chosen, was, S, result :
        /\ x = pending.x /\ args = pending.args /\ chosen = pending.args[1] /\ was = pending.was
        /\ S = Held(pending.x) /\ result = pending.original_size - keys_size(pending.x)
  OBVIOUS
<1>2. /\ TypeOK /\ UnusedBitsClear /\ HeldAreKeys /\ StoredCountExact /\ x \in Obj /\ ~Idle
      /\ args = <<chosen>> /\ S = Held(x) /\ S = was \ chosen
      /\ IsFiniteSet(was) /\ pending.original_size = Cardinality(was)
  BY <1>0, <1>1, EraseIfState
<1>3. Answers("erase_if", x, args, result)
  BY <1>1 DEF ErasedIf
<1>4. result = Cardinality(was \cap chosen)
  <2>1. keys_size(x) = Cardinality(was \ chosen)
    BY <1>2, SizeIsCount
  <2>2. /\ Cardinality(was \ chosen) = Cardinality(was) - Cardinality(was \cap chosen)
        /\ Cardinality(was) \in Nat /\ Cardinality(was \cap chosen) \in Nat
    BY <1>2, OutsideSize
  <2> QED
    BY <1>1, <1>2, <2>1, <2>2
<1>9. Leaves(x, m_size[x], S) /\ Grows(x, m_size[x], S) /\ pending.x = x
  BY <1>0, <1>1, <1>2, UntouchedLeaves
<1>5. /\ Kept /\ Keys!Becomes(x, S) /\ Keys!Answered("erase_if", x, args, result)
      /\ answer'.op = "erase_if" /\ answer'.args = args
  BY <1>2, <1>3, <1>9, AnswersKeep
<1>6. KeysNow[x] = was
  BY <1>1, <1>2, KeysWhenIdle
<1>7. Keys!EraseIf(x, chosen)
  BY <1>2, <1>4, <1>5, <1>6, CountsAgree DEF Keys!EraseIf
<1>8. args[1] = chosen
  BY <1>2
<1> QED
  BY <1>2, <1>5, <1>7, <1>8 DEF KeyStep, Keys!Next, Keys!Is

(***************************************************************************)
(* The operators with a key.                                               *)
(***************************************************************************)
\* A mask of the set that holds one position alone.
LEMMA MaskLeaves ==
    ASSUME TypeOK, NEW x \in Obj, NEW n \in Nat, n < m_size[x],
           LET masked == [i \in DOMAIN bits(x) |-> bits(x)[i] \cap single(x, n)[i]]
           IN  write(x, count_blocks(masked), masked)
    PROVE  Leaves(x, m_size[x], Held(x) \cap {n})
<1> DEFINE k == blocks_for(m_size[x])
           b == bits(x)
           one == single(x, n)
           masked == [i \in DOMAIN b |-> b[i] \cap one[i]]
           whole == k * bits_per_block
<1>1. m_size[x] \in Nat /\ k \in Nat /\ b \in Storage(k)
  BY BlocksType, BlocksForBounds DEF bits
<1>2. whole \in Nat /\ m_size[x] <= whole
  BY <1>1, WholeWidth, BlocksForBounds
<1> HIDE DEF whole
<1>3. n \in 0 .. whole - 1
  BY <1>1, <1>2
<1>4. n \in Span(k)
  BY <1>3 DEF Span, whole
<1>5. write(x, count_blocks(masked), masked)
  OBVIOUS
<1>6. all_reset(b) \in Storage(k) /\ Positions(all_reset(b)) = {}
  BY <1>1, WholeWrittenPositions, NumBlocks DEF all_reset, Storage, Block, zero
<1>7. one \in Storage(k) /\ Positions(one) = {n}
  <2>1. PICK c \in Storage(k) : c = all_reset(b) /\ Positions(c) = {}
    BY <1>6
  <2>2. one = bit_set(c, n)
    BY <2>1 DEF single
  <2>3. bit_set(c, n) \in Storage(k)
    BY <1>1, <1>4, PositionWrittenType
  <2>4. Positions(bit_set(c, n)) = Positions(c) \cup {n}
    BY <1>1, <1>4, PositionWrittenPositions
  <2> QED
    BY <2>1, <2>2, <2>3, <2>4
<1> HIDE DEF k, b, one
<1>9. masked \in Storage(k) /\ \A i \in 0 .. k - 1 : masked[i] = b[i] \cap one[i]
  BY <1>1, <1>7 DEF Storage, Block
<1> HIDE DEF masked
<1>10. Positions(masked) = Positions(b) \cap {n}
  <2>1. Positions(b) \cap {n} \in SUBSET Span(k)
    BY <1>4
  <2>2. ASSUME NEW i \in 0 .. k - 1, NEW o \in Offset
        PROVE  o \in masked[i] <=> At(i, o) \in Positions(b) \cap {n}
    <3>1. At(i, o) \in Positions(b) <=> o \in b[i]
      BY <1>1, PositionIff
    <3>2. At(i, o) \in {n} <=> o \in one[i]
      BY <1>1, <1>7, PositionIff
    <3> QED
      BY <1>9, <3>1, <3>2
  <2> QED
    BY <1>1, <1>9, <2>1, <2>2, PositionsAre
<1>11. m_size' = [m_size EXCEPT ![x] = m_size[x]] /\ m_blocks' = [m_blocks EXCEPT ![x] = masked]
  BY <1>5 DEF write, store
<1> QED
  BY <1>10, <1>11 DEF Leaves, TypeOK, Held, b

\* An intersection with a key, in one step or as a clear and the key back.
LEMMA AndAssignKeyKeeps ==
    ASSUME KeyInv, NEW x \in Obj, NEW n \in Key, AndAssignKey(x, n)
    PROVE  Kept /\ KeyStep
<1>0. /\ TypeOK /\ UnusedBitsClear /\ HeldAreKeys /\ Idle
      /\ n \in Nat /\ IsClosed /\ is_key(n) /\ n < max_size
  BY KeyBounds DEF KeyInv, SetInv, AndAssignKey, require_key
<1>1. PICK args, K, S, size :
        /\ args = <<n>> /\ K = Held(x) /\ S = Held(x) \cap {n} /\ size = m_size[x]
  OBVIOUS
<1>2. args[1] = n
  BY <1>1
<1>3. ASSUME Answers("and_key", x, args, NoResult), Leaves(x, size, S)
      PROVE  Kept /\ KeyStep
  <2>1. Grows(x, size, S)
    BY <1>0, <1>1, LessKeepsWidth
  <2>2. /\ Kept /\ Keys!Does("and_key", x, args, S)
        /\ answer'.op = "and_key" /\ answer'.args = args
    BY <1>0, <1>3, <2>1, DoesKeep
  <2>3. Keys!AndAssignKey(x, n)
    BY <1>0, <1>1, <2>2, KeysWhenIdle DEF Keys!AndAssignKey
  <2> QED
    BY <1>2, <2>2, <2>3 DEF KeyStep, Keys!Next, Keys!Is
<1>4. CASE ~has_stored_size
  <2>1. n < m_size[x]
    BY <1>0, <1>4, HeldBounds, KeyBounds DEF has_stored_size
  <2>2. /\ LET masked == [i \in DOMAIN bits(x) |-> bits(x)[i] \cap single(x, n)[i]]
           IN  write(x, count_blocks(masked), masked)
        /\ Answers("and_key", x, args, NoResult)
    BY <1>1, <1>4 DEF AndAssignKey
  <2>3. Leaves(x, size, S)
    BY <1>0, <1>1, <2>1, <2>2, MaskLeaves
  <2> QED
    BY <1>3, <2>2, <2>3
<1>5. CASE has_stored_size
  <2>1. reset_all(x)
    BY <1>5 DEF AndAssignKey
  <2>2. Leaves(x, size, {}) /\ call'.outcome = "ok"
    BY <1>0, <1>1, <2>1, ManyLeave
  <2>3. n < m_size[x] /\ test(bits(x), n) <=> n \in K
    <3>1. n < m_size[x] => (test(bits(x), n) <=> n \in K)
      BY <1>0, <1>1, SetScans DEF Held
    <3>2. n \in K => n < m_size[x]
      BY <1>0, <1>1, HeldBounds
    <3> QED
      BY <3>1, <3>2
  <2>4. CASE n \notin K
    <3>1. S = {}
      BY <1>1, <2>4
    <3>2. Answers("and_key", x, args, NoResult)
      BY <1>1, <1>5, <2>3, <2>4 DEF AndAssignKey
    <3> QED
      BY <1>3, <2>2, <3>1, <3>2
  <2>5. CASE n \in K
    <3>1. Continues("keep", "and_key", x, args)
      BY <1>1, <1>5, <2>3, <2>5 DEF AndAssignKey
    <3>2. /\ HeldAreKeys' /\ KeyStep
          /\ pending' = [step |-> "keep", op |-> "and_key", x |-> x, args |-> args,
                         was |-> Held(x), at |-> 0]
          /\ Held(x)' = {}
      BY <1>0, <2>2, <3>1, BeginsWith
    <3>3. pending' = [step |-> "keep", op |-> "and_key", x |-> x, args |-> args, was |-> K, at |-> 0]
      BY <1>1, <3>2
    <3>4. /\ pending'.step = "keep" /\ pending'.op = "and_key" /\ pending'.x = x
          /\ pending'.args = args /\ pending'.was = K
      BY <3>3
    <3>5. Held(pending.x)' = {}
      BY <3>2, <3>4 DEF Held, bits
    <3>6. KeepExact'
      BY <1>0, <1>1, <2>5, <3>4, <3>5 DEF KeepExact, is_key
    <3>7. PendingExact'
      BY <3>4, <3>6 DEF PendingExact, Awaits
    <3>8. EndMoves
      BY <1>0, <1>1, <2>2, LessKeepsWidth, GrowsEndMoves
    <3> QED
      BY <3>2, <3>7, <3>8 DEF Kept
  <2> QED
    BY <2>4, <2>5
<1> QED
  BY <1>4, <1>5

\* An intersection with a key puts the key back.
LEMMA KeepKeeps ==
    ASSUME KeyInv, Keep
    PROVE  Kept /\ KeyStep
<1>0. /\ TypeOK /\ UnusedBitsClear /\ HeldAreKeys /\ ~Idle /\ pending.x \in Obj /\ KeepExact
      /\ set(pending.x, pending.args[1])
      /\ Answers("and_key", pending.x, pending.args, NoResult)
  BY DEF KeyInv, SetInv, Keep, Awaits, Idle, PendingOK, PendingExact
<1>1. PICK n \in Nat : /\ pending.op = "and_key" /\ pending.args = <<n>>
                       /\ n \in pending.was /\ is_key(n) /\ Held(pending.x) = {}
  BY <1>0 DEF KeepExact
<1>2. PICK x, args, was, S :
        /\ x = pending.x /\ args = <<n>> /\ was = pending.was /\ S = {n}
  OBVIOUS
<1>3. /\ x \in Obj /\ args[1] = n /\ pending.args = args /\ pending.args[1] = n
      /\ pending.x = x /\ n \in was
  BY <1>0, <1>1, <1>2
<1>4. Leaves(x, m_size[x], S)
  <2>0. set(x, n)
    BY <1>0, <1>3
  <2>1. Leaves(x, m_size[x], Held(x) \cup {n})
    BY <1>0, <1>3, <2>0, PositionLeaves
  <2> QED
    BY <1>1, <1>2, <2>1
<1>5. Grows(x, m_size[x], S)
  BY <1>1, <1>2 DEF Grows
<1>6. Answers("and_key", x, args, NoResult)
  BY <1>0, <1>3
<1>7. /\ Kept /\ Keys!Does("and_key", x, args, S)
      /\ answer'.op = "and_key" /\ answer'.args = args
  BY <1>0, <1>3, <1>4, <1>5, <1>6, DoesKeep
<1>8. KeysNow[x] = was
  BY <1>0, <1>2, <1>3, KeysWhenIdle
<1>9. was \cap {n} = S
  BY <1>2, <1>3
<1>10. Keys!AndAssignKey(x, n)
  BY <1>2, <1>7, <1>8, <1>9 DEF Keys!AndAssignKey
<1> QED
  BY <1>3, <1>7, <1>10 DEF KeyStep, Keys!Next, Keys!Is

\* A key that max_size() counts is refused by a heap alone.
LEMMA JoinsKeyKeeps ==
    ASSUME KeyInv, Idle, NEW x \in Obj, NEW n \in Nat, NEW op, NEW S,
           is_key(n), n < max_size,
           \A p \in S : p \in Held(x) \/ p = n,
           n >= m_size[x] => n \in S,
           \/ growing_insert(x, n) /\ S = Held(x) \cup {n}
           \/ call'.outcome = "ok" /\ Leaves(x, m_size[x], S),
           Settles(op, x, <<n>>, NoResult)
    PROVE  /\ Kept /\ Keys!JoinsKey(op, x, n, S)
           /\ answer'.op = op /\ answer'.args[1] = n
<1>0. TypeOK /\ UnusedBitsClear /\ HeldAreKeys
  BY DEF KeyInv, SetInv
<1>1. PICK args, K : args = <<n>> /\ K = Held(x)
  OBVIOUS
<1>2. args[1] = n
  BY <1>1
<1>3. ASSUME call'.outcome = "ok", NEW size, Leaves(x, size, S), Grows(x, size, S)
      PROVE  /\ Kept /\ Keys!JoinsKey(op, x, n, S)
             /\ answer'.op = op /\ answer'.args[1] = n
  <2>1. Answers(op, x, args, NoResult)
    BY <1>1, <1>3 DEF Settles
  <2>2. Kept /\ Keys!Does(op, x, args, S) /\ answer'.op = op /\ answer'.args = args
    BY <1>0, <1>3, <2>1, DoesKeep
  <2> QED
    BY <1>1, <1>2, <2>2 DEF Keys!JoinsKey
<1>4. CASE growing_insert(x, n) /\ S = Held(x) \cup {n}
  <2>1. CASE /\ Refused /\ has_stored_size
             /\ n >= m_size[x] /\ n \notin Held(x)
             /\ Kind = "inplace" => n >= N
    <3>1. Kind = "dynamic"
      BY <2>1, KeyBounds, KindAssumption, NAssumption DEF has_stored_size
    <3>2. Throws(op, x, args, "bad_alloc") /\ UNCHANGED contents
      BY <1>1, <2>1 DEF Settles, Refused
    <3>3. /\ Kept /\ Keys!Fails(op, x, args, "bad_alloc")
          /\ answer'.op = op /\ answer'.args = args
      BY <1>0, <3>2, FailsKeep
    <3>4. n \notin KeysNow[x]
      BY <2>1, KeysWhenIdle
    <3> QED
      BY <1>1, <1>2, <3>1, <3>3, <3>4 DEF Keys!JoinsKey
  <2>2. CASE /\ call'.outcome = "ok"
             /\ Leaves(x, IF n < m_size[x] THEN m_size[x] ELSE n + 1, Held(x) \cup {n})
    <3>1. Grows(x, IF n < m_size[x] THEN m_size[x] ELSE n + 1, S)
      BY <1>0, <1>4, InsertionGrows
    <3> QED
      BY <1>3, <1>4, <2>2, <3>1
  <2> QED
    BY <1>0, <1>4, <2>1, <2>2, InsertLeaves
<1>5. CASE call'.outcome = "ok" /\ Leaves(x, m_size[x], S)
  BY <1>0, <1>3, <1>5, KeepsWidth
<1> QED
  BY <1>4, <1>5

\* The other operators with a key: only a heap refuses the room.
LEMMA OrXorMinusKeyKeeps ==
    ASSUME KeyInv, NEW x \in Obj, NEW n \in Key,
           OrAssignKey(x, n) \/ XorAssignKey(x, n) \/ MinusAssignKey(x, n)
    PROVE  Kept /\ KeyStep
<1>0. /\ TypeOK /\ UnusedBitsClear /\ HeldAreKeys /\ Idle
      /\ n \in Nat /\ is_key(n) /\ n < max_size
  BY KeyBounds DEF KeyInv, SetInv, OrAssignKey, XorAssignKey, MinusAssignKey, require_key
<1>1. PICK K : K = Held(x)
  OBVIOUS
<1>2. CASE OrAssignKey(x, n)
  <2>1. PICK S : S = K \cup {n}
    OBVIOUS
  <2>2. growing_insert(x, n) /\ Settles("or_key", x, <<n>>, NoResult)
    BY <1>2 DEF OrAssignKey
  <2>3. /\ Kept /\ Keys!JoinsKey("or_key", x, n, S)
        /\ answer'.op = "or_key" /\ answer'.args[1] = n
    BY <1>0, <1>1, <2>1, <2>2, JoinsKeyKeeps
  <2>4. Keys!OrAssignKey(x, n)
    BY <1>0, <1>1, <2>1, <2>3, KeysWhenIdle DEF Keys!OrAssignKey
  <2> QED
    BY <2>3, <2>4 DEF KeyStep, Keys!Next, Keys!Is
<1>3. CASE XorAssignKey(x, n)
  <2>1. PICK S : S = (K \cup {n}) \ (K \cap {n})
    OBVIOUS
  <2>2. Settles("xor_key", x, <<n>>, NoResult)
    BY <1>3 DEF XorAssignKey
  <2>3. \/ growing_insert(x, n) /\ S = Held(x) \cup {n} /\ n \in S
        \/ call'.outcome = "ok" /\ Leaves(x, m_size[x], S) /\ n < m_size[x]
    <3>1. CASE has_stored_size /\ n >= m_size[x]
      <4>1. n \notin K
        BY <1>0, <1>1, <3>1, HeldBounds
      <4> QED
        BY <1>1, <1>3, <2>1, <3>1, <4>1 DEF XorAssignKey
    <3>2. CASE ~(has_stored_size /\ n >= m_size[x])
      <4>1. flip(x, n)
        BY <1>3, <3>2 DEF XorAssignKey
      <4> QED
        BY <1>0, <1>1, <2>1, <4>1, PositionLeaves
    <3> QED
      BY <3>1, <3>2
  <2>4. \A p \in S : p \in Held(x) \/ p = n
    BY <1>1, <2>1
  <2>5. n >= m_size[x] => n \in S
    BY <1>0, <2>3, HeldBounds
  <2>6. /\ Kept /\ Keys!JoinsKey("xor_key", x, n, S)
        /\ answer'.op = "xor_key" /\ answer'.args[1] = n
    BY <1>0, <2>2, <2>3, <2>4, <2>5, JoinsKeyKeeps
  <2>7. Keys!XorAssignKey(x, n)
    BY <1>0, <1>1, <2>1, <2>6, KeysWhenIdle DEF Keys!XorAssignKey
  <2> QED
    BY <2>6, <2>7 DEF KeyStep, Keys!Next, Keys!Is
<1>4. CASE MinusAssignKey(x, n)
  <2>1. PICK S, args : S = K \ {n} /\ args = <<n>>
    OBVIOUS
  <2>2. Answers("minus_key", x, args, NoResult)
    BY <1>4, <2>1 DEF MinusAssignKey
  <2>3. Leaves(x, m_size[x], S)
    <3>1. CASE n < m_size[x]
      BY <1>0, <1>1, <1>4, <2>1, <3>1, PositionLeaves DEF MinusAssignKey
    <3>2. CASE ~(n < m_size[x])
      <4>1. S = K
        BY <1>0, <1>1, <2>1, <3>2, HeldBounds
      <4> QED
        BY <1>0, <1>1, <1>4, <3>2, <4>1, UntouchedLeaves DEF MinusAssignKey
    <3> QED
      BY <3>1, <3>2
  <2>4. Grows(x, m_size[x], S)
    BY <1>0, <1>1, <2>1, LessKeepsWidth
  <2>5. /\ Kept /\ Keys!Does("minus_key", x, args, S)
        /\ answer'.op = "minus_key" /\ answer'.args = args
    BY <1>0, <2>2, <2>3, <2>4, DoesKeep
  <2>6. Keys!MinusAssignKey(x, n)
    BY <1>0, <1>1, <2>1, <2>5, KeysWhenIdle DEF Keys!MinusAssignKey
  <2>7. args[1] = n
    BY <2>1
  <2> QED
    BY <2>5, <2>6, <2>7 DEF KeyStep, Keys!Next, Keys!Is
<1> QED
  BY <1>2, <1>3, <1>4

(***************************************************************************)
(* The shifts.                                                             *)
(***************************************************************************)
\* The width a shift asks for is that of its highest key, stopped at max_size():
\* the sum that is clamped is one that max_size() stops.
LEMMA ShiftWidthIs ==
    ASSUME TypeOK, NEW x \in Obj, NEW n \in Nat
    PROVE  /\ shift_width(x, n) = Min({m_size[x] + n, max_size})
           /\ shift_width(x, n) \in Nat /\ shift_width(x, n) <= max_size
           /\ shift_width(x, n) \in {m_size[x] + n, max_size}
           /\ shift_width(x, n) <= m_size[x] + n
<1> DEFINE sum == width_sum(m_size[x], n)
           low == Min({sum, max_size})
           exact == Min({m_size[x] + n, max_size})
<1>1. /\ m_size[x] \in Nat /\ max_size \in Nat /\ top \in Nat /\ m_size[x] <= top /\ max_size < top
  BY KeyBounds, BlocksType, CeilingType DEF TypeOK
<1>2. sum \in Nat /\ sum = IF n > top - m_size[x] THEN top ELSE m_size[x] + n
  BY <1>1 DEF width_sum
<1>3. low \in {sum, max_size} /\ low <= sum /\ low <= max_size
  BY <1>1, <1>2, MinOfTwo
<1>4. /\ exact \in {m_size[x] + n, max_size}
      /\ exact <= m_size[x] + n /\ exact <= max_size
  <2>1. m_size[x] + n \in Nat
    BY <1>1
  <2> QED
    BY <1>1, <2>1, MinOfTwo
<1>5. shift_width(x, n) = low
  BY DEF shift_width
<1> HIDE DEF sum, low, exact
<1>6. low = exact
  BY <1>1, <1>2, <1>3, <1>4
<1> QED
  BY <1>1, <1>4, <1>5, <1>6 DEF exact

\* A shift that shifts out leaves no key below max_size(), and another has one.
LEMMA ShiftsOut ==
    ASSUME TypeOK, UnusedBitsClear, HeldAreKeys, NEW x \in Obj, NEW n \in Nat
    PROVE  /\ shifts_out(x, n) => \A p \in Held(x) : ~(p + n < max_size)
           /\ ~shifts_out(x, n) => Held(x) # {}
<1> DEFINE lowest == find_first(bits(x), m_size[x])
<1>1. /\ m_size[x] \in Nat /\ max_size \in Nat /\ Held(x) \in SUBSET Nat
      /\ \A p \in Held(x) : p < m_size[x] /\ p < max_size
  BY HeldBounds, KeyBounds
<1>2. lowest = IF Held(x) = {} THEN m_size[x] ELSE Min(Held(x))
  BY SetScans DEF Held
<1>3. Held(x) # {} => lowest \in Held(x) /\ \A p \in Held(x) : lowest <= p
  BY <1>1, <1>2, MinExists
<1>4. shifts_out(x, n) <=> lowest = m_size[x] \/ n >= max_size - lowest
  BY DEF shifts_out
<1> HIDE DEF lowest
<1>5. ASSUME shifts_out(x, n), NEW p \in Held(x)
      PROVE  ~(p + n < max_size)
  <2>1. lowest \in Nat /\ lowest < m_size[x] /\ lowest <= p /\ p \in Nat
    BY <1>1, <1>3
  <2>2. n >= max_size - lowest
    BY <1>1, <1>4, <1>5, <2>1
  <2> QED
    BY <1>1, <2>1, <2>2
<1>6. ASSUME ~shifts_out(x, n) PROVE Held(x) # {}
  BY <1>2, <1>4, <1>6
<1> QED
  BY <1>5, <1>6

\* The keys a set holds, translated.
Translated(K, n) == {k \in {j + n : j \in K} : k < max_size}

\* A <<= at a static width, one that shifts every key out, one that makes room.
LEMMA ShiftUpKeeps ==
    ASSUME KeyInv, NEW x \in Obj, NEW n \in Key, ShiftUp(x, n)
    PROVE  Kept /\ KeyStep
<1>0. /\ TypeOK /\ UnusedBitsClear /\ HeldAreKeys /\ Idle
      /\ n \in Nat /\ n < max_size /\ max_size \in Nat
  BY KeyBounds DEF KeyInv, SetInv, ShiftUp
<1>1. PICK args, K, S, size :
        args = <<n>> /\ K = Held(x) /\ S = Translated(Held(x), n) /\ size = m_size[x]
  OBVIOUS
<1>2. args[1] = n
  BY <1>1
<1>3. /\ size \in Nat /\ \A p \in K : p \in Nat /\ p < size /\ p < max_size /\ is_key(p)
      /\ Kind = "static" => size = N /\ max_size = N
  BY <1>0, <1>1, HeldBounds, KeyBounds
<1>4. ASSUME Answers("shift_up", x, args, NoResult), Leaves(x, size, S)
      PROVE  Kept /\ KeyStep
  <2>1. Grows(x, size, S)
    <3>1. \A p \in S : p \in Nat /\ p < max_size
      BY <1>0, <1>1, <1>3 DEF Translated
    <3> QED
      BY <1>1, <3>1, KeyBounds DEF Grows
  <2>2. /\ Kept /\ Keys!Does("shift_up", x, args, S)
        /\ answer'.op = "shift_up" /\ answer'.args = args
    BY <1>0, <1>4, <2>1, DoesKeep
  <2>3. Keys!ShiftUp(x, n)
    BY <1>0, <1>1, <2>2, KeysWhenIdle DEF Keys!ShiftUp, Translated
  <2> QED
    BY <1>2, <2>2, <2>3 DEF KeyStep, Keys!Next, Keys!Is
<1>5. CASE ~has_stored_size
  <2>1. shift_up(x, n) /\ Answers("shift_up", x, args, NoResult)
    BY <1>1, <1>5 DEF ShiftUp
  <2>2. Leaves(x, size, {p \in 0 .. size - 1 : p - n \in K})
    BY <1>0, <1>1, <2>1, ShiftLeaves
  <2>3. size = max_size
    BY <1>3, <1>5 DEF has_stored_size
  <2>4. {p \in 0 .. size - 1 : p - n \in K} = S
    <3>1. ASSUME NEW p \in 0 .. size - 1, p - n \in K PROVE p \in S
      <4>1. p = (p - n) + n /\ p < max_size
        BY <1>0, <1>3, <2>3, <3>1
      <4> QED
        BY <1>1, <3>1, <4>1 DEF Translated
    <3>2. ASSUME NEW p \in S PROVE p \in 0 .. size - 1 /\ p - n \in K
      <4>1. PICK j \in K : p = j + n /\ p < max_size
        BY <1>1 DEF Translated
      <4> QED
        BY <1>0, <1>3, <2>3, <4>1
    <3> QED
      BY <3>1, <3>2
  <2> QED
    BY <1>4, <2>1, <2>2, <2>4
<1>6. CASE has_stored_size /\ shifts_out(x, n)
  <2>1. reset_all(x) /\ Answers("shift_up", x, args, NoResult)
    BY <1>1, <1>6 DEF ShiftUp
  <2>2. Leaves(x, size, {})
    BY <1>0, <1>1, <2>1, ManyLeave
  <2>3. S = {}
    BY <1>0, <1>1, <1>6, ShiftsOut DEF Translated
  <2> QED
    BY <1>4, <2>1, <2>2, <2>3
<1>7. CASE has_stored_size /\ ~shifts_out(x, n)
  <2>1. PICK w : w = shift_width(x, n)
    OBVIOUS
  <2>2. /\ w = Min({size + n, max_size}) /\ w \in Nat /\ w <= max_size
        /\ w \in {size + n, max_size} /\ w <= size + n
    BY <1>0, <1>1, <2>1, ShiftWidthIs
  <2>3. resize(x, w, FALSE) /\ Continues("shift", "shift_up", x, args)
    BY <1>1, <1>7, <2>1 DEF ShiftUp
  <2>4. K # {}
    BY <1>0, <1>1, <1>7, ShiftsOut
  <2>5. CASE Refused /\ (Kind = "dynamic" \/ w > N)
    <3>1. Kind = "dynamic"
      BY <2>2, <2>5, KeyBounds, NAssumption
    <3>2. Throws("shift_up", x, args, "bad_alloc") /\ UNCHANGED contents
      BY <2>3, <2>5 DEF Continues, Refused
    <3>3. /\ Kept /\ Keys!Fails("shift_up", x, args, "bad_alloc")
          /\ answer'.op = "shift_up" /\ answer'.args = args
      BY <1>0, <3>2, FailsKeep
    <3>4. Keys!ShiftUp(x, n)
      BY <1>0, <1>1, <2>4, <3>1, <3>3, KeysWhenIdle DEF Keys!ShiftUp
    <3> QED
      BY <1>2, <3>3, <3>4 DEF KeyStep, Keys!Next, Keys!Is
  <2>6. CASE call'.outcome = "ok" /\ Leaves(x, w, {p \in Held(x) : p < w})
    <3>1. {p \in Held(x) : p < w} = K
      BY <1>0, <1>1, <1>3, <2>2
    <3>2. Leaves(x, w, K) /\ call'.outcome # "bad_alloc"
      BY <2>6, <3>1
    <3>3. /\ HeldAreKeys' /\ KeyStep
          /\ pending' = [step |-> "shift", op |-> "shift_up", x |-> x, args |-> args,
                         was |-> Held(x), at |-> 0]
          /\ Held(x)' = K
      BY <1>0, <1>3, <2>3, <3>2, BeginsWith
    <3>4. pending' = [step |-> "shift", op |-> "shift_up", x |-> x, args |-> args,
                      was |-> K, at |-> 0]
      BY <1>1, <3>3
    <3>5. /\ pending'.step = "shift" /\ pending'.op = "shift_up" /\ pending'.x = x
          /\ pending'.args = args /\ pending'.was = K /\ pending'.args[1] = n
      BY <1>2, <3>4
    <3>6. m_size'[x] = w /\ \A y \in Obj \ {x} : m_size'[y] = m_size[y]
      BY <3>2 DEF Leaves
    <3>7. ShiftExact'
      <4>1. Held(pending.x)' = K
        BY <3>3, <3>5 DEF Held, bits
      <4>2. \A k \in K : k + n < max_size => k + n < w
        BY <1>0, <1>3, <2>2
      <4>3. max_size' = max_size
        BY DEF max_size
      <4> QED
        BY <1>0, <1>1, <1>3, <2>2, <3>5, <3>6, <4>1, <4>2, <4>3 DEF ShiftExact
    <3>8. PendingExact'
      BY <3>5, <3>7 DEF PendingExact, Awaits
    <3>9. EndMoves
      BY <1>1, <2>2, <3>5, <3>6 DEF EndMoves, end
    <3> QED
      BY <3>3, <3>8, <3>9 DEF Kept
  <2> QED
    BY <1>0, <2>2, <2>3, <2>5, <2>6, ResizeLeaves
<1> QED
  BY <1>5, <1>6, <1>7

\* A <<=, in the room it made.
LEMMA ShiftKeeps ==
    ASSUME KeyInv, Shift
    PROVE  Kept /\ KeyStep
<1>0. /\ TypeOK /\ UnusedBitsClear /\ HeldAreKeys /\ ~Idle /\ pending.x \in Obj /\ ShiftExact
      /\ shift_up(pending.x, pending.args[1])
      /\ Answers("shift_up", pending.x, pending.args, NoResult)
  BY DEF KeyInv, SetInv, Shift, Awaits, Idle, PendingOK, PendingExact
<1>1. PICK n \in Nat : /\ pending.op = "shift_up" /\ pending.args = <<n>>
                       /\ Held(pending.x) = pending.was /\ pending.was \subseteq Nat
                       /\ m_size[pending.x] <= max_size
                       /\ \A k \in pending.was : k + n < max_size => k + n < m_size[pending.x]
  BY <1>0 DEF ShiftExact
<1>2. PICK x, args, was, S, size :
        /\ x = pending.x /\ args = <<n>> /\ was = pending.was
        /\ S = Translated(pending.was, n) /\ size = m_size[pending.x]
  OBVIOUS
<1>3. /\ x \in Obj /\ args[1] = n /\ pending.args = args /\ pending.args[1] = n
      /\ pending.x = x /\ size = m_size[x] /\ was = Held(x) /\ was \subseteq Nat
      /\ size \in Nat /\ size <= max_size /\ max_size \in Nat
      /\ \A k \in was : k + n < max_size => k + n < size
  BY <1>0, <1>1, <1>2, HeldBounds, KeyBounds
<1>4. Leaves(x, size, S)
  <2>1. shift_up(x, n)
    BY <1>0, <1>3
  <2>2. Leaves(x, size, {p \in 0 .. size - 1 : p - n \in was})
    BY <1>0, <1>3, <2>1, ShiftLeaves
  <2>3. ASSUME NEW p \in 0 .. size - 1, p - n \in was PROVE p \in S
    <3>1. p = (p - n) + n /\ p < max_size
      BY <1>3, <2>3
    <3> QED
      BY <1>2, <2>3, <3>1 DEF Translated
  <2>4. ASSUME NEW p \in S PROVE p \in 0 .. size - 1 /\ p - n \in was
    <3>1. PICK j \in was : p = j + n /\ p < max_size
      BY <1>2 DEF Translated
    <3> QED
      BY <1>3, <3>1
  <2>5. {p \in 0 .. size - 1 : p - n \in was} = S
    BY <2>3, <2>4
  <2> QED
    BY <2>2, <2>5
<1>5. Grows(x, size, S)
  <2>1. \A p \in S : p \in Nat /\ p < max_size
    BY <1>2, <1>3 DEF Translated
  <2> QED
    BY <1>3, <2>1, KeyBounds DEF Grows
<1>6. Answers("shift_up", x, args, NoResult)
  BY <1>0, <1>3
<1>7. /\ Kept /\ Keys!Does("shift_up", x, args, S)
      /\ answer'.op = "shift_up" /\ answer'.args = args
  BY <1>0, <1>3, <1>4, <1>5, <1>6, DoesKeep
<1>8. KeysNow[x] = was
  BY <1>0, <1>2, <1>3, KeysWhenIdle
<1>9. Keys!ShiftUp(x, n)
  BY <1>2, <1>7, <1>8 DEF Keys!ShiftUp, Translated
<1> QED
  BY <1>3, <1>7, <1>9 DEF KeyStep, Keys!Next, Keys!Is

\* A >>=, by less than the width or by more.
LEMMA ShiftDownKeeps ==
    ASSUME KeyInv, NEW x \in Obj, NEW n \in Key, ShiftDown(x, n)
    PROVE  Kept /\ KeyStep
<1>0. /\ TypeOK /\ UnusedBitsClear /\ HeldAreKeys /\ Idle
      /\ n \in Nat /\ n < max_size /\ max_size \in Nat
  BY KeyBounds DEF KeyInv, SetInv, ShiftDown
<1>1. PICK args, K, S, size :
        /\ args = <<n>> /\ K = Held(x) /\ size = m_size[x]
        /\ S = {k \in {j - n : j \in Held(x)} : k >= 0}
  OBVIOUS
<1>2. args[1] = n
  BY <1>1
<1>3. size \in Nat /\ \A p \in K : p \in Nat /\ p < size /\ p < max_size
  BY <1>0, <1>1, HeldBounds
<1>4. Leaves(x, size, S)
  <2>1. CASE n < size
    <3>1. Leaves(x, size, {p \in 0 .. size - 1 : p + n \in K})
      BY <1>0, <1>1, <2>1, ShiftLeaves DEF ShiftDown
    <3>2. ASSUME NEW p \in 0 .. size - 1, p + n \in K PROVE p \in S
      <4>1. p = (p + n) - n /\ p >= 0
        BY <1>0, <1>3, <3>2
      <4> QED
        BY <1>1, <3>2, <4>1
    <3>3. ASSUME NEW p \in S PROVE p \in 0 .. size - 1 /\ p + n \in K
      <4>1. PICK j \in K : p = j - n /\ p >= 0
        BY <1>1
      <4> QED
        BY <1>0, <1>3, <4>1
    <3>4. {p \in 0 .. size - 1 : p + n \in K} = S
      BY <3>2, <3>3
    <3> QED
      BY <3>1, <3>4
  <2>2. CASE ~(n < size)
    <3>1. Leaves(x, size, {})
      BY <1>0, <1>1, <2>2, ManyLeave DEF ShiftDown
    <3>2. S = {}
      BY <1>0, <1>1, <1>3, <2>2
    <3> QED
      BY <3>1, <3>2
  <2> QED
    BY <2>1, <2>2
<1>5. Grows(x, size, S)
  <2>1. \A p \in S : p \in Nat /\ p < max_size
    BY <1>0, <1>1, <1>3
  <2> QED
    BY <1>1, <2>1, KeyBounds DEF Grows
<1>6. Answers("shift_down", x, args, NoResult)
  BY <1>1 DEF ShiftDown
<1>7. /\ Kept /\ Keys!Does("shift_down", x, args, S)
      /\ answer'.op = "shift_down" /\ answer'.args = args
  BY <1>0, <1>4, <1>5, <1>6, DoesKeep
<1>8. Keys!ShiftDown(x, n)
  BY <1>0, <1>1, <1>7, KeysWhenIdle DEF Keys!ShiftDown
<1> QED
  BY <1>2, <1>7, <1>8 DEF KeyStep, Keys!Next, Keys!Is

(***************************************************************************)
(* Whole sets.                                                             *)
(***************************************************************************)
\* A call that puts other blocks in a set's place may move its end anywhere.
LEMMA ExchangeKeeps ==
    ASSUME HeldAreKeys, Idle, NEW x \in Obj,
           NEW op \in Exchanges, NEW args, NEW result, Answers(op, x, args, result),
           NEW size, NEW S, Leaves(x, size, S), \A p \in S : is_key(p)
    PROVE  /\ Kept /\ Keys!Becomes(x, S) /\ Keys!Answered(op, x, args, result)
           /\ answer'.op = op /\ answer'.args = args
<1>1. Idle' /\ PendingExact' /\ answer'.op \in Exchanges
  BY AnswersAre, NothingPending
<1>2. EndMoves
  BY <1>1 DEF EndMoves
<1> QED
  BY <1>1, <1>2, AnswersAre, EndsWith, LeavesKeys DEF Kept

\* What two sets are left holding, the second last.
BothLeft(x, S, y, T) ==
    \A z \in Obj : Positions(m_blocks'[z]) = IF z = y THEN T ELSE IF z = x THEN S ELSE Held(z)

\* A call that does so in two sets.
LEMMA ExchangeBothKeep ==
    ASSUME HeldAreKeys, Idle, NEW x \in Obj, NEW y \in Obj,
           NEW op \in Exchanges, NEW args, Answers(op, x, args, NoResult),
           NEW S, NEW T, \A p \in S \cup T : is_key(p), BothLeft(x, S, y, T)
    PROVE  /\ Kept /\ KeysNow' = [KeysNow EXCEPT ![x] = S, ![y] = T]
           /\ Keys!Answered(op, x, args, Keys!NoResult)
           /\ answer'.op = op /\ answer'.args = args
<1> DEFINE result == NoResult
<1>0. Answers(op, x, args, result) /\ result = Keys!NoResult
  BY DEF NoResult, Keys!NoResult
<1> HIDE DEF result
<1>1. /\ Idle' /\ PendingExact' /\ answer'.op \in Exchanges
      /\ Keys!Answered(op, x, args, result) /\ answer'.op = op /\ answer'.args = args
  BY <1>0, AnswersAre, NothingPending
<1>2. EndMoves
  BY <1>1 DEF EndMoves
<1>3. HeldAreKeys'
  <2>1. ASSUME NEW z \in Obj, NEW p \in Positions(m_blocks'[z]) PROVE is_key(p)
    BY <2>1 DEF HeldAreKeys, Held, BothLeft
  <2> QED
    BY <2>1 DEF HeldAreKeys, bits, is_key
<1>4. KeysNow' = [z \in Obj |-> Positions(m_blocks'[z])]
  BY <1>1 DEF KeysNow, bits
<1>5. KeysNow = [z \in Obj |-> Held(z)]
  BY DEF KeysNow, Held
<1>6. KeysNow' = [KeysNow EXCEPT ![x] = S, ![y] = T]
  BY <1>4, <1>5 DEF BothLeft
<1> QED
  BY <1>0, <1>1, <1>2, <1>3, <1>6 DEF Kept

\* A complement, where the width is the universe.
LEMMA ComplementKeeps ==
    ASSUME KeyInv, NEW x \in Obj, Complement(x)
    PROVE  Kept /\ KeyStep
<1>0. TypeOK /\ UnusedBitsClear /\ HeldAreKeys /\ Idle /\ Kind = "static"
  BY DEF KeyInv, SetInv, Complement
<1>1. PICK args, K, S, size :
        args = <<>> /\ K = Held(x) /\ S = (0 .. m_size[x] - 1) \ Held(x) /\ size = m_size[x]
  OBVIOUS
<1>2. size = N /\ max_size = N /\ N \in Nat
  BY <1>0, <1>1, HeldBounds, KeyBounds, NAssumption
<1>3. flip_all(x) /\ Answers("complement", x, args, NoResult)
  BY <1>1 DEF Complement
<1>4. Leaves(x, size, S)
  BY <1>0, <1>1, <1>3, ManyLeave
<1>5. Grows(x, size, S)
  <2>1. \A p \in S : p \in Nat /\ p < max_size
    BY <1>1, <1>2
  <2> QED
    BY <1>1, <2>1, KeyBounds DEF Grows
<1>6. /\ Kept /\ Keys!Does("complement", x, args, S)
      /\ answer'.op = "complement" /\ answer'.args = args
  BY <1>0, <1>3, <1>4, <1>5, DoesKeep
<1>7. Keys!Complement(x)
  BY <1>0, <1>1, <1>2, <1>6, KeysWhenIdle DEF Keys!Complement
<1> QED
  BY <1>6, <1>7 DEF KeyStep, Keys!Next, Keys!Is

\* Blocks adopted whole hold keys.
LEMMA ReplaceKeeps ==
    ASSUME KeyInv, NEW x \in Obj, NEW k \in 0 .. MaxBlocks, NEW b \in Storage(k), Replace(x, b)
    PROVE  Kept /\ KeyStep
<1>0. /\ TypeOK /\ UnusedBitsClear /\ HeldAreKeys /\ Idle /\ replace(x, b)
      /\ \A p \in Positions(b) : is_key(p)
  BY DEF KeyInv, SetInv, Replace
<1>1. PICK args, S, size, result :
        /\ args = <<Positions(b)>> /\ S = Positions(b) /\ size = num_bits(b) /\ result = NoResult
  OBVIOUS
<1>2. Leaves(x, size, S) /\ S \subseteq Width
  BY <1>0, <1>1, ExchangeLeaves
<1>3. S \subseteq Key /\ S \subseteq {n \in 0 .. top : is_key(n)}
  BY <1>0, <1>1, <1>2, KeyBounds
<1>4. Answers("replace", x, args, result)
  BY <1>1 DEF Replace
<1>5. /\ Kept /\ Keys!Becomes(x, S) /\ Keys!Answered("replace", x, args, result)
      /\ answer'.op = "replace" /\ answer'.args = args
  BY <1>0, <1>1, <1>2, <1>4, ExchangeKeeps DEF Exchanges
<1>6. Keys!Does("replace", x, <<S>>, S)
  BY <1>1, <1>5 DEF Keys!Does, NoResult, Keys!NoResult
<1>7. Keys!Replace(x)
  BY <1>3, <1>6 DEF Keys!Replace
<1> QED
  BY <1>5, <1>7 DEF KeyStep, Keys!Next, Keys!Is

\* Blocks extracted leave none.
LEMMA ExtractKeeps ==
    ASSUME KeyInv, NEW x \in Obj, Extract(x)
    PROVE  Kept /\ KeyStep
<1>0. TypeOK /\ UnusedBitsClear /\ HeldAreKeys /\ Idle /\ extract(x)
  BY DEF KeyInv, SetInv, Extract
<1>1. PICK args, result : args = <<>> /\ result = Held(x)
  OBVIOUS
<1>2. Leaves(x, 0, {}) /\ Answers("extract", x, args, result)
  BY <1>0, <1>1, ExchangeLeaves DEF Extract, Held
<1>3. /\ Kept /\ Keys!Becomes(x, {}) /\ Keys!Answered("extract", x, args, result)
      /\ answer'.op = "extract" /\ answer'.args = args
  BY <1>0, <1>2, ExchangeKeeps DEF Exchanges
<1>4. Keys!Extract(x)
  BY <1>0, <1>1, <1>3, KeysWhenIdle DEF Keys!Extract
<1> QED
  BY <1>3, <1>4 DEF KeyStep, Keys!Next, Keys!Is

\* A copy, for which a heap may be refused the room.
LEMMA CopyAssignKeeps ==
    ASSUME KeyInv, NEW x \in Obj, NEW y \in Obj, CopyAssign(x, y)
    PROVE  Kept /\ KeyStep
<1>0. TypeOK /\ UnusedBitsClear /\ HeldAreKeys /\ Idle /\ copy_assign(x, y)
  BY DEF KeyInv, SetInv, CopyAssign
<1>1. PICK args, S, size, result :
        args = <<y>> /\ S = Held(y) /\ size = m_size[y] /\ result = NoResult
  OBVIOUS
<1>2. args[1] = y /\ \A p \in S : is_key(p)
  BY <1>0, <1>1 DEF HeldAreKeys, Held
<1>3. CASE Refused /\ Kind = "dynamic" /\ x # y
  <2>1. Throws("copy", x, args, "bad_alloc") /\ UNCHANGED contents
    BY <1>1, <1>3 DEF CopyAssign, Settles, Refused
  <2>2. /\ Kept /\ Keys!Fails("copy", x, args, "bad_alloc")
        /\ answer'.op = "copy" /\ answer'.args = args
    BY <1>0, <2>1, FailsKeep
  <2>3. Keys!Copy(x, y)
    BY <1>1, <1>3, <2>2 DEF Keys!Copy
  <2> QED
    BY <1>2, <2>2, <2>3 DEF KeyStep, Keys!Next, Keys!Is
<1>4. CASE call'.outcome = "ok" /\ Leaves(x, m_size[y], Held(y))
  <2>1. Answers("copy", x, args, result)
    BY <1>1, <1>4 DEF CopyAssign, Settles
  <2>2. Leaves(x, size, S)
    BY <1>1, <1>4
  <2>3. /\ Kept /\ Keys!Becomes(x, S) /\ Keys!Answered("copy", x, args, result)
        /\ answer'.op = "copy" /\ answer'.args = args
    BY <1>0, <1>2, <2>1, <2>2, ExchangeKeeps DEF Exchanges
  <2>4. Keys!Does("copy", x, args, S)
    BY <1>1, <2>3 DEF Keys!Does, NoResult, Keys!NoResult
  <2>5. Keys!Copy(x, y)
    BY <1>0, <1>1, <2>4, KeysWhenIdle DEF Keys!Copy
  <2> QED
    BY <1>2, <2>3, <2>5 DEF KeyStep, Keys!Next, Keys!Is
<1> QED
  BY <1>0, <1>3, <1>4, AssignLeaves

\* A move, from another set or from itself.
LEMMA MoveAssignKeeps ==
    ASSUME KeyInv, NEW x \in Obj, NEW y \in Obj, MoveAssign(x, y)
    PROVE  Kept /\ KeyStep
<1>0. TypeOK /\ UnusedBitsClear /\ HeldAreKeys /\ Idle /\ move_assign(x, y)
  BY DEF KeyInv, SetInv, MoveAssign
<1>1. PICK args, S, T, size, result :
        args = <<y>> /\ S = Held(y) /\ T = {} /\ size = m_size[y] /\ result = NoResult
  OBVIOUS
<1>2. args[1] = y /\ \A p \in S \cup T : is_key(p)
  BY <1>0, <1>1 DEF HeldAreKeys, Held
<1>3. Answers("move", x, args, NoResult) /\ Answers("move", x, args, result)
  BY <1>1 DEF MoveAssign
<1>4. KeysNow[y] = S
  BY <1>0, <1>1, KeysWhenIdle
<1>5. CASE x = y \/ ~has_stored_size
  <2>1. Leaves(x, size, S)
    BY <1>0, <1>1, <1>5, AssignLeaves
  <2>2. /\ Kept /\ Keys!Becomes(x, S) /\ Keys!Answered("move", x, args, result)
        /\ answer'.op = "move" /\ answer'.args = args
    BY <1>0, <1>2, <1>3, <2>1, ExchangeKeeps DEF Exchanges
  <2>3. Keys!Move(x, y)
    BY <1>1, <1>4, <1>5, <2>2 DEF Keys!Move, has_stored_size, NoResult, Keys!NoResult
  <2> QED
    BY <1>2, <2>2, <2>3 DEF KeyStep, Keys!Next, Keys!Is
<1>6. CASE ~(x = y \/ ~has_stored_size)
  <2>1. \A z \in Obj : Positions(m_blocks'[z]) =
            IF z = y THEN (IF swap(x, y) THEN Held(x) ELSE {}) ELSE IF z = x THEN S ELSE Held(z)
    BY <1>0, <1>1, <1>6, AssignLeaves
  <2>2. ~swap(x, y)
    <3>1. call'.op = "move_assign" /\ (swap(x, y) => call'.op = "swap")
      BY <1>0, <1>6 DEF move_assign, swap, Returned
    <3> QED
      BY <3>1
  <2>3. BothLeft(x, S, y, T)
    BY <1>1, <2>1, <2>2 DEF BothLeft
  <2>4. /\ Kept /\ KeysNow' = [KeysNow EXCEPT ![x] = S, ![y] = T]
        /\ Keys!Answered("move", x, args, Keys!NoResult)
        /\ answer'.op = "move" /\ answer'.args = args
    BY <1>0, <1>2, <1>3, <2>3, ExchangeBothKeep DEF Exchanges
  <2>5. ~(x = y \/ (IF Kind = "dynamic" THEN "heap" ELSE Kind) = "static")
    BY <1>6 DEF has_stored_size
  <2>6. Keys!Move(x, y)
    BY <1>1, <1>4, <2>4, <2>5 DEF Keys!Move, KeysNow, Held
  <2> QED
    BY <1>2, <2>4, <2>6 DEF KeyStep, Keys!Next, Keys!Is
<1> QED
  BY <1>5, <1>6

\* An exchange of two sets, or of one with itself.
LEMMA SwapKeeps ==
    ASSUME KeyInv, NEW x \in Obj, NEW y \in Obj, Swap(x, y)
    PROVE  Kept /\ KeyStep
<1>0. TypeOK /\ UnusedBitsClear /\ HeldAreKeys /\ Idle /\ swap(x, y)
  BY DEF KeyInv, SetInv, Swap
<1>1. PICK args, S, T : args = <<y>> /\ S = Held(y) /\ T = Held(x)
  OBVIOUS
<1>2. args[1] = y /\ \A p \in S \cup T : is_key(p)
  BY <1>0, <1>1 DEF HeldAreKeys, Held
<1>3. Answers("swap", x, args, NoResult)
  BY <1>1 DEF Swap
<1>4. KeysNow[y] = S /\ KeysNow[x] = T
  BY <1>0, <1>1, KeysWhenIdle
<1>5. BothLeft(x, S, y, T)
  BY <1>0, <1>1, AssignLeaves DEF BothLeft
<1>6. /\ Kept /\ KeysNow' = [KeysNow EXCEPT ![x] = S, ![y] = T]
      /\ Keys!Answered("swap", x, args, Keys!NoResult)
      /\ answer'.op = "swap" /\ answer'.args = args
  BY <1>0, <1>2, <1>3, <1>5, ExchangeBothKeep DEF Exchanges
<1>7. Keys!Swap(x, y)
  BY <1>1, <1>4, <1>6 DEF Keys!Swap, KeysNow, Held
<1> QED
  BY <1>2, <1>6, <1>7 DEF KeyStep, Keys!Next, Keys!Is

(***************************************************************************)
(* The operators between two sets.                                         *)
(***************************************************************************)
\* An intersection and a difference never need room.
LEMMA AndMinusKeep ==
    ASSUME KeyInv, NEW x \in Obj, NEW y \in Obj, AndAssign(x, y) \/ MinusAssign(x, y)
    PROVE  Kept /\ KeyStep
<1>0. TypeOK /\ UnusedBitsClear /\ HeldAreKeys /\ Idle
  BY DEF KeyInv, SetInv, AndAssign, MinusAssign
<1>1. PICK args, A, B : args = <<y>> /\ A = Held(x) \cap Held(y) /\ B = Held(x) \ Held(y)
  OBVIOUS
<1>2. args[1] = y /\ A \subseteq Held(x) /\ B \subseteq Held(x)
  BY <1>1
<1>3. CASE AndAssign(x, y)
  <2>1. Answers("and", x, args, NoResult) /\ Leaves(x, m_size[x], A)
    BY <1>0, <1>1, <1>3, CombineLeaves DEF AndAssign
  <2>2. Grows(x, m_size[x], A)
    BY <1>0, <1>2, LessKeepsWidth
  <2>3. /\ Kept /\ Keys!Does("and", x, args, A)
        /\ answer'.op = "and" /\ answer'.args = args
    BY <1>0, <2>1, <2>2, DoesKeep
  <2>4. Keys!AndAssign(x, y)
    BY <1>0, <1>1, <2>3, KeysWhenIdle DEF Keys!AndAssign
  <2> QED
    BY <1>2, <2>3, <2>4 DEF KeyStep, Keys!Next, Keys!Is
<1>4. CASE MinusAssign(x, y)
  <2>1. Answers("minus", x, args, NoResult) /\ Leaves(x, m_size[x], B)
    BY <1>0, <1>1, <1>4, CombineLeaves DEF MinusAssign
  <2>2. Grows(x, m_size[x], B)
    BY <1>0, <1>2, LessKeepsWidth
  <2>3. /\ Kept /\ Keys!Does("minus", x, args, B)
        /\ answer'.op = "minus" /\ answer'.args = args
    BY <1>0, <2>1, <2>2, DoesKeep
  <2>4. Keys!MinusAssign(x, y)
    BY <1>0, <1>1, <2>3, KeysWhenIdle DEF Keys!MinusAssign
  <2> QED
    BY <1>2, <2>3, <2>4 DEF KeyStep, Keys!Next, Keys!Is
<1> QED
  BY <1>3, <1>4

\* Room made for the other's keys, by a step that moves the end to one of them.
LEMMA RoomMade ==
    ASSUME HeldAreKeys, Idle, NEW x \in Obj, NEW y \in Obj, NEW op \in {"or", "xor"},
           Continues("combine", op, x, <<y>>), call'.outcome = "ok",
           NEW n, Leaves(x, n, Held(x)), n = m_size[x] \/ (n > m_size[x] /\ n - 1 \in Held(y))
    PROVE  Kept /\ KeyStep
<1>1. PICK args, K : args = <<y>> /\ K = Held(x)
  OBVIOUS
<1>2. args[1] = y /\ call'.outcome # "bad_alloc" /\ \A p \in K : is_key(p)
  BY <1>1 DEF HeldAreKeys, Held
<1>3. Continues("combine", op, x, args) /\ Leaves(x, n, K)
  BY <1>1
<1>4. /\ HeldAreKeys' /\ KeyStep
      /\ pending' = [step |-> "combine", op |-> op, x |-> x, args |-> args, was |-> Held(x), at |-> 0]
      /\ Held(x)' = K
  BY <1>2, <1>3, BeginsWith
<1>5. pending' = [step |-> "combine", op |-> op, x |-> x, args |-> args, was |-> K, at |-> 0]
  BY <1>1, <1>4
<1>6. /\ pending'.step = "combine" /\ pending'.op = op /\ pending'.x = x
      /\ pending'.args = args /\ pending'.was = K /\ pending'.args[1] = y
  BY <1>2, <1>5
<1>7. CombineExact'
  <2>1. Held(pending.x)' = K
    BY <1>4, <1>6 DEF Held, bits
  <2> QED
    BY <1>1, <1>6, <2>1 DEF CombineExact
<1>8. PendingExact'
  BY <1>6, <1>7 DEF PendingExact, Awaits
<1>9. EndMoves
  <2>1. m_size'[x] = n /\ \A z \in Obj \ {x} : m_size'[z] = m_size[z]
    BY DEF Leaves
  <2>2. Positions(m_blocks'[y]) = Held(y)
    BY DEF Leaves, Held, bits
  <2>3. Positions(bits(pending.args[1]))' = Held(y)
    BY <1>6, <2>2 DEF bits
  <2> QED
    BY <1>6, <2>1, <2>3 DEF EndMoves, end
<1> QED
  BY <1>4, <1>8, <1>9 DEF Kept

\* A union and a symmetric difference make room for the other's keys first.
LEMMA GrowsFirstKeeps ==
    ASSUME KeyInv, NEW x \in Obj, NEW y \in Obj, OrAssign(x, y) \/ XorAssign(x, y)
    PROVE  Kept /\ KeyStep
<1>0. TypeOK /\ UnusedBitsClear /\ HeldAreKeys /\ Idle
  BY DEF KeyInv, SetInv, OrAssign, XorAssign, GrowsFirst
<1>1. PICK op \in {"or", "xor"} : /\ GrowsFirst(op, x, y)
                                  /\ op = "or" => OrAssign(x, y)
                                  /\ op = "xor" => XorAssign(x, y)
  BY DEF OrAssign, XorAssign
<1>2. Continues("combine", op, x, <<y>>)
  BY <1>1 DEF GrowsFirst
<1>3. CASE ~has_stored_size
  <2>1. Untouched
    BY <1>1, <1>3 DEF GrowsFirst
  <2>2. Leaves(x, m_size[x], Held(x)) /\ call'.outcome = "ok"
    BY <1>0, <2>1, UntouchedLeaves
  <2> QED
    BY <1>0, <1>2, <2>2, RoomMade
<1>4. CASE has_stored_size
  <2>1. grow_to_admit(x, y)
    BY <1>1, <1>4 DEF GrowsFirst
  <2>2. CASE Refused /\ Kind = "dynamic" /\ ~(Held(y) \subseteq Held(x))
    <3>1. PICK args : args = <<y>>
      OBVIOUS
    <3>2. args[1] = y
      BY <3>1
    <3>3. Throws(op, x, args, "bad_alloc") /\ UNCHANGED contents
      BY <1>2, <2>2, <3>1 DEF Continues, Refused
    <3>4. /\ Kept /\ Keys!Fails(op, x, args, "bad_alloc")
          /\ answer'.op = op /\ answer'.args = args
      BY <1>0, <3>3, FailsKeep
    <3>5. KeysNow[x] = Held(x) /\ KeysNow[y] = Held(y)
      BY <1>0, KeysWhenIdle
    <3>6. (op = "or" => Keys!OrAssign(x, y)) /\ (op = "xor" => Keys!XorAssign(x, y))
      BY <2>2, <3>1, <3>4, <3>5 DEF Keys!OrAssign, Keys!XorAssign, Keys!Joins
    <3>7. CASE op = "or"
      BY <3>2, <3>4, <3>6, <3>7 DEF KeyStep, Keys!Next, Keys!Is
    <3>8. CASE op = "xor"
      BY <3>2, <3>4, <3>6, <3>8 DEF KeyStep, Keys!Next, Keys!Is
    <3> QED
      BY <3>7, <3>8
  <2>3. CASE \E n \in Nat : /\ call'.outcome = "ok" /\ Leaves(x, n, Held(x))
                            /\ n # m_size[x] => n > m_size[x] /\ n - 1 \in Held(y)
    BY <1>0, <1>2, <2>3, RoomMade
  <2> QED
    BY <1>0, <2>1, <2>2, <2>3, AdmitLeaves
<1> QED
  BY <1>3, <1>4

\* Once the other has been admitted, they are done in the room that was made.
LEMMA CombineKeeps ==
    ASSUME KeyInv, Combine
    PROVE  Kept /\ KeyStep
<1>0. /\ TypeOK /\ UnusedBitsClear /\ HeldAreKeys /\ ~Idle /\ pending.x \in Obj /\ CombineExact
      /\ pending.args[1] \in Obj /\ admits(pending.x, pending.args[1])
      /\ IF pending.op = "or" THEN or_assign(pending.x, pending.args[1])
                              ELSE xor_assign(pending.x, pending.args[1])
      /\ Answers(pending.op, pending.x, pending.args, NoResult)
  BY DEF KeyInv, SetInv, Combine, Awaits, Idle, PendingOK, PendingExact
<1>1. PICK y \in Obj, op \in {"or", "xor"} :
        pending.args = <<y>> /\ pending.op = op /\ Held(pending.x) = pending.was
  BY <1>0 DEF CombineExact
<1>2. PICK x, args, K, L, S :
        /\ x = pending.x /\ args = <<y>> /\ K = Held(pending.x) /\ L = Held(y)
        /\ S = IF op = "or" THEN Held(pending.x) \cup Held(y)
               ELSE (Held(pending.x) \cup Held(y)) \ (Held(pending.x) \cap Held(y))
  OBVIOUS
<1>3. /\ x \in Obj /\ args[1] = y /\ pending.args = args /\ pending.args[1] = y
      /\ pending.x = x /\ K = Held(x) /\ admits(x, y)
      /\ IF op = "or" THEN or_assign(x, y) ELSE xor_assign(x, y)
      /\ Answers(op, x, args, NoResult)
  BY <1>0, <1>1, <1>2
<1>4. Leaves(x, m_size[x], S)
  BY <1>0, <1>2, <1>3, CombineLeaves
<1>5. Grows(x, m_size[x], S)
  <2>1. \A p \in S : is_key(p)
    BY <1>0, <1>2, <1>3 DEF HeldAreKeys, Held
  <2> QED
    BY <2>1 DEF Grows
<1>6. /\ Kept /\ Keys!Does(op, x, args, S)
      /\ answer'.op = op /\ answer'.args = args
  BY <1>0, <1>3, <1>4, <1>5, DoesKeep
<1>7. KeysNow[x] = K /\ KeysNow[y] = L
  BY <1>0, <1>1, <1>2, <1>3 DEF KeysNow, Held
<1>8. CASE op = "or"
  <2>1. Keys!OrAssign(x, y)
    BY <1>2, <1>6, <1>7, <1>8 DEF Keys!OrAssign, Keys!Joins
  <2> QED
    BY <1>3, <1>6, <1>8, <2>1 DEF KeyStep, Keys!Next, Keys!Is
<1>9. CASE op = "xor"
  <2>1. Keys!XorAssign(x, y)
    BY <1>2, <1>6, <1>7, <1>9 DEF Keys!XorAssign, Keys!Joins
  <2> QED
    BY <1>3, <1>6, <1>9, <2>1 DEF KeyStep, Keys!Next, Keys!Is
<1> QED
  BY <1>8, <1>9

(***************************************************************************)
(* Every step, by the group of calls it belongs to.                        *)
(***************************************************************************)
LEMMA EveryStepKeeps ==
    ASSUME KeyInv, SetNext
    PROVE  KeyInv' /\ EndMoves /\ KeyStep
<1>1. ASSUME NEW x \in Obj, Insertions(x) PROVE Kept /\ KeyStep
  BY <1>1, DoInsertKeeps, InsertRangeKeeps, BeginEachKeeps DEF Insertions
<1>2. ASSUME NEW x \in Obj, Erasures(x) PROVE Kept /\ KeyStep
  BY <1>2, EraseAtKeeps, EraseKeyKeeps, EraseBetweenKeeps, EraseEquivalentKeeps, PopKeeps,
     ClearKeeps, EraseIfKeeps
  DEF Erasures
<1>3. ASSUME NEW x \in Obj, KeyOperators(x) PROVE Kept /\ KeyStep
  BY <1>3, AndAssignKeyKeeps, OrXorMinusKeyKeeps, ShiftUpKeeps, ShiftDownKeeps DEF KeyOperators
<1>4. ASSUME NEW x \in Obj, Whole(x) PROVE Kept /\ KeyStep
  BY <1>4, ComplementKeeps, ExtractKeeps, ReplaceKeeps DEF Whole
<1>5. ASSUME NEW x \in Obj, NEW y \in Obj, Binary(x, y) PROVE Kept /\ KeyStep
  BY <1>5, AndMinusKeep, GrowsFirstKeeps, CopyAssignKeeps, MoveAssignKeeps, SwapKeeps DEF Binary
<1>6. ASSUME Proceeds PROVE Kept /\ KeyStep
  BY <1>6, SetSpanKeeps, InsertNextKeeps, InsertedEachKeeps, EraseIfNextKeeps, EraseIfThrowsKeeps,
     ErasedIfKeeps, CombineKeeps, KeepKeeps, ShiftKeeps
  DEF Proceeds
<1>7. SetInv'
  BY InsertionsKeep, ErasuresKeep, KeyOperatorsKeep, WholeKeep, BinaryKeep, ProceedsKeep
  DEF SetNext, KeyInv
<1> QED
  BY <1>1, <1>2, <1>3, <1>4, <1>5, <1>6, <1>7 DEF SetNext, Kept, KeyInv

\* Sets are constructed holding no keys.
LEMMA InitHoldsNone ==
    ASSUME SetInit
    PROVE  KeyInv /\ Keys!Init
<1>1. /\ Init /\ pending = Nothing
      /\ answer = [op |-> "construct", outcome |-> "ok"]
  BY DEF SetInit
<1>2. TypeOK /\ StoredCountExact /\ \A x \in Obj : \A i \in DOMAIN m_blocks[x] : m_blocks[x][i] = zero
  BY <1>1, InitType, InitCount DEF Init
<1>3. SetInv
  BY <1>1, <1>2 DEF SetInv, UnusedBitsClear, TailClear, zero, PendingOK, Idle, Nothing
<1>4. ASSUME NEW x \in Obj PROVE Positions(bits(x)) = {}
  <2>1. bits(x) \in Storage(blocks_for(m_size[x])) /\ blocks_for(m_size[x]) \in Nat
    BY <1>2, BlocksType DEF bits
  <2>2. ~any(bits(x))
    BY <1>2, <2>1, NumBlocks DEF any, bits, Storage
  <2> QED
    BY <2>1, <2>2, AnyPosition
<1>5. Idle
  BY <1>1 DEF Idle, Nothing
<1>6. KeysNow = [x \in Obj |-> {}]
  BY <1>4, <1>5 DEF KeysNow
<1>7. HeldAreKeys
  BY <1>4 DEF HeldAreKeys
<1>8. PendingExact
  BY <1>1 DEF PendingExact, Awaits, Nothing
<1> QED
  BY <1>1, <1>3, <1>6, <1>7, <1>8 DEF KeyInv, Keys!Init, KeysNow

\* A step that changes nothing keeps everything.
LEMMA StutterKeeps ==
    ASSUME KeyInv, UNCHANGED set_vars
    PROVE  KeyInv' /\ EndMoves /\ UNCHANGED Keys!vars
<1>1. UNCHANGED <<contents, pending, answer>> /\ UNCHANGED <<m_size, m_blocks>>
  BY DEF set_vars, vars, contents
<1>2. SetInv'
  <2>1. PendingOK'
    BY <1>1 DEF KeyInv, SetInv, PendingOK, Idle, Awaits, admits
  <2> QED
    BY <1>1, <2>1, StorageStepKeeps DEF KeyInv, SetInv, StorageStep
<1>3. HeldAreKeys'
  BY <1>1 DEF KeyInv, HeldAreKeys, bits, is_key
<1>4. PendingExact'
  BY <1>1
  DEF KeyInv, PendingExact, Awaits, SpanExact, EachExact, EraseIfExact, CombineExact, KeepExact,
      ShiftExact, Held, bits, end, is_key
<1>5. EndMoves
  BY <1>1 DEF EndMoves, end
<1>6. UNCHANGED KeysNow
  BY <1>1 DEF KeysNow, Idle, bits
<1> QED
  BY <1>1, <1>2, <1>3, <1>4, <1>5, <1>6 DEF KeyInv, Keys!vars, KeysNow

\* The invariant holds of every state a program reaches.
LEMMA KeyInvariant == SetSpec => []KeyInv
<1>1. SetInit => KeyInv
  BY InitHoldsNone
<1>2. KeyInv /\ [SetNext]_set_vars => KeyInv'
  BY EveryStepKeeps, StutterKeeps
<1> QED
  BY <1>1, <1>2, PTL DEF SetSpec

(***************************************************************************)
(* The theorems.                                                           *)
(***************************************************************************)
\* Every lookup of every value, and the walk of the keys in both directions,
\* answers what a search of the keys would, in every state a program reaches:
\* between the steps of a call as well, when the width is past the keys.
THEOREM LookupsStayExact == SetSpec => []LookupsExact
<1>1. KeyInv => LookupsExact
  BY Lookups DEF KeyInv, SetInv
<1> QED
  BY <1>1, KeyInvariant, PTL

\* The end of a set, which an iterator may be held at, moves only as it is
\* documented to: for a key inserted past it, a <<= or an exchange of blocks.
THEOREM HeldEndStays == SetSpec => HeldEndMovesForKeys
<1>1. KeyInv /\ [SetNext]_set_vars => [EndMoves]_set_vars
  BY EveryStepKeeps
<1> QED
  BY <1>1, KeyInvariant, PTL DEF SetSpec, HeldEndMovesForKeys

\* Every call of every set, however many calls of the storage it makes and
\* whichever of them is refused, is one step of a set of keys: it does what its
\* name says, answers what it should, and where it throws leaves the keys as
\* they were, for every kind of storage, width of a block, universe and order.
THEOREM SetsAreKeySets == SetSpec => ImplementsKeySet
<1>1. SetInit => Keys!Init
  BY InitHoldsNone
<1>2. KeyInv /\ [SetNext]_set_vars => [Keys!Next]_Keys!vars
  BY EveryStepKeeps, StutterKeeps DEF KeyStep
<1> QED
  BY <1>1, <1>2, KeyInvariant, PTL DEF SetSpec, ImplementsKeySet, Keys!Spec

=============================================================================
