--------------------------- MODULE BitStringProofs ----------------------------
(***************************************************************************)
(* That bit_block_container implements the bit string, proved for every    *)
(* set of containers, every kind of storage, block width, capacity and     *)
(* bound: the initial states are initial strings, and every call, answered *)
(* or refused, is a step of BitString or a stutter of it.  And that a      *)
(* reserved capacity keeps its promise.                                    *)
(***************************************************************************)
EXTENDS MCBitBlockContainer, BitBlockContainerProofs

(***************************************************************************)
(* What one container's members are to the string.                         *)
(***************************************************************************)
\* What every step starts from: the types, and no bit outside the width.
LEMMA StringBefore ==
    ASSUME TypeOK, UnusedBitsClear, NEW x \in Obj
    PROVE  /\ m_size[x] \in Nat /\ blocks_for(m_size[x]) \in Nat
           /\ m_blocks[x] \in Storage(blocks_for(m_size[x]))
           /\ TailClear(m_blocks[x], m_size[x])
           /\ Positions(m_blocks[x]) \subseteq 0 .. m_size[x] - 1
           /\ \A n \in 0 .. m_size[x] - 1 : n \in Span(blocks_for(m_size[x]))
           /\ m_size[x] <= blocks_for(m_size[x]) * bits_per_block
           /\ blocks_for(m_size[x]) * bits_per_block < m_size[x] + bits_per_block
<1> DEFINE size == m_size[x]
           k == blocks_for(size)
           extent == k * bits_per_block
<1>1. /\ size \in Nat /\ k \in Nat /\ m_blocks[x] \in Storage(k)
      /\ TailClear(m_blocks[x], size) /\ extent \in Nat
      /\ size <= extent /\ extent < size + bits_per_block
  BY BlocksType, BlocksForBounds, WholeWidth DEF UnusedBitsClear
<1>2. Positions(m_blocks[x]) \subseteq 0 .. size - 1
  BY <1>1, ClearBelow
<1>3. \A n \in 0 .. size - 1 : n \in Span(k)
  <2>1. Span(k) = 0 .. extent - 1
    BY DEF Span
  <2> HIDE DEF extent, k
  <2> QED
    BY <1>1, <2>1
<1> QED
  BY <1>1, <1>2, <1>3

\* Members written are a string written.
LEMMA StoreIsValue ==
    ASSUME TypeOK, NEW x \in Obj, NEW size, NEW count, NEW b, store(x, size, count, b),
           NEW S, S = Positions(b)
    PROVE  String!Value(x, size, S)
<1>1. m_size' = [m_size EXCEPT ![x] = size]
  BY DEF store
<1>2. \A z \in Obj : m_blocks'[z] = IF z = x THEN b ELSE m_blocks[z]
  BY DEF store, TypeOK
<1>3. [z \in Obj |-> Positions(m_blocks'[z])] = [[z \in Obj |-> Positions(m_blocks[z])] EXCEPT ![x] = S]
  BY <1>2
<1> QED
  BY <1>1, <1>3 DEF String!Value

\* A write of blocks is, of the bit strings, a write of their positions.
LEMMA WriteIsBits ==
    ASSUME TypeOK, NEW x \in Obj, NEW count, NEW b, write(x, count, b),
           NEW S, S = Positions(b)
    PROVE  String!Bits(x, S)
BY StoreIsValue DEF write, String!Bits

\* Blocks and width left alone leave every bit string alone.
LEMMA UnwrittenIsNone ==
    ASSUME UNCHANGED <<m_size, m_blocks>>
    PROVE  UNCHANGED <<m_size, [x \in Obj |-> Positions(m_blocks[x])]>>
OBVIOUS

\* They leave, of the one container, the value it had.
LEMMA UnwrittenIsValue ==
    ASSUME TypeOK, NEW x \in Obj, UNCHANGED <<m_size, m_blocks>>
    PROVE  String!Value(x, m_size[x], Positions(m_blocks[x]))
<1>1. m_size' = [m_size EXCEPT ![x] = m_size[x]]
  BY DEF TypeOK
<1> QED
  BY <1>1 DEF String!Value

\* A call is recorded alike by the container and by the bit string.
LEMMA ReturnedIsDoes ==
    ASSUME NEW op, NEW x, NEW args
    PROVE  /\ call' = Returned(op, x, args, NoResult) => String!Does(op, x, args)
           /\ \A result : Returned(op, x, args, result) = String!Returned(op, x, args, result)
           /\ Returned(op, x, args, NoResult).op = op
           /\ refused(op, x, args) => String!Fails(op, x, args)
BY DEF Returned, Threw, refused, contents, NoResult, String!Returned, String!Threw,
       String!Does, String!Fails, String!NoResult

(***************************************************************************)
(* Growth: what is refused is wider, and what is granted is resized.       *)
(***************************************************************************)
\* Only a width that the allocation does not hold already is refused.
LEMMA RefusedIsWider ==
    ASSUME TypeOK, NEW x \in Obj, NEW n \in Nat, Refuses(x, blocks_for(n), n)
    PROVE  n > m_size[x]
<1>1. /\ m_size[x] \in Nat /\ blocks_for(m_size[x]) <= capacity[x]
      /\ m_size[x] <= Ceiling /\ capacity[x] \in Nat
      /\ blocks_for(m_size[x]) \in Nat /\ blocks_for(n) \in Nat
  BY BlocksType, CeilingType, BlocksForBounds DEF TypeOK
<1>2. CASE ~check_capacity(n)
  <2>1. Kind = "inplace" /\ n > N
    BY <1>2, NAssumption DEF check_capacity
  <2> QED
    BY <1>1, <2>1, NAssumption DEF Ceiling
<1>3. CASE blocks_for(n) > capacity[x]
  <2>1. n <= m_size[x] => blocks_for(n) <= blocks_for(m_size[x])
    BY <1>1, BlocksForMonotone
  <2> QED
    BY <1>1, <1>3, <2>1
<1> QED
  BY <1>2, <1>3 DEF Refuses

\* A resize of the blocks is a resize of the bit string: kept below, filled above.
LEMMA ResizeIsResized ==
    ASSUME TypeOK, UnusedBitsClear, NEW x \in Obj, NEW n \in Nat, NEW value \in BOOLEAN,
           resize_to(x, n, value)
    PROVE  String!Resized(x, n, value)
<1> DEFINE S == {p \in Positions(m_blocks[x]) : p < n} \cup {p \in m_size[x] .. n - 1 : value}
<1>1. Positions(resized(m_blocks[x], m_size[x], n, value)) = S
  BY StringBefore, ResizedPositions
<1>2. store(x, n, count_after_resize(x, n, value), resized(m_blocks[x], m_size[x], n, value))
  BY DEF resize_to
<1> HIDE DEF S
<1>3. String!Value(x, n, S)
  BY <1>1, <1>2, StoreIsValue
<1> QED
  BY <1>3 DEF S, String!Resized

\* A narrower or an equal width keeps the positions below it.
LEMMA ResizeIsValue ==
    ASSUME TypeOK, UnusedBitsClear, NEW x \in Obj, NEW n \in Nat, resize_to(x, n, FALSE)
    PROVE  String!Value(x, n, {p \in Positions(m_blocks[x]) : p < n})
<1>1. Positions(resized(m_blocks[x], m_size[x], n, FALSE)) = {p \in Positions(m_blocks[x]) : p < n}
  <2>1. /\ m_size[x] \in Nat /\ m_blocks[x] \in Storage(blocks_for(m_size[x]))
        /\ TailClear(m_blocks[x], m_size[x])
    BY StringBefore
  <2> QED
    BY <2>1, ResizedClearPositions
<1>2. store(x, n, count_after_resize(x, n, FALSE), resized(m_blocks[x], m_size[x], n, FALSE))
  BY DEF resize_to
<1> QED
  BY <1>1, <1>2, StoreIsValue

\* The four calls made of a resize.
LEMMA ResizeSteps ==
    ASSUME TypeOK, UnusedBitsClear, NEW x \in Obj
    PROVE  /\ \A n \in Width, value \in BOOLEAN : resize(x, n, value) => String!Resize(x, n, value)
           /\ \A value \in BOOLEAN : push_back(x, value) => String!PushBack(x, value)
           /\ pop_back(x) => String!PopBack(x)
           /\ clear(x) => String!Clear(x)
<1>0. m_size[x] \in Nat
  BY StringBefore
<1>1. ASSUME NEW n \in Width, NEW value \in BOOLEAN, resize(x, n, value)
      PROVE  String!Resize(x, n, value)
  <2>1. n \in Nat
    BY WidthType
  <2>2. CASE Refuses(x, blocks_for(n), n) /\ refused("resize", x, <<n, value>>)
    BY <2>1, <2>2, RefusedIsWider, ReturnedIsDoes DEF String!Resize
  <2>3. CASE resize_to(x, n, value) /\ call' = Returned("resize", x, <<n, value>>, NoResult)
    BY <2>1, <2>3, ResizeIsResized, ReturnedIsDoes DEF String!Resize
  <2> QED
    BY <1>1, <2>2, <2>3 DEF resize
<1>2. ASSUME NEW value \in BOOLEAN, push_back(x, value)
      PROVE  String!PushBack(x, value)
  <2>1. m_size[x] + 1 \in Nat
    BY <1>0
  <2>2. CASE refused("push_back", x, <<value>>)
    BY <2>2, ReturnedIsDoes DEF String!PushBack
  <2>3. CASE resize_to(x, m_size[x] + 1, value) /\ call' = Returned("push_back", x, <<value>>, NoResult)
    BY <2>1, <2>3, ResizeIsResized, ReturnedIsDoes DEF String!PushBack
  <2> QED
    BY <1>2, <2>2, <2>3 DEF push_back
<1>3. ASSUME pop_back(x) PROVE String!PopBack(x)
  <2>1. m_size[x] - 1 \in Nat /\ m_size[x] > 0
    BY <1>0, <1>3 DEF pop_back
  <2>2. FALSE \in BOOLEAN
    OBVIOUS
  <2>3. String!Resized(x, m_size[x] - 1, FALSE)
    BY <1>3, <2>1, <2>2, ResizeIsResized DEF pop_back
  <2> QED
    BY <1>3, <2>1, <2>3, ReturnedIsDoes DEF pop_back, String!PopBack
<1>4. ASSUME clear(x) PROVE String!Clear(x)
  <2>1. {p \in Positions(m_blocks[x]) : p < 0} = {}
    BY StringBefore
  <2>2. String!Value(x, 0, {})
    BY <1>4, <2>1, ResizeIsValue DEF clear
  <2> QED
    BY <1>4, <2>2, ReturnedIsDoes DEF clear, String!Clear
<1> QED
  BY <1>1, <1>2, <1>3, <1>4

\* An appended block is the value at the end of the string, at any width.
LEMMA AppendSteps ==
    ASSUME TypeOK, UnusedBitsClear, NEW x \in Obj, NEW value \in Block, append(x, value)
    PROVE  String!Append(x, value)
<1> DEFINE n == m_size[x] + bits_per_block
           c == appended(m_blocks[x], m_size[x], value)
           S == Positions(m_blocks[x]) \cup {m_size[x] + o : o \in value}
<1>1. CASE refused("append", x, <<value>>)
  BY <1>1, ReturnedIsDoes DEF String!Append
<1>2. CASE /\ store(x, n, m_count[x] + popcount(value), c)
           /\ call' = Returned("append", x, <<value>>, NoResult)
  <2>1. Positions(c) = S
    BY StringBefore, AppendedPositions
  <2> HIDE DEF n, c, S
  <2>2. String!Value(x, n, S)
    BY <1>2, <2>1, StoreIsValue
  <2> QED
    BY <1>2, <2>2, ReturnedIsDoes DEF String!Append, n, S
<1> QED
  BY <1>1, <1>2 DEF append

\* An insertion at or past the width grows the string to it.
LEMMA GrowingInsertSteps ==
    ASSUME TypeOK, UnusedBitsClear, NEW x \in Obj, NEW n \in Width, growing_insert(x, n)
    PROVE  String!GrowingInsert(x, n)
<1> DEFINE size == m_size[x]
           b == m_blocks[x]
           P == Positions(b)
<1>0. /\ size \in Nat /\ b \in Storage(blocks_for(size)) /\ TailClear(b, size)
      /\ P \subseteq 0 .. size - 1 /\ blocks_for(size) \in Nat
  BY StringBefore
<1>1. n \in Nat
  BY WidthType
<1>2. CASE has_stored_size /\ n >= size
  <2> DEFINE w == n + 1
             wide == resized(b, size, w, FALSE)
  <2>1. w \in Nat /\ n < w /\ blocks_for(w) \in Nat /\ n \in 0 .. w - 1
    BY <1>1, BlocksForBounds
  <2>2. CASE Refuses(x, blocks_for(w), w) /\ refused("growing_insert", x, <<n>>)
    BY <1>2, <2>2, ReturnedIsDoes DEF String!GrowingInsert
  <2>3. CASE /\ store(x, w, count_after_resize(x, w, FALSE) + 1, bit_set(wide, n))
             /\ call' = Returned("growing_insert", x, <<n>>, TRUE)
    <3>1. n \in Span(blocks_for(w))
      <4> DEFINE extent == blocks_for(w) * bits_per_block
      <4> HIDE DEF w
      <4>1. extent \in Nat /\ w <= extent
        BY <2>1, BlocksForBounds, WholeWidth
      <4> HIDE DEF extent
      <4>2. n \in 0 .. extent - 1
        BY <1>1, <2>1, <4>1
      <4> QED
        BY <4>2 DEF Span, extent
    <3> HIDE DEF w, P, size, b
    <3>2. wide \in Storage(blocks_for(w)) /\ Positions(wide) = {p \in P : p < w}
      BY <1>0, <2>1, ResizedType, ResizedClearPositions DEF P
    <3>3. {p \in P : p < w} = P /\ n \notin P
      <4>1. \A p \in P : p \in Nat /\ p < size
        BY <1>0
      <4>2. \A p \in P : p < w
        BY <1>0, <1>1, <1>2, <2>1, <4>1
      <4>3. n \notin P
        BY <1>0, <1>1, <1>2, <4>1
      <4> QED
        BY <4>2, <4>3
    <3> HIDE DEF wide
    <3>4. Positions(bit_set(wide, n)) = P \cup {n}
      BY <2>1, <3>1, <3>2, <3>3, PositionWrittenPositions
    <3>5. String!Value(x, w, P \cup {n})
      BY <2>3, <3>4, StoreIsValue
    <3>6. w = IF n < size THEN size ELSE n + 1
      BY <1>0, <1>1, <1>2 DEF w
    <3>7. call' = String!Returned("growing_insert", x, <<n>>, n \notin P)
      <4>1. TRUE = (n \notin P)
        BY <3>3
      <4> QED
        BY <2>3, <4>1, ReturnedIsDoes
    <3> QED
      BY <3>5, <3>6, <3>7 DEF String!GrowingInsert, P, size, b
  <2> QED
    BY <1>2, <2>2, <2>3 DEF growing_insert
<1>3. CASE ~(has_stored_size /\ n >= size)
  <2>1. /\ n < size
        /\ write(x, m_count[x] + (IF ~BitAt(b, n) THEN 1 ELSE 0), bit_set(b, n))
        /\ call' = Returned("growing_insert", x, <<n>>, ~BitAt(b, n))
    BY <1>3 DEF growing_insert
  <2>2. n \in Span(blocks_for(size))
    <3>1. n \in 0 .. size - 1
      BY <1>0, <1>1, <2>1
    <3> QED
      BY <3>1, StringBefore
  <2>3. (BitAt(b, n) <=> n \in P) /\ Positions(bit_set(b, n)) = P \cup {n}
    BY <1>0, <2>2, PositionWrittenPositions
  <2>4. String!Bits(x, P \cup {n})
    BY <2>1, <2>3, WriteIsBits
  <2>5. call' = String!Returned("growing_insert", x, <<n>>, n \notin P)
    <3>1. (~BitAt(b, n)) = (n \notin P)
      BY <2>3 DEF BitAt
    <3> HIDE DEF P
    <3> QED
      BY <2>1, <3>1, ReturnedIsDoes
  <2> QED
    BY <2>1, <2>4, <2>5 DEF String!GrowingInsert, String!Bits
<1> QED
  BY <1>2, <1>3

\* Reservation and release of capacity leave the bit string alone.
LEMMA RoomSteps ==
    ASSUME TypeOK, NEW x \in Obj
    PROVE  /\ \A n \in Width : reserve(x, n) => String!Reserve(x, n)
           /\ shrink_to_fit(x) => String!ShrinkToFit(x)
<1>1. ASSUME NEW n \in Width, reserve(x, n) PROVE String!Reserve(x, n)
  <2>1. n \in Nat
    BY WidthType
  <2>2. CASE Refuses(x, blocks_for(n), n) /\ refused("reserve", x, <<n>>)
    BY <2>1, <2>2, RefusedIsWider, ReturnedIsDoes DEF String!Reserve
  <2>3. CASE call' = Returned("reserve", x, <<n>>, NoResult) /\ UNCHANGED <<m_size, m_count, m_blocks>>
    BY <2>3, UnwrittenIsNone, ReturnedIsDoes DEF String!Reserve
  <2> QED
    BY <1>1, <2>2, <2>3 DEF reserve
<1>2. ASSUME shrink_to_fit(x) PROVE String!ShrinkToFit(x)
  BY <1>2, UnwrittenIsNone, ReturnedIsDoes DEF shrink_to_fit, String!ShrinkToFit
<1> QED
  BY <1>1, <1>2

(***************************************************************************)
(* Whole blocks, and the other container.                                  *)
(***************************************************************************)
LEMMA ExchangeSteps ==
    ASSUME TypeOK, UnusedBitsClear, NEW x \in Obj
    PROVE  /\ \A k \in 0 .. MaxBlocks : \A b \in Storage(k) : replace(x, b) => String!Replace(x)
           /\ extract(x) => String!Extract(x)
           /\ \A b \in Storage(num_blocks(m_blocks[x])) : write_blocks(x, b) => String!WriteBlocks(x)
<1> DEFINE size == m_size[x]
           kx == blocks_for(size)
<1>0. size \in Nat /\ kx \in Nat /\ num_blocks(m_blocks[x]) = kx
  BY StringBefore, BlocksType
<1>1. ASSUME NEW k \in 0 .. MaxBlocks, NEW b \in Storage(k), replace(x, b)
      PROVE  String!Replace(x)
  <2> DEFINE n == k * bits_per_block
             S == Positions(b)
  <2>1. k \in Nat /\ num_bits(b) = n /\ n \in Nat
    BY NumBlocks, WholeWidth, MaxBlocksAssumption
  <2>2. k \in Width
    <3>1. MaxBlocks * bits_per_block >= MaxBlocks
      BY MaxBlocksAssumption, BitsPerBlockAssumption
    <3>2. MaxBlocks * bits_per_block \in Nat
      BY WholeWidth, MaxBlocksAssumption
    <3> DEFINE extent == MaxBlocks * bits_per_block
    <3> HIDE DEF extent
    <3>3. k \in 0 .. extent + 1
      BY <2>1, <3>1, <3>2, MaxBlocksAssumption DEF extent
    <3> QED
      BY <3>3 DEF Width, extent
  <2>3. S \in SUBSET (0 .. n - 1)
    BY <2>1 DEF Positions
  <2>4. store(x, n, count_blocks(b), b) /\ call' = Returned("replace", x, <<n, S>>, NoResult)
    BY <1>1, <2>1 DEF replace
  <2>5. call'.op = "replace" /\ String!Does("replace", x, <<n, S>>)
    BY <2>4, ReturnedIsDoes
  <2>6. n \in {j * bits_per_block : j \in Width}
    BY <2>2
  <2> HIDE DEF n, S
  <2>7. String!Value(x, n, S)
    BY <2>4, StoreIsValue DEF S
  <2> QED
    BY <2>3, <2>5, <2>6, <2>7 DEF String!Replace
<1>2. ASSUME extract(x) PROVE String!Extract(x)
  <2>1. Positions(no_blocks) = {}
    <3>1. 0 \in Nat /\ no_blocks \in Storage(0)
      BY DEF no_blocks, Storage
    <3>2. Span(0) = {}
      BY BitsPerBlockAssumption DEF Span
    <3> QED
      BY <3>1, <3>2, PositionsBelow
  <2>2. String!Value(x, 0, {})
    BY <1>2, <2>1, StoreIsValue DEF extract
  <2>3. call' = String!Returned("extract", x, <<>>, Positions(m_blocks[x]))
    BY <1>2, ReturnedIsDoes DEF extract
  <2> QED
    BY <2>2, <2>3 DEF String!Extract
<1>3. ASSUME NEW b \in Storage(num_blocks(m_blocks[x])), write_blocks(x, b)
      PROVE  String!WriteBlocks(x)
  <2> DEFINE S == Positions(b)
             extent == kx * bits_per_block
  <2>1. b \in Storage(kx)
    BY <1>0
  <2>2. extent \in Nat /\ extent < size + bits_per_block /\ S \subseteq 0 .. extent - 1
    BY <1>0, <2>1, StringBefore, WholeWidth, PositionsBelow DEF Span
  <2>3. S \in SUBSET (0 .. (size + bits_per_block) - 1) /\ S \subseteq Nat
    <3> HIDE DEF extent, S
    <3> QED
      BY <1>0, <2>2, BitsPerBlockAssumption
  <2>4. Positions(erase_unused(b, size)) = S \cap (0 .. size - 1)
    <3>1. Positions(erase_unused(b, size)) = {p \in S : p < size}
      BY <1>0, <2>1, ErasedPositions
    <3> QED
      BY <1>0, <2>3, <3>1
  <2> HIDE DEF S
  <2>5. String!Bits(x, S \cap (0 .. size - 1))
    BY <1>3, <2>4, WriteIsBits DEF write_blocks
  <2>6. call'.op = "write_blocks" /\ String!Does("write_blocks", x, <<S>>)
    BY <1>3, ReturnedIsDoes DEF write_blocks, S
  <2>7. String!Bits(x, S \cap String!Pos(x))
    BY <2>5 DEF String!Pos
  <2>8. S \in SUBSET (0 .. m_size[x] + bits_per_block - 1)
    <3> HIDE DEF extent, kx
    <3> QED
      BY <1>0, <2>3, BitsPerBlockAssumption
  <2> QED
    BY <2>6, <2>7, <2>8 DEF String!WriteBlocks
<1> QED
  BY <1>1, <1>2, <1>3

\* Copy, move and swap exchange whole bit strings; what a moved-from one holds is none.
LEMMA AssignSteps ==
    ASSUME TypeOK, UnusedBitsClear, NEW x \in Obj, NEW y \in Obj
    PROVE  /\ copy_assign(x, y) => String!CopyAssign(x, y)
           /\ move_assign(x, y) => String!MoveAssign(x, y)
           /\ swap(x, y) => String!Swap(x, y)
<1>1. ASSUME copy_assign(x, y) PROVE String!CopyAssign(x, y)
  <2>1. CASE /\ num_blocks(m_blocks[y]) > capacity[x]
             /\ Kind = "dynamic" /\ refused("copy_assign", x, <<y>>)
    <3>1. m_size[y] \in Nat /\ num_blocks(m_blocks[y]) = blocks_for(m_size[y])
      BY BlocksType
    <3>2. m_size[y] > m_size[x]
      BY <2>1, <3>1, RefusedIsWider DEF Refuses
    <3> QED
      BY <2>1, <3>2, ReturnedIsDoes DEF String!CopyAssign
  <2>2. CASE /\ store(x, m_size[y], m_count[y], m_blocks[y])
             /\ call' = Returned("copy_assign", x, <<y>>, NoResult)
    BY <2>2, StoreIsValue, ReturnedIsDoes DEF String!CopyAssign
  <2> QED
    BY <1>1, <2>1, <2>2 DEF copy_assign
<1>2. ASSUME move_assign(x, y) PROVE String!MoveAssign(x, y)
  <2>1. CASE x = y \/ ~has_stored_size
    <3>1. store(x, m_size[y], m_count[y], m_blocks[y])
      BY <1>2, <2>1 DEF move_assign
    <3>2. String!Value(x, m_size[y], Positions(m_blocks[y]))
      BY <3>1, StoreIsValue
    <3> QED
      BY <1>2, <2>1, <3>2, ReturnedIsDoes DEF move_assign, String!MoveAssign
  <2>2. CASE ~(x = y \/ ~has_stored_size)
    <3>1. Positions(no_blocks) = {}
      <4>1. 0 \in Nat /\ no_blocks \in Storage(0)
        BY DEF no_blocks, Storage
      <4>2. Span(0) = {}
        BY BitsPerBlockAssumption DEF Span
      <4> QED
        BY <4>1, <4>2, PositionsBelow
    <3>2. \A z \in Obj :
             m_blocks'[z] = IF z = y THEN no_blocks ELSE IF z = x THEN m_blocks[y] ELSE m_blocks[z]
      BY <1>2, <2>2 DEF move_assign, TypeOK
    <3>3. [z \in Obj |-> Positions(m_blocks'[z])] =
              [[z \in Obj |-> Positions(m_blocks[z])]
                  EXCEPT ![x] = [z \in Obj |-> Positions(m_blocks[z])][y], ![y] = {}]
      BY <3>1, <3>2
    <3>4. m_size' = [m_size EXCEPT ![x] = m_size[y], ![y] = 0]
      BY <1>2, <2>2 DEF move_assign
    <3> QED
      BY <1>2, <2>2, <3>3, <3>4, ReturnedIsDoes DEF move_assign, String!MoveAssign
  <2> QED
    BY <2>1, <2>2
<1>3. ASSUME swap(x, y) PROVE String!Swap(x, y)
  <2>1. \A z \in Obj :
           m_blocks'[z] = IF z = y THEN m_blocks[x] ELSE IF z = x THEN m_blocks[y] ELSE m_blocks[z]
    BY <1>3 DEF swap, TypeOK
  <2>2. [z \in Obj |-> Positions(m_blocks'[z])] =
            [[z \in Obj |-> Positions(m_blocks[z])]
                EXCEPT ![x] = [z \in Obj |-> Positions(m_blocks[z])][y],
                       ![y] = [z \in Obj |-> Positions(m_blocks[z])][x]]
    BY <2>1
  <2> QED
    BY <1>3, <2>2, ReturnedIsDoes DEF swap, String!Swap
<1> QED
  BY <1>1, <1>2, <1>3

\* Growth to admit stops at the highest position of the other.
LEMMA GrowToAdmitSteps ==
    ASSUME TypeOK, UnusedBitsClear, NEW x \in Obj, NEW y \in Obj, grow_to_admit(x, y)
    PROVE  String!GrowToAdmit(x, y)
<1> DEFINE P == Positions(m_blocks[x])
           Q == Positions(m_blocks[y])
           back == find_back(m_blocks[y])
           n == back + 1
           size == m_size[x]
<1>0. /\ size \in Nat /\ P \subseteq 0 .. size - 1
      /\ blocks_for(m_size[y]) \in Nat /\ m_blocks[y] \in Storage(blocks_for(m_size[y]))
      /\ Q \subseteq 0 .. m_size[y] - 1
  BY StringBefore
<1>1. /\ any(m_blocks[y]) => back \in Q /\ \A p \in Q : p <= back
      /\ ~any(m_blocks[y]) => Q = {}
  BY <1>0, EndPositions, AnyPosition
<1>2. \A p \in P : p \in Nat /\ p < size
  BY <1>0
<1>3. \A p \in Q : p \in Nat
  BY <1>0
<1>4. /\ any(m_blocks[y]) /\ n > size /\ refused("grow_to_admit", x, <<y>>)
      \/ /\ any(m_blocks[y]) /\ n > size /\ resize_to(x, n, FALSE)
         /\ call' = Returned("grow_to_admit", x, <<y>>, NoResult)
      \/ /\ ~(any(m_blocks[y]) /\ n > size) /\ UNCHANGED contents
         /\ call' = Returned("grow_to_admit", x, <<y>>, NoResult)
  BY DEF grow_to_admit
<1> HIDE DEF back
<1>5. CASE any(m_blocks[y]) /\ n > size
  <2>1. back \in Q /\ back >= size /\ n \in Nat /\ \A p \in Q : p < n
    BY <1>0, <1>1, <1>3, <1>5
  <2>2. CASE refused("grow_to_admit", x, <<y>>)
    BY <2>1, <2>2, ReturnedIsDoes DEF String!GrowToAdmit
  <2>3. CASE resize_to(x, n, FALSE) /\ call' = Returned("grow_to_admit", x, <<y>>, NoResult)
    <3>1. String!Value(x, n, {p \in P : p < n})
      BY <2>1, <2>3, ResizeIsValue
    <3>2. {p \in P : p < n} = P
      <4>1. \A p \in P : p < n
        BY <1>0, <1>2, <1>5, <2>1
      <4> QED
        BY <4>1
    <3>3. n \in {size} \cup {p + 1 : p \in Q} /\ n - 1 = back /\ n >= size
      BY <1>0, <1>5, <2>1
    <3>4. String!Does("grow_to_admit", x, <<y>>) /\ String!Value(x, n, P)
      BY <2>3, <3>1, <3>2, ReturnedIsDoes
    <3> HIDE DEF n
    <3> QED
      BY <2>1, <3>3, <3>4 DEF String!GrowToAdmit
  <2> QED
    BY <1>4, <1>5, <2>2, <2>3
<1>6. CASE ~(any(m_blocks[y]) /\ n > size)
  <2>1. UNCHANGED contents /\ String!Does("grow_to_admit", x, <<y>>)
    BY <1>4, <1>6, ReturnedIsDoes
  <2>2. String!Value(x, size, P)
    BY <2>1, UnwrittenIsValue DEF contents
  <2>3. \A p \in Q : p < size
    BY <1>0, <1>1, <1>3, <1>6
  <2>4. size >= size /\ ~(size > size) /\ size \in {size} \cup {p + 1 : p \in Q}
    BY <1>0
  <2> QED
    BY <2>1, <2>2, <2>3, <2>4 DEF String!GrowToAdmit
<1> QED
  BY <1>5, <1>6

(***************************************************************************)
(* Writes to a position, to a range and to every position.                 *)
(***************************************************************************)
LEMMA WritePositionSteps ==
    ASSUME TypeOK, UnusedBitsClear, NEW x \in Obj, NEW n
    PROVE  /\ set(x, n) => String!Set(x, n)
           /\ reset(x, n) => String!Reset(x, n)
           /\ flip(x, n) => String!Flip(x, n)
           /\ insert(x, n) => String!Insert(x, n)
           /\ erase(x, n) => String!Erase(x, n)
<1> DEFINE b == m_blocks[x]
           P == Positions(b)
<1>0. ASSUME is_valid(x, n)
      PROVE  /\ String!Valid(x, n)
             /\ Bit(x, n) = (n \in P) /\ (~Bit(x, n)) = (n \notin P)
             /\ Positions(bit_set(b, n)) = P \cup {n}
             /\ Positions(bit_reset(b, n)) = P \ {n}
             /\ Positions(bit_flipped(b, n)) = IF n \in P THEN P \ {n} ELSE P \cup {n}
  <2>1. /\ b \in Storage(blocks_for(m_size[x])) /\ blocks_for(m_size[x]) \in Nat
        /\ n \in Span(blocks_for(m_size[x]))
    BY <1>0, StringBefore DEF is_valid
  <2>2. BitAt(b, n) <=> n \in P
    BY <2>1, PositionWrittenPositions
  <2>3. Bit(x, n) = (n \in P) /\ (~Bit(x, n)) = (n \notin P)
    BY <2>2 DEF Bit, BitAt
  <2> QED
    BY <1>0, <2>1, <2>3, PositionWrittenPositions DEF is_valid, String!Valid, String!Pos
<1> HIDE DEF P, b
<1>1. ASSUME set(x, n) PROVE String!Set(x, n)
  <2>1. String!Bits(x, P \cup {n})
    BY <1>0, <1>1, WriteIsBits DEF set, b
  <2> QED
    BY <1>0, <1>1, <2>1, ReturnedIsDoes DEF set, String!Set, P, b
<1>2. ASSUME reset(x, n) PROVE String!Reset(x, n)
  <2>1. String!Bits(x, P \ {n})
    BY <1>0, <1>2, WriteIsBits DEF reset, b
  <2> QED
    BY <1>0, <1>2, <2>1, ReturnedIsDoes DEF reset, String!Reset, P, b
<1>3. ASSUME flip(x, n) PROVE String!Flip(x, n)
  <2>1. String!Bits(x, IF n \in P THEN P \ {n} ELSE P \cup {n})
    BY <1>0, <1>3, WriteIsBits DEF flip, b
  <2> QED
    BY <1>0, <1>3, <2>1, ReturnedIsDoes DEF flip, String!Flip, P, b
<1>4. ASSUME insert(x, n) PROVE String!Insert(x, n)
  <2>1. String!Bits(x, P \cup {n})
    BY <1>0, <1>4, WriteIsBits DEF insert, b
  <2>2. call' = String!Returned("insert", x, <<n>>, n \notin P)
    BY <1>0, <1>4, ReturnedIsDoes DEF insert
  <2> QED
    BY <1>0, <1>4, <2>1, <2>2 DEF insert, String!Insert, P, b
<1>5. ASSUME erase(x, n) PROVE String!Erase(x, n)
  <2>1. String!Bits(x, P \ {n})
    BY <1>0, <1>5, WriteIsBits DEF erase, b
  <2>2. call' = String!Returned("erase", x, <<n>>, n \in P)
    <3>1. call' = Returned("erase", x, <<n>>, Bit(x, n)) /\ Bit(x, n) = (n \in P)
      BY <1>0, <1>5 DEF erase
    <3>2. call' = Returned("erase", x, <<n>>, n \in P)
      BY <3>1, Zenon
    <3> QED
      BY <3>2, ReturnedIsDoes
  <2> QED
    BY <1>0, <1>5, <2>1, <2>2 DEF erase, String!Erase, P, b
<1> QED
  BY <1>1, <1>2, <1>3, <1>4, <1>5

\* A drop removes the lowest, or the highest, position.
LEMMA DropSteps ==
    ASSUME TypeOK, UnusedBitsClear, NEW x \in Obj
    PROVE  /\ drop_front(x) => String!DropFront(x)
           /\ drop_back(x) => String!DropBack(x)
<1> DEFINE b == m_blocks[x]
           P == Positions(b)
<1>0. blocks_for(m_size[x]) \in Nat /\ b \in Storage(blocks_for(m_size[x]))
  BY StringBefore
<1>1. ASSUME drop_front(x) PROVE String!DropFront(x)
  <2> DEFINE p == find_front(b)
  <2>1. /\ p \in P /\ \A q \in P : p <= q
        /\ Positions(front_dropped(b)) = P \ {p}
    BY <1>0, <1>1, EndPositions DEF drop_front
  <2> HIDE DEF p
  <2>2. String!Bits(x, P \ {p})
    BY <1>1, <2>1, WriteIsBits DEF drop_front
  <2> QED
    BY <1>1, <2>1, <2>2, ReturnedIsDoes DEF drop_front, String!DropFront
<1>2. ASSUME drop_back(x) PROVE String!DropBack(x)
  <2> DEFINE p == find_back(b)
  <2>1. /\ p \in P /\ \A q \in P : q <= p
        /\ Positions(back_dropped(b)) = P \ {p}
    BY <1>0, <1>2, EndPositions DEF drop_back
  <2> HIDE DEF p
  <2>2. String!Bits(x, P \ {p})
    BY <1>2, <2>1, WriteIsBits DEF drop_back
  <2> QED
    BY <1>2, <2>1, <2>2, ReturnedIsDoes DEF drop_back, String!DropBack
<1> QED
  BY <1>1, <1>2

\* The writes to a range, to every position and to a block at a position.
LEMMA WriteManySteps ==
    ASSUME TypeOK, UnusedBitsClear, NEW x \in Obj
    PROVE  /\ \A n, len \in Width, value \in BOOLEAN :
                  set_range(x, n, len, value) => String!SetRange(x)
           /\ set_all(x) => String!SetAll(x)
           /\ reset_all(x) => String!ResetAll(x)
           /\ flip_all(x) => String!FlipAll(x)
           /\ \A n \in Width, value, mask \in Block :
                  write_block_at(x, n, value, mask) => String!WriteBlockAt(x)
<1> DEFINE b == m_blocks[x]
           P == Positions(b)
           size == m_size[x]
           k == blocks_for(size)
           extent == k * bits_per_block
<1>0. size \in Nat /\ k \in Nat /\ b \in Storage(k) /\ extent \in Nat /\ size <= extent
  BY StringBefore, WholeWidth
<1>1. ASSUME NEW n \in Width, NEW len \in Width, NEW value \in BOOLEAN, set_range(x, n, len, value)
      PROVE  String!SetRange(x)
  <2> DEFINE S == (P \ (n .. n + len - 1)) \cup {p \in n .. n + len - 1 : value}
  <2>1. n \in Nat /\ len \in Nat /\ n + len <= size
    BY <1>1, WidthType DEF set_range
  <2>2. Positions(range_set(b, n, len, value)) = S
    <3> HIDE DEF extent
    <3>1. n + len <= extent
      BY <1>0, <2>1
    <3> QED
      BY <1>0, <2>1, <3>1, RangeSetPositions DEF extent
  <2> HIDE DEF S
  <2>3. String!Bits(x, S)
    BY <1>1, <2>2, WriteIsBits DEF set_range
  <2>4. call'.op = "set_range" /\ String!Does("set_range", x, <<n, len, value>>)
    BY <1>1, ReturnedIsDoes DEF set_range
  <2> QED
    BY <2>1, <2>3, <2>4 DEF String!SetRange, S
<1>2. /\ Positions(all_set(b, size)) = 0 .. size - 1
      /\ Positions(all_reset(b)) = {}
      /\ Positions(all_flipped(b, size)) = (0 .. size - 1) \ P
  BY <1>0, WholeWrittenPositions
<1>3. ASSUME set_all(x) PROVE String!SetAll(x)
  <2>1. String!Bits(x, 0 .. size - 1)
    BY <1>2, <1>3, WriteIsBits DEF set_all
  <2> QED
    BY <1>3, <2>1, ReturnedIsDoes DEF set_all, String!SetAll, String!Pos
<1>4. ASSUME reset_all(x) PROVE String!ResetAll(x)
  <2>1. String!Bits(x, {})
    BY <1>2, <1>4, WriteIsBits DEF reset_all
  <2> QED
    BY <1>4, <2>1, ReturnedIsDoes DEF reset_all, String!ResetAll
<1>5. ASSUME flip_all(x) PROVE String!FlipAll(x)
  <2>1. String!Bits(x, (0 .. size - 1) \ P)
    BY <1>2, <1>5, WriteIsBits DEF flip_all
  <2> QED
    BY <1>5, <2>1, ReturnedIsDoes DEF flip_all, String!FlipAll, String!Pos
<1>6. ASSUME NEW n \in Width, NEW value \in Block, NEW mask \in Block,
             write_block_at(x, n, value, mask)
      PROVE  String!WriteBlockAt(x)
  <2> DEFINE named == {n + o : o \in mask}
             S == (P \ named) \cup {n + o : o \in value \cap mask}
  <2>1. n \in Nat /\ n < size
    BY <1>0, <1>6 DEF write_block_at, is_valid
  <2>2. \A o \in mask : o \in Nat /\ o < bits_per_block
    BY BitsPerBlockAssumption DEF Block, Offset
  <2>3. \A o \in mask : n + o < size
    <3>1. CASE n + bits_per_block <= size
      BY <1>0, <2>1, <2>2, <3>1, BitsPerBlockAssumption
    <3>2. CASE shr(mask, size - n) = zero
      <4> DEFINE d == size - n
      <4>1. d \in Nat /\ size = n + d
        BY <1>0, <2>1
      <4> HIDE DEF d
      <4>2. shr(mask, d) = {}
        BY <3>2 DEF d, zero
      <4>3. ASSUME NEW o \in mask, o >= d PROVE FALSE
        <5>1. o - d \in Offset /\ (o - d) + d = o
          BY <2>2, <4>1, <4>3, BitsPerBlockAssumption DEF Offset
        <5> QED
          BY <4>2, <5>1 DEF shr
      <4> QED
        BY <2>1, <2>2, <4>1, <4>3
    <3> QED
      BY <1>6, <3>1, <3>2 DEF write_block_at
  <2>4. Positions(written_at(b, n, value, mask)) = S
    <3> HIDE DEF extent
    <3>1. n < extent /\ \A o \in mask : n + o < extent
      BY <1>0, <2>1, <2>2, <2>3
    <3> QED
      BY <1>0, <2>1, <3>1, WrittenAtPositions DEF extent
  <2>5. named \subseteq 0 .. size - 1
    BY <1>0, <2>1, <2>2, <2>3
  <2>6. value \in SUBSET (0 .. bits_per_block - 1) /\ mask \in SUBSET (0 .. bits_per_block - 1)
    BY DEF Block, Offset
  <2> HIDE DEF S
  <2>7. String!Bits(x, S)
    BY <1>6, <2>4, WriteIsBits DEF write_block_at
  <2>8. call'.op = "write_block_at" /\ String!Does("write_block_at", x, <<n, value, mask>>)
    BY <1>6, ReturnedIsDoes DEF write_block_at
  <2> QED
    BY <2>5, <2>6, <2>7, <2>8 DEF String!WriteBlockAt, String!Pos, S
<1> QED
  BY <1>1, <1>3, <1>4, <1>5, <1>6

(***************************************************************************)
(* Shifts, rotation and reversal.                                          *)
(***************************************************************************)
LEMMA MoveSteps ==
    ASSUME TypeOK, UnusedBitsClear, NEW x \in Obj
    PROVE  /\ \A n \in Width : shift_up(x, n) => String!ShiftUp(x, n)
           /\ \A n \in Width : shift_down(x, n) => String!ShiftDown(x, n)
           /\ \A n \in Width : rotate(x, n) => String!Rotate(x, n)
           /\ reverse(x) => String!Reverse(x)
<1> DEFINE b == m_blocks[x]
           P == Positions(b)
           size == m_size[x]
           k == blocks_for(size)
           extent == k * bits_per_block
<1>0. /\ size \in Nat /\ k \in Nat /\ b \in Storage(k) /\ TailClear(b, size)
      /\ P \subseteq 0 .. size - 1 /\ extent \in Nat /\ size <= extent
  BY StringBefore, WholeWidth
<1>1. \A p : p \in Span(k) <=> p \in Nat /\ p < extent
  BY <1>0 DEF Span
<1> HIDE DEF extent
<1>2. ASSUME NEW n \in Width, shift_up(x, n) PROVE String!ShiftUp(x, n)
  <2> DEFINE S == {p \in 0 .. size - 1 : p - n \in P}
             c == shifted_up(b, n)
  <2>1. n \in Nat
    BY WidthType
  <2>2. Positions(c) = {p \in Span(k) : p - n \in P} /\ c \in Storage(k)
    BY <1>0, <2>1, ShiftedUpPositions, ShiftedType
  <2>3. Positions(erase_unused(c, size)) = {p \in Positions(c) : p < size}
    BY <1>0, <2>2, ErasedPositions
  <2>4. Positions(erase_unused(c, size)) = S
    <3> HIDE DEF P, c
    <3>1. \A p : p \in Span(k) /\ p < size <=> p \in 0 .. size - 1
      BY <1>0, <1>1
    <3> QED
      BY <2>2, <2>3, <3>1
  <2> HIDE DEF S, c
  <2>5. String!Bits(x, S)
    BY <1>2, <2>4, WriteIsBits DEF shift_up, c
  <2> QED
    BY <1>2, <2>5, ReturnedIsDoes DEF shift_up, String!ShiftUp, String!Pos, S
<1>3. ASSUME NEW n \in Width, shift_down(x, n) PROVE String!ShiftDown(x, n)
  <2> DEFINE S == {p \in 0 .. size - 1 : p + n \in P}
             c == shifted_down(b, n)
  <2>1. n \in Nat
    BY WidthType
  <2>2. Positions(c) = {p \in Span(k) : p + n \in P}
    BY <1>0, <2>1, ShiftedDownPositions
  <2>3. Positions(c) = S
    <3> HIDE DEF P, c
    <3>1. \A q \in P : q \in Nat /\ q < size
      BY <1>0
    <3>2. ASSUME NEW p, p + n \in P PROVE p \in Span(k) <=> p \in 0 .. size - 1
      BY <1>0, <1>1, <2>1, <3>1, <3>2
    <3> QED
      BY <2>2, <3>2
  <2> HIDE DEF S, c
  <2>4. String!Bits(x, S)
    BY <1>3, <2>3, WriteIsBits DEF shift_down, c
  <2> QED
    BY <1>3, <2>4, ReturnedIsDoes DEF shift_down, String!ShiftDown, String!Pos, S
<1>4. ASSUME NEW n \in Width, rotate(x, n) PROVE String!Rotate(x, n)
  <2> DEFINE S == {p \in 0 .. size - 1 : (p + n) % size \in P}
  <2>1. n \in Nat
    BY WidthType
  <2>2. Positions(rotated(b, size, n)) = S
    BY <1>0, <2>1, RotatedPositions
  <2> HIDE DEF S
  <2>3. String!Bits(x, S)
    BY <1>4, <2>2, WriteIsBits DEF rotate
  <2> QED
    BY <1>4, <2>3, ReturnedIsDoes DEF rotate, String!Rotate, String!Pos, S
<1>5. ASSUME reverse(x) PROVE String!Reverse(x)
  <2> DEFINE S == {p \in 0 .. size - 1 : size - 1 - p \in P}
  <2>1. Positions(end_for_end(b, size)) = S
    BY <1>0, EndForEndPositions
  <2> HIDE DEF S
  <2>2. String!Bits(x, S)
    BY <1>5, <2>1, WriteIsBits DEF reverse
  <2> QED
    BY <1>5, <2>2, ReturnedIsDoes DEF reverse, String!Reverse, String!Pos, S
<1> QED
  BY <1>2, <1>3, <1>4, <1>5

(***************************************************************************)
(* The compound operators and the elementwise kernels.                     *)
(***************************************************************************)
\* The blocks a container lacks hold none of its positions.
LEMMA PaddedPositions ==
    ASSUME NEW k \in Nat, NEW b \in Storage(k), NEW i \in Nat, NEW o \in Offset
    PROVE  o \in padded_block(b, i) <=> At(i, o) \in Positions(b)
<1>1. num_blocks(b) = k
  BY NumBlocks
<1>2. CASE i < k
  <2>1. i \in 0 .. k - 1
    BY <1>2
  <2> QED
    BY <1>1, <1>2, <2>1, PositionIff DEF padded_block
<1>3. CASE ~(i < k)
  <2> DEFINE extent == k * bits_per_block
  <2>1. At(i, o) >= extent
    <3>1. i * bits_per_block >= k * bits_per_block /\ i * bits_per_block \in Nat
      BY <1>3, BitsPerBlockAssumption
    <3> DEFINE ib == i * bits_per_block
    <3>2. At(i, o) = ib + o
      BY DEF At
    <3>3. extent \in Nat
      BY WholeWidth
    <3> HIDE DEF ib, extent
    <3> QED
      BY <3>1, <3>2, <3>3, BitsPerBlockAssumption DEF Offset, ib, extent
  <2>2. \A p \in Positions(b) : p \in Nat /\ p < extent
    <3>1. extent \in Nat /\ Positions(b) \subseteq 0 .. extent - 1
      BY WholeWidth, PositionsBelow DEF Span
    <3> HIDE DEF extent
    <3> QED
      BY <3>1
  <2>3. extent \in Nat /\ At(i, o) \in Nat
    BY WholeWidth, AtUnique
  <2> HIDE DEF extent
  <2>4. At(i, o) \notin Positions(b)
    BY <2>1, <2>2, <2>3
  <2> QED
    BY <1>1, <1>3, <2>4 DEF padded_block, zero
<1> QED
  BY <1>2, <1>3

\* Combining blocks combines positions, one to one: those the other has past
\* the blocks of this container are lost, which is why it must admit them.
LEMMA CombinedPositions ==
    ASSUME TypeOK, UnusedBitsClear, NEW x \in Obj, NEW y \in Obj,
           NEW P, P = Positions(m_blocks[x]), NEW Q, Q = Positions(m_blocks[y])
    PROVE  /\ Positions(combined(x, y, "and_assign")) = P \cap Q
           /\ Positions(combined(x, y, "minus_assign")) = P \ Q
           /\ admits(x, y) => Positions(combined(x, y, "or_assign")) = P \cup Q
           /\ admits(x, y) => Positions(combined(x, y, "xor_assign")) = (P \ Q) \cup (Q \ P)
<1> DEFINE k == blocks_for(m_size[x])
           b == m_blocks[x]
<1>0. /\ k \in Nat /\ b \in Storage(k) /\ DOMAIN b = 0 .. k - 1
      /\ P \subseteq Span(k) /\ m_size[x] \in Nat
  BY StringBefore, NumBlocks, PositionsBelow
<1>1. blocks_for(m_size[y]) \in Nat /\ m_blocks[y] \in Storage(blocks_for(m_size[y]))
  BY StringBefore
<1>2. ASSUME NEW i \in 0 .. k - 1, NEW o \in Offset
      PROVE  /\ o \in b[i] <=> At(i, o) \in P
             /\ o \in padded_block(m_blocks[y], i) <=> At(i, o) \in Q
  BY <1>0, <1>1, PositionIff, PaddedPositions
<1>3. admits(x, y) => Q \subseteq Span(k)
  <2>1. \A n \in 0 .. m_size[x] - 1 : n \in Span(k)
    BY StringBefore
  <2>2. Q \subseteq Nat
    BY StringBefore
  <2>3. admits(x, y) => \A q \in Q : q < m_size[x]
    BY DEF admits
  <2> QED
    BY <1>0, <2>1, <2>2, <2>3
<1>4. ASSUME NEW op \in {"and_assign", "or_assign", "xor_assign", "minus_assign"}
      PROVE  /\ combined(x, y, op) \in Storage(k)
             /\ \A i \in 0 .. k - 1 :
                   combined(x, y, op)[i] = compound(op, b[i], padded_block(m_blocks[y], i))
  <2>1. \A i \in 0 .. k - 1 :
           combined(x, y, op)[i] = compound(op, b[i], padded_block(m_blocks[y], i))
    BY <1>0 DEF combined
  <2>2. \A i \in 0 .. k - 1 : b[i] \in Block /\ padded_block(m_blocks[y], i) \in Block
    <3>1. \A i \in 0 .. k - 1 : b[i] \in Block
      BY <1>0 DEF Storage
    <3>2. DOMAIN m_blocks[y] = 0 .. blocks_for(m_size[y]) - 1
          /\ num_blocks(m_blocks[y]) = blocks_for(m_size[y])
      BY <1>1, NumBlocks
    <3>3. \A i \in DOMAIN m_blocks[y] : m_blocks[y][i] \in Block
      BY <1>1, <3>2 DEF Storage
    <3>4. zero \in Block
      BY BlockOperators
    <3>5. ASSUME NEW i \in 0 .. k - 1 PROVE padded_block(m_blocks[y], i) \in Block
      <4>1. i < num_blocks(m_blocks[y]) => i \in DOMAIN m_blocks[y]
        BY <1>1, <3>2
      <4> QED
        BY <3>3, <3>4, <4>1 DEF padded_block
    <3> QED
      BY <3>1, <3>5
  <2>3. \A lhs, rhs \in Block : compound(op, lhs, rhs) \in Block
    BY BlockOperators DEF compound
  <2>4. \A i \in 0 .. k - 1 : combined(x, y, op)[i] \in Block
    BY <2>1, <2>2, <2>3
  <2>5. combined(x, y, op) = [i \in 0 .. k - 1 |-> combined(x, y, op)[i]]
    BY <1>0 DEF combined
  <2> HIDE DEF k
  <2> QED
    BY <2>1, <2>4, <2>5 DEF Storage
<1>5. \A lhs, rhs, o : /\ o \in compound("and_assign", lhs, rhs) <=> o \in lhs /\ o \in rhs
                       /\ o \in compound("or_assign", lhs, rhs) <=> o \in lhs \/ o \in rhs
                       /\ o \in compound("xor_assign", lhs, rhs) <=>
                              (o \in lhs /\ o \notin rhs) \/ (o \in rhs /\ o \notin lhs)
                       /\ o \in Offset => (o \in compound("minus_assign", lhs, rhs) <=> o \in lhs /\ o \notin rhs)
  BY DEF compound, bit_xor, complement, ones
<1> HIDE DEF k, b
<1>6. Positions(combined(x, y, "and_assign")) = P \cap Q
  <2> DEFINE c == combined(x, y, "and_assign")
             S == P \cap Q
  <2>1. c \in Storage(k) /\ S \in SUBSET Span(k)
    BY <1>0, <1>4
  <2>2. \A i \in 0 .. k - 1, o \in Offset : o \in c[i] <=> At(i, o) \in S
    BY <1>2, <1>4, <1>5
  <2> HIDE DEF c, S
  <2>3. Positions(c) = S
    BY <1>0, <2>1, <2>2, PositionsAre
  <2> QED
    BY <2>3 DEF c, S
<1>7. Positions(combined(x, y, "minus_assign")) = P \ Q
  <2> DEFINE c == combined(x, y, "minus_assign")
             S == P \ Q
  <2>1. c \in Storage(k) /\ S \in SUBSET Span(k)
    BY <1>0, <1>4
  <2>2. \A i \in 0 .. k - 1, o \in Offset : o \in c[i] <=> At(i, o) \in S
    BY <1>2, <1>4, <1>5
  <2> HIDE DEF c, S
  <2>3. Positions(c) = S
    BY <1>0, <2>1, <2>2, PositionsAre
  <2> QED
    BY <2>3 DEF c, S
<1>8. ASSUME admits(x, y) PROVE Positions(combined(x, y, "or_assign")) = P \cup Q
  <2> DEFINE c == combined(x, y, "or_assign")
             S == P \cup Q
  <2>1. c \in Storage(k) /\ S \in SUBSET Span(k)
    BY <1>0, <1>3, <1>4, <1>8
  <2>2. \A i \in 0 .. k - 1, o \in Offset : o \in c[i] <=> At(i, o) \in S
    BY <1>2, <1>4, <1>5
  <2> HIDE DEF c, S
  <2>3. Positions(c) = S
    BY <1>0, <2>1, <2>2, PositionsAre
  <2> QED
    BY <2>3 DEF c, S
<1>9. ASSUME admits(x, y)
      PROVE  Positions(combined(x, y, "xor_assign")) = (P \ Q) \cup (Q \ P)
  <2> DEFINE c == combined(x, y, "xor_assign")
             S == (P \ Q) \cup (Q \ P)
  <2>1. c \in Storage(k) /\ S \in SUBSET Span(k)
    BY <1>0, <1>3, <1>4, <1>9
  <2>2. \A i \in 0 .. k - 1, o \in Offset : o \in c[i] <=> At(i, o) \in S
    BY <1>2, <1>4, <1>5
  <2> HIDE DEF c, S
  <2>3. Positions(c) = S
    BY <1>0, <2>1, <2>2, PositionsAre
  <2> QED
    BY <2>3 DEF c, S
<1> QED
  BY <1>6, <1>7, <1>8, <1>9

\* The compound operators are those of sets, the other wider or narrower.
LEMMA CombineSteps ==
    ASSUME TypeOK, UnusedBitsClear, NEW x \in Obj, NEW y \in Obj
    PROVE  /\ and_assign(x, y) => String!AndAssign(x, y)
           /\ minus_assign(x, y) => String!MinusAssign(x, y)
           /\ admits(x, y) /\ or_assign(x, y) => String!OrAssign(x, y)
           /\ admits(x, y) /\ xor_assign(x, y) => String!XorAssign(x, y)
<1> DEFINE P == Positions(m_blocks[x])
           Q == Positions(m_blocks[y])
<1>1. /\ Positions(combined(x, y, "and_assign")) = P \cap Q
      /\ Positions(combined(x, y, "minus_assign")) = P \ Q
      /\ admits(x, y) => Positions(combined(x, y, "or_assign")) = P \cup Q
      /\ admits(x, y) => Positions(combined(x, y, "xor_assign")) = (P \ Q) \cup (Q \ P)
  BY CombinedPositions
<1> HIDE DEF P, Q
<1>2. ASSUME and_assign(x, y) PROVE String!AndAssign(x, y)
  <2>1. String!Bits(x, P \cap Q)
    BY <1>1, <1>2, WriteIsBits DEF and_assign, combine
  <2> QED
    BY <1>2, <2>1, ReturnedIsDoes DEF and_assign, combine, String!AndAssign, P, Q
<1>3. ASSUME minus_assign(x, y) PROVE String!MinusAssign(x, y)
  <2>1. String!Bits(x, P \ Q)
    BY <1>1, <1>3, WriteIsBits DEF minus_assign, combine
  <2> QED
    BY <1>3, <2>1, ReturnedIsDoes DEF minus_assign, combine, String!MinusAssign, P, Q
<1>4. ASSUME admits(x, y), or_assign(x, y) PROVE String!OrAssign(x, y)
  <2>1. String!Bits(x, P \cup Q)
    BY <1>1, <1>4, WriteIsBits DEF or_assign, combine
  <2> QED
    BY <1>4, <2>1, ReturnedIsDoes DEF or_assign, combine, String!OrAssign, P, Q
<1>5. ASSUME admits(x, y), xor_assign(x, y) PROVE String!XorAssign(x, y)
  <2>1. String!Bits(x, (P \ Q) \cup (Q \ P))
    BY <1>1, <1>5, WriteIsBits DEF xor_assign, combine
  <2> QED
    BY <1>5, <2>1, ReturnedIsDoes DEF xor_assign, combine, String!XorAssign, P, Q
<1> QED
  BY <1>2, <1>3, <1>4, <1>5

\* An elementwise kernel is its truth table at every position of the width.
LEMMA TransformSteps ==
    ASSUME TypeOK, UnusedBitsClear, NEW x \in Obj, NEW y \in Obj, NEW f \in Kernel, transform(x, y, f)
    PROVE  String!Transform(x, y, f)
<1> DEFINE size == m_size[x]
           k == blocks_for(size)
           b == m_blocks[x]
           d == m_blocks[y]
           P == Positions(b)
           Q == Positions(d)
           c == transformed(x, y, f)
           S == {p \in Span(k) : String!Holds(f, p \in P, p \in Q)}
           R == {p \in 0 .. size - 1 : String!Holds(f, p \in P, p \in Q)}
<1>0. /\ size = m_size[y] /\ size \in Nat /\ k \in Nat /\ b \in Storage(k) /\ d \in Storage(k)
      /\ DOMAIN b = 0 .. k - 1
  BY StringBefore, NumBlocks DEF transform
<1>1. c \in Storage(k)
  BY TransformedType DEF transform
<1>2. \A lhs, rhs : \A o \in Offset : o \in kernel(f, lhs, rhs) <=> String!Holds(f, o \in lhs, o \in rhs)
  BY DEF kernel, Kernel, String!Holds, bit_xor, complement, ones
<1>3. ASSUME NEW i \in 0 .. k - 1, NEW o \in Offset
      PROVE  o \in c[i] <=> At(i, o) \in S
  <2>1. o \in c[i] <=> String!Holds(f, o \in b[i], o \in d[i])
    BY <1>0, <1>2 DEF transformed
  <2>2. (At(i, o) \in P <=> o \in b[i]) /\ (At(i, o) \in Q <=> o \in d[i]) /\ At(i, o) \in Span(k)
    BY <1>0, PositionIff
  <2>3. (At(i, o) \in P) = (o \in b[i]) /\ (At(i, o) \in Q) = (o \in d[i])
    BY <2>2
  <2> HIDE DEF c, P, Q
  <2>4. String!Holds(f, At(i, o) \in P, At(i, o) \in Q) <=> String!Holds(f, o \in b[i], o \in d[i])
    BY <2>3 DEF String!Holds
  <2> QED
    BY <2>1, <2>2, <2>4
<1>4. Positions(c) = S
  <2>1. S \in SUBSET Span(k)
    OBVIOUS
  <2> HIDE DEF c, S, k
  <2> QED
    BY <1>0, <1>1, <1>3, <2>1, PositionsAre
<1>5. Positions(erase_unused(c, size)) = {p \in Positions(c) : p < size}
  BY <1>0, <1>1, ErasedPositions
<1>6. {p \in S : p < size} = R
  <2>1. \A p \in 0 .. size - 1 : p \in Span(k)
    BY StringBefore
  <2>2. Span(k) \subseteq Nat
    BY DEF Span
  <2> HIDE DEF k, P, Q
  <2> QED
    BY <1>0, <2>1, <2>2
<1> HIDE DEF c, S, R, P, Q
<1>7. String!Bits(x, R)
  BY <1>4, <1>5, <1>6, WriteIsBits DEF transform, c
<1> QED
  BY <1>0, <1>7, ReturnedIsDoes DEF transform, String!Transform, String!Pos, R, P, Q

(***************************************************************************)
(* The steps of Next, group by group.                                      *)
(***************************************************************************)
LEMMA GrowStep ==
    ASSUME TypeOK, UnusedBitsClear, NEW x \in Obj, Grow(x)
    PROVE  String!Next
<1>1. CASE \E n \in Width, value \in BOOLEAN : resize(x, n, value)
  <2> PICK n \in Width, value \in BOOLEAN : resize(x, n, value)
    BY <1>1
  <2>1. String!Resize(x, n, value)
    BY ResizeSteps
  <2>2. call'.op = "resize"
    BY DEF resize, refused, Returned, Threw
  <2> QED
    BY <2>1, <2>2 DEF String!Next, String!Is
<1>2. CASE \E value \in BOOLEAN : push_back(x, value)
  <2> PICK value \in BOOLEAN : push_back(x, value)
    BY <1>2
  <2>1. String!PushBack(x, value)
    BY ResizeSteps
  <2>2. call'.op = "push_back"
    BY DEF push_back, refused, Returned, Threw
  <2> QED
    BY <2>1, <2>2 DEF String!Next, String!Is
<1>3. CASE pop_back(x) \/ clear(x) \/ shrink_to_fit(x)
  BY <1>3, ResizeSteps, RoomSteps DEF String!Next
<1>4. CASE \E value \in Block : append(x, value)
  <2> PICK value \in Block : append(x, value)
    BY <1>4
  <2>1. String!Append(x, value) /\ value \in SUBSET (0 .. bits_per_block - 1)
    BY AppendSteps DEF Block, Offset
  <2>2. call'.op = "append"
    BY DEF append, refused, Returned, Threw
  <2> QED
    BY <2>1, <2>2 DEF String!Next, String!Is
<1>5. CASE \E n \in Width : growing_insert(x, n)
  <2> PICK n \in Width : growing_insert(x, n)
    BY <1>5
  <2>1. String!GrowingInsert(x, n)
    BY GrowingInsertSteps
  <2>2. call'.op = "growing_insert"
    <3>1. \/ call' = Threw("growing_insert", x, <<n>>)
          \/ \E result : call' = Returned("growing_insert", x, <<n>>, result)
      BY Zenon DEF growing_insert, refused
    <3> QED
      BY <3>1 DEF Returned, Threw
  <2> QED
    BY <2>1, <2>2 DEF String!Next, String!Is
<1>6. CASE \E n \in Width : reserve(x, n)
  <2> PICK n \in Width : reserve(x, n)
    BY <1>6
  <2>1. String!Reserve(x, n)
    BY RoomSteps
  <2>2. call'.op = "reserve"
    BY DEF reserve, refused, Returned, Threw
  <2> QED
    BY <2>1, <2>2 DEF String!Next, String!Is
<1> QED
  BY <1>1, <1>2, <1>3, <1>4, <1>5, <1>6 DEF Grow

\* Each whole-storage exchange is a step of the bit string.
LEMMA ExchangeStep ==
    ASSUME TypeOK, UnusedBitsClear, NEW x \in Obj, Exchange(x)
    PROVE  String!Next
<1>1. String!Replace(x) \/ String!Extract(x) \/ String!WriteBlocks(x)
  BY ExchangeSteps DEF Exchange
<1> QED
  BY <1>1 DEF String!Next

\* So is each write to positions.
LEMMA WriteStep ==
    ASSUME TypeOK, UnusedBitsClear, NEW x \in Obj, WritePosition(x) \/ WriteMany(x)
    PROVE  String!Next
<1>1. CASE \E n \in Width : set(x, n) \/ reset(x, n) \/ flip(x, n) \/ insert(x, n) \/ erase(x, n)
  <2> PICK n \in Width : set(x, n) \/ reset(x, n) \/ flip(x, n) \/ insert(x, n) \/ erase(x, n)
    BY <1>1
  <2>1. \/ String!Set(x, n) \/ String!Reset(x, n) \/ String!Flip(x, n)
        \/ String!Insert(x, n) \/ String!Erase(x, n)
    BY WritePositionSteps
  <2>2. call'.op \in {"set", "reset", "flip", "insert", "erase"}
    BY DEF set, reset, flip, insert, erase, Returned
  <2> QED
    BY <2>1, <2>2 DEF String!Next, String!Is
<1>2. CASE drop_front(x) \/ drop_back(x)
  BY <1>2, DropSteps DEF String!Next
<1>3. CASE WriteMany(x)
  <2>1. \/ String!SetRange(x) \/ String!SetAll(x) \/ String!ResetAll(x) \/ String!FlipAll(x)
        \/ String!WriteBlockAt(x)
    BY <1>3, WriteManySteps DEF WriteMany
  <2> QED
    BY <2>1 DEF String!Next
<1> QED
  BY <1>1, <1>2, <1>3 DEF WritePosition

\* So is each move of positions.
LEMMA MoveStep ==
    ASSUME TypeOK, UnusedBitsClear, NEW x \in Obj, Move(x)
    PROVE  String!Next
<1>1. CASE \E n \in Width : shift_up(x, n) \/ shift_down(x, n) \/ rotate(x, n)
  <2> PICK n \in Width : shift_up(x, n) \/ shift_down(x, n) \/ rotate(x, n)
    BY <1>1
  <2>1. String!ShiftUp(x, n) \/ String!ShiftDown(x, n) \/ String!Rotate(x, n)
    BY MoveSteps
  <2>2. call'.op \in {"shift_up", "shift_down", "rotate"}
    BY DEF shift_up, shift_down, rotate, Returned
  <2> QED
    BY <2>1, <2>2 DEF String!Next, String!Is
<1>2. CASE reverse(x)
  BY <1>2, MoveSteps DEF String!Next
<1> QED
  BY <1>1, <1>2 DEF Move

\* So is each call on two containers.
LEMMA PairwiseStep ==
    ASSUME TypeOK, UnusedBitsClear, NEW x \in Obj, NEW y \in Obj, Pairwise(x, y)
    PROVE  String!Next
<1>1. CASE \E f \in Kernel : transform(x, y, f)
  <2> PICK f \in Kernel : transform(x, y, f)
    BY <1>1
  <2>1. String!Transform(x, y, f)
    BY TransformSteps
  <2>2. call'.op = "transform"
    BY DEF transform, Returned
  <2> QED
    BY <2>1, <2>2 DEF String!Next, String!Is
<1>2. CASE ~(\E f \in Kernel : transform(x, y, f))
  <2>1. \/ String!CopyAssign(x, y) \/ String!MoveAssign(x, y) \/ String!Swap(x, y)
        \/ String!GrowToAdmit(x, y) \/ String!AndAssign(x, y) \/ String!MinusAssign(x, y)
        \/ String!OrAssign(x, y) \/ String!XorAssign(x, y)
    BY <1>2, AssignSteps, GrowToAdmitSteps, CombineSteps DEF Pairwise
  <2> QED
    BY <2>1 DEF String!Next
<1> QED
  BY <1>1, <1>2

\* Containers are constructed as strings of no ones.
LEMMA InitIsString ==
    ASSUME Init
    PROVE  String!Init
<1>1. TypeOK
  BY InitType
<1>2. ASSUME NEW x \in Obj PROVE m_size[x] \in Width /\ Positions(m_blocks[x]) = {}
  <2> DEFINE extent == MaxBlocks * bits_per_block
  <2>1. m_size[x] \in Nat /\ m_size[x] <= Ceiling /\ extent \in Nat
    BY <1>1, BlocksType, CeilingType, WholeWidth, MaxBlocksAssumption DEF TypeOK
  <2>2. Ceiling <= extent
    <3>1. CASE Kind = "dynamic"
      BY <3>1, <2>1 DEF Ceiling
    <3>2. CASE Kind # "dynamic"
      <4>1. N <= blocks_for(N) * bits_per_block
        BY NAssumption, BlocksForBounds
      <4> QED
        BY <3>2, <4>1, MaxBlocksAssumption DEF Ceiling
    <3> QED
      BY <3>1, <3>2
  <2>3. m_size[x] \in Width
    <3>1. Width = 0 .. extent + 1
      BY DEF Width
    <3> HIDE DEF extent
    <3>2. m_size[x] \in 0 .. extent + 1
      BY <2>1, <2>2, CeilingType
    <3> QED
      BY <3>1, <3>2
  <2>4. m_blocks[x] \in Storage(blocks_for(m_size[x])) /\ blocks_for(m_size[x]) \in Nat
    BY <1>1, BlocksType
  <2>5. ~any(m_blocks[x])
    BY DEF Init, any
  <2> QED
    BY <2>3, <2>4, <2>5, AnyPosition
<1>3. m_size \in [Obj -> Width]
  BY <1>1, <1>2 DEF TypeOK
<1>4. [x \in Obj |-> Positions(m_blocks[x])] = [x \in Obj |-> {}]
  BY <1>2
<1> QED
  BY <1>3, <1>4 DEF Init, String!Init

\* Every call of every container, for every kind of storage and every width of
\* a block, does to the width and the positions what the bit string does, and
\* answers what it answers; a refused call, and no other, leaves both alone.
THEOREM ContainerIsBitString == Spec => ImplementsBitString
<1>1. Init => String!Init
  BY InitIsString
<1>2. TypeOK /\ UnusedBitsClear /\ [Next]_vars => [String!Next]_String!vars
  <2> SUFFICES ASSUME TypeOK, UnusedBitsClear, [Next]_vars
               PROVE  String!Next \/ UNCHANGED String!vars
    OBVIOUS
  <2>1. CASE UNCHANGED vars
    <3>1. UNCHANGED <<m_size, m_blocks>> /\ UNCHANGED call
      BY <2>1 DEF vars
    <3> QED
      BY <3>1, UnwrittenIsNone DEF String!vars
  <2>2. CASE \E x \in Obj : Grow(x) \/ Exchange(x) \/ WritePosition(x) \/ WriteMany(x) \/ Move(x)
    BY <2>2, GrowStep, ExchangeStep, WriteStep, MoveStep
  <2>3. CASE \E x, y \in Obj : Pairwise(x, y)
    BY <2>3, PairwiseStep
  <2> QED
    BY <2>1, <2>2, <2>3 DEF Next
<1> QED
  BY <1>1, <1>2, TypeCorrect, UnusedBitsStayClear, PTL DEF Spec, ImplementsBitString, String!Spec

(***************************************************************************)
(* Reserved capacity.                                                      *)
(***************************************************************************)
\* The positions a container has room for without allocating.
Room(x) == IF Kind = "dynamic" THEN capacity[x] * bits_per_block ELSE N

\* As many blocks as were reserved hold every width within their positions.
LEMMA RefusedIsPastRoom ==
    ASSUME TypeOK, NEW x \in Obj, NEW n \in Nat, Refuses(x, blocks_for(n), n)
    PROVE  n > Room(x)
<1>1. capacity[x] \in Nat /\ blocks_for(n) \in Nat
  BY BlocksType, BlocksForBounds
<1>2. CASE ~check_capacity(n)
  BY <1>2, NAssumption DEF check_capacity, Room
<1>3. CASE Kind = "dynamic" /\ blocks_for(n) > capacity[x]
  <2> DEFINE extent == capacity[x] * bits_per_block
  <2>1. extent \in Nat /\ blocks_for(extent) = capacity[x]
    BY <1>1, BlocksForWhole, WholeWidth
  <2> HIDE DEF extent
  <2>2. n <= extent => blocks_for(n) <= blocks_for(extent)
    BY <2>1, BlocksForMonotone
  <2>3. n > extent
    BY <1>1, <1>3, <2>1, <2>2
  <2> QED
    BY <1>3, <2>3 DEF Room, extent
<1> QED
  BY <1>2, <1>3 DEF Refuses

\* A refusal in the words of the property: which call, of which container, and
\* what it asked for.
LEMMA ThrewFields ==
    ASSUME NEW op, NEW x, NEW args
    PROVE  /\ Threw(op, x, args).op = op /\ Threw(op, x, args).x = x
           /\ Threw(op, x, args).args = args
BY DEF Threw

\* A call that returned did not throw.
LEMMA ReturnedIsNoThrow ==
    ASSUME NEW op, NEW x, NEW args, NEW result, call' = Returned(op, x, args, result)
    PROVE  call'.outcome # "bad_alloc"
BY DEF Returned

\* The writes of one container's bits return: none of them allocates.
LEMMA WritesReturn ==
    ASSUME NEW x \in Obj, WritePosition(x) \/ WriteMany(x) \/ Move(x)
    PROVE  \E op, args, result : call' = Returned(op, x, args, result)
<1>1. CASE WritePosition(x)
  BY <1>1, Zenon DEF WritePosition, set, reset, flip, insert, erase, drop_front, drop_back
<1>2. CASE WriteMany(x)
  BY <1>2, Zenon DEF WriteMany, set_range, set_all, reset_all, flip_all, write_block_at
<1>3. CASE Move(x)
  BY <1>3, Zenon DEF Move, shift_up, shift_down, rotate, reverse
<1> QED
  BY <1>1, <1>2, <1>3

\* So do the exchanges of whole blocks.
LEMMA ExchangesReturn ==
    ASSUME NEW x \in Obj, Exchange(x)
    PROVE  \E op, args, result : call' = Returned(op, x, args, result)
BY Zenon DEF Exchange, replace, extract, write_blocks

\* And the calls on two containers that keep the width of the first, or take
\* over the allocation of the second.
LEMMA PairwiseReturns ==
    ASSUME NEW x \in Obj, NEW y \in Obj, Pairwise(x, y)
    PROVE  \/ copy_assign(x, y) \/ grow_to_admit(x, y)
           \/ \E op, args, result : call' = Returned(op, x, args, result)
BY Zenon DEF Pairwise, move_assign, swap, and_assign, minus_assign, or_assign, xor_assign,
             combine, transform

\* A growing call of one container that throws was refused past its room.
LEMMA GrowPromise ==
    ASSUME TypeOK, NEW x \in Obj, Grow(x), call'.outcome = "bad_alloc"
    PROVE  Asked > Room(call'.x)
<1> USE WidthType, ThrewFields, ReturnedIsNoThrow
<1>0. m_size[x] \in Nat
  BY BlocksType
<1>1. CASE \E n \in Width, value \in BOOLEAN : resize(x, n, value)
  <2> PICK n \in Width, value \in BOOLEAN : resize(x, n, value)
    BY <1>1
  <2>1. Refuses(x, blocks_for(n), n) /\ call' = Threw("resize", x, <<n, value>>)
    BY DEF resize, refused
  <2>2. Asked = n /\ call'.x = x
    BY <2>1 DEF Asked
  <2> QED
    BY <2>1, <2>2, RefusedIsPastRoom
<1>2. CASE \E value \in BOOLEAN : push_back(x, value)
  <2> PICK value \in BOOLEAN : push_back(x, value)
    BY <1>2
  <2>1. /\ Refuses(x, blocks_for(m_size[x] + 1), m_size[x] + 1)
        /\ call' = Threw("push_back", x, <<value>>)
    BY DEF push_back, refused
  <2>2. Asked = m_size[x] + 1 /\ call'.x = x /\ m_size[x] + 1 \in Nat
    BY <1>0, <2>1 DEF Asked
  <2> QED
    BY <2>1, <2>2, RefusedIsPastRoom
<1>3. CASE pop_back(x) \/ clear(x) \/ shrink_to_fit(x)
  <2>1. CASE pop_back(x)
    BY <2>1 DEF pop_back
  <2>2. CASE clear(x)
    BY <2>2 DEF clear
  <2>3. CASE shrink_to_fit(x)
    BY <2>3 DEF shrink_to_fit
  <2> QED
    BY <1>3, <2>1, <2>2, <2>3
<1>4. CASE \E value \in Block : append(x, value)
  <2> PICK value \in Block : append(x, value)
    BY <1>4
  <2> DEFINE n == m_size[x] + bits_per_block
  <2>1. /\ Refuses(x, num_blocks(m_blocks[x]) + 1, n)
        /\ call' = Threw("append", x, <<value>>)
    BY DEF append, refused
  <2>2. Asked = n /\ call'.x = x
    BY <2>1 DEF Asked
  <2>3. n \in Nat /\ blocks_for(n) = num_blocks(m_blocks[x]) + 1
    BY <1>0, BlocksType, BlocksForOneMore, BitsPerBlockAssumption
  <2> HIDE DEF n
  <2> QED
    BY <2>1, <2>2, <2>3, RefusedIsPastRoom
<1>5. CASE \E n \in Width : growing_insert(x, n)
  <2> PICK n \in Width : growing_insert(x, n)
    BY <1>5
  <2>1. /\ Refuses(x, blocks_for(n + 1), n + 1)
        /\ call' = Threw("growing_insert", x, <<n>>)
    <3>1. \/ /\ Refuses(x, blocks_for(n + 1), n + 1)
             /\ call' = Threw("growing_insert", x, <<n>>)
          \/ \E op, args, result : call' = Returned(op, x, args, result)
      BY Zenon DEF growing_insert, refused
    <3> QED
      BY <3>1, ReturnedIsNoThrow
  <2>2. Asked = n + 1 /\ call'.x = x /\ n + 1 \in Nat
    BY <2>1 DEF Asked
  <2> QED
    BY <2>1, <2>2, RefusedIsPastRoom
<1>6. CASE \E n \in Width : reserve(x, n)
  <2> PICK n \in Width : reserve(x, n)
    BY <1>6
  <2>1. Refuses(x, blocks_for(n), n) /\ call' = Threw("reserve", x, <<n>>)
    BY DEF reserve, refused
  <2>2. Asked = n /\ call'.x = x
    BY <2>1 DEF Asked
  <2> QED
    BY <2>1, <2>2, RefusedIsPastRoom
<1> QED
  BY <1>1, <1>2, <1>3, <1>4, <1>5, <1>6 DEF Grow

\* So was a call on two containers, asking for at most the width of the second.
LEMMA PairwisePromise ==
    ASSUME TypeOK, UnusedBitsClear, NEW x \in Obj, NEW y \in Obj, Pairwise(x, y),
           call'.outcome = "bad_alloc"
    PROVE  Asked > Room(call'.x)
<1> USE ThrewFields
<1>1. CASE copy_assign(x, y)
  <2>1. /\ Kind = "dynamic" /\ num_blocks(m_blocks[y]) > capacity[x]
        /\ call' = Threw("copy_assign", x, <<y>>)
    <3>1. \/ /\ Kind = "dynamic" /\ num_blocks(m_blocks[y]) > capacity[x]
             /\ call' = Threw("copy_assign", x, <<y>>)
          \/ \E op, args, result : call' = Returned(op, x, args, result)
      BY <1>1, Zenon DEF copy_assign, refused
    <3> QED
      BY <3>1, ReturnedIsNoThrow
  <2>2. m_size[y] \in Nat /\ num_blocks(m_blocks[y]) = blocks_for(m_size[y])
    BY BlocksType
  <2>3. Asked = m_size[y] /\ call'.x = x
    BY <2>1 DEF Asked
  <2>4. Refuses(x, blocks_for(m_size[y]), m_size[y])
    BY <2>1, <2>2 DEF Refuses
  <2> QED
    BY <2>2, <2>3, <2>4, RefusedIsPastRoom
<1>2. CASE grow_to_admit(x, y)
  <2> DEFINE n == find_back(m_blocks[y]) + 1
  <2>1. /\ any(m_blocks[y]) /\ Refuses(x, blocks_for(n), n)
        /\ call' = Threw("grow_to_admit", x, <<y>>)
    <3>1. \/ /\ any(m_blocks[y]) /\ Refuses(x, blocks_for(n), n)
             /\ call' = Threw("grow_to_admit", x, <<y>>)
          \/ \E op, args, result : call' = Returned(op, x, args, result)
      BY <1>2, Zenon DEF grow_to_admit, refused
    <3> QED
      BY <3>1, ReturnedIsNoThrow
  <2>2. Asked = m_size[y] /\ call'.x = x
    BY <2>1 DEF Asked
  <2>3. find_back(m_blocks[y]) \in 0 .. m_size[y] - 1 /\ m_size[y] \in Nat
    BY <2>1, StringBefore, EndPositions
  <2>4. n \in Nat /\ n <= m_size[y]
    BY <2>3
  <2> HIDE DEF n
  <2>5. n > Room(x) /\ Room(x) \in Int
    <3>1. Room(x) \in Int
      BY BlocksType, WholeWidth, NAssumption DEF Room
    <3> QED
      BY <2>1, <2>4, <3>1, RefusedIsPastRoom
  <2> QED
    BY <2>2, <2>3, <2>4, <2>5
<1>3. CASE ~(copy_assign(x, y) \/ grow_to_admit(x, y))
  BY <1>3, PairwiseReturns, ReturnedIsNoThrow
<1> QED
  BY <1>1, <1>2, <1>3

\* reserve is a promise: no call that asks for no more positions than the
\* capacity of its container ever throws, in any state a program can reach.
THEOREM ReserveIsAPromise == Spec => ReservedNeverThrows
<1>1. TypeOK /\ UnusedBitsClear /\ [Next]_vars =>
          [call'.outcome = "bad_alloc" /\ call'.op \in Growing =>
              Asked > IF Kind = "dynamic" THEN capacity[call'.x] * bits_per_block ELSE N]_vars
  <2> SUFFICES ASSUME TypeOK, UnusedBitsClear, Next, call'.outcome = "bad_alloc"
               PROVE  Asked > Room(call'.x)
    BY DEF Room
  <2>1. CASE \E x \in Obj : Grow(x)
    BY <2>1, GrowPromise
  <2>2. CASE \E x \in Obj : Exchange(x) \/ WritePosition(x) \/ WriteMany(x) \/ Move(x)
    BY <2>2, WritesReturn, ExchangesReturn, ReturnedIsNoThrow
  <2>3. CASE \E x, y \in Obj : Pairwise(x, y)
    BY <2>3, PairwisePromise
  <2> QED
    BY <2>1, <2>2, <2>3 DEF Next
<1> QED
  BY <1>1, TypeCorrect, UnusedBitsStayClear, PTL DEF Spec, ReservedNeverThrows

===============================================================================
