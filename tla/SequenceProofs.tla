--------------------------- MODULE SequenceProofs ---------------------------
(***************************************************************************)
(* The range modifiers of the sequence reading, proved for every block     *)
(* width, kind of storage, capacity, word, sequence, source and position:  *)
(* what a call that returns leaves, and what one that throws may not have  *)
(* touched, whichever allocation is refused and whichever element cannot   *)
(* be read.                                                                *)
(*                                                                         *)
(* The invariant says, of each place the code can be at, how much of the   *)
(* range the sequence holds already and where the rest of it waits; a step *)
(* of a loop moves the one boundary between the two.                       *)
(***************************************************************************)
EXTENDS MCSequenceAdaptor, BitBlockContainerProofs

(***************************************************************************)
(* What a call of the storage leaves: one sequence with a width and        *)
(* positions, every other with its own, and no capacity given up.          *)
(***************************************************************************)
Leaves(x, width, S) ==
    /\ TypeOK' /\ UnusedBitsClear'
    /\ Held(x)' = [width |-> width, bits |-> S]
    /\ \A y \in Obj \ {x} : Held(y)' = Held(y)
    /\ capacity[x] <= capacity'[x]
    /\ call'.outcome = "ok"

\* The call was refused, and has no effects.
Refused == call'.outcome = "bad_alloc" /\ UNCHANGED contents

\* A width that needs no allocation.
Room(x, n) == check_capacity(n) /\ (Kind = "dynamic" => blocks_for(n) <= capacity[x])

\* What every call starts from: the types, and no bit outside the width.
LEMMA HeldBefore ==
    ASSUME TypeOK, UnusedBitsClear, NEW x \in Obj
    PROVE  /\ m_size[x] \in Nat /\ blocks_for(m_size[x]) \in Nat
           /\ m_blocks[x] \in Storage(blocks_for(m_size[x]))
           /\ TailClear(m_blocks[x], m_size[x])
           /\ Held(x).width = m_size[x] /\ Held(x).bits = Positions(m_blocks[x])
           /\ Held(x).bits \subseteq 0 .. m_size[x] - 1
           /\ \A n \in 0 .. m_size[x] - 1 : n \in Span(blocks_for(m_size[x]))
           /\ m_size[x] <= blocks_for(m_size[x]) * bits_per_block
<1> DEFINE size == m_size[x]
           k == blocks_for(size)
           extent == k * bits_per_block
<1>1. /\ size \in Nat /\ k \in Nat /\ m_blocks[x] \in Storage(k)
      /\ TailClear(m_blocks[x], size) /\ extent \in Nat /\ size <= extent
  BY BlocksType, BlocksForBounds, WholeWidth DEF UnusedBitsClear
<1>2. Positions(m_blocks[x]) \subseteq 0 .. size - 1
  BY <1>1, ClearBelow
<1>3. \A n \in 0 .. size - 1 : n \in Span(k)
  <2>1. Span(k) = 0 .. extent - 1
    BY DEF Span
  <2> HIDE DEF extent, k
  <2> QED
    BY <1>1, <2>1
<1> QED
  BY <1>1, <1>2, <1>3 DEF Held

\* A width, or a position below it, is among those a caller asks for.
LEMMA WithinWidth ==
    ASSUME TypeOK, NEW x \in Obj, NEW n \in Int, 0 <= n, n <= m_size[x]
    PROVE  n \in Width
<1>1. m_size[x] \in 0 .. Ceiling /\ Ceiling \in Nat
  BY CeilingType DEF TypeOK
<1>2. MaxBlocks * bits_per_block \in Nat /\ Ceiling <= MaxBlocks * bits_per_block
  <2>1. MaxBlocks \in Nat /\ MaxBlocks * bits_per_block \in Nat
    BY MaxBlocksAssumption, WholeWidth
  <2>2. N <= blocks_for(N) * bits_per_block
    BY NAssumption, BlocksForBounds
  <2> QED
    BY <2>1, <2>2, MaxBlocksAssumption DEF Ceiling
<1> QED
  BY <1>1, <1>2 DEF Width

\* Members stored are a sequence left.
LEMMA StoreLeaves ==
    ASSUME TypeOK, NEW x \in Obj, NEW size, NEW count, NEW b, store(x, size, count, b),
           TypeOK', UnusedBitsClear', capacity[x] <= capacity'[x], call'.outcome = "ok"
    PROVE  Leaves(x, size, Positions(b))
<1>1. \A y \in Obj : /\ m_size'[y] = IF y = x THEN size ELSE m_size[y]
                     /\ m_blocks'[y] = IF y = x THEN b ELSE m_blocks[y]
  BY DEF store, TypeOK
<1> QED
  BY <1>1 DEF Leaves, Held

\* So are blocks written.
LEMMA WriteLeaves ==
    ASSUME TypeOK, NEW x \in Obj, NEW count, NEW b, write(x, count, b),
           TypeOK', UnusedBitsClear', call'.outcome = "ok"
    PROVE  Leaves(x, m_size[x], Positions(b))
<1>1. capacity[x] <= capacity'[x]
  BY BlocksType DEF write
<1> QED
  BY <1>1, StoreLeaves DEF write

\* An allocation granted gives up nothing.
LEMMA GrantedKeeps ==
    ASSUME TypeOK, NEW x \in Obj, NEW k \in Nat, reallocate(x, k)
    PROVE  capacity[x] <= capacity'[x]
<1>1. PICK c \in granted(x, k) : capacity' = [capacity EXCEPT ![x] = c]
  BY DEF reallocate
<1>2. capacity'[x] = c /\ capacity[x] \in Nat /\ MaxBlocks \in Nat
  BY <1>1, BlocksType, MaxBlocksAssumption DEF TypeOK
<1> QED
  BY <1>1, <1>2 DEF granted

\* The width a container has, and any below it, needs no allocation.
LEMMA HeldRoom ==
    ASSUME TypeOK, NEW x \in Obj, NEW n \in Nat, n <= m_size[x]
    PROVE  Room(x, n)
<1>1. /\ m_size[x] \in Nat /\ m_size[x] <= Ceiling /\ capacity[x] \in Nat
      /\ blocks_for(m_size[x]) <= capacity[x] /\ blocks_for(m_size[x]) \in Nat
  BY BlocksType, CeilingType DEF TypeOK
<1>2. blocks_for(n) \in Nat /\ blocks_for(n) <= blocks_for(m_size[x])
  BY <1>1, BlocksForBounds, BlocksForMonotone
<1> QED
  BY <1>1, <1>2, NAssumption DEF Room, check_capacity, Ceiling

\* Nor does one below a width that needs none.
LEMMA LessRoom ==
    ASSUME TypeOK, NEW x \in Obj, NEW m \in Nat, Room(x, m), NEW n \in Nat, n <= m
    PROVE  Room(x, n)
<1>1. blocks_for(n) \in Nat /\ blocks_for(m) \in Nat /\ blocks_for(n) <= blocks_for(m) /\ capacity[x] \in Nat
  BY BlocksForBounds, BlocksForMonotone, BlocksType
<1> QED
  BY <1>1, NAssumption DEF Room, check_capacity

\* Room once made is not given up by a call that gives up no capacity.
LEMMA RoomKept ==
    ASSUME TypeOK, TypeOK', NEW x \in Obj, NEW m \in Nat, Room(x, m), capacity[x] <= capacity'[x]
    PROVE  Room(x, m)'
<1>1. capacity[x] \in Nat /\ capacity'[x] \in Nat /\ blocks_for(m) \in Nat
  BY BlocksForBounds, BlocksType DEF TypeOK
<1> QED
  BY <1>1 DEF Room, check_capacity

\* A resize is refused, and had no room, or leaves the positions below both
\* widths and the new ones with the value given.
LEMMA ResizeLeaves ==
    ASSUME TypeOK, UnusedBitsClear, NEW x \in Obj, NEW n \in Nat, NEW value \in BOOLEAN,
           resize(x, n, value)
    PROVE  \/ Refused /\ ~Room(x, n)
           \/ Leaves(x, n, {p \in Held(x).bits : p < n} \cup {p \in m_size[x] .. n - 1 : value})
<1>1. CASE Refuses(x, blocks_for(n), n) /\ refused("resize", x, <<n, value>>)
  <2>1. capacity[x] \in Nat /\ blocks_for(n) \in Nat
    BY BlocksType, BlocksForBounds
  <2> QED
    BY <1>1, <2>1 DEF Refuses, refused, Refused, Room, Threw
<1>2. CASE resize_to(x, n, value) /\ call' = Returned("resize", x, <<n, value>>, NoResult)
  <2>1. has_stored_size
    BY DEF resize
  <2>2. TypeOK' /\ UnusedBitsClear'
    BY <1>2, <2>1, ResizeToType, ResizeToTail
  <2>3. capacity[x] <= capacity'[x]
    BY <1>2, BlocksForBounds, GrantedKeeps DEF resize_to
  <2>4. call'.outcome = "ok"
    BY <1>2 DEF Returned
  <2>5. Positions(resized(m_blocks[x], m_size[x], n, value)) =
            {p \in Held(x).bits : p < n} \cup {p \in m_size[x] .. n - 1 : value}
    BY HeldBefore, ResizedPositions
  <2>6. store(x, n, count_after_resize(x, n, value), resized(m_blocks[x], m_size[x], n, value))
    BY <1>2 DEF resize_to
  <2>7. Leaves(x, n, Positions(resized(m_blocks[x], m_size[x], n, value)))
    BY <2>2, <2>3, <2>4, <2>6, StoreLeaves
  <2> QED
    BY <2>5, <2>7
<1> QED
  BY <1>1, <1>2 DEF resize

\* Narrower or wider, a resize to clear positions leaves those below.
LEMMA ResizeClearLeaves ==
    ASSUME TypeOK, UnusedBitsClear, NEW x \in Obj, NEW n \in Nat, resize(x, n, FALSE)
    PROVE  \/ Refused /\ ~Room(x, n)
           \/ Leaves(x, n, {p \in Held(x).bits : p < n})
<1>1. {p \in m_size[x] .. n - 1 : FALSE} = {}
  OBVIOUS
<1>2. FALSE \in BOOLEAN
  OBVIOUS
<1> QED
  BY <1>1, <1>2, ResizeLeaves

\* A wider one leaves them all.
LEMMA WidenedLeaves ==
    ASSUME TypeOK, UnusedBitsClear, NEW x \in Obj, NEW n \in Nat, n >= m_size[x],
           resize(x, n, FALSE)
    PROVE  \/ Refused /\ ~Room(x, n)
           \/ Leaves(x, n, Held(x).bits)
<1>1. {p \in Held(x).bits : p < n} = Held(x).bits
  BY HeldBefore
<1> QED
  BY <1>1, ResizeClearLeaves

\* A block appended lies above what was held.
LEMMA AppendLeaves ==
    ASSUME TypeOK, UnusedBitsClear, NEW x \in Obj, NEW value \in Block, append(x, value)
    PROVE  \/ Refused /\ ~Room(x, m_size[x] + bits_per_block)
           \/ Leaves(x, m_size[x] + bits_per_block, Held(x).bits \cup {m_size[x] + o : o \in value})
<1> DEFINE n == m_size[x] + bits_per_block
           b == m_blocks[x]
           k == blocks_for(m_size[x]) + 1
           c == appended(b, m_size[x], value)
<1>0. /\ m_size[x] \in Nat /\ b \in Storage(blocks_for(m_size[x])) /\ TailClear(b, m_size[x])
      /\ k \in Nat /\ num_blocks(b) + 1 = k /\ blocks_for(n) = k /\ n \in Nat /\ capacity[x] \in Nat
  BY HeldBefore, BlocksType, BlocksForOneMore, BitsPerBlockAssumption
<1>1. Grow(x)
  BY DEF Grow
<1>2. TypeOK' /\ UnusedBitsClear'
  BY <1>1, GrowType, GrowTail
<1>3. CASE Refuses(x, k, n) /\ refused("append", x, <<value>>)
  BY <1>0, <1>3 DEF Refuses, refused, Refused, Room, Threw
<1>4. CASE /\ reallocate(x, k) /\ store(x, n, m_count[x] + popcount(value), c)
           /\ call' = Returned("append", x, <<value>>, NoResult)
  <2>1. capacity[x] <= capacity'[x]
    BY <1>0, <1>4, GrantedKeeps
  <2>2. call'.outcome = "ok"
    BY <1>4 DEF Returned
  <2>3. Positions(c) = Held(x).bits \cup {m_size[x] + o : o \in value}
    BY <1>0, HeldBefore, AppendedPositions
  <2> HIDE DEF c, n, k
  <2>4. Leaves(x, n, Positions(c))
    BY <1>2, <1>4, <2>1, <2>2, StoreLeaves
  <2> QED
    BY <2>3, <2>4 DEF n
<1> QED
  BY <1>0, <1>3, <1>4 DEF append

\* A position pushed back likewise.
LEMMA PushLeaves ==
    ASSUME TypeOK, UnusedBitsClear, NEW x \in Obj, NEW value \in BOOLEAN, push_back(x, value)
    PROVE  \/ Refused
           \/ Leaves(x, m_size[x] + 1, Held(x).bits \cup {p \in {m_size[x]} : value})
<1> DEFINE n == m_size[x] + 1
           c == resized(m_blocks[x], m_size[x], n, value)
<1>0. m_size[x] \in Nat /\ n \in Nat /\ blocks_for(n) \in Nat
  BY HeldBefore, BlocksForBounds
<1>1. TypeOK' /\ UnusedBitsClear'
  <2>1. Grow(x)
    BY DEF Grow
  <2> QED
    BY <2>1, GrowType, GrowTail
<1>2. CASE refused("push_back", x, <<value>>)
  BY <1>2 DEF refused, Refused, Threw
<1>3. CASE resize_to(x, n, value) /\ call' = Returned("push_back", x, <<value>>, NoResult)
  <2>1. reallocate(x, blocks_for(n)) /\ store(x, n, count_after_resize(x, n, value), c)
    BY <1>3 DEF resize_to
  <2>2. capacity[x] <= capacity'[x]
    BY <1>0, <2>1, GrantedKeeps
  <2>3. call'.outcome = "ok"
    BY <1>3 DEF Returned
  <2>4. Positions(c) = {p \in Held(x).bits : p < n} \cup {p \in m_size[x] .. n - 1 : value}
    BY <1>0, HeldBefore, ResizedPositions
  <2>5. {p \in Held(x).bits : p < n} = Held(x).bits /\ m_size[x] .. n - 1 = {m_size[x]}
    BY <1>0, HeldBefore
  <2>6. Positions(c) = Held(x).bits \cup {p \in {m_size[x]} : value}
    BY <2>4, <2>5
  <2> HIDE DEF c, n
  <2>7. Leaves(x, n, Positions(c))
    BY <1>1, <2>1, <2>2, <2>3, StoreLeaves
  <2> QED
    BY <2>6, <2>7 DEF n
<1> QED
  BY <1>2, <1>3 DEF push_back

\* Cleared, nothing is held.
LEMMA ClearLeaves ==
    ASSUME TypeOK, UnusedBitsClear, NEW x \in Obj, clear(x)
    PROVE  Leaves(x, 0, {})
<1> DEFINE c == resized(m_blocks[x], m_size[x], 0, FALSE)
<1>1. TypeOK' /\ UnusedBitsClear'
  <2>1. Grow(x)
    BY DEF Grow
  <2> QED
    BY <2>1, GrowType, GrowTail
<1>2. reallocate(x, blocks_for(0)) /\ store(x, 0, count_after_resize(x, 0, FALSE), c)
  BY DEF clear, resize_to
<1>3. capacity[x] <= capacity'[x]
  BY <1>2, BlocksForBounds, GrantedKeeps
<1>4. call'.outcome = "ok"
  BY DEF clear, Returned
<1>5. Positions(c) = {}
  <2>1. /\ 0 \in Nat /\ m_size[x] \in Nat /\ m_blocks[x] \in Storage(blocks_for(m_size[x]))
        /\ TailClear(m_blocks[x], m_size[x])
        /\ Positions(m_blocks[x]) \subseteq 0 .. m_size[x] - 1
    BY HeldBefore, Zenon
  <2>2. Positions(c) = {p \in Positions(m_blocks[x]) : p < 0}
    BY <2>1, ResizedClearPositions
  <2>3. \A p \in Positions(m_blocks[x]) : ~(p < 0)
    BY <2>1
  <2> QED
    BY <2>2, <2>3, Zenon
<1> HIDE DEF c
<1> QED
  BY <1>1, <1>2, <1>3, <1>4, <1>5, StoreLeaves

\* A masked write of count positions from n takes them from the block.
LEMMA WrittenLeaves ==
    ASSUME TypeOK, UnusedBitsClear, NEW x \in Obj, NEW n \in Nat, NEW value \in Block,
           NEW count \in Nat, count <= bits_per_block, n + count <= m_size[x],
           write_block_at(x, n, value, partial_block_mask(count))
    PROVE  Leaves(x, m_size[x], {p \in Held(x).bits : p < n \/ n + count <= p}
                                \cup {p \in n .. n + count - 1 : p - n \in value})
<1> DEFINE b == m_blocks[x]
           k == blocks_for(m_size[x])
           mask == partial_block_mask(count)
           c == written_at(b, n, value, mask)
           extent == k * bits_per_block
<1>0. /\ m_size[x] \in Nat /\ b \in Storage(k) /\ k \in Nat /\ m_size[x] <= extent /\ extent \in Nat
      /\ Held(x).bits = Positions(b) /\ Positions(b) \subseteq 0 .. m_size[x] - 1
      /\ n < m_size[x] /\ n \in Width
  <2>1. n < m_size[x] /\ m_size[x] \in Nat
    BY HeldBefore DEF write_block_at, is_valid
  <2>2. n \in Width
    BY <2>1, WithinWidth
  <2> QED
    BY <2>1, <2>2, HeldBefore, WholeWidth
<1>1. mask = {o \in Offset : o < count} /\ mask \in Block
  BY BlockOperators DEF partial_block_mask
<1>2. WriteMany(x)
  BY <1>0, <1>1 DEF WriteMany
<1>3. TypeOK' /\ UnusedBitsClear'
  BY <1>2, WriteManyType, WriteManyTail
<1>4. \A m \in mask : m \in 0 .. count - 1
  BY <1>1, BitsPerBlockAssumption DEF Offset
<1>5. \A m \in 0 .. count - 1 : m \in mask
  BY <1>1, BitsPerBlockAssumption DEF Offset
<1>6. Positions(c) = (Positions(b) \ {n + m : m \in mask}) \cup {n + m : m \in value \cap mask}
  <2> HIDE DEF extent, mask, k, b
  <2>1. n < extent /\ \A m \in mask : n + m < extent
    BY <1>0, <1>4
  <2>2. k \in Nat /\ b \in Storage(k) /\ mask \in Block
    BY <1>0, <1>1
  <2>3. n < k * bits_per_block /\ \A m \in mask : n + m < k * bits_per_block
    BY <2>1 DEF extent
  <2> QED
    BY <2>2, <2>3, WrittenAtPositions
<1>7. Positions(c) = {p \in Positions(b) : p < n \/ n + count <= p}
                     \cup {p \in n .. n + count - 1 : p - n \in value}
  <2> HIDE DEF c, mask, b, k, extent
  <2>1. \A p \in Int : p \in {n + m : m \in mask} <=> p \in n .. n + count - 1
    <3>1. \A p \in n .. n + count - 1 : p - n \in mask /\ n + (p - n) = p
      BY <1>5
    <3> QED
      BY <1>4, <3>1
  <2>2. \A p \in Int : p \in {n + m : m \in value \cap mask} <=> p \in n .. n + count - 1 /\ p - n \in value
    <3>1. \A p \in n .. n + count - 1 : p - n \in mask /\ n + (p - n) = p
      BY <1>5
    <3>2. \A m \in mask : n + m \in n .. n + count - 1 /\ (n + m) - n = m
      BY <1>4
    <3> QED
      BY <3>1, <3>2
  <2>3. {n + m : m \in value \cap mask} \subseteq Int
    BY <1>4
  <2>4. \A p \in Int : p \notin n .. n + count - 1 <=> p < n \/ n + count <= p
    OBVIOUS
  <2> QED
    BY <1>0, <1>6, <2>1, <2>2, <2>3, <2>4
<1>8. write(x, m_count[x], c) /\ call'.outcome = "ok"
  BY DEF write_block_at, Returned
<1> HIDE DEF c
<1>9. Leaves(x, m_size[x], Positions(c))
  BY <1>3, <1>8, WriteLeaves
<1> QED
  BY <1>0, <1>7, <1>9

\* A range set takes the value.
LEMMA FillLeaves ==
    ASSUME TypeOK, UnusedBitsClear, NEW x \in Obj, NEW n \in Nat, NEW len \in Nat,
           NEW value \in BOOLEAN, set_range(x, n, len, value)
    PROVE  Leaves(x, m_size[x], (Held(x).bits \ (n .. n + len - 1)) \cup {p \in n .. n + len - 1 : value})
<1> DEFINE b == m_blocks[x]
           k == blocks_for(m_size[x])
           extent == k * bits_per_block
           c == range_set(b, n, len, value)
<1>0. /\ m_size[x] \in Nat /\ b \in Storage(k) /\ k \in Nat /\ m_size[x] <= extent /\ extent \in Nat
      /\ Held(x).bits = Positions(b) /\ n + len <= m_size[x]
  BY HeldBefore, WholeWidth DEF set_range
<1>1. n + len <= extent
  <2> HIDE DEF extent
  <2> QED
    BY <1>0
<1>2. n \in Width /\ len \in Width
  <2>1. n <= m_size[x] /\ len <= m_size[x]
    BY <1>0
  <2> QED
    BY <2>1, WithinWidth
<1>3. TypeOK' /\ UnusedBitsClear'
  <2>1. WriteMany(x)
    BY <1>2 DEF WriteMany
  <2> QED
    BY <2>1, WriteManyType, WriteManyTail
<1>4. Positions(c) = (Positions(b) \ (n .. n + len - 1)) \cup {p \in n .. n + len - 1 : value}
  BY <1>0, <1>1, RangeSetPositions
<1>5. \E count : write(x, count, c)
  BY DEF set_range
<1>6. call'.outcome = "ok"
  BY DEF set_range, Returned
<1> HIDE DEF c
<1>7. Leaves(x, m_size[x], Positions(c))
  BY <1>3, <1>5, <1>6, WriteLeaves
<1> QED
  BY <1>0, <1>4, <1>7

\* One position written.
LEMMA PositionLeaves ==
    ASSUME TypeOK, UnusedBitsClear, NEW x \in Obj, NEW n
    PROVE  /\ set(x, n) => Leaves(x, m_size[x], Held(x).bits \cup {n})
           /\ reset(x, n) => Leaves(x, m_size[x], Held(x).bits \ {n})
<1> SUFFICES ASSUME set(x, n) \/ reset(x, n)
             PROVE  /\ set(x, n) => Leaves(x, m_size[x], Held(x).bits \cup {n})
                    /\ reset(x, n) => Leaves(x, m_size[x], Held(x).bits \ {n})
  OBVIOUS
<1> DEFINE b == m_blocks[x]
           k == blocks_for(m_size[x])
<1>1. /\ n \in 0 .. m_size[x] - 1 /\ n \in Int /\ m_size[x] \in Nat
      /\ b \in Storage(k) /\ k \in Nat /\ n \in Span(k)
  BY HeldBefore DEF set, reset, is_valid
<1>2. n \in Width
  BY <1>1, WithinWidth
<1>3. TypeOK' /\ UnusedBitsClear'
  <2>1. WritePosition(x)
    BY <1>2 DEF WritePosition
  <2> QED
    BY <2>1, WritePositionType, WritePositionTail
<1>4. call'.outcome = "ok"
  BY DEF set, reset, Returned
<1>5. /\ Positions(bit_set(b, n)) = Held(x).bits \cup {n}
      /\ Positions(bit_reset(b, n)) = Held(x).bits \ {n}
  BY <1>1, HeldBefore, PositionWrittenPositions
<1>6. ASSUME set(x, n) PROVE Leaves(x, m_size[x], Held(x).bits \cup {n})
  BY <1>3, <1>4, <1>5, <1>6, WriteLeaves DEF set
<1>7. ASSUME reset(x, n) PROVE Leaves(x, m_size[x], Held(x).bits \ {n})
  BY <1>3, <1>4, <1>5, <1>7, WriteLeaves DEF reset
<1> QED
  BY <1>6, <1>7

\* Moved in, one sequence is what the other was.
LEMMA MoveLeaves ==
    ASSUME TypeOK, UnusedBitsClear, NEW x \in Obj, NEW y \in Obj, x # y, move_assign(x, y)
    PROVE  /\ TypeOK' /\ UnusedBitsClear'
           /\ Held(x)' = Held(y)
           /\ \A z \in Obj \ {x, y} : Held(z)' = Held(z)
<1>1. TypeOK' /\ UnusedBitsClear'
  <2>1. Pairwise(x, y)
    BY DEF Pairwise
  <2> QED
    BY <2>1, PairwiseType, PairwiseTail
<1>2. /\ m_size'[x] = m_size[y] /\ m_blocks'[x] = m_blocks[y]
      /\ \A z \in Obj \ {x, y} : m_size'[z] = m_size[z] /\ m_blocks'[z] = m_blocks[z]
  BY DEF move_assign, store, TypeOK
<1> QED
  BY <1>1, <1>2 DEF Held

\* A position read, and a block of them.
LEMMA PositionHeld ==
    ASSUME TypeOK, UnusedBitsClear, NEW x \in Obj, NEW n \in Nat, n < m_size[x]
    PROVE  /\ BitAt(m_blocks[x], n) <=> n \in Held(x).bits
           /\ block_at(m_blocks[x], n) \in Block
           /\ \A o \in Offset : o \in block_at(m_blocks[x], n) <=> n + o \in Held(x).bits
<1>1. /\ n \in 0 .. m_size[x] - 1 /\ n \in Span(blocks_for(m_size[x]))
      /\ Scanned(m_blocks[x], m_size[x]) /\ Held(x).bits = Positions(m_blocks[x])
      /\ blocks_for(m_size[x]) \in Nat /\ m_blocks[x] \in Storage(blocks_for(m_size[x]))
  BY HeldBefore DEF Scanned
<1>2. BitAt(m_blocks[x], n) <=> n \in Held(x).bits
  BY <1>1, PositionWrittenPositions
<1>3. block_at(m_blocks[x], n) \in Block
  BY BlockOperators DEF block_at, straddled_block
<1> QED
  BY <1>1, <1>2, <1>3, BlockRead

(***************************************************************************)
(* How far each place in the code has come.  The terms are those of the    *)
(* call and of what was held when it began, and do not change while the    *)
(* stage does not.                                                         *)
(***************************************************************************)
\* The first k positions of what a sequence held, from a position on, and a
\* sequence with these at its end.
Taken(held, first, k) == {o \in 0 .. k - 1 : first + o \in held.bits}

Joined(h, held, first, k) ==
    [width |-> h.width + k, bits |-> h.bits \cup {h.width + o : o \in Taken(held, first, k)}]

\* The positions of the two, and a block of others above i of them.
JoinedBits(h, held, first, k) == Joined(h, held, first, k).bits

With(S, h, i, A) == S \cup {h.width + i + o : o \in A}

\* What a sequence holds, and a block of positions above its width.
Grown(x, A) == Held(x).bits \cup {m_size[x] + o : o \in A}

Empty == [width |-> 0, bits |-> {}]

\* The range of the stage, what its sequence held, and what the range is
\* appended to.
Given ==
    CASE frame.stage = "head" -> Window(0, op.pos)
      [] frame.stage = "tail" -> Window(op.pos, start[v].width - op.pos)
      [] OTHER                -> op.range

Source == start[Given.from]

Front == Joined(Empty, start[v], 0, op.pos)

Base ==
    CASE frame.stage = "only"   -> IF op.name = "assign_range" THEN Empty ELSE start[v]
      [] frame.stage = "head"   -> Empty
      [] frame.stage = "middle" -> Front
      [] frame.stage = "tail"   -> Joined(Front, start[op.range.from], op.range.first, op.range.count)

Appending ==
    /\ frame.stage \in {"only", "head", "middle", "tail"}
    /\ IF frame.stage = "only"
       THEN frame.to = v /\ op.name \in {"append_range", "assign_range"}
       ELSE frame.to = tmp /\ op.name = "insert_range" /\ Held(v) = start[v]

\* Where the width is known, the range is not refused once it is begun.
RoomAhead ==
    Given.tier \in {"blit", "sized"} => Room(frame.to, Base.width + Given.count)

AppendStarts == Appending /\ Held(frame.to) = Base

RoomMade ==
    /\ Appending /\ Given.tier \in {"blit", "sized"} /\ RoomAhead
    /\ frame.width = Base.width /\ frame.i = 0 /\ frame.block = zero
    /\ Held(frame.to) = [width |-> Base.width + Given.count, bits |-> Base.bits]

Blitting ==
    /\ Appending /\ Given.tier = "blit" /\ RoomAhead
    /\ frame.i \in 0 .. Given.count /\ frame.i % bits_per_block = 0
    /\ Held(frame.to) = Joined(Base, Source, Given.first, frame.i)

\* The positions left of the last block, and the elements laid before them.
Left == Given.count % bits_per_block
Whole == Given.count - Left

RestWaits ==
    /\ Appending /\ Left > 0 /\ frame.block \in Block
    /\ Held(frame.to) = [width |-> Base.width + Given.count,
                         bits  |-> Joined(Base, Source, Given.first, Whole).bits]
    /\ \A o \in 0 .. Left - 1 : o \in frame.block <=> Given.first + Whole + o \in Source.bits

\* The elements gathered into a block, and those laid before them.
Gathered == frame.i % bits_per_block
Packed == frame.i - Gathered

Packing ==
    /\ Appending /\ Given.tier \in {"sized", "forward", "unsized"} /\ RoomAhead
    /\ frame.width = Base.width
    /\ frame.i \in 0 .. Given.count
    /\ frame.block = Taken(Source, Given.first + Packed, Gathered)
    /\ Held(frame.to) = Joined(Base, Source, Given.first, Packed)

Pushing ==
    /\ Appending /\ Given.tier = "pushed"
    /\ frame.i \in 0 .. Given.count
    /\ Held(frame.to) = Joined(Base, Source, Given.first, frame.i)

TakingBack ==
    /\ Appending /\ Given.tier \in {"forward", "unsized"}
    /\ frame.width = Base.width /\ frame.width <= Held(frame.to).width
    /\ {p \in Held(frame.to).bits : p < Base.width} = Base.bits

Appended == Appending /\ Held(frame.to) = Joined(Base, Source, Given.first, Given.count)

Rebuilding == op.name = "insert_range" /\ Held(v) = start[v] /\ Held(tmp) = Empty

Rebuilt == op.name = "insert_range" /\ Held(tmp) = Spliced(Length)

Assigning ==
    op.name \in {"assign", "assign_range"} /\ frame.stage = "only" /\ frame.to = v

Refilling == op.name = "assign" /\ Held(v) = Empty

\* The gap of a shift, the tail above it, and how much of the tail is up.
Gap == op.range.count
Above == start[v].width - op.pos

Inserting ==
    /\ op.name \in {"insert", "insert_range"} /\ frame.stage = "only"
    /\ op.name = "insert_range" => op.range.from = src /\ op.range.tier \in {"blit", "sized", "forward"}

GapWaits == Inserting /\ Held(v) = start[v]

\* Positions, those from below on raised by the gap, and those under it kept.
Up(S, below, gap) == {p \in S : p < below + gap} \cup {q + gap : q \in {r \in S : below <= r}}

ShiftingUp ==
    /\ Inserting /\ frame.width = start[v].width /\ frame.i \in Nat
    /\ Held(v) = [width |-> start[v].width + Gap,
                  bits  |-> Up(start[v].bits,
                               IF frame.i < Above THEN start[v].width - frame.i ELSE op.pos, Gap)]

\* The gap is open in h, and its first n positions are laid.
Laid(h, n) ==
    /\ h.width = start[v].width + Gap
    /\ \A p \in 0 .. op.pos - 1 : p \in h.bits <=> p \in start[v].bits
    /\ \A o \in 0 .. n - 1 : op.pos + o \in h.bits <=> o \in Brought(Gap)
    /\ \A t \in 0 .. Above - 1 : op.pos + Gap + t \in h.bits <=> op.pos + t \in start[v].bits

Filling == Inserting /\ op.name = "insert" /\ Laid(Held(v), 0)

BlittingIn ==
    /\ Inserting /\ op.name = "insert_range" /\ op.range.tier = "blit" /\ frame.i \in Nat
    /\ Laid(Held(v), IF frame.i < Gap THEN frame.i ELSE Gap)

WritingIn ==
    /\ Inserting /\ op.name = "insert_range" /\ op.range.tier \in {"sized", "forward"}
    /\ frame.i \in 0 .. Gap
    /\ Laid(Held(v), frame.i)

\* The first frame.i positions of the tail are down, and the others not yet.
Closing ==
    /\ IF thrown = "none" THEN op.name = "erase" ELSE op.name = "insert_range" /\ Inserting
    /\ frame.i \in Nat
    /\ Held(v).width = last + (start[v].width - Until)
    /\ \A p \in 0 .. op.pos - 1 : p \in Held(v).bits <=> p \in start[v].bits
    /\ \A t \in 0 .. (start[v].width - Until) - 1 :
          (IF t < frame.i THEN op.pos + t ELSE last + t) \in Held(v).bits
              <=> Until + t \in start[v].bits

Placed == Held(v) = Spliced(Length)

\* What a call that throws may leave of an assignment, or of a sized source.
Prefix(k) ==
    [Spliced(k) EXCEPT !.bits = {p \in start[v].bits : p < From} \cup {From + o : o \in Brought(k)}]

Thrown ==
    \/ Held(v) = start[v]
    \/ /\ \/ op.name \in {"assign", "assign_range"}
          \/ op.name = "append_range" /\ thrown = "source" /\ op.range.tier = "sized"
       /\ \E k \in 0 .. MaxSource : k <= Length /\ Held(v) = Prefix(k)

Progress ==
    /\ pc \in {"append_range", "hand_back", "blit", "write_rest", "pack", "push", "resize_back",
               "appended", "rebuild", "move_in", "open_gap", "shift_up", "fill", "blit_at",
               "write_at", "close_gap", "assign", "refill", "done", "threw"}
    /\ pc = "append_range" => AppendStarts
    /\ pc = "hand_back"    => RoomMade
    /\ pc = "blit"         => Blitting
    /\ pc = "write_rest"   => RestWaits
    /\ pc = "pack"         => Packing
    /\ pc = "push"         => Pushing
    /\ pc = "resize_back"  => TakingBack
    /\ pc = "appended"     => Appended
    /\ pc = "rebuild"      => Rebuilding
    /\ pc = "move_in"      => Rebuilt
    /\ pc = "open_gap"     => GapWaits
    /\ pc = "shift_up"     => ShiftingUp
    /\ pc = "fill"         => Filling
    /\ pc = "blit_at"      => BlittingIn
    /\ pc = "write_at"     => WritingIn
    /\ pc = "close_gap"    => Closing
    /\ pc = "assign"       => Assigning
    /\ pc = "refill"       => Refilling
    /\ pc = "done"         => Placed
    /\ pc = "threw"        => Thrown

\* The call, what was held when it began, and the source as it was.
Began ==
    /\ start \in [Obj -> [width : Nat, bits : SUBSET Nat]]
    /\ op \in Calls(start[v].width, start[src].width)
    /\ start[v].width \in Nat /\ start[v].bits \subseteq 0 .. start[v].width - 1
    /\ start[src].width \in 0 .. MaxSource /\ start[src].bits \subseteq 0 .. start[src].width - 1
    /\ Held(src) = start[src]

FrameOK == DOMAIN frame = {"stage", "to", "width", "i", "block"}

SequenceInv == TypeOK /\ UnusedBitsClear /\ Began /\ FrameOK /\ Progress

(***************************************************************************)
(* What the call and the stage say of the range.                           *)
(***************************************************************************)
RangeOK(r) ==
    /\ r.tier \in {"blit", "sized", "forward", "unsized", "pushed"}
    /\ r.from \in {v, src} /\ (r.tier # "blit" => r.from = src)
    /\ r.first \in Nat /\ r.count \in Nat /\ r.first + r.count <= start[r.from].width
    /\ r.from = src => r.count \in 0 .. MaxSource

\* A call is given positions of the sequence, and a range of its source.
LEMMA CallTypes ==
    ASSUME Began
    PROVE  /\ op.pos \in 0 .. start[v].width /\ op.range.count \in Nat
           /\ op.name \in {"append_range", "insert_range", "insert", "assign", "assign_range", "erase"}
           /\ op.name \in {"append_range", "insert_range", "assign_range"} => RangeOK(op.range)
           /\ op.name = "append_range" => op.pos = start[v].width /\ op.range.tier # "pushed"
           /\ op.name \in {"insert", "assign"} => op.range.tier = "none" /\ op.value \in BOOLEAN
           /\ op.name = "assign_range" => op.range.from = src
           /\ op.name = "erase" =>
                 op.last \in op.pos .. start[v].width /\ op.range.count = 0 /\ op.range.tier = "none"
<1> DEFINE size   == start[v].width
           others == start[src].width
<1>0. size \in Nat /\ others \in Nat /\ others <= MaxSource /\ MaxSource \in Nat /\ top \in Nat
  BY WidthsAssumption, CeilingType, SizeModAssumption DEF Began, top
<1>1. \A r \in Windows(v, size) \cup Windows(src, others)
                   \cup Elements({"sized", "forward", "unsized", "pushed"}, others) : RangeOK(r)
  <2> SUFFICES ASSUME NEW r \in Windows(v, size) \cup Windows(src, others)
                          \cup Elements({"sized", "forward", "unsized", "pushed"}, others)
               PROVE  RangeOK(r)
    OBVIOUS
  <2> HIDE DEF size, others
  <2>1. CASE r \in Windows(v, size)
    BY <1>0, <2>1, ContainersAssumption DEF Windows, RangeOK, size
  <2>2. CASE r \in Windows(src, others)
    BY <1>0, <2>2 DEF Windows, RangeOK, others
  <2>3. CASE r \in Elements({"sized", "forward", "unsized", "pushed"}, others)
    BY <1>0, <2>3 DEF Elements, RangeOK, others
  <2> QED
    BY <2>1, <2>2, <2>3
<1> HIDE DEF size, others
<1>2. op \in Calls(size, others)
  BY DEF Began, size, others
<1>3. CASE op \in Call({"append_range"}, {size},
             Windows(v, size) \cup Windows(src, others)
                 \cup Elements({"sized", "forward", "unsized"}, others), {FALSE})
  <2>1. op.name = "append_range" /\ op.pos = size
    BY <1>3 DEF Call
  <2>2. op.range \in Windows(v, size) \cup Windows(src, others)
                         \cup Elements({"sized", "forward", "unsized"}, others)
    BY <1>3 DEF Call
  <2>3. op.range \in Windows(v, size) \cup Windows(src, others)
                         \cup Elements({"sized", "forward", "unsized", "pushed"}, others)
    BY <2>2 DEF Elements
  <2>4. op.range.tier # "pushed"
    BY <2>2 DEF Elements, Windows
  <2> QED
    BY <1>0, <1>1, <2>1, <2>3, <2>4 DEF RangeOK, size
<1>4. CASE op \in Call({"insert_range"}, 0 .. size,
              Windows(v, size) \cup Windows(src, others)
                  \cup Elements({"sized", "forward", "unsized", "pushed"}, others), {FALSE})
  <2>1. op.name = "insert_range" /\ op.pos \in 0 .. size
    BY <1>4 DEF Call
  <2>2. op.range \in Windows(v, size) \cup Windows(src, others)
                         \cup Elements({"sized", "forward", "unsized", "pushed"}, others)
    BY <1>4 DEF Call
  <2> QED
    BY <1>0, <1>1, <2>1, <2>2 DEF RangeOK, size
<1>5. CASE op \in Call({"insert", "assign"}, 0 .. size, Counts(others), BOOLEAN)
  <2>1. op.name \in {"insert", "assign"} /\ op.pos \in 0 .. size /\ op.value \in BOOLEAN
    BY <1>5 DEF Call
  <2>2. op.range \in Counts(others)
    BY <1>5 DEF Call
  <2>3. op.range.tier = "none" /\ op.range.count \in 0 .. others \cup {Ceiling + 1, top}
    BY <2>2 DEF Counts
  <2>4. op.range.count \in Nat
    BY <1>0, <2>3, CeilingType
  <2> QED
    BY <1>0, <2>1, <2>3, <2>4 DEF size
<1>6. CASE op \in Call({"assign_range"}, {0},
              Windows(src, others) \cup Elements({"sized", "unsized", "pushed"}, others), {FALSE})
  <2>1. op.name = "assign_range" /\ op.pos = 0
    BY <1>6 DEF Call
  <2>2. op.range \in Windows(src, others) \cup Elements({"sized", "unsized", "pushed"}, others)
    BY <1>6 DEF Call
  <2>3. op.range \in Windows(v, size) \cup Windows(src, others)
                         \cup Elements({"sized", "forward", "unsized", "pushed"}, others)
    BY <2>2 DEF Elements
  <2>4. op.range.from = src
    BY <2>2 DEF Elements, Windows
  <2> QED
    BY <1>0, <1>1, <2>1, <2>3, <2>4 DEF RangeOK, size
<1>7. CASE op \in {c \in [name : {"erase"}, pos : 0 .. size, last : 0 .. size,
                          range : Counts(0), value : {FALSE}] : c.pos <= c.last /\ c.range.count = 0}
  <2>1. /\ op.name = "erase" /\ op.pos \in 0 .. size /\ op.last \in 0 .. size /\ op.pos <= op.last
        /\ op.range.count = 0 /\ op.range \in Counts(0)
    BY <1>7
  <2>2. op.range.tier = "none"
    BY <2>1 DEF Counts
  <2> QED
    BY <1>0, <2>1, <2>2 DEF size
<1> QED
  BY <1>2, <1>3, <1>4, <1>5, <1>6, <1>7 DEF Calls

\* What is appended to, in any stage, is a sequence of its own width, and the
\* range of the stage is the one the code reads.
LEMMA StageTypes ==
    ASSUME Began, Appending
    PROVE  /\ RangeOK(Given) /\ range = Given
           /\ Base.width \in Nat /\ Base.bits \subseteq 0 .. Base.width - 1
           /\ frame.to \in {v, tmp} /\ frame.to \in Obj /\ frame.to # src /\ to = frame.to
           /\ Given.from = v /\ frame.stage = "only" => Base = start[v] /\ op.name = "append_range"
           /\ Given.from # v => Source = start[src] /\ Held(src) = start[src]
<1>0. start[v].width \in Nat /\ start[v].bits \subseteq 0 .. start[v].width - 1
  BY DEF Began
<1>1. \A h, held : \A first, k \in Nat :
          h.width \in Nat /\ h.bits \subseteq 0 .. h.width - 1
              => /\ Joined(h, held, first, k).width \in Nat
                 /\ Joined(h, held, first, k).bits \subseteq 0 .. Joined(h, held, first, k).width - 1
  BY DEF Joined, Taken
<1>2. Empty.width \in Nat /\ Empty.bits \subseteq 0 .. Empty.width - 1
  BY DEF Empty
<1>3. frame.stage # "only" => Front.width \in Nat /\ Front.bits \subseteq 0 .. Front.width - 1
  <2>1. op.pos \in Nat /\ 0 \in Nat
    BY <1>0, CallTypes
  <2> QED
    BY <1>1, <1>2, <2>1 DEF Front
<1>4. Base.width \in Nat /\ Base.bits \subseteq 0 .. Base.width - 1
  <2>1. CASE frame.stage = "only"
    BY <1>0, <1>2, <2>1 DEF Base
  <2>2. CASE frame.stage = "head"
    BY <1>2, <2>2 DEF Base
  <2>3. CASE frame.stage = "middle"
    BY <1>3, <2>3 DEF Base
  <2>4. CASE frame.stage = "tail"
    <3>1. RangeOK(op.range)
      BY <2>4, CallTypes DEF Appending
    <3>2. op.range.first \in Nat /\ op.range.count \in Nat
      BY <3>1 DEF RangeOK
    <3> QED
      BY <1>1, <1>3, <2>4, <3>2 DEF Base
  <2> QED
    BY <2>1, <2>2, <2>3, <2>4 DEF Appending
<1>5. RangeOK(Given)
  <2>1. CASE frame.stage = "head"
    <3>1. op.pos \in 0 .. start[v].width
      BY CallTypes
    <3> QED
      BY <1>0, <2>1, <3>1, ContainersAssumption DEF Given, Window, RangeOK
  <2>2. CASE frame.stage = "tail"
    <3>1. op.pos \in 0 .. start[v].width
      BY CallTypes
    <3> QED
      BY <1>0, <2>2, <3>1, ContainersAssumption DEF Given, Window, RangeOK
  <2>3. CASE frame.stage \notin {"head", "tail"}
    BY <2>3, CallTypes DEF Given, Appending
  <2> QED
    BY <2>1, <2>2, <2>3
<1>6. range = Given
  <2>1. frame.stage # "only" => m_size[v] = start[v].width
    BY DEF Appending, Held
  <2> QED
    BY <2>1 DEF range, Given
<1>7. frame.to \in {v, tmp} /\ frame.to \in Obj /\ frame.to # src /\ to = frame.to
  BY ContainersAssumption DEF Appending, to
<1>8. Given.from = v /\ frame.stage = "only" => Base = start[v] /\ op.name = "append_range"
  <2> SUFFICES ASSUME Given.from = v, frame.stage = "only"
               PROVE  Base = start[v] /\ op.name = "append_range"
    OBVIOUS
  <2>1. op.range.from = v
    BY DEF Given
  <2>2. op.name # "assign_range"
    BY <2>1, CallTypes, ContainersAssumption
  <2> QED
    BY <2>2 DEF Base, Appending
<1>9. Given.from # v => Source = start[src] /\ Held(src) = start[src]
  BY <1>5 DEF RangeOK, Source, Began
<1> QED
  BY <1>4, <1>5, <1>6, <1>7, <1>8, <1>9

(***************************************************************************)
(* The pieces of a step: what stays as it was, what is read, and where the *)
(* code goes next.                                                         *)
(***************************************************************************)
\* While the stage does not change, its terms do not.
LEMMA StageKept ==
    ASSUME UNCHANGED <<op, start>>, frame'.stage = frame.stage, frame'.to = frame.to
    PROVE  /\ Given' = Given /\ Source' = Source /\ Base' = Base
           /\ Left' = Left /\ Whole' = Whole
<1>1. Given' = Given /\ Source' = Source
  BY DEF Given, Window, Source
<1>2. Base' = Base
  BY DEF Base, Front
<1> QED
  BY <1>1, <1>2 DEF Left, Whole

\* A call on what is appended to leaves the rest, and what is appended to
\* stays the same sequence.
LEMMA AppendingKept ==
    ASSUME Began, Appending, UNCHANGED <<op, start>>,
           frame'.stage = frame.stage, frame'.to = frame.to,
           \A y \in Obj \ {frame.to} : Held(y)' = Held(y)
    PROVE  Appending' /\ Began'
<1>1. v \in Obj /\ src \in Obj /\ v # tmp /\ frame.to # src
  BY StageTypes, ContainersAssumption
<1>2. Began'
  BY <1>1 DEF Began
<1>3. Appending'
  BY <1>1 DEF Appending
<1> QED
  BY <1>2, <1>3

\* So does a step that makes no call.
LEMMA UncalledKept ==
    ASSUME TypeOK, UnusedBitsClear, Began, UNCHANGED <<vars, op, start>>
    PROVE  /\ TypeOK' /\ UnusedBitsClear' /\ Began' /\ \A x : Held(x)' = Held(x)
           /\ \A x, n : Room(x, n) => Room(x, n)'
<1>1. TypeOK' /\ UnusedBitsClear'
  BY UnwrittenTail, RefusedType DEF vars, contents
<1>2. \A x : Held(x)' = Held(x)
  BY DEF vars, Held
<1>3. Began'
  BY <1>2 DEF Began
<1>4. \A x, n : Room(x, n) => Room(x, n)'
  BY DEF Room, vars, check_capacity
<1> QED
  BY <1>1, <1>2, <1>3, <1>4

\* A call refused changes nothing.
LEMMA RefusedKept ==
    ASSUME TypeOK, UnusedBitsClear, Began, Refused, UNCHANGED <<op, start>>
    PROVE  TypeOK' /\ UnusedBitsClear' /\ Began' /\ \A x : Held(x)' = Held(x)
<1>1. TypeOK' /\ UnusedBitsClear'
  BY UnwrittenTail, RefusedType DEF Refused, contents
<1>2. \A x : Held(x)' = Held(x)
  BY DEF Refused, contents, Held
<1>3. Began'
  BY <1>2 DEF Began
<1> QED
  BY <1>1, <1>2, <1>3

\* A call answered goes on, and one refused goes where exceptions go.
LEMMA Then ==
    ASSUME NEW label, then(label)
    PROVE  /\ call'.outcome = "ok" => pc' = label /\ thrown' = thrown
           /\ call'.outcome = "bad_alloc" => pc' = handler /\ thrown' = "bad_alloc"
BY DEF then, throws, goto

\* The invariant at the place the code goes to is that place's own.
LEMMA Arrives ==
    ASSUME \/ pc' = "append_range" /\ AppendStarts'
           \/ pc' = "hand_back" /\ RoomMade'
           \/ pc' = "blit" /\ Blitting'
           \/ pc' = "write_rest" /\ RestWaits'
           \/ pc' = "pack" /\ Packing'
           \/ pc' = "push" /\ Pushing'
           \/ pc' = "resize_back" /\ TakingBack'
           \/ pc' = "appended" /\ Appended'
           \/ pc' = "rebuild" /\ Rebuilding'
           \/ pc' = "move_in" /\ Rebuilt'
           \/ pc' = "open_gap" /\ GapWaits'
           \/ pc' = "shift_up" /\ ShiftingUp'
           \/ pc' = "fill" /\ Filling'
           \/ pc' = "blit_at" /\ BlittingIn'
           \/ pc' = "write_at" /\ WritingIn'
           \/ pc' = "close_gap" /\ Closing'
           \/ pc' = "assign" /\ Assigning'
           \/ pc' = "refill" /\ Refilling'
           \/ pc' = "done" /\ Placed'
           \/ pc' = "threw" /\ Thrown'
    PROVE  Progress'
BY DEF Progress

\* A sequence that holds the first of the range holds, of its source, what
\* the source held when the call began, the sequence itself among sources.
LEMMA ReadsStart ==
    ASSUME TypeOK, UnusedBitsClear, Began, Appending, NEW k \in Nat,
           Held(frame.to) = Joined(Base, Source, Given.first, k),
           NEW p \in Nat, p < start[Given.from].width
    PROVE  /\ p < m_size[Given.from]
           /\ p \in Held(Given.from).bits <=> p \in Source.bits
<1>1. /\ Given.from \in {v, src} /\ Source = start[Given.from]
      /\ Given.from \in Obj /\ Held(Given.from).width = m_size[Given.from]
  BY StageTypes, HeldBefore, ContainersAssumption DEF RangeOK, Source
<1>2. CASE Given.from # v
  BY <1>1, <1>2 DEF Began
<1>3. CASE Given.from = v /\ frame.stage # "only"
  BY <1>1, <1>3 DEF Appending
<1>4. CASE Given.from = v /\ frame.stage = "only"
  <2>1. Base = start[v] /\ frame.to = v
    BY <1>4, StageTypes DEF Appending
  <2>2. Base.width \in Nat
    BY StageTypes
  <2>3. Held(v).width = Base.width + k
    BY <2>1 DEF Joined
  <2>4. Held(v).bits = Base.bits \cup {Base.width + o : o \in Taken(Source, Given.first, k)}
    BY <2>1 DEF Joined
  <2>5. \A o \in Taken(Source, Given.first, k) : o \in Nat
    BY DEF Taken
  <2>6. p \notin {Base.width + o : o \in Taken(Source, Given.first, k)}
    BY <1>4, <2>1, <2>2, <2>5
  <2> QED
    BY <1>1, <1>4, <2>1, <2>2, <2>3, <2>4, <2>6
<1> QED
  BY <1>2, <1>3, <1>4

\* The c elements of a range after its first i are joined to those.
LEMMA JoinedMore ==
    ASSUME NEW h, h.width \in Nat, NEW held, NEW first \in Nat, NEW i \in Nat, NEW c \in Nat,
           NEW m, m = first + i, NEW n, n = i + c
    PROVE  With(JoinedBits(h, held, first, i), h, i, Taken(held, m, c)) = JoinedBits(h, held, first, n)
<1> DEFINE A == Taken(held, m, c)
<1>0. \A o : o \in A <=> o \in 0 .. c - 1 /\ first + i + o \in held.bits
  BY DEF Taken
<1> HIDE DEF A
<1> DEFINE w == h.width
           T == Taken(held, first, i)
           U == Taken(held, first, n)
<1>1. \A o : o \in T <=> o \in 0 .. i - 1 /\ first + o \in held.bits
  BY DEF Taken
<1>2. \A o : o \in U <=> o \in 0 .. (i + c) - 1 /\ first + o \in held.bits
  BY <1>0 DEF Taken
<1>3. \A o \in A : i + o \in U /\ w + i + o = w + (i + o)
  <2> SUFFICES ASSUME NEW o \in A PROVE i + o \in U /\ w + i + o = w + (i + o)
    OBVIOUS
  <2>1. o \in 0 .. c - 1 /\ first + i + o \in held.bits
    BY <1>0
  <2>2. first + (i + o) = first + i + o /\ i + o \in 0 .. (i + c) - 1
    BY <1>0, <2>1
  <2> QED
    BY <1>2, <2>1, <2>2
<1>4. \A o \in U : o \in T \/ (o - i \in A /\ w + i + (o - i) = w + o)
  <2> SUFFICES ASSUME NEW o \in U, ~(o < i) PROVE o - i \in A /\ w + i + (o - i) = w + o
    BY <1>1, <1>2
  <2>1. o \in 0 .. (i + c) - 1 /\ first + o \in held.bits
    BY <1>2
  <2>2. first + i + (o - i) = first + o /\ o - i \in 0 .. c - 1
    BY <1>0, <2>1
  <2> QED
    BY <1>0, <2>1, <2>2
<1>5. T \subseteq U
  BY <1>0, <1>1, <1>2
<1> HIDE DEF T, U
<1>6. {w + o : o \in T} \cup {w + i + o : o \in A} = {w + o : o \in U}
  <2>1. \A o \in A : w + i + o \in {w + u : u \in U}
    BY <1>3
  <2>2. \A o \in U : w + o \in {w + u : u \in T} \cup {w + i + u : u \in A}
    BY <1>4
  <2> QED
    BY <1>5, <2>1, <2>2
<1>7. /\ JoinedBits(h, held, first, i) = h.bits \cup {w + o : o \in T}
      /\ JoinedBits(h, held, first, n) = h.bits \cup {w + o : o \in U}
  BY DEF JoinedBits, Joined, T, U
<1>8. With(JoinedBits(h, held, first, i), h, i, A) = JoinedBits(h, held, first, i) \cup {w + i + o : o \in A}
  BY DEF With
<1> QED
  BY <1>6, <1>7, <1>8 DEF A

\* Joined to nothing of a range, a sequence is as it was.
LEMMA JoinedNone ==
    ASSUME NEW h, NEW w, NEW B, h = [width |-> w, bits |-> B], w \in Nat, NEW held, NEW first
    PROVE  Joined(h, held, first, 0) = h
<1>1. Taken(held, first, 0) = {}
  BY DEF Taken
<1> QED
  BY <1>1 DEF Joined

\* A count of elements, and the whole blocks of them.
LEMMA WholeBlocks ==
    ASSUME NEW i \in Nat
    PROVE  /\ i % bits_per_block \in 0 .. bits_per_block - 1
           /\ i - (i % bits_per_block) \in 0 .. i
           /\ (i - (i % bits_per_block)) % bits_per_block = 0
           /\ i % bits_per_block = 0 => (i + bits_per_block) % bits_per_block = 0
           /\ \A n \in 0 .. bits_per_block - 1 : i % bits_per_block = 0 => (i + n) % bits_per_block = n
           /\ (i + 1) % bits_per_block =
                 IF (i % bits_per_block) + 1 = bits_per_block THEN 0 ELSE (i % bits_per_block) + 1
<1> DEFINE m == bits_per_block
           q == index(i)
           r == offset(i)
<1>1. m \in Nat \ {0} /\ q \in Nat /\ r \in 0 .. m - 1 /\ i = q * m + r /\ i % m = r
  BY IndexOffset, BitsPerBlockAssumption DEF offset, Offset
<1>2. q * m \in Nat /\ (q + 1) * m = q * m + m /\ 0 \in 0 .. m - 1 /\ q + 1 \in Nat
  BY <1>1
<1> HIDE DEF m, q, r
<1>3. \A n \in 0 .. m - 1 : (q * m + n) % m = n /\ ((q + 1) * m + n) % m = n
  BY <1>1, <1>2, Remainder
<1>4. i - (i % m) = q * m /\ (q * m) % m = 0
  <2>1. (q * m + 0) % m = 0
    BY <1>2, <1>3
  <2>2. i % m = r /\ i - r = q * m
    BY <1>1, <1>2
  <2>3. q * m + 0 = q * m
    BY <1>2
  <2> QED
    BY <2>1, <2>2, <2>3
<1>5. r = 0 => (i + m) % m = 0
  <2>1. ((q + 1) * m + 0) % m = 0
    BY <1>2, <1>3
  <2>2. r = 0 => i + m = (q + 1) * m + 0
    BY <1>1, <1>2
  <2> QED
    BY <2>1, <2>2
<1>6. r = 0 => \A n \in 0 .. m - 1 : (i + n) % m = n
  BY <1>1, <1>2, <1>3
<1>7. (i + 1) % m = IF r + 1 = m THEN 0 ELSE r + 1
  <2>1. CASE r + 1 = m
    <3>1. i + 1 = (q + 1) * m + 0
      BY <1>1, <1>2, <2>1
    <3> QED
      BY <1>2, <1>3, <2>1, <3>1
  <2>2. CASE r + 1 # m
    <3>1. r + 1 \in 0 .. m - 1 /\ i + 1 = q * m + (r + 1)
      BY <1>1, <1>2, <2>2
    <3> QED
      BY <1>3, <2>2, <3>1
  <2> QED
    BY <2>1, <2>2
<1>8. i - (i % m) \in 0 .. i
  BY <1>1, <1>2, <1>4
<1> QED
  BY <1>1, <1>4, <1>5, <1>6, <1>7, <1>8 DEF m

\* A width's room, where the sequence has that width.
LEMMA RoomThere ==
    ASSUME TypeOK', NEW x \in Obj, NEW n \in Nat, Held(x)'.width = n
    PROVE  Room(x, n)'
<1>1. m_size'[x] = n
  BY DEF Held
<1>2. n <= Ceiling /\ Ceiling \in Nat /\ blocks_for(n) <= capacity'[x]
  BY <1>1, CeilingType DEF TypeOK
<1> QED
  BY <1>2, NAssumption DEF Room, check_capacity, Ceiling

\* Two widths' sum does not wrap where it passes the ceiling.
LEMMA WidthSum ==
    ASSUME NEW width \in Nat, NEW count \in Nat, ~(width_sum(width, count) > max_addressable_width)
    PROVE  width_sum(width, count) = width + count
<1> DEFINE half == (SizeMod \div 2) - 1
           q == half \div bits_per_block
<1>1. SizeMod \in Nat \ {0} /\ bits_per_block \in Nat \ {0} /\ half \in Int /\ half < SizeMod - 1
  BY SizeModAssumption, BitsPerBlockAssumption
<1>2. q \in Int /\ q * bits_per_block \in Int /\ q * bits_per_block <= half
  <2> HIDE DEF half
  <2> QED
    BY <1>1
<1>3. max_addressable_width < top
  <2> HIDE DEF half
  <2>1. max_addressable_width = q * bits_per_block
    BY DEF max_addressable_width, half
  <2> HIDE DEF q
  <2> QED
    BY <1>1, <1>2, <2>1 DEF top
<1>4. top \in Int /\ max_addressable_width \in Int
  BY <1>1, <1>2 DEF top, max_addressable_width
<1> QED
  BY <1>3, <1>4 DEF width_sum

\* What was held when the call began is a width and positions.
LEMMA StartTypes ==
    ASSUME Began
    PROVE  /\ \A x \in Obj : start[x] = [width |-> start[x].width, bits |-> start[x].bits]
           /\ start[v].width \in Nat /\ start[v].bits \subseteq 0 .. start[v].width - 1
           /\ start[src].width \in Nat /\ start[src].bits \subseteq 0 .. start[src].width - 1
           /\ v \in Obj /\ tmp \in Obj /\ src \in Obj /\ v # tmp /\ v # src /\ tmp # src
           /\ MaxSource \in Nat
BY ContainersAssumption, WidthsAssumption, CeilingType DEF Began

\* The first k of a range appended, or assigned, are those that a call that
\* ends is to have placed, and that one that throws may have left.
LEMMA PlacedByAppending ==
    ASSUME Began, Appending, frame.stage = "only", NEW k \in Nat, k <= Given.count
    PROVE  /\ Spliced(k) = Joined(Base, Source, Given.first, k)
           /\ Prefix(k) = Joined(Base, Source, Given.first, k)
           /\ Length = Given.count
<1> DEFINE W == start[v].width
           SB == start[v].bits
           T == Taken(Source, Given.first, k)
<1>1. W \in Nat /\ SB \subseteq 0 .. W - 1
  BY StartTypes
<1>2. Given = op.range /\ RangeOK(op.range) /\ Source = start[op.range.from] /\ op.range.tier # "none"
  <2>1. Given = op.range
    BY DEF Given
  <2> QED
    BY <2>1, StageTypes DEF Source, RangeOK
<1>3. Brought(k) = T
  BY <1>2 DEF Brought, Taken
<1>4. op.name \in {"append_range", "assign_range"}
  BY DEF Appending
<1>5. Length = Given.count
  BY <1>2, <1>4 DEF Length
<1>6. \A o \in T : o \in Nat
  BY DEF Taken
<1>7. CASE op.name = "append_range"
  <2>1. From = W /\ Until = W /\ Base = start[v]
    BY <1>7, CallTypes DEF From, Until, Base
  <2>2. Joined(Base, Source, Given.first, k) = [width |-> W + k, bits |-> SB \cup {W + o : o \in T}]
    BY <2>1 DEF Joined
  <2> HIDE DEF T
  <2>3. {p \in SB : p < W} = SB /\ {q \in SB : q >= W} = {}
    BY <1>1
  <2>4. W - (W - W) + k = W + k
    BY <1>1
  <2>5. Spliced(k) = [width |-> W + k, bits |-> SB \cup {W + o : o \in T}]
    BY <1>3, <2>1, <2>3, <2>4 DEF Spliced
  <2>6. Prefix(k) = [width |-> W + k, bits |-> SB \cup {W + o : o \in T}]
    <3>1. \A w, A, B : [[width |-> w, bits |-> A] EXCEPT !.bits = B] = [width |-> w, bits |-> B]
      OBVIOUS
    <3>2. Prefix(k) = [Spliced(k) EXCEPT !.bits = SB \cup {W + o : o \in T}]
      BY <1>3, <2>1, <2>3 DEF Prefix
    <3> QED
      BY <2>5, <3>1, <3>2
  <2> QED
    BY <1>5, <2>2, <2>5, <2>6
<1>8. CASE op.name = "assign_range"
  <2>1. From = 0 /\ Until = W /\ Base = Empty
    BY <1>8 DEF From, Until, Base
  <2>2. Joined(Base, Source, Given.first, k) = [width |-> 0 + k, bits |-> {} \cup {0 + o : o \in T}]
    BY <2>1 DEF Joined, Empty
  <2> HIDE DEF T
  <2>3. {p \in SB : p < 0} = {} /\ {q \in SB : q >= W} = {}
    BY <1>1
  <2>4. W - (W - 0) + k = 0 + k
    BY <1>1
  <2>5. Spliced(k) = [width |-> 0 + k, bits |-> {} \cup {0 + o : o \in T}]
    BY <1>3, <2>1, <2>3, <2>4 DEF Spliced
  <2>6. Prefix(k) = [width |-> 0 + k, bits |-> {} \cup {0 + o : o \in T}]
    BY <1>3, <2>1, <2>3, <2>5 DEF Prefix
  <2> QED
    BY <1>5, <2>2, <2>5, <2>6
<1> QED
  BY <1>4, <1>7, <1>8

\* An exception out of an append leaves what it may.
LEMMA ThrownPrefix ==
    ASSUME Began, Appending, UNCHANGED <<op, start>>, NEW k \in Nat, k <= Given.count,
           frame.stage # "only" => Held(v)' = start[v],
           frame.stage = "only" => Held(v)' = Joined(Base, Source, Given.first, k),
           op.name = "append_range" => k = 0 \/ (thrown' = "source" /\ op.range.tier = "sized")
    PROVE  Thrown'
<1>1. CASE frame.stage # "only"
  BY <1>1 DEF Thrown
<1>2. CASE frame.stage = "only" /\ op.name = "append_range" /\ k = 0
  <2>1. Base = start[v]
    BY <1>2 DEF Base
  <2>2. Held(v)' = start[v]
    BY <1>2, <2>1, StartTypes, JoinedNone
  <2> QED
    BY <2>2 DEF Thrown
<1>3. CASE /\ frame.stage = "only"
           /\ \/ op.name = "assign_range"
              \/ op.name = "append_range" /\ thrown' = "source" /\ op.range.tier = "sized"
  <2>1. Held(v)' = Prefix(k) /\ Prefix(k)' = Prefix(k)
    <3>1. Held(v)' = Prefix(k)
      BY <1>3, PlacedByAppending
    <3>2. Prefix(k)' = Prefix(k)
      BY DEF Prefix, Spliced, From, Until, Brought
    <3> QED
      BY <3>1, <3>2
  <2>2. k <= Length' /\ k \in 0 .. MaxSource
    <3>1. Given = op.range
      BY <1>3 DEF Given
    <3>2. RangeOK(op.range)
      BY <3>1, StageTypes
    <3>3. op.range.from = src
      BY <1>3, <3>2, CallTypes DEF RangeOK
    <3>4. op.range.count \in 0 .. MaxSource /\ k <= op.range.count
      BY <3>1, <3>2, <3>3 DEF RangeOK
    <3>5. Length' = op.range.count
      BY <1>3 DEF Length
    <3> QED
      BY <3>4, <3>5, StartTypes
  <2> QED
    BY <1>3, <2>1, <2>2 DEF Thrown
<1> QED
  BY <1>1, <1>2, <1>3 DEF Appending

(***************************************************************************)
(* Appending.                                                              *)
(***************************************************************************)
\* What an append is at is a sequence's own width and positions.
LEMMA ToTypes ==
    ASSUME TypeOK, UnusedBitsClear, Began, Appending
    PROVE  /\ Held(frame.to) = [width |-> m_size[frame.to], bits |-> Held(frame.to).bits]
           /\ m_size[frame.to] \in Nat /\ Held(frame.to).width = m_size[frame.to]
           /\ Held(frame.to).bits \subseteq 0 .. m_size[frame.to] - 1
BY StageTypes, HeldBefore DEF Held

\* What is appended to, after a call of the storage that answers.
LEMMA Answered ==
    ASSUME TypeOK, UnusedBitsClear, Began, Appending, UNCHANGED <<op, start>>,
           frame'.stage = frame.stage, frame'.to = frame.to,
           NEW x, x = frame.to, NEW width, NEW S, Leaves(x, width, S)
    PROVE  /\ TypeOK' /\ UnusedBitsClear' /\ Began' /\ Appending'
           /\ Given' = Given /\ Source' = Source /\ Base' = Base /\ Left' = Left /\ Whole' = Whole
           /\ Held(frame.to)' = [width |-> width, bits |-> S]
           /\ call'.outcome = "ok"
           /\ RoomAhead => RoomAhead'
<1>1. x \in Obj /\ frame'.to = x /\ Base.width + Given.count \in Nat
  BY StageTypes DEF RangeOK
<1>2. /\ TypeOK' /\ UnusedBitsClear' /\ Began' /\ Appending'
      /\ Given' = Given /\ Source' = Source /\ Base' = Base /\ Left' = Left /\ Whole' = Whole
  BY AppendingKept, StageKept DEF Leaves
<1>3. Held(frame.to)' = [width |-> width, bits |-> S] /\ call'.outcome = "ok"
  BY <1>1 DEF Leaves
<1>4. ASSUME RoomAhead PROVE RoomAhead'
  <2> SUFFICES ASSUME Given.tier \in {"blit", "sized"} PROVE Room(frame.to, Base.width + Given.count)'
    BY <1>2 DEF RoomAhead
  <2> DEFINE n == Base.width + Given.count
  <2>1. Room(x, n)
    BY <1>4 DEF RoomAhead
  <2> PICK m \in Nat : m = n
    BY <1>1
  <2>2. Room(x, m)'
    BY <1>1, <1>2, <2>1, RoomKept DEF Leaves
  <2> QED
    BY <1>1, <1>2, <2>2
<1> QED
  BY <1>2, <1>3, <1>4

\* What is appended to, where no call is made.
LEMMA Uncalled ==
    ASSUME TypeOK, UnusedBitsClear, Began, Appending, UNCHANGED <<vars, op, start>>,
           frame'.stage = frame.stage, frame'.to = frame.to
    PROVE  /\ TypeOK' /\ UnusedBitsClear' /\ Began' /\ Appending'
           /\ Given' = Given /\ Source' = Source /\ Base' = Base /\ Left' = Left /\ Whole' = Whole
           /\ Held(frame.to)' = Held(frame.to)
           /\ RoomAhead => RoomAhead'
<1>1. /\ TypeOK' /\ UnusedBitsClear' /\ Began' /\ \A x : Held(x)' = Held(x)
      /\ \A x, n : Room(x, n) => Room(x, n)'
  BY UncalledKept
<1>2. Held(frame.to)' = Held(frame.to)
  BY DEF Held, vars
<1>3. Given' = Given /\ Source' = Source /\ Base' = Base /\ Left' = Left /\ Whole' = Whole
  BY StageKept
<1>4. Appending'
  BY <1>1, AppendingKept
<1>5. RoomAhead => RoomAhead'
  BY <1>3 DEF RoomAhead, Room, vars, check_capacity
<1> QED
  BY <1>1, <1>2, <1>3, <1>4, <1>5

\* An append that throws, its call refused or its source unread.
LEMMA AppendThrows ==
    ASSUME TypeOK, UnusedBitsClear, Began, FrameOK', Appending, UNCHANGED <<op, start>>,
           Refused \/ UNCHANGED vars, pc' = "threw", NEW k \in Nat, k <= Given.count,
           Held(frame.to) = Joined(Base, Source, Given.first, k),
           op.name = "append_range" => k = 0 \/ (thrown' = "source" /\ op.range.tier = "sized")
    PROVE  SequenceInv'
<1>1. TypeOK' /\ UnusedBitsClear' /\ Began' /\ Held(v)' = Held(v)
  BY UncalledKept, RefusedKept
<1>2. frame.stage # "only" => Held(v)' = start[v]
  BY <1>1 DEF Appending
<1>3. frame.stage = "only" => Held(v)' = Joined(Base, Source, Given.first, k)
  BY <1>1 DEF Appending
<1>4. Thrown'
  BY <1>2, <1>3, ThrownPrefix
<1> QED
  BY <1>1, <1>4, Arrives DEF SequenceInv

\* Room is made for what can be counted; the rest begins at once.
LEMMA AppendRangeStep ==
    ASSUME SequenceInv, UNCHANGED start, append_range
    PROVE  SequenceInv'
<1> DEFINE r == Given
<1>1. /\ TypeOK /\ UnusedBitsClear /\ Began /\ FrameOK
      /\ pc = "append_range" /\ AppendStarts /\ Appending
  BY DEF SequenceInv, Progress, append_range, AppendStarts
<1>2. PICK x \in Obj : x = frame.to
  BY <1>1, StageTypes
<1>3. /\ RangeOK(r) /\ range = r /\ Base.width \in Nat /\ to = x /\ r.count \in Nat
      /\ r.tier \in {"blit", "sized", "forward", "unsized", "pushed"}
  BY <1>1, <1>2, StageTypes DEF RangeOK
<1>4. /\ m_size[x] = Base.width /\ Held(x) = Base
      /\ Base = [width |-> Base.width, bits |-> Base.bits]
  BY <1>1, <1>2, ToTypes DEF AppendStarts
<1>5. /\ UNCHANGED <<op, start>> /\ frame'.stage = frame.stage /\ frame'.to = x
      /\ frame'.width = Base.width /\ frame'.i = 0 /\ frame'.block = zero /\ FrameOK'
  BY <1>1, <1>2, <1>3, <1>4 DEF append_range, FrameOK
<1>6. Joined(Base, Source, Given.first, 0) = Base /\ 0 \in Nat /\ 0 <= r.count
  BY <1>3, <1>4, JoinedNone
<1>7. handler = "threw"
  BY <1>1 DEF handler
<1>8. ASSUME pc' = "threw", Refused \/ UNCHANGED vars PROVE SequenceInv'
  BY <1>1, <1>2, <1>4, <1>5, <1>6, <1>8, AppendThrows
<1>9. ASSUME UNCHANGED vars
      PROVE  /\ TypeOK' /\ UnusedBitsClear' /\ Began' /\ Appending'
             /\ Given' = Given /\ Source' = Source /\ Base' = Base
             /\ Held(frame.to)' = Base /\ Joined(Base, Source, Given.first, 0)' = Base
  BY <1>1, <1>2, <1>4, <1>5, <1>6, <1>9, Uncalled
<1>10. CASE goto("push") /\ UNCHANGED vars /\ range.tier = "pushed"
  <2>1. Pushing'
    BY <1>3, <1>5, <1>9, <1>10 DEF Pushing
  <2> QED
    BY <1>5, <1>9, <1>10, <2>1, Arrives DEF goto, SequenceInv
<1>11. CASE goto("pack") /\ UNCHANGED vars /\ range.tier \in {"unsized", "forward"}
  <2>1. Gathered' = 0 /\ Packed' = 0
    BY <1>5, BitsPerBlockAssumption DEF Gathered, Packed
  <2>2. zero = Taken(Source, Given.first + 0, 0)
    BY DEF Taken, zero
  <2>3. RoomAhead'
    BY <1>3, <1>9, <1>11 DEF RoomAhead
  <2>4. Packing'
    BY <1>3, <1>5, <1>9, <1>11, <2>1, <2>2, <2>3 DEF Packing
  <2> QED
    BY <1>5, <1>9, <1>11, <2>4, Arrives DEF goto, SequenceInv
<1>12. CASE throws("length_error") /\ UNCHANGED vars
  BY <1>7, <1>8, <1>12 DEF throws
<1>13. CASE /\ r.tier \in {"blit", "sized"}
            /\ ~(width_sum(m_size[to], range.count) > max_addressable_width)
            /\ resize(to, width_sum(m_size[to], range.count), FALSE) /\ then("hand_back")
  <2>1. PICK total \in Nat : total = Base.width + r.count
    BY <1>3
  <2>2. width_sum(m_size[to], range.count) = total /\ total >= m_size[x]
    BY <1>3, <1>4, <1>13, <2>1, WidthSum
  <2>3. resize(x, total, FALSE)
    BY <1>3, <1>13, <2>2
  <2>4. CASE Refused
    BY <1>7, <1>8, <1>13, <2>4, Then DEF Refused
  <2>5. CASE Leaves(x, total, Held(x).bits)
    <3>1. /\ TypeOK' /\ UnusedBitsClear' /\ Began' /\ Appending'
          /\ Given' = Given /\ Base' = Base /\ call'.outcome = "ok"
          /\ Held(frame.to)' = [width |-> total, bits |-> Base.bits]
      BY <1>1, <1>2, <1>4, <1>5, <2>5, Answered
    <3>2. pc' = "hand_back"
      BY <1>13, <3>1, Then
    <3>3. Room(x, total)'
      <4>1. Held(x)'.width = total
        BY <2>5 DEF Leaves
      <4> QED
        BY <1>2, <2>1, <3>1, <4>1, RoomThere
    <3>4. RoomAhead'
      BY <1>5, <2>1, <3>1, <3>3 DEF RoomAhead
    <3>5. RoomMade'
      BY <1>5, <1>13, <2>1, <3>1, <3>4 DEF RoomMade
    <3> QED
      BY <1>5, <3>1, <3>2, <3>5, Arrives DEF SequenceInv
  <2> QED
    BY <1>1, <2>2, <2>3, <2>4, <2>5, WidenedLeaves
<1> QED
  BY <1>3, <1>10, <1>11, <1>12, <1>13 DEF append_range

\* The room made is handed back, and stays there.
LEMMA HandBackStep ==
    ASSUME SequenceInv, UNCHANGED start, hand_back
    PROVE  SequenceInv'
<1> DEFINE r == Given
<1>1. /\ TypeOK /\ UnusedBitsClear /\ Began /\ FrameOK
      /\ pc = "hand_back" /\ RoomMade /\ Appending
  BY DEF SequenceInv, Progress, hand_back, RoomMade
<1>2. PICK x \in Obj : x = frame.to
  BY <1>1, StageTypes
<1>3. PICK n \in Nat : n = Base.width
  BY <1>1, StageTypes
<1>4. /\ RangeOK(r) /\ range = r /\ to = x /\ r.count \in Nat /\ r.tier \in {"blit", "sized"}
      /\ Base.bits \subseteq 0 .. n - 1 /\ frame.width = n /\ frame.i = 0 /\ frame.block = zero
      /\ m_size[x] = n + r.count /\ Held(x).bits = Base.bits /\ RoomAhead
  BY <1>1, <1>2, <1>3, StageTypes, ToTypes DEF RangeOK, RoomMade
<1>5. UNCHANGED <<op, start, frame>> /\ FrameOK'
  BY <1>1 DEF hand_back, FrameOK
<1>6. resize(x, n, FALSE) /\ then(IF r.tier = "blit" THEN "blit" ELSE "pack")
  BY <1>4 DEF hand_back
<1>7. Leaves(x, n, {p \in Held(x).bits : p < n})
  <2>1. n <= m_size[x]
    BY <1>4
  <2>2. Room(x, n)
    BY <1>1, <2>1, HeldRoom
  <2> QED
    BY <1>1, <1>6, <2>2, ResizeClearLeaves
<1>8. {p \in Held(x).bits : p < n} = Base.bits
  BY <1>4
<1>9. Leaves(x, n, Base.bits)
  BY <1>7, <1>8
<1>10. /\ TypeOK' /\ UnusedBitsClear' /\ Began' /\ Appending'
       /\ Given' = Given /\ Source' = Source /\ Base' = Base /\ call'.outcome = "ok" /\ RoomAhead'
       /\ Held(frame.to)' = [width |-> n, bits |-> Base.bits]
  <2>1. \E S : S = Base.bits /\ Leaves(x, n, S)
    BY <1>9
  <2> QED
    BY <1>1, <1>2, <1>4, <1>5, <2>1, Answered
<1>11. Held(frame.to)' = Joined(Base', Source', Given'.first, 0)
  <2>1. \A h, held, first : h.width = n => Joined(h, held, first, 0) = [width |-> n, bits |-> h.bits]
    <3> SUFFICES ASSUME NEW h, NEW held, NEW first, h.width = n
                 PROVE  Joined(h, held, first, 0) = [width |-> n, bits |-> h.bits]
      OBVIOUS
    <3>1. h.bits \cup {h.width + o : o \in Taken(held, first, 0)} = h.bits /\ h.width + 0 = n
      BY DEF Taken
    <3> QED
      BY <3>1 DEF Joined
  <2> QED
    BY <1>3, <1>10, <2>1
<1>12. frame'.i = 0 /\ 0 \in 0 .. r.count /\ 0 % bits_per_block = 0
  BY <1>4, <1>5, WholeBlocks, BitsPerBlockAssumption
<1>13. pc' = IF r.tier = "blit" THEN "blit" ELSE "pack"
  BY <1>6, <1>10, Then
<1>14. CASE r.tier = "blit"
  <2>1. Blitting'
    BY <1>10, <1>11, <1>12, <1>14 DEF Blitting
  <2> QED
    BY <1>5, <1>10, <1>13, <1>14, <2>1, Arrives DEF SequenceInv
<1>15. CASE r.tier = "sized"
  <2>1. Gathered' = 0 /\ Packed' = 0
    BY <1>12 DEF Gathered, Packed
  <2>2. frame'.block = {} /\ frame'.width = Base'.width
    BY <1>3, <1>4, <1>5, <1>10 DEF zero
  <2>3. Taken(Source', Given'.first + 0, 0) = {}
    BY DEF Taken
  <2>4. Packing'
    BY <1>10, <1>11, <1>12, <1>15, <2>1, <2>2, <2>3 DEF Packing
  <2> QED
    BY <1>5, <1>10, <1>13, <1>15, <2>4, Arrives DEF SequenceInv
<1> QED
  BY <1>4, <1>14, <1>15

\* A block read at a position of the range still to come.
LEMMA BlockAhead ==
    ASSUME TypeOK, UnusedBitsClear, Began, Appending, NEW i \in Nat, i < Given.count,
           Held(frame.to) = Joined(Base, Source, Given.first, i)
    PROVE  LET a == block_at(m_blocks[Given.from], Given.first + i) IN
           /\ a \in Block
           /\ \A o \in Offset : i + o < Given.count =>
                 (o \in a <=> Given.first + i + o \in Source.bits)
<1> DEFINE g == Given.from
           n == Given.first + i
           a == block_at(m_blocks[g], n)
<1>1. RangeOK(Given) /\ n \in Nat /\ n < start[g].width /\ start[g].width \in Nat
  BY StageTypes, StartTypes DEF RangeOK
<1>2. g \in Obj /\ Given.count \in Nat /\ Given.first \in Nat /\ Given.first + Given.count <= start[g].width
  BY <1>1, ContainersAssumption DEF RangeOK
<1>3. n < m_size[g]
  BY <1>1, ReadsStart
<1>4. a \in Block /\ \A o \in Offset : o \in a <=> n + o \in Held(g).bits
  BY <1>1, <1>2, <1>3, PositionHeld
<1>5. \A o \in Offset : i + o < Given.count => (n + o \in Held(g).bits <=> n + o \in Source.bits)
  <2> SUFFICES ASSUME NEW o \in Offset, i + o < Given.count
               PROVE  n + o \in Held(g).bits <=> n + o \in Source.bits
    OBVIOUS
  <2>1. n + o \in Nat /\ n + o < start[g].width
    BY <1>1, <1>2, BitsPerBlockAssumption DEF Offset
  <2> QED
    BY <2>1, ReadsStart
<1> QED
  BY <1>4, <1>5

\* A sequence joined to is as wide as the two, and holds what it held first.
LEMMA JoinedTypes ==
    ASSUME NEW h, h.width \in Nat, h.bits \subseteq 0 .. h.width - 1,
           NEW held, NEW first, NEW k \in Nat
    PROVE  /\ Joined(h, held, first, k).width = h.width + k
           /\ Joined(h, held, first, k).bits \subseteq 0 .. (h.width + k) - 1
           /\ {p \in Joined(h, held, first, k).bits : p < h.width} = h.bits
           /\ Joined(h, held, first, k) =
                 [width |-> h.width + k, bits |-> Joined(h, held, first, k).bits]
<1>1. \A o \in Taken(held, first, k) : o \in 0 .. k - 1
  BY DEF Taken
<1> QED
  BY <1>1 DEF Joined

\* What an append holds before a step.
LEMMA AppendBefore ==
    ASSUME TypeOK, UnusedBitsClear, Began, Appending, NEW x, x = frame.to, NEW k \in Nat,
           Held(x) = Joined(Base, Source, Given.first, k)
    PROVE  /\ x \in Obj /\ to = x /\ RangeOK(Given) /\ range = Given
           /\ Base.width \in Nat /\ Base.bits \subseteq 0 .. Base.width - 1
           /\ Given.count \in Nat /\ Given.first \in Nat
           /\ m_size[x] = Base.width + k
           /\ Held(x).bits = Joined(Base, Source, Given.first, k).bits
           /\ Held(x).bits \subseteq 0 .. m_size[x] - 1
<1>1. /\ x \in Obj /\ to = x /\ RangeOK(Given) /\ range = Given
      /\ Base.width \in Nat /\ Base.bits \subseteq 0 .. Base.width - 1
  BY StageTypes
<1>2. Held(x).width = m_size[x] /\ Held(x).bits \subseteq 0 .. m_size[x] - 1
  BY <1>1, HeldBefore
<1>3. Joined(Base, Source, Given.first, k).width = Base.width + k
  BY <1>1, JoinedTypes
<1> QED
  BY <1>1, <1>2, <1>3 DEF RangeOK

\* A block appended is the next of the range.
LEMMA BlitStep ==
    ASSUME SequenceInv, UNCHANGED start, blit
    PROVE  SequenceInv'
<1> DEFINE r == Given
           B == bits_per_block
           a == block_at(m_blocks[range.from], range.first + frame.i)
<1>1. /\ TypeOK /\ UnusedBitsClear /\ Began /\ FrameOK
      /\ pc = "blit" /\ Blitting /\ Appending /\ RoomAhead /\ B \in Nat \ {0}
  BY BitsPerBlockAssumption DEF SequenceInv, Progress, blit, Blitting
<1>2. PICK x \in Obj : x = frame.to
  BY <1>1, StageTypes
<1>3. PICK i \in Nat : i = frame.i
  BY <1>1, StageTypes DEF Blitting, RangeOK
<1>4. /\ RangeOK(r) /\ range = r /\ to = x /\ r.count \in Nat /\ r.first \in Nat /\ r.tier = "blit"
      /\ Base.width \in Nat /\ i % B = 0 /\ m_size[x] = Base.width + i
      /\ Held(x).bits = Joined(Base, Source, r.first, i).bits
      /\ Room(x, Base.width + r.count)
  <2>1. Held(x) = Joined(Base, Source, Given.first, i)
    BY <1>1, <1>2, <1>3 DEF Blitting
  <2> QED
    BY <1>1, <1>2, <1>3, <2>1, AppendBefore DEF Blitting, RoomAhead
<1>5. /\ UNCHANGED <<op, start>> /\ frame'.stage = frame.stage /\ frame'.to = x
      /\ frame'.i = i + B /\ FrameOK'
  BY <1>1, <1>2, <1>3 DEF blit, advance, FrameOK
<1>6. i + B <= r.count
  BY <1>1, <1>3, <1>4 DEF blit
<1>7. a \in Block /\ a = {o \in 0 .. B - 1 : r.first + i + o \in Source.bits}
  <2>1. Held(frame.to) = Joined(Base, Source, Given.first, i) /\ i < r.count
    BY <1>1, <1>2, <1>3, <1>4, <1>6 DEF Blitting
  <2>2. a \in Block /\ \A o \in Offset : i + o < r.count => (o \in a <=> r.first + i + o \in Source.bits)
    BY <1>1, <1>3, <1>4, <2>1, BlockAhead
  <2>3. a \subseteq 0 .. B - 1 /\ \A o \in 0 .. B - 1 : o \in Offset /\ i + o < r.count
    BY <1>1, <1>4, <1>6, <2>2 DEF Block, Offset
  <2> QED
    BY <2>2, <2>3
<1>8. append(x, a) /\ then("blit")
  BY <1>4 DEF blit
<1>9. PICK w \in Nat : w = Base.width
  BY <1>4
<1>10. Leaves(x, w + (i + B), Held(x).bits \cup {w + i + o : o \in a})
  <2>1. Room(x, m_size[x] + B)
    <3>1. m_size[x] + B \in Nat /\ m_size[x] + B <= Base.width + r.count /\ Base.width + r.count \in Nat
      BY <1>1, <1>4, <1>6
    <3> QED
      BY <1>1, <1>4, <3>1, LessRoom
  <2> HIDE DEF a
  <2>2. Leaves(x, m_size[x] + B, Held(x).bits \cup {m_size[x] + o : o \in a})
    BY <1>1, <1>7, <1>8, <2>1, AppendLeaves
  <2>3. m_size[x] = w + i /\ m_size[x] + B = w + (i + B)
    BY <1>1, <1>4, <1>9
  <2> QED
    BY <2>2, <2>3
<1> HIDE DEF a
<1>11. Joined(Base, Source, r.first, i).bits \cup {w + i + o : o \in a}
          = Joined(Base, Source, r.first, i + B).bits
  <2>1. PICK n \in Nat : n = i + B
    BY <1>1
  <2>2. PICK f \in Nat : f = r.first
    BY <1>4
  <2>3. PICK m \in Nat : m = f + i
    OBVIOUS
  <2>4. a = Taken(Source, m, B)
    BY <1>7, <2>2, <2>3 DEF Taken
  <2>5. With(JoinedBits(Base, Source, f, i), Base, i, Taken(Source, m, B)) = JoinedBits(Base, Source, f, n)
    BY <1>1, <1>4, <2>1, <2>3, JoinedMore
  <2> QED
    BY <1>9, <2>1, <2>2, <2>4, <2>5 DEF With, JoinedBits
<1>12. /\ TypeOK' /\ UnusedBitsClear' /\ Began' /\ Appending'
       /\ Given' = Given /\ Source' = Source /\ Base' = Base /\ call'.outcome = "ok" /\ RoomAhead'
       /\ Held(frame.to)' = [width |-> w + (i + B), bits |-> Joined(Base, Source, r.first, i + B).bits]
  <2>1. \E S : S = Joined(Base, Source, r.first, i + B).bits /\ Leaves(x, w + (i + B), S)
    BY <1>4, <1>10, <1>11
  <2> QED
    BY <1>1, <1>2, <1>5, <2>1, Answered
<1>13. Held(frame.to)' = Joined(Base, Source, r.first, i + B)
  BY <1>9, <1>12 DEF Joined
<1>14. i + B \in 0 .. r.count /\ (i + B) % B = 0
  BY <1>1, <1>4, <1>6, WholeBlocks
<1>15. Blitting'
  BY <1>4, <1>5, <1>12, <1>13, <1>14 DEF Blitting
<1> QED
  BY <1>5, <1>8, <1>12, <1>15, Then, Arrives DEF SequenceInv

\* The positions left are fewer than a block, and room is made for them.
LEMMA BlitRestStep ==
    ASSUME SequenceInv, UNCHANGED start, blit_rest
    PROVE  SequenceInv'
<1> DEFINE r == Given
           B == bits_per_block
           a == block_at(m_blocks[range.from], range.first + frame.i)
<1>1. /\ TypeOK /\ UnusedBitsClear /\ Began /\ FrameOK
      /\ pc = "blit" /\ Blitting /\ Appending /\ RoomAhead /\ B \in Nat \ {0}
  BY BitsPerBlockAssumption DEF SequenceInv, Progress, blit_rest, Blitting
<1>2. PICK x \in Obj : x = frame.to
  BY <1>1, StageTypes
<1>3. PICK i \in Nat : i = frame.i
  BY <1>1, StageTypes DEF Blitting, RangeOK
<1>4. Held(x) = Joined(Base, Source, Given.first, i) /\ i \in 0 .. r.count
  BY <1>1, <1>2, <1>3 DEF Blitting
<1>5. /\ RangeOK(r) /\ range = r /\ to = x /\ r.count \in Nat /\ r.first \in Nat /\ r.tier = "blit"
      /\ Base.width \in Nat /\ i % B = 0 /\ m_size[x] = Base.width + i
      /\ Held(x).bits = Joined(Base, Source, r.first, i).bits
      /\ Room(x, Base.width + r.count)
  BY <1>1, <1>2, <1>3, <1>4, AppendBefore DEF Blitting, RoomAhead
<1>6. UNCHANGED <<op, start>> /\ r.count - i < B
  BY <1>1, <1>3, <1>5 DEF blit_rest
<1>7. Left = r.count - i /\ Whole = i /\ rest = Left /\ r.count - i \in 0 .. B - 1
  <2>1. r.count - i \in 0 .. B - 1 /\ i + (r.count - i) = r.count
    BY <1>1, <1>4, <1>5, <1>6
  <2>2. r.count % B = r.count - i
    BY <1>5, <2>1, WholeBlocks
  <2> QED
    BY <1>4, <1>5, <2>1, <2>2 DEF Left, Whole, rest
<1>8. CASE i = r.count
  <2>1. UNCHANGED <<vars, frame>> /\ pc' = "appended"
    <3>1. ~(frame.i < range.count)
      BY <1>3, <1>5, <1>8
    <3>2. UNCHANGED <<vars, frame>> /\ goto("appended")
      BY <3>1, Zenon DEF blit_rest
    <3> QED
      BY <3>2 DEF goto
  <2>2. /\ TypeOK' /\ UnusedBitsClear' /\ Began' /\ Appending'
        /\ Given' = Given /\ Source' = Source /\ Base' = Base /\ Held(frame.to)' = Held(frame.to)
    BY <1>1, <1>6, <2>1, Uncalled
  <2>3. Appended'
    BY <1>2, <1>4, <1>8, <2>2 DEF Appended
  <2> QED
    BY <1>1, <2>1, <2>2, <2>3, Arrives DEF SequenceInv, FrameOK
<1>9. CASE i < r.count
  <2>1. PICK n \in Nat : n = Base.width + r.count
    BY <1>5
  <2>2. m_size[to] + rest = n /\ n >= m_size[x]
    BY <1>4, <1>5, <1>7, <2>1
  <2>3. /\ resize(x, n, FALSE) /\ then("write_rest")
        /\ frame' = [frame EXCEPT !.block = a]
    BY <1>3, <1>5, <1>9, <2>2 DEF blit_rest
  <2>4. Leaves(x, n, Held(x).bits)
    BY <1>1, <1>5, <2>1, <2>2, <2>3, WidenedLeaves
  <2>5. frame'.stage = frame.stage /\ frame'.to = frame.to /\ frame'.block = a /\ FrameOK'
    BY <1>1, <2>3 DEF FrameOK
  <2>6. a \in Block /\ \A o \in Offset : i + o < r.count => (o \in a <=> r.first + i + o \in Source.bits)
    BY <1>1, <1>2, <1>3, <1>4, <1>5, <1>9, BlockAhead
  <2> HIDE DEF a
  <2>7. /\ TypeOK' /\ UnusedBitsClear' /\ Began' /\ Appending' /\ call'.outcome = "ok"
        /\ Given' = Given /\ Source' = Source /\ Base' = Base /\ Left' = Left /\ Whole' = Whole
        /\ Held(frame.to)' = [width |-> n, bits |-> Held(x).bits]
    BY <1>1, <1>2, <1>6, <2>4, <2>5, Answered
  <2>8. \A o \in 0 .. Left - 1 : o \in a <=> r.first + Whole + o \in Source.bits
    BY <1>1, <1>4, <1>5, <1>7, <2>6 DEF Offset
  <2>9. Left > 0
    BY <1>4, <1>5, <1>7, <1>9
  <2>10. RestWaits'
    BY <1>5, <1>7, <2>1, <2>5, <2>6, <2>7, <2>8, <2>9 DEF RestWaits
  <2> QED
    BY <2>3, <2>5, <2>7, <2>10, Then, Arrives DEF SequenceInv
<1> QED
  BY <1>4, <1>5, <1>8, <1>9

\* The positions left are written above those laid.
LEMMA WriteRestStep ==
    ASSUME SequenceInv, UNCHANGED start, write_rest
    PROVE  SequenceInv'
<1> DEFINE r == Given
<1>1. /\ TypeOK /\ UnusedBitsClear /\ Began /\ FrameOK
      /\ pc = "write_rest" /\ RestWaits /\ Appending
  BY DEF SequenceInv, Progress, write_rest, RestWaits
<1>2. PICK x \in Obj : x = frame.to
  BY <1>1, StageTypes
<1>3. /\ RangeOK(r) /\ range = r /\ to = x /\ r.count \in Nat /\ r.first \in Nat
      /\ Base.width \in Nat /\ Base.bits \subseteq 0 .. Base.width - 1
      /\ m_size[x] = Base.width + r.count
      /\ Held(x).bits = Joined(Base, Source, r.first, Whole).bits
  BY <1>1, <1>2, StageTypes, ToTypes DEF RangeOK, RestWaits
<1>4. UNCHANGED <<op, start, frame>> /\ FrameOK' /\ pc' = "appended"
  BY <1>1 DEF write_rest, FrameOK, goto
<1>5. /\ Left \in Nat /\ Left <= bits_per_block /\ Whole \in Nat /\ Whole + Left = r.count
      /\ rest = Left
  <2>1. Left \in 0 .. bits_per_block - 1 /\ Whole \in 0 .. r.count
    BY <1>3, WholeBlocks DEF Left, Whole
  <2> QED
    BY <1>3, <2>1, BitsPerBlockAssumption DEF Left, Whole, rest
<1>6. PICK n \in Nat : n = Base.width + Whole
  BY <1>3, <1>5
<1>7. PICK left \in Nat : left = Left
  BY <1>5
<1>8. PICK a \in Block : a = frame.block
  BY <1>1 DEF RestWaits
<1>9. write_block_at(x, n, a, partial_block_mask(left))
  <2>1. m_size[to] - rest = n
    BY <1>3, <1>5, <1>6
  <2> QED
    BY <1>3, <1>5, <1>7, <1>8, <2>1 DEF write_rest
<1>10. n + left <= m_size[x] /\ left <= bits_per_block /\ n + left = m_size[x]
  BY <1>3, <1>5, <1>6, <1>7
<1> DEFINE S == {p \in Held(x).bits : p < n \/ n + left <= p}
                    \cup {p \in n .. n + left - 1 : p - n \in a}
<1>11. Leaves(x, m_size[x], S)
  BY <1>1, <1>9, <1>10, WrittenLeaves
<1>12. S = Joined(Base, Source, r.first, r.count).bits
  <2>1. PICK m \in Nat : m = r.first + Whole
    BY <1>3, <1>5
  <2>2. With(JoinedBits(Base, Source, r.first, Whole), Base, Whole, Taken(Source, m, left))
            = JoinedBits(Base, Source, r.first, r.count)
    BY <1>3, <1>5, <1>7, <2>1, JoinedMore
  <2>3. \A o : o \in Taken(Source, m, left) <=> o \in 0 .. left - 1 /\ o \in a
    BY <1>1, <1>7, <1>8, <2>1 DEF Taken, RestWaits
  <2>4. {p \in Held(x).bits : p < n \/ n + left <= p} = Held(x).bits
    <3>1. Held(x).bits \subseteq 0 .. (Base.width + Whole) - 1
      BY <1>3, <1>5, JoinedTypes
    <3> QED
      BY <1>6, <3>1
  <2>5. {p \in n .. n + left - 1 : p - n \in a} = {Base.width + Whole + o : o \in Taken(Source, m, left)}
    <3>1. \A p \in n .. n + left - 1 : p - n \in 0 .. left - 1 /\ n + (p - n) = p
      OBVIOUS
    <3>2. \A o \in 0 .. left - 1 : n + o \in n .. n + left - 1 /\ (n + o) - n = o
      OBVIOUS
    <3> HIDE DEF S
    <3>3. {p \in n .. n + left - 1 : p - n \in a} = {n + o : o \in Taken(Source, m, left)}
      BY <2>3, <3>1, <3>2
    <3> QED
      BY <1>6, <3>3
  <2> QED
    BY <1>3, <2>2, <2>4, <2>5 DEF With, JoinedBits
<1> HIDE DEF S
<1>13. /\ TypeOK' /\ UnusedBitsClear' /\ Began' /\ Appending'
       /\ Given' = Given /\ Source' = Source /\ Base' = Base
       /\ Held(frame.to)' = [width |-> m_size[x], bits |-> S]
  <2>1. PICK width : width = m_size[x]
    OBVIOUS
  <2>2. \E T : T = S /\ Leaves(x, width, T)
    BY <1>11, <2>1
  <2> QED
    BY <1>1, <1>2, <1>4, <2>1, <2>2, Answered
<1>14. Appended'
  BY <1>3, <1>12, <1>13 DEF Appended, Joined
<1> QED
  BY <1>4, <1>13, <1>14, Arrives DEF SequenceInv

\* The next c of the range read and appended.
LEMMA AppendedMore ==
    ASSUME TypeOK, UnusedBitsClear, Began, Appending, UNCHANGED <<op, start>>,
           frame'.stage = frame.stage, frame'.to = frame.to,
           NEW x, x = frame.to, NEW i \in Nat, NEW c \in Nat, NEW A,
           Held(x) = Joined(Base, Source, Given.first, i),
           \A o : o \in A <=> o \in 0 .. c - 1 /\ Given.first + i + o \in Source.bits,
           NEW n, n = m_size[x] + c, Leaves(x, n, Grown(x, A))
    PROVE  /\ TypeOK' /\ UnusedBitsClear' /\ Began' /\ Appending'
           /\ Given' = Given /\ Source' = Source /\ Base' = Base /\ call'.outcome = "ok"
           /\ Held(frame.to)' = Joined(Base, Source, Given.first, i + c)
           /\ RoomAhead => RoomAhead'
<1>1. /\ Base.width \in Nat /\ Given.first \in Nat /\ m_size[x] = Base.width + i
      /\ Held(x).bits = JoinedBits(Base, Source, Given.first, i)
  BY AppendBefore DEF JoinedBits
<1>2. PICK m : m = Given.first + i
  OBVIOUS
<1>3. PICK t : t = i + c
  OBVIOUS
<1>4. PICK width : width = Base.width + t
  OBVIOUS
<1>5. A = Taken(Source, m, c)
  BY <1>2 DEF Taken
<1>6. With(JoinedBits(Base, Source, Given.first, i), Base, i, Taken(Source, m, c))
          = JoinedBits(Base, Source, Given.first, t)
  BY <1>1, <1>2, <1>3, JoinedMore
<1>7. Grown(x, A) = JoinedBits(Base, Source, Given.first, t)
  BY <1>1, <1>5, <1>6 DEF With, Grown
<1>8. n = width
  BY <1>1, <1>3, <1>4
<1>9. \E T : T = JoinedBits(Base, Source, Given.first, t) /\ Leaves(x, width, T)
  BY <1>7, <1>8
<1>10. /\ TypeOK' /\ UnusedBitsClear' /\ Began' /\ Appending'
       /\ Given' = Given /\ Source' = Source /\ Base' = Base /\ call'.outcome = "ok"
       /\ Held(frame.to)' = [width |-> width, bits |-> JoinedBits(Base, Source, Given.first, t)]
       /\ RoomAhead => RoomAhead'
  BY <1>9, Answered
<1> QED
  BY <1>3, <1>4, <1>10 DEF Joined, JoinedBits

\* An element read is the range's, which is the source's.
LEMMA ElementRead ==
    ASSUME TypeOK, UnusedBitsClear, Began, Appending, Given.tier # "blit",
           NEW i \in Nat, i = frame.i, i < Given.count
    PROVE  element <=> Given.first + i \in Source.bits
<1>1. RangeOK(Given) /\ range = Given
  BY StageTypes
<1>2. Given.from = src /\ src # v /\ src \in Obj
  BY <1>1, ContainersAssumption DEF RangeOK
<1>3. Source = start[src] /\ Held(src) = start[src]
  BY <1>2, StageTypes
<1>4. PICK n \in Nat : n = Given.first + i
  BY <1>1 DEF RangeOK
<1>5. n < m_size[src]
  <2>1. Given.first \in Nat /\ Given.count \in Nat /\ Given.first + Given.count <= start[src].width
    BY <1>1, <1>2 DEF RangeOK
  <2>2. m_size[src] = start[src].width /\ m_size[src] \in Nat
    BY <1>2, <1>3, HeldBefore
  <2> QED
    BY <1>4, <2>1, <2>2
<1>6. BitAt(m_blocks[src], n) <=> n \in Held(src).bits
  BY <1>2, <1>5, PositionHeld
<1>7. element = BitAt(m_blocks[src], n)
  BY <1>1, <1>2, <1>4 DEF element
<1> QED
  BY <1>3, <1>4, <1>6, <1>7

\* The element after the first g of a range is taken with them.
LEMMA TakenNext ==
    ASSUME NEW held, NEW n \in Nat, NEW g \in Nat, NEW e, e <=> n + g \in held.bits
    PROVE  Taken(held, n, g) \cup {o \in {g} : e} = Taken(held, n, g + 1)
BY DEF Taken

\* What is held while blocks are packed, and what an exception takes back.
LEMMA PackBefore ==
    ASSUME TypeOK, UnusedBitsClear, Began, Packing, NEW i \in Nat, i = frame.i, NEW x, x = frame.to
    PROVE  /\ Gathered \in 0 .. bits_per_block - 1 /\ Packed \in 0 .. i /\ Packed + Gathered = i
           /\ x \in Obj /\ to = x /\ range = Given /\ RangeOK(Given)
           /\ Given.count \in Nat /\ Given.first \in Nat /\ Base.width \in Nat
           /\ i <= Given.count
           /\ m_size[x] = Base.width + Packed
           /\ Held(x) = Joined(Base, Source, Given.first, Packed)
           /\ Base.width <= Held(x).width /\ {p \in Held(x).bits : p < Base.width} = Base.bits
<1>1. /\ Gathered \in 0 .. bits_per_block - 1 /\ Packed \in 0 .. i /\ Packed + Gathered = i
  <2>1. Gathered \in 0 .. bits_per_block - 1 /\ Packed \in 0 .. i
    BY WholeBlocks DEF Gathered, Packed
  <2>2. Packed = i - Gathered
    BY DEF Packed
  <2> QED
    BY <2>1, <2>2, BitsPerBlockAssumption
<1>2. Packed \in Nat /\ Appending /\ Held(x) = Joined(Base, Source, Given.first, Packed)
  BY <1>1 DEF Packing
<1>3. /\ x \in Obj /\ to = x /\ range = Given /\ RangeOK(Given)
      /\ Given.count \in Nat /\ Given.first \in Nat
      /\ Base.width \in Nat /\ Base.bits \subseteq 0 .. Base.width - 1
      /\ m_size[x] = Base.width + Packed
  BY <1>2, AppendBefore
<1>4. i <= Given.count
  BY <1>3 DEF Packing
<1>5. /\ Joined(Base, Source, Given.first, Packed).width = Base.width + Packed
      /\ {p \in Joined(Base, Source, Given.first, Packed).bits : p < Base.width} = Base.bits
  BY <1>2, <1>3, JoinedTypes
<1>6. Base.width <= Held(x).width /\ {p \in Held(x).bits : p < Base.width} = Base.bits
  BY <1>2, <1>3, <1>5
<1> QED
  BY <1>1, <1>2, <1>3, <1>4, <1>6

\* A step of a pack that throws, where no room was made.
LEMMA PackTaken ==
    ASSUME TypeOK, UnusedBitsClear, Began, Packing, UNCHANGED <<op, start>>, Refused \/ UNCHANGED vars,
           frame'.stage = frame.stage, frame'.to = frame.to, frame'.width = frame.width, FrameOK',
           Given.tier # "sized", pc' = "resize_back", NEW i \in Nat, i = frame.i
    PROVE  SequenceInv'
<1>1. PICK x : x = frame.to
  OBVIOUS
<1>2. Appending /\ frame.width = Base.width /\ Given.tier \in {"forward", "unsized"} /\ x \in Obj
  BY <1>1, StageTypes DEF Packing
<1>3. Base.width <= Held(x).width /\ {p \in Held(x).bits : p < Base.width} = Base.bits
  BY <1>1, PackBefore
<1>4. TypeOK' /\ UnusedBitsClear' /\ Began' /\ \A y : Held(y)' = Held(y)
  BY UncalledKept, RefusedKept
<1>5. Held(frame.to)' = Held(x) /\ Appending'
  BY <1>1, <1>2, <1>4, AppendingKept
<1>6. Given' = Given /\ Base' = Base
  BY StageKept
<1>7. TakingBack'
  BY <1>2, <1>3, <1>5, <1>6 DEF TakingBack
<1> QED
  BY <1>4, <1>7, Arrives DEF SequenceInv

\* An element packed, and the block appended when it is full.
LEMMA PackStep ==
    ASSUME SequenceInv, UNCHANGED start, pack
    PROVE  SequenceInv'
<1> DEFINE r == Given
           B == bits_per_block
<1>1. /\ TypeOK /\ UnusedBitsClear /\ Began /\ FrameOK
      /\ pc = "pack" /\ Packing /\ Appending /\ RoomAhead /\ B \in Nat \ {0}
      /\ r.tier \in {"sized", "forward", "unsized"}
  BY BitsPerBlockAssumption DEF SequenceInv, Progress, pack, Packing
<1>2. PICK x \in Obj : x = frame.to
  BY <1>1, StageTypes
<1>3. PICK i \in Nat : i = frame.i
  BY <1>1, StageTypes DEF Packing, RangeOK
<1>4. PICK g \in Nat : g = Gathered
  BY <1>1, <1>2, <1>3, PackBefore
<1>5. PICK k \in Nat : k = Packed
  BY <1>1, <1>2, <1>3, PackBefore
<1>6. /\ g \in 0 .. B - 1 /\ k + g = i /\ to = x /\ range = r /\ RangeOK(r)
      /\ r.count \in Nat /\ r.first \in Nat /\ Base.width \in Nat /\ m_size[x] = Base.width + k
      /\ Held(x) = Joined(Base, Source, r.first, k)
  BY <1>1, <1>2, <1>3, <1>4, <1>5, PackBefore
<1>7. PICK a : a = frame.block \cup {o \in {frame.i % B} : element}
  OBVIOUS
<1>8. /\ UNCHANGED <<op, start>> /\ frame'.stage = frame.stage /\ frame'.to = frame.to
      /\ frame'.i = i + 1 /\ frame'.width = frame.width /\ FrameOK' /\ i < r.count
      /\ frame'.block = IF (i + 1) % B = 0 THEN zero ELSE a
      /\ IF (i + 1) % B = 0 THEN append(x, a) /\ then("pack") ELSE UNCHANGED vars /\ goto("pack")
  BY <1>1, <1>3, <1>6, <1>7 DEF pack, FrameOK
<1>9. \A o : o \in a <=> o \in 0 .. g /\ r.first + k + o \in Source.bits
  <2>1. element <=> r.first + i \in Source.bits
    BY <1>1, <1>3, <1>8, ElementRead
  <2>2. PICK n \in Nat : n = r.first + k
    BY <1>6
  <2>3. frame.block = Taken(Source, n, g) /\ frame.i % B = g
    BY <1>1, <1>4, <1>5, <2>2 DEF Packing, Gathered
  <2>4. \A o : o \in Taken(Source, n, g) <=> o \in 0 .. g - 1 /\ n + o \in Source.bits
    BY DEF Taken
  <2>5. n + g = r.first + i
    BY <1>6, <2>2
  <2> QED
    BY <1>6, <1>7, <2>1, <2>2, <2>3, <2>4, <2>5
<1>10. (i + 1) % B = IF g + 1 = B THEN 0 ELSE g + 1
  <2>1. i % B = g
    BY <1>3, <1>4 DEF Gathered
  <2> QED
    BY <2>1, WholeBlocks
<1>11. CASE g + 1 # B
  <2>1. (i + 1) % B = g + 1 /\ (i + 1) % B # 0 /\ (i + 1) - (g + 1) = k
    BY <1>6, <1>10, <1>11
  <2>2. UNCHANGED vars /\ pc' = "pack" /\ frame'.block = a
    BY <1>8, <2>1 DEF goto
  <2>3. /\ TypeOK' /\ UnusedBitsClear' /\ Began' /\ Appending'
        /\ Given' = Given /\ Source' = Source /\ Base' = Base /\ RoomAhead'
        /\ Held(frame.to)' = Joined(Base, Source, r.first, k)
    <3>1. Held(frame.to) = Joined(Base, Source, r.first, k)
      BY <1>2, <1>6
    <3> QED
      BY <1>1, <1>8, <2>2, <3>1, Uncalled
  <2>4. Gathered' = g + 1 /\ Packed' = k
    BY <1>8, <2>1 DEF Gathered, Packed
  <2>5. a = Taken(Source, r.first + k, g + 1)
    BY <1>6, <1>9 DEF Taken
  <2>6. i + 1 \in 0 .. r.count /\ frame.width = Base.width
    BY <1>1, <1>6, <1>8 DEF Packing
  <2>7. Packing'
    BY <1>1, <1>8, <2>2, <2>3, <2>4, <2>5, <2>6 DEF Packing
  <2> QED
    BY <1>8, <2>2, <2>3, <2>7, Arrives DEF SequenceInv
<1>12. CASE g + 1 = B
  <2>1. /\ append(x, a) /\ then("pack") /\ frame'.block = zero /\ a \in Block /\ k + B = i + 1
        /\ (i + 1) % B = 0
    <3>1. a \in Block
      <4>1. \A o \in a : o \in 0 .. B - 1
        BY <1>1, <1>6, <1>9
      <4> QED
        BY <4>1 DEF Block, Offset
    <3> QED
      BY <1>1, <1>6, <1>8, <1>10, <1>12, <3>1
  <2>2. CASE Refused /\ ~Room(x, m_size[x] + B)
    <3>1. r.tier # "sized"
      <4> SUFFICES ASSUME r.tier = "sized" PROVE FALSE
        OBVIOUS
      <4>1. Room(x, Base.width + r.count)
        BY <1>1, <1>2 DEF RoomAhead
      <4>2. m_size[x] + B <= Base.width + r.count /\ m_size[x] + B \in Nat /\ Base.width + r.count \in Nat
        BY <1>1, <1>6, <1>8, <2>1
      <4> QED
        BY <1>1, <2>2, <4>1, <4>2, LessRoom
    <3>2. pc' = "resize_back"
      <4>1. handler = "resize_back"
        BY <1>1, <1>6, <3>1 DEF handler
      <4> QED
        BY <2>1, <2>2, <4>1, Then DEF Refused
    <3> QED
      BY <1>1, <1>3, <1>8, <2>2, <3>1, <3>2, PackTaken
  <2>3. CASE Leaves(x, m_size[x] + B, Held(x).bits \cup {m_size[x] + o : o \in a})
    <3>1. \A o : o \in a <=> o \in 0 .. B - 1 /\ r.first + k + o \in Source.bits
      BY <1>9, <1>12, <1>6
    <3>2. /\ TypeOK' /\ UnusedBitsClear' /\ Began' /\ Appending' /\ call'.outcome = "ok"
          /\ Given' = Given /\ Source' = Source /\ Base' = Base /\ RoomAhead'
          /\ Held(frame.to)' = Joined(Base, Source, r.first, k + B)
      <4>1. PICK n : n = m_size[x] + B
        OBVIOUS
      <4>2. Leaves(x, n, Grown(x, a))
        BY <2>3, <4>1 DEF Grown
      <4>3. B \in Nat
        BY <1>1
      <4> HIDE DEF r, B
      <4> QED
        BY <1>1, <1>2, <1>6, <1>8, <3>1, <4>1, <4>2, <4>3, AppendedMore DEF r
    <3>3. Gathered' = 0 /\ Packed' = i + 1
      BY <1>8, <2>1 DEF Gathered, Packed
    <3>4. zero = Taken(Source, r.first + (i + 1), 0)
      BY DEF Taken, zero
    <3>5. i + 1 \in 0 .. r.count /\ frame.width = Base.width
      BY <1>1, <1>6, <1>8 DEF Packing
    <3>6. Packing'
      BY <1>1, <1>8, <2>1, <3>2, <3>3, <3>4, <3>5 DEF Packing
    <3> QED
      BY <1>8, <2>1, <3>2, <3>6, Then, Arrives DEF SequenceInv
  <2> QED
    BY <1>1, <2>1, <2>2, <2>3, AppendLeaves
<1> QED
  BY <1>11, <1>12

\* The block gathered is written where it is not empty.
LEMMA PackRestStep ==
    ASSUME SequenceInv, UNCHANGED start, pack_rest
    PROVE  SequenceInv'
<1> DEFINE r == Given
<1>1. /\ TypeOK /\ UnusedBitsClear /\ Began /\ FrameOK
      /\ pc = "pack" /\ Packing /\ Appending /\ RoomAhead
      /\ r.tier \in {"sized", "forward", "unsized"}
  BY DEF SequenceInv, Progress, pack_rest, Packing
<1>2. PICK x \in Obj : x = frame.to
  BY <1>1, StageTypes
<1>3. PICK i \in Nat : i = frame.i
  BY <1>1, StageTypes DEF Packing, RangeOK
<1>4. /\ Gathered \in 0 .. bits_per_block - 1 /\ Packed \in 0 .. i /\ Packed + Gathered = i
      /\ to = x /\ range = r /\ RangeOK(r)
      /\ r.count \in Nat /\ r.first \in Nat /\ Base.width \in Nat /\ m_size[x] = Base.width + Packed
      /\ Held(x) = Joined(Base, Source, r.first, Packed)
  BY <1>1, <1>2, <1>3, PackBefore
<1>5. i = r.count /\ Left = Gathered /\ Whole = Packed /\ rest = Left
  <2>1. i = r.count
    BY <1>3, <1>4 DEF pack_rest
  <2> QED
    BY <1>3, <1>4, <2>1 DEF Left, Whole, Gathered, Packed, rest
<1>6. UNCHANGED <<op, start, frame>> /\ FrameOK'
  BY <1>1 DEF pack_rest, FrameOK
<1>7. CASE Left = 0
  <2>1. UNCHANGED vars /\ pc' = "appended"
    BY <1>5, <1>7 DEF pack_rest, goto
  <2>2. /\ TypeOK' /\ UnusedBitsClear' /\ Began' /\ Appending'
        /\ Given' = Given /\ Source' = Source /\ Base' = Base /\ Held(frame.to)' = Held(frame.to)
    BY <1>1, <1>6, <2>1, Uncalled
  <2>3. Packed = r.count
    BY <1>4, <1>5, <1>7
  <2>4. Appended'
    BY <1>2, <1>4, <2>2, <2>3 DEF Appended
  <2> QED
    BY <1>6, <2>1, <2>2, <2>4, Arrives DEF SequenceInv
<1>8. CASE Left # 0
  <2>1. PICK n \in Nat : n = Base.width + r.count
    BY <1>4
  <2>2. m_size[to] + rest = n /\ n >= m_size[x] /\ Left > 0
    BY <1>4, <1>5, <1>8, <2>1
  <2>3. resize(x, n, FALSE) /\ then("write_rest")
    BY <1>4, <1>5, <1>8, <2>2 DEF pack_rest
  <2>4. CASE Refused /\ ~Room(x, n)
    <3>1. r.tier # "sized"
      BY <1>1, <1>2, <2>1, <2>4 DEF RoomAhead
    <3>2. pc' = "resize_back"
      <4>1. handler = "resize_back"
        BY <1>1, <1>4, <3>1 DEF handler
      <4> QED
        BY <2>3, <2>4, <4>1, Then DEF Refused
    <3> QED
      BY <1>1, <1>3, <1>6, <2>4, <3>1, <3>2, PackTaken
  <2>5. CASE Leaves(x, n, Held(x).bits)
    <3>1. /\ TypeOK' /\ UnusedBitsClear' /\ Began' /\ Appending' /\ call'.outcome = "ok"
          /\ Given' = Given /\ Source' = Source /\ Base' = Base /\ Left' = Left /\ Whole' = Whole
          /\ Held(frame.to)' = [width |-> n, bits |-> Held(x).bits]
      BY <1>1, <1>2, <1>6, <2>5, Answered
    <3>2. \A o \in 0 .. Left - 1 : o \in frame.block <=> r.first + Whole + o \in Source.bits
      BY <1>1, <1>5 DEF Packing, Taken
    <3>3. frame.block \in Block
      <4>1. frame.block \subseteq 0 .. Gathered - 1
        BY <1>1 DEF Packing, Taken
      <4> QED
        BY <1>4, <4>1, BitsPerBlockAssumption DEF Block, Offset
    <3>4. RestWaits'
      BY <1>4, <1>5, <1>6, <2>1, <2>2, <3>1, <3>2, <3>3 DEF RestWaits
    <3> QED
      BY <1>6, <2>3, <3>1, <3>4, Then, Arrives DEF SequenceInv
  <2> QED
    BY <1>1, <2>2, <2>3, <2>4, <2>5, WidenedLeaves
<1> QED
  BY <1>7, <1>8

\* An element pushed back.
LEMMA PushStep ==
    ASSUME SequenceInv, UNCHANGED start, push
    PROVE  SequenceInv'
<1> DEFINE r == Given
<1>1. /\ TypeOK /\ UnusedBitsClear /\ Began /\ FrameOK
      /\ pc = "push" /\ Pushing /\ Appending /\ r.tier = "pushed"
  BY DEF SequenceInv, Progress, push, Pushing
<1>2. PICK x \in Obj : x = frame.to
  BY <1>1, StageTypes
<1>3. PICK i \in Nat : i = frame.i
  BY <1>1, StageTypes DEF Pushing, RangeOK
<1>4. Held(x) = Joined(Base, Source, r.first, i) /\ i \in 0 .. r.count
  BY <1>1, <1>2, <1>3 DEF Pushing
<1>5. /\ to = x /\ range = r /\ RangeOK(r) /\ r.count \in Nat /\ r.first \in Nat
      /\ m_size[x] = Base.width + i /\ Base.width \in Nat
  BY <1>1, <1>2, <1>4, AppendBefore
<1>6. op.name # "append_range"
  BY <1>1, CallTypes DEF Appending, Given
<1>7. UNCHANGED <<op, start>>
  BY DEF push
<1>8. CASE i < r.count
  <2>1. /\ push_back(x, element) /\ then("push") /\ frame' = [frame EXCEPT !.i = @ + 1]
    BY <1>3, <1>5, <1>8 DEF push, advance
  <2>2. frame'.stage = frame.stage /\ frame'.to = frame.to /\ frame'.i = i + 1 /\ FrameOK'
    BY <1>1, <1>3, <2>1 DEF FrameOK
  <2>3. PICK e \in BOOLEAN : e = element
    <3>1. \A p, S : (p \in S) \in BOOLEAN
      OBVIOUS
    <3>2. element \in BOOLEAN
      BY <3>1 DEF element, BitAt
    <3> QED
      BY <3>2
  <2>4. e <=> r.first + i \in Source.bits
    BY <1>1, <1>3, <1>8, <2>3, ElementRead
  <2>5. CASE Refused
    <3>1. pc' = "threw"
      <4>1. handler = "threw"
        BY <1>1 DEF handler
      <4> QED
        BY <2>1, <2>5, <4>1, Then DEF Refused
    <3>2. Held(frame.to) = Joined(Base, Source, Given.first, i) /\ i <= Given.count
      BY <1>2, <1>4
    <3> QED
      BY <1>1, <1>6, <1>7, <2>2, <2>5, <3>1, <3>2, AppendThrows
  <2>6. CASE Leaves(x, m_size[x] + 1, Held(x).bits \cup {p \in {m_size[x]} : e})
    <3>1. PICK a : a = {o \in {0} : e}
      OBVIOUS
    <3>2. PICK n : n = m_size[x] + 1
      OBVIOUS
    <3>3. Grown(x, a) = Held(x).bits \cup {p \in {m_size[x]} : e}
      <4>1. m_size[x] + 0 = m_size[x]
        BY <1>5
      <4>2. {m_size[x] + o : o \in a} = {p \in {m_size[x]} : e}
        BY <3>1, <4>1
      <4> QED
        BY <4>2 DEF Grown
    <3>4. Leaves(x, n, Grown(x, a))
      BY <2>6, <3>2, <3>3
    <3>5. \A o : o \in a <=> o \in 0 .. 1 - 1 /\ r.first + i + o \in Source.bits
      <4>1. 0 .. 1 - 1 = {0} /\ r.first + i + 0 = r.first + i
        BY <1>5
      <4> QED
        BY <2>4, <3>1, <4>1
    <3>6. /\ TypeOK' /\ UnusedBitsClear' /\ Began' /\ Appending' /\ call'.outcome = "ok"
          /\ Given' = Given /\ Source' = Source /\ Base' = Base
          /\ Held(frame.to)' = Joined(Base, Source, r.first, i + 1)
      <4>1. 1 \in Nat
        OBVIOUS
      <4> QED
        BY <1>1, <1>2, <1>4, <1>7, <2>2, <3>2, <3>4, <3>5, <4>1, AppendedMore
    <3>7. Pushing'
      BY <1>1, <1>5, <1>8, <2>2, <3>6 DEF Pushing
    <3> QED
      BY <2>1, <2>2, <3>6, <3>7, Then, Arrives DEF SequenceInv
  <2>7. push_back(x, e)
    BY <2>1, <2>3
  <2> QED
    BY <1>1, <2>5, <2>6, <2>7, PushLeaves
<1>9. CASE i = r.count
  <2>1. ~(frame.i < range.count)
    BY <1>3, <1>5, <1>9
  <2>2. UNCHANGED <<vars, frame>> /\ goto("appended")
    BY <2>1, Zenon DEF push
  <2>3. /\ TypeOK' /\ UnusedBitsClear' /\ Began' /\ Appending'
        /\ Given' = Given /\ Source' = Source /\ Base' = Base /\ Held(frame.to)' = Held(frame.to)
    BY <1>1, <1>7, <2>2, Uncalled
  <2>4. Appended'
    BY <1>2, <1>4, <1>9, <2>3 DEF Appended
  <2> QED
    BY <1>1, <2>2, <2>3, <2>4, Arrives DEF SequenceInv, FrameOK, goto
<1> QED
  BY <1>4, <1>5, <1>8, <1>9

\* What was appended is taken back, by a resize that needs no room.
LEMMA ResizeBackStep ==
    ASSUME SequenceInv, UNCHANGED start, resize_back
    PROVE  SequenceInv'
<1>1. /\ TypeOK /\ UnusedBitsClear /\ Began /\ FrameOK
      /\ pc = "resize_back" /\ TakingBack /\ Appending
  BY DEF SequenceInv, Progress, resize_back, TakingBack
<1>2. PICK x \in Obj : x = frame.to
  BY <1>1, StageTypes
<1>3. PICK n \in Nat : n = Base.width
  BY <1>1, StageTypes
<1>4. /\ to = x /\ frame.width = n /\ n <= m_size[x] /\ {p \in Held(x).bits : p < n} = Base.bits
      /\ Given.count \in Nat /\ Base.bits \subseteq 0 .. n - 1
  BY <1>1, <1>2, <1>3, StageTypes, ToTypes DEF TakingBack, RangeOK
<1>5. UNCHANGED <<op, start, frame>> /\ FrameOK' /\ pc' = "threw"
  BY <1>1 DEF resize_back, goto, FrameOK
<1>6. Leaves(x, n, Base.bits)
  <2>1. resize(x, n, FALSE)
    BY <1>4 DEF resize_back
  <2>2. Room(x, n)
    BY <1>1, <1>4, HeldRoom
  <2>3. Leaves(x, n, {p \in Held(x).bits : p < n})
    BY <1>1, <2>1, <2>2, ResizeClearLeaves
  <2> QED
    BY <1>4, <2>3
<1>7. /\ TypeOK' /\ UnusedBitsClear' /\ Began'
      /\ Held(frame.to)' = [width |-> n, bits |-> Base.bits]
  <2>1. \E S : S = Base.bits /\ Leaves(x, n, S)
    BY <1>6
  <2> QED
    BY <1>1, <1>2, <1>5, <2>1, Answered
<1>8. [width |-> n, bits |-> Base.bits] = Joined(Base, Source, Given.first, 0)
  <2>1. Taken(Source, Given.first, 0) = {}
    BY DEF Taken
  <2>2. Base.bits \cup {Base.width + o : o \in {}} = Base.bits /\ Base.width + 0 = n
    BY <1>3
  <2> QED
    BY <2>1, <2>2 DEF Joined
<1>9. frame.stage # "only" => Held(v)' = start[v]
  BY <1>1, <1>2, <1>6, StartTypes DEF Leaves, Appending
<1>10. frame.stage = "only" => Held(v)' = Joined(Base, Source, Given.first, 0)
  <2>1. frame.stage = "only" => frame.to = v /\ frame'.to = v
    BY <1>1, <1>5 DEF Appending
  <2> QED
    BY <1>7, <1>8, <2>1
<1>11. Thrown'
  <2>1. 0 \in Nat /\ 0 <= Given.count
    BY <1>4
  <2> QED
    BY <1>1, <1>5, <1>9, <1>10, <2>1, ThrownPrefix
<1> QED
  BY <1>5, <1>7, <1>11, Arrives DEF SequenceInv

\* An element that cannot be read sends each loop where its exceptions go.
LEMMA ReadThrowsStep ==
    ASSUME SequenceInv, UNCHANGED start, read_throws
    PROVE  SequenceInv'
<1>1. /\ TypeOK /\ UnusedBitsClear /\ Began /\ FrameOK /\ pc \in {"pack", "push", "write_at"}
  BY DEF SequenceInv, read_throws
<1>2. /\ UNCHANGED <<vars, op, start>> /\ thrown' = "source" /\ pc' = handler
      /\ frame'.stage = frame.stage /\ frame'.to = frame.to /\ frame'.width = frame.width
      /\ frame'.i = 0 /\ FrameOK'
  BY <1>1 DEF read_throws, throws, FrameOK
<1>3. TypeOK' /\ UnusedBitsClear' /\ Began' /\ \A x : Held(x)' = Held(x)
  BY <1>1, <1>2, UncalledKept
<1>4. CASE pc = "pack"
  <2>1. Packing /\ Appending
    BY <1>4 DEF SequenceInv, Progress, Packing
  <2>2. PICK x \in Obj : x = frame.to
    BY <1>1, <2>1, StageTypes
  <2>3. PICK i \in Nat : i = frame.i
    BY <1>1, <2>1, StageTypes DEF Packing, RangeOK
  <2>4. /\ range = Given /\ Packed \in 0 .. i /\ i <= Given.count /\ Given.count \in Nat
        /\ Held(x) = Joined(Base, Source, Given.first, Packed)
    BY <1>1, <2>1, <2>2, <2>3, PackBefore
  <2>5. CASE Given.tier = "sized"
    <3>1. pc' = "threw"
      BY <1>2, <1>4, <2>4, <2>5 DEF handler
    <3>2. PICK k \in Nat : k = Packed
      BY <2>4
    <3>3. Held(frame.to) = Joined(Base, Source, Given.first, k) /\ k <= Given.count
      BY <2>2, <2>4, <3>2
    <3>4. op.name = "append_range" => op.range.tier = "sized"
      BY <2>1, <2>5 DEF Appending, Given
    <3> QED
      BY <1>1, <1>2, <2>1, <3>1, <3>3, <3>4, AppendThrows
  <2>6. CASE Given.tier # "sized"
    <3>1. pc' = "resize_back"
      BY <1>2, <1>4, <2>1, <2>4, <2>6 DEF handler, Packing
    <3> QED
      BY <1>1, <1>2, <2>1, <2>3, <2>6, <3>1, PackTaken
  <2> QED
    BY <2>5, <2>6
<1>5. CASE pc = "push"
  <2>1. Pushing /\ Appending
    BY <1>5 DEF SequenceInv, Progress, Pushing
  <2>2. PICK i \in Nat : i = frame.i
    BY <1>1, <2>1, StageTypes DEF Pushing, RangeOK
  <2>3. Held(frame.to) = Joined(Base, Source, Given.first, i) /\ i <= Given.count
    BY <1>1, <2>1, <2>2, StageTypes DEF Pushing, RangeOK
  <2>4. op.name # "append_range"
    BY <1>1, <2>1, CallTypes DEF Appending, Given, Pushing
  <2>5. pc' = "threw"
    BY <1>2, <1>5 DEF handler
  <2> QED
    BY <1>1, <1>2, <2>1, <2>3, <2>4, <2>5, AppendThrows
<1>6. CASE pc = "write_at"
  <2>1. WritingIn
    BY <1>6 DEF SequenceInv, Progress
  <2>2. /\ op.name = "insert_range" /\ Inserting /\ Laid(Held(v), frame.i)
    BY <2>1 DEF WritingIn
  <2>3. last = op.pos + Gap /\ Until = op.pos /\ Gap \in Nat /\ op.pos \in 0 .. start[v].width
        /\ start[v].width \in Nat
    BY <1>1, <2>2, CallTypes, StartTypes DEF last, Until, Gap
  <2>4. /\ last' = last /\ Until' = Until /\ op' = op /\ start' = start /\ Held(v)' = Held(v)
        /\ Inserting'
    BY <1>2, <1>3, <2>2 DEF last, Until, Inserting
  <2>5. Held(v).width = last + (start[v].width - Until)
    BY <2>2, <2>3 DEF Laid
  <2>6. \A p \in 0 .. op.pos - 1 : p \in Held(v).bits <=> p \in start[v].bits
    BY <2>2 DEF Laid
  <2>7. \A t \in 0 .. (start[v].width - Until) - 1 : last + t \in Held(v).bits <=> Until + t \in start[v].bits
    BY <2>2, <2>3 DEF Laid, Above
  <2>8. Closing'
    <3>1. thrown' # "none" /\ frame'.i \in Nat /\ \A t \in Nat : ~(t < frame'.i)
      BY <1>2
    <3>2. (\A t \in 0 .. (start[v].width - Until) - 1 :
              (IF t < frame.i THEN op.pos + t ELSE last + t) \in Held(v).bits
                  <=> Until + t \in start[v].bits)'
      BY <2>4, <2>7, <3>1
    <3> QED
      BY <2>2, <2>4, <2>5, <2>6, <3>1, <3>2 DEF Closing
  <2>9. pc' = "close_gap"
    BY <1>2, <1>6 DEF handler
  <2> QED
    BY <1>2, <1>3, <2>8, <2>9, Arrives DEF SequenceInv
<1> QED
  BY <1>1, <1>4, <1>5, <1>6

(***************************************************************************)
(* Rebuilding.                                                             *)
(***************************************************************************)
\* A rebuild begins aside, with nothing.
LEMMA RebuildStep ==
    ASSUME SequenceInv, UNCHANGED start, rebuild
    PROVE  SequenceInv'
<1>1. /\ TypeOK /\ UnusedBitsClear /\ Began /\ FrameOK /\ pc = "rebuild" /\ Rebuilding
  BY DEF SequenceInv, Progress, rebuild
<1>2. /\ UNCHANGED <<vars, op, start>> /\ pc' = "append_range" /\ FrameOK'
      /\ frame'.stage = "head" /\ frame'.to = tmp
  BY <1>1 DEF rebuild, goto, FrameOK
<1>3. TypeOK' /\ UnusedBitsClear' /\ Began' /\ \A x : Held(x)' = Held(x)
  BY <1>1, <1>2, UncalledKept
<1>4. Base' = Empty
  BY <1>2 DEF Base, Empty
<1>5. Held(frame.to)' = Held(tmp)
  BY <1>2 DEF Held, vars
<1>6. AppendStarts'
  BY <1>1, <1>2, <1>3, <1>4, <1>5 DEF AppendStarts, Appending, Rebuilding
<1> QED
  BY <1>2, <1>3, <1>6, Arrives DEF SequenceInv

\* The head, the range and the tail, one after the other, are the splice.
LEMMA RebuiltSplices ==
    ASSUME Began, op.name = "insert_range"
    PROVE  LET middle == Joined(Front, start[op.range.from], op.range.first, op.range.count)
           IN  Joined(middle, start[v], op.pos, start[v].width - op.pos) = Spliced(Length)
<1> DEFINE W == start[v].width
           SB == start[v].bits
           R == start[op.range.from]
           middle == Joined(Front, R, op.range.first, op.range.count)
           whole == Joined(middle, start[v], op.pos, W - op.pos)
<1>1. PICK pos \in Nat : pos = op.pos /\ pos <= W
  BY CallTypes, StartTypes
<1>2. PICK n \in Nat : n = op.range.count
  BY CallTypes
<1>3. W \in Nat /\ SB \subseteq 0 .. W - 1
  BY StartTypes
<1>4. From = pos /\ Until = pos /\ Length = n
  BY <1>1, <1>2 DEF From, Until, Length
<1>5. PICK T : T = Taken(R, op.range.first, n)
  OBVIOUS
<1>6. Brought(n) = T
  BY <1>5, CallTypes DEF Brought, Taken, RangeOK
<1>7. Front.width = pos /\ Front.bits = {p \in SB : p < pos}
  <2>1. Front.width = 0 + pos /\ Front.bits = {} \cup {0 + o : o \in Taken(start[v], 0, pos)}
    BY <1>1 DEF Front, Joined, Empty
  <2>2. Taken(start[v], 0, pos) = {o \in 0 .. pos - 1 : 0 + o \in SB}
    BY DEF Taken
  <2> HIDE DEF SB, W
  <2>3. {0 + o : o \in {o \in 0 .. pos - 1 : 0 + o \in SB}} = {p \in SB : p < pos}
    <3>1. \A p \in SB : p \in Nat /\ 0 + p = p
      BY <1>3
    <3>2. \A o \in 0 .. pos - 1 : 0 + o = o
      OBVIOUS
    <3> QED
      BY <3>1, <3>2
  <2> QED
    BY <1>1, <2>1, <2>2, <2>3
<1>8. middle.width = pos + n /\ middle.bits = {p \in SB : p < pos} \cup {pos + o : o \in T}
  <2> HIDE DEF SB, W, R
  <2> QED
    BY <1>2, <1>5, <1>7 DEF Joined
<1>9. /\ whole = [width |-> middle.width + (W - pos),
                  bits  |-> middle.bits \cup {middle.width + o : o \in Taken(start[v], pos, W - pos)}]
  BY <1>1 DEF Joined
<1> HIDE DEF middle, whole, R
<1>10. {pos + n + o : o \in Taken(start[v], pos, W - pos)}
           = {p - pos + pos + n : p \in {q \in SB : q >= pos}}
  <2>1. Taken(start[v], pos, W - pos) = {o \in 0 .. (W - pos) - 1 : pos + o \in SB}
    BY DEF Taken
  <2> HIDE DEF SB, W
  <2>2. \A o \in 0 .. (W - pos) - 1 : pos + o >= pos /\ (pos + o) - pos + pos + n = pos + n + o
    BY <1>1, <1>3
  <2>3. \A p \in SB : p >= pos =>
            p - pos \in 0 .. (W - pos) - 1 /\ pos + (p - pos) = p /\ pos + n + (p - pos) = p - pos + pos + n
    BY <1>1, <1>3
  <2>4. {pos + n + o : o \in {o \in 0 .. (W - pos) - 1 : pos + o \in SB}}
            = {p - pos + pos + n : p \in {q \in SB : q >= pos}}
    BY <2>2, <2>3
  <2> QED
    BY <2>1, <2>4
<1>11. Spliced(n) = [width |-> W - (pos - pos) + n,
                     bits  |-> {p \in SB : p < pos} \cup {pos + o : o \in T}
                               \cup {p - pos + pos + n : p \in {q \in SB : q >= pos}}]
  BY <1>4, <1>6 DEF Spliced
<1>12. pos + n + (W - pos) = W - (pos - pos) + n
  BY <1>1, <1>3
<1> QED
  <2>1. whole = Spliced(n)
    BY <1>8, <1>9, <1>10, <1>11, <1>12
  <2> QED
    BY <1>4, <2>1 DEF whole, middle, R

\* A range appended is the next stage's start, or what a call is to leave.
LEMMA AppendReturnsStep ==
    ASSUME SequenceInv, UNCHANGED start, append_returns
    PROVE  SequenceInv'
<1>1. /\ TypeOK /\ UnusedBitsClear /\ Began /\ FrameOK /\ pc = "appended" /\ Appended /\ Appending
  BY DEF SequenceInv, Progress, append_returns, Appended
<1>2. UNCHANGED <<vars, op, start>> /\ frame'.to = frame.to /\ FrameOK'
  BY <1>1 DEF append_returns, FrameOK, Appending
<1>3. TypeOK' /\ UnusedBitsClear' /\ Began' /\ \A x : Held(x)' = Held(x)
  BY <1>1, <1>2, UncalledKept
<1>4. Held(frame.to)' = Joined(Base, Source, Given.first, Given.count)
  BY <1>1, <1>2 DEF Held, vars, Appended
<1>5. CASE frame.stage = "head"
  <2>1. frame'.stage = "middle" /\ pc' = "append_range"
    BY <1>1, <1>5 DEF append_returns, goto, FrameOK
  <2>2. Joined(Base, Source, Given.first, Given.count) = Front
    BY <1>5 DEF Base, Source, Given, Window, Front
  <2>3. Base' = Front
    BY <1>2, <2>1 DEF Base, Front
  <2>4. AppendStarts'
    BY <1>1, <1>2, <1>3, <1>4, <1>5, <2>1, <2>2, <2>3 DEF AppendStarts, Appending
  <2> QED
    BY <1>2, <1>3, <2>1, <2>4, Arrives DEF SequenceInv
<1>6. CASE frame.stage = "middle"
  <2>1. frame'.stage = "tail" /\ pc' = "append_range"
    BY <1>1, <1>6 DEF append_returns, goto, FrameOK
  <2>2. Joined(Base, Source, Given.first, Given.count)
            = Joined(Front, start[op.range.from], op.range.first, op.range.count)
    BY <1>6 DEF Base, Source, Given
  <2>3. Base' = Joined(Front, start[op.range.from], op.range.first, op.range.count)
    BY <1>2, <2>1 DEF Base, Front
  <2>4. AppendStarts'
    BY <1>1, <1>2, <1>3, <1>4, <1>6, <2>1, <2>2, <2>3 DEF AppendStarts, Appending
  <2> QED
    BY <1>2, <1>3, <2>1, <2>4, Arrives DEF SequenceInv
<1>7. CASE frame.stage = "tail"
  <2>1. frame' = frame /\ pc' = "move_in" /\ op.name = "insert_range" /\ frame.to = tmp
    BY <1>1, <1>7 DEF append_returns, goto, Appending
  <2>2. Joined(Base, Source, Given.first, Given.count) = Spliced(Length)
    BY <1>1, <1>7, <2>1, RebuiltSplices DEF Base, Source, Given, Window
  <2>3. Spliced(Length)' = Spliced(Length)
    BY <1>2 DEF Spliced, Length, From, Until, Brought
  <2>4. Held(tmp)' = Spliced(Length)
    BY <1>1, <1>3, <2>1, <2>2 DEF Appended
  <2>5. Rebuilt'
    BY <1>2, <2>1, <2>3, <2>4 DEF Rebuilt
  <2> QED
    BY <1>2, <1>3, <2>1, <2>5, Arrives DEF SequenceInv
<1>8. CASE frame.stage = "only"
  <2>1. frame' = frame /\ pc' = "done" /\ frame.to = v
    BY <1>1, <1>8 DEF append_returns, goto, Appending
  <2>2. Given.count \in Nat /\ Given.count <= Given.count
    BY <1>1, StageTypes DEF RangeOK
  <2>3. PICK k \in Nat : k = Given.count
    BY <2>2
  <2>4. Spliced(k) = Joined(Base, Source, Given.first, k) /\ Length = k
    BY <1>1, <1>8, <2>2, <2>3, PlacedByAppending
  <2>5. Spliced(Length)' = Spliced(Length)
    BY <1>2 DEF Spliced, Length, From, Until, Brought
  <2>6. Held(v)' = Spliced(Length)
    BY <1>1, <1>3, <2>1, <2>3, <2>4 DEF Appended
  <2>7. Placed'
    BY <2>5, <2>6 DEF Placed
  <2> QED
    BY <1>2, <1>3, <2>1, <2>7, Arrives DEF SequenceInv
<1> QED
  BY <1>1, <1>5, <1>6, <1>7, <1>8 DEF Appending

\* What was made aside is moved in.
LEMMA MoveInStep ==
    ASSUME SequenceInv, UNCHANGED start, move_in
    PROVE  SequenceInv'
<1>1. /\ TypeOK /\ UnusedBitsClear /\ Began /\ FrameOK /\ pc = "move_in" /\ Rebuilt
      /\ v \in Obj /\ tmp \in Obj /\ src \in Obj /\ v # tmp /\ v # src /\ tmp # src
  BY StartTypes DEF SequenceInv, Progress, move_in
<1>2. UNCHANGED <<op, frame, start>> /\ pc' = "done" /\ move_assign(v, tmp) /\ FrameOK'
  BY <1>1 DEF move_in, goto, FrameOK
<1>3. TypeOK' /\ UnusedBitsClear' /\ Held(v)' = Held(tmp) /\ Held(src)' = Held(src)
  BY <1>1, <1>2, MoveLeaves
<1>4. Began'
  BY <1>1, <1>2, <1>3 DEF Began
<1>5. Spliced(Length)' = Spliced(Length)
  BY <1>2 DEF Spliced, Length, From, Until, Brought
<1>6. Placed'
  BY <1>1, <1>3, <1>5 DEF Placed, Rebuilt
<1> QED
  BY <1>2, <1>3, <1>4, <1>6, Arrives DEF SequenceInv

(***************************************************************************)
(* Shifting.                                                               *)
(***************************************************************************)
\* An insertion's gap, and the tail above it.
LEMMA InsertTypes ==
    ASSUME Began, Inserting
    PROVE  /\ op.pos \in Nat /\ Gap \in Nat /\ Above \in Nat /\ start[v].width = op.pos + Above
           /\ start[v].width \in Nat /\ start[v].bits \subseteq 0 .. start[v].width - 1
           /\ v \in Obj /\ src \in Obj /\ v # src
           /\ From = op.pos /\ Until = op.pos /\ Length = Gap
           /\ op.name = "insert_range" => range = op.range
<1>1. op.pos \in 0 .. start[v].width /\ Gap \in Nat
  BY CallTypes DEF Gap
<1>2. From = op.pos /\ Until = op.pos /\ Length = Gap
  BY DEF Inserting, From, Until, Length, Gap
<1>3. range = op.range
  BY DEF Inserting, range
<1> QED
  BY <1>1, <1>2, <1>3, StartTypes DEF Above

\* A call on the sequence leaves the source, and an insertion an insertion.
LEMMA SourceKept ==
    ASSUME Began, UNCHANGED <<op, start>>, NEW width, NEW S, Leaves(v, width, S)
    PROVE  /\ TypeOK' /\ UnusedBitsClear' /\ Began' /\ call'.outcome = "ok"
           /\ Held(v)' = [width |-> width, bits |-> S]
<1>1. v \in Obj /\ src \in Obj \ {v}
  BY StartTypes
<1>2. Held(src)' = Held(src)
  BY <1>1 DEF Leaves
<1>3. Began'
  BY <1>2 DEF Began
<1> QED
  BY <1>3 DEF Leaves

\* An exception out of a sequence not yet written leaves it.
LEMMA ThrowsUnwritten ==
    ASSUME TypeOK, UnusedBitsClear, Began, FrameOK', UNCHANGED <<op, start>>, Refused \/ UNCHANGED vars,
           Held(v) = start[v], pc' = "threw"
    PROVE  SequenceInv'
<1>1. TypeOK' /\ UnusedBitsClear' /\ Began' /\ Held(v)' = Held(v)
  BY UncalledKept, RefusedKept
<1>2. Thrown'
  BY <1>1 DEF Thrown
<1> QED
  BY <1>1, <1>2, Arrives DEF SequenceInv

\* A gap is opened above the sequence, or the sequence is left.
LEMMA OpenGapStep ==
    ASSUME SequenceInv, UNCHANGED start, open_gap
    PROVE  SequenceInv'
<1>1. /\ TypeOK /\ UnusedBitsClear /\ Began /\ FrameOK
      /\ pc = "open_gap" /\ GapWaits /\ Inserting /\ Held(v) = start[v]
  BY DEF SequenceInv, Progress, open_gap, GapWaits
<1>2. /\ op.pos \in Nat /\ Gap \in Nat /\ start[v].width \in Nat /\ v \in Obj
      /\ start[v].bits \subseteq 0 .. start[v].width - 1 /\ start[v].width = op.pos + Above
      /\ m_size[v] = start[v].width /\ Above \in Nat
  BY <1>1, InsertTypes, HeldBefore
<1>3. /\ UNCHANGED <<op, start>> /\ FrameOK' /\ frame'.stage = frame.stage
      /\ frame'.width = start[v].width /\ frame'.i = 0
  BY <1>1, <1>2 DEF open_gap, FrameOK
<1>4. handler = "threw"
  BY <1>1 DEF handler
<1>5. PICK total : total = width_sum(m_size[v], op.range.count)
  OBVIOUS
<1>6. CASE total > max_addressable_width
  <2>1. UNCHANGED vars /\ pc' = "threw"
    BY <1>4, <1>5, <1>6 DEF open_gap, throws
  <2> QED
    BY <1>1, <1>3, <2>1, ThrowsUnwritten
<1>7. CASE ~(total > max_addressable_width)
  <2>1. total = start[v].width + Gap /\ total \in Nat /\ total >= m_size[v]
    BY <1>2, <1>5, <1>7, WidthSum DEF Gap
  <2>2. resize(v, total, FALSE) /\ then("shift_up")
    BY <1>5, <1>7 DEF open_gap
  <2>3. CASE Refused
    <3>1. pc' = "threw"
      BY <1>4, <2>2, <2>3, Then DEF Refused
    <3> QED
      BY <1>1, <1>3, <2>3, <3>1, ThrowsUnwritten
  <2>4. CASE Leaves(v, total, Held(v).bits)
    <3>1. TypeOK' /\ UnusedBitsClear' /\ Began' /\ call'.outcome = "ok"
          /\ Held(v)' = [width |-> total, bits |-> start[v].bits]
      BY <1>1, <1>3, <2>4, SourceKept
    <3>2. (IF 0 < Above THEN start[v].width - 0 ELSE op.pos) = start[v].width
      BY <1>2
    <3>3. Up(start[v].bits, start[v].width, Gap) = start[v].bits
      <4> PICK SB : SB = start[v].bits
        OBVIOUS
      <4> PICK W \in Nat : W = start[v].width
        BY <1>2
      <4>1. {p \in SB : p < W + Gap} = SB /\ {q \in SB : W <= q} = {}
        BY <1>2
      <4> QED
        BY <4>1 DEF Up
    <3>4. ShiftingUp'
      BY <1>1, <1>3, <2>1, <3>1, <3>2, <3>3 DEF ShiftingUp, Inserting, Gap, Above
    <3> QED
      BY <1>3, <2>2, <3>1, <3>4, Then, Arrives DEF SequenceInv
  <2> QED
    BY <1>1, <1>2, <2>1, <2>2, <2>3, <2>4, WidenedLeaves
<1> QED
  BY <1>6, <1>7

\* Positions, with c of them from n on written over from a block.
Over(S, n, c, A) == {p \in S : p < n \/ n + c <= p} \cup {p \in n .. n + c - 1 : p - n \in A}

\* A block that holds the c positions from a on, and is written where they go.
Reads(A, S, a, c) ==
    S \subseteq Int /\ a \in Nat /\ c \in Nat /\ \A o \in 0 .. c - 1 : o \in A <=> a + o \in S

UpOnce(S, a, c, gap, A) == Over(Up(S, a + c, gap), a + gap, c, A)

\* The c positions under those raised are raised from a block of them.
LEMMA UpMore ==
    ASSUME NEW S, NEW a, NEW c, NEW gap \in Nat, NEW A, Reads(A, S, a, c)
    PROVE  UpOnce(S, a, c, gap, A) = Up(S, a, gap)
<1> DEFINE b == a + c
           n == a + gap
<1>0. /\ S \subseteq Int /\ a \in Nat /\ c \in Nat /\ b \in Nat /\ n \in Nat
      /\ \A o \in 0 .. c - 1 : o \in A <=> a + o \in S
  BY DEF Reads
<1>1. \A m \in Nat : \A p : p \in Up(S, m, gap) <=>
          p \in Int /\ ((p \in S /\ p < m + gap) \/ (p - gap \in S /\ m <= p - gap))
  <2> SUFFICES ASSUME NEW m \in Nat, NEW p
               PROVE  p \in Up(S, m, gap) <=>
                         p \in Int /\ ((p \in S /\ p < m + gap) \/ (p - gap \in S /\ m <= p - gap))
    OBVIOUS
  <2>1. p \in {q + gap : q \in {r \in S : m <= r}} <=> p \in Int /\ p - gap \in S /\ m <= p - gap
    <3>1. \A q \in S : q + gap \in Int /\ (q + gap) - gap = q
      BY <1>0
    <3>2. p \in Int => (p - gap) + gap = p
      OBVIOUS
    <3> QED
      BY <3>1, <3>2
  <2>2. p \in S => p \in Int
    BY <1>0
  <2> QED
    BY <2>1, <2>2 DEF Up
<1>2. \A p \in Int : (p \in Up(S, b, gap) /\ (p < n \/ n + c <= p)) \/ (p \in n .. n + c - 1 /\ p - n \in A)
          <=> p \in Up(S, a, gap)
  <2> SUFFICES ASSUME NEW p \in Int
               PROVE  (p \in Up(S, b, gap) /\ (p < n \/ n + c <= p)) \/ (p \in n .. n + c - 1 /\ p - n \in A)
                          <=> p \in Up(S, a, gap)
    OBVIOUS
  <2>1. /\ p \in Up(S, b, gap) <=> ((p \in S /\ p < b + gap) \/ (p - gap \in S /\ b <= p - gap))
        /\ p \in Up(S, a, gap) <=> ((p \in S /\ p < a + gap) \/ (p - gap \in S /\ a <= p - gap))
    BY <1>0, <1>1
  <2>2. CASE p < n
    BY <1>0, <2>1, <2>2
  <2>3. CASE n + c <= p
    BY <1>0, <2>1, <2>3
  <2>4. CASE p \in n .. n + c - 1
    <3>1. p - n \in 0 .. c - 1 /\ a + (p - n) = p - gap
      BY <1>0, <2>4
    <3> QED
      BY <1>0, <2>1, <2>4, <3>1
  <2> QED
    BY <1>0, <2>2, <2>3, <2>4
<1>3. Up(S, b, gap) \subseteq Int /\ Up(S, a, gap) \subseteq Int
  BY <1>0, <1>1
<1> QED
  BY <1>2, <1>3 DEF Over, UpOnce

\* The block under what is up goes up.
LEMMA ShiftTailStep ==
    ASSUME SequenceInv, UNCHANGED start, shift_tail
    PROVE  SequenceInv'
<1> DEFINE B == bits_per_block
           W == start[v].width
<1>1. /\ TypeOK /\ UnusedBitsClear /\ Began /\ FrameOK
      /\ pc = "shift_up" /\ ShiftingUp /\ Inserting /\ B \in Nat \ {0}
  BY BitsPerBlockAssumption DEF SequenceInv, Progress, shift_tail, ShiftingUp
<1>2. /\ op.pos \in Nat /\ Gap \in Nat /\ Above \in Nat /\ W = op.pos + Above /\ W \in Nat /\ v \in Obj
      /\ start[v].bits \subseteq 0 .. W - 1
  BY <1>1, InsertTypes
<1>3. PICK i \in Nat : i = frame.i
  BY <1>1 DEF ShiftingUp
<1>4. tail_length = Above /\ i < Above
  BY <1>1, <1>3 DEF tail_length, Above, ShiftingUp, shift_tail
<1>5. PICK c : c = Min({B, Above - i})
  OBVIOUS
<1>6. c \in Nat \ {0} /\ c <= B /\ c <= Above - i /\ (i + B < Above => c = B) /\ (~(i + B < Above) => c = Above - i)
  <2>1. B \in Int /\ Above - i \in Int
    BY <1>1, <1>2
  <2>2. c \in {B, Above - i} /\ c <= B /\ c <= Above - i
    BY <1>5, <2>1, LesserOf
  <2> QED
    BY <1>1, <1>2, <1>4, <2>2
<1>7. PICK a \in Nat : a = op.pos + Above - i - c
  BY <1>2, <1>6
<1>8. PICK n \in Nat : n = a + Gap
  BY <1>2
<1>9. PICK block : block = block_at(m_blocks[v], a)
  OBVIOUS
<1>10. /\ write_block_at(v, n, block, partial_block_mask(c))
       /\ UNCHANGED <<op, start>> /\ frame' = [frame EXCEPT !.i = @ + B] /\ pc' = "shift_up"
  <2>1. op.pos + tail_length - frame.i - c = a
    BY <1>2, <1>3, <1>4, <1>7
  <2> QED
    BY <1>3, <1>4, <1>5, <1>8, <1>9, <2>1 DEF shift_tail, advance, goto, Gap
<1>11. /\ frame'.stage = frame.stage /\ frame'.width = frame.width /\ frame'.i = i + B /\ FrameOK'
  BY <1>1, <1>3, <1>10 DEF FrameOK
<1>12. PICK b \in Nat : b = a + c
  BY <1>6
<1>13. /\ b = W - i
       /\ Held(v).bits = Up(start[v].bits, b, Gap) /\ Held(v).width = W + Gap /\ m_size[v] = W + Gap
  <2>1. b = W - i
    BY <1>2, <1>6, <1>7, <1>12
  <2>2. Held(v) = [width |-> W + Gap, bits |-> Up(start[v].bits, b, Gap)]
    BY <1>1, <1>3, <1>4, <2>1 DEF ShiftingUp
  <2> QED
    BY <2>1, <2>2 DEF Held
<1>14. /\ block \in Block /\ \A o \in 0 .. c - 1 : o \in block <=> a + o \in start[v].bits
  <2>1. a < m_size[v]
    BY <1>2, <1>4, <1>12, <1>13, <1>6, <1>7
  <2>2. block \in Block /\ \A o \in Offset : o \in block <=> a + o \in Held(v).bits
    BY <1>1, <1>2, <1>9, <2>1, PositionHeld
  <2>3. \A o \in 0 .. c - 1 : a + o \in Held(v).bits <=> a + o \in start[v].bits
    <3> SUFFICES ASSUME NEW o \in 0 .. c - 1
                 PROVE  a + o \in Held(v).bits <=> a + o \in start[v].bits
      OBVIOUS
    <3>1. a + o < b + Gap /\ a + o < b /\ a + o \in Nat
      BY <1>2, <1>6, <1>12
    <3>2. a + o \notin {q + Gap : q \in {r \in start[v].bits : b <= r}}
      BY <1>2, <3>1
    <3> QED
      BY <1>13, <3>1, <3>2 DEF Up
  <2>4. \A o \in 0 .. c - 1 : o \in Offset
    BY <1>1, <1>6 DEF Offset
  <2> QED
    BY <2>2, <2>3, <2>4
<1> DEFINE S == Over(Held(v).bits, n, c, block)
<1>15. Leaves(v, m_size[v], S)
  <2>1. n + c <= m_size[v]
    BY <1>2, <1>6, <1>8, <1>12, <1>13
  <2> QED
    BY <1>1, <1>2, <1>6, <1>10, <1>14, <2>1, WrittenLeaves DEF Over
<1>16. S = Up(start[v].bits, a, Gap)
  <2> PICK SB : SB = start[v].bits
    OBVIOUS
  <2>1. SB \subseteq Int
    BY <1>2
  <2>2. PICK gap \in Nat : gap = Gap
    BY <1>2
  <2>3. n = a + gap /\ \A o \in 0 .. c - 1 : o \in block <=> a + o \in SB
    BY <1>8, <1>14, <2>2
  <2>4. Reads(block, SB, a, c)
    BY <1>6, <2>1, <2>3 DEF Reads
  <2>5. UpOnce(SB, a, c, gap, block) = Up(SB, a, gap)
    BY <2>4, UpMore
  <2> QED
    BY <1>12, <1>13, <2>2, <2>3, <2>5 DEF UpOnce
<1>17. PICK T : T = Up(start[v].bits, a, Gap)
  OBVIOUS
<1>18. PICK width : width = W + Gap
  OBVIOUS
<1>19. /\ TypeOK' /\ UnusedBitsClear' /\ Began' /\ Held(v)' = [width |-> width, bits |-> T]
  <2>1. Leaves(v, width, T)
    BY <1>13, <1>15, <1>16, <1>17, <1>18
  <2> QED
    BY <1>1, <1>10, <2>1, SourceKept
<1>20. (IF i + B < Above THEN W - (i + B) ELSE op.pos) = a
  BY <1>1, <1>2, <1>6, <1>7
<1> HIDE DEF B, W, S
<1>21. ShiftingUp'
  <2>1. Inserting' /\ Gap' = Gap /\ Above' = Above
    BY <1>1, <1>10, <1>11 DEF Inserting, Gap, Above
  <2>2. frame'.width = start'[v].width /\ frame'.i \in Nat /\ frame'.i = i + B /\ start' = start /\ op' = op
    BY <1>1, <1>10, <1>11 DEF ShiftingUp, B
  <2>3. (IF frame'.i < Above THEN start'[v].width - frame'.i ELSE op'.pos) = a
    BY <1>20, <2>2 DEF W
  <2>4. Held(v)' = [width |-> start'[v].width + Gap', bits |-> Up(start'[v].bits, a, Gap')]
    BY <1>17, <1>18, <1>19, <2>1, <2>2 DEF W
  <2> QED
    BY <2>1, <2>2, <2>3, <2>4 DEF ShiftingUp
<1> QED
  BY <1>10, <1>11, <1>19, <1>21, Arrives DEF SequenceInv

\* A gap whose positions are all laid is the splice.
LEMMA LaidSplices ==
    ASSUME Began, Inserting, NEW h, h = [width |-> h.width, bits |-> h.bits],
           h.bits \subseteq 0 .. h.width - 1, Laid(h, Gap)
    PROVE  h = Spliced(Length)
<1> DEFINE W == start[v].width
           SB == start[v].bits
<1>1. PICK pos \in Nat : pos = op.pos
  BY InsertTypes
<1>2. PICK g \in Nat : g = Gap
  BY InsertTypes
<1>3. PICK t \in Nat : t = Above
  BY InsertTypes
<1>4. /\ W = pos + t /\ SB \subseteq 0 .. W - 1 /\ From = pos /\ Until = pos /\ Length = g /\ W \in Nat
  BY <1>1, <1>2, <1>3, InsertTypes
<1>5. /\ h.width = W + g
      /\ \A p \in 0 .. pos - 1 : p \in h.bits <=> p \in SB
      /\ \A o \in 0 .. g - 1 : pos + o \in h.bits <=> o \in Brought(g)
      /\ \A u \in 0 .. t - 1 : pos + g + u \in h.bits <=> pos + u \in SB
  BY <1>1, <1>2, <1>3 DEF Laid
<1>6. Brought(g) \subseteq 0 .. g - 1
  BY DEF Brought
<1>7. Spliced(g) = [width |-> W - (pos - pos) + g,
                    bits  |-> {p \in SB : p < pos} \cup {pos + o : o \in Brought(g)}
                              \cup {p - pos + pos + g : p \in {q \in SB : q >= pos}}]
  BY <1>4 DEF Spliced
<1>8. PICK K : K = Brought(g)
  OBVIOUS
<1> HIDE DEF SB, W
<1>9. h.bits = {p \in SB : p < pos} \cup {pos + o : o \in K} \cup {p - pos + pos + g : p \in {q \in SB : q >= pos}}
  <2>1. \A p \in {p \in SB : p < pos} : p \in h.bits
    BY <1>4, <1>5
  <2>2. \A o \in K : pos + o \in h.bits
    BY <1>5, <1>6, <1>8
  <2>3. \A p \in {q \in SB : q >= pos} : p - pos + pos + g \in h.bits
    <3> SUFFICES ASSUME NEW p \in SB, p >= pos PROVE p - pos + pos + g \in h.bits
      OBVIOUS
    <3>1. p - pos \in 0 .. t - 1 /\ pos + (p - pos) = p /\ pos + g + (p - pos) = p - pos + pos + g
      BY <1>4
    <3> QED
      BY <1>5, <3>1
  <2>4. ASSUME NEW p \in h.bits
        PROVE  \/ p \in SB /\ p < pos
               \/ \E o \in K : p = pos + o
               \/ \E q \in SB : q >= pos /\ p = q - pos + pos + g
    <3>1. p \in 0 .. W + g - 1
      BY <1>4, <1>5
    <3>2. CASE p < pos
      BY <1>4, <1>5, <3>1, <3>2
    <3>3. CASE pos <= p /\ p < pos + g
      <4>1. p - pos \in 0 .. g - 1 /\ pos + (p - pos) = p
        BY <3>1, <3>3, <1>4
      <4> QED
        BY <1>5, <1>8, <4>1
    <3>4. CASE pos + g <= p
      <4>1. /\ p - (pos + g) \in 0 .. t - 1 /\ pos + g + (p - (pos + g)) = p
            /\ pos + (p - (pos + g)) >= pos
            /\ p = (pos + (p - (pos + g))) - pos + pos + g
        BY <1>4, <3>1, <3>4
      <4>2. pos + (p - (pos + g)) \in SB
        BY <1>5, <4>1
      <4> QED
        BY <4>1, <4>2
    <3> QED
      BY <1>4, <3>1, <3>2, <3>3, <3>4
  <2> QED
    BY <2>1, <2>2, <2>3, <2>4
<1>10. W - (pos - pos) + g = W + g
  BY <1>4
<1> QED
  BY <1>4, <1>5, <1>7, <1>8, <1>9, <1>10

\* Of the two, the second holds c more of the gap, after its first i.
Lays(h, g, i, c) ==
    /\ g.width = h.width
    /\ \A p \in Int : p < op.pos + i \/ op.pos + i + c <= p => (p \in g.bits <=> p \in h.bits)
    /\ \A o \in 0 .. c - 1 : op.pos + i + o \in g.bits <=> i + o \in Brought(Gap)

\* The next c positions of the gap are laid.
LEMMA LaidMore ==
    ASSUME Began, Inserting, NEW h, NEW g, NEW i \in Nat, NEW c \in Nat, i + c <= Gap,
           Laid(h, i), Lays(h, g, i, c)
    PROVE  Laid(g, i + c)
<1>1. op.pos \in Nat /\ Gap \in Nat /\ Above \in Nat
  BY InsertTypes
<1>2. \A p \in 0 .. op.pos - 1 : p \in g.bits <=> p \in start[v].bits
  BY <1>1 DEF Laid, Lays
<1>3. ASSUME NEW o \in 0 .. (i + c) - 1 PROVE op.pos + o \in g.bits <=> o \in Brought(Gap)
  <2>1. CASE o < i
    <3>1. op.pos + o \in Int /\ op.pos + o < op.pos + i /\ o \in 0 .. i - 1
      BY <1>1, <2>1
    <3> QED
      BY <3>1 DEF Laid, Lays
  <2>2. CASE i <= o
    <3>1. o - i \in 0 .. c - 1 /\ op.pos + i + (o - i) = op.pos + o /\ i + (o - i) = o
      BY <1>1, <2>2
    <3> QED
      BY <3>1 DEF Lays
  <2> QED
    BY <2>1, <2>2
<1>4. ASSUME NEW t \in 0 .. Above - 1 PROVE op.pos + Gap + t \in g.bits <=> op.pos + t \in start[v].bits
  <2>1. op.pos + Gap + t \in Int /\ op.pos + i + c <= op.pos + Gap + t
    BY <1>1
  <2> QED
    BY <2>1 DEF Laid, Lays
<1> QED
  BY <1>2, <1>3, <1>4 DEF Laid, Lays

\* The sequence all laid is what the call is to leave.
LEMMA LaidPlaced ==
    ASSUME Began, Inserting, UNCHANGED <<op, start>>, NEW h, h = Held(v)',
           h = [width |-> h.width, bits |-> h.bits], h.bits \subseteq 0 .. h.width - 1, Laid(h, Gap)
    PROVE  Placed'
<1>1. h = Spliced(Length)
  BY LaidSplices
<1>2. Spliced(Length)' = Spliced(Length)
  BY DEF Spliced, Length, From, Until, Brought
<1> QED
  BY <1>1, <1>2 DEF Placed

\* The gap is open where none of the tail is left.
LEMMA GapOpenedStep ==
    ASSUME SequenceInv, UNCHANGED start, gap_opened
    PROVE  SequenceInv'
<1>1. /\ TypeOK /\ UnusedBitsClear /\ Began /\ FrameOK
      /\ pc = "shift_up" /\ ShiftingUp /\ Inserting
  BY DEF SequenceInv, Progress, gap_opened, ShiftingUp
<1>2. /\ op.pos \in Nat /\ Gap \in Nat /\ Above \in Nat /\ start[v].width = op.pos + Above
      /\ start[v].bits \subseteq 0 .. start[v].width - 1
  BY <1>1, InsertTypes
<1>3. ~(frame.i < Above)
  BY <1>1, <1>2 DEF gap_opened, tail_length, Above, ShiftingUp
<1>4. /\ UNCHANGED <<vars, op, start>> /\ FrameOK' /\ frame'.stage = frame.stage /\ frame'.i = 0
      /\ pc' = CASE op.name = "insert" -> "fill"
                 [] op.range.tier = "blit" -> "blit_at"
                 [] OTHER -> "write_at"
  BY <1>1 DEF gap_opened, goto, FrameOK
<1>5. TypeOK' /\ UnusedBitsClear' /\ Began' /\ Held(v)' = Held(v)
  BY <1>1, <1>4, UncalledKept
<1>6. Laid(Held(v), 0)
  <2>1. Held(v) = [width |-> start[v].width + Gap, bits |-> Up(start[v].bits, op.pos, Gap)]
    BY <1>1, <1>3 DEF ShiftingUp
  <2>2. \A p \in Int : p \in Held(v).bits <=>
            \/ p \in start[v].bits /\ p < op.pos + Gap
            \/ p - Gap \in start[v].bits /\ op.pos <= p - Gap
    <3> SUFFICES ASSUME NEW p \in Int
                 PROVE  p \in Up(start[v].bits, op.pos, Gap) <=>
                            \/ p \in start[v].bits /\ p < op.pos + Gap
                            \/ p - Gap \in start[v].bits /\ op.pos <= p - Gap
      BY <2>1
    <3>1. \A q \in start[v].bits : q + Gap \in Int /\ (q + Gap) - Gap = q
      BY <1>2
    <3>2. (p - Gap) + Gap = p
      BY <1>2
    <3> QED
      BY <3>1, <3>2 DEF Up
  <2>3. \A p \in 0 .. op.pos - 1 : p \in Held(v).bits <=> p \in start[v].bits
    BY <1>2, <2>2
  <2>4. ASSUME NEW t \in 0 .. Above - 1
        PROVE  op.pos + Gap + t \in Held(v).bits <=> op.pos + t \in start[v].bits
    <3>1. op.pos + Gap + t \in Int /\ (op.pos + Gap + t) - Gap = op.pos + t
      BY <1>2
    <3> QED
      BY <1>2, <2>2, <3>1
  <2> QED
    BY <2>1, <2>3, <2>4 DEF Laid
<1>7. Laid(Held(v), 0)' /\ Inserting' /\ Gap' = Gap /\ op' = op
  BY <1>1, <1>4, <1>5, <1>6 DEF Laid, Inserting, Gap, Above, Brought
<1>8. CASE op.name = "insert"
  <2>1. Filling' /\ pc' = "fill"
    <3>1. pc' = "fill"
      <4>1. op.range.tier = "none"
        BY <1>1, <1>8, CallTypes
      <4> QED
        BY <1>4, <1>8, <4>1
    <3>2. Filling'
      BY <1>7, <1>8 DEF Filling
    <3> QED
      BY <3>1, <3>2
  <2> QED
    BY <1>4, <1>5, <2>1, Arrives DEF SequenceInv
<1>9. CASE op.name = "insert_range" /\ op.range.tier = "blit"
  <2>1. (IF 0 < Gap THEN 0 ELSE Gap) = 0
    BY <1>2
  <2>2. BlittingIn' /\ pc' = "blit_at"
    BY <1>4, <1>7, <1>9, <2>1 DEF BlittingIn
  <2> QED
    BY <1>4, <1>5, <2>2, Arrives DEF SequenceInv
<1>10. CASE op.name = "insert_range" /\ op.range.tier \in {"sized", "forward"}
  <2>1. WritingIn' /\ pc' = "write_at"
    BY <1>2, <1>4, <1>7, <1>10 DEF WritingIn
  <2> QED
    BY <1>4, <1>5, <2>1, Arrives DEF SequenceInv
<1> QED
  BY <1>1, <1>8, <1>9, <1>10 DEF Inserting

\* A value fills the gap at once.
LEMMA FillStep ==
    ASSUME SequenceInv, UNCHANGED start, fill
    PROVE  SequenceInv'
<1>1. /\ TypeOK /\ UnusedBitsClear /\ Began /\ FrameOK /\ pc = "fill"
      /\ Inserting /\ op.name = "insert" /\ Laid(Held(v), 0)
  BY DEF SequenceInv, Progress, fill, Filling
<1>2. PICK pos \in Nat : pos = op.pos
  BY <1>1, InsertTypes
<1>3. PICK gap \in Nat : gap = Gap
  BY <1>1, InsertTypes
<1>4. PICK value \in BOOLEAN : value = op.value
  BY <1>1, CallTypes
<1>5. /\ v \in Obj /\ start[v].width \in Nat /\ Above \in Nat /\ start[v].width = pos + Above
      /\ m_size[v] = start[v].width + gap
      /\ Held(v).width = m_size[v] /\ Held(v).bits \subseteq 0 .. m_size[v] - 1
  BY <1>1, <1>2, <1>3, InsertTypes, HeldBefore DEF Laid
<1>6. UNCHANGED <<op, frame, start>> /\ FrameOK' /\ pc' = "done" /\ set_range(v, pos, gap, value)
  BY <1>1, <1>2, <1>3, <1>4 DEF fill, goto, FrameOK, Gap
<1>7. PICK S : S = (Held(v).bits \ (pos .. pos + gap - 1)) \cup {p \in pos .. pos + gap - 1 : value}
  OBVIOUS
<1>8. Leaves(v, m_size[v], S)
  BY <1>1, <1>5, <1>6, <1>7, FillLeaves
<1>9. PICK width : width = m_size[v]
  OBVIOUS
<1>10. TypeOK' /\ UnusedBitsClear' /\ Began' /\ Held(v)' = [width |-> width, bits |-> S]
  <2>1. Leaves(v, width, S)
    BY <1>8, <1>9
  <2> QED
    BY <1>1, <1>6, <2>1, SourceKept
<1>11. PICK g : g = [width |-> width, bits |-> S]
  OBVIOUS
<1>12. Laid(g, gap)
  <2>1. Lays(Held(v), g, 0, gap)
    <3>1. g.width = Held(v).width /\ g.bits = S
      BY <1>5, <1>9, <1>11
    <3>2. \A p \in Int : p < pos + 0 \/ pos + 0 + gap <= p => (p \in g.bits <=> p \in Held(v).bits)
      BY <1>7, <3>1
    <3>3. \A o \in 0 .. gap - 1 : o \in Brought(gap) <=> value
      BY <1>1, <1>4, CallTypes DEF Brought
    <3>4. \A o \in 0 .. gap - 1 : pos + 0 + o \in S <=> value
      <4> SUFFICES ASSUME NEW o \in 0 .. gap - 1 PROVE pos + 0 + o \in S <=> value
        OBVIOUS
      <4>1. pos + 0 + o \in pos .. pos + gap - 1
        OBVIOUS
      <4> QED
        BY <1>7, <4>1
    <3>5. \A o \in 0 .. gap - 1 : 0 + o = o
      OBVIOUS
    <3> QED
      BY <1>2, <1>3, <3>1, <3>2, <3>3, <3>4, <3>5 DEF Lays
  <2>2. 0 \in Nat /\ 0 + gap <= Gap /\ 0 + gap = gap
    BY <1>3
  <2>3. Laid(g, 0 + gap)
    BY <1>1, <2>1, <2>2, LaidMore
  <2> QED
    BY <2>2, <2>3
<1>13. g.bits \subseteq 0 .. g.width - 1 /\ g = [width |-> g.width, bits |-> g.bits]
  <2>1. S \subseteq 0 .. m_size[v] - 1
    BY <1>5, <1>7
  <2> QED
    BY <1>9, <1>11, <2>1
<1>14. Placed'
  BY <1>1, <1>3, <1>6, <1>10, <1>11, <1>12, <1>13, LaidPlaced
<1> QED
  BY <1>6, <1>10, <1>14, Arrives DEF SequenceInv

\* A range laid, when the loop that lays it ends.
LEMMA LaidEnds ==
    ASSUME TypeOK, UnusedBitsClear, Began, FrameOK, Inserting, UNCHANGED <<vars, op, frame, start>>,
           pc' = "done", Laid(Held(v), Gap)
    PROVE  SequenceInv'
<1>1. TypeOK' /\ UnusedBitsClear' /\ Began' /\ Held(v)' = Held(v) /\ FrameOK'
  BY UncalledKept DEF FrameOK
<1>2. PICK h : h = Held(v)
  OBVIOUS
<1>3. h.bits \subseteq 0 .. h.width - 1 /\ h = [width |-> h.width, bits |-> h.bits]
  <2>1. v \in Obj
    BY InsertTypes
  <2>2. h.width = m_size[v] /\ h.bits = Positions(m_blocks[v]) /\ h.bits \subseteq 0 .. m_size[v] - 1
    BY <1>2, <2>1, HeldBefore
  <2>3. h = [width |-> m_size[v], bits |-> Positions(m_blocks[v])]
    BY <1>2 DEF Held
  <2> QED
    BY <2>2, <2>3
<1>4. Placed'
  <2>1. h = Held(v)' /\ Laid(h, Gap)
    BY <1>1, <1>2
  <2> QED
    BY <1>3, <2>1, LaidPlaced
<1> QED
  BY <1>1, <1>4, Arrives DEF SequenceInv

\* The range that is read as it is shifted in is the source's.
LEMMA InsertedRange ==
    ASSUME TypeOK, UnusedBitsClear, Began, Inserting, op.name = "insert_range"
    PROVE  /\ range = op.range /\ range.from = src /\ src \in Obj /\ range.count = Gap
           /\ range.first \in Nat /\ range.first + Gap <= m_size[src] /\ m_size[src] \in Nat
           /\ Held(src).bits = start[src].bits
           /\ \A o \in 0 .. Gap - 1 : o \in Brought(Gap) <=> range.first + o \in start[src].bits
<1>1. range = op.range /\ range.from = src /\ range.count = Gap /\ src \in Obj
  BY InsertTypes DEF Inserting, Gap
<1>2. RangeOK(op.range)
  BY CallTypes
<1>3. Held(src) = start[src] /\ Held(src).width = m_size[src] /\ m_size[src] \in Nat
  BY <1>1, HeldBefore DEF Began
<1>4. range.first \in Nat /\ range.first + Gap <= m_size[src]
  BY <1>1, <1>2, <1>3 DEF RangeOK
<1>5. op.range.tier # "none"
  BY <1>2 DEF RangeOK
<1>6. \A o \in 0 .. Gap - 1 : o \in Brought(Gap) <=> range.first + o \in start[src].bits
  BY <1>1, <1>5 DEF Brought
<1> QED
  BY <1>1, <1>3, <1>4, <1>6

\* A block of the range goes into the gap.
LEMMA BlitAtStep ==
    ASSUME SequenceInv, UNCHANGED start, blit_at
    PROVE  SequenceInv'
<1> DEFINE B == bits_per_block
<1>1. /\ TypeOK /\ UnusedBitsClear /\ Began /\ FrameOK /\ pc = "blit_at" /\ BlittingIn
      /\ Inserting /\ op.name = "insert_range" /\ op.range.tier = "blit" /\ B \in Nat \ {0}
  BY BitsPerBlockAssumption DEF SequenceInv, Progress, blit_at, BlittingIn
<1>2. PICK pos \in Nat : pos = op.pos
  BY <1>1, InsertTypes
<1>3. PICK gap \in Nat : gap = Gap
  BY <1>1, InsertTypes
<1>4. PICK i \in Nat : i = frame.i
  BY <1>1 DEF BlittingIn
<1>5. /\ v \in Obj /\ Above \in Nat /\ start[v].width = pos + Above /\ start[v].width \in Nat
      /\ m_size[v] = start[v].width + gap
      /\ Held(v).width = m_size[v] /\ Held(v).bits \subseteq 0 .. m_size[v] - 1
  BY <1>1, <1>2, <1>3, InsertTypes, HeldBefore DEF Laid, BlittingIn
<1>6. /\ range.from = src /\ src \in Obj /\ range.count = gap
      /\ range.first \in Nat /\ range.first + gap <= m_size[src] /\ m_size[src] \in Nat
      /\ Held(src).bits = start[src].bits
      /\ \A o \in 0 .. gap - 1 : o \in Brought(gap) <=> range.first + o \in start[src].bits
  BY <1>1, <1>3, InsertedRange
<1>7. UNCHANGED <<op, start>>
  BY DEF blit_at
<1>8. CASE ~(i < gap)
  <2>1. ~(frame.i < range.count)
    BY <1>4, <1>6, <1>8
  <2>2. UNCHANGED <<vars, frame>> /\ goto("done")
    BY <2>1, Zenon DEF blit_at
  <2>3. Laid(Held(v), Gap)
    BY <1>1, <1>3, <1>4, <1>8 DEF BlittingIn
  <2> QED
    BY <1>1, <1>7, <2>2, <2>3, LaidEnds DEF goto
<1>9. CASE i < gap
  <2>1. PICK c : c = Min({B, gap - i})
    OBVIOUS
  <2>2. /\ c \in Nat /\ c <= B /\ i + c <= gap
        /\ (IF i + B < gap THEN i + B ELSE gap) = i + c
    <3>1. B \in Int /\ gap - i \in Int
      BY <1>1
    <3>2. c \in {B, gap - i} /\ c <= B /\ c <= gap - i
      BY <2>1, <3>1, LesserOf
    <3> QED
      BY <1>1, <1>9, <3>2
  <2>3. PICK n \in Nat : n = pos + i
    OBVIOUS
  <2>4. PICK f \in Nat : f = range.first + i
    BY <1>6
  <2>5. PICK A : A = block_at(m_blocks[src], f)
    OBVIOUS
  <2>6. /\ write_block_at(v, n, A, partial_block_mask(c))
        /\ frame' = [frame EXCEPT !.i = @ + B] /\ pc' = "blit_at"
    <3>1. frame.i < range.count
      BY <1>4, <1>6, <1>9
    <3> QED
      BY <1>2, <1>4, <1>6, <2>1, <2>3, <2>4, <2>5, <3>1 DEF blit_at, advance, goto
  <2>7. frame'.stage = frame.stage /\ frame'.i = i + B /\ FrameOK'
    BY <1>1, <1>4, <2>6 DEF FrameOK
  <2>8. A \in Block /\ \A o \in 0 .. c - 1 : o \in A <=> i + o \in Brought(gap)
    <3>1. f < m_size[src]
      BY <1>6, <1>9, <2>4
    <3>2. A \in Block /\ \A o \in Offset : o \in A <=> f + o \in Held(src).bits
      BY <1>1, <1>6, <2>5, <3>1, PositionHeld
    <3>3. \A o \in 0 .. c - 1 : o \in Offset /\ i + o \in 0 .. gap - 1 /\ f + o = range.first + (i + o)
      BY <1>1, <1>6, <2>2, <2>4 DEF Offset
    <3> QED
      BY <1>6, <3>2, <3>3
  <2>9. PICK S : S = Over(Held(v).bits, n, c, A)
    OBVIOUS
  <2>10. PICK width : width = m_size[v]
    OBVIOUS
  <2>11. Leaves(v, width, S)
    <3>1. n + c <= m_size[v]
      BY <1>5, <2>2, <2>3
    <3>2. Leaves(v, m_size[v], S)
      BY <1>1, <1>5, <2>2, <2>6, <2>8, <2>9, <3>1, WrittenLeaves DEF Over
    <3> QED
      BY <2>10, <3>2
  <2>12. TypeOK' /\ UnusedBitsClear' /\ Began' /\ Held(v)' = [width |-> width, bits |-> S]
    BY <1>1, <1>7, <2>11, SourceKept
  <2>13. PICK g : g = [width |-> width, bits |-> S]
    OBVIOUS
  <2>14. Laid(g, i + c)
    <3>1. Lays(Held(v), g, i, c)
      <4>1. g.width = Held(v).width /\ g.bits = S
        BY <1>5, <2>10, <2>13
      <4>2. \A p \in Int : p < n \/ n + c <= p => (p \in S <=> p \in Held(v).bits)
        BY <2>2, <2>9 DEF Over
      <4>3. \A o \in 0 .. c - 1 : n + o \in S <=> i + o \in Brought(gap)
        <5> SUFFICES ASSUME NEW o \in 0 .. c - 1 PROVE n + o \in S <=> o \in A
          BY <2>8
        <5>1. n + o \in n .. n + c - 1 /\ (n + o) - n = o /\ ~(n + o < n \/ n + c <= n + o)
          BY <2>2
        <5> QED
          BY <2>9, <5>1 DEF Over
      <4> QED
        BY <1>2, <1>3, <2>3, <4>1, <4>2, <4>3 DEF Lays
    <3>2. Laid(Held(v), i) /\ i + c <= Gap
      BY <1>1, <1>3, <1>4, <1>9, <2>2 DEF BlittingIn
    <3> QED
      BY <1>1, <2>2, <3>1, <3>2, LaidMore
  <2>15. BlittingIn'
    <3>1. Laid(g, i + c)' /\ Inserting' /\ Gap' = gap
      BY <1>1, <1>3, <1>7, <2>7, <2>14 DEF Laid, Inserting, Gap, Above, Brought
    <3>2. Held(v)' = g
      BY <2>12, <2>13
    <3>3. (IF frame'.i < Gap' THEN frame'.i ELSE Gap') = i + c
      BY <2>2, <2>7, <3>1
    <3>4. op'.name = "insert_range" /\ op'.range.tier = "blit" /\ frame'.i \in Nat
      BY <1>1, <1>7, <2>7
    <3>5. Laid(Held(v), IF frame.i < Gap THEN frame.i ELSE Gap)'
      BY <3>1, <3>2, <3>3 DEF Laid
    <3> QED
      BY <3>1, <3>4, <3>5 DEF BlittingIn
  <2> QED
    BY <2>6, <2>7, <2>12, <2>15, Arrives DEF SequenceInv
<1> QED
  BY <1>8, <1>9

\* An element of the range goes into the gap.
LEMMA WriteAtStep ==
    ASSUME SequenceInv, UNCHANGED start, write_at
    PROVE  SequenceInv'
<1>1. /\ TypeOK /\ UnusedBitsClear /\ Began /\ FrameOK /\ pc = "write_at" /\ WritingIn
      /\ Inserting /\ op.name = "insert_range" /\ op.range.tier \in {"sized", "forward"}
  BY DEF SequenceInv, Progress, write_at, WritingIn
<1>2. PICK pos \in Nat : pos = op.pos
  BY <1>1, InsertTypes
<1>3. PICK gap \in Nat : gap = Gap
  BY <1>1, InsertTypes
<1>4. PICK i \in Nat : i = frame.i /\ i <= gap
  <2>1. frame.i \in 0 .. gap
    BY <1>1, <1>3 DEF WritingIn
  <2> QED
    BY <2>1
<1>5. /\ v \in Obj /\ Above \in Nat /\ start[v].width = pos + Above /\ start[v].width \in Nat
      /\ m_size[v] = start[v].width + gap
      /\ Held(v).width = m_size[v] /\ Held(v).bits \subseteq 0 .. m_size[v] - 1
  BY <1>1, <1>2, <1>3, InsertTypes, HeldBefore DEF Laid, WritingIn
<1>6. /\ range.from = src /\ src \in Obj /\ range.count = gap
      /\ range.first \in Nat /\ range.first + gap <= m_size[src] /\ m_size[src] \in Nat
      /\ Held(src).bits = start[src].bits
      /\ \A o \in 0 .. gap - 1 : o \in Brought(gap) <=> range.first + o \in start[src].bits
  BY <1>1, <1>3, InsertedRange
<1>7. UNCHANGED <<op, start>>
  BY DEF write_at
<1>8. CASE ~(i < gap)
  <2>1. ~(frame.i < range.count)
    BY <1>4, <1>6, <1>8
  <2>2. UNCHANGED <<vars, frame>> /\ goto("done")
    BY <2>1, Zenon DEF write_at
  <2>3. Laid(Held(v), Gap)
    <3>1. frame.i = Gap
      BY <1>3, <1>4, <1>8
    <3> QED
      BY <1>1, <3>1 DEF WritingIn
  <2> QED
    BY <1>1, <1>7, <2>2, <2>3, LaidEnds DEF goto
<1>9. CASE i < gap
  <2>1. PICK n \in Nat : n = pos + i
    OBVIOUS
  <2>2. element <=> i \in Brought(gap)
    <3>1. PICK f \in Nat : f = range.first + i
      BY <1>6
    <3>2. f < m_size[src] /\ i \in 0 .. gap - 1
      BY <1>6, <1>9, <3>1
    <3>3. BitAt(m_blocks[src], f) <=> f \in Held(src).bits
      BY <1>1, <1>6, <3>2, PositionHeld
    <3>4. element = BitAt(m_blocks[src], f)
      BY <1>4, <1>6, <3>1 DEF element
    <3> QED
      BY <1>6, <3>1, <3>2, <3>3, <3>4
  <2>3. /\ IF element THEN set(v, n) ELSE reset(v, n)
        /\ frame' = [frame EXCEPT !.i = @ + 1] /\ pc' = "write_at"
    <3>1. frame.i < range.count
      BY <1>4, <1>6, <1>9
    <3>2. /\ IF element THEN set(v, op.pos + frame.i) ELSE reset(v, op.pos + frame.i)
          /\ advance(1) /\ goto("write_at")
      BY <3>1, Zenon DEF write_at
    <3>3. op.pos + frame.i = n
      BY <1>2, <1>4, <2>1
    <3> QED
      BY <3>2, <3>3, Zenon DEF advance, goto
  <2>4. frame'.stage = frame.stage /\ frame'.i = i + 1 /\ FrameOK'
    BY <1>1, <1>4, <2>3 DEF FrameOK
  <2>5. PICK S : S = IF element THEN Held(v).bits \cup {n} ELSE Held(v).bits \ {n}
    OBVIOUS
  <2>6. PICK width : width = m_size[v]
    OBVIOUS
  <2>7. Leaves(v, width, S)
    <3>1. /\ set(v, n) => Leaves(v, m_size[v], Held(v).bits \cup {n})
          /\ reset(v, n) => Leaves(v, m_size[v], Held(v).bits \ {n})
      BY <1>1, <1>5, PositionLeaves
    <3>2. CASE element
      <4>1. set(v, n) /\ S = Held(v).bits \cup {n}
        BY <2>3, <2>5, <3>2, Zenon
      <4> QED
        BY <2>6, <3>1, <4>1
    <3>3. CASE ~element
      <4>1. reset(v, n) /\ S = Held(v).bits \ {n}
        BY <2>3, <2>5, <3>3, Zenon
      <4> QED
        BY <2>6, <3>1, <4>1
    <3> QED
      BY <3>2, <3>3
  <2>8. TypeOK' /\ UnusedBitsClear' /\ Began' /\ Held(v)' = [width |-> width, bits |-> S]
    BY <1>1, <1>7, <2>7, SourceKept
  <2>9. PICK g : g = [width |-> width, bits |-> S]
    OBVIOUS
  <2>10. Laid(g, i + 1)
    <3>1. Lays(Held(v), g, i, 1)
      <4>1. g.width = Held(v).width /\ g.bits = S
        BY <1>5, <2>6, <2>9
      <4>2. \A p \in Int : p < n \/ n + 1 <= p => (p \in S <=> p \in Held(v).bits)
        BY <2>5
      <4>3. n \in S <=> i \in Brought(gap)
        BY <2>2, <2>5, Zenon
      <4>4. \A o \in 0 .. 1 - 1 : n + o = n /\ i + o = i
        OBVIOUS
      <4>5. \A o \in 0 .. 1 - 1 : n + o \in S <=> i + o \in Brought(gap)
        BY <4>3, <4>4
      <4> QED
        BY <1>2, <1>3, <2>1, <4>1, <4>2, <4>5 DEF Lays
    <3>2. Laid(Held(v), i) /\ i + 1 <= Gap /\ 1 \in Nat
      BY <1>1, <1>3, <1>4, <1>9 DEF WritingIn
    <3> QED
      BY <1>1, <3>1, <3>2, LaidMore
  <2>11. WritingIn'
    <3>1. Laid(g, i + 1)' /\ Inserting' /\ Gap' = gap
      BY <1>1, <1>3, <1>7, <2>4, <2>10 DEF Laid, Inserting, Gap, Above, Brought
    <3>2. Held(v)' = g
      BY <2>8, <2>9
    <3>3. op'.name = "insert_range" /\ op'.range.tier \in {"sized", "forward"} /\ frame'.i \in 0 .. Gap'
      BY <1>1, <1>7, <1>9, <2>4, <3>1
    <3>4. Laid(Held(v), frame.i)'
      BY <2>4, <3>1, <3>2 DEF Laid
    <3> QED
      BY <3>1, <3>3, <3>4 DEF WritingIn
  <2> QED
    BY <2>3, <2>4, <2>8, <2>11, Arrives DEF SequenceInv
<1> QED
  BY <1>8, <1>9

(***************************************************************************)
(* Closing a gap, an erasure's or one whose source threw.                  *)
(***************************************************************************)
\* How much is above a gap, and where the gap is.
LEMMA ClosingTypes ==
    ASSUME Began, Closing
    PROVE  /\ op.pos \in Nat /\ last \in Nat /\ op.pos <= last
           /\ Until \in Nat /\ op.pos <= Until /\ Until <= start[v].width /\ From = op.pos
           /\ start[v].width \in Nat /\ start[v].bits \subseteq 0 .. start[v].width - 1
           /\ thrown = "none" => op.name = "erase" /\ Length = 0 /\ Until = last
           /\ thrown # "none" => Until = op.pos
<1>1. CASE thrown = "none"
  <2>1. op.name = "erase"
    BY <1>1 DEF Closing
  <2>2. op.pos \in 0 .. start[v].width /\ op.last \in op.pos .. start[v].width
    BY <2>1, CallTypes
  <2>3. last = op.last /\ Until = op.last /\ From = op.pos /\ Length = 0
    BY <2>1 DEF last, Until, From, Length
  <2> QED
    BY <1>1, <2>1, <2>2, <2>3, StartTypes
<1>2. CASE thrown # "none"
  <2>1. op.name = "insert_range" /\ Inserting
    BY <1>2 DEF Closing
  <2>2. op.pos \in 0 .. start[v].width /\ Gap \in Nat
    BY <2>1, CallTypes DEF Gap
  <2>3. last = op.pos + Gap /\ Until = op.pos /\ From = op.pos
    BY <2>1 DEF last, Until, From, Gap
  <2> QED
    BY <1>2, <2>2, <2>3, StartTypes
<1> QED
  BY <1>1, <1>2

\* Of the two, the second holds c more of the tail in place, after i of it.
Closes(h, g, i, c) ==
    /\ g.width = h.width
    /\ \A p \in Int : p < op.pos + i \/ op.pos + i + c <= p => (p \in g.bits <=> p \in h.bits)
    /\ \A o \in 0 .. c - 1 : op.pos + i + o \in g.bits <=> last + i + o \in h.bits

\* The first i of a tail are down in h, and the others not yet.
Down(h, i) ==
    /\ h.width = last + (start[v].width - Until)
    /\ \A p \in 0 .. op.pos - 1 : p \in h.bits <=> p \in start[v].bits
    /\ \A t \in 0 .. (start[v].width - Until) - 1 :
          (IF t < i THEN op.pos + t ELSE last + t) \in h.bits <=> Until + t \in start[v].bits

\* The next c of the tail are brought down, or, with k, all there are.
LEMMA DownMore ==
    ASSUME Began, Closing, NEW h, NEW g, NEW i \in Nat, NEW c \in Nat, NEW k \in Nat,
           i + c = i + k \/ (c <= k /\ i + c = start[v].width - Until), Down(h, i), Closes(h, g, i, c)
    PROVE  Down(g, i + k)
<1> DEFINE SB == start[v].bits
<1>1. PICK pos \in Nat : pos = op.pos
  BY ClosingTypes
<1>2. PICK l \in Nat : l = last
  BY ClosingTypes
<1>3. PICK u \in Nat : u = Until
  BY ClosingTypes
<1>4. PICK tail \in Nat : tail = start[v].width - Until
  BY ClosingTypes
<1>5. pos <= l
  BY <1>1, <1>2, ClosingTypes
<1>6. /\ h.width = l + tail
      /\ \A p \in 0 .. pos - 1 : p \in h.bits <=> p \in SB
      /\ \A t \in 0 .. tail - 1 : (IF t < i THEN pos + t ELSE l + t) \in h.bits <=> u + t \in SB
  BY <1>1, <1>2, <1>3, <1>4 DEF Down
<1>7. /\ g.width = h.width
      /\ \A p \in Int : p < pos + i \/ pos + i + c <= p => (p \in g.bits <=> p \in h.bits)
      /\ \A o \in 0 .. c - 1 : pos + i + o \in g.bits <=> l + i + o \in h.bits
  BY <1>1, <1>2 DEF Closes
<1>8. i + c = i + k \/ (c <= k /\ i + c = tail)
  BY <1>4
<1> HIDE DEF SB
<1>9. \A p \in 0 .. pos - 1 : p \in g.bits <=> p \in SB
  BY <1>6, <1>7
<1>10. ASSUME NEW t \in 0 .. tail - 1
       PROVE  (IF t < i + k THEN pos + t ELSE l + t) \in g.bits <=> u + t \in SB
  <2>1. CASE t < i
    <3>1. pos + t \in Int /\ pos + t < pos + i /\ t < i + k
      BY <2>1
    <3> QED
      BY <1>6, <1>7, <2>1, <3>1
  <2>2. CASE i <= t /\ t < i + c
    <3>1. /\ t - i \in 0 .. c - 1 /\ pos + i + (t - i) = pos + t /\ l + i + (t - i) = l + t
          /\ t < i + k /\ ~(t < i)
      BY <1>8, <2>2
    <3>2. pos + t \in g.bits <=> l + t \in h.bits
      BY <1>7, <3>1
    <3>3. l + t \in h.bits <=> u + t \in SB
      BY <1>6, <3>1
    <3> QED
      BY <3>1, <3>2, <3>3
  <2>3. CASE i + c <= t
    <3>1. ~(t < i + k) /\ ~(t < i) /\ l + t \in Int /\ pos + i + c <= l + t
      BY <1>5, <1>8, <2>3
    <3> QED
      BY <1>6, <1>7, <3>1
  <2> QED
    BY <2>1, <2>2, <2>3
<1> QED
  BY <1>1, <1>2, <1>3, <1>4, <1>6, <1>7, <1>9, <1>10 DEF Down, SB

\* A tail all down, and the width brought to it, is the sequence with what was
\* to be erased out of it, or as it was.
LEMMA DownCloses ==
    ASSUME Began, Closing, NEW h, h = [width |-> h.width, bits |-> h.bits],
           NEW g, g = [width |-> op.pos + (start[v].width - Until),
                       bits  |-> {p \in h.bits : p < op.pos + (start[v].width - Until)}],
           NEW i \in Nat, start[v].width - Until <= i, Down(h, i), h.bits \subseteq Nat
    PROVE  /\ thrown = "none" => g = Spliced(Length)
           /\ thrown # "none" => g = start[v]
<1> DEFINE SB == start[v].bits
           W == start[v].width
<1>1. PICK pos \in Nat : pos = op.pos
  BY ClosingTypes
<1>2. PICK u \in Nat : u = Until
  BY ClosingTypes
<1>3. PICK tail \in Nat : tail = W - u
  BY <1>2, ClosingTypes
<1>4. W \in Nat /\ W = u + tail /\ pos <= u /\ SB \subseteq 0 .. W - 1 /\ From = pos
  BY <1>1, <1>2, <1>3, ClosingTypes
<1>5. /\ \A p \in 0 .. pos - 1 : p \in h.bits <=> p \in SB
      /\ \A t \in 0 .. tail - 1 : pos + t \in h.bits <=> u + t \in SB
  <2>1. \A t \in 0 .. tail - 1 : t < i
    BY <1>2, <1>3
  <2> QED
    BY <1>1, <1>2, <1>3, <2>1 DEF Down
<1>6. PICK n \in Nat : n = pos + tail
  OBVIOUS
<1>7. PICK S : S = {p \in h.bits : p < n}
  OBVIOUS
<1>8. g = [width |-> n, bits |-> S]
  BY <1>1, <1>2, <1>3, <1>6, <1>7
<1>9. W - (u - pos) = n /\ S \subseteq 0 .. n - 1
  BY <1>4, <1>6, <1>7
<1>10. \A p \in Int : p \in S <=> \/ p \in SB /\ p < pos
                                  \/ p - pos + u \in SB /\ pos <= p
  <2> HIDE DEF SB, W
  <2> SUFFICES ASSUME NEW p \in Int
               PROVE  p \in S <=> \/ p \in SB /\ p < pos
                                  \/ p - pos + u \in SB /\ pos <= p
    OBVIOUS
  <2>1. CASE p < 0
    BY <1>4, <1>9, <2>1
  <2>2. CASE 0 <= p /\ p < pos
    BY <1>5, <1>6, <1>7, <2>2
  <2>3. CASE pos <= p /\ p < n
    <3>1. p - pos \in 0 .. tail - 1 /\ pos + (p - pos) = p /\ u + (p - pos) = p - pos + u
      BY <1>6, <2>3
    <3> QED
      BY <1>5, <1>7, <2>3, <3>1
  <2>4. CASE n <= p
    <3>1. p - pos + u >= W /\ pos <= p
      BY <1>4, <1>6, <2>4
    <3> QED
      BY <1>4, <1>9, <2>4, <3>1
  <2> QED
    BY <1>6, <2>1, <2>2, <2>3, <2>4
<1>11. ASSUME thrown = "none" PROVE g = Spliced(Length)
  <2>1. Length = 0 /\ Brought(0) = {}
    <3>1. 0 .. 0 - 1 = {}
      OBVIOUS
    <3> QED
      BY <1>11, <3>1, ClosingTypes DEF Brought
  <2>2. Spliced(0) = [width |-> W - (u - pos) + 0,
                      bits  |-> {p \in SB : p < pos} \cup {pos + o : o \in {}}
                                \cup {p - u + pos + 0 : p \in {q \in SB : q >= u}}]
    BY <1>2, <1>4, <2>1 DEF Spliced
  <2> HIDE DEF SB, W
  <2>3. S = {p \in SB : p < pos} \cup {pos + o : o \in {}} \cup {p - u + pos + 0 : p \in {q \in SB : q >= u}}
    <3>1. \A p \in SB : p < pos => p \in S
      BY <1>4, <1>10
    <3>2. ASSUME NEW q \in SB, q >= u PROVE q - u + pos + 0 \in S
      <4>1. q - u + pos + 0 \in Int /\ (q - u + pos + 0) - pos + u = q /\ pos <= q - u + pos + 0
        BY <1>4, <3>2
      <4> QED
        BY <1>10, <4>1
    <3>3. ASSUME NEW p \in S
          PROVE  (p \in SB /\ p < pos) \/ \E q \in SB : q >= u /\ p = q - u + pos + 0
      <4>1. p \in Int
        BY <1>9
      <4>2. CASE p - pos + u \in SB /\ pos <= p
        <5>1. p - pos + u >= u /\ p = (p - pos + u) - u + pos + 0
          BY <4>1, <4>2
        <5> QED
          BY <4>2, <5>1
      <4> QED
        BY <1>10, <4>1, <4>2
    <3> QED
      BY <3>1, <3>2, <3>3
  <2>4. W - (u - pos) + 0 = n
    BY <1>9
  <2> QED
    BY <1>8, <2>1, <2>2, <2>3, <2>4
<1>12. ASSUME thrown # "none" PROVE g = start[v]
  <2>1. u = pos
    BY <1>1, <1>2, <1>12, ClosingTypes
  <2>2. n = W
    BY <1>4, <1>6, <2>1
  <2>3. S = SB
    <3> HIDE DEF SB, W
    <3>1. \A p \in Int : p - pos + u = p
      BY <2>1
    <3>2. \A p \in Int : p \in S <=> p \in SB
      BY <1>10, <3>1
    <3>3. S \subseteq Int
      BY <1>9
    <3>4. SB \subseteq Int
      BY <1>4
    <3> QED
      BY <3>2, <3>3, <3>4
  <2>4. start[v] = [width |-> W, bits |-> SB]
    BY StartTypes
  <2> QED
    BY <1>8, <2>2, <2>3, <2>4
<1> QED
  BY <1>11, <1>12

\* A block of the tail comes down, or the sequence is cut to what is down.
LEMMA CloseGapStep ==
    ASSUME SequenceInv, UNCHANGED start, close_gap
    PROVE  SequenceInv'
<1> DEFINE B == bits_per_block
<1>1. /\ TypeOK /\ UnusedBitsClear /\ Began /\ FrameOK /\ pc = "close_gap" /\ Closing
      /\ B \in Nat \ {0} /\ v \in Obj
  BY BitsPerBlockAssumption, StartTypes DEF SequenceInv, Progress, close_gap
<1>2. PICK pos \in Nat : pos = op.pos
  BY <1>1, ClosingTypes
<1>3. PICK l \in Nat : l = last
  BY <1>1, ClosingTypes
<1>4. PICK tail \in Nat : tail = start[v].width - Until
  BY <1>1, ClosingTypes
<1>5. PICK i \in Nat : i = frame.i
  BY <1>1 DEF Closing
<1>6. PICK h : h = Held(v)
  OBVIOUS
<1>7. /\ h.width = m_size[v] /\ h.bits \subseteq 0 .. m_size[v] - 1 /\ m_size[v] = l + tail
      /\ h = [width |-> h.width, bits |-> h.bits] /\ Down(h, i) /\ pos <= l /\ m_size[v] \in Nat
  <2>1. h.width = m_size[v] /\ h.bits \subseteq 0 .. m_size[v] - 1 /\ m_size[v] \in Nat
    BY <1>1, <1>6, HeldBefore
  <2>2. h = [width |-> h.width, bits |-> h.bits]
    BY <1>6 DEF Held
  <2>3. Down(h, i)
    BY <1>1, <1>5, <1>6 DEF Closing, Down
  <2>4. pos <= l
    BY <1>1, <1>2, <1>3, ClosingTypes
  <2> QED
    BY <1>3, <1>4, <2>1, <2>2, <2>3, <2>4 DEF Down
<1>8. UNCHANGED <<op, start, thrown>>
  BY DEF close_gap, goto
<1>9. m_size[v] - last - frame.i = tail - i
  BY <1>3, <1>5, <1>7
<1>10. CASE tail - i > 0
  <2>1. PICK c : c = Min({B, tail - i})
    OBVIOUS
  <2>2. /\ c \in Nat /\ c <= B /\ i + c <= tail
        /\ c = B \/ i + c = tail
    <3>1. B \in Int /\ tail - i \in Int
      BY <1>1
    <3>2. c \in {B, tail - i} /\ c <= B /\ c <= tail - i
      BY <2>1, <3>1, LesserOf
    <3> QED
      BY <1>1, <1>10, <3>2
  <2>3. PICK n \in Nat : n = pos + i
    OBVIOUS
  <2>4. PICK f \in Nat : f = l + i
    OBVIOUS
  <2>5. PICK A : A = block_at(m_blocks[v], f)
    OBVIOUS
  <2>6. /\ write_block_at(v, n, A, partial_block_mask(c))
        /\ frame' = [frame EXCEPT !.i = @ + B] /\ pc' = "close_gap"
    <3>1. m_size[v] - last - frame.i > 0
      BY <1>9, <1>10
    <3>2. /\ write_block_at(v, op.pos + frame.i, block_at(m_blocks[v], last + frame.i),
                 partial_block_mask(Min({bits_per_block, m_size[v] - last - frame.i})))
          /\ advance(bits_per_block) /\ goto("close_gap")
      BY <3>1, Zenon DEF close_gap
    <3>3. op.pos + frame.i = n /\ last + frame.i = f
      BY <1>2, <1>3, <1>5, <2>3, <2>4
    <3> QED
      BY <1>9, <2>1, <2>5, <3>2, <3>3, Zenon DEF advance, goto
  <2>7. frame'.stage = frame.stage /\ frame'.i = i + B /\ FrameOK'
    BY <1>1, <1>5, <2>6 DEF FrameOK
  <2>8. A \in Block /\ \A o \in 0 .. c - 1 : o \in A <=> l + i + o \in h.bits
    <3>1. f < m_size[v]
      BY <1>7, <1>10, <2>4
    <3>2. A \in Block /\ \A o \in Offset : o \in A <=> f + o \in Held(v).bits
      BY <1>1, <2>5, <3>1, PositionHeld
    <3>3. \A o \in 0 .. c - 1 : o \in Offset /\ f + o = l + i + o
      BY <1>1, <2>2, <2>4 DEF Offset
    <3> QED
      BY <1>6, <3>2, <3>3
  <2>9. PICK S : S = Over(h.bits, n, c, A)
    OBVIOUS
  <2>10. PICK width : width = m_size[v]
    OBVIOUS
  <2>11. Leaves(v, width, S)
    <3>1. n + c <= m_size[v]
      BY <1>7, <2>2, <2>3
    <3>2. Leaves(v, m_size[v], S)
      BY <1>1, <1>6, <2>2, <2>6, <2>8, <2>9, <3>1, WrittenLeaves DEF Over
    <3> QED
      BY <2>10, <3>2
  <2>12. TypeOK' /\ UnusedBitsClear' /\ Began' /\ Held(v)' = [width |-> width, bits |-> S]
    BY <1>1, <1>8, <2>11, SourceKept
  <2>13. PICK g : g = [width |-> width, bits |-> S]
    OBVIOUS
  <2>14. PICK k \in Nat : k = B
    BY <1>1
  <2>15. Down(g, i + k)
    <3>1. Closes(h, g, i, c)
      <4>1. g.width = h.width /\ g.bits = S
        BY <1>7, <2>10, <2>13
      <4>2. \A p \in Int : p < n \/ n + c <= p => (p \in S <=> p \in h.bits)
        BY <2>2, <2>9 DEF Over
      <4>3. \A o \in 0 .. c - 1 : n + o \in S <=> l + i + o \in h.bits
        <5> SUFFICES ASSUME NEW o \in 0 .. c - 1 PROVE n + o \in S <=> o \in A
          BY <2>8
        <5>1. n + o \in n .. n + c - 1 /\ (n + o) - n = o /\ ~(n + o < n \/ n + c <= n + o)
          BY <2>2
        <5> QED
          BY <2>9, <5>1 DEF Over
      <4> QED
        BY <1>2, <1>3, <2>3, <4>1, <4>2, <4>3 DEF Closes
    <3>2. i + c = i + k \/ (c <= k /\ i + c = start[v].width - Until)
      BY <1>4, <2>2, <2>14
    <3> QED
      BY <1>1, <1>7, <2>2, <3>1, <3>2, DownMore
  <2>16. Closing'
    <3>1. Down(g, i + k)' /\ Inserting' = Inserting
      BY <1>8, <2>7, <2>15 DEF Down, last, Until, Inserting
    <3>2. Held(v)' = g /\ frame'.i = i + k
      BY <2>7, <2>12, <2>13, <2>14
    <3>3. Down(Held(v), frame.i)'
      BY <3>1, <3>2 DEF Down
    <3>4. frame'.i \in Nat
      BY <3>2
    <3> QED
      BY <1>1, <1>8, <3>1, <3>3, <3>4 DEF Closing, Down
  <2> QED
    BY <2>6, <2>7, <2>12, <2>16, Arrives DEF SequenceInv
<1>11. CASE ~(tail - i > 0)
  <2>1. PICK n \in Nat : n = pos + tail
    OBVIOUS
  <2>2. /\ resize(v, n, FALSE) /\ UNCHANGED frame
        /\ pc' = IF thrown = "none" THEN "done" ELSE "threw"
    <3>1. ~(m_size[v] - last - frame.i > 0)
      BY <1>9, <1>11
    <3>2. /\ resize(v, m_size[v] - (last - op.pos), FALSE)
          /\ UNCHANGED frame /\ goto(IF thrown = "none" THEN "done" ELSE "threw")
      BY <3>1, Zenon DEF close_gap
    <3>3. m_size[v] - (last - op.pos) = n
      BY <1>2, <1>3, <1>7, <2>1
    <3> QED
      BY <3>2, <3>3, Zenon DEF goto
  <2>3. PICK S : S = {p \in h.bits : p < n}
    OBVIOUS
  <2>4. Leaves(v, n, S)
    <3>1. n <= m_size[v]
      BY <1>7, <2>1
    <3>2. Room(v, n)
      BY <1>1, <3>1, HeldRoom
    <3> QED
      BY <1>1, <1>6, <2>2, <2>3, <3>2, ResizeClearLeaves
  <2>5. TypeOK' /\ UnusedBitsClear' /\ Began' /\ Held(v)' = [width |-> n, bits |-> S]
    BY <1>1, <1>8, <2>4, SourceKept
  <2>6. PICK g : g = [width |-> n, bits |-> S]
    OBVIOUS
  <2>7. /\ thrown = "none" => g = Spliced(Length)
        /\ thrown # "none" => g = start[v]
    <3>1. g = [width |-> op.pos + (start[v].width - Until),
               bits  |-> {p \in h.bits : p < op.pos + (start[v].width - Until)}]
      BY <1>2, <1>4, <2>1, <2>3, <2>6
    <3>2. start[v].width - Until <= i /\ h.bits \subseteq Nat
      BY <1>4, <1>7, <1>11
    <3> QED
      BY <1>1, <1>7, <3>1, <3>2, DownCloses
  <2>8. FrameOK'
    BY <1>1, <2>2 DEF FrameOK
  <2>9. CASE thrown = "none"
    <3>1. Spliced(Length)' = Spliced(Length)
      BY <1>8 DEF Spliced, Length, From, Until, Brought
    <3>2. Placed'
      BY <2>5, <2>6, <2>7, <2>9, <3>1 DEF Placed
    <3> QED
      BY <2>2, <2>5, <2>8, <2>9, <3>2, Arrives DEF SequenceInv
  <2>10. CASE thrown # "none"
    <3>1. Thrown'
      BY <1>8, <2>5, <2>6, <2>7, <2>10 DEF Thrown
    <3> QED
      BY <2>2, <2>5, <2>8, <2>10, <3>1, Arrives DEF SequenceInv
  <2> QED
    BY <2>9, <2>10
<1> QED
  BY <1>10, <1>11

(***************************************************************************)
(* Assigning.                                                              *)
(***************************************************************************)
\* What a count assigned is to leave, and what it leaves of none.
LEMMA AssignedSplices ==
    ASSUME Began, op.name = "assign"
    PROVE  /\ Length = op.range.count /\ Length \in Nat
           /\ Spliced(Length) = [width |-> Length, bits |-> {p \in 0 .. Length - 1 : op.value}]
           /\ Prefix(0) = Empty
<1> DEFINE W == start[v].width
           SB == start[v].bits
<1>1. W \in Nat /\ SB \subseteq 0 .. W - 1 /\ op.range.tier = "none" /\ op.range.count \in Nat
  BY StartTypes, CallTypes
<1>2. From = 0 /\ Until = W /\ Length = op.range.count
  BY DEF From, Until, Length
<1>3. PICK n \in Nat : n = Length
  BY <1>1, <1>2
<1>4. PICK A : A = {p \in 0 .. n - 1 : op.value}
  OBVIOUS
<1>5. Brought(n) = A /\ Brought(0) = {}
  <2>1. 0 .. 0 - 1 = {}
    OBVIOUS
  <2> QED
    BY <1>1, <1>4, <2>1 DEF Brought
<1>6. {p \in SB : p < 0} = {} /\ {q \in SB : q >= W} = {}
  BY <1>1
<1> HIDE DEF W, SB
<1>7. {0 + o : o \in A} = A
  BY <1>4
<1>8. \A k \in Nat : W - (W - 0) + k = k
  BY <1>1
<1>9. Spliced(n) = [width |-> W - (W - 0) + n,
                    bits  |-> {p \in SB : p < 0} \cup {0 + o : o \in A}
                              \cup {p - W + 0 + n : p \in {q \in SB : q >= W}}]
  BY <1>2, <1>5 DEF Spliced, W, SB
<1>10. Spliced(n) = [width |-> n, bits |-> A]
  BY <1>6, <1>7, <1>8, <1>9
<1>11. Prefix(0) = Empty
  <2>1. Spliced(0) = [width |-> W - (W - 0) + 0,
                      bits  |-> {p \in SB : p < 0} \cup {0 + o : o \in {}}
                                \cup {p - W + 0 + 0 : p \in {q \in SB : q >= W}}]
    BY <1>2, <1>5 DEF Spliced, W, SB
  <2>2. Prefix(0) = [Spliced(0) EXCEPT !.bits = {p \in SB : p < 0} \cup {0 + o : o \in {}}]
    BY <1>2, <1>5 DEF Prefix, SB
  <2>3. {p \in SB : p < 0} \cup {0 + o : o \in {}} = {} /\ W - (W - 0) + 0 = 0
    BY <1>6, <1>8
  <2>4. \A w, C, D : [[width |-> w, bits |-> C] EXCEPT !.bits = D] = [width |-> w, bits |-> D]
    OBVIOUS
  <2>5. Prefix(0) = [width |-> 0, bits |-> {}]
    BY <2>1, <2>2, <2>3, <2>4
  <2> QED
    BY <2>5 DEF Empty
<1> QED
  BY <1>1, <1>2, <1>3, <1>4, <1>10, <1>11

\* What is assigned to is cleared.
LEMMA AssignStep ==
    ASSUME SequenceInv, UNCHANGED start, assign
    PROVE  SequenceInv'
<1>1. /\ TypeOK /\ UnusedBitsClear /\ Began /\ FrameOK /\ pc = "assign" /\ v \in Obj
      /\ op.name \in {"assign", "assign_range"} /\ frame.stage = "only" /\ frame.to = v
  BY StartTypes DEF SequenceInv, Progress, assign, Assigning
<1>2. /\ UNCHANGED <<op, frame, start>> /\ FrameOK' /\ clear(v)
      /\ pc' = IF op.name = "assign" THEN "refill" ELSE "append_range"
  BY <1>1 DEF assign, goto, FrameOK
<1>3. Leaves(v, 0, {})
  BY <1>1, <1>2, ClearLeaves
<1>4. TypeOK' /\ UnusedBitsClear' /\ Began' /\ Held(v)' = Empty
  BY <1>1, <1>2, <1>3, SourceKept DEF Empty
<1>5. CASE op.name = "assign"
  <2>1. pc' = "refill" /\ Refilling'
    BY <1>2, <1>4, <1>5 DEF Refilling, Empty
  <2> QED
    BY <1>2, <1>4, <2>1, Arrives DEF SequenceInv
<1>6. CASE op.name = "assign_range"
  <2>1. Appending' /\ Base' = Empty /\ frame'.to = v
    BY <1>1, <1>2, <1>6 DEF Appending, Base, Empty
  <2>2. AppendStarts'
    BY <1>4, <2>1 DEF AppendStarts, Held
  <2> QED
    BY <1>2, <1>4, <1>6, <2>2, Arrives DEF SequenceInv
<1> QED
  BY <1>1, <1>5, <1>6

\* A refill is all of it or, refused, none.
LEMMA RefillStep ==
    ASSUME SequenceInv, UNCHANGED start, refill
    PROVE  SequenceInv'
<1>1. /\ TypeOK /\ UnusedBitsClear /\ Began /\ FrameOK /\ pc = "refill" /\ v \in Obj
      /\ op.name = "assign" /\ Held(v) = Empty
  BY StartTypes DEF SequenceInv, Progress, refill, Refilling
<1>2. UNCHANGED <<op, frame, start>> /\ FrameOK'
  BY <1>1 DEF refill, FrameOK
<1>3. handler = "threw"
  BY <1>1 DEF handler
<1>4. PICK n \in Nat : n = op.range.count
  BY <1>1, CallTypes
<1>5. ASSUME Refused \/ UNCHANGED vars, pc' = "threw" PROVE SequenceInv'
  <2>1. TypeOK' /\ UnusedBitsClear' /\ Began' /\ Held(v)' = Empty
    <3>1. Held(v)' = Held(v)
      BY <1>1, <1>2, <1>5, UncalledKept, RefusedKept
    <3> QED
      BY <1>1, <1>2, <1>5, <3>1, UncalledKept, RefusedKept
  <2>2. Thrown'
    <3>1. Prefix(0)' = Prefix(0) /\ Length' = Length
      BY <1>2 DEF Prefix, Spliced, Length, From, Until, Brought
    <3>2. Held(v)' = Prefix(0)'
      BY <1>1, <2>1, <3>1, AssignedSplices
    <3>3. 0 \in 0 .. MaxSource /\ 0 <= Length'
      BY <1>1, <3>1, StartTypes, AssignedSplices
    <3> QED
      BY <1>1, <1>2, <3>2, <3>3 DEF Thrown
  <2> QED
    BY <1>2, <1>5, <2>1, <2>2, Arrives DEF SequenceInv
<1>6. CASE n > max_addressable_width
  <2>1. UNCHANGED vars /\ pc' = "threw"
    BY <1>3, <1>4, <1>6 DEF refill, throws
  <2> QED
    BY <1>5, <2>1
<1>7. CASE ~(n > max_addressable_width)
  <2>1. PICK value \in BOOLEAN : value = op.value
    BY <1>1, CallTypes
  <2>2. resize(v, n, value) /\ then("done")
    BY <1>4, <1>7, <2>1 DEF refill
  <2>3. CASE Refused
    <3>1. pc' = "threw"
      BY <1>3, <2>2, <2>3, Then DEF Refused
    <3> QED
      BY <1>5, <2>3, <3>1
  <2>4. CASE Leaves(v, n, {p \in Held(v).bits : p < n} \cup {p \in m_size[v] .. n - 1 : value})
    <3>1. PICK S : S = {p \in 0 .. n - 1 : value}
      OBVIOUS
    <3>2. {p \in Held(v).bits : p < n} \cup {p \in m_size[v] .. n - 1 : value} = S
      <4>1. Held(v).width = 0 /\ Held(v).bits = {} /\ m_size[v] = 0
        BY <1>1 DEF Empty, Held
      <4> QED
        BY <3>1, <4>1
    <3>3. Leaves(v, n, S)
      BY <2>4, <3>2
    <3>4. TypeOK' /\ UnusedBitsClear' /\ Began' /\ Held(v)' = [width |-> n, bits |-> S] /\ call'.outcome = "ok"
      BY <1>1, <1>2, <3>3, SourceKept
    <3>5. pc' = "done"
      BY <2>2, <3>4, Then
    <3>6. Placed'
      <4>1. Spliced(Length)' = Spliced(Length)
        BY <1>2 DEF Spliced, Length, From, Until, Brought
      <4>2. Spliced(Length) = [width |-> n, bits |-> S]
        BY <1>1, <1>4, <2>1, <3>1, AssignedSplices
      <4> QED
        BY <3>4, <4>1, <4>2 DEF Placed
    <3> QED
      BY <1>2, <3>4, <3>5, <3>6, Arrives DEF SequenceInv
  <2> QED
    BY <1>1, <2>2, <2>3, <2>4, ResizeLeaves
<1> QED
  BY <1>6, <1>7

(***************************************************************************)
(* The call begins.                                                        *)
(***************************************************************************)
\* Each container is built of the blocks its width needs, with no bit above it.
LEMMA BegunType ==
    ASSUME MCInit
    PROVE  TypeOK /\ UnusedBitsClear
<1>1. /\ Obj = {v, tmp, src} /\ v # tmp /\ v # src /\ tmp # src /\ Kind # "static"
      /\ MaxWidth \in 0 .. Ceiling /\ MaxSource \in 0 .. Ceiling /\ Ceiling \in Nat /\ MaxBlocks \in Nat
  BY ContainersAssumption, WidthsAssumption, CeilingType, MaxBlocksAssumption
<1>2. m_size \in [Obj -> 0 .. Ceiling] /\ m_size[tmp] = 0
  <2>1. m_size \in [Obj -> 0 .. MaxWidth \cup 0 .. MaxSource \cup {0}] /\ m_size[tmp] = 0
    BY DEF MCInit, SequenceInit
  <2>2. 0 .. MaxWidth \cup 0 .. MaxSource \cup {0} \subseteq 0 .. Ceiling
    BY <1>1
  <2> QED
    BY <2>1, <2>2
<1>3. \A x \in Obj : blocks_for(m_size[x]) \in 0 .. MaxBlocks
  <2> SUFFICES ASSUME NEW x \in Obj PROVE blocks_for(m_size[x]) \in 0 .. MaxBlocks
    OBVIOUS
  <2>1. m_size[x] \in Nat /\ m_size[x] <= Ceiling
    BY <1>1, <1>2
  <2>2. blocks_for(m_size[x]) \in Nat /\ blocks_for(m_size[x]) <= blocks_for(Ceiling)
    BY <1>1, <2>1, BlocksForBounds, BlocksForMonotone
  <2>3. blocks_for(Ceiling) = MaxBlocks
    BY <1>1, BlocksForWhole, MaxBlocksAssumption DEF Ceiling
  <2> QED
    BY <1>1, <2>2, <2>3
<1>4. m_count \in [Obj -> Int]
  BY DEF MCInit, SequenceInit
<1>5. PICK b \in {s \in Storage(blocks_for(m_size[v])) : TailClear(s, m_size[v])},
           e \in {s \in Storage(blocks_for(m_size[src])) : TailClear(s, m_size[src])} :
          m_blocks = [x \in Obj |-> CASE x = v -> b [] x = src -> e [] x = tmp -> no_blocks]
  BY DEF MCInit, SequenceInit
<1>6. DOMAIN m_blocks = Obj /\ m_blocks[v] = b /\ m_blocks[src] = e /\ m_blocks[tmp] = no_blocks
  BY <1>1, <1>5
<1>7. no_blocks \in Storage(blocks_for(m_size[tmp])) /\ TailClear(no_blocks, m_size[tmp])
  <2>1. blocks_for(0) = 0
    BY BlocksForWhole, BitsPerBlockAssumption
  <2>2. 0 .. 0 - 1 = {}
    OBVIOUS
  <2>3. no_blocks \in Storage(0)
    BY <2>2 DEF no_blocks, Storage
  <2>4. TailClear(no_blocks, 0)
    BY DEF TailClear, no_blocks
  <2> QED
    BY <1>2, <2>1, <2>3, <2>4
<1>8. \A x \in Obj : m_blocks[x] \in Storage(blocks_for(m_size[x])) /\ TailClear(m_blocks[x], m_size[x])
  BY <1>1, <1>5, <1>6, <1>7
<1>9. /\ capacity \in [Obj -> 0 .. MaxBlocks]
      /\ \A x \in Obj : blocks_for(m_size[x]) <= capacity[x]
      /\ Kind # "dynamic" => \A x \in Obj : capacity[x] = MaxBlocks
  <2>1. PICK c \in {blocks_for(m_size[v]), MaxBlocks} :
            capacity = [x \in Obj |-> IF Kind = "inplace" THEN MaxBlocks
                                      ELSE IF x = v THEN c ELSE blocks_for(m_size[x])]
    BY DEF MCInit, SequenceInit
  <2>2. c \in 0 .. MaxBlocks /\ blocks_for(m_size[v]) <= c
    BY <1>1, <1>3
  <2>3. Kind # "dynamic" => Kind = "inplace"
    BY <1>1, KindAssumption
  <2>4. \A x \in Obj : /\ capacity[x] \in 0 .. MaxBlocks /\ blocks_for(m_size[x]) <= capacity[x]
                       /\ Kind # "dynamic" => capacity[x] = MaxBlocks
    BY <1>1, <1>3, <2>1, <2>2, <2>3
  <2>5. capacity \in [Obj -> 0 .. MaxBlocks]
    BY <2>1, <2>4
  <2> QED
    BY <2>4, <2>5
<1> QED
  BY <1>1, <1>2, <1>4, <1>6, <1>8, <1>9 DEF TypeOK, UnusedBitsClear

\* What is held when the call begins is what it begins with.
LEMMA BegunHeld ==
    ASSUME MCInit
    PROVE  /\ Began /\ FrameOK /\ Held(v) = start[v] /\ Held(tmp) = Empty
           /\ frame.stage = "only" /\ frame.to = v /\ frame.i = 0
           /\ thrown = "none" /\ pc = entry(op)
<1>1. /\ TypeOK /\ UnusedBitsClear /\ v \in Obj /\ tmp \in Obj /\ src \in Obj
  BY BegunType, ContainersAssumption
<1>2. start = [x \in Obj |-> Held(x)]
  BY DEF MCInit
<1>3. /\ m_size[src] \in 0 .. MaxSource /\ m_size[tmp] = 0 /\ op \in Calls(m_size[v], m_size[src])
      /\ pc = entry(op) /\ thrown = "none"
      /\ frame = [stage |-> "only", to |-> v, width |-> 0, i |-> 0, block |-> zero]
  BY DEF MCInit, SequenceInit
<1>4. \A x \in Obj : /\ Held(x) = [width |-> m_size[x], bits |-> Held(x).bits]
                     /\ m_size[x] \in Nat /\ Held(x).bits \subseteq 0 .. m_size[x] - 1
  BY <1>1, HeldBefore DEF Held
<1>5. \A x \in Obj : Held(x) \in [width : Nat, bits : SUBSET Nat]
  <2> SUFFICES ASSUME NEW x \in Obj PROVE Held(x) \in [width : Nat, bits : SUBSET Nat]
    OBVIOUS
  <2>1. Held(x).bits \subseteq Nat
    BY <1>4
  <2> QED
    BY <1>4, <2>1
<1>6. Held(tmp) = Empty
  <2>1. Held(tmp).bits \subseteq 0 .. 0 - 1
    BY <1>1, <1>3, <1>4
  <2>2. Held(tmp).bits = {}
    BY <2>1
  <2> QED
    BY <1>1, <1>3, <1>4, <2>2 DEF Empty
<1>7. Began
  BY <1>1, <1>2, <1>3, <1>4, <1>5 DEF Began
<1>8. FrameOK
  BY <1>3 DEF FrameOK
<1> QED
  BY <1>1, <1>2, <1>3, <1>6, <1>7, <1>8

\* The call is at the first place of the way it takes.
LEMMA BegunInv ==
    ASSUME MCInit
    PROVE  SequenceInv
<1>1. /\ TypeOK /\ UnusedBitsClear
      /\ Began /\ FrameOK /\ Held(v) = start[v] /\ Held(tmp) = Empty
      /\ frame.stage = "only" /\ frame.to = v /\ frame.i = 0
      /\ thrown = "none" /\ pc = entry(op)
  BY BegunType, BegunHeld
<1>2. CASE op.name = "append_range"
  <2>1. pc = "append_range" /\ AppendStarts
    BY <1>1, <1>2 DEF entry, AppendStarts, Appending, Base
  <2> QED
    BY <1>1, <2>1 DEF SequenceInv, Progress
<1>3. CASE op.name = "erase"
  <2>1. pc = "close_gap"
    BY <1>1, <1>3 DEF entry
  <2>2. PICK pos \in Nat : pos = op.pos
    BY <1>1, CallTypes
  <2>3. PICK l \in Nat : l = last /\ l = Until /\ pos <= l /\ l <= start[v].width
    <3>1. last = op.last /\ Until = op.last
      BY <1>3 DEF last, Until
    <3>2. op.last \in op.pos .. start[v].width /\ start[v].width \in Nat
      BY <1>1, <1>3, CallTypes, StartTypes
    <3> QED
      BY <2>2, <3>1, <3>2
  <2>4. start[v].width \in Nat
    BY <1>1, StartTypes
  <2>5. \A t \in 0 .. (start[v].width - l) - 1 : ~(t < 0)
    BY <2>3, <2>4
  <2>6. Closing
    BY <1>1, <1>3, <2>3, <2>4, <2>5 DEF Closing
  <2> QED
    BY <1>1, <2>1, <2>6 DEF SequenceInv, Progress
<1>4. CASE op.name \in {"assign", "assign_range"}
  <2>1. pc = "assign" /\ Assigning
    BY <1>1, <1>4 DEF entry, Assigning
  <2> QED
    BY <1>1, <2>1 DEF SequenceInv, Progress
<1>5. CASE op.name = "insert"
  <2>1. pc = "open_gap" /\ GapWaits
    BY <1>1, <1>5 DEF entry, GapWaits, Inserting
  <2> QED
    BY <1>1, <2>1 DEF SequenceInv, Progress
<1>6. CASE op.name = "insert_range"
  <2>1. RangeOK(op.range)
    BY <1>1, <1>6, CallTypes
  <2>2. CASE \/ op.range.tier \in {"sized", "forward"}
             \/ op.range.tier = "blit" /\ op.range.from # v
    <3>1. pc = "open_gap"
      BY <1>1, <1>6, <2>2 DEF entry
    <3>2. GapWaits
      BY <1>1, <1>6, <2>1, <2>2 DEF GapWaits, Inserting, RangeOK
    <3> QED
      BY <1>1, <3>1, <3>2 DEF SequenceInv, Progress
  <2>3. CASE ~(\/ op.range.tier \in {"sized", "forward"}
               \/ op.range.tier = "blit" /\ op.range.from # v)
    <3>1. pc = "rebuild"
      BY <1>1, <1>6, <2>3 DEF entry
    <3>2. Rebuilding
      BY <1>1, <1>6 DEF Rebuilding
    <3> QED
      BY <1>1, <3>1, <3>2 DEF SequenceInv, Progress
  <2> QED
    BY <2>2, <2>3
<1> QED
  BY <1>1, <1>2, <1>3, <1>4, <1>5, <1>6, CallTypes

(***************************************************************************)
(* The theorems.                                                           *)
(***************************************************************************)
\* Every step, and standing still, keeps how far the call has come.
LEMMA SequenceStep ==
    ASSUME SequenceInv, [MCNext]_<<vars, control, start>>
    PROVE  SequenceInv'
<1>1. CASE UNCHANGED <<vars, control, start>>
  <2>1. UNCHANGED <<op, pc, frame, thrown, start>> /\ UNCHANGED vars
    BY <1>1 DEF control
  <2>2. TypeOK /\ UnusedBitsClear /\ Began /\ FrameOK
    BY DEF SequenceInv
  <2>3. TypeOK' /\ UnusedBitsClear' /\ Began' /\ FrameOK'
    BY <2>1, <2>2, UncalledKept DEF FrameOK
  <2>4. /\ \A x : Held(x)' = Held(x)
        /\ \A x, n : Room(x, n)' = Room(x, n)
        /\ Given' = Given /\ Source' = Source /\ Base' = Base /\ Left' = Left /\ Whole' = Whole
        /\ \A k : Spliced(k)' = Spliced(k)
    <3>1. \A x : Held(x)' = Held(x)
      BY <2>1 DEF Held, vars
    <3>2. \A x, n : Room(x, n)' = Room(x, n)
      BY <2>1 DEF Room, check_capacity, vars
    <3>3. \A k : Spliced(k)' = Spliced(k)
      BY <2>1 DEF Spliced, From, Until, Brought
    <3> QED
      BY <2>1, <3>1, <3>2, <3>3, StageKept
  <2>5. Appending' = Appending /\ Inserting' = Inserting /\ RoomAhead' = RoomAhead
    BY <2>1, <2>4 DEF Appending, Inserting, RoomAhead
  <2>6. /\ AppendStarts' = AppendStarts /\ RoomMade' = RoomMade /\ Blitting' = Blitting
        /\ Pushing' = Pushing /\ TakingBack' = TakingBack /\ Appended' = Appended
    BY <2>1, <2>4, <2>5 DEF AppendStarts, RoomMade, Blitting, Pushing, TakingBack, Appended, Held, vars
  <2>7. RestWaits' = RestWaits /\ Packing' = Packing
    BY <2>1, <2>4, <2>5 DEF RestWaits, Packing, Gathered, Packed, Held, vars
  <2>8. /\ GapWaits' = GapWaits /\ ShiftingUp' = ShiftingUp /\ Filling' = Filling
        /\ BlittingIn' = BlittingIn /\ WritingIn' = WritingIn /\ Closing' = Closing
    BY <2>1, <2>4, <2>5 DEF GapWaits, ShiftingUp, Filling, BlittingIn, WritingIn, Closing, Laid, Gap,
       Above, Brought, last, Until
  <2>9. /\ Rebuilding' = Rebuilding /\ Rebuilt' = Rebuilt /\ Placed' = Placed
        /\ Assigning' = Assigning /\ Refilling' = Refilling /\ Thrown' = Thrown
    BY <2>1, <2>4 DEF Rebuilding, Rebuilt, Placed, Assigning, Refilling, Thrown, Prefix, Length, From,
       Brought
  <2>10. Progress
    BY DEF SequenceInv
  <2>11. Progress'
    BY <2>1, <2>6, <2>7, <2>8, <2>9, <2>10 DEF Progress
  <2> QED
    BY <2>3, <2>11 DEF SequenceInv
<1>2. CASE MCNext
  <2>1. UNCHANGED start /\ (SequenceNext \/ UNCHANGED <<vars, control, start>>)
    BY <1>2 DEF MCNext, Returns
  <2>2. CASE append_range \/ hand_back \/ blit \/ blit_rest \/ write_rest \/ append_returns
    BY <2>1, <2>2, AppendRangeStep, HandBackStep, BlitStep, BlitRestStep, WriteRestStep,
       AppendReturnsStep
  <2>3. CASE pack \/ pack_rest \/ push \/ read_throws \/ resize_back \/ rebuild \/ move_in
    BY <2>1, <2>3, PackStep, PackRestStep, PushStep, ReadThrowsStep, ResizeBackStep, RebuildStep,
       MoveInStep
  <2>4. CASE open_gap \/ shift_tail \/ gap_opened \/ fill \/ blit_at \/ write_at
    BY <2>1, <2>4, OpenGapStep, ShiftTailStep, GapOpenedStep, FillStep, BlitAtStep, WriteAtStep
  <2>5. CASE close_gap \/ assign \/ refill
    BY <2>1, <2>5, CloseGapStep, AssignStep, RefillStep
  <2> QED
    BY <1>1, <2>1, <2>2, <2>3, <2>4, <2>5 DEF SequenceNext
<1> QED
  BY <1>1, <1>2

\* How far a call has come holds from its beginning to its end.
LEMMA SequenceProgress == MCSpec => []SequenceInv
<1>1. MCInit => SequenceInv
  BY BegunInv
<1>2. SequenceInv /\ [MCNext]_<<vars, control, start>> => SequenceInv'
  BY SequenceStep
<1> QED
  BY <1>1, <1>2, PTL DEF MCSpec

\* Whatever range is appended, inserted or assigned, erased or filled, of any
\* source, the sequence's own windows among them, a call that returns has put
\* what that range held when the call began in its place, with the rest of
\* the sequence in order round it, and has left the source alone.
THEOREM SplicingIsExact == MCSpec => []SplicedExactly
<1>1. SequenceInv => SplicedExactly
  BY DEF SequenceInv, Progress, Placed, Began, SplicedExactly
<1> QED
  BY <1>1, SequenceProgress, PTL

\* Whichever allocation is refused, whichever width is too great and whichever
\* element cannot be read, a call that leaves by an exception leaves the
\* sequence as it was: an insertion closes the gap it opened, an append takes
\* back what it appended.  Assignments are excepted, and appends of a sized
\* source that threw.
THEOREM ThrowsHaveNoEffects == MCSpec => []ThrowHasNoEffects
<1>1. SequenceInv => ThrowHasNoEffects
  BY DEF SequenceInv, Progress, Thrown, ThrowHasNoEffects
<1> QED
  BY <1>1, SequenceProgress, PTL

\* In those as well, what is left is what was kept and the first of the
\* elements brought: never an element out of its place, nor one that no
\* source held.
THEOREM ThrowsKeepPrefixes == MCSpec => []ThrowKeepsPrefix
<1>1. SequenceInv => ThrowKeepsPrefix
  BY DEF SequenceInv, Progress, Thrown, Prefix, ThrowKeepsPrefix
<1> QED
  BY <1>1, SequenceProgress, PTL

=============================================================================
