----------------------- MODULE BitBlockContainerProofs ----------------------
(***************************************************************************)
(* The invariants of bit_block_container, proved for every set of          *)
(* containers, every kind of storage, block width, capacity and bound: its *)
(* types, the unused tail, and then the count it keeps.                    *)
(***************************************************************************)
EXTENDS BitBlockContainer, BlockStorageProofs

(***************************************************************************)
(* Types.                                                                  *)
(***************************************************************************)
LEMMA CeilingType == Ceiling \in Nat
BY BitsPerBlockAssumption, NAssumption, MaxBlocksAssumption DEF Ceiling

\* What the type invariant says of the one container.
LEMMA BlocksType ==
    ASSUME TypeOK, NEW x \in Obj
    PROVE  /\ m_size[x] \in Nat
           /\ m_count[x] \in Int
           /\ capacity[x] \in Nat
           /\ blocks_for(m_size[x]) \in Nat
           /\ m_blocks[x] \in Storage(blocks_for(m_size[x]))
           /\ num_blocks(m_blocks[x]) = blocks_for(m_size[x])
<1>1. m_size[x] \in Nat
  BY CeilingType DEF TypeOK
<1>2. blocks_for(m_size[x]) \in Nat
  BY <1>1, BlocksForBounds
<1> QED
  BY <1>1, <1>2, NumBlocks DEF TypeOK

\* The members of one container written, within its allocation.
LEMMA StoreType ==
    ASSUME TypeOK, NEW x \in Obj, NEW size \in 0 .. Ceiling, Kind = "static" => size = N,
           NEW count \in Int, NEW b \in Storage(blocks_for(size)),
           store(x, size, count, b),
           capacity' \in [Obj -> 0 .. MaxBlocks],
           blocks_for(size) <= capacity'[x],
           \A y \in Obj \ {x} : capacity'[y] = capacity[y],
           Kind # "dynamic" => capacity'[x] = MaxBlocks
    PROVE  TypeOK'
<1>1. /\ m_size'   = [m_size   EXCEPT ![x] = size]
      /\ m_count'  = [m_count  EXCEPT ![x] = stored(count)]
      /\ m_blocks' = [m_blocks EXCEPT ![x] = b]
  BY DEF store
<1>2. stored(count) \in Int
  BY DEF stored
<1>3. /\ m_size' \in [Obj -> 0 .. Ceiling]
      /\ m_count' \in [Obj -> Int]
      /\ DOMAIN m_blocks' = Obj
  BY <1>1, <1>2 DEF TypeOK
<1>4. \A y \in Obj : /\ m_size'[y]   = IF y = x THEN size ELSE m_size[y]
                     /\ m_blocks'[y] = IF y = x THEN b ELSE m_blocks[y]
  BY <1>1 DEF TypeOK
<1>5. \A y \in Obj : blocks_for(m_size'[y]) <= capacity'[y]
  BY <1>4 DEF TypeOK
<1> QED
  BY <1>3, <1>4, <1>5 DEF TypeOK

\* Blocks written in place.
LEMMA WriteType ==
    ASSUME TypeOK, NEW x \in Obj, NEW count \in Int,
           NEW b \in Storage(blocks_for(m_size[x])),
           write(x, count, b)
    PROVE  TypeOK'
<1>1. store(x, m_size[x], count, b) /\ capacity' = capacity
  BY DEF write
<1> QED
  BY <1>1, StoreType DEF TypeOK

\* A call that left by its exception.
LEMMA RefusedType ==
    ASSUME TypeOK, UNCHANGED contents
    PROVE  TypeOK'
BY DEF TypeOK, contents

\* An allocation granted holds what was asked, and no other container moves.
LEMMA ReallocateType ==
    ASSUME TypeOK, NEW x \in Obj, NEW k \in Nat, reallocate(x, k)
    PROVE  /\ k <= MaxBlocks
           /\ capacity' \in [Obj -> 0 .. MaxBlocks]
           /\ k <= capacity'[x]
           /\ \A y \in Obj \ {x} : capacity'[y] = capacity[y]
           /\ Kind # "dynamic" => capacity'[x] = MaxBlocks
<1>1. PICK c \in granted(x, k) : capacity' = [capacity EXCEPT ![x] = c]
  BY DEF reallocate
<1>2. capacity[x] \in 0 .. MaxBlocks /\ MaxBlocks \in Nat
  BY MaxBlocksAssumption DEF TypeOK
<1>3. c \in 0 .. MaxBlocks /\ k <= c
  BY <1>1, <1>2 DEF granted
<1>4. Kind # "dynamic" => c = MaxBlocks
  BY <1>1, <1>2, <1>3 DEF granted, TypeOK
<1> QED
  BY <1>1, <1>2, <1>3, <1>4 DEF TypeOK

\* A width whose blocks were granted is a width there can be.
LEMMA GrantedWidth ==
    ASSUME NEW n \in Nat, has_stored_size, check_capacity(n), blocks_for(n) <= MaxBlocks
    PROVE  n \in 0 .. Ceiling
<1>1. CASE Kind = "inplace"
  BY <1>1 DEF check_capacity, Ceiling
<1>2. CASE Kind = "dynamic"
  <2>1. blocks_for(n) \in Nat /\ n <= blocks_for(n) * bits_per_block
    BY BlocksForBounds
  <2>2. blocks_for(n) * bits_per_block <= MaxBlocks * bits_per_block
    BY <2>1, MaxBlocksAssumption, BitsPerBlockAssumption
  <2>3. n <= MaxBlocks * bits_per_block /\ MaxBlocks * bits_per_block \in Nat
    BY <2>1, <2>2, MaxBlocksAssumption, BitsPerBlockAssumption
  <2> QED
    BY <1>2, <2>3 DEF Ceiling
<1> QED
  BY <1>1, <1>2, KindAssumption DEF has_stored_size

\* A count taken from a range is an integer.
LEMMA CountedInType ==
    ASSUME NEW x \in Obj, NEW n \in Int, NEW len \in Int
    PROVE  counted_in(x, n, len) \in Int
BY CountInType DEF counted_in

\* So is the count a resize leaves.
LEMMA CountAfterResizeType ==
    ASSUME TypeOK, NEW x \in Obj, NEW n \in Nat, NEW value \in BOOLEAN
    PROVE  count_after_resize(x, n, value) \in Int
<1> DEFINE kept == IF n < m_size[x] THEN n ELSE m_size[x]
           leaving == counted_in(x, kept, m_size[x] - kept)
<1>1. kept \in Int /\ m_size[x] - kept \in Int /\ m_size[x] \in Int /\ m_count[x] \in Int
  BY BlocksType
<1>2. leaving \in Int
  BY <1>1, CountedInType
<1> HIDE DEF leaving
<1>3. count_after_resize(x, n, value) =
          m_count[x] - leaving + (IF value /\ n > m_size[x] THEN n - m_size[x] ELSE 0)
  BY DEF count_after_resize, leaving, kept
<1> QED
  BY <1>1, <1>2, <1>3

\* A resize keeps the types.
LEMMA ResizeToType ==
    ASSUME TypeOK, NEW x \in Obj, has_stored_size, NEW n \in Nat, NEW value \in BOOLEAN,
           resize_to(x, n, value)
    PROVE  TypeOK'
<1> DEFINE b == resized(m_blocks[x], m_size[x], n, value)
<1>1. blocks_for(n) \in Nat
  BY BlocksForBounds
<1>2. /\ blocks_for(n) <= MaxBlocks
      /\ capacity' \in [Obj -> 0 .. MaxBlocks]
      /\ blocks_for(n) <= capacity'[x]
      /\ \A y \in Obj \ {x} : capacity'[y] = capacity[y]
      /\ Kind # "dynamic" => capacity'[x] = MaxBlocks
  BY <1>1, ReallocateType DEF resize_to
<1>3. n \in 0 .. Ceiling
  BY <1>2, GrantedWidth DEF resize_to
<1>4. b \in Storage(blocks_for(n))
  BY BlocksType, ResizedType
<1>5. count_after_resize(x, n, value) \in Int
  BY CountAfterResizeType
<1>6. store(x, n, count_after_resize(x, n, value), b)
  BY DEF resize_to
<1> HIDE DEF b
<1> QED
  BY <1>2, <1>3, <1>4, <1>5, <1>6, StoreType DEF has_stored_size

(***************************************************************************)
(* Every action keeps the types, group by group as Next has them.          *)
(***************************************************************************)
LEMMA WidthType == Width \subseteq Nat
BY DEF Width

\* So does growth, refused or granted.
LEMMA GrowType ==
    ASSUME TypeOK, NEW x \in Obj, Grow(x)
    PROVE  TypeOK'
<1> USE WidthType
<1> DEFINE b == m_blocks[x]
           n0 == m_size[x]
           k0 == blocks_for(n0)
<1>0. /\ n0 \in Nat /\ m_count[x] \in Int /\ capacity[x] \in Nat
      /\ k0 \in Nat /\ b \in Storage(k0) /\ num_blocks(b) = k0
  BY BlocksType
<1>1. CASE \E n \in Width, value \in BOOLEAN : resize(x, n, value)
  BY <1>1, ResizeToType, RefusedType DEF resize, refused
<1>2. CASE \E value \in BOOLEAN : push_back(x, value)
  <2>1. n0 + 1 \in Nat
    BY <1>0
  <2> QED
    BY <1>2, <2>1, ResizeToType, RefusedType DEF push_back, refused
<1>3. CASE pop_back(x)
  <2>1. n0 - 1 \in Nat
    BY <1>0, <1>3 DEF pop_back
  <2> QED
    BY <1>3, <2>1, ResizeToType DEF pop_back
<1>4. CASE clear(x)
  BY <1>4, ResizeToType DEF clear
<1>5. CASE \E value \in Block : append(x, value)
  <2> PICK value \in Block : append(x, value)
    BY <1>5
  <2>1. CASE refused("append", x, <<value>>)
    BY <2>1, RefusedType DEF refused
  <2>2. CASE /\ check_capacity(n0 + bits_per_block)
             /\ reallocate(x, num_blocks(b) + 1)
             /\ store(x, n0 + bits_per_block, m_count[x] + popcount(value), appended(b, n0, value))
    <3>1. n0 + bits_per_block \in Nat /\ blocks_for(n0 + bits_per_block) = k0 + 1
      BY <1>0, BlocksForOneMore, BitsPerBlockAssumption
    <3>2. k0 + 1 \in Nat /\ reallocate(x, k0 + 1)
      BY <1>0, <2>2
    <3>3. /\ k0 + 1 <= MaxBlocks
          /\ capacity' \in [Obj -> 0 .. MaxBlocks]
          /\ k0 + 1 <= capacity'[x]
          /\ \A y \in Obj \ {x} : capacity'[y] = capacity[y]
          /\ Kind # "dynamic" => capacity'[x] = MaxBlocks
      BY <3>2, ReallocateType
    <3>4. n0 + bits_per_block \in 0 .. Ceiling
      BY <2>2, <3>1, <3>3, GrantedWidth DEF append
    <3>5. appended(b, n0, value) \in Storage(k0 + 1)
      BY <1>0, AppendedType
    <3>6. m_count[x] + popcount(value) \in Int
      BY <1>0, PopcountType
    <3> QED
      BY <2>2, <3>1, <3>3, <3>4, <3>5, <3>6, StoreType DEF append, has_stored_size
  <2> QED
    BY <2>1, <2>2 DEF append
<1>6. CASE \E n \in Width : growing_insert(x, n)
  <2> PICK n \in Width : growing_insert(x, n)
    BY <1>6
  <2>1. CASE has_stored_size /\ n >= n0
    <3> DEFINE grown == resized(b, n0, n + 1, FALSE)
    <3>1. CASE refused("growing_insert", x, <<n>>)
      BY <3>1, RefusedType DEF refused
    <3>2. CASE /\ check_capacity(n + 1)
               /\ reallocate(x, blocks_for(n + 1))
               /\ store(x, n + 1, count_after_resize(x, n + 1, FALSE) + 1, bit_set(grown, n))
      <4>1. n + 1 \in Nat /\ n \in Nat /\ blocks_for(n + 1) \in Nat
        BY BlocksForBounds
      <4>2. /\ blocks_for(n + 1) <= MaxBlocks
            /\ capacity' \in [Obj -> 0 .. MaxBlocks]
            /\ blocks_for(n + 1) <= capacity'[x]
            /\ \A y \in Obj \ {x} : capacity'[y] = capacity[y]
            /\ Kind # "dynamic" => capacity'[x] = MaxBlocks
        BY <3>2, <4>1, ReallocateType
      <4>3. n + 1 \in 0 .. Ceiling
        BY <2>1, <3>2, <4>1, <4>2, GrantedWidth
      <4>4. grown \in Storage(blocks_for(n + 1))
        BY <1>0, <4>1, ResizedType
      <4> HIDE DEF grown
      <4>5. bit_set(grown, n) \in Storage(blocks_for(n + 1))
        BY <4>1, <4>4, PositionWrittenType
      <4>6. count_after_resize(x, n + 1, FALSE) + 1 \in Int
        <5>1. count_after_resize(x, n + 1, FALSE) \in Int
          BY <4>1, CountAfterResizeType
        <5>2. \A c \in Int : c + 1 \in Int
          OBVIOUS
        <5> QED
          BY <5>1, <5>2, Zenon
      <4> QED
        BY <2>1, <3>2, <4>2, <4>3, <4>5, <4>6, StoreType DEF has_stored_size
    <3> QED
      BY <2>1, <3>1, <3>2 DEF growing_insert
  <2>2. CASE ~(has_stored_size /\ n >= n0)
    <3>1. \E d \in {0, 1} : write(x, m_count[x] + d, bit_set(b, n))
      BY <2>2 DEF growing_insert
    <3>2. bit_set(b, n) \in Storage(k0)
      BY <1>0, PositionWrittenType
    <3> QED
      BY <1>0, <3>1, <3>2, WriteType
  <2> QED
    BY <2>1, <2>2
<1>7. CASE \E n \in Width : reserve(x, n)
  <2> PICK n \in Width : reserve(x, n)
    BY <1>7
  <2>1. CASE refused("reserve", x, <<n>>)
    BY <2>1, RefusedType DEF refused
  <2>2. CASE reallocate(x, blocks_for(n)) /\ UNCHANGED <<m_size, m_count, m_blocks>>
    <3>1. PICK c \in granted(x, blocks_for(n)) : capacity' = [capacity EXCEPT ![x] = c]
      BY <2>2 DEF reallocate
    <3>2. blocks_for(n) \in Nat
      BY BlocksForBounds
    <3>3. k0 <= capacity[x] /\ capacity[x] \in 0 .. MaxBlocks
      BY DEF TypeOK
    <3>4. c \in 0 .. MaxBlocks /\ k0 <= c
      BY <1>0, <3>1, <3>2, <3>3, MaxBlocksAssumption DEF granted
    <3>5. Kind # "dynamic" => c = MaxBlocks
      BY <3>1, <3>4, <3>2 DEF granted, TypeOK
    <3> QED
      BY <2>2, <3>1, <3>4, <3>5 DEF TypeOK
  <2> QED
    BY <2>1, <2>2 DEF reserve
<1>8. CASE shrink_to_fit(x)
  <2>1. PICK c : /\ c \in IF Kind = "dynamic" THEN num_blocks(b) .. capacity[x] ELSE {capacity[x]}
                 /\ capacity' = [capacity EXCEPT ![x] = c]
                 /\ UNCHANGED <<m_size, m_count, m_blocks>>
    BY <1>8 DEF shrink_to_fit
  <2>2. k0 <= capacity[x] /\ capacity[x] \in 0 .. MaxBlocks
    BY DEF TypeOK
  <2>3. c \in 0 .. MaxBlocks /\ k0 <= c
    BY <1>0, <2>1, <2>2, MaxBlocksAssumption
  <2> QED
    BY <2>1, <2>3 DEF TypeOK
<1> QED
  BY <1>1, <1>2, <1>3, <1>4, <1>5, <1>6, <1>7, <1>8 DEF Grow

\* So does whole storage adopted, given up or rewritten.
LEMMA ExchangeType ==
    ASSUME TypeOK, NEW x \in Obj, Exchange(x)
    PROVE  TypeOK'
<1> DEFINE k0 == blocks_for(m_size[x])
<1>0. m_size[x] \in Nat /\ k0 \in Nat /\ num_blocks(m_blocks[x]) = k0
  BY BlocksType
<1>1. CASE \E k \in 0 .. MaxBlocks : \E b \in Storage(k) : replace(x, b)
  <2> PICK k \in 0 .. MaxBlocks : \E b \in Storage(k) : replace(x, b)
    BY <1>1
  <2> PICK b \in Storage(k) : replace(x, b)
    OBVIOUS
  <2> DEFINE size == k * bits_per_block
  <2>1. size \in Nat /\ num_bits(b) = size /\ num_blocks(b) = k /\ blocks_for(size) = k
    BY NumBlocks, BlocksForWhole, BitsPerBlockAssumption
  <2>2. has_stored_size /\ check_capacity(size)
    BY <2>1 DEF replace, check_capacity
  <2>3. size \in 0 .. Ceiling
    BY <2>1, <2>2, GrantedWidth
  <2>4. PICK c : /\ c \in IF Kind = "dynamic" THEN k .. MaxBlocks ELSE {capacity[x]}
                 /\ capacity' = [capacity EXCEPT ![x] = c]
    BY <2>1 DEF replace
  <2>5. c \in 0 .. MaxBlocks /\ k <= c
    <3>1. CASE Kind = "dynamic"
      BY <2>4, <3>1, MaxBlocksAssumption
    <3>2. CASE Kind # "dynamic"
      <4>1. size <= N
        BY <2>1, <2>2, <3>2, KindAssumption DEF replace, has_stored_size
      <4>2. k <= MaxBlocks
        BY <2>1, <3>2, <4>1, NAssumption, BlocksForMonotone, MaxBlocksAssumption
      <4>3. c = MaxBlocks
        BY <2>4, <3>2 DEF TypeOK
      <4> QED
        BY <4>2, <4>3, MaxBlocksAssumption
    <3> QED
      BY <3>1, <3>2
  <2>6. count_blocks(b) \in Int
    BY CountBlocksType
  <2>7. store(x, size, count_blocks(b), b)
    BY <2>1 DEF replace
  <2>8. /\ capacity' \in [Obj -> 0 .. MaxBlocks]
        /\ k <= capacity'[x]
        /\ \A y \in Obj \ {x} : capacity'[y] = capacity[y]
        /\ Kind # "dynamic" => capacity'[x] = MaxBlocks
    BY <2>4, <2>5 DEF TypeOK
  <2> HIDE DEF size
  <2> QED
    BY <2>1, <2>2, <2>3, <2>6, <2>7, <2>8, StoreType DEF has_stored_size
<1>2. CASE extract(x)
  <2>1. PICK c \in capacity_moved_from : capacity' = [capacity EXCEPT ![x] = c]
    BY <1>2 DEF extract
  <2>2. blocks_for(0) = 0 /\ no_blocks \in Storage(0)
    BY BitsPerBlockAssumption DEF blocks_for, no_blocks, Storage
  <2>3. c \in 0 .. MaxBlocks /\ (Kind # "dynamic" => c = MaxBlocks)
    BY <2>1, MaxBlocksAssumption DEF capacity_moved_from
  <2>4. /\ capacity' \in [Obj -> 0 .. MaxBlocks]
        /\ 0 <= capacity'[x]
        /\ \A y \in Obj \ {x} : capacity'[y] = capacity[y]
        /\ Kind # "dynamic" => capacity'[x] = MaxBlocks
    BY <2>1, <2>3 DEF TypeOK
  <2>5. 0 \in 0 .. Ceiling
    BY CeilingType
  <2> QED
    BY <1>2, <2>2, <2>4, <2>5, StoreType DEF extract, has_stored_size
<1>3. CASE \E b \in Storage(num_blocks(m_blocks[x])) : write_blocks(x, b)
  <2> PICK b \in Storage(k0) : write_blocks(x, b)
    BY <1>0, <1>3
  <2>1. erase_unused(b, m_size[x]) \in Storage(k0)
    BY <1>0, MaskedType
  <2>2. count_blocks(erase_unused(b, m_size[x])) \in Int
    BY <1>0, <2>1, CountBlocksType
  <2> QED
    BY <2>1, <2>2, WriteType DEF write_blocks
<1> QED
  BY <1>1, <1>2, <1>3 DEF Exchange

\* So does a write to one position.
LEMMA WritePositionType ==
    ASSUME TypeOK, NEW x \in Obj, WritePosition(x)
    PROVE  TypeOK'
<1> USE WidthType
<1> DEFINE b == m_blocks[x]
           k0 == blocks_for(m_size[x])
<1>0. k0 \in Nat /\ b \in Storage(k0) /\ m_count[x] \in Int
  BY BlocksType
<1>1. \A c : one_if(c) \in Int
  BY DEF one_if
<1>2. CASE \E n \in Width : set(x, n) \/ insert(x, n)
  <2>1. PICK n \in Width : write(x, m_count[x] + one_if(~Bit(x, n)), bit_set(b, n))
    BY <1>2 DEF set, insert
  <2>2. m_count[x] + one_if(~Bit(x, n)) \in Int
    BY <1>0, <1>1
  <2> QED
    BY <1>0, <2>1, <2>2, PositionWrittenType, WriteType
<1>3. CASE \E n \in Width : reset(x, n) \/ erase(x, n)
  <2>1. PICK n \in Width : write(x, m_count[x] - one_if(Bit(x, n)), bit_reset(b, n))
    BY <1>3 DEF reset, erase
  <2>2. m_count[x] - one_if(Bit(x, n)) \in Int
    BY <1>0, <1>1
  <2> QED
    BY <1>0, <2>1, <2>2, PositionWrittenType, WriteType
<1>4. CASE \E n \in Width : flip(x, n)
  <2>1. PICK n \in Width : write(x, m_count[x] + 1 - 2 * one_if(Bit(x, n)), bit_flipped(b, n))
    BY <1>4 DEF flip
  <2>2. m_count[x] + 1 - 2 * one_if(Bit(x, n)) \in Int
    BY <1>0, <1>1
  <2> QED
    BY <1>0, <2>1, <2>2, PositionWrittenType, WriteType
<1>5. CASE drop_front(x)
  BY <1>0, <1>5, ExtremeDroppedType, WriteType DEF drop_front
<1>6. CASE drop_back(x)
  BY <1>0, <1>6, ExtremeDroppedType, WriteType DEF drop_back
<1> QED
  BY <1>2, <1>3, <1>4, <1>5, <1>6 DEF WritePosition

\* So does a write to many.
LEMMA WriteManyType ==
    ASSUME TypeOK, NEW x \in Obj, WriteMany(x)
    PROVE  TypeOK'
<1> DEFINE b == m_blocks[x]
           k0 == blocks_for(m_size[x])
<1>0. k0 \in Nat /\ b \in Storage(k0) /\ m_count[x] \in Int /\ m_size[x] \in Int
  BY BlocksType
<1>1. CASE \E n, len \in Width, value \in BOOLEAN : set_range(x, n, len, value)
  <2> PICK n \in Width, len \in Width, value \in BOOLEAN : set_range(x, n, len, value)
    BY <1>1
  <2>1. n \in Int /\ len \in Int
    BY WidthType
  <2>2. counted_in(x, n, len) \in Int
    BY <2>1, CountedInType
  <2>3. m_count[x] - counted_in(x, n, len) + (IF value THEN len ELSE 0) \in Int
    BY <1>0, <2>1, <2>2
  <2> QED
    BY <1>0, <2>3, RangeSetType, WriteType DEF set_range
<1>2. CASE set_all(x)
  BY <1>0, <1>2, WholeWrittenType, WriteType DEF set_all
<1>3. CASE reset_all(x)
  BY <1>0, <1>3, WholeWrittenType, WriteType DEF reset_all
<1>4. CASE flip_all(x)
  <2>1. m_size[x] - m_count[x] \in Int
    BY <1>0
  <2> QED
    BY <1>0, <1>4, <2>1, WholeWrittenType, WriteType DEF flip_all
<1>5. CASE \E n \in Width, value, mask \in Block : write_block_at(x, n, value, mask)
  BY <1>0, <1>5, WrittenAtType, WriteType DEF write_block_at
<1> QED
  BY <1>1, <1>2, <1>3, <1>4, <1>5 DEF WriteMany

\* So does a move of the positions.
LEMMA MoveType ==
    ASSUME TypeOK, NEW x \in Obj, Move(x)
    PROVE  TypeOK'
<1> USE WidthType
<1> DEFINE b == m_blocks[x]
           k0 == blocks_for(m_size[x])
<1>0. k0 \in Nat /\ b \in Storage(k0) /\ m_count[x] \in Int /\ m_size[x] \in Nat
  BY BlocksType
<1>1. CASE \E n \in Width : shift_up(x, n)
  <2> PICK n \in Width : shift_up(x, n)
    BY <1>1
  <2>1. counted_in(x, m_size[x] - n, n) \in Int
    <3>1. m_size[x] - n \in Int /\ n \in Int
      BY <1>0
    <3> QED
      BY <3>1, CountedInType
  <2>2. m_count[x] - counted_in(x, m_size[x] - n, n) \in Int
    BY <1>0, <2>1
  <2>3. erase_unused(shifted_up(b, n), m_size[x]) \in Storage(k0)
    BY <1>0, ShiftedType, MaskedType
  <2> QED
    BY <2>2, <2>3, WriteType DEF shift_up
<1>2. CASE \E n \in Width : shift_down(x, n)
  <2> PICK n \in Width : shift_down(x, n)
    BY <1>2
  <2>1. counted_in(x, 0, n) \in Int
    BY CountedInType
  <2>2. m_count[x] - counted_in(x, 0, n) \in Int
    BY <1>0, <2>1
  <2> QED
    BY <1>0, <2>2, ShiftedType, WriteType DEF shift_down
<1>3. CASE \E n \in Width : rotate(x, n)
  BY <1>0, <1>3, RotatedType, WriteType DEF rotate
<1>4. CASE reverse(x)
  BY <1>0, <1>4, EndForEndType, WriteType DEF reverse
<1> QED
  BY <1>1, <1>2, <1>3, <1>4 DEF Move

\* So does a compound operator, the other wider or narrower.
LEMMA CombineType ==
    ASSUME TypeOK, NEW x \in Obj, NEW y \in Obj,
           NEW op \in {"and_assign", "or_assign", "xor_assign", "minus_assign"},
           combine(x, y, op)
    PROVE  TypeOK'
<1> DEFINE k0 == blocks_for(m_size[x])
<1>0. k0 \in Nat /\ m_blocks[x] \in Storage(k0)
  BY BlocksType
<1>1. \A i \in 0 .. k0 - 1 : padded_block(m_blocks[y], i) \in Block
  <2> DEFINE k == blocks_for(m_size[y])
  <2>1. zero \in Block
    BY BlockOperators
  <2>2. k \in Nat /\ m_blocks[y] \in Storage(k) /\ num_blocks(m_blocks[y]) = k
    BY BlocksType
  <2> HIDE DEF k
  <2>3. \A i \in 0 .. k - 1 : m_blocks[y][i] \in Block
    BY <2>2 DEF Storage
  <2> QED
    BY <1>0, <2>1, <2>2, <2>3 DEF padded_block
<1>2. ASSUME NEW lhs \in Block, NEW rhs \in Block PROVE compound(op, lhs, rhs) \in Block
  BY BlockOperators DEF compound
<1>3. combined(x, y, op) \in Storage(k0)
  <2>1. \A i \in 0 .. k0 - 1 : m_blocks[x][i] \in Block
    BY <1>0 DEF Storage
  <2>2. DOMAIN m_blocks[x] = 0 .. k0 - 1
    BY <1>0 DEF Storage
  <2>3. \A i \in 0 .. k0 - 1 : compound(op, m_blocks[x][i], padded_block(m_blocks[y], i)) \in Block
    BY <1>1, <1>2, <2>1
  <2> QED
    BY <2>2, <2>3 DEF combined, Storage
<1>4. count_blocks(combined(x, y, op)) \in Int
  BY <1>0, <1>3, CountBlocksType
<1> QED
  BY <1>3, <1>4, WriteType DEF combine

\* An elementwise kernel keeps the number of blocks.
LEMMA TransformedType ==
    ASSUME TypeOK, NEW x \in Obj, NEW y \in Obj, m_size[x] = m_size[y], NEW f \in Kernel
    PROVE  transformed(x, y, f) \in Storage(blocks_for(m_size[x]))
<1> DEFINE k == blocks_for(m_size[x])
<1>0. k \in Nat /\ m_blocks[x] \in Storage(k) /\ m_blocks[y] \in Storage(k)
  BY BlocksType
<1>1. ASSUME NEW a \in Block, NEW b \in Block PROVE kernel(f, a, b) \in Block
  <2>1. /\ complement(a) \in Block /\ complement(b) \in Block
        /\ bit_xor(a, b) \in Block /\ complement(bit_xor(a, b)) \in Block
    BY BlockOperators
  <2> QED
    BY <2>1, BlockOperators DEF Kernel, kernel
<1>2. /\ DOMAIN m_blocks[x] = 0 .. k - 1
      /\ \A i \in 0 .. k - 1 : m_blocks[x][i] \in Block /\ m_blocks[y][i] \in Block
  BY <1>0 DEF Storage
<1>3. \A i \in 0 .. k - 1 : kernel(f, m_blocks[x][i], m_blocks[y][i]) \in Block
  BY <1>1, <1>2
<1> QED
  BY <1>2, <1>3 DEF transformed, Storage

\* Every call on two containers keeps the types, the same one twice included.
LEMMA PairwiseType ==
    ASSUME TypeOK, NEW x \in Obj, NEW y \in Obj, Pairwise(x, y)
    PROVE  TypeOK'
<1> DEFINE kx == blocks_for(m_size[x])
           ky == blocks_for(m_size[y])
<1>0. /\ kx \in Nat /\ m_blocks[x] \in Storage(kx) /\ m_count[x] \in Int
      /\ ky \in Nat /\ m_blocks[y] \in Storage(ky) /\ m_count[y] \in Int
      /\ num_blocks(m_blocks[y]) = ky
  BY BlocksType
<1>1. CASE copy_assign(x, y)
  <2>1. CASE refused("copy_assign", x, <<y>>)
    BY <2>1, RefusedType DEF refused
  <2>2. CASE /\ IF x = y THEN UNCHANGED capacity ELSE reallocate(x, ky)
             /\ store(x, m_size[y], m_count[y], m_blocks[y])
    <3>1. /\ capacity' \in [Obj -> 0 .. MaxBlocks]
          /\ ky <= capacity'[x]
          /\ \A z \in Obj \ {x} : capacity'[z] = capacity[z]
          /\ Kind # "dynamic" => capacity'[x] = MaxBlocks
      <4>1. CASE x = y
        BY <2>2, <4>1 DEF TypeOK
      <4>2. CASE x # y
        BY <1>0, <2>2, <4>2, ReallocateType
      <4> QED
        BY <4>1, <4>2
    <3>2. m_size[y] \in 0 .. Ceiling /\ (Kind = "static" => m_size[y] = N)
      BY DEF TypeOK
    <3> QED
      BY <1>0, <2>2, <3>1, <3>2, StoreType
  <2> QED
    BY <1>0, <1>1, <2>1, <2>2 DEF copy_assign
<1>2. CASE move_assign(x, y)
  <2>1. CASE x = y \/ ~has_stored_size
    <3>1. store(x, m_size[y], m_count[y], m_blocks[y]) /\ capacity' = capacity
      BY <1>2, <2>1 DEF move_assign
    <3>2. m_size[y] \in 0 .. Ceiling /\ (Kind = "static" => m_size[y] = N) /\ ky <= capacity[x]
      BY <2>1, KindAssumption, MaxBlocksAssumption DEF TypeOK, has_stored_size
    <3> QED
      BY <1>0, <3>1, <3>2, StoreType DEF TypeOK
  <2>2. CASE ~(x = y \/ ~has_stored_size)
    <3>1. /\ m_size'   = [m_size   EXCEPT ![x] = m_size[y],   ![y] = 0]
          /\ m_count'  = [m_count  EXCEPT ![x] = m_count[y],  ![y] = 0]
          /\ m_blocks' = [m_blocks EXCEPT ![x] = m_blocks[y], ![y] = no_blocks]
      BY <1>2, <2>2 DEF move_assign
    <3>2. PICK c \in capacity_moved_from :
              capacity' = [capacity EXCEPT ![x] = capacity[y], ![y] = c]
      BY <1>2, <2>2 DEF move_assign
    <3>3. blocks_for(0) = 0 /\ no_blocks \in Storage(0) /\ 0 \in 0 .. Ceiling
      BY CeilingType, BitsPerBlockAssumption DEF blocks_for, no_blocks, Storage
    <3>4. c \in 0 .. MaxBlocks /\ (Kind # "dynamic" => c = MaxBlocks)
      BY <3>2, MaxBlocksAssumption DEF capacity_moved_from
    <3>5. /\ m_size' \in [Obj -> 0 .. Ceiling]
          /\ m_count' \in [Obj -> Int]
          /\ DOMAIN m_blocks' = Obj
          /\ capacity' \in [Obj -> 0 .. MaxBlocks]
      BY <3>1, <3>2, <3>3, <3>4 DEF TypeOK
    <3>6. \A z \in Obj :
             /\ m_size'[z]   = IF z = y THEN 0 ELSE IF z = x THEN m_size[y] ELSE m_size[z]
             /\ m_blocks'[z] = IF z = y THEN no_blocks ELSE IF z = x THEN m_blocks[y] ELSE m_blocks[z]
             /\ capacity'[z] = IF z = y THEN c ELSE IF z = x THEN capacity[y] ELSE capacity[z]
      BY <3>1, <3>2 DEF TypeOK
    <3>7. \A z \in Obj : /\ m_blocks'[z] \in Storage(blocks_for(m_size'[z]))
                         /\ blocks_for(m_size'[z]) <= capacity'[z]
                         /\ Kind # "dynamic" => capacity'[z] = MaxBlocks
      BY <3>3, <3>4, <3>6 DEF TypeOK
    <3> QED
      BY <2>2, <3>5, <3>7 DEF TypeOK, has_stored_size
  <2> QED
    BY <2>1, <2>2
<1>3. CASE swap(x, y)
  <2>1. /\ m_size'   = [m_size   EXCEPT ![x] = m_size[y],   ![y] = m_size[x]]
        /\ m_count'  = [m_count  EXCEPT ![x] = m_count[y],  ![y] = m_count[x]]
        /\ m_blocks' = [m_blocks EXCEPT ![x] = m_blocks[y], ![y] = m_blocks[x]]
        /\ capacity' = [capacity EXCEPT ![x] = capacity[y], ![y] = capacity[x]]
    BY <1>3 DEF swap
  <2>2. \A z \in Obj : \E w \in Obj :
            /\ m_size'[z] = m_size[w] /\ m_count'[z] = m_count[w]
            /\ m_blocks'[z] = m_blocks[w] /\ capacity'[z] = capacity[w]
    BY <2>1 DEF TypeOK
  <2>3. /\ m_size' \in [Obj -> 0 .. Ceiling]
        /\ m_count' \in [Obj -> Int]
        /\ DOMAIN m_blocks' = Obj
        /\ capacity' \in [Obj -> 0 .. MaxBlocks]
    BY <2>1 DEF TypeOK
  <2> QED
    BY <2>2, <2>3 DEF TypeOK
<1>4. CASE grow_to_admit(x, y)
  <2> DEFINE n == find_back(m_blocks[y]) + 1
  <2>1. CASE UNCHANGED contents
    BY <2>1, RefusedType
  <2>2. CASE any(m_blocks[y]) /\ resize_to(x, n, FALSE)
    <3>1. n \in Nat
      BY <1>0, <2>2, FindBackType
    <3> HIDE DEF n
    <3> QED
      BY <1>4, <2>2, <3>1, ResizeToType DEF grow_to_admit
  <2> QED
    BY <1>4, <2>1, <2>2 DEF grow_to_admit, refused
<1>5. CASE \/ and_assign(x, y) \/ minus_assign(x, y) \/ or_assign(x, y) \/ xor_assign(x, y)
  BY <1>5, CombineType DEF and_assign, minus_assign, or_assign, xor_assign
<1>6. CASE \E f \in Kernel : transform(x, y, f)
  <2> PICK f \in Kernel : transform(x, y, f)
    BY <1>6
  <2>3. transformed(x, y, f) \in Storage(kx)
    BY TransformedType DEF transform
  <2>4. erase_unused(transformed(x, y, f), m_size[x]) \in Storage(kx)
    BY <1>0, <2>3, MaskedType
  <2> QED
    BY <1>0, <2>4, WriteType DEF transform
<1> QED
  BY <1>1, <1>2, <1>3, <1>4, <1>5, <1>6 DEF Pairwise

\* A constructed container has the types.
LEMMA InitType ==
    ASSUME Init
    PROVE  TypeOK
<1> DEFINE cleared(x) == [i \in 0 .. blocks_for(m_size[x]) - 1 |-> zero]
<1>1. m_size \in [Obj -> 0 .. Ceiling] /\ (Kind = "static" => \A x \in Obj : m_size[x] = N)
  <2>1. InitWidth \in SUBSET (0 .. Ceiling) /\ (Kind = "static" => InitWidth = {N})
    BY NAssumption DEF InitWidth, Ceiling
  <2>2. m_size \in [Obj -> InitWidth]
    BY DEF Init
  <2> QED
    BY <2>1, <2>2
<1>2. \A x \in Obj : blocks_for(m_size[x]) \in Nat /\ blocks_for(m_size[x]) <= MaxBlocks
  <2> SUFFICES ASSUME NEW x \in Obj
               PROVE  blocks_for(m_size[x]) \in Nat /\ blocks_for(m_size[x]) <= MaxBlocks
    OBVIOUS
  <2>1. m_size[x] \in Nat /\ m_size[x] <= Ceiling /\ Ceiling \in Nat
    BY <1>1, CeilingType
  <2>2. blocks_for(m_size[x]) \in Nat /\ blocks_for(m_size[x]) <= blocks_for(Ceiling)
    BY <2>1, BlocksForBounds, BlocksForMonotone
  <2>3. blocks_for(Ceiling) = MaxBlocks
    BY BlocksForWhole, MaxBlocksAssumption DEF Ceiling
  <2> QED
    BY <2>2, <2>3
<1>3. /\ m_count \in [Obj -> Int] /\ DOMAIN m_blocks = Obj
      /\ capacity \in [Obj -> 0 .. MaxBlocks]
      /\ \A x \in Obj : m_blocks[x] = cleared(x)
  BY DEF Init
<1>4. \A x \in Obj : cleared(x) \in Storage(blocks_for(m_size[x]))
  BY BlockOperators DEF Storage
<1>5. \A x \in Obj : /\ blocks_for(m_size[x]) <= capacity[x]
                     /\ Kind # "dynamic" => capacity[x] = MaxBlocks
  <2>1. \A x \in Obj : /\ capacity[x] \in 0 .. MaxBlocks
                       /\ Kind = "dynamic" => capacity[x] >= blocks_for(m_size[x])
                       /\ Kind # "dynamic" => capacity[x] = MaxBlocks
    BY DEF Init
  <2> QED
    BY <1>2, <2>1
<1> HIDE DEF cleared
<1> QED
  BY <1>1, <1>3, <1>4, <1>5 DEF TypeOK

\* Whatever a container is told to do, and whichever allocation is refused it,
\* it holds exactly the blocks its width needs, within its allocation.
THEOREM TypeCorrect == Spec => []TypeOK
<1>1. Init => TypeOK
  BY InitType
<1>2. TypeOK /\ [Next]_vars => TypeOK'
  <2> SUFFICES ASSUME TypeOK, [Next]_vars PROVE TypeOK'
    OBVIOUS
  <2>1. CASE UNCHANGED vars
    BY <2>1, RefusedType DEF vars, contents
  <2>2. CASE \E x \in Obj : Grow(x) \/ Exchange(x) \/ WritePosition(x) \/ WriteMany(x) \/ Move(x)
    BY <2>2, GrowType, ExchangeType, WritePositionType, WriteManyType, MoveType
  <2>3. CASE \E x, y \in Obj : Pairwise(x, y)
    BY <2>3, PairwiseType
  <2> QED
    BY <2>1, <2>2, <2>3 DEF Next
<1> QED
  BY <1>1, <1>2, PTL DEF Spec

(***************************************************************************)
(* The unused tail.  TypeOK gives the number of blocks, and the tail as it *)
(* was gives the functions that do not mask what they need.                *)
(***************************************************************************)
LEMMA StoreTail ==
    ASSUME TypeOK, UnusedBitsClear, NEW x \in Obj, NEW size, NEW count, NEW b,
           store(x, size, count, b), TailClear(b, size)
    PROVE  UnusedBitsClear'
<1>1. \A y \in Obj : /\ m_size'[y]   = IF y = x THEN size ELSE m_size[y]
                     /\ m_blocks'[y] = IF y = x THEN b ELSE m_blocks[y]
  BY DEF store, TypeOK
<1> QED
  BY <1>1 DEF UnusedBitsClear

\* A write of blocks with a clear tail keeps every tail clear.
LEMMA WriteTail ==
    ASSUME TypeOK, UnusedBitsClear, NEW x \in Obj, NEW count, NEW b,
           write(x, count, b), TailClear(b, m_size[x])
    PROVE  UnusedBitsClear'
BY StoreTail DEF write

\* So does a step that writes neither blocks nor width.
LEMMA UnwrittenTail ==
    ASSUME UnusedBitsClear, UNCHANGED <<m_size, m_blocks>>
    PROVE  UnusedBitsClear'
BY DEF UnusedBitsClear

\* So does a resize.
LEMMA ResizeToTail ==
    ASSUME TypeOK, UnusedBitsClear, NEW x \in Obj, NEW n \in Nat, NEW value, resize_to(x, n, value)
    PROVE  UnusedBitsClear'
<1>1. /\ blocks_for(m_size[x]) \in Nat /\ m_size[x] \in Nat
      /\ m_blocks[x] \in Storage(blocks_for(m_size[x]))
  BY BlocksType
<1>2. TailClear(resized(m_blocks[x], m_size[x], n, value), n)
  BY <1>1, ResizedTail
<1> QED
  BY <1>2, StoreTail DEF resize_to

\* So does growth, refused or granted.
LEMMA GrowTail ==
    ASSUME TypeOK, UnusedBitsClear, NEW x \in Obj, Grow(x)
    PROVE  UnusedBitsClear'
<1> USE WidthType
<1> DEFINE b == m_blocks[x]
           k == blocks_for(m_size[x])
<1>0. k \in Nat /\ b \in Storage(k) /\ m_size[x] \in Nat /\ TailClear(b, m_size[x])
  BY BlocksType DEF UnusedBitsClear
<1>1. CASE \E n \in Width, value \in BOOLEAN : resize(x, n, value)
  BY <1>1, UnwrittenTail, ResizeToTail DEF resize, refused, contents
<1>2. CASE \E value \in BOOLEAN : push_back(x, value)
  <2>1. m_size[x] + 1 \in Nat
    BY <1>0
  <2> QED
    BY <1>2, <2>1, UnwrittenTail, ResizeToTail DEF push_back, refused, contents
<1>3. CASE pop_back(x)
  <2>1. m_size[x] - 1 \in Nat
    BY <1>0, <1>3 DEF pop_back
  <2> QED
    BY <1>3, <2>1, ResizeToTail DEF pop_back
<1>4. CASE clear(x)
  BY <1>4, ResizeToTail DEF clear
<1>5. CASE \E value \in Block : append(x, value)
  <2> PICK value \in Block : append(x, value)
    BY <1>5
  <2> DEFINE n == m_size[x] + bits_per_block
             c == appended(b, m_size[x], value)
  <2>1. TailClear(c, n)
    BY <1>0, AppendedTail
  <2>2. UNCHANGED contents \/ store(x, n, m_count[x] + popcount(value), c)
    BY DEF append, refused
  <2> HIDE DEF n, c
  <2> QED
    BY <2>1, <2>2, UnwrittenTail, StoreTail DEF contents
<1>6. CASE \E n \in Width : growing_insert(x, n)
  <2> PICK n \in Width : growing_insert(x, n)
    BY <1>6
  <2>1. CASE has_stored_size /\ n >= m_size[x]
    <3> DEFINE wide == resized(b, m_size[x], n + 1, FALSE)
    <3>1. n \in Nat /\ n + 1 \in Nat /\ n < n + 1 /\ blocks_for(n + 1) \in Nat
      BY BlocksForBounds
    <3>2. wide \in Storage(blocks_for(n + 1)) /\ TailClear(wide, n + 1)
      BY <1>0, <3>1, ResizedType, ResizedTail
    <3> HIDE DEF wide
    <3>3. TailClear(bit_set(wide, n), n + 1)
      BY <3>1, <3>2, PositionWrittenTail
    <3>4. \/ UNCHANGED contents
          \/ store(x, n + 1, count_after_resize(x, n + 1, FALSE) + 1, bit_set(wide, n))
      BY <2>1 DEF growing_insert, refused, wide
    <3> QED
      BY <3>3, <3>4, UnwrittenTail, StoreTail DEF contents
  <2>2. CASE ~(has_stored_size /\ n >= m_size[x])
    <3>1. n < m_size[x] /\ n \in Nat
      BY <2>2 DEF growing_insert
    <3>2. TailClear(bit_set(b, n), m_size[x])
      BY <1>0, <3>1, PositionWrittenTail
    <3> QED
      BY <2>2, <3>2, WriteTail DEF growing_insert
  <2> QED
    BY <2>1, <2>2
<1>7. CASE (\E n \in Width : reserve(x, n)) \/ shrink_to_fit(x)
  BY <1>7, UnwrittenTail DEF reserve, shrink_to_fit, refused, contents
<1> QED
  BY <1>1, <1>2, <1>3, <1>4, <1>5, <1>6, <1>7 DEF Grow

\* So does whole storage: a raw write is masked before it is counted.
LEMMA ExchangeTail ==
    ASSUME TypeOK, UnusedBitsClear, NEW x \in Obj, Exchange(x)
    PROVE  UnusedBitsClear'
<1>1. CASE \E k \in 0 .. MaxBlocks : \E b \in Storage(k) : replace(x, b)
  <2> PICK k \in 0 .. MaxBlocks : \E b \in Storage(k) : replace(x, b)
    BY <1>1
  <2> PICK b \in Storage(k) : replace(x, b)
    OBVIOUS
  <2>1. TailClear(b, num_bits(b))
    BY NumBlocks, NoTail
  <2> QED
    BY <2>1, StoreTail DEF replace
<1>2. CASE extract(x)
  <2>1. TailClear(no_blocks, 0)
    BY DEF no_blocks, TailClear
  <2> QED
    BY <1>2, <2>1, StoreTail DEF extract
<1>3. CASE \E b \in Storage(num_blocks(m_blocks[x])) : write_blocks(x, b)
  <2> PICK b \in Storage(num_blocks(m_blocks[x])) : write_blocks(x, b)
    BY <1>3
  <2>1. /\ m_size[x] \in Nat /\ blocks_for(m_size[x]) \in Nat
        /\ num_blocks(m_blocks[x]) = blocks_for(m_size[x])
    BY BlocksType
  <2>2. TailClear(erase_unused(b, m_size[x]), m_size[x])
    BY <2>1, MaskedTail
  <2> QED
    BY <2>2, WriteTail DEF write_blocks
<1> QED
  BY <1>1, <1>2, <1>3 DEF Exchange

\* So does a write to one position.
LEMMA WritePositionTail ==
    ASSUME TypeOK, UnusedBitsClear, NEW x \in Obj, WritePosition(x)
    PROVE  UnusedBitsClear'
<1> DEFINE b == m_blocks[x]
           k == blocks_for(m_size[x])
<1>0. k \in Nat /\ b \in Storage(k) /\ m_size[x] \in Nat /\ TailClear(b, m_size[x])
  BY BlocksType DEF UnusedBitsClear
<1>1. ASSUME NEW n, is_valid(x, n)
      PROVE  /\ TailClear(bit_set(b, n), m_size[x])
             /\ TailClear(bit_reset(b, n), m_size[x])
             /\ TailClear(bit_flipped(b, n), m_size[x])
  <2>1. n \in Nat /\ n < m_size[x]
    BY <1>0, <1>1 DEF is_valid
  <2> QED
    BY <1>0, <2>1, PositionWrittenTail
<1>2. CASE \E n \in Width : set(x, n) \/ reset(x, n) \/ flip(x, n) \/ insert(x, n) \/ erase(x, n)
  BY <1>1, <1>2, WriteTail DEF set, reset, flip, insert, erase
<1>3. CASE drop_front(x) \/ drop_back(x)
  <2>1. TailClear(front_dropped(b), m_size[x]) /\ TailClear(back_dropped(b), m_size[x])
    BY <1>0, ExtremeDroppedTail
  <2> QED
    BY <1>3, <2>1, WriteTail DEF drop_front, drop_back
<1> QED
  BY <1>2, <1>3 DEF WritePosition

\* So does a write to many.
LEMMA WriteManyTail ==
    ASSUME TypeOK, UnusedBitsClear, NEW x \in Obj, WriteMany(x)
    PROVE  UnusedBitsClear'
<1> DEFINE b == m_blocks[x]
           k == blocks_for(m_size[x])
<1>0. k \in Nat /\ b \in Storage(k) /\ m_size[x] \in Nat /\ TailClear(b, m_size[x])
  BY BlocksType DEF UnusedBitsClear
<1>1. CASE \E n, len \in Width, value \in BOOLEAN : set_range(x, n, len, value)
  <2> PICK n \in Width, len \in Width, value \in BOOLEAN : set_range(x, n, len, value)
    BY <1>1
  <2>1. n \in Nat /\ len \in Nat /\ n + len <= m_size[x]
    BY WidthType DEF set_range
  <2>2. TailClear(range_set(b, n, len, value), m_size[x])
    BY <1>0, <2>1, RangeSetTail
  <2> QED
    BY <2>2, WriteTail DEF set_range
<1>2. CASE set_all(x) \/ reset_all(x) \/ flip_all(x)
  <2>1. /\ TailClear(all_set(b, m_size[x]), m_size[x])
        /\ TailClear(all_reset(b), m_size[x])
        /\ TailClear(all_flipped(b, m_size[x]), m_size[x])
    BY <1>0, WholeWrittenTail
  <2> QED
    BY <1>2, <2>1, WriteTail DEF set_all, reset_all, flip_all
<1>3. CASE \E n \in Width, value, mask \in Block : write_block_at(x, n, value, mask)
  <2> PICK n \in Width, value \in Block, mask \in Block : write_block_at(x, n, value, mask)
    BY <1>3
  <2>1. n \in Nat /\ n < m_size[x]
    BY <1>0 DEF write_block_at, is_valid
  <2>2. n + bits_per_block <= m_size[x] \/ shr(mask, m_size[x] - n) = zero
    BY DEF write_block_at
  <2>3. TailClear(written_at(b, n, value, mask), m_size[x])
    BY <1>0, <2>1, <2>2, WrittenAtTail
  <2> QED
    BY <2>3, WriteTail DEF write_block_at
<1> QED
  BY <1>1, <1>2, <1>3 DEF WriteMany

\* So does a move of the positions: a shift up masks what it pushes out.
LEMMA MoveTail ==
    ASSUME TypeOK, UnusedBitsClear, NEW x \in Obj, Move(x)
    PROVE  UnusedBitsClear'
<1> USE WidthType
<1> DEFINE b == m_blocks[x]
           k == blocks_for(m_size[x])
<1>0. k \in Nat /\ b \in Storage(k) /\ m_size[x] \in Nat /\ TailClear(b, m_size[x])
  BY BlocksType DEF UnusedBitsClear
<1>1. CASE \E n \in Width : shift_up(x, n)
  <2> PICK n \in Width : shift_up(x, n)
    BY <1>1
  <2>1. TailClear(erase_unused(shifted_up(b, n), m_size[x]), m_size[x])
    BY <1>0, ShiftedType, MaskedTail
  <2> QED
    BY <2>1, WriteTail DEF shift_up
<1>2. CASE \E n \in Width : shift_down(x, n)
  <2> PICK n \in Width : shift_down(x, n)
    BY <1>2
  <2>1. TailClear(shifted_down(b, n), m_size[x])
    BY <1>0, ShiftedDownTail
  <2> QED
    BY <2>1, WriteTail DEF shift_down
<1>3. CASE \E n \in Width : rotate(x, n)
  BY <1>0, <1>3, RotatedTail, WriteTail DEF rotate
<1>4. CASE reverse(x)
  BY <1>0, <1>4, EndForEndTail, WriteTail DEF reverse
<1> QED
  BY <1>1, <1>2, <1>3, <1>4 DEF Move

\* The blocks a container lacks are read as zero, and are as clear a tail.
LEMMA PaddedTail ==
    ASSUME TypeOK, NEW y \in Obj, NEW size, TailClear(m_blocks[y], size), NEW i \in Nat
    PROVE  \A o \in padded_block(m_blocks[y], i) : i * bits_per_block + o < size
<1>1. /\ blocks_for(m_size[y]) \in Nat
      /\ num_blocks(m_blocks[y]) = blocks_for(m_size[y])
      /\ DOMAIN m_blocks[y] = 0 .. blocks_for(m_size[y]) - 1
  BY BlocksType, NumBlocks
<1>2. i < num_blocks(m_blocks[y]) => i \in DOMAIN m_blocks[y]
  BY <1>1
<1> QED
  BY <1>2 DEF padded_block, TailClear, zero

\* The one group of writers that does not mask and that may set bits: what
\* they set comes from the other container, which is why its highest position
\* has to be admitted first.
LEMMA CombineTail ==
    ASSUME TypeOK, UnusedBitsClear, NEW x \in Obj, NEW y \in Obj,
           \/ and_assign(x, y) \/ minus_assign(x, y)
           \/ admits(x, y) /\ or_assign(x, y)
           \/ admits(x, y) /\ xor_assign(x, y)
    PROVE  UnusedBitsClear'
<1> DEFINE b == m_blocks[x]
           k == blocks_for(m_size[x])
<1>0. /\ k \in Nat /\ b \in Storage(k) /\ DOMAIN b = 0 .. k - 1
      /\ m_size[x] \in Nat /\ TailClear(b, m_size[x])
  BY BlocksType, NumBlocks DEF UnusedBitsClear
<1>1. CASE and_assign(x, y) \/ minus_assign(x, y)
  <2>1. PICK op \in {"and_assign", "minus_assign"} :
            write(x, count_blocks(combined(x, y, op)), combined(x, y, op))
    BY <1>1 DEF and_assign, minus_assign, combine
  <2>2. \A lhs, rhs : compound(op, lhs, rhs) \subseteq lhs
    BY DEF compound
  <2>3. DOMAIN combined(x, y, op) = 0 .. k - 1 /\ \A i \in 0 .. k - 1 : combined(x, y, op)[i] \subseteq b[i]
    BY <1>0, <2>2 DEF combined
  <2>4. TailClear(combined(x, y, op), m_size[x])
    BY <1>0, <2>3 DEF TailClear
  <2> QED
    BY <2>1, <2>4, WriteTail
<1>2. CASE admits(x, y) /\ (or_assign(x, y) \/ xor_assign(x, y))
  <2>1. PICK op \in {"or_assign", "xor_assign"} :
            write(x, count_blocks(combined(x, y, op)), combined(x, y, op))
    BY <1>2 DEF or_assign, xor_assign, combine
  <2>2. \A lhs, rhs : compound(op, lhs, rhs) \subseteq lhs \cup rhs
    BY DEF compound, bit_xor
  <2>3. /\ DOMAIN combined(x, y, op) = 0 .. k - 1
        /\ \A i \in 0 .. k - 1 : combined(x, y, op)[i] \subseteq b[i] \cup padded_block(m_blocks[y], i)
    BY <1>0, <2>2 DEF combined
  <2>4. TailClear(m_blocks[y], m_size[x])
    <3>1. blocks_for(m_size[y]) \in Nat /\ m_blocks[y] \in Storage(blocks_for(m_size[y]))
      BY BlocksType
    <3>2. \A p \in Positions(m_blocks[y]) : p < m_size[x]
      BY <1>2 DEF admits
    <3> QED
      BY <1>0, <3>1, <3>2, PositionsTail
  <2>5. \A i \in 0 .. k - 1 : \A o \in padded_block(m_blocks[y], i) : i * bits_per_block + o < m_size[x]
    BY <2>4, PaddedTail
  <2>6. TailClear(combined(x, y, op), m_size[x])
    BY <1>0, <2>3, <2>5 DEF TailClear
  <2> QED
    BY <2>1, <2>6, WriteTail
<1> QED
  BY <1>1, <1>2

\* So does every call on two containers, where the other is admitted.
LEMMA PairwiseTail ==
    ASSUME TypeOK, UnusedBitsClear, NEW x \in Obj, NEW y \in Obj, Pairwise(x, y)
    PROVE  UnusedBitsClear'
<1> DEFINE kx == blocks_for(m_size[x])
           ky == blocks_for(m_size[y])
<1>0. /\ kx \in Nat /\ m_blocks[x] \in Storage(kx) /\ m_size[x] \in Nat
      /\ ky \in Nat /\ m_blocks[y] \in Storage(ky)
      /\ TailClear(m_blocks[y], m_size[y])
  BY BlocksType DEF UnusedBitsClear
<1>1. CASE copy_assign(x, y)
  <2>1. UNCHANGED contents \/ store(x, m_size[y], m_count[y], m_blocks[y])
    BY <1>1 DEF copy_assign, refused
  <2> QED
    BY <1>0, <2>1, UnwrittenTail, StoreTail DEF contents
<1>2. CASE move_assign(x, y)
  <2>1. CASE x = y \/ ~has_stored_size
    BY <1>0, <1>2, <2>1, StoreTail DEF move_assign
  <2>2. CASE ~(x = y \/ ~has_stored_size)
    <3>1. TailClear(no_blocks, 0)
      BY DEF no_blocks, TailClear
    <3>2. \A z \in Obj :
             /\ m_size'[z]   = IF z = y THEN 0 ELSE IF z = x THEN m_size[y] ELSE m_size[z]
             /\ m_blocks'[z] = IF z = y THEN no_blocks ELSE IF z = x THEN m_blocks[y] ELSE m_blocks[z]
      BY <1>2, <2>2 DEF move_assign, TypeOK
    <3> QED
      BY <3>1, <3>2 DEF UnusedBitsClear
  <2> QED
    BY <2>1, <2>2
<1>3. CASE swap(x, y)
  <2>1. \A z \in Obj : \E w \in Obj : m_size'[z] = m_size[w] /\ m_blocks'[z] = m_blocks[w]
    BY <1>3 DEF swap, TypeOK
  <2> QED
    BY <2>1 DEF UnusedBitsClear
<1>4. CASE grow_to_admit(x, y)
  <2> DEFINE n == find_back(m_blocks[y]) + 1
  <2>1. CASE UNCHANGED contents
    BY <2>1, UnwrittenTail DEF contents
  <2>2. CASE any(m_blocks[y]) /\ resize_to(x, n, FALSE)
    <3>1. n \in Nat
      BY <1>0, <2>2, FindBackType
    <3> HIDE DEF n
    <3> QED
      BY <2>2, <3>1, ResizeToTail
  <2> QED
    BY <1>4, <2>1, <2>2 DEF grow_to_admit, refused
<1>5. CASE \/ and_assign(x, y) \/ minus_assign(x, y)
           \/ admits(x, y) /\ or_assign(x, y)
           \/ admits(x, y) /\ xor_assign(x, y)
  BY <1>5, CombineTail
<1>6. CASE \E f \in Kernel : transform(x, y, f)
  <2> PICK f \in Kernel : transform(x, y, f)
    BY <1>6
  <2>1. transformed(x, y, f) \in Storage(kx)
    BY TransformedType DEF transform
  <2>2. TailClear(erase_unused(transformed(x, y, f), m_size[x]), m_size[x])
    BY <1>0, <2>1, MaskedTail
  <2> QED
    BY <2>2, WriteTail DEF transform
<1> QED
  BY <1>1, <1>2, <1>3, <1>4, <1>5, <1>6 DEF Pairwise

\* The unused-tail invariant holds for every width of a block, every kind of
\* storage and any number of containers: no member function, and no refused
\* allocation, leaves a bit at or above the width, provided the other side of
\* |= and ^= has been admitted, as the readings see to.
THEOREM UnusedBitsStayClear == Spec => []UnusedBitsClear
<1>1. Init => UnusedBitsClear
  <2> SUFFICES ASSUME Init, NEW x \in Obj PROVE TailClear(m_blocks[x], m_size[x])
    BY DEF UnusedBitsClear
  <2>1. \A i \in DOMAIN m_blocks[x] : m_blocks[x][i] = zero
    BY DEF Init
  <2> QED
    BY <2>1 DEF TailClear, zero
<1>2. TypeOK /\ UnusedBitsClear /\ [Next]_vars => UnusedBitsClear'
  <2> SUFFICES ASSUME TypeOK, UnusedBitsClear, [Next]_vars PROVE UnusedBitsClear'
    OBVIOUS
  <2>1. CASE UNCHANGED vars
    BY <2>1, UnwrittenTail DEF vars
  <2>2. CASE \E x \in Obj : Grow(x) \/ Exchange(x) \/ WritePosition(x) \/ WriteMany(x) \/ Move(x)
    BY <2>2, GrowTail, ExchangeTail, WritePositionTail, WriteManyTail, MoveTail
  <2>3. CASE \E x, y \in Obj : Pairwise(x, y)
    BY <2>3, PairwiseTail
  <2> QED
    BY <2>1, <2>2, <2>3 DEF Next
<1> QED
  BY <1>1, <1>2, TypeCorrect, PTL DEF Spec

(***************************************************************************)
(* The kept count, as the storage grows, is written and is permuted.  A    *)
(* write moves the count by what it takes to change the set of positions   *)
(* the way it does: the first lemmas are about the size of such sets, and  *)
(* the proof applies them to the positions each operation leaves.          *)
(***************************************************************************)
(***************************************************************************)
(* Sizes of finite sets.                                                   *)
(***************************************************************************)
\* A set has as many members as any set it is mapped onto one to one.
LEMMA SameSize ==
    ASSUME NEW S, IsFiniteSet(S), NEW T, NEW f \in [S -> T],
           \A s, u \in S : f[s] = f[u] => s = u,
           \A t \in T : \E s \in S : f[s] = t
    PROVE  IsFiniteSet(T) /\ Cardinality(T) = Cardinality(S)
<1>1. f \in Bijection(S, T)
  BY DEF Bijection, Injection, Surjection, IsInjective
<1>2. ExistsBijection(S, T)
  BY <1>1 DEF ExistsBijection
<1> QED
  BY <1>2, FS_Bijection

\* So has a set whose every member moves by one distance.
LEMMA MovedSize ==
    ASSUME NEW S \in SUBSET Int, IsFiniteSet(S), NEW d \in Int, NEW T \in SUBSET Int,
           \A p \in Int : p \in T <=> p - d \in S
    PROVE  IsFiniteSet(T) /\ Cardinality(T) = Cardinality(S)
<1> DEFINE f == [p \in S |-> p + d]
<1>1. ASSUME NEW p \in S PROVE p + d \in T
  <2>1. p + d \in Int /\ (p + d) - d = p
    OBVIOUS
  <2> QED
    BY <2>1
<1>2. \A s, u \in S : f[s] = f[u] => s = u
  OBVIOUS
<1>3. ASSUME NEW t \in T PROVE \E s \in S : f[s] = t
  <2>1. t - d \in S /\ (t - d) + d = t
    OBVIOUS
  <2> QED
    BY <2>1
<1>4. f \in [S -> T]
  BY <1>1
<1> HIDE DEF f
<1> QED
  BY <1>2, <1>3, <1>4, SameSize

\* And the sum of the sizes is the size of a union of sets that do not meet.
LEMMA DisjointSize ==
    ASSUME NEW S, IsFiniteSet(S), NEW T, IsFiniteSet(T), S \cap T = {}
    PROVE  /\ IsFiniteSet(S \cup T)
           /\ Cardinality(S \cup T) = Cardinality(S) + Cardinality(T)
           /\ Cardinality(S) \in Nat /\ Cardinality(T) \in Nat
BY FS_Union, FS_EmptySet, FS_CardinalityType

\* The part of a set outside a range, as its writers take it from the count.
LEMMA OutsideSize ==
    ASSUME NEW S, IsFiniteSet(S), NEW R
    PROVE  /\ IsFiniteSet(S \ R)
           /\ Cardinality(S \ R) = Cardinality(S) - Cardinality(S \cap R)
           /\ Cardinality(S) \in Nat /\ Cardinality(S \cap R) \in Nat
           /\ Cardinality(S \ R) \in Nat
BY FS_Difference, FS_Intersection, FS_CardinalityType

\* A range of len positions, all of them or none.
LEMMA FilledSize ==
    ASSUME NEW a \in Int, NEW c \in Int, NEW value \in BOOLEAN,
           NEW A, A = {p \in a .. c - 1 : value}
    PROVE  IsFiniteSet(A) /\ Cardinality(A) = IF value /\ c > a THEN c - a ELSE 0
<1>1. CASE value
  <2>1. A = a .. c - 1
    BY <1>1
  <2>2. c - 1 \in Int
    OBVIOUS
  <2>3. IsFiniteSet(a .. c - 1) /\ Cardinality(a .. c - 1) = IF a > c - 1 THEN 0 ELSE (c - 1) - a + 1
    BY <2>2, FS_Interval
  <2>4. Cardinality(a .. c - 1) = IF c > a THEN c - a ELSE 0
    <3> HIDE <1>1
    <3> QED
      BY <2>3
  <2> QED
    BY <1>1, <2>1, <2>3, <2>4
<1>2. CASE ~value
  <2>1. A = {}
    BY <1>2
  <2> QED
    BY <1>2, <2>1, FS_EmptySet
<1> QED
  BY <1>1, <1>2

(***************************************************************************)
(* The counts of blocks.                                                   *)
(***************************************************************************)
\* The count of blocks is a number, and so is what a member can keep of it.
LEMMA FinitePositions ==
    ASSUME NEW k \in Nat, NEW b \in Storage(k)
    PROVE  /\ IsFiniteSet(Positions(b)) /\ count_blocks(b) \in Nat
           /\ count_blocks(b) = Cardinality(Positions(b))
<1>1. k * bits_per_block - 1 \in Int
  BY WholeWidth
<1>2. IsFiniteSet(Span(k))
  BY <1>1, FS_Interval DEF Span
<1> QED
  BY <1>2, PositionsBelow, FS_Subset, FS_CardinalityType DEF count_blocks

\* count_in reads the positions of its range and no block past the last.
LEMMA CountedPositions ==
    ASSUME NEW k \in Nat, NEW b \in Storage(k), NEW n \in Nat, NEW len \in Nat,
           n + len <= k * bits_per_block
    PROVE  count_in(b, n, len) = Cardinality(Positions(b) \cap (n .. n + len - 1))
<1> DEFINE extent == k * bits_per_block
<1>1. extent \in Nat
  BY WholeWidth
<1> HIDE DEF extent
<1>2. \A p \in n .. n + len - 1 : p \in 0 .. extent - 1
  BY <1>1 DEF extent
<1>3. \A p \in n .. n + len - 1 : BitAt(b, p) <=> p \in Positions(b)
  <2>1. Span(k) = 0 .. extent - 1
    BY DEF Span, extent
  <2> QED
    BY <1>2, <2>1, PositionWrittenPositions
<1>4. PositionsIn(b, n, len) = Positions(b) \cap (n .. n + len - 1)
  BY <1>3 DEF PositionsIn
<1> QED
  BY <1>4 DEF count_in

\* A position written alone moves the count by one, or not at all.
LEMMA PositionWrittenCount ==
    ASSUME NEW k \in Nat, NEW b \in Storage(k), NEW n \in Span(k)
    PROVE  /\ count_blocks(bit_set(b, n)) = count_blocks(b) + one_if(~BitAt(b, n))
           /\ count_blocks(bit_reset(b, n)) = count_blocks(b) - one_if(BitAt(b, n))
           /\ count_blocks(bit_flipped(b, n)) = count_blocks(b) + 1 - 2 * one_if(BitAt(b, n))
<1> DEFINE P == Positions(b)
<1>1. IsFiniteSet(P) /\ count_blocks(b) = Cardinality(P) /\ Cardinality(P) \in Nat
  BY FinitePositions
<1>2. /\ BitAt(b, n) <=> n \in P
      /\ Positions(bit_set(b, n)) = P \cup {n}
      /\ Positions(bit_reset(b, n)) = P \ {n}
      /\ Positions(bit_flipped(b, n)) = IF n \in P THEN P \ {n} ELSE P \cup {n}
  BY PositionWrittenPositions
<1>3. /\ Cardinality(P \cup {n}) = IF n \in P THEN Cardinality(P) ELSE Cardinality(P) + 1
      /\ Cardinality(P \ {n}) = IF n \in P THEN Cardinality(P) - 1 ELSE Cardinality(P)
  BY <1>1, FS_AddElement, FS_RemoveElement
<1>4. \A c : count_blocks(c) = Cardinality(Positions(c))
  BY DEF count_blocks
<1> HIDE DEF P
<1>5. CASE n \in P
  <2>1. BitAt(b, n)
    BY <1>2, <1>5
  <2>2. one_if(BitAt(b, n)) = 1 /\ one_if(~BitAt(b, n)) = 0
    BY <2>1 DEF one_if
  <2> QED
    BY <1>1, <1>2, <1>3, <1>4, <1>5, <2>2
<1>6. CASE n \notin P
  <2>1. ~BitAt(b, n)
    BY <1>2, <1>6
  <2>2. one_if(BitAt(b, n)) = 0 /\ one_if(~BitAt(b, n)) = 1
    BY <2>1 DEF one_if
  <2>3. /\ count_blocks(bit_set(b, n)) = count_blocks(b) + 1
        /\ count_blocks(bit_reset(b, n)) = count_blocks(b)
        /\ count_blocks(bit_flipped(b, n)) = count_blocks(b) + 1
        /\ count_blocks(b) \in Nat
    BY <1>1, <1>2, <1>3, <1>4, <1>6
  <2> QED
    BY <2>2, <2>3
<1> QED
  BY <1>5, <1>6

\* The lowest, and the highest, position dropped is one that was set.
LEMMA DroppedCount ==
    ASSUME NEW k \in Nat, NEW b \in Storage(k), any(b)
    PROVE  /\ count_blocks(front_dropped(b)) = count_blocks(b) - 1
           /\ count_blocks(back_dropped(b)) = count_blocks(b) - 1
<1>1. /\ Positions(front_dropped(b)) = Positions(b) \ {find_front(b)}
      /\ Positions(back_dropped(b)) = Positions(b) \ {find_back(b)}
      /\ find_front(b) \in Positions(b) /\ find_back(b) \in Positions(b)
  BY EndPositions
<1>2. IsFiniteSet(Positions(b))
  BY FinitePositions
<1> QED
  BY <1>1, <1>2, FS_RemoveElement DEF count_blocks

\* A new width drops from the count the positions it drops, and adds those
\* that arrive set.
LEMMA ResizedCount ==
    ASSUME NEW size \in Nat, NEW b \in Storage(blocks_for(size)), TailClear(b, size),
           NEW n \in Nat, NEW value \in BOOLEAN,
           NEW kept, kept = IF n < size THEN n ELSE size
    PROVE  /\ count_in(b, kept, size - kept) \in Nat
           /\ count_blocks(resized(b, size, n, value)) =
                  count_blocks(b) - count_in(b, kept, size - kept)
                  + (IF value /\ n > size THEN n - size ELSE 0)
<1> DEFINE k == blocks_for(size)
           P == Positions(b)
           R == kept .. size - 1
           A == {p \in size .. n - 1 : value}
           K == {p \in P : p < n}
<1>1. k \in Nat /\ size <= k * bits_per_block
  BY BlocksForBounds
<1>2. IsFiniteSet(P) /\ count_blocks(b) = Cardinality(P)
  BY <1>1, FinitePositions
<1>3. P \subseteq 0 .. size - 1
  BY <1>1, ClearBelow
<1>4. count_in(b, kept, size - kept) = Cardinality(P \cap R)
  <2>1. kept \in Nat /\ size - kept \in Nat /\ kept + (size - kept) = size
    OBVIOUS
  <2>2. kept + (size - kept) - 1 = size - 1
    OBVIOUS
  <2> DEFINE len == size - kept
  <2> HIDE DEF k
  <2>3. kept + len <= k * bits_per_block
    BY <1>1, <2>1
  <2> HIDE DEF len
  <2>4. count_in(b, kept, len) = Cardinality(P \cap (kept .. kept + len - 1))
    BY <1>1, <2>1, <2>3, CountedPositions DEF len, k
  <2> QED
    BY <2>2, <2>4 DEF len
<1>5. K = P \ R
  BY <1>3
<1>6. Positions(resized(b, size, n, value)) = K \cup A
  BY ResizedPositions
<1>7. K \cap A = {}
  BY <1>3
<1>8. IsFiniteSet(A) /\ Cardinality(A) = IF value /\ n > size THEN n - size ELSE 0
  <2>1. A = {p \in size .. n - 1 : value}
    OBVIOUS
  <2> HIDE DEF A
  <2> QED
    BY <2>1, FilledSize
<1> HIDE DEF P, R, A, K
<1>9. /\ IsFiniteSet(K) /\ Cardinality(K) = Cardinality(P) - Cardinality(P \cap R)
      /\ Cardinality(P \cap R) \in Nat
  BY <1>2, <1>5, OutsideSize
<1>10. Cardinality(K \cup A) = Cardinality(K) + Cardinality(A)
  BY <1>7, <1>8, <1>9, DisjointSize
<1> QED
  BY <1>2, <1>4, <1>6, <1>8, <1>9, <1>10 DEF count_blocks

\* An appended block adds the bits it holds.
LEMMA AppendedCount ==
    ASSUME NEW size \in Nat, NEW b \in Storage(blocks_for(size)), TailClear(b, size),
           NEW value \in Block
    PROVE  count_blocks(appended(b, size, value)) = count_blocks(b) + popcount(value)
<1> DEFINE k == blocks_for(size)
           P == Positions(b)
           A == {size + o : o \in value}
<1>1. k \in Nat
  BY BlocksForBounds
<1>2. IsFiniteSet(P) /\ count_blocks(b) = Cardinality(P) /\ P \subseteq 0 .. size - 1
  BY <1>1, FinitePositions, ClearBelow
<1>3. value \subseteq Nat /\ IsFiniteSet(value)
  <2>1. bits_per_block - 1 \in Int
    BY BitsPerBlockAssumption
  <2>2. IsFiniteSet(Offset)
    BY <2>1, FS_Interval DEF Offset
  <2>3. value \in SUBSET Offset /\ Offset \subseteq Nat
    BY DEF Block, Offset
  <2> QED
    BY <2>2, <2>3, FS_Subset
<1>4. A \in SUBSET Int /\ \A p \in Int : p \in A <=> p - size \in value
  <2>1. \A o \in value : o \in Int /\ size + o \in Int /\ (size + o) - size = o
    BY <1>3
  <2>2. ASSUME NEW p \in Int, p - size \in value PROVE p \in A
    <3>1. p = size + (p - size)
      OBVIOUS
    <3> QED
      BY <2>2, <3>1
  <2> QED
    BY <2>1, <2>2
<1>5. IsFiniteSet(A) /\ Cardinality(A) = Cardinality(value)
  <2> HIDE DEF A
  <2>1. value \in SUBSET Int
    BY <1>3
  <2> QED
    BY <1>3, <1>4, <2>1, MovedSize
<1>6. P \cap A = {}
  BY <1>2, <1>3
<1>7. Positions(appended(b, size, value)) = P \cup A
  BY AppendedPositions
<1> HIDE DEF P, A
<1>8. Cardinality(P \cup A) = Cardinality(P) + Cardinality(A)
  BY <1>2, <1>5, <1>6, DisjointSize
<1> QED
  BY <1>2, <1>5, <1>7, <1>8 DEF count_blocks, popcount

\* A range written leaves the count the positions outside it, and its length
\* when it is set.
LEMMA RangeSetCount ==
    ASSUME NEW k \in Nat, NEW b \in Storage(k), NEW n \in Nat, NEW len \in Nat,
           n + len <= k * bits_per_block, NEW value \in BOOLEAN
    PROVE  count_blocks(range_set(b, n, len, value)) =
               count_blocks(b) - count_in(b, n, len) + (IF value THEN len ELSE 0)
<1> DEFINE P == Positions(b)
           R == n .. n + len - 1
           A == {p \in n .. n + len - 1 : value}
           K == P \ R
<1>1. IsFiniteSet(P) /\ count_blocks(b) = Cardinality(P)
  BY FinitePositions
<1>2. count_in(b, n, len) = Cardinality(P \cap R)
  BY CountedPositions
<1>3. Positions(range_set(b, n, len, value)) = K \cup A
  BY RangeSetPositions
<1>4. IsFiniteSet(A) /\ Cardinality(A) = IF value THEN len ELSE 0
  <2>1. n + len \in Int /\ (n + len > n <=> len # 0) /\ (n + len) - n = len
    OBVIOUS
  <2> DEFINE e == n + len
  <2>2. A = {p \in n .. e - 1 : value}
    OBVIOUS
  <2> HIDE DEF A, e
  <2>3. IsFiniteSet(A) /\ Cardinality(A) = IF value /\ e > n THEN e - n ELSE 0
    <3>1. e \in Int
      BY <2>1 DEF e
    <3> QED
      BY <2>2, <3>1, FilledSize
  <2> QED
    BY <2>1, <2>3 DEF e
<1>5. K \cap A = {}
  OBVIOUS
<1> HIDE DEF P, R, A
<1>6. /\ IsFiniteSet(K) /\ Cardinality(K) = Cardinality(P) - Cardinality(P \cap R)
      /\ Cardinality(P \cap R) \in Nat /\ Cardinality(P) \in Nat
  BY <1>1, OutsideSize
<1> HIDE DEF K
<1>7. Cardinality(K \cup A) = Cardinality(K) + Cardinality(A)
  BY <1>4, <1>5, <1>6, DisjointSize
<1> QED
  BY <1>1, <1>2, <1>3, <1>4, <1>6, <1>7 DEF count_blocks

\* Every position of the width set, none of the storage, or the others.
LEMMA WholeWrittenCount ==
    ASSUME NEW size \in Nat, NEW b \in Storage(blocks_for(size)), TailClear(b, size)
    PROVE  /\ count_blocks(all_set(b, size)) = size
           /\ count_blocks(all_reset(b)) = 0
           /\ count_blocks(all_flipped(b, size)) = size - count_blocks(b)
<1> DEFINE P == Positions(b)
           All == 0 .. size - 1
<1>1. blocks_for(size) \in Nat
  BY BlocksForBounds
<1>2. IsFiniteSet(P) /\ count_blocks(b) = Cardinality(P) /\ P \subseteq All
  BY <1>1, FinitePositions, ClearBelow
<1>3. IsFiniteSet(All) /\ Cardinality(All) = size
  <2>1. size - 1 \in Int /\ (0 > size - 1 <=> size = 0)
    OBVIOUS
  <2>2. IsFiniteSet(All) /\ Cardinality(All) = IF 0 > size - 1 THEN 0 ELSE (size - 1) - 0 + 1
    BY <2>1, FS_Interval
  <2> HIDE DEF All
  <2> QED
    BY <2>1, <2>2
<1>4. /\ Positions(all_set(b, size)) = All
      /\ Positions(all_reset(b)) = {}
      /\ Positions(all_flipped(b, size)) = All \ P
  BY WholeWrittenPositions
<1> HIDE DEF P, All
<1>5. Cardinality(All \ P) = Cardinality(All) - Cardinality(P)
  <2>1. All \cap P = P
    BY <1>2
  <2> QED
    BY <1>3, <2>1, OutsideSize
<1> QED
  BY <1>2, <1>3, <1>4, <1>5, FS_EmptySet DEF count_blocks

\* A shift moves the positions it keeps and takes off the count the others:
\* those less than n from the width, or below n.
LEMMA ShiftedCount ==
    ASSUME NEW size \in Nat, NEW b \in Storage(blocks_for(size)), TailClear(b, size),
           NEW n \in 0 .. size - 1
    PROVE  /\ count_in(b, size - n, n) \in Nat /\ count_in(b, 0, n) \in Nat
           /\ count_blocks(erase_unused(shifted_up(b, n), size)) =
                  count_blocks(b) - count_in(b, size - n, n)
           /\ count_blocks(shifted_down(b, n)) = count_blocks(b) - count_in(b, 0, n)
<1> DEFINE k == blocks_for(size)
           extent == k * bits_per_block
           P == Positions(b)
           H == size - n .. size - 1
           L == 0 .. n - 1
<1>1. k \in Nat /\ extent \in Nat /\ size <= extent /\ n \in Nat
  BY BlocksForBounds, WholeWidth
<1>2. IsFiniteSet(P) /\ count_blocks(b) = Cardinality(P) /\ P \subseteq 0 .. size - 1
  BY <1>1, FinitePositions, ClearBelow
<1>3. \A p : p \in Span(k) <=> p \in Nat /\ p < extent
  BY <1>1 DEF Span
<1>4. /\ Positions(shifted_up(b, n)) = {p \in Span(k) : p - n \in P}
      /\ Positions(shifted_down(b, n)) = {p \in Span(k) : p + n \in P}
  BY <1>1, ShiftedUpPositions, ShiftedDownPositions
<1>5. Positions(erase_unused(shifted_up(b, n), size)) = {p \in Positions(shifted_up(b, n)) : p < size}
  BY <1>1, ShiftedType, ErasedPositions
<1> HIDE DEF extent, k, P
<1>6. count_in(b, size - n, n) = Cardinality(P \cap H)
  <2> DEFINE m == size - n
  <2>1. m \in Nat /\ m + n = size
    BY <1>1
  <2> HIDE DEF m
  <2>2. count_in(b, m, n) = Cardinality(P \cap (m .. m + n - 1))
    BY <1>1, <2>1, CountedPositions DEF k, extent, P
  <2> QED
    BY <2>1, <2>2 DEF m
<1>7. count_in(b, 0, n) = Cardinality(P \cap L)
  <2>1. 0 + n = n /\ n <= extent
    BY <1>1
  <2>2. count_in(b, 0, n) = Cardinality(P \cap (0 .. 0 + n - 1))
    BY <1>1, <2>1, CountedPositions DEF k, extent, P
  <2> QED
    BY <2>1, <2>2
<1>8. /\ IsFiniteSet(P \ H) /\ Cardinality(P \ H) = Cardinality(P) - Cardinality(P \cap H)
      /\ IsFiniteSet(P \ L) /\ Cardinality(P \ L) = Cardinality(P) - Cardinality(P \cap L)
      /\ Cardinality(P \cap H) \in Nat /\ Cardinality(P \cap L) \in Nat
  BY <1>2, OutsideSize
<1>9. Cardinality(Positions(erase_unused(shifted_up(b, n), size))) = Cardinality(P \ H)
  <2> DEFINE T == Positions(erase_unused(shifted_up(b, n), size))
  <2>1. \A p : p \in T <=> p \in Nat /\ p < size /\ p - n \in P
    BY <1>1, <1>3, <1>4, <1>5
  <2>2. \A p \in P : p \in Nat /\ p < size
    BY <1>2
  <2> HIDE DEF T
  <2>3. ASSUME NEW p \in Int PROVE p \in T <=> p - n \in P \ H
    <3> DEFINE q == p - n
    <3>1. q \in Int /\ p = q + n
      BY <1>1
    <3>2. p \in T <=> p \in Nat /\ p < size /\ q \in P
      BY <2>1
    <3> HIDE DEF q
    <3>3. q \in P => (q \in H <=> p >= size) /\ p \in Nat
      BY <1>1, <2>2, <3>1
    <3>4. p \in T <=> q \in P \ H
      BY <1>1, <3>2, <3>3
    <3> QED
      BY <3>4 DEF q
  <2>4. T \in SUBSET Int /\ P \ H \in SUBSET Int
    BY <2>1, <2>2
  <2>5. Cardinality(T) = Cardinality(P \ H)
    <3> DEFINE S == P \ H
    <3>1. IsFiniteSet(S) /\ S \in SUBSET Int /\ \A p \in Int : p \in T <=> p - n \in S
      BY <1>8, <2>3, <2>4
    <3> HIDE DEF S
    <3>2. Cardinality(T) = Cardinality(S)
      BY <1>1, <2>4, <3>1, MovedSize
    <3> QED
      BY <3>2 DEF S
  <2> QED
    BY <2>5 DEF T
<1>10. Cardinality(Positions(shifted_down(b, n))) = Cardinality(P \ L)
  <2> DEFINE T == Positions(shifted_down(b, n))
  <2>1. \A p : p \in T <=> p \in Nat /\ p < extent /\ p + n \in P
    BY <1>3, <1>4
  <2>2. \A p \in P : p \in Nat /\ p < size
    BY <1>2
  <2> HIDE DEF T
  <2> DEFINE d == 0 - n
  <2>3. ASSUME NEW p \in Int PROVE p \in T <=> p - d \in P \ L
    <3> DEFINE q == p + n
    <3>1. q \in Int /\ p = q - n /\ p - d = q
      BY <1>1
    <3>2. p \in T <=> p \in Nat /\ p < extent /\ q \in P
      BY <2>1
    <3> HIDE DEF q, d
    <3>3. q \in P => (q \in L <=> p < 0) /\ p < extent
      BY <1>1, <2>2, <3>1
    <3>4. p \in T <=> q \in P \ L
      BY <1>1, <3>1, <3>2, <3>3
    <3> QED
      BY <3>1, <3>4
  <2>4. T \in SUBSET Int /\ P \ L \in SUBSET Int /\ d \in Int
    BY <1>1, <2>1, <2>2
  <2>5. Cardinality(T) = Cardinality(P \ L)
    <3> DEFINE S == P \ L
    <3>1. IsFiniteSet(S) /\ S \in SUBSET Int /\ \A p \in Int : p \in T <=> p - d \in S
      BY <1>8, <2>3, <2>4
    <3> HIDE DEF S, d
    <3>2. Cardinality(T) = Cardinality(S)
      BY <2>4, <3>1, MovedSize
    <3> QED
      BY <3>2 DEF S
  <2> QED
    BY <2>5 DEF T
<1> QED
  BY <1>2, <1>6, <1>7, <1>8, <1>9, <1>10 DEF count_blocks

\* A rotation and a reversal are permutations of the positions.
LEMMA PermutedCount ==
    ASSUME NEW size \in Nat, NEW b \in Storage(blocks_for(size)), TailClear(b, size), NEW n \in Nat
    PROVE  /\ count_blocks(rotated(b, size, n)) = count_blocks(b)
           /\ count_blocks(end_for_end(b, size)) = count_blocks(b)
<1> DEFINE P == Positions(b)
           m == n % size
           R == {p \in 0 .. size - 1 : (p + n) % size \in P}
           E == {p \in 0 .. size - 1 : size - 1 - p \in P}
<1>1. blocks_for(size) \in Nat
  BY BlocksForBounds
<1>2. IsFiniteSet(P) /\ P \subseteq 0 .. size - 1
  BY <1>1, FinitePositions, ClearBelow
<1>3. Positions(rotated(b, size, n)) = R /\ Positions(end_for_end(b, size)) = E
  BY RotatedPositions, EndForEndPositions
<1> HIDE DEF P
<1>4. Cardinality(R) = Cardinality(P)
  <2>1. CASE size = 0
    <3>1. R = {} /\ P = {}
      BY <1>2, <2>1
    <3> QED
      BY <3>1
  <2>2. CASE size # 0
    <3>1. /\ m \in Nat /\ m < size
          /\ \A p \in 0 .. size - 1 : (p + n) % size = IF p + m < size THEN p + m ELSE p + m - size
      <4>1. size \in Nat \ {0}
        BY <2>2
      <4>2. n % size \in 0 .. size - 1
        BY <4>1
      <4>3. ASSUME NEW p \in 0 .. size - 1
            PROVE  (p + n) % size = IF p + (n % size) < size THEN p + (n % size) ELSE p + (n % size) - size
        BY <4>1, RemainderOfSum
      <4>4. m \in Nat /\ m < size
        BY <4>2
      <4>5. m = n % size
        OBVIOUS
      <4> HIDE DEF m
      <4> QED
        BY <4>3, <4>4, <4>5
    <3>2. R = {p \in 0 .. size - 1 : (IF p + m < size THEN p + m ELSE p + m - size) \in P}
      BY <3>1
    <3> HIDE DEF R, m
    <3> DEFINE f == [q \in P |-> IF q >= m THEN q - m ELSE q - m + size]
    <3>3. \A q \in P : q \in Nat /\ q < size
      BY <1>2
    <3>4. ASSUME NEW q \in P PROVE f[q] \in R
      <4> DEFINE p == f[q]
      <4>1. p \in 0 .. size - 1 /\ (IF p + m < size THEN p + m ELSE p + m - size) = q
        BY <3>1, <3>3
      <4> QED
        BY <3>2, <4>1
    <3>5. ASSUME NEW p \in R PROVE \E q \in P : f[q] = p
      <4> DEFINE q == IF p + m < size THEN p + m ELSE p + m - size
      <4>1. q \in P /\ p \in 0 .. size - 1
        BY <3>2
      <4>2. f[q] = p
        BY <3>1, <3>3, <4>1
      <4> QED
        BY <4>1, <4>2
    <3>6. \A q, u \in P : f[q] = f[u] => q = u
      BY <3>1, <3>3
    <3>7. f \in [P -> R]
      BY <3>4
    <3> HIDE DEF f
    <3> QED
      BY <1>2, <3>5, <3>6, <3>7, SameSize
  <2> QED
    BY <2>1, <2>2
<1>5. Cardinality(E) = Cardinality(P)
  <2> DEFINE f == [q \in P |-> size - 1 - q]
  <2>1. \A q \in P : q \in Nat /\ q < size
    BY <1>2
  <2>2. ASSUME NEW q \in P PROVE f[q] \in E
    <3>1. size - 1 - q \in 0 .. size - 1 /\ size - 1 - (size - 1 - q) = q
      BY <2>1
    <3> QED
      BY <3>1
  <2>3. ASSUME NEW p \in E PROVE \E q \in P : f[q] = p
    <3>1. size - 1 - p \in P /\ size - 1 - (size - 1 - p) = p
      OBVIOUS
    <3> QED
      BY <3>1
  <2>4. \A q, u \in P : f[q] = f[u] => q = u
    BY <2>1
  <2>5. f \in [P -> E]
    BY <2>2
  <2> HIDE DEF f, E
  <2> QED
    BY <1>2, <2>3, <2>4, <2>5, SameSize
<1> QED
  BY <1>3, <1>4, <1>5 DEF count_blocks, P

\* Blocks all zero hold none.
LEMMA ZeroCount ==
    ASSUME NEW k \in Nat, NEW b \in Storage(k), \A i \in 0 .. k - 1 : b[i] = zero
    PROVE  count_blocks(b) = 0
<1>1. ~any(b)
  BY NumBlocks DEF any
<1>2. Positions(b) = {}
  BY <1>1, AnyPosition
<1> QED
  BY <1>2, FS_EmptySet DEF count_blocks

(***************************************************************************)
(* Every action moves the count as it moves the positions, group by group  *)
(* as Next has them.                                                       *)
(***************************************************************************)
\* What is known of a container before a call: its blocks, its tail and the
\* number they hold, which is the count where one is kept.
LEMMA CountBefore ==
    ASSUME TypeOK, UnusedBitsClear, StoredCountExact, NEW x \in Obj
    PROVE  /\ m_size[x] \in Nat /\ blocks_for(m_size[x]) \in Nat
           /\ m_blocks[x] \in Storage(blocks_for(m_size[x]))
           /\ TailClear(m_blocks[x], m_size[x])
           /\ m_size[x] <= blocks_for(m_size[x]) * bits_per_block
           /\ count_blocks(m_blocks[x]) \in Nat
           /\ Counted => m_count[x] = count_blocks(m_blocks[x])
           /\ ~Counted => m_count[x] = 0
BY BlocksType, BlocksForBounds, FinitePositions DEF UnusedBitsClear, StoredCountExact, stored

\* The members of one container written with the count of their blocks.
LEMMA StoreCount ==
    ASSUME TypeOK, StoredCountExact, NEW x \in Obj, NEW size, NEW count, NEW b,
           store(x, size, count, b), Counted => count = count_blocks(b)
    PROVE  StoredCountExact'
<1>1. \A y \in Obj : /\ m_count'[y]  = IF y = x THEN stored(count) ELSE m_count[y]
                     /\ m_blocks'[y] = IF y = x THEN b ELSE m_blocks[y]
  BY DEF store, TypeOK
<1>2. stored(count) = stored(count_blocks(b))
  BY DEF stored
<1> QED
  BY <1>1, <1>2 DEF StoredCountExact

\* A write that keeps the count of the blocks it writes keeps every count exact.
LEMMA WriteCount ==
    ASSUME TypeOK, StoredCountExact, NEW x \in Obj, NEW count, NEW b,
           write(x, count, b), Counted => count = count_blocks(b)
    PROVE  StoredCountExact'
BY StoreCount DEF write

\* A step that writes no bits and no count keeps every count exact.
LEMMA UnwrittenCount ==
    ASSUME StoredCountExact, UNCHANGED <<m_count, m_blocks>>
    PROVE  StoredCountExact'
BY DEF StoredCountExact

\* The count a new width is given is that of the blocks it leaves.
LEMMA CountAfterResize ==
    ASSUME TypeOK, UnusedBitsClear, StoredCountExact, NEW x \in Obj, Counted,
           NEW n \in Nat, NEW value \in BOOLEAN
    PROVE  count_after_resize(x, n, value) =
               count_blocks(resized(m_blocks[x], m_size[x], n, value))
<1> DEFINE size == m_size[x]
           b == m_blocks[x]
           kept == IF n < size THEN n ELSE size
           arrived == IF value /\ n > size THEN n - size ELSE 0
<1>1. /\ size \in Nat /\ b \in Storage(blocks_for(size)) /\ TailClear(b, size)
      /\ m_count[x] = count_blocks(b)
  BY CountBefore
<1>2. count_after_resize(x, n, value) = m_count[x] - count_in(b, kept, size - kept) + arrived
  BY DEF count_after_resize, counted_in
<1>3. kept = IF n < size THEN n ELSE size
  OBVIOUS
<1> HIDE DEF kept, size, b
<1>4. count_blocks(resized(b, size, n, value)) =
          count_blocks(b) - count_in(b, kept, size - kept) + arrived
  BY <1>1, <1>3, ResizedCount
<1> QED
  BY <1>1, <1>2, <1>4 DEF b, size

\* A resize: the positions it drops leave the count, those it adds as set join it.
LEMMA ResizeToCount ==
    ASSUME TypeOK, UnusedBitsClear, StoredCountExact, NEW x \in Obj,
           NEW n \in Nat, NEW value \in BOOLEAN, resize_to(x, n, value)
    PROVE  StoredCountExact'
<1>1. store(x, n, count_after_resize(x, n, value), resized(m_blocks[x], m_size[x], n, value))
  BY DEF resize_to
<1>2. Counted => count_after_resize(x, n, value) =
                     count_blocks(resized(m_blocks[x], m_size[x], n, value))
  BY CountAfterResize
<1> QED
  BY <1>1, <1>2, StoreCount

\* Growth keeps every count exact, refused or granted.
LEMMA GrowCount ==
    ASSUME TypeOK, UnusedBitsClear, StoredCountExact, NEW x \in Obj, Grow(x)
    PROVE  StoredCountExact'
<1> USE WidthType
<1> DEFINE b == m_blocks[x]
           size == m_size[x]
           k == blocks_for(size)
<1>0. /\ size \in Nat /\ k \in Nat /\ b \in Storage(k) /\ TailClear(b, size)
      /\ size <= k * bits_per_block /\ count_blocks(b) \in Nat
      /\ Counted => m_count[x] = count_blocks(b)
  BY CountBefore
<1>1. CASE \E n \in Width, value \in BOOLEAN : resize(x, n, value)
  BY <1>1, UnwrittenCount, ResizeToCount DEF resize, refused, contents
<1>2. CASE \E value \in BOOLEAN : push_back(x, value)
  <2>1. size + 1 \in Nat
    BY <1>0
  <2> QED
    BY <1>2, <2>1, UnwrittenCount, ResizeToCount DEF push_back, refused, contents
<1>3. CASE pop_back(x)
  <2>1. size - 1 \in Nat
    BY <1>0, <1>3 DEF pop_back
  <2> QED
    BY <1>3, <2>1, ResizeToCount DEF pop_back
<1>4. CASE clear(x)
  BY <1>4, ResizeToCount DEF clear
<1>5. CASE \E value \in Block : append(x, value)
  <2> PICK value \in Block : append(x, value)
    BY <1>5
  <2> DEFINE n == size + bits_per_block
             c == appended(b, size, value)
  <2>1. count_blocks(c) = count_blocks(b) + popcount(value)
    BY <1>0, AppendedCount
  <2>2. UNCHANGED contents \/ store(x, n, m_count[x] + popcount(value), c)
    BY DEF append, refused
  <2> HIDE DEF n, c
  <2> QED
    BY <1>0, <2>1, <2>2, UnwrittenCount, StoreCount DEF contents
<1>6. CASE \E n \in Width : growing_insert(x, n)
  <2> PICK n \in Width : growing_insert(x, n)
    BY <1>6
  <2>1. CASE has_stored_size /\ n >= size
    <3> DEFINE wide == resized(b, size, n + 1, FALSE)
    <3>1. n \in Nat /\ n + 1 \in Nat /\ n < n + 1 /\ blocks_for(n + 1) \in Nat
          /\ n + 1 <= blocks_for(n + 1) * bits_per_block
      BY BlocksForBounds
    <3>2. wide \in Storage(blocks_for(n + 1))
      BY <1>0, <3>1, ResizedType
    <3>3. Positions(wide) = {p \in Positions(b) : p < n + 1}
      <4> DEFINE w == n + 1
      <4>1. w \in Nat
        BY <3>1
      <4> HIDE DEF w, size, b
      <4>2. size \in Nat /\ b \in Storage(blocks_for(size)) /\ TailClear(b, size)
        BY <1>0
      <4>3. Positions(resized(b, size, w, FALSE)) = {p \in Positions(b) : p < w}
        BY <4>1, <4>2, ResizedClearPositions
      <4> QED
        BY <4>3 DEF w
    <3>4. n \in Span(blocks_for(n + 1))
      <4> DEFINE extent == blocks_for(n + 1) * bits_per_block
      <4>1. extent \in Nat /\ n + 1 <= extent /\ n \in Nat
        BY <3>1, WholeWidth
      <4> HIDE DEF extent
      <4>2. n \in 0 .. extent - 1
        BY <4>1
      <4> QED
        BY <4>2 DEF Span, extent
    <3>5. n \notin Positions(wide)
      <4>1. \A p \in Positions(b) : p \in Nat /\ p < size
        BY <1>0, ClearBelow
      <4>2. n \notin Positions(b)
        BY <1>0, <2>1, <3>1, <4>1
      <4> HIDE DEF wide
      <4> QED
        BY <3>3, <4>2
    <3>6. Counted => count_after_resize(x, n + 1, FALSE) = count_blocks(wide)
      BY <3>1, CountAfterResize
    <3> HIDE DEF wide
    <3>7. count_blocks(bit_set(wide, n)) = count_blocks(wide) + 1
      <4>1. ~BitAt(wide, n)
        BY <3>1, <3>2, <3>4, <3>5, PositionWrittenPositions
      <4>2. one_if(~BitAt(wide, n)) = 1
        BY <4>1 DEF one_if
      <4> QED
        BY <3>1, <3>2, <3>4, <4>2, PositionWrittenCount
    <3>8. \/ UNCHANGED contents
          \/ store(x, n + 1, count_after_resize(x, n + 1, FALSE) + 1, bit_set(wide, n))
      BY <2>1 DEF growing_insert, refused, wide
    <3> QED
      BY <3>6, <3>7, <3>8, UnwrittenCount, StoreCount DEF contents
  <2>2. CASE ~(has_stored_size /\ n >= size)
    <3>1. /\ n < size /\ n \in Nat
          /\ write(x, m_count[x] + (IF ~BitAt(b, n) THEN 1 ELSE 0), bit_set(b, n))
      BY <2>2 DEF growing_insert
    <3>2. n \in Span(k)
      <4> DEFINE extent == k * bits_per_block
      <4>1. extent \in Nat /\ size <= extent
        BY <1>0, WholeWidth
      <4> HIDE DEF extent
      <4>2. n \in 0 .. extent - 1
        BY <1>0, <3>1, <4>1
      <4> QED
        BY <4>2 DEF Span, extent
    <3>3. count_blocks(bit_set(b, n)) = count_blocks(b) + one_if(~BitAt(b, n))
      BY <1>0, <3>2, PositionWrittenCount
    <3> QED
      BY <1>0, <3>1, <3>3, WriteCount DEF one_if
  <2> QED
    BY <2>1, <2>2
<1>7. CASE (\E n \in Width : reserve(x, n)) \/ shrink_to_fit(x)
  BY <1>7, UnwrittenCount DEF reserve, shrink_to_fit, refused, contents
<1> QED
  BY <1>1, <1>2, <1>3, <1>4, <1>5, <1>6, <1>7 DEF Grow

\* So does whole storage adopted, given up or rewritten.
LEMMA ExchangeCount ==
    ASSUME TypeOK, UnusedBitsClear, StoredCountExact, NEW x \in Obj, Exchange(x)
    PROVE  StoredCountExact'
<1>1. CASE \E k \in 0 .. MaxBlocks : \E b \in Storage(k) : replace(x, b)
  BY <1>1, StoreCount DEF replace
<1>2. CASE extract(x)
  <2>1. count_blocks(no_blocks) = 0
    <3>1. 0 \in Nat /\ no_blocks \in Storage(0) /\ \A i \in 0 .. 0 - 1 : no_blocks[i] = zero
      BY DEF no_blocks, Storage
    <3> QED
      BY <3>1, ZeroCount
  <2> QED
    BY <1>2, <2>1, StoreCount DEF extract
<1>3. CASE \E b \in Storage(num_blocks(m_blocks[x])) : write_blocks(x, b)
  BY <1>3, WriteCount DEF write_blocks
<1> QED
  BY <1>1, <1>2, <1>3 DEF Exchange

\* So does a write to one position, by the one it adds or removes.
LEMMA WritePositionCount ==
    ASSUME TypeOK, UnusedBitsClear, StoredCountExact, NEW x \in Obj, WritePosition(x)
    PROVE  StoredCountExact'
<1> DEFINE b == m_blocks[x]
           size == m_size[x]
           k == blocks_for(size)
<1>0. /\ size \in Nat /\ k \in Nat /\ b \in Storage(k)
      /\ size <= k * bits_per_block
      /\ Counted => m_count[x] = count_blocks(b)
  BY CountBefore
<1>1. ASSUME NEW n, is_valid(x, n)
      PROVE  /\ count_blocks(bit_set(b, n)) = count_blocks(b) + one_if(~Bit(x, n))
             /\ count_blocks(bit_reset(b, n)) = count_blocks(b) - one_if(Bit(x, n))
             /\ count_blocks(bit_flipped(b, n)) = count_blocks(b) + 1 - 2 * one_if(Bit(x, n))
  <2> DEFINE extent == k * bits_per_block
  <2>1. extent \in Nat /\ size <= extent
    BY <1>0, WholeWidth
  <2> HIDE DEF extent
  <2>2. n \in 0 .. extent - 1
    BY <1>0, <1>1, <2>1 DEF is_valid
  <2>3. n \in Span(k)
    BY <2>2 DEF Span, extent
  <2> QED
    BY <1>0, <2>3, PositionWrittenCount DEF Bit
<1>2. CASE \E n \in Width : set(x, n) \/ insert(x, n)
  BY <1>0, <1>1, <1>2, WriteCount DEF set, insert
<1>3. CASE \E n \in Width : reset(x, n) \/ erase(x, n)
  BY <1>0, <1>1, <1>3, WriteCount DEF reset, erase
<1>4. CASE \E n \in Width : flip(x, n)
  BY <1>0, <1>1, <1>4, WriteCount DEF flip
<1>5. CASE drop_front(x)
  BY <1>0, <1>5, DroppedCount, WriteCount DEF drop_front
<1>6. CASE drop_back(x)
  BY <1>0, <1>6, DroppedCount, WriteCount DEF drop_back
<1> QED
  BY <1>2, <1>3, <1>4, <1>5, <1>6 DEF WritePosition

\* So does a write to a range or to every position.
LEMMA WriteManyCount ==
    ASSUME TypeOK, UnusedBitsClear, StoredCountExact, NEW x \in Obj, WriteMany(x)
    PROVE  StoredCountExact'
<1> DEFINE b == m_blocks[x]
           size == m_size[x]
           k == blocks_for(size)
<1>0. /\ size \in Nat /\ k \in Nat /\ b \in Storage(k) /\ TailClear(b, size)
      /\ size <= k * bits_per_block
      /\ Counted => m_count[x] = count_blocks(b)
  BY CountBefore
<1>1. CASE \E n, len \in Width, value \in BOOLEAN : set_range(x, n, len, value)
  <2> PICK n \in Width, len \in Width, value \in BOOLEAN : set_range(x, n, len, value)
    BY <1>1
  <2>1. n \in Nat /\ len \in Nat /\ n + len <= size
    BY WidthType DEF set_range
  <2>2. n + len <= k * bits_per_block
    <3> DEFINE extent == k * bits_per_block
    <3>1. extent \in Nat /\ size <= extent
      BY <1>0, WholeWidth
    <3> HIDE DEF extent
    <3>2. n + len <= extent
      BY <1>0, <2>1, <3>1
    <3> QED
      BY <3>2 DEF extent
  <2>3. count_blocks(range_set(b, n, len, value)) =
            count_blocks(b) - count_in(b, n, len) + (IF value THEN len ELSE 0)
    BY <1>0, <2>1, <2>2, RangeSetCount
  <2> QED
    BY <1>0, <2>3, WriteCount DEF set_range, counted_in
<1>2. CASE set_all(x)
  BY <1>0, <1>2, WholeWrittenCount, WriteCount DEF set_all
<1>3. CASE reset_all(x)
  BY <1>0, <1>3, WholeWrittenCount, WriteCount DEF reset_all
<1>4. CASE flip_all(x)
  BY <1>0, <1>4, WholeWrittenCount, WriteCount DEF flip_all
<1>5. CASE \E n \in Width, value, mask \in Block : write_block_at(x, n, value, mask)
  BY <1>5, WriteCount DEF write_block_at
<1> QED
  BY <1>1, <1>2, <1>3, <1>4, <1>5 DEF WriteMany

\* So does a move of the positions: a shift counts what it drops.
LEMMA MoveCount ==
    ASSUME TypeOK, UnusedBitsClear, StoredCountExact, NEW x \in Obj, Move(x)
    PROVE  StoredCountExact'
<1> USE WidthType
<1> DEFINE b == m_blocks[x]
           size == m_size[x]
           k == blocks_for(size)
<1>0. /\ size \in Nat /\ b \in Storage(k) /\ TailClear(b, size)
      /\ Counted => m_count[x] = count_blocks(b)
  BY CountBefore
<1>1. CASE \E n \in Width : shift_up(x, n)
  <2> PICK n \in Width : shift_up(x, n)
    BY <1>1
  <2>1. count_blocks(erase_unused(shifted_up(b, n), size)) =
            count_blocks(b) - count_in(b, size - n, n)
    BY <1>0, ShiftedCount DEF shift_up, is_valid
  <2> QED
    BY <1>0, <2>1, WriteCount DEF shift_up, counted_in
<1>2. CASE \E n \in Width : shift_down(x, n)
  <2> PICK n \in Width : shift_down(x, n)
    BY <1>2
  <2>1. count_blocks(shifted_down(b, n)) = count_blocks(b) - count_in(b, 0, n)
    BY <1>0, ShiftedCount DEF shift_down, is_valid
  <2> QED
    BY <1>0, <2>1, WriteCount DEF shift_down, counted_in
<1>3. CASE \E n \in Width : rotate(x, n)
  BY <1>0, <1>3, PermutedCount, WriteCount DEF rotate
<1>4. CASE reverse(x)
  BY <1>0, <1>4, PermutedCount, WriteCount DEF reverse
<1> QED
  BY <1>1, <1>2, <1>3, <1>4 DEF Move

\* So does every call on two containers, the same one twice included.
LEMMA PairwiseCount ==
    ASSUME TypeOK, UnusedBitsClear, StoredCountExact, NEW x \in Obj, NEW y \in Obj, Pairwise(x, y)
    PROVE  StoredCountExact'
<1>0. /\ Counted => m_count[y] = count_blocks(m_blocks[y])
      /\ blocks_for(m_size[y]) \in Nat /\ m_blocks[y] \in Storage(blocks_for(m_size[y]))
  BY CountBefore
<1>1. CASE copy_assign(x, y)
  BY <1>0, <1>1, UnwrittenCount, StoreCount DEF copy_assign, refused, contents
<1>2. CASE move_assign(x, y)
  <2>1. CASE x = y \/ ~has_stored_size
    BY <1>0, <1>2, <2>1, StoreCount DEF move_assign
  <2>2. CASE ~(x = y \/ ~has_stored_size)
    <3>1. stored(count_blocks(no_blocks)) = 0
      <4>1. 0 \in Nat /\ no_blocks \in Storage(0) /\ \A i \in 0 .. 0 - 1 : no_blocks[i] = zero
        BY DEF no_blocks, Storage
      <4> QED
        BY <4>1, ZeroCount DEF stored
    <3>2. \A z \in Obj :
             /\ m_count'[z]  = IF z = y THEN 0 ELSE IF z = x THEN m_count[y] ELSE m_count[z]
             /\ m_blocks'[z] = IF z = y THEN no_blocks ELSE IF z = x THEN m_blocks[y] ELSE m_blocks[z]
      BY <1>2, <2>2 DEF move_assign, TypeOK
    <3> QED
      BY <3>1, <3>2 DEF StoredCountExact
  <2> QED
    BY <2>1, <2>2
<1>3. CASE swap(x, y)
  <2>1. \A z \in Obj : \E w \in Obj : m_count'[z] = m_count[w] /\ m_blocks'[z] = m_blocks[w]
    BY <1>3 DEF swap, TypeOK
  <2> QED
    BY <2>1 DEF StoredCountExact
<1>4. CASE grow_to_admit(x, y)
  <2> DEFINE n == find_back(m_blocks[y]) + 1
  <2>1. CASE UNCHANGED contents
    BY <2>1, UnwrittenCount DEF contents
  <2>2. CASE any(m_blocks[y]) /\ resize_to(x, n, FALSE)
    <3>1. n \in Nat
      BY <1>0, <2>2, FindBackType
    <3> HIDE DEF n
    <3> QED
      BY <2>2, <3>1, ResizeToCount
  <2> QED
    BY <1>4, <2>1, <2>2 DEF grow_to_admit, refused
<1>5. CASE and_assign(x, y) \/ minus_assign(x, y) \/ or_assign(x, y) \/ xor_assign(x, y)
  BY <1>5, WriteCount DEF and_assign, minus_assign, or_assign, xor_assign, combine
<1>6. CASE \E f \in Kernel : transform(x, y, f)
  BY <1>6, WriteCount DEF transform
<1> QED
  BY <1>1, <1>2, <1>3, <1>4, <1>5, <1>6 DEF Pairwise

\* A container is constructed with no bit set, and counts none.
LEMMA InitCount ==
    ASSUME Init
    PROVE  StoredCountExact
<1> SUFFICES ASSUME NEW x \in Obj PROVE m_count[x] = stored(count_blocks(m_blocks[x]))
  BY DEF StoredCountExact
<1>1. m_blocks[x] \in Storage(blocks_for(m_size[x])) /\ blocks_for(m_size[x]) \in Nat
  BY InitType, BlocksType
<1>2. \A i \in 0 .. blocks_for(m_size[x]) - 1 : m_blocks[x][i] = zero
  BY DEF Init
<1>3. count_blocks(m_blocks[x]) = 0
  BY <1>1, <1>2, ZeroCount
<1> QED
  BY <1>3 DEF Init, stored

\* The kept count is the number of bits set, whatever sequence of calls and of
\* refused allocations led here: every incremental update of m_count, through
\* growth and shrinking, range writes, shifts and permutations, is the change
\* of the number of positions the blocks hold.
THEOREM StoredCountStaysExact == Spec => []StoredCountExact
<1>1. Init => StoredCountExact
  BY InitCount
<1>2. TypeOK /\ UnusedBitsClear /\ StoredCountExact /\ [Next]_vars => StoredCountExact'
  <2> SUFFICES ASSUME TypeOK, UnusedBitsClear, StoredCountExact, [Next]_vars
               PROVE  StoredCountExact'
    OBVIOUS
  <2>1. CASE UNCHANGED vars
    BY <2>1, UnwrittenCount DEF vars
  <2>2. CASE \E x \in Obj : Grow(x) \/ Exchange(x) \/ WritePosition(x) \/ WriteMany(x) \/ Move(x)
    BY <2>2, GrowCount, ExchangeCount, WritePositionCount, WriteManyCount, MoveCount
  <2>3. CASE \E x, y \in Obj : Pairwise(x, y)
    BY <2>3, PairwiseCount
  <2> QED
    BY <2>1, <2>2, <2>3 DEF Next
<1> QED
  BY <1>1, <1>2, TypeCorrect, UnusedBitsStayClear, PTL DEF Spec

\* Comparing members is comparing bits: with the tail clear, blocks that agree
\* below the width agree everywhere, and then so do the counts of them.
THEOREM EqualityIsOfBits == Spec => []EqualIffSameBits
<1>1. TypeOK /\ UnusedBitsClear /\ StoredCountExact => EqualIffSameBits
  <2> SUFFICES ASSUME TypeOK, UnusedBitsClear, StoredCountExact, NEW x \in Obj, NEW y \in Obj,
                      m_size[x] = m_size[y], \A p \in 0 .. m_size[x] - 1 : Bit(x, p) = Bit(y, p)
               PROVE  m_count[x] = m_count[y] /\ m_blocks[x] = m_blocks[y]
    BY DEF EqualIffSameBits, Bit
  <2> DEFINE size == m_size[x]
             k == blocks_for(size)
             b == m_blocks[x]
             c == m_blocks[y]
             extent == k * bits_per_block
  <2>1. /\ size \in Nat /\ k \in Nat /\ b \in Storage(k) /\ c \in Storage(k)
        /\ TailClear(b, size) /\ TailClear(c, size) /\ extent \in Nat /\ size <= extent
    BY CountBefore, WholeWidth
  <2>2. Positions(b) \subseteq 0 .. size - 1 /\ Positions(c) \subseteq 0 .. size - 1
    BY <2>1, ClearBelow
  <2>3. ASSUME NEW p \in 0 .. size - 1 PROVE p \in Positions(b) <=> p \in Positions(c)
    <3> HIDE DEF extent
    <3>1. p \in 0 .. extent - 1
      BY <2>1
    <3>2. p \in Span(k)
      BY <3>1 DEF Span, extent
    <3>3. BitAt(b, p) = BitAt(c, p)
      BY DEF Bit
    <3>4. (BitAt(b, p) <=> p \in Positions(b)) /\ (BitAt(c, p) <=> p \in Positions(c))
      BY <2>1, <3>2, PositionWrittenPositions
    <3> QED
      BY <3>3, <3>4
  <2>4. Positions(b) = Positions(c)
    BY <2>2, <2>3
  <2>5. b = c
    BY <2>1, <2>4, SamePositions
  <2> QED
    BY <2>5 DEF StoredCountExact
<1> QED
  BY <1>1, TypeCorrect, UnusedBitsStayClear, StoredCountStaysExact, PTL

=============================================================================
