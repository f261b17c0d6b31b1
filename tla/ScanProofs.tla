----------------------------- MODULE ScanProofs -----------------------------
(***************************************************************************)
(* The queries of bit_block_container, proved for every container, block   *)
(* width and bound.  The general arm of a scan names the nearest set       *)
(* position, and the arms compiled for one block and for two are the       *)
(* general one.  The reductions over a range, windows at a time, are those *)
(* over its positions; and so are the searches of the block algorithms and *)
(* what those that rewrite in place leave.                                 *)
(***************************************************************************)
EXTENDS MCAlgorithms, BitBlockContainerProofs

(***************************************************************************)
(* Storages of few blocks.                                                 *)
(***************************************************************************)
\* Of one block, a position is its own offset.
LEMMA OneBlock ==
    ASSUME NEW b, NEW size, Scanned(b, size), num_blocks(b) = 1
    PROVE  /\ blocks_for(size) = 1 /\ DOMAIN b = {0} /\ b \in Storage(1) /\ b[0] \in Block
           /\ last_block(b) = 0 /\ num_bits(b) = bits_per_block
           /\ size <= bits_per_block
           /\ \A n \in Nat : n < size => index(n) = 0 /\ offset(n) = n /\ n \in Offset
<1>1. /\ size \in Nat /\ blocks_for(size) \in Nat /\ b \in Storage(blocks_for(size))
      /\ size <= blocks_for(size) * bits_per_block
  BY BlocksForBounds DEF Scanned
<1>2. blocks_for(size) = 1 /\ DOMAIN b = 0 .. 0 /\ last_block(b) = 0 /\ num_bits(b) = 1 * bits_per_block
  <2>1. blocks_for(size) = 1
    BY <1>1, NumBlocks
  <2>2. 1 \in Nat /\ b \in Storage(1) /\ 1 - 1 = 0
    BY <1>1, <2>1
  <2> QED
    BY <2>1, <2>2, NumBlocks
<1>3. b \in Storage(1) /\ b[0] \in Block /\ size <= bits_per_block /\ num_bits(b) = bits_per_block
  BY <1>1, <1>2, BitsPerBlockAssumption DEF Storage
<1>4. ASSUME NEW n \in Nat, n < size
      PROVE  index(n) = 0 /\ offset(n) = n /\ n \in Offset
  <2>1. n \in Offset /\ 0 * bits_per_block + n = n
    BY <1>1, <1>3, <1>4, BitsPerBlockAssumption DEF Offset
  <2> QED
    BY <2>1, IndexOffsetUnique
<1> QED
  BY <1>2, <1>3, <1>4

\* Of two, one in the first block is its own offset.
LEMMA TwoBlocks ==
    ASSUME NEW b, NEW size, Scanned(b, size), num_blocks(b) = 2
    PROVE  /\ blocks_for(size) = 2 /\ DOMAIN b = {0, 1} /\ b \in Storage(2)
           /\ b[0] \in Block /\ b[1] \in Block
           /\ last_block(b) = 1 /\ num_bits(b) = bits_per_block + bits_per_block
           /\ bits_per_block < size
           /\ \A n \in Nat : n < size =>
                 /\ index(n) \in {0, 1} /\ offset(n) \in Offset
                 /\ index(n) = 0 => offset(n) = n
<1>1. /\ size \in Nat /\ blocks_for(size) \in Nat /\ b \in Storage(blocks_for(size))
      /\ size <= blocks_for(size) * bits_per_block
      /\ blocks_for(size) * bits_per_block < size + bits_per_block
  BY BlocksForBounds DEF Scanned
<1>2. blocks_for(size) = 2 /\ DOMAIN b = 0 .. 1 /\ last_block(b) = 1 /\ num_bits(b) = 2 * bits_per_block
  <2>1. blocks_for(size) = 2
    BY <1>1, NumBlocks
  <2>2. 2 \in Nat /\ b \in Storage(2) /\ 2 - 1 = 1
    BY <1>1, <2>1
  <2> QED
    BY <2>1, <2>2, NumBlocks
<1>3. /\ b \in Storage(2) /\ b[0] \in Block /\ b[1] \in Block
      /\ bits_per_block < size /\ num_bits(b) = bits_per_block + bits_per_block
  BY <1>1, <1>2, BitsPerBlockAssumption DEF Storage
<1>4. ASSUME NEW n \in Nat, n < size
      PROVE  index(n) \in {0, 1} /\ offset(n) \in Offset /\ (index(n) = 0 => offset(n) = n)
  <2>1. /\ index(n) \in 0 .. blocks_for(size) - 1 /\ offset(n) \in Offset
        /\ n = At(index(n), offset(n))
    BY <1>1, <1>4, ScannedPositions
  <2>2. index(n) \in {0, 1}
    BY <1>2, <2>1
  <2>3. offset(n) \in Nat
    BY <2>1, BitsPerBlockAssumption DEF Offset
  <2>4. index(n) = 0 => At(index(n), offset(n)) = offset(n)
    BY <2>3, BitsPerBlockAssumption DEF At
  <2> QED
    BY <2>1, <2>2, <2>4
<1> QED
  BY <1>2, <1>3, <1>4

\* The least and the greatest of one number, and a loop of one round or none.
LEMMA FewSetBlocks ==
    ASSUME NEW b
    PROVE  /\ Min({1}) = 1 /\ Max({0}) = 0 /\ Min({0}) = 0 /\ Max({1}) = 1
           /\ set_blocks(b, 1, 0) = {} /\ set_blocks(b, 2, 1) = {} /\ set_blocks(b, 0, -1) = {}
           /\ set_blocks(b, 1, 1) = IF b[1] # zero THEN {1} ELSE {}
           /\ set_blocks(b, 0, 0) = IF b[0] # zero THEN {0} ELSE {}
<1>1. Min({1}) \in {1} /\ Min({0}) \in {0}
  BY MinExists
<1>2. Max({0}) \in {0} /\ Max({1}) \in {1}
  <2>1. {0} \in SUBSET (0 .. 1) /\ {1} \in SUBSET (0 .. 1) /\ {0} # {} /\ {1} # {} /\ 1 \in Nat
    OBVIOUS
  <2> QED
    BY <2>1, MaxExists
<1>3. 1 .. 0 = {} /\ 2 .. 1 = {} /\ 0 .. (-1) = {} /\ 1 .. 1 = {1} /\ 0 .. 0 = {0}
  OBVIOUS
<1> QED
  BY <1>1, <1>2, <1>3 DEF set_blocks

\* A shift by nothing.
LEMMA Unshifted ==
    ASSUME NEW w \in Block
    PROVE  shr(w, 0) = w /\ shl(w, 0) = w
<1>1. \A o \in Offset : o + 0 = o /\ o - 0 = o
  BY BitsPerBlockAssumption DEF Offset
<1> QED
  BY <1>1 DEF shr, shl, Block

\* The first block is the multiple of nothing; the second, of one.
LEMMA FewBases == base(0) = 0 /\ base(1) = bits_per_block
BY BitsPerBlockAssumption DEF base

(***************************************************************************)
(* The arms compiled for one block and for two.                            *)
(***************************************************************************)
\* The scans upwards of one block are the general ones.
LEMMA UpOfOne ==
    ASSUME NEW b, NEW size, Scanned(b, size), num_blocks(b) = 1
    PROVE  /\ \A n \in 0 .. size :
                 inclusive_find_next_1(b, size, n) = inclusive_find_next(b, size, n)
           /\ \A n \in 0 .. size - 1 :
                 exclusive_find_next_1(b, size, n) = exclusive_find_next(b, size, n)
           /\ num_bits(b) = size => find_first_1(b) = find_first(b, size)
<1>0. size \in Nat
  BY DEF Scanned
<1>1. set_blocks(b, 0 + 1, last_block(b)) = {}
  <2>1. last_block(b) = 0 /\ 0 + 1 = 1
    BY OneBlock
  <2> QED
    BY <2>1, FewSetBlocks
<1>2. ASSUME NEW n \in 0 .. size
      PROVE  inclusive_find_next_1(b, size, n) = inclusive_find_next(b, size, n)
  <2>1. CASE n = size
    BY <2>1 DEF inclusive_find_next_1, inclusive_find_next
  <2>2. CASE n # size
    <3>1. index(n) = 0 /\ offset(n) = n
      BY <1>0, <2>2, OneBlock
    <3> QED
      BY <1>1, <2>2, <3>1 DEF inclusive_find_next_1, inclusive_find_next
  <2> QED
    BY <2>1, <2>2
<1>3. ASSUME NEW n \in 0 .. size - 1
      PROVE  exclusive_find_next_1(b, size, n) = exclusive_find_next(b, size, n)
  <2>1. index(n) = 0 /\ base(0) = 0
    BY <1>0, OneBlock, FewBases
  <2>2. CASE above(b, n) = zero
    BY <1>1, <2>1, <2>2 DEF exclusive_find_next_1, exclusive_find_next, countr_zero
  <2>3. CASE above(b, n) # zero
    <3>1. above(b, n) \in Block
      BY DEF above, shl, Block
    <3>2. countr_zero(above(b, n)) \in Nat
      BY <2>3, <3>1, BlockExtremes, BitsPerBlockAssumption DEF Block, Offset
    <3>3. base(0) + countr_zero(above(b, n)) = countr_zero(above(b, n))
      BY <2>1, <3>2
    <3> QED
      BY <2>1, <2>3, <3>3 DEF exclusive_find_next_1, exclusive_find_next
  <2> QED
    BY <2>2, <2>3
<1>4. ASSUME num_bits(b) = size
      PROVE  find_first_1(b) = find_first(b, size)
  <2>1. size = bits_per_block /\ 0 # size /\ 0 \in 0 .. size /\ 0 < size
    BY <1>0, <1>4, OneBlock, BitsPerBlockAssumption
  <2>2. index(0) = 0 /\ offset(0) = 0 /\ b[0] \in Block
    BY <2>1, OneBlock
  <2>3. shr(b[0], 0) = b[0]
    BY <2>2, Unshifted
  <2>4. countr_zero(b[0]) \in Nat
    BY <2>2, BlockExtremes, BitsPerBlockAssumption DEF Block, Offset, countr_zero
  <2>5. 0 + countr_zero(b[0]) = countr_zero(b[0])
    BY <2>4
  <2>6. find_first(b, size) = IF b[0] # zero THEN countr_zero(b[0]) ELSE size
    BY <1>1, <2>1, <2>2, <2>3, <2>5 DEF find_first, inclusive_find_next
  <2> QED
    BY <2>1, <2>6 DEF find_first_1, countr_zero
<1> QED
  BY <1>2, <1>3, <1>4

\* So are those of two.
LEMMA UpOfTwo ==
    ASSUME NEW b, NEW size, Scanned(b, size), num_blocks(b) = 2
    PROVE  /\ \A n \in 0 .. size :
                 inclusive_find_next_2(b, size, n) = inclusive_find_next(b, size, n)
           /\ \A n \in 0 .. size - 1 :
                 exclusive_find_next_2(b, size, n) = exclusive_find_next(b, size, n)
           /\ num_bits(b) = size => find_first_2(b) = find_first(b, size)
<1>0. size \in Nat /\ last_block(b) = 1 /\ b[0] \in Block /\ b[1] \in Block
  BY TwoBlocks DEF Scanned
<1>1. /\ set_blocks(b, 0 + 1, last_block(b)) = IF b[1] # zero THEN {1} ELSE {}
      /\ set_blocks(b, 1 + 1, last_block(b)) = {}
      /\ Min({1}) = 1 /\ base(1) = bits_per_block /\ base(0) = 0
  <2>1. 0 + 1 = 1 /\ 1 + 1 = 2
    OBVIOUS
  <2> QED
    BY <1>0, <2>1, FewSetBlocks, FewBases
<1>2. countr_zero(b[1]) \in Nat /\ countr_zero(b[0]) \in Nat
  BY <1>0, BlockExtremes, BitsPerBlockAssumption DEF Block, Offset, countr_zero
<1>3. ASSUME NEW n \in 0 .. size
      PROVE  inclusive_find_next_2(b, size, n) = inclusive_find_next(b, size, n)
  <2>1. CASE n = size
    BY <2>1 DEF inclusive_find_next_2, inclusive_find_next
  <2>2. CASE n # size
    <3>1. index(n) \in {0, 1} /\ (index(n) = 0 => offset(n) = n)
      BY <1>0, <2>2, TwoBlocks
    <3>2. CASE index(n) = 1
      BY <1>1, <2>2, <3>2 DEF inclusive_find_next_2, inclusive_find_next
    <3>3. CASE index(n) = 0
      <4>1. n + bits_per_block - n = bits_per_block /\ 1 - (0 + 1) = 0
        BY <1>0, BitsPerBlockAssumption
      <4>2. bits_per_block + countr_zero(b[1]) + base(0) = bits_per_block + countr_zero(b[1])
        BY <1>1, <1>2, BitsPerBlockAssumption
      <4> QED
        BY <1>1, <2>2, <3>1, <3>3, <4>1, <4>2 DEF inclusive_find_next_2, inclusive_find_next
    <3> QED
      BY <3>1, <3>2, <3>3
  <2> QED
    BY <2>1, <2>2
<1>4. ASSUME NEW n \in 0 .. size - 1
      PROVE  exclusive_find_next_2(b, size, n) = exclusive_find_next(b, size, n)
  <2>1. index(n) \in {0, 1}
    BY <1>0, TwoBlocks
  <2> QED
    BY <1>1, <2>1 DEF exclusive_find_next_2, exclusive_find_next
<1>5. ASSUME num_bits(b) = size
      PROVE  find_first_2(b) = find_first(b, size)
  <2>1. size = bits_per_block + bits_per_block /\ 0 # size /\ 0 < size
    BY <1>0, <1>5, TwoBlocks, BitsPerBlockAssumption
  <2>2. 0 * bits_per_block + 0 = 0 /\ 0 \in Offset
    BY BitsPerBlockAssumption DEF Offset
  <2>3. index(0) = 0 /\ offset(0) = 0
    BY <2>2, IndexOffsetUnique
  <2>4. shr(b[0], 0) = b[0] /\ 0 + countr_zero(b[0]) = countr_zero(b[0])
    BY <1>0, <1>2, Unshifted
  <2>5. find_first(b, size) = inclusive_find_next_2(b, size, 0)
    BY <1>0, <1>3 DEF find_first
  <2>6. inclusive_find_next_2(b, size, 0) =
          IF b[0] # zero THEN countr_zero(b[0])
          ELSE IF b[1] # zero THEN bits_per_block + countr_zero(b[1]) ELSE size
    BY <2>1, <2>3, <2>4 DEF inclusive_find_next_2
  <2> QED
    BY <2>1, <2>5, <2>6 DEF find_first_2, countr_zero
<1> QED
  BY <1>3, <1>4, <1>5

\* The scan downwards of two blocks is the general one.
LEMMA DownOfTwo ==
    ASSUME NEW b, NEW size, Scanned(b, size), num_blocks(b) = 2, NEW n \in 0 .. size
    PROVE  total_find_prev_2(b, size, n) = total_find_prev(b, size, n)
<1>0. size \in Nat /\ n \in Nat
  BY DEF Scanned
<1>1. CASE n = 0
  BY <1>1 DEF total_find_prev, total_find_prev_2
<1>2. CASE n # 0
  <2>1. index(n - 1) \in {0, 1} /\ b[0] \in Block
    <3>1. n - 1 \in Nat /\ n - 1 < size
      BY <1>0, <1>2
    <3> QED
      BY <3>1, TwoBlocks
  <2>2. /\ set_blocks(b, 0, 0 - 1) = {} /\ set_blocks(b, 0, 1 - 1) = IF b[0] # zero THEN {0} ELSE {}
        /\ Max({0}) = 0 /\ base(0) = 0
    <3>1. 0 - 1 = -1 /\ 1 - 1 = 0
      OBVIOUS
    <3> QED
      BY <3>1, FewSetBlocks, FewBases
  <2>3. b[0] # zero => base(0) + left_bit - countl_zero(b[0]) = left_bit - countl_zero(b[0])
    <3>1. b \in Storage(2) /\ 0 \in 0 .. 2 - 1
      BY TwoBlocks
    <3>2. b[0] # zero => countl_zero(b[0]) \in Int
      BY <3>1, BlockEndsAt
    <3>3. left_bit \in Int
      BY BitsPerBlockAssumption DEF left_bit
    <3> QED
      BY <2>2, <3>2, <3>3
  <2>4. CASE index(n - 1) = 0
    BY <1>2, <2>2, <2>4 DEF total_find_prev, total_find_prev_2
  <2>5. CASE index(n - 1) = 1
    <3>1. CASE b[0] = zero
      BY <1>2, <2>2, <2>5, <3>1 DEF total_find_prev, total_find_prev_2
    <3>2. CASE b[0] # zero
      <4> DEFINE here == shl(b[index(n - 1)], left_bit - offset(n - 1))
      <4>1. set_blocks(b, 0, index(n - 1) - 1) = {0} /\ {0} # {} /\ Max({0}) = 0
        BY <2>2, <2>5, <3>2
      <4>2. total_find_prev(b, size, n) =
                IF here # zero THEN n - 1 - countl_zero(here) ELSE base(0) + left_bit - countl_zero(b[0])
        BY <1>2, <4>1 DEF total_find_prev
      <4>3. total_find_prev_2(b, size, n) =
                IF here # zero THEN n - 1 - countl_zero(here) ELSE left_bit - countl_zero(b[0])
        BY <1>2, <2>5, <3>2 DEF total_find_prev_2
      <4> QED
        BY <2>3, <3>2, <4>2, <4>3
    <3> QED
      BY <3>1, <3>2
  <2> QED
    BY <2>1, <2>4, <2>5
<1> QED
  BY <1>1, <1>2

\* Where there is a position to find, the scan that requires one names what
\* the scan that does not names, of one block or of two.
LEMMA DownOfFew ==
    ASSUME NEW b, NEW size, Scanned(b, size), NEW n \in 0 .. size,
           total_find_prev(b, size, n) # size
    PROVE  /\ num_blocks(b) = 1 => exclusive_find_prev_1(b, n) = total_find_prev(b, size, n)
           /\ num_blocks(b) = 2 => exclusive_find_prev_2(b, n) = total_find_prev(b, size, n)
<1>0. size \in Nat /\ n \in Nat
  BY DEF Scanned
<1>1. n # 0
  BY DEF total_find_prev
<1>2. n - 1 \in Nat /\ n - 1 < size
  BY <1>0, <1>1
<1>3. ASSUME num_blocks(b) = 1
      PROVE  exclusive_find_prev_1(b, n) = total_find_prev(b, size, n)
  <2>1. index(n - 1) = 0 /\ offset(n - 1) = n - 1
    BY <1>2, <1>3, OneBlock
  <2>2. set_blocks(b, 0, 0 - 1) = {}
    <3>1. 0 - 1 = -1
      OBVIOUS
    <3> QED
      BY <3>1, FewSetBlocks
  <2> QED
    BY <1>1, <2>1, <2>2 DEF total_find_prev, exclusive_find_prev_1
<1>4. ASSUME num_blocks(b) = 2
      PROVE  exclusive_find_prev_2(b, n) = total_find_prev(b, size, n)
  <2>1. total_find_prev(b, size, n) = total_find_prev_2(b, size, n)
    BY <1>4, DownOfTwo
  <2> QED
    BY <1>1, <2>1 DEF total_find_prev_2, exclusive_find_prev_2
<1> QED
  BY <1>3, <1>4

\* The ends of one block, and of two.
LEMMA EndsOfFew ==
    ASSUME NEW b, NEW size, Scanned(b, size), any(b)
    PROVE  /\ num_blocks(b) = 1 =>
                  find_front_1(b) = find_front(b) /\ find_back_1(b) = find_back(b)
           /\ num_blocks(b) = 2 =>
                  find_front_2(b) = find_front(b) /\ find_back_2(b) = find_back(b)
<1> DEFINE k == blocks_for(size)
<1>1. /\ k \in Nat /\ b \in Storage(k)
      /\ front_block(b) \in 0 .. k - 1 /\ b[front_block(b)] # zero
      /\ back_block(b) \in 0 .. k - 1 /\ b[back_block(b)] # zero
      /\ \A i \in 0 .. k - 1 : b[i] # zero => front_block(b) <= i /\ i <= back_block(b)
  BY BlockEnds, BlocksForBounds DEF Scanned
<1>2. \A i \in 0 .. k - 1 : b[i] # zero => countr_zero(b[i]) \in Nat /\ countl_zero(b[i]) \in Int
  BY <1>1, BlockEndsAt, BitsPerBlockAssumption DEF Offset
<1>3. left_bit = bits_per_block - 1 /\ bits_per_block \in Nat
  BY BitsPerBlockAssumption DEF left_bit
<1> HIDE DEF k
<1>4. ASSUME num_blocks(b) = 1
      PROVE  find_front_1(b) = find_front(b) /\ find_back_1(b) = find_back(b)
  <2>1. k = 1 /\ num_bits(b) = bits_per_block
    BY <1>4, OneBlock DEF k
  <2>2. front_block(b) = 0 /\ back_block(b) = 0 /\ b[0] # zero
    BY <1>1, <2>1
  <2>3. countr_zero(b[0]) \in Nat /\ countl_zero(b[0]) \in Int
    BY <1>2, <2>1, <2>2
  <2>4. bits_per_block * 0 + countr_zero(b[0]) = countr_zero(b[0])
    BY <1>3, <2>3
  <2>5. bits_per_block * 0 + left_bit - countl_zero(b[0]) = (bits_per_block - 1) - countl_zero(b[0])
    BY <1>3, <2>3
  <2> QED
    BY <2>1, <2>2, <2>4, <2>5 DEF find_front_1, find_front, find_back_1, find_back, last_bit
<1>5. ASSUME num_blocks(b) = 2
      PROVE  find_front_2(b) = find_front(b) /\ find_back_2(b) = find_back(b)
  <2>1. k = 2 /\ num_bits(b) = bits_per_block + bits_per_block
    BY <1>5, TwoBlocks DEF k
  <2>2. find_front_2(b) = find_front(b)
    <3>1. CASE b[0] # zero
      <4>1. front_block(b) = 0
        BY <1>1, <2>1, <3>1
      <4>2. bits_per_block * 0 + countr_zero(b[0]) = countr_zero(b[0])
        BY <1>2, <1>3, <2>1, <3>1
      <4> QED
        BY <3>1, <4>1, <4>2 DEF find_front_2, find_front
    <3>2. CASE b[0] = zero
      <4>1. front_block(b) = 1 /\ b[1] # zero
        BY <1>1, <2>1, <3>2
      <4>2. bits_per_block * 1 + countr_zero(b[1]) = countr_zero(b[1]) + bits_per_block
        BY <1>2, <1>3, <2>1, <4>1
      <4> QED
        BY <3>2, <4>1, <4>2 DEF find_front_2, find_front
    <3> QED
      BY <3>1, <3>2
  <2>3. find_back_2(b) = find_back(b)
    <3>1. CASE b[1] # zero
      <4>1. back_block(b) = 1
        BY <1>1, <2>1, <3>1
      <4>2. bits_per_block * 1 + left_bit - countl_zero(b[1])
                = (bits_per_block + bits_per_block - 1) - countl_zero(b[1])
        BY <1>2, <1>3, <2>1, <3>1
      <4>3. find_back(b) = bits_per_block * 1 + left_bit - countl_zero(b[1])
        BY <4>1 DEF find_back
      <4>4. find_back_2(b) = (bits_per_block + bits_per_block - 1) - countl_zero(b[1])
        <5>1. last_bit(b) = bits_per_block + bits_per_block - 1
          BY <1>3, <2>1 DEF last_bit
        <5> QED
          BY <3>1, <5>1 DEF find_back_2
      <4> QED
        BY <4>2, <4>3, <4>4
    <3>2. CASE b[1] = zero
      <4>1. back_block(b) = 0 /\ b[0] # zero
        BY <1>1, <2>1, <3>2
      <4>2. bits_per_block * 0 + left_bit - countl_zero(b[0]) = left_bit - countl_zero(b[0])
        BY <1>2, <1>3, <2>1, <4>1
      <4> QED
        BY <3>2, <4>1, <4>2 DEF find_back_2, find_back
    <3> QED
      BY <3>1, <3>2
  <2> QED
    BY <2>2, <2>3
<1> QED
  BY <1>4, <1>5

(***************************************************************************)
(* The scans against the positions.                                        *)
(***************************************************************************)
\* A container is storage to scan, and its ones are the positions set.
LEMMA OnesArePositions ==
    ASSUME TypeOK, UnusedBitsClear, NEW x \in Obj
    PROVE  /\ Scanned(m_blocks[x], m_size[x]) /\ m_size[x] \in Nat
           /\ Ones(x) = Positions(m_blocks[x])
           /\ Ones(x) \in SUBSET Nat /\ Ones(x) \in SUBSET (0 .. m_size[x])
<1> DEFINE b == m_blocks[x]
           size == m_size[x]
<1>1. Scanned(b, size) /\ size \in Nat
  BY BlocksType DEF Scanned, UnusedBitsClear
<1>2. \A p \in Positions(b) : p \in Nat /\ p < size
  BY <1>1, ScannedPositions
<1>3. Ones(x) = Positions(b)
  BY <1>1, BitsBelowWidth DEF Ones, Bit
<1> HIDE DEF b, size
<1>4. Positions(b) \in SUBSET Nat /\ Positions(b) \in SUBSET (0 .. size)
  BY <1>1, <1>2
<1> QED
  BY <1>1, <1>3, <1>4 DEF b, size

\* The first position from n on, as the general arm of either scan finds it.
LEMMA UpExact ==
    ASSUME TypeOK, UnusedBitsClear, NEW x \in Obj
    PROVE  LET b == m_blocks[x] size == m_size[x]
           IN  /\ \A n \in 0 .. size : inclusive_find_next(b, size, n) = LeastFrom(x, n)
               /\ \A n \in 0 .. size - 1 : exclusive_find_next(b, size, n) = LeastFrom(x, n + 1)
<1> DEFINE b == m_blocks[x]
           size == m_size[x]
           P == Ones(x)
<1>1. Scanned(b, size) /\ size \in Nat /\ P = Positions(b) /\ P \in SUBSET Nat
  BY OnesArePositions
<1>2. ASSUME NEW n \in 0 .. size
      PROVE  inclusive_find_next(b, size, n) = LeastFrom(x, n)
  <2> DEFINE T == {p \in P : p >= n}
             r == inclusive_find_next(b, size, n)
  <2>1. T = {p \in Positions(b) : n <= p}
    BY <1>1
  <2>2. IsFirst(T, r, size) /\ T \in SUBSET Nat
    BY <1>1, <2>1, InclusiveFindNext
  <2>3. r = IF T = {} THEN size ELSE Min(T)
    BY <2>2, FirstIsMin
  <2>4. T = {} <=> ~ \E p \in P : p >= n
    OBVIOUS
  <2> QED
    BY <2>3, <2>4 DEF LeastFrom
<1>3. ASSUME NEW n \in 0 .. size - 1
      PROVE  exclusive_find_next(b, size, n) = LeastFrom(x, n + 1)
  <2> DEFINE T == {p \in P : p >= n + 1}
             r == exclusive_find_next(b, size, n)
  <2>0. n \in Nat
    BY <1>1
  <2>1. T = {p \in Positions(b) : n < p}
    BY <1>1, <2>0
  <2>2. IsFirst(T, r, size) /\ T \in SUBSET Nat
    BY <1>1, <2>1, ExclusiveFindNext
  <2>3. r = IF T = {} THEN size ELSE Min(T)
    BY <2>2, FirstIsMin
  <2>4. T = {} <=> ~ \E p \in P : p >= n + 1
    OBVIOUS
  <2> QED
    BY <2>3, <2>4 DEF LeastFrom
<1> QED
  BY <1>2, <1>3

\* The last before n.
LEMMA DownExact ==
    ASSUME TypeOK, UnusedBitsClear, NEW x \in Obj, NEW n \in 0 .. m_size[x]
    PROVE  LET b == m_blocks[x] size == m_size[x]
           IN  /\ total_find_prev(b, size, n) = GreatestBelow(x, n)
               /\ (\E p \in Ones(x) : p < n) =>
                     /\ exclusive_find_prev(b, n) = GreatestBelow(x, n)
                     /\ total_find_prev(b, size, n) # size
<1> DEFINE b == m_blocks[x]
           size == m_size[x]
           P == Ones(x)
           T == {p \in P : p < n}
           r == total_find_prev(b, size, n)
           e == exclusive_find_prev(b, n)
<1>1. /\ Scanned(b, size) /\ size \in Nat /\ P = Positions(b)
      /\ P \in SUBSET Nat /\ P \in SUBSET (0 .. size)
  BY OnesArePositions
<1>2. IsLast(T, r, size) /\ T \in SUBSET (0 .. size)
  BY <1>1, TotalFindPrev
<1>3. T = {} <=> ~ \E p \in P : p < n
  OBVIOUS
<1>4. r = GreatestBelow(x, n)
  <2>1. r = IF T = {} THEN size ELSE Max(T)
    BY <1>1, <1>2, LastIsMax
  <2> QED
    BY <1>3, <2>1 DEF GreatestBelow
<1>5. ASSUME \E p \in P : p < n
      PROVE  e = GreatestBelow(x, n) /\ r # size
  <2>1. PICK q \in P : q < n
    BY <1>5
  <2>2. e \in P /\ e < n /\ \A p \in P : p < n => p <= e
    BY <1>1, <2>1, ExclusiveFindPrev
  <2>3. IsLast(T, e, size) /\ T # {}
    BY <2>1, <2>2 DEF IsLast
  <2>4. e = IF T = {} THEN size ELSE Max(T)
    BY <1>1, <1>2, <2>3, LastIsMax
  <2>5. r \in P /\ r < n
    BY <1>2, <2>3 DEF IsLast
  <2>6. r # size
    BY <1>1, <2>5
  <2> QED
    BY <1>3, <2>3, <2>4, <2>6 DEF GreatestBelow
<1> QED
  BY <1>4, <1>5

\* The upward half of the theorem: general arms first, and the others by them.
LEMMA ScansUp ==
    ASSUME TypeOK, UnusedBitsClear
    PROVE  ScansUpExact
<1> SUFFICES ASSUME NEW x \in Obj
             PROVE  LET b == m_blocks[x] size == m_size[x] IN
                    /\ find_first(b, size) = LeastFrom(x, 0)
                    /\ Blocks1(x) /\ Whole(x) => find_first_1(b) = LeastFrom(x, 0)
                    /\ Blocks2(x) /\ Whole(x) => find_first_2(b) = LeastFrom(x, 0)
                    /\ \A n \in 0 .. size :
                        /\ inclusive_find_next(b, size, n) = LeastFrom(x, n)
                        /\ Blocks1(x) => inclusive_find_next_1(b, size, n) = LeastFrom(x, n)
                        /\ Blocks2(x) => inclusive_find_next_2(b, size, n) = LeastFrom(x, n)
                    /\ \A n \in 0 .. size - 1 :
                        /\ exclusive_find_next(b, size, n) = LeastFrom(x, n + 1)
                        /\ Blocks1(x) => exclusive_find_next_1(b, size, n) = LeastFrom(x, n + 1)
                        /\ Blocks2(x) => exclusive_find_next_2(b, size, n) = LeastFrom(x, n + 1)
  BY DEF ScansUpExact
<1> DEFINE b == m_blocks[x]
           size == m_size[x]
<1>1. Scanned(b, size) /\ size \in Nat /\ 0 \in 0 .. size
  BY OnesArePositions
<1>2. /\ \A n \in 0 .. size : inclusive_find_next(b, size, n) = LeastFrom(x, n)
      /\ \A n \in 0 .. size - 1 : exclusive_find_next(b, size, n) = LeastFrom(x, n + 1)
  BY UpExact
<1>3. find_first(b, size) = LeastFrom(x, 0)
  BY <1>1, <1>2 DEF find_first
<1>4. ASSUME Blocks1(x)
      PROVE  /\ Whole(x) => find_first_1(b) = LeastFrom(x, 0)
             /\ \A n \in 0 .. size : inclusive_find_next_1(b, size, n) = LeastFrom(x, n)
             /\ \A n \in 0 .. size - 1 : exclusive_find_next_1(b, size, n) = LeastFrom(x, n + 1)
  BY <1>1, <1>2, <1>3, <1>4, UpOfOne DEF Blocks1, Whole
<1>5. ASSUME Blocks2(x)
      PROVE  /\ Whole(x) => find_first_2(b) = LeastFrom(x, 0)
             /\ \A n \in 0 .. size : inclusive_find_next_2(b, size, n) = LeastFrom(x, n)
             /\ \A n \in 0 .. size - 1 : exclusive_find_next_2(b, size, n) = LeastFrom(x, n + 1)
  BY <1>1, <1>2, <1>3, <1>5, UpOfTwo DEF Blocks2, Whole
<1> QED
  BY <1>2, <1>3, <1>4, <1>5

\* The two ends of a container that holds a position.
LEMMA EndsExact ==
    ASSUME TypeOK, UnusedBitsClear, NEW x \in Obj, Ones(x) # {}
    PROVE  LET b == m_blocks[x]
           IN  any(b) /\ find_front(b) = Min(Ones(x)) /\ find_back(b) = Max(Ones(x))
<1> DEFINE b == m_blocks[x]
           size == m_size[x]
           P == Ones(x)
           k == blocks_for(size)
<1>1. /\ Scanned(b, size) /\ size \in Nat /\ P = Positions(b)
      /\ P \in SUBSET Nat /\ P \in SUBSET (0 .. size)
  BY OnesArePositions
<1>2. k \in Nat /\ b \in Storage(k)
  BY <1>1, BlocksForBounds DEF Scanned
<1>3. any(b)
  BY <1>1, <1>2, AnyPosition
<1>4. /\ find_front(b) \in P /\ find_back(b) \in P
      /\ \A p \in P : find_front(b) <= p /\ p <= find_back(b)
  BY <1>1, <1>2, <1>3, EndPositions
<1>5. IsFirst(P, find_front(b), size) /\ IsLast(P, find_back(b), size)
  BY <1>4 DEF IsFirst, IsLast
<1> QED
  BY <1>1, <1>3, <1>5, FirstIsMin, LastIsMax

\* The downward half.
LEMMA ScansDown ==
    ASSUME TypeOK, UnusedBitsClear
    PROVE  ScansDownExact
<1> SUFFICES ASSUME NEW x \in Obj
             PROVE  LET b == m_blocks[x] size == m_size[x] IN
                    /\ \A n \in 0 .. size :
                        /\ total_find_prev(b, size, n) = GreatestBelow(x, n)
                        /\ Blocks2(x) => total_find_prev_2(b, size, n) = GreatestBelow(x, n)
                        /\ (\E p \in Ones(x) : p < n) =>
                            /\ exclusive_find_prev(b, n) = GreatestBelow(x, n)
                            /\ Blocks1(x) => exclusive_find_prev_1(b, n) = GreatestBelow(x, n)
                            /\ Blocks2(x) => exclusive_find_prev_2(b, n) = GreatestBelow(x, n)
                    /\ Ones(x) # {} =>
                        /\ find_front(b) = Min(Ones(x)) /\ find_back(b) = Max(Ones(x))
                        /\ Blocks1(x) => /\ find_front_1(b) = Min(Ones(x))
                                         /\ find_back_1(b) = Max(Ones(x))
                        /\ Blocks2(x) => /\ find_front_2(b) = Min(Ones(x))
                                         /\ find_back_2(b) = Max(Ones(x))
  BY DEF ScansDownExact
<1> DEFINE b == m_blocks[x]
           size == m_size[x]
<1>1. Scanned(b, size)
  BY OnesArePositions
<1>2. ASSUME NEW n \in 0 .. size
      PROVE  /\ total_find_prev(b, size, n) = GreatestBelow(x, n)
             /\ Blocks2(x) => total_find_prev_2(b, size, n) = GreatestBelow(x, n)
             /\ (\E p \in Ones(x) : p < n) =>
                 /\ exclusive_find_prev(b, n) = GreatestBelow(x, n)
                 /\ Blocks1(x) => exclusive_find_prev_1(b, n) = GreatestBelow(x, n)
                 /\ Blocks2(x) => exclusive_find_prev_2(b, n) = GreatestBelow(x, n)
  <2>1. /\ total_find_prev(b, size, n) = GreatestBelow(x, n)
        /\ (\E p \in Ones(x) : p < n) =>
              exclusive_find_prev(b, n) = GreatestBelow(x, n) /\ total_find_prev(b, size, n) # size
    BY DownExact
  <2> QED
    BY <1>1, <2>1, DownOfTwo, DownOfFew DEF Blocks1, Blocks2
<1>3. ASSUME Ones(x) # {}
      PROVE  /\ find_front(b) = Min(Ones(x)) /\ find_back(b) = Max(Ones(x))
             /\ Blocks1(x) => find_front_1(b) = Min(Ones(x)) /\ find_back_1(b) = Max(Ones(x))
             /\ Blocks2(x) => find_front_2(b) = Min(Ones(x)) /\ find_back_2(b) = Max(Ones(x))
  BY <1>1, <1>3, EndsExact, EndsOfFew DEF Blocks1, Blocks2
<1> QED
  BY <1>2, <1>3

\* In every state of a container, every scan, in either direction and in every
\* arm, finds the nearest set position: that is how the readings' iterators
\* and lookups move.
THEOREM ScansFindNearest == Spec => []ScansExact
<1>1. TypeOK /\ UnusedBitsClear => ScansExact
  BY ScansUp, ScansDown DEF ScansExact
<1> QED
  BY <1>1, TypeCorrect, UnusedBitsStayClear, PTL

(***************************************************************************)
(* The reductions over a range.                                            *)
(***************************************************************************)
\* The positions of a range that a window of it reads.
Windowed(S, n, len, pos) == {p \in S : pos <= p /\ p < pos + bits_per_block /\ p < n + len}

\* A window begins in the range, and its masked block holds its positions.
LEMMA WindowRead ==
    ASSUME NEW b, NEW size, Scanned(b, size), NEW n \in Nat, NEW len \in Nat, n + len <= size,
           NEW pos \in windows(n, len)
    PROVE  LET mask  == window_mask(n, len, pos)
               block == block_at(b, pos) \cap mask
           IN  /\ pos \in n .. n + len - 1
               /\ \A o \in Offset : o \in mask <=> pos + o < n + len
               /\ mask \subseteq Offset /\ block \subseteq Offset
               /\ \A o \in Offset : o \in block <=> pos + o \in Windowed(Positions(b), n, len, pos)
<1> DEFINE mask  == window_mask(n, len, pos)
           block == block_at(b, pos) \cap mask
           w == bits_per_block
           rest == n + len - pos
<1>1. pos \in Nat /\ n <= pos /\ pos < n + len /\ w \in Nat \ {0} /\ size \in Nat /\ rest \in Nat
  BY BitsPerBlockAssumption DEF windows, Scanned
<1>2. pos < size
  BY <1>1
<1>3. Min({w, rest}) \in {w, rest} /\ Min({w, rest}) <= w /\ Min({w, rest}) <= rest
  <2>1. {w, rest} \in SUBSET Nat /\ {w, rest} # {}
    BY <1>1
  <2> HIDE DEF rest, w
  <2> QED
    BY <2>1, MinExists
<1>4. \A o \in Offset : o \in mask <=> pos + o < n + len
  <2> SUFFICES ASSUME NEW o \in Offset PROVE o \in mask <=> pos + o < n + len
    OBVIOUS
  <2>1. o \in Nat /\ o < w
    BY <1>1 DEF Offset
  <2>2. o \in mask <=> o < Min({w, rest})
    BY DEF window_mask, partial_block_mask
  <2>3. o < Min({w, rest}) <=> o < rest
    BY <1>1, <1>3, <2>1
  <2> QED
    BY <1>1, <2>1, <2>2, <2>3
<1>5. mask \subseteq Offset
  BY DEF window_mask, partial_block_mask
<1>6. \A o \in Offset : o \in block_at(b, pos) <=> pos + o \in Positions(b)
  BY <1>1, <1>2, BlockRead
<1>7. ASSUME NEW o \in Offset
      PROVE  o \in block <=> pos + o \in Windowed(Positions(b), n, len, pos)
  <2>1. o \in Nat /\ o < w
    BY <1>1 DEF Offset
  <2>2. pos <= pos + o /\ pos + o < pos + w
    BY <1>1, <2>1
  <2> HIDE DEF mask
  <2> QED
    BY <1>4, <1>6, <2>2 DEF Windowed
<1> HIDE DEF mask
<1> QED
  BY <1>1, <1>4, <1>5, <1>7 DEF mask

\* As many positions as the masked block has bits.
LEMMA WindowCounted ==
    ASSUME NEW b, NEW size, Scanned(b, size), NEW n \in Nat, NEW len \in Nat, n + len <= size,
           NEW pos \in windows(n, len)
    PROVE  LET S == Windowed(Positions(b), n, len, pos)
           IN  /\ IsFiniteSet(S)
               /\ popcount(block_at(b, pos) \cap window_mask(n, len, pos)) = Cardinality(S)
<1> DEFINE S == Windowed(Positions(b), n, len, pos)
           block == block_at(b, pos) \cap window_mask(n, len, pos)
           w == bits_per_block
<1>1. /\ pos \in n .. n + len - 1 /\ block \subseteq Offset
      /\ \A o \in Offset : o \in block <=> pos + o \in S
  BY WindowRead
<1>2. \A p \in Positions(b) : p \in Nat
  BY ScannedPositions
<1>3. w \in Nat \ {0} /\ pos \in Nat
  BY <1>1, BitsPerBlockAssumption
<1>4. IsFiniteSet(block)
  <2>1. w - 1 \in Int
    BY <1>3
  <2>2. IsFiniteSet(Offset)
    BY <2>1, FS_Interval DEF Offset
  <2> HIDE DEF block
  <2> QED
    BY <1>1, <2>2, FS_Subset
<1>5. block \in SUBSET Int /\ S \in SUBSET Int
  <2>1. Offset \subseteq Int
    BY <1>3 DEF Offset
  <2>2. S \subseteq Positions(b)
    BY DEF Windowed
  <2> HIDE DEF block, S
  <2> QED
    BY <1>1, <1>2, <2>1, <2>2
<1>6. ASSUME NEW p \in Int PROVE p \in S <=> p - pos \in block
  <2>1. p \in S => p - pos \in Offset
    BY <1>3 DEF Windowed, Offset
  <2>2. pos + (p - pos) = p
    BY <1>3
  <2>3. p - pos \in block => p - pos \in Offset
    BY <1>1
  <2> HIDE DEF block, S
  <2> QED
    BY <1>1, <2>1, <2>2, <2>3
<1> HIDE DEF block, S
<1>7. IsFiniteSet(S) /\ Cardinality(S) = Cardinality(block)
  BY <1>3, <1>4, <1>5, <1>6, MovedSize
<1> QED
  BY <1>7 DEF block, S, popcount

\* Every position of a range is of a window, and of one alone.
LEMMA WindowsCover ==
    ASSUME NEW n \in Nat, NEW len \in Nat, NEW p \in n .. n + len - 1
    PROVE  /\ \E pos \in windows(n, len) : pos <= p /\ p < pos + bits_per_block
           /\ \A u, v \in windows(n, len) :
                 /\ u <= p /\ p < u + bits_per_block
                 /\ v <= p /\ p < v + bits_per_block
                 => u = v
<1> DEFINE w == bits_per_block
           d == p - n
           q == index(d)
           o == offset(d)
           bottom == q * w
           pos == n + bottom
<1>1. p \in Nat /\ n <= p /\ p < n + len /\ d \in Nat /\ w \in Nat \ {0}
  BY BitsPerBlockAssumption
<1>2. q \in Nat /\ o \in Offset /\ d = bottom + o
  BY <1>1, IndexOffset
<1>3. bottom \in Nat /\ o \in Nat /\ o < w
  BY <1>1, <1>2 DEF Offset
<1>4. (bottom + 0) % w = 0
  BY <1>1, <1>2, Remainder
<1>5. pos - n = bottom + 0
  BY <1>3
<1>6. pos \in windows(n, len) /\ pos <= p /\ p < pos + w
  <2> HIDE DEF bottom, q, o
  <2> QED
    BY <1>1, <1>2, <1>3, <1>4, <1>5 DEF windows
<1>7. ASSUME NEW u \in windows(n, len), u <= p, p < u + w
      PROVE  u = pos
  <2> DEFINE e == u - n
             r == index(e)
             a == r * w
             t == d - e
  <2>1. u \in Nat /\ n <= u /\ e \in Nat /\ e % w = 0
    BY <1>1 DEF windows
  <2>2. r \in Nat /\ e = a + offset(e) /\ offset(e) = 0
    BY <2>1, IndexOffset DEF offset
  <2>3. a \in Nat
    BY <1>1, <2>2
  <2>4. e = a
    BY <2>2, <2>3
  <2>5. t \in Nat /\ t < w /\ d = e + t
    BY <1>1, <1>7, <2>1
  <2>6. t \in Offset
    BY <1>1, <2>5 DEF Offset
  <2>7. index(a + t) = r
    BY <2>2, <2>6, IndexOffsetUnique
  <2>8. q = r
    BY <2>4, <2>5, <2>7
  <2>9. bottom = e
    BY <2>4, <2>8
  <2> HIDE DEF e, bottom
  <2> QED
    BY <1>1, <2>1, <2>9 DEF e
<1> HIDE DEF pos
<1> QED
  BY <1>6, <1>7

(***************************************************************************)
(* A sum over windows is a recursive function of their set: any function   *)
(* that satisfies its equation is it, since their set is finite.           *)
(***************************************************************************)
weight(b, n, len, pos) == popcount(block_at(b, pos) \cap window_mask(n, len, pos))

some(s) == CHOOSE pos \in s : TRUE

IsSum(b, n, len, f) ==
    f = [s \in SUBSET windows(n, len) |->
            IF s = {} THEN 0 ELSE weight(b, n, len, some(s)) + f[s \ {some(s)}]]

\* The sum is a function that satisfies the equation, once one does.
LEMMA CountUnfolds ==
    ASSUME NEW b, NEW n, NEW len, NEW g, IsSum(b, n, len, g)
    PROVE  \E h : IsSum(b, n, len, h) /\ count_range(b, n, len) = h[windows(n, len)]
<1> DEFINE chosen == CHOOSE h : IsSum(b, n, len, h)
<1>1. count_range(b, n, len) = chosen[windows(n, len)]
  BY DEF count_range, MapThenSumSet, MapThenFoldSet, IsSum, weight, some
<1>2. IsSum(b, n, len, chosen)
  BY Zenon
<1> HIDE DEF chosen
<1> QED
  BY <1>1, <1>2

\* Two functions that satisfy it agree, since windows are finitely many.
LEMMA SumsAgree ==
    ASSUME NEW b, NEW n, NEW len, IsFiniteSet(windows(n, len)),
           NEW g, IsSum(b, n, len, g), NEW h, IsSum(b, n, len, h)
    PROVE  \A s \in SUBSET windows(n, len) : g[s] = h[s]
<1> DEFINE W == windows(n, len)
           differ == {m \in Nat : \E s \in SUBSET W : Cardinality(s) = m /\ g[s] # h[s]}
<1>0. \A s \in SUBSET W :
         /\ g[s] = IF s = {} THEN 0 ELSE weight(b, n, len, some(s)) + g[s \ {some(s)}]
         /\ h[s] = IF s = {} THEN 0 ELSE weight(b, n, len, some(s)) + h[s \ {some(s)}]
  BY DEF IsSum
<1>1. ASSUME NEW s \in SUBSET W, g[s] # h[s]
      PROVE  \E u \in SUBSET W : g[u] # h[u] /\ Cardinality(u) < Cardinality(s)
  <2> DEFINE x == some(s)
             u == s \ {x}
  <2>1. s # {}
    <3>1. s = {} => g[s] = 0 /\ h[s] = 0
      BY <1>0
    <3> QED
      BY <1>1, <3>1
  <2>2. x \in s
    BY <2>1, Zenon DEF some
  <2>3. u \in SUBSET W
    OBVIOUS
  <2>4. g[s] = weight(b, n, len, x) + g[u] /\ h[s] = weight(b, n, len, x) + h[u]
    BY <1>0, <2>1
  <2>5. g[u] # h[u]
    BY <1>1, <2>4
  <2>6. IsFiniteSet(s)
    BY FS_Subset
  <2>7. Cardinality(u) = Cardinality(s) - 1 /\ Cardinality(s) \in Nat
    BY <2>2, <2>6, FS_RemoveElement, FS_CardinalityType
  <2> HIDE DEF u
  <2>8. Cardinality(u) < Cardinality(s)
    BY <2>7
  <2> QED
    BY <2>3, <2>5, <2>8
<1>2. ASSUME NEW s \in SUBSET W, g[s] # h[s]
      PROVE  FALSE
  <2>1. \A u \in SUBSET W : Cardinality(u) \in Nat
    BY FS_Subset, FS_CardinalityType
  <2>2. differ \in SUBSET Nat /\ differ # {}
    BY <1>2, <2>1
  <2>3. Min(differ) \in differ /\ \A m \in differ : Min(differ) <= m
    BY <2>2, MinExists
  <2>4. PICK u \in SUBSET W : Cardinality(u) = Min(differ) /\ g[u] # h[u]
    BY <2>3
  <2>5. PICK v \in SUBSET W : g[v] # h[v] /\ Cardinality(v) < Cardinality(u)
    BY <1>1, <2>4
  <2>6. Cardinality(v) \in differ
    BY <2>1, <2>5
  <2> HIDE DEF differ
  <2> QED
    BY <2>1, <2>3, <2>4, <2>5, <2>6
<1> QED
  BY <1>2

\* The positions that a set of windows reads.
WindowedBy(S, n, len, s) == {p \in S : \E pos \in s : p \in Windowed(S, n, len, pos)}

\* How many they are satisfies the equation: a window has none of another's.
LEMMA WindowTaken ==
    ASSUME NEW b, NEW size, Scanned(b, size), NEW n \in Nat, NEW len \in Nat, n + len <= size,
           NEW s \in SUBSET windows(n, len), NEW x \in s
    PROVE  Cardinality(WindowedBy(Positions(b), n, len, s)) =
               weight(b, n, len, x) + Cardinality(WindowedBy(Positions(b), n, len, s \ {x}))
<1> DEFINE P == Positions(b)
           A == Windowed(P, n, len, x)
           B == WindowedBy(P, n, len, s \ {x})
           C == WindowedBy(P, n, len, s)
<1>1. x \in windows(n, len)
  OBVIOUS
<1>2. IsFiniteSet(A) /\ weight(b, n, len, x) = Cardinality(A)
  BY <1>1, WindowCounted DEF weight
<1>3. IsFiniteSet(P)
  BY FinitePositions, ScannedPositions
<1>4. B \subseteq P
  BY DEF WindowedBy
<1>5. IsFiniteSet(B)
  <2> HIDE DEF B, P
  <2> QED
    BY <1>3, <1>4, FS_Subset
<1>6. C = A \cup B
  <2>1. \A p \in C : p \in A \/ p \in B
    BY DEF WindowedBy
  <2>2. \A p \in A : p \in C
    BY DEF WindowedBy, Windowed
  <2>3. \A p \in B : p \in C
    BY DEF WindowedBy
  <2> HIDE DEF A, B, C
  <2> QED
    BY <2>1, <2>2, <2>3
<1>7. A \cap B = {}
  <2> SUFFICES ASSUME NEW p \in A, p \in B PROVE FALSE
    OBVIOUS
  <2>1. PICK u \in s \ {x} : p \in Windowed(P, n, len, u)
    BY DEF WindowedBy
  <2>2. u \in windows(n, len) /\ u # x
    BY <2>1
  <2>3. /\ p \in P /\ x <= p /\ p < x + bits_per_block /\ p < n + len
        /\ u <= p /\ p < u + bits_per_block
    BY <2>1 DEF Windowed
  <2>4. p \in Nat /\ x \in n .. n + len - 1
    BY <1>1, <2>3, ScannedPositions DEF windows
  <2> HIDE DEF P
  <2>5. p \in n .. n + len - 1
    BY <2>3, <2>4
  <2> QED
    BY <1>1, <2>2, <2>3, <2>5, WindowsCover
<1> HIDE DEF A, B, C
<1>8. Cardinality(C) = Cardinality(A) + Cardinality(B)
  BY <1>2, <1>5, <1>6, <1>7, DisjointSize
<1> QED
  BY <1>2, <1>8 DEF B, C, P

\* The positions of a range.
InRange(S, n, len) == {p \in S : n <= p /\ p < n + len}

LEMMA AllWindows ==
    ASSUME NEW b, NEW size, Scanned(b, size), NEW n \in Nat, NEW len \in Nat
    PROVE  WindowedBy(Positions(b), n, len, windows(n, len)) = InRange(Positions(b), n, len)
<1> DEFINE P == Positions(b)
           W == windows(n, len)
<1>1. \A p \in P : p \in Nat
  BY ScannedPositions
<1>2. \A pos \in W : n <= pos
  BY DEF windows
<1> SUFFICES ASSUME NEW p \in P
             PROVE  p \in WindowedBy(P, n, len, W) <=> n <= p /\ p < n + len
  BY DEF WindowedBy, InRange
<1>3. ASSUME NEW pos \in W, p \in Windowed(P, n, len, pos)
      PROVE  n <= p /\ p < n + len
  <2>1. pos \in Nat /\ n <= pos /\ p \in Nat
    BY <1>1 DEF windows
  <2>2. pos <= p /\ p < n + len
    BY <1>3 DEF Windowed
  <2> QED
    BY <2>1, <2>2
<1>4. ASSUME n <= p, p < n + len
      PROVE  \E pos \in W : p \in Windowed(P, n, len, pos)
  <2>1. p \in n .. n + len - 1
    BY <1>1, <1>4
  <2>2. PICK pos \in W : pos <= p /\ p < pos + bits_per_block
    BY <2>1, WindowsCover
  <2> QED
    BY <1>4, <2>2 DEF Windowed
<1> HIDE DEF P, W
<1> QED
  BY <1>3, <1>4 DEF WindowedBy

\* count_range counts the positions of its range.
LEMMA RangeCounted ==
    ASSUME NEW b, NEW size, Scanned(b, size), NEW n \in Nat, NEW len \in Nat, n + len <= size
    PROVE  count_range(b, n, len) = Cardinality(InRange(Positions(b), n, len))
<1> DEFINE P == Positions(b)
           W == windows(n, len)
           held(s) == Cardinality(WindowedBy(P, n, len, s))
           g == [s \in SUBSET W |-> held(s)]
           sum(f, s) == IF s = {} THEN 0 ELSE weight(b, n, len, some(s)) + f[s \ {some(s)}]
<1>1. IsFiniteSet(W)
  <2>1. IsFiniteSet(n .. n + len - 1) /\ W \subseteq n .. n + len - 1
    BY FS_Interval DEF windows
  <2> HIDE DEF W
  <2> QED
    BY <2>1, FS_Subset
<1>2. ASSUME NEW s \in SUBSET W
      PROVE  held(s) = sum(g, s)
  <2>1. CASE s = {}
    <3>1. WindowedBy(P, n, len, s) = {}
      BY <2>1 DEF WindowedBy
    <3> QED
      BY <2>1, <3>1, FS_EmptySet
  <2>2. CASE s # {}
    <3>1. some(s) \in s
      BY <2>2, Zenon DEF some
    <3>2. held(s) = weight(b, n, len, some(s)) + held(s \ {some(s)})
      BY <3>1, WindowTaken
    <3>3. g[s \ {some(s)}] = held(s \ {some(s)})
      OBVIOUS
    <3> QED
      BY <2>2, <3>2, <3>3
  <2> QED
    BY <2>1, <2>2
<1>3. IsSum(b, n, len, g)
  <2>1. g = [s \in SUBSET W |-> sum(g, s)]
    <3> HIDE DEF held, sum, W
    <3> QED
      BY <1>2
  <2> HIDE DEF g
  <2> QED
    BY <2>1 DEF IsSum
<1> HIDE DEF g
<1>4. PICK h : IsSum(b, n, len, h) /\ count_range(b, n, len) = h[W]
  BY <1>3, CountUnfolds
<1>5. g[W] = h[W]
  BY <1>1, <1>3, <1>4, SumsAgree
<1>6. g[W] = held(W)
  BY DEF g
<1> QED
  BY <1>4, <1>5, <1>6, AllWindows

\* A window reads nothing, or all it may, when its positions do.
LEMMA WindowsAsked ==
    ASSUME NEW b, NEW size, Scanned(b, size), NEW n \in Nat, NEW len \in Nat, n + len <= size
    PROVE  /\ any_range(b, n, len) <=> InRange(Positions(b), n, len) # {}
           /\ all_range(b, n, len) <=> n .. n + len - 1 \subseteq Positions(b)
<1> DEFINE P == Positions(b)
           W == windows(n, len)
           mask(pos) == window_mask(n, len, pos)
           block(pos) == block_at(b, pos) \cap mask(pos)
           w == bits_per_block
<1>1. \A p \in P : p \in Nat
  BY ScannedPositions
<1>2. \A pos \in W :
         /\ pos \in Nat /\ n <= pos
         /\ \A o \in Offset : o \in mask(pos) <=> pos + o < n + len
         /\ mask(pos) \subseteq Offset /\ block(pos) \subseteq Offset
         /\ \A o \in Offset : o \in block(pos) <=> pos + o \in Windowed(P, n, len, pos)
  BY WindowRead DEF windows
<1>3. \A pos, o : pos + o \in Windowed(P, n, len, pos) => pos + o \in P /\ pos + o < n + len
  BY DEF Windowed
<1>4. ASSUME NEW p \in n .. n + len - 1
      PROVE  \E pos \in W, o \in Offset :
                p = pos + o /\ o \in mask(pos) /\ (p \in P <=> o \in block(pos))
  <2>1. PICK pos \in W : pos <= p /\ p < pos + w
    BY WindowsCover
  <2>2. pos \in Nat /\ p \in Nat /\ w \in Nat
    BY <1>2, BitsPerBlockAssumption
  <2>3. p - pos \in Offset /\ p = pos + (p - pos) /\ p < n + len
    BY <2>1, <2>2 DEF Offset
  <2>4. p \in Windowed(P, n, len, pos) <=> p \in P
    BY <2>1, <2>3 DEF Windowed
  <2> HIDE DEF P, W, mask, block
  <2> QED
    BY <1>2, <2>3, <2>4
<1>5. \A o \in Offset : o \in Nat
  BY BitsPerBlockAssumption DEF Offset
<1> HIDE DEF P, W, mask, block
<1>6. any_range(b, n, len) <=> \E pos \in W : block(pos) # {}
  BY DEF any_range, W, block, mask, zero
<1>7. all_range(b, n, len) <=> \A pos \in W : block(pos) = mask(pos)
  BY DEF all_range, W, block, mask
<1>8. ASSUME NEW pos \in W, block(pos) # {}
      PROVE  InRange(P, n, len) # {}
  <2>1. PICK o \in Offset : o \in block(pos)
    BY <1>2, <1>8
  <2>2. pos + o \in P /\ pos + o < n + len
    BY <1>2, <1>3, <2>1
  <2>3. n <= pos + o
    BY <1>2, <1>5
  <2> QED
    BY <2>2, <2>3 DEF InRange
<1>9. ASSUME InRange(P, n, len) # {}
      PROVE  \E pos \in W : block(pos) # {}
  <2>1. PICK p \in P : n <= p /\ p < n + len
    BY <1>9 DEF InRange
  <2>2. p \in n .. n + len - 1
    BY <1>1, <2>1
  <2> QED
    BY <1>4, <2>1, <2>2
<1>10. ASSUME \A pos \in W : block(pos) = mask(pos), NEW p \in n .. n + len - 1
       PROVE  p \in P
  BY <1>4, <1>10
<1>11. ASSUME n .. n + len - 1 \subseteq P, NEW pos \in W
       PROVE  block(pos) = mask(pos)
  <2>1. ASSUME NEW o \in Offset
        PROVE  o \in block(pos) <=> o \in mask(pos)
    <3>1. pos + o \in P /\ pos + o < n + len /\ pos <= pos + o /\ pos + o < pos + w
          <=> pos + o < n + len
      <4>1. pos \in Nat /\ o \in Nat /\ n <= pos /\ o < w
        BY <1>2, <1>5, BitsPerBlockAssumption DEF Offset
      <4>2. w \in Nat
        BY BitsPerBlockAssumption
      <4> HIDE DEF w
      <4>3. pos <= pos + o /\ pos + o < pos + w /\ n <= pos + o /\ pos + o \in Nat
        BY <4>1, <4>2
      <4>4. pos + o < n + len => pos + o \in n .. n + len - 1
        BY <4>3
      <4> QED
        BY <1>11, <4>3, <4>4
    <3>2. pos + o \in Windowed(P, n, len, pos) <=> pos + o < n + len
      BY <3>1 DEF Windowed
    <3> QED
      BY <1>2, <3>2
  <2>2. \A o \in block(pos) : o \in Offset
    BY <1>2
  <2>3. \A o \in mask(pos) : o \in Offset
    BY <1>2
  <2> QED
    BY <2>1, <2>2, <2>3
<1> QED
  BY <1>6, <1>7, <1>8, <1>9, <1>10, <1>11 DEF P

\* A range is all set when as many of its positions are as it is long.
LEMMA AllIsLength ==
    ASSUME NEW b, NEW size, Scanned(b, size), NEW n \in Nat, NEW len \in Nat
    PROVE  n .. n + len - 1 \subseteq Positions(b)
               <=> Cardinality(InRange(Positions(b), n, len)) = len
<1> DEFINE P == Positions(b)
           R == n .. n + len - 1
           S == InRange(P, n, len)
<1>1. \A p \in P : p \in Nat
  BY ScannedPositions
<1>2. IsFiniteSet(R) /\ Cardinality(R) = len
  <2>1. n + len - 1 \in Int /\ n + (len - 1) = n + len - 1
    OBVIOUS
  <2>2. IsFiniteSet(R) /\ Cardinality(R) = IF n > n + len - 1 THEN 0 ELSE (n + len - 1) - n + 1
    BY <2>1, FS_Interval
  <2> HIDE DEF R
  <2> QED
    BY <2>2
<1>3. \A p \in S : p \in P /\ p \in R
  BY <1>1 DEF InRange
<1>4. \A p \in R : p \in P => p \in S
  BY <1>1 DEF InRange
<1> HIDE DEF P, R, S
<1>5. S \in SUBSET R
  BY <1>3
<1>6. Cardinality(R) = Cardinality(S) => R = S
  BY <1>2, <1>5, FS_Subset
<1>7. R \subseteq P => R = S
  BY <1>4, <1>5
<1>8. R = S => R \subseteq P
  BY <1>3
<1> QED
  BY <1>2, <1>6, <1>7, <1>8 DEF P, R, S

\* Every bit is set where the blocks but the last are ones and the last is
\* all it uses; and-ing the blocks, with the padding filled, asks the same.
LEMMA EveryBlock ==
    ASSUME NEW b, NEW size, Scanned(b, size)
    PROVE  /\ all(b, size) <=> 0 .. size - 1 \subseteq Positions(b)
           /\ all_folded(b, size) <=> 0 .. size - 1 \subseteq Positions(b)
<1> DEFINE k == blocks_for(size)
           l == k - 1
           used == used_bits(b, size)
           P == Positions(b)
<1>1. /\ size \in Nat /\ k \in Nat /\ b \in Storage(k) /\ last_block(b) = l
      /\ DOMAIN b = 0 .. k - 1 /\ num_blocks(b) = k /\ num_bits(b) = k * bits_per_block
      /\ \A i \in 0 .. k - 1 : b[i] \subseteq Offset
  <2>1. size \in Nat /\ k \in Nat /\ b \in Storage(k) /\ last_block(b) = l
    BY ScannedPositions
  <2>2. DOMAIN b = 0 .. k - 1 /\ num_blocks(b) = k /\ num_bits(b) = k * bits_per_block
    BY <2>1, NumBlocks
  <2>3. \A i \in 0 .. k - 1 : b[i] \subseteq Offset
    BY <2>1 DEF Storage, Block
  <2> QED
    BY <2>1, <2>2, <2>3
<1>2. \A i \in 0 .. k - 1, o \in Offset : At(i, o) \in P <=> o \in b[i]
  BY <1>1, PositionIff
<1>3. ASSUME NEW p \in 0 .. size - 1
      PROVE  \E i \in 0 .. k - 1, o \in Offset : p = At(i, o)
  BY <1>3, ScannedPositions
<1>4. used \subseteq Offset
  BY DEF used_bits, shr
<1>5. k # 0 => \A o \in Offset : o \in used <=> At(l, o) < size
  <2> SUFFICES ASSUME k # 0, NEW o \in Offset PROVE o \in used <=> At(l, o) < size
    OBVIOUS
  <2> DEFINE total == k * bits_per_block
             bottom == l * bits_per_block
             w == bits_per_block
  <2>1. total \in Nat /\ size <= total /\ total < size + w /\ total = bottom + w /\ w \in Nat
    BY <1>1, LastBlockBounds, WholeWidth, BitsPerBlockAssumption
  <2>2. bottom \in Nat
    BY <1>1, WholeWidth
  <2>3. o \in used <=> o + (total - size) \in Offset
    BY <1>1 DEF used_bits, shr, ones
  <2>4. At(l, o) = bottom + o
    BY DEF At
  <2>5. o \in Nat /\ (o + (total - size) \in Offset <=> o + (total - size) < w)
    <3> HIDE DEF total
    <3> QED
      BY <1>1, <2>1 DEF Offset
  <2> HIDE DEF total, bottom, l, w, used
  <2> QED
    BY <1>1, <2>1, <2>2, <2>3, <2>4, <2>5
<1>6. \A i \in 0 .. k - 2, o \in Offset : At(i, o) < size /\ At(i, o) \in Nat
  <2>1. \A i \in 0 .. k - 2, o \in Offset : i * bits_per_block + o < size
    BY <1>1, LastBlockBounds
  <2>2. \A i \in 0 .. k - 2 : i \in Nat
    OBVIOUS
  <2> HIDE DEF k
  <2>3. \A i \in 0 .. k - 2, o \in Offset : At(i, o) \in Nat
    BY <2>2, AtUnique
  <2> QED
    BY <2>1, <2>3 DEF At
<1>7. k # 0 => \A o \in b[l] : o \in used
  <2>1. k # 0 => \A o \in b[l] : At(l, o) < size
    BY <1>1 DEF Scanned, TailClear, At
  <2> QED
    BY <1>1, <1>5, <2>1
<1>8. k # 0 => \A o \in Offset : At(l, o) \in Nat
  <2>1. k # 0 => l \in Nat
    BY <1>1
  <2> HIDE DEF l
  <2> QED
    BY <2>1, AtUnique
<1> DEFINE full == /\ \A i \in 0 .. k - 2 : \A o \in Offset : o \in b[i]
                   /\ k # 0 => \A o \in used : o \in b[l]
<1> HIDE DEF k, used, P
<1>9. all(b, size) <=> full
  <2>1. all_but_last_are_ones(b) <=> \A i \in 0 .. k - 2 : \A o \in Offset : o \in b[i]
    <3>1. \A i \in 0 .. k - 2 : b[i] = Offset <=> \A o \in Offset : o \in b[i]
      <4>1. \A i \in 0 .. k - 2 : i \in 0 .. k - 1
        BY <1>1
      <4> QED
        BY <1>1, <4>1
    <3> QED
      BY <1>1, <3>1 DEF all_but_last_are_ones, ones
  <2>2. k # 0 => (b[l] = used <=> \A o \in used : o \in b[l])
    BY <1>7
  <2>3. k = 0 => full
    BY <1>1
  <2>4. all(b, size) <=> k = 0 \/ (all_but_last_are_ones(b) /\ b[l] = used)
    BY <1>1 DEF all, used
  <2> QED
    BY <2>1, <2>2, <2>3, <2>4
<1>10. all_folded(b, size) <=> full
  <2>1. all_folded(b, size) <=>
           \A o \in Offset : \A i \in 0 .. k - 1 :
              o \in b[i] \/ (i = l /\ o \notin used)
    BY <1>1 DEF all_folded, ones, complement, zero, used
  <2>2. ASSUME full, NEW o \in Offset, NEW i \in 0 .. k - 1
        PROVE  o \in b[i] \/ (i = l /\ o \notin used)
    BY <1>1, <2>2
  <2>3. ASSUME \A o \in Offset : \A i \in 0 .. k - 1 : o \in b[i] \/ (i = l /\ o \notin used)
        PROVE  full
    BY <1>1, <1>4, <2>3
  <2> QED
    BY <2>1, <2>2, <2>3
<1>11. ASSUME full, NEW p \in 0 .. size - 1
       PROVE  p \in P
  <2>1. PICK i \in 0 .. k - 1, o \in Offset : p = At(i, o)
    BY <1>3
  <2>2. i = l => o \in used
    BY <1>1, <1>5, <2>1
  <2>3. i # l => i \in 0 .. k - 2
    BY <1>1
  <2>4. o \in b[i]
    BY <1>1, <1>11, <2>2, <2>3
  <2> QED
    BY <1>2, <2>1, <2>4
<1>12. ASSUME 0 .. size - 1 \subseteq P
       PROVE  full
  <2>1. ASSUME NEW i \in 0 .. k - 2, NEW o \in Offset
        PROVE  o \in b[i]
    <3>1. At(i, o) \in 0 .. size - 1 /\ i \in 0 .. k - 1
      BY <1>1, <1>6
    <3> QED
      BY <1>2, <1>12, <3>1
  <2>2. ASSUME k # 0, NEW o \in used
        PROVE  o \in b[l]
    <3>1. o \in Offset /\ l \in 0 .. k - 1
      BY <1>1, <1>4, <2>2
    <3>2. At(l, o) \in 0 .. size - 1
      BY <1>1, <1>5, <1>8, <2>2, <3>1
    <3> QED
      BY <1>2, <1>12, <3>1, <3>2
  <2> QED
    BY <2>1, <2>2
<1> QED
  BY <1>9, <1>10, <1>11, <1>12 DEF P

\* The reductions, of the blocks of a container.
LEMMA ReductionsAre ==
    ASSUME TypeOK, UnusedBitsClear
    PROVE  ReductionsExact
<1> SUFFICES ASSUME NEW x \in Obj
             PROVE  LET b == m_blocks[x] size == m_size[x] IN
                    /\ \A n \in 0 .. size : \A len \in 0 .. size - n :
                        LET range == {p \in Ones(x) : n <= p /\ p < n + len} IN
                        /\ count_range(b, n, len) = Cardinality(range)
                        /\ any_range(b, n, len) <=> range # {}
                        /\ all_range(b, n, len) <=> Cardinality(range) = len
                    /\ all(b, size) <=> Cardinality(Ones(x)) = size
                    /\ all_folded(b, size) <=> Cardinality(Ones(x)) = size
                    /\ none(b) <=> Ones(x) = {}
                    /\ \A n \in 0 .. size - 1 : test(b, n) <=> n \in Ones(x)
  BY DEF ReductionsExact
<1> DEFINE b == m_blocks[x]
           size == m_size[x]
<1>1. Scanned(b, size) /\ size \in Nat /\ Ones(x) = Positions(b)
  BY OnesArePositions
<1> HIDE DEF b, size
<1>2. ASSUME NEW n \in 0 .. size, NEW len \in 0 .. size - n
      PROVE  /\ count_range(b, n, len) = Cardinality(InRange(Ones(x), n, len))
             /\ any_range(b, n, len) <=> InRange(Ones(x), n, len) # {}
             /\ all_range(b, n, len) <=> Cardinality(InRange(Ones(x), n, len)) = len
  <2>1. n \in Nat /\ len \in Nat /\ n + len <= size
    BY <1>1
  <2> QED
    BY <1>1, <2>1, RangeCounted, WindowsAsked, AllIsLength
<1>3. 0 .. size - 1 \subseteq Positions(b) <=> Cardinality(Ones(x)) = size
  <2>1. \A p \in Positions(b) : p \in Nat /\ p < size
    BY <1>1, ScannedPositions
  <2>2. InRange(Positions(b), 0, size) = Positions(b)
    BY <1>1, <2>1 DEF InRange
  <2>3. 0 .. 0 + size - 1 = 0 .. size - 1
    BY <1>1
  <2> QED
    BY <1>1, <2>2, <2>3, AllIsLength
<1>4. none(b) <=> Ones(x) = {}
  <2>1. any(b) <=> Positions(b) # {}
    BY <1>1, AnyPosition, ScannedPositions
  <2> QED
    BY <1>1, <2>1 DEF none, any
<1>5. \A n \in 0 .. size - 1 : test(b, n) <=> n \in Ones(x)
  BY <1>1, TestIsMember
<1>6. /\ all(b, size) <=> Cardinality(Ones(x)) = size
      /\ all_folded(b, size) <=> Cardinality(Ones(x)) = size
  BY <1>1, <1>3, EveryBlock
<1> QED
  BY <1>2, <1>4, <1>5, <1>6 DEF b, size, InRange

\* For every width and block, counting, asking any and asking all over a range
\* answer what its positions say, by windows that straddle blocks and a last
\* one cut short, and the whole reductions, folded or not, what all of them
\* say.
THEOREM RangesAreCounted == Spec => []ReductionsExact
<1>1. TypeOK /\ UnusedBitsClear => ReductionsExact
  BY ReductionsAre
<1> QED
  BY <1>1, TypeCorrect, UnusedBitsStayClear, PTL

(***************************************************************************)
(* The searches of the block algorithms, over any window.                  *)
(***************************************************************************)
\* The distances from first at which a window of S answers value.
Answering(S, first, n, value) == {k \in 0 .. n - 1 : (first + k \in S) <=> value}

\* The bools of a container's window are whether its positions are set.
LEMMA WhereAnswers ==
    ASSUME TypeOK, UnusedBitsClear, NEW x \in Obj, NEW first \in Nat, NEW n \in Nat,
           first + n <= m_size[x], NEW value \in BOOLEAN
    PROVE  Where(x, first, n, value) = Answering(Positions(m_blocks[x]), first, n, value)
<1> DEFINE b == m_blocks[x]
<1>1. Scanned(b, m_size[x]) /\ m_size[x] \in Nat
  BY OnesArePositions
<1>2. \A p \in 0 .. m_size[x] - 1 : BitAt(b, p) <=> p \in Positions(b)
  BY <1>1, BitsBelowWidth
<1>3. \A k \in 0 .. n - 1 : BitAt(b, first + k) <=> first + k \in Positions(b)
  BY <1>1, <1>2
<1>4. \A k : BitAt(b, first + k) \in BOOLEAN
  BY DEF BitAt
<1> QED
  BY <1>3, <1>4 DEF Where, Answering, Bit

\* A step starts in the window, and no two are less than a block apart; every
\* distance is of one of them.
LEMMA StepsApart ==
    ASSUME NEW n \in Nat
    PROVE  /\ steps(n) = windows(0, n) /\ steps(n) \subseteq 0 .. n - 1
           /\ \A k, l \in steps(n) : k < l => k + bits_per_block <= l
           /\ \A p \in 0 .. n - 1 : \E k \in steps(n), o \in Offset : p = k + o
<1>1. steps(n) = windows(0, n)
  BY DEF steps, windows
<1>2. steps(n) \subseteq 0 .. n - 1
  BY DEF steps
<1>3. ASSUME NEW k \in steps(n), NEW l \in steps(n), k < l
      PROVE  k + bits_per_block <= l
  <2>1. k \in Nat /\ l \in Nat /\ l \in 0 .. 0 + n - 1 /\ bits_per_block \in Nat \ {0}
    BY <1>2, BitsPerBlockAssumption
  <2>2. ~(l < k + bits_per_block)
    BY <1>1, <1>3, <2>1, WindowsCover
  <2> QED
    BY <2>1, <2>2
<1>4. ASSUME NEW p \in 0 .. n - 1
      PROVE  \E k \in steps(n), o \in Offset : p = k + o
  <2>1. p \in 0 .. 0 + n - 1 /\ p \in Nat
    OBVIOUS
  <2>2. PICK k \in windows(0, n) : k <= p /\ p < k + bits_per_block
    BY <2>1, WindowsCover
  <2>3. k \in Nat /\ bits_per_block \in Nat
    BY <1>1, <1>2, BitsPerBlockAssumption
  <2>4. p - k \in Offset /\ p = k + (p - k)
    BY <2>1, <2>2, <2>3 DEF Offset
  <2> QED
    BY <1>1, <2>4
<1> QED
  BY <1>1, <1>2, <1>3, <1>4

\* A step's block, with a search for false turned into one for true and cut
\* off at the end of the window, is the distances that answer value.
LEMMA StepMatches ==
    ASSUME NEW b, NEW size, Scanned(b, size), NEW first \in Nat, NEW n \in Nat, first + n <= size,
           NEW value \in BOOLEAN, NEW k \in steps(n)
    PROVE  /\ matching(b, first, n, k, value) \in Block
           /\ \A o \in Offset : o \in matching(b, first, n, k, value)
                                    <=> k + o \in Answering(Positions(b), first, n, value)
<1> DEFINE P == Positions(b)
           block == block_at(b, first + k)
           mask == partial_block_mask(Min({bits_per_block, n - k}))
<1>1. size \in Nat /\ k \in Nat /\ k < n /\ bits_per_block \in Nat \ {0} /\ n - k \in Nat
  BY StepsApart, BitsPerBlockAssumption DEF Scanned
<1>2. /\ Min({bits_per_block, n - k}) \in {bits_per_block, n - k}
      /\ Min({bits_per_block, n - k}) <= bits_per_block /\ Min({bits_per_block, n - k}) <= n - k
  <2> DEFINE rest == n - k
  <2>1. bits_per_block \in Int /\ rest \in Int
    BY <1>1
  <2> HIDE DEF rest
  <2>2. /\ Min({bits_per_block, rest}) \in {bits_per_block, rest}
        /\ Min({bits_per_block, rest}) <= bits_per_block /\ Min({bits_per_block, rest}) <= rest
    BY <2>1, LesserOf
  <2> QED
    BY <2>2 DEF rest
<1>3. \A o \in Offset : o \in Nat /\ o < bits_per_block
  BY <1>1 DEF Offset
<1>4. \A o \in Offset : o \in mask <=> k + o < n
  <2> DEFINE m == Min({bits_per_block, n - k})
  <2>1. \A o \in Offset : o \in mask <=> o < m
    BY DEF partial_block_mask
  <2> HIDE DEF m
  <2>2. (m = bits_per_block \/ m = n - k) /\ m <= bits_per_block /\ m <= n - k
    BY <1>2 DEF m
  <2> QED
    BY <1>1, <1>3, <2>1, <2>2
<1>5. \A o \in Offset : o \in block <=> first + k + o \in P
  <2>1. first + k \in Nat /\ first + k < size
    BY <1>1
  <2> QED
    BY <2>1, BlockRead
<1>6. mask \in Block /\ mask \subseteq Offset
  BY BlockOperators DEF partial_block_mask
<1> HIDE DEF P, block, mask
<1>7. matching(b, first, n, k, value) = bit_xor(block, flip_for(value)) \cap mask
  BY DEF matching, block, mask
<1>8. matching(b, first, n, k, value) \in Block
  BY <1>6, <1>7 DEF Block
<1>9. ASSUME NEW o \in Offset
      PROVE  o \in matching(b, first, n, k, value) <=> k + o \in Answering(P, first, n, value)
  <2>1. o \in bit_xor(block, flip_for(value)) <=> (o \in block <=> value)
    <3>1. CASE value = TRUE
      BY <3>1 DEF bit_xor, flip_for, zero
    <3>2. CASE value = FALSE
      BY <3>2 DEF bit_xor, flip_for, ones
    <3> QED
      BY <3>1, <3>2
  <2>2. k + o \in 0 .. n - 1 <=> k + o < n
    BY <1>1, <1>3
  <2>3. first + (k + o) = first + k + o
    BY <1>1, <1>3
  <2>4. k + o \in Answering(P, first, n, value)
            <=> k + o \in 0 .. n - 1 /\ (first + (k + o) \in P <=> value)
    BY DEF Answering
  <2> QED
    BY <1>4, <1>5, <1>7, <2>1, <2>2, <2>3, <2>4
<1> QED
  BY <1>8, <1>9 DEF P

\* The steps that hit are those of the distances that answer.
LEMMA HitsAnswer ==
    ASSUME NEW b, NEW size, Scanned(b, size), NEW first \in Nat, NEW n \in Nat, first + n <= size,
           NEW value \in BOOLEAN
    PROVE  LET A == Answering(Positions(b), first, n, value)
               H == hits(b, first, n, value)
           IN  /\ H \subseteq steps(n) /\ H \in SUBSET Nat /\ H \in SUBSET (0 .. n)
               /\ \A p \in A : \E k \in H : \E o \in matching(b, first, n, k, value) :
                     o \in Offset /\ p = k + o
               /\ H # {} => A # {}
<1> DEFINE A == Answering(Positions(b), first, n, value)
           H == hits(b, first, n, value)
           m(k) == matching(b, first, n, k, value)
<1>1. H \subseteq steps(n) /\ H \in SUBSET Nat /\ H \in SUBSET (0 .. n)
  <2>1. H \subseteq steps(n)
    BY DEF hits
  <2>2. steps(n) \subseteq 0 .. n - 1
    BY StepsApart
  <2> HIDE DEF H
  <2> QED
    BY <2>1, <2>2
<1>2. \A k \in steps(n) : m(k) \in Block /\ \A o \in Offset : o \in m(k) <=> k + o \in A
  BY StepMatches
<1>3. ASSUME NEW p \in A
      PROVE  \E k \in H : \E o \in m(k) : o \in Offset /\ p = k + o
  <2>1. p \in 0 .. n - 1
    BY DEF Answering
  <2>2. PICK k \in steps(n), o \in Offset : p = k + o
    BY <2>1, StepsApart
  <2>3. o \in m(k)
    BY <1>2, <2>2
  <2>4. k \in H
    BY <2>3 DEF hits, zero
  <2> QED
    BY <2>2, <2>3, <2>4
<1>4. ASSUME H # {} PROVE A # {}
  <2>1. PICK k \in H : TRUE
    BY <1>4
  <2>2. m(k) # {} /\ k \in steps(n)
    BY <2>1 DEF hits, zero
  <2>3. PICK o \in m(k) : TRUE
    BY <2>2
  <2>4. o \in Offset
    BY <1>2, <2>2, <2>3 DEF Block
  <2> QED
    BY <1>2, <2>2, <2>3, <2>4
<1> HIDE DEF A, H, m
<1>5. /\ H \subseteq steps(n) /\ H \in SUBSET Nat /\ H \in SUBSET (0 .. n)
      /\ \A p \in A : \E k \in H : \E o \in m(k) : o \in Offset /\ p = k + o
      /\ H # {} => A # {}
  BY <1>1, <1>3, <1>4
<1> QED
  BY <1>5 DEF A, H, m

\* A block that holds a bit has its leading zeros, a number.
LEMMA CountlType ==
    ASSUME NEW w \in Block, w # zero
    PROVE  countl_zero(w) \in Int /\ left_bit \in Int
<1>1. left_bit \in Nat /\ w \in SUBSET (0 .. left_bit) /\ w # {}
  BY BitsPerBlockAssumption DEF left_bit, Block, Offset, zero
<1> DEFINE top_bit == Max(w)
<1>2. top_bit \in w
  BY <1>1, MaxExists
<1> HIDE DEF top_bit
<1>3. left_bit - top_bit \in Int
  BY <1>1, <1>2
<1> QED
  BY <1>1, <1>3 DEF countl_zero, top_bit

\* find_value names the first distance that answers, and find_last_value the
\* last; either the length where none does.
LEMMA ValueFound ==
    ASSUME NEW b, NEW size, Scanned(b, size), NEW first \in Nat, NEW n \in Nat, first + n <= size,
           NEW value \in BOOLEAN
    PROVE  /\ IsFirst(Answering(Positions(b), first, n, value), find_value(b, first, n, value), n)
           /\ IsLast(Answering(Positions(b), first, n, value), find_last_value(b, first, n, value), n)
<1> DEFINE A == Answering(Positions(b), first, n, value)
           H == hits(b, first, n, value)
           m(k) == matching(b, first, n, k, value)
           lo == countr_zero(m(Min(H)))
           hi == left_bit - countl_zero(m(Max(H)))
<1>1. /\ H \subseteq steps(n) /\ H \in SUBSET Nat /\ H \in SUBSET (0 .. n)
      /\ \A p \in A : \E k \in H : \E o \in m(k) : o \in Offset /\ p = k + o
      /\ H # {} => A # {}
  BY HitsAnswer
<1>2. \A k \in steps(n) : m(k) \in Block /\ \A o \in Offset : o \in m(k) <=> k + o \in A
  BY StepMatches
<1>3. \A k \in H : m(k) # zero
  BY DEF hits
<1>4. \A o \in Offset : o \in Nat /\ o < bits_per_block
  BY BitsPerBlockAssumption DEF Offset
<1>5. find_value(b, first, n, value) = IF H = {} THEN n ELSE Min(H) + lo
  BY DEF find_value
<1>6. find_last_value(b, first, n, value)
          = IF H = {} THEN n ELSE Max(H) + left_bit - countl_zero(m(Max(H)))
  BY DEF find_last_value
<1>7. \A k, l \in steps(n) : k < l => k + bits_per_block <= l
  BY StepsApart
<1>8. \A k \in H : m(k) \in Block /\ m(k) # zero
  BY <1>1, <1>2, <1>3
<1>9. \A k \in H : /\ countr_zero(m(k)) \in m(k) /\ left_bit - countl_zero(m(k)) \in m(k)
                   /\ \A o \in m(k) : countr_zero(m(k)) <= o /\ o <= left_bit - countl_zero(m(k))
  BY <1>8, BlockExtremes
<1>10. bits_per_block \in Nat
  BY BitsPerBlockAssumption
<1> HIDE DEF A, H, m
<1>11. \A k \in H : \A o \in m(k) : o \in Offset
  BY <1>8 DEF Block
<1>12. CASE H = {}
  <2>1. A = {}
    BY <1>1, <1>12
  <2> QED
    BY <1>5, <1>6, <1>12, <2>1 DEF IsFirst, IsLast, A
<1>13. CASE H # {}
  <2>1. /\ Min(H) \in H /\ (\A k \in H : Min(H) <= k)
        /\ Max(H) \in H /\ (\A k \in H : k <= Max(H))
    BY <1>1, <1>13, MinExists, MaxExists
  <2>2. lo \in m(Min(H)) /\ (\A o \in m(Min(H)) : lo <= o)
    BY <1>9, <2>1
  <2>3. hi \in m(Max(H)) /\ (\A o \in m(Max(H)) : o <= hi)
    BY <1>9, <2>1
  <2>4. lo \in Offset /\ hi \in Offset
    BY <1>11, <2>1, <2>2, <2>3
  <2>5. Min(H) + lo \in A /\ Max(H) + hi \in A
    BY <1>1, <1>2, <2>1, <2>2, <2>3, <2>4
  <2>6. countl_zero(m(Max(H))) \in Int /\ left_bit \in Int
    <3>1. m(Max(H)) \in Block /\ m(Max(H)) # zero
      BY <1>8, <2>1
    <3> QED
      BY <3>1, CountlType
  <2> DEFINE l == Min(H)
             h == Max(H)
  <2>7. Max(H) + left_bit - countl_zero(m(Max(H))) = Max(H) + hi
    <3>1. h \in Int
      <4>1. h \in H
        BY <2>1
      <4> HIDE DEF h
      <4> QED
        BY <1>1, <4>1
    <3> DEFINE c == countl_zero(m(Max(H)))
    <3> HIDE DEF h, c
    <3> QED
      BY <2>6, <3>1 DEF c
  <2>8. ASSUME NEW p \in A
        PROVE  l + lo <= p /\ p <= h + hi
    <3>1. PICK k \in H : \E o \in m(k) : o \in Offset /\ p = k + o
      BY <1>1
    <3>2. PICK o \in m(k) : o \in Offset /\ p = k + o
      BY <3>1
    <3>3. l \in steps(n) /\ h \in steps(n) /\ k \in steps(n) /\ l \in Nat /\ h \in Nat /\ k \in Nat
      BY <1>1, <2>1
    <3>4. l <= k /\ k <= h /\ (l < k => l + bits_per_block <= k) /\ (k < h => k + bits_per_block <= h)
      BY <1>7, <2>1, <3>3
    <3>5. (l = k => lo <= o) /\ (k = h => o <= hi)
      BY <2>2, <2>3, <3>2
    <3>6. lo \in Nat /\ lo < bits_per_block /\ hi \in Nat /\ o \in Nat /\ o < bits_per_block
      BY <1>4, <2>4, <3>2
    <3> HIDE DEF l, h, lo, hi
    <3> QED
      BY <1>10, <3>2, <3>3, <3>4, <3>5, <3>6
  <2>9. A # {}
    BY <2>5
  <2>10. IsFirst(A, Min(H) + lo, n) /\ IsLast(A, Max(H) + hi, n)
    BY <2>5, <2>8, <2>9 DEF IsFirst, IsLast
  <2> QED
    BY <1>5, <1>6, <1>13, <2>7, <2>10 DEF A
<1> QED
  BY <1>12, <1>13

\* The distances at which a predicate on bools holds.
Accepting(S, first, n, on_false, on_true) ==
    {k \in 0 .. n - 1 : IF first + k \in S THEN on_true ELSE on_false}

\* A predicate is sought as the value it holds of, where that is one of two.
LEMMA PredicateFound ==
    ASSUME NEW b, NEW size, Scanned(b, size), NEW first \in Nat, NEW n \in Nat, first + n <= size,
           NEW on_false \in BOOLEAN, NEW on_true \in BOOLEAN
    PROVE  IsFirst(Accepting(Positions(b), first, n, on_false, on_true),
                   bit_find_if(b, first, n, on_false, on_true), n)
<1> DEFINE P == Positions(b)
           U == Accepting(P, first, n, on_false, on_true)
<1>1. size \in Nat /\ \A p \in 0 .. size - 1 : BitAt(b, p) <=> p \in P
  BY BitsBelowWidth DEF Scanned
<1>2. \A k : k \in U <=> k \in 0 .. n - 1 /\ IF first + k \in P THEN on_true ELSE on_false
  BY DEF Accepting
<1>3. IsFirst(Answering(P, first, n, on_true), find_value(b, first, n, on_true), n)
  BY ValueFound
<1> HIDE DEF P, U
<1>4. CASE n = 0
  <2>1. U = {}
    BY <1>2, <1>4
  <2>2. bit_find_if(b, first, n, on_false, on_true) = n
    BY <1>4 DEF bit_find_if
  <2> QED
    BY <2>1, <2>2 DEF IsFirst, U, P
<1>5. CASE n = 1
  <2>1. BitAt(b, first) <=> first \in P
    BY <1>1, <1>5
  <2>2. bit_find_if(b, first, n, on_false, on_true)
            = IF (IF first \in P THEN on_true ELSE on_false) THEN 0 ELSE 1
    BY <1>5, <2>1 DEF bit_find_if
  <2>3. \A k : k \in U <=> k = 0 /\ IF first \in P THEN on_true ELSE on_false
    <3>1. 0 .. n - 1 = {0} /\ first + 0 = first
      BY <1>5
    <3> QED
      BY <1>2, <3>1
  <2>4. CASE IF first \in P THEN on_true ELSE on_false
    <3>1. U = {0}
      BY <2>3, <2>4
    <3> QED
      BY <2>2, <2>4, <3>1 DEF IsFirst, U, P
  <2>5. CASE ~(IF first \in P THEN on_true ELSE on_false)
    <3>1. U = {}
      BY <2>3, <2>5
    <3> QED
      BY <1>5, <2>2, <2>5, <3>1 DEF IsFirst, U, P
  <2> QED
    BY <2>4, <2>5
<1>6. CASE n \notin {0, 1} /\ on_false # on_true
  <2>1. bit_find_if(b, first, n, on_false, on_true) = find_value(b, first, n, on_true)
    BY <1>6 DEF bit_find_if
  <2>2. \A k : (IF first + k \in P THEN on_true ELSE on_false) <=> (first + k \in P <=> on_true)
    BY <1>6
  <2>3. U = Answering(P, first, n, on_true)
    BY <1>2, <2>2 DEF Answering
  <2> QED
    BY <1>3, <2>1, <2>3 DEF U, P
<1>7. CASE n \notin {0, 1} /\ on_false = on_true /\ on_true
  <2>1. bit_find_if(b, first, n, on_false, on_true) = 0
    BY <1>7 DEF bit_find_if
  <2>2. U = 0 .. n - 1
    BY <1>2, <1>7
  <2>3. 0 \in U /\ \A p \in U : 0 <= p
    BY <1>7, <2>2
  <2> QED
    BY <2>1, <2>3 DEF IsFirst, U, P
<1>8. CASE n \notin {0, 1} /\ on_false = on_true /\ ~on_true
  <2>1. bit_find_if(b, first, n, on_false, on_true) = n
    BY <1>8 DEF bit_find_if
  <2>2. U = {}
    BY <1>2, <1>8
  <2> QED
    BY <2>1, <2>2 DEF IsFirst, U, P
<1> QED
  BY <1>4, <1>5, <1>6, <1>7, <1>8

\* Past the first that answers a value, none answers the other: the values are
\* apart in the window.
LEMMA PartedAt ==
    ASSUME NEW b, NEW size, Scanned(b, size), NEW first \in Nat, NEW n \in Nat, first + n <= size,
           NEW value \in BOOLEAN
    PROVE  LET at == find_value(b, first, n, value)
           IN  find_value(b, first + at, n - at, ~value) = n - at
                   <=> \A k \in Answering(Positions(b), first, n, ~value),
                          l \in Answering(Positions(b), first, n, value) : k < l
<1> DEFINE P == Positions(b)
           at == find_value(b, first, n, value)
           A == Answering(P, first, n, value)
           Z == Answering(P, first, n, ~value)
           rest == n - at
           R == Answering(P, first + at, rest, ~value)
           r == find_value(b, first + at, rest, ~value)
<1>1. IsFirst(A, at, n)
  BY ValueFound
<1>2. /\ \A k : k \in A <=> k \in 0 .. n - 1 /\ (first + k \in P <=> value)
      /\ \A k : k \in Z <=> k \in 0 .. n - 1 /\ (first + k \in P <=> ~value)
      /\ \A k : k \in R <=> k \in 0 .. rest - 1 /\ (first + at + k \in P <=> ~value)
  BY DEF Answering
<1> HIDE DEF at, A, Z
<1>3. at \in 0 .. n /\ (at # n => at \in A) /\ (\A l \in A : at <= l)
  BY <1>1, <1>2 DEF IsFirst
<1>4. first + at \in Nat /\ rest \in Nat /\ (first + at) + rest <= size
  <2>1. size \in Nat
    BY DEF Scanned
  <2> QED
    BY <1>3, <2>1
<1>5. IsFirst(R, r, rest)
  <2> HIDE DEF rest
  <2> QED
    BY <1>4, ValueFound
<1> HIDE DEF R, r
<1>6. r = rest <=> R = {}
  <2>1. \A k \in R : k \in 0 .. rest - 1
    BY <1>2
  <2>2. \A k \in R : k # rest
    BY <1>4, <2>1
  <2> QED
    BY <1>5, <2>2 DEF IsFirst
<1>7. \A k \in Z : at <= k => k - at \in R
  <2> SUFFICES ASSUME NEW k \in Z, at <= k PROVE k - at \in R
    OBVIOUS
  <2>1. k \in 0 .. n - 1 /\ (first + k \in P <=> ~value)
    BY <1>2
  <2>2. k - at \in 0 .. rest - 1 /\ first + at + (k - at) = first + k
    BY <1>3, <2>1
  <2> QED
    BY <1>2, <2>1, <2>2
<1>8. \A k \in R : at + k \in Z
  <2> SUFFICES ASSUME NEW k \in R PROVE at + k \in Z
    OBVIOUS
  <2>1. k \in 0 .. rest - 1 /\ (first + at + k \in P <=> ~value)
    BY <1>2
  <2>2. at + k \in 0 .. n - 1 /\ first + at + k = first + (at + k)
    BY <1>3, <2>1
  <2> QED
    BY <1>2, <2>1, <2>2
<1>9. ASSUME R = {}, NEW k \in Z, NEW l \in A
      PROVE  k < l
  <2>1. ~(at <= k)
    BY <1>7, <1>9
  <2>2. at <= l /\ l \in Nat /\ k \in Nat /\ at \in Nat
    BY <1>2, <1>3
  <2> QED
    BY <2>1, <2>2
<1>10. ASSUME NEW k \in R, \A i \in Z, l \in A : i < l
       PROVE  FALSE
  <2>1. at + k \in Z /\ k \in 0 .. rest - 1
    BY <1>2, <1>8
  <2>2. k \in Nat /\ at \in Nat /\ at # n
    BY <1>3, <2>1
  <2>3. at + k < at
    BY <1>3, <1>10, <2>1, <2>2
  <2> QED
    BY <2>2, <2>3
<1>11. r = rest <=> \A k \in Z, l \in A : k < l
  BY <1>6, <1>9, <1>10
<1> QED
  BY <1>11 DEF r, A, Z, at

\* The whole of a container is the window that begins it and is as wide.
LEMMA WholeWindow ==
    ASSUME NEW b, NEW size, Scanned(b, size)
    PROVE  InRange(Positions(b), 0, size) = Positions(b)
<1>1. size \in Nat /\ \A p \in Positions(b) : p \in Nat /\ p < size
  BY ScannedPositions
<1>2. \A p \in Positions(b) : 0 <= p /\ p < 0 + size
  BY <1>1
<1> QED
  BY <1>2 DEF InRange

\* A window has as many positions as distances that answer true, the rest
\* answer false, and both are finite.
LEMMA WindowSize ==
    ASSUME NEW b, NEW size, Scanned(b, size), NEW first \in Nat, NEW n \in Nat, first + n <= size
    PROVE  LET answering == Cardinality(Answering(Positions(b), first, n, TRUE))
           IN  /\ answering \in 0 .. n
               /\ Cardinality(InRange(Positions(b), first, n)) = answering
               /\ Cardinality(Answering(Positions(b), first, n, FALSE)) = n - answering
<1> DEFINE P == Positions(b)
           S == InRange(P, first, n)
           T == Answering(P, first, n, TRUE)
           F == Answering(P, first, n, FALSE)
           I == 0 .. n - 1
<1>1. \A p \in P : p \in Nat
  BY ScannedPositions
<1>2. IsFiniteSet(I) /\ Cardinality(I) = n
  <2>1. n - 1 \in Int
    OBVIOUS
  <2>2. IsFiniteSet(I) /\ Cardinality(I) = IF 0 > n - 1 THEN 0 ELSE (n - 1) - 0 + 1
    BY <2>1, FS_Interval
  <2> HIDE DEF I
  <2> QED
    BY <2>2
<1>3. /\ \A k : k \in T <=> k \in I /\ first + k \in P
      /\ \A k : k \in F <=> k \in I /\ first + k \notin P
      /\ \A p : p \in S <=> p \in P /\ first <= p /\ p < first + n
      /\ \A k \in I : k \in Nat /\ k < n
  BY DEF Answering, InRange
<1>4. S \in SUBSET Int /\ \A p \in Int : p \in S <=> p - first \in T
  <2>1. S \in SUBSET Int
    BY <1>1, <1>3
  <2>2. \A p \in Int : p - first \in I <=> first <= p /\ p < first + n
    OBVIOUS
  <2>3. \A p \in Int : first + (p - first) = p
    OBVIOUS
  <2> HIDE DEF I, S, T
  <2> QED
    BY <1>3, <2>1, <2>2, <2>3
<1> HIDE DEF P, S, T, F, I
<1>5. T \subseteq I /\ F \subseteq I /\ T \cap F = {} /\ T \cup F = I /\ T \in SUBSET Int
  BY <1>3
<1>6. IsFiniteSet(T) /\ IsFiniteSet(F)
  BY <1>2, <1>5, FS_Subset
<1>7. Cardinality(T) \in Nat /\ Cardinality(F) \in Nat /\ n = Cardinality(T) + Cardinality(F)
  BY <1>2, <1>5, <1>6, DisjointSize
<1>8. Cardinality(S) = Cardinality(T)
  BY <1>4, <1>5, <1>6, MovedSize
<1>9. Cardinality(T) \in 0 .. n /\ Cardinality(F) = n - Cardinality(T)
  BY <1>7
<1> QED
  BY <1>8, <1>9 DEF S, T, F, P

\* The whole of a container is counted by its blocks, and a range by windows.
LEMMA TrueCounted ==
    ASSUME NEW b, NEW size, Scanned(b, size), NEW first \in Nat, NEW n \in Nat, first + n <= size
    PROVE  count_true(b, size, first, n) = Cardinality(Answering(Positions(b), first, n, TRUE))
<1> DEFINE P == Positions(b)
           S == InRange(P, first, n)
<1>1. blocks_for(size) \in Nat /\ b \in Storage(blocks_for(size))
  BY ScannedPositions
<1>2. Cardinality(S) = Cardinality(Answering(P, first, n, TRUE))
  BY WindowSize
<1>3. whole(b, size, first, n) => S = P
  BY WholeWindow DEF whole
<1>4. count_blocks(b) = Cardinality(P) /\ count_range(b, first, n) = Cardinality(S)
  BY <1>1, FinitePositions, RangeCounted
<1> HIDE DEF P, S
<1> QED
  BY <1>2, <1>3, <1>4 DEF count_true, P

\* Counting either value and asking for any, none or all, of the whole or of a
\* range, answer of the distances.
LEMMA WindowAsked ==
    ASSUME NEW b, NEW size, Scanned(b, size), NEW first \in Nat, NEW n \in Nat, first + n <= size
    PROVE  LET T == Answering(Positions(b), first, n, TRUE)
               F == Answering(Positions(b), first, n, FALSE)
           IN  /\ \A value \in BOOLEAN :
                     bit_count(b, size, first, n, value)
                       = Cardinality(Answering(Positions(b), first, n, value))
               /\ bit_any_of(b, size, first, n) <=> T # {}
               /\ bit_none_of(b, size, first, n) <=> T = {}
               /\ bit_all_of(b, size, first, n) <=> F = {}
<1> DEFINE P == Positions(b)
           S == InRange(P, first, n)
           T == Answering(P, first, n, TRUE)
           F == Answering(P, first, n, FALSE)
<1>1. /\ size \in Nat /\ \A p \in P : p \in Nat
      /\ blocks_for(size) \in Nat /\ b \in Storage(blocks_for(size))
  BY ScannedPositions
<1>2. /\ Cardinality(T) \in 0 .. n /\ Cardinality(S) = Cardinality(T)
      /\ Cardinality(F) = n - Cardinality(T)
  BY WindowSize
<1>3. whole(b, size, first, n) => S = P /\ first = 0 /\ n = size
  BY WholeWindow DEF whole
<1>4. /\ any(b) <=> P # {}
      /\ none(b) <=> P = {}
      /\ all(b, size) <=> 0 .. size - 1 \subseteq P
      /\ any_range(b, first, n) <=> S # {}
      /\ all_range(b, first, n) <=> first .. first + n - 1 \subseteq P
  <2>1. any(b) <=> P # {}
    BY <1>1, AnyPosition
  <2> QED
    BY <2>1, EveryBlock, WindowsAsked DEF none, any
<1>5. S # {} <=> T # {}
  <2>1. \A p \in S : p - first \in 0 .. n - 1 /\ first + (p - first) = p /\ p \in P
    BY <1>1 DEF InRange
  <2>2. \A p \in S : p - first \in T
    BY <2>1 DEF Answering
  <2>3. \A k \in T : first + k \in P /\ first <= first + k /\ first + k < first + n
    BY DEF Answering
  <2>4. \A k \in T : first + k \in S
    BY <2>3 DEF InRange
  <2> QED
    BY <2>2, <2>4
<1>6. first .. first + n - 1 \subseteq P <=> F = {}
  <2>1. ASSUME first .. first + n - 1 \subseteq P, NEW k \in F PROVE FALSE
    <3>1. k \in 0 .. n - 1 /\ first + k \notin P
      BY <2>1 DEF Answering
    <3>2. first + k \in first .. first + n - 1
      BY <3>1
    <3> QED
      BY <2>1, <3>1, <3>2
  <2>2. ASSUME F = {}, NEW p \in first .. first + n - 1 PROVE p \in P
    <3>1. p - first \in 0 .. n - 1 /\ first + (p - first) = p
      OBVIOUS
    <3>2. p - first \notin F
      BY <2>2
    <3> QED
      BY <3>1, <3>2 DEF Answering
  <2> QED
    BY <2>1, <2>2
<1>7. n = size /\ first = 0 => first .. first + n - 1 = 0 .. size - 1
  BY <1>1
<1> HIDE DEF P, S, T, F
<1>8. count_true(b, size, first, n) = Cardinality(T)
  BY TrueCounted DEF T, P
<1>9. /\ bit_any_of(b, size, first, n) <=> T # {}
      /\ bit_none_of(b, size, first, n) <=> T = {}
      /\ bit_all_of(b, size, first, n) <=> F = {}
  <2>1. CASE whole(b, size, first, n)
    <3>1. /\ bit_any_of(b, size, first, n) = any(b) /\ bit_none_of(b, size, first, n) = none(b)
          /\ bit_all_of(b, size, first, n) = all(b, size)
      BY <2>1 DEF bit_any_of, bit_none_of, bit_all_of
    <3>2. S = P /\ first .. first + n - 1 = 0 .. size - 1
      BY <1>3, <1>7, <2>1
    <3> QED
      BY <1>4, <1>5, <1>6, <3>1, <3>2
  <2>2. CASE ~whole(b, size, first, n)
    <3>1. /\ bit_any_of(b, size, first, n) = any_range(b, first, n)
          /\ bit_none_of(b, size, first, n) = ~any_range(b, first, n)
          /\ bit_all_of(b, size, first, n) = all_range(b, first, n)
      BY <2>2 DEF bit_any_of, bit_none_of, bit_all_of
    <3> QED
      BY <1>4, <1>5, <1>6, <3>1
  <2> QED
    BY <2>1, <2>2
<1>10. ASSUME NEW value \in BOOLEAN
       PROVE  bit_count(b, size, first, n, value) = Cardinality(Answering(P, first, n, value))
  <2>1. CASE value = TRUE
    BY <1>8, <2>1 DEF bit_count, T
  <2>2. CASE value = FALSE
    BY <1>2, <1>8, <2>2 DEF bit_count, F
  <2> QED
    BY <2>1, <2>2
<1>11. \A value \in BOOLEAN :
          bit_count(b, size, first, n, value) = Cardinality(Answering(Positions(b), first, n, value))
  BY <1>10 DEF P
<1> QED
  BY <1>9, <1>11, Zenon DEF P, T, F

\* So every search of a window of a container answers as std's does.
LEMMA WindowSearched ==
    ASSUME TypeOK, UnusedBitsClear, NEW x \in Obj, NEW first \in Nat, NEW n \in Nat,
           first + n <= m_size[x]
    PROVE  SearchesOf(x, first, n)
<1> DEFINE b == m_blocks[x]
           size == m_size[x]
           P == Positions(b)
           T == Answering(P, first, n, TRUE)
           F == Answering(P, first, n, FALSE)
           Either(on_false, on_true) == (IF on_true THEN T ELSE {}) \cup (IF on_false THEN F ELSE {})
<1>1. Scanned(b, size)
  BY OnesArePositions
<1>2. /\ Where(x, first, n, TRUE) = T /\ Where(x, first, n, FALSE) = F
      /\ \A value \in BOOLEAN : Where(x, first, n, value) = Answering(P, first, n, value)
  BY WhereAnswers
<1>3. T \in SUBSET Nat /\ T \in SUBSET (0 .. n) /\ F \in SUBSET Nat /\ F \in SUBSET (0 .. n)
  BY DEF Answering
<1>4. /\ IsFirst(T, find_value(b, first, n, TRUE), n)
      /\ IsFirst(F, find_value(b, first, n, FALSE), n)
      /\ IsLast(T, find_last_value(b, first, n, TRUE), n)
      /\ IsLast(F, find_last_value(b, first, n, FALSE), n)
  BY <1>1, ValueFound
<1>5. ASSUME NEW on_false \in BOOLEAN, NEW on_true \in BOOLEAN
      PROVE  /\ IsFirst(Either(on_false, on_true), bit_find_if(b, first, n, on_false, on_true), n)
             /\ Either(on_false, on_true) \in SUBSET Nat
  <2>1. IsFirst(Accepting(P, first, n, on_false, on_true), bit_find_if(b, first, n, on_false, on_true), n)
    BY <1>1, PredicateFound
  <2>2. Accepting(P, first, n, on_false, on_true) = Either(on_false, on_true)
    BY DEF Accepting, Answering
  <2>3. Either(on_false, on_true) \in SUBSET Nat
    <3> HIDE DEF T, F
    <3> QED
      BY <1>3
  <2> QED
    BY <2>1, <2>2, <2>3
<1>6. /\ bit_is_partitioned(b, first, n) <=> \A k \in T, l \in F : k < l
      /\ bit_is_sorted(b, first, n) <=> \A k \in T, l \in F : l < k
  <2>1. find_value(b, first + find_value(b, first, n, FALSE), n - find_value(b, first, n, FALSE), ~FALSE)
            = n - find_value(b, first, n, FALSE)
          <=> \A k \in Answering(P, first, n, ~FALSE), l \in F : k < l
    BY <1>1, PartedAt
  <2>2. find_value(b, first + find_value(b, first, n, TRUE), n - find_value(b, first, n, TRUE), ~TRUE)
            = n - find_value(b, first, n, TRUE)
          <=> \A k \in Answering(P, first, n, ~TRUE), l \in T : k < l
    BY <1>1, PartedAt
  <2>3. ~FALSE = TRUE /\ ~TRUE = FALSE
    OBVIOUS
  <2> HIDE DEF P
  <2> QED
    BY <2>1, <2>2, <2>3, Zenon DEF bit_is_partitioned, bit_is_sorted
<1>7. /\ \A value \in BOOLEAN :
            bit_count(b, size, first, n, value) = Cardinality(Answering(P, first, n, value))
      /\ bit_any_of(b, size, first, n) <=> T # {}
      /\ bit_none_of(b, size, first, n) <=> T = {}
      /\ bit_all_of(b, size, first, n) <=> F = {}
  BY <1>1, WindowAsked
<1> HIDE DEF T, F, P, Either
<1>8. /\ bit_find(b, first, n, TRUE) = FirstOf(T, n)
      /\ bit_find_last(b, first, n, TRUE) = LastOf(T, n)
      /\ bit_find_last(b, first, n, FALSE) = LastOf(F, n)
      /\ bit_partition_point(b, first, n) = FirstOf(F, n)
  BY <1>3, <1>4, FirstIsMin, LastIsMax
     DEF bit_find, bit_find_last, bit_partition_point, FirstOf, LastOf
<1>9. \A on_false, on_true \in BOOLEAN :
         bit_find_if(b, first, n, on_false, on_true) = FirstOf(Either(on_false, on_true), n)
  BY <1>5, FirstIsMin DEF FirstOf
<1>10. \A on_false, on_true :
          Either(on_false, on_true) = (IF on_true THEN T ELSE {}) \cup (IF on_false THEN F ELSE {})
  BY DEF Either
<1>11. \A value \in BOOLEAN :
          bit_count(b, size, first, n, value) = Cardinality(Where(x, first, n, value))
  BY <1>2, <1>7
<1> DEFINE ones_at == Where(x, first, n, TRUE)
           zeros_at == Where(x, first, n, FALSE)
<1>12. ones_at = T /\ zeros_at = F
  BY <1>2
<1> HIDE DEF ones_at, zeros_at
<1>13. /\ bit_find(b, first, n, TRUE) = FirstOf(ones_at, n)
       /\ bit_find_last(b, first, n, TRUE) = LastOf(ones_at, n)
       /\ bit_find_last(b, first, n, FALSE) = LastOf(zeros_at, n)
       /\ bit_partition_point(b, first, n) = FirstOf(zeros_at, n)
       /\ bit_is_partitioned(b, first, n) <=> \A k \in ones_at, l \in zeros_at : k < l
       /\ bit_is_sorted(b, first, n) <=> \A k \in ones_at, l \in zeros_at : l < k
       /\ bit_any_of(b, size, first, n) <=> ones_at # {}
       /\ bit_none_of(b, size, first, n) <=> ones_at = {}
       /\ bit_all_of(b, size, first, n) <=> zeros_at = {}
  BY <1>6, <1>7, <1>8, <1>12
<1>14. \A on_false, on_true \in BOOLEAN :
          bit_find_if(b, first, n, on_false, on_true)
            = FirstOf((IF on_true THEN ones_at ELSE {}) \cup (IF on_false THEN zeros_at ELSE {}), n)
  BY <1>9, <1>10, <1>12
<1> QED
  BY <1>11, <1>13, <1>14, Zenon DEF SearchesOf, ones_at, zeros_at, b, size

\* As the runs ask, but of every container, and of every window of it.
EverySearchExact ==
    \A x \in Obj : \A first, n \in Nat : first + n <= m_size[x] => SearchesOf(x, first, n)

\* In every state of a container, every search and count over a window, a block
\* at a time, answers what std's algorithm of the name does a bool at a time.
THEOREM SearchesAnswer == Spec => [](SearchesExact /\ EverySearchExact)
<1>1. TypeOK /\ UnusedBitsClear => EverySearchExact
  BY WindowSearched DEF EverySearchExact
<1>2. ASSUME EverySearchExact
      PROVE  SearchesExact
  <2>1. ASSUME NEW x \in Obj, NEW w \in Window(m_size[x])
        PROVE  SearchesOf(x, w[1], w[2])
    <3>1. w[1] \in Nat /\ w[2] \in Nat /\ w[1] + w[2] <= m_size[x]
      BY DEF Window, Starts
    <3> QED
      BY <1>2, <3>1 DEF EverySearchExact
  <2> QED
    BY <2>1 DEF SearchesExact
<1> QED
  BY <1>1, <1>2, TypeCorrect, UnusedBitsStayClear, PTL

(***************************************************************************)
(* The algorithms that rewrite in place.                                   *)
(***************************************************************************)
\* Blocks whose positions are known have their bools.
LEMMA BoolsOf ==
    ASSUME NEW size \in Nat, NEW c \in Storage(blocks_for(size)), NEW p \in 0 .. size - 1
    PROVE  BitAt(c, p) = (p \in Positions(c))
<1>1. /\ blocks_for(size) \in Nat /\ size <= blocks_for(size) * bits_per_block
      /\ blocks_for(size) * bits_per_block \in Nat
  BY BlocksForBounds, WholeWidth
<1>2. p \in Span(blocks_for(size))
  <2> DEFINE w == blocks_for(size) * bits_per_block
  <2>1. w \in Nat /\ size <= w
    BY <1>1
  <2> HIDE DEF w
  <2>2. p \in 0 .. w - 1
    BY <2>1
  <2> QED
    BY <2>2 DEF Span, w
<1>3. BitAt(c, p) <=> p \in Positions(c)
  BY <1>1, <1>2, PositionWrittenPositions
<1> QED
  BY <1>3 DEF BitAt

\* A range within the width set, and then another, of opposite values.
LEMMA TwoRangesSet ==
    ASSUME NEW b, NEW size, Scanned(b, size), NEW first \in Nat, NEW l \in Nat, NEW r \in Nat,
           first + l + r <= size, NEW value \in BOOLEAN, NEW other \in BOOLEAN, other # value
    PROVE  LET c == range_set(range_set(b, first, l, value), first + l, r, other)
           IN  /\ c \in Storage(blocks_for(size)) /\ TailClear(c, size)
               /\ \A p \in 0 .. size - 1 :
                     p \in Positions(c) <=>
                         IF p \in first .. first + (l + r) - 1
                         THEN p - first < l <=> value
                         ELSE p \in Positions(b)
<1> DEFINE k == blocks_for(size)
           P == Positions(b)
           a == range_set(b, first, l, value)
           mid == first + l
           c == range_set(a, mid, r, other)
           w == k * bits_per_block
<1>1. /\ size \in Nat /\ k \in Nat /\ b \in Storage(k) /\ TailClear(b, size)
      /\ w \in Nat /\ size <= w
  BY BlocksForBounds, WholeWidth DEF Scanned
<1> HIDE DEF k, w
<1>2. first + l <= size /\ first + l <= w /\ mid \in Nat /\ mid + r <= size /\ mid + r <= w
  BY <1>1
<1>3. a \in Storage(k)
  BY <1>1, RangeSetType
<1>4. TailClear(a, size)
  BY <1>1, <1>2, RangeSetTail
<1>5. Positions(a) = (P \ (first .. first + l - 1)) \cup {p \in first .. first + l - 1 : value}
  BY <1>1, <1>2, RangeSetPositions DEF w
<1> HIDE DEF a, mid, P
<1>6. c \in Storage(k)
  BY <1>3, <1>1, RangeSetType
<1>7. TailClear(c, size)
  BY <1>1, <1>2, <1>3, <1>4, RangeSetTail
<1>8. Positions(c) = (Positions(a) \ (mid .. mid + r - 1)) \cup {p \in mid .. mid + r - 1 : other}
  BY <1>1, <1>2, <1>3, RangeSetPositions DEF w
<1> HIDE DEF c
<1>9. ASSUME NEW p \in 0 .. size - 1
      PROVE  p \in Positions(c) <=>
                 IF p \in first .. first + (l + r) - 1 THEN p - first < l <=> value ELSE p \in P
  <2>1. p \in Nat
    BY <1>1
  <2>2. p \in first .. first + l - 1 <=> first <= p /\ p - first < l
    BY <2>1
  <2>3. p \in mid .. mid + r - 1 <=> first + l <= p /\ p < first + l + r
    BY <2>1 DEF mid
  <2>4. p \in first .. first + (l + r) - 1 <=> first <= p /\ p < first + l + r
    BY <2>1
  <2>5. p - first < l <=> ~(first + l <= p)
    BY <2>1
  <2>6. p - first < l /\ first <= p => p < first + l + r
    BY <2>1
  <2>7. p \in Positions(a) <=> (p \in P /\ ~(p \in first .. first + l - 1))
                                   \/ (p \in first .. first + l - 1 /\ value)
    BY <1>5
  <2>8. p \in Positions(c) <=> (p \in Positions(a) /\ ~(p \in mid .. mid + r - 1))
                                   \/ (p \in mid .. mid + r - 1 /\ other)
    BY <1>8
  <2>10. other <=> ~value
    OBVIOUS
  <2>9. first + l <= p => first <= p
    BY <2>1
  <2> QED
    BY <2>2, <2>3, <2>4, <2>5, <2>6, <2>7, <2>8, <2>9, <2>10
<1> QED
  BY <1>6, <1>7, <1>9 DEF c, a, mid, k, P

\* A fill, of the whole or of a range.
LEMMA Filled ==
    ASSUME NEW b, NEW size, Scanned(b, size), NEW first \in Nat, NEW n \in Nat, first + n <= size,
           NEW value \in BOOLEAN
    PROVE  LET c == bit_fill(b, size, first, n, value)
           IN  /\ c \in Storage(blocks_for(size)) /\ TailClear(c, size)
               /\ \A p \in 0 .. size - 1 :
                     p \in Positions(c) <=>
                         IF p \in first .. first + n - 1 THEN value ELSE p \in Positions(b)
<1> DEFINE k == blocks_for(size)
           c == bit_fill(b, size, first, n, value)
           w == k * bits_per_block
<1>1. /\ size \in Nat /\ k \in Nat /\ b \in Storage(k) /\ TailClear(b, size)
      /\ w \in Nat /\ size <= w
  BY BlocksForBounds, WholeWidth DEF Scanned
<1>2. CASE whole(b, size, first, n)
  <2>1. c = IF value THEN all_set(b, size) ELSE all_reset(b)
    BY <1>2 DEF bit_fill
  <2>2. first = 0 /\ n = size
    BY <1>2 DEF whole
  <2>3. c \in Storage(k) /\ TailClear(c, size)
    BY <1>1, <2>1, WholeWrittenType, WholeWrittenTail
  <2>4. Positions(c) = IF value THEN 0 .. size - 1 ELSE {}
    BY <1>1, <2>1, WholeWrittenPositions
  <2>5. first .. first + n - 1 = 0 .. size - 1
    BY <1>1, <2>2
  <2> HIDE DEF c
  <2> QED
    BY <2>3, <2>4, <2>5 DEF c
<1>3. CASE ~whole(b, size, first, n)
  <2>1. c = range_set(b, first, n, value)
    BY <1>3 DEF bit_fill
  <2>2. first + n <= w
    <3> HIDE DEF w
    <3> QED
      BY <1>1
  <2>3. c \in Storage(k) /\ TailClear(c, size)
    BY <1>1, <2>1, RangeSetType, RangeSetTail
  <2>4. Positions(c) = (Positions(b) \ (first .. first + n - 1)) \cup {p \in first .. first + n - 1 : value}
    BY <1>1, <2>1, <2>2, RangeSetPositions
  <2> HIDE DEF c
  <2> QED
    BY <2>3, <2>4 DEF c
<1> QED
  BY <1>2, <1>3

\* Sorted, a window's zeros come first; partitioned, its ones; filled, all are
\* the value; and nothing outside it changes.
LEMMA WindowRewritten ==
    ASSUME TypeOK, UnusedBitsClear, NEW x \in Obj, NEW first \in Nat, NEW n \in Nat,
           first + n <= m_size[x]
    PROVE  RewritesOf(x, first, n)
<1> DEFINE b == m_blocks[x]
           size == m_size[x]
           P == Positions(b)
           held == Cardinality(Where(x, first, n, TRUE))
           sorted == bit_sort(b, size, first, n)
           parts == bit_partition(b, size, first, n)
           filled(value) == bit_fill(b, size, first, n, value)
           zeros == n - held
<1>1. Scanned(b, size) /\ size \in Nat /\ b \in Storage(blocks_for(size))
  BY OnesArePositions DEF Scanned
<1>2. /\ held = Cardinality(Answering(P, first, n, TRUE))
      /\ count_true(b, size, first, n) = held
      /\ held \in 0 .. n
  <2>1. Where(x, first, n, TRUE) = Answering(P, first, n, TRUE)
    BY WhereAnswers
  <2>2. count_true(b, size, first, n) = Cardinality(Answering(P, first, n, TRUE))
    BY <1>1, TrueCounted
  <2>3. Cardinality(Answering(P, first, n, TRUE)) \in 0 .. n
    BY <1>1, WindowSize
  <2> QED
    BY <2>1, <2>2, <2>3
<1>3. /\ sorted = range_set(range_set(b, first, zeros, FALSE), first + zeros, held, TRUE)
      /\ parts = <<range_set(range_set(b, first, held, TRUE), first + held, zeros, FALSE), held>>
  BY <1>2 DEF bit_sort, bit_partition
<1> HIDE DEF b, size, P, held, sorted, parts
<1>4. /\ held \in Nat /\ zeros \in Nat /\ zeros + held = n /\ held + zeros = n
      /\ first + zeros + held <= size /\ first + held + zeros <= size
  <2>1. first + n <= size /\ size \in Nat /\ held \in 0 .. n
    BY <1>1, <1>2 DEF size
  <2> QED
    BY <2>1
<1> HIDE DEF zeros
<1>5. /\ sorted \in Storage(blocks_for(size))
      /\ \A p \in 0 .. size - 1 :
            p \in Positions(sorted) <=>
                IF p \in first .. first + n - 1 THEN ~(p - first < zeros) ELSE p \in P
  <2>2. /\ sorted \in Storage(blocks_for(size))
        /\ \A p \in 0 .. size - 1 :
              p \in Positions(sorted) <=>
                  IF p \in first .. first + (zeros + held) - 1 THEN p - first < zeros <=> FALSE ELSE p \in P
    <3> DEFINE c == range_set(range_set(b, first, zeros, FALSE), first + zeros, held, TRUE)
    <3>1. TRUE # FALSE /\ TRUE \in BOOLEAN /\ FALSE \in BOOLEAN
      OBVIOUS
    <3>2. /\ c \in Storage(blocks_for(size))
          /\ \A p \in 0 .. size - 1 :
                p \in Positions(c) <=>
                    IF p \in first .. first + (zeros + held) - 1
                    THEN p - first < zeros <=> FALSE ELSE p \in Positions(b)
      BY <1>1, <1>4, <3>1, TwoRangesSet
    <3> QED
      BY <1>3, <3>2 DEF P
  <2> QED
    BY <1>4, <2>2
<1>6. /\ parts[1] \in Storage(blocks_for(size)) /\ TailClear(parts[1], size) /\ parts[2] = held
      /\ \A p \in 0 .. size - 1 :
            p \in Positions(parts[1]) <=>
                IF p \in first .. first + n - 1 THEN p - first < held ELSE p \in P
  <2>2. /\ parts[1] = range_set(range_set(b, first, held, TRUE), first + held, zeros, FALSE)
        /\ parts[2] = held
    BY <1>3
  <2>3. /\ parts[1] \in Storage(blocks_for(size)) /\ TailClear(parts[1], size)
        /\ \A p \in 0 .. size - 1 :
              p \in Positions(parts[1]) <=>
                  IF p \in first .. first + (held + zeros) - 1 THEN p - first < held <=> TRUE ELSE p \in P
    <3> DEFINE c == range_set(range_set(b, first, held, TRUE), first + held, zeros, FALSE)
    <3>1. FALSE # TRUE /\ TRUE \in BOOLEAN /\ FALSE \in BOOLEAN
      OBVIOUS
    <3>2. /\ c \in Storage(blocks_for(size)) /\ TailClear(c, size)
          /\ \A p \in 0 .. size - 1 :
                p \in Positions(c) <=>
                    IF p \in first .. first + (held + zeros) - 1
                    THEN p - first < held <=> TRUE ELSE p \in Positions(b)
      BY <1>1, <1>4, <3>1, TwoRangesSet
    <3> QED
      BY <2>2, <3>2 DEF P
  <2> QED
    BY <1>4, <2>2, <2>3
<1>7. \A p \in 0 .. size - 1 : Bit(x, p) = (p \in P)
  BY <1>1, BoolsOf DEF Bit, b, P
<1>8. Rewritten(x, sorted, first, n, LAMBDA k : n - held <= k)
  <2>1. ASSUME NEW p \in 0 .. size - 1
        PROVE  BitAt(sorted, p) = IF p \in first .. first + n - 1 THEN n - held <= p - first ELSE Bit(x, p)
    <3>1. p - first \in Int /\ (~(p - first < zeros) <=> n - held <= p - first)
      BY <1>4 DEF zeros
    <3>2. BitAt(sorted, p) = (p \in Positions(sorted))
      BY <1>1, <1>5, BoolsOf
    <3> QED
      BY <1>5, <1>7, <3>1, <3>2
  <2> QED
    BY <2>1 DEF Rewritten, size
<1>9. Rewritten(x, parts[1], first, n, LAMBDA k : k < held)
  <2>1. ASSUME NEW p \in 0 .. size - 1
        PROVE  BitAt(parts[1], p) = IF p \in first .. first + n - 1 THEN p - first < held ELSE Bit(x, p)
    <3>1. BitAt(parts[1], p) = (p \in Positions(parts[1]))
      BY <1>1, <1>6, BoolsOf
    <3> QED
      BY <1>6, <1>7, <3>1
  <2> QED
    BY <2>1 DEF Rewritten, size
<1>10. ASSUME NEW value \in BOOLEAN
       PROVE  Rewritten(x, filled(value), first, n, LAMBDA k : value) /\ TailClear(filled(value), size)
  <2>1. /\ filled(value) \in Storage(blocks_for(size)) /\ TailClear(filled(value), size)
        /\ \A p \in 0 .. size - 1 :
              p \in Positions(filled(value)) <=>
                  IF p \in first .. first + n - 1 THEN value ELSE p \in P
    BY <1>1, Filled DEF P, size
  <2> HIDE DEF filled
  <2>2. ASSUME NEW p \in 0 .. size - 1
        PROVE  BitAt(filled(value), p) = IF p \in first .. first + n - 1 THEN value ELSE Bit(x, p)
    <3>1. BitAt(filled(value), p) = (p \in Positions(filled(value)))
      BY <1>1, <2>1, BoolsOf
    <3> QED
      BY <1>7, <2>1, <3>1
  <2> QED
    BY <2>1, <2>2 DEF Rewritten, size
<1> QED
  BY <1>6, <1>8, <1>9, <1>10 DEF RewritesOf, b, size, held, sorted, parts, filled

\* A shift moves every bool towards an end, false ones in at the other; one by
\* nothing, or by the width or more, has no effects.
LEMMA Shifted ==
    ASSUME TypeOK, UnusedBitsClear, NEW x \in Obj, NEW n \in Nat
    PROVE  ShiftsOf(x, n)
<1> DEFINE b == m_blocks[x]
           size == m_size[x]
           k == blocks_for(size)
           P == Positions(b)
           left == bit_shift_left(b, size, n)
           right == bit_shift_right(b, size, n)
           w == k * bits_per_block
<1>1. /\ Scanned(b, size) /\ size \in Nat /\ k \in Nat /\ b \in Storage(k) /\ TailClear(b, size)
      /\ w \in Nat /\ size <= w
  BY OnesArePositions, BlocksForBounds, WholeWidth DEF Scanned
<1>2. \A p \in P : p \in Nat /\ p < size
  BY <1>1, ScannedPositions
<1>3. /\ left = IF n = 0 \/ size <= n THEN b ELSE shifted_down(b, n)
      /\ right = IF n = 0 \/ size <= n THEN b ELSE erase_unused(shifted_up(b, n), size)
  BY DEF bit_shift_left, bit_shift_right
<1>4. /\ shifted_down(b, n) \in Storage(k) /\ shifted_up(b, n) \in Storage(k)
      /\ erase_unused(shifted_up(b, n), size) \in Storage(k)
  BY <1>1, ShiftedType, MaskedType
<1>5. /\ TailClear(shifted_down(b, n), size)
      /\ TailClear(erase_unused(shifted_up(b, n), size), size)
  BY <1>1, <1>4, ShiftedDownTail, MaskedTail
<1>6. /\ Positions(shifted_down(b, n)) = {p \in Span(k) : p + n \in P}
      /\ Positions(shifted_up(b, n)) = {p \in Span(k) : p - n \in P}
      /\ Positions(erase_unused(shifted_up(b, n), size)) = {p \in Positions(shifted_up(b, n)) : p < size}
  BY <1>1, <1>4, ShiftedDownPositions, ShiftedUpPositions, ErasedPositions
<1>7. \A p \in 0 .. size - 1 : p \in Span(k)
  <2> HIDE DEF k, w
  <2>1. \A p \in 0 .. size - 1 : p \in 0 .. w - 1
    BY <1>1
  <2> QED
    BY <2>1 DEF Span, w
<1>8. \A p \in 0 .. size - 1 : Bit(x, p) = (p \in P)
  BY <1>1, BoolsOf DEF Bit
<1> HIDE DEF b, size, k, P, left, right, w
<1>9. /\ left \in Storage(k) /\ TailClear(left, size)
      /\ right \in Storage(k) /\ TailClear(right, size)
  BY <1>1, <1>3, <1>4, <1>5
<1>10. \A p \in 0 .. size - 1 : /\ BitAt(left, p) = (p \in Positions(left))
                                /\ BitAt(right, p) = (p \in Positions(right))
  BY <1>1, <1>9, BoolsOf DEF k
<1>11. ASSUME NEW p \in 0 .. size - 1
       PROVE  /\ BitAt(left, p) = IF n < size THEN p + n < size /\ Bit(x, p + n) ELSE Bit(x, p)
              /\ BitAt(right, p) = IF n < size THEN n <= p /\ Bit(x, p - n) ELSE Bit(x, p)
  <2>1. p \in Nat /\ p < size /\ Bit(x, p) = (p \in P)
    BY <1>1, <1>8
  <2>2. CASE n = 0 \/ size <= n
    <3>1. left = b /\ right = b
      BY <1>3, <2>2
    <3>2. BitAt(left, p) = (p \in P) /\ BitAt(right, p) = (p \in P)
      BY <1>10, <3>1 DEF P
    <3>3. n < size => n = 0
      BY <1>1, <2>2
    <3>4. p + 0 = p /\ p - 0 = p
      BY <2>1
    <3>5. CASE n < size
      <4>1. p + n = p /\ p - n = p /\ n <= p
        BY <2>1, <3>3, <3>4, <3>5
      <4>2. Bit(x, p + n) = (p \in P) /\ Bit(x, p - n) = (p \in P)
        BY <2>1, <4>1
      <4>3. p + n < size
        BY <2>1, <4>1
      <4>4. /\ p \in P <=> p + n < size /\ Bit(x, p + n)
            /\ p \in P <=> n <= p /\ Bit(x, p - n)
        BY <4>1, <4>2, <4>3
      <4> QED
        BY <3>2, <3>5, <4>4
    <3>6. CASE ~(n < size)
      BY <2>1, <3>2, <3>6
    <3> QED
      BY <3>5, <3>6
  <2>3. CASE ~(n = 0 \/ size <= n)
    <3>1. n < size
      BY <1>1, <2>3
    <3>2. p \in Positions(left) <=> p + n \in P
      BY <1>3, <1>6, <1>7, <2>3
    <3>3. p \in Positions(right) <=> p - n \in P
      BY <1>3, <1>6, <1>7, <2>1, <2>3
    <3>4. p + n < size => p + n \in 0 .. size - 1
      BY <1>1, <2>1
    <3>5. n <= p => p - n \in 0 .. size - 1
      BY <1>1, <2>1
    <3>6. p + n \in P <=> p + n < size /\ Bit(x, p + n)
      BY <1>2, <1>8, <3>4
    <3>7. p - n \in P <=> n <= p /\ Bit(x, p - n)
      <4>1. p - n \in P => n <= p
        BY <1>2, <2>1
      <4> QED
        BY <1>8, <3>5, <4>1
    <3> QED
      BY <1>10, <3>1, <3>2, <3>3, <3>6, <3>7
  <2> QED
    BY <2>2, <2>3
<1>12. \A p \in 0 .. size - 1 : p \in 0 .. 0 + size - 1 /\ p - 0 = p
  BY <1>1
<1>13. /\ Rewritten(x, left, 0, size, LAMBDA q :
               IF n < size THEN q + n < size /\ Bit(x, q + n) ELSE Bit(x, q))
       /\ Rewritten(x, right, 0, size, LAMBDA q :
               IF n < size THEN n <= q /\ Bit(x, q - n) ELSE Bit(x, q))
  BY <1>11, <1>12 DEF Rewritten, size
<1> QED
  BY <1>9, <1>13 DEF ShiftsOf, b, size, left, right

\* A rotation brings the middle to the front, and a reversal the last.
LEMMA Turned ==
    ASSUME TypeOK, UnusedBitsClear, NEW x \in Obj, NEW middle \in Nat
    PROVE  TurnsOf(x, middle)
<1> DEFINE b == m_blocks[x]
           size == m_size[x]
           k == blocks_for(size)
           P == Positions(b)
           round == bit_rotate(b, size, middle)
           back == bit_reverse(b, size)
<1>1. /\ Scanned(b, size) /\ size \in Nat /\ k \in Nat /\ b \in Storage(k) /\ TailClear(b, size)
  BY OnesArePositions, BlocksForBounds DEF Scanned
<1>2. /\ round \in Storage(k) /\ TailClear(round, size)
      /\ back \in Storage(k) /\ TailClear(back, size)
  BY <1>1, RotatedType, RotatedTail, EndForEndType, EndForEndTail DEF bit_rotate, bit_reverse
<1>3. /\ Positions(round) = {p \in 0 .. size - 1 : (p + middle) % size \in P}
      /\ Positions(back) = {p \in 0 .. size - 1 : size - 1 - p \in P}
  BY <1>1, RotatedPositions, EndForEndPositions DEF bit_rotate, bit_reverse
<1>4. \A p \in 0 .. size - 1 : Bit(x, p) = (p \in P)
  BY <1>1, BoolsOf DEF Bit
<1> HIDE DEF b, size, k, P, round, back
<1>5. \A p \in 0 .. size - 1 : /\ BitAt(round, p) = (p \in Positions(round))
                               /\ BitAt(back, p) = (p \in Positions(back))
  BY <1>1, <1>2, BoolsOf DEF k
<1>6. ASSUME NEW p \in 0 .. size - 1
      PROVE  /\ BitAt(round, p) = Bit(x, (p + middle) % size)
             /\ BitAt(back, p) = Bit(x, size - 1 - p)
  <2>1. size \in Nat \ {0}
    BY <1>1
  <2>2. (p + middle) % size \in 0 .. size - 1
    <3> DEFINE q == p + middle
    <3>1. q \in Nat
      BY <1>1
    <3> HIDE DEF q
    <3>2. q % size \in 0 .. size - 1
      BY <2>1, <3>1
    <3> QED
      BY <3>2 DEF q
  <2>3. size - 1 - p \in 0 .. size - 1
    BY <2>1
  <2> DEFINE r == (p + middle) % size
             l == size - 1 - p
  <2>4. (p \in Positions(round) <=> r \in P) /\ (p \in Positions(back) <=> l \in P)
    BY <1>3
  <2>5. Bit(x, r) = (r \in P) /\ Bit(x, l) = (l \in P)
    <3> HIDE DEF r, l
    <3>1. r \in 0 .. size - 1 /\ l \in 0 .. size - 1
      BY <2>2, <2>3 DEF r, l
    <3> QED
      BY <1>4, <3>1
  <2> HIDE DEF r, l
  <2>6. BitAt(round, p) = Bit(x, r) /\ BitAt(back, p) = Bit(x, l)
    BY <1>5, <2>4, <2>5
  <2> QED
    BY <2>6 DEF r, l
<1>7. \A p \in 0 .. size - 1 : p \in 0 .. 0 + size - 1 /\ p - 0 = p
  BY <1>1
<1>8. /\ Rewritten(x, round, 0, size, LAMBDA q : Bit(x, (q + middle) % size))
      /\ Rewritten(x, back, 0, size, LAMBDA q : Bit(x, size - 1 - q))
  BY <1>6, <1>7 DEF Rewritten, size
<1> QED
  BY <1>2, <1>8 DEF TurnsOf, b, size, round, back

\* As the runs ask, but of every container, window, shift and middle.
EveryRewriteExact ==
    \A x \in Obj :
        /\ \A first, n \in Nat : first + n <= m_size[x] => RewritesOf(x, first, n)
        /\ \A n \in Nat : ShiftsOf(x, n) /\ TurnsOf(x, n)

\* In every state of a container, every algorithm that rewrites it in place,
\* a block at a time, leaves the bools that std's of the name would, no other
\* bool changed and no bit past the width set.
THEOREM RewritesLeave == Spec => [](RewritesExact /\ EveryRewriteExact)
<1>1. TypeOK /\ UnusedBitsClear => EveryRewriteExact
  BY WindowRewritten, Shifted, Turned DEF EveryRewriteExact
<1>2. ASSUME TypeOK, EveryRewriteExact
      PROVE  RewritesExact
  <2>1. ASSUME NEW x \in Obj, NEW w \in Window(m_size[x])
        PROVE  RewritesOf(x, w[1], w[2])
    <3>1. w[1] \in Nat /\ w[2] \in Nat /\ w[1] + w[2] <= m_size[x]
      BY DEF Window, Starts
    <3> QED
      BY <1>2, <3>1 DEF EveryRewriteExact
  <2>2. \A x \in Obj : m_size[x] \in Nat
    BY <1>2, BlocksType
  <2>3. \A x \in Obj : /\ \A n \in 0 .. m_size[x] + 1 : ShiftsOf(x, n)
                       /\ \A middle \in 0 .. m_size[x] : TurnsOf(x, middle)
    BY <1>2, <2>2 DEF EveryRewriteExact
  <2> QED
    BY <2>1, <2>3 DEF RewritesExact
<1> QED
  BY <1>1, <1>2, TypeCorrect, UnusedBitsStayClear, PTL

=============================================================================
