------------------------- MODULE BlockStorageProofs -------------------------
(***************************************************************************)
(* What the functions of BlockStorage and the scans of BlockScans return,  *)
(* for every block width.  First, that each keeps to blocks, and to as     *)
(* many as the width needs, and what it leaves in the unused tail.  Then   *)
(* what it does to the positions set: each is a function of sets of        *)
(* positions, with no blocks in sight, and a scan names the nearest of     *)
(* them.  The counts, the abstract bit string and the lookups of the       *)
(* readings are read off these.                                            *)
(***************************************************************************)
EXTENDS BlockStorage, BlockScans, FiniteSetTheorems, WellFoundedInduction, TLAPS

(***************************************************************************)
(* Arithmetic of positions: the quotient and the remainder by the digits   *)
(* of a block, which the constant width makes nonlinear.                   *)
(***************************************************************************)
\* index and offset split a position as xstd::div does, and uniquely.
LEMMA IndexOffset ==
    ASSUME NEW n \in Nat
    PROVE  /\ index(n) \in Nat
           /\ offset(n) \in Offset
           /\ n = index(n) * bits_per_block + offset(n)
BY BitsPerBlockAssumption DEF index, offset, Offset

\* A position is of one block and one offset.
LEMMA IndexOffsetUnique ==
    ASSUME NEW i \in Nat, NEW o \in Offset
    PROVE  index(i * bits_per_block + o) = i /\ offset(i * bits_per_block + o) = o
BY BitsPerBlockAssumption DEF index, offset, Offset

\* blocks_for rounds up: the blocks hold the width, with less than one to spare.
LEMMA BlocksForBounds ==
    ASSUME NEW n \in Nat
    PROVE  /\ blocks_for(n) \in Nat
           /\ n <= blocks_for(n) * bits_per_block
           /\ blocks_for(n) * bits_per_block < n + bits_per_block
<1> DEFINE q == n \div bits_per_block
           r == n % bits_per_block
<1>1. q \in Nat /\ r \in 0 .. bits_per_block - 1 /\ n = (q * bits_per_block) + r
  BY BitsPerBlockAssumption
<1>2. (q + 1) * bits_per_block = (q * bits_per_block) + bits_per_block
  BY <1>1, BitsPerBlockAssumption
<1>3. CASE r # 0
  <2>1. blocks_for(n) = q + 1
    BY <1>3 DEF blocks_for
  <2> QED
    BY <1>1, <1>2, <1>3, <2>1, BitsPerBlockAssumption
<1>4. CASE r = 0
  <2>1. blocks_for(n) = q
    BY <1>1, <1>4 DEF blocks_for
  <2> QED
    BY <1>1, <1>4, <2>1, BitsPerBlockAssumption
<1> QED
  BY <1>3, <1>4

\* And no other number of blocks does.
LEMMA BlocksForUnique ==
    ASSUME NEW n \in Nat, NEW k \in Nat,
           n <= k * bits_per_block, k * bits_per_block < n + bits_per_block
    PROVE  blocks_for(n) = k
<1> DEFINE j == blocks_for(n)
<1>1. /\ j \in Nat
      /\ n <= j * bits_per_block
      /\ j * bits_per_block < n + bits_per_block
  BY BlocksForBounds
<1>2. ~ (j < k)
  <2> SUFFICES ASSUME j < k PROVE FALSE
    OBVIOUS
  <2>1. k - j >= 1 /\ k * bits_per_block = (j * bits_per_block) + ((k - j) * bits_per_block)
    BY <1>1, BitsPerBlockAssumption
  <2>2. (k - j) * bits_per_block >= bits_per_block
    BY <1>1, <2>1, BitsPerBlockAssumption
  <2> QED
    BY <1>1, <2>1, <2>2, BitsPerBlockAssumption
<1>3. ~ (k < j)
  <2> SUFFICES ASSUME k < j PROVE FALSE
    OBVIOUS
  <2>1. j - k >= 1 /\ j * bits_per_block = (k * bits_per_block) + ((j - k) * bits_per_block)
    BY <1>1, BitsPerBlockAssumption
  <2>2. (j - k) * bits_per_block >= bits_per_block
    BY <1>1, <2>1, BitsPerBlockAssumption
  <2> QED
    BY <1>1, <2>1, <2>2, BitsPerBlockAssumption
<1> QED
  BY <1>1, <1>2, <1>3

\* Whole blocks need no block more.
LEMMA BlocksForWhole ==
    ASSUME NEW k \in Nat
    PROVE  blocks_for(k * bits_per_block) = k
<1>1. k * bits_per_block \in Nat
  BY BitsPerBlockAssumption
<1> QED
  BY <1>1, BlocksForUnique, BitsPerBlockAssumption

\* A block more of positions is a block more of storage.
LEMMA BlocksForOneMore ==
    ASSUME NEW n \in Nat
    PROVE  blocks_for(n + bits_per_block) = blocks_for(n) + 1
<1> DEFINE k == blocks_for(n)
<1>1. k \in Nat /\ n <= k * bits_per_block /\ k * bits_per_block < n + bits_per_block
  BY BlocksForBounds
<1>2. (k + 1) * bits_per_block = (k * bits_per_block) + bits_per_block
  BY <1>1, BitsPerBlockAssumption
<1> HIDE DEF k
<1>3. blocks_for(n + bits_per_block) = k + 1
  BY <1>1, <1>2, BlocksForUnique, BitsPerBlockAssumption
<1> QED
  BY <1>3 DEF k

\* A wider width never needs fewer blocks.
LEMMA BlocksForMonotone ==
    ASSUME NEW m \in Nat, NEW n \in Nat, m <= n
    PROVE  blocks_for(m) <= blocks_for(n)
<1> DEFINE j == blocks_for(m)
           k == blocks_for(n)
<1>1. /\ j \in Nat /\ j * bits_per_block < m + bits_per_block
      /\ k \in Nat /\ n <= k * bits_per_block
  BY BlocksForBounds
<1> HIDE DEF j, k
<1>2. ~ (k < j)
  <2> SUFFICES ASSUME k < j PROVE FALSE
    OBVIOUS
  <2>1. j - k >= 1 /\ j * bits_per_block = (k * bits_per_block) + ((j - k) * bits_per_block)
    BY <1>1, BitsPerBlockAssumption
  <2>2. (j - k) * bits_per_block >= bits_per_block
    BY <1>1, <2>1, BitsPerBlockAssumption
  <2> QED
    BY <1>1, <2>1, <2>2, BitsPerBlockAssumption
<1> QED
  BY <1>1, <1>2 DEF j, k

(***************************************************************************)
(* Blocks.                                                                 *)
(***************************************************************************)
LEMMA BlockOperators ==
    ASSUME NEW a, NEW b, NEW n
    PROVE  /\ shl(a, n) \in Block
           /\ shr(a, n) \in Block
           /\ reversed(a) \in Block
           /\ complement(a) \in Block
           /\ partial_block_mask(n) \in Block
           /\ zero \in Block /\ ones \in Block
           /\ b \in Block => b \cap a \in Block /\ b \ a \in Block
           /\ a \in Block /\ b \in Block => a \cup b \in Block /\ bit_xor(a, b) \in Block
BY DEF shl, shr, reversed, complement, partial_block_mask, zero, ones, Block, bit_xor

\* The number of blocks, the last of them and their width, read from the storage.
LEMMA NumBlocks ==
    ASSUME NEW k \in Nat, NEW b \in Storage(k)
    PROVE  /\ DOMAIN b = 0 .. k - 1
           /\ num_blocks(b) = k
           /\ last_block(b) = k - 1
           /\ num_bits(b) = k * bits_per_block
BY FS_Interval DEF Storage, num_blocks, last_block, num_bits

(***************************************************************************)
(* Storage: every function of a run of blocks is a run of blocks, as many. *)
(***************************************************************************)
LEMMA MaskedType ==
    ASSUME NEW k \in Nat, NEW b \in Storage(k), NEW size
    PROVE  erase_unused(b, size) \in Storage(k)
<1> DEFINE used == used_bits(b, size)
           l == last_block(b)
<1>1. erase_unused(b, size) \in {b, [b EXCEPT ![l] = @ \cap used]}
  BY DEF erase_unused
<1>2. \A i \in 0 .. k - 1 : b[i] \cap used \in Block
  BY BlockOperators DEF Storage
<1> QED
  BY <1>1, <1>2 DEF Storage

\* A write to one position keeps the number of blocks.
LEMMA PositionWrittenType ==
    ASSUME NEW k \in Nat, NEW b \in Storage(k), NEW n \in Nat
    PROVE  /\ bit_set(b, n) \in Storage(k)
           /\ bit_reset(b, n) \in Storage(k)
           /\ bit_flipped(b, n) \in Storage(k)
<1> DEFINE o == offset(n)
           i == index(n)
<1>1. {o} \in Block
  BY IndexOffset DEF Block
<1>2. \A j \in 0 .. k - 1 : /\ b[j] \cup {o} \in Block
                            /\ b[j] \ {o} \in Block
                            /\ bit_xor(b[j], {o}) \in Block
  BY <1>1, BlockOperators DEF Storage
<1> QED
  BY <1>2 DEF Storage, bit_set, bit_reset, bit_flipped

\* So does a drop of the lowest or highest position.
LEMMA ExtremeDroppedType ==
    ASSUME NEW k \in Nat, NEW b \in Storage(k)
    PROVE  front_dropped(b) \in Storage(k) /\ back_dropped(b) \in Storage(k)
<1>1. \A j \in 0 .. k - 1 : drop_lowest(b[j]) \in Block /\ drop_highest(b[j]) \in Block
  BY BlockOperators DEF Storage, drop_lowest, drop_highest
<1> QED
  BY <1>1 DEF Storage, front_dropped, back_dropped

\* So does a block written at any position.
LEMMA WrittenAtType ==
    ASSUME NEW k \in Nat, NEW b \in Storage(k), NEW n, NEW value, NEW mask \in Block
    PROVE  written_at(b, n, value, mask) \in Storage(k)
<1> DEFINE at    == index(n)
           up    == offset(n)
           shift == bits_per_block - up
           low   == (b[at] \ shl(mask, up)) \cup shl(value \cap mask, up)
           high  == (b[at + 1] \ shr(mask, shift)) \cup shr(value \cap mask, shift)
<1>1. at \in 0 .. k - 1 => low \in Block
  BY BlockOperators DEF Storage
<1>2. at + 1 \in 0 .. k - 1 => high \in Block
  BY BlockOperators DEF Storage
<1> HIDE DEF at, low, high
<1>3. [b EXCEPT ![at] = low] \in Storage(k)
  BY <1>1 DEF Storage
<1>4. [b EXCEPT ![at] = low, ![at + 1] = high] \in Storage(k)
  BY <1>1, <1>2 DEF Storage
<1> QED
  BY <1>3, <1>4 DEF written_at, at, low, high

\* So does a write to a range.
LEMMA RangeSetType ==
    ASSUME NEW k \in Nat, NEW b \in Storage(k), NEW n, NEW len, NEW value
    PROVE  range_set(b, n, len, value) \in Storage(k)
<1> DEFINE from_head == shl(ones, offset(n))
           to_tail   == shr(ones, left_bit - offset(n + len - 1))
           mask(i) == (IF i = index(n) THEN from_head ELSE ones) \cap
                      (IF i = index(n + len - 1) THEN to_tail ELSE ones)
<1>1. \A i : mask(i) \in Block
  <2>1. from_head \in Block /\ to_tail \in Block /\ ones \in Block
    BY BlockOperators
  <2> QED
    BY <2>1, BlockOperators
<1>2. \A i \in 0 .. k - 1 : b[i] \in Block /\ b[i] \cup mask(i) \in Block /\ b[i] \ mask(i) \in Block
  BY <1>1, BlockOperators DEF Storage
<1> QED
  BY <1>2 DEF Storage, range_set

\* So do the shifts.
LEMMA ShiftedType ==
    ASSUME NEW k \in Nat, NEW b \in Storage(k), NEW n \in Nat
    PROVE  shifted_up(b, n) \in Storage(k) /\ shifted_down(b, n) \in Storage(k)
<1> DEFINE q == n \div bits_per_block
<1>1. q \in Nat
  BY BitsPerBlockAssumption
<1>2. DOMAIN b = 0 .. k - 1 /\ last_block(b) = k - 1
  BY NumBlocks
<1>3. /\ \A i, L, R : straddled_block(b, i, L, R) \in Block
      /\ \A a, s : shl(a, s) \in Block /\ shr(a, s) \in Block
      /\ zero \in Block
  <2>1. \A a, s : shl(a, s) \in Block /\ shr(a, s) \in Block
    BY BlockOperators
  <2>2. \A a, c : a \in Block /\ c \in Block => a \cup c \in Block
    BY DEF Block
  <2> QED
    BY <2>1, <2>2, BlockOperators DEF straddled_block
<1> HIDE DEF q
<1>4. \A i \in 0 .. k - 1 : i >= q => b[i - q] \in Block
  BY <1>1 DEF Storage
<1>5. \A i \in 0 .. k - 1 : ~((k - 1) - q < i) => b[i + q] \in Block
  BY <1>1 DEF Storage
<1>6. \A i \in 0 .. k - 1 : shifted_up(b, n)[i] \in Block
  BY <1>1, <1>2, <1>3, <1>4 DEF shifted_up, q
<1>7. \A i \in 0 .. k - 1 : shifted_down(b, n)[i] \in Block
  BY <1>1, <1>2, <1>3, <1>5 DEF shifted_down, q
<1>8. /\ shifted_up(b, n) = [i \in 0 .. k - 1 |-> shifted_up(b, n)[i]]
      /\ shifted_down(b, n) = [i \in 0 .. k - 1 |-> shifted_down(b, n)[i]]
  BY <1>2 DEF shifted_up, shifted_down
<1> QED
  BY <1>6, <1>7, <1>8 DEF Storage

\* So does a rotation by whole blocks.
LEMMA BlocksRotatedType ==
    ASSUME NEW k \in Nat, NEW b \in Storage(k), NEW r
    PROVE  blocks_rotated_down(b, r) \in Storage(k)
BY BlockOperators DEF Storage, blocks_rotated_down, straddled_block

\* So does the closing of the padding a rotation leaves.
LEMMA PaddingClosedType ==
    ASSUME NEW k \in Nat, NEW b \in Storage(k), NEW size, NEW n
    PROVE  padding_closed(b, size, n) \in Storage(k)
BY DEF Storage, padding_closed, Block

\* A rotation that moves anything ends by masking the tail.
LEMMA RotatedMasked ==
    ASSUME NEW k \in Nat, NEW b \in Storage(k), NEW size \in Nat, NEW n \in Nat
    PROVE  \/ rotated(b, size, n) = b
           \/ \E c \in Storage(k) : rotated(b, size, n) = erase_unused(c, size)
<1> DEFINE m == modulo_width(n, size)
           q == m \div bits_per_block
           blockwise == [i \in DOMAIN b |-> b[(i + q) % num_blocks(b)]]
           turned == IF m % bits_per_block # 0
                     THEN blocks_rotated_down(blockwise, m % bits_per_block)
                     ELSE blockwise
           closed == IF has_unused_bits(b, size) THEN padding_closed(turned, size, m) ELSE turned
<1>1. m \in Nat
  BY DEF modulo_width
<1>2. q \in Nat
  BY <1>1, BitsPerBlockAssumption
<1>3. DOMAIN b = 0 .. k - 1 /\ num_blocks(b) = k
  BY NumBlocks
<1>4. blockwise \in Storage(k)
  <2> HIDE DEF q
  <2>1. \A i \in 0 .. k - 1 : (i + q) % k \in 0 .. k - 1
    BY <1>2
  <2> QED
    BY <1>3, <2>1 DEF Storage
<1> HIDE DEF blockwise
<1>5. turned \in Storage(k)
  BY <1>4, BlocksRotatedType
<1> HIDE DEF turned
<1>6. closed \in Storage(k)
  BY <1>5, PaddingClosedType
<1> HIDE DEF closed, m
<1>7. rotated_down(b, size, m) \in {b, erase_unused(closed, size)}
  BY DEF rotated_down, closed, turned, blockwise
<1> QED
  BY <1>6, <1>7 DEF rotated, m

\* So does a rotation.
LEMMA RotatedType ==
    ASSUME NEW k \in Nat, NEW b \in Storage(k), NEW size \in Nat, NEW n \in Nat
    PROVE  rotated(b, size, n) \in Storage(k)
BY RotatedMasked, MaskedType

\* So does a reversal.
LEMMA EndForEndType ==
    ASSUME NEW k \in Nat, NEW b \in Storage(k), NEW size
    PROVE  end_for_end(b, size) \in Storage(k)
<1> DEFINE turned == [i \in DOMAIN b |-> reversed(b[last_block(b) - i])]
<1>1. turned \in Storage(k)
  BY BlockOperators DEF Storage
<1> HIDE DEF turned
<1>2. end_for_end(b, size) \in {turned, blocks_rotated_down(turned, num_bits(b) - size)}
  BY DEF end_for_end, turned
<1> QED
  BY <1>1, <1>2, BlocksRotatedType

\* So do the writes to every position.
LEMMA WholeWrittenType ==
    ASSUME NEW k \in Nat, NEW b \in Storage(k), NEW size
    PROVE  /\ all_set(b, size) \in Storage(k)
           /\ all_reset(b) \in Storage(k)
           /\ all_flipped(b, size) \in Storage(k)
<1>1. [i \in DOMAIN b |-> ones] \in Storage(k)
  BY BlockOperators DEF Storage
<1>2. [i \in DOMAIN b |-> complement(b[i])] \in Storage(k)
  BY BlockOperators DEF Storage
<1>3. all_reset(b) \in Storage(k)
  BY BlockOperators DEF Storage, all_reset
<1> QED
  BY <1>1, <1>2, <1>3, MaskedType DEF all_set, all_flipped

\* A resized vector of blocks holds as many as it was given.
LEMMA BlocksResizedType ==
    ASSUME NEW k \in Nat, NEW b \in Storage(k), NEW l \in Nat, NEW fill \in Block
    PROVE  blocks_resized(b, l, fill) \in Storage(l)
BY NumBlocks DEF Storage, blocks_resized

\* A resize, either way and with either fill, ends by masking the new tail.
LEMMA ResizedMasked ==
    ASSUME NEW k \in Nat, NEW b \in Storage(k), NEW size \in Nat, NEW n \in Nat, NEW value
    PROVE  \E c \in Storage(blocks_for(n)) : resized(b, size, n, value) = erase_unused(c, n)
<1> DEFINE l    == blocks_for(n)
           tail == complement(used_bits(b, size))
           old  == last_block(b)
           with_ones == blocks_resized(b, l, ones)
           grown == IF has_unused_bits(b, size)
                    THEN [with_ones EXCEPT ![old] = @ \cup tail]
                    ELSE with_ones
           shrunk == blocks_resized(b, l, zero)
<1>1. l \in Nat
  BY BlocksForBounds
<1> HIDE DEF l
<1>2. with_ones \in Storage(l) /\ shrunk \in Storage(l)
  BY <1>1, BlocksResizedType, BlockOperators
<1>3. tail \in Block
  BY BlockOperators
<1> HIDE DEF with_ones, shrunk, tail
<1>4. grown \in Storage(l)
  <2>1. \A i \in 0 .. l - 1 : with_ones[i] \cup tail \in Block
    BY <1>2, <1>3, BlockOperators DEF Storage
  <2> QED
    BY <1>2, <2>1 DEF Storage
<1> HIDE DEF grown
<1>5. resized(b, size, n, value) \in {erase_unused(grown, n), erase_unused(shrunk, n)}
  BY DEF resized, grown, shrunk, with_ones, tail, l
<1> QED
  BY <1>2, <1>4, <1>5 DEF l

\* A resize leaves the blocks its new width needs.
LEMMA ResizedType ==
    ASSUME NEW k \in Nat, NEW b \in Storage(k), NEW size \in Nat, NEW n \in Nat, NEW value
    PROVE  resized(b, size, n, value) \in Storage(blocks_for(n))
BY ResizedMasked, MaskedType, BlocksForBounds

\* An append adds one block.
LEMMA AppendedType ==
    ASSUME NEW k \in Nat, NEW b \in Storage(k), NEW size, NEW value \in Block
    PROVE  appended(b, size, value) \in Storage(k + 1)
<1>1. num_blocks(b) = k
  BY NumBlocks
<1>2. \A i \in 0 .. k - 1 : \A s : b[i] \in Block /\ b[i] \cup shl(value, s) \in Block
  BY BlockOperators DEF Storage
<1>3. \A s : shr(value, s) \in Block
  BY BlockOperators
<1>4. appended(b, size, value) =
        [i \in 0 .. k |->
            IF i = k THEN IF offset(size) # 0 THEN shr(value, bits_per_block - offset(size)) ELSE value
            ELSE IF i = k - 1 /\ offset(size) # 0 THEN b[i] \cup shl(value, offset(size))
            ELSE b[i]]
  BY <1>1 DEF appended
<1> QED
  BY <1>2, <1>3, <1>4 DEF Storage

(***************************************************************************)
(* The extremes of a set of offsets or of blocks, which the library states *)
(* by CHOOSE: that they are there to be chosen.                            *)
(***************************************************************************)
LEMMA MinExists ==
    ASSUME NEW S \in SUBSET Nat, S # {}
    PROVE  Min(S) \in S /\ \A s \in S : Min(S) <= s
<1> DEFINE R == OpToRel(<, Nat)
<1>1. IsWellFoundedOn(R, Nat)
  BY NatLessThanWellFounded
<1>2. \A x, y \in Nat : x < y => <<x, y>> \in R
  BY DEF OpToRel
<1> HIDE DEF R
<1>3. PICK s \in S : \A t \in S : <<t, s>> \notin R
  BY <1>1, WFMin
<1>4. \A t \in S : s <= t
  <2> SUFFICES ASSUME NEW t \in S PROVE s <= t
    OBVIOUS
  <2>1. s \in Nat /\ t \in Nat /\ ~ (t < s)
    BY <1>2, <1>3
  <2> QED
    BY <2>1
<1> QED
  BY <1>3, <1>4 DEF Min

\* The maximum of a bounded set is its member, and none is above it.
LEMMA MaxExists ==
    ASSUME NEW m \in Nat, NEW S \in SUBSET (0 .. m), S # {}
    PROVE  Max(S) \in S /\ \A s \in S : s <= Max(S)
<1> DEFINE T == {m - s : s \in S}
<1>0. \A s \in S : s \in 0 .. m
  OBVIOUS
<1>1. T \in SUBSET Nat /\ T # {}
  <2>1. \A s \in S : m - s \in Nat
    BY <1>0
  <2> QED
    BY <2>1
<1>2. Min(T) \in T /\ \A t \in T : Min(T) <= t
  BY <1>1, MinExists
<1>3. PICK s \in S : Min(T) = m - s
  BY <1>2
<1>4. \A t \in S : t <= s
  <2> SUFFICES ASSUME NEW t \in S PROVE t <= s
    OBVIOUS
  <2>1. m - s <= m - t
    BY <1>2, <1>3
  <2> QED
    BY <1>0, <2>1
<1> QED
  BY <1>3, <1>4 DEF Max

\* The lesser of two numbers.
LEMMA LesserOf ==
    ASSUME NEW a \in Int, NEW b \in Int
    PROVE  Min({a, b}) \in {a, b} /\ Min({a, b}) <= a /\ Min({a, b}) <= b
<1>1. \E m \in {a, b} : \A s \in {a, b} : m <= s
  OBVIOUS
<1>2. Min({a, b}) \in {a, b} /\ \A s \in {a, b} : Min({a, b}) <= s
  BY <1>1 DEF Min
<1> QED
  BY <1>2

\* And the greater.
LEMMA GreaterOf ==
    ASSUME NEW a \in Int, NEW b \in Int
    PROVE  Max({a, b}) \in {a, b} /\ a <= Max({a, b}) /\ b <= Max({a, b})
<1>1. \E m \in {a, b} : \A s \in {a, b} : s <= m
  OBVIOUS
<1>2. Max({a, b}) \in {a, b} /\ \A s \in {a, b} : s <= Max({a, b})
  BY <1>1 DEF Max
<1> QED
  BY <1>2

\* The lowest and highest set offsets of a block that is not zero.
LEMMA BlockExtremes ==
    ASSUME NEW b \in Block, b # zero
    PROVE  /\ countr_zero(b) \in b
           /\ left_bit - countl_zero(b) \in b
           /\ \A o \in b : countr_zero(b) <= o /\ o <= left_bit - countl_zero(b)
<1>1. b \in SUBSET (0 .. left_bit) /\ left_bit \in Nat /\ b # {}
  BY BitsPerBlockAssumption DEF Block, Offset, left_bit, zero
<1>2. Min(b) \in b /\ \A o \in b : Min(b) <= o
  BY <1>1, MinExists
<1>3. Max(b) \in b /\ \A o \in b : o <= Max(b)
  BY <1>1, MaxExists
<1>4. left_bit - (left_bit - Max(b)) = Max(b)
  <2>1. Max(b) \in 0 .. left_bit
    BY <1>1, <1>3
  <2> QED
    BY <1>1, <2>1
<1> QED
  BY <1>2, <1>3, <1>4 DEF countr_zero, countl_zero

\* find_front and find_back name the least and the greatest position set.
LEMMA BlockEnds ==
    ASSUME NEW k \in Nat, NEW b \in Storage(k), any(b)
    PROVE  /\ front_block(b) \in 0 .. k - 1 /\ b[front_block(b)] # zero
           /\ back_block(b) \in 0 .. k - 1 /\ b[back_block(b)] # zero
           /\ \A i \in 0 .. k - 1 : b[i] # zero => front_block(b) <= i /\ i <= back_block(b)
<1> DEFINE S == {i \in DOMAIN b : b[i] # zero}
<1>1. DOMAIN b = 0 .. k - 1
  BY NumBlocks
<1>2. S \in SUBSET (0 .. k) /\ S # {}
  BY <1>1 DEF any
<1>3. Min(S) \in S /\ \A i \in S : Min(S) <= i
  BY <1>2, MinExists
<1>4. Max(S) \in S /\ \A i \in S : i <= Max(S)
  BY <1>2, MaxExists
<1> QED
  BY <1>1, <1>3, <1>4 DEF front_block, back_block

\* The highest position is a natural number, of the last block that is not zero.
LEMMA FindBackType ==
    ASSUME NEW k \in Nat, NEW b \in Storage(k), any(b)
    PROVE  /\ find_back(b) \in Nat
           /\ find_back(b) = (back_block(b) * bits_per_block) + left_bit - countl_zero(b[back_block(b)])
<1> DEFINE i == back_block(b)
           o == left_bit - countl_zero(b[i])
<1>1. i \in Nat /\ b[i] # zero /\ b[i] \in Block
  BY BlockEnds DEF Storage
<1>2. o \in Offset
  BY <1>1, BlockExtremes DEF Block
<1>3. countl_zero(b[i]) \in Int
  <2>1. Max(b[i]) \in b[i]
    BY <1>1, MaxExists, BitsPerBlockAssumption DEF Block, Offset, zero
  <2> QED
    BY <1>1, <2>1, BitsPerBlockAssumption DEF countl_zero, left_bit, Block, Offset
<1>4. left_bit \in Int
  BY BitsPerBlockAssumption DEF left_bit
<1> HIDE DEF i
<1>5. find_back(b) = (bits_per_block * i) + o
  BY <1>1, <1>3, <1>4, BitsPerBlockAssumption DEF find_back, i
<1> QED
  BY <1>1, <1>2, <1>3, <1>4, <1>5, BitsPerBlockAssumption DEF i, Offset

(***************************************************************************)
(* Counts are natural numbers: what they count is finite.                  *)
(***************************************************************************)
LEMMA CountInType ==
    ASSUME NEW b, NEW n \in Int, NEW len \in Int
    PROVE  count_in(b, n, len) \in Nat
<1>1. IsFiniteSet(n .. n + len - 1)
  BY FS_Interval
<1>2. PositionsIn(b, n, len) \in SUBSET (n .. n + len - 1)
  BY DEF PositionsIn
<1>3. IsFiniteSet(PositionsIn(b, n, len))
  BY <1>1, <1>2, FS_Subset
<1> QED
  BY <1>3, FS_CardinalityType DEF count_in

\* A count of positions is a natural number.
LEMMA CountBlocksType ==
    ASSUME NEW k \in Nat, NEW b \in Storage(k)
    PROVE  count_blocks(b) \in Nat
<1>1. num_bits(b) \in Int
  BY NumBlocks, BitsPerBlockAssumption
<1>2. IsFiniteSet(0 .. num_bits(b) - 1)
  BY <1>1, FS_Interval
<1>3. Positions(b) \in SUBSET (0 .. num_bits(b) - 1)
  BY DEF Positions
<1>4. IsFiniteSet(Positions(b))
  BY <1>2, <1>3, FS_Subset
<1> QED
  BY <1>4, FS_CardinalityType DEF count_blocks

\* So is the count of one block.
LEMMA PopcountType ==
    ASSUME NEW b \in Block
    PROVE  popcount(b) \in Nat
<1>1. IsFiniteSet(Offset)
  BY FS_Interval, BitsPerBlockAssumption DEF Offset
<1>2. IsFiniteSet(b)
  BY <1>1, FS_Subset DEF Block
<1> QED
  BY <1>2, FS_CardinalityType DEF popcount

(***************************************************************************)
(* The unused-tail invariant, one function at a time: what each leaves at  *)
(* or above the width, for every block width.  The writers that mask are   *)
(* safe whatever they were given; the rest are safe because the tail was   *)
(* clear before, which is what makes the invariant inductive.              *)
(***************************************************************************)
\* Every position of a block lies below those of the next.
LEMMA BlockBelow ==
    ASSUME NEW i \in Nat, NEW j \in Nat, i < j, NEW o \in Offset
    PROVE  i * bits_per_block + o < j * bits_per_block
<1>1. (i + 1) * bits_per_block = (i * bits_per_block) + bits_per_block
  BY BitsPerBlockAssumption
<1>2. (i + 1) * bits_per_block <= j * bits_per_block
  BY BitsPerBlockAssumption
<1> QED
  BY <1>1, <1>2, BitsPerBlockAssumption DEF Offset

\* The last block a width needs is the one that may hold unused bits.
LEMMA LastBlockBounds ==
    ASSUME NEW size \in Nat, NEW k \in Nat, k = blocks_for(size)
    PROVE  /\ size <= k * bits_per_block
           /\ k * bits_per_block < size + bits_per_block
           /\ k # 0 => k * bits_per_block = ((k - 1) * bits_per_block) + bits_per_block
           /\ \A i \in 0 .. k - 2, o \in Offset : i * bits_per_block + o < size
<1>1. size <= k * bits_per_block /\ k * bits_per_block < size + bits_per_block
  BY BlocksForBounds
<1>2. k # 0 => k * bits_per_block = ((k - 1) * bits_per_block) + bits_per_block
  BY BitsPerBlockAssumption
<1>3. ASSUME NEW i \in 0 .. k - 2, NEW o \in Offset PROVE i * bits_per_block + o < size
  <2>1. i * bits_per_block + o < (k - 1) * bits_per_block
    BY BlockBelow
  <2>2. (k - 1) * bits_per_block < size
    BY <1>1, <1>2, BitsPerBlockAssumption
  <2> QED
    BY <2>1, <2>2, BitsPerBlockAssumption DEF Offset
<1> QED
  BY <1>1, <1>2, <1>3

\* The last block alone decides: nothing of it at or above the width.
LEMMA TailInLastBlock ==
    ASSUME NEW size \in Nat, NEW b \in Storage(blocks_for(size)),
           blocks_for(size) # 0 =>
               \A o \in b[blocks_for(size) - 1] :
                   ((blocks_for(size) - 1) * bits_per_block) + o < size
    PROVE  TailClear(b, size)
<1> DEFINE k == blocks_for(size)
<1>1. k \in Nat /\ DOMAIN b = 0 .. k - 1
  BY BlocksForBounds, NumBlocks
<1>2. \A i \in 0 .. k - 1 : b[i] \subseteq Offset
  BY DEF Storage, Block
<1>3. \A i \in 0 .. k - 2, o \in Offset : i * bits_per_block + o < size
  BY <1>1, LastBlockBounds
<1> HIDE DEF k
<1> SUFFICES ASSUME NEW i \in 0 .. k - 1, NEW o \in b[i]
             PROVE  i * bits_per_block + o < size
  BY <1>1 DEF TailClear
<1>4. CASE i = k - 1
  BY <1>1, <1>4 DEF k
<1>5. CASE i # k - 1
  BY <1>1, <1>2, <1>3, <1>5
<1> QED
  BY <1>4, <1>5

\* The mask clears the tail, whatever the blocks held.
LEMMA MaskedTail ==
    ASSUME NEW size \in Nat, NEW b \in Storage(blocks_for(size))
    PROVE  TailClear(erase_unused(b, size), size)
<1> DEFINE k == blocks_for(size)
           c == erase_unused(b, size)
<1>1. /\ k \in Nat /\ DOMAIN b = 0 .. k - 1
      /\ last_block(b) = k - 1 /\ num_bits(b) = k * bits_per_block
  BY BlocksForBounds, NumBlocks
<1>2. /\ size <= k * bits_per_block /\ k * bits_per_block < size + bits_per_block
      /\ k # 0 => k * bits_per_block = ((k - 1) * bits_per_block) + bits_per_block
  BY <1>1, LastBlockBounds
<1>3. c \in Storage(k)
  BY <1>1, MaskedType
<1>4. ASSUME k # 0, NEW o \in c[k - 1]
      PROVE  ((k - 1) * bits_per_block) + o < size
  <2>1. o \in Offset
    BY <1>1, <1>3, <1>4 DEF Storage, Block
  <2>2. CASE num_bits(b) = size
    BY <1>1, <1>2, <1>4, <2>1, <2>2, BitsPerBlockAssumption DEF Offset
  <2>3. CASE num_bits(b) # size
    <3>1. c[k - 1] = b[k - 1] \cap used_bits(b, size)
      BY <1>1, <1>4, <2>3 DEF erase_unused, has_unused_bits
    <3>2. o + (num_bits(b) - size) \in Offset
      BY <1>4, <3>1 DEF used_bits, shr, ones
    <3> HIDE DEF k, c
    <3> QED
      BY <1>1, <1>2, <1>4, <2>1, <3>2, BitsPerBlockAssumption DEF Offset
  <2> QED
    BY <2>2, <2>3
<1> QED
  BY <1>3, <1>4, TailInLastBlock

\* Bits cleared leave a clear tail clear.
LEMMA SubsetTail ==
    ASSUME NEW k \in Nat, NEW b \in Storage(k), NEW c \in Storage(k), NEW size,
           TailClear(b, size), \A i \in 0 .. k - 1 : c[i] \subseteq b[i]
    PROVE  TailClear(c, size)
BY NumBlocks DEF TailClear

\* A write to a position of the width keeps the tail clear.
LEMMA PositionWrittenTail ==
    ASSUME NEW k \in Nat, NEW b \in Storage(k), NEW size \in Nat, TailClear(b, size),
           NEW n \in Nat, n < size
    PROVE  /\ TailClear(bit_set(b, n), size)
           /\ TailClear(bit_reset(b, n), size)
           /\ TailClear(bit_flipped(b, n), size)
<1>1. n = index(n) * bits_per_block + offset(n)
  BY IndexOffset
<1>2. DOMAIN b = 0 .. k - 1
  BY NumBlocks
<1>3. ASSUME NEW c, DOMAIN c = 0 .. k - 1,
             \A i \in 0 .. k - 1 : c[i] \subseteq IF i = index(n) THEN b[i] \cup {offset(n)} ELSE b[i]
      PROVE  TailClear(c, size)
  BY <1>1, <1>2, <1>3 DEF TailClear
<1>4. bit_set(b, n) = [b EXCEPT ![index(n)] = b[index(n)] \cup {offset(n)}]
  BY DEF bit_set
<1>5. bit_reset(b, n) = [b EXCEPT ![index(n)] = b[index(n)] \ {offset(n)}]
  BY DEF bit_reset
<1>6. bit_flipped(b, n) = [b EXCEPT ![index(n)] = bit_xor(b[index(n)], {offset(n)})]
  BY DEF bit_flipped
<1>7. TailClear(bit_set(b, n), size)
  BY <1>2, <1>3, <1>4
<1>8. TailClear(bit_reset(b, n), size)
  BY <1>2, <1>3, <1>5
<1>9. TailClear(bit_flipped(b, n), size)
  BY <1>2, <1>3, <1>6 DEF bit_xor
<1> QED
  BY <1>7, <1>8, <1>9

\* A drop keeps the tail clear: it only clears.
LEMMA ExtremeDroppedTail ==
    ASSUME NEW k \in Nat, NEW b \in Storage(k), NEW size, TailClear(b, size)
    PROVE  TailClear(front_dropped(b), size) /\ TailClear(back_dropped(b), size)
<1>1. front_dropped(b) \in Storage(k) /\ back_dropped(b) \in Storage(k)
  BY ExtremeDroppedType
<1>2. \A i \in 0 .. k - 1 : front_dropped(b)[i] \subseteq b[i] /\ back_dropped(b)[i] \subseteq b[i]
  BY NumBlocks DEF front_dropped, back_dropped, drop_lowest, drop_highest
<1> QED
  BY <1>1, <1>2, SubsetTail

\* Where every bit of the blocks is a position, there is no tail.
LEMMA NoTail ==
    ASSUME NEW k \in Nat, NEW b \in Storage(k)
    PROVE  TailClear(b, k * bits_per_block)
<1>1. DOMAIN b = 0 .. k - 1 /\ \A i \in 0 .. k - 1 : b[i] \subseteq Offset
  BY NumBlocks DEF Storage, Block
<1> QED
  BY <1>1, BlockBelow DEF TailClear

\* Positions all below a width are a tail clear from it.
LEMMA PositionsTail ==
    ASSUME NEW k \in Nat, NEW b \in Storage(k), NEW size \in Nat,
           \A p \in Positions(b) : p < size
    PROVE  TailClear(b, size)
<1>1. /\ DOMAIN b = 0 .. k - 1 /\ num_bits(b) = k * bits_per_block
      /\ \A i \in 0 .. k - 1 : b[i] \subseteq Offset
  BY NumBlocks DEF Storage, Block
<1> SUFFICES ASSUME NEW i \in 0 .. k - 1, NEW o \in b[i]
             PROVE  i * bits_per_block + o < size
  BY <1>1 DEF TailClear
<1> DEFINE p == i * bits_per_block + o
<1>2. o \in Offset /\ p < k * bits_per_block
  BY <1>1, BlockBelow
<1>3. p \in 0 .. (k * bits_per_block) - 1
  BY <1>2, BitsPerBlockAssumption DEF Offset
<1>4. index(p) = i /\ offset(p) = o
  BY <1>2, IndexOffsetUnique
<1> HIDE DEF p
<1>5. p \in Positions(b)
  BY <1>1, <1>3, <1>4 DEF Positions, BitAt
<1> QED
  BY <1>5 DEF p

\* The writes to every position mask what they write past the width.
LEMMA WholeWrittenTail ==
    ASSUME NEW size \in Nat, NEW b \in Storage(blocks_for(size))
    PROVE  /\ TailClear(all_set(b, size), size)
           /\ TailClear(all_reset(b), size)
           /\ TailClear(all_flipped(b, size), size)
<1> DEFINE k == blocks_for(size)
<1>1. k \in Nat
  BY BlocksForBounds
<1>2. [i \in DOMAIN b |-> ones] \in Storage(k)
  BY BlockOperators DEF Storage
<1>3. [i \in DOMAIN b |-> complement(b[i])] \in Storage(k)
  BY BlockOperators DEF Storage
<1>4. TailClear(all_reset(b), size)
  BY DEF all_reset, TailClear, zero
<1> QED
  BY <1>2, <1>3, <1>4, MaskedTail DEF all_set, all_flipped

\* A resize leaves a clear tail, narrower or wider, filled or not.
LEMMA ResizedTail ==
    ASSUME NEW k \in Nat, NEW b \in Storage(k), NEW size \in Nat, NEW n \in Nat, NEW value
    PROVE  TailClear(resized(b, size, n, value), n)
BY ResizedMasked, MaskedTail

\* A rotation closes its padding, and so leaves a clear tail.
LEMMA RotatedTail ==
    ASSUME NEW size \in Nat, NEW b \in Storage(blocks_for(size)), TailClear(b, size), NEW n \in Nat
    PROVE  TailClear(rotated(b, size, n), size)
BY RotatedMasked, MaskedTail, BlocksForBounds

\* A masked write reaches no further than its mask does.
LEMMA WrittenAtTail ==
    ASSUME NEW k \in Nat, NEW b \in Storage(k), NEW size \in Nat, TailClear(b, size),
           NEW n \in Nat, n < size, NEW value, NEW mask \in Block,
           n + bits_per_block <= size \/ shr(mask, size - n) = zero
    PROVE  TailClear(written_at(b, n, value, mask), size)
<1> DEFINE at   == index(n)
           up   == offset(n)
           low  == (b[at] \ shl(mask, up)) \cup shl(value \cap mask, up)
           down == bits_per_block - up
           high == (b[at + 1] \ shr(mask, down)) \cup shr(value \cap mask, down)
<1>1. at \in Nat /\ up \in Offset /\ n = (at * bits_per_block) + up
  BY IndexOffset
<1>2. (at + 1) * bits_per_block = (at * bits_per_block) + bits_per_block
  BY <1>1, BitsPerBlockAssumption
<1>3. mask \subseteq Offset
  BY DEF Block
<1>4. \A m \in mask : n + m < size
  <2> SUFFICES ASSUME NEW m \in mask, ~(n + m < size) PROVE FALSE
    OBVIOUS
  <2>1. m \in 0 .. bits_per_block - 1
    BY <1>3 DEF Offset
  <2>2. shr(mask, size - n) = zero
    BY <2>1, BitsPerBlockAssumption
  <2>3. m - (size - n) \in Offset /\ (m - (size - n)) + (size - n) = m
    BY <2>1, BitsPerBlockAssumption DEF Offset
  <2>4. m - (size - n) \in shr(mask, size - n)
    BY <2>3 DEF shr
  <2> QED
    BY <2>2, <2>4 DEF zero
<1>5. \A o \in low : o \in b[at] \/ (at * bits_per_block) + o < size
  <2> SUFFICES ASSUME NEW o \in shl(mask, up) PROVE (at * bits_per_block) + o < size
    BY DEF shl
  <2>1. o \in Offset /\ o - up \in mask
    BY DEF shl
  <2>2. n + (o - up) < size
    BY <1>4, <2>1
  <2> HIDE DEF at, up
  <2> QED
    BY <1>1, <2>1, <2>2, BitsPerBlockAssumption DEF Offset
<1>6. \A o \in high : o \in b[at + 1] \/ ((at + 1) * bits_per_block) + o < size
  <2> SUFFICES ASSUME NEW o \in shr(mask, down) PROVE ((at + 1) * bits_per_block) + o < size
    BY DEF shr
  <2>1. o \in Offset /\ o + down \in mask
    BY DEF shr
  <2>2. n + (o + down) < size
    BY <1>4, <2>1
  <2> HIDE DEF at, up
  <2> QED
    BY <1>1, <1>2, <2>1, <2>2, BitsPerBlockAssumption DEF Offset
<1>7. DOMAIN b = 0 .. k - 1
  BY NumBlocks
<1> DEFINE c == written_at(b, n, value, mask)
<1>8. /\ DOMAIN c = 0 .. k - 1
      /\ \A i \in 0 .. k - 1 :
            \/ c[i] = b[i]
            \/ i = at /\ c[i] = low
            \/ i = at + 1 /\ c[i] = high
  <2>1. c \in {[b EXCEPT ![at] = low], [b EXCEPT ![at] = low, ![at + 1] = high]}
    BY DEF written_at
  <2> HIDE DEF at, low, high, c
  <2> QED
    BY <1>7, <2>1
<1> HIDE DEF c, at, low, high
<1> SUFFICES ASSUME NEW i \in 0 .. k - 1, NEW o \in c[i]
             PROVE  i * bits_per_block + o < size
  BY <1>8 DEF TailClear, c
<1>9. \A p \in b[i] : i * bits_per_block + p < size
  BY <1>7 DEF TailClear
<1> QED
  BY <1>5, <1>6, <1>8, <1>9

\* A range within the width keeps the tail clear.
LEMMA RangeSetTail ==
    ASSUME NEW k \in Nat, NEW b \in Storage(k), NEW size \in Nat, TailClear(b, size),
           NEW n \in Nat, NEW len \in Nat, n + len <= size, NEW value
    PROVE  TailClear(range_set(b, n, len, value), size)
<1> DEFINE first == index(n)
           end   == n + len - 1
           last  == index(end)
           to_tail == shr(ones, left_bit - offset(end))
           mask(i) == (IF i = first THEN shl(ones, offset(n)) ELSE ones) \cap
                      (IF i = last  THEN to_tail ELSE ones)
           c == range_set(b, n, len, value)
<1>1. CASE len = 0
  BY <1>1 DEF range_set
<1>2. CASE len # 0
  <2>1. DOMAIN b = 0 .. k - 1
    BY NumBlocks
  <2>2. end \in Nat /\ end < size
    BY <1>2
  <2>3. /\ DOMAIN c = 0 .. k - 1
        /\ \A i \in 0 .. k - 1 : c[i] \subseteq b[i] \/ (~(last < i) /\ c[i] \subseteq b[i] \cup mask(i))
    BY <1>2, <2>1 DEF range_set
  <2>4. last \in Nat /\ offset(end) \in Offset /\ end = (last * bits_per_block) + offset(end)
    BY <2>2, IndexOffset
  <2> SUFFICES ASSUME NEW i \in 0 .. k - 1, NEW o \in c[i]
               PROVE  i * bits_per_block + o < size
    BY <2>3 DEF TailClear
  <2>5. CASE o \in b[i]
    BY <2>1, <2>5 DEF TailClear
  <2>6. CASE ~(last < i) /\ o \in mask(i)
    <3>1. CASE i = last
      <4>1. o \in to_tail
        BY <2>6, <3>1
      <4>2. o \in Offset /\ o + (left_bit - offset(end)) \in Offset
        BY <4>1 DEF shr, ones
      <4> HIDE DEF last, end
      <4> QED
        BY <2>2, <2>4, <3>1, <4>2, BitsPerBlockAssumption DEF Offset, left_bit
    <3>2. CASE i # last
      <4>1. o \in Offset
        BY <2>6 DEF shl, shr, ones
      <4>2. i * bits_per_block + o < last * bits_per_block
        BY <2>4, <2>6, <3>2, <4>1, BlockBelow
      <4> HIDE DEF last, end
      <4> QED
        BY <2>2, <2>4, <4>1, <4>2, BitsPerBlockAssumption DEF Offset
    <3> QED
      BY <3>1, <3>2
  <2> QED
    BY <2>3, <2>5, <2>6
<1> QED
  BY <1>1, <1>2

\* A shift towards position 0 moves every bit further below the width.
LEMMA ShiftedDownTail ==
    ASSUME NEW k \in Nat, NEW b \in Storage(k), NEW size \in Nat, TailClear(b, size),
           NEW n \in Nat
    PROVE  TailClear(shifted_down(b, n), size)
<1> DEFINE q == n \div bits_per_block
           r == n % bits_per_block
           left == bits_per_block - r
           c == shifted_down(b, n)
<1>1. q \in Nat /\ r \in 0 .. bits_per_block - 1
  BY BitsPerBlockAssumption
<1>2. DOMAIN b = 0 .. k - 1 /\ last_block(b) = k - 1
  BY NumBlocks
<1>3. \A j \in 0 .. k - 1, o \in Int : o \in b[j] => j * bits_per_block + o < size
  BY <1>2 DEF TailClear
<1> HIDE DEF q, r
<1>4. /\ DOMAIN c = 0 .. k - 1
      /\ \A i \in 0 .. k - 1 :
            c[i] = IF (k - 1) - q < i THEN zero
                   ELSE IF r = 0 THEN b[i + q]
                   ELSE IF i = (k - 1) - q THEN shr(b[k - 1], r)
                   ELSE straddled_block(b, i + q, left, r)
  BY <1>2 DEF shifted_down, q, r
<1> HIDE DEF c
<1> SUFFICES ASSUME NEW i \in 0 .. k - 1, NEW o \in c[i]
             PROVE  i * bits_per_block + o < size
  BY <1>4 DEF TailClear, c
<1>5. ~((k - 1) - q < i) /\ i + q \in 0 .. k - 1
  BY <1>1, <1>4 DEF zero
<1>6. \A j \in 0 .. k - 1 : b[j] \subseteq Offset
  BY DEF Storage, Block
<1>7. /\ (i + q) * bits_per_block = (i * bits_per_block) + (q * bits_per_block)
      /\ q * bits_per_block \in Nat
      /\ (i + q + 1) * bits_per_block = ((i + q) * bits_per_block) + bits_per_block
  BY <1>1, BitsPerBlockAssumption
<1>8. CASE r = 0
  <2>1. o \in b[i + q] /\ o \in Int
    BY <1>4, <1>5, <1>6, <1>8, BitsPerBlockAssumption DEF Offset
  <2>2. (i + q) * bits_per_block + o < size
    BY <1>3, <1>5, <2>1
  <2> QED
    BY <1>1, <1>7, <2>1, <2>2, BitsPerBlockAssumption
<1>9. CASE o \in shr(b[i + q], r)
  <2>1. o \in Offset /\ o + r \in b[i + q]
    BY <1>9 DEF shr
  <2>2. (i + q) * bits_per_block + (o + r) < size
    BY <1>1, <1>3, <1>5, <2>1 DEF Offset
  <2> QED
    BY <1>1, <1>7, <2>1, <2>2, BitsPerBlockAssumption DEF Offset
<1>10. CASE i + q + 1 \in 0 .. k - 1 /\ o \in shl(b[i + q + 1], left)
  <2>1. o \in Offset /\ o - left \in b[i + q + 1]
    BY <1>10 DEF shl
  <2>2. (i + q + 1) * bits_per_block + (o - left) < size
    BY <1>1, <1>3, <1>10, <2>1, BitsPerBlockAssumption DEF Offset
  <2> QED
    BY <1>1, <1>7, <2>1, <2>2, BitsPerBlockAssumption DEF Offset
<1>11. CASE r # 0
  <2>1. CASE i = (k - 1) - q
    <3>1. i + q = k - 1
      BY <1>1, <2>1
    <3> QED
      BY <1>4, <1>5, <1>9, <1>11, <2>1, <3>1
  <2>2. CASE i # (k - 1) - q
    <3>1. c[i] = straddled_block(b, i + q, left, r) /\ i + q + 1 \in 0 .. k - 1
      BY <1>1, <1>4, <1>5, <1>11, <2>2
    <3> QED
      BY <1>9, <1>10, <3>1 DEF straddled_block
  <2> QED
    BY <2>1, <2>2
<1> QED
  BY <1>8, <1>11

\* Reversed, the unused bits are the low ones of the first block, all clear,
\* and the rotation that follows is by as many.
LEMMA EndForEndTail ==
    ASSUME NEW size \in Nat, NEW b \in Storage(blocks_for(size)), TailClear(b, size)
    PROVE  TailClear(end_for_end(b, size), size)
<1> DEFINE k == blocks_for(size)
           u == k * bits_per_block - size
           turned == [i \in DOMAIN b |-> reversed(b[last_block(b) - i])]
           down == bits_per_block - u
           c == blocks_rotated_down(turned, u)
<1>1. /\ k \in Nat /\ DOMAIN b = 0 .. k - 1
      /\ last_block(b) = k - 1 /\ num_bits(b) = k * bits_per_block
  BY BlocksForBounds, NumBlocks
<1>2. /\ k * bits_per_block \in Int
      /\ size <= k * bits_per_block /\ k * bits_per_block < size + bits_per_block
      /\ k # 0 => k * bits_per_block = ((k - 1) * bits_per_block) + bits_per_block
  BY <1>1, LastBlockBounds, BitsPerBlockAssumption
<1>3. turned \in Storage(k)
  BY BlockOperators DEF Storage
<1>4. end_for_end(b, size) = IF u # 0 THEN c ELSE turned
  BY <1>1, <1>2 DEF end_for_end, has_unused_bits
<1>5. CASE u = 0
  <2>1. k * bits_per_block = size
    BY <1>2, <1>5
  <2> QED
    BY <1>1, <1>3, <1>4, <1>5, <2>1, NoTail
<1>6. CASE u # 0
  <2>1. c \in Storage(k)
    BY <1>1, <1>3, BlocksRotatedType
  <2> SUFFICES ASSUME k # 0, NEW o \in c[k - 1]
               PROVE  ((k - 1) * bits_per_block) + o < size
    BY <1>4, <1>6, <2>1, TailInLastBlock
  <2>2. o \in Offset
    BY <1>1, <2>1 DEF Storage, Block
  <2>3. turned[0] = reversed(b[k - 1])
    BY <1>1
  <2>4. c[k - 1] = shl(turned[0], down) \cup shr(turned[k - 1], u)
    <3>1. DOMAIN turned = 0 .. k - 1 /\ last_block(turned) = k - 1
      BY <1>1, <1>3, NumBlocks
    <3>2. k - 1 \in 0 .. k - 1
      BY <1>1
    <3> HIDE DEF turned, k, u
    <3> QED
      BY <3>1, <3>2 DEF blocks_rotated_down
  <2>5. CASE o \in shr(turned[k - 1], u)
    <3>1. o + u \in turned[k - 1]
      BY <2>5 DEF shr
    <3>2. o + u \in Offset
      BY <1>1, <1>3, <3>1 DEF Storage, Block
    <3> HIDE DEF k, turned, c
    <3> QED
      BY <1>1, <1>2, <2>2, <3>2, BitsPerBlockAssumption DEF Offset
  <2>6. CASE o \in shl(turned[0], down)
    <3>1. left_bit - (o - down) \in b[k - 1]
      BY <2>3, <2>6 DEF shl, reversed
    <3>2. ((k - 1) * bits_per_block) + (left_bit - (o - down)) < size
      BY <1>1, <3>1 DEF TailClear
    <3> DEFINE extent  == k * bits_per_block
               most == (k - 1) * bits_per_block
    <3>3. extent \in Int /\ most \in Int /\ extent = most + bits_per_block /\ o \in 0 .. bits_per_block - 1
      BY <1>1, <1>2, <2>2, BitsPerBlockAssumption DEF Offset
    <3>4. most + ((bits_per_block - 1) - (o - (bits_per_block - (extent - size)))) < size
      BY <3>2 DEF left_bit
    <3> HIDE DEF k, turned, c, extent, most
    <3>5. FALSE
      BY <3>3, <3>4, BitsPerBlockAssumption
    <3> QED
      BY <3>5
  <2> QED
    BY <2>4, <2>5, <2>6
<1> QED
  BY <1>5, <1>6

\* What an append puts above the old width is below the new one.
LEMMA AppendedTail ==
    ASSUME NEW size \in Nat, NEW b \in Storage(blocks_for(size)), NEW value \in Block
    PROVE  TailClear(appended(b, size, value), size + bits_per_block)
<1> DEFINE k  == blocks_for(size)
           up == offset(size)
           c  == appended(b, size, value)
           n  == size + bits_per_block
<1>1. k \in Nat /\ num_blocks(b) = k
  BY BlocksForBounds, NumBlocks
<1>2. n \in Nat /\ blocks_for(n) = k + 1
  BY BlocksForOneMore, BitsPerBlockAssumption
<1>3. c \in Storage(k + 1)
  BY <1>1, AppendedType
<1>4. c[k] = IF up # 0 THEN shr(value, bits_per_block - up) ELSE value
  BY <1>1 DEF appended
<1>5. \A o \in c[k] : o \in Offset
  BY <1>1, <1>3 DEF Storage, Block
<1>6. index(size) \in Nat /\ up \in Offset /\ size = (index(size) * bits_per_block) + up
  BY IndexOffset
<1>7. k = index(size) + (IF up # 0 THEN 1 ELSE 0)
  BY DEF blocks_for, index, offset
<1>8. (index(size) + 1) * bits_per_block = (index(size) * bits_per_block) + bits_per_block
  BY <1>6, BitsPerBlockAssumption
<1>9. \A o \in c[k] : (k * bits_per_block) + o < n
  <2> SUFFICES ASSUME NEW o \in c[k] PROVE (k * bits_per_block) + o < n
    OBVIOUS
  <2>1. o \in Offset
    BY <1>5
  <2>2. CASE up = 0
    <3>1. k = index(size)
      BY <1>6, <1>7, <2>2
    <3> HIDE DEF k, c, up
    <3> QED
      BY <1>6, <2>1, <2>2, <3>1, BitsPerBlockAssumption DEF Offset
  <2>3. CASE up # 0
    <3>1. k = index(size) + 1
      BY <1>7, <2>3
    <3>2. o + (bits_per_block - up) \in Offset
      BY <1>4, <2>3 DEF shr, Block
    <3> HIDE DEF k, c, up
    <3> QED
      BY <1>6, <1>8, <2>1, <3>1, <3>2, BitsPerBlockAssumption DEF Offset
  <2> QED
    BY <2>2, <2>3
<1>10. blocks_for(n) - 1 = k
  BY <1>1, <1>2
<1> HIDE DEF k, c, n
<1>11. TailClear(c, n)
  BY <1>2, <1>3, <1>9, <1>10, TailInLastBlock
<1> QED
  BY <1>11 DEF c, n

(***************************************************************************)
(* Positions and blocks determine each other.                              *)
(***************************************************************************)
\* The remainder is the one below the divisor; of a sum below twice the
\* divisor, it is the sum or the divisor less.
LEMMA Remainder ==
    ASSUME NEW m \in Nat \ {0}, NEW i \in Nat, NEW o \in 0 .. m - 1
    PROVE  (i * m + o) % m = o
OBVIOUS

\* A sum of two remainders wraps at most once.
LEMMA RemainderOnce ==
    ASSUME NEW m \in Nat \ {0}, NEW p \in 0 .. m - 1, NEW r \in 0 .. m - 1
    PROVE  (p + r) % m = IF p + r < m THEN p + r ELSE p + r - m
<1>1. CASE p + r < m
  <2>1. p + r \in 0 .. m - 1 /\ p + r = 0 * m + (p + r)
    BY <1>1
  <2> QED
    BY <1>1, <2>1, Remainder
<1>2. CASE ~(p + r < m)
  <2>1. p + r - m \in 0 .. m - 1 /\ p + r = 1 * m + (p + r - m)
    BY <1>2
  <2> QED
    BY <1>2, <2>1, Remainder
<1> QED
  BY <1>1, <1>2

\* A rotation by n moves a position as one by the remainder of n does.
LEMMA RemainderOfSum ==
    ASSUME NEW m \in Nat \ {0}, NEW p \in 0 .. m - 1, NEW n \in Nat
    PROVE  /\ n % m \in 0 .. m - 1
           /\ (p + n) % m = IF p + (n % m) < m THEN p + (n % m) ELSE p + (n % m) - m
<1> DEFINE q == n \div m
           r == n % m
<1>1. q \in Nat /\ r \in 0 .. m - 1 /\ n = q * m + r
  OBVIOUS
<1>2. (q + 1) * m = q * m + m /\ q * m \in Nat /\ q + 1 \in Nat
  BY <1>1
<1> HIDE DEF q, r
<1>3. CASE p + r < m
  <2>1. p + r \in 0 .. m - 1 /\ p + n = q * m + (p + r)
    BY <1>1, <1>2, <1>3
  <2>2. (q * m + (p + r)) % m = p + r
    BY <1>1, <2>1, Remainder
  <2> QED
    BY <1>1, <1>3, <2>1, <2>2 DEF r
<1>4. CASE ~(p + r < m)
  <2>1. p + r - m \in 0 .. m - 1 /\ p + n = (q + 1) * m + (p + r - m)
    BY <1>1, <1>2, <1>4
  <2>2. ((q + 1) * m + (p + r - m)) % m = p + r - m
    BY <1>2, <2>1, Remainder
  <2> QED
    BY <1>1, <1>4, <2>1, <2>2 DEF r
<1> QED
  BY <1>3, <1>4

\* Offset o of block i, and the positions of k blocks.
At(i, o) == i * bits_per_block + o

Span(k) == 0 .. (k * bits_per_block) - 1

\* The width of whole blocks is a natural number.
LEMMA WholeWidth ==
    ASSUME NEW k \in Nat
    PROVE  k * bits_per_block \in Nat
BY BitsPerBlockAssumption

\* A position of k blocks is an offset of one of them.
LEMMA SplitPosition ==
    ASSUME NEW k \in Nat, NEW p \in Span(k)
    PROVE  /\ index(p) \in 0 .. k - 1
           /\ offset(p) \in Offset
           /\ p = At(index(p), offset(p))
<1>0. p \in 0 .. (k * bits_per_block) - 1
  BY DEF Span
<1>1. /\ index(p) \in Nat /\ offset(p) \in Offset
      /\ p = index(p) * bits_per_block + offset(p)
  BY <1>0, IndexOffset
<1> DEFINE i == index(p)
           o == offset(p)
           extent  == k * bits_per_block
           bottom == i * bits_per_block
<1>2. extent \in Nat /\ bottom \in Nat /\ o \in Nat /\ 0 \in Offset /\ p = bottom + o /\ p < extent
  BY <1>0, <1>1, BitsPerBlockAssumption DEF Offset
<1>3. k < i => k * bits_per_block + 0 < i * bits_per_block
  BY <1>1, <1>2, BlockBelow
<1>4. k = i => extent = bottom
  OBVIOUS
<1>5. k < i => extent + 0 < bottom
  BY <1>3
<1>6. i \in Nat
  BY <1>1
<1> HIDE DEF i, o, extent, bottom
<1>7. i < k
  BY <1>2, <1>4, <1>5, <1>6
<1> QED
  BY <1>1, <1>7 DEF i, At

\* And of no other.
LEMMA AtUnique ==
    ASSUME NEW i \in Nat, NEW o \in Offset
    PROVE  /\ At(i, o) \in Nat
           /\ index(At(i, o)) = i /\ offset(At(i, o)) = o
<1>1. i * bits_per_block + o \in Nat
  BY BitsPerBlockAssumption DEF Offset
<1> QED
  BY <1>1, IndexOffsetUnique DEF At

\* Offset o of block i is position At(i, o), set exactly when the block holds o.
LEMMA PositionIff ==
    ASSUME NEW k \in Nat, NEW b \in Storage(k), NEW i \in 0 .. k - 1, NEW o \in Offset
    PROVE  /\ At(i, o) \in Span(k)
           /\ At(i, o) \in Positions(b) <=> o \in b[i]
<1> DEFINE p == i * bits_per_block + o
<1>1. num_bits(b) = k * bits_per_block
  BY NumBlocks
<1>2. p < k * bits_per_block /\ p \in Nat
  BY BlockBelow, BitsPerBlockAssumption DEF Offset
<1>3. index(p) = i /\ offset(p) = o
  BY IndexOffsetUnique
<1> HIDE DEF p
<1>4. p \in 0 .. (k * bits_per_block) - 1
  BY <1>2, BitsPerBlockAssumption
<1>5. p \in Positions(b) <=> o \in b[i]
  BY <1>1, <1>3, <1>4 DEF Positions, BitAt
<1> QED
  BY <1>4, <1>5 DEF p, At, Span

\* Blocks hold no position past their own width.
LEMMA PositionsBelow ==
    ASSUME NEW k \in Nat, NEW b \in Storage(k)
    PROVE  Positions(b) \subseteq Span(k)
BY NumBlocks DEF Positions, Span

\* The positions of blocks are the set that agrees with them everywhere.
LEMMA PositionsAre ==
    ASSUME NEW k \in Nat, NEW b \in Storage(k), NEW S \in SUBSET Span(k),
           \A i \in 0 .. k - 1, o \in Offset : o \in b[i] <=> At(i, o) \in S
    PROVE  Positions(b) = S
<1> SUFFICES ASSUME NEW p \in Span(k)
             PROVE  p \in Positions(b) <=> p \in S
  BY PositionsBelow
<1> DEFINE i == index(p)
           o == offset(p)
<1>1. i \in 0 .. k - 1 /\ o \in Offset /\ p = At(i, o)
  BY SplitPosition
<1> HIDE DEF i, o
<1> QED
  BY <1>1, PositionIff

\* Blocks are a value of their positions: two runs of as many blocks that hold
\* the same positions are equal.
LEMMA SamePositions ==
    ASSUME NEW k \in Nat, NEW b \in Storage(k), NEW c \in Storage(k), Positions(b) = Positions(c)
    PROVE  b = c
<1>1. ASSUME NEW i \in 0 .. k - 1 PROVE b[i] = c[i]
  <2>1. b[i] \subseteq Offset /\ c[i] \subseteq Offset
    BY DEF Storage, Block
  <2> QED
    BY <2>1, PositionIff
<1> QED
  BY <1>1 DEF Storage

\* A clear tail is no position at or above the width.
LEMMA ClearPositions ==
    ASSUME NEW k \in Nat, NEW b \in Storage(k), NEW size \in Nat
    PROVE  TailClear(b, size) <=> \A p \in Positions(b) : p < size
<1>1. ASSUME TailClear(b, size), NEW p \in Positions(b) PROVE p < size
  <2>1. p \in Span(k)
    BY PositionsBelow
  <2> DEFINE i == index(p)
             o == offset(p)
  <2>2. i \in 0 .. k - 1 /\ o \in Offset /\ p = At(i, o)
    BY <2>1, SplitPosition
  <2> HIDE DEF i, o
  <2>3. o \in b[i]
    BY <2>2, PositionIff
  <2> QED
    BY <1>1, <2>2, <2>3, NumBlocks DEF TailClear, At
<1> QED
  BY <1>1, PositionsTail

\* With its tail clear, storage holds no position at or past the width.
LEMMA ClearBelow ==
    ASSUME NEW k \in Nat, NEW b \in Storage(k), NEW size \in Nat, TailClear(b, size)
    PROVE  Positions(b) \subseteq 0 .. size - 1
BY PositionsBelow, ClearPositions DEF Span

(***************************************************************************)
(* The tail erased, and one position written.                              *)
(***************************************************************************)
\* Erasing the unused bits drops the positions at or above the width, and
\* no other.
LEMMA ErasedPositions ==
    ASSUME NEW size \in Nat, NEW b \in Storage(blocks_for(size))
    PROVE  Positions(erase_unused(b, size)) = {p \in Positions(b) : p < size}
<1> DEFINE k == blocks_for(size)
           c == erase_unused(b, size)
           S == {p \in Positions(b) : p < size}
<1>1. /\ k \in Nat /\ DOMAIN b = 0 .. k - 1
      /\ last_block(b) = k - 1 /\ num_bits(b) = k * bits_per_block
  BY BlocksForBounds, NumBlocks
<1>2. /\ size <= k * bits_per_block
      /\ k # 0 => k * bits_per_block = ((k - 1) * bits_per_block) + bits_per_block
      /\ \A i \in 0 .. k - 2, o \in Offset : i * bits_per_block + o < size
  BY <1>1, LastBlockBounds
<1>3. c \in Storage(k)
  BY <1>1, MaskedType
<1>4. Positions(b) \subseteq Span(k)
  BY <1>1, PositionsBelow
<1>5. ASSUME NEW i \in 0 .. k - 1, NEW o \in Offset
      PROVE  o \in c[i] <=> o \in b[i] /\ At(i, o) < size
  <2>1. CASE i # k - 1
    <3>1. c[i] = b[i]
      BY <1>1, <2>1 DEF erase_unused
    <3>2. i \in 0 .. k - 2
      BY <1>1, <2>1
    <3> HIDE DEF c, k
    <3> QED
      BY <1>2, <3>1, <3>2 DEF At
  <2>2. CASE i = k - 1 /\ num_bits(b) = size
    <3>1. c[i] = b[i]
      BY <2>2 DEF erase_unused, has_unused_bits
    <3>2. i * bits_per_block + o < k * bits_per_block
      BY <1>1, BlockBelow
    <3> HIDE DEF c, k
    <3> QED
      BY <1>1, <2>2, <3>1, <3>2 DEF At
  <2>3. CASE i = k - 1 /\ num_bits(b) # size
    <3>1. c[i] = b[i] \cap used_bits(b, size)
      BY <1>1, <2>3 DEF erase_unused, has_unused_bits
    <3>2. o \in used_bits(b, size) <=> o + (num_bits(b) - size) \in Offset
      BY DEF used_bits, shr, ones
    <3> DEFINE extent  == k * bits_per_block
               bottom == i * bits_per_block
    <3>3. extent \in Int /\ bottom \in Int /\ size <= extent /\ extent = bottom + bits_per_block
      BY <1>1, <1>2, <2>3, BitsPerBlockAssumption
    <3>4. num_bits(b) = extent
      BY <1>1
    <3> HIDE DEF k, c, extent, bottom
    <3>5. o + (extent - size) \in Offset <=> bottom + o < size
      BY <3>3, BitsPerBlockAssumption DEF Offset
    <3> QED
      BY <3>1, <3>2, <3>4, <3>5 DEF bottom, At
  <2> QED
    BY <2>1, <2>2, <2>3
<1>6. S \in SUBSET Span(k)
  BY <1>4
<1>7. ASSUME NEW i \in 0 .. k - 1, NEW o \in Offset
      PROVE  o \in c[i] <=> At(i, o) \in S
  <2>1. At(i, o) \in Positions(b) <=> o \in b[i]
    BY <1>1, PositionIff
  <2> HIDE DEF k, c
  <2> QED
    BY <1>5, <2>1
<1> HIDE DEF k, c, S
<1>8. Positions(c) = S
  BY <1>1, <1>3, <1>6, <1>7, PositionsAre
<1> QED
  BY <1>8 DEF c, S

\* A write to one position changes membership of that position and of no other.
LEMMA PositionWrittenPositions ==
    ASSUME NEW k \in Nat, NEW b \in Storage(k), NEW n \in Span(k)
    PROVE  /\ BitAt(b, n) <=> n \in Positions(b)
           /\ Positions(bit_set(b, n)) = Positions(b) \cup {n}
           /\ Positions(bit_reset(b, n)) = Positions(b) \ {n}
           /\ Positions(bit_flipped(b, n)) =
                IF n \in Positions(b) THEN Positions(b) \ {n} ELSE Positions(b) \cup {n}
<1> DEFINE P == Positions(b)
           at == index(n)
           up == offset(n)
<1>1. at \in 0 .. k - 1 /\ up \in Offset /\ n = At(at, up)
  BY SplitPosition
<1>2. /\ n \in Nat
      /\ bit_set(b, n) \in Storage(k)
      /\ bit_reset(b, n) \in Storage(k)
      /\ bit_flipped(b, n) \in Storage(k)
  BY PositionWrittenType DEF Span
<1>3. P \subseteq Span(k)
  BY PositionsBelow
<1>4. \A i \in 0 .. k - 1, o \in Offset : At(i, o) \in P <=> o \in b[i]
  BY PositionIff
<1>5. \A i \in 0 .. k - 1, o \in Offset : At(i, o) = n <=> i = at /\ o = up
  BY <1>1, AtUnique
<1>6. DOMAIN b = 0 .. k - 1
  BY NumBlocks
<1>7. BitAt(b, n) <=> n \in P
  BY <1>1, <1>4 DEF BitAt
<1>8. /\ bit_set(b, n) = [b EXCEPT ![at] = b[at] \cup {up}]
      /\ bit_reset(b, n) = [b EXCEPT ![at] = b[at] \ {up}]
      /\ bit_flipped(b, n) = [b EXCEPT ![at] = (b[at] \ {up}) \cup ({up} \ b[at])]
  BY DEF bit_set, bit_reset, bit_flipped, bit_xor
<1> HIDE DEF P, at, up
<1>9. Positions(bit_set(b, n)) = P \cup {n}
  <2> DEFINE S == P \cup {n}
  <2>1. \A i \in 0 .. k - 1, o \in Offset : o \in bit_set(b, n)[i] <=> At(i, o) \in S
    BY <1>1, <1>4, <1>5, <1>6, <1>8
  <2>2. S \in SUBSET Span(k)
    BY <1>3
  <2> HIDE DEF S
  <2>3. Positions(bit_set(b, n)) = S
    BY <1>2, <2>1, <2>2, PositionsAre
  <2> QED
    BY <2>3 DEF S
<1>10. Positions(bit_reset(b, n)) = P \ {n}
  <2> DEFINE S == P \ {n}
  <2>1. \A i \in 0 .. k - 1, o \in Offset : o \in bit_reset(b, n)[i] <=> At(i, o) \in S
    BY <1>1, <1>4, <1>5, <1>6, <1>8
  <2>2. S \in SUBSET Span(k)
    BY <1>3
  <2> HIDE DEF S
  <2>3. Positions(bit_reset(b, n)) = S
    BY <1>2, <2>1, <2>2, PositionsAre
  <2> QED
    BY <2>3 DEF S
<1>11. Positions(bit_flipped(b, n)) = (P \ {n}) \cup ({n} \ P)
  <2> DEFINE S == (P \ {n}) \cup ({n} \ P)
  <2>1. \A i \in 0 .. k - 1, o \in Offset : o \in bit_flipped(b, n)[i] <=> At(i, o) \in S
    BY <1>1, <1>4, <1>5, <1>6, <1>8
  <2>2. S \in SUBSET Span(k)
    BY <1>3
  <2> HIDE DEF S
  <2>3. Positions(bit_flipped(b, n)) = S
    BY <1>2, <2>1, <2>2, PositionsAre
  <2> QED
    BY <2>3 DEF S
<1> QED
  BY <1>7, <1>9, <1>10, <1>11 DEF P

\* All positions set, cleared or flipped are those of the width: the tail stays none.
LEMMA WholeWrittenPositions ==
    ASSUME NEW size \in Nat, NEW b \in Storage(blocks_for(size))
    PROVE  /\ Positions(all_set(b, size)) = 0 .. size - 1
           /\ Positions(all_reset(b)) = {}
           /\ Positions(all_flipped(b, size)) = (0 .. size - 1) \ Positions(b)
<1> DEFINE k    == blocks_for(size)
           full == [i \in DOMAIN b |-> ones]
           over == [i \in DOMAIN b |-> complement(b[i])]
<1>1. k \in Nat /\ DOMAIN b = 0 .. k - 1
  BY BlocksForBounds, NumBlocks
<1>2. full \in Storage(k) /\ over \in Storage(k) /\ all_reset(b) \in Storage(k)
  BY BlockOperators DEF Storage, all_reset
<1>3. \A i \in 0 .. k - 1, o \in Offset :
          /\ At(i, o) \in Span(k)
          /\ At(i, o) \in Positions(b) <=> o \in b[i]
  BY <1>1, PositionIff
<1>4. \A i \in 0 .. k - 1, o \in Offset :
          o \in full[i] /\ (o \in over[i] <=> o \notin b[i]) /\ o \notin all_reset(b)[i]
  BY <1>1 DEF ones, complement, all_reset, zero
<1>5. size <= k * bits_per_block
  BY BlocksForBounds
<1> HIDE DEF k, full, over
<1>6. Positions(full) = Span(k)
  BY <1>1, <1>2, <1>3, <1>4, PositionsAre
<1>7. Positions(over) = Span(k) \ Positions(b)
  <2> DEFINE S == Span(k) \ Positions(b)
  <2>1. \A i \in 0 .. k - 1, o \in Offset : o \in over[i] <=> At(i, o) \in S
    BY <1>3, <1>4
  <2>2. S \in SUBSET Span(k)
    OBVIOUS
  <2> HIDE DEF S
  <2>3. Positions(over) = S
    BY <1>1, <1>2, <2>1, <2>2, PositionsAre
  <2> QED
    BY <2>3 DEF S
<1>8. Positions(all_reset(b)) = {}
  <2> DEFINE S == {}
  <2>1. S \in SUBSET Span(k) /\ \A p : p \notin S
    OBVIOUS
  <2> HIDE DEF S
  <2>2. Positions(all_reset(b)) = S
    BY <1>1, <1>2, <1>4, <2>1, PositionsAre
  <2> QED
    BY <2>2 DEF S
<1>9. /\ Positions(all_set(b, size)) = {p \in Positions(full) : p < size}
      /\ Positions(all_flipped(b, size)) = {p \in Positions(over) : p < size}
  BY <1>2, ErasedPositions DEF all_set, all_flipped, full, over, k
<1>10. {p \in Span(k) : p < size} = 0 .. size - 1
  BY <1>1, <1>5, BitsPerBlockAssumption DEF Span
<1> QED
  BY <1>6, <1>7, <1>8, <1>9, <1>10

(***************************************************************************)
(* Positions in order: by block, then by offset.                           *)
(***************************************************************************)
LEMMA AtOrder ==
    ASSUME NEW i \in Nat, NEW o \in Offset, NEW j \in Nat, NEW u \in Offset
    PROVE  /\ At(i, o) < At(j, u) <=> i < j \/ (i = j /\ o < u)
           /\ At(i, o) <= At(j, u) <=> i < j \/ (i = j /\ o <= u)
           /\ i = j => At(i, o) - At(j, u) = o - u
           /\ i = j + 1 => At(i, o) - At(j, u) = (o - u) + bits_per_block
           /\ i > j + 1 => At(i, o) - At(j, u) > bits_per_block
<1> DEFINE I == i * bits_per_block
           J == j * bits_per_block
<1>1. I \in Nat /\ J \in Nat /\ o \in Nat /\ u \in Nat
  BY BitsPerBlockAssumption DEF Offset
<1>2. i < j => I + o < J
  BY BlockBelow
<1>3. j < i => J + u < I
  BY BlockBelow
<1>4. i = j => I = J
  OBVIOUS
<1>5. (j + 1) * bits_per_block = J + bits_per_block
  BY BitsPerBlockAssumption
<1>6. i = j + 1 => I = J + bits_per_block
  BY <1>5
<1>7. i > j + 1 => ((j + 1) * bits_per_block) + (bits_per_block - 1) < i * bits_per_block
  BY BlockBelow, BitsPerBlockAssumption DEF Offset
<1>8. i > j + 1 => I > J + bits_per_block + (bits_per_block - 1)
  BY <1>1, <1>5, <1>7, BitsPerBlockAssumption
<1>9. At(i, o) = I + o /\ At(j, u) = J + u /\ o < bits_per_block /\ u < bits_per_block
  BY BitsPerBlockAssumption DEF At, Offset
<1> HIDE DEF I, J
<1> QED
  BY <1>1, <1>2, <1>3, <1>4, <1>6, <1>8, <1>9, BitsPerBlockAssumption

(***************************************************************************)
(* The ends.                                                               *)
(***************************************************************************)
LEMMA AnyPosition ==
    ASSUME NEW k \in Nat, NEW b \in Storage(k)
    PROVE  any(b) <=> Positions(b) # {}
<1>1. DOMAIN b = 0 .. k - 1 /\ \A i \in 0 .. k - 1 : b[i] \subseteq Offset
  BY NumBlocks DEF Storage, Block
<1>2. ASSUME any(b) PROVE Positions(b) # {}
  BY <1>1, <1>2, PositionIff DEF any, zero
<1>3. ASSUME NEW p \in Positions(b) PROVE any(b)
  <2> DEFINE i == index(p)
             o == offset(p)
  <2>1. i \in 0 .. k - 1 /\ o \in Offset /\ p = At(i, o)
    BY PositionsBelow, SplitPosition
  <2> HIDE DEF i, o
  <2>2. o \in b[i]
    BY <2>1, PositionIff
  <2> QED
    BY <1>1, <2>1, <2>2 DEF any, zero
<1> QED
  BY <1>2, <1>3

\* find_front and find_back are the least and the greatest position, and what
\* drop_front and drop_back clear.
LEMMA EndPositions ==
    ASSUME NEW k \in Nat, NEW b \in Storage(k), any(b)
    PROVE  /\ find_front(b) \in Positions(b) /\ find_back(b) \in Positions(b)
           /\ \A p \in Positions(b) : find_front(b) <= p /\ p <= find_back(b)
           /\ Positions(front_dropped(b)) = Positions(b) \ {find_front(b)}
           /\ Positions(back_dropped(b)) = Positions(b) \ {find_back(b)}
<1> DEFINE f == front_block(b)
           l == back_block(b)
           fo == countr_zero(b[f])
           lo == left_bit - countl_zero(b[l])
<1>1. /\ f \in 0 .. k - 1 /\ b[f] # zero
      /\ l \in 0 .. k - 1 /\ b[l] # zero
      /\ \A i \in 0 .. k - 1 : b[i] # zero => f <= i /\ i <= l
  BY BlockEnds
<1>2. \A i \in 0 .. k - 1 : b[i] \in Block
  BY DEF Storage
<1>3. /\ fo \in b[f] /\ \A o \in b[f] : fo <= o
      /\ lo \in b[l] /\ \A o \in b[l] : o <= lo
  BY <1>1, <1>2, BlockExtremes
<1>4. fo \in Offset /\ lo \in Offset
  BY <1>1, <1>2, <1>3 DEF Block
<1>5. find_front(b) = At(f, fo)
  <2>1. bits_per_block * f = f * bits_per_block
    BY <1>1, BitsPerBlockAssumption
  <2> QED
    BY <2>1 DEF find_front, At
<1>6. find_back(b) = At(l, lo)
  <2>1. find_back(b) = (l * bits_per_block) + left_bit - countl_zero(b[l])
    BY FindBackType
  <2>2. countl_zero(b[l]) \in Int
    <3>1. b[l] \in SUBSET (0 .. left_bit) /\ left_bit \in Nat
      BY <1>1, <1>2, BitsPerBlockAssumption DEF Block, Offset, left_bit
    <3>2. Max(b[l]) \in b[l]
      BY <1>1, <3>1, MaxExists DEF zero
    <3> QED
      BY <1>1, <3>1, <3>2 DEF countl_zero
  <2>3. l * bits_per_block \in Int /\ left_bit \in Int
    BY <1>1, BitsPerBlockAssumption DEF left_bit
  <2> QED
    BY <2>1, <2>2, <2>3 DEF At
<1>7. /\ front_dropped(b) = bit_reset(b, At(f, fo))
      /\ back_dropped(b) = bit_reset(b, At(l, lo))
  <2>1. /\ front_dropped(b) = [b EXCEPT ![f] = b[f] \ {fo}]
        /\ back_dropped(b) = [b EXCEPT ![l] = b[l] \ {lo}]
    BY DEF front_dropped, back_dropped, drop_lowest, drop_highest
  <2> HIDE DEF f, l, fo, lo
  <2>2. /\ index(At(f, fo)) = f /\ offset(At(f, fo)) = fo
        /\ index(At(l, lo)) = l /\ offset(At(l, lo)) = lo
    BY <1>1, <1>4, AtUnique
  <2> QED
    BY <2>1, <2>2 DEF bit_reset
<1> HIDE DEF f, l, fo, lo
<1>8. /\ At(f, fo) \in Positions(b) /\ At(f, fo) \in Span(k)
      /\ At(l, lo) \in Positions(b) /\ At(l, lo) \in Span(k)
  BY <1>1, <1>3, <1>4, PositionIff
<1>9. ASSUME NEW p \in Positions(b) PROVE At(f, fo) <= p /\ p <= At(l, lo)
  <2> DEFINE i == index(p)
             o == offset(p)
  <2>1. i \in 0 .. k - 1 /\ o \in Offset /\ p = At(i, o)
    BY PositionsBelow, SplitPosition
  <2> HIDE DEF i, o
  <2>2. o \in b[i]
    BY <2>1, PositionIff
  <2>3. f <= i /\ i <= l
    BY <1>1, <2>1, <2>2 DEF zero
  <2>4. (i = f => fo <= o) /\ (i = l => o <= lo)
    BY <1>3, <2>2
  <2>5. f < i \/ (f = i /\ fo <= o)
    BY <1>1, <2>1, <2>3, <2>4
  <2>6. i < l \/ (i = l /\ o <= lo)
    BY <1>1, <2>1, <2>3, <2>4
  <2> QED
    BY <1>1, <1>4, <2>1, <2>5, <2>6, AtOrder
<1> QED
  BY <1>5, <1>6, <1>7, <1>8, <1>9, PositionWrittenPositions

(***************************************************************************)
(* Growth.                                                                 *)
(***************************************************************************)
\* The positions a width keeps stay, and those it brings are value.
LEMMA ResizedPositions ==
    ASSUME NEW size \in Nat, NEW b \in Storage(blocks_for(size)), TailClear(b, size),
           NEW n \in Nat, NEW value \in BOOLEAN
    PROVE  Positions(resized(b, size, n, value)) =
               {p \in Positions(b) : p < n} \cup {p \in size .. n - 1 : value}
<1> DEFINE k    == blocks_for(size)
           l    == blocks_for(n)
           tail == complement(used_bits(b, size))
           with_ones == blocks_resized(b, l, ones)
           grown == IF has_unused_bits(b, size)
                    THEN [with_ones EXCEPT ![last_block(b)] = @ \cup tail]
                    ELSE with_ones
           c == IF value /\ n > size THEN grown ELSE blocks_resized(b, l, zero)
<1>1. /\ k \in Nat /\ l \in Nat /\ DOMAIN b = 0 .. k - 1 /\ num_blocks(b) = k
      /\ last_block(b) = k - 1 /\ num_bits(b) = k * bits_per_block
  BY BlocksForBounds, NumBlocks
<1>2. c \in Storage(l)
  <2>1. with_ones \in Storage(l) /\ blocks_resized(b, l, zero) \in Storage(l)
    BY <1>1, BlocksResizedType, BlockOperators
  <2>2. tail \in Block
    BY BlockOperators
  <2> HIDE DEF with_ones, tail, l
  <2>3. \A i \in 0 .. l - 1 : with_ones[i] \cup tail \in Block
    BY <2>1, <2>2, BlockOperators DEF Storage
  <2> QED
    BY <2>1, <2>3 DEF Storage
<1>3. Positions(resized(b, size, n, value)) = {p \in Positions(c) : p < n}
  <2>1. resized(b, size, n, value) = erase_unused(c, n)
    BY DEF resized
  <2> HIDE DEF c
  <2> QED
    BY <1>2, <2>1, ErasedPositions
<1>4. /\ size <= k * bits_per_block /\ k * bits_per_block \in Nat
      /\ k # 0 => k * bits_per_block = ((k - 1) * bits_per_block) + bits_per_block
      /\ \A i \in 0 .. k - 2, o \in Offset : i * bits_per_block + o < size
  BY <1>1, LastBlockBounds, WholeWidth
<1>5. Positions(b) \subseteq 0 .. size - 1
  BY <1>1, ClearBelow
<1>6. n <= l * bits_per_block /\ l * bits_per_block \in Nat
  BY <1>1, BlocksForBounds, WholeWidth
<1>7. n >= size => k <= l
  BY BlocksForMonotone
<1>8. ASSUME NEW i \in 0 .. l - 1, NEW o \in Offset
      PROVE  o \in c[i] <=> \/ i \in 0 .. k - 1 /\ o \in b[i]
                            \/ value /\ n > size /\ At(i, o) >= size
  <2>1. CASE ~(value /\ n > size)
    BY <1>1, <2>1 DEF blocks_resized, zero
  <2>2. CASE value /\ n > size /\ i >= k
    <3>1. c[i] = ones
      BY <1>1, <2>2 DEF blocks_resized
    <3>2. At(i, o) >= size
      <4>1. k \in Nat /\ 0 \in Offset /\ i \in Nat /\ At(k, 0) <= At(i, o)
        BY <1>1, <2>2, AtOrder, BitsPerBlockAssumption DEF Offset
      <4>2. At(k, 0) = k * bits_per_block /\ At(i, o) \in Nat
        BY <1>4, <4>1, AtUnique DEF At
      <4> HIDE DEF k
      <4> QED
        BY <1>4, <4>1, <4>2
    <3> HIDE DEF c, k, l
    <3> QED
      BY <1>1, <2>2, <3>1, <3>2 DEF ones
  <2>3. CASE value /\ n > size /\ i < k - 1
    <3>1. c[i] = b[i]
      BY <1>1, <2>3 DEF blocks_resized
    <3>2. At(i, o) < size
      BY <1>1, <1>4, <2>3 DEF At
    <3>3. At(i, o) \in Nat /\ i \in 0 .. k - 1
      BY <1>1, <2>3, AtUnique
    <3> HIDE DEF c, k, l
    <3> QED
      BY <3>1, <3>2, <3>3
  <2>4. CASE value /\ n > size /\ i = k - 1
    <3>1. c[i] = b[i] \cup IF has_unused_bits(b, size) THEN tail ELSE {}
      BY <1>1, <2>4 DEF blocks_resized
    <3>2. o \in tail <=> o + (num_bits(b) - size) \notin Offset
      BY DEF complement, used_bits, shr, ones
    <3> DEFINE extent  == k * bits_per_block
               bottom == i * bits_per_block
    <3>3. extent \in Int /\ bottom \in Int /\ size <= extent /\ extent = bottom + bits_per_block
      BY <1>1, <1>4, <2>4, BitsPerBlockAssumption
    <3>4. num_bits(b) = extent /\ i \in 0 .. k - 1
      BY <1>1, <2>4
    <3> HIDE DEF k, c, extent, bottom, tail
    <3>5. o + (extent - size) \notin Offset <=> bottom + o >= size
      BY <3>3, BitsPerBlockAssumption DEF Offset
    <3>6. extent = size => ~(bottom + o >= size)
      BY <3>3, BitsPerBlockAssumption DEF Offset
    <3> QED
      BY <2>4, <3>1, <3>2, <3>4, <3>5, <3>6 DEF bottom, At, has_unused_bits
  <2> QED
    BY <1>1, <2>1, <2>2, <2>3, <2>4
<1> DEFINE S == Positions(b) \cup {p \in size .. n - 1 : value}
<1>9. ASSUME NEW p \in 0 .. n - 1 PROVE p \in Positions(c) <=> p \in S
  <2> DEFINE i == index(p)
             o == offset(p)
  <2>1. p \in Span(l)
    BY <1>6 DEF Span
  <2>2. i \in 0 .. l - 1 /\ o \in Offset /\ p = At(i, o)
    BY <1>1, <2>1, SplitPosition
  <2> HIDE DEF i, o
  <2>3. i \in 0 .. k - 1 /\ o \in b[i] <=> p \in Positions(b)
    <3>1. CASE i \in 0 .. k - 1
      BY <1>1, <2>2, <3>1, PositionIff
    <3>2. CASE i \notin 0 .. k - 1
      <4>1. ASSUME p \in Positions(b) PROVE FALSE
        <5>1. p \in Span(k)
          BY <1>1, <4>1, PositionsBelow
        <5>2. index(p) \in 0 .. k - 1
          BY <1>1, <5>1, SplitPosition
        <5> QED
          BY <3>2, <5>2 DEF i
      <4> QED
        BY <3>2, <4>1
    <3> QED
      BY <3>1, <3>2
  <2>4. p \in Positions(c) <=> o \in c[i]
    BY <1>1, <1>2, <2>2, PositionIff
  <2>5. o \in c[i] <=> p \in Positions(b) \/ (value /\ n > size /\ p >= size)
    BY <1>8, <2>2, <2>3
  <2> HIDE DEF c, k, l
  <2> QED
    BY <2>4, <2>5
<1>10. Positions(c) \subseteq Nat
  BY <1>1, <1>2, PositionsBelow DEF Span
<1> HIDE DEF c, k, l
<1> QED
  BY <1>3, <1>5, <1>9, <1>10

\* Of which none does where the new positions are clear.
LEMMA ResizedClearPositions ==
    ASSUME NEW size \in Nat, NEW b \in Storage(blocks_for(size)), TailClear(b, size), NEW n \in Nat
    PROVE  Positions(resized(b, size, n, FALSE)) = {p \in Positions(b) : p < n}
<1> DEFINE value == FALSE
<1>1. value \in BOOLEAN /\ ~value
  OBVIOUS
<1> HIDE DEF value
<1>2. Positions(resized(b, size, n, value)) = {p \in Positions(b) : p < n} \cup {p \in size .. n - 1 : value}
  BY <1>1, ResizedPositions
<1>3. {p \in size .. n - 1 : value} = {}
  BY <1>1
<1> QED
  BY <1>2, <1>3 DEF value

\* An append adds the positions of its block, counted from the old width.
LEMMA AppendedPositions ==
    ASSUME NEW size \in Nat, NEW b \in Storage(blocks_for(size)), TailClear(b, size),
           NEW value \in Block
    PROVE  Positions(appended(b, size, value)) = Positions(b) \cup {size + o : o \in value}
<1> DEFINE k  == blocks_for(size)
           up == offset(size)
           c  == appended(b, size, value)
           S  == Positions(b) \cup {size + o : o \in value}
<1>1. k \in Nat /\ num_blocks(b) = k /\ DOMAIN b = 0 .. k - 1
  BY BlocksForBounds, NumBlocks
<1>2. c \in Storage(k + 1)
  BY <1>1, AppendedType
<1>3. Positions(b) \subseteq 0 .. size - 1 /\ Positions(b) \subseteq Span(k)
  BY <1>1, ClearBelow, PositionsBelow
<1>4. /\ index(size) \in Nat /\ up \in Offset /\ size = At(index(size), up)
      /\ k = index(size) + (IF up # 0 THEN 1 ELSE 0)
  BY IndexOffset DEF blocks_for, index, offset, At
<1>5. value \subseteq Offset
  BY DEF Block
<1>6. size + bits_per_block <= (k + 1) * bits_per_block
  <2>1. (k + 1) * bits_per_block = (k * bits_per_block) + bits_per_block
    BY <1>1, BitsPerBlockAssumption
  <2>2. size <= k * bits_per_block /\ k * bits_per_block \in Nat
    BY <1>1, BlocksForBounds, WholeWidth
  <2> HIDE DEF k
  <2> QED
    BY <2>1, <2>2, BitsPerBlockAssumption
<1>7. S \in SUBSET Span(k + 1)
  <2>1. (k + 1) * bits_per_block \in Nat
    BY <1>1, BitsPerBlockAssumption
  <2>2. \A o \in value : o \in Nat /\ o < bits_per_block
    BY <1>5, BitsPerBlockAssumption DEF Offset
  <2> HIDE DEF k
  <2> QED
    BY <1>3, <1>6, <2>1, <2>2, BitsPerBlockAssumption DEF Span
<1>8. ASSUME NEW i \in 0 .. k, NEW o \in Offset
      PROVE  o \in c[i] <=> At(i, o) \in S
  <2>1. c[i] = IF i = k THEN IF up # 0 THEN shr(value, bits_per_block - up) ELSE value
               ELSE IF i = k - 1 /\ up # 0 THEN b[i] \cup shl(value, up)
               ELSE b[i]
    BY <1>1 DEF appended
  <2>2. i < k => (At(i, o) \in Positions(b) <=> o \in b[i])
    BY <1>1, PositionIff
  <2>3. At(i, o) \in Nat /\ o \in Nat /\ i \in Nat /\ up \in Nat
    <3>1. i \in Nat /\ o \in Nat /\ up \in Nat
      BY <1>1, <1>4, BitsPerBlockAssumption DEF Offset
    <3> QED
      BY <3>1, AtUnique
  <2>4. i = k => At(i, o) \notin Positions(b)
    <3> SUFFICES ASSUME i = k, At(i, o) \in Span(k) PROVE FALSE
      BY <1>3
    <3>1. At(i, o) = k * bits_per_block + o
      BY DEF At
    <3> HIDE DEF k
    <3> QED
      BY <1>1, <2>3, <3>1, BitsPerBlockAssumption DEF Span
  <2>5. At(i, o) \in {size + v : v \in value} <=> At(i, o) - size \in value
    BY <1>5, <2>3, BitsPerBlockAssumption DEF Offset
  <2> DEFINE d == At(i, o) - size
             j == index(size)
  <2>6. /\ At(i, o) < size <=> i < j \/ (i = j /\ o < up)
        /\ i = j => d = o - up
        /\ i = j + 1 => d = (o - up) + bits_per_block
    BY <1>4, <2>3, AtOrder
  <2>7. d \in value => d \in Offset
    BY <1>5
  <2> HIDE DEF d, j
  <2>8. d \in Int /\ (At(i, o) < size <=> d < 0)
    BY <2>3 DEF d
  <2>9. j \in Nat /\ k = j + (IF up # 0 THEN 1 ELSE 0)
    BY <1>4 DEF j
  <2>10. d \in Offset => d >= 0
    BY DEF Offset
  <2> HIDE DEF k, c, up
  <2>11. CASE up = 0
    <3>1. CASE i = k
      <4>1. d = o /\ c[i] = value
        BY <2>1, <2>3, <2>6, <2>9, <2>11, <3>1
      <4> QED
        BY <2>4, <2>5, <3>1, <4>1 DEF d
    <3>2. CASE i # k
      <4>1. i < j /\ i < k /\ c[i] = b[i]
        BY <1>1, <2>1, <2>9, <2>11, <3>2
      <4>2. d \notin value
        BY <2>6, <2>7, <2>8, <2>10, <4>1
      <4> QED
        BY <2>2, <2>5, <4>1, <4>2 DEF d
    <3> QED
      BY <3>1, <3>2
  <2>12. CASE up # 0
    <3>1. CASE i = k
      <4>1. c[i] = shr(value, bits_per_block - up) /\ i = j + 1
        BY <2>1, <2>9, <2>12, <3>1
      <4>2. o + (bits_per_block - up) = d
        BY <2>3, <2>6, <4>1, BitsPerBlockAssumption
      <4>3. o \in c[i] <=> d \in value
        BY <4>1, <4>2 DEF shr
      <4> QED
        BY <2>4, <2>5, <3>1, <4>3 DEF d
    <3>2. CASE i = k - 1
      <4>1. c[i] = b[i] \cup shl(value, up) /\ i = j /\ i < k
        BY <1>1, <2>1, <2>9, <2>12, <3>2
      <4>2. o - up = d
        BY <2>6, <4>1
      <4>3. o \in c[i] <=> o \in b[i] \/ d \in value
        BY <4>1, <4>2 DEF shl
      <4> QED
        BY <2>2, <2>5, <4>1, <4>3 DEF d
    <3>3. CASE i # k /\ i # k - 1
      <4>1. i < j /\ i < k /\ c[i] = b[i]
        BY <1>1, <2>1, <2>9, <2>12, <3>3
      <4>2. d \notin value
        BY <2>6, <2>7, <2>8, <2>10, <4>1
      <4> QED
        BY <2>2, <2>5, <4>1, <4>2 DEF d
    <3> QED
      BY <3>1, <3>2, <3>3
  <2> QED
    BY <2>11, <2>12
<1> HIDE DEF k, c, S
<1>9. (k + 1) - 1 = k /\ k + 1 \in Nat
  BY <1>1
<1>10. Positions(c) = S
  BY <1>2, <1>7, <1>8, <1>9, PositionsAre
<1> QED
  BY <1>10 DEF c, S

(***************************************************************************)
(* Writes to a range, and to a block at any position.                      *)
(***************************************************************************)
LEMMA RangeSetPositions ==
    ASSUME NEW k \in Nat, NEW b \in Storage(k), NEW n \in Nat, NEW len \in Nat,
           n + len <= k * bits_per_block, NEW value \in BOOLEAN
    PROVE  Positions(range_set(b, n, len, value)) =
               (Positions(b) \ (n .. n + len - 1)) \cup {p \in n .. n + len - 1 : value}
<1> DEFINE end   == n + len - 1
           first == index(n)
           last  == index(end)
           lo    == offset(n)
           hi    == offset(end)
           mask(i) == (IF i = first THEN shl(ones, lo) ELSE ones) \cap
                      (IF i = last  THEN shr(ones, left_bit - hi) ELSE ones)
           c == range_set(b, n, len, value)
           S == (Positions(b) \ (n .. end)) \cup {p \in n .. end : value}
<1>1. DOMAIN b = 0 .. k - 1 /\ Positions(b) \subseteq Span(k) /\ k * bits_per_block \in Nat
  BY NumBlocks, PositionsBelow, WholeWidth
<1>2. CASE len = 0
  <2>1. range_set(b, n, len, value) = b
    BY <1>2 DEF range_set
  <2>2. n .. n + len - 1 = {}
    BY <1>2
  <2> QED
    BY <2>1, <2>2
<1>3. CASE len # 0
  <2>1. end \in Nat /\ n <= end /\ end \in Span(k)
    BY <1>1, <1>3 DEF Span
  <2>2. /\ first \in Nat /\ lo \in Offset /\ n = At(first, lo)
        /\ last \in Nat /\ hi \in Offset /\ end = At(last, hi)
    BY <2>1, IndexOffset DEF At
  <2>3. c \in Storage(k)
    BY RangeSetType
  <2>4. S \in SUBSET Span(k)
    BY <1>1, <2>1 DEF Span
  <2>5. ASSUME NEW i \in 0 .. k - 1, NEW o \in Offset
        PROVE  o \in c[i] <=> At(i, o) \in S
    <3>1. c[i] = IF i < first \/ last < i THEN b[i]
                 ELSE IF value THEN b[i] \cup mask(i) ELSE b[i] \ mask(i)
      BY <1>1, <1>3 DEF range_set
    <3>2. At(i, o) \in Positions(b) <=> o \in b[i]
      BY PositionIff
    <3>3. o \in mask(i) <=> (i = first => lo <= o) /\ (i = last => o <= hi)
      <4>1. o \in shl(ones, lo) <=> lo <= o
        BY <2>2, BitsPerBlockAssumption DEF shl, ones, Offset
      <4>2. o \in shr(ones, left_bit - hi) <=> o <= hi
        <5> HIDE DEF hi
        <5> QED
          BY <2>2, BitsPerBlockAssumption DEF shr, ones, Offset, left_bit
      <4> QED
        BY <4>1, <4>2 DEF ones
    <3>4. i \in Nat /\ At(i, o) \in Nat /\ o \in Nat /\ lo \in Nat /\ hi \in Nat
      BY <2>2, AtUnique, BitsPerBlockAssumption DEF Offset
    <3>5. /\ At(first, lo) <= At(i, o) <=> first < i \/ (first = i /\ lo <= o)
          /\ At(i, o) <= At(last, hi) <=> i < last \/ (i = last /\ o <= hi)
      BY <2>2, <3>4, AtOrder
    <3> HIDE DEF c, first, last, lo, hi, end
    <3>6. At(i, o) \in n .. end <=> ~(i < first \/ last < i) /\ o \in mask(i)
      BY <2>1, <2>2, <3>3, <3>4, <3>5
    <3> HIDE DEF mask
    <3> QED
      BY <3>1, <3>2, <3>6
  <2> HIDE DEF c, S
  <2>6. Positions(c) = S
    BY <2>3, <2>4, <2>5, PositionsAre
  <2> QED
    BY <2>6 DEF c, S
<1> QED
  BY <1>2, <1>3

\* The positions the mask names, counted from n, take the bits of value.
LEMMA WrittenAtPositions ==
    ASSUME NEW k \in Nat, NEW b \in Storage(k), NEW n \in Nat,
           NEW value \in Block, NEW mask \in Block,
           n < k * bits_per_block, \A m \in mask : n + m < k * bits_per_block
    PROVE  Positions(written_at(b, n, value, mask)) =
               (Positions(b) \ {n + m : m \in mask}) \cup {n + m : m \in value \cap mask}
<1> DEFINE at   == index(n)
           up   == offset(n)
           low  == (b[at] \ shl(mask, up)) \cup shl(value \cap mask, up)
           down == bits_per_block - up
           high == (b[at + 1] \ shr(mask, down)) \cup shr(value \cap mask, down)
           c == written_at(b, n, value, mask)
           S == (Positions(b) \ {n + m : m \in mask}) \cup {n + m : m \in value \cap mask}
<1>1. DOMAIN b = 0 .. k - 1 /\ last_block(b) = k - 1 /\ Positions(b) \subseteq Span(k)
      /\ k * bits_per_block \in Nat
  BY NumBlocks, PositionsBelow, WholeWidth
<1>2. n \in Span(k)
  BY <1>1 DEF Span
<1>3. at \in 0 .. k - 1 /\ up \in Offset /\ n = At(at, up)
  BY <1>2, SplitPosition
<1>4. mask \subseteq Offset /\ \A m \in mask : m \in Nat
  BY BitsPerBlockAssumption DEF Block, Offset
<1>5. c \in Storage(k)
  BY WrittenAtType
<1>6. S \in SUBSET Span(k)
  BY <1>1, <1>4 DEF Span
<1>7. ASSUME NEW i \in 0 .. k - 1, NEW o \in Offset
      PROVE  o \in c[i] <=> At(i, o) \in S
  <2> DEFINE d == At(i, o) - n
  <2>1. c[i] = IF i = at THEN low
               ELSE IF i = at + 1 /\ up # 0 THEN high
               ELSE b[i]
    <3>1. c = IF up # 0 /\ at # k - 1
              THEN [b EXCEPT ![at] = low, ![at + 1] = high]
              ELSE [b EXCEPT ![at] = low]
      BY <1>1 DEF written_at
    <3>2. i = at + 1 => at # k - 1
      BY <1>3
    <3> HIDE DEF c, low, high, up, at
    <3> QED
      BY <1>1, <1>3, <3>1, <3>2
  <2>2. At(i, o) \in Positions(b) <=> o \in b[i]
    BY PositionIff
  <2>3. i \in Nat /\ At(i, o) \in Nat /\ o \in Nat /\ up \in Nat /\ at \in Nat
    BY <1>3, AtUnique, BitsPerBlockAssumption DEF Offset
  <2>4. /\ At(i, o) \in {n + m : m \in mask} <=> d \in mask
        /\ At(i, o) \in {n + m : m \in value \cap mask} <=> d \in value \cap mask
    BY <1>4, <2>3
  <2>5. At(i, o) \in S <=> (o \in b[i] /\ d \notin mask) \/ d \in value \cap mask
    BY <2>2, <2>4
  <2>6. /\ i = at => d = o - up
        /\ i = at + 1 => d = (o - up) + bits_per_block
        /\ i > at + 1 => d > bits_per_block
        /\ d < 0 <=> i < at \/ (i = at /\ o < up)
        /\ d \in Int
    BY <1>3, <2>3, AtOrder
  <2>7. \A m \in mask : m >= 0 /\ m < bits_per_block
    BY <1>4, BitsPerBlockAssumption DEF Offset
  <2>8. o \in low <=> (o \in b[at] /\ o - up \notin mask) \/ o - up \in value \cap mask
    BY DEF shl
  <2>9. o \in high <=> (o \in b[at + 1] /\ o + down \notin mask) \/ o + down \in value \cap mask
    BY DEF shr
  <2> HIDE DEF d, low, high, at, up, c, S
  <2>10. CASE i = at
    BY <2>1, <2>5, <2>6, <2>8, <2>10
  <2>11. CASE i = at + 1 /\ up # 0
    <3>1. d = o + down
      BY <2>3, <2>6, <2>11, BitsPerBlockAssumption
    <3>2. c[i] = high
      BY <2>1, <2>3, <2>11
    <3> QED
      BY <2>5, <2>9, <2>11, <3>1, <3>2
  <2>12. CASE i # at /\ ~(i = at + 1 /\ up # 0)
    <3>1. d \notin mask
      BY <2>3, <2>6, <2>7, <2>12, BitsPerBlockAssumption
    <3> QED
      BY <2>1, <2>5, <2>12, <3>1
  <2> QED
    BY <2>10, <2>11, <2>12
<1> HIDE DEF c, S
<1>8. Positions(c) = S
  BY <1>5, <1>6, <1>7, PositionsAre
<1> QED
  BY <1>8 DEF c, S

(***************************************************************************)
(* Shifts, rotation and reversal: every bit moves by the same distance, or *)
(* end for end, whatever block its old and its new position are in.        *)
(***************************************************************************)
\* The block read across the join of two is the block of the positions a
\* distance R_shift further on.
LEMMA StraddledPositions ==
    ASSUME NEW k \in Nat, NEW b \in Storage(k), NEW j \in 0 .. k - 2,
           NEW R_shift \in Offset, R_shift # 0, NEW o \in Offset
    PROVE  o \in straddled_block(b, j, bits_per_block - R_shift, R_shift)
               <=> At(j, o) + R_shift \in Positions(b)
<1> DEFINE L_shift == bits_per_block - R_shift
           p == At(j, o) + R_shift
<1>1. /\ o \in straddled_block(b, j, L_shift, R_shift)
            <=> o - L_shift \in b[j + 1] \/ o + R_shift \in b[j]
  BY DEF straddled_block, shl, shr
<1>2. j \in Nat /\ j \in 0 .. k - 1 /\ j + 1 \in 0 .. k - 1 /\ j + 1 \in Nat
  OBVIOUS
<1>3. b[j] \subseteq Offset /\ b[j + 1] \subseteq Offset
  BY <1>2 DEF Storage, Block
<1>4. o \in Nat /\ R_shift \in Nat /\ o < bits_per_block /\ R_shift < bits_per_block
  BY BitsPerBlockAssumption DEF Offset
<1>5. (j + 1) * bits_per_block = (j * bits_per_block) + bits_per_block /\ j * bits_per_block \in Nat
  BY <1>2, BitsPerBlockAssumption
<1>6. CASE o + R_shift < bits_per_block
  <2>1. o + R_shift \in Offset /\ o - L_shift \notin Offset
    BY <1>4, <1>6, BitsPerBlockAssumption DEF Offset
  <2>2. p = At(j, o + R_shift)
    BY <1>4, <1>5 DEF At
  <2>3. At(j, o + R_shift) \in Positions(b) <=> o + R_shift \in b[j]
    BY <1>2, <2>1, PositionIff
  <2> QED
    BY <1>1, <1>3, <2>1, <2>2, <2>3
<1>7. CASE o + R_shift >= bits_per_block
  <2>1. o + R_shift \notin Offset /\ o - L_shift \in Offset
    BY <1>4, <1>7, BitsPerBlockAssumption DEF Offset
  <2>2. p = At(j + 1, o - L_shift)
    BY <1>4, <1>5, BitsPerBlockAssumption DEF At
  <2>3. At(j + 1, o - L_shift) \in Positions(b) <=> o - L_shift \in b[j + 1]
    BY <1>2, <2>1, PositionIff
  <2> QED
    BY <1>1, <1>3, <2>1, <2>2, <2>3
<1> QED
  BY <1>4, <1>6, <1>7, BitsPerBlockAssumption

\* A shift up moves every position up by n, past the blocks or within them.
LEMMA ShiftedUpPositions ==
    ASSUME NEW k \in Nat, NEW b \in Storage(k), NEW n \in Nat
    PROVE  Positions(shifted_up(b, n)) = {p \in Span(k) : p - n \in Positions(b)}
<1> DEFINE q == n \div bits_per_block
           r == n % bits_per_block
           c == shifted_up(b, n)
           S == {p \in Span(k) : p - n \in Positions(b)}
<1>1. q \in Nat /\ r \in Offset /\ n = At(q, r) /\ n = q * bits_per_block + r
  BY IndexOffset DEF index, offset, At
<1>2. c \in Storage(k)
  BY ShiftedType
<1>3. DOMAIN b = 0 .. k - 1 /\ Positions(b) \subseteq Span(k)
  BY NumBlocks, PositionsBelow
<1>4. ASSUME NEW i \in 0 .. k - 1, NEW o \in Offset
      PROVE  o \in c[i] <=> At(i, o) \in S
  <2> DEFINE d == At(i, o) - n
  <2>1. c[i] = IF i < q THEN zero
               ELSE IF r = 0 THEN b[i - q]
               ELSE IF i = q THEN shl(b[0], r)
               ELSE straddled_block(b, i - q - 1, r, bits_per_block - r)
    BY <1>3 DEF shifted_up
  <2>2. At(i, o) \in Span(k)
    BY PositionIff
  <2>3. i \in Nat /\ At(i, o) \in Nat /\ o \in Nat /\ r \in Nat
        /\ r < bits_per_block /\ o < bits_per_block
    BY <1>1, AtUnique, BitsPerBlockAssumption DEF Offset
  <2>4. At(i, o) \in S <=> d \in Positions(b)
    BY <2>2
  <2>5. d \in Int /\ (d < 0 <=> i < q \/ (i = q /\ o < r)) /\ (i = q => d = o - r)
    BY <1>1, <2>3, AtOrder
  <2>6. \A p \in Positions(b) : p >= 0
    BY <1>3 DEF Span
  <2>7. /\ i * bits_per_block = ((i - q) * bits_per_block) + (q * bits_per_block)
        /\ ((i - q) * bits_per_block) = ((i - q - 1) * bits_per_block) + bits_per_block
        /\ (i - q) * bits_per_block \in Int /\ (i - q - 1) * bits_per_block \in Int
        /\ q * bits_per_block \in Int
    BY <1>1, <2>3, BitsPerBlockAssumption
  <2>8. /\ d = At(i - q, o) - r
        /\ d = At(i - q - 1, o) + (bits_per_block - r)
    BY <1>1, <2>3, <2>7, BitsPerBlockAssumption DEF At
  <2> HIDE DEF d, q, r, c, S
  <2>9. CASE i < q
    BY <2>1, <2>4, <2>5, <2>6, <2>9 DEF zero
  <2>10. CASE ~(i < q) /\ r = 0
    <3>1. i - q \in 0 .. k - 1 /\ At(i - q, o) \in Int
      BY <1>1, <2>3, <2>10, AtUnique
    <3>2. At(i - q, o) \in Positions(b) <=> o \in b[i - q]
      BY <3>1, PositionIff
    <3>3. d = At(i - q, o)
      BY <2>8, <2>10, <3>1
    <3> QED
      BY <2>1, <2>4, <2>10, <3>2, <3>3
  <2>11. CASE i = q /\ r # 0
    <3>1. 0 \in 0 .. k - 1 /\ b[0] \subseteq Offset
      BY <2>11 DEF Storage, Block
    <3>2. c[i] = shl(b[0], r) /\ d = o - r
      BY <2>1, <2>5, <2>11
    <3>3. d \in Offset => (d \in Positions(b) <=> d \in b[0])
      <4>1. d \in Offset => At(0, d) = d
        BY BitsPerBlockAssumption DEF At, Offset
      <4> QED
        BY <3>1, <4>1, PositionIff
    <3>4. d \notin Offset => d \notin Positions(b)
      BY <2>3, <2>6, <3>2, BitsPerBlockAssumption DEF Offset
    <3> QED
      BY <2>4, <3>1, <3>2, <3>3, <3>4 DEF shl
  <2>12. CASE i > q /\ r # 0
    <3> DEFINE j == i - q - 1
               R == bits_per_block - r
    <3>1. j \in 0 .. k - 2 /\ R \in Offset /\ R # 0 /\ bits_per_block - R = r
      BY <1>1, <2>3, <2>12, BitsPerBlockAssumption DEF Offset
    <3>2. c[i] = straddled_block(b, j, r, R)
      BY <1>1, <2>1, <2>3, <2>12
    <3>3. d = At(j, o) + R
      BY <2>8
    <3> HIDE DEF j, R
    <3>4. o \in straddled_block(b, j, bits_per_block - R, R) <=> At(j, o) + R \in Positions(b)
      BY <3>1, StraddledPositions
    <3> QED
      BY <2>4, <3>1, <3>2, <3>3, <3>4
  <2> QED
    BY <1>1, <2>3, <2>9, <2>10, <2>11, <2>12
<1>5. S \in SUBSET Span(k)
  OBVIOUS
<1> HIDE DEF c, S
<1>6. Positions(c) = S
  BY <1>2, <1>4, <1>5, PositionsAre
<1> QED
  BY <1>6 DEF c, S

\* A shift down moves every position down by n and drops the lowest n.
LEMMA ShiftedDownPositions ==
    ASSUME NEW k \in Nat, NEW b \in Storage(k), NEW n \in Nat
    PROVE  Positions(shifted_down(b, n)) = {p \in Span(k) : p + n \in Positions(b)}
<1> DEFINE q == n \div bits_per_block
           r == n % bits_per_block
           c == shifted_down(b, n)
           S == {p \in Span(k) : p + n \in Positions(b)}
<1>1. q \in Nat /\ r \in Offset /\ n = q * bits_per_block + r
  BY IndexOffset DEF index, offset
<1>2. c \in Storage(k)
  BY ShiftedType
<1>3. DOMAIN b = 0 .. k - 1 /\ last_block(b) = k - 1 /\ Positions(b) \subseteq Span(k)
  BY NumBlocks, PositionsBelow
<1>4. ASSUME NEW i \in 0 .. k - 1, NEW o \in Offset
      PROVE  o \in c[i] <=> At(i, o) \in S
  <2> DEFINE d == At(i, o) + n
             j == i + q
  <2>1. c[i] = IF (k - 1) - q < i THEN zero
               ELSE IF r = 0 THEN b[j]
               ELSE IF i = (k - 1) - q THEN shr(b[k - 1], r)
               ELSE straddled_block(b, j, bits_per_block - r, r)
    BY <1>3 DEF shifted_down
  <2>2. At(i, o) \in Span(k)
    BY PositionIff
  <2>3. i \in Nat /\ o \in Nat /\ r \in Nat /\ r < bits_per_block /\ o < bits_per_block /\ j \in Nat
    BY <1>1, BitsPerBlockAssumption DEF Offset
  <2>4. At(i, o) \in S <=> d \in Positions(b)
    BY <2>2
  <2>5. /\ j * bits_per_block = (i * bits_per_block) + (q * bits_per_block)
        /\ i * bits_per_block \in Int /\ q * bits_per_block \in Int
    BY <1>1, <2>3, BitsPerBlockAssumption
  <2>6. d = At(j, o) + r /\ At(j, o) = j * bits_per_block + o
    BY <1>1, <2>3, <2>5 DEF At
  <2>7. At(j, o) \in Nat
    BY <2>3, AtUnique
  <2>8. \A p \in Positions(b) : p < k * bits_per_block
    <3>1. k * bits_per_block \in Nat
      BY WholeWidth
    <3>2. \A p \in Span(k) : p < k * bits_per_block
      BY <3>1 DEF Span
    <3> QED
      BY <1>3, <3>2
  <2>9. k * bits_per_block \in Nat /\ j * bits_per_block \in Nat
    BY <2>3, WholeWidth
  <2> HIDE DEF d, j, q, r, c, S
  <2>10. CASE j > k - 1
    <3>1. k * bits_per_block <= j * bits_per_block
      <4>1. k < j => k * bits_per_block + 0 < j * bits_per_block
        BY <2>3, BlockBelow, BitsPerBlockAssumption DEF Offset
      <4>2. k = j \/ k < j
        BY <2>3, <2>10
      <4>3. k = j => k * bits_per_block = j * bits_per_block
        OBVIOUS
      <4> QED
        BY <2>9, <4>1, <4>2, <4>3
    <3>2. d \notin Positions(b)
      BY <2>3, <2>6, <2>7, <2>8, <2>9, <3>1
    <3>3. (k - 1) - q < i
      BY <1>1, <2>3, <2>10 DEF j
    <3> QED
      BY <2>1, <2>4, <3>2, <3>3 DEF zero
  <2>11. CASE j <= k - 1 /\ r = 0
    <3>1. j \in 0 .. k - 1 /\ ~((k - 1) - q < i)
      BY <1>1, <2>3, <2>11 DEF j
    <3>2. At(j, o) \in Positions(b) <=> o \in b[j]
      BY <3>1, PositionIff
    <3>3. d = At(j, o)
      BY <2>6, <2>7, <2>11
    <3> QED
      BY <2>1, <2>4, <2>11, <3>1, <3>2, <3>3
  <2>12. CASE j = k - 1 /\ r # 0
    <3>1. j \in 0 .. k - 1 /\ ~((k - 1) - q < i) /\ i = (k - 1) - q
      BY <1>1, <2>3, <2>12 DEF j
    <3>2. c[i] = shr(b[j], r) /\ b[j] \subseteq Offset
      BY <2>1, <2>12, <3>1 DEF Storage, Block
    <3>3. o + r \in Offset => (d \in Positions(b) <=> o + r \in b[j])
      <4>1. d = At(j, o + r)
        BY <2>3, <2>6, <2>9 DEF At
      <4> QED
        BY <3>1, <4>1, PositionIff
    <3>4. o + r \notin Offset => d \notin Positions(b)
      <4>1. o + r \notin Offset => o + r >= bits_per_block
        BY <2>3, BitsPerBlockAssumption DEF Offset
      <4>2. (j + 1) * bits_per_block = (j * bits_per_block) + bits_per_block /\ j + 1 = k
        BY <2>3, <2>12, BitsPerBlockAssumption
      <4> QED
        BY <2>3, <2>6, <2>8, <2>9, <4>1, <4>2, BitsPerBlockAssumption
    <3> QED
      BY <2>4, <3>2, <3>3, <3>4 DEF shr
  <2>13. CASE j < k - 1 /\ r # 0
    <3>1. j \in 0 .. k - 2 /\ ~((k - 1) - q < i) /\ i # (k - 1) - q
      BY <1>1, <2>3, <2>13 DEF j
    <3>2. o \in straddled_block(b, j, bits_per_block - r, r) <=> At(j, o) + r \in Positions(b)
      BY <1>1, <2>13, <3>1, StraddledPositions
    <3> QED
      BY <2>1, <2>4, <2>6, <2>13, <3>1, <3>2
  <2> QED
    BY <2>3, <2>10, <2>11, <2>12, <2>13
<1>5. S \in SUBSET Span(k)
  OBVIOUS
<1> HIDE DEF c, S
<1>6. Positions(c) = S
  BY <1>2, <1>4, <1>5, PositionsAre
<1> QED
  BY <1>6 DEF c, S

\* What goes out below the first block comes in above the last.
LEMMA BlocksRotatedPositions ==
    ASSUME NEW k \in Nat, NEW b \in Storage(k), NEW R_shift \in Offset, R_shift # 0
    PROVE  Positions(blocks_rotated_down(b, R_shift)) =
               {p \in Span(k) : \/ p + R_shift \in Positions(b)
                                \/ p + R_shift - k * bits_per_block \in Positions(b)}
<1> DEFINE L_shift == bits_per_block - R_shift
           extent == k * bits_per_block
           c == blocks_rotated_down(b, R_shift)
           S == {p \in Span(k) : p + R_shift \in Positions(b) \/ p + R_shift - extent \in Positions(b)}
<1>1. DOMAIN b = 0 .. k - 1 /\ last_block(b) = k - 1 /\ extent \in Nat
  BY NumBlocks, WholeWidth
<1>2. c \in Storage(k)
  BY BlocksRotatedType
<1>3. \A p \in Positions(b) : p \in Nat /\ p < extent
  BY <1>1, PositionsBelow DEF Span
<1>4. ASSUME NEW i \in 0 .. k - 1, NEW o \in Offset
      PROVE  o \in c[i] <=> At(i, o) \in S
  <2> DEFINE p == At(i, o)
  <2>1. c[i] = IF i = k - 1 THEN shl(b[0], L_shift) \cup shr(b[i], R_shift)
               ELSE straddled_block(b, i, L_shift, R_shift)
    BY <1>1 DEF blocks_rotated_down
  <2>2. p \in Span(k)
    BY PositionIff
  <2>3. i \in Nat /\ p \in Nat /\ o \in Nat /\ R_shift \in Nat
        /\ R_shift < bits_per_block /\ o < bits_per_block
    BY AtUnique, BitsPerBlockAssumption DEF Offset
  <2>4. p = i * bits_per_block + o /\ i * bits_per_block \in Nat
    BY <2>3, WholeWidth DEF At
  <2>5. (i + 1) * bits_per_block = (i * bits_per_block) + bits_per_block
    BY <2>3, BitsPerBlockAssumption
  <2>6. p \in S <=> p + R_shift \in Positions(b) \/ p + R_shift - extent \in Positions(b)
    BY <2>2
  <2> HIDE DEF p, S, c
  <2>7. CASE i = k - 1
    <3>1. extent = (i * bits_per_block) + bits_per_block
      BY <2>5, <2>7
    <3>2. /\ 0 \in 0 .. k - 1 /\ b[0] \subseteq Offset /\ b[i] \subseteq Offset
      BY <2>7 DEF Storage, Block
    <3> HIDE DEF extent
    <3>3. p + R_shift - extent = o - L_shift
      BY <2>3, <2>4, <3>1, BitsPerBlockAssumption
    <3>4. o - L_shift \in Positions(b) <=> o - L_shift \in b[0]
      <4>1. CASE o - L_shift \in Offset
        <5>1. At(0, o - L_shift) = o - L_shift
          BY <4>1, BitsPerBlockAssumption DEF At, Offset
        <5> QED
          BY <3>2, <4>1, <5>1, PositionIff
      <4>2. CASE o - L_shift \notin Offset
        <5>1. o - L_shift < 0
          BY <2>3, <4>2, BitsPerBlockAssumption DEF Offset
        <5> DEFINE e == o - L_shift
        <5> HIDE DEF e
        <5>2. e \notin Positions(b)
          BY <1>3, <5>1 DEF e
        <5> QED
          BY <3>2, <4>2, <5>2 DEF e
      <4> QED
        BY <4>1, <4>2
    <3>5. p + R_shift \in Positions(b) <=> o + R_shift \in b[i]
      <4>1. CASE o + R_shift \in Offset
        <5>1. At(i, o + R_shift) = p + R_shift
          BY <2>3, <2>4 DEF At
        <5> QED
          BY <4>1, <5>1, PositionIff
      <4>2. CASE o + R_shift \notin Offset
        <5>1. p + R_shift >= extent
          BY <2>3, <2>4, <3>1, <4>2, BitsPerBlockAssumption DEF Offset
        <5> QED
          BY <1>1, <1>3, <2>3, <3>2, <4>2, <5>1 DEF extent
      <4> QED
        BY <4>1, <4>2
    <3> HIDE DEF L_shift
    <3>6. o \in c[i] <=> o - L_shift \in b[0] \/ o + R_shift \in b[i]
      BY <2>1, <2>7 DEF shl, shr
    <3> QED
      BY <2>6, <3>3, <3>4, <3>5, <3>6 DEF p
  <2>8. CASE i # k - 1
    <3>1. i \in 0 .. k - 2
      BY <2>3, <2>8
    <3>2. o \in straddled_block(b, i, L_shift, R_shift) <=> p + R_shift \in Positions(b)
      BY <3>1, StraddledPositions DEF p
    <3>3. (i + 1) * bits_per_block + 0 < extent
      BY <2>3, <3>1, BlockBelow, BitsPerBlockAssumption DEF Offset
    <3> HIDE DEF extent, L_shift
    <3>4. p + R_shift - extent < 0
      BY <1>1, <2>3, <2>4, <2>5, <3>3, BitsPerBlockAssumption DEF extent
    <3> DEFINE e == p + R_shift - extent
    <3>5. e \notin Positions(b)
      <4>1. e < 0
        BY <3>4
      <4> HIDE DEF e
      <4> QED
        BY <1>3, <4>1
    <3> QED
      BY <2>1, <2>6, <2>8, <3>2, <3>5 DEF p
  <2> QED
    BY <2>7, <2>8
<1>5. S \in SUBSET Span(k)
  OBVIOUS
<1> HIDE DEF c, S
<1>6. Positions(c) = S
  BY <1>2, <1>4, <1>5, PositionsAre
<1> QED
  BY <1>6 DEF c, S

\* The same of whole blocks, by q of them.
LEMMA BlockwisePositions ==
    ASSUME NEW k \in Nat, NEW b \in Storage(k), NEW q \in 0 .. k - 1,
           NEW c \in Storage(k), \A i \in 0 .. k - 1 : c[i] = b[(i + q) % k]
    PROVE  Positions(c) =
               {p \in Span(k) : \/ p + q * bits_per_block \in Positions(b)
                                \/ p + q * bits_per_block - k * bits_per_block \in Positions(b)}
<1> DEFINE extent == k * bits_per_block
           Q == q * bits_per_block
           S == {p \in Span(k) : p + Q \in Positions(b) \/ p + Q - extent \in Positions(b)}
<1>1. extent \in Nat /\ Q \in Nat
  BY WholeWidth
<1>2. \A p \in Positions(b) : p \in Nat /\ p < extent
  BY <1>1, PositionsBelow DEF Span
<1>3. ASSUME NEW i \in 0 .. k - 1, NEW o \in Offset
      PROVE  o \in c[i] <=> At(i, o) \in S
  <2> DEFINE p == At(i, o)
             j == (i + q) % k
  <2>1. j = IF i + q < k THEN i + q ELSE i + q - k
    <3>1. k \in Nat \ {0}
      OBVIOUS
    <3> QED
      BY <3>1, RemainderOnce
  <2>2. j \in 0 .. k - 1
    BY <2>1
  <2>3. o \in c[i] <=> At(j, o) \in Positions(b)
    BY <2>2, PositionIff
  <2>4. p \in Span(k) /\ p \in Nat /\ At(j, o) \in Nat /\ At(j, o) < extent
    BY <1>1, <2>2, PositionIff, AtUnique DEF Span
  <2>5. p \in S <=> p + Q \in Positions(b) \/ p + Q - extent \in Positions(b)
    BY <2>4
  <2>6. /\ (i + q) * bits_per_block = (i * bits_per_block) + Q
        /\ (i + q - k) * bits_per_block = ((i * bits_per_block) + Q) - extent
        /\ i * bits_per_block \in Nat
    BY BitsPerBlockAssumption
  <2>7. i + q < k => At(j, o) = p + Q
    <3>1. i + q < k => At(j, o) = ((i + q) * bits_per_block) + o
      BY <2>1 DEF At
    <3> HIDE DEF Q, j
    <3> QED
      BY <1>1, <2>6, <3>1, BitsPerBlockAssumption DEF At, Offset
  <2>8. ~(i + q < k) => At(j, o) = p + Q - extent
    <3>1. ~(i + q < k) => At(j, o) = ((i + q - k) * bits_per_block) + o
      BY <2>1 DEF At
    <3> HIDE DEF Q, extent, j
    <3> QED
      BY <1>1, <2>6, <3>1, BitsPerBlockAssumption DEF At, Offset
  <2> HIDE DEF p, S, j, extent, Q
  <2>9. CASE i + q < k
    <3>1. p + Q - extent \notin Positions(b)
      BY <1>1, <1>2, <2>4, <2>7, <2>9
    <3> QED
      BY <2>3, <2>5, <2>7, <2>9, <3>1 DEF p
  <2>10. CASE ~(i + q < k)
    <3>1. p + Q \notin Positions(b)
      BY <1>1, <1>2, <2>4, <2>8, <2>10
    <3> QED
      BY <2>3, <2>5, <2>8, <2>10, <3>1 DEF p
  <2> QED
    BY <2>9, <2>10
<1>4. S \in SUBSET Span(k)
  OBVIOUS
<1> HIDE DEF S
<1>5. Positions(c) = S
  BY <1>3, <1>4, PositionsAre
<1> QED
  BY <1>5 DEF S

\* So the two passes of a rotation turn the blocks by n positions.
LEMMA TurnedPositions ==
    ASSUME NEW k \in Nat, NEW b \in Storage(k), NEW n \in Nat, n < k * bits_per_block,
           NEW c \in Storage(k),
           \A i \in 0 .. k - 1 : c[i] = b[(i + n \div bits_per_block) % k],
           NEW t, t = IF n % bits_per_block # 0
                      THEN blocks_rotated_down(c, n % bits_per_block)
                      ELSE c
    PROVE  /\ t \in Storage(k)
           /\ Positions(t) = {p \in Span(k) : \/ p + n \in Positions(b)
                                              \/ p + n - k * bits_per_block \in Positions(b)}
<1> DEFINE extent == k * bits_per_block
           q == n \div bits_per_block
           r == n % bits_per_block
           Q == q * bits_per_block
           P == Positions(b)
<1>1. n \in Span(k) /\ extent \in Nat
  BY WholeWidth DEF Span
<1>2. q \in 0 .. k - 1 /\ r \in Offset /\ n = Q + r
  BY <1>1, SplitPosition DEF index, offset, At
<1>3. Q \in Nat /\ r \in Nat
  BY <1>2, WholeWidth, BitsPerBlockAssumption DEF Offset
<1>4. Positions(c) = {p \in Span(k) : p + Q \in P \/ p + Q - extent \in P}
  <2>1. \A i \in 0 .. k - 1 : c[i] = b[(i + q) % k]
    OBVIOUS
  <2> HIDE DEF q
  <2> QED
    BY <1>2, <2>1, BlockwisePositions
<1>5. \A p \in P : p \in Nat /\ p < extent
  BY <1>1, PositionsBelow DEF Span
<1>6. \A p : p \in Span(k) <=> p \in Nat /\ p < extent
  BY <1>1 DEF Span
<1>7. CASE r = 0
  <2>1. t = c /\ n = Q
    BY <1>2, <1>3, <1>7
  <2> QED
    BY <1>4, <2>1
<1>8. CASE r # 0
  <2>1. t = blocks_rotated_down(c, r) /\ t \in Storage(k)
    BY <1>8, BlocksRotatedType
  <2>2. Positions(t) = {p \in Span(k) : p + r \in Positions(c) \/ p + r - extent \in Positions(c)}
    BY <1>2, <1>8, <2>1, BlocksRotatedPositions
  <2>3. ASSUME NEW p \in Span(k)
        PROVE  p + r \in Positions(c) \/ p + r - extent \in Positions(c)
                   <=> p + n \in P \/ p + n - extent \in P
    <3> DEFINE x == p + r
               y == p + r - extent
               u == p + n
               v == p + n - extent
               w == p + n - extent - extent
    <3>1. p \in Nat /\ p < extent /\ n < extent
      BY <1>6
    <3> HIDE DEF extent, Q, P, q, r
    <3>2. /\ x \in Nat /\ y \in Int /\ u \in Nat /\ v \in Int /\ w \in Int
          /\ x + Q = u /\ x + Q - extent = v /\ y + Q = v /\ y + Q - extent = w /\ w < 0
          /\ y < extent
      BY <1>1, <1>2, <1>3, <3>1, BitsPerBlockAssumption DEF Offset
    <3>3. x < extent <=> y < 0
      BY <1>1, <1>3, <3>1
    <3>4. y >= 0 => u >= extent
      BY <1>1, <1>2, <1>3, <3>1
    <3>5. x \in Positions(c) <=> x < extent /\ (u \in P \/ v \in P)
      BY <1>4, <1>6, <3>2
    <3>6. y \in Positions(c) <=> y >= 0 /\ (v \in P \/ w \in P)
      BY <1>4, <1>6, <3>2
    <3> HIDE DEF x, y, u, v, w
    <3>7. w \notin P /\ (u >= extent => u \notin P)
      BY <1>1, <1>5, <3>2
    <3>8. x \in Positions(c) \/ y \in Positions(c) <=> u \in P \/ v \in P
      BY <1>1, <3>2, <3>3, <3>4, <3>5, <3>6, <3>7
    <3> QED
      BY <3>8 DEF x, y, u, v
  <2> HIDE DEF P, extent, r
  <2>4. Positions(t) = {p \in Span(k) : p + n \in P \/ p + n - extent \in P}
    BY <2>2, <2>3
  <2> QED
    BY <2>1, <2>4 DEF P, extent, r
<1> QED
  BY <1>7, <1>8

\* Closing the padding brings the top n positions of the blocks below the width.
LEMMA PaddingClosedPositions ==
    ASSUME NEW k \in Nat, NEW b \in Storage(k), NEW size \in Nat, size <= k * bits_per_block,
           NEW n \in Nat, n <= size
    PROVE  Positions(padding_closed(b, size, n)) =
               {p \in Span(k) : IF size - n <= p /\ p < size
                                THEN p + (k * bits_per_block - size) \in Positions(b)
                                ELSE p \in Positions(b)}
<1> DEFINE extent == k * bits_per_block
           gap == extent - size
           c == padding_closed(b, size, n)
           S == {p \in Span(k) : IF size - n <= p /\ p < size
                                 THEN p + gap \in Positions(b) ELSE p \in Positions(b)}
<1>1. DOMAIN b = 0 .. k - 1 /\ num_bits(b) = extent /\ extent \in Nat
  BY NumBlocks, WholeWidth
<1>2. c \in Storage(k)
  BY PaddingClosedType
<1>3. ASSUME NEW i \in 0 .. k - 1, NEW o \in Offset
      PROVE  o \in c[i] <=> At(i, o) \in S
  <2> DEFINE p == At(i, o)
  <2>1. p \in Span(k) /\ p \in Nat /\ (p \in Positions(b) <=> o \in b[i])
    BY PositionIff DEF Span
  <2>2. o \in c[i] <=> IF size - n <= p /\ p < size THEN BitAt(b, p + gap) ELSE o \in b[i]
    BY <1>1 DEF padding_closed, At
  <2>3. p < size => (BitAt(b, p + gap) <=> p + gap \in Positions(b))
    <3>1. p < size => p + gap \in 0 .. extent - 1
      BY <1>1, <2>1
    <3>2. p < size => p + gap \in 0 .. num_bits(b) - 1
      BY <1>1, <3>1
    <3> QED
      BY <3>2 DEF Positions
  <2> HIDE DEF p, gap, c
  <2> QED
    BY <2>1, <2>2, <2>3 DEF p
<1>4. S \in SUBSET Span(k)
  OBVIOUS
<1> HIDE DEF c, S
<1>5. Positions(c) = S
  BY <1>2, <1>3, <1>4, PositionsAre
<1> QED
  BY <1>5 DEF c, S

\* A rotation of size positions by n: what a caller sees of it has no blocks,
\* no gap and no tail.
LEMMA RotatedPositions ==
    ASSUME NEW size \in Nat, NEW b \in Storage(blocks_for(size)), TailClear(b, size), NEW n \in Nat
    PROVE  Positions(rotated(b, size, n)) = {p \in 0 .. size - 1 : (p + n) % size \in Positions(b)}
<1> DEFINE k == blocks_for(size)
           extent == k * bits_per_block
           gap == extent - size
           m == modulo_width(n, size)
           P == Positions(b)
           blockwise == [i \in DOMAIN b |-> b[(i + m \div bits_per_block) % num_blocks(b)]]
           turned == IF m % bits_per_block # 0
                     THEN blocks_rotated_down(blockwise, m % bits_per_block)
                     ELSE blockwise
           closed == IF has_unused_bits(b, size) THEN padding_closed(turned, size, m) ELSE turned
           S == {p \in 0 .. size - 1 : (p + n) % size \in P}
<1>1. /\ k \in Nat /\ DOMAIN b = 0 .. k - 1 /\ num_blocks(b) = k /\ num_bits(b) = extent
      /\ extent \in Nat
  BY BlocksForBounds, NumBlocks, WholeWidth
<1>2. size <= extent
  BY BlocksForBounds
<1>3. P \subseteq 0 .. size - 1
  BY <1>1, ClearBelow
<1>4. m \in Nat /\ (size # 0 => m < size)
  BY DEF modulo_width
<1>5. ASSUME NEW p \in 0 .. size - 1
      PROVE  (p + n) % size = IF p + m < size THEN p + m ELSE p + m - size
  <2>1. size \in Nat \ {0} /\ m = n % size
    BY DEF modulo_width
  <2>2. (p + n) % size = IF p + (n % size) < size THEN p + (n % size) ELSE p + (n % size) - size
    BY <2>1, RemainderOfSum
  <2> HIDE DEF m
  <2> QED
    BY <2>1, <2>2
<1>6. rotated(b, size, n) = IF m = 0 THEN b ELSE erase_unused(closed, size)
  BY DEF rotated, rotated_down
<1>7. CASE m = 0
  <2> HIDE DEF m, P
  <2>1. ASSUME NEW p \in 0 .. size - 1 PROVE (p + n) % size = p
    <3>1. (p + n) % size = IF p + m < size THEN p + m ELSE p + m - size
      BY <1>5
    <3>2. p + m = p /\ p < size
      BY <1>7
    <3> QED
      BY <3>1, <3>2
  <2>2. rotated(b, size, n) = b
    BY <1>6, <1>7
  <2> QED
    BY <1>3, <2>1, <2>2 DEF P
<1>8. CASE m # 0
  <2>1. size # 0 /\ m < size /\ m < extent
    BY <1>1, <1>2, <1>4, <1>8 DEF modulo_width
  <2>2. blockwise \in Storage(k) /\ \A i \in 0 .. k - 1 : blockwise[i] = b[(i + m \div bits_per_block) % k]
    <3>1. \A i \in 0 .. k - 1 : blockwise[i] = b[(i + m \div bits_per_block) % k]
      BY <1>1
    <3>2. ASSUME NEW i \in 0 .. k - 1 PROVE (i + m \div bits_per_block) % k \in 0 .. k - 1
      <4>1. i + m \div bits_per_block \in Nat /\ k \in Nat \ {0}
        BY <1>1, <1>4, BitsPerBlockAssumption
      <4> QED
        BY <4>1
    <3>3. \A i \in 0 .. k - 1 : blockwise[i] \in Block
      BY <3>1, <3>2 DEF Storage
    <3>4. blockwise = [i \in 0 .. k - 1 |-> blockwise[i]]
      BY <1>1
    <3> HIDE DEF blockwise
    <3> QED
      BY <3>1, <3>3, <3>4 DEF Storage
  <2> HIDE DEF k, m, blockwise
  <2>3. /\ turned \in Storage(k)
        /\ Positions(turned) = {p \in Span(k) : p + m \in P \/ p + m - extent \in P}
    <3>1. turned = IF m % bits_per_block # 0
                   THEN blocks_rotated_down(blockwise, m % bits_per_block)
                   ELSE blockwise
      OBVIOUS
    <3>2. b \in Storage(k)
      BY DEF k
    <3> HIDE DEF turned
    <3> QED
      BY <1>1, <1>4, <2>1, <2>2, <3>1, <3>2, TurnedPositions
  <2> HIDE DEF turned
  <2>4. Positions(padding_closed(turned, size, m)) =
            {p \in Span(k) : IF size - m <= p /\ p < size
                             THEN p + gap \in Positions(turned) ELSE p \in Positions(turned)}
    BY <1>1, <1>2, <1>4, <2>1, <2>3, PaddingClosedPositions
  <2>5. closed \in Storage(k)
    BY <1>1, <2>3, PaddingClosedType
  <2>6. Positions(rotated(b, size, n)) = {p \in Positions(closed) : p < size}
    BY <1>6, <1>8, <2>5, ErasedPositions DEF k
  <2>7. \A p : p \in Span(k) <=> p \in Nat /\ p < extent
    BY <1>1 DEF Span
  <2>8. Positions(closed) \subseteq Span(k)
    BY <1>1, <2>5, PositionsBelow
  <2>9. ASSUME NEW p \in 0 .. size - 1
        PROVE  p \in Positions(closed) <=> (p + n) % size \in P
    <3> DEFINE u == p + m
               v == p + m - size
               w == p + m - extent
               x == p + gap
               y == p + gap + m
    <3>1. p \in Nat /\ p < size /\ p < extent
      BY <1>2, <1>1
    <3> HIDE DEF extent, P
    <3>2. /\ u \in Nat /\ v \in Int /\ w \in Int /\ x \in Nat /\ y \in Nat /\ x < extent
          /\ x + m = y /\ x + m - extent = v /\ p + m = u /\ p + m - extent = w
          /\ y = u + gap /\ w <= v
      BY <1>1, <1>2, <1>4, <3>1
    <3>3. u < size => w < 0
      BY <1>1, <1>2, <1>4, <3>1
    <3>4. size - m <= p <=> u >= size
      BY <1>4, <3>1
    <3>5. u >= size => y >= extent
      BY <1>1, <3>2
    <3>6. p \in Span(k) /\ x \in Span(k)
      BY <2>7, <3>1, <3>2
    <3>7. /\ p \in Positions(turned) <=> u \in P \/ w \in P
          /\ x \in Positions(turned) <=> y \in P \/ v \in P
      BY <2>3, <3>2, <3>6
    <3>8. (p + n) % size = IF u < size THEN u ELSE v
      BY <1>5
    <3>9. /\ has_unused_bits(b, size) =>
                (p \in Positions(closed) <=> IF size - m <= p /\ p < size
                                             THEN x \in Positions(turned)
                                             ELSE p \in Positions(turned))
          /\ ~has_unused_bits(b, size) => (p \in Positions(closed) <=> p \in Positions(turned))
      BY <2>4, <3>6
    <3>10. ~has_unused_bits(b, size) => extent = size /\ w = v
      BY <1>1, <3>2 DEF has_unused_bits
    <3>11. \A z \in P : z \in Nat /\ z < size
      BY <1>3
    <3> HIDE DEF closed, turned, u, v, w, x, y, gap
    <3>12. (u < size => w \notin P) /\ (u >= size => u \notin P) /\ (y >= extent => y \notin P)
      BY <1>1, <1>2, <3>2, <3>3, <3>11
    <3>13. CASE u < size
      <4>1. ~(size - m <= p)
        BY <3>2, <3>4, <3>13
      <4> QED
        BY <3>7, <3>8, <3>9, <3>12, <3>13, <4>1
    <3>14. CASE u >= size
      <4>1. size - m <= p /\ p < size /\ ~(u < size) /\ u \notin P /\ y \notin P
        BY <3>1, <3>2, <3>4, <3>5, <3>12, <3>14
      <4>2. CASE has_unused_bits(b, size)
        BY <3>7, <3>8, <3>9, <4>1, <4>2
      <4>3. CASE ~has_unused_bits(b, size)
        BY <3>7, <3>8, <3>9, <3>10, <4>1, <4>3
      <4> QED
        BY <4>2, <4>3
    <3> QED
      BY <3>2, <3>13, <3>14
  <2> HIDE DEF closed, P
  <2>10. {p \in Positions(closed) : p < size} = S
    <3>1. \A p \in Positions(closed) : p \in Nat
      BY <2>7, <2>8
    <3> QED
      BY <2>9, <3>1
  <2> QED
    BY <2>6, <2>10 DEF P
<1> QED
  BY <1>7, <1>8

\* A reversal exchanges position p with size - 1 - p.
LEMMA EndForEndPositions ==
    ASSUME NEW size \in Nat, NEW b \in Storage(blocks_for(size)), TailClear(b, size)
    PROVE  Positions(end_for_end(b, size)) = {p \in 0 .. size - 1 : size - 1 - p \in Positions(b)}
<1> DEFINE k == blocks_for(size)
           extent == k * bits_per_block
           gap == extent - size
           P == Positions(b)
           turned == [i \in DOMAIN b |-> reversed(b[last_block(b) - i])]
           T == {p \in Span(k) : extent - 1 - p \in P}
<1>1. /\ k \in Nat /\ DOMAIN b = 0 .. k - 1 /\ last_block(b) = k - 1 /\ num_bits(b) = extent
      /\ extent \in Nat
  BY BlocksForBounds, NumBlocks, WholeWidth
<1>2. size <= extent /\ extent < size + bits_per_block
  BY BlocksForBounds
<1>3. P \subseteq 0 .. size - 1
  BY <1>1, ClearBelow
<1>4. turned \in Storage(k)
  BY BlockOperators DEF Storage
<1>5. Positions(turned) = T
  <2>1. ASSUME NEW i \in 0 .. k - 1, NEW o \in Offset
        PROVE  o \in turned[i] <=> At(i, o) \in T
    <3> DEFINE j == k - 1 - i
               u == left_bit - o
    <3>1. j \in 0 .. k - 1 /\ u \in Offset
      BY <1>1, BitsPerBlockAssumption DEF left_bit, Offset
    <3>2. o \in turned[i] <=> u \in b[j]
      BY <1>1 DEF reversed
    <3>3. At(j, u) \in P <=> u \in b[j]
      BY <1>1, <3>1, PositionIff
    <3>4. At(j, u) = extent - 1 - At(i, o)
      <4>1. /\ j * bits_per_block = (extent - bits_per_block) - i * bits_per_block
            /\ i * bits_per_block \in Int
        <5> HIDE DEF k
        <5> QED
          BY <1>1, BitsPerBlockAssumption
      <4>2. At(j, u) = j * bits_per_block + u /\ At(i, o) = i * bits_per_block + o
        BY DEF At
      <4> HIDE DEF extent, k, j
      <4> QED
        BY <1>1, <4>1, <4>2, BitsPerBlockAssumption DEF left_bit, Offset
    <3>5. At(i, o) \in Span(k)
      BY <1>1, PositionIff
    <3> QED
      BY <3>2, <3>3, <3>4, <3>5
  <2> HIDE DEF turned, T, k
  <2>2. T \in SUBSET Span(k)
    BY DEF T
  <2> QED
    BY <1>1, <1>4, <2>1, <2>2, PositionsAre
<1>6. \A p : p \in Span(k) <=> p \in Nat /\ p < extent
  BY <1>1 DEF Span
<1>7. CASE num_bits(b) = size
  <2>1. end_for_end(b, size) = turned /\ extent = size
    BY <1>1, <1>7 DEF end_for_end, has_unused_bits
  <2>2. Span(k) = 0 .. size - 1
    BY <2>1 DEF Span
  <2> HIDE DEF turned, extent, P
  <2> QED
    BY <1>5, <2>1, <2>2 DEF P
<1>8. CASE num_bits(b) # size
  <2>1. end_for_end(b, size) = blocks_rotated_down(turned, gap)
    BY <1>1, <1>8 DEF end_for_end, has_unused_bits
  <2>2. gap \in Offset /\ gap # 0
    <3> HIDE DEF extent
    <3> QED
      BY <1>1, <1>2, <1>8, BitsPerBlockAssumption DEF Offset
  <2> HIDE DEF turned, k, T
  <2>3. Positions(end_for_end(b, size)) = {p \in Span(k) : p + gap \in T \/ p + gap - extent \in T}
    <3> HIDE DEF gap
    <3> QED
      BY <1>1, <1>4, <1>5, <2>1, <2>2, BlocksRotatedPositions
  <2>4. ASSUME NEW p \in Span(k)
        PROVE  p + gap \in T \/ p + gap - extent \in T <=> p < size /\ size - 1 - p \in P
    <3> DEFINE x == p + gap
               y == p + gap - extent
               u == size - 1 - p
               v == extent + (size - 1 - p)
    <3>1. p \in Nat /\ p < extent
      BY <1>6
    <3> HIDE DEF extent, P
    <3>2. /\ x \in Nat /\ y \in Int /\ u \in Int /\ v \in Int
          /\ extent - 1 - x = u /\ extent - 1 - y = v
          /\ y < 0 <=> p < size
          /\ x < extent <=> p < size
          /\ y >= 0 => v >= 0
      BY <1>1, <1>2, <3>1
    <3>3. y >= 0 => v >= size \/ v >= 0
      BY <3>2
    <3>4. x \in T <=> x < extent /\ u \in P
      BY <1>6, <3>2 DEF T
    <3>5. y \in T <=> y >= 0 /\ v \in P
      BY <1>6, <1>1, <3>2, <3>1 DEF T
    <3>6. v >= size
      BY <1>1, <1>2, <3>1
    <3> HIDE DEF x, y, u, v
    <3>7. v \notin P
      BY <1>3, <3>2, <3>6
    <3>8. x \in T \/ y \in T <=> p < size /\ u \in P
      BY <3>2, <3>4, <3>5, <3>7
    <3> QED
      BY <3>8 DEF x, y, u
  <2>5. {p \in Span(k) : p < size /\ size - 1 - p \in P} = {p \in 0 .. size - 1 : size - 1 - p \in P}
    BY <1>1, <1>2, <1>6
  <2> HIDE DEF P
  <2>6. {p \in Span(k) : p + gap \in T \/ p + gap - extent \in T} =
            {p \in Span(k) : p < size /\ size - 1 - p \in P}
    BY <2>4
  <2> QED
    BY <2>3, <2>5, <2>6 DEF P
<1> QED
  BY <1>7, <1>8

\* A position is below the width.
LEMMA KeysBelow ==
    ASSUME NEW k \in Nat, NEW b \in Storage(k), NEW size \in Nat, TailClear(b, size),
           NEW p \in Positions(b)
    PROVE  p \in Nat /\ p < size
<1>1. p \in 0 .. size - 1
  BY ClearBelow
<1> QED
  BY <1>1

(***************************************************************************)
(* The scans: what each finds is the first, or the last, of the positions  *)
(* it is to search, and the width if there are none.                       *)
(***************************************************************************)
IsFirst(T, r, none_found) ==
    IF T = {} THEN r = none_found ELSE r \in T /\ \A p \in T : r <= p

IsLast(T, r, none_found) ==
    IF T = {} THEN r = none_found ELSE r \in T /\ \A p \in T : p <= r

\* The first position of a block, and the distance between two of them.
LEMMA BaseOf ==
    ASSUME NEW i \in Nat
    PROVE  /\ base(i) \in Nat
           /\ \A o \in Offset : At(i, o) = base(i) + o
           /\ \A j \in 0 .. i : base(i - j) = base(i) - base(j)
           /\ base(i + 1) = base(i) + bits_per_block
           /\ i > 0 => base(i - 1) = base(i) - bits_per_block
<1>1. base(i) \in Nat /\ base(i) = i * bits_per_block
  BY BitsPerBlockAssumption DEF base
<1>2. \A o \in Offset : At(i, o) = base(i) + o
  BY <1>1 DEF At
<1>3. \A j \in 0 .. i : base(i - j) = base(i) - base(j)
  BY BitsPerBlockAssumption DEF base
<1>4. base(i + 1) = base(i) + bits_per_block
  BY BitsPerBlockAssumption DEF base
<1>5. i > 0 => base(i - 1) = base(i) - bits_per_block
  BY BitsPerBlockAssumption DEF base
<1> QED
  BY <1>1, <1>2, <1>3, <1>4, <1>5

\* A position of blocks is an offset that a block holds.
LEMMA HeldPosition ==
    ASSUME NEW k \in Nat, NEW b \in Storage(k), NEW p \in Positions(b)
    PROVE  \E i \in 0 .. k - 1 : \E o \in b[i] : o \in Offset /\ p = At(i, o)
<1>1. p \in Span(k)
  BY PositionsBelow
<1>2. index(p) \in 0 .. k - 1 /\ offset(p) \in Offset /\ p = At(index(p), offset(p))
  BY <1>1, SplitPosition
<1>3. offset(p) \in b[index(p)]
  BY <1>2, PositionIff
<1> QED
  BY <1>2, <1>3

\* The extremes of a set of blocks that hold a position, and of the block.
LEMMA SetBlocks ==
    ASSUME NEW k \in Nat, NEW b \in Storage(k), NEW lo \in Nat, NEW hi \in Int, hi < k,
           set_blocks(b, lo, hi) # {}
    PROVE  /\ Min(set_blocks(b, lo, hi)) \in set_blocks(b, lo, hi)
           /\ Max(set_blocks(b, lo, hi)) \in set_blocks(b, lo, hi)
           /\ \A i \in set_blocks(b, lo, hi) :
                 Min(set_blocks(b, lo, hi)) <= i /\ i <= Max(set_blocks(b, lo, hi))
<1> DEFINE S == set_blocks(b, lo, hi)
<1>1. S \in SUBSET (0 .. k) /\ S \in SUBSET Nat
  BY DEF set_blocks
<1> HIDE DEF S
<1> QED
  BY <1>1, MinExists, MaxExists DEF S

\* A block that holds a position, and its lowest and highest offset.
LEMMA BlockEndsAt ==
    ASSUME NEW k \in Nat, NEW b \in Storage(k), NEW i \in 0 .. k - 1, b[i] # zero
    PROVE  /\ countr_zero(b[i]) \in b[i] \cap Offset
           /\ (left_bit - countl_zero(b[i])) \in b[i] \cap Offset
           /\ countl_zero(b[i]) \in Int
           /\ \A o \in b[i] : countr_zero(b[i]) <= o /\ o <= left_bit - countl_zero(b[i])
<1>1. b[i] \in Block
  BY DEF Storage
<1>2. b[i] \in SUBSET (0 .. left_bit) /\ left_bit \in Nat /\ b[i] # {}
  BY <1>1, BitsPerBlockAssumption DEF Block, Offset, left_bit, zero
<1>3. countl_zero(b[i]) \in Int
  <2>1. Max(b[i]) \in b[i]
    BY <1>2, MaxExists
  <2> QED
    BY <1>2, <2>1 DEF countl_zero, zero
<1> QED
  BY <1>1, <1>3, BlockExtremes DEF Block

\* What is left of a block once the offsets below one are shifted out.
LEMMA ShiftedOut ==
    ASSUME NEW w \in Block, NEW n \in Offset
    PROVE  /\ shr(w, n) = zero => \A o \in w : o < n
           /\ shr(w, n) # zero =>
                 /\ countr_zero(shr(w, n)) + n \in w
                 /\ countr_zero(shr(w, n)) \in Nat
                 /\ \A o \in w : n <= o => countr_zero(shr(w, n)) + n <= o
<1>0. n \in Nat /\ w \in SUBSET Offset /\ \A o \in Offset : o \in Nat /\ o < bits_per_block
  BY BitsPerBlockAssumption DEF Block, Offset
<1>1. \A o \in w : n <= o => (o - n) \in Offset /\ (o - n) + n = o
  BY <1>0, BitsPerBlockAssumption DEF Offset
<1>2. \A o \in w : n <= o => (o - n) \in shr(w, n)
  BY <1>1 DEF shr
<1>3. shr(w, n) \in Block
  BY DEF shr, Block
<1>4. CASE shr(w, n) = zero
  BY <1>0, <1>2, <1>4 DEF zero
<1>5. CASE shr(w, n) # zero
  <2>1. /\ countr_zero(shr(w, n)) \in shr(w, n)
        /\ \A o \in shr(w, n) : countr_zero(shr(w, n)) <= o
    BY <1>3, <1>5, BlockExtremes
  <2>2. countr_zero(shr(w, n)) \in Offset /\ countr_zero(shr(w, n)) + n \in w
    BY <2>1 DEF shr
  <2>3. ASSUME NEW o \in w, n <= o PROVE countr_zero(shr(w, n)) + n <= o
    <3> DEFINE c == countr_zero(shr(w, n))
    <3>1. c <= o - n
      BY <1>2, <2>1, <2>3
    <3>2. o \in Nat /\ c \in Nat
      BY <1>0, <2>2
    <3> HIDE DEF c
    <3>3. c + n <= o
      BY <1>0, <3>1, <3>2
    <3> QED
      BY <3>3 DEF c
  <2> QED
    BY <1>0, <1>5, <2>2, <2>3
<1> QED
  BY <1>4, <1>5

\* And once those above one are.
LEMMA ShiftedOutAbove ==
    ASSUME NEW w \in Block, NEW n \in Offset
    PROVE  LET here == shl(w, left_bit - n)
           IN  /\ here = zero => \A o \in w : n < o
               /\ here # zero => /\ n - countl_zero(here) \in w
                                 /\ countl_zero(here) \in Int
                                 /\ \A o \in w : o <= n => o <= n - countl_zero(here)
<1> DEFINE here == shl(w, left_bit - n)
<1>0. /\ n \in Nat /\ w \in SUBSET Offset /\ left_bit \in Nat /\ Offset = 0 .. left_bit
      /\ left_bit - n \in Nat
  BY BitsPerBlockAssumption DEF Block, Offset, left_bit
<1>1. \A o \in w : o <= n => o + (left_bit - n) \in Offset /\ (o + (left_bit - n)) - (left_bit - n) = o
  BY <1>0
<1>2. \A o \in w : o <= n => o + (left_bit - n) \in here
  BY <1>1 DEF shl
<1>3. here \in Block /\ here \in SUBSET (0 .. left_bit)
  BY <1>0 DEF shl, Block
<1>4. CASE here = zero
  BY <1>0, <1>2, <1>4 DEF zero
<1>5. CASE here # zero
  <2>1. /\ left_bit - countl_zero(here) \in here
        /\ \A o \in here : o <= left_bit - countl_zero(here)
    BY <1>3, <1>5, BlockExtremes
  <2>2. Max(here) \in here
    BY <1>0, <1>3, <1>5, MaxExists DEF zero
  <2>3. countl_zero(here) \in Int
    BY <1>0, <1>3, <1>5, <2>2 DEF countl_zero
  <2>4. (left_bit - countl_zero(here)) - (left_bit - n) \in w
    BY <2>1 DEF shl
  <2> HIDE DEF here
  <2>5. (left_bit - countl_zero(here)) - (left_bit - n) = n - countl_zero(here)
    BY <1>0, <2>3
  <2>6. ASSUME NEW o \in w, o <= n PROVE o <= n - countl_zero(here)
    <3>1. o + (left_bit - n) <= left_bit - countl_zero(here)
      BY <1>2, <2>1, <2>6
    <3> QED
      BY <1>0, <2>3, <3>1
  <2> QED
    BY <1>5, <2>3, <2>4, <2>5, <2>6 DEF here
<1> QED
  BY <1>4, <1>5

\* The blocks from lo up hold the positions from its first: the lowest of the
\* first of them that holds any is the first position.
LEMMA FirstAbove ==
    ASSUME NEW k \in Nat, NEW b \in Storage(k), NEW lo \in Nat
    PROVE  LET later == set_blocks(b, lo, last_block(b))
               T == {p \in Positions(b) : \E i \in 0 .. k - 1, o \in Offset : lo <= i /\ p = At(i, o)}
           IN  /\ later = {} => T = {}
               /\ later # {} => /\ Min(later) \in lo .. k - 1
                                /\ countr_zero(b[Min(later)]) \in Offset
                                /\ At(Min(later), countr_zero(b[Min(later)])) \in T
                                /\ \A p \in T : At(Min(later), countr_zero(b[Min(later)])) <= p
<1> DEFINE later == set_blocks(b, lo, last_block(b))
           T == {p \in Positions(b) : \E i \in 0 .. k - 1, o \in Offset : lo <= i /\ p = At(i, o)}
           m == Min(later)
           c == countr_zero(b[m])
<1>1. last_block(b) = k - 1
  BY NumBlocks DEF last_block
<1>2. ASSUME NEW p \in T
      PROVE  \E i \in later, o \in Offset : p = At(i, o) /\ o \in b[i] /\ i \in Nat
  <2>1. PICK i \in 0 .. k - 1, o \in Offset : lo <= i /\ p = At(i, o)
    OBVIOUS
  <2>2. o \in b[i]
    BY <2>1, PositionIff
  <2>3. i \in later
    BY <1>1, <2>1, <2>2 DEF set_blocks, zero
  <2> QED
    BY <2>1, <2>2, <2>3
<1>3. CASE later = {}
  BY <1>2, <1>3
<1>4. CASE later # {}
  <2>1. m \in later /\ \A i \in later : m <= i
    BY <1>1, <1>4, SetBlocks
  <2>2. m \in lo .. k - 1 /\ m \in 0 .. k - 1 /\ b[m] # zero
    BY <1>1, <2>1 DEF set_blocks
  <2>3. c \in b[m] /\ c \in Offset /\ \A o \in b[m] : c <= o
    BY <2>2, BlockEndsAt
  <2> HIDE DEF m, c, later
  <2>4. At(m, c) \in T
    BY <2>2, <2>3, PositionIff
  <2>5. ASSUME NEW p \in T PROVE At(m, c) <= p
    <3>1. PICK i \in later, o \in Offset : p = At(i, o) /\ o \in b[i] /\ i \in Nat
      BY <1>2
    <3>2. m <= i /\ (m = i => c <= o)
      BY <2>1, <2>3, <3>1
    <3>3. m < i \/ (m = i /\ c <= o)
      BY <2>2, <3>1, <3>2
    <3> QED
      BY <2>2, <2>3, <3>1, <3>3, AtOrder
  <2> QED
    BY <1>4, <2>2, <2>3, <2>4, <2>5 DEF later, m, c
<1> QED
  BY <1>3, <1>4

\* And the blocks up to hi those before the next's first.
LEMMA LastBelow ==
    ASSUME NEW k \in Nat, NEW b \in Storage(k), NEW hi \in Int, hi < k
    PROVE  LET below == set_blocks(b, 0, hi)
               T == {p \in Positions(b) : \E i \in 0 .. k - 1, o \in Offset : i <= hi /\ p = At(i, o)}
               h == left_bit - countl_zero(b[Max(below)])
           IN  /\ below = {} => T = {}
               /\ below # {} => /\ Max(below) \in 0 .. hi
                                /\ countl_zero(b[Max(below)]) \in Int
                                /\ h \in Offset
                                /\ At(Max(below), h) \in T
                                /\ \A p \in T : p <= At(Max(below), h)
<1> DEFINE below == set_blocks(b, 0, hi)
           T == {p \in Positions(b) : \E i \in 0 .. k - 1, o \in Offset : i <= hi /\ p = At(i, o)}
           m == Max(below)
           h == left_bit - countl_zero(b[m])
<1>2. ASSUME NEW p \in T
      PROVE  \E i \in below, o \in Offset : p = At(i, o) /\ o \in b[i] /\ i \in Nat
  <2>1. PICK i \in 0 .. k - 1, o \in Offset : i <= hi /\ p = At(i, o)
    OBVIOUS
  <2>2. o \in b[i]
    BY <2>1, PositionIff
  <2>3. i \in below
    BY <2>1, <2>2 DEF set_blocks, zero
  <2> QED
    BY <2>1, <2>2, <2>3
<1>3. CASE below = {}
  BY <1>2, <1>3
<1>4. CASE below # {}
  <2>1. m \in below /\ \A i \in below : i <= m
    BY <1>4, SetBlocks
  <2>2. m \in 0 .. hi /\ m \in 0 .. k - 1 /\ b[m] # zero
    BY <2>1 DEF set_blocks
  <2>3. /\ h \in b[m] /\ h \in Offset /\ countl_zero(b[m]) \in Int
        /\ \A o \in b[m] : o <= h
    BY <2>2, BlockEndsAt
  <2> HIDE DEF m, h, below
  <2>4. At(m, h) \in T
    BY <2>2, <2>3, PositionIff
  <2>5. ASSUME NEW p \in T PROVE p <= At(m, h)
    <3>1. PICK i \in below, o \in Offset : p = At(i, o) /\ o \in b[i] /\ i \in Nat
      BY <1>2
    <3>2. i <= m /\ (i = m => o <= h)
      BY <2>1, <2>3, <3>1
    <3>3. i < m \/ (i = m /\ o <= h)
      BY <2>2, <3>1, <3>2
    <3> QED
      BY <2>2, <2>3, <3>1, <3>3, AtOrder
  <2> QED
    BY <1>4, <2>2, <2>3, <2>4, <2>5 DEF below, m, h
<1> QED
  BY <1>3, <1>4

\* The storage a scan is given: its width fits its blocks, and its tail is clear.
Scanned(b, size) ==
    /\ size \in Nat
    /\ b \in Storage(blocks_for(size))
    /\ TailClear(b, size)

\* Positions of a scanned block are natural numbers below the width.
LEMMA ScannedPositions ==
    ASSUME NEW b, NEW size, Scanned(b, size)
    PROVE  /\ size \in Nat /\ blocks_for(size) \in Nat /\ b \in Storage(blocks_for(size))
           /\ \A p \in Positions(b) : p \in Nat /\ p < size
           /\ \A n \in Nat : n < size =>
                 /\ index(n) \in 0 .. blocks_for(size) - 1 /\ offset(n) \in Offset
                 /\ n = At(index(n), offset(n)) /\ b[index(n)] \in Block
           /\ last_block(b) = blocks_for(size) - 1
<1> DEFINE k == blocks_for(size)
<1>1. size \in Nat /\ k \in Nat /\ b \in Storage(k) /\ k * bits_per_block \in Nat
      /\ size <= k * bits_per_block
  BY BlocksForBounds, WholeWidth DEF Scanned
<1>2. \A p \in Positions(b) : p \in Nat /\ p < size
  BY <1>1, KeysBelow DEF Scanned
<1>3. last_block(b) = k - 1
  BY <1>1, NumBlocks DEF last_block
<1> HIDE DEF k
<1>4. ASSUME NEW n \in Nat, n < size
      PROVE  /\ index(n) \in 0 .. k - 1 /\ offset(n) \in Offset
             /\ n = At(index(n), offset(n)) /\ b[index(n)] \in Block
  <2> DEFINE whole == k * bits_per_block
  <2>1. whole \in Nat /\ size <= whole
    BY <1>1
  <2> HIDE DEF whole
  <2>2. n \in 0 .. whole - 1
    BY <1>1, <1>4, <2>1
  <2>3. n \in Span(k)
    BY <2>2 DEF Span, whole
  <2> QED
    BY <1>1, <2>3, SplitPosition DEF Storage
<1> QED
  BY <1>1, <1>2, <1>3, <1>4 DEF k

\* inclusive_find_next: the first position at or past n.
LEMMA InclusiveFindNext ==
    ASSUME NEW b, NEW size, Scanned(b, size), NEW n \in 0 .. size
    PROVE  IsFirst({p \in Positions(b) : n <= p}, inclusive_find_next(b, size, n), size)
<1> DEFINE k == blocks_for(size)
           T == {p \in Positions(b) : n <= p}
           i == index(n)
           o == offset(n)
           r == inclusive_find_next(b, size, n)
<1> SUFFICES IsFirst(T, r, size)
  OBVIOUS
<1>0. n \in Nat /\ n <= size /\ size \in Nat /\ k \in Nat /\ b \in Storage(k)
  BY ScannedPositions
<1>1. \A p \in Positions(b) : p \in Nat /\ p < size
  BY ScannedPositions
<1>2. CASE n = size
  <2>1. T = {}
    BY <1>0, <1>1, <1>2
  <2> QED
    BY <1>2, <2>1 DEF inclusive_find_next, IsFirst
<1>3. CASE n # size
  <2> DEFINE here == shr(b[i], o)
             c == countr_zero(here)
             later == set_blocks(b, i + 1, last_block(b))
             U == {p \in Positions(b) : \E j \in 0 .. k - 1, u \in Offset : i + 1 <= j /\ p = At(j, u)}
  <2>1. /\ i \in 0 .. k - 1 /\ o \in Offset /\ n = At(i, o) /\ b[i] \in Block /\ i \in Nat
    BY <1>0, <1>3, ScannedPositions
  <2>2. ASSUME NEW p \in T
        PROVE  \E j \in 0 .. k - 1, u \in Offset :
                  p = At(j, u) /\ u \in b[j] /\ (i < j \/ (i = j /\ o <= u))
    <3>1. PICK j \in 0 .. k - 1 : \E u \in b[j] : u \in Offset /\ p = At(j, u)
      BY <1>0, HeldPosition
    <3>2. PICK u \in b[j] : u \in Offset /\ p = At(j, u)
      BY <3>1
    <3> QED
      BY <2>1, <3>1, <3>2, AtOrder
  <2>3. CASE here # zero
    <3>1. o + c \in b[i] /\ c \in Nat /\ o + c \in Offset /\ o \in Nat
          /\ \A u \in b[i] : o <= u => o + c <= u
      <4>1. c + o \in b[i] /\ c \in Nat /\ \A u \in b[i] : o <= u => c + o <= u
        BY <2>1, <2>3, ShiftedOut
      <4>2. o \in Nat
        BY <2>1, BitsPerBlockAssumption DEF Offset
      <4> HIDE DEF c
      <4>3. c + o = o + c
        BY <4>1, <4>2
      <4> QED
        BY <2>1, <4>1, <4>2, <4>3 DEF Block
    <3>2. r = n + c
      BY <1>3, <2>3 DEF inclusive_find_next
    <3> HIDE DEF i, o, c, here, later, U, r
    <3>3. n + c = At(i, o + c) /\ n <= n + c
      <4>1. n = base(i) + o /\ At(i, o + c) = base(i) + (o + c) /\ base(i) \in Nat
        BY <2>1, <3>1, BaseOf
      <4> QED
        BY <3>1, <4>1
    <3>4. At(i, o + c) \in T
      BY <1>0, <2>1, <3>1, <3>3, PositionIff
    <3>5. ASSUME NEW p \in T PROVE At(i, o + c) <= p
      <4>1. PICK j \in 0 .. k - 1, u \in Offset :
               p = At(j, u) /\ u \in b[j] /\ (i < j \/ (i = j /\ o <= u))
        BY <2>2
      <4>2. i < j \/ (i = j /\ o + c <= u)
        BY <3>1, <4>1
      <4> QED
        BY <2>1, <3>1, <4>1, <4>2, AtOrder
    <3> HIDE DEF T
    <3> QED
      BY <3>2, <3>3, <3>4, <3>5 DEF IsFirst
  <2>4. CASE here = zero
    <3>1. \A u \in b[i] : u < o
      BY <2>1, <2>4, ShiftedOut
    <3>2. T = U
      <4>1. ASSUME NEW p \in T PROVE p \in U
        <5>1. PICK j \in 0 .. k - 1, u \in Offset :
                 p = At(j, u) /\ u \in b[j] /\ (i < j \/ (i = j /\ o <= u))
          BY <2>2
        <5>2. i < j
          BY <3>1, <5>1, <2>1, BitsPerBlockAssumption DEF Offset
        <5>3. i + 1 <= j
          BY <5>2, <2>1
        <5> QED
          BY <5>1, <5>3
      <4>2. ASSUME NEW p \in U PROVE p \in T
        <5>1. PICK j \in 0 .. k - 1, u \in Offset : i + 1 <= j /\ p = At(j, u)
          BY <4>2
        <5>2. i < j /\ j \in Nat
          BY <5>1, <2>1
        <5>3. n < p /\ p \in Nat
          BY <1>1, <2>1, <5>1, <5>2, AtOrder
        <5> QED
          BY <1>0, <5>3
      <4> QED
        BY <4>1, <4>2
    <3>3. CASE later = {}
      <4>1. U = {}
        BY <1>0, <2>1, <3>3, FirstAbove
      <4>2. r = size
        BY <1>3, <2>4, <3>3 DEF inclusive_find_next
      <4> QED
        BY <3>2, <4>1, <4>2 DEF IsFirst
    <3>4. CASE later # {}
      <4> DEFINE m == Min(later)
                 d == countr_zero(b[m])
      <4>1. /\ m \in i + 1 .. k - 1 /\ d \in Offset
            /\ At(m, d) \in U /\ \A p \in U : At(m, d) <= p
        BY <1>0, <2>1, <3>4, FirstAbove
      <4>2. r = n + bits_per_block - o + d + base(m - (i + 1))
        BY <1>3, <2>4, <3>4 DEF inclusive_find_next
      <4> HIDE DEF m, d, i, o, r, T, U, later
      <4>3. /\ base(m - (i + 1)) = base(m) - base(i + 1) /\ base(i + 1) = base(i) + bits_per_block
            /\ base(m) \in Nat /\ base(i) \in Nat /\ At(m, d) = base(m) + d /\ n = base(i) + o
        <5>1. m \in Nat /\ i + 1 \in 0 .. m
          BY <2>1, <4>1
        <5>2. base(m) \in Nat /\ At(m, d) = base(m) + d /\ base(m - (i + 1)) = base(m) - base(i + 1)
          BY <4>1, <5>1, BaseOf
        <5>3. base(i + 1) = base(i) + bits_per_block /\ base(i) \in Nat /\ n = base(i) + o
          BY <2>1, BaseOf
        <5> QED
          BY <5>2, <5>3
      <4>4. o \in Nat /\ d \in Nat
        BY <2>1, <4>1, BitsPerBlockAssumption DEF Offset
      <4>5. r = At(m, d)
        BY <4>2, <4>3, <4>4, BitsPerBlockAssumption
      <4> QED
        BY <3>2, <4>1, <4>5 DEF IsFirst
    <3> QED
      BY <3>3, <3>4
  <2> QED
    BY <2>3, <2>4
<1> QED
  BY <1>2, <1>3

\* exclusive_find_next: the first position past n.
LEMMA ExclusiveFindNext ==
    ASSUME NEW b, NEW size, Scanned(b, size), NEW n \in 0 .. size - 1
    PROVE  IsFirst({p \in Positions(b) : n < p}, exclusive_find_next(b, size, n), size)
<1> DEFINE k == blocks_for(size)
           T == {p \in Positions(b) : n < p}
           i == index(n)
           o == offset(n)
           r == exclusive_find_next(b, size, n)
           here == above(b, n)
           c == countr_zero(here)
           later == set_blocks(b, i + 1, last_block(b))
           U == {p \in Positions(b) : \E j \in 0 .. k - 1, u \in Offset : i + 1 <= j /\ p = At(j, u)}
<1> SUFFICES IsFirst(T, r, size)
  OBVIOUS
<1>0. size \in Nat /\ n \in Nat /\ n < size /\ k \in Nat /\ b \in Storage(k)
  BY ScannedPositions
<1>1. \A p \in Positions(b) : p \in Nat /\ p < size
  BY ScannedPositions
<1>2. /\ i \in 0 .. k - 1 /\ o \in Offset /\ n = At(i, o) /\ b[i] \in Block /\ i \in Nat
  BY <1>0, ScannedPositions
<1>3. ASSUME NEW p \in T
      PROVE  \E j \in 0 .. k - 1, u \in Offset :
                p = At(j, u) /\ u \in b[j] /\ (i < j \/ (i = j /\ o < u))
  <2>1. PICK j \in 0 .. k - 1 : \E u \in b[j] : u \in Offset /\ p = At(j, u)
    BY <1>0, HeldPosition
  <2>2. PICK u \in b[j] : u \in Offset /\ p = At(j, u)
    BY <2>1
  <2> QED
    BY <1>2, <2>1, <2>2, AtOrder
<1>4. here = {u \in b[i] : o < u}
  <2>1. \A u \in Offset : u - o \in ones \ {0} <=> o < u
    BY <1>2, BitsPerBlockAssumption DEF Offset, ones
  <2> QED
    BY <1>2, <2>1 DEF above, shl, Block
<1>5. CASE here # zero
  <2>1. c \in b[i] /\ o < c /\ c \in Offset /\ \A u \in b[i] : o < u => c <= u
    <3>1. here \in Block
      BY <1>2, <1>4 DEF Block
    <3>2. c \in here /\ \A u \in here : c <= u
      BY <1>5, <3>1, BlockExtremes
    <3> QED
      BY <1>4, <3>1, <3>2 DEF Block
  <2>2. r = base(i) + c
    BY <1>5 DEF exclusive_find_next
  <2> HIDE DEF i, o, c, here, later, U, r
  <2>3. r = At(i, c)
    BY <1>2, <2>1, <2>2, BaseOf
  <2>4. At(i, c) \in T
    <3>1. At(i, c) \in Positions(b)
      BY <1>0, <1>2, <2>1, PositionIff
    <3>2. n < At(i, c)
      BY <1>2, <2>1, AtOrder
    <3> QED
      BY <3>1, <3>2
  <2>5. ASSUME NEW p \in T PROVE At(i, c) <= p
    <3>1. PICK j \in 0 .. k - 1, u \in Offset :
             p = At(j, u) /\ u \in b[j] /\ (i < j \/ (i = j /\ o < u))
      BY <1>3
    <3>2. i < j \/ (i = j /\ c <= u)
      BY <2>1, <3>1
    <3> QED
      BY <1>2, <2>1, <3>1, <3>2, AtOrder
  <2> HIDE DEF T
  <2> QED
    BY <2>3, <2>4, <2>5 DEF IsFirst
<1>6. CASE here = zero
  <2>1. T = U
    <3>1. ASSUME NEW p \in T PROVE p \in U
      <4>1. PICK j \in 0 .. k - 1, u \in Offset :
               p = At(j, u) /\ u \in b[j] /\ (i < j \/ (i = j /\ o < u))
        BY <1>3
      <4>2. i < j
        BY <1>4, <1>6, <4>1 DEF zero
      <4>3. i + 1 <= j
        BY <4>2, <1>2
      <4> QED
        BY <4>1, <4>3
    <3>2. ASSUME NEW p \in U PROVE p \in T
      <4>1. PICK j \in 0 .. k - 1, u \in Offset : i + 1 <= j /\ p = At(j, u)
        BY <3>2
      <4>2. i < j /\ j \in Nat
        BY <4>1, <1>2
      <4>3. n < p
        BY <1>2, <4>1, <4>2, AtOrder
      <4> QED
        BY <4>3
    <3> QED
      BY <3>1, <3>2
  <2>2. CASE later = {}
    <3>1. U = {}
      BY <1>0, <1>2, <2>2, FirstAbove
    <3>2. r = size
      BY <1>6, <2>2 DEF exclusive_find_next
    <3> QED
      BY <2>1, <3>1, <3>2 DEF IsFirst
  <2>3. CASE later # {}
    <3> DEFINE m == Min(later)
               d == countr_zero(b[m])
    <3>1. /\ m \in i + 1 .. k - 1 /\ d \in Offset
          /\ At(m, d) \in U /\ \A p \in U : At(m, d) <= p
      BY <1>0, <1>2, <2>3, FirstAbove
    <3>2. r = base(m) + d
      BY <1>6, <2>3 DEF exclusive_find_next
    <3> HIDE DEF m, d, i, o, r, T, U, later
    <3>3. m \in Nat /\ r = At(m, d)
      BY <1>2, <3>1, <3>2, BaseOf
    <3> QED
      BY <2>1, <3>1, <3>3 DEF IsFirst
  <2> QED
    BY <2>2, <2>3
<1> QED
  BY <1>5, <1>6

\* total_find_prev: the last position before n.
LEMMA TotalFindPrev ==
    ASSUME NEW b, NEW size, Scanned(b, size), NEW n \in 0 .. size
    PROVE  IsLast({p \in Positions(b) : p < n}, total_find_prev(b, size, n), size)
<1> DEFINE k == blocks_for(size)
           T == {p \in Positions(b) : p < n}
           i == index(n - 1)
           o == offset(n - 1)
           r == total_find_prev(b, size, n)
           here == shl(b[i], left_bit - o)
           c == countl_zero(here)
           below == set_blocks(b, 0, i - 1)
           U == {p \in Positions(b) : \E j \in 0 .. k - 1, u \in Offset : j <= i - 1 /\ p = At(j, u)}
<1> SUFFICES IsLast(T, r, size)
  OBVIOUS
<1>0. size \in Nat /\ n \in Nat /\ n <= size /\ k \in Nat /\ b \in Storage(k)
  BY ScannedPositions
<1>1. \A p \in Positions(b) : p \in Nat /\ p < size
  BY ScannedPositions
<1>2. CASE n = 0
  <2>1. T = {}
    BY <1>1, <1>2
  <2> QED
    BY <1>2, <2>1 DEF total_find_prev, IsLast
<1>3. CASE n # 0
  <2>0. n - 1 \in Nat /\ n - 1 < size
    BY <1>0, <1>3
  <2>1. /\ i \in 0 .. k - 1 /\ o \in Offset /\ n - 1 = At(i, o) /\ b[i] \in Block /\ i \in Nat
    BY <2>0, ScannedPositions
  <2>2. ASSUME NEW p \in T
        PROVE  \E j \in 0 .. k - 1, u \in Offset :
                  p = At(j, u) /\ u \in b[j] /\ (j < i \/ (i = j /\ u <= o))
    <3>1. PICK j \in 0 .. k - 1 : \E u \in b[j] : u \in Offset /\ p = At(j, u)
      BY <1>0, HeldPosition
    <3>2. PICK u \in b[j] : u \in Offset /\ p = At(j, u)
      BY <3>1
    <3>3. p <= n - 1
      BY <1>0, <1>1
    <3> QED
      BY <2>1, <3>1, <3>2, <3>3, AtOrder
  <2>3. CASE here # zero
    <3>1. o - c \in b[i] /\ c \in Int /\ \A u \in b[i] : u <= o => u <= o - c
      BY <2>1, <2>3, ShiftedOutAbove
    <3>2. o - c \in Offset /\ o \in Int
      BY <2>1, <3>1, BitsPerBlockAssumption DEF Block, Offset
    <3>3. r = (n - 1) - c
      BY <1>3, <2>3 DEF total_find_prev
    <3>4. o - c <= o
      <4> DEFINE M == Max(here)
      <4>1. M \in 0 .. left_bit /\ left_bit \in Nat
        <5>1. here \in SUBSET (0 .. left_bit) /\ left_bit \in Nat
          BY BitsPerBlockAssumption DEF shl, Offset, left_bit
        <5> QED
          BY <2>3, <5>1, MaxExists DEF zero
      <4>2. c = left_bit - M
        BY <2>3 DEF countl_zero
      <4> HIDE DEF M, c, here, o
      <4>3. c >= 0
        BY <4>1, <4>2
      <4> QED
        BY <3>1, <3>2, <4>3
    <3> HIDE DEF i, o, c, here, below, U, r
    <3>5. r = At(i, o - c) /\ r <= n - 1
      <4>1. n - 1 = base(i) + o /\ At(i, o - c) = base(i) + (o - c) /\ base(i) \in Nat
        BY <2>1, <3>2, BaseOf
      <4> QED
        BY <3>1, <3>2, <3>3, <3>4, <4>1
    <3>6. At(i, o - c) \in T
      <4>1. At(i, o - c) \in Positions(b)
        BY <1>0, <2>1, <3>1, <3>2, PositionIff
      <4> QED
        BY <1>0, <1>1, <3>5, <4>1
    <3>7. ASSUME NEW p \in T PROVE p <= At(i, o - c)
      <4>1. PICK j \in 0 .. k - 1, u \in Offset :
               p = At(j, u) /\ u \in b[j] /\ (j < i \/ (i = j /\ u <= o))
        BY <2>2
      <4>2. j < i \/ (j = i /\ u <= o - c)
        BY <3>1, <4>1
      <4> DEFINE e == o - c
      <4>3. j \in Nat /\ e \in Offset /\ (j < i \/ (j = i /\ u <= e))
        BY <3>2, <4>2
      <4> HIDE DEF e
      <4>4. p <= At(i, e)
        BY <2>1, <4>1, <4>3, AtOrder
      <4> QED
        BY <4>4 DEF e
    <3> HIDE DEF T
    <3> QED
      BY <3>5, <3>6, <3>7 DEF IsLast
  <2>4. CASE here = zero
    <3>1. \A u \in b[i] : o < u
      BY <2>1, <2>4, ShiftedOutAbove
    <3>2. T = U
      <4>1. ASSUME NEW p \in T PROVE p \in U
        <5>1. PICK j \in 0 .. k - 1, u \in Offset :
                 p = At(j, u) /\ u \in b[j] /\ (j < i \/ (i = j /\ u <= o))
          BY <2>2
        <5>2. j < i
          BY <3>1, <5>1, <2>1, BitsPerBlockAssumption DEF Offset
        <5>3. j <= i - 1
          BY <5>2, <2>1
        <5> QED
          BY <5>1, <5>3
      <4>2. ASSUME NEW p \in U PROVE p \in T
        <5>1. PICK j \in 0 .. k - 1, u \in Offset : j <= i - 1 /\ p = At(j, u)
          BY <4>2
        <5>2. j < i /\ j \in Nat
          BY <5>1, <2>1
        <5>3. p < n - 1 /\ p \in Nat
          BY <1>1, <2>1, <5>1, <5>2, AtOrder
        <5> QED
          BY <1>0, <5>3
      <4> QED
        BY <4>1, <4>2
    <3>0. i - 1 \in Int /\ i - 1 < k
      BY <1>0, <2>1
    <3>3. CASE below = {}
      <4>1. U = {}
        BY <1>0, <3>0, <3>3, LastBelow
      <4>2. r = size
        BY <1>3, <2>4, <3>3 DEF total_find_prev
      <4> QED
        BY <3>2, <4>1, <4>2 DEF IsLast
    <3>4. CASE below # {}
      <4> DEFINE m == Max(below)
                 d == countl_zero(b[m])
                 h == left_bit - d
      <4>1. /\ m \in 0 .. i - 1 /\ d \in Int /\ h \in Offset
            /\ At(m, h) \in U /\ \A p \in U : p <= At(m, h)
        BY <1>0, <3>0, <3>4, LastBelow
      <4>2. r = base(m) + left_bit - d
        BY <1>3, <2>4, <3>4 DEF total_find_prev
      <4>3. left_bit \in Int
        BY BitsPerBlockAssumption DEF left_bit
      <4> HIDE DEF m, d, i, o, r, T, U, below
      <4>4. At(m, h) = base(m) + h /\ base(m) \in Nat
        BY <2>1, <4>1, BaseOf
      <4>5. r = At(m, h)
        BY <4>1, <4>2, <4>3, <4>4
      <4> HIDE DEF h
      <4> QED
        BY <3>2, <4>1, <4>5 DEF IsLast
    <3> QED
      BY <3>3, <3>4
  <2> QED
    BY <2>3, <2>4
<1> QED
  BY <1>2, <1>3

\* exclusive_find_prev: the last position before n, where there is one.
LEMMA ExclusiveFindPrev ==
    ASSUME NEW b, NEW size, Scanned(b, size), NEW n \in 0 .. size,
           NEW q \in Positions(b), q < n
    PROVE  /\ exclusive_find_prev(b, n) \in Positions(b)
           /\ exclusive_find_prev(b, n) < n
           /\ \A p \in Positions(b) : p < n => p <= exclusive_find_prev(b, n)
<1> DEFINE k == blocks_for(size)
           i == index(n - 1)
           o == offset(n - 1)
           r == exclusive_find_prev(b, n)
           back == left_bit - o
           here == shl(b[i], back)
           c == countl_zero(here)
           skip == back # 0
           from == IF skip THEN i - 1 ELSE i
           at == IF skip THEN (n - 1) - (bits_per_block - back) ELSE n - 1
           below == set_blocks(b, 0, from)
           U == {p \in Positions(b) : \E j \in 0 .. k - 1, u \in Offset : j <= from /\ p = At(j, u)}
<1> SUFFICES r \in Positions(b) /\ r < n /\ \A p \in Positions(b) : p < n => p <= r
  OBVIOUS
<1>0. size \in Nat /\ n \in Nat /\ n <= size /\ k \in Nat /\ b \in Storage(k)
  BY ScannedPositions
<1>1. \A p \in Positions(b) : p \in Nat /\ p < size
  BY ScannedPositions
<1>2. n - 1 \in Nat /\ n - 1 < size
  BY <1>0, <1>1
<1>3. /\ i \in 0 .. k - 1 /\ o \in Offset /\ n - 1 = At(i, o) /\ b[i] \in Block /\ i \in Nat
  BY <1>2, ScannedPositions
<1>4. ASSUME NEW p \in Positions(b), p < n
      PROVE  \E j \in 0 .. k - 1, u \in Offset :
                p = At(j, u) /\ u \in b[j] /\ (j < i \/ (i = j /\ u <= o))
  <2>1. PICK j \in 0 .. k - 1 : \E u \in b[j] : u \in Offset /\ p = At(j, u)
    BY <1>0, HeldPosition
  <2>2. PICK u \in b[j] : u \in Offset /\ p = At(j, u)
    BY <2>1
  <2>3. p <= n - 1
    BY <1>0, <1>1, <1>4
  <2> QED
    BY <1>3, <2>1, <2>2, <2>3, AtOrder
<1>5. left_bit \in Nat /\ o \in 0 .. left_bit /\ back \in Nat /\ bits_per_block = left_bit + 1
  BY <1>3, BitsPerBlockAssumption DEF left_bit, Offset
<1>6. CASE skip /\ here # zero
  <2>1. o - c \in b[i] /\ c \in Int /\ \A u \in b[i] : u <= o => u <= o - c
    BY <1>3, <1>6, ShiftedOutAbove
  <2>2. c >= 0
    <3> DEFINE M == Max(here)
    <3>1. M \in 0 .. left_bit
      <4>1. here \in SUBSET (0 .. left_bit)
        BY BitsPerBlockAssumption DEF shl, Offset, left_bit
      <4> QED
        BY <1>5, <1>6, <4>1, MaxExists DEF zero
    <3>2. c = left_bit - M
      BY <1>6 DEF countl_zero
    <3> HIDE DEF M, c, here, o
    <3> QED
      BY <1>5, <3>1, <3>2
  <2>3. r = (n - 1) - c
    BY <1>6 DEF exclusive_find_prev
  <2> DEFINE e == o - c
  <2>4. e \in Offset /\ e \in b[i] /\ e <= o /\ \A u \in b[i] : u <= o => u <= e
    <3>1. e \in Offset /\ e \in b[i]
      BY <1>3, <2>1 DEF Block
    <3>2. e <= o
      BY <1>5, <2>1, <2>2
    <3> QED
      BY <2>1, <3>1, <3>2
  <2>5. r = At(i, e)
    <3> HIDE DEF i, o, c, r, e
    <3>1. n - 1 = base(i) + o /\ At(i, e) = base(i) + e /\ base(i) \in Nat
      BY <1>3, <2>4, BaseOf
    <3>2. e = o - c
      BY DEF e
    <3> QED
      BY <1>5, <2>1, <2>3, <3>1, <3>2
  <2> HIDE DEF i, o, c, here, below, U, r, e, back, from, at, skip
  <2>6. At(i, e) \in Positions(b) /\ At(i, e) <= n - 1
    BY <1>0, <1>3, <2>4, PositionIff, AtOrder
  <2>7. ASSUME NEW p \in Positions(b), p < n PROVE p <= At(i, e)
    <3>1. PICK j \in 0 .. k - 1, u \in Offset :
             p = At(j, u) /\ u \in b[j] /\ (j < i \/ (i = j /\ u <= o))
      BY <1>4, <2>7
    <3>2. j \in Nat /\ (j < i \/ (j = i /\ u <= e))
      BY <2>4, <3>1
    <3> QED
      BY <1>3, <2>4, <3>1, <3>2, AtOrder
  <2> QED
    BY <1>0, <1>1, <2>5, <2>6, <2>7
<1>7. CASE ~(skip /\ here # zero)
  <2>1. from \in Int /\ from < k /\ from <= i /\ -1 <= from
    BY <1>0, <1>3
  <2>2. \A p \in Positions(b) : p < n <=> p \in U
    <3>1. ASSUME NEW p \in Positions(b), p < n PROVE p \in U
      <4>1. PICK j \in 0 .. k - 1, u \in Offset :
               p = At(j, u) /\ u \in b[j] /\ (j < i \/ (i = j /\ u <= o))
        BY <1>4, <3>1
      <4>2. CASE skip
        <5>1. \A u1 \in b[i] : o < u1
          BY <1>3, <1>7, <4>2, ShiftedOutAbove
        <5>2. j < i
          BY <1>5, <4>1, <5>1, BitsPerBlockAssumption DEF Offset
        <5>3. j <= from
          BY <1>3, <4>2, <5>2
        <5> QED
          BY <4>1, <5>3
      <4>3. CASE ~skip
        <5>1. j <= from
          BY <1>3, <4>1, <4>3
        <5> QED
          BY <4>1, <5>1
      <4> QED
        BY <4>2, <4>3
    <3>2. ASSUME NEW p \in U PROVE p < n
      <4>1. PICK j \in 0 .. k - 1, u \in Offset : j <= from /\ p = At(j, u)
        BY <3>2
      <4>2. j \in Nat /\ (j < i \/ (j = i /\ u <= o))
        <5>1. CASE skip
          BY <1>3, <4>1, <5>1
        <5>2. CASE ~skip
          <6>1. o = left_bit
            BY <1>5, <5>2
          <6>2. u <= o
            BY <1>5, <4>1, <6>1, BitsPerBlockAssumption DEF Offset
          <6> QED
            BY <1>3, <4>1, <5>2, <6>2
        <5> QED
          BY <5>1, <5>2
      <4>3. p <= n - 1
        BY <1>3, <4>1, <4>2, AtOrder
      <4> QED
        BY <1>0, <1>1, <4>3
    <3> QED
      BY <3>1, <3>2
  <2>3. below # {}
    <3>1. q \in U
      BY <2>2
    <3> QED
      BY <1>0, <2>1, <3>1, LastBelow
  <2> DEFINE m == Max(below)
             d == countl_zero(b[m])
             h == left_bit - d
  <2>4. /\ m \in 0 .. from /\ d \in Int /\ h \in Offset
        /\ At(m, h) \in U /\ \A p \in U : p <= At(m, h)
    BY <1>0, <2>1, <2>3, LastBelow
  <2>5. r = at - d - base(from - m)
    BY <1>7 DEF exclusive_find_prev
  <2>6. from \in Nat /\ at = base(from) + left_bit
    <3>1. from \in Nat
      BY <2>1, <2>4
    <3>2. CASE skip
      <4>1. from = i - 1 /\ i > 0
        BY <1>3, <3>1, <3>2
      <4>2. n - 1 = base(i) + o /\ base(from) = base(i) - bits_per_block /\ base(i) \in Nat
        BY <1>3, <4>1, BaseOf
      <4>3. at = (n - 1) - (bits_per_block - (left_bit - o))
        BY <3>2
      <4> HIDE DEF at, from, i, o
      <4> QED
        BY <1>5, <3>1, <4>2, <4>3
    <3>3. CASE ~skip
      <4>1. from = i /\ o = left_bit /\ at = n - 1
        BY <1>5, <3>3
      <4>2. n - 1 = base(i) + o
        BY <1>3, BaseOf
      <4> QED
        BY <3>1, <4>1, <4>2
    <3> QED
      BY <3>2, <3>3
  <2> HIDE DEF m, d, i, o, r, U, below, at, from, back, skip, here, c
  <2>7. At(m, h) = base(m) + h /\ base(m) \in Nat /\ base(from) \in Nat
        /\ base(from - m) = base(from) - base(m)
    <3>1. m \in Nat
      BY <2>4, <2>6
    <3> QED
      BY <2>4, <2>6, <3>1, BaseOf
  <2>8. r = At(m, h)
    BY <1>5, <2>4, <2>5, <2>6, <2>7
  <2>9. At(m, h) \in Positions(b)
    BY <2>4 DEF U
  <2> HIDE DEF h
  <2> QED
    BY <2>2, <2>4, <2>8, <2>9
<1> QED
  BY <1>6, <1>7

\* The bits set below the width are the positions set.
LEMMA BitsBelowWidth ==
    ASSUME NEW b, NEW size, Scanned(b, size)
    PROVE  {p \in 0 .. size - 1 : BitAt(b, p)} = Positions(b)
<1>1. size \in Nat /\ \A p \in Positions(b) : p \in Nat /\ p < size
  BY ScannedPositions
<1>2. ASSUME NEW p \in 0 .. size - 1
      PROVE  BitAt(b, p) <=> p \in Positions(b)
  <2>1. p \in Nat /\ p < size
    BY <1>1
  <2>2. /\ index(p) \in 0 .. blocks_for(size) - 1 /\ offset(p) \in Offset
        /\ p = At(index(p), offset(p))
        /\ blocks_for(size) \in Nat /\ b \in Storage(blocks_for(size))
    BY <2>1, ScannedPositions
  <2> QED
    BY <2>2, PositionIff DEF BitAt
<1> QED
  BY <1>1, <1>2

\* test reads the bit of its position.
LEMMA TestIsMember ==
    ASSUME NEW b, NEW size, Scanned(b, size), NEW n \in 0 .. size - 1
    PROVE  test(b, n) <=> n \in Positions(b)
<1>1. size \in Nat /\ n \in Nat /\ n < size
  BY ScannedPositions
<1>2. /\ index(n) \in 0 .. blocks_for(size) - 1 /\ offset(n) \in Offset
      /\ n = At(index(n), offset(n)) /\ blocks_for(size) \in Nat /\ b \in Storage(blocks_for(size))
  BY <1>1, ScannedPositions
<1>3. n \in Positions(b) <=> offset(n) \in b[index(n)]
  BY <1>2, PositionIff
<1>4. 0 \in Offset /\ 0 + offset(n) = offset(n)
  BY <1>2, BitsPerBlockAssumption DEF Offset
<1>5. 0 \in shr(b[index(n)], offset(n)) <=> offset(n) \in b[index(n)]
  BY <1>4 DEF shr
<1> QED
  BY <1>3, <1>5 DEF test, zero

\* A scan that finds the first of some positions finds their minimum.
LEMMA FirstIsMin ==
    ASSUME NEW T \in SUBSET Nat, NEW r, NEW e, IsFirst(T, r, e)
    PROVE  r = IF T = {} THEN e ELSE Min(T)
<1>1. CASE T = {}
  BY <1>1 DEF IsFirst
<1>2. CASE T # {}
  <2> DEFINE m == Min(T)
  <2>1. m \in T /\ \A p \in T : m <= p
    BY <1>2, MinExists
  <2>2. r \in T /\ \A p \in T : r <= p
    BY <1>2 DEF IsFirst
  <2> HIDE DEF m
  <2>3. r \in Nat /\ m \in Nat /\ r <= m /\ m <= r
    BY <2>1, <2>2
  <2>4. r = m
    BY <2>3
  <2> QED
    BY <1>2, <2>4 DEF m
<1> QED
  BY <1>1, <1>2

\* A scan that finds the last of some positions finds their maximum.
LEMMA LastIsMax ==
    ASSUME NEW m \in Nat, NEW T \in SUBSET (0 .. m), NEW r, NEW e, IsLast(T, r, e)
    PROVE  r = IF T = {} THEN e ELSE Max(T)
<1>1. CASE T = {}
  BY <1>1 DEF IsLast
<1>2. CASE T # {}
  <2> DEFINE h == Max(T)
  <2>1. h \in T /\ \A p \in T : p <= h
    BY <1>2, MaxExists
  <2>2. r \in T /\ \A p \in T : p <= r
    BY <1>2 DEF IsLast
  <2> HIDE DEF h
  <2>3. r \in Nat /\ h \in Nat /\ r <= h /\ h <= r
    BY <2>1, <2>2
  <2>4. r = h
    BY <2>3
  <2> QED
    BY <1>2, <2>4 DEF h
<1> QED
  BY <1>1, <1>2

(***************************************************************************)
(* Blocks read at any position.                                            *)
(***************************************************************************)
\* A block read at any position of the width holds the positions from there.
LEMMA BlockRead ==
    ASSUME NEW b, NEW size, Scanned(b, size), NEW n \in Nat, n < size, NEW o \in Offset
    PROVE  o \in block_at(b, n) <=> n + o \in Positions(b)
<1> DEFINE k == blocks_for(size)
           i == index(n)
           f == offset(n)
           w == bits_per_block
           bottom == i * w
<1>1. /\ k \in Nat /\ b \in Storage(k) /\ i \in 0 .. k - 1 /\ f \in Offset
      /\ n = At(i, f) /\ b[i] \in Block /\ last_block(b) = k - 1
  BY ScannedPositions
<1>2. bottom \in Nat /\ w \in Nat \ {0} /\ f \in Nat /\ o \in Nat /\ o < w /\ f < w /\ n = bottom + f
  BY <1>1, BitsPerBlockAssumption DEF Offset, At
<1>3. o \in shr(b[i], f) <=> o + f \in b[i]
  BY DEF shr
<1>4. CASE f + o < w
  <2>1. f + o \in Offset /\ o + f = f + o
    BY <1>2, <1>4 DEF Offset
  <2>2. At(i, f + o) \in Positions(b) <=> f + o \in b[i]
    BY <1>1, <2>1, PositionIff
  <2>3. At(i, f + o) = n + o
    <3>1. At(i, f + o) = bottom + (f + o)
      BY DEF At
    <3> HIDE DEF bottom, f, i
    <3> QED
      BY <1>2, <3>1
  <2>4. CASE f = 0 \/ i = last_block(b)
    BY <1>3, <2>1, <2>2, <2>3, <2>4 DEF block_at
  <2>5. CASE ~(f = 0 \/ i = last_block(b))
    <3>1. i \in 0 .. k - 2 /\ f # 0
      BY <1>1, <2>5
    <3>2. o \in straddled_block(b, i, w - f, f) <=> At(i, o) + f \in Positions(b)
      BY <1>1, <3>1, StraddledPositions
    <3>3. At(i, o) + f = n + o
      BY <1>2 DEF At
    <3> QED
      BY <2>5, <3>2, <3>3 DEF block_at
  <2> QED
    BY <2>4, <2>5
<1>5. CASE ~(f + o < w)
  <2>1. f # 0
    BY <1>2, <1>5
  <2>2. CASE i = last_block(b)
    <3>1. o + f \notin b[i]
      BY <1>1, <1>2, <1>5 DEF Block, Offset
    <3>2. n + o \notin Positions(b)
      <4> DEFINE extent == k * w
      <4>1. extent = bottom + w
        BY <1>1, <1>2, <2>2
      <4>2. Positions(b) \subseteq 0 .. extent - 1
        BY <1>1, PositionsBelow DEF Span
      <4>3. extent \in Nat
        BY <1>1, WholeWidth
      <4> HIDE DEF extent, bottom, w, i, f
      <4>4. n + o >= extent
        BY <1>2, <1>5, <4>1
      <4> QED
        BY <1>2, <4>2, <4>3, <4>4
    <3> QED
      BY <1>3, <2>2, <3>1, <3>2 DEF block_at
  <2>3. CASE i # last_block(b)
    <3>1. i \in 0 .. k - 2
      BY <1>1, <2>3
    <3>2. o \in straddled_block(b, i, w - f, f) <=> At(i, o) + f \in Positions(b)
      BY <1>1, <2>1, <3>1, StraddledPositions
    <3>3. At(i, o) + f = n + o
      BY <1>2 DEF At
    <3> QED
      BY <2>1, <2>3, <3>2, <3>3 DEF block_at
  <2> QED
    BY <2>2, <2>3
<1> QED
  BY <1>4, <1>5

=============================================================================
