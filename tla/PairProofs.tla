----------------------------- MODULE PairProofs -----------------------------
(***************************************************************************)
(* What is asked of two containers, and passes between them, proved for    *)
(* blocks, words and rooms of every size: where their storages first       *)
(* differ and whether they are equal, by blocks or by words, what the      *)
(* transfers between unequal allocators leave of both, granted or refused, *)
(* and what the algorithms that write one from the other leave.            *)
(***************************************************************************)
EXTENDS MCPairs, MCTransfers, BitBlockContainerProofs

(***************************************************************************)
(* Where two storages differ.                                              *)
(***************************************************************************)
\* The positions of the first k blocks that one of the two sets alone holds.
Differing(k, b, c) == {p \in Span(k) : (p \in Positions(b)) # (p \in Positions(c))}

\* A bit of the xor of two blocks is a position that differs.
LEMMA DifferingBit ==
    ASSUME NEW k \in Nat, NEW l \in Nat, k <= l, NEW b \in Storage(k), NEW c \in Storage(l),
           NEW i \in 0 .. k - 1
    PROVE  /\ bit_xor(b[i], c[i]) \in Block
           /\ \A o \in Offset : o \in bit_xor(b[i], c[i]) <=> At(i, o) \in Differing(k, b, c)
<1>1. i \in 0 .. l - 1
  OBVIOUS
<1>2. b[i] \in Block /\ c[i] \in Block
  BY <1>1 DEF Storage
<1>3. ASSUME NEW o \in Offset
      PROVE  o \in bit_xor(b[i], c[i]) <=> At(i, o) \in Differing(k, b, c)
  <2>1. /\ At(i, o) \in Span(k)
        /\ At(i, o) \in Positions(b) <=> o \in b[i]
        /\ At(i, o) \in Positions(c) <=> o \in c[i]
    BY <1>1, PositionIff
  <2> QED
    BY <2>1 DEF bit_xor, Differing
<1> QED
  BY <1>2, <1>3 DEF Block, bit_xor

\* Every position that differs is such a bit.
LEMMA DifferingSplit ==
    ASSUME NEW k \in Nat, NEW b, NEW c, NEW p \in Differing(k, b, c)
    PROVE  index(p) \in 0 .. k - 1 /\ offset(p) \in Offset /\ p = At(index(p), offset(p)) /\ p \in Nat
<1>1. p \in Span(k)
  BY DEF Differing
<1>2. index(p) \in 0 .. k - 1 /\ offset(p) \in Offset /\ p = At(index(p), offset(p))
  BY <1>1, SplitPosition
<1>3. At(index(p), offset(p)) \in Nat
  BY <1>2, AtUnique
<1> QED
  BY <1>2, <1>3

\* The first differing block, and the lowest bit of its xor, are the first
\* position that differs.
LEMMA LowestOfBlock ==
    ASSUME NEW k \in Nat, NEW l \in Nat, k <= l, NEW b \in Storage(k), NEW c \in Storage(l),
           NEW i \in 0 .. k - 1, bit_xor(b[i], c[i]) # zero,
           \A j \in 0 .. i - 1 : bit_xor(b[j], c[j]) = zero
    PROVE  LET p == base(i) + countr_zero(bit_xor(b[i], c[i]))
           IN  p \in Differing(k, b, c) /\ \A q \in Differing(k, b, c) : p <= q
<1> DEFINE w == bit_xor(b[i], c[i])
           o == countr_zero(w)
<1>1. /\ w \in Block
      /\ \A u \in Offset : u \in w <=> At(i, u) \in Differing(k, b, c)
  BY DifferingBit
<1>2. o \in w /\ \A u \in w : o <= u
  BY <1>1, BlockExtremes
<1>3. o \in Offset /\ o \in Nat
  BY <1>1, <1>2, BitsPerBlockAssumption DEF Block, Offset
<1> HIDE DEF o, w
<1>4. At(i, o) = base(i) + o /\ At(i, o) \in Differing(k, b, c)
  BY <1>1, <1>2, <1>3, BaseOf
<1>5. ASSUME NEW q \in Differing(k, b, c)
      PROVE  At(i, o) <= q
  <2> DEFINE j == index(q)
             u == offset(q)
  <2>1. j \in 0 .. k - 1 /\ u \in Offset /\ q = At(j, u)
    BY DifferingSplit
  <2> HIDE DEF j, u
  <2>2. u \in bit_xor(b[j], c[j])
    BY <2>1, DifferingBit
  <2>3. ~(j < i)
    BY <2>1, <2>2 DEF zero
  <2>4. j = i => o <= u
    BY <1>2, <2>2 DEF w
  <2>5. i < j \/ (i = j /\ o <= u)
    BY <2>1, <2>3, <2>4
  <2> QED
    BY <1>3, <2>1, <2>5, AtOrder
<1> QED
  BY <1>4, <1>5 DEF o, w

\* first_difference names the first position that differs, among the blocks
\* of the shorter; a clear xor says that there is none.
LEMMA FirstDifference ==
    ASSUME NEW k \in Nat, NEW l \in Nat, k <= l, NEW b \in Storage(k), NEW c \in Storage(l)
    PROVE  LET d == first_difference(b, c)
               p == base(d[1]) + countr_zero(d[2])
               D == Differing(k, b, c)
           IN  /\ D = {} <=> d[2] = zero
               /\ D # {} => p \in D /\ \A q \in D : p <= q
<1> DEFINE d == first_difference(b, c)
           D == Differing(k, b, c)
           R == {i \in 0 .. last_block(b) - 1 : bit_xor(b[i], c[i]) # zero}
           at == IF R = {} THEN last_block(b) ELSE Min(R)
<1>1. num_blocks(b) = k /\ last_block(b) = k - 1
  BY NumBlocks DEF last_block
<1>2. CASE k = 0
  <2>1. d = <<0, zero>>
    BY <1>1, <1>2 DEF first_difference
  <2>2. D = {}
    BY <1>2, DifferingSplit
  <2> QED
    BY <2>1, <2>2
<1>3. CASE k # 0
  <2>1. d = <<at, bit_xor(b[at], c[at])>>
    BY <1>1, <1>3 DEF first_difference
  <2>2. d[1] = at /\ d[2] = bit_xor(b[at], c[at])
    BY <2>1
  <2> HIDE DEF d
  <2>3. at \in 0 .. k - 1 /\ \A j \in 0 .. at - 1 : bit_xor(b[j], c[j]) = zero
    <3>1. CASE R = {}
      BY <1>1, <1>3, <3>1
    <3>2. CASE R # {}
      <4>1. R \in SUBSET Nat /\ \A i \in R : i \in 0 .. k - 1
        BY <1>1
      <4>2. Min(R) \in R /\ \A i \in R : Min(R) <= i
        BY <3>2, <4>1, MinExists
      <4>3. at = Min(R)
        BY <3>2
      <4>4. ASSUME NEW j \in 0 .. Min(R) - 1
            PROVE  bit_xor(b[j], c[j]) = zero
        <5>1. Min(R) \in 0 .. k - 2
          BY <1>1, <4>2
        <5> DEFINE m == Min(R)
        <5>2. j \notin R
          <6> HIDE DEF R
          <6>1. m \in Nat /\ j \in 0 .. m - 1 /\ \A i \in R : m <= i
            BY <4>2, <5>1
          <6> HIDE DEF m
          <6> QED
            BY <6>1
        <5>3. j \in 0 .. k - 2
          <6>1. m \in 0 .. k - 2 /\ j \in 0 .. m - 1
            BY <5>1
          <6> HIDE DEF m
          <6> QED
            BY <6>1
        <5> QED
          BY <1>1, <5>2, <5>3
      <4> HIDE DEF R, at
      <4> QED
        BY <4>1, <4>2, <4>3, <4>4
    <3> QED
      BY <3>1, <3>2
  <2>4. CASE bit_xor(b[at], c[at]) # zero
    <3> HIDE DEF at
    <3>1. LET p == base(at) + countr_zero(bit_xor(b[at], c[at]))
          IN  p \in D /\ \A q \in D : p <= q
      BY <2>3, <2>4, LowestOfBlock
    <3> QED
      BY <2>2, <2>4, <3>1 DEF d
  <2>5. CASE bit_xor(b[at], c[at]) = zero
    <3>1. R = {}
      <4> SUFFICES ASSUME R # {} PROVE FALSE
        OBVIOUS
      <4>1. R \in SUBSET Nat
        BY <1>1
      <4>2. Min(R) \in R
        BY <4>1, MinExists
      <4> QED
        BY <2>5, <4>2
    <3>2. \A i \in 0 .. k - 1 : bit_xor(b[i], c[i]) = zero
      BY <1>1, <2>5, <3>1
    <3>3. D = {}
      <4> SUFFICES ASSUME NEW q \in D PROVE FALSE
        OBVIOUS
      <4>1. index(q) \in 0 .. k - 1 /\ offset(q) \in Offset /\ q = At(index(q), offset(q))
        BY DifferingSplit
      <4>2. offset(q) \in bit_xor(b[index(q)], c[index(q)])
        BY <4>1, DifferingBit
      <4> QED
        BY <3>2, <4>1, <4>2 DEF zero
    <3> QED
      BY <2>2, <2>5, <3>3 DEF d
  <2> QED
    BY <2>4, <2>5
<1> QED
  BY <1>2, <1>3

\* Past its own blocks a storage reads as clear, so two storages differ in a
\* block exactly where a position of it does.
LEMMA PaddedBlocks ==
    ASSUME NEW k \in Nat, NEW b \in Storage(k), NEW i \in Nat
    PROVE  /\ padded_block(b, i) \in Block
           /\ \A o \in Offset : o \in padded_block(b, i) <=> At(i, o) \in Positions(b)
<1>1. num_blocks(b) = k
  BY NumBlocks
<1>2. CASE i < k
  <2>1. i \in 0 .. k - 1 /\ padded_block(b, i) = b[i]
    BY <1>1, <1>2 DEF padded_block
  <2>2. b[i] \in Block
    BY <2>1 DEF Storage
  <2> QED
    BY <2>1, <2>2, PositionIff
<1>3. CASE ~(i < k)
  <2>1. padded_block(b, i) = zero
    BY <1>1, <1>3 DEF padded_block
  <2>2. ASSUME NEW o \in Offset
        PROVE  At(i, o) \notin Positions(b)
    <3> SUFFICES ASSUME At(i, o) \in Positions(b) PROVE FALSE
      OBVIOUS
    <3>1. PICK j \in 0 .. k - 1 : \E u \in Offset : At(i, o) = At(j, u)
      BY HeldPosition
    <3>2. PICK u \in Offset : At(i, o) = At(j, u)
      BY <3>1
    <3>3. i = j
      BY <3>2, AtUnique
    <3> QED
      BY <1>3, <3>3
  <2> QED
    BY <2>1, <2>2 DEF zero, Block
<1> QED
  BY <1>2, <1>3

\* The positions that one of two storages alone holds.
Apart(b, c) == (Positions(b) \ Positions(c)) \cup (Positions(c) \ Positions(b))

LEMMA ApartSplit ==
    ASSUME NEW k \in Nat, NEW l \in Nat, NEW b \in Storage(k), NEW c \in Storage(l),
           NEW p \in Apart(b, c)
    PROVE  /\ p \in Nat /\ index(p) \in Nat /\ offset(p) \in Offset /\ p = At(index(p), offset(p))
           /\ index(p) < k \/ index(p) < l
<1>1. p \in Span(k) \/ p \in Span(l)
  BY PositionsBelow DEF Apart
<1>2. \/ index(p) \in 0 .. k - 1 /\ offset(p) \in Offset /\ p = At(index(p), offset(p))
      \/ index(p) \in 0 .. l - 1 /\ offset(p) \in Offset /\ p = At(index(p), offset(p))
  BY <1>1, SplitPosition
<1>3. index(p) \in Nat /\ offset(p) \in Offset /\ p = At(index(p), offset(p))
  BY <1>2
<1>4. At(index(p), offset(p)) \in Nat
  BY <1>3, AtUnique
<1> QED
  BY <1>2, <1>3, <1>4

\* padded_first_difference names the block of the first position that only
\* one of the storages holds.
LEMMA PaddedDifference ==
    ASSUME NEW k \in Nat, NEW l \in Nat, NEW b \in Storage(k), NEW c \in Storage(l)
    PROVE  padded_first_difference(b, c, most_blocks(b, c))
              = IF Apart(b, c) = {} THEN most_blocks(b, c) ELSE index(Min(Apart(b, c)))
<1> DEFINE n == most_blocks(b, c)
           D == Apart(b, c)
           R == {i \in 0 .. n - 1 : padded_block(b, i) # padded_block(c, i)}
           p == Min(D)
<1>1. n \in Nat /\ k <= n /\ l <= n
  <2>1. n = Max({k, l})
    BY NumBlocks DEF most_blocks
  <2>2. k \in Int /\ l \in Int
    OBVIOUS
  <2>3. Max({k, l}) \in {k, l} /\ k <= Max({k, l}) /\ l <= Max({k, l})
    BY <2>2, GreaterOf
  <2> HIDE DEF n
  <2> QED
    BY <2>1, <2>3
<1>2. \A i \in Nat : /\ padded_block(b, i) \subseteq Offset /\ padded_block(c, i) \subseteq Offset
                     /\ \A o \in Offset : o \in padded_block(b, i) <=> At(i, o) \in Positions(b)
                     /\ \A o \in Offset : o \in padded_block(c, i) <=> At(i, o) \in Positions(c)
  BY PaddedBlocks DEF Block
<1> HIDE DEF n
<1>3. ASSUME NEW i \in R
      PROVE  \E o \in Offset : At(i, o) \in D
  <2>1. i \in Nat /\ padded_block(b, i) # padded_block(c, i)
    BY <1>1
  <2>2. PICK o : (o \in padded_block(b, i)) # (o \in padded_block(c, i))
    BY <2>1
  <2>3. o \in Offset
    BY <1>2, <2>1, <2>2
  <2>4. (At(i, o) \in Positions(b)) # (At(i, o) \in Positions(c))
    BY <1>2, <2>1, <2>2, <2>3
  <2> QED
    BY <2>3, <2>4 DEF Apart
<1>4. ASSUME NEW q \in D
      PROVE  index(q) \in R /\ q \in Nat
  <2>1. /\ q \in Nat /\ index(q) \in Nat /\ offset(q) \in Offset /\ q = At(index(q), offset(q))
        /\ index(q) < k \/ index(q) < l
    BY ApartSplit
  <2>2. index(q) \in 0 .. n - 1
    BY <1>1, <2>1
  <2>3. padded_block(b, index(q)) # padded_block(c, index(q))
    BY <1>2, <2>1 DEF Apart
  <2> QED
    BY <2>1, <2>2, <2>3
<1>5. CASE D = {}
  <2>1. R = {}
    BY <1>3, <1>5
  <2> QED
    BY <1>5, <2>1 DEF padded_first_difference, n
<1>6. CASE D # {}
  <2>1. p \in D /\ \A q \in D : p <= q
    <3>1. D \in SUBSET Nat
      BY <1>4
    <3> HIDE DEF D
    <3> QED
      BY <1>6, <3>1, MinExists
  <2>2. index(p) \in Nat /\ offset(p) \in Offset /\ p = At(index(p), offset(p))
    BY <2>1, ApartSplit
  <2> HIDE DEF p
  <2>3. index(p) \in R
    BY <1>4, <2>1
  <2>4. ASSUME NEW i \in R
        PROVE  index(p) <= i
    <3>1. PICK o \in Offset : At(i, o) \in D
      BY <1>3
    <3>2. p <= At(i, o) /\ i \in Nat
      BY <1>1, <2>1, <3>1
    <3>3. index(p) < i \/ (index(p) = i /\ offset(p) <= o)
      BY <2>2, <3>2, AtOrder
    <3> QED
      BY <2>2, <3>2, <3>3
  <2>5. R \in SUBSET Nat /\ R # {}
    BY <1>1, <2>3
  <2>6. index(p) = Min(R)
    <3>1. IsFirst(R, index(p), n)
      BY <2>3, <2>4 DEF IsFirst
    <3> HIDE DEF R
    <3> QED
      BY <2>5, <3>1, FirstIsMin
  <2> QED
    BY <1>6, <2>5, <2>6 DEF padded_first_difference, n, p
<1> QED
  BY <1>5, <1>6

(***************************************************************************)
(* Whether anything is held above a position.                              *)
(***************************************************************************)
\* Above a clear position, something is held where its own block, shifted
\* down to it, or a later one is not zero.
LEMMA HeldAbove ==
    ASSUME NEW k \in Nat, NEW b \in Storage(k), NEW i \in Nat, NEW o \in Offset,
           At(i, o) \notin Positions(b)
    PROVE  (\E q \in Positions(b) : q > At(i, o))
              <=> \/ i < k /\ shr(b[i], o) # zero
                  \/ \E j \in i + 1 .. k - 1 : b[j] # zero
<1> DEFINE p == At(i, o)
<1>0. p \in Nat /\ o \in Nat /\ \A u \in Offset : u \in Nat
  BY AtUnique, BitsPerBlockAssumption DEF Offset
<1>1. ASSUME NEW q \in Positions(b), q > p
      PROVE  \/ i < k /\ shr(b[i], o) # zero
             \/ \E j \in i + 1 .. k - 1 : b[j] # zero
  <2>1. PICK j \in 0 .. k - 1 : \E u \in b[j] : u \in Offset /\ q = At(j, u)
    BY HeldPosition
  <2>2. PICK u \in b[j] : u \in Offset /\ q = At(j, u)
    BY <2>1
  <2>3. At(j, u) \in Nat /\ At(i, o) < At(j, u)
    BY <1>0, <1>1, <2>2, AtUnique
  <2>4. i < j \/ (i = j /\ o < u)
    BY <2>2, <2>3, AtOrder
  <2>5. CASE i < j
    BY <2>2, <2>5 DEF zero
  <2>6. CASE i = j /\ o < u
    <3>1. b[i] \in Block /\ i < k
      BY <2>6 DEF Storage
    <3>2. shr(b[i], o) # zero
      <4> SUFFICES ASSUME shr(b[i], o) = zero PROVE FALSE
        OBVIOUS
      <4>1. u < o
        BY <2>2, <2>6, <3>1, ShiftedOut
      <4> QED
        BY <1>0, <2>2, <2>6, <4>1
    <3> QED
      BY <3>1, <3>2
  <2> QED
    BY <2>4, <2>5, <2>6
<1>2. ASSUME i < k, shr(b[i], o) # zero
      PROVE  \E q \in Positions(b) : q > p
  <2> DEFINE c == countr_zero(shr(b[i], o))
             u == c + o
  <2>1. b[i] \in Block /\ i \in 0 .. k - 1
    BY <1>2 DEF Storage
  <2>2. u \in b[i] /\ c \in Nat
    BY <1>2, <2>1, ShiftedOut
  <2> HIDE DEF c
  <2>3. u \in Offset /\ o <= u
    BY <1>0, <2>1, <2>2 DEF Block
  <2>4. At(i, u) \in Positions(b) /\ o \notin b[i]
    BY <2>1, <2>2, <2>3, PositionIff
  <2>5. o < u
    BY <1>0, <2>2, <2>3, <2>4
  <2>6. At(i, o) < At(i, u) /\ At(i, u) \in Nat
    BY <2>3, <2>5, AtOrder, AtUnique
  <2> QED
    BY <1>0, <2>4, <2>6
<1>3. ASSUME NEW j \in i + 1 .. k - 1, b[j] # zero
      PROVE  \E q \in Positions(b) : q > p
  <2>1. j \in 0 .. k - 1 /\ b[j] \in Block /\ i < j
    BY DEF Storage
  <2>2. PICK u \in b[j] : u \in Offset
    BY <1>3, <2>1 DEF Block, zero
  <2>3. At(j, u) \in Positions(b)
    BY <2>1, <2>2, PositionIff
  <2>4. At(i, o) < At(j, u) /\ At(j, u) \in Nat
    BY <2>1, <2>2, AtOrder, AtUnique
  <2> QED
    BY <1>0, <2>3, <2>4
<1> QED
  BY <1>1, <1>2, <1>3

\* So every form of the query answers.
LEMMA AnyAboveExact ==
    ASSUME NEW k \in Nat, NEW b \in Storage(k), NEW p \in Nat, p \notin Positions(b)
    PROVE  LET held == \E q \in Positions(b) : q > p
           IN  /\ padded_any_above(b, index(p), offset(p)) <=> held
               /\ index(p) < k =>
                     /\ any_above(b, index(p), offset(p)) <=> held
                     /\ k = 2 => (any_above_2(b, index(p), offset(p)) <=> held)
<1> DEFINE i == index(p)
           o == offset(p)
           held == \E q \in Positions(b) : q > p
           later == \E j \in i + 1 .. k - 1 : b[j] # zero
<1>1. i \in Nat /\ o \in Offset /\ p = At(i, o)
  BY IndexOffset, BitsPerBlockAssumption DEF At
<1>2. num_blocks(b) = k /\ last_block(b) = k - 1
  BY NumBlocks DEF last_block
<1> HIDE DEF i, o
<1>3. held <=> (i < k /\ shr(b[i], o) # zero) \/ later
  BY <1>1, HeldAbove
<1>4. set_blocks(b, i + 1, k - 1) # {} <=> later
  BY DEF set_blocks
<1>5. padded_any_above(b, i, o) <=> held
  <2>0. /\ Min({i + 1, k}) \in {i + 1, k}
        /\ Min({i + 1, k}) <= i + 1 /\ Min({i + 1, k}) <= k
    <3>1. i + 1 \in Int /\ k \in Int
      BY <1>1
    <3> QED
      BY <3>1, LesserOf
  <2>1. CASE i + 1 <= k
    <3>1. Min({i + 1, k}) = i + 1
      BY <1>1, <2>0, <2>1
    <3> QED
      BY <1>2, <1>3, <1>4, <3>1 DEF padded_any_above, any_block_set
  <2>2. CASE ~(i + 1 <= k)
    <3>1. Min({i + 1, k}) = k /\ ~(i < k)
      BY <1>1, <2>0, <2>2
    <3>2. set_blocks(b, k, k - 1) = {} /\ ~later
      BY <1>1, <2>2 DEF set_blocks
    <3> QED
      BY <1>2, <1>3, <3>1, <3>2 DEF padded_any_above, any_block_set
  <2> QED
    BY <2>1, <2>2
<1>6. ASSUME i < k
      PROVE  any_above(b, i, o) <=> held
  BY <1>2, <1>3, <1>4, <1>6 DEF any_above
<1>7. ASSUME i < k, k = 2
      PROVE  any_above_2(b, i, o) <=> held
  <2>1. later <=> i = 0 /\ b[1] # zero
    BY <1>1, <1>7
  <2> QED
    BY <1>3, <1>7, <2>1 DEF any_above_2
<1> QED
  BY <1>5, <1>6, <1>7 DEF i, o

(***************************************************************************)
(* The differences, of two containers.                                     *)
(***************************************************************************)
\* A container is storage to scan, and its ones are the positions set.
LEMMA OnesHeld ==
    ASSUME TypeOK, UnusedBitsClear, NEW x \in Obj
    PROVE  /\ Scanned(m_blocks[x], m_size[x]) /\ m_size[x] \in Nat
           /\ blocks_for(m_size[x]) \in Nat /\ m_blocks[x] \in Storage(blocks_for(m_size[x]))
           /\ num_blocks(m_blocks[x]) = blocks_for(m_size[x])
           /\ Ones(x) = Positions(m_blocks[x])
           /\ \A p \in Ones(x) : p \in Nat /\ p < m_size[x]
<1> DEFINE b == m_blocks[x]
           size == m_size[x]
<1>1. Scanned(b, size) /\ size \in Nat
  BY BlocksType DEF Scanned, UnusedBitsClear
<1>2. /\ blocks_for(size) \in Nat /\ b \in Storage(blocks_for(size))
      /\ \A p \in Positions(b) : p \in Nat /\ p < size
  BY <1>1, ScannedPositions
<1>3. Ones(x) = Positions(b)
  BY <1>1, BitsBelowWidth DEF Ones, Bit
<1>4. num_blocks(b) = blocks_for(size)
  BY <1>2, NumBlocks
<1> HIDE DEF b, size
<1> QED
  BY <1>1, <1>2, <1>3, <1>4 DEF b, size

\* Two storages of as many blocks differ where only one holds a position.
LEMMA SameWidth ==
    ASSUME NEW k \in Nat, NEW b \in Storage(k), NEW c \in Storage(k)
    PROVE  Differing(k, b, c) = Apart(b, c)
<1>1. Positions(b) \subseteq Span(k) /\ Positions(c) \subseteq Span(k)
  BY PositionsBelow
<1> QED
  BY <1>1 DEF Differing, Apart

\* The arm compiled for two blocks is the general one.
LEMMA FirstOfTwo ==
    ASSUME NEW b \in Storage(2), NEW c \in Storage(2)
    PROVE  first_difference_2(b, c) = first_difference(b, c)
<1> DEFINE R == {i \in 0 .. last_block(b) - 1 : bit_xor(b[i], c[i]) # zero}
<1>1. num_blocks(b) = 2 /\ last_block(b) = 1
  <2>1. 2 \in Nat /\ 2 - 1 = 1
    OBVIOUS
  <2> QED
    BY <2>1, NumBlocks DEF last_block
<1>2. R = IF bit_xor(b[0], c[0]) # zero THEN {0} ELSE {}
  BY <1>1
<1>3. Min({0}) = 0 /\ {0} # {}
  <2>1. {0} \in SUBSET Nat /\ {0} # {}
    OBVIOUS
  <2> QED
    BY <2>1, MinExists
<1> HIDE DEF R
<1>4. first_difference(b, c) = LET at == IF R = {} THEN 1 ELSE Min(R)
                               IN  <<at, bit_xor(b[at], c[at])>>
  BY <1>1 DEF first_difference, R
<1> QED
  BY <1>2, <1>3, <1>4 DEF first_difference_2

LEMMA DifferencesFound ==
    ASSUME TypeOK, UnusedBitsClear
    PROVE  DifferencesExact
<1> SUFFICES ASSUME NEW x \in Obj, NEW y \in Obj
             PROVE
        LET b == m_blocks[x]  c == m_blocks[y]
            differ == (Ones(x) \ Ones(y)) \cup (Ones(y) \ Ones(x))
            first  == IF differ = {} THEN most_blocks(b, c) ELSE index(Min(differ))
        IN  /\ m_size[x] = m_size[y] /\ differ = {} => first_difference(b, c)[2] = zero
            /\ m_size[x] = m_size[y] /\ differ # {} =>
                LET d == first_difference(b, c)
                IN  /\ base(d[1]) + countr_zero(d[2]) = Min(differ)
                    /\ Blocks2(x) => first_difference_2(b, c) = d
            /\ padded_first_difference(b, c, most_blocks(b, c)) = first
            /\ \A p \in 0 .. m_size[y] - 1 :
                /\ p \notin Ones(x) =>
                    (padded_any_above(b, index(p), offset(p)) <=> \E q \in Ones(x) : q > p)
                /\ p < m_size[x] /\ p \notin Ones(x) =>
                    /\ any_above(b, index(p), offset(p)) <=> \E q \in Ones(x) : q > p
                    /\ Blocks2(x) => (any_above_2(b, index(p), offset(p)) <=> \E q \in Ones(x) : q > p)
  BY DEF DifferencesExact
<1> DEFINE b == m_blocks[x]
           c == m_blocks[y]
           m == m_size[x]
           n == m_size[y]
           k == blocks_for(m)
           l == blocks_for(n)
           differ == (Ones(x) \ Ones(y)) \cup (Ones(y) \ Ones(x))
           d == first_difference(b, c)
           p0 == base(d[1]) + countr_zero(d[2])
<1>1. /\ m \in Nat /\ k \in Nat /\ b \in Storage(k) /\ num_blocks(b) = k
      /\ Ones(x) = Positions(b) /\ Scanned(b, m)
  BY OnesHeld
<1>2. /\ n \in Nat /\ l \in Nat /\ c \in Storage(l) /\ num_blocks(c) = l
      /\ Ones(y) = Positions(c)
  BY OnesHeld
<1>3. differ = Apart(b, c)
  BY <1>1, <1>2 DEF Apart
<1>4. Blocks2(x) <=> k = 2
  BY <1>1 DEF Blocks2
<1>5. m = n => k = l
  OBVIOUS
<1>6. \A p \in Nat : p < m => index(p) \in 0 .. k - 1
  BY <1>1, ScannedPositions
<1> HIDE DEF b, c, m, n, k, l
<1>7. \A p \in differ : p \in Nat
  BY <1>1, <1>2, <1>3, ApartSplit
<1>8. ASSUME m = n
      PROVE  /\ differ = {} => d[2] = zero
             /\ differ # {} => p0 = Min(differ) /\ (k = 2 => first_difference_2(b, c) = d)
  <2>1. c \in Storage(k) /\ Differing(k, b, c) = differ /\ k <= k
    BY <1>1, <1>2, <1>3, <1>5, <1>8, SameWidth
  <2>2. /\ differ = {} <=> d[2] = zero
        /\ differ # {} => p0 \in differ /\ \A q \in differ : p0 <= q
    BY <1>1, <2>1, FirstDifference
  <2>3. k = 2 => first_difference_2(b, c) = d
    BY <1>1, <2>1, FirstOfTwo
  <2> HIDE DEF d, p0
  <2>4. ASSUME differ # {}
        PROVE  p0 = Min(differ)
    <3> HIDE DEF differ
    <3>1. IsFirst(differ, p0, 0) /\ differ \in SUBSET Nat
      BY <1>7, <2>2, <2>4 DEF IsFirst
    <3> QED
      BY <2>4, <3>1, FirstIsMin
  <2> QED
    BY <2>2, <2>3, <2>4
<1>9. padded_first_difference(b, c, most_blocks(b, c))
          = IF differ = {} THEN most_blocks(b, c) ELSE index(Min(differ))
  BY <1>1, <1>2, <1>3, PaddedDifference
<1>10. ASSUME NEW p \in 0 .. n - 1, p \notin Ones(x)
       PROVE  /\ padded_any_above(b, index(p), offset(p)) <=> \E q \in Ones(x) : q > p
              /\ p < m =>
                    /\ any_above(b, index(p), offset(p)) <=> \E q \in Ones(x) : q > p
                    /\ k = 2 => (any_above_2(b, index(p), offset(p)) <=> \E q \in Ones(x) : q > p)
  <2>1. p \in Nat /\ p \notin Positions(b)
    BY <1>1, <1>2, <1>10
  <2>2. p < m => index(p) < k
    BY <1>1, <1>6, <2>1
  <2> QED
    BY <1>1, <2>1, <2>2, AnyAboveExact
<1> HIDE DEF differ, d, p0
<1> QED
  BY <1>4, <1>8, <1>9, <1>10 DEF b, c, m, n, d, p0, differ

\* Whatever two containers of one Block hold, at any two widths:
\* first_difference names the first position that only one of them holds, the
\* padded form its block, and any_above whether a position above a clear one
\* is held; the arms compiled for two blocks are the general ones.
THEOREM DifferencesAreFirst == Spec => []DifferencesExact
BY DifferencesFound, TypeCorrect, UnusedBitsStayClear, PTL

(***************************************************************************)
(* Words.                                                                  *)
(***************************************************************************)
\* The multiple of a length that a position lies above.
LEMMA RoundedDown ==
    ASSUME NEW n \in Nat, NEW w \in Nat \ {0}
    PROVE  LET k == n - (n % w)
           IN  k \in Nat /\ k <= n /\ n < k + w /\ k % w = 0
<1> DEFINE q == n \div w
           r == n % w
<1>1. q \in Nat /\ r \in 0 .. w - 1 /\ n = (q * w) + r
  OBVIOUS
<1>2. q * w \in Nat /\ (q * w) % w = 0
  <2>1. 0 \in 0 .. w - 1 /\ q * w \in Nat /\ (q * w) + 0 = q * w
    BY <1>1
  <2> QED
    BY <1>1, <2>1, Remainder
<1> HIDE DEF q, r
<1>3. n - r = q * w
  BY <1>1, <1>2
<1> QED
  BY <1>1, <1>2, <1>3 DEF r

\* A word read at n, short of last or cut off there, holds the positions from n.
LEMMA WordRead ==
    ASSUME NEW b, NEW size, Scanned(b, size), NEW n \in Nat, NEW last \in Nat, last <= size
    PROVE  word_at(b, n, last) = {o \in 0 .. word_digits - 1 : n + o < last /\ n + o \in Positions(b)}
<1> DEFINE w == bits_per_block
           count == Min({word_digits, last - n})
           parts == {j \in 0 .. count - 1 : j % w = 0}
<1>0. /\ word_digits \in Nat \ {0} /\ w \in Nat \ {0} /\ size \in Nat
  BY WordDigitsAssumption, BitsPerBlockAssumption DEF Scanned
<1>1. /\ count \in Int /\ \A o \in Nat : o < count <=> o < word_digits /\ n + o < last
  <2>1. word_digits \in Int /\ last - n \in Int
    BY <1>0
  <2>2. count \in {word_digits, last - n} /\ count <= word_digits /\ count <= last - n
    BY <2>1, LesserOf
  <2> HIDE DEF count
  <2> QED
    BY <1>0, <2>1, <2>2
<1>2. word_at(b, n, last) = {o \in 0 .. count - 1 : \E j \in parts : o - j \in block_at(b, n + j)}
  BY DEF word_at
<1> HIDE DEF count
<1>4. ASSUME NEW o \in 0 .. count - 1
      PROVE  (\E j \in parts : o - j \in block_at(b, n + j)) <=> n + o \in Positions(b)
  <2>1. ASSUME NEW j \in parts
        PROVE  /\ j \in Nat /\ n + j \in Nat /\ n + j < size
               /\ block_at(b, n + j) \subseteq Offset
               /\ \A u \in Offset : u \in block_at(b, n + j) <=> n + j + u \in Positions(b)
    <3>1. j \in Nat /\ j < count
      BY <1>1
    <3>2. n + j \in Nat /\ n + j < size
      BY <1>0, <1>1, <3>1
    <3>3. block_at(b, n + j) \subseteq Offset
      BY DEF block_at, straddled_block, shr, shl
    <3>4. \A u \in Offset : u \in block_at(b, n + j) <=> n + j + u \in Positions(b)
      BY <3>2, BlockRead
    <3> QED
      BY <3>1, <3>2, <3>3, <3>4
  <2>2. ASSUME NEW j \in parts, o - j \in block_at(b, n + j)
        PROVE  n + o \in Positions(b)
    <3>1. o - j \in Offset
      BY <2>1, <2>2
    <3>2. n + j + (o - j) \in Positions(b)
      BY <2>1, <2>2, <3>1
    <3>3. n + j + (o - j) = n + o
      BY <1>1, <2>1
    <3> QED
      BY <3>2, <3>3
  <2>3. ASSUME n + o \in Positions(b)
        PROVE  \E j \in parts : o - j \in block_at(b, n + j)
    <3> DEFINE j == o - (o % w)
    <3>1. o \in Nat /\ o < count
      BY <1>1
    <3>2. j \in Nat /\ j <= o /\ o < j + w /\ j % w = 0
      BY <1>0, <3>1, RoundedDown
    <3> HIDE DEF j
    <3>3. j \in parts
      BY <1>1, <3>1, <3>2
    <3>4. o - j \in Offset
      BY <1>0, <3>1, <3>2 DEF Offset
    <3>5. n + j + (o - j) = n + o
      BY <3>1, <3>2
    <3> QED
      BY <2>1, <2>3, <3>3, <3>4, <3>5
  <2> QED
    BY <2>2, <2>3
<1>5. word_at(b, n, last) = {o \in 0 .. count - 1 : n + o \in Positions(b)}
  BY <1>2, <1>4
<1>6. ASSUME NEW o \in 0 .. count - 1
      PROVE  o \in 0 .. word_digits - 1 /\ n + o < last
  <2>1. o \in Nat /\ o < count
    BY <1>1
  <2> QED
    BY <1>0, <1>1, <2>1
<1>7. ASSUME NEW o \in 0 .. word_digits - 1, n + o < last
      PROVE  o \in 0 .. count - 1
  <2>1. o \in Nat /\ o < word_digits
    BY <1>0
  <2> QED
    BY <1>0, <1>1, <1>7, <2>1
<1> QED
  BY <1>5, <1>6, <1>7

\* A position of a run of words is of the one that begins at or below it.
LEMMA WordOf ==
    ASSUME NEW len \in Nat, NEW i \in 0 .. len - 1
    PROVE  \E k \in word_starts(len) : \E o \in 0 .. word_digits - 1 : k \in Nat /\ i = k + o
<1> DEFINE k == i - (i % word_digits)
<1>1. word_digits \in Nat \ {0} /\ i \in Nat
  BY WordDigitsAssumption
<1>2. k \in Nat /\ k <= i /\ i < k + word_digits /\ k % word_digits = 0
  BY <1>1, RoundedDown
<1> HIDE DEF k
<1>3. k \in word_starts(len) /\ i - k \in 0 .. word_digits - 1 /\ i = k + (i - k)
  BY <1>1, <1>2 DEF word_starts
<1> QED
  BY <1>2, <1>3

\* No word of two windows differs exactly where the windows agree, one for one.
LEMMA WindowsAgree ==
    ASSUME NEW b, NEW m, Scanned(b, m), NEW c, NEW n, Scanned(c, n),
           NEW first \in Nat, NEW second \in Nat, NEW len \in Nat,
           first + len <= m, second + len <= n
    PROVE  equal_bools(b, first, c, second, len)
              <=> \A i \in 0 .. len - 1 : first + i \in Positions(b) <=> second + i \in Positions(c)
<1> DEFINE agree(i) == first + i \in Positions(b) <=> second + i \in Positions(c)
           bw(k) == word_at(b, first + k, first + len)
           cw(k) == word_at(c, second + k, second + len)
<1>0. word_digits \in Nat \ {0} /\ \A k \in word_starts(len) : k \in Nat
  BY WordDigitsAssumption DEF word_starts
<1>1. ASSUME NEW k \in Nat
      PROVE  /\ bw(k) \subseteq 0 .. word_digits - 1 /\ cw(k) \subseteq 0 .. word_digits - 1
             /\ \A o \in 0 .. word_digits - 1 :
                   /\ o \in bw(k) <=> k + o < len /\ first + (k + o) \in Positions(b)
                   /\ o \in cw(k) <=> k + o < len /\ second + (k + o) \in Positions(c)
  <2>1. first + k \in Nat /\ first + len \in Nat /\ second + k \in Nat /\ second + len \in Nat
    OBVIOUS
  <2>2. bw(k) = {o \in 0 .. word_digits - 1 : first + k + o < first + len /\ first + k + o \in Positions(b)}
    BY <2>1, WordRead
  <2>3. cw(k) = {o \in 0 .. word_digits - 1 : second + k + o < second + len /\ second + k + o \in Positions(c)}
    BY <2>1, WordRead
  <2>4. ASSUME NEW o \in 0 .. word_digits - 1
        PROVE  /\ first + k + o = first + (k + o) /\ second + k + o = second + (k + o)
               /\ first + k + o < first + len <=> k + o < len
               /\ second + k + o < second + len <=> k + o < len
    BY <1>0
  <2> HIDE DEF bw, cw
  <2> QED
    BY <2>2, <2>3, <2>4
<1> HIDE DEF bw, cw
<1>2. equal_bools(b, first, c, second, len) <=> \A k \in word_starts(len) : bw(k) = cw(k)
  BY DEF equal_bools, windows_differ, bw, cw
<1>3. ASSUME \A k \in word_starts(len) : bw(k) = cw(k), NEW i \in 0 .. len - 1
      PROVE  agree(i)
  <2>1. PICK k \in word_starts(len), o \in 0 .. word_digits - 1 : k \in Nat /\ i = k + o
    BY WordOf
  <2>2. i < len
    OBVIOUS
  <2> QED
    BY <1>1, <1>3, <2>1, <2>2
<1>4. ASSUME \A i \in 0 .. len - 1 : agree(i), NEW k \in word_starts(len)
      PROVE  bw(k) = cw(k)
  <2>1. ASSUME NEW o \in 0 .. word_digits - 1
        PROVE  o \in bw(k) <=> o \in cw(k)
    <3>1. CASE k + o < len
      <4>1. k + o \in 0 .. len - 1
        BY <1>0, <3>1
      <4> QED
        BY <1>0, <1>1, <1>4, <4>1
    <3>2. CASE ~(k + o < len)
      BY <1>0, <1>1, <3>2
    <3> QED
      BY <3>1, <3>2
  <2> QED
    BY <1>0, <1>1, <2>1
<1> QED
  BY <1>2, <1>3, <1>4

\* No word of two storages differs exactly where they hold the same keys.
LEMMA KeysAgree ==
    ASSUME NEW b, NEW m, Scanned(b, m), NEW c, NEW n, Scanned(c, n)
    PROVE  equal_keys(b, m, c, n) <=> Positions(b) = Positions(c)
<1> DEFINE bw(k) == word_at(b, k, m)
           cw(k) == word_at(c, k, n)
           w == most(m, n)
<1>0. /\ m \in Nat /\ n \in Nat
      /\ \A p \in Positions(b) : p \in Nat /\ p < m
      /\ \A p \in Positions(c) : p \in Nat /\ p < n
  BY ScannedPositions
<1>1. w \in Nat /\ m <= w /\ n <= w
  <2>1. m \in Int /\ n \in Int
    BY <1>0
  <2>2. w \in {m, n} /\ m <= w /\ n <= w
    BY <2>1, GreaterOf DEF most
  <2> QED
    BY <1>0, <2>2
<1>2. ASSUME NEW k \in Nat
      PROVE  /\ bw(k) \subseteq 0 .. word_digits - 1 /\ cw(k) \subseteq 0 .. word_digits - 1
             /\ \A o \in 0 .. word_digits - 1 : /\ o \in bw(k) <=> k + o \in Positions(b)
                                                /\ o \in cw(k) <=> k + o \in Positions(c)
  <2>1. m <= m /\ n <= n
    BY <1>0
  <2>2. bw(k) = {o \in 0 .. word_digits - 1 : k + o < m /\ k + o \in Positions(b)}
    BY <1>0, <2>1, WordRead
  <2>3. cw(k) = {o \in 0 .. word_digits - 1 : k + o < n /\ k + o \in Positions(c)}
    BY <1>0, <2>1, WordRead
  <2> HIDE DEF bw, cw
  <2> QED
    BY <1>0, <2>2, <2>3
<1> HIDE DEF bw, cw, w
<1>3. equal_keys(b, m, c, n) <=> \A k \in word_starts(w) : bw(k) = cw(k)
  BY DEF equal_keys, words_differ, bw, cw, w
<1>4. ASSUME \A k \in word_starts(w) : bw(k) = cw(k)
      PROVE  Positions(b) = Positions(c)
  <2>1. ASSUME NEW p \in Nat, p < w
        PROVE  p \in Positions(b) <=> p \in Positions(c)
    <3>1. p \in 0 .. w - 1
      BY <1>1, <2>1
    <3>2. PICK k \in word_starts(w), o \in 0 .. word_digits - 1 : k \in Nat /\ p = k + o
      BY <1>1, <3>1, WordOf
    <3> QED
      BY <1>2, <1>4, <3>2
  <2>2. \A p \in Positions(b) \cup Positions(c) : p \in Nat /\ p < w
    BY <1>0, <1>1
  <2> QED
    BY <2>1, <2>2
<1>5. ASSUME Positions(b) = Positions(c), NEW k \in word_starts(w)
      PROVE  bw(k) = cw(k)
  <2>1. k \in Nat
    BY DEF word_starts
  <2> QED
    BY <1>2, <1>5, <2>1
<1> QED
  BY <1>3, <1>4, <1>5

(***************************************************************************)
(* Blocks.                                                                 *)
(***************************************************************************)
\* One storage holds no more than another where none of the blocks they share
\* does and those past them are zero.
LEMMA BlocksCovered ==
    ASSUME NEW k \in Nat, NEW l \in Nat, NEW b \in Storage(k), NEW c \in Storage(l),
           NEW s \in {k, l}, s <= k, s <= l
    PROVE  Positions(b) \subseteq Positions(c)
              <=> (\A i \in 0 .. s - 1 : b[i] \subseteq c[i]) /\ ~any_block_set(b, s, k)
<1>1. any_block_set(b, s, k) <=> \E i \in s .. k - 1 : b[i] # zero
  BY DEF any_block_set, set_blocks
<1>2. /\ \A i \in 0 .. k - 1 : b[i] \subseteq Offset
      /\ \A i \in 0 .. k - 1 : \A o \in Offset : At(i, o) \in Positions(b) <=> o \in b[i]
      /\ \A i \in 0 .. l - 1 : \A o \in Offset : At(i, o) \in Positions(c) <=> o \in c[i]
  BY PositionIff DEF Storage, Block
<1>3. ASSUME \A i \in 0 .. s - 1 : b[i] \subseteq c[i], \A i \in s .. k - 1 : b[i] = zero,
             NEW p \in Positions(b)
      PROVE  p \in Positions(c)
  <2>1. PICK i \in 0 .. k - 1 : \E o \in b[i] : o \in Offset /\ p = At(i, o)
    BY HeldPosition
  <2>2. PICK o \in b[i] : o \in Offset /\ p = At(i, o)
    BY <2>1
  <2>3. i \in 0 .. s - 1
    BY <1>3, <2>2 DEF zero
  <2>4. i \in 0 .. l - 1 /\ o \in c[i]
    BY <1>3, <2>2, <2>3
  <2> QED
    BY <1>2, <2>2, <2>4
<1>4. ASSUME Positions(b) \subseteq Positions(c), NEW i \in 0 .. s - 1
      PROVE  b[i] \subseteq c[i]
  <2>1. i \in 0 .. k - 1 /\ i \in 0 .. l - 1
    OBVIOUS
  <2> QED
    BY <1>2, <1>4, <2>1
<1>5. ASSUME Positions(b) \subseteq Positions(c), NEW i \in s .. k - 1
      PROVE  b[i] = zero
  <2> SUFFICES ASSUME NEW o \in b[i] PROVE FALSE
    BY DEF zero
  <2>1. i \in 0 .. k - 1 /\ o \in Offset
    BY <1>2
  <2>2. At(i, o) \in Positions(c)
    BY <1>2, <1>5, <2>1
  <2>3. PICK j \in 0 .. l - 1 : \E u \in c[j] : u \in Offset /\ At(i, o) = At(j, u)
    BY <2>2, HeldPosition
  <2>4. i = j
    BY <2>1, <2>3, AtUnique
  <2> QED
    BY <2>4
<1> QED
  BY <1>1, <1>3, <1>4, <1>5

LEMMA BlocksAgree ==
    ASSUME NEW k \in Nat, NEW l \in Nat, NEW b \in Storage(k), NEW c \in Storage(l)
    PROVE  set_equal(b, c) <=> Positions(b) = Positions(c)
<1> DEFINE s == least_blocks(b, c)
<1>1. num_blocks(b) = k /\ num_blocks(c) = l
  BY NumBlocks
<1>2. s \in {k, l} /\ s <= k /\ s <= l
  <2>1. k \in Int /\ l \in Int
    OBVIOUS
  <2> QED
    BY <1>1, <2>1, LesserOf DEF least_blocks
<1> HIDE DEF s
<1>3. set_equal(b, c) <=> /\ \A i \in 0 .. s - 1 : b[i] = c[i]
                          /\ ~any_block_set(b, s, k) /\ ~any_block_set(c, s, l)
  BY <1>1 DEF set_equal, s
<1>4. Positions(b) \subseteq Positions(c)
              <=> (\A i \in 0 .. s - 1 : b[i] \subseteq c[i]) /\ ~any_block_set(b, s, k)
  BY <1>2, BlocksCovered
<1>5. Positions(c) \subseteq Positions(b)
              <=> (\A i \in 0 .. s - 1 : c[i] \subseteq b[i]) /\ ~any_block_set(c, s, l)
  BY <1>2, BlocksCovered
<1> QED
  BY <1>3, <1>4, <1>5

\* The first position below a width, the shorter storage's, that differs;
\* a difference past it is passed over.
LEMMA MismatchFound ==
    ASSUME NEW b, NEW m, Scanned(b, m), NEW c, NEW n, Scanned(c, n), m <= n
    PROVE  LET T == {p \in 0 .. m - 1 : (p \in Positions(b)) # (p \in Positions(c))}
           IN  first_mismatch(b, c, m) = IF T = {} THEN m ELSE Min(T)
<1> DEFINE T == {p \in 0 .. m - 1 : (p \in Positions(b)) # (p \in Positions(c))}
           k == blocks_for(m)
           l == blocks_for(n)
           D == Differing(k, b, c)
           d == first_difference(b, c)
           p0 == base(d[1]) + countr_zero(d[2])
<1>1. m \in Nat /\ n \in Nat /\ k \in Nat /\ l \in Nat /\ b \in Storage(k) /\ c \in Storage(l)
  BY ScannedPositions
<1>2. k <= l
  BY <1>1, BlocksForMonotone
<1>3. /\ \A p \in D : p \in Nat
      /\ T = {p \in D : p < m}
  <2>1. \A p \in D : p \in Nat
    BY <1>1, DifferingSplit
  <2>2. \A p \in 0 .. m - 1 : p \in Span(k)
    <3> DEFINE extent == k * bits_per_block
    <3>1. m <= extent /\ extent \in Int
      BY <1>1, BlocksForBounds, WholeWidth
    <3>2. Span(k) = 0 .. extent - 1
      BY DEF Span
    <3> HIDE DEF extent
    <3> QED
      BY <1>1, <3>1, <3>2
  <2>3. \A p \in T : p \in D /\ p < m
    BY <1>1, <2>2 DEF Differing
  <2>4. \A p \in D : p < m => p \in T
    BY <1>1, <2>1 DEF Differing
  <2> HIDE DEF D, T
  <2> QED
    BY <2>1, <2>3, <2>4
<1>4. /\ D = {} <=> d[2] = zero
      /\ D # {} => p0 \in D /\ \A q \in D : p0 <= q
  BY <1>1, <1>2, FirstDifference
<1>5. first_mismatch(b, c, m) = IF m = 0 \/ d[2] = zero THEN m ELSE Min({p0, m})
  BY DEF first_mismatch
<1> HIDE DEF D, T, d, p0
<1>6. CASE m = 0 \/ D = {}
  <2>1. T = {}
    BY <1>1, <1>3, <1>6
  <2> QED
    BY <1>4, <1>5, <1>6, <2>1 DEF T
<1>7. CASE m # 0 /\ D # {}
  <2>1. p0 \in Nat /\ p0 \in D /\ \A q \in D : p0 <= q
    BY <1>3, <1>4, <1>7
  <2>2. Min({p0, m}) \in {p0, m} /\ Min({p0, m}) <= p0 /\ Min({p0, m}) <= m
    <3>1. p0 \in Int /\ m \in Int
      BY <1>1, <2>1
    <3> QED
      BY <3>1, LesserOf
  <2>3. CASE p0 < m
    <3>1. Min({p0, m}) = p0
      BY <1>1, <2>1, <2>2, <2>3
    <3>2. IsFirst(T, p0, m) /\ T \in SUBSET Nat /\ T # {}
      BY <1>3, <2>1, <2>3 DEF IsFirst
    <3>3. p0 = Min(T)
      BY <3>2, FirstIsMin
    <3> QED
      BY <1>4, <1>5, <1>7, <3>1, <3>2, <3>3 DEF T
  <2>4. CASE ~(p0 < m)
    <3>1. Min({p0, m}) = m
      BY <1>1, <2>1, <2>2, <2>4
    <3>2. T = {}
      <4> SUFFICES ASSUME NEW q \in T PROVE FALSE
        OBVIOUS
      <4>1. q \in D /\ q \in Nat /\ q < m /\ p0 <= q
        BY <1>3, <2>1
      <4> QED
        BY <1>1, <2>1, <2>4, <4>1
    <3> QED
      BY <1>4, <1>5, <1>7, <3>1, <3>2 DEF T
  <2> QED
    BY <2>3, <2>4
<1> QED
  BY <1>6, <1>7

(***************************************************************************)
(* Equality, of two containers.                                            *)
(***************************************************************************)
\* Below its width a container's bit is whether its blocks hold the position.
LEMMA BitsHeld ==
    ASSUME TypeOK, UnusedBitsClear, NEW x \in Obj, NEW p \in 0 .. m_size[x] - 1
    PROVE  Bit(x, p) \in BOOLEAN /\ (Bit(x, p) <=> p \in Positions(m_blocks[x]))
<1>1. Bit(x, p) <=> p \in Ones(x)
  BY DEF Ones
<1> QED
  BY <1>1, OnesHeld DEF Bit, BitAt

LEMMA AgreeingBits ==
    ASSUME TypeOK, UnusedBitsClear, NEW x \in Obj, NEW y \in Obj
    PROVE  LET b == m_blocks[x]  m == m_size[x]
               c == m_blocks[y]  n == m_size[y]
               differ == {p \in 0 .. m - 1 : Bit(x, p) # Bit(y, p)}
           IN  /\ set_equal(b, c) <=> Ones(x) = Ones(y)
               /\ equal_keys(b, m, c, n) <=> Ones(x) = Ones(y)
               /\ m <= n => first_mismatch(b, c, m) = IF differ = {} THEN m ELSE Min(differ)
               /\ \A first \in 0 .. m, second \in 0 .. n :
                  \A len \in 0 .. Min({m - first, n - second}) :
                       equal_bools(b, first, c, second, len)
                           <=> Bools(x, first, len) = Bools(y, second, len)
<1> DEFINE b == m_blocks[x]
           m == m_size[x]
           c == m_blocks[y]
           n == m_size[y]
           k == blocks_for(m)
           l == blocks_for(n)
           differ == {p \in 0 .. m - 1 : Bit(x, p) # Bit(y, p)}
           T == {p \in 0 .. m - 1 : (p \in Positions(b)) # (p \in Positions(c))}
<1>1. /\ m \in Nat /\ k \in Nat /\ b \in Storage(k) /\ Ones(x) = Positions(b) /\ Scanned(b, m)
      /\ n \in Nat /\ l \in Nat /\ c \in Storage(l) /\ Ones(y) = Positions(c) /\ Scanned(c, n)
  BY OnesHeld
<1>2. /\ \A p \in 0 .. m - 1 : Bit(x, p) \in BOOLEAN /\ (Bit(x, p) <=> p \in Positions(b))
      /\ \A p \in 0 .. n - 1 : Bit(y, p) \in BOOLEAN /\ (Bit(y, p) <=> p \in Positions(c))
  BY BitsHeld
<1>3. m <= n => differ = T
  <2> SUFFICES ASSUME m <= n PROVE differ = T
    OBVIOUS
  <2>1. \A p \in 0 .. m - 1 : p \in 0 .. n - 1
    BY <1>1
  <2> HIDE DEF b, c, m, n
  <2>2. ASSUME NEW p \in 0 .. m - 1
        PROVE  (Bit(x, p) # Bit(y, p)) <=> ((p \in Positions(b)) # (p \in Positions(c)))
    <3>1. /\ Bit(x, p) \in BOOLEAN /\ (Bit(x, p) <=> p \in Positions(b))
          /\ Bit(y, p) \in BOOLEAN /\ (Bit(y, p) <=> p \in Positions(c))
      BY <1>2, <2>1
    <3> QED
      BY <3>1
  <2> QED
    BY <2>2, Zenon
<1> HIDE DEF b, c, m, n, k, l
<1>4. set_equal(b, c) <=> Ones(x) = Ones(y)
  BY <1>1, BlocksAgree
<1>5. equal_keys(b, m, c, n) <=> Ones(x) = Ones(y)
  BY <1>1, KeysAgree
<1>6. m <= n => first_mismatch(b, c, m) = IF differ = {} THEN m ELSE Min(differ)
  <2>1. m <= n => first_mismatch(b, c, m) = IF T = {} THEN m ELSE Min(T)
    BY <1>1, MismatchFound
  <2> HIDE DEF differ, T
  <2> QED
    BY <1>3, <2>1
<1>7. ASSUME NEW first \in 0 .. m, NEW second \in 0 .. n,
             NEW len \in 0 .. Min({m - first, n - second})
      PROVE  equal_bools(b, first, c, second, len)
                 <=> Bools(x, first, len) = Bools(y, second, len)
  <2>1. first \in Nat /\ second \in Nat /\ len \in Nat /\ first + len <= m /\ second + len <= n
    <3>1. m - first \in Int /\ n - second \in Int
      BY <1>1
    <3>2. /\ Min({m - first, n - second}) \in {m - first, n - second}
          /\ Min({m - first, n - second}) <= m - first
          /\ Min({m - first, n - second}) <= n - second
      BY <3>1, LesserOf
    <3> QED
      BY <1>1, <3>1, <3>2
  <2>2. equal_bools(b, first, c, second, len)
          <=> \A i \in 0 .. len - 1 : first + i \in Positions(b) <=> second + i \in Positions(c)
    BY <1>1, <2>1, WindowsAgree
  <2>3. ASSUME NEW i \in 1 .. len
        PROVE  /\ first + i - 1 \in 0 .. m - 1 /\ first + i - 1 = first + (i - 1)
               /\ second + i - 1 \in 0 .. n - 1 /\ second + i - 1 = second + (i - 1)
               /\ i - 1 \in 0 .. len - 1
    BY <1>1, <2>1
  <2>4. ASSUME NEW i \in 1 .. len
        PROVE  Bit(x, first + i - 1) = Bit(y, second + i - 1)
                  <=> (first + (i - 1) \in Positions(b) <=> second + (i - 1) \in Positions(c))
    BY <1>2, <2>3, Zenon
  <2>5. Bools(x, first, len) = Bools(y, second, len)
          <=> \A i \in 1 .. len : Bit(x, first + i - 1) = Bit(y, second + i - 1)
    BY Zenon DEF Bools
  <2>6. (\A i \in 0 .. len - 1 : first + i \in Positions(b) <=> second + i \in Positions(c))
          <=> \A i \in 1 .. len : first + (i - 1) \in Positions(b) <=> second + (i - 1) \in Positions(c)
    <3>1. \A i \in 0 .. len - 1 : i + 1 \in 1 .. len /\ (i + 1) - 1 = i
      BY <2>1
    <3> QED
      BY <2>3, <3>1
  <2> QED
    BY <2>2, <2>4, <2>5, <2>6
<1> HIDE DEF differ
<1> QED
  BY <1>4, <1>5, <1>6, <1>7 DEF b, c, m, n, differ

(***************************************************************************)
(* Blocks of three, of up to five positions.                               *)
(***************************************************************************)
\* How many blocks of three a width needs, and what they hold.
LEMMA ThreesAre ==
    ASSUME NEW m \in 0 .. 5, NEW s \in SUBSET (0 .. m - 1)
    PROVE  LET k == Threes!blocks_for(m)
           IN  /\ k = IF m = 0 THEN 0 ELSE IF m <= 3 THEN 1 ELSE 2
               /\ Threes!num_blocks(InThrees(m, s)) = k
               /\ \A i \in 0 .. k - 1 :
                     InThrees(m, s)[i] = {o \in 0 .. 2 : 3 * i + o \in s}
<1> DEFINE k == Threes!blocks_for(m)
<1>1. m \div 3 = (IF m <= 2 THEN 0 ELSE 1) /\ (m % 3 # 0 <=> m # 0 /\ m # 3)
  OBVIOUS
<1>2. k = IF m = 0 THEN 0 ELSE IF m <= 3 THEN 1 ELSE 2
  BY <1>1 DEF Threes!blocks_for
<1>3. k \in Nat
  BY <1>2
<1> HIDE DEF k
<1>4. DOMAIN InThrees(m, s) = 0 .. k - 1
  BY DEF InThrees, k
<1>5. Cardinality(0 .. k - 1) = k
  <2>1. Cardinality(0 .. k - 1) = IF 0 > k - 1 THEN 0 ELSE (k - 1) - 0 + 1
    BY <1>3, FS_Interval
  <2> QED
    BY <1>3, <2>1
<1>6. Threes!num_blocks(InThrees(m, s)) = k
  <2>1. \A R : Threes!Cardinality(R) = Cardinality(R)
    BY Zenon DEF Threes!Cardinality, Cardinality
  <2> QED
    BY <1>4, <1>5, <2>1 DEF Threes!num_blocks
<1>7. \A i \in 0 .. k - 1 : InThrees(m, s)[i] = {o \in 0 .. 2 : 3 * i + o \in s}
  BY DEF InThrees, k
<1> QED
  BY <1>2, <1>6, <1>7 DEF k

\* What the instance takes from the library is the library's.
LEMMA ThreesMin == \A R : Threes!Min(R) = Min(R)
BY Zenon DEF Threes!Min, Min

\* The first mismatch in them, where the first difference lies past the width
\* among others.
LEMMA ThreesMismatch ==
    ASSUME NEW n \in 0 .. 5, NEW m \in 0 .. n,
           NEW s \in SUBSET (0 .. m - 1), NEW t \in SUBSET (0 .. n - 1)
    PROVE  LET differ == {p \in 0 .. m - 1 : (p \in s) # (p \in t)}
           IN  Threes!first_mismatch(InThrees(m, s), InThrees(n, t), m)
                   = IF differ = {} THEN m ELSE Min(differ)
<1> DEFINE b == InThrees(m, s)
           c == InThrees(n, t)
           k == Threes!blocks_for(m)
           l == Threes!blocks_for(n)
           W(i) == {o \in 0 .. 2 : (3 * i + o \in s) # (3 * i + o \in t)}
           at == IF k = 2 /\ W(0) = {} THEN 1 ELSE 0
           d == Threes!first_difference(b, c)
           q == 3 * at + Min(W(at))
           differ == {p \in 0 .. m - 1 : (p \in s) # (p \in t)}
<1>1. /\ m \in 0 .. 5 /\ k = IF m = 0 THEN 0 ELSE IF m <= 3 THEN 1 ELSE 2
      /\ Threes!num_blocks(b) = k
      /\ \A i \in 0 .. k - 1 : b[i] = {o \in 0 .. 2 : 3 * i + o \in s}
  <2>1. m \in 0 .. 5
    OBVIOUS
  <2> QED
    BY <2>1, ThreesAre
<1>2. /\ l = IF n = 0 THEN 0 ELSE IF n <= 3 THEN 1 ELSE 2
      /\ \A i \in 0 .. l - 1 : c[i] = {o \in 0 .. 2 : 3 * i + o \in t}
  BY ThreesAre
<1> HIDE DEF b, c, k, l
<1>3. \A i \in 0 .. k - 1 : Threes!bit_xor(b[i], c[i]) = W(i)
  <2> SUFFICES ASSUME NEW i \in 0 .. k - 1 PROVE Threes!bit_xor(b[i], c[i]) = W(i)
    OBVIOUS
  <2>1. i \in 0 .. l - 1
    BY <1>1, <1>2
  <2>2. b[i] = {o \in 0 .. 2 : 3 * i + o \in s} /\ c[i] = {o \in 0 .. 2 : 3 * i + o \in t}
    BY <1>1, <1>2, <2>1
  <2>3. Threes!bit_xor(b[i], c[i]) = (b[i] \ c[i]) \cup (c[i] \ b[i])
    BY DEF Threes!bit_xor
  <2> QED
    BY <2>2, <2>3
<1>4. CASE m = 0
  <2>1. Threes!first_mismatch(b, c, m) = m
    BY <1>4 DEF Threes!first_mismatch
  <2>2. differ = {}
    BY <1>4
  <2> QED
    BY <2>1, <2>2 DEF b, c
<1>5. CASE m # 0
  <2>1. k \in {1, 2} /\ at \in {0, 1} /\ at \in 0 .. k - 1
    BY <1>1, <1>5
  <2>2. d = <<at, W(at)>>
    <3> DEFINE R == {i \in 0 .. Threes!last_block(b) - 1 : Threes!bit_xor(b[i], c[i]) # Threes!zero}
    <3>1. Threes!last_block(b) = k - 1
      BY <1>1 DEF Threes!last_block
    <3>2. R = IF k = 2 /\ W(0) # {} THEN {0} ELSE {}
      <4> HIDE DEF W
      <4>1. R \subseteq {0} /\ (0 \in R <=> k = 2 /\ W(0) # {})
        BY <1>3, <2>1, <3>1 DEF Threes!zero
      <4> HIDE DEF R
      <4> QED
        BY <4>1
    <3>3. Threes!Min({0}) = 0
      <4>1. {0} \in SUBSET Nat /\ {0} # {}
        OBVIOUS
      <4>2. Min({0}) = 0
        BY <4>1, MinExists
      <4> QED
        BY <4>2, ThreesMin
    <3>4. at = IF R = {} THEN Threes!last_block(b) ELSE Threes!Min(R)
      <4> HIDE DEF W, R
      <4> QED
        BY <2>1, <3>1, <3>2, <3>3
    <3>5. d = <<at, Threes!bit_xor(b[at], c[at])>>
      <4> HIDE DEF W, at
      <4> QED
        BY <1>1, <2>1, <3>4 DEF Threes!first_difference
    <3> HIDE DEF at, W
    <3> QED
      BY <1>3, <2>1, <3>5
  <2>3. d[1] = at /\ d[2] = W(at)
    <3> HIDE DEF d, at, W
    <3> QED
      BY <2>2
  <2>4. W(at) # {} => Min(W(at)) \in W(at) /\ \A o \in W(at) : Min(W(at)) <= o
    <3>1. W(at) \in SUBSET Nat
      OBVIOUS
    <3> HIDE DEF W, at
    <3> QED
      BY <3>1, MinExists
  <2>5. Threes!first_mismatch(b, c, m) = IF W(at) = {} THEN m ELSE Min({q, m})
    <3> HIDE DEF W, at
    <3>1. W(at) # {} => Threes!countr_zero(W(at)) = Min(W(at))
      BY ThreesMin DEF Threes!countr_zero, Threes!zero
    <3>2. Threes!base(at) = 3 * at
      BY DEF Threes!base
    <3>3. Threes!first_mismatch(b, c, m)
              = IF d[2] = {} THEN m
                ELSE Threes!Min({Threes!base(d[1]) + Threes!countr_zero(d[2]), m})
      BY <1>5 DEF Threes!first_mismatch, Threes!zero
    <3> HIDE DEF d
    <3> QED
      BY <2>3, <3>1, <3>2, <3>3, ThreesMin
  <2>6. ASSUME NEW p \in differ
        PROVE  \E i \in {0, 1} : \E o \in W(i) : p = 3 * i + o /\ i < k
    <3>1. CASE p <= 2
      <4>1. p \in W(0) /\ p = 3 * 0 + p /\ 0 < k
        BY <2>1, <3>1
      <4> QED
        BY <4>1
    <3>2. CASE ~(p <= 2)
      <4>1. p - 3 \in W(1) /\ p = 3 * 1 + (p - 3) /\ 1 < k
        BY <1>1, <3>2
      <4> QED
        BY <4>1
    <3> QED
      BY <3>1, <3>2
  <2>7. CASE W(at) = {}
    <3>1. differ = {}
      <4> SUFFICES ASSUME NEW p \in differ PROVE FALSE
        OBVIOUS
      <4>0. PICK i \in {0, 1} : \E o \in W(i) : p = 3 * i + o /\ i < k
        BY <2>6
      <4>1. PICK o \in W(i) : p = 3 * i + o /\ i < k
        BY <4>0
      <4> HIDE DEF W
      <4> QED
        BY <2>1, <2>7, <4>1
    <3> QED
      BY <2>5, <2>7, <3>1 DEF b, c
  <2>8. CASE W(at) # {}
    <3>1. /\ Min(W(at)) \in 0 .. 2 /\ q \in Nat
          /\ (q \in s) # (q \in t)
      BY <2>1, <2>4, <2>8
    <3>2. \A p \in differ : q <= p
      <4> SUFFICES ASSUME NEW p \in differ PROVE q <= p
        OBVIOUS
      <4>0. PICK i \in {0, 1} : \E o \in W(i) : p = 3 * i + o /\ i < k
        BY <2>6
      <4>1. PICK o \in W(i) : p = 3 * i + o /\ i < k
        BY <4>0
      <4>2. o \in 0 .. 2
        OBVIOUS
      <4>3. at <= i /\ (at = i => Min(W(at)) <= o)
        <5> HIDE DEF W
        <5>1. at = 1 => W(0) = {}
          OBVIOUS
        <5> HIDE DEF at
        <5>2. at <= i
          BY <2>1, <4>1, <5>1
        <5>3. at = i => Min(W(at)) <= o
          BY <2>4, <2>8
        <5> QED
          BY <5>2, <5>3
      <4> HIDE DEF W, at
      <4> QED
        BY <2>1, <3>1, <4>1, <4>2, <4>3
    <3> HIDE DEF q, W, at
    <3>3. Min({q, m}) \in {q, m} /\ Min({q, m}) <= q /\ Min({q, m}) <= m
      <4>1. q \in Int /\ m \in Int
        BY <3>1
      <4> QED
        BY <4>1, LesserOf
    <3>4. CASE q < m
      <4>1. q \in differ /\ Min({q, m}) = q
        BY <3>1, <3>3, <3>4
      <4>2. differ \in SUBSET Nat
        OBVIOUS
      <4> HIDE DEF differ
      <4>3. IsFirst(differ, q, m)
        BY <3>2, <4>1 DEF IsFirst
      <4>4. q = Min(differ)
        BY <4>1, <4>2, <4>3, FirstIsMin
      <4> QED
        BY <2>5, <2>8, <4>1, <4>4 DEF b, c, differ
    <3>5. CASE ~(q < m)
      <4>1. Min({q, m}) = m
        BY <3>1, <3>3, <3>5
      <4>2. differ = {}
        <5> SUFFICES ASSUME NEW p \in differ PROVE FALSE
          OBVIOUS
        <5>1. p \in Nat /\ p < m /\ q <= p
          BY <3>2
        <5> HIDE DEF differ
        <5> QED
          BY <3>1, <3>5, <5>1
      <4> QED
        BY <2>5, <2>8, <4>1, <4>2 DEF b, c
    <3> QED
      BY <3>4, <3>5
  <2> QED
    BY <2>7, <2>8
<1> QED
  BY <1>4, <1>5

\* Every equality of two containers, whatever their widths, block against
\* block or word against word, holds exactly where the keys, or the bools of
\* two windows, agree one for one, and a mismatch is the first position that
\* does not.
THEOREM EqualityIsOfPositions == Spec => []EqualityExact
<1>1. PaddingPassedOver
  BY ThreesMismatch DEF PaddingPassedOver
<1>2. TypeOK /\ UnusedBitsClear => EqualityExact
  BY <1>1, AgreeingBits DEF EqualityExact
<1> QED
  BY <1>2, TypeCorrect, UnusedBitsStayClear, PTL


(***************************************************************************)
(* Transfers: records.                                                     *)
(***************************************************************************)
IsContainer(c) == c = Container(c.blocks, c.size, c.count, c.room, c.alloc)

\* A container is its fields.
LEMMA Fields ==
    ASSUME NEW b, NEW size, NEW count, NEW room, NEW alloc
    PROVE  LET c == Container(b, size, count, room, alloc)
           IN  /\ c.blocks = b /\ c.size = size /\ c.count = count
               /\ c.room = room /\ c.alloc = alloc /\ IsContainer(c)
BY DEF Container, IsContainer

\* The assignments of several fields, by name.
Filled(c, b, r, a) == [c EXCEPT !.blocks = b, !.room = r, !.alloc = a]
Roomed(c, r, a)    == [c EXCEPT !.room = r, !.alloc = a]
Sized(c, s, n)     == [c EXCEPT !.size = s, !.count = n]

\* What the assignments of fields leave.
LEMMA FieldsAssigned ==
    ASSUME NEW c, IsContainer(c)
    PROVE  /\ \A b : [c EXCEPT !.blocks = b] = Container(b, c.size, c.count, c.room, c.alloc)
           /\ \A b, r, a : Filled(c, b, r, a) = Container(b, c.size, c.count, r, a)
           /\ \A r, a : Roomed(c, r, a) = Container(c.blocks, c.size, c.count, r, a)
           /\ \A s, n : Sized(c, s, n) = Container(c.blocks, s, n, c.room, c.alloc)
           /\ \A took : gone(c, took) = Container(no_blocks, 0, 0, IF took THEN 0 ELSE c.room, c.alloc)
           /\ cleared(c) = Container(no_blocks, c.size, c.count, c.room, c.alloc)
           /\ \A a : [c EXCEPT !.alloc = a] = Container(c.blocks, c.size, c.count, c.room, a)
<1> DEFINE b0 == c.blocks
           s0 == c.size
           n0 == c.count
           r0 == c.room
           a0 == c.alloc
<1>1. c = [blocks |-> b0, size |-> s0, count |-> n0, room |-> r0, alloc |-> a0]
  BY DEF IsContainer, Container
<1>2. c.blocks = b0 /\ c.size = s0 /\ c.count = n0 /\ c.room = r0 /\ c.alloc = a0
  OBVIOUS
<1> HIDE DEF b0, s0, n0, r0, a0
<1>3. \A b : [c EXCEPT !.blocks = b] = Container(b, s0, n0, r0, a0)
  BY <1>1 DEF Container
<1>4. \A a : [c EXCEPT !.alloc = a] = Container(b0, s0, n0, r0, a)
  BY <1>1 DEF Container
<1>5. ASSUME NEW b, NEW r, NEW a
      PROVE  Filled(c, b, r, a) = Container(b, s0, n0, r, a)
  <2> DEFINE d == Container(b, s0, n0, r0, a0)
             e == Container(b, s0, n0, r, a0)
  <2>1. [c EXCEPT !.blocks = b] = d
    BY <1>3
  <2>2. [d EXCEPT !.room = r] = e
    BY DEF Container
  <2>3. [e EXCEPT !.alloc = a] = Container(b, s0, n0, r, a)
    BY DEF Container
  <2>4. Filled(c, b, r, a) = [[[c EXCEPT !.blocks = b] EXCEPT !.room = r] EXCEPT !.alloc = a]
    BY DEF Filled
  <2> HIDE DEF d, e
  <2> QED
    BY <2>1, <2>2, <2>3, <2>4
<1>6. ASSUME NEW r, NEW a
      PROVE  Roomed(c, r, a) = Container(b0, s0, n0, r, a)
  <2> DEFINE d == Container(b0, s0, n0, r, a0)
  <2>1. [c EXCEPT !.room = r] = d
    BY <1>1 DEF Container
  <2>2. [d EXCEPT !.alloc = a] = Container(b0, s0, n0, r, a)
    BY DEF Container
  <2>3. Roomed(c, r, a) = [[c EXCEPT !.room = r] EXCEPT !.alloc = a]
    BY DEF Roomed
  <2> HIDE DEF d
  <2> QED
    BY <2>1, <2>2, <2>3
<1>7. ASSUME NEW s, NEW n
      PROVE  Sized(c, s, n) = Container(b0, s, n, r0, a0)
  <2> DEFINE d == Container(b0, s, n0, r0, a0)
  <2>1. [c EXCEPT !.size = s] = d
    BY <1>1 DEF Container
  <2>2. [d EXCEPT !.count = n] = Container(b0, s, n, r0, a0)
    BY DEF Container
  <2>3. Sized(c, s, n) = [[c EXCEPT !.size = s] EXCEPT !.count = n]
    BY DEF Sized
  <2> HIDE DEF d
  <2> QED
    BY <2>1, <2>2, <2>3
<1>8. ASSUME NEW took
      PROVE  gone(c, took) = Container(no_blocks, 0, 0, IF took THEN 0 ELSE r0, a0)
  <2> DEFINE room == IF took THEN 0 ELSE r0
             d == Container(no_blocks, s0, n0, r0, a0)
             e == Container(no_blocks, 0, n0, r0, a0)
             f == Container(no_blocks, 0, 0, r0, a0)
  <2>1. [c EXCEPT !.blocks = no_blocks] = d
    BY <1>3
  <2>2. [d EXCEPT !.size = 0] = e
    BY DEF Container
  <2>3. [e EXCEPT !.count = 0] = f
    BY DEF Container
  <2>4. [f EXCEPT !.room = room] = Container(no_blocks, 0, 0, room, a0)
    BY DEF Container
  <2> HIDE DEF d, e, f
  <2>5. gone(c, took) = [[[[c EXCEPT !.blocks = no_blocks] EXCEPT !.size = 0] EXCEPT !.count = 0]
                            EXCEPT !.room = room]
    BY <1>2 DEF gone
  <2> HIDE DEF room
  <2>6. gone(c, took) = Container(no_blocks, 0, 0, room, a0)
    BY <2>1, <2>2, <2>3, <2>4, <2>5
  <2> QED
    BY <2>6 DEF room
<1>9. cleared(c) = Container(no_blocks, s0, n0, r0, a0)
  BY <1>3 DEF cleared
<1> QED
  BY <1>3, <1>4, <1>5, <1>6, <1>7, <1>8, <1>9 DEF b0, s0, n0, r0, a0

\* What an assignment of blocks answers.
LEMMA Answers ==
    ASSUME NEW c
    PROVE  /\ Held(c).held = c /\ ~Held(c).refused
           /\ Refused(c).held = c /\ Refused(c).refused
BY DEF Held, Refused

(***************************************************************************)
(* Transfers: the blocks.                                                  *)
(***************************************************************************)
\* A copy built in has exactly its room, under the allocator asked for; only
\* blocks are refused, and then nothing has changed.
LEMMA BuiltIn ==
    ASSUME NEW c, IsContainer(c), NEW b, NEW alloc, NEW r \in built_in(c, b, alloc)
    PROVE  \/ /\ ~r.refused
              /\ r.held = Container(b, c.size, c.count, num_blocks(b), alloc)
           \/ /\ r.refused /\ r.held = c /\ num_blocks(b) # 0
<1>1. \/ r = Held(Filled(c, b, num_blocks(b), alloc))
      \/ r = Refused(c) /\ num_blocks(b) # 0
  BY DEF built_in, Filled
<1>2. \/ r = Held(Container(b, c.size, c.count, num_blocks(b), alloc))
      \/ r = Refused(c) /\ num_blocks(b) # 0
  BY <1>1, FieldsAssigned
<1> QED
  BY <1>2, Answers

\* Blocks assigned have room, and stay under the allocator held; they are
\* refused only for want of room, and then nothing has changed.
LEMMA AssignedBlocks ==
    ASSUME NEW c, IsContainer(c), NEW b, NEW r \in assign_blocks(c, b),
           num_blocks(b) \in Nat, c.room \in Nat
    PROVE  \/ /\ ~r.refused
              /\ \E room \in Nat : /\ num_blocks(b) <= room
                                   /\ r.held = Container(b, c.size, c.count, room, c.alloc)
           \/ r.refused /\ r.held = c /\ c.room < num_blocks(b)
<1>1. CASE num_blocks(b) <= c.room
  <2>1. r = Held(Container(b, c.size, c.count, c.room, c.alloc))
    BY <1>1, FieldsAssigned DEF assign_blocks
  <2> QED
    BY <1>1, <2>1, Answers
<1>2. CASE ~(num_blocks(b) <= c.room)
  <2>1. r \in built_in(c, b, c.alloc)
    BY <1>2 DEF assign_blocks
  <2> QED
    BY <1>2, <2>1, BuiltIn
<1> QED
  BY <1>1, <1>2

\* What is left of a container whose copied blocks were refused: all of it,
\* unless its allocator can be neither moved nor swapped in.
Emptied(c, d) == \E room \in {0, c.room} : \E alloc : d = Container(no_blocks, 0, 0, room, alloc)

LEMMA CopiedBlocks ==
    ASSUME NEW t, NEW c, IsContainer(c), NEW y, NEW r \in copy_blocks(t, c, y),
           num_blocks(y.blocks) \in Nat, c.room \in Nat
    PROVE  \/ /\ ~r.refused
              /\ \E room \in Nat :
                    /\ num_blocks(y.blocks) <= room
                    /\ r.held = Container(y.blocks, c.size, c.count, room,
                                          IF t.on_copy THEN y.alloc ELSE c.alloc)
           \/ /\ r.refused
              /\ c.room < num_blocks(y.blocks) \/ (t.on_copy /\ unequal(c, y))
              /\ \/ r.held = c
                 \/ /\ t.on_copy /\ ~t.on_move /\ ~t.on_swap /\ unequal(c, y)
                    /\ Emptied(c, r.held)
<1>1. CASE ~(t.on_copy /\ unequal(c, y))
  <2>1. r \in assign_blocks(c, y.blocks)
    BY <1>1 DEF copy_blocks
  <2>2. c.alloc = IF t.on_copy THEN y.alloc ELSE c.alloc
    BY <1>1 DEF unequal
  <2> QED
    BY <2>1, <2>2, AssignedBlocks
<1>2. CASE t.on_copy /\ unequal(c, y) /\ (t.on_move \/ t.on_swap)
  <2>1. r \in built_in(c, y.blocks, y.alloc)
    BY <1>2 DEF copy_blocks
  <2> QED
    BY <1>2, <2>1, BuiltIn
<1>3. CASE t.on_copy /\ unequal(c, y) /\ ~(t.on_move \/ t.on_swap)
  <2>1. PICK q \in vector_copy_assigned(c, y) :
           r = IF q.refused THEN Refused([cleared(q.held) EXCEPT !.size = 0, !.count = 0]) ELSE q
    BY <1>3 DEF copy_blocks
  <2>2. \/ q = Held(Container(y.blocks, c.size, c.count, num_blocks(y.blocks), y.alloc))
        \/ \E room \in {0, c.room}, alloc \in {c.alloc, y.alloc} :
              q = Refused(Container(c.blocks, c.size, c.count, room, alloc))
    <3>1. \/ q = Held(Filled(c, y.blocks, num_blocks(y.blocks), y.alloc))
          \/ \E room \in {0, c.room}, alloc \in {c.alloc, y.alloc} : q = Refused(Roomed(c, room, alloc))
      BY DEF vector_copy_assigned, Filled, Roomed
    <3> QED
      BY <3>1, FieldsAssigned
  <2>3. CASE q = Held(Container(y.blocks, c.size, c.count, num_blocks(y.blocks), y.alloc))
    <3>1. ~q.refused
      BY <2>3, Answers
    <3>2. r = q
      BY <2>1, <3>1
    <3> QED
      BY <1>3, <2>3, <3>1, <3>2, Answers
  <2>4. ASSUME NEW room \in {0, c.room}, NEW alloc \in {c.alloc, y.alloc},
               q = Refused(Container(c.blocks, c.size, c.count, room, alloc))
        PROVE  r.refused /\ Emptied(c, r.held)
    <3> DEFINE d == Container(c.blocks, c.size, c.count, room, alloc)
               e == Container(no_blocks, c.size, c.count, room, alloc)
               f == Container(no_blocks, 0, 0, room, alloc)
    <3>1. q.refused /\ q.held = d
      BY <2>4, Answers
    <3>2. IsContainer(d) /\ d.size = c.size /\ d.count = c.count /\ d.room = room /\ d.alloc = alloc
      BY Fields
    <3>3. /\ IsContainer(e) /\ e.blocks = no_blocks /\ e.room = room /\ e.alloc = alloc
      BY Fields
    <3> HIDE DEF d
    <3>4. cleared(d) = e
      BY <3>2, FieldsAssigned
    <3> HIDE DEF e
    <3>5. Sized(e, 0, 0) = f
      BY <3>3, FieldsAssigned
    <3> HIDE DEF f
    <3>6. r = Refused(Sized(cleared(q.held), 0, 0))
      BY <2>1, <3>1 DEF Sized
    <3>7. r = Refused(f)
      BY <3>1, <3>4, <3>5, <3>6
    <3> QED
      BY <3>7, Answers DEF Emptied, f
  <2> QED
    BY <1>3, <2>2, <2>3, <2>4
<1> QED
  BY <1>1, <1>2, <1>3

\* Blocks moved over are taken with their room, unless the allocators differ
\* and the one held stays: they are then assigned.
LEMMA MovedBlocks ==
    ASSUME NEW t, NEW c, IsContainer(c), NEW y, NEW r \in move_blocks(t, c, y),
           num_blocks(y.blocks) \in Nat, c.room \in Nat,
           y.room \in Nat, num_blocks(y.blocks) <= y.room
    PROVE  \/ /\ ~r.refused
              /\ \E room \in Nat :
                    /\ num_blocks(y.blocks) <= room
                    /\ r.held = Container(y.blocks, c.size, c.count, room,
                                          IF t.on_move THEN y.alloc ELSE c.alloc)
           \/ /\ r.refused /\ r.held = c
              /\ ~t.on_move /\ unequal(c, y) /\ c.room < num_blocks(y.blocks)
<1>1. CASE ~t.on_move /\ unequal(c, y)
  <2>1. r \in assign_blocks(c, y.blocks)
    BY <1>1 DEF move_blocks
  <2> QED
    BY <1>1, <2>1, AssignedBlocks
<1>2. CASE t.on_move \/ ~unequal(c, y)
  <2>1. r = Held(Container(y.blocks, c.size, c.count, y.room, y.alloc))
    <3>1. r = Held(Filled(c, y.blocks, y.room, y.alloc))
      BY <1>2 DEF move_blocks, vector_moved, Filled
    <3> QED
      BY <3>1, FieldsAssigned
  <2>2. y.alloc = IF t.on_move THEN y.alloc ELSE c.alloc
    BY <1>2 DEF unequal
  <2> QED
    BY <2>1, <2>2, Answers
<1> QED
  BY <1>1, <1>2

\* A constructor takes the blocks of its own allocator, and copies the others.
LEMMA TakenBlocks ==
    ASSUME NEW t, NEW c, IsContainer(c), NEW y, NEW r \in take_blocks(t, c, y)
    PROVE  \/ /\ ~r.refused
              /\ \E room \in {num_blocks(y.blocks), y.room} :
                    r.held = Container(y.blocks, c.size, c.count, room, c.alloc)
           \/ r.refused /\ unequal(c, y)
<1>1. CASE unequal(c, y)
  <2>1. r \in built_in(c, y.blocks, c.alloc)
    BY <1>1 DEF take_blocks
  <2> QED
    BY <1>1, <2>1, BuiltIn
<1>2. CASE ~unequal(c, y)
  <2>1. r = Held(Container(y.blocks, c.size, c.count, y.room, y.alloc))
    <3>1. r = Held(Filled(c, y.blocks, y.room, y.alloc))
      BY <1>2 DEF take_blocks, vector_moved, Filled
    <3> QED
      BY <3>1, FieldsAssigned
  <2>2. y.alloc = c.alloc
    BY <1>2 DEF unequal
  <2> QED
    BY <2>1, <2>2, Answers
<1> QED
  BY <1>1, <1>2

(***************************************************************************)
(* The outcomes.                                                           *)
(***************************************************************************)
\* A container with blocks and room that can be counted.
Whole(c) == IsContainer(c) /\ num_blocks(c.blocks) \in Nat /\ c.room \in Nat /\ Sound(c)

\* The bits of one container, in room for them, under an allocator.
IsCopy(d, y, alloc) ==
    \E room \in Nat :
        num_blocks(y.blocks) <= room /\ d = Container(y.blocks, y.size, y.count, room, alloc)

\* No bits, in any room.
IsEmptied(d, alloc) == \E room \in Nat : d = Container(no_blocks, 0, 0, room, alloc)

\* The blocks that came over, with the width and the count of the source.
LEMMA SizedAsSource ==
    ASSUME NEW y, NEW c, NEW size, NEW count, NEW room, NEW alloc,
           c = Container(y.blocks, size, count, room, alloc)
    PROVE  Sized(c, y.size, y.count) =
               Container(y.blocks, y.size, y.count, room, alloc)
<1>1. IsContainer(c) /\ c.blocks = y.blocks /\ c.room = room /\ c.alloc = alloc
  BY Fields
<1> QED
  BY <1>1, FieldsAssigned

\* A source that has been emptied.
LEMMA GoneEmptied ==
    ASSUME NEW y, Whole(y), NEW took
    PROVE  IsEmptied(gone(y, took), y.alloc)
<1>1. gone(y, took) = Container(no_blocks, 0, 0, IF took THEN 0 ELSE y.room, y.alloc)
  BY FieldsAssigned DEF Whole
<1> QED
  BY <1>1 DEF IsEmptied, Whole

\* A copy assignment.
LEMMA CopiedOutcome ==
    ASSUME NEW t, NEW x, NEW y, Whole(x), Whole(y), NEW r \in copied(t, x, y)
    PROVE  /\ r.from = y
           /\ \/ ~r.threw /\ IsCopy(r.to, y, IF t.on_copy THEN y.alloc ELSE x.alloc)
              \/ /\ r.threw
                 /\ x.room < num_blocks(y.blocks) \/ (t.on_copy /\ unequal(x, y))
                 /\ \/ r.to = x
                    \/ /\ t.on_copy /\ ~t.on_move /\ ~t.on_swap /\ unequal(x, y)
                       /\ \E alloc : IsEmptied(r.to, alloc)
<1> DEFINE alloc == IF t.on_copy THEN y.alloc ELSE x.alloc
<1>1. PICK q \in copy_blocks(t, x, y) :
         r = IF q.refused
             THEN Outcome(q.held, y, TRUE)
             ELSE Outcome(Sized(q.held, y.size, y.count), y, FALSE)
  BY DEF copied, Sized
<1>2. \/ /\ ~q.refused
         /\ \E room \in Nat : /\ num_blocks(y.blocks) <= room
                              /\ q.held = Container(y.blocks, x.size, x.count, room, alloc)
      \/ /\ q.refused
         /\ x.room < num_blocks(y.blocks) \/ (t.on_copy /\ unequal(x, y))
         /\ \/ q.held = x
            \/ /\ t.on_copy /\ ~t.on_move /\ ~t.on_swap /\ unequal(x, y)
               /\ Emptied(x, q.held)
  BY CopiedBlocks DEF Whole
<1> HIDE DEF alloc
<1>3. CASE ~q.refused
  <2>1. PICK room \in Nat : /\ num_blocks(y.blocks) <= room
                            /\ q.held = Container(y.blocks, x.size, x.count, room, alloc)
    BY <1>2, <1>3
  <2> DEFINE d == Container(y.blocks, y.size, y.count, room, alloc)
  <2>2. Sized(q.held, y.size, y.count) = d
    BY <2>1, SizedAsSource
  <2>3. IsCopy(d, y, alloc)
    BY <2>1 DEF IsCopy
  <2> HIDE DEF d
  <2>4. r = Outcome(d, y, FALSE)
    BY <1>1, <1>3, <2>2
  <2>5. r.to = d /\ ~r.threw /\ r.from = y
    BY <2>4 DEF Outcome
  <2> QED
    BY <2>3, <2>5 DEF alloc
<1>4. CASE q.refused
  <2>0. r = Outcome(q.held, y, TRUE)
    BY <1>1, <1>4
  <2>1. r.to = q.held /\ r.from = y /\ r.threw
    BY <2>0 DEF Outcome
  <2>2. Emptied(x, q.held) => \E a : IsEmptied(q.held, a)
    BY DEF Emptied, IsEmptied, Whole
  <2> QED
    BY <1>2, <1>4, <2>1, <2>2
<1> QED
  BY <1>3, <1>4

\* A move assignment.
LEMMA MovedOutcome ==
    ASSUME NEW t, NEW x, NEW y, Whole(x), Whole(y), NEW r \in moved(t, x, y)
    PROVE  \/ /\ ~r.threw
              /\ IsCopy(r.to, y, IF t.on_move THEN y.alloc ELSE x.alloc)
              /\ IsEmptied(r.from, y.alloc)
           \/ /\ r.threw /\ r.to = x /\ r.from = y
              /\ ~t.on_move /\ unequal(x, y) /\ x.room < num_blocks(y.blocks)
<1> DEFINE alloc == IF t.on_move THEN y.alloc ELSE x.alloc
           left  == gone(y, t.on_move \/ ~unequal(x, y))
<1>1. PICK q \in move_blocks(t, x, y) :
         r = IF q.refused
             THEN Outcome(q.held, y, TRUE)
             ELSE Outcome(Sized(q.held, y.size, y.count), left, FALSE)
  BY DEF moved, Sized
<1>2. \/ /\ ~q.refused
         /\ \E room \in Nat : /\ num_blocks(y.blocks) <= room
                              /\ q.held = Container(y.blocks, x.size, x.count, room, alloc)
      \/ /\ q.refused /\ q.held = x
         /\ ~t.on_move /\ unequal(x, y) /\ x.room < num_blocks(y.blocks)
  BY MovedBlocks DEF Whole, Sound
<1>3. IsEmptied(left, y.alloc)
  BY GoneEmptied
<1> HIDE DEF alloc, left
<1>4. CASE ~q.refused
  <2>1. PICK room \in Nat : /\ num_blocks(y.blocks) <= room
                            /\ q.held = Container(y.blocks, x.size, x.count, room, alloc)
    BY <1>2, <1>4
  <2> DEFINE d == Container(y.blocks, y.size, y.count, room, alloc)
  <2>2. Sized(q.held, y.size, y.count) = d
    BY <2>1, SizedAsSource
  <2>3. IsCopy(d, y, alloc)
    BY <2>1 DEF IsCopy
  <2> HIDE DEF d
  <2>4. r = Outcome(d, left, FALSE)
    BY <1>1, <1>4, <2>2
  <2>5. r.to = d /\ ~r.threw /\ r.from = left
    BY <2>4 DEF Outcome
  <2> QED
    BY <1>3, <2>3, <2>5 DEF alloc
<1>5. CASE q.refused
  <2>0. r = Outcome(q.held, y, TRUE)
    BY <1>1, <1>5
  <2>1. r.to = q.held /\ r.from = y /\ r.threw
    BY <2>0 DEF Outcome
  <2> QED
    BY <1>2, <1>5, <2>1
<1> QED
  BY <1>4, <1>5

\* The copy constructor under an allocator.
LEMMA CopiedUnderOutcome ==
    ASSUME NEW y, NEW alloc, Whole(y), NEW r \in copied_under(y, alloc)
    PROVE  /\ r.from = y
           /\ \/ ~r.threw /\ IsCopy(r.to, y, alloc)
              \/ r.threw /\ r.to = nothing
<1> DEFINE empty == Container(no_blocks, 0, 0, 0, alloc)
<1>1. PICK q \in built_in(empty, y.blocks, alloc) :
         r = IF q.refused
             THEN Outcome(nothing, y, TRUE)
             ELSE Outcome(Sized(q.held, y.size, y.count), y, FALSE)
  BY DEF copied_under, Sized
<1>2. IsContainer(empty) /\ empty.size = 0 /\ empty.count = 0
  BY Fields
<1> HIDE DEF empty
<1>3. \/ ~q.refused /\ q.held = Container(y.blocks, 0, 0, num_blocks(y.blocks), alloc)
      \/ q.refused
  BY <1>2, BuiltIn
<1>4. CASE ~q.refused
  <2>1. q.held = Container(y.blocks, 0, 0, num_blocks(y.blocks), alloc)
    BY <1>3, <1>4
  <2> DEFINE d == Sized(q.held, y.size, y.count)
  <2>2. d = Container(y.blocks, y.size, y.count, num_blocks(y.blocks), alloc)
    BY <2>1, SizedAsSource
  <2> HIDE DEF d
  <2>3. r = Outcome(d, y, FALSE)
    BY <1>1, <1>4 DEF d
  <2>4. r.to = d /\ r.from = y /\ ~r.threw
    BY <2>3 DEF Outcome
  <2>5. num_blocks(y.blocks) \in Nat /\ num_blocks(y.blocks) <= num_blocks(y.blocks)
    BY DEF Whole
  <2> QED
    BY <2>2, <2>4, <2>5 DEF IsCopy
<1>5. CASE q.refused
  <2>1. r = Outcome(nothing, y, TRUE)
    BY <1>1, <1>5
  <2> HIDE DEF nothing
  <2> QED
    BY <2>1 DEF Outcome
<1> QED
  BY <1>4, <1>5

\* What a move constructor takes its blocks into.
LEMMA TakenUnder ==
    ASSUME NEW t, NEW y, NEW alloc, Whole(y),
           NEW q \in take_blocks(t, Container(no_blocks, 0, 0, 0, alloc), y)
    PROVE  \/ /\ ~q.refused
              /\ \E room \in Nat : /\ num_blocks(y.blocks) <= room
                                   /\ q.held = Container(y.blocks, 0, 0, room, alloc)
           \/ q.refused /\ alloc # y.alloc
<1> DEFINE empty == Container(no_blocks, 0, 0, 0, alloc)
<1>1. IsContainer(empty) /\ empty.size = 0 /\ empty.count = 0 /\ empty.alloc = alloc
  BY Fields
<1> HIDE DEF empty
<1>2. q \in take_blocks(t, empty, y)
  BY DEF empty
<1> QED
  BY <1>1, <1>2, TakenBlocks DEF unequal, Whole, Sound

\* The move constructor under an allocator.
LEMMA MovedUnderOutcome ==
    ASSUME NEW t, NEW y, NEW alloc, Whole(y), NEW r \in moved_under(t, y, alloc)
    PROVE  \/ ~r.threw /\ IsCopy(r.to, y, alloc) /\ IsEmptied(r.from, y.alloc)
           \/ r.threw /\ alloc # y.alloc
<1>1. PICK q \in take_blocks(t, Container(no_blocks, 0, 0, 0, alloc), y) :
         r = IF q.refused
             THEN Outcome(nothing, [y EXCEPT !.size = 0], TRUE)
             ELSE Outcome(Sized(q.held, y.size, y.count), gone(y, q.held.alloc = y.alloc), FALSE)
  BY DEF moved_under, Sized
<1> DEFINE left == gone(y, q.held.alloc = y.alloc)
           narrowed == [y EXCEPT !.size = 0]
<1>2. IsEmptied(left, y.alloc)
  BY GoneEmptied
<1> HIDE DEF left, narrowed
<1>3. CASE ~q.refused
  <2>1. PICK room \in Nat : /\ num_blocks(y.blocks) <= room
                            /\ q.held = Container(y.blocks, 0, 0, room, alloc)
    BY <1>3, TakenUnder
  <2> DEFINE d == Sized(q.held, y.size, y.count)
  <2>2. d = Container(y.blocks, y.size, y.count, room, alloc)
    BY <2>1, SizedAsSource
  <2> HIDE DEF d
  <2>3. r = Outcome(d, left, FALSE)
    BY <1>1, <1>3 DEF d, left
  <2>4. r.to = d /\ r.from = left /\ ~r.threw
    BY <2>3 DEF Outcome
  <2> QED
    BY <1>2, <2>1, <2>2, <2>4 DEF IsCopy
<1>4. CASE q.refused
  <2>1. r = Outcome(nothing, narrowed, TRUE)
    BY <1>1, <1>4 DEF narrowed
  <2> HIDE DEF nothing
  <2>2. r.threw
    BY <2>1 DEF Outcome
  <2> QED
    BY <1>4, <2>2, TakenUnder
<1> QED
  BY <1>3, <1>4

\* Blocks adopted under an allocator.
LEMMA AdoptedUnderOutcome ==
    ASSUME NEW t, NEW y, NEW alloc, Whole(y), NEW r \in adopted_under(t, y, alloc), ~r.threw
    PROVE  r.to.blocks = y.blocks /\ r.to.size = num_bits(y.blocks)
<1> DEFINE s == num_bits(y.blocks)
           n == count_blocks(y.blocks)
<1>1. PICK q \in take_blocks(t, Container(no_blocks, 0, 0, 0, alloc), y) :
         r = IF q.refused
             THEN Outcome(nothing, y, TRUE)
             ELSE Outcome(Sized(q.held, s, n), y, FALSE)
  BY DEF adopted_under, Sized
<1> HIDE DEF s, n, nothing
<1>2. ~q.refused
  <2>1. q.refused => r = Outcome(nothing, y, TRUE)
    BY <1>1
  <2> QED
    BY <2>1 DEF Outcome
<1>3. PICK room \in Nat : q.held = Container(y.blocks, 0, 0, room, alloc)
  BY <1>2, TakenUnder
<1> DEFINE c == q.held
           d == Sized(c, s, n)
           e == Container(y.blocks, s, n, room, alloc)
<1>4. IsContainer(c) /\ c.blocks = y.blocks /\ c.room = room /\ c.alloc = alloc
  BY <1>3, Fields
<1> HIDE DEF c
<1>5. d = e
  BY <1>4, FieldsAssigned
<1>6. e.blocks = y.blocks /\ e.size = s
  BY Fields
<1>7. r = Outcome(d, y, FALSE)
  BY <1>1, <1>2 DEF c
<1> HIDE DEF d, e
<1>8. r.to = d
  BY <1>7 DEF Outcome
<1> QED
  BY <1>5, <1>6, <1>8 DEF s

\* A swap, of equal allocators or of allocators that come over.
LEMMA SwappedOutcome ==
    ASSUME NEW t, NEW x, NEW y, Whole(x), Whole(y), NEW r \in swapped(t, x, y)
    PROVE  /\ SameBits(r.to, y) /\ SameBits(r.from, x)
           /\ ~t.on_swap => r.to.alloc = x.alloc
<1> DEFINE a == IF t.on_swap THEN y.alloc ELSE x.alloc
           b == IF t.on_swap THEN x.alloc ELSE y.alloc
           u == [y EXCEPT !.alloc = a]
           v == [x EXCEPT !.alloc = b]
           d == Container(y.blocks, y.size, y.count, y.room, a)
           e == Container(x.blocks, x.size, x.count, x.room, b)
<1>1. r = Outcome(u, v, FALSE)
  BY DEF swapped
<1>2. ~t.on_swap => a = x.alloc
  OBVIOUS
<1> HIDE DEF a, b
<1>3. u = d /\ v = e
  BY FieldsAssigned DEF Whole
<1>4. /\ d.blocks = y.blocks /\ d.size = y.size /\ d.count = y.count /\ d.alloc = a
      /\ e.blocks = x.blocks /\ e.size = x.size /\ e.count = x.count
  BY Fields
<1> HIDE DEF u, v, d, e
<1>5. r.to = u /\ r.from = v
  BY <1>1 DEF Outcome
<1> QED
  BY <1>2, <1>3, <1>4, <1>5 DEF SameBits

(***************************************************************************)
(* Transfers: the class invariant, and what the outcomes keep of it.       *)
(***************************************************************************)
\* No bits in any room are a sound container.
LEMMA EmptiedSound ==
    ASSUME NEW d, NEW alloc, IsEmptied(d, alloc)
    PROVE  Empty(d) /\ Sound(d) /\ d.alloc = alloc
<1>1. PICK room \in Nat : d = Container(no_blocks, 0, 0, room, alloc)
  BY DEF IsEmptied
<1>2. d.blocks = no_blocks /\ d.size = 0 /\ d.count = 0 /\ d.room = room /\ d.alloc = alloc
  BY <1>1, Fields
<1>3. DOMAIN no_blocks = {}
  BY DEF no_blocks
<1>4. num_blocks(no_blocks) = 0
  BY <1>3, FS_EmptySet DEF num_blocks
<1>5. num_bits(no_blocks) = 0
  BY <1>4, BitsPerBlockAssumption DEF num_bits
<1>6. Positions(no_blocks) = {}
  BY <1>5 DEF Positions
<1>7. count_blocks(no_blocks) = 0
  BY <1>6, FS_EmptySet DEF count_blocks
<1>8. blocks_for(0) = 0
  BY BlocksForUnique, BitsPerBlockAssumption
<1>9. TailClear(no_blocks, 0)
  BY <1>3 DEF TailClear
<1>10. 0 <= room
  OBVIOUS
<1> HIDE DEF no_blocks
<1> QED
  BY <1>2, <1>4, <1>7, <1>8, <1>9, <1>10 DEF Empty, Sound

\* The bits of a sound container, in room for them, are one.
LEMMA CopySound ==
    ASSUME NEW d, NEW y, NEW alloc, Whole(y), IsCopy(d, y, alloc)
    PROVE  SameBits(d, y) /\ Sound(d) /\ d.alloc = alloc
<1>1. PICK room \in Nat : /\ num_blocks(y.blocks) <= room
                          /\ d = Container(y.blocks, y.size, y.count, room, alloc)
  BY DEF IsCopy
<1>2. d.blocks = y.blocks /\ d.size = y.size /\ d.count = y.count /\ d.room = room /\ d.alloc = alloc
  BY <1>1, Fields
<1> QED
  BY <1>1, <1>2 DEF SameBits, Sound, Whole

\* The containers over the blocks of one of the objects are sound.
LEMMA OverWhole ==
    ASSUME TypeOK, UnusedBitsClear, NEW o \in Obj, NEW c \in Over(o)
    PROVE  Whole(c)
<1> DEFINE b == m_blocks[o]
           size == m_size[o]
           k == blocks_for(size)
<1>1. size \in Nat /\ k \in Nat /\ b \in Storage(k) /\ TailClear(b, size)
  BY BlocksType, BlocksForBounds DEF UnusedBitsClear
<1>2. num_blocks(b) = k
  BY <1>1, NumBlocks
<1>3. Ones(o) = Positions(b)
  <2>1. Ones(o) = {p \in 0 .. size - 1 : BitAt(b, p)}
    BY DEF Ones, Bit
  <2> HIDE DEF b, size, k
  <2> QED
    BY <1>1, <2>1, BitsBelowWidth DEF Scanned, k
<1>4. Cardinality(Ones(o)) = count_blocks(b)
  BY <1>3 DEF count_blocks
<1>5. PICK room \in k .. MaxBlocks, alloc \in Allocator :
         c = Container(b, size, count_blocks(b), room, alloc)
  BY <1>2, <1>4 DEF Over
<1>6. /\ c.blocks = b /\ c.size = size /\ c.count = count_blocks(b) /\ c.room = room
      /\ IsContainer(c)
  BY <1>5, Fields
<1>7. room \in Nat /\ k <= room
  BY <1>1, MaxBlocksAssumption
<1> HIDE DEF b, size
<1> QED
  BY <1>1, <1>2, <1>6, <1>7 DEF Whole, Sound

(***************************************************************************)
(* The property, for one pair of containers.                               *)
(***************************************************************************)
LEMMA AllComplete ==
    ASSUME NEW t, NEW x, NEW y, Whole(x), Whole(y)
    PROVE  CompletesExactly(t, x, y)
<1>1. ASSUME NEW r \in copied(t, x, y), ~r.threw
      PROVE  SameBits(r.to, y) /\ r.from = y /\ r.to.alloc = IF t.on_copy THEN y.alloc ELSE x.alloc
  BY <1>1, CopiedOutcome, CopySound
<1>2. ASSUME NEW r \in moved(t, x, y), ~r.threw
      PROVE  /\ SameBits(r.to, y) /\ Empty(r.from) /\ r.from.alloc = y.alloc
             /\ r.to.alloc = IF t.on_move THEN y.alloc ELSE x.alloc
  <2>1. IsCopy(r.to, y, IF t.on_move THEN y.alloc ELSE x.alloc) /\ IsEmptied(r.from, y.alloc)
    BY <1>2, MovedOutcome
  <2> QED
    BY <2>1, CopySound, EmptiedSound
<1>3. ASSUME NEW r \in copied_under(y, x.alloc) \cup moved_under(t, y, x.alloc), ~r.threw
      PROVE  /\ SameBits(r.to, y) /\ r.to.alloc = x.alloc
             /\ r.from = y \/ Empty(r.from)
  <2>1. IsCopy(r.to, y, x.alloc) /\ (r.from = y \/ IsEmptied(r.from, y.alloc))
    BY <1>3, CopiedUnderOutcome, MovedUnderOutcome
  <2> QED
    BY <2>1, CopySound, EmptiedSound
<1>4. ASSUME NEW r \in adopted_under(t, y, x.alloc), ~r.threw
      PROVE  r.to.blocks = y.blocks /\ r.to.size = num_bits(y.blocks)
  BY <1>4, AdoptedUnderOutcome
<1>5. ASSUME NEW r \in swapped(t, x, y)
      PROVE  /\ SameBits(r.to, y) /\ SameBits(r.from, x)
             /\ ~t.on_swap => r.to.alloc = x.alloc
  BY SwappedOutcome
<1> QED
  BY <1>1, <1>2, <1>3, <1>4, <1>5 DEF CompletesExactly

LEMMA AllKept ==
    ASSUME NEW t, NEW x, NEW y, Whole(x), Whole(y)
    PROVE  RefusedKeeps(t, x, y) /\ RefusedOnlyToAllocate(t, x, y)
<1>1. ASSUME NEW r \in copied(t, x, y) \cup moved(t, x, y), r.threw
      PROVE  /\ r.from = y
             /\ r.to = x \/ (t.on_copy /\ ~t.on_move /\ ~t.on_swap /\ unequal(x, y) /\ Empty(r.to))
  BY <1>1, CopiedOutcome, MovedOutcome, EmptiedSound
<1>2. ASSUME NEW r \in moved(t, x, y), r.threw
      PROVE  ~t.on_move /\ unequal(x, y) /\ x.room < num_blocks(y.blocks)
  BY <1>2, MovedOutcome
<1>3. ASSUME NEW r \in copied(t, x, y), r.threw
      PROVE  x.room < num_blocks(y.blocks) \/ (t.on_copy /\ unequal(x, y))
  BY <1>3, CopiedOutcome
<1>4. ASSUME NEW r \in moved_under(t, y, x.alloc), r.threw
      PROVE  unequal(x, y)
  BY <1>4, MovedUnderOutcome DEF unequal
<1> QED
  BY <1>1, <1>2, <1>3, <1>4 DEF RefusedKeeps, RefusedOnlyToAllocate

LEMMA AllSound ==
    ASSUME NEW t, NEW x, NEW y, Whole(x), Whole(y),
           NEW r \in copied(t, x, y) \cup moved(t, x, y) \cup copied_under(y, x.alloc)
    PROVE  Sound(r.from) /\ (r.to = nothing \/ Sound(r.to))
<1>1. Sound(x) /\ Sound(y)
  BY DEF Whole
<1>2. CASE r \in copied(t, x, y)
  BY <1>1, <1>2, CopiedOutcome, CopySound, EmptiedSound
<1>3. CASE r \in moved(t, x, y)
  BY <1>1, <1>3, MovedOutcome, CopySound, EmptiedSound
<1>4. CASE r \in copied_under(y, x.alloc)
  BY <1>1, <1>4, CopiedUnderOutcome, CopySound
<1> QED
  BY <1>2, <1>3, <1>4

\* Under every traits of the allocators, whatever the width, the block and
\* the room, a copy, a move, a swap or an allocator-extended construction of
\* a bit_block_container that completes leaves exactly the bits, width and
\* count of its source; an assignment that is refused leaves both containers
\* as they were, or, where the allocator comes over by copy alone, its target
\* empty; only what allocates is refused; and what an assignment or a copy
\* leaves keeps the class invariant.
THEOREM TransfersStayExact == Spec => []TransfersExact
<1>1. TypeOK /\ UnusedBitsClear => TransfersExact
  <2> SUFFICES ASSUME TypeOK, UnusedBitsClear, NEW c \in Obj, NEW d \in Obj, NEW t \in Traits,
                      NEW x \in Over(c), NEW y \in Over(d)
               PROVE  /\ CompletesExactly(t, x, y)
                      /\ RefusedKeeps(t, x, y)
                      /\ RefusedOnlyToAllocate(t, x, y)
                      /\ \A r \in copied(t, x, y) \cup moved(t, x, y) \cup copied_under(y, x.alloc) :
                            Sound(r.from) /\ (r.to = nothing \/ Sound(r.to))
    BY DEF TransfersExact
  <2>1. Whole(x) /\ Whole(y)
    BY OverWhole
  <2> QED
    BY <2>1, AllComplete, AllKept, AllSound
<1> QED
  BY <1>1, TypeCorrect, UnusedBitsStayClear, PTL

(***************************************************************************)
(* Copies: a fold over the steps of a window, in their order.              *)
(***************************************************************************)
\* Two functions of the sets of 1 .. n agree on the empty one, and on a set
\* where they do on the set without its greatest.
StepsAgree(n, f, g) ==
    /\ f[{}] = g[{}]
    /\ \A s \in SUBSET (1 .. n) : s # {} /\ f[s \ {Max(s)}] = g[s \ {Max(s)}] => f[s] = g[s]

\* Then they agree, since the sets are finite.
LEMMA FoldsAgree ==
    ASSUME NEW n \in Nat, NEW f, NEW g, StepsAgree(n, f, g)
    PROVE  \A s \in SUBSET (1 .. n) : f[s] = g[s]
<1> DEFINE W == 1 .. n
           differ == {m \in Nat : \E s \in SUBSET W : Cardinality(s) = m /\ f[s] # g[s]}
<1>1. IsFiniteSet(W)
  BY FS_Interval
<1>2. ASSUME NEW s \in SUBSET W, f[s] # g[s]
      PROVE  \E u \in SUBSET W : f[u] # g[u] /\ Cardinality(u) < Cardinality(s)
  <2> DEFINE x == Max(s)
             u == s \ {x}
  <2>1. s # {} /\ s \in SUBSET (0 .. n)
    BY <1>2 DEF StepsAgree
  <2>2. x \in s
    BY <2>1, MaxExists
  <2>3. u \in SUBSET W /\ f[u] # g[u]
    BY <1>2, <2>1 DEF StepsAgree
  <2>4. IsFiniteSet(s)
    BY <1>1, FS_Subset
  <2>5. Cardinality(u) = Cardinality(s) - 1 /\ Cardinality(s) \in Nat
    BY <2>2, <2>4, FS_RemoveElement, FS_CardinalityType
  <2> HIDE DEF u
  <2>6. Cardinality(u) < Cardinality(s)
    BY <2>5
  <2> QED
    BY <2>3, <2>6
<1>3. ASSUME NEW s \in SUBSET W, f[s] # g[s]
      PROVE  FALSE
  <2>1. \A u \in SUBSET W : Cardinality(u) \in Nat
    BY <1>1, FS_Subset, FS_CardinalityType
  <2>2. differ \in SUBSET Nat /\ differ # {}
    BY <1>3, <2>1
  <2>3. Min(differ) \in differ /\ \A m \in differ : Min(differ) <= m
    BY <2>2, MinExists
  <2>4. PICK u \in SUBSET W : Cardinality(u) = Min(differ) /\ f[u] # g[u]
    BY <2>3
  <2>5. PICK v \in SUBSET W : f[v] # g[v] /\ Cardinality(v) < Cardinality(u)
    BY <1>2, <2>4
  <2>6. Cardinality(v) \in differ
    BY <2>1, <2>5
  <2> HIDE DEF differ
  <2> QED
    BY <2>1, <2>3, <2>4, <2>5, <2>6
<1> QED
  BY <1>3

\* How many of s lie below p.
below(s, p) == Cardinality({q \in s : q < p})

\* upward(s) hands out every number of s, and none twice.
LEMMA Upward ==
    ASSUME NEW s \in SUBSET Nat, IsFiniteSet(s)
    PROVE  LET u == upward(s)
               c == Cardinality(s)
           IN  /\ c \in Nat /\ DOMAIN u = 1 .. c
               /\ \A j \in 1 .. c : u[j] \in s /\ below(s, u[j]) = j - 1
               /\ \A i, j \in 1 .. c : u[i] = u[j] => i = j
               /\ \A p \in s : \E j \in 1 .. c : u[j] = p
<1> DEFINE u == upward(s)
           c == Cardinality(s)
           I == 0 .. c - 1
           ranked == [p \in s |-> below(s, p)]
<1>1. c \in Nat
  BY FS_CardinalityType
<1>2. ASSUME NEW p \in s
      PROVE  below(s, p) \in I
  <2> DEFINE low == {q \in s : q < p}
  <2>1. low \in SUBSET s /\ low # s
    OBVIOUS
  <2>2. IsFiniteSet(low) /\ Cardinality(low) <= c /\ Cardinality(low) # c
    BY <2>1, FS_Subset
  <2>3. Cardinality(low) \in Nat
    BY <2>2, FS_CardinalityType
  <2> QED
    BY <1>1, <2>2, <2>3 DEF below
<1>0. \A p \in s : p \in Nat
  OBVIOUS
<1>3. ASSUME NEW p \in s, NEW q \in s, p < q
      PROVE  below(s, p) # below(s, q)
  <2> DEFINE low  == {r \in s : r < p}
             high == {r \in s : r < q}
  <2>0. \A r \in s : r < p => r < q
    BY <1>0, <1>3
  <2>1. low \in SUBSET high /\ p \in high /\ p \notin low
    <3>1. low \in SUBSET high
      BY <2>0
    <3>2. p \in high
      BY <1>3
    <3>3. p \notin low
      BY <1>0
    <3> QED
      BY <3>1, <3>2, <3>3
  <2>2. high \in SUBSET s
    OBVIOUS
  <2>3. IsFiniteSet(high)
    BY <2>2, FS_Subset
  <2> HIDE DEF low, high
  <2>4. Cardinality(low) # Cardinality(high)
    BY <2>1, <2>3, FS_Subset
  <2> QED
    BY <2>4 DEF below, low, high
<1>4. \A p, q \in s : below(s, p) = below(s, q) => p = q
  BY <1>3
<1>5. IsFiniteSet(I) /\ Cardinality(I) = c
  <2>1. IsFiniteSet(0 .. c - 1) /\ Cardinality(0 .. c - 1) = IF 0 > c - 1 THEN 0 ELSE c - 1 - 0 + 1
    BY <1>1, FS_Interval
  <2> HIDE DEF c
  <2> QED
    BY <1>1, <2>1
<1>6. ranked \in Injection(s, I)
  BY <1>2, <1>4 DEF Injection, IsInjective
<1>7. ranked \in Surjection(s, I)
  <2> HIDE DEF ranked, I, c
  <2> QED
    BY <1>5, <1>6, FS_Injection DEF c
<1>8. \A j \in 1 .. c : \E p \in s : below(s, p) = j - 1
  <2> TAKE j \in 1 .. c
  <2>1. j - 1 \in I
    BY <1>1
  <2> QED
    BY <1>7, <2>1 DEF Surjection
<1>9. \A j \in 1 .. c : u[j] = CHOOSE p \in s : below(s, p) = j - 1
  BY DEF upward, below
<1>10. \A j \in 1 .. c : u[j] \in s /\ below(s, u[j]) = j - 1
  BY <1>8, <1>9
<1>11. DOMAIN u = 1 .. c
  BY DEF upward
<1>12. \A i, j \in 1 .. c : u[i] = u[j] => i = j
  <2> SUFFICES ASSUME NEW i \in 1 .. c, NEW j \in 1 .. c, u[i] = u[j]
               PROVE  i = j
    OBVIOUS
  <2>1. i - 1 = j - 1
    BY <1>10
  <2> QED
    BY <1>1, <2>1
<1>13. ASSUME NEW p \in s
       PROVE  \E j \in 1 .. c : u[j] = p
  <2>1. below(s, p) \in I /\ below(s, p) + 1 \in 1 .. c
    BY <1>1, <1>2
  <2> DEFINE j == below(s, p) + 1
  <2>2. j - 1 = below(s, p)
    BY <2>1
  <2>3. u[j] \in s /\ below(s, u[j]) = below(s, p)
    BY <1>10, <2>1, <2>2
  <2> QED
    BY <1>4, <2>1, <2>3
<1> HIDE DEF u, c
<1> QED
  BY <1>1, <1>10, <1>11, <1>12, <1>13, Zenon DEF u, c

\* A storage of a width with any positions below it.
holding(size, H) == [i \in 0 .. blocks_for(size) - 1 |-> {o \in Offset : At(i, o) \in H}]

\* It is one a container of that width may have, and holds those and no other.
LEMMA Stored ==
    ASSUME NEW size \in Nat, NEW H \in SUBSET (0 .. size - 1)
    PROVE  Scanned(holding(size, H), size) /\ Positions(holding(size, H)) = H
<1> DEFINE k == blocks_for(size)
           b == holding(size, H)
           w == bits_per_block
<1>1. k \in Nat /\ k * w \in Nat /\ size <= k * w
  BY BlocksForBounds, WholeWidth
<1>2. H \in SUBSET Span(k)
  <2> HIDE DEF k
  <2>1. \A p \in 0 .. size - 1 : p \in 0 .. (k * w) - 1
    BY <1>1
  <2> QED
    BY <2>1 DEF Span
<1>3. b \in Storage(k)
  BY DEF holding, Storage, Block
<1>4. \A i \in 0 .. k - 1, o \in Offset : o \in b[i] <=> At(i, o) \in H
  BY DEF holding
<1> HIDE DEF b, k
<1>5. Positions(b) = H
  BY <1>1, <1>2, <1>3, <1>4, PositionsAre
<1>6. TailClear(b, size)
  <2>1. \A p \in H : p \in 0 .. size - 1
    OBVIOUS
  <2>2. \A p \in 0 .. size - 1 : p < size
    OBVIOUS
  <2>3. \A p \in Positions(b) : p < size
    BY <1>5, <2>1, <2>2
  <2> QED
    BY <1>1, <1>3, <2>3, ClearPositions
<1> QED
  BY <1>3, <1>5, <1>6 DEF Scanned, b, k

\* Storages of a width are their positions.
LEMMA ScannedAlike ==
    ASSUME NEW size, NEW b, Scanned(b, size), NEW c, Scanned(c, size),
           \A p \in 0 .. size - 1 : p \in Positions(b) <=> p \in Positions(c)
    PROVE  b = c
<1>1. size \in Nat /\ blocks_for(size) \in Nat
  BY ScannedPositions
<1>2. \A p \in Positions(b) \cup Positions(c) : p \in 0 .. size - 1
  <2>1. \A p \in Positions(b) \cup Positions(c) : p \in Nat /\ p < size
    BY ScannedPositions
  <2> QED
    BY <1>1, <2>1
<1>3. Positions(b) = Positions(c)
  BY <1>2
<1> QED
  BY <1>1, <1>3, SamePositions DEF Scanned

\* Every distance is of a step, which starts in the window.
LEMMA StepOf ==
    ASSUME NEW n \in Nat
    PROVE  /\ steps(n) \in SUBSET Nat /\ IsFiniteSet(steps(n))
           /\ \A k \in steps(n) : k \in Nat /\ k < n
           /\ \A i \in 0 .. n - 1 : \E k \in steps(n) : k <= i /\ i < k + bits_per_block
<1>1. steps(n) \in SUBSET (0 .. n - 1)
  BY DEF steps
<1>2. IsFiniteSet(0 .. n - 1)
  BY FS_Interval
<1>3. IsFiniteSet(steps(n))
  BY <1>1, <1>2, FS_Subset
<1>4. \A k \in steps(n) : k \in Nat /\ k < n
  BY <1>1
<1>5. ASSUME NEW i \in 0 .. n - 1
      PROVE  \E k \in steps(n) : k <= i /\ i < k + bits_per_block
  <2> DEFINE k == i - (i % bits_per_block)
  <2>1. k \in Nat /\ k <= i /\ i < k + bits_per_block /\ k % bits_per_block = 0
    BY RoundedDown, BitsPerBlockAssumption
  <2>2. k \in steps(n)
    <3> HIDE DEF k
    <3> QED
      BY <2>1 DEF steps
  <2> QED
    BY <2>1, <2>2
<1> QED
  BY <1>1, <1>3, <1>4, <1>5

\* A step writes its block over the positions of its window that it reaches.
LEMMA StepWritten ==
    ASSUME NEW b, NEW size, Scanned(b, size), NEW d \in Nat, NEW n \in Nat, d + n <= size,
           NEW k \in steps(n), NEW value \in Block
    PROVE  LET r == written_at(b, d + k, value, partial_block_mask(Min({bits_per_block, n - k})))
           IN  /\ Scanned(r, size)
               /\ \A p \in 0 .. size - 1 :
                     p \in Positions(r)
                         <=> IF d + k <= p /\ p < d + k + bits_per_block /\ p < d + n
                             THEN p - (d + k) \in value ELSE p \in Positions(b)
<1> DEFINE w == bits_per_block
           h == blocks_for(size)
           count == Min({w, n - k})
           mask == partial_block_mask(count)
           at == d + k
           r == written_at(b, at, value, mask)
<1>1. size \in Nat /\ h \in Nat /\ b \in Storage(h) /\ w \in Nat \ {0}
  BY ScannedPositions, BitsPerBlockAssumption
<1>2. k \in Nat /\ k < n
  BY StepOf
<1>3. count \in {w, n - k} /\ count <= w /\ count <= n - k
  BY <1>1, <1>2, LesserOf
<1>4. h * w \in Nat /\ size <= h * w
  BY <1>1, BlocksForBounds, WholeWidth
<1>5. mask \in Block /\ \A o \in Offset : o \in mask <=> o < w /\ o < n - k
  <2>1. \A o \in mask : o \in Offset /\ o < count
    BY DEF partial_block_mask
  <2>2. \A o \in Offset : o \in mask <=> o < count
    BY DEF partial_block_mask
  <2>3. \A o \in Offset : o \in Nat
    BY <1>1 DEF Offset
  <2> HIDE DEF mask, count
  <2>4. \A o \in Offset : o < count <=> o < w /\ o < n - k
    BY <1>1, <1>2, <1>3, <2>3
  <2> QED
    BY <2>1, <2>2, <2>4 DEF Block
<1>6. \A o \in mask : o \in Offset /\ o \in Nat /\ o < w /\ at + o < d + n /\ at + o < size
  <2>1. \A o \in mask : o \in Offset /\ o < n - k
    BY <1>5 DEF Block
  <2>2. \A o \in Offset : o \in Nat /\ o < w
    BY <1>1 DEF Offset
  <2> HIDE DEF mask
  <2> QED
    BY <1>1, <1>2, <2>1, <2>2
<1>7. at \in Nat /\ at < size /\ at < h * w /\ \A o \in mask : at + o < h * w
  <2> HIDE DEF mask, h
  <2> QED
    BY <1>1, <1>2, <1>4, <1>6
<1> HIDE DEF mask, count, h
<1>8. r \in Storage(h)
  BY <1>1, <1>5, WrittenAtType
<1>9. Positions(r) = (Positions(b) \ {at + o : o \in mask}) \cup {at + o : o \in value \cap mask}
  BY <1>1, <1>5, <1>7, WrittenAtPositions
<1> HIDE DEF r
<1>10. \A p \in Positions(b) : p \in Nat /\ p < size
  BY ScannedPositions
<1>11. TailClear(r, size)
  <2>1. \A p \in Positions(r) : p < size
    BY <1>6, <1>9, <1>10
  <2> QED
    BY <1>1, <1>8, <2>1, ClearPositions
<1>12. Scanned(r, size)
  BY <1>1, <1>8, <1>11 DEF Scanned, h
<1>13. ASSUME NEW p \in 0 .. size - 1
       PROVE  p \in Positions(r)
                  <=> IF at <= p /\ p < at + w /\ p < d + n THEN p - at \in value ELSE p \in Positions(b)
  <2>1. CASE at <= p /\ p < at + w /\ p < d + n
    <3>1. p - at \in Offset /\ p - at < w /\ p - at < n - k /\ at + (p - at) = p
      BY <1>1, <1>2, <2>1 DEF Offset
    <3>2. p - at \in mask
      BY <1>5, <3>1
    <3>3. p \in {at + o : o \in mask}
      BY <3>1, <3>2
    <3>4. \A o \in mask : at + o = p => o = p - at
      BY <1>2, <1>6, <1>7
    <3>5. p \in {at + o : o \in value \cap mask} <=> p - at \in value
      BY <3>1, <3>2, <3>4
    <3> HIDE DEF at
    <3> QED
      BY <1>9, <2>1, <3>3, <3>5
  <2>2. CASE ~(at <= p /\ p < at + w /\ p < d + n)
    <3>1. p \notin {at + o : o \in mask}
      <4>1. \A o \in mask : at <= at + o /\ at + o < at + w /\ at + o < d + n
        BY <1>1, <1>6, <1>7
      <4> HIDE DEF at
      <4> QED
        BY <2>2, <4>1
    <3>2. p \notin {at + o : o \in value \cap mask}
      BY <3>1
    <3> HIDE DEF at
    <3> QED
      BY <1>9, <2>2, <3>1, <3>2
  <2> QED
    BY <2>1, <2>2
<1> QED
  BY <1>12, <1>13 DEF r, mask, count

(***************************************************************************)
(* write_up, whose steps may be taken in any order.                        *)
(***************************************************************************)
step_up(d, n, block, k, b) == written_at(b, d + k, block[k], partial_block_mask(Min({bits_per_block, n - k})))

\* A function of the sets of steps taken that is the fold of write_up.
IsWritten(dst, d, n, block, f) ==
    f = [t \in SUBSET DOMAIN upward(steps(n)) |->
            IF t = {} THEN dst ELSE step_up(d, n, block, upward(steps(n))[Max(t)], f[t \ {Max(t)}])]

\* write_up is such a function of all the steps, where there is one.
LEMMA WriteUnfolds ==
    ASSUME NEW dst, NEW d, NEW n, NEW block, NEW g, IsWritten(dst, d, n, block, g)
    PROVE  \E h : IsWritten(dst, d, n, block, h) /\ write_up(dst, d, n, block) = h[DOMAIN upward(steps(n))]
<1> DEFINE chosen == CHOOSE h : IsWritten(dst, d, n, block, h)
<1>1. write_up(dst, d, n, block) = chosen[DOMAIN upward(steps(n))]
  BY DEF write_up, FoldLeft, MapThenFoldSet, IsWritten, step_up
<1>2. IsWritten(dst, d, n, block, chosen)
  BY Zenon
<1> HIDE DEF chosen
<1> QED
  BY <1>1, <1>2

\* The blocks of a window of n hold the distances of A.
BlocksOf(n, A, block) ==
    /\ \A k \in steps(n) : block[k] \in Block
    /\ \A k \in steps(n), o \in Offset : k + o < n => (o \in block[k] <=> k + o \in A)

\* What write_up leaves: in the window what its blocks hold, which are the
\* distances of A, and past it what was there.
LEMMA WrittenUp ==
    ASSUME NEW b, NEW size, Scanned(b, size), NEW d \in Nat, NEW n \in Nat, d + n <= size,
           NEW A, NEW block, BlocksOf(n, A, block)
    PROVE  LET r == write_up(b, d, n, block)
           IN  /\ Scanned(r, size)
               /\ \A p \in 0 .. size - 1 :
                     p \in Positions(r) <=> IF d <= p /\ p < d + n THEN p - d \in A ELSE p \in Positions(b)
<1> DEFINE u == upward(steps(n))
           c == Cardinality(steps(n))
           w == bits_per_block
           reached(t, i) == \E j \in t : u[j] <= i /\ i < u[j] + w
           now(t, p) == IF d <= p /\ p < d + n /\ reached(t, p - d) THEN p - d \in A ELSE p \in Positions(b)
           held(t) == {p \in 0 .. size - 1 : now(t, p)}
           g == [t \in SUBSET DOMAIN u |-> holding(size, held(t))]
<1>1. size \in Nat /\ w \in Nat \ {0}
  BY ScannedPositions, BitsPerBlockAssumption
<1>2. /\ c \in Nat /\ DOMAIN u = 1 .. c
      /\ \A j \in 1 .. c : u[j] \in steps(n)
      /\ \A k \in steps(n) : \E j \in 1 .. c : u[j] = k
  BY StepOf, Upward
<1>3. /\ \A k \in steps(n) : k \in Nat /\ k < n
      /\ \A i \in 0 .. n - 1 : \E k \in steps(n) : k <= i /\ i < k + w
  BY StepOf
<1> HIDE DEF u, c
<1>4. \A t : /\ Scanned(holding(size, held(t)), size) /\ Positions(holding(size, held(t))) = held(t)
  <2> TAKE t
  <2>1. held(t) \in SUBSET (0 .. size - 1)
    OBVIOUS
  <2> HIDE DEF held
  <2> QED
    BY <1>1, <2>1, Stored
<1>5. holding(size, held({})) = b
  <2>1. \A p \in 0 .. size - 1 : p \in Positions(holding(size, held({}))) <=> p \in Positions(b)
    <3>1. \A p \in 0 .. size - 1 : p \in held({}) <=> p \in Positions(b)
      OBVIOUS
    <3> HIDE DEF held
    <3> QED
      BY <1>4, <3>1
  <2> HIDE DEF held
  <2> QED
    BY <1>4, <2>1, ScannedAlike
<1>6. ASSUME NEW t \in SUBSET (1 .. c), t # {}
      PROVE  /\ Max(t) \in t
             /\ holding(size, held(t)) = step_up(d, n, block, u[Max(t)], holding(size, held(t \ {Max(t)})))
  <2> DEFINE x == Max(t)
             k == u[x]
             e == holding(size, held(t \ {x}))
             r == step_up(d, n, block, k, e)
  <2>1. x \in t
    <3>1. t \in SUBSET (0 .. c)
      BY <1>2
    <3> QED
      BY <1>2, <1>6, <3>1, MaxExists
  <2>2. k \in steps(n) /\ k \in Nat /\ k < n /\ block[k] \in Block
    BY <1>2, <1>3, <2>1 DEF BlocksOf
  <2>3. Scanned(e, size) /\ Positions(e) = held(t \ {x})
    BY <1>4
  <2> HIDE DEF e, k
  <2>4. /\ Scanned(r, size)
        /\ \A p \in 0 .. size - 1 :
              p \in Positions(r) <=> IF d + k <= p /\ p < d + k + w /\ p < d + n
                                     THEN p - (d + k) \in block[k] ELSE p \in Positions(e)
    BY <2>2, <2>3, StepWritten DEF step_up
  <2> HIDE DEF r
  <2>5. ASSUME NEW p \in 0 .. size - 1
        PROVE  p \in Positions(r) <=> now(t, p)
    <3>0. \A j \in t : u[j] \in Nat
      BY <1>2, <1>3
    <3>1. CASE d + k <= p /\ p < d + k + w /\ p < d + n
      <4>1. p - (d + k) \in Offset /\ k + (p - (d + k)) = p - d /\ p - d < n
        BY <1>1, <2>2, <3>1 DEF Offset
      <4>2. p - (d + k) \in block[k] <=> p - d \in A
        BY <2>2, <4>1 DEF BlocksOf
      <4>3. d <= p /\ k <= p - d /\ p - d < k + w
        BY <1>1, <2>2, <3>1
      <4>4. reached(t, p - d)
        BY <2>1, <4>3 DEF k
      <4> QED
        BY <2>4, <3>1, <4>2, <4>3, <4>4
    <3>2. CASE ~(d + k <= p /\ p < d + k + w /\ p < d + n)
      <4>1. d <= p /\ p < d + n => ~(k <= p - d /\ p - d < k + w)
        BY <1>1, <2>2, <3>2
      <4>2. d <= p /\ p < d + n => (reached(t, p - d) <=> reached(t \ {x}, p - d))
        BY <4>1 DEF k
      <4>3. now(t, p) <=> now(t \ {x}, p)
        <5> HIDE DEF reached
        <5> QED
          BY <4>2
      <4>4. p \in Positions(e) <=> now(t \ {x}, p)
        <5> HIDE DEF now
        <5> QED
          BY <2>3
      <4> HIDE DEF now
      <4> QED
        BY <2>4, <3>2, <4>3, <4>4
    <3> QED
      BY <3>1, <3>2
  <2>6. r = holding(size, held(t))
    <3>1. \A p \in 0 .. size - 1 : p \in Positions(r) <=> p \in held(t)
      <4> HIDE DEF now
      <4> QED
        BY <2>5
    <3>2. Scanned(holding(size, held(t)), size) /\ Positions(holding(size, held(t))) = held(t)
      BY <1>4
    <3> HIDE DEF held
    <3> QED
      BY <2>4, <3>1, <3>2, ScannedAlike
  <2> QED
    BY <2>1, <2>6 DEF r, e, k
<1>7. IsWritten(b, d, n, block, g)
  <2>1. \A t \in SUBSET DOMAIN u :
           g[t] = IF t = {} THEN b ELSE step_up(d, n, block, u[Max(t)], g[t \ {Max(t)}])
    <3> TAKE t \in SUBSET DOMAIN u
    <3>1. CASE t = {}
      <4> HIDE DEF held
      <4> QED
        BY <1>5, <3>1
    <3>2. CASE t # {}
      <4> HIDE DEF held
      <4>1. g[t] = holding(size, held(t)) /\ t \ {Max(t)} \in SUBSET DOMAIN u
        OBVIOUS
      <4>2. g[t \ {Max(t)}] = holding(size, held(t \ {Max(t)}))
        BY <4>1
      <4> HIDE DEF g
      <4> QED
        BY <1>2, <1>6, <3>2, <4>1, <4>2
    <3> QED
      BY <3>1, <3>2
  <2>2. g = [t \in SUBSET DOMAIN u |-> g[t]]
    BY Zenon
  <2> HIDE DEF g
  <2> QED
    BY <2>1, <2>2 DEF IsWritten, u
<1>8. PICK h : IsWritten(b, d, n, block, h) /\ write_up(b, d, n, block) = h[DOMAIN u]
  BY <1>7, WriteUnfolds DEF u
<1>9. h[1 .. c] = g[1 .. c]
  <2>1. \A f : IsWritten(b, d, n, block, f) =>
           /\ f[{}] = b
           /\ \A t \in SUBSET (1 .. c) :
                 t # {} => f[t] = step_up(d, n, block, u[Max(t)], f[t \ {Max(t)}])
    BY <1>2 DEF IsWritten, u
  <2> HIDE DEF g
  <2>2. StepsAgree(c, h, g)
    BY <1>7, <1>8, <2>1 DEF StepsAgree
  <2>3. \A t \in SUBSET (1 .. c) : h[t] = g[t]
    BY <1>2, <2>2, FoldsAgree
  <2> QED
    BY <2>3
<1>10. g[1 .. c] = holding(size, held(1 .. c))
  <2> HIDE DEF held
  <2> QED
    BY <1>2
<1>11. \A p \in 0 .. size - 1 :
          p \in held(1 .. c) <=> IF d <= p /\ p < d + n THEN p - d \in A ELSE p \in Positions(b)
  <2> TAKE p \in 0 .. size - 1
  <2>1. d <= p /\ p < d + n => reached(1 .. c, p - d)
    <3> HAVE d <= p /\ p < d + n
    <3>1. p - d \in 0 .. n - 1
      BY <1>1
    <3>2. PICK k \in steps(n) : k <= p - d /\ p - d < k + w
      BY <1>3, <3>1
    <3>3. PICK j \in 1 .. c : u[j] = k
      BY <1>2
    <3> QED
      BY <3>2, <3>3
  <2> HIDE DEF reached
  <2> QED
    BY <2>1
<1> HIDE DEF held, g
<1> QED
  BY <1>2, <1>4, <1>8, <1>9, <1>10, <1>11

\* A bool of a container is whether its position is set.
LEMMA BoolRead ==
    ASSUME NEW c, NEW n, Scanned(c, n), NEW p \in 0 .. n - 1
    PROVE  BitAt(c, p) \in BOOLEAN /\ (BitAt(c, p) <=> p \in Positions(c))
<1>1. {q \in 0 .. n - 1 : BitAt(c, q)} = Positions(c)
  BY BitsBelowWidth
<1> QED
  BY <1>1 DEF BitAt

\* A block read anywhere below the width.
LEMMA ReadBlock ==
    ASSUME NEW c, NEW n, Scanned(c, n), NEW at \in Nat, at < n
    PROVE  /\ block_at(c, at) \in Block
           /\ \A o \in Offset : o \in block_at(c, at) <=> at + o \in Positions(c)
<1>1. block_at(c, at) \in Block
  BY BlockOperators DEF block_at, straddled_block
<1> QED
  BY <1>1, BlockRead

\* What write_up leaves, read a bool at a time.
LEMMA WrittenBits ==
    ASSUME NEW b, NEW size, Scanned(b, size), NEW d \in Nat, NEW n \in Nat, d + n <= size,
           NEW A, NEW block, BlocksOf(n, A, block)
    PROVE  LET r == write_up(b, d, n, block)
           IN  /\ Scanned(r, size)
               /\ \A p \in 0 .. size - 1 :
                     BitAt(r, p) = IF p \in d .. d + n - 1 THEN p - d \in A ELSE BitAt(b, p)
<1> DEFINE r == write_up(b, d, n, block)
<1>1. Scanned(r, size)
  BY WrittenUp
<1>2. \A p \in 0 .. size - 1 :
         p \in Positions(r) <=> IF d <= p /\ p < d + n THEN p - d \in A ELSE p \in Positions(b)
  BY WrittenUp
<1> HIDE DEF r
<1>3. \A p \in 0 .. size - 1 :
         /\ BitAt(r, p) \in BOOLEAN /\ (BitAt(r, p) <=> p \in Positions(r))
         /\ BitAt(b, p) \in BOOLEAN /\ (BitAt(b, p) <=> p \in Positions(b))
  BY <1>1, BoolRead
<1>4. size \in Nat
  BY ScannedPositions
<1>5. \A p \in 0 .. size - 1 : p \in d .. d + n - 1 <=> d <= p /\ p < d + n
  BY <1>4
<1>6. \A p \in 0 .. size - 1 :
         BitAt(r, p) <=> IF p \in d .. d + n - 1 THEN p - d \in A ELSE BitAt(b, p)
  BY <1>2, <1>3, <1>5
<1>7. \A p \in 0 .. size - 1 :
         BitAt(r, p) = IF p \in d .. d + n - 1 THEN p - d \in A ELSE BitAt(b, p)
  BY <1>3, <1>6
<1> QED
  BY <1>1, <1>7 DEF r

\* The blocks of a window of n hold the bools of New.
BoolsIn(n, New, block) ==
    /\ New \in [0 .. n - 1 -> BOOLEAN]
    /\ \A k \in steps(n) : block[k] \in Block
    /\ \A k \in steps(n), o \in Offset : k + o < n => (o \in block[k] <=> New[k + o])

\* What write_up leaves then.
LEMMA LaidUp ==
    ASSUME NEW b, NEW m, Scanned(b, m), NEW d \in Nat, NEW len \in Nat, d + len <= m,
           NEW New, NEW block, BoolsIn(len, New, block)
    PROVE  LET r == write_up(b, d, len, block)
           IN  /\ Scanned(r, m)
               /\ \A p \in 0 .. m - 1 :
                     BitAt(r, p) = IF p \in d .. d + len - 1 THEN New[p - d] ELSE BitAt(b, p)
<1> DEFINE A == {i \in 0 .. len - 1 : New[i]}
           r == write_up(b, d, len, block)
<1>1. m \in Nat
  BY ScannedPositions
<1>2. \A i \in 0 .. len - 1 : New[i] \in BOOLEAN /\ (i \in A <=> New[i])
  BY DEF BoolsIn
<1>5. BlocksOf(len, A, block)
  <2>1. \A k \in steps(len), o \in Offset : k + o < len => k + o \in 0 .. len - 1
    <3>1. \A k \in steps(len) : k \in Nat
      BY StepOf
    <3>2. \A o \in Offset : o \in Nat
      BY BitsPerBlockAssumption DEF Offset
    <3> QED
      BY <3>1, <3>2
  <2> HIDE DEF A
  <2> QED
    BY <1>2, <2>1 DEF BlocksOf, BoolsIn
<1> HIDE DEF A
<1>3. /\ Scanned(r, m)
      /\ \A p \in 0 .. m - 1 :
            BitAt(r, p) = IF p \in d .. d + len - 1 THEN p - d \in A ELSE BitAt(b, p)
  BY <1>5, WrittenBits
<1> HIDE DEF r
<1>4. \A p \in d .. d + len - 1 : (p - d \in A) = New[p - d]
  <2> TAKE p \in d .. d + len - 1
  <2>1. p - d \in 0 .. len - 1
    BY <1>1
  <2> QED
    BY <1>2, <2>1
<1> QED
  BY <1>3, <1>4 DEF r

\* A window of a container.
Window(b, m, d, len) == Scanned(b, m) /\ d \in Nat /\ len \in Nat /\ d + len <= m

\* A step's offsets, and the source's positions that they are copied from.
LEMMA StepFacts ==
    ASSUME NEW c, NEW n, NEW s, NEW len, Window(c, n, s, len), NEW k \in steps(len)
    PROVE  /\ k \in Nat /\ k < len /\ block_at(c, s + k) \in Block
           /\ \A o \in Offset : k + o < len =>
                 /\ o \in Nat /\ k + o \in 0 .. len - 1 /\ s + (k + o) \in 0 .. n - 1
                 /\ BitAt(c, s + (k + o)) \in BOOLEAN
                 /\ o \in block_at(c, s + k) <=> BitAt(c, s + (k + o))
<1>0. Scanned(c, n) /\ s \in Nat /\ len \in Nat /\ s + len <= n
  BY DEF Window
<1>1. n \in Nat /\ k \in Nat /\ k < len /\ s + k < n /\ s + k \in Nat
  <2>1. n \in Nat
    BY <1>0, ScannedPositions
  <2>2. k \in Nat /\ k < len
    BY <1>0, StepOf
  <2> QED
    BY <1>0, <2>1, <2>2
<1>2. /\ block_at(c, s + k) \in Block
      /\ \A o \in Offset : o \in block_at(c, s + k) <=> s + k + o \in Positions(c)
  BY <1>0, <1>1, ReadBlock
<1>3. ASSUME NEW o \in Offset, k + o < len
      PROVE  /\ o \in Nat /\ k + o \in 0 .. len - 1 /\ s + (k + o) \in 0 .. n - 1
             /\ BitAt(c, s + (k + o)) \in BOOLEAN
             /\ o \in block_at(c, s + k) <=> BitAt(c, s + (k + o))
  <2>1. o \in Nat
    BY BitsPerBlockAssumption DEF Offset
  <2>2. k + o \in 0 .. len - 1 /\ s + (k + o) \in 0 .. n - 1 /\ s + k + o = s + (k + o)
    BY <1>0, <1>1, <1>3, <2>1
  <2>3. /\ BitAt(c, s + (k + o)) \in BOOLEAN
        /\ BitAt(c, s + (k + o)) <=> s + (k + o) \in Positions(c)
    BY <1>0, <2>2, BoolRead
  <2>4. o \in block_at(c, s + k) <=> s + (k + o) \in Positions(c)
    BY <1>2, <2>2
  <2> QED
    BY <2>1, <2>2, <2>3, <2>4
<1> QED
  BY <1>1, <1>2, <1>3

\* The container r that b is once a window of it is copied from c.
CopyOf(r, b, m, d, c, s, len) ==
    /\ Scanned(r, m)
    /\ \A p \in 0 .. m - 1 :
          BitAt(r, p) = IF p \in d .. d + len - 1 THEN BitAt(c, s + (p - d)) ELSE BitAt(b, p)

\* bit_copy and bit_move leave in the window the bools copied.
LEMMA Copied ==
    ASSUME NEW b, NEW m, NEW c, NEW n, NEW d, NEW s, NEW len,
           Window(b, m, d, len), Window(c, n, s, len)
    PROVE  CopyOf(copy_bools(b, d, c, s, len), b, m, d, c, s, len)
<1> DEFINE New == [i \in 0 .. len - 1 |-> BitAt(c, s + i)]
           block == [k \in steps(len) |-> block_at(c, s + k)]
           r == copy_bools(b, d, c, s, len)
<1>0. Scanned(b, m) /\ d \in Nat /\ len \in Nat /\ d + len <= m
  BY DEF Window
<1>1. m \in Nat
  BY <1>0, ScannedPositions
<1>2. BoolsIn(len, New, block)
  <2>1. \A i \in 0 .. len - 1 : BitAt(c, s + i) \in BOOLEAN
    BY DEF BitAt
  <2>2. \A k \in steps(len) :
           /\ block_at(c, s + k) \in Block
           /\ \A o \in Offset : k + o < len =>
                 /\ k + o \in 0 .. len - 1
                 /\ o \in block_at(c, s + k) <=> BitAt(c, s + (k + o))
    BY StepFacts
  <2> QED
    BY <2>1, <2>2 DEF BoolsIn
<1>3. r = write_up(b, d, len, block)
  BY DEF copy_bools
<1> HIDE DEF r, block, New
<1>4. /\ Scanned(r, m)
      /\ \A p \in 0 .. m - 1 :
            BitAt(r, p) = IF p \in d .. d + len - 1 THEN New[p - d] ELSE BitAt(b, p)
  BY <1>0, <1>2, <1>3, LaidUp
<1>5. \A p \in d .. d + len - 1 : New[p - d] = BitAt(c, s + (p - d))
  <2> TAKE p \in d .. d + len - 1
  <2>1. p - d \in 0 .. len - 1
    BY <1>0, <1>1
  <2> QED
    BY <2>1 DEF New
<1> QED
  BY <1>4, <1>5 DEF r, CopyOf

\* bit_reverse_copy leaves the bools copied, the last of them first.
LEMMA ReverseCopied ==
    ASSUME NEW b, NEW m, Scanned(b, m), NEW c, NEW n, Scanned(c, n),
           NEW d \in Nat, NEW s \in Nat, NEW len \in Nat, d + len <= m, s + len <= n
    PROVE  Laid(b, m, reverse_copy_bools(b, d, c, s, len), d, len, LAMBDA k : BitAt(c, s + len - 1 - k))
<1> DEFINE w == bits_per_block
           New == [i \in 0 .. len - 1 |-> BitAt(c, s + len - 1 - i)]
           count(k) == Min({w, len - k})
           from(k) == s + len - k - count(k)
           turned(k) == shr(reversed(block_at(c, from(k))), w - count(k))
           block == [k \in steps(len) |-> turned(k)]
           r == reverse_copy_bools(b, d, c, s, len)
<1>1. m \in Nat /\ n \in Nat /\ w \in Nat \ {0}
  BY ScannedPositions, BitsPerBlockAssumption
<1>2. \A i \in 0 .. len - 1 : s + len - 1 - i \in 0 .. n - 1
  BY <1>1
<1>3. \A i \in 0 .. len - 1 : /\ BitAt(c, s + len - 1 - i) \in BOOLEAN
                              /\ BitAt(c, s + len - 1 - i) <=> s + len - 1 - i \in Positions(c)
  BY <1>2, BoolRead
<1>4. New \in [0 .. len - 1 -> BOOLEAN]
  BY <1>3
<1>5. ASSUME NEW k \in steps(len)
      PROVE  /\ turned(k) \in Block
             /\ \A o \in Offset : k + o < len => (o \in turned(k) <=> New[k + o])
  <2> DEFINE t == count(k)
             at == from(k)
             z == block_at(c, at)
  <2>1. k \in Nat /\ k < len
    BY StepOf
  <2>0. w \in Int /\ len - k \in Int
    BY <1>1, <2>1
  <2>2. t \in {w, len - k} /\ t <= w /\ t <= len - k
    BY <2>0, LesserOf
  <2> HIDE DEF count
  <2>3. t \in Nat /\ at \in Nat /\ at < n /\ at = s + len - k - t
    BY <1>1, <2>1, <2>2
  <2> HIDE DEF from
  <2>4. \A o \in Offset : o \in z <=> at + o \in Positions(c)
    BY <2>3, ReadBlock
  <2>5. turned(k) \in Block
    BY BlockOperators
  <2>6. ASSUME NEW o \in Offset, k + o < len
        PROVE  o \in turned(k) <=> New[k + o]
    <3> DEFINE back == t - 1 - o
               i == k + o
    <3>1. o \in Nat /\ o < w
      BY <1>1 DEF Offset
    <3>2. o < t
      BY <1>1, <2>1, <2>2, <2>6, <3>1
    <3>3. back \in Offset /\ o + (w - t) \in Offset /\ left_bit - (o + (w - t)) = back
      BY <1>1, <2>2, <2>3, <3>1, <3>2 DEF Offset, left_bit
    <3>4. o \in turned(k) <=> back \in z
      <4> HIDE DEF z, back
      <4>1. o + (w - t) \in reversed(z) <=> back \in z
        BY <3>3 DEF reversed
      <4> QED
        BY <4>1 DEF shr, z
    <3>5. i \in 0 .. len - 1 /\ at + back = s + len - 1 - i
      BY <1>1, <2>1, <2>3, <2>6, <3>1
    <3>6. New[i] <=> s + len - 1 - i \in Positions(c)
      <4> HIDE DEF i
      <4> QED
        BY <1>3, <3>5
    <3> HIDE DEF back, i, at, z
    <3>7. back \in z <=> s + len - 1 - i \in Positions(c)
      BY <2>4, <3>3, <3>5 DEF z
    <3> HIDE DEF turned
    <3>8. o \in turned(k) <=> New[i]
      BY <3>4, <3>6, <3>7
    <3> QED
      BY <3>8 DEF i
  <2> HIDE DEF turned, New
  <2> QED
    BY <2>5, <2>6
<1>6. r = write_up(b, d, len, block)
  BY DEF reverse_copy_bools
<1>7. BoolsIn(len, New, block)
  <2> HIDE DEF turned, New
  <2> QED
    BY <1>4, <1>5 DEF BoolsIn
<1> HIDE DEF r, block, New
<1>8. \A p \in 0 .. m - 1 :
         BitAt(r, p) = IF p \in d .. d + len - 1 THEN New[p - d] ELSE BitAt(b, p)
  BY <1>6, <1>7, LaidUp
<1>9. \A p \in d .. d + len - 1 : New[p - d] = BitAt(c, s + len - 1 - (p - d))
  <2> TAKE p \in d .. d + len - 1
  <2>1. p - d \in 0 .. len - 1
    BY <1>1
  <2> QED
    BY <2>1 DEF New
<1> QED
  BY <1>8, <1>9 DEF Laid, r

\* bit_rotate_copy leaves the bools copied, from the one turned to.
LEMMA RotateCopied ==
    ASSUME NEW b, NEW m, Scanned(b, m), NEW c, NEW n, Scanned(c, n),
           NEW d \in Nat, NEW s \in Nat, NEW len \in Nat, d + len <= m, s + len <= n,
           NEW turn \in 0 .. len
    PROVE  Laid(b, m, bit_rotate_copy(b, d, c, s, len, turn), d, len,
                LAMBDA k : BitAt(c, s + ((k + turn) % len)))
<1> DEFINE rest == len - turn
           from == s + turn
           to == d + rest
           one == copy_bools(b, d, c, from, rest)
           two == copy_bools(one, to, c, s, turn)
<1>1. m \in Nat /\ n \in Nat /\ turn \in Nat /\ rest \in Nat /\ from \in Nat /\ to \in Nat
  BY ScannedPositions
<1>2. d + rest <= m /\ from + rest <= n /\ to + turn <= m /\ s + turn <= n
  BY <1>1
<1>0. m \in Nat /\ n \in Nat /\ turn \in Nat /\ rest \in Nat
  BY <1>1
<1>3. d + len - turn = to
  BY <1>1
<1>4. bit_rotate_copy(b, d, c, s, len, turn) = two
  BY <1>3 DEF bit_rotate_copy
<1> HIDE DEF rest, from, to
<1>5. CopyOf(one, b, m, d, c, from, rest)
  <2>1. Window(b, m, d, rest) /\ Window(c, n, from, rest)
    BY <1>1, <1>2 DEF Window
  <2> QED
    BY <2>1, Copied
<1> HIDE DEF one
<1>6. CopyOf(two, one, m, to, c, s, turn)
  <2>1. Window(one, m, to, turn) /\ Window(c, n, s, turn)
    BY <1>1, <1>2, <1>5 DEF Window, CopyOf
  <2> QED
    BY <2>1, Copied
<1> HIDE DEF two
<1>7. ASSUME NEW p \in 0 .. m - 1
      PROVE  BitAt(two, p) = IF p \in d .. d + len - 1
                             THEN BitAt(c, s + ((p - d + turn) % len)) ELSE BitAt(b, p)
  <2>1. BitAt(two, p) = IF p \in d + rest .. d + rest + turn - 1
                        THEN BitAt(c, s + (p - (d + rest))) ELSE BitAt(one, p)
    BY <1>6 DEF to, CopyOf
  <2>2. BitAt(one, p) = IF p \in d .. d + rest - 1
                        THEN BitAt(c, s + turn + (p - d)) ELSE BitAt(b, p)
    BY <1>5 DEF from, CopyOf
  <2>3. CASE p \in d .. d + len - 1
    <3> DEFINE i == p - d
               v == (i + turn) % len
    <3>1. i \in 0 .. len - 1 /\ len \in Nat \ {0}
      BY <2>3
    <3>2. v = IF i + (turn % len) < len THEN i + (turn % len) ELSE i + (turn % len) - len
      BY <1>0, <3>1, RemainderOfSum
    <3>3. turn % len = IF turn = len THEN 0 ELSE turn
      BY <1>0, <3>1
    <3> HIDE DEF v
    <3>4. CASE i < rest
      <4>1. v = i + turn
        BY <1>0, <3>1, <3>2, <3>3, <3>4 DEF rest
      <4>2. s + v = s + turn + i /\ p \in d .. d + rest - 1 /\ p \notin d + rest .. d + rest + turn - 1
        BY <1>0, <2>3, <3>1, <3>4, <4>1
      <4> QED
        BY <2>1, <2>2, <2>3, <4>2 DEF v
    <3>5. CASE ~(i < rest)
      <4>1. v = i - rest
        BY <1>0, <3>1, <3>2, <3>3, <3>5 DEF rest
      <4>2. s + v = s + (p - (d + rest))
        BY <1>0, <3>1, <4>1
      <4>3. p \in d + rest .. d + rest + turn - 1
        BY <1>0, <3>1, <3>5 DEF rest
      <4> QED
        BY <2>1, <2>3, <4>2, <4>3 DEF v
    <3> QED
      BY <3>4, <3>5
  <2>4. CASE p \notin d .. d + len - 1
    <3>1. p \notin d + rest .. d + rest + turn - 1 /\ p \notin d .. d + rest - 1
      BY <1>0, <2>4 DEF rest
    <3> QED
      BY <2>1, <2>2, <2>4, <3>1
  <2> QED
    BY <2>3, <2>4
<1> QED
  BY <1>4, <1>7 DEF Laid

\* An operation on two bools answers one.
LEMMA Answered ==
    ASSUME NEW op \in BoolOps
    PROVE  \A u, v \in BOOLEAN : Answer(op, u, v) \in BOOLEAN
<1>1. CASE op = "and"
  BY <1>1 DEF Answer
<1>2. CASE op = "xor"
  BY <1>2 DEF Answer
<1>3. CASE op = "less"
  BY <1>3 DEF Answer
<1>4. CASE op = "second"
  BY <1>4 DEF Answer
<1> QED
  BY <1>1, <1>2, <1>3, <1>4 DEF BoolOps

\* A bit of a table is the answer of the function at the bits of its blocks.
LEMMA Tabled ==
    ASSUME NEW y, NEW z, NEW o \in Offset
    PROVE  /\ \A if_false, if_true \in BOOLEAN :
                 o \in unary_table(if_false, if_true, y) <=> IF o \in y THEN if_true ELSE if_false
           /\ \A op \in BoolOps :
                 o \in binary_table(Table(op), y, z)
                     <=> Answer(op, o \in y, o \in z)
<1>0. o \in ones /\ o \notin zero
  BY DEF ones, zero
<1>1. ASSUME NEW if_false \in BOOLEAN, NEW if_true \in BOOLEAN
      PROVE  o \in unary_table(if_false, if_true, y) <=> IF o \in y THEN if_true ELSE if_false
  <2>1. o \in constant(if_true) <=> if_true
    BY <1>0 DEF constant
  <2>2. o \in constant(if_false) <=> if_false
    BY <1>0 DEF constant
  <2>3. o \in complement(y) <=> o \notin y
    BY <1>0 DEF complement
  <2> QED
    BY <2>1, <2>2, <2>3 DEF unary_table
<1>2. ASSUME NEW op \in BoolOps
      PROVE  o \in binary_table(Table(op), y, z)
                 <=> Answer(op, o \in y, o \in z)
  <2> DEFINE f == Table(op)
             a == o \in y
             e == o \in z
             tt == f[TRUE, TRUE]
             tf == f[TRUE, FALSE]
             ft == f[FALSE, TRUE]
             ff == f[FALSE, FALSE]
  <2>0. \A u, v \in BOOLEAN : Answer(op, u, v) \in BOOLEAN
    BY Answered
  <2>1. /\ tt = Answer(op, TRUE, TRUE) /\ tf = Answer(op, TRUE, FALSE)
        /\ ft = Answer(op, FALSE, TRUE) /\ ff = Answer(op, FALSE, FALSE)
    BY Zenon DEF Table
  <2> HIDE DEF f
  <2>2. \A value : o \in constant(value) <=> value
    BY <1>0 DEF constant
  <2>3. (o \in complement(y) <=> ~a) /\ (o \in complement(z) <=> ~e)
    BY <1>0 DEF complement
  <2>4. o \in binary_table(f, y, z)
            <=> \/ a /\ e /\ Answer(op, TRUE, TRUE)
                \/ a /\ ~e /\ Answer(op, TRUE, FALSE)
                \/ ~a /\ e /\ Answer(op, FALSE, TRUE)
                \/ ~a /\ ~e /\ Answer(op, FALSE, FALSE)
    <3> DEFINE p == y \cap z \cap constant(tt)
               q == y \cap complement(z) \cap constant(tf)
               r == complement(y) \cap z \cap constant(ft)
               t == complement(y) \cap complement(z) \cap constant(ff)
    <3>1. binary_table(f, y, z) = UNION {p, q, r, t}
      BY Zenon DEF binary_table
    <3> HIDE DEF tt, tf, ft, ff
    <3>2. /\ o \in constant(tt) <=> Answer(op, TRUE, TRUE)
          /\ o \in constant(tf) <=> Answer(op, TRUE, FALSE)
          /\ o \in constant(ft) <=> Answer(op, FALSE, TRUE)
          /\ o \in constant(ff) <=> Answer(op, FALSE, FALSE)
      BY <2>0, <2>1, <2>2
    <3>3. /\ o \in p <=> a /\ e /\ Answer(op, TRUE, TRUE)
          /\ o \in q <=> a /\ ~e /\ Answer(op, TRUE, FALSE)
          /\ o \in r <=> ~a /\ e /\ Answer(op, FALSE, TRUE)
          /\ o \in t <=> ~a /\ ~e /\ Answer(op, FALSE, FALSE)
      BY <2>3, <3>2
    <3> HIDE DEF p, q, r, t, a, e
    <3> QED
      BY <3>1, <3>3
  <2>5. Answer(op, a, e)
            <=> \/ a /\ e /\ Answer(op, TRUE, TRUE)
                \/ a /\ ~e /\ Answer(op, TRUE, FALSE)
                \/ ~a /\ e /\ Answer(op, FALSE, TRUE)
                \/ ~a /\ ~e /\ Answer(op, FALSE, FALSE)
    <3>1. CASE op = "and"
      BY <3>1 DEF Answer
    <3>2. CASE op = "xor"
      BY <3>2 DEF Answer
    <3>3. CASE op = "less"
      BY <3>3 DEF Answer
    <3>4. CASE op = "second"
      BY <3>4 DEF Answer
    <3> QED
      BY <3>1, <3>2, <3>3, <3>4 DEF BoolOps
  <2> QED
    BY <2>4, <2>5 DEF f
<1> QED
  BY <1>1, <1>2

\* bit_transform leaves the function's answers of one sequence, or of two.
LEMMA Transformed ==
    ASSUME NEW b, NEW m, NEW c, NEW n, NEW d, NEW s, NEW len,
           Window(b, m, d, len), Window(c, n, s, len),
           NEW if_false \in BOOLEAN, NEW if_true \in BOOLEAN
    PROVE  Laid(b, m, bit_transform(b, d, c, s, len, if_false, if_true), d, len,
                LAMBDA k : IF BitAt(c, s + k) THEN if_true ELSE if_false)
<1> DEFINE of(i) == IF BitAt(c, s + i) THEN if_true ELSE if_false
           New == [i \in 0 .. len - 1 |-> of(i)]
           block == [k \in steps(len) |-> unary_table(if_false, if_true, block_at(c, s + k))]
           r == bit_transform(b, d, c, s, len, if_false, if_true)
<1>0. Scanned(b, m) /\ d \in Nat /\ len \in Nat /\ d + len <= m
  BY DEF Window
<1>1. m \in Nat
  BY <1>0, ScannedPositions
<1>2. BoolsIn(len, New, block)
  <2>1. New \in [0 .. len - 1 -> BOOLEAN]
    OBVIOUS
  <2>2. ASSUME NEW k \in steps(len)
        PROVE  block[k] \in Block
    BY BlockOperators DEF unary_table, constant
  <2>3. ASSUME NEW k \in steps(len), NEW o \in Offset, k + o < len
        PROVE  o \in block[k] <=> New[k + o]
    <3>1. /\ k + o \in 0 .. len - 1
          /\ o \in block_at(c, s + k) <=> BitAt(c, s + (k + o))
      BY <2>3, StepFacts
    <3>2. o \in block[k] <=> IF o \in block_at(c, s + k) THEN if_true ELSE if_false
      BY Tabled
    <3> QED
      BY <3>1, <3>2
  <2> HIDE DEF New, block
  <2> QED
    BY <2>1, <2>2, <2>3 DEF BoolsIn
<1>3. r = write_up(b, d, len, block)
  BY DEF bit_transform
<1> HIDE DEF r, block, New
<1>4. \A p \in 0 .. m - 1 :
         BitAt(r, p) = IF p \in d .. d + len - 1 THEN New[p - d] ELSE BitAt(b, p)
  BY <1>0, <1>2, <1>3, LaidUp
<1>5. \A p \in d .. d + len - 1 : New[p - d] = of(p - d)
  <2> TAKE p \in d .. d + len - 1
  <2>1. p - d \in 0 .. len - 1
    BY <1>0, <1>1
  <2> QED
    BY <2>1 DEF New
<1> QED
  BY <1>4, <1>5 DEF r, Laid

\* bit_transform_2 leaves what the operation answers of each two bools.
LEMMA Transformed2 ==
    ASSUME NEW b, NEW m, NEW c, NEW n, NEW d, NEW s, NEW len, NEW rest \in Nat,
           Window(b, m, d, rest), Window(c, n, s, len), NEW op \in BoolOps
    PROVE  Laid(b, m, bit_transform_2(b, d, b, d, rest, c, s, len, Table(op)), d, Min({rest, len}),
                LAMBDA k : Answer(op, BitAt(b, d + k), BitAt(c, s + k)))
<1> DEFINE l == Min({rest, len})
           of(i) == Answer(op, BitAt(b, d + i), BitAt(c, s + i))
           New == [i \in 0 .. l - 1 |-> of(i)]
           block == [k \in steps(l) |-> binary_table(Table(op), block_at(b, d + k), block_at(c, s + k))]
           r == bit_transform_2(b, d, b, d, rest, c, s, len, Table(op))
<1>0. /\ Scanned(b, m) /\ d \in Nat /\ d + rest <= m
      /\ Scanned(c, n) /\ s \in Nat /\ len \in Nat /\ s + len <= n
  BY DEF Window
<1>1. m \in Nat /\ n \in Nat /\ l \in Nat /\ l <= rest /\ l <= len
  <2>0. rest \in Int /\ len \in Int
    BY <1>0
  <2>1. l \in {rest, len} /\ l <= rest /\ l <= len
    BY <2>0, LesserOf
  <2> QED
    BY <1>0, <2>1, ScannedPositions
<1>3. r = write_up(b, d, l, block)
  BY DEF bit_transform_2
<1> HIDE DEF l
<1>6. Window(b, m, d, l) /\ Window(c, n, s, l) /\ d + l <= m
  BY <1>0, <1>1 DEF Window
<1>2. BoolsIn(l, New, block)
  <2>1. New \in [0 .. l - 1 -> BOOLEAN]
    <3>1. \A i : BitAt(b, d + i) \in BOOLEAN /\ BitAt(c, s + i) \in BOOLEAN
      BY DEF BitAt
    <3>2. \A i : of(i) \in BOOLEAN
      <4>1. \A u, v \in BOOLEAN : Answer(op, u, v) \in BOOLEAN
        BY Answered
      <4> QED
        BY <3>1, <4>1
    <3> HIDE DEF of
    <3> QED
      BY <3>2
  <2>2. ASSUME NEW k \in steps(l)
        PROVE  block[k] \in Block
    <3>1. \A z : zero \in Block /\ ones \in Block /\ constant(z) \in Block
      BY BlockOperators DEF constant
    <3>2. block_at(b, d + k) \in Block /\ block_at(c, s + k) \in Block
      BY <1>6, StepFacts
    <3>3. \A f, y, z : y \in Block => binary_table(f, y, z) \in Block
      BY DEF binary_table, Block, complement, ones
    <3> QED
      BY <3>2, <3>3
  <2>3. ASSUME NEW k \in steps(l), NEW o \in Offset, k + o < l
        PROVE  o \in block[k] <=> New[k + o]
    <3>1. /\ k + o \in 0 .. l - 1
          /\ BitAt(b, d + (k + o)) \in BOOLEAN
          /\ o \in block_at(b, d + k) <=> BitAt(b, d + (k + o))
      BY <1>6, <2>3, StepFacts
    <3>2. /\ BitAt(c, s + (k + o)) \in BOOLEAN
          /\ o \in block_at(c, s + k) <=> BitAt(c, s + (k + o))
      BY <1>6, <2>3, StepFacts
    <3>3. o \in block[k] <=> Answer(op, o \in block_at(b, d + k), o \in block_at(c, s + k))
      BY Tabled
    <3>4. /\ (o \in block_at(b, d + k)) = BitAt(b, d + (k + o))
          /\ (o \in block_at(c, s + k)) = BitAt(c, s + (k + o))
      BY <3>1, <3>2
    <3>5. New[k + o] = of(k + o)
      <4> HIDE DEF of
      <4> QED
        BY <3>1
    <3> HIDE DEF New, block
    <3> QED
      BY <3>3, <3>4, <3>5
  <2> HIDE DEF New, block
  <2> QED
    BY <2>1, <2>2, <2>3 DEF BoolsIn
<1> HIDE DEF r, block, New
<1>4. \A p \in 0 .. m - 1 :
         BitAt(r, p) = IF p \in d .. d + l - 1 THEN New[p - d] ELSE BitAt(b, p)
  BY <1>0, <1>1, <1>2, <1>3, <1>6, LaidUp
<1>5. \A p \in d .. d + l - 1 : New[p - d] = of(p - d)
  <2> TAKE p \in d .. d + l - 1
  <2>1. p - d \in 0 .. l - 1
    BY <1>0, <1>1
  <2> HIDE DEF of
  <2> QED
    BY <2>1 DEF New
<1> QED
  BY <1>4, <1>5 DEF r, l, Laid

(***************************************************************************)
(* swap_bools, whose steps read what no other step has written.            *)
(***************************************************************************)
\* A distance is of one step alone.
LEMMA StepUnique ==
    ASSUME NEW n \in Nat, NEW k \in steps(n), NEW l \in steps(n), NEW i \in Nat,
           k <= i, i < k + bits_per_block, l <= i, i < l + bits_per_block
    PROVE  k = l
<1> DEFINE w == bits_per_block
           a == index(k) * w
           e == index(l) * w
<1>1. /\ k \in Nat /\ l \in Nat /\ k % w = 0 /\ l % w = 0 /\ w \in Nat \ {0}
  BY StepOf, BitsPerBlockAssumption DEF steps
<1>2. /\ index(k) \in Nat /\ k = a + offset(k) /\ offset(k) = 0
      /\ index(l) \in Nat /\ l = e + offset(l) /\ offset(l) = 0
  BY <1>1, IndexOffset DEF offset
<1>3. a \in Nat /\ e \in Nat
  BY <1>1, <1>2
<1>4. k = a /\ l = e
  BY <1>2, <1>3
<1> DEFINE r == i - k
           t == i - l
<1>5. r \in Offset /\ t \in Offset /\ i = k + r /\ i = l + t
  BY <1>1 DEF Offset
<1>6. index(a + r) = index(k) /\ index(e + t) = index(l)
  BY <1>2, <1>5, IndexOffsetUnique
<1>7. index(k) = index(l)
  BY <1>4, <1>5, <1>6
<1> QED
  BY <1>4, <1>7

swap_step(i, j, n, k, both) ==
    LET mask   == partial_block_mask(Min({bits_per_block, n - k}))
        from_x == block_at(both[1], i + k)
    IN  <<written_at(both[1], i + k, block_at(both[2], j + k), mask),
          written_at(both[2], j + k, from_x, mask)>>

\* A function of the sets of steps taken that is the fold of swap_bools.
IsSwapped(x, i, y, j, n, f) ==
    f = [t \in SUBSET DOMAIN upward(steps(n)) |->
            IF t = {} THEN <<x, y>> ELSE swap_step(i, j, n, upward(steps(n))[Max(t)], f[t \ {Max(t)}])]

\* swap_bools is such a function of all the steps, where there is one.
LEMMA SwapUnfolds ==
    ASSUME NEW x, NEW i, NEW y, NEW j, NEW n, NEW g, IsSwapped(x, i, y, j, n, g)
    PROVE  \E h : IsSwapped(x, i, y, j, n, h) /\ swap_bools(x, i, y, j, n) = h[DOMAIN upward(steps(n))]
<1> DEFINE chosen == CHOOSE h : IsSwapped(x, i, y, j, n, h)
<1>1. swap_bools(x, i, y, j, n) = chosen[DOMAIN upward(steps(n))]
  BY DEF swap_bools, FoldLeft, MapThenFoldSet, IsSwapped, swap_step
<1>2. IsSwapped(x, i, y, j, n, chosen)
  BY Zenon
<1> HIDE DEF chosen
<1> QED
  BY <1>1, <1>2

\* A container r that b is once it has taken, at the positions of step k of the
\* n from d, what c has at those of the n from s.
Took(r, b, m, d, c, s, n, k) ==
    /\ Scanned(r, m)
    /\ \A p \in 0 .. m - 1 :
          p \in Positions(r)
              <=> IF d + k <= p /\ p < d + k + bits_per_block /\ p < d + n
                  THEN s + (p - d) \in Positions(c) ELSE p \in Positions(b)

\* Which is what a step of the copy leaves.
LEMMA StepTook ==
    ASSUME NEW b, NEW m, NEW c, NEW h, NEW d, NEW s, NEW n,
           Window(b, m, d, n), Window(c, h, s, n), NEW k \in steps(n)
    PROVE  Took(written_at(b, d + k, block_at(c, s + k), partial_block_mask(Min({bits_per_block, n - k}))),
                b, m, d, c, s, n, k)
<1> DEFINE value == block_at(c, s + k)
           r == written_at(b, d + k, value, partial_block_mask(Min({bits_per_block, n - k})))
<1>1. /\ Scanned(b, m) /\ d \in Nat /\ n \in Nat /\ d + n <= m
      /\ Scanned(c, h) /\ s \in Nat /\ s + n <= h
  BY DEF Window
<1>2. m \in Nat /\ h \in Nat /\ k \in Nat /\ k < n /\ bits_per_block \in Nat
  BY <1>1, ScannedPositions, StepOf, BitsPerBlockAssumption
<1>3. s + k \in Nat /\ s + k < h
  BY <1>1, <1>2
<1>4. value \in Block /\ \A o \in Offset : o \in value <=> s + k + o \in Positions(c)
  BY <1>1, <1>3, ReadBlock
<1> HIDE DEF value
<1>5. /\ Scanned(r, m)
      /\ \A p \in 0 .. m - 1 :
            p \in Positions(r)
                <=> IF d + k <= p /\ p < d + k + bits_per_block /\ p < d + n
                    THEN p - (d + k) \in value ELSE p \in Positions(b)
  BY <1>1, <1>4, StepWritten
<1> HIDE DEF r
<1>6. ASSUME NEW p \in 0 .. m - 1, d + k <= p, p < d + k + bits_per_block
      PROVE  p - (d + k) \in value <=> s + (p - d) \in Positions(c)
  <2>1. p - (d + k) \in Offset /\ s + k + (p - (d + k)) = s + (p - d)
    BY <1>1, <1>2, <1>6 DEF Offset
  <2> QED
    BY <1>4, <2>1
<1> QED
  BY <1>5, <1>6 DEF Took, r, value

\* The positions of b once the steps of T have taken theirs from c.
Within(T, i) == \E k \in T : k <= i /\ i < k + bits_per_block

Mixed(b, m, d, c, s, n, T) ==
    {p \in 0 .. m - 1 : IF d <= p /\ p < d + n /\ Within(T, p - d)
                        THEN s + (p - d) \in Positions(c) ELSE p \in Positions(b)}

\* A storage of those positions, and the two of a swap.
mixed(b, m, d, c, s, n, T) == holding(m, Mixed(b, m, d, c, s, n, T))

traded(b, m, d, c, h, s, n, T) == <<mixed(b, m, d, c, s, n, T), mixed(c, h, s, b, d, n, T)>>

\* The storage is one of the width, and holds those positions.
LEMMA MixedHeld ==
    ASSUME NEW b, NEW m \in Nat, NEW d, NEW c, NEW s, NEW n, NEW T
    PROVE  /\ Scanned(mixed(b, m, d, c, s, n, T), m)
           /\ Positions(mixed(b, m, d, c, s, n, T)) = Mixed(b, m, d, c, s, n, T)
<1>1. Mixed(b, m, d, c, s, n, T) \in SUBSET (0 .. m - 1)
  BY DEF Mixed
<1> QED
  BY <1>1, Stored DEF mixed

\* Before a step is taken it is the container itself.
LEMMA NoneMixed ==
    ASSUME NEW b, NEW m, Scanned(b, m), NEW d, NEW c, NEW s, NEW n
    PROVE  mixed(b, m, d, c, s, n, {}) = b
<1>1. m \in Nat
  BY ScannedPositions
<1>2. \A p \in 0 .. m - 1 : p \in Mixed(b, m, d, c, s, n, {}) <=> p \in Positions(b)
  BY DEF Mixed, Within
<1> QED
  BY <1>1, <1>2, MixedHeld, ScannedAlike

\* What another step takes from c is still there.
LEMMA MixedMore ==
    ASSUME NEW b, NEW m, NEW d, NEW c, NEW h, NEW s, NEW n,
           Window(b, m, d, n), Window(c, h, s, n),
           NEW T \in SUBSET steps(n), NEW k \in steps(n) \ T,
           NEW r, Took(r, mixed(b, m, d, c, s, n, T), m, d, mixed(c, h, s, b, d, n, T), s, n, k)
    PROVE  r = mixed(b, m, d, c, s, n, T \cup {k})
<1> DEFINE w == bits_per_block
           U == T \cup {k}
           e == mixed(b, m, d, c, s, n, T)
           f == mixed(c, h, s, b, d, n, T)
           g == mixed(b, m, d, c, s, n, U)
<1>1. /\ Scanned(b, m) /\ d \in Nat /\ n \in Nat /\ d + n <= m
      /\ Scanned(c, h) /\ s \in Nat /\ s + n <= h
  BY DEF Window
<1>2. m \in Nat /\ h \in Nat /\ k \in Nat /\ k < n /\ w \in Nat
  BY <1>1, ScannedPositions, StepOf, BitsPerBlockAssumption
<1>3. Positions(e) = Mixed(b, m, d, c, s, n, T) /\ Positions(f) = Mixed(c, h, s, b, d, n, T)
  BY <1>2, MixedHeld
<1>4. Scanned(g, m) /\ Positions(g) = Mixed(b, m, d, c, s, n, U)
  BY <1>2, MixedHeld
<1> HIDE DEF e, f, g
<1>5. /\ Scanned(r, m)
      /\ \A p \in 0 .. m - 1 :
            p \in Positions(r) <=> IF d + k <= p /\ p < d + k + w /\ p < d + n
                                   THEN s + (p - d) \in Positions(f) ELSE p \in Positions(e)
  BY DEF Took, e, f
<1>6. ASSUME NEW p \in 0 .. m - 1
      PROVE  p \in Positions(r) <=> p \in Positions(g)
  <2> DEFINE i == p - d
  <2>1. p \in Positions(g) <=> IF d <= p /\ p < d + n /\ Within(U, i)
                               THEN s + i \in Positions(c) ELSE p \in Positions(b)
    BY <1>4 DEF Mixed
  <2>2. p \in Positions(e) <=> IF d <= p /\ p < d + n /\ Within(T, i)
                               THEN s + i \in Positions(c) ELSE p \in Positions(b)
    BY <1>3 DEF Mixed
  <2>3. CASE d + k <= p /\ p < d + k + w /\ p < d + n
    <3>1. i \in Nat /\ k <= i /\ i < k + w /\ d <= p /\ i < n
      BY <1>1, <1>2, <2>3
    <3>2. Within(U, i)
      BY <3>1 DEF Within
    <3>3. ~Within(T, i)
      <4> SUFFICES ASSUME NEW l \in T, l <= i, i < l + w PROVE FALSE
        BY DEF Within
      <4>1. l \in steps(n) /\ l # k
        OBVIOUS
      <4> HIDE DEF i
      <4> QED
        BY <1>1, <3>1, <4>1, StepUnique
    <3>4. s + i \in 0 .. h - 1 /\ (s + i) - s = i /\ s <= s + i /\ s + i < s + n
      BY <1>1, <1>2, <3>1
    <3>5. s + i \in Positions(f) <=> s + i \in Positions(c)
      <4> DEFINE q == s + i
      <4>1. q \in Positions(f) <=> IF s <= q /\ q < s + n /\ Within(T, q - s)
                                  THEN d + (q - s) \in Positions(b) ELSE q \in Positions(c)
        <5> HIDE DEF q
        <5> QED
          BY <1>3, <3>4 DEF Mixed, q
      <4>2. q - s = i
        BY <3>4
      <4> HIDE DEF q, i
      <4> QED
        BY <3>3, <3>4, <4>1, <4>2 DEF q
    <3> HIDE DEF i
    <3>6. p \in Positions(r) <=> s + i \in Positions(f)
      BY <1>5, <2>3 DEF i
    <3> QED
      BY <2>1, <2>3, <3>1, <3>2, <3>5, <3>6
  <2>4. CASE ~(d + k <= p /\ p < d + k + w /\ p < d + n)
    <3>1. p \in Positions(r) <=> p \in Positions(e)
      BY <1>5, <2>4
    <3>2. d <= p /\ p < d + n => ~(k <= i /\ i < k + w)
      BY <1>1, <1>2, <2>4
    <3>3. d <= p /\ p < d + n => (Within(U, i) <=> Within(T, i))
      <4> HIDE DEF i
      <4> QED
        BY <3>2 DEF Within
    <3> HIDE DEF i, U
    <3> QED
      BY <2>1, <2>2, <3>1, <3>3
  <2> QED
    BY <2>3, <2>4
<1>7. r = g
  BY <1>4, <1>5, <1>6, ScannedAlike
<1> QED
  BY <1>7 DEF g

\* A step of the swap takes from both.
LEMMA BothMore ==
    ASSUME NEW b, NEW m, NEW d, NEW c, NEW h, NEW s, NEW n,
           Window(b, m, d, n), Window(c, h, s, n),
           NEW T \in SUBSET steps(n), NEW k \in steps(n) \ T
    PROVE  swap_step(d, s, n, k, traded(b, m, d, c, h, s, n, T)) = traded(b, m, d, c, h, s, n, T \cup {k})
<1> DEFINE e == mixed(b, m, d, c, s, n, T)
           f == mixed(c, h, s, b, d, n, T)
           mask == partial_block_mask(Min({bits_per_block, n - k}))
           q == written_at(e, d + k, block_at(f, s + k), mask)
           r == written_at(f, s + k, block_at(e, d + k), mask)
<1>1. swap_step(d, s, n, k, <<e, f>>) = <<q, r>>
  BY DEF swap_step
<1>2. m \in Nat /\ h \in Nat
  BY ScannedPositions DEF Window
<1>3. Window(e, m, d, n) /\ Window(f, h, s, n)
  <2>1. Scanned(e, m) /\ Scanned(f, h)
    BY <1>2, MixedHeld
  <2> HIDE DEF e, f
  <2> QED
    BY <2>1 DEF Window
<1> HIDE DEF e, f
<1>4. Took(q, e, m, d, f, s, n, k) /\ Took(r, f, h, s, e, d, n, k)
  BY <1>3, StepTook
<1> HIDE DEF q, r
<1>5. q = mixed(b, m, d, c, s, n, T \cup {k})
  BY <1>4, MixedMore DEF e, f
<1>6. r = mixed(c, h, s, b, d, n, T \cup {k})
  BY <1>4, MixedMore DEF e, f
<1> QED
  BY <1>1, <1>5, <1>6 DEF traded, e, f

\* Once every step is taken the window is the other's.
LEMMA AllMixed ==
    ASSUME NEW b, NEW m, NEW d, NEW c, NEW h, NEW s, NEW n,
           Window(b, m, d, n), Window(c, h, s, n)
    PROVE  CopyOf(mixed(b, m, d, c, s, n, steps(n)), b, m, d, c, s, n)
<1> DEFINE r == mixed(b, m, d, c, s, n, steps(n))
<1>1. /\ Scanned(b, m) /\ d \in Nat /\ n \in Nat /\ d + n <= m /\ m \in Nat
      /\ Scanned(c, h) /\ s \in Nat /\ s + n <= h /\ h \in Nat
  BY ScannedPositions DEF Window
<1>2. Scanned(r, m) /\ Positions(r) = Mixed(b, m, d, c, s, n, steps(n))
  BY <1>1, MixedHeld
<1> HIDE DEF r
<1>3. ASSUME NEW p \in 0 .. m - 1
      PROVE  BitAt(r, p) = IF p \in d .. d + n - 1 THEN BitAt(c, s + (p - d)) ELSE BitAt(b, p)
  <2>1. /\ BitAt(r, p) \in BOOLEAN /\ (BitAt(r, p) <=> p \in Positions(r))
        /\ BitAt(b, p) \in BOOLEAN /\ (BitAt(b, p) <=> p \in Positions(b))
    BY <1>1, <1>2, BoolRead
  <2>2. p \in Positions(r) <=> IF d <= p /\ p < d + n /\ Within(steps(n), p - d)
                               THEN s + (p - d) \in Positions(c) ELSE p \in Positions(b)
    BY <1>2 DEF Mixed
  <2>3. CASE p \in d .. d + n - 1
    <3>1. p - d \in 0 .. n - 1 /\ s + (p - d) \in 0 .. h - 1 /\ d <= p /\ p < d + n
      BY <1>1, <2>3
    <3>2. Within(steps(n), p - d)
      BY <1>1, <3>1, StepOf DEF Within
    <3>3. /\ BitAt(c, s + (p - d)) \in BOOLEAN
          /\ BitAt(c, s + (p - d)) <=> s + (p - d) \in Positions(c)
      BY <1>1, <3>1, BoolRead
    <3> QED
      BY <2>1, <2>2, <2>3, <3>1, <3>2, <3>3
  <2>4. CASE p \notin d .. d + n - 1
    <3>1. ~(d <= p /\ p < d + n)
      BY <1>1, <2>4
    <3> QED
      BY <2>1, <2>2, <2>4, <3>1
  <2> QED
    BY <2>3, <2>4
<1> QED
  BY <1>2, <1>3 DEF CopyOf, r

\* swap_bools leaves in each the other's window.
LEMMA Swapped ==
    ASSUME NEW b, NEW m, NEW d, NEW c, NEW h, NEW s, NEW n,
           Window(b, m, d, n), Window(c, h, s, n)
    PROVE  LET pair == swap_bools(b, d, c, s, n)
           IN  CopyOf(pair[1], b, m, d, c, s, n) /\ CopyOf(pair[2], c, h, s, b, d, n)
<1> DEFINE u == upward(steps(n))
           l == Cardinality(steps(n))
           of(t) == {u[j] : j \in t}
           now(t) == traded(b, m, d, c, h, s, n, of(t))
           g == [t \in SUBSET DOMAIN u |-> now(t)]
<1>1. /\ Scanned(b, m) /\ d \in Nat /\ n \in Nat /\ d + n <= m /\ m \in Nat
      /\ Scanned(c, h) /\ s \in Nat /\ s + n <= h /\ h \in Nat
  BY ScannedPositions DEF Window
<1>2. /\ l \in Nat /\ DOMAIN u = 1 .. l
      /\ \A j \in 1 .. l : u[j] \in steps(n)
      /\ \A i, j \in 1 .. l : u[i] = u[j] => i = j
      /\ \A k \in steps(n) : \E j \in 1 .. l : u[j] = k
  BY <1>1, StepOf, Upward
<1> HIDE DEF u, l
<1>3. now({}) = <<b, c>>
  <2>1. of({}) = {}
    OBVIOUS
  <2> HIDE DEF of
  <2> QED
    BY <1>1, <2>1, NoneMixed DEF traded
<1>4. ASSUME NEW t \in SUBSET (1 .. l), t # {}
      PROVE  now(t) = swap_step(d, s, n, u[Max(t)], now(t \ {Max(t)}))
  <2> DEFINE x == Max(t)
             T == of(t \ {x})
             k == u[x]
  <2>1. x \in t
    <3>1. t \in SUBSET (0 .. l)
      BY <1>2
    <3> QED
      BY <1>2, <1>4, <3>1, MaxExists
  <2> HIDE DEF x
  <2>2. T \in SUBSET steps(n)
    BY <1>2
  <2>3. k \in steps(n) \ T
    BY <1>2, <2>1
  <2>4. of(t) = T \cup {k}
    BY <2>1
  <2> HIDE DEF T, k, of
  <2>5. swap_step(d, s, n, k, traded(b, m, d, c, h, s, n, T)) = traded(b, m, d, c, h, s, n, T \cup {k})
    BY <2>2, <2>3, BothMore
  <2> QED
    BY <2>4, <2>5 DEF x, k, T
<1> HIDE DEF now
<1>5. IsSwapped(b, d, c, s, n, g)
  <2>1. \A t \in SUBSET DOMAIN u :
           g[t] = IF t = {} THEN <<b, c>> ELSE swap_step(d, s, n, u[Max(t)], g[t \ {Max(t)}])
    <3> TAKE t \in SUBSET DOMAIN u
    <3>1. g[t] = now(t) /\ t \ {Max(t)} \in SUBSET DOMAIN u
      OBVIOUS
    <3>2. g[t \ {Max(t)}] = now(t \ {Max(t)})
      BY <3>1
    <3> HIDE DEF g
    <3> QED
      BY <1>2, <1>3, <1>4, <3>1, <3>2
  <2>2. g = [t \in SUBSET DOMAIN u |-> g[t]]
    BY Zenon
  <2> HIDE DEF g
  <2> QED
    BY <2>1, <2>2 DEF IsSwapped, u
<1>6. PICK f : IsSwapped(b, d, c, s, n, f) /\ swap_bools(b, d, c, s, n) = f[DOMAIN u]
  BY <1>5, SwapUnfolds DEF u
<1>7. f[1 .. l] = g[1 .. l]
  <2>1. \A e : IsSwapped(b, d, c, s, n, e) =>
           /\ e[{}] = <<b, c>>
           /\ \A t \in SUBSET (1 .. l) :
                 t # {} => e[t] = swap_step(d, s, n, u[Max(t)], e[t \ {Max(t)}])
    BY <1>2 DEF IsSwapped, u
  <2> HIDE DEF g
  <2>2. StepsAgree(l, f, g)
    BY <1>5, <1>6, <2>1 DEF StepsAgree
  <2>3. \A t \in SUBSET (1 .. l) : f[t] = g[t]
    BY <1>2, <2>2, FoldsAgree
  <2> QED
    BY <2>3
<1>8. g[1 .. l] = now(1 .. l)
  BY <1>2
<1>9. of(1 .. l) = steps(n)
  BY <1>2
<1>10. swap_bools(b, d, c, s, n) = traded(b, m, d, c, h, s, n, steps(n))
  <2> HIDE DEF g, of
  <2> QED
    BY <1>2, <1>6, <1>7, <1>8, <1>9 DEF now
<1>11. /\ CopyOf(mixed(b, m, d, c, s, n, steps(n)), b, m, d, c, s, n)
       /\ CopyOf(mixed(c, h, s, b, d, n, steps(n)), c, h, s, b, d, n)
  BY AllMixed
<1> QED
  BY <1>10, <1>11 DEF traded

\* bit_includes and bit_intersects answer what the keys do.
LEMMA Included ==
    ASSUME NEW b, NEW m, Scanned(b, m), NEW c, NEW n, Scanned(c, n)
    PROVE  /\ bit_includes(b, c) <=> Positions(c) \subseteq Positions(b)
           /\ bit_intersects(b, c) <=> Positions(b) \cap Positions(c) # {}
<1> DEFINE k == blocks_for(m)
           l == blocks_for(n)
           s == Min({k, l})
<1>1. k \in Nat /\ l \in Nat /\ b \in Storage(k) /\ c \in Storage(l)
  BY ScannedPositions
<1>2. num_blocks(b) = k /\ num_blocks(c) = l
  BY <1>1, NumBlocks
<1> HIDE DEF k, l
<1>3. s \in {l, k} /\ s <= k /\ s <= l /\ s \in Nat
  <2>1. k \in Int /\ l \in Int
    BY <1>1
  <2>2. s \in {k, l} /\ s <= k /\ s <= l
    BY <2>1, LesserOf
  <2> QED
    BY <1>1, <2>2
<1>4. shared(b, c) = 0 .. s - 1
  BY <1>2 DEF shared
<1> HIDE DEF s
<1>5. \A i \in 0 .. s - 1 : i \in 0 .. k - 1 /\ i \in 0 .. l - 1 /\ b[i] \in Block /\ c[i] \in Block
  <2>1. \A i \in 0 .. s - 1 : i \in 0 .. k - 1 /\ i \in 0 .. l - 1
    BY <1>1, <1>3
  <2> QED
    BY <1>1, <2>1 DEF Storage
<1>6. \A i \in 0 .. s - 1 : c[i] \cap complement(b[i]) = zero <=> c[i] \subseteq b[i]
  BY <1>5 DEF Block, complement, ones, zero
<1>7. any_block_set(c, s, l) <=> any_block_set(c, k, l)
  <2>1. CASE s = k
    BY <2>1
  <2>2. CASE s # k
    <3>1. s = l /\ l < k
      BY <1>1, <1>3, <2>2
    <3>2. \A i \in Int : ~(l <= i /\ i <= l - 1) /\ ~(k <= i /\ i <= l - 1)
      BY <1>1, <3>1
    <3>3. l .. l - 1 = {} /\ k .. l - 1 = {}
      BY <1>1, <3>1
    <3> QED
      BY <3>1, <3>3 DEF any_block_set, set_blocks
  <2> QED
    BY <2>1, <2>2
<1>8. bit_includes(b, c) <=> Positions(c) \subseteq Positions(b)
  <2>1. Positions(c) \subseteq Positions(b)
            <=> (\A i \in 0 .. s - 1 : c[i] \subseteq b[i]) /\ ~any_block_set(c, s, l)
    BY <1>1, <1>3, BlocksCovered
  <2> QED
    BY <1>2, <1>4, <1>6, <1>7, <2>1 DEF bit_includes
<1>9. bit_intersects(b, c) <=> Positions(b) \cap Positions(c) # {}
  <2>1. ASSUME NEW i \in 0 .. s - 1, b[i] \cap c[i] # zero
        PROVE  Positions(b) \cap Positions(c) # {}
    <3>1. PICK o \in Offset : o \in b[i] /\ o \in c[i]
      BY <1>5, <2>1 DEF zero, Block
    <3>2. At(i, o) \in Positions(b) /\ At(i, o) \in Positions(c)
      BY <1>1, <1>5, <3>1, PositionIff
    <3> QED
      BY <3>2
  <2>2. ASSUME NEW p \in Positions(b), p \in Positions(c)
        PROVE  \E i \in 0 .. s - 1 : b[i] \cap c[i] # zero
    <3> DEFINE i == index(p)
               o == offset(p)
    <3>1. p \in Span(k) /\ p \in Span(l)
      BY <1>1, <2>2, PositionsBelow
    <3>2. i \in 0 .. k - 1 /\ i \in 0 .. l - 1 /\ o \in Offset /\ p = At(i, o)
      BY <1>1, <3>1, SplitPosition
    <3> HIDE DEF i, o
    <3>3. i \in 0 .. s - 1
      BY <1>1, <1>3, <3>2
    <3>4. o \in b[i] /\ o \in c[i]
      BY <1>1, <2>2, <3>2, PositionIff
    <3> QED
      BY <3>3, <3>4 DEF zero
  <2> QED
    BY <1>4, <2>1, <2>2 DEF bit_intersects
<1> QED
  BY <1>8, <1>9

\* What all the algorithms of two windows leave.
AllLaid(b, m, c, n, d, s, len) ==
    /\ CopiesLaid(b, m, c, n, d, s, len)
    /\ RotationsLaid(b, m, c, d, s, len)
    /\ AnswersLaid(b, m, c, d, s, len)

\* All of it holds of any two windows of one length.
LEMMA AllWritten ==
    ASSUME NEW b, NEW m, NEW c, NEW n, NEW d, NEW s, NEW len,
           Window(b, m, d, len), Window(c, n, s, len)
    PROVE  AllLaid(b, m, c, n, d, s, len)
<1>1. /\ Scanned(b, m) /\ Scanned(c, n) /\ d \in Nat /\ s \in Nat /\ len \in Nat
      /\ d + len <= m /\ s + len <= n
  BY DEF Window
<1>2. m - d \in Nat /\ Window(b, m, d, m - d)
  <2>1. m \in Nat
    BY <1>1, ScannedPositions
  <2>2. m - d \in Nat /\ d + (m - d) = m /\ m <= m
    BY <1>1, <2>1
  <2> QED
    BY <1>1, <2>2 DEF Window
<1>3. Laid(b, m, bit_copy(b, d, c, s, len), d, len, LAMBDA k : BitAt(c, s + k))
  <2>1. CopyOf(bit_copy(b, d, c, s, len), b, m, d, c, s, len)
    BY Copied DEF bit_copy
  <2> QED
    BY <2>1, Zenon DEF CopyOf, Laid
<1>4. Laid(b, m, bit_reverse_copy(b, d, c, s, len), d, len, LAMBDA k : BitAt(c, s + len - 1 - k))
  BY <1>1, ReverseCopied DEF bit_reverse_copy, Laid
<1>5. /\ Laid(b, m, swap_bools(b, d, c, s, len)[1], d, len, LAMBDA k : BitAt(c, s + k))
      /\ Laid(c, n, swap_bools(b, d, c, s, len)[2], s, len, LAMBDA k : BitAt(b, d + k))
  <2>1. /\ CopyOf(swap_bools(b, d, c, s, len)[1], b, m, d, c, s, len)
        /\ CopyOf(swap_bools(b, d, c, s, len)[2], c, n, s, b, d, len)
    BY Swapped
  <2>2. Laid(b, m, swap_bools(b, d, c, s, len)[1], d, len, LAMBDA k : BitAt(c, s + k))
    BY <2>1, Zenon DEF CopyOf, Laid
  <2>3. Laid(c, n, swap_bools(b, d, c, s, len)[2], s, len, LAMBDA k : BitAt(b, d + k))
    BY <2>1, Zenon DEF CopyOf, Laid
  <2> QED
    BY <2>2, <2>3 DEF Laid
<1>6. ASSUME NEW turn \in 0 .. len
      PROVE  Laid(b, m, bit_rotate_copy(b, d, c, s, len, turn), d, len,
                  LAMBDA k : BitAt(c, s + ((k + turn) % len)))
  BY <1>1, RotateCopied DEF Laid
<1>7. ASSUME NEW if_false \in BOOLEAN, NEW if_true \in BOOLEAN
      PROVE  Laid(b, m, bit_transform(b, d, c, s, len, if_false, if_true), d, len,
                  LAMBDA k : IF BitAt(c, s + k) THEN if_true ELSE if_false)
  BY Transformed DEF Laid
<1>8. ASSUME NEW op \in BoolOps
      PROVE  Laid(b, m, bit_transform_2(b, d, b, d, m - d, c, s, len, Table(op)),
                  d, Min({m - d, len}), LAMBDA k : Answer(op, BitAt(b, d + k), BitAt(c, s + k)))
  BY <1>2, Transformed2 DEF Laid
<1>9. CopiesLaid(b, m, c, n, d, s, len)
  BY <1>3, <1>4, <1>5, <1>7 DEF Laid, CopiesLaid
<1>10. RotationsLaid(b, m, c, d, s, len)
  BY <1>6 DEF Laid, RotationsLaid
<1>11. AnswersLaid(b, m, c, d, s, len)
  BY <1>8 DEF Laid, AnswersLaid
<1> QED
  BY <1>9, <1>10, <1>11 DEF AllLaid

\* The property for windows that start anywhere, however wide the two are, and
\* for every turn and every operation in each: what a run asks of a few.
EveryCopyExact ==
    \A x, y \in Obj : x # y =>
        LET b == m_blocks[x]  m == m_size[x]
            c == m_blocks[y]  n == m_size[y]
        IN  \A d, s, len \in Nat : d + len <= m /\ s + len <= n => AllLaid(b, m, c, n, d, s, len)

\* In every state the algorithms that write one container from another write
\* the window they are asked for and no other bool, at any two places in their
\* blocks, and the set algorithms answer what the keys do.
THEOREM CopiesAreExact == Spec => [](CopiesExact /\ EveryCopyExact)
<1>1. ASSUME NEW m \in Nat, NEW n \in Nat,
             NEW d \in 0 .. Min({m, 3}), NEW s \in 0 .. Min({n, 3}), NEW len \in 0 .. Min({m - d, n - s})
      PROVE  d \in Nat /\ s \in Nat /\ len \in Nat /\ d + len <= m /\ s + len <= n
  <2> DEFINE low == Min({m, 3})
             high == Min({n, 3})
             bound == Min({m - d, n - s})
  <2>1. low \in Int /\ high \in Int
    <3>1. low \in {m, 3} /\ high \in {n, 3}
      <4>1. 3 \in Int /\ m \in Int /\ n \in Int
        OBVIOUS
      <4> QED
        BY <4>1, LesserOf
    <3> QED
      BY <3>1
  <2> HIDE DEF low, high
  <2>2. d \in Int /\ s \in Int /\ 0 <= d /\ 0 <= s
    BY <2>1 DEF low, high
  <2>3. bound <= m - d /\ bound <= n - s /\ bound \in Int
    <3>1. m - d \in Int /\ n - s \in Int
      BY <2>2
    <3>2. bound \in {m - d, n - s} /\ bound <= m - d /\ bound <= n - s
      BY <3>1, LesserOf
    <3> QED
      BY <3>1, <3>2
  <2>4. len \in 0 .. bound
    OBVIOUS
  <2> HIDE DEF bound
  <2>5. len \in Int /\ 0 <= len /\ len <= bound
    BY <2>3, <2>4
  <2> QED
    BY <2>2, <2>3, <2>5
<1>2. ASSUME TypeOK, UnusedBitsClear, NEW x \in Obj, NEW y \in Obj
      PROVE  LET b == m_blocks[x]  m == m_size[x]
                 c == m_blocks[y]  n == m_size[y]
             IN  /\ \A d \in 0 .. Min({m, 3}), s \in 0 .. Min({n, 3}) :
                       \A len \in 0 .. Min({m - d, n - s}) : AllLaid(b, m, c, n, d, s, len)
                 /\ bit_includes(b, c) <=> Ones(y) \subseteq Ones(x)
                 /\ bit_intersects(b, c) <=> Ones(x) \cap Ones(y) # {}
  <2> DEFINE b == m_blocks[x]
             m == m_size[x]
             c == m_blocks[y]
             n == m_size[y]
  <2>1. /\ Scanned(b, m) /\ Scanned(c, n) /\ m \in Nat /\ n \in Nat
        /\ Ones(x) = Positions(b) /\ Ones(y) = Positions(c)
    BY <1>2, OnesHeld
  <2> HIDE DEF b, m, c, n
  <2>2. ASSUME NEW d \in 0 .. Min({m, 3}), NEW s \in 0 .. Min({n, 3}), NEW len \in 0 .. Min({m - d, n - s})
        PROVE  AllLaid(b, m, c, n, d, s, len)
    <3>1. d \in Nat /\ s \in Nat /\ len \in Nat /\ d + len <= m /\ s + len <= n
      BY <1>1, <2>1
    <3>2. Window(b, m, d, len) /\ Window(c, n, s, len)
      BY <2>1, <3>1 DEF Window
    <3> QED
      BY <3>2, AllWritten
  <2>3. /\ bit_includes(b, c) <=> Ones(y) \subseteq Ones(x)
        /\ bit_intersects(b, c) <=> Ones(x) \cap Ones(y) # {}
    BY <2>1, Included
  <2> QED
    BY <2>2, <2>3 DEF b, m, c, n
<1>3. TypeOK /\ UnusedBitsClear => CopiesExact
  <2> SUFFICES ASSUME TypeOK, UnusedBitsClear, NEW x \in Obj, NEW y \in Obj
               PROVE  LET b == m_blocks[x]  m == m_size[x]
                          c == m_blocks[y]  n == m_size[y]
                      IN  /\ \A d \in 0 .. Min({m, 3}), s \in 0 .. Min({n, 3}) :
                             \A len \in 0 .. Min({m - d, n - s}) :
                                /\ CopiesLaid(b, m, c, n, d, s, len)
                                /\ d + s < 2 => RotationsLaid(b, m, c, d, s, len)
                                /\ d < 2 => AnswersLaid(b, m, c, d, s, len)
                          /\ bit_includes(b, c) <=> Ones(y) \subseteq Ones(x)
                          /\ bit_intersects(b, c) <=> Ones(x) \cap Ones(y) # {}
    BY Zenon DEF CopiesExact
  <2> QED
    BY <1>2, Zenon DEF AllLaid
<1>4. TypeOK /\ UnusedBitsClear => EveryCopyExact
  <2> SUFFICES ASSUME TypeOK, UnusedBitsClear, NEW x \in Obj, NEW y \in Obj,
                      NEW d \in Nat, NEW s \in Nat, NEW len \in Nat,
                      d + len <= m_size[x], s + len <= m_size[y]
               PROVE  AllLaid(m_blocks[x], m_size[x], m_blocks[y], m_size[y], d, s, len)
    BY DEF EveryCopyExact
  <2>1. Scanned(m_blocks[x], m_size[x]) /\ Scanned(m_blocks[y], m_size[y])
    BY OnesHeld
  <2>2. Window(m_blocks[x], m_size[x], d, len) /\ Window(m_blocks[y], m_size[y], s, len)
    BY <2>1 DEF Window
  <2> QED
    BY <2>2, AllWritten
<1> QED
  BY <1>3, <1>4, TypeCorrect, UnusedBitsStayClear, PTL

=============================================================================
