------------------------ MODULE InPlaceLoopsProofs --------------------------
(***************************************************************************)
(* The in-place loops for every block width, storage and call.  Each loop  *)
(* leaves what the function of BlockStorage of its name leaves, because in *)
(* the middle of it the blocks are those of that function on one side of   *)
(* the index, and those the loop found on the other.                       *)
(***************************************************************************)
EXTENDS MCInPlaceLoops, BlockStorageProofs

Needed == blocks_for(size)

(***************************************************************************)
(* The inductive invariant: what is there, and, for each call, how far it  *)
(* has come.                                                               *)
(***************************************************************************)
TypeInv ==
    /\ size \in 0 .. Ceiling
    /\ call \in Calls(size)
    /\ m_blocks \in Storage(Needed)
    /\ before \in Storage(Needed)
    /\ start \in Storage(Needed)
    /\ TailClear(start, size)
    /\ i \in 0 .. SizeMod - 1
    /\ first \in Block

AtBegin == pc = "begin" /\ m_blocks = start /\ before = start

\* The blocks are low's below block j and high's from it on.
Split(j, low, high) ==
    \A l \in 0 .. Needed - 1 : m_blocks[l] = IF l < j THEN low[l] ELSE high[l]

Up == shifted_up(start, call.n)

UpStage ==
    \/ AtBegin
    \/ /\ pc = "shift_up" /\ up_shift # 0 /\ before = start
       /\ i \in n_blocks .. Needed - 1
       /\ Split(i + 1, start, Up)
    \/ pc = "fill_low" /\ \A j \in n_blocks .. Needed - 1 : m_blocks[j] = Up[j]
    \/ pc = "mask_tail" /\ m_blocks = Up
    \/ pc = "done" /\ m_blocks = erase_unused(Up, size)

Down == shifted_down(start, call.n)

DownStage ==
    \/ AtBegin
    \/ /\ pc = "shift_down" /\ up_shift # 0 /\ before = start
       /\ i \in 0 .. Needed - 1 - n_blocks
       /\ Split(i, Down, start)
    \/ pc = "fill_high" /\ \A j \in 0 .. Needed - 1 - n_blocks : m_blocks[j] = Down[j]
    \/ pc = "done" /\ m_blocks = Down

\* The blocks b, turned by r within them.
Turning(b, r) ==
    \/ pc = "begin_turn" /\ m_blocks = b
    \/ /\ pc = "turn" /\ before = b /\ first = b[0]
       /\ i \in 0 .. Needed - 1
       /\ Split(i, blocks_rotated_down(b, r), b)

\* The positions of b, those from lo to hi of the target read from the source.
Moved(b, lo, hi) ==
    {p \in Span(Needed) : IF target + lo <= p /\ p < target + hi
                          THEN p + (source - target) \in Positions(b)
                          ELSE p \in Positions(b)}

MovingUp ==
    /\ i < len + bits_per_block
    /\ Positions(m_blocks) = Moved(before, 0, IF i < len THEN i ELSE len)

MovingDown ==
    /\ i < chunks \/ i = SizeMod - 1
    /\ Positions(m_blocks) = Moved(before, IF i < chunks THEN (i + 1) * bits_per_block ELSE 0, len)

Blockwise == [j \in DOMAIN start |-> start[(j + n_blocks) % num_blocks(start)]]
Turned    == IF up_shift # 0 THEN blocks_rotated_down(Blockwise, up_shift) ELSE Blockwise
Closed    == IF has_unused_bits(start, size) THEN padding_closed(Turned, size, call.n) ELSE Turned

RotateStage ==
    \/ AtBegin
    \/ call.n # 0 /\ up_shift # 0 /\ Turning(Blockwise, up_shift)
    \/ call.n # 0 /\ pc = "begin_move" /\ has_unused_bits(start, size) /\ m_blocks = Turned
    \/ /\ call.n # 0 /\ pc = "move_up" /\ has_unused_bits(start, size)
       /\ before = Turned /\ MovingUp
    \/ call.n # 0 /\ pc = "mask_tail" /\ m_blocks = Closed
    \/ pc = "done" /\ m_blocks = rotated(start, size, call.n)

EndForEnd == [j \in DOMAIN start |-> reversed(start[last_block(start) - j])]

ReverseStage ==
    \/ AtBegin
    \/ has_unused_bits(start, size) /\ Turning(EndForEnd, num_bits(start) - size)
    \/ pc = "done" /\ m_blocks = end_for_end(start, size)

CopyStage ==
    \/ AtBegin
    \/ pc = "move_up" /\ call.op = "copy" /\ before = start /\ MovingUp
    \/ pc = "move_down" /\ call.op = "copy_backward" /\ before = start /\ MovingDown
    \/ pc = "done" /\ Positions(m_blocks) = Moved(start, 0, len)

Stage ==
    /\ call.op = "shift_up" => UpStage
    /\ call.op = "shift_down" => DownStage
    /\ call.op = "rotate" => RotateStage
    /\ call.op = "reverse" => ReverseStage
    /\ call.op \in {"copy", "copy_backward"} => CopyStage

LoopInv == TypeInv /\ Stage

(***************************************************************************)
(* What a call may be, and what its bounds are.                            *)
(***************************************************************************)
\* A shift and a rotation are by less than the width; a copy stays within it
\* and does not write over what it has still to read.
LEMMA CallFields ==
    ASSUME TypeInv
    PROVE  /\ size \in Nat /\ call.n \in 0 .. size /\ call.pos \in Nat /\ call.from \in Nat
           /\ call.op \in {"shift_up", "shift_down", "rotate", "reverse", "copy", "copy_backward"}
           /\ call.op \in {"shift_up", "shift_down", "rotate"} => call.n < size
           /\ call.op = "reverse" => call.n = 0
           /\ call.op \in {"copy", "copy_backward"} =>
                call.pos + call.n <= size /\ call.from + call.n <= size
           /\ call.op = "copy" => call.pos <= call.from \/ call.from + call.n <= call.pos
           /\ call.op = "copy_backward" => call.from <= call.pos \/ call.pos + call.n <= call.from
<1> DEFINE w == size
<1>1. w \in Nat /\ call \in ShiftCalls(w) \cup ReverseCalls(w) \cup CopyCalls(w)
  BY BitsPerBlockAssumption, MaxBlocksAssumption DEF TypeInv, Calls
<1> HIDE DEF w
<1>2. CASE call \in ShiftCalls(w)
  BY <1>1, <1>2 DEF ShiftCalls, w
<1>3. CASE call \in ReverseCalls(w)
  BY <1>1, <1>3 DEF ReverseCalls, w
<1>4. CASE call \in CopyCalls(w)
  BY <1>1, <1>4 DEF CopyCalls, w
<1> QED
  BY <1>1, <1>2, <1>3, <1>4

\* The storage has the blocks the width needs, and no index of it, and no
\* position of it or of one chunk past it, is at the top of a word.
LEMMA Bounds ==
    ASSUME TypeInv
    PROVE  /\ Needed \in 0 .. MaxBlocks
           /\ Needed * bits_per_block \in Nat
           /\ size <= Needed * bits_per_block
           /\ Needed * bits_per_block < size + bits_per_block
           /\ size # 0 => Needed # 0
           /\ SizeMod \in Nat /\ Needed < SizeMod
           /\ size + bits_per_block < SizeMod
<1>1. size \in Nat /\ size <= MaxBlocks * bits_per_block /\ MaxBlocks * bits_per_block \in Nat
  BY WholeWidth, MaxBlocksAssumption DEF TypeInv, Ceiling
<1>2. /\ Needed \in Nat /\ Needed * bits_per_block \in Nat
      /\ size <= Needed * bits_per_block /\ Needed * bits_per_block < size + bits_per_block
  BY <1>1, BlocksForBounds, WholeWidth DEF Needed
<1>3. Needed <= MaxBlocks
  BY <1>1, BlocksForMonotone, BlocksForWhole, MaxBlocksAssumption DEF Needed
<1>4. size # 0 => Needed # 0
  <2>1. Needed = 0 => Needed * bits_per_block = 0
    BY BitsPerBlockAssumption
  <2> QED
    BY <1>1, <1>2, <2>1
<1>5. MaxBlocks <= MaxBlocks * bits_per_block
  BY MaxBlocksAssumption, BitsPerBlockAssumption
<1>6. 2 * (MaxBlocks + 1) * bits_per_block =
          (MaxBlocks * bits_per_block) + (MaxBlocks * bits_per_block)
              + bits_per_block + bits_per_block
  BY MaxBlocksAssumption, BitsPerBlockAssumption
<1> DEFINE extent == MaxBlocks * bits_per_block
<1> HIDE DEF extent
<1>7. SizeMod \in Nat /\ Needed < SizeMod /\ size + bits_per_block < SizeMod
  BY <1>1, <1>2, <1>3, <1>5, <1>6, SizeModAssumption, MaxBlocksAssumption, BitsPerBlockAssumption
     DEF extent
<1> QED
  BY <1>1, <1>2, <1>3, <1>4, <1>7

\* What the storage's own functions of its shape are.
LEMMA Shape ==
    ASSUME TypeInv, NEW b \in Storage(Needed)
    PROVE  /\ DOMAIN b = 0 .. Needed - 1
           /\ num_blocks(b) = Needed /\ last_block(b) = Needed - 1
           /\ num_bits(b) = Needed * bits_per_block
BY Bounds, NumBlocks

\* Two storages with the same blocks are one.
LEMMA SameBlocks ==
    ASSUME NEW k \in Nat, NEW b \in Storage(k), NEW c \in Storage(k),
           \A j \in 0 .. k - 1 : b[j] = c[j]
    PROVE  b = c
BY DEF Storage

\* A distance below the width is of blocks there are, and of a part of one.
LEMMA ShiftBounds ==
    ASSUME TypeInv, call.op \in {"shift_up", "shift_down", "rotate"}
    PROVE  /\ Needed # 0 /\ n_blocks \in 0 .. Needed - 1
           /\ up_shift \in Offset
<1>1. call.n \in Span(Needed)
  BY CallFields, Bounds DEF Span
<1> QED
  BY <1>1, Bounds, SplitPosition DEF n_blocks, up_shift, index, offset

\* The top of a word is a word, and so is one less than a word not zero.
LEMMA Wraps ==
    ASSUME NEW x \in 0 .. SizeMod - 1
    PROVE  /\ minus(x, 1) \in 0 .. SizeMod - 1
           /\ minus(x, 1) = IF x = 0 THEN SizeMod - 1 ELSE x - 1
<1>1. SizeMod \in Nat \ {0}
  BY SizeModAssumption, MaxBlocksAssumption, BitsPerBlockAssumption
<1>2. CASE x = 0
  <2>1. x - 1 = (-1) * SizeMod + (SizeMod - 1)
    BY <1>1, <1>2
  <2>2. (-1) % SizeMod = SizeMod - 1
    BY <1>1, <2>1
  <2> QED
    BY <1>1, <1>2, <2>2 DEF minus
<1>3. CASE x # 0
  <2>1. (x - 1) % SizeMod = x - 1
    BY <1>1, <1>3
  <2> QED
    BY <1>1, <1>3, <2>1 DEF minus
<1> QED
  BY <1>2, <1>3

(***************************************************************************)
(* The steps there are, by where the code is, and what they keep.          *)
(***************************************************************************)
\* Only the actions of the label the code is at may run.
LEMMA NextByLabel ==
    ASSUME Next
    PROVE  /\ pc = "begin" => \/ begin_shift_up \/ begin_shift_down \/ begin_rotate
                              \/ begin_reverse \/ begin_move
           /\ pc = "shift_up" => shift_up_block \/ shift_up_lowest
           /\ pc = "fill_low" => fill_low
           /\ pc = "mask_tail" => mask_tail
           /\ pc = "shift_down" => shift_down_block \/ shift_down_highest
           /\ pc = "fill_high" => fill_high
           /\ pc = "begin_turn" => begin_turn
           /\ pc = "turn" => turn_block \/ turn_last
           /\ pc = "begin_move" => begin_move
           /\ pc = "move_up" => move_up_chunk \/ move_up_end
           /\ pc = "move_down" => move_down_chunk \/ move_down_end
           /\ pc # "done"
<1> DEFINE Labels ==
        {"begin", "shift_up", "fill_low", "mask_tail", "shift_down", "fill_high", "begin_turn",
         "turn", "begin_move", "move_up", "move_down"}
<1>1. /\ begin_shift_up \/ begin_shift_down \/ begin_rotate \/ begin_reverse => pc = "begin"
      /\ shift_up_block \/ shift_up_lowest => pc = "shift_up"
      /\ fill_low => pc = "fill_low"
      /\ mask_tail => pc = "mask_tail"
      /\ shift_down_block \/ shift_down_highest => pc = "shift_down"
      /\ fill_high => pc = "fill_high"
      /\ begin_turn => pc = "begin_turn"
      /\ turn_block \/ turn_last => pc = "turn"
      /\ begin_move => pc = "begin_move" \/ pc = "begin"
      /\ move_up_chunk \/ move_up_end => pc = "move_up"
      /\ move_down_chunk \/ move_down_end => pc = "move_down"
  BY Zenon DEF begin_shift_up, begin_shift_down, begin_rotate, begin_reverse, shift_up_block,
     shift_up_lowest, fill_low, mask_tail, shift_down_block, shift_down_highest, fill_high,
     begin_turn, turn_block, turn_last, begin_move, move_up_chunk, move_up_end,
     move_down_chunk, move_down_end
<1> QED
  BY <1>1 DEF Next

\* The blocks of one iteration, of whole blocks moved and of a chunk are blocks.
LEMMA WrittenType ==
    ASSUME TypeInv
    PROVE  /\ \A at : \A b \in Block : assign(at, b) => m_blocks' \in Storage(Needed)
           /\ \A j, l, r : straddled_block(m_blocks, j, l, r) \in Block
           /\ \A to, from, count : move(to, from, count) => m_blocks' \in Storage(Needed)
<1>1. m_blocks \in Storage(Needed) /\ Needed \in Nat
  BY Bounds DEF TypeInv
<1>2. ASSUME NEW at, NEW b \in Block, assign(at, b)
      PROVE  m_blocks' \in Storage(Needed)
  BY <1>1, <1>2 DEF assign, Storage
<1>3. ASSUME NEW j, NEW l, NEW r
      PROVE  straddled_block(m_blocks, j, l, r) \in Block
  BY BlockOperators DEF straddled_block
<1>4. ASSUME NEW to, NEW from, NEW count, move(to, from, count)
      PROVE  m_blocks' \in Storage(Needed)
  BY <1>1, <1>4, BlockOperators, WrittenAtType DEF move
<1> QED
  BY <1>2, <1>3, <1>4

\* What a step leaves is storage of the same width, an index that is a word, and
\* a first block.
LEMMA BlocksKept ==
    ASSUME TypeInv, Stage, Next
    PROVE  m_blocks' \in Storage(Needed)
<1>1. m_blocks \in Storage(Needed) /\ Needed \in Nat /\ DOMAIN m_blocks = 0 .. Needed - 1
      /\ num_blocks(m_blocks) = Needed /\ last = Needed - 1
  BY Bounds, Shape DEF TypeInv, last
<1>2. /\ zero \in Block
      /\ \A a, n : shl(a, n) \in Block /\ shr(a, n) \in Block /\ reversed(a) \in Block
      /\ \A a, n, b, l : shl(a, n) \cup shr(b, l) \in Block
  BY BlockOperators
<1>3. CASE begin_shift_up
  <2>1. n_blocks \in Nat
    BY <1>3, ShiftBounds DEF begin_shift_up
  <2>2. blocks_shifted_right(m_blocks, n_blocks) \in Storage(Needed)
    BY <1>1, <2>1 DEF blocks_shifted_right, Storage
  <2> QED
    BY <1>1, <1>3, <2>2 DEF begin_shift_up
<1>4. CASE shift_up_block \/ shift_down_block \/ turn_block
  BY <1>4, WrittenType, Zenon DEF shift_up_block, shift_down_block, turn_block
<1>5. CASE shift_up_lowest \/ shift_down_highest \/ turn_last
  BY <1>2, <1>5, WrittenType, Zenon DEF shift_up_lowest, shift_down_highest, turn_last
<1>6. CASE fill_low \/ fill_high
  BY <1>1, <1>2, <1>6 DEF fill_low, fill_high, Storage
<1>7. CASE mask_tail
  BY <1>1, <1>7, MaskedType DEF mask_tail
<1>8. CASE begin_shift_down
  <2>1. n_blocks \in Nat
    BY <1>8, ShiftBounds DEF begin_shift_down
  <2>2. blocks_shifted_left(m_blocks, n_blocks) \in Storage(Needed)
    BY <1>1, <2>1 DEF blocks_shifted_left, Storage
  <2> QED
    BY <1>1, <1>8, <2>2 DEF begin_shift_down
<1>9. CASE begin_rotate
  <2>1. Needed # 0 /\ n_blocks \in Nat
    BY <1>9, ShiftBounds DEF begin_rotate
  <2>2. \A j \in 0 .. Needed - 1 : (j + n_blocks) % Needed \in 0 .. Needed - 1
    BY <1>1, <2>1
  <2>3. [j \in DOMAIN m_blocks |-> m_blocks[(j + n_blocks) % num_blocks(m_blocks)]]
            \in Storage(Needed)
    BY <1>1, <2>2 DEF Storage
  <2> QED
    BY <1>1, <1>9, <2>3 DEF begin_rotate
<1>10. CASE begin_reverse
  BY <1>1, <1>2, <1>10 DEF begin_reverse, Storage
<1>11. CASE begin_turn \/ begin_move \/ move_up_end \/ move_down_end
  BY <1>1, <1>11 DEF begin_turn, begin_move, move_up_end, move_down_end
<1>12. CASE move_up_chunk \/ move_down_chunk
  BY <1>12, WrittenType DEF move_up_chunk, move_down_chunk
<1> QED
  BY <1>3, <1>4, <1>5, <1>6, <1>7, <1>8, <1>9, <1>10, <1>11, <1>12 DEF Next

\* An index that would go below zero wraps round to a word, and stays one.
LEMMA IndexKept ==
    ASSUME TypeInv, Stage, Next
    PROVE  i' \in 0 .. SizeMod - 1
<1>1. /\ m_blocks \in Storage(Needed) /\ Needed \in Nat /\ last = Needed - 1
      /\ i \in 0 .. SizeMod - 1 /\ SizeMod \in Nat \ {0} /\ Needed < SizeMod
  BY Bounds, Shape, SizeModAssumption DEF TypeInv, last
<1>2. CASE begin_shift_up
  BY <1>1, <1>2, ShiftBounds DEF begin_shift_up
<1>3. CASE shift_up_block \/ move_down_chunk
  BY <1>1, <1>3, Wraps DEF shift_up_block, move_down_chunk
<1>4. CASE shift_down_block \/ turn_block
  <2>1. n_blocks \in Nat
    BY CallFields, BitsPerBlockAssumption DEF n_blocks
  <2>2. i < last
    BY <1>1, <1>4, <2>1 DEF shift_down_block, turn_block
  <2> QED
    BY <1>1, <1>4, <2>2 DEF shift_down_block, turn_block
<1>5. CASE begin_shift_down \/ begin_turn
  BY <1>1, <1>5 DEF begin_shift_down, begin_turn
<1>6. CASE begin_move
  <2>1. chunks - 1 \in Int
    BY CallFields, BitsPerBlockAssumption DEF chunks, len
  <2>2. minus(chunks, 1) \in 0 .. SizeMod - 1
    BY <1>1, <2>1 DEF minus
  <2> QED
    BY <1>1, <1>6, <2>2 DEF begin_move
<1>7. CASE move_up_chunk
  BY <1>1, <1>7, CallFields, Bounds, BitsPerBlockAssumption DEF move_up_chunk, next_chunk, len
<1>8. CASE \/ shift_up_lowest \/ fill_low \/ mask_tail \/ shift_down_highest \/ fill_high
           \/ begin_rotate \/ begin_reverse \/ turn_last \/ move_up_end \/ move_down_end
  <2>1. i' = i
    BY <1>8 DEF shift_up_lowest, fill_low, mask_tail, shift_down_highest, fill_high,
                begin_rotate, begin_reverse, turn_last, move_up_end, move_down_end
  <2> QED
    BY <1>1, <2>1
<1> QED
  BY <1>2, <1>3, <1>4, <1>5, <1>6, <1>7, <1>8 DEF Next

\* A turn is of a storage that has a block to save.
LEMMA TurningBlocks ==
    ASSUME TypeInv, Stage, pc \in {"begin_turn", "turn"}
    PROVE  Needed # 0 /\ call.op \in {"rotate", "reverse"}
<1>1. call.op \in {"rotate", "reverse"}
  BY CallFields DEF Stage, UpStage, DownStage, CopyStage, AtBegin
<1>2. CASE call.op = "rotate"
  BY <1>2, ShiftBounds
<1>3. CASE call.op = "reverse"
  <2>1. has_unused_bits(start, size)
    BY <1>3 DEF Stage, ReverseStage, AtBegin
  <2>2. Needed * bits_per_block # size
    BY <2>1, Shape DEF has_unused_bits, TypeInv
  <2>3. Needed = 0 => size = 0 /\ Needed * bits_per_block = 0
    BY Bounds, CallFields, BitsPerBlockAssumption
  <2> QED
    BY <1>1, <2>2, <2>3
<1> QED
  BY <1>1, <1>2, <1>3

\* No step changes the call, and none spoils what is there.
LEMMA TypeKept ==
    ASSUME TypeInv, Stage, Next, UNCHANGED start
    PROVE  TypeInv' /\ call' = call
<1>1. call' = call
  BY Zenon DEF Next, begin_shift_up, begin_shift_down, begin_rotate, begin_reverse, shift_up_block,
     shift_up_lowest, fill_low, mask_tail, shift_down_block, shift_down_highest, fill_high,
     begin_turn, turn_block, turn_last, begin_move, move_up_chunk, move_up_end,
     move_down_chunk, move_down_end
<1>2. before' \in {before, m_blocks}
  BY DEF Next, begin_shift_up, begin_shift_down, begin_rotate, begin_reverse, shift_up_block,
     shift_up_lowest, fill_low, mask_tail, shift_down_block, shift_down_highest, fill_high,
     begin_turn, turn_block, turn_last, begin_move, move_up_chunk, move_up_end,
     move_down_chunk, move_down_end
<1>3. first' = first \/ (pc = "begin_turn" /\ first' = m_blocks[0])
  BY Zenon DEF Next, begin_shift_up, begin_shift_down, begin_rotate, begin_reverse, shift_up_block,
     shift_up_lowest, fill_low, mask_tail, shift_down_block, shift_down_highest, fill_high,
     begin_turn, turn_block, turn_last, begin_move, move_up_chunk, move_up_end,
     move_down_chunk, move_down_end
<1>4. pc = "begin_turn" => m_blocks[0] \in Block
  BY TurningBlocks, Bounds DEF TypeInv, Storage
<1>5. size' = size /\ Needed' = Needed
  BY <1>1 DEF size, Needed
<1> QED
  BY <1>1, <1>2, <1>3, <1>4, <1>5, BlocksKept, IndexKept DEF TypeInv

(***************************************************************************)
(* The shift up.                                                           *)
(***************************************************************************)
\* Above the blocks that go, each block is read from two below it, or from one.
LEMMA UpBlocks ==
    ASSUME TypeInv, call.op = "shift_up"
    PROVE  /\ Up \in Storage(Needed)
           /\ \A j \in 0 .. Needed - 1 :
                 Up[j] = IF j < n_blocks THEN zero
                         ELSE IF up_shift = 0 THEN start[j - n_blocks]
                         ELSE IF j = n_blocks THEN shl(start[0], up_shift)
                         ELSE straddled_block(start, j - n_blocks - 1,
                                              up_shift, bits_per_block - up_shift)
<1>1. start \in Storage(Needed) /\ Needed \in Nat /\ call.n \in Nat
  BY Bounds, CallFields DEF TypeInv
<1>2. Up \in Storage(Needed)
  BY <1>1, ShiftedType DEF Up
<1> QED
  BY <1>1, <1>2, Shape DEF Up, shifted_up, n_blocks, up_shift

\* Each step of a shift up leaves the blocks as far shifted as the index says.
LEMMA UpStep ==
    ASSUME TypeInv, Stage, call.op = "shift_up", Next, UNCHANGED start
    PROVE  UpStage'
<1>1. /\ m_blocks \in Storage(Needed) /\ start \in Storage(Needed) /\ Needed \in Nat
      /\ DOMAIN m_blocks = 0 .. Needed - 1 /\ last = Needed - 1 /\ Needed # 0
      /\ n_blocks \in 0 .. Needed - 1
  BY Bounds, Shape, ShiftBounds DEF TypeInv, last
<1>2. /\ n_blocks' = n_blocks /\ up_shift' = up_shift /\ Needed' = Needed /\ Up' = Up
      /\ size' = size /\ start' = start /\ call' = call
  BY TypeKept DEF n_blocks, up_shift, Needed, Up, size
<1>3. UpStage
  BY DEF Stage
<1>4. CASE AtBegin
  <2>1. begin_shift_up
    BY <1>4, NextByLabel
       DEF AtBegin, begin_shift_down, begin_rotate, begin_reverse, begin_move
  <2>2. CASE up_shift = 0
    <3>1. \A j \in n_blocks .. Needed - 1 : m_blocks'[j] = start[j - n_blocks]
      BY <1>1, <1>4, <2>1, <2>2 DEF AtBegin, begin_shift_up, blocks_shifted_right
    <3>2. \A j \in n_blocks .. Needed - 1 : m_blocks'[j] = Up[j]
      BY <1>1, <2>2, <3>1, UpBlocks
    <3> QED
      BY <1>2, <2>1, <2>2, <3>2 DEF begin_shift_up, goto, UpStage
  <2>3. CASE up_shift # 0
    <3>1. /\ pc' = "shift_up" /\ before' = start' /\ i' = Needed - 1 /\ m_blocks' = start
      BY <1>1, <1>2, <1>4, <2>1, <2>3 DEF AtBegin, begin_shift_up, goto
    <3>2. Split(i + 1, start, Up)'
      BY <1>1, <1>2, <3>1 DEF Split
    <3> QED
      BY <1>1, <1>2, <2>3, <3>1, <3>2 DEF UpStage
  <2> QED
    BY <2>2, <2>3
<1>5. CASE /\ pc = "shift_up" /\ up_shift # 0 /\ before = start
           /\ i \in n_blocks .. Needed - 1
           /\ Split(i + 1, start, Up)
  <2>1. lower_read = IF i = n_blocks THEN SizeMod - 1 ELSE i - n_blocks - 1
    <3>1. minus(i, n_blocks) = i - n_blocks /\ i - n_blocks \in 0 .. SizeMod - 1
      BY <1>1, <1>5, Bounds DEF minus
    <3> QED
      BY <1>1, <1>5, <3>1, Wraps DEF lower_read
  <2>2. shift_up_continues <=> i # n_blocks
    BY <1>1, <1>5, <2>1, Bounds DEF shift_up_continues
  <2>3. CASE shift_up_block
    <3>1. i # n_blocks /\ i \in 0 .. Needed - 1 /\ lower_read = i - n_blocks - 1
      BY <1>1, <1>5, <2>1, <2>2, <2>3 DEF shift_up_block
    <3>2. /\ m_blocks[lower_read] = start[lower_read]
          /\ m_blocks[lower_read + 1] = start[lower_read + 1]
      <4>1. lower_read \in 0 .. Needed - 1 /\ lower_read + 1 \in 0 .. Needed - 1
            /\ lower_read < i + 1 /\ lower_read + 1 < i + 1
        BY <1>1, <1>5, <3>1
      <4> QED
        BY <1>5, <4>1 DEF Split
    <3>3. straddled_block(m_blocks, lower_read, up_shift, bits_per_block - up_shift) = Up[i]
      <4>1. Up[i] = straddled_block(start, lower_read, up_shift, bits_per_block - up_shift)
        <5>1. ~(i < n_blocks) /\ i # n_blocks /\ up_shift # 0
          BY <1>1, <1>5, <3>1
        <5> QED
          BY <3>1, <5>1, UpBlocks
      <4> QED
        BY <3>2, <4>1 DEF straddled_block
    <3>4. /\ m_blocks' = [m_blocks EXCEPT ![i] = Up[i]] /\ i' = i - 1
          /\ pc' = "shift_up" /\ before' = start
      <4>1. i' = i - 1
        <5>1. i \in 0 .. SizeMod - 1 /\ i # 0
          BY <1>1, <1>5, <3>1 DEF TypeInv
        <5> QED
          BY <2>3, <5>1, Wraps DEF shift_up_block
      <4> QED
        BY <1>5, <2>3, <3>3, <4>1 DEF shift_up_block, assign
    <3>5. Split(i + 1, start, Up)'
      <4>1. \A l \in 0 .. Needed - 1 : m_blocks'[l] = IF l < i THEN start[l] ELSE Up[l]
        BY <1>1, <1>5, <3>1, <3>4 DEF Split
      <4> QED
        BY <1>1, <1>2, <3>1, <3>4, <4>1 DEF Split
    <3>6. i' \in n_blocks .. Needed - 1
      BY <1>1, <1>5, <3>1, <3>4
    <3> QED
      BY <1>2, <1>5, <3>4, <3>5, <3>6 DEF UpStage
  <2>4. CASE shift_up_lowest
    <3>1. i = n_blocks
      BY <2>2, <2>4 DEF shift_up_lowest
    <3>2. m_blocks[0] = start[0]
      BY <1>1, <1>5, <3>1 DEF Split
    <3>3. m_blocks' = [m_blocks EXCEPT ![n_blocks] = Up[n_blocks]] /\ pc' = "fill_low"
      <4>1. Up[n_blocks] = shl(m_blocks[0], up_shift)
        BY <1>1, <1>5, <3>2, UpBlocks
      <4> QED
        BY <2>4, <4>1 DEF shift_up_lowest, assign, goto
    <3>4. \A j \in n_blocks .. Needed - 1 : m_blocks'[j] = Up[j]
      BY <1>1, <1>5, <3>1, <3>3 DEF Split
    <3> QED
      BY <1>2, <3>3, <3>4 DEF UpStage
  <2> QED
    BY <1>5, <2>3, <2>4, NextByLabel
<1>6. CASE pc = "fill_low" /\ \A j \in n_blocks .. Needed - 1 : m_blocks[j] = Up[j]
  <2>1. fill_low
    BY <1>6, NextByLabel
  <2>2. \A j \in 0 .. Needed - 1 : m_blocks'[j] = Up[j]
    BY <1>1, <1>6, <2>1, UpBlocks DEF fill_low
  <2>3. m_blocks' = Up
    BY <1>1, <2>2, UpBlocks, BlocksKept, SameBlocks
  <2> QED
    BY <1>2, <2>1, <2>3 DEF fill_low, goto, UpStage
<1>7. CASE pc = "mask_tail" /\ m_blocks = Up
  <2>1. mask_tail
    BY <1>7, NextByLabel
  <2> QED
    BY <1>2, <1>7, <2>1 DEF mask_tail, goto, UpStage
<1>8. pc # "done"
  BY NextByLabel
<1> QED
  BY <1>3, <1>4, <1>5, <1>6, <1>7, <1>8 DEF UpStage

(***************************************************************************)
(* The shift down.                                                         *)
(***************************************************************************)
\* Below the blocks that come in, each block is read from two above it, or one.
LEMMA DownBlocks ==
    ASSUME TypeInv, call.op = "shift_down"
    PROVE  /\ Down \in Storage(Needed)
           /\ \A j \in 0 .. Needed - 1 :
                 Down[j] = IF Needed - 1 - n_blocks < j THEN zero
                           ELSE IF up_shift = 0 THEN start[j + n_blocks]
                           ELSE IF j = Needed - 1 - n_blocks THEN shr(start[Needed - 1], up_shift)
                           ELSE straddled_block(start, j + n_blocks,
                                                bits_per_block - up_shift, up_shift)
<1>1. start \in Storage(Needed) /\ Needed \in Nat /\ call.n \in Nat
  BY Bounds, CallFields DEF TypeInv
<1>2. Down \in Storage(Needed)
  BY <1>1, ShiftedType DEF Down
<1> QED
  BY <1>1, <1>2, Shape DEF Down, shifted_down, n_blocks, up_shift

\* Each step of a shift down leaves the blocks as far shifted as the index says.
LEMMA DownStep ==
    ASSUME TypeInv, Stage, call.op = "shift_down", Next, UNCHANGED start
    PROVE  DownStage'
<1>1. /\ m_blocks \in Storage(Needed) /\ start \in Storage(Needed) /\ Needed \in Nat
      /\ DOMAIN m_blocks = 0 .. Needed - 1 /\ last = Needed - 1 /\ Needed # 0
      /\ n_blocks \in 0 .. Needed - 1
  BY Bounds, Shape, ShiftBounds DEF TypeInv, last
<1>2. /\ n_blocks' = n_blocks /\ up_shift' = up_shift /\ Needed' = Needed /\ Down' = Down
      /\ size' = size /\ start' = start /\ call' = call
  BY TypeKept DEF n_blocks, up_shift, Needed, Down, size
<1>3. DownStage
  BY DEF Stage
<1>4. CASE AtBegin
  <2>1. begin_shift_down
    BY <1>4, NextByLabel
       DEF AtBegin, begin_shift_up, begin_rotate, begin_reverse, begin_move
  <2>2. CASE up_shift = 0
    <3>1. \A j \in 0 .. Needed - 1 - n_blocks : m_blocks'[j] = start[j + n_blocks]
      BY <1>1, <1>4, <2>1, <2>2 DEF AtBegin, begin_shift_down, blocks_shifted_left
    <3>2. \A j \in 0 .. Needed - 1 - n_blocks : m_blocks'[j] = Down[j]
      BY <1>1, <2>2, <3>1, DownBlocks
    <3> QED
      BY <1>2, <2>1, <2>2, <3>2 DEF begin_shift_down, goto, DownStage
  <2>3. CASE up_shift # 0
    <3>1. /\ pc' = "shift_down" /\ before' = start' /\ i' = 0 /\ m_blocks' = start
      BY <1>1, <1>2, <1>4, <2>1, <2>3 DEF AtBegin, begin_shift_down, goto
    <3>2. Split(i, Down, start)'
      BY <1>1, <1>2, <3>1 DEF Split
    <3> QED
      BY <1>1, <1>2, <2>3, <3>1, <3>2 DEF DownStage
  <2> QED
    BY <2>2, <2>3
<1>5. CASE /\ pc = "shift_down" /\ up_shift # 0 /\ before = start
           /\ i \in 0 .. Needed - 1 - n_blocks
           /\ Split(i, Down, start)
  <2>1. CASE shift_down_block
    <3>1. i < Needed - 1 - n_blocks
      BY <1>1, <2>1 DEF shift_down_block
    <3>2. /\ m_blocks[i + n_blocks] = start[i + n_blocks]
          /\ m_blocks[i + n_blocks + 1] = start[i + n_blocks + 1]
      <4>1. /\ i + n_blocks \in 0 .. Needed - 1 /\ i + n_blocks + 1 \in 0 .. Needed - 1
            /\ ~(i + n_blocks < i) /\ ~(i + n_blocks + 1 < i)
        BY <1>1, <1>5, <3>1
      <4> QED
        BY <1>5, <4>1 DEF Split
    <3>3. straddled_block(m_blocks, i + n_blocks, bits_per_block - up_shift, up_shift) = Down[i]
      <4>1. Down[i] = straddled_block(start, i + n_blocks, bits_per_block - up_shift, up_shift)
        <5>1. ~(Needed - 1 - n_blocks < i) /\ i # Needed - 1 - n_blocks /\ i \in 0 .. Needed - 1
          BY <1>1, <1>5, <3>1
        <5> QED
          BY <1>5, <5>1, DownBlocks
      <4> QED
        BY <3>2, <4>1 DEF straddled_block
    <3>4. /\ m_blocks' = [m_blocks EXCEPT ![i] = Down[i]] /\ i' = i + 1
          /\ pc' = "shift_down" /\ before' = start
      BY <1>5, <2>1, <3>3 DEF shift_down_block, assign
    <3>5. Split(i, Down, start)'
      <4>1. \A l \in 0 .. Needed - 1 : m_blocks'[l] = IF l < i + 1 THEN Down[l] ELSE start[l]
        BY <1>1, <1>5, <3>4 DEF Split
      <4> QED
        BY <1>1, <1>2, <3>4, <4>1 DEF Split
    <3>6. i' \in 0 .. Needed - 1 - n_blocks
      BY <1>1, <1>5, <3>1, <3>4
    <3> QED
      BY <1>2, <1>5, <3>4, <3>5, <3>6 DEF DownStage
  <2>2. CASE shift_down_highest
    <3>1. i = Needed - 1 - n_blocks
      BY <1>1, <2>2 DEF shift_down_highest
    <3>2. m_blocks[Needed - 1] = start[Needed - 1]
      BY <1>1, <1>5, <3>1 DEF Split
    <3>3. m_blocks' = [m_blocks EXCEPT ![i] = Down[i]] /\ pc' = "fill_high"
      <4>1. Down[i] = shr(m_blocks[Needed - 1], up_shift)
        BY <1>1, <1>5, <3>1, <3>2, DownBlocks
      <4> QED
        BY <1>1, <2>2, <3>1, <4>1 DEF shift_down_highest, assign, goto
    <3>4. \A j \in 0 .. Needed - 1 - n_blocks : m_blocks'[j] = Down[j]
      BY <1>1, <1>5, <3>1, <3>3 DEF Split
    <3> QED
      BY <1>2, <3>3, <3>4 DEF DownStage
  <2> QED
    BY <1>5, <2>1, <2>2, NextByLabel
<1>6. CASE pc = "fill_high" /\ \A j \in 0 .. Needed - 1 - n_blocks : m_blocks[j] = Down[j]
  <2>1. fill_high
    BY <1>6, NextByLabel
  <2>2. \A j \in 0 .. Needed - 1 : m_blocks'[j] = Down[j]
    BY <1>1, <1>6, <2>1, DownBlocks DEF fill_high
  <2>3. m_blocks' = Down
    BY <1>1, <2>2, DownBlocks, BlocksKept, SameBlocks
  <2> QED
    BY <1>2, <2>1, <2>3 DEF fill_high, goto, DownStage
<1>7. pc # "done"
  BY NextByLabel
<1> QED
  BY <1>3, <1>4, <1>5, <1>6, <1>7 DEF DownStage

(***************************************************************************)
(* The turn within the blocks, of a rotation and of a reversal.            *)
(***************************************************************************)
\* From the label a turn begins at to the one it ends at.
LEMMA TurnStep ==
    ASSUME TypeInv, Stage, Next, UNCHANGED start, NEW b \in Storage(Needed), NEW r,
           turn_by = r, Turning(b, r), Needed # 0
    PROVE  /\ \/ pc' = "turn" /\ before' = b /\ first' = b[0] /\ i' \in 0 .. Needed - 1
                 /\ \A l \in 0 .. Needed - 1 :
                       m_blocks'[l] = IF l < i' THEN blocks_rotated_down(b, r)[l] ELSE b[l]
              \/ pc' = after_turn /\ m_blocks' = blocks_rotated_down(b, r)
<1> DEFINE t == blocks_rotated_down(b, r)
<1>1. /\ m_blocks \in Storage(Needed) /\ Needed \in Nat
      /\ DOMAIN m_blocks = 0 .. Needed - 1 /\ last = Needed - 1
  BY Bounds, Shape DEF TypeInv, last
<1>2. /\ t \in Storage(Needed)
      /\ \A j \in 0 .. Needed - 1 :
             t[j] = IF j = Needed - 1
                    THEN shl(b[0], bits_per_block - r) \cup shr(b[Needed - 1], r)
                    ELSE straddled_block(b, j, bits_per_block - r, r)
  BY <1>1, Shape, BlocksRotatedType DEF blocks_rotated_down
<1> HIDE DEF t
<1>4. CASE pc = "begin_turn" /\ m_blocks = b
  <2>1. begin_turn
    BY <1>4, NextByLabel
  <2>2. pc' = "turn" /\ before' = b /\ first' = b[0] /\ i' = 0 /\ m_blocks' = b
    BY <1>4, <2>1 DEF begin_turn, goto
  <2>3. \A l \in 0 .. Needed - 1 : m_blocks'[l] = IF l < 0 THEN t[l] ELSE b[l]
    BY <1>1, <2>2
  <2> QED
    BY <1>1, <2>2, <2>3 DEF t
<1>5. CASE /\ pc = "turn" /\ before = b /\ first = b[0]
           /\ i \in 0 .. Needed - 1
           /\ Split(i, t, b)
  <2>1. \A l \in 0 .. Needed - 1 : m_blocks[l] = IF l < i THEN t[l] ELSE b[l]
    BY <1>5 DEF Split
  <2>2. CASE turn_block
    <3>1. i < Needed - 1
      BY <1>1, <2>2 DEF turn_block
    <3>2. m_blocks[i] = b[i] /\ m_blocks[i + 1] = b[i + 1]
      BY <1>1, <1>5, <2>1, <3>1
    <3>3. straddled_block(m_blocks, i, bits_per_block - turn_by, turn_by) = t[i]
      <4>1. t[i] = straddled_block(b, i, bits_per_block - r, r)
        BY <1>1, <1>2, <1>5, <3>1
      <4> QED
        BY <3>2, <4>1 DEF straddled_block
    <3>4. /\ m_blocks' = [m_blocks EXCEPT ![i] = t[i]] /\ i' = i + 1
          /\ pc' = "turn" /\ before' = b /\ first' = b[0]
      BY <1>5, <2>2, <3>3 DEF turn_block, assign
    <3>5. \A l \in 0 .. Needed - 1 : m_blocks'[l] = IF l < i + 1 THEN t[l] ELSE b[l]
      BY <1>1, <1>5, <2>1, <3>4
    <3> QED
      BY <1>1, <1>5, <3>1, <3>4, <3>5 DEF t
  <2>3. CASE turn_last
    <3>1. i = Needed - 1
      BY <1>1, <2>3 DEF turn_last
    <3>2. m_blocks[Needed - 1] = b[Needed - 1]
      BY <1>1, <2>1, <3>1
    <3>3. t[Needed - 1] = shl(first, bits_per_block - turn_by) \cup shr(m_blocks[last], turn_by)
      BY <1>1, <1>2, <1>5, <3>2
    <3>4. m_blocks' = [m_blocks EXCEPT ![Needed - 1] = t[Needed - 1]] /\ pc' = after_turn
      BY <1>1, <2>3, <3>3 DEF turn_last, assign, goto
    <3>5. \A l \in 0 .. Needed - 1 : m_blocks'[l] = t[l]
      BY <1>1, <2>1, <3>1, <3>4
    <3>6. m_blocks' = t
      BY <1>1, <1>2, <3>5, BlocksKept, SameBlocks
    <3> QED
      BY <3>4, <3>6 DEF t
  <2> QED
    BY <1>5, <2>2, <2>3, NextByLabel
<1> QED
  BY <1>4, <1>5 DEF Turning, t

(***************************************************************************)
(* Positions moved a chunk at a time.                                      *)
(***************************************************************************)
\* A block read at any position is of the positions from it on, none where the
\* storage ends first.
LEMMA BlockAtPositions ==
    ASSUME NEW k \in Nat, NEW b \in Storage(k), NEW n \in Span(k), NEW o \in Offset
    PROVE  o \in block_at(b, n) <=> n + o \in Positions(b)
<1> DEFINE at == index(n)
           up == offset(n)
<1>1. at \in 0 .. k - 1 /\ up \in Offset /\ n = At(at, up)
  BY SplitPosition
<1>2. last_block(b) = k - 1 /\ Positions(b) \subseteq Span(k)
  BY NumBlocks, PositionsBelow
<1>3. n \in Nat /\ o \in Nat /\ up \in Nat /\ at * bits_per_block \in Nat
  BY <1>1, WholeWidth, BitsPerBlockAssumption DEF Offset, Span
<1>4. n + o = At(at, o) + up /\ n + o = At(at, o + up)
  BY <1>1, <1>3 DEF At
<1>5. block_at(b, n) = IF up = 0 \/ at = k - 1
                       THEN shr(b[at], up)
                       ELSE straddled_block(b, at, bits_per_block - up, up)
  BY <1>2 DEF block_at
<1> HIDE DEF at, up
<1>6. CASE up = 0 \/ at = k - 1
  <2>1. o \in block_at(b, n) <=> o + up \in b[at]
    BY <1>5, <1>6 DEF shr
  <2>2. CASE o + up \in Offset
    BY <1>1, <1>4, <2>1, <2>2, PositionIff
  <2>3. CASE o + up \notin Offset
    <3>1. o + up >= bits_per_block /\ up # 0
      BY <1>3, <2>3, BitsPerBlockAssumption DEF Offset
    <3>2. at = k - 1 /\ k * bits_per_block = (at * bits_per_block) + bits_per_block
      BY <1>1, <1>6, <3>1, BitsPerBlockAssumption
    <3>3. n + o >= k * bits_per_block
      BY <1>1, <1>3, <3>1, <3>2, BitsPerBlockAssumption DEF At
    <3>4. n + o \notin Span(k)
      BY <1>3, <3>2, <3>3, BitsPerBlockAssumption DEF Span
    <3>5. o + up \notin b[at]
      BY <1>1, <2>3 DEF Storage, Block
    <3> QED
      BY <1>2, <2>1, <3>4, <3>5
  <2> QED
    BY <2>2, <2>3
<1>7. CASE ~(up = 0 \/ at = k - 1)
  <2>1. at \in 0 .. k - 2 /\ up # 0
    BY <1>1, <1>7
  <2> QED
    BY <1>1, <1>4, <1>5, <1>7, <2>1, StraddledPositions
<1> QED
  BY <1>6, <1>7

\* A chunk written holds the positions read, and the rest stay.
LEMMA ChunkPositions ==
    ASSUME NEW k \in Nat, NEW b \in Storage(k), NEW to \in Nat, NEW from \in Nat,
           NEW count \in 1 .. bits_per_block,
           to + count <= k * bits_per_block, from + count <= k * bits_per_block
    PROVE  Positions(written_at(b, to, block_at(b, from), partial_block_mask(count))) =
               {p \in Span(k) : IF to <= p /\ p < to + count
                                THEN p + (from - to) \in Positions(b)
                                ELSE p \in Positions(b)}
<1> DEFINE mask == partial_block_mask(count)
           value == block_at(b, from)
           P == Positions(b)
           extent == k * bits_per_block
<1>1. extent \in Nat /\ P \subseteq Span(k) /\ \A p : p \in Span(k) <=> p \in Nat /\ p < extent
  BY WholeWidth, PositionsBelow DEF Span
<1>2. value \in Block /\ mask \in Block
  BY BlockOperators DEF block_at, straddled_block
<1>3. from \in Span(k) /\ to \in Span(k) /\ count \in Nat
  BY <1>1, BitsPerBlockAssumption
<1>4. \A m : m \in mask <=> m \in Nat /\ m < count
  BY BitsPerBlockAssumption DEF partial_block_mask, Offset
<1>5. \A m : m \in value \cap mask <=> m \in Nat /\ m < count /\ from + m \in P
  <2>1. \A m : m \in Nat /\ m < count => m \in Offset
    BY BitsPerBlockAssumption DEF Offset
  <2>2. \A m \in Offset : m \in value <=> from + m \in P
    BY <1>3, BlockAtPositions
  <2> HIDE DEF value, mask, P
  <2> QED
    BY <1>4, <2>1, <2>2
<1>6. Positions(written_at(b, to, value, mask)) =
          (P \ {to + m : m \in mask}) \cup {to + m : m \in value \cap mask}
  <2>1. to < extent /\ \A m \in mask : to + m < extent
    <3> HIDE DEF mask, extent
    <3> QED
      BY <1>1, <1>3, <1>4 DEF extent
  <2> HIDE DEF mask, value
  <2> QED
    BY <1>2, <2>1, WrittenAtPositions
<1> HIDE DEF mask, value, P, extent
<1>7. \A m : m \in mask => m \in Int
  BY <1>4
<1>8. ASSUME NEW p \in Span(k)
      PROVE  /\ p \in {to + m : m \in mask} <=> to <= p /\ p < to + count
             /\ p \in {to + m : m \in value \cap mask} <=>
                  to <= p /\ p < to + count /\ p + (from - to) \in P
  <2>1. p \in Nat
    BY <1>1
  <2>2. \A m \in Nat : p = to + m <=> m = p - to
    BY <2>1
  <2>3. p \in {to + m : m \in mask} <=> p - to \in mask
    BY <1>4, <2>1, <2>2
  <2>4. p \in {to + m : m \in value \cap mask} <=> p - to \in value \cap mask
    BY <1>5, <2>1, <2>2
  <2>5. from + (p - to) = p + (from - to)
    BY <2>1
  <2>6. p - to \in Nat /\ p - to < count <=> to <= p /\ p < to + count
    BY <1>3, <2>1
  <2>7. p - to \in mask <=> to <= p /\ p < to + count
    BY <1>4, <2>6
  <2>8. p - to \in value \cap mask <=> to <= p /\ p < to + count /\ p + (from - to) \in P
    BY <1>5, <2>5, <2>6
  <2> QED
    BY <2>3, <2>4, <2>7, <2>8
<1>9. \A m : m \in mask => to + m \in Span(k)
  BY <1>1, <1>3, <1>4 DEF extent
<1>10. (P \ {to + m : m \in mask}) \cup {to + m : m \in value \cap mask} =
          {p \in Span(k) : IF to <= p /\ p < to + count THEN p + (from - to) \in P ELSE p \in P}
  <2>1. {to + m : m \in value \cap mask} \subseteq Span(k)
    BY <1>9
  <2> QED
    BY <1>1, <1>8, <2>1
<1> QED
  BY <1>6, <1>10 DEF P, value, mask

\* The chunk at the place at is moved next, reads no position already moved, and
\* makes those from lo to hi the ones from l to h.
Joins(b, lo, hi, at, count, l, h) ==
    /\ b \in Storage(Needed) /\ lo \in Nat /\ hi \in Nat /\ at \in Nat /\ l \in Nat /\ h \in Nat
    /\ target \in Nat /\ source \in Nat /\ count \in 1 .. bits_per_block
    /\ target + at + count <= Needed * bits_per_block
    /\ source + at + count <= Needed * bits_per_block
    /\ Positions(m_blocks) = Moved(b, lo, hi)
    /\ move(target + at, source + at, count)
    /\ \A m \in at .. at + count - 1 : source + m < target + lo \/ target + hi <= source + m
    /\ \A x \in Int : l <= x /\ x < h <=> (lo <= x /\ x < hi) \/ (at <= x /\ x < at + count)

\* A chunk that joins the moved ones moves its positions and no other.
LEMMA ChunkMoved ==
    ASSUME TypeInv, NEW b, NEW lo, NEW hi, NEW at, NEW count, NEW l, NEW h,
           Joins(b, lo, hi, at, count, l, h)
    PROVE  Positions(m_blocks') = Moved(b, l, h)
<1>0. /\ b \in Storage(Needed) /\ lo \in Nat /\ hi \in Nat /\ at \in Nat /\ l \in Nat /\ h \in Nat
      /\ target \in Nat /\ source \in Nat /\ count \in 1 .. bits_per_block
      /\ target + at + count <= Needed * bits_per_block
      /\ source + at + count <= Needed * bits_per_block
      /\ Positions(m_blocks) = Moved(b, lo, hi)
      /\ move(target + at, source + at, count)
      /\ \A m \in at .. at + count - 1 : source + m < target + lo \/ target + hi <= source + m
      /\ \A x \in Int : l <= x /\ x < h <=> (lo <= x /\ x < hi) \/ (at <= x /\ x < at + count)
  BY DEF Joins
<1> DEFINE P == Positions(m_blocks)
           extent == Needed * bits_per_block
           t == target
           s == source
<1>1. m_blocks \in Storage(Needed) /\ Needed \in Nat /\ extent \in Nat
  BY Bounds DEF TypeInv
<1>2. \A p : p \in Span(Needed) <=> p \in Nat /\ p < extent
  BY <1>1 DEF Span
<1>3. /\ t \in Nat /\ s \in Nat /\ count \in Nat /\ at \in Nat
      /\ t + at + count <= extent /\ s + at + count <= extent
      /\ t + at \in Nat /\ s + at \in Nat
  BY <1>0, BitsPerBlockAssumption
<1>4. \A p : p \in P <=> /\ p \in Span(Needed)
                         /\ IF t + lo <= p /\ p < t + hi THEN p + (s - t) \in Positions(b)
                                                         ELSE p \in Positions(b)
  BY <1>0 DEF Moved
<1> HIDE DEF t, s, extent
<1>5. Positions(m_blocks') = {p \in Span(Needed) : IF t + at <= p /\ p < t + at + count
                                                   THEN p + ((s + at) - (t + at)) \in P
                                                   ELSE p \in P}
  <2>1. m_blocks' = written_at(m_blocks, t + at, block_at(m_blocks, s + at),
                               partial_block_mask(count))
    BY <1>0 DEF move, t, s
  <2> QED
    BY <1>0, <1>1, <1>3, <2>1, ChunkPositions DEF extent
<1> HIDE DEF P
<1>6. ASSUME NEW p \in Span(Needed)
      PROVE  (IF t + at <= p /\ p < t + at + count THEN p + ((s + at) - (t + at)) \in P ELSE p \in P)
                 <=> (IF t + l <= p /\ p < t + h THEN p + (s - t) \in Positions(b)
                                                 ELSE p \in Positions(b))
  <2> DEFINE q == p + (s - t)
             x == p - t
  <2>1. p \in Nat /\ p < extent /\ q \in Int /\ x \in Int /\ q = s + x
        /\ q = p + ((s + at) - (t + at))
    BY <1>2, <1>3
  <2>2. /\ t + at <= p /\ p < t + at + count <=> at <= x /\ x < at + count
        /\ t + lo <= p /\ p < t + hi <=> lo <= x /\ x < hi
        /\ t + l <= p /\ p < t + h <=> l <= x /\ x < h
    BY <1>0, <1>3, <2>1
  <2>3. l <= x /\ x < h <=> (lo <= x /\ x < hi) \/ (at <= x /\ x < at + count)
    BY <1>0, <2>1
  <2> HIDE DEF q, x
  <2>4. CASE at <= x /\ x < at + count
    <3>1. q \in Span(Needed)
      BY <1>0, <1>1, <1>2, <1>3, <2>1, <2>4
    <3>2. ~(t + lo <= q /\ q < t + hi)
      <4>1. x \in at .. at + count - 1
        BY <1>3, <2>1, <2>4
      <4>2. s + x < t + lo \/ t + hi <= s + x
        BY <1>0, <4>1 DEF s, t
      <4> QED
        BY <1>0, <1>3, <2>1, <4>2
    <3>3. q \in P <=> q \in Positions(b)
      BY <1>4, <3>1, <3>2
    <3> QED
      BY <2>1, <2>2, <2>3, <2>4, <3>3 DEF q
  <2>5. CASE ~(at <= x /\ x < at + count)
    <3>1. p \in P <=> IF lo <= x /\ x < hi THEN q \in Positions(b) ELSE p \in Positions(b)
      BY <1>4, <2>2 DEF q
    <3> QED
      BY <2>2, <2>3, <2>5, <3>1 DEF q
  <2> QED
    BY <2>4, <2>5
<1> QED
  BY <1>5, <1>6 DEF Moved, t, s

(***************************************************************************)
(* The loops that move chunks, lowest first and highest first.             *)
(***************************************************************************)
\* What moves stays within the blocks, and in the direction it is moved no chunk
\* is written before it is read.
LEMMA MovingBounds ==
    ASSUME TypeInv, call.op \in {"rotate", "copy", "copy_backward"}
    PROVE  /\ target \in Nat /\ source \in Nat /\ len \in Nat /\ len <= size
           /\ target + len <= Needed * bits_per_block /\ source + len <= Needed * bits_per_block
           /\ call.op # "copy_backward" => target <= source \/ source + len <= target
           /\ call.op = "copy_backward" => source <= target \/ target + len <= source
<1> DEFINE extent == Needed * bits_per_block
<1>1. num_bits(m_blocks) = extent /\ extent \in Nat /\ size \in Nat /\ size <= extent
  BY Bounds, Shape, CallFields DEF TypeInv
<1> HIDE DEF extent
<1>2. gap = extent - size
  BY <1>1 DEF gap
<1>3. CASE call.op = "rotate"
  <2>1. target = size - call.n /\ source = (size - call.n) + gap
    BY <1>3 DEF target, source
  <2>2. call.n \in 0 .. size
    BY CallFields
  <2> QED
    BY <1>1, <1>2, <1>3, <2>1, <2>2 DEF len, extent
<1>4. CASE call.op \in {"copy", "copy_backward"}
  <2>1. target = call.pos /\ source = call.from
    BY <1>4 DEF target, source
  <2> QED
    BY <1>1, <1>4, <2>1, CallFields DEF len, extent
<1> QED
  BY <1>3, <1>4

\* Where chunks move from and to does not change while they do.
LEMMA MovingConstants ==
    ASSUME TypeInv, Stage, Next, UNCHANGED start
    PROVE  /\ Needed' = Needed /\ target' = target /\ source' = source
           /\ len' = len /\ chunks' = chunks
           /\ \A b, lo, hi : Moved(b, lo, hi)' = Moved(b, lo, hi)
<1>1. TypeInv' /\ call' = call
  BY TypeKept
<1>2. Needed' = Needed /\ size' = size /\ Needed \in Nat
  BY <1>1, Bounds DEF Needed, size
<1>3. num_bits(m_blocks') = num_bits(m_blocks)
  <2>1. m_blocks \in Storage(Needed) /\ m_blocks' \in Storage(Needed)
    BY BlocksKept DEF TypeInv
  <2> QED
    BY <1>2, <2>1, NumBlocks
<1>4. gap' = gap
  BY <1>2, <1>3 DEF gap
<1>5. target' = target /\ source' = source /\ len' = len /\ chunks' = chunks
  BY <1>1, <1>2, <1>4 DEF target, source, len, chunks
<1> QED
  BY <1>2, <1>5 DEF Moved

\* How many chunks there are, and where each begins and ends.
LEMMA Chunks ==
    ASSUME TypeInv, call.op \in {"copy", "copy_backward"}
    PROVE  /\ chunks \in Nat /\ chunks < SizeMod
           /\ len <= chunks * bits_per_block
           /\ chunks = 0 <=> len = 0
           /\ \A j \in 0 .. chunks - 1 :
                 /\ j * bits_per_block \in Nat
                 /\ j * bits_per_block < len
                 /\ (j + 1) * bits_per_block = (j * bits_per_block) + bits_per_block
<1>1. len \in Nat /\ len <= size /\ size + bits_per_block < SizeMod /\ SizeMod \in Nat
  BY MovingBounds, Bounds
<1> DEFINE x == (len + bits_per_block) - 1
<1>2. chunks = x \div bits_per_block /\ x \in Nat
  BY <1>1, BitsPerBlockAssumption DEF chunks
<1> HIDE DEF x
<1>3. /\ chunks \in Nat /\ chunks * bits_per_block \in Nat
      /\ chunks * bits_per_block <= x /\ x < (chunks * bits_per_block) + bits_per_block
  BY <1>2, BitsPerBlockAssumption
<1>4. chunks <= chunks * bits_per_block
  BY <1>3, BitsPerBlockAssumption
<1>5. chunks < SizeMod
  <2>1. x < SizeMod
    BY <1>1, CallFields, BitsPerBlockAssumption DEF x
  <2> QED
    BY <1>1, <1>2, <1>3, <1>4, <2>1
<1>6. len <= chunks * bits_per_block
  BY <1>1, <1>3, BitsPerBlockAssumption DEF x
<1>7. chunks = 0 <=> len = 0
  <2>1. chunks = 0 => chunks * bits_per_block = 0
    BY BitsPerBlockAssumption
  <2>2. len = 0 => chunks * bits_per_block < bits_per_block
    BY <1>3, BitsPerBlockAssumption DEF x
  <2>3. chunks # 0 => chunks * bits_per_block >= bits_per_block
    BY <1>3, BitsPerBlockAssumption
  <2> QED
    BY <1>1, <1>3, <1>6, <2>1, <2>2, <2>3, BitsPerBlockAssumption
<1>8. ASSUME NEW j \in 0 .. chunks - 1
      PROVE  /\ j * bits_per_block \in Nat
             /\ j * bits_per_block < len
             /\ (j + 1) * bits_per_block = (j * bits_per_block) + bits_per_block
  <2>1. /\ j * bits_per_block \in Nat
        /\ (j + 1) * bits_per_block = (j * bits_per_block) + bits_per_block
    BY <1>3, BitsPerBlockAssumption
  <2>2. (j + 1) * bits_per_block <= chunks * bits_per_block
    BY <1>3, BitsPerBlockAssumption
  <2> QED
    BY <1>1, <1>3, <2>1, <2>2, BitsPerBlockAssumption DEF x
<1> QED
  BY <1>3, <1>5, <1>6, <1>7, <1>8

\* Lowest first: the positions moved grow by those of the chunk.
LEMMA MoveUpStep ==
    ASSUME TypeInv, Stage, Next, UNCHANGED start, call.op \in {"rotate", "copy"},
           MovingUp, before \in Storage(Needed), move_up_chunk
    PROVE  MovingUp'
<1> DEFINE count == count_at(i)
<1>1. i \in Nat /\ i < len /\ len \in Nat
  BY MovingBounds DEF TypeInv, move_up_chunk
<1>2. /\ count \in 1 .. bits_per_block /\ i + count <= len
      /\ i + count = IF i + bits_per_block < len THEN i + bits_per_block ELSE len
  BY <1>1, BitsPerBlockAssumption DEF count_at
<1>3. /\ i' = i + bits_per_block /\ before' = before
      /\ move(target + i, source + i, count)
  BY DEF move_up_chunk, next_chunk
<1>4. Positions(m_blocks) = Moved(before, 0, i)
  BY <1>1 DEF MovingUp
<1> HIDE DEF count
<1>5. Positions(m_blocks') = Moved(before, 0, i + count)
  <2>1. count \in Nat /\ i + count \in Nat
    BY <1>1, <1>2, BitsPerBlockAssumption
  <2>2. /\ target \in Nat /\ source \in Nat
        /\ target + i + count <= Needed * bits_per_block
        /\ source + i + count <= Needed * bits_per_block
    <3>1. /\ target \in Nat /\ source \in Nat /\ Needed * bits_per_block \in Nat
          /\ target + len <= Needed * bits_per_block /\ source + len <= Needed * bits_per_block
      BY MovingBounds, Bounds
    <3> DEFINE extent == Needed * bits_per_block
    <3> HIDE DEF extent
    <3>2. target + i + count <= extent /\ source + i + count <= extent
      BY <1>1, <1>2, <2>1, <3>1 DEF extent
    <3> QED
      BY <3>1, <3>2 DEF extent
  <2>3. \A m \in i .. i + count - 1 : source + m < target + 0 \/ target + i <= source + m
    <3>1. target <= source \/ source + len <= target
      BY MovingBounds
    <3> QED
      BY <1>1, <1>2, <2>1, <2>2, <3>1
  <2>4. \A x \in Int : 0 <= x /\ x < i + count <=> (0 <= x /\ x < i) \/ (i <= x /\ x < i + count)
    BY <1>1, <2>1
  <2>5. Joins(before, 0, i, i, count, 0, i + count)
    BY <1>1, <1>2, <1>3, <1>4, <2>1, <2>2, <2>3, <2>4 DEF Joins
  <2> QED
    BY <2>5, ChunkMoved
<1>6. i + count = IF i' < len THEN i' ELSE len
  BY <1>2, <1>3
<1> QED
  BY <1>1, <1>3, <1>5, <1>6, MovingConstants, BitsPerBlockAssumption DEF MovingUp

\* Highest first: below the chunk of index zero there is none, and the index wraps.
LEMMA MoveDownStep ==
    ASSUME TypeInv, Stage, Next, UNCHANGED start, call.op = "copy_backward",
           MovingDown, before \in Storage(Needed), move_down_chunk
    PROVE  MovingDown'
<1> DEFINE k == i * bits_per_block
           count == count_at(k)
<1>1. /\ i \in 0 .. SizeMod - 1 /\ i \in 0 .. chunks - 1 /\ chunks \in Nat /\ chunks < SizeMod
      /\ len \in Nat /\ k \in Nat /\ k < len /\ (i + 1) * bits_per_block = k + bits_per_block
  <2>1. i \in 0 .. SizeMod - 1 /\ i < chunks
    BY DEF TypeInv, move_down_chunk
  <2>2. chunks \in Nat /\ chunks < SizeMod /\ len \in Nat
    BY Chunks, MovingBounds
  <2>3. i \in 0 .. chunks - 1
    BY <2>1, <2>2
  <2> QED
    BY <2>1, <2>2, <2>3, Chunks
<1> HIDE DEF k
<1>2. count \in 1 .. bits_per_block /\ k + count <= len
      /\ k + count = IF k + bits_per_block < len THEN k + bits_per_block ELSE len
  BY <1>1, BitsPerBlockAssumption DEF count_at
<1>3. /\ i' = minus(i, 1) /\ before' = before
      /\ move(target + k, source + k, count)
  BY DEF move_down_chunk, k
<1>4. Positions(m_blocks) = Moved(before, k + bits_per_block, len)
  BY <1>1 DEF MovingDown
<1> HIDE DEF count
<1>5. Positions(m_blocks') = Moved(before, k, len)
  <2>1. count \in Nat /\ k + count \in Nat /\ k + bits_per_block \in Nat
    BY <1>1, <1>2, BitsPerBlockAssumption
  <2>2. /\ target \in Nat /\ source \in Nat
        /\ target + k + count <= Needed * bits_per_block
        /\ source + k + count <= Needed * bits_per_block
    <3>1. /\ target \in Nat /\ source \in Nat /\ Needed * bits_per_block \in Nat
          /\ target + len <= Needed * bits_per_block /\ source + len <= Needed * bits_per_block
      BY MovingBounds, Bounds
    <3> DEFINE extent == Needed * bits_per_block
    <3> HIDE DEF extent
    <3>2. target + k + count <= extent /\ source + k + count <= extent
      BY <1>1, <1>2, <2>1, <3>1 DEF extent
    <3> QED
      BY <3>1, <3>2 DEF extent
  <2>3. \A m \in k .. k + count - 1 :
            source + m < target + (k + bits_per_block) \/ target + len <= source + m
    <3>1. source <= target \/ target + len <= source
      BY MovingBounds
    <3> QED
      BY <1>1, <1>2, <2>1, <2>2, <3>1, BitsPerBlockAssumption
  <2>4. \A x \in Int : k <= x /\ x < len <=>
            (k + bits_per_block <= x /\ x < len) \/ (k <= x /\ x < k + count)
    BY <1>1, <1>2, <2>1, BitsPerBlockAssumption
  <2>5. Joins(before, k + bits_per_block, len, k, count, k, len)
    BY <1>1, <1>2, <1>3, <1>4, <2>1, <2>2, <2>3, <2>4 DEF Joins
  <2> QED
    BY <2>5, ChunkMoved
<1>6. len' = len /\ chunks' = chunks /\ SizeMod \in Nat
      /\ \A b, lo, hi : Moved(b, lo, hi)' = Moved(b, lo, hi)
  BY MovingConstants, Bounds
<1>7. /\ i' < chunks \/ i' = SizeMod - 1
      /\ k = IF i' < chunks THEN (i' + 1) * bits_per_block ELSE 0
  <2>1. i' = IF i = 0 THEN SizeMod - 1 ELSE i - 1
    BY <1>1, <1>3, Wraps
  <2>2. CASE i = 0
    BY <1>1, <1>6, <2>1, <2>2, BitsPerBlockAssumption DEF k
  <2>3. CASE i # 0
    <3>1. i' = i - 1 /\ i' + 1 = i /\ i' < chunks
      BY <1>1, <2>1, <2>3
    <3> QED
      BY <3>1 DEF k
  <2> QED
    BY <2>2, <2>3
<1> QED
  BY <1>3, <1>5, <1>6, <1>7 DEF MovingDown

\* Where nothing is left to move, every position of the target was; where nothing
\* was moved, none.
LEMMA MovingEnds ==
    ASSUME TypeInv
    PROVE  /\ call.op \in {"rotate", "copy"} /\ MovingUp /\ ~(i < len) =>
                  Positions(m_blocks) = Moved(before, 0, len)
           /\ call.op = "copy_backward" /\ MovingDown /\ ~(i < chunks) =>
                  Positions(m_blocks) = Moved(before, 0, len)
           /\ \A b \in Storage(Needed) : \A lo, hi \in Nat :
                  target \in Nat /\ hi <= lo => Moved(b, lo, hi) = Positions(b)
<1>1. Needed \in Nat
  BY Bounds
<1>2. ASSUME NEW b \in Storage(Needed), NEW lo \in Nat, NEW hi \in Nat,
             target \in Nat, hi <= lo
      PROVE  Moved(b, lo, hi) = Positions(b)
  <2>1. Positions(b) \subseteq Span(Needed) /\ \A p \in Span(Needed) : p \in Int
    BY <1>1, PositionsBelow, WholeWidth DEF Span
  <2>2. \A p \in Span(Needed) : ~(target + lo <= p /\ p < target + hi)
    BY <1>2, <2>1
  <2> QED
    BY <2>1, <2>2 DEF Moved
<1> QED
  BY <1>2 DEF MovingUp, MovingDown

\* Nothing has moved when the loop begins, from whichever end.
LEMMA MoveBegins ==
    ASSUME TypeInv, Stage, Next, UNCHANGED start, begin_move,
           call.op \in {"rotate", "copy", "copy_backward"}
    PROVE  /\ before' = m_blocks /\ m_blocks' = m_blocks
           /\ call.op # "copy_backward" => pc' = "move_up" /\ MovingUp'
           /\ call.op = "copy_backward" => pc' = "move_down" /\ MovingDown'
<1>1. /\ before' = m_blocks /\ m_blocks' = m_blocks /\ m_blocks \in Storage(Needed)
      /\ i' = IF call.op = "copy_backward" THEN minus(chunks, 1) ELSE 0
      /\ pc' = IF call.op = "copy_backward" THEN "move_down" ELSE "move_up"
  BY DEF begin_move, goto, TypeInv
<1>2. /\ len' = len /\ chunks' = chunks /\ len \in Nat /\ target \in Nat
      /\ \A b, lo, hi : Moved(b, lo, hi)' = Moved(b, lo, hi)
  BY MovingConstants, MovingBounds
<1>3. \A lo, hi \in Nat : hi <= lo => Moved(m_blocks, lo, hi) = Positions(m_blocks)
  BY <1>1, <1>2, MovingEnds
<1>4. CASE call.op # "copy_backward"
  <2>1. i' = 0 /\ i' < len' + bits_per_block
    BY <1>1, <1>2, <1>4, BitsPerBlockAssumption
  <2>2. (IF 0 < len THEN 0 ELSE len) = 0
    BY <1>2
  <2>3. Positions(m_blocks) = Moved(m_blocks, 0, IF 0 < len THEN 0 ELSE len)
    BY <1>3, <2>2
  <2> QED
    BY <1>1, <1>2, <1>4, <2>1, <2>3 DEF MovingUp
<1>5. CASE call.op = "copy_backward"
  <2>1. /\ chunks \in Nat /\ chunks < SizeMod /\ len <= chunks * bits_per_block
        /\ chunks = 0 <=> len = 0
    BY <1>5, Chunks
  <2>2. i' = IF chunks = 0 THEN SizeMod - 1 ELSE chunks - 1
    <3>1. chunks \in 0 .. SizeMod - 1
      BY <2>1, Bounds
    <3> QED
      BY <1>1, <1>5, <3>1, Wraps
  <2>3. SizeMod \in Nat
    BY Bounds
  <2>4. CASE chunks = 0
    <3>1. ~(i' < chunks) /\ i' = SizeMod - 1 /\ len = 0
      BY <2>1, <2>2, <2>3, <2>4
    <3>2. Positions(m_blocks) = Moved(m_blocks, 0, len)
      BY <1>3, <3>1
    <3> QED
      BY <1>1, <1>2, <1>5, <3>1, <3>2 DEF MovingDown
  <2>5. CASE chunks # 0
    <3>1. i' < chunks /\ i' + 1 = chunks
      BY <2>1, <2>2, <2>5
    <3>2. chunks * bits_per_block \in Nat
      BY <2>1, WholeWidth
    <3>3. Positions(m_blocks) = Moved(m_blocks, chunks * bits_per_block, len)
      BY <1>2, <1>3, <2>1, <3>2
    <3> QED
      BY <1>1, <1>2, <1>5, <3>1, <3>3 DEF MovingDown
  <2> QED
    BY <2>4, <2>5
<1> QED
  BY <1>4, <1>5, <1>1

\* Each step of a copy has moved the positions on one side of the index.
LEMMA CopyStep ==
    ASSUME TypeInv, Stage, call.op \in {"copy", "copy_backward"}, Next, UNCHANGED start
    PROVE  CopyStage'
<1>1. /\ call' = call /\ start' = start /\ len' = len /\ start \in Storage(Needed)
      /\ \A b, lo, hi : Moved(b, lo, hi)' = Moved(b, lo, hi)
  BY TypeKept, MovingConstants DEF TypeInv
<1>2. CopyStage
  BY DEF Stage
<1>3. CASE AtBegin
  <2>1. begin_move
    BY <1>3, NextByLabel
       DEF AtBegin, begin_shift_up, begin_shift_down, begin_rotate, begin_reverse
  <2>2. before' = start
    BY <1>3, <2>1, MoveBegins DEF AtBegin
  <2> QED
    BY <1>1, <2>1, <2>2, MoveBegins DEF CopyStage
<1>4. CASE pc = "move_up" /\ call.op = "copy" /\ before = start /\ MovingUp
  <2>1. CASE move_up_chunk
    BY <1>1, <1>4, <2>1, MoveUpStep DEF CopyStage, move_up_chunk
  <2>2. CASE move_up_end
    <3>1. Positions(m_blocks) = Moved(start, 0, len)
      BY <1>4, <2>2, MovingEnds DEF move_up_end
    <3>2. pc' = "done" /\ m_blocks' = m_blocks
      BY <1>4, <2>2 DEF move_up_end, goto
    <3> QED
      BY <1>1, <3>1, <3>2 DEF CopyStage
  <2> QED
    BY <1>4, <2>1, <2>2, NextByLabel
<1>5. CASE pc = "move_down" /\ call.op = "copy_backward" /\ before = start /\ MovingDown
  <2>1. CASE move_down_chunk
    BY <1>1, <1>5, <2>1, MoveDownStep DEF CopyStage, move_down_chunk
  <2>2. CASE move_down_end
    <3>1. Positions(m_blocks) = Moved(start, 0, len)
      BY <1>5, <2>2, MovingEnds DEF move_down_end
    <3>2. pc' = "done" /\ m_blocks' = m_blocks
      BY <1>5, <2>2 DEF move_down_end, goto
    <3> QED
      BY <1>1, <3>1, <3>2 DEF CopyStage
  <2> QED
    BY <1>5, <2>1, <2>2, NextByLabel
<1>6. pc # "done"
  BY NextByLabel
<1> QED
  BY <1>2, <1>3, <1>4, <1>5, <1>6 DEF CopyStage

(***************************************************************************)
(* The rotation and the reversal.                                          *)
(***************************************************************************)
\* What a rotation's passes leave is storage, and its last is the function's.
LEMMA RotatePasses ==
    ASSUME TypeInv, call.op = "rotate"
    PROVE  /\ Blockwise \in Storage(Needed)
           /\ Turned \in Storage(Needed)
           /\ Closed \in Storage(Needed)
           /\ rotated(start, size, call.n) =
                  IF call.n = 0 THEN start ELSE erase_unused(Closed, size)
<1>1. /\ start \in Storage(Needed) /\ Needed \in Nat /\ Needed # 0 /\ n_blocks \in 0 .. Needed - 1
      /\ DOMAIN start = 0 .. Needed - 1 /\ num_blocks(start) = Needed
      /\ size \in Nat /\ call.n \in Nat /\ call.n < size
  BY Bounds, Shape, ShiftBounds, CallFields DEF TypeInv
<1>2. Blockwise \in Storage(Needed)
  <2>1. \A j \in 0 .. Needed - 1 : (j + n_blocks) % Needed \in 0 .. Needed - 1
    BY <1>1
  <2> QED
    BY <1>1, <2>1 DEF Blockwise, Storage
<1>3. Turned \in Storage(Needed)
  BY <1>1, <1>2, BlocksRotatedType DEF Turned
<1>4. Closed \in Storage(Needed)
  BY <1>1, <1>3, PaddingClosedType DEF Closed
<1>5. modulo_width(call.n, size) = call.n
  BY <1>1 DEF modulo_width
<1>6. rotated(start, size, call.n) = IF call.n = 0 THEN start ELSE erase_unused(Closed, size)
  BY <1>5 DEF rotated, rotated_down, Closed, Turned, Blockwise, n_blocks, up_shift
<1> QED
  BY <1>2, <1>3, <1>4, <1>6

\* The padding a rotation's chunks close is the one the function closes.
LEMMA RotateCloses ==
    ASSUME TypeInv, call.op = "rotate", has_unused_bits(start, size),
           Positions(m_blocks) = Moved(Turned, 0, len)
    PROVE  m_blocks = Closed
<1> DEFINE extent == Needed * bits_per_block
<1>1. /\ m_blocks \in Storage(Needed) /\ Turned \in Storage(Needed) /\ Closed \in Storage(Needed)
      /\ Needed \in Nat /\ size \in Nat /\ call.n \in Nat /\ call.n <= size /\ size <= extent /\ extent \in Nat
      /\ num_bits(m_blocks) = extent
  BY RotatePasses, Bounds, Shape, CallFields DEF TypeInv
<1>2. Closed = padding_closed(Turned, size, call.n)
  BY DEF Closed
<1>3. Positions(Closed) = {p \in Span(Needed) : IF size - call.n <= p /\ p < size
                                                THEN p + (extent - size) \in Positions(Turned)
                                                ELSE p \in Positions(Turned)}
  BY <1>1, <1>2, PaddingClosedPositions
<1>4. \A p \in Span(Needed) : p \in Nat
  BY <1>1 DEF Span
<1> HIDE DEF extent
<1>5. target = size - call.n /\ source = size - call.n + gap /\ gap = extent - size /\ len = call.n
  BY <1>1 DEF target, source, gap, len
<1>6. ASSUME NEW p \in Span(Needed)
      PROVE  /\ target + 0 <= p /\ p < target + len <=> size - call.n <= p /\ p < size
             /\ p + (source - target) = p + (extent - size)
  BY <1>1, <1>4, <1>5
<1>7. Positions(m_blocks) = Positions(Closed)
  BY <1>3, <1>6 DEF Moved
<1> QED
  BY <1>1, <1>7, SamePositions

\* Each step of a rotation leaves one of its passes done, or on the way.
LEMMA RotateStep ==
    ASSUME TypeInv, Stage, call.op = "rotate", Next, UNCHANGED start
    PROVE  RotateStage'
<1>1. /\ call' = call /\ start' = start /\ size' = size /\ Needed' = Needed
      /\ up_shift' = up_shift /\ Blockwise' = Blockwise /\ Turned' = Turned /\ Closed' = Closed
      /\ rotated(start, size, call.n)' = rotated(start, size, call.n)
      /\ has_unused_bits(start, size)' = has_unused_bits(start, size)
  BY TypeKept DEF size, Needed, up_shift, n_blocks, Blockwise, Turned, Closed
<1>2. /\ m_blocks \in Storage(Needed) /\ start \in Storage(Needed)
      /\ num_bits(m_blocks) = num_bits(start)
      /\ Blockwise \in Storage(Needed) /\ Needed # 0 /\ turn_by = up_shift
      /\ rotated(start, size, call.n) = IF call.n = 0 THEN start ELSE erase_unused(Closed, size)
  BY RotatePasses, Shape, ShiftBounds DEF TypeInv, turn_by
<1>3. RotateStage
  BY DEF Stage
<1>4. after_turn = IF has_unused_bits(start, size) THEN "begin_move" ELSE "mask_tail"
  BY <1>2 DEF after_turn, has_unused_bits
<1>5. ASSUME pc' = after_turn, m_blocks' = Turned, call.n # 0
      PROVE  RotateStage'
  <2>1. CASE has_unused_bits(start, size)
    BY <1>1, <1>4, <1>5, <2>1, Zenon DEF RotateStage
  <2>2. CASE ~has_unused_bits(start, size)
    <3>1. m_blocks' = Closed /\ pc' = "mask_tail"
      BY <1>4, <1>5, <2>2 DEF Closed
    <3> QED
      BY <1>1, <1>5, <3>1, Zenon DEF RotateStage
  <2> QED
    BY <2>1, <2>2
<1>6. CASE AtBegin
  <2>1. begin_rotate
    BY <1>6, NextByLabel
       DEF AtBegin, begin_shift_up, begin_shift_down, begin_reverse, begin_move
  <2>2. CASE call.n = 0
    <3>1. pc' = "done" /\ m_blocks' = start
      BY <1>6, <2>1, <2>2 DEF AtBegin, begin_rotate, goto
    <3> QED
      BY <1>1, <1>2, <2>2, <3>1 DEF RotateStage
  <2>3. CASE call.n # 0
    <3>1. m_blocks' = Blockwise /\ pc' = IF up_shift # 0 THEN "begin_turn" ELSE after_turn
      BY <1>6, <2>1, <2>3 DEF AtBegin, begin_rotate, goto, Blockwise
    <3>2. CASE up_shift # 0
      BY <1>1, <2>3, <3>1, <3>2 DEF RotateStage, Turning
    <3>3. CASE up_shift = 0
      BY <1>5, <2>3, <3>1, <3>3 DEF Turned
    <3> QED
      BY <3>2, <3>3
  <2> QED
    BY <2>2, <2>3
<1>7. CASE call.n # 0 /\ up_shift # 0 /\ Turning(Blockwise, up_shift)
  <2>1. \/ /\ pc' = "turn" /\ before' = Blockwise /\ first' = Blockwise[0] /\ i' \in 0 .. Needed - 1
           /\ \A l \in 0 .. Needed - 1 :
                 m_blocks'[l] = IF l < i' THEN blocks_rotated_down(Blockwise, up_shift)[l]
                                          ELSE Blockwise[l]
        \/ pc' = after_turn /\ m_blocks' = blocks_rotated_down(Blockwise, up_shift)
    BY <1>2, <1>7, TurnStep
  <2>2. CASE pc' = after_turn /\ m_blocks' = blocks_rotated_down(Blockwise, up_shift)
    BY <1>5, <1>7, <2>2 DEF Turned
  <2>3. CASE /\ pc' = "turn" /\ before' = Blockwise /\ first' = Blockwise[0] /\ i' \in 0 .. Needed - 1
             /\ \A l \in 0 .. Needed - 1 :
                   m_blocks'[l] = IF l < i' THEN blocks_rotated_down(Blockwise, up_shift)[l]
                                            ELSE Blockwise[l]
    <3>1. Turning(Blockwise, up_shift)'
      BY <1>1, <2>3 DEF Turning, Split
    <3> QED
      BY <1>1, <1>7, <3>1 DEF RotateStage
  <2> QED
    BY <2>1, <2>2, <2>3
<1>8. CASE /\ call.n # 0 /\ pc = "begin_move" /\ has_unused_bits(start, size) /\ m_blocks = Turned
  <2>1. begin_move
    BY <1>8, NextByLabel
  <2>2. before' = Turned /\ pc' = "move_up" /\ MovingUp'
    BY <1>8, <2>1, MoveBegins
  <2> QED
    BY <1>1, <1>8, <2>2 DEF RotateStage
<1>9. CASE /\ call.n # 0 /\ pc = "move_up" /\ has_unused_bits(start, size)
           /\ before = Turned /\ MovingUp
  <2>1. CASE move_up_chunk
    <3>1. MovingUp'
      BY <1>9, <2>1, RotatePasses, MoveUpStep
    <3>2. pc' = "move_up" /\ before' = Turned
      BY <1>9, <2>1 DEF move_up_chunk
    <3> QED
      BY <1>1, <1>9, <3>1, <3>2 DEF RotateStage
  <2>2. CASE move_up_end
    <3>1. Positions(m_blocks) = Moved(Turned, 0, len)
      BY <1>9, <2>2, MovingEnds DEF move_up_end
    <3>2. m_blocks = Closed
      BY <1>9, <3>1, RotateCloses
    <3>3. pc' = "mask_tail" /\ m_blocks' = Closed
      BY <2>2, <3>2 DEF move_up_end, goto
    <3> QED
      BY <1>1, <1>9, <3>3 DEF RotateStage
  <2> QED
    BY <1>9, <2>1, <2>2, NextByLabel
<1>10. CASE call.n # 0 /\ pc = "mask_tail" /\ m_blocks = Closed
  <2>1. mask_tail
    BY <1>10, NextByLabel
  <2>2. pc' = "done" /\ m_blocks' = erase_unused(Closed, size)
    BY <1>10, <2>1 DEF mask_tail, goto
  <2> QED
    BY <1>1, <1>2, <1>10, <2>2 DEF RotateStage
<1>11. pc # "done"
  BY NextByLabel
<1> QED
  BY <1>3, <1>6, <1>7, <1>8, <1>9, <1>10, <1>11 DEF RotateStage

\* Each step of a reversal leaves the blocks end for end, and turned so far.
LEMMA ReverseStep ==
    ASSUME TypeInv, Stage, call.op = "reverse", Next, UNCHANGED start
    PROVE  ReverseStage'
<1> DEFINE r == num_bits(start) - size
<1>1. /\ call' = call /\ start' = start /\ size' = size /\ Needed' = Needed
      /\ EndForEnd' = EndForEnd /\ end_for_end(start, size)' = end_for_end(start, size)
      /\ has_unused_bits(start, size)' = has_unused_bits(start, size) /\ r' = r
  BY TypeKept DEF size, Needed, EndForEnd
<1>2. /\ m_blocks \in Storage(Needed) /\ start \in Storage(Needed) /\ Needed \in Nat
      /\ num_bits(m_blocks) = num_bits(start)
  BY Bounds, Shape DEF TypeInv
<1>3. turn_by = r /\ after_turn = "done"
  BY <1>2 DEF turn_by, gap, after_turn
<1>4. end_for_end(start, size) = IF has_unused_bits(start, size)
                                 THEN blocks_rotated_down(EndForEnd, r)
                                 ELSE EndForEnd
  BY DEF end_for_end, EndForEnd
<1>5. EndForEnd \in Storage(Needed)
  BY <1>2, Shape, BlockOperators DEF EndForEnd, Storage
<1> HIDE DEF r
<1>6. ReverseStage
  BY DEF Stage
<1>7. CASE AtBegin
  <2>1. begin_reverse
    BY <1>7, NextByLabel
       DEF AtBegin, begin_shift_up, begin_shift_down, begin_rotate, begin_move
  <2>2. /\ m_blocks' = EndForEnd
        /\ pc' = IF has_unused_bits(start, size) THEN "begin_turn" ELSE "done"
    BY <1>7, <2>1 DEF AtBegin, begin_reverse, goto, EndForEnd, last
  <2> QED
    BY <1>1, <1>4, <2>2, Zenon DEF ReverseStage, Turning, r
<1>8. CASE has_unused_bits(start, size) /\ Turning(EndForEnd, num_bits(start) - size)
  <2>1. Turning(EndForEnd, r) /\ Needed # 0
    BY <1>8, TurningBlocks DEF Turning, r
  <2>2. \/ /\ pc' = "turn" /\ before' = EndForEnd /\ first' = EndForEnd[0] /\ i' \in 0 .. Needed - 1
           /\ \A l \in 0 .. Needed - 1 :
                 m_blocks'[l] = IF l < i' THEN blocks_rotated_down(EndForEnd, r)[l] ELSE EndForEnd[l]
        \/ pc' = after_turn /\ m_blocks' = blocks_rotated_down(EndForEnd, r)
    BY <1>3, <1>5, <2>1, TurnStep
  <2>3. CASE pc' = after_turn /\ m_blocks' = blocks_rotated_down(EndForEnd, r)
    BY <1>1, <1>3, <1>4, <1>8, <2>3 DEF ReverseStage
  <2>4. CASE /\ pc' = "turn" /\ before' = EndForEnd /\ first' = EndForEnd[0] /\ i' \in 0 .. Needed - 1
             /\ \A l \in 0 .. Needed - 1 :
                   m_blocks'[l] = IF l < i' THEN blocks_rotated_down(EndForEnd, r)[l]
                                            ELSE EndForEnd[l]
    <3>1. Turning(EndForEnd, r)'
      BY <1>1, <2>4 DEF Turning, Split
    <3> QED
      BY <1>1, <1>8, <3>1 DEF ReverseStage, r
  <2> QED
    BY <2>2, <2>3, <2>4
<1>9. pc # "done"
  BY NextByLabel
<1> QED
  BY <1>6, <1>7, <1>8, <1>9 DEF ReverseStage

(***************************************************************************)
(* The invariant.                                                          *)
(***************************************************************************)
\* Every call a caller may make finds the loop at its beginning.
LEMMA LoopInit ==
    ASSUME MCInit
    PROVE  LoopInv
<1> PICK n \in 0 .. Ceiling :
        /\ call \in Calls(n)
        /\ m_blocks \in {b \in Storage(blocks_for(n)) : TailClear(b, n)}
        /\ i = 0 /\ first = zero /\ before = m_blocks /\ pc = "begin"
  BY DEF MCInit, Init
<1>1. n \in Nat /\ start = m_blocks
  BY WholeWidth, MaxBlocksAssumption DEF Ceiling, MCInit
<1>2. size = n
  BY <1>1 DEF Calls, ShiftCalls, ReverseCalls, CopyCalls, size
<1>3. 0 \in 0 .. SizeMod - 1
  BY SizeModAssumption, MaxBlocksAssumption, BitsPerBlockAssumption
<1>4. TypeInv
  BY <1>1, <1>2, <1>3, BlockOperators DEF TypeInv, Needed
<1>5. AtBegin
  BY <1>1 DEF AtBegin
<1> QED
  BY <1>4, <1>5 DEF LoopInv, Stage, UpStage, DownStage, RotateStage, ReverseStage, CopyStage

\* And every step leaves it so far on its way.
LEMMA LoopStep ==
    ASSUME LoopInv, [MCNext]_<<vars, start>>
    PROVE  LoopInv'
<1>1. CASE UNCHANGED <<vars, start>> \/ (Done /\ UNCHANGED start)
  <2>1. UNCHANGED <<call, m_blocks, i, first, before, pc, start>>
    BY <1>1 DEF vars, Done
  <2> QED
    BY <2>1 DEF LoopInv, TypeInv, Stage, UpStage, DownStage, RotateStage, ReverseStage, CopyStage,
       AtBegin, Split, Up, Down, Turning, Moved, MovingUp, MovingDown, Blockwise, Turned, Closed,
       EndForEnd, Needed, size, n_blocks, up_shift, len, chunks, target, source, gap
<1>2. CASE Next /\ UNCHANGED start
  <2>1. TypeInv /\ Stage
    BY DEF LoopInv
  <2>2. TypeInv' /\ call' = call
    BY <1>2, <2>1, TypeKept
  <2>3. Stage'
    BY <1>2, <2>1, <2>2, UpStep, DownStep, RotateStep, ReverseStep, CopyStep, Zenon DEF Stage
  <2> QED
    BY <2>2, <2>3 DEF LoopInv
<1> QED
  BY <1>1, <1>2 DEF MCNext

\* In every run of every call, the blocks are on one side of the index those of
\* the function of its name, and on the other those it found.
THEOREM LoopInvariant == MCSpec => []LoopInv
<1>1. MCInit => LoopInv
  BY LoopInit
<1>2. LoopInv /\ [MCNext]_<<vars, start>> => LoopInv'
  BY LoopStep
<1> QED
  BY <1>1, <1>2, PTL DEF MCSpec

(***************************************************************************)
(* What follows: the three properties of a loop.                           *)
(***************************************************************************)
\* A position of blocks j to k is in one of them.
LEMMA BlocksFromIndex ==
    ASSUME NEW j \in Nat, NEW k \in Nat, NEW p \in BlocksFrom(j, k)
    PROVE  p \in Nat /\ index(p) \in j .. k
<1>1. /\ j * bits_per_block \in Nat /\ k * bits_per_block \in Nat
      /\ j * bits_per_block <= p /\ p <= (k * bits_per_block) + (bits_per_block - 1)
      /\ p \in Nat
  BY WholeWidth, BitsPerBlockAssumption DEF BlocksFrom, left_bit
<1>2. index(p) \in Nat /\ offset(p) \in Offset /\ p = (index(p) * bits_per_block) + offset(p)
  BY <1>1, IndexOffset
<1>3. ~(index(p) < j)
  BY <1>1, <1>2, BlockBelow
<1>4. ~(k < index(p))
  <2>1. ASSUME k < index(p) PROVE FALSE
    <3>1. /\ left_bit \in Offset /\ left_bit = bits_per_block - 1
      BY BitsPerBlockAssumption DEF left_bit, Offset
    <3>2. (k * bits_per_block) + left_bit < index(p) * bits_per_block
      BY <1>2, <2>1, <3>1, BlockBelow
    <3>3. index(p) * bits_per_block \in Nat
      BY <1>2, WholeWidth
    <3> QED
      BY <1>1, <1>2, <3>1, <3>2, <3>3 DEF Offset
  <2> QED
    BY <2>1
<1> QED
  BY <1>1, <1>2, <1>3, <1>4

\* Two storages that hold the same position or neither have the same bit there.
LEMMA SameBit ==
    ASSUME NEW k \in Nat, NEW b \in Storage(k), NEW c \in Storage(k), NEW p \in Span(k),
           p \in Positions(b) <=> p \in Positions(c)
    PROVE  BitAt(b, p) = BitAt(c, p)
<1>1. BitAt(b, p) <=> BitAt(c, p)
  BY PositionWrittenPositions
<1> QED
  BY <1>1 DEF BitAt

\* The positions of the chunks above are not in the target.
LEMMA MovingIntact ==
    ASSUME TypeInv, call.op \in {"rotate", "copy", "copy_backward"}, before \in Storage(Needed),
           NEW lo \in Nat, NEW hi \in Nat, Positions(m_blocks) = Moved(before, lo, hi),
           NEW p \in Int, source <= p, p < source + len, p < target + lo \/ target + hi <= p
    PROVE  BitAt(m_blocks, p) = BitAt(before, p)
<1> DEFINE extent == Needed * bits_per_block
<1>1. /\ source \in Nat /\ target \in Nat /\ len \in Nat /\ source + len <= extent /\ extent \in Nat
      /\ Needed \in Nat /\ m_blocks \in Storage(Needed)
  BY MovingBounds, Bounds DEF TypeInv
<1>2. p \in Span(Needed)
  BY <1>1 DEF Span
<1>3. ~(target + lo <= p /\ p < target + hi)
  BY <1>1
<1>4. p \in Positions(m_blocks) <=> p \in Positions(before)
  BY <1>2, <1>3 DEF Moved
<1> QED
  BY <1>1, <1>2, <1>4, SameBit

\* The label in the middle of a loop tells whose loop it is.
LEMMA StageByLabel ==
    ASSUME TypeInv, Stage
    PROVE  /\ pc = "shift_up" => call.op = "shift_up"
           /\ pc = "shift_down" => call.op = "shift_down"
           /\ pc = "turn" => call.op \in {"rotate", "reverse"}
           /\ pc = "move_up" => call.op \in {"rotate", "copy"}
           /\ pc = "move_down" => call.op = "copy_backward"
BY CallFields DEF Stage, AtBegin, UpStage, DownStage, RotateStage, ReverseStage, CopyStage, Turning

\* The index is on the side of the blocks still to be read.
LEMMA IntactInv ==
    ASSUME LoopInv
    PROVE  SourceIntact
<1>1. /\ TypeInv /\ Stage /\ m_blocks \in Storage(Needed) /\ Needed \in Nat /\ last = Needed - 1
  BY Bounds, Shape DEF LoopInv, TypeInv, last
<1>2. CASE pc = "shift_up"
  <2>1. /\ before = start /\ i \in n_blocks .. Needed - 1 /\ Split(i + 1, start, Up)
    BY <1>1, <1>2, StageByLabel DEF Stage, UpStage, AtBegin
  <2>2. n_blocks \in 0 .. Needed - 1
    BY <1>1, <1>2, StageByLabel, ShiftBounds
  <2>3. ASSUME NEW p \in BlocksFrom(0, i - n_blocks)
        PROVE  BitAt(m_blocks, p) = BitAt(before, p)
    <3>1. index(p) \in 0 .. i - n_blocks
      BY <2>1, <2>2, BlocksFromIndex
    <3>2. m_blocks[index(p)] = before[index(p)]
      BY <1>1, <2>1, <2>2, <3>1 DEF Split
    <3> QED
      BY <3>2 DEF BitAt
  <2> QED
    BY <1>2, <2>3 DEF SourceIntact, StillToRead
<1>3. CASE pc = "shift_down"
  <2>1. /\ before = start /\ i \in 0 .. Needed - 1 - n_blocks /\ Split(i, Down, start)
    BY <1>1, <1>3, StageByLabel DEF Stage, DownStage, AtBegin
  <2>2. n_blocks \in 0 .. Needed - 1
    BY <1>1, <1>3, StageByLabel, ShiftBounds
  <2>3. ASSUME NEW p \in BlocksFrom(i + n_blocks, last)
        PROVE  BitAt(m_blocks, p) = BitAt(before, p)
    <3>1. index(p) \in i + n_blocks .. last
      BY <1>1, <2>1, <2>2, BlocksFromIndex
    <3>2. m_blocks[index(p)] = before[index(p)]
      BY <1>1, <2>1, <2>2, <3>1 DEF Split
    <3> QED
      BY <3>2 DEF BitAt
  <2> QED
    BY <1>3, <2>3 DEF SourceIntact, StillToRead
<1>4. CASE pc = "turn"
  <2>1. /\ first = before[0] /\ i \in 0 .. Needed - 1
        /\ \E t : Split(i, t, before)
    <3>1. CASE call.op = "rotate"
      BY <1>1, <1>4, <3>1 DEF Stage, RotateStage, AtBegin, Turning
    <3>2. CASE call.op = "reverse"
      BY <1>1, <1>4, <3>2 DEF Stage, ReverseStage, AtBegin, Turning
    <3> QED
      BY <1>1, <1>4, <3>1, <3>2, StageByLabel
  <2>2. ASSUME NEW p \in BlocksFrom(i, last)
        PROVE  BitAt(m_blocks, p) = BitAt(before, p)
    <3>1. index(p) \in i .. last
      BY <1>1, <2>1, BlocksFromIndex
    <3>2. m_blocks[index(p)] = before[index(p)]
      BY <1>1, <2>1, <3>1 DEF Split
    <3> QED
      BY <3>2 DEF BitAt
  <2> QED
    BY <1>4, <2>1, <2>2 DEF SourceIntact, StillToRead
<1>5. CASE pc = "move_up"
  <2>1. /\ call.op \in {"rotate", "copy"} /\ MovingUp /\ before \in Storage(Needed)
    <3>1. CASE call.op = "rotate"
      BY <1>1, <1>5, <3>1, RotatePasses DEF Stage, RotateStage, AtBegin, Turning
    <3>2. CASE call.op = "copy"
      BY <1>1, <1>5, <3>2 DEF Stage, CopyStage, AtBegin, TypeInv
    <3> QED
      BY <1>1, <1>5, <3>1, <3>2, StageByLabel
  <2>2. ASSUME NEW p \in source + i .. source + len - 1
        PROVE  BitAt(m_blocks, p) = BitAt(before, p)
    <3>1. /\ source \in Nat /\ target \in Nat /\ len \in Nat /\ i \in Nat
          /\ target <= source \/ source + len <= target
      BY <1>1, <2>1, MovingBounds DEF TypeInv
    <3>2. /\ i < len /\ source <= p /\ p < source + len /\ p \in Int
          /\ p < target + 0 \/ target + i <= p
      BY <3>1
    <3>3. Positions(m_blocks) = Moved(before, 0, i)
      BY <2>1, <3>2 DEF MovingUp
    <3> QED
      BY <1>1, <2>1, <3>1, <3>2, <3>3, MovingIntact
  <2> QED
    BY <1>5, <2>2 DEF SourceIntact, StillToRead
<1>6. CASE pc = "move_down" /\ i < chunks
  <2>1. /\ call.op = "copy_backward" /\ MovingDown /\ before \in Storage(Needed)
    BY <1>1, <1>6, StageByLabel DEF Stage, CopyStage, AtBegin, TypeInv
  <2> DEFINE k == i * bits_per_block
  <2>2. /\ k \in Nat /\ k < len /\ (i + 1) * bits_per_block = k + bits_per_block
        /\ k + bits_per_block \in Nat
    <3>1. i \in 0 .. chunks - 1
      BY <1>1, <1>6, <2>1, Chunks DEF TypeInv
    <3> QED
      BY <1>1, <2>1, <3>1, Chunks, BitsPerBlockAssumption
  <2> HIDE DEF k
  <2>3. ASSUME NEW p \in source .. source + k + count_at(k) - 1
        PROVE  BitAt(m_blocks, p) = BitAt(before, p)
    <3>1. /\ source \in Nat /\ target \in Nat /\ len \in Nat
          /\ source <= target \/ target + len <= source
      BY <1>1, <2>1, MovingBounds
    <3>2. /\ source <= p /\ p < source + len /\ p \in Int
          /\ p < target + (k + bits_per_block) \/ target + len <= p
      BY <2>2, <3>1, BitsPerBlockAssumption DEF count_at
    <3>3. Positions(m_blocks) = Moved(before, k + bits_per_block, len)
      BY <1>6, <2>1, <2>2 DEF MovingDown
    <3> QED
      BY <1>1, <2>1, <2>2, <3>1, <3>2, <3>3, MovingIntact
  <2> QED
    BY <1>6, <2>3 DEF SourceIntact, StillToRead, k
<1>7. CASE pc \notin {"shift_up", "shift_down", "turn", "move_up"} /\ ~(pc = "move_down" /\ i < chunks)
  BY <1>7 DEF SourceIntact, StillToRead
<1> QED
  BY <1>2, <1>3, <1>4, <1>5, <1>6, <1>7

\* A position of what the call found is set below the width only.
LEMMA WasPositions ==
    ASSUME TypeInv, NEW p \in Int
    PROVE  Was(p) <=> p \in Positions(start)
<1>1. /\ start \in Storage(Needed) /\ TailClear(start, size) /\ size \in Nat /\ Needed \in Nat
      /\ size <= Needed * bits_per_block /\ Needed * bits_per_block \in Nat
  BY Bounds, CallFields DEF TypeInv
<1>2. Positions(start) \subseteq 0 .. size - 1
  BY <1>1, ClearBelow
<1>3. p \in 0 .. size - 1 => p \in Span(Needed)
  BY <1>1 DEF Span
<1>4. p \in Span(Needed) => (BitAt(start, p) <=> p \in Positions(start))
  BY <1>1, PositionWrittenPositions
<1> QED
  BY <1>2, <1>3, <1>4 DEF Was

\* What a loop that ends has left, as positions of what the call found.
LEMMA Left ==
    ASSUME LoopInv, pc = "done"
    PROVE  /\ \A p \in Positions(m_blocks) : p < size
           /\ \A p \in 0 .. size - 1 : p \in Positions(m_blocks) <=> Wanted(p)
           /\ \A p \in 0 .. size - 1 : Wanted(p) \in BOOLEAN
<1> DEFINE S == Positions(start)
           extent == Needed * bits_per_block
           w == size
<1>1. /\ TypeInv /\ Stage /\ start \in Storage(Needed) /\ Needed \in Nat
      /\ TailClear(start, w) /\ w \in Nat /\ extent \in Nat /\ w <= extent /\ call.n \in 0 .. w
      /\ call.pos \in Nat /\ call.from \in Nat
  BY Bounds, CallFields DEF LoopInv, TypeInv
<1>2. \A p : p \in Span(Needed) <=> p \in Nat /\ p < extent
  BY <1>1 DEF Span
<1>3. \A p \in S : p \in Nat /\ p < w
  BY <1>1, ClearBelow
<1>4. \A p \in Int : Was(p) <=> p \in S
  BY <1>1, WasPositions
<1>5. \A p : Was(p) \in BOOLEAN
  BY DEF Was
<1>6. ~AtBegin
  BY DEF AtBegin
<1> HIDE DEF S, extent
<1>7. CASE call.op = "shift_up"
  <2>1. m_blocks = erase_unused(Up, w) /\ Up \in Storage(Needed)
    BY <1>1, <1>6, <1>7, UpBlocks DEF Stage, UpStage
  <2>2. Positions(m_blocks) = {p \in Positions(Up) : p < w}
    BY <1>1, <2>1, ErasedPositions DEF Needed
  <2>3. Positions(Up) = {p \in Span(Needed) : p - call.n \in S}
    BY <1>1, ShiftedUpPositions DEF Up, S
  <2>4. \A p : Wanted(p) = (p >= call.n /\ Was(p - call.n))
    BY <1>7 DEF Wanted
  <2> HIDE DEF w
  <2>5. ASSUME NEW p \in 0 .. w - 1
        PROVE  p \in Positions(m_blocks) <=> p >= call.n /\ Was(p - call.n)
    <3>1. p \in Span(Needed) /\ p < w /\ p - call.n \in Int
      BY <1>1, <1>2
    <3>2. p - call.n \in S => p >= call.n
      BY <1>1, <1>3
    <3> QED
      BY <1>4, <2>2, <2>3, <3>1, <3>2
  <2> QED
    BY <2>2, <2>4, <2>5 DEF w
<1>8. CASE call.op = "shift_down"
  <2>1. m_blocks = Down
    BY <1>1, <1>6, <1>8 DEF Stage, DownStage
  <2>2. Positions(m_blocks) = {p \in Span(Needed) : p + call.n \in S}
    BY <1>1, <2>1, ShiftedDownPositions DEF Down, S
  <2>3. \A p : Wanted(p) = Was(p + call.n)
    BY <1>8 DEF Wanted
  <2> HIDE DEF w
  <2>4. \A p \in 0 .. w - 1 : p \in Span(Needed) /\ p + call.n \in Int
    BY <1>1, <1>2
  <2>5. \A p \in Positions(m_blocks) : p < w
    BY <1>1, <1>2, <1>3, <2>2
  <2> QED
    BY <1>4, <1>5, <2>2, <2>3, <2>4, <2>5 DEF w
<1>9. CASE call.op = "rotate"
  <2>1. m_blocks = rotated(start, w, call.n)
    BY <1>1, <1>6, <1>9 DEF Stage, RotateStage, Turning
  <2>2. Positions(m_blocks) = {p \in 0 .. w - 1 : (p + call.n) % w \in S}
    BY <1>1, <2>1, RotatedPositions DEF Needed, S
  <2>3. \A p : Wanted(p) = Was((p + call.n) % w)
    BY <1>9 DEF Wanted
  <2> HIDE DEF w
  <2>4. \A p \in 0 .. w - 1 : (p + call.n) % w \in Int
    BY <1>1
  <2> QED
    BY <1>1, <1>4, <1>5, <2>2, <2>3, <2>4 DEF w
<1>10. CASE call.op = "reverse"
  <2>1. m_blocks = end_for_end(start, w)
    BY <1>1, <1>6, <1>10 DEF Stage, ReverseStage, Turning
  <2>2. Positions(m_blocks) = {p \in 0 .. w - 1 : w - 1 - p \in S}
    BY <1>1, <2>1, EndForEndPositions DEF Needed, S
  <2>3. \A p : Wanted(p) = Was(w - 1 - p)
    BY <1>10 DEF Wanted
  <2> HIDE DEF w
  <2>4. \A p \in 0 .. w - 1 : w - 1 - p \in Int
    BY <1>1
  <2> QED
    BY <1>1, <1>4, <1>5, <2>2, <2>3, <2>4 DEF w
<1>11. CASE call.op \in {"copy", "copy_backward"}
  <2>1. Positions(m_blocks) = Moved(start, 0, len)
    BY <1>1, <1>6, <1>11 DEF Stage, CopyStage
  <2>2. target = call.pos /\ source = call.from /\ len = call.n /\ call.pos + call.n <= w
    BY <1>1, <1>11, CallFields DEF target, source, len
  <2>3. Positions(m_blocks) = {p \in Span(Needed) : IF call.pos + 0 <= p /\ p < call.pos + call.n
                                                    THEN p + (call.from - call.pos) \in S
                                                    ELSE p \in S}
    BY <2>1, <2>2 DEF Moved, S
  <2>4. \A p : Wanted(p) = IF call.pos <= p /\ p < call.pos + call.n
                           THEN Was(call.from + p - call.pos)
                           ELSE Was(p)
    BY <1>11 DEF Wanted
  <2> HIDE DEF w
  <2>5. ASSUME NEW p \in 0 .. w - 1
        PROVE  /\ p \in Span(Needed) /\ call.pos + 0 = call.pos
               /\ p + (call.from - call.pos) = call.from + p - call.pos
               /\ call.from + p - call.pos \in Int
    BY <1>1, <1>2
  <2>6. \A p \in Positions(m_blocks) : p < w
    BY <1>1, <1>2, <1>3, <2>2, <2>3
  <2>7. ASSUME NEW p \in 0 .. w - 1
        PROVE  (p \in Positions(m_blocks) <=> Wanted(p)) /\ Wanted(p) \in BOOLEAN
    BY <1>4, <1>5, <2>3, <2>4, <2>5, <2>7
  <2> QED
    BY <2>6, <2>7 DEF w
<1> QED
  BY <1>1, <1>7, <1>8, <1>9, <1>10, <1>11, CallFields

\* Booleans are equal when they imply each other.
LEMMA SameBoolean ==
    ASSUME NEW x \in BOOLEAN, NEW y \in BOOLEAN, x <=> y
    PROVE  x = y
OBVIOUS

\* The end of a loop is the end of what the call is to do.
LEMMA MovesInv ==
    ASSUME LoopInv
    PROVE  MovesExactly
<1> SUFFICES ASSUME pc = "done"
             PROVE  /\ num_blocks(m_blocks) = blocks_for(size)
                    /\ TailClear(m_blocks, size)
                    /\ \A p \in 0 .. size - 1 : BitAt(m_blocks, p) = Wanted(p)
  BY DEF MovesExactly
<1>1. /\ m_blocks \in Storage(Needed) /\ Needed \in Nat /\ size \in Nat
      /\ size <= Needed * bits_per_block /\ Needed * bits_per_block \in Nat
      /\ num_blocks(m_blocks) = Needed
  BY Bounds, CallFields, Shape DEF LoopInv, TypeInv
<1>2. TailClear(m_blocks, size)
  BY <1>1, Left, ClearPositions
<1>3. ASSUME NEW p \in 0 .. size - 1
      PROVE  BitAt(m_blocks, p) = Wanted(p)
  <2>1. p \in Span(Needed)
    BY <1>1 DEF Span
  <2>2. BitAt(m_blocks, p) <=> Wanted(p)
    BY <1>1, <2>1, Left, PositionWrittenPositions
  <2>3. BitAt(m_blocks, p) \in BOOLEAN /\ Wanted(p) \in BOOLEAN
    BY Left DEF BitAt
  <2> QED
    BY <2>2, <2>3, SameBoolean
<1> QED
  BY <1>1, <1>2, <1>3 DEF Needed

\* What the index, the blocks and the saved block are is part of the invariant.
LEMMA TypeOfInv ==
    ASSUME LoopInv
    PROVE  TypeOK
<1>1. /\ TypeInv /\ m_blocks \in Storage(Needed) /\ Needed \in 0 .. MaxBlocks
      /\ num_blocks(m_blocks) = Needed
  BY Bounds, Shape DEF LoopInv, TypeInv
<1> QED
  BY <1>1 DEF TypeInv, TypeOK

(***************************************************************************)
(* The theorems.                                                           *)
(***************************************************************************)
\* Whatever the block width, the storage and the call, the loops keep to blocks
\* the width needs, and their index to the words of std::size_t.
THEOREM LoopsTyped == MCSpec => []TypeOK
<1>1. LoopInv => TypeOK
  BY TypeOfInv
<1> QED
  BY <1>1, LoopInvariant, PTL

\* In the middle of operator<<=, operator>>=, rotate, reverse, copy and
\* copy_backward, no position still to be read has been written over, and the
\* block a rotation saved is the first it found.
THEOREM NothingReadIsOverwritten == MCSpec => []SourceIntact
<1>1. LoopInv => SourceIntact
  BY IntactInv
<1> QED
  BY <1>1, LoopInvariant, PTL

\* A loop that ends has moved every position below the width to where the call
\* says, left every other, and set none at or above it.
THEOREM LoopsMoveExactly == MCSpec => []MovesExactly
<1>1. LoopInv => MovesExactly
  BY MovesInv
<1> QED
  BY <1>1, LoopInvariant, PTL

=============================================================================
