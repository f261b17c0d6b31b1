---------------------------- MODULE InPlaceLoops ----------------------------
(***************************************************************************)
(* The loops that move bits within one storage, a block at a time.  Each   *)
(* reads what it has not yet written, and is right only for the order it   *)
(* goes in: BlockStorage and BitBlockContainer state what a call leaves,   *)
(* and this module runs the loop, one iteration a step.                    *)
(*                                                                         *)
(* call is the operation and what it was given, fixed while it runs; i is  *)
(* the loop's index and first the block a rotation saves, both as the      *)
(* source names them; pc is where the code is.  before is a history: the   *)
(* blocks as the running loop found them.                                  *)
(***************************************************************************)
EXTENDS BlockStorage

CONSTANTS
    MaxBlocks,   \* the most blocks of a storage
    SizeMod      \* 2^w of std::size_t, whose arithmetic wraps round

ASSUME MaxBlocksAssumption == MaxBlocks \in Nat

ASSUME SizeModAssumption ==
    SizeMod \in Nat /\ SizeMod > 2 * (MaxBlocks + 1) * bits_per_block

VARIABLES call, m_blocks, i, first, before, pc

vars == <<call, m_blocks, i, first, before, pc>>

\* Mutations: a difference that goes below zero; and one that stops there.
minus_signed(x, y) == x - y

minus_saturating(x, y) == IF x < y THEN 0 ELSE x - y

minus(x, y) == (x - y) % SizeMod

size == call.size

last == last_block(m_blocks)

goto(label) == pc' = label

\* The block written by an iteration, its index and block.
assign(at, b) == m_blocks' = [m_blocks EXCEPT ![at] = b]

(***************************************************************************)
(* operator<<=, from the top block down.  The index that would go below    *)
(* n_blocks + 1 wraps round, and is then not below the count.              *)
(***************************************************************************)
n_blocks == call.n \div bits_per_block
up_shift == call.n % bits_per_block

blocks_shifted_right(b, k) == [j \in DOMAIN b |-> IF j < k THEN b[j] ELSE b[j - k]]

begin_shift_up ==
    /\ pc = "begin" /\ call.op = "shift_up"
    /\ IF up_shift = 0
       THEN m_blocks' = blocks_shifted_right(m_blocks, n_blocks) /\ goto("fill_low") /\ UNCHANGED i
       ELSE i' = last /\ goto("shift_up") /\ UNCHANGED m_blocks
    /\ UNCHANGED <<call, first, before>>

lower_read == minus(minus(i, n_blocks), 1)

shift_up_continues == lower_read < last - n_blocks

shift_up_block ==
    /\ pc = "shift_up" /\ shift_up_continues
    /\ assign(i, straddled_block(m_blocks, lower_read, up_shift, bits_per_block - up_shift))
    /\ i' = minus(i, 1)
    /\ UNCHANGED <<call, first, before, pc>>

shift_up_lowest ==
    /\ pc = "shift_up" /\ ~shift_up_continues
    /\ assign(n_blocks, shl(m_blocks[0], up_shift))
    /\ goto("fill_low")
    /\ UNCHANGED <<call, i, first, before>>

fill_low ==
    /\ pc = "fill_low"
    /\ m_blocks' = [j \in DOMAIN m_blocks |-> IF j < n_blocks THEN zero ELSE m_blocks[j]]
    /\ goto("mask_tail")
    /\ UNCHANGED <<call, i, first, before>>

mask_tail ==
    /\ pc = "mask_tail"
    /\ m_blocks' = erase_unused(m_blocks, size)
    /\ goto("done")
    /\ UNCHANGED <<call, i, first, before>>

(***************************************************************************)
(* operator>>=, from the bottom block up.                                  *)
(***************************************************************************)
blocks_shifted_left(b, k) ==
    [j \in DOMAIN b |-> IF j + k \in DOMAIN b THEN b[j + k] ELSE b[j]]

begin_shift_down ==
    /\ pc = "begin" /\ call.op = "shift_down"
    /\ IF up_shift = 0
       THEN m_blocks' = blocks_shifted_left(m_blocks, n_blocks) /\ goto("fill_high") /\ UNCHANGED i
       ELSE i' = 0 /\ goto("shift_down") /\ UNCHANGED m_blocks
    /\ UNCHANGED <<call, first, before>>

shift_down_block ==
    /\ pc = "shift_down" /\ i < last - n_blocks
    /\ assign(i, straddled_block(m_blocks, i + n_blocks, bits_per_block - up_shift, up_shift))
    /\ i' = i + 1
    /\ UNCHANGED <<call, first, before, pc>>

shift_down_highest ==
    /\ pc = "shift_down" /\ i = last - n_blocks
    /\ assign(last - n_blocks, shr(m_blocks[last], up_shift))
    /\ goto("fill_high")
    /\ UNCHANGED <<call, i, first, before>>

fill_high ==
    /\ pc = "fill_high"
    /\ m_blocks' = [j \in DOMAIN m_blocks |-> IF last - n_blocks < j THEN zero ELSE m_blocks[j]]
    /\ goto("done")
    /\ UNCHANGED <<call, i, first, before>>

(***************************************************************************)
(* rotate and reverse: whole blocks by the standard algorithms, then the   *)
(* bits within them by a turn that saves the first block, then, rotated,   *)
(* the positions that wrapped moved down across the unused tail.           *)
(***************************************************************************)
gap == num_bits(m_blocks) - size

turn_by == IF call.op = "rotate" THEN up_shift ELSE gap

after_turn == IF call.op = "rotate"
              THEN IF has_unused_bits(m_blocks, size) THEN "begin_move" ELSE "mask_tail"
              ELSE "done"

begin_rotate ==
    /\ pc = "begin" /\ call.op = "rotate"
    /\ IF call.n = 0
       THEN goto("done") /\ UNCHANGED m_blocks
       ELSE /\ m_blocks' = [j \in DOMAIN m_blocks |-> m_blocks[(j + n_blocks) % num_blocks(m_blocks)]]
            /\ goto(IF up_shift # 0 THEN "begin_turn" ELSE after_turn)
    /\ UNCHANGED <<call, i, first, before>>

begin_reverse ==
    /\ pc = "begin" /\ call.op = "reverse"
    /\ m_blocks' = [j \in DOMAIN m_blocks |-> reversed(m_blocks[last - j])]
    /\ goto(IF has_unused_bits(m_blocks, size) THEN "begin_turn" ELSE "done")
    /\ UNCHANGED <<call, i, first, before>>

begin_turn ==
    /\ pc = "begin_turn"
    /\ first' = m_blocks[0]
    /\ before' = m_blocks
    /\ i' = 0
    /\ goto("turn")
    /\ UNCHANGED <<call, m_blocks>>

turn_block ==
    /\ pc = "turn" /\ i < last
    /\ assign(i, straddled_block(m_blocks, i, bits_per_block - turn_by, turn_by))
    /\ i' = i + 1
    /\ UNCHANGED <<call, first, before, pc>>

\* Mutation: the first block is read after it was written.
turn_last_late ==
    /\ pc = "turn" /\ i = last
    /\ assign(last, shl(m_blocks[0], bits_per_block - turn_by) \cup shr(m_blocks[last], turn_by))
    /\ goto(after_turn)
    /\ UNCHANGED <<call, i, first, before>>

turn_last ==
    /\ pc = "turn" /\ i = last
    /\ assign(last, shl(first, bits_per_block - turn_by) \cup shr(m_blocks[last], turn_by))
    /\ goto(after_turn)
    /\ UNCHANGED <<call, i, first, before>>

(***************************************************************************)
(* Positions moved within the storage, a block at a time: close_padding    *)
(* and copy lowest first, and copy_backward from the top chunk, which its  *)
(* index counts down from.                                                 *)
(***************************************************************************)
target == IF call.op = "rotate" THEN size - call.n ELSE call.pos
source == IF call.op = "rotate" THEN size - call.n + gap ELSE call.from

len == call.n

chunks == (len + bits_per_block - 1) \div bits_per_block

\* The bits of the chunk that starts k positions in.
count_at(k) == IF bits_per_block < len - k THEN bits_per_block ELSE len - k

move(to, from, count) ==
    m_blocks' = written_at(m_blocks, to, block_at(m_blocks, from), partial_block_mask(count))

next_chunk(k) == k + bits_per_block

begin_move ==
    /\ \/ pc = "begin_move"
       \/ pc = "begin" /\ call.op \in {"copy", "copy_backward"}
    /\ before' = m_blocks
    /\ i' = IF call.op = "copy_backward" THEN minus(chunks, 1) ELSE 0
    /\ goto(IF call.op = "copy_backward" THEN "move_down" ELSE "move_up")
    /\ UNCHANGED <<call, m_blocks, first>>

move_up_chunk ==
    /\ pc = "move_up" /\ i < len
    /\ move(target + i, source + i, count_at(i))
    /\ i' = next_chunk(i)
    /\ UNCHANGED <<call, first, before, pc>>

move_up_end ==
    /\ pc = "move_up" /\ ~(i < len)
    /\ goto(IF call.op = "rotate" THEN "mask_tail" ELSE "done")
    /\ UNCHANGED <<call, m_blocks, i, first, before>>

\* Mutation: the lowest chunk first.
move_down_from_foot ==
    /\ pc = "move_down" /\ i < chunks
    /\ LET k == (chunks - 1 - i) * bits_per_block
       IN  move(target + k, source + k, count_at(k))
    /\ i' = minus(i, 1)
    /\ UNCHANGED <<call, first, before, pc>>

move_down_chunk ==
    /\ pc = "move_down" /\ i < chunks
    /\ LET k == i * bits_per_block
       IN  move(target + k, source + k, count_at(k))
    /\ i' = minus(i, 1)
    /\ UNCHANGED <<call, first, before, pc>>

move_down_end ==
    /\ pc = "move_down" /\ ~(i < chunks)
    /\ goto("done")
    /\ UNCHANGED <<call, m_blocks, i, first, before>>

(***************************************************************************)
(* Every call its callers may make.                                        *)
(***************************************************************************)
Ceiling == MaxBlocks * bits_per_block

\* A shift is by less than the width, and a rotation is reduced to less.
ShiftCalls(n) ==
    {[op |-> o, size |-> n, pos |-> 0, from |-> 0, n |-> k] :
        o \in {"shift_up", "shift_down", "rotate"}, k \in 0 .. n - 1}

ReverseCalls(n) == {[op |-> "reverse", size |-> n, pos |-> 0, from |-> 0, n |-> 0]}

\* std::copy's destination does not start within its source, above its first,
\* and std::copy_backward's does not end within it, below its last.
CopyCalls(n) ==
    {c \in {[op |-> o, size |-> n, pos |-> p, from |-> q, n |-> k] :
                o \in {"copy", "copy_backward"}, p, q, k \in 0 .. n} :
        /\ c.pos + c.n <= n /\ c.from + c.n <= n
        /\ c.op = "copy" => c.pos <= c.from \/ c.from + c.n <= c.pos
        /\ c.op = "copy_backward" => c.from <= c.pos \/ c.pos + c.n <= c.from}

Calls(n) == ShiftCalls(n) \cup ReverseCalls(n) \cup CopyCalls(n)

Init ==
    \E n \in 0 .. Ceiling :
        /\ call \in Calls(n)
        /\ m_blocks \in {b \in Storage(blocks_for(n)) : TailClear(b, n)}
        /\ i = 0
        /\ first = zero
        /\ before = m_blocks
        /\ pc = "begin"

Next ==
    \/ begin_shift_up \/ shift_up_block \/ shift_up_lowest \/ fill_low \/ mask_tail
    \/ begin_shift_down \/ shift_down_block \/ shift_down_highest \/ fill_high
    \/ begin_rotate \/ begin_reverse \/ begin_turn \/ turn_block \/ turn_last
    \/ begin_move \/ move_up_chunk \/ move_up_end
    \/ move_down_chunk \/ move_down_end

Done == pc = "done" /\ UNCHANGED vars

Spec == Init /\ [][Next \/ Done]_vars /\ WF_vars(Next)

=============================================================================
