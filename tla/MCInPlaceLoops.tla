-------------------------- MODULE MCInPlaceLoops ----------------------------
(***************************************************************************)
(* The loops of InPlaceLoops checked against what they are for, on every   *)
(* storage and every call that fits the bounds.                            *)
(***************************************************************************)
EXTENDS InPlaceLoops

VARIABLE start   \* the blocks the call found, a history

MCInit == Init /\ start = m_blocks

MCNext == (Next \/ Done) /\ UNCHANGED start

MCSpec == MCInit /\ [][MCNext]_<<vars, start>> /\ WF_vars(Next)

\* The blocks are as many as the width at hand needs.
TypeOK ==
    /\ call \in Calls(size)
    /\ m_blocks \in Storage(num_blocks(m_blocks))
    /\ num_blocks(m_blocks) \in 0 .. MaxBlocks
    /\ i \in 0 .. SizeMod - 1
    /\ first \in Block

(***************************************************************************)
(* What a call is to leave, position by position.                          *)
(***************************************************************************)
Was(p) == p \in 0 .. size - 1 /\ BitAt(start, p)

\* The bit position p of the result, p < size, is to hold.
Wanted(p) ==
    CASE call.op = "shift_up"   -> p >= call.n /\ Was(p - call.n)
      [] call.op = "shift_down" -> Was(p + call.n)
      [] call.op = "rotate"     -> Was((p + call.n) % size)
      [] call.op = "reverse"    -> Was(size - 1 - p)
      [] OTHER -> IF call.pos <= p /\ p < call.pos + call.n
                  THEN Was(call.from + p - call.pos)
                  ELSE Was(p)

\* A loop that ran to its end moved every position where the operation says,
\* left every other alone, and set nothing at or above the width.
MovesExactly ==
    pc = "done" =>
        /\ num_blocks(m_blocks) = blocks_for(size)
        /\ TailClear(m_blocks, size)
        /\ \A p \in 0 .. size - 1 : BitAt(m_blocks, p) = Wanted(p)

(***************************************************************************)
(* Why it does: no iteration writes over what a later one reads.           *)
(***************************************************************************)
BlocksFrom(j, k) == j * bits_per_block .. k * bits_per_block + left_bit

StillToRead ==
    CASE pc = "shift_up"     -> BlocksFrom(0, i - n_blocks)
      [] pc = "shift_down"   -> BlocksFrom(i + n_blocks, last)
      [] pc = "turn"         -> BlocksFrom(i, last)
      [] pc = "move_up"      -> source + i .. source + len - 1
      [] pc = "move_down" /\ i < chunks ->
             source .. source + i * bits_per_block + count_at(i * bits_per_block) - 1
      [] OTHER               -> {}

\* In the middle of every loop, each position it has still to read holds what
\* it held when the loop began.
SourceIntact ==
    /\ \A p \in StillToRead : BitAt(m_blocks, p) = BitAt(before, p)
    /\ pc = "turn" => first = before[0]

\* Every loop ends, those whose index counts down past zero and wraps round
\* among them.
Terminates == <>(pc = "done")

=============================================================================
