---------------------------- MODULE MCTransfers ----------------------------
(***************************************************************************)
(* The transfers between containers of unequal allocators: for blocks of   *)
(* every two widths, full of ones, under every traits, with more room than *)
(* the blocks need or none to spare, every allocation granted or refused.  *)
(* Which bits the blocks hold is no business of a transfer.                *)
(***************************************************************************)
EXTENDS MCPairs, AllocatorTransfer

\* The class invariant, of a container whose count is kept.
Sound(c) ==
    /\ num_blocks(c.blocks) = blocks_for(c.size)
    /\ num_blocks(c.blocks) <= c.room
    /\ TailClear(c.blocks, c.size)
    /\ c.count = count_blocks(c.blocks)

SameBits(c, d) == c.blocks = d.blocks /\ c.size = d.size /\ c.count = d.count

Empty(c) == c.blocks = no_blocks /\ Sound(c)

\* The containers over the blocks of one of the objects.
Over(o) ==
    {Container(m_blocks[o], m_size[o], Cardinality(Ones(o)), room, alloc) :
        room \in num_blocks(m_blocks[o]) .. MaxBlocks, alloc \in Allocator}

Full(o) == Ones(o) = 0 .. m_size[o] - 1

\* A copy that completes has the source's bits, a move has them in place of
\* an emptied source, a swap both; the allocator comes over where its trait
\* says so, and nowhere else.
CompletesExactly(t, x, y) ==
    /\ \A r \in copied(t, x, y) : ~r.threw =>
          /\ SameBits(r.to, y) /\ r.from = y
          /\ r.to.alloc = IF t.on_copy THEN y.alloc ELSE x.alloc
    /\ \A r \in moved(t, x, y) : ~r.threw =>
          /\ SameBits(r.to, y) /\ Empty(r.from) /\ r.from.alloc = y.alloc
          /\ r.to.alloc = IF t.on_move THEN y.alloc ELSE x.alloc
    /\ \A r \in copied_under(y, x.alloc) \cup moved_under(t, y, x.alloc) : ~r.threw =>
          /\ SameBits(r.to, y) /\ r.to.alloc = x.alloc
          /\ r.from = y \/ Empty(r.from)
    /\ \A r \in adopted_under(t, y, x.alloc) : ~r.threw =>
          r.to.blocks = y.blocks /\ r.to.size = num_bits(y.blocks)
    /\ t.on_swap \/ ~unequal(x, y) => \A r \in swapped(t, x, y) :
          /\ SameBits(r.to, y) /\ SameBits(r.from, x)
          /\ ~t.on_swap => r.to.alloc = x.alloc

\* An assignment that is refused leaves both containers as they were, but for
\* a copy whose allocator can be neither moved nor swapped in, which leaves
\* its target empty.
RefusedKeeps(t, x, y) ==
    \A r \in copied(t, x, y) \cup moved(t, x, y) : r.threw =>
        /\ r.from = y
        /\ r.to = x \/ (t.on_copy /\ ~t.on_move /\ ~t.on_swap /\ unequal(x, y) /\ Empty(r.to))

\* What need not allocate is not refused.
RefusedOnlyToAllocate(t, x, y) ==
    /\ (\E r \in moved(t, x, y) : r.threw) => ~t.on_move /\ unequal(x, y) /\ x.room < num_blocks(y.blocks)
    /\ (\E r \in copied(t, x, y) : r.threw) =>
          x.room < num_blocks(y.blocks) \/ (t.on_copy /\ unequal(x, y))
    /\ (\E r \in moved_under(t, y, x.alloc) : r.threw) => unequal(x, y)

\* Every transfer, under every traits of the allocators, completes with the
\* width, bits and count of one container in the other, or is refused with
\* both as they were.  What a refused move under another allocator leaves is
\* MovedFromTailClear's.
TransfersExact ==
    \A c, d \in Obj : c # d /\ Full(c) /\ Full(d) =>
        \A t \in Traits, x \in Over(c), y \in Over(d) :
            /\ CompletesExactly(t, x, y)
            /\ RefusedKeeps(t, x, y)
            /\ RefusedOnlyToAllocate(t, x, y)
            /\ \A r \in copied(t, x, y) \cup moved(t, x, y) \cup copied_under(y, x.alloc) :
                  Sound(r.from) /\ (r.to = nothing \/ Sound(r.to))

(***************************************************************************)
(* What doc/design.md says of every container: "the unused-tail invariant  *)
(* - every bit at or above size() reads zero".                             *)
(***************************************************************************)
\* A container another is move constructed from under an allocator of its own
\* holds no bit at or above its width, whether or not the construction throws.
MovedFromTailClear ==
    \A c, d \in Obj : c # d /\ Full(d) =>
        \A t \in Traits, y \in Over(d), alloc \in Allocator :
            \A r \in moved_under(t, y, alloc) : TailClear(r.from.blocks, r.from.size)

=============================================================================
