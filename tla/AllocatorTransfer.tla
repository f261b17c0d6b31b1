------------------------- MODULE AllocatorTransfer -------------------------
(***************************************************************************)
(* Copying, moving and swapping containers of a run-time width whose       *)
(* blocks have an allocator.  Whether the blocks can be taken, must be     *)
(* copied, and under which of two allocators, depends on the allocator's   *)
(* traits; where they are copied an allocation may be refused, and what is *)
(* then left of both containers depends on the order of the steps.         *)
(*                                                                         *)
(* A container is a record of its blocks, width, count, the blocks it has  *)
(* room for and its allocator; a transfer is the set of its outcomes.      *)
(***************************************************************************)
EXTENDS BlockStorage

\* Two allocators that compare unequal; allocators that are always equal are
\* one of them.
Allocator == {"ours", "theirs"}

\* On which calls the allocator comes over with the blocks.
Traits == [on_copy : BOOLEAN, on_move : BOOLEAN, on_swap : BOOLEAN]

Container(b, size, count, room, alloc) ==
    [blocks |-> b, size |-> size, count |-> count, room |-> room, alloc |-> alloc]

\* No container: its constructor threw.
nothing == [blocks |-> "none"]

Outcome(to, from, threw) == [to |-> to, from |-> from, threw |-> threw]

unequal(x, y) == x.alloc # y.alloc

cleared(c) == [c EXCEPT !.blocks = no_blocks]

\* What the blocks' own assignments leave of the container, and whether they
\* refused.
Held(c)    == [held |-> c, refused |-> FALSE]
Refused(c) == [held |-> c, refused |-> TRUE]

\* A copy of the blocks built under an allocator and moved or swapped in; no
\* blocks need no allocation.
built_in(c, b, alloc) ==
    {Held([c EXCEPT !.blocks = b, !.room = num_blocks(b), !.alloc = alloc])} \cup
    (IF num_blocks(b) = 0 THEN {} ELSE {Refused(c)})

\* Mutation: the blocks held are resized whether or not they have room.
assign_blocks_in_place(c, b) ==
    {Held([c EXCEPT !.blocks = b, !.room = Max({c.room, num_blocks(b)})])} \cup
    (IF num_blocks(b) <= c.room THEN {} ELSE {Refused([c EXCEPT !.blocks = no_blocks])})

\* Under the allocator held: in place where there is room, else built in full.
assign_blocks(c, b) ==
    IF num_blocks(b) <= c.room
    THEN {Held([c EXCEPT !.blocks = b])}
    ELSE built_in(c, b, c.alloc)

\* vector's own copy assignment where the allocator comes over: the storage
\* goes, and a copy is then allocated.
vector_copy_assigned(c, y) ==
    {Held([c EXCEPT !.blocks = y.blocks, !.room = num_blocks(y.blocks), !.alloc = y.alloc])} \cup
    (IF num_blocks(y.blocks) = 0 THEN {}
     ELSE {Refused([c EXCEPT !.room = r, !.alloc = a]) : r \in {0, c.room}, a \in {c.alloc, y.alloc}})

\* Mutation: a refusal leaves the width and the count of the blocks that went.
copy_blocks_basic(t, c, y) ==
    IF t.on_copy /\ unequal(c, y)
    THEN IF t.on_move \/ t.on_swap
         THEN built_in(c, y.blocks, y.alloc)
         ELSE {IF r.refused THEN Refused(cleared(r.held)) ELSE r : r \in vector_copy_assigned(c, y)}
    ELSE assign_blocks(c, y.blocks)

\* An allocator that propagates and differs comes over with the copy; where
\* it can be neither moved nor swapped in, a refusal leaves the container
\* empty.
copy_blocks(t, c, y) ==
    IF t.on_copy /\ unequal(c, y)
    THEN IF t.on_move \/ t.on_swap
         THEN built_in(c, y.blocks, y.alloc)
         ELSE {IF r.refused
               THEN Refused([cleared(r.held) EXCEPT !.size = 0, !.count = 0])
               ELSE r : r \in vector_copy_assigned(c, y)}
    ELSE assign_blocks(c, y.blocks)

\* Mutation: the width is assigned before the blocks.
copied_width_first(t, x, y) ==
    {IF r.refused
     THEN Outcome([r.held EXCEPT !.size = y.size], y, TRUE)
     ELSE Outcome([r.held EXCEPT !.size = y.size, !.count = y.count], y, FALSE) :
        r \in copy_blocks(t, x, y)}

\* operator=(const&): the blocks, then the width and the count.
copied(t, x, y) ==
    {IF r.refused
     THEN Outcome(r.held, y, TRUE)
     ELSE Outcome([r.held EXCEPT !.size = y.size, !.count = y.count], y, FALSE) :
        r \in copy_blocks(t, x, y)}

\* vector's own move assignment takes the storage, or, where the allocators
\* differ and stay, copies what it holds, and may have let its own go first.
vector_moved(t, c, y) ==
    IF t.on_move \/ ~unequal(c, y)
    THEN {Held([c EXCEPT !.blocks = y.blocks, !.room = y.room, !.alloc = y.alloc])}
    ELSE {Held([c EXCEPT !.blocks = y.blocks, !.room = Max({@, num_blocks(y.blocks)})])} \cup
         (IF num_blocks(y.blocks) <= c.room THEN {} ELSE {Refused(c), Refused(cleared(c))})

\* The source, cleared once its blocks have been taken or copied.
gone(y, taken) ==
    [y EXCEPT !.blocks = no_blocks, !.size = 0, !.count = 0, !.room = IF taken THEN 0 ELSE @]

\* Mutation: left to vector whatever the allocators.
move_blocks_taken(t, c, y) == vector_moved(t, c, y)

\* Taken, unless the allocators differ and the one held stays.
move_blocks(t, c, y) ==
    IF ~t.on_move /\ unequal(c, y)
    THEN assign_blocks(c, y.blocks)
    ELSE vector_moved(t, c, y)

\* operator=(&&): the source is emptied only once its blocks have come over.
moved(t, x, y) ==
    {IF r.refused
     THEN Outcome(r.held, y, TRUE)
     ELSE Outcome([r.held EXCEPT !.size = y.size, !.count = y.count],
                  gone(y, t.on_move \/ ~unequal(x, y)), FALSE) :
        r \in move_blocks(t, x, y)}

(***************************************************************************)
(* The allocator-extended constructors.                                    *)
(***************************************************************************)
copied_under(y, alloc) ==
    LET empty == Container(no_blocks, 0, 0, 0, alloc)
    IN  {IF r.refused
         THEN Outcome(nothing, y, TRUE)
         ELSE Outcome([r.held EXCEPT !.size = y.size, !.count = y.count], y, FALSE) :
            r \in built_in(empty, y.blocks, alloc)}

\* Copied into an unequal allocator, else taken; c is default constructed.
take_blocks(t, c, y) ==
    IF unequal(c, y)
    THEN built_in(c, y.blocks, c.alloc)
    ELSE vector_moved(t, c, y)

\* The source's width has gone to the new container before its blocks follow,
\* and take_blocks may throw between the two.
moved_under(t, y, alloc) ==
    LET narrowed == [y EXCEPT !.size = 0]
    IN  {IF r.refused
         THEN Outcome(nothing, narrowed, TRUE)
         ELSE Outcome([r.held EXCEPT !.size = y.size, !.count = y.count],
                      gone(y, r.held.alloc = y.alloc), FALSE) :
            r \in take_blocks(t, Container(no_blocks, 0, 0, 0, alloc), y)}

\* Blocks adopted under an allocator: the width is all of theirs, and the bits
\* are counted.
adopted_under(t, y, alloc) ==
    {IF r.refused
     THEN Outcome(nothing, y, TRUE)
     ELSE Outcome([r.held EXCEPT !.size = num_bits(y.blocks), !.count = count_blocks(y.blocks)], y, FALSE) :
        r \in take_blocks(t, Container(no_blocks, 0, 0, 0, alloc), y)}

\* swap, for allocators that are equal or come over: a precondition.
swapped(t, x, y) ==
    LET held(mine, other) == [other EXCEPT !.alloc = IF t.on_swap THEN other.alloc ELSE mine.alloc]
    IN  {Outcome(held(x, y), held(y, x), FALSE)}

=============================================================================
