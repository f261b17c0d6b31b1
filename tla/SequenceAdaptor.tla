-------------------------- MODULE SequenceAdaptor ---------------------------
(***************************************************************************)
(* The sequence reading's modifiers over a range, step by step: a source   *)
(* read an element or a block at a time, storage that may refuse to grow,  *)
(* and what is undone when either fails half way.  A step is one call of   *)
(* the storage, an action of BitBlockContainer, or one element read.       *)
(*                                                                         *)
(* v is the sequence; tmp the one a rebuild makes aside; src, which may be *)
(* of any width, holds the elements of a range not v's own.  op is the     *)
(* call and what it was given; pc is where the code is; frame holds its    *)
(* locals; thrown is the exception on its way out.                         *)
(***************************************************************************)
EXTENDS BitBlockContainer, Widths

CONSTANTS v, tmp, src

ASSUME ContainersAssumption ==
    /\ Obj = {v, tmp, src} /\ v # tmp /\ v # src /\ tmp # src
    /\ Kind # "static" /\ ~Counted

ASSUME WordAssumption == SizeMod > 4 * (MaxBlocks + 1) * bits_per_block

VARIABLES op, pc, frame, thrown

control == <<op, pc, frame, thrown>>

(***************************************************************************)
(* The range being read: op's own, or, rebuilding, the head or the tail of *)
(* the sequence, windows of it.                                            *)
(*   "blit"      a sequence's bits, read as blocks                         *)
(*   "sized"     elements, as many as the range says                       *)
(*   "forward"   elements that can be counted without being read           *)
(*   "unsized"   elements that end where they end, read once               *)
(*   "pushed"    an iterator pair, pushed back one at a time               *)
(***************************************************************************)
Window(first, count) ==
    [tier |-> "blit", from |-> v, first |-> first, count |-> count, fails |-> count]

range ==
    CASE frame.stage = "head" -> Window(0, op.pos)
      [] frame.stage = "tail" -> Window(op.pos, m_size[v] - op.pos)
      [] OTHER                -> op.range

element == BitAt(m_blocks[range.from], range.first + frame.i)

rest == range.count % bits_per_block

to == frame.to

goto(label) == pc' = label /\ UNCHANGED thrown

\* Mutation: what a range with no size appended is not taken back.
handler_none == IF pc = "write_at" THEN "close_gap" ELSE "threw"

\* Where an exception goes: a sequence that cannot know how much it will
\* append resizes back, and one that opened a gap closes it.
handler ==
    CASE pc = "write_at" -> "close_gap"
      [] pc = "pack" /\ range.tier \in {"unsized", "forward"} -> "resize_back"
      [] OTHER -> "threw"

throws(e) == thrown' = e /\ pc' = handler

\* The storage was called and either answered or refused.
then(label) ==
    IF call'.outcome = "bad_alloc" THEN throws("bad_alloc") ELSE goto(label)

advance(n) == frame' = [frame EXCEPT !.i = @ + n]

(***************************************************************************)
(* append_range: blit and pack.                                            *)
(***************************************************************************)
\* Mutation: no room is made before the first block is appended.
append_range_at_once ==
    /\ pc = "append_range" /\ UNCHANGED <<vars, op>>
    /\ frame' = [frame EXCEPT !.width = m_size[to], !.i = 0, !.block = zero]
    /\ goto(CASE range.tier = "pushed" -> "push" [] range.tier = "blit" -> "blit" [] OTHER -> "pack")

\* Room for the width is made, and then handed back.
append_range ==
    /\ pc = "append_range" /\ UNCHANGED op
    /\ frame' = [frame EXCEPT !.width = m_size[to], !.i = 0, !.block = zero]
    /\ LET total == width_sum(m_size[to], range.count)
       IN  CASE range.tier = "pushed" -> goto("push") /\ UNCHANGED vars
             [] range.tier \in {"unsized", "forward"} -> goto("pack") /\ UNCHANGED vars
             [] range.tier \in {"blit", "sized"} ->
                    IF total > max_addressable_width
                    THEN throws("length_error") /\ UNCHANGED vars
                    ELSE resize(to, total, FALSE) /\ then("hand_back")

\* Mutation: the room is kept as positions.
hand_back_not ==
    /\ pc = "hand_back"
    /\ goto(IF range.tier = "blit" THEN "blit" ELSE "pack")
    /\ UNCHANGED <<vars, op, frame>>

hand_back ==
    /\ pc = "hand_back"
    /\ resize(to, frame.width, FALSE)
    /\ then(IF range.tier = "blit" THEN "blit" ELSE "pack")
    /\ UNCHANGED <<op, frame>>

blit ==
    /\ pc = "blit" /\ range.count - frame.i >= bits_per_block
    /\ append(to, block_at(m_blocks[range.from], range.first + frame.i))
    /\ advance(bits_per_block)
    /\ then("blit") /\ UNCHANGED op

\* The block is read before the width grows by the positions left.
blit_rest ==
    /\ pc = "blit" /\ range.count - frame.i < bits_per_block
    /\ UNCHANGED op
    /\ IF frame.i < range.count
       THEN /\ frame' = [frame EXCEPT
                   !.block = block_at(m_blocks[range.from], range.first + frame.i)]
            /\ resize(to, m_size[to] + rest, FALSE) /\ then("write_rest")
       ELSE goto("appended") /\ UNCHANGED <<vars, frame>>

\* Mutation: the positions left are rounded up to a block.
write_rest_whole ==
    /\ pc = "write_rest"
    /\ write(to, m_count[to], written_at(m_blocks[to], m_size[to] - rest, frame.block, ones))
    /\ call' = Returned("write_block_at", to, <<>>, NoResult)
    /\ goto("appended") /\ UNCHANGED <<op, frame>>

write_rest ==
    /\ pc = "write_rest"
    /\ write_block_at(to, m_size[to] - rest, frame.block, partial_block_mask(rest))
    /\ goto("appended") /\ UNCHANGED <<op, frame>>

\* Elements gathered into a block, appended when it is full.
pack ==
    /\ pc = "pack" /\ frame.i < range.count /\ frame.i # range.fails
    /\ LET bit  == {o \in {frame.i % bits_per_block} : element}
           full == (frame.i + 1) % bits_per_block = 0
       IN  /\ frame' = [frame EXCEPT !.i = @ + 1,
                            !.block = IF full THEN zero ELSE @ \cup bit]
           /\ IF full THEN append(to, frame.block \cup bit) /\ then("pack")
                      ELSE UNCHANGED vars /\ goto("pack")
    /\ UNCHANGED op

pack_rest ==
    /\ pc = "pack" /\ frame.i = range.count
    /\ IF rest # 0
       THEN resize(to, m_size[to] + rest, FALSE) /\ then("write_rest")
       ELSE UNCHANGED vars /\ goto("appended")
    /\ UNCHANGED <<op, frame>>

\* A C++17 iterator pair: no range, and so pushed back.
push ==
    /\ pc = "push" /\ UNCHANGED op
    /\ IF frame.i < range.count
       THEN /\ frame.i # range.fails
            /\ push_back(to, element) /\ advance(1) /\ then("push")
       ELSE goto("appended") /\ UNCHANGED <<vars, frame>>

\* Reading an element may throw, in every loop that reads one.
read_throws ==
    /\ pc \in {"pack", "push", "write_at"}
    /\ frame.i < range.count /\ frame.i = range.fails
    /\ throws("source")
    /\ frame' = [frame EXCEPT !.i = 0]
    /\ UNCHANGED <<vars, op>>

resize_back ==
    /\ pc = "resize_back"
    /\ resize(to, frame.width, FALSE)
    /\ goto("threw") /\ UNCHANGED <<op, frame>>

(***************************************************************************)
(* The rebuild: head, middle and tail appended aside, and moved in.        *)
(***************************************************************************)
rebuild ==
    /\ pc = "rebuild"
    /\ frame' = [frame EXCEPT !.to = tmp, !.stage = "head"]
    /\ goto("append_range") /\ UNCHANGED <<vars, op>>

append_returns ==
    /\ pc = "appended"
    /\ UNCHANGED <<vars, op>>
    /\ CASE frame.stage = "head"   -> frame' = [frame EXCEPT !.stage = "middle"] /\ goto("append_range")
         [] frame.stage = "middle" -> frame' = [frame EXCEPT !.stage = "tail"] /\ goto("append_range")
         [] frame.stage = "tail"   -> UNCHANGED frame /\ goto("move_in")
         [] frame.stage = "only"   -> UNCHANGED frame /\ goto("done")

move_in ==
    /\ pc = "move_in"
    /\ move_assign(v, tmp)
    /\ goto("done") /\ UNCHANGED <<op, frame>>

(***************************************************************************)
(* The shift: a gap opened, the tail moved up from its top, and filled.    *)
(***************************************************************************)
open_gap ==
    /\ pc = "open_gap" /\ UNCHANGED op
    /\ frame' = [frame EXCEPT !.width = m_size[v], !.i = 0]
    /\ LET total == width_sum(m_size[v], op.range.count)
       IN  IF total > max_addressable_width
           THEN throws("length_error") /\ UNCHANGED vars
           ELSE resize(v, total, FALSE) /\ then("shift_up")

tail_length == frame.width - op.pos

\* Mutation: the tail is moved from its foot.
shift_tail_from_foot ==
    /\ pc = "shift_up" /\ frame.i < tail_length
    /\ LET count == Min({bits_per_block, tail_length - frame.i})
           from  == op.pos + frame.i
       IN  write_block_at(v, from + op.range.count, block_at(m_blocks[v], from),
                          partial_block_mask(count))
    /\ advance(bits_per_block)
    /\ goto("shift_up") /\ UNCHANGED op

shift_tail ==
    /\ pc = "shift_up" /\ frame.i < tail_length
    /\ LET count == Min({bits_per_block, tail_length - frame.i})
           from  == op.pos + tail_length - frame.i - count
       IN  write_block_at(v, from + op.range.count, block_at(m_blocks[v], from),
                          partial_block_mask(count))
    /\ advance(bits_per_block)
    /\ goto("shift_up") /\ UNCHANGED op

gap_opened ==
    /\ pc = "shift_up" /\ frame.i >= tail_length
    /\ frame' = [frame EXCEPT !.i = 0]
    /\ goto(CASE op.name = "insert" -> "fill"
              [] op.range.tier = "blit" -> "blit_at"
              [] OTHER -> "write_at")
    /\ UNCHANGED <<vars, op>>

fill ==
    /\ pc = "fill"
    /\ set_range(v, op.pos, op.range.count, op.value)
    /\ goto("done") /\ UNCHANGED <<op, frame>>

blit_at ==
    /\ pc = "blit_at" /\ UNCHANGED op
    /\ LET count == Min({bits_per_block, range.count - frame.i})
       IN  IF frame.i < range.count
           THEN /\ write_block_at(v, op.pos + frame.i,
                       block_at(m_blocks[range.from], range.first + frame.i),
                       partial_block_mask(count))
                /\ advance(bits_per_block) /\ goto("blit_at")
           ELSE goto("done") /\ UNCHANGED <<vars, frame>>

write_at ==
    /\ pc = "write_at" /\ UNCHANGED op
    /\ IF frame.i < range.count
       THEN /\ frame.i # range.fails
            /\ IF element THEN set(v, op.pos + frame.i) ELSE reset(v, op.pos + frame.i)
            /\ advance(1) /\ goto("write_at")
       ELSE goto("done") /\ UNCHANGED <<vars, frame>>

\* An erasure's last position, or that of a gap whose source threw.
last == IF op.name = "erase" THEN op.last ELSE op.pos + op.range.count

close_gap ==
    /\ pc = "close_gap" /\ UNCHANGED op
    /\ LET left == m_size[v] - last - frame.i
       IN  IF left > 0
           THEN /\ write_block_at(v, op.pos + frame.i, block_at(m_blocks[v], last + frame.i),
                       partial_block_mask(Min({bits_per_block, left})))
                /\ advance(bits_per_block) /\ goto("close_gap")
           ELSE /\ resize(v, m_size[v] - (last - op.pos), FALSE)
                /\ UNCHANGED frame /\ goto(IF thrown = "none" THEN "done" ELSE "threw")

(***************************************************************************)
(* assign: a clear, and then a refill that may be refused.                 *)
(***************************************************************************)
assign ==
    /\ pc = "assign"
    /\ clear(v)
    /\ goto(IF op.name = "assign" THEN "refill" ELSE "append_range")
    /\ UNCHANGED <<op, frame>>

refill ==
    /\ pc = "refill" /\ UNCHANGED <<op, frame>>
    /\ IF op.range.count > max_addressable_width
       THEN throws("length_error") /\ UNCHANGED vars
       ELSE resize(v, op.range.count, op.value) /\ then("done")

(***************************************************************************)
(* The calls.                                                              *)
(***************************************************************************)
\* A window of a sequence, of v itself among them, and a range of elements
\* that may throw at any of them, or never, at its count.
Windows(x, size) ==
    {r \in [tier : {"blit"}, from : {x}, first : 0 .. size, count : 0 .. size, fails : {0}] :
        r.first + r.count <= size}

Elements(tiers, size) ==
    [tier : tiers, from : {src}, first : {0}, count : {size}, fails : 0 .. size]

\* A count with no range, past any storage, or one no width can be added to.
Counts(size) ==
    [tier : {"none"}, from : {src}, first : {0},
     count : 0 .. size \cup {Ceiling + 1, top}, fails : {0}]

Call(names, positions, ranges, values) ==
    [name : names, pos : positions, last : {0}, range : ranges, value : values]

Calls(size, others) ==
    Call({"append_range"}, {size},
         Windows(v, size) \cup Windows(src, others)
             \cup Elements({"sized", "forward", "unsized"}, others), {FALSE})
    \cup Call({"insert_range"}, 0 .. size,
              Windows(v, size) \cup Windows(src, others)
                  \cup Elements({"sized", "forward", "unsized", "pushed"}, others), {FALSE})
    \cup Call({"insert", "assign"}, 0 .. size, Counts(others), BOOLEAN)
    \cup Call({"assign_range"}, {0},
              Windows(src, others) \cup Elements({"sized", "unsized", "pushed"}, others), {FALSE})
    \cup {c \in [name : {"erase"}, pos : 0 .. size, last : 0 .. size,
                 range : Counts(0), value : {FALSE}] : c.pos <= c.last /\ c.range.count = 0}

\* Mutation: a window of the sequence itself is shifted in too.
entry_own_shifted(c) ==
    CASE c.name = "append_range" -> "append_range"
      [] c.name = "erase" -> "close_gap"
      [] c.name \in {"assign", "assign_range"} -> "assign"
      [] c.name = "insert_range" /\ c.range.tier \in {"unsized", "pushed"} -> "rebuild"
      [] OTHER -> "open_gap"

\* Counted before it is read, or read from other blocks, a range is shifted
\* in; read once, or from the sequence itself, it is rebuilt.
entry(c) ==
    CASE c.name = "append_range" -> "append_range"
      [] c.name = "erase" -> "close_gap"
      [] c.name \in {"assign", "assign_range"} -> "assign"
      [] c.name = "insert" -> "open_gap"
      [] c.name = "insert_range" ->
             IF \/ c.range.tier \in {"sized", "forward"}
                \/ c.range.tier = "blit" /\ c.range.from # v
             THEN "open_gap" ELSE "rebuild"

SequenceInit(widths, others) ==
    /\ m_size \in {s \in [Obj -> widths \cup others \cup {0}] :
                    s[v] \in widths /\ s[src] \in others /\ s[tmp] = 0}
    /\ m_count = [x \in Obj |-> 0]
    /\ \E b \in {s \in Storage(blocks_for(m_size[v])) : TailClear(s, m_size[v])},
          e \in {s \in Storage(blocks_for(m_size[src])) : TailClear(s, m_size[src])} :
          m_blocks = [x \in Obj |-> CASE x = v -> b [] x = src -> e [] x = tmp -> no_blocks]
    /\ \E c \in {blocks_for(m_size[v]), MaxBlocks} :
          capacity = [x \in Obj |->
              IF Kind = "inplace" THEN MaxBlocks
              ELSE IF x = v THEN c ELSE blocks_for(m_size[x])]
    /\ call = [op |-> "construct", outcome |-> "ok"]
    /\ op \in Calls(m_size[v], m_size[src])
    /\ pc = entry(op)
    /\ frame = [stage |-> "only", to |-> v, width |-> 0, i |-> 0, block |-> zero]
    /\ thrown = "none"

SequenceNext ==
    \/ append_range \/ hand_back \/ blit \/ blit_rest \/ write_rest
    \/ pack \/ pack_rest \/ push \/ read_throws \/ resize_back
    \/ rebuild \/ append_returns \/ move_in
    \/ open_gap \/ shift_tail \/ gap_opened \/ fill \/ blit_at \/ write_at \/ close_gap
    \/ assign \/ refill

Returns == pc \in {"done", "threw"} /\ UNCHANGED <<vars, control>>

=============================================================================
