------------------------- MODULE BitBlockContainer --------------------------
(***************************************************************************)
(* bit_block_container, the storage every owner of the library wraps: a    *)
(* width, the blocks that hold it and, where Counted, the number of bits   *)
(* set.  Obj is a set of containers of one type.                           *)
(*                                                                         *)
(* The members of the source are the variables: m_size, m_count and        *)
(* m_blocks.  Two more complete the state: capacity, the blocks the        *)
(* storage can hold without allocating, which std::vector keeps; and call, *)
(* a history of the last call and of what it answered or threw, which no   *)
(* action reads.                                                           *)
(***************************************************************************)
EXTENDS BlockStorage

CONSTANTS
    Obj,        \* the containers
    Kind,       \* "dynamic", a std::vector; "inplace", a capacity in the
                \* type; "static", a std::array, whose width is in the type
    N,          \* the width of a static, the capacity of an inplace storage
    Counted,    \* whether the number of bits set is kept as a member
    MaxBlocks   \* the most blocks an allocation is granted

ASSUME KindAssumption == Kind \in {"dynamic", "inplace", "static"}

ASSUME NAssumption == N \in Nat

\* Only a width that grows without bound keeps its count.
ASSUME CountedAssumption == Counted \in BOOLEAN /\ (Counted => Kind = "dynamic")

ASSUME MaxBlocksAssumption ==
    MaxBlocks \in Nat /\ (Kind # "dynamic" => MaxBlocks = blocks_for(N))

VARIABLES m_size, m_count, m_blocks, capacity, call

contents == <<m_size, m_count, m_blocks, capacity>>

vars == <<m_size, m_count, m_blocks, capacity, call>>

has_stored_size == Kind # "static"

\* The widths a caller asks for: up to one past what can ever be granted.
Width == 0 .. MaxBlocks * bits_per_block + 1

Ceiling == IF Kind = "dynamic" THEN MaxBlocks * bits_per_block ELSE N

(***************************************************************************)
(* The calls, as the caller sees them.                                     *)
(***************************************************************************)
NoResult == "none"

Returned(op, x, args, result) ==
    [op |-> op, x |-> x, args |-> args, outcome |-> "ok", result |-> result]

Threw(op, x, args) ==
    [op |-> op, x |-> x, args |-> args, outcome |-> "bad_alloc", result |-> NoResult]

(***************************************************************************)
(* Storage: one container's members written, the kept count only where     *)
(* there is one.                                                           *)
(***************************************************************************)
stored(c) == IF Counted THEN c ELSE 0

counted_in(x, n, len) == IF Counted THEN count_in(m_blocks[x], n, len) ELSE 0

store(x, size, count, b) ==
    /\ m_size'   = [m_size   EXCEPT ![x] = size]
    /\ m_count'  = [m_count  EXCEPT ![x] = stored(count)]
    /\ m_blocks' = [m_blocks EXCEPT ![x] = b]

\* Written blocks, the width and its allocation left alone.
write(x, count, b) ==
    /\ store(x, m_size[x], count, b)
    /\ UNCHANGED capacity

(***************************************************************************)
(* Allocation.  A width past an inplace capacity is refused by             *)
(* check_capacity.  A vector grown past its capacity may be refused by its *)
(* allocator, and is past MaxBlocks; granted, it holds at least what was   *)
(* asked for.  Either refusal comes before the first write.                *)
(***************************************************************************)
\* Mutations: a capacity rounded up to whole blocks; and one too few.
check_capacity_in_blocks(n) == Kind = "inplace" => n <= MaxBlocks * bits_per_block

check_capacity_below(n) == Kind = "inplace" => n < N

check_capacity(n) == Kind = "inplace" => n <= N

\* Mutation: the last block of the capacity is never used.
refuses_at_capacity(x, k, n) ==
    \/ ~check_capacity(n)
    \/ Kind = "dynamic" /\ k >= capacity[x]

Refuses(x, k, n) ==
    \/ ~check_capacity(n)
    \/ Kind = "dynamic" /\ k > capacity[x]

granted(x, k) ==
    IF k <= capacity[x] THEN {capacity[x]} ELSE k .. MaxBlocks

refused(op, x, args) ==
    /\ call' = Threw(op, x, args)
    /\ UNCHANGED contents

reallocate(x, k) == \E c \in granted(x, k) : capacity' = [capacity EXCEPT ![x] = c]

(***************************************************************************)
(* Growth, at a run-time width alone.                                      *)
(***************************************************************************)
\* Mutation: the bits a narrower width drops stay counted.
count_after_resize_kept(x, n, value) ==
    m_count[x] + (IF value /\ n > m_size[x] THEN n - m_size[x] ELSE 0)

count_after_resize(x, n, value) ==
    LET kept    == IF n < m_size[x] THEN n ELSE m_size[x]
        leaving == counted_in(x, kept, m_size[x] - kept)
        arrived == IF value /\ n > m_size[x] THEN n - m_size[x] ELSE 0
    IN  m_count[x] - leaving + arrived

resize_to(x, n, value) ==
    /\ check_capacity(n)
    /\ reallocate(x, blocks_for(n))
    /\ store(x, n, count_after_resize(x, n, value),
             resized(m_blocks[x], m_size[x], n, value))

resize(x, n, value) ==
    /\ has_stored_size
    /\ \/ /\ Refuses(x, blocks_for(n), n)
          /\ refused("resize", x, <<n, value>>)
       \/ /\ resize_to(x, n, value)
          /\ call' = Returned("resize", x, <<n, value>>, NoResult)

push_back(x, value) ==
    /\ has_stored_size
    /\ \/ /\ Refuses(x, blocks_for(m_size[x] + 1), m_size[x] + 1)
          /\ refused("push_back", x, <<value>>)
       \/ /\ resize_to(x, m_size[x] + 1, value)
          /\ call' = Returned("push_back", x, <<value>>, NoResult)

pop_back(x) ==
    /\ has_stored_size
    /\ m_size[x] # 0
    /\ resize_to(x, m_size[x] - 1, FALSE)
    /\ call' = Returned("pop_back", x, <<>>, NoResult)

clear(x) ==
    /\ has_stored_size
    /\ resize_to(x, 0, FALSE)
    /\ call' = Returned("clear", x, <<>>, NoResult)

\* Pushed before the old last block is written, so a refusal writes nothing.
append(x, value) ==
    LET n == m_size[x] + bits_per_block
        k == num_blocks(m_blocks[x]) + 1
    IN  /\ has_stored_size
        /\ \/ /\ Refuses(x, k, n)
              /\ refused("append", x, <<value>>)
           \/ /\ check_capacity(n)
              /\ reallocate(x, k)
              /\ store(x, n, m_count[x] + popcount(value),
                       appended(m_blocks[x], m_size[x], value))
              /\ call' = Returned("append", x, <<value>>, NoResult)

\* Insertion of a position that may lie past the width, which grows to it.
growing_insert(x, n) ==
    IF has_stored_size /\ n >= m_size[x]
    THEN \/ /\ Refuses(x, blocks_for(n + 1), n + 1)
            /\ refused("growing_insert", x, <<n>>)
         \/ /\ check_capacity(n + 1)
            /\ reallocate(x, blocks_for(n + 1))
            /\ store(x, n + 1, count_after_resize(x, n + 1, FALSE) + 1,
                     bit_set(resized(m_blocks[x], m_size[x], n + 1, FALSE), n))
            /\ call' = Returned("growing_insert", x, <<n>>, TRUE)
    ELSE LET inserted == ~BitAt(m_blocks[x], n)
         IN  /\ n < m_size[x]
             /\ write(x, m_count[x] + (IF inserted THEN 1 ELSE 0), bit_set(m_blocks[x], n))
             /\ call' = Returned("growing_insert", x, <<n>>, inserted)

\* Mutation: the other's highest position is taken for the width it needs.
grow_to_admit_short(x, y) ==
    LET n == find_back(m_blocks[y])
    IN  /\ has_stored_size
        /\ IF any(m_blocks[y]) /\ n > m_size[x]
           THEN \/ /\ Refuses(x, blocks_for(n), n)
                   /\ refused("grow_to_admit", x, <<y>>)
                \/ /\ resize_to(x, n, FALSE)
                   /\ call' = Returned("grow_to_admit", x, <<y>>, NoResult)
           ELSE /\ UNCHANGED contents
                /\ call' = Returned("grow_to_admit", x, <<y>>, NoResult)

\* Wide enough for the other's highest position, and not for its width.
grow_to_admit(x, y) ==
    LET n == find_back(m_blocks[y]) + 1
    IN  /\ has_stored_size
        /\ IF any(m_blocks[y]) /\ n > m_size[x]
           THEN \/ /\ Refuses(x, blocks_for(n), n)
                   /\ refused("grow_to_admit", x, <<y>>)
                \/ /\ resize_to(x, n, FALSE)
                   /\ call' = Returned("grow_to_admit", x, <<y>>, NoResult)
           ELSE /\ UNCHANGED contents
                /\ call' = Returned("grow_to_admit", x, <<y>>, NoResult)

reserve(x, n) ==
    /\ has_stored_size
    /\ \/ /\ Refuses(x, blocks_for(n), n)
          /\ refused("reserve", x, <<n>>)
       \/ /\ check_capacity(n)
          /\ reallocate(x, blocks_for(n))
          /\ call' = Returned("reserve", x, <<n>>, NoResult)
          /\ UNCHANGED <<m_size, m_count, m_blocks>>

\* A request std::vector need not honour, in part or at all.
shrink_to_fit(x) ==
    /\ has_stored_size
    /\ \E c \in IF Kind = "dynamic" THEN num_blocks(m_blocks[x]) .. capacity[x] ELSE {capacity[x]} :
           capacity' = [capacity EXCEPT ![x] = c]
    /\ call' = Returned("shrink_to_fit", x, <<>>, NoResult)
    /\ UNCHANGED <<m_size, m_count, m_blocks>>

(***************************************************************************)
(* Whole blocks in and out, and the assignments between containers.        *)
(***************************************************************************)
\* Every bit of the adopted blocks is a position, and so the tail is none.
replace(x, b) ==
    /\ has_stored_size
    /\ Kind = "inplace" => num_bits(b) <= N
    /\ \E c \in IF Kind = "dynamic" THEN num_blocks(b) .. MaxBlocks ELSE {capacity[x]} :
           capacity' = [capacity EXCEPT ![x] = c]
    /\ store(x, num_bits(b), count_blocks(b), b)
    /\ call' = Returned("replace", x, <<num_bits(b), Positions(b)>>, NoResult)

\* What std::vector keeps of its allocation once moved from is unspecified.
capacity_moved_from == IF Kind = "dynamic" THEN 0 .. MaxBlocks ELSE {MaxBlocks}

extract(x) ==
    /\ has_stored_size
    /\ \E c \in capacity_moved_from : capacity' = [capacity EXCEPT ![x] = c]
    /\ store(x, 0, 0, no_blocks)
    /\ call' = Returned("extract", x, <<>>, Positions(m_blocks[x]))

\* The source leaves its blocks wider than the width names, and the writer
\* of raw blocks restores the tail and then the count.
write_blocks(x, b) ==
    LET masked == erase_unused(b, m_size[x])
    IN  /\ write(x, count_blocks(masked), masked)
        /\ call' = Returned("write_blocks", x, <<Positions(b)>>, NoResult)

copy_assign(x, y) ==
    LET k == num_blocks(m_blocks[y])
    IN  \/ /\ x # y
           /\ Kind = "dynamic" /\ k > capacity[x]
           /\ refused("copy_assign", x, <<y>>)
        \/ /\ IF x = y THEN UNCHANGED capacity ELSE reallocate(x, k)
           /\ store(x, m_size[y], m_count[y], m_blocks[y])
           /\ call' = Returned("copy_assign", x, <<y>>, NoResult)

move_assign(x, y) ==
    /\ IF x = y \/ ~has_stored_size
       THEN /\ store(x, m_size[y], m_count[y], m_blocks[y])
            /\ UNCHANGED capacity
       ELSE /\ m_size'   = [m_size   EXCEPT ![x] = m_size[y],   ![y] = 0]
            /\ m_count'  = [m_count  EXCEPT ![x] = m_count[y],  ![y] = 0]
            /\ m_blocks' = [m_blocks EXCEPT ![x] = m_blocks[y], ![y] = no_blocks]
            /\ \E c \in capacity_moved_from :
                   capacity' = [capacity EXCEPT ![x] = capacity[y], ![y] = c]
    /\ call' = Returned("move_assign", x, <<y>>, NoResult)

swap(x, y) ==
    /\ m_size'   = [m_size   EXCEPT ![x] = m_size[y],   ![y] = m_size[x]]
    /\ m_count'  = [m_count  EXCEPT ![x] = m_count[y],  ![y] = m_count[x]]
    /\ m_blocks' = [m_blocks EXCEPT ![x] = m_blocks[y], ![y] = m_blocks[x]]
    /\ capacity' = [capacity EXCEPT ![x] = capacity[y], ![y] = capacity[x]]
    /\ call' = Returned("swap", x, <<y>>, NoResult)

(***************************************************************************)
(* Writes to one position, each moving the kept count by what it changed.  *)
(***************************************************************************)
Bit(x, n) == BitAt(m_blocks[x], n)

one_if(test) == IF test THEN 1 ELSE 0

is_valid(x, n) == n \in 0 .. m_size[x] - 1

set(x, n) ==
    /\ is_valid(x, n)
    /\ write(x, m_count[x] + one_if(~Bit(x, n)), bit_set(m_blocks[x], n))
    /\ call' = Returned("set", x, <<n>>, NoResult)

reset(x, n) ==
    /\ is_valid(x, n)
    /\ write(x, m_count[x] - one_if(Bit(x, n)), bit_reset(m_blocks[x], n))
    /\ call' = Returned("reset", x, <<n>>, NoResult)

flip(x, n) ==
    /\ is_valid(x, n)
    /\ write(x, m_count[x] + 1 - 2 * one_if(Bit(x, n)), bit_flipped(m_blocks[x], n))
    /\ call' = Returned("flip", x, <<n>>, NoResult)

insert(x, n) ==
    /\ is_valid(x, n)
    /\ write(x, m_count[x] + one_if(~Bit(x, n)), bit_set(m_blocks[x], n))
    /\ call' = Returned("insert", x, <<n>>, ~Bit(x, n))

erase(x, n) ==
    /\ is_valid(x, n)
    /\ write(x, m_count[x] - one_if(Bit(x, n)), bit_reset(m_blocks[x], n))
    /\ call' = Returned("erase", x, <<n>>, Bit(x, n))

\* The lowest, or the highest, set position cleared; the container holds one.
drop_front(x) ==
    /\ any(m_blocks[x])
    /\ write(x, m_count[x] - 1, front_dropped(m_blocks[x]))
    /\ call' = Returned("drop_front", x, <<>>, NoResult)

drop_back(x) ==
    /\ any(m_blocks[x])
    /\ write(x, m_count[x] - 1, back_dropped(m_blocks[x]))
    /\ call' = Returned("drop_back", x, <<>>, NoResult)

(***************************************************************************)
(* Writes to a range, to every position, and to a block at any position.   *)
(***************************************************************************)
set_range(x, n, len, value) ==
    LET before == counted_in(x, n, len)
        after  == IF value THEN len ELSE 0
    IN  /\ n + len <= m_size[x]
        /\ write(x, m_count[x] - before + after, range_set(m_blocks[x], n, len, value))
        /\ call' = Returned("set_range", x, <<n, len, value>>, NoResult)

set_all(x) ==
    /\ write(x, m_size[x], all_set(m_blocks[x], m_size[x]))
    /\ call' = Returned("set_all", x, <<>>, NoResult)

reset_all(x) ==
    /\ write(x, 0, all_reset(m_blocks[x]))
    /\ call' = Returned("reset_all", x, <<>>, NoResult)

flip_all(x) ==
    /\ write(x, m_size[x] - m_count[x], all_flipped(m_blocks[x], m_size[x]))
    /\ call' = Returned("flip_all", x, <<>>, NoResult)

\* The sequence reading's write, over storage that keeps no count: the mask
\* stays within the width.
write_block_at(x, n, value, mask) ==
    /\ ~Counted
    /\ is_valid(x, n)
    /\ n + bits_per_block <= m_size[x] \/ shr(mask, m_size[x] - n) = zero
    /\ write(x, m_count[x], written_at(m_blocks[x], n, value, mask))
    /\ call' = Returned("write_block_at", x, <<n, value, mask>>, NoResult)

(***************************************************************************)
(* Shifts, rotation and reversal.  A shift is by less than the width, and  *)
(* the positions it drops leave the count; a permutation leaves it alone.  *)
(***************************************************************************)
\* Mutation: the positions shifted past the width stay in the last block.
shift_up_unmasked(x, n) ==
    /\ is_valid(x, n)
    /\ write(x, m_count[x] - counted_in(x, m_size[x] - n, n), shifted_up(m_blocks[x], n))
    /\ call' = Returned("shift_up", x, <<n>>, NoResult)

shift_up(x, n) ==
    /\ is_valid(x, n)
    /\ write(x, m_count[x] - counted_in(x, m_size[x] - n, n),
                erase_unused(shifted_up(m_blocks[x], n), m_size[x]))
    /\ call' = Returned("shift_up", x, <<n>>, NoResult)

shift_down(x, n) ==
    /\ is_valid(x, n)
    /\ write(x, m_count[x] - counted_in(x, 0, n), shifted_down(m_blocks[x], n))
    /\ call' = Returned("shift_down", x, <<n>>, NoResult)

rotate(x, n) ==
    /\ write(x, m_count[x], rotated(m_blocks[x], m_size[x], n))
    /\ call' = Returned("rotate", x, <<n>>, NoResult)

reverse(x) ==
    /\ write(x, m_count[x], end_for_end(m_blocks[x], m_size[x]))
    /\ call' = Returned("reverse", x, <<>>, NoResult)

(***************************************************************************)
(* The compound operators: a block of the other at a time, the blocks it   *)
(* lacks read as zero, and the count summed in the pass that writes.       *)
(***************************************************************************)
compound(op, lhs, rhs) ==
    CASE op = "and_assign"   -> lhs \cap rhs
      [] op = "or_assign"    -> lhs \cup rhs
      [] op = "xor_assign"   -> bit_xor(lhs, rhs)
      [] op = "minus_assign" -> lhs \cap complement(rhs)

combined(x, y, op) ==
    [i \in DOMAIN m_blocks[x] |-> compound(op, m_blocks[x][i], padded_block(m_blocks[y], i))]

combine(x, y, op) ==
    /\ write(x, count_blocks(combined(x, y, op)), combined(x, y, op))
    /\ call' = Returned(op, x, <<y>>, NoResult)

and_assign(x, y)   == combine(x, y, "and_assign")
or_assign(x, y)    == combine(x, y, "or_assign")
xor_assign(x, y)   == combine(x, y, "xor_assign")
minus_assign(x, y) == combine(x, y, "minus_assign")

\* What the readings establish before |= and ^=, by grow_to_admit or by one
\* width for both: the other holds no position at or above this width.
admits(x, y) == \A p \in Positions(m_blocks[y]) : p < m_size[x]

\* The elementwise kernels of the valarray reading.
Kernel == {"and", "or", "xor", "equal", "less", "greater", "less_equal", "greater_equal"}

kernel(f, a, b) ==
    CASE f = "and"           -> a \cap b
      [] f = "or"            -> a \cup b
      [] f = "xor"           -> bit_xor(a, b)
      [] f = "equal"         -> complement(bit_xor(a, b))
      [] f = "less"          -> complement(a) \cap b
      [] f = "greater"       -> a \cap complement(b)
      [] f = "less_equal"    -> complement(a) \cup b
      [] f = "greater_equal" -> a \cup complement(b)

transformed(x, y, f) ==
    [i \in DOMAIN m_blocks[x] |-> kernel(f, m_blocks[x][i], m_blocks[y][i])]

transform(x, y, f) ==
    /\ ~Counted
    /\ m_size[x] = m_size[y]
    /\ write(x, m_count[x], erase_unused(transformed(x, y, f), m_size[x]))
    /\ call' = Returned("transform", x, <<y, f>>, NoResult)

(***************************************************************************)
(* The state machine.  A container is constructed at a width, all clear.   *)
(***************************************************************************)
InitWidth == IF Kind = "static" THEN {N} ELSE 0 .. Ceiling

Init ==
    /\ m_size \in [Obj -> InitWidth]
    /\ m_count = [x \in Obj |-> 0]
    /\ m_blocks = [x \in Obj |-> [i \in 0 .. blocks_for(m_size[x]) - 1 |-> zero]]
    /\ capacity \in [Obj -> 0 .. MaxBlocks]
    /\ \A x \in Obj : IF Kind = "dynamic" THEN capacity[x] >= blocks_for(m_size[x])
                                           ELSE capacity[x] = MaxBlocks
    /\ call = [op |-> "construct", outcome |-> "ok"]

Grow(x) ==
    \/ \E n \in Width, value \in BOOLEAN : resize(x, n, value)
    \/ \E value \in BOOLEAN : push_back(x, value)
    \/ pop_back(x)
    \/ clear(x)
    \/ \E value \in Block : append(x, value)
    \/ \E n \in Width : growing_insert(x, n)
    \/ \E n \in Width : reserve(x, n)
    \/ shrink_to_fit(x)

Exchange(x) ==
    \/ \E k \in 0 .. MaxBlocks : \E b \in Storage(k) : replace(x, b)
    \/ extract(x)
    \/ \E b \in Storage(num_blocks(m_blocks[x])) : write_blocks(x, b)

WritePosition(x) ==
    \/ \E n \in Width : set(x, n)
    \/ \E n \in Width : reset(x, n)
    \/ \E n \in Width : flip(x, n)
    \/ \E n \in Width : insert(x, n)
    \/ \E n \in Width : erase(x, n)
    \/ drop_front(x)
    \/ drop_back(x)

WriteMany(x) ==
    \/ \E n, len \in Width, value \in BOOLEAN : set_range(x, n, len, value)
    \/ set_all(x)
    \/ reset_all(x)
    \/ flip_all(x)
    \/ \E n \in Width, value, mask \in Block : write_block_at(x, n, value, mask)

Move(x) ==
    \/ \E n \in Width : shift_up(x, n)
    \/ \E n \in Width : shift_down(x, n)
    \/ \E n \in Width : rotate(x, n)
    \/ reverse(x)

Pairwise(x, y) ==
    \/ copy_assign(x, y)
    \/ move_assign(x, y)
    \/ swap(x, y)
    \/ grow_to_admit(x, y)
    \/ and_assign(x, y)
    \/ minus_assign(x, y)
    \/ admits(x, y) /\ or_assign(x, y)
    \/ admits(x, y) /\ xor_assign(x, y)
    \/ \E f \in Kernel : transform(x, y, f)

Next ==
    \/ \E x \in Obj : Grow(x) \/ Exchange(x) \/ WritePosition(x) \/ WriteMany(x) \/ Move(x)
    \/ \E x, y \in Obj : Pairwise(x, y)

Spec == Init /\ [][Next]_vars

(***************************************************************************)
(* The invariants.                                                         *)
(***************************************************************************)
\* Every member has its type, and the blocks are exactly those the width
\* needs, whatever was called and whatever it threw.
TypeOK ==
    /\ m_size \in [Obj -> 0 .. Ceiling]
    /\ Kind = "static" => \A x \in Obj : m_size[x] = N
    /\ m_count \in [Obj -> Int]
    /\ DOMAIN m_blocks = Obj
    /\ \A x \in Obj : m_blocks[x] \in Storage(blocks_for(m_size[x]))
    /\ capacity \in [Obj -> 0 .. MaxBlocks]
    /\ \A x \in Obj : blocks_for(m_size[x]) <= capacity[x]
    /\ Kind # "dynamic" => \A x \in Obj : capacity[x] = MaxBlocks

\* The unused-tail invariant: every bit at or above size() reads zero, after
\* every member function and every exception one leaves by.
UnusedBitsClear == \A x \in Obj : TailClear(m_blocks[x], m_size[x])

\* The kept count, moved incrementally by every write, is the number of bits
\* the blocks hold; storage that keeps none stores nothing.
StoredCountExact ==
    \A x \in Obj : m_count[x] = stored(count_blocks(m_blocks[x]))

\* operator== compares members, whole blocks and the kept count with them: it
\* holds exactly when the widths agree and every position below them does.
EqualIffSameBits ==
    \A x, y \in Obj :
        (m_size[x] = m_size[y] /\ m_count[x] = m_count[y] /\ m_blocks[x] = m_blocks[y])
        <=> (m_size[x] = m_size[y] /\ \A p \in 0 .. m_size[x] - 1 : Bit(x, p) = Bit(y, p))

=============================================================================
