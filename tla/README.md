# xstd-bits in TLA+

xstd-bits packs bits into unsigned blocks and gives the packed value several
*readings*: a sequence of `bool`, a set of integers, a valarray of `bool`. It is
a header-only C++23 library of sequential code: no threads, nothing persisted,
no messages. What is hard about it is what packing makes hard: every operation
works a block at a time, on a last block that is only partly used, in place,
with a kept count beside the blocks and an allocator that may refuse in the
middle. This directory models the storage those readings share, checks it with
TLC, and proves with TLAPS its invariants, that it implements a string of
bits and that its in-place loops are right; over it stand the sequence
reading, whose modifiers read a range that may throw while they write
to a storage that may refuse, the set reading, whose calls are made of several
of the storage's and are shown to be those of a set of keys, the valarray
reading, whose subscripts are kept while the arrays go on changing, and the pure
functions they all use: comparisons, block algorithms, selections, conversions
and hashes, each checked against what it means on the positions.

Source paths below are under `src/include/xstd/bits/`.

## Inventory

| Component | State | Operations | How it interacts | What makes it correct |
|---|---|---|---|---|
| block words (`detail/shift.hpp`, `walk_block.hpp`, `intrinsic.hpp`) | none | shifts by less than a block, masks, counts of zeros, clearing the lowest or highest set bit | called by everything that touches a block | no shift by a whole block; empty and full blocks |
| **`bit_block_container`** (`detail/bit_block_container.hpp`) | `m_size` (where the width is not in the type), `m_count` (where the count is kept), `m_blocks` | construction, growth, whole blocks in and out, writes at a position, over a range, over all, shifts, rotation, reversal, compound operators, queries, transfers between unequal allocators | owned by every container, called by every reading through `storage_access` | the unused tail reads zero; the count is exact; the blocks are those the width needs; a refused allocation changes nothing; each call does to the bits what it says; a transfer that is refused leaves both containers whole |
| inplace blocks (`detail/inplace_blocks.hpp`) | blocks and how many, in the object | those of `std::inplace_vector` | the `Blocks` of a `bit_block_container` with a capacity in its type | nothing past the capacity |
| sequence reading (`detail/sequence_adaptor.hpp`, `basic_bit_vector.hpp`) | the storage | insert, erase, append of ranges, resize, positions, proxies, iterators | `open_gap`, `close_gap`, `blit`, `pack` over `block_at` | a gap opens and closes without losing a position; a source that throws is rolled back; a source inside the container is read as it was |
| set reading (`bit_set/detail/set_adaptor.hpp`) | the storage | insert, erase, set operators, shifts, lookups | grows the storage before `\|=` and `^=`; asks it for scans | widths grow to what is held and no more; keys past the universe are refused; iterators stay valid |
| valarray reading (`bit_valarray/detail/*`) | the storage; a proxy's owner and selection | elementwise operators, slices, gslices, masks, lists of positions, shift, cshift | `transform`, `rotate`; `gather`, `expand` and `fill` over a selection | an elementwise result masked; a subscript kept reads the mask and the array as they are; a selection of one array assigned to another of it as if copied |
| block algorithms (`bit_algorithm/*`) | none | copy, move, fill, find, count, partition, sort, transform, walks at any offset | `block_at` of two storages | what std's algorithm of the name does, in part of a container too; overlap in the direction the algorithm allows |
| iterators and select (`bit_iterator/*`) | a container and an index | advance, distance: select and rank a block at a time | counts of blocks | the n-th position |
| comparisons (`detail/comparisons.hpp`, `storage_compare.hpp`, `first_mismatch.hpp`) | none | two orders and equality | `first_difference`, `any_above` | each order total, across widths too |
| spans and views (`bit_span/*`, `detail/borrowed_*`) | an owner, an offset, a length | forwarded positions | the owner's storage | nothing outside the window |
| conversion, permutation, layout (`detail/bit_convertible.hpp`, `bit/detail/bit_permute.hpp`) | none | between containers and block widths, compress, expand, bytes | raw blocks, then `erase_unused`, then `recount` | no position lost or gained but where refused; the tail and the count restored, in that order |
| hashing (`detail/hash.hpp`, `bit_hash.hpp`) | none | a message of the bits, to a hash algorithm | `operator==` | equal values write equal messages, different ones different messages |
| concepts, traits, rebinding | none | compile time | | |
| streams (`detail/bit_stream.hpp`), `ext/`, tests, fuzzers, benchmarks | none of their own | I/O and interoperation | | |

The behaviours that are hard to test, each at its line, are the `hazards` of
`PROJECT.json`. In short: the last block's tail after *sequences* of calls; the
kept count moved by increments; a refused allocation between two steps; loops
that run in place and are right in one direction only; loops whose unsigned
index ends by wrapping round; arms compiled for one block, for two and for any
number, that must agree; a capacity or a window that ends inside a block; a
selection used after what it refers to has changed.

## Modules

| Module | What it is |
|---|---|
| `Blocks` | one block as the set of its offsets that are one, so that `&`, `\|`, `~` are `\cap`, `\cup`, `\`; the word operations on it |
| `BlockStorage` | what each member function leaves in the blocks, as functions of the blocks it found: tails, reads and writes at any offset, shifts, rotation, reversal, growth |
| `BitBlockContainer` | the state machine: a set `Obj` of containers of one type, an action per member function that changes state, allocations granted or refused, and the invariants |
| `BitString` | the abstract specification: a width and a set of positions, with no blocks |
| `BlockScans` | the queries, arm by arm, as the source computes them |
| `InPlaceLoops` | the in-place loops, one iteration a step |
| `SequenceAdaptor` | the sequence reading's `append_range`, `insert_range`, `insert`, `erase`, `assign` and `assign_range`, a call of the storage or an element read a step |
| `Widths` | `std::size_t` as a word of `SizeMod` values, the ceilings on a width, the saturating sum |
| `SetAdaptor` | the set reading: insertion, erasure, `erase_if`, the operators with a set and with a key, shifts, lookups, iterators; a call of the storage a step |
| `KeySet` | the abstract specification of a set: its keys, and what each call does, answers and throws, in one step |
| `Comparisons` | equality and the orders of sets and of sequences, by blocks and by words |
| `AllocatorTransfer` | copying, moving and swapping between containers whose allocators may differ, under every traits: each transfer the set of its outcomes |
| `BlockAlgorithms` | the algorithms on a window of blocks: searches, counts, rewrites, copies, transforms, walks, select and rank, advance and distance |
| `Selections` | slices, gslices, masks and lists of positions; their masks a block at a time; `gather`, `expand` and `fill` as runs, by masks, or a position at a time; `bit_compress` and `bit_expand` |
| `Valarray` | the valarray reading: whole arrays, and a subscript kept while they change |
| `BoolArray` | the abstract specification of a valarray: `BitString` with elementwise calls and a subscript |
| `Conversions` | bytes, and conversions between blocks of two widths, sets, sequences, windows and masks |
| `Hashing` | the messages the hash functions write |
| `MCBitBlockContainer`, `MCBlockScans`, `MCInPlaceLoops`, `MCSequenceAdaptor`, `MCSetAdaptor`, `MCComparisons`, `MCValarray`, `MCAlgorithms`, `MCPairs`, `MCTransfers`, `MCLayouts` | what TLC checks: views, the refinements, references for the queries and algorithms, what a loop or a call is to leave |
| `BlockStorageProofs` | lemmas on the operators: which storage each returns, what it leaves in the tail, which positions it leaves set, which of them a scan finds |
| `BitBlockContainerProofs`, `BitStringProofs` | the theorems of the container: its types, tail, count and equality; that it implements `BitString`, and reserved capacity |
| `ScanProofs` | that every scan, in every arm the compiler may choose, finds the nearest position, that a range is counted right, and that the block algorithms search a window, and rewrite one, as std's do |
| `PairProofs` | where two containers differ, whether they are equal, what each transfer between allocators leaves of both, and what the algorithms that write one from the other leave |
| `InPlaceLoopsProofs` | the theorems of the in-place loops |
| `SetAdaptorProofs` | the theorems of the storage under the set reading; what the lookups find; that the reading implements `KeySet`, and what its iterators may rely on |
| `SequenceProofs` | the theorems of the range calls of the sequence reading: what one that returns leaves, and one that throws |

`BlockStorage` extends `Blocks`; `BitBlockContainer`, `BlockScans` and
`InPlaceLoops` extend `BlockStorage`; `SequenceAdaptor` extends
`BitBlockContainer` and its steps are that module's actions, on the sequence and
on the one a rebuild makes aside; `SetAdaptor` extends `BitBlockContainer`,
whose actions it calls, and `BlockScans`, whose queries it asks; `Comparisons`
extends `BlockScans`; `MCSetAdaptor` instantiates `KeySet` over `SetAdaptor`;
`MCBlockScans` composes the container
with the queries, and `MCBitBlockContainer` instantiates `BitString` over the
container. `BlockAlgorithms`, `Selections` and `Conversions` extend `BlockScans`,
`Hashing` extends `Conversions`, and `AllocatorTransfer` extends `BlockStorage`.
`Valarray` extends `BitBlockContainer`, whose actions its calls are, and
`Selections`; `BoolArray` extends `BitString`, and `MCValarray` instantiates it
over `Valarray`. The other MC modules compose what has no state of its own with
the containers of the storage: `MCAlgorithms` and, over it, `MCLayouts` ask
their functions in every state of `MCBlockScans`, of one container; `MCPairs`
and, over it, `MCTransfers` in every state of `MCComparisons`, of two.
Definitions marked *Mutation* are altered forms of the definition
below them, each a mistake the property it goes with must catch; nothing uses
them.

### How state and actions correspond to the code

`m_size`, `m_count` and `m_blocks` are the members. `capacity` completes them:
the blocks the storage may hold without allocating, which `std::vector` keeps
and `capacity()` and `reserve()` expose. `call` is a history of the last call,
what it was given and what it answered or threw; no action reads it, so it is
left out of TLC's `VIEW`, and the properties that use it are properties of
steps.

An action is a whole member function. `resize` is `check_capacity`, then the
blocks resized (which may throw), then the tail, the count and the width, one
step with two outcomes, because the code is sequential and nothing else runs
between; a refusal that left something written would be a step the abstract
specification does not have. Guards are the preconditions the code asserts.
Three instances of `Kind` are the three kinds of `Blocks`: `"dynamic"` is a
`std::vector`, `"inplace"` a capacity `N` in the type, `"static"` an array with
the width `N` in the type, whose growing members do not exist. `Counted` is
the template parameter of that name and needs an unbounded width.

An allocation beyond `capacity` may be refused; beyond `MaxBlocks` it is. A
grown vector may hold more than it was asked for, `shrink_to_fit` may do any
part of what it is asked, and what a moved-from vector keeps allocated is
unspecified: all three are nondeterministic.

`|=` and `^=` are guarded by `admits` in `Spec`: what both readings establish
before they call them (the set reading by `grow_to_admit`, an action of its
own; the others by equal widths).

`InPlaceLoops` starts in every storage with a clear tail and every call, and
runs it an iteration a step with `std::size_t` arithmetic modulo `SizeMod`.
`std::shift_left`, `shift_right`, `rotate` and `reverse` on whole blocks are
single steps: the standard's, not this library's.

`SequenceAdaptor` runs one call from every start. `op` is the call and its
range, `pc` where the code is, `frame` its locals (`stage` which part of a
rebuild is being appended, `to` the sequence appended to, `width` what `make_room`
and the `catch` go back to, `i` the elements read, `block` the one being packed),
and `thrown` the exception on its way out. Each step is one call of the storage,
with its own chance of being refused, or one element read, which may throw. The
tier of a range is what the templates tell apart: a sequence's bits (`blit`), a
sized range, a forward one without a size, one read once, and a C++17 iterator
pair, pushed back. `handler` is the two `catch` clauses. The source of a `blit`
may be a window of the sequence itself. `Returns` is the stutter of a call that
has ended. The history `start` is what every container held when the call began.

`SetAdaptor` runs calls one after another. A call that makes one call of the
storage is one action; one that makes several is an action for each, because
each may be refused with the others done. `pending` says what is left of it:
its `step`, the call, the set and the arguments, how far a loop has come (`at`,
an index into a list of keys or, in `erase_if`, the iterator), and `was`, the
keys the set held when the call began. No call starts while one is `pending`.
`answer` is a history of the last call and what it answered or threw, as
`call` is for the storage. `|=` and `^=` are `GrowsFirst` and then `Combine`;
`<<=` is the resize and then `Shift`; `&=` with a key a clear and then `Keep`;
a run of consecutive keys its last and then `SetSpan`. A key is the position
its mapping ranks it at; `IsClosed` says whether the mapping names a size, and
`is_descending` is the template's. An iterator is an index, the end being the
width in either direction. Keys are drawn from every position up to one past
the greatest grantable width and from the top of the word. A value of another
type is the range `[lo, hi)` of positions its comparator finds equivalent.

In `Comparisons` each function takes the blocks and, where it reads them, the
width; `word_digits` stands for the 64 of the source.

`Valarray` adds one variable to the storage's. `subscript` is the proxy a
subscript of a non-const array returns: the array it writes through to, the
selection, and for a mask the size counted when it was made
(`valarray_proxy.hpp`). The selection of a mask is the *name* of the array that
is the mask, as the code keeps a reference to its blocks, so a proxy used after
the mask was written reads the mask as it then is. Using it is guarded where the
code would gather into an array sized by a count that no longer holds
(`still_counts`). A function that returns an array is modelled with its result
assigned. `BoolArray` has the same subscript over a bit string, with the
positions of a mask taken when it is used.

In `BlockAlgorithms` a window is the blocks, a first position and a length, as
the iterators unpack it; an answer is counted from the first. `Selections` works
a selection through in the way the code picks for it (`Way`), and each way is
checked, picked or not. In `Conversions` a byte has `bits_per_byte` bits, and an
argument named `digits` is the width of the blocks of the argument before it: the
same value is converted between blocks of half, once and twice the storage's. A
message in `Hashing` is a sequence of tagged writes; the hash algorithm is
external, and so is what it does with the updates it is given.

In `AllocatorTransfer` a container is a record with the blocks it has room for
and its allocator, and a transfer is the *set of its outcomes*: both containers
after it, and whether it threw. There are two allocators that compare unequal,
and traits for copy, move and swap; allocators that are always equal are one of
the two. What the steps of a transfer leave when the one that allocates is
refused is an outcome of it, in the order the code takes them; where `vector`'s
own assignment is called it may be left empty, since the standard gives no more.

## Runs

| Run | Bounds | Shows |
|---|---|---|
| `dynamic` | two vectors with the count kept, 2 blocks of 2 bits, widths asked for up to 5 | tail, count, memberwise equality, refinement of `BitString`, reserved growth never throws |
| `inplace` | two inplace valarrays, `N = 3` in 2 blocks of 2 bits, one subscript kept at a time | refinement of `BoolArray` where the capacity ends inside a block, the storage's own calls, the valarray's and the subscript's interleaved; the tail; what fits never throws |
| `scans` | one container, every width to 12 in blocks of 4, every value; bytes of 2 bits | every arm of the queries against the positions; word arithmetic; the algorithms on a window; walks and select; the passes of a selection; conversions and hashes |
| `orders` | two containers, every width to 5 in blocks of 2, every pair of values, words of 4 | first differences, equality and the orders, at one width and at two; the first mismatch in blocks of three besides, where padding can differ past the width; the algorithms from one container to another; compress and expand; the transfers between allocators |
| `loops` | every storage to 3 blocks of 2 bits, every call | no iteration overwrites what a later one reads; results exact; the loops end |
| `ranges` | a vector up to 3 wide in blocks of 2 bits, a source up to 4, at most 3 blocks | every range call splices exactly, or throws with no effects, or, where the standard asks less, leaves a prefix |
| `sets` | one set over a vector, 3 blocks of 2 bits, an open universe, `SizeMod = 16` | refinement of `KeySet`; lookups and iteration exact; an `end()` held moves only for keys that need the width |
| `sets_inplace` | a capacity of 5 in blocks of 2, a universe of 5, descending | the same where the type limits the width, the universe is closed and `Compare` is a `greater` |
| `sets_fixed` | a static width of 4 in blocks of 3 | the same at a static width; every call ends |
| `set_pairs` | two sets, 2 blocks of 2 bits, every pair of values | the operators between two sets, and the tail under them |
| `moved_from` | as `orders` | the finding on a refused move below |
| `assigned` | an inplace storage, `N = 3` in 2 blocks of 2 bits | the finding on `assign` below |

**Why the bounds are enough.** The code tells apart: no block, one, two, and
more; an offset of zero and any other; a last block full and partly used; a
first, a middle and a last block of a range. Two blocks of two bits have the
empty, full, partly used and straddling cases and one boundary; three blocks,
in `scans`, `orders` and `loops`, add a middle block and the general arm beside those for
one and two. Two containers are what a binary operation, an alias (`x op x`)
and a move need; no operation of the storage takes three (a rebuild of the sequence does:
itself, the one aside, and the source). `Width` asks for one position past
what can be granted, so every refusal happens. `SizeMod` is only large enough
that no index but a wrapped one reaches the top, and, in `ranges`, that the
widths of a run stay below the top while a count of `top` makes the sum
saturate and be refused; a count one past what the storage can be granted
(`Ceiling + 1`) is refused as growth, not as a width. A sequence three wide and a source of four in blocks
of two make heads, tails and sources that are empty, short of a block, a block
and more than one, and a gap narrower than, as wide as and wider than the tail. `scans` takes four bits to a
block since reversal by halves needs a power of two above two, and since the masks
of a stride have several phases only in a block wide enough. Its algorithms are
asked of containers of up to two blocks and a bit, from a window's start at a
block's foot, inside it and at its top. The bytes of two bits make
blocks of one, two and four bytes out of those of half, once and twice the width,
and the strings that are gathered an update at a time (`bools_per_block`,
`string_blocks_per_update`, `assembly_bytes` for the 64, 8 and 256 of the source)
end inside an update, at its end and past it. In `orders` transfers are of blocks
full of ones, at every two widths and with every room: which bits they hold is
nothing a transfer looks at. In `inplace` three elements are what positions that
come back, a gslice that repeats one and a mask with a hole need, and distances
from -4 to 4 shift an array out at either end. The kinds of
storage are spread over the runs rather than repeated in each: a vector with a
count in `dynamic`, `sets` and `set_pairs`, one without in `ranges`, a capacity
in the type in `inplace`, `orders` and `sets_inplace`, a static width in
`sets_fixed`; what is proved is proved for all of them. A closed universe over
a vector is in no run: it differs from `sets` in what `sets_inplace` checks, a
key past the universe refused and a width stopped at it.

In the runs of sets a word of 16 puts `max_width` at 14 in blocks of two,
above every width that can be granted (`StorageAssumption`), so a key can lie
within the width, past it and refused by the allocator, the capacity or the
universe, and past what a heap counts. One set suffices for what one set does;
`set_pairs` has two and leaves out all but insertion and erasure of a key (which
reach every pair) and the calls that take two. Ranges inserted key by key are of
two keys: the first may succeed and the second be refused.

**Fairness.** The invariants and the refinement need none. `Terminates` is
checked under `WF_vars(Next)` on `InPlaceLoops`: the loops are sequential
`noexcept` code whose every next step is enabled until it is done, and a
thread that runs takes its next step. `EveryCallEnds` is checked under weak
fairness of `Runs`, the steps of a call under way, for the same reason; a
predicate that throws is not among them, since nothing makes one throw.

**The view.** `ReservedNeverThrows`, `ImplementsBitString` and
`ImplementsBoolArray` mention `call`, but only `call'`, and the properties of sets
`answer`, but only `answer'`; two states that differ in these alone have the same
successors, so a step TLC does not generate from the second was checked from
the first.

### What the properties say

- `UnusedBitsClear`: no bit at or above `size()` is ever set, the invariant the
  whole library rests on (`doc/design.md:311`).
- `StoredCountExact`: the incrementally kept count is the popcount.
- `EqualIffSameBits`: the defaulted memberwise `operator==`, whole blocks and
  count included, is equality of width and positions.
- `ImplementsBitString`: every call does to the string what the abstract
  operation does, answers what it answers, touches no other container, and
  changes nothing when it throws. Its refinement mapping does not cut the
  positions off at the width, so a stray tail bit is no abstract state.
- `ImplementsBoolArray`: the same of the valarray's calls, and of a subscript
  used after the array it writes to and the mask it reads have been written; it
  never holds more than `Limit` elements, the capacity `N`, where the blocks would
  have room.
- `ReservedNeverThrows`: a call that needs no more positions than `capacity()`
  names does not throw.
- `ScansExact`, `ReductionsExact`, `WordsExact`, `DifferencesExact`: each query,
  in each arm, is what the positions say.
- `SearchesExact`, `RewritesExact`, `WalksExact`: each algorithm on one window is
  std's of the same name on the bools of the window, and writes nothing outside
  it; select and rank agree with counting one by one, and a walk visits every
  key or bool in order.
- `SelectionsExact`: the masks of a slice, the tuples of a gslice, and the three
  passes in every way of taking them, against the positions selected, in order,
  repeated ones included.
- `CopiesExact`, `PermutationsExact`: the algorithms from a window of one
  container to a window of another, and compress and expand by another's keys.
- `LayoutsExact`: every conversion keeps each position, in blocks of whichever
  width, and refuses exactly the value that does not fit; bytes read back; a mask
  and the set of its flags are each other.
- `HashesExact`: equal values write equal messages whatever the width of their
  blocks and whichever way the bytes are gathered, and different ones different
  messages.
- `TransfersExact`: every transfer, under every traits, completes with the value
  moved or copied, the source emptied where it was moved and the allocators where
  the traits send them, or throws with both containers sound: a width, a count and
  a tail that are those of the blocks that are there.
- `MovesExactly`, `SourceIntact`, `Terminates`: the in-place loops, the reason
  they are right, and that they end.

- `SplicedExactly`: a range call that returns leaves head, range and tail, the
  range as it was before the call even where it is the sequence's own, and its
  source untouched.
- `ThrowHasNoEffects`: one that throws leaves the sequence as it was, except
  `assign`, `assign_range` and a sized range that throws as it is appended: the
  code promises no more there.
- `ThrowKeepsPrefix`: even those leave what was there (nothing, if assigned)
  and a prefix of the range.

- `ImplementsKeySet`: every call of a set, of however many steps, is one call
  of a set of keys; a call that throws leaves the keys it found, except those
  that go key by key, which leave a prefix done, and the exception is the one
  the key calls for. The keys of the refinement are all positions, the tail
  included, and stand still while a call is under way.
- `LookupsExact`: `contains`, `find`, both bounds, of a key, of a value that is
  no key and of a value of another type, and iteration from `begin()` and back
  from `end()`, in either direction, are what a search of the keys gives.
- `HeldEndMovesForKeys`: `README.md:163` promises that an iterator outlives
  growth, `std::set`'s guarantee; `end()` is the index `size()`, and one held goes
  stale when a call widens the set. Only a call that needs the width does: an
  insertion of its highest key, a union with a set that holds it, a `<<=`, or an
  exchange of blocks. A `<<=` is also the one write that may narrow a set: one
  that adopted blocks wider than its closed universe is left at `max_size()`
  (`bit_set/detail/set_adaptor.hpp`, `shift_width`). The action property,
  `EndMoves`, was first stated without that case, which no run reached; the
  attempt to prove it for every universe did.
- `EveryCallEnds`: `erase_if` and insertion key by key end.
- `Admitted`: where the storage's `|=` or `^=` is reached, the set has room for
  every key of the other.
- `EqualityExact`, `OrdersExact`: every equality and order is that of the
  sequences compared, across widths and across ways of computing it.

### Findings

**A refused allocator-extended move.** The constructor
`bit_block_container(bit_block_container&& other, alloc)` gives the source's width
up in its member initializer (`detail/bit_block_container.hpp:446`), before
`take_blocks` (`:447`), which between unequal allocators allocates and may throw.
The source's own `clear()` and `take_count()` (`:448-449`) are then not reached,
and the source is left at width zero over the blocks and the count it had:
`doc/design.md:311` has every bit at or above `size()` read zero. The run
`moved_from` shows it. Move assignment (`:497-498`) takes the blocks first, and
`TransfersExact` shows that it has no such state. Giving the width up after the
blocks are taken would mend the constructor.

**`assign` past an inplace capacity.** `assign(n, value)` clears
(`detail/sequence_adaptor.hpp:791`) and then resizes, where the capacity is
checked; `doc/reference/bit_inplace_vector/bit_inplace_vector.md:45` says that
growth past `N` throws `std::bad_alloc` before anything is written. The run
`assigned` shows the exception leave an empty sequence. (`doc/design.md:2289`
grants the basic guarantee to `assign_range`, which the property excepts, and
does not mention `assign`.)

**Not a finding, but worth knowing.** `bit_block_container`'s `|=` and `^=`,
called between two widths, would leave the wider one's positions set in the
narrower one's unused tail (`combine`, `bit_block_container.hpp:1598-1622`,
masks nothing), although `doc/design.md:311` has the storage own the invariant.
The readings never call them so: the set reading grows first. The storage's
specification therefore guards the two by `admits`, and `SetAdaptor`, which has
no such guard, is where `Admitted` shows, and `AdmittedBeforeCombined` proves,
that what the storage leaves to its callers holds.

`guard_key` (`bit_set/detail/set_adaptor.hpp:1355`) asks `check_width` before the
storage is asked for room, and so throws `length_error` for a key at the top of
`std::size_t`, of inplace sets too, where
`doc/reference/bit_set/bit_inplace_set.md:27` has `bad_alloc` for every key past
`N`. `KeySet` has the exception the code throws, and `ImplementsKeySet` checks it
key by key.

A proxy made by a mask counts the mask once. Assigning an array to it after the
mask has been written reads as many elements as the mask then selects; the
arrays' sizes must agree, as the standard requires of them when they are used.

## Proofs

For every block width, kind, capacity `N`, allocation bound and set of
containers, under the named assumptions of `Blocks`, `BitBlockContainer`,
`Comparisons` and `InPlaceLoops` (a block has at least one bit; `N` is a natural
number; a count is kept only with an unbounded width; an inplace or static
storage has the blocks `N` needs; a word of a comparison is whole blocks):

- `TypeCorrect`: `Spec => []TypeOK`. The blocks are always exactly those the
  width needs, and within the allocation. `TypeOK` is inductive.
- `UnusedBitsStayClear`: `Spec => []UnusedBitsClear`. The inductive invariant
  is `TypeOK /\ UnusedBitsClear`: which blocks there are, and that the last one
  covers the width, is what makes a mask of it enough. The operations fall in
  two groups. Those that mask (`resize_to`, `set`, `flip`, `<<=`, `rotate`,
  `transform`, raw blocks) leave a clear tail whatever they find. Those that
  do not (`set(n, len)`, `>>=`, `reverse`, `append`, every write at a position,
  `&=`, `-=`, and `|=`, `^=` once admitted) keep a tail that was clear: the
  lemmas of `BlockStorageProofs` say which positions each can reach.

- `StoredCountStaysExact`: `Spec => []StoredCountExact`. Inductive with the two
  before it, and not without them: `set()` counts the width, which is the number
  of positions only where the tail is none, and a shift up counts what it will
  drop from positions below the width. The code moves the count by increments.
  `BlockStorageProofs` says of every member function which positions it leaves
  set; `BitBlockContainerProofs` says that
  what the calls count of a range is the number of those positions in it
  (`CountedPositions`), so that an increment is right when it is the number of
  positions that come or go.
- `EqualityIsOfBits`: `Spec => []EqualIffSameBits`. Blocks with the same
  positions are the same blocks, and a width and its positions determine the
  count, so the memberwise `operator==` compares the value and nothing else.
- `ContainerIsBitString`: `Spec => ImplementsBitString`, the refinement, with
  `width <- m_size` and `bits` the positions of the blocks. One lemma for each
  action, or pair of actions, says that the step is the abstract one of its
  name (`ResizeSteps`, `AssignSteps`, `CombineSteps`, ...), with the
  invariants assumed before it: the abstract `SetAll`, for one, has `0 .. width - 1`,
  which the blocks have only since the last of them is masked. A refused call
  maps to the abstract failure, which leaves every string alone.
- `ReserveIsAPromise`: `Spec => ReservedNeverThrows`. A call is refused for more
  blocks than the allocation has or for a width past the capacity in the type;
  that the blocks a width needs grow with it (`BlocksForMonotone`), and that whole
  blocks need no block more (`BlocksForWhole`), turn that into positions. A
  `grow_to_admit` asks for one past a highest position, at most the other's
  width since the other's tail is clear.

- `ScansFindNearest`: `Spec => []ScansExact`. What is left of the block a scan
  begins in and the blocks beyond it decide, one lemma for each scan
  (`InclusiveFindNext`, `ExclusiveFindNext`, `TotalFindPrev`, `ExclusiveFindPrev`),
  and the arms for one block, two and any number agree because each is shown to
  find the same position. It needs the tail clear: a stray bit past the width
  would be found before the end.
- `RangesAreCounted`: `Spec => []ReductionsExact`. A block read at any position
  holds the positions from there (`BlockRead`), and each position of a range is of
  one window and no other (`WindowsCover`). `count_range` is a recursive function of
  the set of its windows: the number of positions they hold satisfies its equation
  (`WindowTaken`), and no other function does, since a smallest set on which two
  differed would have a smaller one (`SumsAgree`).
- `SearchesAnswer`: `Spec => [](SearchesExact /\ EverySearchExact)`. The run asks
  windows that start at a few places of containers of a few blocks
  (`SearchesExact`); the theorem asks every window of every container
  (`EverySearchExact`). A step's block, turned over where false is sought and cut
  off at the window's end, holds the distances that answer (`StepMatches`), and a
  step is never less than a block from the next (`StepsApart`), so the lowest bit
  of the first hit is the first of all (`ValueFound`). Whether a window is
  partitioned or sorted is asked as a second search from where the first
  ended: that is enough because nothing before that answers (`PartedAt`).
- `RewritesLeave`: `Spec => [](RewritesExact /\ EveryRewriteExact)`, of windows
  likewise, of every shift and of every middle. Sort and partition count first
  and then set two ranges that meet where the count says (`TwoRangesSet`); the
  whole-container algorithms are the storage's member functions, whose positions
  `BlockStorageProofs` gives. A shift right needs the mask the code ends with
  (`MaskedTail`), a shift left none.
- `DifferencesAreFirst`: `Spec => []DifferencesExact`. The lowest bit of the first
  xor that is not zero is the first position that only one side holds
  (`LowestOfBlock`), and past its own blocks a storage reads as clear
  (`PaddedBlocks`). What is held above a position is asked with the position's own
  bit shifted in (`HeldAbove`): that is right only because the callers ask it of a
  clear one, which the property says and the lemma needs.
- `EqualityIsOfPositions`: `Spec => []EqualityExact`, of two containers of any two
  widths. A word is put together from the positions it covers, cut off at the
  width (`WordRead`), whatever number of blocks it spans; two storages that
  agree on every word agree on every position, each being of some word (`WordOf`).
  Equality by blocks needs the blocks past the shorter to be zero
  (`BlocksCovered`), and a mismatch in the padding of the shorter to be passed
  over (`MismatchFound`); its instance for blocks of three, which the run
  evaluates, is proved from its definitions (`ThreesMismatch`).
- `CopiesAreExact`: `Spec => [](CopiesExact /\ EveryCopyExact)`, of any two windows
  of one length in two containers of any two widths, where the run asks the first
  few. Each algorithm is a fold over its steps, a block at a time: where a closed
  form of the steps taken satisfies the fold's equation it is the fold
  (`FoldsAgree`), since of the finite sets of steps on which the two differed a
  smallest would have a smaller one. For the writes that form is the target with
  the steps' bools laid down (`WrittenUp`), whatever blocks are written, so each
  algorithm has only its blocks to answer for. A swap reads both sides as they
  are on the way, so its form is of both at once, and a step's part of the one
  is still what it was when it started because no other step's is the same
  (`BothMore`, `StepUnique`).
- `TransfersStayExact`: `Spec => []TransfersExact`. An assignment of blocks has a
  lemma that says what it holds and what it may refuse (`BuiltIn`,
  `AssignedBlocks`, `CopiedBlocks`, `MovedBlocks`, `TakenBlocks`), a transfer one
  that says what becomes of both sides (`CopiedOutcome`, `MovedOutcome`, ...), for
  any two containers with the class invariant, full of ones or not; that those
  over a reachable container have it is `OverWhole`, from `TypeOK` and the clear
  tail. It says nothing of the source of a refused move under another allocator:
  that is `MovedFromTailClear`, which fails.

- `LoopsTyped`, `NothingReadIsOverwritten`, `LoopsMoveExactly`: `MCSpec` implies
  `[]TypeOK`, `[]SourceIntact` and `[]MovesExactly` of the in-place loops, for
  every number of blocks and every word that counts twice their bits
  (`SizeModAssumption`). The inductive invariant `LoopInv` says, for each loop,
  that the blocks on one side of the index are those of the function of
  `BlockStorage` of its name and those on the other are the ones the loop found
  (`Split`), or, where chunks of positions move, which positions of the target
  already hold the source's (`Moved`); TLC found it true of blocks of two bits
  and of three before it was proved. `SourceIntact` follows because what is still
  to be read is on the side not yet written. The directions come in where a
  chunk must not read a position already moved (`ChunkMoved`): lowest first with
  the target below the source, highest first above it, which is what
  `std::copy` and `std::copy_backward` ask of their callers. The index that
  counts down past zero is shown to wrap to the top of the word, which no
  number of chunks reaches (`Wraps`, `Chunks`). `MovesExactly` is then
  what `BlockStorageProofs` proves of each function, so the one-step shifts,
  rotation and reversal of `BitBlockContainer` are what its loops do.

- `SetTypeCorrect`, `SetUnusedBitsStayClear`, `SetStoredCountStaysExact`,
  `AdmittedBeforeCombined`: the same three for `SetSpec`, and `Admitted`. The
  inductive invariant `SetInv` adds to `TypeOK`, `UnusedBitsClear` and
  `StoredCountExact` what a call left half done relies on
  (`PendingOK`): above all that the other side of a pending `|=` or `^=` has
  been admitted, which holds because `grow_to_admit` widens to one past the
  other's highest position (`FindBackHighest`) or, at a static width, because
  both tails are clear (`SameWidthAdmits`). Each step is then a step of the
  storage's own `Next` (`GrowingInsertStep`, `SetRangeStep`, ...), refused, or
  the mask of one key (`MaskKeeps`); widths beyond those `Next` ranges over are
  shown to be refused (`GrantedWithin`). So the storage's theorems, which
  assume `admits`, carry over to a reading that assumes nothing.
- `SetsAreKeySets`: `SetSpec => ImplementsKeySet`. The keys of the abstract set
  are the positions, all of them, and while a call is under way those it had
  when the call began (`KeysNow`); the abstract step is the one that answers or
  throws. `BitStringProofs` says what each call of the storage leaves of a width
  and positions (the lemmas named `...Leaves` put it in those words), and the
  invariant `KeyInv` adds to `SetInv` that every position is a key of the
  universe (`HeldAreKeys`) and, for each call that can be half done, what it has
  done so far (`PendingExact`): `SpanExact`, an insertion of consecutive keys has
  inserted the last; `EachExact`, the keys up to here; `EraseIfExact`, `erase_if`
  stands at a key of those it began with, or at the end, and has erased the chosen
  ones before it, and the count it began with is theirs; `CombineExact`,
  `KeepExact` and `ShiftExact`, room has been made, the rest cleared, the width
  set. One lemma for each action (`DoInsertKeeps`, `EraseIfNextKeeps`, ...) gives
  the invariant, the abstract step and `EndMoves` at once.
- `LookupsStayExact`: `SetSpec => []LookupsExact`, from `KeyInv` and the lemmas on
  the scans: each finds the first or the last of the positions it is to search,
  and the width where there are none. The lookups are then what `KeyLookups`, `EquivalentLookups` and `Iteration`
  work out of them, in either direction. `HeldAreKeys` is needed: a value that is
  no key is ranked at the universe's size, past which no position may lie.
- `HeldEndStays`: `SetSpec => HeldEndMovesForKeys`, from the same lemmas.

- `SplicingIsExact`, `ThrowsHaveNoEffects`, `ThrowsKeepPrefixes`: `MCSpec`
  of `MCSequenceAdaptor` implies `[]SplicedExactly`, `[]ThrowHasNoEffects` and
  `[]ThrowKeepsPrefix`, for every sequence and source the storage can hold
  (`WidthsAssumption`) and every way an allocation or an element can fail. None
  of the three is inductive: they speak of the two ends of a call and say nothing
  of its middle. The invariant `SequenceInv` adds the types, the clear tail, what
  was held when the call began (`Began`), and for each place the code can be at
  what it has done (`Progress`). Appending, the sequence is what it was, joined
  with the first elements of the range (`Blitting`, `Packing`, `Pushing`), the
  gathered ones waiting in a block; `RoomMade` and `RoomAhead` say that room
  for the whole range was made before the first of it, which is why no later
  block can be refused and a blit needs no way back (`TakingBack` is that of
  the ranges which have no count). Shifting, the tail is up from `width - i` on
  (`ShiftingUp`), then the first `i` positions of the gap are laid
  (`Laid`), and closing, the first `i` of the tail are down (`Down`).
  What is read is what it was when the call began, though the sequence it is
  read from may be the one that grows (`ReadsStart`): that is what a window
  of the sequence itself relies on, appended as blocks or rebuilt. There is
  one lemma for each step of the code (`BlitStep`, `ShiftTailStep`,
  `CloseGapStep`, ...); that the shift goes from the top down, and the closing from
  the foot up, comes in where the next block must not have been written
  (`UpMore`, `DownMore`).

Assumed of sequences besides: there are the sequence, the one a rebuild makes and
the source, in storage that is not static and keeps no count
(`ContainersAssumption`). How wide the word is these proofs do not ask: a sum of
widths that would pass the top stays there (`width_sum`), and is refused
(`WidthSum`).

Assumed of sets besides: a closed universe over a fixed capacity has its size
(`KeyAssumption`), the widths that can be granted lie below what a word counts
(`StorageAssumption`), and the most a heap can count lies below the top of a word,
as it does where a block is more than one bit (`WordAssumption`).

Only model-checked: that a valarray implements `BoolArray`; the orders, whose
reference sorts the keys and whose words are sums of powers of two, as those of
`WordsExact` are; the algorithms' walks, the permutations, the selections,
conversions and hashes, most of them folds over blocks, each an induction of its
own that cannot be had from a theorem of the library; and liveness
(`EveryCallEnds`, `Terminates`), which the prover does not do.

## Plan

In order; each step is a module with its runs, then its theorems.

Done: the storage, its loops, queries, transfers and theorems, the sequence reading's range
calls, the set and valarray readings, the algorithms, selections, conversions,
hashes and comparisons. Left:

1. `Valarray`'s theorems, whose whole-array calls are the container's steps.
2. The sequence's iterators and proxies, which are a container and an index, and
   `remove_if`'s erase.
3. The set operators between two storages of different blocks, word by word.

## Not modelled

A container over a borrowed span (it owns no width to keep); an uninitialised
static container, whose bits are indeterminate until written; formatting,
serialization and interoperation, but for conversions from and to
`boost::dynamic_bitset` and `std::valarray<bool>`; `boost::small_vector`'s own
storage inside an object; what only the compiler sees (concepts, traits,
`noexcept` specifications). Of the algorithms, the overloads that fall back on
`std::ranges` for another library's iterators. Of the valarrays, the dynamic
one's allocations: it makes the same values in storage it asks for first. Keys
near the top of `std::size_t` are in the runs of sets; widths near it are not,
since no allocation of the models grants them. Of the sets: the operators between
two storages, the constructors that adopt or deduce, and views, which forward the
calls of an owner to a storage they borrow.
