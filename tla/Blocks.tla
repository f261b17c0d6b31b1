------------------------------- MODULE Blocks -------------------------------
(***************************************************************************)
(* One block of bits: an unsigned integer of bits_per_block digits, held   *)
(* as the set of the offsets whose bit is one.  The bitwise operators of   *)
(* the source are then those of sets: & is \cap, | is \cup, ~b is          *)
(* ones \ b, and ^ is the symmetric difference below.                      *)
(***************************************************************************)
EXTENDS Integers, FiniteSetsExt

CONSTANT bits_per_block

ASSUME BitsPerBlockAssumption == bits_per_block \in Nat \ {0}

Offset == 0 .. bits_per_block - 1

Block == SUBSET Offset

zero == {}
ones == Offset

left_bit == bits_per_block - 1

complement(b) == ones \ b

bit_xor(a, b) == (a \ b) \cup (b \ a)

\* A shift is defined for n < bits_per_block only; every call in the source
\* keeps to that, and beyond it this definition shifts everything out.
shl(b, n) == {o \in Offset : o - n \in b}
shr(b, n) == {o \in Offset : o + n \in b}

\* The low count offsets, 1 <= count <= bits_per_block.
partial_block_mask(count) == {o \in Offset : o < count}

popcount(b) == Cardinality(b)

\* An empty block counts every digit from either end.
countr_zero(b) == IF b = zero THEN bits_per_block ELSE Min(b)
countl_zero(b) == IF b = zero THEN bits_per_block ELSE left_bit - Max(b)

\* The lowest, and the highest, set offset cleared; the block is not zero.
drop_lowest(b)  == b \ {countr_zero(b)}
drop_highest(b) == b \ {left_bit - countl_zero(b)}

\* The bits of a block end for end.
reversed(b) == {o \in Offset : left_bit - o \in b}

=============================================================================
