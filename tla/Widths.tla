------------------------------- MODULE Widths -------------------------------
(***************************************************************************)
(* std::size_t, in which a width, a position and a count are all kept, as  *)
(* a machine word of SizeMod values, and the ceilings on a width.          *)
(***************************************************************************)
EXTENDS Blocks

CONSTANT SizeMod    \* one past the top of std::size_t

ASSUME SizeModAssumption == SizeMod \in Nat \ {0}

top == SizeMod - 1

\* The whole blocks a std::size_t can count, and a difference_type.
max_width == (top \div bits_per_block) * bits_per_block

max_addressable_width == (((SizeMod \div 2) - 1) \div bits_per_block) * bits_per_block

\* Mutation: the sum wraps round, and passes the ceiling it should fail.
width_sum_wrapping(width, count) == (width + count) % SizeMod

width_sum(width, count) == IF count > top - width THEN top ELSE width + count

=============================================================================
