------------------------ MODULE MCBitBlockContainer -------------------------
(***************************************************************************)
(* bit_block_container checked on small instances: what a reserved         *)
(* capacity promises, and that the container implements BitString.         *)
(***************************************************************************)
EXTENDS BitBlockContainer

\* The history of the last call is not part of a state's identity: no action
\* reads it, and the properties that do are action properties, which are
\* checked on every step.
View == contents

(***************************************************************************)
(* Actions.                                                                *)
(***************************************************************************)
\* The width a growing call asks for, in positions.
Asked ==
    CASE call'.op \in {"resize", "reserve"} -> call'.args[1]
      [] call'.op = "push_back"      -> m_size[call'.x] + 1
      [] call'.op = "append"         -> m_size[call'.x] + bits_per_block
      [] call'.op = "growing_insert" -> call'.args[1] + 1
      [] OTHER                       -> m_size[call'.args[1]]

Growing == {"resize", "reserve", "push_back", "append", "growing_insert", "copy_assign", "grow_to_admit"}

\* capacity() is in positions, and it is a promise: a call that needs no more
\* positions than it names never throws, which is what reserve is for.
ReservedNeverThrows ==
    [][call'.outcome = "bad_alloc" /\ call'.op \in Growing =>
        Asked > IF Kind = "dynamic" THEN capacity[call'.x] * bits_per_block ELSE N]_vars

(***************************************************************************)
(* Refinement: the string of a container is its width and its positions.   *)
(* The positions are not cut off at the width, so that a bit in the unused *)
(* tail is no bit string.                                                  *)
(***************************************************************************)
String == INSTANCE BitString WITH
    Chunk       <- bits_per_block,
    MoveEmpties <- has_stored_size,
    width       <- m_size,
    bits        <- [x \in Obj |-> Positions(m_blocks[x])]

\* Every call does to the width and the positions what the abstract bit string
\* does, answers what it answers, and leaves everything alone when it throws.
ImplementsBitString == String!Spec

=============================================================================
