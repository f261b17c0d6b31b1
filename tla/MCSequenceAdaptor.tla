------------------------- MODULE MCSequenceAdaptor --------------------------
(***************************************************************************)
(* The range modifiers of SequenceAdaptor against the sequence they are to *)
(* leave, for every small sequence, source and position, with every        *)
(* allocation granted or refused and every element readable or not.        *)
(***************************************************************************)
EXTENDS SequenceAdaptor

CONSTANTS
    MaxWidth,   \* the widest sequence a call starts from
    MaxSource   \* the widest source

\* Each is a width the storage can hold.
ASSUME WidthsAssumption == MaxWidth \in 0 .. Ceiling /\ MaxSource \in 0 .. Ceiling

VARIABLE start  \* what every container held when the call began, a history

Held(x) == [width |-> m_size[x], bits |-> Positions(m_blocks[x])]

MCInit ==
    /\ SequenceInit(0 .. MaxWidth, 0 .. MaxSource)
    /\ start = [x \in Obj |-> Held(x)]

MCNext == (SequenceNext \/ Returns) /\ UNCHANGED start

MCSpec == MCInit /\ [][MCNext]_<<vars, control, start>>

\* No step reads the history of the storage's last call before it is made.
View == <<contents, control, start>>

(***************************************************************************)
(* What a call is to leave.                                                *)
(***************************************************************************)
\* The elements a call brings, and the first k of them.
Length == IF op.name = "erase" THEN 0 ELSE op.range.count

Brought(k) ==
    CASE op.range.tier = "none" -> {o \in 0 .. k - 1 : op.value}
      [] OTHER -> {o \in 0 .. k - 1 : op.range.first + o \in start[op.range.from].bits}

\* The positions [pos, tail) that give way to them.
From  == IF op.name \in {"assign", "assign_range"} THEN 0 ELSE op.pos
Until == CASE op.name \in {"assign", "assign_range"} -> start[v].width
           [] op.name = "erase" -> op.last
           [] OTHER -> op.pos

Spliced(k) ==
    [width |-> start[v].width - (Until - From) + k,
     bits  |-> {p \in start[v].bits : p < From}
               \cup {From + o : o \in Brought(k)}
               \cup {p - Until + From + k : p \in {q \in start[v].bits : q >= Until}}]

\* A call that returns has put the range it was given, and read where the
\* sequence was before the call, in its place: the rest of the sequence keeps
\* its order, and the source is untouched.
SplicedExactly ==
    /\ pc = "done" => Held(v) = Spliced(Length)
    /\ Held(src) = start[src]

\* A call that throws has no effects, unless it assigns or its sized source
\* threw as it was appended: neither does the standard ask that of them.
ThrowHasNoEffects ==
    /\ pc = "threw"
    /\ op.name \notin {"assign", "assign_range"}
    /\ ~(op.name = "append_range" /\ thrown = "source" /\ op.range.tier = "sized")
    => Held(v) = start[v]

\* Whatever throws, the sequence keeps what it held, or, assigned, nothing,
\* followed by the first of the elements, and never a position no one wrote.
ThrowKeepsPrefix ==
    pc = "threw" =>
        \/ Held(v) = start[v]
        \/ \E k \in 0 .. MaxSource : k <= Length /\ Held(v) =
              [Spliced(k) EXCEPT !.bits =
                  {p \in start[v].bits : p < From} \cup {From + o : o \in Brought(k)}]

\* Growth past a capacity throws std::bad_alloc before anything is written,
\* assign(n, value) among the calls that grow.  (A range assigned is excepted
\* where it is documented.)
GrowthRefusedUnwritten ==
    pc = "threw" /\ thrown = "bad_alloc" /\ op.name # "assign_range" => Held(v) = start[v]

=============================================================================
