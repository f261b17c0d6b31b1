------------------------------ MODULE MCLayouts ------------------------------
(***************************************************************************)
(* Conversions and hashes against the positions alone, for every value of  *)
(* the containers MCBlockScans reaches and of the same value in blocks of  *)
(* half and of twice their width; and the masks against sets of flags.     *)
(***************************************************************************)
EXTENDS MCAlgorithms, Hashing

Digits == {bits_per_block \div 2, bits_per_block, 2 * bits_per_block}

InBlocks(s, n, digits) ==
    [i \in 0 .. divided_up(n, digits) - 1 |-> {o \in 0 .. digits - 1 : i * digits + o \in s}]

PlacesIn(b, digits) == UNION {{i * digits + o : o \in b[i]} : i \in DOMAIN b}

\* What is made holds these positions, in as many blocks as its width needs
\* and none of them at or past the width.
Holds(result, digits, content, size) ==
    /\ result.outcome = "ok" /\ result.size = size
    /\ DOMAIN result.blocks = 0 .. divided_up(size, digits) - 1
    /\ PlacesIn(result.blocks, digits) = content

Capacities == {Unbounded, 3, bits_per_block, 2 * bits_per_block}

Least(n, cap) == IF cap = Unbounded THEN n ELSE Min({n, cap})

\* A source of each kind with the positions it stands for.
SourcesOf(x) ==
    LET size == m_size[x]
        laid_out(kind) == {<<source(kind, InBlocks(Ones(x), size, d), d, size, N, 0), Ones(x)>> : d \in Digits}
    IN  UNION {laid_out("set"), laid_out("sequence"), laid_out("fixed"),
               {<<source("window", m_blocks[x], bits_per_block, w[2], N, w[1]),
                  {k \in 0 .. w[2] - 1 : Bit(x, w[1] + k)}>> : w \in Window(size)}}

\* A conversion keeps every position, in blocks of any width, or throws: into
\* a set exactly when its capacity loses a key, into a sequence when it cannot
\* have the width, into a fixed width exactly when a position past it is set.
ConversionsExact ==
    \A x \in {x \in Obj : Asked(x)} : \A pair \in SourcesOf(x) : \A d \in Digits :
        LET s == pair[1]  content == pair[2]  width == source_width(s) IN
        /\ \A cap \in Capacities :
            LET as_set == bit_convert(s, "set", d, cap, 0, FALSE)
                as_sequence == bit_convert(s, "sequence", d, cap, 0, FALSE)
                size == Least(divided_up(width, d) * d, cap)
            IN  /\ IF \E p \in content : p >= size
                   THEN as_set.outcome = "bad_alloc" ELSE Holds(as_set, d, content, size)
                /\ IF Least(width, cap) < width
                   THEN as_sequence.outcome = "bad_alloc" ELSE Holds(as_sequence, d, content, width)
        /\ \A n \in {0, 1, 3, bits_per_block, bits_per_block + 2, 2 * bits_per_block + 1} :
            LET fixed == bit_convert(s, "fixed", d, Unbounded, n, FALSE)
            IN  s.kind # "fixed" \/ width <= n =>
                    IF \E p \in content : p >= n
                    THEN fixed.outcome = "overflow_error" ELSE Holds(fixed, d, content, n)
        /\ s.kind \in {"set", "sequence"} =>
            /\ Holds(bit_convert(s, "sequence", s.digits, Unbounded, 0, TRUE), s.digits, content, width)
            /\ Holds(bit_convert(s, "set", s.digits, Unbounded, 0, TRUE), s.digits, content,
                     Min({num_blocks(s.blocks) * s.digits, N}))
        /\ bools_unpacked(s) = [i \in 1 .. width |-> i - 1 \in content]
        /\ s.kind # "window" =>
            /\ bools_packed(bools_unpacked(s), cleared(width, d), d) = InBlocks(content, width, d)
            /\ block_sink(s.blocks, s.digits, cleared(m_size[x], d), d) = InBlocks(content, m_size[x], d)
            /\ \A i \in DOMAIN cleared(m_size[x], d) :
                  gather_block(s.blocks, s.digits, d, i) = InBlocks(content, m_size[x], d)[i]

(***************************************************************************)
(* Masks: words wider than a block, against sets of every width they hold.   *)
(***************************************************************************)
Word == bits_per_block + bits_per_byte

MaskOps == {"and", "or", "xor", "minus"}

Meant(op, s, mask) ==
    CASE op = "and" -> s \cap mask [] op = "or" -> s \cup mask
      [] op = "xor" -> bit_xor(s, mask) [] op = "minus" -> s \ mask

\* A set of flags keeps and loses what any value of its mask type says, takes in
\* what a value within its width says, equals only such a value, and is one.
MasksExact ==
    \A x \in {x \in Obj : m_size[x] \in 1 .. Word} : \A mask \in SUBSET (0 .. Word - 1) :
        LET b == m_blocks[x]  n == m_size[x]
            low == {p \in mask : p < n}
        IN  /\ Positions(low_bits_of(mask, Word, n)) = low
            /\ fits(mask, Word, n) <=> mask = low
            /\ \A op \in IF mask = low THEN MaskOps ELSE {"and", "minus"} :
                Positions(mask_combined(op, b, mask, Word, n)) = Meant(op, Ones(x), mask)
            /\ equals_mask(b, mask, Word, n) <=> Ones(x) = mask
            /\ as_mask(low_bits_of(mask, Word, n), n, Word) = low
            /\ mask = low =>
                /\ Positions(mask_minus(mask, b, Word, n)) = mask \ Ones(x)
                /\ Positions(mask_list(<<mask, Ones(x)>>, Word, n)) = mask \cup Ones(x)
            /\ is_flag(mask, n) <=> \E p \in 0 .. n - 1 : mask = {p}

\* Whatever carries bits from one layout to another, blocks, strings of bytes
\* or the words of a mask, carries every position, or says what it would lose.
LayoutsExact == ConversionsExact /\ MasksExact

(***************************************************************************)
(* Hashes.                                                                 *)
(***************************************************************************)
BoolsOf(x) == [i \in 1 .. m_size[x] |-> <<"bool", Bit(x, i - 1)>>]

StringOf(s, n) == [j \in 1 .. n |-> <<"byte", {o \in 0 .. bits_per_byte - 1 : (j - 1) * bits_per_byte + o \in s}>>]

LastByte(s) == IF s = {} THEN 0 ELSE (Max(s) \div bits_per_byte) + 1

\* Equal values write equal messages and different ones different, whatever
\* blocks hold them: a sequence's is its bools and its size, a run-time set's
\* has nothing of its width, and a range of planes writes plane after plane.
HashesExact ==
    \A x \in {x \in Obj : Asked(x)} : \A d \in Digits : \A copies \in BOOLEAN :
        LET size == m_size[x]  b == m_blocks[x]
            c == InBlocks(Ones(x), size, d)
            n == byte_count(size)
        IN  /\ hash_append_bools(c, d, size, FALSE) = BoolsOf(x) \o SizeOf(size)
            /\ hash_append_bools(c, d, size, TRUE) = IF size = 0 THEN Nul ELSE BoolsOf(x)
            /\ hash_append_bit_string("sequence", b, size, c, d, FALSE, copies)
                  = StringOf(Ones(x), n) \o SizeOf(size)
            /\ hash_append_bit_string("set", b, size, c, d, FALSE, copies)
                  = StringOf(Ones(x), LastByte(Ones(x))) \o SizeOf(LastByte(Ones(x)))
            /\ hash_append_bit_string("set", b, size, c, d, TRUE, copies)
                  = IF size = 0 THEN Nul ELSE StringOf(Ones(x), n)
            /\ hash_append_keys(walk_keys_up(b), count_blocks(b))
                  = [i \in DOMAIN upward(Ones(x)) |-> <<"key", upward(Ones(x))[i]>>] \o SizeOf(Cardinality(Ones(x)))
            /\ size > 0 => hash_append_bit_planes(<<c, c>>, d, size, copies, FALSE)
                              = StringOf(Ones(x), n) \o StringOf(Ones(x), n) \o SizeOf(2)

=============================================================================
