-------------------------------- MODULE Bits --------------------------------
(***************************************************************************)
(* SETBIT, GETBIT, BITCOUNT, BITPOS, BITFIELD, SETRANGE and BITOP on the   *)
(* bytes of a string.  A string is a sequence of bytes of ByteBits bits    *)
(* (8 in the code), bit 0 the most significant of the first byte.  Numbers *)
(* are two's-complement integers of WordBits bits (64 in the code).        *)
(***************************************************************************)
EXTENDS Integers, Sequences, SequencesExt, FiniteSetsExt

CONSTANTS ByteBits, WordBits

ASSUME BitsAssumption == ByteBits \in Nat \ {0} /\ WordBits \in Nat \ {0}

Pow(n) == 2^n

\* An integer as int64 holds it.
Word(x) == ((x + Pow(WordBits - 1)) % Pow(WordBits)) - Pow(WordBits - 1)

\* 1 << n as an int64.
Shifted(n) == IF n >= WordBits THEN 0 ELSE Word(Pow(n))

bitAt(data, i) == (data[i \div ByteBits + 1] \div Pow(ByteBits - 1 - (i % ByteBits))) % 2

withBit(data, i, bit) ==
    [data EXCEPT ![i \div ByteBits + 1] = @ + (bit - bitAt(data, i)) * Pow(ByteBits - 1 - (i % ByteBits))]

\* make([]byte, n) and copy, when the string is shorter than n bytes.
extended(data, n) == [i \in 1..Max({n, Len(data)}) |-> IF i <= Len(data) THEN data[i] ELSE 0]

-----------------------------------------------------------------------------

setBit(data, offset, bit) ==
    LET grown == extended(data, offset \div ByteBits + 1)
    IN  [value |-> withBit(grown, offset, bit), reply |-> bitAt(grown, offset)]

getBit(data, offset) == IF Len(data) <= offset \div ByteBits THEN 0 ELSE bitAt(data, offset)

setRange(data, offset, bytes) ==
    LET grown == extended(data, offset + Len(bytes))
    IN  [value |-> [i \in DOMAIN grown |-> IF i - offset \in DOMAIN bytes THEN bytes[i - offset] ELSE grown[i]],
         reply |-> Len(grown)]

\* Mutant of Clamped: the end is not clamped to the last unit.
ClampedLow(start, end, n) ==
    Max({IF start < 0 THEN n + start ELSE start, 0})..(IF end < 0 THEN n + end - 1 ELSE Min({end, n - 1}))

\* The units from start to end, negative ones counting from the last.
Clamped(start, end, n) ==
    Max({IF start < 0 THEN n + start ELSE start, 0})..Min({IF end < 0 THEN n + end ELSE end, n - 1})

BitsOf(byte) == [j \in 0..(ByteBits - 1) |-> (byte \div Pow(ByteBits - 1 - j)) % 2]

bitCount(data, start, end, useBit) ==
    IF useBit
    THEN Cardinality({i \in Clamped(start, end, Len(data) * ByteBits) : bitAt(data, i) = 1})
    ELSE MapThenSumSet(LAMBDA i : Cardinality({j \in 0..(ByteBits - 1) : BitsOf(data[i + 1])[j] = 1}),
                       Clamped(start, end, Len(data)))

\* The first such bit of the range.  In byte mode, when the range ends before
\* the string does and holds no 0, the bit after the range.
bitPos(data, bit, start, end, useBit) ==
    LET bytes == Clamped(start, end, Len(data))
        hits == {i \in 0..(Len(data) * ByteBits - 1) :
                    /\ IF useBit THEN i \in Clamped(start, end, Len(data) * ByteBits)
                       ELSE i \div ByteBits \in bytes
                    /\ bitAt(data, i) = bit}
        last == Min({IF end < 0 THEN Len(data) + end ELSE end, Len(data) - 1})
    IN  IF Len(data) = 0 THEN (IF bit = 0 THEN 0 ELSE -1)
        ELSE IF hits # {} THEN Min(hits)
        ELSE IF bit = 0 /\ ~useBit /\ last < Len(data) - 1 THEN (last + 1) * ByteBits
        ELSE -1

\* Two bytes bit by bit.
Bitwise2(op, a, b) ==
    MapThenSumSet(LAMBDA j : Pow(ByteBits - 1 - j) *
                      LET x == BitsOf(a)[j]  y == BitsOf(b)[j]
                      IN  CASE op = "AND" -> x * y
                            [] op = "OR"  -> Max({x, y})
                            [] op = "XOR" -> (x + y) % 2,
                  0..(ByteBits - 1))

\* BITOP on the values of the source keys, padded to the longest.
bitOp(op, values) ==
    LET maxLen == Max({Len(values[i]) : i \in DOMAIN values})
        padded == [i \in DOMAIN values |-> extended(values[i], maxLen)]
        Fold(base, vs) == [j \in 1..maxLen |-> FoldLeft(LAMBDA acc, v : Bitwise2(op, acc, v[j]), base[j], vs)]
    IN  CASE op = "AND" -> Fold(padded[1], Tail(padded))
          [] op = "NOT" -> [j \in 1..maxLen |-> Pow(ByteBits) - 1 - padded[1][j]]
          [] OTHER      -> Fold([j \in 1..maxLen |-> 0], padded)

-----------------------------------------------------------------------------
(* BITFIELD.  A subcommand is [type, signed, width, offset, value, mode].    *)

getBitField(data, offset, width, signed) ==
    LET raw == MapThenSumSet(LAMBDA i : IF (offset + i) \div ByteBits < Len(data)
                                        THEN bitAt(data, offset + i) * Pow(width - 1 - i) ELSE 0,
                             0..(width - 1))
    IN  IF signed /\ raw >= Pow(width - 1) THEN raw - Pow(width) ELSE Word(raw)

\* value >> n & 1 is the same bit of the two's-complement form.
setBitField(data, offset, width, value) ==
    FoldLeft(LAMBDA acc, i : withBit(acc, offset + i - 1,
                                     ((value % Pow(WordBits)) \div Pow(width - i)) % 2),
             data, [i \in 1..width |-> i])

bitfieldBounds(width, signed) ==
    IF signed THEN [min |-> Word(-Shifted(width - 1)), max |-> Word(Shifted(width - 1) - 1)]
    ELSE [min |-> 0, max |-> Word(Shifted(width) - 1)]

\* The two loops of wrapBitfield, in int64 arithmetic.
RECURSIVE intoRange(_, _)
intoRange(v, max) ==
    IF v >= max THEN intoRange(Word(v - Word(max * 2)), max)
    ELSE IF v < -max THEN intoRange(Word(v + Word(max * 2)), max)
    ELSE v

wrapBitfield(v, width, signed) ==
    IF width >= WordBits THEN v
    ELSE IF signed THEN intoRange(v, Shifted(width - 1))
    ELSE v % Pow(width)

\* The value to store; ok is FALSE when FAIL rejects it.
bitfieldResolveOverflow(mode, high, low, wrapped, b) ==
    CASE ~high /\ ~low   -> [ok |-> TRUE, v |-> wrapped]
      [] (high \/ low) /\ mode = "SAT"  -> [ok |-> TRUE, v |-> IF high THEN b.max ELSE b.min]
      [] (high \/ low) /\ mode = "FAIL" -> [ok |-> FALSE, v |-> 0]
      [] (high \/ low) /\ mode = "WRAP" -> [ok |-> TRUE, v |-> wrapped]

\* Mutant of increment: the overflow of the 64-bit sum goes unnoticed.
incrementUnchecked(old, by, mode, width, signed) ==
    LET sum == Word(old + by)
        b   == bitfieldBounds(width, signed)
    IN  bitfieldResolveOverflow(mode, sum > b.max, sum < b.min, wrapBitfield(sum, width, signed), b)

\* INCRBY: the sum may overflow int64 itself.
increment(old, by, mode, width, signed) ==
    LET sum == Word(old + by)
        b   == bitfieldBounds(width, signed)
        addOverflow == (by > 0 /\ sum < old) \/ (by < 0 /\ sum > old)
        high == (addOverflow /\ by > 0) \/ (~addOverflow /\ sum > b.max)
        low  == (addOverflow /\ by < 0) \/ (~addOverflow /\ sum < b.min)
    IN  bitfieldResolveOverflow(mode, high, low, wrapBitfield(sum, width, signed), b)

\* The value a SET or INCRBY would store.
newField(op, old, b) ==
    IF op.type = "INCRBY" THEN increment(old, op.value, op.mode, op.width, op.signed)
    ELSE bitfieldResolveOverflow(op.mode, op.value > b.max, op.value < b.min, op.value, b)

\* The reply is a sequence of one number, or empty for nil.
storeField(op, grown, old, new) ==
    IF new.ok THEN [data |-> setBitField(grown, op.offset, op.width, new.v),
                    reply |-> <<IF op.type = "SET" THEN old ELSE new.v>>, modified |-> TRUE]
    ELSE [data |-> grown, reply |-> <<>>, modified |-> FALSE]

subcommand(op, grown, old) ==
    IF op.type = "GET" THEN [data |-> grown, reply |-> <<old>>, modified |-> FALSE]
    ELSE storeField(op, grown, old, newField(op, old, bitfieldBounds(op.width, op.signed)))

\* One subcommand on the buffer, which every subcommand first extends.
bitFieldStep(data, op) ==
    LET grown == extended(data, op.offset \div ByteBits
                                + (op.width + (op.offset % ByteBits) + ByteBits - 1) \div ByteBits)
    IN  subcommand(op, grown, getBitField(grown, op.offset, op.width, op.signed))

withSubcommand(st, r) ==
    [data |-> r.data, replies |-> Append(st.replies, r.reply), modified |-> st.modified \/ r.modified]

\* The whole command: written back only when some subcommand modified it.
bitField(data, ops) ==
    LET end == FoldLeft(LAMBDA st, op : withSubcommand(st, bitFieldStep(st.data, op)),
                        [data |-> data, replies |-> <<>>, modified |-> FALSE], ops)
    IN  [value |-> IF end.modified THEN end.data ELSE data, replies |-> end.replies]

=============================================================================
