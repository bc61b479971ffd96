----------------------------- MODULE Algorithms -----------------------------
(***************************************************************************)
(* Calls of the pure parts of the commands (Ranges, Glob, Bits) on every   *)
(* input of the given sets, and what the replies of different commands     *)
(* must agree on.  `call' is the command in progress and its input.        *)
(***************************************************************************)
EXTENDS Ranges, Glob, Bits

CONSTANTS
    Lists,        \* sequences of rows [v, live]; their values also read as strings
    ListRows,     \* sets of rows [idx, v]
    ZSets,        \* sets of rows [member, score]
    Positions,    \* start and stop positions
    ScoreBounds, LexBounds,
    Words,        \* strings to match, as sequences of characters
    PatternsUsed, \* glob patterns
    ByteStrings,  \* string values for the bit commands
    Subcommands,  \* BITFIELD subcommands
    Batches       \* sequences of them

VARIABLE call

Calls ==
    [kind : {"list"}, list : Lists]
    \cup [kind : {"insert"}, rows : ListRows]
    \cup [kind : {"zset"}, z : ZSets]
    \cup [kind : {"score", "lex"}, z : ZSets]
    \cup [kind : {"glob"}, pattern : PatternsUsed]
    \cup [kind : {"bits"}, data : ByteStrings]
    \cup [kind : {"field"}, data : ByteStrings, ops : {<<op>> : op \in Subcommands} \cup Batches]

Idle == [kind |-> "idle"]

AlgInit == call = Idle
Start == call = Idle /\ call' \in Calls
Finish == call # Idle /\ call' = Idle

-----------------------------------------------------------------------------

\* The positions from a to b of n, a negative one counting from the end.
Selected(a, b, n) ==
    LET From(i) == IF i < 0 THEN n + i ELSE i
    IN  {i \in 0..(n - 1) : From(a) <= i /\ i <= From(b)}

Slice(s, a, b) ==
    LET on == Selected(a, b, Len(s))
    IN  [j \in 1..Cardinality(on) |-> s[Min(on) + j]]

\* Every list command reads one sequence of rows: GETRANGE and LRANGE select
\* the positions asked for, whatever their sign and however far out they are,
\* and LPOS finds the positions at which LRANGE shows the element, in order,
\* past the first rank - 1 and within MAXLEN.  LRANGE and LPOS read all the
\* rows and LINDEX only the unexpired ones, so on a list refilled after its
\* expiry LINDEX counts other positions than they do.
ListReadsAgree ==
    call.kind = "list" =>
        LET list == call.list
            all  == Values(list)
            live == Values(SelectSeq(list, LAMBDA r : r.live))
        IN  /\ \A a, b \in Positions : /\ getRange(all, a, b) = Slice(all, a, b)
                                       /\ lRange(list, a, b) = Slice(all, a, b)
            /\ \A a \in Positions : lIndex(list, a) = Slice(live, a, a)
            /\ \A e \in ToSet(all), rank \in 1..3, maxlen \in 0..3 :
                  LET found == lPos(list, e, rank, 0, maxlen)
                      at == {i \in 0..(Len(list) - 1) : lRange(list, i, i) = <<e>>}
                      in == IF maxlen = 0 THEN at ELSE {i \in at : i < maxlen}
                  IN  /\ ToSet(found) = {i \in in : Cardinality({j \in in : j < i}) >= rank - 1}
                      /\ \A i, j \in DOMAIN found : i < j => found[i] < found[j]
                      /\ \A count \in 1..2 :
                           lPos(list, e, rank, count, maxlen) = SubSeq(found, 1, Min({count, Len(found)}))

\* The rank commands agree: ZRANGE and ZREVRANGE are the slices of the same
\* order read both ways, ZRANK and ZREVRANK are the positions at which they
\* find the member, ZREMRANGEBYRANK removes what ZRANGE shows, and ZRANGE REV,
\* which reverses a range counted from the lowest score, is the ZREVRANGE of
\* the mirrored positions.
RankReadsAgree ==
    call.kind = "zset" =>
        LET z == call.z
        IN  /\ \A a, b \in Positions :
                 /\ zRange(z, a, b) = Slice(Ascending(z), a, b)
                 /\ zRevRange(z, a, b) = Slice(Reverse(Ascending(z)), a, b)
                 /\ zRemRangeByRank(z, a, b) = z \ ToSet(zRange(z, a, b))
                 /\ zrangeOp(z, a, b, TRUE) = zRevRange(z, -b - 1, -a - 1)
            /\ \A r \in z : /\ zRange(z, zRank(z, r.member), zRank(z, r.member)) = <<r>>
                            /\ zRank(z, r.member) + zRevRank(z, r.member) = Cardinality(z) - 1

\* Every command that takes positions means the same by them, each over the
\* rows it reads.
IndexReadsAgree == ListReadsAgree /\ RankReadsAgree

\* LINSERT puts the element next to the first pivot and keeps the others in
\* order, or fails and leaves the list as it was, which it never does when
\* there is at most one row to shift.  (With more, the UPDATE of idx may move
\* a row onto its neighbour's key.)
LInsertOutcome ==
    call.kind = "insert" =>
        LET rows == call.rows
            s    == listOf(rows)
            new  == 99
        IN  \A pivot \in ToSet(s), before \in BOOLEAN :
              \A plan \in SetToSeqs(ToShift(rows, pivot, before)) :
                LET p == SelectInSeq(s, LAMBDA e : e = pivot)
                    wanted == IF before THEN SubSeq(s, 1, p - 1) \o <<new>> \o SubSeq(s, p, Len(s))
                              ELSE SubSeq(s, 1, p) \o <<new>> \o SubSeq(s, p + 1, Len(s))
                    got == listOf(lInsert(rows, pivot, new, before, plan))
                IN  \/ got = wanted
                    \/ got = s /\ Len(plan) > 1

\* A score or a member against a bound, the way Redis defines the two kinds.
Above(b, x) == IF b.inf # 0 THEN x >= b.inf * Infinite ELSE x > b.at \/ (~b.open /\ x = b.at)
Below(b, x) == IF b.inf # 0 THEN x <= b.inf * Infinite ELSE x < b.at \/ (~b.open /\ x = b.at)

\* What the offset of 1e-9 gets wrong: it also cuts off the scores closer to
\* an exclusive bound than itself, and it excludes nothing when absorbed.
Blurred(b, x) ==
    /\ b.open /\ b.inf = 0
    /\ IF Plus(b.at, Epsilon) = b.at THEN x = b.at
       ELSE x # b.at /\ b.at - Epsilon < x /\ x < b.at + Epsilon

\* The scores that an exclusive upper bound raised by the offset may let in.
LetIn(b, x) == b.open /\ b.inf = 0 /\ b.at <= x /\ x <= b.at + Epsilon

\* ZRANGEBYSCORE, ZCOUNT and ZREMRANGEBYSCORE take one and the same set of
\* members, in LIMIT pages too: those Redis defines, except that the offset
\* blurs exclusive bounds and that a score of +inf lies beyond their +inf.
\* ZRANGE BYSCORE and ZREVRANGEBYSCORE, each way round, take another such set:
\* they raise an exclusive upper bound too, and nothing is claimed of the
\* members that this lets in.
ScoreReadsAgree ==
    call.kind = "score" =>
        LET z == call.z
        IN  \A lo, hi \in ScoreBounds :
              LET want == {r \in z : Above(lo, r.score) /\ Below(hi, r.score)}
                  got  == ToSet(zrangebyscoreOp(z, lo, hi, 0, -1))
                  wide == ToSet(zrangeByScoreOp(z, lo, hi, FALSE, 0, -1))
              IN  /\ \A r \in z : \/ Blurred(lo, r.score) \/ Blurred(hi, r.score) \/ r.score > Huge
                                  \/ r \in got <=> r \in want
                  /\ \A r \in z : \/ Blurred(lo, r.score) \/ LetIn(hi, r.score)
                                  \/ r \in wide <=> r \in want
                  /\ zcountOp(z, lo, hi) = Cardinality(got)
                  /\ zremrangebyscoreOp(z, lo, hi) = z \ got
                  /\ zrangeByScoreOp(z, lo, hi, FALSE, 0, -1) = Ascending(wide)
                  /\ zrevrangebyscoreOp(z, hi, lo, 0, -1) = Descending(wide)
                  /\ zrangeByScoreOp(z, hi, lo, TRUE, 0, -1) = Descending(wide)
                  /\ \A n \in 1..2 : zrangebyscoreOp(z, lo, hi, 0, n) \o zrangebyscoreOp(z, lo, hi, n, Cardinality(z) + 1)
                                     = Ascending(got)

\* The lexicographic commands agree: ZRANGEBYLEX and ZREVRANGEBYLEX return the
\* same members both ways, those the bounds admit, ZLEXCOUNT counts them, and
\* two LIMIT pages make up the whole.
LexReadsAgree ==
    call.kind = "lex" =>
        LET z == call.z
        IN  \A lo, hi \in LexBounds :
              LET want == {r \in z : Above(lo, r.member) /\ Below(hi, r.member)}
                  up   == zRangeByLex(z, lo, hi, 0, -1)
              IN  /\ ToSet(up) = want
                  /\ \A i, j \in DOMAIN up : i < j => up[i].member < up[j].member
                  /\ zRevRangeByLex(z, lo, hi, 0, -1) = Reverse(up)
                  /\ zLexCount(z, lo, hi) = Cardinality(want)
                  /\ \A n \in 1..2 : zRangeByLex(z, lo, hi, 0, n) \o zRangeByLex(z, lo, hi, n, -1) = up

\* Every command that takes bounds means by them what Redis does, up to the
\* approximation of exclusive score bounds.
BoundReadsAgree == ScoreReadsAgree /\ LexReadsAgree

\* The rows admitted by the bounds in the order of the command, and then LIMIT:
\* a negative count takes the rest.
Admitted(z, by, lo, hi, rev) ==
    LET rows == {r \in z : LET x == IF by = "score" THEN r.score ELSE r.member
                           IN  Above(lo, x) /\ Below(hi, x)}
        up   == IF by = "score" THEN Ascending(rows)
                ELSE SetToSortSeq(rows, LAMBDA p, q : p.member < q.member)
    IN  IF rev THEN Reverse(up) ELSE up

Rest(s, offset, count) ==
    {s[i] : i \in {j \in DOMAIN s : j > offset /\ (count < 0 \/ j <= offset + count)}}

\* ZRANGESTORE puts into another key the rows that Redis's ZRANGE selects with
\* the same arguments, REV and LIMIT included: positions counted from the end
\* REV names, bounds given the other way round with REV, offset and count
\* taken in the order of the command.  Left out are score bounds that blur a
\* score of the set, and an offset with a count that is not positive, which
\* ZRANGESTORE ignores (ZRANGEBYLEX applies it).
StoreMatchesRange ==
    /\ call.kind = "zset" =>
          \A a, b \in Positions, rev \in BOOLEAN :
            LET spec == [by |-> "index", rev |-> rev, start |-> a, stop |-> b, offset |-> 0, count |-> -1]
                rows == Ascending(call.z)
            IN  zRangeStore(call.z, spec, FALSE) = ToSet(Slice(IF rev THEN Reverse(rows) ELSE rows, a, b))
    /\ call.kind \in {"score", "lex"} =>
          LET z == call.z
              by == call.kind
              bounds == IF by = "score" THEN ScoreBounds ELSE LexBounds
          IN  \A lo, hi \in bounds, rev \in BOOLEAN, page \in {<<0, -1>>, <<0, 1>>, <<1, 1>>, <<1, 2>>} :
                LET spec == [by |-> by, rev |-> rev, offset |-> page[1], count |-> page[2],
                             start |-> IF rev THEN hi ELSE lo, stop |-> IF rev THEN lo ELSE hi]
                IN  \/ by = "score" /\ \E r \in z : Blurred(lo, r.score) \/ LetIn(hi, r.score)
                    \/ zRangeStore(z, spec, FALSE) = Rest(Admitted(z, by, lo, hi, rev), page[1], page[2])

\* The matchers find what the pattern means.  The loop of PSUBSCRIBE and the
\* SCAN family never matches more, and misses a match only in a string that
\* itself holds a star; the cache's matcher agrees on patterns with one star
\* and no ? when the string is long enough to hold the fixed parts apart; the
\* LIKE of KEYS, which gets the pattern unescaped, agrees when it has no %, _
\* or backslash.
GlobsAgree ==
    call.kind = "glob" =>
        LET p == call.pattern
        IN  \A s \in Words :
              /\ globMatch(p, s) => Matches(p, s)
              /\ Matches(p, s) /\ ~Contains(s, "*") => globMatch(p, s)
              /\ Cardinality({i \in DOMAIN p : p[i] = "*"}) = 1 /\ ~Contains(p, "?")
                     /\ Len(s) >= Len(p) - 1 => (matchGlob(p, s) <=> Matches(p, s))
              /\ ToSet(p) \cap {"%", "_", "\\"} = {} => (keysMatch(p, s) <=> Matches(p, s))

-----------------------------------------------------------------------------

\* The bit commands agree: BITCOUNT over BYTE units is BITCOUNT over the bits
\* of those bytes; BITPOS, for either bit and in either unit, finds the first
\* such bit of the range, and with none there answers -1, except that BITPOS 0
\* of an empty value answers 0 and BITPOS 0 in bytes may answer a bit outside
\* the range (the one after it, also when an end was given); SETBIT changes one bit and returns the old one; BITOP works
\* bit by bit on values of different lengths.
BitReadsAgree ==
    call.kind = "bits" =>
        LET d == call.data
            n == Len(d)
            B == ByteBits
        IN  /\ \A a, b \in 0..n : bitCount(d, a, b, FALSE) = bitCount(d, a * B, b * B + B - 1, TRUE)
            /\ \A a, b \in 1..n : bitCount(d, -a, -b, FALSE) = bitCount(d, -a * B, (1 - b) * B - 1, TRUE)
            /\ \A a, b \in -5..5, bit \in {0, 1}, useBit \in BOOLEAN :
                 LET range == IF useBit THEN Selected(a, b, n * B)
                              ELSE {i \in 0..(n * B - 1) : i \div B \in Selected(a, b, n)}
                     hits  == {i \in range : getBit(d, i) = bit}
                     p     == bitPos(d, bit, a, b, useBit)
                 IN  IF hits # {} THEN p = Min(hits)
                     ELSE p \notin range /\ (p = -1 \/ (bit = 0 /\ (~useBit \/ n = 0)))
            /\ \A i \in 0..(n * B), bit \in {0, 1} :
                 LET r == setBit(d, i, bit)
                 IN  /\ r.reply = getBit(d, i) /\ getBit(r.value, i) = bit
                     /\ \A j \in 0..(n * B + B) : j # i => getBit(r.value, j) = getBit(d, j)
            /\ \A e \in ByteStrings, i \in 0..(2 * B - 1) :
                 LET x == getBit(d, i)  y == getBit(e, i)
                 IN  /\ getBit(bitOp("AND", <<d, e>>), i) = x * y
                     /\ getBit(bitOp("OR", <<d, e>>), i) = Max({x, y})
                     /\ getBit(bitOp("XOR", <<d, e, d>>), i) = y
                     /\ i < n * B => getBit(bitOp("NOT", <<d>>), i) = 1 - x

\* The whole string as one number, most significant byte first.
AsNumber(data) == FoldLeft(LAMBDA acc, byte : acc * Pow(ByteBits) + byte, 0, data)

\* One BITFIELD subcommand in unbounded arithmetic on that number.
FieldReference(data, op) ==
    LET need  == op.offset + op.width
        bytes == Max({Len(data), (need + ByteBits - 1) \div ByteBits})
        n     == AsNumber(data) * Pow(ByteBits * (bytes - Len(data)))
        unit  == Pow(ByteBits * bytes - need)
        raw   == (n \div unit) % Pow(op.width)
        lo    == IF op.signed THEN -Pow(op.width - 1) ELSE 0
        hi    == lo + Pow(op.width) - 1
        Congruent(x) == CHOOSE y \in lo..hi : (y - x) % Pow(op.width) = 0
        old   == Congruent(raw)
        exact == IF op.type = "INCRBY" THEN old + op.value ELSE op.value
        stored == CASE op.mode = "SAT" -> Max({lo, Min({hi, exact})}) [] OTHER -> Congruent(exact)
        nil   == op.mode = "FAIL" /\ exact \notin lo..hi
    IN  IF op.type = "GET" \/ nil
        THEN [number |-> n, bytes |-> bytes, reply |-> IF nil THEN <<>> ELSE <<old>>]
        ELSE [number |-> n + (stored - old) * unit
                         + IF stored < 0 /\ old >= 0 THEN Pow(op.width) * unit
                           ELSE IF stored >= 0 /\ old < 0 THEN -Pow(op.width) * unit ELSE 0,
              bytes |-> bytes, reply |-> <<IF op.type = "SET" THEN old ELSE stored>>]

\* The 64-bit unsigned encoding, which Redis rejects and the code does not.
Unbounded(op) == ~op.signed /\ op.width = WordBits

\* One BITFIELD subcommand does what unbounded arithmetic says, for every width up
\* to the word, offset and overflow mode: GET reads the field, SET and INCRBY wrap,
\* saturate or fail exactly when the true value leaves the range, also when
\* the sum overflows int64, and no bit outside the field changes.
FieldIsExact(data, op) ==
    LET got == bitFieldStep(data, op)
        ref == FieldReference(data, op)
    IN  /\ got.reply = ref.reply /\ Len(got.data) = ref.bytes /\ AsNumber(got.data) = ref.number
        /\ bitField(data, <<op>>).value = (IF op.type = "GET" \/ ref.reply = <<>> THEN data ELSE got.data)

\* BITFIELD is exact in each subcommand, and a command of several is those
\* commands one after the other, the last after the rest: the same replies and, apart from zero bytes at
\* the end, the same value.  (A GET past the end lengthens the value that a SET
\* then writes.)
BitFieldExact ==
    call.kind = "field" =>
        LET first == bitField(call.data, Front(call.ops))
            last  == bitField(first.value, <<Last(call.ops)>>)
            all   == bitField(call.data, call.ops)
        IN  /\ Len(call.ops) = 1 /\ ~Unbounded(call.ops[1]) => FieldIsExact(call.data, call.ops[1])
            /\ all.replies = first.replies \o last.replies
            /\ Len(last.value) <= Len(all.value)
            /\ extended(last.value, Len(all.value)) = all.value

=============================================================================
