------------------------------- MODULE Ranges -------------------------------
(***************************************************************************)
(* The read commands that select part of a value: index ranges of strings, *)
(* lists and sorted sets, score and lexicographic ranges, the position of  *)
(* an element, and the glob patterns of KEYS, the SCAN family, PSUBSCRIBE  *)
(* and the cache policy.  A string is the sequence of its bytes; a list is *)
(* the sequence of its rows [v, live] in idx order, live being FALSE for a *)
(* row past its expires_at; a sorted set is the set of its rows            *)
(* [member, score], members being numbers in byte order.                   *)
(***************************************************************************)
EXTENDS Integers, FiniteSets, Sequences, SequencesExt, FiniteSetsExt

\* Negative positions count from the end, then both ends are clamped.
Bounds(start, stop, n) ==
    [start |-> Max({IF start < 0 THEN n + start ELSE start, 0}),
     stop  |-> Min({IF stop < 0 THEN n + stop ELSE stop, n - 1})]

\* LIMIT count OFFSET offset.
Page(s, offset, count) == SubSeq(s, offset + 1, Min({offset + count, Len(s)}))

getRange(value, start, end) ==
    LET b == Bounds(start, end, Len(value))
    IN  IF Len(value) = 0 \/ b.start > b.stop \/ b.start >= Len(value) THEN <<>>
        ELSE SubSeq(value, b.start + 1, b.stop + 1)

Values(list) == [i \in DOMAIN list |-> list[i].v]

\* Counts and selects every row of the key, expired ones too.
lRange(list, start, stop) ==
    LET b == Bounds(start, stop, Len(list))
    IN  IF b.start > b.stop THEN <<>>
        ELSE Values(Page(list, b.start, b.stop - b.start + 1))

\* expires_at IS NULL OR expires_at > NOW().
unexpired(list) == SelectSeq(list, LAMBDA r : r.live)

\* Mutant of lIndex: a negative index is counted over all the rows.
lIndexAll(list, index) ==
    LET rows == unexpired(list)
    IN  IF index >= 0 THEN Values(Page(rows, index, 1))
        ELSE IF Len(list) + index < 0 THEN <<>>
        ELSE Values(Page(rows, Max({Len(list) + index, 0}), 1))

\* The element, in a sequence of at most one; expired rows do not count.
lIndex(list, index) ==
    LET rows == unexpired(list)
    IN  IF index >= 0 THEN Values(Page(rows, index, 1))
        ELSE IF Len(rows) + index < 0 THEN <<>>
        ELSE Values(Page(rows, Max({Len(rows) + index, 0}), 1))

\* Matches among the first maxlen rows, expired ones too, the first rank - 1
\* skipped, at most count of them.  A negative rank skips nothing.
lPos(list, element, rank, count, maxlen) ==
    LET scanned == IF maxlen > 0 THEN Min({maxlen, Len(list)}) ELSE Len(list)
        matches == SetToSortSeq({i \in 1..scanned : list[i].v = element}, <)
        kept    == IF rank > 0 THEN SubSeq(matches, rank, Len(matches)) ELSE matches
        found   == IF count > 0 THEN Page(kept, 0, count) ELSE kept
    IN  [j \in DOMAIN found |-> found[j] - 1]

-----------------------------------------------------------------------------
(* LINSERT on the rows [idx, v] of a list.  The shift is one UPDATE of idx, *)
(* part of the primary key: PostgreSQL checks the key after every row, in   *)
(* the order it meets the rows, so the statement fails when a row moves     *)
(* onto one that has not moved yet.                                         *)

listOf(rows) ==
    LET order == SetToSortSeq(rows, LAMBDA a, b : a.idx < b.idx)
    IN  [i \in DOMAIN order |-> order[i].v]

\* A row met early in `plan' moves onto one met later.
ShiftCollides(plan) ==
    \E i, j \in DOMAIN plan : i < j /\ plan[i].idx + 1 = plan[j].idx

\* Mutant of lInsert: BEFORE inserts after the pivot that has moved up.
lInsertLate(rows, pivot, element, before, plan) ==
    LET pivotIdx == Min({r.idx : r \in {q \in rows : q.v = pivot}})
        moved    == {r \in rows : r.idx > pivotIdx}
    IN  IF ShiftCollides(plan) THEN rows
        ELSE (rows \ moved) \cup {[r EXCEPT !.idx = @ + 1] : r \in moved}
             \cup {[idx |-> pivotIdx + 1, v |-> element]}

ToShift(rows, pivot, before) ==
    LET pivotIdx == Min({r.idx : r \in {q \in rows : q.v = pivot}})
    IN  {r \in rows : r.idx > pivotIdx \/ (before /\ r.idx = pivotIdx)}

\* The rows after the transaction; unchanged when it fails.  `plan' is the
\* order in which the UPDATE meets the rows it shifts.
lInsert(rows, pivot, element, before, plan) ==
    LET pivotIdx == Min({r.idx : r \in {q \in rows : q.v = pivot}})
        moved    == ToShift(rows, pivot, before)
    IN  IF ShiftCollides(plan) THEN rows
        ELSE (rows \ moved) \cup {[r EXCEPT !.idx = @ + 1] : r \in moved}
             \cup {[idx |-> IF before THEN pivotIdx ELSE pivotIdx + 1, v |-> element]}

-----------------------------------------------------------------------------
(* Sorted sets, by rank.                                                     *)

Ascending(z) ==
    SetToSortSeq(z, LAMBDA a, b : \/ a.score < b.score
                                  \/ a.score = b.score /\ a.member < b.member)

Descending(z) == Reverse(Ascending(z))

rankRange(rows, start, stop) ==
    LET b == Bounds(start, stop, Len(rows))
    IN  IF Len(rows) = 0 \/ b.start > b.stop THEN <<>>
        ELSE Page(rows, b.start, Max({b.stop - b.start + 1, 0}))

zRange(z, start, stop) == rankRange(Ascending(z), start, stop)

zRevRange(z, start, stop) == rankRange(Descending(z), start, stop)

zRank(z, m) == CHOOSE i \in 0..(Cardinality(z) - 1) : Ascending(z)[i + 1].member = m

zRevRank(z, m) == CHOOSE i \in 0..(Cardinality(z) - 1) : Descending(z)[i + 1].member = m

zRemRangeByRank(z, start, stop) ==
    LET b == Bounds(start, stop, Cardinality(z))
    IN  IF b.start > b.stop \/ b.start >= Cardinality(z) THEN z
        ELSE z \ ToSet(Page(Ascending(z), b.start, b.stop - b.start + 1))

\* ZRANGE start stop [REV]: the range is taken first and then reversed.
zrangeOp(z, start, stop, rev) ==
    IF rev THEN Reverse(zRange(z, start, stop)) ELSE zRange(z, start, stop)

-----------------------------------------------------------------------------
(* Score ranges.  A score is a float64, here a number on a scale that keeps *)
(* what the comparisons tell apart: Epsilon is the offset of 1e-9 that      *)
(* stands for "exclusive", wider than the distance of some scores; a score  *)
(* of Absorbing (2^24) or more is spaced so widely that adding the offset   *)
(* gives the same score; Huge is the 1e308 that three commands read for an  *)
(* infinity, below the score Infinite (+inf).  A bound is [inf, at, open]:  *)
(* inf is -1 or 1 for an infinity and 0 for the score at.                   *)

Epsilon == 2
Absorbing == 100
Huge == 1000
Infinite == 2000

\* The float64 sum of a score and the offset.
Plus(score, offset) ==
    IF -Absorbing < score /\ score < Absorbing THEN score + offset ELSE score

\* Both bounds as ZRANGE BYSCORE, ZREVRANGEBYSCORE and ZRANGESTORE read them.
parseScoreBound(b) ==
    IF b.inf # 0 THEN b.inf * Infinite
    ELSE IF b.open THEN Plus(b.at, Epsilon) ELSE b.at

\* The lower bound as ZRANGEBYSCORE, ZCOUNT and ZREMRANGEBYSCORE read it.
minBound(b) ==
    IF b.inf # 0 THEN b.inf * Huge
    ELSE IF b.open THEN Plus(b.at, Epsilon) ELSE b.at

\* Mutant of maxBound: the offset of the lower bound, as parseScoreBound.
maxBoundUp(b) ==
    IF b.inf # 0 THEN b.inf * Huge
    ELSE IF b.open THEN Plus(b.at, Epsilon) ELSE b.at

\* The upper bound as the same three read it.
maxBound(b) ==
    IF b.inf # 0 THEN b.inf * Huge
    ELSE IF b.open THEN Plus(b.at, -Epsilon) ELSE b.at

\* LIMIT applies only when count is positive.
limited(rows, offset, count) == IF count > 0 THEN Page(rows, offset, count) ELSE rows

zRangeByScore(z, min, max, offset, count) ==
    limited(Ascending({r \in z : min <= r.score /\ r.score <= max}), offset, count)

zRevRangeByScore(z, min, max, offset, count) ==
    limited(Descending({r \in z : min <= r.score /\ r.score <= max}), offset, count)

zCount(z, min, max) == Cardinality({r \in z : min <= r.score /\ r.score <= max})

zRemRangeByScore(z, min, max) == {r \in z : ~(min <= r.score /\ r.score <= max)}

zrangebyscoreOp(z, lo, hi, offset, count) ==
    zRangeByScore(z, minBound(lo), maxBound(hi), offset, count)

zcountOp(z, lo, hi) == zCount(z, minBound(lo), maxBound(hi))

zremrangebyscoreOp(z, lo, hi) == zRemRangeByScore(z, minBound(lo), maxBound(hi))

zrevrangebyscoreOp(z, hi, lo, offset, count) ==
    zRevRangeByScore(z, parseScoreBound(lo), parseScoreBound(hi), offset, count)

\* ZRANGE start stop BYSCORE [REV] [LIMIT]: limited first and then reversed.
zrangeByScoreOp(z, start, stop, rev, offset, count) ==
    IF rev THEN Reverse(zRangeByScore(z, parseScoreBound(stop), parseScoreBound(start), offset, count))
    ELSE zRangeByScore(z, parseScoreBound(start), parseScoreBound(stop), offset, count)

-----------------------------------------------------------------------------
(* Lexicographic ranges: a bound is [inf, at, open] with a member at.        *)

lexBoundClause(b, isLower, m) ==
    CASE b.inf = -1 -> isLower
      [] b.inf = 1  -> ~isLower
      [] OTHER -> \/ IF isLower THEN m > b.at ELSE m < b.at
                  \/ ~b.open /\ m = b.at

buildLexWhere(z, min, max) ==
    {r \in z : lexBoundClause(min, TRUE, r.member) /\ lexBoundClause(max, FALSE, r.member)}

lexLimited(rows, offset, count) ==
    IF count > 0 THEN Page(rows, offset, count) ELSE SubSeq(rows, offset + 1, Len(rows))

zRangeByLex(z, min, max, offset, count) ==
    lexLimited(SetToSortSeq(buildLexWhere(z, min, max), LAMBDA a, b : a.member < b.member), offset, count)

zRevRangeByLex(z, min, max, offset, count) ==
    lexLimited(SetToSortSeq(buildLexWhere(z, min, max), LAMBDA a, b : a.member > b.member), offset, count)

zLexCount(z, min, max) == Cardinality(buildLexWhere(z, min, max))

-----------------------------------------------------------------------------
(* ZRANGESTORE: the rows stored in dst, taken from src.  dst is deleted      *)
(* before src is read.                                                       *)

\* Mutant of zRangeStore: the bounds are not swapped for REV.
zRangeStoreUnswapped(z, spec, same) ==
    LET src == IF same THEN {} ELSE z
    IN  CASE spec.by = "index" ->
               ToSet(rankRange(IF spec.rev THEN Descending(src) ELSE Ascending(src), spec.start, spec.stop))
          [] spec.by = "score" ->
               ToSet(zRangeByScore(src, parseScoreBound(spec.start), parseScoreBound(spec.stop),
                                   spec.offset, spec.count))
          [] spec.by = "lex" -> ToSet(zRangeByLex(src, spec.start, spec.stop, 0, spec.count))

zRangeStore(z, spec, same) ==
    LET src == IF same THEN {} ELSE z
    IN  CASE spec.by = "index" ->
               ToSet(rankRange(IF spec.rev THEN Descending(src) ELSE Ascending(src),
                               spec.start, spec.stop))
          [] spec.by = "score" ->
               ToSet(IF spec.rev
                     THEN zRevRangeByScore(src, parseScoreBound(spec.stop), parseScoreBound(spec.start),
                                           spec.offset, spec.count)
                     ELSE zRangeByScore(src, parseScoreBound(spec.start), parseScoreBound(spec.stop),
                                        spec.offset, spec.count))
          [] spec.by = "lex" ->
               LET page == IF spec.count > 0 THEN spec.offset ELSE 0
               IN  ToSet(IF spec.rev
                         THEN zRevRangeByLex(src, spec.stop, spec.start, page, spec.count)
                         ELSE zRangeByLex(src, spec.start, spec.stop, page, spec.count))

=============================================================================
