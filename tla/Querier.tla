------------------------------ MODULE Querier ------------------------------
(***************************************************************************)
(* The SQL operations of internal/storage/querier.go, each as a function   *)
(* from the tables of a key to the tables of that key.  PostgreSQL holds   *)
(* one kv_meta row per key (its type and expires_at) and, per data type, a *)
(* table of rows that carry an expires_at of their own; the two are kept   *)
(* in step only by the statements below.                                   *)
(*                                                                         *)
(* The state of a key is a record S:                                       *)
(*   S.meta  the kv_meta row, or NoMeta when there is none;                *)
(*   S.rows  the key's rows in all data tables.  A row has the type t of   *)
(*           its table, f (hash field, list idx, set or zset member, HLL   *)
(*           register; 0 for a string), v (value, element or score) and    *)
(*           exp.  (t, f) is the table's primary key within one key.       *)
(*                                                                         *)
(* Two clocks appear, as in the code: t is NOW(), which PostgreSQL fixes   *)
(* when the transaction starts, and g is Go's time.Now() when the          *)
(* statement is built.  `pre' is the key as a statement issued before the  *)
(* key's advisory lock saw it, S the key as the statements after it do.    *)
(* A string is its decimal number: APPEND concatenates digits.             *)
(***************************************************************************)
EXTENDS Integers, FiniteSets, FiniteSetsExt

CONSTANTS Keys,     \* the keys, as numbers: sort.Strings is their order
          IntMax    \* the largest int64; a small number in the models

ASSUME KeysAssumption == Keys \subseteq Nat
ASSUME IntMaxAssumption == IntMax \in Nat \ {0}

-----------------------------------------------------------------------------
(* Tables *)

NoTTL == 0          \* expires_at IS NULL; the clock starts at 1

KeyTypes == {"string", "hash", "list", "set", "zset", "hyperloglog"}

Meta == [type : KeyTypes \cup {"none"}, exp : Nat]
NoMeta == [type |-> "none", exp |-> NoTTL]

Row == [t : KeyTypes, f : Int, v : Int, exp : Nat]

KeyState == [meta : Meta, rows : SUBSET Row]
Absent == [meta |-> NoMeta, rows |-> {}]

Table(S, ty) == {r \in S.rows : r.t = ty}

\* expires_at IS NULL OR expires_at > NOW()
Unexpired(exp, t) == exp = NoTTL \/ exp > t

LiveRows(S, ty, t) == {r \in Table(S, ty) : Unexpired(r.exp, t)}

getKeyType(S, t) == IF Unexpired(S.meta.exp, t) THEN S.meta.type ELSE "none"

\* The keys a reader sees; EXISTS, TYPE, KEYS and DBSIZE look at kv_meta only.
exists(S, t) == getKeyType(S, t) # "none"

\* The type check of the typed writers: a missing key is fine.
WrongType(S, ty, t) == getKeyType(S, t) \notin {"none", ty}

\* Every type but hyperloglog has a table for EXPIRE and RENAME to update.
dataTableForType(ty) == ty \in KeyTypes \ {"hyperloglog"}

setMeta(S, ty, exp) == [S EXCEPT !.meta = [type |-> ty, exp |-> exp]]

\* INSERT INTO kv_meta ... ON CONFLICT (key) DO NOTHING
ensureMeta(S, ty) == IF S.meta = NoMeta THEN setMeta(S, ty, NoTTL) ELSE S

\* INSERT ... ON CONFLICT DO UPDATE SET value: the row keeps its expires_at.
Upsert(S, ty, f, v) ==
    LET same == {r \in Table(S, ty) : r.f = f}
        exp  == IF same = {} THEN NoTTL ELSE (CHOOSE r \in same : TRUE).exp
    IN  [S EXCEPT !.rows = (@ \ same) \cup
                           {[t |-> ty, f |-> f, v |-> v, exp |-> exp]}]

SetRowTTL(S, types, exp) ==
    [S EXCEPT !.rows = {IF r.t \in types THEN [r EXCEPT !.exp = exp] ELSE r : r \in @}]

\* A string of ParseInt's range is at most IntMax; int64 addition wraps.
Wrap(n) == ((n + IntMax + 1) % (2 * (IntMax + 1))) - (IntMax + 1)

\* The element of a sorted set or list that ORDER BY ... LIMIT 1 selects.
Least(R, Key(_)) == {r \in R : \A s \in R : Key(r) <= Key(s)}

-----------------------------------------------------------------------------
(* String commands *)

\* The rows GET answers from: no kv_meta lookup.
get(S, t) == LiveRows(S, "string", t)

strValue(S, t) == IF get(S, t) = {} THEN 0 ELSE (CHOOSE r \in get(S, t) : TRUE).v

deleteKeyFromAllTables(S) == Absent

set(S, v, exp) ==
    LET cleared == deleteKeyFromAllTables(S)
    IN  [setMeta(cleared, "string", exp) EXCEPT
            !.rows = {[t |-> "string", f |-> 0, v |-> v, exp |-> exp]}]

setNX(S, v, exp, t) == IF exists(S, t) THEN S ELSE set(S, v, exp)

\* ParseInt of the value that was read fails: nothing is written.
incrFails(pre, t) == strValue(pre, t) > IntMax

incr(pre, S, d, t) ==
    Upsert(setMeta(S, "string", NoTTL), "string", 0, Wrap(strValue(pre, t) + d))

\* Not wrapped: the number is a float64.
incrByFloat(pre, S, d, t) ==
    Upsert(setMeta(S, "string", NoTTL), "string", 0, strValue(pre, t) + d)

\* SETRANGE and SETBIT put back the value they read with a part of it replaced,
\* here its last digit.  Neither checks the type.
setRange(pre, S, d, t) ==
    Upsert(setMeta(S, "string", NoTTL), "string", 0, 10 * (strValue(pre, t) \div 10) + d)

\* BITFIELD likewise, but with kv_meta left alone when it read a value.
bitField(pre, S, d, t) ==
    LET M == IF get(pre, t) = {} THEN setMeta(S, "string", NoTTL) ELSE S
    IN  Upsert(M, "string", 0, 10 * (strValue(pre, t) \div 10) + d)

\* kv_strings.value || $2, whether or not the row has expired.
appendStr(S, d) ==
    LET old == Table(S, "string")
        v   == IF old = {} THEN d ELSE 10 * (CHOOSE r \in old : TRUE).v + d
    IN  Upsert(setMeta(S, "string", NoTTL), "string", 0, v)

getSet(S, v) ==
    SetRowTTL(Upsert(setMeta(S, "string", NoTTL), "string", 0, v), {"string"}, NoTTL)

\* exp is the new expires_at, NoTTL for PERSIST.
getEx(S, exp, t) ==
    IF get(S, t) = {} THEN S
    ELSE SetRowTTL([S EXCEPT !.meta = IF @ = NoMeta THEN @ ELSE [@ EXCEPT !.exp = exp]],
                   {"string"}, exp)

getDel(S, t) ==
    IF get(S, t) = {} THEN S
    ELSE [meta |-> NoMeta, rows |-> S.rows \ Table(S, "string")]

-----------------------------------------------------------------------------
(* Key commands *)

expireWhereClause(m, at, opt, t) ==
    /\ m # NoMeta
    /\ \/ opt = ""   /\ Unexpired(m.exp, t)
       \/ opt = "NX" /\ m.exp = NoTTL
       \/ opt = "XX" /\ m.exp # NoTTL /\ m.exp > t
       \/ opt = "GT" /\ m.exp # NoTTL /\ m.exp > t /\ at > m.exp
       \/ opt = "LT" /\ (m.exp = NoTTL \/ (m.exp > t /\ at < m.exp))

\* Mutant of expire: the data rows keep their expires_at.
expireMetaOnly(S, at, opt, t) ==
    IF ~expireWhereClause(S.meta, at, opt, t) THEN S ELSE [S EXCEPT !.meta.exp = at]

expire(S, at, opt, t) ==
    IF ~expireWhereClause(S.meta, at, opt, t) THEN S
    ELSE SetRowTTL([S EXCEPT !.meta.exp = at],
                   {ty \in {S.meta.type} : dataTableForType(ty)}, at)

\* EXPIREAT: the same statements with the time the client names.
expireAt(S, timestamp, opt, t) == expire(S, timestamp, opt, t)

persist(S, t) ==
    IF S.meta.exp = NoTTL \/ S.meta.exp <= t THEN S
    ELSE SetRowTTL([S EXCEPT !.meta.exp = NoTTL], KeyTypes, NoTTL)

renameFails(D, old, t) == ~exists(D[old], t) \/ ~dataTableForType(getKeyType(D[old], t))

\* The new key is deleted before the old one is looked at again, so with
\* old = new the two UPDATEs find nothing; an unsupported type fails after it.
rename(D, old, new, t) ==
    LET ty      == getKeyType(D[old], t)
        cleared == [D EXCEPT ![new] = deleteKeyFromAllTables(@)]
        moved   == Table(cleared[old], ty)
    IN  IF ty = "none" THEN D
        ELSE IF ~dataTableForType(ty) \/ old = new THEN cleared
        ELSE [cleared EXCEPT
                ![new] = [meta |-> cleared[old].meta, rows |-> moved],
                ![old] = [meta |-> NoMeta, rows |-> @.rows \ moved]]

\* COPY goes on when the source exists and the destination does not or may be
\* replaced.  A destination that has expired counts as missing and is not deleted.
copies(D, src, dst, replace, t) == exists(D[src], t) /\ (replace \/ ~exists(D[dst], t))

copyCleared(D, dst, t) ==
    IF exists(D[dst], t) THEN [D EXCEPT ![dst] = deleteKeyFromAllTables(@)] ELSE D

\* An error that leaves the transaction usable: no string row to copy, or a row
\* of another type, whose INSERT the driver refuses while the SELECT that
\* delivered it is still open.
copyFails(D, src, dst, replace, t) ==
    LET ty   == getKeyType(D[src], t)
        rows == Table(copyCleared(D, dst, t)[src], ty)
    IN  /\ copies(D, src, dst, replace, t)
        /\ \/ ty = "string" /\ rows = {}
           \/ ty \notin {"string", "hyperloglog"} /\ rows # {}

\* The INSERT meets the primary key of an expired string: PostgreSQL gives the
\* whole transaction up.
copyBreaks(D, src, dst, replace, t) ==
    /\ copies(D, src, dst, replace, t)
    /\ getKeyType(D[src], t) = "string"
    /\ Table(copyCleared(D, dst, t)[src], "string") # {}
    /\ Table(copyCleared(D, dst, t)[dst], "string") # {}

\* A string goes over with its expiry, another type only as far as its kv_meta
\* row, and a HyperLogLog not at all.
copyKey(D, src, dst, replace, t) ==
    LET ty      == getKeyType(D[src], t)
        cleared == copyCleared(D, dst, t)
        rows    == Table(cleared[src], "string")
        exp     == (CHOOSE r \in rows : TRUE).exp
    IN  IF ~copies(D, src, dst, replace, t) THEN D
        ELSE IF ty = "hyperloglog" \/ (ty = "string" /\ rows = {}) THEN cleared
        ELSE IF ty # "string" THEN [cleared EXCEPT ![dst] = setMeta(@, ty, NoTTL)]
        ELSE [cleared EXCEPT ![dst] = [meta |-> [type |-> "string", exp |-> exp],
                                       rows |-> @.rows \cup rows]]

-----------------------------------------------------------------------------
(* Hash, set and sorted set commands *)

hSet(S, f, v) == Upsert(setMeta(S, "hash", NoTTL), "hash", f, v)

hSetNX(S, f, v) ==
    LET M == setMeta(S, "hash", NoTTL)
    IN  IF \E r \in Table(S, "hash") : r.f = f THEN M ELSE Upsert(M, "hash", f, v)

hashValue(S, f, t) ==
    LET old == {r \in LiveRows(S, "hash", t) : r.f = f}
    IN  IF old = {} THEN 0 ELSE (CHOOSE r \in old : TRUE).v

hIncrByFails(pre, f, t) == hashValue(pre, f, t) > IntMax

hIncrBy(pre, S, f, d, t) ==
    Upsert(setMeta(S, "hash", NoTTL), "hash", f, Wrap(hashValue(pre, f, t) + d))

\* Not wrapped: the number is a float64.
hIncrByFloat(pre, S, f, d, t) ==
    Upsert(setMeta(S, "hash", NoTTL), "hash", f, hashValue(pre, f, t) + d)

\* HDEL, SREM and ZREM: one DELETE, no key lock, no look at expires_at.
RemoveMember(S, ty, f) == [S EXCEPT !.rows = {r \in @ : ~(r.t = ty /\ r.f = f)}]
hDel(S, f) == RemoveMember(S, "hash", f)
sRem(S, f) == RemoveMember(S, "set", f)
zRem(S, f) == RemoveMember(S, "zset", f)

sAdd(S, f) ==
    LET M == setMeta(S, "set", NoTTL)
    IN  IF \E r \in Table(S, "set") : r.f = f THEN M ELSE Upsert(M, "set", f, 0)

\* opt is "", NX, XX, GT or LT.  A member is looked up whether expired or not.
zAdd(S, f, v, opt) ==
    LET M   == setMeta(S, "zset", NoTTL)
        old == {r \in Table(S, "zset") : r.f = f}
        cur == (CHOOSE r \in old : TRUE).v
    IN  IF \/ old = {} /\ opt = "XX"
           \/ old # {} /\ \/ opt = "NX"
                          \/ opt = "GT" /\ v <= cur
                          \/ opt = "LT" /\ v >= cur
        THEN M ELSE Upsert(M, "zset", f, v)

zIncrBy(S, f, d) ==
    LET old == {r \in Table(S, "zset") : r.f = f}
        cur == IF old = {} THEN 0 ELSE (CHOOSE r \in old : TRUE).v
    IN  Upsert(ensureMeta(S, "zset"), "zset", f, cur + d)

\* ORDER BY score, member LIMIT 1
zMinRows(S, t) ==
    LET live == LiveRows(S, "zset", t)
        low  == Least(live, LAMBDA r : r.v)
    IN  Least(low, LAMBDA r : r.f)

\* ORDER BY score DESC, member DESC LIMIT 1
zMaxRows(S, t) ==
    LET live == LiveRows(S, "zset", t)
        high == Least(live, LAMBDA r : -r.v)
    IN  Least(high, LAMBDA r : -r.f)

\* DELETE ... WHERE member = ANY(the members of P), expired or not.
DeleteMembers(S, P) ==
    [S EXCEPT !.rows = {r \in @ : ~(r.t = "zset" /\ \E p \in P : p.f = r.f)}]

\* ZPOPMIN and ZPOPMAX: the members selected first are deleted by a second statement.
zPopMin(pre, S, t) == DeleteMembers(S, zMinRows(pre, t))
zPopMax(pre, S, t) == DeleteMembers(S, zMaxRows(pre, t))

\* One DELETE, no key lock, no look at expires_at.
zRemRangeByScore(S, min, max) ==
    [S EXCEPT !.rows = {r \in @ : ~(r.t = "zset" /\ r.v >= min /\ r.v <= max)}]

\* ROW_NUMBER of a live member in the order of score and member, from 0.
Rank(S, r, t) ==
    Cardinality({q \in LiveRows(S, "zset", t) : q.v < r.v \/ (q.v = r.v /\ q.f < r.f)})

zRemRangeByRank(S, start, stop, t) ==
    LET n    == Cardinality(LiveRows(S, "zset", t))
        from == IF start < 0 THEN n + start ELSE start
        to   == IF stop < 0 THEN n + stop ELSE stop
    IN  DeleteMembers(S, {r \in LiveRows(S, "zset", t) : Rank(S, r, t) >= from /\ Rank(S, r, t) <= to})

-----------------------------------------------------------------------------
(* Commands that store a result: the sources A and B are read first, without *)
(* locks of their own; what they hold is put, as rows, in place of the key.  *)

sMembers(S, t) == {r.f : r \in LiveRows(S, "set", t)}

sInter(A, B, t) == sMembers(A, t) \cap sMembers(B, t)
sUnion(A, B, t) == sMembers(A, t) \cup sMembers(B, t)
sDiff(A, B, t)  == sMembers(A, t) \ sMembers(B, t)

\* SMEMBERS of a source is refused; an empty first set ends SINTER and SDIFF
\* before the second is looked at.
sUnionFails(A, B, t) == WrongType(A, "set", t) \/ WrongType(B, "set", t)
sInterFails(A, B, t) ==
    WrongType(A, "set", t) \/ (sMembers(A, t) # {} /\ WrongType(B, "set", t))

MemberRows(M) == {[t |-> "set", f |-> x, v |-> 0, exp |-> NoTTL] : x \in M}

\* ZRANGE 0 -1 of a source: no type check.
zMembers(S, t) == {r.f : r \in LiveRows(S, "zset", t)}

scoreIn(S, x, t) ==
    LET same == {r \in LiveRows(S, "zset", t) : r.f = x}
    IN  IF same = {} THEN 0 ELSE (CHOOSE r \in same : TRUE).v

\* A member's scores added up: AGGREGATE SUM with weights 1.
ScoreRows(A, B, M, t) ==
    {[t |-> "zset", f |-> x, v |-> scoreIn(A, x, t) + scoreIn(B, x, t), exp |-> NoTTL] : x \in M}

zUnionRows(A, B, t) == ScoreRows(A, B, zMembers(A, t) \cup zMembers(B, t), t)
zInterRows(A, B, t) == ScoreRows(A, B, zMembers(A, t) \cap zMembers(B, t), t)

\* deleteKeyFromAllTables, and an insert of what was found, if anything.
storeRows(S, ty, R) ==
    LET cleared == deleteKeyFromAllTables(S)
    IN  IF R = {} THEN cleared ELSE [setMeta(cleared, ty, NoTTL) EXCEPT !.rows = R]

\* BITOP OR of strings that are single bits; the result is stored even when no
\* source exists.
bitOpRows(A, B, t) ==
    {[t |-> "string", f |-> 0, exp |-> NoTTL,
      v |-> IF strValue(A, t) > strValue(B, t) THEN strValue(A, t) ELSE strValue(B, t)]}

\* The range, here all of it, is read by the statement that inserts it, after
\* the destination is gone: with src = dst nothing is left.
zRangeStore(D, src, dst, t) ==
    LET cleared == [D EXCEPT ![dst] = deleteKeyFromAllTables(@)]
        rows    == {[r EXCEPT !.exp = NoTTL] : r \in LiveRows(cleared[src], "zset", t)}
    IN  [cleared EXCEPT ![dst] = storeRows(@, "zset", rows)]

-----------------------------------------------------------------------------
(* List commands *)

\* COALESCE(MIN(idx), 0) and COALESCE(MAX(idx), -1), expired rows included.
minIdx(S) ==
    LET first == Least(Table(S, "list"), LAMBDA r : r.f)
    IN  IF first = {} THEN 0 ELSE (CHOOSE r \in first : TRUE).f
maxIdx(S) ==
    LET last == Least(Table(S, "list"), LAMBDA r : -r.f)
    IN  IF last = {} THEN -1 ELSE (CHOOSE r \in last : TRUE).f

InsertAt(S, idx, v) ==
    [S EXCEPT !.rows = @ \cup {[t |-> "list", f |-> idx, v |-> v, exp |-> NoTTL]}]

lPush(S, v) == InsertAt(setMeta(S, "list", NoTTL), minIdx(S) - 1, v)
rPush(S, v) == InsertAt(setMeta(S, "list", NoTTL), maxIdx(S) + 1, v)

\* ORDER BY idx ASC (DESC) LIMIT 1 FOR UPDATE SKIP LOCKED: the row that is
\* popped, expired or not; `locked' are the rows other transactions hold.
lPopRows(S, locked) == Least(Table(S, "list") \ locked, LAMBDA r : r.f)
rPopRows(S, locked) == Least(Table(S, "list") \ locked, LAMBDA r : -r.f)

\* BLPOP looks at unexpired rows only.
popMultiRows(S, locked, t) == Least(LiveRows(S, "list", t) \ locked, LAMBDA r : r.f)

DeleteRows(S, R) == [S EXCEPT !.rows = @ \ R]

\* kv_meta stays when the last element goes; the sweeper removes it later.
lPop(S, locked) == DeleteRows(S, lPopRows(S, locked))
rPop(S, locked) == DeleteRows(S, rPopRows(S, locked))

\* The first of the two keys, in caller order, that has a row to pop.
popMultiKey(D, k1, k2, locked, t) ==
    IF popMultiRows(D[k1], locked[k1], t) # {} THEN k1 ELSE k2

popMulti(D, k1, k2, locked, t) ==
    LET k == popMultiKey(D, k1, k2, locked, t)
    IN  [D EXCEPT ![k] = DeleteRows(@, popMultiRows(@, locked[k], t))]

\* LMPOP and ZMPOP choose the first key that has a live row, locked or not, and
\* then the first n of its rows that nobody else has locked: with all of them
\* locked the reply is nil although the other key may have some.
mpopKey(D, k1, k2, ty, t) == IF LiveRows(D[k1], ty, t) # {} THEN k1 ELSE k2

\* ORDER BY idx, or by score and member.
Precedes(s, r) == (s.t = "zset" /\ s.v < r.v) \/ ((s.t = "list" \/ s.v = r.v) /\ s.f < r.f)

mpopRows(S, ty, n, desc, locked, t) ==
    LET free == LiveRows(S, ty, t) \ locked
    IN  {r \in free : n > Cardinality({s \in free : IF desc THEN Precedes(r, s) ELSE Precedes(s, r)})}

popMultiN(D, k1, k2, n, desc, locked, t) ==
    LET k == mpopKey(D, k1, k2, "list", t)
    IN  [D EXCEPT ![k] = DeleteRows(@, mpopRows(@, "list", n, desc, locked[k], t))]

zMPop(D, k1, k2, n, desc, locked, t) ==
    LET k == mpopKey(D, k1, k2, "zset", t)
    IN  [D EXCEPT ![k] = DeleteRows(@, mpopRows(@, "zset", n, desc, locked[k], t))]

\* Mutant of rPopLPush: the popped element stays in the source.
rPopLPushKeeps(D, src, dst, locked) ==
    LET popped == rPopRows(D[src], locked)
    IN  IF popped = {} THEN D
        ELSE [D EXCEPT ![dst] =
                InsertAt(ensureMeta(@, "list"), minIdx(@) - 1, (CHOOSE r \in popped : TRUE).v)]

rPopLPush(D, src, dst, locked) ==
    LET popped == rPopRows(D[src], locked)
        rest   == [D EXCEPT ![src] = DeleteRows(@, popped)]
    IN  IF popped = {} THEN D
        ELSE [rest EXCEPT ![dst] =
                LET S == ensureMeta(@, "list")
                IN  InsertAt(S, minIdx(S) - 1, (CHOOSE r \in popped : TRUE).v)]

\* LREM 0 v: every equal element.
lRem(S, v) == [S EXCEPT !.rows = {r \in @ : ~(r.t = "list" /\ r.v = v)}]

Position(S, r) == Cardinality({q \in Table(S, "list") : q.f < r.f})

\* The row at an index, which counts from the end when it is negative.
rowAt(S, i) ==
    LET n == Cardinality(Table(S, "list"))
    IN  {r \in Table(S, "list") : Position(S, r) = IF i < 0 THEN n + i ELSE i}

\* LSET finds the row's idx first and updates it without a key lock; no such key
\* and an index out of range are errors.
lSetFails(pre, i) == rowAt(pre, i) = {}

lSet(pre, S, i, v) ==
    [S EXCEPT !.rows = {IF r.t = "list" /\ \E p \in rowAt(pre, i) : p.f = r.f
                        THEN [r EXCEPT !.v = v] ELSE r : r \in @}]

\* LINSERT looks the pivot up before the lock, expired or not, and makes room for
\* the element where the pivot was then; kv_meta is not written.
pivotRows(S, pivot) == Least({r \in Table(S, "list") : r.v = pivot}, LAMBDA r : r.f)

lInsert(pre, S, pivot, v, before) ==
    LET idx == (CHOOSE r \in pivotRows(pre, pivot) : TRUE).f
        at  == IF before THEN idx ELSE idx + 1
    IN  IF pivotRows(pre, pivot) = {} THEN S
        ELSE InsertAt([S EXCEPT !.rows = {IF r.t = "list" /\ r.f >= at
                                          THEN [r EXCEPT !.f = r.f + 1] ELSE r : r \in @}], at, v)

\* Negative indices count from the end; an empty range deletes the key's
\* kv_meta row with the list.
lTrim(S, start, stop) ==
    LET n    == Cardinality(Table(S, "list"))
        from == Max({0, IF start < 0 THEN n + start ELSE start})
        to   == Min({n - 1, IF stop < 0 THEN n + stop ELSE stop})
    IN  IF n = 0 THEN S
        ELSE IF from > to
        THEN [meta |-> NoMeta, rows |-> S.rows \ Table(S, "list")]
        ELSE [S EXCEPT !.rows =
                {r \in @ : r.t # "list" \/ Position(S, r) \in from..to}]

-----------------------------------------------------------------------------
(* HyperLogLog: the registers are one blob that every PFADD rewrites. *)

Registers(S, t) == {r.f : r \in LiveRows(S, "hyperloglog", t)}

SaveRegisters(S, regs) ==
    LET old == Table(S, "hyperloglog")
        exp == IF old = {} THEN NoTTL ELSE (CHOOSE r \in old : TRUE).exp
        M   == setMeta(S, "hyperloglog", NoTTL)
    IN  [M EXCEPT !.rows = (@ \ old) \cup
            {[t |-> "hyperloglog", f |-> x, v |-> 1, exp |-> exp] : x \in regs}]

pfAdd(S, f, t) ==
    IF WrongType(S, "hyperloglog", t) THEN S
    ELSE SaveRegisters(S, Registers(S, t) \cup {f})

pfMerge(D, src, dst, t) ==
    IF WrongType(D[dst], "hyperloglog", t) THEN D
    ELSE [D EXCEPT ![dst] =
            SaveRegisters(@, Registers(@, t) \cup Registers(D[src], t))]

-----------------------------------------------------------------------------
(* The sweeper: deleteExpiredKeys of internal/storage/storage.go *)

Expired(exp, t) == exp # NoTTL /\ exp <= t

\* A kv_meta row whose table has no row for the key; hyperloglog is not listed.
Orphan(S) == dataTableForType(S.meta.type) /\ Table(S, S.meta.type) = {}

\* Mutant of SweepCandidate: only emptied keys are found.
SweepCandidateOrphans(S, t) == Orphan(S)

SweepCandidate(S, t) ==
    \/ S.meta # NoMeta /\ Expired(S.meta.exp, t)
    \/ \E r \in S.rows : Expired(r.exp, t)
    \/ Orphan(S)

\* Mutant of SweepKey: the candidates are deleted without looking again.
SweepKeyUnchecked(S, t) == Absent

\* Once a row of a table has expired, all of the key's rows there go.
SweepKey(S, t) ==
    LET dead == IF S.meta # NoMeta /\ Expired(S.meta.exp, t) THEN KeyTypes
                ELSE {r.t : r \in {q \in S.rows : Expired(q.exp, t)}}
        left == [meta |-> IF S.meta # NoMeta /\ Expired(S.meta.exp, t)
                          THEN NoMeta ELSE S.meta,
                 rows |-> {r \in S.rows : r.t \notin dead}]
    IN  IF Orphan(left) THEN [left EXCEPT !.meta = NoMeta] ELSE left

=============================================================================
