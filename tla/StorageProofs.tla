--------------------------- MODULE StorageProofs ---------------------------
(***************************************************************************)
(* Theorems about Storage, for any keys, clients, programs and bounds.     *)
(***************************************************************************)
EXTENDS Storage, TLAPS

-----------------------------------------------------------------------------
(* The operations of Querier keep the tables well formed. *)

\* setMeta writes a well-formed kv_meta row and leaves the data rows alone.
LEMMA SetMetaType ==
    ASSUME NEW S \in KeyState, NEW ty \in KeyTypes, NEW exp \in Nat
    PROVE  setMeta(S, ty, exp) \in KeyState /\ setMeta(S, ty, exp).rows = S.rows
  BY DEF setMeta, KeyState, Meta

\* An upsert of an integer value leaves well-formed rows.
LEMMA UpsertType ==
    ASSUME NEW S \in KeyState, NEW ty \in KeyTypes, NEW f \in Int, NEW v \in Int
    PROVE  Upsert(S, ty, f, v) \in KeyState
<1> DEFINE same == {r \in Table(S, ty) : r.f = f}
           exp  == IF same = {} THEN NoTTL ELSE (CHOOSE r \in same : TRUE).exp
           row  == [t |-> ty, f |-> f, v |-> v, exp |-> exp]
<1>1. same \subseteq Row
  BY DEF Table, KeyState
<1>2. exp \in Nat
  <2>1. CASE same = {}
    BY <2>1 DEF NoTTL
  <2>2. CASE same # {}
    <3>1. (CHOOSE r \in same : TRUE) \in same
      BY <2>2
    <3> QED BY <2>2, <3>1, <1>1 DEF Row
  <2> QED BY <2>1, <2>2
<1>3. row \in Row
  BY <1>2 DEF Row
<1>4. Upsert(S, ty, f, v) = [S EXCEPT !.rows = (@ \ same) \cup {row}]
  BY DEF Upsert
<1> HIDE DEF same, row
<1> QED BY <1>3, <1>4 DEF KeyState

\* Rewriting expires_at in some tables leaves well-formed rows.
LEMMA SetRowTTLType ==
    ASSUME NEW S \in KeyState, NEW types, NEW exp \in Nat
    PROVE  SetRowTTL(S, types, exp) \in KeyState
<1> DEFINE R == {IF r.t \in types THEN [r EXCEPT !.exp = exp] ELSE r : r \in S.rows}
<1>1. R \subseteq Row
  BY DEF KeyState, Row
<1>2. SetRowTTL(S, types, exp) = [S EXCEPT !.rows = R]
  BY DEF SetRowTTL
<1> HIDE DEF R
<1> QED BY <1>1, <1>2 DEF KeyState

\* Dropping rows, and replacing the kv_meta row by none, is harmless.
LEMMA DropType ==
    ASSUME NEW S \in KeyState, NEW R \in SUBSET S.rows
    PROVE  /\ [S EXCEPT !.rows = R] \in KeyState
           /\ [meta |-> NoMeta, rows |-> R] \in KeyState
           /\ [meta |-> S.meta, rows |-> R] \in KeyState
  BY DEF KeyState, Meta, NoMeta, NoTTL

\* int64 arithmetic stays an integer.
LEMMA WrapType == \A n \in Int : Wrap(n) \in Int
  BY IntMaxAssumption DEF Wrap

\* The number a string or hash field holds.
LEMMA ValueType ==
    ASSUME NEW S \in KeyState, NEW t, NEW f
    PROVE  strValue(S, t) \in Int /\ hashValue(S, f, t) \in Int
<1>1. \A R \in SUBSET Row : R # {} => (CHOOSE r \in R : TRUE).v \in Int
  BY DEF Row
<1>2. get(S, t) \subseteq Row /\ {r \in LiveRows(S, "hash", t) : r.f = f} \subseteq Row
  BY DEF get, LiveRows, Table, KeyState
<1> QED BY <1>1, <1>2 DEF strValue, hashValue

\* The index of the first and of the last list row.
LEMMA IndexType ==
    ASSUME NEW S \in KeyState
    PROVE  minIdx(S) \in Int /\ maxIdx(S) \in Int
<1>1. \A R \in SUBSET Row : R # {} => (CHOOSE r \in R : TRUE).f \in Int
  BY DEF Row
<1> DEFINE first == Least(Table(S, "list"), LAMBDA r : r.f)
           last  == Least(Table(S, "list"), LAMBDA r : -r.f)
<1>2. first \subseteq Row /\ last \subseteq Row
  BY DEF Least, Table, KeyState
<1>3. minIdx(S) = IF first = {} THEN 0 ELSE (CHOOSE r \in first : TRUE).f
  BY DEF minIdx
<1>4. maxIdx(S) = IF last = {} THEN -1 ELSE (CHOOSE r \in last : TRUE).f
  BY DEF maxIdx
<1> HIDE DEF first, last
<1> QED BY <1>1, <1>2, <1>3, <1>4

\* Every string command leaves a well-formed key.
LEMMA StringOpsType ==
    ASSUME NEW pre \in KeyState, NEW S \in KeyState, NEW v \in Int, NEW exp \in Nat, NEW t
    PROVE  /\ set(S, v, exp) \in KeyState
           /\ setNX(S, v, exp, t) \in KeyState
           /\ incr(pre, S, v, t) \in KeyState
           /\ incrByFloat(pre, S, v, t) \in KeyState
           /\ setRange(pre, S, v, t) \in KeyState
           /\ bitField(pre, S, v, t) \in KeyState
           /\ appendStr(S, v) \in KeyState
           /\ getSet(S, v) \in KeyState
           /\ getEx(S, exp, t) \in KeyState
           /\ getDel(S, t) \in KeyState
<1>1. setMeta(S, "string", NoTTL) \in KeyState
  BY SetMetaType DEF NoTTL, KeyTypes
<1>2. set(S, v, exp) \in KeyState
  <2> DEFINE R == {[t |-> "string", f |-> 0, v |-> v, exp |-> exp]}
  <2>1. R \subseteq Row
    BY DEF Row, KeyTypes
  <2>2. Absent \in KeyState
    BY DEF Absent, KeyState, Meta, NoMeta, NoTTL
  <2>3. setMeta(Absent, "string", exp) \in KeyState
    BY <2>2, SetMetaType DEF KeyTypes
  <2>4. set(S, v, exp) = [setMeta(Absent, "string", exp) EXCEPT !.rows = R]
    BY DEF set, deleteKeyFromAllTables
  <2> HIDE DEF R
  <2> QED BY <2>1, <2>3, <2>4 DEF KeyState
<1>3. setNX(S, v, exp, t) \in KeyState
  BY <1>2 DEF setNX
<1>4. incr(pre, S, v, t) \in KeyState
  <2>1. strValue(pre, t) \in Int
    BY ValueType
  <2>2. Wrap(strValue(pre, t) + v) \in Int
    BY <2>1, WrapType
  <2> QED BY <1>1, <2>2, UpsertType DEF incr, KeyTypes
<1>5. appendStr(S, v) \in KeyState
  <2> DEFINE old == Table(S, "string")
             w   == IF old = {} THEN v ELSE 10 * (CHOOSE r \in old : TRUE).v + v
  <2>1. w \in Int
    <3>1. old \subseteq Row
      BY DEF Table, KeyState
    <3>2. old # {} => (CHOOSE r \in old : TRUE).v \in Int
      BY <3>1 DEF Row
    <3> HIDE DEF old
    <3> QED BY <3>2
  <2>2. appendStr(S, v) = Upsert(setMeta(S, "string", NoTTL), "string", 0, w)
    BY DEF appendStr
  <2> HIDE DEF w
  <2> QED BY <1>1, <2>1, <2>2, UpsertType DEF KeyTypes
<1>6. getSet(S, v) \in KeyState
  <2>1. Upsert(setMeta(S, "string", NoTTL), "string", 0, v) \in KeyState
    BY <1>1, UpsertType DEF KeyTypes
  <2> QED BY <2>1, SetRowTTLType DEF getSet, NoTTL
<1>7. getEx(S, exp, t) \in KeyState
  <2> DEFINE M == [S EXCEPT !.meta = IF @ = NoMeta THEN @ ELSE [@ EXCEPT !.exp = exp]]
  <2>1. M \in KeyState
    BY DEF KeyState, Meta
  <2> HIDE DEF M
  <2>2. SetRowTTL(M, {"string"}, exp) \in KeyState
    BY <2>1, SetRowTTLType
  <2> QED BY <2>2 DEF getEx, M
<1>8. getDel(S, t) \in KeyState
  <2>1. S.rows \ Table(S, "string") \in SUBSET S.rows
    OBVIOUS
  <2> QED BY <2>1, DropType DEF getDel
<1>9. /\ incrByFloat(pre, S, v, t) \in KeyState
      /\ setRange(pre, S, v, t) \in KeyState
      /\ bitField(pre, S, v, t) \in KeyState
  <2>1. strValue(pre, t) \in Int
    BY ValueType
  <2>2. strValue(pre, t) + v \in Int /\ 10 * (strValue(pre, t) \div 10) + v \in Int
    BY <2>1
  <2> QED BY <1>1, <2>2, UpsertType DEF incrByFloat, setRange, bitField, KeyTypes
<1> QED BY <1>2, <1>3, <1>4, <1>5, <1>6, <1>7, <1>8, <1>9

\* EXPIRE, EXPIREAT and PERSIST leave a well-formed key.
LEMMA ExpiryOpsType ==
    ASSUME NEW S \in KeyState, NEW at \in Nat, NEW opt, NEW t
    PROVE  expire(S, at, opt, t) \in KeyState /\ persist(S, t) \in KeyState
<1>1. \A e \in Nat : [S EXCEPT !.meta.exp = e] \in KeyState
  BY DEF KeyState, Meta
<1>2. expire(S, at, opt, t) \in KeyState
  BY <1>1, SetRowTTLType DEF expire
<1>3. persist(S, t) \in KeyState
  BY <1>1, SetRowTTLType DEF persist, NoTTL
<1> QED BY <1>2, <1>3

\* Every command on hash fields, set members and scores leaves a well-formed key.
LEMMA MemberOpsType ==
    ASSUME NEW pre \in KeyState, NEW S \in KeyState, NEW f \in Int, NEW v \in Int,
           NEW t, NEW opt
    PROVE  /\ hSet(S, f, v) \in KeyState
           /\ hSetNX(S, f, v) \in KeyState
           /\ hIncrBy(pre, S, f, v, t) \in KeyState
           /\ hIncrByFloat(pre, S, f, v, t) \in KeyState
           /\ hDel(S, f) \in KeyState /\ sRem(S, f) \in KeyState /\ zRem(S, f) \in KeyState
           /\ sAdd(S, f) \in KeyState
           /\ zAdd(S, f, v, opt) \in KeyState
           /\ zIncrBy(S, f, v) \in KeyState
           /\ zPopMin(pre, S, t) \in KeyState
           /\ zPopMax(pre, S, t) \in KeyState
           /\ zRemRangeByScore(S, f, v) \in KeyState
           /\ zRemRangeByRank(S, f, v, t) \in KeyState
<1>1. \A q \in {"hash", "set", "zset"} : setMeta(S, q, NoTTL) \in KeyState
  BY SetMetaType DEF NoTTL, KeyTypes
<1>2. hSet(S, f, v) \in KeyState
  BY <1>1, UpsertType DEF hSet, KeyTypes
<1>3. hSetNX(S, f, v) \in KeyState
  BY <1>1, UpsertType DEF hSetNX, KeyTypes
<1>4. hIncrBy(pre, S, f, v, t) \in KeyState
  <2>1. Wrap(hashValue(pre, f, t) + v) \in Int
    BY ValueType, WrapType
  <2> QED BY <1>1, <2>1, UpsertType DEF hIncrBy, KeyTypes
<1>41. hIncrByFloat(pre, S, f, v, t) \in KeyState
  <2>1. hashValue(pre, f, t) + v \in Int
    BY ValueType
  <2> QED BY <1>1, <2>1, UpsertType DEF hIncrByFloat, KeyTypes
<1>5. hDel(S, f) \in KeyState /\ sRem(S, f) \in KeyState /\ zRem(S, f) \in KeyState
  BY DEF hDel, sRem, zRem, RemoveMember, KeyState
<1>6. sAdd(S, f) \in KeyState
  BY <1>1, UpsertType DEF sAdd, KeyTypes
<1>7. zAdd(S, f, v, opt) \in KeyState
  BY <1>1, UpsertType DEF zAdd, KeyTypes
<1>8. zIncrBy(S, f, v) \in KeyState
  <2> DEFINE old == {r \in Table(S, "zset") : r.f = f}
             w   == (IF old = {} THEN 0 ELSE (CHOOSE r \in old : TRUE).v) + v
  <2>1. w \in Int
    <3>1. old \subseteq Row
      BY DEF Table, KeyState
    <3>2. old # {} => (CHOOSE r \in old : TRUE).v \in Int
      BY <3>1 DEF Row
    <3> HIDE DEF old
    <3> QED BY <3>2
  <2>2. ensureMeta(S, "zset") \in KeyState
    BY <1>1 DEF ensureMeta
  <2>3. zIncrBy(S, f, v) = Upsert(ensureMeta(S, "zset"), "zset", f, w)
    BY DEF zIncrBy
  <2> HIDE DEF w
  <2> QED BY <2>1, <2>2, <2>3, UpsertType DEF KeyTypes
<1>9. \A P : DeleteMembers(S, P) \in KeyState
  BY DEF DeleteMembers, KeyState
<1>10. zPopMin(pre, S, t) \in KeyState /\ zPopMax(pre, S, t) \in KeyState
  BY <1>9 DEF zPopMin, zPopMax
<1>11. zRemRangeByScore(S, f, v) \in KeyState
  BY DEF zRemRangeByScore, KeyState
<1>12. zRemRangeByRank(S, f, v, t) \in KeyState
  BY <1>9 DEF zRemRangeByRank
<1> QED BY <1>2, <1>3, <1>4, <1>41, <1>5, <1>6, <1>7, <1>8, <1>10, <1>11, <1>12

\* Every list command on one key leaves a well-formed key.
LEMMA ListOpsType ==
    ASSUME NEW pre \in KeyState, NEW S \in KeyState, NEW v \in Int, NEW f \in Int,
           NEW locked, NEW t
    PROVE  /\ lSet(pre, S, f, v) \in KeyState
           /\ \A before : lInsert(pre, S, f, v, before) \in KeyState
           /\ lPush(S, v) \in KeyState
           /\ rPush(S, v) \in KeyState
           /\ lPop(S, locked) \in KeyState
           /\ rPop(S, locked) \in KeyState
           /\ lRem(S, v) \in KeyState
           /\ lTrim(S, f, v) \in KeyState
           /\ \A R : DeleteRows(S, R) \in KeyState
           /\ ensureMeta(S, "list") \in KeyState
           /\ \A idx \in Int : InsertAt(S, idx, v) \in KeyState
<1>1. \A Q \in KeyState : \A idx \in Int : InsertAt(Q, idx, v) \in KeyState
  BY DEF InsertAt, KeyState, Row, KeyTypes, NoTTL
<1>2. setMeta(S, "list", NoTTL) \in KeyState
  BY SetMetaType DEF NoTTL, KeyTypes
<1>3. minIdx(S) - 1 \in Int /\ maxIdx(S) + 1 \in Int
  BY IndexType
<1>4. lPush(S, v) \in KeyState /\ rPush(S, v) \in KeyState
  BY <1>1, <1>2, <1>3 DEF lPush, rPush
<1>5. \A R : DeleteRows(S, R) \in KeyState
  BY DEF DeleteRows, KeyState
<1>6. lPop(S, locked) \in KeyState /\ rPop(S, locked) \in KeyState
  BY <1>5 DEF lPop, rPop
<1>7. lRem(S, v) \in KeyState
  BY DEF lRem, KeyState
<1>8. lTrim(S, f, v) \in KeyState
  <2> DEFINE n    == Cardinality(Table(S, "list"))
             from == Max({0, IF f < 0 THEN n + f ELSE f})
             to   == Min({n - 1, IF v < 0 THEN n + v ELSE v})
             A    == S.rows \ Table(S, "list")
             B    == {r \in S.rows : r.t # "list" \/ Position(S, r) \in from..to}
  <2>1. A \in SUBSET S.rows /\ B \in SUBSET S.rows
    OBVIOUS
  <2>2. lTrim(S, f, v) = IF n = 0 THEN S ELSE IF from > to
                         THEN [meta |-> NoMeta, rows |-> A] ELSE [S EXCEPT !.rows = B]
    BY DEF lTrim
  <2> HIDE DEF n, from, to, A, B
  <2> QED BY <2>1, <2>2, DropType
<1>9. ensureMeta(S, "list") \in KeyState
  BY <1>2 DEF ensureMeta
<1>10. lSet(pre, S, f, v) \in KeyState
  <2> DEFINE R == {IF r.t = "list" /\ \E p \in rowAt(pre, f) : p.f = r.f
                   THEN [r EXCEPT !.v = v] ELSE r : r \in S.rows}
  <2>1. R \subseteq Row
    BY DEF KeyState, Row
  <2>2. lSet(pre, S, f, v) = [S EXCEPT !.rows = R]
    BY DEF lSet
  <2> HIDE DEF R
  <2> QED BY <2>1, <2>2 DEF KeyState
<1>11. ASSUME NEW before PROVE lInsert(pre, S, f, v, before) \in KeyState
  <2> DEFINE P    == pivotRows(pre, f)
             idx  == (CHOOSE r \in P : TRUE).f
             at   == IF before THEN idx ELSE idx + 1
             R    == {IF r.t = "list" /\ r.f >= at THEN [r EXCEPT !.f = r.f + 1] ELSE r : r \in S.rows}
             room == [S EXCEPT !.rows = R]
  <2>1. P \subseteq Row
    BY DEF pivotRows, Least, Table, KeyState
  <2>2. P # {} => at \in Int
    <3> HIDE DEF P
    <3>1. P # {} => (CHOOSE r \in P : TRUE) \in Row
      BY <2>1
    <3>2. P # {} => idx \in Int
      BY <3>1 DEF Row
    <3> HIDE DEF idx
    <3> QED BY <3>2
  <2>3. lInsert(pre, S, f, v, before) = IF P = {} THEN S ELSE InsertAt(room, at, v)
    BY DEF lInsert
  <2> HIDE DEF P, at
  <2>4. R \subseteq Row
    <3>1. \A r \in Row : [r EXCEPT !.f = r.f + 1] \in Row
      BY DEF Row
    <3> QED BY <3>1 DEF KeyState
  <2> HIDE DEF R
  <2>5. room \in KeyState
    BY <2>4 DEF KeyState
  <2> HIDE DEF room
  <2> QED BY <1>1, <2>2, <2>3, <2>5
<1> QED BY <1>1, <1>4, <1>5, <1>6, <1>7, <1>8, <1>9, <1>10, <1>11

\* PFADD's rewrite of the registers leaves a well-formed key.
LEMMA RegisterOpsType ==
    ASSUME NEW S \in KeyState, NEW regs \in SUBSET Int, NEW t
    PROVE  /\ SaveRegisters(S, regs) \in KeyState
           /\ Registers(S, t) \in SUBSET Int
           /\ \A f \in Int : pfAdd(S, f, t) \in KeyState
<1> DEFINE old == Table(S, "hyperloglog")
           exp == IF old = {} THEN NoTTL ELSE (CHOOSE r \in old : TRUE).exp
           M   == setMeta(S, "hyperloglog", NoTTL)
<1>1. exp \in Nat
  <2>1. old \subseteq Row
    BY DEF Table, KeyState
  <2>2. old # {} => (CHOOSE r \in old : TRUE).exp \in Nat
    BY <2>1 DEF Row
  <2> HIDE DEF old
  <2> QED BY <2>2 DEF NoTTL
<1>2. M \in KeyState
  BY SetMetaType DEF NoTTL, KeyTypes
<1>3. \A X \in SUBSET Int :
        {[t |-> "hyperloglog", f |-> x, v |-> 1, exp |-> exp] : x \in X} \subseteq Row
  BY <1>1 DEF Row, KeyTypes
<1>4. \A X : SaveRegisters(S, X) = [M EXCEPT !.rows = (@ \ old) \cup
        {[t |-> "hyperloglog", f |-> x, v |-> 1, exp |-> exp] : x \in X}]
  BY DEF SaveRegisters
<1> HIDE DEF old, exp, M
<1>5. \A X \in SUBSET Int : SaveRegisters(S, X) \in KeyState
  BY <1>2, <1>3, <1>4 DEF KeyState
<1>6. Registers(S, t) \in SUBSET Int
  BY DEF Registers, LiveRows, Table, KeyState, Row
<1>7. ASSUME NEW f \in Int PROVE pfAdd(S, f, t) \in KeyState
  <2>1. Registers(S, t) \cup {f} \in SUBSET Int
    BY <1>6
  <2> QED BY <1>5, <2>1 DEF pfAdd
<1> QED BY <1>5, <1>6, <1>7

\* What the commands that store a result find in their sources is well formed,
\* and so is the key they leave.
LEMMA ResultType ==
    ASSUME NEW A \in KeyState, NEW B \in KeyState, NEW t
    PROVE  /\ MemberRows(sInter(A, B, t)) \subseteq Row
           /\ MemberRows(sUnion(A, B, t)) \subseteq Row
           /\ MemberRows(sDiff(A, B, t)) \subseteq Row
           /\ zUnionRows(A, B, t) \subseteq Row
           /\ zInterRows(A, B, t) \subseteq Row
           /\ bitOpRows(A, B, t) \subseteq Row
<1>1. \A M \in SUBSET Int : MemberRows(M) \subseteq Row
  BY DEF MemberRows, Row, KeyTypes, NoTTL
<1>2. /\ sMembers(A, t) \in SUBSET Int /\ sMembers(B, t) \in SUBSET Int
      /\ zMembers(A, t) \in SUBSET Int /\ zMembers(B, t) \in SUBSET Int
  BY DEF sMembers, zMembers, LiveRows, Table, KeyState, Row
<1>3. /\ sInter(A, B, t) \in SUBSET Int /\ sUnion(A, B, t) \in SUBSET Int
      /\ sDiff(A, B, t) \in SUBSET Int
  BY <1>2 DEF sInter, sUnion, sDiff
<1>4. ASSUME NEW S \in KeyState, NEW x PROVE scoreIn(S, x, t) \in Int
  <2> DEFINE same == {r \in LiveRows(S, "zset", t) : r.f = x}
  <2>1. same \subseteq Row
    BY DEF LiveRows, Table, KeyState
  <2>2. scoreIn(S, x, t) = IF same = {} THEN 0 ELSE (CHOOSE r \in same : TRUE).v
    BY DEF scoreIn
  <2> HIDE DEF same
  <2>3. same # {} => (CHOOSE r \in same : TRUE).v \in Int
    BY <2>1 DEF Row
  <2> QED BY <2>2, <2>3
<1>5. \A x : scoreIn(A, x, t) + scoreIn(B, x, t) \in Int
  BY <1>4
<1>6. \A M \in SUBSET Int : ScoreRows(A, B, M, t) \subseteq Row
  BY <1>5 DEF ScoreRows, Row, KeyTypes, NoTTL
<1>7. zUnionRows(A, B, t) \subseteq Row /\ zInterRows(A, B, t) \subseteq Row
  BY <1>2, <1>6 DEF zUnionRows, zInterRows
<1>8. bitOpRows(A, B, t) \subseteq Row
  <2>1. strValue(A, t) \in Int /\ strValue(B, t) \in Int
    BY ValueType
  <2> QED BY <2>1 DEF bitOpRows, Row, KeyTypes, NoTTL
<1> QED BY <1>1, <1>3, <1>7, <1>8

\* Replacing a key by a stored result.
LEMMA StoredType ==
    ASSUME NEW S \in KeyState, NEW ty \in KeyTypes, NEW R \in SUBSET Row
    PROVE  storeRows(S, ty, R) \in KeyState
<1>1. Absent \in KeyState
  BY DEF Absent, KeyState, Meta, NoMeta, NoTTL
<1>2. setMeta(Absent, ty, NoTTL) \in KeyState
  BY <1>1, SetMetaType DEF NoTTL
<1> QED BY <1>1, <1>2 DEF storeRows, deleteKeyFromAllTables, KeyState

\* A command on one key leaves it well formed.
LEMMA KeyEffectType ==
    ASSUME NEW op \in Op, op.cmd \notin TwoKeys \cup PopsOfTwo \cup {"ZRANGESTORE"},
           NEW pre \in KeyState, NEW S \in KeyState, NEW locked, NEW t, NEW g \in Nat
    PROVE  KeyEffect(op, pre, S, locked, t, g) \in KeyState
<1>1. /\ op.v \in Int /\ op.f \in Int /\ op.ttl \in Nat
      /\ op.cmd \in Commands
  BY DEF Op
<1>2. Deadline(op, g) \in Nat /\ g + op.ttl \in Nat /\ NoTTL \in Nat
  BY <1>1 DEF Deadline, NoTTL
<1>3. deleteKeyFromAllTables(S) \in KeyState
  BY DEF deleteKeyFromAllTables, Absent, KeyState, Meta, NoMeta, NoTTL
<1>4. /\ set(S, op.v, Deadline(op, g)) \in KeyState
      /\ setNX(S, op.v, Deadline(op, g), t) \in KeyState
      /\ incr(pre, S, op.v, t) \in KeyState
      /\ incrByFloat(pre, S, op.v, t) \in KeyState
      /\ setRange(pre, S, op.v, t) \in KeyState
      /\ bitField(pre, S, op.v, t) \in KeyState
      /\ appendStr(S, op.v) \in KeyState
      /\ getSet(S, op.v) \in KeyState
      /\ getDel(S, t) \in KeyState
      /\ getEx(S, NoTTL, t) \in KeyState
      /\ getEx(S, Deadline(op, g), t) \in KeyState
  BY <1>1, <1>2, StringOpsType
<1>5. /\ expire(S, g + op.ttl, op.opt, t) \in KeyState
      /\ expireAt(S, op.ttl, op.opt, t) \in KeyState
      /\ persist(S, t) \in KeyState
  BY <1>1, <1>2, ExpiryOpsType DEF expireAt
<1>6. /\ hSet(S, op.f, op.v) \in KeyState
      /\ hSetNX(S, op.f, op.v) \in KeyState
      /\ hIncrBy(pre, S, op.f, op.v, t) \in KeyState
      /\ hIncrByFloat(pre, S, op.f, op.v, t) \in KeyState
      /\ hDel(S, op.f) \in KeyState /\ sRem(S, op.f) \in KeyState /\ zRem(S, op.f) \in KeyState
      /\ sAdd(S, op.f) \in KeyState
      /\ zAdd(S, op.f, op.v, op.opt) \in KeyState
      /\ zIncrBy(S, op.f, op.v) \in KeyState
      /\ zPopMin(pre, S, t) \in KeyState
      /\ zPopMax(pre, S, t) \in KeyState
      /\ zRemRangeByScore(S, op.f, op.v) \in KeyState
      /\ zRemRangeByRank(S, op.f, op.v, t) \in KeyState
  BY <1>1, MemberOpsType
<1>7. /\ lPush(S, op.v) \in KeyState
      /\ rPush(S, op.v) \in KeyState
      /\ lPop(S, locked) \in KeyState
      /\ rPop(S, locked) \in KeyState
      /\ lRem(S, op.v) \in KeyState
      /\ lTrim(S, op.f, op.v) \in KeyState
      /\ lSet(pre, S, op.f, op.v) \in KeyState
      /\ lInsert(pre, S, op.f, op.v, op.opt = "BEFORE") \in KeyState
  BY <1>1, ListOpsType
<1>8. pfAdd(S, op.f, t) \in KeyState
  BY <1>1, RegisterOpsType
<1>9. storeRows(S, StoreType(op.cmd), pre.rows) \in KeyState
  <2>1. StoreType(op.cmd) \in KeyTypes /\ pre.rows \in SUBSET Row
    BY DEF StoreType, KeyTypes, KeyState
  <2> QED BY <2>1, StoredType
<1>10. CASE op.cmd \in {"SET", "SETNX", "INCR", "INCRBYFLOAT", "SETRANGE", "BITFIELD", "APPEND", "GETEX",
                         "GETDEL", "GETSET", "DEL", "EXPIRE", "EXPIREAT", "PERSIST"}
  BY <1>3, <1>4, <1>5, <1>10 DEF KeyEffect, Stores
<1>11. CASE op.cmd \in {"HSET", "HSETNX", "HINCRBY", "HINCRBYFLOAT", "HDEL", "SADD", "SREM", "ZADD", "ZREM",
                         "ZINCRBY", "ZPOPMIN", "ZPOPMAX", "ZREMRANGEBYSCORE", "ZREMRANGEBYRANK"}
  BY <1>6, <1>11 DEF KeyEffect, Stores
<1>12. CASE op.cmd \in {"LPUSH", "RPUSH", "LPOP", "RPOP", "LREM", "LTRIM", "LSET", "LINSERT", "PFADD"}
  BY <1>7, <1>8, <1>12 DEF KeyEffect, Stores
<1>13. CASE op.cmd \in Stores
  BY <1>9, <1>13 DEF KeyEffect, Stores
<1> QED
  BY <1>1, <1>10, <1>11, <1>12, <1>13
  DEF Commands, Unlocked, TwoKeys, PopsOfTwo, Stores, LockFirst, ReadThenLock

Tables == [Keys -> KeyState]

\* A key with no metadata and no rows is well formed.
LEMMA AbsentType == Absent \in KeyState
  BY DEF Absent, KeyState, Meta, NoMeta, NoTTL

\* RENAME leaves well-formed tables, and leaves the other keys alone.
LEMMA RenameType ==
    ASSUME NEW D \in Tables, NEW a \in Keys, NEW b \in Keys, NEW t
    PROVE  /\ rename(D, a, b, t) \in Tables
           /\ \A k \in Keys \ {a, b} : rename(D, a, b, t)[k] = D[k]
<1> DEFINE ty      == getKeyType(D[a], t)
           cleared == [D EXCEPT ![b] = Absent]
           moved   == Table(cleared[a], ty)
           there   == [meta |-> cleared[a].meta, rows |-> moved]
           here(S) == [meta |-> NoMeta, rows |-> S.rows \ moved]
<1>1. cleared \in Tables /\ \A k \in Keys \ {a, b} : cleared[k] = D[k]
  BY AbsentType DEF Tables
<1>2. moved \in SUBSET cleared[a].rows
  BY DEF Table
<1> HIDE DEF cleared, moved
<1>3. there \in KeyState
  BY <1>1, <1>2, DropType DEF Tables
<1>4. \A S \in KeyState : here(S) \in KeyState
  <2> SUFFICES ASSUME NEW S \in KeyState PROVE here(S) \in KeyState
    OBVIOUS
  <2>1. S.rows \ moved \in SUBSET S.rows
    OBVIOUS
  <2> QED BY <2>1, DropType
<1>5. rename(D, a, b, t) =
        IF ty = "none" THEN D
        ELSE IF ~dataTableForType(ty) \/ a = b THEN cleared
        ELSE [cleared EXCEPT ![b] = there, ![a] = here(@)]
  BY DEF rename, deleteKeyFromAllTables, cleared, moved
<1> HIDE DEF there, here, ty
<1> QED BY <1>1, <1>3, <1>4, <1>5 DEF Tables

\* RPOPLPUSH likewise.
LEMMA RPopLPushType ==
    ASSUME NEW D \in Tables, NEW a \in Keys, NEW b \in Keys, NEW locked
    PROVE  /\ rPopLPush(D, a, b, locked) \in Tables
           /\ \A k \in Keys \ {a, b} : rPopLPush(D, a, b, locked)[k] = D[k]
<1> DEFINE popped  == rPopRows(D[a], locked)
           rest    == [D EXCEPT ![a] = DeleteRows(@, popped)]
           v       == (CHOOSE r \in popped : TRUE).v
           S       == ensureMeta(rest[b], "list")
           pushed  == InsertAt(S, minIdx(S) - 1, v)
<1>1. rest \in Tables /\ \A k \in Keys \ {a, b} : rest[k] = D[k]
  <2>1. DeleteRows(D[a], popped) \in KeyState
    BY DEF DeleteRows, KeyState, Tables
  <2> QED BY <2>1 DEF Tables
<1>2. popped # {} => v \in Int
  <2>1. popped \subseteq Row
    BY DEF rPopRows, Least, Table, KeyState, Tables
  <2> HIDE DEF popped
  <2> QED BY <2>1 DEF Row
<1>3. S \in KeyState
  <2>1. rest[b] \in KeyState
    BY <1>1 DEF Tables
  <2>2. setMeta(rest[b], "list", NoTTL) \in KeyState
    BY <2>1, SetMetaType DEF NoTTL, KeyTypes
  <2> HIDE DEF rest
  <2> QED BY <2>1, <2>2 DEF ensureMeta
<1>4. rPopLPush(D, a, b, locked) =
        IF popped = {} THEN D ELSE [rest EXCEPT ![b] = pushed]
  BY DEF rPopLPush
<1> HIDE DEF rest, v, S, popped
<1>5. popped # {} => pushed \in KeyState
  <2>1. minIdx(S) - 1 \in Int
    BY <1>3, IndexType
  <2> QED BY <1>2, <1>3, <2>1 DEF InsertAt, KeyState, Row, KeyTypes, NoTTL
<1> HIDE DEF pushed
<1> QED BY <1>1, <1>4, <1>5 DEF Tables

\* COPY likewise.
LEMMA CopyType ==
    ASSUME NEW D \in Tables, NEW a \in Keys, NEW b \in Keys, NEW replace, NEW t
    PROVE  /\ copyKey(D, a, b, replace, t) \in Tables
           /\ \A k \in Keys \ {a, b} : copyKey(D, a, b, replace, t)[k] = D[k]
<1> DEFINE ty      == getKeyType(D[a], t)
           cleared == copyCleared(D, b, t)
           rows    == Table(cleared[a], "string")
           exp     == (CHOOSE r \in rows : TRUE).exp
           bare    == setMeta(cleared[b], ty, NoTTL)
           full    == [meta |-> [type |-> "string", exp |-> exp], rows |-> cleared[b].rows \cup rows]
<1>1. cleared \in Tables /\ \A k \in Keys \ {a, b} : cleared[k] = D[k]
  BY AbsentType DEF copyCleared, deleteKeyFromAllTables, Tables
<1>2. ty \in KeyTypes \cup {"none"}
  BY DEF getKeyType, Tables, KeyState, Meta
<1>3. copies(D, a, b, replace, t) => ty # "none"
  BY DEF copies, exists
<1>4. copyKey(D, a, b, replace, t) =
        IF ~copies(D, a, b, replace, t) THEN D
        ELSE IF ty = "hyperloglog" \/ (ty = "string" /\ rows = {}) THEN cleared
        ELSE IF ty # "string" THEN [cleared EXCEPT ![b] = bare]
        ELSE [cleared EXCEPT ![b] = full]
  BY <1>1 DEF copyKey, Tables
<1> HIDE DEF ty, cleared
<1>5. ty # "none" => bare \in KeyState
  <2>1. cleared[b] \in KeyState
    BY <1>1 DEF Tables
  <2> QED BY <1>2, <2>1, SetMetaType DEF NoTTL
<1>6. rows # {} => full \in KeyState
  <2>1. rows \subseteq Row /\ cleared[b].rows \subseteq Row
    BY <1>1 DEF Table, Tables, KeyState
  <2> HIDE DEF rows
  <2>2. rows # {} => exp \in Nat
    BY <2>1 DEF Row
  <2> HIDE DEF exp
  <2> QED BY <2>1, <2>2 DEF KeyState, Meta, KeyTypes
<1> HIDE DEF bare, full, rows
<1> QED BY <1>1, <1>3, <1>4, <1>5, <1>6 DEF Tables

\* ZRANGESTORE likewise.
LEMMA ZRangeStoreType ==
    ASSUME NEW D \in Tables, NEW a \in Keys, NEW b \in Keys, NEW t
    PROVE  /\ zRangeStore(D, a, b, t) \in Tables
           /\ \A k \in Keys \ {a, b} : zRangeStore(D, a, b, t)[k] = D[k]
<1> DEFINE cleared == [D EXCEPT ![b] = Absent]
           rows    == {[r EXCEPT !.exp = NoTTL] : r \in LiveRows(cleared[a], "zset", t)}
           stored  == storeRows(cleared[b], "zset", rows)
<1>1. cleared \in Tables /\ \A k \in Keys \ {a, b} : cleared[k] = D[k]
  BY AbsentType DEF Tables
<1>2. zRangeStore(D, a, b, t) = [cleared EXCEPT ![b] = stored]
  BY <1>1 DEF zRangeStore, deleteKeyFromAllTables, Tables
<1> HIDE DEF cleared
<1>3. rows \in SUBSET Row
  <2>1. LiveRows(cleared[a], "zset", t) \subseteq Row
    BY <1>1 DEF LiveRows, Table, Tables, KeyState
  <2> QED BY <2>1 DEF Row, NoTTL
<1> HIDE DEF rows
<1>4. stored \in KeyState
  BY <1>1, <1>3, StoredType DEF Tables, KeyTypes
<1> HIDE DEF stored
<1> QED BY <1>1, <1>2, <1>4 DEF Tables

\* What is read before the lock is well formed.
LEMMA ReadsType ==
    ASSUME NEW op \in Op, NEW D \in Tables, NEW t
    PROVE  Reads(op, D, t) \in KeyState
<1>1. D[op.k] \in KeyState /\ D[op.d] \in KeyState
  BY DEF Op, Tables
<1>2. \A R \in SUBSET Row : [meta |-> NoMeta, rows |-> R] \in KeyState
  BY DEF KeyState, Meta, NoMeta, NoTTL
<1>3. /\ MemberRows(sInter(D[op.k], D[op.d], t)) \subseteq Row
      /\ MemberRows(sUnion(D[op.k], D[op.d], t)) \subseteq Row
      /\ MemberRows(sDiff(D[op.k], D[op.d], t)) \subseteq Row
      /\ zUnionRows(D[op.k], D[op.d], t) \subseteq Row
      /\ zInterRows(D[op.k], D[op.d], t) \subseteq Row
      /\ bitOpRows(D[op.k], D[op.d], t) \subseteq Row
  BY <1>1, ResultType
<1> QED BY <1>1, <1>2, <1>3 DEF Reads

\* Every command leaves well-formed tables and touches only the keys that
\* commandKeys names: EXEC's up-front locks cover all it changes.
LEMMA EffectType ==
    ASSUME NEW op \in Op, NEW pre \in KeyState, NEW D \in Tables,
           NEW locked, NEW t, NEW g \in Nat
    PROVE  /\ Effect(op, pre, D, locked, t, g) \in Tables
           /\ \A k \in Keys \ commandKeys(op) : Effect(op, pre, D, locked, t, g)[k] = D[k]
<1> DEFINE E == Effect(op, pre, D, locked, t, g)
<1>1. op.k \in Keys /\ op.d \in Keys /\ op.v \in Int
  BY DEF Op
<1>2. CASE op.cmd = "MSET"
  <2>1. \A k \in Keys : set(D[k], op.v, NoTTL) \in KeyState
    BY <1>1, StringOpsType DEF NoTTL, Tables
  <2>2. E = mSet(D, op.k, op.d, op.v)
    BY <1>2 DEF Effect
  <2> QED BY <1>1, <1>2, <2>1, <2>2 DEF mSet, Tables, commandKeys, TwoKeys
<1>3. CASE op.cmd = "RENAME"
  <2>1. E = rename(D, op.k, op.d, t)
    BY <1>3 DEF Effect
  <2>2. commandKeys(op) = {op.k, op.d}
    BY <1>3 DEF commandKeys, TwoKeys
  <2>3. /\ rename(D, op.k, op.d, t) \in Tables
        /\ \A k \in Keys \ {op.k, op.d} : rename(D, op.k, op.d, t)[k] = D[k]
    BY <1>1, RenameType
  <2> QED BY <2>1, <2>2, <2>3
<1>4. CASE op.cmd = "RPOPLPUSH"
  <2>1. E = rPopLPush(D, op.k, op.d, locked[op.k])
    BY <1>4 DEF Effect
  <2>2. commandKeys(op) = {op.k, op.d}
    BY <1>4 DEF commandKeys, TwoKeys
  <2>3. /\ rPopLPush(D, op.k, op.d, locked[op.k]) \in Tables
        /\ \A k \in Keys \ {op.k, op.d} : rPopLPush(D, op.k, op.d, locked[op.k])[k] = D[k]
    BY <1>1, RPopLPushType
  <2> QED BY <2>1, <2>2, <2>3
<1>5. CASE op.cmd = "PFMERGE"
  <2> DEFINE regs == Registers(D[op.d], t) \cup Registers(D[op.k], t)
  <2>1. regs \in SUBSET Int
    BY <1>1, RegisterOpsType DEF Tables
  <2>2. SaveRegisters(D[op.d], regs) \in KeyState
    BY <1>1, <2>1, RegisterOpsType DEF Tables
  <2>3. E = IF WrongType(D[op.d], "hyperloglog", t) THEN D
            ELSE [D EXCEPT ![op.d] = SaveRegisters(@, regs)]
    BY <1>1, <1>5 DEF Effect, pfMerge, Tables
  <2> HIDE DEF regs
  <2> QED BY <1>1, <1>5, <2>2, <2>3 DEF Tables, commandKeys, TwoKeys
<1>6. CASE op.cmd = "BLPOP"
  <2> DEFINE k == popMultiKey(D, op.k, op.d, locked, t)
             R == popMultiRows(D[k], locked[k], t)
  <2>1. k \in {op.k, op.d}
    BY DEF popMultiKey
  <2>2. DeleteRows(D[k], R) \in KeyState
    BY <1>1, <2>1 DEF DeleteRows, KeyState, Tables
  <2>3. E = [D EXCEPT ![k] = DeleteRows(D[k], R)]
    BY <1>1, <1>6, <2>1 DEF Effect, popMulti, Tables
  <2> HIDE DEF k, R
  <2> QED BY <1>1, <1>6, <2>1, <2>2, <2>3 DEF Tables, commandKeys, PopsOfTwo
<1>61. CASE op.cmd \in {"LMPOP", "RMPOP", "ZMPOPMIN", "ZMPOPMAX"}
  <2> DEFINE P(ty, desc) ==
               LET k == mpopKey(D, op.k, op.d, ty, t)
               IN  [D EXCEPT ![k] = DeleteRows(@, mpopRows(@, ty, op.v, desc, locked[k], t))]
             Kept(Q) == Q \in Tables /\ \A j \in Keys \ {op.k, op.d} : Q[j] = D[j]
  <2>1. ASSUME NEW ty, NEW desc PROVE Kept(P(ty, desc))
    <3> DEFINE k == mpopKey(D, op.k, op.d, ty, t)
               R == mpopRows(D[k], ty, op.v, desc, locked[k], t)
    <3>1. k \in {op.k, op.d}
      BY DEF mpopKey
    <3>2. DeleteRows(D[k], R) \in KeyState
      BY <1>1, <3>1 DEF DeleteRows, KeyState, Tables
    <3>3. P(ty, desc) = [D EXCEPT ![k] = DeleteRows(D[k], R)]
      BY <1>1, <3>1 DEF Tables
    <3> HIDE DEF k, R, P
    <3> QED BY <1>1, <3>1, <3>2, <3>3 DEF Tables
  <2>2. E \in {P("list", FALSE), P("list", TRUE), P("zset", FALSE), P("zset", TRUE)}
    BY <1>61 DEF Effect, popMultiN, zMPop
  <2>3. commandKeys(op) = {op.k, op.d}
    BY <1>61 DEF commandKeys, PopsOfTwo
  <2>4. /\ Kept(P("list", FALSE)) /\ Kept(P("list", TRUE))
        /\ Kept(P("zset", FALSE)) /\ Kept(P("zset", TRUE))
    <3> HIDE DEF P, Kept
    <3> QED BY <2>1
  <2>5. Kept(E)
    <3> HIDE DEF P, Kept, E
    <3> QED BY <2>2, <2>4
  <2> QED BY <2>3, <2>5
<1>62. CASE op.cmd = "COPY"
  <2>1. E = copyKey(D, op.k, op.d, op.opt = "REPLACE", t)
    BY <1>62 DEF Effect
  <2>2. commandKeys(op) = {op.k, op.d}
    BY <1>62 DEF commandKeys, TwoKeys
  <2>3. /\ copyKey(D, op.k, op.d, op.opt = "REPLACE", t) \in Tables
        /\ \A k \in Keys \ {op.k, op.d} : copyKey(D, op.k, op.d, op.opt = "REPLACE", t)[k] = D[k]
    BY <1>1, CopyType, SMTT(30)
  <2> QED BY <2>1, <2>2, <2>3
<1>63. CASE op.cmd = "ZRANGESTORE"
  <2>1. E = zRangeStore(D, op.d, op.k, t)
    BY <1>63 DEF Effect
  <2>2. commandKeys(op) = {op.k, op.d}
    BY <1>63 DEF commandKeys
  <2>3. /\ zRangeStore(D, op.d, op.k, t) \in Tables
        /\ \A k \in Keys \ {op.d, op.k} : zRangeStore(D, op.d, op.k, t)[k] = D[k]
    BY <1>1, ZRangeStoreType
  <2> QED BY <2>1, <2>2, <2>3
<1>7. CASE op.cmd \notin TwoKeys \cup PopsOfTwo \cup {"ZRANGESTORE"}
  <2> DEFINE N == KeyEffect(op, pre, D[op.k], locked[op.k], t, g)
  <2>1. N \in KeyState
    BY <1>1, <1>7, KeyEffectType DEF Tables
  <2>2. E = [D EXCEPT ![op.k] = N]
    BY <1>1, <1>7 DEF Effect, TwoKeys, PopsOfTwo, Tables
  <2> HIDE DEF N
  <2> QED BY <1>1, <2>1, <2>2 DEF Tables, commandKeys
<1> QED BY <1>2, <1>3, <1>4, <1>5, <1>6, <1>61, <1>62, <1>63, <1>7 DEF TwoKeys, PopsOfTwo

\* The sweeper leaves a key well formed.
LEMMA SweepKeyType ==
    ASSUME NEW S \in KeyState, NEW t
    PROVE  SweepKey(S, t) \in KeyState
<1> DEFINE gone == S.meta # NoMeta /\ Expired(S.meta.exp, t)
           dead == IF gone THEN KeyTypes ELSE {r.t : r \in {q \in S.rows : Expired(q.exp, t)}}
           R    == {r \in S.rows : r.t \notin dead}
           left == [meta |-> IF gone THEN NoMeta ELSE S.meta, rows |-> R]
<1>1. left \in KeyState
  BY DropType DEF KeyState
<1>2. [left EXCEPT !.meta = NoMeta] \in KeyState
  BY <1>1 DEF KeyState, Meta, NoMeta, NoTTL
<1>3. SweepKey(S, t) = IF Orphan(left) THEN [left EXCEPT !.meta = NoMeta] ELSE left
  BY DEF SweepKey
<1> HIDE DEF left
<1> QED BY <1>1, <1>2, <1>3

\* What a statement sees is well formed, and where the transaction changed
\* nothing it is what is committed.
LEMMA MergeType ==
    ASSUME NEW cur \in KeyState, NEW old \in KeyState, NEW new \in KeyState
    PROVE  /\ Merge(cur, old, new) \in KeyState
           /\ old = new => Merge(cur, old, new) = cur
  BY DEF Merge, KeyState

\* The items of replies and pushes are integers.
LEMMA ItemsType ==
    ASSUME NEW op \in Op, NEW pre \in KeyState, NEW D \in Tables, NEW locked, NEW t
    PROVE  /\ {Item(r) : r \in Popped(op, pre, D, locked, t)} \subseteq Int
           /\ Pushed(op, D) \subseteq Int
<1>1. op.k \in Keys /\ op.d \in Keys /\ op.v \in Int /\ op.f \in Int
  BY DEF Op
<1>2. \A S \in KeyState : \A L : /\ lPopRows(S, L) \subseteq Row
                                 /\ rPopRows(S, L) \subseteq Row
                                 /\ popMultiRows(S, L, t) \subseteq Row
                                 /\ \A ty, desc : mpopRows(S, ty, op.v, desc, L, t) \subseteq Row
                                 /\ zMinRows(S, t) \subseteq Row
                                 /\ zMaxRows(S, t) \subseteq Row
  BY SMTT(30) DEF lPopRows, rPopRows, popMultiRows, mpopRows, zMinRows, zMaxRows, Least, Table, LiveRows, KeyState
<1>3. Popped(op, pre, D, locked, t) \subseteq Row
  <2>1. popMultiKey(D, op.k, op.d, locked, t) \in Keys
    BY <1>1 DEF popMultiKey
  <2>2. \A ty : mpopKey(D, op.k, op.d, ty, t) \in Keys
    BY <1>1 DEF mpopKey
  <2> QED BY <1>1, <1>2, <2>1, <2>2 DEF Popped, Tables
<1>4. \A r \in Row : Item(r) \in Int
  BY DEF Item, Row
<1>5. Pushed(op, D) \subseteq Int
  BY <1>1 DEF Pushed
<1> QED BY <1>3, <1>4, <1>5

-----------------------------------------------------------------------------
(* The inductive invariant: types, one holder per lock, locks before writes. *)

IInv == TypeOK /\ LocksExclusive /\ LocksCoverWrites

\* What a transaction sees.
LEMMA ViewType ==
    ASSUME TypeOK, NEW c \in Clients
    PROVE  /\ View(c) \in Tables
           /\ \A k \in Keys : tx[c].old[k] = tx[c].new[k] => View(c)[k] = db[k]
<1>1. \A k \in Keys : db[k] \in KeyState /\ tx[c].old[k] \in KeyState /\ tx[c].new[k] \in KeyState
  BY DEF TypeOK, Transaction
<1>2. \A k \in Keys : Merge(db[k], tx[c].old[k], tx[c].new[k]) \in KeyState
  BY <1>1, MergeType
<1>3. \A k \in Keys : View(c)[k] = Merge(db[k], tx[c].old[k], tx[c].new[k])
  BY DEF View
<1>4. View(c) \in Tables
  BY <1>2 DEF View, Tables
<1>5. \A k \in Keys : tx[c].old[k] = tx[c].new[k] => View(c)[k] = db[k]
  BY <1>1, <1>3, MergeType
<1> QED BY <1>4, <1>5

\* No transaction, and one that starts, are well formed and covered.
LEMMA IdleOK == Idle \in Transaction /\ Covered(Idle) /\ Idle.held = {} /\ Idle.pc = "idle"
<1>1. Absent \in KeyState
  BY DEF Absent, KeyState, Meta, NoMeta, NoTTL
<1>2. NoChange \in [Keys -> KeyState]
  BY <1>1 DEF NoChange
<1>3. NoProgram \in Program
  BY DEF NoProgram, Program
<1>4. Idle \in Transaction
  BY <1>1, <1>2, <1>3, BoundsAssumption, SMTT(30) DEF Idle, Transaction, Phases
<1>5. Covered(Idle)
  BY DEF Covered, Idle
<1> QED BY <1>4, <1>5 DEF Idle

\* The keys a program declares are keys.
LEMMA DeclaredType == \A p \in Program : declaredKeys(p) \subseteq Keys
<1> SUFFICES ASSUME NEW p \in Program PROVE declaredKeys(p) \subseteq Keys
  OBVIOUS
<1>1. \A i \in DOMAIN p.ops : p.ops[i] \in Op
  BY DEF Program
<1>2. \A op \in Op : commandKeys(op) \subseteq Keys
  BY DEF commandKeys, Op
<1>3. UNION {commandKeys(p.ops[i]) : i \in DOMAIN p.ops} \subseteq Keys
  BY <1>1, <1>2
<1>4. p.kind \in {"direct", "exec", "script"} /\ p.keys \subseteq Keys
  BY DEF Program
<1> QED BY <1>3, <1>4 DEF declaredKeys

\* A transaction that begins, for the first time or again.
LEMMA StartOK ==
    ASSUME TypeOK, NEW p \in Programs, NEW n \in 0..MaxRetries
    PROVE  Start(p, n) \in Transaction /\ Covered(Start(p, n)) /\ Start(p, n).held = {}
<1>1. p \in Program /\ p.ops # <<>> /\ p.ops \in Seq(Op)
  BY ProgramsAssumption DEF Program
<1>2. 1 \in DOMAIN p.ops
  BY <1>1
<1>3. declaredKeys(p) \subseteq Keys
  BY <1>1, DeclaredType
<1> DEFINE T == Start(p, n)
<1>4. Idle \in Transaction /\ Idle.i = 1 /\ Idle.held = {} /\ Idle.old = Idle.new
  BY IdleOK DEF Idle
<1>5. T = [Idle EXCEPT !.pc = IF declaredKeys(p) = {} THEN "read" ELSE "declare",
                       !.prog = p, !.want = declaredKeys(p), !.t = now, !.tries = n]
  BY DEF Start
<1> HIDE DEF T
<1>6. /\ T.pc = IF declaredKeys(p) = {} THEN "read" ELSE "declare"
      /\ T.prog = p /\ T.want = declaredKeys(p) /\ T.t = now /\ T.tries = n
      /\ T.i = 1 /\ T.held = {} /\ T.old = T.new
  BY <1>4, <1>5 DEF Transaction
<1>7. T \in Transaction
  BY <1>1, <1>3, <1>4, <1>5 DEF TypeOK, Transaction, Phases
<1>8. Covered(T)
  BY <1>2, <1>6 DEF Covered
<1> QED BY <1>6, <1>7, <1>8 DEF T

\* A step of one client keeps the invariant if its new transaction is well
\* formed and covered and took only locks that nobody else holds.
LEMMA ClientChange ==
    ASSUME IInv, NEW c \in Clients, NEW T \in Transaction, Covered(T),
           \A k \in T.held \ tx[c].held : KeyHolders(k) \subseteq {c},
           tx' = [tx EXCEPT ![c] = T], sweep' = sweep,
           db' \in Tables, now' \in Nat, begun' \in Nat, log' \in Seq(Program)
    PROVE  IInv'
<1>1. TypeOK'
  BY DEF IInv, TypeOK, Tables
<1>2. tx \in [Clients -> Transaction]
  BY DEF IInv, TypeOK
<1>3. tx'[c] = T /\ \A d \in Clients \ {c} : tx'[d] = tx[d]
  BY <1>2
<1>4. LocksCoverWrites'
  BY <1>3 DEF IInv, LocksCoverWrites
<1>5. \A d \in Clients \ {c} : T.held \cap tx[d].held = {}
  BY DEF IInv, LocksExclusive, KeyHolders
<1>6. T.held \cap sweep.held = {}
  <2> SUFFICES ASSUME NEW k \in T.held, k \in sweep.held PROVE FALSE
    OBVIOUS
  <2>1. CASE k \in tx[c].held
    BY <2>1 DEF IInv, LocksExclusive
  <2>2. CASE k \notin tx[c].held
    <3>1. Sweeper \in KeyHolders(k)
      BY DEF KeyHolders
    <3> QED BY <2>2, <3>1, SweeperAssumption
  <2> QED BY <2>1, <2>2
<1>7. LocksExclusive'
  BY <1>3, <1>5, <1>6 DEF IInv, LocksExclusive
<1> QED BY <1>1, <1>4, <1>7 DEF IInv

\* Going on to the next operation, or to the commit.
LEMMA Next1OK ==
    ASSUME NEW T \in Transaction, Covered(T), T.pc \in {"read", "write"}
    PROVE  Next1(T) \in Transaction /\ Covered(Next1(T)) /\ Next1(T).held = T.held
<1> DEFINE N == Next1(T)
<1>1. Absent \in KeyState
  BY DEF Absent, KeyState, Meta, NoMeta, NoTTL
<1>2. T.i \in Nat \ {0} /\ T.prog.ops \in Seq(Op)
  BY DEF Transaction, Program
<1>3. N = [T EXCEPT !.i = T.i + 1, !.pre = Absent,
                    !.pc = IF T.i = Len(T.prog.ops) THEN "commit" ELSE "read"]
  BY DEF Next1, Transaction
<1> HIDE DEF N
<1>4. N \in Transaction
  <2> DEFINE i  == T.i + 1
             pc == IF T.i = Len(T.prog.ops) THEN "commit" ELSE "read"
  <2>1. i \in Nat \ {0} /\ pc \in Phases
    BY <1>2 DEF Phases
  <2>2. N = [T EXCEPT !.i = i, !.pre = Absent, !.pc = pc]
    BY <1>3
  <2> HIDE DEF i, pc
  <2> QED BY <1>1, <2>1, <2>2 DEF Transaction
<1>5. /\ N.i = T.i + 1 /\ N.pc = IF T.i = Len(T.prog.ops) THEN "commit" ELSE "read"
      /\ N.held = T.held /\ N.prog = T.prog /\ N.old = T.old /\ N.new = T.new
  BY <1>3 DEF Transaction
<1>6. T.i \in 1..Len(T.prog.ops)
  BY <1>2, SMTT(30) DEF Covered
<1>7. N.pc = "read" => N.i \in DOMAIN N.prog.ops
  BY <1>2, <1>5, <1>6
<1>8. Covered(N)
  BY <1>5, <1>7 DEF Covered
<1> QED BY <1>4, <1>5, <1>8 DEF N

\* An error reply.
LEMMA OnErrorOK ==
    ASSUME NEW T \in Transaction, Covered(T), T.pc \in {"read", "write"}
    PROVE  OnError(T) \in Transaction /\ Covered(OnError(T)) /\ OnError(T).held \subseteq T.held
<1>1. T.prog.kind \in {"direct", "exec", "script"}
  BY DEF Transaction, Program
<1>2. CASE T.prog.kind = "direct"
  BY <1>2, IdleOK DEF OnError
<1>3. CASE T.prog.kind = "exec"
  BY <1>3, Next1OK DEF OnError
<1>4. CASE T.prog.kind = "script"
  <2> DEFINE N == [T EXCEPT !.pc = "commit", !.pre = Absent]
  <2>1. Absent \in KeyState
    BY DEF Absent, KeyState, Meta, NoMeta, NoTTL
  <2>2. N \in Transaction
    BY <2>1 DEF Transaction, Phases
  <2>3. /\ N.pc = "commit" /\ N.held = T.held /\ N.prog = T.prog
        /\ N.old = T.old /\ N.new = T.new
    BY DEF Transaction
  <2> HIDE DEF N
  <2>4. Covered(N)
    BY <2>3 DEF Covered
  <2> QED BY <1>4, <2>2, <2>3, <2>4 DEF OnError, N
<1> QED BY <1>1, <1>2, <1>3, <1>4

\* Init establishes the invariant.
LEMMA InitIInv == Init => IInv
<1> SUFFICES ASSUME Init PROVE IInv
  OBVIOUS
<1>1. Absent \in KeyState
  BY DEF Absent, KeyState, Meta, NoMeta, NoTTL
<1>2. TypeOK
  BY <1>1, IdleOK, SMTT(30) DEF Init, TypeOK, Resting, Cleanup
<1>3. LocksExclusive /\ LocksCoverWrites
  BY IdleOK DEF Init, LocksExclusive, LocksCoverWrites, Resting
<1> QED BY <1>2, <1>3 DEF IInv

\* Taking the next key lock.
LEMMA LockIInv == ASSUME IInv, NEW c \in Clients, Lock(c) PROVE IInv'
<1>1. PICK k \in NextLock(c) :
        /\ KeyHolders(k) \subseteq {c}
        /\ LET rest == tx[c].want \ {k}
               next == IF tx[c].pc = "declare" THEN "read" ELSE "write"
           IN  Become(c, [tx[c] EXCEPT !.held = @ \cup {k}, !.want = rest,
                                       !.pc = IF rest = {} THEN next ELSE @])
  BY DEF Lock
<1> DEFINE S    == tx[c]
           rest == S.want \ {k}
           pc   == IF rest = {} THEN (IF S.pc = "declare" THEN "read" ELSE "write") ELSE S.pc
           T    == [S EXCEPT !.held = S.held \cup {k}, !.want = rest, !.pc = pc]
<1>2. S \in Transaction /\ Covered(S) /\ S.pc \in {"declare", "lock"} /\ k \in S.want
  BY DEF IInv, TypeOK, LocksCoverWrites, Lock, NextLock
<1>3. tx' = [tx EXCEPT ![c] = T]
  BY <1>1, <1>2 DEF Become, Transaction
<1>4. rest \subseteq Keys /\ pc \in Phases /\ S.held \cup {k} \subseteq Keys
  BY <1>2 DEF Transaction, Phases
<1> HIDE DEF S, pc
<1>5. /\ T.held = S.held \cup {k} /\ T.want = rest /\ T.pc = pc /\ T.prog = S.prog
      /\ T.i = S.i /\ T.old = S.old /\ T.new = S.new
  BY <1>2 DEF Transaction
<1>6. T \in Transaction
  BY <1>2, <1>4 DEF Transaction
<1> HIDE DEF T
<1>7. Covered(T)
  BY <1>2, <1>5 DEF Covered, pc
<1>8. \A j \in T.held \ tx[c].held : KeyHolders(j) \subseteq {c}
  BY <1>1, <1>5 DEF S
<1>9. /\ sweep' = sweep /\ db' \in Tables /\ now' \in Nat
      /\ begun' \in Nat /\ log' \in Seq(Program)
  BY DEF Lock, IInv, TypeOK, Tables
<1> QED BY <1>3, <1>6, <1>7, <1>8, <1>9, ClientChange

\* The operation a transaction has reached is one of its program's.
LEMMA CurrentOpType ==
    ASSUME NEW T \in Transaction, T.i \in DOMAIN T.prog.ops
    PROVE  T.prog.ops[T.i] \in Op
<1>1. T.prog \in Program
  BY DEF Transaction
<1>2. T.prog.ops \in Seq(Op)
  BY <1>1 DEF Program
<1> QED BY <1>2

\* The statement before the lock.
LEMMA ReadIInv == ASSUME IInv, NEW c \in Clients, Read(c) PROVE IInv'
<1> DEFINE T   == tx[c]
           op  == CurrentOp(c)
           pre == Reads(op, View(c), T.t)
<1>1. T \in Transaction /\ Covered(T) /\ T.pc = "read"
  BY DEF IInv, TypeOK, LocksCoverWrites, Read
<1>2. op \in Op
  <2>1. T.i \in DOMAIN T.prog.ops
    BY <1>1 DEF Covered
  <2> QED BY <1>1, <2>1, CurrentOpType DEF CurrentOp
<1>3. /\ sweep' = sweep /\ db' \in Tables /\ now' \in Nat
      /\ begun' \in Nat /\ log' \in Seq(Program)
  BY DEF Read, IInv, TypeOK, Tables
<1>4. CASE Become(c, OnError(T))
  <2>1. tx' = [tx EXCEPT ![c] = OnError(T)]
    BY <1>4 DEF Become
  <2>2. OnError(T) \in Transaction /\ Covered(OnError(T)) /\ OnError(T).held \subseteq T.held
    BY <1>1, OnErrorOK
  <2> QED BY <1>3, <2>1, <2>2, ClientChange
<1>5. CASE Become(c, Next1(T))
  <2>1. tx' = [tx EXCEPT ![c] = Next1(T)]
    BY <1>5 DEF Become
  <2>2. Next1(T) \in Transaction /\ Covered(Next1(T)) /\ Next1(T).held = T.held
    BY <1>1, Next1OK
  <2> QED BY <1>3, <2>1, <2>2, ClientChange
<1> DEFINE want == keyLocks(op) \ T.held
           seen == IF readsFirst(op) THEN pre ELSE Absent
           pc   == IF want = {} THEN "write" ELSE "lock"
           N    == [T EXCEPT !.pre = seen, !.want = want, !.pc = pc]
<1>6. CASE Become(c, N)
  <2>1. tx' = [tx EXCEPT ![c] = N]
    BY <1>6 DEF Become
  <2>2. seen \in KeyState
    <3>1. View(c) \in Tables
      BY ViewType DEF IInv
    <3>2. pre \in KeyState
      BY <1>2, <3>1, ReadsType
    <3> QED BY <3>2 DEF Absent, KeyState, Meta, NoMeta, NoTTL
  <2>3. want \subseteq Keys /\ pc \in Phases
    BY <1>2 DEF keyLocks, Op, Phases
  <2>4. op = T.prog.ops[T.i]
    BY DEF CurrentOp
  <2> HIDE DEF T, op, seen, pc
  <2>5. /\ N.want = want /\ N.pc = pc /\ N.held = T.held /\ N.prog = T.prog
        /\ N.i = T.i /\ N.old = T.old /\ N.new = T.new
    BY <1>1 DEF Transaction
  <2>6. N \in Transaction
    BY <1>1, <2>2, <2>3 DEF Transaction
  <2> HIDE DEF N
  <2>7. Covered(N)
    BY <1>1, <2>4, <2>5 DEF Covered, pc
  <2>8. N.held = tx[c].held
    BY <2>5 DEF T
  <2> QED BY <1>3, <2>1, <2>6, <2>7, <2>8, ClientChange
<1> QED BY <1>4, <1>5, <1>6 DEF Read

\* The writing statements: what they change is a key of the operation.
LEMMA WriteIInv == ASSUME IInv, NEW c \in Clients, Write(c) PROVE IInv'
<1> DEFINE T    == tx[c]
           op   == CurrentOp(c)
           V    == View(c)
           N    == After(c)
           W    == {k \in Keys : N[k] # V[k]}
           old  == [k \in Keys |-> IF k \in W THEN db[k] ELSE T.old[k]]
           new  == [k \in Keys |-> IF k \in W THEN N[k] ELSE T.new[k]]
           in   == T.pushed \cup ({T.i} \X Pushed(op, V))
           out  == T.popped \cup ({T.i} \X
                     {Item(r) : r \in Popped(op, T.pre, V, LockedByOthers(c), T.t)})
           done == [T EXCEPT !.old = old, !.new = new, !.pushed = in, !.popped = out]
<1>1. T \in Transaction /\ Covered(T) /\ T.pc = "write"
  BY DEF IInv, TypeOK, LocksCoverWrites, Write
<1>2. op \in Op /\ op = T.prog.ops[T.i] /\ T.i \in DOMAIN T.prog.ops
  <2>1. T.i \in DOMAIN T.prog.ops
    BY <1>1 DEF Covered
  <2> QED BY <1>1, <2>1, CurrentOpType DEF CurrentOp
<1>3. /\ sweep' = sweep /\ db' \in Tables /\ now' \in Nat
      /\ begun' \in Nat /\ log' \in Seq(Program)
  BY DEF Write, IInv, TypeOK, Tables
<1>4. V \in Tables /\ db \in Tables /\ T.pre \in KeyState /\ now \in Nat
  BY <1>1, ViewType DEF IInv, TypeOK, Transaction, Tables
<1>5. N \in Tables /\ \A k \in Keys \ commandKeys(op) : N[k] = V[k]
  <2>1. N = Effect(op, T.pre, V, LockedByOthers(c), T.t, now)
    BY DEF After
  <2> HIDE DEF N, V, T, op
  <2> QED BY <1>2, <1>4, <2>1, EffectType, SMTT(30)
<1>6. old \in [Keys -> KeyState] /\ new \in [Keys -> KeyState]
  BY <1>1, <1>4, <1>5 DEF Transaction, Tables
<1>7. in \in SUBSET (Nat \X Int) /\ out \in SUBSET (Nat \X Int)
  <2>1. /\ {Item(r) : r \in Popped(op, T.pre, V, LockedByOthers(c), T.t)} \subseteq Int
        /\ Pushed(op, V) \subseteq Int
    BY <1>2, <1>4, ItemsType
  <2>2. T.i \in Nat /\ T.pushed \in SUBSET (Nat \X Int) /\ T.popped \in SUBSET (Nat \X Int)
    BY <1>1 DEF Transaction
  <2> QED BY <2>1, <2>2
<1>8. W \subseteq commandKeys(op)
  BY <1>5
<1>9. Guarded(T.prog) => W \subseteq T.held
  BY <1>1, <1>2, <1>8 DEF Guarded, Covered
<1>10. \/ Become(c, Idle) \/ Become(c, OnError(done)) \/ Become(c, Next1(done))
  <2>1. done = [T EXCEPT
                  !.old = [k \in Keys |-> IF k \in W THEN db[k] ELSE @[k]],
                  !.new = [k \in Keys |-> IF k \in W THEN N[k] ELSE @[k]],
                  !.pushed = @ \cup ({T.i} \X Pushed(op, V)),
                  !.popped = @ \cup ({T.i} \X
                      {Item(r) : r \in Popped(op, T.pre, V, LockedByOthers(c), T.t)})]
    BY <1>1 DEF Transaction
  <2> QED BY <2>1 DEF Write
<1> HIDE DEF T, op, V, N, W, in, out
<1>11. /\ done.old = old /\ done.new = new /\ done.held = T.held /\ done.prog = T.prog
       /\ done.i = T.i /\ done.pc = T.pc
  BY <1>1 DEF Transaction
<1>12. done \in Transaction
  BY <1>1, <1>6, <1>7 DEF Transaction
<1>13. Covered(done)
  <2>1. \A k \in Keys : done.old[k] # done.new[k] => k \in W \/ T.old[k] # T.new[k]
    BY <1>11
  <2> HIDE DEF done, old, new
  <2> QED BY <1>1, <1>9, <1>11, <2>1 DEF Covered
<1> HIDE DEF done
<1>14. CASE Become(c, OnError(done))
  <2>1. /\ OnError(done) \in Transaction /\ Covered(OnError(done))
        /\ OnError(done).held \subseteq tx[c].held
    BY <1>1, <1>11, <1>12, <1>13, OnErrorOK DEF T
  <2> QED BY <1>3, <1>14, <2>1, ClientChange DEF Become
<1>15. CASE Become(c, Next1(done))
  <2>1. Next1(done) \in Transaction /\ Covered(Next1(done)) /\ Next1(done).held = tx[c].held
    BY <1>1, <1>11, <1>12, <1>13, Next1OK DEF T
  <2> QED BY <1>3, <1>15, <2>1, ClientChange DEF Become
<1>16. CASE Become(c, Idle)
  <2>1. Idle \in Transaction /\ Covered(Idle) /\ Idle.held = {}
    BY IdleOK
  <2> QED BY <1>3, <1>16, <2>1, ClientChange DEF Become
<1> QED BY <1>10, <1>14, <1>15, <1>16

\* The end of a transaction: committed, or not.
LEMMA EndIInv ==
    ASSUME IInv, NEW c \in Clients, Commit(c) \/ CommitLost(c) \/ Abort(c)
    PROVE  IInv'
<1>1. tx' = [tx EXCEPT ![c] = Idle] /\ sweep' = sweep /\ now' \in Nat /\ begun' \in Nat
  BY DEF Commit, CommitLost, Abort, Become, IInv, TypeOK
<1>2. db' \in Tables
  BY ViewType DEF Commit, CommitLost, Abort, IInv, TypeOK, Tables
<1>3. log' \in Seq(Program)
  <2>1. log \in Seq(Program) /\ tx[c].prog \in Program
    BY DEF IInv, TypeOK, Transaction
  <2>2. log' = log \/ log' = Append(log, tx[c].prog)
    BY DEF Commit, CommitLost, Abort
  <2> QED BY <2>1, <2>2
<1> QED BY <1>1, <1>2, <1>3, IdleOK, ClientChange

\* The sweeper's steps touch no client.
LEMMA SweepIInv == ASSUME IInv, SweepStep PROVE IInv'
<1>1. /\ tx' = tx /\ now' = now /\ begun' = begun /\ log' = log
  BY DEF SweepStep, SweepScan, SweepLock, SweepDelete, SweepAbort
<1>2. Resting \in Cleanup /\ Resting.held = {}
  BY DEF Resting, Cleanup
<1>3. db' \in Tables
  <2>1. SweepResult \in Tables
    BY SweepKeyType DEF SweepResult, IInv, TypeOK, Tables
  <2> QED BY <2>1 DEF SweepStep, SweepScan, SweepLock, SweepDelete, SweepAbort,
                      IInv, TypeOK, Tables
<1>4. sweep' \in Cleanup /\ \A c \in Clients : tx[c].held \cap sweep'.held = {}
  <2>1. CASE SweepScan
    <3> DEFINE cand == {k \in Keys : SweepCandidate(db[k], now)}
    <3>1. sweep' = [Resting EXCEPT !.pc = "lock", !.cand = cand, !.t = now]
      BY <2>1 DEF SweepScan
    <3>2. cand \subseteq Keys /\ now \in Nat
      BY DEF IInv, TypeOK
    <3> HIDE DEF cand
    <3> QED BY <1>2, <3>1, <3>2 DEF Cleanup
  <2>2. CASE SweepLock
    <3> DEFINE free == {k \in sweep.cand : \A c \in Clients : k \notin tx[c].held}
    <3>1. sweep' = IF free = {} THEN Resting
                   ELSE [sweep EXCEPT !.pc = "delete", !.cand = {}, !.held = free]
      BY <2>2 DEF SweepLock
    <3>2. free \subseteq Keys /\ \A c \in Clients : tx[c].held \cap free = {}
      BY DEF IInv, TypeOK, Cleanup
    <3>3. sweep \in Cleanup
      BY DEF IInv, TypeOK
    <3> HIDE DEF free
    <3> QED BY <1>2, <3>1, <3>2, <3>3 DEF Cleanup
  <2>3. CASE SweepDelete \/ SweepAbort
    BY <1>2, <2>3 DEF SweepDelete, SweepAbort
  <2> QED BY <2>1, <2>2, <2>3 DEF SweepStep
<1> QED BY <1>1, <1>3, <1>4 DEF IInv, TypeOK, LocksExclusive, LocksCoverWrites, Tables

\* Every step keeps the invariant.
LEMMA NextIInv == IInv /\ [Next]_vars => IInv'
<1> SUFFICES ASSUME IInv, [Next]_vars PROVE IInv'
  OBVIOUS
<1>1. ASSUME NEW c \in Clients, NEW p \in Programs, Begin(c, p) PROVE IInv'
  <2>1. 0 \in 0..MaxRetries
    BY BoundsAssumption
  <2>2. Start(p, 0) \in Transaction /\ Covered(Start(p, 0)) /\ Start(p, 0).held = {}
    BY <2>1, StartOK DEF IInv
  <2>3. /\ tx' = [tx EXCEPT ![c] = Start(p, 0)] /\ sweep' = sweep /\ db' \in Tables
        /\ now' \in Nat /\ begun' \in Nat /\ log' \in Seq(Program)
    BY <1>1, SMTT(30) DEF Begin, Become, IInv, TypeOK, Tables
  <2> QED BY <2>2, <2>3, ClientChange
<1>2. ASSUME NEW c \in Clients, DeadlockVictim(c) PROVE IInv'
  <2> DEFINE T == IF tx[c].tries < MaxRetries
                  THEN Start(tx[c].prog, tx[c].tries + 1) ELSE Idle
  <2>1. tx[c].pc # "idle"
    <3>1. WaitsFor(c) # {}
      BY <1>2 DEF DeadlockVictim, InDeadlock, Processes
    <3> QED BY <3>1, SweeperAssumption DEF WaitsFor
  <2>2. tx[c].prog \in Programs /\ tx[c].tries \in 0..MaxRetries
    BY <2>1 DEF IInv, TypeOK, LocksCoverWrites, Covered, Transaction
  <2>3. tx[c].tries < MaxRetries => tx[c].tries + 1 \in 0..MaxRetries
    BY <2>2, BoundsAssumption
  <2>4. T \in Transaction /\ Covered(T) /\ T.held = {}
    BY <2>2, <2>3, StartOK, IdleOK DEF IInv
  <2>5. /\ tx' = [tx EXCEPT ![c] = T] /\ sweep' = sweep /\ db' \in Tables
        /\ now' \in Nat /\ begun' \in Nat /\ log' \in Seq(Program)
    BY <1>2 DEF DeadlockVictim, Become, IInv, TypeOK, Tables
  <2> HIDE DEF T
  <2> QED BY <2>4, <2>5, ClientChange
<1>3. ASSUME NEW c \in Clients, ClientStep(c) PROVE IInv'
  BY <1>1, <1>2, <1>3, LockIInv, ReadIInv, WriteIInv, EndIInv DEF ClientStep, TxStep
<1>4. CASE Tick
  BY <1>4, SMTT(30) DEF Tick, IInv, TypeOK, LocksExclusive, LocksCoverWrites
<1>5. CASE UNCHANGED vars
  BY <1>5 DEF vars, IInv, TypeOK, LocksExclusive, LocksCoverWrites
<1> QED BY <1>3, <1>4, <1>5, SweepIInv DEF Next, Quiet

-----------------------------------------------------------------------------
(* Theorems *)

\* The invariant holds in every reachable state.
THEOREM Invariance == Spec => []IInv
  BY InitIInv, NextIInv, PTL DEF Spec

\* No sequence of commands, transactions, scripts, failures and cleanups leaves
\* a malformed table, transaction or cleanup state.
THEOREM TypeCorrect == Spec => []TypeOK
<1>1. IInv => TypeOK
  BY DEF IInv
<1> QED BY <1>1, Invariance, PTL

\* pg_advisory_xact_lock and the sweeper's try-lock, as the code uses them, give
\* every key at most one holder.
THEOREM MutualExclusion == Spec => []LocksExclusive
<1>1. IInv => LocksExclusive
  BY DEF IInv
<1> QED BY <1>1, Invariance, PTL

\* LockKeys, lockKey and lockKeys come before the writes they protect.
THEOREM WritesAreCovered == Spec => []LocksCoverWrites
<1>1. IInv => LocksCoverWrites
  BY DEF IInv
<1> QED BY <1>1, Invariance, PTL

\* If every program locks the keys of its operations (as EXEC does, scripts
\* that declare their keys do, and direct commands do except for the unlocked
\* removals), nobody commits a change to a key while another holds its lock.
THEOREM LocksProtect ==
    ASSUME \A p \in Programs : Guarded(p)
    PROVE  Spec => LockedKeysStable
<1> DEFINE Stable == \A k \in Keys : db'[k] # db[k] =>
                        /\ \A c \in Clients : k \in tx[c].held => tx'[c].pc = "idle"
                        /\ k \in sweep.held => sweep'.pc = "idle"
<1>1. IInv /\ [Next]_vars => [Stable]_vars
  <2> SUFFICES ASSUME IInv, Next, NEW k \in Keys, db'[k] # db[k]
               PROVE  /\ \A c \in Clients : k \in tx[c].held => tx'[c].pc = "idle"
                      /\ k \in sweep.held => sweep'.pc = "idle"
    OBVIOUS
  <2>1. ASSUME NEW c \in Clients, Commit(c) \/ CommitLost(c)
        PROVE  /\ \A d \in Clients : k \in tx[d].held => tx'[d].pc = "idle"
               /\ k \in sweep.held => sweep'.pc = "idle"
    <3>1. /\ tx[c].pc = "commit" /\ db' = View(c) /\ tx' = [tx EXCEPT ![c] = Idle]
          /\ tx \in [Clients -> Transaction] /\ Covered(tx[c])
      BY <2>1 DEF Commit, CommitLost, Become, IInv, TypeOK, LocksCoverWrites
    <3>2. Guarded(tx[c].prog)
      BY <3>1 DEF Covered
    <3>3. tx[c].old[k] # tx[c].new[k]
      BY <3>1, ViewType DEF IInv
    <3>4. k \in tx[c].held
      BY <3>1, <3>2, <3>3 DEF Covered
    <3>5. k \notin sweep.held /\ \A d \in Clients \ {c} : k \notin tx[d].held
      BY <3>4 DEF IInv, LocksExclusive
    <3>6. tx'[c].pc = "idle"
      BY <3>1, IdleOK
    <3> QED BY <3>5, <3>6
  <2>2. ASSUME SweepDelete
        PROVE  /\ \A d \in Clients : k \in tx[d].held => tx'[d].pc = "idle"
               /\ k \in sweep.held => sweep'.pc = "idle"
    <3>1. k \in sweep.held
      BY <2>2 DEF SweepDelete, SweepResult
    <3>2. \A d \in Clients : k \notin tx[d].held
      BY <3>1 DEF IInv, LocksExclusive
    <3> QED BY <2>2, <3>2 DEF SweepDelete, Resting
  <2>3. \/ \E c \in Clients : Commit(c) \/ CommitLost(c)
        \/ SweepDelete
    BY DEF Next, ClientStep, TxStep, SweepStep, Begin, Lock, Read, Write, Abort, DeadlockVictim,
           SweepScan, SweepLock, SweepAbort, Tick, Quiet, vars
  <2> QED BY <2>1, <2>2, <2>3
<1>2. Spec => [][Stable]_vars
  BY <1>1, Invariance, PTL DEF Spec
<1> QED BY <1>2 DEF LockedKeysStable

=============================================================================
