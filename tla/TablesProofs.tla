---------------------------- MODULE TablesProofs ----------------------------
(***************************************************************************)
(* Proofs about what the locks are for: what the committed tables say of a  *)
(* key.  The type and expiry of a key (its kv_meta row) change only under   *)
(* the key's lock, whatever the programs; so a lease taken with SETNX is    *)
(* not taken twice, and as long as only writers of whole values have        *)
(* committed, kv_meta and the data tables agree.                            *)
(***************************************************************************)
EXTENDS StorageProofs, Flush

-----------------------------------------------------------------------------
(* Operators.                                                               *)

\* A key that has expired stays expired.
LEMMA ExistsMonotone ==
    ASSUME NEW S \in KeyState, NEW t \in Nat, NEW u \in Nat, t <= u, exists(S, u)
    PROVE  exists(S, t)
  BY DEF exists, getKeyType, Unexpired, KeyState, Meta, NoTTL

\* A statement that writes what it saw leaves what it wrote.
LEMMA MergeOwn ==
    ASSUME NEW old \in KeyState, NEW new \in KeyState
    PROVE  Merge(old, old, new) = new
  BY DEF Merge, KeyState

\* A row version of kv_meta that the transaction did not write is the committed one.
LEMMA MergeMeta ==
    ASSUME NEW cur, NEW old, NEW new
    PROVE  /\ old.meta = new.meta => Merge(cur, old, new).meta = cur.meta
           /\ cur.meta = old.meta => Merge(cur, old, new).meta = new.meta
  BY DEF Merge

\* Statements that take no lock of their key leave its kv_meta row alone.
LEMMA MetaNeedsLock ==
    ASSUME NEW op \in Op, NEW pre \in KeyState, NEW D \in Tables, NEW locked, NEW t, NEW g \in Nat,
           NEW k \in Keys \ keyLocks(op)
    PROVE  Effect(op, pre, D, locked, t, g)[k].meta = D[k].meta
<1> DEFINE E == Effect(op, pre, D, locked, t, g)
<1>1. op.k \in Keys /\ op.d \in Keys /\ D[k] \in KeyState
  BY Zenon DEF Op, Tables
<1>2. CASE op.cmd \in Unlocked
  <2>1. ASSUME NEW j \in Keys, NEW R, E = [D EXCEPT ![j] = DeleteRows(@, R)]
        PROVE  E[k].meta = D[k].meta
    <3>1. DeleteRows(D[j], R).meta = D[j].meta
      BY DEF DeleteRows, KeyState, Tables
    <3> QED BY <2>1, <3>1 DEF Tables
  <2>2. CASE op.cmd = "BLPOP"
    <3>1. popMultiKey(D, op.k, op.d, locked, t) \in Keys
      BY <1>1 DEF popMultiKey
    <3> QED BY <2>1, <2>2, <3>1, Zenon DEF Effect, popMulti, Tables
  <2>3. CASE op.cmd \in {"LMPOP", "RMPOP", "ZMPOPMIN", "ZMPOPMAX"}
    <3>1. \A ty : mpopKey(D, op.k, op.d, ty, t) \in Keys
      BY <1>1 DEF mpopKey
    <3> QED BY <2>1, <2>3, <3>1, Zenon DEF Effect, popMultiN, zMPop, Tables
  <2>4. CASE op.cmd \notin {"BLPOP", "LMPOP", "RMPOP", "ZMPOPMIN", "ZMPOPMAX"}
    <3> DEFINE N == KeyEffect(op, pre, D[op.k], locked[op.k], t, g)
    <3>1. E = [D EXCEPT ![op.k] = N]
      BY <1>2, <2>4, Zenon DEF Effect, Unlocked
    <3> DEFINE S == D[op.k]
               L == locked[op.k]
    <3>2. S \in KeyState
      BY <1>1 DEF Tables
    <3>3. N.meta = S.meta
      <4> HIDE DEF S, L
      <4>1. CASE op.cmd = "LPOP"
        <5>1. N = lPop(S, L)
          BY <4>1 DEF KeyEffect, Stores, S, L
        <5> QED BY <3>2, <5>1 DEF lPop, DeleteRows, KeyState
      <4>2. CASE op.cmd = "RPOP"
        <5>1. N = rPop(S, L)
          BY <4>2 DEF KeyEffect, Stores, S, L
        <5> QED BY <3>2, <5>1 DEF rPop, DeleteRows, KeyState
      <4>3. CASE op.cmd \in {"HDEL", "SREM", "ZREM"}
        <5>1. N \in {hDel(S, op.f), sRem(S, op.f), zRem(S, op.f)}
          BY <4>3, Zenon DEF KeyEffect, Stores, S
        <5> QED BY <3>2, <5>1 DEF hDel, sRem, zRem, RemoveMember, KeyState
      <4>4. CASE op.cmd = "LREM"
        <5>1. N = lRem(S, op.v)
          BY <4>4 DEF KeyEffect, Stores, S
        <5> QED BY <3>2, <5>1 DEF lRem, KeyState
      <4>5. CASE op.cmd \in {"ZPOPMIN", "ZPOPMAX"}
        <5>1. N \in {zPopMin(pre, S, t), zPopMax(pre, S, t)}
          BY <4>5, Zenon DEF KeyEffect, Stores, S
        <5> QED BY <3>2, <5>1 DEF zPopMin, zPopMax, DeleteMembers, KeyState
      <4>6. CASE op.cmd = "ZREMRANGEBYSCORE"
        <5>1. N = zRemRangeByScore(S, op.f, op.v)
          BY <4>6 DEF KeyEffect, Stores, S
        <5> QED BY <3>2, <5>1 DEF zRemRangeByScore, KeyState
      <4>7. CASE op.cmd = "LSET"
        <5>1. N = lSet(pre, S, op.f, op.v)
          BY <4>7 DEF KeyEffect, Stores, S
        <5> QED BY <3>2, <5>1 DEF lSet, KeyState
      <4> QED BY <1>2, <2>4, <4>1, <4>2, <4>3, <4>4, <4>5, <4>6, <4>7 DEF Unlocked
    <3> HIDE DEF N
    <3> QED BY <1>1, <3>1, <3>3 DEF Tables
  <2> QED BY <2>2, <2>3, <2>4
<1>3. CASE op.cmd \in TwoKeys
  <2>1. k \notin {op.k, op.d} /\ commandKeys(op) = {op.k, op.d}
    BY <1>3 DEF keyLocks, commandKeys, TwoKeys, Unlocked
  <2>2. E[k] = D[k]
    BY <2>1, EffectType
  <2> QED BY <2>2
<1>4. CASE op.cmd \notin Unlocked \cup TwoKeys
  <2>1. k # op.k
    BY <1>4 DEF keyLocks
  <2>2. E[k] = D[k]
    BY <1>1, <1>4, <2>1, Zenon DEF Effect, TwoKeys, Unlocked, zRangeStore, Tables
  <2> QED BY <2>2
<1> QED BY <1>2, <1>3, <1>4

-----------------------------------------------------------------------------
(* What the commands do to a key that kv_meta and the data tables agree on.  *)

\* The tables agree on the key and it is missing or a string.
Good(S) == TablesAgree(S) /\ (S.meta # NoMeta => S.meta.type = "string")

\* A missing key agrees, and so does a whole string written with one expiry.
LEMMA GoodAbsent == Good(Absent)
  BY DEF Good, TablesAgree, Absent

\* Every row and the kv_meta row of a string get the same expiry.
LEMMA GoodTTL ==
    ASSUME NEW S \in KeyState, Good(S), S.meta # NoMeta, NEW exp \in Nat, NEW types, "string" \in types
    PROVE  Good(SetRowTTL([S EXCEPT !.meta.exp = exp], types, exp))
<1> DEFINE R == {IF r.t \in types THEN [r EXCEPT !.exp = exp] ELSE r : r \in S.rows}
           N == SetRowTTL([S EXCEPT !.meta.exp = exp], types, exp)
<1>1. S.meta \in Meta /\ S.meta.type = "string" /\ S.rows \in SUBSET Row /\ S.rows # {}
  BY DEF Good, TablesAgree, KeyState
<1>2. \A r \in S.rows : r \in Row /\ r.t = "string"
  BY <1>1 DEF Good, TablesAgree
<1>3. \A q \in R : q.t = "string" /\ q.exp = exp
  BY <1>2 DEF Row
<1>4. R # {}
  BY <1>1, Zenon
<1>5. N.rows = R /\ N.meta = [S.meta EXCEPT !.exp = exp]
  BY DEF SetRowTTL, KeyState
<1>6. N.meta.type = "string" /\ N.meta.exp = exp /\ N.meta # NoMeta
  BY <1>1, <1>5 DEF Meta, NoMeta
<1> HIDE DEF N, R
<1>7. Good(N)
  BY <1>3, <1>4, <1>5, <1>6 DEF Good, TablesAgree
<1> QED BY <1>7 DEF N

\* Commands on one key that write a whole string, delete it or move its expiry.
LEMMA GoodOps ==
    ASSUME NEW S \in KeyState, Good(S), NEW v \in Int, NEW exp \in Nat, NEW t, NEW opt
    PROVE  /\ Good(set(S, v, exp))
           /\ Good(setNX(S, v, exp, t))
           /\ Good(getEx(S, exp, t))
           /\ Good(getDel(S, t))
           /\ Good(expire(S, exp, opt, t))
           /\ Good(persist(S, t))
<1>1. Good(set(S, v, exp))
  <2> DEFINE r == [t |-> "string", f |-> 0, v |-> v, exp |-> exp]
  <2>1. set(S, v, exp).rows = {r} /\ set(S, v, exp).meta = [type |-> "string", exp |-> exp]
    BY DEF set, setMeta, deleteKeyFromAllTables, Absent
  <2>2. r.t = "string" /\ r.exp = exp
    OBVIOUS
  <2>3. [type |-> "string", exp |-> exp] # NoMeta
    BY DEF NoMeta
  <2> HIDE DEF r
  <2> QED BY <2>1, <2>2, <2>3 DEF Good, TablesAgree
<1>2. Good(setNX(S, v, exp, t))
  BY <1>1, Zenon DEF setNX
<1>3. S.meta \in Meta /\ S.rows \subseteq Row
  BY DEF KeyState
<1>4. ASSUME get(S, t) # {} PROVE S.meta # NoMeta
  BY <1>4 DEF get, LiveRows, Table, Good, TablesAgree
<1>5. Good(getEx(S, exp, t))
  <2>1. CASE get(S, t) = {}
    BY <2>1 DEF getEx
  <2>2. CASE get(S, t) # {}
    <3>1. getEx(S, exp, t) = SetRowTTL([S EXCEPT !.meta.exp = exp], {"string"}, exp)
      BY <1>3, <1>4, <2>2 DEF getEx, KeyState
    <3>2. "string" \in {"string"}
      OBVIOUS
    <3> QED BY <1>4, <2>2, <3>1, <3>2, GoodTTL
  <2> QED BY <2>1, <2>2
<1>6. Good(getDel(S, t))
  <2>1. CASE get(S, t) = {}
    BY <2>1 DEF getDel
  <2>2. CASE get(S, t) # {}
    <3>1. S.rows \ Table(S, "string") = {}
      BY <1>4, <2>2 DEF Table, Good, TablesAgree
    <3>2. getDel(S, t) = Absent
      BY <2>2, <3>1 DEF getDel, Absent
    <3> QED BY <3>2, GoodAbsent
  <2> QED BY <2>1, <2>2
<1>7. Good(expire(S, exp, opt, t))
  <2>1. CASE ~expireWhereClause(S.meta, exp, opt, t)
    BY <2>1 DEF expire
  <2>2. CASE expireWhereClause(S.meta, exp, opt, t)
    <3> DEFINE types == {ty \in {S.meta.type} : dataTableForType(ty)}
    <3>1. S.meta # NoMeta
      BY <2>2, Zenon DEF expireWhereClause
    <3>2. "string" \in types
      BY <3>1 DEF dataTableForType, KeyTypes, Good
    <3>3. expire(S, exp, opt, t) = SetRowTTL([S EXCEPT !.meta.exp = exp], types, exp)
      BY <2>2 DEF expire
    <3> HIDE DEF types
    <3> QED BY <3>1, <3>2, <3>3, GoodTTL
  <2> QED BY <2>1, <2>2
<1>8. Good(persist(S, t))
  <2>1. CASE S.meta.exp = NoTTL \/ S.meta.exp <= t
    BY <2>1 DEF persist
  <2>2. CASE ~(S.meta.exp = NoTTL \/ S.meta.exp <= t)
    <3>1. persist(S, t) = SetRowTTL([S EXCEPT !.meta.exp = NoTTL], KeyTypes, NoTTL)
      BY <2>2 DEF persist
    <3>2. S.meta # NoMeta /\ "string" \in KeyTypes /\ NoTTL \in Nat
      BY <2>2 DEF NoMeta, NoTTL, KeyTypes
    <3> QED BY <3>1, <3>2, GoodTTL
  <2> QED BY <2>1, <2>2
<1> QED BY <1>1, <1>2, <1>5, <1>6, <1>7, <1>8

\* RENAME takes the whole string over; onto itself it deletes it.
LEMMA GoodRename ==
    ASSUME NEW D \in Tables, \A k \in Keys : Good(D[k]), NEW a \in Keys, NEW b \in Keys, NEW t
    PROVE  \A k \in Keys : Good(rename(D, a, b, t)[k])
<1> DEFINE ty      == getKeyType(D[a], t)
           cleared == [D EXCEPT ![b] = Absent]
           moved   == Table(cleared[a], ty)
           E       == rename(D, a, b, t)
<1>1. E = IF ty = "none" THEN D
          ELSE IF ~dataTableForType(ty) \/ a = b THEN cleared
          ELSE [cleared EXCEPT ![b] = [meta |-> cleared[a].meta, rows |-> moved],
                               ![a] = [meta |-> NoMeta, rows |-> cleared[a].rows \ moved]]
  BY Zenon DEF rename, deleteKeyFromAllTables, Tables
<1>2. \A k \in Keys : Good(cleared[k])
  BY GoodAbsent DEF Tables
<1>3. ASSUME ty # "none", a # b
      PROVE  Good([meta |-> cleared[a].meta, rows |-> moved]) /\ cleared[a].rows \ moved = {}
  <2>1. cleared[a] = D[a] /\ D[a] \in KeyState /\ Good(D[a])
    BY <1>3 DEF Tables
  <2>2. D[a].meta # NoMeta /\ ty = D[a].meta.type
    BY <1>3 DEF getKeyType, NoMeta
  <2>3. moved = D[a].rows
    BY <2>1, <2>2 DEF Table, Good, TablesAgree
  <2>4. [meta |-> cleared[a].meta, rows |-> moved] = D[a]
    BY <2>1, <2>3 DEF KeyState
  <2> QED BY <2>1, <2>3, <2>4
<1>4. cleared \in [Keys -> KeyState]
  BY AbsentType DEF Tables
<1> HIDE DEF ty, cleared, moved, E
<1>5. CASE ty = "none"
  BY <1>1, <1>5 DEF E
<1>6. CASE ty # "none" /\ (~dataTableForType(ty) \/ a = b)
  BY <1>1, <1>2, <1>6 DEF E
<1>7. CASE ty # "none" /\ dataTableForType(ty) /\ a # b
  <2>1. E = [cleared EXCEPT ![b] = [meta |-> cleared[a].meta, rows |-> moved], ![a] = Absent]
    BY <1>1, <1>3, <1>7, Zenon DEF Absent
  <2>2. \A k \in Keys : E[k] = IF k = a THEN Absent
                               ELSE IF k = b THEN [meta |-> cleared[a].meta, rows |-> moved]
                               ELSE cleared[k]
    BY <1>4, <1>7, <2>1
  <2> QED BY <1>2, <1>3, <1>7, <2>2, GoodAbsent DEF E
<1> QED BY <1>5, <1>6, <1>7

\* COPY of a string that PostgreSQL does not break off: the copy is whole.
LEMMA GoodCopy ==
    ASSUME NEW D \in Tables, \A k \in Keys : Good(D[k]), NEW a \in Keys, NEW b \in Keys,
           NEW replace, NEW t, ~copyBreaks(D, a, b, replace, t)
    PROVE  \A k \in Keys : Good(copyKey(D, a, b, replace, t)[k])
<1> DEFINE cleared == copyCleared(D, b, t)
           rows    == Table(cleared[a], "string")
           exp     == (CHOOSE r \in rows : TRUE).exp
           copy    == [meta |-> [type |-> "string", exp |-> exp], rows |-> cleared[b].rows \cup rows]
           E       == copyKey(D, a, b, replace, t)
<1>1. /\ cleared \in Tables
      /\ \A k \in Keys : Good(cleared[k])
      /\ a # b => cleared[a] = D[a]
      /\ \A k \in Keys : cleared[k] \in {D[k], Absent}
  BY GoodAbsent, AbsentType, Zenon DEF copyCleared, deleteKeyFromAllTables, Tables
<1>2. CASE ~copies(D, a, b, replace, t)
  <2>1. E = D
    BY <1>2 DEF copyKey
  <2> QED BY <2>1
<1>3. CASE copies(D, a, b, replace, t) /\ rows = {}
  <2>1. getKeyType(D[a], t) = "string"
    BY <1>3 DEF copies, exists, getKeyType, Good, NoMeta
  <2>2. E = cleared
    BY <1>3, <2>1 DEF copyKey
  <2> HIDE DEF cleared
  <2> QED BY <1>1, <2>2
<1>4. CASE copies(D, a, b, replace, t) /\ rows # {}
  <2>1. getKeyType(D[a], t) = "string"
    BY <1>4 DEF copies, exists, getKeyType, Good, NoMeta
  <2>2. Table(cleared[b], "string") = {}
    BY <1>4, <2>1 DEF copyBreaks
  <2>3. cleared[b].rows = {}
    BY <1>1, <2>2 DEF Good, TablesAgree, Table
  <2>4. E = [cleared EXCEPT ![b] = copy]
    BY <1>4, <2>1 DEF copyKey
  <2>5. (CHOOSE r \in rows : TRUE) \in rows
    BY <1>4
  <2>6. \A r \in rows : r.t = "string" /\ r.exp = cleared[a].meta.exp
    BY <1>1 DEF Table, Good, TablesAgree
  <2>7. copy.meta.type = "string" /\ copy.meta.exp = exp /\ copy.rows = rows /\ copy.meta # NoMeta
    BY <2>3 DEF NoMeta
  <2>8. \A r \in rows : r.exp = exp
    BY <2>5, <2>6
  <2> HIDE DEF cleared, rows, exp, copy, E
  <2>9. Good(copy)
    BY <1>4, <2>6, <2>7, <2>8 DEF Good, TablesAgree
  <2>10. \A k \in Keys : E[k] = IF k = b THEN copy ELSE cleared[k]
    BY <1>1, <2>4 DEF Tables
  <2> QED BY <1>1, <2>9, <2>10 DEF E
<1> QED BY <1>2, <1>3, <1>4

\* The writers of whole values keep kv_meta and the data tables in agreement.
LEMMA GoodEffect ==
    ASSUME NEW op \in Op, op.cmd \in WholeValue, NEW pre, NEW D \in Tables, \A k \in Keys : Good(D[k]),
           NEW locked, NEW t, NEW g \in Nat, ~Breaks(op, D, t)
    PROVE  \A k \in Keys : Good(Effect(op, pre, D, locked, t, g)[k])
<1> DEFINE E == Effect(op, pre, D, locked, t, g)
           S == D[op.k]
<1>1. /\ op.k \in Keys /\ op.d \in Keys /\ op.v \in Int /\ op.ttl \in Nat
      /\ S \in KeyState /\ Good(S)
  BY Zenon DEF Op, Tables
<1>2. CASE op.cmd = "MSET"
  <2>1. E = mSet(D, op.k, op.d, op.v)
    BY <1>2 DEF Effect
  <2>2. \A k \in Keys : Good(set(D[k], op.v, NoTTL))
    BY <1>1, GoodOps DEF Tables, NoTTL
  <2> QED BY <2>1, <2>2 DEF mSet
<1>3. CASE op.cmd = "RENAME"
  <2>1. E = rename(D, op.k, op.d, t)
    BY <1>3 DEF Effect
  <2> QED BY <1>1, <2>1, GoodRename
<1>4. CASE op.cmd = "COPY"
  <2>1. E = copyKey(D, op.k, op.d, op.opt = "REPLACE", t)
    BY <1>4 DEF Effect
  <2>2. ~copyBreaks(D, op.k, op.d, op.opt = "REPLACE", t)
    BY <1>4 DEF Breaks
  <2> QED BY <1>1, <2>1, <2>2, GoodCopy
<1>5. CASE op.cmd \notin {"MSET", "RENAME", "COPY"}
  <2> DEFINE N == KeyEffect(op, pre, S, locked[op.k], t, g)
  <2>1. E = [D EXCEPT ![op.k] = N]
    BY <1>5, Zenon DEF Effect, WholeValue
  <2>2. Deadline(op, g) \in Nat /\ g + op.ttl \in Nat /\ NoTTL \in Nat
    BY <1>1 DEF Deadline, NoTTL
  <2> HIDE DEF S
  <2>3. CASE op.cmd = "SET"
    <3>1. N = set(S, op.v, Deadline(op, g))
      BY <2>3 DEF KeyEffect, Stores
    <3>2. Good(N)
      BY <1>1, <2>2, <3>1, GoodOps, Zenon
    <3> HIDE DEF N
    <3> QED BY <1>1, <2>1, <3>2 DEF Tables
  <2>4. CASE op.cmd = "SETNX"
    <3>1. N = setNX(S, op.v, Deadline(op, g), t)
      BY <2>4 DEF KeyEffect, Stores
    <3>2. Good(N)
      BY <1>1, <2>2, <3>1, GoodOps, Zenon
    <3> HIDE DEF N
    <3> QED BY <1>1, <2>1, <3>2 DEF Tables
  <2>5. CASE op.cmd = "GETEX"
    <3>1. N \in {S, getEx(S, NoTTL, t), getEx(S, Deadline(op, g), t)}
      BY <2>5 DEF KeyEffect, Stores
    <3>2. Good(N)
      BY <1>1, <2>2, <3>1, GoodOps, Zenon
    <3> HIDE DEF N
    <3> QED BY <1>1, <2>1, <3>2 DEF Tables
  <2>6. CASE op.cmd = "GETDEL"
    <3>1. N = getDel(S, t)
      BY <2>6 DEF KeyEffect, Stores
    <3>2. Good(N)
      BY <1>1, <2>2, <3>1, GoodOps, Zenon
    <3> HIDE DEF N
    <3> QED BY <1>1, <2>1, <3>2 DEF Tables
  <2>7. CASE op.cmd = "DEL"
    <3>1. N = Absent
      BY <2>7 DEF KeyEffect, Stores, deleteKeyFromAllTables
    <3>2. Good(N)
      BY <3>1, GoodAbsent
    <3> HIDE DEF N
    <3> QED BY <1>1, <2>1, <3>2 DEF Tables
  <2>8. CASE op.cmd \in {"EXPIRE", "EXPIREAT"}
    <3>1. N \in {expire(S, g + op.ttl, op.opt, t), expire(S, op.ttl, op.opt, t)}
      BY <2>8, Zenon DEF KeyEffect, Stores, expireAt
    <3>2. Good(N)
      BY <1>1, <2>2, <3>1, GoodOps, Zenon
    <3> HIDE DEF N
    <3> QED BY <1>1, <2>1, <3>2 DEF Tables
  <2>9. CASE op.cmd = "PERSIST"
    <3>1. N = persist(S, t)
      BY <2>9 DEF KeyEffect, Stores
    <3>2. Good(N)
      BY <1>1, <2>2, <3>1, GoodOps
    <3> HIDE DEF N
    <3> QED BY <1>1, <2>1, <3>2 DEF Tables
  <2> QED BY <1>5, <2>3, <2>4, <2>5, <2>6, <2>7, <2>8, <2>9 DEF WholeValue
<1> QED BY <1>2, <1>3, <1>4, <1>5

\* SETNX changes its key only, and only when it does not exist.
LEMMA LeaseEffect ==
    ASSUME NEW op \in Op, op.cmd = "SETNX", NEW pre, NEW D \in Tables, NEW locked, NEW t, NEW g,
           NEW k \in Keys, Effect(op, pre, D, locked, t, g)[k] # D[k]
    PROVE  getKeyType(D[k], t) = "none"
<1>1. Effect(op, pre, D, locked, t, g) = [D EXCEPT ![op.k] = setNX(D[op.k], op.v, Deadline(op, g), t)]
  BY DEF Effect, KeyEffect, Stores
<1>2. op.k \in Keys
  BY Zenon DEF Op
<1>3. k = op.k /\ setNX(D[k], op.v, Deadline(op, g), t) # D[k]
  BY <1>1, <1>2 DEF Tables
<1> QED BY <1>3 DEF setNX, exists

\* deleteExpiredKeys leaves a key alone that is alive and that the tables agree on.
LEMMA SweepSpares ==
    ASSUME NEW S \in KeyState, TablesAgree(S), NEW t \in Nat, NEW u \in Nat, t <= u, exists(S, u)
    PROVE  SweepKey(S, t) = S
<1>1. S.meta \in Meta /\ S.rows \subseteq Row /\ S = [meta |-> S.meta, rows |-> S.rows]
  BY DEF KeyState
<1>2. S.meta # NoMeta /\ ~Expired(S.meta.exp, t)
  BY <1>1 DEF exists, getKeyType, Unexpired, Expired, Meta, NoMeta, NoTTL
<1>3. S.rows # {} /\ \A r \in S.rows : r.t = S.meta.type /\ ~Expired(r.exp, t)
  BY <1>2 DEF TablesAgree
<1>4. {r.t : r \in {q \in S.rows : Expired(q.exp, t)}} = {}
  BY <1>3
<1>5. ~Orphan(S)
  BY <1>3 DEF Orphan, Table
<1>6. {r \in S.rows : r.t \notin {}} = S.rows
  OBVIOUS
<1> QED BY <1>1, <1>2, <1>4, <1>5, <1>6, Zenon DEF SweepKey

\* And it leaves a string whole or removes it whole.
LEMMA GoodSweep ==
    ASSUME NEW S \in KeyState, Good(S), NEW t \in Nat
    PROVE  Good(SweepKey(S, t))
<1>1. S.meta \in Meta /\ S.rows \subseteq Row /\ S = [meta |-> S.meta, rows |-> S.rows]
  BY DEF KeyState
<1> DEFINE gone == S.meta # NoMeta /\ Expired(S.meta.exp, t)
           dead == IF gone THEN KeyTypes ELSE {r.t : r \in {q \in S.rows : Expired(q.exp, t)}}
           left == [meta |-> IF gone THEN NoMeta ELSE S.meta, rows |-> {r \in S.rows : r.t \notin dead}]
<1>2. SweepKey(S, t) = IF Orphan(left) THEN [left EXCEPT !.meta = NoMeta] ELSE left
  BY DEF SweepKey
<1>3. CASE gone
  <2>1. {r \in S.rows : r.t \notin dead} = {}
    BY <1>1, <1>3 DEF Row
  <2>2. left = Absent
    BY <1>3, <2>1, Zenon DEF Absent
  <2>3. [left EXCEPT !.meta = NoMeta] = Absent
    BY <2>2 DEF Absent
  <2> HIDE DEF left
  <2> QED BY <1>2, <2>2, <2>3, GoodAbsent
<1>4. CASE ~gone
  <2>1. \A r \in S.rows : ~Expired(r.exp, t)
    BY <1>4 DEF Good, TablesAgree
  <2>2. {r \in S.rows : r.t \notin dead} = S.rows
    BY <1>4, <2>1
  <2>3. left = S
    BY <1>1, <1>4, <2>2
  <2>4. ~Orphan(S)
    BY <1>1 DEF Orphan, Table, Good, TablesAgree, dataTableForType, NoMeta, KeyTypes
  <2> HIDE DEF left
  <2> QED BY <1>2, <2>3, <2>4
<1> QED BY <1>3, <1>4

-----------------------------------------------------------------------------
(* The inductive invariant.                                                 *)

Whole(p) == \A op \in Ops(p) : op.cmd \in WholeValue
Leases(p) == \A op \in Ops(p) : op.cmd = "SETNX"
OnlyWhole(L) == \A n \in DOMAIN L : Whole(L[n])

\* A transaction began in the past (NOW() is not ahead of the clock) and has
\* changed kv_meta only where it holds the lock.
MetaCovered(T, n) ==
    /\ T.t <= n
    /\ \A k \in Keys : T.old[k].meta # T.new[k].meta => k \in T.held

\* What SETNX has staged is for keys that are still free.
LeasesFree(T, D) ==
    Leases(T.prog) => \A k \in Keys : T.old[k] # T.new[k] => ~exists(D[k], T.t)

\* What writers of whole values have staged is what the tables will hold.
WholeStaged(T, D) ==
    Whole(T.prog) => \A k \in Keys : T.old[k] # T.new[k] => D[k] = T.old[k] /\ Good(T.new[k])

Staged(T, D, n, pure) ==
    MetaCovered(T, n) /\ LeasesFree(T, D) /\ (pure => WholeStaged(T, D))

TInv ==
    /\ IInv
    /\ sweep.t <= now
    /\ OnlyWhole(log) => \A k \in Keys : Good(db[k])
    /\ \A c \in Clients : Staged(tx[c], db, now, OnlyWhole(log))

\* These programs lock every key they write.
LEMMA WholeGuarded == \A p \in Program : Whole(p) \/ Leases(p) => Guarded(p)
<1> SUFFICES ASSUME NEW p \in Program, Whole(p) \/ Leases(p), NEW i \in DOMAIN p.ops
             PROVE  commandKeys(p.ops[i]) \subseteq keyLocks(p.ops[i])
  BY DEF Guarded
<1>1. p.ops[i].cmd \in WholeValue
  BY DEF Whole, Leases, Ops, WholeValue
<1> QED BY <1>1 DEF commandKeys, keyLocks, WholeValue, TwoKeys, PopsOfTwo, Stores, Unlocked

\* Nothing is staged at the start of a transaction.
LEMMA NothingStaged ==
    ASSUME NEW T, NEW D, NEW n, NEW pure, T.old = T.new, T.t <= n
    PROVE  Staged(T, D, n, pure)
  BY DEF Staged, MetaCovered, LeasesFree, WholeStaged

\* Steps that stage nothing new.
LEMMA StagedKept ==
    ASSUME NEW T, NEW U, NEW D, NEW n, NEW pure, Staged(T, D, n, pure),
           U.old = T.old, U.new = T.new, U.prog = T.prog, U.t = T.t, T.held \subseteq U.held
    PROVE  Staged(U, D, n, pure)
<1>1. MetaCovered(T, n) => MetaCovered(U, n)
  BY DEF MetaCovered
<1>2. LeasesFree(T, D) => LeasesFree(U, D)
  BY DEF LeasesFree, exists
<1>3. WholeStaged(T, D) => WholeStaged(U, D)
  BY DEF WholeStaged
<1> QED BY <1>1, <1>2, <1>3 DEF Staged

\* The next operation, and an error reply.
LEMMA StagedOn ==
    ASSUME NEW T \in Transaction, NEW D, NEW n \in Nat, NEW pure, Staged(T, D, n, pure)
    PROVE  Staged(Next1(T), D, n, pure) /\ Staged(OnError(T), D, n, pure)
<1>1. Staged(Next1(T), D, n, pure)
  <2>1. /\ Next1(T).old = T.old /\ Next1(T).new = T.new /\ Next1(T).prog = T.prog
        /\ Next1(T).t = T.t /\ Next1(T).held = T.held
    BY DEF Next1, Transaction
  <2> QED BY <2>1, StagedKept
<1>2. Staged(Idle, D, n, pure)
  <2>1. Idle.old = Idle.new /\ Idle.t <= n
    BY DEF Idle
  <2> QED BY <2>1, NothingStaged
<1> DEFINE E == [T EXCEPT !.pc = "commit", !.pre = Absent]
<1>3. Staged(E, D, n, pure)
  <2>1. E.old = T.old /\ E.new = T.new /\ E.prog = T.prog /\ E.t = T.t /\ E.held = T.held
    BY DEF Transaction
  <2> HIDE DEF E
  <2> QED BY <2>1, StagedKept
<1>4. T.prog.kind \in {"direct", "exec", "script"}
  BY DEF Transaction, Program
<1>5. OnError(T) \in {Idle, Next1(T), E}
  BY <1>4 DEF OnError
<1> HIDE DEF E
<1> QED BY <1>1, <1>2, <1>3, <1>5

\* A client's step that commits nothing.
LEMMA ClientTInv ==
    ASSUME TInv, IInv', NEW c \in Clients, NEW T, tx' = [tx EXCEPT ![c] = T],
           Staged(T, db, now, OnlyWhole(log)), UNCHANGED <<db, now, sweep, log>>
    PROVE  TInv'
<1>1. tx \in [Clients -> Transaction]
  BY DEF TInv, IInv, TypeOK
<1>2. \A d \in Clients : tx'[d] = IF d = c THEN T ELSE tx[d]
  BY <1>1
<1>3. \A d \in Clients : Staged(tx'[d], db, now, OnlyWhole(log))
  BY <1>2 DEF TInv
<1> QED BY <1>3 DEF TInv

\* The clock only moves on.
LEMMA StagedLater ==
    ASSUME NEW T \in Transaction, NEW D, NEW n \in Nat, NEW pure, Staged(T, D, n, pure)
    PROVE  Staged(T, D, n + 1, pure)
<1>1. T.t \in Nat
  BY DEF Transaction
<1>2. MetaCovered(T, n) => MetaCovered(T, n + 1)
  BY <1>1 DEF MetaCovered
<1> QED BY <1>2 DEF Staged

-----------------------------------------------------------------------------
(* One lemma per step.                                                      *)

\* A transaction that ends without a commit, or begins.
LEMMA FreshTInv ==
    ASSUME TInv, IInv', NEW c \in Clients, UNCHANGED <<db, now, sweep, log>>,
           \/ Become(c, Idle)
           \/ \E p \in Programs : \E n \in 0..MaxRetries : Become(c, Start(p, n))
    PROVE  TInv'
<1>1. now \in Nat
  BY DEF TInv, IInv, TypeOK
<1>2. Idle.old = Idle.new /\ Idle.t <= now
  BY <1>1 DEF Idle
<1>3. \A p, n : Start(p, n).old = Start(p, n).new /\ Start(p, n).t <= now
  <2>1. Idle \in Transaction
    BY IdleOK
  <2>2. \A p, n : Start(p, n).old = Idle.old /\ Start(p, n).new = Idle.new /\ Start(p, n).t = now
    BY <2>1, Zenon DEF Start, Transaction
  <2> QED BY <1>1, <1>2, <2>2
<1>4. Staged(Idle, db, now, OnlyWhole(log))
  BY <1>2, NothingStaged
<1>5. \A p, n : Staged(Start(p, n), db, now, OnlyWhole(log))
  BY <1>3, NothingStaged
<1> QED BY <1>4, <1>5, ClientTInv DEF Become

\* Lock: the transaction holds more.
LEMMA LockTInv == ASSUME TInv, IInv', NEW c \in Clients, Lock(c) PROVE TInv'
<1>1. PICK k \in NextLock(c) :
         LET rest == tx[c].want \ {k}
             next == IF tx[c].pc = "declare" THEN "read" ELSE "write"
         IN  Become(c, [tx[c] EXCEPT !.held = @ \cup {k}, !.want = rest,
                                     !.pc = IF rest = {} THEN next ELSE @])
  BY Zenon DEF Lock
<1> DEFINE S    == tx[c]
           rest == S.want \ {k}
           pc   == IF rest = {} THEN (IF S.pc = "declare" THEN "read" ELSE "write") ELSE S.pc
           T    == [S EXCEPT !.held = S.held \cup {k}, !.want = rest, !.pc = pc]
<1>2. S \in Transaction /\ Staged(S, db, now, OnlyWhole(log))
  BY DEF TInv, IInv, TypeOK
<1>3. tx' = [tx EXCEPT ![c] = T]
  BY <1>1, <1>2 DEF Become, Transaction
<1>4. /\ T.old = S.old /\ T.new = S.new /\ T.prog = S.prog /\ T.t = S.t
      /\ S.held \subseteq T.held
  BY <1>2 DEF Transaction
<1> HIDE DEF S, T
<1>5. Staged(T, db, now, OnlyWhole(log))
  BY <1>2, <1>4, StagedKept
<1>6. UNCHANGED <<db, now, sweep, log>>
  BY DEF Lock
<1> QED BY <1>3, <1>5, <1>6, ClientTInv, Zenon

\* Read: nothing is staged.
LEMMA ReadTInv == ASSUME TInv, IInv', NEW c \in Clients, Read(c) PROVE TInv'
<1> DEFINE S == tx[c]
<1>1. S \in Transaction /\ Staged(S, db, now, OnlyWhole(log)) /\ now \in Nat
  BY DEF TInv, IInv, TypeOK
<1>2. UNCHANGED <<db, now, sweep, log>>
  BY DEF Read
<1>3. \/ Become(c, OnError(S)) \/ Become(c, Next1(S))
      \/ \E pre, want, pc : Become(c, [S EXCEPT !.pre = pre, !.want = want, !.pc = pc])
  BY Zenon DEF Read
<1> HIDE DEF S
<1>4. Staged(Next1(S), db, now, OnlyWhole(log)) /\ Staged(OnError(S), db, now, OnlyWhole(log))
  BY <1>1, StagedOn
<1>5. CASE Become(c, OnError(S)) \/ Become(c, Next1(S))
  BY <1>2, <1>4, <1>5, ClientTInv DEF Become
<1>6. CASE \E pre, want, pc : Become(c, [S EXCEPT !.pre = pre, !.want = want, !.pc = pc])
  <2>1. PICK pre, want, pc : Become(c, [S EXCEPT !.pre = pre, !.want = want, !.pc = pc])
    BY <1>6, Zenon
  <2> DEFINE T == [S EXCEPT !.pre = pre, !.want = want, !.pc = pc]
  <2>2. T.old = S.old /\ T.new = S.new /\ T.prog = S.prog /\ T.t = S.t /\ T.held = S.held
    BY <1>1 DEF Transaction
  <2>3. tx' = [tx EXCEPT ![c] = T]
    BY <2>1 DEF Become
  <2> HIDE DEF T
  <2>4. Staged(T, db, now, OnlyWhole(log))
    BY <1>1, <2>2, StagedKept
  <2> QED BY <1>2, <2>3, <2>4, ClientTInv, Zenon
<1> QED BY <1>3, <1>5, <1>6, Zenon

\* What the tables look like to a transaction of whole-value writers: agreed on.
LEMMA GoodView ==
    ASSUME TInv, NEW c \in Clients, OnlyWhole(log), Whole(tx[c].prog)
    PROVE  \A k \in Keys : Good(View(c)[k])
<1> SUFFICES ASSUME NEW k \in Keys PROVE Good(View(c)[k])
  OBVIOUS
<1>1. /\ db[k] \in KeyState /\ tx[c].old[k] \in KeyState /\ tx[c].new[k] \in KeyState
      /\ WholeStaged(tx[c], db) /\ Good(db[k]) /\ TypeOK
  BY DEF TInv, IInv, TypeOK, Transaction, Staged
<1>2. CASE tx[c].old[k] = tx[c].new[k]
  BY <1>1, <1>2, ViewType
<1>3. CASE tx[c].old[k] # tx[c].new[k]
  <2>1. db[k] = tx[c].old[k] /\ Good(tx[c].new[k])
    BY <1>1, <1>3 DEF WholeStaged
  <2>2. View(c)[k] = Merge(tx[c].old[k], tx[c].old[k], tx[c].new[k])
    BY <2>1 DEF View
  <2> QED BY <1>1, <2>1, <2>2, MergeOwn
<1> QED BY <1>2, <1>3

\* The kv_meta rows a transaction would commit differ from the committed ones
\* only where it holds the lock.
LEMMA MetaView ==
    ASSUME TInv, NEW c \in Clients, NEW k \in Keys, View(c)[k].meta # db[k].meta
    PROVE  k \in tx[c].held
<1>1. View(c)[k] = Merge(db[k], tx[c].old[k], tx[c].new[k])
  BY DEF View
<1>2. tx[c].old[k].meta # tx[c].new[k].meta
  BY <1>1, MergeMeta
<1> QED BY <1>2 DEF TInv, Staged, MetaCovered

\* Write: what is staged is under the locks of the operation.
LEMMA WriteTInv == ASSUME TInv, IInv', NEW c \in Clients, Write(c) PROVE TInv'
<1> DEFINE T    == tx[c]
           op   == CurrentOp(c)
           V    == View(c)
           N    == After(c)
           W    == {k \in Keys : N[k] # V[k]}
           old  == [k \in Keys |-> IF k \in W THEN db[k] ELSE T.old[k]]
           new  == [k \in Keys |-> IF k \in W THEN N[k] ELSE T.new[k]]
           in   == T.pushed \cup ({T.i} \X Pushed(op, V))
           out  == T.popped \cup ({T.i} \X
                     {Item(r) : r \in Popped(op, T.pre, V, LockedByOthers(c), T.t)})
           done == [T EXCEPT !.old = old, !.new = new, !.pushed = in, !.popped = out]
           L    == LockedByOthers(c)
<1>1. /\ T \in Transaction /\ Covered(T) /\ T.pc = "write" /\ Staged(T, db, now, OnlyWhole(log))
      /\ TypeOK /\ now \in Nat /\ db \in Tables
  BY DEF TInv, IInv, TypeOK, LocksCoverWrites, Write, Tables
<1>2. op \in Op /\ op \in Ops(T.prog) /\ keyLocks(op) \subseteq T.held
  <2>1. T.i \in DOMAIN T.prog.ops /\ keyLocks(T.prog.ops[T.i]) \subseteq T.held
    BY <1>1 DEF Covered
  <2> QED BY <1>1, <2>1, CurrentOpType DEF CurrentOp, Ops
<1>3. UNCHANGED <<db, now, sweep, log>>
  BY DEF Write
<1>4. V \in Tables /\ T.pre \in KeyState /\ T.old \in Tables /\ T.new \in Tables
  BY <1>1, ViewType DEF Transaction, Tables
<1>5. N = Effect(op, T.pre, V, L, T.t, now)
  BY DEF After
<1>6. \/ Become(c, Idle)
      \/ ~Breaks(op, V, T.t) /\ (Become(c, OnError(done)) \/ Become(c, Next1(done)))
  <2>1. done = [T EXCEPT
                  !.old = [k \in Keys |-> IF k \in W THEN db[k] ELSE @[k]],
                  !.new = [k \in Keys |-> IF k \in W THEN N[k] ELSE @[k]],
                  !.pushed = @ \cup ({T.i} \X Pushed(op, V)),
                  !.popped = @ \cup ({T.i} \X
                      {Item(r) : r \in Popped(op, T.pre, V, LockedByOthers(c), T.t)})]
    BY <1>1 DEF Transaction
  <2> QED BY <2>1 DEF Write
<1>7. \A k \in Keys : V[k].meta # db[k].meta => k \in T.held
  BY MetaView
<1>8. \A k \in Keys : T.old[k] = T.new[k] => V[k] = db[k]
  BY <1>1, ViewType
<1>9. OnlyWhole(log) /\ Whole(T.prog) => \A k \in Keys : Good(V[k])
  BY GoodView
<1>10. in \in SUBSET (Nat \X Int) /\ out \in SUBSET (Nat \X Int)
  <2>1. /\ {Item(r) : r \in Popped(op, T.pre, V, LockedByOthers(c), T.t)} \subseteq Int
        /\ Pushed(op, V) \subseteq Int
    BY <1>2, <1>4, ItemsType, Zenon
  <2>2. T.i \in Nat /\ T.pushed \in SUBSET (Nat \X Int) /\ T.popped \in SUBSET (Nat \X Int)
    BY <1>1 DEF Transaction
  <2> QED BY <2>1, <2>2
<1> HIDE DEF T, op, V, N, in, out, L
<1>11. N \in Tables
  BY <1>1, <1>2, <1>4, <1>5, EffectType, SMTT(30)
<1>12. old \in [Keys -> KeyState] /\ new \in [Keys -> KeyState]
  BY <1>1, <1>4, <1>11 DEF Tables
<1> HIDE DEF W
<1>13. done \in Transaction
  BY <1>1, <1>10, <1>12, Zenon DEF Transaction
<1>14. /\ done.old = old /\ done.new = new /\ done.prog = T.prog /\ done.t = T.t
       /\ done.held = T.held
  BY <1>1 DEF Transaction
<1>15. \A k \in Keys : done.old[k] # done.new[k] =>
          \/ k \in W /\ done.old[k] = db[k] /\ done.new[k] = N[k]
          \/ k \notin W /\ done.old[k] = T.old[k] /\ done.new[k] = T.new[k] /\ T.old[k] # T.new[k]
  BY <1>14
<1>16. \A k \in W : k \in Keys /\ N[k] # V[k]
  BY DEF W
<1> HIDE DEF done, old, new
<1>17. MetaCovered(done, now)
  <2>1. \A k \in Keys \ keyLocks(op) : N[k].meta = V[k].meta
    BY <1>1, <1>2, <1>4, <1>5, MetaNeedsLock, SMTT(30)
  <2>2. MetaCovered(T, now)
    BY <1>1 DEF Staged
  <2>3. ASSUME NEW k \in Keys, done.old[k].meta # done.new[k].meta PROVE k \in T.held
    <3>1. CASE k \in W /\ done.old[k] = db[k] /\ done.new[k] = N[k]
      BY <1>2, <1>7, <2>1, <2>3, <3>1
    <3>2. CASE done.old[k] = T.old[k] /\ done.new[k] = T.new[k]
      BY <2>2, <2>3, <3>2 DEF MetaCovered
    <3> QED BY <1>15, <2>3, <3>1, <3>2
  <2> QED BY <1>14, <2>2, <2>3 DEF MetaCovered
<1>18. LeasesFree(done, db)
  <2> SUFFICES ASSUME Leases(T.prog), NEW k \in Keys, done.old[k] # done.new[k]
               PROVE  ~exists(db[k], T.t)
    BY <1>14, Zenon DEF LeasesFree
  <2>1. T.old[k] # T.new[k] => ~exists(db[k], T.t)
    BY <1>1, Zenon DEF Staged, LeasesFree
  <2>2. ASSUME T.old[k] = T.new[k] PROVE ~exists(db[k], T.t)
    <3>1. k \in W /\ V[k] = db[k]
      BY <1>8, <1>15, <2>2
    <3>2. op.cmd = "SETNX"
      BY <1>2 DEF Leases
    <3>3. Effect(op, T.pre, V, L, T.t, now)[k] # V[k]
      BY <1>5, <1>16, <3>1
    <3>4. getKeyType(V[k], T.t) = "none"
      BY <1>2, <1>4, <3>2, <3>3, LeaseEffect
    <3> QED BY <3>1, <3>4 DEF exists
  <2> QED BY <2>1, <2>2, Zenon
<1>19. ASSUME OnlyWhole(log), ~Breaks(op, V, T.t) PROVE WholeStaged(done, db)
  <2> SUFFICES ASSUME Whole(T.prog), NEW k \in Keys, done.old[k] # done.new[k]
               PROVE  db[k] = done.old[k] /\ Good(done.new[k])
    BY <1>14 DEF WholeStaged
  <2>1. CASE done.old[k] = T.old[k] /\ done.new[k] = T.new[k] /\ T.old[k] # T.new[k]
    BY <1>1, <1>19, <2>1 DEF Staged, WholeStaged
  <2>2. CASE done.old[k] = db[k] /\ done.new[k] = N[k]
    <3>1. op.cmd \in WholeValue
      BY <1>2 DEF Whole
    <3>2. \A j \in Keys : Good(V[j])
      BY <1>9, <1>19
    <3>3. Good(N[k])
      BY <1>1, <1>2, <1>4, <1>5, <1>19, <3>1, <3>2, GoodEffect
    <3> QED BY <2>2, <3>3
  <2> QED BY <1>15, <2>1, <2>2
<1>20. CASE Become(c, Idle)
  BY <1>3, <1>20, FreshTInv
<1>21. CASE ~Breaks(op, V, T.t) /\ (Become(c, OnError(done)) \/ Become(c, Next1(done)))
  <2>1. Staged(done, db, now, OnlyWhole(log))
    BY <1>17, <1>18, <1>19, <1>21 DEF Staged
  <2>2. Staged(Next1(done), db, now, OnlyWhole(log)) /\ Staged(OnError(done), db, now, OnlyWhole(log))
    BY <1>1, <1>13, <2>1, StagedOn
  <2> QED BY <1>3, <1>21, <2>2, ClientTInv DEF Become
<1> QED BY <1>6, <1>20, <1>21

\* Commit: the others' staged changes are under their own locks, so what they
\* were staged against is still there.
LEMMA CommitTInv ==
    ASSUME TInv, IInv', NEW c \in Clients, tx[c].pc = "commit", db' = View(c),
           log' = Append(log, tx[c].prog), Become(c, Idle), UNCHANGED <<now, sweep>>
    PROVE  TInv'
<1>1. /\ tx \in [Clients -> Transaction] /\ TypeOK /\ LocksExclusive /\ LocksCoverWrites
      /\ now \in Nat /\ log \in Seq(Program)
      /\ \A d \in Clients : tx[d].prog \in Program /\ tx[d].t \in Nat
  BY Zenon DEF TInv, IInv, TypeOK, Transaction
<1>2. tx'[c] = Idle /\ \A d \in Clients \ {c} : tx'[d] = tx[d]
  BY <1>1 DEF Become
<1>3. OnlyWhole(log') => OnlyWhole(log) /\ Whole(tx[c].prog)
  <2>1. /\ \A n \in DOMAIN log : n \in DOMAIN log' /\ log'[n] = log[n]
        /\ Len(log) + 1 \in DOMAIN log' /\ log'[Len(log) + 1] = tx[c].prog
    BY <1>1
  <2> QED BY <2>1 DEF OnlyWhole
<1>4. OnlyWhole(log') => \A k \in Keys : Good(db'[k])
  BY <1>3, GoodView
<1>5. ASSUME NEW d \in Clients \ {c} PROVE Staged(tx[d], db', now, OnlyWhole(log'))
  <2> DEFINE T == tx[d]
  <2>1. Staged(T, db, now, OnlyWhole(log)) /\ T.prog \in Program /\ T.t \in Nat /\ Covered(T)
    BY <1>1 DEF TInv, LocksCoverWrites
  <2>2. T.held \cap tx[c].held = {}
    BY <1>1 DEF LocksExclusive
  <2>3. LeasesFree(T, db')
    <3> SUFFICES ASSUME Leases(T.prog), NEW k \in Keys, T.old[k] # T.new[k]
                 PROVE  getKeyType(db'[k], T.t) = "none"
      BY DEF LeasesFree, exists
    <3>1. k \in T.held
      BY <2>1, WholeGuarded DEF Covered
    <3>2. db'[k].meta = db[k].meta
      BY <2>2, <3>1, MetaView
    <3>3. getKeyType(db[k], T.t) = "none"
      BY <2>1 DEF Staged, LeasesFree, exists
    <3> QED BY <3>2, <3>3 DEF getKeyType
  <2>4. ASSUME OnlyWhole(log') PROVE WholeStaged(T, db')
    <3> SUFFICES ASSUME Whole(T.prog), NEW k \in Keys, T.old[k] # T.new[k]
                 PROVE  db'[k] = T.old[k] /\ Good(T.new[k])
      BY DEF WholeStaged
    <3>1. db[k] = T.old[k] /\ Good(T.new[k])
      BY <1>3, <2>1, <2>4 DEF Staged, WholeStaged
    <3>2. k \in T.held
      BY <2>1, WholeGuarded, Zenon DEF Covered
    <3>3. tx[c].old[k] = tx[c].new[k]
      BY <1>1, <1>3, <2>2, <2>4, <3>2, WholeGuarded, Zenon DEF Covered, LocksCoverWrites
    <3>4. db'[k] = db[k]
      BY <1>1, <3>3, ViewType
    <3> QED BY <3>1, <3>4
  <2> QED BY <2>1, <2>3, <2>4 DEF Staged
<1>6. Staged(Idle, db', now, OnlyWhole(log'))
  <2>1. Idle.old = Idle.new /\ Idle.t <= now
    BY <1>1 DEF Idle
  <2> QED BY <2>1, NothingStaged
<1>7. \A d \in Clients : Staged(tx'[d], db', now', OnlyWhole(log'))
  BY <1>2, <1>5, <1>6
<1> QED BY <1>4, <1>7 DEF TInv

\* SweepDelete: it has the locks of what it deletes.
LEMMA SweepDeleteTInv == ASSUME TInv, IInv', SweepDelete PROVE TInv'
<1>1. /\ \A k \in Keys : db[k] \in KeyState
      /\ sweep.t \in Nat /\ sweep.t <= now /\ now \in Nat /\ LocksExclusive /\ LocksCoverWrites
      /\ \A d \in Clients : tx[d].prog \in Program /\ tx[d].t \in Nat
  BY Zenon DEF TInv, IInv, TypeOK, Transaction, Cleanup
<1>2. /\ tx' = tx /\ now' = now /\ log' = log /\ sweep' = Resting
      /\ \A k \in Keys : db'[k] = IF k \in sweep.held THEN SweepKey(db[k], sweep.t) ELSE db[k]
  BY DEF SweepDelete, SweepResult
<1>3. OnlyWhole(log) => \A k \in Keys : Good(db'[k])
  BY <1>1, <1>2, GoodSweep DEF TInv
<1>4. ASSUME NEW d \in Clients PROVE Staged(tx[d], db', now, OnlyWhole(log))
  <2> DEFINE T == tx[d]
  <2>1. Staged(T, db, now, OnlyWhole(log)) /\ T.prog \in Program /\ Covered(T)
    BY <1>1 DEF TInv, LocksCoverWrites
  <2>2. \A k \in T.held \cap Keys : db'[k] = db[k]
    BY <1>1, <1>2 DEF LocksExclusive
  <2>3. Leases(T.prog) \/ Whole(T.prog) =>
            \A k \in Keys : T.old[k] # T.new[k] => db'[k] = db[k]
    BY <2>1, <2>2, WholeGuarded, Zenon DEF Covered
  <2>4. LeasesFree(T, db) => LeasesFree(T, db')
    BY <2>3 DEF LeasesFree, exists
  <2>5. WholeStaged(T, db) => WholeStaged(T, db')
    BY <2>3 DEF WholeStaged
  <2> QED BY <2>1, <2>4, <2>5 DEF Staged
<1>5. sweep'.t <= now
  BY <1>1, <1>2 DEF Resting
<1> QED BY <1>2, <1>3, <1>4, <1>5 DEF TInv

\* Init establishes the invariant.
LEMMA InitTInv == Init => TInv
<1> SUFFICES ASSUME Init PROVE TInv
  OBVIOUS
<1>1. IInv
  BY InitIInv
<1>2. \A k \in Keys : Good(db[k])
  BY GoodAbsent DEF Init
<1>3. sweep.t <= now /\ Idle.old = Idle.new /\ Idle.t <= now
  BY DEF Init, Resting, Idle
<1>4. \A c \in Clients : tx[c] = Idle
  BY DEF Init
<1>5. Staged(Idle, db, now, OnlyWhole(log))
  BY <1>3, NothingStaged
<1> QED BY <1>1, <1>2, <1>3, <1>4, <1>5 DEF TInv

\* Every step keeps it.
LEMMA NextTInv == TInv /\ [Next]_vars => TInv'
<1> SUFFICES ASSUME TInv, [Next]_vars PROVE TInv'
  OBVIOUS
<1>1. IInv'
  BY NextIInv DEF TInv
<1>2. now \in Nat /\ sweep.t \in Nat /\ sweep.t <= now /\ \A c \in Clients : tx[c] \in Transaction
  BY DEF TInv, IInv, TypeOK, Cleanup
<1>3. ASSUME NEW c \in Clients, NEW p \in Programs, Begin(c, p) PROVE TInv'
  <2>1. 0 \in 0..MaxRetries
    BY BoundsAssumption
  <2> QED BY <1>1, <1>3, <2>1, FreshTInv DEF Begin
<1>4. ASSUME NEW c \in Clients, Commit(c) \/ CommitLost(c) PROVE TInv'
  BY <1>1, <1>4, CommitTInv DEF Commit, CommitLost
<1>5. ASSUME NEW c \in Clients, Abort(c) PROVE TInv'
  BY <1>1, <1>5, FreshTInv DEF Abort
<1>6. ASSUME NEW c \in Clients, DeadlockVictim(c) PROVE TInv'
  <2>1. UNCHANGED <<db, now, sweep, log>>
    BY <1>6 DEF DeadlockVictim
  <2>2. CASE Become(c, Idle)
    BY <1>1, <2>1, <2>2, FreshTInv
  <2>3. CASE tx[c].tries < MaxRetries /\ Become(c, Start(tx[c].prog, tx[c].tries + 1))
    <3>1. tx[c].tries + 1 \in 0..MaxRetries
      BY <1>2, <2>3, BoundsAssumption DEF Transaction
    <3>2. tx[c].pc # "idle"
      <4>1. c # Sweeper /\ c \in Processes
        BY SweeperAssumption DEF Processes
      <4>2. WaitsFor(c) # {}
        BY <1>6, <4>1 DEF DeadlockVictim, InDeadlock
      <4> QED BY <4>1, <4>2 DEF WaitsFor
    <3>3. tx[c].prog \in Programs
      BY <3>2 DEF TInv, IInv, LocksCoverWrites, Covered
    <3> QED BY <1>1, <2>1, <2>3, <3>1, <3>3, FreshTInv
  <2> QED BY <1>6, <2>2, <2>3 DEF DeadlockVictim
<1>7. ASSUME SweepScan \/ SweepLock \/ SweepAbort PROVE TInv'
  <2>1. UNCHANGED <<db, now, tx, log>>
    BY <1>7 DEF SweepScan, SweepLock, SweepAbort
  <2>2. sweep'.t \in {0, now, sweep.t}
    <3>1. sweep \in Cleanup
      BY DEF TInv, IInv, TypeOK
    <3>2. Resting.t = 0 /\ \A cand : [Resting EXCEPT !.pc = "lock", !.cand = cand, !.t = now].t = now
      BY DEF Resting
    <3>3. \A free : [sweep EXCEPT !.pc = "delete", !.cand = {}, !.held = free].t = sweep.t
      BY <3>1 DEF Cleanup
    <3>4. CASE SweepScan
      BY <3>2, <3>4 DEF SweepScan
    <3>5. CASE SweepLock
      BY <3>2, <3>3, <3>5 DEF SweepLock
    <3>6. CASE SweepAbort
      BY <3>2, <3>6 DEF SweepAbort
    <3> QED BY <1>7, <3>4, <3>5, <3>6
  <2>3. sweep'.t <= now
    BY <1>2, <2>2
  <2> QED BY <1>1, <2>1, <2>3 DEF TInv
<1>8. ASSUME Tick PROVE TInv'
  <2>1. now' = now + 1 /\ UNCHANGED <<db, tx, sweep, log>>
    BY <1>8 DEF Tick
  <2>2. sweep.t <= now + 1
    BY <1>2
  <2>3. \A c \in Clients : Staged(tx[c], db, now + 1, OnlyWhole(log))
    BY <1>2, StagedLater DEF TInv
  <2> QED BY <1>1, <2>1, <2>2, <2>3 DEF TInv
<1>9. ASSUME UNCHANGED vars PROVE TInv'
  BY <1>1, <1>9 DEF TInv, vars
<1>10. ASSUME NEW c \in Clients, TxStep(c) PROVE TInv'
  BY <1>1, <1>4, <1>5, <1>6, <1>10, LockTInv, ReadTInv, WriteTInv DEF TxStep
<1> QED
  BY <1>1, <1>3, <1>7, <1>8, <1>9, <1>10, SweepDeleteTInv DEF Next, ClientStep, SweepStep, Quiet

\* The invariant above: kv_meta changes under the key's lock only, NOW() is
\* never ahead of the clock, and what is staged still fits what is committed.
THEOREM TablesInvariance == Spec => []TInv
<1>1. TInv /\ [Next]_vars => TInv'
  BY NextTInv
<1> QED BY <1>1, InitTInv, PTL DEF Spec

\* As long as only SET, SETNX, GETEX, GETDEL, EXPIRE, EXPIREAT, PERSIST, RENAME,
\* DEL, MSET and COPY have committed, in direct commands, MULTI/EXEC blocks or
\* scripts, kv_meta and the data tables agree on every key in every committed
\* state, whatever the sweeper, aborts and deadlock retries did in between.
THEOREM WholeValuesAgree == Spec => []MetaMatchesData
<1>1. TInv => MetaMatchesData
  BY DEF TInv, MetaMatchesData, OnlyWhole, Whole, Good
<1> QED BY <1>1, TablesInvariance, PTL

\* A commit of SETNX never takes a key that is alive at the commit.
THEOREM LeasesAreExclusive == Spec => LeaseExclusive
<1> DEFINE Taken(c) == (tx[c].pc = "commit" /\ tx'[c].pc = "idle" /\ db' # db
                          /\ \A op \in Ops(tx[c].prog) : op.cmd = "SETNX")
                       => \A k \in Keys : exists(db[k], now) => db'[k] = db[k]
           Good1 == \A c \in Clients : Taken(c)
<1>1. TInv /\ [Next]_vars => [Good1]_vars
  <2> SUFFICES ASSUME TInv, Next, NEW c \in Clients,
                      tx[c].pc = "commit", tx'[c].pc = "idle", db' # db, Leases(tx[c].prog),
                      NEW k \in Keys, exists(db[k], now)
               PROVE  db'[k] = db[k]
    BY Zenon DEF Leases
  <2>1. /\ tx \in [Clients -> Transaction] /\ TypeOK /\ now \in Nat /\ tx[c].t \in Nat
        /\ tx[c].t <= now /\ db[k] \in KeyState
    BY DEF TInv, IInv, TypeOK, Transaction, Staged, MetaCovered
  <2>2. db' = View(c)
    <3>1. tx'[c] # tx[c]
      OBVIOUS
    <3>2. \A d \in Clients : TxStep(d) \/ (\E p \in Programs : Begin(d, p)) => tx'[c] = tx[c] \/ d = c
      BY <2>1, Zenon DEF TxStep, Lock, Read, Write, Commit, CommitLost, Abort, DeadlockVictim, Begin, Become
    <3>3. (\E p \in Programs : Begin(c, p)) \/ TxStep(c)
      BY <3>1, <3>2 DEF Next, ClientStep, SweepStep, SweepScan, SweepLock, SweepDelete, SweepAbort,
                        Tick, Quiet, vars
    <3> QED BY <3>3, Zenon DEF TxStep, Lock, Read, Write, Commit, CommitLost, Abort, DeadlockVictim, Begin
  <2>3. exists(db[k], tx[c].t)
    BY <2>1, ExistsMonotone DEF exists
  <2>4. tx[c].old[k] = tx[c].new[k]
    BY <2>3 DEF TInv, Staged, LeasesFree, exists
  <2> QED BY <2>1, <2>2, <2>4, ViewType
<1> QED BY <1>1, TablesInvariance, PTL DEF Spec, LeaseExclusive

\* The sweeper removes nothing from a key that is alive when its deletes commit
\* and that the tables agree on, although it chose its candidates earlier.
THEOREM SweeperSpares == Spec => SweeperSparesAgreeing
<1> DEFINE Spares == (sweep.pc = "delete" /\ sweep'.pc = "idle")
                     => \A k \in Keys : (exists(db[k], now) /\ TablesAgree(db[k])) => db'[k] = db[k]
<1>1. TInv /\ [Next]_vars => [Spares]_vars
  <2> SUFFICES ASSUME TInv, Next, sweep.pc = "delete", sweep'.pc = "idle",
                      NEW k \in Keys, exists(db[k], now), TablesAgree(db[k])
               PROVE  db'[k] = db[k]
    BY Zenon
  <2>1. db[k] \in KeyState /\ sweep.t \in Nat /\ now \in Nat /\ sweep.t <= now
    BY DEF TInv, IInv, TypeOK, Cleanup
  <2>2. CASE SweepDelete
    <3>1. SweepKey(db[k], sweep.t) = db[k]
      BY <2>1, SweepSpares DEF exists
    <3> QED BY <2>2, <3>1 DEF SweepDelete, SweepResult
  <2>3. CASE SweepAbort
    BY <2>3 DEF SweepAbort
  <2>4. SweepDelete \/ SweepAbort
    BY Zenon DEF Next, ClientStep, TxStep, Begin, Lock, Read, Write, Commit, CommitLost, Abort, DeadlockVictim,
           SweepStep, SweepScan, SweepLock, Tick, Quiet, vars
  <2> QED BY <2>2, <2>3, <2>4
<1> QED BY <1>1, TablesInvariance, PTL DEF Spec, SweeperSparesAgreeing

-----------------------------------------------------------------------------
(* FLUSHDB beside the transactions.                                         *)

Flushing == [at : 0..7, ran : BOOLEAN, wrote : SUBSET Keys]

\* The tables that FLUSHDB is past.
Emptied(n) == {flushTables[j] : j \in 1..(n - 1)}

\* They hold no rows of the keys that nobody changed meanwhile.
FInv ==
    /\ IInv
    /\ flush \in Flushing
    /\ \A k \in Keys \ flush.wrote : \A r \in db[k].rows : r.t \notin Emptied(flush.at)

\* The seven statements.
LEMMA TablesInOrder ==
    /\ Len(flushTables) = 7
    /\ Emptied(0) = {} /\ Emptied(1) = {}
    /\ \A n \in 1..6 : Emptied(n + 1) = Emptied(n) \cup {flushTables[n]}
    /\ \A n \in 1..6 : flushTables[n] \in KeyTypes
    /\ KeyTypes \subseteq Emptied(7)
    /\ flushTables[7] = "meta"
<1>1. /\ flushTables[1] = "string" /\ flushTables[2] = "hash" /\ flushTables[3] = "list"
      /\ flushTables[4] = "set" /\ flushTables[5] = "zset" /\ flushTables[6] = "hyperloglog"
      /\ flushTables[7] = "meta" /\ Len(flushTables) = 7
  BY DEF flushTables
<1>2. Emptied(0) = {} /\ Emptied(1) = {}
  BY DEF Emptied
<1>3. \A n \in 1..6 : Emptied(n + 1) = Emptied(n) \cup {flushTables[n]}
  <2> SUFFICES ASSUME NEW n \in 1..6 PROVE Emptied(n + 1) = Emptied(n) \cup {flushTables[n]}
    OBVIOUS
  <2>1. 1..((n + 1) - 1) = (1..(n - 1)) \cup {n}
    OBVIOUS
  <2> QED BY <2>1, Zenon DEF Emptied
<1>4. \A n \in 1..6 : flushTables[n] \in KeyTypes
  BY <1>1 DEF KeyTypes
<1>5. KeyTypes \subseteq Emptied(7)
  <2>1. \A n \in 1..6 : flushTables[n] \in Emptied(7)
    BY DEF Emptied
  <2> QED BY <1>1, <2>1 DEF KeyTypes
<1> QED BY <1>1, <1>2, <1>3, <1>4, <1>5

\* TRUNCATE leaves a key well formed, without the rows of the table.
LEMMA TruncatedType ==
    ASSUME NEW S \in KeyState, NEW table
    PROVE  /\ Truncated(S, table) \in KeyState
           /\ table # "meta" => \A r \in Truncated(S, table).rows : r \in S.rows /\ r.t # table
           /\ table = "meta" => Truncated(S, table) = [meta |-> NoMeta, rows |-> S.rows]
<1>1. NoMeta \in Meta
  BY DEF NoMeta, Meta, NoTTL
<1> QED BY <1>1 DEF Truncated, KeyState

\* A TRUNCATE changes no transaction and no lock.
LEMMA TruncateIInv == ASSUME IInv, flush \in Flushing, FlushTruncate PROVE IInv'
<1>1. \A k \in Keys : db[k] \in KeyState
  BY DEF IInv, TypeOK
<1>2. db' \in [Keys -> KeyState]
  BY <1>1, TruncatedType DEF FlushTruncate
<1>3. TypeOK'
  BY <1>2 DEF FlushTruncate, IInv, TypeOK
<1>4. LocksExclusive' /\ LocksCoverWrites'
  BY DEF FlushTruncate, IInv, LocksExclusive, LocksCoverWrites
<1> QED BY <1>3, <1>4 DEF IInv

\* Every step keeps it.
LEMMA FlushNextInv == FInv /\ [FlushNext]_fvars => FInv'
<1> SUFFICES ASSUME FInv, [FlushNext]_fvars PROVE FInv'
  OBVIOUS
<1> USE TablesInOrder
<1>1. flush \in Flushing /\ flush.at \in 0..7 /\ flush.wrote \subseteq Keys /\ \A k \in Keys : db[k] \in KeyState
  BY DEF FInv, IInv, TypeOK, Flushing
<1>2. ASSUME Next, Beside PROVE FInv'
  <2> DEFINE more == IF flush.at = 0 THEN flush.wrote ELSE flush.wrote \cup {k \in Keys : db'[k] # db[k]}
  <2>1. flush' = [flush EXCEPT !.wrote = more]
    BY <1>1, <1>2 DEF Beside, Flushing
  <2>2. more \subseteq Keys
    BY <1>1
  <2>3. flush' \in Flushing /\ flush'.at = flush.at /\ flush'.wrote = more
    BY <1>1, <2>1, <2>2, Zenon DEF Flushing
  <2>4. IInv'
    BY <1>2, NextIInv DEF FInv
  <2>5. CASE flush.at = 0
    BY <2>3, <2>4, <2>5 DEF FInv
  <2>6. CASE flush.at # 0
    <3>1. \A k \in Keys \ more : db'[k] = db[k] /\ k \notin flush.wrote
      BY <2>6
    <3> HIDE DEF more
    <3> QED BY <1>1, <2>3, <2>4, <3>1 DEF FInv
  <2> QED BY <2>5, <2>6
<1>3. ASSUME FlushBegin PROVE FInv'
  <2>1. flush' \in Flushing /\ flush'.at = 1
    BY <1>3 DEF FlushBegin, Flushing
  <2>2. IInv'
    BY <1>3, NextIInv DEF FlushBegin, FInv
  <2> QED BY <2>1, <2>2 DEF FInv
<1>4. ASSUME FlushFails PROVE FInv'
  <2>1. flush' \in Flushing /\ flush'.at = 0
    <3>1. 0 \in 0..7
      OBVIOUS
    <3> QED BY <1>1, <1>4, <3>1, Zenon DEF FlushFails, Flushing
  <2>2. IInv'
    BY <1>4, NextIInv DEF FlushFails, FInv
  <2> QED BY <2>1, <2>2 DEF FInv
<1>5. ASSUME FlushTruncate PROVE FInv'
  <2> DEFINE next == IF flush.at = 7 THEN 0 ELSE flush.at + 1
  <2>1. flush' = [flush EXCEPT !.at = next] /\ flush.at # 0
    BY <1>5 DEF FlushTruncate, Flushing
  <2>2. next \in 0..7 /\ flush.at \in 1..7
    BY <1>1, <2>1
  <2>3. flush' \in Flushing /\ flush'.at = next /\ flush'.wrote = flush.wrote
    BY <1>1, <2>1, <2>2, Zenon DEF Flushing
  <2>4. IInv'
    BY <1>1, <1>5, TruncateIInv DEF FInv
  <2>5. CASE flush.at = 7
    BY <2>3, <2>4, <2>5 DEF FInv
  <2>6. CASE flush.at \in 1..6
    <3>1. \A k \in Keys : \A r \in db'[k].rows : r \in db[k].rows /\ r.t # flushTables[flush.at]
      <4>1. flushTables[flush.at] # "meta"
        BY <2>6 DEF KeyTypes
      <4> QED BY <1>1, <1>5, <4>1, TruncatedType DEF FlushTruncate
    <3>2. flush'.at = flush.at + 1
      BY <2>3, <2>6
    <3>3. Emptied(flush'.at) = Emptied(flush.at) \cup {flushTables[flush.at]}
      BY <2>6, <3>2
    <3> QED BY <2>3, <2>4, <3>1, <3>3 DEF FInv
  <2> QED BY <2>2, <2>5, <2>6
<1>6. ASSUME UNCHANGED fvars PROVE FInv'
  <2>1. IInv'
    BY <1>6, NextIInv DEF fvars, FInv
  <2> QED BY <1>6, <2>1 DEF fvars, vars, FInv
<1> QED BY <1>2, <1>3, <1>4, <1>5, <1>6 DEF FlushNext, FlushStep

\* Beside a FLUSHDB too, every table and transaction keeps its type, locks have
\* one holder, and locks come before writes.
THEOREM FlushInvariance == FlushSpec => []FInv
<1>1. FlushInit => FInv
  <2> SUFFICES ASSUME FlushInit PROVE FInv
    OBVIOUS
  <2>1. IInv
    BY InitIInv DEF FlushInit
  <2>2. flush \in Flushing /\ flush.at = 0
    <3>1. 0 \in 0..7 /\ flush = [at |-> 0, ran |-> FALSE, wrote |-> {}]
      BY DEF FlushInit, NoFlush
    <3> QED BY <3>1, Zenon DEF Flushing
  <2>3. Emptied(flush.at) = {}
    BY <2>2, TablesInOrder
  <2> QED BY <2>1, <2>2, <2>3 DEF FInv
<1>2. FInv /\ [FlushNext]_fvars => FInv'
  BY FlushNextInv
<1> QED BY <1>1, <1>2, PTL DEF FlushSpec

\* FLUSHDB answers OK only after every row of every key that nobody changed
\* while it ran is gone from all seven tables, however the truncations, the
\* transactions in progress and the sweeper interleave.
THEOREM FlushEmptiesAll == FlushSpec => FlushEmpties
<1> DEFINE Empties == (flush.at = Len(flushTables) /\ FlushTruncate)
                      => \A k \in Keys \ flush.wrote : db'[k] = Absent
<1>1. FInv => [Empties]_fvars
  <2> SUFFICES ASSUME FInv, flush.at = Len(flushTables), FlushTruncate, NEW k \in Keys \ flush.wrote
               PROVE  db'[k] = Absent
    OBVIOUS
  <2>1. flush.at = 7 /\ flushTables[7] = "meta" /\ KeyTypes \subseteq Emptied(7)
    BY TablesInOrder
  <2>2. db[k] \in KeyState /\ db'[k] = Truncated(db[k], "meta")
    BY <2>1 DEF FInv, IInv, TypeOK, FlushTruncate
  <2>3. \A r \in db[k].rows : r.t \in KeyTypes
    BY <2>2 DEF KeyState, Row
  <2>4. db[k].rows = {}
    BY <2>1, <2>3 DEF FInv
  <2>5. Truncated(db[k], "meta") = [meta |-> NoMeta, rows |-> db[k].rows]
    BY <2>2 DEF Truncated, KeyState
  <2> QED BY <2>2, <2>4, <2>5, Zenon DEF Absent
<1> QED BY <1>1, FlushInvariance, PTL DEF FlushEmpties

=============================================================================
