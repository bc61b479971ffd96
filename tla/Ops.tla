-------------------------------- MODULE Ops --------------------------------
(***************************************************************************)
(* The write commands, as Store and TxStore run them.  Every command is a  *)
(* call of one operation of Querier; what differs between them, and what   *)
(* decides how they interleave, is                                         *)
(*   - which key locks the operation takes, if any (keyLocks);             *)
(*   - whether it reads the key in a statement of its own before the lock  *)
(*     (readsFirst), and what it refuses or skips on what it read.         *)
(*                                                                         *)
(* An operation is a record: cmd, the key k and second key d (d = k when   *)
(* there is none), the field, member or index f, the value, delta or score *)
(* v, the time to live ttl (NoTTL for none) and the option opt.            *)
(***************************************************************************)
EXTENDS Querier, Sequences

\* One DELETE statement (or SELECT and DELETE), never a key lock.
Unlocked == {"LPOP", "RPOP", "BLPOP", "HDEL", "SREM", "ZREM", "LREM", "ZPOPMIN", "ZPOPMAX",
             "ZREMRANGEBYSCORE", "LSET", "LMPOP", "RMPOP", "ZMPOPMIN", "ZMPOPMAX"}

TwoKeys == {"MSET", "RENAME", "RPOPLPUSH", "PFMERGE", "COPY"}

\* One locked key, k, written from two that are read: k itself and d.
Stores == {"SINTERSTORE", "SUNIONSTORE", "SDIFFSTORE", "ZINTERSTORE", "ZUNIONSTORE", "BITOP"}

StoreType(cmd) ==
    CASE cmd = "BITOP" -> "string"
      [] cmd \in {"ZINTERSTORE", "ZUNIONSTORE"} -> "zset"
      [] OTHER -> "set"

\* Pops from the first of two keys that has something.
PopsOfTwo == {"BLPOP", "LMPOP", "RMPOP", "ZMPOPMIN", "ZMPOPMAX"}

\* GETSET selects the old value before the lock, but only for its reply.
LockFirst == {"SET", "SETNX", "APPEND", "GETEX", "GETDEL", "GETSET", "EXPIRE",
              "EXPIREAT", "PERSIST", "LTRIM", "ZINCRBY", "ZREMRANGEBYRANK", "PFADD", "ZRANGESTORE"}

ReadThenLock == {"INCR", "INCRBYFLOAT", "SETRANGE", "BITFIELD", "DEL", "HSET", "HSETNX",
                 "HINCRBY", "HINCRBYFLOAT", "LPUSH", "RPUSH", "LINSERT", "SADD", "ZADD"}
                \cup Stores

Commands == Unlocked \cup TwoKeys \cup LockFirst \cup ReadThenLock

Op == [cmd : Commands, k : Keys, d : Keys, f : Int, v : Int, ttl : Nat,
       opt : {"", "NX", "XX", "GT", "LT", "PERSIST", "BEFORE", "REPLACE"}]

-----------------------------------------------------------------------------

readsFirst(op) == op.cmd \in ReadThenLock \cup {"ZPOPMIN", "ZPOPMAX", "LSET"}

\* Mutant of keyLocks: SETNX and APPEND go without the lock.
keyLocksTooFew(op) == IF op.cmd \in Unlocked \cup {"SETNX", "APPEND"} THEN {} ELSE {op.k}

\* lockKey and lockKeys of the operation, taken in key order.
keyLocks(op) ==
    IF op.cmd \in Unlocked THEN {}
    ELSE IF op.cmd \in TwoKeys THEN {op.k, op.d} ELSE {op.k}

\* The keys EXEC locks up front for a queued command.
commandKeys(op) == {op.k} \cup
    IF op.cmd \in TwoKeys \cup PopsOfTwo \cup Stores \cup {"ZRANGESTORE"} THEN {op.d} ELSE {}

\* Mutant of WriterType: SADD and HSET do not check.
WriterTypeLax(cmd) ==
    CASE cmd \in {"LPUSH", "RPUSH"} -> "list" [] cmd = "ZADD" -> "zset" [] OTHER -> "none"

\* The type a typed writer insists on when the key exists.
WriterType(cmd) ==
    CASE cmd = "INCRBYFLOAT" -> "string"
      [] cmd \in {"HSET", "HSETNX", "HINCRBY", "HINCRBYFLOAT"} -> "hash"
      [] cmd \in {"LPUSH", "RPUSH"} -> "list"
      [] cmd = "SADD" -> "set"
      [] cmd = "ZADD" -> "zset"
      [] OTHER -> "none"

\* What the statements before the lock find: the key, or the result to store.
Reads(op, D, t) ==
    LET A == D[op.k]
        B == D[op.d]
        Result(R) == [meta |-> NoMeta, rows |-> R]
    IN  CASE op.cmd = "SINTERSTORE" -> Result(MemberRows(sInter(A, B, t)))
          [] op.cmd = "SUNIONSTORE" -> Result(MemberRows(sUnion(A, B, t)))
          [] op.cmd = "SDIFFSTORE"  -> Result(MemberRows(sDiff(A, B, t)))
          [] op.cmd = "ZINTERSTORE" -> Result(zInterRows(A, B, t))
          [] op.cmd = "ZUNIONSTORE" -> Result(zUnionRows(A, B, t))
          [] op.cmd = "BITOP"       -> Result(bitOpRows(A, B, t))
          [] OTHER -> A

\* An error on what was read before the lock: WRONGTYPE, or not an integer.
Refuses(op, D, t) ==
    LET pre == D[op.k] IN
    \/ op.cmd = "SUNIONSTORE" /\ sUnionFails(pre, D[op.d], t)
    \/ op.cmd \in {"SINTERSTORE", "SDIFFSTORE"} /\ sInterFails(pre, D[op.d], t)
    \/ WriterType(op.cmd) # "none" /\ WrongType(pre, WriterType(op.cmd), t)
    \/ op.cmd = "INCR" /\ incrFails(pre, t)
    \/ op.cmd = "HINCRBY" /\ hIncrByFails(pre, op.f, t)
    \/ op.cmd = "LSET" /\ lSetFails(pre, op.f)

\* A successful return before the lock with nothing to do.
Skips(op, D, t) ==
    LET pre == D[op.k] IN
    \/ op.cmd = "LINSERT" /\ pivotRows(pre, op.f) = {}
    \/ op.cmd = "DEL" /\ ~exists(pre, t)
    \/ op.cmd = "ZADD" /\ op.opt = "XX" /\ ~exists(pre, t)
    \/ op.cmd \in {"ZPOPMIN", "ZPOPMAX"} /\ LiveRows(pre, "zset", t) = {}

\* An error found once the locks are held.
Fails(op, D, t) ==
    \/ op.cmd = "RENAME" /\ renameFails(D, op.k, t)
    \/ op.cmd = "PFADD" /\ WrongType(D[op.k], "hyperloglog", t)
    \/ op.cmd = "PFMERGE" /\ WrongType(D[op.d], "hyperloglog", t)
    \/ op.cmd = "COPY" /\ copyFails(D, op.k, op.d, op.opt = "REPLACE", t)

\* An error of PostgreSQL, after which the transaction can only be rolled back.
Breaks(op, D, t) == op.cmd = "COPY" /\ copyBreaks(D, op.k, op.d, op.opt = "REPLACE", t)

\* Mutant of Deadline: the sign is wrong.
DeadlineBackwards(op, g) == IF op.ttl = NoTTL THEN NoTTL ELSE g - op.ttl

Deadline(op, g) == IF op.ttl = NoTTL THEN NoTTL ELSE g + op.ttl

\* The key an operation on one key leaves behind.  `locked' are the rows of
\* the key that other transactions have locked.
KeyEffect(op, pre, S, locked, t, g) ==
    CASE op.cmd = "SET"      -> set(S, op.v, Deadline(op, g))
      [] op.cmd = "SETNX"    -> setNX(S, op.v, Deadline(op, g), t)
      [] op.cmd = "INCR"     -> incr(pre, S, op.v, t)
      [] op.cmd = "INCRBYFLOAT" -> incrByFloat(pre, S, op.v, t)
      [] op.cmd = "SETRANGE" -> setRange(pre, S, op.v, t)
      [] op.cmd = "BITFIELD" -> bitField(pre, S, op.v, t)
      [] op.cmd = "APPEND"   -> appendStr(S, op.v)
      [] op.cmd = "GETEX"    -> IF op.opt = "PERSIST" THEN getEx(S, NoTTL, t)
                                ELSE IF op.ttl = NoTTL THEN S
                                ELSE getEx(S, Deadline(op, g), t)
      [] op.cmd = "GETDEL"   -> getDel(S, t)
      [] op.cmd = "GETSET"   -> getSet(S, op.v)
      [] op.cmd = "DEL"      -> deleteKeyFromAllTables(S)
      [] op.cmd = "EXPIRE"   -> expire(S, g + op.ttl, op.opt, t)
      [] op.cmd = "EXPIREAT" -> expireAt(S, op.ttl, op.opt, t)
      [] op.cmd = "PERSIST"  -> persist(S, t)
      [] op.cmd = "HSET"     -> hSet(S, op.f, op.v)
      [] op.cmd = "HSETNX"   -> hSetNX(S, op.f, op.v)
      [] op.cmd = "HINCRBY"  -> hIncrBy(pre, S, op.f, op.v, t)
      [] op.cmd = "HINCRBYFLOAT" -> hIncrByFloat(pre, S, op.f, op.v, t)
      [] op.cmd = "HDEL"     -> hDel(S, op.f)
      [] op.cmd = "LPUSH"    -> lPush(S, op.v)
      [] op.cmd = "RPUSH"    -> rPush(S, op.v)
      [] op.cmd = "LPOP"     -> lPop(S, locked)
      [] op.cmd = "RPOP"     -> rPop(S, locked)
      [] op.cmd = "LREM"     -> lRem(S, op.v)
      [] op.cmd = "LTRIM"    -> lTrim(S, op.f, op.v)
      [] op.cmd = "LSET"     -> lSet(pre, S, op.f, op.v)
      [] op.cmd = "LINSERT"  -> lInsert(pre, S, op.f, op.v, op.opt = "BEFORE")
      [] op.cmd = "SADD"     -> sAdd(S, op.f)
      [] op.cmd = "SREM"     -> sRem(S, op.f)
      [] op.cmd = "ZADD"     -> zAdd(S, op.f, op.v, op.opt)
      [] op.cmd = "ZREM"     -> zRem(S, op.f)
      [] op.cmd = "ZINCRBY"  -> zIncrBy(S, op.f, op.v)
      [] op.cmd = "ZPOPMIN"  -> zPopMin(pre, S, t)
      [] op.cmd = "ZPOPMAX"  -> zPopMax(pre, S, t)
      [] op.cmd = "ZREMRANGEBYSCORE" -> zRemRangeByScore(S, op.f, op.v)
      [] op.cmd = "ZREMRANGEBYRANK"  -> zRemRangeByRank(S, op.f, op.v, t)
      [] op.cmd = "PFADD"    -> pfAdd(S, op.f, t)
      [] op.cmd \in Stores   -> storeRows(S, StoreType(op.cmd), pre.rows)

mSet(D, k1, k2, v) == [k \in Keys |-> IF k \in {k1, k2} THEN set(D[k], v, NoTTL) ELSE D[k]]

Effect(op, pre, D, locked, t, g) ==
    CASE op.cmd = "MSET"      -> mSet(D, op.k, op.d, op.v)
      [] op.cmd = "RENAME"    -> rename(D, op.k, op.d, t)
      [] op.cmd = "RPOPLPUSH" -> rPopLPush(D, op.k, op.d, locked[op.k])
      [] op.cmd = "PFMERGE"   -> pfMerge(D, op.k, op.d, t)
      [] op.cmd = "COPY"      -> copyKey(D, op.k, op.d, op.opt = "REPLACE", t)
      [] op.cmd = "ZRANGESTORE" -> zRangeStore(D, op.d, op.k, t)
      [] op.cmd = "BLPOP"     -> popMulti(D, op.k, op.d, locked, t)
      [] op.cmd = "LMPOP"     -> popMultiN(D, op.k, op.d, op.v, FALSE, locked, t)
      [] op.cmd = "RMPOP"     -> popMultiN(D, op.k, op.d, op.v, TRUE, locked, t)
      [] op.cmd = "ZMPOPMIN"  -> zMPop(D, op.k, op.d, op.v, FALSE, locked, t)
      [] op.cmd = "ZMPOPMAX"  -> zMPop(D, op.k, op.d, op.v, TRUE, locked, t)
      [] OTHER -> [D EXCEPT ![op.k] = KeyEffect(op, pre, @, locked[op.k], t, g)]

-----------------------------------------------------------------------------
(* Jobs: what a queue hands over.  A list carries its elements, a sorted    *)
(* set its members.                                                         *)

Item(r) == IF r.t = "list" THEN r.v ELSE r.f

\* The items the reply of a pop names.
Popped(op, pre, D, locked, t) ==
    CASE op.cmd = "LPOP"    -> lPopRows(D[op.k], locked[op.k])
      [] op.cmd = "RPOP"    -> rPopRows(D[op.k], locked[op.k])
      [] op.cmd = "BLPOP"   -> LET k == popMultiKey(D, op.k, op.d, locked, t)
                               IN  popMultiRows(D[k], locked[k], t)
      [] op.cmd \in {"LMPOP", "RMPOP"} ->
            LET k == mpopKey(D, op.k, op.d, "list", t)
            IN  mpopRows(D[k], "list", op.v, op.cmd = "RMPOP", locked[k], t)
      [] op.cmd \in {"ZMPOPMIN", "ZMPOPMAX"} ->
            LET k == mpopKey(D, op.k, op.d, "zset", t)
            IN  mpopRows(D[k], "zset", op.v, op.cmd = "ZMPOPMAX", locked[k], t)
      [] op.cmd = "ZPOPMIN" -> zMinRows(pre, t)
      [] op.cmd = "ZPOPMAX" -> zMaxRows(pre, t)
      [] OTHER -> {}

\* The items a push adds: an element always, a member when it is new.
Pushed(op, D) ==
    CASE op.cmd \in {"LPUSH", "RPUSH", "LINSERT"} -> {op.v}
      [] op.cmd \in {"ZADD", "ZINCRBY"} ->
                            IF op.opt = "XX" \/ \E r \in Table(D[op.k], "zset") : r.f = op.f
                            THEN {} ELSE {op.f}
      [] OTHER -> {}

=============================================================================
