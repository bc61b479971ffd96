----------------------------- MODULE MCStorage -----------------------------
(* Storage on small instances: the programs each run offers to its clients. *)
EXTENDS Storage, TLC

\* What the clients see is the committed tables; transactions, locks, the
\* sweeper's position and the bounds are internal.
Atomic == INSTANCE AtomicStore WITH db <- db, now <- now, log <- log,
                                    Keys <- Keys, IntMax <- IntMax,
                                    Programs <- Programs, MaxNow <- MaxNow

\* Committed states change only as if whole programs ran one at a time: the
\* promise of MULTI/EXEC, of scripts and of the operations that lock first.
ProgramsAreAtomic == Atomic!Spec

-----------------------------------------------------------------------------

O(cmd, k, d, f, v, ttl, opt) ==
    [cmd |-> cmd, k |-> k, d |-> d, f |-> f, v |-> v, ttl |-> ttl, opt |-> opt]
K(cmd, k) == O(cmd, k, k, 0, 0, NoTTL, "")
V(cmd, k, v) == O(cmd, k, k, 0, v, NoTTL, "")
F(cmd, k, f, v) == O(cmd, k, k, f, v, NoTTL, "")
T(cmd, k, v, ttl) == O(cmd, k, k, 0, v, ttl, "")
D(cmd, k, d) == O(cmd, k, d, 0, 1, NoTTL, "")

Direct(op) == [kind |-> "direct", ops |-> <<op>>, keys |-> {}]
Exec(ops) == [kind |-> "exec", ops |-> ops, keys |-> {}]
Script(keys, ops) == [kind |-> "script", ops |-> ops, keys |-> keys]

Symmetry == Permutations(Clients)

\* A key held as a lease, and commands that move its expiry or the key itself.
LeasePrograms == {Direct(op) : op \in {
    T("SETNX", 1, 1, 1), T("SETNX", 1, 2, 2), T("SET", 1, 3, NoTTL),
    T("GETEX", 1, 0, 1), K("GETDEL", 1), T("EXPIREAT", 1, 0, 2),
    O("EXPIRE", 1, 1, 0, 0, 2, "GT"), K("PERSIST", 1), D("RENAME", 1, 2),
    O("COPY", 1, 2, 0, 0, NoTTL, "REPLACE")}}

\* Commands that lock first, one by one.
LockFirstPrograms == {Direct(op) : op \in {
    T("SET", 1, 3, 1), V("GETSET", 1, 2), V("APPEND", 1, 1),
    O("GETEX", 1, 1, 0, 0, NoTTL, "PERSIST"), O("EXPIRE", 1, 1, 0, 0, 1, "LT"),
    O("EXPIRE", 1, 1, 0, 0, 1, "NX"), O("EXPIRE", 1, 1, 0, 0, 1, "XX"), D("RENAME", 1, 1),
    D("MSET", 1, 2), F("ZINCRBY", 1, 1, 1), F("LTRIM", 1, 1, -1)}}

\* Transactions and scripts that declare their keys, over all types; some fail
\* half way.
ExecPrograms == {
    Exec(<<V("INCR", 1, 1), V("INCR", 2, 3)>>),
    Exec(<<V("RPUSH", 1, 1), D("RPOPLPUSH", 1, 2)>>),
    Exec(<<F("HSET", 1, 1, 1), F("SADD", 1, 1, 0)>>),
    Exec(<<F("HINCRBY", 1, 1, 1), T("EXPIRE", 1, 0, 1)>>),
    Script({1, 2}, <<D("BLPOP", 2, 1), V("LPUSH", 1, 2), K("RPOP", 1)>>),
    Script({1, 2}, <<F("SADD", 1, 1, 0), V("LPUSH", 1, 1), K("DEL", 2)>>),
    Script({1}, <<F("HSETNX", 1, 1, 2), F("HDEL", 1, 1, 0)>>)}

ExecMorePrograms == {
    Exec(<<F("ZADD", 1, 1, 1), K("ZPOPMIN", 1)>>),
    Exec(<<F("ZADD", 1, 1, 2), F("ZADD", 1, 2, 2), K("ZPOPMAX", 1)>>),
    Exec(<<F("ZREMRANGEBYSCORE", 1, 1, 1), F("ZREMRANGEBYRANK", 1, -1, -1)>>),
    Exec(<<V("INCRBYFLOAT", 1, 4), V("SETRANGE", 2, 2), V("BITFIELD", 2, 3)>>),
    Script({1}, <<V("RPUSH", 1, 1), F("LSET", 1, -1, 2)>>),
    Exec(<<F("PFADD", 1, 1, 0), D("PFMERGE", 1, 2)>>)}

\* Commands that store what they compute from two keys, and their sources.
StorePrograms == {
    Exec(<<F("SADD", 1, 1, 0), F("SADD", 2, 1, 0), F("SADD", 2, 2, 0)>>),
    Exec(<<D("SUNIONSTORE", 1, 2), D("SINTERSTORE", 2, 1)>>), Exec(<<D("SDIFFSTORE", 2, 1)>>),
    Exec(<<F("ZADD", 1, 1, 1), D("ZUNIONSTORE", 2, 1), D("ZINTERSTORE", 1, 2)>>),
    Exec(<<D("ZRANGESTORE", 2, 1), D("ZRANGESTORE", 1, 1)>>),
    Exec(<<T("SET", 2, 1, 1), D("BITOP", 1, 2)>>),
    Exec(<<F("HINCRBYFLOAT", 1, 1, 4), O("COPY", 1, 2, 0, 0, NoTTL, "REPLACE")>>),
    Exec(<<F("PFADD", 1, 1, 0), O("COPY", 1, 2, 0, 0, NoTTL, "REPLACE")>>),
    Exec(<<T("EXPIRE", 1, 0, 1)>>)}

\* Pops of several elements from the first of two keys, beside pushes, inserts
\* and the removal of the key.
ManyPrograms == {
    Exec(<<V("RPUSH", 1, 1), V("RPUSH", 1, 2), V("RPUSH", 2, 3)>>),
    Direct(O("LMPOP", 1, 2, 0, 2, NoTTL, "")), Direct(O("RMPOP", 1, 2, 0, 1, NoTTL, "")),
    Direct(O("LINSERT", 1, 1, 2, 4, NoTTL, "BEFORE")), Direct(F("LINSERT", 1, 1, 5)),
    Direct(K("DEL", 1)), Direct(T("EXPIRE", 1, 0, 1)),
    Exec(<<F("ZADD", 1, 1, 1), F("ZADD", 1, 2, 1), F("ZADD", 2, 3, 1)>>),
    Direct(O("ZMPOPMIN", 1, 2, 0, 2, NoTTL, "")), Direct(O("ZMPOPMAX", 1, 2, 0, 1, NoTTL, ""))}

\* Multi-key writes, EXEC and cleanup against each other.
MixedPrograms == {
    Direct(D("RENAME", 2, 1)), Direct(D("RPOPLPUSH", 2, 1)),
    [kind |-> "direct", ops |-> <<K("DEL", 1), K("DEL", 2)>>, keys |-> {}],
    Exec(<<V("RPUSH", 2, 1), V("RPUSH", 1, 1)>>), Exec(<<K("LPOP", 2), V("LREM", 1, 1)>>),
    Direct(K("LPOP", 1)), Direct(T("EXPIRE", 1, 0, 1))}

\* Commands that check the key's type, as EXEC runs them.
TypedPrograms == {Exec(<<op>>) : op \in {
    T("SET", 1, 1, 1), F("HSET", 1, 1, 1), F("SADD", 1, 1, 0), V("LPUSH", 1, 1),
    F("ZADD", 1, 1, 1), T("EXPIRE", 1, 0, 1), K("DEL", 1),
    K("LPOP", 1), F("SREM", 1, 1, 0)}}

\* Work queues: producers and competing consumers.
QueuePrograms ==
    {Direct(op) : op \in {V("LPUSH", 1, 1), V("RPUSH", 1, 2), K("LPOP", 1), K("RPOP", 1),
                          D("BLPOP", 1, 2), D("RPOPLPUSH", 1, 2), V("LREM", 1, 1)}}
    \cup {Exec(<<K("LPOP", 1), K("LPOP", 1)>>)}

\* Sorted-set queues handed out by scripts.
JobPrograms == {
    Direct(F("ZADD", 1, 1, 1)), Direct(F("ZADD", 1, 2, 1)), Direct(F("ZREM", 1, 1, 0)),
    Script({1}, <<K("ZPOPMIN", 1)>>), Script({1}, <<K("ZPOPMAX", 1)>>), Exec(<<K("ZPOPMIN", 1), F("ZADD", 1, 1, 2)>>)}

\* Pops of one sorted set with and without the key's lock.
ZPopPrograms == {
    Exec(<<F("ZADD", 1, 1, 1), F("ZADD", 1, 2, 1)>>), Direct(F("ZADD", 1, 1, 1)),
    Direct(K("ZPOPMIN", 1)), Direct(K("ZPOPMAX", 1)), Direct(O("ZMPOPMIN", 1, 2, 0, 2, NoTTL, "")),
    Script({1}, <<K("ZPOPMIN", 1)>>)}

\* INCR on its own.
IncrPrograms == {Direct(V("INCR", 1, 1))}

\* A list that is given a time to live and refilled after it has passed.
RefillPrograms == {Exec(<<V("LPUSH", 1, 1)>>), Direct(T("EXPIRE", 1, 0, 1))}

\* Commands that give a key rows of a second type.
MixingPrograms == {
    Exec(<<F("HSET", 1, 1, 1), T("EXPIRE", 1, 0, 1)>>),
    Exec(<<F("SADD", 1, 1, 0), T("EXPIRE", 1, 0, 1), K("PERSIST", 1)>>),
    Exec(<<F("PFADD", 1, 1, 0), T("EXPIRE", 1, 0, 1)>>),
    Exec(<<V("RPUSH", 2, 1), D("RPOPLPUSH", 2, 1)>>),
    Exec(<<V("SETRANGE", 1, 1)>>), Exec(<<F("ZADD", 1, 1, 1)>>),
    Direct(F("ZINCRBY", 1, 1, 1)), Direct(V("INCR", 1, 1)), Direct(V("APPEND", 1, 1)),
    Direct(V("GETSET", 1, 1)), Direct(V("BITFIELD", 1, 1)), Direct(K("DEL", 1)),
    Direct(F("HSET", 1, 1, 1)), Direct(F("SADD", 1, 1, 0))}

\* Writers beside a FLUSHDB.
FlushPrograms == {
    Exec(<<T("SET", 1, 1, NoTTL)>>), Exec(<<F("HSET", 1, 1, 1), V("RPUSH", 2, 1)>>),
    Exec(<<F("PFADD", 1, 1, 0)>>), Direct(K("DEL", 1)), Direct(D("RENAME", 1, 2))}

\* Scripts that use a key they did not declare, and a queue.
UndeclaredPrograms == {
    Script({1}, <<T("SET", 2, 1, 1)>>), Script({2}, <<V("APPEND", 1, 1)>>),
    Direct(D("MSET", 2, 1))}

=============================================================================
