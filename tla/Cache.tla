------------------------------- MODULE Cache -------------------------------
(***************************************************************************)
(* The in-memory GET cache of every replica (internal/cache): Cache,       *)
(* CachedStore, CachingTx and Invalidator, over one PostgreSQL.            *)
(*                                                                         *)
(* The value of a key is the number of the write that gave it, 0 when the  *)
(* key is absent.  A GET that misses reads the database and fills the      *)
(* cache in two steps; a write commits, deletes its keys from the cache of *)
(* its own replica, and broadcasts a NOTIFY, in three.  A hit changes      *)
(* nothing: whatever entry is live may be answered at any moment.          *)
(***************************************************************************)
EXTENDS Integers, Sequences, FiniteSets

CONSTANTS Replicas, Clients, Keys,
          Home,           \* the replica a client is connected to
          TTL,            \* CACHE_TTL
          MaxSize,        \* CACHE_MAX_SIZE; 0 is unbounded
          Distributed,    \* CACHE_DISTRIBUTED_INVALIDATION
          Faults,         \* what may go wrong, see below
          MaxFetch,       \* how long a GET may take from its SELECT to its fill
          MaxWrites       \* bound: writes in a behaviour

ASSUME CacheAssumption ==
    /\ Home \in [Clients -> Replicas]
    /\ TTL \in Nat /\ MaxSize \in Nat /\ MaxFetch \in Nat /\ MaxWrites \in Nat
    /\ Distributed \in BOOLEAN
    /\ Faults \subseteq {"expiry", "commit_lost", "notify_lost", "disconnect", "unmarked"}

VARIABLES db,        \* the committed value of each key
          items,     \* Cache.items of each replica
          op,        \* the request each client has in progress
          inbox,     \* notifications not yet processed by each listener
          conn,      \* listenerConn is connected
          writes,    \* writes so far
          missed,    \* ghost: keys with a change a replica's cache has not been told of
          gone       \* ghost: ticks since a value stopped being the key's value

vars == <<db, items, op, inbox, conn, writes, missed, gone>>

Values == 0..MaxWrites
Age == 0..(TTL + MaxFetch + 1)

\* An entry lives for TTL ticks; at -1 it has expired and waits for cleanup.
NoEntry == [v |-> 0, life |-> -1]
Entry == [v : Values, life : -1..TTL]
Present(e) == e.v # 0
\* Mutant of Live: Get does not look at expiresAt.
LiveForever(e) == Present(e)
Live(e) == Present(e) /\ e.life >= 0

NoKey == "none"
Request(pc, k, v, K) == [pc |-> pc, key |-> k, v |-> v, age |-> 0, dirty |-> K]
Ready == Request("ready", NoKey, 0, {})

Init ==
    /\ db = [k \in Keys |-> 0]
    /\ items = [r \in Replicas |-> [k \in Keys |-> NoEntry]]
    /\ op = [c \in Clients |-> Ready]
    /\ inbox = [r \in Replicas |-> <<>>]
    /\ conn = [r \in Replicas |-> TRUE]
    /\ writes = 0
    /\ missed = [r \in Replicas |-> {}]
    /\ gone = [k \in Keys |-> [v \in Values |-> 0]]

-----------------------------------------------------------------------------
(* Cache *)

Size(M) == Cardinality({k \in Keys : Present(M[k])})

CacheSet(M, k, v) ==
    IF MaxSize > 0 /\ Size(M) >= MaxSize /\ ~Present(M[k]) THEN M
    ELSE [M EXCEPT ![k] = [v |-> v, life |-> TTL]]

\* Delete, DeleteMulti and Flush.
CacheDelete(M, K) == [k \in Keys |-> IF k \in K THEN NoEntry ELSE M[k]]

cleanup(r) ==
    /\ \E k \in Keys : Present(items[r][k]) /\ ~Live(items[r][k])
    /\ items' = [items EXCEPT ![r] = CacheDelete(@, {k \in Keys : ~Live(items[r][k])})]
    /\ UNCHANGED <<db, op, inbox, conn, writes, missed, gone>>

-----------------------------------------------------------------------------
(* CachedStore.Get *)

\* A miss: the backend is asked.  A key that is absent is not cached.
Get(c, k) ==
    /\ op[c].pc = "ready"
    /\ ~Live(items[Home[c]][k])
    /\ db[k] # 0
    /\ op' = [op EXCEPT ![c] = Request("fill", k, db[k], {})]
    /\ UNCHANGED <<db, items, inbox, conn, writes, missed, gone>>

Fill(c) ==
    /\ op[c].pc = "fill"
    /\ items' = [items EXCEPT ![Home[c]] = CacheSet(@, op[c].key, op[c].v)]
    /\ op' = [op EXCEPT ![c] = Ready]
    /\ missed' = [missed EXCEPT ![Home[c]] =
                    IF op[c].v = db[op[c].key] THEN @ \ {op[c].key} ELSE @ \cup {op[c].key}]
    /\ UNCHANGED <<db, inbox, conn, writes, gone>>

-----------------------------------------------------------------------------
(* Writes: a command of CachedStore, or a CachingTx *)

\* Mutant of dirtySlice: only one of the written keys is remembered.
dirtySliceOne(kind, K) == {CHOOSE k \in K : TRUE}

\* The keys a write will invalidate.  CachingTx has no wrapper for ZRANGESTORE,
\* so a transaction that runs it does not mark the key.
dirtySlice(kind, K) == IF kind = "unmarked" THEN {} ELSE K

Kinds == {"marked"} \cup (Faults \cap {"unmarked"})

NewValue(K, v) == [k \in Keys |-> IF k \in K THEN v ELSE db[k]]

\* The ghost: nobody will tell the replicas R of a change to the keys K.
Untold(R, K) == [r \in Replicas |-> IF r \in R THEN missed[r] \cup K ELSE missed[r]]

\* An invalidation settles what the replica r missed before.
Told(r, K) == [missed EXCEPT ![r] = @ \ K]

\* The database commits: K is overwritten, or deleted.  FLUSHDB is K = Keys.
Commit(c, K, kind, v) ==
    /\ op[c].pc = "ready"
    /\ writes < MaxWrites
    /\ writes' = writes + 1
    /\ v \in {0, writes + 1}
    /\ db' = NewValue(K, v)
    /\ op' = [op EXCEPT ![c] =
                IF dirtySlice(kind, K) = {} THEN Ready
                ELSE Request("invalidate", NoKey, 0, dirtySlice(kind, K))]
    /\ missed' = IF kind = "unmarked" THEN Untold(Replicas, K) ELSE missed
    /\ UNCHANGED <<items, inbox, conn, gone>>

\* The answer to COMMIT is lost: the caller sees an error and invalidates nothing.
CommitLost(c, K, v) ==
    /\ "commit_lost" \in Faults
    /\ op[c].pc = "ready"
    /\ writes < MaxWrites
    /\ writes' = writes + 1
    /\ v \in {0, writes + 1}
    /\ db' = NewValue(K, v)
    /\ missed' = Untold(Replicas, K)
    /\ UNCHANGED <<items, op, inbox, conn, gone>>

\* invalidate and invalidateMulti, first half: the replica's own cache.
Invalidate(c) ==
    /\ op[c].pc = "invalidate"
    /\ items' = [items EXCEPT ![Home[c]] = CacheDelete(@, op[c].dirty)]
    /\ op' = [op EXCEPT ![c] = IF Distributed THEN [@ EXCEPT !.pc = "notify"] ELSE Ready]
    /\ missed' = IF Distributed THEN Told(Home[c], op[c].dirty)
                 ELSE [Untold(Replicas, op[c].dirty) EXCEPT ![Home[c]] = @ \ op[c].dirty]
    /\ UNCHANGED <<db, inbox, conn, writes, gone>>

\* InvalidateKeys: pg_notify reaches every connected listener, our own included.
\* Its error is ignored.
Notify(c) ==
    /\ op[c].pc = "notify"
    /\ \/ /\ inbox' = [r \in Replicas |-> IF conn[r] THEN Append(inbox[r], op[c].dirty)
                                          ELSE inbox[r]]
          /\ missed' = Untold({r \in Replicas \ {Home[c]} : ~conn[r]}, op[c].dirty)
       \/ /\ "notify_lost" \in Faults
          /\ inbox' = inbox
          /\ missed' = Untold(Replicas \ {Home[c]}, op[c].dirty)
    /\ op' = [op EXCEPT ![c] = Ready]
    /\ UNCHANGED <<db, items, conn, writes, gone>>

\* The key's time to live passes in the database: no cache hears of it.
Expire(k) ==
    /\ "expiry" \in Faults
    /\ db[k] # 0
    /\ db' = [db EXCEPT ![k] = 0]
    /\ missed' = Untold(Replicas, {k})
    /\ UNCHANGED <<items, op, inbox, conn, writes, gone>>

-----------------------------------------------------------------------------
(* Invalidator *)

processNotification(r) ==
    /\ inbox[r] # <<>>
    /\ items' = [items EXCEPT ![r] = CacheDelete(@, Head(inbox[r]))]
    /\ inbox' = [inbox EXCEPT ![r] = Tail(@)]
    /\ missed' = Told(r, Head(inbox[r]))
    /\ UNCHANGED <<db, op, conn, writes, gone>>

\* The listener's connection breaks, with what it had not delivered.
Disconnect(r) ==
    /\ "disconnect" \in Faults
    /\ conn[r]
    /\ conn' = [conn EXCEPT ![r] = FALSE]
    /\ inbox' = [inbox EXCEPT ![r] = <<>>]
    /\ missed' = Untold({r}, UNION {inbox[r][i] : i \in DOMAIN inbox[r]})
    /\ UNCHANGED <<db, items, op, writes, gone>>

\* LISTEN again; the cache keeps what it has.
reconnect(r) ==
    /\ ~conn[r]
    /\ conn' = [conn EXCEPT ![r] = TRUE]
    /\ UNCHANGED <<db, items, op, inbox, writes, missed, gone>>

-----------------------------------------------------------------------------

\* Somebody may still answer, or cache, the value v of k.
Held(k, v) ==
    \/ \E r \in Replicas : items[r][k].v = v
    \/ \E c \in Clients : op[c].pc = "fill" /\ op[c].key = k /\ op[c].v = v

Older(n) == IF n <= TTL + MaxFetch THEN n + 1 ELSE n

Tick ==
    /\ \A c \in Clients : op[c].pc = "fill" => op[c].age < MaxFetch
    /\ items' = [r \in Replicas |-> [k \in Keys |->
                    [v |-> items[r][k].v,
                     life |-> IF items[r][k].life = -1 THEN -1 ELSE items[r][k].life - 1]]]
    /\ op' = [c \in Clients |-> IF op[c].pc = "fill" THEN [op[c] EXCEPT !.age = @ + 1] ELSE op[c]]
    /\ gone' = [k \in Keys |-> [v \in Values |->
                    IF v \notin {0, db[k]} /\ Held(k, v) THEN Older(gone[k][v]) ELSE 0]]
    /\ UNCHANGED <<db, inbox, conn, writes, missed>>

ClientStep(c) ==
    \/ \E k \in Keys : Get(c, k)
    \/ \E K \in SUBSET Keys \ {{}}, kind \in Kinds, v \in Values : Commit(c, K, kind, v)
    \/ \E K \in SUBSET Keys \ {{}}, v \in Values : CommitLost(c, K, v)
    \/ Fill(c) \/ Invalidate(c) \/ Notify(c)

ReplicaStep(r) == cleanup(r) \/ processNotification(r) \/ Disconnect(r) \/ reconnect(r)

Next ==
    \/ \E c \in Clients : ClientStep(c)
    \/ \E r \in Replicas : ReplicaStep(r)
    \/ \E k \in Keys : Expire(k)
    \/ Tick

Spec == Init /\ [][Next]_vars

\* Time passes and requests that were started go on; no fault has to happen, no
\* client has to send, and the notifications need not arrive.
CacheFairness ==
    /\ WF_vars(Tick)
    /\ \A c \in Clients : WF_vars(Fill(c)) /\ WF_vars(Invalidate(c)) /\ WF_vars(Notify(c))

FairSpec == Spec /\ CacheFairness

-----------------------------------------------------------------------------
(* Properties *)

Requests == [pc : {"ready", "fill", "invalidate", "notify"}, key : Keys \cup {NoKey}, v : Values,
             age : 0..MaxFetch, dirty : SUBSET Keys]

\* Every map, request and queue has its type.
TypeOK ==
    /\ db \in [Keys -> Values]
    /\ items \in [Replicas -> [Keys -> Entry]]
    /\ op \in [Clients -> Requests]
    /\ inbox \in [Replicas -> Seq(SUBSET Keys)]
    /\ conn \in [Replicas -> BOOLEAN]
    /\ writes \in Values
    /\ missed \in [Replicas -> SUBSET Keys]
    /\ gone \in [Keys -> [Values -> Age]]

\* A replica would answer a GET of k with something else than the database.
Stale(r, k) == Live(items[r][k]) /\ items[r][k].v # db[k]

\* Whatever is lost, delayed or missed (a fill with a value read before a write, a
\* NOTIFY that fails, a listener that is down, a key that expires, an unmarked
\* write), a cached value is never answered for longer than the cache's time to
\* live, and the time its fill took, after it was overwritten.
BoundedStaleness ==
    \A r \in Replicas, k \in Keys :
        Stale(r, k) => gone[k][items[r][k].v] <= TTL + MaxFetch

\* Cache.Set skips new entries at capacity, so the map never outgrows MaxSize.
WithinCapacity == MaxSize > 0 => \A r \in Replicas : Size(items[r]) <= MaxSize

\* An invalidation of k is still on its way to r.
Pending(r, k) ==
    \/ \E c \in Clients :
          /\ k \in op[c].dirty
          /\ op[c].pc = "invalidate" \/ (op[c].pc = "notify" /\ Home[c] # r)
    \/ \E i \in DOMAIN inbox[r] : k \in inbox[r][i]

\* A cache is wrong about a key only for a reason: the invalidation is on its way,
\* or nothing tells this replica of the change (a fill that raced with a write, an
\* unmarked write, a lost commit answer or NOTIFY, a listener that was down, expiry
\* in the database) and no later invalidation or fill of the key has come.
CoherentUnlessMissed ==
    \A r \in Replicas, k \in Keys : Stale(r, k) => Pending(r, k) \/ k \in missed[r]

\* Writes are finite, so from some moment on no replica answers with a stale value,
\* whatever was lost: time alone repairs the caches.
CachesConverge == <>[](\A r \in Replicas, k \in Keys : ~Stale(r, k))

=============================================================================
