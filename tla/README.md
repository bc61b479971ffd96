# A TLA+ model of postkeys

Postkeys is a Redis-compatible server that keeps its data in PostgreSQL. This
directory models it in TLA+, checks it with TLC on small instances, and proves
part of it with TLAPS for every instance.

## The system

| Part | Source | What it does | Modules |
|---|---|---|---|
| SQL operations | `internal/storage/querier.go` | one function per command on `kv_meta` and six data tables | `Querier`, `Ops`, `Flush`; the pure parts in `Ranges`, `Bits`, `Glob` |
| Transactions, retries | `internal/storage/storage.go`, `transaction.go`, `internal/handler/handler.go`, `keys.go` | `withTx`/`execTx` for a command, `runTx` for EXEC and scripts, key locks, deadlock retries | `Storage`, `AtomicStore` |
| Expired-key cleanup | `internal/storage/storage.go` | removes expired and emptied keys | `Querier`, `Storage` |
| Lua scripts | `internal/handler/lua.go` | EVAL in one transaction, KEYS locked first | `Storage` |
| Command handlers | `internal/handler` | from command to operation, SCAN paging, score bounds | `Ops`, `Scan`, `Ranges` |
| Cache | `internal/cache` | GET results per replica, invalidated by writes and NOTIFY | `Cache` |
| Pub/sub | `internal/pubsub`, `handler_pubsub.go` | subscription tables, LISTEN/NOTIFY delivery | `Hub`, `Sessions` |
| Blocking pops | `internal/listnotify`, `handler_ops.go` | BLPOP and friends wait for a push | `BlockingPop` |
| Leader election | `internal/leader` | a Kubernetes Lease and a pod label | `Election` |
| Server | `internal/server`, `cmd/server` | connections, MULTI queues, drain, startup, shutdown | `Sessions`, `Shutdown` |
| RESP, HyperLogLog estimate, config, metrics, tracing | | sequential data handling | not modelled |

A client's connection (`Sessions`) hands a command to a handler, which runs it as
a transaction (`Storage`), possibly through the cache (`Cache`). Writes are
announced by NOTIFY: to the caches, to blocked pops (`BlockingPop`), and, for
PUBLISH, to the hubs. With several replicas one leads (`Election`).

The `MC*` modules instantiate the others for TLC; the `*Proofs` modules hold the
theorems.

## The storage model

**Querier** gives each SQL operation as a function on the state of a key: its
`kv_meta` row and its rows in the data tables. Type and expiry are stored twice,
in `kv_meta` and in every row, and the operations keep them in step or not as
their statements do (a push resets `kv_meta` and leaves old rows alone, EXPIRE
updates both but not for a HyperLogLog, PERSIST updates all six tables). `t` is
`NOW()`, fixed at BEGIN; `g` is Go's clock.

**Ops** says how each of 54 write commands runs: which key locks it takes, what it
reads before them (`Reads`), what it refuses or skips on that reading, and where it
breaks the transaction half way (`Breaks`: COPY).

**Storage** runs programs (a command, an EXEC, a script) concurrently:

| Action | Code |
|---|---|
| `Begin` | `execTx`, `BeginTx` |
| `Lock` | `lockKey`, `lockKeys`, `LockKeys`; one key at a time, sorted |
| `Read` | the statements an operation issues before its key lock |
| `Write` | the statements after it |
| `Commit`, `CommitLost`, `Abort` | `Commit`; a connection lost after it; `Rollback` |
| `DeadlockVictim` | SQLSTATE 40P01, `withTx` and `runTx` retries |
| `SweepScan`, `SweepLock`, `SweepDelete`, `SweepAbort` | `deleteExpiredKeys` |

**Flush** adds FLUSHDB: seven TRUNCATEs, each its own transaction, waiting for the
transactions that use the table; it may fail between two of them.

PostgreSQL is external and modelled by what the code uses: READ COMMITTED
visibility (`View`, `Merge`), advisory locks held to the end of the transaction,
row locks, SKIP LOCKED, deadlock detection. `ledger` and `log` are ghosts: they
count items pushed and popped, and list committed programs.

**AtomicStore** is the abstract specification: a program takes effect in one
step. `log` makes it see a lost update, which leaves `db` unchanged.

Abstractions:

- keys are numbers in `sort.Strings` order and `hashtext` does not collide;
- a push carries one value; a DEL of two keys is two deletions in one transaction;
- the SELECTs an operation issues before its lock (type check and value, or the two
  sources of a *STORE) are one `Read`;
- an operation that is one autocommitted statement is a transaction of its own;
- a statement that waited for a row is evaluated again when it goes on (a ZADD that
  waited for a ZREM of its member would really update nothing);
- the `cleanupBatch` limit is not reached, and the sweeper's deletes are one step,
  under its key locks;
- GETSET selects the old value before its lock; only the reply shows it, and replies of
  commands are not modelled here;
- an empty HyperLogLog has no row, and its registers are a set;
- *STORE and BITOP have two sources; BITOP is OR on one bit (all of it in `Bits`),
  ZUNIONSTORE and ZINTERSTORE add with weights 1, and ZRANGESTORE stores the whole
  range (ranges in `Ranges`);
- LINSERT's shift of several rows, which can fail, is in `Ranges`; in `Storage` the
  failure is `Abort`.

## The cache model

**Cache** has replicas, each with its map, and clients connected to them. A value
is the number of the write that gave it.

| Action | Code |
|---|---|
| `Get`, `Fill` | a miss of `CachedStore.Get`: the SELECT, and the `cache.Set` after it |
| `Commit`, `CommitLost` | a write of `CachedStore` or `CachingTx.Commit`; its answer lost |
| `Invalidate`, `Notify` | `invalidate`, `invalidateMulti`, `flush`: own cache, then `pg_notify` |
| `processNotification`, `Disconnect`, `reconnect` | `Invalidator` |
| `cleanup`, `Tick`, `Expire` | the cleanup loop, time, expiry in the database |

A transaction marks all keys it wrote, or nothing for a write without a wrapper in
`CachingTx` (ZRANGESTORE). `missed` and `gone` are ghosts: the keys with a change a
replica's cache was never told of, or was told of before a late fill, and how long
ago a value that is still held was overwritten. `MaxFetch` bounds the time between
SELECT and fill. Cache exclusion patterns (`shouldCache`) only remove keys from
consideration.

## The election model

**Election** runs the loop of each pod in the steps at which other pods can
interleave: read the lease (`getLease`), decide (`attempt`), conditional update
(`updateLease`, `updateLost`, `conflict`), the rest of `tick` (`outcome`), the label
(`setLeaderLabel`, `labelFails`), and `Stop` with `surrender`. Any call may fail.
`Crash` and `Restart` are Kubernetes': a restarted container keeps the pod and its
label, a stopped pod is replaced by a new one.

Times are ages capped where the code cannot tell them apart, so no clock needs a
bound. Tickers are punctual and no tick outlives the context `retryPeriod` gives it.
An update whose context has ended is not applied later. `Ahead` is the clock skew.

## The blocking-pop model

**BlockingPop** runs the loop of `blockingPop` and `blockingMPop` (`pop`,
`WaitForKeys`, `wakeup`), pushes that notify after their commit (`lpush`,
`NotifyPush`) or before it inside EXEC (`execPush`, `execEnd`), and the listener
(`notifySubscribers` copies the registered channels, `send` fills them; `disconnect`,
`reconnect`). A channel that was deregistered while the copy is held gets nothing
that matters: the waiter has a new one. `idle` is a ghost, the time a call has been
blocked beside an element. Time may pass between the deadline check and the wait.

## The connection model

**Hub** gives the subscription tables as functions: two registries (channels,
patterns), each with its two maps. **Sessions** composes the hubs of several servers
with the connections: `handleConnection` (one action per kind of command, from
`Refuse`, `WrongArgs` and `HandleMulti` to `HandleSubscribe`, `Publish` and `Reset`; then
`WriteResponses` under the writer lock; `Leave` in two steps, as
`RemoveSubscriber` has two critical sections) and `listenLoop` (`deliverToChannel`,
`deliverToPatterns`, `SendPubSubMessage`, `SendEnds`, `ListenerDropped`,
`reconnect`). Clients may stop reading, resume and hang up; the listener's
connection may break and lose what it has not received. `got`, `told`, `late`,
`acked` and `lost` are histories. The glob match of a pattern is a relation here and
an algorithm in `Glob`.

**Shutdown** is the life of one process: `retryStartup` for each part, the startup
watcher, signals (a channel with one slot), `ShutdownBegins`, `CloseListener`, the
pause, `StopHub`, `DrainConnections` (or `Stop`), the wait for the handlers, `Cancel`,
`CloseBackend`, the 30 s limit and the second signal; the accept loop, the handlers
with `watchDisconnect` and its deadline that is restored in two steps
(`ReadDrainDeadline`, `RestoreDeadline`), and the hub's listener. Timers are modelled
by order: a step that waits for seconds is enabled only when the steps that need no
time are done. The 30 s limit passes only while main waits for a hub behind a stalled
reply, or for a connection its client holds: not while a command runs, nor while the
hub sends to one stalled subscriber after another (`hub.go:567`), where the code's
limit may pass too. TLS and the debug log are left out.

## The algorithms

**Ranges** (index, score and lexicographic ranges, LPOS, LINSERT's shift,
ZRANGESTORE), **Glob** (the three pattern matchers) and **Bits** (GETBIT to BITFIELD,
with bytes of `ByteBits` and int64 as `WordBits` bits, wrap-around included) are the
pure parts as operators. A list is a sequence of rows, each live or expired: LRANGE
and LPOS count all of them, LINDEX only the live ones. A score is an integer on a
scale on which the 1e-9 added to an exclusive bound is 2 (`Epsilon`), scores from
`Absorbing` on absorb it, as doubles from 2^24 on do, `Huge` is the 1e308 some
commands take for infinity, and `Infinite` is infinity. `wrapBitfield` is the code's
two loops; how long they take is not modelled (a narrow signed field and a large
increment need very many turns). **Algorithms** calls them on every input of given sets and
compares the commands with each other and with reference definitions. **Scan** is
the SCAN family, whose cursor is an index into a collection that is read anew on
each call while other clients change it; SCAN with TYPE reads each key's type in a
statement of its own.

## Runs

| Run | Module | Shows |
|---|---|---|
| `storage` | `MCWorkloads` | commands that lock before reading, EXEC and declared scripts (all types, errors half way) refine `AtomicStore`; a live `SET NX EX` lease is never taken over; a sound key is never swept; `kv_meta` and rows agree under the commands on whole values; locks exclude each other, come before writes, and locked keys do not change |
| `races` | `MCWorkloads` | multi-key writes, competing pops, typed and untyped writers, FLUSHDB: no cycle of waits; no element handed out twice, except a sorted-set member that ZPOPMIN or ZPOPMAX selected before another pop deleted it; two visible types only where one of the commands in `Mixes` (or a write during FLUSHDB) has been, FLUSHDB leaves nothing that was not written meanwhile |
| `live` | `MCStorage` | scripts with undeclared keys deadlock, are retried, and every command is answered; expired keys go |
| `incr` (violation) | `MCStorage` | INCR reads before it locks: two acknowledged increments leave 1 |
| `cache` | `MCCache` | a live entry is right, or its invalidation is on its way, or it was missed; staleness is bounded by the time to live plus a fill; caches converge after the last write |
| `leader` | `MCElection` | never two leaders; a leader again and again |
| `leader_routed` (violation) | `MCElection` | a label that was not removed, or survived a crash: two pods get traffic |
| `blocking` | `MCBlockingPop` | a blocked pop without a timeout is served within a poll interval, whatever notification is early, late or lost |
| `blocking_timeout` (violation) | `MCBlockingPop` | a deadline that passes between its check and the wait leaves a call without a timer |
| `pubsub` | `MCSessions` | messages arrive in order, once, and in the end unless a handler of the server is stuck writing; the two sides of the tables agree; the counts in the replies add up; at most one late message per name; an EXEC that answers results (it may answer an error) answers what was QUEUED; closed connections are forgotten |
| `shutdown` | `MCShutdown` | a signal always ends the process; gracefully, unless a connection is held (`Held` says how); no command loses its context or pool under a graceful end |
| `algorithms` | `MCAlgorithms` | the range, pattern and bit commands agree with their definitions and with each other, with the exceptions the properties name; a SCAN misses or repeats only when something was removed, added or moved |

`MCWorkloads` chooses one of several workloads at the start, each a set of programs
with its own bounds, so that one run covers several kinds of clients; `MCSessions`
and `MCCache` do the same. In `storage`, commands that read before they lock appear
inside EXEC only: on their own they are not atomic, as `incr` shows for one of them.

`leader` has no slack: a leader may hold on until `renewDeadline` plus two
`retryPeriod`s after its `renewTime` (the renewal's latency, and the wait for the
next tick and its call), which leaves one unit for the clocks. The run scales the
code's 15, 10 and 2 seconds to 5, 2 and 1, with the same margin: 15 = 10 + 2 * 2 + 1
and 5 = 2 + 2 * 1 + 1. Without fairness TLC also finishes with 15, 10 and 2 (1.8
million states, no error), and finds two leaders with 14 when the margin assumption
is left out. A leader that is surrendering is not counted: `surrender` releases the
lease before it clears `isLeader`.

Bounds:

- Storage: two clients are what a race of two transactions needs, with the sweeper
  as a third party; 2 to 4 programs (`begin` of a workload) give a setup command and
  a race; time up to 1 to 3 lets a key be set, expire and be renewed; `MaxRetries` 1
  tells a retry from giving up; `IntMax` 3 makes integer wrap-around reachable.
  `Clients` is symmetric except in `live`.
- Cache: two replicas and two clients give one race on each side; `MaxWrites` 2 lets
  a value be cached, overwritten and overwritten again or deleted; `TTL` 1 and
  `MaxFetch` 1 let an entry expire while a fill is under way; with two keys and
  `MaxSize` 1 the map is full at times.
- Election: two pods, one crash or shutdown (`MaxFaults`), any number of failing
  calls. Blocking pops: two waiters on two keys, two pushes, two notifications.
- Sessions: two clients; two messages, so that order and repetition can go wrong; one
  listener that breaks; one client with every command and two queued commands.
- Shutdown: one connection that blocks and one that stops reading, one failure to
  start a part, two signals.
- Algorithms: lists of up to four rows, expired ones among them, positions -5 to 5,
  three members with five scores (closer than the offset, farther, absorbing it,
  infinite), words and patterns of up to four characters
  (backslash, % and _ among them), strings of two bytes of
  2 bits with words of 4 bits; three items and two changes for SCAN.

## Fairness

- `live`: every session's statements run; lock queues are first come first served,
  so a lock that keeps being released is granted (strong fairness on `Lock` and
  `Write`); the cleanup ticker never stops and does not fail every time. Nothing
  forces a client to send or a connection to break.
- `cache`, `blocking`, `blocking_timeout`: time passes and requests already started
  go on; nothing forces a notification or a reconnect.
- `leader`: time passes, loops go on, Kubernetes restarts what went down, and the API
  server does not fail every read or every update for ever.
- `pubsub`: goroutines that can run do run; clients owe nothing.
- `shutdown`: the same, PostgreSQL answers at last (`MaxFailures`), a mutex does not
  starve the hub's goroutine and clients cannot put off the 30 s limit (strong
  fairness on both).

Deadlock is checked except in `pubsub` (all clients may have gone), `shutdown` (the
process ends) and `algorithms` (an iteration ends). Elsewhere `Quiet` and `LoadDone`
are the server waiting for requests.

## Proofs

`StorageProofs` proves, for all keys, clients, programs and bounds:

- `TypeCorrect`: `Spec => []TypeOK`, over all 54 commands;
- `MutualExclusion`: a key lock has one holder, sweeper included;
- `WritesAreCovered`: locks come before writes;
- `LocksProtect`: if every program is guarded (its keys are declared or locked
  by its operations), no one else commits a change to a locked key.

The inductive invariant is `IInv == TypeOK /\ LocksExclusive /\ LocksCoverWrites`.
Exclusion alone says nothing of who writes; `LocksCoverWrites` adds that what a
guarded transaction has staged lies under its locks, and with exclusion that gives
`LocksProtect`. Assumptions: keys are naturals, `IntMax` is positive, the sweeper
is not a client, programs are non-empty.

`TablesProofs` builds on it and says what the tables hold, for the same constants:

- `WholeValuesAgree`: `Spec => []MetaMatchesData`;
- `LeasesAreExclusive`: `Spec => LeaseExclusive`;
- `SweeperSpares`: `Spec => SweeperSparesAgreeing`;
- `FlushEmptiesAll`: `FlushSpec => FlushEmpties`, where `FlushSpec` runs FLUSHDB
  beside the transactions.

They need what the operations compute. `MetaNeedsLock` goes through all 54 and shows
that a `kv_meta` row changes only under its key's lock (the pops, removals and LSET,
which take no lock, leave it alone); `GoodOps`,
`GoodRename`, `GoodCopy` and `GoodSweep` show that each of the eleven whole-value
commands and the sweeper turn agreeing tables into agreeing tables. The inductive
invariant `TInv` adds to `IInv`, for each transaction in flight, that it began in the
past and has changed `kv_meta` only where it holds the lock (`MetaCovered`), that
what SETNX staged is for keys still free at its NOW() (`LeasesFree`), and, while only
whole values have been committed, that what a whole-value program staged started
from the committed rows and leaves them in agreement (`WholeStaged`). A commit of
somebody else cannot disturb this, since it holds other locks. For FLUSHDB, `FInv`
says that the tables truncated so far have no row of a key that nobody has changed
since FLUSHDB began.

`CacheProofs` proves, for all replicas, clients, keys, limits and faults:

- `CacheTypeCorrect`: `Spec => []TypeOK`;
- `StalenessIsBounded`: `Spec => []BoundedStaleness`;
- `CachesAreCoherent`: `Spec => []CoherentUnlessMissed`;
- `CapacityIsKept`: `Spec => []WithinCapacity`.

Staleness is not inductive: the invariant adds that a value being fetched was
overwritten no longer ago than its fetch has lasted (`FetchOK`), and that a cached
one was overwritten no longer ago than the fetch and the life it has used up
(`EntryOK`); `FreshOK` says that current values and values not written yet have not
begun to age. Coherence is inductive with the types: each step either leaves the
pending invalidation of a stale entry where it was, hands it on (request, inbox) or
records it as missed. Capacity (proved, not in a run) is kept because a map is finite and `Set` adds no new
entry at the limit.

`ElectionProofs` proves, for any number of pods and any timings with the margin
(`renewDeadline` a multiple of `retryPeriod`, and `leaseDuration` at least
`renewDeadline + 2 * retryPeriod` plus the skew of the clocks):

- `ElectionTypeCorrect`: `Spec => []TypeOK`;
- `OneLeader`: `Spec => []AtMostOneLeader`.

The invariant bounds the age of a leader's lease at each point of its loop (`Tenure`,
`LeaderGood`): it is at most some number n of periods plus the time since the tick
began, and the pod has noticed all of it but one period. While it waits,
n periods are at most `renewDeadline`; during a tick, one period more. So the lease
is never older than `renewDeadline + 2 * retryPeriod`, and nobody else finds it
expired. The rest says that a fresh copy is the stored lease (`CopyGood`) and that an
update that would be accepted finds no lease, its own or an expired one (`PutGood`).

`BlockingProofs` proves `BlockedCallsPoll`: `Spec => []BoundedWait`, for any clients,
timeouts and losses. The invariant `WaitInv` says that what a call has waited beside
an element and what is left of its timer are at most the poll interval together, and
that only a timeout leaves a blocked call without a timer.

The connection model is proved in two modules. `SessionsSteps` states the inductive
invariant and what each operation of the hub promises its callers (`HubWorks`: the
tables, the counts it reports, one client's routes), and shows that under these
promises every step keeps the invariant. `SessionsProofs` proves the promises from
the two maps of a registry (`HubContract`) and concludes, for any servers, finitely
many clients, any channels, patterns, match relation and workloads
(`ClientsAssumption`, `LoadsAssumption`: what a command names is among them):

- `SessionsTypeCorrect`: `Spec => []TypeInv`;
- `HubTablesAgree`: `Spec => []TablesAgree`;
- `AcksAddUp`: `Spec => []AcksCount`;
- `ExecAnswers`: `Spec => []ExecAnswersQueued`;
- `MessagesInOrderOnce`: `Spec => []InOrderOnce`;
- `OneMessageLate`: `Spec => []OneLateMessage`;
- `ModeFollows`: `Spec => ModeFollowsRoutes`.

The invariant `IInv` has a part for each server and one for each client. `KnowsOK`
carries the acknowledgements: what the client was told, together with the reply on
its way, is what the tables say. `ExecOK` does the same for the queue of a
transaction. `QueueOK` orders what a server has still to deliver, and `ReceiptsOK`
places a client's receipts before it: a target that is left has not had the message
in delivery under that route. `LateOK` says that the name of a late message is among
neither the client's routes nor the targets left, so no second one can follow before
it subscribes again; with `PlaceOK` (a client is only in its own server's tables, and
leaving empties them in two steps) these are inductive together.

`ShutdownProofs` proves, for any number of connections:

- `ShutdownTypeCorrect`: `Spec => []TypeInv`;
- `NoCommandCutShort`: `Spec => []CommandsOutlived`;
- `DeadlineReachesHandlers`: once `DrainConnections` is through, every handler that
  had registered before it, and is not about to put a deadline back, reads under the
  drain deadline.

The invariant follows main's order: after the pause no connection is between Accept
and its registration (`NoneArriving`), so the wait misses no handler and behind it
none runs (`HandlersGone`); only then does main cancel (`CancelledLate`).
`DeadlinesStand` needs that a handler is in the server's table exactly while it runs
(`OnlyServing`) and excludes the handlers between the two steps of
`watchDisconnect`'s stop function.

Only model-checked:

- liveness, which needs fairness and ENABLED: beyond the prover;
- the refinement of `AtomicStore` (`ProgramsAreAtomic`): its step runs a program to
  its end, a recursion over the operations, so it needs induction over data;
- `OneVisibleType`: it needs what all 54 operations leave in the six data tables,
  not only in `kv_meta`;
- `NoDeadlock` and `JobsNotDuplicated`: induction over wait-for paths and over
  bags, for which the library's theorems cannot be instantiated here;
- the algorithms and `Scan`: `Glob` and `Bits` are recursive, and what the others
  compute needs induction over data.

## Disagreements with the documentation

Three runs show one: `incr` (lockKey's comment), `leader_routed` (main README) and
`blocking_timeout` (WaitForKeys' comment); `PROJECT.json` quotes the lines. Of the other
behaviours that may surprise, the first group is part of the properties above, as
their exceptions; the second is what the definitions do.

- A GET that read before a write and fills after its invalidation leaves a stale
  entry, with one replica too (`missed`), although the main README promises "full
  cache coherency without distributed invalidation" behind a leader.
- The commands named in `Mixes` leave visible rows of a type `kv_meta` does not name;
  a write during FLUSHDB leaves rows without `kv_meta`.
- A list refilled after its expiry has expired and live rows side by side, and the
  sweeper deletes both (`storage.go:304`); `SweeperSparesAgreeing` excludes such keys.
- RESET leaves the pub/sub mode of a session on (`ModeFollowsRoutes`); a reply to a
  client that does not read has no time limit, and the hub waits behind it (`Stuck`).
- `parseScoreBound` adds 1e-9 to exclusive upper bounds too, so ZRANGE BYSCORE,
  ZREVRANGEBYSCORE and ZRANGESTORE include members at an exclusive maximum; ZRANGE
  REV reverses an ascending index range, which is neither ZREVRANGE nor ZRANGESTORE
  REV; ZRANGESTORE onto its source empties the key, although `interface.go:217` says
  it "copies the result of a ZRANGE-style query against src into dst".
- The glob loop misses matches in strings that hold a star, the cache's matcher knows
  one star, and KEYS takes % and _ as wildcards and a backslash as an escape. BITFIELD accepts u64.
- Exclusive score bounds are approximate: a large score absorbs the offset, so the
  bound includes it; a score inside the range but within 1e-9 of the bound is left out; and scores of
  +inf lie beyond the 1e308 that ZRANGEBYSCORE, ZCOUNT and ZREMRANGEBYSCORE take for
  +inf. `BoundReadsAgree` excludes these members.
- ZRANGESTORE ignores the offset when the count is not positive (`querier.go:2616`),
  where ZRANGEBYLEX skips it (`querier.go:2499`). BITPOS of 0 in a range of bytes
  that are all ones answers the bit after the range.
- ZPOPMIN and ZPOPMAX SELECT and then DELETE without a lock (`querier.go:2795`,
  `storage.go:1029`), so two of them may answer the same member; `JobsNotDuplicated`
  allows for the pops between the two statements.
- LINSERT fails at times when more than one row must be shifted.

And, in the definitions:

- LRANGE and LPOS see the expired rows of a list, LINDEX does not.
- INCR wraps around; RENAME k k loses the key.
- COPY does not delete an expired destination, so a string's INSERT fails; for other
  types it issues INSERTs while its own result set is open, which the driver
  refuses; COPY REPLACE of a HyperLogLog deletes the destination and copies nothing.
- LMPOP and ZMPOP choose the first key with live rows even if all are locked, skip
  those, and answer nil although the second key has elements.
- SINTER and SDIFF do not check later sources when the first is empty;
  ZUNIONSTORE, ZINTERSTORE, ZRANGESTORE and BITOP do not check their sources' types.
  On their own the *STORE commands read before they lock.
- A leader whose label could not be set is never labelled.

## Not modelled

- SET with XX, GET or KEEPTTL: the handler calls several operations in sequence, each
  a transaction of its own; outside EXEC they are as good as separate commands.
- The random picks (SRANDMEMBER, HRANDFIELD, RANDOMKEY) and the plain reads (GET,
  HGETALL, ...): they change nothing, and what they read is the committed state.
- The Lua interpreter, `redis.pcall`, and EVAL queued in MULTI: a script is the
  sequence of its writes.
- Argument parsing and reply formatting beyond score bounds and SCAN paging, the RESP
  protocol, binary-key encoding: sequential functions of byte strings.
- The HyperLogLog estimate: floating-point.
- The cleanup lock among replicas: there is one sweeper.
- Configuration, metrics, tracing, the debug log, TLS: no behaviour of the store
  depends on them.
- What the clients of a surrendering leader still read while the next one starts:
  this needs `Election`, `Cache` and `Shutdown` composed, with a shared clock.
