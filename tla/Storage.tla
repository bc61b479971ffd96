------------------------------ MODULE Storage ------------------------------
(***************************************************************************)
(* Concurrent transactions on the tables: Store.withTx and execTx (a       *)
(* command on its own), Handler.runTx (MULTI/EXEC and EVAL) and the        *)
(* expired-key sweeper, over PostgreSQL at READ COMMITTED.                 *)
(*                                                                         *)
(* PostgreSQL is modelled by what the code relies on: a statement sees     *)
(* what is committed plus its own transaction's changes; an advisory lock  *)
(* is held until the transaction ends; a row a transaction has changed is  *)
(* locked until then, so another statement on it waits, or passes it over  *)
(* with SKIP LOCKED; a cycle of waits ends with an error for one waiter.   *)
(***************************************************************************)
EXTENDS Ops

CONSTANTS Clients,      \* connections with a command in progress
          Sweeper,      \* the cleanup goroutine that holds the cleanup lock
          Programs,     \* what a client may send
          MaxBegin,     \* bound: programs started in a behaviour
          MaxNow,       \* bound: clock
          MaxRetries    \* maxDeadlockRetries and maxExecRetries

ASSUME SweeperAssumption == Sweeper \notin Clients
ASSUME BoundsAssumption == MaxBegin \in Nat /\ MaxNow \in Nat /\ MaxRetries \in Nat

\* A command of its own, the commands queued by MULTI, or a script; `keys'
\* are the KEYS a script declares.
Program == [kind : {"direct", "exec", "script"}, ops : Seq(Op), keys : SUBSET Keys]
NoProgram == [kind |-> "direct", ops |-> <<>>, keys |-> {}]

ASSUME ProgramsAssumption ==
    Programs \subseteq Program /\ \A p \in Programs : p.ops # <<>>

VARIABLES db,       \* committed tables
          now,      \* clock
          tx,       \* the transaction of each client
          sweep,    \* the sweeper's transaction
          begun,    \* programs started so far (bound)
          ledger,   \* ghost: pushes committed minus pops answered, per item
          log       \* ghost: the programs committed, in commit order

vars == <<db, now, tx, sweep, begun, ledger, log>>

-----------------------------------------------------------------------------
(* State *)

NoItems == [x \in {} |-> 0]
Count(L, x) == IF x \in DOMAIN L THEN L[x] ELSE 0

NoChange == [k \in Keys |-> Absent]

Phases == {"idle", "declare", "read", "lock", "write", "commit"}

\* No transaction.  `old' and `new' hold, for a key the transaction has
\* written, the key before and after; `pre' is what its operation read first.
Idle == [pc |-> "idle", prog |-> NoProgram, i |-> 1, want |-> {}, held |-> {},
         pre |-> Absent, old |-> NoChange, new |-> NoChange,
         t |-> 0, tries |-> 0, pushed |-> {}, popped |-> {}]

Resting == [pc |-> "idle", cand |-> {}, held |-> {}, t |-> 0]

Init ==
    /\ db = [k \in Keys |-> Absent]
    /\ now = 1
    /\ tx = [c \in Clients |-> Idle]
    /\ sweep = Resting
    /\ begun = 0
    /\ ledger = NoItems
    /\ log = <<>>

-----------------------------------------------------------------------------
(* What PostgreSQL shows to a statement, and what it makes it wait for *)

\* A row the transaction did not write shows its latest committed version.
Merge(cur, old, new) ==
    [meta |-> IF new.meta = old.meta THEN cur.meta ELSE new.meta,
     rows |-> (cur.rows \ (old.rows \ new.rows)) \cup (new.rows \ old.rows)]

View(c) == [k \in Keys |-> Merge(db[k], tx[c].old[k], tx[c].new[k])]

\* Rows a transaction has deleted or updated, hence locked.
RowLocks(c) == [k \in Keys |-> tx[c].old[k].rows \ tx[c].new[k].rows]

LockedByOthers(c) ==
    [k \in Keys |-> UNION {RowLocks(d)[k] : d \in Clients \ {c}}]

CurrentOp(c) == tx[c].prog.ops[tx[c].i]

\* The tables as the current operation of c would leave them.
After(c) == Effect(CurrentOp(c), tx[c].pre, View(c), LockedByOthers(c), tx[c].t, now)

\* Who holds a row that the current operation of c must change.
RowHolders(c) ==
    LET V == View(c)
        N == After(c)
    IN  {d \in Clients \ {c} : \E k \in Keys :
            (V[k].rows \ N[k].rows) \cap RowLocks(d)[k] # {}}

\* Mutant of KeyHolders: the sweeper's lock is not the writers' lock.
KeyHoldersClients(k) == {d \in Clients : k \in tx[d].held}

KeyHolders(k) ==
    {d \in Clients : k \in tx[d].held} \cup (IF k \in sweep.held THEN {Sweeper} ELSE {})

\* Mutant of NextLock: the locks are taken in any order.
NextLockAny(c) == tx[c].want

\* lockKeys takes the locks of one call in sorted order.
NextLock(c) == {k \in tx[c].want : \A j \in tx[c].want : k <= j}

SweepResult ==
    [k \in Keys |-> IF k \in sweep.held THEN SweepKey(db[k], sweep.t) ELSE db[k]]

\* Who holds a row the sweeper must delete.
SweepRowHolders ==
    {c \in Clients : \E k \in Keys :
        (db[k].rows \ SweepResult[k].rows) \cap RowLocks(c)[k] # {}}

WaitsFor(p) ==
    IF p = Sweeper THEN IF sweep.pc = "delete" THEN SweepRowHolders ELSE {}
    ELSE IF tx[p].pc \in {"declare", "lock"}
         THEN UNION {KeyHolders(k) : k \in NextLock(p)} \ {p}
    ELSE IF tx[p].pc = "write" THEN RowHolders(p) ELSE {}

\* p waits, through a chain of waits, for itself.
Processes == Clients \cup {Sweeper}

InDeadlock(p) ==
    LET waits == [q \in Processes |-> WaitsFor(q)]
    IN  /\ waits[p] # {}
        /\ \E n \in 1..Cardinality(Processes) : \E path \in [0..n -> Processes] :
              /\ path[0] = p /\ path[n] = p
              /\ \A i \in 0..n-1 : path[i + 1] \in waits[path[i]]

-----------------------------------------------------------------------------
(* A client's transaction *)

\* Mutant of declaredKeys: nothing is locked up front.
declaredKeysNone(p) == {}

declaredKeys(p) ==
    CASE p.kind = "direct" -> {}
      [] p.kind = "exec"   -> UNION {commandKeys(p.ops[i]) : i \in DOMAIN p.ops}
      [] p.kind = "script" -> p.keys

\* Mutant of Start: LockKeys is forgotten.
StartUnlocked(p, tries) ==
    [Idle EXCEPT !.pc = "read", !.prog = p, !.t = now, !.tries = tries]

Start(p, tries) ==
    [Idle EXCEPT !.pc = IF declaredKeys(p) = {} THEN "read" ELSE "declare",
                 !.prog = p, !.want = declaredKeys(p), !.t = now, !.tries = tries]

Become(c, T) == tx' = [tx EXCEPT ![c] = T]

\* BEGIN: NOW() is fixed here for the whole transaction.
Begin(c, p) ==
    /\ tx[c].pc = "idle"
    /\ begun < MaxBegin
    /\ begun' = begun + 1
    /\ Become(c, Start(p, 0))
    /\ UNCHANGED <<db, now, sweep, ledger, log>>

\* pg_advisory_xact_lock of the next key, once nobody else holds it.
Lock(c) ==
    /\ tx[c].pc \in {"declare", "lock"}
    /\ \E k \in NextLock(c) :
        /\ KeyHolders(k) \subseteq {c}
        /\ LET rest == tx[c].want \ {k}
               next == IF tx[c].pc = "declare" THEN "read" ELSE "write"
           IN  Become(c, [tx[c] EXCEPT !.held = @ \cup {k}, !.want = rest,
                                       !.pc = IF rest = {} THEN next ELSE @])
    /\ UNCHANGED <<db, now, sweep, begun, ledger, log>>

Next1(T) == [T EXCEPT !.i = @ + 1, !.pre = Absent,
                      !.pc = IF T.i = Len(T.prog.ops) THEN "commit" ELSE "read"]

\* An error reply: execTx rolls back, EXEC goes on with the next command, and
\* redis.call ends the script, whose earlier writes runTx still commits.
OnError(T) ==
    CASE T.prog.kind = "direct" -> Idle
      [] T.prog.kind = "exec"   -> Next1(T)
      [] T.prog.kind = "script" -> [T EXCEPT !.pc = "commit", !.pre = Absent]

\* The statement before the key lock, for the operations that have one.
Read(c) ==
    LET op  == CurrentOp(c)
        V   == View(c)
        T   == tx[c]
    IN  /\ T.pc = "read"
        /\ \/ /\ readsFirst(op) /\ Refuses(op, V, T.t)
              /\ Become(c, OnError(T))
           \/ /\ readsFirst(op) /\ ~Refuses(op, V, T.t) /\ Skips(op, V, T.t)
              /\ Become(c, Next1(T))
           \/ /\ readsFirst(op) => ~Refuses(op, V, T.t) /\ ~Skips(op, V, T.t)
              /\ LET want == keyLocks(op) \ T.held
                 IN  Become(c, [T EXCEPT !.pre = IF readsFirst(op) THEN Reads(op, V, T.t) ELSE Absent,
                                         !.want = want,
                                         !.pc = IF want = {} THEN "write" ELSE "lock"])
        /\ UNCHANGED <<db, now, sweep, begun, ledger, log>>

\* The writing statements.  A key the operation leaves as it is stays unstaged.
Write(c) ==
    LET T    == tx[c]
        op   == CurrentOp(c)
        V    == View(c)
        N    == After(c)
        bad  == Fails(op, V, T.t)
        W    == {k \in Keys : N[k] # V[k]}
        done == [T EXCEPT
                   !.old = [k \in Keys |-> IF k \in W THEN db[k] ELSE @[k]],
                   !.new = [k \in Keys |-> IF k \in W THEN N[k] ELSE @[k]],
                   !.pushed = @ \cup ({T.i} \X Pushed(op, V)),
                   !.popped = @ \cup ({T.i} \X
                       {Item(r) : r \in Popped(op, T.pre, V, LockedByOthers(c), T.t)})]
    IN  /\ T.pc = "write"
        /\ RowHolders(c) = {}
        /\ Become(c, IF Breaks(op, V, T.t) THEN Idle
                     ELSE IF bad THEN OnError(done) ELSE Next1(done))
        /\ UNCHANGED <<db, now, sweep, begun, ledger, log>>

\* Each answered pop and committed push, item by item.
Tally(L, P, n) ==
    [x \in DOMAIN L \cup {p[2] : p \in P} |->
        Count(L, x) + n * Cardinality({p \in P : p[2] = x})]

Commit(c) ==
    /\ tx[c].pc = "commit"
    /\ db' = View(c)
    /\ log' = Append(log, tx[c].prog)
    /\ ledger' = Tally(Tally(ledger, tx[c].pushed, 1), tx[c].popped, -1)
    /\ Become(c, Idle)
    /\ UNCHANGED <<now, sweep, begun>>

\* The connection breaks after PostgreSQL committed: the client gets an error
\* that is not retryable, and no pop is answered.
CommitLost(c) ==
    /\ tx[c].pc = "commit"
    /\ db' = View(c)
    /\ log' = Append(log, tx[c].prog)
    /\ ledger' = Tally(ledger, tx[c].pushed, 1)
    /\ Become(c, Idle)
    /\ UNCHANGED <<now, sweep, begun>>

\* Any other database error, or the client's context ends: rollback.
Abort(c) ==
    /\ tx[c].pc # "idle"
    /\ Become(c, Idle)
    /\ UNCHANGED <<db, now, sweep, begun, ledger, log>>

\* Mutant of DeadlockVictim: the attempts are not counted.
DeadlockVictimForever(c) ==
    /\ InDeadlock(c)
    /\ Become(c, IF tx[c].tries < MaxRetries
                 THEN Start(tx[c].prog, tx[c].tries) ELSE Idle)
    /\ UNCHANGED <<db, now, sweep, begun, ledger, log>>

\* 40P01: rolled back and run again from the start, a bounded number of times.
DeadlockVictim(c) ==
    /\ InDeadlock(c)
    /\ Become(c, IF tx[c].tries < MaxRetries
                 THEN Start(tx[c].prog, tx[c].tries + 1) ELSE Idle)
    /\ UNCHANGED <<db, now, sweep, begun, ledger, log>>

-----------------------------------------------------------------------------
(* The sweeper: deleteExpiredKeys *)

SweepScan ==
    /\ sweep.pc = "idle"
    /\ LET cand == {k \in Keys : SweepCandidate(db[k], now)}
       IN  /\ cand # {}
           /\ sweep' = [Resting EXCEPT !.pc = "lock", !.cand = cand, !.t = now]
    /\ UNCHANGED <<db, now, tx, begun, ledger, log>>

\* pg_try_advisory_xact_lock: keys in use are left for a later cycle.
SweepLock ==
    /\ sweep.pc = "lock"
    /\ LET free == {k \in sweep.cand : \A c \in Clients : k \notin tx[c].held}
       IN  sweep' = IF free = {} THEN Resting
                    ELSE [sweep EXCEPT !.pc = "delete", !.cand = {}, !.held = free]
    /\ UNCHANGED <<db, now, tx, begun, ledger, log>>

\* The deletes re-check their conditions on the data as it is now.
SweepDelete ==
    /\ sweep.pc = "delete"
    /\ SweepRowHolders = {}
    /\ db' = SweepResult
    /\ sweep' = Resting
    /\ UNCHANGED <<now, tx, begun, ledger, log>>

SweepAbort ==
    /\ sweep.pc # "idle"
    /\ sweep' = Resting
    /\ UNCHANGED <<db, now, tx, begun, ledger, log>>

-----------------------------------------------------------------------------

Tick ==
    /\ now < MaxNow
    /\ now' = now + 1
    /\ UNCHANGED <<db, tx, sweep, begun, ledger, log>>

\* No request in progress and no more to come: the server waits.
Quiet ==
    /\ begun = MaxBegin
    /\ \A c \in Clients : tx[c].pc = "idle"
    /\ UNCHANGED vars

TxStep(c) ==
    \/ Lock(c) \/ Read(c) \/ Write(c) \/ Commit(c)
    \/ CommitLost(c) \/ Abort(c) \/ DeadlockVictim(c)

ClientStep(c) == (\E p \in Programs : Begin(c, p)) \/ TxStep(c)

SweepStep == SweepScan \/ SweepLock \/ SweepDelete \/ SweepAbort

Next == (\E c \in Clients : ClientStep(c)) \/ SweepStep \/ Tick \/ Quiet

Spec == Init /\ [][Next]_vars

\* PostgreSQL runs every session and, as its lock queues are first come first
\* served, grants a lock that keeps being released.  The cleanup ticker never
\* stops, and its transaction does not fail every time.  Clients need not send
\* anything, and nothing has to fail.
Fairness ==
    /\ \A c \in Clients :
        /\ WF_vars(Read(c)) /\ WF_vars(Commit(c)) /\ WF_vars(DeadlockVictim(c))
        /\ SF_vars(Lock(c)) /\ SF_vars(Write(c))
    /\ WF_vars(SweepScan) /\ SF_vars(SweepLock) /\ SF_vars(SweepDelete)
    /\ WF_vars(Tick)

FairSpec == Spec /\ Fairness

-----------------------------------------------------------------------------
(* Properties *)

Transaction ==
    [pc : Phases, prog : Program, i : Nat \ {0}, want : SUBSET Keys, held : SUBSET Keys,
     pre : KeyState, old : [Keys -> KeyState], new : [Keys -> KeyState],
     t : Nat, tries : 0..MaxRetries,
     pushed : SUBSET (Nat \X Int), popped : SUBSET (Nat \X Int)]

Cleanup == [pc : {"idle", "lock", "delete"}, cand : SUBSET Keys, held : SUBSET Keys, t : Nat]

\* Every table, transaction and clock has its type; in particular no
\* operation of querier.go leaves a row or a kv_meta row malformed.
TypeOK ==
    /\ db \in [Keys -> KeyState]
    /\ now \in Nat
    /\ tx \in [Clients -> Transaction]
    /\ sweep \in Cleanup
    /\ begun \in Nat
    /\ log \in Seq(Program)

\* lockKey, lockKeys and the sweeper's try-lock: the advisory lock of a key has
\* one holder.
LocksExclusive ==
    /\ \A c, d \in Clients : c # d => tx[c].held \cap tx[d].held = {}
    /\ \A c \in Clients : tx[c].held \cap sweep.held = {}

\* A program whose every operation runs under the locks of the keys it uses,
\* declared up front or taken by the operation itself.
Guarded(p) ==
    \A i \in DOMAIN p.ops : commandKeys(p.ops[i]) \subseteq declaredKeys(p) \cup keyLocks(p.ops[i])

\* A transaction in phase pc of operation i holds the locks it should.
Covered(T) ==
    /\ T.pc = "idle" => T = Idle
    /\ T.pc # "idle" => T.prog \in Programs
    /\ T.pc \in {"declare", "read", "lock", "write"} => T.i \in DOMAIN T.prog.ops
    /\ T.pc = "declare" => declaredKeys(T.prog) \subseteq T.held \cup T.want
    /\ T.pc \in {"read", "lock", "write", "commit"} => declaredKeys(T.prog) \subseteq T.held
    /\ T.pc = "lock" => keyLocks(T.prog.ops[T.i]) \subseteq T.held \cup T.want
    /\ T.pc = "write" => keyLocks(T.prog.ops[T.i]) \subseteq T.held
    /\ Guarded(T.prog) => \A k \in Keys : T.old[k] # T.new[k] => k \in T.held

\* Locks come before writes: a transaction past its LockKeys holds every key it
\* declared, one at its writes holds the operation's keys, and a program that
\* is guarded has changed no key whose lock it does not hold.
LocksCoverWrites == \A c \in Clients : Covered(tx[c])

\* What lockKey is for (querier.go, "serializes all concurrent write operations
\* on the same key"): between a transaction's lock and its end, nobody else
\* commits a change to the key.
LockedKeysStable ==
    [][\A k \in Keys : db'[k] # db[k] =>
          /\ \A c \in Clients : k \in tx[c].held => tx'[c].pc = "idle"
          /\ k \in sweep.held => sweep'.pc = "idle"]_vars

\* Deadlocks between key locks cannot arise when every transaction takes its
\* locks in key order (EXEC up front, DEL and MSET sorted, the sweeper never
\* waiting), so no client sees SQLSTATE 40P01.
NoDeadlock == \A p \in Processes : ~InDeadlock(p)

\* kv_meta and the data tables tell the same story about a key: a key without
\* a kv_meta row has no rows, and otherwise all of its rows are in the table of
\* its type and expire together with it.
TablesAgree(S) ==
    IF S.meta = NoMeta THEN S.rows = {}
    ELSE S.rows # {} /\ \A r \in S.rows : r.t = S.meta.type /\ r.exp = S.meta.exp

Ops(p) == {p.ops[i] : i \in DOMAIN p.ops}

\* The writers of whole values, and the commands that only move an expiry.
WholeValue == {"SET", "SETNX", "GETEX", "GETDEL", "EXPIRE", "EXPIREAT", "PERSIST",
               "RENAME", "DEL", "MSET", "COPY"}

\* As long as only these commands and the sweeper have written, the two copies
\* of type and expiry are equal in every committed state.
MetaMatchesData ==
    (\A n \in DOMAIN log : \A op \in Ops(log[n]) : op.cmd \in WholeValue)
        => \A k \in Keys : TablesAgree(db[k])

\* SET NX EX as a lease: committing a SETNX never changes a key that is alive
\* at the commit, however the holders' expiry, renewals, deletes and the
\* sweeper interleave with it.
LeaseExclusive ==
    [][\A c \in Clients :
          (tx[c].pc = "commit" /\ tx'[c].pc = "idle" /\ db' # db
             /\ \A op \in Ops(tx[c].prog) : op.cmd = "SETNX")
          => \A k \in Keys : exists(db[k], now) => db'[k] = db[k]]_vars

\* deleteExpiredKeys: a cleanup commit removes nothing from a key that is alive
\* when the tables agree about it.  (A row that kept an expiry its key has lost
\* takes all the rows of its table with it.)
SweeperSparesAgreeing ==
    [][(sweep.pc = "delete" /\ sweep'.pc = "idle")
       => \A k \in Keys : (exists(db[k], now) /\ TablesAgree(db[k])) => db'[k] = db[k]]_vars

QueueRows(k) == {r \in db[k].rows : r.t \in {"list", "zset"}}

\* The programs so far that select members with ZPOPMIN or ZPOPMAX and delete
\* them in a second statement.
SelectingPops == {n \in DOMAIN log : \E op \in Ops(log[n]) : op.cmd \in {"ZPOPMIN", "ZPOPMAX"}}

\* Some program popped from a sorted set without the key's lock.
UnlockedZPop ==
    \E n \in DOMAIN log : \E op \in Ops(log[n]) :
        /\ op.cmd \in {"ZPOPMIN", "ZPOPMAX", "ZMPOPMIN", "ZMPOPMAX"}
        /\ ~(commandKeys(op) \subseteq declaredKeys(log[n]))

\* "Every pushed job must be popped exactly once by competing blocking workers":
\* an item is never in the queues, or answered to a client, more often than it
\* was pushed, whichever pops of lists compete, and ZMPOPs and locked ZPOPMINs
\* of sorted sets.  A ZPOPMIN or ZPOPMAX may answer a member that an unlocked
\* pop takes between its SELECT and its DELETE: each then hands out at most one
\* item once too often.
JobsNotDuplicated ==
    \A x \in {Item(r) : r \in UNION {QueueRows(k) : k \in Keys}} \cup DOMAIN ledger :
        Cardinality(UNION {{k} \X {r \in QueueRows(k) : Item(r) = x} : k \in Keys})
            <= Count(ledger, x) + IF UnlockedZPop THEN Cardinality(SelectingPops) ELSE 0

\* withTx and runTx always answer: waiting for locks, deadlocks and retries
\* included, no client is left hanging.
CommandsFinish == \A c \in Clients : tx[c].pc # "idle" ~> tx[c].pc = "idle"

\* What has expired does not stay: once a key is expired the sweeper removes it
\* or a writer revives it.
ExpiredKeysGo ==
    \A k \in Keys : (db[k].meta # NoMeta /\ Expired(db[k].meta.exp, now))
                    ~> ~(db[k].meta # NoMeta /\ Expired(db[k].meta.exp, now))

=============================================================================
