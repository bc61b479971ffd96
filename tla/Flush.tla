------------------------------- MODULE Flush -------------------------------
(***************************************************************************)
(* FLUSHDB beside the transactions of Storage: Store.FlushDB truncates the *)
(* tables one after the other, each TRUNCATE a statement of its own on the *)
(* pool that commits at once, and returns at the first error.  Commands    *)
(* that commit between two of them meet tables that are partly emptied.    *)
(***************************************************************************)
EXTENDS Storage

VARIABLE flush      \* the statement FLUSHDB is at, 0 when none is in progress;
                    \* whether one has run; ghost: the keys changed meanwhile

fvars == <<vars, flush>>

NoFlush == [at |-> 0, ran |-> FALSE, wrote |-> {}]

\* Mutant of flushTables: one data table is left out.
flushTablesFew == <<"string", "hash", "list", "set", "zset", "meta", "meta">>

\* kv_meta comes last.
flushTables == <<"string", "hash", "list", "set", "zset", "hyperloglog", "meta">>

Truncated(S, table) ==
    IF table = "meta" THEN [S EXCEPT !.meta = NoMeta]
    ELSE [S EXCEPT !.rows = {r \in @ : r.t # table}]

\* The transaction of c has not used a table yet, so a TRUNCATE, which needs the
\* table to itself, does not wait for it; the advisory locks c holds are no
\* obstacle.
Untouched(c) ==
    \/ tx[c].pc \in {"idle", "declare"}
    \/ tx[c].i = 1 /\ tx[c].pc = "read"
    \/ tx[c].i = 1 /\ tx[c].pc \in {"lock", "write"} /\ ~readsFirst(CurrentOp(c))

FlushBegin ==
    /\ ~flush.ran
    /\ flush' = [at |-> 1, ran |-> TRUE, wrote |-> {}]
    /\ UNCHANGED vars

FlushTruncate ==
    /\ flush.at # 0
    /\ \A c \in Clients : Untouched(c)
    /\ sweep.pc = "idle"
    /\ db' = [k \in Keys |-> Truncated(db[k], flushTables[flush.at])]
    /\ flush' = [flush EXCEPT !.at = IF @ = Len(flushTables) THEN 0 ELSE @ + 1]
    /\ UNCHANGED <<now, tx, sweep, begun, ledger, log>>

\* A statement fails or the server stops: what was truncated stays so.
FlushFails ==
    /\ flush.at # 0
    /\ flush' = [flush EXCEPT !.at = 0]
    /\ UNCHANGED vars

FlushStep == FlushBegin \/ FlushTruncate \/ FlushFails

\* The keys that a step of the others changes while FLUSHDB is at work.
Beside ==
    flush' = [flush EXCEPT !.wrote =
                  IF flush.at = 0 THEN @ ELSE @ \cup {k \in Keys : db'[k] # db[k]}]

FlushInit == Init /\ flush = NoFlush

FlushNext == (Next /\ Beside) \/ FlushStep

FlushSpec == FlushInit /\ [][FlushNext]_fvars

-----------------------------------------------------------------------------

\* FLUSHDB answers OK only when nothing is left in any table of the keys that
\* no other command changed while it ran, whatever was in progress.
FlushEmpties ==
    [][(flush.at = Len(flushTables) /\ FlushTruncate)
       => \A k \in Keys \ flush.wrote : db'[k] = Absent]_fvars

Committed == UNION {{[kind |-> log[n].kind, op |-> log[n].ops[i]] : i \in DOMAIN log[n].ops} :
                       n \in DOMAIN log}

\* RENAME carries the rows of one key to another.
Origins(k) == IF \E x \in Committed : x.op.cmd = "RENAME" THEN Keys ELSE {k}

\* Commands that can leave a key with visible rows of a type kv_meta does not
\* name: writers that never look at the type, PERSIST, which revives the expired
\* rows of every table, EXPIRE, which passes kv_hyperloglog over, LINSERT, which
\* finds its pivot in an expired list or one deleted since, and a typed writer on
\* its own, which looks before it locks.
Mixes(x, t) ==
    \/ x.op.cmd \in {"INCR", "SETRANGE", "BITFIELD", "APPEND", "GETSET", "ZINCRBY",
                       "RPOPLPUSH", "PERSIST", "LINSERT"}
    \/ x.op.cmd \in {"EXPIRE", "EXPIREAT"} /\ t = "hyperloglog"
    \/ x.kind = "direct" /\ WriterType(x.op.cmd) # "none"

\* No key answers to commands of two types at once: a visible row that is not of
\* the type kv_meta says belongs to a key that one of those commands, or a write
\* in the middle of a FLUSHDB, has touched.
OneVisibleType ==
    \A k \in Keys : \A r \in db[k].rows :
        (Unexpired(r.exp, now) /\ getKeyType(db[k], now) # r.t) =>
            \/ k \in flush.wrote
            \/ \E x \in Committed : Mixes(x, r.t) /\ commandKeys(x.op) \cap Origins(k) # {}

=============================================================================
