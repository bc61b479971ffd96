-------------------------------- MODULE Scan --------------------------------
(***************************************************************************)
(* SCAN, SSCAN and ZSCAN: a client pages through a collection that other   *)
(* clients change.  Every call reads the whole collection, and the cursor  *)
(* is a position in it, not an element: nothing is kept between two calls. *)
(* SCAN with TYPE reads the type of every key in a statement of its own.   *)
(*                                                                         *)
(* The collection is the sequence of its elements in the order the query   *)
(* returns them.  ZSCAN's order is by score, and SCAN and SSCAN have no    *)
(* ORDER BY; in both a write of an element may move it.                    *)
(***************************************************************************)
EXTENDS Integers, FiniteSets, Sequences, SequencesExt, FiniteSetsExt

CONSTANTS
    Items,       \* keys of the database, or members of one set
    Types,       \* types of keys
    Counts,      \* values of COUNT
    MaxChanges   \* bound on the changes during one iteration

NoFilter == "any"

VARIABLES
    rows,     \* the collection, in query order
    typeOf,   \* the type of each item
    scan,     \* the iteration: cursor, COUNT and TYPE, the call in progress (at:
              \* between calls, reading types, finished)
    seen,     \* the elements returned, in order
    changes,  \* number of changes so far
    \* History: the items untouched since the first call, and whether some
    \* element left its place, or may have pushed another from its place.
    steady, backward, forward

scanVars == <<rows, typeOf, scan, seen, changes, steady, backward, forward>>

ScanInit ==
    /\ rows \in UNION {SetToSeqs(S) : S \in SUBSET Items}
    /\ typeOf \in [Items -> Types]
    /\ \E c \in Counts, f \in Types \cup {NoFilter} :
          scan = [at |-> "between", cursor |-> 0, count |-> c, filter |-> f,
                  all |-> <<>>, filtered |-> <<>>]
    /\ seen = <<>> /\ steady = ToSet(rows) /\ changes = 0
    /\ backward = FALSE /\ forward = FALSE

-----------------------------------------------------------------------------
(* Calls of the iterating client.                                            *)

pageEnd(start, count, n) == Min({start + count, n})

\* Mutant of nextCursor: the cursor skips an element.
nextCursorSkips(end, n) == IF end >= n THEN 0 ELSE end + 1

nextCursor(end, n) == IF end >= n THEN 0 ELSE end

\* The reply: the page from the cursor, and the next cursor.
Reply(filtered) ==
    LET n   == Len(filtered)
        end == pageEnd(scan.cursor, scan.count, n)
        next == IF scan.cursor >= n THEN 0 ELSE nextCursor(end, n)
    IN  /\ seen' = seen \o (IF scan.cursor >= n THEN <<>> ELSE SubSeq(filtered, scan.cursor + 1, end))
        /\ scan' = [scan EXCEPT !.cursor = next, !.all = <<>>, !.filtered = <<>>,
                                !.at = IF next = 0 THEN "finished" ELSE "between"]

\* SSCAN, ZSCAN, and SCAN without TYPE: one statement.
zScan ==
    /\ scan.at = "between" /\ scan.filter = NoFilter
    /\ Reply(rows)
    /\ UNCHANGED <<rows, typeOf, changes, steady, backward, forward>>

\* SCAN with TYPE: KEYS first,
scanOp ==
    /\ scan.at = "between" /\ scan.filter # NoFilter
    /\ scan' = [scan EXCEPT !.at = "types", !.all = rows]
    /\ UNCHANGED <<rows, typeOf, seen, changes, steady, backward, forward>>

\* then the type of each key, none for one that is gone,
keyType ==
    /\ scan.at = "types" /\ scan.all # <<>>
    /\ LET k == Head(scan.all)
       IN  scan' = [scan EXCEPT !.all = Tail(@),
                                !.filtered = IF k \in ToSet(rows) /\ typeOf[k] = scan.filter
                                             THEN Append(@, k) ELSE @]
    /\ UNCHANGED <<rows, typeOf, seen, changes, steady, backward, forward>>

\* then the page.
scanReply ==
    /\ scan.at = "types" /\ scan.all = <<>>
    /\ Reply(scan.filtered)
    /\ UNCHANGED <<rows, typeOf, changes, steady, backward, forward>>

Call == zScan \/ scanOp \/ keyType \/ scanReply

-----------------------------------------------------------------------------
(* Other clients.                                                            *)

Changing == scan.at # "finished" /\ changes < MaxChanges /\ changes' = changes + 1

Placed(s, i, p) == SubSeq(s, 1, p) \o <<i>> \o SubSeq(s, p + 1, Len(s))

\* A new element, anywhere in the order.
Insert(i) ==
    /\ Changing /\ i \notin ToSet(rows)
    /\ \E p \in 0..Len(rows) : rows' = Placed(rows, i, p)
    /\ typeOf' \in {[typeOf EXCEPT ![i] = t] : t \in Types}
    /\ steady' = steady \ {i} /\ forward' = TRUE
    /\ UNCHANGED <<scan, seen, backward>>

\* DEL, SREM, ZREM, or expiry.
Delete(i) ==
    /\ Changing /\ i \in ToSet(rows)
    /\ rows' = Remove(rows, i)
    /\ steady' = steady \ {i} /\ backward' = TRUE
    /\ UNCHANGED <<scan, typeOf, seen, forward>>

\* A write of an element that stays: its row moves.
Rewrite(i) ==
    /\ Changing /\ i \in ToSet(rows)
    /\ \E p \in 0..(Len(rows) - 1) : rows' = Placed(Remove(rows, i), i, p)
    /\ backward' = TRUE /\ forward' = TRUE
    /\ UNCHANGED <<scan, typeOf, seen, steady>>

Change == \E i \in Items : Insert(i) \/ Delete(i) \/ Rewrite(i)

-----------------------------------------------------------------------------

\* What the iteration asks for.
Wanted(i) == scan.filter \in {NoFilter, typeOf[i]}

\* An iteration during which no element was removed or moved returns every
\* wanted element that was there from the first call to the last, and one during
\* which none was added or moved returns none twice.  (A removal moves later
\* elements behind the cursor, scanOp's index into the list; an insertion moves
\* earlier ones past it.)
ScanExact ==
    /\ scan.at = "finished" /\ ~backward =>
           \A i \in steady : Wanted(i) => i \in ToSet(seen)
    /\ ~forward => IsInjective(seen)

=============================================================================
