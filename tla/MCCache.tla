------------------------------ MODULE MCCache ------------------------------
(* Cache on small instances: who is connected where, and two cases in one     *)
(* state space: one key and every fault, or several keys and no fault.        *)
EXTENDS Cache, TLC

CONSTANTS r1, r2, c1, c2, k1

VARIABLE faulty     \* which of the two cases

OneEach == [c \in Clients |-> IF c = c1 THEN r1 ELSE r2]

AllFaults == {"expiry", "commit_lost", "notify_lost", "disconnect", "unmarked"}

\* Every change of the database will be invalidated, and every NOTIFY arrives.
NoFault ==
    /\ conn' = conn
    /\ db' # db => \E c \in Clients : op[c].pc = "ready" /\ op'[c].pc = "invalidate"
    /\ \A c \in Clients : (op[c].pc = "notify" /\ op'[c].pc = "ready") => inbox' # inbox

CaseInit == Init /\ faulty \in BOOLEAN

CaseNext ==
    /\ Next
    /\ UNCHANGED faulty
    /\ IF faulty THEN \A k \in Keys \ {k1} : db'[k] = 0 ELSE NoFault

CaseSpec == CaseInit /\ [][CaseNext]_<<vars, faulty>> /\ CacheFairness

=============================================================================
