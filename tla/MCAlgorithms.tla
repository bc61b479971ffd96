---------------------------- MODULE MCAlgorithms ----------------------------
(* Every behaviour is either a sequence of calls of the pure algorithms or   *)
(* one iteration of the SCAN family beside other clients.                    *)
EXTENDS Algorithms, Scan

VARIABLE suite

Numbers == -Pow(WordBits - 1)..(Pow(WordBits - 1) - 1)

\* Lists whose expired rows, if any, have live ones pushed at either end.
MCLists == UNION {{[i \in DOMAIN s |-> [v |-> s[i], live |-> i < from \/ i >= to]] : from, to \in 1..5} :
                     s \in BoundedSeq({"a", "b"}, 4)}

\* Rows of up to four elements, with and without gaps between their idx.
MCListRows == {{[idx |-> i, v |-> f[i]] : i \in DOMAIN f} :
                  f \in UNION {[I -> {1, 2}] : I \in {J \in SUBSET (-1..3) : Cardinality(J) \in 1..4}}}

\* Scores closer than the offset, as far apart as the offset, absorbing it and infinite.
MCZSets == {{[member |-> m, score |-> f[m]] : m \in DOMAIN f} :
               f \in UNION {[M -> {0, 1, 3, 200, Infinite}] : M \in SUBSET (1..3)}}

Ends == {[inf |-> -1, at |-> 0, open |-> FALSE], [inf |-> 1, at |-> 0, open |-> FALSE]}
MCScoreBounds == Ends \cup [inf : {0}, at : {0, 1, 3, 200}, open : BOOLEAN]
MCLexBounds == Ends \cup [inf : {0}, at : 1..3, open : BOOLEAN]
MCPositions == -5..5

MCWords == BoundedSeq({"a", "b", "*"}, 4) \cup BoundedSeq({"a", "%", "\\"}, 2)
MCPatterns == BoundedSeq({"a", "b", "*", "?"}, 4) \cup BoundedSeq({"a", "*", "?", "%", "_", "\\"}, 3)

MCByteStrings == BoundedSeq(0..(Pow(ByteBits) - 1), 2)
Sub(types, values, modes, widths, offsets) ==
    [type : types, signed : BOOLEAN, width : widths, offset : offsets, value : values, mode : modes]
MCSubcommands ==
    Sub({"GET"}, {0}, {"WRAP"}, 1..WordBits, 0..2)
    \cup Sub({"SET", "INCRBY"}, Numbers, {"WRAP", "SAT", "FAIL"}, 1..WordBits, 0..2)
\* Reads and writes of overlapping fields, one of them past the end.
MCBatches ==
    {<<a, b>> : a, b \in Sub({"GET"}, {0}, {"WRAP"}, {3}, {0, 5})
                         \cup Sub({"SET", "INCRBY"}, {-3, 3}, {"WRAP", "FAIL"}, {2}, {1, 2})}

vars == <<suite, call, scanVars>>

\* A suite that is not run stays as it is.
NoScan ==
    /\ rows = <<>> /\ typeOf = [i \in Items |-> CHOOSE t \in Types : TRUE]
    /\ scan = [at |-> "finished", cursor |-> 0, count |-> CHOOSE c \in Counts : TRUE,
               filter |-> NoFilter, all |-> <<>>, filtered |-> <<>>]
    /\ seen = <<>> /\ steady = {} /\ changes = 0 /\ backward = FALSE /\ forward = FALSE

Init ==
    /\ AlgInit
    /\ \/ suite = "calls" /\ NoScan
       \/ suite = "scan" /\ ScanInit

CallStep == suite = "calls" /\ (Start \/ Finish) /\ UNCHANGED <<suite, scanVars>>
ScanStep == suite = "scan" /\ Call /\ UNCHANGED <<suite, call>>
ScanChange == suite = "scan" /\ Change /\ UNCHANGED <<suite, call>>

Next == CallStep \/ ScanStep \/ ScanChange

Spec == Init /\ [][Next]_vars

=============================================================================
