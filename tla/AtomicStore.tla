---------------------------- MODULE AtomicStore ----------------------------
(***************************************************************************)
(* What a Redis client expects of the store: a command, the commands       *)
(* of an EXEC, or a script, take effect in one step, all of them or none.  *)
(* Storage implements this for programs whose keys are all locked before   *)
(* they are read.                                                          *)
(***************************************************************************)
EXTENDS Ops

CONSTANTS Programs, MaxNow

VARIABLES db, now,
          log       \* the programs that took effect, in order

avars == <<db, now, log>>

Init == db = [k \in Keys |-> Absent] /\ now = 1 /\ log = <<>>

NobodyElse == [k \in Keys |-> {}]

\* An operation that nothing interrupts; st.on turns FALSE where a script stops.
StepOp(st, op, kind, t, g) ==
    LET D     == st.db
        wrong == readsFirst(op) /\ Refuses(op, D, t)
        skip  == readsFirst(op) /\ Skips(op, D, t)
        fails == wrong \/ (~skip /\ Fails(op, D, t))
    IN  IF ~st.on THEN st
        ELSE [db |-> IF wrong \/ skip THEN D
                     ELSE Effect(op, Reads(op, D, t), D, NobodyElse, t, g),
              on |-> ~fails \/ kind = "exec",
              ok |-> st.ok /\ ~fails]

\* The outcome of the program, with its start time t and clock readings g.
Run(p, D, t, g) ==
    LET run[i \in 0..Len(p.ops)] ==
            IF i = 0 THEN [db |-> D, on |-> TRUE, ok |-> TRUE]
            ELSE StepOp(run[i - 1], p.ops[i], p.kind, t, g[i])
    IN  run[Len(p.ops)]

\* A command that fails on its own changes nothing, and is no step.
Execute(p) ==
    /\ log' = Append(log, p)
    /\ \E t \in 1..now : \E g \in [DOMAIN p.ops -> t..now] :
          LET end == Run(p, db, t, g)
          IN  /\ p.kind = "direct" => end.ok
              /\ db' = end.db
    /\ UNCHANGED now

\* Removing what has expired, at any moment and for any of the keys.
Sweep ==
    /\ UNCHANGED <<now, log>>
    /\ \E K \in SUBSET Keys : \E t \in 1..now :
          db' = [k \in Keys |-> IF k \in K THEN SweepKey(db[k], t) ELSE db[k]]

Tick == now < MaxNow /\ now' = now + 1 /\ UNCHANGED <<db, log>>

Next == (\E p \in Programs : Execute(p)) \/ Sweep \/ Tick

Spec == Init /\ [][Next]_avars

=============================================================================
