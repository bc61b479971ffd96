---------------------------- MODULE MCWorkloads ----------------------------
(* Storage under one of several workloads, chosen at the start: the programs *)
(* its clients send, how many, how far the clock runs, and whether FLUSHDB    *)
(* is sent too.                                                              *)
EXTENDS MCStorage, Flush

CONSTANT Workloads

VARIABLE load

Workload(programs, begin, time) ==
    [programs |-> programs, begin |-> begin, time |-> time, flush |-> FALSE]

AtomicLoads == {Workload(LeasePrograms, 3, 3), Workload(LockFirstPrograms, 3, 2),
                Workload(ExecPrograms, 3, 2), Workload(ExecMorePrograms, 2, 2),
                Workload(StorePrograms, 2, 2), Workload(RefillPrograms, 3, 3)}

RaceLoads == {Workload(MixedPrograms, 4, 1), Workload(QueuePrograms, 4, 1),
              Workload(JobPrograms, 4, 1), Workload(ZPopPrograms, 3, 1), Workload(TypedPrograms, 3, 3),
              Workload(MixingPrograms, 2, 2), Workload(ManyPrograms, 3, 2),
              [Workload(FlushPrograms, 3, 1) EXCEPT !.flush = TRUE]}

AtomicPrograms == UNION {L.programs : L \in AtomicLoads}
RacePrograms == UNION {L.programs : L \in RaceLoads}

LoadInit == FlushInit /\ load \in Workloads

\* A step of Storage that the workload allows.
StorageStep ==
    \/ \E c \in Clients : \/ \E p \in load.programs : begun < load.begin /\ Begin(c, p)
                          \/ TxStep(c)
    \/ SweepStep
    \/ now < load.time /\ Tick

LoadStep ==
    /\ (StorageStep /\ Beside) \/ (load.flush /\ FlushStep)
    /\ UNCHANGED load

\* The server waits for requests that the workload does not send.
LoadDone ==
    /\ begun = load.begin
    /\ \A c \in Clients : tx[c].pc = "idle"
    /\ UNCHANGED <<fvars, load>>

LoadNext == LoadStep \/ LoadDone

LoadSpec == LoadInit /\ [][LoadNext]_<<fvars, load>>

=============================================================================
