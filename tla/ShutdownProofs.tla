--------------------------- MODULE ShutdownProofs ---------------------------
(***************************************************************************)
(* Proofs about the life of one process: the graceful shutdown cancels the  *)
(* context that commands run under, and closes the connection pool, only    *)
(* once no handler is left, for any number of connections, failures and     *)
(* signals.                                                                 *)
(*                                                                         *)
(* That the handlers are waited for says this of one moment only.  It stays *)
(* true because no handler can start any more: the listener is closed, and  *)
(* the pause after that has let every accepted connection register.         *)
(***************************************************************************)
EXTENDS Shutdown, TLAPS

-----------------------------------------------------------------------------
(* Types.                                                                   *)

Places == {"none", "accepted", "counted", "read", "command", "reply", "write", "block",
           "unwatch", "woken", "restore", "leave", "gone"}
ConnStates ==
    [pc : Places, net : {"ok", "stalled", "closed"}, registered : BOOLEAN,
     deadline : {"none", "now", "drain"}, watch : {"off", "on", "spent"}, seen : {"none", "drain"}]

TypeInv ==
    /\ main \in Boot \cup {"serve"} \cup Ending \cup Ended
    /\ failures \in Nat /\ sent \in Nat /\ sigChan \in {0, 1}
    /\ watcher \in {"watch", "gone"}
    /\ cancelled \in {"nobody", "watcher", "main"}
    /\ way \in Ways
    /\ conn \in [Conns -> ConnStates]
    /\ drainDeadline \in {"none", "drain"} /\ overdue \in BOOLEAN
    /\ hub \in [pc : {"idle", "locking", "sending", "exited"}, at : SUBSET Conns]
    /\ late \in SUBSET Conns

-----------------------------------------------------------------------------
(* The invariant.                                                           *)

(* After main's pause no connection is between Accept and its registration. *)
AfterPause == {"stopHub", "waitHub", "setDeadlines", "wait", "cancel", "close"}
NoneArriving ==
    way = "drain" /\ main \in AfterPause =>
        \A c \in Conns : conn[c].pc \notin {"accepted", "counted"}

(* Past the wait, in main's way of ending, the handlers are gone.           *)
HandlersGone ==
    main \in {"cancel", "close"} => way = "drain" /\ \A c \in Conns : ~Running(c)

(* Only main's cancelling is "main", and it comes after the wait.           *)
CancelledLate ==
    cancelled = "main" => main \in {"close"} \cup Ended /\ \A c \in Conns : ~Running(c)

(* The connections that conns holds are those whose handler has registered  *)
(* and not yet left.                                                        *)
Serving(C) == C.pc \notin {"none", "accepted", "counted", "gone"}
OnlyServing == \A c \in Conns : conn[c].registered <=> Serving(conn[c])

(* Once DrainConnections is through, the drain deadline stands in every     *)
(* connection, apart from those it came too early for and those whose       *)
(* handler is about to put it back.                                         *)
Restoring(C) == C.pc \in {"woken", "restore"}
DrainSet == way = "drain" /\ main \in {"wait", "cancel", "close"} => drainDeadline = "drain"
DeadlineStands(C) == Serving(C) /\ ~Restoring(C) => C.deadline = "drain"
DeadlinesStand == way = "drain" /\ main = "wait" => \A c \in Conns \ late : DeadlineStands(conn[c])

IInv == /\ TypeInv /\ NoneArriving /\ HandlersGone /\ CancelledLate
        /\ OnlyServing /\ DrainSet /\ DeadlinesStand

-----------------------------------------------------------------------------

\* A process that starts satisfies the invariant.
LEMMA InitOK == Init => IInv
<1>1. SUFFICES ASSUME Init PROVE IInv
  OBVIOUS
<1>2. NewConn \in ConnStates
  BY Zenon DEF NewConn, ConnStates, Places
<1>3. hub \in [pc : {"idle", "locking", "sending", "exited"}, at : SUBSET Conns]
  BY <1>1 DEF Init
<1>4. TypeInv
  BY <1>1, <1>2, <1>3, Zenon DEF Init, TypeInv, Boot, Parts
<1>5. OnlyServing
  BY <1>1 DEF Init, OnlyServing, Serving, NewConn
<1>6. NoneArriving /\ HandlersGone /\ CancelledLate /\ DrainSet /\ DeadlinesStand
  BY <1>1 DEF Init, NoneArriving, HandlersGone, CancelledLate, DrainSet, DeadlinesStand, AfterPause
<1> QED BY <1>4, <1>5, <1>6 DEF IInv

\* A step of one connection: it is accepted only while the listener is open,
\* and a handler runs only for a connection that was accepted.
LEMMA ConnStep ==
    ASSUME IInv, main \notin Ended, NEW c \in Conns, NEW C \in ConnStates,
           conn' = [conn EXCEPT ![c] = C], late' \in SUBSET Conns, late \subseteq late',
           hub' \in [pc : {"idle", "locking", "sending", "exited"}, at : SUBSET Conns],
           UNCHANGED <<main, failures, sent, sigChan, watcher, cancelled, way, drainDeadline, overdue>>,
           C.pc \in {"accepted", "counted"} =>
              ListenerOpen \/ conn[c].pc \in {"accepted", "counted"},
           C.pc \notin {"none", "accepted", "gone"} => conn[c].pc \notin {"none", "gone"},
           C.registered <=> Serving(C),
           /\ drainDeadline = "drain" /\ main = "wait"
           /\ c \in late \/ DeadlineStands(conn[c])
           => c \in late' \/ DeadlineStands(C)
    PROVE  IInv'
<1>1. conn' \in [Conns -> ConnStates] /\ conn'[c] = C /\ \A d \in Conns \ {c} : conn'[d] = conn[d]
  BY DEF IInv, TypeInv
<1>2. TypeInv'
  BY <1>1 DEF IInv, TypeInv
<1>3. main \in AfterPause => ~ListenerOpen
  BY DEF AfterPause, ListenerOpen
<1>4. NoneArriving'
  BY <1>1, <1>3 DEF IInv, NoneArriving
<1>5. main \in {"cancel", "close"} => conn[c].pc \in {"none", "gone"} /\ C.pc \in {"none", "gone"}
  BY <1>3 DEF IInv, NoneArriving, HandlersGone, AfterPause, Running
<1>6. HandlersGone'
  BY <1>1, <1>5 DEF IInv, HandlersGone, Running
<1>7. CancelledLate'
  BY <1>1, <1>5, <1>6 DEF IInv, CancelledLate, HandlersGone, Running
<1>8. OnlyServing'
  BY <1>1 DEF IInv, OnlyServing
<1>9. DrainSet' /\ DeadlinesStand'
  BY <1>1 DEF IInv, DrainSet, DeadlinesStand
<1> QED BY <1>2, <1>4, <1>6, <1>7, <1>8, <1>9 DEF IInv

\* Steps of the handlers.
LEMMA HandlerSteps ==
    ASSUME IInv, main \notin Ended, NEW c \in Conns, handleConnection(c) \/ Client(c)
    PROVE  IInv'
<1> DEFINE C == conn[c]
<1>1. C \in ConnStates /\ C.net \in {"ok", "stalled", "closed"} /\ late \in SUBSET Conns
      /\ hub \in [pc : {"idle", "locking", "sending", "exited"}, at : SUBSET Conns]
      /\ drainDeadline \in {"none", "drain"} /\ C.seen \in {"none", "drain"}
  BY DEF IInv, TypeInv, ConnStates
<1>7. C.registered <=> Serving(C)
  BY DEF IInv, OnlyServing
<1>2. ASSUME NEW D, NEW b, StepLate(c, D, b), D \in ConnStates,
             D.pc \in {"accepted", "counted"} => ListenerOpen \/ C.pc \in {"accepted", "counted"},
             D.pc \notin {"none", "accepted", "gone"} => C.pc \notin {"none", "gone"},
             D.registered <=> Serving(D),
             drainDeadline = "drain" /\ main = "wait" /\ (c \in late \/ DeadlineStands(C))
                => b \/ c \in late \/ DeadlineStands(D)
      PROVE  IInv'
  <2>1. late' \in SUBSET Conns /\ hub' = hub /\ conn' = [conn EXCEPT ![c] = D]
        /\ UNCHANGED <<main, failures, sent, sigChan, watcher, cancelled, way, drainDeadline, overdue>>
    BY <1>1, <1>2 DEF StepLate, mainVars
  <2>2. late \subseteq late' /\ (b => c \in late')
    BY <1>2 DEF StepLate
  <2> QED BY <1>1, <1>2, <2>1, <2>2, ConnStep, Zenon
<1>3. ASSUME NEW p \in Places, NEW b, StepLate(c, [C EXCEPT !.pc = p], b),
             p \in {"accepted", "counted"} => ListenerOpen \/ C.pc \in {"accepted", "counted"},
             p \notin {"none", "accepted", "gone"} => C.pc \notin {"none", "gone"},
             Serving(C) <=> p \notin {"none", "accepted", "counted", "gone"}, ~Restoring(C)
      PROVE  IInv'
  <2> DEFINE D == [C EXCEPT !.pc = p]
  <2>1. /\ D \in ConnStates /\ D.pc = p
        /\ D.registered = C.registered /\ D.deadline = C.deadline
    BY <1>1, Zenon DEF ConnStates
  <2> HIDE DEF D
  <2>2. StepLate(c, D, b)
    BY <1>3 DEF D
  <2>3. (D.registered <=> Serving(D)) /\ (DeadlineStands(C) => DeadlineStands(D))
    BY <1>3, <1>7, <2>1, Zenon DEF Serving, DeadlineStands
  <2> QED BY <1>2, <1>3, <2>1, <2>2, <2>3, Zenon
<1>4. ASSUME NEW n \in {"ok", "stalled", "closed"}, StepLate(c, [C EXCEPT !.net = n], FALSE)
      PROVE  IInv'
  <2> DEFINE D == [C EXCEPT !.net = n]
  <2>1. /\ D \in ConnStates /\ D.pc = C.pc
        /\ D.registered = C.registered /\ D.deadline = C.deadline
    BY <1>1, Zenon DEF ConnStates
  <2> HIDE DEF D
  <2>2. StepLate(c, D, FALSE)
    BY <1>4, Zenon DEF D
  <2>3. (D.registered <=> Serving(D)) /\ (DeadlineStands(C) => DeadlineStands(D))
    BY <1>7, <2>1, Zenon DEF Serving, Restoring, DeadlineStands
  <2> QED BY <1>2, <2>1, <2>2, <2>3, Zenon
<1> HIDE DEF C
<1>5. CASE handleConnection(c)
  <2>1. CASE acceptLoop(c)
    BY <1>3, <2>1, Zenon DEF acceptLoop, Step, Places, C, Serving, Restoring
  <2>2. CASE Register(c)
    <3> DEFINE D == [C EXCEPT !.pc = "read", !.registered = TRUE]
    <3>1. D \in ConnStates /\ D.pc = "read" /\ D.registered = TRUE
      BY <1>1, Zenon DEF ConnStates, Places
    <3>2. C.pc = "counted" /\ StepLate(c, D, main = "wait")
      BY <2>2 DEF Register, C
    <3> HIDE DEF D
    <3>9. D.registered <=> Serving(D)
      BY <3>1, <3>2 DEF Serving
    <3> QED BY <1>2, <3>1, <3>2, <3>9, Zenon
  <2>3. CASE ReadFails(c) \/ Executes(c) \/ Interrupted(c)
    BY <1>3, <2>3, Zenon DEF ReadFails, Executes, Interrupted, Step, Places, C, Serving, Restoring
  <2>4. CASE Wake(c)
    <3> DEFINE D == [C EXCEPT !.pc = "woken", !.deadline = "now", !.watch = "off"]
    <3>1. D \in ConnStates /\ D.pc = "woken" /\ D.registered = C.registered
      BY <1>1, Zenon DEF ConnStates, Places
    <3>2. C.pc = "unwatch" /\ StepLate(c, D, FALSE)
      BY <2>4, Zenon DEF Wake, Step, C
    <3> HIDE DEF D
    <3>9. (D.registered <=> Serving(D)) /\ (DeadlineStands(D))
      BY <1>7, <3>1, <3>2 DEF Serving, Restoring, DeadlineStands
    <3> QED BY <1>2, <3>9, <3>1, <3>2, Zenon
  <2>5. CASE ReadDrainDeadline(c)
    <3> DEFINE D == [C EXCEPT !.pc = "restore", !.seen = drainDeadline]
    <3>1. D \in ConnStates /\ D.pc = "restore" /\ D.registered = C.registered
      BY <1>1, Zenon DEF ConnStates, Places
    <3>2. C.pc = "woken" /\ StepLate(c, D, FALSE)
      BY <2>5, Zenon DEF ReadDrainDeadline, Step, C
    <3> HIDE DEF D
    <3>9. (D.registered <=> Serving(D)) /\ (DeadlineStands(D))
      BY <1>7, <3>1, <3>2 DEF Serving, Restoring, DeadlineStands
    <3> QED BY <1>2, <3>9, <3>1, <3>2, Zenon
  <2>6. CASE RestoreDeadline(c)
    <3> DEFINE D == [C EXCEPT !.pc = "reply", !.deadline = C.seen, !.seen = "none"]
    <3>1. /\ D \in ConnStates /\ D.pc = "reply" /\ D.registered = C.registered
          /\ D.deadline = C.seen
      <4>1. C.seen \in {"none", "now", "drain"} /\ "none" \in {"none", "drain"} /\ "reply" \in Places
        BY <1>1 DEF Places
      <4> QED BY <1>1, <4>1, Zenon DEF ConnStates
    <3>2. C.pc = "restore" /\ StepLate(c, D, C.seen # drainDeadline)
      BY <2>6 DEF RestoreDeadline, C
    <3> HIDE DEF D
    <3>9. (D.registered <=> Serving(D)) /\ (drainDeadline = "drain" => C.seen # drainDeadline \/ DeadlineStands(D))
      BY <1>7, <3>1, <3>2 DEF Serving, Restoring, DeadlineStands
    <3> QED BY <1>2, <3>9, <3>1, <3>2, Zenon
  <2>7. CASE WriteResponses(c) \/ WriteEnds(c)
    <3>1. C.pc \in {"reply", "write"} /\ \E p \in {"read", "write", "leave"} :
             StepLate(c, [C EXCEPT !.pc = p], FALSE)
      BY <1>1, <2>7, Zenon DEF WriteResponses, WriteEnds, Step, C
    <3> QED BY <1>3, <3>1, Zenon DEF Places, Serving, Restoring
  <2>8. CASE Leave(c)
    <3> DEFINE D == [C EXCEPT !.pc = "gone", !.registered = FALSE, !.net = "closed"]
    <3>1. D \in ConnStates /\ D.pc = "gone" /\ D.registered = FALSE
      BY <1>1, Zenon DEF ConnStates, Places
    <3>2. StepLate(c, D, FALSE)
      BY <2>8, Zenon DEF Leave, Step, C
    <3> HIDE DEF D
    <3>9. (D.registered <=> Serving(D)) /\ (DeadlineStands(D))
      BY <1>7, <3>1, <3>2 DEF Serving, Restoring, DeadlineStands
    <3> QED BY <1>2, <3>9, <3>1, <3>2, Zenon
  <2> QED BY <1>5, <2>1, <2>2, <2>3, <2>4, <2>5, <2>6, <2>7, <2>8 DEF handleConnection
<1>6. CASE Client(c)
  <2>1. CASE Accept(c)
    BY <1>3, <2>1, Zenon DEF Accept, Step, Places, C, Serving, Restoring
  <2>2. CASE Command(c) \/ Unblocks(c)
    BY <1>3, <2>2, Zenon DEF Command, Unblocks, Step, Places, C, Serving, Restoring
  <2>3. CASE BlockingCommand(c)
    <3>1. PICK w \in {"on", "spent"} : Step(c, [C EXCEPT !.pc = "block", !.watch = w])
      BY <2>3, Zenon DEF BlockingCommand, C
    <3> DEFINE D == [C EXCEPT !.pc = "block", !.watch = w]
    <3>2. /\ D \in ConnStates /\ D.pc = "block" /\ D.registered = C.registered
          /\ D.deadline = C.deadline
      <4>1. w \in {"off", "on", "spent"} /\ "block" \in Places
        BY DEF Places
      <4> QED BY <1>1, <4>1, Zenon DEF ConnStates
    <3>3. C.pc = "read" /\ StepLate(c, D, FALSE)
      BY <2>3, <3>1, Zenon DEF BlockingCommand, Step, C
    <3> HIDE DEF D
    <3>9. (D.registered <=> Serving(D)) /\ (DeadlineStands(C) => DeadlineStands(D))
      BY <1>7, <3>2, <3>3 DEF Serving, Restoring, DeadlineStands
    <3> QED BY <1>2, <3>9, <3>2, <3>3, Zenon
  <2>4. CASE Stall(c) \/ Resume(c) \/ Hangup(c)
    BY <1>4, <2>4, Zenon DEF Stall, Resume, Hangup, Step, C
  <2> QED BY <1>6, <2>1, <2>2, <2>3, <2>4 DEF Client
<1> QED BY <1>5, <1>6

\* Steps of the hub's listener.
LEMMA ListenerSteps ==
    ASSUME IInv, main \notin Ended, listenLoop \/ \E c \in Conns : HubTakes(c)
    PROVE  IInv'
<1> DEFINE Hubs == [pc : {"idle", "locking", "sending", "exited"}, at : SUBSET Conns]
<1>1. TypeInv /\ hub \in Hubs /\ conn \in [Conns -> ConnStates]
  BY DEF IInv, TypeInv
<1>2. /\ UNCHANGED <<main, failures, sent, sigChan, watcher, cancelled, way, drainDeadline, overdue>>
      /\ UNCHANGED late
  BY DEF listenLoop, HubExits, HubSends, HubSent, HubTakes, HubStep, mainVars
<1>3. hub' \in Hubs
  BY <1>1 DEF listenLoop, HubExits, HubSends, HubSent, HubTakes, HubStep
<1>4. \/ conn' = conn
      \/ \E c \in Conns : conn' = [conn EXCEPT ![c].net = "closed"]
  BY Zenon DEF listenLoop, HubExits, HubSends, HubSent, HubTakes
<1>5. CASE conn' = conn
  <2>1. TypeInv'
    BY <1>1, <1>2, <1>3, <1>5, Zenon DEF TypeInv
  <2>2. NoneArriving' /\ HandlersGone' /\ CancelledLate'
    BY <1>2, <1>5 DEF IInv, NoneArriving, HandlersGone, CancelledLate, Running
  <2>3. OnlyServing' /\ DrainSet' /\ DeadlinesStand'
    BY <1>2, <1>5, Zenon DEF IInv, OnlyServing, DrainSet, DeadlinesStand
  <2> QED BY <2>1, <2>2, <2>3 DEF IInv
<1>6. CASE \E c \in Conns : conn' = [conn EXCEPT ![c].net = "closed"]
  <2>1. PICK c \in Conns : conn' = [conn EXCEPT ![c].net = "closed"]
    BY <1>6, Zenon
  <2> DEFINE C == [conn[c] EXCEPT !.net = "closed"]
  <2>5. conn[c] \in ConnStates
    BY <1>1
  <2>2. /\ C \in ConnStates /\ C.pc = conn[c].pc
        /\ C.registered = conn[c].registered /\ C.deadline = conn[c].deadline
    BY <2>5, Zenon DEF ConnStates
  <2>3. conn' = [conn EXCEPT ![c] = C]
    BY <1>1, <2>1
  <2> HIDE DEF C
  <2>4. late' \in SUBSET Conns /\ late \subseteq late'
    BY <1>1, <1>2 DEF TypeInv
  <2>6. (C.registered <=> Serving(C)) /\ (DeadlineStands(conn[c]) => DeadlineStands(C))
    BY <2>2 DEF IInv, OnlyServing, Serving, Restoring, DeadlineStands
  <2> QED BY <1>2, <1>3, <2>2, <2>3, <2>4, <2>6, ConnStep, Zenon
<1> QED BY <1>4, <1>5, <1>6

\* A step of main, of the watcher or of a signal that leaves the connections
\* alone: it keeps the invariant when it begins nothing too early.
LEMMA MainOnly ==
    ASSUME IInv, TypeInv', main \notin Ended, way' = way, conn' = conn,
           way = "drain" /\ main' \in AfterPause =>
              \/ main \in AfterPause
              \/ \A c \in Conns : conn[c].pc \notin {"accepted", "counted"},
           main' \in {"cancel", "close"} =>
              \/ main \in {"cancel", "close"}
              \/ way = "drain" /\ HandlersDone,
           cancelled' = "main" =>
              \/ cancelled = "main" /\ main' \in {"close"} \cup Ended
              \/ main = "cancel" /\ main' = "close",
           UNCHANGED <<drainDeadline, late>>,
           main' \in {"wait", "cancel", "close"} => main \in {"wait", "cancel", "close"},
           main' = "wait" => main = "wait"
    PROVE  IInv'
<1>1. NoneArriving'
  BY DEF IInv, NoneArriving
<1>2. HandlersGone'
  BY DEF IInv, HandlersGone, HandlersDone, Running
<1>3. CancelledLate'
  BY DEF IInv, CancelledLate, HandlersGone, Running
<1>4. OnlyServing' /\ DrainSet' /\ DeadlinesStand'
  BY Zenon DEF IInv, OnlyServing, DrainSet, DeadlinesStand
<1> QED BY <1>1, <1>2, <1>3, <1>4 DEF IInv

\* Steps of startup, of the watcher and of signals.
LEMMA StartSteps ==
    ASSUME IInv, main \notin Ended,
           \/ PartStarts \/ PartFails \/ StartupAborted \/ Listen \/ StartupComplete
           \/ Watcher \/ Signal
    PROVE  IInv'
<1>1. TypeInv /\ CancelledLate
  BY DEF IInv
<1>2. UNCHANGED <<way, conn, drainDeadline, overdue, hub, late>>
  BY DEF PartStarts, PartFails, StartupAborted, Listen, StartupComplete, Watcher,
         WatcherReturns, WatcherCancels, Signal, connVars
<1>3. /\ failures' \in Nat /\ sent' \in Nat /\ sigChan' \in {0, 1}
      /\ watcher' \in {"watch", "gone"}
      /\ cancelled' \in {"nobody", "watcher", "main"}
  BY <1>1 DEF TypeInv, PartStarts, PartFails, StartupAborted, Listen, StartupComplete, Watcher,
         WatcherReturns, WatcherCancels, Signal, Deliver
<1>4. /\ main' = main \/ main' \in Boot \cup {"serve", "aborted"}
      /\ cancelled' = "main" => cancelled = "main"
      /\ cancelled = "main" => main' = main \/ main' = "aborted" \/ main \in Boot
  BY DEF PartStarts, PartFails, StartupAborted, Listen, StartupComplete, Watcher,
         WatcherReturns, WatcherCancels, Signal, After, Boot, Parts
<1>5. TypeInv'
  BY <1>1, <1>2, <1>3, <1>4 DEF TypeInv, Ended
<1>6. cancelled' = "main" => main' \in {"close"} \cup Ended
  BY <1>1, <1>4 DEF CancelledLate, Boot, Parts, Ended
<1>7. main' \in AfterPause => main' = main
  BY <1>4 DEF AfterPause, Boot, Parts
<1> QED BY <1>2, <1>4, <1>5, <1>6, <1>7, MainOnly DEF AfterPause

\* Steps of the shutdown that leave the connections alone.
LEMMA EndSteps ==
    ASSUME IInv, main \notin Ended,
           \/ ShutdownBegins \/ CloseListener \/ PauseOver \/ StopHub \/ HubStopped \/ Overdue
           \/ WaitDone \/ Cancel \/ CloseBackend \/ ForcedBySignal \/ ForcedByTimeout
    PROVE  IInv'
<1>1. TypeInv /\ CancelledLate
  BY DEF IInv
<1>2. UNCHANGED <<failures, sent, watcher, way, conn, drainDeadline, hub, late>>
  BY DEF ShutdownBegins, CloseListener, PauseOver, StopHub, HubStopped, Overdue, WaitDone,
         Cancel, CloseBackend, ForcedBySignal, ForcedByTimeout, connVars, mainVars
<1>3. overdue' \in BOOLEAN /\ sigChan' \in {0, 1} /\ cancelled' \in {"nobody", "watcher", "main"}
  BY <1>1, Zenon DEF TypeInv, ShutdownBegins, CloseListener, PauseOver, StopHub, HubStopped, Overdue,
         WaitDone, Cancel, CloseBackend, ForcedBySignal, ForcedByTimeout, connVars, mainVars
<1>4. main' \in Ending \cup Ended
  BY <1>1 DEF ShutdownBegins, CloseListener, PauseOver, StopHub, HubStopped, Overdue,
         WaitDone, Cancel, CloseBackend, ForcedBySignal, ForcedByTimeout, mainVars, Ending, Ended
<1>5. TypeInv'
  BY <1>1, <1>2, <1>3, <1>4, Zenon DEF TypeInv
<1>6. way = "drain" /\ main' \in AfterPause =>
        \/ main \in AfterPause
        \/ \A c \in Conns : conn[c].pc \notin {"accepted", "counted"}
  BY DEF ShutdownBegins, CloseListener, PauseOver, StopHub, HubStopped, Overdue, WaitDone,
         Cancel, CloseBackend, ForcedBySignal, ForcedByTimeout, mainVars, AfterPause
<1>7. main' \in {"cancel", "close"} =>
        \/ main \in {"cancel", "close"}
        \/ way = "drain" /\ HandlersDone
  BY DEF ShutdownBegins, CloseListener, PauseOver, StopHub, HubStopped, Overdue, WaitDone,
         Cancel, CloseBackend, ForcedBySignal, ForcedByTimeout, mainVars
<1>8. cancelled' = "main" =>
        \/ cancelled = "main" /\ main' \in {"close"} \cup Ended
        \/ main = "cancel" /\ main' = "close"
  BY <1>1 DEF CancelledLate, ShutdownBegins, CloseListener, PauseOver, StopHub, HubStopped, Overdue,
         WaitDone, Cancel, CloseBackend, ForcedBySignal, ForcedByTimeout, mainVars, Ended
<1>9. /\ main' \in {"wait", "cancel", "close"} => main \in {"wait", "cancel", "close"}
      /\ main' = "wait" => main = "wait"
  BY DEF ShutdownBegins, CloseListener, PauseOver, StopHub, HubStopped, Overdue, WaitDone,
         Cancel, CloseBackend, ForcedBySignal, ForcedByTimeout, mainVars
<1> QED BY <1>2, <1>5, <1>6, <1>7, <1>8, <1>9, MainOnly

\* DrainConnections and Stop change what every registered connection waits
\* for, and no handler's place.
LEMMA DeadlineSteps ==
    ASSUME IInv, main \notin Ended, DrainConnections \/ Stop
    PROVE  IInv'
<1>1. TypeInv /\ NoneArriving /\ CancelledLate /\ main = "setDeadlines" /\ main' = "wait"
  BY DEF IInv, DrainConnections, Stop
<1>2. UNCHANGED <<failures, sent, sigChan, watcher, cancelled, way, overdue, hub, late>>
      /\ drainDeadline' \in {"none", "drain"}
  BY <1>1 DEF DrainConnections, Stop, TypeInv, drainDeadlineSet
<1>3. \A c \in Conns : [conn[c] EXCEPT !.deadline = "drain"] \in ConnStates
                       /\ [conn[c] EXCEPT !.deadline = "drain"].pc = conn[c].pc
                       /\ [conn[c] EXCEPT !.net = "closed"] \in ConnStates
                       /\ [conn[c] EXCEPT !.net = "closed"].pc = conn[c].pc
  <2>1. TAKE c \in Conns
  <2>2. conn[c] \in ConnStates
    BY <1>1 DEF TypeInv
  <2> QED BY <2>2, Zenon DEF ConnStates
<1>9. \A c \in Conns : /\ [conn[c] EXCEPT !.deadline = "drain"].registered = conn[c].registered
                       /\ [conn[c] EXCEPT !.deadline = "drain"].deadline = "drain"
                       /\ [conn[c] EXCEPT !.net = "closed"].registered = conn[c].registered
  <2>1. TAKE c \in Conns
  <2>2. conn[c] \in ConnStates
    BY <1>1 DEF TypeInv
  <2> QED BY <2>2, Zenon DEF ConnStates
<1>4. conn' \in [Conns -> ConnStates] /\ \A c \in Conns : conn'[c].pc = conn[c].pc
  <2>1. CASE DrainConnections
    BY <1>1, <1>3, <2>1, Zenon DEF DrainConnections, TypeInv
  <2>2. CASE Stop
    BY <1>1, <1>3, <2>2, Zenon DEF Stop, TypeInv
  <2> QED BY <2>1, <2>2
<1>5. TypeInv'
  BY <1>1, <1>2, <1>4 DEF TypeInv, Ending
<1>6. HandlersGone' /\ CancelledLate'
  BY <1>1, <1>2 DEF HandlersGone, CancelledLate, Ended
<1>7. NoneArriving'
  BY <1>1, <1>2, <1>4 DEF NoneArriving, AfterPause
<1>8. OnlyServing'
  <2>1. \A c \in Conns : conn'[c].registered = conn[c].registered
    BY <1>1, <1>3, <1>9, Zenon DEF DrainConnections, Stop
  <2> QED BY <1>4, <2>1 DEF IInv, OnlyServing, Serving
<1>10. DrainSet'
  BY <1>1, <1>2 DEF DrainSet, DrainConnections, Stop, drainDeadlineSet
<1>11. DeadlinesStand'
  <2>1. SUFFICES ASSUME way = "drain", NEW c \in Conns, Serving(conn'[c])
                 PROVE  conn'[c].deadline = "drain"
    BY <1>2, Zenon DEF DeadlinesStand, DeadlineStands
  <2>2. conn[c].registered
    BY <1>4, <2>1 DEF IInv, OnlyServing, Serving
  <2>3. conn'[c] = [conn[c] EXCEPT !.deadline = "drain"]
    BY <2>1, <2>2 DEF DrainConnections, Stop
  <2> QED BY <1>9, <2>3
<1> QED BY <1>5, <1>6, <1>7, <1>8, <1>10, <1>11 DEF IInv

\* Every step keeps the invariant.
LEMMA NextOK == IInv /\ [Next]_vars => IInv'
<1>1. SUFFICES ASSUME IInv, [Next]_vars PROVE IInv'
  OBVIOUS
<1>2. CASE UNCHANGED vars
  <2>1. /\ UNCHANGED <<main, failures, sent, sigChan, watcher, cancelled, way>>
        /\ UNCHANGED <<conn, drainDeadline, overdue, hub, late>>
    BY <1>2 DEF vars
  <2>2. TypeInv'
    BY <1>1, <2>1, Zenon DEF IInv, TypeInv
  <2>3. NoneArriving' /\ HandlersGone' /\ CancelledLate'
    BY <1>1, <2>1 DEF IInv, NoneArriving, HandlersGone, CancelledLate, Running
  <2>4. OnlyServing' /\ DrainSet' /\ DeadlinesStand'
    BY <1>1, <2>1, Zenon DEF IInv, OnlyServing, DrainSet, DeadlinesStand
  <2> QED BY <2>2, <2>3, <2>4 DEF IInv
<1>3. CASE Next
  <2>1. main \notin Ended
    BY <1>3 DEF Next
  <2>2. CASE \/ PartStarts \/ PartFails \/ StartupAborted \/ Listen \/ StartupComplete
             \/ Watcher \/ Signal
    BY <1>1, <2>1, <2>2, StartSteps
  <2>3. CASE \/ ShutdownBegins \/ CloseListener \/ PauseOver \/ StopHub \/ HubStopped \/ Overdue
             \/ WaitDone \/ Cancel \/ CloseBackend \/ ForcedBySignal \/ ForcedByTimeout
    BY <1>1, <2>1, <2>3, EndSteps
  <2>4. CASE DrainConnections \/ Stop
    BY <1>1, <2>1, <2>4, DeadlineSteps
  <2>5. CASE \E c \in Conns : handleConnection(c) \/ Client(c)
    BY <1>1, <2>1, <2>5, HandlerSteps
  <2>6. CASE listenLoop \/ \E c \in Conns : HubTakes(c)
    BY <1>1, <2>1, <2>6, ListenerSteps
  <2> QED BY <1>3, <2>2, <2>3, <2>4, <2>5, <2>6 DEF Next, MainStep
<1> QED BY <1>1, <1>2, <1>3

\* The invariant holds in every behaviour of a process.
THEOREM ShutdownInvariant == Spec => []IInv
  BY InitOK, NextOK, PTL DEF Spec

\* Main, its goroutines and the handlers keep their types (main.go, server.go).
THEOREM ShutdownTypeCorrect == Spec => []TypeInv
<1>1. IInv => TypeInv
  BY DEF IInv
<1> QED BY ShutdownInvariant, <1>1, PTL

\* A graceful shutdown cuts no command short: main cancels the context and
\* closes the pool only once no handler is left, and none can start after
\* that (main.go's shutdown, server.go's DrainConnections and acceptLoop).
THEOREM NoCommandCutShort == Spec => []CommandsOutlived
<1>1. IInv => CommandsOutlived
  BY DEF IInv, HandlersGone, CancelledLate, CommandsOutlived
<1> QED BY ShutdownInvariant, <1>1, PTL

\* Once DrainConnections is through, every handler that has not come late
\* reads under the drain deadline, or is about to put it back: those left
\* without it are the ones whose stop function had read drainDeadline before
\* (server.go DrainConnections, watchDisconnect).
THEOREM DeadlineReachesHandlers ==
    Spec => [](way = "drain" /\ main = "wait" =>
                 \A c \in Conns \ late :
                    Running(c) /\ ~Restoring(conn[c]) => conn[c].deadline = "drain")
<1>1. IInv => (way = "drain" /\ main = "wait" =>
                 \A c \in Conns \ late :
                    Running(c) /\ ~Restoring(conn[c]) => conn[c].deadline = "drain")
  BY DEF IInv, DeadlinesStand, DeadlineStands, Serving, Running, NoneArriving, AfterPause
<1> QED BY ShutdownInvariant, <1>1, PTL

=============================================================================
