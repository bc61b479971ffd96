------------------------------ MODULE Shutdown ------------------------------
(***************************************************************************)
(* The life of one postkeys process: main starts its parts in order,       *)
(* retrying each until PostgreSQL answers, serves connections, and on a     *)
(* signal shuts down: it closes the listener, pauses, stops the pub/sub     *)
(* hub, gives every connection a read deadline and waits for the handlers,  *)
(* with a 30 s limit on the whole.  Server.Stop, which closes connections   *)
(* instead, is the other way to end a server.                               *)
(*                                                                         *)
(* Timers are modelled by order: a step that the code makes wait for        *)
(* seconds (the pause, the drain deadline, the 30 s limit) is enabled only  *)
(* once the steps that take no such wait are done.                          *)
(***************************************************************************)
EXTENDS Naturals, FiniteSets

CONSTANTS
    Conns,          \* connections a behaviour may see
    Blockers,       \* those that send blocking commands
    Stallers,       \* those that stop reading at times
    Ways,           \* how the server ends: "drain" (main) or "stop" (Server.Stop)
    MaxFailures,    \* bound: failed attempts in a row to start a part
    MaxSignals      \* bound: signals sent

VARIABLES
    main,           \* where main and its shutdown goroutine are
    failures,       \* failed attempts to start the present part
    sent, sigChan,  \* signals sent (bound); signals in the channel's one slot
    watcher,        \* the startup watcher goroutine: watch, gone
    cancelled,      \* who cancelled the context: nobody, watcher, main
    way,            \* the way this process ends
    conn,           \* the connections and their handlers
    drainDeadline,  \* s.drainDeadline: none, drain
    overdue,        \* the drain deadline has passed
    hub,            \* the listener goroutine and the client it is sending to
    late            \* history: connections that DrainConnections or Stop came too
                    \* early for: registered, or their deadline restored from a
                    \* value read before, once it was through

vars == <<main, failures, sent, sigChan, watcher, cancelled, way, conn, drainDeadline, overdue, hub, late>>

Parts == {"postgres", "invalidator", "notifier", "hub"}         \* what retryStartup starts
Boot == Parts \cup {"listen", "started"}
Ending == {"closeListener", "pause", "stopHub", "waitHub", "setDeadlines", "wait", "cancel", "close"}
Ended == {"done", "forced", "aborted"}

(* deadline: the read deadline of the connection; watch: the goroutine that *)
(* watches the connection during a blocking command; seen: the deadline     *)
(* that watchDisconnect's stop function is about to restore.                *)
NewConn == [pc |-> "none", net |-> "ok", registered |-> FALSE,
            deadline |-> "none", watch |-> "off", seen |-> "none"]

Init ==
    /\ main = "postgres" /\ failures = 0
    /\ sent = 0 /\ sigChan = 0
    /\ watcher = "watch" /\ cancelled = "nobody"
    /\ way \in Ways
    /\ conn = [c \in Conns |-> NewConn]
    /\ drainDeadline = "none" /\ overdue = FALSE
    /\ hub = [pc |-> "idle", at |-> {}]
    /\ late = {}

connVars == <<conn, drainDeadline, overdue, hub, late>>
mainVars == <<main, failures, sent, sigChan, watcher, cancelled, way>>

Running(c) == conn[c].pc \notin {"none", "accepted", "gone"}     \* counted in s.wg

-----------------------------------------------------------------------------
(* Startup.                                                                 *)

After(part) ==
    CASE part = "postgres"    -> "invalidator"
      [] part = "invalidator" -> "notifier"
      [] part = "notifier"    -> "hub"
      [] part = "hub"         -> "listen"
      [] part = "listen"      -> "started"

(* One attempt of retryStartup succeeds, fails and is retried, or fails     *)
(* after the context was cancelled, which ends the process.                 *)
PartStarts ==
    /\ main \in Parts
    /\ main' = After(main) /\ failures' = 0
    /\ UNCHANGED <<sent, sigChan, watcher, cancelled, way, connVars>>

PartFails ==
    /\ main \in Parts
    /\ cancelled = "nobody" /\ failures < MaxFailures
    /\ failures' = failures + 1
    /\ UNCHANGED <<main, sent, sigChan, watcher, cancelled, way, connVars>>

StartupAborted ==
    /\ main \in Parts /\ cancelled # "nobody"
    /\ main' = "aborted"
    /\ UNCHANGED <<failures, sent, sigChan, watcher, cancelled, way, connVars>>

Listen ==
    /\ main = "listen"
    /\ main' = "started"
    /\ UNCHANGED <<failures, sent, sigChan, watcher, cancelled, way, connVars>>

(* close(startupComplete)                                                   *)
StartupComplete ==
    /\ main = "started"
    /\ main' = "serve"
    /\ UNCHANGED <<failures, sent, sigChan, watcher, cancelled, way, connVars>>

WatcherReturns ==
    /\ watcher = "watch" /\ main \notin Boot
    /\ watcher' = "gone"
    /\ UNCHANGED <<main, failures, sent, sigChan, cancelled, way, connVars>>

(* The watcher takes the signal, possibly after startup has completed.      *)
WatcherCancels ==
    /\ watcher = "watch" /\ sigChan = 1
    /\ watcher' = "gone" /\ sigChan' = 0
    /\ cancelled' = IF cancelled = "nobody" THEN "watcher" ELSE cancelled
    /\ UNCHANGED <<main, failures, sent, way, connVars>>

(* signal.Notify drops a signal that does not fit in the channel.           *)
Deliver(n) == 1

Signal ==
    /\ way = "drain" /\ main \notin Ended /\ sent < MaxSignals
    /\ sent' = sent + 1 /\ sigChan' = Deliver(sigChan)
    /\ UNCHANGED <<main, failures, watcher, cancelled, way, connVars>>

-----------------------------------------------------------------------------
(* Shutdown.                                                                *)

\* Mutant of MainWakes: the wait does not look at the context.
MainWakesOnSignal == sigChan = 1

MainWakes == sigChan = 1 \/ cancelled # "nobody"

ShutdownBegins ==
    /\ main = "serve"
    /\ IF way = "drain" THEN MainWakes ELSE TRUE
    /\ main' = "closeListener"
    /\ sigChan' = IF cancelled = "nobody" THEN 0 ELSE sigChan
    /\ UNCHANGED <<failures, sent, watcher, cancelled, way, connVars>>

(* Stop has no pause; the two seconds of main's are enough for every        *)
(* accepted connection to be registered.                                    *)
CloseListener ==
    /\ main = "closeListener"
    /\ main' = IF way = "drain" THEN "pause" ELSE "stopHub"
    /\ UNCHANGED <<failures, sent, sigChan, watcher, cancelled, way, connVars>>

PauseOver ==
    /\ main = "pause"
    /\ \A c \in Conns : conn[c].pc \notin {"accepted", "counted"}
    /\ main' = "stopHub"
    /\ UNCHANGED <<failures, sent, sigChan, watcher, cancelled, way, connVars>>

StopHub ==
    /\ main = "stopHub"
    /\ main' = "waitHub"
    /\ UNCHANGED <<failures, sent, sigChan, watcher, cancelled, way, connVars>>

HubStopped ==
    /\ main = "waitHub" /\ hub.pc = "exited"
    /\ main' = "setDeadlines"
    /\ UNCHANGED <<failures, sent, sigChan, watcher, cancelled, way, connVars>>

\* Mutant of drainDeadlineSet: only the connections get the deadline.
drainDeadlineUnset == "none"

drainDeadlineSet == "drain"

(* Under connsMu: the deadline for handlers in a blocking command, and the  *)
(* read deadline of every registered connection.                            *)
DrainConnections ==
    /\ main = "setDeadlines" /\ way = "drain"
    /\ main' = "wait"
    /\ drainDeadline' = drainDeadlineSet
    /\ conn' = [c \in Conns |-> IF conn[c].registered THEN [conn[c] EXCEPT !.deadline = "drain"] ELSE conn[c]]
    /\ UNCHANGED <<failures, sent, sigChan, watcher, cancelled, way, overdue, hub, late>>

Stop ==
    /\ main = "setDeadlines" /\ way = "stop"
    /\ main' = "wait"
    /\ conn' = [c \in Conns |-> IF conn[c].registered THEN [conn[c] EXCEPT !.net = "closed"] ELSE conn[c]]
    /\ UNCHANGED <<failures, sent, sigChan, watcher, cancelled, way, drainDeadline, overdue, hub, late>>

Overdue ==
    /\ main = "wait" /\ way = "drain" /\ ~overdue
    /\ overdue' = TRUE
    /\ UNCHANGED <<mainVars, conn, drainDeadline, hub, late>>

\* Mutant of HandlersDone: the wait group is not waited for.
HandlersDoneSkipped == TRUE

HandlersDone == \A c \in Conns : ~Running(c)

WaitDone ==
    /\ main = "wait" /\ HandlersDone
    /\ main' = IF way = "drain" THEN "cancel" ELSE "done"
    /\ UNCHANGED <<failures, sent, sigChan, watcher, cancelled, way, connVars>>

Cancel ==
    /\ main = "cancel"
    /\ main' = "close"
    /\ cancelled' = IF cancelled = "nobody" THEN "main" ELSE cancelled
    /\ UNCHANGED <<failures, sent, sigChan, watcher, way, connVars>>

CloseBackend ==
    /\ main = "close"
    /\ main' = "done"
    /\ UNCHANGED <<failures, sent, sigChan, watcher, cancelled, way, connVars>>

(* A second signal.                                                         *)
ForcedBySignal ==
    /\ way = "drain" /\ main \in Ending /\ sigChan = 1
    /\ main' = "forced" /\ sigChan' = 0
    /\ UNCHANGED <<failures, sent, watcher, cancelled, way, connVars>>

-----------------------------------------------------------------------------
(* Connections.                                                             *)

StepLate(c, C, tooLate) ==
    /\ conn' = [conn EXCEPT ![c] = C]
    /\ late' = IF tooLate THEN late \cup {c} ELSE late
    /\ UNCHANGED <<mainVars, drainDeadline, overdue, hub>>

Step(c, C) == StepLate(c, C, FALSE)

ListenerOpen == main \in {"started", "serve", "closeListener"}

(* acceptLoop: Accept returns; then wg.Add and the handler's goroutine.     *)
Accept(c) ==
    /\ ListenerOpen /\ conn[c].pc = "none" /\ \A d \in Conns : conn[d].pc # "accepted"
    /\ Step(c, [conn[c] EXCEPT !.pc = "accepted"])

acceptLoop(c) ==
    /\ conn[c].pc = "accepted"
    /\ Step(c, [conn[c] EXCEPT !.pc = "counted"])

Register(c) ==
    /\ conn[c].pc = "counted"
    /\ StepLate(c, [conn[c] EXCEPT !.pc = "read", !.registered = TRUE], main = "wait")

(* A read fails on a closed connection and past its deadline.               *)
ReadEnds(C) == C.net = "closed" \/ (C.deadline = "drain" /\ overdue)

ReadFails(c) ==
    /\ conn[c].pc = "read" /\ ReadEnds(conn[c])
    /\ Step(c, [conn[c] EXCEPT !.pc = "leave"])

Command(c) ==
    /\ conn[c].pc = "read" /\ conn[c].net = "ok" /\ ~ReadEnds(conn[c])
    /\ Step(c, [conn[c] EXCEPT !.pc = "command"])

Executes(c) ==
    /\ conn[c].pc = "command"
    /\ Step(c, [conn[c] EXCEPT !.pc = "reply"])

(* watchDisconnect: the watch ends at once when the client has already      *)
(* pipelined another command.                                               *)
BlockingCommand(c) ==
    /\ c \in Blockers
    /\ conn[c].pc = "read" /\ conn[c].net = "ok" /\ ~ReadEnds(conn[c])
    /\ \E w \in {"on", "spent"} : Step(c, [conn[c] EXCEPT !.pc = "block", !.watch = w])

(* An element arrives, or the command's own timeout.                        *)
Unblocks(c) ==
    /\ conn[c].pc = "block"
    /\ Step(c, [conn[c] EXCEPT !.pc = "unwatch"])

Cancels(C) == cancelled # "nobody" \/ (C.watch = "on" /\ ReadEnds(C))

Interrupted(c) ==
    /\ conn[c].pc = "block" /\ Cancels(conn[c])
    /\ Step(c, [conn[c] EXCEPT !.pc = "unwatch"])

(* The stop function: wake the watch, read drainDeadline under connsMu,     *)
(* and, after unlocking, restore it.                                        *)
Wake(c) ==
    /\ conn[c].pc = "unwatch"
    /\ Step(c, [conn[c] EXCEPT !.pc = "woken", !.deadline = "now", !.watch = "off"])

ReadDrainDeadline(c) ==
    /\ conn[c].pc = "woken"
    /\ Step(c, [conn[c] EXCEPT !.pc = "restore", !.seen = drainDeadline])

RestoreDeadline(c) ==
    /\ conn[c].pc = "restore"
    /\ StepLate(c, [conn[c] EXCEPT !.pc = "reply", !.deadline = conn[c].seen, !.seen = "none"],
                conn[c].seen # drainDeadline)

HubHolds(c) == hub.pc = "sending" /\ hub.at = {c}

WriteResponses(c) ==
    /\ conn[c].pc = "reply" /\ ~HubHolds(c)
    /\ Step(c, [conn[c] EXCEPT !.pc = CASE conn[c].net = "ok" -> "read"
                                        [] conn[c].net = "stalled" -> "write"
                                        [] conn[c].net = "closed" -> "leave"])

WriteEnds(c) ==
    /\ conn[c].pc = "write" /\ conn[c].net # "stalled"
    /\ Step(c, [conn[c] EXCEPT !.pc = IF conn[c].net = "ok" THEN "read" ELSE "leave"])

(* The deferred calls.                                                      *)
Leave(c) ==
    /\ conn[c].pc = "leave"
    /\ Step(c, [conn[c] EXCEPT !.pc = "gone", !.registered = FALSE, !.net = "closed"])

(* The client's side.                                                       *)
Stall(c) ==
    /\ c \in Stallers /\ conn[c].pc # "none" /\ conn[c].net = "ok"
    /\ Step(c, [conn[c] EXCEPT !.net = "stalled"])
Resume(c) == conn[c].net = "stalled" /\ Step(c, [conn[c] EXCEPT !.net = "ok"])
Hangup(c) ==
    /\ conn[c].pc # "none" /\ conn[c].net # "closed"
    /\ Step(c, [conn[c] EXCEPT !.net = "closed"])

-----------------------------------------------------------------------------
(* The hub's listener goroutine, as far as stopping it is concerned.        *)

HubStep(h) == hub' = h /\ UNCHANGED <<mainVars, drainDeadline, overdue, late>>
HubCancelled == main \in {"waitHub", "setDeadlines", "wait", "cancel", "close"} \cup Ended

(* It takes a message for c, and needs c's writer lock.                     *)
HubTakes(c) ==
    /\ hub.pc = "idle" /\ ~HubCancelled /\ main \notin Boot
    /\ conn[c].registered
    /\ HubStep([pc |-> "locking", at |-> {c}]) /\ UNCHANGED conn

HubSends(c) ==
    /\ hub.pc = "locking" /\ hub.at = {c} /\ conn[c].pc # "write"
    /\ HubStep(IF conn[c].net = "stalled" THEN [hub EXCEPT !.pc = "sending"] ELSE [pc |-> "idle", at |-> {}])
    /\ UNCHANGED conn

(* The write deadline: a send that fails closes the connection.             *)
HubSent(c) ==
    /\ hub.pc = "sending" /\ hub.at = {c}
    /\ HubStep([pc |-> "idle", at |-> {}])
    /\ conn' = IF conn[c].net = "ok" THEN conn ELSE [conn EXCEPT ![c].net = "closed"]

HubExits ==
    /\ hub.pc = "idle" /\ HubCancelled
    /\ HubStep([pc |-> "exited", at |-> {}]) /\ UNCHANGED conn

-----------------------------------------------------------------------------
(* The 30 s limit: longer than the pause, the drain deadline and the write  *)
(* deadline together, so it passes only when main waits for a goroutine     *)
(* that none of these will move.                                            *)

StuckWriter(c) == conn[c].pc = "write" /\ conn[c].net = "stalled"

WaitsForClient(c) ==
    \/ conn[c].pc = "read" /\ ~ReadEnds(conn[c])
    \/ conn[c].pc = "block" /\ ~Cancels(conn[c])
    \/ StuckWriter(c)

TimedOut ==
    \/ main = "waitHub" /\ hub.pc = "locking" /\ \E c \in hub.at : StuckWriter(c)
    \/ main = "wait" /\ overdue /\ \E c \in Conns : WaitsForClient(c)

ForcedByTimeout ==
    /\ way = "drain" /\ TimedOut
    /\ main' = "forced"
    /\ UNCHANGED <<failures, sent, sigChan, watcher, cancelled, way, connVars>>

-----------------------------------------------------------------------------

MainStep ==
    \/ PartStarts \/ StartupAborted \/ Listen \/ StartupComplete
    \/ (way = "drain" /\ ShutdownBegins) \/ CloseListener \/ PauseOver \/ StopHub \/ HubStopped
    \/ DrainConnections \/ Stop \/ Overdue \/ WaitDone \/ Cancel \/ CloseBackend
    \/ ForcedByTimeout

Watcher == WatcherReturns \/ WatcherCancels

handleConnection(c) ==
    \/ acceptLoop(c) \/ Register(c) \/ ReadFails(c) \/ Executes(c) \/ Interrupted(c) \/ Wake(c)
    \/ ReadDrainDeadline(c) \/ RestoreDeadline(c) \/ WriteResponses(c) \/ WriteEnds(c) \/ Leave(c)

Client(c) ==
    \/ Accept(c) \/ Command(c) \/ BlockingCommand(c) \/ Unblocks(c)
    \/ Stall(c) \/ Resume(c) \/ Hangup(c)

listenLoop == HubExits \/ \E c \in Conns : HubSends(c) \/ HubSent(c)

Next ==
    /\ main \notin Ended
    /\ \/ MainStep \/ Watcher \/ Signal \/ PartFails \/ ForcedBySignal
       \/ (way = "stop" /\ ShutdownBegins)
       \/ \E c \in Conns : handleConnection(c) \/ Client(c) \/ HubTakes(c)
       \/ listenLoop

Spec == Init /\ [][Next]_vars

(* Goroutines run when they can, and PostgreSQL answers at last.  A mutex   *)
(* does not starve the hub, and clients cannot put off the 30 s limit.      *)
(* Nothing else is assumed of clients or of whoever sends signals.          *)
FairSpec ==
    /\ Spec
    /\ WF_vars(main \notin Ended /\ MainStep)
    /\ WF_vars(main \notin Ended /\ Watcher)
    /\ WF_vars(main \notin Ended /\ ForcedBySignal)
    /\ SF_vars(main \notin Ended /\ listenLoop)
    /\ SF_vars(main \notin Ended /\ ForcedByTimeout)
    /\ \A c \in Conns : WF_vars(main \notin Ended /\ handleConnection(c))

-----------------------------------------------------------------------------
(* Properties.                                                              *)

(* Shutting down gracefully cuts no command short: the context that         *)
(* commands run under is cancelled, and the connection pool closed, only    *)
(* once no handler is left.  The exception is the signal that the startup   *)
(* watcher takes: it cancels the context at once.                           *)
CommandsOutlived ==
    /\ main \in {"cancel", "close"} => \A c \in Conns : ~Running(c)
    /\ cancelled = "main" => \A c \in Conns : ~Running(c)

(* What keeps a handler from ending: a reply that its client does not read; *)
(* a blocking command that is no longer watched; a connection that the      *)
(* deadline, or the closing, came too early for.                            *)
Held(c) ==
    \/ StuckWriter(c)
    \/ conn[c].pc = "block" /\ conn[c].watch = "spent"
    \/ c \in late

(* A shutdown comes to its end by itself: the 30 s limit, or patience with  *)
(* a Stop that has no limit, is needed only when some connection is held.   *)
GracefulUnlessHeld ==
    (main \in Ending) ~>
        (\/ main = "done"
         \/ main = "forced" /\ (sent > 1 \/ \E c \in Conns : Held(c))
         \/ way = "stop" /\ main = "waitHub" /\ \E c \in Conns : StuckWriter(c)
         \/ way = "stop" /\ main = "wait" /\ \E c \in Conns : Held(c))

(* A signal ends the process, whichever goroutine takes it and whatever     *)
(* startup and shutdown are waiting for.                                    *)
SignalEndsProcess == (sent > 0) ~> (main \in Ended)

=============================================================================
