------------------------------ MODULE Sessions ------------------------------
(***************************************************************************)
(* The client connections of a set of postkeys servers and the pub/sub      *)
(* hubs behind them: handleConnection (server.go) reads a command, routes   *)
(* it, and writes the replies under the client's writer lock; listenLoop    *)
(* (hub.go) takes one notification at a time, copies the subscribers of its *)
(* channel, sends to each, then does the same for patterns.  Both write to  *)
(* the same connection, and only the hub's writes have a deadline.          *)
(*                                                                         *)
(* PUBLISH is pg_notify on one broadcast channel: PostgreSQL hands every    *)
(* message, in one order, to every server that is listening at that time.   *)
(* A listener's connection may break; what it had not read is lost.         *)
(***************************************************************************)
EXTENDS Hub

CONSTANTS
    Servers,
    Loads,              \* the workloads, see load
    MaxPublish,         \* bound: messages published, at most
    MaxQueue            \* bound: commands queued by one MULTI

VARIABLES
    hub,        \* the tables of each server's hub
    session,    \* handler goroutine and ClientState of each client
    net,        \* each connection: ok, stalled (the client stopped reading), closed
    inbox,      \* notifications not yet taken by each server's listener
    listener,   \* each hub's listener connection: up, broken (unnoticed), none
    task,       \* the delivery each listener goroutine is in
    load,       \* the workload: the server of each client (home), the commands it
                \* may send (offers), the clients that may stop reading or go
                \* away (frail), the servers whose listener can connect (reachable),
                \* whether a password is configured (password); bounds on the
                \* messages and on the listener connections that break (breaks)
    published, breaks,  \* counters behind the bounds
    got,        \* history: the messages each client received, as <<id, route>>
    told,       \* history: the routes each client has, going by its replies
    late,       \* history: messages that came after the unsubscribe reply
    acked,      \* history: the commands each client was told are QUEUED
    lost        \* history: messages a listener missed

hubVars == <<inbox, listener, task, breaks, lost>>
history == <<got, told, late, acked>>
vars == <<hub, session, net, load, published, hubVars, history>>

Names == {"AUTH", "HELLO", "PING", "QUIT", "GET", "SUBSCRIBE", "UNSUBSCRIBE", "PSUBSCRIBE",
          "PUNSUBSCRIBE", "PUBLISH", "RESET", "MULTI", "EXEC", "DISCARD"}
PubSubNames == {"SUBSCRIBE", "UNSUBSCRIBE", "PSUBSCRIBE", "PUNSUBSCRIBE", "PUBLISH"}

(* A workload gives every client a server, and arguments that are names.    *)
ASSUME LoadsAssumption ==
    \A l \in Loads :
        /\ l.home \in [Clients -> Servers]
        /\ \A c \in Clients : \A cmd \in l.offers[c] :
              /\ cmd.name \in Names
              /\ cmd.name \in {"SUBSCRIBE", "UNSUBSCRIBE", "PUBLISH"} => cmd.args \in Seq(Channels)
              /\ cmd.name \in {"PSUBSCRIBE", "PUNSUBSCRIBE"} => cmd.args \in Seq(Patterns)

NoReply == [kind |-> "none", names |-> <<>>, counts |-> <<>>]
Ack(kind, names, counts) == [kind |-> kind, names |-> names, counts |-> counts]
Plain(kind) == Ack(kind, <<>>, <<>>)

RequiresAuth == load.password
Home == load.home

NewClientState ==
    [pc |-> "read", protocolVersion |-> 2, authenticated |-> ~RequiresAuth,
     inTransaction |-> FALSE, queuedCommands |-> <<>>, inPubSubMode |-> FALSE,
     reply |-> NoReply, channel |-> <<>>]

(* at: the target being sent to; holds: its writer lock has been taken.     *)
Idle == [phase |-> "wait", msg |-> <<>>, todo |-> {}, at |-> <<>>, holds |-> FALSE]

Init ==
    /\ load \in Loads
    /\ hub = [s \in Servers |-> NewHub]
    /\ session = [c \in Clients |-> NewClientState]
    /\ net = [c \in Clients |-> "ok"]
    /\ inbox = [s \in Servers |-> <<>>]
    /\ listener = [s \in Servers |-> IF s \in load.reachable THEN "up" ELSE "none"]
    /\ task = [s \in Servers |-> Idle]
    /\ published = 0 /\ breaks = 0
    /\ got = [c \in Clients |-> <<>>]
    /\ told = [c \in Clients |-> {}]
    /\ late = [c \in Clients |-> {}]
    /\ acked = [c \in Clients |-> <<>>]
    /\ lost = [s \in Servers |-> {}]

-----------------------------------------------------------------------------
(* Routing a command: the chain of conditions in handleConnection.          *)

Route(S, name) ==
    IF name \in {"AUTH", "HELLO"} THEN name
    ELSE IF ~S.authenticated THEN IF name \in {"PING", "QUIT", "COMMAND"} THEN "run" ELSE "refuse"
    ELSE IF name \in PubSubNames THEN name
    ELSE IF S.inPubSubMode /\ S.protocolVersion = 2
         THEN IF name \in {"PING", "QUIT"} THEN "run" ELSE "refuse"
    ELSE IF name \in {"RESET", "MULTI", "EXEC", "DISCARD"} THEN name
    ELSE IF S.inTransaction THEN "queue"
    ELSE "run"

(* Client c's handler has read a command that goes down route r.            *)
Receives(c, cmd, r) ==
    /\ session[c].pc = "read" /\ net[c] # "closed"
    /\ cmd \in load.offers[c]
    /\ Route(session[c], cmd.name) = r

Answer(c, S, reply) == session' = [session EXCEPT ![c] = [S EXCEPT !.pc = "reply", !.reply = reply]]

ErrorReply == Plain("error")

(* Commands that only touch the connection's own state.                     *)
Local(c, S, reply) ==
    /\ Answer(c, S, reply)
    /\ UNCHANGED <<hub, net, load, published, hubVars, history>>

Refuse(c) == \E cmd \in load.offers[c] : Receives(c, cmd, "refuse") /\ Local(c, session[c], ErrorReply)

Run(c) == \E cmd \in load.offers[c] : Receives(c, cmd, "run") /\ Local(c, session[c], Plain("value"))

auth(c) ==
    \E cmd \in load.offers[c] :
        /\ Receives(c, cmd, "AUTH")
        /\ IF RequiresAuth /\ cmd.password = "right"
           THEN Local(c, [session[c] EXCEPT !.authenticated = TRUE], Plain("value"))
           ELSE Local(c, session[c], ErrorReply)

(* The protocol version is set before the command is validated.             *)
GetHelloProtocolVersion(cmd) == IF cmd.version \in 2..3 THEN cmd.version ELSE 2

hello(c) ==
    \E cmd \in load.offers[c] :
        LET S == [session[c] EXCEPT !.protocolVersion = GetHelloProtocolVersion(cmd)]
        IN  /\ Receives(c, cmd, "HELLO")
            /\ IF cmd.version \notin 2..3 \/ (RequiresAuth /\ cmd.password = "wrong")
               THEN Local(c, S, ErrorReply)
               ELSE Local(c, [S EXCEPT !.authenticated = @ \/ cmd.password = "right"], Plain("value"))

\* Mutant of StartTransaction: a nested MULTI starts over.
StartTransactionAgain(S) ==
    [state |-> [S EXCEPT !.inTransaction = TRUE, !.queuedCommands = <<>>],
     reply |-> IF S.inTransaction THEN ErrorReply ELSE Plain("multi")]

StartTransaction(S) ==
    IF S.inTransaction
    THEN [state |-> S, reply |-> ErrorReply]
    ELSE [state |-> [S EXCEPT !.inTransaction = TRUE, !.queuedCommands = <<>>],
          reply |-> Plain("multi")]

HandleMulti(c) ==
    \E cmd \in load.offers[c] :
        LET t == StartTransaction(session[c])
        IN  Receives(c, cmd, "MULTI") /\ Local(c, t.state, t.reply)

QueueCommand(c) ==
    \E cmd \in load.offers[c] :
        /\ Receives(c, cmd, "queue")
        /\ Len(session[c].queuedCommands) < MaxQueue
        /\ Local(c, [session[c] EXCEPT !.queuedCommands = Append(@, cmd.name)],
                 Ack("queued", <<cmd.name>>, <<>>))

DiscardTransaction(S) == [S EXCEPT !.inTransaction = FALSE, !.queuedCommands = <<>>]

HandleDiscard(c) ==
    \E cmd \in load.offers[c] :
        /\ Receives(c, cmd, "DISCARD")
        /\ IF session[c].inTransaction
           THEN Local(c, DiscardTransaction(session[c]), Plain("discard"))
           ELSE Local(c, session[c], ErrorReply)

(* GetQueuedCommands empties the queue; the reply has one result for each,  *)
(* or is one error when runTx cannot begin, lock or commit.                 *)
HandleExec(c) ==
    \E cmd \in load.offers[c] :
        /\ Receives(c, cmd, "EXEC")
        /\ IF session[c].inTransaction
           THEN \/ Local(c, DiscardTransaction(session[c]),
                         Ack("results", session[c].queuedCommands, <<>>))
                \/ Local(c, DiscardTransaction(session[c]), ErrorReply)
           ELSE Local(c, session[c], ErrorReply)

-----------------------------------------------------------------------------
(* The pub/sub commands and RESET also change the hub's tables.             *)

WithHub(c, h, S, reply) ==
    /\ hub' = [hub EXCEPT ![Home[c]] = h]
    /\ Answer(c, S, reply)
    /\ UNCHANGED <<net, load, published, hubVars, got, told, acked>>

(* These three need a name: without one nothing changes.                    *)
WrongArgs(c) ==
    \E cmd \in load.offers[c] :
        /\ cmd.args = <<>>
        /\ \E name \in {"SUBSCRIBE", "PSUBSCRIBE", "PUBLISH"} : Receives(c, cmd, name)
        /\ Local(c, session[c], ErrorReply)

(* A name that is subscribed again starts a new count of late messages.     *)
Outstanding(L, kind, names) == {x \in L : x[2] \notin {<<kind, n>> : n \in Range(names)}}

HandleSubscribe(c) ==
    \E cmd \in load.offers[c] :
        LET h == hub[Home[c]]
            n == GetSubscriptionCount(h, c)
            k == CountsUp(h.channels, c, cmd.args)
        IN  /\ Receives(c, cmd, "SUBSCRIBE") /\ cmd.args # <<>>
            /\ WithHub(c, Subscribe(h, c, cmd.args), [session[c] EXCEPT !.inPubSubMode = TRUE],
                       Ack("subscribe", cmd.args, [i \in DOMAIN k |-> k[i] + n.patterns]))
            /\ late' = [late EXCEPT ![c] = Outstanding(@, "channel", cmd.args)]

HandlePSubscribe(c) ==
    \E cmd \in load.offers[c] :
        LET h == hub[Home[c]]
            n == GetSubscriptionCount(h, c)
            k == CountsUp(h.patterns, c, cmd.args)
        IN  /\ Receives(c, cmd, "PSUBSCRIBE") /\ cmd.args # <<>>
            /\ WithHub(c, PSubscribe(h, c, cmd.args), [session[c] EXCEPT !.inPubSubMode = TRUE],
                       Ack("psubscribe", cmd.args, [i \in DOMAIN k |-> k[i] + n.channels]))
            /\ late' = [late EXCEPT ![c] = Outstanding(@, "pattern", cmd.args)]

\* Mutant of ModeAfter: the patterns are forgotten.
ModeAfterChannels(h, c, S) ==
    IF GetSubscriptionCount(h, c).channels = 0 THEN [S EXCEPT !.inPubSubMode = FALSE] ELSE S

(* The client leaves pub/sub mode when neither kind of name is left.        *)
ModeAfter(h, c, S) ==
    LET n == GetSubscriptionCount(h, c)
    IN  IF n.channels = 0 /\ n.patterns = 0 THEN [S EXCEPT !.inPubSubMode = FALSE] ELSE S

\* Mutant of UnsubscribeCounts: the other kind of subscription is not counted.
UnsubscribeCountsOwn(k, others) == IF k = <<>> THEN <<0>> ELSE k

UnsubscribeCounts(k, others) ==
    IF k = <<>> THEN <<others>> ELSE [i \in DOMAIN k |-> k[i] + others]

HandleUnsubscribe(c) ==
    \E cmd \in load.offers[c] :
        LET h == hub[Home[c]]
            names == IF cmd.args = <<>> THEN GetSubscribedChannels(h, c) ELSE cmd.args
            after == Unsubscribe(h, c, names)
            k == CountsDown(h.channels, c, names)
        IN  /\ Receives(c, cmd, "UNSUBSCRIBE")
            /\ WithHub(c, after, ModeAfter(after, c, session[c]),
                       Ack("unsubscribe", names,
                           UnsubscribeCounts(k, GetSubscriptionCount(after, c).patterns)))
            /\ UNCHANGED late

HandlePUnsubscribe(c) ==
    \E cmd \in load.offers[c] :
        LET h == hub[Home[c]]
            names == IF cmd.args = <<>> THEN GetSubscribedPatterns(h, c) ELSE cmd.args
            after == PUnsubscribe(h, c, names)
            k == CountsDown(h.patterns, c, names)
        IN  /\ Receives(c, cmd, "PUNSUBSCRIBE")
            /\ WithHub(c, after, ModeAfter(after, c, session[c]),
                       Ack("punsubscribe", names,
                           UnsubscribeCounts(k, GetSubscriptionCount(after, c).channels)))
            /\ UNCHANGED late

(* RESET: discard, RemoveSubscriber in its two critical sections, RESP2.    *)
(* The pub/sub mode flag is not among the things it resets.                 *)
Reset(c) ==
    /\ \E cmd \in load.offers[c] : Receives(c, cmd, "RESET")
    /\ hub' = [hub EXCEPT ![Home[c]] = RemoveSubscriberChannels(@, c)]
    /\ session' = [session EXCEPT ![c] = [DiscardTransaction(@) EXCEPT !.pc = "reset"]]
    /\ UNCHANGED <<net, load, published, hubVars, history>>

ResetState(S) == [S EXCEPT !.protocolVersion = 2, !.authenticated = @ /\ ~RequiresAuth]

ResetEnds(c) ==
    /\ session[c].pc = "reset"
    /\ WithHub(c, RemoveSubscriberPatterns(hub[Home[c]], c), ResetState(session[c]), Plain("reset"))
    /\ UNCHANGED late

(* Publish: pg_notify commits, and only then are the local subscribers      *)
(* counted for the reply.                                                   *)
Listening(s) == listener[s] = "up"

Publish(c) ==
    \E cmd \in load.offers[c] :
        LET msg == [id |-> published + 1, ch |-> cmd.args[1]]
        IN  /\ Receives(c, cmd, "PUBLISH") /\ cmd.args # <<>>
            /\ published < load.messages
            /\ published' = published + 1
            /\ inbox' = [s \in Servers |-> IF Listening(s) THEN Append(inbox[s], msg) ELSE inbox[s]]
            /\ lost' = [s \in Servers |-> IF Listening(s) THEN lost[s] ELSE lost[s] \cup {msg.id}]
            /\ session' = [session EXCEPT ![c].pc = "count", ![c].channel = <<msg.ch>>]
            /\ UNCHANGED <<hub, net, load, listener, task, breaks, history>>

PublishFails(c) ==
    \E cmd \in load.offers[c] :
        Receives(c, cmd, "PUBLISH") /\ cmd.args # <<>> /\ Local(c, session[c], ErrorReply)

PublishCounts(c) ==
    /\ session[c].pc = "count"
    /\ Local(c, [session[c] EXCEPT !.channel = <<>>],
             Ack("count", <<>>, <<countSubscribers(hub[Home[c]], session[c].channel[1])>>))

-----------------------------------------------------------------------------
(* Writing the replies, and the end of a connection.                        *)

(* What the client knows of its subscriptions from a list of replies.       *)
Replay(known, kind, names) ==
    LET routes(k) == {<<k, n>> : n \in Range(names)}
    IN  CASE kind = "subscribe"    -> known \cup routes("channel")
          [] kind = "psubscribe"   -> known \cup routes("pattern")
          [] kind = "unsubscribe"  -> known \ routes("channel")
          [] kind = "punsubscribe" -> known \ routes("pattern")
          [] kind = "reset"        -> {}
          [] OTHER                 -> known

ReplyRead(c) ==
    LET r == session[c].reply
    IN  /\ told' = [told EXCEPT ![c] = Replay(@, r.kind, r.names)]
        /\ acked' = [acked EXCEPT ![c] =
                        IF r.kind = "queued" THEN @ \o r.names
                        ELSE IF r.kind \in {"multi", "results", "discard", "reset"} THEN <<>> ELSE @]
        /\ session' = [session EXCEPT ![c].pc = "read", ![c].reply = NoReply]

(* writerMu: the handler holds it while it is blocked in a write, and so    *)
(* does the hub.                                                            *)
HubHolds(c) == task[Home[c]].holds /\ task[Home[c]].at[1] = c
HandlerHolds(c) == session[c].pc = "write"

WriteResponses(c) ==
    /\ session[c].pc = "reply" /\ ~HubHolds(c)
    /\ CASE net[c] = "ok"      -> ReplyRead(c)
         [] net[c] = "stalled" -> session' = [session EXCEPT ![c].pc = "write"] /\ UNCHANGED <<told, acked>>
         [] net[c] = "closed"  -> session' = [session EXCEPT ![c].pc = "leave"] /\ UNCHANGED <<told, acked>>
    /\ UNCHANGED <<hub, net, load, published, hubVars, got, late>>

\* Mutant of WriteFails: the handler returns without its deferred cleanup.
WriteFailsGone(S) == [S EXCEPT !.pc = "gone"]

WriteFails(S) == [S EXCEPT !.pc = "leave"]

(* No write deadline: a blocked reply ends when the client reads again or   *)
(* the connection is closed.                                                *)
WriteEnds(c) ==
    /\ session[c].pc = "write"
    /\ \/ net[c] = "ok" /\ ReplyRead(c)
       \/ /\ net[c] = "closed"
          /\ session' = [session EXCEPT ![c] = WriteFails(@)]
          /\ UNCHANGED <<told, acked>>
    /\ UNCHANGED <<hub, net, load, published, hubVars, got, late>>

ReadFails(c) ==
    /\ session[c].pc = "read" /\ net[c] = "closed"
    /\ session' = [session EXCEPT ![c].pc = "leave"]
    /\ UNCHANGED <<hub, net, load, published, hubVars, history>>

(* The deferred RemoveSubscriber.                                           *)
Leave(c) ==
    /\ session[c].pc = "leave"
    /\ hub' = [hub EXCEPT ![Home[c]] = RemoveSubscriberChannels(@, c)]
    /\ session' = [session EXCEPT ![c].pc = "leave2"]
    /\ UNCHANGED <<net, load, published, hubVars, history>>

LeaveEnds(c) ==
    /\ session[c].pc = "leave2"
    /\ hub' = [hub EXCEPT ![Home[c]] = RemoveSubscriberPatterns(@, c)]
    /\ session' = [session EXCEPT ![c].pc = "gone"]
    /\ UNCHANGED <<net, load, published, hubVars, history>>

(* The client's side of the connection.                                     *)
NetChanges(c, from, to) ==
    /\ c \in load.frail /\ net[c] \in from
    /\ net' = [net EXCEPT ![c] = to]
    /\ UNCHANGED <<hub, session, load, published, hubVars, history>>

Stall(c) == NetChanges(c, {"ok"}, "stalled")
Resume(c) == NetChanges(c, {"stalled"}, "ok")
Hangup(c) == NetChanges(c, {"ok", "stalled"}, "closed")

-----------------------------------------------------------------------------
(* listenLoop.                                                              *)

\* Mutant of Remaining: a notification is taken twice.
RemainingAll(q) == IF Len(q) > 1 THEN Tail(q) ELSE q

Remaining(q) == Tail(q)

deliverToChannel(s) ==
    /\ task[s].phase = "wait" /\ inbox[s] # <<>> /\ listener[s] # "none"
    /\ inbox' = [inbox EXCEPT ![s] = Remaining(@)]
    /\ task' = [task EXCEPT ![s] = [Idle EXCEPT !.phase = "channel", !.msg = Head(inbox[s]),
                                              !.todo = ChannelTargets(hub[s], Head(inbox[s]).ch)]]
    /\ UNCHANGED <<hub, session, net, load, published, listener, breaks, lost, history>>

deliverToPatterns(s) ==
    /\ task[s].phase = "channel" /\ task[s].todo = {}
    /\ task' = [task EXCEPT ![s].phase = "pattern", ![s].todo = PatternTargets(hub[s], task[s].msg.ch)]
    /\ UNCHANGED <<hub, session, net, load, published, inbox, listener, breaks, lost, history>>

Delivered1(s) ==
    /\ task[s].phase = "pattern" /\ task[s].todo = {}
    /\ task' = [task EXCEPT ![s] = Idle]
    /\ UNCHANGED <<hub, session, net, load, published, inbox, listener, breaks, lost, history>>

Reaches(s, t) ==
    LET c == t[1] id == task[s].msg.id
    IN  /\ got' = [got EXCEPT ![c] = Append(@, <<id, t[2]>>)]
        /\ late' = [late EXCEPT ![c] =
                       IF t[2] \notin told[c] \cup Routes(hub[s], c) THEN @ \cup {<<id, t[2]>>} ELSE @]

SendDone(s, t) == task' = [task EXCEPT ![s].todo = @ \ {t}, ![s].at = <<>>, ![s].holds = FALSE]

(* Take the writer lock, set the 5 s write deadline, write.  The lock comes *)
(* first: behind a handler that is blocked in its own write the hub waits,  *)
(* and the other subscribers of the message wait with it.                   *)
SendPubSubMessage(s) ==
    \E t \in IF task[s].at = <<>> THEN task[s].todo ELSE {task[s].at} :
        /\ ~task[s].holds
        /\ IF HandlerHolds(t[1])
           THEN task[s].at = <<>> /\ task' = [task EXCEPT ![s].at = t] /\ UNCHANGED <<got, late>>
           ELSE CASE net[t[1]] = "ok"      -> SendDone(s, t) /\ Reaches(s, t)
                  [] net[t[1]] = "stalled" -> /\ task' = [task EXCEPT ![s].at = t, ![s].holds = TRUE]
                                              /\ UNCHANGED <<got, late>>
                  [] net[t[1]] = "closed"  -> SendDone(s, t) /\ UNCHANGED <<got, late>>
        /\ UNCHANGED <<hub, session, net, load, published, inbox, listener, breaks, lost, told, acked>>

\* Mutant of AfterSend: a failed send leaves the connection open.
AfterSendOpen(state) == state

(* A failed or timed out write closes the connection.                       *)
AfterSend(state) == IF state = "stalled" THEN "closed" ELSE state

SendEnds(s) ==
    /\ task[s].holds
    /\ LET t == task[s].at
       IN  /\ SendDone(s, t)
           /\ net' = [net EXCEPT ![t[1]] = AfterSend(@)]
           /\ IF net[t[1]] = "ok" THEN Reaches(s, t) ELSE UNCHANGED <<got, late>>
    /\ UNCHANGED <<hub, session, load, published, inbox, listener, breaks, lost, told, acked>>

(* The listener's connection breaks; notifications it has not received are  *)
(* gone, those already in the client library's queue are still handed out.  *)
ListenerBreaks(s) ==
    /\ Listening(s) /\ breaks < load.breaks
    /\ breaks' = breaks + 1
    /\ listener' = [listener EXCEPT ![s] = "broken"]
    /\ \E k \in 0..Len(inbox[s]) :
          /\ inbox' = [inbox EXCEPT ![s] = SubSeq(@, 1, k)]
          /\ lost' = [lost EXCEPT ![s] = @ \cup {inbox[s][i].id : i \in (k + 1)..Len(inbox[s])}]
    /\ UNCHANGED <<hub, session, net, load, published, task, history>>

(* WaitForNotification fails: the connection is dropped.                    *)
ListenerDropped(s) ==
    /\ task[s].phase = "wait" /\ listener[s] = "broken" /\ inbox[s] = <<>>
    /\ listener' = [listener EXCEPT ![s] = "none"]
    /\ UNCHANGED <<hub, session, net, load, published, inbox, task, breaks, lost, history>>

reconnect(s) ==
    /\ task[s].phase = "wait" /\ listener[s] = "none" /\ s \in load.reachable
    /\ listener' = [listener EXCEPT ![s] = "up"]
    /\ UNCHANGED <<hub, session, net, load, published, inbox, task, breaks, lost, history>>

-----------------------------------------------------------------------------

Command(c) ==
    \/ Refuse(c) \/ Run(c) \/ auth(c) \/ hello(c) \/ HandleMulti(c) \/ QueueCommand(c)
    \/ HandleDiscard(c) \/ HandleExec(c) \/ WrongArgs(c) \/ HandleSubscribe(c) \/ HandlePSubscribe(c)
    \/ HandleUnsubscribe(c) \/ HandlePUnsubscribe(c) \/ Reset(c) \/ Publish(c) \/ PublishFails(c)

handleConnection(c) ==
    \/ ResetEnds(c) \/ PublishCounts(c) \/ WriteResponses(c) \/ WriteEnds(c)
    \/ ReadFails(c) \/ Leave(c) \/ LeaveEnds(c)

listenLoop(s) ==
    \/ deliverToChannel(s) \/ deliverToPatterns(s) \/ Delivered1(s)
    \/ SendPubSubMessage(s) \/ SendEnds(s) \/ ListenerDropped(s) \/ reconnect(s)

Next ==
    \/ \E c \in Clients : Command(c) \/ handleConnection(c) \/ Stall(c) \/ Resume(c) \/ Hangup(c)
    \/ \E s \in Servers : listenLoop(s) \/ ListenerBreaks(s)

Spec == Init /\ [][Next]_vars

(* Goroutines that can run do run; clients owe nothing: they may stop       *)
(* sending commands, stop reading, and never come back.                     *)
FairSpec ==
    /\ Spec
    /\ \A c \in Clients : WF_vars(handleConnection(c))
    /\ \A s \in Servers : WF_vars(listenLoop(s))

-----------------------------------------------------------------------------
(* Properties.                                                              *)

AllRoutes == {<<"channel", ch>> : ch \in Channels} \cup {<<"pattern", p>> : p \in Patterns}

(* A client receives the messages in the order they were published, and     *)
(* each one at most once under each of its routes, whatever it subscribes   *)
(* to and cancels meanwhile and however often the listener reconnects.      *)
InOrderOnce ==
    \A c \in Clients : \A i, j \in DOMAIN got[c] :
        i < j => /\ got[c][i][1] <= got[c][j][1]
                 /\ got[c][i] # got[c][j]

(* The two sides of each table agree at every step of every command, so     *)
(* that RemoveSubscriber, which walks one side, leaves nothing behind on    *)
(* the other; a connection that is gone is in neither.                      *)
TablesAgree ==
    \A s \in Servers, c \in Clients :
        /\ \A ch \in Channels : c \in hub[s].channels.of[ch] <=> ch \in hub[s].channels.by[c]
        /\ \A p \in Patterns : c \in hub[s].patterns.of[p] <=> p \in hub[s].patterns.by[c]
        /\ session[c].pc = "gone" => Routes(hub[s], c) = {}

(* The counts in the replies to (P)SUBSCRIBE and (P)UNSUBSCRIBE are those   *)
(* a client arrives at by adding up the replies themselves: client          *)
(* libraries leave pub/sub mode when the count reaches zero.                *)
AcksCount ==
    \A c \in Clients :
        LET r == session[c].reply
        IN  r.kind \in {"subscribe", "psubscribe", "unsubscribe", "punsubscribe"} =>
              IF r.names = <<>>
              THEN r.counts = <<Cardinality(told[c])>>
              ELSE r.counts = [i \in DOMAIN r.names |->
                                  Cardinality(Replay(told[c], r.kind, SubSeq(r.names, 1, i)))]

(* The hub sends to a copy of the subscriber list, so a message can still   *)
(* arrive after the reply that confirmed the unsubscription; but only one   *)
(* for each name: the message whose delivery was under way.                 *)
OneLateMessage == \A c \in Clients : \A x, y \in late[c] : x[2] = y[2] => x = y

(* An EXEC that answers results answers exactly the commands the client was *)
(* told are QUEUED since its MULTI, in that order: nested MULTI, pub/sub     *)
(* commands, AUTH and HELLO between them change nothing about it.           *)
ExecAnswersQueued ==
    \A c \in Clients :
        session[c].reply.kind = "results" => session[c].reply.names = acked[c]

Parted(c) == session[c].inPubSubMode # (Routes(hub[Home[c]], c) # {})

(* Pub/sub mode, which shuts a RESP2 client out of all other commands,      *)
(* begins and ends with the subscriptions; only RESET, which drops the      *)
(* subscriptions and leaves the flag, can part the two.                     *)
ModeFollowsRoutes ==
    [][\A c \in Clients :
          ~Parted(c) /\ Parted(c)' =>
              session'[c].pc \in {"leave2", "gone", "reset"} \/ session[c].pc = "reset"]_vars

(* A handler is blocked writing a reply to a client that does not read.     *)
Stuck(s) == \E c \in Clients : Home[c] = s /\ HandlerHolds(c) /\ net[c] = "stalled"

(* A message that a server's listener has received reaches every client     *)
(* that is subscribed to it and stays so, unless the connection fails: with *)
(* one listener goroutine and a 5 s limit on its writes, slow clients delay *)
(* it and cannot stop it.  The exception is a client whose own reply is     *)
(* blocked: that write has no limit, and the hub waits behind it.           *)
MessagesArrive ==
    \A c \in Clients, r \in AllRoutes, id \in 1..MaxPublish :
        LET s == Home[c]
            For(m) == m.id = id /\ (r = <<"channel", m.ch>> \/
                                       (r[1] = "pattern" /\ <<r[2], m.ch>> \in Matching))
        IN  (r \in Routes(hub[s], c) /\ \E i \in DOMAIN inbox[s] : For(inbox[s][i]))
                ~> (\/ <<id, r>> \in Range(got[c])
                    \/ r \notin Routes(hub[s], c)
                    \/ net[c] = "closed"
                    \/ id \in lost[s]
                    \/ Stuck(s))

(* The subscriptions of a connection that failed, from whichever side and   *)
(* in whatever state its handler was, are removed in the end.               *)
ClosedIsForgotten ==
    \A c \in Clients : net[c] = "closed" ~> (session[c].pc = "gone" /\ Routes(hub[Home[c]], c) = {})

=============================================================================
