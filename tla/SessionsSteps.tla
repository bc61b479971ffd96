--------------------------- MODULE SessionsSteps ----------------------------
(***************************************************************************)
(* The inductive invariant of the client connections and the pub/sub hubs,  *)
(* and the steps that keep it: replies, transactions, writes, deliveries    *)
(* and, given what the operations of the hub promise, the commands that     *)
(* change the subscription tables.                                          *)
(*                                                                         *)
(* The invariant IInv has one part for each property.  A step of a handler  *)
(* changes one client, a step of listenLoop one server, so each part is     *)
(* stated for one client or one server.                                     *)
(***************************************************************************)
EXTENDS Sessions, TLAPS

-----------------------------------------------------------------------------
(* Types.                                                                   *)

Registry(names) == [of : [names -> SUBSET Clients], by : [Clients -> SUBSET names]]
Tables == [channels : Registry(Channels), patterns : Registry(Patterns)]

Kinds == {"none", "error", "value", "multi", "queued", "discard", "results", "subscribe",
          "psubscribe", "unsubscribe", "punsubscribe", "reset", "count"}
Replies ==
    {r \in [kind : Kinds, names : Seq(Names \cup Channels \cup Patterns), counts : Seq(Nat)] :
        /\ r.kind \in {"queued", "results"} => r.names \in Seq(Names)
        /\ r.kind \in {"subscribe", "unsubscribe"} => r.names \in Seq(Channels)
        /\ r.kind \in {"psubscribe", "punsubscribe"} => r.names \in Seq(Patterns)}

Handlers == {"read", "reply", "write", "count", "reset", "leave", "leave2", "gone"}
ClientRecords ==
    [pc : Handlers, protocolVersion : 2..3, authenticated : BOOLEAN, inTransaction : BOOLEAN,
     queuedCommands : Seq(Names), inPubSubMode : BOOLEAN, reply : Replies, channel : Seq(Channels)]

(* A PUBLISH that is still to be counted has its channel.                   *)
ClientStates == {S \in ClientRecords : S.pc = "count" => S.channel # <<>>}

Nets == {"ok", "stalled", "closed"}
Messages == [id : Nat, ch : Channels]
Targets == Clients \X AllRoutes
Tasks == [phase : {"wait", "channel", "pattern"}, msg : Messages \cup {<<>>},
          todo : SUBSET Targets, at : Targets \cup {<<>>}, holds : BOOLEAN]
Receipts == Nat \X AllRoutes

TypeInv ==
    /\ load \in Loads
    /\ hub \in [Servers -> Tables]
    /\ session \in [Clients -> ClientStates]
    /\ net \in [Clients -> Nets]
    /\ inbox \in [Servers -> Seq(Messages)]
    /\ listener \in [Servers -> {"up", "broken", "none"}]
    /\ task \in [Servers -> Tasks]
    /\ published \in Nat /\ breaks \in Nat
    /\ got \in [Clients -> Seq(Receipts)]
    /\ told \in [Clients -> SUBSET AllRoutes]
    /\ late \in [Clients -> SUBSET Receipts]
    /\ acked \in [Clients -> Seq(Names)]
    /\ lost \in [Servers -> SUBSET Nat]

-----------------------------------------------------------------------------
(* The parts of the invariant.                                              *)

(* The two sides of a registry agree, and nobody has infinitely many names. *)
Agrees(r, names) ==
    \A c \in Clients : /\ \A n \in names : c \in r.of[n] <=> n \in r.by[c]
                       /\ IsFiniteSet(r.by[c])

HubOK(h) == Agrees(h.channels, Channels) /\ Agrees(h.patterns, Patterns)

(* The counts of a reply, for a client that knows of these routes.          *)
CountOK(r, known) ==
    r.kind \in {"subscribe", "psubscribe", "unsubscribe", "punsubscribe"} =>
        IF r.names = <<>>
        THEN r.counts = <<Cardinality(known)>>
        ELSE r.counts = [i \in DOMAIN r.names |->
                            Cardinality(Replay(known, r.kind, SubSeq(r.names, 1, i)))]

(* A client is only in the tables of its own server, and RemoveSubscriber's *)
(* two critical sections have emptied what they are to empty.               *)
PlaceOK(c) ==
    /\ \A s \in Servers \ {Home[c]} : hub[s].channels.by[c] = {} /\ hub[s].patterns.by[c] = {}
    /\ session[c].pc \in {"reset", "leave2", "gone"} => hub[Home[c]].channels.by[c] = {}
    /\ session[c].pc = "gone" => hub[Home[c]].patterns.by[c] = {}

(* The queue of a transaction is what the client was told is QUEUED,        *)
(* together with the reply that is on its way.                              *)
ExecOK(S, A) ==
    LET kind == S.reply.kind
    IN  /\ S.pc \in {"read", "count", "reset"} => kind = "none"
        /\ S.pc = "reset" => ~S.inTransaction
        /\ kind = "queued" => S.inTransaction /\ S.queuedCommands = A \o S.reply.names
        /\ kind = "multi" => S.queuedCommands = <<>>
        /\ kind = "results" => S.reply.names = A
        /\ kind \in {"results", "discard", "reset"} => ~S.inTransaction
        /\ kind \notin {"queued", "multi"} => (S.inTransaction => S.queuedCommands = A)

(* What the client knows, together with the reply that is on its way, is    *)
(* what the tables say.                                                     *)
KnowsOK(S, known, routes) ==
    /\ S.pc \in {"read", "count"} => known = routes
    /\ S.pc \in {"reply", "write"} => Replay(known, S.reply.kind, S.reply.names) = routes
    /\ CountOK(S.reply, known)

(* One server's deliveries.  What waits is newer than what is being         *)
(* delivered, in order; the targets left are clients of this server that    *)
(* have not had the message under that route.                               *)
QueueOK(q, T) ==
    /\ \A i \in DOMAIN q : q[i].id <= published
    /\ \A i, j \in DOMAIN q : i < j => q[i].id < q[j].id
    /\ T.phase # "wait" => /\ T.msg \in Messages /\ T.msg.id <= published
                           /\ \A i \in DOMAIN q : T.msg.id < q[i].id
    /\ T.phase = "wait" => T.todo = {}
    /\ T.at # <<>> => T.at \in T.todo
    /\ T.holds => T.at # <<>>
    /\ T.phase # "wait" => \A t \in T.todo : t[2][1] = T.phase

(* One client's receipts, next to the deliveries of its server.             *)
ReceiptsOK(c, G, q, T) ==
    /\ \A i \in DOMAIN G :
          /\ G[i][1] <= published
          /\ \A j \in DOMAIN q : G[i][1] < q[j].id
          /\ T.phase # "wait" => /\ G[i][1] <= T.msg.id
                                 /\ <<c, G[i][2]>> \in T.todo => G[i][1] < T.msg.id
          /\ T.phase = "channel" /\ G[i][1] = T.msg.id => G[i][2][1] = "channel"
    /\ \A i, j \in DOMAIN G : i < j => G[i][1] <= G[j][1] /\ G[i] # G[j]

(* A message that came late is the last one of its name until the client    *)
(* subscribes again.                                                        *)
LateOK(c, L, routes, todo) ==
    /\ \A x \in L : x[2] \notin routes /\ <<c, x[2]>> \notin todo
    /\ \A x, y \in L : x[2] = y[2] => x = y

ServerOK(s) ==
    /\ HubOK(hub[s])
    /\ QueueOK(inbox[s], task[s])
    /\ \A t \in task[s].todo : Home[t[1]] = s

ClientOK(c) ==
    /\ PlaceOK(c)
    /\ ExecOK(session[c], acked[c])
    /\ KnowsOK(session[c], told[c], Routes(hub[Home[c]], c))
    /\ ReceiptsOK(c, got[c], inbox[Home[c]], task[Home[c]])
    /\ LateOK(c, late[c], Routes(hub[Home[c]], c), task[Home[c]].todo)

IInv == TypeInv /\ (\A s \in Servers : ServerOK(s)) /\ (\A c \in Clients : ClientOK(c))

-----------------------------------------------------------------------------
(* Sequences, replies and routes.                                           *)

\* The elements of a sequence are in its set.
LEMMA SeqElements ==
    ASSUME NEW S, NEW q \in Seq(S)
    PROVE  Len(q) \in Nat /\ DOMAIN q = 1..Len(q) /\ \A i \in DOMAIN q : q[i] \in S
  BY SMTT(30)

\* The queue behind the first message.
LEMMA SeqTail ==
    ASSUME NEW S, NEW q \in Seq(S), q # <<>>
    PROVE  /\ Head(q) \in S /\ Head(q) = q[1] /\ Tail(q) \in Seq(S) /\ 1 \in DOMAIN q
           /\ \A i \in DOMAIN Tail(q) : i \in Nat /\ i + 1 \in DOMAIN q /\ Tail(q)[i] = q[i + 1]
  OBVIOUS

\* A list of receipts with one more.
LEMMA SeqAppend ==
    ASSUME NEW S, NEW q \in Seq(S), NEW x
    PROVE  /\ DOMAIN Append(q, x) = 1..(Len(q) + 1) /\ Append(q, x)[Len(q) + 1] = x
           /\ \A i \in DOMAIN q : Append(q, x)[i] = q[i]
  OBVIOUS

\* What is left of a queue whose end is lost.
LEMMA SeqPrefix ==
    ASSUME NEW S, NEW q \in Seq(S), NEW k \in 0..Len(q)
    PROVE  /\ SubSeq(q, 1, k) \in Seq(S)
           /\ \A i \in DOMAIN SubSeq(q, 1, k) : i \in DOMAIN q /\ SubSeq(q, 1, k)[i] = q[i]
           /\ \A i \in (k + 1)..Len(q) : q[i] \in S
  OBVIOUS

\* A reply with names of the right kind.
LEMMA AckType ==
    ASSUME NEW kind \in Kinds, NEW N, N \subseteq Names \cup Channels \cup Patterns,
           NEW q \in Seq(N), NEW k \in Seq(Nat),
           kind \in {"queued", "results"} => N = Names,
           kind \in {"subscribe", "unsubscribe"} => N = Channels,
           kind \in {"psubscribe", "punsubscribe"} => N = Patterns
    PROVE  Ack(kind, q, k) \in Replies
<1>1. q \in Seq(Names \cup Channels \cup Patterns)
  OBVIOUS
<1> QED BY <1>1 DEF Ack, Replies

\* A reply that names nothing.
LEMMA NamelessType ==
    ASSUME NEW kind \in Kinds, NEW k \in Seq(Nat)
    PROVE  Ack(kind, <<>>, k) \in Replies
<1>1. /\ <<>> \in Seq(Names) /\ <<>> \in Seq(Channels) /\ <<>> \in Seq(Patterns)
      /\ <<>> \in Seq(Names \cup Channels \cup Patterns) /\ <<>> \in Seq(Nat)
  OBVIOUS
<1> QED BY <1>1, Zenon DEF Ack, Replies

\* A reply with nothing but its kind.
LEMMA PlainType ==
    ASSUME NEW kind \in Kinds
    PROVE  Plain(kind) \in Replies
<1>1. <<>> \in Seq(Nat)
  OBVIOUS
<1> QED BY <1>1, NamelessType, Zenon DEF Plain

RoutesOf(A, B) == {<<"channel", n>> : n \in A} \cup {<<"pattern", p>> : p \in B}

\* What the tables say of one client.
LEMMA OneClient ==
    ASSUME NEW h \in Tables, HubOK(h), NEW c \in Clients
    PROVE  /\ h.channels \in Registry(Channels) /\ Agrees(h.channels, Channels)
           /\ h.patterns \in Registry(Patterns) /\ Agrees(h.patterns, Patterns)
           /\ h.channels.by[c] \in SUBSET Channels /\ IsFiniteSet(h.channels.by[c])
           /\ h.patterns.by[c] \in SUBSET Patterns /\ IsFiniteSet(h.patterns.by[c])
           /\ Routes(h, c) = RoutesOf(h.channels.by[c], h.patterns.by[c])
           /\ Routes(h, c) \in SUBSET AllRoutes
<1>1. /\ h.channels \in Registry(Channels) /\ Agrees(h.channels, Channels)
      /\ h.patterns \in Registry(Patterns) /\ Agrees(h.patterns, Patterns)
  BY DEF Tables, HubOK
<1>2. h.channels.by[c] \in SUBSET Channels /\ h.patterns.by[c] \in SUBSET Patterns
  BY <1>1 DEF Registry
<1>3. IsFiniteSet(h.channels.by[c]) /\ IsFiniteSet(h.patterns.by[c])
  BY <1>1 DEF Agrees
<1>4. Routes(h, c) = RoutesOf(h.channels.by[c], h.patterns.by[c])
  BY DEF Routes, RoutesOf
<1>5. RoutesOf(h.channels.by[c], h.patterns.by[c]) \in SUBSET AllRoutes
  BY <1>2 DEF RoutesOf, AllRoutes
<1> QED BY <1>1, <1>2, <1>3, <1>4, <1>5

(* A change of the tables that concerns client c alone.                     *)
Changes(h, g, c) ==
    /\ g \in Tables /\ HubOK(g)
    /\ \A d \in Clients \ {c} : /\ g.channels.by[d] = h.channels.by[d]
                                /\ g.patterns.by[d] = h.patterns.by[d]

(* What the handlers of the four commands need to know: the tables change   *)
(* for this client alone, its routes are what it will add up, and so are    *)
(* the counts.                                                              *)
Registers(h, g, c, kind, q, counts) ==
    /\ Changes(h, g, c)
    /\ Routes(g, c) = Replay(Routes(h, c), kind, q)
    /\ Ack(kind, q, counts) \in Replies
    /\ CountOK(Ack(kind, q, counts), Routes(h, c))

\* The empty set of names is finite.
LEMMA EmptyFinite == IsFiniteSet({})
<1>1. <<>> \in Seq({})
  OBVIOUS
<1> QED BY <1>1, Zenon DEF IsFiniteSet

\* An empty registry agrees with itself.
LEMMA EmptyOK ==
    ASSUME NEW N
    PROVE  /\ EmptyRegistry(N) \in Registry(N)
           /\ Agrees(EmptyRegistry(N), N)
           /\ \A c \in Clients : EmptyRegistry(N).by[c] = {}
  BY EmptyFinite DEF EmptyRegistry, Registry, Agrees

-----------------------------------------------------------------------------
(* Steps of one client.                                                     *)

(* What ModeFollowsRoutes says of one step, for one client.                 *)
ModeKept(c) ==
    ~Parted(c) /\ Parted(c)' =>
        session'[c].pc \in {"leave2", "gone", "reset"} \/ session[c].pc = "reset"

(* The mode flag of S says whether c has a route in the tables g.           *)
ModeFits(S, g, c) == S.inPubSubMode = (Routes(g, c) # {})

(* Nothing of the other clients changes, nor of the deliveries.             *)
Mine(c) ==
    /\ UNCHANGED <<load, published, inbox, task, got>>
    /\ \A d \in Clients \ {c} : /\ session'[d] = session[d] /\ told'[d] = told[d]
                                /\ late'[d] = late[d] /\ acked'[d] = acked[d]
    /\ \A s \in Servers \ {Home[c]} : hub'[s] = hub[s]
    /\ Changes(hub[Home[c]], hub'[Home[c]], c)

\* Every client has a server.
LEMMA HomeType ==
    ASSUME TypeInv, NEW c \in Clients
    PROVE  Home[c] \in Servers
  BY LoadsAssumption DEF TypeInv, Home

\* A step that only changes one client keeps the invariant when it keeps
\* that client's part of it.
LEMMA ClientStep ==
    ASSUME IInv, TypeInv', NEW c \in Clients, Mine(c), ModeKept(c),
           session'[c].pc \in {"reset", "leave2", "gone"} => hub'[Home[c]].channels.by[c] = {},
           session'[c].pc = "gone" => hub'[Home[c]].patterns.by[c] = {},
           ExecOK(session'[c], acked'[c]),
           KnowsOK(session'[c], told'[c], Routes(hub'[Home[c]], c)),
           LateOK(c, late'[c], Routes(hub'[Home[c]], c), task[Home[c]].todo)
    PROVE  IInv' /\ \A d \in Clients : ModeKept(d)
<1>1. TypeInv /\ (\A s \in Servers : ServerOK(s)) /\ (\A d \in Clients : ClientOK(d))
  BY DEF IInv
<1>2. \A d \in Clients : Home[d] \in Servers
  BY <1>1, HomeType, Zenon
<1>3. Home' = Home /\ inbox' = inbox /\ task' = task /\ got' = got /\ published' = published
  BY Zenon DEF Mine, Home
<1>4. \A s \in Servers : HubOK(hub'[s])
  BY <1>1, Zenon DEF Mine, Changes, ServerOK
<1>5. \A s \in Servers : ServerOK(s)'
  <2>1. TAKE s \in Servers
  <2>2. QueueOK(inbox[s], task[s])' <=> QueueOK(inbox[s], task[s])
    BY <1>3 DEF QueueOK
  <2> QED BY <1>1, <1>3, <1>4, <2>2 DEF ServerOK
<1>6. \A s \in Servers, d \in Clients \ {c} :
         /\ hub'[s].channels.by[d] = hub[s].channels.by[d]
         /\ hub'[s].patterns.by[d] = hub[s].patterns.by[d]
  BY Zenon DEF Mine, Changes
<1>7. \A s \in Servers \ {Home[c]} : hub'[s] = hub[s]
  BY DEF Mine
<1>8. \A s \in Servers, d \in Clients \ {c} : Routes(hub'[s], d) = Routes(hub[s], d)
  BY <1>6, Zenon DEF Routes
<1>9. \A d \in Clients : ReceiptsOK(d, got[d], inbox[Home[d]], task[Home[d]])'
  <2>1. TAKE d \in Clients
  <2>2. ReceiptsOK(d, got[d], inbox[Home[d]], task[Home[d]])
    BY <1>1, Zenon DEF ClientOK
  <2> QED BY <1>3, <2>2, Zenon DEF ReceiptsOK
<1>10. ClientOK(c)'
  <2>1. PlaceOK(c)'
    BY <1>1, <1>3, <1>7, Zenon DEF PlaceOK, ClientOK
  <2>2. /\ ExecOK(session[c], acked[c])'
        /\ KnowsOK(session[c], told[c], Routes(hub[Home[c]], c))'
    BY <1>3, Zenon
  <2>3. LateOK(c, late[c], Routes(hub[Home[c]], c), task[Home[c]].todo)'
    BY <1>3, Zenon
  <2> QED BY <1>9, <2>1, <2>2, <2>3 DEF ClientOK
<1>11. ASSUME NEW d \in Clients \ {c}
       PROVE  ClientOK(d)' /\ ModeKept(d)
  <2>1. /\ session'[d] = session[d] /\ told'[d] = told[d]
        /\ late'[d] = late[d] /\ acked'[d] = acked[d]
    BY DEF Mine
  <2>2. PlaceOK(d)'
    <3>1. PlaceOK(d)
      BY <1>1 DEF ClientOK
    <3>2. \A s \in Servers : /\ hub'[s].channels.by[d] = hub[s].channels.by[d]
                             /\ hub'[s].patterns.by[d] = hub[s].patterns.by[d]
      BY <1>6, Zenon
    <3> QED BY <1>2, <1>3, <2>1, <3>1, <3>2, Zenon DEF PlaceOK
  <2>3. Routes(hub'[Home[d]], d) = Routes(hub[Home[d]], d)
    BY <1>2, <1>8
  <2>4. ExecOK(session[d], acked[d])' /\ KnowsOK(session[d], told[d], Routes(hub[Home[d]], d))'
    BY <1>1, <1>3, <2>1, <2>3, Zenon DEF ClientOK
  <2>5. LateOK(d, late[d], Routes(hub[Home[d]], d), task[Home[d]].todo)'
    BY <1>1, <1>3, <2>1, <2>3, Zenon DEF ClientOK
  <2>6. Parted(d)' <=> Parted(d)
    BY <1>3, <2>1, <2>3, Zenon DEF Parted
  <2> QED BY <1>9, <2>2, <2>4, <2>5, <2>6, Zenon DEF ClientOK, ModeKept
<1>12. \A d \in Clients : ClientOK(d)' /\ ModeKept(d)
  BY <1>10, <1>11, Zenon
<1>13. IInv'
  BY <1>5, <1>12 DEF IInv
<1> QED BY <1>12, <1>13

\* The client state in which a reply waits to be written.
LEMMA AnswerOK ==
    ASSUME TypeInv, NEW c \in Clients, NEW S \in ClientRecords, NEW r \in Replies, Answer(c, S, r)
    PROVE  /\ session' \in [Clients -> ClientStates]
           /\ session'[c].pc = "reply" /\ session'[c].reply = r
           /\ session'[c].inTransaction = S.inTransaction
           /\ session'[c].queuedCommands = S.queuedCommands
           /\ session'[c].inPubSubMode = S.inPubSubMode
           /\ \A d \in Clients \ {c} : session'[d] = session[d]
<1> DEFINE T == [S EXCEPT !.pc = "reply", !.reply = r]
<1>1. session \in [Clients -> ClientStates] /\ session' = [session EXCEPT ![c] = T]
  BY DEF TypeInv, Answer
<1>2. /\ T \in ClientRecords /\ T.pc = "reply" /\ T.reply = r
      /\ T.inTransaction = S.inTransaction /\ T.queuedCommands = S.queuedCommands
      /\ T.inPubSubMode = S.inPubSubMode
  BY Zenon DEF ClientRecords, Handlers
<1> HIDE DEF T
<1>3. T \in ClientStates
  BY <1>2 DEF ClientStates
<1> QED BY <1>1, <1>2, <1>3

(* The kinds of reply after which a client knows of other subscriptions.    *)
Registering == {"subscribe", "psubscribe", "unsubscribe", "punsubscribe"}

\* Any other reply says nothing about the subscriptions.
LEMMA ReplayOther ==
    ASSUME NEW known, NEW kind, kind \notin Registering \cup {"reset"}, NEW names
    PROVE  Replay(known, kind, names) = known
  BY Zenon DEF Replay, Registering

\* A client is in the tables of its server as the invariant says.
LEMMA Facts ==
    ASSUME IInv, NEW c \in Clients
    PROVE  /\ TypeInv /\ Home[c] \in Servers
           /\ session[c] \in ClientStates /\ session[c] \in ClientRecords
           /\ hub[Home[c]] \in Tables /\ HubOK(hub[Home[c]])
           /\ PlaceOK(c)
           /\ ExecOK(session[c], acked[c])
           /\ KnowsOK(session[c], told[c], Routes(hub[Home[c]], c))
           /\ LateOK(c, late[c], Routes(hub[Home[c]], c), task[Home[c]].todo)
<1>1. TypeInv /\ Home[c] \in Servers /\ ServerOK(Home[c]) /\ ClientOK(c)
  BY HomeType DEF IInv
<1>2. /\ session[c] \in ClientStates
      /\ hub[Home[c]] \in Tables
  BY <1>1 DEF TypeInv
<1>3. session[c] \in ClientRecords
  BY <1>2, Zenon DEF ClientStates
<1> QED BY <1>1, <1>2, <1>3 DEF ServerOK, ClientOK

\* A command that only touches the connection's own state.
LEMMA LocalStep ==
    ASSUME IInv, NEW c \in Clients, session[c].pc \in {"read", "count"},
           NEW S \in ClientRecords, NEW r \in Replies, Local(c, S, r),
           r.kind \notin Registering \cup {"reset"},
           S.inPubSubMode = session[c].inPubSubMode,
           \A T : /\ T.reply = r /\ T.pc = "reply"
                  /\ T.inTransaction = S.inTransaction /\ T.queuedCommands = S.queuedCommands
                  => ExecOK(T, acked[c])
    PROVE  IInv' /\ \A d \in Clients : ModeKept(d)
<1>1. /\ TypeInv /\ Home[c] \in Servers /\ hub[Home[c]] \in Tables /\ HubOK(hub[Home[c]])
      /\ KnowsOK(session[c], told[c], Routes(hub[Home[c]], c))
      /\ LateOK(c, late[c], Routes(hub[Home[c]], c), task[Home[c]].todo)
  BY Facts, Zenon
<1>2. /\ Answer(c, S, r)
      /\ UNCHANGED <<hub, net, load, published, inbox, listener, task, breaks, lost>>
      /\ UNCHANGED <<got, told, late, acked>>
  BY Zenon DEF Local, hubVars, history
<1>3. /\ session' \in [Clients -> ClientStates]
      /\ session'[c].pc = "reply" /\ session'[c].reply = r
      /\ session'[c].inTransaction = S.inTransaction
      /\ session'[c].queuedCommands = S.queuedCommands
      /\ session'[c].inPubSubMode = S.inPubSubMode
      /\ \A d \in Clients \ {c} : session'[d] = session[d]
  BY <1>1, <1>2, AnswerOK, Zenon
<1>4. TypeInv'
  BY <1>1, <1>2, <1>3, Zenon DEF TypeInv
<1>5. Mine(c)
  BY <1>1, <1>2, <1>3, Zenon DEF Mine, Changes
<1>6. ModeKept(c)
  BY <1>2, <1>3, Zenon DEF ModeKept, Parted, Home
<1>7. KnowsOK(session'[c], told'[c], Routes(hub'[Home[c]], c))
  <2>1. told[c] = Routes(hub[Home[c]], c)
    BY <1>1, Zenon DEF KnowsOK
  <2>2. Replay(told[c], r.kind, r.names) = told[c]
    BY ReplayOther, Zenon
  <2> QED BY <1>2, <1>3, <2>1, <2>2, Zenon DEF KnowsOK, CountOK, Registering
<1>8. LateOK(c, late'[c], Routes(hub'[Home[c]], c), task[Home[c]].todo)
  BY <1>1, <1>2, Zenon
<1>9. ExecOK(session'[c], acked'[c])
  BY <1>2, <1>3, Zenon
<1> QED BY <1>3, <1>4, <1>5, <1>6, <1>7, <1>8, <1>9, ClientStep, Zenon

\* What is known when a command has been read.
LEMMA Reading ==
    ASSUME IInv, NEW c \in Clients, NEW cmd, NEW route, Receives(c, cmd, route)
    PROVE  /\ session[c].pc = "read" /\ session[c] \in ClientRecords
           /\ session[c].inTransaction => session[c].queuedCommands = acked[c]
           /\ route = "queue" => session[c].inTransaction
           /\ cmd.name \in Names
           /\ route \in {"SUBSCRIBE", "UNSUBSCRIBE", "PUBLISH"} => cmd.args \in Seq(Channels)
           /\ route \in {"PSUBSCRIBE", "PUNSUBSCRIBE"} => cmd.args \in Seq(Patterns)
<1>1. TypeInv /\ session[c] \in ClientRecords /\ ExecOK(session[c], acked[c])
  BY Facts, Zenon
<1>2. load \in Loads /\ cmd \in load.offers[c] /\ session[c].pc = "read"
      /\ Route(session[c], cmd.name) = route
  BY <1>1, Zenon DEF TypeInv, Receives
<1>3. route \in PubSubNames => cmd.name = route
  BY <1>2 DEF Route, PubSubNames
<1>4. route = "queue" => session[c].inTransaction
  BY <1>2, Zenon DEF Route, PubSubNames
<1>5. session[c].inTransaction => session[c].queuedCommands = acked[c]
  BY <1>1, <1>2 DEF ExecOK
<1> QED BY <1>1, <1>2, <1>3, <1>4, <1>5, LoadsAssumption, Zenon DEF PubSubNames

\* Replies that leave a transaction as it is.
LEMMA SameQueue ==
    ASSUME IInv, NEW c \in Clients, session[c].pc \in {"read", "count"},
           NEW kind \in {"error", "value", "count"},
           NEW T, T.pc = "reply", T.reply.kind = kind,
           T.inTransaction = session[c].inTransaction,
           T.queuedCommands = session[c].queuedCommands
    PROVE  ExecOK(T, acked[c])
<1>1. ExecOK(session[c], acked[c])
  BY Facts, Zenon
<1> QED BY <1>1, Zenon DEF ExecOK

\* Commands that leave the transaction as it is.
LEMMA SimpleStep ==
    ASSUME IInv, NEW c \in Clients, session[c].pc \in {"read", "count"},
           NEW S \in ClientRecords, NEW r \in Replies, Local(c, S, r),
           r.kind \in {"error", "value", "count"},
           S.inPubSubMode = session[c].inPubSubMode, S.inTransaction = session[c].inTransaction,
           S.queuedCommands = session[c].queuedCommands
    PROVE  IInv' /\ \A d \in Clients : ModeKept(d)
<1>1. ASSUME NEW T, T.reply = r, T.pc = "reply", T.inTransaction = S.inTransaction,
             T.queuedCommands = S.queuedCommands
      PROVE  ExecOK(T, acked[c])
  BY <1>1, SameQueue
<1>2. r.kind \notin Registering \cup {"reset"}
  BY DEF Registering
<1> QED BY <1>1, <1>2, LocalStep, Zenon

\* Commands that are refused, run, or only concern authentication.
LEMMA PlainSteps ==
    ASSUME IInv, NEW c \in Clients,
           Refuse(c) \/ Run(c) \/ auth(c) \/ hello(c) \/ WrongArgs(c) \/ PublishFails(c)
    PROVE  IInv' /\ \A d \in Clients : ModeKept(d)
<1>1. ErrorReply \in Replies /\ Plain("value") \in Replies
  BY PlainType DEF ErrorReply, Kinds
<1>2. ErrorReply.kind = "error" /\ Plain("value").kind = "value"
  BY Zenon DEF ErrorReply, Plain, Ack
<1>3. session[c] \in ClientRecords
  BY Facts
<1>4. ASSUME session[c].pc = "read",
             NEW S \in ClientRecords, S.inPubSubMode = session[c].inPubSubMode,
             S.inTransaction = session[c].inTransaction,
             S.queuedCommands = session[c].queuedCommands,
             Local(c, S, ErrorReply) \/ Local(c, S, Plain("value"))
      PROVE  IInv' /\ \A d \in Clients : ModeKept(d)
  BY <1>1, <1>2, <1>4, SimpleStep
<1>5. CASE Refuse(c)
  BY <1>3, <1>4, <1>5, Zenon DEF Refuse, Receives
<1>6. CASE Run(c)
  BY <1>3, <1>4, <1>6, Zenon DEF Run, Receives
<1>7. CASE auth(c)
  <2>1. PICK cmd \in load.offers[c] : auth(c)!(cmd)
    BY <1>7 DEF auth
  <2> DEFINE S == [session[c] EXCEPT !.authenticated = TRUE]
  <2>2. /\ S \in ClientRecords /\ S.inPubSubMode = session[c].inPubSubMode
        /\ S.inTransaction = session[c].inTransaction
        /\ S.queuedCommands = session[c].queuedCommands
    BY <1>3, Zenon DEF ClientRecords
  <2>3. session[c].pc = "read"
    BY <2>1 DEF Receives
  <2> HIDE DEF S
  <2>4. Local(c, S, Plain("value")) \/ Local(c, session[c], ErrorReply)
    BY <2>1, Zenon DEF S
  <2> QED BY <1>3, <1>4, <2>2, <2>3, <2>4
<1>8. CASE hello(c)
  <2>1. PICK cmd \in load.offers[c] : hello(c)!(cmd)
    BY <1>8, Zenon DEF hello
  <2> DEFINE S == [session[c] EXCEPT !.protocolVersion = GetHelloProtocolVersion(cmd)]
             T == [S EXCEPT !.authenticated = @ \/ cmd.password = "right"]
  <2>2. GetHelloProtocolVersion(cmd) \in 2..3
    BY DEF GetHelloProtocolVersion
  <2>3. /\ S \in ClientRecords /\ S.inPubSubMode = session[c].inPubSubMode
        /\ S.inTransaction = session[c].inTransaction
        /\ S.queuedCommands = session[c].queuedCommands
    BY <1>3, <2>2 DEF ClientRecords
  <2> HIDE DEF S
  <2>4. /\ T \in ClientRecords /\ T.inPubSubMode = S.inPubSubMode
        /\ T.inTransaction = S.inTransaction
        /\ T.queuedCommands = S.queuedCommands
    BY <2>3, Zenon DEF ClientRecords
  <2>5. session[c].pc = "read"
    BY <2>1 DEF Receives
  <2> HIDE DEF T
  <2>6. Local(c, S, ErrorReply) \/ Local(c, T, Plain("value"))
    BY <2>1, Zenon DEF S, T
  <2> QED BY <1>4, <2>3, <2>4, <2>5, <2>6
<1>9. CASE WrongArgs(c)
  BY <1>3, <1>4, <1>9, Zenon DEF WrongArgs, Receives
<1>10. CASE PublishFails(c)
  BY <1>3, <1>4, <1>10 DEF PublishFails, Receives
<1> QED BY <1>5, <1>6, <1>7, <1>8, <1>9, <1>10

\* MULTI, the commands it queues, DISCARD and EXEC.
LEMMA TransactionSteps ==
    ASSUME IInv, NEW c \in Clients,
           HandleMulti(c) \/ QueueCommand(c) \/ HandleDiscard(c) \/ HandleExec(c)
    PROVE  IInv' /\ \A d \in Clients : ModeKept(d)
<1> DEFINE S == session[c]
           Started == [S EXCEPT !.inTransaction = TRUE, !.queuedCommands = <<>>]
           Ended == DiscardTransaction(S)
<1>1. TypeInv /\ S \in ClientRecords /\ S.queuedCommands \in Seq(Names) /\ <<>> \in Seq(Names)
  BY Facts DEF ClientRecords
<1>2. /\ ErrorReply \in Replies /\ ErrorReply.kind = "error"
      /\ Plain("multi") \in Replies /\ Plain("multi").kind = "multi"
      /\ Plain("discard") \in Replies /\ Plain("discard").kind = "discard"
  BY PlainType DEF ErrorReply, Kinds, Plain, Ack
<1>3. /\ Started \in ClientRecords /\ Started.inPubSubMode = S.inPubSubMode
      /\ Started.inTransaction /\ Started.queuedCommands = <<>>
  BY <1>1, Zenon DEF ClientRecords
<1>4. /\ Ended \in ClientRecords /\ Ended.inPubSubMode = S.inPubSubMode
      /\ ~Ended.inTransaction /\ Ended.queuedCommands = <<>>
  BY <1>1, Zenon DEF ClientRecords, DiscardTransaction
<1> HIDE DEF Started, Ended
<1>5. ASSUME S.pc = "read", Local(c, S, ErrorReply)
      PROVE  IInv' /\ \A d \in Clients : ModeKept(d)
  BY <1>1, <1>2, <1>5, SimpleStep, Zenon
<1>6. CASE HandleMulti(c)
  <2>1. /\ S.pc = "read"
        /\ \/ Local(c, S, ErrorReply)
           \/ Local(c, Started, Plain("multi"))
    BY <1>6 DEF HandleMulti, StartTransaction, Receives, Started
  <2>2. ASSUME NEW T, T.reply = Plain("multi"), T.pc = "reply",
               T.inTransaction = Started.inTransaction, T.queuedCommands = Started.queuedCommands
        PROVE  ExecOK(T, acked[c])
    BY <1>2, <1>3, <2>2, Zenon DEF ExecOK
  <2>3. Plain("multi").kind \notin Registering \cup {"reset"}
    BY <1>2 DEF Registering
  <2>4. CASE Local(c, Started, Plain("multi"))
    BY <1>2, <1>3, <2>1, <2>2, <2>3, <2>4, LocalStep, Zenon
  <2> QED BY <1>5, <2>1, <2>4
<1>7. CASE HandleDiscard(c)
  <2>1. /\ S.pc = "read"
        /\ \/ Local(c, S, ErrorReply)
           \/ Local(c, Ended, Plain("discard"))
    BY <1>7 DEF HandleDiscard, Receives, Ended
  <2>2. ASSUME NEW T, T.reply = Plain("discard"), T.pc = "reply",
               T.inTransaction = Ended.inTransaction, T.queuedCommands = Ended.queuedCommands
        PROVE  ExecOK(T, acked[c])
    BY <1>2, <1>4, <2>2, Zenon DEF ExecOK
  <2>3. Plain("discard").kind \notin Registering \cup {"reset"}
    BY <1>2, Zenon DEF Registering
  <2>4. CASE Local(c, Ended, Plain("discard"))
    BY <1>2, <1>4, <2>1, <2>2, <2>3, <2>4, LocalStep, Zenon
  <2> QED BY <1>5, <2>1, <2>4, Zenon
<1>8. CASE HandleExec(c)
  <2> DEFINE r == Ack("results", S.queuedCommands, <<>>)
  <2>1. PICK cmd \in load.offers[c] : HandleExec(c)!(cmd)
    BY <1>8, Zenon DEF HandleExec
  <2>2. S.pc = "read" /\ (S.inTransaction => S.queuedCommands = acked[c])
    BY <2>1, Reading, Zenon
  <2>3. \/ Local(c, S, ErrorReply)
        \/ S.inTransaction /\ Local(c, Ended, r)
        \/ Local(c, Ended, ErrorReply)
    BY <2>1 DEF Ended
  <2>4. r \in Replies
    <3>1. "results" \in Kinds /\ <<>> \in Seq(Nat) /\ Names \subseteq Names \cup Channels \cup Patterns
      BY SMTT(30) DEF Kinds
    <3> QED BY <1>1, <3>1, AckType, Zenon
  <2>5. r.kind = "results" /\ r.names = S.queuedCommands
    BY DEF Ack
  <2> HIDE DEF r
  <2>6. ASSUME S.inTransaction, NEW T, T.reply = r, T.pc = "reply",
               T.inTransaction = Ended.inTransaction, T.queuedCommands = Ended.queuedCommands
        PROVE  ExecOK(T, acked[c])
    BY <1>4, <2>2, <2>5, <2>6, Zenon DEF ExecOK
  <2>7. r.kind \notin Registering \cup {"reset"}
    BY <2>5, Zenon DEF Registering
  <2>8. CASE S.inTransaction /\ Local(c, Ended, r)
    BY <1>4, <2>2, <2>4, <2>6, <2>7, <2>8, LocalStep
  <2>9. ASSUME NEW T, T.reply = ErrorReply, T.pc = "reply",
               T.inTransaction = Ended.inTransaction, T.queuedCommands = Ended.queuedCommands
        PROVE  ExecOK(T, acked[c])
    BY <1>2, <1>4, <2>9, Zenon DEF ExecOK
  <2>10. ErrorReply.kind \notin Registering \cup {"reset"}
    BY <1>2, Zenon DEF Registering
  <2>11. CASE Local(c, Ended, ErrorReply)
    BY <1>2, <1>4, <2>2, <2>9, <2>10, <2>11, LocalStep, Zenon
  <2> QED BY <1>5, <2>2, <2>3, <2>8, <2>11, Zenon
<1>9. CASE QueueCommand(c)
  <2>1. PICK cmd \in load.offers[c] : QueueCommand(c)!(cmd)
    BY <1>9, Zenon DEF QueueCommand
  <2> DEFINE Q == [S EXCEPT !.queuedCommands = Append(@, cmd.name)]
             r == Ack("queued", <<cmd.name>>, <<>>)
  <2>2. /\ S.pc = "read" /\ S.inTransaction /\ S.queuedCommands = acked[c]
        /\ cmd.name \in Names
    BY <2>1, Reading
  <2>10. Append(S.queuedCommands, cmd.name) \in Seq(Names)
    BY <1>1, <2>2
  <2>3. /\ Q \in ClientRecords /\ Q.inPubSubMode = S.inPubSubMode
        /\ Q.inTransaction = S.inTransaction
        /\ Q.queuedCommands = Append(S.queuedCommands, cmd.name)
    BY <1>1, <2>10, Zenon DEF ClientRecords
  <2>4. Append(S.queuedCommands, cmd.name) = S.queuedCommands \o <<cmd.name>>
    BY <1>1, <2>2
  <2>5. r \in Replies
    <3>1. /\ "queued" \in Kinds /\ <<>> \in Seq(Nat) /\ <<cmd.name>> \in Seq(Names)
          /\ Names \subseteq Names \cup Channels \cup Patterns
      BY <2>2 DEF Kinds
    <3> QED BY <3>1, AckType, Zenon
  <2>6. r.kind = "queued" /\ r.names = <<cmd.name>>
    BY DEF Ack
  <2>7. Local(c, Q, r)
    BY <2>1
  <2> HIDE DEF Q, r
  <2>8. ASSUME NEW T, T.reply = r, T.pc = "reply",
               T.inTransaction = Q.inTransaction, T.queuedCommands = Q.queuedCommands
        PROVE  ExecOK(T, acked[c])
    BY <2>2, <2>3, <2>4, <2>6, <2>8, Zenon DEF ExecOK
  <2>9. r.kind \notin Registering \cup {"reset"}
    BY <2>6 DEF Registering
  <2> QED BY <2>2, <2>3, <2>5, <2>7, <2>8, <2>9, LocalStep, Zenon
<1> QED BY <1>6, <1>7, <1>8, <1>9, Zenon

\* A step of the handler that leaves the tables alone.
LEMMA OwnStep ==
    ASSUME IInv, NEW c \in Clients, NEW S \in ClientStates,
           NEW K \in SUBSET AllRoutes, NEW A \in Seq(Names),
           session' = [session EXCEPT ![c] = S],
           told' = [told EXCEPT ![c] = K], acked' = [acked EXCEPT ![c] = A],
           UNCHANGED <<hub, net, load, published, hubVars, got, late>>,
           S.inPubSubMode = session[c].inPubSubMode, S.pc \notin {"reset", "leave2", "gone"},
           ExecOK(S, A), KnowsOK(S, K, Routes(hub[Home[c]], c))
    PROVE  IInv' /\ \A d \in Clients : ModeKept(d)
<1>1. /\ TypeInv /\ Home[c] \in Servers /\ hub[Home[c]] \in Tables /\ HubOK(hub[Home[c]])
      /\ LateOK(c, late[c], Routes(hub[Home[c]], c), task[Home[c]].todo)
  BY Facts, Zenon
<1>2. UNCHANGED <<hub, net, load, published, inbox, listener, task, breaks, lost, got, late>>
  BY Zenon DEF hubVars
<1>3. /\ session \in [Clients -> ClientStates] /\ told \in [Clients -> SUBSET AllRoutes]
      /\ acked \in [Clients -> Seq(Names)]
  BY <1>1, Zenon DEF TypeInv
<1>4. /\ session' \in [Clients -> ClientStates] /\ session'[c] = S
      /\ told' \in [Clients -> SUBSET AllRoutes] /\ told'[c] = K
      /\ acked' \in [Clients -> Seq(Names)] /\ acked'[c] = A
      /\ \A d \in Clients \ {c} : session'[d] = session[d] /\ told'[d] = told[d] /\ acked'[d] = acked[d]
  BY <1>3, Zenon
<1>5. TypeInv'
  BY <1>1, <1>2, <1>4 DEF TypeInv
<1>6. Mine(c)
  BY <1>1, <1>2, <1>4, Zenon DEF Mine, Changes
<1>7. ModeKept(c)
  BY <1>2, <1>4, Zenon DEF ModeKept, Parted, Home
<1>8. LateOK(c, late'[c], Routes(hub'[Home[c]], c), task[Home[c]].todo)
  BY <1>1, <1>2, Zenon
<1>9. ExecOK(session'[c], acked'[c]) /\ KnowsOK(session'[c], told'[c], Routes(hub'[Home[c]], c))
  BY <1>2, <1>4, Zenon
<1> QED BY <1>4, <1>5, <1>6, <1>7, <1>8, <1>9, ClientStep, Zenon

\* The client has read a reply: it now knows what the tables say.
LEMMA ReplyReadStep ==
    ASSUME IInv, NEW c \in Clients, session[c].pc \in {"reply", "write"}, ReplyRead(c),
           UNCHANGED <<hub, net, load, published, hubVars, got, late>>
    PROVE  IInv' /\ \A d \in Clients : ModeKept(d)
<1> DEFINE r == session[c].reply
           S == [session[c] EXCEPT !.pc = "read", !.reply = NoReply]
           K == Replay(told[c], r.kind, r.names)
           A == IF r.kind = "queued" THEN acked[c] \o r.names
                ELSE IF r.kind \in {"multi", "results", "discard", "reset"} THEN <<>> ELSE acked[c]
<1>1. /\ TypeInv /\ hub[Home[c]] \in Tables /\ HubOK(hub[Home[c]])
      /\ session[c] \in ClientRecords
      /\ ExecOK(session[c], acked[c]) /\ KnowsOK(session[c], told[c], Routes(hub[Home[c]], c))
  BY Facts, Zenon
<1>2. /\ session \in [Clients -> ClientStates] /\ told \in [Clients -> SUBSET AllRoutes]
      /\ acked \in [Clients -> Seq(Names)] /\ acked[c] \in Seq(Names)
  BY <1>1, Zenon DEF TypeInv
<1>3. K = Routes(hub[Home[c]], c)
  BY <1>1 DEF KnowsOK
<1>4. K \in SUBSET AllRoutes
  BY <1>1, <1>3, OneClient, Zenon
<1>5. r.kind = "queued" => r.names \in Seq(Names)
  BY <1>1, Zenon DEF ClientRecords, Replies
<1>6. A \in Seq(Names)
  BY <1>2, <1>5, SMTT(30)
<1>7. NoReply \in Replies /\ NoReply.kind = "none"
  BY PlainType DEF NoReply, Plain, Ack, Kinds
<1>8. /\ session' = [session EXCEPT ![c] = S]
      /\ told' = [told EXCEPT ![c] = K] /\ acked' = [acked EXCEPT ![c] = A]
  BY <1>2, Zenon DEF ReplyRead
<1>9. /\ S \in ClientRecords /\ S.pc = "read" /\ S.reply = NoReply
      /\ S.inTransaction = session[c].inTransaction /\ S.inPubSubMode = session[c].inPubSubMode
      /\ S.queuedCommands = session[c].queuedCommands
  BY <1>1, <1>7, Zenon DEF ClientRecords, Handlers
<1>10. session[c].inTransaction => session[c].queuedCommands = A
  BY <1>1, Zenon DEF ExecOK
<1> HIDE DEF S, K, A, r
<1>11. S \in ClientStates
  BY <1>9, Zenon DEF ClientStates
<1>12. ExecOK(S, A)
  BY <1>7, <1>9, <1>10, Zenon DEF ExecOK
<1>13. KnowsOK(S, K, Routes(hub[Home[c]], c))
  BY <1>3, <1>7, <1>9 DEF KnowsOK, CountOK
<1> QED BY <1>4, <1>6, <1>8, <1>9, <1>11, <1>12, <1>13, OwnStep, Zenon

\* Writing a reply, or giving up on the connection.
LEMMA WriteSteps ==
    ASSUME IInv, NEW c \in Clients, WriteResponses(c) \/ WriteEnds(c) \/ ReadFails(c)
    PROVE  IInv' /\ \A d \in Clients : ModeKept(d)
<1>1. /\ TypeInv /\ session[c] \in ClientRecords
      /\ ExecOK(session[c], acked[c]) /\ KnowsOK(session[c], told[c], Routes(hub[Home[c]], c))
  BY Facts
<1>2. /\ session \in [Clients -> ClientStates] /\ net[c] \in Nets
      /\ told \in [Clients -> SUBSET AllRoutes] /\ acked \in [Clients -> Seq(Names)]
  BY <1>1 DEF TypeInv
<1>3. ASSUME NEW pc, (session[c].pc = "reply" /\ pc = "write") \/ pc = "leave",
             session' = [session EXCEPT ![c].pc = pc],
             UNCHANGED <<hub, net, load, published, hubVars, history>>
      PROVE  IInv' /\ \A d \in Clients : ModeKept(d)
  <2> DEFINE S == [session[c] EXCEPT !.pc = pc]
  <2>1. session' = [session EXCEPT ![c] = S]
    BY <1>2, <1>3
  <2>2. pc \in Handlers
    BY <1>3 DEF Handlers
  <2>3. /\ S \in ClientRecords /\ S.pc = pc /\ S.reply = session[c].reply
        /\ S.inTransaction = session[c].inTransaction /\ S.inPubSubMode = session[c].inPubSubMode
        /\ S.queuedCommands = session[c].queuedCommands
    BY <1>1, <2>2, Zenon DEF ClientRecords
  <2> HIDE DEF S
  <2>4. S \in ClientStates
    BY <1>3, <2>3 DEF ClientStates
  <2>5. ExecOK(S, acked[c]) /\ KnowsOK(S, told[c], Routes(hub[Home[c]], c))
    BY <1>1, <1>3, <2>3, Zenon DEF ExecOK, KnowsOK
  <2>6. /\ told' = [told EXCEPT ![c] = told[c]] /\ told[c] \in SUBSET AllRoutes
        /\ acked' = [acked EXCEPT ![c] = acked[c]] /\ acked[c] \in Seq(Names)
        /\ UNCHANGED <<hub, net, load, published, hubVars, got, late>>
    BY <1>2, <1>3 DEF history
  <2>7. S.pc \notin {"reset", "leave2", "gone"}
    BY <1>3, <2>3
  <2> QED BY <2>1, <2>3, <2>4, <2>5, <2>6, <2>7, OwnStep, Zenon
<1>4. CASE WriteResponses(c)
  <2>1. /\ session[c].pc = "reply"
        /\ UNCHANGED <<hub, net, load, published, hubVars, got, late>>
    BY <1>4 DEF WriteResponses
  <2>2. \/ ReplyRead(c)
        \/ session' = [session EXCEPT ![c].pc = "write"] /\ UNCHANGED <<told, acked>>
        \/ session' = [session EXCEPT ![c].pc = "leave"] /\ UNCHANGED <<told, acked>>
    BY <1>2, <1>4, Zenon DEF WriteResponses, Nets
  <2>3. CASE ReplyRead(c)
    BY <2>1, <2>3, ReplyReadStep
  <2>4. CASE \/ session' = [session EXCEPT ![c].pc = "write"] /\ UNCHANGED <<told, acked>>
             \/ session' = [session EXCEPT ![c].pc = "leave"] /\ UNCHANGED <<told, acked>>
    <3>1. UNCHANGED <<hub, net, load, published, hubVars, history>>
      BY <2>1, <2>4 DEF history
    <3> QED BY <1>3, <2>1, <2>4, <3>1
  <2> QED BY <2>2, <2>3, <2>4
<1>5. CASE WriteEnds(c)
  <2>1. /\ session[c].pc = "write"
        /\ UNCHANGED <<hub, net, load, published, hubVars, got, late>>
    BY <1>5 DEF WriteEnds
  <2>2. \/ ReplyRead(c)
        \/ session' = [session EXCEPT ![c] = WriteFails(@)] /\ UNCHANGED <<told, acked>>
    BY <1>5, Zenon DEF WriteEnds
  <2>3. CASE ReplyRead(c)
    BY <2>1, <2>3, ReplyReadStep
  <2>4. CASE session' = [session EXCEPT ![c] = WriteFails(@)] /\ UNCHANGED <<told, acked>>
    <3>1. UNCHANGED <<hub, net, load, published, hubVars, history>>
      BY <2>1, <2>4 DEF history
    <3>2. session' = [session EXCEPT ![c].pc = "leave"]
      BY <1>2, <2>4 DEF WriteFails
    <3> QED BY <1>3, <3>1, <3>2, Zenon
  <2> QED BY <2>2, <2>3, <2>4
<1>6. CASE ReadFails(c)
  BY <1>3, <1>6, Zenon DEF ReadFails
<1> QED BY <1>4, <1>5, <1>6, Zenon

-----------------------------------------------------------------------------
(* Steps of the network and of listenLoop.                                  *)

\* A step that leaves the handlers and the tables alone keeps the invariant
\* when it keeps the part of one server and its clients.
LEMMA DeliveryStep ==
    ASSUME IInv, TypeInv', NEW s \in Servers,
           UNCHANGED <<load, hub, session, told, acked, published>>,
           \A z \in Servers \ {s} : inbox'[z] = inbox[z] /\ task'[z] = task[z],
           \A c \in Clients : Home[c] # s => got'[c] = got[c] /\ late'[c] = late[c],
           QueueOK(inbox'[s], task'[s]), \A t \in task'[s].todo : Home[t[1]] = s,
           \A c \in Clients : Home[c] = s =>
              /\ ReceiptsOK(c, got'[c], inbox'[s], task'[s])
              /\ LateOK(c, late'[c], Routes(hub[s], c), task'[s].todo)
    PROVE  IInv' /\ \A d \in Clients : ModeKept(d)
<1>1. TypeInv /\ (\A z \in Servers : ServerOK(z)) /\ (\A c \in Clients : ClientOK(c))
  BY Zenon DEF IInv
<1>2. Home' = Home
  BY Zenon DEF Home
<1>3. \A z \in Servers : ServerOK(z)'
  <2>1. TAKE z \in Servers
  <2>2. HubOK(hub[z])'
    BY <1>1, Zenon DEF ServerOK
  <2>3. QueueOK(inbox[z], task[z])'
    <3>1. QueueOK(inbox'[z], task'[z])
      BY <1>1 DEF ServerOK
    <3> QED BY <3>1, Zenon DEF QueueOK
  <2>4. \A t \in task'[z].todo : Home'[t[1]] = z
    BY <1>1, <1>2, Zenon DEF ServerOK
  <2> QED BY <2>2, <2>3, <2>4, Zenon DEF ServerOK
<1>4. \A c \in Clients : ClientOK(c)' /\ ModeKept(c)
  <2>1. TAKE c \in Clients
  <2>2. ClientOK(c) /\ Home[c] \in Servers
    BY <1>1, HomeType, Zenon
  <2>3. PlaceOK(c)' /\ ExecOK(session[c], acked[c])'
    BY <1>2, <2>2, Zenon DEF ClientOK, PlaceOK
  <2>4. KnowsOK(session[c], told[c], Routes(hub[Home[c]], c))'
    BY <1>2, <2>2, Zenon DEF ClientOK
  <2>5. ReceiptsOK(c, got[c], inbox[Home[c]], task[Home[c]])'
    <3>1. ReceiptsOK(c, got'[c], inbox'[Home[c]], task'[Home[c]])
      BY <2>2, Zenon DEF ClientOK
    <3> QED BY <1>2, <3>1, Zenon DEF ReceiptsOK
  <2>6. LateOK(c, late[c], Routes(hub[Home[c]], c), task[Home[c]].todo)'
    BY <1>2, <2>2, Zenon DEF ClientOK
  <2>7. ModeKept(c)
    BY <1>2, Zenon DEF ModeKept, Parted
  <2> QED BY <2>3, <2>4, <2>5, <2>6, <2>7, Zenon DEF ClientOK
<1>5. IInv'
  BY <1>3, <1>4, Zenon DEF IInv
<1> QED BY <1>4, <1>5

\* What the invariant says of one server and its clients.
LEMMA ServerFacts ==
    ASSUME IInv, NEW s \in Servers
    PROVE  /\ TypeInv /\ HubOK(hub[s]) /\ hub[s] \in Tables
           /\ inbox[s] \in Seq(Messages) /\ task[s] \in Tasks
           /\ QueueOK(inbox[s], task[s])
           /\ \A t \in task[s].todo : Home[t[1]] = s
           /\ \A c \in Clients : Home[c] = s =>
                 /\ ReceiptsOK(c, got[c], inbox[s], task[s])
                 /\ LateOK(c, late[c], Routes(hub[s], c), task[s].todo)
           /\ \A c \in Clients : Home[c] # s => Routes(hub[s], c) = {}
<1>1. TypeInv /\ ServerOK(s) /\ \A c \in Clients : ClientOK(c)
  BY DEF IInv
<1>2. hub[s] \in Tables /\ inbox[s] \in Seq(Messages) /\ task[s] \in Tasks
  BY <1>1, Zenon DEF TypeInv
<1>3. \A c \in Clients : Home[c] = s =>
         /\ ReceiptsOK(c, got[c], inbox[s], task[s])
         /\ LateOK(c, late[c], Routes(hub[s], c), task[s].todo)
  BY <1>1, Zenon DEF ClientOK
<1>4. \A c \in Clients : Home[c] # s => Routes(hub[s], c) = {}
  <2>1. TAKE c \in Clients
  <2>2. HAVE Home[c] # s
  <2>3. hub[s].channels.by[c] = {} /\ hub[s].patterns.by[c] = {}
    BY <1>1, <2>2, Zenon DEF ClientOK, PlaceOK
  <2> QED BY <2>3 DEF Routes
<1> QED BY <1>1, <1>2, <1>3, <1>4, Zenon DEF ServerOK

\* Whom a message is sent to: clients that have a route for it.
LEMMA TargetsOK ==
    ASSUME NEW h \in Tables, HubOK(h), NEW ch \in Channels
    PROVE  /\ \A t \in ChannelTargets(h, ch) :
                 t \in Targets /\ t[2] \in Routes(h, t[1]) /\ t[2][1] = "channel"
           /\ \A t \in PatternTargets(h, ch) :
                 t \in Targets /\ t[2] \in Routes(h, t[1]) /\ t[2][1] = "pattern"
<1>1. /\ h.channels.of \in [Channels -> SUBSET Clients]
      /\ h.patterns.of \in [Patterns -> SUBSET Clients]
  BY DEF Tables, Registry
<1>2. ASSUME NEW t \in ChannelTargets(h, ch)
      PROVE  t \in Targets /\ t[2] \in Routes(h, t[1]) /\ t[2][1] = "channel"
  <2>1. PICK c \in h.channels.of[ch] : t = <<c, <<"channel", ch>>>>
    BY Zenon DEF ChannelTargets
  <2>2. c \in Clients /\ ch \in h.channels.by[c]
    BY <1>1, Zenon DEF HubOK, Agrees
  <2>3. <<"channel", ch>> \in AllRoutes /\ <<"channel", ch>> \in Routes(h, c)
    BY <2>2, Zenon DEF AllRoutes, Routes
  <2> QED BY <2>1, <2>2, <2>3 DEF Targets
<1>3. ASSUME NEW t \in PatternTargets(h, ch)
      PROVE  t \in Targets /\ t[2] \in Routes(h, t[1]) /\ t[2][1] = "pattern"
  <2>1. PICK p \in Patterns : \E c \in h.patterns.of[p] : t = <<c, <<"pattern", p>>>>
    BY Zenon DEF PatternTargets
  <2>2. PICK c \in h.patterns.of[p] : t = <<c, <<"pattern", p>>>>
    BY <2>1, Zenon
  <2>3. c \in Clients /\ p \in h.patterns.by[c]
    BY <1>1, Zenon DEF HubOK, Agrees
  <2>4. <<"pattern", p>> \in AllRoutes /\ <<"pattern", p>> \in Routes(h, c)
    BY <2>3 DEF AllRoutes, Routes
  <2> QED BY <2>2, <2>3, <2>4 DEF Targets
<1> QED BY <1>2, <1>3

\* listenLoop takes the next notification: it is newer than everything its
\* clients have, and the targets have not been told of a cancellation.
LEMMA TakeStep ==
    ASSUME IInv, NEW s \in Servers, deliverToChannel(s)
    PROVE  IInv' /\ \A d \in Clients : ModeKept(d)
<1> DEFINE q == inbox[s]
           m == Head(q)
           todo == ChannelTargets(hub[s], m.ch)
           T == [Idle EXCEPT !.phase = "channel", !.msg = m, !.todo = todo]
<1>1. /\ TypeInv /\ HubOK(hub[s]) /\ hub[s] \in Tables
      /\ q \in Seq(Messages) /\ QueueOK(q, task[s])
      /\ \A c \in Clients : Home[c] = s => /\ ReceiptsOK(c, got[c], q, task[s])
                                           /\ LateOK(c, late[c], Routes(hub[s], c), task[s].todo)
      /\ \A c \in Clients : Home[c] # s => Routes(hub[s], c) = {}
  BY ServerFacts, Zenon
<1>2. /\ q # <<>> /\ inbox' = [inbox EXCEPT ![s] = Tail(@)] /\ task' = [task EXCEPT ![s] = T]
      /\ UNCHANGED <<hub, session, net, load, published, listener, breaks, lost>>
      /\ UNCHANGED <<got, told, late, acked>>
  BY Zenon DEF deliverToChannel, Remaining, history
<1>3. /\ inbox \in [Servers -> Seq(Messages)] /\ task \in [Servers -> Tasks]
      /\ published \in Nat
  BY <1>1 DEF TypeInv
<1>4. /\ m \in Messages /\ m = q[1] /\ Tail(q) \in Seq(Messages)
      /\ \A i \in DOMAIN Tail(q) : i \in Nat /\ i + 1 \in DOMAIN q /\ Tail(q)[i] = q[i + 1]
      /\ 1 \in DOMAIN q
  BY <1>1, <1>2, SeqTail, Zenon
<1>5. m.ch \in Channels /\ m.id \in Nat /\ \A i \in DOMAIN q : q[i].id \in Nat
  <2>1. \A i \in DOMAIN q : q[i] \in Messages
    BY <1>1, SeqElements, Zenon
  <2> HIDE DEF m
  <2> QED BY <1>4, <2>1 DEF Messages
<1>6. \A t \in todo : t \in Targets /\ t[2] \in Routes(hub[s], t[1]) /\ t[2][1] = "channel"
  BY <1>1, <1>5, TargetsOK, Zenon
<1>7. /\ T \in Tasks /\ T.phase = "channel" /\ T.msg = m /\ T.todo = todo
      /\ T.at = <<>> /\ T.holds = FALSE
  BY <1>4, <1>6, Zenon DEF Tasks, Idle
<1> HIDE DEF m, T, todo
<1>8. /\ inbox' \in [Servers -> Seq(Messages)] /\ inbox'[s] = Tail(q)
      /\ task' \in [Servers -> Tasks] /\ task'[s] = T
      /\ \A z \in Servers \ {s} : inbox'[z] = inbox[z] /\ task'[z] = task[z]
  BY <1>2, <1>3, <1>4, <1>7, Zenon
<1>9. TypeInv'
  BY <1>1, <1>2, <1>8 DEF TypeInv
<1>10. QueueOK(Tail(q), T)
  <2>1. \A i, j \in DOMAIN q : i < j => q[i].id < q[j].id
    BY <1>1, Zenon DEF QueueOK
  <2>2. \A i \in DOMAIN q : q[i].id <= published
    BY <1>1, Zenon DEF QueueOK
  <2>3. \A i, j \in DOMAIN Tail(q) : i < j => Tail(q)[i].id < Tail(q)[j].id
    <3>1. SUFFICES ASSUME NEW i \in DOMAIN Tail(q), NEW j \in DOMAIN Tail(q), i < j
                   PROVE  Tail(q)[i].id < Tail(q)[j].id
      OBVIOUS
    <3>2. i \in Nat /\ j \in Nat /\ i + 1 \in DOMAIN q /\ j + 1 \in DOMAIN q
      BY <1>4, Zenon
    <3>3. i + 1 < j + 1
      BY <3>1, <3>2, SMTT(30)
    <3> QED BY <1>4, <2>1, <3>2, <3>3, Zenon
  <2>4. \A i \in DOMAIN Tail(q) : Tail(q)[i].id <= published /\ m.id < Tail(q)[i].id
    BY <1>4, <2>1, <2>2
  <2> QED BY <1>4, <1>6, <1>7, <2>2, <2>3, <2>4, Zenon DEF QueueOK
<1>11. \A t \in T.todo : Home[t[1]] = s
  BY <1>1, <1>6, <1>7, Zenon DEF Targets
<1>12. ASSUME NEW c \in Clients, Home[c] = s
       PROVE  ReceiptsOK(c, got[c], Tail(q), T) /\ LateOK(c, late[c], Routes(hub[s], c), T.todo)
  <2> DEFINE G == got[c]
  <2>1. G \in Seq(Receipts)
    BY <1>1 DEF TypeInv
  <2> HIDE DEF G
  <2>2. \A i \in DOMAIN G : G[i][1] \in Nat
    <3>1. \A i \in DOMAIN G : G[i] \in Receipts
      BY <2>1, SeqElements, Zenon
    <3> QED BY <3>1 DEF Receipts
  <2>3. ReceiptsOK(c, G, q, task[s])
    BY <1>1, <1>12, Zenon DEF G
  <2>4. \A i \in DOMAIN G : G[i][1] <= published /\ G[i][1] < m.id
    BY <1>4, <2>3, Zenon DEF ReceiptsOK
  <2>5. \A i \in DOMAIN G : \A j \in DOMAIN Tail(q) : G[i][1] < Tail(q)[j].id
    BY <1>4, <2>3, Zenon DEF ReceiptsOK
  <2>6. \A i, j \in DOMAIN G : i < j => G[i][1] <= G[j][1] /\ G[i] # G[j]
    BY <2>3, Zenon DEF ReceiptsOK
  <2>7. \A i \in DOMAIN G : G[i][1] <= m.id /\ G[i][1] # m.id
    BY <1>5, <2>2, <2>4, SMTT(30)
  <2>8. ReceiptsOK(c, G, Tail(q), T)
    BY <1>7, <2>4, <2>5, <2>6, <2>7, Zenon DEF ReceiptsOK
  <2>9. LateOK(c, late[c], Routes(hub[s], c), T.todo)
    <3>1. LateOK(c, late[c], Routes(hub[s], c), task[s].todo)
      BY <1>1, <1>12, Zenon
    <3>2. \A x : <<c, x>> \in todo => x \in Routes(hub[s], c)
      BY <1>6
    <3> QED BY <1>7, <3>1, <3>2 DEF LateOK
  <2> QED BY <2>8, <2>9, Zenon DEF G
<1> QED BY <1>2, <1>8, <1>9, <1>10, <1>11, <1>12, DeliveryStep, Zenon

\* The other steps of one delivery change the task alone: it keeps its
\* message, and the targets left are among those there were, or are new ones
\* for the patterns.
LEMMA TaskStep ==
    ASSUME IInv, NEW s \in Servers, NEW T \in Tasks, task' = [task EXCEPT ![s] = T],
           UNCHANGED <<hub, session, net, load, published, inbox, listener, breaks, lost, history>>,
           QueueOK(inbox[s], T), \A t \in T.todo : Home[t[1]] = s,
           \A c \in Clients : Home[c] = s => /\ ReceiptsOK(c, got[c], inbox[s], T)
                                             /\ LateOK(c, late[c], Routes(hub[s], c), T.todo)
    PROVE  IInv' /\ \A d \in Clients : ModeKept(d)
<1>1. TypeInv
  BY Zenon DEF IInv
<1>2. UNCHANGED <<got, told, late, acked>>
  BY DEF history
<1>3. task \in [Servers -> Tasks]
  BY <1>1, Zenon DEF TypeInv
<1>4. /\ task' \in [Servers -> Tasks] /\ task'[s] = T
      /\ \A z \in Servers \ {s} : task'[z] = task[z]
  BY <1>3, Zenon
<1>5. TypeInv'
  BY <1>1, <1>2, <1>4, Zenon DEF TypeInv
<1> QED BY <1>2, <1>4, <1>5, DeliveryStep, Zenon

\* listenLoop goes on to the patterns: what came under a channel is not
\* among the new targets.
LEMMA PatternsStep ==
    ASSUME IInv, NEW s \in Servers, deliverToPatterns(s)
    PROVE  IInv' /\ \A d \in Clients : ModeKept(d)
<1> DEFINE q == inbox[s]
           m == task[s].msg
           todo == PatternTargets(hub[s], m.ch)
           T == [task[s] EXCEPT !.phase = "pattern", !.todo = todo]
<1>1. /\ TypeInv /\ HubOK(hub[s]) /\ hub[s] \in Tables
      /\ q \in Seq(Messages) /\ task[s] \in Tasks /\ QueueOK(q, task[s])
      /\ \A c \in Clients : Home[c] = s => /\ ReceiptsOK(c, got[c], q, task[s])
                                           /\ LateOK(c, late[c], Routes(hub[s], c), task[s].todo)
      /\ \A c \in Clients : Home[c] # s => Routes(hub[s], c) = {}
  BY ServerFacts, Zenon
<1>2. /\ task[s].phase = "channel" /\ task[s].todo = {}
      /\ UNCHANGED <<hub, session, net, load, published, inbox, listener, breaks, lost, history>>
  BY DEF deliverToPatterns
<1>3. task' = [task EXCEPT ![s] = T]
  BY <1>1, Zenon DEF deliverToPatterns, TypeInv
<1>4. m \in Messages /\ m.ch \in Channels /\ m.id \in Nat
  BY <1>1, <1>2, Zenon DEF QueueOK, Messages
<1>5. \A t \in todo : t \in Targets /\ t[2] \in Routes(hub[s], t[1]) /\ t[2][1] = "pattern"
  BY <1>1, <1>4, TargetsOK, Zenon
<1>6. task[s].at = <<>> /\ task[s].holds = FALSE
  BY <1>1, <1>2, Zenon DEF QueueOK, Tasks
<1>7. /\ T \in Tasks /\ T.phase = "pattern" /\ T.msg = m /\ T.todo = todo
      /\ T.at = <<>> /\ T.holds = FALSE
  BY <1>1, <1>5, <1>6, Zenon DEF Tasks
<1> HIDE DEF m, T, todo
<1>8. QueueOK(q, T)
  BY <1>1, <1>2, <1>4, <1>5, <1>7, Zenon DEF QueueOK, m
<1>9. \A t \in T.todo : Home[t[1]] = s
  BY <1>1, <1>5, <1>7, Zenon DEF Targets
<1>10. ASSUME NEW c \in Clients, Home[c] = s
       PROVE  ReceiptsOK(c, got[c], q, T) /\ LateOK(c, late[c], Routes(hub[s], c), T.todo)
  <2> DEFINE G == got[c]
  <2>1. G \in Seq(Receipts)
    BY <1>1 DEF TypeInv
  <2>2. \A i \in DOMAIN G : G[i][1] \in Nat
    BY <2>1, SMTT(30) DEF Receipts
  <2> HIDE DEF G
  <2>3. ReceiptsOK(c, G, q, task[s])
    BY <1>1, <1>10 DEF G
  <2>4. \A i \in DOMAIN G : G[i][1] <= m.id /\ (G[i][1] = m.id => G[i][2][1] = "channel")
    BY <1>2, <2>3, Zenon DEF ReceiptsOK, m
  <2>5. \A i \in DOMAIN G : <<c, G[i][2]>> \in todo => G[i][2][1] = "pattern"
    BY <1>5, Zenon
  <2>6. \A i \in DOMAIN G : <<c, G[i][2]>> \in todo => G[i][1] < m.id
    BY <1>4, <2>2, <2>4, <2>5, SMTT(30)
  <2>7. ReceiptsOK(c, G, q, T)
    BY <1>7, <2>3, <2>4, <2>6 DEF ReceiptsOK
  <2>8. LateOK(c, late[c], Routes(hub[s], c), T.todo)
    <3>1. LateOK(c, late[c], Routes(hub[s], c), task[s].todo)
      BY <1>1, <1>10, Zenon
    <3>2. \A x : <<c, x>> \in todo => x \in Routes(hub[s], c)
      BY <1>5
    <3> QED BY <1>7, <3>1, <3>2, Zenon DEF LateOK
  <2> QED BY <2>7, <2>8, Zenon DEF G
<1> QED BY <1>2, <1>3, <1>7, <1>8, <1>9, <1>10, TaskStep, Zenon

\* A delivery is over.
LEMMA DeliveredStep ==
    ASSUME IInv, NEW s \in Servers, Delivered1(s)
    PROVE  IInv' /\ \A d \in Clients : ModeKept(d)
<1>1. /\ QueueOK(inbox[s], task[s])
      /\ \A c \in Clients : Home[c] = s =>
            /\ ReceiptsOK(c, got[c], inbox[s], task[s])
            /\ LateOK(c, late[c], Routes(hub[s], c), task[s].todo)
  BY ServerFacts, Zenon
<1>2. /\ Idle \in Tasks /\ Idle.phase = "wait" /\ Idle.todo = {}
      /\ Idle.at = <<>> /\ Idle.holds = FALSE
  BY Zenon DEF Idle, Tasks
<1>3. /\ task[s].todo = {} /\ task' = [task EXCEPT ![s] = Idle]
      /\ UNCHANGED <<hub, session, net, load, published, inbox, listener, breaks, lost, history>>
  BY DEF Delivered1
<1>4. QueueOK(inbox[s], Idle)
  BY <1>1, <1>2, Zenon DEF QueueOK
<1>5. \A c \in Clients : Home[c] = s =>
            /\ ReceiptsOK(c, got[c], inbox[s], Idle)
            /\ LateOK(c, late[c], Routes(hub[s], c), Idle.todo)
  BY <1>1, <1>2, <1>3, Zenon DEF ReceiptsOK, LateOK
<1> QED BY <1>2, <1>3, <1>4, <1>5, TaskStep, Zenon

\* The hub waits for a target's writer lock, or for its write to end.
LEMMA WaitStep ==
    ASSUME IInv, NEW s \in Servers, NEW t \in task[s].todo, NEW b \in BOOLEAN,
           task' = [task EXCEPT ![s].at = t, ![s].holds = b],
           UNCHANGED <<hub, session, net, load, published, inbox, listener, breaks, lost, history>>
    PROVE  IInv' /\ \A d \in Clients : ModeKept(d)
<1> DEFINE T == [task[s] EXCEPT !.at = t, !.holds = b]
<1>1. /\ TypeInv /\ task[s] \in Tasks /\ QueueOK(inbox[s], task[s])
      /\ \A x \in task[s].todo : Home[x[1]] = s
      /\ \A c \in Clients : Home[c] = s =>
            /\ ReceiptsOK(c, got[c], inbox[s], task[s])
            /\ LateOK(c, late[c], Routes(hub[s], c), task[s].todo)
  BY ServerFacts
<1>2. task' = [task EXCEPT ![s] = T]
  BY <1>1, Zenon DEF TypeInv
<1>3. t \in Targets /\ t # <<>>
  BY <1>1 DEF Tasks, Targets
<1>4. /\ T \in Tasks /\ T.phase = task[s].phase /\ T.msg = task[s].msg /\ T.todo = task[s].todo
      /\ T.at = t /\ T.holds = b
  BY <1>1, <1>3, Zenon DEF Tasks
<1> HIDE DEF T
<1>5. QueueOK(inbox[s], T)
  BY <1>1, <1>3, <1>4, Zenon DEF QueueOK
<1>6. \A c \in Clients : Home[c] = s => /\ ReceiptsOK(c, got[c], inbox[s], T)
                                        /\ LateOK(c, late[c], Routes(hub[s], c), T.todo)
  BY <1>1, <1>4 DEF ReceiptsOK
<1>7. \A x \in T.todo : Home[x[1]] = s
  BY <1>1, <1>4
<1> QED BY <1>2, <1>4, <1>5, <1>6, <1>7, TaskStep, Zenon

\* One target is done with, and the message may have reached it.
LEMMA SentStep ==
    ASSUME IInv, NEW s \in Servers, NEW t \in task[s].todo, SendDone(s, t),
           Reaches(s, t) \/ UNCHANGED <<got, late>>, net' \in [Clients -> Nets],
           UNCHANGED <<hub, session, load, published, inbox, listener, breaks, lost, told, acked>>
    PROVE  IInv' /\ \A d \in Clients : ModeKept(d)
<1> DEFINE T == [task[s] EXCEPT !.todo = @ \ {t}, !.at = <<>>, !.holds = FALSE]
           q == inbox[s]
           m == task[s].msg
           x == <<m.id, t[2]>>
<1>1. /\ TypeInv /\ task[s] \in Tasks /\ QueueOK(q, task[s])
      /\ \A y \in task[s].todo : Home[y[1]] = s
      /\ \A c \in Clients : Home[c] = s =>
            /\ ReceiptsOK(c, got[c], q, task[s])
            /\ LateOK(c, late[c], Routes(hub[s], c), task[s].todo)
  BY ServerFacts, Zenon
<1>2. task' = [task EXCEPT ![s] = T]
  BY <1>1, Zenon DEF TypeInv, SendDone
<1>3. t \in Targets /\ t[1] \in Clients /\ t[2] \in AllRoutes /\ t = <<t[1], t[2]>> /\ Home[t[1]] = s
  BY <1>1 DEF Tasks, Targets
<1>4. /\ T \in Tasks /\ T.phase = task[s].phase /\ T.msg = m /\ T.todo = task[s].todo \ {t}
      /\ T.at = <<>> /\ T.holds = FALSE
  BY <1>1, Zenon DEF Tasks
<1>5. task[s].phase # "wait" /\ m \in Messages /\ m.id \in Nat /\ t[2][1] = task[s].phase
      /\ m.id <= published /\ \A i \in DOMAIN q : m.id < q[i].id
  BY <1>1, Zenon DEF QueueOK, Messages
<1> HIDE DEF T, m
<1>6. x \in Receipts /\ x[1] = m.id /\ x[2] = t[2]
  BY <1>3, <1>5 DEF Receipts
<1>7. /\ got \in [Clients -> Seq(Receipts)] /\ late \in [Clients -> SUBSET Receipts]
      /\ task \in [Servers -> Tasks] /\ \A c \in Clients : got[c] \in Seq(Receipts)
  BY <1>1, Zenon DEF TypeInv
<1>8. /\ \A c \in Clients : c # t[1] => got'[c] = got[c] /\ late'[c] = late[c]
      /\ got'[t[1]] \in {got[t[1]], Append(got[t[1]], x)}
      /\ late'[t[1]] = late[t[1]] \/ (late'[t[1]] = late[t[1]] \cup {x} /\ t[2] \notin Routes(hub[s], t[1]))
      /\ got' \in [Clients -> Seq(Receipts)] /\ late' \in [Clients -> SUBSET Receipts]
  <2> HIDE DEF x
  <2>1. CASE Reaches(s, t)
    <3>1. /\ got' = [got EXCEPT ![t[1]] = Append(@, x)]
          /\ \/ late' = late
             \/ late' = [late EXCEPT ![t[1]] = @ \cup {x}] /\ t[2] \notin Routes(hub[s], t[1])
      BY <1>3, <1>7, <2>1, Zenon DEF Reaches, m, x
    <3>2. Append(got[t[1]], x) \in Seq(Receipts)
      BY <1>3, <1>6, <1>7, SMTT(30)
    <3>3. got' \in [Clients -> Seq(Receipts)] /\ got'[t[1]] = Append(got[t[1]], x)
          /\ \A c \in Clients : c # t[1] => got'[c] = got[c]
      BY <1>3, <1>7, <3>1, <3>2, Zenon
    <3>4. /\ late' \in [Clients -> SUBSET Receipts]
          /\ \A c \in Clients : c # t[1] => late'[c] = late[c]
          /\ late'[t[1]] = late[t[1]]
             \/ (late'[t[1]] = late[t[1]] \cup {x} /\ t[2] \notin Routes(hub[s], t[1]))
      BY <1>3, <1>6, <1>7, <3>1, SMTT(30)
    <3> QED BY <3>3, <3>4, Zenon
  <2>2. CASE UNCHANGED <<got, late>>
    BY <1>3, <1>7, <2>2, Zenon
  <2> QED BY <2>1, <2>2, Zenon
<1>9. /\ task' \in [Servers -> Tasks] /\ task'[s] = T
      /\ \A z \in Servers \ {s} : task'[z] = task[z]
  BY <1>2, <1>4, <1>7
<1>10. TypeInv'
  BY <1>1, <1>8, <1>9, Zenon DEF TypeInv
<1>11. QueueOK(q, T)
  BY <1>1, <1>4, <1>5, Zenon DEF QueueOK
<1>12. ASSUME NEW c \in Clients, Home[c] = s, c # t[1]
       PROVE  ReceiptsOK(c, got'[c], q, T) /\ LateOK(c, late'[c], Routes(hub[s], c), T.todo)
  <2>1. ReceiptsOK(c, got[c], q, task[s]) /\ LateOK(c, late[c], Routes(hub[s], c), task[s].todo)
    BY <1>1, <1>12, Zenon
  <2>2. ReceiptsOK(c, got[c], q, T)
    BY <1>4, <2>1, Zenon DEF ReceiptsOK, m
  <2>3. LateOK(c, late[c], Routes(hub[s], c), T.todo)
    BY <1>4, <2>1 DEF LateOK
  <2> QED BY <1>8, <1>12, <2>2, <2>3, Zenon
<1>13. ReceiptsOK(t[1], got'[t[1]], q, T)
  <2> DEFINE c == t[1]
             G == got[c]
             H == Append(G, x)
  <2>1. G \in Seq(Receipts) /\ ReceiptsOK(c, G, q, task[s])
    BY <1>1, <1>3, <1>7
  <2>2. ReceiptsOK(c, G, q, T)
    BY <1>4, <2>1, Zenon DEF ReceiptsOK, m
  <2>3. /\ Len(G) \in Nat /\ DOMAIN G = 1..Len(G)
        /\ DOMAIN H = 1..(Len(G) + 1) /\ H[Len(G) + 1] = x
        /\ \A i \in DOMAIN G : H[i] = G[i] /\ G[i] \in Receipts
    <3> HIDE DEF G, x
    <3>1. Len(G) \in Nat /\ DOMAIN G = 1..Len(G) /\ \A i \in DOMAIN G : G[i] \in Receipts
      BY <2>1, SeqElements, Zenon
    <3>2. G \in Seq(Receipts)
      BY <2>1, Zenon
    <3>3. /\ DOMAIN H = 1..(Len(G) + 1) /\ H[Len(G) + 1] = x
          /\ \A i \in DOMAIN G : H[i] = G[i]
      BY ONLY <3>2, SeqAppend, ZenonT(30)
    <3> QED BY <3>1, <3>3, Zenon
  <2>4. \A i \in DOMAIN G : G[i][1] \in Nat /\ G[i] = <<G[i][1], G[i][2]>>
    <3> HIDE DEF G
    <3> QED BY <2>3, SMTT(30) DEF Receipts
  <2>5. \A i \in DOMAIN G : G[i][1] <= m.id /\ (<<c, G[i][2]>> \in task[s].todo => G[i][1] < m.id)
    BY <1>5, <2>1, Zenon DEF ReceiptsOK, m
  <2> HIDE DEF G, H, c
  <2>6. \A i \in DOMAIN G : G[i] # x
    <3>1. SUFFICES ASSUME NEW i \in DOMAIN G, G[i] = x
                   PROVE  FALSE
      BY Zenon
    <3>2. <<c, G[i][2]>> = t /\ G[i][1] = m.id
      BY <1>3, <1>6, <3>1, Zenon DEF c
    <3> QED BY <1>5, <2>5, <3>2, SMTT(30)
  <2>7. /\ x[1] <= published /\ (\A j \in DOMAIN q : x[1] < q[j].id)
        /\ x[1] <= T.msg.id /\ <<c, x[2]>> \notin T.todo
        /\ T.phase = "channel" => x[2][1] = "channel"
    BY <1>3, <1>4, <1>5, <1>6, SMTT(30) DEF c
  <2>8. \A i \in DOMAIN H : i \in DOMAIN G \/ (i = Len(G) + 1 /\ H[i] = x)
    BY <2>3, SMTT(30)
  <2>9. \A i, j \in DOMAIN H : i < j =>
           i \in DOMAIN G /\ (j \in DOMAIN G \/ j = Len(G) + 1)
    BY <2>3
  <2>10. \A i, j \in DOMAIN H : i < j => H[i][1] <= H[j][1] /\ H[i] # H[j]
    <3>1. \A i, j \in DOMAIN G : i < j => G[i][1] <= G[j][1] /\ G[i] # G[j]
      BY <2>2 DEF ReceiptsOK
    <3> QED BY <1>6, <2>3, <2>5, <2>6, <2>9, <3>1, Zenon
  <2>11. ReceiptsOK(c, H, q, T)
    BY <2>2, <2>3, <2>7, <2>8, <2>10, Zenon DEF ReceiptsOK
  <2> QED BY <1>8, <2>2, <2>11, Zenon DEF c, G, H
<1>14. LateOK(t[1], late'[t[1]], Routes(hub[s], t[1]), T.todo)
  <2>1. LateOK(t[1], late[t[1]], Routes(hub[s], t[1]), task[s].todo)
    BY <1>1, <1>3, Zenon
  <2>2. \A y \in late[t[1]] : y[2] # t[2]
    BY <1>3, <2>1, Zenon DEF LateOK
  <2>3. <<t[1], x[2]>> \notin T.todo /\ x[2] = t[2]
    BY <1>3, <1>4, <1>6
  <2> HIDE DEF x
  <2> QED BY <1>4, <1>8, <2>1, <2>2, <2>3, Zenon DEF LateOK
<1>15. \A y \in T.todo : Home[y[1]] = s
  BY <1>1, <1>4, Zenon
<1>16. \A c \in Clients : Home[c] # s => got'[c] = got[c] /\ late'[c] = late[c]
  BY <1>3, <1>8
<1>17. \A c \in Clients : Home[c] = s =>
          /\ ReceiptsOK(c, got'[c], q, T)
          /\ LateOK(c, late'[c], Routes(hub[s], c), T.todo)
  BY <1>12, <1>13, <1>14, Zenon
<1> QED BY <1>9, <1>10, <1>11, <1>15, <1>16, <1>17, DeliveryStep, Zenon

\* Sending to one target, and the end of a write that was blocked.
LEMMA SendSteps ==
    ASSUME IInv, NEW s \in Servers, SendPubSubMessage(s) \/ SendEnds(s)
    PROVE  IInv' /\ \A d \in Clients : ModeKept(d)
<1>1. /\ TypeInv /\ task[s] \in Tasks /\ QueueOK(inbox[s], task[s])
  BY ServerFacts, Zenon
<1>2. task \in [Servers -> Tasks] /\ net \in [Clients -> Nets]
  BY <1>1, Zenon DEF TypeInv
<1>3. \A t \in task[s].todo : t[1] \in Clients /\ t # <<>>
  BY <1>1 DEF Tasks, Targets
<1>4. CASE SendPubSubMessage(s)
  <2>1. PICK t \in IF task[s].at = <<>> THEN task[s].todo ELSE {task[s].at} :
          SendPubSubMessage(s)!(t)
    BY <1>4, Zenon DEF SendPubSubMessage
  <2>2. t \in task[s].todo
    BY <1>1, <2>1 DEF QueueOK
  <2>3. /\ ~task[s].holds
        /\ UNCHANGED <<hub, session, net, load, published, inbox, listener, breaks, lost, told, acked>>
    BY <2>1
  <2>4. \/ task' = [task EXCEPT ![s].at = t] /\ UNCHANGED <<got, late>>
        \/ task' = [task EXCEPT ![s].at = t, ![s].holds = TRUE] /\ UNCHANGED <<got, late>>
        \/ SendDone(s, t) /\ (Reaches(s, t) \/ UNCHANGED <<got, late>>)
    <3>1. net[t[1]] \in {"ok", "stalled", "closed"}
      BY <1>2, <1>3, <2>2 DEF Nets
    <3> QED BY <2>1, <3>1, Zenon
  <2>5. CASE task' = [task EXCEPT ![s].at = t] /\ UNCHANGED <<got, late>>
    <3>1. task' = [task EXCEPT ![s].at = t, ![s].holds = FALSE]
      BY <1>1, <1>2, <2>3, <2>5, Zenon DEF Tasks
    <3>2. UNCHANGED <<hub, session, net, load, published, inbox, listener, breaks, lost, history>>
      BY <2>3, <2>5 DEF history
    <3> QED BY <2>2, <3>1, <3>2, WaitStep, Zenon
  <2>6. CASE task' = [task EXCEPT ![s].at = t, ![s].holds = TRUE] /\ UNCHANGED <<got, late>>
    <3>1. UNCHANGED <<hub, session, net, load, published, inbox, listener, breaks, lost, history>>
      BY <2>3, <2>6, Zenon DEF history
    <3> QED BY <2>2, <2>6, <3>1, WaitStep, Zenon
  <2>7. CASE SendDone(s, t) /\ (Reaches(s, t) \/ UNCHANGED <<got, late>>)
    <3>1. net' \in [Clients -> Nets]
      BY <1>2, <2>3
    <3> QED BY <2>2, <2>3, <2>7, <3>1, SentStep, Zenon
  <2> QED BY <2>4, <2>5, <2>6, <2>7
<1>5. CASE SendEnds(s)
  <2> DEFINE t == task[s].at
  <2>1. /\ task[s].holds /\ SendDone(s, t) /\ net' = [net EXCEPT ![t[1]] = AfterSend(@)]
        /\ Reaches(s, t) \/ UNCHANGED <<got, late>>
        /\ UNCHANGED <<hub, session, load, published, inbox, listener, breaks, lost, told, acked>>
    BY <1>5, Zenon DEF SendEnds
  <2>2. t \in task[s].todo
    BY <1>1, <2>1, Zenon DEF QueueOK
  <2>3. net' \in [Clients -> Nets]
    BY <1>2, <1>3, <2>1, <2>2 DEF AfterSend, Nets
  <2> HIDE DEF t
  <2> QED BY <2>1, <2>2, <2>3, SentStep, Zenon
<1> QED BY <1>4, <1>5

\* The listener's connection, and what is lost when it breaks.
LEMMA ListenerSteps ==
    ASSUME IInv, NEW s \in Servers, ListenerDropped(s) \/ reconnect(s) \/ ListenerBreaks(s)
    PROVE  IInv' /\ \A d \in Clients : ModeKept(d)
<1>1. /\ TypeInv /\ inbox[s] \in Seq(Messages) /\ QueueOK(inbox[s], task[s])
      /\ \A t \in task[s].todo : Home[t[1]] = s
      /\ \A c \in Clients : Home[c] = s =>
            /\ ReceiptsOK(c, got[c], inbox[s], task[s])
            /\ LateOK(c, late[c], Routes(hub[s], c), task[s].todo)
  BY ServerFacts, Zenon
<1>2. CASE ListenerDropped(s) \/ reconnect(s)
  <2>1. /\ listener' = [listener EXCEPT ![s] = "none"] \/ listener' = [listener EXCEPT ![s] = "up"]
        /\ UNCHANGED <<hub, session, net, load, published, inbox, task, breaks, lost>>
        /\ UNCHANGED <<got, told, late, acked>>
    BY <1>2 DEF ListenerDropped, reconnect, history
  <2>2. TypeInv'
    BY <1>1, <2>1, Zenon DEF TypeInv
  <2> QED BY <1>1, <2>1, <2>2, DeliveryStep, Zenon
<1>3. CASE ListenerBreaks(s)
  <2>1. PICK k \in 0..Len(inbox[s]) :
          /\ inbox' = [inbox EXCEPT ![s] = SubSeq(@, 1, k)]
          /\ lost' = [lost EXCEPT ![s] = @ \cup {inbox[s][i].id : i \in (k + 1)..Len(inbox[s])}]
    BY <1>3, Zenon DEF ListenerBreaks
  <2>2. /\ breaks' = breaks + 1 /\ listener' = [listener EXCEPT ![s] = "broken"]
        /\ UNCHANGED <<hub, session, net, load, published, task>>
        /\ UNCHANGED <<got, told, late, acked>>
    BY <1>3, Zenon DEF ListenerBreaks, history
  <2> DEFINE q == SubSeq(inbox[s], 1, k)
             gone == {inbox[s][i].id : i \in (k + 1)..Len(inbox[s])}
  <2>3. /\ q \in Seq(Messages)
        /\ \A i \in DOMAIN q : i \in DOMAIN inbox[s] /\ q[i] = inbox[s][i]
    BY <1>1, <2>1, SeqPrefix, Zenon
  <2>4. gone \in SUBSET Nat
    <3>1. \A i \in (k + 1)..Len(inbox[s]) : inbox[s][i] \in Messages
      BY <1>1, <2>1, SeqPrefix, Zenon
    <3>2. \A i \in (k + 1)..Len(inbox[s]) : inbox[s][i].id \in Nat
      BY <3>1, Zenon DEF Messages
    <3> QED BY <3>2, Zenon
  <2>5. inbox' = [inbox EXCEPT ![s] = q] /\ lost' = [lost EXCEPT ![s] = @ \cup gone]
    BY <1>1, <2>1, Zenon DEF TypeInv
  <2> HIDE DEF q, gone
  <2>6. TypeInv'
    <3>1. inbox' \in [Servers -> Seq(Messages)] /\ lost' \in [Servers -> SUBSET Nat]
      BY <1>1, <2>3, <2>4, <2>5, Zenon DEF TypeInv
    <3>2. listener \in [Servers -> {"up", "broken", "none"}] /\ breaks \in Nat
      BY <1>1, Zenon DEF TypeInv
    <3>3. listener' \in [Servers -> {"up", "broken", "none"}] /\ breaks' \in Nat
      BY <2>2, <3>2
    <3> QED BY <1>1, <2>2, <3>1, <3>3, Zenon DEF TypeInv
  <2>7. inbox'[s] = q /\ \A z \in Servers \ {s} : inbox'[z] = inbox[z]
    BY <1>1, <2>5, Zenon DEF TypeInv
  <2>8. QueueOK(q, task[s])
    BY <1>1, <2>3, Zenon DEF QueueOK
  <2>9. \A c \in Clients : Home[c] = s => ReceiptsOK(c, got[c], q, task[s])
    <3>1. SUFFICES ASSUME NEW c \in Clients, Home[c] = s
                   PROVE  ReceiptsOK(c, got[c], q, task[s])
      OBVIOUS
    <3>2. ReceiptsOK(c, got[c], inbox[s], task[s])
      BY <1>1, <3>1, Zenon
    <3> QED BY <2>3, <3>2, Zenon DEF ReceiptsOK
  <2> QED BY <1>1, <2>2, <2>6, <2>7, <2>8, <2>9, DeliveryStep, Zenon
<1> QED BY <1>2, <1>3

\* A client stops reading, reads again, or goes away.
LEMMA NetSteps ==
    ASSUME IInv, NEW c \in Clients, Stall(c) \/ Resume(c) \/ Hangup(c)
    PROVE  IInv' /\ \A d \in Clients : ModeKept(d)
<1>1. TypeInv
  BY DEF IInv
<1>2. /\ net' = [net EXCEPT ![c] = "stalled"] \/ net' = [net EXCEPT ![c] = "ok"]
         \/ net' = [net EXCEPT ![c] = "closed"]
      /\ UNCHANGED <<hub, session, load, published, inbox, listener, task, breaks, lost>>
      /\ UNCHANGED <<got, told, late, acked>>
  BY Zenon DEF Stall, Resume, Hangup, NetChanges, hubVars, history
<1>3. net' \in [Clients -> Nets]
  BY <1>1, <1>2, Zenon DEF TypeInv, Nets
<1>4. TypeInv'
  BY <1>1, <1>2, <1>3 DEF TypeInv
<1>5. Home[c] \in Servers
  BY <1>1, HomeType
<1>6. LET s == Home[c]
      IN  /\ QueueOK(inbox[s], task[s]) /\ \A t \in task[s].todo : Home[t[1]] = s
          /\ \A d \in Clients : Home[d] = s =>
                /\ ReceiptsOK(d, got[d], inbox[s], task[s])
                /\ LateOK(d, late[d], Routes(hub[s], d), task[s].todo)
  BY <1>5, ServerFacts, Zenon
<1> QED BY <1>2, <1>4, <1>5, <1>6, DeliveryStep, Zenon

\* PUBLISH: the new message is younger than every message before it, so it
\* goes to the end of each queue.
LEMMA PublishStep ==
    ASSUME IInv, NEW c \in Clients, Publish(c)
    PROVE  IInv' /\ \A d \in Clients : ModeKept(d)
<1>1. PICK cmd \in load.offers[c] : Publish(c)!(cmd)
  BY Zenon DEF Publish
<1> DEFINE m == [id |-> published + 1, ch |-> cmd.args[1]]
<1>2. /\ Receives(c, cmd, "PUBLISH") /\ cmd.args # <<>>
      /\ published' = published + 1
      /\ inbox' = [s \in Servers |-> IF Listening(s) THEN Append(inbox[s], m) ELSE inbox[s]]
      /\ lost' = [s \in Servers |-> IF Listening(s) THEN lost[s] ELSE lost[s] \cup {published + 1}]
      /\ session' = [session EXCEPT ![c].pc = "count", ![c].channel = <<cmd.args[1]>>]
      /\ UNCHANGED <<hub, net, load, listener, task, breaks>>
      /\ UNCHANGED <<got, told, late, acked>>
  BY <1>1, Zenon DEF history
<1>3. TypeInv /\ (\A s \in Servers : ServerOK(s)) /\ (\A d \in Clients : ClientOK(d))
  BY DEF IInv
<1>4. /\ session[c].pc = "read" /\ session[c] \in ClientRecords
      /\ cmd.args \in Seq(Channels)
  BY <1>2, Reading
<1>5. cmd.args[1] \in Channels /\ published \in Nat
  BY <1>2, <1>3, <1>4, SMTT(30) DEF TypeInv
<1>6. m \in Messages /\ m.id = published + 1
  BY <1>5 DEF Messages
<1>7. Home' = Home /\ \A d \in Clients : Home[d] \in Servers
  BY <1>2, <1>3, HomeType, Zenon DEF Home
<1> HIDE DEF m
<1>8. \A s \in Servers :
        /\ inbox[s] \in Seq(Messages) /\ inbox'[s] \in Seq(Messages)
        /\ \A i \in DOMAIN inbox'[s] :
              \/ i \in DOMAIN inbox[s] /\ inbox'[s][i] = inbox[s][i]
              \/ i = Len(inbox[s]) + 1 /\ inbox'[s][i].id = published + 1
  <2>1. TAKE s \in Servers
  <2>2. inbox[s] \in Seq(Messages)
    BY <1>3 DEF TypeInv
  <2>3. inbox'[s] = Append(inbox[s], m) \/ inbox'[s] = inbox[s]
    BY <1>2, Zenon
  <2>4. CASE inbox'[s] = inbox[s]
    BY <2>2, <2>4
  <2>5. CASE inbox'[s] = Append(inbox[s], m)
    <3>1. inbox'[s] \in Seq(Messages) /\ Len(inbox'[s]) = Len(inbox[s]) + 1
      BY <1>6, <2>2, <2>5
    <3>2. \A i \in 1..Len(inbox[s]) : inbox'[s][i] = inbox[s][i]
      BY <2>2, <2>5
    <3>3. inbox'[s][Len(inbox[s]) + 1] = m
      BY <2>2, <2>5
    <3>4. \A i \in DOMAIN inbox'[s] : i \in 1..Len(inbox[s]) \/ i = Len(inbox[s]) + 1
      BY <2>2, <3>1, SMTT(30)
    <3>5. DOMAIN inbox[s] = 1..Len(inbox[s])
      BY <2>2, SMTT(30)
    <3> QED BY <1>6, <2>2, <3>1, <3>2, <3>3, <3>4, <3>5, Zenon
  <2> QED BY <2>3, <2>4, <2>5, Zenon
<1>9. /\ session' \in [Clients -> ClientStates]
      /\ session'[c].pc = "count" /\ session'[c].reply = session[c].reply
      /\ session'[c].inTransaction = session[c].inTransaction
      /\ session'[c].queuedCommands = session[c].queuedCommands
      /\ session'[c].inPubSubMode = session[c].inPubSubMode
      /\ \A d \in Clients \ {c} : session'[d] = session[d]
  <2> DEFINE S == [session[c] EXCEPT !.pc = "count", !.channel = <<cmd.args[1]>>]
  <2>1. <<cmd.args[1]>> \in Seq(Channels) /\ <<cmd.args[1]>> # <<>>
    BY <1>5
  <2>2. "count" \in Handlers
    BY DEF Handlers
  <2>3. S \in ClientRecords
    BY <1>4, <2>1, <2>2, Zenon DEF ClientRecords
  <2>4. S.pc = "count" /\ S.channel # <<>>
    BY <1>4, <2>1, Zenon DEF ClientRecords
  <2>5. S \in ClientStates
    BY <2>3, <2>4, Zenon DEF ClientStates
  <2>6. /\ S.reply = session[c].reply /\ S.inTransaction = session[c].inTransaction
        /\ S.queuedCommands = session[c].queuedCommands
        /\ S.inPubSubMode = session[c].inPubSubMode
    BY <1>4, Zenon DEF ClientRecords
  <2>7. session \in [Clients -> ClientStates]
    BY <1>3 DEF TypeInv
  <2>8. session' = [session EXCEPT ![c] = S]
    BY <1>2, <2>7, Zenon
  <2> HIDE DEF S
  <2> QED BY <2>4, <2>5, <2>6, <2>7, <2>8
<1>10. TypeInv'
  <2>1. inbox' \in [Servers -> Seq(Messages)]
    BY <1>2, <1>8
  <2>2. lost' \in [Servers -> SUBSET Nat] /\ published' \in Nat
    BY <1>2, <1>3, <1>5 DEF TypeInv
  <2> QED BY <1>2, <1>3, <1>9, <2>1, <2>2, Zenon DEF TypeInv
<1>11. \A s \in Servers : ServerOK(s)'
  <2>1. TAKE s \in Servers
  <2>2. /\ HubOK(hub[s]) /\ QueueOK(inbox[s], task[s])
        /\ \A t \in task[s].todo : Home[t[1]] = s
    BY <1>3 DEF ServerOK
  <2>9. \A i \in DOMAIN inbox[s] : inbox[s][i].id \in Nat /\ inbox[s][i].id <= published
    <3>1. \A i \in DOMAIN inbox[s] : inbox[s][i] \in Messages
      BY <1>8
    <3> QED BY <2>2, <3>1, Zenon DEF QueueOK, Messages
  <2>3. \A i \in DOMAIN inbox'[s] : inbox'[s][i].id <= published + 1
    <3>1. TAKE i \in DOMAIN inbox'[s]
    <3>2. CASE i \in DOMAIN inbox[s] /\ inbox'[s][i] = inbox[s][i]
      BY <1>5, <2>9, <3>2
    <3>3. CASE inbox'[s][i].id = published + 1
      BY <1>5, <3>3
    <3> QED BY <1>8, <3>2, <3>3, Zenon
  <2>4. \A i, j \in DOMAIN inbox'[s] : i < j => inbox'[s][i].id < inbox'[s][j].id
    <3>1. SUFFICES ASSUME NEW i \in DOMAIN inbox'[s], NEW j \in DOMAIN inbox'[s], i < j
                   PROVE  inbox'[s][i].id < inbox'[s][j].id
      OBVIOUS
    <3>2. i \in DOMAIN inbox[s] /\ inbox'[s][i] = inbox[s][i]
      <4>1. /\ i \in DOMAIN inbox[s] \/ i = Len(inbox[s]) + 1
            /\ j \in DOMAIN inbox[s] \/ j = Len(inbox[s]) + 1
        BY <1>8, Zenon
      <4>2. DOMAIN inbox[s] = 1..Len(inbox[s]) /\ Len(inbox[s]) \in Nat
        BY <1>8, SMTT(30)
      <4>3. i # Len(inbox[s]) + 1
        BY <3>1, <4>1, <4>2, SMTT(30)
      <4> QED BY <1>8, <4>3, Zenon
    <3>3. inbox[s][i].id \in Nat /\ inbox[s][i].id <= published
      BY <2>9, <3>2, Zenon
    <3>5. CASE j \in DOMAIN inbox[s] /\ inbox'[s][j] = inbox[s][j]
      BY <2>2, <3>1, <3>2, <3>5, Zenon DEF QueueOK
    <3>6. CASE inbox'[s][j].id = published + 1
      BY <1>5, <3>2, <3>3, <3>6, SMTT(30)
    <3> QED BY <1>8, <3>5, <3>6, Zenon
  <2>5. task[s].phase # "wait" =>
          /\ task[s].msg \in Messages /\ task[s].msg.id <= published + 1
          /\ \A i \in DOMAIN inbox'[s] : task[s].msg.id < inbox'[s][i].id
    <3>1. SUFFICES ASSUME task[s].phase # "wait"
                   PROVE  /\ task[s].msg \in Messages /\ task[s].msg.id <= published + 1
                          /\ \A i \in DOMAIN inbox'[s] : task[s].msg.id < inbox'[s][i].id
      BY Zenon
    <3>2. /\ task[s].msg \in Messages /\ task[s].msg.id <= published
          /\ \A i \in DOMAIN inbox[s] : task[s].msg.id < inbox[s][i].id
      BY <2>2, <3>1, Zenon DEF QueueOK
    <3>3. task[s].msg.id \in Nat
      BY <3>2 DEF Messages
    <3> QED BY <1>5, <1>8, <3>2, <3>3, SMTT(30)
  <2>6. QueueOK(inbox[s], task[s])'
    BY <1>2, <2>2, <2>3, <2>4, <2>5, Zenon DEF QueueOK
  <2> QED BY <1>2, <1>7, <2>2, <2>6, Zenon DEF ServerOK
<1>12. \A d \in Clients : ClientOK(d)' /\ ModeKept(d)
  <2>1. TAKE d \in Clients
  <2>2. /\ PlaceOK(d) /\ ExecOK(session[d], acked[d])
        /\ KnowsOK(session[d], told[d], Routes(hub[Home[d]], d))
        /\ ReceiptsOK(d, got[d], inbox[Home[d]], task[Home[d]])
        /\ LateOK(d, late[d], Routes(hub[Home[d]], d), task[Home[d]].todo)
    BY <1>3, Zenon DEF ClientOK
  <2>3. PlaceOK(d)'
    BY <1>2, <1>7, <1>9, <2>2, Zenon DEF PlaceOK
  <2>4. ExecOK(session[d], acked[d])'
    <3>1. CASE d = c
      <4>1. session'[d].reply.kind = "none"
        BY <1>4, <1>9, <2>2, <3>1, Zenon DEF ExecOK
      <4>2. session'[d].inTransaction => session'[d].queuedCommands = acked'[d]
        BY <1>2, <1>4, <1>9, <2>2, <3>1 DEF ExecOK
      <4> QED BY <1>9, <3>1, <4>1, <4>2, Zenon DEF ExecOK
    <3>2. CASE d # c
      <4>1. session'[d] = session[d] /\ acked'[d] = acked[d]
        BY <1>2, <1>9, <3>2, Zenon
      <4> QED BY <2>2, <4>1, Zenon DEF ExecOK
    <3> QED BY <3>1, <3>2
  <2>5. KnowsOK(session[d], told[d], Routes(hub[Home[d]], d))'
    BY <1>2, <1>4, <1>7, <1>9, <2>2 DEF KnowsOK
  <2>6. LateOK(d, late[d], Routes(hub[Home[d]], d), task[Home[d]].todo)'
    BY <1>2, <1>7, <2>2
  <2>7. ReceiptsOK(d, got[d], inbox[Home[d]], task[Home[d]])'
    <3>1. \A i \in DOMAIN got[d] : got[d][i][1] \in Nat
      <4>1. got[d] \in Seq(Receipts)
        BY <1>3, Zenon DEF TypeInv
      <4>2. \A i \in DOMAIN got[d] : got[d][i] \in Receipts
        BY <4>1
      <4> QED BY <4>2, Zenon DEF Receipts
    <3>2. /\ \A i \in DOMAIN got[d] : got[d][i][1] <= published
          /\ \A i \in DOMAIN got[d] : \A j \in DOMAIN inbox[Home[d]] :
                got[d][i][1] < inbox[Home[d]][j].id
      BY <2>2, Zenon DEF ReceiptsOK
    <3>3. \A i \in DOMAIN got[d] : got[d][i][1] <= published + 1 /\ got[d][i][1] < published + 1
      BY <1>5, <3>1, <3>2, SMTT(30)
    <3>4. \A i \in DOMAIN got[d] : \A j \in DOMAIN inbox'[Home[d]] :
            got[d][i][1] < inbox'[Home[d]][j].id
      <4>1. TAKE i \in DOMAIN got[d]
      <4>3. TAKE j \in DOMAIN inbox'[Home[d]]
      <4>2. \/ j \in DOMAIN inbox[Home[d]] /\ inbox'[Home[d]][j] = inbox[Home[d]][j]
            \/ inbox'[Home[d]][j].id = published + 1
        BY <1>7, <1>8, Zenon
      <4> QED BY <3>2, <3>3, <4>2, Zenon
    <3>5. got' = got /\ task' = task /\ published' = published + 1
      BY <1>2
    <3> QED BY <1>7, <2>2, <3>3, <3>4, <3>5, Zenon DEF ReceiptsOK
  <2>8. ModeKept(d)
    BY <1>2, <1>7, <1>9 DEF ModeKept, Parted
  <2> QED BY <2>3, <2>4, <2>5, <2>6, <2>7, <2>8, Zenon DEF ClientOK
<1> QED BY <1>10, <1>11, <1>12, Zenon DEF IInv

\* A step that changes nothing keeps the invariant.
LEMMA StutterOK == IInv /\ UNCHANGED vars => IInv'
<1>1. SUFFICES ASSUME IInv, UNCHANGED vars PROVE IInv'
  BY Zenon
<1>2. /\ hub' = hub /\ session' = session /\ net' = net /\ load' = load /\ published' = published
      /\ inbox' = inbox /\ listener' = listener /\ task' = task /\ breaks' = breaks /\ lost' = lost
      /\ got' = got /\ told' = told /\ late' = late /\ acked' = acked
  BY <1>1 DEF vars, hubVars, history
<1>3. TypeInv /\ (\A s \in Servers : ServerOK(s)) /\ (\A c \in Clients : ClientOK(c))
  BY <1>1 DEF IInv
<1>4. TypeInv'
  BY <1>2, <1>3, Zenon DEF TypeInv
<1>5. \A s \in Servers : ServerOK(s)'
  BY <1>2, <1>3, Zenon DEF ServerOK, QueueOK, Home
<1>6. \A c \in Clients : ClientOK(c)'
  <2>1. TAKE c \in Clients
  <2>2. ClientOK(c)
    BY <1>3
  <2>3. PlaceOK(c)' /\ ReceiptsOK(c, got[c], inbox[Home[c]], task[Home[c]])'
    BY <1>2, <2>2, Zenon DEF ClientOK, PlaceOK, ReceiptsOK, Home
  <2> QED BY <1>2, <2>2, <2>3, Zenon DEF ClientOK, Home
<1> QED BY <1>4, <1>5, <1>6 DEF IInv

-----------------------------------------------------------------------------
(* Steps of one client that read or change the tables.  They need what the  *)
(* operations of the hub promise, which is stated here and proved in        *)
(* SessionsProofs.                                                          *)

(* SUBSCRIBE and PSUBSCRIBE register the names, and count upwards.          *)
SubscribeWorks ==
    \A h \in Tables : \A c \in Clients : \A q \in Seq(Channels) :
        HubOK(h) /\ q # <<>> =>
            LET n == GetSubscriptionCount(h, c)
                k == CountsUp(h.channels, c, q)
            IN  Registers(h, Subscribe(h, c, q), c, "subscribe", q, [i \in DOMAIN k |-> k[i] + n.patterns])
PSubscribeWorks ==
    \A h \in Tables : \A c \in Clients : \A q \in Seq(Patterns) :
        HubOK(h) /\ q # <<>> =>
            LET n == GetSubscriptionCount(h, c)
                k == CountsUp(h.patterns, c, q)
            IN  Registers(h, PSubscribe(h, c, q), c, "psubscribe", q, [i \in DOMAIN k |-> k[i] + n.channels])

(* UNSUBSCRIBE and PUNSUBSCRIBE take them back, and count downwards.        *)
UnsubscribeWorks ==
    \A h \in Tables : \A c \in Clients : \A q \in Seq(Channels) :
        HubOK(h) /\ (q = <<>> => h.channels.by[c] = {}) =>
            LET g == Unsubscribe(h, c, q)
                k == CountsDown(h.channels, c, q)
            IN  Registers(h, g, c, "unsubscribe", q,
                          UnsubscribeCounts(k, GetSubscriptionCount(g, c).patterns))
PUnsubscribeWorks ==
    \A h \in Tables : \A c \in Clients : \A q \in Seq(Patterns) :
        HubOK(h) /\ (q = <<>> => h.patterns.by[c] = {}) =>
            LET g == PUnsubscribe(h, c, q)
                k == CountsDown(h.patterns, c, q)
            IN  Registers(h, g, c, "punsubscribe", q,
                          UnsubscribeCounts(k, GetSubscriptionCount(g, c).channels))

(* RemoveSubscriber's two critical sections empty one side each.            *)
RemoveWorks ==
    \A h \in Tables : \A c \in Clients : HubOK(h) =>
        /\ Changes(h, RemoveSubscriberChannels(h, c), c)
        /\ RemoveSubscriberChannels(h, c).channels.by[c] = {}
        /\ RemoveSubscriberChannels(h, c).patterns = h.patterns
        /\ Changes(h, RemoveSubscriberPatterns(h, c), c)
        /\ RemoveSubscriberPatterns(h, c).patterns.by[c] = {}
        /\ RemoveSubscriberPatterns(h, c).channels = h.channels

(* PUBLISH counts finitely many subscribers.                                *)
CountWorks ==
    \A h \in Tables : \A ch \in Channels : HubOK(h) => countSubscribers(h, ch) \in Nat

(* The names of a client can be listed and counted.                         *)
ListingWorks ==
    \A S : IsFiniteSet(S) => /\ Listing(S) \in Seq(S) /\ (Listing(S) = <<>> <=> S = {})
                             /\ Cardinality(S) = 0 <=> S = {}

HubWorks == /\ SubscribeWorks /\ PSubscribeWorks /\ UnsubscribeWorks /\ PUnsubscribeWorks
            /\ RemoveWorks /\ CountWorks /\ ListingWorks

\* The reply to PUBLISH.
LEMMA CountStep ==
    ASSUME CountWorks, IInv, NEW c \in Clients, PublishCounts(c)
    PROVE  IInv' /\ \A d \in Clients : ModeKept(d)
<1> DEFINE n == countSubscribers(hub[Home[c]], session[c].channel[1])
           S == [session[c] EXCEPT !.channel = <<>>]
           r == Ack("count", <<>>, <<n>>)
<1>1. /\ session[c] \in ClientStates /\ session[c] \in ClientRecords /\ session[c].pc = "count"
      /\ hub[Home[c]] \in Tables /\ HubOK(hub[Home[c]])
  BY Facts, Zenon DEF PublishCounts
<1>2. session[c].channel \in Seq(Channels) /\ session[c].channel # <<>>
  BY <1>1 DEF ClientStates, ClientRecords
<1>3. session[c].channel[1] \in Channels
  BY <1>2
<1>4. n \in Nat
  BY <1>1, <1>3, Zenon DEF CountWorks
<1>5. Local(c, S, r)
  BY Zenon DEF PublishCounts
<1>6. <<n>> \in Seq(Nat) /\ "count" \in Kinds
  BY <1>4 DEF Kinds
<1> HIDE DEF n
<1>7. r \in Replies
  BY <1>6, NamelessType, Zenon
<1>8. r.kind = "count"
  BY DEF Ack
<1>9. <<>> \in Seq(Channels)
  OBVIOUS
<1>10. /\ S \in ClientRecords /\ S.inPubSubMode = session[c].inPubSubMode
       /\ S.inTransaction = session[c].inTransaction
       /\ S.queuedCommands = session[c].queuedCommands
  BY <1>1, <1>9, Zenon DEF ClientRecords
<1> HIDE DEF S, r
<1> QED BY <1>1, <1>5, <1>7, <1>8, <1>10, SimpleStep

\* A command that changes the tables for its client.
LEMMA HubStep ==
    ASSUME IInv, NEW c \in Clients, session[c].pc = "read",
           NEW g, NEW kind \in Registering, NEW q, NEW counts, NEW L,
           Registers(hub[Home[c]], g, c, kind, q, counts),
           NEW S \in ClientRecords, WithHub(c, g, S, Ack(kind, q, counts)),
           S.inTransaction = session[c].inTransaction,
           S.queuedCommands = session[c].queuedCommands,
           ModeFits(session[c], hub[Home[c]], c) => ModeFits(S, g, c),
           late' = [late EXCEPT ![c] = L], L \subseteq late[c],
           \A x \in L : x[2] \notin Routes(g, c)
    PROVE  IInv' /\ \A d \in Clients : ModeKept(d)
<1> DEFINE r == Ack(kind, q, counts)
<1>1. /\ TypeInv /\ Home[c] \in Servers
      /\ ExecOK(session[c], acked[c])
      /\ KnowsOK(session[c], told[c], Routes(hub[Home[c]], c))
      /\ LateOK(c, late[c], Routes(hub[Home[c]], c), task[Home[c]].todo)
  BY Facts, Zenon
<1>2. /\ Answer(c, S, r) /\ hub' = [hub EXCEPT ![Home[c]] = g]
      /\ UNCHANGED <<net, load, published, inbox, listener, task, breaks, lost, got, told, acked>>
  BY DEF WithHub, hubVars
<1>3. /\ r.kind = kind /\ r.names = q /\ r \in Replies /\ CountOK(r, Routes(hub[Home[c]], c))
      /\ Changes(hub[Home[c]], g, c) /\ g \in Tables
      /\ Routes(g, c) = Replay(Routes(hub[Home[c]], c), kind, q)
  BY Zenon DEF Ack, Registers, Changes
<1> HIDE DEF r
<1>4. /\ session' \in [Clients -> ClientStates]
      /\ session'[c].pc = "reply" /\ session'[c].reply = r
      /\ session'[c].inTransaction = S.inTransaction
      /\ session'[c].queuedCommands = S.queuedCommands
      /\ session'[c].inPubSubMode = S.inPubSubMode
      /\ \A d \in Clients \ {c} : session'[d] = session[d]
  BY <1>1, <1>2, <1>3, AnswerOK, Zenon
<1>5. /\ late \in [Clients -> SUBSET Receipts] /\ hub \in [Servers -> Tables]
  BY <1>1, Zenon DEF TypeInv
<1>6. /\ late' \in [Clients -> SUBSET Receipts] /\ late'[c] = L
      /\ \A d \in Clients \ {c} : late'[d] = late[d]
      /\ hub' \in [Servers -> Tables] /\ hub'[Home[c]] = g
      /\ \A s \in Servers \ {Home[c]} : hub'[s] = hub[s]
  BY <1>1, <1>2, <1>3, <1>5, Zenon
<1>7. TypeInv'
  BY <1>1, <1>2, <1>4, <1>6, Zenon DEF TypeInv
<1>8. Mine(c)
  BY <1>2, <1>3, <1>4, <1>6, Zenon DEF Mine
<1>9. ModeKept(c)
  <2>1. Home' = Home
    BY <1>2, Zenon DEF Home
  <2> QED BY <1>4, <1>6, <2>1, Zenon DEF ModeKept, ModeFits, Parted
<1>10. ExecOK(session'[c], acked'[c])
  BY <1>1, <1>2, <1>3, <1>4, Zenon DEF ExecOK, Registering
<1>11. KnowsOK(session'[c], told'[c], Routes(hub'[Home[c]], c))
  <2>1. told[c] = Routes(hub[Home[c]], c)
    BY <1>1, Zenon DEF KnowsOK
  <2> QED BY <1>2, <1>3, <1>4, <1>6, <2>1, Zenon DEF KnowsOK
<1>12. LateOK(c, late'[c], Routes(hub'[Home[c]], c), task[Home[c]].todo)
  BY <1>1, <1>6, Zenon DEF LateOK
<1> QED BY <1>4, <1>7, <1>8, <1>9, <1>10, <1>11, <1>12, ClientStep, Zenon

\* SUBSCRIBE: the names are new routes, and their late messages start over.
LEMMA SubscribeStep ==
    ASSUME SubscribeWorks, IInv, NEW c \in Clients, HandleSubscribe(c)
    PROVE  IInv' /\ \A d \in Clients : ModeKept(d)
<1>1. PICK cmd \in load.offers[c] : HandleSubscribe(c)!(cmd)
  BY Zenon DEF HandleSubscribe
<1> DEFINE h == hub[Home[c]]
           q == cmd.args
           g == Subscribe(h, c, q)
           k == CountsUp(h.channels, c, q)
           counts == [i \in DOMAIN k |-> k[i] + GetSubscriptionCount(h, c).patterns]
           S == [session[c] EXCEPT !.inPubSubMode = TRUE]
           L == Outstanding(late[c], "channel", q)
<1>2. h \in Tables /\ HubOK(h) /\ session[c] \in ClientRecords /\ TypeInv
      /\ LateOK(c, late[c], Routes(h, c), task[Home[c]].todo)
  BY Facts, Zenon
<1>3. session[c].pc = "read" /\ q \in Seq(Channels) /\ q # <<>>
  BY <1>1, Reading
<1>4. late' = [late EXCEPT ![c] = L] /\ WithHub(c, g, S, Ack("subscribe", q, counts))
  <2>1. late \in [Clients -> SUBSET Receipts]
    BY <1>2, Zenon DEF TypeInv
  <2> QED BY <1>1, <2>1
<1>5. /\ S \in ClientRecords /\ S.inPubSubMode = TRUE
      /\ S.inTransaction = session[c].inTransaction
      /\ S.queuedCommands = session[c].queuedCommands
  BY <1>2, Zenon DEF ClientRecords
<1> HIDE DEF S, h
<1>6. Registers(h, g, c, "subscribe", q, counts)
  BY <1>2, <1>3, Zenon DEF SubscribeWorks
<1> HIDE DEF g, counts, k
<1>7. Routes(g, c) = Routes(h, c) \cup {<<"channel", n>> : n \in Range(q)}
  BY <1>6 DEF Registers, Replay
<1>8. Routes(g, c) # {}
  <2>1. q[1] \in Range(q)
    BY <1>3 DEF Range
  <2> QED BY <1>7, <2>1, Zenon
<1>9. L \subseteq late[c] /\ \A x \in L : x[2] \notin Routes(g, c)
  BY <1>2, <1>7, Zenon DEF Outstanding, LateOK
<1>10. ModeFits(session[c], h, c) => ModeFits(S, g, c)
  BY <1>5, <1>8, Zenon DEF ModeFits
<1>11. "subscribe" \in Registering
  BY DEF Registering
<1> HIDE DEF L, q
<1> QED BY <1>3, <1>4, <1>5, <1>6, <1>9, <1>10, <1>11, HubStep, Zenon DEF h

\* PSUBSCRIBE: the names are new routes, and their late messages start over.
LEMMA PSubscribeStep ==
    ASSUME PSubscribeWorks, IInv, NEW c \in Clients, HandlePSubscribe(c)
    PROVE  IInv' /\ \A d \in Clients : ModeKept(d)
<1>1. PICK cmd \in load.offers[c] : HandlePSubscribe(c)!(cmd)
  BY Zenon DEF HandlePSubscribe
<1> DEFINE h == hub[Home[c]]
           q == cmd.args
           g == PSubscribe(h, c, q)
           k == CountsUp(h.patterns, c, q)
           counts == [i \in DOMAIN k |-> k[i] + GetSubscriptionCount(h, c).channels]
           S == [session[c] EXCEPT !.inPubSubMode = TRUE]
           L == Outstanding(late[c], "pattern", q)
<1>2. h \in Tables /\ HubOK(h) /\ session[c] \in ClientRecords /\ TypeInv
      /\ LateOK(c, late[c], Routes(h, c), task[Home[c]].todo)
  BY Facts, Zenon
<1>3. session[c].pc = "read" /\ q \in Seq(Patterns) /\ q # <<>>
  BY <1>1, Reading
<1>4. late' = [late EXCEPT ![c] = L] /\ WithHub(c, g, S, Ack("psubscribe", q, counts))
  <2>1. late \in [Clients -> SUBSET Receipts]
    BY <1>2, Zenon DEF TypeInv
  <2> QED BY <1>1, <2>1
<1>5. /\ S \in ClientRecords /\ S.inPubSubMode = TRUE
      /\ S.inTransaction = session[c].inTransaction
      /\ S.queuedCommands = session[c].queuedCommands
  BY <1>2, Zenon DEF ClientRecords
<1> HIDE DEF S, h
<1>6. Registers(h, g, c, "psubscribe", q, counts)
  BY <1>2, <1>3, Zenon DEF PSubscribeWorks
<1> HIDE DEF g, counts, k
<1>7. Routes(g, c) = Routes(h, c) \cup {<<"pattern", n>> : n \in Range(q)}
  BY <1>6 DEF Registers, Replay
<1>8. Routes(g, c) # {}
  <2>1. q[1] \in Range(q)
    BY <1>3 DEF Range
  <2> QED BY <1>7, <2>1, Zenon
<1>9. L \subseteq late[c] /\ \A x \in L : x[2] \notin Routes(g, c)
  BY <1>2, <1>7, Zenon DEF Outstanding, LateOK
<1>10. ModeFits(session[c], h, c) => ModeFits(S, g, c)
  BY <1>5, <1>8, Zenon DEF ModeFits
<1>11. "psubscribe" \in Registering
  BY Zenon DEF Registering
<1> HIDE DEF L, q
<1> QED BY <1>3, <1>4, <1>5, <1>6, <1>9, <1>10, <1>11, HubStep, Zenon DEF h

\* The mode flag after an unsubscription: it goes with the last route.
LEMMA ModeAfterOK ==
    ASSUME ListingWorks, NEW h \in Tables, HubOK(h), NEW g \in Tables, HubOK(g), NEW c \in Clients,
           Routes(g, c) \subseteq Routes(h, c), NEW S \in ClientRecords
    PROVE  /\ ModeAfter(g, c, S) \in ClientRecords
           /\ ModeAfter(g, c, S).inTransaction = S.inTransaction
           /\ ModeAfter(g, c, S).queuedCommands = S.queuedCommands
           /\ ModeFits(S, h, c) => ModeFits(ModeAfter(g, c, S), g, c)
<1> DEFINE T == [S EXCEPT !.inPubSubMode = FALSE]
           A == g.channels.by[c]
           B == g.patterns.by[c]
           none == Cardinality(A) = 0 /\ Cardinality(B) = 0
<1>1. ModeAfter(g, c, S) = IF none THEN T ELSE S
  BY DEF ModeAfter, GetSubscriptionCount
<1>2. /\ T \in ClientRecords /\ T.inTransaction = S.inTransaction
      /\ T.queuedCommands = S.queuedCommands /\ T.inPubSubMode = FALSE
  BY Zenon DEF ClientRecords
<1>3. none <=> Routes(g, c) = {}
  <2>1. IsFiniteSet(A) /\ IsFiniteSet(B) /\ Routes(g, c) = RoutesOf(A, B)
    BY OneClient
  <2> HIDE DEF A, B
  <2>2. (Cardinality(A) = 0 <=> A = {}) /\ (Cardinality(B) = 0 <=> B = {})
    BY <2>1, Zenon DEF ListingWorks
  <2>3. RoutesOf(A, B) = {} <=> A = {} /\ B = {}
    BY Zenon DEF RoutesOf
  <2> QED BY <2>1, <2>2, <2>3, Zenon
<1> HIDE DEF T, none
<1>4. CASE none
  BY <1>1, <1>2, <1>3, <1>4, Zenon DEF ModeFits
<1>5. CASE ~none
  <2>1. Routes(g, c) # {} /\ Routes(h, c) # {}
    BY <1>3, <1>5
  <2> QED BY <1>1, <1>5, <2>1, Zenon DEF ModeFits
<1> QED BY <1>4, <1>5

\* UNSUBSCRIBE: with no names given, all of the client's.
LEMMA UnsubscribeStep ==
    ASSUME UnsubscribeWorks, ListingWorks, IInv, NEW c \in Clients, HandleUnsubscribe(c)
    PROVE  IInv' /\ \A d \in Clients : ModeKept(d)
<1> DEFINE h == hub[Home[c]]
           Given(cmd) == IF cmd.args = <<>> THEN GetSubscribedChannels(h, c) ELSE cmd.args
           After(l) == Unsubscribe(h, c, l)
           Counts(l) == UnsubscribeCounts(CountsDown(h.channels, c, l),
                                          GetSubscriptionCount(After(l), c).patterns)
<1>1. PICK cmd \in load.offers[c] :
        /\ Receives(c, cmd, "UNSUBSCRIBE")
        /\ WithHub(c, After(Given(cmd)), ModeAfter(After(Given(cmd)), c, session[c]),
                   Ack("unsubscribe", Given(cmd), Counts(Given(cmd))))
        /\ late' = late
  BY Zenon DEF HandleUnsubscribe
<1> DEFINE q == Given(cmd)
           g == After(q)
           counts == Counts(q)
           S == ModeAfter(g, c, session[c])
<1>2. h \in Tables /\ HubOK(h) /\ session[c] \in ClientRecords /\ TypeInv
      /\ LateOK(c, late[c], Routes(h, c), task[Home[c]].todo)
  BY Facts, Zenon
<1>3. session[c].pc = "read" /\ cmd.args \in Seq(Channels)
  BY <1>1, Reading, Zenon
<1>4. late' = late /\ WithHub(c, g, S, Ack("unsubscribe", q, counts))
  BY <1>1, Zenon
<1>5. q \in Seq(Channels) /\ (q = <<>> => h.channels.by[c] = {})
  <2>1. h.channels.by[c] \in SUBSET Channels /\ IsFiniteSet(h.channels.by[c])
    BY <1>2, OneClient, Zenon
  <2>2. LET l == Listing(h.channels.by[c])
        IN  l \in Seq(h.channels.by[c]) /\ (l = <<>> <=> h.channels.by[c] = {})
    BY <2>1, Zenon DEF ListingWorks
  <2>3. Seq(h.channels.by[c]) \subseteq Seq(Channels)
    BY <2>1
  <2> QED BY <1>3, <2>2, <2>3, Zenon DEF GetSubscribedChannels
<1> HIDE DEF S, h, q
<1>6. Registers(h, g, c, "unsubscribe", q, counts)
  BY <1>2, <1>5, Zenon DEF UnsubscribeWorks
<1> HIDE DEF g, counts
<1>7. Routes(g, c) \subseteq Routes(h, c) /\ g \in Tables /\ HubOK(g)
  BY <1>6 DEF Registers, Replay, Changes
<1>8. /\ S \in ClientRecords
      /\ S.inTransaction = session[c].inTransaction
      /\ S.queuedCommands = session[c].queuedCommands
      /\ ModeFits(session[c], h, c) => ModeFits(S, g, c)
  <2>1. /\ ModeAfter(g, c, session[c]) \in ClientRecords
        /\ ModeAfter(g, c, session[c]).inTransaction = session[c].inTransaction
        /\ ModeAfter(g, c, session[c]).queuedCommands = session[c].queuedCommands
        /\ ModeFits(session[c], h, c) => ModeFits(ModeAfter(g, c, session[c]), g, c)
    BY <1>2, <1>7, ModeAfterOK, Zenon
  <2> QED BY <2>1, Zenon DEF S
<1>9. \A x \in late[c] : x[2] \notin Routes(g, c)
  BY <1>2, <1>7, Zenon DEF LateOK
<1>10. "unsubscribe" \in Registering
  BY DEF Registering
<1>11. late' = [late EXCEPT ![c] = late[c]] /\ late[c] \subseteq late[c]
  BY <1>2, <1>4, Zenon DEF TypeInv
<1> QED BY <1>3, <1>4, <1>6, <1>8, <1>9, <1>10, <1>11, HubStep, Zenon DEF h

\* PUNSUBSCRIBE: with no names given, all of the client's.
LEMMA PUnsubscribeStep ==
    ASSUME PUnsubscribeWorks, ListingWorks, IInv, NEW c \in Clients, HandlePUnsubscribe(c)
    PROVE  IInv' /\ \A d \in Clients : ModeKept(d)
<1> DEFINE h == hub[Home[c]]
           Given(cmd) == IF cmd.args = <<>> THEN GetSubscribedPatterns(h, c) ELSE cmd.args
           After(l) == PUnsubscribe(h, c, l)
           Counts(l) == UnsubscribeCounts(CountsDown(h.patterns, c, l),
                                          GetSubscriptionCount(After(l), c).channels)
<1>1. PICK cmd \in load.offers[c] :
        /\ Receives(c, cmd, "PUNSUBSCRIBE")
        /\ WithHub(c, After(Given(cmd)), ModeAfter(After(Given(cmd)), c, session[c]),
                   Ack("punsubscribe", Given(cmd), Counts(Given(cmd))))
        /\ late' = late
  BY Zenon DEF HandlePUnsubscribe
<1> DEFINE q == Given(cmd)
           g == After(q)
           counts == Counts(q)
           S == ModeAfter(g, c, session[c])
<1>2. h \in Tables /\ HubOK(h) /\ session[c] \in ClientRecords /\ TypeInv
      /\ LateOK(c, late[c], Routes(h, c), task[Home[c]].todo)
  BY Facts, Zenon
<1>3. session[c].pc = "read" /\ cmd.args \in Seq(Patterns)
  BY <1>1, Reading, Zenon
<1>4. late' = late /\ WithHub(c, g, S, Ack("punsubscribe", q, counts))
  BY <1>1, Zenon
<1>5. q \in Seq(Patterns) /\ (q = <<>> => h.patterns.by[c] = {})
  <2>1. h.patterns.by[c] \in SUBSET Patterns /\ IsFiniteSet(h.patterns.by[c])
    BY <1>2, OneClient, Zenon
  <2>2. LET l == Listing(h.patterns.by[c])
        IN  l \in Seq(h.patterns.by[c]) /\ (l = <<>> <=> h.patterns.by[c] = {})
    BY <2>1, Zenon DEF ListingWorks
  <2>3. Seq(h.patterns.by[c]) \subseteq Seq(Patterns)
    BY <2>1, SMTT(30)
  <2> QED BY <1>3, <2>2, <2>3, Zenon DEF GetSubscribedPatterns
<1> HIDE DEF S, h, q
<1>6. Registers(h, g, c, "punsubscribe", q, counts)
  BY <1>2, <1>5, Zenon DEF PUnsubscribeWorks
<1> HIDE DEF g, counts
<1>7. Routes(g, c) \subseteq Routes(h, c) /\ g \in Tables /\ HubOK(g)
  BY <1>6, SMTT(30) DEF Registers, Replay, Changes
<1>8. /\ S \in ClientRecords
      /\ S.inTransaction = session[c].inTransaction
      /\ S.queuedCommands = session[c].queuedCommands
      /\ ModeFits(session[c], h, c) => ModeFits(S, g, c)
  <2>1. /\ ModeAfter(g, c, session[c]) \in ClientRecords
        /\ ModeAfter(g, c, session[c]).inTransaction = session[c].inTransaction
        /\ ModeAfter(g, c, session[c]).queuedCommands = session[c].queuedCommands
        /\ ModeFits(session[c], h, c) => ModeFits(ModeAfter(g, c, session[c]), g, c)
    BY <1>2, <1>7, ModeAfterOK, Zenon
  <2> QED BY <2>1, Zenon DEF S
<1>9. \A x \in late[c] : x[2] \notin Routes(g, c)
  BY <1>2, <1>7, Zenon DEF LateOK
<1>10. "punsubscribe" \in Registering
  BY DEF Registering
<1>11. late' = [late EXCEPT ![c] = late[c]] /\ late[c] \subseteq late[c]
  BY <1>2, <1>4, Zenon DEF TypeInv
<1> QED BY <1>3, <1>4, <1>6, <1>8, <1>9, <1>10, <1>11, HubStep, Zenon DEF h

\* RemoveSubscriber, in RESET or at the end of a connection.
LEMMA RemoveStep ==
    ASSUME IInv, NEW c \in Clients, NEW g, NEW S \in ClientStates,
           hub' = [hub EXCEPT ![Home[c]] = g], session' = [session EXCEPT ![c] = S],
           UNCHANGED <<net, load, published, hubVars, history>>,
           Changes(hub[Home[c]], g, c), Routes(g, c) \subseteq Routes(hub[Home[c]], c),
           S.pc \in {"reset", "leave2", "gone"} \/ session[c].pc = "reset",
           S.pc \in {"reset", "leave2", "gone"} => g.channels.by[c] = {},
           S.pc = "gone" => g.patterns.by[c] = {},
           ExecOK(S, acked[c]), KnowsOK(S, told[c], Routes(g, c))
    PROVE  IInv' /\ \A d \in Clients : ModeKept(d)
<1>1. /\ TypeInv /\ Home[c] \in Servers
      /\ LateOK(c, late[c], Routes(hub[Home[c]], c), task[Home[c]].todo)
  BY Facts, Zenon
<1>2. UNCHANGED <<net, load, published, inbox, listener, task, breaks, lost, got, told, late, acked>>
  BY Zenon DEF hubVars, history
<1>3. hub \in [Servers -> Tables] /\ session \in [Clients -> ClientStates] /\ g \in Tables
  BY <1>1, Zenon DEF TypeInv, Changes
<1>4. /\ hub' \in [Servers -> Tables] /\ hub'[Home[c]] = g
      /\ \A s \in Servers \ {Home[c]} : hub'[s] = hub[s]
      /\ session' \in [Clients -> ClientStates] /\ session'[c] = S
      /\ \A d \in Clients \ {c} : session'[d] = session[d]
  BY <1>1, <1>3, Zenon
<1>5. TypeInv'
  BY <1>1, <1>2, <1>4, Zenon DEF TypeInv
<1>6. Mine(c)
  BY <1>2, <1>4, Zenon DEF Mine
<1>7. ModeKept(c)
  BY <1>4, Zenon DEF ModeKept
<1>8. LateOK(c, late'[c], Routes(hub'[Home[c]], c), task[Home[c]].todo)
  BY <1>1, <1>2, <1>4, Zenon DEF LateOK
<1>9. ExecOK(session'[c], acked'[c]) /\ KnowsOK(session'[c], told'[c], Routes(hub'[Home[c]], c))
  BY <1>2, <1>4, Zenon
<1> QED BY <1>4, <1>5, <1>6, <1>7, <1>8, <1>9, ClientStep, Zenon

\* RESET and the deferred cleanup of a connection.
LEMMA RemoveSteps ==
    ASSUME RemoveWorks, IInv, NEW c \in Clients, Reset(c) \/ ResetEnds(c) \/ Leave(c) \/ LeaveEnds(c)
    PROVE  IInv' /\ \A d \in Clients : ModeKept(d)
<1> DEFINE h == hub[Home[c]]
           e == RemoveSubscriberChannels(h, c)
           f == RemoveSubscriberPatterns(h, c)
<1>1. /\ TypeInv /\ Home[c] \in Servers /\ h \in Tables /\ HubOK(h) /\ PlaceOK(c)
      /\ session[c] \in ClientStates /\ session[c] \in ClientRecords
      /\ ExecOK(session[c], acked[c]) /\ KnowsOK(session[c], told[c], Routes(h, c))
  BY Facts, Zenon
<1>2. hub \in [Servers -> Tables] /\ session \in [Clients -> ClientStates]
  BY <1>1 DEF TypeInv
<1>3. /\ Changes(h, e, c) /\ e.channels.by[c] = {} /\ e.patterns = h.patterns
      /\ Changes(h, f, c) /\ f.patterns.by[c] = {} /\ f.channels = h.channels
  BY <1>1, Zenon DEF RemoveWorks
<1>4. Routes(e, c) \subseteq Routes(h, c) /\ Routes(f, c) \subseteq Routes(h, c)
  BY <1>3, Zenon DEF Routes
<1>5. /\ [hub EXCEPT ![Home[c]] = RemoveSubscriberChannels(@, c)] = [hub EXCEPT ![Home[c]] = e]
      /\ [hub EXCEPT ![Home[c]] = RemoveSubscriberPatterns(@, c)] = [hub EXCEPT ![Home[c]] = f]
  BY <1>1, <1>2, Zenon
<1> HIDE DEF e, f
<1>6. CASE Reset(c)
  <2> DEFINE S == [DiscardTransaction(session[c]) EXCEPT !.pc = "reset"]
  <2>1. session[c].pc = "read"
    BY <1>6 DEF Reset, Receives
  <2>2. /\ hub' = [hub EXCEPT ![Home[c]] = e]
        /\ UNCHANGED <<net, load, published, hubVars, history>>
    BY <1>5, <1>6 DEF Reset
  <2>3. session' = [session EXCEPT ![c] = S]
    BY <1>2, <1>6 DEF Reset
  <2>4. <<>> \in Seq(Names)
    OBVIOUS
  <2>5. /\ S \in ClientRecords /\ S.pc = "reset" /\ S.reply = session[c].reply
        /\ S.inTransaction = FALSE
    BY <1>1, <2>4, Zenon DEF ClientRecords, Handlers, DiscardTransaction
  <2> HIDE DEF S
  <2>6. S \in ClientStates
    BY <2>5 DEF ClientStates
  <2>7. ExecOK(S, acked[c])
    BY <1>1, <2>1, <2>5, Zenon DEF ExecOK
  <2>8. KnowsOK(S, told[c], Routes(e, c))
    BY <1>1, <2>5, Zenon DEF KnowsOK
  <2> QED BY <1>3, <1>4, <2>2, <2>3, <2>5, <2>6, <2>7, <2>8, RemoveStep, Zenon
<1>7. CASE ResetEnds(c)
  <2> DEFINE R == ResetState(session[c])
             S == [R EXCEPT !.pc = "reply", !.reply = Plain("reset")]
  <2>1. /\ session[c].pc = "reset" /\ hub' = [hub EXCEPT ![Home[c]] = f]
        /\ UNCHANGED <<net, load, published, hubVars, history>>
    BY <1>7, Zenon DEF ResetEnds, WithHub, f, history
  <2>2. session' = [session EXCEPT ![c] = S]
    BY <1>7, Zenon DEF ResetEnds, WithHub, Answer
  <2>3. Plain("reset") \in Replies /\ Plain("reset").kind = "reset" /\ 2 \in 2..3
    BY PlainType DEF Kinds, Plain, Ack
  <2>4. R \in ClientRecords /\ R.inTransaction = session[c].inTransaction
        /\ R.queuedCommands = session[c].queuedCommands
    BY <1>1, <2>3, Zenon DEF ClientRecords, ResetState
  <2> HIDE DEF R
  <2>5. /\ S \in ClientRecords /\ S.pc = "reply" /\ S.reply = Plain("reset")
        /\ S.inTransaction = R.inTransaction /\ S.queuedCommands = R.queuedCommands
    BY <2>3, <2>4, Zenon DEF ClientRecords, Handlers
  <2> HIDE DEF S
  <2>6. S \in ClientStates
    BY <2>5 DEF ClientStates
  <2>7. ExecOK(S, acked[c])
    BY <1>1, <2>1, <2>3, <2>4, <2>5, Zenon DEF ExecOK
  <2>8. Routes(f, c) = {}
    BY <1>1, <1>3, <2>1, Zenon DEF PlaceOK, Routes
  <2>9. KnowsOK(S, told[c], Routes(f, c))
    BY <2>3, <2>5, <2>8 DEF KnowsOK, CountOK, Replay
  <2> QED BY <1>3, <1>4, <2>1, <2>2, <2>5, <2>6, <2>7, <2>9, RemoveStep, Zenon
<1>8. CASE Leave(c)
  <2> DEFINE S == [session[c] EXCEPT !.pc = "leave2"]
  <2>1. /\ session[c].pc = "leave" /\ hub' = [hub EXCEPT ![Home[c]] = e]
        /\ UNCHANGED <<net, load, published, hubVars, history>>
    BY <1>5, <1>8 DEF Leave
  <2>2. session' = [session EXCEPT ![c] = S]
    BY <1>2, <1>8 DEF Leave
  <2>3. /\ S \in ClientRecords /\ S.pc = "leave2" /\ S.reply = session[c].reply
        /\ S.inTransaction = session[c].inTransaction
        /\ S.queuedCommands = session[c].queuedCommands
    BY <1>1, Zenon DEF ClientRecords, Handlers
  <2> HIDE DEF S
  <2>4. S \in ClientStates
    BY <2>3 DEF ClientStates
  <2>5. ExecOK(S, acked[c]) /\ KnowsOK(S, told[c], Routes(e, c))
    BY <1>1, <2>3, Zenon DEF ExecOK, KnowsOK
  <2> QED BY <1>3, <1>4, <2>1, <2>2, <2>3, <2>4, <2>5, RemoveStep, Zenon
<1>9. CASE LeaveEnds(c)
  <2> DEFINE S == [session[c] EXCEPT !.pc = "gone"]
  <2>1. /\ session[c].pc = "leave2" /\ hub' = [hub EXCEPT ![Home[c]] = f]
        /\ UNCHANGED <<net, load, published, hubVars, history>>
    BY <1>5, <1>9 DEF LeaveEnds
  <2>2. session' = [session EXCEPT ![c] = S]
    BY <1>2, <1>9 DEF LeaveEnds
  <2>3. /\ S \in ClientRecords /\ S.pc = "gone" /\ S.reply = session[c].reply
        /\ S.inTransaction = session[c].inTransaction
        /\ S.queuedCommands = session[c].queuedCommands
    BY <1>1, Zenon DEF ClientRecords, Handlers
  <2> HIDE DEF S
  <2>4. S \in ClientStates
    BY <2>3 DEF ClientStates
  <2>5. ExecOK(S, acked[c]) /\ KnowsOK(S, told[c], Routes(f, c))
    BY <1>1, <2>3, Zenon DEF ExecOK, KnowsOK
  <2>6. f.channels.by[c] = {}
    BY <1>1, <1>3, <2>1, Zenon DEF PlaceOK
  <2> QED BY <1>3, <1>4, <2>1, <2>2, <2>3, <2>4, <2>5, <2>6, RemoveStep, Zenon
<1> QED BY <1>6, <1>7, <1>8, <1>9

-----------------------------------------------------------------------------
(* All steps.                                                               *)

\* New connections on empty hubs satisfy the invariant.
LEMMA InitOK == Init => IInv
<1>1. SUFFICES ASSUME Init PROVE IInv
  OBVIOUS
<1>2. NoReply \in Replies /\ NoReply.kind = "none" /\ NoReply.names = <<>>
  <2>1. /\ <<>> \in Seq(Names) /\ <<>> \in Seq(Channels) /\ <<>> \in Seq(Patterns)
        /\ <<>> \in Seq(Names \cup Channels \cup Patterns) /\ <<>> \in Seq(Nat)
        /\ "none" \in Kinds
    BY DEF Kinds
  <2> QED BY <2>1, Zenon DEF NoReply, Replies
<1>3. NewClientState \in ClientStates
  <2>1. "read" \in Handlers /\ 2 \in 2..3 /\ <<>> \in Seq(Names) /\ <<>> \in Seq(Channels)
    BY DEF Handlers
  <2>2. NewClientState \in ClientRecords
    BY <1>2, <2>1, Zenon DEF NewClientState, ClientRecords
  <2> QED BY <2>2, Zenon DEF ClientStates, NewClientState
<1>4. NewHub \in Tables /\ HubOK(NewHub)
  <2>1. /\ EmptyRegistry(Channels) \in Registry(Channels) /\ EmptyRegistry(Patterns) \in Registry(Patterns)
        /\ Agrees(EmptyRegistry(Channels), Channels) /\ Agrees(EmptyRegistry(Patterns), Patterns)
    BY EmptyOK
  <2> QED BY <2>1, Zenon DEF NewHub, Tables, HubOK
<1>5. \A c \in Clients : NewHub.channels.by[c] = {} /\ NewHub.patterns.by[c] = {}
  BY EmptyOK, Zenon DEF NewHub
<1>6. \A c \in Clients : Routes(NewHub, c) = {}
  BY <1>5 DEF Routes
<1>7. Idle \in Tasks
  BY Zenon DEF Idle, Tasks
<1>8. TypeInv
  <2>1. <<>> \in Seq(Messages) /\ <<>> \in Seq(Receipts) /\ <<>> \in Seq(Names)
    OBVIOUS
  <2>2. /\ hub \in [Servers -> Tables] /\ session \in [Clients -> ClientStates]
        /\ task \in [Servers -> Tasks]
    BY <1>1, <1>3, <1>4, <1>7, Zenon DEF Init
  <2>3. /\ net \in [Clients -> Nets] /\ inbox \in [Servers -> Seq(Messages)]
        /\ listener \in [Servers -> {"up", "broken", "none"}]
    BY <1>1, <2>1, Zenon DEF Init, Nets
  <2>4. /\ got \in [Clients -> Seq(Receipts)] /\ told \in [Clients -> SUBSET AllRoutes]
        /\ late \in [Clients -> SUBSET Receipts] /\ acked \in [Clients -> Seq(Names)]
        /\ lost \in [Servers -> SUBSET Nat]
    BY <1>1, <2>1, Zenon DEF Init
  <2>5. load \in Loads /\ published \in Nat /\ breaks \in Nat
    BY <1>1, Zenon DEF Init
  <2> QED BY <2>2, <2>3, <2>4, <2>5 DEF TypeInv
<1>9. \A s \in Servers : ServerOK(s)
  <2>1. TAKE s \in Servers
  <2>2. hub[s] = NewHub /\ inbox[s] = <<>> /\ task[s] = Idle
    BY <1>1 DEF Init
  <2> QED BY <1>4, <2>2 DEF ServerOK, QueueOK, Idle
<1>10. \A c \in Clients : ClientOK(c)
  <2>1. TAKE c \in Clients
  <2>2. Home[c] \in Servers /\ hub[Home[c]] = NewHub
    BY <1>1, <1>8, HomeType, Zenon DEF Init
  <2>3. /\ session[c] = NewClientState /\ got[c] = <<>> /\ told[c] = {}
        /\ late[c] = {} /\ acked[c] = <<>>
    BY <1>1 DEF Init
  <2>4. PlaceOK(c)
    BY <1>1, <1>5, <2>2, <2>3, Zenon DEF PlaceOK, Init, NewClientState
  <2>5. ExecOK(session[c], acked[c])
    BY <1>2, <2>3, SMTT(30) DEF ExecOK, NewClientState
  <2>6. KnowsOK(session[c], told[c], Routes(hub[Home[c]], c))
    <3>1. Routes(hub[Home[c]], c) = {}
      BY <1>6, <2>2, Zenon
    <3>2. session[c].pc = "read" /\ session[c].reply = NoReply
      BY <2>3, SMTT(30) DEF NewClientState
    <3>3. CountOK(session[c].reply, told[c])
      BY <1>2, <3>2, Zenon DEF CountOK
    <3> QED BY <2>3, <3>1, <3>2, <3>3, Zenon DEF KnowsOK
  <2>7. ReceiptsOK(c, got[c], inbox[Home[c]], task[Home[c]])
    <3>1. DOMAIN got[c] = {}
      BY <2>3
    <3> QED BY <3>1, Zenon DEF ReceiptsOK
  <2>8. LateOK(c, late[c], Routes(hub[Home[c]], c), task[Home[c]].todo)
    BY <2>3, Zenon DEF LateOK
  <2> QED BY <2>4, <2>5, <2>6, <2>7, <2>8, Zenon DEF ClientOK
<1> QED BY <1>8, <1>9, <1>10 DEF IInv

\* Every step of a handler, a listener or a client keeps the invariant, and
\* does not part pub/sub mode from the subscriptions.
LEMMA NextOK ==
    ASSUME HubWorks, IInv, Next
    PROVE  IInv' /\ \A d \in Clients : ModeKept(d)
<1>1. CASE \E c \in Clients : Command(c)
  <2>1. PICK c \in Clients : Command(c)
    BY <1>1, Zenon
  <2>2. CASE Refuse(c) \/ Run(c) \/ auth(c) \/ hello(c) \/ WrongArgs(c) \/ PublishFails(c)
    BY <2>2, PlainSteps
  <2>3. CASE HandleMulti(c) \/ QueueCommand(c) \/ HandleDiscard(c) \/ HandleExec(c)
    BY <2>3, TransactionSteps
  <2>4. CASE HandleSubscribe(c)
    BY <2>4, SubscribeStep DEF HubWorks
  <2>5. CASE HandlePSubscribe(c)
    BY <2>5, PSubscribeStep DEF HubWorks
  <2>6. CASE HandleUnsubscribe(c)
    BY <2>6, UnsubscribeStep DEF HubWorks
  <2>7. CASE HandlePUnsubscribe(c)
    BY <2>7, PUnsubscribeStep, Zenon DEF HubWorks
  <2>8. CASE Reset(c)
    BY <2>8, RemoveSteps DEF HubWorks
  <2>9. CASE Publish(c)
    BY <2>9, PublishStep, Zenon
  <2> QED BY <2>1, <2>2, <2>3, <2>4, <2>5, <2>6, <2>7, <2>8, <2>9 DEF Command
<1>2. CASE \E c \in Clients : handleConnection(c)
  <2>1. PICK c \in Clients : handleConnection(c)
    BY <1>2
  <2>2. CASE ResetEnds(c) \/ Leave(c) \/ LeaveEnds(c)
    BY <2>2, RemoveSteps DEF HubWorks
  <2>3. CASE PublishCounts(c)
    BY <2>3, CountStep DEF HubWorks
  <2>4. CASE WriteResponses(c) \/ WriteEnds(c) \/ ReadFails(c)
    BY <2>4, WriteSteps
  <2> QED BY <2>1, <2>2, <2>3, <2>4 DEF handleConnection
<1>3. CASE \E c \in Clients : Stall(c) \/ Resume(c) \/ Hangup(c)
  BY <1>3, NetSteps, Zenon
<1>4. CASE \E s \in Servers : listenLoop(s) \/ ListenerBreaks(s)
  <2>1. PICK s \in Servers : listenLoop(s) \/ ListenerBreaks(s)
    BY <1>4
  <2>2. CASE deliverToChannel(s)
    BY <2>2, TakeStep
  <2>3. CASE deliverToPatterns(s)
    BY <2>3, PatternsStep
  <2>4. CASE Delivered1(s)
    BY <2>4, DeliveredStep
  <2>5. CASE SendPubSubMessage(s) \/ SendEnds(s)
    BY <2>5, SendSteps
  <2>6. CASE ListenerDropped(s) \/ reconnect(s) \/ ListenerBreaks(s)
    BY <2>6, ListenerSteps
  <2> QED BY <2>1, <2>2, <2>3, <2>4, <2>5, <2>6 DEF listenLoop
<1> QED BY <1>1, <1>2, <1>3, <1>4, Zenon DEF Next

=============================================================================
