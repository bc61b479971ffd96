----------------------------- MODULE MCSessions -----------------------------
(* Sessions with two clients on one or two servers.  Each workload gives    *)
(* every client the commands it may send, in any order and number.          *)
EXTENDS Sessions

CONSTANTS c1, c2, here, there

Cmd(name, args) == [name |-> name, args |-> args, version |-> 2, password |-> "none"]
Hello(version, password) == [Cmd("HELLO", <<>>) EXCEPT !.version = version, !.password = password]
Auth(password) == [Cmd("AUTH", <<>>) EXCEPT !.password = password]
Bare(names) == {Cmd(n, <<>>) : n \in names}

Offers(of1, of2) == [c \in Clients |-> IF c = c1 THEN of1 ELSE of2]

(* A subscriber by channel and by pattern, and a publisher elsewhere.       *)
Broadcast ==
    [password |-> FALSE, frail |-> {}, reachable |-> {here}, messages |-> 2, breaks |-> 1,
     home |-> [c \in Clients |-> IF c = c1 THEN here ELSE there],
     offers |-> Offers({Cmd("SUBSCRIBE", <<"news">>), Cmd("UNSUBSCRIBE", <<>>),
                        Cmd("PSUBSCRIBE", <<"n*">>), Cmd("PUNSUBSCRIBE", <<"n*">>)},
                       {Cmd("PUBLISH", <<"news">>)})]

(* Two subscribers of one server, one of which publishes.                   *)
Neighbours ==
    [password |-> FALSE, frail |-> {c1}, reachable |-> {here}, messages |-> 2, breaks |-> 0,
     home |-> [c \in Clients |-> here],
     offers |-> Offers({Cmd("SUBSCRIBE", <<"news">>)},
                       {Cmd("PSUBSCRIBE", <<"n*">>), Cmd("PUBLISH", <<"news">>)})]

(* One client with every command, several names and repeated ones.          *)
Alone ==
    [password |-> TRUE, frail |-> {}, reachable |-> {here}, messages |-> 0, breaks |-> 0,
     home |-> [c \in Clients |-> here],
     offers |-> Offers({Hello(v, w) : v \in 2..4, w \in {"none", "right", "wrong"}}
                       \cup {Auth("right"), Auth("wrong")}
                       \cup Bare({"PING", "GET", "RESET", "MULTI", "EXEC", "DISCARD",
                                  "UNSUBSCRIBE", "PUNSUBSCRIBE", "SUBSCRIBE"})
                       \cup {Cmd("SUBSCRIBE", <<"news", "misc">>), Cmd("SUBSCRIBE", <<"misc", "misc">>),
                             Cmd("UNSUBSCRIBE", <<"news", "news">>), Cmd("PSUBSCRIBE", <<"n*">>)},
                       {})]

Workloads == {Broadcast, Neighbours, Alone}
Prefix == {<<"n*", "news">>}

=============================================================================
