-------------------------------- MODULE Hub --------------------------------
(***************************************************************************)
(* The subscription tables of one pub/sub hub (internal/pubsub/hub.go) as   *)
(* functions from one table state to the next.  The hub keeps two pairs of  *)
(* maps of the same shape: subscriptions/subscribers for channels, guarded  *)
(* by mu, and patterns/subPatterns for patterns, guarded by patternMu.      *)
(* Each pair is a registry:                                                 *)
(*                                                                         *)
(*   of[n]   the clients that name n leads to (a delivery reads this side) *)
(*   by[c]   the names of client c (counts and cleanup read this side)     *)
(*                                                                         *)
(* A Go map entry that is absent and one that holds an empty set are the    *)
(* same thing here: the code deletes an entry when its set becomes empty.   *)
(***************************************************************************)
EXTENDS Naturals, FiniteSets, Sequences, Functions

CONSTANTS
    Clients,    \* client connections (ClientState.ID)
    Channels,   \* channel names
    Patterns,   \* glob patterns
    Matching    \* the pairs <<pattern, channel>> for which matchPattern holds

ASSUME ClientsAssumption == IsFiniteSet(Clients)

EmptyRegistry(names) ==
    [of |-> [n \in names |-> {}], by |-> [c \in Clients |-> {}]]

NewHub == [channels |-> EmptyRegistry(Channels), patterns |-> EmptyRegistry(Patterns)]

-----------------------------------------------------------------------------
(* One registry: both sides change in one critical section.                 *)

Enrol(r, c, names) ==
    [of |-> [n \in DOMAIN r.of |-> IF n \in Range(names) THEN r.of[n] \cup {c} ELSE r.of[n]],
     by |-> [r.by EXCEPT ![c] = @ \cup Range(names)]]

(* With no names given, every name of the client goes.                      *)
Withdrawn(r, c, names) == IF names = <<>> THEN r.by[c] ELSE Range(names)

Withdraw(r, c, names) ==
    [of |-> [n \in DOMAIN r.of |-> IF n \in Withdrawn(r, c, names) THEN r.of[n] \ {c} ELSE r.of[n]],
     by |-> [r.by EXCEPT ![c] = @ \ Withdrawn(r, c, names)]]

(* counts[i]: the size of the client's set after the i-th name.             *)
CountsUp(r, c, names) ==
    [i \in DOMAIN names |-> Cardinality(r.by[c] \cup Range(SubSeq(names, 1, i)))]

CountsDown(r, c, names) ==
    [i \in DOMAIN names |-> Cardinality(r.by[c] \ Range(SubSeq(names, 1, i)))]

\* Mutant of Forget: the names keep the client.
ForgetRest(r, c) == [r EXCEPT !.by[c] = {}]

(* The walk of RemoveSubscriber goes through the client's own side only, so *)
(* a name missing there would stay behind on the other side.                *)
Forget(r, c) ==
    [of |-> [n \in DOMAIN r.of |-> IF n \in r.by[c] THEN r.of[n] \ {c} ELSE r.of[n]],
     by |-> [r.by EXCEPT ![c] = {}]]

-----------------------------------------------------------------------------
(* The exported operations.                                                 *)

Subscribe(h, c, channels) == [h EXCEPT !.channels = Enrol(@, c, channels)]

\* Mutant of Unsubscribe: only the client's own side is cleared.
UnsubscribeOneSide(h, c, channels) ==
    [h EXCEPT !.channels.by[c] = @ \ Withdrawn(h.channels, c, channels)]

Unsubscribe(h, c, channels) == [h EXCEPT !.channels = Withdraw(@, c, channels)]

PSubscribe(h, c, patterns) == [h EXCEPT !.patterns = Enrol(@, c, patterns)]

PUnsubscribe(h, c, patterns) == [h EXCEPT !.patterns = Withdraw(@, c, patterns)]

GetSubscriptionCount(h, c) ==
    [channels |-> Cardinality(h.channels.by[c]), patterns |-> Cardinality(h.patterns.by[c])]

(* A set as a list: the order in which a Go map is walked is left open.      *)
Listing(S) == CHOOSE q \in Bijection(1..Cardinality(S), S) : TRUE

GetSubscribedChannels(h, c) == Listing(h.channels.by[c])

GetSubscribedPatterns(h, c) == Listing(h.patterns.by[c])

(* RemoveSubscriber takes mu and patternMu one after the other: two steps.  *)
RemoveSubscriberChannels(h, c) == [h EXCEPT !.channels = Forget(@, c)]

RemoveSubscriberPatterns(h, c) == [h EXCEPT !.patterns = Forget(@, c)]

(* Whom a message on channel ch is for, as <<client, route>> pairs: the     *)
(* route is the name the client gets the message under.                     *)
ChannelTargets(h, ch) == {<<c, <<"channel", ch>>>> : c \in h.channels.of[ch]}

PatternTargets(h, ch) ==
    UNION {{<<c, <<"pattern", p>>>> : c \in h.patterns.of[p]} :
              p \in {q \in Patterns : <<q, ch>> \in Matching}}

countSubscribers(h, ch) ==
    Cardinality(ChannelTargets(h, ch)) + Cardinality(PatternTargets(h, ch))

(* The routes client c is registered for.                                   *)
Routes(h, c) ==
    {<<"channel", ch>> : ch \in h.channels.by[c]} \cup
    {<<"pattern", p>> : p \in h.patterns.by[c]}

=============================================================================
