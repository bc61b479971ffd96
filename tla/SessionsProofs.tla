--------------------------- MODULE SessionsProofs ---------------------------
(***************************************************************************)
(* Proofs about the client connections and the pub/sub hubs: the two sides  *)
(* of the subscription tables agree, the counts in the replies are those a  *)
(* client arrives at, EXEC answers what was queued, messages arrive in      *)
(* order and once, and at most one comes late.                              *)
(*                                                                         *)
(* The operations of the hub change both sides of a table for one client,   *)
(* and the counts they return are the ones the client arrives at by adding  *)
(* up the replies: what the steps of SessionsSteps rely on.                 *)
(***************************************************************************)
EXTENDS SessionsSteps, FiniteSetTheorems

-----------------------------------------------------------------------------
(* Registries: both sides change together.                                  *)

\* The names of a command line are finitely many.
LEMMA NamesFinite ==
    ASSUME NEW N, NEW q \in Seq(N)
    PROVE  Range(q) \in SUBSET N /\ IsFiniteSet(Range(q))
<1>1. q \in [1..Len(q) -> N] /\ Len(q) \in Nat
  OBVIOUS
<1>2. Range(q) \in SUBSET N
  BY <1>1 DEF Range
<1>3. q \in Surjection(1..Len(q), Range(q))
  BY <1>1 DEF Surjection, Range
<1>4. IsFiniteSet(1..Len(q))
  BY <1>1, FS_Interval
<1> QED BY <1>2, <1>3, <1>4, FS_Surjection

\* Subscribing adds the names on both sides, for this client alone.
LEMMA EnrolOK ==
    ASSUME NEW N, NEW r \in Registry(N), Agrees(r, N), NEW c \in Clients, NEW q \in Seq(N)
    PROVE  /\ Enrol(r, c, q) \in Registry(N)
           /\ Agrees(Enrol(r, c, q), N)
           /\ Enrol(r, c, q).by = [r.by EXCEPT ![c] = @ \cup Range(q)]
<1> DEFINE E == Enrol(r, c, q)
           Q == Range(q)
<1>1. Q \in SUBSET N /\ IsFiniteSet(Q)
  BY NamesFinite
<1>2. r.of \in [N -> SUBSET Clients] /\ r.by \in [Clients -> SUBSET N]
  BY DEF Registry
<1>3. /\ E.of = [n \in N |-> IF n \in Q THEN r.of[n] \cup {c} ELSE r.of[n]]
      /\ E.by = [r.by EXCEPT ![c] = @ \cup Q]
      /\ E = [of |-> E.of, by |-> E.by]
  BY <1>2 DEF Enrol
<1> HIDE DEF E, Q
<1>4. E.of \in [N -> SUBSET Clients] /\ E.by \in [Clients -> SUBSET N]
  BY <1>1, <1>2, <1>3
<1>5. E \in Registry(N)
  BY <1>3, <1>4 DEF Registry
<1>6. ASSUME NEW d \in Clients
      PROVE  /\ \A n \in N : d \in E.of[n] <=> n \in E.by[d]
             /\ IsFiniteSet(E.by[d])
  <2>1. \A n \in N : d \in r.of[n] <=> n \in r.by[d]
    BY DEF Agrees
  <2>2. IsFiniteSet(r.by[d]) /\ IsFiniteSet(r.by[d] \cup Q)
    BY <1>1, FS_Union, Zenon DEF Agrees
  <2>3. E.by[d] = IF d = c THEN r.by[d] \cup Q ELSE r.by[d]
    BY <1>2, <1>3, Zenon
  <2>4. \A n \in N : E.of[n] = IF n \in Q THEN r.of[n] \cup {c} ELSE r.of[n]
    BY <1>3
  <2>5. \A n \in N : d \in E.of[n] <=> n \in E.by[d]
    BY <2>1, <2>3, <2>4, Zenon
  <2> QED BY <2>2, <2>3, <2>5
<1> QED BY <1>3, <1>5, <1>6, Zenon DEF Agrees, E, Q

\* Taking any set of names from a client, on both sides.
LEMMA TakenOK ==
    ASSUME NEW N, NEW r \in Registry(N), Agrees(r, N), NEW c \in Clients, NEW Q
    PROVE  LET E == [of |-> [n \in DOMAIN r.of |-> IF n \in Q THEN r.of[n] \ {c} ELSE r.of[n]],
                     by |-> [r.by EXCEPT ![c] = @ \ Q]]
           IN  E \in Registry(N) /\ Agrees(E, N)
<1> DEFINE O == [n \in DOMAIN r.of |-> IF n \in Q THEN r.of[n] \ {c} ELSE r.of[n]]
           B == [r.by EXCEPT ![c] = @ \ Q]
           E == [of |-> O, by |-> B]
<1>1. r.of \in [N -> SUBSET Clients] /\ r.by \in [Clients -> SUBSET N]
  BY DEF Registry
<1>2. /\ O \in [N -> SUBSET Clients]
      /\ B \in [Clients -> SUBSET N]
      /\ \A n \in N : O[n] = IF n \in Q THEN r.of[n] \ {c} ELSE r.of[n]
      /\ \A d \in Clients : B[d] = IF d = c THEN r.by[d] \ Q ELSE r.by[d]
  BY <1>1, Zenon
<1> HIDE DEF O, B
<1>3. E \in Registry(N) /\ E.of = O /\ E.by = B
  BY <1>2 DEF Registry
<1>4. ASSUME NEW d \in Clients
      PROVE  /\ \A n \in N : d \in O[n] <=> n \in B[d]
             /\ IsFiniteSet(B[d])
  <2>1. \A n \in N : d \in r.of[n] <=> n \in r.by[d]
    BY DEF Agrees
  <2>2. IsFiniteSet(r.by[d]) /\ IsFiniteSet(r.by[d] \ Q)
    BY FS_Difference, Zenon DEF Agrees
  <2>3. \A n \in N : d \in O[n] <=> n \in B[d]
    BY <1>2, <2>1
  <2> QED BY <1>2, <2>2, <2>3, Zenon
<1> HIDE DEF E
<1>5. Agrees(E, N)
  BY <1>3, <1>4 DEF Agrees
<1> QED BY <1>3, <1>5 DEF E, O, B

\* Unsubscribing takes the names away on both sides.
LEMMA WithdrawOK ==
    ASSUME NEW N, NEW r \in Registry(N), Agrees(r, N), NEW c \in Clients, NEW q
    PROVE  /\ Withdraw(r, c, q) \in Registry(N)
           /\ Agrees(Withdraw(r, c, q), N)
           /\ Withdraw(r, c, q).by = [r.by EXCEPT ![c] = @ \ Withdrawn(r, c, q)]
<1>1. Withdraw(r, c, q) \in Registry(N) /\ Agrees(Withdraw(r, c, q), N)
  BY TakenOK, Zenon DEF Withdraw
<1>2. Withdraw(r, c, q).by = [r.by EXCEPT ![c] = @ \ Withdrawn(r, c, q)]
  BY DEF Withdraw
<1> QED BY <1>1, <1>2

\* RemoveSubscriber walks the client's own side and empties both.
LEMMA ForgetOK ==
    ASSUME NEW N, NEW r \in Registry(N), Agrees(r, N), NEW c \in Clients
    PROVE  /\ Forget(r, c) \in Registry(N)
           /\ Agrees(Forget(r, c), N)
           /\ Forget(r, c).by = [r.by EXCEPT ![c] = {}]
<1>1. r.by \in [Clients -> SUBSET N]
  BY DEF Registry
<1>2. [r.by EXCEPT ![c] = @ \ r.by[c]] = [r.by EXCEPT ![c] = {}]
  BY <1>1
<1>3. Forget(r, c) = [of |-> [n \in DOMAIN r.of |-> IF n \in r.by[c] THEN r.of[n] \ {c} ELSE r.of[n]],
                      by |-> [r.by EXCEPT ![c] = @ \ r.by[c]]]
  BY <1>2, Zenon DEF Forget
<1>4. Forget(r, c) \in Registry(N) /\ Agrees(Forget(r, c), N)
  BY <1>3, TakenOK, Zenon
<1>5. Forget(r, c).by = [r.by EXCEPT ![c] = {}]
  BY DEF Forget
<1> QED BY <1>4, <1>5

-----------------------------------------------------------------------------
(* Routes and their number.                                                 *)

\* A set and its names tagged with a kind have as many elements.
LEMMA TaggedCard ==
    ASSUME NEW A, IsFiniteSet(A), NEW tag
    PROVE  /\ IsFiniteSet({<<tag, n>> : n \in A})
           /\ Cardinality({<<tag, n>> : n \in A}) = Cardinality(A)
<1> DEFINE T == {<<tag, n>> : n \in A}
           f == [n \in A |-> <<tag, n>>]
<1>1. f \in [A -> T] /\ \A n \in A : f[n] = <<tag, n>>
  OBVIOUS
<1>2. \A a, b \in A : f[a] = f[b] => a = b
  BY <1>1
<1>3. \A t \in T : \E n \in A : f[n] = t
  BY <1>1
<1> HIDE DEF f, T
<1>4. f \in Bijection(A, T)
  BY <1>1, <1>2, <1>3 DEF Bijection, Injection, Surjection, IsInjective
<1>5. ExistsBijection(A, T)
  BY <1>4 DEF ExistsBijection
<1>6. IsFiniteSet(T) /\ Cardinality(T) = Cardinality(A)
  BY <1>5, FS_Bijection
<1> QED BY <1>6 DEF T

\* The routes of a client are as many as its channels and its patterns.
LEMMA RoutesCard ==
    ASSUME NEW A, IsFiniteSet(A), NEW B, IsFiniteSet(B)
    PROVE  /\ Cardinality(RoutesOf(A, B)) = Cardinality(A) + Cardinality(B)
           /\ Cardinality(A) \in Nat /\ Cardinality(B) \in Nat
<1> DEFINE X == {<<"channel", n>> : n \in A}
           Y == {<<"pattern", p>> : p \in B}
<1>1. /\ IsFiniteSet(X) /\ Cardinality(X) = Cardinality(A)
      /\ IsFiniteSet(Y) /\ Cardinality(Y) = Cardinality(B)
  BY TaggedCard, Zenon
<1>2. X \cap Y = {}
  OBVIOUS
<1>3. RoutesOf(A, B) = X \cup Y
  BY DEF RoutesOf
<1> HIDE DEF X, Y
<1>4. Cardinality(X \cup Y) = Cardinality(X) + Cardinality(Y) - Cardinality(X \cap Y)
  BY <1>1, FS_Union
<1>5. Cardinality(A) \in Nat /\ Cardinality(B) \in Nat
  BY FS_CardinalityType
<1>6. Cardinality(X \cap Y) = 0
  BY <1>2, FS_EmptySet
<1> QED BY <1>1, <1>3, <1>4, <1>5, <1>6

\* What a client adds up from the replies to SUBSCRIBE.
LEMMA ReplaySubscribe ==
    ASSUME NEW A, NEW B, NEW q, NEW C, C = A \cup Range(q)
    PROVE  Replay(RoutesOf(A, B), "subscribe", q) = RoutesOf(C, B)
<1>1. Replay(RoutesOf(A, B), "subscribe", q) = RoutesOf(A, B) \cup {<<"channel", n>> : n \in Range(q)}
  BY DEF Replay
<1> QED BY <1>1 DEF RoutesOf

\* What a client adds up from the replies to PSUBSCRIBE.
LEMMA ReplayPSubscribe ==
    ASSUME NEW A, NEW B, NEW q, NEW C, C = B \cup Range(q)
    PROVE  Replay(RoutesOf(A, B), "psubscribe", q) = RoutesOf(A, C)
<1>1. Replay(RoutesOf(A, B), "psubscribe", q) = RoutesOf(A, B) \cup {<<"pattern", n>> : n \in Range(q)}
  BY DEF Replay
<1> QED BY <1>1 DEF RoutesOf

\* What a client adds up from the replies to UNSUBSCRIBE.
LEMMA ReplayUnsubscribe ==
    ASSUME NEW A, NEW B, NEW q, NEW C, C = A \ Range(q)
    PROVE  Replay(RoutesOf(A, B), "unsubscribe", q) = RoutesOf(C, B)
<1>1. Replay(RoutesOf(A, B), "unsubscribe", q) = RoutesOf(A, B) \ {<<"channel", n>> : n \in Range(q)}
  BY DEF Replay
<1> QED BY <1>1 DEF RoutesOf

\* What a client adds up from the replies to PUNSUBSCRIBE.
LEMMA ReplayPUnsubscribe ==
    ASSUME NEW A, NEW B, NEW q, NEW C, C = B \ Range(q)
    PROVE  Replay(RoutesOf(A, B), "punsubscribe", q) = RoutesOf(A, C)
<1>1. Replay(RoutesOf(A, B), "punsubscribe", q) = RoutesOf(A, B) \ {<<"pattern", n>> : n \in Range(q)}
  BY DEF Replay
<1> QED BY <1>1 DEF RoutesOf

\* GetSubscribedChannels and GetSubscribedPatterns list the names.
LEMMA ListingType ==
    ASSUME NEW S, IsFiniteSet(S)
    PROVE  Listing(S) \in Seq(S) /\ (Listing(S) = <<>> <=> S = {})
<1>1. Cardinality(S) \in Nat /\ ExistsBijection(1..Cardinality(S), S)
  BY FS_CardinalityType
<1>2. Listing(S) \in Bijection(1..Cardinality(S), S)
  BY <1>1 DEF ExistsBijection, Listing
<1>3. Listing(S) \in [1..Cardinality(S) -> S]
  BY <1>2 DEF Bijection, Injection
<1>4. Listing(S) \in Seq(S) /\ Len(Listing(S)) = Cardinality(S)
  BY <1>1, <1>3
<1>5. Listing(S) = <<>> <=> Cardinality(S) = 0
  BY <1>4
<1> QED BY <1>4, <1>5, FS_EmptySet

\* The prefix of a command line up to its i-th name.
LEMMA PrefixNames ==
    ASSUME NEW N, NEW q \in Seq(N), NEW i \in DOMAIN q
    PROVE  IsFiniteSet(Range(SubSeq(q, 1, i)))
<1>1. SubSeq(q, 1, i) \in Seq(N)
  OBVIOUS
<1> QED BY <1>1, NamesFinite, Zenon

\* The number of routes after each of the four commands.
LEMMA ReplayCard ==
    ASSUME NEW A, IsFiniteSet(A), NEW B, IsFiniteSet(B), NEW p, IsFiniteSet(Range(p)), NEW C
    PROVE  /\ C = A \cup Range(p) =>
                Cardinality(Replay(RoutesOf(A, B), "subscribe", p)) = Cardinality(C) + Cardinality(B)
           /\ C = B \cup Range(p) =>
                Cardinality(Replay(RoutesOf(A, B), "psubscribe", p)) = Cardinality(C) + Cardinality(A)
           /\ C = A \ Range(p) =>
                Cardinality(Replay(RoutesOf(A, B), "unsubscribe", p)) = Cardinality(C) + Cardinality(B)
           /\ C = B \ Range(p) =>
                Cardinality(Replay(RoutesOf(A, B), "punsubscribe", p)) = Cardinality(C) + Cardinality(A)
           /\ C \in {A \cup Range(p), B \cup Range(p), A \ Range(p), B \ Range(p)} =>
                Cardinality(C) \in Nat
<1> DEFINE Q == Range(p)
<1>1. ASSUME IsFiniteSet(C)
      PROVE  /\ Cardinality(RoutesOf(C, B)) = Cardinality(C) + Cardinality(B)
             /\ Cardinality(RoutesOf(A, C)) = Cardinality(A) + Cardinality(C)
             /\ Cardinality(A) \in Nat /\ Cardinality(B) \in Nat /\ Cardinality(C) \in Nat
  BY <1>1, RoutesCard
<1>2. /\ IsFiniteSet(A \cup Q) /\ IsFiniteSet(B \cup Q)
      /\ IsFiniteSet(A \ Q) /\ IsFiniteSet(B \ Q)
  BY FS_Union, FS_Difference, Zenon
<1> HIDE DEF Q
<1>3. C \in {A \cup Q, B \cup Q, A \ Q, B \ Q} => IsFiniteSet(C)
  BY <1>2
<1>4. /\ C = A \cup Q => Replay(RoutesOf(A, B), "subscribe", p) = RoutesOf(C, B)
      /\ C = B \cup Q => Replay(RoutesOf(A, B), "psubscribe", p) = RoutesOf(A, C)
      /\ C = A \ Q => Replay(RoutesOf(A, B), "unsubscribe", p) = RoutesOf(C, B)
      /\ C = B \ Q => Replay(RoutesOf(A, B), "punsubscribe", p) = RoutesOf(A, C)
  BY ReplaySubscribe, ReplayPSubscribe, ReplayUnsubscribe, ReplayPUnsubscribe DEF Q
<1>5. /\ C = A \cup Q =>
            Cardinality(Replay(RoutesOf(A, B), "subscribe", p)) = Cardinality(C) + Cardinality(B)
      /\ C = B \cup Q =>
            Cardinality(Replay(RoutesOf(A, B), "psubscribe", p)) = Cardinality(C) + Cardinality(A)
  BY <1>1, <1>3, <1>4
<1>6. /\ C = A \ Q =>
            Cardinality(Replay(RoutesOf(A, B), "unsubscribe", p)) = Cardinality(C) + Cardinality(B)
      /\ C = B \ Q =>
            Cardinality(Replay(RoutesOf(A, B), "punsubscribe", p)) = Cardinality(C) + Cardinality(A)
  BY <1>1, <1>3, <1>4
<1> QED BY <1>1, <1>3, <1>5, <1>6 DEF Q

\* A reply whose counts are, name by name, the client's own.
LEMMA CountsOK ==
    ASSUME NEW kind \in {"subscribe", "psubscribe", "unsubscribe", "punsubscribe"}, NEW N,
           N = IF kind \in {"subscribe", "unsubscribe"} THEN Channels ELSE Patterns,
           NEW q \in Seq(N), q # <<>>, NEW known, NEW k, DOMAIN k = DOMAIN q, NEW n \in Nat,
           \A i \in DOMAIN q :
              k[i] \in Nat /\ Cardinality(Replay(known, kind, SubSeq(q, 1, i))) = k[i] + n
    PROVE  LET r == Ack(kind, q, [i \in DOMAIN k |-> k[i] + n])
           IN  r \in Replies /\ CountOK(r, known)
<1> DEFINE m == [i \in DOMAIN k |-> k[i] + n]
           r == Ack(kind, q, m)
<1>1. m \in Seq(Nat)
  <2>1. DOMAIN q = 1..Len(q) /\ Len(q) \in Nat
    OBVIOUS
  <2>2. \A i \in 1..Len(q) : k[i] + n \in Nat
    BY <2>1
  <2> QED BY <2>1, <2>2
<1>2. m = [i \in DOMAIN q |-> Cardinality(Replay(known, kind, SubSeq(q, 1, i)))]
  BY Zenon
<1> HIDE DEF m
<1>3. r \in Replies
  BY <1>1, AckType DEF Kinds
<1>4. r.kind = kind /\ r.names = q /\ r.counts = m
  BY DEF Ack
<1> HIDE DEF r
<1>5. CountOK(r, known)
  BY <1>2, <1>4 DEF CountOK
<1> QED BY <1>3, <1>5 DEF r, m

\* Replacing the registry of the channels.
LEMMA ChannelsChange ==
    ASSUME NEW h \in Tables, HubOK(h), NEW c \in Clients, NEW C,
           NEW g \in Tables, Agrees(g.channels, Channels), g.patterns = h.patterns,
           g.channels.by[c] = C, \A d \in Clients \ {c} : g.channels.by[d] = h.channels.by[d]
    PROVE  Changes(h, g, c) /\ Routes(g, c) = RoutesOf(C, h.patterns.by[c])
<1>1. HubOK(g)
  BY DEF HubOK
<1>2. Routes(g, c) = RoutesOf(C, h.patterns.by[c])
  BY DEF Routes, RoutesOf
<1> QED BY <1>1, <1>2 DEF Changes

\* Replacing the registry of the patterns.
LEMMA PatternsChange ==
    ASSUME NEW h \in Tables, HubOK(h), NEW c \in Clients, NEW C,
           NEW g \in Tables, Agrees(g.patterns, Patterns), g.channels = h.channels,
           g.patterns.by[c] = C, \A d \in Clients \ {c} : g.patterns.by[d] = h.patterns.by[d]
    PROVE  Changes(h, g, c) /\ Routes(g, c) = RoutesOf(h.channels.by[c], C)
<1>1. HubOK(g)
  BY DEF HubOK
<1>2. Routes(g, c) = RoutesOf(h.channels.by[c], C)
  BY DEF Routes, RoutesOf
<1> QED BY <1>1, <1>2 DEF Changes

\* SUBSCRIBE.
LEMMA SubscribeOK ==
    ASSUME NEW h \in Tables, HubOK(h), NEW c \in Clients, NEW q \in Seq(Channels), q # <<>>
    PROVE  LET n == GetSubscriptionCount(h, c)
               k == CountsUp(h.channels, c, q)
           IN  Registers(h, Subscribe(h, c, q), c, "subscribe", q, [i \in DOMAIN k |-> k[i] + n.patterns])
<1> DEFINE A == h.channels.by[c]
           B == h.patterns.by[c]
           k == CountsUp(h.channels, c, q)
           n == Cardinality(B)
           C == A \cup Range(q)
           E == Enrol(h.channels, c, q)
           g == Subscribe(h, c, q)
<1>1. /\ IsFiniteSet(A) /\ IsFiniteSet(B) /\ Routes(h, c) = RoutesOf(A, B)
      /\ h.channels \in Registry(Channels) /\ Agrees(h.channels, Channels)
  BY OneClient
<1>2. n \in Nat
  BY <1>1, FS_CardinalityType
<1>3. \A i \in DOMAIN q :
         /\ k[i] \in Nat
         /\ Cardinality(Replay(Routes(h, c), "subscribe", SubSeq(q, 1, i))) = k[i] + n
  <2>1. TAKE i \in DOMAIN q
  <2> DEFINE P == SubSeq(q, 1, i)
             D == A \cup Range(P)
  <2>2. IsFiniteSet(Range(P))
    BY PrefixNames
  <2>3. k[i] = Cardinality(D)
    BY DEF CountsUp
  <2>4. D = A \cup Range(P)
    OBVIOUS
  <2> HIDE DEF D, P, k, n, A, B
  <2>5. /\ Cardinality(Replay(RoutesOf(A, B), "subscribe", P)) = Cardinality(D) + Cardinality(B)
        /\ Cardinality(D) \in Nat
    BY <1>1, <2>2, <2>4, ReplayCard
  <2> QED BY <1>1, <2>3, <2>5 DEF P, n
<1>4. DOMAIN k = DOMAIN q
  BY DEF CountsUp
<1>5. E.by[c] = C /\ \A d \in Clients \ {c} : E.by[d] = h.channels.by[d]
  BY <1>1 DEF Enrol, Registry
<1>6. g = [h EXCEPT !.channels = E]
  BY DEF Subscribe
<1>7. GetSubscriptionCount(h, c).patterns = n
  BY DEF GetSubscriptionCount
<1>8. E \in Registry(Channels) /\ Agrees(E, Channels)
  BY <1>1, EnrolOK, Zenon
<1>9. C = A \cup Range(q)
  OBVIOUS
<1> HIDE DEF k, n, E, C, g
<1>10. Changes(h, g, c) /\ Routes(g, c) = RoutesOf(C, B)
  <2>1. g \in Tables /\ g.channels = E /\ g.patterns = h.patterns
    BY <1>6, <1>8 DEF Tables
  <2> QED BY <1>5, <1>8, <2>1, ChannelsChange
<1> HIDE DEF A, B
<1>11. Replay(RoutesOf(A, B), "subscribe", q) = RoutesOf(C, B)
  BY <1>9, ReplaySubscribe
<1>12. LET r == Ack("subscribe", q, [i \in DOMAIN k |-> k[i] + n])
       IN  r \in Replies /\ CountOK(r, Routes(h, c))
  BY <1>2, <1>3, <1>4, CountsOK, Zenon
<1> QED BY <1>1, <1>7, <1>10, <1>11, <1>12 DEF Registers, k, g

\* PSUBSCRIBE.
LEMMA PSubscribeOK ==
    ASSUME NEW h \in Tables, HubOK(h), NEW c \in Clients, NEW q \in Seq(Patterns), q # <<>>
    PROVE  LET n == GetSubscriptionCount(h, c)
               k == CountsUp(h.patterns, c, q)
           IN  Registers(h, PSubscribe(h, c, q), c, "psubscribe", q, [i \in DOMAIN k |-> k[i] + n.channels])
<1> DEFINE A == h.channels.by[c]
           B == h.patterns.by[c]
           k == CountsUp(h.patterns, c, q)
           n == Cardinality(A)
           C == B \cup Range(q)
           E == Enrol(h.patterns, c, q)
           g == PSubscribe(h, c, q)
<1>1. /\ IsFiniteSet(A) /\ IsFiniteSet(B) /\ Routes(h, c) = RoutesOf(A, B)
      /\ h.patterns \in Registry(Patterns) /\ Agrees(h.patterns, Patterns)
  BY OneClient
<1>2. n \in Nat
  BY <1>1, FS_CardinalityType
<1>3. \A i \in DOMAIN q :
         /\ k[i] \in Nat
         /\ Cardinality(Replay(Routes(h, c), "psubscribe", SubSeq(q, 1, i))) = k[i] + n
  <2>1. TAKE i \in DOMAIN q
  <2> DEFINE P == SubSeq(q, 1, i)
             D == B \cup Range(P)
  <2>2. IsFiniteSet(Range(P))
    BY PrefixNames
  <2>3. k[i] = Cardinality(D)
    BY DEF CountsUp
  <2>4. D = B \cup Range(P)
    OBVIOUS
  <2> HIDE DEF D, P, k, n, A, B
  <2>5. /\ Cardinality(Replay(RoutesOf(A, B), "psubscribe", P)) = Cardinality(D) + Cardinality(A)
        /\ Cardinality(D) \in Nat
    BY <1>1, <2>2, <2>4, ReplayCard
  <2> QED BY <1>1, <2>3, <2>5 DEF P, n
<1>4. DOMAIN k = DOMAIN q
  BY DEF CountsUp
<1>5. E.by[c] = C /\ \A d \in Clients \ {c} : E.by[d] = h.patterns.by[d]
  BY <1>1 DEF Enrol, Registry
<1>6. g = [h EXCEPT !.patterns = E]
  BY DEF PSubscribe
<1>7. GetSubscriptionCount(h, c).channels = n
  BY DEF GetSubscriptionCount
<1>8. E \in Registry(Patterns) /\ Agrees(E, Patterns)
  BY <1>1, EnrolOK, Zenon
<1>9. C = B \cup Range(q)
  OBVIOUS
<1> HIDE DEF k, n, E, C, g
<1>10. Changes(h, g, c) /\ Routes(g, c) = RoutesOf(A, C)
  <2>1. g \in Tables /\ g.patterns = E /\ g.channels = h.channels
    BY <1>6, <1>8 DEF Tables
  <2> QED BY <1>5, <1>8, <2>1, PatternsChange
<1> HIDE DEF A, B
<1>11. Replay(RoutesOf(A, B), "psubscribe", q) = RoutesOf(A, C)
  BY <1>9, ReplayPSubscribe
<1>12. LET r == Ack("psubscribe", q, [i \in DOMAIN k |-> k[i] + n])
       IN  r \in Replies /\ CountOK(r, Routes(h, c))
  BY <1>2, <1>3, <1>4, CountsOK, Zenon
<1> QED BY <1>1, <1>7, <1>10, <1>11, <1>12 DEF Registers, k, g

\* UNSUBSCRIBE: without names, every name of the client.
LEMMA UnsubscribeOK ==
    ASSUME NEW h \in Tables, HubOK(h), NEW c \in Clients, NEW q \in Seq(Channels),
           q = <<>> => h.channels.by[c] = {}
    PROVE  LET g == Unsubscribe(h, c, q)
               k == CountsDown(h.channels, c, q)
           IN  Registers(h, g, c, "unsubscribe", q,
                         UnsubscribeCounts(k, GetSubscriptionCount(g, c).patterns))
<1> DEFINE A == h.channels.by[c]
           B == h.patterns.by[c]
           k == CountsDown(h.channels, c, q)
           n == Cardinality(B)
           C == A \ Range(q)
           E == Withdraw(h.channels, c, q)
           g == Unsubscribe(h, c, q)
           r == Ack("unsubscribe", q, UnsubscribeCounts(k, n))
<1>1. /\ IsFiniteSet(A) /\ IsFiniteSet(B) /\ Routes(h, c) = RoutesOf(A, B)
      /\ h.channels \in Registry(Channels) /\ Agrees(h.channels, Channels)
  BY OneClient
<1>2. n \in Nat
  BY <1>1, FS_CardinalityType
<1>3. \A i \in DOMAIN q :
         /\ k[i] \in Nat
         /\ Cardinality(Replay(Routes(h, c), "unsubscribe", SubSeq(q, 1, i))) = k[i] + n
  <2>1. TAKE i \in DOMAIN q
  <2> DEFINE P == SubSeq(q, 1, i)
             D == A \ Range(P)
  <2>2. IsFiniteSet(Range(P))
    BY PrefixNames
  <2>3. k[i] = Cardinality(D)
    BY DEF CountsDown
  <2>4. D = A \ Range(P)
    OBVIOUS
  <2> HIDE DEF D, P, k, n, A, B
  <2>5. /\ Cardinality(Replay(RoutesOf(A, B), "unsubscribe", P)) = Cardinality(D) + Cardinality(B)
        /\ Cardinality(D) \in Nat
    BY <1>1, <2>2, <2>4, ReplayCard
  <2> QED BY <1>1, <2>3, <2>5 DEF P, n
<1>4. DOMAIN k = DOMAIN q
  BY DEF CountsDown
<1>5. E.by[c] = C /\ \A d \in Clients \ {c} : E.by[d] = h.channels.by[d]
  <2>1. h.channels.by[c] \ Withdrawn(h.channels, c, q) = C
    BY DEF Withdrawn
  <2>2. h.channels.by \in [Clients -> SUBSET Channels]
    BY <1>1 DEF Registry
  <2> HIDE DEF C
  <2> QED BY <2>1, <2>2 DEF Withdraw
<1>6. g = [h EXCEPT !.channels = E]
  BY DEF Unsubscribe
<1>7. E \in Registry(Channels) /\ Agrees(E, Channels)
  BY <1>1, WithdrawOK, Zenon
<1>8. C = A \ Range(q)
  OBVIOUS
<1> HIDE DEF k, n, E, C, g
<1>9. Changes(h, g, c) /\ Routes(g, c) = RoutesOf(C, B) /\ g.patterns = h.patterns
  <2>1. g \in Tables /\ g.channels = E /\ g.patterns = h.patterns
    BY <1>6, <1>7 DEF Tables
  <2> QED BY <1>5, <1>7, <2>1, ChannelsChange
<1>10. GetSubscriptionCount(g, c).patterns = n
  BY <1>9 DEF GetSubscriptionCount, n
<1>11. r \in Replies /\ CountOK(r, Routes(h, c))
  <2> HIDE DEF r
  <2>1. CASE q = <<>>
    <3>1. A = {} /\ k = <<>>
      BY <1>4, <2>1
    <3> HIDE DEF A, B
    <3>2. Cardinality(Routes(h, c)) = n
      <4>1. Cardinality(A) = 0
        BY <3>1, FS_EmptySet
      <4> QED BY <1>1, <1>2, <4>1, RoutesCard DEF n
    <3>3. r = Ack("unsubscribe", <<>>, <<n>>)
      BY <2>1, <3>1 DEF UnsubscribeCounts, r
    <3>4. r \in Replies
      <4>1. <<n>> \in Seq(Nat) /\ "unsubscribe" \in Kinds
        BY <1>2 DEF Kinds
      <4> QED BY <3>3, <4>1, NamelessType, Zenon
    <3>5. CountOK(r, Routes(h, c))
      BY <3>2, <3>3 DEF CountOK, Ack
    <3> QED BY <3>4, <3>5
  <2>2. CASE q # <<>>
    <3>1. r = Ack("unsubscribe", q, [i \in DOMAIN k |-> k[i] + n])
      BY <1>4, <2>2 DEF UnsubscribeCounts, r
    <3> HIDE DEF A, B
    <3>2. LET s == Ack("unsubscribe", q, [i \in DOMAIN k |-> k[i] + n])
          IN  s \in Replies /\ CountOK(s, Routes(h, c))
      BY <1>2, <1>3, <1>4, <2>2, CountsOK, Zenon
    <3> QED BY <3>1, <3>2
  <2> QED BY <2>1, <2>2
<1> HIDE DEF A, B
<1>13. Replay(RoutesOf(A, B), "unsubscribe", q) = RoutesOf(C, B)
  BY <1>8, ReplayUnsubscribe
<1> HIDE DEF r
<1> QED BY <1>1, <1>9, <1>10, <1>11, <1>13 DEF Registers, k, g, r

\* PUNSUBSCRIBE: without names, every name of the client.
LEMMA PUnsubscribeOK ==
    ASSUME NEW h \in Tables, HubOK(h), NEW c \in Clients, NEW q \in Seq(Patterns),
           q = <<>> => h.patterns.by[c] = {}
    PROVE  LET g == PUnsubscribe(h, c, q)
               k == CountsDown(h.patterns, c, q)
           IN  Registers(h, g, c, "punsubscribe", q,
                         UnsubscribeCounts(k, GetSubscriptionCount(g, c).channels))
<1> DEFINE A == h.channels.by[c]
           B == h.patterns.by[c]
           k == CountsDown(h.patterns, c, q)
           n == Cardinality(A)
           C == B \ Range(q)
           E == Withdraw(h.patterns, c, q)
           g == PUnsubscribe(h, c, q)
           r == Ack("punsubscribe", q, UnsubscribeCounts(k, n))
<1>1. /\ IsFiniteSet(A) /\ IsFiniteSet(B) /\ Routes(h, c) = RoutesOf(A, B)
      /\ h.patterns \in Registry(Patterns) /\ Agrees(h.patterns, Patterns)
  BY OneClient
<1>2. n \in Nat
  BY <1>1, FS_CardinalityType
<1>3. \A i \in DOMAIN q :
         /\ k[i] \in Nat
         /\ Cardinality(Replay(Routes(h, c), "punsubscribe", SubSeq(q, 1, i))) = k[i] + n
  <2>1. TAKE i \in DOMAIN q
  <2> DEFINE P == SubSeq(q, 1, i)
             D == B \ Range(P)
  <2>2. IsFiniteSet(Range(P))
    BY PrefixNames
  <2>3. k[i] = Cardinality(D)
    BY DEF CountsDown
  <2>4. D = B \ Range(P)
    OBVIOUS
  <2> HIDE DEF D, P, k, n, A, B
  <2>5. /\ Cardinality(Replay(RoutesOf(A, B), "punsubscribe", P)) = Cardinality(D) + Cardinality(A)
        /\ Cardinality(D) \in Nat
    BY <1>1, <2>2, <2>4, ReplayCard
  <2> QED BY <1>1, <2>3, <2>5 DEF P, n
<1>4. DOMAIN k = DOMAIN q
  BY DEF CountsDown
<1>5. E.by[c] = C /\ \A d \in Clients \ {c} : E.by[d] = h.patterns.by[d]
  <2>1. h.patterns.by[c] \ Withdrawn(h.patterns, c, q) = C
    BY DEF Withdrawn
  <2>2. h.patterns.by \in [Clients -> SUBSET Patterns]
    BY <1>1 DEF Registry
  <2> HIDE DEF C
  <2> QED BY <2>1, <2>2 DEF Withdraw
<1>6. g = [h EXCEPT !.patterns = E]
  BY DEF PUnsubscribe
<1>7. E \in Registry(Patterns) /\ Agrees(E, Patterns)
  BY <1>1, WithdrawOK, Zenon
<1>8. C = B \ Range(q)
  OBVIOUS
<1> HIDE DEF k, n, E, C, g
<1>9. Changes(h, g, c) /\ Routes(g, c) = RoutesOf(A, C) /\ g.channels = h.channels
  <2>1. g \in Tables /\ g.patterns = E /\ g.channels = h.channels
    BY <1>6, <1>7 DEF Tables
  <2> QED BY <1>5, <1>7, <2>1, PatternsChange
<1>10. GetSubscriptionCount(g, c).channels = n
  BY <1>9 DEF GetSubscriptionCount, n
<1>11. r \in Replies /\ CountOK(r, Routes(h, c))
  <2> HIDE DEF r
  <2>1. CASE q = <<>>
    <3>1. B = {} /\ k = <<>>
      BY <1>4, <2>1
    <3> HIDE DEF A, B
    <3>2. Cardinality(Routes(h, c)) = n
      <4>1. Cardinality(B) = 0
        BY <3>1, FS_EmptySet
      <4> QED BY <1>1, <1>2, <4>1, RoutesCard DEF n
    <3>3. r = Ack("punsubscribe", <<>>, <<n>>)
      BY <2>1, <3>1 DEF UnsubscribeCounts, r
    <3>4. r \in Replies
      <4>1. <<n>> \in Seq(Nat) /\ "punsubscribe" \in Kinds
        BY <1>2 DEF Kinds
      <4> QED BY <3>3, <4>1, NamelessType, Zenon
    <3>5. CountOK(r, Routes(h, c))
      BY <3>2, <3>3 DEF CountOK, Ack
    <3> QED BY <3>4, <3>5
  <2>2. CASE q # <<>>
    <3>1. r = Ack("punsubscribe", q, [i \in DOMAIN k |-> k[i] + n])
      BY <1>4, <2>2 DEF UnsubscribeCounts, r
    <3> HIDE DEF A, B
    <3>2. LET s == Ack("punsubscribe", q, [i \in DOMAIN k |-> k[i] + n])
          IN  s \in Replies /\ CountOK(s, Routes(h, c))
      BY <1>2, <1>3, <1>4, <2>2, CountsOK, Zenon
    <3> QED BY <3>1, <3>2
  <2> QED BY <2>1, <2>2
<1> HIDE DEF A, B
<1>13. Replay(RoutesOf(A, B), "punsubscribe", q) = RoutesOf(A, C)
  BY <1>8, ReplayPUnsubscribe
<1> HIDE DEF r
<1> QED BY <1>1, <1>9, <1>10, <1>11, <1>13, Zenon DEF Registers, k, g, r

\* The values of a function on a finite set are finitely many.
LEMMA RangeFinite ==
    ASSUME NEW S, IsFiniteSet(S), NEW T, NEW f \in [S -> T]
    PROVE  IsFiniteSet(Range(f))
<1>1. f \in Surjection(S, Range(f))
  BY DEF Surjection, Range
<1> QED BY <1>1, FS_Surjection

\* The subscribers of a channel that PUBLISH counts are finitely many.
LEMMA CountType ==
    ASSUME NEW h \in Tables, HubOK(h), NEW ch \in Channels
    PROVE  countSubscribers(h, ch) \in Nat
<1>1. /\ h.channels.of \in [Channels -> SUBSET Clients]
      /\ h.patterns.of \in [Patterns -> SUBSET Clients]
  BY DEF Tables, Registry
<1>2. IsFiniteSet(ChannelTargets(h, ch))
  <2> DEFINE S == h.channels.of[ch]
             f == [c \in S |-> <<c, <<"channel", ch>>>>]
  <2>1. S \in SUBSET Clients
    BY <1>1
  <2>2. IsFiniteSet(S)
    BY <2>1, ClientsAssumption, FS_Subset
  <2>3. f \in [S -> Range(f)] /\ Range(f) = ChannelTargets(h, ch)
    BY Zenon DEF ChannelTargets, Range
  <2> HIDE DEF f, S
  <2> QED BY <2>2, <2>3, RangeFinite
<1>3. IsFiniteSet(PatternTargets(h, ch))
  <2> DEFINE Own(c) == {<<c, <<"pattern", p>>>> : p \in h.patterns.by[c]}
             f == [c \in Clients |-> Own(c)]
  <2>1. ASSUME NEW c \in Clients
        PROVE  IsFiniteSet(Own(c))
    <3> DEFINE S == h.patterns.by[c]
               g == [p \in S |-> <<c, <<"pattern", p>>>>]
    <3>1. IsFiniteSet(S)
      BY DEF HubOK, Agrees
    <3>2. g \in [S -> Range(g)] /\ Range(g) = Own(c)
      BY Zenon DEF Range
    <3> HIDE DEF g, S, Own
    <3> QED BY <3>1, <3>2, RangeFinite
  <2>2. f \in [Clients -> Range(f)] /\ \A A \in Range(f) : \E c \in Clients : A = Own(c)
    BY DEF Range
  <2>3. \A c \in Clients : Own(c) \in Range(f)
    BY DEF Range
  <2>4. PatternTargets(h, ch) \subseteq UNION Range(f)
    <3>1. SUFFICES ASSUME NEW t \in PatternTargets(h, ch)
                   PROVE  t \in UNION Range(f)
      OBVIOUS
    <3>2. PICK p \in Patterns : \E c \in h.patterns.of[p] : t = <<c, <<"pattern", p>>>>
      BY Zenon DEF PatternTargets
    <3>3. PICK c \in h.patterns.of[p] : t = <<c, <<"pattern", p>>>>
      BY <3>2
    <3>4. c \in Clients /\ p \in h.patterns.by[c]
      BY <1>1 DEF HubOK, Agrees
    <3>5. t \in Own(c)
      BY <3>3, <3>4
    <3> HIDE DEF Own, f
    <3> QED BY <2>3, <3>4, <3>5
  <2> HIDE DEF f, Own
  <2>5. IsFiniteSet(Range(f))
    BY <2>2, ClientsAssumption, RangeFinite
  <2>6. IsFiniteSet(UNION Range(f))
    BY <2>1, <2>2, <2>5, FS_UNION
  <2> QED BY <2>4, <2>6, FS_Subset
<1> QED BY <1>2, <1>3, FS_CardinalityType DEF countSubscribers

\* RemoveSubscriber's two critical sections.
LEMMA RemoveOK ==
    ASSUME NEW h \in Tables, HubOK(h), NEW c \in Clients
    PROVE  /\ Changes(h, RemoveSubscriberChannels(h, c), c)
           /\ RemoveSubscriberChannels(h, c).channels.by[c] = {}
           /\ RemoveSubscriberChannels(h, c).patterns = h.patterns
           /\ Changes(h, RemoveSubscriberPatterns(h, c), c)
           /\ RemoveSubscriberPatterns(h, c).patterns.by[c] = {}
           /\ RemoveSubscriberPatterns(h, c).channels = h.channels
<1> DEFINE E == Forget(h.channels, c)
           F == Forget(h.patterns, c)
           g == RemoveSubscriberChannels(h, c)
           f == RemoveSubscriberPatterns(h, c)
<1>1. /\ h.channels \in Registry(Channels) /\ Agrees(h.channels, Channels)
      /\ h.patterns \in Registry(Patterns) /\ Agrees(h.patterns, Patterns)
  BY OneClient
<1>2. /\ E \in Registry(Channels) /\ Agrees(E, Channels)
      /\ F \in Registry(Patterns) /\ Agrees(F, Patterns)
  BY <1>1, ForgetOK, Zenon
<1>3. /\ E.by[c] = {} /\ \A d \in Clients \ {c} : E.by[d] = h.channels.by[d]
      /\ F.by[c] = {} /\ \A d \in Clients \ {c} : F.by[d] = h.patterns.by[d]
  BY <1>1 DEF Forget, Registry
<1> HIDE DEF E, F
<1>4. /\ g \in Tables /\ g.channels = E /\ g.patterns = h.patterns
      /\ f \in Tables /\ f.patterns = F /\ f.channels = h.channels
  BY <1>2 DEF Tables, RemoveSubscriberChannels, RemoveSubscriberPatterns, E, F
<1> HIDE DEF g, f
<1>5. HubOK(g) /\ HubOK(f)
  BY <1>1, <1>2, <1>4 DEF HubOK
<1>6. Changes(h, g, c) /\ Changes(h, f, c)
  BY <1>3, <1>4, <1>5 DEF Changes
<1> QED BY <1>3, <1>4, <1>6 DEF g, f

-----------------------------------------------------------------------------
(* The theorems.                                                            *)

\* The hub does what the steps of SessionsSteps rely on.
LEMMA HubContract == HubWorks
<1>1. SubscribeWorks
  BY SubscribeOK, Zenon DEF SubscribeWorks
<1>2. PSubscribeWorks
  BY PSubscribeOK, Zenon DEF PSubscribeWorks
<1>3. UnsubscribeWorks
  BY UnsubscribeOK, Zenon DEF UnsubscribeWorks
<1>4. PUnsubscribeWorks
  BY PUnsubscribeOK, Zenon DEF PUnsubscribeWorks
<1>5. RemoveWorks
  BY RemoveOK, Zenon DEF RemoveWorks
<1>6. CountWorks
  BY CountType, Zenon DEF CountWorks
<1>7. ListingWorks
  BY ListingType, FS_EmptySet, Zenon DEF ListingWorks
<1> QED BY <1>1, <1>2, <1>3, <1>4, <1>5, <1>6, <1>7 DEF HubWorks

\* The invariant holds in every behaviour of the servers.
THEOREM SessionsInvariant == Spec => []IInv
<1>1. IInv /\ [Next]_vars => IInv'
  BY HubContract, NextOK, StutterOK
<1> QED BY InitOK, <1>1, PTL DEF Spec

\* The state of handlers, hubs and listeners keeps its types, whatever the
\* clients do (server.go handleConnection, hub.go listenLoop).
THEOREM SessionsTypeCorrect == Spec => []TypeInv
<1>1. IInv => TypeInv
  BY DEF IInv
<1> QED BY SessionsInvariant, <1>1, PTL

\* The two sides of the subscription tables agree at every step of every
\* command, and a connection that is gone is in neither (hub.go Subscribe,
\* Unsubscribe, PSubscribe, PUnsubscribe, RemoveSubscriber).
THEOREM HubTablesAgree == Spec => []TablesAgree
<1>1. IInv => TablesAgree
  <2>1. SUFFICES ASSUME IInv, NEW s \in Servers, NEW c \in Clients
                 PROVE  /\ \A ch \in Channels :
                             c \in hub[s].channels.of[ch] <=> ch \in hub[s].channels.by[c]
                        /\ \A p \in Patterns :
                             c \in hub[s].patterns.of[p] <=> p \in hub[s].patterns.by[c]
                        /\ session[c].pc = "gone" => Routes(hub[s], c) = {}
    BY DEF TablesAgree
  <2>2. HubOK(hub[s]) /\ PlaceOK(c)
    BY <2>1, ServerFacts, Facts, Zenon
  <2>3. session[c].pc = "gone" =>
          hub[s].channels.by[c] = {} /\ hub[s].patterns.by[c] = {}
    BY <2>2, Zenon DEF PlaceOK
  <2> QED BY <2>2, <2>3, Zenon DEF HubOK, Agrees, Routes
<1> QED BY SessionsInvariant, <1>1, PTL

\* The counts in the replies to (P)SUBSCRIBE and (P)UNSUBSCRIBE are those a
\* client arrives at by adding up the replies (handler_pubsub.go).
THEOREM AcksAddUp == Spec => []AcksCount
<1>1. IInv => AcksCount
  BY Facts, Zenon DEF AcksCount, KnowsOK, CountOK
<1> QED BY SessionsInvariant, <1>1, PTL

\* EXEC answers exactly the commands the client was told are QUEUED since
\* its MULTI (handler.go HandleMulti, HandleExec; server.go).
THEOREM ExecAnswers == Spec => []ExecAnswersQueued
<1>1. IInv => ExecAnswersQueued
  BY Facts, Zenon DEF ExecAnswersQueued, ExecOK
<1> QED BY SessionsInvariant, <1>1, PTL

\* A client receives messages in the order of publication, and each at most
\* once per channel or pattern (hub.go listenLoop, deliverToChannel,
\* deliverToPatterns).
THEOREM MessagesInOrderOnce == Spec => []InOrderOnce
<1>1. IInv => InOrderOnce
  BY Zenon DEF IInv, ClientOK, ReceiptsOK, InOrderOnce
<1> QED BY SessionsInvariant, <1>1, PTL

\* After the reply that confirmed an unsubscription at most one message of
\* that name arrives (hub.go sends to a copy of the subscriber list).
THEOREM OneMessageLate == Spec => []OneLateMessage
<1>1. IInv => OneLateMessage
  BY DEF IInv, ClientOK, LateOK, OneLateMessage
<1> QED BY SessionsInvariant, <1>1, PTL

\* Pub/sub mode begins and ends with the subscriptions: only RESET, which
\* drops the subscriptions and leaves the flag, parts the two.
THEOREM ModeFollows == Spec => ModeFollowsRoutes
<1>1. IInv /\ [Next]_vars =>
        [\A c \in Clients :
            ~Parted(c) /\ Parted(c)' =>
                session'[c].pc \in {"leave2", "gone", "reset"} \/ session[c].pc = "reset"]_vars
  BY HubContract, NextOK DEF ModeKept
<1> QED BY SessionsInvariant, <1>1, PTL DEF Spec, ModeFollowsRoutes

=============================================================================
