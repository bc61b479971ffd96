---------------------------- MODULE CacheProofs ----------------------------
(***************************************************************************)
(* BoundedStaleness for any number of replicas, clients and keys, and      *)
(* whatever faults: how stale a cached value is follows from how much of   *)
(* its life is left and how long its fill took.                            *)
(***************************************************************************)
EXTENDS Cache, FiniteSetTheorems, TLAPS

\* A GET in flight has read a value that was current when it started.
FetchOK ==
    \A c \in Clients : op[c].pc = "fill" =>
        /\ op[c].key \in Keys
        /\ op[c].v \in 1..writes
        /\ op[c].v # db[op[c].key] => gone[op[c].key][op[c].v] <= op[c].age

\* The life an entry has used up, and its fill, account for its staleness.
EntryOK ==
    \A r \in Replicas, k \in Keys :
        /\ items[r][k].v <= writes
        /\ (Live(items[r][k]) /\ items[r][k].v # db[k]) =>
              gone[k][items[r][k].v] <= (TTL - items[r][k].life) + MaxFetch

\* The current value, and values not written yet, have not begun to age.
FreshOK ==
    \A k \in Keys :
        /\ db[k] <= writes
        /\ gone[k][db[k]] = 0 /\ gone[k][0] = 0
        /\ \A v \in Values : v > writes => gone[k][v] = 0

IInv == TypeOK /\ FetchOK /\ EntryOK /\ FreshOK

USE CacheAssumption

\* Cache.Set, Delete, DeleteMulti and Flush keep the map a map of entries.
LEMMA SetType ==
    ASSUME NEW M \in [Keys -> Entry], NEW k \in Keys, NEW v \in Values
    PROVE  /\ CacheSet(M, k, v) \in [Keys -> Entry]
           /\ \A j \in Keys : CacheSet(M, k, v)[j] = M[j]
                              \/ (j = k /\ CacheSet(M, k, v)[j] = [v |-> v, life |-> TTL])
BY DEF CacheSet, Entry

\* What a delete leaves is either the old entry or none.
LEMMA DeleteType ==
    ASSUME NEW M \in [Keys -> Entry], NEW K
    PROVE  /\ CacheDelete(M, K) \in [Keys -> Entry]
           /\ \A j \in Keys : CacheDelete(M, K)[j] \in {M[j], NoEntry}
BY DEF CacheDelete, Entry, NoEntry, Values

\* The ghost of missed changes stays a set of keys per replica.
LEMMA UntoldType ==
    ASSUME missed \in [Replicas -> SUBSET Keys], NEW R, NEW K \in SUBSET Keys
    PROVE  Untold(R, K) \in [Replicas -> SUBSET Keys]
BY DEF Untold

\* The state in which every replica starts satisfies the invariant.
LEMMA InitIInv == Init => IInv
<1> SUFFICES ASSUME Init PROVE IInv
  OBVIOUS
<1>1. TypeOK
  BY DEF Init, TypeOK, Values, Age, NoEntry, Entry, Ready, Request, Requests
<1>2. FetchOK
  BY DEF Init, FetchOK, Ready, Request
<1>3. EntryOK
  BY DEF Init, EntryOK, NoEntry, Live, Present
<1>4. FreshOK
  BY DEF Init, FreshOK, Values
<1> QED
  BY <1>1, <1>2, <1>3, <1>4 DEF IInv

\* A step that changes the caches only by deleting entries keeps the invariant.
LEMMA DeleteIInv ==
    ASSUME IInv, NEW r \in Replicas, NEW K,
           items' = [items EXCEPT ![r] = CacheDelete(@, K)],
           UNCHANGED <<db, writes, gone>>
    PROVE  items' \in [Replicas -> [Keys -> Entry]] /\ EntryOK' /\ FreshOK'
<1>1. items' \in [Replicas -> [Keys -> Entry]]
  BY DeleteType DEF IInv, TypeOK
<1>2. \A q \in Replicas, k \in Keys : items'[q][k] \in {items[q][k], NoEntry}
  BY DeleteType DEF IInv, TypeOK
<1>3. EntryOK'
  BY <1>2 DEF IInv, TypeOK, EntryOK, FreshOK, NoEntry, Live, Present, Values
<1> QED
  BY <1>1, <1>3 DEF IInv, FreshOK

\* A step that only changes requests that are not fetching keeps FetchOK.
LEMMA FetchStays ==
    ASSUME FetchOK, TypeOK, NEW c \in Clients, NEW T, T.pc # "fill",
           op' = [op EXCEPT ![c] = T],
           UNCHANGED <<db, writes, gone>>
    PROVE  FetchOK'
BY DEF FetchOK, TypeOK

\* A write leaves old values their age and starts the new one at none.
LEMMA WriteIInv ==
    ASSUME IInv, NEW K \in SUBSET Keys, NEW v \in {0, writes + 1},
           writes < MaxWrites, writes' = writes + 1,
           db' = NewValue(K, v), UNCHANGED <<items, gone>>
    PROVE  db' \in [Keys -> Values] /\ writes' \in Values /\ EntryOK' /\ FreshOK'
<1>1. v \in Values /\ writes' \in Values
  BY DEF IInv, TypeOK, Values
<1>2. db' \in [Keys -> Values]
  BY <1>1 DEF IInv, TypeOK, NewValue
<1>3. \A k \in Keys : db'[k] = db[k] \/ db'[k] = 0 \/ db'[k] = writes + 1
  BY DEF NewValue, IInv, TypeOK
<1>4. FreshOK'
  <2> SUFFICES ASSUME NEW k \in Keys
               PROVE  /\ db'[k] <= writes + 1
                      /\ gone[k][db'[k]] = 0 /\ gone[k][0] = 0
                      /\ \A u \in Values : u > writes + 1 => gone[k][u] = 0
    BY DEF FreshOK
  <2>1. /\ writes \in Nat /\ writes + 1 \in Values /\ writes + 1 > writes
        /\ \A u \in Values : u \in Nat
        /\ \A u \in Values : u > writes + 1 => u > writes
    BY <1>1 DEF IInv, TypeOK, Values
  <2>2. /\ db[k] <= writes /\ db[k] \in Nat
        /\ gone[k][db[k]] = 0 /\ gone[k][0] = 0
        /\ \A u \in Values : u > writes => gone[k][u] = 0
    BY DEF IInv, TypeOK, FreshOK, Values
  <2> QED
    BY <1>3, <2>1, <2>2
<1>5. EntryOK'
  <2> SUFFICES ASSUME NEW r \in Replicas, NEW k \in Keys
               PROVE  /\ items[r][k].v <= writes + 1
                      /\ (Live(items[r][k]) /\ items[r][k].v # db'[k]) =>
                            gone[k][items[r][k].v] <= (TTL - items[r][k].life) + MaxFetch
    BY DEF EntryOK, Live, Present
  <2>1. items[r][k].v \in Nat /\ items[r][k].life \in -1..TTL /\ writes \in Nat
    BY DEF IInv, TypeOK, Entry, Values
  <2>2. items[r][k].v <= writes
    BY DEF IInv, EntryOK
  <2>3. items[r][k].v = db[k] => gone[k][items[r][k].v] = 0
    BY DEF IInv, FreshOK
  <2>4. (Live(items[r][k]) /\ items[r][k].v # db[k]) =>
            gone[k][items[r][k].v] <= (TTL - items[r][k].life) + MaxFetch
    BY DEF IInv, EntryOK
  <2> QED
    BY <2>1, <2>2, <2>3, <2>4
<1> QED
  BY <1>1, <1>2, <1>4, <1>5

\* Requests in flight keep what they know across somebody's write.
LEMMA FetchAcrossWrite ==
    ASSUME IInv, NEW K \in SUBSET Keys, NEW v \in {0, writes + 1},
           writes' = writes + 1, db' = NewValue(K, v), UNCHANGED gone,
           \A c \in Clients : op'[c] = op[c] \/ op'[c].pc # "fill"
    PROVE  FetchOK'
<1> SUFFICES ASSUME NEW c \in Clients, op'[c].pc = "fill"
             PROVE  /\ op'[c].key \in Keys
                    /\ op'[c].v \in 1..(writes + 1)
                    /\ op'[c].v # db'[op'[c].key] => gone[op'[c].key][op'[c].v] <= op'[c].age
  BY DEF FetchOK
<1>1. op'[c] = op[c]
  OBVIOUS
<1>2. /\ op[c].key \in Keys /\ op[c].v \in 1..writes /\ writes \in Nat /\ op[c].age \in Nat
      /\ op[c].v # db[op[c].key] => gone[op[c].key][op[c].v] <= op[c].age
  <2>1. op[c].pc = "fill"
    BY <1>1
  <2>2. op[c] \in Requests /\ writes \in Nat
    BY DEF IInv, TypeOK, Values
  <2>3. op[c].age \in Nat
    BY <2>2 DEF Requests
  <2> QED
    BY <2>1, <2>2, <2>3 DEF IInv, FetchOK
<1>3. op[c].v = db[op[c].key] => gone[op[c].key][op[c].v] = 0
  BY <1>2 DEF IInv, FreshOK
<1> QED
  BY <1>1, <1>2, <1>3

\* A fill starts an entry that is as stale as its fetch was long.
LEMMA FillIInv == ASSUME IInv, NEW c \in Clients, Fill(c) PROVE IInv'
<1> DEFINE k == op[c].key
           v == op[c].v
           r == Home[c]
<1>1. /\ k \in Keys /\ v \in Values /\ v <= writes /\ v # 0 /\ r \in Replicas
      /\ op[c].age \in 0..MaxFetch
      /\ v # db[k] => gone[k][v] <= op[c].age
  BY DEF IInv, TypeOK, FetchOK, Fill, Requests, Values
<1>2. items' \in [Replicas -> [Keys -> Entry]]
  BY <1>1, SetType DEF Fill, IInv, TypeOK
<1>3. \A q \in Replicas, j \in Keys :
          items'[q][j] = items[q][j] \/ (j = k /\ items'[q][j] = [v |-> v, life |-> TTL])
  <2> SUFFICES ASSUME NEW q \in Replicas, NEW j \in Keys
               PROVE  items'[q][j] = items[q][j]
                      \/ (j = k /\ items'[q][j] = [v |-> v, life |-> TTL])
    OBVIOUS
  <2>1. items'[q] = IF q = r THEN CacheSet(items[q], k, v) ELSE items[q]
    BY <1>1 DEF Fill, IInv, TypeOK
  <2>2. items[q] \in [Keys -> Entry]
    BY DEF IInv, TypeOK
  <2> QED
    BY <1>1, <2>1, <2>2, SetType
<1>4. TypeOK'
  BY <1>1, <1>2 DEF Fill, IInv, TypeOK, Ready, Request, Requests, Values
<1>5. FetchOK'
  BY FetchStays DEF Fill, IInv, Ready, Request
<1>6. EntryOK'
  <2> SUFFICES ASSUME NEW q \in Replicas, NEW j \in Keys
               PROVE  /\ items'[q][j].v <= writes
                      /\ (Live(items'[q][j]) /\ items'[q][j].v # db[j]) =>
                            gone[j][items'[q][j].v] <= (TTL - items'[q][j].life) + MaxFetch
    BY DEF EntryOK, Fill, Live, Present
  <2>1. CASE items'[q][j] = items[q][j]
    BY <2>1 DEF IInv, EntryOK
  <2>2. CASE j = k /\ items'[q][j] = [v |-> v, life |-> TTL]
    <3>1. gone[k][v] \in Nat
      BY <1>1 DEF IInv, TypeOK, Age
    <3> QED
      BY <1>1, <2>2, <3>1
  <2> QED
    BY <1>3, <2>1, <2>2
<1>7. FreshOK'
  BY DEF Fill, IInv, FreshOK
<1> QED
  BY <1>4, <1>5, <1>6, <1>7 DEF IInv

\* As time passes, entries and fetches grow old together with what they hold.
LEMMA TickIInv == ASSUME IInv, Tick PROVE IInv'
<1>1. \A r \in Replicas, k \in Keys :
        /\ items[r][k].v \in Values /\ items[r][k].life \in -1..TTL
        /\ items'[r][k].v = items[r][k].v
        /\ items'[r][k].life = IF items[r][k].life = -1 THEN -1 ELSE items[r][k].life - 1
        /\ items'[r][k] \in Entry
  BY DEF Tick, IInv, TypeOK, Entry
<1>2. \A c \in Clients :
        /\ op'[c].pc = op[c].pc /\ op'[c].key = op[c].key /\ op'[c].v = op[c].v
        /\ op'[c].age = IF op[c].pc = "fill" THEN op[c].age + 1 ELSE op[c].age
        /\ op'[c] \in Requests
  <2> SUFFICES ASSUME NEW c \in Clients
               PROVE  /\ op'[c].pc = op[c].pc /\ op'[c].key = op[c].key /\ op'[c].v = op[c].v
                      /\ op'[c].age = IF op[c].pc = "fill" THEN op[c].age + 1 ELSE op[c].age
                      /\ op'[c] \in Requests
    OBVIOUS
  <2>1. op[c] \in Requests
    BY DEF IInv, TypeOK
  <2>2. CASE op[c].pc = "fill"
    <3>1. op'[c] = [op[c] EXCEPT !.age = @ + 1] /\ op[c].age < MaxFetch
      BY <2>2 DEF Tick
    <3> QED
      BY <2>1, <2>2, <3>1 DEF Requests
  <2>3. CASE op[c].pc # "fill"
    BY <2>1, <2>3 DEF Tick
  <2> QED
    BY <2>2, <2>3
<1>3. \A k \in Keys, v \in Values :
        /\ gone[k][v] \in 0..(TTL + MaxFetch + 1)
        /\ gone'[k][v] \in 0..(TTL + MaxFetch + 1)
        /\ gone'[k][v] <= gone[k][v] + 1
        /\ v \in {0, db[k]} => gone'[k][v] = 0
        /\ ~Held(k, v) => gone'[k][v] = 0
  BY DEF Tick, IInv, TypeOK, Older, Age
<1>4. TypeOK'
  <2>1. items' \in [Replicas -> [Keys -> Entry]]
    BY <1>1 DEF Tick
  <2>2. op' \in [Clients -> Requests]
    BY <1>2 DEF Tick
  <2>3. gone' \in [Keys -> [Values -> Age]]
    BY DEF Tick, IInv, TypeOK, Older, Age
  <2> QED
    BY <2>1, <2>2, <2>3 DEF Tick, IInv, TypeOK
<1>5. FetchOK'
  <2> SUFFICES ASSUME NEW c \in Clients, op'[c].pc = "fill"
               PROVE  /\ op'[c].key \in Keys
                      /\ op'[c].v \in 1..writes
                      /\ op'[c].v # db[op'[c].key] =>
                            gone'[op'[c].key][op'[c].v] <= op'[c].age
    BY DEF FetchOK, Tick
  <2>1. /\ op[c].key \in Keys /\ op[c].v \in 1..writes /\ op[c].v \in Values /\ op[c].age \in Nat
        /\ op[c].v # db[op[c].key] => gone[op[c].key][op[c].v] <= op[c].age
    <3>1. op[c].pc = "fill" /\ op[c] \in Requests
      BY <1>2 DEF IInv, TypeOK
    <3>2. op[c].age \in Nat /\ op[c].v \in Values
      BY <3>1 DEF Requests
    <3> QED
      BY <3>1, <3>2 DEF IInv, FetchOK
  <2> QED
    BY <1>2, <1>3, <2>1
<1>6. EntryOK'
  <2> SUFFICES ASSUME NEW r \in Replicas, NEW k \in Keys
               PROVE  /\ items'[r][k].v <= writes
                      /\ (Live(items'[r][k]) /\ items'[r][k].v # db[k]) =>
                            gone'[k][items'[r][k].v] <= (TTL - items'[r][k].life) + MaxFetch
    BY DEF EntryOK, Tick, Live, Present
  <2>1. /\ items[r][k].v <= writes
        /\ (Live(items[r][k]) /\ items[r][k].v # db[k]) =>
              gone[k][items[r][k].v] <= (TTL - items[r][k].life) + MaxFetch
    BY DEF IInv, EntryOK
  <2>2. Live(items'[r][k]) => Live(items[r][k]) /\ items'[r][k].life = items[r][k].life - 1
    BY <1>1 DEF Live, Present
  <2>3. /\ gone[k][items[r][k].v] \in Nat /\ gone'[k][items[r][k].v] \in Nat
        /\ gone'[k][items[r][k].v] <= gone[k][items[r][k].v] + 1
    BY <1>1, <1>3, SMTT(30)
  <2> QED
    BY <1>1, <2>1, <2>2, <2>3, SMTT(30)
<1>7. FreshOK'
  <2> SUFFICES ASSUME NEW k \in Keys
               PROVE  /\ db[k] <= writes /\ gone'[k][db[k]] = 0 /\ gone'[k][0] = 0
                      /\ \A v \in Values : v > writes => gone'[k][v] = 0
    BY DEF FreshOK, Tick
  <2>1. db[k] \in Values /\ 0 \in Values /\ db[k] <= writes
    BY DEF IInv, TypeOK, FreshOK, Values
  <2>2. \A v \in Values : v > writes => ~Held(k, v)
    <3> SUFFICES ASSUME NEW v \in Values, v > writes, Held(k, v) PROVE FALSE
      OBVIOUS
    <3>1. \A r \in Replicas : items[r][k].v <= writes
      BY DEF IInv, EntryOK
    <3>2. \A c \in Clients : op[c].pc = "fill" => op[c].v <= writes
      BY DEF IInv, FetchOK, TypeOK, Values
    <3>3. v \in Nat /\ writes \in Nat
      BY DEF IInv, TypeOK, Values
    <3> QED
      BY <3>1, <3>2, <3>3 DEF Held
  <2> QED
    BY <1>3, <2>1, <2>2
<1> QED
  BY <1>4, <1>5, <1>6, <1>7 DEF IInv

\* Every step of a client keeps the invariant.
LEMMA ClientIInv == ASSUME IInv, NEW c \in Clients, ClientStep(c) PROVE IInv'
<1>1. ASSUME NEW k \in Keys, Get(c, k) PROVE IInv'
  <2>1. db[k] \in Values /\ db[k] # 0 /\ db[k] \in 1..writes
    BY <1>1 DEF Get, IInv, TypeOK, FreshOK, Values
  <2>2. op' = [op EXCEPT ![c] = Request("fill", k, db[k], {})]
    BY <1>1 DEF Get
  <2>3. Request("fill", k, db[k], {}) \in Requests
    BY <2>1 DEF Request, Requests
  <2>4. TypeOK'
    BY <1>1, <2>2, <2>3 DEF Get, IInv, TypeOK
  <2>5. FetchOK'
    <3>1. \A d \in Clients : op'[d] = IF d = c THEN Request("fill", k, db[k], {}) ELSE op[d]
      BY <2>2 DEF IInv, TypeOK
    <3>2. \A d \in Clients \ {c} : op'[d] = op[d]
      BY <3>1
    <3>3. op'[c].key = k /\ op'[c].v = db[k]
      BY <3>1 DEF Request
    <3>4. UNCHANGED <<db, writes, gone>>
      BY <1>1 DEF Get
    <3>5. FetchOK
      BY DEF IInv
    <3> QED
      BY <2>1, <3>2, <3>3, <3>4, <3>5 DEF FetchOK
  <2>6. EntryOK' /\ FreshOK'
    BY <1>1 DEF Get, IInv, EntryOK, FreshOK, Live, Present
  <2> QED
    BY <2>4, <2>5, <2>6 DEF IInv
<1>2. ASSUME NEW K \in SUBSET Keys, NEW kind, NEW v \in Values, Commit(c, K, kind, v)
      PROVE  IInv'
  <2>1. db' \in [Keys -> Values] /\ writes' \in Values /\ EntryOK' /\ FreshOK'
    BY <1>2, WriteIInv DEF Commit
  <2>2. dirtySlice(kind, K) \in SUBSET Keys
    BY DEF dirtySlice
  <2>3. PICK T \in Requests : T.pc # "fill" /\ op' = [op EXCEPT ![c] = T]
    <3>1. /\ Ready \in Requests /\ Ready.pc # "fill"
          /\ Request("invalidate", NoKey, 0, dirtySlice(kind, K)) \in Requests
          /\ Request("invalidate", NoKey, 0, dirtySlice(kind, K)).pc # "fill"
      BY <2>2 DEF Ready, Request, Requests, Values
    <3> QED
      BY <1>2, <3>1 DEF Commit
  <2>4. \A d \in Clients : op'[d] = op[d] \/ op'[d].pc # "fill"
    BY <2>3 DEF IInv, TypeOK
  <2>5. FetchOK'
    BY <1>2, <2>4, FetchAcrossWrite DEF Commit
  <2>7. missed' \in [Replicas -> SUBSET Keys]
    BY <1>2 DEF Commit, Untold, IInv, TypeOK
  <2>8. op' \in [Clients -> Requests]
    BY <2>3 DEF IInv, TypeOK
  <2>6. TypeOK'
    BY <1>2, <2>1, <2>7, <2>8 DEF Commit, IInv, TypeOK
  <2> QED
    BY <2>1, <2>5, <2>6 DEF IInv
<1>3. ASSUME NEW K \in SUBSET Keys, NEW v \in Values, CommitLost(c, K, v) PROVE IInv'
  <2>1. db' \in [Keys -> Values] /\ writes' \in Values /\ EntryOK' /\ FreshOK'
    BY <1>3, WriteIInv DEF CommitLost
  <2>2. FetchOK'
    BY <1>3, FetchAcrossWrite DEF CommitLost
  <2>3. TypeOK'
    <3>1. missed' \in [Replicas -> SUBSET Keys]
      BY <1>3 DEF CommitLost, Untold, IInv, TypeOK
    <3> QED
      BY <1>3, <2>1, <3>1 DEF CommitLost, IInv, TypeOK
  <2> QED
    BY <2>1, <2>2, <2>3 DEF IInv
<1>4. ASSUME Fill(c) PROVE IInv'
  BY <1>4, FillIInv
<1>5. ASSUME Invalidate(c) PROVE IInv'
  <2>1. Home[c] \in Replicas
    OBVIOUS
  <2>2. items' \in [Replicas -> [Keys -> Entry]] /\ EntryOK' /\ FreshOK'
    BY <1>5, <2>1, DeleteIInv DEF Invalidate
  <2>3. PICK T \in Requests : T.pc # "fill" /\ op' = [op EXCEPT ![c] = T]
    <3>1. op[c] \in Requests
      BY DEF IInv, TypeOK
    <3>2. [op[c] EXCEPT !.pc = "notify"] \in Requests
          /\ [op[c] EXCEPT !.pc = "notify"].pc # "fill"
      BY <3>1 DEF Requests
    <3>3. Ready \in Requests /\ Ready.pc # "fill"
      BY DEF Ready, Request, Requests, Values
    <3>4. op' = [op EXCEPT ![c] = IF Distributed THEN [op[c] EXCEPT !.pc = "notify"] ELSE Ready]
      BY <1>5 DEF Invalidate
    <3> QED
      BY <3>2, <3>3, <3>4
  <2>4. FetchOK'
    BY <1>5, <2>3, FetchStays DEF Invalidate, IInv
  <2>5. TypeOK'
    <3>1. op' \in [Clients -> Requests]
      BY <2>3 DEF IInv, TypeOK
    <3>2. UNCHANGED <<db, inbox, conn, writes, gone>>
      BY <1>5 DEF Invalidate
    <3>3. op[c].dirty \in SUBSET Keys
      BY DEF IInv, TypeOK, Requests
    <3>4. missed' \in [Replicas -> SUBSET Keys]
      BY <1>5, <2>1, <3>3 DEF Invalidate, Told, Untold, IInv, TypeOK
    <3> QED
      BY <2>2, <3>1, <3>2, <3>4, Zenon DEF IInv, TypeOK
  <2> QED
    BY <2>2, <2>4, <2>5 DEF IInv
<1>6. ASSUME Notify(c) PROVE IInv'
  <2>1. Ready \in Requests /\ Ready.pc # "fill"
    BY DEF Ready, Request, Requests, Values
  <2>0. op[c].dirty \in SUBSET Keys
    BY DEF IInv, TypeOK, Requests
  <2>2. inbox' \in [Replicas -> Seq(SUBSET Keys)]
    <3>1. op[c].dirty \in SUBSET Keys
      BY <2>0
    <3> QED
      <4>1. \A r \in Replicas : Append(inbox[r], op[c].dirty) \in Seq(SUBSET Keys)
        BY <3>1 DEF IInv, TypeOK
      <4>2. inbox \in [Replicas -> Seq(SUBSET Keys)]
        BY DEF IInv, TypeOK
      <4> QED
        BY <1>6, <4>1, <4>2 DEF Notify
  <2>3. FetchOK'
    BY <1>6, <2>1, FetchStays DEF Notify, IInv
  <2>6. missed' \in [Replicas -> SUBSET Keys]
    <3>1. missed \in [Replicas -> SUBSET Keys]
      BY DEF IInv, TypeOK
    <3>2. PICK R : missed' = Untold(R, op[c].dirty)
      BY <1>6, Zenon DEF Notify
    <3> QED
      BY <2>0, <3>1, <3>2, UntoldType, Zenon
  <2>4. TypeOK'
    BY <1>6, <2>1, <2>2, <2>6 DEF Notify, IInv, TypeOK
  <2>5. EntryOK' /\ FreshOK'
    BY <1>6 DEF Notify, IInv, EntryOK, FreshOK, Live, Present
  <2> QED
    BY <2>3, <2>4, <2>5 DEF IInv
<1> QED
  BY <1>1, <1>2, <1>3, <1>4, <1>5, <1>6 DEF ClientStep

\* So does every step of a replica's cache and listener.
LEMMA ReplicaIInv == ASSUME IInv, NEW r \in Replicas, ReplicaStep(r) PROVE IInv'
<1>1. ASSUME cleanup(r) PROVE IInv'
  <2>1. items' \in [Replicas -> [Keys -> Entry]] /\ EntryOK' /\ FreshOK'
    BY <1>1, DeleteIInv DEF cleanup
  <2>2. TypeOK' /\ FetchOK'
    BY <1>1, <2>1 DEF cleanup, IInv, TypeOK, FetchOK
  <2> QED
    BY <2>1, <2>2 DEF IInv
<1>2. ASSUME processNotification(r) PROVE IInv'
  <2>1. items' \in [Replicas -> [Keys -> Entry]] /\ EntryOK' /\ FreshOK'
    BY <1>2, DeleteIInv DEF processNotification
  <2>2. inbox' \in [Replicas -> Seq(SUBSET Keys)]
    BY <1>2 DEF processNotification, IInv, TypeOK
  <2>4. missed' \in [Replicas -> SUBSET Keys]
    BY <1>2 DEF processNotification, Told, IInv, TypeOK
  <2>3. TypeOK' /\ FetchOK'
    BY <1>2, <2>1, <2>2, <2>4 DEF processNotification, IInv, TypeOK, FetchOK
  <2> QED
    BY <2>1, <2>3 DEF IInv
<1>3. ASSUME Disconnect(r) \/ reconnect(r) PROVE IInv'
  <2>1. TypeOK'
    <3>0. <<>> \in Seq(SUBSET Keys)
      OBVIOUS
    <3>1. inbox' \in [Replicas -> Seq(SUBSET Keys)]
      BY <1>3, <3>0, Zenon DEF Disconnect, reconnect, IInv, TypeOK
    <3>2. conn' \in [Replicas -> BOOLEAN]
      BY <1>3, Zenon DEF Disconnect, reconnect, IInv, TypeOK
    <3>3. UNION {inbox[r][i] : i \in DOMAIN inbox[r]} \in SUBSET Keys
      <4>1. \A i \in DOMAIN inbox[r] : inbox[r][i] \in SUBSET Keys
        BY SMTT(30) DEF IInv, TypeOK
      <4> QED
        BY <4>1
    <3>4. missed' \in [Replicas -> SUBSET Keys]
      <4>1. missed \in [Replicas -> SUBSET Keys]
        BY DEF IInv, TypeOK
      <4>2. Untold({r}, UNION {inbox[r][i] : i \in DOMAIN inbox[r]}) \in [Replicas -> SUBSET Keys]
        BY <3>3, <4>1, UntoldType, Zenon
      <4> QED
        BY <1>3, <4>1, <4>2, Zenon DEF Disconnect, reconnect
    <3> QED
      BY <1>3, <3>1, <3>2, <3>4, Zenon DEF Disconnect, reconnect, IInv, TypeOK
  <2>2. FetchOK' /\ EntryOK' /\ FreshOK'
    BY <1>3, SMTT(30) DEF Disconnect, reconnect, IInv, FetchOK, EntryOK, FreshOK, Live, Present
  <2> QED
    BY <2>1, <2>2 DEF IInv
<1> QED
  BY <1>1, <1>2, <1>3 DEF ReplicaStep

\* A key that expires in the database makes what was read of it stale from now on.
LEMMA ExpireIInv == ASSUME IInv, NEW k \in Keys, Expire(k) PROVE IInv'
<1>1. \A j \in Keys : db'[j] \in {0, db[j]}
  BY DEF Expire, IInv, TypeOK
<1>2. TypeOK'
  <2>1. missed' \in [Replicas -> SUBSET Keys]
    <3>1. missed \in [Replicas -> SUBSET Keys] /\ {k} \in SUBSET Keys
      BY DEF IInv, TypeOK
    <3>2. missed' = Untold(Replicas, {k})
      BY DEF Expire
    <3> QED
      BY <3>1, <3>2, UntoldType, Zenon
  <2>2. db' \in [Keys -> Values]
    BY DEF Expire, IInv, TypeOK, Values
  <2> QED
    BY <2>1, <2>2, Zenon DEF Expire, IInv, TypeOK
<1>3. FreshOK'
  BY <1>1 DEF Expire, IInv, TypeOK, FreshOK, Values
<1>4. FetchOK'
  <2> SUFFICES ASSUME NEW c \in Clients, op[c].pc = "fill"
               PROVE  /\ op[c].key \in Keys /\ op[c].v \in 1..writes
                      /\ op[c].v # db'[op[c].key] => gone[op[c].key][op[c].v] <= op[c].age
    BY DEF FetchOK, Expire
  <2>1. op[c] \in Requests
    BY DEF IInv, TypeOK
  <2>2. op[c].age \in Nat
    BY <2>1 DEF Requests
  <2> QED
    BY <2>2 DEF IInv, FetchOK, FreshOK
<1>5. EntryOK'
  <2> SUFFICES ASSUME NEW r \in Replicas, NEW j \in Keys
               PROVE  /\ items[r][j].v <= writes
                      /\ (Live(items[r][j]) /\ items[r][j].v # db'[j]) =>
                            gone[j][items[r][j].v] <= (TTL - items[r][j].life) + MaxFetch
    BY DEF EntryOK, Expire, Live, Present
  <2>1. items[r][j].life \in -1..TTL
    BY DEF IInv, TypeOK, Entry
  <2>2. items[r][j].v = db[j] => gone[j][items[r][j].v] = 0
    BY DEF IInv, FreshOK
  <2>3. /\ items[r][j].v <= writes
        /\ (Live(items[r][j]) /\ items[r][j].v # db[j]) =>
              gone[j][items[r][j].v] <= (TTL - items[r][j].life) + MaxFetch
    BY DEF IInv, EntryOK
  <2> QED
    BY <2>1, <2>2, <2>3
<1> QED
  BY <1>2, <1>3, <1>4, <1>5 DEF IInv

\* The invariant that relates staleness to the life of entries and fetches holds.
THEOREM CacheInvariance == Spec => []IInv
<1>1. IInv /\ [Next]_vars => IInv'
  <2> SUFFICES ASSUME IInv, [Next]_vars PROVE IInv'
    OBVIOUS
  <2>1. CASE UNCHANGED vars
    BY <2>1 DEF vars, IInv, TypeOK, FetchOK, EntryOK, FreshOK, Live, Present
  <2>2. CASE Next
    BY <2>2, ClientIInv, ReplicaIInv, ExpireIInv, TickIInv DEF Next
  <2> QED
    BY <2>1, <2>2
<1> QED
  BY <1>1, InitIInv, PTL DEF Spec

\* Every map, request and queue of the caches keeps its type.
THEOREM CacheTypeCorrect == Spec => []TypeOK
<1>1. IInv => TypeOK
  BY DEF IInv
<1> QED
  BY <1>1, CacheInvariance, PTL

\* Cache.Get and CachedStore.Get: no replica answers with a value overwritten more
\* than CACHE_TTL, plus the time of one fetch, ago, whatever is lost.
THEOREM StalenessIsBounded == Spec => []BoundedStaleness
<1>1. IInv => BoundedStaleness
  <2> SUFFICES ASSUME IInv, NEW r \in Replicas, NEW k \in Keys, Stale(r, k)
               PROVE  gone[k][items[r][k].v] <= TTL + MaxFetch
    BY DEF BoundedStaleness
  <2>1. items[r][k].life \in 0..TTL /\ items[r][k].v \in Values
    BY DEF IInv, TypeOK, Entry, Stale, Live
  <2>2. gone[k][items[r][k].v] \in Nat
    BY <2>1 DEF IInv, TypeOK, Age
  <2>3. gone[k][items[r][k].v] <= (TTL - items[r][k].life) + MaxFetch
    BY DEF IInv, EntryOK, Stale
  <2> QED
    BY <2>1, <2>2, <2>3
<1> QED
  BY <1>1, CacheInvariance, PTL


-----------------------------------------------------------------------------
(* Coherence: the invariant is inductive together with the types. *)

\* What stays pending: an invalidation that is not in the hands of the client that
\* moves, or one in an inbox that does not shrink.
LEMMA PendingStays ==
    ASSUME NEW c \in Clients, NEW r \in Replicas, NEW k \in Keys,
           \A d \in Clients \ {c} : op'[d] = op[d],
           op[c].pc \notin {"invalidate", "notify"} \/ k \notin op[c].dirty,
           UNCHANGED inbox, Pending(r, k)
    PROVE  Pending(r, k)'
BY DEF Pending

\* Every step of a client leaves each stale entry with its reason.
LEMMA ClientCoherent ==
    ASSUME IInv, CoherentUnlessMissed, NEW c \in Clients, ClientStep(c),
           NEW r \in Replicas, NEW k \in Keys, Stale(r, k)'
    PROVE  Pending(r, k)' \/ k \in missed'[r]
<1>0. /\ op[c] \in Requests /\ op \in [Clients -> Requests]
      /\ items \in [Replicas -> [Keys -> Entry]]
      /\ missed \in [Replicas -> SUBSET Keys] /\ Home[c] \in Replicas
  BY DEF IInv, TypeOK
<1>1. Stale(r, k) => Pending(r, k) \/ k \in missed[r]
  BY DEF CoherentUnlessMissed
<1>2. ASSUME NEW j \in Keys, Get(c, j) PROVE Pending(r, k)'  \/ k \in missed'[r]
  <2>1. Stale(r, k) /\ missed' = missed
    BY <1>2 DEF Get, Stale, Live, Present
  <2>2. CASE Pending(r, k)
    <3>1. /\ \A d \in Clients \ {c} : op'[d] = op[d]
          /\ op[c].pc \notin {"invalidate", "notify"} /\ UNCHANGED inbox
      BY <1>0, <1>2 DEF Get
    <3> QED
      BY <2>2, <3>1, PendingStays
  <2> QED
    BY <1>1, <2>1, <2>2
<1>3. ASSUME NEW K \in SUBSET Keys, NEW kind, NEW v \in Values, Commit(c, K, kind, v)
      PROVE  Pending(r, k)'  \/ k \in missed'[r]
  <2>1. CASE k \in K /\ kind = "unmarked"
    BY <1>0, <1>3, <2>1 DEF Commit, Untold
  <2>2. CASE k \in K /\ kind # "unmarked"
    <3>1. dirtySlice(kind, K) = K /\ K # {}
      BY <2>2 DEF dirtySlice
    <3>2. op'[c] = Request("invalidate", NoKey, 0, K)
      BY <1>0, <1>3, <3>1 DEF Commit
    <3>3. op'[c].pc = "invalidate" /\ k \in op'[c].dirty
      BY <2>2, <3>2 DEF Request
    <3> QED
      BY <3>3 DEF Pending
  <2>3. CASE k \notin K
    <3>1. Stale(r, k)
      BY <1>3, <2>3 DEF Commit, NewValue, Stale, Live, Present
    <3>2. missed[r] \subseteq missed'[r]
      BY <1>0, <1>3 DEF Commit, Untold
    <3>3. CASE Pending(r, k)
      <4>1. /\ \A d \in Clients \ {c} : op'[d] = op[d]
            /\ op[c].pc \notin {"invalidate", "notify"} /\ UNCHANGED inbox
        BY <1>0, <1>3 DEF Commit
      <4> QED
        BY <3>3, <4>1, PendingStays
    <3> QED
      BY <1>1, <3>1, <3>2, <3>3
  <2> QED
    BY <2>1, <2>2, <2>3
<1>4. ASSUME NEW K \in SUBSET Keys, NEW v \in Values, CommitLost(c, K, v)
      PROVE  Pending(r, k)'  \/ k \in missed'[r]
  <2>1. CASE k \in K
    BY <1>0, <1>4, <2>1 DEF CommitLost, Untold
  <2>2. CASE k \notin K
    <3>1. Stale(r, k)
      BY <1>4, <2>2 DEF CommitLost, NewValue, Stale, Live, Present
    <3>2. missed[r] \subseteq missed'[r]
      BY <1>0, <1>4 DEF CommitLost, Untold
    <3>3. Pending(r, k) => Pending(r, k)'
      BY <1>4 DEF CommitLost, Pending
    <3> QED
      BY <1>1, <3>1, <3>2, <3>3
  <2> QED
    BY <2>1, <2>2
<1>5. ASSUME Fill(c) PROVE Pending(r, k)'  \/ k \in missed'[r]
  <2> DEFINE j == op[c].key
  <2>0. j \in Keys /\ op[c].v \in Values
    BY <1>0, <1>5 DEF Fill, IInv, FetchOK, Requests
  <2>1. items'[r][k] = items[r][k]
        \/ (r = Home[c] /\ k = j /\ items'[r][k].v = op[c].v)
    <3>1. items'[r] = IF r = Home[c] THEN CacheSet(items[r], j, op[c].v) ELSE items[r]
      BY <1>0, <1>5 DEF Fill
    <3>2. items[r] \in [Keys -> Entry]
      BY <1>0
    <3>3. CacheSet(items[r], j, op[c].v)[k] = items[r][k]
          \/ (k = j /\ CacheSet(items[r], j, op[c].v)[k] = [v |-> op[c].v, life |-> TTL])
      BY <2>0, <3>2, SetType, SMTT(30)
    <3> QED
      BY <3>1, <3>3, SMTT(30)
  <2>2. CASE r = Home[c] /\ k = j
    <3>1. CASE op[c].v # db[j]
      BY <1>0, <1>5, <2>2, <3>1 DEF Fill
    <3>2. CASE op[c].v = db[j] /\ items'[r][k].v = op[c].v
      BY <1>5, <2>2, <3>2 DEF Fill, Stale
    <3>3. CASE op[c].v = db[j] /\ items'[r][k] = items[r][k]
      <4>1. Present(items'[r][k])
        BY DEF Stale, Live
      <4>2. items'[r][k].v = op[c].v
        BY <1>0, <1>5, <2>0, <2>2, <3>3, <4>1 DEF Fill, CacheSet, Present
      <4> QED
        BY <1>5, <2>2, <3>3, <4>2 DEF Fill, Stale
    <3> QED
      BY <2>1, <2>2, <3>1, <3>2, <3>3
  <2>3. CASE ~(r = Home[c] /\ k = j)
    <3>1. Stale(r, k)
      BY <1>5, <2>1, <2>3 DEF Fill, Stale, Live, Present
    <3>2. k \in missed[r] => k \in missed'[r]
      BY <1>0, <1>5, <2>3 DEF Fill
    <3>3. CASE Pending(r, k)
      <4>1. /\ \A d \in Clients \ {c} : op'[d] = op[d]
            /\ op[c].pc \notin {"invalidate", "notify"} /\ UNCHANGED inbox
        BY <1>0, <1>5 DEF Fill
      <4> QED
        BY <3>3, <4>1, PendingStays
    <3> QED
      BY <1>1, <3>1, <3>2, <3>3
  <2> QED
    BY <2>2, <2>3
<1>6. ASSUME Invalidate(c) PROVE Pending(r, k)'  \/ k \in missed'[r]
  <2>1. items'[r] = IF r = Home[c] THEN CacheDelete(items[r], op[c].dirty) ELSE items[r]
    BY <1>0, <1>6 DEF Invalidate
  <2>2. CASE k \in op[c].dirty
    <3>1. r # Home[c]
      BY <1>0, <2>1, <2>2 DEF CacheDelete, NoEntry, Stale, Live, Present
    <3>2. CASE Distributed
      <4>1. op'[c].pc = "notify" /\ op'[c].dirty = op[c].dirty
        BY <1>0, <1>6, <3>2 DEF Invalidate, Requests
      <4> QED
        BY <2>2, <3>1, <4>1 DEF Pending
    <3>3. CASE ~Distributed
      BY <1>0, <1>6, <2>2, <3>1, <3>3 DEF Invalidate, Untold
    <3> QED
      BY <3>2, <3>3
  <2>3. CASE k \notin op[c].dirty
    <3>1. Stale(r, k)
      BY <1>0, <1>6, <2>1, <2>3 DEF Invalidate, CacheDelete, Stale, Live, Present
    <3>2. k \in missed[r] => k \in missed'[r]
      BY <1>0, <1>6, <2>3 DEF Invalidate, Told, Untold
    <3>3. CASE Pending(r, k)
      <4>1. (\A d \in Clients \ {c} : op'[d] = op[d]) /\ UNCHANGED inbox
        BY <1>0, <1>6 DEF Invalidate
      <4> QED
        BY <2>3, <3>3, <4>1, PendingStays
    <3> QED
      BY <1>1, <3>1, <3>2, <3>3
  <2> QED
    BY <2>2, <2>3
<1>7. ASSUME Notify(c) PROVE Pending(r, k)'  \/ k \in missed'[r]
  <2>1. Stale(r, k)
    BY <1>7 DEF Notify, Stale, Live, Present
  <2>2. k \in missed[r] => k \in missed'[r]
    BY <1>0, <1>7 DEF Notify, Untold
  <2>3. ASSUME NEW i \in DOMAIN inbox[r], k \in inbox[r][i] PROVE Pending(r, k)'
    <3>1. inbox[r] \in Seq(SUBSET Keys)
      BY DEF IInv, TypeOK
    <3>2. inbox'[r] = inbox[r] \/ inbox'[r] = Append(inbox[r], op[c].dirty)
      BY <1>7 DEF Notify
    <3>3. i \in DOMAIN inbox'[r] /\ inbox'[r][i] = inbox[r][i]
      BY <2>3, <3>1, <3>2, SMTT(30)
    <3> QED
      BY <2>3, <3>3 DEF Pending
  <2>4. ASSUME NEW d \in Clients, d # c, k \in op[d].dirty,
               op[d].pc = "invalidate" \/ (op[d].pc = "notify" /\ Home[d] # r)
        PROVE  Pending(r, k)'
    <3>1. op'[d] = op[d]
      BY <1>0, <1>7, <2>4 DEF Notify
    <3> QED
      BY <2>4, <3>1 DEF Pending
  <2>5. CASE Home[c] # r /\ k \in op[c].dirty
    <3>1. CASE conn[r] /\ inbox'[r] = Append(inbox[r], op[c].dirty)
      <4>1. inbox[r] \in Seq(SUBSET Keys)
        BY DEF IInv, TypeOK
      <4>2. Len(inbox[r]) + 1 \in DOMAIN inbox'[r] /\ inbox'[r][Len(inbox[r]) + 1] = op[c].dirty
        BY <3>1, <4>1
      <4> QED
        BY <2>5, <4>2 DEF Pending
    <3>2. CASE missed'[r] = missed[r] \cup op[c].dirty
      BY <2>5, <3>2
    <3>3. \/ conn[r] /\ inbox'[r] = Append(inbox[r], op[c].dirty)
          \/ missed'[r] = missed[r] \cup op[c].dirty
      BY <1>7, <2>5 DEF Notify, Untold
    <3> QED
      BY <3>1, <3>2, <3>3
  <2>6. op[c].pc = "notify"
    BY <1>7 DEF Notify
  <2>7. CASE Pending(r, k)
    BY <2>3, <2>4, <2>5, <2>6, <2>7 DEF Pending
  <2> QED
    BY <1>1, <2>1, <2>2, <2>7
<1> QED
  BY <1>2, <1>3, <1>4, <1>5, <1>6, <1>7 DEF ClientStep

\* So does every step of a replica's cache and listener.
LEMMA ReplicaCoherent ==
    ASSUME IInv, CoherentUnlessMissed, NEW q \in Replicas, ReplicaStep(q),
           NEW r \in Replicas, NEW k \in Keys, Stale(r, k)'
    PROVE  Pending(r, k)' \/ k \in missed'[r]
<1>0. /\ items \in [Replicas -> [Keys -> Entry]]
      /\ missed \in [Replicas -> SUBSET Keys]
      /\ inbox \in [Replicas -> Seq(SUBSET Keys)]
  BY DEF IInv, TypeOK
<1>1. Stale(r, k) => Pending(r, k) \/ k \in missed[r]
  BY DEF CoherentUnlessMissed
<1>2. ASSUME cleanup(q) PROVE Pending(r, k)'  \/ k \in missed'[r]
  <2>1. items'[r][k] \in {items[r][k], NoEntry}
    BY <1>0, <1>2, DeleteType DEF cleanup
  <2>2. items'[r][k] = items[r][k]
    BY <2>1, SMTT(30) DEF Stale, Live, Present, NoEntry
  <2>3. UNCHANGED <<db, op, inbox, missed>>
    BY <1>2 DEF cleanup
  <2>4. Stale(r, k)
    BY <2>2, <2>3 DEF Stale, Live, Present
  <2> QED
    BY <1>1, <2>3, <2>4 DEF Pending
<1>3. ASSUME processNotification(q) PROVE Pending(r, k)'  \/ k \in missed'[r]
  <2>1. items'[r] = IF r = q THEN CacheDelete(items[r], Head(inbox[r])) ELSE items[r]
    BY <1>0, <1>3 DEF processNotification
  <2>2. ~(r = q /\ k \in Head(inbox[r]))
    BY <2>1 DEF CacheDelete, NoEntry, Stale, Live, Present
  <2>3. Stale(r, k)
    BY <1>3, <2>1, <2>2, SMTT(30) DEF processNotification, CacheDelete, Stale, Live, Present
  <2>4. k \in missed[r] => k \in missed'[r]
    BY <1>0, <1>3, <2>2 DEF processNotification, Told
  <2>5. ASSUME NEW i \in DOMAIN inbox[r], k \in inbox[r][i] PROVE Pending(r, k)'
    <3>1. CASE r # q
      BY <1>0, <1>3, <2>5, <3>1 DEF processNotification, Pending
    <3>2. CASE r = q
      <4>1. inbox[r] # <<>> /\ inbox'[r] = Tail(inbox[r]) /\ i # 1
        BY <1>0, <1>3, <2>2, <2>5, <3>2 DEF processNotification
      <4>2. i - 1 \in DOMAIN inbox'[r] /\ inbox'[r][i - 1] = inbox[r][i]
        BY <1>0, <4>1
      <4> QED
        BY <2>5, <4>2 DEF Pending
    <3> QED
      BY <3>1, <3>2
  <2>6. CASE Pending(r, k)
    BY <1>3, <2>5, <2>6 DEF processNotification, Pending
  <2> QED
    BY <1>1, <2>3, <2>4, <2>6
<1>4. ASSUME Disconnect(q) PROVE Pending(r, k)'  \/ k \in missed'[r]
  <2>1. Stale(r, k)
    BY <1>4 DEF Disconnect, Stale, Live, Present
  <2>2. missed'[r] = IF r = q THEN missed[r] \cup UNION {inbox[r][i] : i \in DOMAIN inbox[r]}
                     ELSE missed[r]
    BY <1>4 DEF Disconnect, Untold
  <2>3. CASE r # q
    <3>1. inbox'[r] = inbox[r]
      BY <1>0, <1>4, <2>3 DEF Disconnect
    <3> QED
      BY <1>1, <1>4, <2>1, <2>2, <3>1 DEF Disconnect, Pending
  <2>4. CASE r = q
    <3>1. (\E i \in DOMAIN inbox[r] : k \in inbox[r][i]) => k \in missed'[r]
      BY <2>2, <2>4
    <3> QED
      BY <1>1, <1>4, <2>1, <2>2, <3>1 DEF Disconnect, Pending
  <2> QED
    BY <2>3, <2>4
<1>5. ASSUME reconnect(q) PROVE Pending(r, k)'  \/ k \in missed'[r]
  BY <1>1, <1>5 DEF reconnect, Stale, Live, Present, Pending
<1> QED
  BY <1>2, <1>3, <1>4, <1>5 DEF ReplicaStep

\* Time and expiry leave each stale entry with its reason.
LEMMA TimeCoherent ==
    ASSUME IInv, CoherentUnlessMissed, Tick \/ \E j \in Keys : Expire(j),
           NEW r \in Replicas, NEW k \in Keys, Stale(r, k)'
    PROVE  Pending(r, k)' \/ k \in missed'[r]
<1>0. /\ items \in [Replicas -> [Keys -> Entry]] /\ op \in [Clients -> Requests]
      /\ missed \in [Replicas -> SUBSET Keys] /\ db \in [Keys -> Values]
  BY DEF IInv, TypeOK
<1>1. Stale(r, k) => Pending(r, k) \/ k \in missed[r]
  BY DEF CoherentUnlessMissed
<1>2. ASSUME Tick PROVE Pending(r, k)'  \/ k \in missed'[r]
  <2>1. /\ items'[r][k].v = items[r][k].v /\ items[r][k].life \in -1..TTL
        /\ items'[r][k].life = IF items[r][k].life = -1 THEN -1 ELSE items[r][k].life - 1
    BY <1>0, <1>2 DEF Tick, Entry
  <2>2. Stale(r, k)
    BY <1>2, <2>1 DEF Tick, Stale, Live, Present
  <2>3. \A c \in Clients : op'[c].pc = op[c].pc /\ op'[c].dirty = op[c].dirty
    BY <1>0, <1>2 DEF Tick, Requests
  <2> QED
    BY <1>1, <1>2, <2>2, <2>3 DEF Tick, Pending
<1>3. ASSUME NEW j \in Keys, Expire(j) PROVE Pending(r, k)'  \/ k \in missed'[r]
  <2>1. CASE k = j
    BY <1>3, <2>1 DEF Expire, Untold
  <2>2. CASE k # j
    <3>1. Stale(r, k)
      BY <1>0, <1>3, <2>2 DEF Expire, Stale, Live, Present
    <3>2. missed[r] \subseteq missed'[r]
      BY <1>3 DEF Expire, Untold
    <3> QED
      BY <1>1, <1>3, <3>1, <3>2 DEF Expire, Pending
  <2> QED
    BY <2>1, <2>2
<1> QED
  BY <1>2, <1>3

\* CachedStore, CachingTx and Invalidator together: a cache is wrong about a key only
\* while an invalidation is on its way, or after a change this replica is never told of.
THEOREM CachesAreCoherent == Spec => []CoherentUnlessMissed
<1>1. Init => CoherentUnlessMissed
  BY DEF Init, CoherentUnlessMissed, Stale, Live, Present, NoEntry
<1>2. IInv /\ CoherentUnlessMissed /\ [Next]_vars => CoherentUnlessMissed'
  <2> SUFFICES ASSUME IInv, CoherentUnlessMissed, [Next]_vars,
                      NEW r \in Replicas, NEW k \in Keys, Stale(r, k)'
               PROVE  Pending(r, k)' \/ k \in missed'[r]
    BY DEF CoherentUnlessMissed
  <2>1. CASE UNCHANGED vars
    BY <2>1 DEF vars, CoherentUnlessMissed, Stale, Live, Present, Pending
  <2>2. CASE Next
    BY <2>2, ClientCoherent, ReplicaCoherent, TimeCoherent DEF Next
  <2> QED
    BY <2>1, <2>2
<1> QED
  BY <1>1, <1>2, CacheInvariance, PTL DEF Spec

-----------------------------------------------------------------------------
(* Capacity *)

Cached(M) == {k \in Keys : Present(M[k])}

\* A map with no more entries than the limit; finite, so that it can be counted.
Fits(M) == IsFiniteSet(Cached(M)) /\ (MaxSize > 0 => Cardinality(Cached(M)) <= MaxSize)

\* A map with no entries but those of one that fits, fits.
LEMMA FewerFit ==
    ASSUME NEW M, NEW N, Fits(M), \A k \in Keys : Present(N[k]) => Present(M[k])
    PROVE  Fits(N)
<1>1. Cached(N) \subseteq Cached(M)
  BY DEF Cached
<1>2. /\ IsFiniteSet(Cached(N)) /\ Cardinality(Cached(N)) <= Cardinality(Cached(M))
      /\ Cardinality(Cached(N)) \in Nat /\ Cardinality(Cached(M)) \in Nat
  BY <1>1, FS_Subset, FS_CardinalityType DEF Fits
<1> QED
  BY <1>2 DEF Fits

\* Cache.Set adds an entry only below the limit.
LEMMA SetFits ==
    ASSUME NEW M \in [Keys -> Entry], NEW k \in Keys, NEW v \in Values, Fits(M)
    PROVE  Fits(CacheSet(M, k, v))
<1> DEFINE N == CacheSet(M, k, v)
<1>1. CASE Present(M[k]) \/ N = M
  <2>1. \A j \in Keys : Present(N[j]) => Present(M[j])
    BY <1>1 DEF CacheSet, Present
  <2> QED
    BY <2>1, FewerFit
<1>2. CASE ~Present(M[k]) /\ N # M
  <2>1. Cached(N) \subseteq Cached(M) \cup {k} /\ k \notin Cached(M)
    BY <1>2 DEF Cached, CacheSet, Present
  <2>2. MaxSize > 0 => Cardinality(Cached(M)) < MaxSize
    <3>1. Cardinality(Cached(M)) \in Nat
      BY FS_CardinalityType DEF Fits
    <3>2. Size(M) = Cardinality(Cached(M))
      BY DEF Size, Cached
    <3> QED
      BY <1>2, <3>1, <3>2 DEF CacheSet
  <2>3. /\ IsFiniteSet(Cached(M) \cup {k})
        /\ Cardinality(Cached(M) \cup {k}) = Cardinality(Cached(M)) + 1
        /\ Cardinality(Cached(M)) \in Nat
    BY <2>1, FS_AddElement, FS_CardinalityType DEF Fits
  <2>4. /\ IsFiniteSet(Cached(N)) /\ Cardinality(Cached(N)) \in Nat
        /\ Cardinality(Cached(N)) <= Cardinality(Cached(M)) + 1
    BY <2>1, <2>3, FS_Subset, FS_CardinalityType
  <2> QED
    BY <2>2, <2>3, <2>4 DEF Fits
<1> QED
  BY <1>1, <1>2

AllFit == \A r \in Replicas : Fits(items[r])

\* Cache.Set, whoever calls it and whatever else happens: no replica's map outgrows
\* CACHE_MAX_SIZE.
THEOREM CapacityIsKept == Spec => []WithinCapacity
<1>1. Init => AllFit
  <2> SUFFICES ASSUME Init, NEW r \in Replicas PROVE Fits(items[r])
    BY DEF AllFit
  <2>1. Cached(items[r]) = {}
    BY DEF Init, Cached, Present, NoEntry
  <2> QED
    BY <2>1, FS_EmptySet DEF Fits
<1>2. IInv /\ AllFit /\ [Next]_vars => AllFit'
  <2> SUFFICES ASSUME IInv, AllFit, [Next]_vars, NEW r \in Replicas PROVE Fits(items'[r])
    BY DEF AllFit, Fits, Cached, Present
  <2>0. items \in [Replicas -> [Keys -> Entry]] /\ Fits(items[r])
    BY DEF AllFit, IInv, TypeOK
  <2>1. CASE items' = items
    BY <2>0, <2>1
  <2>2. ASSUME NEW c \in Clients, Fill(c) PROVE Fits(items'[r])
    <3>1. op[c].key \in Keys /\ op[c].v \in Values
      BY <2>2 DEF Fill, IInv, TypeOK, FetchOK, Requests
    <3>2. Fits(CacheSet(items[r], op[c].key, op[c].v))
      BY <2>0, <3>1, SetFits
    <3>3. items'[r] = items[r] \/ items'[r] = CacheSet(items[r], op[c].key, op[c].v)
      BY <2>0, <2>2 DEF Fill
    <3> QED
      BY <2>0, <3>2, <3>3
  <2>3. ASSUME NEW q \in Replicas, NEW K, items' = [items EXCEPT ![q] = CacheDelete(@, K)]
        PROVE  Fits(items'[r])
    <3>1. \A k \in Keys : items'[r][k] \in {items[r][k], NoEntry}
      BY <2>0, <2>3, DeleteType
    <3>2. \A k \in Keys : Present(items'[r][k]) => Present(items[r][k])
      BY <3>1, SMTT(30) DEF Present, NoEntry
    <3> QED
      BY <2>0, <3>2, FewerFit
  <2>4. ASSUME Tick PROVE Fits(items'[r])
    <3>1. \A k \in Keys : Present(items'[r][k]) => Present(items[r][k])
      BY <2>0, <2>4 DEF Tick, Present, Entry
    <3> QED
      BY <2>0, <3>1, FewerFit
  <2>5. CASE Next
    <3>1. ASSUME NEW c \in Clients, ClientStep(c) PROVE Fits(items'[r])
      <4>1. Fill(c) \/ Invalidate(c) \/ items' = items
        BY <3>1 DEF ClientStep, Get, Commit, CommitLost, Notify
      <4>2. Home[c] \in Replicas
        OBVIOUS
      <4> QED
        BY <2>1, <2>2, <2>3, <4>1, <4>2 DEF Invalidate
    <3>2. ASSUME NEW q \in Replicas, ReplicaStep(q) PROVE Fits(items'[r])
      <4>1. cleanup(q) \/ processNotification(q) \/ items' = items
        BY <3>2 DEF ReplicaStep, Disconnect, reconnect
      <4> QED
        BY <2>1, <2>3, <4>1 DEF cleanup, processNotification
    <3>3. ASSUME NEW k \in Keys, Expire(k) PROVE Fits(items'[r])
      BY <2>1, <3>3 DEF Expire
    <3> QED
      BY <2>4, <2>5, <3>1, <3>2, <3>3 DEF Next
  <2> QED
    BY <2>1, <2>5 DEF vars
<1>3. AllFit => WithinCapacity
  BY DEF AllFit, Fits, WithinCapacity, Size, Cached
<1> QED
  BY <1>1, <1>2, <1>3, CacheInvariance, PTL DEF Spec

=============================================================================
