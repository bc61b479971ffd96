--------------------------- MODULE ElectionProofs ---------------------------
(***************************************************************************)
(* At most one leader, for any number of pods and any timing with the      *)
(* margin of Election: the invariant says how old the lease of a leader    *)
(* can be at each point of its loop.  It is stated of a pod's loop P and   *)
(* a lease l, so that a step that touches neither keeps it trivially.      *)
(***************************************************************************)
EXTENDS Election, TLAPS

Shutting == {"surrender", "release", "unlabel"}
Ticking == {"get", "decide", "put", "refused", "failed"}

\* The lease is no older than n periods and the time since the tick began,
\* and the pod has noticed all of it but one period.
Tenure(P, l, n) ==
    /\ l.age <= n * retryPeriod + P.since
    /\ n * retryPeriod + P.since <= P.renewed + retryPeriod

\* What a pod read is still what the API server stores.
CopyGood(P, l) == (P.pc \in {"decide", "release"} /\ P.fresh) => P.copy = l

\* An update that would be accepted finds no lease, its own or an expired one.
PutGood(P, l, p) ==
    P.pc = "put" =>
        /\ P.stamp <= P.since
        /\ P.fresh => (~l.exists \/ l.holder = p \/ leaseExpired(l, p))

\* A lease just acquired is the pod's own, and younger than the tick.
AcquiredGood(P, l, p) ==
    P.pc = "acquired" => (l.exists /\ l.holder = p /\ l.age <= P.since)

Within(P, l, bound) == \E n \in Nat : n * retryPeriod <= bound /\ Tenure(P, l, n)

\* A leader holds the lease, and its age is bounded at each point of the loop.
LeaderGood(P, l, p) ==
    (P.leader /\ P.pc \notin Shutting) =>
        /\ l.exists /\ l.holder = p
        /\ P.pc \in Ticking \cup {"acquired", "label", "wait"}
        /\ P.pc = "label" => l.age <= P.since
        /\ P.pc = "wait" => (~P.first /\ Within(P, l, renewDeadline))
        /\ P.pc \in Ticking => (~P.first /\ Within(P, l, renewDeadline + retryPeriod))

Good(P, l, p) ==
    CopyGood(P, l) /\ PutGood(P, l, p) /\ AcquiredGood(P, l, p) /\ LeaderGood(P, l, p)

\* The inductive invariant.
ElectionInv == TypeOK /\ \A p \in Pods : Good(pod[p], lease, p)

PodType == [pc : {"wait", "get", "decide", "put", "acquired", "refused",
                  "failed", "label", "surrender", "release", "unlabel",
                  "stopped", "down"},
            leader : BOOLEAN, since : 0..retryPeriod, renewed : Ages,
            copy : Lease, fresh : BOOLEAN, stamp : Ages, first : BOOLEAN]

-----------------------------------------------------------------------------
(* Types *)

\* What is known of the constants, in the form the steps use.
LEMMA Constants ==
    /\ retryPeriod \in Nat /\ retryPeriod > 0 /\ renewDeadline \in Nat /\ leaseDuration \in Nat
    /\ MaxFaults \in Nat /\ Old \in Nat /\ Old = leaseDuration + retryPeriod + 1
    /\ Ages = 0..Old
BY ElectionAssumption DEF Old, Ages

\* The bounds that loops are reset to.
LEMMA Zero == 0 \in 0..retryPeriod /\ 0 \in Ages /\ Old \in Ages
BY Constants

\* Growing older stays within the ages, and is one more or the cap.
LEMMA OlderType ==
    ASSUME NEW n \in Ages
    PROVE  /\ Older(n) \in Ages
           /\ Older(n) >= n /\ Older(n) <= n + 1
           /\ Older(n) = n + 1 \/ Older(n) = Old
BY Constants DEF Older

\* The loop of a fresh process is well typed.
LEMMA LoopType ==
    /\ NoLease \in Lease
    /\ Loop \in PodType
    /\ \A c \in {"get", "wait", "stopped", "down"} : [Loop EXCEPT !.pc = c] \in PodType
<1>1. NoLease \in Lease
  BY Constants DEF NoLease, Lease
<1>2. Loop \in PodType
  BY <1>1, Constants DEF Loop, PodType
<1>3. \A c \in {"get", "wait", "stopped", "down"} : [Loop EXCEPT !.pc = c] \in PodType
  BY <1>2 DEF PodType
<1> QED BY <1>1, <1>2, <1>3

\* The end of a tick, field by field; what it leaves is well typed.
LEMMA EndType ==
    ASSUME NEW P \in PodType
    PROVE  /\ End(P) \in PodType
           /\ End(P).pc = "wait" /\ End(P).first = FALSE /\ End(P).leader = P.leader
           /\ End(P).since = IF P.first THEN 0 ELSE P.since
           /\ P.leader => End(P).renewed = P.renewed
           /\ End(P).fresh = FALSE
<1> DEFINE s == IF P.first THEN 0 ELSE P.since
           r == IF P.leader THEN P.renewed ELSE Old
<1>1. End(P) = [pc |-> "wait", leader |-> P.leader, since |-> s, renewed |-> r,
                copy |-> NoLease, fresh |-> FALSE, stamp |-> 0, first |-> FALSE]
  BY DEF End
<1>2. s \in 0..retryPeriod /\ r \in Ages /\ P.leader \in BOOLEAN /\ 0 \in Ages
  <2>1. P.leader \in BOOLEAN
    BY DEF PodType
  <2>2. P.since \in 0..retryPeriod /\ P.renewed \in Ages
    BY DEF PodType
  <2>3. 0 \in 0..retryPeriod /\ Old \in Ages /\ 0 \in Ages
    BY Constants
  <2> QED BY <2>1, <2>2, <2>3
<1>3. NoLease \in Lease
  BY LoopType
<1>4. s = (IF P.first THEN 0 ELSE P.since) /\ (P.leader => r = P.renewed)
  OBVIOUS
<1> HIDE DEF s, r
<1>5. End(P) \in PodType
  BY <1>1, <1>2, <1>3 DEF PodType
<1> QED BY <1>1, <1>4, <1>5

\* A step of one pod: its loop becomes P, the others' are as before.
LEMMA StepFrame ==
    ASSUME TypeOK, NEW p \in Pods, NEW P \in PodType, Step(p, P)
    PROVE  /\ pod' \in [Pods -> PodType]
           /\ pod'[p] = P
           /\ \A q \in Pods \ {p} : pod'[q] = pod[q]
BY DEF TypeOK, PodType, Step

\* If the lease stays too, only the pod's own part of the invariant is left.
LEMMA StepGood ==
    ASSUME ElectionInv, NEW p \in Pods, NEW P \in PodType, Step(p, P), lease' = lease,
           label' \in SUBSET Pods, faults' \in 0..MaxFaults, Good(P, lease, p)
    PROVE  ElectionInv'
<1>1. /\ pod' \in [Pods -> PodType]
      /\ pod'[p] = P
      /\ \A q \in Pods \ {p} : pod'[q] = pod[q]
  BY StepFrame DEF ElectionInv
<1>2. TypeOK'
  BY <1>1 DEF ElectionInv, TypeOK, PodType
<1>3. \A q \in Pods : Good(pod'[q], lease', q)
  BY <1>1 DEF ElectionInv
<1> QED BY <1>2, <1>3 DEF ElectionInv

\* The loop of a pod, and a tick's outcomes, have their type.
LEMMA PodIsTyped ==
    ASSUME ElectionInv, NEW p \in Pods
    PROVE  /\ pod[p] \in PodType /\ Good(pod[p], lease, p)
           /\ lease \in Lease /\ label \in SUBSET Pods /\ faults \in 0..MaxFaults
BY DEF ElectionInv, TypeOK, PodType

-----------------------------------------------------------------------------
(* Arithmetic of the margin *)

\* renewDeadline is a multiple of retryPeriod: fewer than one period above it is
\* at most it.
LEMMA Multiples ==
    ASSUME NEW n \in Nat, n * retryPeriod < renewDeadline + retryPeriod
    PROVE  n * retryPeriod <= renewDeadline
<1>1. PICK m \in 1..renewDeadline : renewDeadline = m * retryPeriod
  BY MarginAssumption
<1>2. m \in Nat
  BY <1>1, Constants
<1>3. CASE n <= m
  <2>1. n * retryPeriod <= m * retryPeriod
    BY <1>2, <1>3, Constants
  <2> QED BY <1>1, <2>1
<1>4. CASE n >= m + 1
  <2>1. (m + 1) * retryPeriod <= n * retryPeriod
    BY <1>2, <1>4, Constants
  <2>2. (m + 1) * retryPeriod = m * retryPeriod + retryPeriod
    BY <1>2, Constants
  <2>3. m * retryPeriod \in Nat /\ n * retryPeriod \in Nat
    BY <1>2, Constants
  <2> QED BY <1>1, <2>1, <2>2, <2>3, Constants
<1> QED BY <1>2, <1>3, <1>4

\* One period is within the deadline.
LEMMA OnePeriod == retryPeriod <= renewDeadline
<1>1. PICK m \in 1..renewDeadline : renewDeadline = m * retryPeriod
  BY MarginAssumption
<1>2. m \in Nat /\ m >= 1
  BY <1>1, Constants
<1>3. m * retryPeriod >= retryPeriod
  BY <1>2, Constants
<1> QED BY <1>1, <1>3

\* A leader's lease, or one just acquired, is too young for another pod.
LEMMA Untaken ==
    ASSUME NEW P \in PodType, NEW l \in Lease, NEW p \in Pods, NEW q \in Pods, q # p,
           Good(P, l, p), P.pc = "acquired" \/ (P.leader /\ P.pc \notin Shutting)
    PROVE  l.exists /\ l.holder = p /\ ~leaseExpired(l, q)
<1>1. l.exists /\ l.holder = p
  BY DEF Good, AcquiredGood, LeaderGood
<1>2. P.since \in 0..retryPeriod /\ P.since \in Nat /\ l.age \in Nat /\ P.since <= retryPeriod
  BY Constants DEF PodType, Lease
<1>3. l.age <= renewDeadline + 2 * retryPeriod
  <2>1. CASE P.pc \in {"acquired", "label"}
    <3>1. l.age <= P.since
      BY <2>1 DEF Good, AcquiredGood, LeaderGood, Shutting
    <3> QED BY <3>1, <1>2, Constants
  <2>2. CASE P.pc = "wait" \/ P.pc \in Ticking
    <3>1. \E n \in Nat : n * retryPeriod <= renewDeadline + retryPeriod /\ Tenure(P, l, n)
      <4>1. CASE P.pc = "wait"
        <5>1. PICK n \in Nat : n * retryPeriod <= renewDeadline /\ Tenure(P, l, n)
          BY <4>1 DEF Good, LeaderGood, Shutting, Within
        <5>2. n * retryPeriod \in Nat
          BY Constants
        <5> QED BY <5>1, <5>2, Constants
      <4>2. CASE P.pc \in Ticking
        BY <4>2 DEF Good, LeaderGood, Shutting, Within, Ticking
      <4> QED BY <2>2, <4>1, <4>2
    <3>2. PICK n \in Nat : n * retryPeriod <= renewDeadline + retryPeriod /\ Tenure(P, l, n)
      BY <3>1
    <3>3. n * retryPeriod \in Nat
      BY Constants
    <3> QED BY <1>2, <3>2, <3>3, Constants DEF Tenure
  <2> QED BY <2>1, <2>2 DEF Good, LeaderGood
<1>4. Ahead[p] \in Nat /\ Ahead[q] \in Nat
  BY ElectionAssumption
<1>5. renewDeadline + 2 * retryPeriod + Ahead[q] - Ahead[p] <= leaseDuration
  BY MarginAssumption
<1>6. ~(l.age + Ahead[q] - Ahead[p] > leaseDuration)
  BY <1>2, <1>3, <1>4, <1>5, Constants
<1> QED BY <1>1, <1>6 DEF leaseExpired

-----------------------------------------------------------------------------
(* One lemma per step *)

\* The ticker fires: one more period, noticed in full.
LEMMA TickGood ==
    ASSUME ElectionInv, NEW p \in Pods, tick(p)
    PROVE  ElectionInv'
<1> DEFINE P == pod[p]
           N == [P EXCEPT !.pc = "get", !.since = 0]
<1>1. P \in PodType /\ Good(P, lease, p) /\ lease \in Lease
      /\ label \in SUBSET Pods /\ faults \in 0..MaxFaults
  BY PodIsTyped
<1>2. /\ P.pc = "wait" /\ P.since = retryPeriod /\ Step(p, N)
      /\ lease' = lease /\ label' = label /\ faults' = faults
  BY DEF tick
<1>3. N \in PodType
  BY <1>1, Zero DEF PodType
<1>4. /\ N.pc = "get" /\ N.since = 0 /\ N.leader = P.leader /\ N.first = P.first
      /\ N.renewed = P.renewed
  BY <1>1 DEF PodType
<1>5. LeaderGood(N, lease, p)
  <2> SUFFICES ASSUME N.leader, N.pc \notin Shutting
               PROVE  /\ lease.exists /\ lease.holder = p /\ ~N.first
                      /\ Within(N, lease, renewDeadline + retryPeriod)
    BY <1>4 DEF LeaderGood, Ticking
  <2>1. /\ lease.exists /\ lease.holder = p /\ ~P.first
        /\ Within(P, lease, renewDeadline)
    BY <1>1, <1>2, <1>4 DEF Good, LeaderGood, Shutting
  <2>2. PICK n \in Nat : n * retryPeriod <= renewDeadline /\ Tenure(P, lease, n)
    BY <2>1 DEF Within
  <2>3. n * retryPeriod \in Nat /\ n + 1 \in Nat
        /\ (n + 1) * retryPeriod = n * retryPeriod + retryPeriod
    BY Constants
  <2>4. lease.age \in Nat /\ P.renewed \in Nat
    BY <1>1, Constants DEF Lease, PodType
  <2>5. (n + 1) * retryPeriod <= renewDeadline + retryPeriod /\ Tenure(N, lease, n + 1)
    BY <1>2, <1>4, <2>2, <2>3, <2>4, Constants DEF Tenure
  <2> QED BY <1>4, <2>1, <2>3, <2>5 DEF Within
<1>6. Good(N, lease, p)
  BY <1>4, <1>5 DEF Good, CopyGood, PutGood, AcquiredGood
<1> HIDE DEF P, N
<1> QED BY <1>1, <1>2, <1>3, <1>6, StepGood

\* A step inside a tick that keeps the times leaves the tenure as it is.
LEMMA SameTenure ==
    ASSUME NEW P, NEW N, NEW l, NEW b, Within(P, l, b),
           N.since = P.since, N.renewed = P.renewed
    PROVE  Within(N, l, b)
BY DEF Within, Tenure

\* Moving on within a tick, with a leader's part of the invariant kept.
LEMMA TickingGood ==
    ASSUME NEW P \in PodType, NEW N, NEW l, NEW p, LeaderGood(P, l, p),
           P.pc \in Ticking, N.pc \in Ticking, N.leader = P.leader, N.first = P.first,
           N.since = P.since, N.renewed = P.renewed
    PROVE  LeaderGood(N, l, p)
<1> SUFFICES ASSUME N.leader, N.pc \notin Shutting
             PROVE  /\ l.exists /\ l.holder = p /\ ~N.first
                    /\ Within(N, l, renewDeadline + retryPeriod)
  BY DEF LeaderGood, Ticking
<1>1. P.pc \notin Shutting
  BY DEF Shutting, Ticking
<1>2. l.exists /\ l.holder = p /\ ~P.first /\ Within(P, l, renewDeadline + retryPeriod)
  BY <1>1 DEF LeaderGood
<1> QED BY <1>2, SameTenure

\* Reading the lease.
LEMMA GetLeaseGood ==
    ASSUME ElectionInv, NEW p \in Pods, getLease(p)
    PROVE  ElectionInv'
<1> DEFINE P == pod[p]
           c == IF P.pc = "get" THEN "decide" ELSE "release"
           N == [P EXCEPT !.copy = lease, !.fresh = TRUE, !.pc = c]
<1>1. P \in PodType /\ Good(P, lease, p) /\ lease \in Lease
      /\ label \in SUBSET Pods /\ faults \in 0..MaxFaults
  BY PodIsTyped
<1>2. /\ P.pc \in {"get", "surrender"} /\ Step(p, N)
      /\ lease' = lease /\ label' = label /\ faults' = faults
  BY DEF getLease
<1>3. N \in PodType
  BY <1>1 DEF PodType
<1>4. /\ N.pc = c /\ N.since = P.since /\ N.leader = P.leader /\ N.first = P.first
      /\ N.renewed = P.renewed /\ N.copy = lease
  BY <1>1 DEF PodType
<1>5. LeaderGood(N, lease, p)
  <2>1. CASE P.pc = "get"
    BY <1>1, <1>4, <2>1, TickingGood DEF Good, Ticking
  <2>2. CASE P.pc = "surrender"
    BY <1>4, <2>2 DEF LeaderGood, Shutting
  <2> QED BY <1>2, <2>1, <2>2
<1>6. Good(N, lease, p)
  BY <1>4, <1>5 DEF Good, CopyGood, PutGood, AcquiredGood
<1> HIDE DEF P, N
<1> QED BY <1>1, <1>2, <1>3, <1>6, StepGood

\* Deciding on what was read.
LEMMA AttemptGood ==
    ASSUME ElectionInv, NEW p \in Pods, attempt(p)
    PROVE  ElectionInv'
<1> DEFINE P == pod[p]
           Go == [P EXCEPT !.pc = "put", !.stamp = 0, !.copy = NoLease]
           No == [P EXCEPT !.pc = "refused", !.copy = NoLease, !.fresh = FALSE]
<1>1. P \in PodType /\ Good(P, lease, p) /\ lease \in Lease
      /\ label \in SUBSET Pods /\ faults \in 0..MaxFaults
  BY PodIsTyped
<1>2. /\ P.pc = "decide"
      /\ lease' = lease /\ label' = label /\ faults' = faults
  BY DEF attempt
<1>3. CASE Step(p, Go) /\ (~P.copy.exists \/ P.copy.holder = p \/ leaseExpired(P.copy, p))
  <2>1. Go \in PodType
    BY <1>1, LoopType, Zero DEF PodType
  <2>2. /\ Go.pc = "put" /\ Go.stamp = 0 /\ Go.since = P.since /\ Go.leader = P.leader
        /\ Go.first = P.first /\ Go.renewed = P.renewed /\ Go.fresh = P.fresh
    BY <1>1 DEF PodType
  <2>3. P.since >= 0
    BY <1>1, Constants DEF PodType
  <2>4. PutGood(Go, lease, p)
    BY <1>1, <1>2, <1>3, <2>2, <2>3 DEF Good, CopyGood, PutGood
  <2>5. LeaderGood(Go, lease, p)
    BY <1>1, <1>2, <2>2, TickingGood DEF Good, Ticking
  <2>6. Good(Go, lease, p)
    BY <2>2, <2>4, <2>5 DEF Good, CopyGood, AcquiredGood
  <2> HIDE DEF P, Go
  <2> QED BY <1>1, <1>2, <1>3, <2>1, <2>6, StepGood
<1>4. CASE Step(p, No)
  <2>1. No \in PodType
    BY <1>1, LoopType DEF PodType
  <2>2. /\ No.pc = "refused" /\ No.since = P.since /\ No.leader = P.leader
        /\ No.first = P.first /\ No.renewed = P.renewed
    BY <1>1 DEF PodType
  <2>3. LeaderGood(No, lease, p)
    BY <1>1, <1>2, <2>2, TickingGood DEF Good, Ticking
  <2>4. Good(No, lease, p)
    BY <2>2, <2>3 DEF Good, CopyGood, PutGood, AcquiredGood
  <2> HIDE DEF P, No
  <2> QED BY <1>1, <1>2, <1>4, <2>1, <2>4, StepGood
<1> QED BY <1>3, <1>4 DEF attempt

\* The API server stores an update of p: all other copies are out of date, and
\* nobody else was the leader or about to be.
LEMMA StoredGood ==
    ASSUME ElectionInv, NEW p \in Pods, NEW l \in Lease, NEW c,
           [pod[p] EXCEPT !.pc = c, !.fresh = FALSE, !.stamp = 0] \in PodType,
           Good([pod[p] EXCEPT !.pc = c, !.fresh = FALSE, !.stamp = 0], l, p),
           \A q \in Pods \ {p} : ~(pod[q].pc = "acquired"
                                   \/ (pod[q].leader /\ pod[q].pc \notin Shutting)),
           Stored(p, l, c), label' = label, faults' = faults
    PROVE  ElectionInv'
<1> DEFINE N == [pod[p] EXCEPT !.pc = c, !.fresh = FALSE, !.stamp = 0]
           S(q) == [pod[q] EXCEPT !.fresh = FALSE]
<1>1. lease' = l /\ pod' = [q \in Pods |-> IF q = p THEN N ELSE S(q)]
  BY DEF Stored
<1>2. pod'[p] = N /\ \A q \in Pods \ {p} : pod'[q] = S(q)
  BY <1>1
<1>3. ASSUME NEW q \in Pods \ {p} PROVE S(q) \in PodType /\ Good(S(q), l, q)
  <2>1. pod[q] \in PodType /\ Good(pod[q], lease, q)
    BY PodIsTyped
  <2>2. S(q) \in PodType
    BY <2>1 DEF PodType
  <2>3. /\ S(q).pc = pod[q].pc /\ S(q).leader = pod[q].leader /\ ~S(q).fresh
        /\ S(q).stamp = pod[q].stamp /\ S(q).since = pod[q].since
    BY <2>1 DEF PodType
  <2> HIDE DEF S
  <2>4. CopyGood(S(q), l) /\ AcquiredGood(S(q), l, q) /\ LeaderGood(S(q), l, q)
    BY <2>3 DEF CopyGood, AcquiredGood, LeaderGood
  <2>5. PutGood(S(q), l, q)
    BY <2>1, <2>3 DEF PutGood, Good
  <2> QED BY <2>2, <2>4, <2>5 DEF Good
<1>4. N \in PodType /\ Good(N, l, p)
  OBVIOUS
<1> HIDE DEF N, S
<1>5. \A q \in Pods : pod'[q] \in PodType /\ Good(pod'[q], lease', q)
  BY <1>1, <1>2, <1>3, <1>4
<1>6. pod' \in [Pods -> PodType]
  BY <1>1, <1>5
<1>7. label \in SUBSET Pods /\ faults \in 0..MaxFaults
  BY PodIsTyped
<1>8. TypeOK'
  BY <1>1, <1>6, <1>7 DEF TypeOK, PodType
<1> QED BY <1>5, <1>8 DEF ElectionInv

\* An update that is accepted: nobody else leads, and the lease is young.
LEMMA UpdateGood ==
    ASSUME ElectionInv, NEW p \in Pods, updateLease(p) \/ updateLost(p)
    PROVE  ElectionInv'
<1> DEFINE P == pod[p]
           l == [exists |-> TRUE, holder |-> p, age |-> P.stamp]
<1>1. P \in PodType /\ Good(P, lease, p) /\ lease \in Lease
  BY PodIsTyped
<1>2. P.pc = "put" /\ P.fresh /\ label' = label /\ faults' = faults
  BY DEF updateLease, updateLost, Accepts
<1>3. PICK c \in {"acquired", "failed"} : Stored(p, l, c)
  BY DEF updateLease, updateLost
<1> DEFINE N == [P EXCEPT !.pc = c, !.fresh = FALSE, !.stamp = 0]
<1>4. l \in Lease /\ l.exists /\ l.holder = p /\ l.age = P.stamp
  BY <1>1 DEF Lease, PodType
<1>5. N \in PodType
  BY <1>1, Zero DEF PodType
<1>6. /\ N.pc = c /\ N.since = P.since /\ N.leader = P.leader /\ N.first = P.first
      /\ N.renewed = P.renewed /\ ~N.fresh
  BY <1>1 DEF PodType
<1>7. P.stamp <= P.since /\ (~lease.exists \/ lease.holder = p \/ leaseExpired(lease, p))
  BY <1>1, <1>2 DEF Good, PutGood
<1>8. ASSUME NEW q \in Pods \ {p}
      PROVE  ~(pod[q].pc = "acquired" \/ (pod[q].leader /\ pod[q].pc \notin Shutting))
  <2>1. pod[q] \in PodType /\ Good(pod[q], lease, q)
    BY PodIsTyped
  <2> QED BY <1>1, <1>7, <2>1, Untaken
<1>9. LeaderGood(N, l, p)
  <2> SUFFICES ASSUME N.leader, N.pc \notin Shutting, c = "failed"
               PROVE  ~N.first /\ Within(N, l, renewDeadline + retryPeriod)
    BY <1>3, <1>4, <1>6 DEF LeaderGood, Ticking
  <2>1. lease.exists /\ ~P.first /\ Within(P, lease, renewDeadline + retryPeriod)
    BY <1>1, <1>2, <1>6 DEF Good, LeaderGood, Ticking, Shutting
  <2>2. PICK n \in Nat : n * retryPeriod <= renewDeadline + retryPeriod /\ Tenure(P, lease, n)
    BY <2>1 DEF Within
  <2>3. n * retryPeriod \in Nat /\ P.since \in Nat /\ P.stamp \in Nat
    BY <1>1, Constants DEF PodType
  <2>4. Tenure(N, l, n)
    BY <1>4, <1>6, <1>7, <2>2, <2>3 DEF Tenure
  <2> QED BY <1>6, <2>1, <2>2, <2>4 DEF Within
<1>10. Good(N, l, p)
  BY <1>3, <1>4, <1>6, <1>7, <1>9 DEF Good, CopyGood, PutGood, AcquiredGood
<1>11. Stored(p, l, c) /\ label' = label /\ faults' = faults
  BY <1>2, <1>3
<1> QED BY <1>4, <1>5, <1>8, <1>10, <1>11, StoredGood

\* A conflict or a failed call ends the tick's call; the times are as before.
LEMMA FailureGood ==
    ASSUME ElectionInv, NEW p \in Pods, conflict(p) \/ callFails(p)
    PROVE  ElectionInv'
<1> DEFINE P == pod[p]
<1>1. P \in PodType /\ Good(P, lease, p) /\ lease \in Lease
      /\ label \in SUBSET Pods /\ faults \in 0..MaxFaults
  BY PodIsTyped
<1>2. /\ P.pc \in {"get", "put"}
      /\ lease' = lease /\ label' = label /\ faults' = faults
  BY DEF conflict, callFails
<1>3. PICK c \in {"refused", "failed"}, f \in {P.fresh, FALSE} :
          Step(p, [P EXCEPT !.pc = c, !.fresh = f, !.stamp = 0])
  <2>1. CASE conflict(p)
    <3>1. [P EXCEPT !.pc = "refused", !.stamp = 0]
            = [P EXCEPT !.pc = "refused", !.fresh = P.fresh, !.stamp = 0]
      BY <1>1 DEF PodType
    <3> QED BY <2>1, <3>1 DEF conflict
  <2>2. CASE callFails(p)
    BY <2>2 DEF callFails
  <2> QED BY <2>1, <2>2
<1> DEFINE N == [P EXCEPT !.pc = c, !.fresh = f, !.stamp = 0]
<1>4. f \in BOOLEAN
  BY <1>1, <1>3 DEF PodType
<1>5. N \in PodType
  BY <1>1, <1>3, <1>4, Zero DEF PodType
<1>6. /\ N.pc = c /\ N.since = P.since /\ N.leader = P.leader /\ N.first = P.first
      /\ N.renewed = P.renewed
  BY <1>1 DEF PodType
<1>7. Step(p, N)
  BY <1>3
<1> HIDE DEF P, N
<1>8. LeaderGood(N, lease, p)
  BY <1>1, <1>2, <1>3, <1>6, TickingGood DEF Good, Ticking
<1>9. Good(N, lease, p)
  BY <1>3, <1>6, <1>8 DEF Good, CopyGood, PutGood, AcquiredGood
<1> QED BY <1>1, <1>2, <1>5, <1>7, <1>9, StepGood

\* The end of a tick: the leader's lease was renewed in it, or the last renewal
\* is within the deadline.
LEMMA EndGood ==
    ASSUME NEW P \in PodType, NEW l \in Lease, NEW p \in Pods,
           P.leader => /\ l.exists /\ l.holder = p
                       /\ \/ l.age <= P.since
                          \/ /\ ~P.first /\ P.renewed < renewDeadline
                             /\ Within(P, l, renewDeadline + retryPeriod)
    PROVE  Good(End(P), l, p)
<1> DEFINE N == End(P)
<1>1. /\ N \in PodType /\ N.pc = "wait" /\ N.first = FALSE /\ N.leader = P.leader
      /\ N.since = IF P.first THEN 0 ELSE P.since
      /\ P.leader => N.renewed = P.renewed
  BY EndType
<1> HIDE DEF N
<1>2. /\ P.since \in Nat /\ P.since <= retryPeriod /\ P.renewed \in Nat /\ l.age \in Nat
  BY Constants DEF PodType, Lease
<1>3. ASSUME P.leader PROVE Within(N, l, renewDeadline)
  <2>1. CASE l.age <= P.since /\ P.first
    <3>1. 1 * retryPeriod = retryPeriod /\ 1 \in Nat
      BY Constants
    <3>2. Tenure(N, l, 1) /\ 1 * retryPeriod <= renewDeadline
      BY <1>1, <1>2, <1>3, <2>1, <3>1, OnePeriod, Constants DEF Tenure
    <3> QED BY <3>1, <3>2 DEF Within
  <2>2. CASE l.age <= P.since /\ ~P.first
    <3>1. 0 * retryPeriod = 0 /\ 0 \in Nat
      BY Constants
    <3>2. Tenure(N, l, 0) /\ 0 * retryPeriod <= renewDeadline
      BY <1>1, <1>2, <1>3, <2>2, <3>1, Constants DEF Tenure
    <3> QED BY <3>1, <3>2 DEF Within
  <2>3. CASE ~P.first /\ P.renewed < renewDeadline /\ Within(P, l, renewDeadline + retryPeriod)
    <3>1. PICK n \in Nat : n * retryPeriod <= renewDeadline + retryPeriod /\ Tenure(P, l, n)
      BY <2>3 DEF Within
    <3>2. n * retryPeriod \in Nat
      BY Constants
    <3>3. n * retryPeriod < renewDeadline + retryPeriod
      BY <1>2, <2>3, <3>1, <3>2, Constants DEF Tenure
    <3>4. n * retryPeriod <= renewDeadline
      BY <3>3, Multiples
    <3>5. Tenure(N, l, n)
      BY <1>1, <1>3, <2>3, <3>1 DEF Tenure
    <3> QED BY <3>4, <3>5 DEF Within
  <2> QED BY <1>3, <2>1, <2>2, <2>3
<1>4. LeaderGood(N, l, p)
  BY <1>1, <1>3 DEF LeaderGood, Ticking
<1>5. Good(N, l, p)
  BY <1>1, <1>4 DEF Good, CopyGood, PutGood, AcquiredGood
<1> QED BY <1>5 DEF N

\* What a tick makes of its outcome.
LEMMA OutcomeGood ==
    ASSUME ElectionInv, NEW p \in Pods, outcome(p)
    PROVE  ElectionInv'
<1> DEFINE P == pod[p]
<1>1. P \in PodType /\ Good(P, lease, p) /\ lease \in Lease
      /\ label \in SUBSET Pods /\ faults \in 0..MaxFaults
  BY PodIsTyped
<1>2. /\ P.pc \in {"acquired", "refused", "failed"}
      /\ lease' = lease /\ label' = label /\ faults' = faults
  BY DEF outcome
<1>3. CASE P.pc = "acquired" /\ P.leader /\ Step(p, End([P EXCEPT !.renewed = 0]))
  <2> DEFINE N == [P EXCEPT !.renewed = 0]
  <2>1. N \in PodType
    BY <1>1, Zero DEF PodType
  <2>2. N.since = P.since
    BY <1>1 DEF PodType
  <2>3. lease.exists /\ lease.holder = p /\ lease.age <= P.since
    BY <1>1, <1>3 DEF Good, AcquiredGood
  <2>4. Step(p, End(N))
    BY <1>3
  <2> HIDE DEF N, P
  <2>5. Good(End(N), lease, p) /\ End(N) \in PodType
    BY <1>1, <2>1, <2>2, <2>3, EndGood, EndType
  <2> QED BY <1>1, <1>2, <2>4, <2>5, StepGood
<1>4. CASE P.pc = "acquired" /\ Step(p, [P EXCEPT !.renewed = 0, !.leader = TRUE, !.pc = "label"])
  <2> DEFINE N == [P EXCEPT !.renewed = 0, !.leader = TRUE, !.pc = "label"]
  <2>1. N \in PodType
    BY <1>1, Zero DEF PodType
  <2>2. N.since = P.since /\ N.pc = "label"
    BY <1>1 DEF PodType
  <2>3. lease.exists /\ lease.holder = p /\ lease.age <= P.since
    BY <1>1, <1>4 DEF Good, AcquiredGood
  <2>4. Step(p, N)
    BY <1>4
  <2> HIDE DEF N, P
  <2>5. Good(N, lease, p)
    BY <2>2, <2>3 DEF Good, CopyGood, PutGood, AcquiredGood, LeaderGood, Ticking
  <2> QED BY <1>1, <1>2, <2>1, <2>4, <2>5, StepGood
<1>5. CASE P.pc # "acquired" /\ (~P.leader \/ withinGrace(P)) /\ Step(p, End(P))
  <2>1. P.leader => /\ lease.exists /\ lease.holder = p
                    /\ ~P.first /\ P.renewed < renewDeadline
                    /\ Within(P, lease, renewDeadline + retryPeriod)
    BY <1>1, <1>2, <1>5 DEF Good, LeaderGood, Ticking, Shutting, withinGrace
  <2> HIDE DEF P
  <2>2. Good(End(P), lease, p) /\ End(P) \in PodType
    BY <1>1, <2>1, EndGood, EndType
  <2> QED BY <1>1, <1>2, <1>5, <2>2, StepGood
<1>6. CASE Step(p, [P EXCEPT !.leader = FALSE, !.pc = "label"])
  <2> DEFINE N == [P EXCEPT !.leader = FALSE, !.pc = "label"]
  <2>1. N \in PodType
    BY <1>1 DEF PodType
  <2>2. N.leader = FALSE /\ N.pc = "label"
    BY <1>1 DEF PodType
  <2>3. Step(p, N)
    BY <1>6
  <2> HIDE DEF N, P
  <2>4. Good(N, lease, p)
    BY <2>2 DEF Good, CopyGood, PutGood, AcquiredGood, LeaderGood
  <2> QED BY <1>1, <1>2, <2>1, <2>3, <2>4, StepGood
<1> QED BY <1>3, <1>4, <1>5, <1>6 DEF outcome

\* The label is set or not; the tick ends either way.
LEMMA LabelGood ==
    ASSUME ElectionInv, NEW p \in Pods, setLeaderLabel(p) \/ labelFails(p)
    PROVE  ElectionInv'
<1> DEFINE P == pod[p]
<1>1. P \in PodType /\ Good(P, lease, p) /\ lease \in Lease
      /\ label \in SUBSET Pods /\ faults \in 0..MaxFaults
  BY PodIsTyped
<1>2. P.pc = "label" /\ lease' = lease /\ faults' = faults /\ Step(p, End(P))
  BY DEF setLeaderLabel, labelFails
<1>3. label' \in SUBSET Pods
  BY <1>1 DEF setLeaderLabel, labelFails
<1>4. P.leader => lease.exists /\ lease.holder = p /\ lease.age <= P.since
  BY <1>1, <1>2 DEF Good, LeaderGood, Shutting
<1> HIDE DEF P
<1>5. Good(End(P), lease, p) /\ End(P) \in PodType
  BY <1>1, <1>4, EndGood, EndType
<1> QED BY <1>1, <1>2, <1>3, <1>5, StepGood

\* A pod that shuts down, is down or starts again claims nothing.
LEMMA IdleGood ==
    ASSUME NEW P, NEW l, NEW p, P.pc \in {"surrender", "unlabel", "stopped", "down", "get"},
           P.pc \notin Shutting => ~P.leader
    PROVE  Good(P, l, p)
BY DEF Good, CopyGood, PutGood, AcquiredGood, LeaderGood

\* Stopping, crashing and starting, with the lease as it is.
LEMMA LifeGood ==
    ASSUME ElectionInv, NEW p \in Pods,
           Stop(p) \/ surrenderFails(p) \/ stopped(p) \/ Crash(p) \/ Restart(p)
    PROVE  ElectionInv'
<1> DEFINE P == pod[p]
<1>1. P \in PodType /\ Good(P, lease, p) /\ lease \in Lease
      /\ label \in SUBSET Pods /\ faults \in 0..MaxFaults
  BY PodIsTyped
<1>2. lease' = lease /\ label' \in SUBSET Pods
  BY <1>1 DEF Stop, surrenderFails, stopped, Crash, Restart
<1>3. faults' \in 0..MaxFaults
  BY <1>1, Constants DEF Stop, surrenderFails, stopped, Crash, Restart
<1>4. CASE Step(p, Loop)
  <2>1. Loop \in PodType /\ Loop.pc = "get" /\ ~Loop.leader
    BY LoopType DEF Loop
  <2>2. Good(Loop, lease, p)
    BY <2>1, IdleGood
  <2> QED BY <1>2, <1>3, <1>4, <2>1, <2>2, StepGood
<1>5. ASSUME NEW c \in {"stopped", "down"}, Step(p, [Loop EXCEPT !.pc = c])
      PROVE  ElectionInv'
  <2> DEFINE N == [Loop EXCEPT !.pc = c]
  <2>1. N \in PodType /\ N.pc = c /\ ~N.leader
    BY LoopType DEF Loop
  <2>2. Step(p, N)
    BY <1>5
  <2> HIDE DEF N
  <2>3. Good(N, lease, p)
    BY <2>1, IdleGood
  <2> QED BY <1>2, <1>3, <2>1, <2>2, <2>3, StepGood
<1>6. CASE Step(p, [P EXCEPT !.pc = "surrender", !.since = 0])
  <2> DEFINE N == [P EXCEPT !.pc = "surrender", !.since = 0]
  <2>1. N \in PodType /\ N.pc = "surrender"
    BY <1>1, Zero DEF PodType
  <2>2. Step(p, N)
    BY <1>6
  <2> HIDE DEF N
  <2>3. Good(N, lease, p)
    BY <2>1, IdleGood DEF Shutting
  <2> QED BY <1>2, <1>3, <2>1, <2>2, <2>3, StepGood
<1>7. CASE Step(p, [P EXCEPT !.pc = "unlabel", !.fresh = FALSE])
  <2> DEFINE N == [P EXCEPT !.pc = "unlabel", !.fresh = FALSE]
  <2>1. N \in PodType /\ N.pc = "unlabel"
    BY <1>1 DEF PodType
  <2>2. Step(p, N)
    BY <1>7
  <2> HIDE DEF N
  <2>3. Good(N, lease, p)
    BY <2>1, IdleGood DEF Shutting
  <2> QED BY <1>2, <1>3, <2>1, <2>2, <2>3, StepGood
<1> QED BY <1>4, <1>5, <1>6, <1>7 DEF Stop, surrenderFails, stopped, Crash, Restart

\* Surrender empties the pod's own lease, or changes nothing.
LEMMA SurrenderGood ==
    ASSUME ElectionInv, NEW p \in Pods, surrender(p)
    PROVE  ElectionInv'
<1> DEFINE P == pod[p]
           l == [exists |-> TRUE, holder |-> Nobody, age |-> Old]
<1>1. P \in PodType /\ Good(P, lease, p) /\ lease \in Lease
      /\ label \in SUBSET Pods /\ faults \in 0..MaxFaults
  BY PodIsTyped
<1>2. P.pc = "release" /\ label' = label /\ faults' = faults
  BY DEF surrender
<1>3. CASE P.copy.holder = p /\ P.fresh
  <2> DEFINE N == [P EXCEPT !.pc = "unlabel", !.fresh = FALSE, !.stamp = 0]
  <2>1. Stored(p, l, "unlabel")
    BY <1>3 DEF surrender
  <2>2. lease.holder = p
    BY <1>1, <1>2, <1>3 DEF Good, CopyGood
  <2>3. l \in Lease
    BY Zero DEF Lease
  <2>4. N \in PodType
    BY <1>1, Zero DEF PodType
  <2>5. N.pc = "unlabel"
    BY <1>1 DEF PodType
  <2>6. Good(N, l, p)
    <3> HIDE DEF N, l
    <3> QED BY <2>5, IdleGood DEF Shutting
  <2>7. ASSUME NEW q \in Pods \ {p}
        PROVE  ~(pod[q].pc = "acquired" \/ (pod[q].leader /\ pod[q].pc \notin Shutting))
    <3>1. Good(pod[q], lease, q)
      BY PodIsTyped
    <3> QED BY <2>2, <3>1 DEF Good, AcquiredGood, LeaderGood
  <2> QED BY <1>2, <2>1, <2>3, <2>4, <2>6, <2>7, StoredGood
<1>4. CASE ~(P.copy.holder = p /\ P.fresh)
  <2> DEFINE N == [P EXCEPT !.pc = "unlabel", !.fresh = FALSE]
  <2>1. N \in PodType /\ N.pc = "unlabel"
    BY <1>1 DEF PodType
  <2>2. Step(p, N) /\ lease' = lease
    BY <1>4 DEF surrender
  <2> HIDE DEF N
  <2>3. Good(N, lease, p)
    BY <2>1, IdleGood DEF Shutting
  <2> QED BY <1>1, <1>2, <2>1, <2>2, <2>3, StepGood
<1> QED BY <1>3, <1>4

-----------------------------------------------------------------------------
(* Time *)

\* A lease that has expired for a pod stays so as it grows older.
LEMMA ExpiredLater ==
    ASSUME NEW l \in Lease, NEW m \in Lease, NEW p \in Pods,
           m.holder = l.holder, m.age >= l.age, leaseExpired(l, p)
    PROVE  leaseExpired(m, p)
<1> SUFFICES ASSUME l.holder \in Pods
             PROVE  m.age + Ahead[p] - Ahead[l.holder] > leaseDuration
  BY DEF leaseExpired
<1>1. l.age + Ahead[p] - Ahead[l.holder] > leaseDuration
  BY DEF leaseExpired
<1>2. l.age \in Nat /\ m.age \in Nat /\ Ahead[p] \in Nat /\ Ahead[l.holder] \in Nat
  BY Constants, ElectionAssumption DEF Lease
<1> QED BY <1>1, <1>2, Constants

\* A unit of time is covered by the margin: lease, tick and last renewal grow old
\* together, and an age at the cap is above what a leader can reach.
LEMMA AgeTenure ==
    ASSUME NEW P \in PodType, NEW N \in PodType, NEW l \in Lease, NEW m \in Lease,
           NEW p \in Pods, NEW b \in Nat, b <= renewDeadline + retryPeriod,
           P.since < retryPeriod, N.since = P.since + 1, N.renewed = Older(P.renewed),
           m.age <= l.age + 1, Within(P, l, b)
    PROVE  Within(N, m, b)
<1>1. PICK n \in Nat : n * retryPeriod <= b /\ Tenure(P, l, n)
  BY DEF Within
<1>2. n * retryPeriod \in Nat
  BY Constants
<1>3. P.since \in Nat /\ P.renewed \in Ages /\ P.renewed \in Nat /\ l.age \in Nat /\ m.age \in Nat
  BY Constants DEF PodType, Lease
<1>4. Older(P.renewed) = P.renewed + 1 \/ Older(P.renewed) = Old
  BY <1>3, OlderType
<1>5. renewDeadline + 2 * retryPeriod <= leaseDuration
  <2>1. renewDeadline + 2 * retryPeriod + Ahead[p] - Ahead[p] <= leaseDuration
    BY MarginAssumption
  <2>2. Ahead[p] \in Nat
    BY ElectionAssumption
  <2> QED BY <2>1, <2>2, Constants
<1> DEFINE k == n * retryPeriod
<1>6. /\ k \in Nat /\ k <= b
      /\ l.age <= k + P.since /\ k + P.since <= P.renewed + retryPeriod
  BY <1>1, <1>2 DEF Tenure
<1>7. m.age <= k + N.since /\ k + N.since <= N.renewed + retryPeriod
  <2> HIDE DEF k
  <2>1. m.age <= k + N.since
    BY <1>3, <1>6
  <2>2. CASE N.renewed = P.renewed + 1
    BY <1>3, <1>6, <2>1, <2>2, Constants
  <2>3. CASE N.renewed = Old
    BY <1>3, <1>5, <1>6, <2>1, <2>3, Constants
  <2> QED BY <1>4, <2>1, <2>2, <2>3
<1>8. Tenure(N, m, n)
  BY <1>7 DEF Tenure
<1> QED BY <1>1, <1>8 DEF Within

\* Time passes for everyone.
LEMMA TimeGood ==
    ASSUME ElectionInv, Time
    PROVE  ElectionInv'
<1> DEFINE m == Aged(lease)
           s(p) == IF Down(p) THEN pod[p].since ELSE pod[p].since + 1
           t(p) == IF pod[p].pc = "put" THEN Older(pod[p].stamp) ELSE pod[p].stamp
           c(p) == Aged(pod[p].copy)
           N(p) == [pod[p] EXCEPT !.since = s(p), !.renewed = Older(pod[p].renewed),
                                  !.stamp = t(p), !.copy = c(p)]
<1>1. lease \in Lease /\ label \in SUBSET Pods /\ faults \in 0..MaxFaults
  BY DEF ElectionInv, TypeOK
<1>2. /\ lease' = m /\ label' = label /\ faults' = faults
      /\ pod' = [p \in Pods |-> N(p)]
      /\ \A p \in Pods : Down(p) \/ pod[p].since < retryPeriod
  <2>1. lease' = m /\ label' = label /\ faults' = faults
    BY DEF Time
  <2>2. pod' = [p \in Pods |-> N(p)]
    BY DEF Time
  <2>3. \A p \in Pods : Down(p) \/ pod[p].since < retryPeriod
    BY DEF Time
  <2> QED BY <2>1, <2>2, <2>3
<1>3. lease.age \in Ages
  BY <1>1 DEF Lease
<1>4. Older(lease.age) \in Ages /\ Older(lease.age) >= lease.age /\ Older(lease.age) <= lease.age + 1
  BY <1>3, OlderType
<1>5. /\ m \in Lease /\ m.exists = lease.exists /\ m.holder = lease.holder
      /\ m.age = Older(lease.age)
  BY <1>1, <1>4 DEF Lease, Aged
<1>6. ASSUME NEW p \in Pods PROVE N(p) \in PodType /\ Good(N(p), m, p)
  <2> DEFINE P == pod[p]
  <2>1. P \in PodType /\ Good(P, lease, p)
    BY PodIsTyped
  <2>2. P.renewed \in Ages /\ P.stamp \in Ages /\ P.since \in 0..retryPeriod /\ P.copy \in Lease
    BY <2>1 DEF PodType
  <2>3. Older(P.renewed) \in Ages /\ Older(P.stamp) \in Ages /\ Older(P.stamp) <= P.stamp + 1
    BY <2>2, OlderType
  <2>4. s(p) \in 0..retryPeriod
    <3>1. CASE Down(p)
      BY <2>2, <3>1
    <3>2. CASE ~Down(p)
      <4>1. s(p) = P.since + 1 /\ P.since < retryPeriod
        BY <1>2, <3>2
      <4> QED BY <2>2, <4>1, Constants
    <3> QED BY <3>1, <3>2
  <2>5. t(p) \in Ages
    BY <2>2, <2>3
  <2>6. c(p) \in Lease
    <3>1. P.copy.age \in Ages
      BY <2>2 DEF Lease
    <3>2. Older(P.copy.age) \in Ages
      BY <3>1, OlderType
    <3> QED BY <2>2, <3>2 DEF Lease, Aged
  <2>7. /\ (P.copy = lease => c(p) = m) /\ (P.pc = "put" => t(p) = Older(P.stamp))
        /\ (~Down(p) => s(p) = P.since + 1 /\ P.since < retryPeriod)
    BY <1>2
  <2> HIDE DEF s, t, c
  <2>8. N(p) \in PodType
    BY <2>1, <2>3, <2>4, <2>5, <2>6 DEF PodType
  <2>9. /\ N(p).pc = P.pc /\ N(p).leader = P.leader /\ N(p).first = P.first
        /\ N(p).fresh = P.fresh /\ N(p).since = s(p) /\ N(p).stamp = t(p)
        /\ N(p).copy = c(p) /\ N(p).renewed = Older(P.renewed)
    BY <2>1 DEF PodType
  <2> HIDE DEF N, m
  <2>10. CopyGood(N(p), m)
    BY <2>1, <2>7, <2>9 DEF Good, CopyGood
  <2>11. P.since \in Nat /\ P.stamp \in Nat /\ lease.age \in Nat
    BY <1>3, <2>2, Constants
  <2>12. PutGood(N(p), m, p)
    <3> SUFFICES ASSUME P.pc = "put"
                 PROVE  /\ t(p) <= s(p)
                        /\ P.fresh => (~m.exists \/ m.holder = p \/ leaseExpired(m, p))
      BY <2>9 DEF PutGood
    <3>1. P.stamp <= P.since /\ (P.fresh => (~lease.exists \/ lease.holder = p \/ leaseExpired(lease, p)))
      BY <2>1 DEF Good, PutGood
    <3>2. t(p) = Older(P.stamp) /\ s(p) = P.since + 1
      BY <2>7 DEF Down
    <3>3. t(p) <= s(p)
      BY <2>2, <2>3, <2>11, <3>1, <3>2, Constants
    <3>4. P.fresh => (~m.exists \/ m.holder = p \/ leaseExpired(m, p))
      BY <1>1, <1>4, <1>5, <3>1, ExpiredLater
    <3> QED BY <3>3, <3>4
  <2>13. ASSUME P.pc \in {"acquired", "label"}, lease.age <= P.since
         PROVE  m.age <= s(p)
    <3>1. s(p) = P.since + 1
      BY <2>7, <2>13 DEF Down
    <3>2. Older(lease.age) \in Nat
      BY <1>4, Constants
    <3> QED BY <1>4, <1>5, <2>11, <2>13, <3>1, <3>2
  <2>14. AcquiredGood(N(p), m, p)
    BY <1>5, <2>1, <2>9, <2>13 DEF Good, AcquiredGood
  <2>15. LeaderGood(N(p), m, p)
    <3> SUFFICES ASSUME P.leader, P.pc \notin Shutting
                 PROVE  LeaderGood(N(p), m, p)
      BY <2>9 DEF LeaderGood
    <3>1. /\ lease.exists /\ lease.holder = p
          /\ P.pc \in Ticking \cup {"acquired", "label", "wait"}
          /\ P.pc = "label" => lease.age <= P.since
          /\ P.pc = "wait" => (~P.first /\ Within(P, lease, renewDeadline))
          /\ P.pc \in Ticking => (~P.first /\ Within(P, lease, renewDeadline + retryPeriod))
      BY <2>1 DEF Good, LeaderGood
    <3>2. N(p).since = P.since + 1 /\ P.since < retryPeriod
      BY <2>7, <2>9, <3>1 DEF Down, Ticking
    <3>3. m.age <= lease.age + 1
      BY <1>4, <1>5
    <3>4. /\ renewDeadline \in Nat /\ renewDeadline + retryPeriod \in Nat
          /\ renewDeadline <= renewDeadline + retryPeriod
          /\ renewDeadline + retryPeriod <= renewDeadline + retryPeriod
      BY Constants
    <3>5. P.pc = "wait" => Within(N(p), m, renewDeadline)
      BY <1>1, <1>5, <2>1, <2>8, <2>9, <3>1, <3>2, <3>3, <3>4, AgeTenure
    <3>6. P.pc \in Ticking => Within(N(p), m, renewDeadline + retryPeriod)
      BY <1>1, <1>5, <2>1, <2>8, <2>9, <3>1, <3>2, <3>3, <3>4, AgeTenure
    <3>7. P.pc = "label" => m.age <= N(p).since
      BY <2>9, <2>13, <3>1
    <3> QED BY <1>5, <2>9, <3>1, <3>5, <3>6, <3>7 DEF LeaderGood
  <2> QED BY <2>8, <2>10, <2>12, <2>14, <2>15 DEF Good
<1> HIDE DEF N, m
<1>7. \A p \in Pods : pod'[p] \in PodType /\ Good(pod'[p], lease', p)
  BY <1>2, <1>6
<1>8. pod' \in [Pods -> PodType]
  BY <1>2, <1>6
<1>9. TypeOK'
  BY <1>1, <1>2, <1>5, <1>8 DEF TypeOK, PodType
<1> QED BY <1>7, <1>9 DEF ElectionInv

-----------------------------------------------------------------------------

\* The invariant holds at the start ...
LEMMA InitGood == Init => ElectionInv
<1> SUFFICES ASSUME Init PROVE ElectionInv
  OBVIOUS
<1>1. TypeOK
  BY LoopType, Constants DEF Init, TypeOK, PodType
<1>2. Loop.pc = "get" /\ ~Loop.leader
  BY DEF Loop
<1>3. ASSUME NEW p \in Pods PROVE Good(pod[p], lease, p)
  <2>1. pod[p] = Loop
    BY DEF Init
  <2>2. Good(Loop, lease, p)
    BY <1>2, IdleGood
  <2> QED BY <2>1, <2>2
<1> QED BY <1>1, <1>3 DEF ElectionInv

\* ... and every step of a pod, of the API server and of time keeps it.
LEMMA NextGood == ElectionInv /\ [Next]_vars => ElectionInv'
<1> SUFFICES ASSUME ElectionInv, [Next]_vars PROVE ElectionInv'
  OBVIOUS
<1>1. CASE Time
  BY <1>1, TimeGood
<1>2. ASSUME NEW p \in Pods, PodStep(p) PROVE ElectionInv'
  <2>1. CASE tick(p) \/ getLease(p) \/ attempt(p)
    BY <2>1, TickGood, GetLeaseGood, AttemptGood
  <2>2. CASE updateLease(p) \/ updateLost(p)
    BY <2>2, UpdateGood
  <2>3. CASE conflict(p) \/ callFails(p)
    BY <2>3, FailureGood
  <2>4. CASE outcome(p)
    BY <2>4, OutcomeGood
  <2>5. CASE setLeaderLabel(p) \/ labelFails(p)
    BY <2>5, LabelGood
  <2>6. CASE Stop(p) \/ surrenderFails(p) \/ stopped(p) \/ Crash(p) \/ Restart(p)
    BY <2>6, LifeGood
  <2>7. CASE surrender(p)
    BY <2>7, SurrenderGood
  <2> QED BY <1>2, <2>1, <2>2, <2>3, <2>4, <2>5, <2>6, <2>7 DEF PodStep
<1>3. CASE UNCHANGED vars
  BY <1>3 DEF vars, ElectionInv, TypeOK
<1> QED BY <1>1, <1>2, <1>3 DEF Next

\* Types are kept by every step of the election loop, whatever the constants.
THEOREM ElectionTypeCorrect == Spec => []TypeOK
<1>1. ElectionInv => TypeOK
  BY DEF ElectionInv
<1> QED BY <1>1, InitGood, NextGood, PTL DEF Spec

\* However many pods run the election loop, and whatever calls fail or lose their
\* answers, two pods never believe to be the leader at once, if leaseDuration is
\* at least renewDeadline, two ticks and the difference of the clocks.
THEOREM OneLeader == Spec => []AtMostOneLeader
<1>1. ElectionInv => AtMostOneLeader
  BY DEF ElectionInv, Good, LeaderGood, Shutting, AtMostOneLeader, Leading
<1> QED BY <1>1, InitGood, NextGood, PTL DEF Spec

=============================================================================
