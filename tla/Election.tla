------------------------------ MODULE Election ------------------------------
(***************************************************************************)
(* Leader election (internal/leader): every pod runs tick once per         *)
(* retryPeriod, which reads the Kubernetes Lease, acquires, renews or      *)
(* takes it over with a conditional update, and sets or removes the pod's  *)
(* leader label.  The API server may fail any call, or apply an update     *)
(* and lose the answer.                                                    *)
(*                                                                         *)
(* Times are ages: how long ago something was, up to what the code can     *)
(* tell apart.  No clock is bounded.  A resourceVersion is modelled by     *)
(* whether the pod's copy of the lease is still the latest.                *)
(***************************************************************************)
EXTENDS Integers

CONSTANTS Pods,
          Ahead,            \* how far a pod's clock is ahead of the slowest one
          leaseDuration, renewDeadline, retryPeriod,
          MaxFaults         \* bound: crashes and shutdowns in a behaviour

ASSUME ElectionAssumption ==
    /\ Ahead \in [Pods -> Nat]
    /\ retryPeriod \in Nat \ {0} /\ renewDeadline \in Nat /\ leaseDuration \in Nat
    /\ MaxFaults \in Nat /\ \A p \in Pods : Ahead[p] <= retryPeriod

\* The margin of 15 s over 10 s and two ticks of 2 s: a second for the clocks.
ASSUME MarginAssumption ==
    /\ \E m \in 1..renewDeadline : renewDeadline = m * retryPeriod
    /\ \A p, q \in Pods :
          renewDeadline + 2 * retryPeriod + Ahead[p] - Ahead[q] <= leaseDuration

VARIABLES lease,     \* the Lease object
          pod,       \* the election loop of each pod
          label,     \* pods labelled postkeys/role=leader
          faults     \* crashes and shutdowns so far (bound)

vars == <<lease, pod, label, faults>>

Nobody == "nobody"
Old == leaseDuration + retryPeriod + 1       \* ages above are all alike
Older(n) == IF n < Old THEN n + 1 ELSE n

Aged(l) == [l EXCEPT !.age = Older(l.age)]

\* age is the time since the holder read its clock for renewTime.
NoLease == [exists |-> FALSE, holder |-> Nobody, age |-> Old]

\* since: time since the tick started; renewed: time since lastRenew; copy:
\* the lease as read, fresh while no one has updated it; stamp: time since
\* the renewTime about to be written; first: run's immediate first tick.
Loop == [pc |-> "get", leader |-> FALSE, since |-> 0, renewed |-> Old,
         copy |-> NoLease, fresh |-> FALSE, stamp |-> 0, first |-> TRUE]

Init ==
    /\ lease = NoLease
    /\ pod = [p \in Pods |-> Loop]
    /\ label = {}
    /\ faults = 0

Step(p, P) == pod' = [pod EXCEPT ![p] = P]

-----------------------------------------------------------------------------
(* tick and attempt *)

\* The ticker fires every retryPeriod.
tick(p) ==
    /\ pod[p].pc = "wait"
    /\ pod[p].since = retryPeriod
    /\ Step(p, [pod[p] EXCEPT !.pc = "get", !.since = 0])
    /\ UNCHANGED <<lease, label, faults>>

\* End of a tick: its local variables are gone, and lastRenew matters to a leader
\* only.  The ticker is created after the first tick.
End(P) == [pc |-> "wait", leader |-> P.leader, first |-> FALSE,
           since |-> IF P.first THEN 0 ELSE P.since,
           renewed |-> IF P.leader THEN P.renewed ELSE Old,
           copy |-> NoLease, fresh |-> FALSE, stamp |-> 0]

getLease(p) ==
    /\ pod[p].pc \in {"get", "surrender"}
    /\ Step(p, [pod[p] EXCEPT !.copy = lease, !.fresh = TRUE,
                              !.pc = IF @ = "get" THEN "decide" ELSE "release"])
    /\ UNCHANGED <<lease, label, faults>>

\* Mutant of leaseExpired: a standby waits for the renewal window only.
leaseExpiredEarly(l, p) == l.holder \in Pods => l.age > renewDeadline

\* Mutant of leaseExpired: a lease without a holder is not up for takeover.
leaseExpiredHeld(l, p) == l.holder \in Pods /\ l.age > leaseDuration

\* The holder stamped renewTime by its own clock, p compares with p's.
leaseExpired(l, p) ==
    l.holder \in Pods => l.age + Ahead[p] - Ahead[l.holder] > leaseDuration

\* Create, renew or take over; or leave a valid lease of another pod alone.
attempt(p) ==
    LET P == pod[p]
        l == P.copy
    IN  /\ P.pc = "decide"
        /\ \/ /\ ~l.exists \/ l.holder = p \/ leaseExpired(l, p)
              /\ Step(p, [P EXCEPT !.pc = "put", !.stamp = 0, !.copy = NoLease])
           \/ /\ l.exists /\ l.holder # p /\ ~leaseExpired(l, p)
              /\ Step(p, [P EXCEPT !.pc = "refused", !.copy = NoLease,
                                   !.fresh = FALSE])
        /\ UNCHANGED <<lease, label, faults>>

\* The API server's answer to createLease or updateLease of pod p, as its next
\* step: the copies of all others are out of date.
Stored(p, l, next) ==
    /\ lease' = l
    /\ pod' = [q \in Pods |-> IF q = p THEN [pod[q] EXCEPT !.pc = next, !.fresh = FALSE, !.stamp = 0]
                              ELSE [pod[q] EXCEPT !.fresh = FALSE]]

\* The update is conditional on the resourceVersion that was read.
Accepts(P) == P.fresh

updateLease(p) ==
    /\ pod[p].pc = "put"
    /\ Accepts(pod[p])
    /\ Stored(p, [exists |-> TRUE, holder |-> p, age |-> pod[p].stamp], "acquired")
    /\ UNCHANGED <<label, faults>>

\* The update is stored, and its answer lost.
updateLost(p) ==
    /\ pod[p].pc = "put"
    /\ Accepts(pod[p])
    /\ Stored(p, [exists |-> TRUE, holder |-> p, age |-> pod[p].stamp], "failed")
    /\ UNCHANGED <<label, faults>>

\* 409 Conflict: another writer interleaved.
conflict(p) ==
    /\ pod[p].pc = "put"
    /\ ~Accepts(pod[p])
    /\ Step(p, [pod[p] EXCEPT !.pc = "refused", !.stamp = 0])
    /\ UNCHANGED <<lease, label, faults>>

\* Any other error of a call, or the end of its context.
callFails(p) ==
    /\ pod[p].pc \in {"get", "put"}
    /\ Step(p, [pod[p] EXCEPT !.pc = "failed", !.fresh = FALSE, !.stamp = 0])
    /\ UNCHANGED <<lease, label, faults>>

withinGrace(P) == P.pc = "failed" /\ P.renewed < renewDeadline

\* The rest of tick, up to the label.
outcome(p) ==
    LET P == pod[p]
    IN  /\ P.pc \in {"acquired", "refused", "failed"}
        /\ \/ /\ P.pc = "acquired" /\ P.leader
              /\ Step(p, End([P EXCEPT !.renewed = 0]))
           \/ /\ P.pc = "acquired" /\ ~P.leader
              /\ Step(p, [P EXCEPT !.renewed = 0, !.leader = TRUE, !.pc = "label"])
           \/ /\ P.pc # "acquired" /\ (~P.leader \/ withinGrace(P))
              /\ Step(p, End(P))
           \/ /\ P.pc # "acquired" /\ P.leader /\ ~withinGrace(P)
              /\ Step(p, [P EXCEPT !.leader = FALSE, !.pc = "label"])
        /\ UNCHANGED <<lease, label, faults>>

\* setLeaderLabel succeeds ...
setLeaderLabel(p) ==
    /\ pod[p].pc = "label"
    /\ label' = IF pod[p].leader THEN label \cup {p} ELSE label \ {p}
    /\ Step(p, End(pod[p]))
    /\ UNCHANGED <<lease, faults>>

\* ... or fails, which is logged.
labelFails(p) ==
    /\ pod[p].pc = "label"
    /\ Step(p, End(pod[p]))
    /\ UNCHANGED <<lease, label, faults>>

-----------------------------------------------------------------------------
(* Stop and surrender; crash and restart *)

\* Stop waits for the loop to end, and surrenders if the pod is the leader;
\* stopTimeout equals retryPeriod.
Stop(p) ==
    /\ pod[p].pc = "wait"
    /\ faults < MaxFaults
    /\ faults' = faults + 1
    /\ Step(p, IF pod[p].leader THEN [pod[p] EXCEPT !.pc = "surrender", !.since = 0]
                ELSE [Loop EXCEPT !.pc = "stopped"])
    /\ UNCHANGED <<lease, label>>

\* The holder is emptied and renewTime backdated, if it is ours and unchanged.
surrender(p) ==
    /\ pod[p].pc = "release"
    /\ IF pod[p].copy.holder = p /\ pod[p].fresh
       THEN Stored(p, [exists |-> TRUE, holder |-> Nobody, age |-> Old], "unlabel")
       ELSE Step(p, [pod[p] EXCEPT !.pc = "unlabel", !.fresh = FALSE]) /\ lease' = lease
    /\ UNCHANGED <<label, faults>>

surrenderFails(p) ==
    /\ pod[p].pc \in {"surrender", "release"}
    /\ Step(p, [pod[p] EXCEPT !.pc = "unlabel", !.fresh = FALSE])
    /\ UNCHANGED <<lease, label, faults>>

stopped(p) ==
    /\ pod[p].pc = "unlabel"
    /\ label' \in {label, label \ {p}}
    /\ Step(p, [Loop EXCEPT !.pc = "stopped"])
    /\ UNCHANGED <<lease, faults>>

\* The process dies; its pod, and label, stay.
Crash(p) ==
    /\ pod[p].pc \notin {"stopped", "down"}
    /\ faults < MaxFaults
    /\ faults' = faults + 1
    /\ Step(p, [Loop EXCEPT !.pc = "down"])
    /\ UNCHANGED <<lease, label>>

\* The container is restarted, or a new pod replaces the one that was stopped.
Restart(p) ==
    /\ pod[p].pc \in {"stopped", "down"}
    /\ label' = IF pod[p].pc = "stopped" THEN label \ {p} ELSE label
    /\ Step(p, Loop)
    /\ UNCHANGED <<lease, faults>>

-----------------------------------------------------------------------------

Down(p) == pod[p].pc \in {"stopped", "down"}

\* Time passes, but a ticker is not late and no tick outlives its context.
Time ==
    /\ \A p \in Pods : Down(p) \/ pod[p].since < retryPeriod
    /\ lease' = Aged(lease)
    /\ pod' = [p \in Pods |->
                 [pod[p] EXCEPT !.since = IF Down(p) THEN @ ELSE @ + 1,
                                !.renewed = Older(@),
                                !.stamp = IF pod[p].pc = "put" THEN Older(@) ELSE @,
                                !.copy = Aged(@)]]
    /\ UNCHANGED <<label, faults>>

PodStep(p) ==
    \/ tick(p) \/ getLease(p) \/ attempt(p) \/ updateLease(p) \/ updateLost(p)
    \/ conflict(p) \/ callFails(p) \/ outcome(p) \/ setLeaderLabel(p) \/ labelFails(p)
    \/ Stop(p) \/ surrender(p) \/ surrenderFails(p) \/ stopped(p)
    \/ Crash(p) \/ Restart(p)

Next == Time \/ \E p \in Pods : PodStep(p)

Spec == Init /\ [][Next]_vars

\* What the loop of p does without waiting for the API server, and the calls whose
\* failure is only logged.
Proceed(p) ==
    \/ tick(p) \/ attempt(p) \/ conflict(p) \/ outcome(p) \/ stopped(p) \/ Restart(p)
    \/ setLeaderLabel(p) \/ labelFails(p) \/ surrender(p) \/ surrenderFails(p)

\* Time passes, loops run, Kubernetes restarts what went down, and the API server
\* does not fail every read or every update of a pod.
FairSpec ==
    /\ Spec /\ WF_vars(Time)
    /\ \A p \in Pods : /\ WF_vars(Proceed(p)) /\ SF_vars(getLease(p))
                       /\ SF_vars(updateLease(p))

-----------------------------------------------------------------------------
(* Properties *)

Ages == 0..Old
Lease == [exists : BOOLEAN, holder : Pods \cup {Nobody}, age : Ages]

\* Every loop, copy and age has its type.
TypeOK ==
    /\ lease \in Lease
    /\ pod \in [Pods -> [pc : {"wait", "get", "decide", "put", "acquired", "refused",
                               "failed", "label", "surrender", "release", "unlabel",
                               "stopped", "down"},
                         leader : BOOLEAN, since : 0..retryPeriod, renewed : Ages,
                         copy : Lease, fresh : BOOLEAN, stamp : Ages, first : BOOLEAN]]
    /\ label \in SUBSET Pods
    /\ faults \in 0..MaxFaults

\* A pod that believes it is the leader and is not shutting down.
Leading(p) == pod[p].leader /\ pod[p].pc \notin {"surrender", "release", "unlabel"}

\* renewDeadline "Must be < leaseDuration so standbys don't take over before we give
\* up": whatever calls fail, hang or lose their answers, two pods never believe to
\* be the leader at once.  The margin must cover the ticks and the clock skew.
AtMostOneLeader == \A p, q \in Pods : Leading(p) /\ Leading(q) => p = q

\* Elections go on: however crashes, shutdowns and failing calls fall, there is a
\* leader again and again.
LeaderElected == []<>(\E p \in Pods : Leading(p))

\* A pod the Service routes to: labelled, running and not shutting down.
Routed(p) == p \in label /\ ~Down(p) /\ pod[p].pc \notin {"surrender", "release", "unlabel"}

\* The Service selector sends traffic to one pod at a time.
RoutedToOne == \A p, q \in Pods : Routed(p) /\ Routed(q) => p = q

=============================================================================
