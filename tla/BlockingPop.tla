----------------------------- MODULE BlockingPop -----------------------------
(***************************************************************************)
(* BLPOP, BRPOP and BLMPOP (blockingPop, blockingMPop) and the list        *)
(* notifier of one replica.  A blocked call pops, registers a channel,     *)
(* waits for a NOTIFY or the poll interval, and pops again.  A push        *)
(* notifies after its commit, or, inside EXEC, before it.                  *)
(***************************************************************************)
EXTENDS Integers, Sequences

CONSTANTS Keys, Waiters, Producers,
          blockingPollInterval,
          Timeouts,         \* of the blocking calls; 0 waits for ever
          MaxPushes,        \* bound: pushes in a behaviour
          MaxInbox          \* bound: notifications under way

ASSUME BlockingAssumption ==
    /\ blockingPollInterval \in Nat \ {0}
    /\ Timeouts \subseteq Nat
    /\ MaxPushes \in Nat /\ MaxInbox \in Nat

VARIABLES list,      \* committed elements of each list
          call,      \* the blocking call of each waiter
          push,      \* the push of each producer
          inbox,     \* notifications sent to the listener
          sending,   \* waiters whose channels notifySubscribers has copied
          conn,      \* the listener is connected
          pushes     \* number of pushes so far (bound)

vars == <<list, call, push, inbox, sending, conn, pushes>>

Never == -2          \* no deadline, no timer
Past == -1           \* the deadline has passed

\* left: time until the deadline; wait: time left of WaitForKeys; woken: a key is
\* in the channel; idle: how long the call has waited beside an element (ghost).
Idle == [pc |-> "idle", keys |-> {}, left |-> Never, wait |-> Never,
         woken |-> FALSE, idle |-> 0]

NoPush == [pc |-> "idle", key |-> 0]

Init ==
    /\ list = [k \in Keys |-> 0]
    /\ call = [w \in Waiters |-> Idle]
    /\ push = [p \in Producers |-> NoPush]
    /\ inbox = <<>> /\ sending = {} /\ conn = TRUE /\ pushes = 0

Call(w, C) == call' = [call EXCEPT ![w] = C]

-----------------------------------------------------------------------------
(* blockingPop *)

blpop(w, K, timeout) ==
    /\ call[w].pc = "idle"
    /\ Call(w, [Idle EXCEPT !.pc = "pop", !.keys = K,
                            !.left = IF timeout > 0 THEN timeout ELSE Never])
    /\ UNCHANGED <<list, push, inbox, sending, conn, pushes>>

\* One round trip: an element of a key that has one, or nothing; then the deadline.
pop(w) ==
    LET C == call[w]
        full == {k \in C.keys : list[k] > 0}
    IN  /\ C.pc = "pop"
        /\ \/ \E k \in full : list' = [list EXCEPT ![k] = @ - 1] /\ Call(w, Idle)
           \/ /\ full = {} /\ list' = list
              /\ Call(w, IF C.left = Past THEN Idle ELSE [C EXCEPT !.pc = "arm"])
        /\ UNCHANGED <<push, inbox, sending, conn, pushes>>

\* Mutant of waitTime: the deadline alone.
waitTimeDeadline(left) == left

\* The poll interval, or what is left until the deadline.
waitTime(left) ==
    IF left # Never /\ left < blockingPollInterval THEN left ELSE blockingPollInterval

\* Without a positive timeout WaitForKeys has no timer.
Timer(t) == IF t > 0 THEN t ELSE Never

WaitForKeys(w) ==
    /\ call[w].pc = "arm"
    /\ Call(w, [call[w] EXCEPT !.pc = "wait", !.wait = Timer(waitTime(call[w].left))])
    /\ UNCHANGED <<list, push, inbox, sending, conn, pushes>>

\* A notification or the timer ends the wait; the channel is deregistered, and what
\* is still sent to it is lost.
wakeup(w) ==
    /\ call[w].pc = "wait"
    /\ call[w].woken \/ call[w].wait = 0
    /\ Call(w, [call[w] EXCEPT !.pc = "pop", !.woken = FALSE, !.wait = Never, !.idle = 0])
    /\ sending' = sending \ {w}
    /\ UNCHANGED <<list, push, inbox, conn, pushes>>

\* watchDisconnect cancels the context.
cancelled(w) ==
    /\ call[w].pc = "wait"
    /\ Call(w, Idle)
    /\ sending' = sending \ {w}
    /\ UNCHANGED <<list, push, inbox, conn, pushes>>

-----------------------------------------------------------------------------
(* Pushes *)

\* pg_notify reaches the listener while it is connected.
Notified(k) == inbox' = IF conn THEN Append(inbox, k) ELSE inbox

lpush(p, k) ==
    /\ push[p].pc = "idle" /\ pushes < MaxPushes
    /\ pushes' = pushes + 1
    /\ list' = [list EXCEPT ![k] = @ + 1]
    /\ push' = [push EXCEPT ![p] = [pc |-> "notify", key |-> k]]
    /\ UNCHANGED <<call, inbox, sending, conn>>

\* NotifyPush; an error is ignored.
NotifyPush(p) ==
    /\ push[p].pc = "notify" /\ Len(inbox) < MaxInbox
    /\ Notified(push[p].key) \/ inbox' = inbox
    /\ push' = [push EXCEPT ![p] = NoPush]
    /\ UNCHANGED <<list, call, sending, conn, pushes>>

\* Inside EXEC the push is not committed yet when NotifyPush runs on the pool.
execPush(p, k) ==
    /\ push[p].pc = "idle" /\ pushes < MaxPushes /\ Len(inbox) < MaxInbox
    /\ pushes' = pushes + 1
    /\ Notified(k) \/ inbox' = inbox
    /\ push' = [push EXCEPT ![p] = [pc |-> "commit", key |-> k]]
    /\ UNCHANGED <<list, call, sending, conn>>

\* COMMIT, or ROLLBACK.
execEnd(p) ==
    /\ push[p].pc = "commit"
    /\ list' \in {list, [list EXCEPT ![push[p].key] = @ + 1]}
    /\ push' = [push EXCEPT ![p] = NoPush]
    /\ UNCHANGED <<call, inbox, sending, conn, pushes>>

\* Another client pops.
lpop(k) ==
    /\ list[k] > 0
    /\ list' = [list EXCEPT ![k] = @ - 1]
    /\ UNCHANGED <<call, push, inbox, sending, conn, pushes>>

-----------------------------------------------------------------------------
(* listenLoop *)

\* notifySubscribers copies the channels registered for the key ...
notifySubscribers ==
    /\ inbox # <<>> /\ sending = {}
    /\ sending' = {w \in Waiters : call[w].pc = "wait" /\ Head(inbox) \in call[w].keys}
    /\ inbox' = Tail(inbox)
    /\ UNCHANGED <<list, call, push, conn, pushes>>

\* ... and sends to each without blocking.
send(w) ==
    /\ w \in sending
    /\ sending' = sending \ {w}
    /\ Call(w, [call[w] EXCEPT !.woken = TRUE])
    /\ UNCHANGED <<list, push, inbox, conn, pushes>>

disconnect ==
    /\ conn /\ conn' = FALSE /\ inbox' = <<>>
    /\ UNCHANGED <<list, call, push, sending, pushes>>

reconnect ==
    /\ ~conn /\ conn' = TRUE
    /\ UNCHANGED <<list, call, push, inbox, sending, pushes>>

-----------------------------------------------------------------------------

Available(w) == \E k \in call[w].keys : list[k] > 0
Blocked(w) == call[w].pc = "wait"

\* Timers fire on time.
Tick ==
    /\ \A w \in Waiters : Blocked(w) => call[w].wait # 0
    /\ call' = [w \in Waiters |->
                  [call[w] EXCEPT !.left = IF @ < 0 THEN @ ELSE @ - 1,
                                  !.wait = IF @ < 0 THEN @ ELSE @ - 1,
                                  !.idle = IF Blocked(w) /\ Available(w)
                                              /\ @ <= blockingPollInterval THEN @ + 1 ELSE 0]]
    /\ UNCHANGED <<list, push, inbox, sending, conn, pushes>>

Step(w) == pop(w) \/ WaitForKeys(w) \/ wakeup(w)

Next ==
    \/ \E w \in Waiters : \/ Step(w) \/ cancelled(w) \/ send(w)
                          \/ \E K \in SUBSET Keys \ {{}}, t \in Timeouts : blpop(w, K, t)
    \/ \E p \in Producers : \/ NotifyPush(p) \/ execEnd(p)
                            \/ \E k \in Keys : lpush(p, k) \/ execPush(p, k)
    \/ \E k \in Keys : lpop(k)
    \/ notifySubscribers \/ disconnect \/ reconnect \/ Tick

Spec == Init /\ [][Next]_vars

\* Time passes and calls that run go on; no notification has to arrive.
FairSpec == Spec /\ WF_vars(Tick) /\ \A w \in Waiters : WF_vars(Step(w))

-----------------------------------------------------------------------------
(* Properties *)

\* However a push overtakes the registration, is notified before its commit, or has
\* its notification lost, a call does not stay blocked beside an element for longer
\* than the poll interval, unless its timeout has left it without a timer.
BoundedWait ==
    \A w \in Waiters : Blocked(w) /\ (call[w].left = Never \/ call[w].wait # Never)
                        => call[w].idle <= blockingPollInterval

\* A blocked call with an element to take does not wait for ever.
WaitersServed ==
    \A w \in Waiters : (Blocked(w) /\ Available(w)) ~> (~Blocked(w) \/ ~Available(w))

\* WaitForKeys waits "until timeout/cancellation": a call with a timeout ends.
TimeoutHonoured ==
    \A w \in Waiters : (call[w].pc # "idle" /\ call[w].left # Never) ~> (call[w].pc = "idle")

=============================================================================
