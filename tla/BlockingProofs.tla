--------------------------- MODULE BlockingProofs ---------------------------
(***************************************************************************)
(* A blocked call polls, for any lists, clients, timeouts and losses: what *)
(* it has waited beside an element and what is left of its timer are never *)
(* more than the poll interval together.                                   *)
(***************************************************************************)
EXTENDS BlockingPop, TLAPS

CallType == [pc : {"idle", "pop", "arm", "wait"}, keys : SUBSET Keys, left : Int,
             wait : Int, woken : BOOLEAN, idle : Nat]

\* A call that is not blocked has no timer and has not waited; a blocked one has a
\* timer unless a timeout took it.
Polling(C) ==
    /\ C.left >= Never
    /\ C.pc # "wait" => (C.idle = 0 /\ C.wait = Never)
    /\ C.pc = "wait" =>
          /\ C.left = Never => C.wait # Never
          /\ C.wait # Never => (C.wait >= 0 /\ C.idle + C.wait <= blockingPollInterval)

\* The inductive invariant.
WaitInv == call \in [Waiters -> CallType] /\ \A w \in Waiters : Polling(call[w])

\* An idle call is well typed and waits for nothing.
LEMMA IdlePolls == Idle \in CallType /\ Polling(Idle)
<1>1. Idle \in CallType
  BY DEF Idle, CallType, Never
<1>2. Idle.pc = "idle" /\ Idle.left = Never /\ Idle.wait = Never /\ Idle.idle = 0
  BY DEF Idle
<1>3. Polling(Idle)
  BY <1>2 DEF Polling, Never
<1> QED BY <1>1, <1>3

\* A step of one call leaves the others alone.
LEMMA CallFrame ==
    ASSUME WaitInv, NEW w \in Waiters, NEW C \in CallType, Polling(C), Call(w, C)
    PROVE  WaitInv'
<1>1. call' = [call EXCEPT ![w] = C] /\ call \in [Waiters -> CallType]
  BY DEF Call, WaitInv
<1>2. call' \in [Waiters -> CallType] /\ call'[w] = C /\ \A v \in Waiters \ {w} : call'[v] = call[v]
  BY <1>1
<1>3. \A v \in Waiters : Polling(call'[v])
  BY <1>2 DEF WaitInv
<1> QED BY <1>2, <1>3 DEF WaitInv

\* blockingPop starts, pops, waits, wakes up and is cancelled; a key is sent to it.
LEMMA CallsPoll ==
    ASSUME WaitInv, NEW w \in Waiters,
           \/ Step(w) \/ cancelled(w) \/ send(w)
           \/ \E K \in SUBSET Keys \ {{}}, t \in Timeouts : blpop(w, K, t)
    PROVE  WaitInv'
<1> DEFINE P == call[w]
<1>1. P \in CallType /\ Polling(P)
  BY DEF WaitInv
<1>2. CASE Call(w, Idle)
  BY <1>2, IdlePolls, CallFrame
<1>3. ASSUME NEW K \in SUBSET Keys, NEW t \in Timeouts, blpop(w, K, t) PROVE WaitInv'
  <2> DEFINE left == IF t > 0 THEN t ELSE Never
             N == [Idle EXCEPT !.pc = "pop", !.keys = K, !.left = left]
  <2>1. left \in Int /\ left >= Never
    BY BlockingAssumption DEF Never
  <2>2. Call(w, N)
    BY <1>3 DEF blpop
  <2> HIDE DEF left
  <2>3. N \in CallType /\ N.pc = "pop" /\ N.left = left /\ N.wait = Never /\ N.idle = 0
    BY <2>1, IdlePolls DEF Idle, CallType
  <2> HIDE DEF N
  <2>4. Polling(N)
    BY <2>1, <2>3 DEF Polling
  <2> QED BY <2>2, <2>3, <2>4, CallFrame
<1>4. CASE P.pc = "pop" /\ Call(w, [P EXCEPT !.pc = "arm"])
  <2> DEFINE N == [P EXCEPT !.pc = "arm"]
  <2>1. /\ N \in CallType /\ N.pc = "arm" /\ N.left = P.left /\ N.wait = P.wait
        /\ N.idle = P.idle
    BY <1>1 DEF CallType
  <2>2. Call(w, N)
    BY <1>4
  <2> HIDE DEF N
  <2>3. Polling(N)
    BY <1>1, <1>4, <2>1 DEF Polling
  <2> QED BY <2>1, <2>2, <2>3, CallFrame
<1>5. CASE WaitForKeys(w)
  <2> DEFINE t == Timer(waitTime(P.left))
             N == [P EXCEPT !.pc = "wait", !.wait = t]
  <2>1. P.left \in Int /\ P.idle = 0
    BY <1>1, <1>5 DEF CallType, Polling, WaitForKeys
  <2>2. /\ t \in Int /\ (t = Never \/ (t > 0 /\ t <= blockingPollInterval))
        /\ P.left = Never => t # Never
    BY <2>1, BlockingAssumption DEF Timer, waitTime, Never
  <2>3. Call(w, N)
    BY <1>5 DEF WaitForKeys
  <2> HIDE DEF t
  <2>4. /\ N \in CallType /\ N.pc = "wait" /\ N.left = P.left /\ N.wait = t /\ N.idle = P.idle
    BY <1>1, <2>2 DEF CallType
  <2> HIDE DEF N
  <2>5. Polling(N)
    BY <1>1, <2>1, <2>2, <2>4, BlockingAssumption DEF Polling
  <2> QED BY <2>3, <2>4, <2>5, CallFrame
<1>6. CASE wakeup(w)
  <2> DEFINE N == [P EXCEPT !.pc = "pop", !.woken = FALSE, !.wait = Never, !.idle = 0]
  <2>1. Never \in Int /\ 0 \in Nat
    BY DEF Never
  <2>2. /\ N \in CallType /\ N.pc = "pop" /\ N.left = P.left /\ N.wait = Never /\ N.idle = 0
    BY <1>1, <2>1 DEF CallType
  <2>3. Call(w, N)
    BY <1>6 DEF wakeup
  <2> HIDE DEF N
  <2>4. Polling(N)
    BY <1>1, <2>2 DEF Polling
  <2> QED BY <2>2, <2>3, <2>4, CallFrame
<1>7. CASE send(w)
  <2> DEFINE N == [P EXCEPT !.woken = TRUE]
  <2>1. /\ N \in CallType /\ N.pc = P.pc /\ N.left = P.left /\ N.wait = P.wait
        /\ N.idle = P.idle
    BY <1>1 DEF CallType
  <2>2. Call(w, N)
    BY <1>7 DEF send
  <2> HIDE DEF N
  <2>3. Polling(N)
    BY <1>1, <2>1 DEF Polling
  <2> QED BY <2>1, <2>2, <2>3, CallFrame
<1>8. CASE pop(w)
  BY <1>2, <1>4, <1>8 DEF pop
<1>9. CASE cancelled(w)
  BY <1>2, <1>9 DEF cancelled
<1> QED BY <1>3, <1>5, <1>6, <1>7, <1>8, <1>9 DEF Step

\* Time passes: the timer runs down by at least what the wait grows.
LEMMA TickPolls ==
    ASSUME WaitInv, Tick
    PROVE  WaitInv'
<1> DEFINE l(w) == IF call[w].left < 0 THEN call[w].left ELSE call[w].left - 1
           t(w) == IF call[w].wait < 0 THEN call[w].wait ELSE call[w].wait - 1
           i(w) == IF Blocked(w) /\ Available(w) /\ call[w].idle <= blockingPollInterval
                   THEN call[w].idle + 1 ELSE 0
           N(w) == [call[w] EXCEPT !.left = l(w), !.wait = t(w), !.idle = i(w)]
<1>1. /\ call' = [w \in Waiters |-> N(w)]
      /\ \A w \in Waiters : Blocked(w) => call[w].wait # 0
  BY DEF Tick
<1>2. ASSUME NEW w \in Waiters PROVE N(w) \in CallType /\ Polling(N(w))
  <2> DEFINE P == call[w]
  <2>1. P \in CallType /\ Polling(P)
    BY DEF WaitInv
  <2>2. P.left \in Int /\ P.wait \in Int /\ P.idle \in Nat
    BY <2>1 DEF CallType
  <2>3. l(w) \in Int /\ t(w) \in Int /\ i(w) \in Nat
    BY <2>2
  <2>4. /\ l(w) >= Never /\ (l(w) = Never => P.left = Never)
        /\ (P.wait = Never => t(w) = Never)
    BY <2>1, <2>2 DEF Polling, Never
  <2>5. P.pc # "wait" => (i(w) = 0 /\ t(w) = Never)
    BY <2>1 DEF Polling, Blocked, Never
  <2>6. (P.pc = "wait" /\ P.wait # Never) => (t(w) >= 0 /\ i(w) + t(w) <= blockingPollInterval)
    <3> SUFFICES ASSUME P.pc = "wait", P.wait # Never
                 PROVE  t(w) >= 0 /\ i(w) + t(w) <= blockingPollInterval
      OBVIOUS
    <3>1. P.wait >= 0 /\ P.idle + P.wait <= blockingPollInterval /\ P.wait # 0
      BY <1>1, <2>1 DEF Polling, Blocked
    <3>2. t(w) = P.wait - 1 /\ (i(w) = P.idle + 1 \/ i(w) = 0)
      BY <2>2, <3>1
    <3> QED BY <2>2, <3>1, <3>2, BlockingAssumption
  <2> HIDE DEF l, t, i
  <2>7. /\ N(w) \in CallType /\ N(w).pc = P.pc /\ N(w).left = l(w) /\ N(w).wait = t(w)
        /\ N(w).idle = i(w)
    BY <2>1, <2>3 DEF CallType
  <2> HIDE DEF N
  <2>8. Polling(N(w))
    BY <2>1, <2>3, <2>4, <2>5, <2>6, <2>7 DEF Polling, Never
  <2> QED BY <2>7, <2>8
<1> HIDE DEF N
<1> QED BY <1>1, <1>2 DEF WaitInv

\* However pushes, notifications, disconnections and other clients interleave, a
\* blocked call looks again within the poll interval unless a timeout took its timer.
THEOREM BlockedCallsPoll == Spec => []BoundedWait
<1>1. Init => WaitInv
  BY IdlePolls DEF Init, WaitInv
<1>2. WaitInv /\ [Next]_vars => WaitInv'
  <2> SUFFICES ASSUME WaitInv, [Next]_vars PROVE WaitInv'
    OBVIOUS
  <2>1. ASSUME NEW w \in Waiters,
               \/ Step(w) \/ cancelled(w) \/ send(w)
               \/ \E K \in SUBSET Keys \ {{}}, t \in Timeouts : blpop(w, K, t)
        PROVE  WaitInv'
    BY <2>1, CallsPoll
  <2>2. CASE Tick
    BY <2>2, TickPolls
  <2>3. CASE call' = call
    BY <2>3 DEF WaitInv
  <2> QED BY <2>1, <2>2, <2>3
          DEF Next, vars, NotifyPush, execEnd, lpush, execPush, lpop, notifySubscribers,
              disconnect, reconnect
<1>3. WaitInv => BoundedWait
  <2> SUFFICES ASSUME WaitInv, NEW w \in Waiters, Blocked(w),
                      call[w].left = Never \/ call[w].wait # Never
               PROVE  call[w].idle <= blockingPollInterval
    BY DEF BoundedWait
  <2>1. call[w].wait >= 0 /\ call[w].idle + call[w].wait <= blockingPollInterval
    BY DEF WaitInv, Polling, Blocked
  <2>2. call[w].wait \in Int /\ call[w].idle \in Nat
    BY DEF WaitInv, CallType
  <2> QED BY <2>1, <2>2, BlockingAssumption
<1> QED BY <1>1, <1>2, <1>3, PTL DEF Spec

=============================================================================
