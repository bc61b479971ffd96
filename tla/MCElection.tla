----------------------------- MODULE MCElection -----------------------------
(* Election with two pods; the constants keep the proportions of the code:  *)
(* renewDeadline is a multiple of retryPeriod, and leaseDuration exceeds it *)
(* by two retry periods and one unit for the clocks (15 = 10 + 2 * 2 + 1).  *)
EXTENDS Election

CONSTANTS a, b

Exact == [p \in Pods |-> 0]
Skewed == [p \in Pods |-> IF p = b THEN 1 ELSE 0]

=============================================================================
