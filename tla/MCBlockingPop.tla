---------------------------- MODULE MCBlockingPop ----------------------------
(* Blocking pops with two waiters as model values. *)
EXTENDS BlockingPop

CONSTANTS w1, w2

=============================================================================
