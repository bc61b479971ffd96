----------------------------- MODULE MCShutdown -----------------------------
(* Shutdown with two connections, both ways of ending, and a second signal. *)
EXTENDS Shutdown

CONSTANTS c1, c2

=============================================================================
