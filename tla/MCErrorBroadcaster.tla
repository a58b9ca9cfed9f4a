------------------------ MODULE MCErrorBroadcaster ------------------------
(* A small instance of ErrorBroadcaster for TLC. *)
EXTENDS ErrorBroadcaster, TLC

CONSTANTS t1, t2

TaskSymmetry == Permutations({t1, t2})
===========================================================================
