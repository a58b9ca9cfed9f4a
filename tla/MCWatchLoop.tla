----------------------------- MODULE MCWatchLoop -----------------------------
(* Bounded instances of the watcher loop for TLC. *)
EXTENDS WatchLoop
=============================================================================
