---------------------------- MODULE MCReactivity ----------------------------
(* Three variables, one prop and up to three reads: chains, cycles, and any
   two kinds of declaration meeting in a third. *)
EXTENDS Reactivity, TLC

Symmetry == Permutations(Vars)
=============================================================================
