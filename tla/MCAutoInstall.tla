--------------------------- MODULE MCAutoInstall ---------------------------
(* Instances of AutoInstall for TLC: requests and packages are model values. *)
EXTENDS AutoInstall
============================================================================
