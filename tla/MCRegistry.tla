------------------------------ MODULE MCRegistry ------------------------------
(* Two packages whose names differ behind the dot, and one by itself. *)
EXTENDS Registry, TLC

MCDocument ==
    {[name |-> <<"lodash", "get">>,   format |-> "install"],
     [name |-> <<"lodash", "merge">>, format |-> "install"]}

MCSymmetry == Permutations(Fetch)

MCUpdated == {<<"lodash", "get">>}

(* The version that appears is one this client cannot read. *)
MCMalformed == {[doc |-> d, version |-> 2] : d \in {e \in MCDocument : e.name \in MCUpdated}}
===============================================================================
