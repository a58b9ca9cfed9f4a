------------------------ MODULE MCPersistentIsolate ------------------------
(* An API call and two renders: what awaits an operation may go on to answer *)
(* or to loop for ever, and can outlive its dispatch and meet a render that *)
(* never gets an answer.                                                    *)
EXTENDS PersistentIsolate

CONSTANTS a1, p1, p2

MCBehaviour ==
  [r \in {a1, p1, p2} |-> CASE r = a1 -> {"awaits"}
                           [] r = p1 -> {"awaits", "spins"}
                           [] r = p2 -> {"never"}]
============================================================================
