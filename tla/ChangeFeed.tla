----------------------------- MODULE ChangeFeed -----------------------------
(***************************************************************************)
(* What the file watcher promises to the code that consumes its batches:   *)
(* for every path the consumer's view moves forward, one batch at a time,  *)
(* through changes the watcher accepted, and never runs ahead of them.     *)
(* Changes may be merged (the consumer may skip some), never reordered.    *)
(***************************************************************************)
EXTENDS Naturals

CONSTANT Path     \* the watched files

VARIABLES
    accepted,     \* accepted[p]: the number of the last change accepted for p
    delivered     \* delivered[p]: the number of the last change delivered for p

feedVars == <<accepted, delivered>>

FeedInit == accepted = [p \in Path |-> 0] /\ delivered = [p \in Path |-> 0]

(* A change of p, later than every change accepted for p so far. *)
Accept(p) ==
    /\ accepted'[p] > accepted[p]
    /\ \A q \in Path \ {p} : accepted'[q] = accepted[q]
    /\ UNCHANGED delivered

(* A batch: the view of the paths in it moves forward, the others stay. *)
Deliver(batch) ==
    /\ \A p \in batch : delivered[p] < delivered'[p] /\ delivered'[p] <= accepted[p]
    /\ \A p \in Path \ batch : delivered'[p] = delivered[p]
    /\ UNCHANGED accepted

FeedNext == (\E p \in Path : Accept(p)) \/ (\E batch \in SUBSET Path : Deliver(batch))

FeedSpec == FeedInit /\ [][FeedNext]_feedVars
=============================================================================
