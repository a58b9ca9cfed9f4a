-------------------------- MODULE ReactivityProofs --------------------------
(***************************************************************************)
(* Proofs about Reactivity, for any component: any variables, declared as  *)
(* anything, reading each other in any way.                                *)
(*                                                                         *)
(* The names the page reaches are a lower bound of what it shows while     *)
(* they spread and all of it when they have settled (ReachInv).  A search  *)
(* keeps two facts (SearchInv): it stands only where the `const` it        *)
(* started from derives from, and every read of what it visited is still   *)
(* to be looked at or led nowhere.  The first makes a computed value       *)
(* deserved; the second leaves behind, when a search fails, a set closed   *)
(* under derivation in which nothing reads state.                          *)
(***************************************************************************)
EXTENDS Reactivity, TLAPS

Followable == { f \in reads : IsKind(f[2], {"let", "const"}) }

\* A set of variables in which a failed search can end.
Barren(S) == \A u \in S : \A e \in DepsOf(u) : ~IsReactive(e) /\ (IsFollowed(e) => e[2] \in S)

InputInv == \A e \in reads : e[3] = "signal" => kind[e[2]] = "api"

ReachInv ==
    /\ \A e \in reads : e[1] = Page => e[2] \in reachable
    /\ \A n \in reachable : n \in From(Page, Shows)
    /\ stage = "classifying" => Settled
    /\ stage = "reaching" => search = Idle /\ \A v \in Vars : class[v] = "none"

SearchInv ==
    /\ search.of = Page => search = Idle
    /\ search.of # Page => Searched(search.of) /\ search.of \in search.visited
    /\ \A u \in search.visited : \A e \in DepsOf(u) :
         e \in search.todo \/ (~IsReactive(e) /\ (IsFollowed(e) => e[2] \in search.visited))
    /\ \A u \in search.visited :
         u \in From(search.of, Followable) \/ kind[u] \in Destructured
    /\ \A e \in search.todo : e \in DepsOf(e[1])

ClassInv ==
    /\ \A v \in Vars : class[v] # "none" /\ kind[v] = "let" =>
         (class[v] = "signal" <=> v \in reachable)
    /\ \A v \in Vars : class[v] = "computed" =>
         Searched(v) /\ \E e \in reads : e[1] \in From(v, Followable) /\ Recognised(e)
    /\ \A v \in Vars : Searched(v) => class[v] # "signal"
    /\ \A v \in Vars : Searched(v) /\ class[v] = "static" =>
         \E S \in SUBSET Vars : v \in S /\ Barren(S)

IInv == TypeOK /\ InputInv /\ ReachInv /\ SearchInv /\ ClassInv

-----------------------------------------------------------------------------
(***************************************************************************)
(* About reads and what they lead to.                                      *)
(***************************************************************************)

\* A read has a reader, a name and a way.
LEMMA ReadShape ==
  ASSUME NEW e \in Reads
  PROVE  /\ e[1] \in Vars \cup {Page} /\ e[2] \in Vars \cup {Prop}
         /\ e[3] \in {"value", "signal", "field"}
  BY DEF Reads

\* What starts somewhere has been reached.
LEMMA FromStarts ==
  ASSUME NEW n \in Names, NEW E
  PROVE  n \in From(n, E)
  BY DEF From

\* Reaching goes on along the edges.
LEMMA FromGoesOn ==
  ASSUME NEW n, NEW E, NEW e \in E, e[1] \in From(n, E), e[2] \in Names
  PROVE  e[2] \in From(n, E)
  BY DEF From, Closed

\* A closed set that holds the start holds all that is reached.
LEMMA FromIsLeast ==
  ASSUME NEW n, NEW E, NEW S \in SUBSET Names, n \in S, Closed(S, E)
  PROVE  From(n, E) \subseteq S
  BY DEF From

\* Everything that starts unclassified is in order.
LEMMA InitIInv ==
  Init => IInv
<1> SUFFICES ASSUME Init PROVE IInv
  OBVIOUS
<1> USE ReactivityAssumption DEF Init
<1>1. reads \subseteq Reads
  BY DEF ReadSets
<1>2. TypeOK
  <2>1. reachable \subseteq Vars \cup {Prop}
    BY <1>1, ReadShape
  <2> QED
    BY <1>1, <2>1 DEF TypeOK, Idle
<1>3. InputInv
  BY DEF InputInv
<1>4. ReachInv
  <2>1. ASSUME NEW n \in reachable PROVE n \in From(Page, Shows)
    <3>1. PICK e \in reads : e[1] = Page /\ n = e[2]
      OBVIOUS
    <3>2. e \in Shows /\ n \in Names
      BY <1>1, <3>1, ReadShape DEF Shows, IsKind, Names
    <3> QED
      BY <3>1, <3>2, FromStarts, FromGoesOn DEF Names
  <2> QED
    BY <2>1 DEF ReachInv
<1>5. SearchInv
  BY DEF SearchInv, Idle
<1>6. ClassInv
  BY DEF ClassInv
<1> QED
  BY <1>2, <1>3, <1>4, <1>5, <1>6 DEF IInv

-----------------------------------------------------------------------------
(***************************************************************************)
(* The steps.                                                              *)
(***************************************************************************)

\* Reaching one name more.
LEMMA ReachStep ==
  IInv /\ Reach => IInv'
<1> SUFFICES ASSUME IInv, Reach PROVE IInv'
  OBVIOUS
<1> USE ReactivityAssumption DEF IInv
<1>1. PICK v \in reachable \cap Vars : \E e \in DepsOf(v) :
        Spreads(v) /\ e[2] \notin reachable /\ reachable' = reachable \cup {e[2]}
  BY DEF Reach
<1>2. PICK e \in DepsOf(v) : Spreads(v) /\ reachable' = reachable \cup {e[2]}
  BY <1>1
<1>3. UNCHANGED <<kind, reads, stage, class, search>> /\ stage = "reaching"
  BY DEF Reach, input
<1>4. e \in reads /\ e[1] = v /\ e \in Shows /\ e[2] \in Vars \cup {Prop}
  BY <1>2, ReadShape DEF DepsOf, Shows, IsKind, Spreads, TypeOK
<1>5. e[2] \in From(Page, Shows)
  BY <1>4, FromGoesOn DEF ReachInv, Names
<1>6. TypeOK'
  BY <1>2, <1>3, <1>4 DEF TypeOK
<1>7. InputInv'
  BY <1>3 DEF InputInv
<1>8. ReachInv'
  BY <1>2, <1>3, <1>5 DEF ReachInv, From, Closed, Shows, IsKind, Names
<1>9. SearchInv'
  BY <1>3 DEF SearchInv, ReachInv, Idle
<1>10. ClassInv'
  BY <1>3 DEF ClassInv, ReachInv
<1> QED
  BY <1>6, <1>7, <1>8, <1>9, <1>10 DEF IInv

\* The end of reaching.
LEMMA EndReachStep ==
  IInv /\ EndReach => IInv'
<1> SUFFICES ASSUME IInv, EndReach PROVE IInv'
  OBVIOUS
<1> USE DEF IInv, EndReach, input
<1>1. TypeOK' /\ InputInv'
  BY DEF TypeOK, InputInv
<1>2. ReachInv'
  BY DEF ReachInv, Settled, DepsOf, Spreads, From, Closed, Shows, IsKind, Names
<1>3. SearchInv'
  BY DEF SearchInv, ReachInv, Idle
<1>4. ClassInv'
  BY DEF ClassInv, ReachInv
<1> QED
  BY <1>1, <1>2, <1>3, <1>4 DEF IInv

\* What a step keeps that changes neither the input nor what is reachable.
LEMMA InputKept ==
  ASSUME UNCHANGED <<input, reachable>>
  PROVE  /\ InputInv => InputInv'
         /\ \A v : DepsOf(v)' = DepsOf(v)
         /\ \A e : Recognised(e)' = Recognised(e) /\ IsFollowed(e)' = IsFollowed(e)
                   /\ IsReactive(e)' = IsReactive(e)
         /\ \A v : Searched(v)' = Searched(v)
         /\ \A S : Barren(S)' = Barren(S)
         /\ \A v : From(v, Followable)' = From(v, Followable)
         /\ Settled' = Settled /\ From(Page, Shows)' = From(Page, Shows)
  BY DEF input, InputInv, DepsOf, Recognised, ReadsState, Overlooked, IsFollowed, IsReactive, IsApi, IsKind, Searched,
         Barren, From, Followable, Closed, Names, Settled, Spreads, Shows

\* A variable classified by its declaration.
LEMMA ClassifyStep ==
  ASSUME NEW v \in Vars
  PROVE  IInv /\ Classify(v) => IInv'
<1> SUFFICES ASSUME IInv, Classify(v) PROVE IInv'
  OBVIOUS
<1> USE DEF IInv
<1>1. /\ UNCHANGED <<input, reachable>> /\ UNCHANGED <<kind, reads, stage, search>>
      /\ stage = "classifying" /\ search = Idle /\ ~Searched(v)
      /\ class' = [class EXCEPT ![v] = ClassAtOnce(v)]
  BY DEF Classify, input
<1>2. ClassAtOnce(v) \in {"signal", "static"}
  BY DEF ClassAtOnce
<1>3. TypeOK'
  BY <1>1, <1>2 DEF TypeOK
<1>4. ReachInv'
  BY <1>1, InputKept DEF ReachInv
<1>5. SearchInv'
  BY <1>1, InputKept DEF SearchInv
<1>6. ClassInv'
  <2>1. \A u \in Vars : class'[u] = IF u = v THEN ClassAtOnce(v) ELSE class[u]
    BY <1>1 DEF TypeOK
  <2>2. kind[v] = "let" => (class'[v] = "signal" <=> v \in reachable)
    BY <2>1 DEF ClassAtOnce
  <2> QED
    BY <1>1, <1>2, <2>1, <2>2, InputKept DEF ClassInv
<1> QED
  BY <1>1, <1>3, <1>4, <1>5, <1>6, InputKept DEF IInv

\* A search begins at its `const`, with all its reads to look at.
LEMMA BeginSearchStep ==
  ASSUME NEW v \in Vars
  PROVE  IInv /\ BeginSearch(v) => IInv'
<1> SUFFICES ASSUME IInv, BeginSearch(v) PROVE IInv'
  OBVIOUS
<1> USE ReactivityAssumption DEF IInv
<1>1. /\ UNCHANGED <<input, reachable>> /\ UNCHANGED <<kind, reads, stage, class>>
      /\ stage = "classifying" /\ Searched(v)
      /\ search' = [of |-> v, visited |-> {v}, todo |-> DepsOf(v)]
  BY DEF BeginSearch, input
<1>2. TypeOK'
  BY <1>1 DEF TypeOK, DepsOf
<1>3. ReachInv'
  BY <1>1, InputKept DEF ReachInv
<1>4. SearchInv'
  <2>1. v \in From(v, Followable)
    BY FromStarts DEF Names
  <2> QED
    BY <1>1, <2>1, InputKept DEF SearchInv, DepsOf
<1>5. ClassInv'
  BY <1>1, InputKept DEF ClassInv
<1> QED
  BY <1>1, <1>2, <1>3, <1>4, <1>5, InputKept DEF IInv

\* What a read still to be looked at is.
LEMMA TodoShape ==
  ASSUME IInv, NEW e \in search.todo
  PROVE  /\ e \in reads /\ e[1] \in search.visited /\ e \in DepsOf(e[1])
         /\ e[1] \in From(search.of, Followable)
         /\ e[2] \in Vars \cup {Prop} /\ e[1] \in Vars
         /\ search.of \in Vars /\ search # Idle /\ stage = "classifying"
<1>1. e \in reads /\ e[1] \in search.visited /\ e \in DepsOf(e[1])
  BY DEF IInv, TypeOK, SearchInv
<1>2. e[1] \in From(search.of, Followable)
  BY <1>1 DEF IInv, SearchInv, DepsOf
<1>3. e[2] \in Vars \cup {Prop} /\ e[1] \in Vars
  BY <1>1, ReadShape DEF IInv, TypeOK
<1>4. search # Idle
  BY DEF Idle
<1> QED
  BY <1>1, <1>2, <1>3, <1>4 DEF IInv, SearchInv, TypeOK, ReachInv

\* A read of state settles the search.
LEMMA FindStep ==
  ASSUME NEW e \in search.todo, UNCHANGED <<input, reachable, stage>>
  PROVE  IInv /\ Find(e) => IInv'
<1> SUFFICES ASSUME IInv, Find(e) PROVE IInv'
  OBVIOUS
<1> USE ReactivityAssumption
<1>1. /\ UNCHANGED <<input, reachable>> /\ UNCHANGED <<kind, reads, stage>>
      /\ class' = [class EXCEPT ![search.of] = "computed"] /\ search' = Idle
      /\ IsReactive(e)
  BY DEF Find, input
<1>2. Recognised(e)
  BY <1>1, TodoShape DEF IsReactive, Recognised, ReadsState, Overlooked, Destructured, IsKind, IsApi, IInv, InputInv
<1>3. TypeOK'
  BY <1>1, TodoShape DEF TypeOK, Idle, IInv
<1>4. ReachInv'
  BY <1>1, TodoShape, InputKept DEF ReachInv, IInv
<1>5. SearchInv'
  BY <1>1 DEF SearchInv, Idle
<1>6. ClassInv'
  <2>1. \A u \in Vars : class'[u] = IF u = search.of THEN "computed" ELSE class[u]
    BY <1>1 DEF TypeOK, IInv
  <2>2. Searched(search.of) /\ e[1] \in From(search.of, Followable) /\ e \in reads
    BY TodoShape DEF IInv, SearchInv, Idle
  <2>3. kind[search.of] # "let"
    BY <2>2 DEF Searched
  <2> QED
    BY <1>1, <1>2, <2>1, <2>2, <2>3, InputKept DEF ClassInv, IInv
<1> QED
  BY <1>1, <1>3, <1>4, <1>5, <1>6, InputKept DEF IInv

\* A variable not seen before is taken up, with its reads.
LEMMA FollowStep ==
  ASSUME NEW e \in search.todo, UNCHANGED <<input, reachable, stage>>
  PROVE  IInv /\ Follow(e) => IInv'
<1> SUFFICES ASSUME IInv, Follow(e) PROVE IInv'
  OBVIOUS
<1> USE ReactivityAssumption
<1> DEFINE d == e[2]
<1>1. /\ UNCHANGED <<input, reachable>> /\ UNCHANGED <<kind, reads, stage, class>>
      /\ ~IsReactive(e) /\ IsFollowed(e)
      /\ search' = [search EXCEPT !.visited = @ \cup {d}, !.todo = (@ \ {e}) \cup DepsOf(d)]
  BY DEF Follow, input
<1>2. /\ search'.of = search.of /\ search'.visited = search.visited \cup {d}
      /\ search'.todo = (search.todo \ {e}) \cup DepsOf(d)
  <2>1. search \in [of : Vars \cup {Page}, visited : SUBSET Vars, todo : SUBSET Reads]
    BY DEF IInv, TypeOK
  <2> QED
    BY <1>1, <2>1
<1>3. d \in Vars
  BY <1>1, TodoShape DEF IsFollowed
<1>4. d \in From(search.of, Followable) \/ kind[d] \in Destructured
  <2>1. ASSUME kind[d] \notin Destructured PROVE d \in From(search.of, Followable)
    <3>1. kind[d] \in {"let", "const"}
      BY <1>1, <1>3, <2>1 DEF IsFollowed, IsReactive, IsApi, Kinds, TypeOK, IInv
    <3>2. e \in Followable /\ d \in Names
      BY <1>3, <3>1, TodoShape DEF Followable, IsKind, Names
    <3> QED
      BY <3>2, TodoShape, FromGoesOn
  <2> QED
    BY <2>1
<1>5. TypeOK'
  BY <1>1, <1>2, <1>3 DEF IInv, TypeOK, DepsOf
<1>6. ReachInv'
  BY <1>1, TodoShape, InputKept DEF ReachInv, IInv
<1>7. SearchInv'
  BY <1>1, <1>2, <1>3, <1>4, TodoShape, InputKept DEF SearchInv, IInv, DepsOf
<1>8. ClassInv'
  BY <1>1, InputKept DEF ClassInv, IInv
<1> QED
  BY <1>1, <1>5, <1>6, <1>7, <1>8, InputKept DEF IInv

\* A read that leads nowhere new is dropped.
LEMMA PassStep ==
  ASSUME NEW e \in search.todo, UNCHANGED <<input, reachable, stage>>
  PROVE  IInv /\ Pass(e) => IInv'
<1> SUFFICES ASSUME IInv, Pass(e) PROVE IInv'
  OBVIOUS
<1> USE ReactivityAssumption
<1>1. /\ UNCHANGED <<input, reachable>> /\ UNCHANGED <<kind, reads, stage, class>>
      /\ ~IsReactive(e) /\ (IsFollowed(e) => e[2] \in search.visited)
      /\ search' = [search EXCEPT !.todo = @ \ {e}]
  BY DEF Pass, input
<1>2. /\ search'.of = search.of /\ search'.visited = search.visited
      /\ search'.todo = search.todo \ {e}
  <2>1. search \in [of : Vars \cup {Page}, visited : SUBSET Vars, todo : SUBSET Reads]
    BY DEF IInv, TypeOK
  <2> QED
    BY <1>1, <2>1
<1>3. TypeOK'
  BY <1>1, <1>2 DEF IInv, TypeOK
<1>4. ReachInv'
  BY <1>1, TodoShape, InputKept DEF ReachInv, IInv
<1>5. SearchInv'
  BY <1>1, <1>2, TodoShape, InputKept DEF SearchInv, IInv
<1>6. ClassInv'
  BY <1>1, InputKept DEF ClassInv, IInv
<1> QED
  BY <1>1, <1>3, <1>4, <1>5, <1>6, InputKept DEF IInv

\* A search that has looked at everything leaves a barren set behind.
LEMMA EndSearchStep ==
  IInv /\ EndSearch => IInv'
<1> SUFFICES ASSUME IInv, EndSearch PROVE IInv'
  OBVIOUS
<1> USE ReactivityAssumption
<1>1. /\ UNCHANGED <<input, reachable>> /\ UNCHANGED <<kind, reads, stage>>
      /\ class' = [class EXCEPT ![search.of] = "static"] /\ search' = Idle
      /\ search # Idle /\ search.todo = {}
  BY DEF EndSearch, input
<1>2. /\ search.of \in Vars /\ Searched(search.of) /\ search.of \in search.visited
      /\ search.visited \in SUBSET Vars /\ stage = "classifying"
  BY <1>1 DEF IInv, SearchInv, TypeOK, ReachInv
<1>3. Barren(search.visited)
  BY <1>1 DEF Barren, IInv, SearchInv
<1>4. TypeOK'
  BY <1>1, <1>2 DEF TypeOK, Idle, IInv
<1>5. ReachInv'
  BY <1>1, <1>2, InputKept DEF ReachInv, IInv
<1>6. SearchInv'
  BY <1>1 DEF SearchInv, Idle
<1>7. ClassInv'
  <2>1. \A u \in Vars : class'[u] = IF u = search.of THEN "static" ELSE class[u]
    BY <1>1 DEF TypeOK, IInv
  <2>2. kind[search.of] # "let"
    BY <1>2 DEF Searched
  <2> QED
    BY <1>1, <1>2, <1>3, <2>1, <2>2, InputKept DEF ClassInv, IInv
<1> QED
  BY <1>1, <1>4, <1>5, <1>6, <1>7, InputKept DEF IInv

\* No step leaves the invariant.
LEMMA NextIInv ==
  IInv /\ [Next]_vars => IInv'
<1> SUFFICES ASSUME IInv, [Next]_vars PROVE IInv'
  OBVIOUS
<1>1. CASE Reach
  BY <1>1, ReachStep
<1>2. CASE EndReach
  BY <1>2, EndReachStep
<1>3. CASE Look
  <2>1. UNCHANGED <<input, reachable, stage>>
    BY <1>3 DEF Look
  <2>2. PICK e \in search.todo : Find(e) \/ Follow(e) \/ Pass(e)
    BY <1>3 DEF Look
  <2> QED
    BY <2>1, <2>2, FindStep, FollowStep, PassStep
<1>4. CASE EndSearch
  BY <1>4, EndSearchStep
<1>5. ASSUME NEW v \in Vars, Classify(v) \/ BeginSearch(v) PROVE IInv'
  BY <1>5, ClassifyStep, BeginSearchStep
<1>6. CASE UNCHANGED vars
  BY <1>6 DEF vars, input, IInv, TypeOK, InputInv, ReachInv, SearchInv, ClassInv, Settled, DepsOf,
     Spreads, From, Closed, Shows, IsKind, Names, Searched, IsReactive, IsApi, IsFollowed,
     Recognised, ReadsState, Overlooked, Barren, Followable, Reads, Idle
<1> QED
  BY <1>1, <1>2, <1>3, <1>4, <1>5, <1>6 DEF Next

-----------------------------------------------------------------------------
(***************************************************************************)
(* The theorems.                                                           *)
(***************************************************************************)

\* The invariant holds throughout.
THEOREM Invariance ==
  Spec => []IInv
  BY InitIInv, NextIInv, PTL DEF Spec

\* Variables hold what TypeOK says.
THEOREM TypeCorrect ==
  Spec => []TypeOK
<1>1. IInv => TypeOK
  BY DEF IInv
<1> QED
  BY <1>1, Invariance, PTL

\* When reaching has settled, the page shows no name it has not reached.
LEMMA SettledIsAll ==
  ASSUME IInv, stage = "classifying"
  PROVE  From(Page, Shows) \subseteq reachable \cup {Page}
<1> USE ReactivityAssumption DEF IInv
<1>1. reachable \cup {Page} \in SUBSET Names
  BY DEF TypeOK, Names
<1>2. ASSUME NEW e \in Shows, e[1] \in reachable \cup {Page} PROVE e[2] \in reachable
  <2>1. CASE e[1] = Page
    BY <2>1 DEF ReachInv, Shows
  <2>2. CASE e[1] # Page
    <3>1. e \in reads /\ e[1] \in reachable \cap Vars
      BY <1>2, <2>2, ReadShape DEF Shows, TypeOK
    <3>2. e \in DepsOf(e[1]) /\ Spreads(e[1])
      BY <3>1 DEF DepsOf, Shows, IsKind, Spreads
    <3> QED
      BY <3>1, <3>2 DEF ReachInv, Settled
  <2> QED
    BY <2>1, <2>2
<1>3. Closed(reachable \cup {Page}, Shows)
  BY <1>2 DEF Closed
<1> QED
  BY <1>1, <1>3, FromIsLeast

\* The signals among the `let`s are those the page shows: for every component and every
\* order in which the dependencies are walked.
THEOREM SignalsAreShown ==
  Spec => []SignalsAreWhatThePageShows
<1>1. ASSUME IInv PROVE SignalsAreWhatThePageShows
  <2> SUFFICES ASSUME NEW v \in Vars, kind[v] = "let", class[v] # "none"
               PROVE  class[v] = "signal" <=> v \in From(Page, Shows)
    BY DEF SignalsAreWhatThePageShows
  <2>1. stage = "classifying"
    BY <1>1 DEF IInv, ReachInv, TypeOK
  <2>2. class[v] = "signal" <=> v \in reachable
    BY <1>1 DEF IInv, ClassInv
  <2>3. v \in reachable => v \in From(Page, Shows)
    BY <1>1 DEF IInv, ReachInv
  <2>4. v \in From(Page, Shows) => v \in reachable
    BY <1>1, <2>1, SettledIsAll, ReactivityAssumption
  <2> QED
    BY <2>2, <2>3, <2>4
<1> QED
  BY <1>1, Invariance, PTL

\* A computed value derives from state that is not overlooked.
THEOREM ComputedsDerive ==
  Spec => []ComputedsDeriveFromState
<1>1. IInv => ComputedsDeriveFromState
  BY DEF IInv, ClassInv, ComputedsDeriveFromState, Followable
<1> QED
  BY <1>1, Invariance, PTL

\* A `const` the page shows is computed if it derives from state other than what was
\* destructured from an api or a hook or belongs to a field: what a failed search leaves
\* behind is closed under derivation and reads no other state.
THEOREM DerivationsAreComputed ==
  Spec => []ShownDerivationsAreComputed
<1>1. ASSUME IInv PROVE ShownDerivationsAreComputed
  <2> USE ReactivityAssumption DEF IInv
  <2> SUFFICES ASSUME NEW v \in Vars, kind[v] = "const", class[v] # "none",
                      v \in From(Page, Shows),
                      NEW e \in reads, e[1] \in From(v, Derives), Recognised(e),
                      class[v] # "computed"
               PROVE  FALSE
    BY DEF ShownDerivationsAreComputed
  <2>1. stage = "classifying"
    BY <1>1 DEF ReachInv, TypeOK
  <2>2. PICK S \in SUBSET Vars : v \in S /\ Barren(S)
    BY <1>1 DEF ClassInv, Searched, TypeOK
  <2>3. e[1] \in From(Page, Shows)
    <3>1. Derives \subseteq Shows
      BY DEF Derives, Shows, IsKind, Destructured
    <3>2. Closed(From(Page, Shows), Derives)
      BY <3>1, FromGoesOn DEF Closed, Derives, IsKind, Names
    <3> QED
      BY <3>2, FromIsLeast DEF From
  <2>4. IsKind(e[1], {"const"})
    <3> DEFINE C == { n \in Vars : kind[n] = "const" }
    <3>1. Closed(C, Derives) /\ v \in C /\ C \in SUBSET Names
      BY DEF Closed, Derives, IsKind, Names
    <3> QED
      BY <3>1, FromIsLeast DEF IsKind
  <2>5. e[1] \in S
    <3>1. ASSUME NEW f \in Derives, f[1] \in S PROVE f[2] \in S
      <4>1. f \in DepsOf(f[1]) /\ f[2] \in Vars /\ kind[f[2]] = "const"
        BY DEF DepsOf, Derives, IsKind, Destructured
      <4>2. IsFollowed(f)
        BY <4>1 DEF IsFollowed, IsApi
      <4> QED
        BY <2>2, <3>1, <4>1, <4>2 DEF Barren
    <3>2. Closed(S, Derives) /\ S \in SUBSET Names
      BY <3>1 DEF Closed, Names
    <3> QED
      BY <2>2, <3>2, FromIsLeast
  <2>6. e \in DepsOf(e[1]) /\ e \in Shows
    BY <2>4 DEF DepsOf, Shows, IsKind, Destructured
  <2>7. IsReactive(e)
    <3>1. CASE IsKind(e[2], {"let"})
      <4>1. e[2] \in From(Page, Shows)
        BY <2>3, <2>6, <3>1, FromGoesOn DEF IsKind, Names
      <4> QED
        BY <2>1, <3>1, <4>1, <1>1, SettledIsAll DEF IsReactive, IsKind
    <3>2. CASE ~IsKind(e[2], {"let"})
      BY <3>2 DEF Recognised, ReadsState, Overlooked, Destructured, IsReactive, IsKind, IsApi
    <3> QED
      BY <3>1, <3>2
  <2> QED
    BY <2>2, <2>5, <2>6, <2>7 DEF Barren
<1> QED
  BY <1>1, Invariance, PTL

\* Every step of a search takes it closer to its end.
THEOREM SearchesProgress ==
  Spec => SearchesEnd
<1>1. ASSUME IInv, [Next]_vars, search # Idle, search' # Idle, ~UNCHANGED vars
      PROVE  \/ search'.visited # search.visited /\ search.visited \subseteq search'.visited
             \/ /\ search'.visited = search.visited /\ search'.todo # search.todo
                /\ search'.todo \subseteq search.todo
  <2>1. stage = "classifying"
    BY <1>1 DEF IInv, ReachInv, TypeOK
  <2>2. Look
    BY <1>1, <2>1 DEF Next, Reach, EndReach, Classify, BeginSearch, EndSearch
  <2>3. PICK e \in search.todo : Follow(e) \/ Pass(e)
    BY <1>1, <2>2 DEF Look, Find
  <2>4. search \in [of : Vars \cup {Page}, visited : SUBSET Vars, todo : SUBSET Reads]
    BY <1>1 DEF IInv, TypeOK
  <2>5. CASE Follow(e)
    BY <2>4, <2>5 DEF Follow
  <2>6. CASE Pass(e)
    BY <2>3, <2>4, <2>6 DEF Pass
  <2> QED
    BY <2>3, <2>5, <2>6
<1>2. IInv /\ [Next]_vars =>
        [ search # Idle /\ search' # Idle =>
          \/ search'.visited # search.visited /\ search.visited \subseteq search'.visited
          \/ search'.visited = search.visited /\ search'.todo # search.todo /\ search'.todo \subseteq search.todo ]_vars
  BY <1>1
<1> QED
  BY <1>2, Invariance, PTL DEF Spec, SearchesEnd

=============================================================================
