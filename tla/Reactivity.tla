----------------------------- MODULE Reactivity -----------------------------
(***************************************************************************)
(* The reactivity analysis of the component compiler: which variables of   *)
(* a component become signals, which become computed values, and which     *)
(* stay what they are.  It reads                                           *)
(* vertz-compiler-core/src/reactivity_analyzer.rs.                         *)
(*                                                                         *)
(* The input is a component after parsing: what each variable is declared  *)
(* as and who reads whom.  The page, the component's JSX, is one more      *)
(* reader.  The analysis first closes the names the page reads under the   *)
(* dependencies of what is not a `let`, in the order of a hash map, and    *)
(* then classifies each variable; a plain `const` is searched for          *)
(* something reactive, in the order of a hash set.  Both orders are any    *)
(* order here.                                                             *)
(***************************************************************************)
EXTENDS Naturals

CONSTANTS Vars,      \* the variables declared in the component's body
          Prop,      \* a destructured prop of the component
          Page,      \* the component's JSX
          MaxReads   \* bound: the reads of one component

ASSUME ReactivityAssumption ==
    /\ Prop \notin Vars /\ Page \notin Vars /\ Prop # Page
    /\ MaxReads \in Nat \ {0}

(***************************************************************************)
(* What a variable is declared as.  "api" is the object of query(), form() *)
(* and the like, or of an import the manifest calls a signal API; "source" *)
(* is the object of useContext() and the like, "hook" that of an import    *)
(* the manifest calls a reactive source.  The names ending in Prop are     *)
(* destructured from such a call: a signal property, a plain one, one of a *)
(* source, one of a hook.  "stable" is a function or a literal.            *)
(***************************************************************************)
Destructured == {"signalProp", "plainProp", "sourceProp", "hookProp"}
Kinds == {"let", "const", "stable", "api", "source", "hook"} \cup Destructured

(***************************************************************************)
(* A read is the reader, the name, and how: the value itself, or of an api *)
(* object a signal property or a signal of one of its fields.              *)
(***************************************************************************)
Reads ==
    { <<v, n, "value">> : v \in Vars, n \in Vars \cup {Prop} }
    \cup { <<Page, n, "value">> : n \in Vars \cup {Prop} }
    \cup { <<r, a, how>> : r \in Vars \cup {Page}, a \in Vars, how \in {"signal", "field"} }

VARIABLES kind,       \* what each variable is declared as
          reads,      \* who reads whom
          reachable,  \* jsx_reachable
          stage,      \* "reaching", then "classifying"
          class,      \* the ReactivityKind of each variable, or "none" yet
          search      \* the search of depends_on_reactive, or Idle

input == <<kind, reads>>
vars == <<kind, reads, reachable, stage, class, search>>

Idle == [of |-> Page, visited |-> {}, todo |-> {}]
IsApi(v) == kind[v] \in {"api", "hook"}

(***************************************************************************)
(* VarMeta.deps and property_accesses: a destructured binding is recorded  *)
(* without the dependencies of its initialiser.                            *)
(***************************************************************************)
DepsOf(v) == { e \in reads : e[1] = v /\ kind[v] \notin Destructured }

TypeOK ==
    /\ kind \in [Vars -> Kinds]
    /\ reads \subseteq Reads
    /\ reachable \subseteq Vars \cup {Prop}
    /\ stage \in {"reaching", "classifying"}
    /\ class \in [Vars -> {"none", "signal", "computed", "static"}]
    /\ search \in [of : Vars \cup {Page}, visited : SUBSET Vars, todo : SUBSET Reads]
    /\ search.todo \subseteq { e \in reads : e[1] \in search.visited }

(***************************************************************************)
(* A component a parser can hand over: no variable reads itself, and only  *)
(* the objects of an api have signals among their properties.              *)
(***************************************************************************)
ReadSets ==
    { { f[i] : i \in 1 .. MaxReads } :
        f \in [1 .. MaxReads -> { e \in Reads : e[1] # e[2] }] }

Init ==
    /\ kind \in [Vars -> Kinds]
    /\ reads \in ReadSets
    /\ \A e \in reads : e[3] # "value" => kind[e[2]] = "api"
    /\ reachable = { e[2] : e \in { f \in reads : f[1] = Page } }
    /\ stage = "reaching"
    /\ class = [v \in Vars |-> "none"]
    /\ search = Idle

(***************************************************************************)
(* classify_variables, step 2: what is reachable takes its dependencies    *)
(* along unless it is a `let`.                                             *)
(***************************************************************************)
Spreads(v) == kind[v] # "let"

Reach ==
    /\ stage = "reaching"
    /\ \E v \in reachable \cap Vars : \E e \in DepsOf(v) :
         /\ Spreads(v)
         /\ e[2] \notin reachable
         /\ reachable' = reachable \cup {e[2]}
    /\ UNCHANGED <<input, stage, class, search>>

(* Mutant: one round of the loop, whatever it changed. *)
MutOneRound == TRUE

Settled == \A v \in reachable \cap Vars : \A e \in DepsOf(v) : Spreads(v) => e[2] \in reachable

EndReach ==
    /\ stage = "reaching"
    /\ Settled
    /\ stage' = "classifying"
    /\ UNCHANGED <<input, reachable, class, search>>

(***************************************************************************)
(* classify_variables, step 3.  What is not searched for something         *)
(* reactive is classified by its declaration.                              *)
(***************************************************************************)
Searched(v) == kind[v] \in {"const", "source"}

ClassAtOnce(v) ==
    IF kind[v] \in {"signalProp", "sourceProp"} \/ (kind[v] = "let" /\ v \in reachable)
    THEN "signal" ELSE "static"

Classify(v) ==
    /\ stage = "classifying" /\ search = Idle
    /\ class[v] = "none" /\ ~Searched(v)
    /\ class' = [class EXCEPT ![v] = ClassAtOnce(v)]
    /\ UNCHANGED <<input, reachable, stage, search>>

BeginSearch(v) ==
    /\ stage = "classifying" /\ search = Idle
    /\ class[v] = "none" /\ Searched(v)
    /\ search' = [of |-> v, visited |-> {v}, todo |-> DepsOf(v)]
    /\ UNCHANGED <<input, reachable, stage, class>>

(***************************************************************************)
(* depends_on_reactive_inner: one dependency of a variable on the way.  It *)
(* settles the search, or it is followed unless it was, or it ends there.  *)
(***************************************************************************)
IsReactive(e) ==
    \/ e[2] = Prop
    \/ /\ e[2] # Prop
       /\ \/ kind[e[2]] = "let" /\ e[2] \in reachable
          \/ IsApi(e[2]) /\ e[3] = "signal"
          \/ kind[e[2]] \in {"source", "sourceProp"}

(* Mutant: only what is read directly counts. *)
MutDirectOnly(e) == FALSE

IsFollowed(e) == e[2] # Prop /\ ~IsApi(e[2]) /\ kind[e[2]] # "stable"

Find(e) ==
    /\ IsReactive(e)
    /\ class' = [class EXCEPT ![search.of] = "computed"]
    /\ search' = Idle

Follow(e) ==
    /\ ~IsReactive(e) /\ IsFollowed(e) /\ e[2] \notin search.visited
    /\ search' = [search EXCEPT !.visited = @ \cup {e[2]},
                                !.todo = (@ \ {e}) \cup DepsOf(e[2])]
    /\ UNCHANGED class

Pass(e) ==
    /\ ~IsReactive(e) /\ (IsFollowed(e) => e[2] \in search.visited)
    /\ search' = [search EXCEPT !.todo = @ \ {e}]
    /\ UNCHANGED class

Look ==
    /\ \E e \in search.todo : Find(e) \/ Follow(e) \/ Pass(e)
    /\ UNCHANGED <<input, reachable, stage>>

EndSearch ==
    /\ search # Idle /\ search.todo = {}
    /\ class' = [class EXCEPT ![search.of] = "static"]
    /\ search' = Idle
    /\ UNCHANGED <<input, reachable, stage>>

Next ==
    \/ Reach \/ EndReach \/ Look \/ EndSearch
    \/ \E v \in Vars : Classify(v) \/ BeginSearch(v)

Spec == Init /\ [][Next]_vars

-----------------------------------------------------------------------------
(***************************************************************************)
(* What the classification is for: the compiled component re-evaluates a   *)
(* computed value, and an expression of the page, when a signal it reads   *)
(* changes, and evaluates everything else once.  The properties follow the *)
(* reads of the text, not the analysis's record of them.                   *)
(***************************************************************************)
Done == \A v \in Vars : class[v] # "none"

Names == Vars \cup {Prop, Page}
Closed(S, E) == \A e \in E : e[1] \in S => e[2] \in S
From(n, E) == { m \in Names : \A S \in SUBSET Names : n \in S /\ Closed(S, E) => m \in S }

IsKind(n, K) == n \in Vars /\ kind[n] \in K

\* What the page shows, through any declarations except the first value of a `let`.
\* A destructured call is the exception the analysis makes: its arguments are not followed.
Shows == { e \in reads : ~IsKind(e[1], {"let"} \cup Destructured) }

\* A `let` is a signal exactly if the page shows it, directly or through what other
\* declarations do with it, in whatever order the hash maps are walked: an assignment
\* to it reaches the page, and no other `let` pays for being one.
SignalsAreWhatThePageShows ==
    \A v \in Vars : kind[v] = "let" /\ class[v] # "none" =>
        (class[v] = "signal" <=> v \in From(Page, Shows))

\* One `const` computed from another.
Derives == { e \in reads : IsKind(e[1], {"const"}) /\ IsKind(e[2], {"const"}) }

\* What in a read changes after the first evaluation.
ReadsState(e) ==
    \/ e[2] = Prop
    \/ IsKind(e[2], {"let", "source"} \cup (Destructured \ {"plainProp"}))
    \/ IsKind(e[2], {"api"}) /\ e[3] \in {"signal", "field"}

\* State the search does not take for such, though it changes: what was destructured from
\* a signal api or a hook, and a signal of a field (depends_on_reactive_inner).
Overlooked(e) ==
    \/ IsKind(e[2], {"signalProp", "hookProp"})
    \/ IsKind(e[2], {"api"}) /\ e[3] = "field"

Recognised(e) == ReadsState(e) /\ ~Overlooked(e)

\* A `const` the page shows is computed if it derives, through any chain of others (not of
\* functions and literals), from a `let`, a prop, a context, or a signal property read from
\* the object of its api: the page does not keep its first value.  It does keep it when
\* all the state behind the `const` is overlooked.
ShownDerivationsAreComputed ==
    \A v \in Vars : kind[v] = "const" /\ class[v] # "none" /\ v \in From(Page, Shows) =>
        ((\E e \in reads : e[1] \in From(v, Derives) /\ Recognised(e)) => class[v] = "computed")

\* A computed value reads, directly or through other variables, state that is not
\* overlooked: no constant pays for being one, and what derives from overlooked state
\* alone is never computed.
ComputedsDeriveFromState ==
    \A v \in Vars : class[v] = "computed" =>
        \E e \in reads : e[1] \in From(v, { f \in reads : IsKind(f[2], {"let", "const"}) }) /\ Recognised(e)

\* Every step of a search takes it closer to its end, whatever refers to whom: it takes up
\* a variable it has not seen, or drops a read. Two closures that name each other end it too.
SearchesEnd ==
    [][ search # Idle /\ search' # Idle =>
          \/ search'.visited # search.visited /\ search.visited \subseteq search'.visited
          \/ search'.visited = search.visited /\ search'.todo # search.todo /\ search'.todo \subseteq search.todo ]_vars
=============================================================================
