----------------------------- MODULE ModuleGraph -----------------------------
(***************************************************************************)
(* The module dependency graph (watcher/module_graph.rs): for every path,  *)
(* the paths it imports and the paths that import it.  A path without a    *)
(* node is a path with neither.                                            *)
(***************************************************************************)
EXTENDS Naturals, FiniteSets

CONSTANT Key      \* the paths that can name a node

Graphs == [dependencies : [Key -> SUBSET Key], dependents : [Key -> SUBSET Key]]

NoEdges == [k \in Key |-> {}]
NewGraph == [dependencies |-> NoEdges, dependents |-> NoEdges]

(* update_module: the module's dependencies are replaced, and it is a      *)
(* dependent of those and of no other path.                                *)
UpdateModule(graph, path, new) ==
    LET old == graph.dependencies[path]
    IN  [dependencies |-> [graph.dependencies EXCEPT ![path] = new],
         dependents   |-> [k \in Key |->
             IF k \in new THEN graph.dependents[k] \cup {path}
             ELSE IF k \in old THEN graph.dependents[k] \ {path}
             ELSE graph.dependents[k]]]

(* Mutant: only the direct dependents. *)
MutTransitiveDependents(graph, path) == {path} \cup graph.dependents[path]

(* get_transitive_dependents, a breadth-first search upwards: the path     *)
(* itself, whatever the graph holds, and those reached from it, which are  *)
(* in every set that holds its dependents and those of its own members.    *)
TransitiveDependents(graph, path) ==
    LET importers == UNION {graph.dependents[k] : k \in Key}
        closed == {found \in SUBSET importers :
                      \A k \in found \cup {path} : graph.dependents[k] \subseteq found}
    IN  {path} \cup {k \in importers : \A found \in closed : k \in found}

(* The two directions of every edge agree. *)
Mirrored(graph) ==
    \A k, l \in Key : l \in graph.dependencies[k] <=> k \in graph.dependents[l]
=============================================================================
