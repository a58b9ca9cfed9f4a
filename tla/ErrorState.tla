----------------------------- MODULE ErrorState -----------------------------
(***************************************************************************)
(* The dev server's error state (errors/categories.rs): the active errors  *)
(* of each category, where the errors of a higher-priority category        *)
(* suppress those of every lower one.                                      *)
(*                                                                         *)
(* An error is its category, its file and its message: `add` keeps one of  *)
(* those that agree on message and file, so a category's list is a set.    *)
(* `add` is the only way an entry is created and it always puts an error   *)
(* in it, and the other operations drop an entry they empty, so a category *)
(* without an entry is one whose set is empty.                             *)
(***************************************************************************)
EXTENDS Integers

CONSTANTS File,     \* source files an error can point at
          Message   \* error messages, up to formatting

Category == {"build", "resolve", "typecheck", "ssr", "runtime"}

Priority == [build |-> 4, resolve |-> 3, typecheck |-> 2, ssr |-> 1, runtime |-> 0]

Suppresses(higher, lower) == Priority[higher] > Priority[lower]

DevError == [category : Category, file : File, message : Message]

ErrorsOf(category) == {e \in DevError : e.category = category}

\* The states of ErrorState: errors are filed under their own category.
ErrorStates ==
  {es \in [Category -> SUBSET DevError] : \A c \in Category : es[c] \subseteq ErrorsOf(c)}

NoErrors == [c \in Category |-> {}]

HasErrors(es) == \E c \in Category : es[c] # {}

\* is_suppressed, and has_higher_priority_errors: a category never suppresses itself.
IsSuppressed(es, category) == \E c \in Category : es[c] # {} /\ Suppresses(c, category)

\* active_errors: all errors of the highest-priority category that has any.
ActiveErrors(es) ==
  {e \in DevError : e \in es[e.category] /\ ~ IsSuppressed(es, e.category)}

Add(es, e) == [es EXCEPT ![e.category] = @ \cup {e}]

Clear(es, category) == [es EXCEPT ![category] = {}]

ClearFile(es, category, file) ==
  [es EXCEPT ![category] = {e \in @ : e.file # file}]

ReplaceCategory(es, category, new) == [es EXCEPT ![category] = new]
=============================================================================
