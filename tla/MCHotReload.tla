----------------------------- MODULE MCHotReload -----------------------------
(* A bounded instance for TLC: app imports list, and list may import item; *)
(* app imports item too, but with "../", and item app by a dynamic import  *)
(* that the scanner does not see.  Every save of list chooses whether the  *)
(* new text imports item.                                                  *)
EXTENDS HotReload
CONSTANTS app, list, item
MCModule == {app, list, item}
MCImports == [m \in MCModule |->
    CASE m = app -> {{list, item}} [] m = list -> {{item}, {}} [] m = item -> {{app}}]
MCUpward == {<<app, item>>}
MCUnseen == {<<item, app>>}
=============================================================================
