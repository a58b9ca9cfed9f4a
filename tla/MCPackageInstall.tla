-------------------------- MODULE MCPackageInstall --------------------------
(***************************************************************************)
(* An instance of PackageInstall: three packages that need a fourth, lib,  *)
(* which has two versions.                                                 *)
(***************************************************************************)
EXTENDS PackageInstall

old == 1
new == 2
either == {old, new}

\* Names, in the order of the keys.
app == 1
lib == 2
tool == 3

On(n, range) == [name |-> n, range |-> range]
Version(n, v) == [name |-> n, version |-> v]

MCCatalog == {Version(app, old), Version(lib, old), Version(lib, new), Version(tool, old)}
MCFirstPublished == MCCatalog \ {Version(lib, new)}
\* app needs the new lib, tool takes any.
MCNeeds == [p \in MCCatalog |->
    CASE p.name = app  -> {On(lib, {new})}
      [] p.name = tool -> {On(lib, either)}
      [] OTHER         -> {}]
\* With the first, both versions of lib end up at the top; with the second there
\* is the old one alone or, resolved anew once the new one is out, the old one in
\* tool and the new one at the top.
MCPackageJsons == {
    {On(app, {old}), On(lib, {old})},
    {On(tool, {old}), On(lib, {old})}}
Tool == {Version(tool, old)}
=============================================================================
