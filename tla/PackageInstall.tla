--------------------------- MODULE PackageInstall ---------------------------
(***************************************************************************)
(* One project's `vertz install`: pm/mod.rs (install), with the resolver   *)
(* (pm/resolver.rs), the global store (pm/tarball.rs), the linker          *)
(* (pm/linker.rs), saved patches (pm/patch.rs), postinstall scripts        *)
(* (pm/scripts.rs) and the lockfile.  An install resolves, downloads,      *)
(* links, patches, runs scripts and writes the lockfile, in this order,    *)
(* and may die between any two of these and between two packages.          *)
(*                                                                         *)
(* A package is a name and a version.  A package directory is one file:    *)
(* the version it came from and what was done to it since.  A file of      *)
(* node_modules is a hard link to the store's file or a file of its own.   *)
(* Names and versions are numbers, in the order of the "name@version" keys *)
(* of the code's BTreeMaps.  Ranges are the sets of versions they admit.   *)
(*                                                                         *)
(* Left out: overrides, optional, GitHub and workspace dependencies, bin   *)
(* stubs, and two installs at once (AutoInstall models those).  --frozen   *)
(* only refuses some installs, so its installs are among those below.      *)
(***************************************************************************)
EXTENDS Naturals, FiniteSets, Functions

CONSTANTS
    Catalog,         \* every package the registry ever serves
    FirstPublished,  \* those it serves at first
    Needs,           \* the dependencies of each package
    PackageJsons,    \* the dependencies package.json may have
    Scripted,        \* the packages with a postinstall script
    Patchable,       \* bound: the names of the packages the developer patches
    Top,             \* node_modules itself, as the parent of a path
    None             \* no manifest, no version

Names == {p.name : p \in Catalog}
Dependencies == (UNION PackageJsons) \cup (UNION {Needs[p] : p \in Catalog})

ASSUME CatalogAssumption ==
    /\ Catalog \subseteq [name : Nat, version : Nat]
    /\ IsFiniteSet(Catalog)
    /\ FirstPublished \subseteq Catalog /\ Scripted \subseteq Catalog
    /\ Patchable \subseteq Names
    /\ DOMAIN Needs = Catalog
    /\ Dependencies \subseteq [name : Names, range : SUBSET Nat]
    /\ Top \notin Names /\ None \notin Catalog

VARIABLES
    deps,       \* package.json: dependencies, by name and range
    patched,    \* package.json: the saved patches, see Patches
    published,  \* what the registry serves
    lock,       \* vertz.lock: name and range to package
    store,      \* the global store: what each package's directory holds
    nm,         \* node_modules: each path's file
    backup,     \* node_modules/.vertz-patches: the package being patched as it
                \* was, with what is nested in it
    manifest,   \* .vertz-manifest.json
    step,       \* what the running install does next
    chosen,     \* the package resolved for every dependency met
    todo,       \* the manifest entries still to prune or to link
    full,       \* whether this install relinks everything
    settled,    \* history: the last install ran to its end, nothing changed since
    doubled,    \* history: packages linked in one plan with another version
    shared,     \* history: packages linked in one plan with another at their path
    stranded,   \* history: packages of an incremental link that was interrupted,
                \* another version of which has a script
    relinked,   \* history: packages linked while a package of their name was
                \* being patched
    cutOff      \* history: linking was interrupted and nothing relinked fully since

project  == <<deps, patched, published>>
disk     == <<store, nm, backup>>
links    == <<doubled, shared, stranded, relinked, cutOff>>
history  == <<settled, links>>
vars == <<project, lock, disk, manifest, step, chosen, todo, full, history>>

-----------------------------------------------------------------------------
(* Resolution: resolver.rs. *)

Before(p, q) == p.name < q.name \/ (p.name = q.name /\ p.version < q.version)
First(P) == CHOOSE p \in P : \A q \in P \ {p} : Before(p, q)
Last(P) == CHOOSE p \in P : \A q \in P \ {p} : Before(q, p)
Meets(p, d) == p.name = d.name /\ p.version \in d.range

\* The package a dependency gets: what the lockfile pins for this very name and
\* range, else the highest published version in the range.
Pick(d, locked, served) ==
    LET fit == {p \in served : Meets(p, d)}
    IN  IF d \in DOMAIN locked THEN locked[d]
        ELSE IF fit = {} THEN None ELSE Last(fit)

NeedsOf(p) == IF p = None THEN {} ELSE Needs[p]

\* Every dependency met from the given ones: what the breadth-first walk finds
\* is the least set that holds them and all that their packages need.
Met(given, locked, served) ==
    LET leads == UNION {{d} \X NeedsOf(Pick(d, locked, served)) : d \in Dependencies}
        closed == {S \in SUBSET Dependencies :
                      given \subseteq S /\ \A e \in leads : e[1] \in S => e[2] \in S}
    IN  {d \in Dependencies : \A S \in closed : d \in S}

Resolution(given, locked, served) ==
    [d \in Met(given, locked, served) |-> Pick(d, locked, served)]

\* The version of a package that stays at the top.  The code counts dependents
\* of each version without looking at their ranges, so that all versions tie
\* and the highest wins.
Hoisted(P, n) == Last({p \in P : p.name = n})

\* Where hoist puts a package: at the top, or under the first package whose
\* dependency it would meet.  package.json is no package: a version only the
\* project itself depends on finds no parent and stays at the top too.
Parent(P, p) ==
    LET dependents == {q \in P : \E d \in Needs[q] : Meets(p, d)}
    IN  IF p = Hoisted(P, p.name) \/ dependents = {} THEN Top
        ELSE First(dependents).name

\* The manifest build_manifest derives from the hoisted graph.
Plan(P) == {[pkg |-> p, in |-> Parent(P, p),
             patch |-> p.name \in {q.pkg.name : q \in patched}] : p \in P}

Resolved == Range(chosen)
Planned == Plan(Resolved)

\* Mutant: only the project's own dependencies are locked.
MutLockfile(plan) ==
    [d \in deps |-> First({e.pkg : e \in {x \in plan : x.in = Top /\ x.pkg.name = d.name}})]

\* graph_to_lockfile: the project's dependencies by name, from the top; then
\* those of packages, each with the first package of the graph that meets it.
Lockfile(plan) ==
    LET P == {e.pkg : e \in plan}
        tops(n) == {e.pkg : e \in {x \in plan : x.in = Top /\ x.pkg.name = n}}
        fits(d) == {p \in P : Meets(p, d)}
        inner == {d \in UNION {Needs[p] : p \in P} : fits(d) # {}} \ deps
    IN  [d \in deps \cup inner |-> IF d \in deps THEN First(tops(d.name)) ELSE First(fits(d))]

-----------------------------------------------------------------------------
(* Files: linker.rs and the store. *)

\* f with y at x.
Put(f, x, y) == [z \in DOMAIN f \cup {x} |-> IF z = x THEN y ELSE f[z]]

Edits == {"patch", "build"}
Contents == [of : Catalog, edits : SUBSET Edits]
Pristine(p) == [of |-> p, edits |-> {}]
Edit(content, how) == [content EXCEPT !.edits = @ \cup {how}]

Link(p) == [kind |-> "link", to |-> p]
Copy(content) == [kind |-> "copy", content |-> content]
Files == [kind : {"link"}, to : Catalog] \cup [kind : {"copy"}, content : Contents]

Paths == [in : Names \cup {Top}, name : Names]
PathOf(e) == [in |-> e.in, name |-> e.pkg.name]
AtTop(n) == [in |-> Top, name |-> n]
Tree(path) == {path} \cup IF path.in = Top THEN [in : {path.name}, name : Names] ELSE {}

Content(file) == IF file.kind = "link" THEN store[file.to] ELSE file.content
Without(paths) == Restrict(nm, DOMAIN nm \ paths)
\* Mutant: packages with scripts are hard-linked too.
MutCopied(e) == e.patch

Copied(e) == e.patch \/ e.pkg \in Scripted

\* Puts a package's file at its path of tree: a copy for a patched or scripted
\* package, else a hard link.  Over an existing file both end in fs::copy, which
\* writes into that file, and through a hard link into the store.
Place(e, tree) ==
    LET path == PathOf(e)
        content == store[e.pkg]
    IN  IF path \notin DOMAIN tree
        THEN /\ nm' = Put(tree, path, IF Copied(e) THEN Copy(content) ELSE Link(e.pkg))
             /\ UNCHANGED store
        ELSE IF tree[path].kind = "link"
        THEN /\ store' = [store EXCEPT ![tree[path].to] = content]
             /\ nm' = tree
        ELSE /\ nm' = [tree EXCEPT ![path] = Copy(content)]
             /\ UNCHANGED store

\* Something edits the files at the given paths in place.
EditInPlace(paths, how) ==
    LET files == {path \in paths : path \in DOMAIN nm}
        linked == {nm[path].to : path \in {x \in files : nm[x].kind = "link"}}
    IN  /\ store' = [p \in DOMAIN store |->
                        IF p \in linked THEN Edit(store[p], how) ELSE store[p]]
        /\ nm' = [path \in DOMAIN nm |->
                     IF path \in files /\ nm[path].kind = "copy"
                     THEN Copy(Edit(nm[path].content, how)) ELSE nm[path]]

-----------------------------------------------------------------------------
(* The install, step by step: mod.rs. *)

Init ==
    /\ deps \in PackageJsons
    /\ patched = {}
    /\ published = FirstPublished
    /\ lock = <<>> /\ store = <<>> /\ nm = <<>> /\ backup = <<>>
    /\ manifest = None
    /\ step = "idle" /\ chosen = <<>> /\ todo = {} /\ full = FALSE
    /\ settled = FALSE
    /\ doubled = {} /\ shared = {} /\ stranded = {} /\ relinked = {} /\ cutOff = FALSE

\* Mutant: dependencies that nothing meets are passed over.
MutResolve ==
    /\ step = "idle"
    /\ chosen' = Resolution(deps, lock, published)
    /\ step' = "fetch"
    /\ settled' = FALSE
    /\ UNCHANGED <<project, lock, disk, manifest, todo, full, links>>

\* Reads package.json and the lockfile and resolves; with a dependency nothing
\* meets, the install fails here and changes nothing.
Resolve ==
    /\ step = "idle"
    /\ LET found == Resolution(deps, lock, published)
       IN  None \notin Range(found) /\ chosen' = found
    /\ step' = "fetch"
    /\ settled' = FALSE
    /\ UNCHANGED <<project, lock, disk, manifest, todo, full, links>>

\* Downloads are unpacked aside and renamed into the store.
Fetch ==
    /\ step = "fetch"
    /\ \E p \in Resolved \ DOMAIN store : store' = Put(store, p, Pristine(p))
    /\ UNCHANGED <<project, lock, nm, backup, manifest, step, chosen, todo, full, history>>

\* link_packages_incremental, with everything in the store: what an earlier
\* manifest has and the new one has not is pruned; without a manifest, or by
\* --force, node_modules goes as a whole.
StartLinking ==
    /\ step = "fetch" /\ Resolved \subseteq DOMAIN store
    /\ \E force \in BOOLEAN :
         IF manifest = None \/ force
         THEN full' = TRUE /\ step' = "wipe" /\ todo' = {}
         ELSE /\ full' = FALSE /\ step' = "prune"
              /\ todo' = {e \in manifest :
                             ~\E x \in Planned : x.pkg = e.pkg /\ x.in = e.in}
    /\ doubled' = doubled \cup {p \in Resolved : \E q \in Resolved \ {p} : q.name = p.name}
    /\ shared' = shared \cup {e.pkg : e \in {x \in Planned :
                                \E y \in Planned \ {x} : PathOf(y) = PathOf(x)}}
    /\ UNCHANGED <<project, lock, disk, manifest, chosen, settled, stranded, relinked, cutOff>>

\* remove_dir_all of node_modules, entry by entry in the file system's order.
Wipe ==
    /\ step = "wipe"
    /\ \/ \E path \in DOMAIN nm :
            nm' = Without(Tree(path)) /\ UNCHANGED <<backup, manifest, step, todo>>
       \/ backup # <<>> /\ backup' = <<>> /\ UNCHANGED <<nm, manifest, step, todo>>
       \/ manifest # None /\ manifest' = None /\ UNCHANGED <<nm, backup, step, todo>>
       \/ /\ nm = <<>> /\ backup = <<>> /\ manifest = None
          /\ step' = "link" /\ todo' = Planned
          /\ UNCHANGED <<nm, backup, manifest>>
    /\ UNCHANGED <<project, lock, store, chosen, full, history>>

\* Mutant: a package is new when its name is.
MutPrune ==
    /\ step = "prune"
    /\ IF todo # {}
       THEN \E e \in todo :
              nm' = Without(Tree(PathOf(e))) /\ todo' = todo \ {e} /\ UNCHANGED step
       ELSE /\ nm' = nm /\ step' = "link"
            /\ todo' = {e \in Planned : ~\E x \in manifest : PathOf(x) = PathOf(e)}
    /\ UNCHANGED <<project, lock, store, backup, manifest, chosen, full, history>>

\* What is left of the old manifest goes; then what is new or changed is linked.
Prune ==
    /\ step = "prune"
    /\ IF todo # {}
       THEN \E e \in todo :
              nm' = Without(Tree(PathOf(e))) /\ todo' = todo \ {e} /\ UNCHANGED step
       ELSE nm' = nm /\ step' = "link" /\ todo' = Planned \ manifest
    /\ UNCHANGED <<project, lock, store, backup, manifest, chosen, full, history>>

\* The next package in the order of the graph.  An incremental link first
\* removes its directory, and with it what is nested in it.
LinkPackage ==
    /\ step = "link" /\ todo # {}
    /\ LET next == CHOOSE e \in todo : e.pkg = First({x.pkg : x \in todo})
       IN  /\ Place(next, IF full THEN nm ELSE Without(Tree(PathOf(next))))
           /\ todo' = todo \ {next}
           /\ relinked' = IF AtTop(next.pkg.name) \in DOMAIN backup
                          THEN relinked \cup {next.pkg} ELSE relinked
    /\ UNCHANGED <<project, lock, backup, manifest, step, chosen, full, settled, doubled, shared, stranded, cutOff>>

WriteManifest ==
    /\ step = "link" /\ todo = {}
    /\ manifest' = Planned
    /\ step' = "patch"
    /\ cutOff' = (cutOff /\ ~full)
    /\ UNCHANGED <<project, lock, disk, chosen, todo, full, settled, doubled, shared, stranded, relinked>>

\* A patch is saved for a package, as the difference to what its directory held
\* when it was begun.
Patches == [pkg : Catalog, base : Catalog]

\* apply_patches: refuses another version than the patch was saved for.  It does
\* not apply where its context is missing: to a package it has been applied to,
\* nor anywhere if it is the difference to another version.
CanPatch(q) ==
    /\ AtTop(q.pkg.name) \in DOMAIN nm
    /\ q.base = q.pkg
    /\ LET content == Content(nm[AtTop(q.pkg.name)])
       IN  content.of = q.pkg /\ "patch" \notin content.edits

\* Mutant: a patch that does not apply is passed over.
MutApplyPatches ==
    /\ step = "patch"
    /\ nm' = [path \in DOMAIN nm |->
                 IF path \in {AtTop(q.pkg.name) : q \in {x \in patched : CanPatch(x)}}
                 THEN Copy(Edit(Content(nm[path]), "patch")) ELSE nm[path]]
    /\ step' = "scripts"
    /\ UNCHANGED <<project, lock, store, backup, manifest, chosen, todo, full, history>>

\* All saved patches, or the install fails (Abort).
ApplyPatches ==
    /\ step = "patch"
    /\ \A q \in patched : CanPatch(q)
    /\ nm' = [path \in DOMAIN nm |->
                 IF path \in {AtTop(q.pkg.name) : q \in patched}
                 THEN Copy(Edit(Content(nm[path]), "patch")) ELSE nm[path]]
    /\ step' = "scripts"
    /\ UNCHANGED <<project, lock, store, backup, manifest, chosen, todo, full, history>>

\* The scripts the policy trusts run in the directory of their package's name
\* at the top, wherever that package was linked.
RunScripts ==
    /\ step = "scripts"
    /\ \E trusted \in BOOLEAN :
         IF trusted
         THEN EditInPlace({AtTop(p.name) : p \in Resolved \cap Scripted}, "build")
         ELSE UNCHANGED disk
    /\ step' = "lock"
    /\ UNCHANGED <<project, lock, backup, manifest, chosen, todo, full, history>>

WriteLock ==
    /\ step = "lock"
    /\ lock' = Lockfile(Planned)
    /\ step' = "idle" /\ full' = FALSE
    /\ settled' = TRUE
    /\ UNCHANGED <<project, disk, manifest, chosen, todo, links>>

\* The install is killed, a download fails or a patch does not apply.
Abort ==
    /\ step # "idle"
    /\ step' = "idle" /\ chosen' = <<>> /\ todo' = {} /\ full' = FALSE
    /\ cutOff' = (cutOff \/ step \in {"wipe", "prune", "link"})
    /\ stranded' = stranded \cup IF step # "link" \/ full THEN {}
                                 ELSE {p \in Resolved : \E q \in Scripted \ {p} : q.name = p.name}
    /\ UNCHANGED <<project, lock, disk, manifest, settled, doubled, shared, relinked>>

-----------------------------------------------------------------------------
(* Between installs. *)

\* The developer, or pm::add and pm::remove, change the dependencies; a patch
\* may be dropped from package.json.
ChangePackageJson ==
    /\ step = "idle"
    /\ deps' \in PackageJsons
    /\ patched' \in {patched, {}}
    /\ <<deps', patched'>> # <<deps, patched>>
    /\ settled' = FALSE /\ chosen' = <<>>
    /\ UNCHANGED <<published, lock, disk, manifest, step, todo, full, links>>

\* pm::update: the dependencies of which there is a newer version in range lose
\* all entries of their name in the lockfile; an install follows.
Update ==
    /\ step = "idle"
    /\ \E targets \in SUBSET (deps \cap DOMAIN lock) :
         LET newer == {d \in targets : Pick(d, <<>>, published) \notin {None, lock[d]}}
             names == {d.name : d \in newer}
         IN  /\ newer # {}
             /\ lock' = Restrict(lock, {d \in DOMAIN lock : d.name \notin names})
    /\ settled' = FALSE /\ chosen' = <<>>
    /\ UNCHANGED <<project, disk, manifest, step, todo, full, links>>

\* vertz patch: what is to be edited is backed up and no link any more.  Bounds:
\* one session at a time, and none while a patch is saved or after one during
\* which something was linked.
PatchPrepare ==
    /\ step = "idle" /\ patched = {} /\ backup = <<>> /\ relinked = {}
    /\ \E n \in Patchable \cap {d.name : d \in deps} :
         LET paths == Tree(AtTop(n)) \cap DOMAIN nm
         IN  /\ AtTop(n) \in paths
             /\ backup' = [path \in paths |-> Content(nm[path])]
             /\ nm' = [path \in DOMAIN nm |->
                          IF path \in paths THEN Copy(Content(nm[path])) ELSE nm[path]]
    /\ settled' = FALSE /\ chosen' = <<>>
    /\ UNCHANGED <<project, lock, store, manifest, step, todo, full, links>>

\* The package being patched, if it is still there.
Session == {path \in DOMAIN backup \cap DOMAIN nm : path.in = Top}

\* The developer edits it, whatever its files have become.
EditPackage ==
    /\ step = "idle"
    /\ \E path \in Session :
         /\ "patch" \notin Content(nm[path]).edits
         /\ EditInPlace({path}, "patch")
    /\ settled' = FALSE /\ chosen' = <<>>
    /\ UNCHANGED <<project, lock, backup, manifest, step, todo, full, links>>

\* vertz patch save: the difference to the backup, for the version that is there.
PatchSave ==
    /\ step = "idle"
    /\ \E path \in Session :
         LET content == Content(nm[path])
         IN  patched' = IF content = backup[path] THEN patched
                        ELSE {[pkg |-> content.of, base |-> backup[path].of]}
    /\ backup' = <<>>
    /\ settled' = FALSE /\ chosen' = <<>>
    /\ UNCHANGED <<deps, published, lock, store, nm, manifest, step, todo, full, links>>

\* vertz patch discard: the backup takes the place of what is there.
PatchDiscard ==
    /\ step = "idle"
    /\ \E path \in Session :
         nm' = [p \in DOMAIN backup \cup (DOMAIN nm \ Tree(path)) |->
                   IF p \in DOMAIN backup THEN Copy(backup[p]) ELSE nm[p]]
    /\ backup' = <<>>
    /\ settled' = FALSE /\ chosen' = <<>>
    /\ UNCHANGED <<project, lock, store, manifest, step, todo, full, links>>

\* The registry gets a new version.
Publish ==
    /\ step = "idle"
    /\ \E p \in Catalog \ published : published' = published \cup {p}
    /\ UNCHANGED <<deps, patched, lock, disk, manifest, step, chosen, todo, full, history>>

Next ==
    \/ Resolve \/ Fetch \/ StartLinking \/ Wipe \/ Prune \/ LinkPackage \/ WriteManifest
    \/ ApplyPatches \/ RunScripts \/ WriteLock \/ Abort
    \/ ChangePackageJson \/ Update \/ Publish
    \/ PatchPrepare \/ EditPackage \/ PatchSave \/ PatchDiscard

Spec == Init /\ [][Next]_vars

-----------------------------------------------------------------------------
(* Properties. *)

Entries == [pkg : Catalog, in : Names \cup {Top}, patch : BOOLEAN]

IsMap(f, S, T) == DOMAIN f \subseteq S /\ Range(f) \subseteq T

\* Every variable has its type; a hard link leads to a package of the store.
TypeOK ==
    /\ deps \in PackageJsons
    /\ patched \subseteq Patches /\ published \subseteq Catalog
    /\ IsMap(lock, Dependencies, Catalog)
    /\ IsMap(chosen, Dependencies, Catalog)
    /\ IsMap(store, Catalog, Contents)
    /\ IsMap(nm, Paths, Files) /\ IsMap(backup, Paths, Contents)
    /\ \A path \in DOMAIN nm : nm[path].kind = "link" => nm[path].to \in DOMAIN store
    /\ manifest = None \/ manifest \subseteq Entries
    /\ step \in {"idle", "fetch", "wipe", "prune", "link", "patch", "scripts", "lock"}
    /\ todo \subseteq Entries
    /\ {full, settled, cutOff} \subseteq BOOLEAN
    /\ shared \subseteq doubled /\ doubled \cup stranded \cup relinked \subseteq Catalog

\* Patches reach the store only through a session that was relinked; only a
\* package once put at one path with another of its versions is overwritten; and
\* a script runs in the store only in a package once installed together with
\* another of its versions, or by an incremental link that was interrupted.
StoreHarmIsDoubled ==
    \A p \in DOMAIN store :
        /\ "patch" \in store[p].edits => \E q \in relinked : q.name = p.name
        /\ store[p].of # p => p \in shared
        /\ "build" \in store[p].edits => p \in doubled \cup stranded

\* What the manifest lists at the top of node_modules, on which the next install
\* relies, is there and in its version, however installs, edits, patches and
\* crashes followed each other: but for a link that was interrupted, and for
\* packages that two of a plan put at one path.
ManifestIsKept ==
    (step \notin {"wipe", "prune", "link"} /\ manifest # None /\ ~cutOff) =>
        \A e \in manifest : (e.in = Top /\ e.pkg \notin shared \cup relinked) =>
            /\ PathOf(e) \in DOMAIN nm
            /\ Content(nm[PathOf(e)]).of = e.pkg

\* An install that ran to its end left every saved patch applied, to the version
\* it was made for.
PatchesAreApplied ==
    settled => \A q \in patched :
        /\ AtTop(q.pkg.name) \in DOMAIN nm
        /\ LET content == Content(nm[AtTop(q.pkg.name)])
           IN  content.of = q.pkg /\ "patch" \in content.edits

\* A dependency whose lock entry may name another version than it was given, or
\* be missing: two packages of the plan meet it, or the project's own version is
\* not the one at the top, or a package was given a version it does not admit,
\* from an entry once written for the project's dependency of this range.
Ambiguous(d) ==
    \/ \E p \in Resolved \ {chosen[d]} : p.name = d.name /\ (Meets(p, d) \/ d \in deps)
    \/ d \notin deps /\ ~Meets(chosen[d], d)

\* The lockfile makes installs reproducible: resolving the unchanged project
\* again gives the same packages, whatever was published since.
InstallsAreReproducible ==
    (settled /\ ~\E d \in DOMAIN chosen : Ambiguous(d)) =>
        Resolution(deps, lock, published) = chosen

=============================================================================
