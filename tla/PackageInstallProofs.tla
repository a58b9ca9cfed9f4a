------------------------ MODULE PackageInstallProofs ------------------------
(***************************************************************************)
(* What holds of installs for every registry, every package.json and every *)
(* set of scripts, however installs, crashes, patch sessions, updates and  *)
(* new versions follow each other.                                         *)
(***************************************************************************)
EXTENDS PackageInstall, FiniteSetTheorems, WellFoundedInduction, TLAPS

(* The steps of an install once its plan is made: while node_modules is    *)
(* being changed, and after the manifest was written.                      *)
Linking   == {"wipe", "prune", "link"}
Finishing == {"patch", "scripts", "lock"}
Started   == step \in Linking \cup Finishing

(* Lock entries and choices have the name of their dependency. *)
Named ==
    /\ \A d \in DOMAIN lock : lock[d].name = d.name
    /\ \A d \in DOMAIN chosen : chosen[d].name = d.name

(* The dependencies an install has chosen packages for are those that are  *)
(* reached from package.json through the packages chosen, and no other.    *)
Closed(given, f, S) == given \subseteq S /\ \A d \in S \cap DOMAIN f : Needs[f[d]] \subseteq S

LeastWalk(given, f) ==
    /\ f = [d \in DOMAIN f |-> f[d]]
    /\ Closed(given, f, DOMAIN f)
    /\ \A S \in SUBSET Dependencies : Closed(given, f, S) => DOMAIN f \subseteq S

Walked == LeastWalk(deps, chosen)

(* While an install runs, and after one that ran to its end. *)
Phases ==
    /\ settled => step = "idle" /\ lock = Lockfile(Planned)
    /\ step # "idle" \/ settled => Walked
    /\ step = "prune" => ~full /\ manifest # None /\ todo \subseteq manifest
    /\ step = "link" => todo \subseteq Planned
    /\ step = "link" /\ full => manifest = None
    /\ step \in Finishing => manifest = Planned
    /\ Started => Resolved \subseteq DOMAIN store

Lists(S, path, p) == \E e \in S : PathOf(e) = path /\ e.pkg = p

(* What two packages of the plan share, a name or a path, is on record. *)
SharesPaths(S) ==
    \A x, y \in S : x.pkg # y.pkg /\ PathOf(x) = PathOf(y) => x.pkg \in shared

Recorded ==
    /\ Started => /\ \A p, q \in Resolved : p # q /\ p.name = q.name => p \in doubled
                  /\ SharesPaths(Planned)
    /\ manifest # None => SharesPaths(manifest)
    /\ step = "prune" => \A x \in todo : ~Lists(Planned, PathOf(x), x.pkg)

(* A hard link leads to a package of its name and without a script. *)
IsLink(path) == path \in DOMAIN nm /\ nm[path].kind = "link"

LinksFit ==
    \A path \in DOMAIN nm : IsLink(path) =>
        nm[path].to.name = path.name /\ nm[path].to \notin Scripted

(* A package in which another one's script may run: its links are all on   *)
(* the manifest, or the record says so.                                    *)
Exposed(p) == p \notin doubled \cup stranded /\ \E q \in Scripted \ {p} : q.name = p.name

LinksKnown ==
    \A path \in DOMAIN nm : IsLink(path) /\ Exposed(nm[path].to) =>
        /\ step # "link" /\ manifest # None => Lists(manifest, path, nm[path].to)
        /\ step = "prune" => Lists(Planned \cup todo, path, nm[path].to)
        /\ step \in {"link", "patch", "scripts", "lock"} => Lists(Planned, path, nm[path].to)

(* A full link starts from nothing. *)
FullLinks ==
    step = "link" /\ full =>
        \A path \in DOMAIN nm : \E e \in Planned \ todo :
            PathOf(e) = path /\ (IsLink(path) => e.pkg = nm[path].to)

(* During a session the package is a copy, unless it was linked again. *)
SessionCopied ==
    \A path \in DOMAIN backup : path.in = Top /\ IsLink(path) =>
        \E q \in relinked : q.name = path.name

(* The path of an entry holds its package, and so does a backup of it. *)
Held(e) ==
    /\ PathOf(e) \in DOMAIN nm
    /\ Content(nm[PathOf(e)]).of = e.pkg
    /\ PathOf(e) \in DOMAIN backup => backup[PathOf(e)].of = e.pkg

Counts(e) == e.in = Top /\ e.pkg \notin shared \cup relinked

EntriesHeld ==
    /\ step \notin Linking /\ manifest # None /\ ~cutOff =>
           \A e \in manifest : Counts(e) => Held(e)
    /\ step = "prune" /\ ~cutOff =>
           \A e \in manifest : Counts(e) /\ Lists(Planned, PathOf(e), e.pkg) => Held(e)
    /\ step = "link" /\ (full \/ ~cutOff) =>
           \A e \in Planned \ todo : Counts(e) => Held(e)

PatchIsApplied(q) ==
    /\ AtTop(q.pkg.name) \in DOMAIN nm
    /\ Content(nm[AtTop(q.pkg.name)]).of = q.pkg
    /\ "patch" \in Content(nm[AtTop(q.pkg.name)]).edits

Applied == settled \/ step \in {"scripts", "lock"} => \A q \in patched : PatchIsApplied(q)

IInv ==
    /\ TypeOK /\ Named /\ Phases /\ Recorded
    /\ LinksFit /\ LinksKnown /\ FullLinks /\ SessionCopied
    /\ StoreHarmIsDoubled /\ EntriesHeld /\ Applied
-----------------------------------------------------------------------------
(* The order of packages. *)

(* A finite set has a least element of every strict total order. *)
LEMMA Extremal ==
    ASSUME NEW P, IsFiniteSet(P), P # {}, NEW R,
           \A x, y, z \in P : <<x, y>> \in R /\ <<y, z>> \in R => <<x, z>> \in R,
           \A x \in P : <<x, x>> \notin R,
           \A x, y \in P : x = y \/ <<x, y>> \in R \/ <<y, x>> \in R
    PROVE  \E p \in P : \A q \in P \ {p} : <<p, q>> \in R
<1> DEFINE Downwards == {S \in SUBSET P : S # {} /\ \A x \in S, y \in P : <<y, x>> \in R => y \in S}
<1>1. PICK S \in Downwards : \A T \in Downwards : ~(<<T, S>> \in StrictSubsetOrdering(P))
    <2>1. IsWellFoundedOn(StrictSubsetOrdering(P), SUBSET P)
        BY FS_StrictSubsetOrderingWellFounded, FS_FiniteSubsetsOfFinite
    <2>2. Downwards \subseteq SUBSET P /\ P \in Downwards
        OBVIOUS
    <2> HIDE DEF Downwards
    <2> QED  BY <2>1, <2>2, WFMin
<1>2. PICK x \in S : TRUE
    OBVIOUS
<1> DEFINE below == {y \in S : <<y, x>> \in R}
<1>3. below = {}
    <2> SUFFICES ASSUME below # {} PROVE FALSE
        OBVIOUS
    <2>1. below \in Downwards
        OBVIOUS
    <2>2. below \subseteq S /\ below # S /\ S \subseteq P
        BY <1>2
    <2>3. <<below, S>> \in StrictSubsetOrdering(P)
        BY <2>2 DEF StrictSubsetOrdering
    <2> QED  BY <1>1, <2>1, <2>3
<1> QED  BY <1>2, <1>3

LEMMA FirstAndLast ==
    ASSUME NEW P \in SUBSET Catalog, P # {}
    PROVE  First(P) \in P /\ Last(P) \in P
<1>1. IsFiniteSet(P) /\ P \in SUBSET [name : Nat, version : Nat]
    BY CatalogAssumption, FS_Subset
<1>2. \E p \in P : \A q \in P \ {p} : Before(p, q)
    <2> DEFINE R == {e \in P \X P : Before(e[1], e[2])}
    <2>1. \A x, y \in P : <<x, y>> \in R <=> Before(x, y)
        OBVIOUS
    <2> HIDE DEF R
    <2>2. /\ \A x, y, z \in P : <<x, y>> \in R /\ <<y, z>> \in R => <<x, z>> \in R
          /\ \A x \in P : <<x, x>> \notin R
          /\ \A x, y \in P : x = y \/ <<x, y>> \in R \/ <<y, x>> \in R
        BY <1>1, <2>1 DEF Before
    <2>3. \E p \in P : \A q \in P \ {p} : <<p, q>> \in R
        BY <1>1, <2>2, Extremal
    <2> QED  BY <2>1, <2>3
<1>3. \E p \in P : \A q \in P \ {p} : Before(q, p)
    <2> DEFINE R == {e \in P \X P : Before(e[2], e[1])}
    <2>1. \A x, y \in P : <<x, y>> \in R <=> Before(y, x)
        OBVIOUS
    <2> HIDE DEF R
    <2>2. /\ \A x, y, z \in P : <<x, y>> \in R /\ <<y, z>> \in R => <<x, z>> \in R
          /\ \A x \in P : <<x, x>> \notin R
          /\ \A x, y \in P : x = y \/ <<x, y>> \in R \/ <<y, x>> \in R
        BY <1>1, <2>1 DEF Before
    <2>3. \E p \in P : \A q \in P \ {p} : <<p, q>> \in R
        BY <1>1, <2>2, Extremal
    <2> QED  BY <2>1, <2>3
<1> QED  BY <1>2, <1>3 DEF First, Last

LEMMA FirstAndLastOfOne == \A p : First({p}) = p /\ Last({p}) = p
BY DEF First, Last
-----------------------------------------------------------------------------
(* Resolution. *)

LEMMA Dependency ==
    /\ \A J \in PackageJsons : J \subseteq Dependencies
    /\ \A p \in Catalog : Needs[p] \subseteq Dependencies
    /\ \A p \in Catalog : p.name \in Names
    /\ \A d \in Dependencies : d.name \in Names
<1>1. \A d \in Dependencies : d.name \in Names
    BY CatalogAssumption
<1>2. \A J \in PackageJsons : J \subseteq Dependencies
    BY DEF Dependencies
<1>3. \A p \in Catalog : Needs[p] \subseteq Dependencies
    BY DEF Dependencies
<1> QED  BY <1>1, <1>2, <1>3 DEF Names

\* A map from dependencies to packages of their names.
PackageMap(f) == IsMap(f, Dependencies, Catalog) /\ \A d \in DOMAIN f : f[d].name = d.name

LEMMA PickIs ==
    ASSUME NEW locked, PackageMap(locked), NEW served \in SUBSET Catalog, NEW d,
           Pick(d, locked, served) # None
    PROVE  Pick(d, locked, served) \in Catalog /\ Pick(d, locked, served).name = d.name
<1>1. CASE d \in DOMAIN locked
    BY <1>1 DEF Pick, PackageMap, IsMap, Range
<1>2. CASE d \notin DOMAIN locked
    <2> DEFINE fit == {p \in served : Meets(p, d)}
    <2>1. fit # {} /\ Pick(d, locked, served) = Last(fit)
        BY <1>2 DEF Pick
    <2>2. fit \in SUBSET Catalog
        OBVIOUS
    <2>3. Last(fit) \in fit
        BY <2>1, <2>2, FirstAndLast
    <2> QED  BY <2>1, <2>3 DEF Meets
<1> QED  BY <1>1, <1>2

(* The least set that is closed under what its dependencies lead to. *)
LEMMA MetIs ==
    ASSUME NEW given, NEW locked, NEW served
    PROVE  Met(given, locked, served) =
               {d \in Dependencies : \A S \in {T \in SUBSET Dependencies :
                    given \subseteq T /\ \A b \in T : NeedsOf(Pick(b, locked, served)) \subseteq T} :
                        d \in S}
<1> DEFINE got(b) == NeedsOf(Pick(b, locked, served))
           leads == UNION {{b} \X got(b) : b \in Dependencies}
<1>1. Met(given, locked, served) = {d \in Dependencies : \A S \in {T \in SUBSET Dependencies :
          given \subseteq T /\ \A e \in leads : e[1] \in T => e[2] \in T} : d \in S}
    BY DEF Met
<1> HIDE DEF got
<1>2. ASSUME NEW T \in SUBSET Dependencies
      PROVE  (\A e \in leads : e[1] \in T => e[2] \in T) <=> \A b \in T : got(b) \subseteq T
    <2>1. ASSUME \A e \in leads : e[1] \in T => e[2] \in T, NEW b \in T, NEW x \in got(b)
          PROVE  x \in T
        <3>1. <<b, x>> \in {b} \X got(b) /\ b \in Dependencies
            OBVIOUS
        <3>2. <<b, x>> \in leads
            BY <3>1
        <3> HIDE DEF leads
        <3>3. <<b, x>>[1] = b /\ <<b, x>>[2] = x
            OBVIOUS
        <3> QED  BY <2>1, <3>2, <3>3
    <2>2. ASSUME \A b \in T : got(b) \subseteq T, NEW e \in leads, e[1] \in T
          PROVE  e[2] \in T
        <3>1. PICK b \in Dependencies : e \in {b} \X got(b)
            BY <2>2
        <3>2. e[1] = b /\ e[2] \in got(b)
            BY <3>1
        <3> QED  BY <2>2, <3>2
    <2> QED  BY <2>1, <2>2
<1> HIDE DEF leads
<1> QED  BY <1>1, <1>2 DEF got

(* What the walk finds is closed and nothing in it is superfluous. *)
LEMMA WalkIsLeast ==
    ASSUME NEW given \in SUBSET Dependencies, NEW locked, PackageMap(locked),
           NEW served \in SUBSET Catalog,
           NEW found, found = Resolution(given, locked, served), None \notin Range(found)
    PROVE  PackageMap(found) /\ LeastWalk(given, found)
<1> DEFINE D == Met(given, locked, served)
           got(d) == Pick(d, locked, served)
           ClosedHere(S) == given \subseteq S /\ \A d \in S : NeedsOf(got(d)) \subseteq S
<1>1. DOMAIN found = D /\ \A d \in D : found[d] = got(d)
    BY DEF Resolution
<1>2. \A d \in D : got(d) # None
    BY <1>1 DEF Range
<1>3. D = {d \in Dependencies : \A S \in {T \in SUBSET Dependencies : ClosedHere(T)} : d \in S}
    BY MetIs
<1>4. \A d \in D : found[d] \in Catalog /\ found[d].name = d.name
    BY <1>1, <1>2, PickIs
<1>5. \A d \in D : NeedsOf(got(d)) = Needs[found[d]]
    BY <1>1, <1>2 DEF NeedsOf
<1> HIDE DEF D, got
<1>6. D \in SUBSET Dependencies /\ given \subseteq D
    BY <1>3
<1>7. \A d \in D : Needs[found[d]] \subseteq D
    BY <1>3, <1>4, <1>5, Dependency
<1>8. ASSUME NEW S \in SUBSET Dependencies, given \subseteq S,
             \A d \in S \cap D : Needs[found[d]] \subseteq S
      PROVE  D \subseteq S
    <2>1. ClosedHere(S \cap D)
        BY <1>5, <1>6, <1>7, <1>8
    <2>2. S \cap D \in SUBSET Dependencies
        OBVIOUS
    <2> HIDE DEF ClosedHere
    <2> QED  BY <1>3, <2>1, <2>2
<1>9. IsMap(found, Dependencies, Catalog)
    BY <1>1, <1>4, <1>6 DEF IsMap, Range
<1>10. PackageMap(found)
    BY <1>1, <1>4, <1>9 DEF PackageMap
<1>11. found = [d \in DOMAIN found |-> found[d]]
    BY DEF Resolution
<1>12. LeastWalk(given, found)
    BY <1>1, <1>6, <1>7, <1>8, <1>11 DEF LeastWalk, Closed
<1> QED  BY <1>10, <1>12

-----------------------------------------------------------------------------
(* The plan. *)

LEMMA HoistedAtTop ==
    ASSUME NEW P \in SUBSET Catalog, NEW p \in P
    PROVE  Hoisted(P, p.name) \in P /\ Hoisted(P, p.name).name = p.name
<1> DEFINE S == {q \in P : q.name = p.name}
<1>1. S \in SUBSET Catalog /\ S # {}
    OBVIOUS
<1>2. Last(S) \in S
    BY <1>1, FirstAndLast
<1> QED  BY <1>2 DEF Hoisted

LEMMA ParentIs ==
    ASSUME NEW P \in SUBSET Catalog, NEW p \in P
    PROVE  /\ Parent(P, p) \in Names \cup {Top}
           /\ p = Hoisted(P, p.name) => Parent(P, p) = Top
<1> DEFINE S == {q \in P : \E d \in Needs[q] : Meets(p, d)}
<1>1. Parent(P, p) = IF p = Hoisted(P, p.name) \/ S = {} THEN Top ELSE First(S).name
    BY DEF Parent
<1>2. S # {} => First(S) \in S
    BY FirstAndLast
<1> HIDE DEF S
<1>3. S \subseteq Catalog
    BY DEF S
<1> QED  BY <1>1, <1>2, <1>3, Dependency

LEMMA PlanIs ==
    ASSUME NEW P \in SUBSET Catalog
    PROVE  /\ Plan(P) \subseteq Entries
           /\ \A e \in Plan(P) : e.pkg \in P /\ e.in = Parent(P, e.pkg)
           /\ \A p \in P : \E e \in Plan(P) : e.pkg = p
           /\ \A x, y \in Plan(P) : x.pkg = y.pkg => x = y
<1> DEFINE entry(p) == [pkg |-> p, in |-> Parent(P, p),
                        patch |-> p.name \in {q.pkg.name : q \in patched}]
<1>1. Plan(P) = {entry(p) : p \in P}
    BY DEF Plan
<1>2. \A p \in P : /\ entry(p) \in Entries /\ entry(p).pkg = p
                   /\ entry(p).in = Parent(P, p)
    BY ParentIs DEF Entries
<1> HIDE DEF entry
<1> QED  BY <1>1, <1>2

LEMMA EntryPaths ==
    ASSUME NEW e \in Entries
    PROVE  /\ PathOf(e) \in Paths /\ PathOf(e).name = e.pkg.name /\ PathOf(e).in = e.in
           /\ e.pkg \in Catalog /\ e.pkg.name \in Names /\ AtTop(e.pkg.name) \in Paths
           /\ e.in = Top => PathOf(e) = AtTop(e.pkg.name)
BY Dependency DEF Entries, PathOf, Paths, AtTop

LEMMA PlannedIs ==
    ASSUME TypeOK
    PROVE  /\ Resolved \in SUBSET Catalog
           /\ Planned \subseteq Entries
           /\ \A e \in Planned : e.pkg \in Resolved
           /\ \A p \in Resolved : \E e \in Planned : e.pkg = p
           /\ \A x, y \in Planned : x.pkg = y.pkg => x = y
<1>1. Resolved \in SUBSET Catalog
    BY DEF TypeOK, IsMap, Resolved
<1> QED  BY <1>1, PlanIs DEF Planned

(* The lockfile has an entry for every dependency of the project, of its   *)
(* name.                                                                   *)
LEMMA LockfileIs ==
    ASSUME TypeOK, \A d \in deps : \E p \in Resolved : p.name = d.name
    PROVE  PackageMap(Lockfile(Planned))
<1> DEFINE P == {e.pkg : e \in Planned}
           tops(n) == {e.pkg : e \in {x \in Planned : x.in = Top /\ x.pkg.name = n}}
           fits(d) == {p \in P : Meets(p, d)}
           inner == {d \in UNION {Needs[p] : p \in P} : fits(d) # {}} \ deps
           L == [d \in deps \cup inner |-> IF d \in deps THEN First(tops(d.name)) ELSE First(fits(d))]
<1>1. Lockfile(Planned) = L
    BY DEF Lockfile
<1>2. P = Resolved /\ Resolved \in SUBSET Catalog
    BY PlannedIs
<1>3. deps \cup inner \subseteq Dependencies
    BY <1>2, Dependency DEF TypeOK
<1>4. ASSUME NEW d \in deps
      PROVE  First(tops(d.name)) \in Catalog /\ First(tops(d.name)).name = d.name
    <2>1. PICK p \in Resolved : p.name = d.name
        OBVIOUS
    <2>2. /\ Hoisted(Resolved, d.name) \in Resolved
          /\ Hoisted(Resolved, d.name).name = d.name
        BY <1>2, <2>1, HoistedAtTop
    <2>3. PICK e \in Planned : e.pkg = Hoisted(Resolved, d.name)
        BY <2>2, PlannedIs
    <2>4. e.in = Top
        BY <1>2, <2>2, <2>3, PlanIs, ParentIs DEF Planned
    <2>5. tops(d.name) # {} /\ tops(d.name) \in SUBSET Catalog
        BY <1>2, <2>2, <2>3, <2>4
    <2>6. First(tops(d.name)) \in tops(d.name)
        BY <2>5, FirstAndLast
    <2> QED  BY <2>5, <2>6
<1>5. ASSUME NEW d \in inner
      PROVE  First(fits(d)) \in Catalog /\ First(fits(d)).name = d.name
    <2>1. fits(d) # {} /\ fits(d) \in SUBSET Catalog
        BY <1>2, <1>5
    <2>2. First(fits(d)) \in fits(d)
        BY <2>1, FirstAndLast
    <2> QED  BY <2>1, <2>2 DEF Meets
<1> HIDE DEF tops, fits, inner
<1>6. \A d \in DOMAIN L : L[d] \in Catalog /\ L[d].name = d.name
    BY <1>4, <1>5
<1> QED  BY <1>1, <1>3, <1>6 DEF PackageMap, IsMap, Range
-----------------------------------------------------------------------------
(* Types, in parts. *)

ProjectOK == deps \in PackageJsons /\ patched \subseteq Patches /\ published \subseteq Catalog
ChoiceOK  == IsMap(lock, Dependencies, Catalog) /\ IsMap(chosen, Dependencies, Catalog)
DiskOK ==
    /\ IsMap(store, Catalog, Contents) /\ IsMap(nm, Paths, Files) /\ IsMap(backup, Paths, Contents)
    /\ \A path \in DOMAIN nm : nm[path].kind = "link" => nm[path].to \in DOMAIN store
InstallOK ==
    /\ manifest = None \/ manifest \subseteq Entries
    /\ step \in {"idle", "fetch", "wipe", "prune", "link", "patch", "scripts", "lock"}
    /\ todo \subseteq Entries
    /\ full \in BOOLEAN
RecordOK ==
    /\ settled \in BOOLEAN /\ cutOff \in BOOLEAN
    /\ shared \subseteq doubled /\ doubled \subseteq Catalog
    /\ stranded \subseteq Catalog /\ relinked \subseteq Catalog

LEMMA TypeParts == TypeOK <=> ProjectOK /\ ChoiceOK /\ DiskOK /\ InstallOK /\ RecordOK
<1>1. {full, settled, cutOff} \subseteq BOOLEAN
          <=> full \in BOOLEAN /\ settled \in BOOLEAN /\ cutOff \in BOOLEAN
    OBVIOUS
<1>2. doubled \cup stranded \cup relinked \subseteq Catalog
          <=> doubled \subseteq Catalog /\ stranded \subseteq Catalog /\ relinked \subseteq Catalog
    OBVIOUS
<1> QED
    BY <1>1, <1>2 DEF TypeOK, ProjectOK, ChoiceOK, DiskOK, InstallOK, RecordOK

LEMMA MapIs ==
    ASSUME NEW f, NEW S, NEW T, IsMap(f, S, T)
    PROVE  \A x \in DOMAIN f : x \in S /\ f[x] \in T
BY DEF IsMap, Range

LEMMA IsMapIf ==
    ASSUME NEW f, NEW S, NEW T, \A x \in DOMAIN f : x \in S /\ f[x] \in T
    PROVE  IsMap(f, S, T)
BY DEF IsMap, Range

-----------------------------------------------------------------------------
(* Files. *)

LEMMA ContentsAre ==
    ASSUME NEW c \in Contents, NEW how \in Edits
    PROVE  /\ c.of \in Catalog /\ c.edits \subseteq Edits
           /\ Edit(c, how) \in Contents /\ Edit(c, how).of = c.of
           /\ Edit(c, how).edits = c.edits \cup {how}
BY DEF Contents, Edit

LEMMA FilesAre ==
    /\ \A p \in Catalog : /\ Link(p) \in Files /\ Link(p).kind = "link" /\ Link(p).to = p
                          /\ Pristine(p) \in Contents
                          /\ Pristine(p).of = p /\ Pristine(p).edits = {}
    /\ \A c \in Contents : Copy(c) \in Files /\ Copy(c).kind = "copy" /\ Copy(c).content = c
    /\ \A f \in Files : \/ f.kind = "link" /\ f.to \in Catalog
                        \/ f.kind = "copy" /\ f.content \in Contents
BY DEF Link, Copy, Pristine, Files, Contents

At(path) == Content(nm[path])

LEMMA AtIs ==
    ASSUME DiskOK, NEW path \in DOMAIN nm
    PROVE  /\ path \in Paths /\ nm[path] \in Files /\ At(path) \in Contents
           /\ IsLink(path) => /\ nm[path].to \in Catalog /\ nm[path].to \in DOMAIN store
                              /\ At(path) = store[nm[path].to]
           /\ ~IsLink(path) => nm[path].kind = "copy" /\ At(path) = nm[path].content
<1>1. path \in Paths /\ nm[path] \in Files
    BY MapIs DEF DiskOK
<1>2. IsLink(path) => nm[path].to \in DOMAIN store
    BY DEF DiskOK, IsLink
<1>3. \A p \in DOMAIN store : store[p] \in Contents
    BY MapIs DEF DiskOK
<1> QED  BY <1>1, <1>2, <1>3, FilesAre DEF At, Content, IsLink

(* Editing in place adds to what the files at the paths are, and to no     *)
(* other package of the store than those they are links to.                *)
LEMMA Edited ==
    ASSUME DiskOK, NEW paths, NEW how \in Edits, EditInPlace(paths, how)
    PROVE  /\ DOMAIN store' = DOMAIN store /\ DOMAIN nm' = DOMAIN nm
           /\ IsMap(store', Catalog, Contents) /\ IsMap(nm', Paths, Files)
           /\ \A p \in DOMAIN store :
                  /\ store'[p].of = store[p].of
                  /\ store[p].edits \subseteq store'[p].edits
                  /\ store'[p].edits \subseteq store[p].edits \cup {how}
                  /\ store'[p] # store[p] => \E path \in paths : IsLink(path) /\ nm[path].to = p
           /\ \A path \in DOMAIN nm :
                  /\ nm'[path].kind = nm[path].kind
                  /\ IsLink(path) => nm'[path] = nm[path]
                  /\ At(path)'.of = At(path).of
                  /\ At(path).edits \subseteq At(path)'.edits
<1> DEFINE files == {path \in paths : path \in DOMAIN nm}
           linked == {nm[path].to : path \in {x \in files : nm[x].kind = "link"}}
<1>1. /\ store' = [p \in DOMAIN store |-> IF p \in linked THEN Edit(store[p], how) ELSE store[p]]
      /\ nm' = [path \in DOMAIN nm |-> IF path \in files /\ nm[path].kind = "copy"
                                       THEN Copy(Edit(nm[path].content, how)) ELSE nm[path]]
    BY DEF EditInPlace
<1>2. \A p \in DOMAIN store : p \in Catalog /\ store[p] \in Contents
    BY MapIs DEF DiskOK
<1>3. \A p \in linked : \E path \in paths : IsLink(path) /\ nm[path].to = p
    BY DEF IsLink
<1> HIDE DEF files, linked
<1>4. \A p \in DOMAIN store :
          /\ store'[p] \in Contents
          /\ store'[p].of = store[p].of
          /\ store[p].edits \subseteq store'[p].edits
          /\ store'[p].edits \subseteq store[p].edits \cup {how}
          /\ store'[p] # store[p] => \E path \in paths : IsLink(path) /\ nm[path].to = p
    BY <1>1, <1>2, <1>3, ContentsAre
<1>5. ASSUME NEW path \in DOMAIN nm
      PROVE  /\ path \in Paths /\ nm'[path] \in Files
             /\ nm'[path].kind = nm[path].kind
             /\ IsLink(path) => nm'[path] = nm[path]
             /\ At(path)'.of = At(path).of
             /\ At(path).edits \subseteq At(path)'.edits
    <2>1. path \in Paths /\ nm[path] \in Files /\ At(path) \in Contents
        BY AtIs
    <2>2. CASE IsLink(path)
        <3>1. nm'[path] = nm[path] /\ nm[path].kind = "link"
            BY <1>1, <2>2 DEF IsLink
        <3>2. nm[path].to \in DOMAIN store /\ At(path) = store[nm[path].to]
            BY <2>2, AtIs
        <3>3. At(path)' = store'[nm[path].to]
            BY <3>1 DEF At, Content
        <3> QED  BY <1>4, <2>1, <3>1, <3>2, <3>3
    <2>3. CASE ~IsLink(path)
        <3>1. nm[path].kind = "copy" /\ At(path) = nm[path].content
            BY <2>3, AtIs
        <3>2. nm'[path] = nm[path] \/ nm'[path] = Copy(Edit(At(path), how))
            BY <1>1, <3>1
        <3>3. nm'[path].kind = "copy" /\ At(path)' = nm'[path].content
            <4>1. nm'[path].kind = "copy"
                BY <2>1, <3>1, <3>2, ContentsAre, FilesAre
            <4> QED  BY <4>1 DEF At, Content
        <3>4. At(path)' = At(path) \/ At(path)' = Edit(At(path), how)
            BY <2>1, <3>1, <3>2, <3>3, ContentsAre, FilesAre
        <3> QED  BY <2>1, <2>3, <3>1, <3>2, <3>3, <3>4, ContentsAre, FilesAre
    <2> QED  BY <2>2, <2>3
<1>6. DOMAIN store' = DOMAIN store /\ DOMAIN nm' = DOMAIN nm
    BY <1>1
<1>7. IsMap(store', Catalog, Contents)
    BY <1>2, <1>4, <1>6, IsMapIf
<1>8. IsMap(nm', Paths, Files)
    BY <1>5, <1>6, IsMapIf
<1> QED  BY <1>4, <1>5, <1>6, <1>7, <1>8
-----------------------------------------------------------------------------
(* The invariant holds at first. *)

LEMMA EmptyMap == DOMAIN << >> = {} /\ \A S, T : IsMap(<< >>, S, T)
BY DEF IsMap, Range

LEMMA InitIInv == Init => IInv
<1> SUFFICES ASSUME Init PROVE IInv
    OBVIOUS
<1> USE EmptyMap
<1>1. /\ lock = <<>> /\ store = <<>> /\ nm = <<>> /\ backup = <<>> /\ chosen = <<>>
      /\ manifest = None /\ step = "idle" /\ todo = {} /\ full = FALSE /\ settled = FALSE
      /\ doubled = {} /\ shared = {} /\ stranded = {} /\ relinked = {} /\ cutOff = FALSE
    BY DEF Init
<1>2. ProjectOK
    BY CatalogAssumption DEF Init, ProjectOK
<1>3. ChoiceOK /\ DiskOK /\ InstallOK /\ RecordOK
    BY <1>1 DEF ChoiceOK, DiskOK, InstallOK, RecordOK
<1>4. Named /\ Phases /\ Recorded
    BY <1>1 DEF Named, Phases, Recorded, Started, Linking, Finishing
<1>5. LinksFit /\ LinksKnown /\ FullLinks /\ SessionCopied /\ StoreHarmIsDoubled
    BY <1>1 DEF LinksFit, LinksKnown, FullLinks, SessionCopied, StoreHarmIsDoubled
<1>6. EntriesHeld /\ Applied
    BY <1>1 DEF EntriesHeld, Applied, Linking
<1> QED  BY <1>2, <1>3, <1>4, <1>5, <1>6, TypeParts DEF IInv

-----------------------------------------------------------------------------
(* Between installs. *)

\* What is left to show for a step between installs that ends what was settled.
LEMMA IdleStep ==
    ASSUME IInv, step = "idle", settled' = FALSE, chosen' = <<>>,
           UNCHANGED <<step, manifest, todo, full, links>>,
           ProjectOK', PackageMap(lock'), DiskOK',
           \A path : IsLink(path)' => IsLink(path) /\ nm'[path] = nm[path],
           \A e \in Entries : Counts(e) /\ Held(e) => Held(e)',
           SessionCopied', StoreHarmIsDoubled'
    PROVE  IInv'
<1> USE EmptyMap
<1>1. TypeOK /\ InstallOK /\ RecordOK
    BY TypeParts DEF IInv
<1>2. UNCHANGED <<step, manifest, todo, full, doubled, shared, stranded, relinked, cutOff>>
    BY DEF links
<1>3. InstallOK' /\ RecordOK'
    BY <1>1, <1>2 DEF InstallOK, RecordOK
<1>4. ChoiceOK'
    BY DEF ChoiceOK, PackageMap
<1>5. Named'
    BY DEF Named, PackageMap
<1>6. Phases'
    BY <1>2 DEF Phases, Started, Linking, Finishing
<1>7. Recorded'
    BY <1>2 DEF IInv, Recorded, Started, Linking, Finishing, SharesPaths
<1>8. LinksFit'
    BY DEF IInv, LinksFit, IsLink
<1>9. LinksKnown'
    <2> SUFFICES ASSUME NEW path, IsLink(path)', Exposed(nm[path].to), manifest # None,
                        nm'[path] = nm[path], IsLink(path)
                 PROVE  Lists(manifest, path, nm[path].to)
        BY <1>2 DEF LinksKnown, Exposed, Lists
    <2> QED  BY DEF IInv, LinksKnown, IsLink
<1>10. FullLinks' /\ Applied'
    BY <1>2 DEF FullLinks, Applied
<1>11. EntriesHeld'
    <2>1. (manifest # None /\ ~cutOff) => \A e \in manifest : Counts(e) => Held(e)
        BY DEF IInv, EntriesHeld, Linking
    <2>2. \A e : Counts(e)' <=> Counts(e)
        BY <1>2 DEF Counts
    <2>3. manifest # None => manifest \subseteq Entries
        BY <1>1 DEF InstallOK
    <2>4. (manifest # None /\ ~cutOff) => \A e \in manifest : Counts(e)' => Held(e)'
        BY <2>1, <2>2, <2>3
    <2> QED  BY <1>2, <2>4 DEF EntriesHeld
<1> QED  BY <1>3, <1>4, <1>5, <1>6, <1>7, <1>8, <1>9, <1>10, <1>11, TypeParts, PTL DEF IInv
\* Where the disk is left alone there is nothing to show about it.
LEMMA IdleSameDisk ==
    ASSUME IInv, step = "idle", settled' = FALSE, chosen' = <<>>,
           UNCHANGED <<disk, step, manifest, todo, full, links>>,
           ProjectOK', PackageMap(lock')
    PROVE  IInv'
<1>1. UNCHANGED <<store, nm, backup, doubled, shared, stranded, relinked>>
    BY DEF disk, links
<1>2. DiskOK'
    BY <1>1, TypeParts DEF IInv, DiskOK
<1>3. \A path : IsLink(path)' => IsLink(path) /\ nm'[path] = nm[path]
    BY <1>1 DEF IsLink
<1>4. \A e \in Entries : Counts(e) /\ Held(e) => Held(e)'
    BY <1>1 DEF Held, Content
<1>5. SessionCopied' /\ StoreHarmIsDoubled'
    BY <1>1 DEF IInv, SessionCopied, StoreHarmIsDoubled, IsLink
<1> QED  BY <1>2, <1>3, <1>4, <1>5, IdleStep

LEMMA LockIs == IInv => PackageMap(lock)
BY TypeParts DEF IInv, ChoiceOK, Named, PackageMap

LEMMA ChangePackageJsonStep == ASSUME IInv, ChangePackageJson PROVE IInv'
<1>1. ProjectOK'
    BY TypeParts DEF IInv, ProjectOK, ChangePackageJson
<1> QED  BY <1>1, LockIs, IdleSameDisk DEF ChangePackageJson

LEMMA UpdateStep == ASSUME IInv, Update PROVE IInv'
<1>1. PICK D \in SUBSET DOMAIN lock : lock' = Restrict(lock, D)
    BY DEF Update
<1>2. lock' = [d \in D |-> lock[d]]
    BY <1>1 DEF Restrict
<1>3. PackageMap(lock')
    BY <1>2, LockIs DEF PackageMap, IsMap, Range
<1>4. ProjectOK'
    BY TypeParts DEF IInv, ProjectOK, Update, project
<1> QED  BY <1>3, <1>4, IdleSameDisk DEF Update

(* A session begins with copies of what is there. *)
LEMMA PatchPrepareStep == ASSUME IInv, PatchPrepare PROVE IInv'
<1>0. DiskOK /\ EntriesHeld /\ StoreHarmIsDoubled
    BY TypeParts DEF IInv
<1>1. PICK paths \in SUBSET DOMAIN nm :
          /\ backup' = [path \in paths |-> Content(nm[path])]
          /\ nm' = [path \in DOMAIN nm |-> IF path \in paths THEN Copy(Content(nm[path])) ELSE nm[path]]
    BY DEF PatchPrepare
<1>2. store' = store /\ UNCHANGED <<doubled, shared, stranded, relinked>>
    BY DEF PatchPrepare, links
<1>3. \A path \in DOMAIN nm : /\ path \in Paths /\ nm[path] \in Files /\ At(path) \in Contents
                              /\ Copy(At(path)) \in Files /\ Copy(At(path)).kind = "copy"
                              /\ Copy(At(path)).content = At(path)
    BY <1>0, AtIs, FilesAre
<1>4. DOMAIN nm' = DOMAIN nm /\ DOMAIN backup' = paths
    BY <1>1
<1>5. \A path \in DOMAIN nm : nm'[path] = IF path \in paths THEN Copy(At(path)) ELSE nm[path]
    BY <1>1 DEF At
<1>6. \A path \in paths : backup'[path] = At(path)
    BY <1>1 DEF At
<1>7. \A path \in DOMAIN nm : At(path)' = At(path)
    BY <1>2, <1>3, <1>4, <1>5 DEF At, Content
<1>8. \A path : IsLink(path)' => IsLink(path) /\ nm'[path] = nm[path] /\ path \notin paths
    BY <1>3, <1>4, <1>5 DEF IsLink
<1>9. DiskOK'
    <2>1. IsMap(nm', Paths, Files)
        BY <1>3, <1>4, <1>5, IsMapIf
    <2>2. IsMap(backup', Paths, Contents)
        BY <1>3, <1>4, <1>6, IsMapIf
    <2>3. \A path \in DOMAIN nm' : nm'[path].kind = "link" => nm'[path].to \in DOMAIN store
        BY <1>0, <1>3, <1>4, <1>5 DEF DiskOK
    <2> QED  BY <1>0, <1>2, <2>1, <2>2, <2>3 DEF DiskOK
<1>10. \A e \in Entries : Counts(e) /\ Held(e) => Held(e)'
    <2> SUFFICES ASSUME NEW e \in Entries, Held(e) PROVE Held(e)'
        OBVIOUS
    <2>1. PathOf(e) \in DOMAIN nm /\ At(PathOf(e)).of = e.pkg
        BY DEF Held, At
    <2> QED  BY <1>4, <1>6, <1>7, <2>1 DEF Held, At
<1>11. SessionCopied' /\ StoreHarmIsDoubled'
    BY <1>0, <1>2, <1>4, <1>8 DEF SessionCopied, StoreHarmIsDoubled
<1>12. ProjectOK' /\ PackageMap(lock')
    BY TypeParts, LockIs DEF IInv, ProjectOK, PatchPrepare, project
<1> QED  BY <1>8, <1>9, <1>10, <1>11, <1>12, IdleStep DEF PatchPrepare

(* An edit reaches the store where the package was linked again meanwhile. *)
LEMMA EditPackageStep == ASSUME IInv, EditPackage PROVE IInv'
<1>0. DiskOK /\ SessionCopied /\ StoreHarmIsDoubled /\ LinksFit
    BY TypeParts DEF IInv
<1>1. PICK edited \in Session : EditInPlace({edited}, "patch")
    BY DEF EditPackage
<1>2. backup' = backup /\ UNCHANGED <<doubled, shared, stranded, relinked>>
    BY DEF EditPackage, links
<1>3. "patch" \in Edits
    BY DEF Edits
<1>4. /\ DOMAIN store' = DOMAIN store /\ DOMAIN nm' = DOMAIN nm
      /\ IsMap(store', Catalog, Contents) /\ IsMap(nm', Paths, Files)
      /\ \A p \in DOMAIN store :
             /\ store'[p].of = store[p].of
             /\ store'[p].edits \subseteq store[p].edits \cup {"patch"}
             /\ store'[p] # store[p] => IsLink(edited) /\ nm[edited].to = p
      /\ \A path \in DOMAIN nm :
             /\ nm'[path].kind = nm[path].kind
             /\ IsLink(path) => nm'[path] = nm[path]
             /\ At(path)'.of = At(path).of
    BY <1>0, <1>1, <1>3, Edited
<1>5. \A path : IsLink(path)' => IsLink(path) /\ nm'[path] = nm[path]
    BY <1>4 DEF IsLink
<1>6. DiskOK'
    BY <1>0, <1>2, <1>4 DEF DiskOK, IsLink
<1>7. \A e \in Entries : Counts(e) /\ Held(e) => Held(e)'
    BY <1>2, <1>4 DEF Held, At
<1>8. SessionCopied'
    BY <1>0, <1>2, <1>5 DEF SessionCopied
<1>9. StoreHarmIsDoubled'
    <2>1. IsLink(edited) => \E q \in relinked : q.name = nm[edited].to.name
        BY <1>0, <1>1 DEF SessionCopied, Session, LinksFit
    <2> QED  BY <1>0, <1>2, <1>4, <2>1 DEF StoreHarmIsDoubled
<1>10. ProjectOK' /\ PackageMap(lock')
    BY TypeParts, LockIs DEF IInv, ProjectOK, EditPackage, project
<1> QED  BY <1>5, <1>6, <1>7, <1>8, <1>9, <1>10, IdleStep DEF EditPackage

LEMMA PatchSaveStep == ASSUME IInv, PatchSave PROVE IInv'
<1>0. DiskOK /\ ProjectOK /\ StoreHarmIsDoubled
    BY TypeParts DEF IInv
<1>1. PICK path \in Session :
          \/ patched' = patched
          \/ patched' = {[pkg |-> At(path).of, base |-> backup[path].of]}
    BY DEF PatchSave, At
<1>2. backup' = <<>> /\ UNCHANGED <<deps, published, store, nm, doubled, shared, stranded, relinked>>
    BY DEF PatchSave, links
<1>3. At(path).of \in Catalog /\ backup[path].of \in Catalog
    <2>1. path \in DOMAIN nm /\ path \in DOMAIN backup
        BY <1>1 DEF Session
    <2>2. At(path) \in Contents
        BY <1>0, <2>1, AtIs
    <2>3. backup[path] \in Contents
        BY <1>0, <2>1, MapIs DEF DiskOK
    <2> QED  BY <2>2, <2>3 DEF Contents
<1>4. ProjectOK'
    BY <1>0, <1>1, <1>2, <1>3 DEF ProjectOK, Patches
<1>5. DiskOK'
    BY <1>0, <1>2, EmptyMap DEF DiskOK
<1>6. \A p : IsLink(p)' => IsLink(p) /\ nm'[p] = nm[p]
    BY <1>2 DEF IsLink
<1>7. \A e \in Entries : Counts(e) /\ Held(e) => Held(e)'
    BY <1>2, EmptyMap DEF Held, Content
<1>8. SessionCopied' /\ StoreHarmIsDoubled'
    BY <1>0, <1>2, EmptyMap DEF SessionCopied, StoreHarmIsDoubled
<1>9. PackageMap(lock')
    BY LockIs DEF PatchSave
<1> QED  BY <1>4, <1>5, <1>6, <1>7, <1>8, <1>9, IdleStep DEF PatchSave

(* What a backup puts back is what its entry lists. *)
LEMMA PatchDiscardStep == ASSUME IInv, PatchDiscard PROVE IInv'
<1>0. DiskOK /\ StoreHarmIsDoubled
    BY TypeParts DEF IInv
<1>1. PICK path \in Session :
          nm' = [p \in DOMAIN backup \cup (DOMAIN nm \ Tree(path)) |->
                    IF p \in DOMAIN backup THEN Copy(backup[p]) ELSE nm[p]]
    BY DEF PatchDiscard
<1>2. backup' = <<>> /\ UNCHANGED <<store, doubled, shared, stranded, relinked>>
    BY DEF PatchDiscard, links
<1>3. \A p \in DOMAIN backup : /\ p \in Paths /\ Copy(backup[p]) \in Files
                               /\ Copy(backup[p]).kind = "copy"
                               /\ Copy(backup[p]).content = backup[p]
    BY <1>0, MapIs, FilesAre DEF DiskOK
<1>4. DOMAIN nm' = DOMAIN backup \cup (DOMAIN nm \ Tree(path))
    BY <1>1
<1>5. \A p \in DOMAIN nm' : nm'[p] = IF p \in DOMAIN backup THEN Copy(backup[p]) ELSE nm[p]
    BY <1>1
<1>6. \A p : IsLink(p)' => IsLink(p) /\ nm'[p] = nm[p]
    BY <1>3, <1>4, <1>5 DEF IsLink
<1>7. DiskOK'
    <2>1. IsMap(nm', Paths, Files)
        BY <1>0, <1>3, <1>4, <1>5, MapIs, IsMapIf DEF DiskOK
    <2>2. \A p \in DOMAIN nm' : nm'[p].kind = "link" => nm'[p].to \in DOMAIN store
        BY <1>0, <1>3, <1>4, <1>5 DEF DiskOK
    <2> QED  BY <1>0, <1>2, <2>1, <2>2, EmptyMap DEF DiskOK
<1>8. ASSUME NEW e \in Entries, Counts(e), Held(e) PROVE Held(e)'
    <2>1. PathOf(e).in = Top
        BY <1>8, EntryPaths DEF Counts
    <2>2. path.in = Top /\ path \in DOMAIN backup
        BY <1>1 DEF Session
    <2>3. PathOf(e) \in Tree(path) => PathOf(e) = path
        BY <2>1, <2>2, CatalogAssumption, <1>3 DEF Tree, Paths
    <2>4. PathOf(e) \in DOMAIN nm'
        BY <1>4, <1>8, <2>2, <2>3 DEF Held
    <2>5. Content(nm[PathOf(e)])'.of = e.pkg
        BY <1>2, <1>3, <1>5, <1>8, <2>4 DEF Held, Content
    <2> QED  BY <1>2, <2>4, <2>5, EmptyMap DEF Held
<1>9. SessionCopied' /\ StoreHarmIsDoubled'
    BY <1>0, <1>2, EmptyMap DEF SessionCopied, StoreHarmIsDoubled
<1>10. ProjectOK' /\ PackageMap(lock')
    BY TypeParts, LockIs DEF IInv, ProjectOK, PatchDiscard, project
<1> QED  BY <1>6, <1>7, <1>8, <1>9, <1>10, IdleStep DEF PatchDiscard
(* A new version changes nothing that is there. *)
LEMMA PublishStep == ASSUME IInv, Publish PROVE IInv'
<1>1. /\ UNCHANGED <<deps, patched, lock, store, nm, backup, manifest, step, chosen, todo, full,
                     settled, doubled, shared, stranded, relinked, cutOff>>
      /\ published' \subseteq Catalog
    BY TypeParts DEF IInv, ProjectOK, Publish, disk, history, links
<1>2. ProjectOK' /\ ChoiceOK' /\ DiskOK' /\ InstallOK' /\ RecordOK'
    BY <1>1, TypeParts DEF IInv, ProjectOK, ChoiceOK, DiskOK, InstallOK, RecordOK
<1>3. Planned' = Planned /\ Resolved' = Resolved
    BY <1>1 DEF Planned, Plan, Resolved
<1>4. Named' /\ Phases' /\ Recorded'
    BY <1>1, <1>3 DEF IInv, Named, Phases, Walked, Lockfile, Started, Recorded, SharesPaths
<1>5. LinksFit' /\ LinksKnown' /\ FullLinks' /\ SessionCopied' /\ StoreHarmIsDoubled'
    BY <1>1, <1>3 DEF IInv, LinksFit, LinksKnown, Exposed, FullLinks, SessionCopied,
                      StoreHarmIsDoubled, IsLink
<1>6. EntriesHeld' /\ Applied'
    BY <1>1, <1>3 DEF IInv, EntriesHeld, Counts, Held, Applied, PatchIsApplied, Content
<1> QED  BY <1>2, <1>4, <1>5, <1>6, TypeParts, PTL DEF IInv

-----------------------------------------------------------------------------
(* The install. *)

LEMMA ResolveStep == ASSUME IInv, Resolve PROVE IInv'
<1>0. ProjectOK /\ ChoiceOK /\ DiskOK /\ InstallOK /\ RecordOK /\ step = "idle"
    BY TypeParts DEF IInv, Resolve
<1>1. /\ UNCHANGED <<deps, patched, published, lock, store, nm, backup, manifest, todo, full,
                     doubled, shared, stranded, relinked, cutOff>>
      /\ step' = "fetch" /\ settled' = FALSE
    BY DEF Resolve, project, disk, links
<1>2. PackageMap(chosen') /\ Walked'
    <2>1. chosen' = Resolution(deps, lock, published) /\ None \notin Range(chosen')
        BY DEF Resolve
    <2>2. deps \in SUBSET Dependencies /\ published \in SUBSET Catalog
        BY <1>0, Dependency DEF ProjectOK
    <2>3. PackageMap(lock)
        BY LockIs
    <2> QED  BY <1>1, <2>1, <2>2, <2>3, WalkIsLeast DEF Walked
<1>3. ProjectOK' /\ ChoiceOK' /\ DiskOK' /\ InstallOK' /\ RecordOK'
    BY <1>0, <1>1, <1>2 DEF ProjectOK, ChoiceOK, DiskOK, InstallOK, RecordOK, PackageMap
<1>4. Named'
    BY <1>1, <1>2 DEF IInv, Named, PackageMap
<1>5. Phases'
    BY <1>1, <1>2 DEF Phases, Started, Linking, Finishing
<1>6. Recorded'
    BY <1>1 DEF IInv, Recorded, SharesPaths, Started, Linking, Finishing
<1>7. LinksFit' /\ LinksKnown' /\ FullLinks' /\ SessionCopied' /\ StoreHarmIsDoubled'
    BY <1>0, <1>1 DEF IInv, LinksFit, LinksKnown, Exposed, Lists, FullLinks, SessionCopied,
                      StoreHarmIsDoubled, IsLink
<1>8. EntriesHeld' /\ Applied'
    BY <1>0, <1>1 DEF IInv, EntriesHeld, Linking, Counts, Held, Applied, Content
<1> QED  BY <1>3, <1>4, <1>5, <1>6, <1>7, <1>8, TypeParts, PTL DEF IInv

LEMMA FetchStep == ASSUME IInv, Fetch PROVE IInv'
<1>0. /\ ProjectOK /\ ChoiceOK /\ DiskOK /\ InstallOK /\ RecordOK
      /\ StoreHarmIsDoubled /\ step = "fetch"
    BY TypeParts DEF IInv, Fetch
<1>1. UNCHANGED <<deps, patched, published, lock, nm, backup, manifest, step, chosen, todo, full,
                  settled, doubled, shared, stranded, relinked, cutOff>>
    BY DEF Fetch, project, history, links
<1>2. PICK p \in Resolved \ DOMAIN store : store' = Put(store, p, Pristine(p))
    BY DEF Fetch
<1>3. /\ DOMAIN store' = DOMAIN store \cup {p} /\ p \in Catalog
      /\ \A q \in DOMAIN store : store'[q] = store[q]
      /\ store'[p] = Pristine(p)
    BY <1>2, PlannedIs DEF Put, IInv
<1>4. DiskOK'
    <2>1. \A q \in DOMAIN store' : q \in Catalog /\ store'[q] \in Contents
        BY <1>0, <1>3, MapIs, FilesAre DEF DiskOK
    <2>2. IsMap(store', Catalog, Contents)
        BY <2>1, IsMapIf
    <2> QED  BY <1>0, <1>1, <1>3, <2>2 DEF DiskOK
<1>5. ProjectOK' /\ ChoiceOK' /\ InstallOK' /\ RecordOK'
    BY <1>0, <1>1 DEF ProjectOK, ChoiceOK, InstallOK, RecordOK
<1>6. Planned' = Planned /\ Resolved' = Resolved
    BY <1>1 DEF Planned, Plan, Resolved
<1>7. Named' /\ Phases' /\ Recorded'
    BY <1>0, <1>1, <1>6 DEF IInv, Named, Phases, Walked, Started, Linking, Finishing,
                            Recorded, SharesPaths
<1>8. LinksFit' /\ LinksKnown' /\ FullLinks' /\ SessionCopied'
    BY <1>0, <1>1, <1>6 DEF IInv, LinksFit, LinksKnown, Exposed, FullLinks, SessionCopied, IsLink
<1>9. StoreHarmIsDoubled'
    BY <1>0, <1>1, <1>3, FilesAre DEF StoreHarmIsDoubled
<1>10. \A path \in DOMAIN nm : At(path)' = At(path)
    <2> SUFFICES ASSUME NEW path \in DOMAIN nm PROVE At(path)' = At(path)
        OBVIOUS
    <2>1. CASE IsLink(path)
        BY <1>0, <1>1, <1>3, <2>1, AtIs DEF At, Content, IsLink
    <2>2. CASE ~IsLink(path)
        BY <1>1, <2>2 DEF At, Content, IsLink
    <2> QED  BY <2>1, <2>2
<1>11. EntriesHeld' /\ Applied'
    <2>1. \A e \in Entries : Held(e) => Held(e)'
        BY <1>1, <1>10 DEF Held, At
    <2>2. settled = FALSE
        BY <1>0 DEF IInv, Phases, RecordOK
    <2>3. manifest # None => manifest \subseteq Entries
        BY <1>0 DEF InstallOK
    <2> QED  BY <1>0, <1>1, <2>1, <2>2, <2>3 DEF IInv, EntriesHeld, Linking, Counts, Applied
<1> QED  BY <1>4, <1>5, <1>7, <1>8, <1>9, <1>11, TypeParts, PTL DEF IInv
(* The plan is made, and what it puts together is recorded. *)
LEMMA StartLinkingStep == ASSUME IInv, StartLinking PROVE IInv'
<1>0. /\ TypeOK /\ ProjectOK /\ ChoiceOK /\ DiskOK /\ InstallOK /\ RecordOK
      /\ StoreHarmIsDoubled /\ step = "fetch" /\ Resolved \subseteq DOMAIN store
    BY TypeParts DEF IInv, StartLinking
<1>1. UNCHANGED <<deps, patched, published, lock, store, nm, backup, manifest, chosen, settled,
                  stranded, relinked, cutOff>>
    BY DEF StartLinking, project, disk
<1>2. \/ full' = TRUE /\ step' = "wipe" /\ todo' = {}
      \/ /\ full' = FALSE /\ step' = "prune" /\ manifest # None
         /\ todo' = {e \in manifest : ~\E x \in Planned : x.pkg = e.pkg /\ x.in = e.in}
    BY DEF StartLinking
<1>3. /\ doubled' = doubled \cup {p \in Resolved : \E q \in Resolved \ {p} : q.name = p.name}
      /\ shared' = shared \cup {e.pkg : e \in {x \in Planned :
                                    \E y \in Planned \ {x} : PathOf(y) = PathOf(x)}}
    BY DEF StartLinking
<1>4. /\ Resolved \in SUBSET Catalog /\ Planned \subseteq Entries
      /\ \A e \in Planned : e.pkg \in Resolved
      /\ \A x, y \in Planned : x.pkg = y.pkg => x = y
    BY <1>0, PlannedIs
<1>5. manifest # None => manifest \subseteq Entries
    BY <1>0 DEF InstallOK
<1>6. \A x, y \in Entries : PathOf(x) = PathOf(y) <=> x.in = y.in /\ x.pkg.name = y.pkg.name
    BY DEF PathOf
<1>7. Planned' = Planned /\ Resolved' = Resolved
    BY <1>1 DEF Planned, Plan, Resolved
<1>8. ProjectOK' /\ ChoiceOK' /\ DiskOK'
    BY <1>0, <1>1 DEF ProjectOK, ChoiceOK, DiskOK
<1>9. InstallOK'
    BY <1>0, <1>1, <1>2, <1>5 DEF InstallOK
<1>10. RecordOK'
    <2>1. ASSUME NEW x \in Planned, NEW y \in Planned \ {x}, PathOf(y) = PathOf(x)
          PROVE  x.pkg \in doubled'
        <3>1. x.pkg # y.pkg /\ x.pkg.name = y.pkg.name
            BY <1>4, <1>6, <2>1
        <3> QED  BY <1>3, <1>4, <3>1
    <2>2. shared' \subseteq doubled'
        BY <1>0, <1>3, <2>1 DEF RecordOK
    <2>3. doubled' \subseteq Catalog
        BY <1>0, <1>3, <1>4 DEF RecordOK
    <2> QED  BY <1>0, <1>1, <2>2, <2>3 DEF RecordOK
<1>11. Named'
    BY <1>1 DEF IInv, Named
<1>12. Phases'
    <2>1. settled = FALSE
        BY <1>0 DEF IInv, Phases, RecordOK
    <2>2. Walked'
        BY <1>0, <1>1 DEF IInv, Phases, Walked
    <2> QED  BY <1>0, <1>1, <1>2, <1>7, <2>1, <2>2 DEF Phases, Started, Finishing, Linking
<1>13. Recorded'
    <2>1. \A p, q \in Resolved : p # q /\ p.name = q.name => p \in doubled'
        BY <1>3
    <2>2. SharesPaths(Planned)'
        BY <1>3, <1>7 DEF SharesPaths
    <2>3. manifest # None => SharesPaths(manifest)'
        BY <1>1, <1>3 DEF IInv, Recorded, SharesPaths
    <2>4. step' = "prune" => \A x \in todo' : ~Lists(Planned, PathOf(x), x.pkg)
        BY <1>2, <1>4, <1>5, <1>6 DEF Lists
    <2> QED  BY <1>1, <1>7, <2>1, <2>2, <2>3, <2>4 DEF Recorded, Lists
<1>14. LinksFit' /\ FullLinks' /\ SessionCopied'
    BY <1>1, <1>2 DEF IInv, LinksFit, FullLinks, SessionCopied, IsLink
<1>15. LinksKnown'
    <2> SUFFICES ASSUME NEW path \in DOMAIN nm, IsLink(path), Exposed(nm[path].to), manifest # None
                 PROVE  /\ Lists(manifest, path, nm[path].to)
                        /\ step' = "prune" => Lists(Planned \cup todo', path, nm[path].to)
        BY <1>1, <1>2, <1>3, <1>7 DEF LinksKnown, Exposed, Lists, IsLink
    <2>1. Lists(manifest, path, nm[path].to)
        BY <1>0 DEF IInv, LinksKnown
    <2>2. PICK e \in manifest : PathOf(e) = path /\ e.pkg = nm[path].to
        BY <2>1 DEF Lists
    <2>3. ASSUME step' = "prune", e \notin todo'
          PROVE  \E x \in Planned : PathOf(x) = path /\ x.pkg = nm[path].to
        <3>1. PICK x \in Planned : x.pkg = e.pkg /\ x.in = e.in
            BY <1>2, <2>2, <2>3
        <3> QED  BY <1>4, <1>5, <1>6, <2>2, <3>1
    <2> QED  BY <2>1, <2>2, <2>3 DEF Lists
<1>16. StoreHarmIsDoubled'
    BY <1>0, <1>1, <1>3 DEF StoreHarmIsDoubled
<1>17. EntriesHeld'
    <2>1. (manifest # None /\ ~cutOff) => \A e \in manifest : Counts(e) => Held(e)
        BY <1>0 DEF IInv, EntriesHeld, Linking
    <2>2. \A e : (Counts(e)' => Counts(e)) /\ (Held(e)' <=> Held(e))
        BY <1>1, <1>3 DEF Counts, Held, Content
    <2> QED  BY <1>1, <1>2, <2>1, <2>2 DEF EntriesHeld, Linking
<1>18. Applied'
    BY <1>0, <1>1, <1>2 DEF IInv, Phases, RecordOK, Applied
<1> QED  BY <1>8, <1>9, <1>10, <1>11, <1>12, <1>13, <1>14, <1>15, <1>16, <1>17, <1>18,
            TypeParts, PTL DEF IInv

\* Taking files away leaves the others as they are.
LEMMA Removed ==
    ASSUME DiskOK, NEW paths, nm' = Without(paths), store' = store
    PROVE  /\ DOMAIN nm' = DOMAIN nm \ paths
           /\ IsMap(nm', Paths, Files)
           /\ \A path \in DOMAIN nm' : nm'[path] = nm[path] /\ At(path)' = At(path)
           /\ \A path : IsLink(path)' => IsLink(path) /\ nm'[path] = nm[path] /\ path \notin paths
<1>1. nm' = [path \in DOMAIN nm \ paths |-> nm[path]]
    BY DEF Without, Restrict
<1>2. DOMAIN nm' = DOMAIN nm \ paths /\ \A path \in DOMAIN nm' : nm'[path] = nm[path]
    BY <1>1
<1>3. IsMap(nm', Paths, Files)
    BY <1>2, MapIs, IsMapIf DEF DiskOK
<1> QED  BY <1>2, <1>3 DEF At, Content, IsLink

\* The paths of a tree other than its own are in no place at the top.
LEMMA TreeAtTop ==
    ASSUME NEW path \in Paths, NEW other \in Tree(path), other.in = Top
    PROVE  other = path
BY CatalogAssumption DEF Tree, Paths

LEMMA WipeStep == ASSUME IInv, Wipe PROVE IInv'
<1>0. /\ TypeOK /\ ProjectOK /\ ChoiceOK /\ DiskOK /\ InstallOK /\ RecordOK
      /\ StoreHarmIsDoubled /\ step = "wipe" /\ settled = FALSE
    BY TypeParts DEF IInv, Wipe, Phases, RecordOK
<1>1. UNCHANGED <<deps, patched, published, lock, store, chosen, full, settled, doubled, shared,
                  stranded, relinked, cutOff>>
    BY DEF Wipe, project, history, links
<1>2. Planned' = Planned /\ Resolved' = Resolved
    BY <1>1 DEF Planned, Plan, Resolved
<1>3. Named' /\ ProjectOK' /\ ChoiceOK' /\ RecordOK' /\ Walked'
    BY <1>0, <1>1 DEF IInv, Named, ProjectOK, ChoiceOK, RecordOK, Phases, Walked
<1>4. StoreHarmIsDoubled' /\ Applied'
    BY <1>0, <1>1 DEF StoreHarmIsDoubled, Applied, Wipe
<1>5. CASE UNCHANGED <<step, todo>>
    <2>1. manifest' \in {manifest, None}
        BY <1>5 DEF Wipe
    <2>2. \/ nm' = nm
          \/ \E path \in DOMAIN nm : nm' = Without(Tree(path))
        BY DEF Wipe
    <2>3. /\ DOMAIN nm' \subseteq DOMAIN nm
          /\ IsMap(nm', Paths, Files)
          /\ \A path : IsLink(path)' => IsLink(path) /\ nm'[path] = nm[path]
        BY <1>0, <1>1, <2>2, Removed DEF DiskOK, IsLink
    <2>4. backup' \in {backup, <<>>}
        BY DEF Wipe
    <2>5. DiskOK'
        BY <1>0, <1>1, <2>3, <2>4, EmptyMap DEF DiskOK, IsLink
    <2>6. InstallOK'
        BY <1>0, <1>1, <1>5, <2>1 DEF InstallOK
    <2>7. Phases'
        BY <1>0, <1>1, <1>2, <1>3, <1>5 DEF IInv, Phases, Started, Linking, Finishing
    <2>8. Recorded'
        BY <1>0, <1>1, <1>2, <1>5, <2>1 DEF IInv, Recorded, Started, Linking, Finishing, SharesPaths
    <2>9. LinksFit' /\ FullLinks' /\ SessionCopied'
        BY <1>0, <1>1, <1>5, <2>3, <2>4, EmptyMap DEF IInv, LinksFit, FullLinks, SessionCopied, IsLink
    <2>10. LinksKnown'
        BY <1>0, <1>1, <1>5, <2>1, <2>3 DEF IInv, LinksKnown, Exposed, Lists
    <2>11. EntriesHeld'
        BY <1>0, <1>5 DEF EntriesHeld, Linking
    <2> QED  BY <1>3, <1>4, <2>5, <2>6, <2>7, <2>8, <2>9, <2>10, <2>11, TypeParts, PTL DEF IInv
<1>6. CASE step' = "link"
    <2>1. /\ nm = <<>> /\ backup = <<>> /\ manifest = None /\ todo' = Planned
          /\ UNCHANGED <<nm, backup, manifest>>
        BY <1>0, <1>6 DEF Wipe
    <2>2. InstallOK' /\ DiskOK'
        BY <1>0, <1>1, <1>6, <2>1, PlannedIs DEF InstallOK, DiskOK
    <2>3. Phases'
        BY <1>0, <1>1, <1>2, <1>3, <1>6, <2>1 DEF IInv, Phases, Started, Linking, Finishing
    <2>4. Recorded'
        BY <1>0, <1>1, <1>2, <1>6, <2>1 DEF IInv, Recorded, Started, Linking, Finishing, SharesPaths
    <2>5. LinksFit' /\ FullLinks' /\ SessionCopied' /\ LinksKnown'
        BY <2>1, EmptyMap DEF LinksFit, FullLinks, SessionCopied, LinksKnown
    <2>6. EntriesHeld'
        BY <1>2, <1>6, <2>1 DEF EntriesHeld, Linking
    <2> QED  BY <1>3, <1>4, <2>2, <2>3, <2>4, <2>5, <2>6, TypeParts, PTL DEF IInv
<1> QED  BY <1>5, <1>6 DEF Wipe
(* Only entries that are pruned lose their path, unless two share it. *)
LEMMA PruneStep == ASSUME IInv, Prune PROVE IInv'
<1>0. /\ TypeOK /\ ProjectOK /\ ChoiceOK /\ DiskOK /\ InstallOK /\ RecordOK
      /\ StoreHarmIsDoubled /\ step = "prune" /\ settled = FALSE
      /\ ~full /\ manifest # None /\ todo \subseteq manifest /\ manifest \subseteq Entries
    BY TypeParts DEF IInv, Prune, Phases, RecordOK, InstallOK
<1>1. UNCHANGED <<deps, patched, published, lock, store, backup, manifest, chosen, full, settled,
                  doubled, shared, stranded, relinked, cutOff>>
    BY DEF Prune, project, history, links
<1>2. Planned' = Planned /\ Resolved' = Resolved
    BY <1>1 DEF Planned, Plan, Resolved
<1>3. Named' /\ ProjectOK' /\ ChoiceOK' /\ RecordOK' /\ Walked'
    BY <1>0, <1>1 DEF IInv, Named, ProjectOK, ChoiceOK, RecordOK, Phases, Walked
<1>4. StoreHarmIsDoubled'
    BY <1>0, <1>1 DEF StoreHarmIsDoubled
<1>5. CASE todo # {}
    <2>1. PICK e \in todo : nm' = Without(Tree(PathOf(e))) /\ todo' = todo \ {e} /\ step' = step
        BY <1>5 DEF Prune
    <2>2. e \in Entries /\ e \in manifest /\ PathOf(e) \in Paths /\ PathOf(e) \in Tree(PathOf(e))
        BY <1>0, EntryPaths DEF Tree
    <2>3. /\ DOMAIN nm' = DOMAIN nm \ Tree(PathOf(e))
          /\ IsMap(nm', Paths, Files)
          /\ \A path \in DOMAIN nm' : nm'[path] = nm[path] /\ At(path)' = At(path)
          /\ \A path : IsLink(path)' => /\ IsLink(path) /\ nm'[path] = nm[path]
                                        /\ path \notin Tree(PathOf(e))
        BY <1>0, <1>1, <2>1, Removed
    <2>4. DiskOK' /\ InstallOK'
        BY <1>0, <1>1, <2>1, <2>3 DEF DiskOK, InstallOK, IsLink
    <2>5. Phases'
        BY <1>0, <1>1, <1>2, <1>3, <2>1 DEF IInv, Phases, Started, Linking, Finishing
    <2>6. Recorded'
        BY <1>0, <1>1, <1>2, <2>1 DEF IInv, Recorded, Started, Linking, Finishing, SharesPaths, Lists
    <2>7. LinksFit' /\ FullLinks' /\ SessionCopied'
        BY <1>0, <1>1, <2>1, <2>3 DEF IInv, LinksFit, FullLinks, SessionCopied
    <2>8. LinksKnown'
        <3> SUFFICES ASSUME NEW path \in DOMAIN nm, IsLink(path), Exposed(nm[path].to),
                            path \notin Tree(PathOf(e))
                     PROVE  /\ Lists(manifest, path, nm[path].to)
                            /\ Lists(Planned \cup todo', path, nm[path].to)
            BY <1>0, <1>1, <1>2, <2>1, <2>3 DEF LinksKnown, Exposed, Lists
        <3>1. Lists(manifest, path, nm[path].to) /\ Lists(Planned \cup todo, path, nm[path].to)
            BY <1>0 DEF IInv, LinksKnown
        <3> QED  BY <2>1, <2>2, <3>1 DEF Lists
    <2>9. EntriesHeld'
        <3> SUFFICES ASSUME ~cutOff, NEW f \in manifest, Counts(f), Lists(Planned, PathOf(f), f.pkg)
                     PROVE  Held(f)'
            BY <1>0, <1>1, <1>2, <2>1 DEF EntriesHeld, Linking, Counts, Lists
        <3>1. Held(f) /\ f \in Entries /\ PathOf(f) \in Paths /\ PathOf(f).in = Top
            BY <1>0, EntryPaths DEF IInv, EntriesHeld, Counts
        <3>2. PathOf(f) # PathOf(e)
            <4>1. ~Lists(Planned, PathOf(e), e.pkg)
                BY <1>0, <2>1 DEF IInv, Recorded
            <4>2. PathOf(f) = PathOf(e) /\ f.pkg # e.pkg => f.pkg \in shared
                BY <1>0, <2>2 DEF IInv, Recorded, SharesPaths
            <4> QED  BY <4>1, <4>2 DEF Counts
        <3>3. PathOf(f) \notin Tree(PathOf(e))
            BY <2>2, <3>1, <3>2, TreeAtTop
        <3> QED  BY <1>1, <2>3, <3>1, <3>3 DEF Held, At
    <2>10. Applied'
        BY <1>0, <1>1, <2>1 DEF Applied
    <2> QED  BY <1>3, <1>4, <2>4, <2>5, <2>6, <2>7, <2>8, <2>9, <2>10, TypeParts, PTL DEF IInv
<1>6. CASE todo = {}
    <2>1. nm' = nm /\ step' = "link" /\ todo' = Planned \ manifest
        BY <1>6 DEF Prune
    <2>2. DiskOK' /\ InstallOK'
        BY <1>0, <1>1, <2>1, PlannedIs DEF DiskOK, InstallOK
    <2>3. Phases'
        BY <1>0, <1>1, <1>2, <1>3, <2>1 DEF IInv, Phases, Started, Linking, Finishing
    <2>4. Recorded'
        BY <1>0, <1>1, <1>2, <2>1 DEF IInv, Recorded, Started, Linking, Finishing, SharesPaths
    <2>5. LinksFit' /\ FullLinks' /\ SessionCopied'
        BY <1>0, <1>1, <2>1 DEF IInv, LinksFit, FullLinks, SessionCopied, IsLink
    <2>6. LinksKnown'
        BY <1>0, <1>1, <1>2, <1>6, <2>1 DEF IInv, LinksKnown, Exposed, Lists, IsLink
    <2>7. EntriesHeld'
        <3> SUFFICES ASSUME ~cutOff, NEW e \in Planned \cap manifest, Counts(e)
                     PROVE  Held(e)
            BY <1>0, <1>1, <1>2, <2>1 DEF EntriesHeld, Linking, Counts, Held, Content
        <3> QED  BY <1>0 DEF IInv, EntriesHeld, Lists
    <2>8. Applied'
        BY <1>0, <1>1, <2>1 DEF Applied
    <2> QED  BY <1>3, <1>4, <2>2, <2>3, <2>4, <2>5, <2>6, <2>7, <2>8, TypeParts, PTL DEF IInv
<1> QED  BY <1>5, <1>6

\* What placing a package does: its own file, or another's overwritten.
LEMMA Placed ==
    ASSUME DiskOK, NEW next \in Entries, next.pkg \in DOMAIN store,
           Place(next, IF full THEN nm ELSE Without(Tree(PathOf(next))))
    PROVE  \/ /\ store' = store /\ PathOf(next) \in DOMAIN nm'
              /\ \/ nm'[PathOf(next)] = Copy(store[next.pkg])
                 \/ nm'[PathOf(next)] = Link(next.pkg) /\ next.pkg \notin Scripted
              /\ \A x \in DOMAIN nm' : x # PathOf(next) => x \in DOMAIN nm /\ nm'[x] = nm[x]
              /\ \A x \in DOMAIN nm : x \in DOMAIN nm' \/ (~full /\ x \in Tree(PathOf(next)))
           \/ /\ full /\ nm' = nm /\ IsLink(PathOf(next))
              /\ store' = [store EXCEPT ![nm[PathOf(next)].to] = store[next.pkg]]
<1> DEFINE path == PathOf(next)
           tree == IF full THEN nm ELSE Without(Tree(path))
<1>1. /\ DOMAIN tree \subseteq DOMAIN nm /\ \A x \in DOMAIN tree : tree[x] = nm[x]
      /\ full => tree = nm
      /\ ~full => DOMAIN tree = DOMAIN nm \ Tree(path) /\ path \notin DOMAIN tree
    BY DEF Without, Restrict, Tree
<1>2. Place(next, tree)
    OBVIOUS
<1> HIDE DEF tree
<1>3. CASE path \notin DOMAIN tree
    <2>1. /\ nm' = Put(tree, path, IF Copied(next) THEN Copy(store[next.pkg]) ELSE Link(next.pkg))
          /\ store' = store
        BY <1>2, <1>3 DEF Place
    <2>2. /\ DOMAIN nm' = DOMAIN tree \cup {path}
          /\ nm'[path] = IF Copied(next) THEN Copy(store[next.pkg]) ELSE Link(next.pkg)
          /\ \A x \in DOMAIN tree : nm'[x] = tree[x]
        BY <1>3, <2>1 DEF Put
    <2>3. nm'[path] = Copy(store[next.pkg]) \/ (nm'[path] = Link(next.pkg) /\ next.pkg \notin Scripted)
        BY <2>2 DEF Copied
    <2> QED  BY <1>1, <2>1, <2>2, <2>3
<1>4. CASE path \in DOMAIN tree /\ tree[path].kind = "link"
    BY <1>1, <1>2, <1>4 DEF Place, IsLink
<1>5. CASE path \in DOMAIN tree /\ tree[path].kind # "link"
    <2>1. nm' = [tree EXCEPT ![path] = Copy(store[next.pkg])] /\ store' = store
        BY <1>2, <1>5 DEF Place
    <2> QED  BY <1>1, <1>5, <2>1
<1> QED  BY <1>3, <1>4, <1>5
LEMMA NextToLink ==
    ASSUME NEW S, S # {}, S \subseteq Entries
    PROVE  (CHOOSE e \in S : e.pkg = First({x.pkg : x \in S})) \in S
<1>1. {x.pkg : x \in S} \in SUBSET Catalog /\ {x.pkg : x \in S} # {}
    BY DEF Entries
<1>2. First({x.pkg : x \in S}) \in {x.pkg : x \in S}
    BY <1>1, FirstAndLast
<1> QED  BY <1>2

(* A package is linked at a path of its own, or its path is on record. *)
LEMMA LinkPackageStep == ASSUME IInv, LinkPackage PROVE IInv'
<1>0. /\ TypeOK /\ ProjectOK /\ ChoiceOK /\ DiskOK /\ InstallOK /\ RecordOK
      /\ StoreHarmIsDoubled /\ step = "link" /\ settled = FALSE
      /\ todo \subseteq Planned /\ todo \subseteq Entries /\ Planned \subseteq Entries
      /\ full => manifest = None
    BY TypeParts, PlannedIs DEF IInv, LinkPackage, Phases, RecordOK, InstallOK
<1>1. UNCHANGED <<deps, patched, published, lock, backup, manifest, step, chosen, full, settled,
                  doubled, shared, stranded, cutOff>>
    BY DEF LinkPackage, project
<1>2. PICK next \in todo :
          /\ Place(next, IF full THEN nm ELSE Without(Tree(PathOf(next))))
          /\ todo' = todo \ {next}
          /\ relinked' = IF AtTop(next.pkg.name) \in DOMAIN backup
                         THEN relinked \cup {next.pkg} ELSE relinked
    <2>1. todo # {}
        BY DEF LinkPackage
    <2>2. (CHOOSE e \in todo : e.pkg = First({x.pkg : x \in todo})) \in todo
        BY <1>0, <2>1, NextToLink
    <2> QED  BY <2>2 DEF LinkPackage
<1> DEFINE path == PathOf(next)
           p == next.pkg
<1>3. /\ next \in Planned /\ next \in Entries /\ path \in Paths /\ p \in Catalog
      /\ path.name = p.name /\ path.in = next.in /\ path \in Tree(path)
      /\ next.in = Top => path = AtTop(p.name)
    BY <1>0, EntryPaths DEF Tree
<1>4. p \in DOMAIN store /\ store[p] \in Contents
    <2>1. p \in Resolved
        BY <1>0, <1>3, PlannedIs
    <2>2. p \in DOMAIN store
        BY <1>0, <2>1 DEF IInv, Phases, Started, Linking
    <2> QED  BY <1>0, <2>2, MapIs DEF DiskOK
<1>5. /\ relinked \subseteq relinked' /\ relinked' \subseteq Catalog
      /\ AtTop(p.name) \in DOMAIN backup => p \in relinked'
    BY <1>0, <1>2, <1>3 DEF RecordOK
<1>6. Planned' = Planned /\ Resolved' = Resolved
    BY <1>1 DEF Planned, Plan, Resolved
<1>7. \A e \in Planned \ {next} : PathOf(e) = path => p \in shared /\ e.pkg \in shared
    <2>1. SharesPaths(Planned)
        BY <1>0 DEF IInv, Recorded, Started, Linking
    <2>2. \A e \in Planned : e.pkg = p => e = next
        BY <1>0, <1>3, PlannedIs
    <2> QED  BY <1>3, <2>1, <2>2 DEF SharesPaths
<1>8. Named' /\ ProjectOK' /\ ChoiceOK' /\ InstallOK' /\ RecordOK' /\ Applied'
    BY <1>0, <1>1, <1>2, <1>5 DEF IInv, Named, ProjectOK, ChoiceOK, InstallOK, RecordOK, Applied
<1>9. Recorded'
    BY <1>0, <1>1, <1>6 DEF IInv, Recorded, Started, Linking, Finishing, SharesPaths
<1> HIDE DEF path, p
<1>10. CASE /\ store' = store /\ path \in DOMAIN nm'
            /\ nm'[path] = Copy(store[p]) \/ (nm'[path] = Link(p) /\ p \notin Scripted)
            /\ \A x \in DOMAIN nm' : x # path => x \in DOMAIN nm /\ nm'[x] = nm[x]
            /\ \A x \in DOMAIN nm : x \in DOMAIN nm' \/ (~full /\ x \in Tree(path))
    <2>1. /\ nm'[path] \in Files
          /\ IsLink(path)' => nm'[path].to = p /\ p \notin Scripted
          /\ At(path)' = store[p]
        <3>1. CASE nm'[path] = Copy(store[p])
            <4>1. /\ nm'[path] \in Files /\ nm'[path].kind = "copy" /\ nm'[path].content = store[p]
                BY <1>4, <3>1, FilesAre
            <4> QED  BY <4>1 DEF IsLink, At, Content
        <3>2. CASE nm'[path] = Link(p) /\ p \notin Scripted
            <4>1. /\ nm'[path] \in Files /\ nm'[path].kind = "link" /\ nm'[path].to = p
                BY <1>3, <3>2, FilesAre DEF p
            <4> QED  BY <1>10, <3>2, <4>1 DEF IsLink, At, Content
        <3> QED  BY <1>10, <3>1, <3>2
    <2>2. \A x : IsLink(x)' => \/ x = path /\ nm'[x].to = p /\ p \notin Scripted
                               \/ IsLink(x) /\ nm'[x] = nm[x]
        BY <1>10, <2>1 DEF IsLink
    <2>3. \A x \in DOMAIN nm' : x # path => At(x)' = At(x)
        BY <1>10 DEF At, Content
    <2>4. DiskOK'
        <3>1. IsMap(nm', Paths, Files)
            <4>1. \A x \in DOMAIN nm' : x \in Paths /\ nm'[x] \in Files
                BY <1>0, <1>3, <1>10, <2>1, AtIs DEF path
            <4> QED  BY <4>1, IsMapIf
        <3>2. \A x \in DOMAIN nm' : nm'[x].kind = "link" => nm'[x].to \in DOMAIN store'
            BY <1>0, <1>4, <1>10, <2>2 DEF DiskOK, IsLink
        <3> QED  BY <1>0, <1>1, <1>10, <3>1, <3>2 DEF DiskOK
    <2>5. Phases'
        BY <1>0, <1>1, <1>2, <1>6, <1>10 DEF IInv, Phases, Walked, Started, Linking, Finishing
    <2>6. LinksFit'
        BY <1>3, <2>2 DEF IInv, LinksFit, path, p, IsLink
    <2>7. LinksKnown'
        <3> SUFFICES ASSUME NEW x, IsLink(x)', Exposed(nm'[x].to)
                     PROVE  Lists(Planned, x, nm'[x].to)
            BY <1>0, <1>1, <1>6 DEF LinksKnown, Exposed, Lists, IsLink
        <3>1. CASE x = path /\ nm'[x].to = p
            BY <1>3, <3>1 DEF Lists, path, p
        <3>2. CASE IsLink(x) /\ nm'[x] = nm[x]
            BY <1>0, <3>2 DEF IInv, LinksKnown, IsLink
        <3> QED  BY <2>2, <3>1, <3>2
    <2>8. FullLinks'
        <3> SUFFICES ASSUME full, NEW x \in DOMAIN nm'
                     PROVE  \E e \in Planned \ todo' :
                                PathOf(e) = x /\ (IsLink(x)' => e.pkg = nm'[x].to)
            BY <1>1, <1>6 DEF FullLinks
        <3>1. CASE x = path
            BY <1>2, <1>3, <2>1, <3>1 DEF path, p
        <3>2. CASE x # path
            <4>1. x \in DOMAIN nm /\ (IsLink(x)' => IsLink(x) /\ nm'[x] = nm[x])
                BY <1>10, <2>2, <3>2
            <4>2. PICK e \in Planned \ todo : PathOf(e) = x /\ (IsLink(x) => e.pkg = nm[x].to)
                BY <1>0, <4>1 DEF IInv, FullLinks
            <4> QED  BY <1>2, <4>1, <4>2
        <3> QED  BY <3>1, <3>2
    <2>9. SessionCopied'
        <3> SUFFICES ASSUME NEW x \in DOMAIN backup, x.in = Top, IsLink(x)'
                     PROVE  \E q \in relinked' : q.name = x.name
            BY <1>1 DEF SessionCopied
        <3>1. CASE x = path
            BY <1>3, <1>5, <3>1 DEF path, p
        <3>2. CASE IsLink(x)
            BY <1>5, <3>2 DEF IInv, SessionCopied
        <3> QED  BY <2>2, <3>1, <3>2
    <2>10. StoreHarmIsDoubled'
        BY <1>0, <1>1, <1>5, <1>10 DEF StoreHarmIsDoubled
    <2>11. EntriesHeld'
        <3> SUFFICES ASSUME full \/ ~cutOff, NEW e \in Planned \ todo', Counts(e)'
                     PROVE  Held(e)'
            BY <1>0, <1>1, <1>6 DEF EntriesHeld, Linking
        <3>1. Counts(e) /\ e.in = Top /\ e.pkg \notin shared /\ e.pkg \notin relinked'
            BY <1>1, <1>5 DEF Counts
        <3>2. CASE e = next
            <4>1. p \in Catalog /\ store[p].of = p
                BY <1>0, <1>3, <1>4, <3>1, <3>2 DEF StoreHarmIsDoubled, p
            <4>2. path \notin DOMAIN backup
                BY <1>3, <1>5, <3>1, <3>2 DEF p
            <4> QED  BY <1>1, <1>10, <2>1, <3>2, <4>1, <4>2 DEF Held, At, path, p
        <3>3. CASE e # next
            <4>1. Held(e)
                BY <1>0, <1>2, <3>1, <3>3 DEF IInv, EntriesHeld
            <4>2. PathOf(e) # path /\ PathOf(e).in = Top
                BY <1>0, <1>7, <3>1, <3>3, EntryPaths
            <4>3. PathOf(e) \notin Tree(path)
                BY <1>3, <4>2, TreeAtTop DEF path
            <4> QED  BY <1>1, <1>10, <2>3, <4>1, <4>2, <4>3 DEF Held, At
        <3> QED  BY <3>2, <3>3
    <2> QED  BY <1>8, <1>9, <2>4, <2>5, <2>6, <2>7, <2>8, <2>9, <2>10, <2>11, TypeParts, PTL DEF IInv
<1>11. CASE full /\ nm' = nm /\ IsLink(path) /\ store' = [store EXCEPT ![nm[path].to] = store[p]]
    <2> DEFINE t == nm[path].to
    <2>1. /\ t \in Catalog /\ t \in DOMAIN store /\ t.name = p.name
          /\ t \in shared /\ p \in shared
        <3>1. path \in DOMAIN nm
            BY <1>11 DEF IsLink
        <3>2. t \in Catalog /\ t \in DOMAIN store
            BY <1>0, <1>11, <3>1, AtIs
        <3>3. PICK e \in Planned \ todo : PathOf(e) = path /\ e.pkg = t
            BY <1>0, <1>11, <3>1 DEF IInv, FullLinks
        <3>4. e # next /\ e \in Entries
            BY <1>0, <3>3
        <3> QED  BY <1>3, <1>7, <3>2, <3>3, <3>4, EntryPaths DEF path, p
    <2>2. /\ DOMAIN store' = DOMAIN store /\ store'[t] = store[p]
          /\ \A q \in DOMAIN store : q # t => store'[q] = store[q]
        BY <1>11, <2>1
    <2> HIDE DEF t
    <2>3. \A x : IsLink(x)' <=> IsLink(x)
        BY <1>11 DEF IsLink
    <2>4. DiskOK'
        <3>1. \A q \in DOMAIN store' : q \in Catalog /\ store'[q] \in Contents
            BY <1>0, <1>4, <2>2, MapIs DEF DiskOK
        <3>2. IsMap(store', Catalog, Contents)
            BY <3>1, IsMapIf
        <3> QED  BY <1>0, <1>1, <1>11, <2>2, <3>2 DEF DiskOK
    <2>5. Phases'
        BY <1>0, <1>1, <1>2, <1>6, <2>2 DEF IInv, Phases, Walked, Started, Linking, Finishing
    <2>6. LinksFit' /\ LinksKnown'
        BY <1>0, <1>1, <1>6, <1>11, <2>3 DEF IInv, LinksFit, LinksKnown, Exposed, Lists, IsLink
    <2>7. FullLinks'
        BY <1>0, <1>1, <1>2, <1>6, <1>11, <2>3 DEF IInv, FullLinks
    <2>8. SessionCopied'
        BY <1>0, <1>1, <1>5, <1>11, <2>3 DEF IInv, SessionCopied
    <2>9. StoreHarmIsDoubled'
        <3>1. t \in doubled /\ p \in doubled
            BY <1>0, <2>1 DEF RecordOK
        <3>2. "patch" \in store[p].edits => \E q \in relinked' : q.name = t.name
            BY <1>0, <1>4, <1>5, <2>1 DEF StoreHarmIsDoubled
        <3> QED  BY <1>0, <1>1, <1>5, <2>1, <2>2, <3>1, <3>2 DEF StoreHarmIsDoubled
    <2>10. EntriesHeld'
        <3> SUFFICES ASSUME NEW e \in Planned \ todo', Counts(e)'
                     PROVE  Held(e)'
            BY <1>0, <1>1, <1>6 DEF EntriesHeld, Linking
        <3>1. Counts(e) /\ e.in = Top /\ e.pkg \notin shared
            BY <1>1, <1>5 DEF Counts
        <3>2. e # next
            BY <2>1, <3>1 DEF p
        <3>3. Held(e)
            BY <1>0, <1>2, <1>11, <3>1, <3>2 DEF IInv, EntriesHeld
        <3>4. PathOf(e) \in DOMAIN nm /\ At(PathOf(e)).of = e.pkg
            BY <3>3 DEF Held, At
        <3>5. At(PathOf(e))' = At(PathOf(e))
            <4>1. CASE IsLink(PathOf(e))
                <5>1. PICK f \in Planned \ todo : PathOf(f) = PathOf(e) /\ f.pkg = nm[PathOf(e)].to
                    BY <1>0, <1>11, <3>4, <4>1 DEF IInv, FullLinks
                <5>2. f.pkg = e.pkg
                    <6>1. SharesPaths(Planned)
                        BY <1>0 DEF IInv, Recorded, Started, Linking
                    <6> QED  BY <3>1, <5>1, <6>1 DEF SharesPaths
                <5>3. nm[PathOf(e)].to # t
                    BY <2>1, <3>1, <5>1, <5>2
                <5>4. nm[PathOf(e)].to \in DOMAIN store
                    BY <1>0, <3>4, <4>1, AtIs
                <5> QED  BY <1>11, <2>2, <4>1, <5>3, <5>4 DEF At, Content, IsLink
            <4>2. CASE ~IsLink(PathOf(e))
                BY <1>11, <3>4, <4>2 DEF At, Content, IsLink
            <4> QED  BY <4>1, <4>2
        <3> QED  BY <1>1, <1>11, <3>3, <3>4, <3>5 DEF Held, At
    <2> QED  BY <1>8, <1>9, <2>4, <2>5, <2>6, <2>7, <2>8, <2>9, <2>10, TypeParts, PTL DEF IInv
<1> QED
    <2>1. \/ /\ store' = store /\ path \in DOMAIN nm'
             /\ nm'[path] = Copy(store[p]) \/ (nm'[path] = Link(p) /\ p \notin Scripted)
             /\ \A x \in DOMAIN nm' : x # path => x \in DOMAIN nm /\ nm'[x] = nm[x]
             /\ \A x \in DOMAIN nm : x \in DOMAIN nm' \/ (~full /\ x \in Tree(path))
          \/ /\ full /\ nm' = nm /\ IsLink(path)
             /\ store' = [store EXCEPT ![nm[path].to] = store[p]]
        BY <1>0, <1>2, <1>3, <1>4, Placed DEF path, p
    <2> QED  BY <1>10, <1>11, <2>1
(* What was linked is now on the manifest. *)
LEMMA WriteManifestStep == ASSUME IInv, WriteManifest PROVE IInv'
<1>0. /\ TypeOK /\ ProjectOK /\ ChoiceOK /\ DiskOK /\ InstallOK /\ RecordOK
      /\ StoreHarmIsDoubled /\ step = "link" /\ todo = {} /\ settled = FALSE
    BY TypeParts DEF IInv, WriteManifest, Phases, RecordOK
<1>1. UNCHANGED <<deps, patched, published, lock, store, nm, backup, chosen, todo, full, settled,
                  doubled, shared, stranded, relinked>>
    BY DEF WriteManifest, project, disk
<1>2. manifest' = Planned /\ step' = "patch" /\ cutOff' = (cutOff /\ ~full)
    BY DEF WriteManifest
<1>3. Planned' = Planned /\ Resolved' = Resolved
    BY <1>1 DEF Planned, Plan, Resolved
<1>4. Named' /\ ProjectOK' /\ ChoiceOK' /\ DiskOK' /\ Walked'
    BY <1>0, <1>1 DEF IInv, Named, ProjectOK, ChoiceOK, DiskOK, Phases, Walked
<1>5. InstallOK' /\ RecordOK'
    BY <1>0, <1>1, <1>2, PlannedIs DEF InstallOK, RecordOK
<1>6. Phases'
    BY <1>0, <1>1, <1>2, <1>3, <1>4 DEF IInv, Phases, Started, Linking, Finishing
<1>7. Recorded'
    BY <1>0, <1>1, <1>2, <1>3 DEF IInv, Recorded, SharesPaths, Started, Linking, Finishing
<1>8. LinksFit' /\ FullLinks' /\ SessionCopied' /\ StoreHarmIsDoubled' /\ Applied'
    BY <1>0, <1>1, <1>2 DEF IInv, LinksFit, FullLinks, SessionCopied, StoreHarmIsDoubled,
                            Applied, IsLink
<1>9. LinksKnown'
    BY <1>0, <1>1, <1>2, <1>3 DEF IInv, LinksKnown, Exposed, Lists, IsLink
<1>10. EntriesHeld'
    <2>1. ~cutOff' => \A e \in Planned : Counts(e) => Held(e)
        BY <1>0, <1>2 DEF IInv, EntriesHeld
    <2>2. \A e : (Counts(e)' <=> Counts(e)) /\ (Held(e)' <=> Held(e))
        BY <1>1 DEF Counts, Held, Content
    <2> QED  BY <1>2, <2>1, <2>2 DEF EntriesHeld, Linking
<1> QED  BY <1>4, <1>5, <1>6, <1>7, <1>8, <1>9, <1>10, TypeParts, PTL DEF IInv

(* A patched file is a copy of what was there, with the patch. *)
LEMMA ApplyPatchesStep == ASSUME IInv, ApplyPatches PROVE IInv'
<1>0. /\ TypeOK /\ ProjectOK /\ ChoiceOK /\ DiskOK /\ InstallOK /\ RecordOK
      /\ StoreHarmIsDoubled /\ step = "patch" /\ settled = FALSE
    BY TypeParts DEF IInv, ApplyPatches, Phases, RecordOK
<1>1. /\ UNCHANGED <<deps, patched, published, lock, store, backup, manifest, chosen, todo, full,
                     settled, doubled, shared, stranded, relinked, cutOff>>
      /\ step' = "scripts"
    BY DEF ApplyPatches, project, history, links
<1> DEFINE tops == {AtTop(q.pkg.name) : q \in patched}
<1>2. nm' = [path \in DOMAIN nm |-> IF path \in tops THEN Copy(Edit(At(path), "patch")) ELSE nm[path]]
    BY DEF ApplyPatches, At
<1>3. \A q \in patched : AtTop(q.pkg.name) \in DOMAIN nm /\ At(AtTop(q.pkg.name)).of = q.pkg
    BY DEF ApplyPatches, CanPatch, At
<1>4. Planned' = Planned /\ Resolved' = Resolved
    BY <1>1 DEF Planned, Plan, Resolved
<1>5. "patch" \in Edits
    BY DEF Edits
<1>6. \A q \in patched : AtTop(q.pkg.name) \in tops
    OBVIOUS
<1> HIDE DEF tops
<1>7. ASSUME NEW path \in DOMAIN nm
      PROVE  /\ path \in DOMAIN nm' /\ path \in Paths /\ nm'[path] \in Files
             /\ At(path)'.of = At(path).of
             /\ path \in tops => "patch" \in At(path)'.edits
             /\ IsLink(path)' => IsLink(path) /\ nm'[path] = nm[path]
    <2>1. path \in Paths /\ nm[path] \in Files /\ At(path) \in Contents /\ path \in DOMAIN nm'
        BY <1>0, <1>2, AtIs
    <2>2. CASE path \in tops
        <3>1. nm'[path] = Copy(Edit(At(path), "patch"))
            BY <1>2, <2>2
        <3>2. /\ nm'[path] \in Files /\ nm'[path].kind = "copy"
              /\ nm'[path].content = Edit(At(path), "patch")
            BY <1>5, <2>1, <3>1, ContentsAre, FilesAre
        <3>3. At(path)' = Edit(At(path), "patch")
            BY <3>2 DEF At, Content
        <3>4. "patch" \in At(path)'.edits /\ At(path)'.of = At(path).of
            BY <1>5, <2>1, <3>3, ContentsAre
        <3> QED  BY <2>1, <3>2, <3>4 DEF IsLink
    <2>3. CASE path \notin tops
        BY <1>1, <1>2, <2>1, <2>3 DEF At, Content, IsLink
    <2> QED  BY <2>2, <2>3
<1>8. DOMAIN nm' = DOMAIN nm
    BY <1>2
<1>9. \A path : IsLink(path)' => IsLink(path) /\ nm'[path] = nm[path]
    BY <1>7, <1>8 DEF IsLink
<1>10. DiskOK'
    <2>1. IsMap(nm', Paths, Files)
        BY <1>7, <1>8, IsMapIf
    <2> QED  BY <1>0, <1>1, <1>8, <1>9, <2>1 DEF DiskOK, IsLink
<1>11. Named' /\ ProjectOK' /\ ChoiceOK' /\ InstallOK' /\ RecordOK' /\ Walked'
    BY <1>0, <1>1 DEF IInv, Named, ProjectOK, ChoiceOK, InstallOK, RecordOK, Phases, Walked
<1>12. Phases'
    BY <1>0, <1>1, <1>4, <1>11 DEF IInv, Phases, Started, Linking, Finishing
<1>13. Recorded'
    BY <1>0, <1>1, <1>4 DEF IInv, Recorded, SharesPaths, Started, Linking, Finishing
<1>14. LinksFit' /\ FullLinks' /\ SessionCopied' /\ StoreHarmIsDoubled'
    BY <1>0, <1>1, <1>9 DEF IInv, LinksFit, FullLinks, SessionCopied, StoreHarmIsDoubled,
                             IsLink
<1>15. LinksKnown'
    BY <1>0, <1>1, <1>4, <1>9 DEF IInv, LinksKnown, Exposed, Lists, IsLink
<1>16. EntriesHeld'
    <2>1. (manifest # None /\ ~cutOff) => \A e \in manifest : Counts(e) => Held(e)
        BY <1>0 DEF IInv, EntriesHeld, Linking
    <2>2. \A e : (Counts(e)' <=> Counts(e)) /\ (Held(e) => Held(e)')
        BY <1>1, <1>7, <1>8 DEF Counts, Held, At
    <2> QED  BY <1>1, <2>1, <2>2 DEF EntriesHeld, Linking
<1>17. Applied'
    BY <1>1, <1>3, <1>6, <1>7 DEF Applied, PatchIsApplied, At
<1> QED  BY <1>10, <1>11, <1>12, <1>13, <1>14, <1>15, <1>16, <1>17, TypeParts, PTL DEF IInv

(* A script reaches the store only through a link to another version.      *)
LEMMA RunScriptsStep == ASSUME IInv, RunScripts PROVE IInv'
<1>0. /\ TypeOK /\ ProjectOK /\ ChoiceOK /\ DiskOK /\ InstallOK /\ RecordOK
      /\ StoreHarmIsDoubled /\ step = "scripts" /\ settled = FALSE
    BY TypeParts DEF IInv, RunScripts, Phases, RecordOK
<1>1. /\ UNCHANGED <<deps, patched, published, lock, backup, manifest, chosen, todo, full,
                     settled, doubled, shared, stranded, relinked, cutOff>>
      /\ step' = "lock"
    BY DEF RunScripts, project, history, links
<1> DEFINE paths == {AtTop(p.name) : p \in Resolved \cap Scripted}
<1>2. EditInPlace(paths, "build") \/ UNCHANGED <<store, nm>>
    BY DEF RunScripts, disk
<1>3. Planned' = Planned /\ Resolved' = Resolved
    BY <1>1 DEF Planned, Plan, Resolved
<1>4. \A path \in paths : \E p \in Resolved \cap Scripted : path.name = p.name
    BY DEF AtTop
<1> HIDE DEF paths
<1>5. /\ DOMAIN store' = DOMAIN store /\ DOMAIN nm' = DOMAIN nm
      /\ IsMap(store', Catalog, Contents) /\ IsMap(nm', Paths, Files)
      /\ \A p \in DOMAIN store :
             /\ store'[p].of = store[p].of
             /\ store'[p].edits \subseteq store[p].edits \cup {"build"}
             /\ store'[p] # store[p] => \E path \in paths : IsLink(path) /\ nm[path].to = p
      /\ \A path \in DOMAIN nm :
             /\ nm'[path].kind = nm[path].kind
             /\ IsLink(path) => nm'[path] = nm[path]
             /\ At(path)'.of = At(path).of
             /\ At(path).edits \subseteq At(path)'.edits
    <2>1. CASE EditInPlace(paths, "build")
        <3>1. "build" \in Edits
            BY DEF Edits
        <3> QED  BY <1>0, <2>1, <3>1, Edited
    <2>2. CASE UNCHANGED <<store, nm>>
        BY <1>0, <2>2 DEF DiskOK, At, Content
    <2> QED  BY <1>2, <2>1, <2>2
<1>6. \A path : IsLink(path)' => IsLink(path) /\ nm'[path] = nm[path]
    BY <1>5 DEF IsLink
<1>7. DiskOK'
    BY <1>0, <1>1, <1>5, <1>6 DEF DiskOK, IsLink
<1>8. Named' /\ ProjectOK' /\ ChoiceOK' /\ InstallOK' /\ RecordOK' /\ Walked'
    BY <1>0, <1>1 DEF IInv, Named, ProjectOK, ChoiceOK, InstallOK, RecordOK, Phases, Walked
<1>9. Phases'
    BY <1>0, <1>1, <1>3, <1>5, <1>8 DEF IInv, Phases, Started, Linking, Finishing
<1>10. Recorded'
    BY <1>0, <1>1, <1>3 DEF IInv, Recorded, SharesPaths, Started, Linking, Finishing
<1>11. LinksFit' /\ FullLinks' /\ SessionCopied'
    BY <1>0, <1>1, <1>6 DEF IInv, LinksFit, FullLinks, SessionCopied, IsLink
<1>12. LinksKnown'
    BY <1>0, <1>1, <1>3, <1>6 DEF IInv, LinksKnown, Exposed, Lists, IsLink
<1>13. StoreHarmIsDoubled'
    <2>1. ASSUME NEW path \in paths, IsLink(path), nm[path].to \notin doubled \cup stranded
          PROVE  FALSE
        <3> DEFINE to == nm[path].to
        <3>1. PICK p \in Resolved \cap Scripted : path.name = p.name
            BY <1>4
        <3>2. to.name = p.name /\ to # p /\ path \in DOMAIN nm
            BY <2>1, <3>1 DEF IInv, LinksFit, IsLink
        <3>3. Exposed(to)
            BY <2>1, <3>1, <3>2 DEF Exposed
        <3>4. Lists(Planned, path, to)
            BY <1>0, <2>1, <3>2, <3>3 DEF IInv, LinksKnown
        <3>5. to \in Resolved
            BY <1>0, <3>4, PlannedIs DEF Lists
        <3>6. to \in doubled
            BY <1>0, <3>1, <3>2, <3>5 DEF IInv, Recorded, Started, Finishing
        <3> QED  BY <2>1, <3>6
    <2>2. ASSUME NEW p \in DOMAIN store, store'[p] # store[p]
          PROVE  p \in doubled \cup stranded
        BY <1>5, <2>1, <2>2
    <2> QED  BY <1>0, <1>1, <1>5, <2>2 DEF StoreHarmIsDoubled
<1>14. EntriesHeld'
    <2>1. (manifest # None /\ ~cutOff) => \A e \in manifest : Counts(e) => Held(e)
        BY <1>0 DEF IInv, EntriesHeld, Linking
    <2>2. \A e : (Counts(e)' <=> Counts(e)) /\ (Held(e) => Held(e)')
        BY <1>1, <1>5 DEF Counts, Held, At
    <2> QED  BY <1>1, <2>1, <2>2 DEF EntriesHeld, Linking
<1>15. Applied'
    <2>1. \A q \in patched : PatchIsApplied(q)
        BY <1>0 DEF IInv, Applied
    <2>2. \A q : PatchIsApplied(q) => PatchIsApplied(q)'
        BY <1>5 DEF PatchIsApplied, At
    <2> QED  BY <1>1, <2>1, <2>2 DEF Applied
<1> QED  BY <1>7, <1>8, <1>9, <1>10, <1>11, <1>12, <1>13, <1>14, <1>15, TypeParts, PTL DEF IInv

(* The lockfile is written; the install is settled. *)
LEMMA WriteLockStep == ASSUME IInv, WriteLock PROVE IInv'
<1>0. /\ TypeOK /\ ProjectOK /\ ChoiceOK /\ DiskOK /\ InstallOK /\ RecordOK
      /\ StoreHarmIsDoubled /\ step = "lock"
    BY TypeParts DEF IInv, WriteLock
<1>1. /\ UNCHANGED <<deps, patched, published, store, nm, backup, manifest, chosen, todo,
                     doubled, shared, stranded, relinked, cutOff>>
      /\ lock' = Lockfile(Planned) /\ step' = "idle" /\ full' = FALSE /\ settled' = TRUE
    BY DEF WriteLock, project, disk, links
<1>2. Planned' = Planned /\ Resolved' = Resolved
    BY <1>1 DEF Planned, Plan, Resolved
<1>3. Lockfile(Planned)' = Lockfile(Planned)
    BY <1>1, <1>2 DEF Lockfile
<1>4. PackageMap(lock')
    <2>1. Walked
        BY <1>0 DEF IInv, Phases
    <2>2. \A d \in deps : d \in DOMAIN chosen /\ chosen[d].name = d.name
        BY <2>1 DEF Walked, LeastWalk, Closed, IInv, Named
    <2>3. \A d \in deps : \E p \in Resolved : p.name = d.name
        BY <2>2 DEF Resolved, Range
    <2> QED  BY <1>0, <1>1, <2>3, LockfileIs
<1>5. ProjectOK' /\ ChoiceOK' /\ DiskOK' /\ InstallOK' /\ RecordOK'
    BY <1>0, <1>1, <1>4 DEF ProjectOK, ChoiceOK, DiskOK, InstallOK, RecordOK, PackageMap
<1>6. Named' /\ Walked'
    BY <1>0, <1>1, <1>4 DEF IInv, Named, PackageMap, Phases, Walked
<1>7. Phases'
    BY <1>1, <1>2, <1>3, <1>6 DEF Phases, Started, Linking, Finishing
<1>8. Recorded'
    BY <1>1 DEF IInv, Recorded, SharesPaths, Started, Linking, Finishing
<1>9. LinksFit' /\ FullLinks' /\ SessionCopied' /\ StoreHarmIsDoubled'
    BY <1>0, <1>1 DEF IInv, LinksFit, FullLinks, SessionCopied, StoreHarmIsDoubled, IsLink
<1>10. LinksKnown'
    BY <1>0, <1>1 DEF IInv, LinksKnown, Exposed, Lists, IsLink
<1>11. EntriesHeld' /\ Applied'
    BY <1>0, <1>1 DEF IInv, EntriesHeld, Linking, Counts, Held, Content, Applied, PatchIsApplied
<1> QED  BY <1>5, <1>6, <1>7, <1>8, <1>9, <1>10, <1>11, TypeParts, PTL DEF IInv

(* An install that dies leaves a manifest that tells the truth, or a       *)
(* record that it does not.                                                *)
LEMMA AbortStep == ASSUME IInv, Abort PROVE IInv'
<1>0. /\ TypeOK /\ ProjectOK /\ ChoiceOK /\ DiskOK /\ InstallOK /\ RecordOK
      /\ StoreHarmIsDoubled /\ step # "idle" /\ settled = FALSE
    BY TypeParts DEF IInv, Abort, Phases, RecordOK
<1>1. /\ UNCHANGED <<deps, patched, published, lock, store, nm, backup, manifest, settled,
                     doubled, shared, relinked>>
      /\ step' = "idle" /\ chosen' = <<>> /\ todo' = {} /\ full' = FALSE
      /\ cutOff' = (cutOff \/ step \in Linking)
    BY DEF Abort, project, disk, Linking
<1>2. stranded' = stranded \cup IF step # "link" \/ full THEN {}
                                ELSE {p \in Resolved : \E q \in Scripted \ {p} : q.name = p.name}
    BY DEF Abort
<1>3. stranded \subseteq stranded' /\ stranded' \subseteq Catalog
    BY <1>0, <1>2, PlannedIs DEF RecordOK
<1>4. ProjectOK' /\ ChoiceOK' /\ DiskOK' /\ InstallOK' /\ RecordOK'
    BY <1>0, <1>1, <1>3, EmptyMap DEF ProjectOK, ChoiceOK, DiskOK, InstallOK, RecordOK
<1>5. Named' /\ Phases'
    BY <1>0, <1>1, EmptyMap DEF IInv, Named, Phases, Started, Linking, Finishing
<1>6. Recorded'
    BY <1>1 DEF IInv, Recorded, SharesPaths, Started, Linking, Finishing
<1>7. LinksFit' /\ FullLinks' /\ SessionCopied' /\ StoreHarmIsDoubled' /\ Applied'
    BY <1>0, <1>1, <1>3 DEF IInv, LinksFit, FullLinks, SessionCopied, StoreHarmIsDoubled,
                            Applied, IsLink
<1>8. LinksKnown'
    <2> SUFFICES ASSUME NEW path, IsLink(path), manifest # None,
                        nm[path].to \notin doubled \cup stranded',
                        \E q \in Scripted \ {nm[path].to} : q.name = nm[path].to.name
                 PROVE  Lists(manifest, path, nm[path].to)
        BY <1>1 DEF LinksKnown, Exposed, Lists, IsLink
    <2>1. Exposed(nm[path].to) /\ path \in DOMAIN nm
        BY <1>3 DEF Exposed, IsLink
    <2>2. CASE step # "link"
        BY <2>1, <2>2 DEF IInv, LinksKnown
    <2>3. CASE step = "link" /\ full
        BY <2>3 DEF IInv, Phases
    <2>4. CASE step = "link" /\ ~full
        <3>1. Lists(Planned, path, nm[path].to)
            BY <2>1, <2>4 DEF IInv, LinksKnown
        <3>2. nm[path].to \in Resolved
            BY <1>0, <3>1, PlannedIs DEF Lists
        <3> QED  BY <1>2, <2>4, <3>2
    <2> QED  BY <2>2, <2>3, <2>4
<1>9. EntriesHeld'
    <2>1. \A e : (Counts(e)' <=> Counts(e)) /\ (Held(e)' <=> Held(e))
        BY <1>1 DEF Counts, Held, Content
    <2>2. (manifest # None /\ ~cutOff') => \A e \in manifest : Counts(e) => Held(e)
        BY <1>1 DEF IInv, EntriesHeld
    <2> QED  BY <1>1, <2>1, <2>2 DEF EntriesHeld, Linking
<1> QED  BY <1>4, <1>5, <1>6, <1>7, <1>8, <1>9, TypeParts, PTL DEF IInv
LEMMA NextIInv == IInv /\ [Next]_vars => IInv'
<1> SUFFICES ASSUME IInv, [Next]_vars PROVE IInv'
    OBVIOUS
<1>1. CASE Resolve \/ Fetch \/ StartLinking \/ Wipe \/ Prune \/ LinkPackage
    BY <1>1, ResolveStep, FetchStep, StartLinkingStep, WipeStep, PruneStep, LinkPackageStep
<1>2. CASE WriteManifest \/ ApplyPatches \/ RunScripts \/ WriteLock \/ Abort
    BY <1>2, WriteManifestStep, ApplyPatchesStep, RunScriptsStep, WriteLockStep, AbortStep
<1>3. CASE ChangePackageJson \/ Update \/ Publish
    BY <1>3, ChangePackageJsonStep, UpdateStep, PublishStep
<1>4. CASE PatchPrepare \/ EditPackage \/ PatchSave \/ PatchDiscard
    BY <1>4, PatchPrepareStep, EditPackageStep, PatchSaveStep, PatchDiscardStep
<1>5. CASE UNCHANGED vars
    <2>1. UNCHANGED <<deps, patched, published, lock, store, nm, backup, manifest, step, chosen,
                      todo, full, settled, doubled, shared, stranded, relinked, cutOff>>
        BY <1>5 DEF vars, project, disk, history, links
    <2>2. Planned' = Planned /\ Resolved' = Resolved /\ Lockfile(Planned)' = Lockfile(Planned)
        BY <2>1 DEF Planned, Plan, Resolved, Lockfile
    <2>3. ProjectOK' /\ ChoiceOK' /\ DiskOK' /\ InstallOK' /\ RecordOK'
        BY <2>1, TypeParts DEF IInv, ProjectOK, ChoiceOK, DiskOK, InstallOK, RecordOK
    <2>4. Named' /\ Phases' /\ Recorded'
        BY <2>1, <2>2 DEF IInv, Named, Phases, Walked, Started, Recorded, SharesPaths, Lists
    <2>5. LinksFit' /\ LinksKnown' /\ FullLinks' /\ SessionCopied' /\ StoreHarmIsDoubled'
        BY <2>1, <2>2 DEF IInv, LinksFit, LinksKnown, Exposed, FullLinks, SessionCopied,
                          StoreHarmIsDoubled, IsLink
    <2>6. EntriesHeld' /\ Applied'
        BY <2>1, <2>2 DEF IInv, EntriesHeld, Counts, Held, Applied, PatchIsApplied, Content
    <2> QED  BY <2>3, <2>4, <2>5, <2>6, TypeParts, PTL DEF IInv
<1> QED  BY <1>1, <1>2, <1>3, <1>4, <1>5 DEF Next

THEOREM Inductive == Spec => []IInv
BY InitIInv, NextIInv, PTL DEF Spec

-----------------------------------------------------------------------------
(* What the runs check, for every registry and every project. *)

\* Every variable has its type, and no hard link leads out of the store.
THEOREM TypeCorrect == Spec => []TypeOK
<1>1. IInv => TypeOK
    BY DEF IInv
<1> QED  BY <1>1, Inductive, PTL

\* A package of the store is overwritten, patched or built in place only in the
\* ways that are on record, whatever the registry, the projects and the scripts:
\* a store package that never met another version of itself stays as unpacked.
THEOREM StoreHarm == Spec => []StoreHarmIsDoubled
<1>1. IInv => StoreHarmIsDoubled
    BY DEF IInv
<1> QED  BY <1>1, Inductive, PTL

\* What the manifest lists at the top is there, in its version, unless a link
\* was interrupted since or the package shared its path with another.
THEOREM ManifestKept == Spec => []ManifestIsKept
<1>1. IInv => ManifestIsKept
    BY DEF IInv, EntriesHeld, Linking, Counts, Held, ManifestIsKept
<1> QED  BY <1>1, Inductive, PTL

\* An install that ran to its end left every saved patch applied.
THEOREM PatchesApplied == Spec => []PatchesAreApplied
<1>1. IInv => PatchesAreApplied
    BY DEF IInv, Applied, PatchIsApplied, PatchesAreApplied
<1> QED  BY <1>1, Inductive, PTL

(* After an install that ran to its end, the lockfile gives every          *)
(* dependency that is not ambiguous the package it was given.              *)
LEMMA LockedAsChosen ==
    ASSUME IInv, settled, NEW d \in DOMAIN chosen, ~Ambiguous(d)
    PROVE  d \in DOMAIN lock /\ lock[d] = chosen[d]
<1> DEFINE P == {e.pkg : e \in Planned}
           tops(n) == {e.pkg : e \in {x \in Planned : x.in = Top /\ x.pkg.name = n}}
           fits(b) == {p \in P : Meets(p, b)}
           inner == {b \in UNION {Needs[p] : p \in P} : fits(b) # {}} \ deps
           L == [b \in deps \cup inner |-> IF b \in deps THEN First(tops(b.name)) ELSE First(fits(b))]
<1>1. lock = L
    BY DEF IInv, Phases, Lockfile
<1>2. P = Resolved /\ Resolved \in SUBSET Catalog
    BY PlannedIs DEF IInv
<1>3. chosen[d] \in Resolved /\ chosen[d].name = d.name
    BY DEF IInv, Named, Resolved, Range
<1>4. \A p \in Resolved : p # chosen[d] /\ p.name = d.name => ~Meets(p, d) /\ d \notin deps
    BY DEF Ambiguous
<1>5. CASE d \in deps
    <2>1. /\ Hoisted(Resolved, d.name) \in Resolved
          /\ Hoisted(Resolved, d.name).name = d.name
        BY <1>2, <1>3, HoistedAtTop
    <2>2. Hoisted(Resolved, d.name) = chosen[d]
        BY <1>4, <1>5, <2>1
    <2>3. PICK e \in Planned : e.pkg = chosen[d]
        BY <1>3, PlannedIs DEF IInv
    <2>4. e.in = Parent(Resolved, chosen[d])
        BY <1>2, <2>3, PlanIs DEF Planned
    <2>5. e.in = Top
        BY <1>2, <1>3, <2>2, <2>4, ParentIs
    <2>6. tops(d.name) = {chosen[d]}
        BY <1>2, <1>3, <1>4, <1>5, <2>3, <2>5
    <2>7. First(tops(d.name)) = chosen[d]
        BY <2>6, FirstAndLastOfOne
    <2> HIDE DEF tops, inner, fits
    <2> QED  BY <1>1, <1>5, <2>7
<1>6. CASE d \notin deps
    <2>1. Meets(chosen[d], d)
        BY <1>6 DEF Ambiguous
    <2>2. fits(d) = {chosen[d]}
        BY <1>2, <1>3, <1>4, <2>1 DEF Meets
    <2>3. \E p \in P : d \in Needs[p]
        <3> SUFFICES ASSUME \A p \in P : d \notin Needs[p] PROVE FALSE
            OBVIOUS
        <3>1. /\ deps \subseteq DOMAIN chosen
              /\ \A b \in DOMAIN chosen : Needs[chosen[b]] \subseteq DOMAIN chosen
              /\ \A S \in SUBSET Dependencies : Closed(deps, chosen, S) => DOMAIN chosen \subseteq S
            BY DEF IInv, Phases, Walked, LeastWalk, Closed
        <3>2. \A b \in DOMAIN chosen : chosen[b] \in P
            BY <1>2 DEF Resolved, Range
        <3>3. Closed(deps, chosen, DOMAIN chosen \ {d})
            BY <1>6, <3>1, <3>2 DEF Closed
        <3>4. DOMAIN chosen \ {d} \in SUBSET Dependencies
            BY DEF IInv, TypeOK, IsMap
        <3> QED  BY <3>1, <3>3, <3>4
    <2>4. d \in inner
        BY <1>6, <2>2, <2>3
    <2>5. First(fits(d)) = chosen[d]
        BY <2>2, FirstAndLastOfOne
    <2> HIDE DEF tops, inner, fits
    <2> QED  BY <1>1, <1>6, <2>4, <2>5
<1> QED  BY <1>5, <1>6

\* Once an install ran to its end without ambiguity, resolving again gives the
\* same packages, whatever the registry has published meanwhile.
THEOREM Reproducible == Spec => []InstallsAreReproducible
<1>1. ASSUME IInv, settled, \A d \in DOMAIN chosen : ~Ambiguous(d)
      PROVE  Resolution(deps, lock, published) = chosen
    <2> DEFINE C == DOMAIN chosen
               got(d) == Pick(d, lock, published)
               closed == {S \in SUBSET Dependencies :
                             deps \subseteq S /\ \A d \in S : NeedsOf(got(d)) \subseteq S}
    <2>1. \A d \in C : got(d) = chosen[d]
        BY <1>1, LockedAsChosen DEF Pick
    <2>2. /\ chosen = [d \in C |-> chosen[d]]
          /\ deps \subseteq C /\ \A d \in C : Needs[chosen[d]] \subseteq C
          /\ \A S \in SUBSET Dependencies : Closed(deps, chosen, S) => C \subseteq S
        BY <1>1 DEF IInv, Phases, Walked, LeastWalk, Closed
    <2>3. C \in SUBSET Dependencies /\ \A d \in C : chosen[d] \in Catalog
        BY <1>1, MapIs DEF IInv, TypeOK
    <2>4. \A d \in C : NeedsOf(got(d)) = Needs[chosen[d]]
        BY <2>1, <2>3, CatalogAssumption DEF NeedsOf
    <2>5. Resolution(deps, lock, published) = [d \in Met(deps, lock, published) |-> got(d)]
        BY DEF Resolution
    <2>6. Met(deps, lock, published) = {d \in Dependencies : \A S \in closed : d \in S}
        BY MetIs
    <2> HIDE DEF got
    <2>7. C \in closed
        BY <2>2, <2>3, <2>4
    <2>8. \A S \in closed : C \subseteq S
        BY <2>2, <2>4 DEF Closed
    <2> HIDE DEF closed, C
    <2>9. Met(deps, lock, published) = C
        BY <2>3, <2>6, <2>7, <2>8
    <2> QED  BY <2>1, <2>2, <2>5, <2>9
<1>2. IInv => InstallsAreReproducible
    BY <1>1 DEF InstallsAreReproducible
<1> QED  BY <1>2, Inductive, PTL
=============================================================================
