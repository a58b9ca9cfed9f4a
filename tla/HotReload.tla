------------------------------ MODULE HotReload ------------------------------
(***************************************************************************)
(* From a saved file to the code in the page: the compilation cache        *)
(* (compiler/cache.rs), the compile pipeline (compiler/pipeline.rs), the   *)
(* module graph, the watcher task's handling of a batch (server/http.rs,   *)
(* watcher/mod.rs), the handler of module requests                         *)
(* (server/module_server.rs), and the page that re-imports what it is      *)
(* told to.  The watcher task, the requests and the tasks they spawn run   *)
(* concurrently.                                                           *)
(*                                                                         *)
(* A file's text is a version number, which is its modification time too,  *)
(* whether it compiles, and what it imports.  Batches of changes are those *)
(* of ChangeFeed, which WatchLoop implements: it delivers every change it  *)
(* accepted, and the channel it reads from accepts none while it is full.  *)
(***************************************************************************)
EXTENDS Naturals, FiniteSets, Sequences

CONSTANTS
    Module,       \* the source files
    Entry,        \* the entry file, whose change reloads the page
    Imports,      \* Imports[m]: the sets of files a text of m can import
    Upward,       \* the imports written with "../", as <<importer, imported>>
    Unseen,       \* the imports the line scanner does not recognise: spread
                  \* over several lines, dynamic, or by an alias
    Request,      \* the module requests the page can have open at once
    None,         \* no request or compilation in hand
    RingCapacity, \* how many messages wait for a connection, 256 in the code
    MaxSaves,     \* bound: how many times files are written or deleted
    MaxVisits     \* bound: how many modules the page imports of its own accord

ASSUME EntryAssumption == Entry \in Module
ASSUME ImportsAssumption ==
    /\ Imports \in [Module -> SUBSET SUBSET Module]
    /\ \A m \in Module : UNION Imports[m] \in Imports[m]
    /\ Upward \cup Unseen \subseteq Module \X Module
ASSUME BoundsAssumption == MaxSaves \in Nat /\ MaxVisits \in Nat
ASSUME RingAssumption == RingCapacity \in Nat \ {0}

(* A path that scan_local_dependencies joined from "../" is not normalised *)
(* and is a key of its own.                                                *)
Dotted(m) == <<"..", m>>
Key == Module \cup {Dotted(m) : m \in Module}

INSTANCE ModuleGraph

VARIABLES
    disk,         \* the files
    saves,        \* how many times files were saved or deleted
    reborn,       \* the files that were deleted and written again
    dirty,        \* files changed since the watcher last took them
    unheard,      \* files whose last change the watcher was not told of
    cache,        \* the compilation cache
    graph,        \* the module graph
    errors,       \* the files with a build error
    watching,     \* the watcher task: "idle", "compiled" or "updated"
    batch,        \* what is left of its batch
    compiled,     \* what it has compiled
    request,      \* the request handlers
    tasks,        \* the tasks they spawned: reports and clears
    served,       \* served[m]: the version of m the page was last served
    refetch,      \* the modules the page is going to import
    visits,       \* how many modules it imported of its own accord
    socket,       \* the page's connection to the HMR hub: "closed", "open" or
                  \* "deaf", which is open but written to no more
    inbox,        \* the messages on their way to the page
    missed,       \* the files whose change the page was not told of, and that
                  \* it has not imported since
    outrun,       \* files for whose last change the watcher updated the graph
                  \* while a request that had scanned an older text was yet to
    overtaken     \* files whose last change the watcher finished with while
                  \* a request that read an older text, or one of its tasks,
                  \* was still running

files == <<disk, saves, reborn, unheard>>
watcher == <<watching, batch, compiled>>
server == <<cache, graph, errors, tasks>>
hub == <<socket, inbox, missed>>
page == <<served, refetch, visits, hub>>
history == <<outrun, overtaken>>
vars == <<files, dirty, watcher, request, history, server, page>>

Text == {"good", "broken", "gone"}
Version == 1 .. MaxSaves + 1
File == [version : Version, text : Text, imports : SUBSET Module]

NoEntry == [code |-> 0, mtime |-> 0]
CachedModule == [code : Version, mtime : Version \cup {0}]

(* What a task holds of a file between reading its text and being done     *)
(* with it: the version compiled, the step that is next, and after the     *)
(* scan the version scanned, 0 if it could not be read, and the imports    *)
(* found in it.                                                            *)
Result == [file : Module, version : Version, text : {"good", "broken"},
           next : {"store", "scan", "update"},
           scanned : Version \cup {0}, links : SUBSET Key]
ASSUME NoneAssumption == None \notin Result

(* HmrMessage: the file that changed, a full reload if it is the entry,    *)
(* and the modules of an update.                                           *)
Message == [changed : Module, modules : SUBSET Module]

Task == [op : {"report", "clear"}, file : Module]

HubOK ==
    /\ socket \in {"closed", "open", "deaf"}
    /\ inbox \in Seq(Message) /\ Len(inbox) <= RingCapacity
    /\ missed \subseteq Module

TypeOK ==
    /\ disk \in [Module -> File] /\ saves \in 0 .. MaxSaves /\ reborn \subseteq Module
    /\ dirty \subseteq Module /\ unheard \subseteq Module
    /\ cache \in [Module -> CachedModule \cup {NoEntry}]
    /\ graph \in Graphs
    /\ errors \subseteq Module
    /\ watching \in {"idle", "compiled", "updated"} /\ batch \subseteq Module
    /\ compiled \in IF watching = "idle" THEN {None} ELSE Result
    /\ request \in [Request -> Result \cup {None}]
    /\ tasks \subseteq Task
    /\ served \in [Module -> Version \cup {0}]
    /\ refetch \subseteq Module /\ visits \in 0 .. MaxVisits
    /\ HubOK
    /\ overtaken \subseteq Module /\ outrun \subseteq Module

Init ==
    /\ disk \in [Module -> {f \in File : f.version = 1 /\ f.text = "good"}]
    /\ \A m \in Module : disk[m].imports = UNION Imports[m]
    /\ saves = 0 /\ reborn = {}
    /\ dirty = {} /\ unheard = {}
    /\ cache = [m \in Module |-> NoEntry]
    /\ graph = NewGraph
    /\ errors = {}
    /\ watching = "idle" /\ batch = {} /\ compiled = None
    /\ request = [r \in Request |-> None]
    /\ tasks = {}
    /\ served = [m \in Module |-> 0]
    /\ refetch = {} /\ visits = 0
    /\ socket = "closed" /\ inbox = <<>> /\ missed = {}
    /\ overtaken = {} /\ outrun = {}

-----------------------------------------------------------------------------
(* The developer writes or deletes a file.  The notify callback puts the   *)
(* change in the watcher's channel, or drops it when that is full: the     *)
(* watcher then reads the new text only if it has yet to read the file on  *)
(* account of an earlier change.                                           *)
Save(m) ==
    /\ saves < MaxSaves
    /\ saves' = saves + 1
    /\ \E text \in Text, imports \in Imports[m] \cup {{}} :
           /\ text = "gone" => disk[m].text # "gone" /\ imports = {}
           /\ text # "gone" => imports \in Imports[m]
           /\ disk' = [disk EXCEPT ![m] =
                  [version |-> disk[m].version + 1, text |-> text, imports |-> imports]]
    /\ reborn' = IF disk[m].text = "gone" THEN reborn \cup {m} ELSE reborn
    /\ \/ dirty' = dirty \cup {m} /\ unheard' = unheard \ {m}
       \/ /\ dirty' = dirty
          /\ unheard' = IF m \in dirty \cup batch THEN unheard ELSE unheard \cup {m}
    /\ UNCHANGED <<watcher, request, history, server, page>>

-----------------------------------------------------------------------------
(* What is done with a file: compile_for_browser reads it and stores the   *)
(* code, and its caller reads it again for its imports and then takes the  *)
(* lock of the module graph.                                               *)

(* CompilationCache::get compares the mtime for equality; on a miss the    *)
(* source is read.  A file with errors compiles too, to its own text, and  *)
(* is not stored.                                                          *)
Compile(m) ==
    LET hit == cache[m] # NoEntry /\ cache[m].mtime = disk[m].version
        text == IF hit THEN "good" ELSE disk[m].text
    IN  [file |-> m, version |-> IF hit THEN cache[m].code ELSE disk[m].version, text |-> text,
         next |-> IF hit \/ text = "broken" THEN "scan" ELSE "store",
         scanned |-> 0, links |-> {}]

(* The entry's mtime is that of the file when the compilation is done,     *)
(* UNIX_EPOCH if it is gone.                                               *)
Mtime(m) == IF disk[m].text = "gone" THEN 0 ELSE disk[m].version

Insert(result) ==
    cache' = [cache EXCEPT ![result.file] = [code |-> result.version, mtime |-> Mtime(result.file)]]

Stored(result) == [result EXCEPT !.next = "scan"]

(* scan_local_dependencies: imports that resolve to a file, as joined.     *)
Scan(m) ==
    {IF <<m, d>> \in Upward THEN Dotted(d) ELSE d :
        d \in {e \in disk[m].imports : <<m, e>> \notin Unseen /\ disk[e].text # "gone"}}

(* The source is read again for its imports. *)
Scanned(result) ==
    LET m == result.file
    IN  IF disk[m].text = "gone" THEN [result EXCEPT !.next = "update"]
        ELSE [result EXCEPT !.next = "update", !.scanned = disk[m].version, !.links = Scan(m)]

UpdateGraph(result) ==
    graph' = IF result.scanned = 0 THEN graph ELSE UpdateModule(graph, result.file, result.links)

-----------------------------------------------------------------------------
(* The watcher task. *)

TakeBatch ==
    /\ watching = "idle" /\ batch = {}
    /\ batch' \in (SUBSET dirty) \ {{}}
    /\ dirty' = dirty \ batch'
    /\ UNCHANGED <<files, watching, compiled, request, history, server, page>>

Straggling(m) ==
    \/ \E r \in Request : /\ request[r] # None
                          /\ request[r].file = m /\ request[r].version # disk[m].version
    \/ \E t \in tasks : t.file = m

Note(m) == overtaken' = IF Straggling(m) THEN overtaken \cup {m} ELSE overtaken \ {m}

(* clear_file, then the compilation.  Only a file that cannot be read      *)
(* yields the module the watcher recognises as an error: it is reported,   *)
(* and nothing is invalidated or broadcast.                                *)
WatchCompile(m) ==
    /\ watching = "idle" /\ m \in batch
    /\ batch' = batch \ {m}
    /\ IF disk[m].text = "gone"
       THEN /\ errors' = errors \cup {m}
            /\ Note(m)
            /\ UNCHANGED <<watching, compiled>>
       ELSE /\ errors' = errors \ {m}
            /\ watching' = "compiled" /\ compiled' = Compile(m)
            /\ UNCHANGED overtaken
    /\ UNCHANGED <<files, dirty, request, outrun, cache, graph, tasks, page>>

WatchStore ==
    /\ watching = "compiled" /\ compiled.next = "store"
    /\ Insert(compiled)
    /\ compiled' = Stored(compiled)
    /\ UNCHANGED <<files, dirty, watching, batch, request, history, graph, errors, tasks, page>>

WatchScan ==
    /\ watching = "compiled" /\ compiled.next = "scan"
    /\ compiled' = Scanned(compiled)
    /\ UNCHANGED <<files, dirty, watching, batch, request, history, server, page>>

(* A request holds the imports of an older text of m. *)
Outdated(m) ==
    \E r \in Request : /\ request[r] # None
                       /\ request[r].file = m
                       /\ request[r].scanned \notin {0, disk[m].version}

WatchUpdate ==
    /\ watching = "compiled" /\ compiled.next = "update"
    /\ watching' = "updated"
    /\ UpdateGraph(compiled)
    /\ outrun' = IF Outdated(compiled.file) THEN outrun \cup {compiled.file}
                 ELSE outrun \ {compiled.file}
    /\ compiled' = [compiled EXCEPT !.links = {}]
    /\ UNCHANGED <<files, dirty, batch, request, overtaken, cache, errors, tasks, page>>

(* Mutant: the changed file itself stays in the cache. *)
MutEvict(m) ==
    cache' = [f \in Module |->
                 IF f \in TransitiveDependents(graph, m) \ {m} THEN NoEntry ELSE cache[f]]

Evict(m) ==
    LET dependents == TransitiveDependents(graph, m)
    IN  cache' = [f \in Module |-> IF f \in dependents THEN NoEntry ELSE cache[f]]

(* Mutant: an update names the dependents only. *)
MutUpdateOf(m) ==
    [changed |-> m,
     modules |-> IF m = Entry THEN {} ELSE TransitiveDependents(graph, m) \cap (Module \ {m})]

(* hmr_strategy.  The dependents are paths of changes and requests, so all *)
(* of them are files.                                                      *)
UpdateOf(m) ==
    [changed |-> m,
     modules |-> IF m = Entry THEN {} ELSE TransitiveDependents(graph, m) \cap Module]

Unread == {inbox[i].changed : i \in DOMAIN inbox}

(* HmrHub::broadcast.  A receiver that lags is told so by its next recv,   *)
(* which ends its write task: nothing that waits is sent any more, and the *)
(* connection stays open.                                                  *)
Broadcast(m) ==
    IF socket # "open"
    THEN /\ missed' = missed \cup {m}
         /\ UNCHANGED <<socket, inbox>>
    ELSE IF Len(inbox) < RingCapacity
    THEN /\ inbox' = Append(inbox, UpdateOf(m))
         /\ UNCHANGED <<socket, missed>>
    ELSE /\ socket' = "deaf" /\ inbox' = <<>>
         /\ missed' = missed \cup Unread \cup {m}

(* process_file_change and the broadcast. *)
WatchInvalidate ==
    /\ watching = "updated"
    /\ watching' = "idle" /\ compiled' = None
    /\ Evict(compiled.file)
    /\ Broadcast(compiled.file)
    /\ Note(compiled.file)
    /\ UNCHANGED <<files, dirty, batch, request, outrun, graph, errors, tasks, served, refetch, visits>>

-----------------------------------------------------------------------------
(* The page and the module requests. *)

(* The page's connection: subscribed when the DOM is ready, and again some *)
(* time after it was lost.  The page is not told what it missed.           *)
Connect ==
    /\ socket = "closed" /\ socket' = "open"
    /\ UNCHANGED <<files, dirty, watcher, request, history, server, served, refetch, visits, inbox, missed>>

Disconnect ==
    /\ socket # "closed" /\ socket' = "closed"
    /\ inbox' = <<>>
    /\ missed' = missed \cup Unread
    /\ UNCHANGED <<files, dirty, watcher, request, history, server, served, refetch, visits>>

(* handleUpdate imports every module named; handleFullReload has the page  *)
(* load all that it had loaded, and connect anew.                          *)
Receive ==
    /\ inbox # <<>>
    /\ IF Head(inbox).changed = Entry
       THEN /\ refetch' = refetch \cup {Entry} \cup {f \in Module : served[f] # 0}
            /\ socket' = "closed" /\ inbox' = <<>>
            /\ missed' = missed \cup {inbox[i].changed : i \in 2 .. Len(inbox)}
       ELSE /\ refetch' = refetch \cup Head(inbox).modules
            /\ inbox' = Tail(inbox)
            /\ UNCHANGED <<socket, missed>>
    /\ UNCHANGED <<files, dirty, watcher, request, history, server, served, visits>>

Visit(m) ==
    /\ visits < MaxVisits /\ m \notin refetch
    /\ visits' = visits + 1
    /\ refetch' = refetch \cup {m}
    /\ UNCHANGED <<files, dirty, watcher, request, history, server, served, hub>>

(* The slot of a new request; which one it is makes no difference. *)
Free == CHOOSE r \in Request : request[r] = None

(* Mutant: the page tries again what it could not import. *)
MutFetchAgain(r, m) ==
    /\ request[r] = None /\ r = Free /\ m \in refetch
    /\ refetch' = IF disk[m].text = "gone" THEN refetch ELSE refetch \ {m}
    /\ request' = IF disk[m].text = "gone" THEN request
                  ELSE [request EXCEPT ![r] = Compile(m)]
    /\ missed' = missed \ {m}
    /\ UNCHANGED <<files, dirty, watcher, history, server, served, visits, socket, inbox>>

(* A request: 404 for a file that is gone, else the compilation. *)
Fetch(r, m) ==
    /\ request[r] = None /\ r = Free /\ m \in refetch
    /\ refetch' = refetch \ {m}
    /\ request' = IF disk[m].text = "gone" THEN request
                  ELSE [request EXCEPT ![r] = Compile(m)]
    /\ missed' = missed \ {m}
    /\ UNCHANGED <<files, dirty, watcher, history, server, served, visits, socket, inbox>>

(* The handler's next step: to store the code, to scan the source again,   *)
(* and then to update the graph and answer.                                *)
Store(r) ==
    /\ request[r] # None /\ request[r].next = "store"
    /\ Insert(request[r])
    /\ request' = [request EXCEPT ![r] = Stored(request[r])]
    /\ UNCHANGED <<files, dirty, watcher, history, graph, errors, tasks, page>>

ScanSource(r) ==
    /\ request[r] # None /\ request[r].next = "scan" /\ request[r].text = "good"
    /\ request' = [request EXCEPT ![r] = Scanned(request[r])]
    /\ UNCHANGED <<files, dirty, watcher, history, server, page>>

(* Mutant: a file with errors is served without a report. *)
MutRespond(r) ==
    /\ request[r] # None
    /\ IF request[r].text = "broken"
       THEN UNCHANGED <<tasks, graph>>
       ELSE /\ request[r].next = "update"
            /\ tasks' = tasks \cup {[op |-> "clear", file |-> request[r].file]}
            /\ UpdateGraph(request[r])
    /\ served' = [served EXCEPT ![request[r].file] = request[r].version]
    /\ request' = [request EXCEPT ![r] = None]
    /\ UNCHANGED <<files, dirty, watcher, history, cache, errors, refetch, visits, hub>>

(* A file with errors is reported and neither scanned nor stored. *)
Respond(r) ==
    /\ request[r] # None
    /\ IF request[r].text = "broken"
       THEN /\ tasks' = tasks \cup {[op |-> "report", file |-> request[r].file]}
            /\ UNCHANGED graph
       ELSE /\ request[r].next = "update"
            /\ tasks' = tasks \cup {[op |-> "clear", file |-> request[r].file]}
            /\ UpdateGraph(request[r])
    /\ served' = [served EXCEPT ![request[r].file] = request[r].version]
    /\ request' = [request EXCEPT ![r] = None]
    /\ UNCHANGED <<files, dirty, watcher, history, cache, errors, refetch, visits, hub>>

(* A spawned task reaches the error broadcaster, in any order. *)
RunTask(t) ==
    /\ t \in tasks
    /\ tasks' = tasks \ {t}
    /\ errors' = IF t.op = "report" THEN errors \cup {t.file} ELSE errors \ {t.file}
    /\ UNCHANGED <<files, dirty, watcher, request, history, cache, graph, page>>

(* What the tasks of the server and the page do of their own accord.       *)
Work ==
    \/ TakeBatch \/ \E m \in Module : WatchCompile(m)
    \/ WatchStore \/ WatchScan \/ WatchUpdate \/ WatchInvalidate
    \/ \E r \in Request : Store(r) \/ ScanSource(r) \/ Respond(r)
    \/ \E t \in tasks : RunTask(t)
    \/ Receive
    \/ \E r \in Request, m \in Module : Fetch(r, m)

Next ==
    \/ \E m \in Module : Save(m) \/ Visit(m)
    \/ Connect \/ Disconnect
    \/ Work

(* Some task that has work goes on with it; nobody owes a save, a visit or *)
(* a connection.                                                           *)
Fairness == WF_vars(Work)

Spec == Init /\ [][Next]_vars /\ Fairness

-----------------------------------------------------------------------------
AtRest ==
    /\ dirty = {} /\ watching = "idle" /\ batch = {}
    /\ \A r \in Request : request[r] = None
    /\ tasks = {} /\ refetch = {} /\ inbox = <<>>

(* The watcher was told of the last change of m, and when it was done with *)
(* it no request on an older text was left, nor a task of such a request.  *)
Undisturbed(m) == m \notin unheard \cup overtaken

(* Once everything has settled the page has the latest text of every file  *)
(* it loaded, but for files the watcher was not told of or overtook a      *)
(* request on and those whose change the page was not told of: the hub     *)
(* sends nothing twice and the page asks for nothing when it connects      *)
(* (HmrHub::handle_connection).                                            *)
PageIsCurrent ==
    AtRest => \A m \in Module \ missed :
                  Undisturbed(m) /\ disk[m].text # "gone" => served[m] \in {0, disk[m].version}

(* Once everything has settled, the files with a build error are those     *)
(* that do not compile, and those that are gone, but for the same files: a *)
(* page that was not told does not request the file, and only a request    *)
(* reports one that does not parse (handle_source_file).                   *)
ErrorsAreTrue ==
    AtRest => \A m \in Module \ missed :
                  Undisturbed(m) => (m \in errors <=> disk[m].text # "good")

(* The entry of m passes for current, and is not. *)
Stale(m) == /\ cache[m] # NoEntry /\ cache[m].mtime = disk[m].version
            /\ cache[m].code # disk[m].version

(* The watcher has yet to finish with the last change of m. *)
InHand(m) == m \in dirty \cup batch \/ (watching # "idle" /\ compiled.file = m)

(* A cache entry that passes for current though its code is older than the *)
(* file is one the watcher has yet to evict, or one of a file whose change *)
(* it was not told of or on which it overtook a request                    *)
(* (compile_for_browser's mtime, the notify callback's try_send).          *)
StaleEntriesAreKnown ==
    \A m \in Module : Stale(m) /\ Undisturbed(m) => InHand(m)

(* Both directions of every edge are recorded, whoever updates the graph.  *)
GraphMirrored == Mirrored(graph)

(* A file known to the server and as it last was on disk, whose imports    *)
(* the watcher was told of and no request with older ones wrote after it.  *)
Known(m) ==
    /\ disk[m].text # "gone" /\ (served[m] # 0 \/ disk[m].version > 1)
    /\ m \notin unheard \cup outrun

(* The imports of k the graph has an edge for: an import of a file that    *)
(* did not exist when the importer was scanned has none, one with "../"    *)
(* has one to a path that no change ever names, and one that the line      *)
(* scanner does not recognise has none.                                    *)
Linked(k) == {d \in disk[k].imports \ reborn : <<k, d>> \notin Upward \cup Unseen}

(* Who imports m, directly or through others: the files in every set that  *)
(* holds m and whoever imports one of its members.                         *)
Importers(m) ==
    LET closed == {found \in SUBSET Module :
                      m \in found /\ \A k \in Module \ found : Known(k) => Linked(k) \cap found = {}}
    IN  {k \in Module : \A found \in closed : k \in found}

(* Once everything has settled, a change of a file would invalidate every  *)
(* file that imports it, directly or through others, as far as every link  *)
(* of the chain is an import the scanner follows and its importer is a     *)
(* file the watcher heard of and was not outrun on (update_module after    *)
(* the scan, on every path, and the search).                               *)
CascadeReachesImporters ==
    AtRest => \A m \in Module : disk[m].text # "gone" =>
        Importers(m) \subseteq TransitiveDependents(graph, m)

(* When the saves and visits end, everything settles. *)
ComesToRest == <>[]AtRest
=============================================================================
