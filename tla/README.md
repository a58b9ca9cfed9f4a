# Verification of vtz

TLA+ models of vtz, the development server, runtime, package manager and test
runner under `src/native/vtz`, with the TLC runs that check small instances of
them and TLAPS proofs of what must hold for every instance. Paths below are
relative to `src/native/vtz/src/` unless they begin with `src/`.

A vtz process is one tokio runtime with a number of long-lived tasks (file
watcher, dependency watcher, type checker, WebSocket hubs, MCP), one task per
HTTP request, blocking threads for `pm::add`, and an OS thread that owns a V8
isolate. They share maps behind locks, bounded channels, the file system and
nothing else. Almost everything that can go wrong beyond the reach of a unit
test goes wrong between two of these tasks, or between two steps of one that
dies in between; that is what the models keep. What a single task computes
(compiled code, HTML, messages) is abstracted to whether it succeeded and which
version it came from.

- [1. The system](#1-the-system)
- [2. Modules](#2-modules)
- [3. Runs](#3-runs)
- [4. Proofs](#4-proofs)
- [5. Divergences from the code's own words](#5-divergences-from-the-codes-own-words)
- [6. Not modelled](#6-not-modelled)
- [7. Plan](#7-plan)
- [8. Running the checks](#8-running-the-checks)

## 1. The system

### Components that are modelled

**Error broadcaster** (`errors/broadcaster.rs`, `errors/categories.rs`). State:
the active errors of five categories, of which the highest non-empty one hides
the others; a broadcast channel of 64 messages; a count of connections; the log
file. Operations: `report_error`, `clear_category`, `clear_file`,
`replace_category`, `handle_connection`. Called by the watcher, the type checker
and the isolate, from tasks the module server spawns for its requests, and by
auto-install inside a request's handler, which is dropped when its client leaves.
Hard: every operation takes the lock several times, and sends outside it; a new client subscribes, is counted and
reads the state in three critical sections; a slow client is cut off by the
ring. Correct when no connected client is left with errors that are gone or
hidden, and when the count and the log follow the state.

**Persistent isolate** (`runtime/persistent_isolate.rs`, the restart in
`server/http.rs`). State: an OS thread with one JavaScript context, a bounded
channel of requests, the globals through which sessions, cookies and answers
travel, and a file all isolates write while they load. Operations: creation and
loading, API dispatch, page and AI render in three ways, each with an event-loop
timeout inside and a request timeout outside; the swap after every batch of
changes. Hard: work left by a timed-out request goes on in the event loop of the
next ones and shares their globals; a new isolate takes over before it has
loaded, the old one goes on for the requests it has. Correct when answers reach
those who asked, handlers return and replaced threads end.

**Auto-install** (`server/module_server.rs`, `pm::add` in `pm/mod.rs`). State:
the in-flight map with a `Notify` per package, the install lock, the blacklist,
`package.json` and `node_modules`. Operations: a request for a missing module
claims the package, waits for the lock, installs on a blocking thread with a
30-second timeout; the others wait up to 35 seconds. Hard: a timeout or a
dropped connection gives up the lock but not the thread. Correct when one
request installs a package, no entry leaks, nothing that was added is lost, and
every request ends.

**Watch loop** (`watcher/file_watcher.rs`, the select loops in
`server/http.rs`). State: a bounded channel from the notify callback, the
debouncer's map and two instants. Operations: accept or drop an event, receive,
poll, hand over a batch. Hard: time, overflow, and merging. Correct when each
file's changes reach the consumer in order and within the limits.

**Hot reload and the HMR hub** (`compiler/cache.rs`, `compiler/pipeline.rs`,
`watcher/module_graph.rs`, `watcher/mod.rs`, `deps/scanner.rs`,
`hmr/websocket.rs`, the watcher task in `server/http.rs`, requests in
`server/module_server.rs`, `assets/hmr-client.js`). State: the compilation cache
keyed by path and mtime, the module graph, the build errors, the hub's broadcast
channel, the page and its connection. Operations: a save, of which the watcher is
told or not; what the watcher does with a changed file, and a request with a file
it asks for: read and compile, store, read again and scan, update the graph, each a
step of its own; the report and clear tasks a request spawns; a page's connecting,
lagging and leaving, and its re-import. Hard: the watcher and any number of
requests compile and scan the same file at once, from texts of different age, and
neither the watcher's channel nor the hub delivers everything. Correct when cache, graph, errors
and page agree with the disk once everything has settled.

**Package installation** (`pm/mod.rs`, `pm/resolver.rs`, `pm/linker.rs`,
`pm/tarball.rs`, `pm/patch.rs`, `pm/scripts.rs`, `pm/types.rs`). State:
`package.json`, the lockfile, the global store, `node_modules` with hard links
into the store, the link manifest, the backup of a package that is being
patched. Operations: resolve, download, link fully or incrementally, apply
patches, run scripts, write the lockfile; update; begin, save and discard a
patch. Hard: each of these steps relies on files the earlier ones left, any
install may die anywhere, and a patch session spans installs. Correct when the
store stays as published, the manifest tells the truth, patches stay applied and
installs are reproducible.

**Registry client** (`pm/registry.rs`, `pm/cache.rs`). State: for each document
a body and an etag file, shared by everybody who uses the cache directory.
Operations: a fetch with its permit, conditional request, retries and two
writes; cleaning the cache. Hard: the pair is written in two steps, either of
which may be lost, and several packages can share a pair. Correct when a fetch
returns the document it asked for, and fails only when the network did or the
registry sent a text that cannot be read.

**Test runner** (`test/runner.rs`, `test/executor.rs`, the harness script in
`test/globals.rs`, `test/typetests.rs`). State: the work and result channels, the
bail flag; in each file the harness's place among hooks and tests. Operations:
take a file, run it, send the result; the choice of tests by modifiers and
filter, hooks and what becomes of what they throw; timeouts, panics, the type
tests. Hard: errors and waits anywhere in a tree of hooks; several workers.
Correct when "passed" and "success" are earned.

**MCP transport** (`server/mcp.rs`). State: sessions, a map to the senders of
bounded channels behind a read-write lock. Operations: open, post, answer,
remove. Hard: a send waits with the lock held. Correct when accepted responses
arrive and the map follows the clients.

**MCP events** (`server/mcp_events.rs`). State: a hub's broadcast channel, the
relay from the error broadcaster, and for each client a filter shared by its
read and write tasks. Hard: two lossy channels in a row behind announcements that
are sent outside the error broadcaster's lock, a snapshot taken apart from the
subscription, acks queued between two tasks. Correct when a client
converges on the current state, hears only what it asked for, and is forgotten
when it leaves.

**Reactivity analysis** (`src/native/vertz-compiler-core/src/reactivity_analyzer.rs`).
State: the variables of a component, what has been reached and classified.
Operations: the closure from the page, the classification, the search behind a
constant. Hard: chains and cycles of any shape, walked in the order of hash
maps. Correct when exactly the state the page shows becomes a signal and what is
derived from it is recomputed.

### How they interact

    OS events -> WatchLoop -> batches -> HotReload (watcher task)
                     |                     |  evicts, updates   ^ compile, update
                     |                     v                    |
                     |            compilation cache, module graph
                     |                     ^                    |
    page -- module requests ---------------+                    v
      ^              |           reports, clears ----> ErrorBroadcaster -> overlay, log
      |              |                                       |
      +-- HMR hub ---|-- watcher task                        +-> McpEvents -> LLM clients
                     +-> restart: PersistentIsolate
    page -- /@deps requests -> AutoInstall -> pm::add
                                   (PackageInstall's steps, Registry's fetches)
    page -- /api and pages -> PersistentIsolate <- renders for MCP <- McpSessions
    vtz test -> TestRunner (isolates of its own)
    every compilation -> Reactivity, component by component

WatchLoop and HotReload meet in ChangeFeed: WatchLoop is proved to implement it.
ChangeFeed promises nothing of a change the full channel did not accept, and
HotReload's `Save` may be one; of an accepted change it promises that it is
delivered, and HotReload's `TakeBatch` assumes no more: a batch is any non-empty set
of changed files in any order. McpEvents keeps of ErrorBroadcaster that a change of
what is shown leaves its operation owing the announcement, which is what
`SurfacedChangesAreOwed` says; when the announcement is sent, what else is sent and
that a clear may come late are steps of McpEvents itself. PackageInstall takes
from Registry that a package the registry serves is the one asked for.

### Components that are not modelled

The type-check process, the remaining package-manager commands, the module
loader and the runtime's ops, server-side rendering, dependency resolution and
pre-bundling, plugins, browser-side rewriting, the compiler's code generation and
its bindings, the reverse proxy, the API proxy, server pages and diagnostics,
terminal output, the webview, the command line and the browser assets.
[Section 6](#6-not-modelled) says why and [section 7](#7-plan) what is planned
for them.

## 2. Modules

| module | models | state and actions |
|---|---|---|
| ErrorState | `errors/categories.rs` | Pure operators on a function from categories to sets of errors: `Add`, `Clear`, `ClearFile`, `ReplaceCategory`, `ActiveErrors`, `IsSuppressed`. |
| ErrorBroadcaster | `errors/broadcaster.rs` | One step per critical section. `ReportError`, `ClearCategory`, `ClearFileErrors`, `ReplaceErrors` change the state; `BroadcastCurrentState`, `BroadcastCurrentStateOrClear`, `CheckRemaining`, `BroadcastClear` and `WriteErrorLog` are what is left to do, held in `pc`. A connection runs `Subscribe`, `CountIn`, `ReadCurrent`, `Greet` (or `GreetFails`), `Forward`, `StopForwarding`, `Disconnect`, `CountOut`. |
| PersistentIsolate | `runtime/persistent_isolate.rs`, `Restart` of `server/http.rs` | A record per isolate, as many as there are restarts. Handlers: `Arrive`, `Enqueue`, `GiveUp`. Loading: `Start`, `LoadApp`, `CreateInitFile`, `WriteInitFile`, `ImportInitFile`, `RemoveInitFile`, `LoadServer`. Thread: `Dispatch` (API, framework, legacy or refused), `CollectAnswer`, `LoopTimesOut`, `ShutDown`; JavaScript: `Settle`, `Reject`. A timeout may fire whenever its wait goes on. |
| RequestService | what the HTTP handlers may expect of the isolates | `Ask`, `GiveBack`, `GoWithout`. The abstract specification of PersistentIsolate. |
| AutoInstall | `server/module_server.rs` 438-640, `pm::add` | Handlers: `Arrive`, `Claim`, `TakeLock`, `JobEnds`, `InstallTimesOut`, `Settle`, `LookUp`, `Subscribe`, `WaitTimesOut`, `Resolve`, `ClientGone`, `Report`. `pm::add`: `JobReads`, `JobWrites`, `JobReadsBack`, `JobLinks`, `JobFails`. |
| ChangeFeed | what the watcher promises | `Accept`, `Deliver`. The abstract specification of WatchLoop. |
| WatchLoop | `watcher/file_watcher.rs`, select loops of `server/http.rs` | `Notify`, `ReceiveChange`, `PollTooEarly`, `Dispatch`, `Finish`, `Tick`. `first`, `last` and `slept` are ages in ticks. |
| ModuleGraph | `watcher/module_graph.rs` | `UpdateModule`, and `TransitiveDependents` as the least set closed under dependents, which is what the breadth-first search of the code visits. |
| HotReload | the compile pipeline, its users, and the HMR hub | Files: `Save`, heard of or not. Watcher task: `TakeBatch`, `WatchCompile`, `WatchStore`, `WatchScan`, `WatchUpdate`, `WatchInvalidate` (with `Broadcast`). Requests: `Fetch` (up to the result of the compilation), `Store` (cache), `ScanSource`, `Respond` (graph, spawned task), `RunTask`. Page: `Visit`, `Connect`, `Receive`, `Disconnect`; `socket` is "deaf" once the page has lagged, `inbox` what it has not read. |
| PackageInstall | `pm/` | `Resolve`, `Fetch`, `StartLinking`, `Wipe`, `Prune`, `LinkPackage`, `WriteManifest`, `ApplyPatches`, `RunScripts`, `WriteLock`, and `Abort` at any of them; between installs `ChangePackageJson`, `Update`, `Publish`, and a patch session: `PatchPrepare`, `EditPackage`, `PatchSave`, `PatchDiscard`. |
| Registry | `pm/registry.rs`, `pm/cache.rs` | A fetch: `Start`, `Send`, `Respond`, `SaveEtag`, `Truncate`, `Write` or `ReadCached`, and `Answer` or `Retry` by whether the text is `Readable`, with `NetworkFails`, `CannotReadCached` and `CannotWrite`, and `Die` anywhere. Around it: `Publish`, `CacheClean` and `RemoveFile`. |
| TestHarness | the script of `test/globals.rs` | Pure operators: which tests run (`TestRunnable`), the sequence of calls `runSuite` makes (`RunTests`), and what the runner relies on in such a sequence (`Orderly`). |
| TestRunner | `test/runner.rs`, `test/executor.rs` | Workers: `Take`, `CheckBail`, `Load`, `Return`, `Throw`, `ThrowFalsy`, `PushResult`, `Collect`, `Send`; `Wait`, `Arrive`, `TimeOut`, `CollectNothing`, `FileError`, `Panic`. Main thread: `Join`, `RunTypeTests`. |
| McpSessions | `server/mcp.rs`, the SSE transport | The lock's queue: `Grant`. Sessions: `Open`, `Insert`, `Receive`, `Stall`, `Disconnect`, `GiveUp`. Posts: `Arrive`, `Handle`, `Lookup`, `MakeRoom`, `Answer`, `Remove`, `Drop`. |
| McpEvents | `server/mcp_events.rs` | Error broadcaster: `ChangeErrors`, `Announce` or `Dropped`, `Repeat`, `Inform`, `FindClear` and `SendClear`. The hub's sources: `RelayOne`, `RelayLags`, `OtherEvent`. A handler: `Snapshot`, `Subscribe`, `Count`, `Greet`, its read task's `Filter` and `QueueAck`, its write task's `Forward`, `Lagged`, `SendAck` and `WriteFails`, then `Close` and `Uncount`. The client: `AskFilter`, `Take`, `Leave`. |
| Reactivity | `reactivity_analyzer.rs` of the compiler | `Reach` and `EndReach` (the closure), `Classify`, `BeginSearch`, `Look`, `EndSearch` (the search behind a constant). The initial states are the components. |

Components whose theorems share a module of proofs are kept apart by their names:
`LoopInit`, `LoopNext` and `LoopSpec` (WatchLoop), `EventsSpec` (McpEvents) and
`RegistrySpec` (Registry) stand beside the plain names of HotReload, McpSessions and
AutoInstall.

Each module has an `MC` module and a `.cfg` per run beside it. Definitions named
`Mut...` are mutated forms of the definition that follows them; no specification
uses them. They are the plausible bugs against which each property is known to
have teeth: with the mutant in place of the original, the property fails in the
same run.

### Abstractions worth knowing

- *Errors* are a category, a file and a message; positions and wording are left
  out. A list that is de-duplicated on (file, message) is a set.
- *The ring* of a broadcast channel is each receiver's unread suffix plus a flag
  that it has missed something; a receiver that lagged is told so by its next
  `recv`, and `broadcaster.rs` then stops forwarding to it.
- *JavaScript* is what it can do to its caller: answer, wait for something,
  never answer, spin, reject or throw. Globals hold whose value they have. What
  the application does for each request is a constant of the instance.
- *A text* is a version, which is also its mtime, whether it compiles, and its
  imports. Which imports the line scanner reads wrongly or not at all depends on how
  they are written and is a constant of the instance (`Upward`, `Unseen`). A save always makes a new version: the resolution of mtimes is
  finer than the time between saves.
- *A package* is a name and a version, its directory one file whose content is
  the version it came from and what was done to it (`patch`, `build`). A file of
  `node_modules` is a hard link to the store or its own. Ranges are the sets of
  versions they admit; semver itself is left out. What a resolution meets is the
  least set of dependencies that holds those of `package.json` and is closed under
  the needs of the packages chosen (`Met`), which is where the code's recursion
  with its visited set ends.
- *A component* of the reactivity analysis is what its variables are declared as
  and who reads whom; expressions are the reads in them.
- *History variables*, which no code has: `overtaken`, `outrun`, `unheard` and `missed` (HotReload),
  `settled`, `doubled`, `shared`, `relinked`, `stranded`, `cutOff` (PackageInstall),
  `floor`, `lost`, `writer`, `trusted`
  (Registry), `ok`, `silent`, `lost` (TestRunner), `astray`, and `lost` of a connection
  (McpEvents), and `result` where it outlives its request (PersistentIsolate). No
  guard of the modelled code reads them; two bounds do (`relinked` bounds patch
  sessions, `upsets` what goes wrong).

## 3. Runs

Every passing run explores its whole state space. Deadlock is checked in
PackageInstall and ErrorBroadcaster; the other systems may stop for good, since
the requests, events or saves of an instance are used up
(`CHECK_DEADLOCK FALSE`).

| run | instance | distinct states | properties |
|---|---|---|---|
| error_broadcaster | 1 overlay, 2 tasks, 1 file, 1 message, ring of 2, 3 operations | 182,702 | StaleErrorsAreOwed, SurfacedChangesAreOwed, ClearedErrorsGoAway |
| persistent_isolate | 1 API call, 2 renders, 1 restart, channels of 1 | 410,732 | ForeignAnswersWereAbandoned, FrameworkUnlessDisturbed, ImplementsService, WorkEnds |
| auto_install | 2 requests, 2 packages | 104,281 | OneInstallerPerPackage, EntriesHaveInstallers, InterferenceIsAbandoned, RequestsEnd |
| watch_loop | 2 paths, 7 events, channel of 2, window 1, debounce 3, max wait 4, poll 2 | 58,059 | OverdueOnlyUnderFire, ImplementsFeed, AcceptedIsDispatched |
| hot_reload | 3 files in a cycle with an upward and an unseen import, 2 requests at once, 2 saves, 1 visit, ring of 1 | 1,611,697 | PageIsCurrent, ErrorsAreTrue, StaleEntriesAreKnown, CascadeReachesImporters, ComesToRest |
| package_install | 3 packages around `lib` in 2 versions, 2 `package.json`s, patches of `lib` | 1,711,613 | TypeOK, StoreHarmIsDoubled, ManifestIsKept, PatchesAreApplied, InstallsAreReproducible |
| registry | 2 clients, 3 fetches, 2 packages on one pair of files, 2 versions of which one cannot be read, 2 attempts, 1 upset | 1,578,411 | AnswersAreCurrent, FailuresHaveACause |
| test_runner | 2 workers, 3 files, 4 tests, a suite within a suite, 2 modifiers, 2 upsets, `--bail` | 781,448 | ProgramsAreOrderly, EveryTestIsReported, PassIsEarned, CleanupComesLast, SuccessIsEarned, RunEnds |
| mcp_sessions | 2 clients, 3 posts, channels of 1 | 249,049 | SessionsMatchClients, AcceptedIsDelivered, EverybodyIsServed |
| mcp_events | 1 client, 2 changes of the errors, 1 late or needless message, 1 other event, 2 filters, channels of 1, 1 and 2 | 652,533 | OnlyWhatWasAskedFor, ViewConverges, LeaversAreForgotten |
| reactivity | every component of 3 variables, 1 prop and up to 3 reads | 1,279,614 | SignalsAreWhatThePageShows, ShownDerivationsAreComputed |

`registry` and `reactivity` are symmetric in fetches and variables and check
safety only; their numbers are of states up to symmetry. A twelfth run,
`watch_loop_deps`, ends in a counterexample to what a comment of the code says;
see [section 5](#5-divergences-from-the-codes-own-words). The type invariants
that are not in a run are proved ([section 4](#4-proofs)).

### What they show

**error_broadcaster.** However operations interleave with each other and with a
connection: if the errors a client was told last are not the ones the server
would surface, a task still owes the broadcast that corrects it
(`StaleErrorsAreOwed`); what is surfaced changes only in steps that leave a task
owing one (`SurfacedChangesAreOwed`), so suppressed categories stay quiet; and
cleared errors do disappear (`ClearedErrorsGoAway`). The exemption of clients
that lagged is the code's: such a client keeps a dead connection.
*Bounds:* two tasks give every pairwise race; three operations allow an error to
be reported, another to suppress it and a clear to race with both; a ring of two
overflows within these three operations (64 in the code). Tasks, clients, files
and messages are unbounded in the proofs.

**persistent_isolate.** Without a timeout or a failed event loop no request ever
gets another's answer, and if it does, one of a request its own isolate gave up
(`ForeignAnswersWereAbandoned`); a loading isolate that got its init file
imported renders with the framework unless another one was at the same file
(`FrameworkUnlessDisturbed`). Across swaps, timeouts and handlers that go away,
each request is concluded once, by the isolate it was sent to
(`ImplementsService`): a late answer never changes what a handler was told. Every
handler returns, also when its isolate is replaced under it, and a replaced isolate
ends, unless JavaScript spins (`WorkEnds`).
*Bounds:* one request is dispatched, one fills the channel, one waits for a slot;
two isolates are the least that meet at the init file and the least for one to
be replaced. What the three requests' code may do (`MCBehaviour`) is chosen so
that each of awaiting, answering late, never answering and spinning occurs and a
leftover of each kind meets a dispatch of the other.

**auto_install.** One installer per package (`OneInstallerPerPackage`), an
in-flight entry that outlives its handler only if the client has gone
(`EntriesHaveInstallers`), jobs that overlap or undo each other only after one
was abandoned (`InterferenceIsAbandoned`), and every request is answered
(`RequestsEnd`), lost wake-ups included: the 35-second timeout catches those.
*Bounds:* two requests for the same package are the installer and the waiter;
for different packages, the two users of the lock. Time is not counted: a
timeout may fire whenever its wait goes on.

**watch_loop.** The loop implements the change feed (`ImplementsFeed`): batches
take each file forward, to a change the channel accepted. Every accepted change
is delivered or superseded (`AcceptedIsDispatched`). A change waits beyond the
debouncer's limit and a poll only while further events keep arriving within the
poll interval (`OverdueOnlyUnderFire`).
*Bounds:* seven events over two paths overflow a channel of two during a batch,
merge, and keep the loop under fire past `MaxWait`. The timings keep the order of
the code's: window (5 ms) < poll (6 ms) < debounce (20 ms) < max wait (100 ms);
the proofs take any timings. Ages of eight ticks and more are one, and every
limit is below that.

**hot_reload.** A cache entry that would be served although it is older than its
file is still in the watcher's hands, was left by a request the watcher overtook, or
is of a file whose change the watcher never heard of (`StaleEntriesAreKnown`). Once everything has settled: the page has the
newest text of every file it loaded (`PageIsCurrent`), the files with a build
error are those that do not compile (`ErrorsAreTrue`), and the cascade of a
change reaches every importer (`CascadeReachesImporters`). It does settle
(`ComesToRest`).
*Bounds:* two saves are the least for a request to hold the text before the last
one while the watcher handles the last one; each save may be heard of or not, and
may break, mend, delete or re-create a file and choose whether `list` imports
`item`; the chain of three makes the cascade transitive, one import is written with
`../` and one is dynamic; two requests race
with each other and with the watcher; a ring of one (256 in the code) overflows
with the second broadcast.
*Exemptions:* for all four, files whose last change the watcher was not told of
(`unheard`: the channel of `file_watcher.rs:90` was full). For the cache, the errors
and the page, files on which the watcher finished while a request that had read an
older text went on (`overtaken`: the race of `pipeline.rs:185`); for the page and the
errors, also files whose change the page was not told of (`missed`). For the
cascade, files whose edges a request with older imports may have written after the
watcher (`outrun`: both scan before they take the graph's lock,
`server/http.rs:1255`, `server/module_server.rs:165`), files that were deleted and
written again (an import of a missing file has no edge), and imports written with
`../` or not seen by the line scanner (`deps/scanner.rs:79`, `:138`).

**package_install.** The store holds packages as published, except packages once
planned together with another version of themselves or left in `node_modules` by
an incremental link that was interrupted (`stranded`), and patches reach it only
for a package that was relinked while it was being patched
(`StoreHarmIsDoubled`). What the manifest lists at the top of `node_modules` is
there in its version (`ManifestIsKept`), except after an interrupted link, when
two packages of a plan share a path, or when the package was relinked in a patch
session. A finished install has every saved patch applied to the version it was
made for (`PatchesAreApplied`). Resolving an unchanged project again gives the
same packages whatever was published since (`InstallsAreReproducible`), except
for dependencies whose range admits two packages of the plan or not the one that
was chosen for it. All but two of the exemptions are necessary in this instance:
without them TLC finds a counterexample. The two, `stranded` packages and a lock
entry that gives a dependency a version it does not admit, came out of the proofs
([section 4](#4-proofs)): they need a package whose script runs beside a leftover of
another version, and two dependencies of the same name and range of which one is
the project's own and was recorded with a version outside the range, which three
packages are too few for.
*Bounds:* one package in two versions, published one after the other, is enough
for nesting, hoisting, two packages on one path and a lockfile that matters; two
`package.json`s switch between those cases; one patch at a time, begun on a
package that has none and not again after a session in which something was
linked; installs of one project run one at a time.

**registry.** An answer is the document that was asked for and no older than the
request (`AnswersAreCurrent`), and a fetch fails only after the network failed
each attempt or the registry answered it with a text the client cannot read
(`FailuresHaveACause`), except for a 304 that meets files others
were writing or that did not agree when the request was sent: a pair of files two
packages share, or one whose second write was lost.
*Bounds:* the two packages differ behind their last dot and so share a pair;
three fetches are the least for one to leave a pair behind, a second to read it
and a third to write it meanwhile; one fetch dies or one clean runs.

**test_runner.** Whatever the modifiers and wherever they are, the harness makes
the calls of a file in order: those of a test stand together and end with its one
report, hooks come before, cleanup follows (`ProgramsAreOrderly`). A file's result
has one status per test, "skip" exactly where
the modifiers ask for it (`EveryTestIsReported`); a test that passed had its
function and every hook around it return (`PassIsEarned`); a suite's `afterAll`
comes when nothing in it will run any more (`CleanupComesLast`); a run that calls
itself successful ran every wanted test (`SuccessIsEarned`); and the run ends
(`RunEnds`). The exceptions are the code's: falsy things thrown, files of workers
that panicked, suites within skipped ones, and waits no timeout covers.
*Bounds:* the first file has hooks at three levels and a test at two, so every
order of hooks and every inheritance of a modifier occurs; two modifiers are the
least that contradict each other; two upsets let one failure happen while another
is handled; three files for two workers leave one to take after `--bail`.

**mcp_sessions.** A connected client's session is in the map, and one a post
found gone never comes back (`SessionsMatchClients`); an accepted response is in
its client's channel or was read, and by nobody else (`AcceptedIsDelivered`);
everybody is served unless a stalled client's channel stays full, which stops
the posts to it and, once a writer waits for the lock, everybody
(`EverybodyIsServed`).
*Bounds:* one post fills the channel of one, one waits for room with the lock
held, one is for somebody else or opens the queue behind a writer; clients stall
and leave and posts are dropped at any await.

**mcp_events.** An event on its way to a client is of a kind in the filter it saw
acknowledged last or asked for since (`OnlyWhatWasAskedFor`); a client that stays
shows the current errors (`ViewConverges`), unless a filter, its own lag or the gap
between snapshot and subscription kept them from it, or they never got as far as the
hub: their announcement was dropped with its handler, pushed out of the relay's ring
by infos and other later messages, or followed by a clear that `clear_category` had
decided on before; one that leaves is uncounted (`LeaversAreForgotten`).
*Bounds:* the model begins with errors shown; they are cleared and there are errors
again, the least for a clear to be late. One message the code could have done
without is an info, a repetition or that clear. With capacities of one and two both
the relay and the client's receiver lag within four events; two filters, one with an
unknown name, are needed for an ack to wait while the next filter is set. Clients interact through the count alone, which is proved for any
number of them.

**reactivity.** For every component of the bounded size and every order of
walking, a `let` is a signal exactly if the page shows it
(`SignalsAreWhatThePageShows`), and a `const` the page shows that derives from
state is computed (`ShownDerivationsAreComputed`), unless all that state is of the
kinds the search overlooks (`Overlooked`): what was destructured from a signal api or
a hook, and a signal of a form's field. Those do change, and the `const` keeps its
first value: [section 5](#5-divergences-from-the-codes-own-words).
*Bounds:* three variables and three reads give chains of derivations, cycles and
diamonds; the proofs take any component.

### Fairness

| specification | fairness | why |
|---|---|---|
| ErrorBroadcaster | WF of each task's remaining steps and of each connection's service | tokio polls ready tasks; nobody has to report, connect or leave |
| PersistentIsolate | WF of each handler and of each thread | the runtime and the OS schedule them, and timers fire; loading may hang and an awaited operation may never complete, so neither they nor `Settle` have any |
| AutoInstall | WF of each handler and of spawned reports | timers fire and the tokio mutex is FIFO; a blocking `pm::add` may take for ever, so jobs have none |
| WatchLoop | WF of receiving, polling, dispatching, finishing, time | the loop is one task and its handlers return; the OS owes no event |
| HotReload | WF of the server's and the page's work as a whole | there is only finitely much of it between two saves, so that something of it goes on is enough for all of it to be done; nobody owes a save, a visit or a connection |
| TestRunner | WF of each worker's own steps with its timeout, of joining and of the type tests | OS threads run; the thing a file waits for may never come |
| McpSessions | WF of the lock's grants, of each session's insertion and reading, of each post's handler | tokio's lock is FIFO, tasks are polled, a client that has not stalled reads |
| McpEvents | WF of announcements not dropped, of the relay, of each connection's read and write task, of a client's reading | as above; nobody owes a filter or a change |
| PackageInstall, Registry, Reactivity | none | safety only |

Strong fairness is nowhere assumed. The run `watch_loop_deps`, whose
counterexample is one of liveness, uses the fair specification.

## 4. Proofs

Over ten thousand obligations, all discharged by SMT, Zenon and LS4. Eight modules
hold the theorems; each extends its components' modules and proves, for every value
of the constants within the named assumptions:

| module | theorem | statement |
|---|---|---|
| ErrorBroadcasterProofs | TypeCorrect | `Spec => []TypeOK` |
| | StaleErrorsCorrect | `Spec => []StaleErrorsAreOwed` |
| | SurfacedChangesCorrect | `Spec => SurfacedChangesAreOwed` |
| | CountCorrect | `Spec => []CountIsConnections` |
| | LogCorrect | `Spec => []LogSnapshotIsCurrent` |
| PersistentIsolateProofs | Inductive, TypeCorrect | `Spec => []IInv`, `Spec => []TypeOK` |
| | AnswersAbandoned | `Spec => []ForeignAnswersWereAbandoned` |
| | ServiceImplemented | `Spec => ImplementsService` |
| | FrameworkKept | `Spec => []FrameworkUnlessDisturbed` |
| PackagesProofs (AutoInstall) | Inductive, TypeCorrect | `Spec => []IInv`, `Spec => []TypeOK` |
| | OneInstaller | `Spec => []OneInstallerPerPackage` |
| | EntriesCorrect | `Spec => []EntriesHaveInstallers` |
| | InterferenceCorrect | `Spec => []InterferenceIsAbandoned` |
| PackagesProofs (Registry) | RegistryTypeCorrect | `RegistrySpec => []RegistryTypeOK` |
| | AnswersCurrent | `RegistrySpec => []AnswersAreCurrent` |
| | FailuresCaused | `RegistrySpec => []FailuresHaveACause` |
| WatchProofs (WatchLoop) | LoopInductive, LoopTypeCorrect | `LoopSpec => []LoopIInv`, `LoopSpec => []LoopTypeOK` |
| | DelayBounded | `LoopSpec => []OverdueOnlyUnderFire` |
| | FeedImplemented | `LoopSpec => ImplementsFeed` |
| WatchProofs (HotReload) | Inductive, TypeCorrect | `Spec => []IInv`, `Spec => []TypeOK` |
| | StaleEntriesKnown | `Spec => []StaleEntriesAreKnown` |
| | MirrorKept | `Spec => []GraphMirrored` |
| | Delivery | `Spec => []PInv`, the invariant the next two rest on |
| | PageCurrent | `Spec => []PageIsCurrent` |
| | ErrorsTrue | `Spec => []ErrorsAreTrue` |
| | EdgesKept | `Spec => []EdgesAreKnown` |
| | CascadeReaches | `Spec => []CascadeReachesImporters` |
| PackageInstallProofs | Inductive, TypeCorrect | `Spec => []IInv`, `Spec => []TypeOK` |
| | StoreHarm | `Spec => []StoreHarmIsDoubled` |
| | ManifestKept | `Spec => []ManifestIsKept` |
| | PatchesApplied | `Spec => []PatchesAreApplied` |
| | Reproducible | `Spec => []InstallsAreReproducible` |
| TestRunnerProofs | ProgramsOrderly | `Spec => []ProgramsAreOrderly` |
| | Inductive, TypeCorrect | `Spec => []IInv`, `Spec => []TypeOK` |
| | EveryTestReported | `Spec => []EveryTestIsReported` |
| | PassEarned | `Spec => []PassIsEarned` |
| | CleanupLast | `Spec => []CleanupComesLast` |
| | SuccessEarned | `Spec => []SuccessIsEarned` |
| ReactivityProofs | TypeCorrect | `Spec => []TypeOK` |
| | SignalsAreShown | `Spec => []SignalsAreWhatThePageShows` |
| | DerivationsAreComputed | `Spec => []ShownDerivationsAreComputed` |
| | ComputedsDerive | `Spec => []ComputedsDeriveFromState` |
| | SearchesProgress | `Spec => SearchesEnd` |
| McpProofs (McpSessions) | TypeCorrect | `Spec => []TypeOK` |
| | SessionsMatch | `Spec => []SessionsMatchClients` |
| | AcceptedDelivered | `Spec => []AcceptedIsDelivered` |
| McpProofs (McpEvents) | EventsTypeCorrect | `EventsSpec => []EventsTypeOK` |
| | CountIsRight | `EventsSpec => []CountIsOpenHandlers` |
| | NothingUnasked | `EventsSpec => []OnlyWhatWasAskedFor` |

Every invariant and action property of the runs is among them.

### The refinements

ChangeFeed promises a consumer of the watcher two things only: `Accept` gives a
change of a path a number higher than any before of that path, and `Deliver` moves what the
consumer has seen of some paths forward, to accepted numbers. WatchLoop
instantiates it `WITH` the numbers accepted and delivered so far, and
`FeedImplemented` shows every step of the loop, whatever the channel drops, the
debouncer merges and the clock does, to be one of the two or a stutter.

RequestService promises whoever asks a server for something: the request stays
with that server and is concluded once. It may be answered, fail or be given up,
and the only answer it can get that is not its own is one to a request the same
server has been given up on. PersistentIsolate instantiates it `WITH Server <- Isolate`,
the progress of each handler (`Status`), the isolate it took and whose answer it got.
In `ServiceImplemented` an arrival is an `Ask`, and the handler's timeout and every
reply of a thread is a `GiveBack` or a `GoWithout` if the handler still waits and a
stutter if not (lemma `ReplyServes`); swaps, loading, dispatching and what JavaScript
does on its own do not show. It rests on the inductive invariant of the isolates:
whose answer a thread is about to give is known before it gives it.

### Inductive invariants

**ErrorBroadcaster.** `StaleErrorsAreOwed` speaks of the last message a client
was told, which is the end of its queue, the greeting it is about to be sent, or
what it shows. It is not inductive: a step that takes a message from the queue
must know that the queue was no longer than the ring when the message went in
(`RingBounded`), and a connection that has not read the state yet must show
nothing (`NothingShownEarly`). With those, a change of the state leaves the task
owing a broadcast, and each broadcast settles the debt of every client at once,
because it appends the state read under the same lock. `CountIsConnections` needs
that the counted connections are finitely many, which no assumption on the clients
gives but every reachable state has.

**AutoInstall.** Who installs a package has its entry in the in-flight map
(`Claims`), so two installers of one package would be one. The lock is held exactly
by the handler that is installing (`LockHeld`), and a job runs either for that
handler or for one that gave up (`JobsAwaited`), so two awaited jobs would be two
lock holders. That a finished job keeps its package needs `PlansAreCurrent`: while
no job has been abandoned, the plan of the running job is what `package.json` says.

**PersistentIsolate.** Whose answer a thread would read is decided by the globals
its JavaScript leaves behind. `OwnerInOrder` says that while a request is dispatched
they are nobody's, that request's own or those of a request this isolate was given
up on. It holds because what still awaits an operation was left by the current
request or by one that was given up (`PendingInOrder`), which in turn needs that a
request is in one place: in one isolate's queue once, or under dispatch there
(`QueueInOrder`, `CurrentInOrder`), and that its handler, if it has not returned,
has no outcome yet (`PendingUntilDone`). `FrameworkUnlessDisturbed` needs none of
this; its own invariant says that of isolates which hold the shared init file at
once each is known to be disturbed (`Separate`), and that one nobody disturbed
imports the whole file (`Whole`).

**WatchLoop.** `InOrder` puts what the consumer has seen of a path, what is pending,
the channel's elements and the newest accepted number in increasing order. It makes
every batch a `Deliver` and every accepted event an `Accept` of ChangeFeed, and
everything else a stutter. For the delay, `Clocks` says that what is pending has an
age, and `Polled` that if the present sleep began after the last event, a poll has
found the debouncer not ready: what was pending was below its limit when the sleep
began.

**HotReload.** A stale entry arises only where somebody, a request or the watcher,
read a text before a save and inserts it after. `OldResultsAreKnown` says a result
older than its file, in any hand, is of a file the watcher will still handle, was
not told of, or overtook a request on; `Behind` that no cache entry is dated after its file, nor as a file that is gone. `GraphMirrored`
is inductive on its own given lemma `UpdateKeepsMirror`, that one `UpdateModule`
preserves it whatever imports it is given. The hub touches none of this: its
variables have an invariant of their own (`HubOK`), kept by lemmas about
broadcasting and receiving. What holds at rest is the end of a longer story
(`PInv`): every file the page shows in an old text is still to be handled by the
watcher, being requested, announced by a message on its way, or `missed`
(`ServedOrAwaited`); every file that does not compile has its error, or somebody
still owes the report (`ErrorsOrAwaited`), and every task that will report or clear
knows the truth unless a further change is coming or was not heard of (`TasksAreTrue`). At rest nobody
has anything in hand and only the ends of these disjunctions remain. That a cascade
reaches every importer is `EdgesAreKnown`, that the graph has an edge for every
import (`Linked`) in the present text of a known file the watcher has done with. It
rests on what is in hands between a scan and the lock of the graph: imports found are
those of the version scanned (`ScansAreFaithful`), and older ones are in a request's
hands only if the watcher has yet to update the file's edges, was not told, or was
outrun (`OldScansAreKnown`). The cascade follows with the closure of `TransitiveDependents`: the set of importers lies in every set that is
closed under the same edges.

**PackageInstall.** The argument follows an install through its steps. `Phases`
says what each may rely on: the plan is the least walk from `package.json` through
the packages chosen (`Walked`), the manifest is the plan once linking is over, a
full link starts without a manifest. `Recorded` puts every package that shares its
name or its path with another one in the history that the properties exempt. Harm
comes to the store through hard links only, so `LinksKnown` follows each link to a
package whose place another version's script could run in: it is in the manifest,
in what is still to be removed or in the plan, and so the other version is not,
unless the history says so. Proving this met the behaviour that `stranded` stands
for: an incremental link removes the entries of the old manifest one by one, and one
that dies leaves links behind that no manifest lists. `EntriesHeld` is the manifest's
side, with `FullLinks` for a link that starts from an empty directory and
`SessionCopied` for packages that are being patched; `Applied` says a saved patch
stays applied from the step that applies it to the next install. The
reproducibility of installs rests on no step at all but on the resolver: what was
locked is what was chosen (`LockfileIs`, `LockedAsChosen`), a resolution from that
lockfile picks the same package for each dependency it meets, and two least walks
with the same choices are one (`WalkIsLeast`, `MetIs`). This is where a dependency
that a lock entry gives a version outside its range came up.

**TestRunner.** Whatever the order of steps, the calls a worker has made are those
before its next one, and what it has collected are the reports among them
(`Made`): one status for each, that fits the call (`Collected`), and every call
that returned is one of those, with none left out but in tests (`Called`). Calls of
a test are left out only after one of them threw, so if the test has not failed and
nothing falsy was thrown, none were (`Missed`), which is what a "pass" needs
(`Earned`). What holds of whole files follows from `Orderly` of their calls when
the next call is beyond the last. For the run, `FilesAre` says that each file is in
the channel, with one worker, lost, reported, or dropped after a failure, and that
while there is no failure the workers that are gone while files are left are as many
as the files lost.

**TestHarness.** That the harness makes the calls of a file in order is a fact about
recursive functions on a tree: `Path`, the flags of suites (`ParentOnly`) and the
calls of a suite (`RunSuite`). Induction on the tree is done by hand. A function on
part of the tree that fulfils the equation agrees with any other where both are
defined, so their union fulfils it, and it is defined everywhere, or an innermost
node could be added (`Recursion`); hence each of the recursive functions has its
equation (`PathIs`, `FlagIs`, `RunSuiteIs`). A statement about all nodes is proved
by looking at a node for which it fails while it holds for its parent (`Outermost`),
or for all suites in it (`Innermost`), and a statement about a flattened sequence at
the least index where it fails (`Least`). What is proved this way is `Sound` of each
part of a file: of a test (`TestRun`), of parts one after the other that have
different tests (`SoundCat`, `SoundFlatten`), and of a part with the hooks of a node
around it (`SoundAround`); so of a suite and a file. `Sound` is stronger than
`Orderly`: it keeps track of whose hooks and tests the part holds. Around a test
that runs every suite runs that is not itself skipped (`AroundRuns`), which is where
the three conditions on `only` in `runSuite` have to agree; and where no suite
further out is skipped a test runs if and only if it was asked for (`RunsAsked`).

**Registry.** `Agreement` says what the two files of a pair have to do with each
other: the same text, or one fetch is between its two writes and its etag is the
one on disk, or several have written. From it `Asked` follows: a request sent while
a pair agreed carries the etag of the body on disk, so that a 304 answered to it,
with the files untouched since, is that body. `Told` is the same for a 200, and
`Counted` keeps the attempts the network failed, or the registry with a text that
cannot be read, equal to all that failed, as long as nothing else can have failed
one. A text that cannot be read is stored like any other, so a 304 can bring it back:
that it is the registry's text is what `Asked` says.

**Reactivity.** One half is a least fixed point from inside: everything reached,
and everything visited by a search, is connected to where it began (`ReachInv`,
`SearchInv`), so what is classified deserves it. The other half is from outside: a
search that fails leaves behind a set that is closed under derivation and in which
nothing reads state (`Barren`), so what it gave up on derives from nothing, and
`Settled` is the same for the closure. Neither mentions an order of walking.

**McpEvents.** The filter the write task reads is the youngest of: the ack the read
task owes, the acks queued, the one on the wire, the one the client saw
(`Granting`). So what passes the filter is wanted, and it stays wanted on its way
since no ack overtakes it (`OnWire`). Nothing in it depends on what the error
broadcaster sends and when.

**McpSessions.** A session whose id a client was told is connected or gone for good,
so a post that found it gone stays right (`PostInv`), and each response is in one
place at a time (`SessionInv`).

### Assumptions

| assumption | in | says |
|---|---|---|
| CapacityAssumption, MaxOpsAssumption | ErrorBroadcaster | the ring has a slot; the bound on operations is a number |
| RequestsAssumption, BehaviourAssumption, BoundsAssumption | PersistentIsolate | the kinds of request are disjoint; what code may do is one of four things; the channel has a slot |
| InstallAssumption | AutoInstall | `NoOne` is no request and `NoPackage` no package |
| CapacityAssumption, TimingAssumption | WatchLoop | the channel has a slot; timings are numbers, the poll positive |
| EntryAssumption, ImportsAssumption, BoundsAssumption, RingAssumption, NoneAssumption | HotReload | the entry is a file, the texts of a file have sets of files as imports, of which their union is one (the text everything starts with), bounds are numbers, the ring has a slot, `None` is no result |
| CatalogAssumption | PackageInstall | packages are names with versions, dependencies are on packages of the catalog, dummies are distinct |
| BoundsAssumption, DocumentAssumption, DistinctAssumption | Registry | there is a permit and an attempt; documents have a non-empty name and a format; dummies are distinct, and the texts that cannot be read are texts |
| TreeAssumption | TestHarness | suites and tests are declared in one place each; among any suites one is outermost and one innermost, so the lists are a tree |
| RunnerAssumption | TestRunner | files, tests and workers are finitely many, the work channel has each file once; there is a worker; flags and bounds are such |
| McpAssumption | McpSessions | channels have a slot, sessions and posts are disjoint and finitely many |
| McpEventsAssumption | McpEvents | channels have a slot, clients are finitely many, the clear states are states |
| ReactivityAssumption | Reactivity | the prop and the page are not variables; a component has reads |

None of them restricts what the code can be run with.

### Only model-checked

Liveness (`ClearedErrorsGoAway`, `WorkEnds`, `RequestsEnd`,
`AcceptedIsDispatched`, `ComesToRest`, `RunEnds`, `EverybodyIsServed`,
`ViewConverges`, `LeaversAreForgotten`), since the prover has neither fairness nor
`ENABLED`. The run `watch_loop_deps` is a counterexample, so there is nothing to
prove. The library's induction theorems take an operator, which the provers cannot
instantiate; where the code recurses, the models state the least closed set it
computes (the module graph, the resolver), or the proof looks at a least
counterexample (the tree of suites).

## 5. Divergences from the code's own words

`watch_loop_deps` ends in a counterexample to a sentence of the repository:
"forces all events through the batch path" (`server/http.rs:1348`). One changed
file goes down the single-file path, whose window is `u64::MAX` ms: it waits for a
second file to change.

The following were met while modelling. They are in the models, as exceptions the
properties make or as behaviours they allow.

- *Error broadcaster.* `clear_category` sees no error left and drops the lock
  (`errors/broadcaster.rs:109`); another task reports one and broadcasts it; then
  the clear goes out, "All errors have been cleared." (`:22`). The overlay shows
  nothing while a build error is active. `StaleErrorsAreOwed` counts the clear as
  a debt; it is the reason why the property says "owed" and not "shown". The same
  clear reaches the LLM clients: `ViewConverges` names it. An operation that
  auto-install awaits inside its handler (`server/module_server.rs:589`, `:603`,
  `:630`) is dropped with the handler, between the change and the announcement too.
- *Persistent isolate.* The script of an API call that timed out resumes in the
  event loop of the next and overwrites its answer (`runtime/persistent_isolate.rs:651`),
  where "collect the response" (`:596`) means its own. "Zero-downtime" and
  create-then-swap (`server/http.rs:1113`) notwithstanding, the swap comes before
  the new isolate has loaded: requests get a 503 or the client shell until then,
  and for good if it dies or hangs while loading. Modules are loaded without
  `INIT_EVENT_LOOP_TIMEOUT`: one with an interval never finishes. Two isolates that
  load at once race for `__vertz_ssr_init.mjs` (`:357`), and the loser renders
  with the legacy renderer, silently. Spinning JavaScript leaves one thread behind
  per restart. A render without a session keeps the session global of the one
  before (`:843`), which the comment at `:716` rules out. A render that rejects
  late fails whichever dispatch is under way. The request timeout starts in the
  queue (`:230`), and senders wait for a slot outside it (`:222`).
- *Auto-install.* The 30-second timeout frees the lock (`server/module_server.rs:564`)
  that is there to "prevent package.json write races" (`:66`), but not the blocking
  `pm::add`: the next one overwrites its entry. The wake-up is lost if the install
  ends between cloning the `Notify` and awaiting it (`:504`); a dropped client leaks
  its in-flight entry (`:482`), so later requests wait 35 seconds each; a success
  after the timeout leaves the reported error (`:617`).
- *Watch loop.* `max_wait` is not enforced under continuous events: each starts
  the sleep anew. `OverdueOnlyUnderFire` is what is left of it.
- *Hot reload.* An import of `../x` is recorded under a path with `..` in it
  (`deps/scanner.rs:79`, against `:138`), which no event has: its importer is not
  invalidated. The scan is line by line (`:138-162`): an import over several lines,
  a dynamic `import()` and an alias get no edge. Both the watcher
  (`server/http.rs:1255-1264`) and a request (`server/module_server.rs:165-170`) read
  and scan before they take the graph's lock, so a request's older imports can
  overwrite the watcher's newer ones and stay. A change dropped at the watcher's full
  channel (`watcher/file_watcher.rs:90`) is never made up for: a request that spans
  it leaves the old code under the new mtime (`compiler/pipeline.rs:185-198`). The error of a deleted file stays until its path is written
  (`server/http.rs:1244`); the watcher recognises only unreadable files as failed
  (`:1228`); the mtime is read after the compilation (`compiler/pipeline.rs:185`).
- *HMR hub.* A page that lags more than 256 messages stays connected and hears
  nothing more (`hmr/websocket.rs:69`); a page is told nothing of what it missed
  when it connects, and it connects only when the DOM is ready, after its modules
  have been loaded. A page that is not told does not request, so a file that no
  longer parses has no error: the watcher clears it and only requests report it.
- *Package installation.* Two versions of which one is wanted by `package.json`
  alone share a path, and linking the second writes through the hard link of the
  first into the store (`pm/linker.rs:255`), against "to protect the global store"
  (`:271`); a nested version's postinstall script runs in the directory of the
  version at the top (`pm/scripts.rs:53`); an incremental relink removes what is
  nested (`:205`); an install with a saved patch fails when it runs again, as the
  patch is applied twice (`pm/patch.rs:472`); the lockfile records a root
  dependency by name only (`pm/resolver.rs:487`); a link that died leaves a
  manifest that is believed (`pm/linker.rs:219`). A patch session does not survive
  an install that relinks its package: edits then go through the hard link into
  the store, a discard restores another version than the manifest lists, and a
  save takes the difference between two versions (`pm/patch.rs:240`, `:314`). An
  incremental link that dies half-way strands links no manifest lists, in which the
  script of another version of the package may later run. The lock entry of
  a dependency of `package.json` records whichever version stands at the top without
  a look at the range (`pm/resolver.rs:487`), and a package's dependency of the same
  name and range is later given that version.
- *Registry client.* The etag is stored before the body (`pm/registry.rs:222`): if
  the body is lost, every later fetch is answered 304 from the old one, or fails. A
  text that does not deserialise (`:186`, `:238`, `:291`) is stored with its etag
  before it is read, so it fails every attempt and comes back by 304 until the
  package is published again or the cache cleaned.
  `with_extension` (`:362`) makes `lodash.get`, `lodash.merge` and `lodash` share
  their files.
- *Test runner.* A test or hook that throws `undefined` passes
  (`test/globals.rs:767`). A suite inside a skipped one still runs, without the outer
  suite's `beforeAll`. A panicking worker's file is lost while `success()` may be
  true (`test/runner.rs:284`); `--bail` ignores files that do not load; the timeout
  covers neither loading nor spinning JavaScript (`test/executor.rs:277`). The type
  tests' checker may fail without anybody looking at its exit status
  (`test/typetests.rs:97`).
- *MCP.* A send to a full channel waits with the sessions locked for reading
  (`server/mcp.rs:71`), so one client that stops reading can stop all; sessions are
  removed only by posts to them (`:736`); 202 is answered whether or not the
  response was sent. The events' snapshot is taken before subscribing
  (`server/http.rs:299`), so an error in between is never pushed; `server_status`
  is sent on connecting only, though its comment says "+ status changes".
- *Reactivity.* A `const` from a destructured signal property is static
  (`reactivity_analyzer.rs:750`), although the binding itself is classified as a
  signal and the compiler's own test is "Given a const derived from a signal
  variable … Then classifies it as computed"
  (`src/native/vertz-compiler/__tests__/reactivity-analysis.test.ts:87`, of a `let`);
  so are one from a destructured hook, from a signal of a form's field, and
  one that depends on state through a function or a literal; the arguments of a
  destructured call are not followed.

## 6. Not modelled

The models cover about six per cent of the implementation's lines. The rest is, by
size: text transformations (JSX, AOT rendering, field selection, CSS, import
rewriting: over a quarter of the code), host functions of the runtime
(cryptography, files, network: an eighth), tests inside the sources, HTML and message formatting,
command line and output. They compute a result from their input, hold no state
that others see, and a property of them would restate the transformation; bounded
inputs of any use are beyond TLC.

- *Type-check process*: one writer of ErrorBroadcaster's `ReplaceErrors`. Its two
  readers race when the checker is killed (`typecheck/process.rs:243`); the model
  allows both orders because any task may call any operation.
- *Compiler code generation and bindings, plugins, browser-side rewriting,
  pre-bundling*: a compilation is its success and its imports (HotReload) and the
  classification of its variables (Reactivity). How `signal_transformer.rs` writes
  the classification into the code is not modelled; reads in a signal's own
  initialiser and in mutations are rewritten by other rules than those checked here.
- *Module loader, runtime ops, server-side rendering*: work inside one isolate on
  one thread. What they share with other requests is in PersistentIsolate.
- *Server pages, diagnostics, terminal output, webview, browser assets (but the HMR
  client), API proxy, command line*: formatting, I/O and start-up. The reverse
  proxy's route table is in the plan.
- *Inside modelled components*: the file the error log is written to; an operation
  of ErrorBroadcaster that is dropped half-way (of auto-install's; McpEvents has
  it for announcements); sessions of
  renders; overrides, optional, GitHub and workspace dependencies, bin stubs; two
  installs at once other than AutoInstall's; several patch sessions; `--latest`;
  publishing and the advisory query; the hub's client count, style sheets and
  navigate messages; `hmr/recovery.rs`, whose isolate health no code uses; the
  tools behind the MCP server; the events no code emits (`TypecheckUpdate`,
  `SsrRefresh`); watch mode of the test runner, whose module graph stays empty so
  that it runs every file again; what the dependency watcher does with a batch; a
  `let` that holds an api object.

## 7. Plan

Order of work, the most important first.

1. *Abstract specifications, proved.* A compilation service that HotReload's
   cache implements; a store of documents that Registry implements.
2. *Extensions of modelled components, in their present runs.*
   - HotReload: style sheets (updates without re-import), plugins' and the
     dependency watcher's full reloads.
   - ErrorBroadcaster: the type checker's two readers.
   - PackageInstall: overrides, optional and workspace dependencies.
3. *New components:* the proxy's route table, the type-check process, the
   signal transformer on Reactivity's classification.

## 8. Running the checks

In `tla/`, with the community modules on the library path:

    tlc -workers 2 -config HotReload.cfg MCHotReload
    tlapm WatchProofs.tla

`PROJECT.json` lists the runs with their modules and configurations, the code
lines each definition stands for, the mutants, the hazards and which property
covers each, and the theorems.
