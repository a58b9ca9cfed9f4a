---------------------------- MODULE AutoInstall ----------------------------
(***************************************************************************)
(* Auto-install of missing dependencies (server/module_server.rs,          *)
(* handle_deps_request and auto_install_package): a request for a module   *)
(* of a package that is not in node_modules installs the package, and      *)
(* concurrent requests for the same package wait for that.                 *)
(*                                                                         *)
(* Installs run pm::add on a blocking thread, which neither the 30-second  *)
(* timeout nor the client's disconnection stops: both only drop the task   *)
(* that awaits it, and with it the guard of the install lock.  pm::add     *)
(* reads and writes package.json and then makes node_modules what          *)
(* package.json said when its install began (pm/linker.rs removes the      *)
(* rest).  Time is abstract: a timeout may fire whenever its wait goes on. *)
(***************************************************************************)
EXTENDS Naturals, FiniteSets

CONSTANTS Request,    \* GET /@deps/... requests
          Package,
          NoOne,
          NoPackage

ASSUME InstallAssumption == NoOne \notin Request /\ NoPackage \notin Package

VARIABLES pc,         \* where each request's handler is
          target,     \* the package each request asks for
          answer,     \* the response: the module, or 404
          verdict,    \* how the install of a request ended for its handler
          handle,     \* the install (its request) whose Notify a request waits for
          inflight,   \* auto_install_inflight: the request installing each package
          ended,      \* installs whose Notify has fired
          lock,       \* auto_install_lock
          failed,     \* auto_install_failed
          errors,     \* packages with an active resolve error
          reports,    \* requests whose spawned report_error has not run yet
          job,        \* the pm::add of each request
          plan,       \* the dependencies that pm::add goes by
          manifest,   \* the dependencies in package.json
          installed   \* the packages in node_modules

jobVars == <<job, plan, manifest, installed>>
errorVars == <<errors, reports>>
mapVars == <<inflight, ended, lock, failed>>
asked == <<target, answer>>
vars == <<pc, asked, verdict, handle, mapVars, errorVars, jobVars>>

-----------------------------------------------------------------------------
Installing == {"locking", "installing", "settling"}
JobRunning == {"started", "resolving", "written", "linking"}
JobOver == {"ok", "failed"}

Goto(r, place) == pc' = [pc EXCEPT ![r] = place]

\* The 404 response; the error is reported by a task of its own.
NotFound(r) ==
  /\ Goto(r, "done")
  /\ answer' = [answer EXCEPT ![r] = "missing"]
  /\ reports' = reports \cup {r}

Serve(r) ==
  /\ Goto(r, "done")
  /\ answer' = [answer EXCEPT ![r] = "served"]
  /\ UNCHANGED reports

-----------------------------------------------------------------------------
(* The request handler. *)

\* Resolution from node_modules, then the blacklist.
Arrive(r, p) ==
  /\ pc[r] = "idle"
  /\ target' = [target EXCEPT ![r] = p]
  /\ IF p \in installed THEN Serve(r)
     ELSE IF p \in failed THEN NotFound(r)
     ELSE Goto(r, "missing") /\ UNCHANGED <<answer, reports>>
  /\ UNCHANGED <<verdict, handle, mapVars, errors, jobVars>>

\* Mutant: every request installs, replacing the entry of the other.
MutClaim(r) ==
  /\ pc[r] = "missing"
  /\ Goto(r, "locking")
  /\ inflight' = [inflight EXCEPT ![target[r]] = r]
  /\ UNCHANGED <<asked, verdict, handle, ended, lock, failed, errorVars, jobVars>>

\* The first request for a package installs it (is_installer).
Claim(r) ==
  /\ pc[r] = "missing"
  /\ IF inflight[target[r]] = NoOne
     THEN /\ Goto(r, "locking")
          /\ inflight' = [inflight EXCEPT ![target[r]] = r]
     ELSE /\ Goto(r, "following")
          /\ UNCHANGED inflight
  /\ UNCHANGED <<asked, verdict, handle, ended, lock, failed, errorVars, jobVars>>

\* Mutant: the global lock is not taken.
MutTakeLock(r) ==
  /\ pc[r] = "locking"
  /\ lock' = r
  /\ Goto(r, "installing")
  /\ job' = [job EXCEPT ![r] = "started"]
  /\ UNCHANGED <<asked, verdict, handle, inflight, ended, failed, errorVars, plan, manifest, installed>>

TakeLock(r) ==
  /\ pc[r] = "locking"
  /\ lock = NoOne
  /\ lock' = r
  /\ Goto(r, "installing")
  /\ job' = [job EXCEPT ![r] = "started"]
  /\ UNCHANGED <<asked, verdict, handle, inflight, ended, failed, errorVars, plan, manifest, installed>>

\* auto_install_package ends one way or another, and drops the lock's guard.
\* A failure blacklists the package and is reported, unless the job panicked.
EndInstall(r, outcome) ==
  /\ verdict' = [verdict EXCEPT ![r] = outcome]
  /\ failed' = IF outcome = "ok" THEN failed ELSE failed \cup {target[r]}
  /\ \/ outcome = "ok" /\ errors' = {}
     \/ outcome = "failed" /\ errors' = errors
     \/ outcome # "ok" /\ errors' = errors \cup {target[r]}
  /\ lock' = NoOne
  /\ Goto(r, "settling")
  /\ UNCHANGED <<asked, handle, inflight, ended, reports, jobVars>>

JobEnds(r) ==
  /\ pc[r] = "installing"
  /\ job[r] \in JobOver
  /\ EndInstall(r, job[r])

\* Mutant: the guard of the lock has moved into the blocking job.
MutInstallTimesOut(r) ==
  /\ pc[r] = "installing"
  /\ job[r] \in JobRunning
  /\ verdict' = [verdict EXCEPT ![r] = "timed out"]
  /\ failed' = failed \cup {target[r]}
  /\ errors' = errors \cup {target[r]}
  /\ Goto(r, "settling")
  /\ UNCHANGED <<asked, handle, inflight, ended, lock, reports, jobVars>>

\* The 30-second timeout: the job goes on.
InstallTimesOut(r) ==
  /\ pc[r] = "installing"
  /\ job[r] \in JobRunning
  /\ EndInstall(r, "timed out")

\* Mutant: a failed install leaves its entry behind.
MutSettle(r) ==
  /\ pc[r] = "settling"
  /\ inflight' = IF verdict[r] = "ok" THEN [inflight EXCEPT ![target[r]] = NoOne] ELSE inflight
  /\ ended' = ended \cup {r}
  /\ pc' = [s \in Request |->
              IF s = r THEN IF verdict[r] = "ok" THEN "resolving" ELSE "failing"
              ELSE IF pc[s] = "waiting" /\ handle[s] = r THEN "resolving"
              ELSE pc[s]]
  /\ UNCHANGED <<asked, verdict, handle, lock, failed, errorVars, jobVars>>

\* Remove the entry and notify: who has created its Notified future wakes up.
Settle(r) ==
  /\ pc[r] = "settling"
  /\ inflight' = [inflight EXCEPT ![target[r]] = NoOne]
  /\ ended' = ended \cup {r}
  /\ pc' = [s \in Request |->
              IF s = r THEN IF verdict[r] = "ok" THEN "resolving" ELSE "failing"
              ELSE IF pc[s] = "waiting" /\ handle[s] = r THEN "resolving"
              ELSE pc[s]]
  /\ UNCHANGED <<asked, verdict, handle, lock, failed, errorVars, jobVars>>

\* Another request was installing the package: clone its Notify, in a second
\* lock scope.  The entry may be gone, or be another request's by now.
LookUp(r) ==
  /\ pc[r] = "following"
  /\ handle' = [handle EXCEPT ![r] = inflight[target[r]]]
  /\ Goto(r, IF inflight[target[r]] = NoOne THEN "resolving" ELSE "subscribing")
  /\ UNCHANGED <<asked, verdict, mapVars, errorVars, jobVars>>

\* notify.notified(), after the lock scope.
Subscribe(r) ==
  /\ pc[r] = "subscribing"
  /\ Goto(r, "waiting")
  /\ UNCHANGED <<asked, verdict, handle, mapVars, errorVars, jobVars>>

\* The 35-second timeout.
WaitTimesOut(r) ==
  /\ pc[r] = "waiting"
  /\ Goto(r, "resolving")
  /\ UNCHANGED <<asked, verdict, handle, mapVars, errorVars, jobVars>>

\* re_resolve_dep; a failed install skips it.
Resolve(r) ==
  /\ pc[r] \in {"resolving", "failing"}
  /\ IF pc[r] = "resolving" /\ target[r] \in installed THEN Serve(r) ELSE NotFound(r)
  /\ UNCHANGED <<target, verdict, handle, mapVars, errors, jobVars>>

\* The browser closes the connection: the handler's future is dropped where it
\* awaits, with the lock's guard, and nothing of its rest runs.
ClientGone(r) ==
  /\ pc[r] \in {"locking", "installing", "waiting"}
  /\ Goto(r, "gone")
  /\ lock' = IF lock = r THEN NoOne ELSE lock
  /\ UNCHANGED <<asked, verdict, handle, inflight, ended, failed, errorVars, jobVars>>

-----------------------------------------------------------------------------
(* Tasks and threads the handlers leave behind, and the file watcher. *)

Report(r) ==
  /\ r \in reports
  /\ errors' = errors \cup {target[r]}
  /\ reports' = reports \ {r}
  /\ UNCHANGED <<pc, asked, verdict, handle, mapVars, jobVars>>

\* Any change of a source file clears the blacklist.
WatcherClears ==
  /\ failed # {}
  /\ failed' = {}
  /\ UNCHANGED <<pc, asked, verdict, handle, inflight, ended, lock, errorVars, jobVars>>

JobStep(r, from, to) ==
  /\ job[r] = from
  /\ job' = [job EXCEPT ![r] = to]
  /\ UNCHANGED <<pc, asked, verdict, handle, mapVars, errorVars>>

\* pm::add reads package.json, then asks the registry.
JobReads(r) ==
  /\ JobStep(r, "started", "resolving")
  /\ plan' = [plan EXCEPT ![r] = manifest]
  /\ UNCHANGED <<manifest, installed>>

\* write_package_json replaces the dependencies by those read before and its own.
JobWrites(r) ==
  /\ JobStep(r, "resolving", "written")
  /\ manifest' = plan[r] \cup {target[r]}
  /\ UNCHANGED <<plan, installed>>

\* install() reads package.json again.
JobReadsBack(r) ==
  /\ JobStep(r, "written", "linking")
  /\ plan' = [plan EXCEPT ![r] = manifest]
  /\ UNCHANGED <<manifest, installed>>

\* link_packages_incremental adds what is new and removes what is not listed.
JobLinks(r) ==
  /\ JobStep(r, "linking", "ok")
  /\ installed' = plan[r]
  /\ UNCHANGED <<plan, manifest>>

JobFails(r) ==
  /\ \E from \in JobRunning : JobStep(r, from, "failed")
  /\ UNCHANGED <<plan, manifest, installed>>

Job(r) == JobReads(r) \/ JobWrites(r) \/ JobReadsBack(r) \/ JobLinks(r) \/ JobFails(r)

-----------------------------------------------------------------------------
Init ==
  /\ pc = [r \in Request |-> "idle"]
  /\ target = [r \in Request |-> NoPackage]
  /\ answer = [r \in Request |-> "none"]
  /\ verdict = [r \in Request |-> "none"]
  /\ handle = [r \in Request |-> NoOne]
  /\ inflight = [p \in Package |-> NoOne]
  /\ ended = {}
  /\ lock = NoOne
  /\ failed = {}
  /\ errors = {}
  /\ reports = {}
  /\ job = [r \in Request |-> "none"]
  /\ plan = [r \in Request |-> {}]
  /\ manifest = {}
  /\ installed = {}

Handler(r) ==
  \/ Claim(r) \/ TakeLock(r) \/ JobEnds(r) \/ InstallTimesOut(r) \/ Settle(r)
  \/ LookUp(r) \/ Subscribe(r) \/ WaitTimesOut(r) \/ Resolve(r)

Next ==
  \/ \E r \in Request, p \in Package : Arrive(r, p)
  \/ \E r \in Request : Handler(r) \/ ClientGone(r) \/ Report(r) \/ Job(r)
  \/ WatcherClears

\* Handlers and spawned tasks are scheduled, timers fire and the lock is handed
\* out in order; a blocking job may take for ever.
Fairness == \A r \in Request : WF_vars(Handler(r)) /\ WF_vars(Report(r))

Spec == Init /\ [][Next]_vars

FairSpec == Spec /\ Fairness

-----------------------------------------------------------------------------
(* Properties. *)

Places == {"idle", "missing", "following", "subscribing", "waiting", "resolving",
           "failing", "done", "gone"} \cup Installing

\* Type invariant.
TypeOK ==
  /\ pc \in [Request -> Places]
  /\ target \in [Request -> Package \cup {NoPackage}]
  /\ answer \in [Request -> {"none", "served", "missing"}]
  /\ verdict \in [Request -> {"none", "timed out"} \cup JobOver]
  /\ handle \in [Request -> Request \cup {NoOne}]
  /\ inflight \in [Package -> Request \cup {NoOne}]
  /\ ended \subseteq Request
  /\ lock \in Request \cup {NoOne}
  /\ failed \subseteq Package
  /\ errors \subseteq Package
  /\ reports \subseteq Request
  /\ job \in [Request -> {"none"} \cup JobRunning \cup JobOver]
  /\ plan \in [Request -> SUBSET Package]
  /\ manifest \subseteq Package
  /\ installed \subseteq Package

\* No package is being installed for two requests at a time: the in-flight map
\* is tested and filled in one lock scope.
OneInstallerPerPackage ==
  \A r, s \in Request :
    (pc[r] \in Installing /\ pc[s] \in Installing /\ target[r] = target[s]) => r = s

\* Entries of the in-flight map belong to a request that will remove them, or
\* to one whose client is gone.
EntriesHaveInstallers ==
  \A p \in Package :
    inflight[p] # NoOne =>
      pc[inflight[p]] \in Installing \cup {"gone"} /\ target[inflight[p]] = p

\* A job nobody awaits any more: its handler timed out or was dropped.
Abandoned(r) == job[r] # "none" /\ (verdict[r] = "timed out" \/ pc[r] = "gone")

\* The install lock does serialise the jobs that are awaited; a job that ran to
\* its end keeps its package, in package.json and node_modules, unless a job
\* that was abandoned has interfered.
InterferenceIsAbandoned ==
  /\ \A r, s \in Request :
       (job[r] \in JobRunning /\ job[s] \in JobRunning /\ r # s) => Abandoned(r) \/ Abandoned(s)
  /\ \A r \in Request :
       (job[r] = "ok" /\ target[r] \notin manifest \cap installed)
         => \E s \in Request : Abandoned(s)

\* Every request is answered, or its client has gone: waiting for another's
\* install, for the lock and for the install itself all end.
RequestsEnd ==
  \A r \in Request : pc[r] \in Places \ {"idle"} ~> pc[r] \in {"done", "gone"}
=============================================================================
