----------------------------- MODULE PackagesProofs -----------------------------
(***************************************************************************)
(* Where packages come from: the auto-install of the dev server, for every *)
(* set of requests and packages, and the registry client, for any number   *)
(* of fetches and any packages and names.                                  *)
(***************************************************************************)
EXTENDS AutoInstall, Registry, TLAPS

-----------------------------------------------------------------------------
(* Auto-install. *)

(* Who installs a package has its entry in the in-flight map.              *)
Claims ==
  \A r \in Request :
    /\ pc[r] # "idle" => target[r] \in Package
    /\ pc[r] \in Installing => inflight[target[r]] = r
    /\ r \in reports => pc[r] # "idle"

(* The install lock is held by exactly the request that awaits its job.    *)
LockHeld == \A r \in Request : pc[r] = "installing" <=> lock = r

(* A job is started once, and awaited until it is over or abandoned.       *)
JobsAwaited ==
  \A r \in Request :
    /\ pc[r] \in {"idle", "missing", "locking"} => job[r] = "none"
    /\ pc[r] \in {"idle", "missing", "locking", "installing"} => verdict[r] = "none"
    /\ job[r] \in JobRunning => pc[r] = "installing" \/ Abandoned(r)

(* While no job has been abandoned, package.json only grows: the plan of   *)
(* the job that runs is what package.json says.                            *)
PlansAreCurrent ==
  (\A s \in Request : ~ Abandoned(s)) =>
    \A r \in Request :
      /\ job[r] = "ok" => target[r] \in manifest \cap installed
      /\ job[r] = "resolving" => plan[r] = manifest
      /\ job[r] = "written" => target[r] \in manifest
      /\ job[r] = "linking" => plan[r] = manifest /\ target[r] \in manifest

IInv == TypeOK /\ Claims /\ EntriesHaveInstallers /\ LockHeld /\ JobsAwaited /\ PlansAreCurrent
-----------------------------------------------------------------------------
LEMMA InitIInv == Init => IInv
<1> SUFFICES ASSUME Init PROVE IInv
  OBVIOUS
<1>1. TypeOK
  BY DEF Init, TypeOK, Places, Installing, JobRunning, JobOver
<1>2. Claims /\ EntriesHaveInstallers
  BY DEF Init, Claims, EntriesHaveInstallers, Installing
<1>3. LockHeld
  BY InstallAssumption DEF Init, LockHeld
<1>4. JobsAwaited /\ PlansAreCurrent
  BY DEF Init, JobsAwaited, PlansAreCurrent, JobRunning
<1> QED  BY <1>1, <1>2, <1>3, <1>4 DEF IInv

(* A step that leaves the jobs and their targets alone, and abandons no    *)
(* fewer of them, keeps the plans current. *)
LEMMA PlansFrame ==
  ASSUME PlansAreCurrent, UNCHANGED jobVars, UNCHANGED target,
         \A s \in Request : Abandoned(s) => Abandoned(s)'
  PROVE  PlansAreCurrent'
BY DEF PlansAreCurrent, jobVars

(* Entries stay true while who has one stays an installer, or is dropped.  *)
LEMMA EntriesFrame ==
  ASSUME TypeOK, EntriesHaveInstallers, UNCHANGED inflight,
         \A s \in Request : pc[s] \in Installing \cup {"gone"} =>
           pc'[s] \in Installing \cup {"gone"} /\ target'[s] = target[s]
  PROVE  EntriesHaveInstallers'
<1> SUFFICES ASSUME NEW p \in Package, inflight'[p] # NoOne
             PROVE  pc'[inflight'[p]] \in Installing \cup {"gone"} /\ target'[inflight'[p]] = p
  BY DEF EntriesHaveInstallers
<1>1. PICK s \in Request : s = inflight[p] /\ inflight'[p] = s
  BY DEF TypeOK
<1>2. pc[s] \in Installing \cup {"gone"} /\ target[s] = p
  BY <1>1 DEF EntriesHaveInstallers
<1> QED  BY <1>1, <1>2

(* A handler that moves between places outside of an install.              *)
LEMMA MoveStep ==
  ASSUME IInv, NEW r \in Request, NEW to \in Places,
         pc[r] \notin Installing \cup {"idle", "gone"},
         to \notin {"idle", "missing"} \cup Installing,
         Goto(r, to), UNCHANGED <<target, verdict, inflight, lock, job>>,
         reports' \subseteq reports \cup {r}
  PROVE  Claims' /\ EntriesHaveInstallers' /\ LockHeld' /\ JobsAwaited'
         /\ \A s \in Request : Abandoned(s) => Abandoned(s)'
<1>1. /\ pc'[r] = to /\ \A s \in Request : s # r => pc'[s] = pc[s]
      /\ UNCHANGED <<target, verdict, inflight, lock, job>>
      /\ reports' \subseteq reports \cup {r}
  BY DEF IInv, TypeOK, Goto
<1>2. \A s \in Request : Abandoned(s) => Abandoned(s)'
  BY <1>1 DEF Abandoned
<1>3. Claims'
  BY <1>1 DEF IInv, Claims
<1>4. EntriesHaveInstallers'
  BY <1>1, EntriesFrame DEF IInv
<1>5. LockHeld'
  BY <1>1 DEF IInv, LockHeld, Installing
<1>6. JobsAwaited'
  BY <1>1, <1>2 DEF IInv, JobsAwaited, Installing
<1> QED  BY <1>2, <1>3, <1>4, <1>5, <1>6

LEMMA ArriveStep ==
  ASSUME IInv, NEW r \in Request, NEW p \in Package, Arrive(r, p)
  PROVE  IInv'
<1>1. /\ pc[r] = "idle" /\ target' = [target EXCEPT ![r] = p]
      /\ UNCHANGED <<verdict, handle, inflight, ended, lock, failed, errors,
                     job, plan, manifest, installed>>
      /\ \E to \in {"done", "missing"} : pc' = [pc EXCEPT ![r] = to]
      /\ answer' \in {answer, [answer EXCEPT ![r] = "served"], [answer EXCEPT ![r] = "missing"]}
      /\ reports' \in {reports, reports \cup {r}}
  BY DEF Arrive, Serve, NotFound, Goto, mapVars, jobVars
<1>2. PICK to \in {"done", "missing"} : pc' = [pc EXCEPT ![r] = to]
  BY <1>1
<1>3. /\ pc'[r] = to /\ target'[r] = p
      /\ \A s \in Request : s # r => pc'[s] = pc[s] /\ target'[s] = target[s]
  BY <1>1, <1>2 DEF IInv, TypeOK
<1>4. TypeOK'
  BY <1>1, <1>2 DEF IInv, TypeOK, Places
<1>5. Claims'
  BY <1>1, <1>3 DEF IInv, Claims, Installing
<1>6. EntriesHaveInstallers'
  BY <1>1, <1>3, EntriesFrame DEF IInv, Installing
<1>7. LockHeld'
  BY <1>1, <1>3 DEF IInv, LockHeld
<1>8. job[r] = "none" /\ verdict[r] = "none"
  BY <1>1 DEF IInv, JobsAwaited
<1>9. \A s \in Request : Abandoned(s) <=> Abandoned(s)'
  BY <1>1, <1>3, <1>8 DEF Abandoned
<1>10. JobsAwaited'
  BY <1>1, <1>3, <1>8, <1>9 DEF IInv, JobsAwaited, JobRunning
<1>11. PlansAreCurrent'
  BY <1>1, <1>3, <1>8, <1>9 DEF IInv, PlansAreCurrent
<1> QED  BY <1>4, <1>5, <1>6, <1>7, <1>10, <1>11 DEF IInv

LEMMA ClaimStep ==
  ASSUME IInv, NEW r \in Request, Claim(r)
  PROVE  IInv'
<1>1. /\ pc[r] = "missing" /\ target[r] \in Package
      /\ UNCHANGED <<target, answer, verdict, handle, ended, lock, failed, errors, reports,
                     job, plan, manifest, installed>>
  BY DEF Claim, IInv, Claims, asked, errorVars, jobVars
<1>2. CASE inflight[target[r]] = NoOne
  <2>1. pc' = [pc EXCEPT ![r] = "locking"] /\ inflight' = [inflight EXCEPT ![target[r]] = r]
    BY <1>2 DEF Claim, Goto
  <2>2. /\ pc'[r] = "locking" /\ \A s \in Request : s # r => pc'[s] = pc[s]
        /\ inflight'[target[r]] = r
        /\ \A p \in Package : p # target[r] => inflight'[p] = inflight[p]
    BY <1>1, <2>1 DEF IInv, TypeOK
  <2>3. TypeOK'
    BY <1>1, <2>1 DEF IInv, TypeOK, Places, Installing
  <2>4. Claims'
    <3>1. \A s \in Request : pc[s] \in Installing => target[s] # target[r]
      BY <1>2, InstallAssumption DEF IInv, Claims
    <3> QED  BY <1>1, <2>2, <3>1 DEF IInv, Claims, Installing
  <2>5. EntriesHaveInstallers'
    <3> SUFFICES ASSUME NEW p \in Package, inflight'[p] # NoOne
                 PROVE  pc'[inflight'[p]] \in Installing \cup {"gone"} /\ target[inflight'[p]] = p
      BY <1>1 DEF EntriesHaveInstallers
    <3>1. CASE p = target[r]
      BY <2>2, <3>1 DEF Installing
    <3>2. CASE p # target[r]
      <4>1. PICK s \in Request : s = inflight[p] /\ inflight'[p] = s
        BY <2>2, <3>2 DEF IInv, TypeOK
      <4>2. pc[s] \in Installing \cup {"gone"} /\ target[s] = p
        BY <4>1 DEF IInv, EntriesHaveInstallers
      <4> QED  BY <1>1, <2>2, <4>1, <4>2 DEF Installing
    <3> QED  BY <3>1, <3>2
  <2>6. LockHeld'
    BY <1>1, <2>2 DEF IInv, LockHeld
  <2>7. \A s \in Request : Abandoned(s) <=> Abandoned(s)'
    BY <1>1, <2>2 DEF Abandoned
  <2>8. JobsAwaited'
    BY <1>1, <2>2, <2>7 DEF IInv, JobsAwaited
  <2>9. PlansAreCurrent'
    BY <1>1, <2>7, PlansFrame DEF IInv, jobVars
  <2> QED  BY <2>3, <2>4, <2>5, <2>6, <2>8, <2>9 DEF IInv
<1>3. CASE inflight[target[r]] # NoOne
  <2>1. Goto(r, "following") /\ inflight' = inflight
    BY <1>3 DEF Claim
  <2>2. TypeOK'
    BY <1>1, <2>1 DEF IInv, TypeOK, Goto, Places
  <2>3. /\ Claims' /\ EntriesHaveInstallers' /\ LockHeld' /\ JobsAwaited'
        /\ \A s \in Request : Abandoned(s) => Abandoned(s)'
    BY <1>1, <2>1, MoveStep DEF Places, Installing
  <2> QED  BY <1>1, <2>2, <2>3, PlansFrame DEF IInv, jobVars
<1> QED  BY <1>2, <1>3

LEMMA TakeLockStep ==
  ASSUME IInv, NEW r \in Request, TakeLock(r)
  PROVE  IInv'
<1>1. /\ pc[r] = "locking" /\ lock = NoOne /\ lock' = r
      /\ pc' = [pc EXCEPT ![r] = "installing"] /\ job' = [job EXCEPT ![r] = "started"]
      /\ UNCHANGED <<target, answer, verdict, handle, inflight, ended, failed, errors, reports,
                     plan, manifest, installed>>
  BY DEF TakeLock, Goto, asked, errorVars
<1>2. /\ pc'[r] = "installing" /\ job'[r] = "started"
      /\ \A s \in Request : s # r => pc'[s] = pc[s] /\ job'[s] = job[s]
  BY <1>1 DEF IInv, TypeOK
<1>3. TypeOK'
  BY <1>1 DEF IInv, TypeOK, Places, Installing, JobRunning
<1>4. Claims'
  BY <1>1, <1>2 DEF IInv, Claims, Installing
<1>5. EntriesHaveInstallers'
  BY <1>1, <1>2, EntriesFrame DEF IInv, Installing
<1>6. LockHeld'
  BY <1>1, <1>2, InstallAssumption DEF IInv, LockHeld
<1>7. verdict[r] = "none" /\ job[r] = "none"
  BY <1>1 DEF IInv, JobsAwaited
<1>8. \A s \in Request : Abandoned(s) <=> Abandoned(s)'
  BY <1>1, <1>2, <1>7 DEF Abandoned
<1>9. JobsAwaited'
  BY <1>1, <1>2, <1>7, <1>8 DEF IInv, JobsAwaited
<1>10. PlansAreCurrent'
  BY <1>1, <1>2, <1>8 DEF IInv, PlansAreCurrent
<1> QED  BY <1>3, <1>4, <1>5, <1>6, <1>9, <1>10 DEF IInv

(* The install ends for its handler when the job is over, or is abandoned. *)
LEMMA EndInstallStep ==
  ASSUME IInv, NEW r \in Request, JobEnds(r) \/ InstallTimesOut(r)
  PROVE  IInv'
<1>1. PICK outcome \in JobOver \cup {"timed out"} :
         EndInstall(r, outcome) /\ (outcome = "timed out" \/ job[r] \in JobOver)
  BY DEF JobEnds, InstallTimesOut
<1>2. /\ pc[r] = "installing" /\ verdict' = [verdict EXCEPT ![r] = outcome] /\ lock' = NoOne
      /\ pc' = [pc EXCEPT ![r] = "settling"]
      /\ failed' \in {failed, failed \cup {target[r]}}
      /\ errors' \in {{}, errors, errors \cup {target[r]}}
      /\ UNCHANGED <<target, answer, handle, inflight, ended, reports, job, plan, manifest, installed>>
  BY <1>1 DEF JobEnds, InstallTimesOut, EndInstall, Goto, asked, jobVars
<1>3. /\ pc'[r] = "settling" /\ verdict'[r] = outcome
      /\ \A s \in Request : s # r => pc'[s] = pc[s] /\ verdict'[s] = verdict[s]
  BY <1>2 DEF IInv, TypeOK
<1>4. target[r] \in Package /\ verdict[r] = "none" /\ lock = r
  BY <1>2 DEF IInv, Claims, JobsAwaited, LockHeld
<1>5. TypeOK'
  BY <1>2, <1>4 DEF IInv, TypeOK, Places, Installing
<1>6. Claims'
  BY <1>2, <1>3 DEF IInv, Claims, Installing
<1>7. EntriesHaveInstallers'
  BY <1>2, <1>3, EntriesFrame DEF IInv, Installing
<1>8. LockHeld'
  BY <1>2, <1>3, <1>4, InstallAssumption DEF IInv, LockHeld
<1>9. \A s \in Request : Abandoned(s) => Abandoned(s)'
  BY <1>2, <1>3, <1>4 DEF Abandoned
<1>10. JobsAwaited'
  <2> SUFFICES ASSUME NEW s \in Request
               PROVE  /\ pc'[s] \in {"idle", "missing", "locking"} => job[s] = "none"
                      /\ pc'[s] \in {"idle", "missing", "locking", "installing"} => verdict'[s] = "none"
                      /\ job[s] \in JobRunning => pc'[s] = "installing" \/ Abandoned(s)'
    BY <1>2 DEF JobsAwaited
  <2>1. CASE s = r
    <3>1. job[r] \in JobRunning => outcome = "timed out"
      BY <1>1 DEF JobRunning, JobOver
    <3>2. job[r] \in JobRunning => Abandoned(r)'
      BY <1>2, <1>3, <3>1 DEF Abandoned, JobRunning
    <3> QED  BY <1>3, <2>1, <3>2
  <2>2. CASE s # r
    BY <1>2, <1>3, <1>9, <2>2 DEF IInv, JobsAwaited
  <2> QED  BY <2>1, <2>2
<1>11. PlansAreCurrent'
  BY <1>2, <1>9, PlansFrame DEF IInv, jobVars
<1> QED  BY <1>5, <1>6, <1>7, <1>8, <1>10, <1>11 DEF IInv

LEMMA SettleStep ==
  ASSUME IInv, NEW r \in Request, Settle(r)
  PROVE  IInv'
<1>1. /\ pc[r] = "settling" /\ inflight' = [inflight EXCEPT ![target[r]] = NoOne]
      /\ ended' = ended \cup {r}
      /\ UNCHANGED <<target, answer, verdict, handle, lock, failed, errors, reports,
                     job, plan, manifest, installed>>
      /\ pc' \in [Request -> Places]
  BY DEF Settle, asked, errorVars, jobVars, IInv, TypeOK, Places
<1>2. /\ pc'[r] \in {"resolving", "failing"}
      /\ \A s \in Request : s # r =>
           pc'[s] = pc[s] \/ (pc[s] = "waiting" /\ pc'[s] = "resolving")
  BY DEF Settle
<1>3. target[r] \in Package /\ inflight[target[r]] = r
  BY <1>1 DEF IInv, Claims, Installing
<1>4. /\ inflight'[target[r]] = NoOne
      /\ \A p \in Package : p # target[r] => inflight'[p] = inflight[p]
  BY <1>1, <1>3 DEF IInv, TypeOK
<1>5. TypeOK'
  BY <1>1 DEF IInv, TypeOK
<1>6. \A s \in Request : pc'[s] \in Installing => s # r /\ pc[s] = pc'[s]
  BY <1>2 DEF Installing
<1>7. Claims'
  <2> SUFFICES ASSUME NEW s \in Request
               PROVE  /\ pc'[s] # "idle" => target[s] \in Package
                      /\ pc'[s] \in Installing => inflight'[target[s]] = s
                      /\ s \in reports => pc'[s] # "idle"
    BY <1>1 DEF Claims
  <2>1. pc'[s] # "idle" => target[s] \in Package
    BY <1>1, <1>2, <1>3 DEF IInv, Claims
  <2>2. ASSUME pc'[s] \in Installing PROVE inflight'[target[s]] = s
    <3>1. s # r /\ inflight[target[s]] = s /\ target[s] \in Package
      BY <1>6, <2>1, <2>2 DEF IInv, Claims, Installing
    <3> QED  BY <1>3, <1>4, <3>1
  <2>3. s \in reports => pc'[s] # "idle"
    BY <1>2 DEF IInv, Claims
  <2> QED  BY <2>1, <2>2, <2>3
<1>8. EntriesHaveInstallers'
  <2> SUFFICES ASSUME NEW p \in Package, inflight'[p] # NoOne
               PROVE  pc'[inflight'[p]] \in Installing \cup {"gone"} /\ target[inflight'[p]] = p
    BY <1>1 DEF EntriesHaveInstallers
  <2>1. p # target[r] /\ inflight'[p] = inflight[p]
    BY <1>4
  <2>2. inflight[p] \in Request /\ inflight[p] # r /\ target[inflight[p]] = p
        /\ pc[inflight[p]] \in Installing \cup {"gone"}
    BY <2>1 DEF IInv, TypeOK, EntriesHaveInstallers
  <2>3. pc'[inflight[p]] = pc[inflight[p]]
    BY <1>2, <2>2 DEF Installing
  <2> QED  BY <2>1, <2>2, <2>3
<1>9. LockHeld'
  BY <1>1, <1>2 DEF IInv, LockHeld
<1>10. \A s \in Request : Abandoned(s) => Abandoned(s)'
  BY <1>1, <1>2 DEF Abandoned
<1>11. JobsAwaited'
  BY <1>1, <1>2, <1>10 DEF IInv, JobsAwaited
<1>12. PlansAreCurrent'
  BY <1>1, <1>10, PlansFrame DEF IInv, jobVars
<1> QED  BY <1>5, <1>7, <1>8, <1>9, <1>11, <1>12 DEF IInv

(* The steps of a request that follows another's install, and the answer.  *)
LEMMA FollowStep ==
  ASSUME IInv, NEW r \in Request,
         LookUp(r) \/ Subscribe(r) \/ WaitTimesOut(r) \/ Resolve(r)
  PROVE  IInv'
<1>1. /\ \E to \in {"resolving", "subscribing", "waiting", "done"} : Goto(r, to)
      /\ pc[r] \in {"following", "subscribing", "waiting", "resolving", "failing"}
      /\ UNCHANGED <<target, verdict, inflight, ended, lock, failed, errors,
                     job, plan, manifest, installed>>
      /\ answer' \in {answer, [answer EXCEPT ![r] = "served"], [answer EXCEPT ![r] = "missing"]}
      /\ reports' \in {reports, reports \cup {r}}
      /\ handle' \in {handle, [handle EXCEPT ![r] = inflight[target[r]]]}
  BY DEF LookUp, Subscribe, WaitTimesOut, Resolve, Serve, NotFound, asked, mapVars, errorVars, jobVars
<1>2. PICK to \in {"resolving", "subscribing", "waiting", "done"} : Goto(r, to)
  BY <1>1
<1>3. target[r] \in Package
  BY <1>1 DEF IInv, Claims
<1>4. TypeOK'
  <2>1. pc' \in [Request -> Places]
    BY <1>2 DEF IInv, TypeOK, Goto, Places
  <2>2. handle' \in [Request -> Request \cup {NoOne}]
    BY <1>1, <1>3 DEF IInv, TypeOK
  <2>3. answer' \in [Request -> {"none", "served", "missing"}] /\ reports' \subseteq Request
    BY <1>1 DEF IInv, TypeOK
  <2> QED  BY <1>1, <2>1, <2>2, <2>3 DEF IInv, TypeOK
<1>5. /\ Claims' /\ EntriesHaveInstallers' /\ LockHeld' /\ JobsAwaited'
      /\ \A s \in Request : Abandoned(s) => Abandoned(s)'
  BY <1>1, <1>2, MoveStep DEF Places, Installing
<1> QED  BY <1>1, <1>4, <1>5, PlansFrame DEF IInv, jobVars

(* A dropped handler gives up the lock and abandons its job.               *)
LEMMA ClientGoneStep ==
  ASSUME IInv, NEW r \in Request, ClientGone(r)
  PROVE  IInv'
<1>1. /\ pc[r] \in {"locking", "installing", "waiting"} /\ pc' = [pc EXCEPT ![r] = "gone"]
      /\ lock' = (IF lock = r THEN NoOne ELSE lock)
      /\ UNCHANGED <<target, answer, verdict, handle, inflight, ended, failed, errors, reports,
                     job, plan, manifest, installed>>
  BY DEF ClientGone, Goto, asked, errorVars, jobVars
<1>2. pc'[r] = "gone" /\ \A s \in Request : s # r => pc'[s] = pc[s]
  BY <1>1 DEF IInv, TypeOK
<1>3. TypeOK'
  BY <1>1 DEF IInv, TypeOK, Places
<1>4. Claims'
  BY <1>1, <1>2 DEF IInv, Claims, Installing
<1>5. EntriesHaveInstallers'
  BY <1>1, <1>2, EntriesFrame DEF IInv, Installing
<1>6. LockHeld'
  BY <1>1, <1>2, InstallAssumption DEF IInv, LockHeld
<1>7. \A s \in Request : Abandoned(s) => Abandoned(s)'
  BY <1>1, <1>2 DEF Abandoned
<1>8. JobsAwaited'
  BY <1>1, <1>2, <1>7 DEF IInv, JobsAwaited, Abandoned, JobRunning
<1>9. PlansAreCurrent'
  BY <1>1, <1>7, PlansFrame DEF IInv, jobVars
<1> QED  BY <1>3, <1>4, <1>5, <1>6, <1>8, <1>9 DEF IInv

LEMMA ReportStep ==
  ASSUME IInv, WatcherClears \/ \E r \in Request : Report(r)
  PROVE  IInv'
<1>1. /\ UNCHANGED <<pc, target, answer, verdict, handle, inflight, ended, lock,
                     job, plan, manifest, installed>>
      /\ failed' \subseteq failed /\ reports' \subseteq reports
      /\ errors' = errors \/ \E r \in reports : errors' = errors \cup {target[r]}
  BY DEF Report, WatcherClears, asked, mapVars, errorVars, jobVars
<1>2. TypeOK'
  <2>1. \A r \in reports : target[r] \in Package
    BY DEF IInv, TypeOK, Claims
  <2> QED  BY <1>1, <2>1 DEF IInv, TypeOK
<1>3. Claims' /\ LockHeld'
  BY <1>1 DEF IInv, Claims, LockHeld
<1>4. EntriesHaveInstallers'
  BY <1>1 DEF IInv, EntriesHaveInstallers
<1>5. \A s \in Request : Abandoned(s) <=> Abandoned(s)'
  BY <1>1 DEF Abandoned
<1>6. JobsAwaited'
  BY <1>1, <1>5 DEF IInv, JobsAwaited
<1>7. PlansAreCurrent'
  BY <1>1, <1>5, PlansFrame DEF IInv, jobVars
<1> QED  BY <1>2, <1>3, <1>4, <1>6, <1>7 DEF IInv
-----------------------------------------------------------------------------
(* A step of a job that runs.                                              *)

(* A job that goes on, or ends, disturbs no handler and abandons nothing.  *)
LEMMA JobFrame ==
  ASSUME IInv, NEW r \in Request,
         NEW from \in JobRunning, NEW to \in JobRunning \cup JobOver, JobStep(r, from, to)
  PROVE  /\ job'[r] = to /\ \A s \in Request : s # r => job'[s] = job[s]
         /\ job' \in [Request -> {"none"} \cup JobRunning \cup JobOver]
         /\ Claims' /\ EntriesHaveInstallers' /\ LockHeld' /\ JobsAwaited'
         /\ \A s \in Request : Abandoned(s) <=> Abandoned(s)'
<1>1. /\ job[r] = from /\ job' = [job EXCEPT ![r] = to]
      /\ UNCHANGED <<pc, target, verdict, inflight, lock, reports>>
  BY DEF JobStep, asked, mapVars, errorVars
<1>2. /\ job'[r] = to /\ \A s \in Request : s # r => job'[s] = job[s]
      /\ job' \in [Request -> {"none"} \cup JobRunning \cup JobOver]
  BY <1>1 DEF IInv, TypeOK
<1>3. Claims' /\ EntriesHaveInstallers' /\ LockHeld'
  BY <1>1 DEF IInv, Claims, EntriesHaveInstallers, LockHeld
<1>4. job[r] # "none" /\ job'[r] # "none"
  BY <1>1, <1>2 DEF JobRunning, JobOver
<1>5. \A s \in Request : Abandoned(s) <=> Abandoned(s)'
  BY <1>1, <1>2, <1>4 DEF Abandoned
<1>6. JobsAwaited'
  <2> SUFFICES ASSUME NEW s \in Request
               PROVE  /\ pc[s] \in {"idle", "missing", "locking"} => job'[s] = "none"
                      /\ pc[s] \in {"idle", "missing", "locking", "installing"} => verdict[s] = "none"
                      /\ job'[s] \in JobRunning => pc[s] = "installing" \/ Abandoned(s)'
    BY <1>1 DEF JobsAwaited
  <2>1. CASE s = r
    BY <1>1, <1>2, <1>4, <1>5, <2>1 DEF IInv, JobsAwaited
  <2>2. CASE s # r
    BY <1>1, <1>2, <1>5, <2>2 DEF IInv, JobsAwaited
  <2> QED  BY <2>1, <2>2
<1> QED  BY <1>2, <1>3, <1>5, <1>6

(* The lock serialises the jobs that are awaited.                          *)
LEMMA AwaitedJobsExclude ==
  ASSUME IInv, NEW r \in Request, NEW s \in Request, r # s,
         job[r] \in JobRunning, job[s] \in JobRunning
  PROVE  Abandoned(r) \/ Abandoned(s)
BY DEF IInv, JobsAwaited, LockHeld

LEMMA JobStepKeeps ==
  ASSUME IInv, NEW r \in Request, Job(r)
  PROVE  IInv'
<1>1. PICK from \in JobRunning, to \in JobRunning \cup JobOver : JobStep(r, from, to)
  BY DEF Job, JobReads, JobWrites, JobReadsBack, JobLinks, JobFails, JobRunning, JobOver
<1>2. /\ job'[r] = to /\ \A s \in Request : s # r => job'[s] = job[s]
      /\ job' \in [Request -> {"none"} \cup JobRunning \cup JobOver]
      /\ Claims' /\ EntriesHaveInstallers' /\ LockHeld' /\ JobsAwaited'
      /\ \A s \in Request : Abandoned(s) <=> Abandoned(s)'
  BY <1>1, JobFrame
<1>3. job[r] = from /\ target' = target /\ target[r] \in Package
  <2>1. job[r] = from /\ target' = target
    BY <1>1 DEF JobStep, asked
  <2>2. pc[r] # "idle"
    BY <2>1 DEF IInv, JobsAwaited, JobRunning
  <2> QED  BY <2>1, <2>2 DEF IInv, Claims
<1>4. TypeOK'
  <2>1. plan' \in [Request -> SUBSET Package] /\ manifest' \subseteq Package /\ installed' \subseteq Package
    BY <1>3 DEF Job, JobReads, JobWrites, JobReadsBack, JobLinks, JobFails, IInv, TypeOK
  <2> QED  BY <1>1, <1>2, <2>1 DEF JobStep, asked, mapVars, errorVars, IInv, TypeOK
<1>5. ASSUME \A s \in Request : ~ Abandoned(s)
      PROVE  PlansAreCurrent'
  <2>1. \A s \in Request : s # r => job[s] \notin JobRunning /\ job'[s] \notin JobRunning
    BY <1>2, <1>3, <1>5, AwaitedJobsExclude
  <2>2. \A s \in Request : s # r => job'[s] \notin {"resolving", "written", "linking"}
    BY <2>1 DEF JobRunning
  <2>3. \A s \in Request : job[s] = "ok" => target[s] \in manifest \cap installed
    BY <1>5 DEF IInv, PlansAreCurrent
  <2>4. /\ job[r] = "resolving" => plan[r] = manifest
        /\ job[r] = "written" => target[r] \in manifest
        /\ job[r] = "linking" => plan[r] = manifest /\ target[r] \in manifest
    BY <1>5 DEF IInv, PlansAreCurrent
  <2> SUFFICES /\ \A s \in Request : job'[s] = "ok" => target[s] \in manifest' \cap installed'
               /\ job'[r] = "resolving" => plan'[r] = manifest'
               /\ job'[r] = "written" => target[r] \in manifest'
               /\ job'[r] = "linking" => plan'[r] = manifest' /\ target[r] \in manifest'
    BY <1>3, <2>2 DEF PlansAreCurrent
  <2>5. CASE JobReads(r)
    <3>1. job'[r] = "resolving" /\ plan'[r] = manifest /\ UNCHANGED <<manifest, installed>>
      BY <2>5, <1>3 DEF JobReads, JobStep, IInv, TypeOK
    <3> QED  BY <1>2, <2>3, <3>1
  <2>6. CASE JobWrites(r)
    <3>1. /\ job[r] = "resolving" /\ job'[r] = "written" /\ installed' = installed
          /\ manifest' = plan[r] \cup {target[r]}
      BY <2>6, <1>3 DEF JobWrites, JobStep, IInv, TypeOK
    <3> QED  BY <1>2, <2>3, <2>4, <3>1
  <2>7. CASE JobReadsBack(r)
    <3>1. /\ job[r] = "written" /\ job'[r] = "linking" /\ plan'[r] = manifest
          /\ UNCHANGED <<manifest, installed>>
      BY <2>7, <1>3 DEF JobReadsBack, JobStep, IInv, TypeOK
    <3> QED  BY <1>2, <2>3, <2>4, <3>1
  <2>8. CASE JobLinks(r)
    <3>1. /\ job[r] = "linking" /\ job'[r] = "ok" /\ installed' = plan[r]
          /\ manifest' = manifest
      BY <2>8, <1>3 DEF JobLinks, JobStep, IInv, TypeOK
    <3> QED  BY <1>2, <2>3, <2>4, <3>1
  <2>9. CASE JobFails(r)
    <3>1. job'[r] = "failed" /\ UNCHANGED <<manifest, installed>>
      BY <2>9, <1>3 DEF JobFails, JobStep, IInv, TypeOK
    <3> QED  BY <1>2, <2>3, <3>1
  <2> QED  BY <2>5, <2>6, <2>7, <2>8, <2>9 DEF Job
<1>6. PlansAreCurrent'
  BY <1>2, <1>5 DEF PlansAreCurrent
<1> QED  BY <1>2, <1>4, <1>6 DEF IInv
-----------------------------------------------------------------------------
LEMMA NextIInv == IInv /\ [Next]_vars => IInv'
<1> SUFFICES ASSUME IInv, [Next]_vars
             PROVE  IInv'
  OBVIOUS
<1>1. CASE UNCHANGED vars
  <2>1. UNCHANGED <<pc, target, answer, verdict, handle, inflight, ended, lock, failed,
                    errors, reports, job, plan, manifest, installed>>
    BY <1>1 DEF vars, asked, mapVars, errorVars, jobVars
  <2> QED
    BY <2>1 DEF IInv, TypeOK, Claims, EntriesHaveInstallers, LockHeld, JobsAwaited,
                PlansAreCurrent, Abandoned
<1>2. ASSUME NEW r \in Request, Handler(r) PROVE IInv'
  BY <1>2, ClaimStep, TakeLockStep, EndInstallStep, SettleStep, FollowStep DEF Handler
<1> QED
  <2>1. CASE \E r \in Request, p \in Package : Arrive(r, p)
    BY <2>1, ArriveStep
  <2>2. CASE \E r \in Request : Handler(r) \/ ClientGone(r) \/ Job(r)
    BY <2>2, <1>2, ClientGoneStep, JobStepKeeps
  <2>3. CASE WatcherClears \/ \E r \in Request : Report(r)
    BY <2>3, ReportStep
  <2> QED  BY <1>1, <2>1, <2>2, <2>3 DEF Next

THEOREM Inductive == Spec => []IInv
  BY InitIInv, NextIInv, PTL DEF Spec

(* The handlers' data have their types, whatever the interleaving of       *)
(* handlers, jobs, timeouts and disconnections (module_server.rs:439-528). *)
THEOREM TypeCorrect == Spec => []TypeOK
<1>1. IInv => TypeOK
  BY DEF IInv
<1> QED  BY <1>1, Inductive, PTL

(* No two requests install the same package at a time: the in-flight map   *)
(* names one installer for a package, and each installer is named by it.   *)
THEOREM OneInstaller == Spec => []OneInstallerPerPackage
<1>1. IInv => OneInstallerPerPackage
  BY DEF IInv, Claims, OneInstallerPerPackage
<1> QED  BY <1>1, Inductive, PTL

(* Whatever the in-flight map holds can be removed by the request it names,*)
(* or has been left there by a dropped client.                             *)
THEOREM EntriesCorrect == Spec => []EntriesHaveInstallers
<1>1. IInv => EntriesHaveInstallers
  BY DEF IInv
<1> QED  BY <1>1, Inductive, PTL

(* As long as no install is abandoned, by the 30-second timeout or by a    *)
(* client that disconnects, jobs run one at a time and each finished job's *)
(* package is in package.json and in node_modules (module_server.rs:66).   *)
THEOREM InterferenceCorrect == Spec => []InterferenceIsAbandoned
<1>1. IInv => InterferenceIsAbandoned
  <2> SUFFICES ASSUME IInv PROVE InterferenceIsAbandoned
    OBVIOUS
  <2>1. \A r, s \in Request :
          (job[r] \in JobRunning /\ job[s] \in JobRunning /\ r # s) => Abandoned(r) \/ Abandoned(s)
    BY AwaitedJobsExclude
  <2>2. \A r \in Request :
          (job[r] = "ok" /\ target[r] \notin manifest \cap installed)
            => \E s \in Request : Abandoned(s)
    BY DEF IInv, PlansAreCurrent
  <2> QED  BY <2>1, <2>2 DEF InterferenceIsAbandoned
<1> QED  BY <1>1, Inductive, PTL

-----------------------------------------------------------------------------
(* The registry client.  While nobody is between writing an etag and       *)
(* writing its body, the two files of a document agree (Agreement); a      *)
(* request that found them so, and that nobody wrote under since, is       *)
(* answered 304 only if the body on disk is the registry's (Asked), and    *)
(* otherwise with the registry's body (Told).                              *)

LEMMA Paths == \A d \in Document : CachePath(d) \in File /\ EtagPath(d) = CachePath(d)
  BY DEF File, CachePath, EtagPath

(* A running fetch has a document; its attempts are below the bound.  *)
Fetching == \A f \in Fetch : stage[f] \in Active =>
    wanted[f] \in Document /\ attempt[f] < MaxRetries

(* The etag on disk is that of the body on disk, unless the pair is being  *)
(* written; the fetch that writes it has its own etag there.               *)
Agreement == \A file \in File :
    /\ writer[file] = None => etag[file] = None \/ body[file] = etag[file]
    /\ \A f \in Fetch :
          writer[file] = f /\ stage[f] \in {"body", "write"} /\ CachePath(wanted[f]) = file
          => /\ etag[file] = reply[f]
             /\ stage[f] = "write" => body[file] = Empty

(* A request whose files are trusted carries the etag of the body on disk. *)
Asked == \A f \in Fetch :
    /\ stage[f] \in {"sent", "notModified"} =>
          /\ floor[f] <= published[wanted[f].name]
          /\ trusted[f] /\ ifNoneMatch[f] # None
             => body[CachePath(wanted[f])] = ifNoneMatch[f]
    /\ stage[f] = "notModified" =>
          /\ ifNoneMatch[f] \in Text /\ ifNoneMatch[f].doc = wanted[f]
          /\ ifNoneMatch[f].version >= floor[f]
          /\ reply[f] = None

(* A 200 response is the registry's document. *)
Told == \A f \in Fetch : stage[f] \in {"ok", "body", "write"} =>
    reply[f] \in Text /\ reply[f].doc = wanted[f] /\ reply[f].version >= floor[f]

(* What the network or the registry lost is what was tried in vain. *)
Counted == \A f \in Fetch : stage[f] \in Active =>
    lost[f] <= attempt[f] /\ (trusted[f] => lost[f] = attempt[f])

CacheInv == /\ RegistryTypeOK /\ Fetching /\ Agreement /\ Asked /\ Told /\ Counted
        /\ AnswersAreCurrent /\ FailuresHaveACause

USE BoundsAssumption, DistinctAssumption

LEMMA InitCacheInv == RegistryInit => CacheInv
<1> SUFFICES ASSUME RegistryInit PROVE CacheInv
  OBVIOUS
<1>1. RegistryTypeOK
  BY DEF RegistryInit, RegistryTypeOK, Version, Active, Waiting, Running
<1>2. Agreement
  BY DEF RegistryInit, Agreement
<1>3. Fetching /\ Asked /\ Told /\ Counted /\ AnswersAreCurrent /\ FailuresHaveACause
  BY DEF RegistryInit, Fetching, Asked, Told, Counted, AnswersAreCurrent, FailuresHaveACause,
         Active, Waiting, Running
<1> QED
  BY <1>1, <1>2, <1>3 DEF CacheInv

LEMMA StartStep == ASSUME CacheInv, NEW f \in Fetch, NEW d \in Document, Start(f, d) PROVE CacheInv'
<1> USE DEF CacheInv, RegistryTypeOK, Active, Waiting, Running, Start, Leave, files, history
<1>1. RegistryTypeOK'
  BY DEF Version, Text, Name, Unreadable
<1>2. Fetching'
  BY DEF Fetching
<1>3. Agreement'
  BY DEF Agreement
<1>4. Asked'
  BY DEF Asked, Version, Text, Name
<1>5. Told'
  BY DEF Told, Version, Text, Name
<1>6. Counted'
  BY DEF Counted
<1>7. AnswersAreCurrent'
  BY DEF AnswersAreCurrent, Version, Text
<1>8. FailuresHaveACause'
  BY DEF FailuresHaveACause
<1> QED
  BY <1>1, <1>2, <1>3, <1>4, <1>5, <1>6, <1>7, <1>8

LEMMA SendStep == ASSUME CacheInv, NEW f \in Fetch, Send(f) PROVE CacheInv'
<1> USE DEF CacheInv, RegistryTypeOK, Active, Waiting, Running, Send, Leave, files, history
<1>a. /\ wanted[f] \in Document /\ published[wanted[f].name] \in Version
      /\ CachePath(wanted[f]) \in File /\ EtagPath(wanted[f]) = CachePath(wanted[f])
  BY Paths DEF Fetching, Name
<1>b. LET file == CachePath(wanted[f])
      IN  writer[file] = None => etag[file] = None \/ body[file] = etag[file]
  BY <1>a DEF Agreement
<1>1. RegistryTypeOK'
  BY <1>a
<1>2. Fetching'
  BY DEF Fetching
<1>3. Agreement'
  BY DEF Agreement
<1>4. Asked'
  <2> SUFFICES ASSUME NEW g \in Fetch PROVE Asked!(g)'
    BY DEF Asked
  <2>1. CASE g = f
    <3>1. /\ stage'[f] = "sent" /\ wanted' = wanted /\ body' = body /\ published' = published
          /\ floor'[f] = published[wanted[f].name]
          /\ ifNoneMatch'[f] = etag[CachePath(wanted[f])]
          /\ trusted'[f] => writer[CachePath(wanted[f])] = None
      BY <1>a
    <3>2. floor'[f] <= published'[wanted'[f].name]
      BY <3>1, <1>a DEF Version
    <3> QED
      BY <2>1, <3>1, <3>2, <1>b
  <2>2. CASE g # f
    BY <2>2 DEF Asked
  <2> QED
    BY <2>1, <2>2
<1>5. Told'
  BY DEF Told, Version, Text, Name
<1>6. Counted'
  BY DEF Counted
<1>7. AnswersAreCurrent'
  BY DEF AnswersAreCurrent, Version, Text
<1>8. FailuresHaveACause'
  BY DEF FailuresHaveACause
<1> QED
  BY <1>1, <1>2, <1>3, <1>4, <1>5, <1>6, <1>7, <1>8

LEMMA RespondStep == ASSUME CacheInv, NEW f \in Fetch, Respond(f) PROVE CacheInv'
<1> USE DEF CacheInv, RegistryTypeOK, Active, Waiting, Running, Respond, Current, Leave, files, history
<1>a. /\ wanted[f] \in Document /\ published[wanted[f].name] \in Version
      /\ CachePath(wanted[f]) \in File /\ EtagPath(wanted[f]) = CachePath(wanted[f])
  BY Paths DEF Fetching, Name
<1>b. Current(wanted[f]) \in Text
  BY <1>a DEF Text
<1>1. RegistryTypeOK'
  BY <1>a, <1>b
<1>2. Fetching'
  BY DEF Fetching
<1>3. Agreement'
  BY DEF Agreement
<1>4. Asked'
  BY <1>a DEF Asked, Version, Text
<1>5. Told'
  BY <1>a DEF Told, Asked, Version, Text
<1>6. Counted'
  BY DEF Counted
<1>7. AnswersAreCurrent'
  BY DEF AnswersAreCurrent, Version, Text
<1>8. FailuresHaveACause'
  BY DEF FailuresHaveACause
<1> QED
  BY <1>1, <1>2, <1>3, <1>4, <1>5, <1>6, <1>7, <1>8

LEMMA NetworkFailsStep == ASSUME CacheInv, NEW f \in Fetch, NetworkFails(f) PROVE CacheInv'
<1> USE DEF CacheInv, RegistryTypeOK, Active, Waiting, Running, NetworkFails, Lose, Retry, Return, Leave, files, history
<1>a. /\ wanted[f] \in Document /\ published[wanted[f].name] \in Version
      /\ CachePath(wanted[f]) \in File /\ EtagPath(wanted[f]) = CachePath(wanted[f])
  BY Paths DEF Fetching, Name
<1>1. RegistryTypeOK'
  BY <1>a DEF Fetching, Counted
<1>2. Fetching'
  BY DEF Fetching
<1>3. Agreement'
  BY DEF Agreement
<1>4. Asked'
  BY DEF Asked, Version, Text, Name
<1>5. Told'
  BY DEF Told, Version, Text, Name
<1>6. Counted'
  BY DEF Counted
<1>7. AnswersAreCurrent'
  BY DEF AnswersAreCurrent, Version, Text
<1>8. FailuresHaveACause'
  BY <1>a DEF FailuresHaveACause, Fetching, Counted
<1> QED
  BY <1>1, <1>2, <1>3, <1>4, <1>5, <1>6, <1>7, <1>8

LEMMA ReadCachedStep == ASSUME CacheInv, NEW f \in Fetch, ReadCached(f) PROVE CacheInv'
<1> USE DEF CacheInv, RegistryTypeOK, Active, Waiting, Running, ReadCached, Return, Leave, files, history
<1>a. /\ wanted[f] \in Document /\ published[wanted[f].name] \in Version
      /\ CachePath(wanted[f]) \in File /\ EtagPath(wanted[f]) = CachePath(wanted[f])
  BY Paths DEF Fetching, Name
<1>1. RegistryTypeOK'
  BY DEF Version, Text, Name, Unreadable, Readable
<1>2. Fetching'
  BY DEF Fetching
<1>3. Agreement'
  BY DEF Agreement
<1>4. Asked'
  BY DEF Asked, Version, Text, Name
<1>5. Told'
  BY DEF Told, Version, Text, Name
<1>6. Counted'
  BY DEF Counted
<1>7. AnswersAreCurrent'
  BY <1>a DEF AnswersAreCurrent, Asked, Readable
<1>8. FailuresHaveACause'
  BY DEF FailuresHaveACause
<1> QED
  BY <1>1, <1>2, <1>3, <1>4, <1>5, <1>6, <1>7, <1>8

LEMMA CannotReadCachedStep == ASSUME CacheInv, NEW f \in Fetch, CannotReadCached(f) PROVE CacheInv'
<1> USE DEF CacheInv, RegistryTypeOK, Active, Waiting, Running, CannotReadCached, Lose, Retry, Return, Leave, files, history
<1>a. /\ wanted[f] \in Document /\ published[wanted[f].name] \in Version
      /\ CachePath(wanted[f]) \in File /\ EtagPath(wanted[f]) = CachePath(wanted[f])
  BY Paths DEF Fetching, Name
<1>b. /\ lost'[f] <= lost[f] + 1 /\ lost'[f] \in 0 .. MaxRetries
      /\ trusted[f] => lost'[f] = lost[f] + 1
  BY <1>a DEF Asked, Readable, Fetching, Counted
<1>1. RegistryTypeOK'
  BY <1>b DEF Version, Text, Name, Unreadable
<1>2. Fetching'
  BY DEF Fetching
<1>3. Agreement'
  BY DEF Agreement
<1>4. Asked'
  BY DEF Asked, Version, Text, Name
<1>5. Told'
  BY DEF Told, Version, Text, Name
<1>6. Counted'
  BY <1>a, <1>b DEF Counted
<1>7. AnswersAreCurrent'
  BY DEF AnswersAreCurrent, Version, Text
<1>8. FailuresHaveACause'
  BY <1>a, <1>b DEF FailuresHaveACause, Fetching, Counted
<1> QED
  BY <1>1, <1>2, <1>3, <1>4, <1>5, <1>6, <1>7, <1>8

LEMMA SaveEtagStep == ASSUME CacheInv, NEW f \in Fetch, SaveEtag(f) PROVE CacheInv'
<1> USE DEF CacheInv, RegistryTypeOK, Active, Waiting, Running, SaveEtag, Disturb, Leave, files, history
<1>a. /\ wanted[f] \in Document /\ published[wanted[f].name] \in Version
      /\ CachePath(wanted[f]) \in File /\ EtagPath(wanted[f]) = CachePath(wanted[f])
  BY Paths DEF Fetching, Name
<1>1. RegistryTypeOK'
  BY <1>a DEF Told
<1>2. Fetching'
  BY DEF Fetching
<1>3. Agreement'
  BY <1>a DEF Agreement
<1>4. Asked'
  BY DEF Asked, Version, Text, Name
<1>5. Told'
  BY DEF Told, Version, Text, Name
<1>6. Counted'
  BY DEF Counted
<1>7. AnswersAreCurrent'
  BY DEF AnswersAreCurrent, Version, Text
<1>8. FailuresHaveACause'
  BY DEF FailuresHaveACause
<1> QED
  BY <1>1, <1>2, <1>3, <1>4, <1>5, <1>6, <1>7, <1>8

LEMMA TruncateStep == ASSUME CacheInv, NEW f \in Fetch, Truncate(f) PROVE CacheInv'
<1> USE DEF CacheInv, RegistryTypeOK, Active, Waiting, Running, Truncate, Disturb, Leave, files, history
<1>a. /\ wanted[f] \in Document /\ published[wanted[f].name] \in Version
      /\ CachePath(wanted[f]) \in File /\ EtagPath(wanted[f]) = CachePath(wanted[f])
  BY Paths DEF Fetching, Name
<1>1. RegistryTypeOK'
  BY Paths DEF Version, Text, Name, Unreadable
<1>2. Fetching'
  BY Paths DEF Fetching
<1>3. Agreement'
  BY Paths DEF Agreement
<1>4. Asked'
  BY <1>a, Paths DEF Asked, Fetching
<1>5. Told'
  BY Paths DEF Told, Version, Text, Name
<1>6. Counted'
  BY Paths DEF Counted
<1>7. AnswersAreCurrent'
  BY Paths DEF AnswersAreCurrent, Version, Text
<1>8. FailuresHaveACause'
  BY Paths DEF FailuresHaveACause
<1> QED
  BY <1>1, <1>2, <1>3, <1>4, <1>5, <1>6, <1>7, <1>8

LEMMA WriteStep == ASSUME CacheInv, NEW f \in Fetch, Write(f) PROVE CacheInv'
<1> USE DEF CacheInv, RegistryTypeOK, Active, Waiting, Running, Write, Answer, Lose, Retry, Disturb, Return, Leave, files, history
<1>a. /\ wanted[f] \in Document /\ published[wanted[f].name] \in Version
      /\ CachePath(wanted[f]) \in File /\ EtagPath(wanted[f]) = CachePath(wanted[f])
  BY Paths DEF Fetching, Name
<1>b. PICK text : /\ text \in Overwritten(body[CachePath(wanted[f])], reply[f])
                  /\ body' = [body EXCEPT ![CachePath(wanted[f])] = text]
  OBVIOUS
<1>c. /\ text \in {reply[f], None, Garbage}
      /\ body[CachePath(wanted[f])] = Empty => text = reply[f]
  BY <1>b DEF Overwritten, Unreadable
<1>1. RegistryTypeOK'
  BY <1>a, <1>b, <1>c DEF Told, Unreadable, Fetching, Counted
<1>2. Fetching'
  BY DEF Fetching
<1>3. Agreement'
  BY <1>a, <1>b, <1>c DEF Agreement
<1>4. Asked'
  <2> SUFFICES ASSUME NEW g \in Fetch PROVE Asked!(g)'
    BY DEF Asked
  <2>1. CASE g = f
    <3>1. stage'[f] \notin {"sent", "notModified"}
      BY DEF Lose
    <3> QED  BY <2>1, <3>1
  <2>2. CASE g # f
    <3>1. /\ stage'[g] = stage[g] /\ wanted'[g] = wanted[g] /\ ifNoneMatch'[g] = ifNoneMatch[g]
          /\ floor' = floor /\ reply' = reply /\ published' = published
          /\ trusted'[g] => trusted[g] /\ ~(stage[g] \in Active /\ CachePath(wanted[g]) = CachePath(wanted[f]))
      BY <2>2
    <3>2. stage[g] \in Active => CachePath(wanted[g]) \in File
      BY Paths DEF Fetching
    <3> QED  BY <1>b, <3>1, <3>2 DEF Asked
  <2> QED  BY <2>1, <2>2
<1>5. Told'
  BY DEF Told, Version, Text, Name
<1>6. Counted'
  BY <1>a DEF Counted
<1>7. AnswersAreCurrent'
  BY <1>a DEF AnswersAreCurrent, Told
<1>8. FailuresHaveACause'
  BY <1>a DEF FailuresHaveACause, Fetching, Counted
<1> QED
  BY <1>1, <1>2, <1>3, <1>4, <1>5, <1>6, <1>7, <1>8

LEMMA CannotWriteStep == ASSUME CacheInv, NEW f \in Fetch, CannotWrite(f) PROVE CacheInv'
<1> USE DEF CacheInv, RegistryTypeOK, Active, Waiting, Running, CannotWrite, Answer, Lose, Retry, Return, Leave, files, history
<1>a. /\ wanted[f] \in Document /\ published[wanted[f].name] \in Version
      /\ CachePath(wanted[f]) \in File /\ EtagPath(wanted[f]) = CachePath(wanted[f])
  BY Paths DEF Fetching, Name
<1>1. RegistryTypeOK'
  BY <1>a DEF Told, Fetching, Counted
<1>2. Fetching'
  BY DEF Fetching
<1>3. Agreement'
  BY DEF Agreement
<1>4. Asked'
  BY DEF Asked, Version, Text, Name
<1>5. Told'
  BY DEF Told, Version, Text, Name
<1>6. Counted'
  BY <1>a DEF Counted
<1>7. AnswersAreCurrent'
  BY <1>a DEF AnswersAreCurrent, Told
<1>8. FailuresHaveACause'
  BY <1>a DEF FailuresHaveACause, Fetching, Counted
<1> QED
  BY <1>1, <1>2, <1>3, <1>4, <1>5, <1>6, <1>7, <1>8

LEMMA DieStep == ASSUME CacheInv, NEW f \in Fetch, Die(f) PROVE CacheInv'
<1> USE DEF CacheInv, RegistryTypeOK, Active, Waiting, Running, Die, Return, Leave, files, history
<1>1. RegistryTypeOK'
  BY DEF Version, Text, Name, Unreadable
<1>2. Fetching'
  BY DEF Fetching
<1>3. Agreement'
  BY DEF Agreement
<1>4. Asked'
  BY DEF Asked, Version, Text, Name
<1>5. Told'
  BY DEF Told, Version, Text, Name
<1>6. Counted'
  BY DEF Counted
<1>7. AnswersAreCurrent'
  BY DEF AnswersAreCurrent, Version, Text
<1>8. FailuresHaveACause'
  BY DEF FailuresHaveACause
<1> QED
  BY <1>1, <1>2, <1>3, <1>4, <1>5, <1>6, <1>7, <1>8

LEMMA PublishStep == ASSUME CacheInv, NEW n \in Name, Publish(n) PROVE CacheInv'
<1> USE DEF CacheInv, RegistryTypeOK, Active, Waiting, Running, Publish, files, history
<1>1. RegistryTypeOK'
  BY DEF Version, Text, Name, Unreadable
<1>2. Fetching'
  BY DEF Fetching
<1>3. Agreement'
  BY DEF Agreement
<1>4. Asked'
  BY DEF Asked, Version, Text, Name
<1>5. Told'
  BY DEF Told, Version, Text, Name
<1>6. Counted'
  BY DEF Counted
<1>7. AnswersAreCurrent'
  BY DEF AnswersAreCurrent, Version, Text
<1>8. FailuresHaveACause'
  BY DEF FailuresHaveACause
<1> QED
  BY <1>1, <1>2, <1>3, <1>4, <1>5, <1>6, <1>7, <1>8

LEMMA CacheCleanStep == ASSUME CacheInv, CacheClean PROVE CacheInv'
<1> USE DEF CacheInv, RegistryTypeOK, Active, Waiting, Running, CacheClean, files, history
<1>1. RegistryTypeOK'
  BY DEF Version, Text, Name, Unreadable
<1>2. Fetching'
  BY DEF Fetching
<1>3. Agreement'
  BY DEF Agreement
<1>4. Asked'
  BY DEF Asked, Version, Text, Name
<1>5. Told'
  BY DEF Told, Version, Text, Name
<1>6. Counted'
  BY DEF Counted
<1>7. AnswersAreCurrent'
  BY DEF AnswersAreCurrent, Version, Text
<1>8. FailuresHaveACause'
  BY DEF FailuresHaveACause
<1> QED
  BY <1>1, <1>2, <1>3, <1>4, <1>5, <1>6, <1>7, <1>8

LEMMA RemoveFileStep == ASSUME CacheInv, RemoveFile PROVE CacheInv'
<1> USE DEF CacheInv, RegistryTypeOK, Active, Waiting, Running, RemoveFile, Disturb, Saving, files, history
<1>a. PICK entry \in cleaning : RemoveFile!(entry)
  OBVIOUS
<1> DEFINE file == entry[2]
<1>b. file \in File /\ (body' = body \/ body' = [body EXCEPT ![file] = None])
  BY <1>a
<1>1. RegistryTypeOK'
  BY Paths DEF Version, Text, Name, Unreadable
<1>2. Fetching'
  BY Paths DEF Fetching
<1>3. Agreement'
  BY Paths DEF Agreement
<1>4. Asked'
  <2> SUFFICES ASSUME NEW g \in Fetch PROVE Asked!(g)'
    BY DEF Asked
  <2>1. trusted'[g] => trusted[g] /\ ~(stage[g] \in Active /\ CachePath(wanted[g]) = file)
    BY <1>a
  <2>2. stage[g] \in Active => CachePath(wanted[g]) \in File
    BY Paths DEF Fetching
  <2> QED
    BY <1>a, <1>b, <2>1, <2>2 DEF Asked
<1>5. Told'
  BY Paths DEF Told, Version, Text, Name
<1>6. Counted'
  BY Paths DEF Counted
<1>7. AnswersAreCurrent'
  BY Paths DEF AnswersAreCurrent, Version, Text
<1>8. FailuresHaveACause'
  BY Paths DEF FailuresHaveACause
<1> QED
  BY <1>1, <1>2, <1>3, <1>4, <1>5, <1>6, <1>7, <1>8

LEMMA StutterStep == ASSUME CacheInv, UNCHANGED registryVars PROVE CacheInv'
  BY DEF registryVars, files, history, CacheInv, RegistryTypeOK, Fetching, Agreement, Asked, Told, Counted,
         AnswersAreCurrent, FailuresHaveACause, Saving

LEMMA CacheStep == CacheInv /\ [RegistryNext]_registryVars => CacheInv'
<1> SUFFICES ASSUME CacheInv, RegistryNext PROVE CacheInv'
  BY StutterStep
<1>1. CASE \E f \in Fetch : \/ \E d \in Document : Start(f, d)
                            \/ FetchStep(f)
                            \/ Die(f)
  BY <1>1, StartStep, SendStep, RespondStep, NetworkFailsStep, ReadCachedStep,
     CannotReadCachedStep, SaveEtagStep, TruncateStep, WriteStep, CannotWriteStep,
     DieStep DEF FetchStep
<1>2. CASE \E n \in Updated : Publish(n)
  BY <1>2, PublishStep DEF Name
<1>3. CASE CacheClean
  BY <1>3, CacheCleanStep
<1>4. CASE RemoveFile
  BY <1>4, RemoveFileStep
<1> QED
  BY <1>1, <1>2, <1>3, <1>4 DEF RegistryNext

LEMMA CacheInductive == RegistrySpec => []CacheInv
  BY InitCacheInv, CacheStep, PTL DEF RegistrySpec

(* Every variable of the registry client keeps its type. *)
THEOREM RegistryTypeCorrect == RegistrySpec => []RegistryTypeOK
<1>1. CacheInv => RegistryTypeOK
  BY DEF CacheInv
<1> QED
  BY <1>1, CacheInductive, PTL

(* fetch_metadata and its siblings return the document that was asked for, *)
(* no older than the registry's when it was asked, unless a 304 was        *)
(* answered from files that others wrote meanwhile or had left unmatched.  *)
THEOREM AnswersCurrent == RegistrySpec => []AnswersAreCurrent
<1>1. CacheInv => AnswersAreCurrent
  BY DEF CacheInv
<1> QED
  BY <1>1, CacheInductive, PTL

(* With the same exception, a fetch fails only after MAX_RETRIES attempts  *)
(* that the network failed or the registry, with a text the client cannot  *)
(* read (registry.rs:186, 238, 291): the cache by itself never does.       *)
THEOREM FailuresCaused == RegistrySpec => []FailuresHaveACause
<1>1. CacheInv => FailuresHaveACause
  BY DEF CacheInv
<1> QED
  BY <1>1, CacheInductive, PTL
===============================================================================
