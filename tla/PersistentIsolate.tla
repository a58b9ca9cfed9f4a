------------------------- MODULE PersistentIsolate -------------------------
(***************************************************************************)
(* The V8 isolate that serves API requests and server-side renders         *)
(* (runtime/persistent_isolate.rs), and its replacement by a new one after *)
(* every batch of changed files (the watch loop of server/http.rs).  HTTP  *)
(* handlers send requests over a bounded channel to the isolate's thread,  *)
(* which runs them one after the other in one JavaScript context: answers  *)
(* travel through globals of that context.                                 *)
(*                                                                         *)
(* After starting a handler the thread runs the event loop until nothing   *)
(* is pending in the WHOLE context, or until a timeout.  Work a timed-out  *)
(* request left behind stays pending and goes on whenever the loop runs.   *)
(*                                                                         *)
(* A new isolate is swapped in before it has loaded its modules.  On the   *)
(* way it writes, imports and removes a file that all isolates share.      *)
(***************************************************************************)
EXTENDS Integers, Sequences

CONSTANTS Api,              \* API requests
          Render,           \* page renders, for browsers, LLMs and MCP clients
          NoOne,
          Behaviour,        \* what the application's code for each request may do
          MaxRestarts,      \* a bound
          ChannelCapacity   \* 256 in the code

Request == Api \cup Render
Isolate == 1..(MaxRestarts + 1)

ASSUME RequestsAssumption == Api \cap Render = {} /\ NoOne \notin Request
ASSUME BehaviourAssumption == Behaviour \in [Request -> SUBSET {"answers", "awaits", "never", "spins"}]
ASSUME BoundsAssumption == MaxRestarts \in Nat /\ ChannelCapacity \in Nat \ {0}

VARIABLES newest,       \* the isolate in DevServerState.api_isolate
          initFile,     \* __vertz_ssr_init.mjs
          disturbed,    \* isolates that have met another at that file
          iso,          \* the isolates' threads
          caller,       \* progress of each request's HTTP handler
          using,        \* the isolate it has taken
          result        \* what the HTTP handler got

fileVars == <<initFile, disturbed>>
callerVars == <<caller, using, result>>
vars == <<newest, fileVars, iso, callerVars>>

-----------------------------------------------------------------------------
Loading == {"starting", "app", "create", "write", "import", "remove", "server"}

\* A thread: how far it has come, how it renders, its channel, what it does,
\* the request it is dispatching, whose JavaScript awaits an operation, and whose
\* answers __vertz_last_response and __vertz_last_ssr_result hold.
Fresh == [phase |-> "none", renderer |-> "legacy", hasApi |-> FALSE, queue |-> <<>>,
          engine |-> "idle", current |-> NoOne, pending |-> {},
          lastResponse |-> NoOne, lastSsr |-> NoOne]

Pending == [kind |-> "none", of |-> NoOne]
Answer(q) == [kind |-> "answer", of |-> q]
\* The kinds of outcome that carry no answer.
Outcome(kind) == [kind |-> kind, of |-> NoOne]
Failures == {"unavailable", "timed out", "handler timed out", "loop error", "no response",
             "no rendering"}

\* Mutant: an answer is taken even by a caller that has given up.
MutReply(r, outcome) ==
  /\ result' = [result EXCEPT ![r] = outcome]
  /\ caller' = [caller EXCEPT ![r] = "done"]

\* response_tx.send: nothing happens when the caller has given up.
Reply(r, outcome) ==
  IF caller[r] = "waiting"
  THEN /\ result' = [result EXCEPT ![r] = outcome]
       /\ caller' = [caller EXCEPT ![r] = "done"]
  ELSE UNCHANGED <<result, caller>>

\* The thread has dispatched the current request and takes the next message.
Idle(t) == [t EXCEPT !.engine = "idle", !.current = NoOne]

-----------------------------------------------------------------------------
(* The HTTP handlers. *)

\* The API, page, AI and MCP handlers take the newest isolate and ask
\* is_initialized first.
Arrive(r) ==
  /\ caller[r] = "idle"
  /\ using' = [using EXCEPT ![r] = newest]
  /\ IF iso[newest].phase = "ready"
     THEN caller' = [caller EXCEPT ![r] = "sending"] /\ UNCHANGED result
     ELSE /\ caller' = [caller EXCEPT ![r] = "done"]
          /\ result' = [result EXCEPT ![r] = Outcome("unavailable")]
  /\ UNCHANGED <<newest, fileVars, iso>>

\* message_tx.send().await gets its slot; no timeout covers the wait for it.
Enqueue(r) ==
  /\ caller[r] = "sending"
  /\ Len(iso[using[r]].queue) < ChannelCapacity
  /\ iso' = [iso EXCEPT ![using[r]].queue = Append(@, r)]
  /\ caller' = [caller EXCEPT ![r] = "waiting"]
  /\ UNCHANGED <<newest, fileVars, using, result>>

\* REQUEST_TIMEOUT, 30 s after the request was accepted.
GiveUp(r) ==
  /\ caller[r] = "waiting"
  /\ caller' = [caller EXCEPT ![r] = "done"]
  /\ result' = [result EXCEPT ![r] = Outcome("timed out")]
  /\ UNCHANGED <<newest, fileVars, iso, using>>

-----------------------------------------------------------------------------
(* The watch loop: a new isolate takes the place of the newest.  Handlers  *)
(* keep the one they have, whose channel closes when the last lets it go.  *)
Restart ==
  /\ newest <= MaxRestarts
  /\ newest' = newest + 1
  /\ iso' = [iso EXCEPT ![newest + 1].phase = "starting"]
  /\ UNCHANGED <<fileVars, callerVars>>

-----------------------------------------------------------------------------
(* A thread before its first message: isolate_event_loop.  Loading a module *)
(* runs the event loop until it is empty, with no timeout: a module with    *)
(* an interval is never loaded ("stuck").                                   *)

Goes(i, phase) == iso' = [iso EXCEPT ![i].phase = phase]

\* The runtime, the async context polyfill and the DOM shim.
Start(i) ==
  /\ iso[i].phase = "starting"
  /\ Goes(i, "app") \/ Goes(i, "dead")
  /\ UNCHANGED <<newest, fileVars, callerVars>>

\* The SSR entry may be missing or fail; a path that is no URL ends the loading.
LoadApp(i) ==
  /\ iso[i].phase = "app"
  /\ \/ Goes(i, "server")
     \/ iso' = [iso EXCEPT ![i].phase = "ready", ![i].renderer = "none"]
     \/ Goes(i, "create")
     \/ Goes(i, "stuck")
  /\ UNCHANGED <<newest, fileVars, callerVars>>

\* Others that are between creating the file and removing it.
Others(i) == {j \in Isolate \ {i} : iso[j].phase \in {"write", "import", "remove"}}

\* std::fs::write creates the file, or truncates the one another isolate wrote.
CreateInitFile(i) ==
  /\ iso[i].phase = "create"
  /\ \/ initFile' = "empty" /\ Goes(i, "write")
     \/ UNCHANGED initFile /\ Goes(i, "server")
  /\ disturbed' = disturbed \cup IF Others(i) = {} THEN {} ELSE Others(i) \cup {i}
  /\ UNCHANGED <<newest, callerVars>>

\* What is written to a file that was removed in between goes nowhere, even if
\* another isolate has created it anew.
WriteInitFile(i) ==
  /\ iso[i].phase = "write"
  /\ initFile' \in IF i \notin disturbed THEN {"full"}
                   ELSE IF initFile = "absent" THEN {"absent"} ELSE {initFile, "full"}
  /\ Goes(i, "import")
  /\ UNCHANGED <<newest, disturbed, callerVars>>

\* Mutant: the import goes before the file is written.
MutImportInitFile(i) ==
  /\ iso[i].phase \in {"write", "import"}
  /\ iso' = [iso EXCEPT ![i].phase = "remove",
                        ![i].renderer = IF initFile = "full" THEN "framework" ELSE "legacy"]
  /\ UNCHANGED <<newest, fileVars, callerVars>>

\* An empty module sets no __vertz_ssr_render_fn and a missing one does not load.
\* (@vertz/ui-server is taken to be installed.)
ImportInitFile(i) ==
  /\ iso[i].phase = "import"
  /\ iso' = [iso EXCEPT ![i].phase = "remove",
                        ![i].renderer = IF initFile = "full" THEN "framework" ELSE "legacy"]
  /\ UNCHANGED <<newest, fileVars, callerVars>>

RemoveInitFile(i) ==
  /\ iso[i].phase = "remove"
  /\ initFile' = "absent"
  /\ disturbed' = disturbed \ {i}
  /\ Goes(i, "server")
  /\ UNCHANGED <<newest, callerVars>>

\* The server entry may not be configured, fail or have no handler.
LoadServer(i) ==
  /\ iso[i].phase = "server"
  /\ \/ Goes(i, "ready")
     \/ iso' = [iso EXCEPT ![i].phase = "ready", ![i].hasApi = TRUE]
     \/ Goes(i, "stuck")
  /\ UNCHANGED <<newest, fileVars, callerVars>>

Initialize(i) ==
  \/ Start(i) \/ LoadApp(i) \/ LoadServer(i)
  \/ CreateInitFile(i) \/ WriteInitFile(i) \/ ImportInitFile(i) \/ RemoveInitFile(i)

-----------------------------------------------------------------------------
(* A thread that is ready: process_messages. *)

\* What the first turn of a request's code leaves behind, and the answer it has
\* given: an answer, an awaited operation, a promise nothing will ever settle,
\* or an endless loop.
FirstTurn(t, r) ==
  LET began == [t EXCEPT !.queue = Tail(@), !.current = r, !.engine = "running"]
      After(behaviour) ==
        CASE behaviour = "awaits" -> [began EXCEPT !.pending = @ \cup {r}]
          [] behaviour = "spins"  -> [began EXCEPT !.engine = "spinning"]
          [] OTHER                -> began
  IN  {[thread |-> After(b), answer |-> IF b = "answers" THEN r ELSE NoOne] : b \in Behaviour[r]}

\* API_DISPATCH_JS deletes __vertz_last_response, then the handler runs; without
\* one the answer is an error at once.
DispatchApi(i, r) ==
  /\ r \in Api
  /\ \/ /\ iso[i].hasApi
        /\ \E turn \in FirstTurn(iso[i], r) :
             iso' = [iso EXCEPT ![i] = [turn.thread EXCEPT !.lastResponse = turn.answer]]
     \/ /\ ~iso[i].hasApi
        /\ iso' = [iso EXCEPT ![i].queue = Tail(@), ![i].current = r, ![i].engine = "running",
                              ![i].lastResponse = r]
  /\ UNCHANGED <<caller, result>>

\* Mutant: the result of the render before is not deleted.
MutDispatchFramework(i, r) ==
  /\ r \in Render /\ iso[i].renderer = "framework"
  /\ \E turn \in FirstTurn(iso[i], r) :
       iso' = [iso EXCEPT ![i] = [turn.thread EXCEPT !.lastSsr = IF turn.answer = r THEN r ELSE @]]
  /\ UNCHANGED <<caller, result>>

\* SSR_RESET_JS deletes __vertz_last_ssr_result, then the framework renders.
DispatchFramework(i, r) ==
  /\ r \in Render /\ iso[i].renderer = "framework"
  /\ \E turn \in FirstTurn(iso[i], r) :
       iso' = [iso EXCEPT ![i] = [turn.thread EXCEPT !.lastSsr = turn.answer]]
  /\ UNCHANGED <<caller, result>>

\* The legacy render reads the document at once: no event loop runs.
DispatchLegacy(i, r) ==
  /\ r \in Render /\ iso[i].renderer = "legacy"
  /\ \/ /\ iso' = [iso EXCEPT ![i].queue = Tail(@), ![i].lastSsr = NoOne]
        /\ Reply(r, Answer(r))
     \/ /\ "spins" \in Behaviour[r]
        /\ iso' = [iso EXCEPT ![i].queue = Tail(@), ![i].lastSsr = NoOne,
                              ![i].current = r, ![i].engine = "spinning"]
        /\ UNCHANGED <<caller, result>>

\* API-only mode: ssr_enabled is false.
RefuseRender(i, r) ==
  /\ r \in Render /\ iso[i].renderer = "none"
  /\ iso' = [iso EXCEPT ![i].queue = Tail(@)]
  /\ Reply(r, Outcome("no rendering"))

\* The next message, whether or not its caller still waits.
Dispatch(i) ==
  /\ iso[i].phase = "ready" /\ iso[i].engine = "idle" /\ iso[i].queue # <<>>
  /\ LET r == Head(iso[i].queue)
     IN  DispatchApi(i, r) \/ DispatchFramework(i, r) \/ DispatchLegacy(i, r) \/ RefuseRender(i, r)
  /\ UNCHANGED <<newest, fileVars, using>>

\* The rest of a script writes its answer to the global of its kind.
Resumed(t, q) ==
  [t EXCEPT !.pending = @ \ {q},
            !.lastResponse = IF q \in Api THEN q ELSE @,
            !.lastSsr = IF q \in Render THEN q ELSE @]

\* An awaited operation completes while the loop runs, for whatever request;
\* what follows may be an endless loop.
Settle(i) ==
  /\ iso[i].engine = "running"
  /\ \E q \in iso[i].pending :
       \/ iso' = [iso EXCEPT ![i] = Resumed(@, q)]
       \/ /\ "spins" \in Behaviour[q]
          /\ iso' = [iso EXCEPT ![i].pending = @ \ {q}, ![i].engine = "spinning"]
  /\ UNCHANGED <<newest, fileVars, callerVars>>

Without(t, q) == [t EXCEPT !.pending = @ \ {q}]

\* A render that rejects is not caught by its script: the event loop fails and
\* with it the dispatch under way, whichever request that is for.
Reject(i) ==
  /\ iso[i].engine = "running"
  /\ \E q \in iso[i].pending \ Api : iso' = [iso EXCEPT ![i] = Idle(Without(@, q))]
  /\ Reply(iso[i].current, Outcome("loop error"))
  /\ UNCHANGED <<newest, fileVars, using>>

\* The loop has nothing left to do and the answer is read from the global.
CollectAnswer(i) ==
  /\ iso[i].engine = "running" /\ iso[i].pending = {}
  /\ LET r     == iso[i].current
         owner == IF r \in Api THEN iso[i].lastResponse ELSE iso[i].lastSsr
     IN  Reply(r, IF owner = NoOne THEN Outcome("no response") ELSE Answer(owner))
  /\ iso' = [iso EXCEPT ![i] = Idle(@)]
  /\ UNCHANGED <<newest, fileVars, using>>

\* Mutant: the caller is told, but the thread goes back into the loop.
MutLoopTimesOut(i) ==
  /\ iso[i].engine = "running" /\ iso[i].pending # {}
  /\ Reply(iso[i].current, Outcome("handler timed out"))
  /\ UNCHANGED <<newest, fileVars, iso, using>>

\* EVENT_LOOP_TIMEOUT, 25 s: what is pending stays pending.
LoopTimesOut(i) ==
  /\ iso[i].engine = "running" /\ iso[i].pending # {}
  /\ Reply(iso[i].current, Outcome("handler timed out"))
  /\ iso' = [iso EXCEPT ![i] = Idle(@)]
  /\ UNCHANGED <<newest, fileVars, using>>

\* Nobody holds the isolate any more and its channel is empty: recv is None.
ShutDown(i) ==
  /\ iso[i].phase = "ready" /\ iso[i].engine = "idle" /\ iso[i].queue = <<>>
  /\ i # newest /\ \A r \in Request : using[r] = i => caller[r] \in {"idle", "done"}
  /\ iso' = [iso EXCEPT ![i] = [Fresh EXCEPT !.phase = "ended"]]
  /\ UNCHANGED <<newest, fileVars, callerVars>>

-----------------------------------------------------------------------------
Init ==
  /\ newest = 1
  /\ initFile = "absent" /\ disturbed = {}
  /\ iso = [i \in Isolate |-> IF i = 1 THEN [Fresh EXCEPT !.phase = "starting"] ELSE Fresh]
  /\ caller = [r \in Request |-> "idle"]
  /\ using = [r \in Request |-> newest]
  /\ result = [r \in Request |-> Pending]

Handler(r) == Enqueue(r) \/ GiveUp(r)

Thread(i) == Initialize(i) \/ Dispatch(i) \/ CollectAnswer(i) \/ LoopTimesOut(i) \/ ShutDown(i)

Next ==
  \/ \E r \in Request : Arrive(r) \/ Handler(r)
  \/ \E i \in Isolate : Thread(i) \/ Settle(i) \/ Reject(i)
  \/ Restart

Spec == Init /\ [][Next]_vars

\* Handlers and threads are scheduled and their timeouts expire; an operation
\* that is awaited may never complete.
Fairness ==
  /\ \A r \in Request : WF_vars(Handler(r))
  /\ \A i \in Isolate : WF_vars(Thread(i))

FairSpec == Spec /\ Fairness

-----------------------------------------------------------------------------
(* Properties. *)

ThreadState ==
  [phase    : Loading \cup {"none", "ready", "ended", "dead", "stuck"},
   renderer : {"framework", "legacy", "none"},
   hasApi   : BOOLEAN,
   queue    : Seq(Request),
   engine   : {"idle", "running", "spinning"},
   current  : Request \cup {NoOne},
   pending  : SUBSET Request,
   lastResponse : Api \cup {NoOne},
   lastSsr      : Render \cup {NoOne}]

\* Type invariant: among others, each global only ever holds answers of its kind.
TypeOK ==
  /\ newest \in Isolate /\ initFile \in {"absent", "empty", "full"} /\ disturbed \subseteq Isolate
  /\ iso \in [Isolate -> ThreadState]
  /\ \A i \in Isolate : Len(iso[i].queue) <= ChannelCapacity
  /\ caller \in [Request -> {"idle", "sending", "waiting", "done"}]
  /\ using \in [Request -> Isolate]
  /\ result \in [Request -> {Pending} \cup {Answer(q) : q \in Request} \cup {Outcome(k) : k \in Failures}]

\* The isolate has given r up, and may yet go on with what it left behind.
GivenUp(r) == result[r] \in {Outcome("timed out"), Outcome("handler timed out"), Outcome("loop error")}

\* A request is answered with its own answer, or with that of a request which
\* the same isolate has given up before: without timeouts and loop errors no
\* two requests are ever mixed up, whatever the handlers and restarts do.
ForeignAnswersWereAbandoned ==
  \A r, q \in Request :
    result[r] = Answer(q) /\ q # r => using[q] = using[r] /\ GivenUp(q)

\* The isolates serve requests (RequestService): across swaps, timeouts and
\* handlers that go away, each is concluded once, by the isolate it was sent to,
\* and with its own answer or one that this isolate has given up on.
Status(r) ==
  CASE caller[r] = "idle"                -> "idle"
    [] caller[r] \in {"sending", "waiting"} -> "open"
    [] caller[r] = "done"                ->
         IF GivenUp(r) THEN "abandoned" ELSE IF result[r].kind = "answer" THEN "answered" ELSE "failed"

Service == INSTANCE RequestService
             WITH Server <- Isolate, status <- [r \in Request |-> Status(r)],
                  server <- using, answer <- [r \in Request |-> result[r].of]

ImplementsService == Service!ServiceSpec

\* An isolate that imported its init file renders with the framework, unless
\* another isolate used the same file at the same time.
FrameworkUnlessDisturbed ==
  \A i \in Isolate :
    iso[i].phase = "remove" /\ iso[i].renderer # "framework" => i \in disturbed

\* Unless JavaScript hogs its thread, every HTTP handler returns, also those of
\* an isolate that was replaced under them, and a replaced isolate ends once
\* they have, if it was ever ready.
WorkEnds ==
  /\ \A r \in Request :
       caller[r] \in {"sending", "waiting"} ~> (caller[r] = "done" \/ iso[using[r]].engine = "spinning")
  /\ \A i \in 1..MaxRestarts :
       i < newest ~> (iso[i].phase \in {"ended", "dead", "stuck"} \/ iso[i].engine = "spinning")
=============================================================================
