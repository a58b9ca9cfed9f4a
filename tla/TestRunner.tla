------------------------------ MODULE TestRunner ------------------------------
(***************************************************************************)
(* vtz test (test/runner.rs, test/executor.rs): threads take test files    *)
(* from a channel, run each in an isolate of its own and send the results  *)
(* to the thread that started them.  Every call the harness makes in a     *)
(* file (TestHarness) may throw, and the file may wait for something that  *)
(* never comes, spin, or take its thread down with it.                     *)
(***************************************************************************)
EXTENDS TestHarness

CONSTANTS
    Discovered,    \* the files, in the order of the work channel
    Worker,        \* min(concurrency, number of files)
    Bail,          \* --bail
    HasTimeout,    \* timeout_ms > 0
    HasTypeTests,  \* there are .test-d.ts files and no paths were given
    Markable,      \* bound: the suites and tests that may carry a modifier
    MaxModifiers,  \* bound: and how many of them do
    Flaky,         \* bound: the tests whose function may throw uncounted
    MaxUpsets,     \* bound: how many calls throw or hang, files fail, threads panic
    None

ASSUME RunnerAssumption ==
    /\ Discovered \in Seq(File) /\ ToSet(Discovered) = File /\ Len(Discovered) = Cardinality(File)
    /\ Worker # {} /\ IsFiniteSet(Worker) /\ IsFiniteSet(File) /\ IsFiniteSet(Test)
    /\ {Bail, HasTimeout, HasTypeTests} \subseteq BOOLEAN
    /\ Markable \subseteq Item /\ MaxModifiers \in Nat /\ Flaky \subseteq Test /\ MaxUpsets \in Nat
    /\ None \notin File \cup Test

VARIABLES
    modifier,   \* the modifiers in the files
    program,    \* the calls that makes the harness of each file make; neither changes
    queue,      \* the work channel
    pc,         \* what a worker does next
    file,       \* the file a worker has
    next,       \* which call its harness makes next
    threw,      \* the test that is running has failed
    statuses,   \* the results the harness has collected, in order
    ok,         \* history: the calls of the file that returned
    waits,      \* what the file waits for: "nothing", "event", "silence" or "spin"
    bail,       \* bail_flag
    results,    \* what was sent and what run_tests adds to it
    main,       \* the thread that collects the results
    types,      \* what the type tests came to
    silent,     \* history: the workers in whose file something falsy was thrown
    lost,       \* history: the files whose worker panicked
    upsets      \* how many things went wrong

input == <<modifier, program>>
exec == <<file, next, threw, statuses, ok, waits>>
vars == <<input, queue, pc, exec, bail, results, main, types, silent, lost, upsets>>

(* A file's result: the statuses of its tests, or a file_error. *)
Status == [test : Test, status : {"pass", "fail", "skip", "todo"}]
Failed(r) == ~r.error /\ \E n \in DOMAIN r.tests : r.tests[n].status = "fail"

Success == types # "fail" /\ \A r \in results : ~Failed(r) /\ ~r.error

TypeOK ==
    /\ modifier \in [Item -> Modifier]
    /\ program \in [File -> Seq(Call)]
    /\ queue \in Seq(File)
    /\ pc \in [Worker -> {"recv", "check", "load", "run", "send", "error", "gone"}]
    /\ file \in [Worker -> File \cup {None}]
    /\ next \in [Worker -> Nat \ {0}]
    /\ threw \in [Worker -> BOOLEAN]
    /\ statuses \in [Worker -> Seq(Status)]
    /\ ok \in [Worker -> SUBSET Call]
    /\ waits \in [Worker -> {"nothing", "event", "silence", "spin"}]
    /\ bail \in BOOLEAN
    /\ \A r \in results : r.file \in File /\ r.error \in BOOLEAN /\ r.tests \in Seq(Status)
    /\ main \in {"collect", "types", "done"} /\ types \in {"pass", "fail", "unchecked"}
    /\ silent \subseteq Worker /\ lost \subseteq File
    /\ upsets \in 0 .. MaxUpsets

Init ==
    /\ \E marked \in SUBSET Markable :
           /\ Cardinality(marked) <= MaxModifiers
           /\ modifier \in {m \in [Item -> Modifier] :
                  \A i \in Item : /\ m[i] = "none" <=> i \notin marked
                                  /\ m[i] = "todo" => i \in Test}
    /\ program = [f \in File |-> RunTests(modifier, f)]
    /\ queue = Discovered
    /\ pc = [w \in Worker |-> "recv"]
    /\ file = [w \in Worker |-> None] /\ next = [w \in Worker |-> 1]
    /\ threw = [w \in Worker |-> FALSE] /\ statuses = [w \in Worker |-> <<>>]
    /\ ok = [w \in Worker |-> {}] /\ waits = [w \in Worker |-> "nothing"]
    /\ bail = FALSE /\ results = {} /\ main = "collect" /\ types = "pass"
    /\ silent = {} /\ lost = {} /\ upsets = 0

-----------------------------------------------------------------------------
(* A worker. *)

Become(w, step) == pc' = [pc EXCEPT ![w] = step]

Upset == upsets < MaxUpsets /\ upsets' = upsets + 1

(* The closed channel is empty when every file was taken. *)
Take(w) ==
    /\ pc[w] = "recv"
    /\ IF queue = <<>>
       THEN Become(w, "gone") /\ UNCHANGED <<queue, file>>
       ELSE /\ Become(w, "check")
            /\ queue' = Tail(queue)
            /\ file' = [file EXCEPT ![w] = Head(queue)]
    /\ UNCHANGED <<input, next, threw, statuses, ok, waits, bail, results, main, types, silent, lost, upsets>>

CheckBail(w) ==
    /\ pc[w] = "check"
    /\ IF Bail /\ bail
       THEN Become(w, "gone") /\ file' = [file EXCEPT ![w] = None]
       ELSE Become(w, "load") /\ UNCHANGED file
    /\ UNCHANGED <<input, queue, next, threw, statuses, ok, waits, bail, results, main, types, silent, lost, upsets>>

(* The module is loaded and __vertz_run_tests is called. *)
Load(w) ==
    /\ pc[w] = "load" /\ waits[w] = "nothing"
    /\ Become(w, "run")
    /\ UNCHANGED <<input, queue, file, next, threw, statuses, ok, waits, bail, results, main, types, silent, lost, upsets>>

Calls(w) == program[file[w]]
Busy(w)  == pc[w] = "run" /\ waits[w] = "nothing" /\ next[w] <= Len(Calls(w))
Kind(w)  == Calls(w)[next[w]].kind

(* The next call returns. *)
Return(w) ==
    /\ Busy(w) /\ Kind(w) \notin Report
    /\ next' = [next EXCEPT ![w] = @ + 1]
    /\ ok' = [ok EXCEPT ![w] = @ \cup {Calls(w)[next[w]]}]
    /\ UNCHANGED <<input, queue, pc, file, threw, statuses, waits, bail, results, main, types, silent, lost, upsets>>

(* The first call of one of these kinds from the next one on. *)
First(w, kinds) ==
    CHOOSE n \in next[w] .. Len(Calls(w)) :
        /\ Calls(w)[n].kind \in kinds
        /\ \A k \in next[w] .. n - 1 : Calls(w)[k].kind \notin kinds

(* The call a test goes on with when this one throws: the rest of the      *)
(* hooks of its kind is left out, and after a beforeEach hook the test is, *)
(* too, unless the error looks like none.                                  *)
Skip(w, error) ==
    CASE Kind(w) = "beforeEach" -> First(w, IF error THEN {"afterEach", "report"} ELSE {"fn"})
      [] Kind(w) = "fn"         -> next[w] + 1
      [] Kind(w) = "afterEach"  -> First(w, {"report"})

(* Mutant: what an afterEach hook throws is forgotten when the test passed. *)
MutThrow(w) ==
    /\ Busy(w) /\ Kind(w) \in {"beforeEach", "fn", "afterEach"}
    /\ Upset
    /\ threw' = [threw EXCEPT ![w] = @ \/ Kind(w) # "afterEach"]
    /\ next' = [next EXCEPT ![w] = Skip(w, TRUE)]
    /\ UNCHANGED <<input, queue, pc, file, statuses, ok, waits, bail, results, main, types, silent, lost>>

(* A call of a test throws. *)
Throw(w) ==
    /\ Busy(w) /\ Kind(w) \in {"beforeEach", "fn", "afterEach"}
    /\ IF Kind(w) = "fn" /\ Calls(w)[next[w]].of \in Flaky THEN UNCHANGED upsets ELSE Upset
    /\ threw' = [threw EXCEPT ![w] = TRUE]
    /\ next' = [next EXCEPT ![w] = Skip(w, TRUE)]
    /\ UNCHANGED <<input, queue, pc, file, statuses, ok, waits, bail, results, main, types, silent, lost>>

(* A call throws undefined, or rejects with it: if (error) does not see it. *)
ThrowFalsy(w) ==
    /\ Busy(w) /\ Kind(w) \in {"beforeEach", "fn", "afterEach"}
    /\ Upset
    /\ silent' = silent \cup {w}
    /\ next' = [next EXCEPT ![w] = Skip(w, threw[w])]
    /\ UNCHANGED <<input, queue, pc, file, threw, statuses, ok, waits, bail, results, main, types, lost>>

Outcome(w) == IF Kind(w) # "report" THEN Kind(w) ELSE IF threw[w] THEN "fail" ELSE "pass"

PushResult(w) ==
    /\ Busy(w) /\ Kind(w) \in Report
    /\ statuses' = [statuses EXCEPT ![w] = Append(@, [test |-> Calls(w)[next[w]].test, status |-> Outcome(w)])]
    /\ threw' = [threw EXCEPT ![w] = FALSE]
    /\ next' = [next EXCEPT ![w] = @ + 1]
    /\ UNCHANGED <<input, queue, pc, file, ok, waits, bail, results, main, types, silent, lost, upsets>>

(* The file waits: for an event that may come one day (a timer, a socket), *)
(* for nothing the runtime knows of, or without giving up the thread.  It  *)
(* may do so loading, in a call, or with a handle left open at the end.    *)
Wait(w) ==
    /\ pc[w] \in {"load", "run"} /\ waits[w] = "nothing"
    /\ Upset
    /\ \E what \in {"event", "silence", "spin"} : waits' = [waits EXCEPT ![w] = what]
    /\ (pc[w] = "run" /\ next[w] > Len(Calls(w))) => waits'[w] = "event"
    /\ UNCHANGED <<input, queue, pc, file, next, threw, statuses, ok, bail, results, main, types, silent, lost>>

(* The file has its result: statuses, or a file_error. *)
Finish(w, outcome) ==
    /\ Become(w, outcome)
    /\ statuses' = [statuses EXCEPT ![w] = IF outcome = "error" THEN <<>> ELSE @]
    /\ waits' = [waits EXCEPT ![w] = "nothing"]
    /\ next' = [next EXCEPT ![w] = 1]
    /\ threw' = [threw EXCEPT ![w] = FALSE]
    /\ UNCHANGED <<input, queue, file, ok, bail, results, main, types, silent, lost>>

(* The event loop has nothing left to do and the promise was resolved. *)
Collect(w) ==
    /\ pc[w] = "run" /\ waits[w] = "nothing" /\ next[w] > Len(Calls(w))
    /\ Finish(w, "send")
    /\ UNCHANGED upsets

(* The event loop ends with __test_results undefined. *)
CollectNothing(w) ==
    /\ waits[w] = "silence"
    /\ Finish(w, "error")
    /\ UNCHANGED upsets

(* The event comes after all. *)
Arrive(w) ==
    /\ waits[w] = "event"
    /\ waits' = [waits EXCEPT ![w] = "nothing"]
    /\ UNCHANGED <<input, queue, pc, file, next, threw, statuses, ok, bail, results, main, types, silent, lost, upsets>>

(* Mutant: the timeout covers the calls and not what they leave open. *)
MutTimeOut(w) ==
    /\ HasTimeout
    /\ pc[w] = "run" /\ waits[w] = "event" /\ next[w] <= Len(Calls(w))
    /\ Finish(w, "error")
    /\ UNCHANGED upsets

(* tokio's timeout covers the event loop of the tests, not the load, and   *)
(* never fires while JavaScript has the thread.                            *)
TimeOut(w) ==
    /\ HasTimeout
    /\ pc[w] = "run" /\ waits[w] = "event"
    /\ Finish(w, "error")
    /\ UNCHANGED upsets

(* The file does not load, a beforeAll or afterAll hook throws, or a       *)
(* promise nobody waits for is rejected.                                   *)
FileError(w) ==
    /\ pc[w] \in {"load", "run"} /\ waits[w] = "nothing"
    /\ Upset
    /\ Finish(w, "error")

(* A panic unwinds the worker, whose join handle's error is ignored.  A    *)
(* single worker is the thread that called run_tests, which panics, too.   *)
Panic(w) ==
    /\ pc[w] \in {"load", "run"} /\ waits[w] = "nothing"
    /\ Cardinality(Worker) > 1
    /\ Upset
    /\ Become(w, "gone")
    /\ lost' = lost \cup {file[w]}
    /\ file' = [file EXCEPT ![w] = None]
    /\ next' = [next EXCEPT ![w] = 1]
    /\ threw' = [threw EXCEPT ![w] = FALSE]
    /\ statuses' = [statuses EXCEPT ![w] = <<>>]
    /\ ok' = [ok EXCEPT ![w] = {}]
    /\ silent' = silent \ {w}
    /\ UNCHANGED <<input, queue, waits, bail, results, main, types>>

Result(w) == [file |-> file[w], error |-> pc[w] = "error", tests |-> statuses[w]]

(* Mutant: the worker that finds a failure stops before it has sent it. *)
MutSend(w) ==
    /\ pc[w] \in {"send", "error"}
    /\ bail' = (bail \/ (Bail /\ Failed(Result(w))))
    /\ results' = IF Bail /\ Failed(Result(w)) THEN results ELSE results \cup {Result(w)}
    /\ Become(w, IF Bail /\ Failed(Result(w)) THEN "gone" ELSE "recv")
    /\ file' = [file EXCEPT ![w] = None]
    /\ statuses' = [statuses EXCEPT ![w] = <<>>]
    /\ ok' = [ok EXCEPT ![w] = {}]
    /\ silent' = silent \ {w}
    /\ UNCHANGED <<input, queue, next, threw, waits, main, types, lost, upsets>>

(* The flag is stored and then the result sent, which the others see in    *)
(* that order: nobody reads both before the workers are joined.            *)
Send(w) ==
    /\ pc[w] \in {"send", "error"}
    /\ bail' = (bail \/ (Bail /\ Failed(Result(w))))
    /\ results' = results \cup {Result(w)}
    /\ Become(w, "recv")
    /\ file' = [file EXCEPT ![w] = None]
    /\ statuses' = [statuses EXCEPT ![w] = <<>>]
    /\ ok' = [ok EXCEPT ![w] = {}]
    /\ silent' = silent \ {w}
    /\ UNCHANGED <<input, queue, next, threw, waits, main, types, lost, upsets>>

-----------------------------------------------------------------------------
(* run_tests. *)

(* result_rx.iter() ends when every sender is dropped. *)
Join ==
    /\ main = "collect"
    /\ \A w \in Worker : pc[w] = "gone"
    /\ main' = IF HasTypeTests THEN "types" ELSE "done"
    /\ UNCHANGED <<input, queue, pc, exec, bail, results, types, silent, lost, upsets>>

(* The type tests run whatever became of the files, with --bail or not.    *)
(* Their files pass when the checker printed nothing about them, also when *)
(* it could not do its work: its exit status is not looked at.             *)
RunTypeTests ==
    /\ main = "types"
    /\ main' = "done"
    /\ types' \in {"pass", "fail", "unchecked"}
    /\ UNCHANGED <<input, queue, pc, exec, bail, results, silent, lost, upsets>>

Next ==
    \/ \E w \in Worker :
           \/ Take(w) \/ CheckBail(w) \/ Load(w) \/ Send(w)
           \/ Return(w) \/ Throw(w) \/ ThrowFalsy(w) \/ PushResult(w)
           \/ Wait(w) \/ Arrive(w) \/ TimeOut(w)
           \/ Collect(w) \/ CollectNothing(w) \/ FileError(w) \/ Panic(w)
    \/ Join \/ RunTypeTests

(* Threads go on while they can, and a timeout that is due fires. *)
Fairness ==
    /\ \A w \in Worker :
           WF_vars(\/ Take(w) \/ CheckBail(w) \/ Load(w) \/ Send(w) \/ Return(w)
                   \/ PushResult(w) \/ Collect(w) \/ CollectNothing(w) \/ TimeOut(w))
    /\ WF_vars(Join) /\ WF_vars(RunTypeTests)

Spec == Init /\ [][Next]_vars /\ Fairness

-----------------------------------------------------------------------------
(* Properties. *)

(* Whatever the modifiers and however the suites are nested, the calls of  *)
(* every file are in order (TestHarness).  They do not change, and so they *)
(* are looked at before the first file is taken.                           *)
InOrder == DOMAIN program = File /\ \A f \in File : Orderly(modifier, f, program[f])

ProgramsAreOrderly == queue = Discovered => InOrder

Wanted(t) == Asked(modifier, t)

Verdict(r, t) == {r.tests[n].status : n \in {n \in DOMAIN r.tests : r.tests[n].test = t}}

(* A result without file_error has exactly one status for every test of    *)
(* its file, and "skip" for exactly those the modifiers leave out; but     *)
(* skipping a suite does not skip the suites in it, so of those nothing is *)
(* said (test/globals.rs runSuite).                                        *)
EveryTestIsReported ==
    \A r \in results : ~r.error =>
        /\ Len(r.tests) = Cardinality(TestsOf(r.file))
        /\ \A t \in TestsOf(r.file) :
               /\ Cardinality(Verdict(r, t)) = 1
               /\ (\A x \in Outer(t) : modifier[x] # "skip") =>
                      (Verdict(r, t) = {"skip"} <=> modifier[t] # "todo" /\ ~Wanted(t))

(* A test passed only if its function and every hook around it returned:   *)
(* all beforeEach and afterEach hooks from the file down to its suite, and *)
(* the beforeAll hooks of the suites that are not skipped.  Not so when    *)
(* something falsy was thrown, which the harness takes for success.        *)
Returned(w, kind, of, test) ==
    kind \in hooks[of] => [kind |-> kind, of |-> of, test |-> test] \in ok[w]

PassIsEarned ==
    \A w \in Worker \ silent : \A n \in DOMAIN statuses[w] :
        LET t == statuses[w][n].test IN
        statuses[w][n].status = "pass" =>
            /\ [kind |-> "fn", of |-> t, test |-> t] \in ok[w]
            /\ \A x \in ToSet(PathOf(t)) :
                   /\ Returned(w, "beforeEach", x, t) /\ Returned(w, "afterEach", x, t)
                   /\ (x \in File \/ modifier[x] # "skip") => Returned(w, "beforeAll", x, x)

(* A suite's afterAll hook is called when nothing in it will run any more, *)
(* and a result without file_error is sent when all of them were called.   *)
CleanupComesLast ==
    \A w \in Worker : \A x \in Node :
        LET after == [kind |-> "afterAll", of |-> x, test |-> x] IN
        /\ pc[w] = "run" /\ after \in ok[w] =>
               \A n \in next[w] .. Len(Calls(w)) :
                   Calls(w)[n].kind = "fn" => x \notin ToSet(PathOf(Calls(w)[n].of))
        /\ pc[w] = "send" /\ [after EXCEPT !.kind = "beforeAll"] \in ok[w] => Returned(w, "afterAll", x, x)

(* A run that calls itself successful ran every test that was asked for,   *)
(* except in files whose worker panicked and, when all workers did, in     *)
(* those nobody was left to take (TestRunResult::success).                 *)
SuccessIsEarned ==
    main = "done" /\ Success =>
        \A f \in File :
            \/ f \in lost
            \/ f \in ToSet(queue) /\ Cardinality(lost) = Cardinality(Worker)
            \/ \E r \in results : r.file = f /\ \A t \in TestsOf(f) :
                    Wanted(t) => Verdict(r, t) = {"pass"}

(* The run ends, unless a file spins, waits for ever while it loads, or    *)
(* waits for ever in a test and there is no timeout.                       *)
BeyondTimeout(w) ==
    \/ waits[w] = "spin"
    \/ waits[w] = "event" /\ (pc[w] = "load" \/ ~HasTimeout)

RunEnds == <>(main = "done" \/ \E w \in Worker : BeyondTimeout(w))
=============================================================================
