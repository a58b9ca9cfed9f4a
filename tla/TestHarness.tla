------------------------------ MODULE TestHarness ------------------------------
(***************************************************************************)
(* The test harness that runs inside a test file's isolate (the script in  *)
(* test/globals.rs): which tests of a file run, and the calls runSuite     *)
(* makes for them, in their order.  TestRunner makes the calls.            *)
(*                                                                         *)
(* A file is the root of its suites and holds the hooks declared outside   *)
(* any of them; it has no tests of its own, a top-level it() is wrapped in *)
(* a suite without a name.                                                 *)
(***************************************************************************)
EXTENDS Naturals, Sequences, SequencesExt, FiniteSets

CONSTANTS
    File, Suite, Test,
    suites,    \* suites[x]: the suites declared in x, a file or a suite
    tests,     \* tests[s]: the tests declared in s
    hooks,     \* hooks[x]: the kinds of hooks declared in x
    Matching   \* the tests whose full name contains the filter

Node     == File \cup Suite
Item     == Suite \cup Test
HookKind == {"beforeAll", "beforeEach", "afterEach", "afterAll"}
Modifier == {"none", "skip", "only", "todo"}

(* The item is in one of the lists, and there once. *)
Once(declared, item) ==
    \E x \in DOMAIN declared : \E n \in DOMAIN declared[x] :
        \A y \in DOMAIN declared : \A m \in DOMAIN declared[y] :
            declared[y][m] = item <=> y = x /\ m = n

Parent(s)  == CHOOSE x \in Node : s \in ToSet(suites[x])
SuiteOf(t) == CHOOSE s \in Suite : t \in ToSet(tests[s])

(* The suites of a file are a tree: describe() is called in one place, and *)
(* of the suites it is called for some are outermost and some innermost.   *)
ASSUME TreeAssumption ==
    /\ File \cap Suite = {} /\ Node \cap Test = {}
    /\ suites \in [Node -> Seq(Suite)] /\ tests \in [Suite -> Seq(Test)]
    /\ \A s \in Suite : Once(suites, s)
    /\ \A t \in Test : Once(tests, t)
    /\ \A S \in SUBSET Suite : S # {} =>
           \E s, t \in S : Parent(s) \notin S /\ ToSet(suites[t]) \cap S = {}
    /\ hooks \in [Node -> SUBSET HookKind]
    /\ Matching \subseteq Test

(* A node and the nodes around it, the file first. *)
Path[x \in Node] == IF x \in File THEN <<x>> ELSE Append(Path[Parent(x)], x)

PathOf(item)  == Path[IF item \in Test THEN SuiteOf(item) ELSE item]
FileOf(item)  == Head(PathOf(item))
TestsOf(f)    == {t \in Test : FileOf(t) = f}
Within(s)     == {i \in Item : s \in ToSet(PathOf(i))}

-----------------------------------------------------------------------------
(* Which tests run; mod is the modifier of every suite and test. *)

HasOnly(mod, f) == \E i \in Item : FileOf(i) = f /\ mod[i] = "only"

ContainsOnly(mod, s) == \E i \in Within(s) : mod[i] = "only"

ShouldRun(mod, s, parentOnly) ==
    /\ mod[s] # "skip"
    /\ HasOnly(mod, FileOf(s)) => mod[s] = "only" \/ parentOnly \/ ContainsOnly(mod, s)

(* Mutant: a suite marked only is told to its own tests, not to the suites in it. *)
MutParentOnly(mod) == [s \in Suite |-> FALSE]

(* The flag a suite is called with: is it inside a suite marked only, with *)
(* every suite in between run?                                             *)
ParentOnly(mod) ==
    LET flag[s \in Suite] ==
            LET p == Parent(s) IN
            p \in Suite /\ ShouldRun(mod, p, flag[p]) /\ (flag[p] \/ mod[p] = "only")
    IN  flag

SuiteRunnable(mod, s) == ShouldRun(mod, s, ParentOnly(mod)[s])

TestRunnable(mod, t) ==
    LET s == SuiteOf(t) IN
    /\ mod[t] # "todo" /\ t \in Matching /\ mod[t] # "skip"
    /\ SuiteRunnable(mod, s)
    /\ HasOnly(mod, FileOf(t)) =>
           mod[t] = "only" \/ mod[s] = "only" \/ ParentOnly(mod)[s]

-----------------------------------------------------------------------------
(* The calls: of a hook of a node, on behalf of a test or of the node, or  *)
(* of a test's function; and where a test's result is pushed.              *)

Report == {"report", "skip", "todo"}
Call   == [kind : HookKind \cup {"fn"} \cup Report, of : Node \cup Test, test : Test \cup Node]

Hook(kind, x, for) ==
    IF kind \in hooks[x] THEN <<[kind |-> kind, of |-> x, test |-> for]>> ELSE <<>>

RunHooks(kind, path, for) == FlattenSeq([n \in DOMAIN path |-> Hook(kind, path[n], for)])

OfTest(kind, t) == <<[kind |-> kind, of |-> t, test |-> t]>>

RunTest(mod, t) ==
    LET path == PathOf(t) IN
    CASE mod[t] = "todo"       -> OfTest("todo", t)
      [] mod[t] # "todo" /\ ~TestRunnable(mod, t) -> OfTest("skip", t)
      [] TestRunnable(mod, t)  -> RunHooks("beforeEach", path, t) \o OfTest("fn", t)
                  \o RunHooks("afterEach", Reverse(path), t) \o OfTest("report", t)

RunAllHooks(mod, kind, s) ==
    IF SuiteRunnable(mod, s) THEN RunHooks(kind, <<s>>, s) ELSE <<>>

(* Mutant: the afterAll hooks run before the suites in it. *)
MutRunSuite(mod) ==
    LET run[s \in Suite] ==
            RunAllHooks(mod, "beforeAll", s)
            \o FlattenSeq([n \in DOMAIN tests[s] |-> RunTest(mod, tests[s][n])])
            \o RunAllHooks(mod, "afterAll", s)
            \o FlattenSeq([n \in DOMAIN suites[s] |-> run[suites[s][n]]])
    IN  run

(* runSuite: its tests and then the suites in it. *)
RunSuite(mod) ==
    LET run[s \in Suite] ==
            RunAllHooks(mod, "beforeAll", s)
            \o FlattenSeq([n \in DOMAIN tests[s] |-> RunTest(mod, tests[s][n])])
            \o FlattenSeq([n \in DOMAIN suites[s] |-> run[suites[s][n]]])
            \o RunAllHooks(mod, "afterAll", s)
    IN  run

(* __vertz_run_tests *)
RunTests(mod, f) ==
    RunHooks("beforeAll", <<f>>, f)
    \o FlattenSeq([n \in DOMAIN suites[f] |-> RunSuite(mod)[suites[f][n]]])
    \o RunHooks("afterAll", <<f>>, f)
-----------------------------------------------------------------------------
(* What the runner relies on in the calls of a file. *)

(* What the modifiers ask for, as in the test frameworks this API is taken *)
(* from: a test runs unless it, or a suite it is in, is skipped, and when  *)
(* anything in the file is marked only, if it or a suite it is in is.      *)
Asked(mod, t) ==
    LET around == {t} \cup (ToSet(PathOf(t)) \cap Suite) IN
    /\ t \in Matching
    /\ \A x \in around : mod[x] \notin {"skip", "todo"}
    /\ HasOnly(mod, FileOf(t)) => \E x \in around : mod[x] = "only"

(* Suites around the suite a test is declared in. *)
Outer(t) == (ToSet(PathOf(t)) \cap Suite) \ {SuiteOf(t)}

InTest  == {"beforeEach", "fn", "afterEach"}
Reports(P) == {n \in DOMAIN P : P[n].kind \in Report}
Before(P, n, kind, of, test) ==
    \E k \in 1 .. n - 1 : P[k] = [kind |-> kind, of |-> of, test |-> test]

(* The calls of a test stand together, its function after the beforeEach   *)
(* hooks and its report at their end.                                      *)
OneTest(P, k, n) ==
    /\ P[n].kind = "report"
    /\ \A j \in k .. n - 1 : P[j].kind \in InTest /\ P[j].test = P[n].test
    /\ P[k].kind = "beforeEach" => \E j \in k .. n - 1 : P[j].kind = "fn"

TestsStandTogether(P) ==
    \A k \in DOMAIN P : P[k].kind \in InTest => \E n \in k + 1 .. Len(P) : OneTest(P, k, n)

(* Each test of the file is reported once, and as skipped if the modifiers *)
(* leave it out; but skipping a suite does not skip the suites in it, so   *)
(* of those nothing is said.                                               *)
OneReportEach(mod, f, P) ==
    /\ {P[n].test : n \in Reports(P)} = TestsOf(f)
    /\ \A m, n \in Reports(P) : P[m].test = P[n].test => m = n
    /\ \A n \in Reports(P) : LET t == P[n].test IN
           /\ P[n].kind = "todo" <=> mod[t] = "todo"
           /\ (\A x \in Outer(t) : mod[x] # "skip") =>
                  (P[n].kind = "skip" <=> mod[t] # "todo" /\ ~Asked(mod, t))

(* Before a test that runs is reported its function was called, and every  *)
(* hook around it; but for the beforeAll hooks of suites that are skipped. *)
HooksComeFirst(mod, P) ==
    \A n \in DOMAIN P : P[n].kind = "report" => LET t == P[n].test IN
        /\ Before(P, n, "fn", t, t)
        /\ \A x \in ToSet(PathOf(t)) :
               /\ \A kind \in {"beforeEach", "afterEach"} \cap hooks[x] : Before(P, n, kind, x, t)
               /\ "beforeAll" \in hooks[x] /\ (x \in File \/ mod[x] # "skip") =>
                      Before(P, n, "beforeAll", x, x)

(* A node's afterAll hooks are called when nothing in it will run any      *)
(* more, and they are if its beforeAll hooks were.                         *)
CleanupFollows(P) ==
    /\ \A k \in DOMAIN P : P[k].kind = "afterAll" =>
           \A n \in k + 1 .. Len(P) : P[n].kind = "fn" => P[k].of \notin ToSet(PathOf(P[n].of))
    /\ \A x \in Node :
           Before(P, Len(P) + 1, "beforeAll", x, x) /\ "afterAll" \in hooks[x] =>
               Before(P, Len(P) + 1, "afterAll", x, x)

Orderly(mod, f, P) ==
    /\ P \in Seq(Call)
    /\ TestsStandTogether(P) /\ OneReportEach(mod, f, P)
    /\ HooksComeFirst(mod, P) /\ CleanupFollows(P)
=============================================================================
