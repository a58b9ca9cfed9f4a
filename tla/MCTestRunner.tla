---- MODULE MCTestRunner ----
(* Three files and two workers.  The first has a suite within a suite, a   *)
(* test in each and hooks at all levels; the others have one test each.     *)
EXTENDS TestRunner

CONSTANTS a, b, c, outer, inner, second, third, t1, t2, t3, t4

MCsuites ==
    [x \in {a, b, c, outer, inner, second, third} |->
        CASE x = a -> <<outer>> [] x = outer -> <<inner>> [] x = b -> <<second>>
          [] x = c -> <<third>> [] OTHER -> <<>>]
MCtests ==
    [s \in {outer, inner, second, third} |->
        CASE s = outer -> <<t1>> [] s = inner -> <<t2>> [] s = second -> <<t3>> [] OTHER -> <<t4>>]
MChooks ==
    [x \in {a, b, c, outer, inner, second, third} |->
        CASE x = a -> {"afterEach"} [] x = outer -> {"beforeAll", "beforeEach", "afterAll"}
          [] x = inner -> {"afterEach"} [] OTHER -> {}]
MCDiscovered == <<a, b, c>>
====
