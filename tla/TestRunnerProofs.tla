------------------------- MODULE TestRunnerProofs -------------------------
(***************************************************************************)
(* That the harness makes the calls of a file in order, for any tree of    *)
(* suites and any modifiers, and what the runner makes of them, for any    *)
(* number of files and workers and however calls throw, hang and panic.    *)
(*                                                                         *)
(* Path, the flags and the calls of a suite are recursive functions on the *)
(* tree.  That they have their equations follows from Recursion; what they *)
(* return is proved for a counterexample with none further out, or none    *)
(* further in.                                                             *)
(***************************************************************************)
EXTENDS TestRunner, SequenceTheorems, FiniteSetTheorems, TLAPS

-----------------------------------------------------------------------------
(* Recursive definitions. *)

(* A set of numbers has a least one.                                       *)
LEMMA Least ==
    ASSUME NEW S \in SUBSET Nat, S # {}
    PROVE  \E n \in S : \A m \in S : n <= m
<1>1. IsWellFoundedOn(OpToRel(<, Nat), Nat)
    BY NatLessThanWellFounded
<1>2. PICK n \in S : \A m \in S : ~(<<m, n>> \in OpToRel(<, Nat))
    BY <1>1, WFMin
<1>3. ASSUME NEW m \in S PROVE n <= m
    <2>1. m \in Nat /\ n \in Nat
        OBVIOUS
    <2>2. m < n => <<m, n>> \in OpToRel(<, Nat)
        BY <2>1 DEF OpToRel
    <2>3. ~(m < n)
        BY <1>2, <2>2, Zenon
    <2> QED  BY <2>1, <2>3
<1> QED  BY <1>3

(* Going down from an element of S to one below it ends. *)
Ends(S, below) ==
    /\ below \in [S -> SUBSET S]
    /\ \A T \in SUBSET S : T # {} => \E s \in T : below[s] \cap T = {}

(* H makes a value of s from s and the values of what is below it. *)
Makes(H, S, below, V) == \A s \in S : \A g \in [below[s] -> V] : H[<<s, g>>] \in V

Recursive(f, H, S, below, V) ==
    f \in [S -> V] /\ \A s \in S : f[s] = H[<<s, [c \in below[s] |-> f[c]]>>]

(* A recursive definition on S has a value: the functions on parts of S    *)
(* that fulfil it agree, and what they agree on is all of S.               *)
LEMMA Recursion ==
    ASSUME NEW S, NEW V, NEW below, NEW H, Ends(S, below), Makes(H, S, below, V)
    PROVE  \E f : Recursive(f, H, S, below, V)
<1> USE DEF Ends, Makes
<1> DEFINE Part(D, f) == /\ D \in SUBSET S /\ f \in [D -> V]
                         /\ \A s \in D : below[s] \subseteq D /\ f[s] = H[<<s, [c \in below[s] |-> f[c]]>>]
           Parts == {D \in SUBSET S : \E f \in [D -> V] : Part(D, f)}
           All == UNION Parts
<1>1. ASSUME NEW D, NEW E, NEW f, NEW g, Part(D, f), Part(E, g)
      PROVE  \A s \in D \cap E : f[s] = g[s]
    <2> DEFINE T == {s \in D \cap E : f[s] # g[s]}
    <2>1. SUFFICES ASSUME T # {} PROVE FALSE
        OBVIOUS
    <2>2. PICK s \in T : below[s] \cap T = {}
        BY <1>1, <2>1
    <2>3. \A c \in below[s] : c \in D \cap E /\ f[c] = g[c]
        BY <1>1, <2>2
    <2>4. [c \in below[s] |-> f[c]] = [c \in below[s] |-> g[c]]
        BY <2>3
    <2> QED  BY <1>1, <2>2, <2>4
<1> DEFINE val == [s \in All |-> CHOOSE v \in V : \E D \in Parts : \E f \in [D -> V] : s \in D /\ Part(D, f) /\ v = f[s]]
<1>2. ASSUME NEW D, NEW f, Part(D, f), NEW s \in D PROVE s \in All /\ val[s] = f[s]
    <2>1. D \in Parts /\ f \in [D -> V] /\ f[s] \in V
        BY <1>2
    <2>2. s \in All
        BY <2>1
    <2>3. \E v \in V : \E E \in Parts : \E g \in [E -> V] : s \in E /\ Part(E, g) /\ v = g[s]
        BY <1>2, <2>1
    <2>4. \E E \in Parts : \E g \in [E -> V] : s \in E /\ Part(E, g) /\ val[s] = g[s]
        BY <2>2, <2>3
    <2>5. PICK E \in Parts : \E g \in [E -> V] : s \in E /\ Part(E, g) /\ val[s] = g[s]
        BY <2>4
    <2>6. PICK g \in [E -> V] : s \in E /\ Part(E, g) /\ val[s] = g[s]
        BY <2>5
    <2>7. f[s] = g[s]
        BY <1>1, <1>2, <2>6
    <2> QED  BY <2>2, <2>6, <2>7
<1>3. Part(All, val)
    <2>1. ASSUME NEW s \in All
          PROVE  val[s] \in V /\ below[s] \subseteq All /\ val[s] = H[<<s, [c \in below[s] |-> val[c]]>>]
        <3>1. PICK D \in Parts : s \in D
            OBVIOUS
        <3>2. PICK f \in [D -> V] : Part(D, f)
            BY <3>1
        <3>3. val[s] = f[s] /\ \A c \in below[s] : c \in D /\ c \in All /\ val[c] = f[c]
            <4>1. below[s] \subseteq D
                BY <3>1, <3>2
            <4> HIDE DEF All, val, Part, Parts
            <4> QED  BY <1>2, <3>1, <3>2, <4>1
        <3>4. [c \in below[s] |-> f[c]] = [c \in below[s] |-> val[c]]
            BY <3>3
        <3>5. f[s] \in V /\ f[s] = H[<<s, [c \in below[s] |-> f[c]]>>]
            BY <3>1, <3>2
        <3> HIDE DEF All, val, Part, Parts
        <3> QED  BY <3>3, <3>4, <3>5
    <2>2. All \in SUBSET S
        OBVIOUS
    <2>3. val \in [All -> V]
        BY <2>1
    <2> HIDE DEF All, val
    <2> QED  BY <2>1, <2>2, <2>3
<1>4. All = S
    <2>1. SUFFICES ASSUME S \ All # {} PROVE FALSE
        OBVIOUS
    <2>2. PICK s \in S \ All : below[s] \cap (S \ All) = {}
        BY <2>1
    <2>3. below[s] \subseteq All
        BY <2>2
    <2> HIDE DEF All, val, Parts
    <2> DEFINE D == All \cup {s}
               v == H[<<s, [c \in below[s] |-> val[c]]>>]
               f == [d \in D |-> IF d = s THEN v ELSE val[d]]
    <2>4. [c \in below[s] |-> val[c]] \in [below[s] -> V]
        BY <1>3, <2>3
    <2>5. v \in V
        BY <2>2, <2>4
    <2>6. \A d \in D : below[d] \subseteq All /\ (\A c \in below[d] : f[c] = val[c])
        BY <1>3, <2>2, <2>3
    <2>7. ASSUME NEW d \in D
          PROVE  f[d] \in V /\ f[d] = H[<<d, [c \in below[d] |-> f[c]]>>]
        <3>1. [c \in below[d] |-> f[c]] = [c \in below[d] |-> val[c]]
            BY <2>6
        <3>2. CASE d = s
            BY <2>5, <3>1, <3>2
        <3>3. CASE d # s
            BY <1>3, <3>1, <3>3
        <3> QED  BY <3>2, <3>3
    <2>8. f \in [D -> V] /\ D \in SUBSET S
        BY <1>3, <2>2, <2>7
    <2>9. Part(D, f)
        <3> HIDE DEF f
        <3>1. \A d \in D : below[d] \subseteq D
            BY <2>6
        <3> QED  BY <2>7, <2>8, <3>1
    <2>10. D \in Parts
        <3> HIDE DEF f, D, Part
        <3> QED  BY <2>8, <2>9 DEF Parts
    <2> QED  BY <2>2, <2>10 DEF All
<1> QED
    <2> HIDE DEF All, val
    <2> QED  BY <1>3, <1>4 DEF Recursive

-----------------------------------------------------------------------------
(* The tree. *)

(* A suite is in one list, of its parent, and a test in one list, of its suite. *)
LEMMA TreeIs ==
    /\ \A s \in Suite : Parent(s) \in Node /\ s \in ToSet(suites[Parent(s)])
    /\ \A x \in Node : \A n \in DOMAIN suites[x] :
           suites[x][n] \in Suite /\ Parent(suites[x][n]) = x
    /\ \A x \in Node : \A m, n \in DOMAIN suites[x] : suites[x][m] = suites[x][n] => m = n
    /\ \A t \in Test : SuiteOf(t) \in Suite /\ t \in ToSet(tests[SuiteOf(t)])
    /\ \A s \in Suite : \A n \in DOMAIN tests[s] :
           tests[s][n] \in Test /\ SuiteOf(tests[s][n]) = s
    /\ \A s \in Suite : \A m, n \in DOMAIN tests[s] : tests[s][m] = tests[s][n] => m = n
<1>1. /\ DOMAIN suites = Node /\ DOMAIN tests = Suite
      /\ \A x \in Node : \A n \in DOMAIN suites[x] : suites[x][n] \in Suite
      /\ \A s \in Suite : \A n \in DOMAIN tests[s] : tests[s][n] \in Test
    BY TreeAssumption
<1>2. ASSUME NEW s \in Suite
      PROVE  /\ Parent(s) \in Node /\ s \in ToSet(suites[Parent(s)])
             /\ \A y \in Node : \A m \in DOMAIN suites[y] : suites[y][m] = s =>
                    y = Parent(s) /\ \A k \in DOMAIN suites[y] : suites[y][k] = s => k = m
    <2>1. PICK x \in Node : \E n \in DOMAIN suites[x] :
              \A y \in Node : \A m \in DOMAIN suites[y] : suites[y][m] = s <=> y = x /\ m = n
        <3>1. Once(suites, s)
            BY TreeAssumption
        <3> QED  BY <1>1, <3>1 DEF Once
    <2>2. PICK n \in DOMAIN suites[x] :
              \A y \in Node : \A m \in DOMAIN suites[y] : suites[y][m] = s <=> y = x /\ m = n
        BY <2>1
    <2>3. s \in ToSet(suites[x]) /\ \A y \in Node : s \in ToSet(suites[y]) => y = x
        BY <2>2 DEF ToSet
    <2>4. Parent(s) = x
        BY <2>3 DEF Parent
    <2> QED  BY <2>2, <2>3, <2>4
<1>3. ASSUME NEW t \in Test
      PROVE  /\ SuiteOf(t) \in Suite /\ t \in ToSet(tests[SuiteOf(t)])
             /\ \A y \in Suite : \A m \in DOMAIN tests[y] : tests[y][m] = t =>
                    y = SuiteOf(t) /\ \A k \in DOMAIN tests[y] : tests[y][k] = t => k = m
    <2>1. PICK x \in Suite : \E n \in DOMAIN tests[x] :
              \A y \in Suite : \A m \in DOMAIN tests[y] : tests[y][m] = t <=> y = x /\ m = n
        <3>1. Once(tests, t)
            BY TreeAssumption
        <3> QED  BY <1>1, <3>1 DEF Once
    <2>2. PICK n \in DOMAIN tests[x] :
              \A y \in Suite : \A m \in DOMAIN tests[y] : tests[y][m] = t <=> y = x /\ m = n
        BY <2>1
    <2>3. t \in ToSet(tests[x]) /\ \A y \in Suite : t \in ToSet(tests[y]) => y = x
        BY <2>2 DEF ToSet
    <2>4. SuiteOf(t) = x
        BY <2>3 DEF SuiteOf
    <2> QED  BY <2>2, <2>3, <2>4
<1> QED  BY <1>1, <1>2, <1>3

(* The path of a node is its equation.                                     *)
LEMMA PathIs ==
    /\ Path \in [Node -> Seq(Node)]
    /\ \A x \in Node : Path[x] = IF x \in File THEN <<x>> ELSE Append(Path[Parent(x)], x)
<1> DEFINE below == [x \in Node |-> IF x \in File THEN {} ELSE {Parent(x)}]
           V == Seq(Node)
           H == [p \in UNION {{x} \X [below[x] -> V] : x \in Node} |->
                    IF p[1] \in File THEN <<p[1]>> ELSE Append(p[2][Parent(p[1])], p[1])]
           e(f) == [x \in Node |-> IF x \in File THEN <<x>> ELSE Append(f[Parent(x)], x)]
<1>1. \A x \in Node : x \in File \/ (x \in Suite /\ Parent(x) \in Node)
    BY TreeIs DEF Node
<1>2. below \in [Node -> SUBSET Node]
    BY <1>1
<1>3. ASSUME NEW x \in Node, NEW g \in [below[x] -> V]
      PROVE  /\ H[<<x, g>>] = IF x \in File THEN <<x>> ELSE Append(g[Parent(x)], x)
             /\ H[<<x, g>>] \in V
    <2>1. <<x, g>> \in UNION {{y} \X [below[y] -> V] : y \in Node}
        <3> HIDE DEF below, V
        <3>1. <<x, g>> \in {x} \X [below[x] -> V]
            OBVIOUS
        <3> QED  BY <3>1
    <2>2. H[<<x, g>>] = IF x \in File THEN <<x>> ELSE Append(g[Parent(x)], x)
        <3> HIDE DEF below, V
        <3> QED  BY <2>1
    <2>3. x \notin File => g[Parent(x)] \in V
        OBVIOUS
    <2>4. Append(g[Parent(x)], x) \in V \/ x \in File
        BY <2>3
    <2>5. <<x>> \in V
        OBVIOUS
    <2> HIDE DEF H, V
    <2> QED  BY <2>2, <2>4, <2>5
<1>4. ASSUME NEW T \in SUBSET Node, T # {} PROVE \E x \in T : below[x] \cap T = {}
    <2>1. CASE T \cap File # {}
        BY <2>1
    <2>2. CASE T \cap File = {}
        <3>1. T \in SUBSET Suite
            BY <2>2, <1>1
        <3>2. PICK s \in T : Parent(s) \notin T
            BY <3>1, <1>4, TreeAssumption
        <3> QED  BY <3>2, <2>2
    <2> QED  BY <2>1, <2>2
<1>5. \E f : Recursive(f, H, Node, below, V)
    <2>1. Makes(H, Node, below, V)
        <3> HIDE DEF V, H, below
        <3> QED  BY <1>3 DEF Makes
    <2>2. Ends(Node, below)
        <3> HIDE DEF V, H, below
        <3> QED  BY <1>2, <1>4 DEF Ends
    <2> HIDE DEF V, H, below
    <2> QED  BY <2>1, <2>2, Recursion
<1>6. PICK f \in [Node -> V] : \A x \in Node : f[x] = H[<<x, [c \in below[x] |-> f[c]]>>]
    BY <1>5 DEF Recursive
<1>7. \A x \in Node : f[x] = IF x \in File THEN <<x>> ELSE Append(f[Parent(x)], x)
    <2> SUFFICES ASSUME NEW x \in Node PROVE f[x] = IF x \in File THEN <<x>> ELSE Append(f[Parent(x)], x)
        OBVIOUS
    <2> DEFINE g == [c \in below[x] |-> f[c]]
    <2>1. g \in [below[x] -> V] /\ (x \notin File => g[Parent(x)] = f[Parent(x)])
        BY <1>2
    <2> HIDE DEF H, V, below, g
    <2>2. f[x] = H[<<x, g>>]
        BY <1>6 DEF g
    <2> QED  BY <1>3, <2>1, <2>2
<1>8. f = e(f)
    <2> HIDE DEF V
    <2> QED  BY <1>7
<1>9. Path = CHOOSE g : g = e(g)
    BY DEF Path
<1>10. Path = e(Path)
    <2> HIDE DEF e
    <2> QED  BY <1>8, <1>9
<1>11. \A x \in Node : Path[x] = IF x \in File THEN <<x>> ELSE Append(Path[Parent(x)], x)
    BY <1>10
<1>12. Path = [x \in Node |-> Path[x]]
    BY <1>10, Zenon
<1>13. \A x \in Node : Path[x] = f[x]
    <2> DEFINE T == {x \in Node : Path[x] # f[x]}
    <2>1. SUFFICES ASSUME T # {} PROVE FALSE
        OBVIOUS
    <2>2. PICK x \in T : below[x] \cap T = {}
        BY <1>4, <2>1
    <2>3. x \in Node /\ Path[x] # f[x]
        OBVIOUS
    <2>4. x \notin File => Path[Parent(x)] = f[Parent(x)]
        BY <2>2, <1>2, <2>3
    <2> QED  BY <2>3, <2>4, <1>7, <1>11
<1> QED  BY <1>11, <1>12, <1>13

(* The flag a suite is called with is its equation.                        *)
LEMMA FlagIs ==
    ASSUME NEW mod
    PROVE  \A s \in Suite : LET p == Parent(s) IN
               ParentOnly(mod)[s] = (/\ p \in Suite
                                     /\ ShouldRun(mod, p, ParentOnly(mod)[p])
                                     /\ ParentOnly(mod)[p] \/ mod[p] = "only")
<1> DEFINE below == [s \in Suite |-> {Parent(s)} \cap Suite]
           told(f, p) == p \in Suite /\ ShouldRun(mod, p, f[p]) /\ (f[p] \/ mod[p] = "only")
           H == [q \in UNION {{s} \X [below[s] -> BOOLEAN] : s \in Suite} |-> told(q[2], Parent(q[1]))]
           e(f) == [s \in Suite |-> told(f, Parent(s))]
<1>1. Ends(Suite, below)
    <2>1. ASSUME NEW T \in SUBSET Suite, T # {} PROVE \E s \in T : below[s] \cap T = {}
        <3>1. PICK s \in T : Parent(s) \notin T
            BY <2>1, TreeAssumption
        <3> QED  BY <3>1
    <2> QED  BY <2>1 DEF Ends
<1>2. ASSUME NEW s \in Suite, NEW g \in [below[s] -> BOOLEAN]
      PROVE  H[<<s, g>>] = told(g, Parent(s))
    <2>1. <<s, g>> \in UNION {{t} \X [below[t] -> BOOLEAN] : t \in Suite}
        <3> HIDE DEF below
        <3>1. <<s, g>> \in {s} \X [below[s] -> BOOLEAN]
            OBVIOUS
        <3> QED  BY <3>1
    <2> HIDE DEF below, told
    <2> QED  BY <2>1
<1>3. Makes(H, Suite, below, BOOLEAN)
    <2>1. \A g, p : told(g, p) \in BOOLEAN
        OBVIOUS
    <2> HIDE DEF H, told
    <2> QED  BY <1>2, <2>1 DEF Makes
<1>4. PICK f : Recursive(f, H, Suite, below, BOOLEAN)
    <2> HIDE DEF H, below
    <2> QED  BY <1>1, <1>3, Recursion
<1>5. ASSUME NEW s \in Suite PROVE f[s] = told(f, Parent(s))
    <2> DEFINE g == [c \in below[s] |-> f[c]]
    <2>1. g \in [below[s] -> BOOLEAN]
        BY <1>4 DEF Recursive
    <2>2. Parent(s) \in Suite => g[Parent(s)] = f[Parent(s)]
        OBVIOUS
    <2>3. told(g, Parent(s)) = told(f, Parent(s))
        <3> HIDE DEF g
        <3> QED  BY <2>2
    <2>4. f[s] = H[<<s, g>>]
        BY <1>4 DEF Recursive
    <2> HIDE DEF g, H, told, below
    <2> QED  BY <1>2, <2>1, <2>3, <2>4
<1>6. f = e(f)
    <2>1. f = [s \in Suite |-> f[s]]
        BY <1>4 DEF Recursive
    <2> HIDE DEF told
    <2> QED  BY <1>5, <2>1
<1>7. ParentOnly(mod) = CHOOSE g : g = e(g)
    BY DEF ParentOnly
<1>8. ParentOnly(mod) = e(ParentOnly(mod))
    <2> HIDE DEF e
    <2> QED  BY <1>6, <1>7
<1>9. ASSUME NEW s \in Suite PROVE ParentOnly(mod)[s] = told(ParentOnly(mod), Parent(s))
    <2> HIDE DEF told
    <2> QED  BY <1>8
<1> QED  BY <1>9

-----------------------------------------------------------------------------
(* FlattenSeq puts one sequence after the other. *)
LEMMA FlattenIs ==
    ASSUME NEW V, NEW seqs \in Seq(Seq(V)), Len(seqs) > 0
    PROVE  \E F \in [1 .. Len(seqs) -> Seq(V)] :
               /\ FlattenSeq(seqs) = F[Len(seqs)]
               /\ \A i \in 1 .. Len(seqs) : F[i] = IF i = 1 THEN seqs[i] ELSE F[i - 1] \o seqs[i]
<1> DEFINE S == 1 .. Len(seqs)
           W == Seq(V)
           below == [i \in S |-> {i - 1} \cap S]
           H == [q \in UNION {{i} \X [below[i] -> W] : i \in S} |->
                    IF q[1] = 1 THEN seqs[q[1]] ELSE q[2][q[1] - 1] \o seqs[q[1]]]
           e(f) == [i \in S |-> IF i = 1 THEN seqs[i] ELSE f[i - 1] \o seqs[i]]
<1>0. Len(seqs) \in Nat /\ \A i \in S : seqs[i] \in W
    OBVIOUS
<1>1. Ends(S, below)
    <2>1. ASSUME NEW T \in SUBSET S, T # {} PROVE \E s \in T : below[s] \cap T = {}
        <3>1. T \in SUBSET Nat
            BY <1>0
        <3>2. PICK s \in T : \A t \in T : s <= t
            BY <2>1, <3>1, Least
        <3> QED  BY <3>1, <3>2
    <2> QED  BY <2>1 DEF Ends
<1>2. ASSUME NEW i \in S, NEW g \in [below[i] -> W]
      PROVE  /\ H[<<i, g>>] = IF i = 1 THEN seqs[i] ELSE g[i - 1] \o seqs[i]
             /\ H[<<i, g>>] \in W
    <2>1. <<i, g>> \in UNION {{t} \X [below[t] -> W] : t \in S}
        <3> HIDE DEF below, W, S
        <3>1. <<i, g>> \in {i} \X [below[i] -> W]
            OBVIOUS
        <3> QED  BY <3>1
    <2>2. H[<<i, g>>] = IF i = 1 THEN seqs[i] ELSE g[i - 1] \o seqs[i]
        <3> HIDE DEF below, W, S
        <3> QED  BY <2>1
    <2>3. i # 1 => g[i - 1] \in W
        <3> HIDE DEF W
        <3> QED  BY <1>0
    <2>4. i # 1 => g[i - 1] \o seqs[i] \in W
        BY <1>0, <2>3
    <2> HIDE DEF H, W
    <2> QED  BY <2>2, <2>4, <1>0
<1>3. Makes(H, S, below, W)
    <2> HIDE DEF H, W, below, S
    <2> QED  BY <1>2 DEF Makes
<1>4. PICK f : Recursive(f, H, S, below, W)
    <2> HIDE DEF H, below, S, W
    <2> QED  BY <1>1, <1>3, Recursion
<1>5. ASSUME NEW i \in S PROVE f[i] = IF i = 1 THEN seqs[i] ELSE f[i - 1] \o seqs[i]
    <2> DEFINE g == [c \in below[i] |-> f[c]]
    <2>1. g \in [below[i] -> W]
        BY <1>4 DEF Recursive
    <2>2. i # 1 => g[i - 1] = f[i - 1]
        BY <1>0
    <2>3. f[i] = H[<<i, g>>]
        BY <1>4 DEF Recursive
    <2> HIDE DEF g, H, below, S, W
    <2> QED  BY <1>2, <2>1, <2>2, <2>3
<1>6. f = e(f)
    <2>1. f = [i \in S |-> f[i]]
        BY <1>4 DEF Recursive
    <2> HIDE DEF S
    <2> QED  BY <1>5, <2>1
<1> DEFINE G == CHOOSE g : g = e(g)
<1>7. FlattenSeq(seqs) = G[Len(seqs)]
    BY DEF FlattenSeq
<1>8. G = e(G)
    <2> HIDE DEF e
    <2> QED  BY <1>6
<1> HIDE DEF G
<1>9. G = [i \in S |-> G[i]] /\ \A i \in S : G[i] = IF i = 1 THEN seqs[i] ELSE G[i - 1] \o seqs[i]
    <2>1. G = [i \in S |-> G[i]]
        BY <1>8, Zenon
    <2> QED  BY <1>8, <2>1
<1>10. \A i \in S : G[i] = f[i]
    <2> DEFINE T == {i \in S : G[i] # f[i]}
    <2>1. SUFFICES ASSUME T # {} PROVE FALSE
        OBVIOUS
    <2>2. T \in SUBSET Nat
        BY <1>0
    <2>3. PICK i \in T : \A t \in T : i <= t
        BY <2>1, <2>2, Least
    <2>4. i # 1 => i - 1 \in S /\ i - 1 \notin T
        BY <1>0, <2>3
    <2>5. i \in S /\ G[i] # f[i] /\ (i # 1 => G[i - 1] = f[i - 1])
        BY <2>4
    <2> HIDE DEF S, T
    <2> QED  BY <2>5, <1>5, <1>9
<1>11. G \in [S -> W]
    <2>1. \A i \in S : f[i] \in W
        BY <1>4 DEF Recursive
    <2> HIDE DEF S, W
    <2> QED  BY <2>1, <1>9, <1>10
<1> HIDE DEF W
<1> QED  BY <1>7, <1>9, <1>11 DEF W

(* Two sequences one after the other.                                      *)
LEMMA CatIs ==
    ASSUME NEW V, NEW P \in Seq(V), NEW Q \in Seq(V)
    PROVE  /\ P \o Q \in Seq(V) /\ Len(P \o Q) = Len(P) + Len(Q)
           /\ Len(P) \in Nat /\ Len(Q) \in Nat
           /\ \A k \in 1 .. Len(P) : (P \o Q)[k] = P[k]
           /\ \A k \in Len(P) + 1 .. Len(P) + Len(Q) : (P \o Q)[k] = Q[k - Len(P)]
           /\ \A k \in 1 .. Len(Q) : (P \o Q)[Len(P) + k] = Q[k]
OBVIOUS

LEMMA CatSet ==
    ASSUME NEW V, NEW P \in Seq(V), NEW Q \in Seq(V)
    PROVE  ToSet(P \o Q) = ToSet(P) \cup ToSet(Q)
<1> DEFINE R == P \o Q
<1>1. DOMAIN P = 1 .. Len(P) /\ DOMAIN Q = 1 .. Len(Q) /\ DOMAIN R = 1 .. Len(P) + Len(Q)
    BY CatIs
<1>2. ASSUME NEW k \in DOMAIN R PROVE R[k] \in ToSet(P) \cup ToSet(Q)
    <2>1. CASE k \in 1 .. Len(P)
        BY <1>1, <2>1, CatIs DEF ToSet
    <2>2. CASE k \in Len(P) + 1 .. Len(P) + Len(Q)
        <3>1. k - Len(P) \in DOMAIN Q /\ R[k] = Q[k - Len(P)]
            BY <1>1, <2>2, CatIs
        <3> QED  BY <3>1 DEF ToSet
    <2> QED  BY <1>1, <2>1, <2>2, CatIs
<1>3. ASSUME NEW k \in DOMAIN P PROVE P[k] \in ToSet(R)
    <2>1. k \in DOMAIN R /\ R[k] = P[k]
        BY <1>1, CatIs
    <2> QED  BY <2>1 DEF ToSet
<1>4. ASSUME NEW k \in DOMAIN Q PROVE Q[k] \in ToSet(R)
    <2>1. Len(P) + k \in DOMAIN R /\ R[Len(P) + k] = Q[k]
        BY <1>1, CatIs
    <2> QED  BY <2>1 DEF ToSet
<1> HIDE DEF R
<1> QED  BY <1>2, <1>3, <1>4 DEF ToSet, R

(* What is in one of the sequences is in the flattened one.                *)
LEMMA FlattenHas ==
    ASSUME NEW V, NEW seqs \in Seq(Seq(V))
    PROVE  /\ FlattenSeq(seqs) \in Seq(V)
           /\ ToSet(FlattenSeq(seqs)) = UNION {ToSet(seqs[i]) : i \in DOMAIN seqs}
<1>1. CASE Len(seqs) = 0
    <2>1. seqs = <<>> /\ FlattenSeq(seqs) = <<>>
        BY <1>1 DEF FlattenSeq
    <2>2. DOMAIN seqs = {} /\ <<>> \in Seq(V) /\ ToSet(<<>>) = {}
        BY <2>1 DEF ToSet
    <2> QED  BY <2>1, <2>2
<1>2. CASE Len(seqs) > 0
    <2> DEFINE n == Len(seqs)
    <2>1. PICK F \in [1 .. n -> Seq(V)] :
              /\ FlattenSeq(seqs) = F[n]
              /\ \A i \in 1 .. n : F[i] = IF i = 1 THEN seqs[i] ELSE F[i - 1] \o seqs[i]
        BY <1>2, FlattenIs
    <2>2. n \in Nat /\ DOMAIN seqs = 1 .. n /\ \A i \in 1 .. n : seqs[i] \in Seq(V)
        OBVIOUS
    <2> DEFINE T == {i \in 1 .. n : ToSet(F[i]) # UNION {ToSet(seqs[j]) : j \in 1 .. i}}
    <2> HIDE DEF n
    <2>3. T = {}
        <3>1. SUFFICES ASSUME T # {} PROVE FALSE
            OBVIOUS
        <3>2. T \in SUBSET Nat
            BY <2>2
        <3>3. PICK i \in T : \A j \in T : i <= j
            BY <3>1, <3>2, Least
        <3>place. i \in 1 .. n /\ i \in Nat
            BY <2>2
        <3>4. CASE i = 1
            <4>1. 1 .. i = {1} /\ F[i] = seqs[1]
                <5> HIDE DEF T
                <5>1. 1 .. i = {1}
                    BY <3>4
                <5>2. F[i] = seqs[1]
                    BY <2>1, <3>place, <3>4
                <5> QED  BY <5>1, <5>2
            <4> QED  BY <4>1
        <3>5. CASE i # 1
            <4>1. i - 1 \in 1 .. n /\ i - 1 \notin T
                <5> HIDE DEF T
                <5> QED  BY <2>2, <3>place, <3>2, <3>3, <3>5
            <4>2. ToSet(F[i - 1]) = UNION {ToSet(seqs[j]) : j \in 1 .. i - 1}
                BY <4>1
            <4>3. F[i] = F[i - 1] \o seqs[i] /\ F[i - 1] \in Seq(V) /\ seqs[i] \in Seq(V)
                BY <2>1, <2>2, <3>5, <4>1
            <4>4. ToSet(F[i]) = ToSet(F[i - 1]) \cup ToSet(seqs[i])
                BY <4>3, CatSet
            <4>5. 1 .. i = (1 .. i - 1) \cup {i}
                BY <2>2, <4>1
            <4> QED  BY <4>2, <4>4, <4>5
        <3> QED  BY <3>4, <3>5
    <2>4. n \in 1 .. n
        BY <1>2, <2>2 DEF n
    <2> QED  BY <2>1, <2>2, <2>3, <2>4
<1> QED  BY <1>1, <1>2

(* RunHooks calls the hooks of its kind declared on the path.              *)
LEMMA RunHooksIs ==
    ASSUME NEW kind \in HookKind, NEW path \in Seq(Node), NEW for \in Node \cup Test
    PROVE  /\ RunHooks(kind, path, for) \in Seq(Call)
           /\ ToSet(RunHooks(kind, path, for)) =
                  {[kind |-> kind, of |-> x, test |-> for] : x \in {x \in ToSet(path) : kind \in hooks[x]}}
<1> DEFINE seqs == [n \in DOMAIN path |-> Hook(kind, path[n], for)]
<1>1. ASSUME NEW x \in Node
      PROVE  /\ Hook(kind, x, for) \in Seq(Call)
             /\ ToSet(Hook(kind, x, for)) =
                    IF kind \in hooks[x] THEN {[kind |-> kind, of |-> x, test |-> for]} ELSE {}
    <2>1. [kind |-> kind, of |-> x, test |-> for] \in Call
        BY DEF Call
    <2>2. CASE kind \in hooks[x]
        <3> DEFINE c == [kind |-> kind, of |-> x, test |-> for]
        <3>1. Hook(kind, x, for) = <<c>>
            BY <2>2 DEF Hook
        <3> HIDE DEF c
        <3>2. <<c>> \in Seq(Call) /\ ToSet(<<c>>) = {c}
            BY <2>1 DEF ToSet, c
        <3> QED  BY <3>1, <3>2, <2>2 DEF c
    <2>3. CASE kind \notin hooks[x]
        <3>1. Hook(kind, x, for) = <<>>
            BY <2>3 DEF Hook
        <3> QED  BY <3>1, <2>3 DEF ToSet
    <2> QED  BY <2>2, <2>3
<1>2. DOMAIN path = 1 .. Len(path) /\ Len(path) \in Nat /\ \A n \in DOMAIN path : path[n] \in Node
    OBVIOUS
<1>3. seqs \in Seq(Seq(Call)) /\ DOMAIN seqs = DOMAIN path
    BY <1>1, <1>2
<1>4. RunHooks(kind, path, for) = FlattenSeq(seqs)
    BY DEF RunHooks
<1>5. \A n \in DOMAIN path : ToSet(seqs[n]) =
          IF kind \in hooks[path[n]] THEN {[kind |-> kind, of |-> path[n], test |-> for]} ELSE {}
    BY <1>1, <1>2
<1>6. ToSet(path) = {path[n] : n \in DOMAIN path}
    BY DEF ToSet
<1>7. UNION {ToSet(seqs[n]) : n \in DOMAIN path}
        = {[kind |-> kind, of |-> x, test |-> for] : x \in {x \in ToSet(path) : kind \in hooks[x]}}
    <2> HIDE DEF seqs
    <2> DEFINE call(x) == [kind |-> kind, of |-> x, test |-> for]
    <2>1. \A n \in DOMAIN path : ToSet(seqs[n]) = IF kind \in hooks[path[n]] THEN {call(path[n])} ELSE {}
        BY <1>5
    <2> HIDE DEF call
    <2>2. UNION {ToSet(seqs[n]) : n \in DOMAIN path}
            = {call(x) : x \in {x \in ToSet(path) : kind \in hooks[x]}}
        BY <2>1, <1>6
    <2> QED  BY <2>2 DEF call
<1> HIDE DEF seqs
<1> QED  BY <1>3, <1>4, <1>7, FlattenHas

LEMMA RunHooksOfOne ==
    ASSUME NEW kind \in HookKind, NEW x \in Node, NEW for \in Node \cup Test
    PROVE  /\ RunHooks(kind, <<x>>, for) \in Seq(Call)
           /\ RunHooks(kind, <<x>>, for) =
                  IF kind \in hooks[x] THEN <<[kind |-> kind, of |-> x, test |-> for]>> ELSE <<>>
<1> DEFINE seqs == [n \in DOMAIN <<x>> |-> Hook(kind, <<x>>[n], for)]
<1>1. RunHooks(kind, <<x>>, for) = FlattenSeq(seqs)
    BY DEF RunHooks
<1>2. Hook(kind, x, for) \in Seq(Call)
    <2>1. [kind |-> kind, of |-> x, test |-> for] \in Call
        BY DEF Call
    <2> QED  BY <2>1 DEF Hook
<1>3. seqs = <<Hook(kind, x, for)>>
    OBVIOUS
<1>4. seqs \in Seq(Seq(Call)) /\ Len(seqs) = 1 /\ seqs[1] = Hook(kind, x, for)
    BY <1>2, <1>3
<1> HIDE DEF seqs
<1>5. FlattenSeq(seqs) = seqs[1]
    <2>1. PICK F \in [1 .. Len(seqs) -> Seq(Call)] :
              /\ FlattenSeq(seqs) = F[Len(seqs)]
              /\ \A i \in 1 .. Len(seqs) : F[i] = IF i = 1 THEN seqs[i] ELSE F[i - 1] \o seqs[i]
        BY <1>4, FlattenIs
    <2> QED  BY <1>4, <2>1
<1> QED  BY <1>1, <1>2, <1>4, <1>5 DEF Hook

-----------------------------------------------------------------------------
(* The calls of a part of a file: of the nodes N for themselves, and of    *)
(* the tests T.                                                            *)

ReportKind(mod, t) ==
    IF mod[t] = "todo" THEN "todo" ELSE IF TestRunnable(mod, t) THEN "report" ELSE "skip"

ReportsAre(mod, P, T) ==
    /\ \A n \in Reports(P) : P[n].test \in T /\ P[n].kind = ReportKind(mod, P[n].test)
    /\ \A t \in T : \E n \in Reports(P) : P[n].test = t
    /\ \A m, n \in Reports(P) : P[m].test = P[n].test => m = n

HooksBefore(mod, P, N) ==
    \A n \in DOMAIN P : P[n].kind = "report" => LET t == P[n].test IN
        /\ Before(P, n, "fn", t, t)
        /\ \A x \in ToSet(PathOf(t)) :
               /\ \A kind \in {"beforeEach", "afterEach"} \cap hooks[x] : Before(P, n, kind, x, t)
               /\ x \in N /\ "beforeAll" \in hooks[x] /\ (x \in File \/ mod[x] # "skip") =>
                      Before(P, n, "beforeAll", x, x)

Inside(P, N, T) ==
    \A c \in ToSet(P) :
        /\ c.kind \in {"beforeAll", "afterAll"} => c.of \in N
        /\ c.kind = "fn" => c.of \in T

CleanupAfter(P) ==
    \A k \in DOMAIN P : P[k].kind = "afterAll" =>
        \A n \in k + 1 .. Len(P) : P[n].kind = "fn" => P[k].of \notin ToSet(PathOf(P[n].of))

CleanedUp(P) ==
    \A x \in Node : "afterAll" \in hooks[x] /\ [kind |-> "beforeAll", of |-> x, test |-> x] \in ToSet(P) =>
        [kind |-> "afterAll", of |-> x, test |-> x] \in ToSet(P)

Sound(mod, P, N, T) ==
    /\ P \in Seq(Call)
    /\ TestsStandTogether(P) /\ ReportsAre(mod, P, T) /\ HooksBefore(mod, P, N)
    /\ Inside(P, N, T) /\ CleanupAfter(P) /\ CleanedUp(P)

LEMMA PathOfTest ==
    ASSUME NEW t \in Test
    PROVE  /\ PathOf(t) = Path[SuiteOf(t)] /\ SuiteOf(t) \in Node /\ PathOf(t) \in Seq(Node)
           /\ Reverse(PathOf(t)) \in Seq(Node) /\ ToSet(Reverse(PathOf(t))) = ToSet(PathOf(t))
<1>1. PathOf(t) = Path[SuiteOf(t)] /\ SuiteOf(t) \in Node
    BY TreeIs DEF PathOf, Node
<1>2. PathOf(t) \in Seq(Node)
    BY <1>1, PathIs
<1> DEFINE p == PathOf(t)
           q == Reverse(p)
<1>3. Len(p) \in Nat /\ DOMAIN p = 1 .. Len(p) /\ \A i \in 1 .. Len(p) : p[i] \in Node
    BY <1>2
<1>4. q = [i \in 1 .. Len(p) |-> p[(Len(p) - i) + 1]]
    BY DEF Reverse
<1> HIDE DEF p, q
<1>5. \A i \in 1 .. Len(p) : (Len(p) - i) + 1 \in 1 .. Len(p) /\ (Len(p) - ((Len(p) - i) + 1)) + 1 = i
    BY <1>3
<1>6. q \in Seq(Node) /\ DOMAIN q = 1 .. Len(p)
    BY <1>3, <1>4, <1>5
<1>7. \A i \in 1 .. Len(p) : q[i] = p[(Len(p) - i) + 1] /\ p[i] = q[(Len(p) - i) + 1]
    BY <1>4, <1>5
<1>8. ToSet(q) = ToSet(p)
    BY <1>3, <1>5, <1>6, <1>7 DEF ToSet
<1> QED  BY <1>1, <1>2, <1>6, <1>8 DEF p, q

LEMMA KindsDiffer ==
    /\ InTest = {"beforeEach", "fn", "afterEach"} /\ Report = {"report", "skip", "todo"}
    /\ HookKind = {"beforeAll", "beforeEach", "afterEach", "afterAll"}
BY DEF InTest, Report, HookKind

(* A test that does not run is reported, and no more.                      *)
LEMMA TestNotRun ==
    ASSUME NEW mod, NEW t \in Test, ReportKind(mod, t) # "report"
    PROVE  Sound(mod, RunTest(mod, t), {}, {t})
<1> DEFINE c == [kind |-> ReportKind(mod, t), of |-> t, test |-> t]
           P == RunTest(mod, t)
<1>1. P = <<c>>
    <2>0. TestRunnable(mod, t) => mod[t] # "todo"
        BY DEF TestRunnable
    <2>1. CASE mod[t] = "todo"
        BY <2>0, <2>1 DEF RunTest, ReportKind, OfTest
    <2>2. CASE mod[t] # "todo" /\ ~TestRunnable(mod, t)
        BY <2>2 DEF RunTest, ReportKind, OfTest
    <2> QED  BY <2>1, <2>2 DEF ReportKind
<1>2. c.kind \in {"skip", "todo"} /\ c.test = t /\ c.kind = ReportKind(mod, t)
    BY DEF ReportKind
<1>3. c \in Call
    BY <1>2, KindsDiffer DEF Call
<1> HIDE DEF P, c
<1>4. P \in Seq(Call) /\ Len(P) = 1 /\ DOMAIN P = {1} /\ P[1] = c /\ ToSet(P) = {c}
    BY <1>1, <1>3 DEF ToSet
<1>5. Reports(P) = {1}
    BY <1>2, <1>4, KindsDiffer DEF Reports
<1>6. TestsStandTogether(P)
    BY <1>2, <1>4, KindsDiffer DEF TestsStandTogether
<1>7. ReportsAre(mod, P, {t})
    BY <1>2, <1>4, <1>5 DEF ReportsAre
<1>8. HooksBefore(mod, P, {}) /\ Inside(P, {}, {t}) /\ CleanupAfter(P)
    BY <1>2, <1>4 DEF HooksBefore, Inside, CleanupAfter
<1>9. CleanedUp(P)
    <2>1. \A x : [kind |-> "beforeAll", of |-> x, test |-> x] # c
        BY <1>2
    <2> QED  BY <2>1, <1>4 DEF CleanedUp
<1> QED  BY <1>4, <1>6, <1>7, <1>8, <1>9 DEF Sound, P

(* A test that runs: its function after the beforeEach hooks, then the     *)
(* afterEach hooks, then its report.                                       *)
LEMMA TestRun ==
    ASSUME NEW mod, NEW t \in Test, ReportKind(mod, t) = "report"
    PROVE  Sound(mod, RunTest(mod, t), {}, {t})
<1> DEFINE B == RunHooks("beforeEach", PathOf(t), t)
           A == RunHooks("afterEach", Reverse(PathOf(t)), t)
           f == [kind |-> "fn", of |-> t, test |-> t]
           r == [kind |-> "report", of |-> t, test |-> t]
           b == Len(B)
           a == Len(A)
           P == RunTest(mod, t)
           call(kind, x) == [kind |-> kind, of |-> x, test |-> t]
<1>1. P = B \o <<f>> \o A \o <<r>>
    BY DEF RunTest, ReportKind, OfTest
<1>2. /\ B \in Seq(Call)
      /\ ToSet(B) = {call("beforeEach", x) : x \in {x \in ToSet(PathOf(t)) : "beforeEach" \in hooks[x]}}
    BY RunHooksIs, PathOfTest, KindsDiffer
<1>3. /\ A \in Seq(Call)
      /\ ToSet(A) = {call("afterEach", x) : x \in {x \in ToSet(PathOf(t)) : "afterEach" \in hooks[x]}}
    <2>1. Reverse(PathOf(t)) \in Seq(Node) /\ ToSet(Reverse(PathOf(t))) = ToSet(PathOf(t))
        BY PathOfTest
    <2> QED  BY <2>1, RunHooksIs, KindsDiffer
<1>4. f \in Call /\ r \in Call /\ f.kind = "fn" /\ r.kind = "report" /\ f.of = t /\ f.test = t /\ r.test = t
    BY KindsDiffer DEF Call
<1>5. /\ \A k \in 1 .. b : B[k] \in ToSet(B)
      /\ \A c \in ToSet(B) : \E k \in 1 .. b : B[k] = c
      /\ \A k \in 1 .. a : A[k] \in ToSet(A)
      /\ \A c \in ToSet(A) : \E k \in 1 .. a : A[k] = c
      /\ a \in Nat /\ b \in Nat /\ a = Len(A) /\ b = Len(B)
    BY <1>2, <1>3 DEF ToSet
<1>6. \A k \in 1 .. b : B[k].kind = "beforeEach" /\ B[k].test = t
    BY <1>2, <1>5
<1>7. \A k \in 1 .. a : A[k].kind = "afterEach" /\ A[k].test = t
    BY <1>3, <1>5
<1> HIDE DEF A, B, a, b, f, r, P, call
<1>8. /\ P \in Seq(Call) /\ Len(P) = b + a + 2 /\ DOMAIN P = 1 .. b + a + 2
      /\ \A k \in 1 .. b : P[k] = B[k]
      /\ P[b + 1] = f
      /\ \A k \in 1 .. a : P[b + 1 + k] = A[k]
      /\ \A k \in b + 2 .. b + 1 + a : P[k] = A[k - (b + 1)]
      /\ P[b + a + 2] = r
    <2> DEFINE P1 == B \o <<f>>
               P2 == P1 \o A
    <2>1. <<f>> \in Seq(Call) /\ <<r>> \in Seq(Call)
        BY <1>4
    <2>2. Len(<<f>>) = 1 /\ <<f>>[1] = f /\ Len(<<r>>) = 1 /\ <<r>>[1] = r
        OBVIOUS
    <2>3. /\ P1 \in Seq(Call) /\ Len(P1) = b + 1 /\ P1[b + 1] = f
          /\ \A k \in 1 .. b : P1[k] = B[k]
        <3> HIDE DEF f
        <3> QED  BY <1>2, <1>5, <2>1, <2>2, CatIs
    <2> HIDE DEF P1
    <2>4. /\ P2 \in Seq(Call) /\ Len(P2) = b + 1 + a
          /\ \A k \in 1 .. b + 1 : P2[k] = P1[k]
          /\ \A k \in 1 .. a : P2[b + 1 + k] = A[k]
        <3>1. /\ P1 \o A \in Seq(Call) /\ Len(P1 \o A) = Len(P1) + Len(A)
              /\ \A k \in 1 .. Len(P1) : (P1 \o A)[k] = P1[k]
              /\ \A k \in 1 .. Len(A) : (P1 \o A)[Len(P1) + k] = A[k]
            <4>1. P1 \in Seq(Call) /\ A \in Seq(Call)
                BY <1>3, <2>3
            <4> QED  BY <4>1, CatIs
        <3> QED  BY <1>5, <2>3, <3>1
    <2> HIDE DEF P2
    <2>whole. P = P2 \o <<r>>
        BY <1>1 DEF P1, P2
    <2>size. /\ P \in Seq(Call) /\ Len(P) = b + 1 + a + 1 /\ P[b + 1 + a + 1] = r
          /\ \A k \in 1 .. b + 1 + a : P[k] = P2[k]
        <3>1. /\ P2 \o <<r>> \in Seq(Call) /\ Len(P2 \o <<r>>) = Len(P2) + Len(<<r>>)
              /\ \A k \in 1 .. Len(P2) : (P2 \o <<r>>)[k] = P2[k]
              /\ \A k \in 1 .. Len(<<r>>) : (P2 \o <<r>>)[Len(P2) + k] = <<r>>[k]
            BY <2>1, <2>4, CatIs
        <3>2. 1 \in 1 .. Len(<<r>>)
            BY <2>2
        <3> QED  BY <1>5, <2>2, <2>4, <2>whole, <3>1, <3>2
    <2>sums. b + 1 + a + 1 = b + a + 2 /\ b + 1 \in 1 .. b + 1 /\ \A k \in 1 .. b : k \in 1 .. b + 1
        BY <1>5
    <2>ranges. /\ \A k \in 1 .. a : b + 1 + k \in 1 .. b + 1 + a
          /\ \A k \in 1 .. b + 1 : k \in 1 .. b + 1 + a
        BY <1>5
    <2>5. /\ P \in Seq(Call) /\ Len(P) = b + a + 2 /\ P[b + 1] = f /\ P[b + a + 2] = r
          /\ \A k \in 1 .. b : P[k] = B[k]
          /\ \A k \in 1 .. a : P[b + 1 + k] = A[k]
        BY <2>3, <2>4, <2>size, <2>sums, <2>ranges
    <2>6. \A k \in b + 2 .. b + 1 + a : k - (b + 1) \in 1 .. a /\ b + 1 + (k - (b + 1)) = k
        BY <1>5
    <2>7. \A k \in b + 2 .. b + 1 + a : P[k] = A[k - (b + 1)]
        BY <2>5, <2>6
    <2> QED  BY <2>5, <2>7
<1>9. /\ \A k \in 1 .. b : P[k].kind = "beforeEach" /\ P[k].test = t
      /\ P[b + 1].kind = "fn" /\ P[b + 1].test = t
      /\ \A k \in b + 2 .. b + 1 + a : P[k].kind = "afterEach" /\ P[k].test = t
      /\ P[b + a + 2].kind = "report" /\ P[b + a + 2].test = t
    <2>1. \A k \in b + 2 .. b + 1 + a : k - (b + 1) \in 1 .. a
        BY <1>5
    <2> QED  BY <1>4, <1>6, <1>7, <1>8, <2>1
<1>10. \A k \in 1 .. b + a + 2 : k \in 1 .. b \/ k = b + 1 \/ k \in b + 2 .. b + 1 + a \/ k = b + a + 2
    BY <1>5
<1>places. /\ \A k \in DOMAIN P : k # b + a + 2 => k \in 1 .. b + a + 1
      /\ 1 .. b + a + 1 \subseteq DOMAIN P /\ b + a + 2 \in DOMAIN P
      /\ \A k \in 1 .. b + a + 1 : P[k].kind \in InTest /\ P[k].test = t
    <2>1. /\ \A k \in DOMAIN P : k # b + a + 2 => k \in 1 .. b + a + 1
          /\ 1 .. b + a + 1 \subseteq DOMAIN P /\ b + a + 2 \in DOMAIN P
          /\ \A k \in 1 .. b + a + 1 : k # b + a + 2
        <3>1. DOMAIN P = 1 .. b + a + 2
            BY <1>8
        <3>2. \A k \in DOMAIN P : k # b + a + 2 => k \in 1 .. b + a + 1
            BY <3>1, <1>5
        <3>3. 1 .. b + a + 1 \subseteq DOMAIN P /\ b + a + 2 \in DOMAIN P
            BY <3>1, <1>5
        <3>4. \A k \in 1 .. b + a + 1 : k # b + a + 2
            BY <1>5
        <3> QED  BY <3>2, <3>3, <3>4
    <2>2. \A k \in 1 .. b + a + 1 : k \in 1 .. b \/ k = b + 1 \/ k \in b + 2 .. b + 1 + a
        BY <2>1, <1>8, <1>10
    <2> QED  BY <2>1, <2>2, <1>9, KindsDiffer
<1>11. Reports(P) = {b + a + 2}
    <2>1. Report \cap InTest = {}
        BY KindsDiffer
    <2> QED  BY <2>1, <1>places, <1>9, KindsDiffer DEF Reports
<1>12. TestsStandTogether(P)
    <2> SUFFICES ASSUME NEW k \in DOMAIN P, P[k].kind \in InTest
                 PROVE  \E n \in k + 1 .. Len(P) : OneTest(P, k, n)
        BY DEF TestsStandTogether
    <2>1. k \in 1 .. b + a + 1
        BY <1>places, <1>9, KindsDiffer
    <2>2. \A j \in k .. b + a + 1 : P[j].kind \in InTest /\ P[j].test = P[b + a + 2].test
        <3>1. \A j \in k .. b + a + 1 : j \in 1 .. b + a + 1
            BY <2>1, <1>5
        <3> QED  BY <3>1, <1>places, <1>9
    <2>3. P[k].kind = "beforeEach" => b + 1 \in k .. b + a + 1
        BY <2>1, <1>5, <1>9, <1>10
    <2>4. OneTest(P, k, b + a + 2)
        <3>1. (b + a + 2) - 1 = b + a + 1
            BY <1>5
        <3> QED  BY <3>1, <2>2, <2>3, <1>9 DEF OneTest
    <2>5. b + a + 2 \in k + 1 .. Len(P)
        BY <2>1, <1>5, <1>8
    <2> HIDE DEF a, b
    <2> QED  BY <2>4, <2>5
<1>13. ReportsAre(mod, P, {t})
    BY <1>9, <1>11 DEF ReportsAre
<1>14. HooksBefore(mod, P, {})
    <2> SUFFICES ASSUME NEW n \in DOMAIN P, P[n].kind = "report"
                 PROVE  /\ Before(P, n, "fn", P[n].test, P[n].test)
                        /\ \A x \in ToSet(PathOf(P[n].test)) :
                               \A kind \in {"beforeEach", "afterEach"} \cap hooks[x] :
                                   Before(P, n, kind, x, P[n].test)
        BY DEF HooksBefore
    <2>1. n = b + a + 2 /\ P[n].test = t
        BY <1>8, <1>9, <1>10
    <2>2. Before(P, n, "fn", t, t)
        <3>1. b + 1 \in 1 .. n - 1
            BY <2>1, <1>5
        <3> QED  BY <3>1, <1>8 DEF Before, f
    <2>3. ASSUME NEW x \in ToSet(PathOf(t)), "beforeEach" \in hooks[x]
          PROVE  Before(P, n, "beforeEach", x, t)
        <3>1. PICK k \in 1 .. b : B[k] = call("beforeEach", x)
            BY <2>3, <1>2, <1>5
        <3>2. k \in 1 .. n - 1 /\ P[k] = call("beforeEach", x)
            BY <2>1, <3>1, <1>5, <1>8
        <3> QED  BY <3>2 DEF Before, call
    <2>4. ASSUME NEW x \in ToSet(PathOf(t)), "afterEach" \in hooks[x]
          PROVE  Before(P, n, "afterEach", x, t)
        <3>1. PICK k \in 1 .. a : A[k] = call("afterEach", x)
            BY <2>4, <1>3, <1>5
        <3>2. b + 1 + k \in 1 .. n - 1 /\ P[b + 1 + k] = call("afterEach", x)
            BY <2>1, <3>1, <1>5, <1>8
        <3> QED  BY <3>2 DEF Before, call
    <2> QED  BY <2>1, <2>2, <2>3, <2>4
<1>15. \A c \in ToSet(P) : c.kind \notin {"beforeAll", "afterAll"} /\ (c.kind = "fn" => c = f)
    BY <1>8, <1>9, <1>10 DEF ToSet
<1>16. Inside(P, {}, {t})
    BY <1>15, <1>4 DEF Inside
<1>17. CleanupAfter(P)
    <2>1. \A k \in DOMAIN P : P[k].kind # "afterAll"
        BY <1>8, <1>9, <1>10
    <2> QED  BY <2>1 DEF CleanupAfter
<1>18. CleanedUp(P)
    <2>1. \A x : [kind |-> "beforeAll", of |-> x, test |-> x].kind = "beforeAll"
        OBVIOUS
    <2> QED  BY <2>1, <1>15 DEF CleanedUp
<1> QED  BY <1>8, <1>12, <1>13, <1>14, <1>16, <1>17, <1>18 DEF Sound, P

(* One part after the other, of different tests and nodes.                 *)
LEMMA SoundCat ==
    ASSUME NEW mod, NEW P, NEW Q, NEW N1, NEW N2, NEW T1, NEW T2,
           Sound(mod, P, N1, T1), Sound(mod, Q, N2, T2), T1 \cap T2 = {},
           \A t \in T2 : N1 \cap ToSet(PathOf(t)) = {},
           \A t \in T1 : N2 \cap ToSet(PathOf(t)) = {}
    PROVE  Sound(mod, P \o Q, N1 \cup N2, T1 \cup T2)
<1> DEFINE R == P \o Q
           p == Len(P)
           q == Len(Q)
<1>1. P \in Seq(Call) /\ Q \in Seq(Call)
    BY DEF Sound
<1>2. /\ R \in Seq(Call) /\ Len(R) = p + q /\ p \in Nat /\ q \in Nat
      /\ \A k \in 1 .. p : R[k] = P[k]
      /\ \A k \in p + 1 .. p + q : R[k] = Q[k - p]
      /\ \A k \in 1 .. q : R[p + k] = Q[k]
    BY <1>1, CatIs
<1>3. ToSet(R) = ToSet(P) \cup ToSet(Q)
    BY <1>1, CatSet
<1>4. DOMAIN P = 1 .. p /\ DOMAIN Q = 1 .. q
    BY <1>1
<1>5. DOMAIN R = 1 .. p + q
    BY <1>2
<1> HIDE DEF R, p, q
<1>6. /\ \A k \in 1 .. p : k \in 1 .. p + q
      /\ \A k \in 1 .. q : p + k \in 1 .. p + q /\ p + k \in p + 1 .. p + q /\ (p + k) - p = k
      /\ \A k \in 1 .. p + q : k \in 1 .. p \/ k \in p + 1 .. p + q
      /\ \A k \in p + 1 .. p + q : k - p \in 1 .. q /\ k = p + (k - p) /\ k \notin 1 .. p
    BY <1>2
<1>7. TestsStandTogether(R)
    <2> SUFFICES ASSUME NEW k \in DOMAIN R, R[k].kind \in InTest
                 PROVE  \E n \in k + 1 .. Len(R) : OneTest(R, k, n)
        BY DEF TestsStandTogether
    <2>1. CASE k \in 1 .. p
        <3>1. PICK n \in k + 1 .. p : OneTest(P, k, n)
            BY <2>1, <1>2, <1>4 DEF TestsStandTogether, Sound, p
        <3>2. n \in k + 1 .. p + q /\ n \in 1 .. p /\ \A j \in k .. n - 1 : j \in 1 .. p
            BY <2>1, <1>2
        <3>3. R[n] = P[n] /\ R[k] = P[k] /\ \A j \in k .. n - 1 : R[j] = P[j]
            BY <2>1, <3>2, <1>2
        <3>4. OneTest(R, k, n)
            BY <3>1, <3>3 DEF OneTest
        <3> QED  BY <3>2, <3>4, <1>2
    <2>2. CASE k \in p + 1 .. p + q
        <3> DEFINE i == k - p
        <3>1. i \in 1 .. q /\ R[k] = Q[i]
            BY <2>2, <1>2, <1>6
        <3>2. PICK m \in i + 1 .. q : OneTest(Q, i, m)
            BY <3>1, <1>4 DEF TestsStandTogether, Sound, q
        <3>3. /\ p + m \in k + 1 .. p + q /\ m \in 1 .. q
              /\ \A j \in k .. (p + m) - 1 : j - p \in i .. m - 1 /\ j \in p + 1 .. p + q
              /\ \A j \in i .. m - 1 : p + j \in k .. (p + m) - 1 /\ j \in 1 .. q
            BY <2>2, <3>1, <1>2
        <3>4. /\ R[p + m] = Q[m]
              /\ \A j \in k .. (p + m) - 1 : R[j] = Q[j - p]
              /\ \A j \in i .. m - 1 : R[p + j] = Q[j]
            BY <3>3, <1>2
        <3> HIDE DEF i
        <3>5. /\ R[p + m].kind = "report"
              /\ \A j \in k .. (p + m) - 1 : R[j].kind \in InTest /\ R[j].test = R[p + m].test
            BY <3>2, <3>3, <3>4 DEF OneTest
        <3>6. R[k].kind = "beforeEach" => \E j \in k .. (p + m) - 1 : R[j].kind = "fn"
            BY <3>1, <3>2, <3>3, <3>4 DEF OneTest
        <3>7. OneTest(R, k, p + m)
            BY <3>5, <3>6 DEF OneTest
        <3> QED  BY <3>3, <3>7, <1>2
    <2> QED  BY <2>1, <2>2, <1>5, <1>6
<1>8. /\ \A n \in Reports(R) : n \in 1 .. p => n \in Reports(P) /\ R[n] = P[n]
      /\ \A n \in Reports(R) : n \in p + 1 .. p + q => n - p \in Reports(Q) /\ R[n] = Q[n - p]
      /\ \A n \in Reports(R) : n \in 1 .. p \/ n \in p + 1 .. p + q
      /\ \A n \in Reports(P) : n \in Reports(R) /\ R[n] = P[n]
      /\ \A n \in Reports(Q) : p + n \in Reports(R) /\ R[p + n] = Q[n]
    BY <1>2, <1>4, <1>5, <1>6 DEF Reports
<1>9. ReportsAre(mod, R, T1 \cup T2)
    <2>1. ReportsAre(mod, P, T1) /\ ReportsAre(mod, Q, T2)
        BY DEF Sound
    <2>2. \A n \in Reports(R) : R[n].test \in T1 \cup T2 /\ R[n].kind = ReportKind(mod, R[n].test)
        BY <2>1, <1>8 DEF ReportsAre
    <2>3. \A t \in T1 \cup T2 : \E n \in Reports(R) : R[n].test = t
        BY <2>1, <1>8 DEF ReportsAre
    <2>4. ASSUME NEW m \in Reports(R), NEW n \in Reports(R), R[m].test = R[n].test PROVE m = n
        <3>1. CASE m \in 1 .. p /\ n \in 1 .. p
            BY <3>1, <2>1, <2>4, <1>6, <1>8 DEF ReportsAre
        <3>2. CASE m \in p + 1 .. p + q /\ n \in p + 1 .. p + q
            <4>1. m - p \in Reports(Q) /\ n - p \in Reports(Q) /\ R[m] = Q[m - p] /\ R[n] = Q[n - p]
                BY <3>2, <1>6, <1>8
            <4>2. m - p = n - p
                BY <4>1, <2>1, <2>4 DEF ReportsAre
            <4> QED  BY <3>2, <4>2, <1>6
        <3>3. CASE m \in 1 .. p /\ n \in p + 1 .. p + q
            BY <3>3, <2>1, <2>4, <1>6, <1>8 DEF ReportsAre
        <3>4. CASE m \in p + 1 .. p + q /\ n \in 1 .. p
            BY <3>4, <2>1, <2>4, <1>6, <1>8 DEF ReportsAre
        <3> QED  BY <3>1, <3>2, <3>3, <3>4, <1>8
    <2> QED  BY <2>2, <2>3, <2>4 DEF ReportsAre
<1>10. HooksBefore(mod, R, N1 \cup N2)
    <2> SUFFICES ASSUME NEW n \in DOMAIN R, R[n].kind = "report"
                 PROVE  LET t == R[n].test IN
                        /\ Before(R, n, "fn", t, t)
                        /\ \A x \in ToSet(PathOf(t)) :
                            /\ \A kind \in {"beforeEach", "afterEach"} \cap hooks[x] : Before(R, n, kind, x, t)
                            /\ x \in N1 \cup N2 /\ "beforeAll" \in hooks[x] /\ (x \in File \/ mod[x] # "skip") =>
                                   Before(R, n, "beforeAll", x, x)
        BY DEF HooksBefore
    <2> DEFINE t == R[n].test
    <2>1. n \in Reports(R)
        BY KindsDiffer DEF Reports
    <2>2. CASE n \in 1 .. p
        <3>1. n \in Reports(P) /\ n \in DOMAIN P /\ R[n] = P[n] /\ t \in T1
            BY <2>1, <2>2, <1>6, <1>8 DEF ReportsAre, Sound, Reports
        <3>2. \A kind, of, test : Before(P, n, kind, of, test) => Before(R, n, kind, of, test)
            <4>1. \A k \in 1 .. n - 1 : R[k] = P[k]
                BY <2>2, <1>2
            <4> QED  BY <4>1 DEF Before
        <3>3. HooksBefore(mod, P, N1)
            BY DEF Sound
        <3>4. \A x \in ToSet(PathOf(t)) : x \in N1 \cup N2 => x \in N1
            BY <3>1
        <3> QED  BY <3>1, <3>2, <3>3, <3>4 DEF HooksBefore
    <2>3. CASE n \in p + 1 .. p + q
        <3>1. n - p \in Reports(Q) /\ n - p \in DOMAIN Q /\ R[n] = Q[n - p] /\ t \in T2
            BY <2>1, <2>3, <1>6, <1>8 DEF ReportsAre, Sound, Reports
        <3>2. ASSUME NEW kind, NEW of, NEW test, Before(Q, n - p, kind, of, test)
              PROVE  Before(R, n, kind, of, test)
            <4>1. PICK k \in 1 .. (n - p) - 1 : Q[k] = [kind |-> kind, of |-> of, test |-> test]
                BY <3>2 DEF Before
            <4>2. k \in 1 .. q /\ p + k \in 1 .. n - 1
                BY <2>3, <1>2
            <4>3. R[p + k] = Q[k]
                BY <4>2, <1>2
            <4> QED  BY <4>1, <4>2, <4>3 DEF Before
        <3>3. HooksBefore(mod, Q, N2)
            BY DEF Sound
        <3>4. \A x \in ToSet(PathOf(t)) : x \in N1 \cup N2 => x \in N2
            BY <3>1
        <3> QED  BY <3>1, <3>2, <3>3, <3>4 DEF HooksBefore
    <2> QED  BY <2>2, <2>3, <1>5, <1>6
<1>11. Inside(R, N1 \cup N2, T1 \cup T2)
    BY <1>3 DEF Inside, Sound
<1>12. CleanupAfter(R)
    <2> SUFFICES ASSUME NEW k \in DOMAIN R, R[k].kind = "afterAll",
                        NEW n \in k + 1 .. Len(R), R[n].kind = "fn"
                 PROVE  R[k].of \notin ToSet(PathOf(R[n].of))
        BY DEF CleanupAfter
    <2>1. n \in 1 .. p + q /\ k \in 1 .. p + q
        BY <1>2, <1>5
    <2>2. CASE k \in 1 .. p /\ n \in 1 .. p
        <3>1. n \in k + 1 .. Len(P)
            BY <2>2, <1>2 DEF p
        <3> QED  BY <2>2, <3>1, <1>2, <1>4 DEF CleanupAfter, Sound
    <2>3. CASE k \in 1 .. p /\ n \in p + 1 .. p + q
        <3>1. P[k] \in ToSet(P) /\ Q[n - p] \in ToSet(Q) /\ R[k] = P[k] /\ R[n] = Q[n - p]
            BY <2>3, <1>2, <1>4, <1>6 DEF ToSet
        <3>2. R[k].of \in N1 /\ R[n].of \in T2
            BY <3>1 DEF Inside, Sound
        <3> QED  BY <3>2
    <2>4. CASE k \in p + 1 .. p + q
        <3>1. k - p \in DOMAIN Q /\ n - p \in (k - p) + 1 .. Len(Q) /\ n \in p + 1 .. p + q
            BY <2>4, <1>2, <1>4 DEF q
        <3>2. R[k] = Q[k - p] /\ R[n] = Q[n - p]
            BY <2>4, <3>1, <1>2
        <3> QED  BY <3>1, <3>2 DEF CleanupAfter, Sound
    <2> QED  BY <2>1, <2>2, <2>3, <2>4, <1>6
<1>13. CleanedUp(R)
    BY <1>3 DEF CleanedUp, Sound
<1> QED  BY <1>2, <1>7, <1>9, <1>10, <1>11, <1>12, <1>13 DEF Sound, R

LEMMA NothingSound == ASSUME NEW mod PROVE Sound(mod, <<>>, {}, {})
<1>1. <<>> \in Seq(Call) /\ DOMAIN <<>> = {} /\ ToSet(<<>>) = {} /\ Reports(<<>>) = {}
    BY DEF ToSet, Reports
<1> QED
    BY <1>1 DEF Sound, TestsStandTogether, ReportsAre, HooksBefore, Inside, CleanupAfter, CleanedUp

(* Parts one after the other, of different tests and nodes. *)
LEMMA SoundFlatten ==
    ASSUME NEW mod, NEW seqs \in Seq(Seq(Call)), NEW NN, NEW TT,
           \A i \in DOMAIN seqs : Sound(mod, seqs[i], NN[i], TT[i]),
           \A i, j \in DOMAIN seqs : i # j =>
               /\ TT[i] \cap TT[j] = {}
               /\ \A t \in TT[i] : NN[j] \cap ToSet(PathOf(t)) = {}
    PROVE  \A N, T :
               /\ \A y : y \in N <=> \E i \in DOMAIN seqs : y \in NN[i]
               /\ \A y : y \in T <=> \E i \in DOMAIN seqs : y \in TT[i]
               => FlattenSeq(seqs) \in Seq(Call) /\ Sound(mod, FlattenSeq(seqs), N, T)
<1> DEFINE D == DOMAIN seqs
           allN == UNION {NN[i] : i \in D}
           allT == UNION {TT[i] : i \in D}
<1>1. ASSUME Len(seqs) = 0 PROVE Sound(mod, FlattenSeq(seqs), allN, allT)
    <2>1. seqs = <<>> /\ FlattenSeq(seqs) = <<>>
        BY <1>1 DEF FlattenSeq
    <2>2. DOMAIN seqs = {}
        BY <2>1
    <2>3. allN = {} /\ allT = {}
        BY <2>2
    <2> QED  BY <2>1, <2>3, NothingSound
<1>2. ASSUME Len(seqs) > 0 PROVE Sound(mod, FlattenSeq(seqs), allN, allT)
    <2> DEFINE n == Len(seqs)
               Ns(i) == UNION {NN[j] : j \in 1 .. i}
               Ts(i) == UNION {TT[j] : j \in 1 .. i}
    <2>1. PICK F \in [1 .. n -> Seq(Call)] :
              /\ FlattenSeq(seqs) = F[n]
              /\ \A i \in 1 .. n : F[i] = IF i = 1 THEN seqs[i] ELSE F[i - 1] \o seqs[i]
        BY <1>2, FlattenIs
    <2>2. n \in Nat /\ DOMAIN seqs = 1 .. n /\ n \in 1 .. n
        BY <1>2
    <2> DEFINE U == {i \in 1 .. n : ~Sound(mod, F[i], Ns(i), Ts(i))}
    <2> HIDE DEF n
    <2>3. U = {}
        <3>1. SUFFICES ASSUME U # {} PROVE FALSE
            OBVIOUS
        <3>2. U \in SUBSET Nat
            BY <2>2
        <3>3. PICK i \in U : \A j \in U : i <= j
            BY <3>1, <3>2, Least
        <3>4. i \in 1 .. n /\ i \in Nat /\ ~Sound(mod, F[i], Ns(i), Ts(i))
            BY <2>2
        <3>5. CASE i = 1
            <4>1. 1 .. i = {1}
                BY <3>5
            <4>2. Ns(i) = NN[1] /\ Ts(i) = TT[1]
                BY <4>1
            <4>3. F[i] = seqs[1] /\ Sound(mod, seqs[1], NN[1], TT[1])
                BY <2>1, <2>2, <3>4, <3>5
            <4> QED  BY <3>4, <4>2, <4>3
        <3>6. CASE i # 1
            <4> HIDE DEF U
            <4>1. i - 1 \in 1 .. n /\ i - 1 \notin U
                BY <3>2, <3>3, <3>4, <3>6, <2>2
            <4>2. Sound(mod, F[i - 1], Ns(i - 1), Ts(i - 1))
                BY <4>1 DEF U
            <4>3. F[i] = F[i - 1] \o seqs[i] /\ Sound(mod, seqs[i], NN[i], TT[i])
                BY <2>1, <2>2, <3>4, <3>6
            <4>4. 1 .. i = (1 .. i - 1) \cup {i} /\ \A j \in 1 .. i - 1 : j \in 1 .. n /\ j # i
                BY <3>4, <2>2, <4>1
            <4>5. Ns(i) = Ns(i - 1) \cup NN[i] /\ Ts(i) = Ts(i - 1) \cup TT[i]
                BY <4>4
            <4>place. i \in DOMAIN seqs /\ \A j \in 1 .. i - 1 : j \in DOMAIN seqs /\ j # i
                BY <2>2, <3>4, <4>4
            <4>apart. \A j \in 1 .. i - 1 :
                      /\ TT[j] \cap TT[i] = {}
                      /\ \A t \in TT[i] : NN[j] \cap ToSet(PathOf(t)) = {}
                      /\ \A t \in TT[j] : NN[i] \cap ToSet(PathOf(t)) = {}
                <5> HIDE DEF Ns, Ts, n
                <5> QED  BY <4>place
            <4>6. Ts(i - 1) \cap TT[i] = {}
                BY <4>apart
            <4>7. \A t \in TT[i] : Ns(i - 1) \cap ToSet(PathOf(t)) = {}
                BY <4>apart
            <4>8. \A t \in Ts(i - 1) : NN[i] \cap ToSet(PathOf(t)) = {}
                BY <4>apart
            <4> HIDE DEF Ns, Ts
            <4>9. Sound(mod, F[i - 1] \o seqs[i], Ns(i - 1) \cup NN[i], Ts(i - 1) \cup TT[i])
                BY <4>2, <4>3, <4>6, <4>7, <4>8, SoundCat
            <4> QED  BY <3>4, <4>3, <4>5, <4>9
        <3> QED  BY <3>5, <3>6
    <2>4. Sound(mod, F[n], Ns(n), Ts(n))
        BY <2>2, <2>3
    <2>5. Ns(n) = allN /\ Ts(n) = allT
        BY <2>2
    <2> HIDE DEF Ns, Ts, allN, allT
    <2> QED  BY <2>1, <2>4, <2>5
<1>3. Len(seqs) \in Nat
    OBVIOUS
<1>4. Sound(mod, FlattenSeq(seqs), allN, allT)
    BY <1>1, <1>2, <1>3
<1>5. FlattenSeq(seqs) \in Seq(Call)
    BY <1>4 DEF Sound
<1> HIDE DEF D, allN, allT
<1> SUFFICES ASSUME NEW N, NEW T,
                    \A y : y \in N <=> \E i \in D : y \in NN[i],
                    \A y : y \in T <=> \E i \in D : y \in TT[i]
             PROVE  Sound(mod, FlattenSeq(seqs), N, T)
    BY <1>5 DEF D
<1>6. N = allN /\ T = allT
    BY DEF allN, allT
<1> QED  BY <1>4, <1>6

(* A part with the hooks of a node around it. *)
LEMMA SoundAround ==
    ASSUME NEW mod, NEW P, NEW N, NEW T, Sound(mod, P, N, T), NEW x \in Node, x \notin N, NEW r \in BOOLEAN,
           \A t \in T : ReportKind(mod, t) = "report" /\ (x \in File \/ mod[x] # "skip") => r
    PROVE  Sound(mod, (IF r THEN RunHooks("beforeAll", <<x>>, x) ELSE <<>>) \o P
                      \o (IF r THEN RunHooks("afterAll", <<x>>, x) ELSE <<>>),
                 N \cup {x}, T)
<1> DEFINE B == IF r THEN RunHooks("beforeAll", <<x>>, x) ELSE <<>>
           A == IF r THEN RunHooks("afterAll", <<x>>, x) ELSE <<>>
           R == B \o P \o A
           before == [kind |-> "beforeAll", of |-> x, test |-> x]
           after == [kind |-> "afterAll", of |-> x, test |-> x]
           p == Len(P)
           b == Len(B)
           a == Len(A)
<1>1. P \in Seq(Call)
    BY DEF Sound
<1>2. /\ B \in Seq(Call) /\ B = IF r /\ "beforeAll" \in hooks[x] THEN <<before>> ELSE <<>>
      /\ A \in Seq(Call) /\ A = IF r /\ "afterAll" \in hooks[x] THEN <<after>> ELSE <<>>
    BY RunHooksOfOne, KindsDiffer
<1>3. /\ ToSet(B) = IF r /\ "beforeAll" \in hooks[x] THEN {before} ELSE {}
      /\ ToSet(A) = IF r /\ "afterAll" \in hooks[x] THEN {after} ELSE {}
      /\ \A k \in 1 .. b : B[k] = before
      /\ \A k \in 1 .. a : A[k] = after
      /\ r /\ "beforeAll" \in hooks[x] => b = 1
    <2> HIDE DEF A, B, before, after
    <2> QED  BY <1>2 DEF ToSet
<1>4. before.kind = "beforeAll" /\ before.of = x /\ after.kind = "afterAll" /\ after.of = x
    OBVIOUS
<1> HIDE DEF A, B, before, after
<1>5. /\ R \in Seq(Call) /\ Len(R) = b + p + a /\ p \in Nat /\ a \in Nat /\ b \in Nat
      /\ \A k \in 1 .. b : R[k] = before
      /\ \A k \in 1 .. p : R[b + k] = P[k]
      /\ \A k \in b + p + 1 .. b + p + a : R[k] = after
    <2> DEFINE Q == B \o P
    <2>1. /\ Q \in Seq(Call) /\ Len(Q) = b + p /\ p \in Nat /\ b \in Nat /\ a \in Nat
          /\ \A k \in 1 .. b : Q[k] = B[k]
          /\ \A k \in 1 .. p : Q[b + k] = P[k]
        BY <1>1, <1>2, CatIs
    <2> HIDE DEF Q
    <2>2. /\ Q \o A \in Seq(Call) /\ Len(Q \o A) = Len(Q) + Len(A)
          /\ \A k \in 1 .. Len(Q) : (Q \o A)[k] = Q[k]
          /\ \A k \in Len(Q) + 1 .. Len(Q) + Len(A) : (Q \o A)[k] = A[k - Len(Q)]
        <3>1. Q \in Seq(Call) /\ A \in Seq(Call)
            BY <2>1, <1>2
        <3> QED  BY <3>1, CatIs
    <2>3. R = Q \o A
        BY DEF Q
    <2> HIDE DEF R, a, b, p
    <2>4. /\ \A k \in 1 .. b : k \in 1 .. b + p
          /\ \A k \in 1 .. p : b + k \in 1 .. b + p
          /\ \A k \in b + p + 1 .. b + p + a : k - (b + p) \in 1 .. a
        BY <2>1
    <2>5. R \in Seq(Call) /\ Len(R) = b + p + a
        BY <2>1, <2>2, <2>3 DEF a
    <2>6. /\ \A k \in 1 .. b + p : R[k] = Q[k]
          /\ \A k \in b + p + 1 .. b + p + a : R[k] = A[k - (b + p)]
        BY <2>1, <2>2, <2>3 DEF a
    <2> QED  BY <1>3, <2>1, <2>4, <2>5, <2>6
<1>6. ToSet(R) = ToSet(B) \cup ToSet(P) \cup ToSet(A)
    <2>1. B \o P \in Seq(Call) /\ ToSet(B \o P) = ToSet(B) \cup ToSet(P)
        BY <1>1, <1>2, CatIs, CatSet
    <2> DEFINE Q == B \o P
    <2> HIDE DEF Q
    <2>2. ToSet(Q \o A) = ToSet(Q) \cup ToSet(A)
        <3>1. Q \in Seq(Call) /\ A \in Seq(Call)
            BY <2>1, <1>2 DEF Q
        <3> QED  BY <3>1, CatSet
    <2> QED  BY <2>1, <2>2 DEF Q
<1>7. DOMAIN P = 1 .. p
    BY <1>1
<1>8. DOMAIN R = 1 .. b + p + a
    BY <1>5
<1> HIDE DEF R, p, a, b
<1>9. /\ \A k \in 1 .. b + p + a : k \in 1 .. b \/ k \in b + p + 1 .. b + p + a \/ (k - b \in 1 .. p /\ k = b + (k - b))
      /\ \A k \in 1 .. p : b + k \in 1 .. b + p + a
    BY <1>5
<1>10. \A k \in DOMAIN R : R[k].kind \notin {"beforeAll", "afterAll"} => k - b \in 1 .. p /\ R[k] = P[k - b] /\ k = b + (k - b)
    BY <1>4, <1>5, <1>8, <1>9
<1>11. TestsStandTogether(R)
    <2> SUFFICES ASSUME NEW k \in DOMAIN R, R[k].kind \in InTest
                 PROVE  \E n \in k + 1 .. Len(R) : OneTest(R, k, n)
        BY DEF TestsStandTogether
    <2> DEFINE i == k - b
    <2>1. i \in 1 .. p /\ R[k] = P[i] /\ k = b + i /\ i \in Nat
        BY <1>10, <1>5, KindsDiffer
    <2> HIDE DEF i
    <2>2. PICK m \in i + 1 .. p : OneTest(P, i, m)
        BY <2>1, <1>7 DEF TestsStandTogether, Sound, p
    <2>3. /\ b + m \in k + 1 .. b + p + a /\ m \in 1 .. p
          /\ \A j \in k .. (b + m) - 1 : j - b \in i .. m - 1 /\ j - b \in 1 .. p /\ j = b + (j - b)
          /\ \A j \in i .. m - 1 : b + j \in k .. (b + m) - 1 /\ j \in 1 .. p
        BY <2>1, <1>5
    <2>4. /\ R[b + m] = P[m]
          /\ \A j \in k .. (b + m) - 1 : R[j] = P[j - b]
          /\ \A j \in i .. m - 1 : R[b + j] = P[j]
        BY <2>3, <1>5
    <2>5. /\ R[b + m].kind = "report"
          /\ \A j \in k .. (b + m) - 1 : R[j].kind \in InTest /\ R[j].test = R[b + m].test
        BY <2>2, <2>3, <2>4 DEF OneTest
    <2>6. R[k].kind = "beforeEach" => \E j \in k .. (b + m) - 1 : R[j].kind = "fn"
        BY <2>1, <2>2, <2>3, <2>4 DEF OneTest
    <2>7. OneTest(R, k, b + m)
        BY <2>5, <2>6 DEF OneTest
    <2> QED  BY <2>3, <2>7, <1>5
<1>12. /\ \A n \in Reports(R) : n - b \in Reports(P) /\ R[n] = P[n - b] /\ n = b + (n - b)
       /\ \A n \in Reports(P) : b + n \in Reports(R) /\ R[b + n] = P[n]
    BY <1>5, <1>7, <1>8, <1>9, <1>10, KindsDiffer DEF Reports
<1>13. ReportsAre(mod, R, T)
    <2>1. ReportsAre(mod, P, T)
        BY DEF Sound
    <2>2. ASSUME NEW m \in Reports(R), NEW n \in Reports(R), R[m].test = R[n].test PROVE m = n
        <3>1. m - b = n - b
            BY <2>1, <2>2, <1>12 DEF ReportsAre
        <3> QED  BY <3>1, <1>12
    <2> QED  BY <2>1, <2>2, <1>12 DEF ReportsAre
<1>14. HooksBefore(mod, R, N \cup {x})
    <2> SUFFICES ASSUME NEW n \in DOMAIN R, R[n].kind = "report"
                 PROVE  LET t == R[n].test IN
                        /\ Before(R, n, "fn", t, t)
                        /\ \A y \in ToSet(PathOf(t)) :
                            /\ \A kind \in {"beforeEach", "afterEach"} \cap hooks[y] : Before(R, n, kind, y, t)
                            /\ y \in N \cup {x} /\ "beforeAll" \in hooks[y] /\ (y \in File \/ mod[y] # "skip") =>
                                   Before(R, n, "beforeAll", y, y)
        BY DEF HooksBefore
    <2> DEFINE t == R[n].test
    <2>1. n - b \in 1 .. p /\ R[n] = P[n - b] /\ n - b \in DOMAIN P
        BY <1>7, <1>10
    <2>2. t \in T /\ ReportKind(mod, t) = "report"
        <3>1. n - b \in Reports(P)
            BY <2>1, KindsDiffer DEF Reports
        <3> QED  BY <2>1, <3>1 DEF ReportsAre, Sound
    <2>3. ASSUME NEW kind, NEW of, NEW test, Before(P, n - b, kind, of, test)
          PROVE  Before(R, n, kind, of, test)
        <3>1. PICK k \in 1 .. (n - b) - 1 : P[k] = [kind |-> kind, of |-> of, test |-> test]
            BY <2>3 DEF Before
        <3>2. k \in 1 .. p /\ b + k \in 1 .. n - 1
            BY <2>1, <1>5, <1>8
        <3>3. R[b + k] = P[k]
            BY <3>2, <1>5
        <3> QED  BY <3>1, <3>2, <3>3 DEF Before
    <2>4. HooksBefore(mod, P, N)
        BY DEF Sound
    <2>5. ASSUME "beforeAll" \in hooks[x], x \in File \/ mod[x] # "skip"
          PROVE  Before(R, n, "beforeAll", x, x)
        <3>1. b = 1
            BY <2>2, <2>5, <1>3
        <3>2. 1 \in 1 .. n - 1 /\ R[1] = before
            BY <3>1, <2>1, <1>5, <1>8
        <3> QED  BY <3>2 DEF Before, before
    <2> QED  BY <2>1, <2>3, <2>4, <2>5 DEF HooksBefore
<1>15. Inside(R, N \cup {x}, T)
    BY <1>3, <1>4, <1>6 DEF Inside, Sound
<1>16. CleanupAfter(R)
    <2> SUFFICES ASSUME NEW k \in DOMAIN R, R[k].kind = "afterAll",
                        NEW n \in k + 1 .. Len(R), R[n].kind = "fn"
                 PROVE  R[k].of \notin ToSet(PathOf(R[n].of))
        BY DEF CleanupAfter
    <2>1. n \in DOMAIN R /\ n > k /\ k \in Nat /\ n \in Nat /\ k >= 1
        BY <1>5, <1>8
    <2>2. n - b \in 1 .. p /\ R[n] = P[n - b] /\ n - b \in DOMAIN P
        BY <2>1, <1>7, <1>10
    <2>3. k \notin 1 .. b
        BY <1>4, <1>5
    <2>4. k \notin b + p + 1 .. b + p + a
        BY <2>1, <2>2, <1>5
    <2>5. k - b \in 1 .. p /\ k = b + (k - b)
        BY <2>3, <2>4, <1>8, <1>9
    <2>6. R[k] = P[k - b]
        BY <2>5, <1>5
    <2>7. k - b \in DOMAIN P /\ n - b \in (k - b) + 1 .. Len(P)
        BY <2>1, <2>2, <2>5, <1>5, <1>7 DEF p
    <2> QED  BY <2>2, <2>6, <2>7 DEF CleanupAfter, Sound
<1>17. CleanedUp(R)
    <2> SUFFICES ASSUME NEW y \in Node, "afterAll" \in hooks[y],
                        [kind |-> "beforeAll", of |-> y, test |-> y] \in ToSet(R)
                 PROVE  [kind |-> "afterAll", of |-> y, test |-> y] \in ToSet(R)
        BY DEF CleanedUp
    <2> DEFINE first == [kind |-> "beforeAll", of |-> y, test |-> y]
               last == [kind |-> "afterAll", of |-> y, test |-> y]
    <2>1. CASE first \in ToSet(P)
        <3>1. CleanedUp(P)
            BY DEF Sound
        <3>2. last \in ToSet(P)
            BY <2>1, <3>1 DEF CleanedUp
        <3> QED  BY <3>2, <1>6
    <2>2. CASE first \notin ToSet(P)
        <3>1. first.kind = "beforeAll" /\ first.of = y
            OBVIOUS
        <3>2. first \in ToSet(B) \/ first \in ToSet(A)
            BY <2>2, <1>6
        <3>3. first = before /\ r
            BY <3>1, <3>2, <1>3, <1>4
        <3>4. y = x
            BY <3>1, <3>3, <1>4
        <3>5. last \in ToSet(A)
            BY <3>3, <3>4, <1>3 DEF after
        <3> QED  BY <3>5, <1>6
    <2> QED  BY <2>1, <2>2
<1>18. Sound(mod, R, N \cup {x}, T)
    BY <1>5, <1>11, <1>13, <1>14, <1>15, <1>16, <1>17 DEF Sound
<1> QED  BY <1>18 DEF R, A, B

-----------------------------------------------------------------------------
(* What is around a node, and what is in it. *)

Above(x)   == ToSet(Path[x])
Nodes(x)   == {y \in Node : x \in Above(y)}
TestsIn(x) == {t \in Test : x \in ToSet(PathOf(t))}

(* Some node of a set has its parent outside.                              *)
LEMMA Outermost ==
    ASSUME NEW T \in SUBSET Node, T # {}
    PROVE  \E x \in T : x \in File \/ (x \in Suite /\ Parent(x) \in Node \ T)
<1>1. CASE T \cap File # {}
    BY <1>1
<1>2. CASE T \cap File = {}
    <2>1. T \in SUBSET Suite
        BY <1>2 DEF Node
    <2>2. PICK s \in T : Parent(s) \notin T
        BY <2>1, TreeAssumption
    <2> QED  BY <2>1, <2>2, TreeIs
<1> QED  BY <1>1, <1>2

(* Some node of a set has all suites in it outside.                        *)
LEMMA Innermost ==
    ASSUME NEW T \in SUBSET Node, T # {}
    PROVE  \E x \in T : \A n \in DOMAIN suites[x] : suites[x][n] \notin T
<1>1. \A x \in Node : \A n \in DOMAIN suites[x] : suites[x][n] \in Suite
    BY TreeIs
<1>2. CASE T \cap Suite = {}
    BY <1>1, <1>2
<1>3. CASE T \cap Suite # {}
    <2>1. PICK s \in T \cap Suite : ToSet(suites[s]) \cap (T \cap Suite) = {}
        <3>1. T \cap Suite \in SUBSET Suite
            OBVIOUS
        <3> QED  BY <1>3, <3>1, TreeAssumption
    <2>2. \A n \in DOMAIN suites[s] : suites[s][n] \in ToSet(suites[s])
        BY DEF ToSet
    <2> QED  BY <1>1, <2>1, <2>2
<1> QED  BY <1>2, <1>3

(* What is above a node: its parent, and what is above that.               *)
LEMMA AboveIs ==
    /\ \A x \in Node : x \in File \/ (x \in Suite /\ Parent(x) \in Node)
    /\ \A f \in File : Above(f) = {f} /\ Head(Path[f]) = f /\ f \notin Suite
    /\ \A s \in Suite : Above(s) = Above(Parent(s)) \cup {s} /\ Head(Path[s]) = Head(Path[Parent(s)])
    /\ \A x \in Node : x \in Above(x) /\ Above(x) \subseteq Node
<1>1. \A x \in Node : x \in File \/ (x \in Suite /\ Parent(x) \in Node)
    BY TreeIs DEF Node
<1>2. \A x \in Node : Path[x] \in Seq(Node)
    BY PathIs
<1>3. ASSUME NEW f \in File PROVE Above(f) = {f} /\ Head(Path[f]) = f /\ f \notin Suite
    <2>1. Path[f] = <<f>>
        BY PathIs DEF Node
    <2> QED  BY <2>1, TreeAssumption DEF Above, ToSet
<1>4. ASSUME NEW x \in Node PROVE Path[x] # <<>>
    <2>1. CASE x \in File
        <3>1. Path[x] = <<x>>
            BY <2>1, PathIs
        <3> QED  BY <3>1
    <2>2. CASE x \notin File
        <3>1. Path[x] = Append(Path[Parent(x)], x) /\ Path[Parent(x)] \in Seq(Node)
            BY <2>2, <1>1, <1>2, PathIs
        <3> DEFINE p == Path[Parent(x)]
        <3> HIDE DEF p
        <3>2. p \in Seq(Node) => Append(p, x) # <<>>
            BY AppendProperties
        <3> QED  BY <3>1, <3>2 DEF p
    <2> QED  BY <2>1, <2>2
<1>5. ASSUME NEW s \in Suite
      PROVE  Above(s) = Above(Parent(s)) \cup {s} /\ Head(Path[s]) = Head(Path[Parent(s)])
    <2>1. s \in Node /\ s \notin File /\ Parent(s) \in Node
        BY TreeIs, TreeAssumption DEF Node
    <2> DEFINE p == Path[Parent(s)]
    <2>2. Path[s] = Append(p, s) /\ p \in Seq(Node) /\ p # <<>>
        BY <2>1, <1>2, <1>4, PathIs
    <2> HIDE DEF p
    <2>3. Append(p, s) = p \o <<s>> /\ <<s>> \in Seq(Node)
        BY <2>1, <2>2
    <2>4. ToSet(p \o <<s>>) = ToSet(p) \cup ToSet(<<s>>)
        BY <2>2, <2>3, CatSet
    <2>5. ToSet(<<s>>) = {s}
        BY DEF ToSet
    <2>6. Head(Append(p, s)) = Head(p)
        BY <2>1, <2>2
    <2> QED  BY <2>2, <2>3, <2>4, <2>5, <2>6 DEF Above, p
<1>6. \A x \in Node : x \in Above(x)
    BY <1>1, <1>3, <1>5
<1>7. \A x \in Node : Above(x) \subseteq Node
    BY <1>2 DEF Above, ToSet
<1> QED  BY <1>1, <1>3, <1>5, <1>6, <1>7

LEMMA AboveAbove ==
    ASSUME NEW x \in Node, NEW y \in Above(x) PROVE Above(y) \subseteq Above(x)
<1> DEFINE T == {u \in Node : \E v \in Above(u) : ~(Above(v) \subseteq Above(u))}
<1>1. SUFFICES ASSUME T # {} PROVE FALSE
    OBVIOUS
<1>2. PICK u \in T : u \in File \/ (u \in Suite /\ Parent(u) \in Node \ T)
    BY <1>1, Outermost
<1>3. PICK v \in Above(u) : ~(Above(v) \subseteq Above(u))
    OBVIOUS
<1>4. CASE u \in File
    BY <1>3, <1>4, AboveIs
<1>5. CASE u \in Suite /\ Parent(u) \in Node \ T
    <2>1. v = u \/ v \in Above(Parent(u))
        BY <1>5, AboveIs
    <2>2. v \in Above(Parent(u)) => Above(v) \subseteq Above(Parent(u))
        BY <1>5
    <2> QED  BY <1>3, <1>5, <2>1, <2>2, AboveIs
<1> QED  BY <1>2, <1>4, <1>5

LEMMA ParentAbove == ASSUME NEW s \in Suite PROVE Parent(s) \in Above(s) /\ s \in Node /\ Parent(s) \in Node
BY AboveIs, TreeIs DEF Node

(* No node is above itself by way of another.                              *)
LEMMA AboveOnce ==
    ASSUME NEW x \in Node, NEW y \in Node, x \in Above(y), y \in Above(x) PROVE x = y
<1> SUFFICES ASSUME x # y PROVE FALSE
    OBVIOUS
<1> DEFINE T == {u \in Node : u \in Above(x) /\ x \in Above(u)}
<1>1. x \in T
    BY AboveIs
<1>2. PICK u \in T : u \in File \/ (u \in Suite /\ Parent(u) \in Node \ T)
    BY <1>1, Outermost
<1>3. Above(u) = Above(x)
    BY AboveAbove
<1>4. u \in File => FALSE
    BY <1>3, AboveIs
<1>5. CASE u \in Suite /\ Parent(u) \in Node \ T
    <2>1. Parent(u) \in Above(x)
        BY <1>3, <1>5, ParentAbove
    <2>2. x \notin Above(Parent(u)) /\ y \notin Above(Parent(u))
        <3>1. x \notin Above(Parent(u))
            BY <1>5, <2>1
        <3>2. y \in Above(Parent(u)) => Above(y) \subseteq Above(Parent(u))
            BY <1>5, AboveAbove
        <3> QED  BY <3>1, <3>2
    <2>3. x = u /\ y = u
        BY <1>3, <1>5, <2>2, AboveIs
    <2> QED  BY <2>3
<1> QED  BY <1>2, <1>4, <1>5

LEMMA ParentNotIn == ASSUME NEW s \in Suite PROVE s \notin Above(Parent(s)) /\ Parent(s) # s
<1>1. Parent(s) # s
    BY TreeAssumption, {s} \in SUBSET Suite, {s} # {}
<1> QED  BY <1>1, ParentAbove, AboveOnce

(* What is above a node is one above the other.                            *)
LEMMA AboveChain ==
    ASSUME NEW x \in Node, NEW y \in Above(x), NEW z \in Above(x) PROVE y \in Above(z) \/ z \in Above(y)
<1> DEFINE T == {u \in Node : \E v, w \in Above(u) : v \notin Above(w) /\ w \notin Above(v)}
<1>1. SUFFICES ASSUME T # {} PROVE FALSE
    OBVIOUS
<1>2. PICK u \in T : u \in File \/ (u \in Suite /\ Parent(u) \in Node \ T)
    BY <1>1, Outermost
<1>3. PICK v \in Above(u), w \in Above(u) : v \notin Above(w) /\ w \notin Above(v)
    OBVIOUS
<1>4. v # u /\ w # u
    BY <1>3
<1> QED  BY <1>2, <1>3, <1>4, AboveIs

(* Of the suites in one node only one is above a node.                     *)
LEMMA Siblings ==
    ASSUME NEW x \in Node, NEW c \in Above(x) \cap Suite, NEW d \in Above(x) \cap Suite, Parent(c) = Parent(d)
    PROVE  c = d
<1>1. ASSUME NEW u \in Suite, NEW v \in Suite, Parent(u) = Parent(v), u \in Above(v) PROVE u = v
    <2>1. u = v \/ u \in Above(Parent(u))
        BY <1>1, AboveIs
    <2> QED  BY <2>1, ParentNotIn
<1>2. c \in Above(d) \/ d \in Above(c)
    BY AboveChain
<1> QED  BY <1>1, <1>2

(* Below a node on the path of another is one of its suites on that path.  *)
LEMMA ChildAbove ==
    ASSUME NEW x \in Node, NEW s \in Above(x), s # x
    PROVE  \E c \in Suite : c \in Above(x) /\ Parent(c) = s
<1> DEFINE T == {u \in Node : \E v \in Above(u) : v # u /\ ~\E c \in Suite : c \in Above(u) /\ Parent(c) = v}
<1>1. SUFFICES ASSUME T # {} PROVE FALSE
    OBVIOUS
<1>2. PICK u \in T : u \in File \/ (u \in Suite /\ Parent(u) \in Node \ T)
    BY <1>1, Outermost
<1>3. PICK v \in Above(u) : v # u /\ ~\E c \in Suite : c \in Above(u) /\ Parent(c) = v
    OBVIOUS
<1>4. u \in Suite /\ Parent(u) \in Node \ T /\ v \in Above(Parent(u))
    BY <1>2, <1>3, AboveIs
<1>5. v # Parent(u)
    BY <1>3, <1>4, AboveIs
<1>6. PICK c \in Suite : c \in Above(Parent(u)) /\ Parent(c) = v
    BY <1>4, <1>5
<1> QED  BY <1>3, <1>4, <1>6, AboveIs

(* The path starts with a file, the same for all that is on it.            *)
LEMMA RootIs ==
    ASSUME NEW x \in Node
    PROVE  /\ Head(Path[x]) \in File /\ Head(Path[x]) \in Above(x)
           /\ \A y \in Above(x) : Head(Path[y]) = Head(Path[x])
<1> DEFINE root(u) == Head(Path[u])
           T == {u \in Node : ~(/\ root(u) \in File /\ root(u) \in Above(u)
                                /\ \A v \in Above(u) : root(v) = root(u))}
<1>1. SUFFICES ASSUME T # {} PROVE FALSE
    OBVIOUS
<1>2. PICK u \in T : u \in File \/ (u \in Suite /\ Parent(u) \in Node \ T)
    BY <1>1, Outermost
<1>3. u \in Node /\ ~(root(u) \in File /\ root(u) \in Above(u) /\ \A v \in Above(u) : root(v) = root(u))
    OBVIOUS
<1>4. CASE u \in File
    BY <1>3, <1>4, AboveIs
<1>5. CASE u \in Suite /\ Parent(u) \in Node \ T
    <2>1. /\ root(Parent(u)) \in File /\ root(Parent(u)) \in Above(Parent(u))
          /\ \A v \in Above(Parent(u)) : root(v) = root(Parent(u))
        BY <1>5
    <2>2. root(u) = root(Parent(u)) /\ Above(u) = Above(Parent(u)) \cup {u}
        BY <1>5, AboveIs
    <2> HIDE DEF root, T
    <2> QED  BY <1>3, <2>1, <2>2
<1> QED  BY <1>2, <1>4, <1>5

(* A test is in a node if its suite is.                                    *)
LEMMA TestIn ==
    ASSUME NEW t \in Test, NEW x \in Node
    PROVE  /\ ToSet(PathOf(t)) = Above(SuiteOf(t))
           /\ t \in TestsIn(x) <=> SuiteOf(t) \in Nodes(x)
BY PathOfTest DEF TestsIn, Nodes, Above

(* What is in a node: itself, its tests, and what is in its suites.        *)
LEMMA ChildrenIn ==
    ASSUME NEW x \in Node
    PROVE  /\ Nodes(x) = {x} \cup UNION {Nodes(suites[x][n]) : n \in DOMAIN suites[x]}
           /\ x \in Suite => TestsIn(x) = {tests[x][n] : n \in DOMAIN tests[x]}
                                          \cup UNION {TestsIn(suites[x][n]) : n \in DOMAIN suites[x]}
           /\ x \in File => TestsIn(x) = UNION {TestsIn(suites[x][n]) : n \in DOMAIN suites[x]}
<1>1. \A n \in DOMAIN suites[x] : suites[x][n] \in Suite /\ suites[x][n] \in Node /\ Parent(suites[x][n]) = x
    BY TreeIs DEF Node
<1>2. ASSUME NEW y \in Nodes(x), y # x
      PROVE  \E n \in DOMAIN suites[x] : y \in Nodes(suites[x][n])
    <2>1. y \in Node /\ x \in Above(y)
        BY DEF Nodes
    <2>2. PICK c \in Suite : c \in Above(y) /\ Parent(c) = x
        BY <1>2, <2>1, ChildAbove
    <2>3. c \in ToSet(suites[x])
        BY <2>2, TreeIs
    <2>4. PICK n \in DOMAIN suites[x] : suites[x][n] = c
        BY <2>3 DEF ToSet
    <2> QED  BY <2>1, <2>2, <2>4 DEF Nodes
<1>3. ASSUME NEW n \in DOMAIN suites[x], NEW y \in Nodes(suites[x][n]) PROVE y \in Nodes(x)
    <2>1. y \in Node /\ suites[x][n] \in Above(y)
        BY DEF Nodes
    <2>2. x \in Above(suites[x][n])
        BY <1>1, ParentAbove
    <2>3. Above(suites[x][n]) \subseteq Above(y)
        BY <2>1, AboveAbove
    <2> QED  BY <2>1, <2>2, <2>3 DEF Nodes
<1>4. x \in Nodes(x)
    BY AboveIs DEF Nodes
<1>5. Nodes(x) = {x} \cup UNION {Nodes(suites[x][n]) : n \in DOMAIN suites[x]}
    BY <1>2, <1>3, <1>4
<1>6. TestsIn(x) = {t \in Test : SuiteOf(t) = x} \cup UNION {TestsIn(suites[x][n]) : n \in DOMAIN suites[x]}
    <2>1. \A t \in Test : t \in TestsIn(x) <=> SuiteOf(t) \in Nodes(x)
        BY TestIn
    <2>2. \A n \in DOMAIN suites[x] : \A t \in Test : t \in TestsIn(suites[x][n]) <=> SuiteOf(t) \in Nodes(suites[x][n])
        BY <1>1, TestIn
    <2>3. \A y : TestsIn(y) \subseteq Test
        BY DEF TestsIn
    <2> QED  BY <1>5, <2>1, <2>2, <2>3
<1>7. x \in Suite => {t \in Test : SuiteOf(t) = x} = {tests[x][n] : n \in DOMAIN tests[x]}
    <2> SUFFICES ASSUME x \in Suite PROVE {t \in Test : SuiteOf(t) = x} = {tests[x][n] : n \in DOMAIN tests[x]}
        OBVIOUS
    <2>1. \A n \in DOMAIN tests[x] : tests[x][n] \in Test /\ SuiteOf(tests[x][n]) = x
        BY TreeIs
    <2>2. \A t \in Test : SuiteOf(t) = x => \E n \in DOMAIN tests[x] : t = tests[x][n]
        BY TreeIs DEF ToSet
    <2> QED  BY <2>1, <2>2
<1>8. x \in File => {t \in Test : SuiteOf(t) = x} = {}
    BY TreeIs, AboveIs
<1> QED  BY <1>5, <1>6, <1>7, <1>8

(* What two children have in them is apart, and so is what they have in    *)
(* them from the node's own tests.                                         *)
LEMMA ChildrenApart ==
    ASSUME NEW x \in Node
    PROVE  /\ \A n \in DOMAIN suites[x] : x \notin Nodes(suites[x][n])
           /\ \A m, n \in DOMAIN suites[x] : m # n =>
                  /\ TestsIn(suites[x][m]) \cap TestsIn(suites[x][n]) = {}
                  /\ \A t \in TestsIn(suites[x][m]) : Nodes(suites[x][n]) \cap ToSet(PathOf(t)) = {}
           /\ \A t \in Test : SuiteOf(t) = x => \A n \in DOMAIN suites[x] :
                  t \notin TestsIn(suites[x][n]) /\ Nodes(suites[x][n]) \cap ToSet(PathOf(t)) = {}
<1>1. ASSUME NEW n \in DOMAIN suites[x]
      PROVE  suites[x][n] \in Suite /\ suites[x][n] \in Node /\ Parent(suites[x][n]) = x
    BY TreeIs DEF Node
<1>2. ASSUME NEW n \in DOMAIN suites[x] PROVE suites[x][n] \notin Above(x)
    BY <1>1, ParentNotIn
<1>3. \A n \in DOMAIN suites[x] : x \notin Nodes(suites[x][n])
    BY <1>2 DEF Nodes
<1>4. ASSUME NEW n \in DOMAIN suites[x], NEW u \in Node, suites[x][n] \notin Above(u)
      PROVE  Nodes(suites[x][n]) \cap Above(u) = {}
    <2>1. ASSUME NEW y \in Above(u), y \in Nodes(suites[x][n]) PROVE FALSE
        <3>1. suites[x][n] \in Above(y)
            BY <2>1 DEF Nodes
        <3>2. Above(y) \subseteq Above(u)
            BY AboveAbove
        <3> QED  BY <1>4, <3>1, <3>2
    <2> QED  BY <2>1
<1>5. ASSUME NEW m \in DOMAIN suites[x], NEW n \in DOMAIN suites[x], m # n, NEW t \in TestsIn(suites[x][m])
      PROVE  t \notin TestsIn(suites[x][n]) /\ Nodes(suites[x][n]) \cap ToSet(PathOf(t)) = {}
    <2> DEFINE u == SuiteOf(t)
    <2>1. t \in Test
        BY DEF TestsIn
    <2>2. u \in Node /\ ToSet(PathOf(t)) = Above(u)
        BY <2>1, TestIn, PathOfTest
    <2>3. suites[x][m] \in Above(u)
        BY <1>1, <2>1, TestIn DEF Nodes
    <2>4. suites[x][m] # suites[x][n]
        BY <1>5, TreeIs
    <2>5. suites[x][n] \notin Above(u)
        <3> HIDE DEF u
        <3>1. /\ suites[x][m] \in Suite /\ Parent(suites[x][m]) = x
              /\ suites[x][n] \in Suite /\ Parent(suites[x][n]) = x
            BY <1>1
        <3> QED  BY <2>2, <2>3, <2>4, <3>1, Siblings
    <2>6. t \notin TestsIn(suites[x][n])
        BY <1>1, <2>1, <2>5, TestIn DEF Nodes
    <2> QED  BY <2>2, <2>5, <2>6, <1>4
<1>6. ASSUME NEW t \in Test, SuiteOf(t) = x, NEW n \in DOMAIN suites[x]
      PROVE  t \notin TestsIn(suites[x][n]) /\ Nodes(suites[x][n]) \cap ToSet(PathOf(t)) = {}
    <2>1. ToSet(PathOf(t)) = Above(x)
        BY <1>6, TestIn
    <2> QED  BY <1>1, <1>2, <1>4, <1>6, <2>1, TestIn DEF Nodes
<1> QED  BY <1>3, <1>5, <1>6


(* The calls of a suite are its equation.                                  *)
LEMMA RunSuiteIs ==
    ASSUME NEW mod
    PROVE  \A s \in Suite :
               /\ RunSuite(mod)[s] \in Seq(Call)
               /\ RunSuite(mod)[s] = RunAllHooks(mod, "beforeAll", s)
                      \o FlattenSeq([n \in DOMAIN tests[s] |-> RunTest(mod, tests[s][n])])
                      \o FlattenSeq([n \in DOMAIN suites[s] |-> RunSuite(mod)[suites[s][n]]])
                      \o RunAllHooks(mod, "afterAll", s)
<1> DEFINE below == [s \in Suite |-> ToSet(suites[s])]
           V == Seq(Call)
           first(s) == RunAllHooks(mod, "beforeAll", s)
           own(s) == FlattenSeq([n \in DOMAIN tests[s] |-> RunTest(mod, tests[s][n])])
           last(s) == RunAllHooks(mod, "afterAll", s)
           inner(g, s) == FlattenSeq([n \in DOMAIN suites[s] |-> g[suites[s][n]]])
           run(g, s) == first(s) \o own(s) \o inner(g, s) \o last(s)
           H == [p \in UNION {{s} \X [below[s] -> V] : s \in Suite} |-> run(p[2], p[1])]
           e(f) == [s \in Suite |-> run(f, s)]
<1>1. \A s \in Suite : s \in Node /\ \A n \in DOMAIN suites[s] :
          suites[s][n] \in Suite /\ suites[s][n] \in ToSet(suites[s])
    BY TreeIs DEF Node, ToSet
<1>2. Ends(Suite, below)
    <2>1. below \in [Suite -> SUBSET Suite]
        BY <1>1 DEF ToSet
    <2>2. ASSUME NEW T \in SUBSET Suite, T # {} PROVE \E s \in T : below[s] \cap T = {}
        BY <2>2, TreeAssumption
    <2> HIDE DEF below
    <2> QED  BY <2>1, <2>2 DEF Ends
<1>3. ASSUME NEW s \in Suite
      PROVE  first(s) \in V /\ own(s) \in V /\ last(s) \in V
    <2>1. RunAllHooks(mod, "beforeAll", s) \in V /\ RunAllHooks(mod, "afterAll", s) \in V
        <3>1. RunHooks("beforeAll", <<s>>, s) \in V /\ RunHooks("afterAll", <<s>>, s) \in V
            BY <1>1, RunHooksOfOne, KindsDiffer
        <3>2. <<>> \in V
            OBVIOUS
        <3> HIDE DEF V
        <3> QED  BY <3>1, <3>2 DEF RunAllHooks
    <2> DEFINE seqs == [n \in DOMAIN tests[s] |-> RunTest(mod, tests[s][n])]
    <2>2. \A n \in DOMAIN tests[s] : RunTest(mod, tests[s][n]) \in V
        BY TestRun, TestNotRun, TreeIs DEF Sound
    <2>3. DOMAIN tests[s] = 1 .. Len(tests[s]) /\ Len(tests[s]) \in Nat
        BY TreeAssumption
    <2>4. seqs \in Seq(V)
        BY <2>2, <2>3
    <2> HIDE DEF seqs
    <2>5. FlattenSeq(seqs) \in V
        BY <2>4, FlattenHas
    <2> QED  BY <2>1, <2>5 DEF seqs
<1>4. ASSUME NEW s \in Suite, NEW g \in [below[s] -> V]
      PROVE  H[<<s, g>>] = run(g, s) /\ run(g, s) \in V
    <2>1. <<s, g>> \in UNION {{t} \X [below[t] -> V] : t \in Suite}
        <3> HIDE DEF below, V
        <3>1. <<s, g>> \in {s} \X [below[s] -> V]
            OBVIOUS
        <3> QED  BY <3>1
    <2>2. H[<<s, g>>] = run(g, s)
        <3> HIDE DEF below, V, run
        <3> QED  BY <2>1
    <2> DEFINE seqs == [n \in DOMAIN suites[s] |-> g[suites[s][n]]]
    <2>3. \A n \in DOMAIN suites[s] : g[suites[s][n]] \in V
        BY <1>1
    <2>4. DOMAIN suites[s] = 1 .. Len(suites[s]) /\ Len(suites[s]) \in Nat
        BY <1>1, TreeAssumption
    <2>5. seqs \in Seq(V)
        <3> HIDE DEF V
        <3> QED  BY <2>3, <2>4
    <2> HIDE DEF seqs
    <2>6. FlattenSeq(seqs) \in V
        BY <2>5, FlattenHas
    <2>7. inner(g, s) \in V
        BY <2>6 DEF seqs
    <2> HIDE DEF inner, first, own, last
    <2>8. run(g, s) \in V
        BY <1>3, <2>7, CatIs
    <2> QED  BY <2>2, <2>8
<1>5. Makes(H, Suite, below, V)
    <2> HIDE DEF H, below, V, run
    <2> QED  BY <1>4 DEF Makes
<1>6. PICK f : Recursive(f, H, Suite, below, V)
    <2> HIDE DEF H, below, V
    <2> QED  BY <1>2, <1>5, Recursion
<1>7. ASSUME NEW g, NEW h, NEW s \in Suite, \A c \in below[s] : g[c] = h[c]
      PROVE  inner(g, s) = inner(h, s)
    <2>1. [n \in DOMAIN suites[s] |-> g[suites[s][n]]] = [n \in DOMAIN suites[s] |-> h[suites[s][n]]]
        BY <1>1, <1>7
    <2> QED  BY <2>1
<1>8. ASSUME NEW s \in Suite PROVE f[s] = run(f, s)
    <2> DEFINE g == [c \in below[s] |-> f[c]]
    <2>1. g \in [below[s] -> V]
        <3> HIDE DEF V, below
        <3> QED  BY <1>2, <1>6 DEF Recursive, Ends
    <2>2. \A c \in below[s] : g[c] = f[c]
        OBVIOUS
    <2>3. f[s] = H[<<s, g>>]
        <3> HIDE DEF H, V, below
        <3> QED  BY <1>6 DEF Recursive
    <2> HIDE DEF g, H, V, below, inner, first, own, last
    <2>4. inner(g, s) = inner(f, s)
        BY <1>7, <2>2
    <2> QED  BY <1>4, <2>1, <2>3, <2>4
<1>9. f = e(f)
    <2>1. f = [s \in Suite |-> f[s]]
        BY <1>6 DEF Recursive
    <2> HIDE DEF run
    <2> QED  BY <1>8, <2>1
<1>10. RunSuite(mod) = CHOOSE g : g = e(g)
    BY DEF RunSuite
<1>11. RunSuite(mod) = e(RunSuite(mod))
    <2> HIDE DEF e
    <2> QED  BY <1>9, <1>10
<1>12. ASSUME NEW s \in Suite PROVE RunSuite(mod)[s] = run(RunSuite(mod), s)
    <2> HIDE DEF run
    <2> QED  BY <1>11
<1>13. \A s \in Suite : RunSuite(mod)[s] = f[s]
    <2> DEFINE T == {s \in Suite : RunSuite(mod)[s] # f[s]}
    <2>1. SUFFICES ASSUME T # {} PROVE FALSE
        OBVIOUS
    <2>2. PICK s \in T : below[s] \cap T = {}
        <3> HIDE DEF below
        <3> QED  BY <1>2, <2>1 DEF Ends
    <2>3. s \in Suite /\ RunSuite(mod)[s] # f[s]
        OBVIOUS
    <2>4. \A c \in below[s] : c \in Suite /\ RunSuite(mod)[c] = f[c]
        <3> HIDE DEF below
        <3> QED  BY <1>2, <2>2, <2>3 DEF Ends
    <2> HIDE DEF T, below, first, own, last, inner
    <2>5. inner(RunSuite(mod), s) = inner(f, s)
        BY <1>7, <2>3, <2>4
    <2> QED  BY <2>3, <2>5, <1>8, <1>12
<1>14. \A s \in Suite : f[s] \in V
    BY <1>6 DEF Recursive
<1> QED  BY <1>12, <1>13, <1>14


-----------------------------------------------------------------------------
(* Which tests run. *)

(* What the flag of a suite says of the suites around it. *)
LEMMA FlagAbove ==
    ASSUME NEW mod, NEW s \in Suite
    PROVE  LET around == (Above(s) \cap Suite) \ {s} IN
           /\ ParentOnly(mod)[s] =>
                  /\ \E v \in around : mod[v] = "only"
                  /\ \A v \in around : ParentOnly(mod)[v] \/ \E i \in Within(v) : mod[i] = "only"
           /\ (\A v \in around : mod[v] # "skip") /\ (\E v \in around : mod[v] = "only") => ParentOnly(mod)[s]
<1> DEFINE flag(u) == ParentOnly(mod)[u]
           around(u) == (Above(u) \cap Suite) \ {u}
           some(u) == \E v \in around(u) : mod[v] = "only"
           each(u) == \A v \in around(u) : flag(v) \/ \E i \in Within(v) : mod[i] = "only"
           fine(u) == /\ flag(u) => some(u) /\ each(u)
                      /\ (\A v \in around(u) : mod[v] # "skip") /\ some(u) => flag(u)
           T == {u \in Node : u \in Suite /\ ~fine(u)}
<1>1. SUFFICES ASSUME T # {} PROVE FALSE
    <2>1. s \in Node /\ s \in Suite
        BY DEF Node
    <2>2. s \notin T => fine(s)
        BY <2>1
    <2> QED  BY <2>2
<1>2. PICK u \in T : u \in File \/ (u \in Suite /\ Parent(u) \in Node \ T)
    BY <1>1, Outermost
<1>3. u \in Suite /\ ~fine(u) /\ Parent(u) \in Node \ T
    BY <1>2, AboveIs
<1> DEFINE p == Parent(u)
<1>4. around(u) = Above(p) \cap Suite
    BY <1>3, AboveIs, ParentNotIn
<1>5. CASE p \notin Suite
    <2>1. p \in File
        BY <1>3, <1>5, AboveIs
    <2>2. around(u) = {}
        BY <1>4, <1>5, <2>1, AboveIs
    <2>3. ~flag(u)
        BY <1>3, <1>5, FlagIs
    <2> HIDE DEF flag
    <2> QED  BY <1>3, <2>2, <2>3
<1>6. CASE p \in Suite
    <2>1. fine(p)
        BY <1>3, <1>6
    <2>2. around(u) = around(p) \cup {p} /\ p \in Node
        BY <1>3, <1>4, <1>6, AboveIs
    <2>3. flag(u) <=> ShouldRun(mod, p, flag(p)) /\ (flag(p) \/ mod[p] = "only")
        BY <1>3, <1>6, FlagIs
    <2>4. p \in Item /\ \A v \in around(u) : p \in Within(v)
        <3>1. p \in Item /\ p \notin Test
            BY <1>6, <2>2, TreeAssumption DEF Item
        <3>2. ToSet(PathOf(p)) = Above(p)
            BY <3>1 DEF PathOf, Above
        <3>3. around(u) \subseteq Above(p)
            BY <1>4
        <3> QED  BY <3>1, <3>2, <3>3 DEF Within
    <2>5. ShouldRun(mod, p, flag(p)) <=>
              mod[p] # "skip" /\ (HasOnly(mod, FileOf(p)) => mod[p] = "only" \/ flag(p) \/ ContainsOnly(mod, p))
        BY DEF ShouldRun
    <2> HIDE DEF flag, around, p, T
    <2>6. flag(u) => some(u) /\ each(u)
        <3> SUFFICES ASSUME flag(u) PROVE some(u) /\ each(u)
            OBVIOUS
        <3>1. CASE flag(p)
            BY <2>1, <2>2, <3>1
        <3>2. CASE mod[p] = "only"
            BY <2>2, <2>4, <3>2
        <3> QED  BY <2>3, <3>1, <3>2
    <2>7. ASSUME \A v \in around(u) : mod[v] # "skip", some(u) PROVE flag(u)
        <3>1. mod[p] # "skip"
            BY <2>2, <2>7
        <3>2. mod[p] = "only" \/ flag(p)
            BY <2>1, <2>2, <2>7
        <3> QED  BY <2>3, <2>5, <3>1, <3>2
    <2> QED  BY <1>3, <2>6, <2>7
<1> QED  BY <1>5, <1>6

(* What is on the path of a test is in its file and holds it.              *)
LEMMA SamePath ==
    ASSUME NEW t \in Test, NEW x \in ToSet(PathOf(t)) \cap Suite
    PROVE  /\ FileOf(x) = FileOf(t) /\ t \in Within(x) /\ SuiteOf(t) \in Within(x)
           /\ SuiteOf(t) \in ToSet(PathOf(t)) \cap Suite
<1>1. \A y \in Suite : PathOf(y) = Path[y] /\ y \in Node /\ y \in Item
    BY TreeAssumption DEF PathOf, Node, Item
<1>2. ToSet(PathOf(t)) = Above(SuiteOf(t)) /\ SuiteOf(t) \in Suite /\ SuiteOf(t) \in Above(SuiteOf(t))
    BY TestIn, TreeIs, AboveIs DEF Node
<1>3. t \in Item
    BY DEF Item
<1>4. FileOf(x) = FileOf(t)
    BY <1>1, <1>2, RootIs, PathOfTest DEF FileOf
<1> QED  BY <1>1, <1>2, <1>3, <1>4 DEF Within, Above

(* The suites around a test that runs run, but for those skipped. *)
LEMMA AroundRuns ==
    ASSUME NEW mod, NEW t \in Test, TestRunnable(mod, t), NEW x \in ToSet(PathOf(t)) \cap Suite, mod[x] # "skip"
    PROVE  SuiteRunnable(mod, x)
<1> DEFINE s == SuiteOf(t)
<1>1. FileOf(x) = FileOf(t) /\ t \in Within(x) /\ s \in Within(x) /\ s \in Suite /\ x \in Above(s)
    BY SamePath, TestIn, TreeIs
<1> SUFFICES ASSUME HasOnly(mod, FileOf(x))
             PROVE  mod[x] = "only" \/ ParentOnly(mod)[x] \/ ContainsOnly(mod, x)
    BY DEF SuiteRunnable, ShouldRun
<1>2. mod[t] = "only" \/ mod[s] = "only" \/ ParentOnly(mod)[s]
    BY <1>1 DEF TestRunnable
<1>3. CASE ParentOnly(mod)[s] /\ x # s
    BY <1>1, <1>3, FlagAbove DEF ContainsOnly
<1>4. CASE mod[t] = "only" \/ mod[s] = "only"
    BY <1>1, <1>4 DEF ContainsOnly
<1> QED  BY <1>2, <1>3, <1>4

(* Where no suite further out is skipped, the tests that run are those     *)
(* asked for.                                                              *)
LEMMA RunsAsked ==
    ASSUME NEW mod, NEW t \in Test, \A x \in Outer(t) : mod[x] # "skip", \A x \in Suite : mod[x] # "todo"
    PROVE  TestRunnable(mod, t) <=> mod[t] # "todo" /\ Asked(mod, t)
<1> DEFINE s == SuiteOf(t)
           around == {t} \cup (ToSet(PathOf(t)) \cap Suite)
<1>1. s \in ToSet(PathOf(t)) \cap Suite /\ FileOf(s) = FileOf(t) /\ t \in Within(s) /\ ToSet(PathOf(t)) = Above(s)
    <2>1. s \in Suite /\ s \in Node /\ ToSet(PathOf(t)) = Above(s)
        BY TestIn, TreeIs DEF Node
    <2>2. s \in ToSet(PathOf(t)) \cap Suite
        BY <2>1, AboveIs
    <2> QED  BY <2>1, <2>2, SamePath
<1>2. around = {t, s} \cup Outer(t) /\ Outer(t) = (Above(s) \cap Suite) \ {s} /\ Outer(t) \subseteq Suite
    BY <1>1 DEF Outer
<1>3. /\ ParentOnly(mod)[s] => \E v \in Outer(t) : mod[v] = "only"
      /\ (\E v \in Outer(t) : mod[v] = "only") => ParentOnly(mod)[s]
    BY <1>1, <1>2, FlagAbove
<1>4. Asked(mod, t) <=>
          /\ t \in Matching
          /\ \A x \in around : mod[x] \notin {"skip", "todo"}
          /\ HasOnly(mod, FileOf(t)) => \E x \in around : mod[x] = "only"
    BY DEF Asked
<1>5. TestRunnable(mod, t) <=>
          /\ mod[t] # "todo" /\ t \in Matching /\ mod[t] # "skip" /\ mod[s] # "skip"
          /\ HasOnly(mod, FileOf(t)) => mod[s] = "only" \/ ParentOnly(mod)[s] \/ ContainsOnly(mod, s)
          /\ HasOnly(mod, FileOf(t)) => mod[t] = "only" \/ mod[s] = "only" \/ ParentOnly(mod)[s]
    BY <1>1 DEF TestRunnable, SuiteRunnable, ShouldRun
<1>6. mod[t] = "only" => ContainsOnly(mod, s)
    BY <1>1 DEF ContainsOnly
<1> HIDE DEF s, around
<1>7. (\E x \in around : mod[x] = "only") <=> mod[t] = "only" \/ mod[s] = "only" \/ ParentOnly(mod)[s]
    BY <1>2, <1>3
<1>8. (\A x \in around : mod[x] \notin {"skip", "todo"}) <=> mod[t] \notin {"skip", "todo"} /\ mod[s] # "skip"
    BY <1>1, <1>2
<1> QED  BY <1>4, <1>5, <1>6, <1>7, <1>8


-----------------------------------------------------------------------------
(* The calls of a suite, and of a file. *)

LEMMA CatCat ==
    ASSUME NEW V, NEW P \in Seq(V), NEW Q \in Seq(V), NEW R \in Seq(V)
    PROVE  (P \o Q) \o R = P \o (Q \o R)
BY ConcatAssociative

(* The suites in a node, one after the other.                              *)
LEMMA SuitesSound ==
    ASSUME NEW mod, NEW x \in Node,
           \A n \in DOMAIN suites[x] :
               Sound(mod, RunSuite(mod)[suites[x][n]], Nodes(suites[x][n]), TestsIn(suites[x][n]))
    PROVE  LET P == FlattenSeq([n \in DOMAIN suites[x] |-> RunSuite(mod)[suites[x][n]]]) IN
           /\ P \in Seq(Call)
           /\ Sound(mod, P, UNION {Nodes(suites[x][n]) : n \in DOMAIN suites[x]},
                    UNION {TestsIn(suites[x][n]) : n \in DOMAIN suites[x]})
<1> DEFINE D == DOMAIN suites[x]
           seqs == [n \in D |-> RunSuite(mod)[suites[x][n]]]
           NN == [n \in D |-> Nodes(suites[x][n])]
           TT == [n \in D |-> TestsIn(suites[x][n])]
           N == UNION {Nodes(suites[x][n]) : n \in D}
           T == UNION {TestsIn(suites[x][n]) : n \in D}
<1>1. D = 1 .. Len(suites[x]) /\ Len(suites[x]) \in Nat
    BY TreeAssumption
<1>2. \A n \in D : RunSuite(mod)[suites[x][n]] \in Seq(Call)
    BY DEF Sound
<1>3. seqs \in Seq(Seq(Call)) /\ DOMAIN seqs = D
    <2> HIDE DEF D
    <2> QED  BY <1>1, <1>2
<1>4. \A n \in D : seqs[n] = RunSuite(mod)[suites[x][n]] /\ NN[n] = Nodes(suites[x][n]) /\ TT[n] = TestsIn(suites[x][n])
    OBVIOUS
<1>5. /\ \A y : y \in N <=> \E n \in D : y \in NN[n]
      /\ \A y : y \in T <=> \E n \in D : y \in TT[n]
    OBVIOUS
<1>6. \A i \in D : Sound(mod, seqs[i], NN[i], TT[i])
    OBVIOUS
<1>7. \A i, j \in D : i # j =>
          /\ TT[i] \cap TT[j] = {}
          /\ \A t \in TT[i] : NN[j] \cap ToSet(PathOf(t)) = {}
    BY ChildrenApart
<1> HIDE DEF D, seqs, NN, TT, N, T
<1>8. FlattenSeq(seqs) \in Seq(Call) /\ Sound(mod, FlattenSeq(seqs), N, T)
    BY <1>3, <1>5, <1>6, <1>7, SoundFlatten
<1> QED  BY <1>8 DEF seqs, D, N, T

(* The tests of a suite, one after the other.                              *)
LEMMA TestsSound ==
    ASSUME NEW mod, NEW s \in Suite
    PROVE  LET P == FlattenSeq([n \in DOMAIN tests[s] |-> RunTest(mod, tests[s][n])]) IN
           P \in Seq(Call) /\ Sound(mod, P, {}, {tests[s][n] : n \in DOMAIN tests[s]})
<1> DEFINE D == DOMAIN tests[s]
           seqs == [n \in D |-> RunTest(mod, tests[s][n])]
           NN == [n \in D |-> {}]
           TT == [n \in D |-> {tests[s][n]}]
           T == {tests[s][n] : n \in D}
<1>1. D = 1 .. Len(tests[s]) /\ Len(tests[s]) \in Nat
    BY TreeAssumption
<1>2. \A n \in D : RunTest(mod, tests[s][n]) \in Seq(Call) /\ Sound(mod, RunTest(mod, tests[s][n]), {}, {tests[s][n]})
    BY TreeIs, TestRun, TestNotRun DEF Sound
<1>3. seqs \in Seq(Seq(Call)) /\ DOMAIN seqs = D
    <2>1. \A n \in D : RunTest(mod, tests[s][n]) \in Seq(Call)
        BY <1>2
    <2> HIDE DEF D
    <2> QED  BY <1>1, <2>1
<1>4. /\ \A y : y \in {} <=> \E n \in D : y \in NN[n]
      /\ \A y : y \in T <=> \E n \in D : y \in TT[n]
    OBVIOUS
<1>5. \A i \in D : Sound(mod, seqs[i], NN[i], TT[i])
    BY <1>2
<1>6. \A i, j \in D : i # j =>
          /\ TT[i] \cap TT[j] = {}
          /\ \A t \in TT[i] : NN[j] \cap ToSet(PathOf(t)) = {}
    BY TreeIs
<1> HIDE DEF D, seqs, NN, TT, T
<1>7. FlattenSeq(seqs) \in Seq(Call) /\ Sound(mod, FlattenSeq(seqs), {}, T)
    BY <1>3, <1>4, <1>5, <1>6, SoundFlatten
<1> QED  BY <1>7 DEF seqs, D, T

(* A suite: its hooks around its tests and the suites in it.               *)
LEMMA SuiteSound ==
    ASSUME NEW mod, NEW s \in Suite PROVE Sound(mod, RunSuite(mod)[s], Nodes(s), TestsIn(s))
<1> DEFINE T == {u \in Node : u \in Suite /\ ~Sound(mod, RunSuite(mod)[u], Nodes(u), TestsIn(u))}
<1>1. SUFFICES ASSUME T # {} PROVE FALSE
    BY DEF Node
<1>2. PICK u \in T : \A n \in DOMAIN suites[u] : suites[u][n] \notin T
    BY <1>1, Innermost
<1>3. u \in Node /\ u \in Suite /\ ~Sound(mod, RunSuite(mod)[u], Nodes(u), TestsIn(u))
    OBVIOUS
<1>4. \A n \in DOMAIN suites[u] :
          Sound(mod, RunSuite(mod)[suites[u][n]], Nodes(suites[u][n]), TestsIn(suites[u][n]))
    BY <1>2, <1>3, TreeIs DEF Node
<1> DEFINE own == FlattenSeq([n \in DOMAIN tests[u] |-> RunTest(mod, tests[u][n])])
           inner == FlattenSeq([n \in DOMAIN suites[u] |-> RunSuite(mod)[suites[u][n]]])
           ownT == {tests[u][n] : n \in DOMAIN tests[u]}
           innerT == UNION {TestsIn(suites[u][n]) : n \in DOMAIN suites[u]}
           innerN == UNION {Nodes(suites[u][n]) : n \in DOMAIN suites[u]}
           r == SuiteRunnable(mod, u)
           B == IF r THEN RunHooks("beforeAll", <<u>>, u) ELSE <<>>
           A == IF r THEN RunHooks("afterAll", <<u>>, u) ELSE <<>>
<1>5. own \in Seq(Call) /\ Sound(mod, own, {}, ownT)
    BY <1>3, TestsSound
<1>6. inner \in Seq(Call) /\ Sound(mod, inner, innerN, innerT)
    BY <1>3, <1>4, SuitesSound
<1>7. Nodes(u) = innerN \cup {u} /\ TestsIn(u) = ownT \cup innerT
    BY <1>3, ChildrenIn
<1>8. u \notin innerN /\ ownT \cap innerT = {} /\ \A t \in ownT : innerN \cap ToSet(PathOf(t)) = {}
    <2>1. \A t \in ownT : t \in Test /\ SuiteOf(t) = u
        BY <1>3, TreeIs
    <2> HIDE DEF ownT
    <2> QED  BY <1>3, <2>1, ChildrenApart
<1>9. r \in BOOLEAN
    BY DEF SuiteRunnable, ShouldRun
<1>10. ASSUME NEW t \in TestsIn(u), ReportKind(mod, t) = "report", u \in File \/ mod[u] # "skip" PROVE r
    <2>1. t \in Test /\ u \in ToSet(PathOf(t)) /\ mod[u] # "skip" /\ TestRunnable(mod, t)
        BY <1>3, <1>10, AboveIs DEF TestsIn, ReportKind
    <2> QED  BY <1>3, <2>1, AroundRuns
<1>11. B \in Seq(Call) /\ A \in Seq(Call) /\ B = RunAllHooks(mod, "beforeAll", u) /\ A = RunAllHooks(mod, "afterAll", u)
    <2>1. RunHooks("beforeAll", <<u>>, u) \in Seq(Call) /\ RunHooks("afterAll", <<u>>, u) \in Seq(Call)
        BY <1>3, RunHooksOfOne, KindsDiffer
    <2> QED  BY <2>1 DEF RunAllHooks
<1>12. RunSuite(mod)[u] = ((B \o own) \o inner) \o A
    BY <1>3, <1>11, RunSuiteIs
<1> HIDE DEF own, inner, ownT, innerT, innerN
<1>13. Sound(mod, own \o inner, {} \cup innerN, ownT \cup innerT)
    BY <1>5, <1>6, <1>8, SoundCat
<1>14. Sound(mod, (B \o (own \o inner)) \o A, innerN \cup {u}, ownT \cup innerT)
    <2> DEFINE P == own \o inner
               U == ownT \cup innerT
    <2>1. Sound(mod, P, innerN, U)
        BY <1>13
    <2>2. \A t \in U : ReportKind(mod, t) = "report" /\ (u \in File \/ mod[u] # "skip") => r
        BY <1>7, <1>10
    <2> HIDE DEF P, U, r
    <2>3. Sound(mod, B \o P \o A, innerN \cup {u}, U)
        BY <1>3, <1>8, <1>9, <2>1, <2>2, SoundAround
    <2> QED  BY <2>3 DEF P, U
<1> HIDE DEF B, A
<1>15. (B \o own) \o inner = B \o (own \o inner)
    BY <1>5, <1>6, <1>11, CatCat
<1> QED  BY <1>3, <1>7, <1>12, <1>14, <1>15

LEMMA FileSound ==
    ASSUME NEW mod, NEW f \in File PROVE Sound(mod, RunTests(mod, f), Nodes(f), TestsIn(f))
<1> DEFINE inner == FlattenSeq([n \in DOMAIN suites[f] |-> RunSuite(mod)[suites[f][n]]])
           innerT == UNION {TestsIn(suites[f][n]) : n \in DOMAIN suites[f]}
           innerN == UNION {Nodes(suites[f][n]) : n \in DOMAIN suites[f]}
<1>1. f \in Node
    BY DEF Node
<1>2. Sound(mod, inner, innerN, innerT)
    <2>1. \A n \in DOMAIN suites[f] :
              Sound(mod, RunSuite(mod)[suites[f][n]], Nodes(suites[f][n]), TestsIn(suites[f][n]))
        BY <1>1, TreeIs, SuiteSound
    <2> QED  BY <1>1, <2>1, SuitesSound
<1>3. Nodes(f) = innerN \cup {f} /\ TestsIn(f) = innerT /\ f \notin innerN
    BY <1>1, ChildrenIn, ChildrenApart
<1>4. RunTests(mod, f) = RunHooks("beforeAll", <<f>>, f) \o inner \o RunHooks("afterAll", <<f>>, f)
    BY DEF RunTests
<1> HIDE DEF inner, innerT, innerN
<1>5. Sound(mod, (IF TRUE THEN RunHooks("beforeAll", <<f>>, f) ELSE <<>>) \o inner
                 \o (IF TRUE THEN RunHooks("afterAll", <<f>>, f) ELSE <<>>), innerN \cup {f}, innerT)
    BY <1>1, <1>2, <1>3, SoundAround
<1> QED  BY <1>3, <1>4, <1>5


(* The calls the harness makes for a file are in order. *)
LEMMA FileOrderly ==
    ASSUME NEW mod, \A s \in Suite : mod[s] # "todo", NEW f \in File
    PROVE  Orderly(mod, f, RunTests(mod, f))
<1> DEFINE P == RunTests(mod, f)
<1>1. Sound(mod, P, Nodes(f), TestsIn(f)) /\ f \in Node
    BY FileSound DEF Node
<1>2. ASSUME NEW t \in Test
      PROVE  /\ FileOf(t) \in File /\ FileOf(t) \in ToSet(PathOf(t))
             /\ t \in TestsIn(f) <=> FileOf(t) = f
    <2> DEFINE s == SuiteOf(t)
    <2>1. s \in Node /\ FileOf(t) = Head(Path[s]) /\ ToSet(PathOf(t)) = Above(s)
        BY PathOfTest, TestIn DEF FileOf
    <2>2. Head(Path[s]) \in File /\ Head(Path[s]) \in Above(s) /\ \A y \in Above(s) : Head(Path[y]) = Head(Path[s])
        BY <2>1, RootIs
    <2>3. f \in Above(s) <=> Head(Path[s]) = f
        BY <2>2, AboveIs
    <2> QED  BY <2>1, <2>2, <2>3 DEF TestsIn
<1>3. TestsIn(f) = TestsOf(f)
    <2>1. TestsIn(f) \subseteq Test /\ TestsOf(f) \subseteq Test
        BY DEF TestsIn, TestsOf
    <2> QED  BY <2>1, <1>2 DEF TestsOf
<1>4. ASSUME NEW t \in TestsOf(f) PROVE t \in Test /\ ToSet(PathOf(t)) \subseteq Nodes(f)
    <2>1. t \in Test /\ FileOf(t) = f
        BY DEF TestsOf
    <2>2. SuiteOf(t) \in Node /\ FileOf(t) = Head(Path[SuiteOf(t)]) /\ ToSet(PathOf(t)) = Above(SuiteOf(t))
        BY <2>1, PathOfTest, TestIn DEF FileOf
    <2>3. ASSUME NEW y \in Above(SuiteOf(t)) PROVE y \in Node /\ f \in Above(y)
        <3>1. y \in Node
            BY <2>2, AboveIs
        <3>2. Head(Path[y]) = f
            BY <2>1, <2>2, RootIs
        <3> QED  BY <3>1, <3>2, RootIs
    <2> QED  BY <2>1, <2>2, <2>3 DEF Nodes
<1> HIDE DEF P
<1>5. P \in Seq(Call) /\ DOMAIN P = 1 .. Len(P) /\ Len(P) \in Nat
    BY <1>1 DEF Sound
<1>6. ReportsAre(mod, P, TestsOf(f))
    BY <1>1, <1>3 DEF Sound
<1>7. OneReportEach(mod, f, P)
    <2>1. {P[n].test : n \in Reports(P)} = TestsOf(f)
        BY <1>6 DEF ReportsAre
    <2>2. \A m, n \in Reports(P) : P[m].test = P[n].test => m = n
        BY <1>6 DEF ReportsAre
    <2>3. ASSUME NEW n \in Reports(P), NEW t, t = P[n].test
          PROVE  /\ P[n].kind = "todo" <=> mod[t] = "todo"
                 /\ (\A x \in Outer(t) : mod[x] # "skip") =>
                        (P[n].kind = "skip" <=> mod[t] # "todo" /\ ~Asked(mod, t))
        <3>1. t \in Test /\ P[n].kind = ReportKind(mod, t)
            BY <1>4, <1>6, <2>3 DEF ReportsAre
        <3>2. P[n].kind = "todo" <=> mod[t] = "todo"
            BY <3>1 DEF ReportKind
        <3>3. P[n].kind = "skip" <=> mod[t] # "todo" /\ ~TestRunnable(mod, t)
            BY <3>1 DEF ReportKind
        <3>4. (\A x \in Outer(t) : mod[x] # "skip") => (TestRunnable(mod, t) <=> mod[t] # "todo" /\ Asked(mod, t))
            BY <3>1, RunsAsked
        <3> QED  BY <3>2, <3>3, <3>4
    <2> QED  BY <2>1, <2>2, <2>3 DEF OneReportEach
<1>8. HooksComeFirst(mod, P)
    <2>1. HooksBefore(mod, P, Nodes(f))
        BY <1>1 DEF Sound
    <2>2. ASSUME NEW n \in DOMAIN P, P[n].kind = "report"
          PROVE  ToSet(PathOf(P[n].test)) \subseteq Nodes(f)
        <3>1. n \in Reports(P)
            BY <2>2, KindsDiffer DEF Reports
        <3>2. P[n].test \in TestsOf(f)
            BY <3>1, <1>6 DEF ReportsAre
        <3> QED  BY <3>2, <1>4
    <2> QED  BY <2>1, <2>2 DEF HooksBefore, HooksComeFirst
<1>9. CleanupFollows(P)
    <2>1. CleanupAfter(P) /\ CleanedUp(P)
        BY <1>1 DEF Sound
    <2>2. ASSUME NEW kind, NEW x
          PROVE  Before(P, Len(P) + 1, kind, x, x) <=> [kind |-> kind, of |-> x, test |-> x] \in ToSet(P)
        <3>1. 1 .. Len(P) + 1 - 1 = DOMAIN P
            BY <1>5
        <3>2. Before(P, Len(P) + 1, kind, x, x) <=> \E k \in DOMAIN P : P[k] = [kind |-> kind, of |-> x, test |-> x]
            BY <3>1 DEF Before
        <3> QED  BY <3>2 DEF ToSet
    <2> QED  BY <2>1, <2>2 DEF CleanupFollows, CleanupAfter, CleanedUp
<1>10. TestsStandTogether(P)
    BY <1>1 DEF Sound
<1> QED  BY <1>5, <1>7, <1>8, <1>9, <1>10 DEF Orderly, P

-----------------------------------------------------------------------------
(* What the runner makes of the calls. *)

(* How far a file has come: the next of its calls P is the n-th, S are the *)
(* results collected and done the calls that returned.                     *)
Reported(P, n) == {P[k].test : k \in {k \in Reports(P) : k < n}}

StatusFits(P, n, s) ==
    \E k \in Reports(P) :
        /\ k < n /\ P[k].test = s.test
        /\ s.status \in IF P[k].kind = "report" THEN {"pass", "fail"} ELSE {P[k].kind}

Collected(P, n, S) ==
    /\ Len(S) = Cardinality(Reported(P, n))
    /\ {S[i].test : i \in DOMAIN S} = Reported(P, n)
    /\ \A i, j \in DOMAIN S : S[i].test = S[j].test => i = j
    /\ \A i \in DOMAIN S : StatusFits(P, n, S[i])

\* Calls that are made for no test are never left out.
Called(P, n, done) ==
    /\ \A c \in done : \E k \in 1 .. n - 1 : P[k] = c
    /\ \A k \in 1 .. n - 1 : P[k].kind \notin Report \cup InTest => P[k] \in done

\* Calls for a test are left out only when it fails.
Missed(P, n, done, failed) ==
    \A k \in 1 .. n - 1 : P[k].kind \in InTest =>
        P[k] \in done \/ failed \/ P[k].test \in Reported(P, n)

Made(P, n, S, done) ==
    n \in 1 .. Len(P) + 1 /\ Collected(P, n, S) /\ Called(P, n, done)

Back(done, kind, of, test) == kind \in hooks[of] => [kind |-> kind, of |-> of, test |-> test] \in done

Earned(m, S, done) ==
    \A n \in DOMAIN S : LET t == S[n].test IN
        S[n].status = "pass" =>
            /\ [kind |-> "fn", of |-> t, test |-> t] \in done
            /\ \A x \in ToSet(PathOf(t)) :
                   /\ Back(done, "beforeEach", x, t) /\ Back(done, "afterEach", x, t)
                   /\ (x \in File \/ m[x] # "skip") => Back(done, "beforeAll", x, x)
-----------------------------------------------------------------------------
(* The calls of a file. *)

LEMMA Kinds ==
    /\ Report \cap InTest = {} /\ "beforeAll" \notin Report \cup InTest
    /\ "afterAll" \notin Report \cup InTest
BY DEF Report, InTest

LEMMA OrderlyIs ==
    ASSUME NEW m, NEW f, NEW P, Orderly(m, f, P)
    PROVE  /\ Len(P) \in Nat /\ DOMAIN P = 1 .. Len(P)
           /\ \A k \in DOMAIN P : P[k] \in Call /\ P[k].kind \in HookKind \cup {"fn"} \cup Report
           /\ Reports(P) \subseteq 1 .. Len(P) /\ IsFiniteSet(Reports(P))
           /\ \A k \in Reports(P) : P[k].test \in TestsOf(f)
<1>1. P \in Seq(Call)
    BY DEF Orderly
<1>2. Len(P) \in Nat /\ DOMAIN P = 1 .. Len(P) /\ \A k \in DOMAIN P : P[k] \in Call
    BY <1>1
<1>3. \A c \in Call : c.kind \in HookKind \cup {"fn"} \cup Report
    BY DEF Call
<1>4. Reports(P) \subseteq 1 .. Len(P)
    BY <1>2 DEF Reports
<1>5. IsFiniteSet(1 .. Len(P))
    BY <1>2, FS_Interval
<1>6. IsFiniteSet(Reports(P))
    BY <1>4, <1>5, FS_Subset
<1>7. \A k \in Reports(P) : P[k].test \in TestsOf(f)
    BY DEF Orderly, OneReportEach
<1> QED  BY <1>2, <1>3, <1>4, <1>6, <1>7

\* A step over a call that is not a report leaves the same tests reported.
LEMMA NothingReported ==
    ASSUME NEW m, NEW f, NEW P, Orderly(m, f, P),
           NEW n \in 1 .. Len(P), NEW k \in n + 1 .. Len(P) + 1,
           \A j \in n .. k - 1 : P[j].kind \notin Report
    PROVE  Reported(P, k) = Reported(P, n)
<1>1. {j \in Reports(P) : j < k} = {j \in Reports(P) : j < n}
    BY OrderlyIs DEF Reports
<1> QED  BY <1>1 DEF Reported

LEMMA CollectedStill ==
    ASSUME NEW P, NEW n \in Nat, NEW k \in Nat, n <= k, Reported(P, k) = Reported(P, n), NEW S,
           Collected(P, n, S), Reports(P) \subseteq Nat
    PROVE  Collected(P, k, S)
<1>1. \A s : StatusFits(P, n, s) => StatusFits(P, k, s)
    BY DEF StatusFits
<1> QED  BY <1>1 DEF Collected

(* A call returns. *)
LEMMA AfterReturn ==
    ASSUME NEW m, NEW f, NEW P, Orderly(m, f, P), NEW n \in 1 .. Len(P), P[n].kind \notin Report,
           NEW S, NEW done, Made(P, n, S, done), NEW failed
    PROVE  /\ Made(P, n + 1, S, done \cup {P[n]})
           /\ Missed(P, n, done, failed) => Missed(P, n + 1, done \cup {P[n]}, failed)
<1>1. Len(P) \in Nat /\ n \in Nat /\ n + 1 \in 1 .. Len(P) + 1 /\ Reports(P) \subseteq Nat
    BY OrderlyIs
<1>2. Reported(P, n + 1) = Reported(P, n)
    BY <1>1, NothingReported
<1>3. Collected(P, n + 1, S)
    BY <1>1, <1>2, CollectedStill DEF Made
<1>4. Called(P, n + 1, done \cup {P[n]})
    BY <1>1 DEF Made, Called
<1>5. Missed(P, n, done, failed) => Missed(P, n + 1, done \cup {P[n]}, failed)
    BY <1>1, <1>2 DEF Missed
<1> QED  BY <1>1, <1>3, <1>4, <1>5 DEF Made

(* A call throws, and the next that is made is the k-th. *)
LEMMA AfterThrow ==
    ASSUME NEW m, NEW f, NEW P, Orderly(m, f, P), NEW n \in 1 .. Len(P),
           NEW k \in n + 1 .. Len(P), \A j \in n .. k - 1 : P[j].kind \in InTest,
           NEW S, NEW done, Made(P, n, S, done)
    PROVE  Made(P, k, S, done) /\ (Missed(P, n, done, FALSE) => Missed(P, k, done, TRUE))
           /\ Missed(P, k, done, TRUE)
<1>1. Len(P) \in Nat /\ n \in Nat /\ k \in Nat /\ k \in 1 .. Len(P) + 1 /\ n <= k /\ Reports(P) \subseteq Nat
    BY OrderlyIs
<1>2. \A j \in n .. k - 1 : P[j].kind \notin Report
    BY Kinds
<1>3. Reported(P, k) = Reported(P, n)
    BY <1>1, <1>2, NothingReported
<1>4. Collected(P, k, S)
    BY <1>1, <1>3, CollectedStill DEF Made
<1>5. Called(P, k, done)
    <2>1. \A c \in done : \E j \in 1 .. k - 1 : P[j] = c
        BY <1>1 DEF Made, Called
    <2>2. ASSUME NEW j \in 1 .. k - 1, P[j].kind \notin Report \cup InTest
          PROVE  P[j] \in done
        <3>1. j \in 1 .. n - 1
            BY <1>1, <2>2
        <3> QED  BY <2>2, <3>1 DEF Made, Called
    <2> QED  BY <2>1, <2>2 DEF Called
<1>6. Missed(P, k, done, TRUE)
    BY DEF Missed
<1> QED  BY <1>1, <1>4, <1>5, <1>6 DEF Made

(* The calls of a test end with its report. *)
LEMMA ReportOf ==
    ASSUME NEW m, NEW f, NEW P, Orderly(m, f, P), NEW n \in Reports(P),
           NEW k \in 1 .. n - 1, P[k].kind \in InTest
    PROVE  P[k].test \in Reported(P, n + 1)
<1>1. Len(P) \in Nat /\ n \in 1 .. Len(P) /\ k \in DOMAIN P /\ DOMAIN P = 1 .. Len(P)
    BY OrderlyIs
<1>2. PICK i \in k + 1 .. Len(P) : OneTest(P, k, i)
    BY <1>1 DEF Orderly, TestsStandTogether
<1>3. i \in Reports(P) /\ P[i].test = P[k].test
    BY <1>1, <1>2 DEF OneTest, Reports, Report
<1>4. i <= n
    <2>1. P[n].kind \notin InTest
        BY Kinds DEF Reports
    <2> QED  BY <1>1, <1>2, <2>1 DEF OneTest
<1> QED  BY <1>1, <1>2, <1>3, <1>4 DEF Reported

(* A result is pushed. *)
LEMMA AfterPush ==
    ASSUME NEW m, NEW f, NEW P, Orderly(m, f, P), NEW n \in Reports(P),
           NEW S \in Seq(Status), NEW done, Made(P, n, S, done), NEW failed, Missed(P, n, done, failed),
           NEW s \in Status, s.test = P[n].test,
           s.status \in IF P[n].kind = "report" THEN {"pass", "fail"} ELSE {P[n].kind}
    PROVE  Made(P, n + 1, Append(S, s), done) /\ Missed(P, n + 1, done, FALSE)
<1>0. /\ Len(P) \in Nat /\ DOMAIN P = 1 .. Len(P) /\ Reports(P) \subseteq 1 .. Len(P)
      /\ IsFiniteSet(Reports(P)) /\ n \in Nat /\ n + 1 \in 1 .. Len(P) + 1
    BY OrderlyIs
<1>1. \A i, j \in Reports(P) : P[i].test = P[j].test => i = j
    BY DEF Orderly, OneReportEach
<1>2. Reported(P, n + 1) = Reported(P, n) \cup {P[n].test} /\ P[n].test \notin Reported(P, n)
    BY <1>0, <1>1 DEF Reported
<1>3. IsFiniteSet(Reported(P, n))
    <2> DEFINE R == {k \in Reports(P) : k < n}
               g == [k \in R |-> P[k].test]
    <2>1. IsFiniteSet(R)
        BY <1>0, FS_Subset
    <2>2. g \in Surjection(R, Reported(P, n))
        BY DEF Reported, Surjection
    <2> QED  BY <2>1, <2>2, FS_Surjection
<1>4. Cardinality(Reported(P, n + 1)) = Cardinality(Reported(P, n)) + 1
    BY <1>2, <1>3, FS_AddElement
<1> DEFINE T == Append(S, s)
<1>5. /\ Len(T) = Len(S) + 1 /\ DOMAIN T = DOMAIN S \cup {Len(S) + 1}
      /\ DOMAIN S = 1 .. Len(S) /\ Len(S) \in Nat
      /\ T[Len(S) + 1] = s /\ \A i \in DOMAIN S : T[i] = S[i]
    OBVIOUS
<1> HIDE DEF T
<1>6. Collected(P, n, S) /\ Called(P, n, done)
    BY DEF Made
<1>7. Collected(P, n + 1, T)
    <2>1. Len(T) = Cardinality(Reported(P, n + 1))
        BY <1>4, <1>5, <1>6 DEF Collected
    <2>2. {T[i].test : i \in DOMAIN T} = Reported(P, n + 1)
        BY <1>2, <1>5, <1>6 DEF Collected
    <2>3. \A i, j \in DOMAIN T : T[i].test = T[j].test => i = j
        <3>1. \A i \in DOMAIN S : S[i].test # s.test
            BY <1>2, <1>6 DEF Collected
        <3> QED  BY <1>5, <1>6, <3>1 DEF Collected
    <2>4. \A i \in DOMAIN T : StatusFits(P, n + 1, T[i])
        <3>1. \A k \in Reports(P) : k < n => k < n + 1
            BY <1>0
        <3>2. \A x : StatusFits(P, n, x) => StatusFits(P, n + 1, x)
            BY <3>1 DEF StatusFits
        <3>3. n < n + 1
            BY <1>0
        <3>4. StatusFits(P, n + 1, s)
            BY <3>3 DEF StatusFits
        <3> QED  BY <1>5, <1>6, <3>2, <3>4 DEF Collected
    <2> QED  BY <2>1, <2>2, <2>3, <2>4 DEF Collected
<1>8. Called(P, n + 1, done)
    BY <1>0, <1>6 DEF Called, Reports
<1>9. Missed(P, n + 1, done, FALSE)
    <2> SUFFICES ASSUME NEW k \in 1 .. n, P[k].kind \in InTest
                 PROVE  P[k].test \in Reported(P, n + 1)
        BY <1>0 DEF Missed
    <2>1. k # n
        BY Kinds DEF Reports
    <2>2. k \in 1 .. n - 1
        BY <1>0, <2>1
    <2> QED  BY <2>2, ReportOf
<1> QED  BY <1>0, <1>7, <1>8, <1>9 DEF Made, T

(* A test passes when nothing of it was left out. *)
LEMMA PassAfterPush ==
    ASSUME NEW m, NEW f, NEW P, Orderly(m, f, P), NEW n \in DOMAIN P, P[n].kind = "report",
           NEW S \in Seq(Status), NEW done, Made(P, n, S, done), Missed(P, n, done, FALSE),
           Earned(m, S, done), NEW s \in Status, s.test = P[n].test
    PROVE  Earned(m, Append(S, s), done)
<1> DEFINE t == P[n].test
           T == Append(S, s)
<1>0. /\ Len(P) \in Nat /\ n \in 1 .. Len(P) /\ Reports(P) \subseteq 1 .. Len(P) /\ n \in Reports(P)
    BY OrderlyIs DEF Reports, Report
<1>1. /\ DOMAIN T = DOMAIN S \cup {Len(S) + 1} /\ \A i \in DOMAIN S : T[i] = S[i]
      /\ T[Len(S) + 1] = s
    OBVIOUS
<1> HIDE DEF T
<1>2. t \notin Reported(P, n)
    <2>1. \A i, j \in Reports(P) : P[i].test = P[j].test => i = j
        BY DEF Orderly, OneReportEach
    <2> QED  BY <1>0, <2>1 DEF Reported
<1>3. ASSUME NEW kind, NEW of, NEW test, Before(P, n, kind, of, test),
             \/ kind \in InTest /\ test = t
             \/ kind \notin Report \cup InTest
      PROVE  [kind |-> kind, of |-> of, test |-> test] \in done
    <2>1. PICK k \in 1 .. n - 1 : P[k] = [kind |-> kind, of |-> of, test |-> test]
        BY <1>3 DEF Before
    <2>2. P[k].kind = kind /\ P[k].test = test
        BY <2>1
    <2> QED  BY <1>2, <1>3, <2>1, <2>2 DEF Missed, Made, Called
<1>4. HooksComeFirst(m, P)
    BY DEF Orderly
<1>5. Before(P, n, "fn", t, t)
    BY <1>4 DEF HooksComeFirst
<1>6. [kind |-> "fn", of |-> t, test |-> t] \in done
    BY <1>3, <1>5 DEF InTest
<1>7. ASSUME NEW x \in ToSet(PathOf(t))
      PROVE  /\ Back(done, "beforeEach", x, t) /\ Back(done, "afterEach", x, t)
             /\ (x \in File \/ m[x] # "skip") => Back(done, "beforeAll", x, x)
    <2>1. /\ "beforeEach" \in hooks[x] => Before(P, n, "beforeEach", x, t)
          /\ "afterEach" \in hooks[x] => Before(P, n, "afterEach", x, t)
          /\ "beforeAll" \in hooks[x] /\ (x \in File \/ m[x] # "skip") =>
                 Before(P, n, "beforeAll", x, x)
        BY <1>4 DEF HooksComeFirst
    <2>2. "beforeEach" \in InTest /\ "afterEach" \in InTest
        BY DEF InTest
    <2> QED  BY <1>3, <2>1, <2>2, Kinds DEF Back
<1>8. \A i \in DOMAIN T : i \in DOMAIN S \/ T[i].test = t
    BY <1>1
<1> HIDE DEF t
<1> QED  BY <1>1, <1>6, <1>7, <1>8 DEF Earned, T
-----------------------------------------------------------------------------
(* The inductive invariant. *)

(* A worker between files has nothing left of the last one; one that runs  *)
(* a file has made its calls up to the next, or all, when it is through.   *)
WorkerOK(w) ==
    /\ file[w] = None <=> pc[w] \in {"recv", "gone"}
    /\ pc[w] # "run" => next[w] = 1 /\ threw[w] = FALSE
    /\ pc[w] \notin {"run", "send"} => statuses[w] = <<>>
    /\ pc[w] \notin {"run", "send", "error"} => ok[w] = {} /\ w \notin silent
    /\ pc[w] \notin {"load", "run"} => waits[w] = "nothing"
    /\ pc[w] = "run" => Made(Calls(w), next[w], statuses[w], ok[w])
    /\ pc[w] = "run" /\ w \notin silent => Missed(Calls(w), next[w], ok[w], threw[w])
    /\ pc[w] = "send" => Made(Calls(w), Len(Calls(w)) + 1, statuses[w], ok[w])
    /\ w \notin silent => Earned(modifier, statuses[w], ok[w])

(* Where a file is: in the queue, with one worker, lost, in the results or *)
(* dropped after a failure.  While there is work and no failure, a worker  *)
(* that is gone has lost a file.                                           *)
Gone == {w \in Worker : pc[w] = "gone"}

Apart ==
    /\ \A i, j \in DOMAIN queue : queue[i] = queue[j] => i = j
    /\ \A i \in DOMAIN queue : queue[i] \notin lost
    /\ \A w \in Worker : file[w] \notin lost /\ \A i \in DOMAIN queue : queue[i] # file[w]
    /\ \A v, w \in Worker : file[v] = file[w] /\ file[v] # None => v = w

Accounted ==
    \A f \in File :
        \/ \E i \in DOMAIN queue : queue[i] = f
        \/ \E w \in Worker : file[w] = f
        \/ f \in lost \/ bail
        \/ \E r \in results : r.file = f

LossesKnown == queue # <<>> /\ bail = FALSE => Cardinality(lost) = Cardinality(Gone)
BailKnown   == bail => \E r \in results : Failed(r)
AllGone     == main # "collect" => \A w \in Worker : pc[w] = "gone"

FilesAre == Apart /\ Accounted /\ LossesKnown /\ BailKnown /\ AllGone

ResultsFit ==
    \A r \in results : ~r.error =>
        Collected(program[r.file], Len(program[r.file]) + 1, r.tests)

InputOK == modifier \in [Item -> Modifier] /\ program \in [File -> Seq(Call)]
ExecOK ==
    /\ pc \in [Worker -> {"recv", "check", "load", "run", "send", "error", "gone"}]
    /\ file \in [Worker -> File \cup {None}]
    /\ next \in [Worker -> Nat \ {0}]
    /\ threw \in [Worker -> BOOLEAN]
    /\ statuses \in [Worker -> Seq(Status)]
    /\ ok \in [Worker -> SUBSET Call]
    /\ waits \in [Worker -> {"nothing", "event", "silence", "spin"}]
    /\ silent \subseteq Worker
RunOK ==
    /\ queue \in Seq(File) /\ bail \in BOOLEAN
    /\ \A r \in results : r.file \in File /\ r.error \in BOOLEAN /\ r.tests \in Seq(Status)
    /\ main \in {"collect", "types", "done"} /\ types \in {"pass", "fail", "unchecked"}
    /\ lost \subseteq File
UpsetsOK == upsets \in 0 .. MaxUpsets

LEMMA TypeParts == TypeOK <=> InputOK /\ ExecOK /\ RunOK /\ UpsetsOK
BY DEF TypeOK, InputOK, ExecOK, RunOK, UpsetsOK

IInv ==
    /\ TypeOK /\ InOrder
    /\ \A w \in Worker : WorkerOK(w)
    /\ FilesAre /\ ResultsFit

-----------------------------------------------------------------------------
(* Which call is made next when one throws. *)

LEMMA FirstIs ==
    ASSUME NEW w, NEW kinds, Len(Calls(w)) \in Nat, next[w] \in Nat,
           NEW i \in next[w] .. Len(Calls(w)), Calls(w)[i].kind \in kinds
    PROVE  /\ First(w, kinds) \in next[w] .. i
           /\ Calls(w)[First(w, kinds)].kind \in kinds
<1> DEFINE S == {n \in next[w] .. Len(Calls(w)) : Calls(w)[n].kind \in kinds}
<1>1. S \in SUBSET Nat /\ S # {}
    OBVIOUS
<1>2. PICK n \in S : \A m \in S : n <= m
    BY <1>1, Least
<1>3. \A k \in next[w] .. n - 1 : k \notin S
    BY <1>1, <1>2
<1>4. \A k \in next[w] .. n - 1 : Calls(w)[k].kind \notin kinds
    BY <1>1, <1>2, <1>3
<1>5. \E k \in next[w] .. Len(Calls(w)) :
          Calls(w)[k].kind \in kinds /\ \A j \in next[w] .. k - 1 : Calls(w)[j].kind \notin kinds
    BY <1>2, <1>4
<1>6. /\ First(w, kinds) \in next[w] .. Len(Calls(w))
      /\ Calls(w)[First(w, kinds)].kind \in kinds
      /\ \A j \in next[w] .. First(w, kinds) - 1 : Calls(w)[j].kind \notin kinds
    BY <1>5 DEF First
<1>7. First(w, kinds) <= i
    BY <1>6
<1> QED  BY <1>6, <1>7

LEMMA SkipIs ==
    ASSUME NEW w, NEW m, NEW f, Orderly(m, f, Calls(w)), next[w] \in 1 .. Len(Calls(w)),
           Kind(w) \in InTest, NEW error \in BOOLEAN
    PROVE  /\ Skip(w, error) \in next[w] + 1 .. Len(Calls(w))
           /\ \A j \in next[w] .. Skip(w, error) - 1 : Calls(w)[j].kind \in InTest
<1> DEFINE P == Calls(w)
           n == next[w]
           k == Skip(w, error)
<1>1. Len(P) \in Nat /\ DOMAIN P = 1 .. Len(P) /\ n \in DOMAIN P
    BY OrderlyIs
<1>2. PICK i \in n + 1 .. Len(P) : OneTest(P, n, i)
    BY <1>1 DEF Orderly, TestsStandTogether, Kind
<1>3. P[i].kind = "report" /\ \A j \in n .. i - 1 : P[j].kind \in InTest
    BY <1>2 DEF OneTest
<1>4. k \in n + 1 .. i
    <2>1. CASE Kind(w) = "beforeEach"
        <3>1. CASE error
            <4>1. k = First(w, {"afterEach", "report"})
                BY <2>1, <3>1 DEF Skip
            <4>2. k \in n .. i /\ P[k].kind \in {"afterEach", "report"}
                BY <1>1, <1>2, <1>3, <4>1, FirstIs
            <4>3. k # n
                BY <2>1, <4>2 DEF Kind
            <4> QED  BY <1>1, <4>2, <4>3
        <3>2. CASE ~error
            <4>1. k = First(w, {"fn"})
                BY <2>1, <3>2 DEF Skip
            <4>2. PICK j \in n .. i - 1 : P[j].kind = "fn"
                BY <1>2, <2>1 DEF OneTest, Kind
            <4>3. k \in n .. j /\ P[k].kind = "fn"
                BY <1>1, <1>2, <4>1, <4>2, FirstIs
            <4>4. k # n
                BY <2>1, <4>3 DEF Kind
            <4> QED  BY <1>1, <1>2, <4>2, <4>3, <4>4
        <3> QED  BY <3>1, <3>2
    <2>2. CASE Kind(w) = "fn"
        BY <1>1, <1>2, <2>2 DEF Skip
    <2>3. CASE Kind(w) = "afterEach"
        <3>1. k = First(w, {"report"})
            BY <2>3 DEF Skip
        <3>2. k \in n .. i /\ P[k].kind = "report"
            BY <1>1, <1>2, <1>3, <3>1, FirstIs
        <3>3. k # n
            BY <2>3, <3>2 DEF Kind
        <3> QED  BY <1>1, <3>2, <3>3
    <2> QED  BY <2>1, <2>2, <2>3 DEF InTest
<1> QED  BY <1>1, <1>2, <1>3, <1>4
-----------------------------------------------------------------------------
(* The inductive invariant holds: what one worker does leaves the others alone. *)

LEMMA TypeOfParts == IInv => InputOK /\ ExecOK /\ RunOK /\ UpsetsOK
BY TypeParts DEF IInv

LEMMA CallsAre ==
    ASSUME IInv, NEW w \in Worker, pc[w] \notin {"recv", "gone"}
    PROVE  /\ WorkerOK(w) /\ file[w] \in File /\ file[w] # None
           /\ Orderly(modifier, file[w], Calls(w)) /\ Calls(w) \in Seq(Call)
<1>1. file[w] \in File /\ file[w] # None
    BY TypeOfParts, RunnerAssumption DEF IInv, WorkerOK, ExecOK
<1> QED  BY <1>1, TypeOfParts DEF IInv, InOrder, InputOK, Calls

Same(v) ==
    /\ pc'[v] = pc[v] /\ file'[v] = file[v] /\ next'[v] = next[v] /\ threw'[v] = threw[v]
    /\ statuses'[v] = statuses[v] /\ ok'[v] = ok[v] /\ waits'[v] = waits[v]
    /\ (v \in silent' <=> v \in silent)

LEMMA OtherWorkers ==
    ASSUME NEW v \in Worker, WorkerOK(v), UNCHANGED input, Same(v)
    PROVE  WorkerOK(v)'
BY DEF WorkerOK, Calls, Same, input

\* An action of a worker that keeps its file.
LEMMA InsideStep ==
    ASSUME IInv, NEW w \in Worker, pc[w] # "gone", pc'[w] # "gone",
           UNCHANGED <<input, queue, file, bail, results, main, types, lost>>,
           \A v \in Worker \ {w} : Same(v),
           ExecOK', UpsetsOK', WorkerOK(w)'
    PROVE  IInv'
<1>1. InputOK /\ RunOK
    BY TypeOfParts
<1>2. InputOK' /\ RunOK'
    BY <1>1 DEF InputOK, RunOK, input
<1>3. TypeOK'
    BY <1>2, TypeParts, PTL
<1>4. InOrder'
    BY DEF IInv, InOrder, input
<1>5. \A v \in Worker : WorkerOK(v)'
    BY OtherWorkers DEF IInv
<1>6. Gone' = Gone /\ main = "collect" /\ AllGone'
    BY DEF Gone, Same, IInv, FilesAre, AllGone
<1>7. FilesAre'
    <2>1. Apart' /\ Accounted'
        BY DEF IInv, FilesAre, Apart, Accounted
    <2>2. LossesKnown' /\ BailKnown'
        BY <1>6 DEF IInv, FilesAre, LossesKnown, BailKnown, Failed
    <2> QED  BY <1>6, <2>1, <2>2 DEF FilesAre
<1>8. ResultsFit'
    BY DEF IInv, ResultsFit, input
<1> QED  BY <1>3, <1>4, <1>5, <1>7, <1>8 DEF IInv

LEMMA EarnedMore ==
    ASSUME NEW m, NEW S, NEW done, NEW more, Earned(m, S, done), done \subseteq more
    PROVE  Earned(m, S, more)
BY DEF Earned, Back

LEMMA NothingEarned == \A m, done : Earned(m, <<>>, done)
BY DEF Earned

LEMMA NothingMade ==
    ASSUME NEW m, NEW f, NEW P, Orderly(m, f, P)
    PROVE  Made(P, 1, <<>>, {}) /\ Missed(P, 1, {}, FALSE)
<1>1. Len(P) \in Nat /\ 1 \in 1 .. Len(P) + 1 /\ Reports(P) \subseteq 1 .. Len(P)
    BY OrderlyIs
<1>2. Reported(P, 1) = {}
    BY <1>1 DEF Reported
<1>3. Collected(P, 1, <<>>)
    BY <1>2, FS_EmptySet DEF Collected
<1>4. Called(P, 1, {})
    BY DEF Called
<1> QED  BY <1>1, <1>3, <1>4 DEF Made, Missed

LEMMA LoadStep == ASSUME IInv, NEW w \in Worker, Load(w) PROVE IInv'
<1>1. /\ pc[w] = "load" /\ pc' = [pc EXCEPT ![w] = "run"]
      /\ UNCHANGED <<input, queue, file, next, threw, statuses, ok, waits, bail, results, main, types,
                     silent, lost, upsets>>
    BY DEF Load, Become
<1>2. WorkerOK(w) /\ file[w] # None /\ Orderly(modifier, file[w], Calls(w))
    BY <1>1, CallsAre
<1>3. ExecOK /\ UpsetsOK
    BY TypeOfParts
<1>4. ExecOK' /\ UpsetsOK'
    BY <1>1, <1>3 DEF ExecOK, UpsetsOK
<1>5. pc'[w] = "run" /\ Calls(w)' = Calls(w)
    BY <1>1, <1>3 DEF ExecOK, Calls, input
<1>6. Made(Calls(w), 1, <<>>, {}) /\ Missed(Calls(w), 1, {}, FALSE)
    BY <1>2, NothingMade
<1>7. WorkerOK(w)'
    BY <1>1, <1>2, <1>5, <1>6 DEF WorkerOK, input
<1>8. \A v \in Worker \ {w} : Same(v)
    BY <1>1, <1>3 DEF Same, ExecOK
<1> QED  BY <1>1, <1>4, <1>5, <1>7, <1>8, InsideStep

LEMMA ReturnStep == ASSUME IInv, NEW w \in Worker, Return(w) PROVE IInv'
<1> DEFINE n == next[w]
           c == Calls(w)[n]
<1>1. /\ pc[w] = "run" /\ waits[w] = "nothing" /\ n <= Len(Calls(w)) /\ c.kind \notin Report
      /\ next' = [next EXCEPT ![w] = n + 1] /\ ok' = [ok EXCEPT ![w] = ok[w] \cup {c}]
      /\ UNCHANGED <<input, queue, pc, file, threw, statuses, waits, bail, results, main, types,
                     silent, lost, upsets>>
    BY DEF Return, Busy, Kind
<1>2. WorkerOK(w) /\ file[w] # None /\ Orderly(modifier, file[w], Calls(w))
    BY <1>1, CallsAre
<1>3. ExecOK /\ UpsetsOK
    BY TypeOfParts
<1>4. n \in 1 .. Len(Calls(w)) /\ c \in Call
    BY <1>1, <1>2, <1>3, OrderlyIs DEF ExecOK
<1>5. ExecOK' /\ UpsetsOK'
    BY <1>1, <1>3, <1>4 DEF ExecOK, UpsetsOK
<1>6. /\ next'[w] = n + 1 /\ ok'[w] = ok[w] \cup {c} /\ Calls(w)' = Calls(w)
    BY <1>1, <1>3 DEF ExecOK, Calls, input
<1>7. /\ Made(Calls(w), n + 1, statuses[w], ok[w] \cup {c})
      /\ Missed(Calls(w), n, ok[w], threw[w]) => Missed(Calls(w), n + 1, ok[w] \cup {c}, threw[w])
    BY <1>1, <1>2, <1>4, AfterReturn DEF WorkerOK
<1>8. w \notin silent => Earned(modifier, statuses[w], ok[w] \cup {c})
    BY <1>2, EarnedMore DEF WorkerOK
<1> HIDE DEF c, n
<1>9. WorkerOK(w)'
    BY <1>1, <1>2, <1>6, <1>7, <1>8 DEF WorkerOK, input, n
<1>10. \A v \in Worker \ {w} : Same(v)
    BY <1>1, <1>3 DEF Same, ExecOK
<1> QED  BY <1>1, <1>5, <1>9, <1>10, InsideStep

\* A call throws: seen says whether the test learns of it.
LEMMA ThrownStep ==
    ASSUME IInv, NEW w \in Worker, Busy(w), Kind(w) \in InTest, NEW error \in BOOLEAN,
           next' = [next EXCEPT ![w] = Skip(w, error)],
           \/ threw' = [threw EXCEPT ![w] = TRUE] /\ silent' = silent
           \/ threw' = threw /\ silent' = silent \cup {w},
           UNCHANGED <<input, queue, pc, file, statuses, ok, waits, bail, results, main, types, lost>>,
           UpsetsOK'
    PROVE  IInv'
<1> DEFINE n == next[w]
           k == Skip(w, error)
<1>1. pc[w] = "run" /\ waits[w] = "nothing" /\ n <= Len(Calls(w))
    BY DEF Busy
<1>2. WorkerOK(w) /\ file[w] # None /\ Orderly(modifier, file[w], Calls(w))
    BY <1>1, CallsAre
<1>3. ExecOK
    BY TypeOfParts
<1>4. n \in 1 .. Len(Calls(w)) /\ Len(Calls(w)) \in Nat
    BY <1>1, <1>2, <1>3, OrderlyIs DEF ExecOK
<1>5. k \in n + 1 .. Len(Calls(w)) /\ \A j \in n .. k - 1 : Calls(w)[j].kind \in InTest
    BY <1>2, <1>4, SkipIs
<1>6. ExecOK'
    <2>1. k \in Nat \ {0}
        BY <1>4, <1>5
    <2> HIDE DEF k
    <2> QED  BY <1>3, <2>1 DEF ExecOK, k
<1>7. /\ Made(Calls(w), k, statuses[w], ok[w]) /\ Missed(Calls(w), k, ok[w], TRUE)
    BY <1>2, <1>4, <1>5, <1>1, AfterThrow DEF WorkerOK
<1>8. next'[w] = k /\ Calls(w)' = Calls(w) /\ (w \notin silent' => w \notin silent /\ threw'[w] = TRUE)
    BY <1>3 DEF ExecOK, Calls, input
<1> HIDE DEF k
<1>9. WorkerOK(w)'
    BY <1>1, <1>2, <1>7, <1>8 DEF WorkerOK, input
<1>10. \A v \in Worker \ {w} : Same(v)
    BY <1>3 DEF Same, ExecOK
<1> QED  BY <1>1, <1>6, <1>9, <1>10, InsideStep

LEMMA UpsetStep == ASSUME IInv, Upset \/ UNCHANGED upsets PROVE UpsetsOK'
BY TypeOfParts, RunnerAssumption DEF UpsetsOK, Upset

LEMMA ThrowStep == ASSUME IInv, NEW w \in Worker, Throw(w) PROVE IInv'
<1>1. Kind(w) \in InTest /\ UpsetsOK'
    BY UpsetStep DEF Throw, InTest
<1> QED  BY <1>1, ThrownStep DEF Throw

LEMMA ThrowFalsyStep == ASSUME IInv, NEW w \in Worker, ThrowFalsy(w) PROVE IInv'
<1>1. Kind(w) \in InTest /\ UpsetsOK' /\ threw[w] \in BOOLEAN
    BY UpsetStep, TypeOfParts DEF ThrowFalsy, InTest, ExecOK
<1> QED  BY <1>1, ThrownStep DEF ThrowFalsy
LEMMA PushResultStep == ASSUME IInv, NEW w \in Worker, PushResult(w) PROVE IInv'
<1> DEFINE n == next[w]
           P == Calls(w)
           s == [test |-> P[n].test, status |-> Outcome(w)]
           S == statuses[w]
<1>1. /\ pc[w] = "run" /\ waits[w] = "nothing" /\ n <= Len(P) /\ P[n].kind \in Report
      /\ statuses' = [statuses EXCEPT ![w] = Append(S, s)]
      /\ threw' = [threw EXCEPT ![w] = FALSE] /\ next' = [next EXCEPT ![w] = n + 1]
      /\ UNCHANGED <<input, queue, pc, file, ok, waits, bail, results, main, types, silent, lost, upsets>>
    BY DEF PushResult, Busy, Kind
<1>2. WorkerOK(w) /\ file[w] # None /\ Orderly(modifier, file[w], P)
    BY <1>1, CallsAre
<1>3. ExecOK /\ UpsetsOK
    BY TypeOfParts
<1>4. n \in DOMAIN P /\ n \in Reports(P) /\ P[n].test \in Test /\ n \in Nat
    <2>1. n \in Nat \ {0}
        BY <1>3 DEF ExecOK
    <2>2. n \in DOMAIN P
        BY <1>1, <1>2, <2>1, OrderlyIs
    <2>3. n \in Reports(P)
        BY <1>1, <2>2 DEF Reports
    <2>4. P[n].test \in TestsOf(file[w])
        BY <1>2, <2>3, OrderlyIs
    <2> QED  BY <2>1, <2>2, <2>3, <2>4 DEF TestsOf
<1>5. /\ Outcome(w) \in IF P[n].kind = "report" THEN {"pass", "fail"} ELSE {P[n].kind}
      /\ Outcome(w) = "pass" => P[n].kind = "report" /\ threw[w] = FALSE
    <2>1. threw[w] \in BOOLEAN
        BY <1>3 DEF ExecOK
    <2> QED  BY <1>1, <2>1 DEF Outcome, Kind, Report
<1>6. s \in Status /\ S \in Seq(Status)
    BY <1>1, <1>3, <1>4, <1>5 DEF Status, Report, ExecOK
<1> HIDE DEF n, P, s, S
<1>7. Append(S, s) \in Seq(Status)
    BY <1>6
<1>8. ExecOK' /\ UpsetsOK'
    BY <1>1, <1>3, <1>4, <1>7 DEF ExecOK, UpsetsOK
<1>9. statuses'[w] = Append(S, s) /\ threw'[w] = FALSE /\ next'[w] = n + 1 /\ Calls(w)' = P
    BY <1>1, <1>3 DEF ExecOK, Calls, input, P
<1>10. Made(P, n, S, ok[w]) /\ (w \notin silent => Missed(P, n, ok[w], threw[w]) /\ Earned(modifier, S, ok[w]))
    BY <1>1, <1>2 DEF WorkerOK, P, n, S
<1>11. s.test = P[n].test /\ s.status = Outcome(w)
    BY DEF s
<1>12. Made(P, n + 1, Append(S, s), ok[w]) /\ Missed(P, n + 1, ok[w], FALSE)
    <2>1. Missed(P, n, ok[w], TRUE)
        BY DEF Missed
    <2> QED  BY <1>2, <1>4, <1>5, <1>6, <1>10, <1>11, <2>1, AfterPush
<1>13. w \notin silent => Earned(modifier, Append(S, s), ok[w])
    <2> SUFFICES ASSUME w \notin silent PROVE Earned(modifier, Append(S, s), ok[w])
        OBVIOUS
    <2>1. CASE s.status = "pass"
        <3>1. P[n].kind = "report" /\ Missed(P, n, ok[w], FALSE)
            BY <1>5, <1>10, <1>11, <2>1
        <3> QED  BY <1>2, <1>4, <1>6, <1>10, <1>11, <3>1, PassAfterPush
    <2>2. CASE s.status # "pass"
        <3> DEFINE T == Append(S, s)
        <3>1. /\ DOMAIN T = DOMAIN S \cup {Len(S) + 1} /\ \A i \in DOMAIN S : T[i] = S[i]
              /\ T[Len(S) + 1] = s
            BY <1>6
        <3> HIDE DEF T
        <3> QED  BY <1>10, <2>2, <3>1 DEF Earned, T
    <2> QED  BY <2>1, <2>2
<1>14. WorkerOK(w)'
    BY <1>1, <1>2, <1>9, <1>12, <1>13 DEF WorkerOK, input
<1>15. \A v \in Worker \ {w} : Same(v)
    BY <1>1, <1>3 DEF Same, ExecOK
<1> QED  BY <1>1, <1>8, <1>14, <1>15, InsideStep

\* What the file waits for changes.
LEMMA WaitsStep ==
    ASSUME IInv, NEW w \in Worker, pc[w] \in {"load", "run"},
           NEW what \in {"nothing", "event", "silence", "spin"}, waits' = [waits EXCEPT ![w] = what],
           UNCHANGED <<input, queue, pc, file, next, threw, statuses, ok, bail, results, main, types,
                       silent, lost>>,
           UpsetsOK'
    PROVE  IInv'
<1>1. WorkerOK(w) /\ ExecOK
    BY TypeOfParts DEF IInv
<1>2. ExecOK'
    BY <1>1 DEF ExecOK
<1>3. WorkerOK(w)'
    BY <1>1 DEF WorkerOK, Calls, input
<1>4. \A v \in Worker \ {w} : Same(v)
    BY <1>1 DEF Same, ExecOK
<1> QED  BY <1>2, <1>3, <1>4, InsideStep

LEMMA WaitStep == ASSUME IInv, NEW w \in Worker, Wait(w) PROVE IInv'
<1>1. PICK what \in {"event", "silence", "spin"} : waits' = [waits EXCEPT ![w] = what]
    BY DEF Wait
<1>2. UpsetsOK'
    BY UpsetStep DEF Wait
<1> QED  BY <1>1, <1>2, WaitsStep DEF Wait

LEMMA Waiting == ASSUME IInv, NEW w \in Worker, waits[w] # "nothing" PROVE pc[w] \in {"load", "run"}
BY DEF IInv, WorkerOK

LEMMA ArriveStep == ASSUME IInv, NEW w \in Worker, Arrive(w) PROVE IInv'
<1>1. UpsetsOK' /\ pc[w] \in {"load", "run"}
    BY UpsetStep, Waiting DEF Arrive
<1> QED  BY <1>1, WaitsStep DEF Arrive

\* The file has its result.
LEMMA FinishStep ==
    ASSUME IInv, NEW w \in Worker, pc[w] \in {"load", "run"}, NEW outcome \in {"send", "error"},
           Finish(w, outcome), UpsetsOK',
           outcome = "send" => pc[w] = "run" /\ next[w] > Len(Calls(w))
    PROVE  IInv'
<1> DEFINE S == IF outcome = "error" THEN <<>> ELSE statuses[w]
<1>1. /\ pc' = [pc EXCEPT ![w] = outcome] /\ statuses' = [statuses EXCEPT ![w] = S]
      /\ waits' = [waits EXCEPT ![w] = "nothing"] /\ next' = [next EXCEPT ![w] = 1]
      /\ threw' = [threw EXCEPT ![w] = FALSE]
      /\ UNCHANGED <<input, queue, file, ok, bail, results, main, types, silent, lost>>
    BY DEF Finish, Become
<1>2. WorkerOK(w) /\ file[w] # None /\ Orderly(modifier, file[w], Calls(w))
    BY CallsAre
<1>3. ExecOK
    BY TypeOfParts
<1>4. S \in Seq(Status)
    BY <1>3 DEF ExecOK
<1>5. outcome = "send" => Made(Calls(w), Len(Calls(w)) + 1, statuses[w], ok[w])
    <2> SUFFICES ASSUME outcome = "send" PROVE Made(Calls(w), Len(Calls(w)) + 1, statuses[w], ok[w])
        OBVIOUS
    <2>1. Made(Calls(w), next[w], statuses[w], ok[w])
        BY <1>2 DEF WorkerOK
    <2>2. next[w] = Len(Calls(w)) + 1
        BY <1>2, <2>1, OrderlyIs DEF Made
    <2> QED  BY <2>1, <2>2
<1>6. w \notin silent => Earned(modifier, S, ok[w])
    BY <1>2, NothingEarned DEF WorkerOK
<1> HIDE DEF S
<1>7. ExecOK'
    BY <1>1, <1>3, <1>4 DEF ExecOK
<1>8. /\ pc'[w] = outcome /\ statuses'[w] = S /\ waits'[w] = "nothing" /\ next'[w] = 1
      /\ threw'[w] = FALSE /\ Calls(w)' = Calls(w)
    BY <1>1, <1>3 DEF ExecOK, Calls, input
<1>9. WorkerOK(w)'
    BY <1>1, <1>2, <1>5, <1>6, <1>8 DEF WorkerOK, input, S
<1>10. \A v \in Worker \ {w} : Same(v)
    BY <1>1, <1>3 DEF Same, ExecOK
<1>11. pc[w] # "gone" /\ pc'[w] # "gone"
    BY <1>8
<1> QED  BY <1>1, <1>7, <1>9, <1>10, <1>11, InsideStep

LEMMA CollectStep == ASSUME IInv, NEW w \in Worker, Collect(w) PROVE IInv'
BY UpsetStep, FinishStep DEF Collect

LEMMA CollectNothingStep == ASSUME IInv, NEW w \in Worker, CollectNothing(w) PROVE IInv'
<1>1. pc[w] \in {"load", "run"}
    BY Waiting DEF CollectNothing
<1> QED  BY <1>1, UpsetStep, FinishStep DEF CollectNothing

LEMMA TimeOutStep == ASSUME IInv, NEW w \in Worker, TimeOut(w) PROVE IInv'
BY UpsetStep, FinishStep DEF TimeOut

LEMMA FileErrorStep == ASSUME IInv, NEW w \in Worker, FileError(w) PROVE IInv'
BY UpsetStep, FinishStep DEF FileError
-----------------------------------------------------------------------------
(* A worker takes a file or gives it up. *)

LEMMA InvIs ==
    ASSUME IInv, UNCHANGED input, InputOK', ExecOK', RunOK', UpsetsOK',
           \A w \in Worker : WorkerOK(w)', FilesAre', ResultsFit'
    PROVE  IInv'
<1>1. TypeOK'
    BY TypeParts, PTL
<1>2. InOrder'
    BY DEF IInv, InOrder, input
<1> QED  BY <1>1, <1>2 DEF IInv

LEMMA TakeStep == ASSUME IInv, NEW w \in Worker, Take(w) PROVE IInv'
<1>1. /\ pc[w] = "recv"
      /\ UNCHANGED <<input, next, threw, statuses, ok, waits, bail, results, main, types, silent, lost, upsets>>
    BY DEF Take
<1>2. InputOK /\ ExecOK /\ RunOK /\ UpsetsOK /\ WorkerOK(w) /\ FilesAre
    BY TypeOfParts DEF IInv
<1>3. InputOK' /\ UpsetsOK' /\ ResultsFit'
    BY <1>1, <1>2 DEF InputOK, UpsetsOK, input, IInv, ResultsFit
<1>4. main = "collect" /\ file[w] = None
    BY <1>1, <1>2 DEF FilesAre, AllGone, WorkerOK
<1>5. CASE queue = <<>>
    <2>1. pc' = [pc EXCEPT ![w] = "gone"] /\ queue' = queue /\ file' = file
        BY <1>5 DEF Take, Become
    <2>2. ExecOK' /\ RunOK'
        BY <1>1, <1>2, <2>1 DEF ExecOK, RunOK
    <2>3. WorkerOK(w)'
        BY <1>1, <1>2, <2>1 DEF WorkerOK, ExecOK, Calls, input
    <2>4. \A v \in Worker \ {w} : Same(v)
        BY <1>1, <1>2, <2>1 DEF Same, ExecOK
    <2>5. \A v \in Worker : WorkerOK(v)'
        BY <1>1, <2>3, <2>4, OtherWorkers DEF IInv
    <2>6. FilesAre'
        <3>1. Apart' /\ Accounted' /\ LossesKnown'
            BY <1>1, <1>2, <1>5, <2>1 DEF FilesAre, Apart, Accounted, LossesKnown
        <3>2. BailKnown' /\ AllGone'
            BY <1>1, <1>2, <1>4 DEF FilesAre, BailKnown, Failed, AllGone
        <3> QED  BY <3>1, <3>2 DEF FilesAre
    <2> QED  BY <1>1, <1>3, <2>2, <2>5, <2>6, InvIs
<1>6. CASE queue # <<>>
    <2>1. /\ pc' = [pc EXCEPT ![w] = "check"] /\ queue' = Tail(queue)
          /\ file' = [file EXCEPT ![w] = queue[1]]
        BY <1>6 DEF Take, Become
    <2>2. /\ Len(queue) \in Nat /\ DOMAIN queue = 1 .. Len(queue) /\ 1 \in DOMAIN queue
          /\ queue' \in Seq(File) /\ DOMAIN queue' = 1 .. Len(queue) - 1
          /\ \A i \in DOMAIN queue' : i + 1 \in DOMAIN queue /\ queue'[i] = queue[i + 1]
          /\ \A i \in DOMAIN queue : queue[i] \in File
        BY <1>2, <1>6, <2>1 DEF RunOK
    <2>3. file'[w] = queue[1] /\ pc'[w] = "check" /\ \A v \in Worker \ {w} : file'[v] = file[v]
        BY <1>2, <2>1 DEF ExecOK
    <2>4. ExecOK' /\ RunOK'
        BY <1>1, <1>2, <2>1, <2>2 DEF ExecOK, RunOK
    <2>5. WorkerOK(w)'
        <3>1. file'[w] # None
            BY <2>2, <2>3, RunnerAssumption
        <3> QED  BY <1>1, <1>2, <2>3, <3>1 DEF WorkerOK, input
    <2>6. \A v \in Worker \ {w} : Same(v)
        BY <1>1, <1>2, <2>1 DEF Same, ExecOK
    <2>7. \A v \in Worker : WorkerOK(v)'
        BY <1>1, <2>5, <2>6, OtherWorkers DEF IInv
    <2>8. FilesAre'
        <3>1. Apart'
            <4>1. \A i \in DOMAIN queue' : i \in Nat /\ i + 1 # 1
                BY <2>2
            <4>2. \A i, j \in DOMAIN queue' : queue'[i] = queue'[j] => i = j
                <5> SUFFICES ASSUME NEW i \in DOMAIN queue', NEW j \in DOMAIN queue', queue'[i] = queue'[j]
                             PROVE  i = j
                    OBVIOUS
                <5>1. i + 1 = j + 1
                    BY <1>2, <2>2 DEF FilesAre, Apart
                <5> QED  BY <4>1, <5>1
            <4>3. \A i \in DOMAIN queue' : queue'[i] \notin lost'
                BY <1>1, <1>2, <2>2 DEF FilesAre, Apart
            <4>4. \A v \in Worker : file'[v] \notin lost' /\ \A i \in DOMAIN queue' : queue'[i] # file'[v]
                BY <1>1, <1>2, <2>2, <2>3, <4>1 DEF FilesAre, Apart
            <4>5. \A v \in Worker : file[v] # queue[1]
                BY <1>2, <2>2 DEF FilesAre, Apart
            <4>6. \A u, v \in Worker : file'[u] = file'[v] /\ file'[u] # None => u = v
                BY <1>2, <2>3, <4>5 DEF FilesAre, Apart
            <4> QED  BY <4>2, <4>3, <4>4, <4>6 DEF Apart
        <3>2. Accounted'
            <4> SUFFICES ASSUME NEW f \in File, ~bail, f \notin lost, ~\E r \in results : r.file = f
                         PROVE  (\E i \in DOMAIN queue' : queue'[i] = f) \/ (\E v \in Worker : file'[v] = f)
                BY <1>1 DEF Accounted
            <4>1. CASE \E i \in DOMAIN queue : queue[i] = f
                <5>1. PICK i \in DOMAIN queue : queue[i] = f
                    BY <4>1
                <5>2. CASE i = 1
                    BY <2>3, <5>1, <5>2
                <5>3. CASE i # 1
                    <6>1. i - 1 \in DOMAIN queue' /\ queue'[i - 1] = queue[i - 1 + 1] /\ i - 1 + 1 = i
                        BY <2>2, <5>3
                    <6> QED  BY <5>1, <6>1
                <5> QED  BY <5>2, <5>3
            <4>2. CASE \E v \in Worker : file[v] = f
                <5>1. PICK v \in Worker : file[v] = f
                    BY <4>2
                <5>2. v # w
                    BY <1>4, <5>1, RunnerAssumption
                <5> QED  BY <2>3, <5>1, <5>2
            <4> QED  BY <1>2, <4>1, <4>2 DEF FilesAre, Accounted
        <3>3. LossesKnown'
            <4>1. Gone' = Gone
                BY <1>1, <1>2, <2>1 DEF Gone, ExecOK
            <4> QED  BY <1>1, <1>2, <1>6, <4>1 DEF FilesAre, LossesKnown
        <3>4. BailKnown' /\ AllGone'
            BY <1>1, <1>2, <1>4 DEF FilesAre, BailKnown, Failed, AllGone
        <3> QED  BY <3>1, <3>2, <3>3, <3>4 DEF FilesAre
    <2> QED  BY <1>1, <1>3, <2>4, <2>7, <2>8, InvIs
<1> QED  BY <1>5, <1>6

LEMMA CheckBailStep == ASSUME IInv, NEW w \in Worker, CheckBail(w) PROVE IInv'
<1>1. /\ pc[w] = "check"
      /\ UNCHANGED <<input, queue, next, threw, statuses, ok, waits, bail, results, main, types, silent, lost, upsets>>
    BY DEF CheckBail
<1>2. InputOK /\ ExecOK /\ RunOK /\ UpsetsOK /\ WorkerOK(w) /\ FilesAre
    BY TypeOfParts DEF IInv
<1>3. InputOK' /\ RunOK' /\ UpsetsOK' /\ ResultsFit'
    BY <1>1, <1>2 DEF InputOK, RunOK, UpsetsOK, input, IInv, ResultsFit
<1>4. CASE Bail /\ bail
    <2>1. pc' = [pc EXCEPT ![w] = "gone"] /\ file' = [file EXCEPT ![w] = None]
        BY <1>4 DEF CheckBail, Become
    <2>2. ExecOK'
        BY <1>1, <1>2, <2>1 DEF ExecOK
    <2>3. pc'[w] = "gone" /\ file'[w] = None /\ \A v \in Worker \ {w} : file'[v] = file[v]
        BY <1>2, <2>1 DEF ExecOK
    <2>4. WorkerOK(w)'
        BY <1>1, <1>2, <2>3 DEF WorkerOK, input
    <2>5. \A v \in Worker \ {w} : Same(v)
        BY <1>1, <1>2, <2>1 DEF Same, ExecOK
    <2>6. \A v \in Worker : WorkerOK(v)'
        BY <1>1, <2>4, <2>5, OtherWorkers DEF IInv
    <2>7. FilesAre'
        <3>1. \A i \in DOMAIN queue : queue[i] # None
            BY <1>2, RunnerAssumption DEF RunOK
        <3>2. None \notin lost
            BY <1>2, RunnerAssumption DEF RunOK
        <3>3. Apart'
            BY <1>1, <1>2, <2>3, <3>1, <3>2 DEF FilesAre, Apart
        <3>4. bail' = bail /\ bail /\ bail # FALSE
            BY <1>1, <1>4
        <3>5. Accounted' /\ LossesKnown'
            BY <3>4 DEF Accounted, LossesKnown
        <3>6. BailKnown' /\ AllGone'
            BY <1>1, <1>2 DEF FilesAre, BailKnown, Failed, AllGone
        <3> QED  BY <3>3, <3>5, <3>6 DEF FilesAre
    <2> QED  BY <1>1, <1>3, <2>2, <2>6, <2>7, InvIs
<1>5. CASE ~(Bail /\ bail)
    <2>1. pc' = [pc EXCEPT ![w] = "load"] /\ file' = file
        BY <1>5 DEF CheckBail, Become
    <2>2. ExecOK' /\ pc'[w] = "load"
        BY <1>1, <1>2, <2>1 DEF ExecOK
    <2>3. WorkerOK(w)'
        BY <1>1, <1>2, <2>1, <2>2 DEF WorkerOK, input
    <2>4. \A v \in Worker \ {w} : Same(v)
        BY <1>1, <1>2, <2>1 DEF Same, ExecOK
    <2> QED  BY <1>1, <1>3, <2>1, <2>2, <2>3, <2>4, InsideStep
<1> QED  BY <1>4, <1>5

LEMMA PanicStep == ASSUME IInv, NEW w \in Worker, Panic(w) PROVE IInv'
<1>1. /\ pc[w] \in {"load", "run"} /\ waits[w] = "nothing"
      /\ pc' = [pc EXCEPT ![w] = "gone"] /\ lost' = lost \cup {file[w]}
      /\ file' = [file EXCEPT ![w] = None] /\ next' = [next EXCEPT ![w] = 1]
      /\ threw' = [threw EXCEPT ![w] = FALSE] /\ statuses' = [statuses EXCEPT ![w] = <<>>]
      /\ ok' = [ok EXCEPT ![w] = {}] /\ silent' = silent \ {w}
      /\ UNCHANGED <<input, queue, waits, bail, results, main, types>>
    BY DEF Panic, Become
<1>2. InputOK /\ ExecOK /\ RunOK /\ WorkerOK(w) /\ FilesAre /\ file[w] \in File /\ file[w] # None
    BY <1>1, TypeOfParts, CallsAre DEF IInv
<1>3. UpsetsOK'
    BY UpsetStep DEF Panic
<1>4. InputOK' /\ ResultsFit' /\ RunOK'
    BY <1>1, <1>2 DEF InputOK, RunOK, input, IInv, ResultsFit
<1>5. ExecOK'
    <2>1. <<>> \in Seq(Status)
        OBVIOUS
    <2> QED  BY <1>1, <1>2, <2>1 DEF ExecOK
<1>6. /\ pc'[w] = "gone" /\ file'[w] = None /\ next'[w] = 1 /\ threw'[w] = FALSE
      /\ statuses'[w] = <<>> /\ ok'[w] = {} /\ w \notin silent' /\ waits'[w] = "nothing"
      /\ \A v \in Worker \ {w} : file'[v] = file[v]
    BY <1>1, <1>2 DEF ExecOK
<1>7. WorkerOK(w)'
    <2>1. Earned(modifier, <<>>, {})
        BY NothingEarned
    <2> QED  BY <1>1, <1>6, <2>1 DEF WorkerOK, input
<1>8. \A v \in Worker \ {w} : Same(v)
    BY <1>1, <1>2 DEF Same, ExecOK
<1>9. \A v \in Worker : WorkerOK(v)'
    BY <1>1, <1>7, <1>8, OtherWorkers DEF IInv
<1>10. FilesAre'
    <2>1. \A i \in DOMAIN queue : queue[i] # None
        BY <1>2, RunnerAssumption DEF RunOK
    <2>2. None \notin lost'
        BY <1>1, <1>2, RunnerAssumption DEF RunOK
    <2>3. \A v \in Worker \ {w} : file[v] # file[w]
        BY <1>2 DEF FilesAre, Apart
    <2>4. Apart'
        BY <1>1, <1>2, <1>6, <2>1, <2>2, <2>3 DEF FilesAre, Apart
    <2>5. Accounted'
        BY <1>1, <1>2, <1>6 DEF FilesAre, Accounted
    <2>6. LossesKnown'
        <3>1. IsFiniteSet(lost) /\ IsFiniteSet(Gone)
            BY <1>2, FS_Subset, RunnerAssumption DEF RunOK, Gone
        <3>2. Gone' = Gone \cup {w} /\ w \notin Gone
            BY <1>1, <1>2 DEF Gone, ExecOK
        <3>3. file[w] \notin lost
            BY <1>2 DEF FilesAre, Apart
        <3>4. Cardinality(lost') = Cardinality(lost) + 1 /\ Cardinality(Gone') = Cardinality(Gone) + 1
            BY <1>1, <3>1, <3>2, <3>3, FS_AddElement
        <3> QED  BY <1>1, <1>2, <3>4 DEF FilesAre, LossesKnown
    <2>7. BailKnown' /\ AllGone'
        <3>1. main = "collect"
            BY <1>1, <1>2 DEF FilesAre, AllGone
        <3> QED  BY <1>1, <1>2, <3>1 DEF FilesAre, BailKnown, Failed, AllGone
    <2> QED  BY <2>4, <2>5, <2>6, <2>7 DEF FilesAre
<1> QED  BY <1>1, <1>3, <1>4, <1>5, <1>9, <1>10, InvIs

LEMMA SendStep == ASSUME IInv, NEW w \in Worker, Send(w) PROVE IInv'
<1> DEFINE r == Result(w)
<1>1. /\ pc[w] \in {"send", "error"}
      /\ bail' = (bail \/ (Bail /\ Failed(r))) /\ results' = results \cup {r}
      /\ pc' = [pc EXCEPT ![w] = "recv"]
      /\ file' = [file EXCEPT ![w] = None] /\ statuses' = [statuses EXCEPT ![w] = <<>>]
      /\ ok' = [ok EXCEPT ![w] = {}] /\ silent' = silent \ {w}
      /\ UNCHANGED <<input, queue, next, threw, waits, main, types, lost, upsets>>
    BY DEF Send, Become
<1>2. InputOK /\ ExecOK /\ RunOK /\ UpsetsOK /\ WorkerOK(w) /\ FilesAre /\ file[w] \in File /\ file[w] # None
    BY <1>1, TypeOfParts, CallsAre DEF IInv
<1>3. r.file = file[w] /\ r.error = (pc[w] = "error") /\ r.tests = statuses[w]
    BY DEF Result
<1> HIDE DEF r
<1>4. InputOK' /\ UpsetsOK'
    BY <1>1, <1>2 DEF InputOK, UpsetsOK, input
<1>5. bail' \in BOOLEAN
    BY <1>1
<1>6. RunOK'
    BY <1>1, <1>2, <1>3, <1>5 DEF RunOK, ExecOK
<1>7. ResultsFit'
    <2>1. ~r.error => Collected(program[r.file], Len(program[r.file]) + 1, r.tests)
        BY <1>1, <1>2, <1>3 DEF WorkerOK, Made, Calls
    <2> QED  BY <1>1, <2>1 DEF IInv, ResultsFit, input
<1>8. ExecOK'
    <2>1. <<>> \in Seq(Status)
        OBVIOUS
    <2> QED  BY <1>1, <1>2, <2>1 DEF ExecOK
<1>9. /\ pc'[w] = "recv" /\ file'[w] = None /\ statuses'[w] = <<>> /\ ok'[w] = {} /\ w \notin silent'
      /\ \A v \in Worker \ {w} : file'[v] = file[v]
    BY <1>1, <1>2 DEF ExecOK
<1>10. WorkerOK(w)'
    <2>1. Earned(modifier, <<>>, {})
        BY NothingEarned
    <2> QED  BY <1>1, <1>2, <1>9, <2>1 DEF WorkerOK, input
<1>11. \A v \in Worker \ {w} : Same(v)
    BY <1>1, <1>2 DEF Same, ExecOK
<1>12. \A v \in Worker : WorkerOK(v)'
    BY <1>1, <1>10, <1>11, OtherWorkers DEF IInv
<1>13. FilesAre'
    <2>1. \A i \in DOMAIN queue : queue[i] # None
        BY <1>2, RunnerAssumption DEF RunOK
    <2>2. None \notin lost
        BY <1>2, RunnerAssumption DEF RunOK
    <2>3. Apart'
        BY <1>1, <1>2, <1>9, <2>1, <2>2 DEF FilesAre, Apart
    <2>4. Accounted'
        <3> SUFFICES ASSUME NEW f \in File, f \notin lost, ~bail, ~\E i \in DOMAIN queue : queue[i] = f
                     PROVE  (\E v \in Worker : file'[v] = f) \/ \E q \in results' : q.file = f
            BY <1>1 DEF Accounted
        <3>1. CASE \E v \in Worker : file[v] = f
            <4>1. PICK v \in Worker : file[v] = f
                BY <3>1
            <4> QED  BY <1>1, <1>3, <1>9, <4>1
        <3>2. CASE \E q \in results : q.file = f
            BY <1>1, <3>2
        <3> QED  BY <1>2, <3>1, <3>2 DEF FilesAre, Accounted
    <2>5. LossesKnown'
        <3>1. Gone' = Gone
            BY <1>1, <1>2 DEF Gone, ExecOK
        <3>2. bail' = FALSE => bail = FALSE
            BY <1>1, <1>2 DEF RunOK
        <3> QED  BY <1>1, <1>2, <3>1, <3>2 DEF FilesAre, LossesKnown
    <2>6. BailKnown'
        BY <1>1, <1>2 DEF FilesAre, BailKnown, Failed
    <2>7. AllGone'
        BY <1>1, <1>2 DEF FilesAre, AllGone
    <2> QED  BY <2>3, <2>4, <2>5, <2>6, <2>7 DEF FilesAre
<1> QED  BY <1>1, <1>4, <1>6, <1>7, <1>8, <1>12, <1>13, InvIs

\* The thread that collects the results goes on.
LEMMA CollectorStep ==
    ASSUME IInv, Join \/ RunTypeTests
    PROVE  IInv'
<1>1. /\ UNCHANGED <<input, queue, pc, exec, bail, results, silent, lost, upsets>>
      /\ main' \in {"types", "done"} /\ types' \in {"pass", "fail", "unchecked"}
      /\ \A w \in Worker : pc[w] = "gone"
    BY TypeOfParts DEF Join, RunTypeTests, RunOK, IInv, FilesAre, AllGone
<1>2. InputOK /\ ExecOK /\ RunOK /\ UpsetsOK /\ FilesAre
    BY TypeOfParts DEF IInv
<1>3. InputOK' /\ ExecOK' /\ UpsetsOK' /\ ResultsFit'
    BY <1>1, <1>2 DEF InputOK, ExecOK, UpsetsOK, input, exec, IInv, ResultsFit
<1>4. RunOK'
    BY <1>1, <1>2 DEF RunOK
<1>5. \A v \in Worker : WorkerOK(v)'
    <2>1. \A v \in Worker : Same(v)
        BY <1>1 DEF Same, exec
    <2> QED  BY <1>1, <2>1, OtherWorkers DEF IInv
<1>6. FilesAre'
    <2>1. Apart' /\ Accounted' /\ LossesKnown'
        BY <1>1, <1>2 DEF FilesAre, Apart, Accounted, LossesKnown, Gone, exec
    <2>2. BailKnown' /\ AllGone'
        BY <1>1, <1>2 DEF FilesAre, BailKnown, Failed, AllGone
    <2> QED  BY <2>1, <2>2 DEF FilesAre
<1> QED  BY <1>1, <1>3, <1>4, <1>5, <1>6, InvIs
-----------------------------------------------------------------------------
(* Theorems. *)

LEMMA InitIInv == Init => IInv
<1> SUFFICES ASSUME Init PROVE IInv
    OBVIOUS
<1>0. InOrder
    <2>1. modifier \in [Item -> Modifier] /\ \A i \in Item : modifier[i] = "todo" => i \in Test
        BY DEF Init
    <2>2. \A s \in Suite : modifier[s] # "todo"
        BY <2>1, TreeAssumption DEF Item, Node
    <2>3. program = [f \in File |-> RunTests(modifier, f)]
        BY DEF Init
    <2> QED  BY <2>2, <2>3, FileOrderly DEF InOrder
<1>1. /\ modifier \in [Item -> Modifier] /\ queue = Discovered
      /\ pc = [w \in Worker |-> "recv"] /\ file = [w \in Worker |-> None] /\ next = [w \in Worker |-> 1]
      /\ threw = [w \in Worker |-> FALSE] /\ statuses = [w \in Worker |-> <<>>]
      /\ ok = [w \in Worker |-> {}] /\ waits = [w \in Worker |-> "nothing"]
      /\ bail = FALSE /\ results = {} /\ main = "collect" /\ types = "pass"
      /\ silent = {} /\ lost = {} /\ upsets = 0
    BY DEF Init
<1>2. InputOK
    <2>1. \A f \in File : program[f] \in Seq(Call)
        BY <1>0 DEF InOrder, Orderly
    <2>2. program = [f \in File |-> program[f]]
        BY DEF Init
    <2> QED  BY <1>1, <2>1, <2>2 DEF InputOK
<1>3. /\ Discovered \in Seq(File) /\ \A f \in File : \E i \in DOMAIN Discovered : Discovered[i] = f
      /\ \A i, j \in DOMAIN Discovered : Discovered[i] = Discovered[j] => i = j
    <2>1. \A f : f \in File <=> \E i \in DOMAIN Discovered : Discovered[i] = f
        BY RunnerAssumption DEF ToSet
    <2>2. Discovered \in Seq(File) /\ Len(Discovered) \in Nat /\ DOMAIN Discovered = 1 .. Len(Discovered)
        BY RunnerAssumption
    <2>3. IsFiniteSet(1 .. Len(Discovered)) /\ Cardinality(1 .. Len(Discovered)) = Len(Discovered)
        BY <2>2, FS_Interval
    <2>4. Discovered \in Surjection(1 .. Len(Discovered), File)
        BY <2>1, <2>2 DEF Surjection
    <2>5. Discovered \in Injection(1 .. Len(Discovered), File)
        BY <2>3, <2>4, FS_SurjSameCardinalityImpliesInj, RunnerAssumption
    <2>6. \A i, j \in DOMAIN Discovered : Discovered[i] = Discovered[j] => i = j
        BY <2>2, <2>5 DEF Injection, IsInjective
    <2> QED  BY <2>1, <2>2, <2>6
<1>4. TypeOK
    <2>1. RunOK /\ UpsetsOK
        <3>1. UpsetsOK
            BY <1>1, RunnerAssumption DEF UpsetsOK
        <3>2. queue \in Seq(File) /\ bail \in BOOLEAN /\ lost \subseteq File /\ results = {}
            BY <1>1, <1>3
        <3>3. main \in {"collect", "types", "done"} /\ types \in {"pass", "fail", "unchecked"}
            BY <1>1
        <3> QED  BY <3>1, <3>2, <3>3 DEF RunOK
    <2>2. ExecOK
        <3>1. <<>> \in Seq(Status) /\ {} \in SUBSET Call /\ 1 \in Nat \ {0} /\ FALSE \in BOOLEAN
            OBVIOUS
        <3> QED  BY <1>1, <3>1 DEF ExecOK
    <2> QED  BY <1>2, <2>1, <2>2, TypeParts
<1>5. \A w \in Worker : WorkerOK(w)
    BY <1>1, NothingEarned DEF WorkerOK
<1>6. FilesAre
    <2>1. Apart
        BY <1>1, <1>3, RunnerAssumption DEF Apart
    <2>2. Accounted
        BY <1>1, <1>3 DEF Accounted
    <2>3. LossesKnown
        <3>1. Gone = {}
            BY <1>1 DEF Gone
        <3> QED  BY <1>1, <3>1 DEF LossesKnown
    <2>4. BailKnown /\ AllGone
        BY <1>1 DEF BailKnown, AllGone
    <2> QED  BY <2>1, <2>2, <2>3, <2>4 DEF FilesAre
<1>7. ResultsFit
    BY <1>1 DEF ResultsFit
<1> QED  BY <1>0, <1>4, <1>5, <1>6, <1>7 DEF IInv

LEMMA NextIInv == IInv /\ [Next]_vars => IInv'
<1> SUFFICES ASSUME IInv, [Next]_vars PROVE IInv'
    OBVIOUS
<1>1. CASE UNCHANGED vars
    <2>1. InputOK /\ ExecOK /\ RunOK /\ UpsetsOK /\ FilesAre
        BY TypeOfParts DEF IInv
    <2>2. UNCHANGED input /\ \A v \in Worker : Same(v)
        BY <1>1 DEF vars, exec, Same
    <2>3. InputOK' /\ ExecOK' /\ RunOK' /\ UpsetsOK' /\ ResultsFit'
        BY <1>1, <2>1 DEF vars, input, exec, InputOK, ExecOK, RunOK, UpsetsOK, IInv, ResultsFit
    <2>4. \A v \in Worker : WorkerOK(v)'
        BY <2>2, OtherWorkers DEF IInv
    <2>5. FilesAre'
        BY <1>1, <2>1 DEF vars, exec, FilesAre, Apart, Accounted, LossesKnown, Gone, BailKnown, Failed, AllGone
    <2> QED  BY <2>2, <2>3, <2>4, <2>5, InvIs
<1>2. ASSUME NEW w \in Worker,
             \/ Take(w) \/ CheckBail(w) \/ Load(w) \/ Send(w)
             \/ Return(w) \/ Throw(w) \/ ThrowFalsy(w) \/ PushResult(w)
      PROVE  IInv'
    BY <1>2, TakeStep, CheckBailStep, LoadStep, SendStep, ReturnStep, ThrowStep, ThrowFalsyStep,
       PushResultStep
<1>3. ASSUME NEW w \in Worker,
             \/ Wait(w) \/ Arrive(w) \/ TimeOut(w)
             \/ Collect(w) \/ CollectNothing(w) \/ FileError(w) \/ Panic(w)
      PROVE  IInv'
    BY <1>3, WaitStep, ArriveStep, TimeOutStep, CollectStep, CollectNothingStep, FileErrorStep, PanicStep
<1>4. CASE Join \/ RunTypeTests
    BY <1>4, CollectorStep
<1> QED  BY <1>1, <1>2, <1>3, <1>4 DEF Next

(* Whatever the number of files and workers and whatever goes wrong: each  *)
(* worker has made the calls of its file up to the next, and each file is  *)
(* in the channel, with one worker, lost, reported or dropped after a      *)
(* failure.                                                                *)
THEOREM Inductive == Spec => []IInv
BY InitIInv, NextIInv, PTL DEF Spec

(* However the suites are nested and whichever of them and of the tests    *)
(* are marked skip, only or todo, the calls of every file are in order:    *)
(* the tests and their hooks stand together, every test is reported once   *)
(* and runs if it was asked for, and a suite is cleaned up last.           *)
THEOREM ProgramsOrderly == Spec => []ProgramsAreOrderly
<1>1. IInv => ProgramsAreOrderly
    BY DEF IInv, ProgramsAreOrderly
<1> QED  BY <1>1, Inductive, PTL

(* The states of the workers, of their isolates and of the collected       *)
(* results are what the code declares them to be.                          *)
THEOREM TypeCorrect == Spec => []TypeOK
<1>1. IInv => TypeOK
    BY DEF IInv
<1> QED  BY <1>1, Inductive, PTL

(* However the files' calls throw and hang, a result without file_error    *)
(* has one status for every test of its file, "skip" for those left out.   *)
THEOREM EveryTestReported == Spec => []EveryTestIsReported
<1>1. IInv => EveryTestIsReported
    <2> SUFFICES ASSUME IInv, NEW r \in results, ~r.error
                 PROVE  /\ Len(r.tests) = Cardinality(TestsOf(r.file))
                        /\ \A t \in TestsOf(r.file) :
                               /\ Cardinality(Verdict(r, t)) = 1
                               /\ (\A x \in Outer(t) : modifier[x] # "skip") =>
                                      (Verdict(r, t) = {"skip"} <=> modifier[t] # "todo" /\ ~Wanted(t))
        BY DEF EveryTestIsReported
    <2> DEFINE P == program[r.file]
    <2>1. r.file \in File /\ Orderly(modifier, r.file, P) /\ Collected(P, Len(P) + 1, r.tests)
        BY TypeOfParts DEF IInv, RunOK, InOrder, ResultsFit
    <2>2. Reported(P, Len(P) + 1) = TestsOf(r.file)
        <3>1. {k \in Reports(P) : k < Len(P) + 1} = Reports(P)
            BY <2>1, OrderlyIs
        <3> QED  BY <2>1, <3>1 DEF Reported, Orderly, OneReportEach
    <2> HIDE DEF P
    <2>3. Len(r.tests) = Cardinality(TestsOf(r.file))
        BY <2>1, <2>2 DEF Collected
    <2>4. ASSUME NEW t \in TestsOf(r.file)
          PROVE  /\ Cardinality(Verdict(r, t)) = 1
                 /\ (\A x \in Outer(t) : modifier[x] # "skip") =>
                        (Verdict(r, t) = {"skip"} <=> modifier[t] # "todo" /\ ~Wanted(t))
        <3>1. PICK i \in DOMAIN r.tests : r.tests[i].test = t
            BY <2>1, <2>2 DEF Collected
        <3>2. Verdict(r, t) = {r.tests[i].status}
            BY <2>1, <3>1 DEF Verdict, Collected
        <3>3. PICK k \in Reports(P) :
                  /\ P[k].test = t
                  /\ r.tests[i].status \in IF P[k].kind = "report" THEN {"pass", "fail"} ELSE {P[k].kind}
            BY <2>1, <3>1 DEF Collected, StatusFits
        <3>4. r.tests[i].status = "skip" <=> P[k].kind = "skip"
            BY <3>3
        <3>5. (\A x \in Outer(t) : modifier[x] # "skip") =>
                  (P[k].kind = "skip" <=> modifier[t] # "todo" /\ ~Asked(modifier, t))
            BY <2>1, <3>3 DEF Orderly, OneReportEach
        <3>6. Cardinality(Verdict(r, t)) = 1
            BY <3>2, FS_Singleton
        <3> QED  BY <3>2, <3>4, <3>5, <3>6 DEF Wanted
    <2> QED  BY <2>3, <2>4
<1> QED  BY <1>1, Inductive, PTL

(* A test passes only if its function and the hooks around it returned.    *)
THEOREM PassEarned == Spec => []PassIsEarned
<1>1. IInv => PassIsEarned
    BY DEF IInv, WorkerOK, Earned, Back, PassIsEarned, Returned
<1> QED  BY <1>1, Inductive, PTL

(* A suite is cleaned up when its tests are through, and before its file's *)
(* results are sent.                                                       *)
THEOREM CleanupLast == Spec => []CleanupComesLast
<1>1. IInv => CleanupComesLast
    <2> SUFFICES ASSUME IInv, NEW w \in Worker, NEW x \in Node,
                        NEW after, after = [kind |-> "afterAll", of |-> x, test |-> x]
                 PROVE  /\ pc[w] = "run" /\ after \in ok[w] =>
                               \A n \in next[w] .. Len(Calls(w)) :
                                   Calls(w)[n].kind = "fn" => x \notin ToSet(PathOf(Calls(w)[n].of))
                        /\ pc[w] = "send" /\ [after EXCEPT !.kind = "beforeAll"] \in ok[w] =>
                               Returned(w, "afterAll", x, x)
        BY DEF CleanupComesLast
    <2>1. ASSUME pc[w] = "run", after \in ok[w], NEW n \in next[w] .. Len(Calls(w)), Calls(w)[n].kind = "fn"
          PROVE  x \notin ToSet(PathOf(Calls(w)[n].of))
        <3>1. Orderly(modifier, file[w], Calls(w)) /\ Made(Calls(w), next[w], statuses[w], ok[w])
            BY <2>1, CallsAre DEF WorkerOK
        <3>2. PICK k \in 1 .. next[w] - 1 : Calls(w)[k] = after
            BY <2>1, <3>1 DEF Made, Called
        <3>3. Len(Calls(w)) \in Nat /\ DOMAIN Calls(w) = 1 .. Len(Calls(w)) /\ next[w] \in 1 .. Len(Calls(w)) + 1
            BY <3>1, OrderlyIs DEF Made
        <3>4. k \in DOMAIN Calls(w) /\ n \in k + 1 .. Len(Calls(w))
            BY <3>2, <3>3
        <3>5. Calls(w)[k].kind = "afterAll" /\ Calls(w)[k].of = x
            BY <3>2
        <3> QED  BY <2>1, <3>1, <3>4, <3>5 DEF Orderly, CleanupFollows
    <2>2. ASSUME pc[w] = "send", [after EXCEPT !.kind = "beforeAll"] \in ok[w], "afterAll" \in hooks[x]
          PROVE  after \in ok[w]
        <3> DEFINE P == Calls(w)
        <3>1. Orderly(modifier, file[w], P) /\ Made(P, Len(P) + 1, statuses[w], ok[w])
            BY <2>2, CallsAre DEF WorkerOK
        <3>2. [after EXCEPT !.kind = "beforeAll"] = [kind |-> "beforeAll", of |-> x, test |-> x]
            OBVIOUS
        <3>3. Before(P, Len(P) + 1, "beforeAll", x, x)
            BY <2>2, <3>1, <3>2 DEF Made, Called, Before
        <3>4. Before(P, Len(P) + 1, "afterAll", x, x)
            BY <2>2, <3>1, <3>3 DEF Orderly, CleanupFollows
        <3>5. PICK k \in 1 .. Len(P) + 1 - 1 : P[k] = after
            BY <3>4 DEF Before
        <3>6. P[k].kind \notin Report \cup InTest
            BY <3>5, Kinds
        <3> QED  BY <3>1, <3>5, <3>6 DEF Made, Called
    <2> QED  BY <2>1, <2>2 DEF Returned
<1> QED  BY <1>1, Inductive, PTL

(* A successful run ran every test that was asked for, but for the files   *)
(* of workers that panicked and those that nobody was left to take.        *)
THEOREM SuccessEarned == Spec => []SuccessIsEarned
<1>1. IInv => SuccessIsEarned
    <2> SUFFICES ASSUME IInv, main = "done", Success, NEW f \in File
                 PROVE  \/ f \in lost
                        \/ f \in ToSet(queue) /\ Cardinality(lost) = Cardinality(Worker)
                        \/ \E r \in results : r.file = f /\ \A t \in TestsOf(f) :
                                Wanted(t) => Verdict(r, t) = {"pass"}
        BY DEF SuccessIsEarned
    <2>1. FilesAre /\ ExecOK /\ RunOK
        BY TypeOfParts DEF IInv
    <2>2. Gone = Worker
        BY <2>1 DEF FilesAre, AllGone, Gone
    <2>3. bail = FALSE
        BY <2>1 DEF FilesAre, BailKnown, Success, RunOK
    <2>4. \A w \in Worker : file[w] # f
        BY <2>2, RunnerAssumption DEF IInv, WorkerOK, Gone
    <2>5. CASE \E i \in DOMAIN queue : queue[i] = f
        <3>1. f \in ToSet(queue) /\ queue # <<>>
            BY <2>5 DEF ToSet
        <3> QED  BY <2>1, <2>2, <2>3, <3>1 DEF FilesAre, LossesKnown
    <2>6. CASE \E r \in results : r.file = f
        <3>1. PICK r \in results : r.file = f
            BY <2>6
        <3>2. ~r.error /\ ~Failed(r)
            BY DEF Success
        <3> DEFINE P == program[f]
        <3>3. Orderly(modifier, f, P) /\ Collected(P, Len(P) + 1, r.tests)
            BY <3>1, <3>2 DEF IInv, InOrder, ResultsFit
        <3>4. Reported(P, Len(P) + 1) = TestsOf(f)
            <4>1. {k \in Reports(P) : k < Len(P) + 1} = Reports(P)
                BY <3>3, OrderlyIs
            <4> QED  BY <3>3, <4>1 DEF Reported, Orderly, OneReportEach
        <3> HIDE DEF P
        <3>5. ASSUME NEW t \in TestsOf(f), Wanted(t)
              PROVE  Verdict(r, t) = {"pass"}
            <4>1. PICK i \in DOMAIN r.tests : r.tests[i].test = t
                BY <3>3, <3>4 DEF Collected
            <4>2. Verdict(r, t) = {r.tests[i].status}
                BY <3>3, <4>1 DEF Verdict, Collected
            <4>3. PICK k \in Reports(P) :
                      /\ P[k].test = t
                      /\ r.tests[i].status \in IF P[k].kind = "report" THEN {"pass", "fail"} ELSE {P[k].kind}
                BY <3>3, <4>1 DEF Collected, StatusFits
            <4>4. r.tests[i].status # "fail"
                BY <3>2 DEF Failed
            <4>5. modifier[t] # "todo" /\ \A x \in Outer(t) : modifier[x] # "skip"
                BY <3>5 DEF Wanted, Asked, Outer
            <4>6. P[k].kind # "todo" /\ P[k].kind # "skip"
                BY <3>3, <3>5, <4>3, <4>5 DEF Orderly, OneReportEach, Wanted
            <4>7. P[k].kind = "report"
                BY <4>3, <4>6 DEF Reports, Report
            <4> QED  BY <4>2, <4>3, <4>4, <4>7
        <3> QED  BY <3>1, <3>5
    <2> QED  BY <2>1, <2>3, <2>4, <2>5, <2>6 DEF FilesAre, Accounted
<1> QED  BY <1>1, Inductive, PTL
=============================================================================
