------------------------------ MODULE Recursion ------------------------------
(***************************************************************************)
(* Induction and recursion for the proofs of the other modules.  The       *)
(* induction theorems of the library take the formula to be proved as an   *)
(* operator; here it is a set, the elements it holds of, so that a lemma   *)
(* can be cited like any other.                                            *)
(***************************************************************************)
EXTENDS Integers, Sequences, FiniteSets, SequenceTheorems, WellFoundedInduction, TLAPS

(* Every nonempty set of naturals has a least element.                     *)
LEMMA LeastNatural ==
    ASSUME NEW S \in SUBSET Nat, S # {}
    PROVE  \E x \in S : \A y \in S : x <= y
<1> DEFINE R == OpToRel(<, Nat)
<1>1. IsWellFoundedOn(R, Nat)
    BY NatLessThanWellFounded
<1>2. \A x, y \in Nat : y < x => <<y, x>> \in R
    BY DEF OpToRel
<1> HIDE DEF R
<1>3. PICK x \in S : \A y \in S : <<y, x>> \notin R
    BY <1>1, WFMin
<1>4. ASSUME NEW y \in S PROVE x <= y
    <2>1. x \in Nat /\ y \in Nat
        OBVIOUS
    <2>2. ~(y < x)
        BY <1>2, <1>3, <2>1, Zenon
    <2> QED
        BY <2>1, <2>2
<1> QED
    BY <1>3, <1>4

(* Every nonempty set of naturals with a bound has a greatest.             *)
LEMMA GreatestNatural ==
    ASSUME NEW S \in SUBSET Nat, S # {}, NEW b \in Nat, \A y \in S : y <= b
    PROVE  \E x \in S : \A y \in S : y <= x
<1> DEFINE T == {k \in Nat : \A y \in S : y <= k}
<1>1. T \in SUBSET Nat /\ b \in T
    OBVIOUS
<1>2. PICK t \in T : \A k \in T : t <= k
    BY <1>1, LeastNatural
<1>3. t \in Nat /\ \A y \in S : y <= t
    BY <1>2
<1>4. t \in S
    <2> SUFFICES ASSUME t \notin S PROVE FALSE
        OBVIOUS
    <2>1. PICK y \in S : TRUE
        OBVIOUS
    <2>2. \A z \in S : z \in Nat /\ z < t
        BY <1>3
    <2>3. t - 1 \in T
        BY <1>3, <2>1, <2>2
    <2> QED
        BY <1>2, <1>3, <2>3
<1> QED
    BY <1>3, <1>4

(* Each element whose predecessors in a measure are in S is in S.          *)
Inherits(S, m, X) ==
    \A x \in X : (\A y \in X : m[y] < m[x] => y \in S) => x \in S

(* Then they all are.                                                      *)
LEMMA MeasureInduction ==
    ASSUME NEW X, NEW m \in [X -> Nat], NEW S, Inherits(S, m, X)
    PROVE  \A x \in X : x \in S
<1> SUFFICES ASSUME NEW x0 \in X, x0 \notin S PROVE FALSE
    OBVIOUS
<1> DEFINE M == {m[x] : x \in {y \in X : y \notin S}}
<1>1. M \in SUBSET Nat /\ m[x0] \in M
    OBVIOUS
<1>2. PICK k \in M : \A j \in M : k <= j
    BY <1>1, LeastNatural
<1>3. PICK x \in X : x \notin S /\ m[x] = k
    BY <1>2
<1>4. \A y \in X : m[y] < m[x] => y \in S
    <2> SUFFICES ASSUME NEW y \in X, m[y] < m[x], y \notin S PROVE FALSE
        OBVIOUS
    <2>1. m[y] \in M
        OBVIOUS
    <2> HIDE DEF M
    <2> QED
        BY <1>2, <1>3, <2>1
<1> QED
    BY <1>3, <1>4 DEF Inherits

(* What holds at first, and after a turn of a loop if it held before it,   *)
(* holds after any turn.                                                   *)
LEMMA LoopInduction ==
    ASSUME NEW n \in Nat, NEW S, 0 \in S, \A k \in 1 .. n : k - 1 \in S => k \in S
    PROVE  \A k \in 0 .. n : k \in S
<1> DEFINE m == [k \in 0 .. n |-> k]
<1>1. m \in [0 .. n -> Nat] /\ \A k \in 0 .. n : m[k] = k
    OBVIOUS
<1> HIDE DEF m
<1>2. ASSUME NEW k \in 0 .. n, \A j \in 0 .. n : m[j] < m[k] => j \in S
      PROVE  k \in S
    <2>1. CASE k = 0
        BY <2>1
    <2>2. CASE k # 0
        <3>1. k \in 1 .. n /\ k - 1 \in 0 .. n /\ m[k - 1] < m[k]
            BY <1>1, <2>2
        <3> QED
            BY <1>2, <3>1
    <2> QED
        BY <2>1, <2>2
<1>3. Inherits(S, m, 0 .. n)
    BY <1>2 DEF Inherits
<1> QED
    BY <1>1, <1>3, MeasureInduction

(* A measure of the arguments that stays below b.                          *)
Measures(m, b, X) == m \in [X -> Nat] /\ \A x \in X : m[x] < b

(* What G makes of a function f at x depends on f at lower arguments only. *)
Lowers(G, m, X, D) ==
    /\ G \in [[X -> D] -> [X -> D]]
    /\ \A x \in X : \A f, g \in [X -> D] :
          (\A y \in X : m[y] < m[x] => f[y] = g[y]) => G[f][x] = G[g][x]

(* f is a function that G defines.                                         *)
Solves(f, G, X) == \A x \in X : f[x] = G[f][x]

(* A recursive definition whose calls lower a bounded measure defines      *)
(* something: there is a function that satisfies it.                       *)
LEMMA RecursiveFunction ==
    ASSUME NEW X, NEW D, NEW d \in D, NEW m, NEW b \in Nat, Measures(m, b, X),
           NEW G, Lowers(G, m, X, D)
    PROVE  \E f \in [X -> D] : Solves(f, G, X)
<1>0. /\ G \in [[X -> D] -> [X -> D]]
      /\ m \in [X -> Nat] /\ \A x \in X : m[x] < b
      /\ \A x \in X : \A f, g \in [X -> D] :
            (\A y \in X : m[y] < m[x] => f[y] = g[y]) => G[f][x] = G[g][x]
    BY DEF Measures, Lowers
<1> DEFINE Upto(k, f) == \A x \in X : m[x] < k => f[x] = G[f][x]
           Bad == {k \in Nat : ~ \E f \in [X -> D] : Upto(k, f)}
<1>1. 0 \notin Bad
    <2>1. [x \in X |-> d] \in [X -> D]
        OBVIOUS
    <2>2. Upto(0, [x \in X |-> d])
        BY <1>0
    <2> HIDE DEF Upto
    <2> QED
        BY <2>1, <2>2
<1>2. ASSUME NEW k \in Nat, k \notin Bad PROVE k + 1 \notin Bad
    <2>1. PICK f \in [X -> D] : Upto(k, f)
        BY <1>2
    <2> HIDE DEF Upto
    <2> DEFINE g == G[f]
    <2>2. g \in [X -> D]
        BY <1>0
    <2>3. ASSUME NEW x \in X, m[x] < k + 1 PROVE g[x] = G[g][x]
        <3>1. \A y \in X : m[y] < m[x] => m[y] < k
            BY <1>0, <2>3
        <3>2. \A y \in X : m[y] < m[x] => f[y] = g[y]
            BY <2>1, <3>1 DEF Upto
        <3> QED
            BY <1>0, <2>2, <3>2
    <2>4. Upto(k + 1, g)
        BY <2>3 DEF Upto
    <2> HIDE DEF Upto, g
    <2> QED
        BY <2>2, <2>4
<1> HIDE DEF Upto
<1>3. Bad = {}
    <2> SUFFICES ASSUME Bad # {} PROVE FALSE
        OBVIOUS
    <2>1. PICK k \in Bad : \A j \in Bad : k <= j
        <3>1. Bad \in SUBSET Nat
            OBVIOUS
        <3> HIDE DEF Bad
        <3> QED
            BY <3>1, LeastNatural
    <2>2. k \in Nat /\ k # 0
        BY <1>1, <2>1
    <2> HIDE DEF Bad
    <2>3. k - 1 \in Nat /\ k - 1 \notin Bad
        BY <2>1, <2>2
    <2>4. (k - 1) + 1 = k
        BY <2>2
    <2> QED
        BY <1>2, <2>1, <2>3, <2>4
<1>4. PICK f \in [X -> D] : Upto(b, f)
    BY <1>3
<1> QED
    BY <1>0, <1>4 DEF Upto, Solves

(* The same where at most one call is made, at next[x].                    *)
Follows(f, X, stop, val, op, next) ==
    \A x \in X : f[x] = IF x \in stop THEN val[x] ELSE op[x][f[next[x]]]

(* It defines something, too.                                              *)
LEMMA ChainRecursion ==
    ASSUME NEW X, NEW D, NEW d \in D, NEW m, NEW b \in Nat, Measures(m, b, X),
           NEW stop, NEW val \in [X -> D], NEW next \in [X -> X],
           NEW op \in [X -> [D -> D]],
           \A x \in X : x \notin stop => m[next[x]] < m[x]
    PROVE  \E f \in [X -> D] : Follows(f, X, stop, val, op, next)
<1> DEFINE Step == [f \in [X -> D] |->
                    [x \in X |-> IF x \in stop THEN val[x] ELSE op[x][f[next[x]]]]]
<1>1. \A x \in X : \A f \in [X -> D] :
         Step[f][x] = IF x \in stop THEN val[x] ELSE op[x][f[next[x]]]
    OBVIOUS
<1>2. Step \in [[X -> D] -> [X -> D]]
    OBVIOUS
<1> HIDE DEF Step
<1>3. Lowers(Step, m, X, D)
    BY <1>1, <1>2 DEF Lowers
<1>4. PICK f \in [X -> D] : Solves(f, Step, X)
    BY <1>3, RecursiveFunction
<1>5. \A x \in X : f[x] = IF x \in stop THEN val[x] ELSE op[x][f[next[x]]]
    BY <1>1, <1>4, Zenon DEF Solves
<1> QED
    BY <1>5, Zenon DEF Follows

-----------------------------------------------------------------------------
(***************************************************************************)
(* Folds.  Those of the library recur on sets of indices, the greatest     *)
(* index of a set being the last to be folded in.                          *)
(***************************************************************************)

Greatest(s) == CHOOSE x \in s : \A y \in s : x >= y

GreatestOf(n) == [s \in SUBSET (1 .. n) |-> IF s = {} THEN 0 ELSE Greatest(s)]

(* Taking the greatest index away lowers the greatest index.               *)
LEMMA GreatestLowers ==
    ASSUME NEW n \in Nat
    PROVE  /\ Measures(GreatestOf(n), n + 1, SUBSET (1 .. n))
           /\ \A s \in SUBSET (1 .. n) : s # {} =>
                 /\ Greatest(s) \in s /\ s \ {Greatest(s)} \in SUBSET (1 .. n)
                 /\ GreatestOf(n)[s \ {Greatest(s)}] < GreatestOf(n)[s]
<1>1. ASSUME NEW s \in SUBSET (1 .. n), s # {}
      PROVE  Greatest(s) \in s /\ \A y \in s : Greatest(s) >= y
    <2>1. s \in SUBSET Nat /\ \A y \in s : y <= n
        OBVIOUS
    <2>2. \E x \in s : \A y \in s : y <= x
        BY <1>1, <2>1, GreatestNatural
    <2>3. \E x \in s : \A y \in s : x >= y
        BY <2>1, <2>2
    <2> QED
        BY <2>3, Zenon DEF Greatest
<1>2. \A s \in SUBSET (1 .. n) : GreatestOf(n)[s] = IF s = {} THEN 0 ELSE Greatest(s)
    BY DEF GreatestOf
<1>3. ASSUME NEW s \in SUBSET (1 .. n) PROVE GreatestOf(n)[s] \in Nat /\ GreatestOf(n)[s] < n + 1
    <2>1. CASE s = {}
        BY <1>2, <2>1
    <2>2. CASE s # {}
        <3>1. Greatest(s) \in 1 .. n /\ GreatestOf(n)[s] = Greatest(s)
            BY <1>1, <1>2, <2>2
        <3> QED
            BY <3>1
    <2> QED
        BY <2>1, <2>2
<1>4. Measures(GreatestOf(n), n + 1, SUBSET (1 .. n))
    <2>1. \A s \in SUBSET (1 .. n) : (IF s = {} THEN 0 ELSE Greatest(s)) \in Nat
        BY <1>2, <1>3
    <2>2. GreatestOf(n) \in [SUBSET (1 .. n) -> Nat]
        BY <2>1 DEF GreatestOf
    <2> QED
        BY <1>3, <2>2 DEF Measures
<1>5. ASSUME NEW s \in SUBSET (1 .. n), s # {}
      PROVE  GreatestOf(n)[s \ {Greatest(s)}] < GreatestOf(n)[s]
    <2> DEFINE t == s \ {Greatest(s)}
    <2>1. t \in SUBSET (1 .. n) /\ GreatestOf(n)[s] = Greatest(s) /\ Greatest(s) \in 1 .. n
        BY <1>1, <1>2, <1>5
    <2>2. CASE t = {}
        BY <1>2, <2>1, <2>2
    <2>3. CASE t # {}
        <3>1. Greatest(t) \in t
            BY <1>1, <2>1, <2>3
        <3>2. Greatest(t) \in s /\ Greatest(t) # Greatest(s) /\ Greatest(t) \in 1 .. n
            BY <3>1
        <3>3. Greatest(s) >= Greatest(t)
            BY <1>1, <1>5, <3>2
        <3> QED
            BY <1>2, <2>1, <2>3, <3>2, <3>3
    <2> QED
        BY <2>2, <2>3
<1> QED
    BY <1>1, <1>4, <1>5

(* A fold is defined by its equation, which has a solution ...             *)
Folds(f, n, base, op) ==
    \A s \in SUBSET (1 .. n) :
       f[s] = IF s = {} THEN base ELSE op[Greatest(s)][f[s \ {Greatest(s)}]]

(* ... for every base and every step: a fold over 1 .. n exists.           *)
LEMMA FoldExists ==
    ASSUME NEW n \in Nat, NEW T, NEW base \in T, NEW op \in [1 .. n -> [T -> T]]
    PROVE  \E f \in [SUBSET (1 .. n) -> T] : Folds(f, n, base, op)
<1> DEFINE X == SUBSET (1 .. n)
           val == [s \in X |-> base]
           next == [s \in X |-> IF s = {} THEN s ELSE s \ {Greatest(s)}]
           step == [s \in X |-> IF s = {} THEN [v \in T |-> v] ELSE op[Greatest(s)]]
<1>0. /\ Measures(GreatestOf(n), n + 1, X)
      /\ \A s \in X : s # {} =>
            /\ Greatest(s) \in s /\ s \ {Greatest(s)} \in X
            /\ GreatestOf(n)[s \ {Greatest(s)}] < GreatestOf(n)[s]
    BY GreatestLowers, Zenon
<1>1. /\ \A s \in X : s # {} => Greatest(s) \in 1 .. n
      /\ \A s \in X : s \notin {{}} => GreatestOf(n)[next[s]] < GreatestOf(n)[s]
    <2>1. \A s \in X : s # {} => next[s] = s \ {Greatest(s)}
        OBVIOUS
    <2> QED
        BY <1>0, <2>1
<1>2. val \in [X -> T] /\ next \in [X -> X] /\ step \in [X -> [T -> T]]
    BY <1>0, <1>1
<1>3. \A f \in [X -> T] : \A s \in X :
         (IF s \in {{}} THEN val[s] ELSE step[s][f[next[s]]])
         = (IF s = {} THEN base ELSE op[Greatest(s)][f[s \ {Greatest(s)}]])
    OBVIOUS
<1> HIDE DEF val, next, step, X
<1>4. PICK f \in [X -> T] : Follows(f, X, {{}}, val, step, next)
    <2>1. n + 1 \in Nat
        OBVIOUS
    <2> QED
        BY <1>0, <1>1, <1>2, <2>1, ChainRecursion
<1>5. \A s \in X : f[s] = IF s = {} THEN base ELSE op[Greatest(s)][f[s \ {Greatest(s)}]]
    BY <1>3, <1>4, Zenon DEF Follows
<1> QED
    BY <1>5 DEF X, Folds

(* ... and its values on the first k indices are those of a loop.          *)
LEMMA FirstIndices ==
    ASSUME NEW n \in Nat, NEW k \in 1 .. n
    PROVE  /\ 1 .. k \in SUBSET (1 .. n) /\ 1 .. k # {}
           /\ Greatest(1 .. k) = k /\ (1 .. k) \ {Greatest(1 .. k)} = 1 .. k - 1
<1>1. 1 .. k \in SUBSET (1 .. n) /\ k \in 1 .. k
    OBVIOUS
<1>2. Greatest(1 .. k) = k
    BY <1>1 DEF Greatest
<1> QED
    BY <1>1, <1>2

(* What holds of the base, and is passed on by each index ...              *)
Keeps(f, n, T) ==
    /\ f[{}] \in T
    /\ \A s \in SUBSET (1 .. n) : s # {} /\ f[s \ {Greatest(s)}] \in T => f[s] \in T

(* ... holds of the whole fold.                                            *)
LEMMA FoldInduction ==
    ASSUME NEW n \in Nat, NEW T, NEW f, Keeps(f, n, T)
    PROVE  \A s \in SUBSET (1 .. n) : f[s] \in T
<1> DEFINE X == SUBSET (1 .. n)
           S == {s \in X : f[s] \in T}
           m == GreatestOf(n)
<1>1. \A s \in X : s # {} => s \ {Greatest(s)} \in X /\ m[s \ {Greatest(s)}] < m[s]
    BY GreatestLowers, Zenon
<1>2. m \in [X -> Nat]
    BY GreatestLowers DEF Measures
<1> HIDE DEF m
<1>3. ASSUME NEW s \in X, \A t \in X : m[t] < m[s] => t \in S
      PROVE  s \in S
    <2>1. CASE s = {}
        BY <2>1 DEF Keeps
    <2>2. CASE s # {}
        <3>1. s \ {Greatest(s)} \in S
            BY <1>1, <1>3, <2>2
        <3> QED
            BY <2>2, <3>1 DEF Keeps
    <2> QED
        BY <2>1, <2>2
<1> HIDE DEF S, X
<1>4. Inherits(S, m, X)
    BY <1>3 DEF Inherits
<1>5. \A s \in X : s \in S
    BY <1>2, <1>4, MeasureInduction
<1> QED
    BY <1>5 DEF S, X

-----------------------------------------------------------------------------
(***************************************************************************)
(* A fold over a sequence of elements of E with values in T, whose step is *)
(* a function: what it makes of an empty sequence and of one more element. *)
(***************************************************************************)

IsStep(step, E, T) == step \in [T -> [E -> T]]

(* The values of the fold over s on every set of its indices.              *)
Table(f, step, base, s) ==
    \A t \in SUBSET (1 .. Len(s)) :
       f[t] = IF t = {} THEN base ELSE step[f[t \ {Greatest(t)}]][s[Greatest(t)]]

FoldOf(T, step, base, s) ==
    LET f == CHOOSE f \in [SUBSET (1 .. Len(s)) -> T] : Table(f, step, base, s)
    IN  f[1 .. Len(s)]

(* There is such a table.                                                  *)
LEMMA TableExists ==
    ASSUME NEW E, NEW T, NEW base \in T, NEW step, IsStep(step, E, T), NEW s \in Seq(E)
    PROVE  \E f \in [SUBSET (1 .. Len(s)) -> T] : Table(f, step, base, s)
<1> DEFINE n == Len(s)
           op == [i \in 1 .. n |-> [v \in T |-> step[v][s[i]]]]
<1>1. n \in Nat /\ \A i \in 1 .. n : s[i] \in E
    BY LenProperties, ElementOfSeq
<1>2. op \in [1 .. n -> [T -> T]] /\ \A i \in 1 .. n, v \in T : op[i][v] = step[v][s[i]]
    BY <1>1 DEF IsStep
<1>3. \A t \in SUBSET (1 .. n) :
         t # {} => Greatest(t) \in 1 .. n /\ t \ {Greatest(t)} \in SUBSET (1 .. n)
    BY <1>1, GreatestLowers
<1> HIDE DEF op, n
<1>4. PICK f \in [SUBSET (1 .. n) -> T] : Folds(f, n, base, op)
    BY <1>1, <1>2, FoldExists
<1>5. ASSUME NEW t \in SUBSET (1 .. n)
      PROVE  f[t] = IF t = {} THEN base ELSE step[f[t \ {Greatest(t)}]][s[Greatest(t)]]
    <2>1. CASE t = {}
        BY <1>4, <2>1 DEF Folds
    <2>2. CASE t # {}
        <3>1. f[t] = op[Greatest(t)][f[t \ {Greatest(t)}]]
            BY <1>4, <2>2 DEF Folds
        <3> QED
            BY <1>2, <1>3, <1>4, <2>2, <3>1
    <2> QED
        BY <2>1, <2>2
<1> QED
    BY <1>4, <1>5 DEF Table, n

(* r begins as s does.                                                     *)
Begins(s, r) ==
    /\ Len(s) \in Nat /\ Len(r) \in Nat /\ Len(s) <= Len(r)
    /\ \A i \in 1 .. Len(s) : s[i] = r[i]

Agree(f, g, n) == \A t \in SUBSET (1 .. n) : f[t] = g[t]

(* Then tables for the two agree.                                          *)
LEMMA TablesAgree ==
    ASSUME NEW step, NEW base, NEW s, NEW r, Begins(s, r),
           NEW f, Table(f, step, base, s), NEW g, Table(g, step, base, r)
    PROVE  Agree(f, g, Len(s))
<1> DEFINE n == Len(s)
           h == [t \in SUBSET (1 .. n) |-> f[t] = g[t]]
<1>1. /\ n \in Nat /\ \A t \in SUBSET (1 .. n) : t \in SUBSET (1 .. Len(r))
      /\ \A i \in 1 .. n : s[i] = r[i]
    BY DEF Begins
<1>2. \A t \in SUBSET (1 .. n) :
         t # {} => Greatest(t) \in 1 .. n /\ t \ {Greatest(t)} \in SUBSET (1 .. n)
    BY <1>1, GreatestLowers
<1>3. f[{}] = g[{}]
    <2>1. f[{}] = base
        BY DEF Table
    <2>2. g[{}] = base
        BY DEF Table
    <2> QED
        BY <2>1, <2>2
<1> HIDE DEF n
<1>4. ASSUME NEW t \in SUBSET (1 .. n), t # {}, f[t \ {Greatest(t)}] = g[t \ {Greatest(t)}]
      PROVE  f[t] = g[t]
    <2>1. f[t] = step[f[t \ {Greatest(t)}]][s[Greatest(t)]]
        BY <1>4 DEF Table, n
    <2>2. g[t] = step[g[t \ {Greatest(t)}]][r[Greatest(t)]]
        BY <1>1, <1>4 DEF Table
    <2> QED
        BY <1>1, <1>2, <1>4, <2>1, <2>2
<1>5. Keeps(h, n, {TRUE})
    <2>1. h[{}] \in {TRUE}
        BY <1>3
    <2>2. ASSUME NEW t \in SUBSET (1 .. n), t # {}, h[t \ {Greatest(t)}] \in {TRUE}
          PROVE  h[t] \in {TRUE}
        BY <1>2, <1>4, <2>2
    <2> QED
        BY <2>1, <2>2 DEF Keeps
<1>6. \A t \in SUBSET (1 .. n) : h[t] \in {TRUE}
    <2> HIDE DEF h
    <2> QED
        BY <1>1, <1>5, FoldInduction
<1> QED
    BY <1>6 DEF n, Agree

(* Any table has the value of the fold.                                    *)
LEMMA FoldIs ==
    ASSUME NEW E, NEW T, NEW base \in T, NEW step, IsStep(step, E, T), NEW s \in Seq(E),
           NEW f, Table(f, step, base, s)
    PROVE  f[1 .. Len(s)] = FoldOf(T, step, base, s) /\ FoldOf(T, step, base, s) \in T
<1> DEFINE n == Len(s)
           g == CHOOSE g \in [SUBSET (1 .. n) -> T] : Table(g, step, base, s)
<1>1. n \in Nat /\ 1 .. n \in SUBSET (1 .. n)
    BY LenProperties
<1>2. g \in [SUBSET (1 .. n) -> T] /\ Table(g, step, base, s)
    BY TableExists
<1>3. FoldOf(T, step, base, s) = g[1 .. n]
    BY DEF FoldOf
<1> HIDE DEF g
<1>4. \A t \in SUBSET (1 .. n) : f[t] = g[t]
    <2>1. Begins(s, s)
        BY <1>1 DEF Begins
    <2>2. Agree(f, g, n)
        BY <1>2, <2>1, TablesAgree
    <2> QED
        BY <2>2 DEF Agree
<1> QED
    BY <1>1, <1>2, <1>3, <1>4

(* What the fold makes of nothing, and of one more element.                *)
LEMMA FoldLaws ==
    ASSUME NEW E, NEW T, NEW base \in T, NEW step, IsStep(step, E, T)
    PROVE  /\ FoldOf(T, step, base, <<>>) = base
           /\ \A s \in Seq(E) : FoldOf(T, step, base, s) \in T
           /\ \A s \in Seq(E), e \in E :
                 FoldOf(T, step, base, Append(s, e)) = step[FoldOf(T, step, base, s)][e]
<1>1. FoldOf(T, step, base, <<>>) = base
    <2> DEFINE none == <<>>
    <2>1. none \in Seq(E) /\ 1 .. Len(none) = {}
        BY EmptySeq
    <2> HIDE DEF none
    <2>2. PICK f \in [SUBSET (1 .. Len(none)) -> T] : Table(f, step, base, none)
        BY <2>1, TableExists
    <2>3. f[1 .. Len(none)] = base
        BY <2>1, <2>2 DEF Table
    <2>4. f[1 .. Len(none)] = FoldOf(T, step, base, none)
        BY <2>1, <2>2, FoldIs
    <2> QED
        BY <2>3, <2>4 DEF none
<1>2. ASSUME NEW s \in Seq(E) PROVE FoldOf(T, step, base, s) \in T
    BY TableExists, FoldIs
<1>3. ASSUME NEW s \in Seq(E), NEW e \in E
      PROVE  FoldOf(T, step, base, Append(s, e)) = step[FoldOf(T, step, base, s)][e]
    <2> DEFINE r == Append(s, e)
    <2>1. /\ Len(s) \in Nat /\ r \in Seq(E) /\ Len(r) = Len(s) + 1 /\ r[Len(r)] = e
          /\ \A i \in 1 .. Len(s) : s[i] = r[i]
        BY LenProperties, AppendProperties
    <2> HIDE DEF r
    <2>2. PICK f \in [SUBSET (1 .. Len(s)) -> T] : Table(f, step, base, s)
        BY TableExists
    <2>3. PICK g \in [SUBSET (1 .. Len(r)) -> T] : Table(g, step, base, r)
        BY <2>1, TableExists
    <2>4. f[1 .. Len(s)] = FoldOf(T, step, base, s) /\ g[1 .. Len(r)] = FoldOf(T, step, base, r)
        <3>1. f[1 .. Len(s)] = FoldOf(T, step, base, s)
            BY <2>2, FoldIs
        <3>2. g[1 .. Len(r)] = FoldOf(T, step, base, r)
            BY <2>1, <2>3, FoldIs
        <3> QED
            BY <3>1, <3>2
    <2>5. f[1 .. Len(s)] = g[1 .. Len(s)]
        <3>1. Begins(s, r)
            BY <2>1 DEF Begins
        <3>2. Agree(f, g, Len(s))
            BY <2>2, <2>3, <3>1, TablesAgree
        <3> QED
            BY <2>1, <3>2 DEF Agree
    <2>6. /\ 1 .. Len(r) \in SUBSET (1 .. Len(r)) /\ 1 .. Len(r) # {}
          /\ Greatest(1 .. Len(r)) = Len(r)
          /\ (1 .. Len(r)) \ {Greatest(1 .. Len(r))} = 1 .. Len(s)
        <3>1. Len(r) \in Nat /\ Len(r) \in 1 .. Len(r) /\ Len(r) - 1 = Len(s)
            BY <2>1
        <3> QED
            BY <3>1, FirstIndices
    <2>7. g[1 .. Len(r)] = step[g[1 .. Len(s)]][r[Len(r)]]
        BY <2>3, <2>6 DEF Table
    <2> QED
        BY <2>1, <2>4, <2>5, <2>7 DEF r
<1> QED
    BY <1>1, <1>2, <1>3

(* What holds of no elements, and of one more if it does of those before,  *)
(* holds of every sequence.                                                *)
LEMMA SequenceInduction ==
    ASSUME NEW E, NEW P, <<>> \in P, \A s \in Seq(E), e \in E : s \in P => Append(s, e) \in P
    PROVE  \A s \in Seq(E) : s \in P
<1> DEFINE m == [s \in Seq(E) |-> Len(s)]
<1>1. m \in [Seq(E) -> Nat] /\ \A s \in Seq(E) : m[s] = Len(s)
    BY LenProperties
<1> HIDE DEF m
<1>2. ASSUME NEW s \in Seq(E), \A r \in Seq(E) : m[r] < m[s] => r \in P
      PROVE  s \in P
    <2>1. CASE s # <<>>
        <3>1. PICK r \in Seq(E), e \in E : s = Append(r, e)
            BY <2>1, SequenceEmptyOrAppend
        <3>2. Len(r) \in Nat /\ Len(s) = Len(r) + 1
            BY <3>1, LenProperties, AppendProperties
        <3>3. m[r] < m[s]
            BY <1>1, <3>2
        <3> QED
            BY <1>2, <3>1, <3>3
    <2> QED
        BY <2>1
<1>3. Inherits(P, m, Seq(E))
    BY <1>2 DEF Inherits
<1> QED
    BY <1>1, <1>3, MeasureInduction
=============================================================================
