----------------------------- MODULE Induction ------------------------------
(***************************************************************************)
(* Induction and recursion over the natural numbers, stated with sets and  *)
(* functions in the place of operators, for the proofs about loops.        *)
(***************************************************************************)
EXTENDS Integers, WellFoundedInduction, TLAPS

\* A set that has zero and all successors of its members has every number.
LEMMA NatSetInduction ==
    ASSUME NEW T, 0 \in T, \A n \in Nat : n \in T => n + 1 \in T
    PROVE  Nat \subseteq T
<1> DEFINE R == OpToRel(<, Nat)
           B == Nat \ T
<1>1. IsWellFoundedOn(R, Nat)
  BY NatLessThanWellFounded, Zenon
<1>2. \A x, y \in Nat : <<x, y>> \in R <=> x < y
  BY DEF OpToRel
<1> HIDE DEF R
<1>3. SUFFICES ASSUME B # {} PROVE FALSE
  OBVIOUS
<1>4. PICK x \in B : \A y \in B : ~ (<<y, x>> \in R)
  BY <1>1, <1>3, WFMin
<1>5. x # 0 /\ x - 1 \in Nat /\ x - 1 < x /\ (x - 1) + 1 = x
  OBVIOUS
<1>6. x - 1 \in B
  BY <1>5
<1>7. ~ (x - 1 < x)
  BY <1>2, <1>4, <1>5, <1>6
<1> QED
  BY <1>5, <1>7

\* A set of natural numbers has a least one.
LEMMA LeastNumber ==
    ASSUME NEW S \in SUBSET Nat, S # {}
    PROVE  \E n \in S : \A m \in S : n <= m
<1> DEFINE R == OpToRel(<, Nat)
<1>1. IsWellFoundedOn(R, Nat)
  BY NatLessThanWellFounded, Zenon
<1>2. \A x, y \in Nat : <<x, y>> \in R <=> x < y
  BY DEF OpToRel
<1> HIDE DEF R
<1>3. PICK n \in S : \A m \in S : ~ (<<m, n>> \in R)
  BY <1>1, WFMin
<1>4. ASSUME NEW m \in S PROVE n <= m
  <2>1. m \in Nat /\ n \in Nat /\ ~ (m < n)
    BY <1>2, <1>3
  <2> QED
    BY <2>1
<1> QED
  BY <1>4

\* f begins with a, and each later value comes from the one before it by a step.
Computes(f, S, a, step, N) ==
    f \in [0 .. N -> S] /\ f[0] = a /\ \A n \in 1 .. N : f[n] = step[n][f[n - 1]]

\* Such a function exists.
LEMMA StepsExist ==
    ASSUME NEW S, NEW a, NEW step, NEW N, a \in S, step \in [Nat -> [S -> S]], N \in Nat
    PROVE  \E f : Computes(f, S, a, step, N)
<1> DEFINE Good(f, m) == \A n \in 0 .. m : f[n] = IF n = 0 THEN a ELSE step[n][f[n - 1]]
           T == {m \in Nat : \E f \in [0 .. m -> S] : Good(f, m)}
<1>1. 0 \in T
  <2> DEFINE f == [n \in 0 .. 0 |-> a]
  <2>1. f \in [0 .. 0 -> S] /\ Good(f, 0)
    OBVIOUS
  <2> QED
    BY <2>1
<1>2. ASSUME NEW m \in Nat, m \in T
      PROVE  m + 1 \in T
  <2>1. PICK f \in [0 .. m -> S] : Good(f, m)
    BY <1>2
  <2> DEFINE g == [n \in 0 .. m + 1 |-> IF n = m + 1 THEN step[m + 1][f[m]] ELSE f[n]]
  <2>2. \A n \in 0 .. m + 1 : n = m + 1 \/ n \in 0 .. m
    OBVIOUS
  <2>3. m \in 0 .. m /\ f[m] \in S /\ step[m + 1][f[m]] \in S /\ m + 1 # 0 /\ (m + 1) - 1 = m /\ m # m + 1
    OBVIOUS
  <2>4. g \in [0 .. m + 1 -> S]
    BY <2>2, <2>3
  <2>5. ASSUME NEW n \in 0 .. m + 1
        PROVE  g[n] = IF n = 0 THEN a ELSE step[n][g[n - 1]]
    <3>1. CASE n = m + 1
      <4>1. g[n] = step[m + 1][f[m]] /\ g[n - 1] = f[m]
        BY <2>3, <3>1
      <4> QED
        BY <2>3, <3>1, <4>1
    <3>2. CASE n \in 0 .. m
      <4>1. g[n] = f[n] /\ (n # 0 => n - 1 \in 0 .. m /\ g[n - 1] = f[n - 1])
        BY <3>2
      <4> QED
        BY <2>1, <3>2, <4>1
    <3> QED
      BY <2>2, <3>1, <3>2
  <2>6. Good(g, m + 1)
    BY <2>5
  <2> HIDE DEF g, Good
  <2>7. \E h \in [0 .. m + 1 -> S] : Good(h, m + 1)
    BY <2>4, <2>6
  <2> QED
    BY <2>7
<1>3. Nat \subseteq T
  <2> HIDE DEF T
  <2> QED
    BY <1>1, <1>2, NatSetInduction
<1>4. PICK f \in [0 .. N -> S] : Good(f, N)
  BY <1>3
<1>5. 0 \in 0 .. N /\ \A n \in 1 .. N : n \in 0 .. N /\ n # 0
  OBVIOUS
<1>6. Computes(f, S, a, step, N)
  BY <1>4, <1>5 DEF Computes
<1> QED
  BY <1>6

\* What takes the steps stays in the set of their values.
LEMMA StepsComputed ==
    ASSUME NEW S, NEW a, NEW step, NEW N, a \in S, step \in [Nat -> [S -> S]], N \in Nat,
           NEW f, f = [i \in 0 .. N |-> f[i]], f[0] = a,
           \A i \in 1 .. N : f[i - 1] \in S => f[i] = step[i][f[i - 1]]
    PROVE  Computes(f, S, a, step, N)
<1> DEFINE T == {i \in Nat : i <= N => f[i] \in S}
<1>1. 0 \in T
  OBVIOUS
<1>2. ASSUME NEW i \in Nat, i \in T PROVE i + 1 \in T
  <2> SUFFICES ASSUME i + 1 <= N PROVE f[i + 1] \in S
    OBVIOUS
  <2>1. i <= N /\ i + 1 \in 1 .. N /\ (i + 1) - 1 = i
    OBVIOUS
  <2>2. f[i] \in S
    BY ONLY <1>2, <2>1
  <2>3. f[i + 1] = step[i + 1][f[i]]
    BY <2>1, <2>2
  <2> QED
    BY <2>1, <2>2, <2>3
<1>3. Nat \subseteq T
  <2> HIDE DEF T
  <2> QED
    BY <1>1, <1>2, NatSetInduction
<1>4. \A i \in 0 .. N : f[i] \in S
  BY <1>3
<1>5. f \in [0 .. N -> S]
  BY <1>4
<1>6. \A i \in 1 .. N : i - 1 \in 0 .. N
  OBVIOUS
<1> QED
  BY <1>4, <1>5, <1>6 DEF Computes

Agree(one, two, N) == \A n \in 1 .. N : one[n] = two[n]

\* Two computations whose steps are the same so far have the same value.
LEMMA SameSteps ==
    ASSUME NEW S, NEW a, NEW one, NEW two, NEW n \in Nat, NEW N \in Nat, n <= N, NEW f, NEW g,
           Computes(f, S, a, one, n), Computes(g, S, a, two, N), Agree(one, two, n)
    PROVE  f[n] = g[n]
<1> DEFINE T == {i \in Nat : i <= n => f[i] = g[i]}
<1>1. 0 \in T
  BY DEF Computes
<1>2. ASSUME NEW i \in Nat, i \in T PROVE i + 1 \in T
  <2> SUFFICES ASSUME i + 1 <= n PROVE f[i + 1] = g[i + 1]
    OBVIOUS
  <2>1. f[i] = g[i] /\ i + 1 \in 1 .. n /\ i + 1 \in 1 .. N /\ (i + 1) - 1 = i
    BY <1>2
  <2>2. f[i + 1] = one[i + 1][f[i]]
    BY <2>1 DEF Computes
  <2>3. g[i + 1] = two[i + 1][g[i]]
    BY <2>1 DEF Computes
  <2> QED
    BY <2>1, <2>2, <2>3 DEF Agree
<1> HIDE DEF T
<1>3. n \in T
  BY <1>1, <1>2, NatSetInduction
<1> QED
  BY <1>3 DEF T

\* ... and so when the step is the same for every number.
LEMMA RecursionExists ==
    ASSUME NEW S, NEW a \in S, NEW step \in [S -> S], NEW N \in Nat
    PROVE  \E f \in [0 .. N -> S] : \A n \in 0 .. N : f[n] = IF n = 0 THEN a ELSE step[f[n - 1]]
<1>1. PICK steps \in [Nat -> [S -> S]] : \A n \in Nat : steps[n] = step
  <2>1. [n \in Nat |-> step] \in [Nat -> [S -> S]]
    OBVIOUS
  <2> QED
    BY <2>1
<1>2. PICK f : Computes(f, S, a, steps, N)
  BY <1>1, StepsExist, Zenon
<1>3. \A n \in 0 .. N : n = 0 \/ n \in 1 .. N
  OBVIOUS
<1>4. \A n \in 0 .. N : f[n] = IF n = 0 THEN a ELSE step[f[n - 1]]
  BY <1>1, <1>2, <1>3 DEF Computes
<1> QED
  BY <1>2, <1>4 DEF Computes
=============================================================================
