---- MODULE DataInduction ----
(***************************************************************************)
(* Induction over the natural numbers and the existence of functions that  *)
(* are defined by recursion, as facts about sets: a set of naturals that   *)
(* has 0 and the successor of each of its members has them all.            *)
(***************************************************************************)
EXTENDS Integers, WellFoundedInduction, TLAPS

\* A set of naturals that is not empty has a least element.
LEMMA NatMin ==
  ASSUME NEW T \in SUBSET Nat, T # {}
  PROVE  \E x \in T : \A y \in T : x <= y
<1> DEFINE R == OpToRel(<, Nat)
<1>1. \A x, y \in Nat : <<x, y>> \in R <=> x < y
  BY DEF OpToRel
<1>2. IsWellFoundedOn(R, Nat)
  BY NatLessThanWellFounded
<1> HIDE DEF R
<1>3. PICK x \in T : \A y \in T : ~ (<<y, x>> \in R)
  BY <1>2, WFMin
<1>4. \A y \in T : x <= y
  <2> TAKE y \in T
  <2>1. ~ (<<y, x>> \in R) /\ x \in Nat /\ y \in Nat
    BY <1>3
  <2>2. ~ (y < x)
    BY <1>1, <2>1
  <2> QED BY <2>1, <2>2
<1> QED
  BY <1>3, <1>4

\* A set with 0 and all successors of its members has every natural.
LEMMA Induction ==
  ASSUME NEW T, 0 \in T, \A n \in Nat : n \in T => n + 1 \in T
  PROVE  Nat \subseteq T
<1> SUFFICES ASSUME Nat \ T # {} PROVE FALSE
  OBVIOUS
<1>1. PICK x \in Nat \ T : \A y \in Nat \ T : x <= y
  BY NatMin
<1>2. x # 0 /\ x \in Nat
  BY <1>1
<1>3. x - 1 \in Nat /\ x - 1 < x /\ (x - 1) + 1 = x
  BY <1>2
<1>4. x - 1 \in T
  BY <1>1, <1>3
<1> QED
  BY <1>1, <1>3, <1>4

\* D[<<x, f>>] is what a function f that is defined by recursion is to be at
\* x; it depends on what f is at what is less than x by the measure m.
Recursion(S, V, N, m, D) ==
  /\ N \in Nat /\ m \in [S -> 0 .. N] /\ V # {}
  /\ D \in [S \X [S -> V] -> V]
  /\ \A x \in S, f, g \in [S -> V] :
       (\A y \in S : m[y] < m[x] => f[y] = g[y])
         => D[<<x, f>>] = D[<<x, g>>]

\* What recursion describes exists.
LEMMA RecursionExists ==
  \A S, V, N, m, D : Recursion(S, V, N, m, D) =>
    \E f \in [S -> V] : \A x \in S : f[x] = D[<<x, f>>]
<1> SUFFICES ASSUME NEW S, NEW V, NEW N, NEW m, NEW D,
                    Recursion(S, V, N, m, D)
             PROVE  \E f \in [S -> V] : \A x \in S : f[x] = D[<<x, f>>]
  OBVIOUS
<1> USE DEF Recursion
<1> DEFINE Good(n, f) == \A x \in S : m[x] < n => f[x] = D[<<x, f>>]
           T == {n \in Nat : \E f \in [S -> V] : Good(n, f)}
<1>1. 0 \in T
  <2>1. PICK v \in V : TRUE OBVIOUS
  <2>2. [x \in S |-> v] \in [S -> V] OBVIOUS
  <2>3. Good(0, [x \in S |-> v])
    <3> SUFFICES ASSUME NEW x \in S PROVE ~ (m[x] < 0)
      OBVIOUS
    <3> QED OBVIOUS
  <2> QED BY <2>2, <2>3
<1>2. ASSUME NEW n \in Nat, n \in T PROVE n + 1 \in T
  <2>1. PICK f \in [S -> V] : Good(n, f)
    BY <1>2
  <2> DEFINE g == [x \in S |-> IF m[x] < n THEN f[x] ELSE D[<<x, f>>]]
  <2>2. g \in [S -> V] OBVIOUS
  <2>3. ASSUME NEW x \in S, m[x] < n + 1 PROVE g[x] = D[<<x, g>>]
    <3>1. \A y \in S : m[y] < m[x] => f[y] = g[y]
      <4> SUFFICES ASSUME NEW y \in S, m[y] < m[x] PROVE m[y] < n
        OBVIOUS
      <4>1. m[y] \in Nat /\ m[x] \in Nat OBVIOUS
      <4> QED BY <4>1, <2>3
    <3>2. D[<<x, f>>] = D[<<x, g>>]
      BY <3>1, <2>2
    <3> QED BY <2>1, <3>2
  <2>4. Good(n + 1, g)
    BY <2>3
  <2> HIDE DEF g, Good
  <2> QED BY <2>2, <2>4
<1> HIDE DEF T
<1>3. N + 1 \in T
  BY <1>1, <1>2, Induction
<1>4. PICK f \in [S -> V] : Good(N + 1, f)
  BY <1>3 DEF T
<1>5. \A x \in S : m[x] < N + 1
  <2> TAKE x \in S
  <2>1. m[x] \in 0 .. N OBVIOUS
  <2> QED BY <2>1
<1> QED
  BY <1>4, <1>5

====
