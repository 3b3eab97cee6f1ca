---- MODULE HostlistCalls ----
(***************************************************************************)
(* What the calls of Hostlist and Hostset do to the ranges of a list, for  *)
(* any radix, names, widths and numbers: how ranges are compared, which    *)
(* names they have, and that each call leaves ranges that have a host and  *)
(* a list that counts them right.  Sorting and the state machine are in    *)
(* HostlistProofs.                                                         *)
(*                                                                         *)
(* A function or a fold that a definition gives by recursion is a CHOOSE:  *)
(* it has to be shown first that there is one.  Arithmetic on lengths and  *)
(* counts is done on variables that are picked for them.                   *)
(***************************************************************************)
EXTENDS Hostset, DataInduction, FiniteSetTheorems, SequenceTheorems, TLAPS

(***************************************************************************)
(* Functions by recursion over the naturals, and sequences.                *)
(***************************************************************************)

\* A function that starts with a value, and goes on from one to the next.
Iterated(f, b, D) == f[0] = b /\ \A n \in Nat : f[n + 1] = D[<<n, f[n]>>]

\* There is such a function, and it stays in V when D does.
LEMMA Iterates ==
  ASSUME NEW V, NEW b \in V, NEW D, D \in [Nat \X V -> V]
  PROVE  \E f \in [Nat -> V] : Iterated(f, b, D)
<1> DEFINE Good(n, g) == /\ g \in [Nat -> V] /\ g[0] = b
                         /\ \A k \in Nat : k < n => g[k + 1] = D[<<k, g[k]>>]
           T == {n \in Nat : \E g : Good(n, g)}
<1>1. 0 \in T
  <2>1. Good(0, [k \in Nat |-> b])
    OBVIOUS
  <2> QED BY <2>1
<1>2. ASSUME NEW n \in Nat, n \in T PROVE n + 1 \in T
  <2>1. PICK g : Good(n, g)
    BY <1>2
  <2> DEFINE h == [g EXCEPT ![n + 1] = D[<<n, g[n]>>]]
  <2>2. g[n] \in V /\ D[<<n, g[n]>>] \in V
    BY <2>1
  <2>3. h \in [Nat -> V]
    BY <2>1, <2>2
  <2>4. h[0] = b
    BY <2>1
  <2>5. ASSUME NEW k \in Nat, k < n + 1 PROVE h[k + 1] = D[<<k, h[k]>>]
    <3>1. h[k] = g[k]
      BY <2>1, <2>5
    <3>2. CASE k = n
      BY <3>1, <3>2, <2>1
    <3>3. CASE k # n
      <4>1. k < n /\ k + 1 # n + 1
        BY <3>3, <2>5
      <4> QED BY <4>1, <3>1, <2>1
    <3> QED BY <3>2, <3>3
  <2> HIDE DEF h
  <2>6. Good(n + 1, h)
    BY <2>3, <2>4, <2>5
  <2> HIDE DEF Good
  <2> QED BY <2>6
<1>3. Nat \subseteq T
  <2> HIDE DEF T
  <2>1. \A n \in Nat : n \in T => n + 1 \in T
    BY <1>2
  <2> QED BY <1>1, <2>1, Induction
<1> DEFINE G == [n \in Nat |-> CHOOSE g : Good(n, g)]
           f == [n \in Nat |-> G[n][n]]
<1>4. \A n \in Nat : Good(n, G[n])
  <2> HIDE DEF Good
  <2> QED BY <1>3
<1> HIDE DEF G
<1>5. ASSUME NEW n \in Nat PROVE G[n + 1][n] = G[n][n]
  <2> DEFINE S == {k \in Nat : k =< n => G[n + 1][k] = G[n][k]}
  <2>1. 0 \in S
    BY <1>4
  <2>2. ASSUME NEW k \in Nat, k \in S PROVE k + 1 \in S
    <3> SUFFICES ASSUME k + 1 =< n PROVE G[n + 1][k + 1] = G[n][k + 1]
      OBVIOUS
    <3>1. k < n /\ k < n + 1 /\ k =< n
      OBVIOUS
    <3>2. G[n + 1][k] = G[n][k]
      BY <3>1, <2>2
    <3>3. G[n + 1][k + 1] = D[<<k, G[n + 1][k]>>]
      <4>1. Good(n + 1, G[n + 1])
        BY <1>4
      <4> QED BY <4>1, <3>1
    <3>4. G[n][k + 1] = D[<<k, G[n][k]>>]
      <4>1. Good(n, G[n])
        BY <1>4
      <4> QED BY <4>1, <3>1
    <3> QED BY <3>2, <3>3, <3>4
  <2> HIDE DEF S
  <2>3. n \in S
    BY <2>1, <2>2, Induction
  <2> USE DEF S
  <2> QED BY <2>3
<1>6. f \in [Nat -> V]
  <2> SUFFICES ASSUME NEW n \in Nat PROVE G[n][n] \in V
    OBVIOUS
  <2>1. Good(n, G[n])
    BY <1>4
  <2> QED BY <2>1
<1>7. f[0] = b
  <2>1. Good(0, G[0])
    BY <1>4
  <2> QED BY <2>1
<1>8. ASSUME NEW n \in Nat PROVE f[n + 1] = D[<<n, f[n]>>]
  <2>1. Good(n + 1, G[n + 1])
    BY <1>4
  <2>2. G[n + 1][n + 1] = D[<<n, G[n + 1][n]>>]
    BY <2>1
  <2> QED BY ONLY <2>2, <1>5
<1> HIDE DEF f
<1>9. \A n \in Nat : f[n + 1] = D[<<n, f[n]>>]
  BY <1>8
<1> HIDE DEF T, Good
<1> QED BY <1>6, <1>7, <1>9 DEF Iterated

\* A function by recursion up to N, in the form a definition has.
IteratedTo(f, b, D, N) ==
  f = [n \in 0 .. N |-> IF n = 0 THEN b ELSE D[<<n - 1, f[n - 1]>>]]

\* There is one up to N.
LEMMA IteratesTo ==
  ASSUME NEW V, NEW b \in V, NEW N \in Nat, NEW D, D \in [Nat \X V -> V]
  PROVE  \E f \in [0 .. N -> V] : IteratedTo(f, b, D, N)
<1>0. PICK g \in [Nat -> V] : Iterated(g, b, D)
  BY Iterates
<1>1. g[0] = b /\ \A n \in Nat : g[n + 1] = D[<<n, g[n]>>]
  BY <1>0 DEF Iterated
<1> DEFINE f == [n \in 0 .. N |-> g[n]]
<1>2. f \in [0 .. N -> V]
  OBVIOUS
<1>3. ASSUME NEW n \in 0 .. N
      PROVE  f[n] = IF n = 0 THEN b ELSE D[<<n - 1, f[n - 1]>>]
  <2>1. CASE n = 0
    BY <2>1, <1>1
  <2>2. CASE n # 0
    <3>1. n - 1 \in Nat /\ n - 1 \in 0 .. N /\ (n - 1) + 1 = n
      BY <2>2
    <3>2. g[n] = D[<<n - 1, g[n - 1]>>]
      BY <3>1, <1>1
    <3> QED BY <3>1, <3>2, <2>2
  <2> QED BY <2>1, <2>2
<1>4. f = [n \in 0 .. N |-> IF n = 0 THEN b ELSE D[<<n - 1, f[n - 1]>>]]
  BY <1>3
<1> HIDE DEF f
<1> QED BY <1>2, <1>4 DEF IteratedTo

\* What a fold of s from the left with the function D comes to after each
\* element of s.
Folded(g, b, D, s) ==
  \A S \in SUBSET DOMAIN s :
    g[S] = IF S = {} THEN b ELSE D[<<g[S \ {Max(S)}], s[Max(S)]>>]

\* There is such a fold, over the elements of any set of places.
LEMMA FoldsSet ==
  ASSUME NEW V, NEW b \in V, NEW E, NEW s \in Seq(E), NEW D,
         D \in [V \X E -> V]
  PROVE  \E g \in [SUBSET DOMAIN s -> V] : Folded(g, b, D, s)
<1> DEFINE n == Len(s)
           P == SUBSET DOMAIN s
<1>1. n \in Nat /\ DOMAIN s = 1 .. n /\ IsFiniteSet(1 .. n)
       /\ Cardinality(1 .. n) = n
  <2>1. n \in Nat /\ n \in Int /\ 1 \in Int /\ DOMAIN s = 1 .. n
    OBVIOUS
  <2>2. IsFiniteSet(1 .. n)
         /\ Cardinality(1 .. n) = IF 1 > n THEN 0 ELSE n - 1 + 1
    BY <2>1, FS_Interval
  <2> HIDE DEF n
  <2>3. Cardinality(1 .. n) = n
    BY <2>1, <2>2
  <2> QED BY <2>1, <2>2, <2>3
<1>2. ASSUME NEW S \in P PROVE IsFiniteSet(S) /\ Cardinality(S) \in 0 .. n
  <2>1. S \in SUBSET (1 .. n)
    BY <1>1
  <2>2. IsFiniteSet(S) /\ Cardinality(S) =< Cardinality(1 .. n)
    BY <2>1, <1>1, FS_Subset
  <2>3. Cardinality(S) \in Nat
    BY <2>2, FS_CardinalityType
  <2> QED BY <2>2, <2>3, <1>1
<1>3. ASSUME NEW S \in P, S # {}
      PROVE  Max(S) \in S /\ \A x \in S : x =< Max(S)
  <2> DEFINE T == {n - x : x \in S}
  <2>1. \A x \in S : x \in Int /\ x =< n /\ n - x \in Nat
    BY <1>1
  <2>2. T \in SUBSET Nat /\ T # {}
    BY <2>1, <1>3
  <2>3. PICK t \in T : \A u \in T : t =< u
    BY <2>2, NatMin
  <2>4. PICK x \in S : t = n - x
    OBVIOUS
  <2>5. \A y \in S : n - x =< n - y
    BY <2>3, <2>4
  <2>6. \A y \in S : x >= y
    BY <2>5, <2>1, <1>1
  <2> HIDE DEF T
  <2>7. Max(S) \in S /\ \A y \in S : Max(S) >= y
    BY <2>6 DEF Max
  <2> QED BY <2>7, <2>1
<1>4. ASSUME NEW S \in P, S # {}
      PROVE  S \ {Max(S)} \in P /\ s[Max(S)] \in E
             /\ Cardinality(S \ {Max(S)}) < Cardinality(S)
  <2>1. Max(S) \in S
    BY <1>3, <1>4
  <2>2. Cardinality(S \ {Max(S)}) = Cardinality(S) - 1
    BY <2>1, <1>2, FS_RemoveElement
  <2>3. s[Max(S)] \in E
    BY <2>1, <1>1
  <2> QED BY <2>1, <2>2, <2>3, <1>2, <1>1
<1> DEFINE Body(S, f) == IF S = {} THEN b
                         ELSE D[<<f[S \ {Max(S)}], s[Max(S)]>>]
           m == [S \in P |-> Cardinality(S)]
           R == [x \in P \X [P -> V] |-> Body(x[1], x[2])]
<1>5. m \in [P -> 0 .. n]
  BY <1>2
<1>6. ASSUME NEW S \in P, NEW f \in [P -> V] PROVE Body(S, f) \in V
  <2>1. CASE S = {}
    BY <2>1
  <2>2. CASE S # {}
    <3>1. S \ {Max(S)} \in P /\ s[Max(S)] \in E
      BY <1>4, <2>2
    <3>2. f[S \ {Max(S)}] \in V
      BY <3>1
    <3>3. D[<<f[S \ {Max(S)}], s[Max(S)]>>] \in V
      BY <3>1, <3>2
    <3> QED BY <3>3, <2>2
  <2> QED BY <2>1, <2>2
<1>7. \A S \in P, f \in [P -> V] : R[<<S, f>>] = Body(S, f)
  OBVIOUS
<1>8. R \in [P \X [P -> V] -> V]
  <2> HIDE DEF Body
  <2> QED BY <1>6
<1>9. ASSUME NEW S \in P, NEW f \in [P -> V], NEW g \in [P -> V],
             \A U \in P : m[U] < m[S] => f[U] = g[U]
      PROVE  R[<<S, f>>] = R[<<S, g>>]
  <2>1. Body(S, f) = Body(S, g)
    <3>1. CASE S = {}
      BY <3>1
    <3>2. CASE S # {}
      <4>1. S \ {Max(S)} \in P /\ m[S \ {Max(S)}] < m[S]
        BY <1>4, <3>2
      <4>2. f[S \ {Max(S)}] = g[S \ {Max(S)}]
        BY <4>1, <1>9
      <4> QED BY <4>2
    <3> QED BY <3>1, <3>2
  <2> HIDE DEF R, Body
  <2> QED BY <2>1, <1>7
<1> HIDE DEF R, m, P, Body
<1>10. PICK g \in [P -> V] : \A S \in P : g[S] = R[<<S, g>>]
  <2>1. V # {} /\ n \in Nat
    BY <1>1
  <2>2. Recursion(P, V, n, m, R)
    BY <2>1, <1>5, <1>8, <1>9 DEF Recursion
  <2> QED BY <2>2, RecursionExists
<1>11. \A S \in P : g[S] = Body(S, g)
  BY <1>7, <1>10
<1> QED BY <1>10, <1>11 DEF P, Body, Folded

(***************************************************************************)
(* Numerals.                                                               *)
(***************************************************************************)

\* Multiplying by more than 1 makes a number larger.
LEMMA Products ==
  ASSUME NEW a \in Nat, NEW b \in Nat, a > 1, b > 0
  PROVE  a * b \in Nat /\ a * b > b
OBVIOUS

\* The powers of the radix, which the definition gives by recursion.
LEMMA PowerIs ==
  /\ Power \in [Nat -> Nat \ {0}]
  /\ Power[0] = 1
  /\ \A k \in Nat : Power[k + 1] = Radix * Power[k]
<1> DEFINE V == Nat \ {0}
           D == [x \in Nat \X V |-> Radix * x[2]]
<1>1. \A x \in Nat \X V : D[x] = Radix * x[2] /\ D[x] \in V
  <2> SUFFICES ASSUME NEW x \in Nat \X V PROVE Radix * x[2] \in V
    OBVIOUS
  <2>1. x[2] \in Nat /\ x[2] > 0
    OBVIOUS
  <2> QED BY <2>1, Products, RangeAssumption
<1>2. D \in [Nat \X V -> V] /\ 1 \in V
  <2> HIDE DEF V
  <2> USE <1>1
  <2>1. D \in [Nat \X V -> V]
    OBVIOUS
  <2> QED BY <2>1 DEF V
<1> HIDE DEF D, V
<1>3. PICK f \in [Nat -> V] : Iterated(f, 1, D)
  BY <1>2, Iterates
<1>4. f[0] = 1 /\ \A n \in Nat : f[n + 1] = Radix * f[n]
  <2>1. \A n \in Nat : <<n, f[n]>> \in Nat \X V
    BY <1>3
  <2>2. \A n \in Nat : D[<<n, f[n]>>] = Radix * f[n]
    BY <1>1, <2>1
  <2> QED BY <1>3, <2>2 DEF Iterated
<1>5. \A n \in Nat : f[n] = IF n = 0 THEN 1 ELSE Radix * f[n - 1]
  <2> SUFFICES ASSUME NEW n \in Nat
               PROVE  f[n] = IF n = 0 THEN 1 ELSE Radix * f[n - 1]
    OBVIOUS
  <2>1. CASE n = 0
    BY <2>1, <1>4
  <2>2. CASE n # 0
    <3>1. n - 1 \in Nat /\ (n - 1) + 1 = n
      BY <2>2
    <3> QED BY <3>1, <1>4, <2>2
  <2> QED BY <2>1, <2>2
<1>6. f = [n \in Nat |-> IF n = 0 THEN 1 ELSE Radix * f[n - 1]]
  BY <1>3, <1>5
<1> DEFINE p == CHOOSE p : p = [n \in Nat |-> IF n = 0 THEN 1
                                               ELSE Radix * p[n - 1]]
<1>7. p = [n \in Nat |-> IF n = 0 THEN 1 ELSE Radix * p[n - 1]]
  BY <1>6
<1>8. Power = p
  BY DEF Power
<1> HIDE DEF p
<1>9. p[0] = 1 /\ \A n \in Nat : p[n + 1] = Radix * p[n]
  <2>1. \A n \in Nat : p[n] = IF n = 0 THEN 1 ELSE Radix * p[n - 1]
    BY <1>7
  <2>2. ASSUME NEW n \in Nat PROVE p[n + 1] = Radix * p[n]
    <3>1. n + 1 \in Nat /\ n + 1 # 0 /\ (n + 1) - 1 = n
      OBVIOUS
    <3> QED BY <3>1, <2>1
  <2> QED BY <2>1, <2>2
<1>10. \A n \in Nat : p[n] \in Nat \ {0}
  <2> DEFINE T == {n \in Nat : p[n] \in Nat \ {0}}
  <2>1. 0 \in T
    BY <1>9
  <2>2. ASSUME NEW n \in Nat, n \in T PROVE n + 1 \in T
    <3>1. p[n] \in Nat /\ p[n] > 0
      BY <2>2
    <3>2. Radix * p[n] \in Nat /\ Radix * p[n] > p[n]
      BY <3>1, Products, RangeAssumption
    <3> QED BY <3>1, <3>2, <1>9
  <2> HIDE DEF T
  <2>3. Nat \subseteq T
    BY <2>1, <2>2, Induction
  <2> QED BY <2>3 DEF T
<1>11. p \in [Nat -> Nat \ {0}]
  BY <1>7, <1>10
<1> QED BY <1>8, <1>9, <1>11

\* Powers are in the order of their exponents.
LEMMA PowerGrows ==
  ASSUME NEW j \in Nat, NEW k \in Nat, j =< k
  PROVE  Power[j] =< Power[k]
<1> DEFINE T == {n \in Nat : Power[j] =< Power[j + n]}
<1>1. 0 \in T
  BY PowerIs
<1>2. ASSUME NEW n \in Nat, n \in T PROVE n + 1 \in T
  <2>1. j + n \in Nat /\ Power[j + n] \in Nat /\ Power[j + n] > 0
         /\ Power[j] \in Nat
    BY PowerIs
  <2>2. Power[(j + n) + 1] = Radix * Power[j + n]
    BY <2>1, PowerIs
  <2>3. Radix * Power[j + n] \in Nat /\ Radix * Power[j + n] > Power[j + n]
    BY <2>1, Products, RangeAssumption
  <2>4. (j + n) + 1 = j + (n + 1)
    OBVIOUS
  <2>5. Power[j] =< Power[j + (n + 1)]
    BY <1>2, <2>1, <2>2, <2>3, <2>4
  <2> QED BY <2>5
<1> HIDE DEF T
<1>3. k - j \in T
  BY <1>1, <1>2, Induction
<1> QED BY <1>3 DEF T

\* Each number is below a power, so that it has a number of digits.
LEMMA PowerAbove ==
  ASSUME NEW n \in Nat
  PROVE  n < Power[n]
<1> DEFINE T == {k \in Nat : k < Power[k]}
<1>1. 0 \in T
  BY PowerIs
<1>2. ASSUME NEW k \in Nat, k \in T PROVE k + 1 \in T
  <2>1. Power[k] \in Nat /\ Power[k] > 0
    BY PowerIs
  <2>2. Radix * Power[k] \in Nat /\ Radix * Power[k] > Power[k]
    BY <2>1, Products, RangeAssumption
  <2>3. k + 1 < Power[k + 1]
    BY <1>2, <2>1, <2>2, PowerIs
  <2> QED BY <2>3
<1> HIDE DEF T
<1>3. n \in T
  BY <1>1, <1>2, Induction
<1> QED BY <1>3 DEF T

\* DigitsOf() says how many digits a number has.
LEMMA DigitsIs ==
  ASSUME NEW n \in Nat
  PROVE  /\ DigitsOf(n) \in Nat /\ DigitsOf(n) >= 1
         /\ n < Power[DigitsOf(n)]
         /\ DigitsOf(n) = 1 \/ n >= Power[DigitsOf(n) - 1]
<1> DEFINE T == {d \in Nat : d >= 1 /\ n < Power[d]}
<1>1. n + 1 \in T
  <2>1. n + 1 \in Nat /\ n + 1 < Power[n + 1] /\ Power[n + 1] \in Nat
    BY PowerAbove, PowerIs
  <2> QED BY <2>1
<1>2. T \in SUBSET Nat /\ T # {}
  BY <1>1
<1> HIDE DEF T
<1>3. PICK d \in T : \A e \in T : d =< e
  BY <1>2, NatMin
<1>4. d \in Nat /\ d >= 1 /\ n < Power[d]
  BY <1>3 DEF T
<1>5. d =< n + 1
  BY <1>1, <1>3
<1>6. d = 1 \/ n >= Power[d - 1]
  <2> SUFFICES ASSUME d # 1, ~ (n >= Power[d - 1]) PROVE FALSE
    OBVIOUS
  <2>1. d - 1 \in Nat /\ d - 1 >= 1 /\ Power[d - 1] \in Nat
    BY <1>4, PowerIs
  <2>2. d - 1 \in T
    BY <2>1 DEF T
  <2> QED BY <2>2, <1>3, <1>4
<1>7. d \in 1 .. n + 1
  BY <1>4, <1>5
<1> DEFINE Is(e) == n < Power[e] /\ (e = 1 \/ n >= Power[e - 1])
<1>8. Is(d)
  BY <1>4, <1>6
<1>9. DigitsOf(n) = CHOOSE e \in 1 .. n + 1 : Is(e)
  BY DEF DigitsOf
<1> HIDE DEF Is
<1>10. DigitsOf(n) \in 1 .. n + 1 /\ Is(DigitsOf(n))
  BY <1>7, <1>8, <1>9
<1> QED BY <1>10 DEF Is

\* A larger number has as many digits or more.
LEMMA DigitsGrow ==
  ASSUME NEW m \in Nat, NEW n \in Nat, m =< n
  PROVE  DigitsOf(m) =< DigitsOf(n)
<1>1. PICK d \in Nat : d = DigitsOf(m) /\ d >= 1
                       /\ (d = 1 \/ m >= Power[d - 1])
  BY DigitsIs
<1>2. PICK e \in Nat : e = DigitsOf(n) /\ e >= 1 /\ n < Power[e]
  BY DigitsIs
<1> SUFFICES ASSUME d > e PROVE FALSE
  BY <1>1, <1>2
<1>3. d - 1 \in Nat /\ e =< d - 1 /\ d # 1
  BY <1>1, <1>2
<1>4. Power[e] =< Power[d - 1]
  BY <1>3, PowerGrows
<1>5. Power[e] \in Nat /\ Power[d - 1] \in Nat
  BY <1>3, PowerIs
<1> QED BY <1>1, <1>2, <1>3, <1>4, <1>5

\* What "%0*lu" prints is digits, as many as there are or as are asked for.
LEMMA NumeralIs ==
  ASSUME NEW n \in Nat, NEW w \in Nat
  PROVE  /\ Numeral(n, w) \in Seq(0 .. Radix - 1)
         /\ Len(Numeral(n, w)) = Larger(w, DigitsOf(n))
<1> DEFINE d == Larger(w, DigitsOf(n))
<1>1. d \in Nat
  BY DigitsIs DEF Larger
<1>2. Numeral(n, w) = [i \in 1 .. d |-> (n \div Power[d - i]) % Radix]
  BY DEF Numeral
<1> HIDE DEF d
<1>3. \A i \in 1 .. d : (n \div Power[d - i]) % Radix \in 0 .. Radix - 1
  <2> SUFFICES ASSUME NEW i \in 1 .. d
               PROVE  (n \div Power[d - i]) % Radix \in 0 .. Radix - 1
    OBVIOUS
  <2>1. d - i \in Nat
    BY <1>1
  <2>2. PICK p \in Nat : p = Power[d - i] /\ p > 0
    BY <2>1, PowerIs
  <2>3. n \div p \in Nat
    BY <2>2
  <2>4. (n \div p) % Radix \in 0 .. Radix - 1
    BY <2>3, RangeAssumption
  <2> QED BY <2>2, <2>4
<1>4. Numeral(n, w) \in Seq(0 .. Radix - 1) /\ Len(Numeral(n, w)) = d
  BY <1>1, <1>2, <1>3
<1> QED BY <1>4 DEF d

\* The widths w and v make no difference to n.
Fits(n, w, v) == w = v \/ (w =< DigitsOf(n) /\ v =< DigitsOf(n))

\* Two widths pad a number alike if and only if they fit it.
LEMMA PaddedFits ==
  ASSUME NEW n \in Nat, NEW w \in Nat, NEW v \in Nat
  PROVE  ZeroPadded(n, w) = ZeroPadded(n, v) <=> Fits(n, w, v)
<1>1. PICK d \in Nat : d = DigitsOf(n)
  BY DigitsIs
<1> QED BY <1>1 DEF ZeroPadded, Fits, Larger

\* ... nor to a larger number.
LEMMA FitsKeeps ==
  ASSUME NEW n \in Nat, NEW w \in Nat, NEW v \in Nat, Fits(n, w, v),
         NEW k \in Nat, n =< k
  PROVE  Fits(k, w, v) /\ Numeral(k, w) = Numeral(k, v)
<1>1. PICK d \in Nat, e \in Nat : d = DigitsOf(n) /\ e = DigitsOf(k) /\ d =< e
  BY DigitsIs, DigitsGrow
<1>2. Fits(k, w, v)
  BY <1>1 DEF Fits
<1>3. Larger(w, DigitsOf(k)) = Larger(v, DigitsOf(k))
  BY <1>1, <1>2 DEF Fits, Larger
<1> QED BY <1>2, <1>3 DEF Numeral

(***************************************************************************)
(* Ranges, and what comparing them does.                                   *)
(***************************************************************************)

\* A range that has a host.
GoodRange ==
  {r \in HostRangeType :
     /\ r.hi \in Nat /\ r.lo =< r.hi
     /\ r.single => r.lo = 0 /\ r.hi = 0}

\* r as wide as w.
Wide(r, w) == [r EXCEPT !.width = w]

\* The fields of a range.
LEMMA GoodIs ==
  ASSUME NEW r \in GoodRange
  PROVE  /\ r.prefix \in Name /\ r.lo \in Nat /\ r.hi \in Nat
         /\ r.width \in Nat /\ r.single \in BOOLEAN /\ r.lo =< r.hi
         /\ r.single => r.lo = 0 /\ r.hi = 0
         /\ r = [prefix |-> r.prefix, lo |-> r.lo, hi |-> r.hi,
                 width |-> r.width, single |-> r.single]
BY DEF GoodRange, HostRangeType

\* A range of another width is as good, and has the same bounds.
LEMMA WideIs ==
  ASSUME NEW r \in GoodRange, NEW w \in Nat
  PROVE  /\ Wide(r, w) \in GoodRange
         /\ Wide(r, w).prefix = r.prefix /\ Wide(r, w).lo = r.lo
         /\ Wide(r, w).hi = r.hi /\ Wide(r, w).width = w
         /\ Wide(r, w).single = r.single
<1>1. Wide(r, w) = [prefix |-> r.prefix, lo |-> r.lo, hi |-> r.hi,
                    width |-> w, single |-> r.single]
  BY GoodIs DEF Wide
<1> QED BY <1>1, GoodIs DEF GoodRange, HostRangeType

\* A range that has a host counts at least one.
LEMMA CountIs ==
  ASSUME NEW r \in GoodRange
  PROVE  /\ Count(r) = r.hi - r.lo + 1
         /\ Count(r) \in Nat /\ Count(r) >= 1 /\ ~ IsEmpty(r)
BY GoodIs DEF Count, IsEmpty

\* A name with other digits.
LEMMA Digits ==
  ASSUME NEW p, NEW B, NEW D, p \in [base : B, digits : D], NEW e
  PROVE  [p EXCEPT !.digits = e] = [base |-> p.base, digits |-> e]
OBVIOUS

\* A name of more digits.
LEMMA HostIs ==
  ASSUME NEW p \in Name, NEW n \in Nat, NEW w \in Nat
  PROVE  /\ Host(p, n, w) \in Name
         /\ Host(p, n, w) = [base |-> p.base,
                             digits |-> p.digits \o Numeral(n, w)]
<1>1. p \in [base : Seq(Nat), digits : Seq(0 .. Radix - 1)]
       /\ p.base \in Seq(Nat)
       /\ p.digits \in Seq(0 .. Radix - 1)
       /\ (p.base # <<>> => Last(p.base) >= Radix)
  BY DEF Name
<1>2. Host(p, n, w) = [base |-> p.base, digits |-> p.digits \o Numeral(n, w)]
  <2>1. p \in [base : Seq(Nat), digits : Seq(0 .. Radix - 1)]
    BY <1>1
  <2> QED BY <2>1, Digits DEF Host
<1>3. p.digits \o Numeral(n, w) \in Seq(0 .. Radix - 1)
  BY <1>1, NumeralIs
<1> QED BY <1>1, <1>2, <1>3 DEF Name

\* hostrange_count() is the number of names of a range.
LEMMA HostsAre ==
  ASSUME NEW r \in GoodRange
  PROVE  /\ Hosts(r) \in Seq(Name) /\ Len(Hosts(r)) = Count(r)
         /\ ~ r.single => \A k \in 1 .. Count(r) :
              Hosts(r)[k] = Host(r.prefix, r.lo + k - 1, r.width)
<1>1. CASE r.single
  <2>1. Hosts(r) = <<r.prefix>> /\ Count(r) = 1
    BY <1>1 DEF Hosts, Count
  <2> QED BY <2>1, <1>1, GoodIs
<1>2. CASE ~ r.single
  <2>1. Hosts(r) = [k \in 1 .. Count(r) |->
                      Host(r.prefix, r.lo + k - 1, r.width)]
    BY <1>2 DEF Hosts
  <2>2. ASSUME NEW k \in 1 .. Count(r)
        PROVE  Host(r.prefix, r.lo + k - 1, r.width) \in Name
    <3>1. r.lo + k - 1 \in Nat
      BY CountIs, GoodIs
    <3> QED BY <3>1, GoodIs, HostIs
  <2>3. Count(r) \in Nat
    BY CountIs
  <2>4. Hosts(r) \in Seq(Name) /\ Len(Hosts(r)) = Count(r)
    BY <2>1, <2>2, <2>3
  <2> QED BY <2>1, <2>4
<1> QED BY <1>1, <1>2, GoodIs

\* Widths that make no difference to the first number of a range make none to
\* its names.
LEMMA HostsKept ==
  ASSUME NEW r \in GoodRange, NEW w \in Nat, Fits(r.lo, r.width, w)
  PROVE  Hosts(Wide(r, w)) = Hosts(r)
<1> DEFINE s == Wide(r, w)
<1>1. s \in GoodRange /\ Count(s) = Count(r)
  BY WideIs, CountIs
<1>2. CASE r.single
  <2>1. s.single /\ s.prefix = r.prefix
    BY <1>2, WideIs
  <2> HIDE DEF s
  <2>2. Hosts(s) = <<r.prefix>> /\ Hosts(r) = <<r.prefix>>
    BY <2>1, <1>2 DEF Hosts
  <2> QED BY <2>2 DEF s
<1>3. CASE ~ r.single
  <2>1. ~ s.single
    BY <1>3, WideIs
  <2>2. ASSUME NEW k \in 1 .. Count(r)
        PROVE  Host(s.prefix, s.lo + k - 1, s.width)
                 = Host(r.prefix, r.lo + k - 1, r.width)
    <3>1. r.lo + k - 1 \in Nat /\ r.lo =< r.lo + k - 1
      BY CountIs, GoodIs
    <3>2. Numeral(r.lo + k - 1, r.width) = Numeral(r.lo + k - 1, w)
      BY <3>1, GoodIs, FitsKeeps
    <3> QED BY <3>2, WideIs DEF Host
  <2>3. Hosts(s) = [k \in 1 .. Count(r) |->
                      Host(s.prefix, s.lo + k - 1, s.width)]
    BY <2>1, <1>1 DEF Hosts
  <2>4. Hosts(r) = [k \in 1 .. Count(r) |->
                      Host(r.prefix, r.lo + k - 1, r.width)]
    BY <1>3 DEF Hosts
  <2> HIDE DEF s
  <2>5. Hosts(s) = Hosts(r)
    BY <2>2, <2>3, <2>4
  <2> QED BY <2>5 DEF s
<1> QED BY <1>2, <1>3, GoodIs

\* c is what combining r and s leaves of both.
CombinedAs(c, r, s) ==
  /\ c.ok \in BOOLEAN
  /\ c.ok <=> Fits(r.lo, r.width, s.width) \/ Fits(s.lo, r.width, s.width)
  /\ c.left.width \in Nat /\ c.right.width \in Nat
  /\ c.left = Wide(r, c.left.width) /\ c.right = Wide(s, c.right.width)
  /\ Fits(r.lo, r.width, c.left.width)
  /\ Fits(s.lo, s.width, c.right.width)
  /\ c.ok => c.left.width = c.right.width
  /\ c.left.width \in {r.width, s.width}
  /\ ~ c.ok => c.left = r /\ c.right = s

\* _width_equiv() finds one width for both ranges, which fits each.
LEMMA CombineIs ==
  ASSUME NEW r \in GoodRange, NEW s \in GoodRange
  PROVE  /\ CombinedAs(Combine(r, s), r, s)
         /\ Combines(r, s) = Combine(r, s).ok
<1> DEFINE e == WidthEquiv(r.lo, r.width, s.lo, s.width)
<1>1. /\ r.lo \in Nat /\ r.width \in Nat /\ s.lo \in Nat /\ s.width \in Nat
  BY GoodIs
<1>2. /\ e.ok \in BOOLEAN /\ e.wn \in Nat /\ e.wm \in Nat
      /\ e.ok <=> Fits(r.lo, r.width, s.width) \/ Fits(s.lo, r.width, s.width)
      /\ Fits(r.lo, r.width, e.wn) /\ Fits(s.lo, s.width, e.wm)
      /\ e.ok => e.wn = e.wm
      /\ e.wn \in {r.width, s.width}
      /\ ~ e.ok => e.wn = r.width /\ e.wm = s.width
  <2>1. ZeroPadded(r.lo, r.width) = ZeroPadded(r.lo, s.width)
          <=> Fits(r.lo, r.width, s.width)
    BY <1>1, PaddedFits
  <2>2. ZeroPadded(s.lo, s.width) = ZeroPadded(s.lo, r.width)
          <=> Fits(s.lo, r.width, s.width)
    <3>1. ZeroPadded(s.lo, s.width) = ZeroPadded(s.lo, r.width)
            <=> Fits(s.lo, s.width, r.width)
      BY <1>1, PaddedFits
    <3> QED BY <3>1 DEF Fits
  <2>3. \A n, w : Fits(n, w, w)
    BY DEF Fits
  <2>4. Fits(s.lo, r.width, s.width) => Fits(s.lo, s.width, r.width)
    BY DEF Fits
  <2>5. CASE Fits(r.lo, r.width, s.width)
    <3>1. e = [ok |-> TRUE, wn |-> s.width, wm |-> s.width]
      BY <2>5, <2>1 DEF WidthEquiv
    <3> QED BY <3>1, <2>3, <2>5, <1>1
  <2>6. CASE ~ Fits(r.lo, r.width, s.width) /\ Fits(s.lo, r.width, s.width)
    <3>1. e = [ok |-> TRUE, wn |-> r.width, wm |-> r.width]
      BY <2>6, <2>1, <2>2 DEF WidthEquiv
    <3> QED BY <3>1, <2>3, <2>4, <2>6, <1>1
  <2>7. CASE ~ Fits(r.lo, r.width, s.width) /\ ~ Fits(s.lo, r.width, s.width)
    <3>1. e = [ok |-> FALSE, wn |-> r.width, wm |-> s.width]
      BY <2>7, <2>1, <2>2 DEF WidthEquiv
    <3> QED BY <3>1, <2>3, <2>7, <1>1
  <2> QED BY <2>5, <2>6, <2>7
<1>3. Combine(r, s) = [ok |-> e.ok, left |-> Wide(r, e.wn),
                       right |-> Wide(s, e.wm)]
  BY DEF Combine, Wide
<1> HIDE DEF e
<1>4. Combine(r, s).ok = e.ok /\ Combine(r, s).left = Wide(r, e.wn)
       /\ Combine(r, s).right = Wide(s, e.wm)
  BY <1>3
<1>5. Combine(r, s).left.width = e.wn /\ Combine(r, s).right.width = e.wm
  BY <1>4, <1>2, WideIs
<1>6. Wide(r, r.width) = r /\ Wide(s, s.width) = s
  BY GoodIs DEF Wide
<1>7. CombinedAs(Combine(r, s), r, s)
  BY <1>2, <1>4, <1>5, <1>6 DEF CombinedAs
<1> QED BY <1>7 DEF Combines

\* Both ranges keep everything but their widths, and with them their names.
LEMMA CombineKeeps ==
  ASSUME NEW r \in GoodRange, NEW s \in GoodRange,
         NEW c, c = Combine(r, s)
  PROVE  /\ c.left \in GoodRange /\ c.right \in GoodRange
         /\ c.left.prefix = r.prefix /\ c.left.lo = r.lo
         /\ c.left.hi = r.hi /\ c.left.single = r.single
         /\ c.right.prefix = s.prefix /\ c.right.lo = s.lo
         /\ c.right.hi = s.hi /\ c.right.single = s.single
         /\ Hosts(c.left) = Hosts(r) /\ Hosts(c.right) = Hosts(s)
<1>1. CombinedAs(c, r, s)
  BY CombineIs
<1>2. PICK w \in Nat, v \in Nat : c.left = Wide(r, w) /\ c.right = Wide(s, v)
                      /\ Fits(r.lo, r.width, w) /\ Fits(s.lo, s.width, v)
  BY <1>1 DEF CombinedAs
<1>3. Hosts(c.left) = Hosts(r) /\ Hosts(c.right) = Hosts(s)
  BY <1>2, HostsKept
<1>4. c.left \in GoodRange /\ c.right \in GoodRange
  BY <1>2, WideIs
<1>5. c.left.prefix = r.prefix /\ c.left.lo = r.lo
      /\ c.left.hi = r.hi /\ c.left.single = r.single
  BY <1>2, WideIs
<1>6. c.right.prefix = s.prefix /\ c.right.lo = s.lo
      /\ c.right.hi = s.hi /\ c.right.single = s.single
  BY <1>2, WideIs
<1> QED BY <1>3, <1>4, <1>5, <1>6

(***************************************************************************)
(* The order of ranges.                                                    *)
(***************************************************************************)

\* The character of s at i, or what is less than any at its end.
CharAt(s, i) == IF i > Len(s) THEN -1 ELSE s[i]

\* s and t are the same in front of p, and differ or end there.
PartAt(s, t, p) ==
  /\ p \in Nat
  /\ \A j \in 1 .. p - 1 : j =< Len(s) /\ j =< Len(t) /\ s[j] = t[j]
  /\ CharAt(s, p) # CharAt(t, p) \/ (p > Len(s) /\ p > Len(t))
  /\ 1 =< p

\* strcmp() says which character is less where two texts part.
LEMMA PartingIs ==
  ASSUME NEW s \in Seq(Nat), NEW t \in Seq(Nat)
  PROVE  /\ PartAt(s, t, Parting(s, t))
         /\ StrCmp(s, t) = CharAt(s, Parting(s, t)) - CharAt(t, Parting(s, t))
<1> DEFINE Ends_(i) == i > Len(s) \/ i > Len(t) \/ s[i] # t[i]
           T == {i \in Nat : i >= 1 /\ Ends_(i)}
           Is(i) == /\ Ends_(i)
                    /\ \A j \in 1 .. i - 1 : j =< Len(t) /\ s[j] = t[j]
<1>1. Len(s) \in Nat /\ Len(t) \in Nat
  OBVIOUS
<1>2. Len(s) + 1 \in T
  BY <1>1
<1>3. T \in SUBSET Nat /\ T # {}
  BY <1>2
<1>4. PICK p \in T : \A q \in T : p =< q
  <2> HIDE DEF T
  <2> QED BY <1>3, NatMin
<1>5. p \in 1 .. Len(s) + 1 /\ Is(p)
  <2>1. p =< Len(s) + 1
    BY <1>2, <1>4
  <2>2. ASSUME NEW j \in 1 .. p - 1 PROVE j =< Len(t) /\ s[j] = t[j]
    <3>1. j \notin T
      BY <1>4
    <3> QED BY <3>1, <1>1
  <2> QED BY <2>1, <2>2, <1>4
<1>6. Parting(s, t) = CHOOSE i \in 1 .. Len(s) + 1 : Is(i)
  BY DEF Parting
<1> DEFINE q == CHOOSE i \in 1 .. Len(s) + 1 : Is(i)
<1>7. q \in 1 .. Len(s) + 1 /\ Is(q)
  <2> HIDE DEF Is
  <2> QED BY <1>5
<1>8. Parting(s, t) = q
  BY <1>6
<1> HIDE DEF q, T
<1>9. \A j \in 1 .. q - 1 : j =< Len(s) /\ j =< Len(t) /\ s[j] = t[j]
  BY <1>7, <1>1
<1>10. CharAt(s, q) # CharAt(t, q) \/ (q > Len(s) /\ q > Len(t))
  <2>1. CASE q > Len(s) /\ q > Len(t)
    BY <2>1
  <2>2. CASE q > Len(s) /\ ~ (q > Len(t))
    <3>1. t[q] \in Nat /\ CharAt(s, q) = -1 /\ CharAt(t, q) = t[q]
      BY <2>2, <1>7, <1>1 DEF CharAt
    <3> QED BY <3>1
  <2>3. CASE ~ (q > Len(s)) /\ q > Len(t)
    <3>1. s[q] \in Nat /\ CharAt(t, q) = -1 /\ CharAt(s, q) = s[q]
      BY <2>3, <1>7, <1>1 DEF CharAt
    <3> QED BY <3>1
  <2>4. CASE ~ (q > Len(s)) /\ ~ (q > Len(t))
    BY <2>4, <1>7, <1>1 DEF CharAt
  <2> QED BY <2>1, <2>2, <2>3, <2>4
<1>11. PartAt(s, t, q)
  BY <1>7, <1>9, <1>10, <1>1 DEF PartAt
<1> QED BY <1>8, <1>11 DEF StrCmp, CharAt

\* Two texts part at one place, whichever is looked at first.
LEMMA PartIsOne ==
  ASSUME NEW s \in Seq(Nat), NEW t \in Seq(Nat), NEW p, NEW q,
         PartAt(s, t, p), PartAt(t, s, q)
  PROVE  p = q
<1>1. p \in Nat /\ q \in Nat /\ 1 =< p /\ 1 =< q
       /\ Len(s) \in Nat /\ Len(t) \in Nat
  BY DEF PartAt
<1>2. ~ (p < q)
  <2> SUFFICES ASSUME p < q PROVE FALSE
    OBVIOUS
  <2>1. p \in 1 .. q - 1
    BY <1>1
  <2>2. p =< Len(s) /\ p =< Len(t) /\ s[p] = t[p]
    BY <2>1 DEF PartAt
  <2> QED BY <2>2, <1>1 DEF PartAt, CharAt
<1>3. ~ (q < p)
  <2> SUFFICES ASSUME q < p PROVE FALSE
    OBVIOUS
  <2>1. q \in 1 .. p - 1
    BY <1>1
  <2>2. q =< Len(s) /\ q =< Len(t) /\ s[q] = t[q]
    BY <2>1 DEF PartAt
  <2> QED BY <2>2, <1>1 DEF PartAt, CharAt
<1> QED BY <1>1, <1>2, <1>3

\* A character, or the end, which comes before all.
LEMMA CharIs ==
  ASSUME NEW s \in Seq(Nat), NEW i \in Nat, 1 =< i
  PROVE  /\ CharAt(s, i) \in Int /\ CharAt(s, i) >= -1
         /\ i =< Len(s) => CharAt(s, i) = s[i] /\ CharAt(s, i) >= 0
         /\ i > Len(s) => CharAt(s, i) = -1
<1>1. Len(s) \in Nat
  OBVIOUS
<1>2. CASE i > Len(s)
  BY <1>1, <1>2 DEF CharAt
<1>3. CASE ~ (i > Len(s))
  <2>1. s[i] \in Nat
    BY <1>1, <1>3
  <2> QED BY <1>1, <1>3, <2>1 DEF CharAt
<1> QED BY <1>2, <1>3

\* strcmp() is 0 for the same text only, and says the opposite of what it says
\* of two texts the other way round.
LEMMA StrCmpIs ==
  ASSUME NEW s \in Seq(Nat), NEW t \in Seq(Nat)
  PROVE  /\ StrCmp(s, t) \in Int
         /\ StrCmp(s, t) = 0 <=> s = t
         /\ StrCmp(t, s) = - StrCmp(s, t)
<1>1. PICK p : p = Parting(s, t) /\ PartAt(s, t, p)
  BY PartingIs
<1>2. Parting(t, s) = p
  BY <1>1, PartingIs, PartIsOne
<1>3. p \in Nat /\ 1 =< p /\ Len(s) \in Nat /\ Len(t) \in Nat
  BY <1>1 DEF PartAt
<1>4. PICK a \in Int, b \in Int : a = CharAt(s, p) /\ b = CharAt(t, p)
  BY <1>3, CharIs
<1>5. StrCmp(s, t) = a - b /\ StrCmp(t, s) = b - a
  BY <1>1, <1>2, <1>4, PartingIs
<1>6. a = b => s = t
  <2> SUFFICES ASSUME a = b PROVE s = t
    OBVIOUS
  <2>1. p > Len(s) /\ p > Len(t)
    BY <1>1, <1>4 DEF PartAt
  <2>2. \A j \in 1 .. p - 1 : j =< Len(s) /\ j =< Len(t) /\ s[j] = t[j]
    BY <1>1 DEF PartAt
  <2>3. p - 1 =< Len(s) /\ p - 1 =< Len(t)
    <3>1. CASE p = 1
      BY <3>1, <1>3
    <3>2. CASE p # 1
      <4>1. p - 1 \in 1 .. p - 1
        BY <3>2, <1>3
      <4> QED BY <4>1, <2>2
    <3> QED BY <3>1, <3>2
  <2>4. Len(s) = Len(t) /\ Len(s) = p - 1
    BY <2>1, <2>3, <1>3
  <2>5. \A j \in 1 .. Len(s) : s[j] = t[j]
    BY <2>2, <2>4
  <2> QED BY <2>4, <2>5, SeqEqual
<1>7. s = t => a = b
  BY <1>4
<1> QED BY <1>4, <1>5, <1>6, <1>7, SMTT(30)

\* strcmp() orders texts.
LEMMA StrCmpOrders ==
  ASSUME NEW s \in Seq(Nat), NEW t \in Seq(Nat), NEW u \in Seq(Nat),
         StrCmp(s, t) =< 0, StrCmp(t, u) =< 0
  PROVE  StrCmp(s, u) =< 0
<1>1. PICK p : p = Parting(s, t) /\ PartAt(s, t, p)
  BY PartingIs
<1>2. PICK q : q = Parting(t, u) /\ PartAt(t, u, q)
  BY PartingIs
<1>3. PICK r : r = Parting(s, u) /\ PartAt(s, u, r)
  BY PartingIs
<1>4. p \in Nat /\ q \in Nat /\ r \in Nat /\ 1 =< p /\ 1 =< q /\ 1 =< r
       /\ Len(s) \in Nat /\ Len(t) \in Nat /\ Len(u) \in Nat
  BY <1>1, <1>2, <1>3 DEF PartAt
<1>5. CharAt(s, p) =< CharAt(t, p) /\ CharAt(t, q) =< CharAt(u, q)
  BY <1>1, <1>2, <1>4, PartingIs, CharIs, SMTT(30)
<1> SUFFICES CharAt(s, r) =< CharAt(u, r)
  BY <1>3, <1>4, PartingIs, CharIs
<1> DEFINE Same(x, y, n) == \A j \in Nat : 1 =< j /\ j < n =>
                 CharAt(x, j) = CharAt(y, j) /\ CharAt(x, j) >= 0
<1>6. ASSUME NEW x \in Seq(Nat), NEW y \in Seq(Nat), NEW n, PartAt(x, y, n)
      PROVE  Same(x, y, n)
  <2> SUFFICES ASSUME NEW j \in Nat, 1 =< j, j < n
               PROVE  CharAt(x, j) = CharAt(y, j) /\ CharAt(x, j) >= 0
    OBVIOUS
  <2>1. j \in 1 .. n - 1
    BY <1>6 DEF PartAt
  <2>2. j =< Len(x) /\ j =< Len(y) /\ x[j] = y[j]
    BY <2>1, <1>6 DEF PartAt
  <2> QED BY <2>2, CharIs
<1>7. Same(s, t, p) /\ Same(t, u, q) /\ Same(s, u, r)
  BY <1>6, <1>1, <1>2, <1>3
<1>8. ASSUME NEW x \in Seq(Nat), NEW y \in Seq(Nat), NEW n, PartAt(x, y, n)
      PROVE  CharAt(x, n) # CharAt(y, n)
               \/ (CharAt(x, n) = -1 /\ CharAt(y, n) = -1)
  BY <1>8, CharIs DEF PartAt
<1>9. /\ CharAt(s, p) # CharAt(t, p) \/ CharAt(s, p) = -1
      /\ CharAt(t, q) # CharAt(u, q) \/ CharAt(t, q) = -1
  BY <1>8, <1>1, <1>2
<1>10. \A x \in {s, t, u}, j \in {p, q, r} : CharAt(x, j) \in Int
  BY <1>4, CharIs
<1>11. CASE r < p /\ r < q
  BY <1>11, <1>7, <1>4, <1>10
<1>12. CASE p < r
  <2>1. CharAt(s, p) = CharAt(u, p) /\ CharAt(s, p) >= 0
    BY <1>12, <1>7, <1>4
  <2>2. CharAt(s, p) < CharAt(t, p)
    BY <2>1, <1>9, <1>5, <1>10
  <2>3. CASE p < q
    BY <2>3, <2>1, <2>2, <1>7, <1>4, <1>10
  <2>4. CASE p = q
    BY <2>4, <2>1, <2>2, <1>5, <1>10
  <2>5. CASE q < p
    <3>1. CharAt(s, q) = CharAt(t, q) /\ CharAt(s, q) >= 0
      BY <2>5, <1>7, <1>4
    <3>2. CharAt(s, q) = CharAt(u, q)
      BY <2>5, <1>12, <1>7, <1>4
    <3> QED BY <3>1, <3>2, <1>9, <1>10
  <2> QED BY <2>3, <2>4, <2>5, <1>4
<1>13. CASE p = r
  <2>1. CASE r < q
    BY <2>1, <1>13, <1>7, <1>4, <1>5, <1>10
  <2>2. CASE r = q
    BY <2>2, <1>13, <1>5, <1>10
  <2>3. CASE q < r
    <3>1. CharAt(s, q) = CharAt(t, q) /\ CharAt(s, q) >= 0
      BY <2>3, <1>13, <1>7, <1>4
    <3>2. CharAt(s, q) = CharAt(u, q)
      BY <2>3, <1>7, <1>4
    <3> QED BY <3>1, <3>2, <1>9, <1>10
  <2> QED BY <2>1, <2>2, <2>3, <1>4
<1>14. CASE r < p /\ q =< r
  <2>1. CharAt(s, r) = CharAt(t, r) /\ CharAt(s, r) >= 0
    BY <1>14, <1>7, <1>4
  <2>2. CASE q = r
    BY <2>2, <2>1, <1>5, <1>10
  <2>3. CASE q < r
    <3>1. CharAt(s, q) = CharAt(t, q) /\ CharAt(s, q) >= 0
      BY <2>3, <1>14, <1>7, <1>4
    <3>2. CharAt(s, q) = CharAt(u, q)
      BY <2>3, <1>7, <1>4
    <3> QED BY <3>1, <3>2, <1>9, <1>10
  <2> QED BY <2>2, <2>3, <1>14, <1>4
<1> QED BY <1>11, <1>12, <1>13, <1>14, <1>4

-----------------------------------------------------------------------------
(* The order of ranges.                                                    *)

\* The characters of a name.
LEMMA CharsAre ==
  ASSUME NEW p \in Name
  PROVE  Chars(p) \in Seq(Nat)
<1>1. p.base \in Seq(Nat) /\ p.digits \in Seq(0 .. Radix - 1)
  BY DEF Name
<1>2. 0 .. Radix - 1 \subseteq Nat
  BY RangeAssumption
<1>3. p.digits \in Seq(Nat)
  BY <1>1, <1>2, SeqMonotonic
<1> QED BY <1>1, <1>3 DEF Chars

\* A name is its characters, since its digits are all that it ends in.
LEMMA NameIsChars ==
  ASSUME NEW p \in Name, NEW q \in Name, Chars(p) = Chars(q)
  PROVE  p = q
<1>1. /\ p \in [base : Seq(Nat), digits : Seq(0 .. Radix - 1)]
      /\ q \in [base : Seq(Nat), digits : Seq(0 .. Radix - 1)]
  BY DEF Name
<1>2. PICK a, d, b, e : /\ p = [base |-> a, digits |-> d]
                        /\ q = [base |-> b, digits |-> e]
                        /\ a \in Seq(Nat) /\ b \in Seq(Nat)
                        /\ d \in Seq(0 .. Radix - 1)
                        /\ e \in Seq(0 .. Radix - 1)
  BY <1>1
<1>3. a \o d = b \o e
  BY <1>2 DEF Chars
<1>4. /\ a # <<>> => a[Len(a)] >= Radix
      /\ b # <<>> => b[Len(b)] >= Radix
  BY <1>2 DEF Name, Last
<1>5. /\ Len(a) \in Nat /\ Len(b) \in Nat /\ Len(d) \in Nat /\ Len(e) \in Nat
      /\ Len(a) + Len(d) = Len(b) + Len(e)
  <2>1. Len(a \o d) = Len(a) + Len(d) /\ Len(b \o e) = Len(b) + Len(e)
    BY <1>2
  <2> QED BY <2>1, <1>2, <1>3
<1>6. ASSUME NEW s \in Seq(Nat), NEW t \in Seq(0 .. Radix - 1),
             NEW u \in Seq(Nat), NEW v \in Seq(0 .. Radix - 1),
             s \o t = u \o v, u # <<>> => u[Len(u)] >= Radix,
             Len(s) + Len(t) = Len(u) + Len(v)
      PROVE  Len(u) =< Len(s)
  <2> SUFFICES ASSUME Len(s) < Len(u) PROVE FALSE
    OBVIOUS
  <2>1. PICK i \in Nat, j \in Nat, k \in Nat, l \in Nat :
          i = Len(s) /\ j = Len(t) /\ k = Len(u) /\ l = Len(v)
    OBVIOUS
  <2>2. k - i \in 1 .. j /\ k >= 1 /\ k > i
    BY <2>1, <1>6
  <2>3. (s \o t)[k] = t[k - i]
    BY <2>1, <2>2
  <2>4. (u \o v)[k] = u[k]
    BY <2>1, <2>2
  <2>5. t[k - i] \in 0 .. Radix - 1
    <3> DEFINE D == 0 .. Radix - 1
    <3>1. PICK h \in 1 .. Len(t) : h = k - i
      BY <2>1, <2>2
    <3>2. t \in Seq(D)
      BY <1>6
    <3> HIDE DEF D
    <3>3. t[h] \in D
      BY <3>1, <3>2
    <3> QED BY <3>1, <3>3 DEF D
  <2>6. u # <<>>
    BY <2>1, <2>2
  <2> QED BY <2>1, <2>3, <2>4, <2>5, <2>6, <1>6, RangeAssumption
<1>7. Len(a) = Len(b)
  <2>1. Len(b) =< Len(a)
    BY <1>6, <1>2, <1>3, <1>4, <1>5
  <2>2. Len(a) =< Len(b)
    BY <1>6, <1>2, <1>3, <1>4, <1>5
  <2> QED BY <2>1, <2>2, <1>5
<1>8. a = b
  <2>1. \A i \in 1 .. Len(a) : a[i] = b[i]
    <3> SUFFICES ASSUME NEW i \in 1 .. Len(a) PROVE a[i] = b[i]
      OBVIOUS
    <3>1. (a \o d)[i] = a[i]
      BY <1>2
    <3>2. (b \o e)[i] = b[i]
      BY <1>2, <1>7
    <3> QED BY <3>1, <3>2, <1>3
  <2> QED BY <2>1, <1>2, <1>7, SeqEqual
<1>9. d = e
  <2>1. Len(d) = Len(e)
    BY <1>5, <1>7
  <2>2. \A i \in 1 .. Len(d) : d[i] = e[i]
    <3> SUFFICES ASSUME NEW i \in 1 .. Len(d) PROVE d[i] = e[i]
      OBVIOUS
    <3>1. PICK k \in Nat : k = Len(a)
      BY <1>5
    <3>2. (a \o d)[k + i] = d[i]
      BY <1>2, <3>1
    <3>3. (b \o e)[k + i] = e[i]
      BY <1>2, <1>7, <2>1, <3>1
    <3> QED BY <3>2, <3>3, <1>3
  <2> QED BY <2>1, <2>2, <1>2, SeqEqual
<1> QED BY <1>2, <1>8, <1>9

\* hostrange_prefix_cmp() is 0 for ranges that are alike only.
LEMMA PrefixCmpIs ==
  ASSUME NEW r \in GoodRange, NEW s \in GoodRange
  PROVE  /\ PrefixCmp(r, s) \in Int
         /\ PrefixCmp(r, s) = 0 <=> Alike(r, s)
         /\ PrefixCmp(s, r) = - PrefixCmp(r, s)
<1>1. Chars(r.prefix) \in Seq(Nat) /\ Chars(s.prefix) \in Seq(Nat)
  BY GoodIs, CharsAre
<1>2. CASE r.prefix = s.prefix
  BY <1>2, GoodIs DEF PrefixCmp, Alike
<1>3. CASE r.prefix # s.prefix
  <2>1. Chars(r.prefix) # Chars(s.prefix)
    BY <1>3, GoodIs, NameIsChars
  <2>2. PICK n \in Int : n = StrCmp(Chars(r.prefix), Chars(s.prefix))
                          /\ n # 0
    BY <1>1, <2>1, StrCmpIs
  <2>3. StrCmp(Chars(s.prefix), Chars(r.prefix)) = - n
    BY <1>1, <2>2, StrCmpIs
  <2>4. PrefixCmp(r, s) = n /\ PrefixCmp(s, r) = - n
    BY <1>3, <2>2, <2>3 DEF PrefixCmp
  <2> QED BY <2>2, <2>4, <1>3 DEF Alike
<1> QED BY <1>2, <1>3

\* hostrange_prefix_cmp() orders ranges.
LEMMA PrefixCmpOrders ==
  ASSUME NEW r \in GoodRange, NEW s \in GoodRange, NEW t \in GoodRange,
         PrefixCmp(r, s) =< 0, PrefixCmp(s, t) =< 0
  PROVE  PrefixCmp(r, t) =< 0
<1>1. Chars(r.prefix) \in Seq(Nat) /\ Chars(s.prefix) \in Seq(Nat)
       /\ Chars(t.prefix) \in Seq(Nat)
  BY GoodIs, CharsAre
<1> DEFINE a == Chars(r.prefix)
           b == Chars(s.prefix)
           c == Chars(t.prefix)
<1>2. r.single \in BOOLEAN /\ s.single \in BOOLEAN /\ t.single \in BOOLEAN
  BY GoodIs
<1>3. CASE r.prefix = s.prefix /\ s.prefix = t.prefix
  BY <1>3, <1>2 DEF PrefixCmp
<1>4. CASE r.prefix = s.prefix /\ s.prefix # t.prefix
  BY <1>4 DEF PrefixCmp
<1>5. CASE r.prefix # s.prefix /\ s.prefix = t.prefix
  BY <1>5 DEF PrefixCmp
<1>6. CASE r.prefix # s.prefix /\ s.prefix # t.prefix
  <2>1. PrefixCmp(r, s) = StrCmp(a, b) /\ PrefixCmp(s, t) = StrCmp(b, c)
    BY <1>6 DEF PrefixCmp
  <2>2. StrCmp(a, c) =< 0
    BY <1>1, <2>1, StrCmpOrders
  <2>3. CASE r.prefix = t.prefix
    <3>1. PICK n \in Int : n = StrCmp(a, b)
      BY <1>1, StrCmpIs
    <3>2. StrCmp(b, c) = - n
      BY <3>1, <2>3, <1>1, StrCmpIs
    <3>3. n = 0
      BY <3>1, <3>2, <2>1
    <3>4. a = b
      BY <3>3, <3>1, <1>1, StrCmpIs
    <3> QED BY <3>4, <1>6, GoodIs, NameIsChars
  <2>4. CASE r.prefix # t.prefix
    BY <2>4, <2>2 DEF PrefixCmp
  <2> QED BY <2>3, <2>4
<1> QED BY <1>3, <1>4, <1>5, <1>6

\* Numbers l of d digits that are to be printed with w.  Two of them are in the
\* order of the numbers if one width does for both, else of the widths.
OneWidth(d, w, e, v) == \/ w = v
                        \/ w =< d /\ v =< d
                        \/ w =< e /\ v =< e
NumberLess(l, d, w, k, e, v) == IF OneWidth(d, w, e, v) THEN l =< k
                                ELSE w =< v

\* That is an order, as larger numbers have no fewer digits.
LEMMA NumbersOrder ==
  ASSUME NEW l \in Nat, NEW d \in Nat, NEW w \in Nat,
         NEW k \in Nat, NEW e \in Nat, NEW v \in Nat,
         NEW m \in Nat, NEW f \in Nat, NEW u \in Nat,
         (l =< k => d =< e) /\ (k =< l => e =< d),
         (k =< m => e =< f) /\ (m =< k => f =< e),
         (l =< m => d =< f) /\ (m =< l => f =< d),
         NumberLess(l, d, w, k, e, v), NumberLess(k, e, v, m, f, u)
  PROVE  NumberLess(l, d, w, m, f, u)
BY DEF NumberLess, OneWidth

\* hostrange_cmp() compares prefixes first, then numbers.
LEMMA CmpIs ==
  ASSUME NEW r \in GoodRange, NEW s \in GoodRange
  PROVE  /\ Cmp(r, s) \in Int
         /\ Cmp(r, s) =< 0 <=>
              \/ PrefixCmp(r, s) < 0
              \/ /\ Alike(r, s)
                 /\ NumberLess(r.lo, DigitsOf(r.lo), r.width,
                               s.lo, DigitsOf(s.lo), s.width)
         /\ Combines(r, s) <=> OneWidth(DigitsOf(r.lo), r.width,
                                        DigitsOf(s.lo), s.width)
<1>1. Combines(r, s) <=> Fits(r.lo, r.width, s.width)
                           \/ Fits(s.lo, r.width, s.width)
  BY CombineIs DEF CombinedAs
<1>2. Combines(r, s) <=> OneWidth(DigitsOf(r.lo), r.width,
                                  DigitsOf(s.lo), s.width)
  BY <1>1 DEF Fits, OneWidth
<1>3. Combines(r, s) \in BOOLEAN
  BY CombineIs DEF CombinedAs
<1>4. r.lo \in Nat /\ s.lo \in Nat /\ r.width \in Nat /\ s.width \in Nat
  BY GoodIs
<1>5. PrefixCmp(r, s) \in Int /\ (PrefixCmp(r, s) = 0 <=> Alike(r, s))
  BY PrefixCmpIs
<1>6. CASE ~ Alike(r, s)
  BY <1>6, <1>2, <1>5 DEF Cmp
<1>7. CASE Alike(r, s) /\ Combines(r, s)
  <2>1. Cmp(r, s) = r.lo - s.lo
    BY <1>7 DEF Cmp
  <2> QED BY <2>1, <1>7, <1>2, <1>4, <1>5 DEF NumberLess
<1>8. CASE Alike(r, s) /\ ~ Combines(r, s)
  <2>1. Cmp(r, s) = r.width - s.width
    BY <1>8 DEF Cmp
  <2> QED BY <2>1, <1>8, <1>2, <1>4, <1>5 DEF NumberLess
<1> QED BY <1>2, <1>6, <1>7, <1>8

\* Comparing orders ranges.
LEMMA CmpTotal ==
  ASSUME NEW r \in GoodRange, NEW s \in GoodRange
  PROVE  Cmp(r, s) =< 0 \/ Cmp(s, r) =< 0
<1>1. PICK d \in Nat, e \in Nat : d = DigitsOf(r.lo) /\ e = DigitsOf(s.lo)
  BY GoodIs, DigitsIs
<1>2. Alike(r, s) <=> Alike(s, r)
  BY DEF Alike
<1>3. r.lo \in Nat /\ s.lo \in Nat /\ r.width \in Nat /\ s.width \in Nat
  BY GoodIs
<1>4. NumberLess(r.lo, d, r.width, s.lo, e, s.width)
        \/ NumberLess(s.lo, e, s.width, r.lo, d, r.width)
  BY <1>1, <1>3 DEF NumberLess, OneWidth
<1>5. PrefixCmp(r, s) \in Int /\ PrefixCmp(s, r) = - PrefixCmp(r, s)
       /\ (PrefixCmp(r, s) = 0 <=> Alike(r, s))
  BY PrefixCmpIs
<1> QED BY <1>1, <1>2, <1>4, <1>5, CmpIs

\* ... in which what comes before what comes before t is before t.
LEMMA CmpOrders ==
  ASSUME NEW r \in GoodRange, NEW s \in GoodRange, NEW t \in GoodRange,
         Cmp(r, s) =< 0, Cmp(s, t) =< 0
  PROVE  Cmp(r, t) =< 0
<1> DEFINE Less(x, y) == NumberLess(x.lo, DigitsOf(x.lo), x.width,
                                    y.lo, DigitsOf(y.lo), y.width)
<1>1. PrefixCmp(r, s) \in Int /\ PrefixCmp(s, t) \in Int
       /\ PrefixCmp(r, t) \in Int
       /\ (PrefixCmp(r, s) = 0 <=> Alike(r, s))
       /\ (PrefixCmp(s, t) = 0 <=> Alike(s, t))
       /\ (PrefixCmp(r, t) = 0 <=> Alike(r, t))
  BY PrefixCmpIs
<1>2. /\ PrefixCmp(r, s) < 0 \/ (Alike(r, s) /\ Less(r, s))
      /\ PrefixCmp(s, t) < 0 \/ (Alike(s, t) /\ Less(s, t))
  BY CmpIs
<1>3. PrefixCmp(r, s) =< 0 /\ PrefixCmp(s, t) =< 0
  BY <1>1, <1>2
<1>4. PrefixCmp(r, t) =< 0
  BY <1>3, PrefixCmpOrders
<1>5. CASE PrefixCmp(r, t) < 0
  BY <1>5, CmpIs
<1>6. CASE Alike(r, t)
  <2>1. PrefixCmp(s, r) =< 0
    <3>1. PrefixCmp(t, r) =< 0
      BY <1>1, <1>6, PrefixCmpIs
    <3> QED BY <3>1, <1>3, PrefixCmpOrders
  <2>2. Alike(r, s)
    BY <2>1, <1>3, <1>1, PrefixCmpIs
  <2>3. Alike(s, t)
    BY <2>2, <1>6 DEF Alike
  <2>4. Less(r, s) /\ Less(s, t)
    BY <1>1, <1>2, <2>2, <2>3
  <2>5. PICK d \in Nat, e \in Nat, f \in Nat :
          d = DigitsOf(r.lo) /\ e = DigitsOf(s.lo) /\ f = DigitsOf(t.lo)
    BY GoodIs, DigitsIs
  <2>6. PICK l \in Nat, k \in Nat, m \in Nat :
          l = r.lo /\ k = s.lo /\ m = t.lo
    BY GoodIs
  <2>7. PICK w \in Nat, v \in Nat, u \in Nat :
          w = r.width /\ v = s.width /\ u = t.width
    BY GoodIs
  <2>8. /\ (l =< k => d =< e) /\ (k =< l => e =< d)
        /\ (k =< m => e =< f) /\ (m =< k => f =< e)
        /\ (l =< m => d =< f) /\ (m =< l => f =< d)
    BY <2>5, <2>6, DigitsGrow
  <2>9. NumberLess(l, d, w, k, e, v)
    BY <2>4, <2>5, <2>6, <2>7
  <2>10. NumberLess(k, e, v, m, f, u)
    BY <2>4, <2>5, <2>6, <2>7
  <2>11. NumberLess(l, d, w, m, f, u)
    <3>1. (l =< k => d =< e) /\ (k =< l => e =< d)
      BY <2>8
    <3>2. (k =< m => e =< f) /\ (m =< k => f =< e)
      BY <2>8
    <3>3. (l =< m => d =< f) /\ (m =< l => f =< d)
      BY <2>8
    <3> QED BY <3>1, <3>2, <3>3, <2>9, <2>10, NumbersOrder
  <2> QED BY <2>5, <2>6, <2>7, <2>11, <1>6, CmpIs
<1> QED BY <1>1, <1>4, <1>5, <1>6

\* A width that makes no difference to a range makes none to its comparisons.
LEMMA CmpKept ==
  ASSUME NEW r \in GoodRange, NEW w \in Nat, Fits(r.lo, r.width, w),
         NEW t \in GoodRange
  PROVE  /\ Cmp(Wide(r, w), t) =< 0 <=> Cmp(r, t) =< 0
         /\ Cmp(t, Wide(r, w)) =< 0 <=> Cmp(t, r) =< 0
         /\ Combines(Wide(r, w), t) <=> Combines(r, t)
         /\ Combines(t, Wide(r, w)) <=> Combines(t, r)
<1>1. PICK s \in GoodRange : s = Wide(r, w)
  BY WideIs
<1>2. s.prefix = r.prefix /\ s.lo = r.lo /\ s.width = w
       /\ s.single = r.single
  BY <1>1, WideIs
<1>3. /\ Alike(s, t) <=> Alike(r, t)
      /\ Alike(t, s) <=> Alike(t, r)
      /\ PrefixCmp(s, t) = PrefixCmp(r, t)
      /\ PrefixCmp(t, s) = PrefixCmp(t, r)
  BY <1>2 DEF Alike, PrefixCmp
<1>4. PICK d \in Nat, e \in Nat : d = DigitsOf(r.lo) /\ e = DigitsOf(t.lo)
  BY GoodIs, DigitsIs
<1>5. PICK l \in Nat, v \in Nat, k \in Nat, u \in Nat :
        l = r.lo /\ v = r.width /\ k = t.lo /\ u = t.width
  BY GoodIs
<1>6. (l =< k => d =< e) /\ (k =< l => e =< d)
  BY <1>4, <1>5, DigitsGrow
<1>7. v = w \/ (v =< d /\ w =< d)
  BY <1>4, <1>5 DEF Fits
<1>8. /\ NumberLess(l, d, w, k, e, u) <=> NumberLess(l, d, v, k, e, u)
      /\ NumberLess(k, e, u, l, d, w) <=> NumberLess(k, e, u, l, d, v)
      /\ OneWidth(d, w, e, u) <=> OneWidth(d, v, e, u)
      /\ OneWidth(e, u, d, w) <=> OneWidth(e, u, d, v)
  BY <1>6, <1>7 DEF NumberLess, OneWidth
<1>9. /\ NumberLess(s.lo, DigitsOf(s.lo), s.width,
                    t.lo, DigitsOf(t.lo), t.width)
           <=> NumberLess(r.lo, DigitsOf(r.lo), r.width,
                          t.lo, DigitsOf(t.lo), t.width)
      /\ NumberLess(t.lo, DigitsOf(t.lo), t.width,
                    s.lo, DigitsOf(s.lo), s.width)
           <=> NumberLess(t.lo, DigitsOf(t.lo), t.width,
                          r.lo, DigitsOf(r.lo), r.width)
  BY <1>2, <1>4, <1>5, <1>8
<1>10. Cmp(s, t) =< 0 <=> Cmp(r, t) =< 0
  BY <1>3, <1>9, CmpIs
<1>11. Cmp(t, s) =< 0 <=> Cmp(t, r) =< 0
  BY <1>3, <1>9, CmpIs
<1>12. Combines(s, t) <=> Combines(r, t)
  BY <1>2, <1>4, <1>5, <1>8, CmpIs
<1>13. Combines(t, s) <=> Combines(t, r)
  BY <1>2, <1>4, <1>5, <1>8, CmpIs
<1> QED BY <1>1, <1>10, <1>11, <1>12, <1>13

\* What ComparingIsSafe says holds of all ranges that have a host.
LEMMA ComparesSafely ==
  ASSUME \A r \in ToSet(list.hr) : r \in GoodRange
  PROVE  ComparingIsSafe
<1> DEFINE R == ToSet(list.hr)
<1> SUFFICES ASSUME NEW r \in R, NEW s \in R, NEW c, c = Combine(r, s)
             PROVE  /\ Hosts(c.left) = Hosts(r) /\ Hosts(c.right) = Hosts(s)
                    /\ Cmp(r, s) <= 0 \/ Cmp(s, r) <= 0
                    /\ \A t \in R :
                         /\ Cmp(r, s) <= 0 /\ Cmp(s, t) <= 0
                              => Cmp(r, t) <= 0
                         /\ (Cmp(c.left, t) <= 0) = (Cmp(r, t) <= 0)
                         /\ (Cmp(t, c.left) <= 0) = (Cmp(t, r) <= 0)
  BY DEF ComparingIsSafe
<1> HIDE DEF R
<1>1. \A t \in R : t \in GoodRange
  BY DEF R
<1>2. r \in GoodRange /\ s \in GoodRange
  BY <1>1
<1>3. Hosts(c.left) = Hosts(r) /\ Hosts(c.right) = Hosts(s)
  BY <1>2, CombineKeeps
<1>4. Cmp(r, s) <= 0 \/ Cmp(s, r) <= 0
  BY <1>2, CmpTotal
<1>5. ASSUME NEW t \in R
      PROVE  /\ Cmp(r, s) <= 0 /\ Cmp(s, t) <= 0 => Cmp(r, t) <= 0
             /\ (Cmp(c.left, t) <= 0) = (Cmp(r, t) <= 0)
             /\ (Cmp(t, c.left) <= 0) = (Cmp(t, r) <= 0)
  <2>1. t \in GoodRange
    BY <1>1
  <2>2. Cmp(r, s) <= 0 /\ Cmp(s, t) <= 0 => Cmp(r, t) <= 0
    BY <1>2, <2>1, CmpOrders
  <2>3. PICK w \in Nat : c.left = Wide(r, w) /\ Fits(r.lo, r.width, w)
    BY <1>2, CombineIs DEF CombinedAs
  <2>4. /\ Cmp(c.left, t) =< 0 <=> Cmp(r, t) =< 0
        /\ Cmp(t, c.left) =< 0 <=> Cmp(t, r) =< 0
    BY <1>2, <2>1, <2>3, CmpKept
  <2>5. /\ Cmp(r, t) \in Int /\ Cmp(t, r) \in Int
    BY <1>2, <2>1, CmpIs
  <2>6. c.left \in GoodRange
    BY <2>3, <1>2, WideIs
  <2>7. /\ Cmp(c.left, t) \in Int /\ Cmp(t, c.left) \in Int
    BY <2>1, <2>6, CmpIs
  <2> QED BY <2>2, <2>4, <2>5, <2>7
<1> QED BY <1>3, <1>4, <1>5

(***************************************************************************)
(* The names of an array of ranges, and how many they are.                 *)
(***************************************************************************)

\* What the sequences in s come to one after the other.
Flattened(h, s) ==
  h[0] = <<>> /\ \A i \in 1 .. Len(s) : h[i] = h[i - 1] \o s[i]

\* FlattenSeq() comes to that.
LEMMA FlattenRuns ==
  ASSUME NEW E, NEW s \in Seq(Seq(E))
  PROVE  \E h \in [0 .. Len(s) -> Seq(E)] :
           Flattened(h, s) /\ FlattenSeq(s) = h[Len(s)]
<1> DEFINE V == Seq(E)
           N == Len(s)
           D == [x \in Nat \X V |-> IF x[1] < N THEN x[2] \o s[x[1] + 1]
                                    ELSE x[2]]
<1>1. N \in Nat /\ \A i \in 1 .. N : s[i] \in Seq(E)
  OBVIOUS
<1>2. D \in [Nat \X V -> V]
  <2> SUFFICES ASSUME NEW x \in Nat \X V
               PROVE  (IF x[1] < N THEN x[2] \o s[x[1] + 1] ELSE x[2]) \in V
    OBVIOUS
  <2>1. x[1] < N => x[1] + 1 \in 1 .. N
    BY <1>1
  <2>2. \A i \in 1 .. N : s[i] \in Seq(E)
    OBVIOUS
  <2>3. x[2] \in Seq(E)
    OBVIOUS
  <2> QED BY <2>1, <2>2, <2>3
<1>3. <<>> \in V
  OBVIOUS
<1> HIDE DEF D
<1>4. PICK g \in [Nat -> V] : Iterated(g, <<>>, D)
  BY <1>2, <1>3, Iterates
<1>5. g[0] = <<>> /\ \A n \in Nat : g[n + 1] = D[<<n, g[n]>>]
  BY <1>4 DEF Iterated
<1>6. ASSUME NEW i \in 1 .. N PROVE g[i] = g[i - 1] \o s[i]
  <2>1. i - 1 \in Nat /\ (i - 1) + 1 = i /\ i - 1 < N
    BY <1>1
  <2>2. g[i] = D[<<i - 1, g[i - 1]>>] /\ g[i - 1] \in V
    BY <2>1, <1>5
  <2> QED BY <2>1, <2>2 DEF D
<1> DEFINE h == [i \in 0 .. N |-> g[i]]
<1>7. h \in [0 .. N -> V]
  OBVIOUS
<1>8. h[0] = <<>> /\ \A i \in 1 .. N : h[i] = h[i - 1] \o s[i]
  <2> HIDE DEF N
  <2>1. \A i \in 1 .. N : i - 1 \in 0 .. N /\ i \in 0 .. N
    BY <1>1
  <2>2. 0 \in 0 .. N
    BY <1>1
  <2>3. h[0] = <<>>
    BY <2>2, <1>5
  <2>4. ASSUME NEW i \in 1 .. N PROVE h[i] = h[i - 1] \o s[i]
    <3>1. h[i] = g[i] /\ h[i - 1] = g[i - 1]
      BY <2>1
    <3> QED BY <3>1, <1>6
  <2> HIDE DEF h
  <2> QED BY <2>3, <2>4
<1>9. FlattenSeq(s) = h[N]
  <2>1. CASE N = 0
    BY <2>1, <1>8 DEF FlattenSeq
  <2>2. CASE N # 0
    <3> DEFINE Is(f) == f = [i \in 1 .. N |-> IF i = 1 THEN s[i]
                                              ELSE f[i - 1] \o s[i]]
               f == CHOOSE f : Is(f)
               p == [i \in 1 .. N |-> g[i]]
    <3>1. Is(p)
      <4>1. ASSUME NEW i \in 1 .. N
            PROVE  p[i] = IF i = 1 THEN s[i] ELSE p[i - 1] \o s[i]
        <5>1. CASE i = 1
          <6>1. 1 \in 1 .. N
            BY <5>1
          <6>2. g[1] = g[1 - 1] \o s[1]
            BY <6>1, <1>6
          <6>3. g[1 - 1] = <<>> /\ s[1] \in Seq(E)
            BY <6>1, <1>1, <1>5
          <6> QED BY <5>1, <6>2, <6>3
        <5>2. CASE i # 1
          <6>1. i - 1 \in 1 .. N
            BY <5>2, <1>1
          <6> QED BY <6>1, <5>2, <1>6
        <5> QED BY <5>1, <5>2
      <4> QED BY <4>1
    <3> HIDE DEF p
    <3>2. Is(f)
      <4> HIDE DEF Is
      <4> QED BY <3>1
    <3>3. FlattenSeq(s) = f[N]
      BY <2>2 DEF FlattenSeq
    <3> HIDE DEF f
    <3> DEFINE T == {k \in Nat : k + 1 =< N => f[k + 1] = g[k + 1]}
    <3> HIDE DEF N
    <3>4. 0 \in T
      <4>1. 1 \in 1 .. N
        BY <2>2, <1>1
      <4>2. f[1] = s[1]
        BY <4>1, <3>2
      <4>3. g[1] = g[1 - 1] \o s[1]
        BY <4>1, <1>6
      <4>4. g[1 - 1] = <<>> /\ s[1] \in Seq(E)
        BY <4>1, <1>1, <1>5
      <4> QED BY <4>2, <4>3, <4>4
    <3>5. ASSUME NEW k \in Nat, k \in T PROVE k + 1 \in T
      <4> SUFFICES ASSUME (k + 1) + 1 =< N
                   PROVE  f[(k + 1) + 1] = g[(k + 1) + 1]
        OBVIOUS
      <4> DEFINE i == (k + 1) + 1
      <4>1. i \in 1 .. N /\ i # 1 /\ i - 1 = k + 1 /\ k + 1 =< N
        BY <1>1
      <4> HIDE DEF i
      <4>2. f[i] = f[i - 1] \o s[i] /\ g[i] = g[i - 1] \o s[i]
        BY <4>1, <3>2, <1>6
      <4>3. f[k + 1] = g[k + 1]
        BY <4>1, <3>5
      <4>4. f[i] = g[i]
        BY <4>1, <4>2, <4>3
      <4> QED BY <4>4 DEF i
    <3> HIDE DEF T
    <3>6. N - 1 \in T
      <4>1. N - 1 \in Nat
        BY <2>2, <1>1
      <4>2. \A k \in Nat : k \in T => k + 1 \in T
        BY <3>5
      <4> QED BY <4>1, <4>2, <3>4, Induction
    <3>7. f[N] = g[N]
      <4>1. (N - 1) + 1 = N
        BY <1>1
      <4> QED BY <3>6, <4>1, <1>1 DEF T
    <3> QED BY <3>3, <3>7, <1>1
  <2> QED BY <2>1, <2>2
<1> HIDE DEF h
<1>10. Flattened(h, s)
  BY <1>8 DEF Flattened
<1> QED BY <1>7, <1>9, <1>10

\* The elements are of one kind when those of all sequences are.
LEMMA FlattenIs ==
  ASSUME NEW E, NEW s \in Seq(Seq(E))
  PROVE  FlattenSeq(s) \in Seq(E)
<1>1. PICK h \in [0 .. Len(s) -> Seq(E)] : FlattenSeq(s) = h[Len(s)]
  BY FlattenRuns
<1>2. Len(s) \in 0 .. Len(s)
  OBVIOUS
<1> QED BY <1>1, <1>2

\* One sequence more.
LEMMA FlattenOne ==
  ASSUME NEW E, NEW s \in Seq(Seq(E)), NEW t \in Seq(E)
  PROVE  FlattenSeq(Append(s, t)) = FlattenSeq(s) \o t
<1> DEFINE q == Append(s, t)
           N == Len(s)
<1>1. N \in Nat /\ q \in Seq(Seq(E)) /\ Len(q) = N + 1 /\ q[N + 1] = t
       /\ \A i \in 1 .. N : q[i] = s[i]
  OBVIOUS
<1> HIDE DEF q
<1>2. PICK h : Flattened(h, s) /\ FlattenSeq(s) = h[N]
  BY FlattenRuns
<1>3. PICK g : Flattened(g, q) /\ FlattenSeq(q) = g[N + 1]
  BY <1>1, FlattenRuns
<1>4. h[0] = <<>> /\ \A i \in 1 .. N : h[i] = h[i - 1] \o s[i]
  BY <1>2 DEF Flattened
<1>5. g[0] = <<>> /\ \A i \in 1 .. N + 1 : g[i] = g[i - 1] \o q[i]
  BY <1>3, <1>1 DEF Flattened
<1> DEFINE T == {k \in Nat : k =< N => g[k] = h[k]}
<1>6. 0 \in T
  BY <1>4, <1>5
<1>7. ASSUME NEW k \in Nat, k \in T PROVE k + 1 \in T
  <2> SUFFICES ASSUME k + 1 =< N PROVE g[k + 1] = h[k + 1]
    OBVIOUS
  <2>1. k + 1 \in 1 .. N /\ k + 1 \in 1 .. N + 1 /\ (k + 1) - 1 = k /\ k =< N
    BY <1>1
  <2>2. g[k] = h[k]
    BY <2>1, <1>7
  <2> QED BY <2>1, <2>2, <1>1, <1>4, <1>5
<1> HIDE DEF T
<1>8. N \in T
  <2>1. \A k \in Nat : k \in T => k + 1 \in T
    BY <1>7
  <2> QED BY <2>1, <1>6, <1>1, Induction
<1>9. g[N] = h[N]
  BY <1>8, <1>1 DEF T
<1>10. g[N + 1] = g[N] \o t
  <2>1. N + 1 \in 1 .. N + 1 /\ (N + 1) - 1 = N
    BY <1>1
  <2> QED BY <2>1, <1>1, <1>5
<1> QED BY <1>2, <1>3, <1>9, <1>10 DEF q

\* No sequence at all.
LEMMA FlattenNone == FlattenSeq(<<>>) = <<>>
BY DEF FlattenSeq

-----------------------------------------------------------------------------
(* The names of an array.                                                  *)

\* A set with the empty sequence, and with each sequence also what is longer by
\* one element, has them all.
LEMMA SeqInduction ==
  ASSUME NEW E, NEW T, <<>> \in T,
         \A s \in Seq(E), e \in E : s \in T => Append(s, e) \in T
  PROVE  Seq(E) \subseteq T
<1> DEFINE N == {n \in Nat : \A s \in Seq(E) : Len(s) = n => s \in T}
<1>1. 0 \in N
  <2> SUFFICES ASSUME NEW s \in Seq(E), Len(s) = 0 PROVE s \in T
    OBVIOUS
  <2>1. s = <<>>
    BY EmptySeq
  <2> QED BY <2>1
<1>2. ASSUME NEW n \in Nat, n \in N PROVE n + 1 \in N
  <2> SUFFICES ASSUME NEW s \in Seq(E), Len(s) = n + 1 PROVE s \in T
    OBVIOUS
  <2>1. s # <<>>
    BY EmptySeq
  <2>2. PICK t \in Seq(E), e \in E : s = Append(t, e)
    BY <2>1, SequenceEmptyOrAppend
  <2>3. Len(s) = Len(t) + 1 /\ Len(t) \in Nat
    BY <2>2, AppendProperties
  <2>4. Len(t) = n
    BY <2>3
  <2>5. t \in T
    BY <2>4, <1>2
  <2> QED BY <2>2, <2>5
<1> HIDE DEF N
<1>3. \A n \in Nat : n \in N => n + 1 \in N
  BY <1>2
<1>4. Nat \subseteq N
  BY <1>1, <1>3, Induction
<1> SUFFICES ASSUME NEW s \in Seq(E) PROVE s \in T
  OBVIOUS
<1>5. Len(s) \in N
  BY <1>4
<1> QED BY <1>5 DEF N

HostsOf(hr) == [i \in DOMAIN hr |-> Hosts(hr[i])]

\* The names of each range, of which Names() puts one after the other.
LEMMA HostsOfIs ==
  ASSUME NEW hr \in Seq(GoodRange)
  PROVE  /\ HostsOf(hr) \in Seq(Seq(Name))
         /\ Len(HostsOf(hr)) = Len(hr)
         /\ \A i \in 1 .. Len(hr) : HostsOf(hr)[i] = Hosts(hr[i])
         /\ Names(hr) = FlattenSeq(HostsOf(hr))
<1>1. \A i \in 1 .. Len(hr) : hr[i] \in GoodRange
  BY ElementOfSeq
<1>2. \A i \in 1 .. Len(hr) : Hosts(hr[i]) \in Seq(Name)
  BY <1>1, HostsAre
<1>3. DOMAIN hr = 1 .. Len(hr) /\ Len(hr) \in Nat
  BY LenProperties
<1>4. HostsOf(hr) \in [1 .. Len(hr) -> Seq(Name)]
  BY <1>2, <1>3 DEF HostsOf
<1>5. HostsOf(hr) \in Seq(Seq(Name)) /\ Len(HostsOf(hr)) = Len(hr)
  BY <1>3, <1>4
<1> QED BY <1>3, <1>5 DEF HostsOf, Names

\* How many hosts an array has.
Total(hr) == Len(Names(hr))

\* The names in an array are a sequence of names.
LEMMA NamesAre ==
  ASSUME NEW hr \in Seq(GoodRange)
  PROVE  Names(hr) \in Seq(Name) /\ Total(hr) \in Nat
<1>1. Names(hr) \in Seq(Name)
  BY HostsOfIs, FlattenIs
<1> QED BY <1>1, LenProperties DEF Total

\* A range at the end adds its names.
LEMMA NamesOne ==
  ASSUME NEW hr \in Seq(GoodRange), NEW r \in GoodRange
  PROVE  /\ Names(Append(hr, r)) = Names(hr) \o Hosts(r)
         /\ Total(Append(hr, r)) = Total(hr) + Count(r)
<1> DEFINE q == Append(hr, r)
           n == Len(hr)
<1>1. q \in Seq(GoodRange) /\ Len(q) = n + 1 /\ q[n + 1] = r
       /\ \A i \in 1 .. n : q[i] = hr[i]
  BY AppendProperties
<1>2. n \in Nat
  OBVIOUS
<1>3. Hosts(r) \in Seq(Name) /\ Len(Hosts(r)) = Count(r)
  BY HostsAre
<1>4. HostsOf(hr) \in Seq(Seq(Name)) /\ Len(HostsOf(hr)) = n
       /\ HostsOf(q) \in Seq(Seq(Name)) /\ Len(HostsOf(q)) = n + 1
  BY <1>1, HostsOfIs
<1> DEFINE a == Append(HostsOf(hr), Hosts(r))
<1>5. a \in Seq(Seq(Name)) /\ Len(a) = n + 1 /\ a[n + 1] = Hosts(r)
       /\ \A i \in 1 .. n : a[i] = HostsOf(hr)[i]
  BY <1>3, <1>4, AppendProperties
<1> HIDE DEF q, n
<1>6. \A i \in 1 .. n + 1 : HostsOf(q)[i] = a[i]
  <2> SUFFICES ASSUME NEW i \in 1 .. n + 1 PROVE HostsOf(q)[i] = a[i]
    OBVIOUS
  <2>1. HostsOf(q)[i] = Hosts(q[i])
    BY <1>1, HostsOfIs
  <2>2. CASE i = n + 1
    BY <2>1, <2>2, <1>1, <1>5
  <2>3. CASE i # n + 1
    <3>1. i \in 1 .. n
      BY <2>3, <1>2
    <3>2. HostsOf(hr)[i] = Hosts(hr[i])
      BY <3>1, HostsOfIs DEF n
    <3>3. a[i] = HostsOf(hr)[i] /\ q[i] = hr[i]
      BY <3>1, <1>1, <1>5
    <3> QED BY <2>1, <3>2, <3>3
  <2> QED BY <2>2, <2>3
<1>7. HostsOf(q) = a
  <2> HIDE DEF a
  <2> QED BY <1>4, <1>5, <1>6, SeqEqual
<1>8. Names(q) = Names(hr) \o Hosts(r)
  <2>1. Names(q) = FlattenSeq(a)
    BY <1>1, <1>7, HostsOfIs
  <2>2. FlattenSeq(a) = FlattenSeq(HostsOf(hr)) \o Hosts(r)
    BY <1>3, <1>4, FlattenOne
  <2> QED BY <2>1, <2>2, HostsOfIs
<1>9. Len(Names(q)) = Len(Names(hr)) + Count(r)
  BY <1>8, <1>3, NamesAre, ConcatProperties
<1> QED BY <1>8, <1>9 DEF Total, q

\* An empty array has none.
LEMMA NamesNone == Names(<<>>) = <<>> /\ Total(<<>>) = 0
<1>1. [i \in DOMAIN <<>> |-> Hosts(<<>>[i])] = <<>>
  OBVIOUS
<1>2. Names(<<>>) = FlattenSeq(<<>>)
  BY <1>1 DEF Names
<1> QED BY <1>2, FlattenNone DEF Total

\* The names of an array are those of its parts.
LEMMA NamesCat ==
  ASSUME NEW s \in Seq(GoodRange), NEW t \in Seq(GoodRange)
  PROVE  /\ Names(s \o t) = Names(s) \o Names(t)
         /\ Total(s \o t) = Total(s) + Total(t)
         /\ s \o t \in Seq(GoodRange)
<1> DEFINE T == {q \in Seq(GoodRange) :
                   Names(s \o q) = Names(s) \o Names(q)}
<1>1. <<>> \in T
  <2>1. s \o <<>> = s /\ Names(s) \o <<>> = Names(s)
    BY NamesAre, ConcatEmptySeq
  <2>2. <<>> \in Seq(GoodRange)
    BY EmptySeq
  <2> QED BY <2>1, <2>2, NamesNone
<1>2. ASSUME NEW q \in Seq(GoodRange), NEW r \in GoodRange, q \in T
      PROVE  Append(q, r) \in T
  <2>1. s \o q \in Seq(GoodRange) /\ Append(q, r) \in Seq(GoodRange)
    BY ConcatProperties, AppendProperties
  <2>2. s \o Append(q, r) = Append(s \o q, r)
    <3>1. Append(q, r) = q \o <<r>> /\ Append(s \o q, r) = (s \o q) \o <<r>>
      BY <2>1, AppendIsConcat
    <3>2. (s \o q) \o <<r>> = s \o (q \o <<r>>)
      BY ConcatAssociative, SMTT(30)
    <3> QED BY <3>1, <3>2
  <2>3. Names(s \o Append(q, r)) = Names(s \o q) \o Hosts(r)
    BY <2>1, <2>2, NamesOne
  <2>4. Names(Append(q, r)) = Names(q) \o Hosts(r)
    BY NamesOne
  <2>5. (Names(s) \o Names(q)) \o Hosts(r) = Names(s) \o (Names(q) \o Hosts(r))
    <3>1. Names(s) \in Seq(Name) /\ Names(q) \in Seq(Name)
           /\ Hosts(r) \in Seq(Name)
      BY NamesAre, HostsAre
    <3> QED BY <3>1, ConcatAssociative, SMTT(30)
  <2> QED BY <2>1, <2>3, <2>4, <2>5, <1>2
<1> HIDE DEF T
<1>3. t \in T
  <2>1. \A q \in Seq(GoodRange), r \in GoodRange :
          q \in T => Append(q, r) \in T
    BY <1>2
  <2> QED BY <2>1, <1>1, SeqInduction
<1>4. Names(s \o t) = Names(s) \o Names(t)
  BY <1>3 DEF T
<1>5. Len(Names(s) \o Names(t)) = Len(Names(s)) + Len(Names(t))
  BY NamesAre, ConcatProperties
<1>6. s \o t \in Seq(GoodRange)
  BY ConcatProperties
<1> QED BY <1>4, <1>5, <1>6 DEF Total

\* An array of one range.
One(r) == <<r>>

\* It has the names of its range.
LEMMA TotalOf ==
  ASSUME NEW r \in GoodRange
  PROVE  /\ One(r) \in Seq(GoodRange) /\ Names(One(r)) = Hosts(r)
         /\ Total(One(r)) = Count(r) /\ Len(One(r)) = 1 /\ One(r)[1] = r
<1>1. <<>> \in Seq(GoodRange) /\ Append(<<>>, r) = <<r>>
  OBVIOUS
<1>2. Names(<<r>>) = <<>> \o Hosts(r) /\ Total(<<r>>) = 0 + Count(r)
  BY <1>1, NamesOne, NamesNone
<1>3. <<>> \o Hosts(r) = Hosts(r)
  BY HostsAre, ConcatEmptySeq
<1>4. <<r>> \in Seq(GoodRange) /\ Len(<<r>>) = 1 /\ <<r>>[1] = r
  OBVIOUS
<1>5. Count(r) \in Nat
  BY CountIs
<1> QED BY <1>2, <1>3, <1>4, <1>5 DEF One

-----------------------------------------------------------------------------
(* Parts of an array.                                                      *)

\* An array from one range to another.
LEMMA PartIs ==
  ASSUME NEW E, NEW s \in Seq(E), NEW m \in Nat, NEW n \in Nat,
         1 =< m, n =< Len(s)
  PROVE  /\ SubSeq(s, m, n) \in Seq(E)
         /\ Len(SubSeq(s, m, n)) = IF m =< n THEN n - m + 1 ELSE 0
         /\ \A i \in 1 .. n - m + 1 : SubSeq(s, m, n)[i] = s[m + i - 1]
<1>1. \A i \in m .. n : s[i] \in E
  <2> SUFFICES ASSUME NEW i \in m .. n PROVE s[i] \in E
    OBVIOUS
  <2>1. i \in 1 .. Len(s)
    OBVIOUS
  <2> QED BY <2>1, ElementOfSeq
<1>2. m \in Int /\ n \in Int
  OBVIOUS
<1> QED BY <1>1, <1>2, SubSeqProperties

\* The array s without range i.
CutInto(s, i, a, b) == a = SubSeq(s, 1, i - 1) /\ b = SubSeq(s, i + 1, Len(s))

\* x, y and z one after the other.
InThree(s, x, y, z) == s = x \o y \o z

\* The array is that, the range and the rest.
LEMMA CutHas ==
  ASSUME NEW s \in Seq(GoodRange), NEW i \in 1 .. Len(s),
         NEW a, NEW b, CutInto(s, i, a, b)
  PROVE  /\ a \in Seq(GoodRange) /\ b \in Seq(GoodRange)
         /\ s[i] \in GoodRange
         /\ Len(a) = i - 1 /\ Len(b) = Len(s) - i
         /\ \A j \in 1 .. i - 1 : a[j] = s[j]
         /\ \A j \in 1 .. Len(s) - i : b[j] = s[i + j]
         /\ InThree(s, a, One(s[i]), b)
         /\ InThree(Names(s), Names(a), Hosts(s[i]), Names(b))
         /\ Total(s) = Total(a) + Count(s[i]) + Total(b)
<1> DEFINE n == Len(s)
<1>1. n \in Nat /\ s[i] \in GoodRange
  BY LenProperties, ElementOfSeq
<1>2. /\ a \in Seq(GoodRange) /\ Len(a) = i - 1
      /\ \A j \in 1 .. i - 1 : a[j] = s[j]
  <2>1. i - 1 \in Nat /\ i - 1 =< n /\ 1 \in Nat
    BY <1>1
  <2>2. /\ a \in Seq(GoodRange)
        /\ Len(a) = IF 1 =< i - 1 THEN (i - 1) - 1 + 1 ELSE 0
        /\ \A j \in 1 .. (i - 1) - 1 + 1 : a[j] = s[1 + j - 1]
    BY <2>1, PartIs, SMTT(30) DEF CutInto
  <2> QED BY <2>1, <2>2
<1>3. /\ b \in Seq(GoodRange) /\ Len(b) = n - i
      /\ \A j \in 1 .. n - i : b[j] = s[i + j]
  <2>1. i + 1 \in Nat /\ 1 =< i + 1 /\ n =< n
    BY <1>1
  <2>2. /\ b \in Seq(GoodRange)
        /\ Len(b) = IF i + 1 =< n THEN n - (i + 1) + 1 ELSE 0
        /\ \A j \in 1 .. n - (i + 1) + 1 : b[j] = s[(i + 1) + j - 1]
    BY <2>1, <1>1, PartIs DEF CutInto
  <2>3. i \in 1 .. n
    OBVIOUS
  <2> HIDE DEF n
  <2>4. Len(b) = n - i
    BY <2>2, <2>3, <1>1
  <2>5. ASSUME NEW j \in 1 .. n - i PROVE b[j] = s[i + j]
    <3>1. j \in 1 .. n - (i + 1) + 1 /\ (i + 1) + j - 1 = i + j
      BY <2>3, <1>1
    <3> QED BY <2>2, <3>1
  <2> QED BY <2>2, <2>4, <2>5
<1>4. s = a \o One(s[i]) \o b
  <2>1. SubSeq(s, 1, i) = a \o One(s[i])
    <3>1. 1 \in 1 .. Len(s) /\ i \in 1 .. Len(s)
      BY <1>1
    <3> QED BY <3>1, SubSeqRecursiveSecond DEF CutInto, One
  <2>2. SubSeq(s, 1, i) \o SubSeq(s, i + 1, n) = SubSeq(s, 1, n)
    <3>1. 1 \in 1 .. Len(s) + 1 /\ i \in 1 - 1 .. Len(s) /\ n \in i .. Len(s)
      BY <1>1
    <3> QED BY <3>1, ConcatAdjacentSubSeq
  <2>3. SubSeq(s, 1, n) = s
    BY SubSeqFull
  <2> QED BY <2>1, <2>2, <2>3, Zenon DEF CutInto
<1>5. One(s[i]) \in Seq(GoodRange) /\ Names(One(s[i])) = Hosts(s[i])
       /\ Total(One(s[i])) = Count(s[i])
  BY <1>1, TotalOf
<1>6. /\ a \o One(s[i]) \in Seq(GoodRange)
      /\ Names(a \o One(s[i])) = Names(a) \o Hosts(s[i])
      /\ Total(a \o One(s[i])) = Total(a) + Count(s[i])
  <2>1. PICK m \in Seq(GoodRange) : m = One(s[i])
    BY <1>5
  <2>2. a \in Seq(GoodRange)
    BY <1>2
  <2>3. /\ a \o m \in Seq(GoodRange)
        /\ Names(a \o m) = Names(a) \o Names(m)
        /\ Total(a \o m) = Total(a) + Total(m)
    BY <2>2, NamesCat
  <2> QED BY <2>1, <2>3, <1>5
<1>7. /\ Names(s) = Names(a) \o Hosts(s[i]) \o Names(b)
      /\ Total(s) = Total(a) + Count(s[i]) + Total(b)
  BY <1>3, <1>4, <1>6, NamesCat
<1>8. /\ InThree(s, a, One(s[i]), b)
      /\ InThree(Names(s), Names(a), Hosts(s[i]), Names(b))
  BY <1>4, <1>7 DEF InThree
<1> QED BY <1>1, <1>2, <1>3, <1>7, <1>8

\* The same, with the whole written out.
LEMMA CutIs ==
  ASSUME NEW s \in Seq(GoodRange), NEW i \in 1 .. Len(s),
         NEW a, NEW b, CutInto(s, i, a, b)
  PROVE  /\ a \in Seq(GoodRange) /\ b \in Seq(GoodRange)
         /\ s[i] \in GoodRange
         /\ Len(a) = i - 1 /\ Len(b) = Len(s) - i
         /\ \A j \in 1 .. i - 1 : a[j] = s[j]
         /\ \A j \in 1 .. Len(s) - i : b[j] = s[i + j]
         /\ s = a \o One(s[i]) \o b
         /\ InThree(Names(s), Names(a), Hosts(s[i]), Names(b))
         /\ Total(s) = Total(a) + Count(s[i]) + Total(b)
<1>1. s = a \o One(s[i]) \o b
  <2>1. InThree(s, a, One(s[i]), b)
    BY CutHas
  <2> QED BY <2>1 DEF InThree
<1> QED BY <1>1, CutHas

\* An array in three parts.
LEMMA ThreeParts ==
  ASSUME NEW a \in Seq(GoodRange), NEW m \in Seq(GoodRange),
         NEW b \in Seq(GoodRange)
  PROVE  /\ a \o m \o b \in Seq(GoodRange)
         /\ Total(a \o m \o b) = Total(a) + Total(m) + Total(b)
         /\ Total(a) \in Nat /\ Total(m) \in Nat /\ Total(b) \in Nat
<1>1. a \o m \in Seq(GoodRange) /\ Total(a \o m) = Total(a) + Total(m)
  BY NamesCat
<1> QED BY <1>1, NamesCat, NamesAre

\* Putting a range of as many hosts in the place of another.
LEMMA ReplacedIs ==
  ASSUME NEW s \in Seq(GoodRange), NEW i \in 1 .. Len(s), NEW e \in GoodRange,
         Count(e) = Count(s[i])
  PROVE  /\ ReplaceAt(s, i, e) \in Seq(GoodRange)
         /\ Len(ReplaceAt(s, i, e)) = Len(s)
         /\ \A j \in 1 .. Len(s) :
              ReplaceAt(s, i, e)[j] = IF j = i THEN e ELSE s[j]
         /\ Total(ReplaceAt(s, i, e)) = Total(s)
<1> DEFINE q == ReplaceAt(s, i, e)
<1>1. /\ q \in Seq(GoodRange) /\ Len(q) = Len(s)
      /\ \A j \in 1 .. Len(s) : q[j] = IF j = i THEN e ELSE s[j]
  BY ExceptSeq DEF ReplaceAt
<1> HIDE DEF q
<1>9. PICK a, b, c, d : CutInto(s, i, a, b) /\ CutInto(q, i, c, d)
  BY DEF CutInto
<1>2. /\ a \in Seq(GoodRange) /\ b \in Seq(GoodRange)
      /\ Len(a) = i - 1 /\ Len(b) = Len(s) - i
      /\ \A j \in 1 .. i - 1 : a[j] = s[j]
      /\ \A j \in 1 .. Len(s) - i : b[j] = s[i + j]
      /\ Total(s) = Total(a) + Count(s[i]) + Total(b)
  <2>1. CutInto(s, i, a, b)
    BY <1>9
  <2> QED BY ONLY <2>1, CutHas, s \in Seq(GoodRange), i \in 1 .. Len(s)
<1>3. i \in 1 .. Len(q)
  BY <1>1
<1>4. /\ c \in Seq(GoodRange) /\ d \in Seq(GoodRange)
      /\ Len(c) = i - 1 /\ Len(d) = Len(q) - i
      /\ \A j \in 1 .. i - 1 : c[j] = q[j]
      /\ \A j \in 1 .. Len(q) - i : d[j] = q[i + j]
      /\ Total(q) = Total(c) + Count(q[i]) + Total(d)
  <2>1. q \in Seq(GoodRange) /\ CutInto(q, i, c, d)
    BY <1>1, <1>9
  <2> QED BY ONLY <2>1, <1>3, CutIs, SMTT(30)
<1>5. Len(s) \in Nat
  BY LenProperties
<1>6. a = c
  <2>1. \A j \in 1 .. i - 1 : a[j] = c[j]
    <3> SUFFICES ASSUME NEW j \in 1 .. i - 1 PROVE a[j] = c[j]
      OBVIOUS
    <3>1. j \in 1 .. Len(s) /\ j # i
      BY <1>5
    <3> QED BY <3>1, <1>1, <1>2, <1>4
  <2> QED BY <2>1, <1>2, <1>4, SeqEqual
<1>7. b = d
  <2>1. \A j \in 1 .. Len(s) - i : b[j] = d[j]
    <3> SUFFICES ASSUME NEW j \in 1 .. Len(s) - i PROVE b[j] = d[j]
      OBVIOUS
    <3>1. i + j \in 1 .. Len(s) /\ i + j # i
      BY <1>5
    <3> QED BY <3>1, <1>1, <1>2, <1>4
  <2> QED BY <2>1, <1>1, <1>2, <1>4, SeqEqual, ZenonT(60)
<1>8. q[i] = e
  BY <1>1
<1> QED BY <1>1, <1>2, <1>4, <1>6, <1>7, <1>8 DEF q

\* An array without its last range.
LEMMA FrontLast ==
  ASSUME NEW s \in Seq(GoodRange), s # <<>>
  PROVE  /\ Front(s) \in Seq(GoodRange) /\ Last(s) \in GoodRange
         /\ Len(s) \in Nat /\ Len(s) >= 1 /\ Last(s) = s[Len(s)]
         /\ Len(Front(s)) = Len(s) - 1
         /\ \A i \in 1 .. Len(s) - 1 : Front(s)[i] = s[i]
         /\ s = Append(Front(s), Last(s))
         /\ Total(s) = Total(Front(s)) + Count(Last(s))
         /\ Total(Front(s)) \in Nat
<1>1. Len(s) \in Nat /\ Len(s) >= 1
  BY EmptySeq
<1>2. /\ Front(s) \in Seq(GoodRange)
      /\ Len(Front(s)) = Len(s) - 1
      /\ \A i \in 1 .. Len(s) - 1 : Front(s)[i] = s[i]
  <2>1. Len(s) - 1 \in Nat /\ Len(s) - 1 =< Len(s) /\ 1 \in Nat
    BY <1>1
  <2>2. /\ Front(s) \in Seq(GoodRange)
        /\ Len(Front(s)) = IF 1 =< Len(s) - 1 THEN (Len(s) - 1) - 1 + 1 ELSE 0
        /\ \A i \in 1 .. (Len(s) - 1) - 1 + 1 : Front(s)[i] = s[1 + i - 1]
    <3>1. Front(s) = SubSeq(s, 1, Len(s) - 1)
      BY DEF Front
    <3> QED BY <2>1, <3>1, PartIs
  <2>3. ASSUME NEW i \in 1 .. Len(s) - 1 PROVE Front(s)[i] = s[i]
    <3>1. i \in 1 .. (Len(s) - 1) - 1 + 1 /\ 1 + i - 1 = i
      BY <2>1
    <3> QED BY <2>2, <3>1
  <2>4. Len(Front(s)) = Len(s) - 1
    <3>1. PICK n \in Nat : n = Len(s)
      BY <1>1
    <3>2. n >= 1 /\ Len(Front(s)) = IF 1 =< n - 1 THEN (n - 1) - 1 + 1 ELSE 0
      BY <3>1, <2>2, <1>1
    <3>3. Len(Front(s)) = n - 1
      BY <3>2
    <3> QED BY <3>1, <3>3
  <2> QED BY <2>2, <2>3, <2>4
<1>3. Last(s) \in GoodRange
  <2>1. Len(s) \in 1 .. Len(s)
    BY <1>1
  <2> QED BY <2>1, ElementOfSeq DEF Last
<1>4. s = Append(Front(s), Last(s))
  <2>1. PICK t \in Seq(GoodRange), e \in GoodRange : s = Append(t, e)
    BY SequenceEmptyOrAppend
  <2>2. Len(s) = Len(t) + 1 /\ (\A i \in 1 .. Len(t) : s[i] = t[i])
         /\ s[Len(t) + 1] = e /\ Len(t) \in Nat
    BY <2>1, AppendProperties
  <2>3. Last(s) = e
    BY <2>2 DEF Last
  <2>4. Len(Front(s)) = Len(t) /\ \A i \in 1 .. Len(t) : Front(s)[i] = t[i]
    BY <2>2, <1>2
  <2>5. Front(s) = t
    BY <2>4, <1>2, SeqEqual
  <2> QED BY <2>1, <2>3, <2>5
<1>5. Total(Append(Front(s), Last(s))) = Total(Front(s)) + Count(Last(s))
  BY <1>2, <1>3, NamesOne
<1> QED BY <1>1, <1>2, <1>3, <1>4, <1>5, NamesAre DEF Last

\* The first hosts of an array.
LEMMA BeforeIs ==
  ASSUME NEW s \in Seq(GoodRange), NEW i \in 1 .. Len(s) + 1
  PROVE  /\ Before(s, i) = Total(SubSeq(s, 1, i - 1))
         /\ Before(s, i) \in Nat
<1> DEFINE t(k) == Total(SubSeq(s, 1, k - 1))
           Is(f) == f = [k \in 1 .. i |-> IF k = 1 THEN 0
                                          ELSE f[k - 1] + Count(s[k - 1])]
           f == CHOOSE f : Is(f)
           p == [k \in 1 .. i |-> t(k)]
<1>0. Len(s) \in Nat
  BY LenProperties
<1>1. t(1) = 0
  <2>1. SubSeq(s, 1, 1 - 1) = <<>>
    BY SubSeqEmpty
  <2> QED BY <2>1, NamesNone
<1>2. ASSUME NEW k \in 2 .. i
      PROVE  t(k) = t(k - 1) + Count(s[k - 1])
  <2> DEFINE j == k - 1
  <2>1. j \in 1 .. Len(s)
    BY <1>0
  <2>2. 1 \in 1 .. Len(s)
    BY <2>1, <1>0
  <2>3. SubSeq(s, 1, j) = SubSeq(s, 1, j - 1) \o One(s[j])
    BY <2>1, <2>2, SubSeqRecursiveSecond DEF One
  <2>4. s[j] \in GoodRange /\ SubSeq(s, 1, j - 1) \in Seq(GoodRange)
    <3>1. PICK a, b : CutInto(s, j, a, b)
      BY DEF CutInto
    <3> HIDE DEF j
    <3>2. s[j] \in GoodRange /\ a \in Seq(GoodRange)
      BY <2>1, <3>1, CutIs
    <3> QED BY <3>1, <3>2 DEF CutInto
  <2>5. Total(SubSeq(s, 1, j)) = Total(SubSeq(s, 1, j - 1)) + Count(s[j])
    BY <2>3, <2>4, NamesCat, TotalOf, ZenonT(60)
  <2> QED BY <2>5
<1> HIDE DEF t
<1>3. Is(p)
  <2>1. ASSUME NEW k \in 1 .. i
        PROVE  p[k] = IF k = 1 THEN 0 ELSE p[k - 1] + Count(s[k - 1])
    <3>1. CASE k = 1
      BY <3>1, <1>1
    <3>2. CASE k # 1
      <4>1. k \in 2 .. i /\ k - 1 \in 1 .. i
        BY <3>2
      <4> QED BY <4>1, <3>2, <1>2
    <3> QED BY <3>1, <3>2
  <2> QED BY <2>1
<1> HIDE DEF p
<1>4. Is(f)
  <2> HIDE DEF Is
  <2> QED BY <1>3
<1>5. Before(s, i) = f[i]
  BY DEF Before
<1> HIDE DEF f
<1> DEFINE T == {k \in Nat : k + 1 =< i => f[k + 1] = t(k + 1)}
<1>6. 0 \in T
  <2>1. 1 \in 1 .. i
    BY <1>0
  <2>2. f[1] = 0
    BY <2>1, <1>4
  <2> QED BY <2>2, <1>1
<1>7. ASSUME NEW k \in Nat, k \in T PROVE k + 1 \in T
  <2> SUFFICES ASSUME (k + 1) + 1 =< i PROVE f[(k + 1) + 1] = t((k + 1) + 1)
    OBVIOUS
  <2>1. PICK j : j = (k + 1) + 1
    OBVIOUS
  <2>2. j \in 2 .. i /\ j \in 1 .. i /\ j # 1 /\ j - 1 = k + 1 /\ k + 1 =< i
    BY <2>1
  <2>3. f[j] = f[j - 1] + Count(s[j - 1])
    BY <2>2, <1>4
  <2>4. f[k + 1] = t(k + 1)
    BY <2>2, <1>7
  <2>5. f[j] = t(j)
    BY <2>2, <2>3, <2>4, <1>2
  <2> QED BY <2>1, <2>5
<1> HIDE DEF T
<1>8. i - 1 \in T
  <2>1. \A k \in Nat : k \in T => k + 1 \in T
    BY <1>7
  <2>2. i - 1 \in Nat
    BY <1>0
  <2> QED BY <2>1, <2>2, <1>6, Induction
<1>9. f[i] = t(i)
  <2>1. (i - 1) + 1 = i
    BY <1>0
  <2> QED BY <1>8, <2>1 DEF T
<1>10. SubSeq(s, 1, i - 1) \in Seq(GoodRange)
  <2>1. i - 1 \in Nat /\ i - 1 =< Len(s) /\ 1 \in Nat
    BY <1>0
  <2> QED BY <2>1, PartIs
<1> QED BY <1>5, <1>9, <1>10, NamesAre DEF t

\* Hosts are counted from range to range.
LEMMA BeforeNext ==
  ASSUME NEW s \in Seq(GoodRange), NEW i \in 1 .. Len(s)
  PROVE  /\ Before(s, i + 1) = Before(s, i) + Count(s[i])
         /\ Before(s, i + 1) =< Total(s)
         /\ Before(s, 1) = 0 /\ Before(s, Len(s) + 1) = Total(s)
<1>0. Len(s) \in Nat
  BY LenProperties
<1>1. i \in 1 .. Len(s) + 1 /\ i + 1 \in 1 .. Len(s) + 1
       /\ 1 \in 1 .. Len(s) + 1 /\ Len(s) + 1 \in 1 .. Len(s) + 1
       /\ 1 \in 1 .. Len(s)
  BY <1>0
<1>10. PICK a, b : CutInto(s, i, a, b)
  BY DEF CutInto
<1>2. /\ a \in Seq(GoodRange) /\ b \in Seq(GoodRange) /\ s[i] \in GoodRange
      /\ Total(s) = Total(a) + Count(s[i]) + Total(b)
  BY <1>10, CutIs
<1>3. SubSeq(s, 1, i) = a \o One(s[i])
  BY <1>1, <1>10, SubSeqRecursiveSecond DEF CutInto, One
<1>4. Total(SubSeq(s, 1, i)) = Total(a) + Count(s[i])
  BY <1>2, <1>3, NamesCat, TotalOf, ZenonT(60)
<1>5. SubSeq(s, 1, (i + 1) - 1) = SubSeq(s, 1, i)
  BY <1>0
<1>6. Before(s, i + 1) = Total(SubSeq(s, 1, i)) /\ Before(s, i) = Total(a)
  BY <1>1, <1>5, <1>10, BeforeIs DEF CutInto
<1>7. Before(s, 1) = 0
  <2>1. SubSeq(s, 1, 1 - 1) = <<>>
    BY SubSeqEmpty
  <2> QED BY <1>1, <2>1, BeforeIs, NamesNone
<1>8. Before(s, Len(s) + 1) = Total(s)
  <2>1. SubSeq(s, 1, (Len(s) + 1) - 1) = s
    BY <1>0, SubSeqFull
  <2> QED BY <1>1, <2>1, BeforeIs
<1>9. Total(a) \in Nat /\ Total(b) \in Nat /\ Count(s[i]) \in Nat
  BY <1>2, NamesAre, CountIs
<1> QED BY <1>2, <1>4, <1>6, <1>7, <1>8, <1>9

\* Each host is in one of the ranges.
LEMMA Around ==
  ASSUME NEW s \in Seq(GoodRange), NEW n \in Nat, n < Total(s)
  PROVE  \E i \in 1 .. Len(s) : Before(s, i) =< n /\ n < Before(s, i + 1)
<1>0. Len(s) \in Nat /\ Len(s) >= 1
  <2>1. s # <<>>
    BY NamesNone
  <2> QED BY <2>1, EmptySeq
<1> DEFINE T == {i \in Nat : i >= 1 /\ i =< Len(s) /\ n < Before(s, i + 1)}
<1>1. Len(s) \in T
  <2>1. Before(s, Len(s) + 1) = Total(s)
    <3>1. 1 \in 1 .. Len(s)
      BY <1>0
    <3> QED BY <3>1, BeforeNext
  <2> QED BY <1>0, <2>1
<1>2. T \in SUBSET Nat /\ T # {}
  BY <1>1
<1>3. PICK i \in T : \A j \in T : i =< j
  <2> HIDE DEF T
  <2> QED BY <1>2, NatMin
<1>4. i \in 1 .. Len(s) /\ n < Before(s, i + 1)
  BY <1>0
<1>5. Before(s, i) =< n
  <2>1. CASE i = 1
    BY <2>1, <1>4, BeforeNext
  <2>2. CASE i # 1
    <3>1. i - 1 \in Nat /\ i - 1 >= 1 /\ i - 1 =< Len(s) /\ (i - 1) + 1 = i
           /\ ~ (i =< i - 1)
      BY <2>2, <1>4, <1>0
    <3>2. i - 1 \notin T
      BY <3>1, <1>3
    <3>3. ~ (n < Before(s, i))
      BY <3>1, <3>2
    <3>4. Before(s, i) \in Nat
      <4>1. i \in 1 .. Len(s) + 1
        BY <1>4, <1>0
      <4> QED BY <4>1, BeforeIs
    <3> QED BY <3>3, <3>4
  <2> QED BY <2>1, <2>2
<1> QED BY <1>4, <1>5

\* The first i ranges are the first i - 1 and range i.
LEMMA UptoNext ==
  ASSUME NEW s \in Seq(GoodRange), NEW i \in 1 .. Len(s)
  PROVE  /\ SubSeq(s, 1, i) = Append(SubSeq(s, 1, i - 1), s[i])
         /\ SubSeq(s, 1, i - 1) \in Seq(GoodRange)
         /\ Total(SubSeq(s, 1, i)) = Total(SubSeq(s, 1, i - 1)) + Count(s[i])
         /\ Total(SubSeq(s, 1, i - 1)) \in Nat /\ Count(s[i]) \in Nat
<1>1. PICK a, b : CutInto(s, i, a, b)
  BY DEF CutInto
<1>2. a \in Seq(GoodRange) /\ s[i] \in GoodRange
  BY <1>1, CutIs
<1>3. SubSeq(s, 1, i) = a \o One(s[i])
  <2>1. 1 \in 1 .. Len(s)
    OBVIOUS
  <2> QED BY <2>1, <1>1, SubSeqRecursiveSecond DEF CutInto, One
<1>4. a \o One(s[i]) = Append(a, s[i])
  BY <1>2, AppendIsConcat DEF One
<1>5. Total(Append(a, s[i])) = Total(a) + Count(s[i])
  BY <1>2, NamesOne
<1>6. Total(a) \in Nat /\ Count(s[i]) \in Nat
  BY <1>2, NamesAre, CountIs
<1>7. a = SubSeq(s, 1, i - 1)
  BY <1>1 DEF CutInto
<1> QED BY <1>2, <1>3, <1>4, <1>5, <1>6, <1>7

(***************************************************************************)
(* Folds, and what is pushed.                                              *)
(***************************************************************************)

\* f is what a fold from the left comes to after the elements of a set, as long
\* as that stays in V, and h is what it comes to after each element.
FoldsTo(f, b, D, s, V) ==
  /\ f[{}] = b
  /\ \A S \in SUBSET DOMAIN s :
       S # {} /\ f[S \ {Max(S)}] \in V
         => f[S] = D[<<f[S \ {Max(S)}], s[Max(S)]>>]

Runs(h, b, D, s) ==
  h[0] = b /\ \A k \in 1 .. Len(s) : h[k] = D[<<h[k - 1], s[k]>>]

RunsTo(v, b, D, s, V) ==
  \E h \in [0 .. Len(s) -> V] : Runs(h, b, D, s) /\ h[Len(s)] = v

\* The largest of the numbers up to n.
LEMMA MaxIs ==
  ASSUME NEW n \in Nat, n >= 1
  PROVE  Max(1 .. n) = n /\ (1 .. n) \ {n} = 1 .. n - 1
<1>1. n \in 1 .. n /\ \A y \in 1 .. n : n >= y
  OBVIOUS
<1>2. Max(1 .. n) \in 1 .. n /\ \A y \in 1 .. n : Max(1 .. n) >= y
  BY <1>1 DEF Max
<1>3. Max(1 .. n) = n
  BY <1>1, <1>2
<1> QED BY <1>3

\* The largest place of a set of places has an element.
LEMMA MaxOf ==
  ASSUME NEW E, NEW s \in Seq(E), NEW S \in SUBSET DOMAIN s, S # {}
  PROVE  Max(S) \in S /\ s[Max(S)] \in E
<1>1. Len(s) \in Nat /\ DOMAIN s = 1 .. Len(s)
  BY LenProperties
<1> DEFINE n == Len(s)
           T == {n - x : x \in S}
<1> HIDE DEF n
<1>2. \A x \in S : x \in Int /\ x =< n /\ n - x \in Nat
  BY <1>1 DEF n
<1>3. T \in SUBSET Nat /\ T # {}
  BY <1>2
<1>4. PICK t \in T : \A u \in T : t =< u
  <2> HIDE DEF T
  <2> QED BY <1>3, NatMin
<1>5. PICK x \in S : t = n - x
  OBVIOUS
<1>6. \A y \in S : n - x =< n - y
  BY <1>4, <1>5
<1>7. n \in Nat
  BY <1>1 DEF n
<1>8. \A y \in S : x >= y
  BY ONLY <1>2, <1>6, <1>7
<1>9. Max(S) \in S
  BY <1>8 DEF Max
<1>10. Max(S) \in 1 .. Len(s)
  BY <1>1, <1>9
<1> QED BY <1>9, <1>10, ElementOfSeq

\* The fold comes to what a run over the elements in order comes to.
LEMMA FoldRuns ==
  ASSUME NEW V, NEW b \in V, NEW E, NEW s \in Seq(E), NEW D,
         D \in [V \X E -> V], NEW f, FoldsTo(f, b, D, s, V)
  PROVE  RunsTo(f[DOMAIN s], b, D, s, V)
<1> DEFINE N == Len(s)
           h == [k \in 0 .. N |-> f[1 .. k]]
           T == {k \in Nat : k =< N => f[1 .. k] \in V}
<1>1. N \in Nat /\ DOMAIN s = 1 .. N /\ \A k \in 1 .. N : s[k] \in E
  OBVIOUS
<1> HIDE DEF N
<1>2. f[1 .. 0] = b
  <2>1. 1 .. 0 = {}
    OBVIOUS
  <2> QED BY <2>1 DEF FoldsTo
<1>3. ASSUME NEW k \in 1 .. N, f[1 .. k - 1] \in V
      PROVE  f[1 .. k] = D[<<f[1 .. k - 1], s[k]>>] /\ f[1 .. k] \in V
  <2>1. k \in Nat /\ k >= 1 /\ 1 .. k \in SUBSET (1 .. N) /\ 1 .. k # {}
    <3>1. k \in Nat /\ k >= 1 /\ k =< N /\ k \in 1 .. k
      BY <1>1
    <3>2. 1 .. k \in SUBSET (1 .. N)
      BY <3>1, <1>1
    <3> QED BY <3>1, <3>2
  <2>2. Max(1 .. k) = k /\ (1 .. k) \ {k} = 1 .. k - 1
    BY <2>1, MaxIs
  <2>3. f[1 .. k] = D[<<f[1 .. k - 1], s[k]>>]
    BY <2>1, <2>2, <1>1, <1>3 DEF FoldsTo
  <2>4. s[k] \in E
    BY <1>1
  <2> QED BY <2>3, <2>4, <1>3
<1>4. 0 \in T
  BY <1>2
<1>5. ASSUME NEW k \in Nat, k \in T PROVE k + 1 \in T
  <2> SUFFICES ASSUME k + 1 =< N PROVE f[1 .. k + 1] \in V
    OBVIOUS
  <2>1. k + 1 \in 1 .. N /\ (k + 1) - 1 = k /\ k =< N
    BY <1>1
  <2>2. f[1 .. k] \in V
    BY <2>1, <1>5
  <2> QED BY <2>1, <2>2, <1>3
<1> HIDE DEF T
<1>6. \A k \in Nat : k \in T
  <2>1. \A k \in Nat : k \in T => k + 1 \in T
    BY <1>5
  <2> QED BY <2>1, <1>4, Induction
<1>7. \A k \in 0 .. N : f[1 .. k] \in V
  BY <1>6, <1>1 DEF T
<1>8. h \in [0 .. N -> V]
  BY <1>7
<1>9. h[0] = b
  BY <1>1, <1>2
<1>10. ASSUME NEW k \in 1 .. N PROVE h[k] = D[<<h[k - 1], s[k]>>]
  <2>1. k - 1 \in 0 .. N /\ k \in 0 .. N
    BY <1>1
  <2>2. h[k] = f[1 .. k] /\ h[k - 1] = f[1 .. k - 1]
    BY <2>1
  <2>3. f[1 .. k - 1] \in V
    BY <2>1, <1>7
  <2> QED BY <2>2, <2>3, <1>3
<1>11. h[N] = f[1 .. N]
  BY <1>1
<1> HIDE DEF h
<1>12. Runs(h, b, D, s)
  BY <1>9, <1>10 DEF Runs, N
<1>13. h \in [0 .. Len(s) -> V] /\ h[Len(s)] = f[DOMAIN s]
  BY <1>8, <1>11, <1>1 DEF N
<1> QED BY <1>12, <1>13 DEF RunsTo

\* A list whose number of hosts is right.
ListType == [hr : Seq(GoodRange), nhosts : Int]

Whole(l) == l \in ListType /\ l.nhosts = Total(l.hr)

\* hostlist_new() makes one.
LEMMA EmptyWhole == Whole(Empty)
<1>1. <<>> \in Seq(GoodRange)
  BY EmptySeq
<1> QED BY <1>1, NamesNone DEF Whole, ListType, Empty

\* The fields of a list.
LEMMA ListIs ==
  ASSUME NEW l \in ListType
  PROVE  /\ l.hr \in Seq(GoodRange) /\ l.nhosts \in Int
         /\ l = [hr |-> l.hr, nhosts |-> l.nhosts]
BY DEF ListType

\* What pushing does: p is the list that r was pushed on and what r is then.
PushedAs(p, l, r) ==
  /\ p.list \in ListType /\ p.range \in GoodRange
  /\ p.list.nhosts = l.nhosts + Count(r)
  /\ Total(p.list.hr) = Total(l.hr) + Count(r)
  /\ p.range.lo = r.lo /\ p.range.hi = r.hi /\ p.range.single = r.single

\* hostlist_push_range() adds a range, or joins it with the last.
LEMMA PushRangeIs ==
  ASSUME NEW l \in ListType, NEW r \in GoodRange
  PROVE  PushedAs(PushRange(l, r), l, r)
<1>1. l.hr \in Seq(GoodRange) /\ l.nhosts \in Int /\ Count(r) \in Nat
  BY ListIs, CountIs
<1>2. ASSUME PushRange(l, r) = Added(l, r)
      PROVE  PushedAs(PushRange(l, r), l, r)
  <2>1. Append(l.hr, r) \in Seq(GoodRange)
         /\ Total(Append(l.hr, r)) = Total(l.hr) + Count(r)
    BY <1>1, AppendProperties, NamesOne
  <2>2. PushRange(l, r)
          = [list |-> [hr |-> Append(l.hr, r), nhosts |-> l.nhosts + Count(r)],
             range |-> r]
    BY <1>2 DEF Added
  <2> DEFINE h == Append(l.hr, r)
             n == l.nhosts + Count(r)
  <2>3. h \in Seq(GoodRange) /\ Total(h) = Total(l.hr) + Count(r) /\ n \in Int
    BY <2>1, <1>1
  <2> HIDE DEF h, n
  <2>4. PushRange(l, r) = [list |-> [hr |-> h, nhosts |-> n], range |-> r]
    BY <2>2 DEF h, n
  <2>5. PushRange(l, r).list = [hr |-> h, nhosts |-> n]
         /\ PushRange(l, r).range = r
    BY <2>4
  <2>6. PushRange(l, r).list \in ListType
    BY <2>3, <2>5 DEF ListType
  <2>7. n = l.nhosts + Count(r)
    BY DEF n
  <2> QED BY <2>3, <2>5, <2>6, <2>7 DEF PushedAs
<1>3. ASSUME l.hr # <<>>, Adjoins(Last(l.hr), r), Combines(Last(l.hr), r),
             PushRange(l, r) = Merged(l, r, Combine(Last(l.hr), r))
      PROVE  PushedAs(PushRange(l, r), l, r)
  <2>1. PICK q \in GoodRange : q = Last(l.hr)
    BY <1>1, <1>3, FrontLast
  <2>2. PICK c : c = Combine(q, r)
    OBVIOUS
  <2>3. /\ c.left \in GoodRange /\ c.right \in GoodRange
        /\ c.left.lo = q.lo /\ c.left.hi = q.hi /\ c.left.single = q.single
        /\ c.right.lo = r.lo /\ c.right.hi = r.hi
        /\ c.right.single = r.single
    BY <2>2, CombineKeeps
  <2>4. q.single = r.single /\ q.hi = r.lo - 1
    BY <1>3, <2>1 DEF Adjoins, Alike
  <2>5. ~ q.single
    <3>1. q.single => q.hi = 0 /\ r.lo = 0
      BY <2>4, GoodIs
    <3> QED BY <3>1, <2>4
  <2> DEFINE e == [c.left EXCEPT !.hi = r.hi]
  <2>6. /\ q.lo \in Nat /\ q.hi \in Nat /\ q.lo =< q.hi
        /\ r.lo \in Nat /\ r.hi \in Nat /\ r.lo =< r.hi
    BY GoodIs
  <2>7. e = [prefix |-> c.left.prefix, lo |-> q.lo, hi |-> r.hi,
             width |-> c.left.width, single |-> q.single]
    BY <2>3, GoodIs
  <2>8. e \in GoodRange
    <3>1. c.left.prefix \in Name /\ c.left.width \in Nat
           /\ q.single \in BOOLEAN /\ q.lo =< r.hi
      BY <2>3, <2>4, <2>6, GoodIs
    <3> QED BY <3>1, <2>5, <2>6, <2>7 DEF GoodRange, HostRangeType
  <2>9. Count(e) = Count(q) + Count(r)
    <3>1. Count(e) = e.hi - e.lo + 1 /\ Count(q) = q.hi - q.lo + 1
           /\ Count(r) = r.hi - r.lo + 1
      BY <2>8, CountIs
    <3> QED BY <3>1, <2>4, <2>6, <2>7
  <2> HIDE DEF e
  <2>10. Front(l.hr) \in Seq(GoodRange) /\ Total(Front(l.hr)) \in Nat
          /\ Total(l.hr) = Total(Front(l.hr)) + Count(q)
    BY <1>1, <1>3, <2>1, FrontLast
  <2>11. Append(Front(l.hr), e) \in Seq(GoodRange)
          /\ Total(Append(Front(l.hr), e)) = Total(Front(l.hr)) + Count(e)
    BY <2>8, <2>10, AppendProperties, NamesOne
  <2>12. Count(q) \in Nat
    BY CountIs
  <2>13. Total(Append(Front(l.hr), e)) = Total(l.hr) + Count(r)
    BY <2>9, <2>10, <2>11, <2>12, <1>1
  <2>14. PushRange(l, r)
           = [list |-> [hr |-> Append(Front(l.hr), e),
                        nhosts |-> l.nhosts + Count(r)],
              range |-> c.right]
    BY <1>3, <2>1, <2>2 DEF Merged, e
  <2> DEFINE h == Append(Front(l.hr), e)
             n == l.nhosts + Count(r)
  <2>15. h \in Seq(GoodRange) /\ Total(h) = Total(l.hr) + Count(r) /\ n \in Int
    BY <2>11, <2>13, <1>1
  <2> HIDE DEF h, n
  <2>16. PushRange(l, r) = [list |-> [hr |-> h, nhosts |-> n],
                            range |-> c.right]
    BY <2>14 DEF h, n
  <2>17. PushRange(l, r).list = [hr |-> h, nhosts |-> n]
          /\ PushRange(l, r).range = c.right
    BY <2>16
  <2>18. PushRange(l, r).list \in ListType
    BY <2>15, <2>17 DEF ListType
  <2>19. n = l.nhosts + Count(r)
    BY DEF n
  <2> QED BY <2>3, <2>15, <2>17, <2>18, <2>19 DEF PushedAs
<1> QED BY <1>2, <1>3 DEF PushRange

\* What is pushed is added to the hosts of the list, and counted.
LEMMA PushAllIs ==
  ASSUME NEW l \in ListType, NEW m, m.hr \in Seq(GoodRange)
  PROVE  /\ PushAll(l, m).to \in ListType
         /\ PushAll(l, m).to.nhosts = l.nhosts + Total(m.hr)
         /\ Total(PushAll(l, m).to.hr) = Total(l.hr) + Total(m.hr)
<1> DEFINE V == [to : ListType, from : Seq(GoodRange)]
           E == GoodRange
           s == m.hr
           b == [to |-> l, from |-> <<>>]
           pushed(p, q) == [to |-> q.list, from |-> Append(p.from, q.range)]
           step(p, r) == pushed(p, PushRange(p.to, r))
           D == [x \in V \X E |-> step(x[1], x[2])]
           Is(f) == f = [S \in SUBSET DOMAIN s |->
                           IF S = {} THEN b
                           ELSE step(f[S \ {Max(S)}], s[Max(S)])]
           f == CHOOSE f : Is(f)
<1>1. b \in V /\ s \in Seq(E)
  <2>1. <<>> \in Seq(GoodRange)
    BY EmptySeq
  <2> QED BY <2>1
<1>2. ASSUME NEW p \in V, NEW r \in E
      PROVE  /\ step(p, r) \in V
             /\ step(p, r).to.nhosts = p.to.nhosts + Count(r)
             /\ Total(step(p, r).to.hr) = Total(p.to.hr) + Count(r)
  <2>1. p.to \in ListType /\ p.from \in Seq(GoodRange)
    OBVIOUS
  <2>2. PICK q : q = PushRange(p.to, r) /\ PushedAs(q, p.to, r)
    BY <2>1, PushRangeIs
  <2>3. Append(p.from, q.range) \in Seq(GoodRange)
    BY <2>1, <2>2, AppendProperties DEF PushedAs
  <2>4. step(p, r) = [to |-> q.list, from |-> Append(p.from, q.range)]
    BY <2>2
  <2> HIDE DEF step
  <2> QED BY <2>2, <2>3, <2>4 DEF PushedAs
<1>3. PushAll(l, m) = f[DOMAIN s]
  BY DEF PushAll, FoldLeft, MapThenFoldSet
<1> HIDE DEF step, b
<1>4. D \in [V \X E -> V]
  <2>1. \A x \in V \X E : step(x[1], x[2]) \in V
    BY <1>2
  <2> QED BY <2>1
<1>5. \A p \in V, r \in E : D[<<p, r>>] = step(p, r)
  OBVIOUS
<1>6. \A S \in SUBSET DOMAIN s : S # {} => s[Max(S)] \in E
  BY <1>1, MaxOf
<1> HIDE DEF D, V, E
<1>7. Is(f)
  <2>1. PICK g \in [SUBSET DOMAIN s -> V] : Folded(g, b, D, s)
    BY <1>1, <1>4, FoldsSet
  <2>2. ASSUME NEW S \in SUBSET DOMAIN s
        PROVE  g[S] = IF S = {} THEN b
                      ELSE step(g[S \ {Max(S)}], s[Max(S)])
    <3>1. CASE S = {}
      BY <3>1, <2>1 DEF Folded
    <3>2. CASE S # {}
      <4>1. g[S] = D[<<g[S \ {Max(S)}], s[Max(S)]>>]
        BY <3>2, <2>1 DEF Folded
      <4>2. S \ {Max(S)} \in SUBSET DOMAIN s
        OBVIOUS
      <4>3. g[S \ {Max(S)}] \in V /\ s[Max(S)] \in E
        BY <4>2, <2>1, <1>6, <3>2
      <4> QED BY <4>1, <4>3, <1>5, <3>2
    <3> QED BY <3>1, <3>2
  <2>3. Is(g)
    BY <2>1, <2>2
  <2> HIDE DEF Is
  <2> QED BY <2>3
<1> HIDE DEF f
<1>8. FoldsTo(f, b, D, s, V)
  <2>1. f[{}] = b
    BY <1>7
  <2>2. ASSUME NEW S \in SUBSET DOMAIN s, S # {}, f[S \ {Max(S)}] \in V
        PROVE  f[S] = D[<<f[S \ {Max(S)}], s[Max(S)]>>]
    BY <2>2, <1>5, <1>6, <1>7
  <2> HIDE DEF s
  <2> QED BY <2>1, <2>2 DEF FoldsTo
<1> HIDE DEF s
<1>17. RunsTo(f[DOMAIN s], b, D, s, V)
  BY <1>1, <1>4, <1>8, FoldRuns
<1>9. PICK h \in [0 .. Len(s) -> V] :
        Runs(h, b, D, s) /\ h[Len(s)] = f[DOMAIN s]
  BY <1>17 DEF RunsTo
<1> DEFINE C(k) == /\ h[k].to.nhosts = l.nhosts + Total(SubSeq(s, 1, k))
                   /\ Total(h[k].to.hr) = Total(l.hr) + Total(SubSeq(s, 1, k))
           T == {k \in Nat : k =< Len(s) => C(k)}
<1>10. Len(s) \in Nat /\ l.nhosts \in Int /\ Total(l.hr) \in Nat
  BY <1>1, ListIs, NamesAre DEF E
<1>11. 0 \in T
  <2>1. SubSeq(s, 1, 0) = <<>>
    BY SubSeqEmpty
  <2>2. h[0].to = l
    BY <1>9 DEF Runs, b
  <2>3. Total(SubSeq(s, 1, 0)) = 0
    BY <2>1, NamesNone
  <2>4. C(0)
    BY <2>2, <2>3, <1>10
  <2> HIDE DEF C
  <2> QED BY <2>4
<1>12. ASSUME NEW k \in Nat, k \in T PROVE k + 1 \in T
  <2> SUFFICES ASSUME k + 1 =< Len(s) PROVE C(k + 1)
    OBVIOUS
  <2>1. k + 1 \in 1 .. Len(s) /\ k \in 0 .. Len(s) /\ (k + 1) - 1 = k
    BY <1>10
  <2>2. C(k)
    BY <2>1, <1>12
  <2> HIDE DEF s
  <2>3. h[k + 1] = D[<<h[k], s[k + 1]>>]
    BY <2>1, <1>9 DEF Runs
  <2>4. h[k] \in V /\ s[k + 1] \in E
    BY <2>1, <1>1, ElementOfSeq
  <2>5. h[k + 1] = step(h[k], s[k + 1])
    BY <2>3, <2>4, <1>5
  <2>6. /\ h[k + 1].to.nhosts = h[k].to.nhosts + Count(s[k + 1])
        /\ Total(h[k + 1].to.hr) = Total(h[k].to.hr) + Count(s[k + 1])
    BY <2>4, <2>5, <1>2
  <2>7. Total(SubSeq(s, 1, k + 1)) = Total(SubSeq(s, 1, k)) + Count(s[k + 1])
         /\ Total(SubSeq(s, 1, k)) \in Nat /\ Count(s[k + 1]) \in Nat
    BY <2>1, <1>1, UptoNext DEF E
  <2> QED BY <2>2, <2>6, <2>7, <1>10
<1> HIDE DEF T
<1>13. C(Len(s))
  <2>1. \A k \in Nat : k \in T => k + 1 \in T
    BY <1>12
  <2>2. Len(s) \in T
    BY <2>1, <1>10, <1>11, Induction
  <2> QED BY <2>2, <1>10 DEF T
<1>14. SubSeq(s, 1, Len(s)) = s
  BY <1>1, SubSeqFull
<1>15. h[Len(s)] \in V
  BY <1>10
<1>16. h[Len(s)].to \in ListType
  BY <1>15 DEF V
<1> QED BY <1>3, <1>9, <1>13, <1>14, <1>16 DEF s

(***************************************************************************)
(* What is read from a text.                                               *)
(***************************************************************************)

\* Products are numbers.
LEMMA Times ==
  ASSUME NEW a \in Nat, NEW b \in Nat
  PROVE  a * b \in Nat
OBVIOUS

\* What has been read after each digit.
Reading(h, s) ==
  h[0] = 0 /\ \A k \in 1 .. Len(s) : h[k] = h[k - 1] * Radix + s[k]

\* strtoul() reads digit by digit.
LEMMA ValueRuns ==
  ASSUME NEW s \in Seq(0 .. Radix - 1)
  PROVE  \E h \in [0 .. Len(s) -> Nat] : Reading(h, s) /\ Value(s) = h[Len(s)]
<1> DEFINE E == 0 .. Radix - 1
           step(n, d) == n * Radix + d
           D == [x \in Nat \X E |-> step(x[1], x[2])]
           Is(f) == f = [S \in SUBSET DOMAIN s |->
                           IF S = {} THEN 0
                           ELSE step(f[S \ {Max(S)}], s[Max(S)])]
           f == CHOOSE f : Is(f)
<1>1. Radix \in Nat /\ \A d \in E : d \in Nat
  BY RangeAssumption
<1>2. ASSUME NEW n \in Nat, NEW d \in E PROVE step(n, d) \in Nat
  <2>1. n * Radix \in Nat /\ d \in Nat
    BY <1>1, Times
  <2> QED BY <2>1
<1>3. Value(s) = f[DOMAIN s]
  BY DEF Value, FoldLeft, MapThenFoldSet
<1>4. s \in Seq(E)
  OBVIOUS
<1> HIDE DEF step, E
<1>5. D \in [Nat \X E -> Nat]
  <2>1. \A x \in Nat \X E : step(x[1], x[2]) \in Nat
    BY <1>2
  <2> QED BY <2>1
<1>6. \A n \in Nat, d \in E : D[<<n, d>>] = step(n, d)
  OBVIOUS
<1>7. \A S \in SUBSET DOMAIN s : S # {} => s[Max(S)] \in E
  BY <1>4, MaxOf
<1> HIDE DEF D
<1>8. Is(f)
  <2>1. PICK g \in [SUBSET DOMAIN s -> Nat] : Folded(g, 0, D, s)
    BY <1>4, <1>5, FoldsSet
  <2>2. ASSUME NEW S \in SUBSET DOMAIN s
        PROVE  g[S] = IF S = {} THEN 0
                      ELSE step(g[S \ {Max(S)}], s[Max(S)])
    <3>1. CASE S = {}
      BY <3>1, <2>1 DEF Folded
    <3>2. CASE S # {}
      <4>1. g[S] = D[<<g[S \ {Max(S)}], s[Max(S)]>>]
        BY <3>2, <2>1 DEF Folded
      <4>2. S \ {Max(S)} \in SUBSET DOMAIN s
        OBVIOUS
      <4>3. g[S \ {Max(S)}] \in Nat /\ s[Max(S)] \in E
        BY <4>2, <2>1, <1>7, <3>2
      <4> QED BY <4>1, <4>3, <1>6, <3>2
    <3> QED BY <3>1, <3>2
  <2>3. Is(g)
    BY <2>1, <2>2
  <2> HIDE DEF Is
  <2> QED BY <2>3
<1> HIDE DEF f
<1>9. FoldsTo(f, 0, D, s, Nat)
  <2>1. f[{}] = 0
    BY <1>8
  <2>2. ASSUME NEW S \in SUBSET DOMAIN s, S # {}, f[S \ {Max(S)}] \in Nat
        PROVE  f[S] = D[<<f[S \ {Max(S)}], s[Max(S)]>>]
    BY <2>2, <1>6, <1>7, <1>8
  <2> QED BY <2>1, <2>2 DEF FoldsTo
<1>10. RunsTo(f[DOMAIN s], 0, D, s, Nat)
  BY <1>4, <1>5, <1>9, FoldRuns
<1>11. PICK h \in [0 .. Len(s) -> Nat] :
         Runs(h, 0, D, s) /\ h[Len(s)] = f[DOMAIN s]
  BY <1>10 DEF RunsTo
<1>12. ASSUME NEW k \in 1 .. Len(s) PROVE h[k] = h[k - 1] * Radix + s[k]
  <2>1. s[k] \in E /\ k - 1 \in 0 .. Len(s)
    BY <1>4, LenProperties, ElementOfSeq
  <2>2. h[k] = D[<<h[k - 1], s[k]>>] /\ h[k - 1] \in Nat
    BY <1>11, <2>1 DEF Runs
  <2>3. h[k] = step(h[k - 1], s[k])
    BY <2>1, <2>2, <1>6
  <2> QED BY <2>3 DEF step
<1>13. h[0] = 0
  BY <1>11 DEF Runs
<1> QED BY <1>3, <1>11, <1>12, <1>13 DEF Reading

\* It reads a number.
LEMMA ValueIs ==
  ASSUME NEW s \in Seq(0 .. Radix - 1)
  PROVE  Value(s) \in Nat
<1>1. PICK h \in [0 .. Len(s) -> Nat] : Value(s) = h[Len(s)]
  BY ValueRuns
<1>2. Len(s) \in 0 .. Len(s)
  BY LenProperties
<1> QED BY <1>1, <1>2

\* The parts of a name.
LEMMA NameIs ==
  ASSUME NEW p \in Name
  PROVE  /\ p \in [base : Seq(Nat), digits : Seq(0 .. Radix - 1)]
         /\ p.base \in Seq(Nat) /\ p.digits \in Seq(0 .. Radix - 1)
         /\ p.base # <<>> => Last(p.base) >= Radix
         /\ Len(p.digits) \in Nat
BY DEF Name

\* The text in front of the digits is kept.
LEMMA OtherDigits ==
  ASSUME NEW p \in Name, NEW d \in Seq(0 .. Radix - 1)
  PROVE  [p EXCEPT !.digits = d] \in Name
<1>1. [p EXCEPT !.digits = d] = [base |-> p.base, digits |-> d]
  BY NameIs, Digits
<1> QED BY <1>1, NameIs DEF Name

\* h is a name cut into prefix and suffix.
CutName(h) ==
  /\ h.valid \in BOOLEAN /\ h.num \in Nat /\ h.prefix \in Name
  /\ h.suffix \in Seq(0 .. Radix - 1)

\* hostname_create_with_suffix() cuts a name that way.
LEMMA SplitIs ==
  ASSUME NEW p \in Name, NEW k \in 0 .. Len(p.digits)
  PROVE  /\ CutName(Split(p, k))
         /\ k = Len(p.digits) => ~ Split(p, k).valid
<1> DEFINE d == p.digits
           a == SubSeq(d, 1, k)
           b == SubSeq(d, k + 1, Len(d))
           B == 0 .. Radix - 1
<1>1. d \in Seq(B) /\ Len(d) \in Nat /\ k \in Nat /\ k =< Len(d)
  BY NameIs
<1> HIDE DEF B
<1>2. a \in Seq(B)
  <2>1. 1 \in Nat /\ k \in Nat /\ 1 =< 1 /\ k =< Len(d)
    BY <1>1
  <2> QED BY <1>1, <2>1, PartIs
<1>3. b \in Seq(B) /\ (k = Len(d) => b = <<>>)
  <2>1. k + 1 \in Nat /\ Len(d) \in Nat /\ 1 =< k + 1 /\ Len(d) =< Len(d)
    BY <1>1
  <2>2. b \in Seq(B)
    BY <1>1, <2>1, PartIs
  <2>3. k = Len(d) => b = <<>>
    BY <1>1, SubSeqEmpty
  <2> QED BY <2>2, <2>3
<1>4. Split(p, k) = SplitAt(p, a, b)
  BY DEF Split
<1> HIDE DEF a, b, d
<1>5. Value(b) \in Nat
  BY <1>3, ValueIs DEF B
<1>6. [p EXCEPT !.digits = a] \in Name
  BY <1>2, OtherDigits DEF B
<1>7. <<>> \in Seq(B)
  BY EmptySeq
<1>8. CASE b # <<>> /\ Value(b) <= MaxSuffix
  <2>1. SplitAt(p, a, b)
          = [name |-> p, valid |-> TRUE, num |-> Value(b),
             prefix |-> [p EXCEPT !.digits = a], suffix |-> b]
    BY <1>8 DEF SplitAt
  <2>2. CutName(SplitAt(p, a, b))
    BY <2>1, <1>3, <1>5, <1>6 DEF CutName, B
  <2> QED BY <2>2, <1>3, <1>4, <1>8 DEF d
<1>9. CASE ~ (b # <<>> /\ Value(b) <= MaxSuffix)
  <2>1. SplitAt(p, a, b)
          = [name |-> p, valid |-> FALSE, num |-> Value(b),
             prefix |-> p, suffix |-> <<>>]
    BY <1>9 DEF SplitAt
  <2>2. CutName(SplitAt(p, a, b)) /\ ~ SplitAt(p, a, b).valid
    BY <2>1, <1>5, <1>7 DEF CutName, B
  <2> QED BY <2>2, <1>4
<1> QED BY <1>8, <1>9

\* hostrange_create() makes a range that has a host, from bounds in order,
LEMMA NewRangeIs ==
  ASSUME NEW p \in Name, NEW lo \in Nat, NEW hi \in Nat, NEW w \in Nat,
         lo =< hi
  PROVE  NewRange(p, lo, hi, w) \in GoodRange
BY DEF NewRange, GoodRange, HostRangeType

\* and so does hostrange_create_single(),
LEMMA SingleIs ==
  ASSUME NEW p \in Name
  PROVE  Single(p) \in GoodRange
BY DEF Single, GoodRange, HostRangeType

\* and what a name pushed by itself becomes.
LEMMA HostRangeIs ==
  ASSUME NEW p \in Name
  PROVE  HostRange(p) \in GoodRange
<1>1. 0 \in 0 .. Len(p.digits)
  BY NameIs
<1>2. PICK h : h = Split(p, 0) /\ CutName(h)
  BY <1>1, SplitIs
<1>3. Len(h.suffix) \in Nat
  BY <1>2, LenProperties DEF CutName
<1>4. HostRange(p) = IF h.valid
                     THEN NewRange(h.prefix, h.num, h.num, Len(h.suffix))
                     ELSE Single(p)
  BY <1>2 DEF HostRange, Hostname
<1>5. NewRange(h.prefix, h.num, h.num, Len(h.suffix)) \in GoodRange
  BY <1>2, <1>3, NewRangeIs DEF CutName
<1> QED BY <1>4, <1>5, SingleIs

\* A name with a text behind it is a name.
LEMMA FollowedIs ==
  ASSUME NEW p \in Name, NEW t \in Name
  PROVE  Followed(p, t) \in Name
<1> DEFINE B == 0 .. Radix - 1
<1>1. CASE t.base = <<>>
  <2>1. p.digits \o t.digits \in Seq(B)
    <3>1. p.digits \in Seq(B) /\ t.digits \in Seq(B)
      BY NameIs
    <3> HIDE DEF B
    <3> QED BY <3>1, ConcatProperties
  <2>2. Followed(p, t) = [p EXCEPT !.digits = p.digits \o t.digits]
    BY <1>1 DEF Followed
  <2> QED BY <2>1, <2>2, OtherDigits
<1>2. CASE t.base # <<>>
  <2>1. t.base \in Seq(Nat) /\ Chars(p) \in Seq(Nat) /\ Len(t.base) \in Nat
         /\ Len(Chars(p)) \in Nat /\ Len(t.base) >= 1
    BY <1>2, NameIs, CharsAre, EmptySeq
  <2> DEFINE c == Chars(p) \o t.base
  <2>2. c \in Seq(Nat) /\ Len(c) = Len(Chars(p)) + Len(t.base)
         /\ c[Len(c)] = t.base[Len(t.base)]
    <3>1. PICK a, b : a = Chars(p) /\ b = t.base
      OBVIOUS
    <3>2. PICK m \in Nat, n \in Nat : m = Len(a) /\ n = Len(b) /\ n >= 1
      BY <2>1, <3>1
    <3>3. a \o b \in Seq(Nat) /\ Len(a \o b) = m + n
           /\ \A i \in 1 .. m + n : (a \o b)[i] = IF i <= m THEN a[i]
                                                  ELSE b[i - m]
      BY <2>1, <3>1, <3>2, ConcatProperties
    <3>4. (a \o b)[m + n] = b[n]
      <4>1. m + n \in 1 .. m + n /\ ~ (m + n <= m) /\ (m + n) - m = n
        BY <3>2
      <4> QED BY <4>1, <3>3
    <3> QED BY <3>1, <3>2, <3>3, <3>4
  <2>3. Last(c) >= Radix
    BY <2>2, <1>2, NameIs DEF Last
  <2>4. Followed(p, t) = [base |-> c, digits |-> t.digits]
    BY <1>2 DEF Followed
  <2> HIDE DEF c
  <2> QED BY <2>2, <2>3, <2>4, NameIs DEF Name
<1> QED BY <1>1, <1>2

\* Each piece of a text gives ranges that have a host.
LEMMA PieceIs ==
  ASSUME NEW piece \in Piece
  PROVE  PieceRanges(piece) \in Seq(GoodRange)
<1> DEFINE rs == piece.ranges
           made == [i \in DOMAIN rs |->
                      NewRange(piece.prefix, rs[i].lo, rs[i].hi, rs[i].width)]
<1>1. /\ piece.prefix \in Name
      /\ piece.how # "host" => rs \in Seq(Between)
      /\ piece.how \notin {"host", "bracket"} => piece.behind \in Name
  BY DEF Piece
<1>2. ASSUME piece.how # "host" PROVE made \in Seq(GoodRange)
  <2>1. rs \in Seq(Between) /\ DOMAIN rs = 1 .. Len(rs) /\ Len(rs) \in Nat
    BY <1>1, <1>2
  <2>2. ASSUME NEW i \in 1 .. Len(rs)
        PROVE  NewRange(piece.prefix, rs[i].lo, rs[i].hi, rs[i].width)
                 \in GoodRange
    <3>1. rs[i] \in Between
      BY <2>1
    <3>2. rs[i].lo \in Nat /\ rs[i].hi \in Nat /\ rs[i].width \in Nat
           /\ rs[i].lo =< rs[i].hi
      BY <3>1 DEF Between
    <3> QED BY <3>2, <1>1, NewRangeIs
  <2> QED BY <2>1, <2>2
<1>3. CASE piece.how = "host"
  <2>1. PieceRanges(piece) = <<HostRange(piece.prefix)>>
    BY <1>3 DEF PieceRanges
  <2>2. HostRange(piece.prefix) \in GoodRange
    BY <1>1, HostRangeIs
  <2> QED BY <2>1, <2>2
<1>4. CASE piece.how = "bracket"
  <2>1. PieceRanges(piece) = made
    BY <1>4 DEF PieceRanges
  <2> QED BY <2>1, <1>2, <1>4
<1>5. CASE piece.how \notin {"host", "bracket"}
  <2> DEFINE names == Names(made)
  <2>1. PieceRanges(piece)
          = [i \in DOMAIN names |-> Single(Followed(names[i], piece.behind))]
    BY <1>5 DEF PieceRanges
  <2>2. names \in Seq(Name)
    BY <1>2, <1>5, NamesAre
  <2> HIDE DEF names
  <2>3. DOMAIN names = 1 .. Len(names) /\ Len(names) \in Nat
    BY <2>2
  <2>4. ASSUME NEW i \in 1 .. Len(names)
        PROVE  Single(Followed(names[i], piece.behind)) \in GoodRange
    <3>1. names[i] \in Name
      BY <2>2
    <3> QED BY <3>1, <1>1, <1>5, FollowedIs, SingleIs
  <2> QED BY <2>1, <2>3, <2>4
<1> QED BY <1>3, <1>4, <1>5

\* hostlist_create() makes a list that is counted right.
LEMMA CreateIs ==
  ASSUME NEW t \in Seq(Piece)
  PROVE  Whole(Create(t))
<1> DEFINE q == [i \in DOMAIN t |-> PieceRanges(t[i])]
           m == [hr |-> FlattenSeq(q)]
<1>1. q \in Seq(Seq(GoodRange))
  <2>1. DOMAIN t = 1 .. Len(t) /\ Len(t) \in Nat
    OBVIOUS
  <2>2. \A i \in 1 .. Len(t) : PieceRanges(t[i]) \in Seq(GoodRange)
    BY ElementOfSeq, PieceIs
  <2> QED BY <2>1, <2>2
<1> HIDE DEF q
<1>2. m.hr \in Seq(GoodRange)
  BY <1>1, FlattenIs
<1>3. Create(t) = PushAll(Empty, m).to
  BY DEF Create, q
<1> HIDE DEF m
<1>4. Empty \in ListType /\ Empty.nhosts = Total(Empty.hr)
       /\ Total(Empty.hr) \in Nat
  BY EmptyWhole, ListIs, NamesAre DEF Whole
<1>5. /\ PushAll(Empty, m).to \in ListType
      /\ PushAll(Empty, m).to.nhosts = Empty.nhosts + Total(m.hr)
      /\ Total(PushAll(Empty, m).to.hr) = Total(Empty.hr) + Total(m.hr)
  BY <1>2, <1>4, PushAllIs
<1> QED BY <1>3, <1>4, <1>5 DEF Whole

\* hostlist_push() keeps a list counted right.
LEMMA PushTextIs ==
  ASSUME NEW l, Whole(l), NEW t \in Seq(Piece)
  PROVE  Whole(PushText(l, t))
<1>1. l \in ListType /\ l.nhosts = Total(l.hr)
  BY DEF Whole
<1>2. PICK m : m = Create(t) /\ m.hr \in Seq(GoodRange)
  BY CreateIs, ListIs DEF Whole
<1>3. /\ PushAll(l, m).to \in ListType
      /\ PushAll(l, m).to.nhosts = l.nhosts + Total(m.hr)
      /\ Total(PushAll(l, m).to.hr) = Total(l.hr) + Total(m.hr)
  BY <1>1, <1>2, PushAllIs
<1>4. Whole(PushAll(l, m).to)
  BY <1>1, <1>3 DEF Whole
<1> QED BY <1>2, <1>4 DEF PushText

(***************************************************************************)
(* What is looked up, and taken out.                                       *)
(***************************************************************************)

\* The least of some numbers.
LEMMA MinIs ==
  ASSUME NEW S \in SUBSET Nat, S # {}
  PROVE  Min(S) \in S /\ \A y \in S : Min(S) =< y
<1>1. PICK x \in S : \A y \in S : x =< y
  BY NatMin
<1> QED BY <1>1 DEF Min

\* The digits that move into the prefix are some of the name: as many as may.
LEMMA MovedIs ==
  ASSUME NEW r, NEW p \in Name
  PROVE  /\ Moved(r, p) \in 0 .. Len(p.digits)
         /\ \A i \in 0 .. Moved(r, p) - 1 : MoreDigits(r, Split(p, i))
         /\ ~ MoreDigits(r, Split(p, Moved(r, p)))
<1> DEFINE n == Len(p.digits)
           More(k) == MoreDigits(r, Split(p, k))
           T == {k \in Nat : k =< n /\ ~ More(k)}
           Is(k) == (\A i \in 0 .. k - 1 : More(i)) /\ ~ More(k)
<1>1. n \in Nat /\ n \in 0 .. n
  BY NameIs
<1>2. ~ More(n)
  <2>1. ~ Split(p, n).valid
    BY <1>1, SplitIs
  <2> QED BY <2>1 DEF MoreDigits
<1> HIDE DEF n, More
<1>3. T \in SUBSET Nat /\ T # {}
  BY <1>1, <1>2
<1>4. PICK k \in T : \A j \in T : k =< j
  <2> HIDE DEF T
  <2> QED BY <1>3, NatMin
<1>5. k \in 0 .. n /\ Is(k)
  <2>1. ASSUME NEW i \in 0 .. k - 1 PROVE More(i)
    <3>1. i \notin T
      BY <1>4
    <3> QED BY <3>1, <1>1
  <2> QED BY <2>1, <1>4, <1>1
<1>6. Moved(r, p) = CHOOSE k_ \in 0 .. n : Is(k_)
  BY DEF Moved, n, More
<1> HIDE DEF Is
<1>7. Moved(r, p) \in 0 .. n /\ Is(Moved(r, p))
  BY <1>5, <1>6
<1> QED BY <1>7 DEF n, Is, More

\* The range a has the same hosts as b, and is as good.
SameHosts(a, b) ==
  /\ a \in GoodRange
  /\ a.prefix = b.prefix /\ a.lo = b.lo /\ a.hi = b.hi /\ a.single = b.single
  /\ Hosts(a) = Hosts(b) /\ Count(a) = Count(b)

WithinAs(w, r) ==
  /\ w.at \in Int /\ w.at >= -1 /\ w.at < Count(r)
  /\ SameHosts(w.range, r)

\* hostrange_hn_within() gives an offset in the range, which keeps its hosts.
LEMMA WithinIs ==
  ASSUME NEW r \in GoodRange, NEW p \in Name
  PROVE  WithinAs(Within(r, p), r)
<1> DEFINE none == [at |-> -1, range |-> r]
           found(h, e) == IF e.ok THEN [at |-> h.num - r.lo,
                                        range |-> [r EXCEPT !.width = e.wn]]
                          ELSE none
           look(h) ==
             IF h.valid /\ h.prefix = r.prefix /\ h.num \in r.lo .. r.hi
             THEN found(h, WidthEquiv(r.lo, r.width, h.num, Len(h.suffix)))
             ELSE none
<1>1. Count(r) = r.hi - r.lo + 1 /\ Count(r) \in Nat /\ Count(r) >= 1
       /\ r.lo \in Nat /\ r.hi \in Nat
  BY CountIs, GoodIs
<1>2. SameHosts(r, r)
  BY DEF SameHosts
<1>3. WithinAs(none, r)
  <2>1. none.at = -1 /\ none.range = r
    OBVIOUS
  <2> HIDE DEF none
  <2> QED BY <2>1, <1>1, <1>2 DEF WithinAs
<1>4. CASE r.single
  <2>1. Within(r, p) = IF r.prefix = p THEN [none EXCEPT !.at = 0] ELSE none
    BY <1>4 DEF Within
  <2>2. [none EXCEPT !.at = 0] = [at |-> 0, range |-> r]
    OBVIOUS
  <2>3. WithinAs([at |-> 0, range |-> r], r)
    BY <1>1, <1>2 DEF WithinAs
  <2> HIDE DEF none
  <2> QED BY <2>1, <2>2, <2>3, <1>3
<1>5. CASE ~ r.single
  <2>1. Within(r, p) = look(Split(p, Moved(r, p)))
    BY <1>5 DEF Within
  <2>2. PICK h : h = Split(p, Moved(r, p)) /\ CutName(h)
    BY MovedIs, SplitIs
  <2>3. Within(r, p) = look(h)
    BY <2>1, <2>2
  <2>4. CASE ~ (h.valid /\ h.prefix = r.prefix /\ h.num \in r.lo .. r.hi)
    BY <2>3, <2>4, <1>3
  <2>5. CASE h.valid /\ h.prefix = r.prefix /\ h.num \in r.lo .. r.hi
    <3> DEFINE s == NewRange(h.prefix, h.num, h.num, Len(h.suffix))
    <3>1. Len(h.suffix) \in Nat /\ h.num \in Nat
      BY <2>2, LenProperties DEF CutName
    <3>2. s \in GoodRange /\ s.lo = h.num /\ s.width = Len(h.suffix)
      BY <3>1, <2>2, NewRangeIs DEF CutName, NewRange
    <3>3. PICK e : e = WidthEquiv(r.lo, r.width, h.num, Len(h.suffix))
      OBVIOUS
    <3>4. Combine(r, s).left = [r EXCEPT !.width = e.wn]
      BY <3>2, <3>3 DEF Combine
    <3> HIDE DEF s
    <3>5. PICK a : a = [r EXCEPT !.width = e.wn] /\ SameHosts(a, r)
      <4>1. PICK c : c = Combine(r, s)
        OBVIOUS
      <4>2. /\ c.left \in GoodRange
            /\ c.left.prefix = r.prefix /\ c.left.lo = r.lo
            /\ c.left.hi = r.hi /\ c.left.single = r.single
            /\ Hosts(c.left) = Hosts(r)
        BY <3>2, <4>1, CombineKeeps
      <4>3. Count(c.left) = Count(r)
        BY <4>2, CountIs
      <4> QED BY <4>1, <4>2, <4>3, <3>4 DEF SameHosts
    <3>6. Within(r, p) = IF e.ok THEN [at |-> h.num - r.lo, range |-> a]
                         ELSE none
      BY <2>3, <2>5, <3>3, <3>5
    <3>7. WithinAs([at |-> h.num - r.lo, range |-> a], r)
      <4>1. h.num - r.lo \in Int /\ h.num - r.lo >= -1
             /\ h.num - r.lo < Count(r)
        BY <1>1, <2>5, <3>1
      <4> QED BY <4>1, <3>5 DEF WithinAs
    <3> HIDE DEF none
    <3> QED BY <3>6, <3>7, <1>3
  <2> QED BY <2>4, <2>5
<1> QED BY <1>4, <1>5

\* q has the hosts of s range by range.
SameRanges(q, s) ==
  /\ q \in Seq(GoodRange) /\ Len(q) = Len(s)
  /\ \A i \in 1 .. Len(s) : SameHosts(q[i], s[i])
  /\ Total(q) = Total(s)

FoundAs(f, s) ==
  /\ f.at \in Int /\ f.at >= -1 /\ f.at < Total(s)
  /\ SameRanges(f.hr, s)

\* hostlist_find() gives a position in the list, which keeps its hosts.
LEMMA FindInIs ==
  ASSUME NEW s \in Seq(GoodRange), NEW p \in Name
  PROVE  FoundAs(FindIn(s, p), s)
<1>0. Len(s) \in Nat /\ \A i \in 1 .. Len(s) : s[i] \in GoodRange
  BY LenProperties, ElementOfSeq
<1>1. \A i \in 1 .. Len(s) : SameHosts(s[i], s[i])
  BY <1>0 DEF SameHosts
<1> DEFINE I == {i \in 1 .. Len(s) : Within(s[i], p).at >= 0}
           k == SelectInSeq(s, LAMBDA r : Within(r, p).at >= 0)
<1>2. k = IF I # {} THEN Min(I) ELSE 0
  BY DEF SelectInSeq
<1>3. CASE I = {}
  <2>1. FindIn(s, p) = [at |-> -1, hr |-> s]
    <3>1. k = 0
      BY <1>2, <1>3
    <3> HIDE DEF I
    <3> QED BY <3>1 DEF FindIn
  <2>2. SameRanges(s, s)
    BY <1>1 DEF SameRanges
  <2>3. -1 < Total(s)
    BY NamesAre
  <2> QED BY <2>1, <2>2, <2>3 DEF FoundAs
<1>4. CASE I # {}
  <2>1. PICK i \in 1 .. Len(s) : i = k /\ Within(s[i], p).at >= 0
    <3>1. I \in SUBSET Nat
      OBVIOUS
    <3>2. Min(I) \in I
      BY <3>1, <1>4, MinIs
    <3> QED BY <3>2, <1>2, <1>4
  <2> HIDE DEF I
  <2>2. PICK w : w = Within(s[i], p)
    OBVIOUS
  <2>3. WithinAs(w, s[i])
    BY <2>2, <1>0, WithinIs
  <2>4. FindIn(s, p) = [at |-> Before(s, i) + w.at,
                        hr |-> ReplaceAt(s, i, w.range)]
    <3>1. i # 0
      BY <1>0
    <3> QED BY <2>1, <2>2, <3>1 DEF FindIn
  <2>5. PICK q : q = ReplaceAt(s, i, w.range)
    OBVIOUS
  <2>6. w.range \in GoodRange /\ Count(w.range) = Count(s[i])
    BY <2>3 DEF WithinAs, SameHosts
  <2>7. /\ q \in Seq(GoodRange) /\ Len(q) = Len(s) /\ Total(q) = Total(s)
        /\ \A j \in 1 .. Len(s) : q[j] = IF j = i THEN w.range ELSE s[j]
    BY <2>5, <2>6, ReplacedIs
  <2>8. \A j \in 1 .. Len(s) : SameHosts(q[j], s[j])
    BY <2>7, <2>3, <1>1 DEF WithinAs
  <2>9. SameRanges(q, s)
    BY <2>7, <2>8 DEF SameRanges
  <2>10. /\ Before(s, i) \in Nat /\ Total(s) \in Nat /\ Count(s[i]) \in Nat
         /\ Before(s, i) + Count(s[i]) =< Total(s)
    <3>1. i \in 1 .. Len(s) + 1
      BY <1>0
    <3>2. Before(s, i) \in Nat
      BY <3>1, BeforeIs
    <3>3. Before(s, i + 1) = Before(s, i) + Count(s[i])
           /\ Before(s, i + 1) =< Total(s)
      BY BeforeNext
    <3> QED BY <3>2, <3>3, <1>0, NamesAre, CountIs
  <2>11. w.at \in Int /\ w.at >= 0 /\ w.at < Count(s[i])
    BY <2>1, <2>2, <2>3 DEF WithinAs
  <2>12. PICK f : f = FindIn(s, p) /\ f.at = Before(s, i) + w.at /\ f.hr = q
    BY <2>4, <2>5
  <2>13. f.at \in Int /\ f.at >= -1 /\ f.at < Total(s)
    BY <2>10, <2>11, <2>12
  <2> QED BY <2>9, <2>12, <2>13 DEF FoundAs
<1> QED BY <1>3, <1>4

\* A range with another lower bound,
LEMMA OtherLo ==
  ASSUME NEW r \in HostRangeType, NEW n
  PROVE  [r EXCEPT !.lo = n]
           = [prefix |-> r.prefix, lo |-> n, hi |-> r.hi,
              width |-> r.width, single |-> r.single]
BY DEF HostRangeType

\* another upper bound,
LEMMA OtherHi ==
  ASSUME NEW r \in HostRangeType, NEW n
  PROVE  [r EXCEPT !.hi = n]
           = [prefix |-> r.prefix, lo |-> r.lo, hi |-> n,
              width |-> r.width, single |-> r.single]
BY DEF HostRangeType

\* and with both.
LEMMA Bounds ==
  ASSUME NEW r \in HostRangeType, NEW lo \in Nat, NEW hi
  PROVE  [r EXCEPT !.lo = lo, !.hi = hi]
           = [prefix |-> r.prefix, lo |-> lo, hi |-> hi,
              width |-> r.width, single |-> r.single]
<1>1. PICK q : q = [r EXCEPT !.lo = lo]
  OBVIOUS
<1>2. q = [prefix |-> r.prefix, lo |-> lo, hi |-> r.hi,
           width |-> r.width, single |-> r.single]
  BY <1>1, OtherLo
<1>3. q \in HostRangeType
  BY <1>2 DEF HostRangeType
<1>4. [q EXCEPT !.hi = hi] = [prefix |-> q.prefix, lo |-> q.lo, hi |-> hi,
                              width |-> q.width, single |-> q.single]
  BY <1>3, OtherHi
<1>5. [r EXCEPT !.lo = lo, !.hi = hi] = [q EXCEPT !.hi = hi]
  BY <1>1
<1> QED BY <1>2, <1>4, <1>5

\* A range with other bounds.
LEMMA OtherBounds ==
  ASSUME NEW r \in GoodRange, NEW lo \in Nat, NEW hi \in Nat, lo =< hi,
         ~ r.single
  PROVE  /\ [r EXCEPT !.lo = lo, !.hi = hi] \in GoodRange
         /\ Count([r EXCEPT !.lo = lo, !.hi = hi]) = hi - lo + 1
<1> DEFINE q == [r EXCEPT !.lo = lo, !.hi = hi]
<1>1. q = [prefix |-> r.prefix, lo |-> lo, hi |-> hi, width |-> r.width,
           single |-> r.single]
  <2>1. r \in HostRangeType
    BY DEF GoodRange
  <2> QED BY <2>1, Bounds
<1>2. q \in GoodRange /\ q.lo = lo /\ q.hi = hi
  BY <1>1, GoodIs DEF GoodRange, HostRangeType
<1> HIDE DEF q
<1>3. Count(q) = hi - lo + 1
  BY <1>2, CountIs
<1> QED BY <1>2, <1>3 DEF q

\* hostrange_delete_host() takes one host out, whichever it is.
LEMMA RemainingIs ==
  ASSUME NEW r \in GoodRange, NEW n \in Nat, r.lo =< n, n =< r.hi
  PROVE  /\ Remaining(r, n) \in Seq(GoodRange)
         /\ Total(Remaining(r, n)) = Count(r) - 1
<1>1. r.lo \in Nat /\ r.hi \in Nat /\ r.lo =< r.hi
       /\ Count(r) = r.hi - r.lo + 1
       /\ (r.single => r.lo = 0 /\ r.hi = 0)
       /\ r = [prefix |-> r.prefix, lo |-> r.lo, hi |-> r.hi,
               width |-> r.width, single |-> r.single]
  BY GoodIs, CountIs
<1>2. <<>> \in Seq(GoodRange) /\ Total(<<>>) = 0
  BY EmptySeq, NamesNone
<1> DEFINE above == [r EXCEPT !.lo = n + 1]
           below == [r EXCEPT !.hi = n - 1]
<1>3. above = [r EXCEPT !.lo = n + 1, !.hi = r.hi]
       /\ above.lo = n + 1 /\ above.hi = r.hi
  BY <1>1
<1>4. below = [r EXCEPT !.lo = r.lo, !.hi = n - 1]
       /\ below.lo = r.lo /\ below.hi = n - 1
  BY <1>1
<1> HIDE DEF above, below
<1>5. n + 1 =< r.hi /\ ~ r.single
        => above \in GoodRange /\ Count(above) = r.hi - n /\ ~ IsEmpty(above)
  <2> SUFFICES ASSUME n + 1 =< r.hi, ~ r.single
               PROVE  above \in GoodRange /\ Count(above) = r.hi - n
                        /\ ~ IsEmpty(above)
    OBVIOUS
  <2>0. n + 1 \in Nat
    OBVIOUS
  <2>1. above \in GoodRange /\ Count(above) = r.hi - (n + 1) + 1
    BY <2>0, <1>1, <1>3, OtherBounds
  <2> QED BY <2>1, <1>1, CountIs
<1>6. r.lo =< n - 1 /\ ~ r.single
        => below \in GoodRange /\ Count(below) = n - r.lo /\ ~ IsEmpty(below)
  <2> SUFFICES ASSUME r.lo =< n - 1, ~ r.single
               PROVE  below \in GoodRange /\ Count(below) = n - r.lo
                        /\ ~ IsEmpty(below)
    OBVIOUS
  <2>0. n - 1 \in Nat
    BY <1>1
  <2>1. below \in GoodRange /\ Count(below) = (n - 1) - r.lo + 1
    BY <1>1, <1>4, <2>0, OtherBounds
  <2> QED BY <2>1, <1>1, CountIs
<1>7. ASSUME NEW q, Len(<<q>>) = 1, <<q>>[1] = q,
             DeleteNumber(r, n) = <<q>>
      PROVE  Remaining(r, n) = IF IsEmpty(q) THEN <<>> ELSE One(q)
  BY <1>7 DEF Remaining, One
<1>8. CASE n = r.lo
  <2>1. DeleteNumber(r, n) = <<above>>
    <3>1. above = [r EXCEPT !.lo = r.lo + 1]
      BY <1>8 DEF above
    <3> QED BY <1>8, <3>1 DEF DeleteNumber
  <2>2. Remaining(r, n) = IF IsEmpty(above) THEN <<>> ELSE One(above)
    BY <2>1, <1>7
  <2>3. CASE n + 1 =< r.hi
    <3>1. ~ r.single
      BY <1>1, <2>3
    <3>2. Remaining(r, n) = One(above)
      BY <2>2, <2>3, <3>1, <1>5
    <3>3. One(above) \in Seq(GoodRange) /\ Total(One(above)) = Count(above)
      BY <2>3, <3>1, <1>5, TotalOf
    <3> QED BY <3>1, <3>2, <3>3, <2>3, <1>1, <1>5, <1>8
  <2>4. CASE ~ (n + 1 =< r.hi)
    <3>1. IsEmpty(above)
      BY <2>4, <1>1, <1>3 DEF IsEmpty
    <3>2. Remaining(r, n) = <<>>
      BY <2>2, <3>1
    <3>3. Count(r) - 1 = 0
      BY <2>4, <1>1, <1>8
    <3> QED BY <3>2, <3>3, <1>2
  <2> QED BY <2>3, <2>4
<1>9. CASE n # r.lo /\ n = r.hi
  <2>1. r.lo =< n - 1 /\ ~ r.single
    BY <1>1, <1>9
  <2>2. DeleteNumber(r, n) = <<below>>
    <3>1. below = [r EXCEPT !.hi = r.hi - 1]
      BY <1>9 DEF below
    <3> QED BY <1>9, <3>1 DEF DeleteNumber
  <2>3. Remaining(r, n) = IF IsEmpty(below) THEN <<>> ELSE One(below)
    BY <2>2, <1>7
  <2>4. Remaining(r, n) = One(below)
    BY <2>1, <2>3, <1>6
  <2>5. One(below) \in Seq(GoodRange) /\ Total(One(below)) = Count(below)
    BY <2>1, <1>6, TotalOf
  <2> QED BY <2>1, <2>4, <2>5, <1>1, <1>6, <1>9
<1>10. CASE n # r.lo /\ n # r.hi
  <2>1. r.lo =< n - 1 /\ n + 1 =< r.hi /\ ~ r.single
    BY <1>1, <1>10
  <2>2. DeleteNumber(r, n) = <<below, above>>
    BY <1>10 DEF DeleteNumber, below, above
  <2>3. Remaining(r, n) = <<below, above>>
    <3>1. Len(<<below, above>>) # 1
      OBVIOUS
    <3> QED BY <2>2, <3>1 DEF Remaining
  <2>4. <<below, above>> = One(below) \o One(above)
    BY DEF One
  <2>5. /\ One(below) \in Seq(GoodRange) /\ Total(One(below)) = Count(below)
        /\ One(above) \in Seq(GoodRange) /\ Total(One(above)) = Count(above)
    BY <2>1, <1>5, <1>6, TotalOf
  <2>6. One(below) \o One(above) \in Seq(GoodRange)
         /\ Total(One(below) \o One(above)) = Count(below) + Count(above)
    BY <2>5, NamesCat
  <2>7. Count(below) = n - r.lo /\ Count(above) = r.hi - n
    BY <2>1, <1>5, <1>6
  <2>8. PICK a \in Nat, b \in Nat : a = r.lo /\ b = r.hi
    BY <1>1
  <2>9. Count(below) + Count(above) = Count(r) - 1
    BY <2>7, <2>8, <1>1
  <2> QED BY <2>3, <2>4, <2>6, <2>9
<1> QED BY <1>8, <1>9, <1>10

-----------------------------------------------------------------------------
(* Taking hosts out of a list.                                             *)

\* hostlist_delete_nth() takes one host out of its range.
LEMMA DropNthIs ==
  ASSUME NEW l, Whole(l), NEW n \in Nat, n < l.nhosts
  PROVE  Whole(DropNth(l, n))
<1>1. l.hr \in Seq(GoodRange) /\ l.nhosts = Total(l.hr) /\ l.nhosts \in Nat
  BY ListIs, NamesAre DEF Whole
<1> DEFINE s == l.hr
           rest(r, k) == IF r.single THEN <<>> ELSE Remaining(r, r.lo + k)
           At(i) == Before(s, i) =< n /\ n < Before(s, i + 1)
           without(i) == SubSeq(s, 1, i - 1) \o rest(s[i], n - Before(s, i))
                           \o SubSeq(s, i + 1, Len(s))
<1>2. DOMAIN s = 1 .. Len(s) /\ Len(s) \in Nat
  BY <1>1
<1> HIDE DEF s
<1>3. PICK i \in 1 .. Len(s) : i = (CHOOSE j \in DOMAIN s : At(j)) /\ At(i)
  <2>1. \E j \in DOMAIN s : At(j)
    BY <1>1, <1>2, Around DEF s
  <2> HIDE DEF At
  <2> QED BY <2>1, <1>2
<1>4. DropNth(l, n) = [hr |-> without(i), nhosts |-> l.nhosts - 1]
  <2>1. DropNth(l, n) = [hr |-> without(CHOOSE j \in DOMAIN s : At(j)),
                         nhosts |-> l.nhosts - 1]
    BY DEF DropNth, s
  <2> HIDE DEF without, At
  <2> QED BY <2>1, <1>3
<1>5. PICK a, b : CutInto(s, i, a, b)
  BY DEF CutInto
<1>6. PICK r \in GoodRange : r = s[i]
  BY <1>1, <1>5, CutIs DEF s
<1>7. PICK m : m = rest(r, n - Before(s, i))
  OBVIOUS
<1>8. /\ a \in Seq(GoodRange) /\ b \in Seq(GoodRange)
      /\ Total(s) = Total(a) + Count(r) + Total(b)
  BY <1>1, <1>5, <1>6, CutIs DEF s
<1>9. without(i) = a \o m \o b
  BY <1>5, <1>6, <1>7 DEF CutInto
<1>10. PICK k \in Nat : k = n - Before(s, i) /\ k < Count(r)
  <2>1. i \in 1 .. Len(s) + 1
    BY <1>2
  <2>2. Before(s, i) \in Nat
    BY <1>1, <2>1, BeforeIs DEF s
  <2>3. Before(s, i + 1) = Before(s, i) + Count(r)
    BY <1>1, <1>6, BeforeNext DEF s
  <2>4. PICK e \in Nat, c \in Nat : e = Before(s, i) /\ c = Count(r)
    BY <2>2, CountIs
  <2>5. e =< n /\ n < e + c
    BY <2>3, <2>4, <1>3
  <2> QED BY <2>4, <2>5
<1>11. m \in Seq(GoodRange) /\ Total(m) = Count(r) - 1
  <2>1. CASE r.single
    <3>1. m = <<>>
      BY <2>1, <1>7
    <3>2. Count(r) = 1
      BY <2>1 DEF Count
    <3>3. <<>> \in Seq(GoodRange)
      BY EmptySeq
    <3> QED BY <3>1, <3>2, <3>3, NamesNone
  <2>2. CASE ~ r.single
    <3>1. m = Remaining(r, r.lo + k)
      BY <2>2, <1>7, <1>10
    <3>2. r.lo + k \in Nat /\ r.lo =< r.lo + k /\ r.lo + k =< r.hi
      BY <1>10, GoodIs, CountIs
    <3> QED BY <3>1, <3>2, RemainingIs
  <2> QED BY <2>1, <2>2
<1> HIDE DEF without
<1>12. without(i) \in Seq(GoodRange) /\ Total(without(i)) = l.nhosts - 1
  <2>1. /\ a \o m \o b \in Seq(GoodRange)
        /\ Total(a \o m \o b) = Total(a) + Total(m) + Total(b)
        /\ Total(a) \in Nat /\ Total(m) \in Nat /\ Total(b) \in Nat
    BY <1>8, <1>11, ThreeParts
  <2>2. Count(r) \in Nat
    BY CountIs
  <2> QED BY <2>1, <2>2, <1>1, <1>8, <1>9, <1>11 DEF s
<1>13. PICK q : q = without(i)
  OBVIOUS
<1> QED BY <1>1, <1>4, <1>12, <1>13 DEF Whole, ListType

\* hostlist_delete_host() deletes one host, or none.
LEMMA DropHostIs ==
  ASSUME NEW l, Whole(l), NEW p \in Name
  PROVE  Whole(DropHost(l, p))
<1>1. l.hr \in Seq(GoodRange) /\ l.nhosts = Total(l.hr) /\ l.nhosts \in Int
  BY ListIs DEF Whole
<1>2. PICK f : f = FindIn(l.hr, p) /\ FoundAs(f, l.hr)
  BY <1>1, FindInIs
<1>3. /\ f.at \in Int /\ f.at >= -1 /\ f.at < Total(l.hr)
      /\ f.hr \in Seq(GoodRange) /\ Total(f.hr) = Total(l.hr)
  BY <1>2 DEF FoundAs, SameRanges
<1>4. PICK m : m = [l EXCEPT !.hr = f.hr]
  OBVIOUS
<1>5. m.hr = f.hr /\ m.nhosts = l.nhosts /\ m \in ListType
  BY <1>1, <1>3, <1>4 DEF Whole, ListType
<1>6. Whole(m)
  BY <1>1, <1>3, <1>5 DEF Whole
<1>7. DropHost(l, p) = IF f.at >= 0 THEN DropNth(m, f.at) ELSE m
  BY <1>2, <1>4 DEF DropHost
<1>8. f.at >= 0 => f.at \in Nat /\ f.at < m.nhosts
  BY <1>1, <1>3, <1>5
<1> QED BY <1>6, <1>7, <1>8, DropNthIs

\* hostlist_pop() takes one host.
LEMMA DropLastIs ==
  ASSUME NEW l, Whole(l), l.nhosts > 0
  PROVE  Whole(DropLast(l))
<1>1. l.hr \in Seq(GoodRange) /\ l.nhosts = Total(l.hr) /\ l.nhosts \in Int
  BY ListIs DEF Whole
<1>2. l.hr # <<>>
  BY <1>1, NamesNone
<1>3. PICK f, r : f = Front(l.hr) /\ r = Last(l.hr)
  OBVIOUS
<1>4. f \in Seq(GoodRange) /\ r \in GoodRange
       /\ Total(l.hr) = Total(f) + Count(r) /\ Total(f) \in Nat
  BY <1>1, <1>2, <1>3, FrontLast
<1>5. PICK p : p = Popped(r)
  OBVIOUS
<1>6. r.lo \in Nat /\ r.hi \in Nat /\ r.lo =< r.hi
       /\ (r.single => r.lo = 0 /\ r.hi = 0) /\ r.single \in BOOLEAN
       /\ r \in HostRangeType
  BY <1>4, GoodIs DEF GoodRange
<1>7. CASE r.single
  <2>1. p = [r EXCEPT !.lo = r.lo + 1]
    BY <1>5, <1>7 DEF Popped
  <2>2. p.lo = r.lo + 1 /\ p.hi = r.hi
    BY <2>1, <1>6, OtherLo
  <2>3. IsEmpty(p) /\ Count(r) = 1
    BY <2>2, <1>6, <1>7 DEF IsEmpty, Count
  <2>4. DropLast(l) = [hr |-> f, nhosts |-> l.nhosts - 1]
    BY <2>3, <1>3, <1>5 DEF DropLast
  <2> QED BY <2>3, <2>4, <1>1, <1>4 DEF Whole, ListType
<1>8. CASE ~ r.single
  <2>1. p = [r EXCEPT !.hi = r.hi - 1]
    BY <1>5, <1>8 DEF Popped
  <2>2. p = [prefix |-> r.prefix, lo |-> r.lo, hi |-> r.hi - 1,
             width |-> r.width, single |-> r.single]
    BY <2>1, <1>6, OtherHi
  <2>3. CASE r.lo = r.hi
    <3>1. IsEmpty(p) /\ Count(r) = 1
      BY <2>2, <2>3, <1>4, <1>6, CountIs DEF IsEmpty
    <3>2. DropLast(l) = [hr |-> f, nhosts |-> l.nhosts - 1]
      BY <3>1, <1>3, <1>5 DEF DropLast
    <3> QED BY <3>1, <3>2, <1>1, <1>4 DEF Whole, ListType
  <2>4. CASE r.lo # r.hi
    <3>1. p \in GoodRange
      <4>1. p \in HostRangeType /\ p.hi \in Nat /\ p.lo =< p.hi
             /\ p.single = r.single
        BY <2>2, <2>4, <1>6, GoodIs DEF HostRangeType
      <4> QED BY <4>1, <1>8 DEF GoodRange
    <3>2. ~ IsEmpty(p) /\ Count(p) = Count(r) - 1
      BY <3>1, <2>2, <1>4, <1>6, CountIs, SMTT(30)
    <3>3. DropLast(l) = [hr |-> Append(f, p), nhosts |-> l.nhosts - 1]
      BY <3>2, <1>3, <1>5 DEF DropLast
    <3>4. PICK q : q = Append(f, p)
      OBVIOUS
    <3>5. q \in Seq(GoodRange) /\ Total(q) = Total(f) + Count(p)
      BY <3>1, <3>4, <1>4, AppendProperties, NamesOne
    <3>6. Count(r) \in Nat
      BY <1>4, CountIs
    <3> QED BY <3>2, <3>3, <3>4, <3>5, <3>6, <1>1, <1>4 DEF Whole, ListType
  <2> QED BY <2>3, <2>4
<1> QED BY <1>6, <1>7, <1>8

\* What a fold comes to is in the set that its steps stay in.
LEMMA RunsStay ==
  ASSUME NEW V, NEW b, NEW E, NEW s \in Seq(E), NEW D, NEW v,
         RunsTo(v, b, D, s, V)
  PROVE  v \in V
<1>1. PICK h \in [0 .. Len(s) -> V] : h[Len(s)] = v
  BY DEF RunsTo
<1>2. Len(s) \in 0 .. Len(s)
  OBVIOUS
<1> QED BY <1>1, <1>2

\* What is turned round is of the same kind.
LEMMA ReverseIs ==
  ASSUME NEW E, NEW s \in Seq(E)
  PROVE  Reverse(s) \in Seq(E)
<1>1. \A i \in 1 .. Len(s) : s[(Len(s) - i) + 1] \in E
  <2> SUFFICES ASSUME NEW i \in 1 .. Len(s)
               PROVE  s[(Len(s) - i) + 1] \in E
    OBVIOUS
  <2>1. (Len(s) - i) + 1 \in 1 .. Len(s)
    OBVIOUS
  <2> QED BY <2>1, ElementOfSeq
<1>2. Len(s) \in Nat
  OBVIOUS
<1> QED BY <1>1, <1>2 DEF Reverse

\* hostlist_delete() keeps a list counted right.
LEMMA DropTextIs ==
  ASSUME NEW l, Whole(l), NEW t \in Seq(Piece)
  PROVE  Whole(DropText(l, t))
<1> DEFINE V == {x \in ListType : Whole(x)}
           E == Name
           s == Reverse(Names(Create(t).hr))
           step(x, p) == DropHost(x, p)
           D == [x \in V \X E |-> step(x[1], x[2])]
           Is(f) == f = [S \in SUBSET DOMAIN s |->
                           IF S = {} THEN l
                           ELSE step(f[S \ {Max(S)}], s[Max(S)])]
           f == CHOOSE f : Is(f)
<1>1. l \in V /\ s \in Seq(E)
  <2>1. Create(t).hr \in Seq(GoodRange)
    BY CreateIs, ListIs DEF Whole
  <2>2. Names(Create(t).hr) \in Seq(Name)
    BY <2>1, NamesAre
  <2> QED BY <2>2, ReverseIs DEF Whole
<1>2. ASSUME NEW x \in V, NEW p \in E PROVE step(x, p) \in V
  BY DropHostIs DEF Whole
<1>3. ~ Refused(t) => DropText(l, t) = f[DOMAIN s]
  BY DEF DropText, FoldLeft, MapThenFoldSet
<1> HIDE DEF step
<1>4. D \in [V \X E -> V]
  <2>1. \A x \in V \X E : step(x[1], x[2]) \in V
    BY <1>2
  <2> QED BY <2>1
<1>5. \A p \in V, r \in E : D[<<p, r>>] = step(p, r)
  OBVIOUS
<1> HIDE DEF s
<1>6. \A S \in SUBSET DOMAIN s : S # {} => s[Max(S)] \in E
  BY <1>1, MaxOf
<1> HIDE DEF D, V, E
<1>7. Is(f)
  <2>1. PICK g \in [SUBSET DOMAIN s -> V] : Folded(g, l, D, s)
    BY <1>1, <1>4, FoldsSet
  <2>2. ASSUME NEW S \in SUBSET DOMAIN s
        PROVE  g[S] = IF S = {} THEN l
                      ELSE step(g[S \ {Max(S)}], s[Max(S)])
    <3>1. CASE S = {}
      BY <3>1, <2>1 DEF Folded
    <3>2. CASE S # {}
      <4>1. g[S] = D[<<g[S \ {Max(S)}], s[Max(S)]>>]
        BY <3>2, <2>1 DEF Folded
      <4>2. S \ {Max(S)} \in SUBSET DOMAIN s
        OBVIOUS
      <4>3. g[S \ {Max(S)}] \in V /\ s[Max(S)] \in E
        BY <4>2, <2>1, <1>6, <3>2
      <4> QED BY <4>1, <4>3, <1>5, <3>2
    <3> QED BY <3>1, <3>2
  <2>3. Is(g)
    BY <2>1, <2>2
  <2> HIDE DEF Is
  <2> QED BY <2>3
<1> HIDE DEF f
<1>8. FoldsTo(f, l, D, s, V)
  <2>1. f[{}] = l
    BY <1>7
  <2>2. ASSUME NEW S \in SUBSET DOMAIN s, S # {}, f[S \ {Max(S)}] \in V
        PROVE  f[S] = D[<<f[S \ {Max(S)}], s[Max(S)]>>]
    BY <2>2, <1>5, <1>6, <1>7
  <2> QED BY <2>1, <2>2 DEF FoldsTo
<1>9. RunsTo(f[DOMAIN s], l, D, s, V)
  BY <1>1, <1>4, <1>8, FoldRuns
<1>10. f[DOMAIN s] \in V
  BY <1>1, <1>9, RunsStay
<1>11. Whole(f[DOMAIN s])
  BY <1>10 DEF V
<1> QED BY <1>3, <1>11 DEF DropText

(***************************************************************************)
(* What is printed is a text.                                              *)
(***************************************************************************)

\* The brackets around range i end behind what goes with it.
LEMMA BracketEndIs ==
  ASSUME NEW s, NEW n \in Nat, n = Len(s), NEW i \in 1 .. n
  PROVE  /\ BracketEnd(s, i) \in i + 1 .. n + 1
         /\ \A k \in i + 1 .. BracketEnd(s, i) - 1 : WithinRange(s[i], s[k])
         /\ BracketEnd(s, i) <= n => ~ WithinRange(s[i], s[BracketEnd(s, i)])
<1> DEFINE W(k) == WithinRange(s[i], s[k])
           T == {j \in Nat : j \in i + 1 .. n + 1 /\ (j <= n => ~ W(j))}
           Is(j) == (\A k \in i + 1 .. j - 1 : W(k)) /\ (j <= n => ~ W(j))
<1> HIDE DEF W
<1>1. T \in SUBSET Nat /\ n + 1 \in T
  OBVIOUS
<1>2. PICK j \in T : \A k \in T : j =< k
  <2> HIDE DEF T
  <2> QED BY <1>1, NatMin
<1>3. \E k \in i + 1 .. n + 1 : Is(k)
  <2>1. ASSUME NEW k \in i + 1 .. j - 1 PROVE W(k)
    <3>1. k \notin T /\ k \in i + 1 .. n + 1 /\ k \in Nat
      BY <1>2
    <3> QED BY <3>1
  <2> QED BY <2>1, <1>2
<1>4. BracketEnd(s, i) = CHOOSE k \in i + 1 .. n + 1 : Is(k)
  BY DEF BracketEnd, W
<1> HIDE DEF Is
<1>5. BracketEnd(s, i) \in i + 1 .. n + 1 /\ Is(BracketEnd(s, i))
  BY <1>3, <1>4
<1> QED BY <1>5 DEF Is, W

\* What is printed is a piece that can be read,
LEMMA PrintedAsIs ==
  ASSUME NEW s \in Seq(GoodRange), NEW n \in Nat, n = Len(s),
         NEW i \in 1 .. n, NEW j \in i .. n
  PROVE  PrintedAs(s, i, j) \in Piece
<1>1. \A k \in 1 .. n : s[k] \in GoodRange
  BY ElementOfSeq
<1>2. s[i] \in GoodRange
  BY <1>1
<1>3. CASE i = j /\ Count(s[i]) = 1
  <2>1. PICK p : p = Hosts(s[i])[1]
    OBVIOUS
  <2>2. p \in Name
    <3>1. Hosts(s[i]) \in Seq(Name) /\ Len(Hosts(s[i])) = 1
      BY <1>2, <1>3, HostsAre
    <3>2. 1 \in 1 .. Len(Hosts(s[i]))
      BY <3>1
    <3> QED BY <2>1, <3>1, <3>2, ElementOfSeq
  <2>3. PrintedAs(s, i, j) = [how |-> "host", prefix |-> p]
    BY <1>3, <2>1 DEF PrintedAs
  <2> QED BY <2>2, <2>3 DEF Piece
<1>4. CASE ~ (i = j /\ Count(s[i]) = 1)
  <2> DEFINE R(r) == [lo |-> r.lo, hi |-> r.hi,
                      width |-> Len(Numeral(r.lo, r.width))]
             q == [k \in 1 .. j - i + 1 |-> R(s[i + k - 1])]
  <2>1. \A r \in GoodRange : R(r) \in Between
    <3> SUFFICES ASSUME NEW r \in GoodRange PROVE R(r) \in Between
      OBVIOUS
    <3>1. r.lo \in Nat /\ r.hi \in Nat /\ r.width \in Nat /\ r.lo =< r.hi
      BY GoodIs
    <3>2. PICK w \in Nat : w = Len(Numeral(r.lo, r.width))
      BY <3>1, NumeralIs, LenProperties
    <3> QED BY <3>1, <3>2 DEF Between
  <2>2. PrintedAs(s, i, j) = [how |-> "bracket", prefix |-> s[i].prefix,
                              ranges |-> q]
    BY <1>4 DEF PrintedAs
  <2> HIDE DEF R
  <2>3. q \in Seq(Between)
    <3>1. \A k \in 1 .. j - i + 1 : i + k - 1 \in 1 .. n
      OBVIOUS
    <3>2. \A k \in 1 .. j - i + 1 : R(s[i + k - 1]) \in Between
      BY <3>1, <1>1, <2>1
    <3>3. j - i + 1 \in Nat
      OBVIOUS
    <3> QED BY <3>2, <3>3
  <2>4. s[i].prefix \in Name
    BY <1>2, GoodIs
  <2> HIDE DEF q
  <2> QED BY <2>2, <2>3, <2>4 DEF Piece
<1> QED BY <1>3, <1>4

\* and so hostlist_ranged_string() prints a text that can be read.
LEMMA PrintedIs ==
  ASSUME NEW s \in Seq(GoodRange)
  PROVE  Printed(s) \in Seq(Piece)
<1> DEFINE n == Len(s)
           P(i) == IF i > 1 /\ WithinRange(s[i], s[i - 1]) THEN <<>>
                   ELSE <<PrintedAs(s, i, BracketEnd(s, i) - 1)>>
           q == [i \in DOMAIN s |-> P(i)]
<1>1. n \in Nat /\ DOMAIN s = 1 .. n
  BY LenProperties
<1>2. ASSUME NEW i \in 1 .. n PROVE P(i) \in Seq(Piece)
  <2>1. BracketEnd(s, i) \in i + 1 .. n + 1
    BY <1>1, BracketEndIs
  <2>2. BracketEnd(s, i) - 1 \in i .. n
    BY <2>1, <1>1
  <2>3. PrintedAs(s, i, BracketEnd(s, i) - 1) \in Piece
    BY <2>2, <1>1, PrintedAsIs
  <2> QED BY <2>3
<1>3. Printed(s) = FlattenSeq(q)
  BY DEF Printed
<1> HIDE DEF P, n
<1>4. q \in Seq(Seq(Piece))
  BY <1>1, <1>2
<1> HIDE DEF q
<1> QED BY <1>3, <1>4, FlattenIs

(***************************************************************************)
(* Sorted arrays.                                                          *)
(***************************************************************************)

\* p puts the ranges of t in another order, which is that of s.
Moves(p, s, t) ==
  /\ \A i \in 1 .. Len(s) : p[i] \in 1 .. Len(t) /\ s[i] = t[p[i]]
  /\ \A i, j \in 1 .. Len(s) : i # j => p[i] # p[j]

Permuted(s, t) == Len(s) = Len(t) /\ \E p : Moves(p, s, t)

\* The places of an array without place m.
Without(p, m, n) == [i \in 1 .. n |-> IF p[i] < m THEN p[i] ELSE p[i] - 1]

\* Another order has as many hosts.
LEMMA PermutedTotal ==
  ASSUME NEW s \in Seq(GoodRange), NEW t \in Seq(GoodRange), Permuted(s, t)
  PROVE  Total(s) = Total(t)
<1> DEFINE P(n) == \A x, y \in Seq(GoodRange) :
                     Len(x) = n /\ Permuted(x, y) => Total(x) = Total(y)
           T == {n \in Nat : P(n)}
<1>1. 0 \in T
  <2> SUFFICES ASSUME NEW x \in Seq(GoodRange), NEW y \in Seq(GoodRange),
                      Len(x) = 0, Len(y) = 0
               PROVE  Total(x) = Total(y)
    BY DEF Permuted
  <2>1. x = <<>> /\ y = <<>>
    BY EmptySeq
  <2> QED BY <2>1
<1>2. ASSUME NEW n \in Nat, n \in T PROVE n + 1 \in T
  <2> SUFFICES ASSUME NEW x \in Seq(GoodRange), NEW y \in Seq(GoodRange),
                      Len(x) = n + 1, Permuted(x, y)
               PROVE  Total(x) = Total(y)
    OBVIOUS
  <2>1. PICK p : Moves(p, x, y)
    BY DEF Permuted
  <2>2. /\ Len(y) = n + 1
        /\ \A i \in 1 .. n + 1 : p[i] \in 1 .. n + 1 /\ x[i] = y[p[i]]
        /\ \A i, j \in 1 .. n + 1 : i # j => p[i] # p[j]
    BY <2>1, <1>2 DEF Permuted, Moves
  <2>3. PICK m \in 1 .. n + 1 : m = p[n + 1]
    BY <2>2
  <2>4. PICK a, b : CutInto(y, m, a, b)
    BY DEF CutInto
  <2>5. /\ a \in Seq(GoodRange) /\ b \in Seq(GoodRange)
        /\ Len(a) = m - 1 /\ Len(b) = n + 1 - m
        /\ \A j \in 1 .. m - 1 : a[j] = y[j]
        /\ \A j \in 1 .. n + 1 - m : b[j] = y[m + j]
        /\ Total(y) = Total(a) + Count(y[m]) + Total(b)
    <3>1. m \in 1 .. Len(y)
      BY <2>2
    <3>2. /\ a \in Seq(GoodRange) /\ b \in Seq(GoodRange)
          /\ Len(a) = m - 1 /\ Len(b) = Len(y) - m
          /\ \A j \in 1 .. m - 1 : a[j] = y[j]
          /\ \A j \in 1 .. Len(y) - m : b[j] = y[m + j]
          /\ Total(y) = Total(a) + Count(y[m]) + Total(b)
      BY <3>1, <2>4, CutHas
    <3> QED BY <3>2, <2>2
  <2> DEFINE u == a \o b
  <2>6. /\ u \in Seq(GoodRange) /\ Total(u) = Total(a) + Total(b)
        /\ Len(u) = n
        /\ \A j \in 1 .. n : u[j] = IF j < m THEN y[j] ELSE y[j + 1]
    <3>1. u \in Seq(GoodRange) /\ Total(u) = Total(a) + Total(b)
      BY <2>5, NamesCat
    <3>2. Len(u) = Len(a) + Len(b)
           /\ \A j \in 1 .. Len(a) + Len(b) :
                u[j] = IF j <= Len(a) THEN a[j] ELSE b[j - Len(a)]
      BY <2>5, ConcatProperties
    <3>5. PICK k \in Nat, l \in Nat : k = Len(a) /\ l = Len(b)
      BY <2>5, LenProperties
    <3>6. k = m - 1 /\ l = n + 1 - m
      BY <3>5, <2>5
    <3> HIDE DEF u
    <3>7. Len(u) = k + l /\ \A j \in 1 .. k + l :
                               u[j] = IF j <= k THEN a[j] ELSE b[j - k]
      BY <3>2, <3>5
    <3>3. Len(u) = n
      BY <3>6, <3>7
    <3>4. ASSUME NEW j \in 1 .. n
          PROVE  u[j] = IF j < m THEN y[j] ELSE y[j + 1]
      <4>1. u[j] = IF j <= m - 1 THEN a[j] ELSE b[j - (m - 1)]
        BY <3>6, <3>7
      <4>2. CASE j < m
        BY <4>1, <4>2, <2>5
      <4>3. CASE ~ (j < m)
        <5>1. j - (m - 1) \in 1 .. n + 1 - m /\ m + (j - (m - 1)) = j + 1
               /\ ~ (j <= m - 1)
          BY <4>3
        <5> QED BY <5>1, <4>1, <4>3, <2>5
      <4> QED BY <4>2, <4>3
    <3> QED BY <3>1, <3>3, <3>4
  <2>7. x # <<>>
    BY <1>2, EmptySeq
  <2> DEFINE f == Front(x)
  <2>8. /\ f \in Seq(GoodRange) /\ Len(f) = n
        /\ \A i \in 1 .. n : f[i] = x[i]
        /\ Total(x) = Total(f) + Count(x[n + 1])
    <3>1. /\ f \in Seq(GoodRange) /\ Last(x) = x[Len(x)]
          /\ Len(f) = Len(x) - 1
          /\ \A i \in 1 .. Len(x) - 1 : f[i] = x[i]
          /\ Total(x) = Total(f) + Count(Last(x))
      BY <2>7, FrontLast
    <3>2. Len(x) = n + 1 /\ (n + 1) - 1 = n
      OBVIOUS
    <3> HIDE DEF f
    <3> QED BY <3>1, <3>2
  <2> HIDE DEF u, f
  <2>9. Moves(Without(p, m, n), f, u)
    <3> DEFINE q == Without(p, m, n)
    <3>1. ASSUME NEW i \in 1 .. n
          PROVE  /\ p[i] \in 1 .. n + 1 /\ p[i] # m /\ x[i] = y[p[i]]
                 /\ q[i] = IF p[i] < m THEN p[i] ELSE p[i] - 1
      <4>1. i \in 1 .. n + 1 /\ n + 1 \in 1 .. n + 1 /\ i # n + 1
        OBVIOUS
      <4> QED BY <4>1, <2>2, <2>3 DEF Without
    <3> HIDE DEF q
    <3>2. ASSUME NEW i \in 1 .. n PROVE q[i] \in 1 .. n /\ f[i] = u[q[i]]
      <4>1. PICK k \in 1 .. n + 1 : k = p[i] /\ k # m /\ x[i] = y[k]
                                    /\ q[i] = IF k < m THEN k ELSE k - 1
        BY <3>1
      <4>2. q[i] \in 1 .. n
        BY <4>1
      <4>3. u[q[i]] = IF q[i] < m THEN y[q[i]] ELSE y[q[i] + 1]
        BY <4>2, <2>6
      <4>4. u[q[i]] = y[k]
        <5>1. CASE k < m
          BY <5>1, <4>1, <4>3
        <5>2. CASE ~ (k < m)
          <6>1. q[i] = k - 1 /\ ~ (q[i] < m) /\ q[i] + 1 = k
            BY <5>2, <4>1, SMTT(30)
          <6> QED BY <6>1, <4>3
        <5> QED BY <5>1, <5>2
      <4> QED BY <4>1, <4>2, <4>4, <2>8
    <3>3. ASSUME NEW i \in 1 .. n, NEW j \in 1 .. n, i # j
          PROVE  q[i] # q[j]
      <4>1. PICK k \in 1 .. n + 1 : k = p[i] /\ k # m
                                    /\ q[i] = IF k < m THEN k ELSE k - 1
        BY <3>1
      <4>2. PICK l \in 1 .. n + 1 : l = p[j] /\ l # m
                                    /\ q[j] = IF l < m THEN l ELSE l - 1
        BY <3>1
      <4>3. k # l
        <5>1. i \in 1 .. n + 1 /\ j \in 1 .. n + 1
          OBVIOUS
        <5> QED BY <5>1, <4>1, <4>2, <3>3, <2>2
      <4> QED BY <4>1, <4>2, <4>3, SMTT(30)
    <3> QED BY <3>2, <3>3, <2>6, <2>8 DEF Moves, q
  <2>10. Permuted(f, u)
    BY <2>6, <2>8, <2>9 DEF Permuted
  <2>11. Total(f) = Total(u)
    BY <1>2, <2>6, <2>8, <2>10
  <2>12. x[n + 1] = y[m]
    BY <2>2, <2>3
  <2>13. Total(a) \in Nat /\ Total(b) \in Nat /\ Count(y[m]) \in Nat
    <3>1. y[m] \in GoodRange
      BY <2>2, ElementOfSeq
    <3> QED BY <3>1, <2>5, NamesAre, CountIs
  <2> QED BY <2>5, <2>6, <2>8, <2>11, <2>12, <2>13
<1> HIDE DEF T
<1>3. Len(s) \in T
  <2>1. \A n \in Nat : n \in T => n + 1 \in T
    BY <1>2
  <2>2. Len(s) \in Nat
    BY LenProperties
  <2> QED BY <1>1, <2>1, <2>2, Induction
<1> QED BY <1>3 DEF T

\* What comparing says of a sorted array, and that it is of the same ranges.
SortedAs(s, t) ==
  /\ s \in Seq(GoodRange) /\ Permuted(s, t) /\ Total(s) = Total(t)
  /\ \A i, j \in 1 .. Len(s) : i < j => Cmp(s[i], s[j]) <= 0

\* qsort() leaves the ranges there were, each not greater than those behind.
LEMMA OrdersAre ==
  ASSUME NEW t \in Seq(GoodRange), NEW s \in Orders(t)
  PROVE  SortedAs(s, t)
<1> DEFINE n == Len(t)
<1>1. n \in Nat /\ DOMAIN t = 1 .. n /\ \A i \in 1 .. n : t[i] \in GoodRange
  BY LenProperties, ElementOfSeq
<1>2. Cardinality(1 .. n) = n
  <2>1. n \in Int /\ 1 \in Int
    BY <1>1
  <2>2. Cardinality(1 .. n) = IF 1 > n THEN 0 ELSE n - 1 + 1
    BY <2>1, FS_Interval
  <2> HIDE DEF n
  <2> QED BY <2>2, <1>1
<1>3. PICK p \in SetToSeqs(1 .. n) : s = [i \in 1 .. n |-> t[p[i]]]
  BY <1>1 DEF Orders
<1>4. IsSorted(s, LAMBDA r, q : Cmp(r, q) <= 0)
  BY DEF Orders
<1> HIDE DEF n
<1>5. /\ p \in [1 .. n -> 1 .. n]
      /\ \A i, j \in 1 .. n : i # j => p[i] # p[j]
  BY <1>2, <1>3 DEF SetToSeqs
<1>6. \A i \in 1 .. n : t[p[i]] \in GoodRange
  BY <1>1, <1>5
<1>7. s \in Seq(GoodRange) /\ Len(s) = n
  BY <1>1, <1>3, <1>6
<1>8. Moves(p, s, t)
  BY <1>3, <1>5, <1>7 DEF Moves, n
<1>9. Permuted(s, t)
  BY <1>7, <1>8 DEF Permuted, n
<1>10. \A i, j \in 1 .. Len(s) : i < j => Cmp(s[i], s[j]) <= 0
  BY <1>4 DEF IsSorted
<1> QED BY <1>7, <1>9, <1>10, PermutedTotal DEF SortedAs

(***************************************************************************)
(* Joining.                                                                *)
(***************************************************************************)

\* j is what joining r and s makes of both.
JoinedAs(j, r, s) ==
  /\ j.dup \in Int /\ j.dup >= -1
  /\ j.left \in GoodRange /\ j.right \in GoodRange
  /\ j.dup < 0 => Count(j.left) = Count(r) /\ Count(j.right) = Count(s)
  /\ j.dup >= 0 => Count(j.left) = Count(r) + Count(s) - j.dup

\* hostrange_join() says how many hosts both had in common.
LEMMA JoinIs ==
  ASSUME NEW r \in GoodRange, NEW s \in GoodRange
  PROVE  JoinedAs(Join(r, s), r, s)
<1>1. CASE ~ (Alike(r, s) /\ Combines(r, s))
  <2>1. Join(r, s) = [dup |-> -1, left |-> r, right |-> s]
    BY <1>1 DEF Join
  <2> QED BY <2>1 DEF JoinedAs
<1>2. CASE Alike(r, s) /\ Combines(r, s)
  <2>1. PICK c : c = Combine(r, s)
    OBVIOUS
  <2>2. Join(r, s) = Touch(c)
    BY <1>2, <2>1 DEF Join
  <2>3. /\ c.left \in GoodRange /\ c.right \in GoodRange
        /\ c.left.lo = r.lo /\ c.left.hi = r.hi /\ c.left.single = r.single
        /\ c.right.lo = s.lo /\ c.right.hi = s.hi
        /\ c.right.single = s.single
    BY <2>1, CombineKeeps
  <2>4. PICK a \in Nat, b \in Nat, d \in Nat, e \in Nat :
          /\ a = r.lo /\ b = r.hi /\ d = s.lo /\ e = s.hi /\ a =< b /\ d =< e
    BY GoodIs
  <2>5. Count(r) = b - a + 1 /\ Count(s) = e - d + 1
    BY <2>4, CountIs
  <2>6. Count(c.left) = Count(r) /\ Count(c.right) = Count(s)
    BY <2>3, CountIs
  <2>7. PICK g : g = [c.left EXCEPT !.hi = Larger(c.left.hi, c.right.hi)]
    OBVIOUS
  <2>8. PICK h \in Nat : h = Larger(b, e)
    BY DEF Larger
  <2>9. a =< h /\ h >= b /\ h >= e /\ (h = b \/ h = e)
    BY <2>4, <2>8 DEF Larger
  <2>10. g \in GoodRange /\ Count(g) = h - a + 1
    <3>1. c.left \in HostRangeType
      BY <2>3 DEF GoodRange
    <3>2. g = [prefix |-> c.left.prefix, lo |-> c.left.lo, hi |-> h,
               width |-> c.left.width, single |-> c.left.single]
      BY <2>3, <2>4, <2>7, <2>8, <3>1, OtherHi
    <3>3. /\ c.left.prefix \in Name /\ c.left.width \in Nat
          /\ c.left.lo = a /\ c.left.single = r.single
          /\ r.single \in BOOLEAN
          /\ (r.single => a = 0 /\ b = 0)
          /\ (s.single => d = 0 /\ e = 0) /\ r.single = s.single
      BY <2>3, <2>4, <1>2, GoodIs DEF Alike
    <3>4. r.single => h = 0
      BY <3>3, <2>9
    <3>5. g \in GoodRange /\ g.lo = a /\ g.hi = h
      BY <3>2, <3>3, <3>4, <2>9 DEF GoodRange, HostRangeType
    <3> QED BY <3>5, CountIs
  <2>11. \A n \in Int : Joint(c, n)
                         = [dup |-> n, left |-> g, right |-> c.right]
    BY <2>7 DEF Joint
  <2>12. ASSUME NEW n \in Int, n >= 0, Touch(c) = Joint(c, n),
                h - a + 1 = (b - a + 1) + (e - d + 1) - n
         PROVE  JoinedAs(Touch(c), r, s)
    <3>1. Touch(c) = [dup |-> n, left |-> g, right |-> c.right]
      BY <2>11, <2>12
    <3>2. Touch(c).dup = n /\ Touch(c).left = g /\ Touch(c).right = c.right
      BY <3>1
    <3>3. Count(g) = Count(r) + Count(s) - n
      BY <2>5, <2>10, <2>12
    <3> QED BY <3>2, <3>3, <2>3, <2>10, <2>12 DEF JoinedAs
  <2>13. CASE c.left.single
    <3>1. Touch(c) = Joint(c, 1)
      BY <2>13 DEF Touch
    <3>2. a = 0 /\ b = 0 /\ d = 0 /\ e = 0
      BY <2>13, <2>3, <2>4, <1>2, GoodIs DEF Alike
    <3> QED BY <3>1, <3>2, <2>2, <2>9, <2>12
  <2>14. CASE ~ c.left.single /\ Adjoins(c.left, c.right)
    <3>1. Touch(c) = Joint(c, 0)
      BY <2>14 DEF Touch
    <3>2. b = d - 1
      BY <2>14, <2>3, <2>4 DEF Adjoins
    <3>3. h = e
      BY <3>2, <2>4, <2>9
    <3>4. h - a + 1 = (b - a + 1) + (e - d + 1) - 0
      BY <3>2, <3>3
    <3> QED BY <3>1, <3>4, <2>2, <2>12
  <2>15. CASE ~ c.left.single /\ ~ Adjoins(c.left, c.right) /\ b < d
    <3>1. Touch(c) = Apart(c)
      BY <2>15, <2>3, <2>4 DEF Touch
    <3>2. Touch(c) = [dup |-> -1, left |-> c.left, right |-> c.right]
      BY <3>1 DEF Apart
    <3> QED BY <3>2, <2>2, <2>3, <2>6 DEF JoinedAs
  <2>16. CASE ~ c.left.single /\ ~ Adjoins(c.left, c.right) /\ ~ (b < d)
    <3>1. PICK n \in Int : n = Smaller(b, e) - d + 1
      BY DEF Smaller
    <3>2. Touch(c) = Joint(c, n)
      BY <3>1, <2>16, <2>3, <2>4 DEF Touch
    <3>3. n >= 0 /\ h - a + 1 = (b - a + 1) + (e - d + 1) - n
      <4>1. CASE b > e
        <5>1. h = b
          BY <4>1, <2>8 DEF Larger
        <5>2. n = e - d + 1
          BY <4>1, <3>1 DEF Smaller
        <5> QED BY <5>1, <5>2, <2>4
      <4>2. CASE ~ (b > e)
        <5>1. h = e
          BY <4>2, <2>8 DEF Larger
        <5>2. n = b - d + 1
          BY <4>2, <3>1, <2>9 DEF Smaller
        <5> QED BY <5>1, <5>2, <2>4, <2>16
      <4> QED BY <4>1, <4>2
    <3> QED BY <3>2, <3>3, <2>2, <2>12
  <2> QED BY <2>13, <2>14, <2>15, <2>16
<1> QED BY <1>1, <1>2

\* What the ranges in front of r have become when r is joined with the last.
JoinedOn(m, r) ==
  LET j == Join(Last(m.hr), r)
  IN  IF m.hr = <<>> THEN [m EXCEPT !.hr = <<r>>]
      ELSE IF j.dup < 0
      THEN [m EXCEPT !.hr = Front(@) \o <<j.left, j.right>>]
      ELSE [hr |-> Append(Front(m.hr), j.left), nhosts |-> m.nhosts - j.dup]

\* How many more hosts than there are in its array a list says it has.
Excess(l) == l.nhosts - Total(l.hr)

\* Only the hosts in common are not counted any more.
LEMMA JoinedOnIs ==
  ASSUME NEW m \in ListType, NEW r \in GoodRange
  PROVE  /\ JoinedOn(m, r) \in ListType
         /\ Excess(JoinedOn(m, r)) = Excess(m) - Count(r)
<1>1. m.hr \in Seq(GoodRange) /\ m.nhosts \in Int /\ Count(r) \in Nat
       /\ m = [hr |-> m.hr, nhosts |-> m.nhosts] /\ Total(m.hr) \in Nat
  BY ListIs, CountIs, NamesAre
<1>2. CASE m.hr = <<>>
  <2>1. PICK h : h = <<r>>
    OBVIOUS
  <2>2. h \in Seq(GoodRange) /\ Total(h) = Count(r)
    BY <2>1, TotalOf DEF One
  <2>3. JoinedOn(m, r) = [m EXCEPT !.hr = h]
    BY <2>1, <1>2 DEF JoinedOn
  <2>4. JoinedOn(m, r) = [hr |-> h, nhosts |-> m.nhosts]
    BY <2>3, <1>1
  <2>5. Total(m.hr) = 0
    BY <1>2, NamesNone
  <2> QED BY <2>2, <2>4, <2>5, <1>1 DEF Excess, ListType
<1>3. CASE m.hr # <<>>
  <2>1. PICK f, q : f = Front(m.hr) /\ q = Last(m.hr)
    OBVIOUS
  <2>2. f \in Seq(GoodRange) /\ q \in GoodRange /\ Total(f) \in Nat
         /\ Total(m.hr) = Total(f) + Count(q)
    BY <2>1, <1>1, <1>3, FrontLast
  <2>3. PICK j : j = Join(q, r) /\ JoinedAs(j, q, r)
    BY <2>2, JoinIs
  <2>4. /\ j.dup \in Int /\ j.left \in GoodRange /\ j.right \in GoodRange
        /\ Count(j.left) \in Nat /\ Count(j.right) \in Nat /\ Count(q) \in Nat
        /\ j.dup < 0 => Count(j.left) = Count(q) /\ Count(j.right) = Count(r)
        /\ j.dup >= 0 => Count(j.left) = Count(q) + Count(r) - j.dup
    BY <2>2, <2>3, CountIs DEF JoinedAs
  <2>5. PICK a : a = Append(f, j.left)
    OBVIOUS
  <2>6. a \in Seq(GoodRange) /\ Total(a) = Total(f) + Count(j.left)
    BY <2>2, <2>4, <2>5, AppendProperties, NamesOne
  <2>7. CASE j.dup < 0
    <3>1. PICK h : h = Append(a, j.right)
      OBVIOUS
    <3>2. h \in Seq(GoodRange) /\ Total(h) = Total(a) + Count(j.right)
      BY <3>1, <2>4, <2>6, AppendProperties, NamesOne
    <3>3. f \o <<j.left, j.right>> = h
      BY <2>2, <2>4, <2>5, <3>1
    <3>4. JoinedOn(m, r) = [m EXCEPT !.hr = f \o <<j.left, j.right>>]
      BY <1>3, <2>1, <2>3, <2>7 DEF JoinedOn
    <3>5. JoinedOn(m, r) = [hr |-> h, nhosts |-> m.nhosts]
      BY <3>3, <3>4, <1>1
    <3>6. PICK x : x = JoinedOn(m, r) /\ x.hr = h /\ x.nhosts = m.nhosts
                   /\ x = [hr |-> h, nhosts |-> m.nhosts]
      BY <3>5
    <3>7. x \in ListType
      BY <3>2, <3>6, <2>6, <1>1 DEF ListType
    <3>8. Total(h) = Total(m.hr) + Count(r)
      BY <3>2, <2>2, <2>4, <2>6, <2>7
    <3>9. Excess(x) = m.nhosts - (Total(m.hr) + Count(r))
      BY <3>6, <3>8 DEF Excess
    <3> QED BY <3>6, <3>7, <3>9, <2>2, <2>4, <1>1 DEF Excess
  <2>8. CASE ~ (j.dup < 0)
    <3>1. JoinedOn(m, r) = [hr |-> a, nhosts |-> m.nhosts - j.dup]
      BY <1>3, <2>1, <2>3, <2>5, <2>8 DEF JoinedOn
    <3>2. PICK t \in Int, c \in Int, d \in Int, n \in Int, e \in Int :
            t = Total(f) /\ c = Count(q) /\ d = j.dup /\ n = m.nhosts
              /\ e = Count(r)
      BY <2>2, <2>4, <1>1
    <3>3. Total(a) = t + (c + e - d) /\ Total(m.hr) = t + c
      BY <3>2, <2>2, <2>4, <2>6, <2>8, SMTT(30)
    <3>4. (n - d) - (t + (c + e - d)) = (n - (t + c)) - e
      BY <3>2
    <3>5. n - d \in Int
      BY <3>2
    <3>6. PICK x : x = JoinedOn(m, r) /\ x.hr = a /\ x.nhosts = n - d
                   /\ x = [hr |-> a, nhosts |-> n - d]
      BY <3>1, <3>2
    <3>7. x \in ListType
      BY <3>5, <3>6, <2>6 DEF ListType
    <3>8. Excess(x) = (n - d) - (t + (c + e - d))
      BY <3>3, <3>6 DEF Excess
    <3>9. Excess(m) = n - (t + c)
      BY <3>2, <3>3 DEF Excess
    <3> QED BY <3>2, <3>4, <3>6, <3>7, <3>8, <3>9
  <2> QED BY <2>7, <2>8
<1> QED BY <1>2, <1>3

\* Joining all ranges keeps a list counted right,
LEMMA JoinAllIs ==
  ASSUME NEW l, Whole(l)
  PROVE  Whole(JoinAll(l))
<1> DEFINE V == ListType
           E == GoodRange
           s == l.hr
           b == [l EXCEPT !.hr = <<>>]
           D == [x \in V \X E |-> JoinedOn(x[1], x[2])]
           Is(f) == f = [S \in SUBSET DOMAIN s |->
                           IF S = {} THEN b
                           ELSE JoinedOn(f[S \ {Max(S)}], s[Max(S)])]
           f == CHOOSE f : Is(f)
<1>1. s \in Seq(E) /\ l.nhosts = Total(s) /\ l.nhosts \in Nat
       /\ l = [hr |-> s, nhosts |-> l.nhosts]
  BY ListIs, NamesAre DEF Whole
<1>2. b = [hr |-> <<>>, nhosts |-> l.nhosts]
  BY <1>1
<1>3. b \in V /\ Excess(b) = Total(s)
  <2>1. <<>> \in Seq(GoodRange)
    BY EmptySeq
  <2> HIDE DEF s, b
  <2>2. b.hr = <<>> /\ b.nhosts = l.nhosts
    BY <1>2
  <2> QED BY <1>1, <1>2, <2>1, <2>2, NamesNone DEF ListType, Excess
<1>4. JoinAll(l) = f[DOMAIN s]
  BY DEF JoinAll, JoinedOn, FoldLeft, MapThenFoldSet
<1> HIDE DEF b, s
<1>5. \A p \in V, r \in E : JoinedOn(p, r) \in V
  BY JoinedOnIs
<1>6. D \in [V \X E -> V]
  BY <1>5
<1>7. \A p \in V, r \in E : D[<<p, r>>] = JoinedOn(p, r)
  OBVIOUS
<1>8. \A S \in SUBSET DOMAIN s : S # {} => s[Max(S)] \in E
  BY <1>1, MaxOf
<1> HIDE DEF D, V, E
<1>9. Is(f)
  <2>1. PICK g \in [SUBSET DOMAIN s -> V] : Folded(g, b, D, s)
    BY <1>1, <1>3, <1>6, FoldsSet
  <2>2. ASSUME NEW S \in SUBSET DOMAIN s
        PROVE  g[S] = IF S = {} THEN b
                      ELSE JoinedOn(g[S \ {Max(S)}], s[Max(S)])
    <3>1. CASE S = {}
      BY <3>1, <2>1 DEF Folded
    <3>2. CASE S # {}
      <4>1. g[S] = D[<<g[S \ {Max(S)}], s[Max(S)]>>]
        BY <3>2, <2>1 DEF Folded
      <4>2. S \ {Max(S)} \in SUBSET DOMAIN s
        OBVIOUS
      <4>3. g[S \ {Max(S)}] \in V /\ s[Max(S)] \in E
        BY <4>2, <2>1, <1>8, <3>2
      <4> QED BY <4>1, <4>3, <1>7, <3>2
    <3> QED BY <3>1, <3>2
  <2>3. Is(g)
    BY <2>1, <2>2
  <2> HIDE DEF Is
  <2> QED BY <2>3
<1> HIDE DEF f
<1>10. FoldsTo(f, b, D, s, V)
  <2>1. f[{}] = b
    BY <1>9
  <2>2. ASSUME NEW S \in SUBSET DOMAIN s, S # {}, f[S \ {Max(S)}] \in V
        PROVE  f[S] = D[<<f[S \ {Max(S)}], s[Max(S)]>>]
    BY <2>2, <1>7, <1>8, <1>9
  <2> QED BY <2>1, <2>2 DEF FoldsTo
<1>11. RunsTo(f[DOMAIN s], b, D, s, V)
  BY <1>1, <1>3, <1>6, <1>10, FoldRuns
<1>12. PICK h \in [0 .. Len(s) -> V] : Runs(h, b, D, s)
                                      /\ h[Len(s)] = f[DOMAIN s]
  BY <1>11 DEF RunsTo
<1> DEFINE T == {k \in Nat :
                   k =< Len(s) =>
                     Excess(h[k]) = Total(s) - Total(SubSeq(s, 1, k))}
<1>13. Len(s) \in Nat /\ Total(s) \in Nat
  BY <1>1, NamesAre DEF E
<1>14. 0 \in T
  <2>1. SubSeq(s, 1, 0) = <<>>
    BY SubSeqEmpty
  <2>2. h[0] = b
    BY <1>12 DEF Runs
  <2>3. Total(SubSeq(s, 1, 0)) = 0
    BY <2>1, NamesNone
  <2> QED BY <2>2, <2>3, <1>3, <1>13
<1>15. ASSUME NEW k \in Nat, k \in T PROVE k + 1 \in T
  <2> SUFFICES ASSUME k + 1 =< Len(s)
               PROVE  Excess(h[k + 1]) = Total(s) - Total(SubSeq(s, 1, k + 1))
    OBVIOUS
  <2>1. k + 1 \in 1 .. Len(s) /\ k \in 0 .. Len(s) /\ (k + 1) - 1 = k
    BY <1>13
  <2>2. Excess(h[k]) = Total(s) - Total(SubSeq(s, 1, k))
    BY <2>1, <1>15
  <2>3. h[k + 1] = D[<<h[k], s[k + 1]>>]
    BY <2>1, <1>12 DEF Runs
  <2>4. h[k] \in V /\ s[k + 1] \in E
    BY <2>1, <1>1, ElementOfSeq
  <2>5. h[k + 1] = JoinedOn(h[k], s[k + 1])
    BY <2>3, <2>4, <1>7
  <2>6. Excess(h[k + 1]) = Excess(h[k]) - Count(s[k + 1])
    BY <2>4, <2>5, JoinedOnIs DEF V, E
  <2>7. Total(SubSeq(s, 1, k + 1)) = Total(SubSeq(s, 1, k)) + Count(s[k + 1])
         /\ Total(SubSeq(s, 1, k)) \in Nat /\ Count(s[k + 1]) \in Nat
    BY <2>1, <1>1, UptoNext DEF E
  <2> QED BY <2>2, <2>6, <2>7, <1>13
<1> HIDE DEF T
<1>16. Excess(h[Len(s)]) = Total(s) - Total(SubSeq(s, 1, Len(s)))
  <2>1. \A k \in Nat : k \in T => k + 1 \in T
    BY <1>15
  <2>2. Len(s) \in T
    BY <2>1, <1>13, <1>14, Induction
  <2> QED BY <2>2, <1>13 DEF T
<1>17. SubSeq(s, 1, Len(s)) = s
  BY <1>1, SubSeqFull
<1>18. PICK q : q = h[Len(s)]
  OBVIOUS
<1>19. q \in ListType /\ q.nhosts \in Int /\ Total(q.hr) \in Nat
  <2>1. Len(s) \in 0 .. Len(s)
    BY <1>13
  <2>2. q \in ListType
    BY <2>1, <1>18 DEF V
  <2> QED BY <2>2, ListIs, NamesAre
<1>20. q.nhosts - Total(q.hr) = 0
  BY <1>13, <1>16, <1>17, <1>18 DEF Excess
<1>21. q.nhosts = Total(q.hr)
  BY <1>19, <1>20
<1> QED BY <1>4, <1>12, <1>18, <1>19, <1>21 DEF Whole

\* and so does hostlist_uniq().
LEMMA JoinedIs ==
  ASSUME NEW l, Whole(l), NEW m \in Joined(l)
  PROVE  Whole(m)
<1>1. l.hr \in Seq(GoodRange) /\ l.nhosts = Total(l.hr)
       /\ l = [hr |-> l.hr, nhosts |-> l.nhosts] /\ l.nhosts \in Int
  BY ListIs DEF Whole
<1>2. PICK s \in Orders(l.hr) : m = JoinAll([l EXCEPT !.hr = s])
  BY DEF Joined
<1>3. s \in Seq(GoodRange) /\ Total(s) = Total(l.hr)
  BY <1>1, OrdersAre DEF SortedAs
<1>4. PICK k : k = [l EXCEPT !.hr = s]
  OBVIOUS
<1>5. k = [hr |-> s, nhosts |-> l.nhosts]
  BY <1>1, <1>4
<1>6. Whole(k)
  BY <1>1, <1>3, <1>5 DEF Whole, ListType
<1> QED BY <1>2, <1>4, <1>6, JoinAllIs

(***************************************************************************)
(* Sets.                                                                   *)
(***************************************************************************)

\* An array of two ranges.
LEMMA Pair ==
  ASSUME NEW a \in GoodRange, NEW b \in GoodRange
  PROVE  /\ <<a, b>> \in Seq(GoodRange)
         /\ Total(<<a, b>>) = Count(a) + Count(b)
<1>1. One(a) \in Seq(GoodRange) /\ Total(One(a)) = Count(a)
  BY TotalOf
<1>2. PICK q : q = Append(One(a), b)
  OBVIOUS
<1>3. q \in Seq(GoodRange) /\ Total(q) = Count(a) + Count(b)
  BY <1>1, <1>2, AppendProperties, NamesOne
<1>4. q = <<a, b>>
  <2>1. /\ <<a, b>> \in Seq(GoodRange) /\ Len(<<a, b>>) = 2
        /\ <<a, b>>[1] = a /\ <<a, b>>[2] = b
    OBVIOUS
  <2>2. Len(One(a)) = 1 /\ One(a)[1] = a
    BY TotalOf
  <2>3. Len(q) = 2 /\ q[1] = a /\ q[2] = b
    <3>1. PICK o \in Seq(GoodRange) : o = One(a)
      BY <1>1
    <3>2. /\ Len(q) = Len(o) + 1 /\ q[Len(o) + 1] = b
          /\ \A i \in 1 .. Len(o) : q[i] = o[i]
      BY <3>1, <1>2, AppendProperties
    <3>3. Len(o) = 1 /\ o[1] = a
      BY <3>1, <2>2
    <3>4. 1 \in 1 .. Len(o) /\ 1 + 1 = 2
      BY <3>3
    <3> QED BY <3>2, <3>3, <3>4
  <2>4. PICK p : p = <<a, b>>
    OBVIOUS
  <2>5. p \in Seq(GoodRange) /\ Len(p) = 2 /\ p[1] = a /\ p[2] = b
    BY <2>1, <2>4
  <2>6. \A i \in 1 .. Len(p) : p[i] = q[i]
    BY <2>3, <2>5
  <2>7. p = q
    BY <1>3, <2>3, <2>5, <2>6, SeqEqual
  <2> QED BY <2>4, <2>7
<1> QED BY <1>3, <1>4

\* Ranges i - 1 and i of s, what is in front of them and behind.
CutAround(s, i, a, b) ==
  a = SubSeq(s, 1, i - 2) /\ b = SubSeq(s, i + 1, Len(s))

\* The array is what is in front, the two and what is behind.
LEMMA CutAroundIs ==
  ASSUME NEW s \in Seq(GoodRange), NEW i \in 2 .. Len(s),
         NEW a, NEW b, CutAround(s, i, a, b)
  PROVE  /\ a \in Seq(GoodRange) /\ b \in Seq(GoodRange)
         /\ s[i - 1] \in GoodRange /\ s[i] \in GoodRange
         /\ Len(a) = i - 2 /\ Len(b) = Len(s) - i
         /\ \A j \in 1 .. i - 2 : a[j] = s[j]
         /\ \A j \in 1 .. Len(s) - i : b[j] = s[i + j]
         /\ Total(s) = Total(a) + (Count(s[i - 1]) + Count(s[i])) + Total(b)
<1>1. Len(s) \in Nat
  BY LenProperties
<1>2. i \in 1 .. Len(s) /\ i - 1 \in 1 .. Len(s) /\ (i - 1) - 1 = i - 2
       /\ i - 1 \in Nat
  BY <1>1
<1>3. PICK c : CutInto(s, i, c, b)
  BY DEF CutInto, CutAround
<1>4. /\ c \in Seq(GoodRange) /\ b \in Seq(GoodRange) /\ s[i] \in GoodRange
      /\ Len(b) = Len(s) - i /\ \A j \in 1 .. Len(s) - i : b[j] = s[i + j]
      /\ Total(s) = Total(c) + Count(s[i]) + Total(b)
  BY <1>2, <1>3, CutIs
<1>5. PICK k, d : k = i - 1 /\ CutInto(s, k, a, d)
  BY <1>2 DEF CutInto, CutAround
<1>6. /\ a \in Seq(GoodRange) /\ s[k] \in GoodRange
      /\ Len(a) = k - 1 /\ \A j \in 1 .. k - 1 : a[j] = s[j]
  BY ONLY <1>2, <1>5, CutIs
<1>7. Total(SubSeq(s, 1, k)) = Total(SubSeq(s, 1, k - 1)) + Count(s[k])
  BY <1>2, <1>5, UptoNext
<1>8. c = SubSeq(s, 1, k) /\ a = SubSeq(s, 1, k - 1)
  BY <1>3, <1>5 DEF CutInto
<1>9. Total(a) \in Nat /\ Total(b) \in Nat /\ Count(s[i]) \in Nat
       /\ Count(s[k]) \in Nat
  BY <1>4, <1>6, NamesAre, CountIs
<1>10. Total(s) = Total(a) + (Count(s[k]) + Count(s[i])) + Total(b)
  BY <1>4, <1>7, <1>8, <1>9
<1>11. k - 1 = i - 2
  BY <1>2, <1>5
<1> QED BY <1>4, <1>5, <1>6, <1>10, <1>11

\* p is what is left when range i of l is joined with the one before.
JoinedAt(p, l, i) ==
  /\ p.list \in ListType /\ Excess(p.list) = Excess(l)
  /\ p.dup \in Int /\ p.dup >= 0
  /\ \/ p.dup = 0
     \/ i > 1 /\ p.dup = Join(l.hr[i - 1], l.hr[i]).dup

\* _attempt_range_join() keeps the surplus of a list.
LEMMA JoinAtIs ==
  ASSUME NEW l \in ListType, NEW i \in 1 .. Len(l.hr)
  PROVE  JoinedAt(JoinAt(l, i), l, i)
<1>1. l.hr \in Seq(GoodRange) /\ l.nhosts \in Int /\ Len(l.hr) \in Nat
       /\ l = [hr |-> l.hr, nhosts |-> l.nhosts] /\ Total(l.hr) \in Nat
  BY ListIs, NamesAre, LenProperties
<1>2. CASE i = 1
  <2>1. JoinAt(l, i) = [dup |-> 0, list |-> l]
    BY <1>2 DEF JoinAt
  <2> QED BY <2>1 DEF JoinedAt
<1>3. CASE i # 1
  <2>1. i \in 2 .. Len(l.hr) /\ i > 1
    BY <1>1, <1>3
  <2>2. PICK a, b : CutAround(l.hr, i, a, b)
    BY DEF CutAround
  <2>3. PICK q, r : q = l.hr[i - 1] /\ r = l.hr[i]
    OBVIOUS
  <2>4. /\ a \in Seq(GoodRange) /\ b \in Seq(GoodRange)
        /\ q \in GoodRange /\ r \in GoodRange
        /\ Total(l.hr) = Total(a) + (Count(q) + Count(r)) + Total(b)
    BY <1>1, <2>1, <2>2, <2>3, CutAroundIs
  <2>5. PICK j : j = Join(q, r) /\ JoinedAs(j, q, r)
    BY <2>4, JoinIs
  <2>6. /\ j.dup \in Int /\ j.left \in GoodRange /\ j.right \in GoodRange
        /\ j.dup < 0 => Count(j.left) = Count(q) /\ Count(j.right) = Count(r)
        /\ j.dup >= 0 => Count(j.left) = Count(q) + Count(r) - j.dup
    BY <2>5 DEF JoinedAs
  <2>7. Count(j.left) \in Nat /\ Count(j.right) \in Nat /\ Count(q) \in Nat
         /\ Count(r) \in Nat
    BY <2>4, <2>6, CountIs
  <2>8. CASE j.dup < 0
    <3>1. PICK m : m = <<j.left, j.right>>
      OBVIOUS
    <3>2. m \in Seq(GoodRange) /\ Total(m) = Count(q) + Count(r)
      BY <3>1, <2>6, <2>8, Pair
    <3>3. PICK h : h = a \o m \o b
      OBVIOUS
    <3>4. h \in Seq(GoodRange) /\ Total(h) = Total(l.hr)
      BY <3>2, <3>3, <2>4, ThreeParts
    <3>5. JoinAt(l, i) = [dup |-> 0, list |-> [l EXCEPT !.hr = h]]
      BY <3>1, <3>3, <2>2, <2>3, <2>5, <2>8, <1>3 DEF JoinAt, CutAround
    <3>6. [l EXCEPT !.hr = h] = [hr |-> h, nhosts |-> l.nhosts]
      BY <1>1
    <3>7. JoinAt(l, i).dup = 0
           /\ JoinAt(l, i).list = [hr |-> h, nhosts |-> l.nhosts]
      BY <3>5, <3>6
    <3> QED BY <3>4, <3>7, <1>1 DEF JoinedAt, ListType, Excess
  <2>9. CASE ~ (j.dup < 0)
    <3>1. PICK m : m = One(j.left)
      OBVIOUS
    <3>2. m \in Seq(GoodRange) /\ Total(m) = Count(q) + Count(r) - j.dup
      BY <3>1, <2>6, <2>9, TotalOf
    <3>3. PICK h : h = a \o m \o b
      OBVIOUS
    <3>4. h \in Seq(GoodRange) /\ Total(h) = Total(a) + Total(m) + Total(b)
           /\ Total(a) \in Nat /\ Total(b) \in Nat
      BY <3>2, <3>3, <2>4, ThreeParts
    <3>5. Total(h) = Total(l.hr) - j.dup
      BY <3>2, <3>4, <2>4, <2>6, <2>7, SMTT(30)
    <3>6. JoinAt(l, i) = [dup |-> j.dup,
                          list |-> [hr |-> h, nhosts |-> l.nhosts - j.dup]]
      BY <3>1, <3>3, <2>2, <2>3, <2>5, <2>9, <1>3 DEF JoinAt, CutAround, One
    <3>7. PICK n : n = l.nhosts - j.dup
      OBVIOUS
    <3>8. JoinAt(l, i).dup = j.dup
           /\ JoinAt(l, i).list = [hr |-> h, nhosts |-> n]
      BY <3>6, <3>7
    <3>9. n \in Int /\ n - Total(h) = l.nhosts - Total(l.hr)
      BY <3>5, <3>7, <1>1, <2>6
    <3>10. [hr |-> h, nhosts |-> n] \in ListType
            /\ Excess([hr |-> h, nhosts |-> n]) = Excess(l)
      BY <3>4, <3>9 DEF ListType, Excess
    <3> QED BY <3>8, <3>10, <2>1, <2>3, <2>5, <2>6, <2>9 DEF JoinedAt
  <2> QED BY <2>8, <2>9
<1> QED BY <1>2, <1>3

\* l is the list after r went into it: the hosts are counted right if what r
\* has in common with the range before it is not counted twice.
InsertedAs(q, l, r) ==
  /\ q \in ListType
  /\ InsertsRight(l, r) => Excess(q) = Excess(l)

\* The first range that r is not behind, or 0.
Place(l, r) == SelectInSeq(l.hr, LAMBDA s : Cmp(r, s) <= 0)

\* It is a place of the array.
LEMMA PlaceIs ==
  ASSUME NEW l \in ListType, NEW r
  PROVE  Place(l, r) \in 0 .. Len(l.hr)
<1> DEFINE I == {i \in 1 .. Len(l.hr) : Cmp(r, l.hr[i]) <= 0}
<1>1. Place(l, r) = IF I # {} THEN Min(I) ELSE 0
  BY DEF Place, SelectInSeq
<1>2. Len(l.hr) \in Nat
  BY ListIs, LenProperties
<1>3. I \in SUBSET Nat
  OBVIOUS
<1>4. I # {} => Min(I) \in I
  <2> HIDE DEF I
  <2> QED BY <1>3, MinIs
<1> QED BY <1>1, <1>2, <1>4

\* hostset_insert_range() does that.
LEMMA InsertRangeIs ==
  ASSUME NEW l \in ListType, NEW r \in GoodRange
  PROVE  InsertedAs(InsertRange(l, r), l, r)
<1> DEFINE s == l.hr
<1>1. s \in Seq(GoodRange) /\ l.nhosts \in Int /\ Len(s) \in Nat
       /\ l = [hr |-> s, nhosts |-> l.nhosts] /\ Total(s) \in Nat
       /\ Count(r) \in Nat
  BY ListIs, NamesAre, LenProperties, CountIs
<1>2. PICK i \in 0 .. Len(s) : i = Place(l, r)
  BY PlaceIs
<1>3. CASE i = 0
  <2>1. PICK a : a = Append(s, r)
    OBVIOUS
  <2>2. a \in Seq(GoodRange) /\ Total(a) = Total(s) + Count(r)
         /\ Len(a) = Len(s) + 1
    BY <1>1, <2>1, AppendProperties, NamesOne
  <2>3. PICK m : m = [hr |-> a, nhosts |-> l.nhosts + Count(r)]
    OBVIOUS
  <2>4. m.hr = a /\ m \in ListType /\ Excess(m) = Excess(l)
    BY <1>1, <2>2, <2>3 DEF ListType, Excess
  <2>5. InsertRange(l, r) = JoinAt(m, Len(s) + 1).list
    BY <1>2, <1>3, <2>1, <2>3 DEF InsertRange, Place
  <2>6. Len(s) + 1 \in 1 .. Len(m.hr)
    BY <1>1, <2>2, <2>4
  <2>7. JoinedAt(JoinAt(m, Len(s) + 1), m, Len(s) + 1)
    BY <2>4, <2>6, JoinAtIs
  <2> QED BY <2>4, <2>5, <2>7 DEF JoinedAt, InsertedAs
<1>4. CASE i # 0
  <2>1. i \in 1 .. Len(s) /\ i > 0
    BY <1>1, <1>4
  <2>2. PICK a, b : CutInto(s, i, a, b)
    BY DEF CutInto
  <2>3. PICK q : q = s[i]
    OBVIOUS
  <2>4. /\ a \in Seq(GoodRange) /\ b \in Seq(GoodRange) /\ q \in GoodRange
        /\ Len(a) = i - 1 /\ \A k \in 1 .. i - 1 : a[k] = s[k]
        /\ Total(s) = Total(a) + Count(q) + Total(b)
    BY <1>1, <2>1, <2>2, <2>3, CutIs
  <2>5. PICK j : j = Join(r, q) /\ JoinedAs(j, r, q)
    BY <2>4, JoinIs
  <2>6. /\ j.dup \in Int /\ j.dup >= -1
        /\ j.left \in GoodRange /\ j.right \in GoodRange
        /\ j.dup < 0 => Count(j.left) = Count(r) /\ Count(j.right) = Count(q)
        /\ j.dup >= 0 => Count(j.left) = Count(r) + Count(q) - j.dup
    BY <2>5 DEF JoinedAs
  <2>7. Count(j.left) \in Nat /\ Count(j.right) \in Nat /\ Count(q) \in Nat
    BY <2>4, <2>6, CountIs
  <2>8. PICK d \in Nat : d = Larger(j.dup, 0)
    BY <2>6 DEF Larger
  <2>9. (j.dup < 0 => d = 0) /\ (j.dup >= 0 => d = j.dup)
    BY <2>6, <2>8 DEF Larger
  <2>10. PICK c : c = One(j.left)
    OBVIOUS
  <2>11. PICK e : e = IF j.dup < 0 THEN One(j.right) ELSE <<>>
    OBVIOUS
  <2>12. /\ c \in Seq(GoodRange) /\ e \in Seq(GoodRange)
         /\ Len(c) = 1 /\ c[1] = j.left
         /\ Total(c) + Total(e) = Count(r) + Count(q) - d
    <3>1. c \in Seq(GoodRange) /\ Len(c) = 1 /\ c[1] = j.left
           /\ Total(c) = Count(j.left)
      BY <2>6, <2>10, TotalOf
    <3>2. CASE j.dup < 0
      <4>1. e \in Seq(GoodRange) /\ Total(e) = Count(j.right)
        BY <3>2, <2>6, <2>11, TotalOf
      <4> QED BY <4>1, <3>1, <3>2, <2>6, <2>7, <2>9
    <3>3. CASE ~ (j.dup < 0)
      <4>1. e = <<>> /\ <<>> \in Seq(GoodRange)
        BY <3>3, <2>11, EmptySeq
      <4> QED BY <4>1, <3>1, <3>3, <2>6, <2>7, <2>9, <1>1, NamesNone
    <3> QED BY <3>2, <3>3
  <2>13. PICK f : f = a \o c
    OBVIOUS
  <2>14. /\ f \in Seq(GoodRange) /\ Total(f) = Total(a) + Total(c)
         /\ Len(f) = i /\ f[i] = j.left
         /\ \A k \in 1 .. i - 1 : f[k] = s[k]
    <3>1. f \in Seq(GoodRange) /\ Total(f) = Total(a) + Total(c)
      BY <2>4, <2>12, <2>13, NamesCat
    <3>2. Len(f) = Len(a) + Len(c) /\ \A k \in 1 .. Len(a) + Len(c) :
            f[k] = IF k <= Len(a) THEN a[k] ELSE c[k - Len(a)]
      BY <2>4, <2>12, <2>13, ConcatProperties
    <3>3. (i - 1) + 1 = i /\ i \in 1 .. i /\ i - (i - 1) = 1
           /\ ~ (i <= i - 1)
      BY <2>1
    <3>4. Len(f) = i /\ \A k \in 1 .. i :
            f[k] = IF k <= i - 1 THEN a[k] ELSE c[k - (i - 1)]
      BY <3>2, <3>3, <2>4, <2>12
    <3>5. f[i] = j.left
      BY <3>3, <3>4, <2>12
    <3>6. \A k \in 1 .. i - 1 : f[k] = s[k]
      BY <3>4, <2>1, <2>4
    <3> QED BY <3>1, <3>4, <3>5, <3>6
  <2>15. PICK h : h = f \o e \o b
    OBVIOUS
  <2>16. /\ h \in Seq(GoodRange)
         /\ Total(h) = Total(f) + Total(e) + Total(b)
         /\ Total(f) \in Nat /\ Total(e) \in Nat /\ Total(b) \in Nat
    BY <2>4, <2>12, <2>14, <2>15, ThreeParts
  <2>17. Len(h) >= i /\ Len(h) \in Nat /\ \A k \in 1 .. i : h[k] = f[k]
    <3>1. PICK g : g = f \o e
      OBVIOUS
    <3>2. g \in Seq(GoodRange) /\ Len(g) = Len(f) + Len(e)
           /\ \A k \in 1 .. Len(f) + Len(e) :
                g[k] = IF k <= Len(f) THEN f[k] ELSE e[k - Len(f)]
      BY <3>1, <2>12, <2>14, ConcatProperties
    <3>3. Len(h) = Len(g) + Len(b)
           /\ \A k \in 1 .. Len(g) + Len(b) :
                h[k] = IF k <= Len(g) THEN g[k] ELSE b[k - Len(g)]
      BY <3>1, <3>2, <2>4, <2>15, ConcatProperties
    <3>4. PICK n \in Nat, m \in Nat : n = Len(e) /\ m = Len(b)
      BY <2>4, <2>12, LenProperties
    <3>5. Len(g) = i + n
      BY <3>2, <3>4, <2>14
    <3>6. Len(h) = (i + n) + m
      BY <3>3, <3>4, <3>5
    <3>7. ASSUME NEW k \in 1 .. i PROVE h[k] = f[k]
      <4>1. k \in 1 .. i + n /\ k <= i /\ k \in 1 .. (i + n) + m /\ k <= i + n
        BY <3>4
      <4>2. h[k] = g[k]
        BY <4>1, <3>3, <3>4, <3>5
      <4>3. g[k] = f[k]
        BY <4>1, <3>2, <3>4, <2>14
      <4> QED BY <4>2, <4>3
    <3> QED BY <3>6, <3>7, <2>1
  <2>18. PICK m : m = [hr |-> h, nhosts |-> l.nhosts]
    OBVIOUS
  <2>19. m \in ListType /\ m.hr = h /\ m.nhosts = l.nhosts
    BY <1>1, <2>16, <2>18 DEF ListType
  <2>20. Total(h) = Total(s) + Count(r) - d
    <3>1. PICK t \in Nat, u \in Nat, v \in Nat :
            t = Total(a) /\ u = Total(c) /\ v = Total(e)
      BY <2>4, <2>12, NamesAre
    <3>2. u + v = Count(r) + Count(q) - d
      BY <3>1, <2>12
    <3>3. Total(h) = (t + u) + v + Total(b)
      BY <3>1, <2>14, <2>16
    <3>4. Total(s) = t + Count(q) + Total(b)
      BY <3>1, <2>4
    <3>5. PICK x \in Nat, y \in Nat, z \in Nat :
            x = Count(q) /\ y = Total(b) /\ z = Count(r)
      BY <1>1, <2>7, <2>16
    <3>6. u + v = z + x - d /\ Total(h) = (t + u) + v + y
           /\ Total(s) = t + x + y
      BY <3>2, <3>3, <3>4, <3>5
    <3>7. (t + u) + v + y = (t + x + y) + z - d
      BY <3>6
    <3> QED BY <3>5, <3>6, <3>7
  <2>21. i \in 1 .. Len(m.hr)
    BY <2>1, <2>17, <2>19
  <2>22. PICK p : p = JoinAt(m, i) /\ JoinedAt(p, m, i)
    BY <2>19, <2>21, JoinAtIs, SMTT(30)
  <2>23. InsertRange(l, r) = [p.list EXCEPT
                                !.nhosts = @ + Count(r) - d - p.dup]
    <3>1. <<j.left>> = c /\ (IF j.dup < 0 THEN <<j.right>> ELSE <<>>) = e
      BY <2>10, <2>11 DEF One
    <3>2. [l EXCEPT !.hr = h] = m
      BY <1>1, <2>18
    <3>3. SubSeq(s, 1, i - 1) \o <<j.left>>
            \o (IF j.dup < 0 THEN <<j.right>> ELSE <<>>)
            \o SubSeq(s, i + 1, Len(s)) = h
      BY <3>1, <2>2, <2>13, <2>15 DEF CutInto
    <3>4. [l EXCEPT !.hr = SubSeq(@, 1, i - 1) \o <<j.left>>
              \o (IF j.dup < 0 THEN <<j.right>> ELSE <<>>)
              \o SubSeq(@, i + 1, Len(@))] = m
      BY <3>2, <3>3
    <3> QED BY <3>4, <1>2, <1>4, <2>3, <2>5, <2>8, <2>22 DEF InsertRange, Place
  <2>24. p.list \in ListType /\ Excess(p.list) = Excess(m) /\ p.dup \in Int
          /\ p.dup >= 0
          /\ (p.dup = 0 \/ (i > 1 /\ p.dup = Join(h[i - 1], h[i]).dup))
    BY <2>19, <2>22 DEF JoinedAt
  <2>25. InsertsRight(l, r) => p.dup = 0
    <3> SUFFICES ASSUME InsertsRight(l, r), i > 1,
                        p.dup = Join(h[i - 1], h[i]).dup
                 PROVE  p.dup = 0
      BY <2>24
    <3>1. Join(l.hr[i - 1], j.left).dup <= 0
      BY <1>2, <2>1, <2>3, <2>5 DEF InsertsRight, Place
    <3>2. h[i] = j.left /\ h[i - 1] = s[i - 1]
      <4>1. i \in 1 .. i /\ i - 1 \in 1 .. i - 1 /\ i - 1 \in 1 .. i
        BY <2>1
      <4> QED BY <4>1, <2>14, <2>17
    <3> QED BY <3>1, <3>2, <2>24
  <2>26. PICK k \in Seq(GoodRange), n \in Int :
           p.list = [hr |-> k, nhosts |-> n]
    BY <2>24, ListIs
  <2>27. Total(k) \in Nat
    BY <2>26, NamesAre
  <2>28. n - Total(k) = l.nhosts - Total(h)
    BY <2>19, <2>24, <2>26 DEF Excess
  <2>29. PICK g \in Int : g = n + Count(r) - d - p.dup
    BY <1>1, <2>8, <2>24
  <2>30. InsertRange(l, r) = [hr |-> k, nhosts |-> g]
    BY <2>23, <2>26, <2>29
  <2>31. p.dup = 0 => g - Total(k) = l.nhosts - Total(s)
    BY <1>1, <2>8, <2>20, <2>27, <2>28, <2>29, SMTT(30)
  <2>32. [hr |-> k, nhosts |-> g] \in ListType
          /\ Excess([hr |-> k, nhosts |-> g]) = g - Total(k)
    BY <2>26, <2>29 DEF ListType, Excess
  <2> QED BY <2>25, <2>30, <2>31, <2>32 DEF InsertedAs, Excess
<1> QED BY <1>3, <1>4

\* A run over a longer sequence is the same up to what is longer.
LEMMA RunsSame ==
  ASSUME NEW E, NEW s \in Seq(E), NEW e \in E, NEW b, NEW D, NEW h, NEW g,
         NEW t, t = Append(s, e), Runs(h, b, D, s), Runs(g, b, D, t)
  PROVE  g[Len(t)] = D[<<h[Len(s)], e>>]
<1>1. PICK n \in Nat : n = Len(s)
  BY LenProperties
<1>2. Len(t) = n + 1 /\ t[n + 1] = e /\ \A i \in 1 .. n : t[i] = s[i]
  BY <1>1, AppendProperties
<1>3. /\ h[0] = b /\ \A k \in 1 .. n : h[k] = D[<<h[k - 1], s[k]>>]
      /\ g[0] = b /\ \A k \in 1 .. n + 1 : g[k] = D[<<g[k - 1], t[k]>>]
  BY <1>1, <1>2 DEF Runs
<1> DEFINE T == {k \in Nat : k =< n => g[k] = h[k]}
<1>4. 0 \in T
  BY <1>3
<1>5. ASSUME NEW k \in Nat, k \in T PROVE k + 1 \in T
  <2> SUFFICES ASSUME k + 1 =< n PROVE g[k + 1] = h[k + 1]
    OBVIOUS
  <2>1. k + 1 \in 1 .. n /\ k + 1 \in 1 .. n + 1 /\ (k + 1) - 1 = k /\ k =< n
    OBVIOUS
  <2>2. g[k] = h[k]
    BY <2>1, <1>5
  <2>3. g[k + 1] = D[<<g[k], t[k + 1]>>]
    BY <2>1, <1>3
  <2>4. h[k + 1] = D[<<h[k], s[k + 1]>>]
    BY <2>1, <1>3
  <2>5. t[k + 1] = s[k + 1]
    BY <2>1, <1>2
  <2> QED BY <2>2, <2>3, <2>4, <2>5
<1> HIDE DEF T
<1>6. n \in T
  <2>1. \A k \in Nat : k \in T => k + 1 \in T
    BY <1>5
  <2> QED BY <2>1, <1>4, Induction
<1>7. g[n] = h[n]
  BY <1>6 DEF T
<1>8. n + 1 \in 1 .. n + 1 /\ (n + 1) - 1 = n
  OBVIOUS
<1> QED BY <1>1, <1>2, <1>3, <1>7, <1>8

\* Ranges are inserted one after the other.
Inserted == [x \in ListType \X GoodRange |-> InsertRange(x[1], x[2])]

\* Inserting ranges is a run over them.
LEMMA InsertAllRuns ==
  ASSUME NEW l \in ListType, NEW s \in Seq(GoodRange)
  PROVE  RunsTo(InsertAll(l, s), l, Inserted, s, ListType)
<1> DEFINE V == ListType
           E == GoodRange
           D == Inserted
           Is(f) == f = [S \in SUBSET DOMAIN s |->
                           IF S = {} THEN l
                           ELSE InsertRange(f[S \ {Max(S)}], s[Max(S)])]
           f == CHOOSE f : Is(f)
<1>1. InsertAll(l, s) = f[DOMAIN s]
  BY DEF InsertAll, FoldLeft, MapThenFoldSet
<1>2. \A p \in V, r \in E : InsertRange(p, r) \in V
  BY InsertRangeIs DEF InsertedAs
<1>3. D \in [V \X E -> V]
  BY <1>2 DEF Inserted
<1>4. \A p \in V, r \in E : D[<<p, r>>] = InsertRange(p, r)
  BY DEF Inserted
<1>5. \A S \in SUBSET DOMAIN s : S # {} => s[Max(S)] \in E
  BY MaxOf
<1>6. l \in V /\ s \in Seq(E)
  OBVIOUS
<1> HIDE DEF D, V, E
<1>7. Is(f)
  <2>1. PICK g \in [SUBSET DOMAIN s -> V] : Folded(g, l, D, s)
    BY <1>3, <1>6, FoldsSet
  <2>2. ASSUME NEW S \in SUBSET DOMAIN s
        PROVE  g[S] = IF S = {} THEN l
                      ELSE InsertRange(g[S \ {Max(S)}], s[Max(S)])
    <3>1. CASE S = {}
      BY <3>1, <2>1 DEF Folded
    <3>2. CASE S # {}
      <4>1. g[S] = D[<<g[S \ {Max(S)}], s[Max(S)]>>]
        BY <3>2, <2>1 DEF Folded
      <4>2. S \ {Max(S)} \in SUBSET DOMAIN s
        OBVIOUS
      <4>3. g[S \ {Max(S)}] \in V /\ s[Max(S)] \in E
        BY <4>2, <2>1, <1>5, <3>2
      <4> QED BY <4>1, <4>3, <1>4, <3>2
    <3> QED BY <3>1, <3>2
  <2>3. Is(g)
    BY <2>1, <2>2
  <2> HIDE DEF Is
  <2> QED BY <2>3
<1> HIDE DEF f
<1>8. FoldsTo(f, l, D, s, V)
  <2>1. f[{}] = l
    BY <1>7
  <2>2. ASSUME NEW S \in SUBSET DOMAIN s, S # {}, f[S \ {Max(S)}] \in V
        PROVE  f[S] = D[<<f[S \ {Max(S)}], s[Max(S)]>>]
    BY <2>2, <1>4, <1>5, <1>7
  <2> QED BY <2>1, <2>2 DEF FoldsTo
<1>9. RunsTo(f[DOMAIN s], l, D, s, V)
  BY <1>3, <1>6, <1>8, FoldRuns
<1> QED BY <1>1, <1>9 DEF D, V

\* The last of them goes into what the others have made.
LEMMA InsertAllStep ==
  ASSUME NEW l \in ListType, NEW s \in Seq(GoodRange), NEW e \in GoodRange
  PROVE  /\ InsertAll(l, s) \in ListType
         /\ InsertAll(l, Append(s, e)) = InsertRange(InsertAll(l, s), e)
         /\ InsertAll(l, <<>>) = l
<1>1. PICK t : t = Append(s, e)
  OBVIOUS
<1>2. t \in Seq(GoodRange)
  BY <1>1, AppendProperties
<1>3. PICK h \in [0 .. Len(s) -> ListType] :
        Runs(h, l, Inserted, s) /\ h[Len(s)] = InsertAll(l, s)
  BY InsertAllRuns DEF RunsTo
<1>4. PICK g : Runs(g, l, Inserted, t) /\ g[Len(t)] = InsertAll(l, t)
  BY <1>2, InsertAllRuns DEF RunsTo
<1>5. g[Len(t)] = Inserted[<<h[Len(s)], e>>]
  BY <1>1, <1>3, <1>4, RunsSame, SMTT(30)
<1>6. InsertAll(l, s) \in ListType
  BY <1>3, LenProperties
<1>7. InsertAll(l, <<>>) = l
  <2>1. PICK n : n = <<>>
    OBVIOUS
  <2>2. n \in Seq(GoodRange) /\ Len(n) = 0
    BY <2>1, EmptySeq
  <2>3. PICK k : Runs(k, l, Inserted, n) /\ k[Len(n)] = InsertAll(l, n)
    BY <2>2, InsertAllRuns DEF RunsTo
  <2>4. k[0] = l
    BY <2>3 DEF Runs
  <2> QED BY <2>1, <2>2, <2>3, <2>4
<1>8. Inserted[<<InsertAll(l, s), e>>] = InsertRange(InsertAll(l, s), e)
  BY <1>6 DEF Inserted
<1> QED BY <1>1, <1>3, <1>4, <1>5, <1>6, <1>7, <1>8

\* Each range goes into what those before it have become, and is counted right.
AllRight(l, s) ==
  \A k \in 1 .. Len(s) : InsertsRight(InsertAll(l, SubSeq(s, 1, k - 1)), s[k])

\* hostset_insert() keeps a set counted right if all go in right.
LEMMA InsertAllIs ==
  ASSUME NEW l, Whole(l), NEW s \in Seq(GoodRange), AllRight(l, s)
  PROVE  Whole(InsertAll(l, s))
<1>1. l \in ListType /\ l.nhosts = Total(l.hr) /\ l.nhosts \in Int
       /\ Total(l.hr) \in Nat
  BY ListIs, NamesAre DEF Whole
<1>2. PICK n \in Nat : n = Len(s)
  BY LenProperties
<1> DEFINE at(k) == InsertAll(l, SubSeq(s, 1, k))
           T == {k \in Nat : k =< n => at(k) \in ListType /\ Excess(at(k)) = 0}
<1>3. 0 \in T
  <2>1. SubSeq(s, 1, 0) = <<>>
    BY SubSeqEmpty
  <2>2. PICK e : e = <<>>
    OBVIOUS
  <2>3. InsertAll(l, e) = l
    <3>1. PICK k : Runs(k, l, Inserted, e) /\ k[Len(e)] = InsertAll(l, e)
      BY <2>2, <1>1, EmptySeq, InsertAllRuns DEF RunsTo
    <3>2. Len(e) = 0
      BY <2>2
    <3> QED BY <3>1, <3>2 DEF Runs
  <2>4. at(0) = l
    BY <2>1, <2>2, <2>3
  <2>5. Excess(l) = 0
    BY <1>1 DEF Excess
  <2> HIDE DEF at
  <2> QED BY <2>4, <2>5, <1>1
<1>4. ASSUME NEW k \in Nat, k \in T PROVE k + 1 \in T
  <2> SUFFICES ASSUME k + 1 =< n
               PROVE  at(k + 1) \in ListType /\ Excess(at(k + 1)) = 0
    OBVIOUS
  <2>1. PICK j : j = k + 1
    OBVIOUS
  <2>2. j \in 1 .. Len(s) /\ j - 1 = k /\ k =< n
    BY <2>1, <1>2
  <2>3. at(k) \in ListType /\ Excess(at(k)) = 0
    BY <2>2, <1>4
  <2>4. /\ SubSeq(s, 1, j) = Append(SubSeq(s, 1, k), s[j])
        /\ SubSeq(s, 1, k) \in Seq(GoodRange)
    BY <2>2, UptoNext
  <2>5. s[j] \in GoodRange
    BY <2>2, ElementOfSeq
  <2>6. at(j) = InsertRange(at(k), s[j])
    <3>1. PICK u \in Seq(GoodRange), e \in GoodRange :
            u = SubSeq(s, 1, k) /\ e = s[j]
      BY <2>4, <2>5
    <3>2. InsertAll(l, Append(u, e)) = InsertRange(InsertAll(l, u), e)
      BY <1>1, InsertAllStep
    <3> QED BY <3>1, <3>2, <2>4
  <2>7. InsertsRight(at(k), s[j])
    BY <2>2 DEF AllRight
  <2>8. InsertedAs(InsertRange(at(k), s[j]), at(k), s[j])
    BY <2>3, <2>5, InsertRangeIs
  <2> HIDE DEF at
  <2> QED BY <2>1, <2>3, <2>6, <2>7, <2>8 DEF InsertedAs
<1> HIDE DEF T
<1>5. n \in T
  <2>1. \A k \in Nat : k \in T => k + 1 \in T
    BY <1>4
  <2> QED BY <2>1, <1>3, Induction
<1>6. SubSeq(s, 1, n) = s
  BY <1>2, SubSeqFull
<1>7. PICK q : q = InsertAll(l, s)
  OBVIOUS
<1>8. q \in ListType /\ Excess(q) = 0
  <2> HIDE DEF at
  <2>1. at(n) \in ListType /\ Excess(at(n)) = 0
    BY <1>5 DEF T
  <2> QED BY <2>1, <1>6, <1>7 DEF at
<1>9. q.nhosts \in Int /\ Total(q.hr) \in Nat
  BY <1>8, ListIs, NamesAre
<1>10. q.nhosts = Total(q.hr)
  BY <1>8, <1>9 DEF Excess
<1> QED BY <1>7, <1>8, <1>10 DEF Whole

====
