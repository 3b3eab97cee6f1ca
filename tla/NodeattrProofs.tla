---- MODULE NodeattrProofs ----
(***************************************************************************)
(* What nodeattr answers is right for every file, however many lines,      *)
(* nodes and attributes it has.  Each command is a loop over nodes; the    *)
(* invariant says of each loop that what it has done and what it still has *)
(* to do make up the answer.  It rests on what the lines of a file say of  *)
(* a node (Raw), on what the library answers from them, and on the sorted  *)
(* lists, which keep the elements they are given.                          *)
(***************************************************************************)
EXTENDS Nodeattr, DataInduction, FiniteSetTheorems, SequenceTheorems, TLAPS

(***************************************************************************)
(* Sequences that list a set, and the ones that are flattened.             *)
(***************************************************************************)

\* s has the elements of S, each of them once.
Lists(s, S) ==
  /\ s \in Seq(S) /\ Len(s) = Cardinality(S)
  /\ IsInjective(s)
  /\ ToSet(s) = S

\* What stands in a sequence stands somewhere in it.
LEMMA ToSetIs ==
  \A s, E : s \in Seq(E) => \A e : e \in ToSet(s) <=> \E i \in 1 .. Len(s) : s[i] = e
BY DEF ToSet

\* A sequence in which no element stands twice.
LEMMA InjectiveIs ==
  \A s, E : s \in Seq(E) =>
    (IsInjective(s) <=> \A i, j \in 1 .. Len(s) : s[i] = s[j] => i = j)
BY DEF IsInjective

\* As many places as elements, and no element twice: all are there.
LEMMA EnumIs ==
  ASSUME NEW S, IsFiniteSet(S), NEW f \in [1 .. Cardinality(S) -> S],
         \A i, j \in 1 .. Cardinality(S) : f[i] = f[j] => i = j
  PROVE  Lists(f, S)
<1> DEFINE n == Cardinality(S)
<1>1. n \in Nat
  BY FS_CardinalityType
<1>2. IsFiniteSet(1 .. n) /\ Cardinality(1 .. n) = n
  <2>1. 1 \in Int /\ n \in Int
    BY <1>1
  <2>2. Cardinality(1 .. n) = IF 1 > n THEN 0 ELSE n - 1 + 1
    BY <2>1, FS_Interval
  <2>3. IsFiniteSet(1 .. n)
    BY <2>1, FS_Interval
  <2> QED BY <2>2, <2>3, <1>1
<1>3. f \in Injection(1 .. n, S)
  BY DEF Injection, IsInjective
<1>4. f \in Surjection(1 .. n, S)
  BY <1>2, <1>3, FS_Injection
<1>5. f \in Seq(S) /\ Len(f) = n
  BY <1>1
<1>6. \A y \in S : \E i \in 1 .. n : f[i] = y
  BY <1>4 DEF Surjection
<1>7. ToSet(f) = S
  <2>1. \A e : e \in ToSet(f) <=> \E i \in 1 .. n : f[i] = e
    BY <1>5, ToSetIs
  <2>2. \A i \in 1 .. n : f[i] \in S
    OBVIOUS
  <2> HIDE DEF n
  <2> QED BY ONLY <2>1, <2>2, <1>6
<1>8. IsInjective(f)
  BY <1>5, InjectiveIs
<1> QED BY <1>5, <1>7, <1>8 DEF Lists

\* SetToSeq lists a finite set.
LEMMA SetToSeqLists ==
  ASSUME NEW S, IsFiniteSet(S)
  PROVE  Lists(SetToSeq(S), S)
<1> DEFINE Is(f) == f \in [1 .. Cardinality(S) -> S] /\ IsInjective(f)
           f == CHOOSE f : Is(f)
<1>1. PICK g : g \in Bijection(1 .. Cardinality(S), S)
  BY FS_CardinalityType DEF ExistsBijection
<1>2. Is(g)
  BY <1>1 DEF Bijection, Injection
<1>3. Is(f)
  <2> HIDE DEF Is
  <2> QED BY <1>2
<1>4. SetToSeq(S) = f
  BY DEF SetToSeq
<1> HIDE DEF f
<1>5. f \in [1 .. Cardinality(S) -> S]
      /\ \A i, j \in 1 .. Cardinality(S) : f[i] = f[j] => i = j
  BY <1>3 DEF IsInjective
<1> QED BY <1>4, <1>5, EnumIs

\* r rises along s.
Rises(s, r) == \A i, j \in 1 .. Len(s) : i < j => r[s[i]] =< r[s[j]]

\* One more element has its place in a list that rises.
LEMMA RisingPut ==
  ASSUME NEW S, NEW x \in S, IsFiniteSet(S), NEW r \in [S -> Int],
         NEW s, Lists(s, S \ {x}), Rises(s, r)
  PROVE  \E t \in [1 .. Cardinality(S) -> S] : Lists(t, S) /\ Rises(t, r)
<1> DEFINE n == Len(s)
           R == S \ {x}
<1>1. /\ s \in Seq(R) /\ n = Cardinality(R) /\ IsInjective(s)
      /\ n \in Nat
  BY DEF Lists
<1>2. Cardinality(S) = n + 1
  <2>1. IsFiniteSet(R) /\ x \notin R /\ R \cup {x} = S
    BY FS_Subset
  <2>2. Cardinality(R \cup {x}) = Cardinality(R) + 1
    BY <2>1, FS_AddElement
  <2> QED BY <2>1, <2>2, <1>1
<1>3. \A i \in 1 .. n : s[i] \in S /\ s[i] # x /\ r[s[i]] \in Int
  BY <1>1
<1>4. r[x] \in Int
  OBVIOUS
<1> DEFINE K == {k \in Nat : k >= 1 /\ k =< n + 1
                            /\ (k = n + 1 \/ r[s[k]] > r[x])}
<1>5. PICK k \in K : \A m \in K : k =< m
  <2>1. n + 1 \in K
    BY <1>1
  <2> HIDE DEF K
  <2> QED BY <2>1, NatMin DEF K
<1>6. \A i \in 1 .. n : i < k => r[s[i]] =< r[x]
  <2> SUFFICES ASSUME NEW i \in 1 .. n, i < k, ~ (r[s[i]] =< r[x]) PROVE FALSE
    OBVIOUS
  <2>1. r[s[i]] > r[x]
    BY <1>3, <1>4
  <2>2. i \in K
    BY <2>1, <1>1
  <2> QED BY <2>2, <1>5
<1>7. \A i \in 1 .. n : i >= k => r[x] =< r[s[i]]
  <2> SUFFICES ASSUME NEW i \in 1 .. n, i >= k PROVE r[x] =< r[s[i]]
    OBVIOUS
  <2>1. k \in 1 .. n /\ r[s[k]] > r[x]
    BY <1>5, <1>1
  <2>2. k = i \/ r[s[k]] =< r[s[i]]
    BY <2>1 DEF Rises
  <2> QED BY <2>1, <2>2, <1>3, <1>4
<1> DEFINE t == [i \in 1 .. n + 1 |-> IF i < k THEN s[i]
                                     ELSE IF i = k THEN x ELSE s[i - 1]]
<1>8. k \in 1 .. n + 1
  BY <1>5
<1>9. \A i \in 1 .. n + 1 : /\ i < k => i \in 1 .. n
                            /\ i > k => i - 1 \in 1 .. n
  BY <1>8, <1>1
<1> HIDE DEF n, K, R
<1>10. /\ \A i \in 1 .. n + 1 : i < k => t[i] = s[i] /\ i \in 1 .. n
       /\ \A i \in 1 .. n + 1 : i > k => t[i] = s[i - 1] /\ i - 1 \in 1 .. n
       /\ t[k] = x
  BY <1>8, <1>9, <1>1
<1>11. t \in [1 .. n + 1 -> S]
  <2> SUFFICES ASSUME NEW i \in 1 .. n + 1 PROVE t[i] \in S
    OBVIOUS
  <2>1. i < k \/ i = k \/ i > k
    BY <1>8, <1>1
  <2> HIDE DEF t
  <2> QED BY <2>1, <1>3, <1>10
<1>15. Len(t) = n + 1 /\ n + 1 \in Nat
  BY <1>11, <1>1
<1> HIDE DEF t
<1>12. \A i, j \in 1 .. n : s[i] = s[j] => i = j
  BY <1>1, InjectiveIs DEF n
<1>13. ASSUME NEW i \in 1 .. n + 1, NEW j \in 1 .. n + 1, i < j
       PROVE  t[i] # t[j] /\ r[t[i]] =< r[t[j]]
  <2>0. i \in Int /\ j \in Int /\ k \in Int
    BY <1>8
  <2>1. CASE j < k
    <3>1. t[i] = s[i] /\ t[j] = s[j] /\ i \in 1 .. n /\ j \in 1 .. n /\ i # j
      BY <2>1, <1>10, <1>13, <2>0
    <3>2. r[s[i]] =< r[s[j]]
      BY <3>1, <1>13 DEF Rises, n
    <3> QED BY <3>1, <3>2, <1>12
  <2>2. CASE j = k
    <3>1. t[i] = s[i] /\ t[j] = x /\ i \in 1 .. n /\ i < k
      BY <2>2, <1>10, <1>13, <2>0
    <3> QED BY <3>1, <1>3, <1>6
  <2>3. CASE i = k
    <3>1. t[j] = s[j - 1] /\ t[i] = x /\ j - 1 \in 1 .. n /\ j - 1 >= k
      BY <2>3, <1>10, <1>13, <2>0
    <3> QED BY <3>1, <1>3, <1>7
  <2>4. CASE i < k /\ j > k
    <3>1. t[i] = s[i] /\ t[j] = s[j - 1] /\ i \in 1 .. n /\ j - 1 \in 1 .. n
          /\ i < j - 1 
      BY <2>4, <1>10, <2>0
    <3>2. r[s[i]] =< r[s[j - 1]]
      BY <3>1 DEF Rises, n
    <3> QED BY <3>1, <3>2, <1>12
  <2>5. CASE i > k
    <3>1. t[i] = s[i - 1] /\ t[j] = s[j - 1] /\ i - 1 \in 1 .. n
          /\ j - 1 \in 1 .. n /\ i - 1 < j - 1
      BY <2>5, <1>10, <2>0, <1>13
    <3>2. r[s[i - 1]] =< r[s[j - 1]]
      BY <3>1 DEF Rises, n
    <3> QED BY <3>1, <3>2, <1>12
  <2> QED BY <2>0, <2>1, <2>2, <2>3, <2>4, <2>5
<1>14. \A i, j \in 1 .. n + 1 : t[i] = t[j] => i = j
  <2> SUFFICES ASSUME NEW i \in 1 .. n + 1, NEW j \in 1 .. n + 1, i # j
               PROVE  t[i] # t[j]
    OBVIOUS
  <2>1. i \in Int /\ j \in Int
    OBVIOUS
  <2>2. i < j \/ j < i
    BY <2>1
  <2> QED BY <2>2, <1>13
<1>16. Lists(t, S)
  BY <1>2, <1>11, <1>14, EnumIs
<1>17. Rises(t, r)
  BY <1>13, <1>15 DEF Rises
<1> QED BY <1>2, <1>11, <1>16, <1>17

\* The subsets of U with n elements can be put into order.
Ordered(U, r, n) ==
  \A S \in SUBSET U : IsFiniteSet(S) /\ Cardinality(S) = n =>
    \E t \in [1 .. n -> S] : Lists(t, S) /\ Rises(t, r)

\* A finite set can be listed so that the ranks rise.
LEMMA RisingExists ==
  ASSUME NEW S, IsFiniteSet(S), NEW r \in [S -> Int]
  PROVE  \E t \in [1 .. Cardinality(S) -> S] : Lists(t, S) /\ Rises(t, r)
<1> DEFINE T == {n \in Nat : Ordered(S, r, n)}
<1>1. 0 \in T
  <2> SUFFICES ASSUME NEW Q \in SUBSET S, IsFiniteSet(Q), Cardinality(Q) = 0
               PROVE  \E t \in [1 .. 0 -> Q] : Lists(t, Q) /\ Rises(t, r)
    BY DEF Ordered
  <2> DEFINE t == SetToSeq(Q)
  <2>1. Lists(t, Q)
    BY SetToSeqLists
  <2> HIDE DEF t
  <2>2. t \in Seq(Q) /\ Len(t) = 0
    BY <2>1 DEF Lists
  <2>3. t \in [1 .. 0 -> Q] /\ Rises(t, r)
    BY <2>2 DEF Rises
  <2> QED BY <2>1, <2>3
<1>2. ASSUME NEW n \in Nat, n \in T PROVE n + 1 \in T
  <2> SUFFICES ASSUME NEW Q \in SUBSET S, IsFiniteSet(Q), Cardinality(Q) = n + 1
               PROVE  \E t \in [1 .. n + 1 -> Q] : Lists(t, Q) /\ Rises(t, r)
    BY DEF Ordered
  <2>1. Q # {}
    BY FS_EmptySet
  <2>2. PICK x \in Q : TRUE
    BY <2>1
  <2>3. IsFiniteSet(Q \ {x}) /\ Cardinality(Q \ {x}) = n /\ Q \ {x} \in SUBSET S
    <3>1. Cardinality(Q \ {x}) = (n + 1) - 1
      BY <2>2, FS_RemoveElement
    <3> QED BY <3>1, FS_RemoveElement
  <2>4. PICK s \in [1 .. n -> Q \ {x}] : Lists(s, Q \ {x}) /\ Rises(s, r)
    BY <2>3, <1>2 DEF Ordered
  <2> DEFINE q == [y \in Q |-> r[y]]
  <2>5. q \in [Q -> Int] /\ \A y \in Q : q[y] = r[y]
    OBVIOUS
  <2> HIDE DEF q
  <2>6. Rises(s, q)
    <3>1. s \in Seq(Q \ {x})
      BY <2>4 DEF Lists
    <3> QED BY <3>1, <2>4, <2>5 DEF Rises
  <2>7. PICK t \in [1 .. Cardinality(Q) -> Q] : Lists(t, Q) /\ Rises(t, q)
    BY <2>2, <2>4, <2>5, <2>6, RisingPut
  <2>8. Rises(t, r)
    <3>1. t \in Seq(Q)
      BY <2>7 DEF Lists
    <3> QED BY <3>1, <2>7, <2>5 DEF Rises
  <2> QED BY <2>7, <2>8
<1> HIDE DEF T
<1>3. Cardinality(S) \in T
  BY <1>1, <1>2, Induction, FS_CardinalityType
<1> QED BY <1>3 DEF T, Ordered

\* hostlist_sort() loses no node and doubles none.
LEMMA SortedLists ==
  ASSUME NEW S \in SUBSET Node, IsFiniteSet(S)
  PROVE  Lists(Sorted(S), S)
<1> DEFINE r == [n \in S |-> Rank[n]]
           Is(s) == s \in SetToSeqs(S)
                    /\ \A i, j \in DOMAIN s : i < j => Rank[s[i]] =< Rank[s[j]]
           f == CHOOSE s : Is(s)
<1>1. r \in [S -> Int] /\ \A n \in S : r[n] = Rank[n]
  BY NodeattrAssumption
<1> HIDE DEF r
<1>2. PICK t \in [1 .. Cardinality(S) -> S] : Lists(t, S) /\ Rises(t, r)
  BY <1>1, RisingExists
<1>3. /\ t \in Seq(S) /\ Len(t) = Cardinality(S) /\ IsInjective(t)
  BY <1>2 DEF Lists
<1>4. Is(t)
  <2>1. t \in SetToSeqs(S)
    BY <1>2, <1>3, InjectiveIs DEF SetToSeqs
  <2>2. ASSUME NEW i \in DOMAIN t, NEW j \in DOMAIN t, i < j
        PROVE  Rank[t[i]] =< Rank[t[j]]
    <3>1. i \in 1 .. Len(t) /\ j \in 1 .. Len(t)
      BY <1>3
    <3> QED BY <3>1, <1>1, <1>2, <1>3, <2>2 DEF Rises
  <2> QED BY <2>1, <2>2
<1>5. Is(f)
  <2> HIDE DEF Is
  <2> QED BY <1>4
<1>6. Sorted(S) = f
  BY DEF Sorted
<1> HIDE DEF f
<1>7. f \in [1 .. Cardinality(S) -> S]
      /\ \A i, j \in 1 .. Cardinality(S) : f[i] = f[j] => i = j
  BY <1>5 DEF SetToSeqs
<1> QED BY <1>6, <1>7, EnumIs

\* The first element of a sequence and the rest of it.
LEMMA TailIs ==
  ASSUME NEW E, NEW s \in Seq(E), s # <<>>
  PROVE  /\ Tail(s) \in Seq(E) /\ Head(s) \in E /\ Head(s) \in ToSet(s)
         /\ ToSet(s) = {Head(s)} \cup ToSet(Tail(s))
         /\ IsInjective(s) => /\ IsInjective(Tail(s))
                              /\ Head(s) \notin ToSet(Tail(s))
<1> DEFINE t == Tail(s)
           n == Len(t)
<1>1. /\ t \in Seq(E) /\ Head(s) = s[1] /\ s[1] \in E
      /\ Len(s) = n + 1 /\ n \in Nat
      /\ \A i \in 1 .. n : t[i] = s[i + 1]
  <2>1. Len(s) \in Nat /\ Len(s) # 0
    OBVIOUS
  <2>2. Len(t) = Len(s) - 1
    BY <2>1
  <2> QED BY <2>1, <2>2
<1> HIDE DEF t
<1>2. \A e : e \in ToSet(s) <=> \E i \in 1 .. n + 1 : s[i] = e
  BY <1>1, ToSetIs
<1>3. \A e : e \in ToSet(t) <=> \E i \in 1 .. n : t[i] = e
  BY <1>1, ToSetIs
<1>4. \A e : e \in ToSet(s) <=> e = s[1] \/ e \in ToSet(t)
  <2> SUFFICES ASSUME NEW e PROVE e \in ToSet(s) <=> e = s[1] \/ e \in ToSet(t)
    OBVIOUS
  <2>1. ASSUME e \in ToSet(s), e # s[1] PROVE e \in ToSet(t)
    <3>1. PICK i \in 1 .. n + 1 : s[i] = e
      BY <2>1, <1>2
    <3>2. i - 1 \in 1 .. n /\ (i - 1) + 1 = i
      BY <3>1, <2>1, <1>1
    <3>3. t[i - 1] = e
      BY <3>1, <3>2, <1>1
    <3> QED BY <3>2, <3>3, <1>3
  <2>2. ASSUME e \in ToSet(t) PROVE e \in ToSet(s)
    <3>1. PICK i \in 1 .. n : t[i] = e
      BY <2>2, <1>3
    <3>2. i + 1 \in 1 .. n + 1
      BY <1>1
    <3> QED BY <3>1, <3>2, <1>1, <1>2
  <2>3. 1 \in 1 .. n + 1
    BY <1>1
  <2> QED BY <2>1, <2>2, <2>3, <1>2
<1>5. ASSUME IsInjective(s) PROVE IsInjective(t) /\ s[1] \notin ToSet(t)
  <2>1. \A i, j \in 1 .. n + 1 : s[i] = s[j] => i = j
    BY <1>5, <1>1, InjectiveIs
  <2>2. \A i \in 1 .. n : i + 1 \in 1 .. n + 1 /\ i + 1 # 1 /\ 1 \in 1 .. n + 1
    BY <1>1
  <2>3. ASSUME NEW i \in 1 .. n, NEW j \in 1 .. n, t[i] = t[j] PROVE i = j
    <3>1. s[i + 1] = s[j + 1]
      BY <2>3, <1>1
    <3>2. i + 1 = j + 1
      BY <3>1, <2>1, <2>2
    <3> QED BY <3>2, <1>1
  <2>4. \A i \in 1 .. n : t[i] # s[1]
    BY <1>1, <2>1, <2>2
  <2>5. IsInjective(t)
    BY <2>3, <1>1, InjectiveIs
  <2> QED BY <2>4, <2>5, <1>3
<1> QED BY <1>1, <1>4, <1>5 DEF t

\* The last element of a sequence and what is before it.
LEMMA FrontIs ==
  ASSUME NEW E, NEW s \in Seq(E), s # <<>>
  PROVE  /\ Front(s) \in Seq(E) /\ Last(s) \in E /\ Last(s) \in ToSet(s)
         /\ ToSet(s) = {Last(s)} \cup ToSet(Front(s))
         /\ Len(Front(s)) = Len(s) - 1
<1> DEFINE t == Front(s)
<1>1. PICK n \in Nat : Len(s) = n + 1
  <2>1. Len(s) \in Nat /\ Len(s) # 0
    OBVIOUS
  <2> QED BY <2>1
<1>2. /\ t \in Seq(E) /\ Len(t) = n /\ \A i \in 1 .. n : t[i] = s[i]
      /\ \A i \in 1 .. n + 1 : s[i] \in E
  <2>1. t = SubSeq(s, 1, n)
    BY <1>1 DEF Front
  <2>2. \A i \in 1 .. n + 1 : s[i] \in E
    BY <1>1
  <2>3. \A i \in 1 .. n : s[i] \in E
    BY <2>2
  <2>4. t = [i \in 1 .. n |-> s[i]]
    BY <2>1, <1>1
  <2> QED BY <2>2, <2>3, <2>4
<1>3. Last(s) = s[n + 1]
  BY <1>1 DEF Last
<1> HIDE DEF t
<1>4. \A e : e \in ToSet(s) <=> \E i \in 1 .. n + 1 : s[i] = e
  BY <1>1, ToSetIs
<1>5. \A e : e \in ToSet(t) <=> \E i \in 1 .. n : t[i] = e
  BY <1>2, ToSetIs
<1>6. n + 1 \in 1 .. n + 1 /\ \A i \in 1 .. n : i \in 1 .. n + 1
  BY <1>1
<1>7. \A i \in 1 .. n + 1 : i = n + 1 \/ i \in 1 .. n
  BY <1>1
<1>8. \A e : e \in ToSet(s) <=> e = s[n + 1] \/ e \in ToSet(t)
  BY <1>2, <1>4, <1>5, <1>6, <1>7
<1>9. n = Len(s) - 1
  BY <1>1
<1> QED BY <1>2, <1>3, <1>6, <1>8, <1>9 DEF t

\* One more element at the end.
LEMMA AppendIs ==
  ASSUME NEW E, NEW s \in Seq(E), NEW x \in E
  PROVE  /\ Append(s, x) \in Seq(E) /\ Len(Append(s, x)) = Len(s) + 1
         /\ ToSet(Append(s, x)) = ToSet(s) \cup {x}
         /\ IsInjective(s) /\ x \notin ToSet(s) => IsInjective(Append(s, x))
<1> DEFINE t == Append(s, x)
<1>1. PICK n \in Nat : Len(s) = n
  OBVIOUS
<1>2. /\ t \in Seq(E) /\ Len(t) = n + 1 /\ t[n + 1] = x
      /\ \A i \in 1 .. n : t[i] = s[i]
  BY <1>1
<1> HIDE DEF t
<1>3. \A e : e \in ToSet(s) <=> \E i \in 1 .. n : s[i] = e
  BY <1>1, ToSetIs
<1>4. \A e : e \in ToSet(t) <=> \E i \in 1 .. n + 1 : t[i] = e
  BY <1>2, ToSetIs
<1>5. n + 1 \in 1 .. n + 1 /\ \A i \in 1 .. n : i \in 1 .. n + 1
  BY <1>1
<1>6. \A i \in 1 .. n + 1 : i = n + 1 \/ i \in 1 .. n
  BY <1>1
<1>7. \A e : e \in ToSet(t) <=> e = x \/ e \in ToSet(s)
  BY <1>2, <1>3, <1>4, <1>5, <1>6
<1>8. ASSUME IsInjective(s), x \notin ToSet(s) PROVE IsInjective(t)
  <2>1. \A i, j \in 1 .. n : s[i] = s[j] => i = j
    BY <1>1, <1>8, InjectiveIs
  <2>2. \A i \in 1 .. n : s[i] # x
    BY <1>3, <1>8
  <2>3. \A i, j \in 1 .. n + 1 : t[i] = t[j] => i = j
    BY <2>1, <2>2, <1>2, <1>6
  <2> QED BY <2>3, <1>2, InjectiveIs
<1> QED BY <1>1, <1>2, <1>7, <1>8 DEF t

\* The elements of a sequence are finitely many.
LEMMA ToSetFinite ==
  ASSUME NEW E, NEW s \in Seq(E)
  PROVE  IsFiniteSet(ToSet(s)) /\ ToSet(s) \subseteq E
<1>1. PICK n \in Nat : Len(s) = n
  OBVIOUS
<1>2. s \in [1 .. n -> ToSet(s)] /\ \A y \in ToSet(s) : \E i \in 1 .. n : s[i] = y
  BY <1>1, ToSetIs
<1>3. s \in Surjection(1 .. n, ToSet(s))
  BY <1>2 DEF Surjection
<1>4. IsFiniteSet(1 .. n)
  BY FS_Interval
<1>5. IsFiniteSet(ToSet(s))
  BY <1>3, <1>4, FS_Surjection
<1> QED BY <1>5, <1>1, ToSetIs

\* No two of the sequences in s share an element, none has one twice.
OneByOne(s) ==
  /\ \A i \in 1 .. Len(s) : IsInjective(s[i])
  /\ \A i, j \in 1 .. Len(s) : i # j => ToSet(s[i]) \cap ToSet(s[j]) = {}

\* h is what the sequences in s come to, one after the other.
Joined(h, s, E) ==
  /\ h \in [1 .. Len(s) -> Seq(E)]
  /\ \A i \in 1 .. Len(s) :
       h[i] = IF i = 1 THEN s[i] ELSE h[i - 1] \o s[i]

\* What stands in the sequences stands in the one they are joined to.
LEMMA FlattenIs ==
  ASSUME NEW E, NEW s \in Seq(Seq(E)), Len(s) # 0
  PROVE  \E h : Joined(h, s, E) /\ FlattenSeq(s) = h[Len(s)]
<1>1. PICK n \in Nat : Len(s) = n /\ n # 0
  OBVIOUS
<1> DEFINE S == 1 .. n
           V == Seq(E)
           D == [x \in S \X [S -> V] |->
                   IF x[1] = 1 THEN s[x[1]] ELSE x[2][x[1] - 1] \o s[x[1]]]
           m == [x \in S |-> x]
<1>2. \A i \in S : s[i] \in V
  BY <1>1
<1>3. \A i \in S : i # 1 => i - 1 \in S /\ i - 1 < i
  OBVIOUS
<1>4. D \in [S \X [S -> V] -> V]
  <2> SUFFICES ASSUME NEW x \in S, NEW f \in [S -> V]
               PROVE  (IF x = 1 THEN s[x] ELSE f[x - 1] \o s[x]) \in V
    OBVIOUS
  <2>1. s[x] \in Seq(E) /\ (x # 1 => f[x - 1] \in Seq(E))
    BY <1>2, <1>3
  <2> QED BY <2>1
<1>5. \A x \in S, f \in [S -> V] :
        D[<<x, f>>] = IF x = 1 THEN s[x] ELSE f[x - 1] \o s[x]
  OBVIOUS
<1>6. m \in [S -> 0 .. n] /\ \A x \in S : m[x] = x
  BY <1>1
<1> HIDE DEF D, m
<1>7. ASSUME NEW x \in S, NEW f \in [S -> V], NEW g \in [S -> V],
             \A y \in S : m[y] < m[x] => f[y] = g[y]
      PROVE  D[<<x, f>>] = D[<<x, g>>]
  <2>1. x # 1 => f[x - 1] = g[x - 1]
    BY <1>3, <1>6, <1>7
  <2> HIDE DEF S, V
  <2>2. D[<<x, f>>] = IF x = 1 THEN s[x] ELSE f[x - 1] \o s[x]
    BY <1>5
  <2>3. D[<<x, g>>] = IF x = 1 THEN s[x] ELSE g[x - 1] \o s[x]
    BY <1>5
  <2> QED BY <2>1, <2>2, <2>3
<1>8. V # {}
  <2>1. <<>> \in Seq(E)
    OBVIOUS
  <2> QED BY <2>1
<1>9. Recursion(S, V, n, m, D)
  <2> HIDE DEF V, S
  <2> QED BY <1>4, <1>6, <1>7, <1>8 DEF Recursion
<1>10. PICK h \in [S -> V] : \A x \in S : h[x] = D[<<x, h>>]
  <2> HIDE DEF S, V
  <2> QED BY <1>9, RecursionExists
<1>11. \A i \in S : h[i] = IF i = 1 THEN s[i] ELSE h[i - 1] \o s[i]
  BY <1>10, <1>5
<1> DEFINE Is(f) == f = [i \in 1 .. Len(s) |-> IF i = 1 THEN s[i]
                                             ELSE f[i - 1] \o s[i]]
           f == CHOOSE f : Is(f)
<1>12. Is(h)
  BY <1>1, <1>10, <1>11
<1>13. Is(f)
  <2> HIDE DEF Is
  <2> QED BY <1>12
<1>14. FlattenSeq(s) = f[Len(s)]
  BY <1>1 DEF FlattenSeq
<1> HIDE DEF f
<1>15. \A i \in S : f[i] = IF i = 1 THEN s[i] ELSE f[i - 1] \o s[i]
  BY <1>1, <1>13
<1>16. DOMAIN f = S /\ f = [i \in S |-> f[i]]
  BY <1>1, <1>13
<1> DEFINE T == {k \in Nat : k + 1 \in S => f[k + 1] = h[k + 1]}
<1> HIDE DEF S, V
<1>17. 0 \in T
  <2>1. 1 \in S => f[1] = h[1]
    BY <1>11, <1>15
  <2>2. 0 + 1 = 1 /\ 0 \in Nat
    OBVIOUS
  <2> QED BY <2>1, <2>2
<1>18. ASSUME NEW k \in Nat, k \in T PROVE k + 1 \in T
  <2> SUFFICES ASSUME (k + 1) + 1 \in S PROVE f[(k + 1) + 1] = h[(k + 1) + 1]
    OBVIOUS
  <2> DEFINE i == (k + 1) + 1
  <2>1. i \in S /\ i # 1 /\ i - 1 = k + 1
    OBVIOUS
  <2>2. k + 1 \in S
    BY <2>1, <1>3
  <2>3. f[k + 1] = h[k + 1]
    BY <2>2, <1>18
  <2> HIDE DEF i
  <2>4. f[i] = f[i - 1] \o s[i] /\ h[i] = h[i - 1] \o s[i]
    BY <2>1, <1>11, <1>15
  <2>5. f[i] = h[i]
    BY <2>1, <2>3, <2>4
  <2> QED BY <2>5 DEF i
<1> HIDE DEF T
<1>19. Nat \subseteq T
  BY <1>17, <1>18, Induction
<1>20. n \in S /\ n - 1 \in Nat /\ (n - 1) + 1 = n
  BY <1>1 DEF S
<1>21. f[n] = h[n]
  BY <1>19, <1>20 DEF T
<1>22. Joined(h, s, E)
  BY <1>1, <1>10, <1>11 DEF Joined, S, V
<1> QED BY <1>1, <1>14, <1>21, <1>22

Cat(s, t) == s \o t

\* What Cat says is what FlattenSeq computes, step by step.
LEMMA CatIs ==
  ASSUME NEW E, NEW s \in Seq(E), NEW t \in Seq(E)
  PROVE  /\ Cat(s, t) \in Seq(E)
         /\ ToSet(Cat(s, t)) = ToSet(s) \cup ToSet(t)
         /\ IsInjective(s) /\ IsInjective(t) /\ ToSet(s) \cap ToSet(t) = {}
              => IsInjective(Cat(s, t))
<1> DEFINE u == Cat(s, t)
<1>1. PICK m \in Nat : Len(s) = m
  OBVIOUS
<1>2. PICK n \in Nat : Len(t) = n
  OBVIOUS
<1>3. /\ u \in Seq(E) /\ Len(u) = m + n
      /\ \A i \in 1 .. m : u[i] = s[i] /\ i \in 1 .. m + n
      /\ \A i \in 1 .. n : u[m + i] = t[i] /\ m + i \in 1 .. m + n
  BY <1>1, <1>2 DEF Cat
<1> HIDE DEF u
<1>4. \A e : e \in ToSet(s) <=> \E i \in 1 .. m : s[i] = e
  BY <1>1, ToSetIs
<1>5. \A e : e \in ToSet(t) <=> \E i \in 1 .. n : t[i] = e
  BY <1>2, ToSetIs
<1>6. \A e : e \in ToSet(u) <=> \E i \in 1 .. m + n : u[i] = e
  BY <1>3, ToSetIs
<1>7. \A k \in 1 .. m + n :
        k \in 1 .. m \/ \E i \in 1 .. n : k = m + i
  <2> SUFFICES ASSUME NEW k \in 1 .. m + n, k \notin 1 .. m
               PROVE  \E i \in 1 .. n : k = m + i
    OBVIOUS
  <2>1. k - m \in 1 .. n /\ k = m + (k - m)
    OBVIOUS
  <2> QED BY <2>1
<1>8. \A e : e \in ToSet(u) <=> e \in ToSet(s) \/ e \in ToSet(t)
  <2>1. ASSUME NEW e \in ToSet(u) PROVE e \in ToSet(s) \/ e \in ToSet(t)
    <3>1. PICK k \in 1 .. m + n : u[k] = e
      BY <1>6
    <3>2. CASE k \in 1 .. m
      BY <3>1, <3>2, <1>3, <1>4
    <3>3. CASE \E i \in 1 .. n : k = m + i
      BY <3>1, <3>3, <1>3, <1>5
    <3> QED BY <3>2, <3>3, <1>7
  <2>2. ASSUME NEW e, e \in ToSet(s) \/ e \in ToSet(t) PROVE e \in ToSet(u)
    <3>1. CASE e \in ToSet(s)
      BY <3>1, <1>3, <1>4, <1>6
    <3>2. CASE e \in ToSet(t)
      BY <3>2, <1>3, <1>5, <1>6
    <3> QED BY <2>2, <3>1, <3>2
  <2> QED BY <2>1, <2>2
<1>9. ASSUME IsInjective(s), IsInjective(t), ToSet(s) \cap ToSet(t) = {}
      PROVE  IsInjective(u)
  <2>1. \A i, j \in 1 .. m : s[i] = s[j] => i = j
    BY <1>1, <1>9, InjectiveIs
  <2>2. \A i, j \in 1 .. n : t[i] = t[j] => i = j
    BY <1>2, <1>9, InjectiveIs
  <2>3. \A i \in 1 .. m, j \in 1 .. n : s[i] # t[j]
    BY <1>4, <1>5, <1>9
  <2>4. \A i, j \in 1 .. m + n : u[i] = u[j] => i = j
    <3> SUFFICES ASSUME NEW i \in 1 .. m + n, NEW j \in 1 .. m + n, u[i] = u[j]
                 PROVE  i = j
      OBVIOUS
    <3>1. CASE i \in 1 .. m /\ j \in 1 .. m
      BY <3>1, <2>1, <1>3
    <3>2. CASE i \in 1 .. m /\ \E k \in 1 .. n : j = m + k
      <4>1. PICK k \in 1 .. n : j = m + k
        BY <3>2
      <4>2. u[i] = s[i] /\ u[j] = t[k]
        BY ONLY <4>1, <3>2, <1>3
      <4>3. s[i] # t[k]
        BY ONLY <3>2, <2>3
      <4> QED BY ONLY <4>2, <4>3, u[i] = u[j]
    <3>3. CASE j \in 1 .. m /\ \E k \in 1 .. n : i = m + k
      <4>1. PICK k \in 1 .. n : i = m + k
        BY <3>3
      <4>2. u[j] = s[j] /\ u[i] = t[k]
        BY ONLY <4>1, <3>3, <1>3
      <4>3. s[j] # t[k]
        BY ONLY <3>3, <2>3
      <4> QED BY ONLY <4>2, <4>3, u[i] = u[j]
    <3>4. CASE (\E k \in 1 .. n : i = m + k) /\ \E k \in 1 .. n : j = m + k
      <4>1. PICK k \in 1 .. n : i = m + k
        BY <3>4
      <4>2. PICK l \in 1 .. n : j = m + l
        BY <3>4
      <4>3. u[i] = t[k] /\ u[j] = t[l]
        BY <4>1, <4>2, <1>3
      <4> QED BY <4>1, <4>2, <4>3, <2>2
    <3> QED BY <3>1, <3>2, <3>3, <3>4, <1>7
  <2> QED BY <2>4, <1>3, InjectiveIs
<1> QED BY <1>3, <1>8, <1>9 DEF u

\* What flattening keeps: the elements, and that there is one of each.
LEMMA FlatIs ==
  ASSUME NEW E, NEW s \in Seq(Seq(E))
  PROVE  /\ FlattenSeq(s) \in Seq(E)
         /\ \A e : e \in ToSet(FlattenSeq(s)) <=>
                     \E i \in 1 .. Len(s) : e \in ToSet(s[i])
         /\ OneByOne(s) => IsInjective(FlattenSeq(s))
<1>1. PICK n \in Nat : Len(s) = n
  OBVIOUS
<1>2. CASE n = 0
  <2> DEFINE z == FlattenSeq(s)
  <2>1. z = s
    BY <1>1, <1>2 DEF FlattenSeq
  <2>2. z \in Seq(E) /\ Len(z) = 0
    BY <2>1, <1>1, <1>2
  <2> HIDE DEF z
  <2>3. ToSet(z) = {}
    <3>1. \A e : e \in ToSet(z) <=> \E i \in 1 .. Len(z) : z[i] = e
      BY <2>2, ToSetIs
    <3> QED BY <3>1, <2>2
  <2>4. IsInjective(z)
    <3>1. \A i, j \in 1 .. Len(z) : z[i] = z[j] => i = j
      BY <2>2
    <3> QED BY <3>1, <2>2, InjectiveIs
  <2>5. \A i \in 1 .. Len(s) : FALSE
    BY <1>1, <1>2
  <2> QED BY <2>2, <2>3, <2>4, <2>5 DEF z
<1>3. CASE n # 0
  <2>1. PICK h : Joined(h, s, E) /\ FlattenSeq(s) = h[n]
    BY <1>1, <1>3, FlattenIs
  <2>2. /\ \A i \in 1 .. n : h[i] \in Seq(E) /\ s[i] \in Seq(E)
        /\ \A i \in 1 .. n : h[i] = IF i = 1 THEN s[i] ELSE Cat(h[i - 1], s[i])
    BY <1>1, <2>1 DEF Joined, Cat
  <2> DEFINE Is(k) ==
        /\ \A e : e \in ToSet(h[k]) <=> \E i \in 1 .. k : e \in ToSet(s[i])
        /\ OneByOne(s) => IsInjective(h[k])
             T == {k \in Nat : k + 1 \in 1 .. n => Is(k + 1)}
  <2>3. 0 \in T
    <3> SUFFICES ASSUME 1 \in 1 .. n PROVE Is(1)
      OBVIOUS
    <3>1. h[1] = s[1]
      BY <2>2
    <3>2. \A i \in 1 .. 1 : i = 1
      OBVIOUS
    <3>3. OneByOne(s) => IsInjective(s[1])
      BY <1>1 DEF OneByOne
    <3>4. 1 \in 1 .. 1
      OBVIOUS
    <3> QED BY <3>1, <3>2, <3>3, <3>4
  <2>4. ASSUME NEW k \in Nat, k \in T PROVE k + 1 \in T
    <3> SUFFICES ASSUME (k + 1) + 1 \in 1 .. n PROVE Is((k + 1) + 1)
      OBVIOUS
    <3> DEFINE i == (k + 1) + 1
               j == k + 1
    <3>1. i \in 1 .. n /\ i # 1 /\ i - 1 = j /\ j \in 1 .. n /\ j \in Nat
          /\ i = j + 1
      BY <1>1
    <3>2. Is(j)
      BY <3>1, <2>4
    <3> HIDE DEF i, j, T
    <3>3. h[i] = Cat(h[j], s[i]) /\ h[j] \in Seq(E) /\ s[i] \in Seq(E)
      BY <3>1, <2>2
    <3>4. /\ ToSet(h[i]) = ToSet(h[j]) \cup ToSet(s[i])
          /\ IsInjective(h[j]) /\ IsInjective(s[i])
             /\ ToSet(h[j]) \cap ToSet(s[i]) = {} => IsInjective(h[i])
      BY <3>3, CatIs
    <3>5. \A l : l \in 1 .. i <=> l \in 1 .. j \/ l = i
      BY <3>1
    <3>6. \A e : e \in ToSet(h[i]) <=> \E l \in 1 .. i : e \in ToSet(s[l])
      BY <3>2, <3>4, <3>5
    <3>7. ASSUME OneByOne(s) PROVE IsInjective(h[i])
      <4>1. IsInjective(s[i])
        BY <3>1, <3>7, <1>1 DEF OneByOne
      <4>2. ASSUME NEW e \in ToSet(h[j]), e \in ToSet(s[i]) PROVE FALSE
        <5>1. PICK l \in 1 .. j : e \in ToSet(s[l])
          BY <4>2, <3>2
        <5>2. l \in 1 .. n /\ l # i
          BY <3>1, <1>1
        <5>3. ToSet(s[l]) \cap ToSet(s[i]) = {}
          BY <3>1, <3>7, <5>2, <1>1 DEF OneByOne
        <5> QED BY <5>1, <5>3, <4>2
      <4>3. ToSet(h[j]) \cap ToSet(s[i]) = {}
        BY <4>2
      <4> QED BY <4>1, <4>3, <3>2, <3>4, <3>7
    <3>8. Is(i)
      BY <3>6, <3>7
    <3> QED BY <3>8 DEF i
  <2> HIDE DEF T
  <2>5. Nat \subseteq T
    BY <2>3, <2>4, Induction
  <2>6. n - 1 \in Nat /\ (n - 1) + 1 = n /\ n \in 1 .. n
    BY <1>3
  <2>7. Is(n)
    BY <2>5, <2>6 DEF T
  <2> QED BY <1>1, <2>1, <2>2, <2>6, <2>7
<1> QED BY <1>2, <1>3

(***************************************************************************)
(* What the lines of a file say.                                           *)
(***************************************************************************)

Pair == Attr \X (Value \cup {NoValue})

\* Lines that _duplicate_attr_checks() has passed.
Lines(L) == L \in Seq(GendersHosts) /\ NoDuplicateAttrsIn(L)

\* Lines that genders_load_data() leaves.
Loaded(L) ==
  /\ Lines(L)
  /\ \A i \in DOMAIN L : L[i].hl # <<>> /\ IsFiniteSet(AttrsIn(L[i].attrval_index))

\* The line i gives the attribute a to the node n.
Gives(L, i, n, a) ==
  /\ i \in 1 .. Len(L) /\ n \in NodesIn(L[i].hl)
  /\ a \in Attr /\ L[i].attrval_index[a] # Absent

\* The value as the file has it.
Raw(L, n, a) ==
  IF \E i \in 1 .. Len(L) : Gives(L, i, n, a)
  THEN L[CHOOSE i \in 1 .. Len(L) : Gives(L, i, n, a)].attrval_index[a]
  ELSE Absent

\* The parts of a line.
LEMMA LineIs ==
  ASSUME NEW L, Lines(L), NEW i \in 1 .. Len(L)
  PROVE  /\ L[i].hl \in Seq(Node)
         /\ L[i].attrval_index \in [Attr -> Value \cup {NoValue, Absent}]
         /\ NodesIn(L[i].hl) \subseteq Node
         /\ NodesIn(L[i].hl) = ToSet(L[i].hl)
         /\ DOMAIN L = 1 .. Len(L)
<1>1. L[i] \in GendersHosts /\ DOMAIN L = 1 .. Len(L)
  BY DEF Lines
<1>2. L[i].hl \in Seq(Node) /\ L[i].attrval_index \in [Attr -> Value \cup {NoValue, Absent}]
  BY <1>1 DEF GendersHosts, AttrVals
<1>3. NodesIn(L[i].hl) = ToSet(L[i].hl)
  BY <1>2 DEF NodesIn, ToSet
<1>4. NodesIn(L[i].hl) \subseteq Node
  BY <1>2, <1>3, ToSetFinite
<1> QED BY <1>1, <1>2, <1>3, <1>4

\* Lines are counted by a number.
LEMMA LenNat ==
  \A L : Lines(L) => Len(L) \in Nat /\ DOMAIN L = 1 .. Len(L)
BY DEF Lines

\* Only one line gives a node an attribute.
LEMMA GivesOnce ==
  ASSUME NEW L, Lines(L), NEW n, NEW a, NEW i, NEW j,
         Gives(L, i, n, a), Gives(L, j, n, a)
  PROVE  i = j
BY DEF Gives, Lines, NoDuplicateAttrsIn, Clash, AttrsIn

\* The value of the file is that of the line that gives it.
LEMMA RawIs ==
  ASSUME NEW L, Lines(L), NEW n, NEW a
  PROVE  /\ \A i : Gives(L, i, n, a) => Raw(L, n, a) = L[i].attrval_index[a]
         /\ Raw(L, n, a) # Absent <=> \E i : Gives(L, i, n, a)
         /\ Raw(L, n, a) # Absent => n \in Node /\ a \in Attr
         /\ Raw(L, n, a) \in Value \cup {NoValue, Absent}
<1> DEFINE P(i) == Gives(L, i, n, a)
           i == CHOOSE i \in 1 .. Len(L) : P(i)
<1>1. CASE \E j \in 1 .. Len(L) : P(j)
  <2>1. i \in 1 .. Len(L) /\ P(i)
    <3> HIDE DEF P
    <3> QED BY <1>1
  <2>2. Raw(L, n, a) = L[i].attrval_index[a]
    BY <1>1 DEF Raw
  <2> HIDE DEF i
  <2>3. \A j : Gives(L, j, n, a) => j = i
    BY <2>1, GivesOnce
  <2>4. /\ a \in Attr /\ L[i].attrval_index[a] # Absent /\ n \in NodesIn(L[i].hl)
    BY <2>1 DEF Gives
  <2>5. n \in Node /\ L[i].attrval_index[a] \in Value \cup {NoValue, Absent}
    BY <2>1, <2>4, LineIs
  <2> QED BY <2>1, <2>2, <2>3, <2>4, <2>5
<1>2. CASE ~ \E j \in 1 .. Len(L) : P(j)
  <2>1. Raw(L, n, a) = Absent
    BY <1>2 DEF Raw
  <2>2. \A j : ~ Gives(L, j, n, a)
    BY <1>2 DEF Gives
  <2> QED BY <2>1, <2>2
<1> QED BY <1>1, <1>2

\* genders_testattr() answers the value as it reads on the node.
LEMMA TestIs ==
  ASSUME NEW L, Lines(L), NEW n, NEW a \in Attr
  PROVE  Test(L, n, a) = IF Raw(L, n, a) = Absent THEN Absent
                         ELSE ValueAs(FALSE, Raw(L, n, a), n)
<1> DEFINE has == {i \in DOMAIN L : /\ n \in NodesIn(L[i].hl)
                                    /\ a \in AttrsIn(L[i].attrval_index)}
           first == CHOOSE i \in has : \A j \in has : i =< j
<1>1. Test(L, n, a) = IF has = {} THEN Absent
        ELSE ValueAs(FALSE, L[first].attrval_index[a], n)
  BY DEF Test
<1>2. DOMAIN L = 1 .. Len(L)
  BY DEF Lines
<1>3. \A i : i \in has <=> Gives(L, i, n, a)
  BY <1>2 DEF Gives, AttrsIn
<1>4. CASE has = {}
  <2>1. Raw(L, n, a) = Absent
    BY <1>3, <1>4, RawIs
  <2> QED BY <2>1, <1>1, <1>4
<1>5. CASE has # {}
  <2>1. PICK i : i \in has
    BY <1>5
  <2>2. i \in Int
    BY <2>1, <1>2
  <2> HIDE DEF has
  <2>3. \A j \in has : j = i
    BY <2>1, <1>3, GivesOnce
  <2>4. has = {i}
    BY <2>1, <2>3
  <2>5. first = i
    BY <2>4, <2>2
  <2> HIDE DEF first
  <2>6. Gives(L, i, n, a)
    BY <2>1, <1>3
  <2>7. Raw(L, n, a) = L[i].attrval_index[a] /\ Raw(L, n, a) # Absent
    BY <2>6, RawIs
  <2> QED BY <1>1, <1>5, <2>5, <2>7
<1> QED BY <1>4, <1>5

\* A value is stored as a value, and NULL as none.
LEMMA ValueAsIs ==
  ASSUME NEW v \in Value \cup {NoValue}, NEW n \in Node, NEW raw
  PROVE  /\ ValueAs(raw, v, n) \in Value \cup {NoValue}
         /\ ValueAs(raw, v, n) # Absent
         /\ v # Absent
         /\ v = NoValue => ValueAs(raw, v, n) = NoValue
         /\ ValueAs(raw, v, n) = NoValue => v = NoValue
BY NodeattrAssumption, MarksAreNotValues DEF ValueAs

\* The same, for what is read and for what is kept raw.
LEMMA ReadsAs ==
  ASSUME NEW v \in Value \cup {NoValue}, NEW n \in Node
  PROVE  /\ ValueAs(FALSE, v, n) \in Value \cup {NoValue}
         /\ ValueAs(FALSE, v, n) # Absent
         /\ v = NoValue => ValueAs(FALSE, v, n) = NoValue
         /\ v # NoValue => ValueAs(FALSE, v, n) = Reading[<<v, n>>]
                           /\ Reading[<<v, n>>] \in Value
         /\ ValueAs(TRUE, v, n) = v
BY NodeattrAssumption, MarksAreNotValues DEF ValueAs

\* What a test can answer, and when it answers.
LEMMA TestTypes ==
  ASSUME NEW L, Lines(L), NEW n, NEW a \in Attr
  PROVE  /\ Test(L, n, a) \in Value \cup {NoValue, Absent}
         /\ Test(L, n, a) # Absent <=> Raw(L, n, a) # Absent
         /\ Test(L, n, a) # Absent <=> \E i : Gives(L, i, n, a)
         /\ Test(L, n, a) # Absent => n \in NodesOf(L) /\ a \in AttrsOf(L)
<1>1. CASE Raw(L, n, a) = Absent
  BY <1>1, TestIs, RawIs
<1>2. CASE Raw(L, n, a) # Absent
  <2>1. n \in Node /\ Raw(L, n, a) \in Value \cup {NoValue}
    BY <1>2, RawIs
  <2>2. Test(L, n, a) = ValueAs(FALSE, Raw(L, n, a), n)
    BY <1>2, TestIs
  <2> DEFINE v == Raw(L, n, a)
  <2> HIDE DEF v
  <2>6. /\ ValueAs(FALSE, v, n) \in Value \cup {NoValue}
        /\ ValueAs(FALSE, v, n) # Absent
    BY <2>1, ReadsAs DEF v
  <2>3. Test(L, n, a) \in Value \cup {NoValue} /\ Test(L, n, a) # Absent
    BY <2>6, <2>2 DEF v
  <2>4. PICK i : Gives(L, i, n, a)
    BY <1>2, RawIs
  <2>5. n \in NodesOf(L) /\ a \in AttrsOf(L)
    BY <2>4, LenNat DEF Gives, NodesOf, AttrsOf, AttrsIn
  <2> QED BY <1>2, <2>3, <2>4, <2>5
<1> QED BY <1>1, <1>2

\* A file has finitely many nodes and attributes.
LEMMA NamesFinite ==
  ASSUME NEW L, Loaded(L)
  PROVE  /\ IsFiniteSet(NodesOf(L)) /\ NodesOf(L) \subseteq Node
         /\ IsFiniteSet(AttrsOf(L)) /\ AttrsOf(L) \subseteq Attr
<1>0. Lines(L) /\ Len(L) \in Nat /\ DOMAIN L = 1 .. Len(L)
  BY LenNat DEF Loaded
<1>1. IsFiniteSet(1 .. Len(L))
  BY <1>0, FS_Interval
<1> DEFINE A == {AttrsIn(L[i].attrval_index) : i \in 1 .. Len(L)}
           N == {NodesIn(L[i].hl) : i \in 1 .. Len(L)}
           f == [i \in 1 .. Len(L) |-> AttrsIn(L[i].attrval_index)]
           g == [i \in 1 .. Len(L) |-> NodesIn(L[i].hl)]
<1>2. f \in Surjection(1 .. Len(L), A) /\ g \in Surjection(1 .. Len(L), N)
  BY DEF Surjection
<1>3. IsFiniteSet(A) /\ IsFiniteSet(N)
  <2> HIDE DEF A, N, f, g
  <2> QED BY <1>1, <1>2, FS_Surjection
<1>4. \A T \in A : IsFiniteSet(T) /\ T \subseteq Attr
  BY <1>0 DEF Loaded, AttrsIn
<1>5. \A T \in N : IsFiniteSet(T) /\ T \subseteq Node
  <2> SUFFICES ASSUME NEW i \in 1 .. Len(L)
               PROVE  IsFiniteSet(NodesIn(L[i].hl)) /\ NodesIn(L[i].hl) \subseteq Node
    OBVIOUS
  <2> QED BY <1>0, LineIs, ToSetFinite
<1>6. NodesOf(L) = UNION N /\ AttrsOf(L) = UNION A
  BY <1>0 DEF NodesOf, AttrsOf
<1> HIDE DEF A, N
<1>7. IsFiniteSet(UNION N) /\ IsFiniteSet(UNION A)
  BY <1>3, <1>4, <1>5, FS_UNION
<1> QED BY <1>4, <1>5, <1>6, <1>7

(***************************************************************************)
(* What genders_getattr() answers and leaves in the array of values.       *)
(***************************************************************************)

\* The pairs of a line are its attributes with their values.
LEMMA PairsOfIs ==
  ASSUME NEW L, Loaded(L), NEW i \in 1 .. Len(L)
  PROVE  /\ PairsOf(L[i]) \in Seq(Pair) /\ IsInjective(PairsOf(L[i]))
         /\ \A a, v : <<a, v>> \in ToSet(PairsOf(L[i])) <=>
              a \in Attr /\ v = L[i].attrval_index[a] /\ v # Absent
<1> DEFINE A == AttrsIn(L[i].attrval_index)
           s == SetToSeq(A)
           P == PairsOf(L[i])
           t == L[i].attrval_index
<1>0. Lines(L) /\ IsFiniteSet(A)
  BY LenNat DEF Loaded
<1>1. Lists(s, A)
  BY <1>0, SetToSeqLists
<1>2. P = [j \in DOMAIN s |-> <<s[j], t[s[j]]>>]
  BY DEF PairsOf
<1>3. t \in [Attr -> Value \cup {NoValue, Absent}]
  BY <1>0, LineIs
<1>4. \A a : a \in A <=> a \in Attr /\ t[a] # Absent
  BY DEF AttrsIn
<1>5. \A a \in A : <<a, t[a]>> \in Pair
  BY <1>3, <1>4 DEF Pair
<1> HIDE DEF s, A, P, t
<1>6. PICK n \in Nat : Len(s) = n /\ DOMAIN s = 1 .. n /\ s \in Seq(A)
  BY <1>1 DEF Lists
<1>7. \A j \in 1 .. n : s[j] \in A
  BY <1>6
<1>8. P \in Seq(Pair) /\ Len(P) = n /\ \A j \in 1 .. n : P[j] = <<s[j], t[s[j]]>>
  <2>1. \A j \in 1 .. n : <<s[j], t[s[j]]>> \in Pair
    BY ONLY <1>5, <1>7
  <2>2. P = [j \in 1 .. n |-> <<s[j], t[s[j]]>>]
    BY ONLY <1>2, <1>6
  <2>3. P \in [1 .. n -> Pair] /\ \A j \in 1 .. n : P[j] = <<s[j], t[s[j]]>>
    BY ONLY <2>1, <2>2
  <2> QED BY ONLY <2>3, n \in Nat
<1>9. \A j, k \in 1 .. n : s[j] = s[k] => j = k
  BY <1>1, <1>6, InjectiveIs DEF Lists
<1>10. IsInjective(P)
  <2>1. \A j, k \in 1 .. n : P[j] = P[k] => j = k
    BY <1>8, <1>9
  <2> QED BY <2>1, <1>8, InjectiveIs
<1>11. \A a : a \in A <=> \E j \in 1 .. n : s[j] = a
  BY <1>1, <1>6, ToSetIs DEF Lists
<1>12. \A p : p \in ToSet(P) <=> \E j \in 1 .. n : P[j] = p
  BY <1>8, ToSetIs
<1>13. \A a, v : <<a, v>> \in ToSet(P) <=> a \in A /\ v = t[a]
  <2> SUFFICES ASSUME NEW a, NEW v
               PROVE  <<a, v>> \in ToSet(P) <=> a \in A /\ v = t[a]
    OBVIOUS
  <2>1. ASSUME <<a, v>> \in ToSet(P) PROVE a \in A /\ v = t[a]
    <3>1. PICK j \in 1 .. n : P[j] = <<a, v>>
      BY <2>1, <1>12
    <3>2. a = s[j] /\ v = t[s[j]]
      BY <3>1, <1>8
    <3> QED BY <3>2, <1>7
  <2>2. ASSUME a \in A, v = t[a] PROVE <<a, v>> \in ToSet(P)
    <3>1. PICK j \in 1 .. n : s[j] = a
      BY <2>2, <1>11
    <3>2. P[j] = <<a, v>>
      BY <3>1, <2>2, <1>8
    <3> QED BY <3>2, <1>12
  <2> QED BY <2>1, <2>2
<1>14. ASSUME NEW a, NEW v
       PROVE  <<a, v>> \in ToSet(P) <=> a \in Attr /\ v = t[a] /\ v # Absent
  BY <1>4, <1>13
<1> QED BY <1>8, <1>10, <1>14 DEF P, t

\* The attributes of a node with their values as the file has them.
LEMMA GetAttrIs ==
  ASSUME NEW L, Loaded(L), NEW n
  PROVE  /\ GetAttr(L, n) \in Seq(Pair)
         /\ \A a, v : <<a, v>> \in ToSet(GetAttr(L, n)) <=>
              v = Raw(L, n, a) /\ v # Absent
         /\ \A i, j \in 1 .. Len(GetAttr(L, n)) :
              GetAttr(L, n)[i][1] = GetAttr(L, n)[j][1] => i = j
         /\ Len(GetAttr(L, n)) =< Cardinality(AttrsOf(L))
<1> DEFINE s == [i \in DOMAIN L |-> IF n \in NodesIn(L[i].hl)
                                   THEN PairsOf(L[i]) ELSE <<>>]
           P == GetAttr(L, n)
<1>0. Lines(L)
  BY DEF Loaded
<1>1. PICK m \in Nat : Len(L) = m /\ DOMAIN L = 1 .. m
  BY <1>0, LenNat
<1>2. P = FlattenSeq(s)
  BY DEF GetAttr
<1>3. \A i \in 1 .. m :
        s[i] = IF n \in NodesIn(L[i].hl) THEN PairsOf(L[i]) ELSE <<>>
  BY <1>1
<1>4. \A i \in 1 .. m : s[i] \in Seq(Pair)
  <2> SUFFICES ASSUME NEW i \in 1 .. m PROVE s[i] \in Seq(Pair)
    OBVIOUS
  <2>1. PairsOf(L[i]) \in Seq(Pair) /\ <<>> \in Seq(Pair)
    BY <1>1, PairsOfIs
  <2> HIDE DEF s
  <2> QED BY <2>1, <1>3
<1>5. s \in Seq(Seq(Pair)) /\ Len(s) = m
  BY <1>1, <1>4
<1> HIDE DEF s, P
<1>6. \A e : e \in ToSet(<<>>) => FALSE
  <2>1. DOMAIN <<>> = {}
    OBVIOUS
  <2> QED BY <2>1 DEF ToSet
<1>7. ASSUME NEW i \in 1 .. m, NEW a, NEW v
      PROVE  <<a, v>> \in ToSet(s[i]) <=>
               Gives(L, i, n, a) /\ v = L[i].attrval_index[a]
  <2>1. CASE n \in NodesIn(L[i].hl)
    <3>1. <<a, v>> \in ToSet(PairsOf(L[i])) <=>
            a \in Attr /\ v = L[i].attrval_index[a] /\ v # Absent
      BY <1>1, PairsOfIs
    <3> QED BY <2>1, <3>1, <1>1, <1>3 DEF Gives
  <2>2. CASE n \notin NodesIn(L[i].hl)
    <3>1. s[i] = <<>> /\ ~ Gives(L, i, n, a)
      BY <2>2, <1>3 DEF Gives
    <3> QED BY <3>1, <1>6
  <2> QED BY <2>1, <2>2
<1>8. OneByOne(s)
  <2>1. ASSUME NEW i \in 1 .. m PROVE IsInjective(s[i])
    <3>1. CASE n \in NodesIn(L[i].hl)
      BY <3>1, <1>1, <1>3, PairsOfIs
    <3>2. CASE n \notin NodesIn(L[i].hl)
      <4>1. s[i] = <<>>
        BY <3>2, <1>3
      <4>2. DOMAIN <<>> = {}
        OBVIOUS
      <4> QED BY <4>1, <4>2 DEF IsInjective
    <3> QED BY <3>1, <3>2
  <2>2. ASSUME NEW i \in 1 .. m, NEW j \in 1 .. m, i # j,
               NEW p, p \in ToSet(s[i]), p \in ToSet(s[j])
        PROVE  FALSE
    <3>1. p \in Pair
      BY <1>4, <2>2, ToSetFinite
    <3>2. PICK a, v : p = <<a, v>>
      BY <3>1 DEF Pair
    <3>3. Gives(L, i, n, a) /\ Gives(L, j, n, a)
      BY <3>2, <2>2, <1>7
    <3> QED BY <3>3, <2>2, <1>0, GivesOnce
  <2>3. \A i, j \in 1 .. m : i # j => ToSet(s[i]) \cap ToSet(s[j]) = {}
    BY <2>2
  <2> QED BY <2>1, <2>3, <1>5 DEF OneByOne
<1>9. /\ P \in Seq(Pair) /\ IsInjective(P)
      /\ \A e : e \in ToSet(P) <=> \E i \in 1 .. m : e \in ToSet(s[i])
  BY <1>2, <1>5, <1>8, FlatIs
<1>10. ASSUME NEW a, NEW v
       PROVE  <<a, v>> \in ToSet(P) <=> v = Raw(L, n, a) /\ v # Absent
  <2>1. \A i : Gives(L, i, n, a) => i \in 1 .. m
    BY <1>1 DEF Gives
  <2>2. \A i : Gives(L, i, n, a) => Raw(L, n, a) = L[i].attrval_index[a]
    BY <1>0, RawIs
  <2>3. Raw(L, n, a) # Absent <=> \E i : Gives(L, i, n, a)
    BY <1>0, RawIs
  <2> QED BY <2>1, <2>2, <2>3, <1>7, <1>9
<1>11. PICK k \in Nat : Len(P) = k
  BY <1>9
<1>12. \A i \in 1 .. k : P[i] \in Pair /\ P[i] \in ToSet(P)
  BY <1>9, <1>11, ToSetIs
<1>13. ASSUME NEW i \in 1 .. k, NEW j \in 1 .. k, P[i][1] = P[j][1] PROVE i = j
  <2>1. P[i] = <<P[i][1], P[i][2]>> /\ P[j] = <<P[j][1], P[j][2]>>
    BY <1>12 DEF Pair
  <2>2. P[i][2] = Raw(L, n, P[i][1]) /\ P[j][2] = Raw(L, n, P[j][1])
    BY <2>1, <1>10, <1>12
  <2>3. P[i] = P[j]
    BY <2>1, <2>2, <1>13
  <2> QED BY <2>3, <1>9, <1>11, InjectiveIs
<1>14. k =< Cardinality(AttrsOf(L))
  <2> DEFINE f == [i \in 1 .. k |-> P[i][1]]
  <2>1. \A i \in 1 .. k : P[i][1] \in AttrsOf(L)
    <3> SUFFICES ASSUME NEW i \in 1 .. k PROVE P[i][1] \in AttrsOf(L)
      OBVIOUS
    <3>1. P[i] = <<P[i][1], P[i][2]>> /\ P[i][1] \in Attr
      BY <1>12 DEF Pair
    <3>2. Raw(L, n, P[i][1]) # Absent
      BY <3>1, <1>10, <1>12
    <3> QED BY <3>1, <3>2, <1>0, TestTypes
  <2>2. f \in Injection(1 .. k, AttrsOf(L))
    BY <2>1, <1>13 DEF Injection, IsInjective
  <2>3. IsFiniteSet(AttrsOf(L))
    BY NamesFinite
  <2> HIDE DEF f
  <2>4. Cardinality(1 .. k) =< Cardinality(AttrsOf(L))
    BY <2>2, <2>3, FS_Injection
  <2>5. Cardinality(1 .. k) = k
    <3>1. Cardinality(1 .. k) = IF 1 > k THEN 0 ELSE k - 1 + 1
      BY FS_Interval
    <3> QED BY <3>1
  <2> QED BY <2>4, <2>5
<1> QED BY <1>9, <1>10, <1>11, <1>13, <1>14 DEF P

Arrays(L) == [1 .. Cardinality(AttrsOf(L)) -> Value \cup {NoValue}]

\* The attributes of a node with their values, as they are stored.
View(L, n, raw) ==
  {<<a, ValueAs(raw, Raw(L, n, a), n)>> : a \in {b \in Attr : Raw(L, n, b) # Absent}}

\* An attribute has one value on a node.
LEMMA ViewIs ==
  ASSUME NEW L, Lines(L), NEW n, NEW raw
  PROVE  /\ View(L, n, raw) \subseteq Pair
         /\ \A a, v : <<a, v>> \in View(L, n, raw) <=>
              a \in Attr /\ Raw(L, n, a) # Absent
              /\ v = ValueAs(raw, Raw(L, n, a), n)
         /\ \A p, q \in View(L, n, raw) : p[1] = q[1] => p = q
<1>1. ASSUME NEW a \in Attr, Raw(L, n, a) # Absent
      PROVE  <<a, ValueAs(raw, Raw(L, n, a), n)>> \in Pair
  <2>1. n \in Node /\ Raw(L, n, a) \in Value \cup {NoValue}
    BY <1>1, RawIs
  <2> QED BY <2>1, ValueAsIs DEF Pair
<1>2. ASSUME NEW a, NEW v
      PROVE  <<a, v>> \in View(L, n, raw) <=>
               a \in Attr /\ Raw(L, n, a) # Absent
               /\ v = ValueAs(raw, Raw(L, n, a), n)
  <2>1. ASSUME <<a, v>> \in View(L, n, raw)
        PROVE  a \in Attr /\ Raw(L, n, a) # Absent
               /\ v = ValueAs(raw, Raw(L, n, a), n)
    <3>1. PICK b \in Attr : Raw(L, n, b) # Absent
             /\ <<a, v>> = <<b, ValueAs(raw, Raw(L, n, b), n)>>
      BY <2>1 DEF View
    <3>2. a = b
      BY <3>1
    <3> QED BY <3>1, <3>2
  <2>2. ASSUME a \in Attr, Raw(L, n, a) # Absent,
               v = ValueAs(raw, Raw(L, n, a), n)
        PROVE  <<a, v>> \in View(L, n, raw)
    BY <2>2 DEF View
  <2> QED BY <2>1, <2>2
<1>3. View(L, n, raw) \subseteq Pair
  BY <1>1 DEF View
<1>4. \A p, q \in View(L, n, raw) : p[1] = q[1] => p = q
  BY DEF View
<1> QED BY <1>2, <1>3, <1>4

\* A call stores what the node's attributes say, and leaves the elements of
\* those that have no value alone.
Stores(L, n, raw, array, P, S) ==
  /\ S \in Arrays(L)
  /\ Shown(P, S) \subseteq Pair
  /\ \A p \in Shown(P, S) :
       \E q \in View(L, n, raw) : p[1] = q[1] /\ (p = q \/ q[2] = NoValue)
  /\ \A q \in View(L, n, raw) :
       \E p \in Shown(P, S) : p[1] = q[1] /\ (p = q \/ q[2] = NoValue)
  /\ array = Cleared(L) => Shown(P, S) = View(L, n, raw)
  /\ IsFiniteSet(Shown(P, S))

\* genders_getattr() stores what the node's attributes say.
LEMMA StoredIs ==
  ASSUME NEW L, Loaded(L), NEW n, NEW raw, NEW array \in Arrays(L)
  PROVE  Stores(L, n, raw, array, GetAttr(L, n),
                Stored(array, GetAttr(L, n), raw, n))
<1> DEFINE P == GetAttr(L, n)
           S == Stored(array, P, raw, n)
           H == Shown(P, S)
           c == Cardinality(AttrsOf(L))
<1>0. Lines(L)
  BY DEF Loaded
<1>1. PICK k \in Nat : Len(P) = k /\ k =< c /\ P \in Seq(Pair) /\ DOMAIN P = 1 .. k
  BY GetAttrIs
<1>2. c \in Nat
  BY NamesFinite, FS_CardinalityType
<1>3. S = [i \in 1 .. c |-> IF i > k \/ P[i][2] = NoValue THEN array[i]
                            ELSE ValueAs(raw, P[i][2], n)]
  BY <1>1 DEF Stored, Arrays
<1>4. H = {<<P[i][1], S[i]>> : i \in 1 .. k}
  BY <1>1 DEF Shown
<1>5. \A a, v : <<a, v>> \in ToSet(P) <=> v = Raw(L, n, a) /\ v # Absent
  BY GetAttrIs
<1>6. \A p : p \in ToSet(P) <=> \E i \in 1 .. k : P[i] = p
  BY <1>1, ToSetIs
<1>7. ASSUME NEW a, NEW v
      PROVE  <<a, v>> \in View(L, n, raw) <=>
               a \in Attr /\ Raw(L, n, a) # Absent
               /\ v = ValueAs(raw, Raw(L, n, a), n)
  BY <1>0, ViewIs
<1>8. array = Cleared(L) => \A i \in 1 .. c : array[i] = NoValue
  BY DEF Cleared
<1> HIDE DEF P, S, H, c
<1>9. ASSUME NEW i \in 1 .. k
      PROVE  /\ P[i] = <<P[i][1], P[i][2]>> /\ P[i][1] \in Attr
             /\ P[i][2] = Raw(L, n, P[i][1]) /\ P[i][2] # Absent
             /\ P[i][2] \in Value \cup {NoValue} /\ n \in Node
  <2>1. P[i] \in Pair /\ P[i] \in ToSet(P)
    BY <1>1, <1>6
  <2>2. P[i] = <<P[i][1], P[i][2]>> /\ P[i][1] \in Attr /\ P[i][2] \in Value \cup {NoValue}
    BY <2>1 DEF Pair
  <2>3. P[i][2] = Raw(L, n, P[i][1]) /\ P[i][2] # Absent
    BY <2>1, <2>2, <1>5
  <2>4. n \in Node
    BY <2>3, <1>0, RawIs
  <2> QED BY <2>2, <2>3, <2>4
<1>10. \A i \in 1 .. k : i \in 1 .. c /\ ~ (i > k)
  BY <1>1, <1>2
<1>11. S \in Arrays(L)
  <2> SUFFICES ASSUME NEW i \in 1 .. c
               PROVE  (IF i > k \/ P[i][2] = NoValue THEN array[i]
                       ELSE ValueAs(raw, P[i][2], n)) \in Value \cup {NoValue}
    BY <1>3 DEF Arrays, c
  <2>1. array[i] \in Value \cup {NoValue}
    BY DEF Arrays, c
  <2>2. CASE i > k
    BY <2>1, <2>2
  <2>3. CASE ~ (i > k)
    <3>1. i \in 1 .. k
      BY <2>3
    <3>2. ValueAs(raw, P[i][2], n) \in Value \cup {NoValue}
      BY <3>1, <1>9, ValueAsIs
    <3> QED BY <2>1, <3>2
  <2> QED BY <2>2, <2>3
<1>12. \A i \in 1 .. k : S[i] = IF P[i][2] = NoValue THEN array[i]
                               ELSE ValueAs(raw, P[i][2], n)
  BY <1>3, <1>10
<1>13. ASSUME NEW i \in 1 .. k
       PROVE  /\ <<P[i][1], S[i]>> \in Pair
              /\ <<P[i][1], ValueAs(raw, P[i][2], n)>> \in View(L, n, raw)
              /\ S[i] = ValueAs(raw, P[i][2], n)
                 \/ ValueAs(raw, P[i][2], n) = NoValue
              /\ array = Cleared(L) => S[i] = ValueAs(raw, P[i][2], n)
  <2>1. S[i] \in Value \cup {NoValue}
    BY <1>10, <1>11 DEF Arrays, c
  <2>2. <<P[i][1], S[i]>> \in Pair
    BY <2>1, <1>9 DEF Pair
  <2>3. <<P[i][1], ValueAs(raw, P[i][2], n)>> \in View(L, n, raw)
    BY <1>7, <1>9
  <2>4. P[i][2] = NoValue => ValueAs(raw, P[i][2], n) = NoValue
    BY <1>9, ValueAsIs
  <2> QED BY <2>2, <2>3, <2>4, <1>8, <1>10, <1>12
<1>14. ASSUME NEW q \in View(L, n, raw)
       PROVE  \E i \in 1 .. k : q = <<P[i][1], ValueAs(raw, P[i][2], n)>>
  <2>1. PICK a \in Attr : Raw(L, n, a) # Absent
                          /\ q = <<a, ValueAs(raw, Raw(L, n, a), n)>>
    BY DEF View
  <2>2. <<a, Raw(L, n, a)>> \in ToSet(P)
    BY <2>1, <1>5
  <2>3. PICK i \in 1 .. k : P[i] = <<a, Raw(L, n, a)>>
    BY <2>2, <1>6
  <2> QED BY <2>1, <2>3
<1>15. H \subseteq Pair
  BY <1>4, <1>13
<1>16. \A p \in H : \E q \in View(L, n, raw) :
         p[1] = q[1] /\ (p = q \/ q[2] = NoValue)
  <2> SUFFICES ASSUME NEW i \in 1 .. k
               PROVE  \E q \in View(L, n, raw) :
                        P[i][1] = q[1] /\ (<<P[i][1], S[i]>> = q \/ q[2] = NoValue)
    BY <1>4
  <2> QED BY <1>13
<1>17. \A q \in View(L, n, raw) : \E p \in H :
         p[1] = q[1] /\ (p = q \/ q[2] = NoValue)
  <2> SUFFICES ASSUME NEW q \in View(L, n, raw)
               PROVE  \E p \in H : p[1] = q[1] /\ (p = q \/ q[2] = NoValue)
    OBVIOUS
  <2>1. PICK i \in 1 .. k : q = <<P[i][1], ValueAs(raw, P[i][2], n)>>
    BY <1>14
  <2>2. <<P[i][1], S[i]>> \in H
    BY <1>4
  <2> QED BY <2>1, <2>2, <1>13
<1>18. array = Cleared(L) => H = View(L, n, raw)
  <2> SUFFICES ASSUME array = Cleared(L) PROVE H = View(L, n, raw)
    OBVIOUS
  <2>1. \A i \in 1 .. k : S[i] = ValueAs(raw, P[i][2], n)
    BY <1>13
  <2>2. ASSUME NEW p \in H PROVE p \in View(L, n, raw)
    <3>1. PICK i \in 1 .. k : p = <<P[i][1], S[i]>>
      BY <1>4
    <3> QED BY <3>1, <2>1, <1>13
  <2>3. ASSUME NEW q \in View(L, n, raw) PROVE q \in H
    <3>1. PICK i \in 1 .. k : q = <<P[i][1], ValueAs(raw, P[i][2], n)>>
      BY <1>14
    <3>2. q = <<P[i][1], S[i]>>
      BY <3>1, <2>1
    <3> QED BY <3>2, <1>4
  <2> QED BY <2>2, <2>3
<1>19. IsFiniteSet(H)
  <2> DEFINE f == [i \in 1 .. k |-> <<P[i][1], S[i]>>]
  <2>1. f \in Surjection(1 .. k, H)
    BY <1>4 DEF Surjection
  <2>2. IsFiniteSet(1 .. k)
    BY FS_Interval
  <2> HIDE DEF f
  <2> QED BY <2>1, <2>2, FS_Surjection
<1> QED BY <1>11, <1>15, <1>16, <1>17, <1>18, <1>19 DEF P, S, H, Stores

(***************************************************************************)
(* list_attr_val().                                                        *)
(***************************************************************************)

TestsOf(L, S, a) == {Test(L, n, a) : n \in S} \ {Absent, NoValue}
With(L, S, a) == {n \in S : Test(L, n, a) \notin {Absent, NoValue}}
Once(L) == \A i \in DOMAIN L : IsInjective(L[i].hl)

\* What is kept and what is still to take make up the answer.
ValuesAt(o, L, a, t, w, st) ==
  /\ a \in Attr /\ t \in Seq(Node) /\ w \in Seq(Value)
  /\ \A n \in ToSet(t) : Test(L, n, a) # Absent
  /\ ToSet(w) \cup TestsOf(L, ToSet(t), a) = TestsOf(L, NodesOf(L), a)
  /\ "U" \in o => IsInjective(w)
  /\ "U" \notin o /\ Once(L) =>
       /\ IsInjective(t)
       /\ Len(w) + Cardinality(With(L, ToSet(t), a))
            = Cardinality(With(L, NodesOf(L), a))
  /\ st = 0 => t = <<>>

HavingNodes(L, a) ==
  FlattenSeq([i \in DOMAIN L |->
    IF a \in AttrsIn(L[i].attrval_index) THEN L[i].hl ELSE <<>>])

\* Nothing stands in the empty sequence.
LEMMA EmptyIs ==
  /\ ToSet(<<>>) = {} /\ IsInjective(<<>>) /\ Len(<<>>) = 0
  /\ \A E : <<>> \in Seq(E)
<1>1. DOMAIN <<>> = {}
  OBVIOUS
<1> QED BY <1>1 DEF ToSet, IsInjective

\* The nodes of the lines that have an attribute are those that have it.
LEMMA HavingNodesIs ==
  ASSUME NEW L, Loaded(L), NEW a \in Attr
  PROVE  /\ HavingNodes(L, a) \in Seq(Node)
         /\ \A n : n \in ToSet(HavingNodes(L, a)) <=> Test(L, n, a) # Absent
         /\ Once(L) => IsInjective(HavingNodes(L, a))
<1> DEFINE s == [i \in DOMAIN L |-> IF a \in AttrsIn(L[i].attrval_index)
                                   THEN L[i].hl ELSE <<>>]
<1>0. Lines(L)
  BY DEF Loaded
<1>1. PICK m \in Nat : Len(L) = m /\ DOMAIN L = 1 .. m
  BY <1>0, LenNat
<1>2. HavingNodes(L, a) = FlattenSeq(s)
  BY DEF HavingNodes
<1>3. \A i \in 1 .. m : s[i] = IF a \in AttrsIn(L[i].attrval_index)
                              THEN L[i].hl ELSE <<>>
  BY <1>1
<1>4. \A i \in 1 .. m : L[i].hl \in Seq(Node) /\ NodesIn(L[i].hl) = ToSet(L[i].hl)
  BY <1>0, <1>1, LineIs
<1>5. \A i \in 1 .. m : s[i] \in Seq(Node)
  <2> HIDE DEF s
  <2> QED BY <1>3, <1>4, EmptyIs
<1>6. s \in Seq(Seq(Node)) /\ Len(s) = m
  BY <1>1, <1>5
<1> HIDE DEF s
<1>7. ASSUME NEW i \in 1 .. m, NEW n
      PROVE  n \in ToSet(s[i]) <=> Gives(L, i, n, a)
  BY <1>1, <1>3, <1>4, EmptyIs DEF Gives, AttrsIn
<1>8. ASSUME Once(L) PROVE OneByOne(s)
  <2>1. \A i \in 1 .. m : IsInjective(s[i])
    BY <1>1, <1>3, <1>8, EmptyIs DEF Once
  <2>2. ASSUME NEW i \in 1 .. m, NEW j \in 1 .. m, i # j, NEW n,
               n \in ToSet(s[i]), n \in ToSet(s[j])
        PROVE  FALSE
    BY <1>0, <1>7, <2>2, GivesOnce
  <2>3. \A i, j \in 1 .. m : i # j => ToSet(s[i]) \cap ToSet(s[j]) = {}
    BY <2>2
  <2> QED BY <2>1, <2>3, <1>6 DEF OneByOne
<1>9. /\ FlattenSeq(s) \in Seq(Node)
      /\ \A n : n \in ToSet(FlattenSeq(s)) <=> \E i \in 1 .. m : n \in ToSet(s[i])
      /\ OneByOne(s) => IsInjective(FlattenSeq(s))
  BY <1>6, FlatIs
<1>10. ASSUME NEW n
       PROVE  n \in ToSet(FlattenSeq(s)) <=> Test(L, n, a) # Absent
  <2>1. Test(L, n, a) # Absent <=> \E i : Gives(L, i, n, a)
    BY <1>0, TestTypes
  <2>2. \A i : Gives(L, i, n, a) => i \in 1 .. m
    BY <1>1 DEF Gives
  <2> QED BY <2>1, <2>2, <1>7, <1>9
<1> QED BY <1>2, <1>8, <1>9, <1>10

\* Where no line names a node twice, there is room for all names that are stored.
LEMMA RoomForNames ==
  ASSUME NEW L, Loaded(L), Once(L), NEW q
  PROVE  ~ Overflows(L, q)
<1> DEFINE P == Places(L, q)
           f == [p \in P |-> L[p[1]].hl[p[2]]]
           N == NodesOf(L)
<1>0. Lines(L) /\ Len(L) \in Nat /\ DOMAIN L = 1 .. Len(L)
  BY LenNat DEF Loaded
<1>1. \A i \in 1 .. Len(L) :
        /\ L[i].hl \in Seq(Node) /\ NodesIn(L[i].hl) = ToSet(L[i].hl)
        /\ DOMAIN L[i].hl = 1 .. Len(L[i].hl)
  <2> SUFFICES ASSUME NEW i \in 1 .. Len(L)
               PROVE  /\ L[i].hl \in Seq(Node) /\ NodesIn(L[i].hl) = ToSet(L[i].hl)
                      /\ DOMAIN L[i].hl = 1 .. Len(L[i].hl)
    OBVIOUS
  <2>1. L[i].hl \in Seq(Node) /\ NodesIn(L[i].hl) = ToSet(L[i].hl)
    BY <1>0, LineIs
  <2> QED BY <2>1
<1>2. ASSUME NEW p \in P
      PROVE  /\ p = <<p[1], p[2]>> /\ p[1] \in 1 .. Len(L)
             /\ p[2] \in DOMAIN L[p[1]].hl
             /\ Gives(L, p[1], f[p], q[1])
  <2>1. PICK i \in 1 .. Len(L) : \E j \in DOMAIN L[i].hl : p = <<i, j>>
    BY <1>0 DEF Places
  <2>7. PICK j \in DOMAIN L[i].hl : p = <<i, j>>
    BY <2>1
  <2>2. p[1] = i /\ p[2] = j
    BY <2>7
  <2>3. q[1] \in AttrsIn(L[i].attrval_index)
    BY <2>2 DEF Places
  <2>4. L[i].hl[j] \in NodesIn(L[i].hl)
    BY <2>7, <1>1 DEF NodesIn
  <2>5. f[p] = L[i].hl[j]
    BY <2>2
  <2> HIDE DEF f
  <2> QED BY <2>7, <2>2, <2>3, <2>4, <2>5 DEF Gives, AttrsIn
<1>3. ASSUME NEW p \in P, NEW r \in P, f[p] = f[r]
      PROVE  p = r
  <2>1. p[1] = r[1]
    BY <1>2, <1>3, <1>0, GivesOnce
  <2>2. IsInjective(L[p[1]].hl)
    BY <1>0, <1>2 DEF Once
  <2>3. L[p[1]].hl[p[2]] = L[p[1]].hl[r[2]]
    BY <2>1, <1>3
  <2> HIDE DEF f
  <2>4. p[2] = r[2]
    BY <2>1, <2>2, <2>3, <1>2 DEF IsInjective
  <2> QED BY <2>1, <2>4, <1>2
<1>4. \A p \in P : f[p] \in N
  <2> SUFFICES ASSUME NEW p \in P PROVE f[p] \in N
    OBVIOUS
  <2>1. p[1] \in 1 .. Len(L) /\ f[p] \in NodesIn(L[p[1]].hl)
    BY <1>2 DEF Gives
  <2> HIDE DEF f
  <2> QED BY <2>1, <1>0 DEF NodesOf
<1>5. f \in Injection(P, N)
  <2>1. f \in [P -> N]
    BY <1>4
  <2> QED BY <2>1, <1>3 DEF Injection, IsInjective
<1>6. IsFiniteSet(N)
  BY NamesFinite
<1> HIDE DEF f, P, N
<1>7. IsFiniteSet(P) /\ Cardinality(P) =< Cardinality(N)
  BY <1>5, <1>6, FS_Injection
<1>8. Cardinality(P) \in Nat /\ Cardinality(N) \in Nat
  BY <1>6, <1>7, FS_CardinalityType
<1> QED BY <1>7, <1>8 DEF Overflows, P, N

\* list_attr_val() starts with every node that has the attribute.
LEMMA ValuesStart ==
  ASSUME NEW o, NEW L, Loaded(L), NEW a \in Attr
  PROVE  ValuesAt(o, L, a, HavingNodes(L, a), <<>>, -1)
<1> DEFINE t == HavingNodes(L, a)
<1>0. Lines(L)
  BY DEF Loaded
<1>1. /\ t \in Seq(Node)
      /\ \A n : n \in ToSet(t) <=> Test(L, n, a) # Absent
      /\ Once(L) => IsInjective(t)
  BY HavingNodesIs
<1> HIDE DEF t
<1>2. \A n : Test(L, n, a) # Absent => n \in NodesOf(L)
  BY <1>0, TestTypes
<1>3. \A v : v \in TestsOf(L, ToSet(t), a) <=> v \in TestsOf(L, NodesOf(L), a)
  BY <1>1, <1>2 DEF TestsOf
<1>4. \A n : n \in With(L, ToSet(t), a) <=> n \in With(L, NodesOf(L), a)
  BY <1>1, <1>2 DEF With
<1>5. /\ TestsOf(L, ToSet(t), a) = TestsOf(L, NodesOf(L), a)
      /\ With(L, ToSet(t), a) = With(L, NodesOf(L), a)
  BY <1>3, <1>4
<1>6. Cardinality(With(L, ToSet(t), a)) \in Nat
  <2>1. IsFiniteSet(ToSet(t)) /\ With(L, ToSet(t), a) \in SUBSET ToSet(t)
    BY <1>1, ToSetFinite DEF With
  <2>2. IsFiniteSet(With(L, ToSet(t), a))
    BY <2>1, FS_Subset
  <2> QED BY <2>2, FS_CardinalityType
<1>7. {} \cup TestsOf(L, ToSet(t), a) = TestsOf(L, NodesOf(L), a)
  BY <1>5
<1>8. 0 + Cardinality(With(L, ToSet(t), a)) = Cardinality(With(L, NodesOf(L), a))
  BY <1>5, <1>6
<1> QED BY <1>1, <1>7, <1>8, EmptyIs DEF ValuesAt, t

\* Each step keeps what has been found and what is to come.
LEMMA ValuesKeep ==
  ASSUME NEW o, NEW L, Loaded(L), NEW a, NEW t, NEW w, t # <<>>,
         ValuesAt(o, L, a, t, w, -1), NEW v, v = Test(L, Head(t), a)
  PROVE  ValuesAt(o, L, a, Tail(t),
                  IF v = NoValue \/ ("U" \in o /\ Contains(w, v)) THEN w
                  ELSE Append(w, v), -1)
<1> DEFINE u == Tail(t)
           n == Head(t)
           x == IF v = NoValue \/ ("U" \in o /\ Contains(w, v)) THEN w
                ELSE Append(w, v)
<1>0. /\ Lines(L) /\ a \in Attr /\ t \in Seq(Node) /\ w \in Seq(Value)
      /\ \A m \in ToSet(t) : Test(L, m, a) # Absent
      /\ ToSet(w) \cup TestsOf(L, ToSet(t), a) = TestsOf(L, NodesOf(L), a)
      /\ "U" \in o => IsInjective(w)
      /\ "U" \notin o /\ Once(L) =>
           /\ IsInjective(t)
           /\ Len(w) + Cardinality(With(L, ToSet(t), a))
                = Cardinality(With(L, NodesOf(L), a))
  BY DEF ValuesAt, Loaded
<1>1. /\ u \in Seq(Node) /\ n \in Node /\ n \in ToSet(t)
      /\ ToSet(t) = {n} \cup ToSet(u)
      /\ IsInjective(t) => IsInjective(u) /\ n \notin ToSet(u)
  BY <1>0, TailIs
<1> HIDE DEF u, n
<1>2. v \in Value \cup {NoValue} /\ v # Absent
  BY <1>0, <1>1, TestTypes DEF n
<1>3. \A e : e \in TestsOf(L, ToSet(t), a) <=>
        e \in TestsOf(L, ToSet(u), a) \/ (e = v /\ v # NoValue)
  <2>1. \A e : e \in TestsOf(L, ToSet(t), a) <=>
          e \notin {Absent, NoValue} /\ \E m \in ToSet(t) : e = Test(L, m, a)
    BY DEF TestsOf
  <2>2. \A e : e \in TestsOf(L, ToSet(u), a) <=>
          e \notin {Absent, NoValue} /\ \E m \in ToSet(u) : e = Test(L, m, a)
    BY DEF TestsOf
  <2> QED BY <2>1, <2>2, <1>1, <1>2 DEF n
<1>4. \A e : e \in With(L, ToSet(t), a) <=>
        e \in With(L, ToSet(u), a) \/ (e = n /\ v # NoValue)
  BY <1>1, <1>2 DEF With, n
<1>5. /\ ToSet(Append(w, v)) = ToSet(w) \cup {v} \/ v = NoValue
      /\ v # NoValue => Append(w, v) \in Seq(Value)
      /\ v # NoValue => Len(Append(w, v)) = Len(w) + 1
      /\ v # NoValue /\ IsInjective(w) /\ v \notin ToSet(w)
           => IsInjective(Append(w, v))
  <2>1. CASE v = NoValue
    BY <2>1
  <2>2. CASE v # NoValue
    <3>1. v \in Value
      BY <2>2, <1>2
    <3> QED BY <3>1, <2>2, <1>0, AppendIs
  <2> QED BY <2>1, <2>2
<1>6. Contains(w, v) <=> v \in ToSet(w)
  <2>1. v \in ToSet(w) <=> \E i \in 1 .. Len(w) : w[i] = v
    BY <1>0, ToSetIs
  <2> QED BY <2>1 DEF Contains
<1>7. x \in Seq(Value)
  BY <1>0, <1>5
<1>8. "U" \in o => IsInjective(x)
  BY <1>0, <1>5, <1>6
<1>9. ToSet(x) \cup TestsOf(L, ToSet(u), a) = TestsOf(L, NodesOf(L), a)
  <2>1. CASE v = NoValue
    <3>1. x = w
      BY <2>1
    <3>2. TestsOf(L, ToSet(t), a) = TestsOf(L, ToSet(u), a)
      BY <1>3, <2>1
    <3> QED BY <3>1, <3>2, <1>0
  <2>2. CASE v # NoValue
    <3>1. ToSet(x) \cup {v} = ToSet(w) \cup {v} /\ v \in ToSet(x)
      BY <2>2, <1>5, <1>6
    <3>2. TestsOf(L, ToSet(t), a) = TestsOf(L, ToSet(u), a) \cup {v}
      BY <1>3, <2>2
    <3> HIDE DEF x
    <3> QED BY <3>1, <3>2, <1>0
  <2> QED BY <2>1, <2>2
<1>10. ASSUME "U" \notin o, Once(L)
       PROVE  /\ IsInjective(u)
              /\ Len(x) + Cardinality(With(L, ToSet(u), a))
                   = Cardinality(With(L, NodesOf(L), a))
  <2>1. IsInjective(t) /\ IsInjective(u) /\ n \notin ToSet(u)
    BY <1>0, <1>1, <1>10
  <2>2. Len(w) + Cardinality(With(L, ToSet(t), a))
          = Cardinality(With(L, NodesOf(L), a))
    BY <1>0, <1>10
  <2>3. IsFiniteSet(With(L, ToSet(u), a))
    <3>1. IsFiniteSet(ToSet(u)) /\ With(L, ToSet(u), a) \in SUBSET ToSet(u)
      BY <1>1, ToSetFinite DEF With
    <3> QED BY <3>1, FS_Subset
  <2>4. PICK c \in Nat : Cardinality(With(L, ToSet(u), a)) = c
    BY <2>3, FS_CardinalityType
  <2>5. n \notin With(L, ToSet(u), a)
    BY <2>1 DEF With
  <2>6. PICK k \in Nat : Len(w) = k
    BY <1>0
  <2>7. CASE v = NoValue
    <3>1. x = w
      BY <2>7
    <3>2. With(L, ToSet(t), a) = With(L, ToSet(u), a)
      BY <1>4, <2>7
    <3> QED BY <3>1, <3>2, <2>1, <2>2
  <2>8. CASE v # NoValue
    <3>1. Len(x) = k + 1
      BY <2>8, <1>5, <1>10, <2>6
    <3>2. With(L, ToSet(t), a) = With(L, ToSet(u), a) \cup {n}
      BY <1>4, <2>8
    <3>3. Cardinality(With(L, ToSet(t), a)) = c + 1
      BY <3>2, <2>3, <2>4, <2>5, FS_AddElement
    <3>4. k + (c + 1) = (k + 1) + c
      OBVIOUS
    <3> QED BY <3>1, <3>3, <3>4, <2>1, <2>2, <2>4, <2>6
  <2> QED BY <2>7, <2>8
<1>11. \A m \in ToSet(u) : Test(L, m, a) # Absent
  BY <1>0, <1>1
<1> HIDE DEF x
<1>12. ValuesAt(o, L, a, u, x, -1)
  BY <1>0, <1>1, <1>7, <1>8, <1>9, <1>10, <1>11 DEF ValuesAt
<1> QED BY <1>12 DEF u, x

(***************************************************************************)
(* list_attrs() for the nodes of a range.                                  *)
(***************************************************************************)

\* The attributes of a node with their values as they read there.
Read(L, n) == {<<a, Test(L, n, a)>> : a \in {b \in Attr : Test(L, n, b) # Absent}}

\* What is stored is what the tests answer.
LEMMA ReadIs ==
  ASSUME NEW L, Lines(L), NEW n
  PROVE  /\ View(L, n, FALSE) = Read(L, n)
         /\ Read(L, n) \subseteq Pair
         /\ \A p, q \in Read(L, n) : p[1] = q[1] => p = q
         /\ \A a, v : <<a, v>> \in Read(L, n) <=>
              a \in Attr /\ v = Test(L, n, a) /\ v # Absent
<1>1. \A a \in Attr : /\ Test(L, n, a) # Absent <=> Raw(L, n, a) # Absent
                      /\ Test(L, n, a) # Absent =>
                           Test(L, n, a) = ValueAs(FALSE, Raw(L, n, a), n)
                      /\ Test(L, n, a) \in Value \cup {NoValue, Absent}
  <2> SUFFICES ASSUME NEW a \in Attr
               PROVE  /\ Test(L, n, a) # Absent <=> Raw(L, n, a) # Absent
                      /\ Test(L, n, a) # Absent =>
                           Test(L, n, a) = ValueAs(FALSE, Raw(L, n, a), n)
                      /\ Test(L, n, a) \in Value \cup {NoValue, Absent}
    OBVIOUS
  <2>1. Test(L, n, a) # Absent <=> Raw(L, n, a) # Absent
    BY TestTypes
  <2>2. Test(L, n, a) \in Value \cup {NoValue, Absent}
    BY TestTypes
  <2>3. Test(L, n, a) # Absent => Test(L, n, a) = ValueAs(FALSE, Raw(L, n, a), n)
    BY TestIs
  <2> QED BY <2>1, <2>2, <2>3
<1>2. ASSUME NEW p \in View(L, n, FALSE) PROVE p \in Read(L, n)
  <2>1. PICK a \in Attr : Raw(L, n, a) # Absent
                          /\ p = <<a, ValueAs(FALSE, Raw(L, n, a), n)>>
    BY <1>2 DEF View
  <2>2. Test(L, n, a) # Absent /\ p = <<a, Test(L, n, a)>>
    BY <2>1, <1>1
  <2> QED BY <2>2 DEF Read
<1>3. ASSUME NEW p \in Read(L, n) PROVE p \in View(L, n, FALSE)
  <2>1. PICK a \in Attr : Test(L, n, a) # Absent /\ p = <<a, Test(L, n, a)>>
    BY <1>3 DEF Read
  <2>2. Raw(L, n, a) # Absent /\ p = <<a, ValueAs(FALSE, Raw(L, n, a), n)>>
    BY <2>1, <1>1
  <2> QED BY <2>2 DEF View
<1>4. \A a \in Attr : Test(L, n, a) # Absent => <<a, Test(L, n, a)>> \in Pair
  BY <1>1 DEF Pair
<1>5. Read(L, n) \subseteq Pair
  BY <1>4 DEF Read
<1>6. \A p, q \in Read(L, n) : p[1] = q[1] => p = q
  BY DEF Read
<1>7. ASSUME NEW a, NEW v
      PROVE  <<a, v>> \in Read(L, n) <=> a \in Attr /\ v = Test(L, n, a) /\ v # Absent
  <2>1. ASSUME <<a, v>> \in Read(L, n)
        PROVE  a \in Attr /\ v = Test(L, n, a) /\ v # Absent
    <3>1. PICK b \in Attr : Test(L, n, b) # Absent /\ <<a, v>> = <<b, Test(L, n, b)>>
      BY <2>1 DEF Read
    <3>2. a = b
      BY <3>1
    <3> QED BY <3>1, <3>2
  <2>2. ASSUME a \in Attr, v = Test(L, n, a), v # Absent
        PROVE  <<a, v>> \in Read(L, n)
    BY <2>2 DEF Read
  <2> QED BY <2>1, <2>2
<1> QED BY <1>2, <1>3, <1>5, <1>6, <1>7

\* What hosts are filed under, taken together.
KeysOf(h) == UNION {e.key : e \in h}

\* Filing a node under keys adds them to the table.
LEMMA FiledKeys ==
  ASSUME NEW h, NEW keys, NEW n
  PROVE  KeysOf(HashAttrval(h, keys, n)) = KeysOf(h) \cup UNION keys
<1> DEFINE g == HashAttrval(h, keys, n)
           hl(k) == UNION {e.hl : e \in {f \in h : f.key = k}}
           new == {[key |-> k, hl |-> hl(k) \cup {n}] : k \in keys}
<1>1. g = {e \in h : e.key \notin keys} \cup new
  BY DEF HashAttrval
<1>2. \A k \in keys : \E e \in new : e.key = k
  <2> TAKE k \in keys
  <2>1. [key |-> k, hl |-> hl(k) \cup {n}] \in new
    OBVIOUS
  <2>2. [key |-> k, hl |-> hl(k) \cup {n}].key = k
    OBVIOUS
  <2> HIDE DEF new
  <2> QED BY <2>1, <2>2
<1>3. \A e \in new : e.key \in keys
  OBVIOUS
<1> HIDE DEF new, g, hl
<1>4. ASSUME NEW p \in KeysOf(g) PROVE p \in KeysOf(h) \cup UNION keys
  BY <1>1, <1>3 DEF KeysOf
<1>5. ASSUME NEW p \in UNION keys PROVE p \in KeysOf(g)
  <2>1. PICK k \in keys : p \in k
    OBVIOUS
  <2>2. PICK e \in new : e.key = k
    BY <1>2
  <2> QED BY <2>1, <2>2, <1>1 DEF KeysOf
<1>6. ASSUME NEW p \in KeysOf(h) PROVE p \in KeysOf(g)
  <2>1. PICK e \in h : p \in e.key
    BY DEF KeysOf
  <2>2. CASE e.key \in keys
    BY <2>1, <2>2, <1>5
  <2>3. CASE e.key \notin keys
    BY <2>1, <2>3, <1>1 DEF KeysOf
  <2> QED BY <2>2, <2>3
<1> QED BY <1>4, <1>5, <1>6 DEF g

\* The nodes that are taken are in the table with their values, and nothing
\* is there but attributes of nodes that are asked for.
AttrsAt(L, nodes, t, h, array, w, st) ==
  /\ nodes \in Seq(Node) /\ t \in Seq(Node) /\ ToSet(t) \subseteq ToSet(nodes)
  /\ array \in Arrays(L) /\ IsFiniteSet(KeysOf(h))
  /\ \A n \in ToSet(nodes) : \A p \in Read(L, n) :
       p[2] = NoValue \/ p \in KeysOf(h) \/ n \in ToSet(t)
  /\ \A p \in KeysOf(h) : \E n \in ToSet(nodes) :
       \E q \in Read(L, n) : p[1] = q[1]
  /\ Len(nodes) = 1 =>
       \/ t = nodes /\ KeysOf(h) = {} /\ array = Cleared(L)
       \/ t = <<>> /\ KeysOf(h) = Read(L, nodes[1])
  /\ st = 0 => t = <<>> /\ w = SetToSeq(KeysOf(h))

\* genders_vallist_clear() leaves an array of NULLs.
LEMMA ClearedIs ==
  ASSUME NEW L, Loaded(L)
  PROVE  Cleared(L) \in Arrays(L)
BY NamesFinite, FS_CardinalityType DEF Cleared, Arrays

\* list_attrs() starts with every node of the range.
LEMMA AttrsStart ==
  ASSUME NEW L, Loaded(L), NEW nodes \in Seq(Node)
  PROVE  AttrsAt(L, nodes, nodes, {}, Cleared(L), <<>>, -1)
<1>1. KeysOf({}) = {}
  BY DEF KeysOf
<1>2. IsFiniteSet(KeysOf({}))
  BY <1>1, FS_EmptySet
<1> QED BY <1>1, <1>2, ClearedIs DEF AttrsAt

Singles(S) == {{p} : p \in S}

\* Each step files what a node has and leaves the others to come.
LEMMA AttrsKeep ==
  ASSUME NEW L, Loaded(L), NEW nodes, NEW t, NEW h, NEW array, NEW w, t # <<>>,
         AttrsAt(L, nodes, t, h, array, w, -1),
         NEW P, P = GetAttr(L, Last(t)),
         NEW new, new = Stored(array, P, FALSE, Last(t))
  PROVE  AttrsAt(L, nodes, Front(t),
                 HashAttrval(h, Singles(Shown(P, new)), Last(t)), new, w, -1)
<1> DEFINE n == Last(t)
           u == Front(t)
           H == Shown(P, new)
           g == HashAttrval(h, Singles(H), n)
           K == KeysOf(h)
<1>0. /\ Lines(L)
      /\ nodes \in Seq(Node) /\ t \in Seq(Node) /\ ToSet(t) \subseteq ToSet(nodes)
      /\ array \in Arrays(L) /\ IsFiniteSet(K)
      /\ \A m \in ToSet(nodes) : \A p \in Read(L, m) :
           p[2] = NoValue \/ p \in K \/ m \in ToSet(t)
      /\ \A p \in K : \E m \in ToSet(nodes) :
           \E q \in Read(L, m) : p[1] = q[1]
      /\ Len(nodes) = 1 =>
           \/ t = nodes /\ K = {} /\ array = Cleared(L)
           \/ t = <<>> /\ K = Read(L, nodes[1])
  BY DEF AttrsAt, Loaded
<1>1. /\ u \in Seq(Node) /\ n \in ToSet(t) /\ ToSet(t) = {n} \cup ToSet(u)
      /\ Len(u) = Len(t) - 1
  BY <1>0, FrontIs
<1>2. View(L, n, FALSE) = Read(L, n)
  BY <1>0, ReadIs
<1> DEFINE R == View(L, n, FALSE)
<1>3. /\ new \in Arrays(L) /\ H \subseteq Pair /\ IsFiniteSet(H)
      /\ \A p \in H : \E q \in R : p[1] = q[1] /\ (p = q \/ q[2] = NoValue)
      /\ \A q \in R : \E p \in H : p[1] = q[1] /\ (p = q \/ q[2] = NoValue)
      /\ array = Cleared(L) => H = R
  <2>1. array \in Arrays(L)
    BY <1>0
  <2>2. Stores(L, n, FALSE, array, GetAttr(L, n),
               Stored(array, GetAttr(L, n), FALSE, n))
    BY <2>1, StoredIs, Zenon
  <2>3. Stores(L, n, FALSE, array, P, new)
    BY <2>2
  <2> QED BY <2>3 DEF Stores
<1>4. KeysOf(g) = K \cup H
  <2>1. KeysOf(g) = K \cup UNION Singles(H)
    BY ONLY FiledKeys
  <2>2. UNION Singles(H) = H
    BY DEF Singles
  <2> QED BY <2>1, <2>2
<1> HIDE DEF n, u, H, g, K, R
<1>5. IsFiniteSet(KeysOf(g))
  <2>1. IsFiniteSet(K) /\ IsFiniteSet(H)
    BY <1>0, <1>3
  <2>2. IsFiniteSet(K \cup H)
    BY <2>1, FS_Union
  <2> QED BY <2>2, <1>4
<1>6. ASSUME NEW m \in ToSet(nodes), NEW p \in Read(L, m)
      PROVE  p[2] = NoValue \/ p \in KeysOf(g) \/ m \in ToSet(u)
  <2>1. CASE m = n
    <3>1. p \in R
      BY <2>1, <1>2 DEF R
    <3>2. PICK q \in H : q[1] = p[1] /\ (q = p \/ p[2] = NoValue)
      BY <3>1, <1>3
    <3> QED BY <3>2, <1>4
  <2>2. CASE m # n
    BY <2>2, <1>0, <1>1, <1>4
  <2> QED BY <2>1, <2>2
<1>7. ASSUME NEW p \in KeysOf(g)
      PROVE  \E m \in ToSet(nodes) : \E q \in Read(L, m) : p[1] = q[1]
  <2>1. CASE p \in K
    BY <2>1, <1>0
  <2>2. CASE p \in H
    <3>1. PICK q \in R : p[1] = q[1]
      BY <2>2, <1>3
    <3> QED BY <3>1, <1>0, <1>1, <1>2 DEF R
  <2> QED BY <2>1, <2>2, <1>4
<1>8. ASSUME Len(nodes) = 1 PROVE u = <<>> /\ KeysOf(g) = Read(L, nodes[1])
  <2>1. t = nodes /\ K = {} /\ array = Cleared(L)
    BY <1>0, <1>8
  <2>2. Len(u) = 0
    BY <2>1, <1>1, <1>8
  <2>3. u = <<>>
    BY <2>2, <1>1
  <2>4. n = nodes[1]
    BY <2>1, <1>8 DEF n, Last
  <2>5. KeysOf(g) = R
    BY <2>1, <1>3, <1>4
  <2> QED BY <2>3, <2>4, <2>5, <1>2 DEF R
<1>9. ToSet(u) \subseteq ToSet(nodes)
  BY <1>0, <1>1
<1>10. AttrsAt(L, nodes, u, g, new, w, -1)
  BY <1>0, <1>1, <1>3, <1>5, <1>6, <1>7, <1>8, <1>9 DEF AttrsAt
<1> QED BY <1>10 DEF u, g, n, H

(***************************************************************************)
(* expand().                                                               *)
(***************************************************************************)

\* Each node that is taken has one line.
ExpandAt(L, t, w, st) ==
  /\ t \in Seq(Node) /\ IsInjective(t) /\ ToSet(t) \subseteq NodesOf(L)
  /\ w \in Seq({Printed(<<n>>, Read(L, n), FALSE) : n \in NodesOf(L) \ ToSet(t)})
  /\ \A n \in NodesOf(L) \ ToSet(t) :
       \E i \in 1 .. Len(w) : w[i] = Printed(<<n>>, Read(L, n), FALSE)
  /\ \A i, j \in 1 .. Len(w) : w[i].hl = w[j].hl => i = j
  /\ st = 0 => t = <<>>

\* The loops are over all nodes of the file, each of them once.
LEMMA NodesSorted ==
  ASSUME NEW L, Loaded(L)
  PROVE  LET t == Sorted(NodesOf(L))
         IN  t \in Seq(Node) /\ IsInjective(t) /\ ToSet(t) = NodesOf(L)
<1> DEFINE t == Sorted(NodesOf(L))
<1>1. Lists(t, NodesOf(L)) /\ NodesOf(L) \subseteq Node
  BY NamesFinite, SortedLists
<1> HIDE DEF t
<1>2. t \in Seq(Node)
  BY <1>1 DEF Lists
<1> QED BY <1>1, <1>2 DEF Lists, t

\* expand() starts with every node and has printed none.
LEMMA ExpandStart ==
  ASSUME NEW L, Loaded(L)
  PROVE  ExpandAt(L, Sorted(NodesOf(L)), <<>>, -1)
<1>1. NodesOf(L) \ ToSet(Sorted(NodesOf(L))) = {}
  BY NodesSorted
<1>2. \A E : <<>> \in Seq(E)
  OBVIOUS
<1>3. \A i \in 1 .. Len(<<>>) : FALSE
  OBVIOUS
<1> QED BY <1>1, <1>2, <1>3, NodesSorted DEF ExpandAt

\* Each step prints the line of one more node.
LEMMA ExpandKeep ==
  ASSUME NEW L, Loaded(L), NEW t, NEW w, t # <<>>, ExpandAt(L, t, w, -1)
  PROVE  ExpandAt(L, Tail(t),
                  Append(w, Printed(<<Head(t)>>, Read(L, Head(t)), FALSE)), -1)
<1> DEFINE u == Tail(t)
           n == Head(t)
           Line(m) == Printed(<<m>>, Read(L, m), FALSE)
           E == {Line(m) : m \in NodesOf(L) \ ToSet(t)}
           F == {Line(m) : m \in NodesOf(L) \ ToSet(u)}
           x == Append(w, Line(n))
<1>0. /\ t \in Seq(Node) /\ IsInjective(t) /\ ToSet(t) \subseteq NodesOf(L)
      /\ w \in Seq(E)
      /\ \A m \in NodesOf(L) \ ToSet(t) : \E i \in 1 .. Len(w) : w[i] = Line(m)
      /\ \A i, j \in 1 .. Len(w) : w[i].hl = w[j].hl => i = j
  BY DEF ExpandAt
<1>1. /\ u \in Seq(Node) /\ n \in ToSet(t) /\ ToSet(t) = {n} \cup ToSet(u)
      /\ IsInjective(u) /\ n \notin ToSet(u)
  BY <1>0, TailIs
<1>2. E \subseteq F /\ Line(n) \in F
  BY <1>0, <1>1
<1>3. \A m : Line(m).hl = <<m>>
  BY DEF Printed
<1>4. \A e \in E : \E m \in NodesOf(L) \ ToSet(t) : e = Line(m)
  OBVIOUS
<1> HIDE DEF u, n, Line, E, F
<1>5. PICK k \in Nat : Len(w) = k
  BY <1>0
<1>6. /\ \A i \in 1 .. k : w[i] \in E
      /\ w \in Seq(F)
  <2>1. \A i \in 1 .. k : w[i] \in E
    BY <1>0, <1>5
  <2>2. w \in Seq(F)
    BY <1>0, <1>2, SeqMonotonic
  <2> QED BY <2>1, <2>2
<1>7. /\ x \in Seq(F) /\ Len(x) = k + 1 /\ x[k + 1] = Line(n)
      /\ \A i \in 1 .. k : x[i] = w[i]
  BY <1>2, <1>5, <1>6
<1> HIDE DEF x
<1>8. \A i \in 1 .. k + 1 : i \in 1 .. k \/ i = k + 1
  BY <1>5
<1>9. \A i \in 1 .. k : w[i].hl # <<n>>
  <2> SUFFICES ASSUME NEW i \in 1 .. k PROVE w[i].hl # <<n>>
    OBVIOUS
  <2>1. PICK m \in NodesOf(L) \ ToSet(t) : w[i] = Line(m)
    BY <1>4, <1>6
  <2>2. m # n
    BY <1>1, <2>1
  <2> QED BY <2>1, <2>2, <1>3
<1>10. ASSUME NEW m \in NodesOf(L) \ ToSet(u)
       PROVE  \E i \in 1 .. Len(x) : x[i] = Line(m)
  <2>1. CASE m = n
    <3>1. k + 1 \in 1 .. Len(x)
      BY <1>7
    <3> QED BY <2>1, <3>1, <1>7
  <2>2. CASE m # n
    <3>1. PICK i \in 1 .. k : w[i] = Line(m)
      BY <2>2, <1>0, <1>1, <1>5
    <3>2. i \in 1 .. Len(x)
      BY <1>7
    <3> QED BY <3>1, <3>2, <1>7
  <2> QED BY <2>1, <2>2
<1>11. \A i, j \in 1 .. Len(x) : x[i].hl = x[j].hl => i = j
  <2> SUFFICES ASSUME NEW i \in 1 .. k + 1, NEW j \in 1 .. k + 1,
                      x[i].hl = x[j].hl
               PROVE  i = j
    BY <1>7
  <2>1. CASE i \in 1 .. k /\ j \in 1 .. k
    BY <2>1, <1>0, <1>5, <1>7
  <2>2. CASE i = k + 1 /\ j \in 1 .. k
    BY <2>2, <1>3, <1>7, <1>9
  <2>3. CASE j = k + 1 /\ i \in 1 .. k
    BY <2>3, <1>3, <1>7, <1>9
  <2> QED BY <2>1, <2>2, <2>3, <1>8
<1>12. ToSet(u) \subseteq NodesOf(L)
  BY <1>0, <1>1
<1>13. x \in Seq({Printed(<<m>>, Read(L, m), FALSE) : m \in NodesOf(L) \ ToSet(u)})
  BY <1>7 DEF F, Line
<1>14. \A m \in NodesOf(L) \ ToSet(u) :
         \E i \in 1 .. Len(x) : x[i] = Printed(<<m>>, Read(L, m), FALSE)
  BY <1>10 DEF Line
<1>15. ExpandAt(L, u, x, -1)
  BY <1>1, <1>11, <1>12, <1>13, <1>14 DEF ExpandAt
<1> QED BY <1>15 DEF u, x, n, Line

(***************************************************************************)
(* compress() and compress_hosts().                                        *)
(***************************************************************************)

\* The nodes in S that have the key k, and all keys that are had; what is
\* filed when all nodes in S are.
HostsOf(ks, S, k) == {n \in S : k \in ks[n]}
AllKeys(ks, S) == UNION {ks[n] : n \in S}
Entry(ks, S, k) == [key |-> k, hl |-> HostsOf(ks, S, k)]
FiledBy(ks, S) == {Entry(ks, S, k) : k \in AllKeys(ks, S)}

\* What is filed, key by key.
LEMMA EntryIs ==
  ASSUME NEW ks, NEW S
  PROVE  /\ \A k : Entry(ks, S, k).key = k /\ Entry(ks, S, k).hl = HostsOf(ks, S, k)
         /\ \A e \in FiledBy(ks, S) :
              e.key \in AllKeys(ks, S) /\ e = Entry(ks, S, e.key)
         /\ \A k \in AllKeys(ks, S) : Entry(ks, S, k) \in FiledBy(ks, S)
         /\ \A k : k \in AllKeys(ks, S) <=> HostsOf(ks, S, k) # {}
<1>1. \A k : Entry(ks, S, k).key = k /\ Entry(ks, S, k).hl = HostsOf(ks, S, k)
  BY DEF Entry
<1>2. \A e \in FiledBy(ks, S) : \E k \in AllKeys(ks, S) : e = Entry(ks, S, k)
  BY DEF FiledBy
<1>3. \A k \in AllKeys(ks, S) : Entry(ks, S, k) \in FiledBy(ks, S)
  BY DEF FiledBy
<1>4. \A k : k \in AllKeys(ks, S) <=> HostsOf(ks, S, k) # {}
  BY DEF AllKeys, HostsOf
<1> QED BY <1>1, <1>2, <1>3, <1>4

\* Filing one more node under its keys.
LEMMA FiledMore ==
  ASSUME NEW ks, NEW S, NEW n
  PROVE  HashAttrval(FiledBy(ks, S), ks[n], n) = FiledBy(ks, S \cup {n})
<1> DEFINE h == FiledBy(ks, S)
           U == S \cup {n}
           hl(k) == UNION {e.hl : e \in {f \in h : f.key = k}}
           new == {[key |-> k, hl |-> hl(k) \cup {n}] : k \in ks[n]}
           g == HashAttrval(h, ks[n], n)
<1>1. g = {e \in h : e.key \notin ks[n]} \cup new
  BY DEF HashAttrval
<1>2. ASSUME NEW k PROVE hl(k) = HostsOf(ks, S, k)
  <2>1. CASE k \in AllKeys(ks, S)
    <3>1. {f \in h : f.key = k} = {Entry(ks, S, k)}
      <4>1. Entry(ks, S, k) \in h /\ Entry(ks, S, k).key = k
        BY <2>1, EntryIs
      <4>2. \A f \in h : f.key = k => f = Entry(ks, S, k)
        BY EntryIs
      <4> HIDE DEF h
      <4> QED BY <4>1, <4>2
    <3>2. Entry(ks, S, k).hl = HostsOf(ks, S, k)
      BY DEF Entry
    <3> HIDE DEF h
    <3> QED BY <3>1, <3>2
  <2>2. CASE k \notin AllKeys(ks, S)
    <3>1. \A f \in h : f.key # k
      BY <2>2, EntryIs
    <3>2. HostsOf(ks, S, k) = {}
      BY <2>2, EntryIs
    <3> HIDE DEF h
    <3> QED BY <3>1, <3>2
  <2> QED BY <2>1, <2>2
<1>3. ASSUME NEW k PROVE /\ k \in ks[n] => HostsOf(ks, U, k) = HostsOf(ks, S, k) \cup {n}
                         /\ k \notin ks[n] => HostsOf(ks, U, k) = HostsOf(ks, S, k)
  BY DEF HostsOf
<1>4. \A k : k \in AllKeys(ks, U) <=> k \in AllKeys(ks, S) \/ k \in ks[n]
  BY DEF AllKeys
<1>5. \A k \in ks[n] : [key |-> k, hl |-> hl(k) \cup {n}] = Entry(ks, U, k)
  <2> TAKE k \in ks[n]
  <2>1. hl(k) \cup {n} = HostsOf(ks, U, k)
    BY <1>2, <1>3
  <2> HIDE DEF hl
  <2> QED BY <2>1 DEF Entry
<1>6. \A e : e \in new <=> \E k \in ks[n] : e = Entry(ks, U, k)
  <2> HIDE DEF hl
  <2> QED BY <1>5
<1>7. \A k : k \notin ks[n] => Entry(ks, S, k) = Entry(ks, U, k)
  BY <1>3 DEF Entry
<1>8. \A e : e \in FiledBy(ks, U) <=> \E k \in AllKeys(ks, U) : e = Entry(ks, U, k)
  BY DEF FiledBy
<1>9. \A e : e \in h <=> \E k \in AllKeys(ks, S) : e = Entry(ks, S, k)
  BY DEF FiledBy
<1>10. \A k : Entry(ks, S, k).key = k
  BY DEF Entry
<1> HIDE DEF h, U, hl, new, g
<1>11. ASSUME NEW e \in g PROVE e \in FiledBy(ks, U)
  <2>1. CASE e \in new
    BY <2>1, <1>4, <1>6, <1>8
  <2>2. CASE e \in h /\ e.key \notin ks[n]
    <3>1. PICK k \in AllKeys(ks, S) : e = Entry(ks, S, k)
      BY <2>2, <1>9
    <3>2. k \notin ks[n]
      BY <3>1, <2>2, <1>10
    <3> QED BY <3>1, <3>2, <1>4, <1>7, <1>8
  <2> QED BY <2>1, <2>2, <1>1
<1>12. ASSUME NEW e \in FiledBy(ks, U) PROVE e \in g
  <2>1. PICK k \in AllKeys(ks, U) : e = Entry(ks, U, k)
    BY <1>8
  <2>2. CASE k \in ks[n]
    BY <2>1, <2>2, <1>1, <1>6
  <2>3. CASE k \notin ks[n]
    <3>1. e = Entry(ks, S, k) /\ k \in AllKeys(ks, S) /\ e.key = k
      BY <2>1, <2>3, <1>4, <1>7, <1>10
    <3> QED BY <3>1, <2>3, <1>1, <1>9
  <2> QED BY <2>2, <2>3
<1>13. g = FiledBy(ks, U)
  BY <1>11, <1>12
<1> QED BY <1>13 DEF g, h, U

\* Where hostlist_sort() loses no host, a range has the nodes it was filed with.
LEMMA RangesKeepHosts ==
  ASSUME NEW h, SortKeepsHosts, \A e \in h : e.hl \in SUBSET Node
  PROVE  Ranges(h)
           = {[hl |-> e.hl, keys |-> {f.key : f \in {g \in h : g.hl = e.hl}}] : e \in h}
<1> DEFINE Sorts(e) ==
             [hl |-> AfterSort[e.hl],
              keys |-> {f.key : f \in {g \in h : AfterSort[g.hl] = AfterSort[e.hl]}}]
           Of(e) == [hl |-> e.hl, keys |-> {f.key : f \in {g \in h : g.hl = e.hl}}]
<1>1. ASSUME NEW e \in h PROVE Sorts(e) = Of(e)
  <2>1. \A g \in h : AfterSort[g.hl] = g.hl
    BY DEF SortKeepsHosts
  <2>2. {g \in h : AfterSort[g.hl] = AfterSort[e.hl]} = {g \in h : g.hl = e.hl}
    BY <2>1
  <2>3. AfterSort[e.hl] = e.hl
    BY <2>1
  <2> QED BY <2>2, <2>3
<1>2. Ranges(h) = {Sorts(e) : e \in h}
  BY DEF Ranges
<1> HIDE DEF Sorts, Of
<1>3. {Sorts(e) : e \in h} = {Of(e) : e \in h}
  BY <1>1
<1> QED BY <1>2, <1>3 DEF Of

\* The ranges of what is filed: each key is in one of them, with its nodes.
LEMMA RangesIs ==
  ASSUME NEW ks, NEW S, S \subseteq Node, SortKeepsHosts
  PROVE  LET R == Ranges(FiledBy(ks, S))
         IN  /\ \A r \in R : r.keys # {} /\ r.hl # {} /\ r.hl \subseteq S
             /\ \A r \in R : \A k \in r.keys :
                  k \in AllKeys(ks, S) /\ r.hl = HostsOf(ks, S, k)
             /\ \A r, s \in R : \A k : k \in r.keys /\ k \in s.keys => r = s
             /\ \A k \in AllKeys(ks, S) : \E r \in R : k \in r.keys
<1> DEFINE h == FiledBy(ks, S)
           R == Ranges(h)
           Of(e) == [hl |-> e.hl, keys |-> {f.key : f \in {g \in h : g.hl = e.hl}}]
<1>0. \A e \in h : e.hl \in SUBSET Node
  <2> SUFFICES ASSUME NEW e \in h PROVE e.hl \in SUBSET Node
    OBVIOUS
  <2>1. e.hl = HostsOf(ks, S, e.key)
    BY EntryIs
  <2> QED BY <2>1 DEF HostsOf
<1>1. R = {Of(e) : e \in h}
  <2> HIDE DEF h
  <2> QED BY <1>0, RangesKeepHosts
<1>2. ASSUME NEW e
      PROVE  Of(e).hl = e.hl /\ \A k : k \in Of(e).keys <=>
                                   \E f \in h : f.hl = e.hl /\ f.key = k
  <2> HIDE DEF h
  <2> QED OBVIOUS
<1>3. \A e \in h : e.key \in AllKeys(ks, S) /\ e = Entry(ks, S, e.key)
                   /\ e.hl = HostsOf(ks, S, e.key)
  BY EntryIs
<1>4. \A k \in AllKeys(ks, S) : Entry(ks, S, k) \in h /\ Entry(ks, S, k).key = k
                                /\ HostsOf(ks, S, k) # {}
  BY EntryIs
<1>5. \A k : HostsOf(ks, S, k) \subseteq S
  BY DEF HostsOf
<1>6. \A e, f \in h : e.hl = f.hl => Of(e) = Of(f)
  OBVIOUS
<1> HIDE DEF h, Of, R
<1>7. ASSUME NEW r \in R PROVE r.keys # {} /\ r.hl # {} /\ r.hl \subseteq S
  <2>1. PICK e \in h : r = Of(e)
    BY <1>1
  <2>2. e.key \in r.keys /\ r.hl = e.hl
    BY <2>1, <1>2
  <2>3. e.hl # {} /\ e.hl \subseteq S
    BY <1>3, <1>4, <1>5
  <2> QED BY <2>2, <2>3
<1>8. ASSUME NEW r \in R, NEW k \in r.keys
      PROVE  k \in AllKeys(ks, S) /\ r.hl = HostsOf(ks, S, k)
  <2>1. PICK e \in h : r = Of(e)
    BY <1>1
  <2>2. PICK f \in h : f.hl = e.hl /\ f.key = k
    BY <2>1, <1>2
  <2> QED BY <2>1, <2>2, <1>2, <1>3
<1>9. ASSUME NEW r \in R, NEW s \in R, NEW k, k \in r.keys, k \in s.keys
      PROVE  r = s
  <2>1. PICK e \in h : r = Of(e)
    BY <1>1
  <2>2. PICK f \in h : s = Of(f)
    BY <1>1
  <2>3. e.hl = f.hl
    BY <2>1, <2>2, <1>2, <1>8, <1>9
  <2> QED BY <2>1, <2>2, <2>3, <1>6
<1>10. ASSUME NEW k \in AllKeys(ks, S) PROVE \E r \in R : k \in r.keys
  <2>1. Of(Entry(ks, S, k)) \in R /\ k \in Of(Entry(ks, S, k)).keys
    BY <1>1, <1>2, <1>4
  <2> QED BY <2>1
<1> QED BY <1>7, <1>8, <1>9, <1>10 DEF R, h

\* list_sort() by _hostrange_cmp() loses no range and doubles none.
LEMMA LongestLists ==
  ASSUME NEW R, IsFiniteSet(R), \A r \in R : r.hl \in SUBSET Node
  PROVE  Lists(LongestFirst(R), R)
<1> DEFINE q == [x \in R |-> 0 - PrintedLen[x.hl]]
           Is(s) == s \in SetToSeqs(R)
                    /\ \A i, j \in DOMAIN s : i < j => PrintedLen[s[i].hl] >= PrintedLen[s[j].hl]
           f == CHOOSE s : Is(s)
<1>0. \A x \in R : PrintedLen[x.hl] \in Nat
  BY NodeattrAssumption
<1>1. q \in [R -> Int] /\ \A x \in R : q[x] = 0 - PrintedLen[x.hl]
  BY <1>0
<1> HIDE DEF q
<1>2. PICK t \in [1 .. Cardinality(R) -> R] : Lists(t, R) /\ Rises(t, q)
  BY <1>1, RisingExists
<1>3. t \in Seq(R) /\ Len(t) = Cardinality(R) /\ IsInjective(t)
  BY <1>2 DEF Lists
<1>4. Is(t)
  <2>1. t \in SetToSeqs(R)
    BY <1>2, <1>3, InjectiveIs DEF SetToSeqs
  <2>2. ASSUME NEW i \in DOMAIN t, NEW j \in DOMAIN t, i < j
        PROVE  PrintedLen[t[i].hl] >= PrintedLen[t[j].hl]
    <3>1. i \in 1 .. Len(t) /\ j \in 1 .. Len(t)
      BY <1>3
    <3>2. t[i] \in R /\ t[j] \in R
      BY <3>1, <1>3
    <3>3. q[t[i]] =< q[t[j]]
      BY <3>1, <1>2, <2>2 DEF Rises
    <3>4. 0 - PrintedLen[t[i].hl] =< 0 - PrintedLen[t[j].hl]
      BY <3>2, <3>3, <1>1
    <3>5. PICK x \in Nat : x = PrintedLen[t[i].hl]
      BY <3>2, <1>0
    <3>6. PICK y \in Nat : y = PrintedLen[t[j].hl]
      BY <3>2, <1>0
    <3>7. 0 - x =< 0 - y => x >= y
      OBVIOUS
    <3> QED BY <3>4, <3>5, <3>6, <3>7
  <2> QED BY <2>1, <2>2
<1>5. Is(f)
  <2> HIDE DEF Is
  <2> QED BY <1>4
<1>6. LongestFirst(R) = f
  BY DEF LongestFirst
<1> HIDE DEF f
<1>7. f \in [1 .. Cardinality(R) -> R]
      /\ \A i, j \in 1 .. Cardinality(R) : f[i] = f[j] => i = j
  BY <1>5 DEF SetToSeqs
<1> QED BY <1>6, <1>7, EnumIs

\* A function's image of a finite set is finite.
LEMMA ImageFinite ==
  ASSUME NEW S, IsFiniteSet(S), NEW f, DOMAIN f = S
  PROVE  IsFiniteSet({f[x] : x \in S})
<1> DEFINE T == {f[x] : x \in S}
           g == [x \in S |-> f[x]]
<1>1. g \in Surjection(S, T)
  BY DEF Surjection
<1> HIDE DEF g, T
<1>2. IsFiniteSet(T)
  BY <1>1, FS_Surjection
<1> QED BY <1>2 DEF T

\* Finitely many ranges are filed.
LEMMA RangesFinite ==
  ASSUME NEW ks, NEW S, IsFiniteSet(S), \A n \in S : IsFiniteSet(ks[n])
  PROVE  IsFiniteSet(Ranges(FiledBy(ks, S)))
<1> DEFINE A == {ks[n] : n \in S}
           f == [n \in S |-> ks[n]]
           h == FiledBy(ks, S)
           e == [k \in UNION A |-> Entry(ks, S, k)]
           r == [x \in h |->
                   [hl |-> AfterSort[x.hl],
                    keys |-> {y.key : y \in {z \in h : AfterSort[z.hl] = AfterSort[x.hl]}}]]
<1>1. IsFiniteSet(A)
  <2>1. A = {f[n] : n \in S} /\ DOMAIN f = S
    OBVIOUS
  <2> HIDE DEF A, f
  <2> QED BY <2>1, ImageFinite
<1>2. IsFiniteSet(UNION A)
  <2>1. \A T \in A : IsFiniteSet(T)
    OBVIOUS
  <2> HIDE DEF A
  <2> QED BY <1>1, <2>1, FS_UNION
<1>3. IsFiniteSet(h)
  <2>1. h = {e[k] : k \in UNION A} /\ DOMAIN e = UNION A
    BY DEF FiledBy, AllKeys
  <2> HIDE DEF h, e
  <2> QED BY <1>2, <2>1, ImageFinite
<1>4. Ranges(h) = {r[x] : x \in h} /\ DOMAIN r = h
  BY DEF Ranges
<1> HIDE DEF h, r
<1>5. IsFiniteSet(Ranges(h))
  BY <1>3, <1>4, ImageFinite
<1> QED BY <1>5 DEF h

\* What a node is filed under, by its attributes with their values.
KeysAt(c, shown) ==
  IF c = "compress_hosts" THEN {shown}
  ELSE IF shown = {} THEN {{}} ELSE Singles(shown)

\* A node's keys hold each of its attributes, and each of them once.
LEMMA KeysAtIs ==
  ASSUME NEW c, NEW s
  PROVE  /\ KeysAt(c, s) # {} /\ UNION KeysAt(c, s) = s
         /\ {} \in KeysAt(c, s) => KeysAt(c, s) = {{}}
         /\ \A k, l \in KeysAt(c, s) : k \cap l # {} => k = l
         /\ c # "compress_hosts" =>
              \A k \in KeysAt(c, s) : \A p \in k : k = {p}
         /\ c = "compress_hosts" => KeysAt(c, s) = {s}
<1>1. CASE c = "compress_hosts"
  BY <1>1 DEF KeysAt
<1>2. CASE c # "compress_hosts" /\ s = {}
  BY <1>2 DEF KeysAt
<1>3. CASE c # "compress_hosts" /\ s # {}
  <2>1. KeysAt(c, s) = Singles(s)
    BY <1>3 DEF KeysAt
  <2>2. \A k \in Singles(s) : \E p \in s : k = {p}
    BY DEF Singles
  <2>3. \A p \in s : {p} \in Singles(s)
    BY DEF Singles
  <2>4. UNION Singles(s) = s /\ Singles(s) # {} /\ {} \notin Singles(s)
    <3>1. \A e : e \in UNION Singles(s) <=> e \in s
      BY ONLY <2>2, <2>3
    <3>2. PICK p : p \in s
      BY <1>3
    <3>3. {p} \in Singles(s)
      BY <3>2, <2>3
    <3>4. {} \notin Singles(s)
      BY <2>2
    <3> QED BY ONLY <3>1, <3>3, <3>4
  <2>5. \A k, l \in Singles(s) : k \cap l # {} => k = l
    <3> SUFFICES ASSUME NEW k \in Singles(s), NEW l \in Singles(s),
                        NEW r, r \in k, r \in l
                 PROVE  k = l
      OBVIOUS
    <3>1. k = {r} /\ l = {r}
      BY <2>2
    <3> QED BY <3>1
  <2>6. \A k \in Singles(s) : \A p \in k : k = {p}
    BY <2>2
  <2> QED BY <1>3, <2>1, <2>4, <2>5, <2>6
<1> QED BY <1>1, <1>2, <1>3

\* The attributes of a node with their values as the file has them.
Keep(L, n) == View(L, n, TRUE)

\* What is kept raw is what the file has.
LEMMA KeepIs ==
  ASSUME NEW L, Loaded(L), NEW n
  PROVE  /\ Keep(L, n) \subseteq Pair /\ IsFiniteSet(Keep(L, n))
         /\ \A p, q \in Keep(L, n) : p[1] = q[1] => p = q
         /\ \A a, v : <<a, v>> \in Keep(L, n) <=> v = Raw(L, n, a) /\ v # Absent
         /\ Shown(GetAttr(L, n), Stored(Cleared(L), GetAttr(L, n), TRUE, n))
              = Keep(L, n)
<1>0. Lines(L)
  BY DEF Loaded
<1>1. Cleared(L) \in Arrays(L)
  BY ClearedIs
<1> DEFINE H == Shown(GetAttr(L, n), Stored(Cleared(L), GetAttr(L, n), TRUE, n))
<1>2. Stores(L, n, TRUE, Cleared(L), GetAttr(L, n),
             Stored(Cleared(L), GetAttr(L, n), TRUE, n))
  BY <1>1, StoredIs, Zenon
<1>3. H \subseteq Pair /\ H = View(L, n, TRUE) /\ IsFiniteSet(H)
  BY <1>2 DEF Stores
<1> HIDE DEF H
<1>4. \A a : Raw(L, n, a) # Absent =>
        a \in Attr /\ ValueAs(TRUE, Raw(L, n, a), n) = Raw(L, n, a)
  <2> SUFFICES ASSUME NEW a, Raw(L, n, a) # Absent
               PROVE  a \in Attr /\ ValueAs(TRUE, Raw(L, n, a), n) = Raw(L, n, a)
    OBVIOUS
  <2>1. a \in Attr
    BY <1>0, RawIs
  <2> QED BY <2>1 DEF ValueAs
<1>5. ASSUME NEW a, NEW v
      PROVE  <<a, v>> \in View(L, n, TRUE) <=> v = Raw(L, n, a) /\ v # Absent
  <2>1. ASSUME <<a, v>> \in View(L, n, TRUE) PROVE v = Raw(L, n, a) /\ v # Absent
    <3>1. PICK b \in Attr : Raw(L, n, b) # Absent
                            /\ <<a, v>> = <<b, ValueAs(TRUE, Raw(L, n, b), n)>>
      BY <2>1 DEF View
    <3>2. a = b
      BY <3>1
    <3> QED BY <3>1, <3>2, <1>4
  <2>2. ASSUME v = Raw(L, n, a), v # Absent PROVE <<a, v>> \in View(L, n, TRUE)
    <3>1. a \in Attr /\ v = ValueAs(TRUE, Raw(L, n, a), n)
      BY <2>2, <1>4
    <3> QED BY <3>1, <2>2 DEF View
  <2> QED BY <2>1, <2>2
<1>6. ASSUME NEW p \in View(L, n, TRUE), NEW q \in View(L, n, TRUE), p[1] = q[1]
      PROVE  p = q
  <2>1. p = <<p[1], p[2]>> /\ q = <<q[1], q[2]>>
    <3>1. p \in H /\ q \in H
      BY <1>3, <1>6
    <3>2. p \in Pair /\ q \in Pair
      BY <3>1, <1>3
    <3> QED BY ONLY <3>2 DEF Pair
  <2>2. p[2] = Raw(L, n, p[1]) /\ q[2] = Raw(L, n, q[1])
    BY <2>1, <1>5
  <2> QED BY <2>1, <2>2, <1>6
<1> QED BY <1>3, <1>5, <1>6 DEF Keep, H

KeysBy(L, c) == [n \in Node |-> KeysAt(c, Keep(L, n))]

\* What is printed of the table.
RangeLines(h) ==
  LET lines == LongestFirst(Ranges(h))
  IN  [i \in DOMAIN lines |-> RangeLine(lines[i])]

\* The nodes that are taken are filed under what they have.
GatherAt(L, c, t, h, w, st) ==
  /\ t \in Seq(Node) /\ IsInjective(t) /\ ToSet(t) \subseteq NodesOf(L)
  /\ h = FiledBy(KeysBy(L, c), NodesOf(L) \ ToSet(t))
  /\ st = 0 => t = <<>> /\ w = RangeLines(h)

\* compress() starts with every node and an empty table.
LEMMA GatherStart ==
  ASSUME NEW L, Loaded(L), NEW c
  PROVE  GatherAt(L, c, Sorted(NodesOf(L)), {}, <<>>, -1)
<1>1. NodesOf(L) \ ToSet(Sorted(NodesOf(L))) = {}
  BY NodesSorted
<1>2. FiledBy(KeysBy(L, c), {}) = {}
  BY DEF FiledBy, AllKeys
<1>3. {} = FiledBy(KeysBy(L, c), NodesOf(L) \ ToSet(Sorted(NodesOf(L))))
  BY <1>1, <1>2
<1>4. ~ (-1 = 0)
  OBVIOUS
<1>5. Sorted(NodesOf(L)) \in Seq(Node) /\ IsInjective(Sorted(NodesOf(L)))
      /\ ToSet(Sorted(NodesOf(L))) = NodesOf(L)
  BY NodesSorted
<1> QED BY <1>3, <1>4, <1>5 DEF GatherAt

\* Each step files one more node under its keys.
LEMMA GatherKeep ==
  ASSUME NEW L, Loaded(L), NEW c, NEW t, NEW h, NEW w, t # <<>>,
         GatherAt(L, c, t, h, w, -1), NEW s, s = Keep(L, Head(t))
  PROVE  GatherAt(L, c, Tail(t), HashAttrval(h, KeysAt(c, s), Head(t)), w, -1)
<1> DEFINE u == Tail(t)
           n == Head(t)
           ks == KeysBy(L, c)
           S == NodesOf(L) \ ToSet(t)
<1>0. /\ t \in Seq(Node) /\ IsInjective(t) /\ ToSet(t) \subseteq NodesOf(L)
      /\ h = FiledBy(ks, S)
  BY DEF GatherAt
<1>1. /\ u \in Seq(Node) /\ n \in Node /\ n \in ToSet(t)
      /\ ToSet(t) = {n} \cup ToSet(u) /\ IsInjective(u) /\ n \notin ToSet(u)
  BY <1>0, TailIs
<1>2. ks[n] = KeysAt(c, s)
  BY <1>1 DEF KeysBy
<1> HIDE DEF u, n, ks, S
<1>3. HashAttrval(h, KeysAt(c, s), n) = FiledBy(ks, S \cup {n})
  BY <1>0, <1>2, FiledMore
<1>4. S \cup {n} = NodesOf(L) \ ToSet(u)
  BY <1>0, <1>1 DEF S
<1>5. ToSet(u) \subseteq NodesOf(L)
  BY <1>0, <1>1
<1>6. GatherAt(L, c, u, HashAttrval(h, KeysAt(c, s), n), w, -1)
  BY <1>1, <1>3, <1>4, <1>5 DEF GatherAt, ks
<1> QED BY <1>6 DEF u, n

(***************************************************************************)
(* What is printed reads back.                                             *)
(***************************************************************************)

AttrvalsOf(pairs) ==
  [a \in Attr |-> IF \E p \in pairs : p[1] = a
                  THEN (CHOOSE p \in pairs : p[1] = a)[2] ELSE Absent]

LineFrom(o) == [hl |-> o.hl, attrval_index |-> AttrvalsOf(o.pairs)]
LinesFrom(w) == [i \in DOMAIN w |-> LineFrom(w[i])]

\* w says of each node in N what D has for it.
Describes(w, N, D) ==
  /\ w \in Seq([hl : Seq(Node), pairs : SUBSET Pair, comma : {FALSE}])
  /\ \A i \in 1 .. Len(w) : \A n \in ToSet(w[i].hl) :
       n \in N /\ w[i].pairs \subseteq D[n]
  /\ \A i \in 1 .. Len(w) : ToSet(w[i].hl) # {}
  /\ \A n \in N : \A p \in D[n] :
       \E i \in 1 .. Len(w) : n \in ToSet(w[i].hl) /\ p \in w[i].pairs
  /\ \A n \in N : \E i \in 1 .. Len(w) : n \in ToSet(w[i].hl)
  /\ \A i, j \in 1 .. Len(w) : \A n :
       i # j /\ n \in ToSet(w[i].hl) /\ n \in ToSet(w[j].hl)
         => w[i].pairs \cap w[j].pairs = {}
  /\ \A n \in N : \A p, q \in D[n] : p[1] = q[1] => p = q

\* Pairs make a table of attributes that has each of them.
LEMMA AttrvalsIs ==
  ASSUME NEW S \in SUBSET Pair, \A p, q \in S : p[1] = q[1] => p = q
  PROVE  /\ AttrvalsOf(S) \in [Attr -> Value \cup {NoValue, Absent}]
         /\ \A a \in Attr : \A v : v # Absent => (AttrvalsOf(S)[a] = v <=> <<a, v>> \in S)
<1>1. ASSUME NEW a \in Attr
      PROVE  /\ AttrvalsOf(S)[a] \in Value \cup {NoValue, Absent}
             /\ \A v : v # Absent => (AttrvalsOf(S)[a] = v <=> <<a, v>> \in S)
  <2> DEFINE Is(p) == p[1] = a
             f == CHOOSE p \in S : Is(p)
  <2>1. AttrvalsOf(S)[a] = IF \E p \in S : Is(p) THEN f[2] ELSE Absent
    BY DEF AttrvalsOf
  <2>2. CASE \E p \in S : Is(p)
    <3>1. f \in S /\ Is(f)
      <4> HIDE DEF Is
      <4> QED BY <2>2
    <3> HIDE DEF f
    <3>2. f = <<f[1], f[2]>> /\ f[2] \in Value \cup {NoValue}
      BY <3>1 DEF Pair
    <3>3. f = <<a, f[2]>> /\ AttrvalsOf(S)[a] = f[2]
      BY <3>1, <3>2, <2>1, <2>2
    <3>4. \A v : <<a, v>> \in S => v = f[2]
      <4> SUFFICES ASSUME NEW v, <<a, v>> \in S PROVE v = f[2]
        OBVIOUS
      <4>1. <<a, v>>[1] = f[1]
        BY <3>1
      <4>2. <<a, v>> = f
        BY <4>1, <3>1
      <4> QED BY <4>2
    <3> QED BY <3>1, <3>2, <3>3, <3>4
  <2>3. CASE ~ \E p \in S : Is(p)
    <3>1. \A v : <<a, v>> \notin S
      <4> SUFFICES ASSUME NEW v, <<a, v>> \in S PROVE FALSE
        OBVIOUS
      <4>1. <<a, v>>[1] = a
        OBVIOUS
      <4> QED BY <4>1, <2>3
    <3> QED BY <3>1, <2>1, <2>3
  <2> QED BY <2>2, <2>3
<1>2. AttrvalsOf(S) = [a \in Attr |-> AttrvalsOf(S)[a]]
  BY DEF AttrvalsOf
<1>3. AttrvalsOf(S) \in [Attr -> Value \cup {NoValue, Absent}]
  BY <1>1, <1>2
<1> QED BY <1>1, <1>3

\* Lines that describe what nodes have, read as a file, give it to them.
LEMMA ReadsBack ==
  ASSUME NEW w, NEW N, NEW D, Describes(w, N, D)
  PROVE  /\ \A i \in DOMAIN w : ~ w[i].comma
         /\ \A i \in DOMAIN w : \A p, q \in w[i].pairs : p[1] = q[1] => p = q
         /\ Lines(LinesFrom(w))
         /\ NodesOf(LinesFrom(w)) = N
         /\ \A n \in N, a \in Attr : \A v : v # Absent =>
              (Raw(LinesFrom(w), n, a) = v <=> <<a, v>> \in D[n])
<1> DEFINE L == LinesFrom(w)
<1>1. /\ w \in Seq([hl : Seq(Node), pairs : SUBSET Pair, comma : {FALSE}])
      /\ \A i \in 1 .. Len(w) : \A n \in ToSet(w[i].hl) :
           n \in N /\ w[i].pairs \subseteq D[n]
      /\ \A i \in 1 .. Len(w) : ToSet(w[i].hl) # {}
      /\ \A n \in N : \A p \in D[n] :
           \E i \in 1 .. Len(w) : n \in ToSet(w[i].hl) /\ p \in w[i].pairs
      /\ \A n \in N : \E i \in 1 .. Len(w) : n \in ToSet(w[i].hl)
      /\ \A i, j \in 1 .. Len(w) : \A n :
           i # j /\ n \in ToSet(w[i].hl) /\ n \in ToSet(w[j].hl)
             => w[i].pairs \cap w[j].pairs = {}
      /\ \A n \in N : \A p, q \in D[n] : p[1] = q[1] => p = q
  BY DEF Describes
<1>2. PICK m \in Nat : Len(w) = m /\ DOMAIN w = 1 .. m
  BY <1>1
<1>3. \A i \in 1 .. m : /\ w[i].hl \in Seq(Node) /\ w[i].pairs \in SUBSET Pair
                        /\ w[i].comma = FALSE
  <2> DEFINE Rec == [hl : Seq(Node), pairs : SUBSET Pair, comma : {FALSE}]
  <2>1. \A r \in Rec : /\ r.hl \in Seq(Node) /\ r.pairs \in SUBSET Pair
                       /\ r.comma = FALSE
    OBVIOUS
  <2>2. w \in Seq(Rec)
    BY <1>1
  <2> HIDE DEF Rec
  <2>3. \A i \in 1 .. m : w[i] \in Rec
    BY <2>2, <1>2
  <2> QED BY <2>1, <2>3
<1>4. \A i \in 1 .. m : \A p, q \in w[i].pairs : p[1] = q[1] => p = q
  <2> SUFFICES ASSUME NEW i \in 1 .. m
               PROVE  \A p, q \in w[i].pairs : p[1] = q[1] => p = q
    OBVIOUS
  <2>1. PICK n : n \in ToSet(w[i].hl)
    BY <1>1, <1>2
  <2>2. n \in N /\ w[i].pairs \subseteq D[n]
    BY <2>1, <1>1, <1>2
  <2> QED BY <2>2, <1>1
<1>5. \A i \in 1 .. m :
        /\ AttrvalsOf(w[i].pairs) \in [Attr -> Value \cup {NoValue, Absent}]
        /\ \A a \in Attr : \A v : v # Absent =>
             (AttrvalsOf(w[i].pairs)[a] = v <=> <<a, v>> \in w[i].pairs)
  BY <1>3, <1>4, AttrvalsIs
<1>6. DOMAIN L = 1 .. m /\ \A i \in 1 .. m : L[i] = LineFrom(w[i])
  BY <1>2 DEF LinesFrom
<1>7. \A i \in 1 .. m : /\ L[i].hl = w[i].hl
                        /\ L[i].attrval_index = AttrvalsOf(w[i].pairs)
                        /\ L[i] \in GendersHosts
  <2> SUFFICES ASSUME NEW i \in 1 .. m
               PROVE  /\ L[i].hl = w[i].hl
                      /\ L[i].attrval_index = AttrvalsOf(w[i].pairs)
                      /\ L[i] \in GendersHosts
    OBVIOUS
  <2>1. L[i] = [hl |-> w[i].hl, attrval_index |-> AttrvalsOf(w[i].pairs)]
    BY <1>6 DEF LineFrom
  <2> HIDE DEF L
  <2> QED BY <2>1, <1>3, <1>5 DEF GendersHosts, AttrVals
<1>8. L \in Seq(GendersHosts) /\ Len(L) = m
  <2>1. L = [i \in 1 .. m |-> LineFrom(w[i])]
    BY <1>2 DEF LinesFrom
  <2>2. \A i \in 1 .. m : LineFrom(w[i]) \in GendersHosts
    BY <1>6, <1>7
  <2> HIDE DEF L
  <2> QED BY <2>1, <2>2
<1> HIDE DEF L
<1>9. \A i \in 1 .. m : NodesIn(L[i].hl) = ToSet(w[i].hl)
  BY <1>3, <1>7 DEF NodesIn, ToSet
<1>10. ASSUME NEW i \in 1 .. m, NEW j \in 1 .. m, i # j,
              NEW n, n \in NodesIn(L[i].hl), n \in NodesIn(L[j].hl),
              NEW a, a \in AttrsIn(L[i].attrval_index), a \in AttrsIn(L[j].attrval_index)
       PROVE  FALSE
  <2> DEFINE v == L[i].attrval_index[a]
             u == L[j].attrval_index[a]
  <2>1. a \in Attr /\ v # Absent /\ u # Absent
    BY <1>10 DEF AttrsIn
  <2>2. <<a, v>> \in w[i].pairs /\ <<a, u>> \in w[j].pairs
    BY <2>1, <1>5, <1>7
  <2>3. n \in ToSet(w[i].hl) /\ n \in ToSet(w[j].hl)
    BY <1>9, <1>10
  <2> HIDE DEF v, u
  <2>4. <<a, v>> \in D[n] /\ <<a, u>> \in D[n] /\ n \in N
    BY <2>2, <2>3, <1>1, <1>2
  <2>5. <<a, v>>[1] = <<a, u>>[1]
    OBVIOUS
  <2>6. <<a, v>> = <<a, u>>
    BY <2>4, <2>5, <1>1
  <2> QED BY <2>2, <2>3, <2>6, <1>1, <1>2, <1>10
<1>11. NoDuplicateAttrsIn(L)
  BY <1>8, <1>10 DEF NoDuplicateAttrsIn, Clash
<1>12. Lines(L)
  BY <1>8, <1>11 DEF Lines
<1>13. NodesOf(L) = N
  <2>1. \A n : n \in NodesOf(L) <=> \E i \in 1 .. m : n \in ToSet(w[i].hl)
    BY <1>6, <1>9 DEF NodesOf
  <2>2. \A n \in N : \E i \in 1 .. m : n \in ToSet(w[i].hl)
    BY <1>1, <1>2
  <2>3. \A i \in 1 .. m : \A n \in ToSet(w[i].hl) : n \in N
    BY <1>1, <1>2
  <2> QED BY <2>1, <2>2, <2>3
<1>14. ASSUME NEW n \in N, NEW a \in Attr, NEW v, v # Absent
       PROVE  Raw(L, n, a) = v <=> <<a, v>> \in D[n]
  <2>1. \A i : Gives(L, i, n, a) =>
          Raw(L, n, a) = L[i].attrval_index[a] /\ i \in 1 .. m
    BY <1>8, <1>12, RawIs DEF Gives
  <2>2. Raw(L, n, a) # Absent <=> \E i : Gives(L, i, n, a)
    BY <1>12, RawIs
  <2>3. ASSUME <<a, v>> \in D[n] PROVE Raw(L, n, a) = v
    <3>1. PICK i \in 1 .. m : n \in ToSet(w[i].hl) /\ <<a, v>> \in w[i].pairs
      BY <2>3, <1>1, <1>2
    <3>2. L[i].attrval_index[a] = v
      BY <3>1, <1>5, <1>7, <1>14
    <3>3. Gives(L, i, n, a)
      BY <3>1, <3>2, <1>8, <1>9, <1>14 DEF Gives
    <3> QED BY <3>2, <3>3, <2>1
  <2>4. ASSUME Raw(L, n, a) = v PROVE <<a, v>> \in D[n]
    <3>1. PICK i : Gives(L, i, n, a)
      BY <2>4, <2>2, <1>14
    <3>2. i \in 1 .. m /\ L[i].attrval_index[a] = v /\ n \in ToSet(w[i].hl)
      BY <3>1, <2>1, <2>4, <1>9 DEF Gives
    <3>3. <<a, v>> \in w[i].pairs
      BY <3>2, <1>5, <1>7, <1>14
    <3> QED BY <3>2, <3>3, <1>1, <1>2
  <2> QED BY <2>3, <2>4
<1>15. \A i \in DOMAIN w : ~ w[i].comma
  BY <1>2, <1>3
<1>16. \A i \in DOMAIN w : \A p, q \in w[i].pairs : p[1] = q[1] => p = q
  BY <1>2, <1>4
<1> QED BY <1>12, <1>13, <1>14, <1>15, <1>16 DEF L

\* A range is printed with what is filed under it; no comma is left over.
LEMMA RangeLineIs ==
  ASSUME NEW r, r.hl \in SUBSET Node, IsFiniteSet(r.hl),
         {} \in r.keys => r.keys = {{}}, UNION r.keys \in SUBSET Pair
  PROVE  /\ RangeLine(r) \in [hl : Seq(Node), pairs : SUBSET Pair, comma : {FALSE}]
         /\ ToSet(RangeLine(r).hl) = r.hl /\ RangeLine(r).pairs = UNION r.keys
<1>1. ({} \in r.keys /\ r.keys # {{}}) = FALSE
  OBVIOUS
<1>2. RangeLine(r) = Printed(Sorted(r.hl), UNION r.keys, FALSE)
  BY <1>1 DEF RangeLine
<1>3. RangeLine(r) = [hl |-> Sorted(r.hl), pairs |-> UNION r.keys, comma |-> FALSE]
  BY <1>2 DEF Printed
<1>4. Lists(Sorted(r.hl), r.hl)
  BY SortedLists
<1>5. Sorted(r.hl) \in Seq(Node) /\ ToSet(Sorted(r.hl)) = r.hl
  <2>1. Sorted(r.hl) \in Seq(r.hl) /\ ToSet(Sorted(r.hl)) = r.hl
    BY <1>4 DEF Lists
  <2> QED BY <2>1, SeqMonotonic
<1> QED BY <1>3, <1>5

\* No two lines have an attribute with a value in common.
PairsApart(w) ==
  \A i, j \in 1 .. Len(w) : i # j => w[i].pairs \cap w[j].pairs = {}

KeepOf(L) == [n \in Node |-> Keep(L, n)]

\* What is printed once all nodes are filed.
Compressed(L, c) == RangeLines(FiledBy(KeysBy(L, c), NodesOf(L)))

\* What compress() and compress_hosts() print says of each node what the file
\* has for it.
LEMMA CompressDescribes ==
  ASSUME NEW L, Loaded(L), NEW c, NEW w,
         w = Compressed(L, c), SortKeepsHosts
  PROVE  /\ Describes(w, NodesOf(L), KeepOf(L))
         /\ c # "compress_hosts" => PairsApart(w)
         /\ c = "compress_hosts" => \A i, j \in 1 .. Len(w) : i # j =>
              ToSet(w[i].hl) \cap ToSet(w[j].hl) = {}
<1> DEFINE N == NodesOf(L)
           ks == KeysBy(L, c)
           h == FiledBy(ks, N)
           R == Ranges(h)
           lines == LongestFirst(R)
           D == [n \in Node |-> Keep(L, n)]
           Rec == [hl : Seq(Node), pairs : SUBSET Pair, comma : {FALSE}]
<1>0. w = RangeLines(FiledBy(KeysBy(L, c), NodesOf(L)))
  BY DEF Compressed
<1>1. IsFiniteSet(N) /\ N \subseteq Node
  BY NamesFinite
<1>2. \A n \in N : ks[n] = KeysAt(c, Keep(L, n)) /\ D[n] = Keep(L, n)
  BY <1>1 DEF KeysBy
<1>3. \A n \in N : IsFiniteSet(ks[n])
  <2> SUFFICES ASSUME NEW n \in N PROVE IsFiniteSet(KeysAt(c, Keep(L, n)))
    BY <1>2
  <2> DEFINE s == Keep(L, n)
             f == [p \in s |-> {p}]
  <2>1. IsFiniteSet(s)
    BY KeepIs
  <2> HIDE DEF s
  <2>2. Singles(s) = {f[p] : p \in s} /\ DOMAIN f = s
    BY DEF Singles
  <2> HIDE DEF f
  <2>3. IsFiniteSet(Singles(s))
    BY <2>1, <2>2, ImageFinite
  <2>4. IsFiniteSet({s}) /\ IsFiniteSet({{}})
    BY FS_Singleton
  <2>5. IsFiniteSet(KeysAt(c, s))
    BY <2>3, <2>4 DEF KeysAt
  <2> QED BY <2>5 DEF s
<1>4. IsFiniteSet(R)
  <2> HIDE DEF ks, N
  <2> QED BY <1>1, <1>3, RangesFinite
<1>5. /\ \A r \in R : r.keys # {} /\ r.hl # {} /\ r.hl \subseteq N
      /\ \A r \in R : \A k \in r.keys :
           k \in AllKeys(ks, N) /\ r.hl = HostsOf(ks, N, k)
      /\ \A r, s \in R : \A k : k \in r.keys /\ k \in s.keys => r = s
      /\ \A k \in AllKeys(ks, N) : \E r \in R : k \in r.keys
  <2> HIDE DEF ks, N
  <2> QED BY <1>1, RangesIs
<1>6. \A k, n : n \in HostsOf(ks, N, k) <=> n \in N /\ k \in ks[n]
  BY DEF HostsOf
<1>7. \A k, n : n \in N /\ k \in ks[n] => k \in AllKeys(ks, N)
  BY DEF AllKeys
<1>8. w = [i \in DOMAIN lines |-> RangeLine(lines[i])]
  BY <1>0 DEF RangeLines
<1> HIDE DEF N, ks, h, R, lines, D, Rec
<1>9. \A r \in R : \A n : n \in r.hl => n \in N /\ \A k \in r.keys : k \in ks[n]
  BY <1>5, <1>6
<1>10. \A n \in N : /\ ks[n] # {} /\ UNION ks[n] = D[n]
                    /\ {} \in ks[n] => ks[n] = {{}}
                    /\ \A k, l \in ks[n] : k \cap l # {} => k = l
  <2> SUFFICES ASSUME NEW n \in N
               PROVE  /\ ks[n] # {} /\ UNION ks[n] = D[n]
                      /\ {} \in ks[n] => ks[n] = {{}}
                      /\ \A k, l \in ks[n] : k \cap l # {} => k = l
    OBVIOUS
  <2>1. PICK s : s = Keep(L, n)
    OBVIOUS
  <2>2. ks[n] = KeysAt(c, s) /\ D[n] = s
    BY <2>1, <1>2
  <2>3. /\ KeysAt(c, s) # {} /\ UNION KeysAt(c, s) = s
        /\ {} \in KeysAt(c, s) => KeysAt(c, s) = {{}}
        /\ \A k, l \in KeysAt(c, s) : k \cap l # {} => k = l
    BY KeysAtIs
  <2> QED BY <2>2, <2>3
<1>11. \A n \in N : D[n] \subseteq Pair /\ \A p, q \in D[n] : p[1] = q[1] => p = q
  <2> SUFFICES ASSUME NEW n \in N
               PROVE  D[n] \subseteq Pair /\ \A p, q \in D[n] : p[1] = q[1] => p = q
    OBVIOUS
  <2>1. /\ Keep(L, n) \subseteq Pair
        /\ \A p, q \in Keep(L, n) : p[1] = q[1] => p = q
    BY KeepIs
  <2> QED BY <2>1, <1>2
<1>12. \A r \in R, n \in N : n \in r.hl => UNION r.keys \subseteq D[n]
  BY <1>9, <1>10
<1>13. ASSUME NEW r \in R
       PROVE  /\ RangeLine(r) \in Rec
              /\ ToSet(RangeLine(r).hl) = r.hl /\ RangeLine(r).pairs = UNION r.keys
  <2>1. PICK n : n \in r.hl /\ n \in N
    BY <1>5
  <2>2. r.hl \in SUBSET Node /\ IsFiniteSet(r.hl)
    BY <1>1, <1>5, FS_Subset
  <2>3. {} \in r.keys => r.keys = {{}}
    <3> SUFFICES ASSUME {} \in r.keys PROVE r.keys = {{}}
      OBVIOUS
    <3>1. \A k \in r.keys : k \in ks[n]
      BY <2>1, <1>9
    <3>2. {} \in ks[n]
      BY <3>1
    <3>3. ks[n] = {{}}
      BY <3>2, <2>1, <1>10
    <3>4. \A k \in r.keys : k = {}
      BY <3>1, <3>3
    <3> QED BY <3>4
  <2>4. UNION r.keys \in SUBSET Pair
    BY <2>1, <1>11, <1>12
  <2> QED BY <2>2, <2>3, <2>4, RangeLineIs DEF Rec
<1>14. Lists(lines, R)
  <2>1. \A r \in R : r.hl \in SUBSET Node
    BY <1>1, <1>5
  <2> QED BY <2>1, <1>4, LongestLists DEF lines
<1>15. PICK m \in Nat : Len(lines) = m /\ DOMAIN lines = 1 .. m /\ lines \in Seq(R)
  BY <1>14 DEF Lists
<1>16. \A i \in 1 .. m : lines[i] \in R
  BY <1>15
<1>17. /\ \A i \in 1 .. m : w[i] = RangeLine(lines[i])
       /\ w \in Seq(Rec) /\ Len(w) = m
  <2>1. w = [i \in 1 .. m |-> RangeLine(lines[i])]
    BY <1>8, <1>15
  <2>2. \A i \in 1 .. m : RangeLine(lines[i]) \in Rec
    BY <1>13, <1>16
  <2> QED BY <2>1, <2>2
<1>18. \A i \in 1 .. m : /\ ToSet(w[i].hl) = lines[i].hl
                         /\ w[i].pairs = UNION lines[i].keys
  BY <1>13, <1>16, <1>17
<1>19. \A i, j \in 1 .. m : lines[i] = lines[j] => i = j
  BY <1>14, <1>15, InjectiveIs DEF Lists
<1>20. \A r \in R : \E i \in 1 .. m : lines[i] = r
  BY <1>14, <1>15, ToSetIs DEF Lists
<1>21. \A i \in 1 .. m : \A n \in ToSet(w[i].hl) : n \in N /\ w[i].pairs \subseteq D[n]
  <2> SUFFICES ASSUME NEW i \in 1 .. m, NEW n \in ToSet(w[i].hl)
               PROVE  n \in N /\ w[i].pairs \subseteq D[n]
    OBVIOUS
  <2>1. n \in lines[i].hl /\ lines[i] \in R /\ w[i].pairs = UNION lines[i].keys
    BY <1>16, <1>18
  <2>2. n \in N
    BY <2>1, <1>9
  <2> QED BY <2>1, <2>2, <1>12
<1>22. \A i \in 1 .. m : ToSet(w[i].hl) # {}
  <2> SUFFICES ASSUME NEW i \in 1 .. m PROVE ToSet(w[i].hl) # {}
    OBVIOUS
  <2>1. PICK r \in R : r = lines[i]
    BY <1>16
  <2>2. \E n : n \in r.hl
    BY <2>1, <1>5
  <2>3. ToSet(w[i].hl) = r.hl
    BY <2>1, <1>18
  <2> QED BY <2>2, <2>3
<1>23. ASSUME NEW n \in N, NEW k \in ks[n]
       PROVE  \E i \in 1 .. m : n \in ToSet(w[i].hl) /\ k \in lines[i].keys
  <2>1. PICK r \in R : k \in r.keys
    BY <1>5, <1>7
  <2>2. n \in r.hl
    BY <2>1, <1>5, <1>6
  <2>3. PICK i \in 1 .. m : lines[i] = r
    BY <1>20
  <2> QED BY <2>1, <2>2, <2>3, <1>18
<1>24. \A n \in N : \A p \in D[n] :
         \E i \in 1 .. m : n \in ToSet(w[i].hl) /\ p \in w[i].pairs
  <2> SUFFICES ASSUME NEW n \in N, NEW p \in D[n]
               PROVE  \E i \in 1 .. m : n \in ToSet(w[i].hl) /\ p \in w[i].pairs
    OBVIOUS
  <2>1. PICK k \in ks[n] : p \in k
    BY <1>10
  <2>2. PICK i \in 1 .. m : n \in ToSet(w[i].hl) /\ k \in lines[i].keys
    BY <1>23
  <2> QED BY <2>1, <2>2, <1>18
<1>25. \A n \in N : \E i \in 1 .. m : n \in ToSet(w[i].hl)
  <2> SUFFICES ASSUME NEW n \in N PROVE \E i \in 1 .. m : n \in ToSet(w[i].hl)
    OBVIOUS
  <2>1. ks[n] # {}
    BY <1>10
  <2>2. PICK k \in ks[n] : TRUE
    BY <2>1
  <2> QED BY <1>23
<1>26. ASSUME NEW i \in 1 .. m, NEW j \in 1 .. m, NEW p,
              p \in w[i].pairs, p \in w[j].pairs,
              \E n : \/ n \in ToSet(w[i].hl) /\ n \in ToSet(w[j].hl)
                     \/ c # "compress_hosts"
       PROVE  i = j
  <2>1. PICK k \in lines[i].keys : p \in k
    BY <1>18, <1>26
  <2>2. PICK l \in lines[j].keys : p \in l
    BY <1>18, <1>26
  <2>3. k = l
    <3>1. CASE \E n : n \in ToSet(w[i].hl) /\ n \in ToSet(w[j].hl)
      <4>1. PICK n : n \in lines[i].hl /\ n \in lines[j].hl
        BY <3>1, <1>18
      <4>2. k \in ks[n] /\ l \in ks[n] /\ n \in N
        BY <4>1, <2>1, <2>2, <1>9, <1>16
      <4>3. k \cap l # {}
        BY <2>1, <2>2
      <4> QED BY <4>2, <4>3, <1>10
    <3>2. CASE c # "compress_hosts"
      <4>1. PICK n \in N : k \in ks[n]
        BY <2>1, <1>5, <1>9, <1>16
      <4>2. PICK o \in N : l \in ks[o]
        BY <2>2, <1>5, <1>9, <1>16
      <4>3. k = {p}
        BY <4>1, <2>1, <3>2, <1>2, KeysAtIs
      <4>4. l = {p}
        BY <4>2, <2>2, <3>2, <1>2, KeysAtIs
      <4> QED BY <4>3, <4>4
    <3> QED BY <3>1, <3>2, <1>26
  <2>4. lines[i] = lines[j]
    BY <2>1, <2>2, <2>3, <1>5, <1>16
  <2> QED BY <2>4, <1>19
<1>27. \A i, j \in 1 .. m : \A n :
         i # j /\ n \in ToSet(w[i].hl) /\ n \in ToSet(w[j].hl)
           => w[i].pairs \cap w[j].pairs = {}
  BY <1>26
<1>28. Describes(w, N, D)
  BY <1>11, <1>17, <1>21, <1>22, <1>24, <1>25, <1>27 DEF Describes, Rec
<1>29. ASSUME c # "compress_hosts", NEW i \in 1 .. m, NEW j \in 1 .. m, i # j
       PROVE  w[i].pairs \cap w[j].pairs = {}
  BY <1>26, <1>29
<1>30. ASSUME c = "compress_hosts", NEW i \in 1 .. m, NEW j \in 1 .. m, i # j
       PROVE  ToSet(w[i].hl) \cap ToSet(w[j].hl) = {}
  <2> SUFFICES ASSUME NEW n, n \in lines[i].hl, n \in lines[j].hl PROVE FALSE
    BY <1>18
  <2>1. n \in N /\ ks[n] = {Keep(L, n)}
    BY <1>2, <1>9, <1>16, <1>30, KeysAtIs
  <2>2. PICK k : k \in lines[i].keys
    BY <1>5, <1>16
  <2>3. PICK l : l \in lines[j].keys
    BY <1>5, <1>16
  <2>4. k = l
    BY <2>1, <2>2, <2>3, <1>9, <1>16
  <2>5. lines[i] = lines[j]
    BY <2>2, <2>3, <2>4, <1>5, <1>16
  <2> QED BY <2>5, <1>19, <1>30
<1> QED BY <1>17, <1>28, <1>29, <1>30 DEF N, D, PairsApart, KeepOf

\* What expand() prints says of each node what it reads.
LEMMA ExpandDescribes ==
  ASSUME NEW L, Loaded(L), NEW w, ExpandAt(L, <<>>, w, 0)
  PROVE  /\ Describes(w, NodesOf(L), [n \in Node |-> Read(L, n)])
         /\ \A i, j \in 1 .. Len(w) : i # j =>
              ToSet(w[i].hl) \cap ToSet(w[j].hl) = {}
<1> DEFINE N == NodesOf(L)
           D == [n \in Node |-> Read(L, n)]
           Rec == [hl : Seq(Node), pairs : SUBSET Pair, comma : {FALSE}]
           Line(n) == Printed(<<n>>, Read(L, n), FALSE)
           E == {Line(n) : n \in N}
<1>0. ToSet(<<>>) = {} /\ Lines(L)
  BY EmptyIs DEF Loaded
<1>1. N \subseteq Node /\ \A n \in N : D[n] = Read(L, n)
  BY NamesFinite
<1>2. \A n \in N : Read(L, n) \subseteq Pair
                   /\ \A p, q \in Read(L, n) : p[1] = q[1] => p = q
  BY <1>0, ReadIs
<1>3. \A n : Line(n) = [hl |-> <<n>>, pairs |-> Read(L, n), comma |-> FALSE]
  BY DEF Printed
<1>4. \A n : Line(n).hl = <<n>> /\ Line(n).pairs = Read(L, n) /\ ToSet(<<n>>) = {n}
  <2> SUFFICES ASSUME NEW n
               PROVE  Line(n).hl = <<n>> /\ Line(n).pairs = Read(L, n)
                      /\ ToSet(<<n>>) = {n}
    OBVIOUS
  <2>1. Line(n).hl = <<n>> /\ Line(n).pairs = Read(L, n)
    <3> HIDE DEF Line
    <3> QED BY <1>3
  <2>2. DOMAIN <<n>> = {1} /\ <<n>>[1] = n
    OBVIOUS
  <2>3. ToSet(<<n>>) = {n}
    BY <2>2 DEF ToSet
  <2> QED BY <2>1, <2>3
<1>5. N \ ToSet(<<>>) = N
  BY <1>0
<1>6. /\ w \in Seq(E)
      /\ \A n \in N : \E i \in 1 .. Len(w) : w[i] = Line(n)
      /\ \A i, j \in 1 .. Len(w) : w[i].hl = w[j].hl => i = j
  BY <1>5 DEF ExpandAt
<1>7. \A e \in E : e \in Rec
  <2> SUFFICES ASSUME NEW n \in N PROVE Line(n) \in Rec
    OBVIOUS
  <2>1. <<n>> \in Seq(Node)
    BY <1>1
  <2>2. Read(L, n) \in SUBSET Pair
    BY <1>2
  <2>3. Line(n) = [hl |-> <<n>>, pairs |-> Read(L, n), comma |-> FALSE]
    BY <1>3
  <2> HIDE DEF Line
  <2> QED BY <2>1, <2>2, <2>3
<1>8. \A e \in E : \E n \in N : e = Line(n)
  OBVIOUS
<1> HIDE DEF N, D, Rec, Line, E
<1>9. PICK m \in Nat : Len(w) = m
  BY <1>6
<1>10. w \in Seq(Rec) /\ \A i \in 1 .. m : w[i] \in E
  <2>1. \A i \in 1 .. m : w[i] \in E
    BY <1>6, <1>9
  <2>2. E \subseteq Rec
    BY <1>7
  <2> QED BY <2>1, <2>2, <1>6, SeqMonotonic
<1>11. \A i \in 1 .. m : \E n \in N : /\ w[i].hl = <<n>> /\ ToSet(w[i].hl) = {n}
                                      /\ w[i].pairs = Read(L, n)
  <2> SUFFICES ASSUME NEW i \in 1 .. m
               PROVE  \E n \in N : /\ w[i].hl = <<n>> /\ ToSet(w[i].hl) = {n}
                                   /\ w[i].pairs = Read(L, n)
    OBVIOUS
  <2>1. PICK n \in N : w[i] = Line(n)
    BY <1>8, <1>10
  <2>2. w[i].hl = <<n>> /\ w[i].pairs = Read(L, n) /\ ToSet(<<n>>) = {n}
    BY <2>1, <1>4
  <2> QED BY <2>2
<1>12. \A i, j \in 1 .. m : \A n :
         n \in ToSet(w[i].hl) /\ n \in ToSet(w[j].hl) => i = j
  <2> SUFFICES ASSUME NEW i \in 1 .. m, NEW j \in 1 .. m, NEW n,
                      n \in ToSet(w[i].hl), n \in ToSet(w[j].hl)
               PROVE  i = j
    OBVIOUS
  <2>1. w[i].hl = <<n>> /\ w[j].hl = <<n>>
    BY <1>11
  <2> QED BY <2>1, <1>6, <1>9
<1>13. \A n \in N : \E i \in 1 .. m : /\ n \in ToSet(w[i].hl)
                                      /\ w[i].pairs = Read(L, n)
  BY <1>4, <1>6, <1>9
<1>14. \A i \in 1 .. m : \A n \in ToSet(w[i].hl) : n \in N /\ w[i].pairs \subseteq D[n]
  BY <1>1, <1>11
<1>15. \A i \in 1 .. m : ToSet(w[i].hl) # {}
  BY <1>11
<1>16. \A n \in N : \A p \in D[n] :
         \E i \in 1 .. m : n \in ToSet(w[i].hl) /\ p \in w[i].pairs
  BY <1>1, <1>13
<1>17. \A n \in N : \E i \in 1 .. m : n \in ToSet(w[i].hl)
  BY <1>13
<1>18. \A n \in N : \A p, q \in D[n] : p[1] = q[1] => p = q
  BY <1>1, <1>2
<1>19. Describes(w, N, D)
  BY <1>9, <1>10, <1>12, <1>14, <1>15, <1>16, <1>17, <1>18 DEF Describes, Rec
<1> QED BY <1>9, <1>12, <1>19 DEF N, D

(***************************************************************************)
(* _diff().                                                                *)
(***************************************************************************)

\* The attributes of both files that do not read the same on n, and the pairs
\* of a node in S and an attribute that do not.
UnlikeOn(L, M, n) ==
  {a \in AttrsOf(L) \cap AttrsOf(M) : Test(L, n, a) # Test(M, n, a)}

Unlike(L, M, S) ==
  {p \in (S \cap NodesOf(M)) \X (AttrsOf(L) \cap AttrsOf(M)) :
     Test(L, p[1], p[2]) # Test(M, p[1], p[2])}

\* What is reported before the nodes are taken.
NamesReported(L, M) ==
  Cardinality(NodesOf(L) \ NodesOf(M)) + Cardinality(NodesOf(M) \ NodesOf(L))
  + Cardinality(AttrsOf(L) \ AttrsOf(M)) + Cardinality(AttrsOf(M) \ AttrsOf(L))

\* What is reported once some of the nodes are taken.
DiffAt(L, M, t, e, st) ==
  /\ t \in Seq(Node) /\ IsInjective(t) /\ ToSet(t) \subseteq NodesOf(L)
  /\ e = NamesReported(L, M) + Cardinality(Unlike(L, M, NodesOf(L) \ ToSet(t)))
  /\ st = 0 => t = <<>>

\* The differences are finitely many.
LEMMA UnlikeFinite ==
  ASSUME NEW L, NEW M, Loaded(L), Loaded(M), NEW S \in SUBSET Node
  PROVE  /\ IsFiniteSet(Unlike(L, M, S)) /\ Cardinality(Unlike(L, M, S)) \in Nat
         /\ \A n : IsFiniteSet(UnlikeOn(L, M, n))
                   /\ Cardinality(UnlikeOn(L, M, n)) \in Nat
         /\ NamesReported(L, M) \in Nat
<1>1. /\ IsFiniteSet(NodesOf(L)) /\ IsFiniteSet(AttrsOf(L))
      /\ IsFiniteSet(NodesOf(M)) /\ IsFiniteSet(AttrsOf(M))
  BY NamesFinite
<1> DEFINE X == S \cap NodesOf(M)
           A == AttrsOf(L) \cap AttrsOf(M)
<1>2. IsFiniteSet(X) /\ IsFiniteSet(A)
  BY <1>1, FS_Intersection
<1>3. IsFiniteSet(X \X A)
  <2> HIDE DEF X, A
  <2> QED BY <1>2, FS_Product
<1>4. IsFiniteSet(Unlike(L, M, S))
  <2>1. Unlike(L, M, S) \in SUBSET (X \X A)
    BY DEF Unlike
  <2> HIDE DEF X, A
  <2> QED BY <2>1, <1>3, FS_Subset
<1>5. \A n : IsFiniteSet(UnlikeOn(L, M, n))
  <2> TAKE n
  <2>1. UnlikeOn(L, M, n) \in SUBSET A
    BY DEF UnlikeOn
  <2> QED BY <2>1, <1>2, FS_Subset
<1>6. /\ IsFiniteSet(NodesOf(L) \ NodesOf(M)) /\ IsFiniteSet(NodesOf(M) \ NodesOf(L))
      /\ IsFiniteSet(AttrsOf(L) \ AttrsOf(M)) /\ IsFiniteSet(AttrsOf(M) \ AttrsOf(L))
  BY <1>1, FS_Difference
<1>7. NamesReported(L, M) \in Nat
  <2>1. /\ Cardinality(NodesOf(L) \ NodesOf(M)) \in Nat
        /\ Cardinality(NodesOf(M) \ NodesOf(L)) \in Nat
        /\ Cardinality(AttrsOf(L) \ AttrsOf(M)) \in Nat
        /\ Cardinality(AttrsOf(M) \ AttrsOf(L)) \in Nat
    BY <1>6, FS_CardinalityType
  <2> QED BY <2>1 DEF NamesReported
<1> QED BY <1>4, <1>5, <1>7, FS_CardinalityType

\* The pairs of one more node.
LEMMA UnlikeMore ==
  ASSUME NEW L, NEW M, Loaded(L), Loaded(M), NEW S \in SUBSET Node,
         NEW n \in Node, n \notin S
  PROVE  Cardinality(Unlike(L, M, S \cup {n})) =
           Cardinality(Unlike(L, M, S))
           + (IF n \in NodesOf(M) THEN Cardinality(UnlikeOn(L, M, n)) ELSE 0)
<1>0. PICK c \in Nat : c = Cardinality(Unlike(L, M, S))
  BY UnlikeFinite
<1>1. CASE n \notin NodesOf(M)
  <2>1. (S \cup {n}) \cap NodesOf(M) = S \cap NodesOf(M)
    BY <1>1
  <2>2. Unlike(L, M, S \cup {n}) = Unlike(L, M, S)
    BY <2>1 DEF Unlike
  <2> QED BY <2>2, <1>0, <1>1
<1>2. CASE n \in NodesOf(M)
  <2> DEFINE U == Unlike(L, M, S)
             A == UnlikeOn(L, M, n)
             B == {n} \X A
  <2>1. IsFiniteSet(U) /\ IsFiniteSet(A)
    BY UnlikeFinite
  <2>2. IsFiniteSet({n}) /\ Cardinality({n}) = 1
    BY FS_Singleton
  <2>3. IsFiniteSet(B) /\ Cardinality(B) = Cardinality({n}) * Cardinality(A)
    <3> HIDE DEF A
    <3> QED BY <2>1, <2>2, FS_Product
  <2>4. PICK d \in Nat : d = Cardinality(A)
    BY UnlikeFinite
  <2>5. Cardinality(B) = d
    BY <2>2, <2>3, <2>4
  <2>6. U \cap B = {}
    BY DEF Unlike
  <2>7. Unlike(L, M, S \cup {n}) = U \cup B
    <3>1. ASSUME NEW p \in Unlike(L, M, S \cup {n}) PROVE p \in U \cup B
      <4>1. /\ p \in ((S \cup {n}) \cap NodesOf(M)) \X (AttrsOf(L) \cap AttrsOf(M))
            /\ Test(L, p[1], p[2]) # Test(M, p[1], p[2])
        BY <3>1 DEF Unlike
      <4>2. CASE p[1] = n
        BY <4>1, <4>2 DEF UnlikeOn
      <4>3. CASE p[1] # n
        BY <4>1, <4>3 DEF Unlike
      <4> QED BY <4>2, <4>3
    <3>2. ASSUME NEW p \in U PROVE p \in Unlike(L, M, S \cup {n})
      BY <3>2 DEF Unlike
    <3>3. ASSUME NEW p \in B PROVE p \in Unlike(L, M, S \cup {n})
      <4>1. p = <<n, p[2]>> /\ p[2] \in AttrsOf(L) \cap AttrsOf(M)
            /\ Test(L, n, p[2]) # Test(M, n, p[2])
        BY <3>3 DEF UnlikeOn
      <4> QED BY <4>1, <1>2 DEF Unlike
    <3> QED BY <3>1, <3>2, <3>3
  <2> HIDE DEF U, B
  <2>8. IsFiniteSet({}) /\ Cardinality({}) = 0
    BY FS_EmptySet
  <2>9. Cardinality(U \cup B) = Cardinality(U) + Cardinality(B) - Cardinality(U \cap B)
    BY <2>1, <2>3, FS_Union
  <2>10. Cardinality(U \cup B) = c + d
    <3>1. Cardinality(U \cap B) = 0
      BY <2>6, <2>8
    <3>2. Cardinality(U) = c
      BY <1>0 DEF U
    <3>3. c + d - 0 = c + d
      OBVIOUS
    <3> QED BY <3>1, <3>2, <3>3, <2>5, <2>9
  <2> QED BY <2>4, <2>7, <2>10, <1>0, <1>2
<1> QED BY <1>1, <1>2

\* test 3 starts with every node of the first file.
LEMMA DiffStart ==
  ASSUME NEW L, NEW M, Loaded(L), Loaded(M)
  PROVE  DiffAt(L, M, Sorted(NodesOf(L)), NamesReported(L, M), -1)
<1> DEFINE t == Sorted(NodesOf(L))
<1>1. t \in Seq(Node) /\ IsInjective(t) /\ ToSet(t) = NodesOf(L)
  BY NodesSorted
<1> HIDE DEF t
<1>2. NodesOf(L) \ ToSet(t) = {}
  BY <1>1
<1>3. Unlike(L, M, {}) = {}
  BY DEF Unlike
<1>4. Cardinality(Unlike(L, M, NodesOf(L) \ ToSet(t))) = 0
  BY <1>2, <1>3, FS_EmptySet
<1>5. NamesReported(L, M) \in Nat
  BY UnlikeFinite
<1>6. NamesReported(L, M) = NamesReported(L, M) + 0
  BY <1>5
<1>7. ~ (-1 = 0)
  OBVIOUS
<1> QED BY <1>1, <1>4, <1>6, <1>7 DEF DiffAt, t

\* Each step adds the differences of one more node.
LEMMA DiffKeep ==
  ASSUME NEW L, NEW M, Loaded(L), Loaded(M), NEW t, NEW e, t # <<>>,
         DiffAt(L, M, t, e, -1)
  PROVE  DiffAt(L, M, Tail(t),
                IF Head(t) \in NodesOf(M)
                THEN e + Cardinality(UnlikeOn(L, M, Head(t))) ELSE e, -1)
<1> DEFINE u == Tail(t)
           n == Head(t)
           S == NodesOf(L) \ ToSet(t)
           b == NamesReported(L, M)
<1>0. /\ t \in Seq(Node) /\ IsInjective(t) /\ ToSet(t) \subseteq NodesOf(L)
      /\ e = b + Cardinality(Unlike(L, M, S))
  BY DEF DiffAt
<1>1. /\ u \in Seq(Node) /\ n \in Node /\ n \in ToSet(t)
      /\ ToSet(t) = {n} \cup ToSet(u) /\ IsInjective(u) /\ n \notin ToSet(u)
  BY <1>0, TailIs
<1>2. S \in SUBSET Node
  BY NamesFinite
<1> HIDE DEF u, n, S, b
<1>3. n \notin S /\ S \cup {n} = NodesOf(L) \ ToSet(u)
  BY <1>0, <1>1 DEF S
<1>4. Cardinality(Unlike(L, M, S \cup {n})) =
        Cardinality(Unlike(L, M, S))
        + (IF n \in NodesOf(M) THEN Cardinality(UnlikeOn(L, M, n)) ELSE 0)
  BY <1>1, <1>2, <1>3, UnlikeMore
<1>5. PICK c \in Nat : c = Cardinality(Unlike(L, M, S))
  BY <1>2, UnlikeFinite
<1>6. PICK d \in Nat : d = Cardinality(UnlikeOn(L, M, n))
  BY <1>2, UnlikeFinite
<1>7. b \in Nat
  BY <1>2, UnlikeFinite DEF b
<1>8. (IF n \in NodesOf(M) THEN e + d ELSE e)
        = b + Cardinality(Unlike(L, M, S \cup {n}))
  BY <1>0, <1>4, <1>5, <1>6, <1>7
<1>9. ToSet(u) \subseteq NodesOf(L) /\ ~ (-1 = 0)
  BY <1>0, <1>1
<1>10. DiffAt(L, M, u, IF n \in NodesOf(M) THEN e + d ELSE e, -1)
  BY <1>1, <1>3, <1>8, <1>9 DEF DiffAt, b
<1> QED BY <1>6, <1>10 DEF u, n

\* Test 3 counts the attributes of both files that do not read the same.
LEMMA DifferencesAre ==
  ASSUME Loaded(gp), Loaded(dgp), NEW n
  PROVE  Differences(n) = Cardinality(UnlikeOn(gp, dgp, n))
<1> DEFINE A == {a \in AttrsOf(gp) :
                   /\ Test(gp, n, a) # Absent
                   /\ a \in AttrsOf(dgp)
                   /\ Test(dgp, n, a) # Test(gp, n, a)}
           B == {a \in AttrsOf(dgp) :
                   /\ Test(dgp, n, a) # Absent
                   /\ a \in AttrsOf(gp)
                   /\ Test(gp, n, a) = Absent}
           U == UnlikeOn(gp, dgp, n)
<1>1. Differences(n) = Cardinality(A) + Cardinality(B)
  BY DEF Differences, Having
<1>2. A \cup B = U
  BY DEF UnlikeOn
<1>3. A \cap B = {}
  OBVIOUS
<1>4. IsFiniteSet(U)
  BY UnlikeFinite
<1> HIDE DEF A, B, U
<1>5. IsFiniteSet(A) /\ IsFiniteSet(B)
  BY <1>2, <1>4, FS_Subset
<1>6. Cardinality(U) = Cardinality(A) + Cardinality(B) - Cardinality(A \cap B)
  BY <1>2, <1>5, FS_Union
<1>7. Cardinality(A \cap B) = 0
  BY <1>3, FS_EmptySet
<1>8. Cardinality(A) \in Nat /\ Cardinality(B) \in Nat
  BY <1>5, FS_CardinalityType
<1>9. Cardinality(U) = Cardinality(A) + Cardinality(B)
  BY <1>6, <1>7, <1>8
<1> QED BY <1>1, <1>9 DEF U

\* What one of two sets has alone, counted on both sides.
LEMMA ComparedCount ==
  ASSUME NEW s, NEW t, IsFiniteSet(s), IsFiniteSet(t)
  PROVE  /\ Cardinality(Compared(s, t)) = Cardinality(s \ t) + Cardinality(t \ s)
         /\ Cardinality(s \ t) \in Nat /\ Cardinality(t \ s) \in Nat
         /\ Cardinality(Compared(s, t)) = 0 <=> s = t
<1>1. IsFiniteSet(s \ t) /\ IsFiniteSet(t \ s)
  BY FS_Difference
<1>2. (s \ t) \cap (t \ s) = {}
  OBVIOUS
<1>3. PICK a \in Nat : a = Cardinality(s \ t)
  BY <1>1, FS_CardinalityType
<1>4. PICK b \in Nat : b = Cardinality(t \ s)
  BY <1>1, FS_CardinalityType
<1>5. IsFiniteSet(Compared(s, t)) /\ Cardinality(Compared(s, t))
        = Cardinality(s \ t) + Cardinality(t \ s) - Cardinality((s \ t) \cap (t \ s))
  BY <1>1, FS_Union DEF Compared
<1>6. Cardinality((s \ t) \cap (t \ s)) = 0
  BY <1>2, FS_EmptySet
<1>7. Cardinality(Compared(s, t)) = a + b
  BY <1>3, <1>4, <1>5, <1>6
<1>8. Cardinality(Compared(s, t)) = 0 <=> Compared(s, t) = {}
  BY <1>5, FS_EmptySet
<1>9. Compared(s, t) = {} <=> s = t
  BY DEF Compared
<1> QED BY <1>3, <1>4, <1>7, <1>8, <1>9

\* What has been counted at the end is what --diff promises.
LEMMA DiffEnd ==
  ASSUME NEW L, NEW M, Loaded(L), Loaded(M), NEW e, DiffAt(L, M, <<>>, e, 0)
  PROVE  /\ e = Cardinality(Compared(NodesOf(L), NodesOf(M)))
                + Cardinality(Compared(AttrsOf(L), AttrsOf(M)))
                + Cardinality({p \in (NodesOf(L) \cap NodesOf(M))
                                     \X (AttrsOf(L) \cap AttrsOf(M)) :
                                 Test(L, p[1], p[2]) # Test(M, p[1], p[2])})
         /\ e = 0 <=>
              /\ NodesOf(L) = NodesOf(M)
              /\ \A n \in NodesOf(L), a \in Attr : Test(L, n, a) = Test(M, n, a)
<1>0. Lines(L) /\ Lines(M)
  BY DEF Loaded
<1>1. NodesOf(L) \ ToSet(<<>>) = NodesOf(L)
  BY EmptyIs
<1>2. e = NamesReported(L, M) + Cardinality(Unlike(L, M, NodesOf(L)))
  BY <1>1 DEF DiffAt
<1>3. /\ IsFiniteSet(NodesOf(L)) /\ IsFiniteSet(AttrsOf(L))
      /\ IsFiniteSet(NodesOf(M)) /\ IsFiniteSet(AttrsOf(M))
      /\ NodesOf(L) \subseteq Node /\ AttrsOf(L) \subseteq Attr
  BY NamesFinite
<1>4. PICK c \in Nat : c = Cardinality(Unlike(L, M, NodesOf(L)))
  BY <1>3, UnlikeFinite
<1>5. PICK x \in Nat : x = Cardinality(NodesOf(L) \ NodesOf(M))
  BY <1>3, ComparedCount
<1>6. PICK y \in Nat : y = Cardinality(NodesOf(M) \ NodesOf(L))
  BY <1>3, ComparedCount
<1>7. PICK z \in Nat : z = Cardinality(AttrsOf(L) \ AttrsOf(M))
  BY <1>3, ComparedCount
<1>8. PICK w \in Nat : w = Cardinality(AttrsOf(M) \ AttrsOf(L))
  BY <1>3, ComparedCount
<1>9. Cardinality(Compared(NodesOf(L), NodesOf(M))) = x + y
      /\ (x + y = 0 <=> NodesOf(L) = NodesOf(M))
  <2>1. /\ Cardinality(Compared(NodesOf(L), NodesOf(M))) = x + y
        /\ Cardinality(Compared(NodesOf(L), NodesOf(M))) = 0
             <=> NodesOf(L) = NodesOf(M)
    BY <1>3, <1>5, <1>6, ComparedCount
  <2> QED BY <2>1
<1>10. Cardinality(Compared(AttrsOf(L), AttrsOf(M))) = z + w
       /\ (z + w = 0 <=> AttrsOf(L) = AttrsOf(M))
  <2>1. /\ Cardinality(Compared(AttrsOf(L), AttrsOf(M))) = z + w
        /\ Cardinality(Compared(AttrsOf(L), AttrsOf(M))) = 0
             <=> AttrsOf(L) = AttrsOf(M)
    BY <1>3, <1>7, <1>8, ComparedCount
  <2> QED BY <2>1
<1>11. e = x + y + z + w + c
  BY <1>2, <1>4, <1>5, <1>6, <1>7, <1>8 DEF NamesReported
<1>12. e = (x + y) + (z + w) + c
  BY <1>11
<1>13. c = 0 <=> Unlike(L, M, NodesOf(L)) = {}
  BY <1>3, <1>4, UnlikeFinite, FS_EmptySet
<1>14. e = 0 <=> NodesOf(L) = NodesOf(M) /\ AttrsOf(L) = AttrsOf(M)
                 /\ Unlike(L, M, NodesOf(L)) = {}
  BY <1>9, <1>10, <1>12, <1>13
<1>15. ASSUME NodesOf(L) = NodesOf(M), AttrsOf(L) = AttrsOf(M),
              Unlike(L, M, NodesOf(L)) = {},
              NEW n \in NodesOf(L), NEW a \in Attr
       PROVE  Test(L, n, a) = Test(M, n, a)
  <2>1. CASE a \in AttrsOf(L)
    <3>1. <<n, a>> \notin Unlike(L, M, NodesOf(L))
      BY <1>15
    <3> QED BY <3>1, <2>1, <1>15 DEF Unlike
  <2>2. CASE a \notin AttrsOf(L)
    <3>1. Test(L, n, a) = Absent
      BY <2>2, <1>0, TestTypes
    <3>2. Test(M, n, a) = Absent
      BY <2>2, <1>0, <1>15, TestTypes
    <3> QED BY <3>1, <3>2
  <2> QED BY <2>1, <2>2
<1>16. ASSUME NodesOf(L) = NodesOf(M),
              \A n \in NodesOf(L), a \in Attr : Test(L, n, a) = Test(M, n, a)
       PROVE  AttrsOf(L) = AttrsOf(M) /\ Unlike(L, M, NodesOf(L)) = {}
  <2>1. ASSUME NEW K, Loaded(K), NEW a \in AttrsOf(K)
        PROVE  a \in Attr /\ \E n \in NodesOf(K) : Test(K, n, a) # Absent
    <3>0. Lines(K) /\ AttrsOf(K) \subseteq Attr
      BY <2>1, NamesFinite DEF Loaded
    <3>1. PICK i \in DOMAIN K : a \in AttrsIn(K[i].attrval_index)
      BY <2>1 DEF AttrsOf
    <3>2. i \in 1 .. Len(K) /\ K[i].hl # <<>> /\ K[i].hl \in Seq(Node)
      BY <3>0, <3>1, <2>1, LenNat, LineIs DEF Loaded
    <3>3. K[i].hl[1] \in NodesIn(K[i].hl)
      BY <3>2 DEF NodesIn
    <3>4. Gives(K, i, K[i].hl[1], a)
      BY <3>1, <3>2, <3>3 DEF Gives, AttrsIn
    <3>5. Test(K, K[i].hl[1], a) # Absent
      BY <3>0, <3>4, <2>1, TestTypes
    <3>6. K[i].hl[1] \in NodesOf(K)
      BY <3>1, <3>3 DEF NodesOf
    <3> QED BY <3>0, <3>5, <3>6, <2>1
  <2>2. ASSUME NEW a \in AttrsOf(L) PROVE a \in AttrsOf(M)
    <3>1. PICK n \in NodesOf(L) : a \in Attr /\ Test(L, n, a) # Absent
      BY <2>1
    <3>2. Test(M, n, a) # Absent
      BY <3>1, <1>16
    <3> QED BY <3>1, <3>2, <1>0, TestTypes
  <2>3. ASSUME NEW a \in AttrsOf(M) PROVE a \in AttrsOf(L)
    <3>1. PICK n \in NodesOf(M) : a \in Attr /\ Test(M, n, a) # Absent
      BY <2>1
    <3>2. Test(L, n, a) # Absent
      BY <3>1, <1>16
    <3> QED BY <3>1, <3>2, <1>0, TestTypes
  <2>4. ASSUME NEW p \in Unlike(L, M, NodesOf(L)) PROVE FALSE
    <3>1. p[1] \in NodesOf(L) /\ p[2] \in AttrsOf(L)
          /\ Test(L, p[1], p[2]) # Test(M, p[1], p[2])
      BY <2>4 DEF Unlike
    <3> QED BY <3>1, <1>3, <1>16
  <2> QED BY <2>2, <2>3, <2>4
<1>17. c = Cardinality({p \in (NodesOf(L) \cap NodesOf(M))
                              \X (AttrsOf(L) \cap AttrsOf(M)) :
                          Test(L, p[1], p[2]) # Test(M, p[1], p[2])})
  BY <1>4 DEF Unlike
<1> QED BY <1>9, <1>10, <1>12, <1>14, <1>15, <1>16, <1>17

(***************************************************************************)
(* main().                                                                 *)
(***************************************************************************)

\* Four elements are finitely many.
LEMMA FourFinite ==
  ASSUME NEW a, NEW b, NEW c, NEW d
  PROVE  IsFiniteSet({a, b, c, d})
<1>1. IsFiniteSet({a}) /\ IsFiniteSet({b}) /\ IsFiniteSet({c}) /\ IsFiniteSet({d})
  BY FS_Singleton
<1>2. IsFiniteSet({a} \cup {b}) /\ IsFiniteSet({c} \cup {d})
  BY <1>1, FS_Union
<1>3. IsFiniteSet(({a} \cup {b}) \cup ({c} \cup {d}))
  BY <1>2, FS_Union
<1>4. {a, b, c, d} = ({a} \cup {b}) \cup ({c} \cup {d})
  OBVIOUS
<1> QED BY <1>3, <1>4

\* So are the commands.
LEMMA CommandsFinite == IsFiniteSet(Commands)
<1> DEFINE X == {"Q", "V", "l", "k"} \cup {"d", "e", "C", "H"}
<1>1. IsFiniteSet({"Q", "V", "l", "k"}) /\ IsFiniteSet({"d", "e", "C", "H"})
  BY FourFinite
<1>2. IsFiniteSet(X)
  BY <1>1, FS_Union
<1>3. IsFiniteSet({"q"})
  BY FS_Singleton
<1> HIDE DEF X
<1>4. IsFiniteSet(X \cup {"q"})
  BY <1>2, <1>3, FS_Union
<1>5. Commands \in SUBSET (X \cup {"q"})
  BY DEF Commands, Command, X
<1> QED BY <1>4, <1>5, FS_Subset

\* The uses, one by one.
LEMMA UsesHas ==
  /\ \A f \in {"q", "c"}, x \in SUBSET {"X"} : [o |-> {f} \cup x, n |-> {1}] \in Uses
  /\ \A x \in SUBSET {"v"} : [o |-> x, n |-> {1, 2}] \in Uses
  /\ [o |-> {"Q"}, n |-> {1, 2}] \in Uses
  /\ [o |-> {"l"}, n |-> {0, 1}] \in Uses
  /\ \A x \in SUBSET {"U"} : [o |-> {"V"} \cup x, n |-> {1}] \in Uses
  /\ \A f \in {"k", "d", "e", "C", "H"} : [o |-> {f}, n |-> {0}] \in Uses
<1> DEFINE A == {[o |-> {f} \cup x, n |-> {1}] : f \in {"q", "c"}, x \in SUBSET {"X"}}
           B == {[o |-> {"A"} \cup x, n |-> {0}] : x \in SUBSET {"q", "c", "X"}}
           C == {[o |-> x, n |-> {1, 2}] : x \in SUBSET {"v"}}
           D == {[o |-> {"Q"}, n |-> {1, 2}], [o |-> {"l"}, n |-> {0, 1}]}
           E == {[o |-> {"V"} \cup x, n |-> {1}] : x \in SUBSET {"U"}}
           F == {[o |-> {f}, n |-> {0}] : f \in {"k", "d", "e", "C", "H"}}
<1>1. Uses = A \cup B \cup C \cup D \cup E \cup F
  BY DEF Uses
<1>2. \A f \in {"q", "c"}, x \in SUBSET {"X"} : [o |-> {f} \cup x, n |-> {1}] \in A
  <2> DEFINE G(g, y) == [o |-> {g} \cup y, n |-> {1}]
  <2>1. A = {G(g, y) : g \in {"q", "c"}, y \in SUBSET {"X"}}
    OBVIOUS
  <2> HIDE DEF G, A
  <2>2. \A f \in {"q", "c"} : \A x \in SUBSET {"X"} : G(f, x) \in A
    BY <2>1
  <2>3. \A f \in {"q", "c"} : \A x \in SUBSET {"X"} : [o |-> {f} \cup x, n |-> {1}] \in A
    BY <2>2 DEF G
  <2> QED BY <2>3, Zenon
<1>3. \A x \in SUBSET {"v"} : [o |-> x, n |-> {1, 2}] \in C
  BY Zenon
<1>4. [o |-> {"Q"}, n |-> {1, 2}] \in D /\ [o |-> {"l"}, n |-> {0, 1}] \in D
  BY Zenon
<1>5. \A x \in SUBSET {"U"} : [o |-> {"V"} \cup x, n |-> {1}] \in E
  BY Zenon
<1>6. \A f \in {"k", "d", "e", "C", "H"} : [o |-> {f}, n |-> {0}] \in F
  BY Zenon
<1> HIDE DEF A, B, C, D, E, F
<1>7. \A u : u \in A \cup C \cup D \cup E \cup F => u \in Uses
  BY <1>1
<1> QED BY <1>2, <1>3, <1>4, <1>5, <1>6, <1>7, Zenon

\* The options and their arguments are one of the uses.
IsAUse ==
  \/ \E use \in Uses :
       /\ opts \in {use.o, use.o \cup {"q", "c"}}
       /\ nargs \in use.n
  \/ /\ Given("A") /\ nargs = 0
     /\ Cardinality(Commands \ {"q"}) =< 1

\* Options and arguments that fit a use are one.
LEMMA AnyUse ==
  ASSUME NEW o, NEW n, [o |-> o, n |-> n] \in Uses,
         opts \in {o, o \cup {"q", "c"}}, nargs \in n
  PROVE  IsAUse
<1> DEFINE use == [o |-> o, n |-> n]
<1>1. use.o = o /\ use.n = n /\ use \in Uses
  OBVIOUS
<1> HIDE DEF use
<1> QED BY <1>1 DEF IsAUse

\* What main() accepts is a use.
LEMMA UsesAreUsed ==
  ASSUME opts \in SUBSET Option, WellUsed
  PROVE  IsAUse
<1>1. IsFiniteSet(Commands)
  BY CommandsFinite
<1>2. PICK c \in Nat : c = Cardinality(Commands) /\ c =< 1
  BY <1>1, FS_CardinalityType DEF WellUsed
<1>3. Commands = {} \/ \E d : Commands = {d}
  <2>1. c = 0 => Commands = {}
    BY <1>1, <1>2, FS_EmptySet
  <2>2. c = 1 => \E d : Commands = {d}
    BY <1>1, <1>2, FS_Singleton
  <2>3. c = 0 \/ c = 1
    BY <1>2
  <2> QED BY <2>1, <2>2, <2>3
<1>4. /\ "v" \in opts => Commands = {}
      /\ "X" \in opts => Queries
      /\ "U" \in opts => "V" \in opts
      /\ ArgumentsFit
  BY DEF WellUsed, Given
<1>5. \A d : d \in Commands <=> d \in opts \cap Command \/ (qopt /\ d = "q")
  BY DEF Commands
<1>6. qopt <=> "q" \in opts \/ "c" \in opts
  BY DEF qopt, Given
<1>7. Queries <=> qopt \/ "A" \in opts
  BY DEF Queries, Given
<1>8. CASE "A" \in opts
  <2>1. nargs = 0
    <3>1. nargs \in Takes("q")
      BY <1>4, <1>7, <1>8 DEF ArgumentsFit
    <3>2. Takes("q") = {0}
      BY <1>8 DEF Takes, Given
    <3> QED BY <3>1, <3>2
  <2>2. Cardinality(Commands \ {"q"}) =< 1
    <3> DEFINE D == Commands \ {"q"}
    <3>1. D \in SUBSET Commands
      OBVIOUS
    <3> HIDE DEF D
    <3>2. IsFiniteSet(D) /\ Cardinality(D) =< Cardinality(Commands)
      BY <3>1, <1>1, FS_Subset
    <3>3. Cardinality(D) \in Nat
      BY <3>2, FS_CardinalityType
    <3>4. Cardinality(D) =< 1
      BY <3>2, <3>3, <1>2
    <3> QED BY <3>4 DEF D
  <2> QED BY <2>1, <2>2, <1>8 DEF IsAUse, Given
<1>9. CASE "A" \notin opts /\ Commands = {}
  <2>1. ~ qopt /\ ~ Queries /\ opts \cap Command = {}
    BY <1>5, <1>7, <1>9
  <2>2. nargs \in {1, 2}
    BY <1>4, <1>9, <2>1 DEF ArgumentsFit
  <2>3. opts \in SUBSET {"v"}
    BY <1>4, <1>6, <1>9, <2>1 DEF Option, Command
  <2>4. [o |-> opts, n |-> {1, 2}] \in Uses
    BY <2>3, UsesHas
  <2> QED BY <2>2, <2>4, AnyUse
<1>10. CASE "A" \notin opts /\ qopt
  <2>1. Commands = {"q"} /\ opts \cap Command = {}
    <3>1. "q" \in Commands
      BY <1>5, <1>10
    <3>2. Commands = {"q"}
      BY <3>1, <1>3
    <3>3. "q" \notin Command
      BY DEF Command
    <3> QED BY <3>2, <3>3, <1>5
  <2>2. nargs = 1
    <3>1. nargs \in Takes("q")
      BY <1>4, <1>7, <1>10 DEF ArgumentsFit
    <3>2. Takes("q") = {1}
      BY <1>10 DEF Takes, Given
    <3> QED BY <3>1, <3>2
  <2>3. opts \in SUBSET {"q", "c", "X"}
    BY <1>4, <1>10, <2>1 DEF Option, Command
  <2> DEFINE x == opts \cap {"X"}
  <2>4. x \in SUBSET {"X"}
    OBVIOUS
  <2>5. CASE "q" \in opts /\ "c" \notin opts
    <3>1. [o |-> {"q"} \cup x, n |-> {1}] \in Uses
      BY <2>4, UsesHas
    <3>2. opts = {"q"} \cup x
      BY <2>3, <2>5
    <3> HIDE DEF x
    <3> QED BY <2>2, <3>1, <3>2, AnyUse
  <2>6. CASE "c" \in opts /\ "q" \notin opts
    <3>1. [o |-> {"c"} \cup x, n |-> {1}] \in Uses
      BY <2>4, UsesHas
    <3>2. opts = {"c"} \cup x
      BY <2>3, <2>6
    <3> HIDE DEF x
    <3> QED BY <2>2, <3>1, <3>2, AnyUse
  <2>7. CASE "c" \in opts /\ "q" \in opts
    <3>1. [o |-> {"q"} \cup x, n |-> {1}] \in Uses
      BY <2>4, UsesHas
    <3>2. opts = ({"q"} \cup x) \cup {"q", "c"}
      BY <2>3, <2>7
    <3> HIDE DEF x
    <3> QED BY <2>2, <3>1, <3>2, AnyUse
  <2> QED BY <2>5, <2>6, <2>7, <1>6, <1>10
<1>11. CASE "A" \notin opts /\ ~ qopt /\ Commands # {}
  <2>1. PICK d : Commands = {d}
    BY <1>3, <1>11
  <2>2. d \in opts /\ d \in Command /\ opts \cap Command = {d}
    BY <2>1, <1>5, <1>11
  <2>3. ~ Queries /\ "X" \notin opts /\ "v" \notin opts
        /\ "q" \notin opts /\ "c" \notin opts
    BY <1>4, <1>6, <1>7, <1>11
  <2>4. \A e \in opts : e = d \/ e = "U"
    BY <2>2, <2>3, <1>11 DEF Option, Command
  <2>5. nargs \in Takes(d)
    BY <2>1, <2>3, <1>4 DEF ArgumentsFit
  <2>6. CASE d = "V"
    <3> DEFINE x == opts \cap {"U"}
    <3>1. [o |-> {"V"} \cup x, n |-> {1}] \in Uses
      BY UsesHas
    <3>2. opts = {"V"} \cup x
      BY <2>2, <2>4, <2>6
    <3>3. Takes(d) = {1}
      BY <2>6 DEF Takes
    <3> HIDE DEF x
    <3> QED BY <2>5, <3>1, <3>2, <3>3, AnyUse
  <2>7. ASSUME d # "V" PROVE opts = {d}
    <3>1. "V" \notin opts
      BY <2>2, <2>7 DEF Command
    <3> QED BY <3>1, <2>2, <2>4, <1>4
  <2>8. CASE d = "Q"
    <3>1. Takes(d) = {1, 2}
      BY <2>8 DEF Takes
    <3> QED BY <2>5, <2>7, <2>8, <3>1, AnyUse, UsesHas
  <2>9. CASE d = "l"
    <3>1. Takes(d) = {0, 1}
      BY <2>9 DEF Takes
    <3> QED BY <2>5, <2>7, <2>9, <3>1, AnyUse, UsesHas
  <2>10. CASE d \in {"k", "d", "e", "C", "H"}
    <3>1. Takes(d) = {0}
      BY <2>10 DEF Takes
    <3>2. [o |-> {d}, n |-> {0}] \in Uses
      BY <2>10, UsesHas
    <3>3. opts = {d}
      BY <2>7, <2>10
    <3> QED BY <2>5, <3>1, <3>2, <3>3, AnyUse
  <2> QED BY <2>2, <2>6, <2>8, <2>9, <2>10 DEF Command
<1> QED BY <1>8, <1>9, <1>10, <1>11

(***************************************************************************)
(* The invariant.                                                          *)
(***************************************************************************)

\* What --list-nodes is to print.
Picked(o, L, q, x) ==
  (IF "A" \in o THEN NodesOf(L) ELSE Answer(L, q))
    \ (IF "X" \in o THEN Answer(L, x) ELSE {})

\* How far a command has got, as its loop leaves it.
At(o, L, M, ask, c, t, v, h, w, e, st) ==
  /\ c \in {"options", "list_attrs", "list_attr_val"} /\ st = -1 =>
       h = {} /\ w = <<>>
  /\ c = "list_attrs" /\ st = -1 => v = Cleared(L)
  /\ c = "values" => ValuesAt(o, L, ask.query[1], t, w, st)
  /\ c = "attrs" => AttrsAt(L, ask.nodes, t, h, v, w, st)
  /\ c = "expand" => ExpandAt(L, t, w, st)
  /\ c \in {"compress", "compress_hosts"} => GatherAt(L, c, t, h, w, st)
  /\ c = "diff_nodes" => DiffAt(L, M, t, e, st)
  /\ c = "list_nodes" /\ st = 0 =>
       /\ ask.query \in Query /\ ask.without \in Query
       /\ w = Sorted(AfterSort[Picked(o, L, ask.query, ask.without)])
  /\ c \in {"list_nodes", "list_attr_val"} /\ st = 1 => ~ Once(L)

\* The options are what the usage message allows, the files are what a load
\* leaves, and the loops have done what their nodes ask for.
ArgsFit == opts \in SUBSET Option /\ (pc # "options" => WellUsed)
FilesFit == Loaded(gp) /\ Loaded(dgp)
LoopFits ==
  At(opts, gp, dgp, asked, pc, todo, vals, hattr, out, errcount, status)

IInv == ArgsFit /\ FilesFit /\ LoopFits

\* No lines are lines that a load can leave.
LEMMA NoLines == Loaded(<<>>)
<1>1. <<>> \in Seq(GendersHosts) /\ DOMAIN <<>> = {} /\ Len(<<>>) = 0
  BY EmptyIs
<1>2. NoDuplicateAttrsIn(<<>>)
  BY <1>1 DEF NoDuplicateAttrsIn
<1> QED BY <1>1, <1>2 DEF Loaded, Lines

\* The lines of a file are what a load leaves.
LEMMA FileLoads ==
  ASSUME NEW f \in File
  PROVE  Loaded(f.lines)
BY FileAssumption DEF Loaded, Lines

\* No step changes the options or their arguments.
LEMMA OptionsStay ==
  ASSUME ArgsFit, argv' = argv, pc = "options" => pc' = "options" \/ WellUsed
  PROVE  ArgsFit'
<1>1. opts' = opts /\ nargs' = nargs
  BY DEF argv
<1>2. WellUsed' <=> WellUsed
  BY <1>1 DEF WellUsed, Commands, Queries, qopt, Given, ArgumentsFit, Takes
<1> QED BY <1>1, <1>2 DEF ArgsFit

\* The invariant holds at the start.
LEMMA InitInv ==
  ASSUME Init
  PROVE  IInv
<1>1. ArgsFit
  BY DEF Init, ArgsFit
<1>2. FilesFit
  BY NoLines DEF Init, FilesFit
<1>3. LoopFits
  BY DEF Init, LoopFits, At
<1> QED BY <1>1, <1>2, <1>3 DEF IInv

\* Before a command runs.

\* usage() leaves the invariant.
LEMMA UsageKeeps ==
  ASSUME IInv, Usage
  PROVE  IInv'
<1>1. ArgsFit'
  BY OptionsStay DEF IInv, Usage, argv
<1>2. FilesFit'
  BY DEF IInv, FilesFit, Usage
<1>3. LoopFits'
  BY DEF IInv, LoopFits, At, Usage, Exit, loop
<1> QED BY <1>1, <1>2, <1>3 DEF IInv

\* Loading both files for --diff keeps it.
LEMMA LoadBothKeeps ==
  ASSUME IInv, LoadBoth
  PROVE  IInv'
<1>1. ArgsFit'
  BY OptionsStay DEF IInv, LoadBoth, argv
<1>2. FilesFit'
  BY FileLoads DEF IInv, FilesFit, LoadBoth
<1>3. LoopFits'
  BY DEF IInv, LoopFits, At, LoadBoth, Exit, loop
<1> QED BY <1>1, <1>2, <1>3 DEF IInv

\* genders_parse() keeps it.
LEMMA CheckKeeps ==
  ASSUME IInv, Check
  PROVE  IInv'
<1>1. ArgsFit'
  BY OptionsStay DEF IInv, Check, argv
<1>2. FilesFit'
  BY DEF IInv, FilesFit, Check
<1>3. pc' = "check"
  BY DEF Check
<1>4. LoopFits'
  BY <1>3 DEF LoopFits, At
<1> QED BY <1>1, <1>2, <1>4 DEF IInv

\* Loading a file keeps it: each loop starts as it should.
LEMMA LoadKeeps ==
  ASSUME IInv, Load
  PROVE  IInv'
<1>1. ArgsFit'
  BY OptionsStay DEF IInv, Load, argv
<1>2. FilesFit'
  BY FileLoads DEF IInv, FilesFit, Load
<1>3. LoopFits'
  <2>0. pc = "options" /\ status = -1 /\ hattr = {} /\ out = <<>>
        /\ hattr' = hattr /\ out' = out
    BY DEF IInv, LoopFits, At, Load
  <2>1. PICK f \in File :
          IF Loads(f)
          THEN /\ pc' = Chosen /\ gp' = f.lines /\ vals' = Cleared(f.lines)
               /\ todo' = Sorted(NodesOf(f.lines))
               /\ UNCHANGED status
          ELSE Exit(1) /\ UNCHANGED <<pc, gp, vals, todo>>
    BY DEF Load
  <2>2. Loaded(f.lines)
    BY FileLoads
  <2>3. CASE Loads(f)
    <3>1. pc' \in {"expand", "compress", "compress_hosts", "list_nodes",
                   "test_query", "list_attr_val", "list_attrs", "test_attr"}
          /\ status' = -1
      BY <2>0, <2>1, <2>3 DEF Chosen
    <3>2. pc' = "expand" => ExpandAt(gp', todo', out', status')
      BY <2>0, <2>1, <2>2, <2>3, ExpandStart
    <3>3. GatherAt(gp', pc', todo', hattr', out', status')
      BY <2>0, <2>1, <2>2, <2>3, GatherStart
    <3> QED BY <2>0, <2>1, <2>3, <3>1, <3>2, <3>3 DEF LoopFits, At
  <2>4. CASE ~ Loads(f)
    <3>1. pc' = "options" /\ status' = 1
      BY <2>0, <2>1, <2>4 DEF Exit
    <3> QED BY <3>1 DEF LoopFits, At
  <2> QED BY <2>3, <2>4
<1> QED BY <1>1, <1>2, <1>3 DEF IInv

\* The lists and the tests.

\* What printing leaves alone.
LEMMA PrintsKeeps ==
  ASSUME IInv, NEW lines, NEW code, Prints(lines, code), pc # "options",
         At(opts, gp, dgp, asked', pc, todo, vals, hattr, lines, errcount, code)
  PROVE  IInv'
<1>1. ArgsFit'
  BY OptionsStay DEF IInv, Prints
<1>2. FilesFit'
  BY DEF IInv, FilesFit, Prints
<1>3. LoopFits'
  BY DEF LoopFits, Prints, Exit, argv, loop
<1> QED BY <1>1, <1>2, <1>3 DEF IInv

\* list_nodes() keeps it.
LEMMA ListNodesKeeps ==
  ASSUME IInv, ListNodes
  PROVE  IInv'
<1>1. PICK q \in Query, x \in Query :
        /\ Runs("list_nodes") /\ Asks(<<>>, q, x)
        /\ IF QueriesOverflow(q, x) THEN Prints(<<>>, 1)
           ELSE Prints(Sorted(AfterSort[NodesListed(q, x)]), 0)
  BY DEF ListNodes
<1>2. NodesListed(q, x) = Picked(opts, gp, q, x)
  BY DEF NodesListed, Picked, Given
<1>3. asked'.query = q /\ asked'.without = x /\ pc = "list_nodes"
  BY <1>1 DEF Asks, Runs
<1>4. At(opts, gp, dgp, asked', pc, todo, vals, hattr,
         Sorted(AfterSort[NodesListed(q, x)]), errcount, 0)
  BY <1>2, <1>3 DEF At
<1>5. CASE QueriesOverflow(q, x)
  <2>1. ~ Once(gp)
    BY <1>5, RoomForNames DEF IInv, FilesFit, QueriesOverflow
  <2>2. At(opts, gp, dgp, asked', pc, todo, vals, hattr, <<>>, errcount, 1)
    BY <2>1, <1>3 DEF At
  <2> QED BY <2>2, <1>1, <1>3, <1>5, PrintsKeeps
<1>6. CASE ~ QueriesOverflow(q, x)
  BY <1>1, <1>3, <1>4, <1>6, PrintsKeeps
<1> QED BY <1>5, <1>6

\* test_attr() keeps it.
LEMMA TestAttrKeeps ==
  ASSUME IInv, TestAttr
  PROVE  IInv'
<1>1. /\ pc = "test_attr"
      /\ \E lines : \E code : Prints(lines, code)
  BY DEF TestAttr, Runs
<1>2. \A lines : \A code :
        At(opts, gp, dgp, asked', pc, todo, vals, hattr, lines, errcount, code)
  BY <1>1 DEF At
<1> QED BY <1>1, <1>2, PrintsKeeps

\* test_query() keeps it.
LEMMA TestQueryKeeps ==
  ASSUME IInv, TestQuery
  PROVE  IInv'
<1>1. /\ pc = "test_query"
      /\ \E lines : \E code : Prints(lines, code)
  BY DEF TestQuery, Runs
<1>2. \A lines : \A code :
        At(opts, gp, dgp, asked', pc, todo, vals, hattr, lines, errcount, code)
  BY <1>1 DEF At
<1> QED BY <1>1, <1>2, PrintsKeeps

\* Finding the nodes of an attribute keeps it.
LEMMA ListAttrValKeeps ==
  ASSUME IInv, ListAttrVal
  PROVE  IInv'
<1>1. PICK a \in Attr :
        /\ Runs("list_attr_val") /\ Asks(<<>>, <<a, Absent>>, <<>>)
        /\ \/ Overflows(gp, <<a, Absent>>) /\ Prints(<<>>, 1)
           \/ /\ pc' = "values" /\ todo' = HavingNodes(gp, a)
              /\ UNCHANGED <<argv, gp, dgp, vals, hattr, out, errcount, status>>
  BY DEF ListAttrVal, HavingNodes
<1>2. CASE Overflows(gp, <<a, Absent>>) /\ Prints(<<>>, 1)
  <2>1. ~ Once(gp) /\ pc = "list_attr_val"
    BY <1>1, <1>2, RoomForNames DEF IInv, FilesFit, Runs
  <2>2. At(opts, gp, dgp, asked', pc, todo, vals, hattr, <<>>, errcount, 1)
    BY <2>1 DEF At
  <2> QED BY <2>1, <2>2, <1>2, PrintsKeeps
<1>3. CASE pc' = "values" /\ todo' = HavingNodes(gp, a)
           /\ UNCHANGED <<argv, gp, dgp, vals, hattr, out, errcount, status>>
  <2>1. pc = "list_attr_val" /\ status = -1
    BY <1>1 DEF Runs
  <2>2. ArgsFit'
    BY <1>3, <2>1, OptionsStay DEF IInv
  <2>3. FilesFit'
    BY <1>3 DEF IInv, FilesFit
  <2>4. out' = <<>> /\ status' = -1 /\ gp' = gp
    BY <1>3, <2>1 DEF IInv, LoopFits, At
  <2>5. asked'.query[1] = a
    BY <1>1 DEF Asks
  <2>6. ValuesAt(opts', gp', asked'.query[1], todo', out', status')
    BY <1>3, <2>4, <2>5, ValuesStart DEF IInv, FilesFit
  <2>7. LoopFits'
    BY <1>3, <2>4, <2>6 DEF LoopFits, At
  <2> QED BY <2>2, <2>3, <2>7 DEF IInv
<1> QED BY <1>1, <1>2, <1>3

\* Keeping a value keeps it.
LEMMA KeepValueKeeps ==
  ASSUME IInv, KeepValue
  PROVE  IInv'
<1>1. ArgsFit'
  BY OptionsStay DEF IInv, KeepValue, Runs
<1>2. FilesFit'
  BY DEF IInv, FilesFit, KeepValue
<1>3. LoopFits'
  <2> DEFINE a == asked.query[1]
             v == Test(gp, Head(todo), a)
  <2>1. pc = "values" /\ pc' = "values" /\ status = -1 /\ status' = -1
        /\ todo # <<>> /\ todo' = Tail(todo) /\ gp' = gp /\ asked' = asked
        /\ opts' = opts
    BY DEF KeepValue, Runs, argv
  <2>2. out' = IF v = NoValue \/ ("U" \in opts /\ Contains(out, v)) THEN out
               ELSE Append(out, v)
    BY DEF KeepValue, Given
  <2>3. Loaded(gp) /\ ValuesAt(opts, gp, a, todo, out, -1)
    BY <2>1 DEF IInv, FilesFit, LoopFits, At
  <2> HIDE DEF a
  <2>4. ValuesAt(opts, gp, a, todo', out', -1)
    BY <2>1, <2>2, <2>3, ValuesKeep
  <2> QED BY <2>1, <2>4 DEF LoopFits, At, a
<1> QED BY <1>1, <1>2, <1>3 DEF IInv

\* Printing the values keeps it.
LEMMA PrintValuesKeeps ==
  ASSUME IInv, PrintValues
  PROVE  IInv'
<1>1. pc = "values" /\ status = -1 /\ todo = <<>> /\ Prints(out, 0) /\ asked' = asked
  BY DEF PrintValues, Runs
<1>2. ValuesAt(opts, gp, asked.query[1], todo, out, 0)
  BY <1>1 DEF IInv, LoopFits, At, ValuesAt
<1> QED BY <1>1, <1>2, PrintsKeeps DEF At

\* list_attrs() keeps it, with and without a range.
LEMMA ListAttrsKeeps ==
  ASSUME IInv, ListAttrs
  PROVE  IInv'
<1>0. pc = "list_attrs" /\ status = -1
  BY DEF ListAttrs, Runs
<1>1. CASE Prints(SetToSeq(AttrsOf(gp)), 0)
  BY <1>0, <1>1, PrintsKeeps DEF At
<1>2. ASSUME NEW nodes \in BoundedSeq(Node, MaxNodes),
             Asks(nodes, <<>>, <<>>), pc' = "attrs", todo' = nodes,
             UNCHANGED <<argv, gp, dgp, vals, hattr, out, errcount, status>>
      PROVE  IInv'
  <2>1. ArgsFit'
    BY <1>0, <1>2, OptionsStay DEF IInv
  <2>2. FilesFit'
    BY <1>2 DEF IInv, FilesFit
  <2>3. nodes \in Seq(Node)
    BY <1>2, NodeattrAssumption DEF BoundedSeq, SeqOf
  <2>4. hattr' = {} /\ out' = <<>> /\ vals' = Cleared(gp) /\ status' = -1 /\ gp' = gp
    BY <1>0, <1>2 DEF IInv, LoopFits, At
  <2>5. asked'.nodes = nodes
    BY <1>2 DEF Asks
  <2>6. AttrsAt(gp', asked'.nodes, todo', hattr', vals', out', status')
    BY <1>2, <2>3, <2>4, <2>5, AttrsStart DEF IInv, FilesFit
  <2>7. LoopFits'
    BY <1>2, <2>6 DEF LoopFits, At
  <2> QED BY <2>1, <2>2, <2>7 DEF IInv
<1> QED BY <1>1, <1>2 DEF ListAttrs

\* Filing the attributes of a node keeps it, and so does one that is unknown.
LEMMA HashAttrsKeeps ==
  ASSUME IInv, HashAttrs
  PROVE  IInv'
<1>1. ArgsFit'
  BY OptionsStay DEF IInv, HashAttrs, Runs
<1>2. FilesFit'
  BY DEF IInv, FilesFit, HashAttrs
<1>3. LoopFits'
  <2> DEFINE n == Last(todo)
             P == GetAttr(gp, n)
  <2>1. pc = "attrs" /\ pc' = "attrs" /\ status = -1 /\ todo # <<>>
        /\ gp' = gp /\ asked' = asked /\ out' = out
    BY DEF HashAttrs, Runs
  <2>2. Loaded(gp) /\ AttrsAt(gp, asked.nodes, todo, hattr, vals, out, -1)
    BY <2>1 DEF IInv, FilesFit, LoopFits, At
  <2>3. CASE n \in NodesOf(gp)
    <3>1. /\ todo' = Front(todo) /\ vals' = Stored(vals, P, FALSE, n)
          /\ hattr' = HashAttrval(hattr, Singles(Shown(P, vals')), n)
          /\ status' = -1
      BY <2>1, <2>3 DEF HashAttrs, Singles
    <3>2. AttrsAt(gp, asked.nodes, todo', hattr', vals', out, -1)
      BY <2>1, <2>2, <3>1, AttrsKeep
    <3> QED BY <2>1, <3>1, <3>2 DEF LoopFits, At
  <2>4. CASE n \notin NodesOf(gp)
    <3>1. todo' = todo /\ vals' = vals /\ hattr' = hattr /\ status' = 1
      BY <2>4 DEF HashAttrs, Exit, loop
    <3>2. AttrsAt(gp, asked.nodes, todo, hattr, vals, out, 1)
      BY <2>2 DEF AttrsAt
    <3> QED BY <2>1, <3>1, <3>2 DEF LoopFits, At
  <2> QED BY <2>3, <2>4
<1> QED BY <1>1, <1>2, <1>3 DEF IInv

\* Printing the attributes keeps it.
LEMMA PrintAttrsKeeps ==
  ASSUME IInv, PrintAttrs
  PROVE  IInv'
<1> DEFINE w == SetToSeq(KeysOf(hattr))
<1>1. pc = "attrs" /\ status = -1 /\ todo = <<>> /\ Prints(w, 0) /\ asked' = asked
  BY DEF PrintAttrs, Runs, KeysOf
<1>2. AttrsAt(gp, asked.nodes, todo, hattr, vals, w, 0)
  BY <1>1 DEF IInv, LoopFits, At, AttrsAt
<1> HIDE DEF w
<1> QED BY <1>1, <1>2, PrintsKeeps DEF At

\* Expanding and compressing.

\* Printing a line of expand() keeps it.
LEMMA ExpandNodeKeeps ==
  ASSUME IInv, ExpandNode
  PROVE  IInv'
<1>1. ArgsFit'
  BY OptionsStay DEF IInv, ExpandNode, Runs
<1>2. FilesFit'
  BY DEF IInv, FilesFit, ExpandNode
<1>3. LoopFits'
  <2> DEFINE n == Head(todo)
             P == GetAttr(gp, n)
  <2>1. pc = "expand" /\ pc' = "expand" /\ status = -1 /\ status' = -1
        /\ todo # <<>> /\ todo' = Tail(todo) /\ gp' = gp
        /\ vals' = Stored(Cleared(gp), P, FALSE, n)
        /\ out' = Append(out, Printed(<<n>>, Shown(P, vals'), FALSE))
    BY DEF ExpandNode, Runs, Fresh
  <2>2. Loaded(gp) /\ ExpandAt(gp, todo, out, -1)
    BY <2>1 DEF IInv, FilesFit, LoopFits, At
  <2>3. Cleared(gp) \in Arrays(gp)
    BY <2>2, ClearedIs
  <2>4. Stores(gp, n, FALSE, Cleared(gp), P, vals')
    BY <2>1, <2>2, <2>3, StoredIs, Zenon
  <2>5. Shown(P, vals') = View(gp, n, FALSE)
    BY <2>4, Zenon DEF Stores
  <2>6. Shown(P, vals') = Read(gp, n)
    BY <2>2, <2>5, ReadIs, Zenon DEF Loaded
  <2> HIDE DEF P
  <2>7. ExpandAt(gp, todo', out', -1)
    BY <2>1, <2>2, <2>6, ExpandKeep
  <2> QED BY <2>1, <2>7 DEF LoopFits, At
<1> QED BY <1>1, <1>2, <1>3 DEF IInv

\* The end of expand() keeps it.
LEMMA ExpandedKeeps ==
  ASSUME IInv, Expanded
  PROVE  IInv'
<1>1. pc = "expand" /\ status = -1 /\ todo = <<>> /\ Prints(out, 0)
  BY DEF Expanded, Runs
<1>2. ExpandAt(gp, todo, out, 0)
  BY <1>1 DEF IInv, LoopFits, At, ExpandAt
<1> QED BY <1>1, <1>2, PrintsKeeps DEF At

\* Filing a node for a compression keeps it.
LEMMA GatherKeeps ==
  ASSUME IInv, Gather
  PROVE  IInv'
<1>0. pc # "options"
  BY DEF Gather
<1>1. ArgsFit'
  BY <1>0, OptionsStay DEF IInv, Gather
<1>2. FilesFit'
  BY DEF IInv, FilesFit, Gather
<1>3. LoopFits'
  <2> DEFINE n == Head(todo)
             P == GetAttr(gp, n)
  <2>1. /\ pc \in {"compress", "compress_hosts"} /\ pc' = pc
        /\ status = -1 /\ status' = -1
        /\ todo # <<>> /\ todo' = Tail(todo) /\ gp' = gp /\ out' = out
    BY DEF Gather
  <2>2. /\ vals' = Stored(Cleared(gp), P, TRUE, n)
        /\ hattr' = HashAttrval(hattr, Keys(Shown(P, vals')), n)
    BY DEF Gather, Fresh
  <2>3. Loaded(gp) /\ GatherAt(gp, pc, todo, hattr, out, -1)
    BY <2>1 DEF IInv, FilesFit, LoopFits, At
  <2>4. Shown(P, vals') = Keep(gp, n)
    BY <2>2, <2>3, KeepIs, Zenon
  <2>5. Keys(Shown(P, vals')) = KeysAt(pc, Keep(gp, n))
    <3> HIDE DEF P
    <3>1. Keys(Keep(gp, n)) = KeysAt(pc, Keep(gp, n))
      BY DEF Keys, KeysAt, Singles
    <3> QED BY <2>4, <3>1
  <2> HIDE DEF P
  <2>6. hattr' = HashAttrval(hattr, KeysAt(pc, Keep(gp, n)), n)
    BY <2>2, <2>5
  <2>7. GatherAt(gp, pc, todo', hattr', out, -1)
    BY <2>1, <2>3, <2>6, GatherKeep
  <2> QED BY <2>1, <2>7 DEF LoopFits, At
<1> QED BY <1>1, <1>2, <1>3 DEF IInv

\* Printing the ranges keeps it.
LEMMA PrintRangesKeeps ==
  ASSUME IInv, PrintRanges
  PROVE  IInv'
<1> DEFINE w == RangeLines(hattr)
<1>1. pc \in {"compress", "compress_hosts"} /\ status = -1 /\ todo = <<>> /\ Prints(w, 0)
  BY DEF PrintRanges, RangeLines
<1>2. GatherAt(gp, pc, todo, hattr, w, 0)
  BY <1>1 DEF IInv, LoopFits, At, GatherAt
<1> HIDE DEF w
<1> QED BY <1>1, <1>2, PrintsKeeps DEF At

\* Comparing two files.

\* Comparing the names keeps it.
LEMMA DiffNamesKeeps ==
  ASSUME IInv, DiffNames
  PROVE  IInv'
<1>1. ArgsFit'
  BY OptionsStay DEF IInv, DiffNames, Runs
<1>2. FilesFit'
  BY DEF IInv, FilesFit, DiffNames
<1>3. LoopFits'
  <2>1. /\ errcount' = NamesReported(gp, dgp) /\ pc' = "diff_nodes"
        /\ todo' = Sorted(NodesOf(gp)) /\ gp' = gp /\ dgp' = dgp /\ status' = -1
    BY DEF DiffNames, NamesReported, Runs
  <2>2. DiffAt(gp', dgp', todo', errcount', status')
    BY <2>1, DiffStart DEF IInv, FilesFit
  <2> QED BY <2>1, <2>2 DEF LoopFits, At
<1> QED BY <1>1, <1>2, <1>3 DEF IInv

\* Comparing a node keeps it.
LEMMA DiffNodeKeeps ==
  ASSUME IInv, DiffNode
  PROVE  IInv'
<1>1. ArgsFit'
  BY OptionsStay DEF IInv, DiffNode, Runs
<1>2. FilesFit'
  BY DEF IInv, FilesFit, DiffNode
<1>3. LoopFits'
  <2>1. /\ pc = "diff_nodes" /\ pc' = "diff_nodes" /\ status = -1 /\ status' = -1
        /\ todo # <<>> /\ todo' = Tail(todo) /\ gp' = gp /\ dgp' = dgp
    BY DEF DiffNode, Runs
  <2>2. Loaded(gp) /\ Loaded(dgp) /\ DiffAt(gp, dgp, todo, errcount, -1)
    BY <2>1 DEF IInv, FilesFit, LoopFits, At
  <2>3. errcount' = IF Head(todo) \in NodesOf(dgp)
                    THEN errcount + Cardinality(UnlikeOn(gp, dgp, Head(todo)))
                    ELSE errcount
    BY <2>2, DifferencesAre DEF DiffNode
  <2>4. DiffAt(gp, dgp, todo', errcount', -1)
    BY <2>1, <2>2, <2>3, DiffKeep
  <2> QED BY <2>1, <2>4 DEF LoopFits, At
<1> QED BY <1>1, <1>2, <1>3 DEF IInv

\* The end of --diff keeps it.
LEMMA DiffEndsKeeps ==
  ASSUME IInv, DiffEnds
  PROVE  IInv'
<1>1. pc = "diff_nodes" /\ status = -1 /\ todo = <<>> /\ Prints(<<>>, 0)
  BY DEF DiffEnds, Runs
<1>2. DiffAt(gp, dgp, todo, errcount, 0)
  BY <1>1 DEF IInv, LoopFits, At, DiffAt
<1> QED BY <1>1, <1>2, PrintsKeeps DEF At

\* So does a step of something else.
LEMMA StutterKeeps ==
  ASSUME IInv, UNCHANGED vars
  PROVE  IInv'
<1>1. argv' = argv /\ asked' = asked /\ gp' = gp /\ dgp' = dgp /\ pc' = pc
      /\ loop' = loop /\ out' = out /\ errcount' = errcount /\ status' = status
  BY DEF vars
<1>2. ArgsFit'
  BY <1>1, OptionsStay DEF IInv
<1>3. FilesFit'
  BY <1>1 DEF IInv, FilesFit
<1>4. LoopFits'
  BY <1>1 DEF IInv, LoopFits, loop, argv
<1> QED BY <1>2, <1>3, <1>4 DEF IInv

\* The invariant holds throughout: no loop loses a node, or takes one twice.
THEOREM NodeattrInvariant == Spec => []IInv
<1>1. Init => IInv
  BY InitInv
<1>2. IInv /\ [Next]_vars => IInv'
  BY UsageKeeps, LoadBothKeeps, CheckKeeps, LoadKeeps, ListNodesKeeps,
     TestAttrKeeps, TestQueryKeeps, ListAttrValKeeps, KeepValueKeeps,
     PrintValuesKeeps, ListAttrsKeeps, HashAttrsKeeps, PrintAttrsKeeps,
     ExpandNodeKeeps, ExpandedKeeps, GatherKeeps, PrintRangesKeeps,
     DiffNamesKeeps, DiffNodeKeeps, DiffEndsKeeps, StutterKeeps DEF Next
<1> QED BY <1>1, <1>2, PTL DEF Spec

(***************************************************************************)
(* What holds of what is printed.                                          *)
(***************************************************************************)

\* The invariant says that the options are used ...
LEMMA UsedWhenRun ==
  ASSUME IInv
  PROVE  OptionsAreUsed
<1>1. CASE pc = "options"
  BY <1>1 DEF OptionsAreUsed
<1>2. CASE pc # "options"
  <2>1. IsAUse
    BY <1>2, UsesAreUsed DEF IInv, ArgsFit
  <2> QED BY <2>1 DEF OptionsAreUsed, IsAUse
<1> QED BY <1>1, <1>2

\* ... that the differences are counted ...
LEMMA CountedWhenDone ==
  ASSUME IInv
  PROVE  DiffCounts
<1> SUFFICES ASSUME pc = "diff_nodes", status = 0
             PROVE  DiffCounts
  BY DEF DiffCounts, Did
<1>1. Loaded(gp) /\ Loaded(dgp) /\ DiffAt(gp, dgp, todo, errcount, 0)
  BY DEF IInv, FilesFit, LoopFits, At
<1>2. DiffAt(gp, dgp, <<>>, errcount, 0)
  BY <1>1 DEF DiffAt
<1> QED BY <1>1, <1>2, DiffEnd DEF DiffCounts

\* The values of an attribute.
LEMMA ValuesEnd ==
  ASSUME IInv, Did("values")
  PROVE  /\ ToSet(out) = ReadOn(asked.query[1])
         /\ Given("U") => \A i, j \in DOMAIN out : out[i] = out[j] => i = j
         /\ ~ Given("U") /\ NamedOnce => Len(out) = Cardinality({n \in NodesOf(gp) :
              Test(gp, n, asked.query[1]) \notin {Absent, NoValue}})
<1> DEFINE a == asked.query[1]
<1>1. Loaded(gp) /\ ValuesAt(opts, gp, a, todo, out, 0)
  BY DEF IInv, FilesFit, LoopFits, At, Did
<1>2. todo = <<>> /\ out \in Seq(Value)
  BY <1>1 DEF ValuesAt
<1>3. ToSet(todo) = {}
  BY <1>2, EmptyIs
<1>4. ReadOn(a) = TestsOf(gp, NodesOf(gp), a)
  BY DEF ReadOn, TestsOf
<1>5. TestsOf(gp, {}, a) = {} /\ With(gp, {}, a) = {}
  BY DEF TestsOf, With
<1>6. ToSet(out) = ReadOn(a)
  BY <1>1, <1>3, <1>4, <1>5 DEF ValuesAt
<1>7. Given("U") => \A i, j \in DOMAIN out : out[i] = out[j] => i = j
  BY <1>1 DEF ValuesAt, Given, IsInjective
<1>8. With(gp, NodesOf(gp), a) = {n \in NodesOf(gp) : Test(gp, n, a) \notin {Absent, NoValue}}
  BY DEF With
<1>9. Len(out) \in Nat
  BY <1>2
<1>10. ~ Given("U") /\ NamedOnce => Len(out) = Cardinality(With(gp, NodesOf(gp), a))
  <2> SUFFICES ASSUME ~ Given("U"), NamedOnce
               PROVE  Len(out) = Cardinality(With(gp, NodesOf(gp), a))
    OBVIOUS
  <2>1. Once(gp) /\ "U" \notin opts
    BY DEF NamedOnce, Once, Given
  <2>2. Len(out) + Cardinality(With(gp, {}, a)) = Cardinality(With(gp, NodesOf(gp), a))
    BY <1>1, <1>3, <2>1 DEF ValuesAt
  <2>3. Cardinality(With(gp, {}, a)) = 0
    BY <1>5, FS_EmptySet
  <2> QED BY <2>2, <2>3, <1>9
<1> QED BY <1>6, <1>7, <1>8, <1>10

\* The attributes of the nodes of a range.
LEMMA AttrsEnd ==
  ASSUME IInv, Did("attrs")
  PROVE  LET listed == ToSet(out)
             own == UNION {Own(asked.nodes[i]) : i \in DOMAIN asked.nodes}
         IN  /\ {p \in own : p[2] # NoValue} \subseteq listed
             /\ \A p \in listed : \E q \in own : p[1] = q[1]
             /\ Len(asked.nodes) = 1 => listed = own
<1> DEFINE nodes == asked.nodes
           own == UNION {Own(nodes[i]) : i \in DOMAIN nodes}
<1>1. Loaded(gp) /\ AttrsAt(gp, nodes, todo, hattr, vals, out, 0)
  BY DEF IInv, FilesFit, LoopFits, At, Did
<1>2. todo = <<>> /\ out = SetToSeq(KeysOf(hattr)) /\ nodes \in Seq(Node)
      /\ IsFiniteSet(KeysOf(hattr))
  BY <1>1 DEF AttrsAt
<1>3. ToSet(out) = KeysOf(hattr)
  BY <1>2, SetToSeqLists DEF Lists
<1>4. \A n : Own(n) = Read(gp, n)
  BY DEF Own, Read
<1>5. \A p : p \in own <=> \E n \in ToSet(nodes) : p \in Read(gp, n)
  BY <1>4 DEF ToSet
<1>6. ToSet(todo) = {}
  BY <1>2, EmptyIs
<1>7. {p \in own : p[2] # NoValue} \subseteq ToSet(out)
  <2> HIDE DEF own
  <2> QED BY <1>1, <1>3, <1>5, <1>6 DEF AttrsAt
<1>8. \A p \in ToSet(out) : \E q \in own : p[1] = q[1]
  <2> HIDE DEF own
  <2> QED BY <1>1, <1>3, <1>5 DEF AttrsAt
<1>9. ASSUME Len(nodes) = 1 PROVE ToSet(out) = own
  <2>1. nodes # <<>>
    <3> HIDE DEF nodes
    <3>1. Len(<<>>) = 0
      BY EmptyIs
    <3>2. 0 # 1
      OBVIOUS
    <3> QED BY ONLY <1>9, <3>1, <3>2
  <2>2. KeysOf(hattr) = Read(gp, nodes[1])
    <3> HIDE DEF nodes
    <3> QED BY <1>1, <1>2, <1>9, <2>1 DEF AttrsAt
  <2>3. ToSet(nodes) = {nodes[1]}
    <3>1. DOMAIN nodes = {1}
      BY <1>2, <1>9
    <3> QED BY <3>1 DEF ToSet
  <2> HIDE DEF own, nodes
  <2>4. \A p : p \in own <=> p \in Read(gp, nodes[1])
    BY <1>5, <2>3
  <2> QED BY <1>3, <2>2, <2>4
<1> HIDE DEF own
<1>10. /\ {p \in own : p[2] # NoValue} \subseteq ToSet(out)
       /\ \A p \in ToSet(out) : \E q \in own : p[1] = q[1]
       /\ Len(asked.nodes) = 1 => ToSet(out) = own
  BY <1>7, <1>8, <1>9
<1> QED BY <1>10 DEF own

\* The nodes that a query finds.
LEMMA NodesEnd ==
  ASSUME IInv, SortKeepsHosts, Did("list_nodes"), NEW n \in Node
  PROVE  Contains(out, n) <=>
           /\ n \in NodesOf(gp)
           /\ Given("A") \/ Meets(gp, n, asked.query)
           /\ Given("X") => ~ Meets(gp, n, asked.without)
<1> DEFINE S == Picked(opts, gp, asked.query, asked.without)
<1>1. Loaded(gp) /\ out = Sorted(AfterSort[S])
  BY DEF IInv, FilesFit, LoopFits, At, Did
<1>2. S \subseteq NodesOf(gp)
  BY DEF Picked, Answer
<1>3. n \in S <=> /\ n \in NodesOf(gp)
                  /\ Given("A") \/ Meets(gp, n, asked.query)
                  /\ Given("X") => ~ Meets(gp, n, asked.without)
  BY DEF Picked, Answer, Given
<1> HIDE DEF S
<1>4. S \subseteq Node /\ IsFiniteSet(S)
  BY <1>1, <1>2, NamesFinite, FS_Subset
<1>7. out = Sorted(S)
  BY <1>1, <1>4 DEF SortKeepsHosts
<1>5. out \in Seq(S) /\ ToSet(out) = S
  BY <1>7, <1>4, SortedLists DEF Lists
<1>6. Contains(out, n) <=> n \in ToSet(out)
  BY <1>5 DEF Contains, ToSet
<1> QED BY <1>3, <1>5, <1>6

\* ... that what is listed is right ...
LEMMA RightWhenDone ==
  ASSUME IInv, SortKeepsHosts
  PROVE  AnswersAreRight
<1>1. \A s : {s[i] : i \in DOMAIN s} = ToSet(s)
  BY DEF ToSet
<1>2. {out[i] : i \in DOMAIN out} = ToSet(out)
  BY <1>1
<1>3. pc \in {"list_nodes", "list_attr_val"} /\ status = 1 => ~ NamedOnce
  BY DEF IInv, LoopFits, At, NamedOnce, Once
<1> QED BY <1>2, <1>3, ValuesEnd, AttrsEnd, NodesEnd DEF AnswersAreRight

\* What is printed, as it is read again.
LEMMA AgainIs == Again = LinesFrom(out)
<1>1. \A i : AttrvalsOf(out[i].pairs) =
        [a \in Attr |-> IF \E p \in out[i].pairs : p[1] = a
                        THEN (CHOOSE p \in out[i].pairs : p[1] = a)[2] ELSE Absent]
  BY DEF AttrvalsOf
<1> QED BY <1>1 DEF Again, LinesFrom, LineFrom

\* A file that describes what the first one says of its nodes is the same; a
\* value that is printed as it reads is read once more.
LEMMA SameWhenDescribed ==
  ASSUME NEW D, Loaded(gp), Describes(out, NodesOf(gp), D),
         \A n \in NodesOf(gp) :
           \/ D[n] = Keep(gp, n)
           \/ pc = "expand" /\ D[n] = Read(gp, n)
  PROVE  SameFile
<1> DEFINE A == LinesFrom(out)
<1>1. /\ \A i \in DOMAIN out : ~ out[i].comma
      /\ \A i \in DOMAIN out : \A p, q \in out[i].pairs : p[1] = q[1] => p = q
      /\ Lines(A) /\ NodesOf(A) = NodesOf(gp)
      /\ \A n \in NodesOf(gp), a \in Attr : \A v : v # Absent =>
           (Raw(A, n, a) = v <=> <<a, v>> \in D[n])
  BY ReadsBack
<1> HIDE DEF A
<1>2. NoDuplicateAttrsIn(A)
  BY <1>1 DEF Lines
<1>3. ASSUME NEW n \in NodesOf(gp), NEW a \in Attr
      PROVE  \/ Test(A, n, a) = Test(gp, n, a)
             \/ /\ pc = "expand" /\ Test(gp, n, a) \in Value
                /\ Reading[Test(gp, n, a), n] # Test(gp, n, a)
  <2>0. Lines(gp) /\ n \in Node
    BY <1>3, NamesFinite DEF Loaded
  <2> DEFINE r == Raw(A, n, a)
             v == Test(gp, n, a)
  <2>a. \A u : u # Absent => (r = u <=> <<a, u>> \in D[n])
    BY <1>1, <1>3, Zenon
  <2>b. Test(A, n, a) = IF r = Absent THEN Absent ELSE ValueAs(FALSE, r, n)
    BY <1>1, TestIs, Zenon
  <2> HIDE DEF r, v
  <2>1. CASE D[n] = Keep(gp, n)
    <3> DEFINE u == Raw(gp, n, a)
    <3>1. \A w : <<a, w>> \in Keep(gp, n) <=> w = u /\ w # Absent
      BY KeepIs
    <3>2. v = IF u = Absent THEN Absent ELSE ValueAs(FALSE, u, n)
      BY <2>0, TestIs, Zenon DEF v
    <3> HIDE DEF u
    <3>3. \A w : w # Absent => (r = w <=> w = u)
      BY <2>a, <2>1, <3>1
    <3>4. r = u
      BY <3>3
    <3>5. Test(A, n, a) = v
      BY <2>b, <3>2, <3>4
    <3> QED BY <3>5 DEF v
  <2>2. CASE pc = "expand" /\ D[n] = Read(gp, n)
    <3>1. \A u : <<a, u>> \in Read(gp, n) <=> u = v /\ u # Absent
      BY <2>0, <1>3, ReadIs, Zenon DEF v
    <3>6. \A u : u # Absent => (r = u <=> u = v)
      BY <2>a, <2>2, <3>1
    <3>2. r = v
      BY <3>6
    <3>3. v \in Value \cup {NoValue, Absent}
      BY <2>0, TestTypes DEF v
    <3>4. CASE v = Absent
      <4>1. Test(A, n, a) = Absent
        BY <2>b, <3>2, <3>4, Zenon
      <4> QED BY <4>1, <3>4 DEF v
    <3>5. CASE v # Absent
      <4>1. Test(A, n, a) = ValueAs(FALSE, v, n)
        BY <2>b, <3>2, <3>5, Zenon
      <4>2. v \in Value \cup {NoValue}
        BY <3>3, <3>5
      <4>3. /\ v = NoValue => ValueAs(FALSE, v, n) = NoValue
            /\ v # NoValue => ValueAs(FALSE, v, n) = Reading[v, n]
        BY <4>2, <2>0, ReadsAs
      <4>4. CASE v = NoValue
        <5>1. Test(A, n, a) = v
          BY <4>1, <4>3, <4>4
        <5> QED BY <5>1 DEF v
      <4>5. CASE v # NoValue
        <5>1. v \in Value /\ Test(A, n, a) = Reading[v, n]
          BY <4>1, <4>2, <4>3, <4>5
        <5> QED BY <5>1, <2>2 DEF v
      <4> QED BY <4>4, <4>5
    <3> QED BY <3>4, <3>5
  <2> QED BY <2>1, <2>2
<1>4. Again = A
  BY AgainIs DEF A
<1> QED BY <1>1, <1>2, <1>3, <1>4 DEF SameFile

\* The nodes of a range are what stands in it.
LEMMA HostsAre == \A s : s \in Seq(Node) => NodesIn(s) = ToSet(s)
BY DEF NodesIn, ToSet

\* ... and that what is printed reads back.
LEMMA BackWhenDone ==
  ASSUME IInv, SortKeepsHosts
  PROVE  OutputReadsBack
<1>0. Loaded(gp)
  BY DEF IInv, FilesFit
<1>1. ASSUME Did("expand")
      PROVE  SameFile /\ ListedOnce
  <2>1. pc = "expand" /\ ExpandAt(gp, todo, out, 0)
    BY <1>1 DEF IInv, LoopFits, At, Did
  <2>2. ExpandAt(gp, <<>>, out, 0)
    BY <2>1 DEF ExpandAt
  <2> DEFINE D == [n \in Node |-> Read(gp, n)]
  <2>3. /\ Describes(out, NodesOf(gp), D)
        /\ \A i, j \in 1 .. Len(out) : i # j =>
             ToSet(out[i].hl) \cap ToSet(out[j].hl) = {}
    BY <1>0, <2>2, ExpandDescribes
  <2>4. \A n \in NodesOf(gp) : D[n] = Read(gp, n)
    BY <1>0, NamesFinite
  <2> HIDE DEF D
  <2>5. SameFile
    BY <1>0, <2>1, <2>3, <2>4, SameWhenDescribed
  <2>6. out \in Seq([hl : Seq(Node), pairs : SUBSET Pair, comma : {FALSE}])
    BY <2>3 DEF Describes
  <2>7. ListedOnce
    <3>1. DOMAIN out = 1 .. Len(out)
      BY <2>6
    <3>2. pc # "compress"
      BY <2>1
    <3>3. \A i \in 1 .. Len(out) : NodesIn(out[i].hl) = ToSet(out[i].hl)
      <4> SUFFICES ASSUME NEW i \in 1 .. Len(out)
                   PROVE  out[i].hl \in Seq(Node)
        BY HostsAre
      <4> DEFINE R == [hl : Seq(Node), pairs : SUBSET Pair, comma : {FALSE}]
      <4>1. out \in Seq(R)
        BY <2>6
      <4> HIDE DEF R
      <4>2. out[i] \in R
        BY <4>1
      <4> QED BY <4>2 DEF R
    <3> QED BY <2>3, <3>1, <3>2, <3>3 DEF ListedOnce
  <2> QED BY <2>5, <2>7
<1>2. ASSUME Did("compress") \/ Did("compress_hosts")
      PROVE  SameFile /\ ListedOnce
  <2>1. pc \in {"compress", "compress_hosts"} /\ GatherAt(gp, pc, todo, hattr, out, 0)
    BY <1>2 DEF IInv, LoopFits, At, Did
  <2>2. todo = <<>>
    BY <2>1 DEF GatherAt
  <2>3. ToSet(todo) = {}
    BY <2>2, EmptyIs
  <2>4. out = RangeLines(FiledBy(KeysBy(gp, pc), NodesOf(gp)))
    <3>1. NodesOf(gp) \ {} = NodesOf(gp)
      OBVIOUS
    <3> QED BY <2>1, <2>3, <3>1 DEF GatherAt
  <2> DEFINE D == [n \in Node |-> Keep(gp, n)]
  <2>5. /\ Describes(out, NodesOf(gp), D)
        /\ pc # "compress_hosts" => PairsApart(out)
        /\ pc = "compress_hosts" => \A i, j \in 1 .. Len(out) : i # j =>
             ToSet(out[i].hl) \cap ToSet(out[j].hl) = {}
    <3>1. out = Compressed(gp, pc)
      BY <2>4 DEF Compressed
    <3>2. D = KeepOf(gp)
      BY DEF KeepOf
    <3> HIDE DEF D
    <3>3. Describes(out, NodesOf(gp), KeepOf(gp))
      BY <1>0, <3>1, CompressDescribes
    <3>4. pc # "compress_hosts" => PairsApart(out)
      BY <1>0, <3>1, CompressDescribes
    <3>5. pc = "compress_hosts" => \A i, j \in 1 .. Len(out) : i # j =>
            ToSet(out[i].hl) \cap ToSet(out[j].hl) = {}
      BY <1>0, <3>1, CompressDescribes
    <3> QED BY <3>2, <3>3, <3>4, <3>5
  <2>6. \A n \in NodesOf(gp) : D[n] = Keep(gp, n)
    BY <1>0, NamesFinite
  <2> HIDE DEF D
  <2>7. SameFile
    BY <1>0, <2>5, <2>6, SameWhenDescribed
  <2>8. out \in Seq([hl : Seq(Node), pairs : SUBSET Pair, comma : {FALSE}])
    BY <2>5 DEF Describes
  <2>9. ListedOnce
    <3>1. DOMAIN out = 1 .. Len(out)
      BY <2>8
    <3>2. \A i \in 1 .. Len(out) : NodesIn(out[i].hl) = ToSet(out[i].hl)
      <4> SUFFICES ASSUME NEW i \in 1 .. Len(out)
                   PROVE  out[i].hl \in Seq(Node)
        BY HostsAre
      <4> DEFINE R == [hl : Seq(Node), pairs : SUBSET Pair, comma : {FALSE}]
      <4>1. out \in Seq(R)
        BY <2>8
      <4> HIDE DEF R
      <4>2. out[i] \in R
        BY <4>1
      <4> QED BY <4>2 DEF R
    <3> QED BY <2>1, <2>5, <3>1, <3>2 DEF ListedOnce, PairsApart
  <2> QED BY <2>7, <2>9
<1> QED BY <1>1, <1>2 DEF OutputReadsBack

\* However many options are given: a command runs only with the options and
\* the arguments of its use, but for the two options the code forgets.
THEOREM OptionsAlwaysUsed == Spec => []OptionsAreUsed
<1>1. IInv => OptionsAreUsed
  BY UsedWhenRun
<1> QED BY <1>1, NodeattrInvariant, PTL

\* For every file and every number of nodes: --diff reports as many differences
\* as there are, and none exactly if the files say the same.
THEOREM DiffAlwaysCounts == Spec => []DiffCounts
<1>1. IInv => DiffCounts
  BY CountedWhenDone
<1> QED BY <1>1, NodeattrInvariant, PTL

\* For every file, also one with lines that name a node twice: if nodeattr
\* answers, the values, the attributes and the nodes that are listed are those the
\* file has; and where no line does so, it answers.  That a sort loses no host is
\* assumed of the list that is printed: that it may is the finding sort_frees.
THEOREM AnswersAlwaysRight ==
  ASSUME SortKeepsHosts
  PROVE  Spec => []AnswersAreRight
<1>1. IInv => AnswersAreRight
  BY RightWhenDone
<1> QED BY <1>1, NodeattrInvariant, PTL

\* For every file of whose nodes hostlist_sort() keeps all together, as it does
\* where their numbers are padded alike: what --expand, --compress and
\* --compress-hosts print is a genders file that says the same, and says it once.
\* Without the assumption a compression loses nodes (the finding sort_frees).
THEOREM OutputAlwaysReadsBack ==
  ASSUME SortKeepsHosts
  PROVE  Spec => []OutputReadsBack
<1>1. IInv => OutputReadsBack
  BY BackWhenDone
<1> QED BY <1>1, NodeattrInvariant, PTL

====
