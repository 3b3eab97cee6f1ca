---- MODULE HostlistProofs ----
(***************************************************************************)
(* HostsCounted, ComparingIsSafe and SortOrders, for lists of callers who  *)
(* heed what spoils a list (Careful).                                      *)
(*                                                                         *)
(* A list is whole if each range has a host and the number of hosts is     *)
(* that of the names; HostlistCalls shows that every call but sorting      *)
(* keeps it so.  Sorting splits ranges that overlap and joins what         *)
(* adjoins.  If ranges of one prefix are padded alike, all that a split    *)
(* leaves behind the place of the search is in order, and a range may      *)
(* always come before those behind it, whose numbers start where its do    *)
(* or later.  If no name is there twice, nothing overlaps.                 *)
(*                                                                         *)
(* Some calls remove or move what an iterator has met last, so that        *)
(* ListInv also says that it is there: hostlist_remove() of a host that is *)
(* not would miscount the list.                                            *)
(***************************************************************************)
EXTENDS HostlistCalls

(***************************************************************************)
(* Collapsing.                                                             *)
(***************************************************************************)

\* What two ranges become that adjoin.
BothIn(q, r) == [Combine(q, r).left EXCEPT !.hi = r.hi]

\* It has the hosts of both, starts as one and ends as the other.
LEMMA MergedIs ==
  ASSUME NEW q \in GoodRange, NEW r \in GoodRange, Adjoins(q, r),
         NEW e, e = BothIn(q, r)
  PROVE  /\ e \in GoodRange /\ Count(e) = Count(q) + Count(r)
         /\ e.prefix = q.prefix /\ e.single = q.single
         /\ e.lo = q.lo /\ e.hi = r.hi
<1>1. PICK c : c = Combine(q, r)
  OBVIOUS
<1>2. /\ c.left \in GoodRange /\ c.left.prefix = q.prefix
      /\ c.left.lo = q.lo /\ c.left.single = q.single
  BY <1>1, CombineKeeps
<1>3. q.single = r.single /\ q.hi = r.lo - 1
  BY DEF Adjoins, Alike
<1>4. /\ q.lo \in Nat /\ q.hi \in Nat /\ q.lo =< q.hi
      /\ r.lo \in Nat /\ r.hi \in Nat /\ r.lo =< r.hi
      /\ q.prefix \in Name /\ q.single \in BOOLEAN /\ c.left.width \in Nat
      /\ c.left \in HostRangeType
  BY <1>2, GoodIs DEF GoodRange
<1>5. ~ q.single
  <2>1. q.single => q.hi = 0 /\ r.lo = 0
    BY <1>3, GoodIs
  <2> QED BY <2>1, <1>3
<1>6. e = [prefix |-> q.prefix, lo |-> q.lo, hi |-> r.hi,
           width |-> c.left.width, single |-> q.single]
  BY <1>1, <1>2, <1>4, OtherHi DEF BothIn
<1>7. /\ e.prefix = q.prefix /\ e.single = q.single
      /\ e.lo = q.lo /\ e.hi = r.hi
  BY <1>6
<1>8. q.lo =< r.hi
  BY <1>3, <1>4
<1>9. e \in GoodRange
  BY <1>4, <1>5, <1>6, <1>8 DEF GoodRange, HostRangeType
<1>10. Count(e) = e.hi - e.lo + 1 /\ Count(q) = q.hi - q.lo + 1
        /\ Count(r) = r.hi - r.lo + 1
  BY <1>9, CountIs
<1>11. Count(e) = Count(q) + Count(r)
  BY <1>3, <1>4, <1>7, <1>10
<1> QED BY <1>7, <1>9, <1>11

\* A range in front of an array.
LEMMA ConsIs ==
  ASSUME NEW r \in GoodRange, NEW s \in Seq(GoodRange)
  PROVE  /\ Cons(r, s) \in Seq(GoodRange) /\ Len(Cons(r, s)) = Len(s) + 1
         /\ Cons(r, s)[1] = r
         /\ \A i \in 1 .. Len(s) : Cons(r, s)[i + 1] = s[i]
         /\ Total(Cons(r, s)) = Count(r) + Total(s)
<1>1. PICK o \in Seq(GoodRange) : o = One(r) /\ Len(o) = 1 /\ o[1] = r
                                  /\ Total(o) = Count(r)
  BY TotalOf
<1>2. Cons(r, s) = o \o s
  BY <1>1 DEF Cons, One
<1>3. PICK q : q = o \o s
  OBVIOUS
<1>4. PICK n \in Nat : n = Len(s)
  BY LenProperties
<1>5. q \in Seq(GoodRange) /\ Total(q) = Count(r) + Total(s)
  BY <1>1, <1>3, NamesCat
<1>6. Len(q) = 1 + n /\ \A i \in 1 .. 1 + n :
        q[i] = IF i <= 1 THEN o[i] ELSE s[i - 1]
  <2>1. Len(q) = Len(o) + Len(s) /\ \A i \in 1 .. Len(o) + Len(s) :
          q[i] = IF i <= Len(o) THEN o[i] ELSE s[i - Len(o)]
    BY <1>1, <1>3, ConcatProperties
  <2>2. Len(o) = 1
    BY <1>1
  <2> QED BY <2>1, <2>2, <1>4
<1>7. q[1] = r
  BY <1>1, <1>6
<1>8. ASSUME NEW i \in 1 .. n PROVE q[i + 1] = s[i]
  <2>1. i + 1 \in 1 .. 1 + n /\ ~ (i + 1 <= 1) /\ (i + 1) - 1 = i
    OBVIOUS
  <2> QED BY <2>1, <1>6
<1> QED BY <1>2, <1>3, <1>4, <1>5, <1>6, <1>7, <1>8

\* An array without its first range.
LEMMA HeadTail ==
  ASSUME NEW s \in Seq(GoodRange), s # <<>>
  PROVE  /\ Head(s) \in GoodRange /\ Head(s) = s[1]
         /\ Tail(s) \in Seq(GoodRange) /\ Len(s) \in Nat /\ Len(s) >= 1
         /\ Len(Tail(s)) = Len(s) - 1
         /\ \A i \in 1 .. Len(s) - 1 : Tail(s)[i] = s[i + 1]
         /\ Total(s) = Count(Head(s)) + Total(Tail(s))
         /\ s = Cons(Head(s), Tail(s))
<1>1. PICK n \in Nat : n = Len(s) /\ n >= 1
  BY LenProperties, EmptySeq
<1>2. Tail(s) \in Seq(GoodRange) /\ Len(Tail(s)) = n - 1
       /\ \A i \in 1 .. n - 1 : Tail(s)[i] = s[i + 1]
  BY <1>1, HeadTailProperties
<1>3. Head(s) = s[1] /\ s[1] \in GoodRange
  BY <1>1, ElementOfSeq
<1>4. PICK t, r : t = Tail(s) /\ r = Head(s)
  OBVIOUS
<1>5. t \in Seq(GoodRange) /\ r \in GoodRange
  BY <1>2, <1>3, <1>4
<1>6. s = Cons(r, t)
  <2>1. PICK q : q = Cons(r, t)
    OBVIOUS
  <2>2. q \in Seq(GoodRange) /\ Len(q) = (n - 1) + 1 /\ q[1] = r
         /\ \A i \in 1 .. n - 1 : q[i + 1] = t[i]
    <3>1. q \in Seq(GoodRange) /\ Len(q) = Len(t) + 1 /\ q[1] = r
           /\ \A i \in 1 .. Len(t) : q[i + 1] = t[i]
      BY <2>1, <1>5, ConsIs, ZenonT(60)
    <3>2. Len(t) = n - 1
      BY <1>2, <1>4
    <3> QED BY <3>1, <3>2
  <2>3. Len(q) = n
    BY <2>2, <1>1
  <2>4. ASSUME NEW i \in 1 .. n PROVE s[i] = q[i]
    <3>1. CASE i = 1
      BY <3>1, <2>2, <1>3, <1>4
    <3>2. CASE i # 1
      <4>1. PICK k \in 1 .. n - 1 : i = k + 1
        <5>1. i - 1 \in 1 .. n - 1 /\ i = (i - 1) + 1
          BY <3>2, <1>1
        <5> QED BY <5>1
      <4> QED BY <4>1, <2>2, <1>2, <1>4
    <3> QED BY <3>1, <3>2
  <2> QED BY <2>1, <2>2, <2>3, <2>4, <1>1, SeqEqual
<1>7. Total(s) = Count(r) + Total(t)
  BY <1>5, <1>6, ConsIs
<1> QED BY <1>1, <1>2, <1>3, <1>4, <1>6, <1>7

\* The order that sorting leaves: of prefix, and of numbers.
Below(r, s) == PrefixCmp(r, s) < 0 \/ (Alike(r, s) /\ r.hi <= s.lo)
InOrder(s) == \A i \in 1 .. Len(s) - 1 : Below(s[i], s[i + 1])

\* It looks at where the first ends and the second starts.
LEMMA BelowLike ==
  ASSUME NEW q, NEW r, NEW s, NEW t,
         q.prefix = r.prefix, q.single = r.single, q.hi = r.hi,
         s.prefix = t.prefix, s.single = t.single, s.lo = t.lo
  PROVE  Below(q, s) <=> Below(r, t)
BY DEF Below, PrefixCmp, Alike

\* What the ranges behind r have become when r goes in front of them.
CollapsedOn(rest, r) ==
  IF /\ rest # <<>>
     /\ Adjoins(r, Head(rest)) /\ Combines(r, Head(rest))
  THEN Cons([Combine(r, Head(rest)).left EXCEPT
               !.hi = Head(rest).hi], Tail(rest))
  ELSE Cons(r, rest)

\* c is that, and starts as r does.
CollapsedOnAs(c, rest, r) ==
  /\ c \in Seq(GoodRange) /\ Total(c) = Total(rest) + Count(r)
  /\ Len(c) >= 1
  /\ c[1].prefix = r.prefix /\ c[1].single = r.single /\ c[1].lo = r.lo
  /\ InOrder(rest) /\ (rest # <<>> => Below(r, rest[1])) => InOrder(c)

\* One step of hostlist_collapse() keeps hosts and order.
LEMMA CollapsedOnIs ==
  ASSUME NEW rest \in Seq(GoodRange), NEW r \in GoodRange
  PROVE  CollapsedOnAs(CollapsedOn(rest, r), rest, r)
<1>1. PICK c : c = CollapsedOn(rest, r)
  OBVIOUS
<1>2. Total(rest) \in Nat /\ Count(r) \in Nat
  BY NamesAre, CountIs
<1>3. PICK n \in Nat : n = Len(rest)
  BY LenProperties
<1>4. CASE rest # <<>> /\ Adjoins(r, Head(rest)) /\ Combines(r, Head(rest))
  <2>1. PICK q, t : q = Head(rest) /\ t = Tail(rest)
    OBVIOUS
  <2>2. /\ q \in GoodRange /\ q = rest[1] /\ t \in Seq(GoodRange)
        /\ n >= 1 /\ Len(t) = n - 1
        /\ \A i \in 1 .. n - 1 : t[i] = rest[i + 1]
        /\ Total(rest) = Count(q) + Total(t)
    BY <2>1, <1>3, <1>4, HeadTail
  <2>3. PICK e : e = BothIn(r, q)
    OBVIOUS
  <2>4. /\ e \in GoodRange /\ Count(e) = Count(r) + Count(q)
        /\ e.prefix = r.prefix /\ e.single = r.single
        /\ e.lo = r.lo /\ e.hi = q.hi
    <3>1. Adjoins(r, q)
      BY <1>4, <2>1
    <3> QED BY <3>1, <2>2, <2>3, MergedIs
  <2>5. c = Cons(e, t)
    BY <1>1, <1>4, <2>1, <2>3 DEF CollapsedOn, BothIn
  <2>6. /\ c \in Seq(GoodRange) /\ Len(c) = n
        /\ c[1] = e /\ \A i \in 1 .. n - 1 : c[i + 1] = t[i]
        /\ Total(c) = Count(e) + Total(t)
    <3>1. /\ c \in Seq(GoodRange) /\ Len(c) = Len(t) + 1
          /\ c[1] = e /\ \A i \in 1 .. Len(t) : c[i + 1] = t[i]
          /\ Total(c) = Count(e) + Total(t)
      BY <2>2, <2>4, <2>5, ConsIs
    <3> QED BY <3>1, <2>2
  <2>7. Count(q) \in Nat /\ Total(t) \in Nat /\ Count(e) \in Nat
    BY <2>2, <2>4, CountIs, NamesAre
  <2>8. Total(c) = Total(rest) + Count(r)
    BY <2>2, <2>4, <2>6, <2>7, <1>2
  <2>9. e.prefix = q.prefix /\ e.single = q.single
    BY <1>4, <2>1, <2>4 DEF Adjoins, Alike
  <2>10. ASSUME InOrder(rest) PROVE InOrder(c)
    <3>1. \A i \in 1 .. n - 1 : Below(rest[i], rest[i + 1])
      BY <2>10, <1>3 DEF InOrder
    <3>2. ASSUME NEW i \in 1 .. n - 1 PROVE Below(c[i], c[i + 1])
      <4>1. c[i + 1] = rest[i + 1] /\ Below(rest[i], rest[i + 1])
        BY <3>1, <2>2, <2>6
      <4>2. CASE i = 1
        <5>1. PICK x, y : x = c[i + 1] /\ y = rest[1] /\ Below(y, x)
          BY <4>1, <4>2
        <5>2. Below(e, x)
          BY <5>1, <2>2, <2>4, <2>9, BelowLike
        <5> QED BY <5>1, <5>2, <4>2, <2>6
      <4>3. CASE i # 1
        <5>1. i - 1 \in 1 .. n - 1 /\ (i - 1) + 1 = i
          BY <4>3
        <5>2. c[i] = t[i - 1] /\ t[i - 1] = rest[i]
          BY <5>1, <2>2, <2>6
        <5> QED BY <5>2, <4>1
      <4> QED BY <4>2, <4>3
    <3> QED BY <3>2, <2>6 DEF InOrder
  <2> QED BY <1>1, <2>2, <2>4, <2>6, <2>8, <2>10 DEF CollapsedOnAs
<1>5. CASE ~ (rest # <<>> /\ Adjoins(r, Head(rest))
              /\ Combines(r, Head(rest)))
  <2>1. c = Cons(r, rest)
    BY <1>1, <1>5 DEF CollapsedOn
  <2>2. /\ c \in Seq(GoodRange) /\ Len(c) = n + 1
        /\ c[1] = r /\ \A i \in 1 .. n : c[i + 1] = rest[i]
        /\ Total(c) = Count(r) + Total(rest)
    BY <2>1, <1>3, ConsIs, ZenonT(60)
  <2>3. ASSUME InOrder(rest), rest # <<>> => Below(r, rest[1])
        PROVE  InOrder(c)
    <3>1. \A i \in 1 .. n - 1 : Below(rest[i], rest[i + 1])
      BY <2>3, <1>3 DEF InOrder
    <3>2. ASSUME NEW i \in 1 .. n PROVE Below(c[i], c[i + 1])
      <4>1. CASE i = 1
        <5>1. rest # <<>>
          BY <1>3, EmptySeq
        <5> QED BY <5>1, <4>1, <2>2, <2>3
      <4>2. CASE i # 1
        <5>1. i - 1 \in 1 .. n - 1 /\ (i - 1) + 1 = i /\ i - 1 \in 1 .. n
          BY <4>2
        <5>2. Below(rest[i - 1], rest[i])
          BY <5>1, <3>1
        <5>3. c[i] = rest[i - 1] /\ c[i + 1] = rest[i]
          BY <5>1, <2>2
        <5> QED BY <5>2, <5>3
      <4> QED BY <4>1, <4>2
    <3> QED BY <3>2, <2>2 DEF InOrder
  <2>4. Total(c) = Total(rest) + Count(r) /\ Len(c) >= 1
    BY <2>2, <1>2
  <2> QED BY <1>1, <2>2, <2>3, <2>4 DEF CollapsedOnAs
<1> QED BY <1>4, <1>5

Collapsing == [x \in Seq(GoodRange) \X GoodRange |-> CollapsedOn(x[1], x[2])]

\* hostlist_collapse() is a run from the end to the front.
LEMMA CollapseRuns ==
  ASSUME NEW s \in Seq(GoodRange), NEW hr, s = Reverse(hr),
         NEW z, z = <<>>
  PROVE  RunsTo(Collapse(hr), z, Collapsing, s, Seq(GoodRange))
<1> DEFINE V == Seq(GoodRange)
           E == GoodRange
           D == Collapsing
           Is(f) == f = [S \in SUBSET DOMAIN s |->
                           IF S = {} THEN z
                           ELSE CollapsedOn(f[S \ {Max(S)}], s[Max(S)])]
           f == CHOOSE f : Is(f)
<1>1. Collapse(hr) = f[DOMAIN s]
  BY DEF Collapse, CollapsedOn, FoldLeft, MapThenFoldSet
<1>2. \A p \in V, r \in E : CollapsedOn(p, r) \in V
  BY CollapsedOnIs DEF CollapsedOnAs
<1>3. D \in [V \X E -> V]
  BY <1>2 DEF Collapsing
<1>4. \A p \in V, r \in E : D[<<p, r>>] = CollapsedOn(p, r)
  BY DEF Collapsing
<1>5. \A S \in SUBSET DOMAIN s : S # {} => s[Max(S)] \in E
  BY MaxOf
<1>6. z \in V /\ s \in Seq(E)
  BY EmptySeq
<1> HIDE DEF D, V, E
<1>7. Is(f)
  <2>1. PICK g \in [SUBSET DOMAIN s -> V] : Folded(g, z, D, s)
    BY <1>3, <1>6, FoldsSet
  <2>2. ASSUME NEW S \in SUBSET DOMAIN s
        PROVE  g[S] = IF S = {} THEN z
                      ELSE CollapsedOn(g[S \ {Max(S)}], s[Max(S)])
    <3>1. CASE S = {}
      BY <3>1, <2>1 DEF Folded
    <3>2. CASE S # {}
      <4>1. g[S] = D[<<g[S \ {Max(S)}], s[Max(S)]>>]
        BY <3>2, <2>1 DEF Folded
      <4>2. S \ {Max(S)} \in SUBSET DOMAIN s
        OBVIOUS
      <4>3. g[S \ {Max(S)}] \in V /\ s[Max(S)] \in E
        BY <4>2, <2>1, <1>5, <3>2
      <4> QED BY <4>1, <4>3, <1>4, <3>2
    <3> QED BY <3>1, <3>2
  <2>3. Is(g)
    BY <2>1, <2>2
  <2> HIDE DEF Is
  <2> QED BY <2>3
<1> HIDE DEF f
<1>8. FoldsTo(f, z, D, s, V)
  <2>1. f[{}] = z
    BY <1>7
  <2>2. ASSUME NEW S \in SUBSET DOMAIN s, S # {}, f[S \ {Max(S)}] \in V
        PROVE  f[S] = D[<<f[S \ {Max(S)}], s[Max(S)]>>]
    BY <2>2, <1>4, <1>5, <1>7, ZenonT(60)
  <2> QED BY <2>1, <2>2 DEF FoldsTo
<1>9. RunsTo(f[DOMAIN s], z, D, s, V)
  BY <1>3, <1>6, <1>8, FoldRuns
<1> QED BY <1>1, <1>9 DEF D, V

\* c is what collapsing s leaves.
CollapsedAs(c, s) ==
  /\ c \in Seq(GoodRange) /\ Total(c) = Total(s)
  /\ InOrder(s) => InOrder(c)

\* An array turned round.
LEMMA ReversedIs ==
  ASSUME NEW s \in Seq(GoodRange), NEW v, v = Reverse(s)
  PROVE  /\ v \in Seq(GoodRange) /\ Len(v) = Len(s)
         /\ \A k \in 1 .. Len(s) : v[k] = s[Len(s) - k + 1]
         /\ Total(v) = Total(s)
<1>1. PICK n \in Nat : n = Len(s) /\ s \in [1 .. n -> GoodRange]
  BY LenProperties
<1>2. v = [i \in 1 .. n |-> s[n - i + 1]]
  BY <1>1 DEF Reverse
<1>3. \A i \in 1 .. n : n - i + 1 \in 1 .. n /\ s[n - i + 1] \in GoodRange
  BY <1>1
<1>4. v \in Seq(GoodRange) /\ Len(v) = n
  BY <1>2, <1>3, IsASeq, LenProperties
<1>5. \A k \in 1 .. n : v[k] = s[n - k + 1]
  BY <1>2
<1>6. PICK p : p = [i \in 1 .. n |-> n - i + 1]
  OBVIOUS
<1>7. Moves(p, v, s)
  <2>1. \A i \in 1 .. n : p[i] \in 1 .. n /\ v[i] = s[p[i]]
    BY <1>3, <1>5, <1>6
  <2>2. ASSUME NEW i \in 1 .. n, NEW j \in 1 .. n, i # j
        PROVE  p[i] # p[j]
    BY <1>6, <2>2
  <2> QED BY <2>1, <2>2, <1>1, <1>4 DEF Moves
<1>8. Permuted(v, s)
  BY <1>1, <1>4, <1>7 DEF Permuted
<1>9. Total(v) = Total(s)
  BY <1>4, <1>8, PermutedTotal
<1> QED BY <1>1, <1>4, <1>5, <1>9

\* hostlist_collapse() keeps hosts and order.
LEMMA CollapseIs ==
  ASSUME NEW s \in Seq(GoodRange)
  PROVE  CollapsedAs(Collapse(s), s)
<1>1. PICK v, z : v = Reverse(s) /\ z = <<>>
  OBVIOUS
<1>2. PICK n \in Nat : n = Len(s)
  BY LenProperties
<1>3. /\ v \in Seq(GoodRange) /\ Len(v) = n
      /\ \A k \in 1 .. n : v[k] = s[n - k + 1]
      /\ Total(v) = Total(s)
  BY <1>1, <1>2, ReversedIs
<1>4. RunsTo(Collapse(s), z, Collapsing, v, Seq(GoodRange))
  BY <1>1, <1>3, CollapseRuns
<1>5. PICK h \in [0 .. n -> Seq(GoodRange)] :
        Runs(h, z, Collapsing, v) /\ h[n] = Collapse(s)
  <2>1. PICK h \in [0 .. Len(v) -> Seq(GoodRange)] :
          Runs(h, z, Collapsing, v) /\ h[Len(v)] = Collapse(s)
    BY <1>4 DEF RunsTo
  <2> QED BY <2>1, <1>3
<1>6. h[0] = z /\ \A k \in 1 .. n : h[k] = Collapsing[<<h[k - 1], v[k]>>]
  BY <1>3, <1>5 DEF Runs
<1>7. \A k \in 1 .. n : v[k] \in GoodRange
  BY <1>3, ElementOfSeq
<1>8. \A k \in 0 .. n : h[k] \in Seq(GoodRange)
  BY <1>5
<1>9. ASSUME NEW k \in 1 .. n PROVE CollapsedOnAs(h[k], h[k - 1], v[k])
  <2>1. k - 1 \in 0 .. n
    OBVIOUS
  <2>2. h[k - 1] \in Seq(GoodRange) /\ v[k] \in GoodRange
    BY <2>1, <1>7, <1>8
  <2>3. h[k] = CollapsedOn(h[k - 1], v[k])
    BY <2>2, <1>6 DEF Collapsing
  <2> QED BY <2>2, <2>3, CollapsedOnIs
<1> DEFINE u(k) == SubSeq(v, 1, k)
           Like(k) == k >= 1 => /\ Len(h[k]) >= 1
                                /\ h[k][1].prefix = v[k].prefix
                                /\ h[k][1].single = v[k].single
                                /\ h[k][1].lo = v[k].lo
           T == {k \in Nat : k =< n => /\ Total(h[k]) = Total(u(k))
                                       /\ Like(k)
                                       /\ InOrder(s) => InOrder(h[k])}
<1>10. Total(u(0)) = 0 /\ Total(u(n)) = Total(v)
  <2>1. SubSeq(v, 1, 0) = <<>>
    BY SubSeqEmpty
  <2>2. SubSeq(v, 1, Len(v)) = v
    BY <1>3, SubSeqFull
  <2> QED BY <2>1, <2>2, <1>3, NamesNone
<1>11. 0 \in T
  <2>1. Total(h[0]) = 0
    BY <1>1, <1>6, NamesNone
  <2>2. InOrder(h[0])
    <3>1. h[0] = <<>> /\ Len(<<>>) = 0
      BY <1>1, <1>6, EmptySeq
    <3> QED BY <3>1 DEF InOrder
  <2> HIDE DEF u
  <2> QED BY <2>1, <2>2, <1>10
<1>12. ASSUME NEW k \in Nat, k \in T PROVE k + 1 \in T
  <2> SUFFICES ASSUME k + 1 =< n
               PROVE  /\ Total(h[k + 1]) = Total(u(k + 1))
                      /\ Like(k + 1)
                      /\ InOrder(s) => InOrder(h[k + 1])
    OBVIOUS
  <2>1. PICK j \in 1 .. n : j = k + 1
    OBVIOUS
  <2>2. j - 1 = k /\ k =< n /\ k \in 0 .. n
    BY <2>1
  <2>3. Total(h[k]) = Total(u(k)) /\ Like(k) /\ (InOrder(s) => InOrder(h[k]))
    BY <2>2, <1>12
  <2>4. CollapsedOnAs(h[j], h[k], v[j])
    BY <2>2, <1>9
  <2>5. PICK a, b, r : a = h[k] /\ b = h[j] /\ r = v[j]
    OBVIOUS
  <2>6. CollapsedOnAs(b, a, r)
    BY <2>4, <2>5
  <2>7. /\ Total(u(j)) = Total(u(k)) + Count(r)
    BY <1>3, <2>1, <2>2, <2>5, UptoNext
  <2>8. Total(b) = Total(u(j))
    BY <2>3, <2>5, <2>6, <2>7 DEF CollapsedOnAs
  <2>9. Like(j)
    BY <2>5, <2>6 DEF CollapsedOnAs
  <2>10. ASSUME InOrder(s), a # <<>> PROVE Below(r, a[1])
    <3>1. k >= 1
      <4>1. k = 0 => a = <<>>
        BY <1>1, <1>6, <2>5
      <4> QED BY <4>1, <2>10
    <3>2. r = s[n - j + 1] /\ v[k] = s[n - k + 1]
      BY <1>3, <2>1, <2>2, <2>5, <3>1, SMTT(30)
    <3>3. n - j + 1 \in 1 .. n - 1 /\ (n - j + 1) + 1 = n - k + 1
      BY <2>1, <2>2, <3>1
    <3>4. Below(s[n - j + 1], s[(n - j + 1) + 1])
      BY <2>10, <3>3, <1>2 DEF InOrder
    <3>5. PICK x : x = v[k] /\ Below(r, x)
      BY <3>2, <3>3, <3>4
    <3>6. a[1].prefix = x.prefix /\ a[1].single = x.single /\ a[1].lo = x.lo
      BY <2>3, <2>5, <3>1, <3>5
    <3>7. PICK y : y = a[1]
      OBVIOUS
    <3>8. Below(r, y)
      BY <3>5, <3>6, <3>7, BelowLike
    <3> QED BY <3>7, <3>8
  <2>11. InOrder(s) => InOrder(b)
    BY <2>3, <2>5, <2>6, <2>10 DEF CollapsedOnAs
  <2> HIDE DEF u, Like
  <2> QED BY <2>1, <2>5, <2>8, <2>9, <2>11
<1> HIDE DEF T
<1>13. n \in T
  <2>1. \A k \in Nat : k \in T => k + 1 \in T
    BY <1>12
  <2> QED BY <2>1, <1>11, Induction
<1>14. Total(h[n]) = Total(s) /\ (InOrder(s) => InOrder(h[n]))
  <2>1. Total(h[n]) = Total(u(n)) /\ (InOrder(s) => InOrder(h[n]))
    BY <1>13 DEF T
  <2> HIDE DEF u
  <2> QED BY <2>1, <1>10, <1>3
<1>15. h[n] \in Seq(GoodRange)
  BY <1>8
<1> QED BY <1>5, <1>14, <1>15 DEF CollapsedAs

(***************************************************************************)
(* Splitting what overlaps.                                                *)
(***************************************************************************)

\* That is an order.
LEMMA BelowTrans ==
  ASSUME NEW r \in GoodRange, NEW s \in GoodRange, NEW t \in GoodRange,
         Below(r, s), Below(s, t)
  PROVE  Below(r, t)
<1>1. /\ r.hi \in Nat /\ s.lo \in Nat /\ s.hi \in Nat /\ t.lo \in Nat
      /\ s.lo <= s.hi
  BY GoodIs
<1>2. CASE Alike(r, s)
  <2>1. PrefixCmp(r, t) = PrefixCmp(s, t) /\ (Alike(s, t) => Alike(r, t))
    BY <1>2 DEF Alike, PrefixCmp
  <2>2. ~ (PrefixCmp(r, s) < 0)
    BY <1>2, PrefixCmpIs
  <2> QED BY <2>1, <2>2, <1>1 DEF Below
<1>3. CASE ~ Alike(r, s) /\ Alike(s, t)
  <2>1. PrefixCmp(r, t) = PrefixCmp(r, s)
    BY <1>3 DEF Alike, PrefixCmp
  <2> QED BY <2>1, <1>3 DEF Below
<1>4. CASE ~ Alike(r, s) /\ ~ Alike(s, t)
  <2>1. PrefixCmp(r, s) < 0 /\ PrefixCmp(s, t) < 0
    BY <1>4 DEF Below
  <2>2. PrefixCmp(r, t) <= 0 /\ PrefixCmp(r, t) \in Int
    BY <2>1, PrefixCmpIs, PrefixCmpOrders
  <2>3. PrefixCmp(r, t) # 0
    <3>1. SUFFICES ASSUME PrefixCmp(r, t) = 0 PROVE FALSE
      OBVIOUS
    <3>2. Alike(r, t)
      BY <3>1, PrefixCmpIs
    <3>3. PrefixCmp(s, r) = PrefixCmp(s, t)
      BY <3>2 DEF Alike, PrefixCmp
    <3>4. PrefixCmp(s, r) = - PrefixCmp(r, s) /\ PrefixCmp(r, s) \in Int
      BY PrefixCmpIs
    <3> QED BY <2>1, <3>3, <3>4
  <2> QED BY <2>2, <2>3 DEF Below
<1> QED BY <1>2, <1>3, <1>4

\* If each range is below the next, all are below those behind them.
LEMMA InOrderAll ==
  ASSUME NEW s \in Seq(GoodRange), InOrder(s),
         NEW i \in 1 .. Len(s), NEW j \in 1 .. Len(s), i < j
  PROVE  Below(s[i], s[j])
<1>1. PICK n \in Nat : n = Len(s)
  BY LenProperties
<1>2. \A k \in 1 .. n : s[k] \in GoodRange
  BY <1>1, ElementOfSeq
<1> DEFINE T == {k \in Nat : i + k + 1 <= n => Below(s[i], s[i + k + 1])}
<1>3. 0 \in T
  <2>1. ASSUME i + 1 <= n PROVE Below(s[i], s[i + 1])
    BY <2>1, <1>1 DEF InOrder
  <2> QED BY <2>1
<1>4. ASSUME NEW k \in Nat, k \in T PROVE k + 1 \in T
  <2> SUFFICES ASSUME i + (k + 1) + 1 <= n
               PROVE  Below(s[i], s[i + (k + 1) + 1])
    OBVIOUS
  <2>1. PICK m \in 1 .. n - 1 : m = i + k + 1
    BY <1>1
  <2>2. Below(s[i], s[m])
    BY <2>1, <1>4
  <2>3. Below(s[m], s[m + 1])
    BY <1>1 DEF InOrder
  <2>4. s[i] \in GoodRange /\ s[m] \in GoodRange /\ s[m + 1] \in GoodRange
    BY <1>1, <1>2
  <2>5. Below(s[i], s[m + 1])
    BY <2>2, <2>3, <2>4, BelowTrans
  <2>6. m + 1 = i + (k + 1) + 1
    BY <2>1
  <2> QED BY <2>5, <2>6
<1> HIDE DEF T
<1>5. j - i - 1 \in T
  <2>1. \A k \in Nat : k \in T => k + 1 \in T
    BY <1>4
  <2>2. \A k \in Nat : k \in T
    BY <2>1, <1>3, Induction
  <2> QED BY <2>2, <1>1
<1>6. i + (j - i - 1) + 1 = j
  BY <1>1
<1> QED BY <1>5, <1>6, <1>1 DEF T

\* r may come before s: its numbers start where those of s do or before, and
\* both are padded alike.
Fine(r, s) ==
  /\ PrefixCmp(r, s) < 0 \/ (Alike(r, s) /\ r.lo <= s.lo)
  /\ Alike(r, s) => Combines(r, s)
Settled(s) ==
  \A i, j \in 1 .. Len(s) : i < j => Fine(s[i], s[j])

\* Two settled arrays, one behind the other.
LEMMA SettledCat ==
  ASSUME NEW a \in Seq(GoodRange), NEW b \in Seq(GoodRange),
         Settled(a), Settled(b),
         \A i \in 1 .. Len(a), j \in 1 .. Len(b) : Fine(a[i], b[j]),
         NEW c, c = a \o b
  PROVE  /\ c \in Seq(GoodRange) /\ Settled(c)
         /\ Total(c) = Total(a) + Total(b)
<1>1. PICK m \in Nat, n \in Nat : m = Len(a) /\ n = Len(b)
  BY LenProperties
<1>2. /\ c \in Seq(GoodRange) /\ Len(c) = m + n
      /\ \A i \in 1 .. m : c[i] = a[i]
      /\ \A i \in 1 .. n : c[m + i] = b[i]
  <2>1. c \in Seq(GoodRange) /\ Len(c) = Len(a) + Len(b)
        /\ \A i \in 1 .. Len(a) + Len(b) :
              c[i] = IF i <= Len(a) THEN a[i] ELSE b[i - Len(a)]
    BY ConcatProperties
  <2>2. \A i \in 1 .. m + n : c[i] = IF i <= m THEN a[i] ELSE b[i - m]
    BY <2>1, <1>1
  <2>3. ASSUME NEW i \in 1 .. n PROVE c[m + i] = b[i]
    <3>1. m + i \in 1 .. m + n /\ ~ (m + i <= m) /\ (m + i) - m = i
      BY <1>1
    <3> QED BY <3>1, <2>2
  <2>4. ASSUME NEW i \in 1 .. m PROVE c[i] = a[i]
    <3>1. i \in 1 .. m + n /\ i <= m
      BY <1>1
    <3> QED BY <3>1, <2>2
  <2> QED BY <2>1, <2>3, <2>4, <1>1
<1>3. ASSUME NEW i \in 1 .. m + n, NEW j \in 1 .. m + n, i < j
      PROVE  Fine(c[i], c[j])
  <2>1. CASE j <= m
    <3>1. i \in 1 .. m /\ j \in 1 .. m
      BY <2>1, <1>3
    <3>2. Fine(a[i], a[j])
      BY <3>1, <1>1, <1>3 DEF Settled
    <3> QED BY <3>1, <3>2, <1>2
  <2>2. CASE i <= m /\ m < j
    <3>1. PICK k \in 1 .. n : j = m + k
      <4>1. j - m \in 1 .. n /\ j = m + (j - m)
        BY <2>2, <1>1
      <4> QED BY <4>1
    <3>2. i \in 1 .. m
      BY <2>2
    <3>3. Fine(a[i], b[k])
      BY <3>1, <3>2, <1>1
    <3> QED BY <3>1, <3>2, <3>3, <1>2
  <2>3. CASE m < i
    <3>1. PICK k \in 1 .. n, l \in 1 .. n : i = m + k /\ j = m + l
      <4>1. /\ j - m \in 1 .. n /\ j = m + (j - m)
            /\ i - m \in 1 .. n /\ i = m + (i - m)
        BY <2>3, <1>1, <1>3
      <4> QED BY <4>1
    <3>2. k < l
      BY <3>1, <1>1, <1>3
    <3>3. Fine(b[k], b[l])
      BY <3>2, <1>1 DEF Settled
    <3> QED BY <3>1, <3>3, <1>2
  <2> QED BY <2>1, <2>2, <2>3, <1>1
<1>4. Settled(c)
  BY <1>2, <1>3 DEF Settled
<1> QED BY <1>2, <1>4, NamesCat

\* What looking for overlaps never leaves, it does not leave in the end.
LEMMA LooksStay ==
  ASSUME NEW V, NEW hr, NEW freed, End(hr) \in V,
         \A x \in V : Look(x, freed) \in V
  PROVE  Coalesce(hr, freed) \in V
<1> DEFINE D == [y \in Nat \X V |-> Look(y[2], freed)]
           N == MaxLooks
           Is(f) == f = [k \in 0 .. MaxLooks |->
                           IF k = 0 THEN End(hr) ELSE Look(f[k - 1], freed)]
           f == CHOOSE f : Is(f)
<1>1. Coalesce(hr, freed) = f[MaxLooks]
  BY DEF Coalesce
<1>2. D \in [Nat \X V -> V]
  OBVIOUS
<1>3. \A n \in Nat, x \in V : D[<<n, x>>] = Look(x, freed)
  OBVIOUS
<1>4. N \in Nat
  BY ListAssumption
<1> HIDE DEF D
<1>5. PICK g \in [0 .. N -> V] : IteratedTo(g, End(hr), D, N)
  BY <1>2, <1>4, IteratesTo
<1>6. Is(g)
  <2>1. ASSUME NEW k \in 0 .. N
        PROVE  g[k] = IF k = 0 THEN End(hr) ELSE Look(g[k - 1], freed)
    <3>1. CASE k = 0
      BY <3>1, <1>5 DEF IteratedTo
    <3>2. CASE k # 0
      <4>1. k - 1 \in 0 .. N /\ k - 1 \in Nat
        BY <3>2, <1>4
      <4>2. g[k] = D[<<k - 1, g[k - 1]>>]
        BY <3>2, <1>5 DEF IteratedTo
      <4>3. g[k - 1] \in V
        BY <4>1, <1>5
      <4> QED BY <4>1, <4>2, <4>3, <1>3, <3>2
    <3> QED BY <3>1, <3>2
  <2> QED BY <2>1, <1>5
<1>7. Is(f)
  <2> HIDE DEF Is
  <2> QED BY <1>6
<1> HIDE DEF f
<1> DEFINE T == {k \in Nat : k <= N => f[k] \in V}
<1>8. 0 \in T
  BY <1>7, <1>4
<1>9. ASSUME NEW k \in Nat, k \in T PROVE k + 1 \in T
  <2> SUFFICES ASSUME k + 1 <= N PROVE f[k + 1] \in V
    OBVIOUS
  <2>1. f[k] \in V
    BY <1>4, <1>9
  <2>2. f[k + 1] = Look(f[k], freed)
    <3>1. k + 1 \in 0 .. N /\ k + 1 # 0 /\ (k + 1) - 1 = k
      BY <1>4
    <3> QED BY <3>1, <1>7
  <2> QED BY <2>1, <2>2
<1> HIDE DEF T, Is
<1>10. N \in T
  <2>1. \A k \in Nat : k \in T => k + 1 \in T
    BY <1>9
  <2> QED BY <2>1, <1>4, <1>8, Induction
<1> QED BY <1>1, <1>4, <1>10 DEF T

-----------------------------------------------------------------------------
(* What becomes of an overlap.                                             *)

\* Ranges of one prefix and width may come in the order of their numbers.
LEMMA FineAlike ==
  ASSUME NEW r \in GoodRange, NEW s \in GoodRange,
         r.prefix = s.prefix, r.single = s.single, r.width = s.width,
         r.lo <= s.lo
  PROVE  Fine(r, s)
<1>1. Alike(r, s)
  BY DEF Alike
<1>2. Combines(r, s)
  BY CmpIs DEF OneWidth
<1> QED BY <1>1, <1>2 DEF Fine

\* The ranges in q have prefix p and width w, and begin in order between lo
\* and n.
Steps(q, p, w, lo, n) ==
  /\ q \in Seq(GoodRange) /\ Settled(q)
  /\ \A i \in 1 .. Len(q) : /\ q[i].prefix = p /\ ~ q[i].single
                            /\ q[i].width = w
                            /\ lo <= q[i].lo /\ q[i].lo <= n

\* No range,
LEMMA StepsNone ==
  ASSUME NEW p, NEW w, NEW lo, NEW n, NEW q, q = <<>>
  PROVE  Steps(q, p, w, lo, n) /\ Total(q) = 0
<1>1. q \in Seq(GoodRange) /\ Len(q) = 0
  BY EmptySeq
<1> QED BY <1>1, NamesNone DEF Steps, Settled

\* one range,
LEMMA StepsOne ==
  ASSUME NEW r \in GoodRange, ~ r.single, NEW lo \in Nat, NEW n \in Nat,
         lo <= r.lo, r.lo <= n
  PROVE  Steps(One(r), r.prefix, r.width, lo, n)
<1>1. One(r) \in Seq(GoodRange) /\ Len(One(r)) = 1 /\ One(r)[1] = r
  BY TotalOf
<1> QED BY <1>1 DEF Steps, Settled

\* and some behind others.
LEMMA StepsCat ==
  ASSUME NEW p, NEW w, NEW lo \in Nat, NEW k \in Int, NEW l \in Nat,
         NEW n \in Nat, k <= l, lo <= l, k <= n,
         NEW a, NEW b, Steps(a, p, w, lo, k), Steps(b, p, w, l, n)
  PROVE  /\ Steps(a \o b, p, w, lo, n)
         /\ Total(a \o b) = Total(a) + Total(b)
<1>0. PICK c : c = a \o b
  OBVIOUS
<1>1. PICK i \in Nat, j \in Nat : i = Len(a) /\ j = Len(b)
  BY LenProperties DEF Steps
<1>2. /\ a \in Seq(GoodRange) /\ b \in Seq(GoodRange)
      /\ Settled(a) /\ Settled(b)
  BY DEF Steps
<1>3. \A x \in 1 .. i : /\ a[x] \in GoodRange
                        /\ a[x].prefix = p /\ ~ a[x].single
                        /\ a[x].width = w /\ a[x].single \in BOOLEAN
                        /\ lo <= a[x].lo /\ a[x].lo <= k /\ a[x].lo \in Nat
  BY <1>1, <1>2, ElementOfSeq, GoodIs DEF Steps
<1>4. \A y \in 1 .. j : /\ b[y] \in GoodRange
                        /\ b[y].prefix = p /\ ~ b[y].single
                        /\ b[y].width = w /\ b[y].single \in BOOLEAN
                        /\ l <= b[y].lo /\ b[y].lo <= n /\ b[y].lo \in Nat
  BY <1>1, <1>2, ElementOfSeq, GoodIs DEF Steps
<1>5. ASSUME NEW x \in 1 .. i, NEW y \in 1 .. j PROVE Fine(a[x], b[y])
  <2>1. PICK r, s : r = a[x] /\ s = b[y]
    OBVIOUS
  <2>2. /\ r \in GoodRange /\ s \in GoodRange
        /\ r.prefix = s.prefix /\ r.single = s.single /\ r.width = s.width
        /\ r.lo <= s.lo
    BY <2>1, <1>3, <1>4
  <2> QED BY <2>1, <2>2, FineAlike
<1>6. c \in Seq(GoodRange) /\ Settled(c) /\ Total(c) = Total(a) + Total(b)
  <2>1. \A x \in 1 .. Len(a), y \in 1 .. Len(b) : Fine(a[x], b[y])
    BY <1>1, <1>5
  <2> QED BY <2>1, <1>0, <1>2, SettledCat
<1>7. /\ Len(c) = i + j
      /\ \A x \in 1 .. i + j : c[x] = IF x <= i THEN a[x] ELSE b[x - i]
  <2>1. /\ Len(c) = Len(a) + Len(b)
        /\ \A x \in 1 .. Len(a) + Len(b) :
              c[x] = IF x <= Len(a) THEN a[x] ELSE b[x - Len(a)]
    BY <1>0, <1>2, ConcatProperties
  <2> QED BY <2>1, <1>1
<1>8. ASSUME NEW x \in 1 .. i + j
      PROVE  /\ c[x].prefix = p /\ ~ c[x].single /\ c[x].width = w
             /\ lo <= c[x].lo /\ c[x].lo <= n
  <2>1. CASE x <= i
    <3>1. x \in 1 .. i /\ c[x] = a[x]
      BY <2>1, <1>7
    <3> QED BY <3>1, <1>3
  <2>2. CASE ~ (x <= i)
    <3>1. x - i \in 1 .. j /\ c[x] = b[x - i]
      BY <2>2, <1>7
    <3> QED BY <3>1, <1>4
  <2> QED BY <2>1, <2>2
<1> QED BY <1>0, <1>6, <1>7, <1>8 DEF Steps

\* A range of a single number, and one or two of them.
Lone(p, n, w) == NewRange(p, n, n, w)
Once(i, j, n, p, w) == IF i > j THEN <<Lone(p, n, w)>> ELSE <<>>
Ones(i, j) == IF i > j THEN 1 ELSE 0
Doubled(n, p, w, lo, hi) == Once(n, lo, n, p, w) \o Once(hi, n, n, p, w)
InsideOf(p, w, lo, hi) ==
  [k \in 1 .. hi - lo + 1 |-> Doubled(lo + k - 1, p, w, lo, hi)]

\* How many hosts that are, up to k.
InsideUpto(k, lo, hi) ==
  IF k = 0 THEN 0 ELSE IF lo + k - 1 < hi THEN 2 * k - 1 ELSE 2 * k - 2

\* It has one host.
LEMMA LoneIs ==
  ASSUME NEW p \in Name, NEW w \in Nat, NEW n \in Nat,
         NEW e, e = Lone(p, n, w)
  PROVE  /\ e \in GoodRange /\ ~ e.single /\ Count(e) = 1
         /\ e.prefix = p /\ e.width = w /\ e.lo = n /\ e.hi = n
<1>1. e \in GoodRange
  BY NewRangeIs DEF Lone
<1>2. /\ e.prefix = p /\ e.width = w /\ e.lo = n /\ e.hi = n /\ ~ e.single
  BY DEF Lone, NewRange
<1> QED BY <1>1, <1>2, CountIs

\* Once, or not at all.
LEMMA OnceIs ==
  ASSUME NEW p \in Name, NEW w \in Nat, NEW n \in Nat, NEW i \in Int,
         NEW j \in Int, NEW q, q = Once(i, j, n, p, w)
  PROVE  Steps(q, p, w, n, n) /\ Total(q) = Ones(i, j)
<1>1. CASE i > j
  <2>1. PICK e : e = Lone(p, n, w)
    OBVIOUS
  <2>2. /\ e \in GoodRange /\ ~ e.single /\ Count(e) = 1
        /\ e.prefix = p /\ e.width = w /\ e.lo = n
    BY <2>1, LoneIs
  <2>3. q = One(e)
    BY <1>1, <2>1 DEF One, Once
  <2>4. Steps(One(e), e.prefix, e.width, n, n)
    BY <2>2, StepsOne
  <2>5. Total(One(e)) = 1
    BY <2>2, TotalOf
  <2> QED BY <1>1, <2>2, <2>3, <2>4, <2>5 DEF Ones
<1>2. CASE ~ (i > j)
  BY <1>2, StepsNone DEF Once, Ones
<1> QED BY <1>1, <1>2

\* A number inside an overlap is there twice, at its ends once.
LEMMA DoubledIs ==
  ASSUME NEW p \in Name, NEW w \in Nat, NEW lo \in Nat, NEW hi \in Nat,
         NEW n \in Nat, NEW q, q = Doubled(n, p, w, lo, hi)
  PROVE  /\ Steps(q, p, w, n, n)
         /\ Total(q) = Ones(n, lo) + Ones(hi, n)
<1>1. PICK a, b : a = Once(n, lo, n, p, w) /\ b = Once(hi, n, n, p, w)
  OBVIOUS
<1>2. q = a \o b
  BY <1>1 DEF Doubled
<1>3. Steps(a, p, w, n, n) /\ Total(a) = Ones(n, lo)
  BY <1>1, OnceIs
<1>4. Steps(b, p, w, n, n) /\ Total(b) = Ones(hi, n)
  BY <1>1, OnceIs
<1>5. Steps(q, p, w, n, n) /\ Total(q) = Total(a) + Total(b)
  <2>1. n \in Int /\ n <= n
    OBVIOUS
  <2>2. Steps(a \o b, p, w, n, n) /\ Total(a \o b) = Total(a) + Total(b)
    BY <2>1, <1>3, <1>4, StepsCat
  <2> QED BY <2>2, <1>2
<1> QED BY <1>3, <1>4, <1>5

\* The hosts inside an overlap, one by one.
LEMMA InsideIs ==
  ASSUME NEW p \in Name, NEW w \in Nat, NEW lo \in Nat, NEW hi \in Nat,
         lo <= hi, NEW q, q = FlattenSeq(InsideOf(p, w, lo, hi))
  PROVE  Steps(q, p, w, lo, hi) /\ Total(q) = 2 * (hi - lo)
<1>1. PICK n \in Nat : n = hi - lo + 1
  OBVIOUS
<1>2. PICK s : s = InsideOf(p, w, lo, hi)
  OBVIOUS
<1> DEFINE d(k) == Doubled(lo + k - 1, p, w, lo, hi)
<1>3. s = [k \in 1 .. n |-> d(k)]
  BY <1>1, <1>2 DEF InsideOf
<1>4. ASSUME NEW k \in 1 .. n
      PROVE  /\ Steps(d(k), p, w, lo + k - 1, lo + k - 1)
             /\ Total(d(k)) = Ones(lo + k - 1, lo) + Ones(hi, lo + k - 1)
  <2>1. PICK j \in Nat : j = lo + k - 1
    OBVIOUS
  <2>2. PICK e : e = Doubled(j, p, w, lo, hi)
    OBVIOUS
  <2>3. /\ Steps(e, p, w, j, j)
        /\ Total(e) = Ones(j, lo) + Ones(hi, j)
    BY <2>2, DoubledIs
  <2> QED BY <2>1, <2>2, <2>3
<1>5. \A k \in 1 .. n : d(k) \in Seq(GoodRange)
  BY <1>4 DEF Steps
<1> HIDE DEF d
<1>6. s \in Seq(Seq(GoodRange)) /\ Len(s) = n
  BY <1>3, <1>5, IsASeq, LenProperties
<1>7. \A k \in 1 .. n : s[k] = d(k)
  BY <1>3
<1> DEFINE u(k) == FlattenSeq(SubSeq(s, 1, k))
           T == {k \in Nat : k <= n => /\ Steps(u(k), p, w, lo, lo + k - 1)
                                       /\ Total(u(k)) = InsideUpto(k, lo, hi)}
<1>8. 0 \in T
  <2>1. SubSeq(s, 1, 0) = <<>>
    BY SubSeqEmpty
  <2>2. u(0) = <<>>
    BY <2>1, FlattenNone
  <2>3. Steps(u(0), p, w, lo, lo + 0 - 1) /\ Total(u(0)) = 0
    BY <2>2, StepsNone
  <2>4. InsideUpto(0, lo, hi) = 0
    BY DEF InsideUpto
  <2> HIDE DEF u
  <2> QED BY <2>3, <2>4
<1>9. ASSUME NEW k \in Nat, k \in T PROVE k + 1 \in T
  <2> SUFFICES ASSUME k + 1 <= n
               PROVE  /\ Steps(u(k + 1), p, w, lo, lo + (k + 1) - 1)
                      /\ Total(u(k + 1)) = InsideUpto(k + 1, lo, hi)
    OBVIOUS
  <2>1. PICK j \in 1 .. n : j = k + 1 /\ j - 1 = k
    OBVIOUS
  <2>2. k <= n
    OBVIOUS
  <2>3. /\ Steps(u(k), p, w, lo, lo + k - 1)
        /\ Total(u(k)) = InsideUpto(k, lo, hi)
    BY <2>2, <1>9
  <2>4. u(j) = u(k) \o d(j)
    <3>1. SubSeq(s, 1, j) = SubSeq(s, 1, k) \o <<s[j]>>
      BY <2>1, <1>6, SubSeqRecursiveSecond
    <3>2. PICK a, e : a = SubSeq(s, 1, k) /\ e = s[j]
      OBVIOUS
    <3>3. a \in Seq(Seq(GoodRange)) /\ e \in Seq(GoodRange)
      <4>1. \A i \in 1 .. k : s[i] \in Seq(GoodRange)
        BY <1>6, <2>2, ElementOfSeq
      <4>2. a \in Seq(Seq(GoodRange))
        BY <4>1, <3>2, <1>6, <2>1, SubSeqProperties
      <4> QED BY <4>2, <3>2, <1>6, ElementOfSeq
    <3>4. a \o <<e>> = Append(a, e)
      BY <3>3, AppendIsConcat
    <3>5. FlattenSeq(Append(a, e)) = FlattenSeq(a) \o e
      BY <3>3, FlattenOne
    <3> QED BY <3>1, <3>2, <3>4, <3>5, <1>7
  <2>5. PICK x : x = lo + k
    OBVIOUS
  <2>6. x \in Nat /\ x - 1 \in Int /\ x - 1 <= x /\ lo <= x
         /\ lo + j - 1 = x /\ lo + k - 1 = x - 1 /\ lo + (k + 1) - 1 = x
    BY <2>1, <2>5
  <2>7. /\ Steps(d(j), p, w, x, x)
        /\ Total(d(j)) = Ones(x, lo) + Ones(hi, x)
    BY <2>6, <1>4
  <2>8. PICK a, e : a = u(k) /\ e = d(j)
    OBVIOUS
  <2>9. Steps(a, p, w, lo, x - 1) /\ Steps(e, p, w, x, x)
    BY <2>3, <2>6, <2>7, <2>8
  <2>10. Steps(a \o e, p, w, lo, x) /\ Total(a \o e) = Total(a) + Total(e)
    BY <2>6, <2>9, StepsCat
  <2>11. InsideUpto(k, lo, hi) + (Ones(x, lo) + Ones(hi, x))
           = InsideUpto(j, lo, hi)
    BY <1>1, <2>1, <2>2, <2>5 DEF InsideUpto, Ones
  <2> HIDE DEF u
  <2> QED BY <2>1, <2>3, <2>4, <2>6, <2>7, <2>8, <2>10, <2>11
<1> HIDE DEF T
<1>10. n \in T
  <2>1. \A k \in Nat : k \in T => k + 1 \in T
    BY <1>9
  <2> QED BY <2>1, <1>8, Induction
<1>11. Steps(u(n), p, w, lo, lo + n - 1)
        /\ Total(u(n)) = InsideUpto(n, lo, hi)
  BY <1>10 DEF T
<1>12. u(n) = q
  BY <1>2, <1>6, SubSeqFull
<1>13. lo + n - 1 = hi /\ InsideUpto(n, lo, hi) = 2 * (hi - lo)
  BY <1>1 DEF InsideUpto
<1> HIDE DEF u
<1> QED BY <1>11, <1>12, <1>13

Bounded(r, lo, hi) == [r EXCEPT !.lo = lo, !.hi = hi]

\* A range with other bounds.
LEMMA BoundedIs ==
  ASSUME NEW r \in HostRangeType, NEW lo \in Nat, NEW hi
  PROVE  Bounded(r, lo, hi)
           = [prefix |-> r.prefix, lo |-> lo, hi |-> hi,
              width |-> r.width, single |-> r.single]
BY Bounds DEF Bounded

\* What a range and the next, which overlap, become: their hosts in order.
PartsAs(q, r, s, w) ==
  /\ w \in {r.width, s.width} /\ Fits(r.lo, r.width, w)
  /\ Steps(q, r.prefix, w, r.lo, Smaller(r.hi, s.hi))
  /\ Total(q) = Count(r) + Count(s)
Splits(r, s, freed) == Parts(Intersect(r, s)[1], Combine(r, s), freed)

\* hostlist_coalesce() splits two ranges that overlap that way.
LEMMA PartsIs ==
  ASSUME NEW r \in GoodRange, NEW s \in GoodRange, r.lo <= s.lo,
         Intersect(r, s) # <<>>, NEW freed
  PROVE  \E w \in Nat : PartsAs(Splits(r, s, freed), r, s, w)
<1>1. PICK c, m : c = Combine(r, s) /\ m = Smaller(r.hi, s.hi)
  OBVIOUS
<1>2. /\ ~ r.single /\ ~ s.single /\ Alike(r, s) /\ r.hi > s.lo /\ c.ok
      /\ Intersect(r, s) = <<[c.left EXCEPT !.lo = s.lo, !.hi = m]>>
  BY <1>1, CombineIs DEF Intersect
<1>3. PICK both : both = [c.left EXCEPT !.lo = s.lo, !.hi = m]
  OBVIOUS
<1>4. Splits(r, s, freed) = Parts(both, c, freed)
  BY <1>1, <1>2, <1>3 DEF Splits
<1>5. /\ c.left \in GoodRange /\ c.right \in GoodRange
      /\ c.left.prefix = r.prefix /\ c.left.lo = r.lo
      /\ c.left.hi = r.hi /\ c.left.single = r.single
      /\ c.right.prefix = s.prefix /\ c.right.lo = s.lo
      /\ c.right.hi = s.hi /\ c.right.single = s.single
  BY <1>1, CombineKeeps
<1>6. PICK w \in Nat : w = c.left.width /\ w = c.right.width
       /\ w \in {r.width, s.width} /\ Fits(r.lo, r.width, w)
  BY <1>1, <1>2, CombineIs DEF CombinedAs
<1>7. PICK p \in Name : p = r.prefix /\ p = s.prefix
  BY <1>2, GoodIs DEF Alike
<1>8. PICK rl \in Nat, rh \in Nat, sl \in Nat, sh \in Nat :
        /\ rl = r.lo /\ rh = r.hi /\ sl = s.lo /\ sh = s.hi
        /\ rl <= rh /\ sl <= sh /\ rl <= sl /\ rh > sl
  BY <1>2, GoodIs
<1>9. PICK big \in Nat : big = Larger(sh, rh)
  BY <1>8 DEF Larger
<1>10. m \in Nat /\ sl <= m /\ m <= big /\ m + big = rh + sh /\ rl <= m
  <2>1. m = Smaller(rh, sh)
    BY <1>1, <1>8
  <2> QED BY ONLY <2>1, <1>8, <1>9 DEF Smaller, Larger
<1>11. both = [prefix |-> p, lo |-> sl, hi |-> m, width |-> w,
               single |-> FALSE]
  <2>1. PICK x \in HostRangeType : x = c.left
    BY <1>5 DEF GoodRange
  <2>2. x.prefix = p /\ x.width = w /\ x.single = FALSE
    BY <2>1, <1>2, <1>5, <1>6, <1>7, GoodIs
  <2>3. both = Bounded(x, sl, m)
    BY <2>1, <1>3, <1>8 DEF Bounded
  <2>4. both = [prefix |-> x.prefix, lo |-> sl, hi |-> m,
                width |-> x.width, single |-> x.single]
    BY <2>1, <2>3, <1>8, BoundedIs
  <2> QED BY <2>2, <2>4
<1>12. PICK a, b : /\ a = [c.left EXCEPT !.hi = both.lo]
                   /\ b = [c.right EXCEPT !.lo = both.hi,
                                          !.hi = Larger(@, c.left.hi)]
  OBVIOUS
<1>13. /\ a = [prefix |-> p, lo |-> rl, hi |-> sl, width |-> w,
               single |-> FALSE]
       /\ b = [prefix |-> p, lo |-> m, hi |-> big, width |-> w,
               single |-> FALSE]
  <2>1. c.left \in HostRangeType /\ c.left.single = FALSE
         /\ c.right \in HostRangeType /\ c.right.single = FALSE
    BY <1>2, <1>5, GoodIs DEF GoodRange
  <2>2. a = [c.left EXCEPT !.hi = sl]
    BY <1>11, <1>12
  <2>3. a = [prefix |-> p, lo |-> rl, hi |-> sl, width |-> w,
             single |-> FALSE]
    BY <2>1, <2>2, <1>5, <1>6, <1>7, <1>8, OtherHi, ZenonT(60)
  <2>4. PICK x \in HostRangeType : x = c.right
    BY <1>5 DEF GoodRange
  <2>5. x.prefix = p /\ x.width = w /\ x.single = FALSE
    BY <2>1, <2>4, <1>5, <1>6, <1>7
  <2>6. b = Bounded(x, m, big)
    BY <2>4, <1>5, <1>8, <1>9, <1>11, <1>12 DEF Bounded
  <2>7. b = [prefix |-> x.prefix, lo |-> m, hi |-> big,
             width |-> x.width, single |-> x.single]
    BY <2>4, <2>6, <1>10, BoundedIs
  <2> QED BY <2>3, <2>5, <2>7
<1>14. /\ a \in GoodRange /\ b \in GoodRange /\ ~ IsEmpty(a)
       /\ Count(a) = sl - rl + 1 /\ Count(b) = big - m + 1
  <2>1. a \in GoodRange /\ b \in GoodRange
    BY ONLY <1>8, <1>10, <1>13 DEF GoodRange, HostRangeType
  <2> QED BY <2>1, <1>13, CountIs
<1>15. Parts(both, c, freed) = One(a) \o FlattenSeq(InsideOf(p, w, sl, m))
                                 \o One(b)
  <2> DEFINE one(n) == <<NewRange(both.prefix, n, n, both.width)>>
             b_lo == IF IsEmpty(a) THEN freed ELSE b.lo
             inside == [k \in 1 .. both.hi - both.lo + 1 |->
                          LET n == both.lo + k - 1
                          IN  (IF n > a.hi THEN one(n) ELSE <<>>)
                                \o (IF n < b_lo THEN one(n) ELSE <<>>)]
  <2>1. Parts(both, c, freed) = <<a>> \o FlattenSeq(inside)
                                  \o (IF IsEmpty(a) THEN <<>> ELSE <<b>>)
    BY <1>12 DEF Parts
  <2>2. inside = InsideOf(p, w, sl, m)
    <3>1. /\ both.hi = m /\ both.lo = sl /\ a.hi = sl /\ b_lo = m
          /\ both.prefix = p /\ both.width = w
      BY <1>11, <1>13, <1>14
    <3>2. ASSUME NEW k \in 1 .. m - sl + 1
          PROVE  (IF sl + k - 1 > a.hi THEN one(sl + k - 1) ELSE <<>>)
                   \o (IF sl + k - 1 < b_lo THEN one(sl + k - 1) ELSE <<>>)
                 = Doubled(sl + k - 1, p, w, sl, m)
      <4>1. PICK n \in Nat : n = sl + k - 1
        OBVIOUS
      <4>2. (IF n > a.hi THEN one(n) ELSE <<>>) = Once(n, sl, n, p, w)
        BY <3>1 DEF Once, Lone
      <4>3. (IF n < b_lo THEN one(n) ELSE <<>>) = Once(m, n, n, p, w)
        <5>1. n < b_lo <=> m > n
          BY <3>1, <1>10
        <5> QED BY <5>1, <3>1 DEF Once, Lone
      <4> HIDE DEF b_lo, one
      <4> QED BY <4>1, <4>2, <4>3 DEF Doubled
    <3> QED BY <3>1, <3>2 DEF InsideOf
  <2> HIDE DEF inside
  <2> QED BY <2>1, <2>2, <1>14 DEF One
<1>16. PICK i : i = FlattenSeq(InsideOf(p, w, sl, m))
  OBVIOUS
<1>17. Steps(i, p, w, sl, m) /\ Total(i) = 2 * (m - sl)
  BY <1>10, <1>16, InsideIs
<1>18. PICK oa, ob : oa = One(a) /\ ob = One(b)
  OBVIOUS
<1>19. /\ Steps(oa, p, w, rl, sl) /\ Total(oa) = Count(a)
       /\ Steps(ob, p, w, m, m) /\ Total(ob) = Count(b)
  <2>1. ~ a.single /\ a.lo = rl /\ a.prefix = p /\ a.width = w
         /\ ~ b.single /\ b.lo = m /\ b.prefix = p /\ b.width = w
    BY <1>13
  <2>2. Steps(One(a), a.prefix, a.width, rl, sl)
    BY <2>1, <1>8, <1>14, StepsOne
  <2>3. Steps(One(b), b.prefix, b.width, m, m)
    BY <2>1, <1>10, <1>14, StepsOne
  <2> QED BY <2>1, <2>2, <2>3, <1>14, <1>18, TotalOf
<1>20. Steps(oa \o i, p, w, rl, m) /\ Total(oa \o i) = Total(oa) + Total(i)
  <2>1. sl \in Int /\ sl <= sl /\ rl <= sl /\ sl <= m
    BY <1>8, <1>10
  <2>2. Steps(oa, p, w, rl, sl) /\ Steps(i, p, w, sl, m)
    BY <1>17, <1>19
  <2>3. rl \in Nat /\ sl \in Nat /\ m \in Nat
    BY <1>10
  <2> QED BY ONLY <2>1, <2>2, <2>3, StepsCat
<1>21. PICK f : f = oa \o i
  OBVIOUS
<1>22. Steps(f \o ob, p, w, rl, m) /\ Total(f \o ob) = Total(f) + Total(ob)
  <2>1. m \in Int /\ m <= m
    BY <1>10
  <2>2. Steps(f, p, w, rl, m)
    BY <1>20, <1>21
  <2> QED BY <2>1, <2>2, <1>8, <1>10, <1>19, StepsCat
<1>23. Splits(r, s, freed) = f \o ob
  BY <1>4, <1>15, <1>16, <1>18, <1>21
<1>24. Total(f \o ob) = Count(r) + Count(s)
  <2>1. Count(r) = rh - rl + 1 /\ Count(s) = sh - sl + 1
    BY <1>8, CountIs
  <2>2. PICK t : t = Total(f \o ob)
    OBVIOUS
  <2>3. t = Total(f) + Total(ob)
    BY <2>2, <1>22
  <2>4. Total(f) = (sl - rl + 1) + 2 * (m - sl) /\ Total(ob) = big - m + 1
    BY <1>14, <1>17, <1>19, <1>20, <1>21
  <2>5. t = (sl - rl + 1) + 2 * (m - sl) + (big - m + 1)
    BY <2>3, <2>4
  <2>6. (sl - rl + 1) + 2 * (m - sl) + (big - m + 1)
          = (rh - rl + 1) + (sh - sl + 1)
    BY ONLY <1>10, rl \in Nat, rh \in Nat, sl \in Nat, sh \in Nat,
            big \in Nat, m \in Nat
  <2> QED BY <2>1, <2>2, <2>5, <2>6
<1>25. PartsAs(Splits(r, s, freed), r, s, w)
  BY <1>1, <1>6, <1>7, <1>8, <1>22, <1>23, <1>24 DEF PartsAs
<1> QED BY <1>25

-----------------------------------------------------------------------------
(* Splitting goes on.                                                      *)

\* x is r from a later number on, with a width that r might have.
Later(x, r, w) ==
  /\ x \in GoodRange /\ x.prefix = r.prefix /\ x.single = r.single
  /\ x.width = w /\ r.lo <= x.lo
  /\ w \in Nat /\ Fits(r.lo, r.width, w)

\* It is padded like those that r is padded like,
LEMMA LaterCombines ==
  ASSUME NEW r \in GoodRange, NEW x, NEW w, Later(x, r, w),
         NEW t \in GoodRange, Combines(r, t) \/ Combines(t, r)
  PROVE  Combines(x, t) /\ Combines(t, x)
<1>1. /\ x \in GoodRange /\ x.width = w /\ r.lo <= x.lo
      /\ w \in Nat /\ Fits(r.lo, r.width, w)
  BY DEF Later
<1>2. PICK y : y = Wide(r, w)
  OBVIOUS
<1>3. y \in GoodRange /\ y.lo = r.lo /\ y.width = w
  BY <1>1, <1>2, WideIs
<1>4. Combines(y, t) \/ Combines(t, y)
  BY <1>1, <1>2, CmpKept
<1>5. PICK d \in Nat, e \in Nat, f \in Nat :
        d = DigitsOf(r.lo) /\ e = DigitsOf(t.lo) /\ f = DigitsOf(x.lo)
  BY <1>1, GoodIs, DigitsIs
<1>6. d <= f
  BY <1>1, <1>5, GoodIs, DigitsGrow
<1>7. w \in Nat /\ t.width \in Nat
  BY <1>1, GoodIs
<1>8. OneWidth(d, w, e, t.width) \/ OneWidth(e, t.width, d, w)
  BY <1>3, <1>4, <1>5, CmpIs
<1>9. OneWidth(f, w, e, t.width) /\ OneWidth(e, t.width, f, w)
  BY <1>5, <1>6, <1>7, <1>8 DEF OneWidth
<1> QED BY <1>1, <1>5, <1>9, CmpIs

\* may come behind what r may come behind,
LEMMA FineLater ==
  ASSUME NEW r \in GoodRange, NEW x, NEW w, Later(x, r, w),
         NEW t \in GoodRange, Fine(t, r)
  PROVE  Fine(t, x)
<1>1. /\ x \in GoodRange /\ x.prefix = r.prefix /\ x.single = r.single
      /\ r.lo <= x.lo
  BY DEF Later
<1>2. PrefixCmp(t, x) = PrefixCmp(t, r) /\ (Alike(t, x) <=> Alike(t, r))
  BY <1>1 DEF PrefixCmp, Alike
<1>3. t.lo \in Nat /\ r.lo \in Nat /\ x.lo \in Nat
  BY <1>1, GoodIs
<1>4. PrefixCmp(t, x) < 0 \/ (Alike(t, x) /\ t.lo <= x.lo)
  BY <1>1, <1>2, <1>3 DEF Fine
<1>5. Alike(t, x) => Combines(t, x)
  BY <1>2, LaterCombines DEF Fine
<1> QED BY <1>4, <1>5 DEF Fine

\* and before what r may come before, unless something else is between.
LEMMA LaterFine ==
  ASSUME NEW r \in GoodRange, NEW x, NEW w, Later(x, r, w),
         NEW q \in GoodRange, Alike(r, q), x.lo <= q.hi,
         NEW t \in GoodRange, Fine(r, t), Below(q, t)
  PROVE  Fine(x, t)
<1>1. /\ x \in GoodRange /\ x.prefix = r.prefix /\ x.single = r.single
  BY DEF Later
<1>2. /\ PrefixCmp(x, t) = PrefixCmp(q, t) /\ (Alike(x, t) <=> Alike(q, t))
      /\ (Alike(x, t) <=> Alike(r, t))
  BY <1>1 DEF PrefixCmp, Alike
<1>3. q.hi \in Nat /\ t.lo \in Nat /\ x.lo \in Nat
  BY <1>1, GoodIs
<1>4. PrefixCmp(x, t) < 0 \/ (Alike(x, t) /\ x.lo <= t.lo)
  BY <1>2, <1>3 DEF Below
<1>5. Alike(x, t) => Combines(x, t)
  BY <1>2, LaterCombines DEF Fine
<1> QED BY <1>4, <1>5 DEF Fine

\* Ranges that do not overlap are in order.
LEMMA FineBelow ==
  ASSUME NEW r \in GoodRange, NEW s \in GoodRange, Fine(r, s),
         Intersect(r, s) = <<>>
  PROVE  Below(r, s)
<1>1. CASE PrefixCmp(r, s) < 0
  BY <1>1 DEF Below
<1>2. CASE Alike(r, s) /\ r.lo <= s.lo
  <2>1. Combines(r, s)
    BY <1>2 DEF Fine
  <2>2. PICK e : e = [Combine(r, s).left EXCEPT !.lo = s.lo,
                                                !.hi = Smaller(r.hi, s.hi)]
    OBVIOUS
  <2>3. ~ r.single /\ ~ s.single /\ r.hi > s.lo => Intersect(r, s) = <<e>>
    BY <1>2, <2>1, <2>2 DEF Intersect
  <2>4. <<e>> # <<>>
    OBVIOUS
  <2>5. r.single \/ s.single \/ ~ (r.hi > s.lo)
    BY <2>3, <2>4
  <2>6. r.single = s.single
    BY <1>2 DEF Alike
  <2>7. r.single => r.hi = 0
    BY GoodIs
  <2>8. r.hi \in Nat /\ s.lo \in Nat
    BY GoodIs
  <2>9. r.hi <= s.lo
    BY <2>5, <2>6, <2>7, <2>8
  <2> QED BY <1>2, <2>9 DEF Below
<1> QED BY <1>1, <1>2 DEF Fine

\* What splitting ranges i - 1 and i of s leaves.
SplitAs(o, s) ==
  o \in Seq(GoodRange) /\ Settled(o) /\ Total(o) = Total(s) /\ Len(o) >= 1

\* It keeps the hosts, and an order in which the search can go on.
LEMMA OverlapIs ==
  ASSUME NEW s \in Seq(GoodRange), Settled(s), NEW i \in 2 .. Len(s),
         Intersect(s[i - 1], s[i]) # <<>>, NEW freed,
         \A j \in i + 1 .. Len(s) : Below(s[i], s[j])
  PROVE  SplitAs(Overlap(s, i, freed), s)
<1>1. PICK a, b : CutAround(s, i, a, b)
  BY DEF CutAround
<1>2. PICK r, q : r = s[i - 1] /\ q = s[i]
  OBVIOUS
<1>3. PICK n \in Nat : n = Len(s) /\ i \in 2 .. n
  BY LenProperties
<1>4. PICK k \in Nat, l \in Nat : k = i - 2 /\ l = n - i
  <2>1. i - 2 \in Nat /\ n - i \in Nat
    BY <1>3
  <2> QED BY <2>1
<1>5. /\ a \in Seq(GoodRange) /\ b \in Seq(GoodRange)
      /\ r \in GoodRange /\ q \in GoodRange
      /\ Len(a) = k /\ Len(b) = l
      /\ \A j \in 1 .. k : a[j] = s[j]
      /\ \A j \in 1 .. l : b[j] = s[i + j]
      /\ Total(s) = Total(a) + (Count(r) + Count(q)) + Total(b)
  <2>1. /\ a \in Seq(GoodRange) /\ b \in Seq(GoodRange)
        /\ s[i - 1] \in GoodRange /\ s[i] \in GoodRange
        /\ Len(a) = i - 2 /\ Len(b) = Len(s) - i
        /\ \A j \in 1 .. i - 2 : a[j] = s[j]
        /\ \A j \in 1 .. Len(s) - i : b[j] = s[i + j]
        /\ Total(s) = Total(a) + (Count(s[i - 1]) + Count(s[i])) + Total(b)
    BY <1>1, CutAroundIs
  <2> QED BY <2>1, <1>2, <1>3, <1>4
<1>6. \A j, m \in 1 .. n : j < m => Fine(s[j], s[m])
  BY <1>3 DEF Settled
<1>7. Fine(r, q)
  <2>1. i - 1 \in 1 .. n /\ i \in 1 .. n /\ i - 1 < i
    BY <1>3
  <2> QED BY <2>1, <1>2, <1>6
<1>8. Intersect(r, q) # <<>>
  BY <1>2
<1>9. Alike(r, q) /\ ~ r.single
  BY <1>8 DEF Intersect
<1>10. r.lo <= q.lo
  <2>1. ~ (PrefixCmp(r, q) < 0)
    BY <1>5, <1>9, PrefixCmpIs
  <2> QED BY <2>1, <1>7 DEF Fine
<1>11. PICK u : u = Splits(r, q, freed)
  OBVIOUS
<1>12. PICK w \in Nat : PartsAs(u, r, q, w)
  BY <1>5, <1>8, <1>10, <1>11, PartsIs
<1>13. PICK m : m = Smaller(r.hi, q.hi)
  OBVIOUS
<1>14. m \in Nat /\ m <= q.hi
  <2>1. r.hi \in Nat /\ q.hi \in Nat
    BY <1>5, GoodIs
  <2> QED BY <2>1, <1>13 DEF Smaller
<1>15. /\ u \in Seq(GoodRange) /\ Settled(u)
       /\ Total(u) = Count(r) + Count(q)
       /\ \A x \in 1 .. Len(u) : Later(u[x], r, w) /\ u[x].lo <= m
  <2>1. /\ Fits(r.lo, r.width, w) /\ Steps(u, r.prefix, w, r.lo, m)
        /\ Total(u) = Count(r) + Count(q)
    BY <1>12, <1>13 DEF PartsAs
  <2>2. u \in Seq(GoodRange) /\ Settled(u)
    BY <2>1 DEF Steps
  <2>3. \A x \in 1 .. Len(u) : u[x] \in GoodRange /\ u[x].single \in BOOLEAN
    BY <2>2, ElementOfSeq, GoodIs
  <2>4. r.single = FALSE
    BY <1>5, <1>9, GoodIs
  <2> QED BY <2>1, <2>2, <2>3, <2>4 DEF Steps, Later
<1>16. PICK v \in Nat : v = Len(u)
  BY <1>15, LenProperties
<1>17. ASSUME NEW j \in 1 .. k, NEW x \in 1 .. v PROVE Fine(a[j], u[x])
  <2>1. j \in 1 .. n /\ i - 1 \in 1 .. n /\ j < i - 1
    BY <1>3, <1>4
  <2>2. Fine(s[j], r) /\ s[j] \in GoodRange
    BY <2>1, <1>2, <1>3, <1>6, ElementOfSeq
  <2>3. Later(u[x], r, w)
    BY <1>15, <1>16
  <2>4. Fine(s[j], u[x])
    BY <2>2, <2>3, <1>5, FineLater
  <2> QED BY <2>4, <1>5
<1>18. ASSUME NEW x \in 1 .. v, NEW j \in 1 .. l PROVE Fine(u[x], b[j])
  <2>1. PICK y : y = i + j /\ y \in i + 1 .. n /\ y \in 1 .. n
                 /\ i - 1 \in 1 .. n /\ i - 1 < y
    BY <1>3, <1>4
  <2>2. PICK t : t = s[y]
    OBVIOUS
  <2>3. Fine(r, t) /\ Below(q, t) /\ t \in GoodRange
    BY <2>1, <2>2, <1>2, <1>3, <1>6, ElementOfSeq
  <2>4. Later(u[x], r, w) /\ u[x].lo <= m
    BY <1>15, <1>16
  <2>5. u[x].lo <= q.hi
    <3>1. u[x] \in GoodRange /\ q.hi \in Nat
      BY <2>4, <1>5, GoodIs DEF Later
    <3>2. u[x].lo \in Nat
      BY <3>1, GoodIs
    <3> QED BY <3>1, <3>2, <2>4, <1>14
  <2>6. Fine(u[x], t)
    BY <2>3, <2>4, <2>5, <1>5, <1>9, LaterFine
  <2> QED BY <2>1, <2>2, <2>6, <1>5
<1>19. ASSUME NEW j \in 1 .. k, NEW x \in 1 .. l PROVE Fine(a[j], b[x])
  <2>1. PICK y : y = i + x /\ y \in 1 .. n /\ j \in 1 .. n /\ j < y
    BY <1>3, <1>4
  <2>2. Fine(s[j], s[y])
    BY <2>1, <1>6
  <2> QED BY <2>1, <2>2, <1>5
<1>20. Settled(a)
  <2>1. \A j, x \in 1 .. k : j < x => Fine(a[j], a[x])
    <3>1. \A j \in 1 .. k : j \in 1 .. n
      BY <1>3, <1>4
    <3> QED BY <3>1, <1>5, <1>6
  <2> QED BY <2>1, <1>5 DEF Settled
<1>21. Settled(b)
  <2>1. ASSUME NEW j \in 1 .. l, NEW x \in 1 .. l, j < x
        PROVE  Fine(b[j], b[x])
    <3>1. PICK y, z : /\ y = i + j /\ z = i + x /\ y < z
                      /\ y \in 1 .. n /\ z \in 1 .. n
      BY <1>3, <1>4, <2>1
    <3>2. Fine(s[y], s[z])
      BY <3>1, <1>6
    <3> QED BY <3>1, <3>2, <1>5
  <2> QED BY <2>1, <1>5 DEF Settled
<1>22. PICK c : c = a \o u
  OBVIOUS
<1>23. c \in Seq(GoodRange) /\ Settled(c) /\ Total(c) = Total(a) + Total(u)
  <2>1. \A j \in 1 .. Len(a), x \in 1 .. Len(u) : Fine(a[j], u[x])
    BY <1>5, <1>16, <1>17
  <2> QED BY <2>1, <1>5, <1>15, <1>20, <1>22, SettledCat
<1>24. /\ Len(c) = k + v
       /\ \A x \in 1 .. k + v : c[x] = IF x <= k THEN a[x] ELSE u[x - k]
  <2>1. /\ Len(c) = Len(a) + Len(u)
        /\ \A x \in 1 .. Len(a) + Len(u) :
              c[x] = IF x <= Len(a) THEN a[x] ELSE u[x - Len(a)]
    BY <1>5, <1>15, <1>22, ConcatProperties
  <2> QED BY <2>1, <1>5, <1>16
<1>25. ASSUME NEW x \in 1 .. k + v, NEW j \in 1 .. l PROVE Fine(c[x], b[j])
  <2>1. CASE x <= k
    <3>1. x \in 1 .. k /\ c[x] = a[x]
      BY <2>1, <1>24
    <3> QED BY <3>1, <1>19
  <2>2. CASE ~ (x <= k)
    <3>1. x - k \in 1 .. v /\ c[x] = u[x - k]
      BY <2>2, <1>24
    <3> QED BY <3>1, <1>18
  <2> QED BY <2>1, <2>2
<1>26. PICK o : o = c \o b
  OBVIOUS
<1>27. o \in Seq(GoodRange) /\ Settled(o) /\ Total(o) = Total(c) + Total(b)
  <2>1. \A x \in 1 .. Len(c), j \in 1 .. Len(b) : Fine(c[x], b[j])
    BY <1>5, <1>24, <1>25
  <2> QED BY <2>1, <1>5, <1>21, <1>23, <1>26, SettledCat
<1>28. Total(o) = Total(s)
  <2>1. Total(a) \in Nat /\ Total(b) \in Nat /\ Count(r) \in Nat
         /\ Count(q) \in Nat
    BY <1>5, NamesAre, CountIs
  <2> QED BY <2>1, <1>5, <1>15, <1>23, <1>27
<1>29. Len(o) >= 1
  <2>1. Total(o) >= 1
    <3>1. Total(a) \in Nat /\ Total(b) \in Nat /\ Count(r) \in Nat
           /\ Count(q) \in Nat /\ Count(r) >= 1
      BY <1>5, NamesAre, CountIs
    <3> QED BY <3>1, <1>5, <1>28
  <2>2. o # <<>>
    BY <2>1, NamesNone
  <2> QED BY <2>2, <1>27, EmptySeq, LenProperties
<1>30. Overlap(s, i, freed) = o
  <2>1. Overlap(s, i, freed) = SubSeq(s, 1, i - 2) \o Splits(r, q, freed)
                                 \o SubSeq(s, i + 1, Len(s))
    BY <1>2 DEF Overlap, Splits
  <2> QED BY <2>1, <1>1, <1>11, <1>22, <1>26 DEF CutAround
<1> QED BY <1>27, <1>28, <1>29, <1>30 DEF SplitAs

\* What a search for overlaps has left: behind the range that it has come to,
\* nothing overlaps.
Searched(x, t) ==
  /\ x.at \in Nat /\ x.hr \in Seq(GoodRange)
  /\ 1 <= x.at /\ x.at <= Len(x.hr)
  /\ Total(x.hr) = t
  /\ Settled(x.hr)
  /\ \A i, j \in x.at .. Len(x.hr) : i < j => Below(x.hr[i], x.hr[j])

SearchType == [at : Nat, hr : Seq(GoodRange)]

\* A search starts at the end,
LEMMA EndIs ==
  ASSUME NEW s \in Seq(GoodRange), Settled(s), Len(s) >= 1,
         NEW x, x = End(s)
  PROVE  x \in SearchType /\ Searched(x, Total(s))
<1>1. x = [at |-> Len(s), hr |-> s]
  BY DEF End
<1>2. Len(s) \in Nat
  BY LenProperties
<1>3. x.at = Len(s) /\ x.hr = s
  BY <1>1
<1>4. \A i, j \in Len(s) .. Len(s) : ~ (i < j)
  BY <1>2
<1> QED BY <1>1, <1>2, <1>3, <1>4 DEF Searched, SearchType

\* and each look leaves it right.
LEMMA LookIs ==
  ASSUME NEW x \in SearchType, NEW t, Searched(x, t), NEW freed
  PROVE  Look(x, freed) \in SearchType /\ Searched(Look(x, freed), t)
<1>1. PICK i, s : i = x.at /\ s = x.hr
  OBVIOUS
<1>2. PICK n \in Nat : n = Len(s)
  BY <1>1, LenProperties DEF Searched
<1>3. /\ i \in 1 .. n /\ s \in Seq(GoodRange) /\ Total(s) = t /\ Settled(s)
      /\ \A j, k \in i .. n : j < k => Below(s[j], s[k])
  BY <1>1, <1>2 DEF Searched
<1>4. \A j \in 1 .. n : s[j] \in GoodRange
  BY <1>2, <1>3, ElementOfSeq
<1>5. CASE i <= 1
  <2>1. Look(x, freed) = x
    BY <1>1, <1>5 DEF Look
  <2> QED BY <2>1
<1>6. CASE ~ (i <= 1) /\ Intersect(s[i - 1], s[i]) = <<>>
  <2>1. PICK y : y = [x EXCEPT !.at = @ - 1]
    OBVIOUS
  <2>2. Look(x, freed) = y
    BY <1>1, <1>6, <2>1 DEF Look
  <2>3. y \in SearchType /\ y.at = i - 1 /\ y.hr = s
    BY <2>1, <1>1, <1>3, <1>6 DEF SearchType
  <2>4. /\ i - 1 \in 1 .. n /\ i - 1 < i /\ s[i - 1] \in GoodRange
        /\ s[i] \in GoodRange
    BY <1>3, <1>4, <1>6
  <2>5. Below(s[i - 1], s[i])
    <3>1. Fine(s[i - 1], s[i])
      BY <2>4, <1>2, <1>3 DEF Settled
    <3> QED BY <3>1, <2>4, <1>6, FineBelow
  <2>6. ASSUME NEW j \in i - 1 .. n, NEW k \in i - 1 .. n, j < k
        PROVE  Below(s[j], s[k])
    <3>1. CASE i <= j
      <4>1. j \in i .. n /\ k \in i .. n
        BY <3>1, <2>6, <1>3
      <4> QED BY <4>1, <2>6, <1>3
    <3>2. CASE ~ (i <= j) /\ k = i
      <4>1. j = i - 1
        BY <3>2, <1>3
      <4> QED BY <4>1, <3>2, <2>5
    <3>3. CASE ~ (i <= j) /\ k # i
      <4>1. j = i - 1 /\ i \in i .. n /\ k \in i .. n /\ i < k
             /\ k \in 1 .. n
        BY <3>3, <2>6, <1>3
      <4>2. Below(s[i], s[k])
        BY <4>1, <1>3
      <4> QED BY <4>1, <4>2, <2>4, <2>5, <1>4, BelowTrans
    <3> QED BY <3>1, <3>2, <3>3
  <2>7. Searched(y, t)
    <3>1. 1 <= i - 1 /\ i - 1 <= n /\ i - 1 \in Nat
      BY <2>4, <1>2
    <3> QED BY <3>1, <2>3, <2>6, <1>2, <1>3 DEF Searched
  <2> QED BY <2>2, <2>3, <2>7
<1>7. CASE ~ (i <= 1) /\ Intersect(s[i - 1], s[i]) # <<>>
  <2>1. PICK o : o = Overlap(s, i, freed)
    OBVIOUS
  <2>2. Look(x, freed) = End(o)
    BY <1>1, <1>7, <2>1 DEF Look
  <2>3. i \in 2 .. Len(s)
    BY <1>2, <1>3, <1>7
  <2>4. \A j \in i + 1 .. Len(s) : Below(s[i], s[j])
    <3>1. ASSUME NEW j \in i + 1 .. n PROVE Below(s[i], s[j])
      <4>1. i \in i .. n /\ j \in i .. n /\ i < j
        BY <1>3
      <4> QED BY <4>1, <1>3
    <3> QED BY <3>1, <1>2
  <2>5. SplitAs(o, s)
    BY <2>1, <2>3, <2>4, <1>3, <1>7, OverlapIs
  <2>6. o \in Seq(GoodRange) /\ Settled(o) /\ Total(o) = t /\ Len(o) >= 1
    BY <2>5, <1>3 DEF SplitAs
  <2>7. PICK y : y = End(o)
    OBVIOUS
  <2>8. y \in SearchType /\ Searched(y, Total(o))
    BY <2>6, <2>7, EndIs
  <2> QED BY <2>2, <2>6, <2>7, <2>8
<1> QED BY <1>5, <1>6, <1>7

\* What sorting leaves of an array that is padded alike.
SortedOut(x, s) ==
  /\ x.hr \in Seq(GoodRange) /\ Total(x.hr) = Total(s)
  /\ x.at <= 1 => InOrder(x.hr)

\* qsort() leaves such an array settled.
LEMMA PaddedSettled ==
  ASSUME NEW t \in Seq(GoodRange), PaddedAlike(t), NEW s, SortedAs(s, t)
  PROVE  Settled(s)
<1>1. PICK n \in Nat : n = Len(s) /\ n = Len(t)
  BY LenProperties DEF SortedAs, Permuted
<1>2. PICK p : Moves(p, s, t)
  BY DEF SortedAs, Permuted
<1>3. /\ \A i \in 1 .. n : p[i] \in 1 .. n /\ s[i] = t[p[i]]
      /\ \A i, j \in 1 .. n : i < j => Cmp(s[i], s[j]) <= 0
  BY <1>1, <1>2 DEF Moves, SortedAs
<1>4. ASSUME NEW i \in 1 .. n, NEW j \in 1 .. n, i < j
      PROVE  Fine(s[i], s[j])
  <2>1. PICK r, q : r = s[i] /\ q = s[j]
    OBVIOUS
  <2>2. r \in ToSet(t) /\ q \in ToSet(t) /\ r \in GoodRange /\ q \in GoodRange
    <3>1. \A k \in 1 .. n : t[k] \in GoodRange /\ t[k] \in ToSet(t)
      BY <1>1, ElementOfSeq DEF ToSet
    <3> QED BY <3>1, <2>1, <1>3
  <2>3. Alike(r, q) => Combines(r, q)
    BY <2>2 DEF PaddedAlike
  <2>4. Cmp(r, q) <= 0
    BY <2>1, <1>3, <1>4
  <2>5. \/ PrefixCmp(r, q) < 0
        \/ /\ Alike(r, q)
           /\ NumberLess(r.lo, DigitsOf(r.lo), r.width,
                         q.lo, DigitsOf(q.lo), q.width)
    BY <2>2, <2>4, CmpIs
  <2>6. Combines(r, q) => OneWidth(DigitsOf(r.lo), r.width,
                                   DigitsOf(q.lo), q.width)
    BY <2>2, CmpIs
  <2>7. PrefixCmp(r, q) < 0 \/ (Alike(r, q) /\ r.lo <= q.lo)
    BY <2>3, <2>5, <2>6 DEF NumberLess
  <2> QED BY <2>1, <2>3, <2>7 DEF Fine
<1> QED BY <1>1, <1>4 DEF Settled

\* hostlist_coalesce() leaves it without overlaps and with all hosts.
LEMMA CoalescePadded ==
  ASSUME NEW t \in Seq(GoodRange), PaddedAlike(t), Len(t) >= 1,
         NEW s, SortedAs(s, t), NEW freed
  PROVE  SortedOut(Coalesce(s, freed), t)
<1>1. s \in Seq(GoodRange) /\ Settled(s) /\ Total(s) = Total(t)
       /\ Len(s) >= 1
  BY PaddedSettled DEF SortedAs, Permuted
<1> DEFINE V == {x \in SearchType : Searched(x, Total(t))}
<1>2. End(s) \in V
  <2>1. PICK x : x = End(s)
    OBVIOUS
  <2>2. x \in SearchType /\ Searched(x, Total(s))
    BY <1>1, <2>1, EndIs
  <2> QED BY <2>1, <2>2, <1>1
<1>3. \A x \in V : Look(x, freed) \in V
  BY LookIs
<1> HIDE DEF V
<1>4. Coalesce(s, freed) \in V
  BY <1>2, <1>3, LooksStay
<1>5. PICK x \in SearchType : x = Coalesce(s, freed) /\ Searched(x, Total(t))
  BY <1>4 DEF V
<1>6. x.hr \in Seq(GoodRange) /\ Total(x.hr) = Total(t)
  BY <1>5 DEF Searched
<1>7. ASSUME x.at <= 1 PROVE InOrder(x.hr)
  <2>1. PICK n \in Nat : n = Len(x.hr)
    BY <1>6, LenProperties
  <2>2. x.at = 1
    BY <1>5, <1>7 DEF Searched
  <2>3. \A i, j \in 1 .. n : i < j => Below(x.hr[i], x.hr[j])
    BY <2>1, <2>2, <1>5 DEF Searched
  <2>4. ASSUME NEW i \in 1 .. n - 1 PROVE Below(x.hr[i], x.hr[i + 1])
    <3>1. i \in 1 .. n /\ i + 1 \in 1 .. n /\ i < i + 1
      BY <2>1
    <3> QED BY <3>1, <2>3
  <2> QED BY <2>1, <2>4 DEF InOrder
<1> QED BY <1>5, <1>6, <1>7 DEF SortedOut

(***************************************************************************)
(* Names that are in an array once.                                        *)
(***************************************************************************)

\* Where the elements of a part are in the whole.
LEMMA MiddleIs ==
  ASSUME NEW E, NEW x \in Seq(E), NEW y \in Seq(E), NEW z \in Seq(E),
         NEW s, InThree(s, x, y, z)
  PROVE  /\ s \in Seq(E) /\ Len(x) + Len(y) <= Len(s)
         /\ \A k \in 1 .. Len(x) : s[k] = x[k]
         /\ \A k \in 1 .. Len(y) : s[Len(x) + k] = y[k]
<1>1. PICK v : v = x \o y /\ s = v \o z
  BY DEF InThree
<1>2. v \in Seq(E) /\ Len(v) = Len(x) + Len(y)
       /\ \A i \in 1 .. Len(x) + Len(y) :
            v[i] = IF i <= Len(x) THEN x[i] ELSE y[i - Len(x)]
  BY <1>1, ConcatProperties
<1>3. PICK l \in Nat, m \in Nat, n \in Nat :
        l = Len(z) /\ m = Len(x) /\ n = Len(y)
  BY LenProperties
<1>4. s \in Seq(E) /\ Len(s) = Len(v) + Len(z)
       /\ \A i \in 1 .. Len(v) + Len(z) :
            s[i] = IF i <= Len(v) THEN v[i] ELSE z[i - Len(v)]
  BY <1>1, <1>2, ConcatProperties
<1>5. Len(v) = m + n /\ Len(s) = m + n + l
  BY <1>2, <1>3, <1>4
<1>6. ASSUME NEW k \in 1 .. m PROVE s[k] = x[k]
  <2>1. k \in 1 .. m + n + l /\ k <= m + n /\ k \in 1 .. m + n /\ k <= m
    BY <1>3
  <2>2. s[k] = v[k]
    BY <2>1, <1>3, <1>4, <1>5
  <2>3. v[k] = x[k]
    BY <2>1, <1>2, <1>3
  <2> QED BY <2>2, <2>3
<1>7. ASSUME NEW k \in 1 .. n PROVE s[m + k] = y[k]
  <2>1. PICK j : j = m + k
    OBVIOUS
  <2>2. j \in 1 .. m + n + l /\ j <= m + n /\ j \in 1 .. m + n /\ ~ (j <= m)
         /\ j - m = k
    BY <2>1, <1>3
  <2>3. s[j] = v[j]
    BY <2>2, <1>3, <1>4, <1>5
  <2>4. v[j] = y[k]
    BY <2>2, <1>2, <1>3
  <2> QED BY <2>1, <2>3, <2>4
<1> QED BY <1>3, <1>4, <1>5, <1>6, <1>7

\* A sequence with an element at two places is longer than its set.
LEMMA TwiceIs ==
  ASSUME NEW E, NEW s \in Seq(E), NEW i \in 1 .. Len(s),
         NEW j \in 1 .. Len(s), i # j, s[i] = s[j]
  PROVE  Len(s) # Cardinality(ToSet(s))
<1>1. PICK n \in Nat : n = Len(s) /\ s \in [1 .. n -> E]
  BY LenProperties
<1>2. PICK T : T = ToSet(s)
  OBVIOUS
<1>3. s \in Surjection(1 .. n, T)
  BY <1>1, <1>2 DEF ToSet, Surjection
<1>4. s \notin Injection(1 .. n, T)
  BY <1>1 DEF Injection, IsInjective
<1>5. IsFiniteSet(1 .. n) /\ Cardinality(1 .. n) = n
  <2>1. 1 \in Int /\ n \in Int
    OBVIOUS
  <2>2. IsFiniteSet(1 .. n) /\ Cardinality(1 .. n) = IF 1 > n THEN 0
                                                     ELSE n - 1 + 1
    BY <2>1, FS_Interval
  <2> QED BY <2>2
<1>6. Cardinality(T) = Cardinality(1 .. n) <=> s \in Injection(1 .. n, T)
  BY <1>3, <1>5, FS_Surjection
<1> QED BY <1>1, <1>2, <1>4, <1>5, <1>6

\* Two ranges with a name in common make a list with a name twice.
LEMMA SharedIs ==
  ASSUME NEW t \in Seq(GoodRange), NEW i \in 1 .. Len(t),
         NEW j \in 1 .. Len(t), i < j,
         NEW k \in 1 .. Count(t[i]), NEW l \in 1 .. Count(t[j]),
         Hosts(t[i])[k] = Hosts(t[j])[l]
  PROVE  Len(Names(t)) # Cardinality(ToSet(Names(t)))
<1>1. PICK a, b : CutInto(t, j, a, b)
  BY DEF CutInto
<1>2. /\ a \in Seq(GoodRange) /\ b \in Seq(GoodRange)
      /\ t[j] \in GoodRange /\ Len(a) = j - 1
  BY <1>1, CutIs
<1>3. i \in 1 .. Len(a)
  BY <1>2
<1>4. a[i] = t[i]
  <2>1. \A x \in 1 .. j - 1 : a[x] = t[x]
    BY <1>1, CutIs
  <2> QED BY <2>1
<1>5. PICK c, d : CutInto(a, i, c, d)
  BY DEF CutInto
<1>20. /\ c \in Seq(GoodRange) /\ d \in Seq(GoodRange)
       /\ a[i] \in GoodRange
  BY <1>2, <1>3, <1>5, CutIs
<1>21. InThree(Names(a), Names(c), Hosts(a[i]), Names(d))
  BY <1>2, <1>3, <1>5, CutIs
<1>22. InThree(Names(t), Names(a), Hosts(t[j]), Names(b))
  BY <1>1, CutIs
<1>6. PICK x, y, z, u, v, w :
        /\ x = Names(a) /\ y = Hosts(t[j]) /\ z = Names(b)
        /\ u = Names(c) /\ v = Hosts(t[i]) /\ w = Names(d)
  OBVIOUS
<1>7. /\ x \in Seq(Name) /\ y \in Seq(Name) /\ z \in Seq(Name)
      /\ u \in Seq(Name) /\ v \in Seq(Name) /\ w \in Seq(Name)
  BY <1>2, <1>4, <1>6, <1>20, NamesAre, HostsAre
<1>8. PICK xn \in Nat, yn \in Nat, un \in Nat, vn \in Nat :
        xn = Len(x) /\ yn = Len(y) /\ un = Len(u) /\ vn = Len(v)
  BY <1>7, LenProperties
<1>9. k \in 1 .. vn /\ l \in 1 .. yn
  <2>1. Len(v) = Count(t[i]) /\ Len(y) = Count(t[j])
    BY <1>2, <1>4, <1>6, <1>20, HostsAre
  <2> QED BY <2>1, <1>8
<1>10. PICK s : s = Names(t)
  OBVIOUS
<1>11. InThree(s, x, y, z) /\ InThree(x, u, v, w)
  BY <1>4, <1>6, <1>10, <1>21, <1>22
<1>12. /\ s \in Seq(Name) /\ xn + yn <= Len(s)
       /\ \A m \in 1 .. xn : s[m] = x[m]
       /\ \A m \in 1 .. yn : s[xn + m] = y[m]
  <2>1. /\ s \in Seq(Name) /\ Len(x) + Len(y) <= Len(s)
        /\ \A m \in 1 .. Len(x) : s[m] = x[m]
        /\ \A m \in 1 .. Len(y) : s[Len(x) + m] = y[m]
    BY <1>7, <1>11, MiddleIs, SMTT(30)
  <2> QED BY <2>1, <1>8
<1>13. un + vn <= xn /\ \A m \in 1 .. vn : x[un + m] = v[m]
  <2>1. /\ Len(u) + Len(v) <= Len(x)
        /\ \A m \in 1 .. Len(v) : x[Len(u) + m] = v[m]
    BY <1>7, <1>11, MiddleIs
  <2> QED BY <2>1, <1>8
<1>14. PICK p, q : p = un + k /\ q = xn + l
  OBVIOUS
<1>15. Len(s) \in Nat
  BY <1>12, LenProperties
<1>16. /\ p \in 1 .. xn /\ p \in 1 .. Len(s) /\ q \in 1 .. Len(s) /\ p # q
  BY <1>8, <1>9, <1>12, <1>13, <1>14, <1>15, SMTT(30)
<1>17. s[p] = v[k] /\ s[q] = y[l]
  BY <1>9, <1>12, <1>13, <1>14, <1>16
<1>18. s[p] = s[q]
  BY <1>6, <1>17
<1>19. Len(s) # Cardinality(ToSet(s))
  BY <1>12, <1>16, <1>18, TwiceIs
<1> QED BY <1>10, <1>19

\* Two ranges that overlap have a name in common.
Sharing(r, s) ==
  \E k \in 1 .. Count(r), l \in 1 .. Count(s) : Hosts(r)[k] = Hosts(s)[l]

\* It does not matter which is looked at first.
LEMMA SharedBoth ==
  ASSUME NEW r \in GoodRange, NEW s \in GoodRange, Sharing(r, s)
  PROVE  Sharing(s, r)
BY DEF Sharing

\* hostrange_intersect() finds only what both have in common.
LEMMA OverlapShares ==
  ASSUME NEW r \in GoodRange, NEW s \in GoodRange, Cmp(r, s) <= 0,
         Intersect(r, s) # <<>>
  PROVE  Sharing(r, s)
<1>1. ~ r.single /\ ~ s.single /\ Alike(r, s) /\ r.hi > s.lo
       /\ Combines(r, s)
  BY DEF Intersect
<1>2. PICK p \in Name : p = r.prefix /\ p = s.prefix
  BY <1>1, GoodIs DEF Alike
<1>3. /\ r.lo \in Nat /\ r.hi \in Nat /\ s.lo \in Nat /\ s.hi \in Nat
      /\ r.lo <= r.hi /\ s.lo <= s.hi /\ r.width \in Nat /\ s.width \in Nat
      /\ Count(r) = r.hi - r.lo + 1 /\ Count(s) = s.hi - s.lo + 1
  BY GoodIs, CountIs
<1>4. r.lo <= s.lo
  <2>1. ~ (PrefixCmp(r, s) < 0)
    BY <1>1, PrefixCmpIs
  <2>2. NumberLess(r.lo, DigitsOf(r.lo), r.width,
                   s.lo, DigitsOf(s.lo), s.width)
    BY <2>1, CmpIs
  <2>3. OneWidth(DigitsOf(r.lo), r.width, DigitsOf(s.lo), s.width)
    BY <1>1, CmpIs
  <2> QED BY <2>2, <2>3 DEF NumberLess
<1>5. Fits(s.lo, r.width, s.width)
  <2>1. Fits(r.lo, r.width, s.width) \/ Fits(s.lo, r.width, s.width)
    BY <1>1, CombineIs DEF CombinedAs
  <2> QED BY <2>1, <1>3, <1>4, FitsKeeps
<1>6. Numeral(s.lo, r.width) = Numeral(s.lo, s.width)
  BY <1>3, <1>5, FitsKeeps
<1>7. Host(p, s.lo, r.width) = Host(p, s.lo, s.width)
  BY <1>6 DEF Host
<1>8. PICK k : k = s.lo - r.lo + 1
  OBVIOUS
<1>9. k \in 1 .. Count(r) /\ 1 \in 1 .. Count(s) /\ r.lo + k - 1 = s.lo
       /\ s.lo + 1 - 1 = s.lo
  <2>1. s.lo <= r.hi
    BY <1>1, <1>3
  <2>2. k \in Int /\ 1 <= k /\ k <= r.hi - r.lo + 1
    BY ONLY <2>1, <1>3, <1>4, <1>8
  <2>3. r.lo + k - 1 = s.lo /\ s.lo + 1 - 1 = s.lo
    BY ONLY <1>3, <1>8
  <2>4. 1 \in 1 .. Count(s)
    BY <1>3
  <2> QED BY <2>2, <2>3, <2>4, <1>3
<1>10. Hosts(r)[k] = Host(r.prefix, r.lo + k - 1, r.width)
  BY <1>1, <1>9, HostsAre
<1>11. Hosts(s)[1] = Host(s.prefix, s.lo + 1 - 1, s.width)
  BY <1>1, <1>9, HostsAre
<1>12. Hosts(r)[k] = Hosts(s)[1]
  BY <1>2, <1>7, <1>9, <1>10, <1>11
<1> QED BY <1>9, <1>12 DEF Sharing

\* If no name is there twice, hostlist_coalesce() splits nothing.
LEMMA CoalesceDistinct ==
  ASSUME NEW t \in Seq(GoodRange),
         Len(Names(t)) = Cardinality(ToSet(Names(t))),
         NEW s, SortedAs(s, t), NEW freed, NEW x, x = Coalesce(s, freed)
  PROVE  x.hr \in Seq(GoodRange) /\ Total(x.hr) = Total(t)
<1>1. PICK n \in Nat : n = Len(s) /\ n = Len(t)
  BY LenProperties DEF SortedAs, Permuted
<1>2. PICK p : Moves(p, s, t)
  BY DEF SortedAs, Permuted
<1>3. /\ s \in Seq(GoodRange) /\ Total(s) = Total(t)
      /\ \A i \in 1 .. n : p[i] \in 1 .. n /\ s[i] = t[p[i]]
      /\ \A i, j \in 1 .. n : i # j => p[i] # p[j]
      /\ \A i, j \in 1 .. n : i < j => Cmp(s[i], s[j]) <= 0
  BY <1>1, <1>2 DEF Moves, SortedAs
<1>4. \A i \in 1 .. n : s[i] \in GoodRange /\ t[i] \in GoodRange
  BY <1>1, <1>3, ElementOfSeq
<1>5. ASSUME NEW a \in 1 .. n, NEW b \in 1 .. n, a # b
      PROVE  ~ Sharing(t[a], t[b])
  <2>1. ASSUME NEW c \in 1 .. n, NEW d \in 1 .. n, c < d
        PROVE  ~ Sharing(t[c], t[d])
    <3>1. SUFFICES ASSUME Sharing(t[c], t[d]) PROVE FALSE
      OBVIOUS
    <3>2. PICK k \in 1 .. Count(t[c]), l \in 1 .. Count(t[d]) :
            Hosts(t[c])[k] = Hosts(t[d])[l]
      BY <3>1 DEF Sharing
    <3>3. c \in 1 .. Len(t) /\ d \in 1 .. Len(t)
      BY <1>1
    <3> QED BY <2>1, <3>2, <3>3, SharedIs
  <2>2. CASE a < b
    BY <2>1, <2>2
  <2>3. CASE b < a
    <3>1. ~ Sharing(t[b], t[a])
      BY <2>1, <2>3
    <3> QED BY <3>1, <1>4, SharedBoth
  <2> QED BY <2>2, <2>3, <1>5
<1> DEFINE V == {y \in SearchType : y.at <= n /\ y.hr = s}
<1>6. End(s) \in V
  <2>1. End(s) = [at |-> n, hr |-> s]
    BY <1>1 DEF End
  <2> QED BY <2>1, <1>3 DEF SearchType
<1>7. ASSUME NEW y \in V PROVE Look(y, freed) \in V
  <2>1. PICK i \in Nat : i = y.at /\ i <= n /\ y.hr = s
    BY DEF SearchType
  <2>2. CASE i <= 1
    BY <2>1, <2>2 DEF Look
  <2>3. CASE ~ (i <= 1)
    <3>1. i - 1 \in 1 .. n /\ i \in 1 .. n /\ i - 1 < i /\ i - 1 # i
           /\ i - 1 \in Nat /\ i - 1 <= n
      BY <2>1, <2>3, <1>1
    <3>2. Cmp(s[i - 1], s[i]) <= 0
      BY <3>1, <1>3
    <3>3. ~ Sharing(s[i - 1], s[i])
      <4>1. PICK a \in 1 .. n : a = p[i - 1] /\ s[i - 1] = t[a]
        BY <3>1, <1>3
      <4>2. PICK b \in 1 .. n : b = p[i] /\ s[i] = t[b]
        BY <3>1, <1>3
      <4>3. a # b
        <5>1. p[i - 1] # p[i]
          BY ONLY <3>1, <1>3
        <5> QED BY <4>1, <4>2, <5>1
      <4>4. ~ Sharing(t[a], t[b])
        BY <4>3, <1>5
      <4> QED BY <4>1, <4>2, <4>4
    <3>4. Intersect(s[i - 1], s[i]) = <<>>
      BY <3>1, <3>2, <3>3, <1>4, OverlapShares
    <3>5. PICK z : z = [y EXCEPT !.at = @ - 1]
      OBVIOUS
    <3>6. Look(y, freed) = z
      BY <2>1, <2>3, <3>4, <3>5 DEF Look
    <3>7. z \in V
      BY <2>1, <3>1, <3>5 DEF SearchType
    <3> HIDE DEF V
    <3> QED BY <3>6, <3>7
  <2> QED BY <2>2, <2>3
<1> HIDE DEF V
<1>8. x \in V
  BY <1>6, <1>7, LooksStay
<1> QED BY <1>3, <1>8 DEF V

(***************************************************************************)
(* The list and its iterator.                                              *)
(***************************************************************************)

\* An array in two.
InTwo(s, i, a, b) == a = SubSeq(s, 1, i) /\ b = SubSeq(s, i + 1, Len(s))

\* Both halves have the hosts of the whole.
LEMMA HalvesIs ==
  ASSUME NEW s \in Seq(GoodRange), NEW i \in 0 .. Len(s),
         NEW a, NEW b, InTwo(s, i, a, b)
  PROVE  /\ a \in Seq(GoodRange) /\ b \in Seq(GoodRange)
         /\ Len(a) = i /\ Len(b) = Len(s) - i
         /\ \A j \in 1 .. i : a[j] = s[j]
         /\ \A j \in 1 .. Len(s) - i : b[j] = s[i + j]
         /\ Total(s) = Total(a) + Total(b)
<1>0. a = SubSeq(s, 1, i) /\ b = SubSeq(s, i + 1, Len(s))
  BY DEF InTwo
<1>1. PICK n \in Nat : n = Len(s)
  BY LenProperties
<1>2. i \in 0 .. n /\ i \in Nat /\ i + 1 \in Nat
  BY <1>1
<1>3. /\ a \in Seq(GoodRange) /\ Len(a) = i
      /\ \A j \in 1 .. i : a[j] = s[j]
  <2>1. /\ SubSeq(s, 1, i) \in Seq(GoodRange)
        /\ Len(SubSeq(s, 1, i)) = IF 1 <= i THEN i - 1 + 1 ELSE 0
        /\ \A j \in 1 .. i - 1 + 1 : SubSeq(s, 1, i)[j] = s[1 + j - 1]
    <3>1. 1 \in Nat /\ 1 <= 1 /\ i <= Len(s)
      BY <1>1, <1>2
    <3> QED BY <3>1, <1>2, PartIs
  <2>2. \A j \in 1 .. i : j \in 1 .. i - 1 + 1 /\ 1 + j - 1 = j
    BY <1>2
  <2>3. Len(a) = i
    BY <2>1, <1>0, <1>2
  <2> QED BY <2>1, <2>2, <2>3, <1>0
<1>4. /\ b \in Seq(GoodRange) /\ Len(b) = n - i
      /\ \A j \in 1 .. n - i : b[j] = s[i + j]
  <2>1. /\ SubSeq(s, i + 1, n) \in Seq(GoodRange)
        /\ Len(SubSeq(s, i + 1, n)) = IF i + 1 <= n THEN n - (i + 1) + 1
                                      ELSE 0
        /\ \A j \in 1 .. n - (i + 1) + 1 :
             SubSeq(s, i + 1, n)[j] = s[(i + 1) + j - 1]
    <3>1. 1 <= i + 1 /\ n <= Len(s)
      BY <1>1, <1>2
    <3> QED BY <3>1, <1>2, PartIs
  <2>2. \A j \in 1 .. n - i : /\ j \in 1 .. n - (i + 1) + 1
                              /\ (i + 1) + j - 1 = i + j
    BY <1>1, <1>2
  <2>3. Len(b) = n - i
    BY <2>1, <1>0, <1>1, <1>2
  <2> QED BY <2>1, <2>2, <2>3, <1>0, <1>1
<1>5. a \o b = s
  <2>1. SubSeq(s, 1, i) \o SubSeq(s, i + 1, n) = SubSeq(s, 1, n)
    <3>1. 1 \in 1 .. Len(s) + 1 /\ i \in 1 - 1 .. Len(s) /\ n \in i .. Len(s)
      BY <1>1, <1>2
    <3> QED BY <3>1, ConcatAdjacentSubSeq
  <2>2. SubSeq(s, 1, n) = s
    BY <1>1, SubSeqFull
  <2> QED BY <2>1, <2>2, <1>0, <1>1, Zenon
<1>6. Total(a \o b) = Total(a) + Total(b)
  BY <1>3, <1>4, NamesCat
<1> QED BY <1>1, <1>3, <1>4, <1>5, <1>6

\* What is known of a list that is counted right.
LEMMA WholeIs ==
  ASSUME NEW l, Whole(l)
  PROVE  /\ l.hr \in Seq(GoodRange) /\ l.nhosts \in Nat
         /\ l.nhosts = Total(l.hr) /\ Len(l.hr) \in Nat
         /\ l.nhosts > 0 => l.hr # <<>>
         /\ l = [hr |-> l.hr, nhosts |-> l.nhosts]
         /\ \A i \in 1 .. Len(l.hr) : l.hr[i] \in GoodRange
<1>1. l.hr \in Seq(GoodRange) /\ l.nhosts = Total(l.hr)
       /\ l = [hr |-> l.hr, nhosts |-> l.nhosts]
  BY ListIs DEF Whole
<1>2. Total(l.hr) \in Nat
  BY <1>1, NamesAre
<1>3. \A i \in 1 .. Len(l.hr) : l.hr[i] \in GoodRange
  BY <1>1, ElementOfSeq
<1>4. l.hr = <<>> => l.nhosts = 0
  BY <1>1, NamesNone
<1>5. Len(l.hr) \in Nat
  BY <1>1, LenProperties
<1> QED BY <1>1, <1>2, <1>3, <1>4, <1>5

\* What is made of the array and the number of a list.
LEMMA WholeAre ==
  ASSUME NEW hr \in Seq(GoodRange), NEW n, n = Total(hr),
         NEW l, l = [hr |-> hr, nhosts |-> n]
  PROVE  Whole(l)
<1>1. n \in Nat
  BY NamesAre
<1> QED BY <1>1 DEF Whole, ListType

\* A sort that a careful caller asks for keeps the number of hosts.
LEMMA SortKeeps ==
  ASSUME Careful, Whole(list), Sort
  PROVE  Whole(list')
<1>1. PICK hr : hr = list.hr
  OBVIOUS
<1>2. hr \in Seq(GoodRange) /\ list.nhosts = Total(hr) /\ Len(hr) \in Nat
  BY <1>1, WholeIs
<1>3. PICK s \in Orders(hr), freed \in FreedLo :
        /\ Coalesce(s, freed).at <= 1
        /\ list' = [list EXCEPT !.hr = Collapse(Coalesce(s, freed).hr)]
  BY <1>1 DEF Sort
<1>4. Sortable(hr) /\ Len(hr) >= 1
  BY <1>1, <1>2 DEF Sort
<1>5. SortedAs(s, hr)
  BY <1>2, OrdersAre
<1>6. PICK x : x = Coalesce(s, freed)
  OBVIOUS
<1>7. x.hr \in Seq(GoodRange) /\ Total(x.hr) = Total(hr)
  <2>1. CASE PaddedAlike(hr)
    <3>1. SortedOut(Coalesce(s, freed), hr)
      BY <2>1, <1>2, <1>4, <1>5, CoalescePadded
    <3> QED BY <3>1, <1>6 DEF SortedOut
  <2>2. CASE Len(Names(hr)) = Cardinality(ToSet(Names(hr)))
    BY <2>2, <1>2, <1>5, <1>6, CoalesceDistinct
  <2> QED BY <2>1, <2>2, <1>4 DEF Sortable
<1>8. PICK c : c = Collapse(x.hr)
  OBVIOUS
<1>9. c \in Seq(GoodRange) /\ Total(c) = Total(hr)
  BY <1>7, <1>8, CollapseIs DEF CollapsedAs
<1>10. list' = [list EXCEPT !.hr = c]
  BY <1>3, <1>6, <1>8
<1>11. list = [hr |-> hr, nhosts |-> Total(hr)]
  BY <1>1, <1>2, WholeIs
<1>12. list' = [hr |-> c, nhosts |-> Total(hr)]
  BY <1>10, <1>11
<1> QED BY <1>9, <1>12, WholeAre

\* Where an iterator may be: at a host that is there when it has just met one.
ReaderType == [open : BOOLEAN, idx : Nat, depth : Int]
ReaderFits ==
  /\ reader \in ReaderType /\ reader.depth >= -1
  /\ met = "host" => /\ reader.open
                     /\ reader.idx < Len(list.hr)
                     /\ 0 <= reader.depth
                     /\ reader.depth < Count(list.hr[reader.idx + 1])

ListInv == Whole(list) /\ ReaderFits

\* The fields of an iterator.
LEMMA ReaderIs ==
  ASSUME NEW it \in ReaderType
  PROVE  /\ it.open \in BOOLEAN /\ it.idx \in Nat /\ it.depth \in Int
         /\ it = [open |-> it.open, idx |-> it.idx, depth |-> it.depth]
BY DEF ReaderType

\* An iterator that is destroyed, and one that is reset.
LEMMA ClosedIs ==
  /\ Closed \in ReaderType /\ Closed.depth = -1 /\ ~ Closed.open
  /\ Reset \in ReaderType /\ Reset.depth = -1 /\ Reset.open
<1>1. Closed = [open |-> FALSE, idx |-> 0, depth |-> -1]
  BY DEF Closed
<1>2. -1 \in Int
  OBVIOUS
<1>3. Closed \in ReaderType /\ Closed.depth = -1 /\ ~ Closed.open
  BY <1>1, <1>2 DEF ReaderType
<1>4. PICK c \in ReaderType : c = Closed /\ c.depth = -1
  BY <1>3
<1>5. [c EXCEPT !.open = TRUE] \in ReaderType
       /\ [c EXCEPT !.open = TRUE].depth = c.depth
       /\ [c EXCEPT !.open = TRUE].open
  BY DEF ReaderType
<1> QED BY <1>3, <1>4, <1>5 DEF Reset

\* A new list has what ListInv says.
LEMMA ListStarts == SetInit => ListInv
<1>1. SUFFICES ASSUME SetInit PROVE ListInv
  OBVIOUS
<1>2. list = Empty /\ reader = Closed /\ met = "new"
  BY <1>1 DEF SetInit, Init
<1>3. Whole(list)
  BY <1>2, EmptyWhole
<1> QED BY <1>2, <1>3, ClosedIs DEF ListInv, ReaderFits

\* Calls that are made while nothing reads the list.
LEMMA UnreadKeeps ==
  ASSUME ReaderFits, Unread, reader' = reader, met' = met
  PROVE  ReaderFits'
BY DEF ReaderFits, Unread

\* What is for lists only keeps it: pushing, uniting, sorting and the like.
LEMMA ListOnlyKeeps ==
  ASSUME Careful, ListInv, ListOnly
  PROVE  ListInv'
<1>1. Whole(list) /\ ReaderFits
  BY DEF ListInv
<1>2. met' = IF reader.open THEN "new" ELSE met
  BY DEF ListOnly
<1>3. ASSUME Unread, reader' = reader PROVE ReaderFits'
  <2>1. met' = met
    BY <1>2, <1>3 DEF Unread
  <2> QED BY <2>1, <1>1, <1>3, UnreadKeeps
<1>4. ASSUME Rewind PROVE ReaderFits'
  <2>1. CASE reader.open
    <3>1. reader' = Reset /\ met' = "new"
      BY <2>1, <1>2, <1>4 DEF Rewind
    <3> QED BY <3>1, ClosedIs DEF ReaderFits
  <2>2. CASE ~ reader.open
    <3>1. reader' = reader /\ met' = met
      BY <2>2, <1>2, <1>4 DEF Rewind
    <3> QED BY <3>1, <2>2, <1>1, UnreadKeeps DEF Unread
  <2> QED BY <2>1, <2>2
<1>5. \A t \in Text : t \in Seq(Piece)
  BY ListAssumption
<1>6. CASE Push
  <2>1. PICK t \in Seq(Piece) : list' = PushText(list, t)
    BY <1>5, <1>6 DEF Push
  <2>2. Whole(list')
    BY <2>1, <1>1, PushTextIs
  <2> QED BY <2>2, <1>3, <1>6 DEF Push, ListInv
<1>7. CASE Union
  <2>0. PICK t \in Seq(Piece) :
          \E both \in {PushText(PushText(Empty, Printed(list.hr)),
                                Printed(Create(t).hr))} :
            list' \in Joined(both)
    BY <1>5, <1>7 DEF Union
  <2>1. PICK both :
          /\ both = PushText(PushText(Empty, Printed(list.hr)),
                             Printed(Create(t).hr))
          /\ list' \in Joined(both)
    BY <2>0
  <2>2. PICK u, v : u = Printed(list.hr) /\ v = Printed(Create(t).hr)
    OBVIOUS
  <2>3. u \in Seq(Piece) /\ v \in Seq(Piece)
    <3>1. list.hr \in Seq(GoodRange) /\ Create(t).hr \in Seq(GoodRange)
      BY <1>1, CreateIs, WholeIs
    <3> QED BY <3>1, <2>2, PrintedIs
  <2>4. Whole(both)
    <3>1. Whole(PushText(Empty, u))
      BY <2>3, EmptyWhole, PushTextIs
    <3>2. Whole(PushText(PushText(Empty, u), v))
      BY <3>1, <2>3, PushTextIs
    <3> QED BY <3>2, <2>1, <2>2
  <2>5. Whole(list')
    BY <2>1, <2>4, JoinedIs
  <2> QED BY <2>5, <1>3, <1>7 DEF Union, ListInv
<1>8. CASE DeleteFirst
  <2>1. list.nhosts > 0 /\ list' = DropNth(list, 0) /\ 0 < list.nhosts
    BY <1>1, <1>8, WholeIs DEF DeleteFirst
  <2>2. Whole(list')
    BY <2>1, <1>1, DropNthIs
  <2> QED BY <2>2, <1>3, <1>8 DEF DeleteFirst, ListInv
<1>9. CASE Sort
  <2>1. Whole(list')
    BY <1>1, <1>9, SortKeeps
  <2> QED BY <2>1, <1>4, <1>9 DEF Sort, ListInv
<1>10. CASE Uniq
  <2>1. Whole(list')
    BY <1>1, <1>10, JoinedIs DEF Uniq
  <2> QED BY <2>1, <1>4, <1>10 DEF Uniq, ListInv
<1> QED BY <1>6, <1>7, <1>8, <1>9, <1>10 DEF ListOnly

\* Popping, deleting and finding keep it.
LEMMA LookupsKeep ==
  ASSUME ListInv, Lookups
  PROVE  ListInv'
<1>1. Whole(list) /\ ReaderFits /\ met' = met
  BY DEF ListInv, Lookups
<1>2. CASE Pop
  <2>1. Whole(list')
    BY <1>1, <1>2, DropLastIs DEF Pop
  <2> QED BY <2>1, <1>1, <1>2, UnreadKeeps DEF Pop, ListInv
<1>3. CASE Delete
  <2>1. PICK t \in Text : list' = DropText(list, t)
    BY <1>3 DEF Delete
  <2>2. t \in Seq(Piece)
    BY ListAssumption
  <2>3. Whole(list')
    BY <2>1, <2>2, <1>1, DropTextIs
  <2> QED BY <2>3, <1>1, <1>3, UnreadKeeps DEF Delete, ListInv
<1>4. CASE Find
  <2>1. PICK p \in Lookup :
          list' = [list EXCEPT !.hr = FindIn(@, p).hr]
    BY <1>4 DEF Find
  <2>2. p \in Name /\ reader' = reader
    BY <1>4, ListAssumption DEF Find
  <2>3. PICK hr, n : hr = list.hr /\ n = list.nhosts
    OBVIOUS
  <2>4. /\ hr \in Seq(GoodRange) /\ n = Total(hr)
        /\ list = [hr |-> hr, nhosts |-> n]
        /\ Len(hr) \in Nat
    BY <1>1, <2>3, WholeIs
  <2>5. PICK f : f = FindIn(hr, p)
    OBVIOUS
  <2>6. /\ f.hr \in Seq(GoodRange) /\ Len(f.hr) = Len(hr)
        /\ Total(f.hr) = Total(hr)
        /\ \A i \in 1 .. Len(hr) : SameHosts(f.hr[i], hr[i])
    BY <2>2, <2>4, <2>5, FindInIs DEF FoundAs, SameRanges
  <2>7. list' = [hr |-> f.hr, nhosts |-> n]
    BY <2>1, <2>3, <2>4, <2>5
  <2>8. Whole(list')
    BY <2>4, <2>6, <2>7, WholeAre
  <2>9. ReaderFits'
    <3>1. SUFFICES ASSUME met = "host"
                   PROVE  /\ reader.idx < Len(f.hr)
                          /\ reader.depth < Count(f.hr[reader.idx + 1])
      BY <1>1, <2>2, <2>7 DEF ReaderFits
    <3>2. /\ reader.idx < Len(hr) /\ reader.idx \in Nat
          /\ reader.depth < Count(hr[reader.idx + 1])
      BY <1>1, <2>3, <3>1, ReaderIs DEF ReaderFits
    <3>3. reader.idx + 1 \in 1 .. Len(hr)
      BY <3>2, <2>4
    <3>4. Count(f.hr[reader.idx + 1]) = Count(hr[reader.idx + 1])
      BY <3>3, <2>6 DEF SameHosts
    <3> QED BY <3>2, <3>4, <2>6
  <2> QED BY <2>8, <2>9 DEF ListInv
<1> QED BY <1>2, <1>3, <1>4 DEF Lookups

\* Making, resetting and destroying an iterator keep it.
LEMMA IterateKeeps ==
  ASSUME ListInv, Iterate
  PROVE  ListInv'
<1>1. Whole(list) /\ ReaderFits /\ met' = "new"
  BY DEF ListInv, Iterate
<1>2. /\ list' = list \/ list' = Empty
      /\ reader' \in {Reset, Closed}
  BY DEF Iterate, Open, Close, Renew
<1>3. Whole(list')
  BY <1>1, <1>2, EmptyWhole
<1>4. ReaderFits'
  BY <1>1, <1>2, ClosedIs DEF ReaderFits
<1> QED BY <1>3, <1>4 DEF ListInv

\* hostlist_next() comes to a host that is there, or behind the last.
LEMMA NextMetKeeps ==
  ASSUME ListInv, NextMet
  PROVE  ListInv'
<1>1. /\ Whole(list) /\ ReaderFits /\ list' = list /\ reader.open
      /\ reader' = Advance(reader, list.hr)
      /\ met' = IF reader'.idx < Len(list.hr) THEN "host" ELSE "gone"
  BY DEF ListInv, NextMet, NextHost
<1>2. PICK hr, it : hr = list.hr /\ it = reader
  OBVIOUS
<1>3. it \in ReaderType /\ it.depth >= -1 /\ it.open
  BY <1>1, <1>2 DEF ReaderFits
<1>4. PICK i, d : i = it.idx /\ d = it.depth
  OBVIOUS
<1>5. i \in Nat /\ d \in Int /\ d >= -1
       /\ it = [open |-> it.open, idx |-> i, depth |-> d]
  BY <1>3, <1>4, ReaderIs
<1>6. PICK n \in Nat : n = Len(hr) /\ \A j \in 1 .. n : hr[j] \in GoodRange
  BY <1>1, <1>2, WholeIs
<1>7. PICK b : b = reader'
  OBVIOUS
<1>8. b = Advance(it, hr)
  BY <1>1, <1>2, <1>7
<1>9. /\ b \in ReaderType /\ b.depth >= -1 /\ b.open
      /\ b.idx < n => /\ 0 <= b.depth
                      /\ b.depth < Count(hr[b.idx + 1])
  <2>1. CASE i >= n
    <3>1. b = it
      BY <2>1, <1>4, <1>6, <1>8 DEF Advance
    <3> QED BY <3>1, <2>1, <1>3, <1>4, <1>5, <1>6
  <2>2. CASE ~ (i >= n)
    <3>1. PICK r \in GoodRange : r = hr[i + 1]
      <4>1. i + 1 \in 1 .. n
        BY <2>2, <1>5, <1>6
      <4> QED BY <4>1, <1>6
    <3>2. /\ r.lo \in Nat /\ r.hi \in Nat /\ r.lo <= r.hi
          /\ Count(r) = r.hi - r.lo + 1
      BY GoodIs, CountIs
    <3>3. CASE d + 1 > r.hi - r.lo
      <4>1. b = [it EXCEPT !.idx = @ + 1, !.depth = 0]
        BY <2>2, <3>1, <3>2, <3>3, <1>4, <1>6, <1>8 DEF Advance
      <4>2. b = [open |-> it.open, idx |-> i + 1, depth |-> 0]
        BY <4>1, <1>4, <1>5
      <4>3. i + 1 < n => Count(hr[(i + 1) + 1]) >= 1
                          /\ Count(hr[(i + 1) + 1]) \in Nat
        <5>1. SUFFICES ASSUME i + 1 < n
                       PROVE  Count(hr[(i + 1) + 1]) >= 1
                               /\ Count(hr[(i + 1) + 1]) \in Nat
          OBVIOUS
        <5>2. (i + 1) + 1 \in 1 .. n
          BY <5>1, <1>5, <1>6
        <5>3. hr[(i + 1) + 1] \in GoodRange
          BY <5>2, <1>6
        <5> QED BY <5>3, CountIs
      <4> QED BY <4>2, <4>3, <1>3, <1>5, ReaderIs DEF ReaderType
    <3>4. CASE ~ (d + 1 > r.hi - r.lo)
      <4>1. b = [it EXCEPT !.depth = @ + 1]
        BY <2>2, <3>1, <3>2, <3>4, <1>4, <1>6, <1>8 DEF Advance
      <4>2. b = [open |-> it.open, idx |-> i, depth |-> d + 1]
        BY <4>1, <1>4, <1>5
      <4>3. 0 <= d + 1 /\ d + 1 < Count(r)
        BY <3>2, <3>4, <1>5
      <4> QED BY <4>2, <4>3, <3>1, <1>3, <1>5, ReaderIs DEF ReaderType
    <3> QED BY <3>3, <3>4
  <2> QED BY <2>1, <2>2
<1>10. ReaderFits'
  BY <1>1, <1>2, <1>6, <1>7, <1>9 DEF ReaderFits
<1> QED BY <1>1, <1>10 DEF ListInv

\* An iterator at a depth of a range.
Placed(it, i, d) == [it EXCEPT !.idx = i, !.depth = d]

\* It is one.
LEMMA PlacedIs ==
  ASSUME NEW it \in ReaderType, NEW i \in Nat, NEW d \in Int
  PROVE  /\ Placed(it, i, d) = [open |-> it.open, idx |-> i, depth |-> d]
         /\ Placed(it, i, d) \in ReaderType
         /\ Placed(it, i, d).depth = d
<1>1. PICK b : b = [it EXCEPT !.idx = i]
  OBVIOUS
<1>2. b = [open |-> it.open, idx |-> i, depth |-> it.depth]
  BY <1>1, ReaderIs
<1>3. [b EXCEPT !.depth = d] = [open |-> it.open, idx |-> i, depth |-> d]
  BY <1>2
<1>4. Placed(it, i, d) = [b EXCEPT !.depth = d]
  BY <1>1 DEF Placed
<1> QED BY <1>3, <1>4, ReaderIs DEF ReaderType

\* hostlist_next_range() keeps it.
LEMMA NextRangeKeeps ==
  ASSUME ListInv, NextRange
  PROVE  ListInv'
<1>1. Whole(list) /\ ReaderFits /\ list' = list /\ met' = "range"
  BY DEF ListInv, NextRange
<1>2. PICK it : it = reader
  OBVIOUS
<1>3. it \in ReaderType /\ it.depth >= -1
  BY <1>1, <1>2 DEF ReaderFits
<1>4. PICK n \in Nat : n = Len(list.hr)
  BY <1>1, WholeIs
<1>5. it.idx \in Nat /\ it.idx < n
  BY <1>2, <1>3, <1>4, ReaderIs DEF NextRange
<1>6. PICK e : e = BracketEnd(list.hr, it.idx + 1)
  OBVIOUS
<1>7. e \in Nat /\ e >= 1
  <2>1. it.idx + 1 \in 1 .. n
    BY <1>5
  <2>2. e \in it.idx + 1 + 1 .. n + 1
    BY <2>1, <1>4, <1>6, BracketEndIs
  <2> QED BY <2>2, <1>5
<1>8. PICK j : j = IF it.depth < 0 THEN it.idx ELSE e - 1
  OBVIOUS
<1>9. j \in Nat
  <2>1. e - 1 \in Nat
    BY <1>7
  <2> QED BY <2>1, <1>5, <1>8
<1>10. reader' = Placed(it, j, 0)
  BY <1>2, <1>6, <1>8 DEF NextRange, Placed
<1>11. 0 \in Int
  OBVIOUS
<1>12. reader' \in ReaderType /\ reader'.depth = 0
  BY <1>3, <1>9, <1>10, <1>11, PlacedIs
<1>13. ReaderFits'
  BY <1>1, <1>12 DEF ReaderFits
<1> QED BY <1>1, <1>13 DEF ListInv

\* What hostlist_remove() leaves of a list, and of the iterator.
RemovedAs(x) == /\ Whole(x.list)
                /\ x.reader \in ReaderType /\ x.reader.depth >= -1

\* It is one host less.
LEMMA RemovedIs ==
  ASSUME NEW l, Whole(l), NEW it \in ReaderType,
         it.idx < Len(l.hr), 0 <= it.depth,
         it.depth < Count(l.hr[it.idx + 1])
  PROVE  RemovedAs(Removed(l, it))
<1>1. PICK s, n : s = l.hr /\ n = l.nhosts
  OBVIOUS
<1>2. s \in Seq(GoodRange) /\ n = Total(s) /\ Len(s) \in Nat
  BY <1>1, WholeIs
<1>3. PICK i, d : i = it.idx /\ d = it.depth
  OBVIOUS
<1>4. i \in Nat /\ d \in Int /\ i < Len(s) /\ 0 <= d
       /\ it = [open |-> it.open, idx |-> i, depth |-> d]
       /\ it.open \in BOOLEAN
  BY <1>1, <1>3, ReaderIs
<1>5. i + 1 \in 1 .. Len(s)
  BY <1>2, <1>4
<1>6. PICK a, b : CutInto(s, i + 1, a, b)
  BY DEF CutInto
<1>7. PICK r \in GoodRange : r = s[i + 1]
  BY <1>2, <1>5, ElementOfSeq
<1>8. /\ a \in Seq(GoodRange) /\ b \in Seq(GoodRange)
      /\ Total(s) = Total(a) + Count(r) + Total(b)
  BY <1>2, <1>5, <1>6, <1>7, CutIs
<1>9. /\ r.lo \in Nat /\ r.hi \in Nat /\ Count(r) = r.hi - r.lo + 1
      /\ d < Count(r)
  BY <1>1, <1>3, <1>7, GoodIs, CountIs
<1>10. PICK m : m = Remaining(r, r.lo + d)
  OBVIOUS
<1>11. m \in Seq(GoodRange) /\ Total(m) = Count(r) - 1
  <2>1. r.lo + d \in Nat /\ r.lo <= r.lo + d /\ r.lo + d <= r.hi
    BY <1>4, <1>9
  <2> QED BY <2>1, <1>10, RemainingIs
<1>12. a = SubSeq(s, 1, i) /\ b = SubSeq(s, i + 2, Len(s))
  <2>1. (i + 1) - 1 = i /\ (i + 1) + 1 = i + 2
    BY <1>4
  <2> QED BY <2>1, <1>6 DEF CutInto
<1>13. PICK c : c = a \o m \o b
  OBVIOUS
<1>14. c \in Seq(GoodRange) /\ Total(c) = n - 1
  <2>1. /\ a \o m \o b \in Seq(GoodRange)
        /\ Total(a \o m \o b) = Total(a) + Total(m) + Total(b)
        /\ Total(a) \in Nat /\ Total(m) \in Nat /\ Total(b) \in Nat
    BY <1>8, <1>11, ThreeParts
  <2>2. Count(r) \in Nat
    BY CountIs
  <2> QED BY <2>1, <2>2, <1>2, <1>8, <1>11, <1>13
<1>15. PICK x : x = Removed(l, it)
  OBVIOUS
<1>16. /\ x.list = [hr |-> c, nhosts |-> n - 1]
       /\ x.reader = CASE Len(m) = 2 -> [it EXCEPT !.idx = @ + 1, !.depth = -1]
                       [] Len(m) = 1 -> [it EXCEPT !.depth = @ - 1]
                       [] OTHER -> IF it.idx = 0 THEN Reset
                                   ELSE [it EXCEPT !.idx = @ - 1]
  BY <1>1, <1>3, <1>7, <1>10, <1>12, <1>13, <1>15, Zenon DEF Removed
<1>17. Whole(x.list)
  <2>1. n - 1 = Total(c)
    BY <1>14
  <2> QED BY <2>1, <1>14, <1>16, WholeAre
<1>18. x.reader \in ReaderType /\ x.reader.depth >= -1
  <2>1. CASE Len(m) = 2
    <3>1. PICK e \in Int : e = -1
      OBVIOUS
    <3>2. x.reader = Placed(it, i + 1, e)
      BY <2>1, <3>1, <1>3, <1>16 DEF Placed
    <3>3. i + 1 \in Nat
      BY <1>4
    <3> QED BY <3>1, <3>2, <3>3, PlacedIs
  <2>2. CASE Len(m) = 1
    <3>1. x.reader = [it EXCEPT !.depth = @ - 1]
      BY <2>2, <1>16
    <3>2. [it EXCEPT !.depth = @ - 1]
            = [open |-> it.open, idx |-> i, depth |-> d - 1]
      BY <1>4
    <3>3. d - 1 \in Int /\ d - 1 >= -1
      BY <1>4
    <3> QED BY <3>1, <3>2, <3>3, <1>4 DEF ReaderType
  <2>3. CASE Len(m) # 2 /\ Len(m) # 1
    <3>1. x.reader = IF i = 0 THEN Reset ELSE [it EXCEPT !.idx = @ - 1]
      BY <2>3, <1>3, <1>16
    <3>2. CASE i = 0
      <4>1. x.reader = Reset
        BY <3>1, <3>2
      <4> QED BY <4>1, ClosedIs
    <3>3. CASE i # 0
      <4>1. x.reader = [it EXCEPT !.idx = @ - 1]
        BY <3>1, <3>3
      <4>2. [it EXCEPT !.idx = @ - 1]
              = [open |-> it.open, idx |-> i - 1, depth |-> d]
        BY <1>4
      <4>3. i - 1 \in Nat
        BY <3>3, <1>4
      <4> QED BY <4>1, <4>2, <4>3, <1>4 DEF ReaderType
    <3> QED BY <3>2, <3>3
  <2> QED BY <2>1, <2>2, <2>3
<1> QED BY <1>15, <1>17, <1>18 DEF RemovedAs

\* hostlist_remove() keeps it.
LEMMA RemoveMetKeeps ==
  ASSUME ListInv, RemoveMet
  PROVE  ListInv'
<1>1. Whole(list) /\ ReaderFits /\ met = "host" /\ met' = "gone"
  BY DEF ListInv, RemoveMet
<1>2. PICK x : /\ x = Removed(list, reader)
               /\ list' = x.list /\ reader' = x.reader
  BY DEF RemoveMet
<1>3. RemovedAs(x)
  BY <1>1, <1>2, RemovedIs DEF ReaderFits
<1> QED BY <1>1, <1>2, <1>3 DEF RemovedAs, ReaderFits, ListInv

\* A range without its first host, which it has or has not another of.
LEMMA FirstGone ==
  ASSUME NEW r \in GoodRange, NEW q, q = [r EXCEPT !.lo = @ + 1]
  PROVE  /\ IsEmpty(q) => Count(r) = 1
         /\ ~ IsEmpty(q) => q \in GoodRange /\ Count(q) = Count(r) - 1
<1>1. /\ r.lo \in Nat /\ r.hi \in Nat /\ r.lo <= r.hi
      /\ (r.single => r.lo = 0 /\ r.hi = 0)
      /\ Count(r) = r.hi - r.lo + 1 /\ r \in HostRangeType
  BY GoodIs, CountIs DEF GoodRange
<1>2. PICK n \in Nat : n = r.lo + 1
  BY <1>1
<1>3. q = [r EXCEPT !.lo = n]
  BY <1>2
<1>4. q.lo = n /\ q.hi = r.hi
  BY <1>1, <1>3, OtherLo
<1>5. IsEmpty(q) <=> r.hi < n
  BY <1>1, <1>4 DEF IsEmpty
<1>6. ASSUME n <= r.hi PROVE q \in GoodRange /\ Count(q) = Count(r) - 1
  <2>1. ~ r.single
    BY <1>1, <1>2, <1>6
  <2>2. q = [prefix |-> r.prefix, lo |-> n, hi |-> r.hi,
             width |-> r.width, single |-> r.single]
    BY <1>1, <1>3, OtherLo
  <2>3. q \in GoodRange
    BY <2>1, <2>2, <1>1, <1>6, GoodIs DEF GoodRange, HostRangeType
  <2>4. Count(q) = r.hi - n + 1
    BY <2>3, <1>4, CountIs
  <2> QED BY <2>3, <2>4, <1>1, <1>2
<1> QED BY <1>1, <1>2, <1>5, <1>6

\* hostlist_shift() keeps it: an iterator stays at its host.
LEMMA ShiftKeeps ==
  ASSUME ListInv, Shift
  PROVE  ListInv'
<1>1. /\ Whole(list) /\ ReaderFits /\ list.nhosts > 0
      /\ met' = IF met = "host" /\ reader'.depth < 0 THEN "gone" ELSE met
  BY DEF ListInv, Shift
<1>2. PICK s, n : s = list.hr /\ n = list.nhosts
  OBVIOUS
<1>3. s \in Seq(GoodRange) /\ n = Total(s) /\ s # <<>>
  BY <1>1, <1>2, WholeIs
<1>4. PICK r, t : r = Head(s) /\ t = Tail(s)
  OBVIOUS
<1>5. /\ r \in GoodRange /\ r = s[1] /\ t \in Seq(GoodRange)
      /\ Len(s) \in Nat /\ Len(s) >= 1 /\ Len(t) = Len(s) - 1
      /\ \A i \in 1 .. Len(s) - 1 : t[i] = s[i + 1]
      /\ Total(s) = Count(r) + Total(t)
  BY <1>3, <1>4, HeadTail
<1>6. PICK q : q = [r EXCEPT !.lo = @ + 1]
  OBVIOUS
<1>7. /\ IsEmpty(q) => Count(r) = 1
      /\ ~ IsEmpty(q) => q \in GoodRange /\ Count(q) = Count(r) - 1
  BY <1>5, <1>6, FirstGone
<1>8. PICK w : w = IF IsEmpty(q) THEN t ELSE Cons(q, t)
  OBVIOUS
<1>9. /\ list' = [hr |-> w, nhosts |-> n - 1]
      /\ reader' = Shifted(reader, q)
  BY <1>2, <1>4, <1>6, <1>8 DEF Shift
<1>10. Total(t) \in Nat /\ Count(r) \in Nat
  BY <1>5, NamesAre, CountIs
<1>11. w \in Seq(GoodRange) /\ Total(w) = n - 1
  <2>1. CASE IsEmpty(q)
    <3>1. w = t
      BY <2>1, <1>8
    <3> QED BY <3>1, <2>1, <1>3, <1>5, <1>7, <1>10
  <2>2. CASE ~ IsEmpty(q)
    <3>1. w = Cons(q, t)
      BY <2>2, <1>8
    <3>2. w \in Seq(GoodRange) /\ Total(w) = Count(q) + Total(t)
      BY <3>1, <2>2, <1>5, <1>7, ConsIs
    <3> QED BY <3>2, <2>2, <1>3, <1>5, <1>7, <1>10
  <2> QED BY <2>1, <2>2
<1>12. Whole(list')
  <2>1. n - 1 = Total(w)
    BY <1>11
  <2> QED BY <2>1, <1>9, <1>11, WholeAre
<1>13. PICK it : it = reader
  OBVIOUS
<1>14. it \in ReaderType /\ it.depth >= -1
  BY <1>1, <1>13 DEF ReaderFits
<1>15. PICK i, d : i = it.idx /\ d = it.depth
  OBVIOUS
<1>16. i \in Nat /\ d \in Int /\ d >= -1
        /\ it = [open |-> it.open, idx |-> i, depth |-> d]
        /\ it.open \in BOOLEAN
  BY <1>14, <1>15, ReaderIs
<1>17. met = "host" => /\ it.open /\ i < Len(s) /\ 0 <= d
                       /\ d < Count(s[i + 1])
  BY <1>1, <1>2, <1>13, <1>15 DEF ReaderFits
<1>18. PICK b : b = reader'
  OBVIOUS
<1> DEFINE Keeps == /\ b \in ReaderType /\ b.depth >= -1
                    /\ met = "host" /\ b.depth >= 0 =>
                         /\ b.open /\ b.idx < Len(w)
                         /\ b.depth < Count(w[b.idx + 1])
<1> HIDE DEF Keeps
<1>19. Keeps
  <2>1. CASE ~ it.open
    <3>1. b = it
      BY <2>1, <1>9, <1>13, <1>18 DEF Shifted
    <3> QED BY <3>1, <2>1, <1>14, <1>17 DEF Keeps
  <2>2. CASE it.open /\ IsEmpty(q) /\ i = 0
    <3>1. b = Reset
      BY <2>2, <1>9, <1>13, <1>15, <1>18 DEF Shifted
    <3> QED BY <3>1, ClosedIs DEF Keeps
  <2>3. CASE it.open /\ IsEmpty(q) /\ i # 0
    <3>1. b = [it EXCEPT !.idx = @ - 1]
      BY <2>3, <1>9, <1>13, <1>15, <1>18 DEF Shifted
    <3>0. [it EXCEPT !.idx = @ - 1]
            = [open |-> it.open, idx |-> i - 1, depth |-> d]
      BY <1>16
    <3>2. b = [open |-> it.open, idx |-> i - 1, depth |-> d] /\ i - 1 \in Nat
      BY <3>0, <3>1, <2>3, <1>16
    <3>3. b.open = it.open /\ b.idx = i - 1 /\ b.depth = d
      BY <3>2
    <3>4. b \in ReaderType
      BY <3>2, <1>16 DEF ReaderType
    <3>5. w = t /\ Len(w) = Len(s) - 1
      BY <2>3, <1>5, <1>8
    <3>6. ASSUME met = "host"
          PROVE  /\ b.idx < Len(w)
                 /\ b.depth < Count(w[b.idx + 1])
      <4>1. i < Len(s) /\ d < Count(s[i + 1])
        BY <3>6, <1>17
      <4>2. i \in 1 .. Len(s) - 1 /\ (i - 1) + 1 = i
        BY <4>1, <2>3, <1>5, <1>16
      <4>3. w[i] = s[i + 1]
        BY <4>2, <3>5, <1>5
      <4> QED BY <4>1, <4>2, <4>3, <3>3, <3>5, <1>5, <1>16
    <3> QED BY <3>3, <3>4, <3>6, <2>3, <1>16 DEF Keeps
  <2>4. CASE it.open /\ ~ IsEmpty(q) /\ i = 0 /\ d >= 0
    <3>1. b = [it EXCEPT !.depth = @ - 1]
      BY <2>4, <1>9, <1>13, <1>15, <1>18 DEF Shifted
    <3>2. b = [open |-> it.open, idx |-> i, depth |-> d - 1]
      BY <3>1, <1>16
    <3>3. b.open = it.open /\ b.idx = i /\ b.depth = d - 1
      BY <3>2
    <3>4. b \in ReaderType
      BY <3>2, <1>16 DEF ReaderType
    <3>5. w[1] = q /\ Len(w) = Len(s)
      <4>1. w = Cons(q, t)
        BY <2>4, <1>8
      <4>2. q \in GoodRange /\ t \in Seq(GoodRange)
        BY <2>4, <1>5, <1>7
      <4>3. Cons(q, t)[1] = q /\ Len(Cons(q, t)) = Len(t) + 1
        BY ONLY <4>2, ConsIs
      <4> QED BY <4>1, <4>3, <1>5
    <3>6. ASSUME met = "host"
          PROVE  b.idx < Len(w) /\ b.depth < Count(w[b.idx + 1])
      <4>1. d < Count(r)
        BY <3>6, <2>4, <1>5, <1>17
      <4>2. Count(q) = Count(r) - 1
        BY <2>4, <1>7
      <4>3. d - 1 < Count(q)
        BY <4>1, <4>2, <1>10, <1>16
      <4> QED BY <4>3, <3>3, <3>5, <2>4, <1>5
    <3> QED BY <3>3, <3>4, <3>6, <2>4, <1>16 DEF Keeps
  <2>5. CASE it.open /\ ~ IsEmpty(q) /\ ~ (i = 0 /\ d >= 0)
    <3>1. b = it
      BY <2>5, <1>9, <1>13, <1>15, <1>18 DEF Shifted
    <3>2. /\ Len(w) = Len(s)
          /\ \A k \in 1 .. Len(t) : w[k + 1] = t[k]
      <4>1. w = Cons(q, t)
        BY <2>5, <1>8
      <4>2. q \in GoodRange /\ t \in Seq(GoodRange)
        BY <2>5, <1>5, <1>7
      <4>3. /\ Len(Cons(q, t)) = Len(t) + 1
            /\ \A k \in 1 .. Len(t) : Cons(q, t)[k + 1] = t[k]
        BY ONLY <4>2, ConsIs
      <4> QED BY <4>1, <4>3, <1>5
    <3>3. ASSUME met = "host"
          PROVE  i < Len(w) /\ d < Count(w[i + 1])
      <4>1. i # 0 /\ i < Len(s) /\ d < Count(s[i + 1])
        BY <3>3, <2>5, <1>17
      <4>2. i \in 1 .. Len(s) - 1 /\ i \in 1 .. Len(t)
        BY <4>1, <1>5, <1>16
      <4>3. w[i + 1] = s[i + 1]
        BY <4>2, <3>2, <1>5
      <4> QED BY <4>1, <4>3, <3>2
    <3> QED BY <3>1, <3>3, <2>5, <1>14, <1>15 DEF Keeps
  <2> QED BY <2>1, <2>2, <2>3, <2>4, <2>5
<1>20. ReaderFits'
  <2>1. list'.hr = w
    BY <1>9
  <2>2. met' = "host" => met = "host" /\ ~ (b.depth < 0)
    BY <1>1, <1>18
  <2>3. b \in ReaderType /\ b.depth \in Int
    BY <1>19, ReaderIs DEF Keeps
  <2>4. b.depth >= -1
    BY <1>19 DEF Keeps
  <2>5. met' = "host" => /\ b.open /\ b.idx < Len(w) /\ 0 <= b.depth
                         /\ b.depth < Count(w[b.idx + 1])
    BY <2>2, <2>3, <1>19 DEF Keeps
  <2> QED BY <2>1, <2>3, <2>4, <2>5, <1>18 DEF ReaderFits
<1> QED BY <1>12, <1>20 DEF ListInv

\* As many hosts are pushed on the other list as there are.
LEMMA TakenIs ==
  ASSUME NEW s \in Seq(GoodRange)
  PROVE  Taken(s).nhosts = Total(s)
<1>0. PICK m : m = [hr |-> s]
  OBVIOUS
<1>1. m = [hr |-> s] /\ m.hr = s
  BY <1>0
<1>2. Empty \in ListType /\ Empty.nhosts = 0
  BY EmptyWhole DEF Whole, Empty
<1>3. PushAll(Empty, m).to.nhosts = Empty.nhosts + Total(m.hr)
  BY <1>1, <1>2, PushAllIs
<1>4. Total(s) \in Nat
  BY NamesAre
<1> QED BY <1>1, <1>2, <1>3, <1>4 DEF Taken

\* hostlist_pop_range() keeps it.
LEMMA PopRangeKeeps ==
  ASSUME ListInv, PopRange
  PROVE  ListInv'
<1>1. /\ Whole(list) /\ ReaderFits /\ reader' = reader
      /\ met' = IF met = "host" /\ reader.idx >= Len(list'.hr) THEN "gone"
                ELSE met
  BY DEF ListInv, PopRange
<1>2. PICK s, n : s = list.hr /\ n = list.nhosts
  OBVIOUS
<1>3. s \in Seq(GoodRange) /\ n = Total(s) /\ n \in Nat
  BY <1>1, <1>2, WholeIs
<1>4. PICK l \in Nat : l = Len(s) /\ DOMAIN s = 1 .. l
  BY <1>3, LenProperties
<1>5. PICK i \in 1 .. l :
        list' = [hr |-> SubSeq(s, 1, i - 1),
                 nhosts |-> n - Taken(SubSeq(s, i, l)).nhosts]
  BY <1>2, <1>4 DEF PopRange
<1>6. PICK a, b : a = SubSeq(s, 1, i - 1) /\ b = SubSeq(s, i, l)
  OBVIOUS
<1>7. PICK k \in 0 .. l : k = i - 1 /\ k + 1 = i
  <2>1. i - 1 \in 0 .. l /\ (i - 1) + 1 = i
    OBVIOUS
  <2> QED BY <2>1
<1>8. /\ a \in Seq(GoodRange) /\ b \in Seq(GoodRange) /\ Len(a) = k
      /\ \A j \in 1 .. k : a[j] = s[j]
      /\ Total(s) = Total(a) + Total(b)
  <2>1. InTwo(s, k, a, b)
    BY <1>4, <1>6, <1>7 DEF InTwo
  <2>2. k \in 0 .. Len(s)
    BY <1>4
  <2> QED BY <2>1, <2>2, <1>3, HalvesIs
<1>9. Total(a) \in Nat /\ Total(b) \in Nat
  BY <1>8, NamesAre
<1>10. list' = [hr |-> a, nhosts |-> n - Taken(b).nhosts]
  BY <1>5, <1>6
<1>11. n - Taken(b).nhosts = Total(a)
  BY <1>3, <1>8, <1>9, TakenIs
<1>12. Whole(list')
  BY <1>8, <1>10, <1>11, WholeAre
<1>13. ReaderFits'
  <2>1. SUFFICES ASSUME met' = "host"
                 PROVE  /\ reader.idx < Len(a)
                        /\ reader.depth < Count(a[reader.idx + 1])
    BY <1>1, <1>10 DEF ReaderFits
  <2>2. /\ met = "host" /\ ~ (reader.idx >= Len(a)) /\ reader.idx \in Nat
        /\ reader.depth < Count(s[reader.idx + 1])
    BY <2>1, <1>1, <1>2, <1>10, ReaderIs DEF ReaderFits
  <2>3. reader.idx < k
    BY <2>2, <1>8
  <2>4. reader.idx + 1 \in 1 .. k
    BY <2>2, <2>3
  <2>5. a[reader.idx + 1] = s[reader.idx + 1]
    BY <2>4, <1>8
  <2> QED BY <2>2, <2>3, <2>5, <1>8
<1> QED BY <1>12, <1>13 DEF ListInv

\* hostlist_shift_range() keeps it.
LEMMA ShiftRangeKeeps ==
  ASSUME ListInv, ShiftRange
  PROVE  ListInv'
<1>1. /\ Whole(list) /\ ReaderFits /\ met' = met /\ list.hr # <<>>
  BY DEF ListInv, ShiftRange
<1>2. PICK s, n : s = list.hr /\ n = list.nhosts
  OBVIOUS
<1>3. s \in Seq(GoodRange) /\ n = Total(s) /\ n \in Nat /\ s # <<>>
  BY <1>1, <1>2, WholeIs
<1>4. PICK l \in Nat : l = Len(s) /\ l >= 1
  BY <1>3, HeadTail
<1>5. PICK k \in 1 .. l : k = BracketEnd(s, 1) - 1
  <2>1. 1 \in 1 .. l
    BY <1>4
  <2>2. BracketEnd(s, 1) \in 1 + 1 .. l + 1
    BY <2>1, <1>4, BracketEndIs
  <2>3. BracketEnd(s, 1) - 1 \in 1 .. l
    BY <2>2
  <2> QED BY <2>3
<1>6. PICK a, b : a = SubSeq(s, 1, k) /\ b = SubSeq(s, k + 1, l)
  OBVIOUS
<1>7. /\ reader.open => reader.idx >= l
      /\ list' = [hr |-> b, nhosts |-> n - Taken(a).nhosts]
      /\ reader' = IF reader.open THEN [reader EXCEPT !.idx = @ - k]
                   ELSE reader
  BY <1>2, <1>4, <1>5, <1>6 DEF ShiftRange
<1>8. /\ a \in Seq(GoodRange) /\ b \in Seq(GoodRange) /\ Len(b) = l - k
      /\ \A j \in 1 .. l - k : b[j] = s[k + j]
      /\ Total(s) = Total(a) + Total(b)
  <2>1. InTwo(s, k, a, b)
    BY <1>4, <1>6 DEF InTwo
  <2>2. k \in 0 .. Len(s)
    BY <1>4
  <2>3. /\ a \in Seq(GoodRange) /\ b \in Seq(GoodRange)
        /\ Len(b) = Len(s) - k
        /\ \A j \in 1 .. Len(s) - k : b[j] = s[k + j]
        /\ Total(s) = Total(a) + Total(b)
    BY <2>1, <2>2, <1>3, HalvesIs
  <2> QED BY <2>3, <1>4
<1>9. Total(a) \in Nat /\ Total(b) \in Nat
  BY <1>8, NamesAre
<1>10. n - Taken(a).nhosts = Total(b)
  BY <1>3, <1>8, <1>9, TakenIs
<1>11. Whole(list')
  BY <1>7, <1>8, <1>10, WholeAre
<1>12. PICK it, c : it = reader /\ c = reader'
  OBVIOUS
<1>13. it \in ReaderType /\ it.depth >= -1
  BY <1>1, <1>12 DEF ReaderFits
<1>14. PICK i, d : i = it.idx /\ d = it.depth
  OBVIOUS
<1>15. i \in Nat /\ d \in Int /\ d >= -1 /\ it.open \in BOOLEAN
        /\ it = [open |-> it.open, idx |-> i, depth |-> d]
  BY <1>13, <1>14, ReaderIs
<1>16. CASE ~ it.open
  <2>1. met # "host" /\ c = it
    BY <1>1, <1>7, <1>12, <1>16 DEF ReaderFits
  <2>2. ReaderFits'
    BY <2>1, <1>1, <1>12, <1>13 DEF ReaderFits
  <2> QED BY <2>2, <1>11 DEF ListInv
<1>17. CASE it.open
  <2>1. c = [it EXCEPT !.idx = @ - k] /\ i >= l
    BY <1>7, <1>12, <1>14, <1>17
  <2>2. [it EXCEPT !.idx = @ - k]
          = [open |-> it.open, idx |-> i - k, depth |-> d]
    BY <1>15
  <2>3. i - k \in Nat
    BY <2>1, <1>4, <1>5, <1>15
  <2>4. c \in ReaderType /\ c.open = it.open /\ c.idx = i - k /\ c.depth = d
    BY <2>1, <2>2, <2>3, <1>15 DEF ReaderType
  <2>5. met # "host"
    <3>1. met = "host" => i < l
      BY <1>1, <1>2, <1>4, <1>12, <1>14 DEF ReaderFits
    <3> QED BY <3>1, <2>1, <1>4, <1>15
  <2>6. ReaderFits'
    <3>1. list'.hr = b
      BY <1>7
    <3> QED BY <3>1, <2>4, <2>5, <1>1, <1>12, <1>15 DEF ReaderFits
  <2> QED BY <2>6, <1>11 DEF ListInv
<1> QED BY <1>15, <1>16, <1>17

\* hostset_create() makes it so.
LEMMA SetCreateKeeps ==
  ASSUME SetCreate
  PROVE  ListInv'
<1>1. reader' = Closed /\ met' = "new"
  BY DEF SetCreate
<1>2. PICK t \in Text : list' \in Joined(Create(t))
  BY DEF SetCreate
<1>3. t \in Seq(Piece)
  BY ListAssumption
<1>4. Whole(Create(t))
  BY <1>3, CreateIs
<1>5. Whole(list')
  BY <1>2, <1>4, JoinedIs
<1>6. ReaderFits'
  BY <1>1, ClosedIs DEF ReaderFits
<1> QED BY <1>5, <1>6 DEF ListInv

\* hostset_insert() keeps it, of callers who heed what it counts twice.
LEMMA SetInsertKeeps ==
  ASSUME Careful, ListInv, SetInsert
  PROVE  ListInv'
<1>1. /\ Whole(list) /\ ReaderFits /\ Unread
      /\ reader' = reader /\ met' = met
  BY DEF ListInv, SetInsert
<1>2. PICK t \in Text : \E new \in Joined(Create(t)) :
            /\ \A k \in DOMAIN new.hr :
                 InsertsRight(InsertAll(list, SubSeq(new.hr, 1, k - 1)),
                              new.hr[k])
            /\ list' = InsertAll(list, new.hr)
  BY DEF SetInsert
<1>3. PICK new \in Joined(Create(t)) :
            /\ \A k \in DOMAIN new.hr :
                 InsertsRight(InsertAll(list, SubSeq(new.hr, 1, k - 1)),
                              new.hr[k])
            /\ list' = InsertAll(list, new.hr)
  BY <1>2
<1>4. t \in Seq(Piece)
  BY ListAssumption
<1>5. Whole(Create(t))
  BY <1>4, CreateIs
<1>6. Whole(new)
  BY <1>5, JoinedIs
<1>7. new.hr \in Seq(GoodRange) /\ DOMAIN new.hr = 1 .. Len(new.hr)
  BY <1>6, WholeIs, LenProperties
<1>8. AllRight(list, new.hr)
  BY <1>3, <1>7 DEF AllRight
<1>9. Whole(list')
  BY <1>1, <1>3, <1>7, <1>8, InsertAllIs
<1>10. ReaderFits'
  BY <1>1, UnreadKeeps
<1> QED BY <1>9, <1>10 DEF ListInv

\* Nothing changes when no call is made.
LEMMA ListStays ==
  ASSUME ListInv, UNCHANGED setVars
  PROVE  ListInv'
BY DEF ListInv, ReaderFits, setVars

\* Every call keeps it.
LEMMA ListGoesOn ==
  ASSUME Careful, ListInv, [SetNext]_setVars
  PROVE  ListInv'
<1>1. CASE ListOnly
  BY <1>1, ListOnlyKeeps
<1>2. CASE Lookups
  BY <1>2, LookupsKeep
<1>3. CASE Iterate
  BY <1>3, IterateKeeps
<1>4. CASE NextMet
  BY <1>4, NextMetKeeps
<1>5. CASE NextRange
  BY <1>5, NextRangeKeeps
<1>6. CASE RemoveMet
  BY <1>6, RemoveMetKeeps
<1>7. CASE Shift
  BY <1>7, ShiftKeeps
<1>8. CASE PopRange
  BY <1>8, PopRangeKeeps
<1>9. CASE ShiftRange
  BY <1>9, ShiftRangeKeeps
<1>10. CASE SetCreate
  BY <1>10, SetCreateKeeps
<1>11. CASE SetInsert
  BY <1>11, SetInsertKeeps
<1>12. CASE UNCHANGED setVars
  BY <1>12, ListStays
<1> QED
  BY <1>1, <1>2, <1>3, <1>4, <1>5, <1>6, <1>7, <1>8, <1>9, <1>10, <1>11,
     <1>12 DEF SetNext

\* A list of callers that heed what spoils one (Careful) never has an empty
\* range, its number of hosts is that of its names, and an iterator that has
\* just met a host is at a host that is there: whatever is pushed, popped,
\* deleted, sorted, united, shifted, removed or inserted, in whatever order.
THEOREM ListsStayWhole ==
  ASSUME Careful
  PROVE  SetSpec => []ListInv
<1>1. SetInit => ListInv
  BY ListStarts
<1>2. ListInv /\ [SetNext]_setVars => ListInv'
  BY ListGoesOn
<1> QED BY <1>1, <1>2, PTL DEF SetSpec

\* HostsCounted is part of it.
LEMMA WholeCounts == ListInv => HostsCounted
<1>1. SUFFICES ASSUME ListInv PROVE HostsCounted
  OBVIOUS
<1>2. /\ list.nhosts = Len(Names(list.hr))
      /\ \A i \in 1 .. Len(list.hr) : list.hr[i] \in GoodRange
  BY <1>1, WholeIs DEF ListInv, Total
<1>3. \A r \in ToSet(list.hr) : r \in GoodRange
  <2>1. list.hr \in Seq(GoodRange)
    BY <1>1, WholeIs DEF ListInv
  <2> QED BY <2>1, <1>2, LenProperties DEF ToSet
<1> QED BY <1>2, <1>3, CountIs DEF HostsCounted

\* The number of hosts that is kept beside the ranges is that of the names, and
\* no range is empty (hostlist_count(), by which callers size their arrays).
THEOREM HostsAlwaysCounted ==
  ASSUME Careful
  PROVE  SetSpec => []HostsCounted
BY ListsStayWhole, WholeCounts, PTL

\* ComparingIsSafe holds of all ranges that have a host.
LEMMA WholeCompares == ListInv => ComparingIsSafe
<1>1. SUFFICES ASSUME ListInv PROVE ComparingIsSafe
  OBVIOUS
<1>2. list.hr \in Seq(GoodRange)
  BY <1>1, WholeIs DEF ListInv
<1>3. \A r \in ToSet(list.hr) : r \in GoodRange
  BY <1>2, LenProperties, ElementOfSeq DEF ToSet
<1> QED BY <1>3, ComparesSafely

\* hostrange_cmp() and hostrange_width_combine() rewrite widths in the middle
\* of a sort and of a look-up; no name and no other comparison changes by it,
\* and any ranges of a list have an order.
THEOREM ComparingAlwaysSafe ==
  ASSUME Careful
  PROVE  SetSpec => []ComparingIsSafe
BY ListsStayWhole, WholeCompares, PTL

\* What a sort makes of a list that is padded alike.
LEMMA SortRight ==
  ASSUME Whole(list), PaddedAlike(list.hr), Sort
  PROVE  list'.hr \in Seq(GoodRange) /\ InOrder(list'.hr)
<1>1. PICK hr : hr = list.hr
  OBVIOUS
<1>2. hr \in Seq(GoodRange) /\ Len(hr) \in Nat
       /\ list = [hr |-> hr, nhosts |-> list.nhosts]
  BY <1>1, WholeIs
<1>3. Len(hr) >= 1
  BY <1>1, <1>2 DEF Sort
<1>4. PICK s \in Orders(hr), freed \in FreedLo :
        /\ Coalesce(s, freed).at <= 1
        /\ list' = [list EXCEPT !.hr = Collapse(Coalesce(s, freed).hr)]
  BY <1>1 DEF Sort
<1>5. SortedAs(s, hr)
  BY <1>2, OrdersAre
<1>6. PICK x : x = Coalesce(s, freed)
  OBVIOUS
<1>7. SortedOut(Coalesce(s, freed), hr)
  BY <1>1, <1>2, <1>3, <1>5, CoalescePadded
<1>8. x.hr \in Seq(GoodRange) /\ InOrder(x.hr)
  BY <1>4, <1>6, <1>7 DEF SortedOut
<1>9. PICK c : c = Collapse(x.hr)
  OBVIOUS
<1>10. c \in Seq(GoodRange) /\ InOrder(c)
  BY <1>8, <1>9, CollapseIs DEF CollapsedAs
<1>11. list' = [list EXCEPT !.hr = c]
  BY <1>4, <1>6, <1>9
<1>12. list'.hr = c
  BY <1>2, <1>11
<1> QED BY <1>10, <1>12

\* hostlist_sort() leaves the hosts in order of prefix and number, also those
\* of ranges that overlapped and were split, of any list whose names are padded
\* alike.
THEOREM SortingAlwaysOrders ==
  ASSUME Careful
  PROVE  SetSpec => SortOrders
<1>1. ListInv =>
        [PaddedAlike(list.hr) /\ Sort =>
           \A i, j \in DOMAIN list'.hr :
             LET r == list'.hr[i]
                 s == list'.hr[j]
             IN  i < j => \/ PrefixCmp(r, s) < 0
                          \/ Alike(r, s) /\ r.hi <= s.lo]_vars
  <2>1. SUFFICES ASSUME ListInv, PaddedAlike(list.hr), Sort,
                        NEW i \in DOMAIN list'.hr, NEW j \in DOMAIN list'.hr,
                        i < j
                 PROVE  Below(list'.hr[i], list'.hr[j])
    BY DEF Below
  <2>2. list'.hr \in Seq(GoodRange) /\ InOrder(list'.hr)
    BY <2>1, SortRight DEF ListInv
  <2>3. PICK c : c = list'.hr
    OBVIOUS
  <2>4. c \in Seq(GoodRange) /\ InOrder(c)
    BY <2>2, <2>3
  <2>5. i \in 1 .. Len(c) /\ j \in 1 .. Len(c)
    BY <2>3, <2>4, LenProperties
  <2>6. Below(c[i], c[j])
    BY <2>1, <2>4, <2>5, InOrderAll
  <2> QED BY <2>3, <2>6
<1>2. SetSpec => []ListInv
  BY ListsStayWhole
<1> QED BY <1>1, <1>2, PTL DEF SortOrders

(***************************************************************************)
(* Numerals, and what is read from them.                                   *)
(***************************************************************************)

\* Products keep the order.
LEMMA TimesOrder ==
  ASSUME NEW a \in Nat, NEW b \in Nat, NEW c \in Nat, a =< b
  PROVE  a * c \in Nat /\ b * c \in Nat /\ a * c =< b * c
<1>1. PICK d \in Nat : b = a + d
  <2>1. b - a \in Nat /\ b = a + (b - a)
    OBVIOUS
  <2> QED BY <2>1
<1>2. b * c = a * c + d * c
  BY <1>1
<1>3. a * c \in Nat /\ d * c \in Nat
  BY Times
<1> QED BY <1>2, <1>3

\* Quotient and remainder are what they are.
LEMMA OneQuotient ==
  ASSUME NEW q \in Nat, NEW a \in Nat, NEW b \in Nat,
         NEW d \in 0 .. q - 1, NEW e \in 0 .. q - 1, a * q + d = b * q + e
  PROVE  a = b /\ d = e
<1>0. a * q \in Nat /\ b * q \in Nat /\ d \in Nat /\ e \in Nat
  BY Times
<1>1. ASSUME a < b PROVE FALSE
  <2>1. (a + 1) * q =< b * q
    BY <1>1, TimesOrder
  <2>2. (a + 1) * q = a * q + q
    OBVIOUS
  <2> QED BY <2>1, <2>2, <1>0
<1>2. ASSUME b < a PROVE FALSE
  <2>1. (b + 1) * q =< a * q
    BY <1>2, TimesOrder
  <2>2. (b + 1) * q = b * q + q
    OBVIOUS
  <2> QED BY <2>1, <2>2, <1>0
<1>3. a = b
  BY <1>1, <1>2
<1> QED BY <1>3, <1>0

\* What dividing gives.
LEMMA Divides ==
  ASSUME NEW n \in Nat, NEW q \in Nat, q > 0
  PROVE  /\ n \div q \in Nat /\ n % q \in 0 .. q - 1
         /\ n = (n \div q) * q + (n % q)
<1>1. n \div q \in Nat /\ n % q \in 0 .. q - 1
  OBVIOUS
<1>2. n = q * (n \div q) + (n % q)
  OBVIOUS
<1>3. q * (n \div q) = (n \div q) * q
  BY <1>1
<1> QED BY <1>1, <1>2, <1>3

\* A quotient.
Quotient(n, q) == n \div q

\* Dividing twice is dividing by the product.
LEMMA DividesTwice ==
  ASSUME NEW n \in Nat, NEW q \in Nat, q > 0, NEW r \in Nat, r > 0,
         NEW p \in Nat, p = r * q
  PROVE  Quotient(n, p) = Quotient(Quotient(n, q), r)
<1>1. PICK m \in Nat, x \in Nat : m = n \div q /\ x < q /\ n = m * q + x
  <2>1. n \div q \in Nat /\ n % q \in Nat /\ n % q < q
    BY Divides
  <2> QED BY <2>1, Divides
<1>2. PICK a \in Nat, c \in Nat : a = m \div r /\ c < r /\ m = a * r + c
  <2>1. m \div r \in Nat /\ m % r \in Nat /\ m % r < r
    BY Divides
  <2> QED BY <2>1, Divides
<1>3. r * q \in Nat /\ r * q > 0
  <2>1. 1 * q =< r * q
    BY TimesOrder
  <2> QED BY <2>1, Times
<1>4. m * q = a * (r * q) + c * q
  <2>1. (a * r + c) * q = (a * r) * q + c * q
    BY Times
  <2>2. (a * r) * q = a * (r * q)
    OBVIOUS
  <2> QED BY <1>2, <2>1, <2>2
<1>5. c * q + x \in 0 .. r * q - 1
  <2>1. (c + 1) * q =< r * q
    BY <1>2, TimesOrder
  <2>2. (c + 1) * q = c * q + q /\ c * q \in Nat
    BY Times
  <2> QED BY <2>1, <2>2, <1>1, <1>3
<1>6. PICK g \in Nat : g = p /\ g > 0
  BY <1>3
<1>7. PICK y \in 0 .. g - 1 : y = c * q + x
  BY <1>5, <1>6
<1>8. n = a * g + y
  <2>1. a * g \in Nat /\ c * q \in Nat
    BY Times
  <2> QED BY <2>1, <1>1, <1>4, <1>6, <1>7
<1>9. PICK b \in Nat, z \in 0 .. g - 1 : b = n \div g /\ n = b * g + z
  <2>1. n \div g \in Nat /\ n % g \in 0 .. g - 1
         /\ n = (n \div g) * g + (n % g)
    BY <1>6, Divides
  <2> QED BY <2>1
<1>10. b = a
  BY <1>8, <1>9, OneQuotient
<1> QED BY <1>1, <1>2, <1>6, <1>9, <1>10 DEF Quotient

\* Nothing is read as 0.
LEMMA ValueNone == Value(<<>>) = 0
<1>1. <<>> \in Seq(0 .. Radix - 1) /\ Len(<<>>) = 0
  OBVIOUS
<1>2. PICK h : Reading(h, <<>>) /\ Value(<<>>) = h[Len(<<>>)]
  BY <1>1, ValueRuns
<1> QED BY <1>1, <1>2 DEF Reading

\* What one digit more is read as.
LEMMA ValueOne ==
  ASSUME NEW s \in Seq(0 .. Radix - 1), NEW d \in 0 .. Radix - 1
  PROVE  /\ Append(s, d) \in Seq(0 .. Radix - 1)
         /\ Value(Append(s, d)) = Value(s) * Radix + d
<1> DEFINE B == 0 .. Radix - 1
           q == Append(s, d)
           N == Len(s)
<1>1. s \in Seq(B) /\ d \in B
  OBVIOUS
<1> HIDE DEF B
<1>2. N \in Nat /\ q \in Seq(B) /\ Len(q) = N + 1 /\ q[N + 1] = d
       /\ \A i \in 1 .. N : q[i] = s[i]
  BY <1>1, AppendProperties, LenProperties
<1> HIDE DEF q
<1>3. PICK h : Reading(h, s) /\ Value(s) = h[N]
  BY <1>1, ValueRuns DEF B
<1>4. PICK g : Reading(g, q) /\ Value(q) = g[N + 1]
  BY <1>2, ValueRuns DEF B
<1>5. h[0] = 0 /\ \A i \in 1 .. N : h[i] = h[i - 1] * Radix + s[i]
  BY <1>3 DEF Reading
<1>6. g[0] = 0 /\ \A i \in 1 .. N + 1 : g[i] = g[i - 1] * Radix + q[i]
  BY <1>4, <1>2 DEF Reading
<1> DEFINE T == {k \in Nat : k =< N => g[k] = h[k]}
<1>7. 0 \in T
  BY <1>5, <1>6
<1>8. ASSUME NEW k \in Nat, k \in T PROVE k + 1 \in T
  <2> SUFFICES ASSUME k + 1 =< N PROVE g[k + 1] = h[k + 1]
    OBVIOUS
  <2>1. k + 1 \in 1 .. N /\ k + 1 \in 1 .. N + 1 /\ (k + 1) - 1 = k /\ k =< N
    BY <1>2
  <2>2. g[k] = h[k]
    BY <2>1, <1>8
  <2>3. g[k + 1] = g[k] * Radix + q[k + 1]
    BY <2>1, <1>6
  <2>4. h[k + 1] = h[k] * Radix + s[k + 1]
    BY <2>1, <1>5
  <2>5. q[k + 1] = s[k + 1]
    BY <2>1, <1>2
  <2> QED BY <2>2, <2>3, <2>4, <2>5
<1> HIDE DEF T
<1>9. N \in T
  <2>1. \A k \in Nat : k \in T => k + 1 \in T
    BY <1>8
  <2> QED BY <2>1, <1>7, <1>2, Induction
<1>10. g[N] = h[N]
  BY <1>9, <1>2 DEF T
<1>11. g[N + 1] = g[N] * Radix + d
  <2>1. N + 1 \in 1 .. N + 1 /\ (N + 1) - 1 = N
    BY <1>2
  <2>2. g[N + 1] = g[(N + 1) - 1] * Radix + q[N + 1]
    BY <2>1, <1>6
  <2> QED BY <2>1, <2>2, <1>2
<1> QED BY <1>2, <1>3, <1>4, <1>10, <1>11 DEF q, B

\* A sequence that is not empty is another and its last element.
LEMMA LastApart ==
  ASSUME NEW E, NEW s \in Seq(E), NEW n \in Nat, Len(s) = n + 1
  PROVE  \E t \in Seq(E), e \in E : s = Append(t, e) /\ Len(t) = n
<1>1. s # <<>>
  BY EmptySeq
<1>2. PICK t \in Seq(E), e \in E : s = Append(t, e)
  BY <1>1, SequenceEmptyOrAppend
<1>3. Len(s) = Len(t) + 1 /\ Len(t) \in Nat
  BY <1>2, AppendProperties, LenProperties
<1> QED BY <1>2, <1>3

\* Digits stand for a number with at most as many.
LEMMA ValueBelow ==
  ASSUME NEW s \in Seq(0 .. Radix - 1)
  PROVE  Value(s) < Power[Len(s)]
<1> DEFINE B == 0 .. Radix - 1
           T == {q \in Seq(B) : Value(q) < Power[Len(q)]}
<1>1. <<>> \in T
  <2>1. <<>> \in Seq(B) /\ Len(<<>>) = 0
    OBVIOUS
  <2> QED BY <2>1, ValueNone, PowerIs
<1>2. ASSUME NEW q \in Seq(B), NEW d \in B, q \in T PROVE Append(q, d) \in T
  <2>1. Append(q, d) \in Seq(B) /\ Value(Append(q, d)) = Value(q) * Radix + d
    BY ValueOne
  <2>2. PICK n \in Nat : n = Len(q) /\ Len(Append(q, d)) = n + 1
    BY LenProperties, AppendProperties
  <2>3. PICK p \in Nat : p = Power[n] /\ Power[n + 1] = Radix * p
    BY PowerIs
  <2>4. PICK v \in Nat : v = Value(q) /\ v < p
    BY <1>2, <2>2, <2>3, ValueIs
  <2>5. PICK r \in Nat : r = Radix /\ d \in Nat /\ d < r
    BY RangeAssumption
  <2>6. (v + 1) * r =< p * r /\ p * r \in Nat
    BY <2>4, TimesOrder, SMTT(30)
  <2>7. (v + 1) * r = v * r + r /\ v * r \in Nat /\ p * r = r * p
    BY Times
  <2>8. v * r + d < p * r
    <3>1. PICK x \in Nat, y \in Nat, e \in Nat : x = v * r /\ y = p * r /\ e = d
      BY <2>5, <2>6, <2>7
    <3>2. x + r =< y /\ e < r
      BY <3>1, <2>5, <2>6, <2>7
    <3>3. x + e < y
      BY ONLY <3>2, x \in Nat, y \in Nat, e \in Nat, r \in Nat
    <3> QED BY <3>1, <3>3
  <2>9. Value(Append(q, d)) < Power[Len(Append(q, d))]
    BY <2>1, <2>2, <2>3, <2>4, <2>5, <2>7, <2>8
  <2> QED BY <2>1, <2>9
<1> HIDE DEF T
<1>3. s \in T
  <2>1. \A q \in Seq(B), d \in B : q \in T => Append(q, d) \in T
    BY <1>2
  <2> HIDE DEF B
  <2>2. s \in Seq(B)
    BY DEF B
  <2> QED BY <2>1, <2>2, <1>1, SeqInduction
<1> QED BY <1>3 DEF T

\* As many digits that stand for the same number are the same.
LEMMA ValueOnce ==
  ASSUME NEW s \in Seq(0 .. Radix - 1), NEW t \in Seq(0 .. Radix - 1),
         Len(s) = Len(t), Value(s) = Value(t)
  PROVE  s = t
<1> DEFINE B == 0 .. Radix - 1
           T == {q \in Seq(B) : \A u \in Seq(B) :
                   Len(q) = Len(u) /\ Value(q) = Value(u) => q = u}
<1>1. <<>> \in T
  <2>1. <<>> \in Seq(B) /\ \A u \in Seq(B) : Len(<<>>) = Len(u) => <<>> = u
    BY EmptySeq
  <2> QED BY <2>1
<1>2. ASSUME NEW q \in Seq(B), NEW d \in B, q \in T PROVE Append(q, d) \in T
  <2>1. Append(q, d) \in Seq(B) /\ Value(Append(q, d)) = Value(q) * Radix + d
    BY ValueOne
  <2>2. PICK n \in Nat : n = Len(q) /\ Len(Append(q, d)) = n + 1
    BY LenProperties, AppendProperties
  <2>3. ASSUME NEW u \in Seq(B), Len(Append(q, d)) = Len(u),
               Value(Append(q, d)) = Value(u)
        PROVE  Append(q, d) = u
    <3>1. PICK w \in Seq(B), e \in B : u = Append(w, e) /\ Len(w) = n
      <4> HIDE DEF B
      <4> QED BY <2>2, <2>3, LastApart, ZenonT(60)
    <3>2. Value(u) = Value(w) * Radix + e
      BY <3>1, ValueOne
    <3>3. PICK x \in Nat, y \in Nat : x = Value(q) /\ y = Value(w)
      BY ValueIs
    <3>4. x * Radix + d = y * Radix + e
      BY <2>1, <2>3, <3>2, <3>3
    <3>5. x = y /\ d = e
      BY <3>4, OneQuotient, RangeAssumption, ZenonT(60)
    <3>6. q = w
      BY <1>2, <2>2, <3>1, <3>3, <3>5
    <3> QED BY <3>1, <3>5, <3>6
  <2> HIDE DEF B
  <2> QED BY <2>1, <2>3
<1> HIDE DEF T
<1>3. s \in T
  <2>1. \A q \in Seq(B), d \in B : q \in T => Append(q, d) \in T
    BY <1>2
  <2> HIDE DEF B
  <2>2. s \in Seq(B)
    BY DEF B
  <2> QED BY <2>1, <2>2, <1>1, SeqInduction
<1> QED BY <1>3 DEF T

\* What is read does not get less by digits in front.
LEMMA ValueBehind ==
  ASSUME NEW a \in Seq(0 .. Radix - 1), NEW b \in Seq(0 .. Radix - 1)
  PROVE  a \o b \in Seq(0 .. Radix - 1) /\ Value(b) =< Value(a \o b)
<1> DEFINE B == 0 .. Radix - 1
           T == {q \in Seq(B) : Value(q) =< Value(a \o q)}
<1>0. \A q \in Seq(B) : a \o q \in Seq(B)
  OBVIOUS
<1>1. <<>> \in T
  <2>1. <<>> \in Seq(B) /\ a \o <<>> = a
    BY ConcatEmptySeq
  <2> QED BY <2>1, ValueNone, ValueIs
<1>2. ASSUME NEW q \in Seq(B), NEW d \in B, q \in T PROVE Append(q, d) \in T
  <2>1. Append(q, d) \in Seq(B) /\ Value(Append(q, d)) = Value(q) * Radix + d
    BY ValueOne
  <2>2. a \o Append(q, d) = Append(a \o q, d)
    <3> HIDE DEF B
    <3>1. Append(q, d) = q \o <<d>> /\ Append(a \o q, d) = (a \o q) \o <<d>>
      BY <1>0, AppendIsConcat
    <3>2. (a \o q) \o <<d>> = a \o (q \o <<d>>)
      BY ConcatAssociative, SMTT(30) DEF B
    <3> QED BY <3>1, <3>2
  <2>3. Value(a \o Append(q, d)) = Value(a \o q) * Radix + d
    BY <2>2, <1>0, ValueOne
  <2>4. PICK x \in Nat, y \in Nat : x = Value(q) /\ y = Value(a \o q) /\ x =< y
    BY <1>0, <1>2, ValueIs
  <2>5. x * Radix =< y * Radix /\ x * Radix \in Nat /\ y * Radix \in Nat
    BY <2>4, TimesOrder, RangeAssumption
  <2>6. Value(Append(q, d)) =< Value(a \o Append(q, d))
    BY <2>1, <2>3, <2>4, <2>5
  <2> QED BY <2>1, <2>6
<1> HIDE DEF T
<1>3. b \in T
  <2>1. \A q \in Seq(B), d \in B : q \in T => Append(q, d) \in T
    BY <1>2
  <2> HIDE DEF B
  <2>2. b \in Seq(B)
    BY DEF B
  <2> QED BY <2>1, <2>2, <1>1, SeqInduction
<1> QED BY <1>0, <1>3 DEF T

\* What is printed of a number is read as that number.
LEMMA NumeralRead ==
  ASSUME NEW n \in Nat, NEW w \in Nat
  PROVE  Value(Numeral(n, w)) = n
<1>1. PICK D \in Nat : D = Larger(w, DigitsOf(n)) /\ D >= 1 /\ DigitsOf(n) =< D
                       /\ DigitsOf(n) \in Nat /\ n < Power[DigitsOf(n)]
  BY DigitsIs DEF Larger
<1>2. PICK s \in Seq(0 .. Radix - 1) : s = Numeral(n, w) /\ Len(s) = D
  BY <1>1, NumeralIs
<1>3. \A i \in 1 .. D : s[i] = (n \div Power[D - i]) % Radix
  BY <1>1, <1>2 DEF Numeral
<1>4. PICK h \in [0 .. D -> Nat] : Reading(h, s) /\ Value(s) = h[D]
  BY <1>2, ValueRuns
<1>5. h[0] = 0 /\ \A k \in 1 .. D : h[k] = h[k - 1] * Radix + s[k]
  BY <1>2, <1>4 DEF Reading
<1> DEFINE T == {k \in Nat : k =< D => h[k] = n \div Power[D - k]}
<1>6. 0 \in T
  <2>1. Power[DigitsOf(n)] =< Power[D]
    BY <1>1, PowerGrows
  <2>2. PICK p \in Nat : p = Power[D] /\ n < p /\ p > 0
    <3>1. Power[D] \in Nat /\ Power[D] > 0 /\ Power[DigitsOf(n)] \in Nat
      <4>1. Power[D] \in Nat \ {0} /\ Power[DigitsOf(n)] \in Nat \ {0}
        BY <1>1, PowerIs
      <4> QED BY <4>1
    <3>2. n < Power[D]
      BY <3>1, <2>1, <1>1
    <3> QED BY <3>1, <3>2
  <2>3. n \div p = 0
    <3>1. n \div p \in Nat /\ n % p \in 0 .. p - 1
           /\ n = (n \div p) * p + (n % p)
      BY <2>2, Divides
    <3>2. 0 * p = 0 /\ n \in 0 .. p - 1
      BY <2>2
    <3>3. 0 * p + n = n
      BY <3>2
    <3>4. 0 * p + n = (n \div p) * p + (n % p)
      BY <3>1, <3>3
    <3> QED BY <3>1, <3>2, <3>4, OneQuotient
  <2>4. D - 0 = D
    BY <1>1
  <2> QED BY <2>2, <2>3, <2>4, <1>5
<1>7. ASSUME NEW k \in Nat, k \in T PROVE k + 1 \in T
  <2> SUFFICES ASSUME k + 1 =< D PROVE h[k + 1] = n \div Power[D - (k + 1)]
    OBVIOUS
  <2>1. k + 1 \in 1 .. D /\ (k + 1) - 1 = k /\ k =< D
    BY <1>1
  <2>2. PICK e \in Nat : e = D - (k + 1) /\ D - k = e + 1
    <3>1. D - (k + 1) \in Nat /\ D - k = (D - (k + 1)) + 1
      BY ONLY <2>1, D \in Nat, k \in Nat
    <3> QED BY <3>1
  <2>3. PICK q \in Nat : q = Power[e] /\ q > 0 /\ Power[e + 1] = Radix * q
    <3>1. Power[e] \in Nat \ {0}
      BY PowerIs
    <3>2. Power[e] > 0
      BY <3>1
    <3> QED BY <3>1, <3>2, PowerIs
  <2>4. PICK m \in Nat : m = n \div q
    BY <2>3, Divides
  <2>5. h[k] = m \div Radix
    <3>1. h[k] = n \div Power[D - k]
      BY <1>7, <2>1
    <3>2. PICK p : p = Radix * q
      OBVIOUS
    <3>3. Radix \in Nat /\ Radix > 0
      BY RangeAssumption
    <3>4. n \div p = (n \div q) \div Radix
      <4>1. Quotient(n, p) = Quotient(Quotient(n, q), Radix)
        <5>1. n \in Nat /\ q \in Nat /\ q > 0 /\ Radix \in Nat /\ Radix > 0
               /\ p = Radix * q
          BY <3>2, <3>3, <2>3
        <5>2. p \in Nat
          BY <5>1
        <5> QED BY <5>1, <5>2, DividesTwice
      <4> QED BY <4>1 DEF Quotient
    <3> QED BY <3>1, <3>2, <3>4, <2>2, <2>3, <2>4
  <2>6. s[k + 1] = m % Radix
    BY <2>1, <2>2, <2>3, <2>4, <1>3
  <2>7. h[k + 1] = h[k] * Radix + s[k + 1]
    BY <2>1, <1>5
  <2>8. m = (m \div Radix) * Radix + (m % Radix)
    <3>1. Radix \in Nat /\ Radix > 0
      BY RangeAssumption
    <3> QED BY <3>1, Divides
  <2> QED BY <2>2, <2>3, <2>4, <2>5, <2>6, <2>7, <2>8
<1> HIDE DEF T
<1>8. D \in T
  <2>1. \A k \in Nat : k \in T => k + 1 \in T
    BY <1>7
  <2> QED BY <2>1, <1>6, <1>1, Induction
<1>9. h[D] = n \div Power[0]
  <2>1. D - D = 0 /\ D =< D
    BY <1>1
  <2> QED BY <1>8, <2>1 DEF T
<1>10. n \div Power[0] = n
  BY PowerIs
<1> QED BY <1>2, <1>4, <1>9, <1>10

\* What is read from digits prints as these, as wide as they are.
LEMMA NumeralOf ==
  ASSUME NEW s \in Seq(0 .. Radix - 1), s # <<>>
  PROVE  /\ Numeral(Value(s), Len(s)) = s
         /\ DigitsOf(Value(s)) =< Len(s)
<1>1. PICK n \in Nat : n = Value(s) /\ n < Power[Len(s)]
  BY ValueIs, ValueBelow
<1>2. PICK L \in Nat : L = Len(s) /\ L >= 1
  BY LenProperties, EmptySeq
<1>3. PICK d \in Nat : d = DigitsOf(n) /\ d >= 1 /\ (d = 1 \/ n >= Power[d - 1])
  BY <1>1, DigitsIs
<1>4. d =< L
  <2> SUFFICES ASSUME d > L PROVE FALSE
    BY <1>2, <1>3
  <2>1. d - 1 \in Nat /\ L =< d - 1 /\ d # 1
    BY <1>2, <1>3
  <2>2. Power[L] =< Power[d - 1] /\ Power[L] \in Nat /\ Power[d - 1] \in Nat
    BY <2>1, PowerGrows, PowerIs
  <2> QED BY <2>1, <2>2, <1>1, <1>2, <1>3
<1>5. Larger(L, d) = L
  BY <1>4 DEF Larger
<1>6. Numeral(n, L) \in Seq(0 .. Radix - 1) /\ Len(Numeral(n, L)) = L
       /\ Value(Numeral(n, L)) = n
  BY <1>3, <1>5, NumeralIs, NumeralRead
<1>7. Numeral(n, L) = s
  BY <1>1, <1>2, <1>6, ValueOnce
<1> QED BY <1>1, <1>2, <1>3, <1>4, <1>7

(***************************************************************************)
(* A name in a range.                                                      *)
(***************************************************************************)

\* h is p with the digits a in the prefix and b in the suffix.
SplitInto(h, p, a, b) ==
  /\ h.valid = (b # <<>> /\ Value(b) <= MaxSuffix)
  /\ h.valid => /\ h.num = Value(b) /\ h.suffix = b
                /\ h.prefix = [base |-> p.base, digits |-> a]

\* Where the digits of a name are parted.
LEMMA SplitParts ==
  ASSUME NEW p \in Name, NEW k \in 0 .. Len(p.digits)
  PROVE  \E a \in Seq(0 .. Radix - 1), b \in Seq(0 .. Radix - 1) :
           /\ a = SubSeq(p.digits, 1, k)
           /\ b = SubSeq(p.digits, k + 1, Len(p.digits))
           /\ p.digits = a \o b /\ Len(a) = k /\ Len(b) = Len(p.digits) - k
           /\ SplitInto(Split(p, k), p, a, b)
<1> DEFINE B == 0 .. Radix - 1
<1>1. PICK d \in Seq(B), n \in Nat : d = p.digits /\ n = Len(d)
  BY NameIs
<1>2. k \in Nat /\ k =< n
  BY <1>1
<1> HIDE DEF B
<1>3. PICK a \in Seq(B) : a = SubSeq(d, 1, k) /\ Len(a) = k
  <2>1. 1 \in Nat /\ 1 =< 1 /\ k =< Len(d) /\ k \in Nat
    BY <1>1, <1>2
  <2>2. SubSeq(d, 1, k) \in Seq(B)
         /\ Len(SubSeq(d, 1, k)) = (IF 1 =< k THEN k - 1 + 1 ELSE 0)
    BY <2>1, PartIs
  <2>3. (IF 1 =< k THEN k - 1 + 1 ELSE 0) = k
    BY ONLY k \in Nat
  <2> QED BY <2>2, <2>3
<1>4. PICK b \in Seq(B) : b = SubSeq(d, k + 1, n) /\ Len(b) = n - k
  <2>1. k + 1 \in Nat /\ 1 =< k + 1 /\ n =< Len(d) /\ n \in Nat
    BY <1>1, <1>2
  <2>2. SubSeq(d, k + 1, n) \in Seq(B)
         /\ Len(SubSeq(d, k + 1, n))
              = (IF k + 1 =< n THEN n - (k + 1) + 1 ELSE 0)
    BY <2>1, PartIs
  <2>3. (IF k + 1 =< n THEN n - (k + 1) + 1 ELSE 0) = n - k
    BY ONLY k \in Nat, n \in Nat, <1>2
  <2> QED BY <2>2, <2>3
<1>5. d = a \o b
  <2>1. 1 \in 1 .. Len(d) + 1 /\ k \in 1 - 1 .. Len(d) /\ n \in k .. Len(d)
    BY <1>1, <1>2
  <2>2. SubSeq(d, 1, k) \o SubSeq(d, k + 1, n) = SubSeq(d, 1, n)
    BY <2>1, ConcatAdjacentSubSeq
  <2>3. SubSeq(d, 1, n) = d
    BY <1>1, SubSeqFull
  <2> QED BY <2>2, <2>3, <1>3, <1>4
<1>6. Split(p, k) = SplitAt(p, a, b)
  BY <1>1, <1>3, <1>4 DEF Split
<1>7. [p EXCEPT !.digits = a] = [base |-> p.base, digits |-> a]
  BY NameIs, Digits
<1>8. SplitInto(SplitAt(p, a, b), p, a, b)
  <2>1. CASE b # <<>> /\ Value(b) <= MaxSuffix
    <3>1. SplitAt(p, a, b)
            = [name |-> p, valid |-> TRUE, num |-> Value(b),
               prefix |-> [base |-> p.base, digits |-> a], suffix |-> b]
      BY <2>1, <1>7 DEF SplitAt
    <3>2. PICK h : h = SplitAt(p, a, b)
      OBVIOUS
    <3>3. h.valid = TRUE /\ h.num = Value(b) /\ h.suffix = b
           /\ h.prefix = [base |-> p.base, digits |-> a]
      BY <3>1, <3>2
    <3> QED BY <3>2, <3>3, <2>1 DEF SplitInto
  <2>2. CASE ~ (b # <<>> /\ Value(b) <= MaxSuffix)
    <3>1. SplitAt(p, a, b).valid = FALSE
      BY <2>2 DEF SplitAt
    <3> QED BY <3>1, <2>2 DEF SplitInto
  <2> QED BY <2>1, <2>2
<1> QED BY <1>1, <1>3, <1>4, <1>5, <1>6, <1>8 DEF B

\* The names of a range that are looked up have numbers up to MAX_HOST_SUFFIX,
\* the digits in the prefix of the range included.
InReach(r) ==
  ~ r.single => \A n \in r.lo .. r.hi :
                  Value(Host(r.prefix, n, r.width).digits) <= MaxSuffix

\* What is found in a range is the name at the offset.
LEMMA FoundRight ==
  ASSUME NEW r \in GoodRange, ~ r.single, NEW p \in Name,
         Within(r, p).at >= 0
  PROVE  /\ Within(r, p).at \in 0 .. r.hi - r.lo
         /\ p = Host(r.prefix, r.lo + Within(r, p).at, r.width)
<1> DEFINE none == [at |-> -1, range |-> r]
<1>1. PICK m \in 0 .. Len(p.digits) : m = Moved(r, p)
  BY MovedIs
<1>2. PICK a \in Seq(0 .. Radix - 1), b \in Seq(0 .. Radix - 1) :
        p.digits = a \o b /\ SplitInto(Split(p, m), p, a, b)
  BY SplitParts
<1>3. PICK h : h = Split(p, m)
  OBVIOUS
<1>4. PICK e : e = WidthEquiv(r.lo, r.width, h.num, Len(h.suffix))
  OBVIOUS
<1>5. Within(r, p) = IF h.valid /\ h.prefix = r.prefix /\ h.num \in r.lo .. r.hi
                     THEN IF e.ok
                          THEN [at |-> h.num - r.lo,
                                range |-> [r EXCEPT !.width = e.wn]]
                          ELSE none
                     ELSE none
  BY <1>1, <1>3, <1>4 DEF Within
<1>6. ~ (none.at >= 0)
  OBVIOUS
<1> HIDE DEF none
<1>7. h.valid /\ h.prefix = r.prefix /\ h.num \in r.lo .. r.hi /\ e.ok
  BY <1>5, <1>6
<1>8. Within(r, p).at = h.num - r.lo
  BY <1>5, <1>7
<1>9. b # <<>> /\ h.num = Value(b) /\ h.suffix = b
       /\ h.prefix = [base |-> p.base, digits |-> a]
  BY <1>2, <1>3, <1>7 DEF SplitInto
<1>10. r.lo \in Nat /\ r.hi \in Nat /\ r.width \in Nat
  BY GoodIs
<1>11. PICK n \in Nat, l \in Nat : n = Value(b) /\ l = Len(b)
                                   /\ n \in r.lo .. r.hi
  BY <1>7, <1>9, ValueIs, LenProperties
<1>12. Numeral(n, l) = b /\ DigitsOf(n) =< l
  BY <1>9, <1>11, NumeralOf
<1>13. Numeral(n, r.width) = Numeral(n, l)
  <2>1. \/ ZeroPadded(r.lo, r.width) = ZeroPadded(r.lo, l)
        \/ ZeroPadded(n, l) = ZeroPadded(n, r.width)
    BY <1>4, <1>7, <1>9, <1>11 DEF WidthEquiv
  <2>2. CASE ZeroPadded(r.lo, r.width) = ZeroPadded(r.lo, l)
    <3>1. Fits(r.lo, r.width, l)
      BY <2>2, <1>10, <1>11, PaddedFits
    <3> QED BY <3>1, <1>10, <1>11, FitsKeeps
  <2>3. CASE ZeroPadded(n, l) = ZeroPadded(n, r.width)
    <3>1. Fits(n, l, r.width)
      BY <2>3, <1>10, <1>11, PaddedFits
    <3>2. n =< n
      BY <1>11
    <3> QED BY <3>1, <3>2, <1>10, <1>11, FitsKeeps
  <2> QED BY <2>1, <2>2, <2>3
<1>14. p = Host(r.prefix, n, r.width)
  <2>1. Host(r.prefix, n, r.width)
          = [base |-> r.prefix.base,
             digits |-> r.prefix.digits \o Numeral(n, r.width)]
    BY <1>10, <1>11, GoodIs, HostIs
  <2>2. r.prefix.base = p.base /\ r.prefix.digits = a
    BY <1>7, <1>9
  <2>3. p = [base |-> p.base, digits |-> p.digits]
    BY NameIs
  <2> QED BY <2>1, <2>2, <2>3, <1>2, <1>12, <1>13
<1>15. h.num - r.lo \in 0 .. r.hi - r.lo /\ r.lo + (h.num - r.lo) = n
  BY <1>9, <1>10, <1>11
<1> QED BY <1>8, <1>14, <1>15

\* Two sequences, one after the other.
LEMMA CatIs ==
  ASSUME NEW E, NEW s \in Seq(E), NEW t \in Seq(E), NEW m \in Nat, NEW n \in Nat,
         m = Len(s), n = Len(t), NEW q, q = s \o t
  PROVE  /\ q \in Seq(E) /\ Len(q) = m + n
         /\ \A i \in 1 .. m : q[i] = s[i]
         /\ \A i \in 1 .. n : q[m + i] = t[i]
<1>1. /\ q \in Seq(E) /\ Len(q) = m + n
      /\ \A i \in 1 .. m + n : q[i] = IF i <= m THEN s[i] ELSE t[i - m]
  BY ConcatProperties
<1>2. ASSUME NEW i \in 1 .. m PROVE q[i] = s[i]
  <2>1. i \in 1 .. m + n /\ i <= m
    OBVIOUS
  <2> QED BY <2>1, <1>1
<1>3. ASSUME NEW i \in 1 .. n PROVE q[m + i] = t[i]
  <2>1. m + i \in 1 .. m + n /\ ~ (m + i <= m) /\ (m + i) - m = i
    OBVIOUS
  <2> QED BY <2>1, <1>1
<1> QED BY <1>1, <1>2, <1>3

\* What one sequence begins with, another does.
LEMMA PrefixIs ==
  ASSUME NEW E, NEW x \in Seq(E), NEW y \in Seq(E), Len(x) =< Len(y),
         \A i \in 1 .. Len(x) : x[i] = y[i]
  PROVE  IsPrefix(x, y)
<1>1. PICK w \in Nat : w = Len(x)
  BY LenProperties
<1>2. 1 \in Nat /\ w =< Len(x) /\ w =< Len(y) /\ 1 =< 1
  BY <1>1
<1>3. /\ SubSeq(x, 1, w) \in Seq(E)
      /\ Len(SubSeq(x, 1, w)) = IF 1 =< w THEN w - 1 + 1 ELSE 0
      /\ \A i \in 1 .. w - 1 + 1 : SubSeq(x, 1, w)[i] = x[1 + i - 1]
  BY <1>2, PartIs
<1>4. /\ SubSeq(y, 1, w) \in Seq(E)
      /\ Len(SubSeq(y, 1, w)) = IF 1 =< w THEN w - 1 + 1 ELSE 0
      /\ \A i \in 1 .. w - 1 + 1 : SubSeq(y, 1, w)[i] = y[1 + i - 1]
  BY <1>2, PartIs
<1>5. (IF 1 =< w THEN w - 1 + 1 ELSE 0) = w
  BY ONLY w \in Nat
<1>6. ASSUME NEW i \in 1 .. w PROVE SubSeq(x, 1, w)[i] = SubSeq(y, 1, w)[i]
  <2>1. i \in 1 .. w - 1 + 1 /\ 1 + i - 1 = i
    OBVIOUS
  <2>2. SubSeq(x, 1, w)[i] = x[i] /\ SubSeq(y, 1, w)[i] = y[i]
    BY <2>1, <1>3, <1>4
  <2> QED BY <2>2, <1>1
<1>7. SubSeq(x, 1, w) = SubSeq(y, 1, w)
  BY <1>3, <1>4, <1>5, <1>6, SeqEqual
<1> QED BY <1>1, <1>7 DEF IsPrefix

\* A name with the digits of another before its own.
LEMMA MoreDigitsIn ==
  ASSUME NEW r \in GoodRange, NEW p \in Name, NEW s \in Seq(0 .. Radix - 1),
         s # <<>>, p.base = r.prefix.base, p.digits = r.prefix.digits \o s,
         Value(p.digits) <= MaxSuffix, NEW k \in Nat,
         k =< Len(r.prefix.digits)
  PROVE  MoreDigits(r, Split(p, k)) <=> k < Len(r.prefix.digits)
<1> DEFINE B == 0 .. Radix - 1
<1>1. s \in Seq(B) /\ p.digits \in Seq(B) /\ r.prefix.digits \in Seq(B)
  BY GoodIs, NameIs
<1> HIDE DEF B
<1>2. PICK c \in Seq(B), d \in Seq(B) : c = r.prefix.digits /\ d = p.digits
  BY <1>1
<1>3. PICK L \in Nat, M \in Nat, N \in Nat :
        L = Len(c) /\ M = Len(d) /\ N = Len(s)
  BY <1>1, LenProperties
<1>4. d = c \o s
  BY <1>2
<1>5. /\ Len(d) = L + N
      /\ \A i \in 1 .. L : d[i] = c[i]
  BY <1>1, <1>3, <1>4, CatIs
<1>6. M = L + N /\ N >= 1 /\ k =< L
  <2>1. N >= 1
    BY <1>1, <1>3, EmptySeq
  <2> QED BY <2>1, <1>2, <1>3, <1>5
<1>7. k \in 0 .. Len(p.digits)
  <2>1. k \in 0 .. M
    BY <1>6
  <2> QED BY <2>1, <1>2, <1>3
<1>8. PICK a \in Seq(B), b \in Seq(B) :
        /\ p.digits = a \o b /\ Len(a) = k /\ Len(b) = Len(p.digits) - k
        /\ SplitInto(Split(p, k), p, a, b)
  BY <1>7, SplitParts DEF B
<1>9. d = a \o b /\ k = Len(a)
  BY <1>2, <1>8
<1>10. PICK K \in Nat : K = Len(b)
  BY LenProperties
<1>11. k + K = M /\ K >= 1
  <2>1. Len(b) = M - k
    BY <1>2, <1>3, <1>8
  <2> QED BY <2>1, <1>6, <1>10
<1>12. /\ \A i \in 1 .. k : d[i] = a[i]
       /\ \A i \in 1 .. K : d[k + i] = b[i]
  BY ONLY <1>9, <1>10, CatIs, a \in Seq(B), b \in Seq(B), k \in Nat, K \in Nat
<1>13. b # <<>>
  <2>1. Len(<<>>) = 0
    OBVIOUS
  <2> QED BY <2>1, <1>11, <1>10
<1>14. Value(b) <= MaxSuffix
  <2>1. Value(b) =< Value(d)
    BY <1>9, ValueBehind DEF B
  <2>2. Value(d) <= MaxSuffix
    BY <1>2
  <2>3. Value(b) \in Nat /\ Value(d) \in Nat
    BY ValueIs DEF B
  <2> QED BY <2>1, <2>2, <2>3, RangeAssumption
<1>15. PICK h : h = Split(p, k)
  OBVIOUS
<1>16. PICK u \in Seq(Nat), U \in Nat : u = r.prefix.base /\ U = Len(u)
  BY GoodIs, NameIs, LenProperties
<1>17. h.valid /\ h.suffix = b /\ h.prefix.base = u /\ h.prefix.digits = a
  <2>1. h.valid /\ h.suffix = b /\ h.prefix = [base |-> p.base, digits |-> a]
    BY <1>8, <1>13, <1>14, <1>15 DEF SplitInto
  <2> QED BY <2>1, <1>16
<1>18. Chars(h.prefix) = u \o a /\ Chars(r.prefix) = u \o c
  BY <1>2, <1>16, <1>17 DEF Chars
<1>19. PICK x, y : x = u \o a /\ y = u \o c
  OBVIOUS
<1>20. a \in Seq(Nat) /\ c \in Seq(Nat)
  <2>1. B \subseteq Nat
    BY RangeAssumption DEF B
  <2> QED BY <2>1, SeqMonotonic
<1>21. /\ x \in Seq(Nat) /\ Len(x) = U + k
       /\ \A i \in 1 .. U : x[i] = u[i]
       /\ \A i \in 1 .. k : x[U + i] = a[i]
  BY ONLY <1>9, <1>16, <1>19, <1>20, CatIs, u \in Seq(Nat), U \in Nat, k \in Nat, SMTT(30)
<1>22. /\ y \in Seq(Nat) /\ Len(y) = U + L
       /\ \A i \in 1 .. U : y[i] = u[i]
       /\ \A i \in 1 .. L : y[U + i] = c[i]
  BY ONLY <1>3, <1>16, <1>19, <1>20, CatIs, u \in Seq(Nat), U \in Nat, L \in Nat, SMTT(30)
<1>23. MoreDigits(r, h) <=> /\ IsPrefix(x, y)
                            /\ U + k < U + L
                            /\ K > 1
                            /\ y[U + L] < Radix
                            /\ y[U + k + 1] = b[1]
  <2>1. Chars(h.prefix) = x /\ Chars(r.prefix) = y
    BY <1>18, <1>19
  <2>2. MoreDigits(r, h) <=> /\ h.valid
                             /\ IsPrefix(x, y)
                             /\ Len(x) < Len(y)
                             /\ Len(h.suffix) > 1
                             /\ y[Len(y)] < Radix
                             /\ y[Len(x) + 1] = h.suffix[1]
    BY ONLY <2>1 DEF MoreDigits
  <2>3. Len(x) = U + k /\ Len(y) = U + L
    BY <1>21, <1>22
  <2>4. Len(h.suffix) = K
    BY <1>10, <1>17
  <2> QED BY ONLY <2>2, <2>3, <2>4, <1>17
<1>24. CASE ~ (k < L)
  <2>1. ~ (U + k < U + L)
    BY <1>24
  <2> QED BY <2>1, <1>2, <1>3, <1>15, <1>23, <1>24
<1>25. CASE k < L
  <2>1. y[U + k + 1] = b[1]
    <3>1. PICK i \in 1 .. L : i = k + 1 /\ U + k + 1 = U + i
      BY <1>25
    <3>2. y[U + i] = c[i] /\ d[i] = c[i]
      BY <1>5, <1>22
    <3>3. d[k + 1] = b[1]
      BY <1>11, <1>12
    <3> QED BY <3>1, <3>2, <3>3
  <2>2. y[U + L] < Radix
    <3>1. L \in 1 .. L
      BY <1>25
    <3>2. y[U + L] = c[L]
      BY <3>1, <1>22
    <3>3. c[L] \in B
      BY <3>1, <1>3, ElementOfSeq
    <3> QED BY ONLY <3>2, <3>3, RangeAssumption DEF B
  <2>3. IsPrefix(x, y)
    <3>1. ASSUME NEW i \in 1 .. Len(x) PROVE x[i] = y[i]
      <4>1. CASE i <= U
        <5>1. i \in 1 .. U
          BY <4>1, <1>21
        <5> QED BY <5>1, <1>21, <1>22
      <4>2. CASE ~ (i <= U)
        <5>1. PICK j \in 1 .. k : i = U + j
          <6>1. i - U \in 1 .. k /\ i = U + (i - U)
            BY <4>2, <1>21, SMTT(30)
          <6> QED BY <6>1
        <5>2. j \in 1 .. L
          BY <1>25
        <5>3. x[i] = a[j] /\ y[i] = c[j]
          BY <5>1, <5>2, <1>21, <1>22
        <5> QED BY <5>2, <5>3, <1>5, <1>12
      <4> QED BY <4>1, <4>2
    <3>2. Len(x) =< Len(y)
      BY <1>21, <1>22, <1>25, SMTT(30)
    <3> QED BY <3>1, <3>2, <1>21, <1>22, PrefixIs
  <2>4. U + k < U + L /\ K > 1
    BY <1>6, <1>11, <1>25
  <2>5. MoreDigits(r, h)
    BY <2>1, <2>2, <2>3, <2>4, <1>23
  <2> QED BY <2>5, <1>2, <1>3, <1>15, <1>25
<1> QED BY <1>24, <1>25

\* A name of a range is found in it, at its offset.
LEMMA FoundWhole ==
  ASSUME NEW r \in GoodRange, ~ r.single, InReach(r),
         NEW n \in r.lo .. r.hi, NEW p, p = Host(r.prefix, n, r.width)
  PROVE  Within(r, p).at = n - r.lo
<1>1. r.prefix \in Name /\ r.lo \in Nat /\ r.hi \in Nat /\ r.width \in Nat
  BY GoodIs
<1>2. n \in Nat
  BY <1>1
<1>3. p \in Name /\ p = [base |-> r.prefix.base,
                         digits |-> r.prefix.digits \o Numeral(n, r.width)]
  BY <1>1, <1>2, HostIs
<1>4. PICK s \in Seq(0 .. Radix - 1), l \in Nat :
        s = Numeral(n, r.width) /\ l = Len(s) /\ l = Larger(r.width, DigitsOf(n))
  <2>1. Larger(r.width, DigitsOf(n)) \in Nat
    BY <1>1, <1>2, DigitsIs DEF Larger
  <2> QED BY <2>1, <1>1, <1>2, NumeralIs
<1>5. PICK g \in Nat : g = DigitsOf(n) /\ g >= 1
  BY <1>2, DigitsIs
<1>6. s # <<>>
  <2>1. l >= 1
    BY <1>1, <1>4, <1>5 DEF Larger
  <2>2. l = Len(s) /\ Len(<<>>) = 0
    BY <1>4
  <2> QED BY ONLY <2>1, <2>2
<1>7. p.base = r.prefix.base /\ p.digits = r.prefix.digits \o s
  <2>1. PICK x, y : x = r.prefix.base /\ y = r.prefix.digits \o s
    OBVIOUS
  <2>2. p = [base |-> x, digits |-> y]
    BY <2>1, <1>3, <1>4
  <2> QED BY ONLY <2>1, <2>2
<1>8. Value(p.digits) <= MaxSuffix
  BY DEF InReach
<1>9. PICK c \in Seq(0 .. Radix - 1), L \in Nat : c = r.prefix.digits /\ L = Len(c)
  BY <1>1, NameIs, LenProperties
<1>10. PICK m \in Nat :
         /\ m = Moved(r, p) /\ m =< Len(p.digits)
         /\ \A i \in 0 .. m - 1 : MoreDigits(r, Split(p, i))
         /\ ~ MoreDigits(r, Split(p, m))
  <2>1. Len(p.digits) \in Nat
    BY <1>3, NameIs
  <2>2. PICK m \in 0 .. Len(p.digits) : m = Moved(r, p)
    BY <1>3, MovedIs
  <2>3. m \in Nat /\ m =< Len(p.digits)
    BY <2>1
  <2> QED BY <2>2, <2>3, <1>3, MovedIs
<1>11. \A k \in Nat : k =< L => (MoreDigits(r, Split(p, k)) <=> k < L)
  BY <1>3, <1>6, <1>7, <1>8, <1>9, MoreDigitsIn
<1>12. m = L
  <2>1. ~ (m < L)
    BY <1>10, <1>11
  <2>2. ~ (L < m)
    <3> SUFFICES ASSUME L < m PROVE FALSE
      OBVIOUS
    <3>1. L \in 0 .. m - 1
      OBVIOUS
    <3> QED BY <3>1, <1>10, <1>11
  <2> QED BY <2>1, <2>2
<1>13. PICK a \in Seq(0 .. Radix - 1), b \in Seq(0 .. Radix - 1) :
         /\ p.digits = a \o b /\ Len(a) = m
         /\ SplitInto(Split(p, m), p, a, b)
  <2>1. m \in 0 .. Len(p.digits)
    <3>1. PICK D \in Nat : D = Len(p.digits)
      BY <1>3, NameIs
    <3> QED BY ONLY <3>1, <1>10, m \in Nat, D \in Nat
  <2> QED BY <2>1, <1>3, SplitParts
<1>14. a = c /\ b = s
  <2> DEFINE B == 0 .. Radix - 1
  <2>1. a \in Seq(B) /\ b \in Seq(B) /\ c \in Seq(B) /\ s \in Seq(B)
    OBVIOUS
  <2> HIDE DEF B
  <2>2. PICK d : d = p.digits
    OBVIOUS
  <2>3. /\ d = a \o b /\ d = c \o s
        /\ L = Len(a) /\ L = Len(c)
    BY <2>2, <1>7, <1>9, <1>12, <1>13
  <2>0. l = Len(s)
    BY <1>4
  <2>4. PICK K \in Nat : K = Len(b)
    BY <2>1, LenProperties
  <2>10. d = a \o b /\ L = Len(a)
    BY <2>3
  <2>5. /\ Len(d) = L + K
        /\ \A i \in 1 .. L : d[i] = a[i]
        /\ \A i \in 1 .. K : d[L + i] = b[i]
    BY ONLY <2>1, <2>10, <2>4, CatIs, K \in Nat, L \in Nat
  <2>6. /\ Len(d) = L + l
        /\ \A i \in 1 .. L : d[i] = c[i]
        /\ \A i \in 1 .. l : d[L + i] = s[i]
    BY ONLY <2>1, <2>3, <2>0, CatIs, l \in Nat, L \in Nat
  <2>7. K = l
    BY <2>5, <2>6
  <2>8. a = c
    BY ONLY <2>1, <2>5, <2>6, <1>9, <1>12, <1>13, SeqEqual
  <2>9. b = s
    BY <2>1, <2>4, <2>5, <2>6, <2>7, <1>4, SeqEqual
  <2> QED BY <2>8, <2>9
<1>15. PICK h : h = Split(p, m)
  OBVIOUS
<1>16. Value(s) = n
  BY <1>1, <1>2, <1>4, NumeralRead
<1>17. h.valid /\ h.num = n /\ h.suffix = s /\ h.prefix = r.prefix
  <2>1. Value(s) <= MaxSuffix
    <3>1. Value(s) =< Value(p.digits)
      BY <1>7, <1>9, ValueBehind
    <3>2. Value(p.digits) \in Nat
      BY <1>3, NameIs, ValueIs
    <3> QED BY <3>1, <3>2, <1>2, <1>8, <1>16, RangeAssumption
  <2>2. h.valid /\ h.num = n /\ h.suffix = s
         /\ h.prefix = [base |-> p.base, digits |-> a]
    BY <2>1, <1>6, <1>13, <1>14, <1>15, <1>16 DEF SplitInto
  <2>3. r.prefix = [base |-> r.prefix.base, digits |-> r.prefix.digits]
    BY <1>1, NameIs
  <2> QED BY <2>2, <2>3, <1>7, <1>9, <1>14
<1>18. PICK e : e = WidthEquiv(r.lo, r.width, n, l)
  OBVIOUS
<1>19. e.ok
  <2>1. ZeroPadded(n, l) = ZeroPadded(n, r.width)
    BY <1>1, <1>4, <1>5 DEF ZeroPadded, Larger
  <2> QED BY <2>1, <1>18 DEF WidthEquiv
<1>20. Within(r, p).at = n - r.lo
  <2> DEFINE none == [at |-> -1, range |-> r]
  <2>1. Within(r, p) = IF h.valid /\ h.prefix = r.prefix /\ h.num \in r.lo .. r.hi
                       THEN IF e.ok
                            THEN [at |-> h.num - r.lo,
                                  range |-> [r EXCEPT !.width = e.wn]]
                            ELSE none
                       ELSE none
    BY <1>4, <1>10, <1>15, <1>17, <1>18 DEF Within
  <2> HIDE DEF none
  <2> QED BY <2>1, <1>17, <1>19
<1> QED BY <1>20

\* at is the only place of p in h, counted from 0, or -1 when there is none.
OnlyAt(at, h, p) ==
  /\ at \in Int /\ at >= -1 /\ at < Len(h)
  /\ \A j \in 1 .. Len(h) : h[j] = p <=> at = j - 1

\* hostrange_hn_within() finds the names of a range, and no others.
LEMMA WithinFinds ==
  ASSUME NEW r \in GoodRange, InReach(r), NEW p \in Name
  PROVE  OnlyAt(Within(r, p).at, Hosts(r), p)
<1>1. PICK N \in Nat : N = Count(r) /\ N = r.hi - r.lo + 1 /\ N = Len(Hosts(r))
  BY CountIs, HostsAre
<1>2. PICK at \in Int : at = Within(r, p).at /\ at >= -1 /\ at < N
  BY <1>1, WithinIs DEF WithinAs
<1>3. CASE r.single
  <2>1. Hosts(r) = <<r.prefix>> /\ N = 1
    BY <1>1, <1>3 DEF Hosts, Count
  <2>2. \A j \in 1 .. 1 : Hosts(r)[j] = r.prefix
    BY <2>1
  <2>3. at = IF r.prefix = p THEN 0 ELSE -1
    <3>1. CASE r.prefix = p
      <4>1. Within(r, p) = [[at |-> -1, range |-> r] EXCEPT !.at = 0]
        BY <1>3, <3>1 DEF Within
      <4> QED BY <4>1, <1>2, <3>1
    <3>2. CASE r.prefix # p
      <4>1. Within(r, p) = [at |-> -1, range |-> r]
        BY <1>3, <3>2 DEF Within
      <4> QED BY <4>1, <1>2, <3>2
    <3> QED BY <3>1, <3>2
  <2>4. \A j \in 1 .. 1 : Hosts(r)[j] = p <=> at = j - 1
    BY <2>2, <2>3
  <2>5. Len(Hosts(r)) = 1
    BY <1>1, <2>1
  <2> QED BY <2>4, <2>5, <1>2, <2>1 DEF OnlyAt
<1>4. CASE ~ r.single
  <2>1. r.lo \in Nat /\ r.hi \in Nat
    BY GoodIs
  <2>2. ASSUME NEW j \in 1 .. N PROVE Hosts(r)[j] = p <=> at = j - 1
    <3>1. PICK n \in r.lo .. r.hi : n = r.lo + j - 1 /\ n - r.lo = j - 1
      <4>1. r.lo + j - 1 \in r.lo .. r.hi /\ (r.lo + j - 1) - r.lo = j - 1
        BY <1>1, <2>1
      <4> QED BY <4>1
    <3>2. Hosts(r)[j] = Host(r.prefix, n, r.width)
      <4>1. j \in 1 .. Count(r)
        BY <1>1
      <4> QED BY <4>1, <3>1, <1>4, HostsAre
    <3>3. ASSUME Hosts(r)[j] = p PROVE at = j - 1
      BY <3>1, <3>2, <3>3, <1>2, <1>4, FoundWhole
    <3>4. ASSUME at = j - 1 PROVE Hosts(r)[j] = p
      <4>1. Within(r, p).at >= 0
        BY <3>4, <1>2
      <4>2. p = Host(r.prefix, r.lo + Within(r, p).at, r.width)
        BY <4>1, <1>4, FoundRight
      <4>3. r.lo + Within(r, p).at = n
        BY <3>1, <3>4, <1>2, <2>1
      <4> QED BY <4>2, <4>3, <3>2
    <3> QED BY <3>3, <3>4
  <2>3. Len(Hosts(r)) = N
    BY <1>1
  <2> QED BY <2>2, <2>3, <1>2 DEF OnlyAt
<1> QED BY <1>3, <1>4

\* p is no name of h.
NoneIs(h, p) == \A k \in 1 .. Len(h) : h[k] # p

\* What is in no range is not in the array.
LEMMA NoneInAll ==
  ASSUME NEW s \in Seq(GoodRange), NEW p,
         \A i \in 1 .. Len(s) : NoneIs(Hosts(s[i]), p)
  PROVE  NoneIs(Names(s), p)
<1> DEFINE T == {q \in Seq(GoodRange) :
                   (\A i \in 1 .. Len(q) : NoneIs(Hosts(q[i]), p))
                     => NoneIs(Names(q), p)}
<1>1. <<>> \in T
  <2>1. <<>> \in Seq(GoodRange) /\ NoneIs(<<>>, p)
    BY EmptySeq DEF NoneIs
  <2> QED BY <2>1, NamesNone
<1>2. ASSUME NEW q \in Seq(GoodRange), NEW r \in GoodRange, q \in T
      PROVE  Append(q, r) \in T
  <2>1. PICK n \in Nat : n = Len(q)
    BY LenProperties
  <2> PICK a : a = Append(q, r)
    OBVIOUS
  <2>2. a \in Seq(GoodRange) /\ Len(a) = n + 1 /\ a[n + 1] = r
         /\ \A i \in 1 .. n : a[i] = q[i]
    BY <2>1, AppendProperties
  <2>3. ASSUME \A i \in 1 .. Len(a) : NoneIs(Hosts(a[i]), p)
        PROVE  NoneIs(Names(a), p)
    <3>1. ASSUME NEW i \in 1 .. n PROVE NoneIs(Hosts(q[i]), p)
      <4>1. i \in 1 .. Len(a)
        BY <2>2
      <4>2. NoneIs(Hosts(a[i]), p)
        BY <4>1, <2>3
      <4> QED BY <4>2, <2>2
    <3>2. NoneIs(Names(q), p)
      BY <3>1, <2>1, <1>2
    <3>3. NoneIs(Hosts(r), p)
      <4>1. n + 1 \in 1 .. Len(a)
        BY <2>2
      <4>2. NoneIs(Hosts(a[n + 1]), p)
        BY <4>1, <2>3
      <4> QED BY <4>2, <2>2
    <3>4. PICK x \in Seq(Name), y \in Seq(Name), M \in Nat, K \in Nat :
            x = Names(q) /\ y = Hosts(r) /\ M = Len(x) /\ K = Len(y)
      BY NamesAre, HostsAre, LenProperties
    <3>5. PICK z : z = x \o y
      OBVIOUS
    <3>6. Names(a) = z
      BY <2>1, <3>4, <3>5, NamesOne
    <3>7. M = Len(x) /\ K = Len(y)
      BY <3>4
    <3>8. /\ Len(z) = M + K
          /\ \A i \in 1 .. M : z[i] = x[i]
          /\ \A i \in 1 .. K : z[M + i] = y[i]
      BY ONLY <3>5, <3>7, CatIs, x \in Seq(Name), y \in Seq(Name),
         M \in Nat, K \in Nat
    <3>9. (\A i \in 1 .. M : x[i] # p) /\ (\A i \in 1 .. K : y[i] # p)
      BY <3>2, <3>3, <3>4 DEF NoneIs
    <3>10. ASSUME NEW i \in 1 .. M + K PROVE z[i] # p
      <4>1. CASE i <= M
        <5>1. i \in 1 .. M
          BY <4>1
        <5> QED BY <5>1, <3>8, <3>9
      <4>2. CASE ~ (i <= M)
        <5>1. PICK j \in 1 .. K : i = M + j
          <6>1. i - M \in 1 .. K /\ i = M + (i - M)
            BY <4>2
          <6> QED BY <6>1
        <5> QED BY <5>1, <3>8, <3>9
      <4> QED BY <4>1, <4>2
    <3> QED BY <3>6, <3>8, <3>10 DEF NoneIs
  <2> QED BY <2>1, <2>2, <2>3
<1> HIDE DEF T
<1>3. s \in T
  <2>1. \A q \in Seq(GoodRange), r \in GoodRange :
          q \in T => Append(q, r) \in T
    BY <1>2
  <2> QED BY <2>1, <1>1, SeqInduction
<1> QED BY <1>3 DEF T

\* at is the first place of p in h, counted from 0, or -1 when there is none.
FirstAt(at, h, p) ==
  \/ at = -1 /\ NoneIs(h, p)
  \/ at \in Nat /\ at < Len(h) /\ h[at + 1] = p
       /\ \A j \in 1 .. at : h[j] # p

\* hostlist_find() finds the first.
LEMMA FindInFirst ==
  ASSUME NEW s \in Seq(GoodRange), NEW p \in Name,
         \A i \in 1 .. Len(s) : InReach(s[i])
  PROVE  FirstAt(FindIn(s, p).at, Names(s), p)
<1>0. Len(s) \in Nat /\ \A i \in 1 .. Len(s) : s[i] \in GoodRange
  BY LenProperties, ElementOfSeq
<1> DEFINE I == {i \in 1 .. Len(s) : Within(s[i], p).at >= 0}
           k == SelectInSeq(s, LAMBDA r : Within(r, p).at >= 0)
<1>1. k = IF I # {} THEN Min(I) ELSE 0
  BY DEF SelectInSeq
<1>2. ASSUME NEW i \in 1 .. Len(s), i \notin I PROVE NoneIs(Hosts(s[i]), p)
  <2>1. OnlyAt(Within(s[i], p).at, Hosts(s[i]), p)
    BY <1>0, WithinFinds
  <2>2. ~ (Within(s[i], p).at >= 0)
    BY <1>2
  <2> HIDE DEF I
  <2>3. PICK at \in Int : at = Within(s[i], p).at /\ ~ (at >= 0)
    BY <2>1, <2>2 DEF OnlyAt
  <2>4. ASSUME NEW j \in 1 .. Len(Hosts(s[i])) PROVE Hosts(s[i])[j] # p
    <3>1. at # j - 1
      BY <2>3
    <3> QED BY <3>1, <2>1, <2>3 DEF OnlyAt
  <2> QED BY <2>4 DEF NoneIs
<1>3. CASE I = {}
  <2>1. FindIn(s, p) = [at |-> -1, hr |-> s]
    <3>1. k = 0
      BY <1>1, <1>3
    <3> HIDE DEF I
    <3> QED BY <3>1 DEF FindIn
  <2>2. NoneIs(Names(s), p)
    <3>1. \A i \in 1 .. Len(s) : NoneIs(Hosts(s[i]), p)
      BY <1>2, <1>3
    <3> QED BY <3>1, NoneInAll
  <2> QED BY <2>1, <2>2 DEF FirstAt
<1>4. CASE I # {}
  <2>1. PICK i \in 1 .. Len(s) : /\ i = k /\ Within(s[i], p).at >= 0
                                 /\ \A j \in I : i =< j
    <3>1. I \in SUBSET Nat
      OBVIOUS
    <3>2. Min(I) \in I /\ \A j \in I : Min(I) =< j
      <4> HIDE DEF I
      <4> QED BY <3>1, <1>4, MinIs
    <3> QED BY <3>2, <1>1, <1>4
  <2> HIDE DEF I
  <2>2. \A j \in 1 .. i - 1 : j \in 1 .. Len(s) /\ j \notin I
    <3> SUFFICES ASSUME NEW j \in 1 .. i - 1
                 PROVE  j \in 1 .. Len(s) /\ j \notin I
      OBVIOUS
    <3>1. ~ (i =< j) /\ j \in 1 .. Len(s)
      BY <1>0
    <3> QED BY <3>1, <2>1
  <2>3. PICK w : w = Within(s[i], p)
    OBVIOUS
  <2>4. FindIn(s, p) = [at |-> Before(s, i) + w.at,
                        hr |-> ReplaceAt(s, i, w.range)]
    <3>1. i # 0
      BY <1>0
    <3> QED BY <2>1, <2>3, <3>1 DEF FindIn
  <2>5. PICK a, b : CutInto(s, i, a, b)
    BY DEF CutInto
  <2>6. /\ a \in Seq(GoodRange) /\ b \in Seq(GoodRange) /\ Len(a) = i - 1
        /\ \A j \in 1 .. i - 1 : a[j] = s[j]
        /\ InThree(Names(s), Names(a), Hosts(s[i]), Names(b))
    BY <2>5, CutIs
  <2>7. NoneIs(Names(a), p)
    <3>1. ASSUME NEW j \in 1 .. Len(a) PROVE NoneIs(Hosts(a[j]), p)
      <4>1. j \in 1 .. i - 1
        BY <2>6
      <4> QED BY <4>1, <2>2, <2>6, <1>2
    <3> QED BY <3>1, <2>6, NoneInAll
  <2>8. PICK x \in Seq(Name), y \in Seq(Name), z \in Seq(Name) :
          x = Names(a) /\ y = Hosts(s[i]) /\ z = Names(b)
    BY <1>0, <2>6, NamesAre, HostsAre
  <2>9. PICK M \in Nat, N \in Nat, K \in Nat :
          M = Len(x) /\ N = Len(y) /\ K = Len(z)
    BY LenProperties
  <2>10. PICK u, v : u = y \o z /\ v = x \o u
    OBVIOUS
  <2>11. Names(s) = v
    <3>1. Names(s) = (x \o y) \o z
      BY <2>6, <2>8 DEF InThree
    <3>2. (x \o y) \o z = x \o (y \o z)
      BY ConcatAssociative, SMTT(30)
    <3> QED BY <3>1, <3>2, <2>10
  <2>12. u = y \o z /\ N = Len(y) /\ K = Len(z)
    BY <2>9, <2>10
  <2>13. /\ u \in Seq(Name) /\ Len(u) = N + K
         /\ \A j \in 1 .. N : u[j] = y[j]
    BY ONLY <2>12, CatIs, y \in Seq(Name), z \in Seq(Name), N \in Nat, K \in Nat
  <2>14. PICK P \in Nat : P = Len(u)
    BY <2>13, LenProperties
  <2>15. v = x \o u /\ M = Len(x) /\ P = Len(u) /\ u \in Seq(Name)
    BY <2>9, <2>10, <2>13, <2>14
  <2>16. /\ Len(v) = M + P
         /\ \A j \in 1 .. M : v[j] = x[j]
         /\ \A j \in 1 .. P : v[M + j] = u[j]
    BY ONLY <2>15, CatIs, x \in Seq(Name), M \in Nat, P \in Nat
  <2>17. OnlyAt(w.at, y, p)
    BY <1>0, <2>3, <2>8, WithinFinds
  <2>18. PICK at \in Nat : at = w.at /\ at < N
                           /\ \A j \in 1 .. N : y[j] = p <=> at = j - 1
    <3>1. w.at \in Int /\ w.at >= 0
      BY <2>1, <2>3, <2>17 DEF OnlyAt
    <3>2. PICK at \in Nat : at = w.at
      BY <3>1
    <3>3. at < N /\ \A j \in 1 .. N : y[j] = p <=> at = j - 1
      BY <3>2, <2>9, <2>17 DEF OnlyAt
    <3> QED BY <3>2, <3>3
  <2>19. Before(s, i) = M
    <3>1. i \in 1 .. Len(s) + 1
      BY <1>0
    <3>2. Before(s, i) = Total(a)
      BY <3>1, <2>5, BeforeIs DEF CutInto
    <3> QED BY <3>2, <2>8, <2>9 DEF Total
  <2>20. v[M + at + 1] = p
    <3>1. PICK j \in 1 .. N : j = at + 1 /\ j \in 1 .. P /\ M + at + 1 = M + j
      <4>1. P = N + K
        BY <2>13, <2>14
      <4>2. at + 1 \in 1 .. N /\ at + 1 \in 1 .. P /\ M + at + 1 = M + (at + 1)
        BY <4>1, <2>18, SMTT(30)
      <4> QED BY <4>2
    <3>2. v[M + j] = u[j] /\ u[j] = y[j]
      BY <3>1, <2>13, <2>16
    <3>3. at = j - 1
      BY <3>1
    <3>4. y[j] = p
      BY <3>3, <2>18
    <3> QED BY <3>1, <3>2, <3>4
  <2>21. ASSUME NEW j \in 1 .. M + at PROVE v[j] # p
    <3>1. CASE j <= M
      <4>1. j \in 1 .. M
        BY <3>1
      <4>2. v[j] = x[j]
        BY <4>1, <2>16
      <4>3. x[j] # p
        BY <4>1, <2>7, <2>8, <2>9 DEF NoneIs
      <4> QED BY <4>2, <4>3
    <3>2. CASE ~ (j <= M)
      <4>1. PICK l \in 1 .. at : j = M + l
        <5>1. j - M \in 1 .. at /\ j = M + (j - M)
          BY <3>2
        <5> QED BY <5>1
      <4>2. l \in 1 .. N /\ l \in 1 .. P /\ at # l - 1
        <5>1. P = N + K
          BY <2>13, <2>14
        <5> QED BY <5>1, <2>18, SMTT(30)
      <4>3. v[M + l] = u[l] /\ u[l] = y[l] /\ y[l] # p
        BY <4>2, <2>13, <2>16, <2>18
      <4> QED BY <4>1, <4>3
    <3> QED BY <3>1, <3>2
  <2>22. M + at \in Nat /\ M + at < Len(v)
    <3>1. P = N + K
      BY <2>13, <2>14
    <3> QED BY <3>1, <2>16, <2>18, SMTT(30)
  <2>23. FindIn(s, p).at = M + at
    BY <2>4, <2>18, <2>19
  <2> QED BY <2>11, <2>20, <2>21, <2>22, <2>23 DEF FirstAt
<1> QED BY <1>3, <1>4

\* No number of a range of the list is too large to be looked up.
AllInReach == \A r \in ToSet(list.hr) : InReach(r)

\* Then what is found is the first host with the name.
LEMMA WholeFinds == ListInv /\ AllInReach => FindIsFirst
<1>1. SUFFICES ASSUME ListInv, AllInReach, NEW p \in Lookup
      PROVE  LET names == Names(list.hr)
                 at == FindIn(list.hr, p).at
             IN  IF p \in ToSet(names)
                 THEN at = SelectInSeq(names, LAMBDA m : m = p) - 1
                 ELSE at = -1
  BY DEF FindIsFirst
<1>2. PICK s \in Seq(GoodRange) : s = list.hr
  BY <1>1, WholeIs DEF ListInv
<1>3. p \in Name
  BY ListAssumption
<1>4. \A i \in 1 .. Len(s) : InReach(s[i])
  <2>1. DOMAIN s = 1 .. Len(s)
    BY LenProperties
  <2> QED BY <2>1, <1>1, <1>2 DEF AllInReach, ToSet
<1>5. PICK h \in Seq(Name), N \in Nat : h = Names(s) /\ N = Len(h)
  BY NamesAre, LenProperties
<1>6. PICK at : at = FindIn(s, p).at
  OBVIOUS
<1>7. FirstAt(at, h, p)
  BY <1>3, <1>4, <1>5, <1>6, FindInFirst
<1> DEFINE I == {i \in 1 .. Len(h) : h[i] = p}
           k == SelectInSeq(h, LAMBDA m : m = p)
<1>8. k = IF I # {} THEN Min(I) ELSE 0
  BY DEF SelectInSeq
<1>9. p \in ToSet(h) <=> I # {}
  <2>1. DOMAIN h = 1 .. Len(h)
    BY LenProperties
  <2> QED BY <2>1 DEF ToSet
<1>10. IF p \in ToSet(h) THEN at = k - 1 ELSE at = -1
  <2>1. CASE I = {}
    <3>1. at = -1
      <4> SUFFICES ASSUME at \in Nat, at < Len(h), h[at + 1] = p PROVE FALSE
        BY <1>7 DEF FirstAt
      <4>1. at + 1 \in 1 .. Len(h)
        BY <1>5
      <4> QED BY <4>1, <2>1
    <3> QED BY <3>1, <2>1, <1>9
  <2>2. CASE I # {}
    <3>1. I \in SUBSET Nat
      OBVIOUS
    <3>2. Min(I) \in I /\ \A j \in I : Min(I) =< j
      <4> HIDE DEF I
      <4> QED BY <3>1, <2>2, MinIs
    <3>3. PICK i \in 1 .. N : i = k /\ h[i] = p /\ \A j \in I : i =< j
      BY <3>2, <1>5, <1>8, <2>2
    <3>4. at \in Nat /\ at < N /\ h[at + 1] = p /\ \A j \in 1 .. at : h[j] # p
      <4>1. ~ NoneIs(h, p)
        BY <3>3, <1>5 DEF NoneIs
      <4> QED BY <4>1, <1>5, <1>7 DEF FirstAt
    <3>5. i =< at + 1
      <4>1. at + 1 \in I
        BY <3>4, <1>5
      <4> QED BY <4>1, <3>3
    <3>6. ~ (i =< at)
      <4> SUFFICES ASSUME i =< at PROVE FALSE
        OBVIOUS
      <4>1. i \in 1 .. at
        BY <3>4
      <4> QED BY <4>1, <3>3, <3>4
    <3>7. at = i - 1
      BY <3>4, <3>5, <3>6
    <3> QED BY <3>3, <3>7, <2>2, <1>9
  <2> QED BY <2>1, <2>2
<1> QED BY <1>2, <1>5, <1>6, <1>10

\* The position hostlist_find() gives is that of the first host with the name,
\* and -1 if there is none: of any name, with any widths and digits in prefixes,
\* in any list that callers who heed Careful can make, as long as no number in
\* its ranges is above MAX_HOST_SUFFIX.
THEOREM FindingAlwaysFirst ==
  ASSUME Careful
  PROVE  SetSpec => [](AllInReach => FindIsFirst)
<1>1. ListInv => (AllInReach => FindIsFirst)
  BY WholeFinds
<1> QED BY <1>1, ListsStayWhole, PTL
====
