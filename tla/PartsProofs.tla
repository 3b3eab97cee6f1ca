---- MODULE PartsProofs ----
(***************************************************************************)
(* Proofs about the parts that call no other part: Lists, Hash and         *)
(* GendersValue, for any items, iterators and ranks, any names, hash       *)
(* function and sizes, and values of any length.                           *)
(***************************************************************************)
EXTENDS Lists, Hash, GendersValue, DataInduction, FiniteSetTheorems, TLAPS


-----------------------------------------------------------------------------
(***************************************************************************)
(* IteratorsAgree, ListIsWhole, SortIsStable and TraversalsAreWhole for    *)
(* any items, iterators and ranks.  That a pointer to a node is moved when *)
(* the node goes is not enough: a node must also be behind one other only, *)
(* and no node behind itself.  The invariant says so by numbering the      *)
(* nodes from the head; the items that a loop meets are then the nodes in  *)
(* that order, sorting renumbers them, and an iterator has still to meet   *)
(* those from the number where it stands.                                  *)
(***************************************************************************)

\* The owners of pointers that are allocated.
Ends(l) == l.nodes \cup {Top}

\* place numbers the nodes of l from the head.
Numbered(l, place) ==
  /\ place \in [Owner -> Nat]
  /\ place[Top] = 0
  /\ \A x \in l.nodes : 1 =< place[x] /\ place[x] =< l.count
  /\ \A x, y \in Ends(l) : place[x] = place[y] => x = y
  /\ \A o \in Ends(l) :
       IF l.next[o] = Nil THEN place[o] = l.count
       ELSE place[l.next[o]] = place[o] + 1

Typed(l) ==
  /\ l.nodes \subseteq Item
  /\ l.next \in [Owner -> l.nodes \cup {Nil}]
  /\ \A o \in Owner \ Ends(l) : l.next[o] = Nil
  /\ l.tail \in Ends(l)
  /\ l.count \in Nat
  /\ l.open \subseteq Iter
  /\ l.iter \in [Iter -> [prev : Ends(l), pos : l.nodes \cup {Nil}]]

\* What holds between calls, and in all loops but the one that sorts.
Settled(l) ==
  /\ l.next[l.tail] = Nil
  /\ \A i \in l.open : Agrees(l.next, l.iter[i])

Whole(l, place) == Typed(l) /\ Numbered(l, place)

LoopInv(l, s, place) ==
  /\ s.pp \in Ends(l) /\ s.back \in Ends(l) /\ s.spot \in Ends(l) \cup {Nil}
  /\ s.call # "sort" => Settled(l)
  /\ s.call = "find" => s.was[1] \in l.open
  /\ s.call = "sort" =>
       /\ place[s.pp] = place[s.back] + 1
       /\ s.spot # Nil =>
            /\ l.next[s.pp] # Nil
            /\ Less(l.next[s.pp], l.next[s.back])
            /\ place[s.spot] =< place[s.back]

ListInv == \E place \in [Owner -> Nat] :
  Whole(list, place) /\ LoopInv(list, scan, place)

-----------------------------------------------------------------------------
\* Facts about a numbered list.
LEMMA Facts ==
  ASSUME NEW l, NEW place, Whole(l, place)
  PROVE  /\ Nil \notin Ends(l) /\ Ends(l) \subseteq Owner
         /\ \A o \in Ends(l) : l.next[o] \in l.nodes \cup {Nil}
         /\ \A o \in Ends(l) : place[o] \in Nat
         /\ l.count \in Nat
         /\ \A o, p \in Ends(l) : l.next[o] = l.next[p] => o = p
         /\ \A o \in Ends(l) : l.next[o] # o
  <1> USE DEF Whole
  <1>1. Nil \notin Ends(l) /\ Ends(l) \subseteq Owner
    BY ListsAssumption DEF Typed, Ends, Owner
  <1>2. \A o \in Ends(l) : l.next[o] \in l.nodes \cup {Nil}
    BY <1>1 DEF Typed
  <1>3. \A o \in Ends(l) : place[o] \in Nat
    BY <1>1 DEF Numbered
  <1>4. ASSUME NEW o \in Ends(l), NEW p \in Ends(l), l.next[o] = l.next[p]
        PROVE  o = p
    <2>1. CASE l.next[o] = Nil
      BY <1>4, <2>1 DEF Numbered
    <2>2. CASE l.next[o] # Nil
      <3>1. place[o] + 1 = place[p] + 1
        BY <1>4, <2>2 DEF Numbered
      <3>2. place[o] = place[p]
        BY <1>3, <3>1
      <3> QED BY <3>2 DEF Numbered
    <2> QED BY <2>1, <2>2
  <1>5. ASSUME NEW o \in Ends(l) PROVE l.next[o] # o
    <2>1. CASE l.next[o] = Nil
      BY <1>1, <2>1
    <2>2. CASE l.next[o] # Nil
      <3>1. place[l.next[o]] = place[o] + 1
        BY <2>2 DEF Numbered
      <3> QED BY <1>3, <3>1
    <2> QED BY <2>1, <2>2
  <1> QED BY <1>1, <1>2, <1>3, <1>4, <1>5 DEF Typed

\* The numbers after a node came in behind number k, or number k went out.
MadeRoom(l, place, k, q) ==
  \A o \in Ends(l) : q[o] = IF place[o] > k THEN place[o] + 1 ELSE place[o]
ClosedUp(l, place, k, q) ==
  \A o \in Ends(l) : q[o] = IF place[o] > k THEN place[o] - 1 ELSE place[o]

\* list_node_create() behind a node that is there.
LEMMA CreateKeeps ==
  ASSUME NEW l, NEW place, Whole(l, place), Settled(l),
         NEW pp \in Ends(l), NEW x \in Item \ l.nodes
  PROVE  LET m == NodeCreate(l, pp, x) IN
         /\ \E q \in [Owner -> Nat] :
              /\ Whole(m, q)
              /\ q[x] = place[pp] + 1 /\ MadeRoom(l, place, place[pp], q)
         /\ Settled(m)
  <1> DEFINE m == NodeCreate(l, pp, x)
             behind == l.next[pp]
             q == [o \in Owner |->
                     IF o = x THEN place[pp] + 1
                     ELSE IF place[o] > place[pp] THEN place[o] + 1
                     ELSE place[o]]
  <1>1. /\ m.nodes = l.nodes \cup {x}
        /\ m.next = [l.next EXCEPT ![x] = behind, ![pp] = x]
        /\ m.tail = IF behind = Nil THEN x ELSE l.tail
        /\ m.count = l.count + 1
        /\ m.open = l.open
        /\ m.iter = [i \in Iter |->
                       IF i \in l.open THEN AfterCreate(l.iter[i], pp, x, behind)
                       ELSE Closed]
    BY DEF NodeCreate, Moved
  <1> HIDE DEF m
  <1>2. x \in Owner /\ x \notin Ends(l) /\ x # pp /\ x # Nil /\ pp \in Owner
    BY Facts, ListsAssumption DEF Ends, Owner
  <1>3. Ends(m) = Ends(l) \cup {x}
    BY <1>1 DEF Ends
  <1>4. l.next \in [Owner -> l.nodes \cup {Nil}] /\ behind \in l.nodes \cup {Nil}
    BY <1>2 DEF Whole, Typed
  <1>5. /\ m.next[x] = behind /\ m.next[pp] = x
        /\ \A o \in Owner \ {x, pp} : m.next[o] = l.next[o]
    BY <1>1, <1>2, <1>4
  <1>6. Typed(m)
    <2>1. m.nodes \subseteq Item
      BY <1>1 DEF Whole, Typed
    <2>2. m.next \in [Owner -> m.nodes \cup {Nil}]
      BY <1>1, <1>4
    <2>3. m.tail \in Ends(m)
      BY <1>1, <1>3 DEF Whole, Typed
    <2>4. m.count \in Nat /\ m.open \subseteq Iter
      BY <1>1 DEF Whole, Typed
    <2>5. ASSUME NEW i \in Iter
          PROVE  m.iter[i] \in [prev : Ends(m), pos : m.nodes \cup {Nil}]
      <3>1. l.iter[i] \in [prev : Ends(l), pos : l.nodes \cup {Nil}]
        BY DEF Whole, Typed
      <3>2. AfterCreate(l.iter[i], pp, x, behind)
              \in [prev : Ends(m), pos : m.nodes \cup {Nil}]
        BY <1>1, <1>3, <3>1 DEF AfterCreate
      <3>3. Closed \in [prev : Ends(m), pos : m.nodes \cup {Nil}]
        BY DEF Closed, Ends
      <3> QED BY <1>1, <3>2, <3>3
    <2>6. m.iter \in [Iter -> [prev : Ends(m), pos : m.nodes \cup {Nil}]]
      BY <1>1, <2>5
    <2>7. \A o \in Owner \ Ends(m) : m.next[o] = Nil
      BY <1>3, <1>5 DEF Whole, Typed
    <2> QED BY <2>1, <2>2, <2>3, <2>4, <2>6, <2>7 DEF Typed
  <1>7. /\ Numbered(m, q)
        /\ q[x] = place[pp] + 1 /\ MadeRoom(l, place, place[pp], q)
    <2>1. \A o \in Ends(l) : place[o] \in Nat /\ o \in Owner
      BY Facts
    <2>2. place \in [Owner -> Nat] /\ place[pp] \in Nat /\ l.count \in Nat
      BY <1>2, Facts DEF Whole, Numbered
    <2>3. q \in [Owner -> Nat]
      BY <2>2
    <2>4. /\ q[x] = place[pp] + 1
          /\ \A o \in Ends(l) :
               q[o] = IF place[o] > place[pp] THEN place[o] + 1 ELSE place[o]
      BY <1>2, <2>1
    <2>5. \A o \in Ends(l) : 0 =< place[o] /\ place[o] =< l.count
      <3>1. \A y \in l.nodes : place[y] =< l.count
        BY DEF Whole, Numbered
      <3>2. place[Top] = 0 /\ 0 =< l.count
        BY <2>2 DEF Whole, Numbered
      <3> QED BY <2>1, <3>1, <3>2 DEF Ends
    <2>6. Top \in Ends(l) /\ place[Top] = 0
      BY DEF Ends, Whole, Numbered
    <2> HIDE DEF q
    <2>7. q[Top] = 0
      BY <2>2, <2>4, <2>6
    <2>8. \A y \in m.nodes : 1 =< q[y] /\ q[y] =< m.count
      <3>1. \A y \in l.nodes : 1 =< place[y] /\ place[y] =< l.count
        BY DEF Whole, Numbered
      <3>2. \A y \in l.nodes : y \in Ends(l)
        BY DEF Ends
      <3>3. ASSUME NEW y \in l.nodes PROVE 1 =< q[y] /\ q[y] =< l.count + 1
        BY <2>1, <2>2, <2>4, <3>1, <3>2
      <3>4. 1 =< q[x] /\ q[x] =< l.count + 1
        BY <2>2, <2>4, <2>5
      <3> QED BY <1>1, <3>3, <3>4
    <2>9. \A y, z \in Ends(m) : q[y] = q[z] => y = z
      <3>1. ASSUME NEW y \in Ends(l), NEW z \in Ends(l), q[y] = q[z]
            PROVE  y = z
        <4>1. place[y] = place[z]
          BY <2>1, <2>2, <2>4, <3>1
        <4> QED BY <4>1 DEF Whole, Numbered
      <3>2. ASSUME NEW y \in Ends(l) PROVE q[y] # q[x]
        BY <2>1, <2>2, <2>4
      <3> QED BY <1>3, <3>1, <3>2
    <2>10. ASSUME NEW o \in Ends(m)
           PROVE  IF m.next[o] = Nil THEN q[o] = m.count
                  ELSE q[m.next[o]] = q[o] + 1
      <3>1. CASE o = pp
        BY <1>2, <1>5, <2>2, <2>4, <3>1
      <3>2. CASE o = x
        <4>1. CASE behind = Nil
          BY <1>1, <1>5, <2>2, <2>4, <3>2, <4>1 DEF Whole, Numbered
        <4>2. CASE behind # Nil
          <5>1. place[behind] = place[pp] + 1 /\ behind \in Ends(l)
            BY <1>4, <4>2 DEF Whole, Numbered, Ends
          <5> QED BY <1>5, <2>2, <2>4, <3>2, <4>2, <5>1
        <4> QED BY <4>1, <4>2
      <3>3. CASE o # pp /\ o # x
        <4>1. o \in Ends(l) /\ m.next[o] = l.next[o]
          BY <1>3, <1>5, <2>1, <3>3
        <4>2. place[o] # place[pp]
          BY <3>3, <4>1 DEF Whole, Numbered
        <4>3. CASE l.next[o] = Nil
          <5>1. place[o] = l.count
            BY <4>1, <4>3 DEF Whole, Numbered
          <5>2. place[o] > place[pp]
            BY <2>1, <2>2, <2>5, <4>2, <5>1
          <5> QED BY <1>1, <2>2, <2>4, <4>1, <4>3, <5>1, <5>2
        <4>4. CASE l.next[o] # Nil
          <5>1. place[l.next[o]] = place[o] + 1 /\ l.next[o] \in Ends(l)
            BY <4>1, <4>4, Facts DEF Whole, Numbered, Ends
          <5>2. place[o] \in Nat
            BY <2>1, <4>1
          <5>3. q[o] = IF place[o] > place[pp] THEN place[o] + 1 ELSE place[o]
            BY <2>4, <4>1
          <5>4. q[l.next[o]] = IF place[o] + 1 > place[pp]
                               THEN place[o] + 2 ELSE place[o] + 1
            BY <2>4, <5>1, <5>2
          <5>5. q[l.next[o]] = q[o] + 1
            BY <2>2, <4>2, <5>2, <5>3, <5>4
          <5> QED BY <4>1, <4>4, <5>5
        <4> QED BY <4>3, <4>4
      <3> QED BY <3>1, <3>2, <3>3
    <2> QED BY <2>3, <2>4, <2>7, <2>8, <2>9, <2>10 DEF Numbered, MadeRoom
  <1>8. Settled(m)
    <2>1. m.next[m.tail] = Nil
      <3>1. CASE behind = Nil
        BY <1>1, <1>5, <3>1
      <3>2. CASE behind # Nil
        <4>1. l.tail \in Ends(l) /\ l.tail # pp
          BY <3>2 DEF Settled, Whole, Typed
        <4>2. l.tail \in Owner \ {x, pp}
          BY <1>2, <4>1, Facts
        <4> QED BY <1>1, <1>5, <3>2, <4>2 DEF Settled
      <3> QED BY <3>1, <3>2
    <2>2. ASSUME NEW i \in m.open PROVE Agrees(m.next, m.iter[i])
      <3> DEFINE it == l.iter[i]
      <3>1. /\ i \in Iter /\ i \in l.open
            /\ m.iter[i].prev = IF it.prev = pp THEN x ELSE it.prev
            /\ m.iter[i].pos =
                 IF it.prev # pp /\ it.pos = behind THEN x ELSE it.pos
        BY <1>1 DEF AfterCreate, Whole, Typed
      <3>2. it.prev \in Ends(l)
        BY <3>1 DEF Whole, Typed
      <3>3. \/ it.pos = l.next[it.prev]
            \/ /\ l.next[it.prev] # Nil
               /\ it.pos = l.next[l.next[it.prev]]
        BY <3>1 DEF Settled, Agrees
      <3>4. l.next[it.prev] # Nil => l.next[it.prev] \in Ends(l)
        BY <3>2, Facts DEF Ends
      <3> HIDE DEF it
      <3>5. /\ \A o, p \in Ends(l) : l.next[o] = l.next[p] => o = p
            /\ \A o \in Ends(l) : l.next[o] # o
            /\ \A o \in Ends(l) \ {pp} : m.next[o] = l.next[o]
        BY <1>2, <1>5, Facts
      <3>6. CASE it.prev = pp
        BY <1>5, <3>1, <3>3, <3>4, <3>5, <3>6 DEF Agrees
      <3>7. CASE it.prev # pp
        BY <1>2, <1>5, <3>1, <3>2, <3>3, <3>4, <3>5, <3>7 DEF Agrees
      <3> QED BY <3>6, <3>7
    <2> QED BY <2>1, <2>2 DEF Settled
  <1>9. q \in [Owner -> Nat]
    BY <1>7 DEF Numbered
  <1> HIDE DEF q
  <1> QED BY <1>6, <1>7, <1>8, <1>9 DEF Whole, m

\* list_node_destroy() of the node behind one that is there.
LEMMA DestroyKeeps ==
  ASSUME NEW l, NEW place, Whole(l, place), Settled(l),
         NEW pp \in Ends(l), l.next[pp] # Nil
  PROVE  LET m == NodeDestroy(l, pp) IN
         /\ \E q \in [Owner -> Nat] :
              Whole(m, q) /\ ClosedUp(l, place, place[l.next[pp]], q)
         /\ Settled(m) /\ pp \in Ends(m) /\ m.open = l.open
  <1> DEFINE m == NodeDestroy(l, pp)
             p == l.next[pp]
             behind == l.next[p]
             q == [o \in Owner |->
                     IF place[o] > place[p] THEN place[o] - 1 ELSE place[o]]
  <1>1. /\ m.nodes = l.nodes \ {p}
        /\ m.next = [l.next EXCEPT ![pp] = behind, ![p] = Nil]
        /\ m.tail = IF behind = Nil THEN pp ELSE l.tail
        /\ m.count = l.count - 1
        /\ m.open = l.open
        /\ m.iter = [i \in Iter |->
                       IF i \in l.open
                       THEN AfterDestroy(l.iter[i], pp, p, behind)
                       ELSE Closed]
    BY DEF NodeDestroy, Moved
  <1> HIDE DEF m
  <1>2. p \in l.nodes /\ p \in Ends(l) /\ p # pp
    BY Facts DEF Ends
  <1>3. p # Top /\ p \in Owner /\ pp \in Owner
    BY <1>2, Facts, ListsAssumption DEF Whole, Typed
  <1>4. Ends(m) = Ends(l) \ {p}
    BY <1>1, <1>3 DEF Ends
  <1>5. pp \in Ends(m)
    BY <1>2, <1>4
  <1>6. behind \in l.nodes \cup {Nil} /\ behind # p
    BY <1>2, Facts
  <1>7. behind # pp
    <2>1. CASE behind = Nil
      BY <2>1, Facts
    <2>2. CASE behind # Nil
      <3>1. place[p] = place[pp] + 1 /\ place[behind] = place[p] + 1
        BY <1>2, <2>2 DEF Whole, Numbered
      <3>2. place[pp] \in Nat
        BY Facts
      <3> QED BY <3>1, <3>2
    <2> QED BY <2>1, <2>2
  <1>8. /\ m.next[pp] = behind /\ m.next[p] = Nil
        /\ \A o \in Owner \ {pp, p} : m.next[o] = l.next[o]
    BY <1>1, <1>2, <1>3 DEF Whole, Typed
  <1>9. \A o \in Ends(l) \ {pp} : l.next[o] # p
    BY <1>2, Facts
  <1>10. Typed(m)
    <2>1. m.nodes \subseteq Item
      BY <1>1 DEF Whole, Typed
    <2>2. m.next \in [Owner -> m.nodes \cup {Nil}]
      <3>1. ASSUME NEW o \in Owner PROVE m.next[o] \in m.nodes \cup {Nil}
        <4>1. CASE o = pp \/ o = p
          BY <1>1, <1>6, <1>8, <4>1
        <4>2. CASE o \in Ends(l) \ {pp, p}
          BY <1>1, <1>8, <1>9, <4>2, Facts
        <4>3. CASE o \notin Ends(l)
          BY <1>2, <1>8, <4>3 DEF Whole, Typed
        <4> QED BY <4>1, <4>2, <4>3
      <3> QED BY <1>1, <3>1 DEF Whole, Typed
    <2>3. m.tail \in Ends(m)
      <3>1. CASE behind = Nil
        BY <1>1, <1>5, <3>1
      <3>2. CASE behind # Nil
        BY <1>1, <1>4, <3>2 DEF Settled, Whole, Typed
      <3> QED BY <3>1, <3>2
    <2>4. m.count \in Nat
      <3>1. 1 =< place[p] /\ place[p] =< l.count
        BY <1>2 DEF Whole, Numbered
      <3>2. place[p] \in Nat /\ l.count \in Nat
        BY <1>2, Facts
      <3> QED BY <1>1, <3>1, <3>2
    <2>5. m.open \subseteq Iter
      BY <1>1 DEF Whole, Typed
    <2>6. ASSUME NEW i \in Iter
          PROVE  m.iter[i] \in [prev : Ends(m), pos : m.nodes \cup {Nil}]
      <3>1. l.iter[i] \in [prev : Ends(l), pos : l.nodes \cup {Nil}]
        BY DEF Whole, Typed
      <3>2. AfterDestroy(l.iter[i], pp, p, behind)
              \in [prev : Ends(m), pos : m.nodes \cup {Nil}]
        BY <1>1, <1>4, <1>5, <1>6, <3>1 DEF AfterDestroy
      <3>3. Closed \in [prev : Ends(m), pos : m.nodes \cup {Nil}]
        BY DEF Closed, Ends
      <3> QED BY <1>1, <3>2, <3>3
    <2>7. m.iter \in [Iter -> [prev : Ends(m), pos : m.nodes \cup {Nil}]]
      BY <1>1, <2>6
    <2>8. \A o \in Owner \ Ends(m) : m.next[o] = Nil
      BY <1>4, <1>5, <1>8 DEF Whole, Typed
    <2> QED BY <2>1, <2>2, <2>3, <2>4, <2>5, <2>7, <2>8 DEF Typed
  <1>11. Numbered(m, q) /\ ClosedUp(l, place, place[p], q)
    <2>1. \A o \in Ends(l) : place[o] \in Nat /\ o \in Owner
      BY Facts
    <2>2. place \in [Owner -> Nat] /\ l.count \in Nat
      BY Facts DEF Whole, Numbered
    <2>3. place[p] = place[pp] + 1
      BY DEF Whole, Numbered
    <2>4. place[p] \in Nat /\ place[pp] \in Nat
      BY <1>2, <2>1
    <2>5. q \in [Owner -> Nat]
      <3>1. ASSUME NEW o \in Owner
            PROVE  (IF place[o] > place[p] THEN place[o] - 1 ELSE place[o])
                     \in Nat
        BY <2>2, <2>4
      <3> QED BY <3>1
    <2>6. \A o \in Ends(l) :
            q[o] = IF place[o] > place[p] THEN place[o] - 1 ELSE place[o]
      BY <2>1
    <2>7. Top \in Ends(l) /\ place[Top] = 0
      BY DEF Ends, Whole, Numbered
    <2> HIDE DEF q
    <2>8. q[Top] = 0
      BY <2>4, <2>6, <2>7
    <2>9. \A y, z \in Ends(l) : place[y] = place[z] => y = z
      BY DEF Whole, Numbered
    <2>10. ASSUME NEW y \in m.nodes PROVE 1 =< q[y] /\ q[y] =< m.count
      <3>1. y \in l.nodes /\ y \in Ends(l) /\ y # p
        BY <1>1 DEF Ends
      <3>2. 1 =< place[y] /\ place[y] =< l.count /\ place[y] # place[p]
        BY <1>2, <2>9, <3>1 DEF Whole, Numbered
      <3>3. 1 =< place[p] /\ place[p] =< l.count
        BY <1>2 DEF Whole, Numbered
      <3>4. place[y] \in Nat
        BY <2>1, <3>1
      <3>5. q[y] = IF place[y] > place[p] THEN place[y] - 1 ELSE place[y]
        BY <2>6, <3>1
      <3>6. m.count = l.count - 1
        BY <1>1
      <3> QED BY <2>2, <2>4, <3>2, <3>3, <3>4, <3>5, <3>6
    <2>11. ASSUME NEW y \in Ends(m), NEW z \in Ends(m), q[y] = q[z]
           PROVE  y = z
      <3>1. y \in Ends(l) /\ z \in Ends(l) /\ y # p /\ z # p
        BY <1>4
      <3>2. place[y] # place[p] /\ place[z] # place[p]
        BY <1>2, <2>9, <3>1
      <3>3. place[y] \in Nat /\ place[z] \in Nat
        BY <2>1, <3>1
      <3>4. /\ q[y] = IF place[y] > place[p] THEN place[y] - 1 ELSE place[y]
            /\ q[z] = IF place[z] > place[p] THEN place[z] - 1 ELSE place[z]
        BY <2>6, <3>1
      <3>5. q[y] = q[z]
        BY <2>11
      <3>6. place[y] = place[z]
        BY <2>4, <3>2, <3>3, <3>4, <3>5
      <3> QED BY <2>9, <3>1, <3>6
    <2>12. ASSUME NEW o \in Ends(m)
           PROVE  IF m.next[o] = Nil THEN q[o] = m.count
                  ELSE q[m.next[o]] = q[o] + 1
      <3>1. CASE o = pp
        <4>1. q[pp] = place[pp]
          BY <2>3, <2>4, <2>6
        <4>2. CASE behind = Nil
          <5>1. place[p] = l.count
            BY <1>2, <4>2 DEF Whole, Numbered
          <5> QED BY <1>1, <1>8, <2>2, <2>3, <2>4, <3>1, <4>1, <4>2, <5>1
        <4>3. CASE behind # Nil
          <5>1. place[behind] = place[p] + 1 /\ behind \in Ends(l)
            BY <1>2, <1>6, <4>3 DEF Whole, Numbered, Ends
          <5>2. q[behind] = place[p]
            BY <2>4, <2>6, <5>1
          <5> QED BY <1>8, <2>3, <3>1, <4>1, <4>3, <5>2
        <4> QED BY <4>2, <4>3
      <3>2. CASE o # pp
        <4>1. /\ o \in Ends(l) /\ o # p /\ m.next[o] = l.next[o]
              /\ l.next[o] # p
          BY <1>4, <1>8, <1>9, <2>1, <3>2
        <4>2. place[o] # place[p] /\ place[o] # place[pp] /\ place[o] \in Nat
          BY <1>2, <2>1, <2>9, <3>2, <4>1
        <4>3. q[o] = IF place[o] > place[p] THEN place[o] - 1 ELSE place[o]
          BY <2>6, <4>1
        <4>4. CASE l.next[o] = Nil
          <5>1. place[o] = l.count
            BY <4>1, <4>4 DEF Whole, Numbered
          <5>2. place[p] =< l.count
            BY <1>2 DEF Whole, Numbered
          <5>3. place[o] > place[p]
            BY <2>2, <2>4, <4>2, <5>1, <5>2
          <5> QED BY <1>1, <4>1, <4>3, <4>4, <5>1, <5>3
        <4>5. CASE l.next[o] # Nil
          <5>1. place[l.next[o]] = place[o] + 1 /\ l.next[o] \in Ends(l)
            BY <4>1, <4>5, Facts DEF Whole, Numbered, Ends
          <5>2. q[l.next[o]] = IF place[o] + 1 > place[p]
                               THEN place[o] ELSE place[o] + 1
            BY <2>6, <4>2, <5>1
          <5>3. q[l.next[o]] = q[o] + 1
            BY <2>3, <2>4, <4>2, <4>3, <5>2
          <5> QED BY <4>1, <4>5, <5>3
        <4> QED BY <4>4, <4>5
      <3> QED BY <3>1, <3>2
    <2> QED BY <2>5, <2>6, <2>8, <2>10, <2>11, <2>12
           DEF Numbered, ClosedUp
  <1>12. Settled(m)
    <2>1. m.next[m.tail] = Nil
      <3>1. CASE behind = Nil
        BY <1>1, <1>8, <3>1
      <3>2. CASE behind # Nil
        <4>1. l.next[l.tail] = Nil /\ l.tail \in Ends(l)
          BY DEF Settled, Whole, Typed
        <4>2. l.tail \in Owner \ {pp, p}
          BY <3>2, <4>1, Facts
        <4> QED BY <1>1, <1>8, <3>2, <4>1, <4>2
      <3> QED BY <3>1, <3>2
    <2>2. ASSUME NEW i \in m.open PROVE Agrees(m.next, m.iter[i])
      <3> DEFINE it == l.iter[i]
      <3>1. /\ i \in Iter /\ i \in l.open
            /\ m.iter[i].prev = IF it.pos = p \/ it.prev = p THEN pp
                                ELSE it.prev
            /\ m.iter[i].pos = IF it.pos = p THEN behind ELSE it.pos
        BY <1>1 DEF AfterDestroy, Whole, Typed
      <3>2. it.prev \in Ends(l)
        BY <3>1 DEF Whole, Typed
      <3>3. \/ it.pos = l.next[it.prev]
            \/ /\ l.next[it.prev] # Nil
               /\ it.pos = l.next[l.next[it.prev]]
        BY <3>1 DEF Settled, Agrees
      <3>4. l.next[it.prev] # Nil => l.next[it.prev] \in Ends(l)
        BY <3>2, Facts DEF Ends
      <3> HIDE DEF it
      <3>5. \A o \in Ends(l) \ {pp, p} : m.next[o] = l.next[o]
        BY <1>8, Facts
      <3>6. CASE it.pos = p
        BY <1>8, <3>1, <3>6 DEF Agrees
      <3>7. CASE it.pos # p /\ it.prev = p
        <4>1. m.iter[i].prev = pp /\ m.iter[i].pos = it.pos
          BY <3>1, <3>7
        <4>2. behind # Nil => behind \in Ends(l) \ {pp, p}
          BY <1>6, <1>7 DEF Ends
        <4> QED BY <1>8, <3>3, <3>5, <3>7, <4>1, <4>2 DEF Agrees
      <3>8. CASE it.pos # p /\ it.prev # p
        <4>1. m.iter[i].prev = it.prev /\ m.iter[i].pos = it.pos
          BY <3>1, <3>8
        <4>2. CASE it.prev = pp
          BY <1>8, <3>3, <3>8, <4>1, <4>2 DEF Agrees
        <4>3. CASE it.prev # pp
          <5>1. m.next[it.prev] = l.next[it.prev] /\ l.next[it.prev] # p
            BY <1>9, <3>2, <3>5, <3>8, <4>3
          <5>2. CASE l.next[it.prev] = pp
            BY <3>3, <3>8, <4>1, <5>1, <5>2 DEF Agrees
          <5>3. CASE l.next[it.prev] # pp
            BY <3>3, <3>4, <3>5, <4>1, <5>1, <5>3 DEF Agrees
          <5> QED BY <5>2, <5>3
        <4> QED BY <4>2, <4>3
      <3> QED BY <3>6, <3>7, <3>8
    <2> QED BY <2>1, <2>2 DEF Settled
  <1>13. q \in [Owner -> Nat]
    BY <1>11 DEF Numbered
  <1> HIDE DEF q
  <1> QED BY <1>1, <1>5, <1>10, <1>11, <1>12, <1>13 DEF Whole, m

-----------------------------------------------------------------------------
\* Iterators that agree with the list may be moved, made and destroyed.
LEMMA ReadingKeeps ==
  ASSUME NEW l, NEW place, Whole(l, place), Settled(l),
         NEW open \in SUBSET Iter,
         NEW iter \in [Iter -> [prev : Ends(l), pos : l.nodes \cup {Nil}]],
         \A i \in open : Agrees(l.next, iter[i])
  PROVE  LET m == With(l, l.next, l.tail, open, iter) IN
         Whole(m, place) /\ Settled(m) /\ m.open = open
  <1> DEFINE m == With(l, l.next, l.tail, open, iter)
  <1>1. /\ m.nodes = l.nodes /\ m.next = l.next /\ m.tail = l.tail
        /\ m.count = l.count /\ m.open = open /\ m.iter = iter
    BY DEF With
  <1> HIDE DEF m
  <1>2. Ends(m) = Ends(l)
    BY <1>1 DEF Ends
  <1>3. Typed(m)
    BY <1>1, <1>2 DEF Whole, Typed
  <1>4. Numbered(m, place)
    BY <1>1, <1>2 DEF Whole, Numbered
  <1>5. Settled(m)
    BY <1>1 DEF Settled
  <1> QED BY <1>1, <1>3, <1>4, <1>5 DEF Whole, m

LEMMA HeadAgrees ==
  ASSUME NEW l, NEW place, Whole(l, place)
  PROVE  /\ AtHead(l.next) \in [prev : Ends(l), pos : l.nodes \cup {Nil}]
         /\ Agrees(l.next, AtHead(l.next))
         /\ Closed \in [prev : Ends(l), pos : l.nodes \cup {Nil}]
  <1>1. Top \in Ends(l)
    BY DEF Ends
  <1>2. l.next[Top] \in l.nodes \cup {Nil}
    BY <1>1, Facts
  <1> QED BY <1>1, <1>2 DEF AtHead, Closed, Agrees

\* list_next(): its prev follows, unless it does already.
LEMMA AdvancedAgrees ==
  ASSUME NEW l, NEW place, Whole(l, place),
         NEW it \in [prev : Ends(l), pos : l.nodes \cup {Nil}],
         Agrees(l.next, it)
  PROVE  /\ Advanced(l.next, it) \in [prev : Ends(l), pos : l.nodes \cup {Nil}]
         /\ Agrees(l.next, Advanced(l.next, it))
  <1> DEFINE to == Advanced(l.next, it)
  <1>1. /\ to.prev = IF l.next[it.prev] # it.pos THEN l.next[it.prev]
                     ELSE it.prev
        /\ to.pos = IF it.pos = Nil THEN Nil ELSE l.next[it.pos]
        /\ to = [prev |-> to.prev, pos |-> to.pos]
    BY DEF Advanced
  <1> HIDE DEF to
  <1>2. it.prev \in Ends(l) /\ it.pos \in l.nodes \cup {Nil}
    OBVIOUS
  <1>3. \A o \in Ends(l) : l.next[o] \in l.nodes \cup {Nil}
    BY Facts
  <1>4. l.nodes \subseteq Ends(l)
    BY DEF Ends
  <1>5. \/ it.pos = l.next[it.prev]
        \/ l.next[it.prev] # Nil /\ it.pos = l.next[l.next[it.prev]]
    BY DEF Agrees
  <1>6. to.prev \in Ends(l)
    BY <1>1, <1>2, <1>3, <1>4, <1>5
  <1>7. to.pos \in l.nodes \cup {Nil}
    BY <1>1, <1>2, <1>3, <1>4
  <1>8. to.pos = l.next[to.prev]
          \/ (l.next[to.prev] # Nil /\ to.pos = l.next[l.next[to.prev]])
    BY <1>1, <1>5
  <1> QED BY <1>1, <1>6, <1>7, <1>8 DEF Agrees, to

\* list_sort(): the list l when the node behind pp has been put behind spot,
\* and the node that is before pp then, back having been before it.
Relinked(l, pp, spot) ==
  With(l, [l.next EXCEPT ![l.next[pp]] = l.next[spot],
                         ![spot] = l.next[pp],
                         ![pp] = l.next[l.next[pp]]], l.tail, l.open, l.iter)

BackAfter(l, pp, back, spot) == IF back = spot THEN l.next[pp] ELSE back

\* The numbers when the node behind pp has gone behind spot.
Renumbered(l, place, pp, spot, q) ==
  /\ q[l.next[pp]] = place[spot] + 1
  /\ \A o \in Ends(l) \ {l.next[pp]} :
       q[o] = IF place[o] > place[spot] /\ place[o] =< place[pp]
              THEN place[o] + 1 ELSE place[o]

\* list_sort(): the node behind pp goes behind spot, which is before it.
LEMMA MoveKeeps ==
  ASSUME NEW l, NEW place, Whole(l, place),
         NEW pp \in Ends(l), NEW back \in Ends(l), NEW spot \in Ends(l),
         l.next[pp] # Nil, place[pp] = place[back] + 1,
         place[spot] =< place[back]
  PROVE  /\ Ends(Relinked(l, pp, spot)) = Ends(l) /\ l.next[pp] \in Ends(l)
         /\ \E q \in [Owner -> Nat] :
              /\ Whole(Relinked(l, pp, spot), q)
              /\ q[pp] = q[BackAfter(l, pp, back, spot)] + 1
              /\ Renumbered(l, place, pp, spot, q)
  <1> DEFINE x == l.next[pp]
             next == [l.next EXCEPT ![x] = l.next[spot], ![spot] = x,
                                    ![pp] = l.next[x]]
             m == With(l, next, l.tail, l.open, l.iter)
             q == [o \in Owner |->
                     IF o = x THEN place[spot] + 1
                     ELSE IF place[o] > place[spot] /\ place[o] =< place[pp]
                     THEN place[o] + 1 ELSE place[o]]
  <1>1. /\ m.nodes = l.nodes /\ m.next = next /\ m.tail = l.tail
        /\ m.count = l.count /\ m.open = l.open /\ m.iter = l.iter
    BY DEF With
  <1>2. Ends(m) = Ends(l)
    BY <1>1 DEF Ends
  <1>3. x \in l.nodes /\ x \in Ends(l)
    BY Facts DEF Ends
  <1>4. \A o \in Ends(l) : place[o] \in Nat /\ o \in Owner
    BY Facts
  <1>5. place[x] = place[pp] + 1
    BY DEF Whole, Numbered
  <1>6. x # pp /\ x # spot /\ spot # pp
    BY <1>3, <1>4, <1>5
  <1>7. place[spot] < place[pp]
    BY <1>4
  <1>8. \A o, p \in Ends(l) : place[o] = place[p] => o = p
    BY DEF Whole, Numbered
  <1>9. \A o \in Ends(l) :
          IF l.next[o] = Nil THEN place[o] = l.count
          ELSE l.next[o] \in Ends(l) /\ place[l.next[o]] = place[o] + 1
    BY Facts DEF Whole, Numbered, Ends
  <1>10. l.count \in Nat /\ \A o \in Ends(l) : place[o] =< l.count
    BY Facts DEF Whole, Numbered, Ends
  <1>11. l.next[spot] # Nil
    <2>1. place[pp] =< l.count
      BY <1>10
    <2>2. place[spot] # l.count
      BY <1>4, <1>7, <1>10, <2>1
    <2> QED BY <1>9, <2>2
  <1>12. l.next \in [Owner -> l.nodes \cup {Nil}]
    BY DEF Whole, Typed
  <1>13. /\ next[x] = l.next[spot] /\ next[spot] = x
         /\ next[pp] = l.next[x]
         /\ \A o \in Owner \ {x, spot, pp} : next[o] = l.next[o]
    BY <1>3, <1>4, <1>6, <1>12
  <1>14. next \in [Owner -> l.nodes \cup {Nil}]
    <2>1. l.next[spot] \in l.nodes \cup {Nil} /\ l.next[x] \in l.nodes \cup {Nil}
      BY <1>3, Facts
    <2> QED BY <1>3, <1>12, <2>1
  <1> HIDE DEF m, next
  <1>15. Typed(m)
    <2>1. \A o \in Owner \ Ends(l) : next[o] = Nil
      BY <1>3, <1>13 DEF Whole, Typed
    <2> QED BY <1>1, <1>2, <1>14, <2>1 DEF Whole, Typed
  <1>16. q \in [Owner -> Nat]
    <2>1. place \in [Owner -> Nat] /\ place[spot] \in Nat
      BY <1>4 DEF Whole, Numbered
    <2>2. ASSUME NEW o \in Owner PROVE q[o] \in Nat
      BY <2>1
    <2> QED BY <2>2
  <1>17. /\ q[x] = place[spot] + 1
         /\ \A o \in Ends(l) \ {x} :
              q[o] = IF place[o] > place[spot] /\ place[o] =< place[pp]
                     THEN place[o] + 1 ELSE place[o]
    BY <1>3, <1>4
  <1> HIDE DEF q
  <1>18. q[spot] = place[spot] /\ q[pp] = place[pp] + 1
    BY <1>4, <1>6, <1>7, <1>17
  <1>19. q[pp] = q[IF back = spot THEN x ELSE back] + 1
    <2>1. CASE back = spot
      BY <1>4, <1>17, <1>18, <2>1
    <2>2. CASE back # spot
      <3>1. place[back] # place[spot] /\ back # x
        BY <1>4, <1>5, <1>8, <2>2
      <3>2. q[back] = place[back] + 1
        BY <1>4, <1>17, <3>1
      <3> QED BY <1>18, <2>2, <3>2
    <2> QED BY <2>1, <2>2
  <1>20. Numbered(m, q)
    <2>1. Top \in Ends(l) /\ place[Top] = 0 /\ x # Top
      BY <1>4, <1>5 DEF Ends, Whole, Numbered
    <2>2. q[Top] = 0
      BY <1>4, <1>17, <2>1
    <2>3. ASSUME NEW y \in l.nodes PROVE 1 =< q[y] /\ q[y] =< l.count
      <3>1. y \in Ends(l) /\ 1 =< place[y] /\ place[y] =< l.count
        BY DEF Ends, Whole, Numbered
      <3>2. place[pp] + 1 =< l.count
        BY <1>3, <1>5, <1>10
      <3>3. CASE y = x
        BY <1>4, <1>7, <1>10, <1>17, <3>2, <3>3
      <3>4. CASE y # x
        <4>1. q[y] = IF place[y] > place[spot] /\ place[y] =< place[pp]
                     THEN place[y] + 1 ELSE place[y]
          BY <1>17, <3>1, <3>4
        <4> QED BY <1>4, <1>10, <3>1, <3>2, <4>1
      <3> QED BY <3>3, <3>4
    <2>4. ASSUME NEW y \in Ends(l), NEW z \in Ends(l), q[y] = q[z], y # z
          PROVE  FALSE
      <3>1. /\ place[y] \in Nat /\ place[z] \in Nat
            /\ place[spot] \in Nat /\ place[pp] \in Nat
        BY <1>4
      <3>2. place[y] # place[z]
        BY <1>8, <2>4
      <3>3. ASSUME NEW o \in Ends(l) \ {x} PROVE q[o] # q[x]
        <4>1. q[o] = IF place[o] > place[spot] /\ place[o] =< place[pp]
                     THEN place[o] + 1 ELSE place[o]
          BY <1>17
        <4>2. place[o] # place[pp] + 1 /\ place[o] \in Nat
          BY <1>3, <1>4, <1>5, <1>8
        <4> QED BY <1>7, <1>17, <3>1, <4>1, <4>2
      <3>4. y # x /\ z # x
        BY <2>4, <3>3
      <3>5. /\ q[y] = IF place[y] > place[spot] /\ place[y] =< place[pp]
                      THEN place[y] + 1 ELSE place[y]
            /\ q[z] = IF place[z] > place[spot] /\ place[z] =< place[pp]
                      THEN place[z] + 1 ELSE place[z]
        BY <1>17, <3>4
      <3>6. place[y] # place[pp] + 1 /\ place[z] # place[pp] + 1
        BY <1>3, <1>5, <1>8, <3>4
      <3>7. q[y] = q[z]
        BY <2>4
      <3> QED BY <3>1, <3>2, <3>5, <3>6, <3>7
    <2>5. ASSUME NEW o \in Ends(l)
          PROVE  IF next[o] = Nil THEN q[o] = l.count
                 ELSE q[next[o]] = q[o] + 1
      <3>1. CASE o = x
        <4> DEFINE s == l.next[spot]
        <4>1. s \in Ends(l) /\ place[s] = place[spot] + 1
          BY <1>9, <1>11
        <4>2. s # x
          BY <1>4, <1>5, <1>7, <4>1
        <4> HIDE DEF s
        <4>3. place[s] > place[spot] /\ place[s] =< place[pp]
          BY <1>4, <1>7, <4>1
        <4>4. q[s] = place[spot] + 2
          BY <1>4, <1>17, <4>1, <4>2, <4>3
        <4> QED BY <1>4, <1>11, <1>13, <1>17, <3>1, <4>4 DEF s
      <3>2. CASE o = spot
        <4>1. x # Nil
          OBVIOUS
        <4> QED BY <1>13, <1>17, <1>18, <3>2, <4>1
      <3>3. CASE o = pp
        <4>1. CASE l.next[x] = Nil
          BY <1>3, <1>5, <1>9, <1>13, <1>18, <3>3, <4>1
        <4>2. CASE l.next[x] # Nil
          <5> DEFINE s == l.next[x]
          <5>1. s \in Ends(l) /\ place[s] = place[pp] + 2
            BY <1>3, <1>4, <1>5, <1>9, <4>2
          <5>2. s # x
            BY <1>4, <1>5, <5>1
          <5> HIDE DEF s
          <5>3. ~ (place[s] =< place[pp])
            BY <1>4, <5>1
          <5>4. q[s] = place[pp] + 2
            BY <1>17, <5>1, <5>2, <5>3
          <5> QED BY <1>4, <1>13, <1>18, <3>3, <4>2, <5>4 DEF s
        <4> QED BY <4>1, <4>2
      <3>4. CASE o \notin {x, spot, pp}
        <4>1. next[o] = l.next[o]
          BY <1>4, <1>13, <3>4
        <4>2. /\ place[o] \in Nat /\ place[spot] \in Nat /\ place[pp] \in Nat
              /\ place[o] # place[spot] /\ place[o] # place[pp]
              /\ place[o] # place[pp] + 1
          BY <1>3, <1>4, <1>5, <1>8, <3>4
        <4>3. q[o] = IF place[o] > place[spot] /\ place[o] =< place[pp]
                     THEN place[o] + 1 ELSE place[o]
          BY <1>17, <3>4
        <4>4. CASE l.next[o] = Nil
          <5>1. place[o] = l.count
            BY <1>9, <4>4
          <5>2. place[pp] + 1 =< l.count
            BY <1>3, <1>5, <1>10
          <5>3. ~ (place[o] =< place[pp])
            BY <4>2, <5>1, <5>2
          <5> QED BY <4>1, <4>3, <4>4, <5>1, <5>3
        <4>5. CASE l.next[o] # Nil
          <5> DEFINE s == l.next[o]
          <5>1. s \in Ends(l) /\ place[s] = place[o] + 1
            BY <1>9, <4>5
          <5>2. s # x
            BY <1>5, <4>2, <5>1
          <5> HIDE DEF s
          <5>3. q[s] = IF place[s] > place[spot] /\ place[s] =< place[pp]
                       THEN place[s] + 1 ELSE place[s]
            BY <1>17, <5>1, <5>2
          <5>4. q[s] = q[o] + 1
            BY <4>2, <4>3, <5>1, <5>3
          <5> QED BY <4>1, <4>5, <5>4 DEF s
        <4> QED BY <4>4, <4>5
      <3> QED BY <3>1, <3>2, <3>3, <3>4
    <2> QED BY <1>1, <1>2, <1>16, <2>2, <2>3, <2>4, <2>5 DEF Numbered
  <1>21. Relinked(l, pp, spot) = m
    BY DEF Relinked, m, next
  <1>22. q[pp] = q[BackAfter(l, pp, back, spot)] + 1
    BY <1>19 DEF BackAfter
  <1>23. Whole(m, q)
    BY <1>15, <1>20 DEF Whole
  <1>24. Renumbered(l, place, pp, spot, q)
    BY <1>17 DEF Renumbered
  <1> QED BY <1>2, <1>3, <1>16, <1>21, <1>22, <1>23, <1>24

-----------------------------------------------------------------------------
(* The actions.                                                            *)

LEMMA InvImplies ==
  ListInv => IteratorsAgree
  <1> SUFFICES ASSUME ListInv PROVE IteratorsAgree
    OBVIOUS
  <1>1. PICK place \in [Owner -> Nat] :
          Whole(list, place) /\ LoopInv(list, scan, place)
    BY DEF ListInv
  <1>2. LivePointers
    BY <1>1 DEF Whole, Typed, LoopInv, LivePointers, Ends
  <1> QED BY <1>1, <1>2 DEF IteratorsAgree, LoopInv, Settled

\* Between calls, and where a call ends: no loop has pointers of its own.
LEMMA IdleFields ==
  /\ Idle.call = "none" /\ Idle.pp = Top /\ Idle.back = Top
  /\ Idle.spot = Nil
  BY DEF Idle, Loop

LEMMA IdleIsSettled ==
  ASSUME ListInv, scan.call # "sort"
  PROVE  \E place \in [Owner -> Nat] : Whole(list, place) /\ Settled(list)
  BY DEF ListInv, LoopInv

LEMMA EndsIdle ==
  ASSUME NEW q \in [Owner -> Nat], Whole(list', q), Settled(list'),
         scan' = Idle
  PROVE  ListInv'
  <1>1. LoopInv(list', scan', q)
    BY IdleFields DEF LoopInv, Ends
  <1> QED BY <1>1 DEF ListInv

LEMMA CallOnly ==
  ASSUME ListInv, scan' = scan, list' = list
  PROVE  ListInv'
  BY DEF ListInv

LEMMA InitInv ==
  Init => ListInv
  <1> SUFFICES ASSUME Init PROVE ListInv
    OBVIOUS
  <1> DEFINE place == [o \in Owner |-> 0]
  <1>1. /\ list.nodes = {} /\ list.tail = Top /\ list.count = 0
        /\ list.next = [o \in Owner |-> Nil] /\ list.open = {}
        /\ list.iter = [i \in Iter |-> Closed]
    BY DEF Init, Created
  <1>2. Ends(list) = {Top} /\ Top \in Owner
    BY <1>1 DEF Ends, Owner
  <1>3. Typed(list)
    BY <1>1, <1>2 DEF Typed, Closed
  <1>4. Numbered(list, place)
    BY <1>1, <1>2 DEF Numbered
  <1>5. Settled(list)
    BY <1>1, <1>2 DEF Settled
  <1>6. LoopInv(list, scan, place)
    BY <1>2, <1>5, IdleFields DEF Init, LoopInv
  <1>7. place \in [Owner -> Nat]
    OBVIOUS
  <1> HIDE DEF place
  <1> QED BY <1>3, <1>4, <1>6, <1>7 DEF ListInv, Whole

LEMMA RenewKeeps ==
  ASSUME ListInv, Renew PROVE ListInv'
  <1> DEFINE place == [o \in Owner |-> 0]
  <1>1. /\ list'.nodes = {} /\ list'.tail = Top /\ list'.count = 0
        /\ list'.next = [o \in Owner |-> Nil] /\ list'.open = {}
        /\ list'.iter = [i \in Iter |-> Closed]
    BY DEF Renew, Created
  <1>2. Ends(list') = {Top} /\ Top \in Owner
    BY <1>1 DEF Ends, Owner
  <1>3. Typed(list')
    BY <1>1, <1>2 DEF Typed, Closed
  <1>4. Numbered(list', place)
    BY <1>1, <1>2 DEF Numbered
  <1>5. Settled(list')
    BY <1>1, <1>2 DEF Settled
  <1>6. place \in [Owner -> Nat] /\ scan' = Idle
    BY DEF Renew, Call
  <1> HIDE DEF place
  <1> QED BY <1>3, <1>4, <1>5, <1>6, EndsIdle DEF Whole

LEMMA PutKeeps ==
  ASSUME ListInv, NEW pp \in Ends(list), NEW x \in Item, Put(pp, x)
  PROVE  ListInv'
  <1>1. scan = Idle /\ scan' = Idle /\ x \in Item \ list.nodes
    BY DEF Put, Call
  <1>2. CASE list' = list
    BY <1>1, <1>2, CallOnly
  <1>3. CASE list' = NodeCreate(list, pp, x)
    <2>1. PICK place \in [Owner -> Nat] : Whole(list, place) /\ Settled(list)
      BY <1>1, IdleIsSettled, IdleFields
    <2>2. /\ \E q \in [Owner -> Nat] : Whole(list', q)
          /\ Settled(list')
      BY <1>1, <1>3, <2>1, CreateKeeps
    <2> QED BY <1>1, <2>2, EndsIdle
  <1> QED BY <1>2, <1>3 DEF Put

LEMMA OutKeeps ==
  ASSUME ListInv, NEW pp \in Ends(list), Out(pp), scan = Idle, scan' = scan
  PROVE  ListInv'
  <1>1. CASE list.next[pp] = Nil
    BY <1>1, CallOnly DEF Out
  <1>2. CASE list.next[pp] # Nil
    <2>1. PICK place \in [Owner -> Nat] : Whole(list, place) /\ Settled(list)
      BY IdleIsSettled, IdleFields
    <2>2. list' = NodeDestroy(list, pp)
      BY <1>2 DEF Out
    <2>3. /\ \E q \in [Owner -> Nat] : Whole(list', q)
          /\ Settled(list')
      BY <1>2, <2>1, <2>2, DestroyKeeps
    <2> QED BY <2>3, EndsIdle
  <1> QED BY <1>1, <1>2

LEMMA Standing ==
  ASSUME ListInv
  PROVE  /\ Top \in Ends(list) /\ list.tail \in Ends(list)
         /\ \A i \in list.open : i \in Iter /\ list.iter[i].prev \in Ends(list)
  BY DEF ListInv, Whole, Typed, Ends

\* What moves, makes or destroys the iterator i, and nothing else.
LEMMA IterKeeps ==
  ASSUME NEW place \in [Owner -> Nat], Whole(list, place), Settled(list),
         NEW i \in Iter, NEW open \in SUBSET Iter,
         NEW it \in [prev : Ends(list), pos : list.nodes \cup {Nil}],
         open \ {i} \subseteq list.open,
         i \in open => Agrees(list.next, it),
         list' = With(list, list.next, list.tail, open,
                      [list.iter EXCEPT ![i] = it])
  PROVE  Whole(list', place) /\ Settled(list') /\ list'.open = open
  <1> DEFINE iter == [list.iter EXCEPT ![i] = it]
  <1>1. list.iter \in [Iter -> [prev : Ends(list), pos : list.nodes \cup {Nil}]]
    BY DEF Whole, Typed
  <1>2. iter \in [Iter -> [prev : Ends(list), pos : list.nodes \cup {Nil}]]
    BY <1>1
  <1>3. ASSUME NEW j \in open PROVE Agrees(list.next, iter[j])
    <2>1. CASE j = i
      BY <1>1, <2>1
    <2>2. CASE j # i
      BY <1>1, <2>2 DEF Settled
    <2> QED BY <2>1, <2>2
  <1> HIDE DEF iter
  <1>4. list' = With(list, list.next, list.tail, open, iter)
    BY DEF iter
  <1> DEFINE m == With(list, list.next, list.tail, open, iter)
  <1>5. Whole(m, place) /\ Settled(m) /\ m.open = open
    BY <1>2, <1>3, ReadingKeeps
  <1> HIDE DEF m
  <1>6. list' = m
    BY <1>4 DEF m
  <1> QED BY <1>5, <1>6

LEMMA MeetKeeps ==
  ASSUME NEW place \in [Owner -> Nat], Whole(list, place), Settled(list),
         NEW i \in list.open, Meet(i)
  PROVE  Whole(list', place) /\ Settled(list') /\ list'.open = list.open
  <1>1. i \in Iter /\ list.open \in SUBSET Iter
    BY DEF Whole, Typed
  <1>2. list.iter[i] \in [prev : Ends(list), pos : list.nodes \cup {Nil}]
    BY <1>1 DEF Whole, Typed
  <1>3. Agrees(list.next, list.iter[i])
    BY DEF Settled
  <1>4. /\ Advanced(list.next, list.iter[i])
             \in [prev : Ends(list), pos : list.nodes \cup {Nil}]
        /\ Agrees(list.next, Advanced(list.next, list.iter[i]))
    BY <1>2, <1>3, AdvancedAgrees
  <1>5. list' = With(list, list.next, list.tail, list.open,
                     [list.iter EXCEPT
                        ![i] = Advanced(list.next, list.iter[i])])
    BY DEF Meet, Reading
  <1> QED BY <1>1, <1>4, <1>5, IterKeeps

LEMMA IteratorCallsKeep ==
  ASSUME ListInv, IterCreate \/ IterReset \/ IterDestroy \/ ListNext
  PROVE  ListInv'
  <1>1. scan = Idle /\ scan' = Idle
    BY DEF IterCreate, IterReset, IterDestroy, ListNext, Call
  <1>2. PICK place \in [Owner -> Nat] : Whole(list, place) /\ Settled(list)
    BY <1>1, IdleIsSettled, IdleFields
  <1>3. list.open \subseteq Iter
    BY <1>2 DEF Whole, Typed
  <1>4. /\ AtHead(list.next)
             \in [prev : Ends(list), pos : list.nodes \cup {Nil}]
        /\ Agrees(list.next, AtHead(list.next))
        /\ Closed \in [prev : Ends(list), pos : list.nodes \cup {Nil}]
    BY <1>2, HeadAgrees
  <1>5. CASE IterCreate
    <2>1. PICK i \in Iter \ list.open :
            \/ list' = With(list, list.next, list.tail, list.open \cup {i},
                            [list.iter EXCEPT ![i] = AtHead(list.next)])
            \/ list' = list
      BY <1>5 DEF IterCreate
    <2>2. CASE list' = list
      BY <1>1, <2>2, CallOnly
    <2>3. CASE list' = With(list, list.next, list.tail, list.open \cup {i},
                            [list.iter EXCEPT ![i] = AtHead(list.next)])
      <3>1. list.open \cup {i} \in SUBSET Iter
              /\ (list.open \cup {i}) \ {i} \subseteq list.open
        BY <1>3
      <3>2. Whole(list', place) /\ Settled(list')
        BY <1>2, <1>4, <2>3, <3>1, IterKeeps, ZenonT(60)
      <3> QED BY <1>1, <3>2, EndsIdle
    <2> QED BY <2>1, <2>2, <2>3
  <1>6. CASE IterReset
    <2>1. PICK i \in list.open :
            list' = With(list, list.next, list.tail, list.open,
                         [list.iter EXCEPT ![i] = AtHead(list.next)])
      BY <1>6 DEF IterReset, Reading
    <2>2. Whole(list', place) /\ Settled(list')
      BY <1>2, <1>3, <1>4, <2>1, IterKeeps
    <2> QED BY <1>1, <2>2, EndsIdle
  <1>7. CASE IterDestroy
    <2>1. PICK i \in list.open :
            list' = With(list, list.next, list.tail, list.open \ {i},
                         [list.iter EXCEPT ![i] = Closed])
      BY <1>7 DEF IterDestroy
    <2>2. list.open \ {i} \in SUBSET Iter
            /\ (list.open \ {i}) \ {i} \subseteq list.open
            /\ i \notin list.open \ {i} /\ i \in Iter
      BY <1>3
    <2> DEFINE open == list.open \ {i}
    <2>3. i \in open => Agrees(list.next, Closed)
      BY <2>2
    <2> HIDE DEF open
    <2>4. /\ open \in SUBSET Iter /\ open \ {i} \subseteq list.open
          /\ list' = With(list, list.next, list.tail, open,
                          [list.iter EXCEPT ![i] = Closed])
      BY <2>1, <2>2 DEF open
    <2>5. Whole(list', place) /\ Settled(list')
      BY <1>2, <1>4, <2>2, <2>3, <2>4, IterKeeps
    <2> QED BY <1>1, <2>5, EndsIdle
  <1>8. CASE ListNext
    <2>1. PICK i \in list.open : Meet(i)
      BY <1>8 DEF ListNext
    <2>2. Whole(list', place) /\ Settled(list')
      BY <1>2, <2>1, MeetKeeps
    <2> QED BY <1>1, <2>2, EndsIdle
  <1> QED BY <1>5, <1>6, <1>7, <1>8

\* The loops of list_find() and list_delete_all() begin and go on.
LEMMA LoopBegins ==
  ASSUME ListInv, scan = Idle, list' = list,
         scan'.call \in {"find", "delete_all"},
         scan'.pp = Top, scan'.back = Top, scan'.spot = Nil,
         scan'.call = "find" => scan'.was[1] \in list.open
  PROVE  ListInv'
  <1>1. PICK place \in [Owner -> Nat] : Whole(list, place) /\ Settled(list)
    BY IdleIsSettled, IdleFields
  <1>2. LoopInv(list', scan', place)
    BY <1>1 DEF LoopInv, Ends
  <1> QED BY <1>1, <1>2 DEF ListInv

LEMMA FindKeeps ==
  ASSUME ListInv, Find PROVE ListInv'
  <1>1. PICK i \in list.open, key \in Ranks :
          /\ scan = Idle /\ list' = list
          /\ scan' = Loop("find", key, Top, Top, Nil, 0, <<i>>)
    BY DEF Find
  <1>2. /\ scan'.call = "find" /\ scan'.pp = Top /\ scan'.back = Top
        /\ scan'.spot = Nil /\ scan'.was = <<i>>
    BY <1>1 DEF Loop
  <1>3. scan'.was[1] = i
    BY <1>2
  <1> QED BY <1>1, <1>2, <1>3, LoopBegins

LEMMA FindingKeeps ==
  ASSUME ListInv, Finding PROVE ListInv'
  <1>1. PICK place \in [Owner -> Nat] :
          Whole(list, place) /\ LoopInv(list, scan, place)
    BY DEF ListInv
  <1>2. scan.call = "find" /\ Meet(scan.was[1]) /\ (scan' = Idle \/ scan' = scan)
    BY DEF Finding
  <1>3. Settled(list) /\ scan.was[1] \in list.open
    BY <1>1, <1>2 DEF LoopInv
  <1>4. Whole(list', place) /\ Settled(list') /\ list'.open = list.open
    BY <1>1, <1>2, <1>3, MeetKeeps
  <1>5. CASE scan' = Idle
    BY <1>4, <1>5, EndsIdle
  <1>6. CASE scan' = scan
    <2>1. Ends(list') = Ends(list)
      BY <1>2 DEF Meet, Reading, With, Ends
    <2>2. LoopInv(list', scan', place)
      BY <1>1, <1>2, <1>4, <1>6, <2>1 DEF LoopInv
    <2> QED BY <1>4, <2>2 DEF ListInv
  <1> QED BY <1>2, <1>5, <1>6

LEMMA DeleteAllKeeps ==
  ASSUME ListInv, DeleteAll PROVE ListInv'
  <1>1. PICK key \in Ranks :
          /\ scan = Idle /\ list' = list
          /\ scan' = Loop("delete_all", key, Top, Top, Nil, 0, <<>>)
    BY DEF DeleteAll
  <1>2. /\ scan'.call = "delete_all" /\ scan'.pp = Top /\ scan'.back = Top
        /\ scan'.spot = Nil
    BY <1>1 DEF Loop
  <1> QED BY <1>1, <1>2, LoopBegins

LEMMA DeletingKeeps ==
  ASSUME ListInv, Deleting PROVE ListInv'
  <1>1. PICK place \in [Owner -> Nat] :
          Whole(list, place) /\ LoopInv(list, scan, place)
    BY DEF ListInv
  <1>2. scan.call = "delete_all"
    BY DEF Deleting
  <1>3. Settled(list) /\ scan.pp \in Ends(list)
    BY <1>1, <1>2 DEF LoopInv
  <1> DEFINE p == list.next[scan.pp]
  <1>4. CASE p = Nil
    BY <1>1, <1>3, <1>4, EndsIdle DEF Deleting
  <1>5. CASE p # Nil /\ Matches(p, scan.key)
    <2>1. /\ list' = NodeDestroy(list, scan.pp)
          /\ scan' = Loop("delete_all", scan.key, scan.pp, Top, Nil,
                          scan.n + 1, <<>>)
      BY <1>5 DEF Deleting
    <2>2. /\ \E q \in [Owner -> Nat] : Whole(list', q)
          /\ Settled(list') /\ scan.pp \in Ends(list')
      BY <1>1, <1>3, <1>5, <2>1, DestroyKeeps
    <2>3. PICK q \in [Owner -> Nat] : Whole(list', q)
      BY <2>2
    <2>4. /\ scan'.call = "delete_all" /\ scan'.pp = scan.pp
          /\ scan'.back = Top /\ scan'.spot = Nil
      BY <2>1 DEF Loop
    <2>5. LoopInv(list', scan', q)
      BY <2>2, <2>4 DEF LoopInv, Ends
    <2> QED BY <2>3, <2>5 DEF ListInv
  <1>6. CASE p # Nil /\ ~ Matches(p, scan.key)
    <2>1. /\ list' = list
          /\ scan' = Loop("delete_all", scan.key, p, Top, Nil, scan.n, <<>>)
      BY <1>6 DEF Deleting
    <2>2. /\ scan'.call = "delete_all" /\ scan'.pp = p
          /\ scan'.back = Top /\ scan'.spot = Nil
      BY <2>1 DEF Loop
    <2>3. p \in Ends(list)
      BY <1>1, <1>3, <1>6, Facts DEF Ends
    <2>4. LoopInv(list', scan', place)
      BY <1>3, <2>1, <2>2, <2>3 DEF LoopInv, Ends
    <2> QED BY <1>1, <2>1, <2>4 DEF ListInv
  <1> QED BY <1>4, <1>5, <1>6

\* list_sort(): what each step has of the one before it.
LEMMA SortFacts ==
  ASSUME NEW place, Whole(list, place), LoopInv(list, scan, place),
         scan.call = "sort"
  PROVE  /\ scan.pp \in Ends(list) /\ scan.back \in Ends(list)
         /\ place[scan.pp] = place[scan.back] + 1
         /\ scan.spot # Nil =>
              /\ scan.spot \in Ends(list)
              /\ list.next[scan.pp] # Nil
              /\ Less(list.next[scan.pp], list.next[scan.back])
              /\ place[scan.spot] =< place[scan.back]
  BY DEF LoopInv

LEMMA SortKeeps ==
  ASSUME ListInv, Sort PROVE ListInv'
  <1>1. scan = Idle /\ list' = list
    BY DEF Sort, Call
  <1>2. CASE scan' = scan
    BY <1>1, <1>2, CallOnly
  <1>3. CASE list.count > 1
            /\ scan' = Loop("sort", 0, list.next[Top], Top, Nil, 0, Items)
    <2>1. PICK place \in [Owner -> Nat] : Whole(list, place)
      BY DEF ListInv
    <2>2. /\ scan'.call = "sort" /\ scan'.pp = list.next[Top]
          /\ scan'.back = Top /\ scan'.spot = Nil
      BY <1>3 DEF Loop
    <2>3. Top \in Ends(list) /\ place[Top] = 0
      BY <2>1 DEF Ends, Whole, Numbered
    <2>4. list.next[Top] # Nil
      <3>1. list.count # 0
        BY <1>3
      <3> QED BY <2>1, <2>3, <3>1 DEF Whole, Numbered
    <2>5. list.next[Top] \in Ends(list)
      BY <2>1, <2>3, <2>4, Facts DEF Ends
    <2>6. place[list.next[Top]] = place[Top] + 1
      BY <2>1, <2>3, <2>4 DEF Whole, Numbered
    <2>7. LoopInv(list', scan', place)
      BY <1>1, <2>2, <2>3, <2>5, <2>6 DEF LoopInv
    <2> QED BY <1>1, <2>1, <2>7 DEF ListInv
  <1> QED BY <1>2, <1>3 DEF Sort, Call

LEMMA SortCompareKeeps ==
  ASSUME ListInv, SortCompare PROVE ListInv'
  <1>1. PICK place \in [Owner -> Nat] :
          Whole(list, place) /\ LoopInv(list, scan, place)
    BY DEF ListInv
  <1>2. /\ scan.call = "sort" /\ scan.spot = Nil /\ list.next[scan.pp] # Nil
        /\ list' = list
    BY DEF SortCompare, Sorting
  <1>3. /\ scan.pp \in Ends(list) /\ scan.back \in Ends(list)
        /\ place[scan.pp] = place[scan.back] + 1
    BY <1>1, <1>2, SortFacts
  <1>4. CASE Less(list.next[scan.pp], list.next[scan.back])
    <2>1. scan' = Loop("sort", 0, scan.pp, scan.back, Top, 0, scan.was)
      BY <1>4 DEF SortCompare
    <2>2. /\ scan'.call = "sort" /\ scan'.pp = scan.pp
          /\ scan'.back = scan.back /\ scan'.spot = Top
      BY <2>1 DEF Loop
    <2>3. place[Top] =< place[scan.back]
      <3>1. place[Top] = 0 /\ place[scan.back] \in Nat
        BY <1>1, <1>3, Facts DEF Whole, Numbered
      <3> QED BY <3>1
    <2>4. Top \in Ends(list)
      BY DEF Ends
    <2>5. LoopInv(list', scan', place)
      BY <1>2, <1>3, <1>4, <2>2, <2>3, <2>4 DEF LoopInv
    <2> QED BY <1>1, <1>2, <2>5 DEF ListInv
  <1>5. CASE ~ Less(list.next[scan.pp], list.next[scan.back])
    <2>1. scan' = Loop("sort", 0, list.next[scan.pp], scan.pp, Nil, 0, scan.was)
      BY <1>5 DEF SortCompare
    <2>2. /\ scan'.call = "sort" /\ scan'.pp = list.next[scan.pp]
          /\ scan'.back = scan.pp /\ scan'.spot = Nil
      BY <2>1 DEF Loop
    <2>3. list.next[scan.pp] \in Ends(list)
      BY <1>1, <1>2, <1>3, Facts DEF Ends
    <2>4. place[list.next[scan.pp]] = place[scan.pp] + 1
      BY <1>1, <1>2, <1>3 DEF Whole, Numbered
    <2>5. LoopInv(list', scan', place)
      BY <1>2, <1>3, <2>2, <2>3, <2>4 DEF LoopInv
    <2> QED BY <1>1, <1>2, <2>5 DEF ListInv
  <1> QED BY <1>4, <1>5

\* The place that is sought is found before the end of what is in order.
LEMMA SortLookKeeps ==
  ASSUME ListInv, SortLook PROVE ListInv'
  <1>1. PICK place \in [Owner -> Nat] :
          Whole(list, place) /\ LoopInv(list, scan, place)
    BY DEF ListInv
  <1>2. /\ scan.call = "sort" /\ scan.spot # Nil /\ list' = list
        /\ ~ Less(list.next[scan.pp], list.next[scan.spot])
        /\ scan' = Loop("sort", 0, scan.pp, scan.back, list.next[scan.spot],
                        0, scan.was)
    BY DEF SortLook
  <1>3. /\ scan.pp \in Ends(list) /\ scan.back \in Ends(list)
        /\ place[scan.pp] = place[scan.back] + 1
        /\ scan.spot \in Ends(list)
        /\ list.next[scan.pp] # Nil
        /\ Less(list.next[scan.pp], list.next[scan.back])
        /\ place[scan.spot] =< place[scan.back]
    BY <1>1, <1>2, SortFacts
  <1> DEFINE next == list.next[scan.spot]
  <1>4. /\ scan'.call = "sort" /\ scan'.pp = scan.pp
        /\ scan'.back = scan.back /\ scan'.spot = next
    BY <1>2 DEF Loop
  <1>5. \A o \in Ends(list) : place[o] \in Nat
    BY <1>1, Facts
  <1>6. place[scan.spot] < place[scan.back]
    <2>1. scan.spot # scan.back
      BY <1>2, <1>3
    <2>2. place[scan.spot] # place[scan.back]
      BY <1>1, <1>3, <2>1 DEF Whole, Numbered
    <2> QED BY <1>3, <1>5, <2>2
  <1>7. next # Nil
    <2>1. place[scan.back] =< list.count /\ list.count \in Nat
      BY <1>1, <1>3, Facts DEF Whole, Numbered, Ends
    <2>2. place[scan.spot] # list.count
      BY <1>3, <1>5, <1>6, <2>1
    <2> QED BY <1>1, <1>3, <2>2 DEF Whole, Numbered
  <1>8. next \in Ends(list) /\ place[next] = place[scan.spot] + 1
    BY <1>1, <1>3, <1>7, Facts DEF Whole, Numbered, Ends
  <1>9. place[next] =< place[scan.back]
    BY <1>3, <1>5, <1>6, <1>8
  <1> HIDE DEF next
  <1>10. LoopInv(list', scan', place)
    BY <1>2, <1>3, <1>4, <1>8, <1>9 DEF LoopInv
  <1> QED BY <1>1, <1>2, <1>10 DEF ListInv

LEMMA SortMoveKeeps ==
  ASSUME ListInv, SortMove PROVE ListInv'
  <1>1. PICK place \in [Owner -> Nat] :
          Whole(list, place) /\ LoopInv(list, scan, place)
    BY DEF ListInv
  <1> DEFINE m == Relinked(list, scan.pp, scan.spot)
             back == BackAfter(list, scan.pp, scan.back, scan.spot)
  <1>2. /\ scan.call = "sort" /\ scan.spot # Nil
        /\ list' = m
        /\ scan' = Loop("sort", 0, scan.pp, back, Nil, 0, scan.was)
    BY DEF SortMove, Relinked, BackAfter
  <1>3. /\ scan.pp \in Ends(list) /\ scan.back \in Ends(list)
        /\ place[scan.pp] = place[scan.back] + 1
        /\ scan.spot \in Ends(list)
        /\ list.next[scan.pp] # Nil
        /\ place[scan.spot] =< place[scan.back]
    BY <1>1, <1>2, SortFacts
  <1>4. /\ Ends(m) = Ends(list) /\ list.next[scan.pp] \in Ends(list)
        /\ \E q \in [Owner -> Nat] :
             Whole(m, q) /\ q[scan.pp] = q[back] + 1
    <2> DEFINE pp == scan.pp
               bk == scan.back
               spot == scan.spot
    <2>1. /\ pp \in Ends(list) /\ bk \in Ends(list) /\ spot \in Ends(list)
          /\ list.next[pp] # Nil /\ place[pp] = place[bk] + 1
          /\ place[spot] =< place[bk]
      BY <1>3
    <2>2. Whole(list, place)
      BY <1>1
    <2> HIDE DEF pp, bk, spot, m, back
    <2>3. /\ Ends(Relinked(list, pp, spot)) = Ends(list)
          /\ list.next[pp] \in Ends(list)
          /\ \E q \in [Owner -> Nat] :
               /\ Whole(Relinked(list, pp, spot), q)
               /\ q[pp] = q[BackAfter(list, pp, bk, spot)] + 1
      BY ONLY <2>1, <2>2, MoveKeeps
    <2> QED BY ONLY <2>3 DEF m, back, pp, bk, spot
  <1>5. back \in Ends(list)
    BY <1>3, <1>4 DEF BackAfter
  <1>6. /\ scan'.call = "sort" /\ scan'.pp = scan.pp
        /\ scan'.back = back /\ scan'.spot = Nil
    BY <1>2 DEF Loop
  <1> HIDE DEF m, back
  <1>7. PICK q \in [Owner -> Nat] :
          Whole(m, q) /\ q[scan.pp] = q[back] + 1
    BY <1>4
  <1>8. LoopInv(list', scan', q)
    BY <1>2, <1>3, <1>4, <1>5, <1>6, <1>7 DEF LoopInv
  <1> QED BY <1>2, <1>7, <1>8 DEF ListInv

LEMMA SortEndKeeps ==
  ASSUME ListInv, SortEnd PROVE ListInv'
  <1>1. PICK place \in [Owner -> Nat] :
          Whole(list, place) /\ LoopInv(list, scan, place)
    BY DEF ListInv
  <1> DEFINE iter == [i \in Iter |-> IF i \in list.open THEN AtHead(list.next)
                                     ELSE Closed]
  <1>2. /\ scan.call = "sort" /\ list.next[scan.pp] = Nil /\ scan' = Idle
        /\ list' = With(list, list.next, scan.pp, list.open, iter)
    BY DEF SortEnd, Moved
  <1>3. scan.pp \in Ends(list)
    BY <1>1, <1>2, SortFacts
  <1>4. /\ AtHead(list.next)
             \in [prev : Ends(list), pos : list.nodes \cup {Nil}]
        /\ Agrees(list.next, AtHead(list.next))
        /\ Closed \in [prev : Ends(list), pos : list.nodes \cup {Nil}]
    BY <1>1, HeadAgrees
  <1>5. iter \in [Iter -> [prev : Ends(list), pos : list.nodes \cup {Nil}]]
    BY <1>4
  <1>6. \A i \in list.open : Agrees(list.next, iter[i])
    BY <1>1, <1>4 DEF Whole, Typed
  <1> HIDE DEF iter
  <1>7. /\ list'.nodes = list.nodes /\ list'.next = list.next
        /\ list'.tail = scan.pp /\ list'.count = list.count
        /\ list'.open = list.open /\ list'.iter = iter
    BY <1>2 DEF With
  <1>8. Ends(list') = Ends(list)
    BY <1>7 DEF Ends
  <1>9. Typed(list')
    BY <1>1, <1>3, <1>5, <1>7, <1>8 DEF Whole, Typed
  <1>10. Numbered(list', place)
    BY <1>1, <1>7, <1>8 DEF Whole, Numbered
  <1>11. Settled(list')
    BY <1>2, <1>6, <1>7 DEF Settled
  <1> QED BY <1>2, <1>9, <1>10, <1>11, EndsIdle DEF Whole

LEMMA NextKeeps ==
  ListInv /\ [Next]_vars => ListInv'
  <1> SUFFICES ASSUME ListInv, [Next]_vars PROVE ListInv'
    OBVIOUS
  <1>1. /\ Top \in Ends(list) /\ list.tail \in Ends(list)
        /\ \A i \in list.open : list.iter[i].prev \in Ends(list)
    BY Standing
  <1>2. CASE Renew
    BY <1>2, RenewKeeps
  <1>3. CASE AppendItem \/ Enqueue \/ Prepend \/ Push \/ Insert
    BY <1>1, <1>3, PutKeeps DEF AppendItem, Enqueue, Prepend, Push, Insert
  <1>4. CASE Pop \/ Dequeue
    BY <1>1, <1>4, OutKeeps DEF Pop, Dequeue, Take, Call
  <1>5. CASE Peek \/ FindFirst \/ ForEach
    BY <1>5, CallOnly DEF Peek, FindFirst, ForEach, Call
  <1>6. CASE Remove
    <2>1. PICK i \in list.open :
            \/ Take(list.iter[i].prev)
            \/ Call(Nil) /\ UNCHANGED list
      BY <1>6 DEF Remove
    <2> QED BY <1>1, <2>1, OutKeeps, CallOnly DEF Take, Call
  <1>7. CASE Delete
    <2>1. PICK i \in list.open :
            \/ scan = Idle /\ scan' = scan /\ Out(list.iter[i].prev)
            \/ scan' = scan /\ UNCHANGED list
      BY <1>7 DEF Delete, Call
    <2> QED BY <1>1, <2>1, OutKeeps, CallOnly
  <1>8. CASE IterCreate \/ IterReset \/ IterDestroy \/ ListNext
    BY <1>8, IteratorCallsKeep
  <1>9. CASE Find \/ Finding
    BY <1>9, FindKeeps, FindingKeeps
  <1>10. CASE DeleteAll \/ Deleting
    BY <1>10, DeleteAllKeeps, DeletingKeeps
  <1>11. CASE Sort \/ SortCompare \/ SortLook
    BY <1>11, SortKeeps, SortCompareKeeps, SortLookKeeps
  <1>12. CASE SortMove \/ SortEnd
    BY <1>12, SortMoveKeeps, SortEndKeeps
  <1>13. CASE UNCHANGED vars
    BY <1>13, CallOnly DEF vars
  <1> QED BY <1>2, <1>3, <1>4, <1>5, <1>6, <1>7, <1>8, <1>9, <1>10, <1>11,
             <1>12, <1>13 DEF Next

-----------------------------------------------------------------------------
\* Whatever calls are made through whatever iterators, no pointer of the
\* list, of an iterator or of a loop leads to a node that was freed, and the
\* assertions of list_node_create() and list_node_destroy() hold.
THEOREM IteratorsAlwaysAgree == Spec => []IteratorsAgree
  <1>1. Init => ListInv
    BY InitInv
  <1>2. ListInv /\ [Next]_vars => ListInv'
    BY NextKeeps
  <1>3. ListInv => IteratorsAgree
    BY InvImplies
  <1> QED BY <1>1, <1>2, <1>3, PTL DEF Spec

-----------------------------------------------------------------------------
(* What loops over p->next meet.                                           *)

\* What is met from each node on in n steps, from what is met in one less.
FoundFirst(next, n, from) ==
  [p \in Node |->
     IF n = 0 \/ p = Nil THEN <<>> ELSE <<p>> \o from[n - 1][next[p]]]

LEMMA ConsIs ==
  ASSUME NEW S, NEW x \in S, NEW s \in Seq(S)
  PROVE  /\ <<x>> \in Seq(S) /\ Len(<<x>>) = 1 /\ <<x>>[1] = x
         /\ <<x>> \o s \in Seq(S) /\ Len(<<x>> \o s) = Len(s) + 1
         /\ (<<x>> \o s)[1] = x
         /\ \A k \in 2 .. Len(s) + 1 : (<<x>> \o s)[k] = s[k - 1]
  OBVIOUS

LEMMA ChainIs ==
  ASSUME NEW next \in [Owner -> Node]
  PROVE  \E f \in [0 .. Cardinality(Item) -> [Node -> Seq(Node)]] :
           /\ Chain(next) = f[Cardinality(Item)]
           /\ \A n \in 0 .. Cardinality(Item) : f[n] = FoundFirst(next, n, f)
  <1> DEFINE N == Cardinality(Item)
             S == 0 .. N
             V == [Node -> Seq(Node)]
             m == [n \in S |-> n]
             D == [z \in S \X [S -> V] |-> FoundFirst(next, z[1], z[2])]
  <1>1. N \in Nat
    BY ListsAssumption, FS_CardinalityType
  <1>2. Node \ {Nil} \subseteq Owner
    BY DEF Node, Owner
  <1>3. ASSUME NEW n \in S, NEW f \in [S -> V] PROVE FoundFirst(next, n, f) \in V
    <2> SUFFICES ASSUME NEW p \in Node
                 PROVE  (IF n = 0 \/ p = Nil THEN <<>>
                         ELSE <<p>> \o f[n - 1][next[p]]) \in Seq(Node)
      BY DEF FoundFirst
    <2>1. CASE n = 0 \/ p = Nil
      BY <2>1
    <2>2. CASE n # 0 /\ p # Nil
      <3>1. n - 1 \in S /\ next[p] \in Node
        BY <1>1, <1>2, <2>2
      <3>2. f[n - 1][next[p]] \in Seq(Node)
        BY <3>1
      <3> QED BY <2>2, <3>2
    <2> QED BY <2>1, <2>2
  <1>4. ASSUME NEW n \in S, NEW f \in [S -> V], NEW g \in [S -> V],
               \A k \in S : m[k] < m[n] => f[k] = g[k]
        PROVE  FoundFirst(next, n, f) = FoundFirst(next, n, g)
    <2>1. CASE n = 0
      BY <2>1 DEF FoundFirst
    <2>2. CASE n # 0
      <3>1. n - 1 \in S /\ m[n - 1] < m[n]
        BY <1>1, <2>2
      <3>2. f[n - 1] = g[n - 1]
        BY <1>4, <3>1
      <3> QED BY <3>2 DEF FoundFirst
    <2> QED BY <2>1, <2>2
  <1>5. \A n \in S, f \in [S -> V] : D[<<n, f>>] = FoundFirst(next, n, f)
    OBVIOUS
  <1>6. D \in [S \X [S -> V] -> V]
    BY <1>3
  <1>7. m \in [S -> 0 .. N] /\ V # {}
    <2>1. [p \in Node |-> <<>>] \in V
      OBVIOUS
    <2> QED BY <2>1
  <1>8. \A n \in S, f, g \in [S -> V] :
          (\A k \in S : m[k] < m[n] => f[k] = g[k])
            => D[<<n, f>>] = D[<<n, g>>]
    <2> SUFFICES ASSUME NEW n \in S, NEW f \in [S -> V], NEW g \in [S -> V],
                        \A k \in S : m[k] < m[n] => f[k] = g[k]
                 PROVE  D[<<n, f>>] = D[<<n, g>>]
      OBVIOUS
    <2>1. FoundFirst(next, n, f) = FoundFirst(next, n, g)
      BY <1>4
    <2> HIDE DEF D, S, V
    <2> QED BY <1>5, <2>1
  <1> HIDE DEF D, V, m
  <1>9. PICK f \in [S -> V] : \A n \in S : f[n] = D[<<n, f>>]
    <2> HIDE DEF N, S
    <2>1. Recursion(S, V, N, m, D)
      BY <1>1, <1>6, <1>7, <1>8 DEF Recursion
    <2> QED BY <2>1, RecursionExists
  <1>10. f = [n \in S |-> FoundFirst(next, n, f)]
    BY <1>5, <1>9
  <1> DEFINE from == CHOOSE g : g = [n \in S |-> FoundFirst(next, n, g)]
  <1>11. from = [n \in S |-> FoundFirst(next, n, from)]
    BY <1>10
  <1>12. Chain(next) = from[N]
    BY DEF Chain, FoundFirst
  <1> HIDE DEF from
  <1>13. \A n \in S : from[n] = FoundFirst(next, n, from)
    BY <1>11
  <1>14. from \in [S -> V]
    <2> DEFINE T == {n \in Nat : n \in S => from[n] \in V}
    <2>1. \A n \in S : from[n] = [p \in Node |-> 
            IF n = 0 \/ p = Nil THEN <<>> ELSE <<p>> \o from[n - 1][next[p]]]
      BY <1>13 DEF FoundFirst
    <2>2. 0 \in T
      <3> SUFFICES from[0] \in V
        OBVIOUS
      <3>1. 0 \in S
        BY <1>1
      <3>2. from[0] = [p \in Node |-> <<>>]
        BY <2>1, <3>1
      <3> QED BY <3>2 DEF V
    <2>3. ASSUME NEW n \in Nat, n \in T PROVE n + 1 \in T
      <3> SUFFICES ASSUME n + 1 \in S PROVE from[n + 1] \in V
        OBVIOUS
      <3>1. n \in S /\ from[n] \in [Node -> Seq(Node)]
        BY <1>1, <2>3 DEF V
      <3>0. (n + 1) - 1 = n /\ n + 1 # 0
        OBVIOUS
      <3>2. from[n + 1] = [p \in Node |->
              IF p = Nil THEN <<>> ELSE <<p>> \o from[n][next[p]]]
        <4>1. from[n + 1] = [p \in Node |->
                IF n + 1 = 0 \/ p = Nil THEN <<>>
                ELSE <<p>> \o from[(n + 1) - 1][next[p]]]
          BY <2>1
        <4> QED BY ONLY <3>0, <4>1
      <3>3. ASSUME NEW p \in Node
            PROVE  (IF p = Nil THEN <<>> ELSE <<p>> \o from[n][next[p]])
                     \in Seq(Node)
        <4>1. p # Nil => from[n][next[p]] \in Seq(Node)
          BY <1>2, <3>1
        <4> QED BY <4>1
      <3> QED BY <3>2, <3>3 DEF V
    <2> HIDE DEF T
    <2>4. Nat \subseteq T
      BY <2>2, <2>3, Induction
    <2>5. \A n \in S : from[n] \in V
      BY <1>1, <2>4 DEF T
    <2> QED BY <1>11, <2>5
  <1> QED BY <1>12, <1>13, <1>14 DEF V

\* s is what l holds from node p on.
Runs(l, place, p, s) ==
  /\ s \in Seq(l.nodes)
  /\ Len(s) = l.count - place[p] + 1
  /\ \A k \in 1 .. Len(s) : place[s[k]] = place[p] + k - 1

LEMMA ChainRuns ==
  ASSUME NEW l, NEW place, Whole(l, place),
         NEW f, NEW N \in Nat, \A n \in 0 .. N : f[n] = FoundFirst(l.next, n, f)
  PROVE  \A n \in 0 .. N, p \in l.nodes :
           l.count - place[p] < n => Runs(l, place, p, f[n][p])
  <1> DEFINE T == {n \in Nat : n =< N => \A p \in l.nodes :
                     l.count - place[p] < n => Runs(l, place, p, f[n][p])}
  <1>1. /\ l.nodes \subseteq Node /\ Nil \in Node /\ Nil \notin l.nodes
        /\ l.nodes \subseteq Ends(l)
    BY Facts, ListsAssumption DEF Whole, Typed, Node, Ends
  <1>2. \A p \in l.nodes : /\ place[p] \in Nat /\ l.count \in Nat
                           /\ place[p] =< l.count
    BY <1>1, Facts DEF Whole, Numbered
  <1>3. 0 \in T
    <2>1. \A p \in l.nodes : ~ (l.count - place[p] < 0)
      BY <1>2
    <2> QED BY <2>1
  <1>4. ASSUME NEW n \in Nat, n \in T PROVE n + 1 \in T
    <2> SUFFICES ASSUME n + 1 =< N, NEW p \in l.nodes,
                        l.count - place[p] < n + 1
                 PROVE  Runs(l, place, p, f[n + 1][p])
      OBVIOUS
    <2>1. n \in 0 .. N /\ n + 1 \in 0 .. N /\ (n + 1) - 1 = n /\ n + 1 # 0
      OBVIOUS
    <2>2. p \in Node /\ p # Nil /\ p \in Ends(l)
      BY <1>1
    <2>3. f[n + 1][p] = <<p>> \o f[n][l.next[p]]
      <3>1. f[n + 1] = [r \in Node |->
              IF n + 1 = 0 \/ r = Nil THEN <<>>
              ELSE <<r>> \o f[(n + 1) - 1][l.next[r]]]
        BY <2>1 DEF FoundFirst
      <3>2. f[n + 1][p] = IF n + 1 = 0 \/ p = Nil THEN <<>>
                          ELSE <<p>> \o f[(n + 1) - 1][l.next[p]]
        BY <2>2, <3>1
      <3> QED BY ONLY <2>1, <2>2, <3>2
    <2>4. CASE l.next[p] = Nil
      <3>1. f[n][Nil] = <<>>
        BY <1>1, <2>1 DEF FoundFirst
      <3>2. f[n + 1][p] = <<p>>
        BY <2>3, <2>4, <3>1
      <3>3. place[p] = l.count
        BY <2>2, <2>4 DEF Whole, Numbered
      <3>4. l.count - place[p] + 1 = 1
        BY <1>2, <3>3
      <3>5. <<p>> \in Seq(l.nodes) /\ Len(<<p>>) = 1 /\ <<p>>[1] = p
        <4>1. <<>> \in Seq(l.nodes)
          OBVIOUS
        <4> QED BY ONLY p \in l.nodes, <4>1, ConsIs
      <3>6. \A k \in 1 .. 1 : place[<<p>>[k]] = place[p] + k - 1
        BY <1>2, <3>5
      <3> QED BY <3>2, <3>4, <3>5, <3>6 DEF Runs
    <2>5. CASE l.next[p] # Nil
      <3> DEFINE q == l.next[p]
                 s == f[n][q]
      <3>1. q \in l.nodes /\ place[q] = place[p] + 1
        BY <2>2, <2>5, Facts DEF Whole, Numbered
      <3>2. l.count - place[q] < n
        BY <1>2, <3>1
      <3>3. Runs(l, place, q, s)
        BY <1>4, <3>1, <3>2
      <3> HIDE DEF q, s
      <3>4. s \in Seq(l.nodes) /\ Len(s) \in Nat
            /\ Len(s) = l.count - place[q] + 1
            /\ \A k \in 1 .. Len(s) : place[s[k]] = place[q] + k - 1
        BY <3>3 DEF Runs
      <3>5. /\ <<p>> \o s \in Seq(l.nodes) /\ Len(<<p>> \o s) = Len(s) + 1
            /\ (<<p>> \o s)[1] = p
            /\ \A k \in 2 .. Len(s) + 1 : (<<p>> \o s)[k] = s[k - 1]
        <4>1. s \in Seq(l.nodes)
          BY <3>4
        <4>2. PICK W : W = l.nodes
          OBVIOUS
        <4>3. p \in W /\ s \in Seq(W)
          BY <4>1, <4>2
        <4>4. /\ <<p>> \o s \in Seq(W) /\ Len(<<p>> \o s) = Len(s) + 1
              /\ (<<p>> \o s)[1] = p
              /\ \A k \in 2 .. Len(s) + 1 : (<<p>> \o s)[k] = s[k - 1]
          BY ONLY <4>3, ConsIs
        <4> QED BY <4>2, <4>4
      <3>6. Len(<<p>> \o s) = l.count - place[p] + 1
        BY <1>2, <3>1, <3>4, <3>5
      <3>7. ASSUME NEW k \in 1 .. Len(s) + 1
            PROVE  place[(<<p>> \o s)[k]] = place[p] + k - 1
        <4>1. CASE k = 1
          BY <1>2, <3>5, <4>1
        <4>2. CASE k # 1
          <5>1. k - 1 \in 1 .. Len(s) /\ k \in 2 .. Len(s) + 1
            BY <3>4, <4>2
          <5>2. place[s[k - 1]] = place[q] + (k - 1) - 1
            BY <3>4, <5>1
          <5>3. (<<p>> \o s)[k] = s[k - 1]
            BY <3>5, <5>1
          <5> QED BY ONLY <1>2, <3>1, <5>2, <5>3
        <4> QED BY <4>1, <4>2
      <3>8. f[n + 1][p] = <<p>> \o s
        BY <2>3 DEF s, q
      <3> QED BY <3>5, <3>6, <3>7, <3>8 DEF Runs
    <2> QED BY <2>4, <2>5
  <1> HIDE DEF T
  <1>5. Nat \subseteq T
    BY <1>3, <1>4, Induction
  <1> QED BY <1>5 DEF T

\* No more nodes are counted than there are items.
LEMMA RoomForCount ==
  ASSUME NEW l, NEW place, Whole(l, place)
  PROVE  l.count =< Cardinality(Item) /\ Cardinality(Item) \in Nat
  <1> DEFINE T == {n \in Nat : n =< l.count =>
                                 \E x \in Ends(l) : place[x] = n}
  <1>1. /\ l.count \in Nat /\ Top \in Ends(l) /\ place[Top] = 0
        /\ \A x \in Ends(l) : place[x] \in Nat
    BY Facts DEF Whole, Numbered, Ends
  <1>2. 0 \in T
    BY <1>1
  <1>3. ASSUME NEW n \in Nat, n \in T PROVE n + 1 \in T
    <2> SUFFICES ASSUME n + 1 =< l.count
                 PROVE  \E x \in Ends(l) : place[x] = n + 1
      OBVIOUS
    <2>1. PICK x \in Ends(l) : place[x] = n
      BY <1>1, <1>3
    <2>2. l.next[x] # Nil
      BY <1>1, <2>1 DEF Whole, Numbered
    <2>3. l.next[x] \in Ends(l) /\ place[l.next[x]] = n + 1
      BY <2>1, <2>2, Facts DEF Whole, Numbered, Ends
    <2> QED BY <2>3
  <1> HIDE DEF T
  <1>4. Nat \subseteq T
    BY <1>2, <1>3, Induction
  <1>5. \A k \in 1 .. l.count : \E x \in Item : x \in l.nodes /\ place[x] = k
    <2> TAKE k \in 1 .. l.count
    <2>1. k \in Nat /\ k =< l.count /\ k # 0
      BY <1>1
    <2>2. PICK x \in Ends(l) : place[x] = k
      BY <1>4, <2>1 DEF T
    <2> QED BY <1>1, <2>1, <2>2 DEF Ends, Whole, Typed
  <1> DEFINE g == [k \in 1 .. l.count |->
                     CHOOSE x \in Item : x \in l.nodes /\ place[x] = k]
  <1>6. \A k \in 1 .. l.count : g[k] \in Item /\ place[g[k]] = k
    BY <1>5
  <1>7. g \in Injection(1 .. l.count, Item)
    <2>1. g \in [1 .. l.count -> Item]
      BY <1>6
    <2> HIDE DEF g
    <2>2. \A j, k \in 1 .. l.count : g[j] = g[k] => j = k
      BY <1>6
    <2> QED BY ONLY <2>1, <2>2 DEF Injection, IsInjective
  <1>8. /\ IsFiniteSet(1 .. l.count)
        /\ Cardinality(1 .. l.count) = l.count
    <2>1. 1 \in Int /\ l.count \in Int
      BY <1>1
    <2>2. /\ IsFiniteSet(1 .. l.count)
          /\ Cardinality(1 .. l.count)
               = IF 1 > l.count THEN 0 ELSE l.count - 1 + 1
      BY ONLY <2>1, FS_Interval
    <2> QED BY <1>1, <2>2
  <1>9. Cardinality(1 .. l.count) =< Cardinality(Item)
    <2> HIDE DEF g
    <2> QED BY <1>7, ListsAssumption, FS_Injection
  <1> QED BY <1>8, <1>9, ListsAssumption, FS_CardinalityType

\* s are the nodes of l in the order of their numbers.
InOrder(l, place, s) ==
  /\ s \in Seq(l.nodes) /\ Len(s) = l.count
  /\ \A k \in 1 .. l.count : place[s[k]] = k

LEMMA ItemsAre ==
  ASSUME NEW l, NEW place, Whole(l, place)
  PROVE  InOrder(l, place, Chain(l.next)[l.next[Top]])
  <1> DEFINE N == Cardinality(Item)
             s == Chain(l.next)[l.next[Top]]
  <1>1. l.next \in [Owner -> Node]
    BY DEF Whole, Typed, Node
  <1>2. PICK f : /\ Chain(l.next) = f[N]
                 /\ \A n \in 0 .. N : f[n] = FoundFirst(l.next, n, f)
    BY <1>1, ChainIs
  <1>3. N \in Nat /\ l.count =< N /\ l.count \in Nat
    BY RoomForCount, Facts
  <1>4. Top \in Ends(l) /\ place[Top] = 0
    BY DEF Ends, Whole, Numbered
  <1>5. CASE l.next[Top] = Nil
    <2>1. l.count = 0
      BY <1>4, <1>5 DEF Whole, Numbered
    <2>2. s = f[N][Nil] /\ N \in 0 .. N /\ Nil \in Node
      BY <1>2, <1>3, <1>5 DEF Node
    <2>3. f[N][Nil] = <<>>
      BY <1>2, <2>2 DEF FoundFirst
    <2>4. s = <<>>
      BY <2>2, <2>3
    <2> HIDE DEF s
    <2>5. <<>> \in Seq(l.nodes)
      OBVIOUS
    <2>6. s \in Seq(l.nodes) /\ Len(s) = 0
      BY <2>4, <2>5
    <2>7. InOrder(l, place, s)
      BY <2>1, <2>6 DEF InOrder
    <2> QED BY <2>7 DEF s
  <1>6. CASE l.next[Top] # Nil
    <2>1. l.next[Top] \in l.nodes /\ place[l.next[Top]] = 1
      BY <1>4, <1>6, Facts DEF Whole, Numbered
    <2>2. l.count - 1 < N /\ N \in 0 .. N
      BY <1>3
    <2>3. Runs(l, place, l.next[Top], f[N][l.next[Top]])
      BY <1>2, <1>3, <2>1, <2>2, ChainRuns
    <2>4. Runs(l, place, l.next[Top], s)
      BY <1>2, <2>3
    <2> HIDE DEF s
    <2>5. s \in Seq(l.nodes) /\ Len(s) = l.count
      BY <1>3, <2>1, <2>4 DEF Runs
    <2>6. \A k \in 1 .. l.count : place[s[k]] = k
      <3> TAKE k \in 1 .. l.count
      <3>1. place[s[k]] = 1 + k - 1
        BY <2>1, <2>4, <2>5 DEF Runs
      <3> QED BY <1>3, <3>1
    <2>7. InOrder(l, place, s)
      BY <2>5, <2>6 DEF InOrder
    <2> QED BY <2>7 DEF s
  <1> QED BY <1>5, <1>6

LEMMA ListInvIsWhole == ListInv => ListIsWhole
  <1> SUFFICES ASSUME ListInv PROVE ListIsWhole
    OBVIOUS
  <1>1. PICK place \in [Owner -> Nat] :
          Whole(list, place) /\ LoopInv(list, scan, place)
    BY DEF ListInv
  <1>2. /\ Items \in Seq(list.nodes) /\ Len(Items) = list.count
        /\ \A k \in 1 .. list.count : place[Items[k]] = k
    BY <1>1, ItemsAre DEF Items, InOrder
  <1>3. /\ list.count \in Nat /\ list.nodes \subseteq Ends(list)
        /\ \A x \in list.nodes :
             place[x] \in Nat /\ 1 =< place[x] /\ place[x] =< list.count
        /\ \A x, y \in Ends(list) : place[x] = place[y] => x = y
        /\ Top \in Ends(list) /\ place[Top] = 0
    BY <1>1, Facts DEF Whole, Numbered, Ends
  <1>4. DOMAIN Items = 1 .. list.count
        /\ \A k \in 1 .. list.count : Items[k] \in list.nodes
    BY <1>2
  <1>5. ASSUME NEW x \in list.nodes PROVE \E k \in DOMAIN Items : Items[k] = x
    <2>1. place[x] \in 1 .. list.count
      BY <1>3
    <2>2. Items[place[x]] \in list.nodes /\ place[Items[place[x]]] = place[x]
      BY <1>2, <1>4, <2>1
    <2>3. Items[place[x]] = x
      BY <1>3, <2>2
    <2> QED BY <1>4, <2>1, <2>3
  <1>6. {Items[k] : k \in DOMAIN Items} = list.nodes
    BY <1>4, <1>5
  <1>7. ASSUME scan.call # "sort"
        PROVE  list.tail = IF Items = <<>> THEN Top ELSE Items[Len(Items)]
    <2>1. list.tail \in Ends(list) /\ list.next[list.tail] = Nil
      BY <1>1, <1>7 DEF LoopInv, Settled, Whole, Typed
    <2>2. place[list.tail] = list.count
      BY <1>1, <2>1 DEF Whole, Numbered
    <2>3. CASE Items = <<>>
      <3>1. list.count = 0
        BY <1>2, <2>3
      <3> QED BY <1>3, <2>1, <2>2, <2>3, <3>1
    <2>4. CASE Items # <<>>
      <3>1. Len(Items) \in 1 .. list.count
        BY <1>2, <1>3, <2>4
      <3>2. Items[Len(Items)] \in Ends(list)
            /\ place[Items[Len(Items)]] = list.count
        BY <1>2, <1>3, <1>4, <3>1
      <3> QED BY <1>3, <2>1, <2>2, <2>4, <3>2
    <2> QED BY <2>3, <2>4
  <1> QED BY <1>2, <1>6, <1>7 DEF ListIsWhole

\* Whatever was put in, taken out and sorted, in whatever order and among
\* whatever iterators, all nodes hang together from the head, none twice, as
\* many as are counted, and list->tail is the end of them.
THEOREM ListsAreWhole == Spec => []ListIsWhole
  <1>1. Init => ListInv
    BY InitInv
  <1>2. ListInv /\ [Next]_vars => ListInv'
    BY NextKeeps
  <1> QED BY <1>1, <1>2, ListInvIsWhole, PTL DEF Spec

-----------------------------------------------------------------------------
(* Sorting.  A numbering of the nodes is all there is to say about a list, *)
(* and so where was remembers a node is what it was numbered.              *)

LEMMA OneNumbering ==
  ASSUME NEW l, NEW p, Whole(l, p), NEW q, Whole(l, q)
  PROVE  \A o \in Ends(l) : p[o] = q[o]
  <1> DEFINE s == Chain(l.next)[l.next[Top]]
  <1>1. InOrder(l, p, s) /\ InOrder(l, q, s)
    BY ItemsAre
  <1> HIDE DEF s
  <1>2. ASSUME NEW o \in l.nodes PROVE p[o] = q[o]
    <2>1. /\ o \in Ends(l) /\ p[o] \in 1 .. l.count
          /\ \A x, y \in Ends(l) : p[x] = p[y] => x = y
      BY Facts DEF Whole, Numbered, Ends
    <2>2. s[p[o]] \in l.nodes /\ p[s[p[o]]] = p[o] /\ q[s[p[o]]] = p[o]
      BY <1>1, <2>1 DEF InOrder
    <2>3. s[p[o]] = o
      BY <2>1, <2>2 DEF Ends
    <2> QED BY <2>2, <2>3
  <1>3. p[Top] = q[Top]
    BY DEF Whole, Numbered
  <1> QED BY <1>2, <1>3 DEF Ends

\* s has each node of l once; old says where.
Recalled(l, old, s) ==
  /\ s \in Seq(l.nodes)
  /\ \A x \in l.nodes : /\ old[x] \in DOMAIN s
                        /\ \A n \in DOMAIN s : s[n] = x <=> n = old[x]

\* x is to come before y.
Before(old, x, y) ==
  \/ Rank[x] < Rank[y]
  \/ Rank[x] = Rank[y] /\ old[x] < old[y]

\* The nodes up to pp are in order, the others are where they were, and those
\* up to spot are not greater than the one that is to move.
Sorted(l, s, old, place) ==
  /\ \A x, y \in l.nodes :
       place[x] < place[y] /\ place[y] =< place[s.pp] => Before(old, x, y)
  /\ \A x, y \in l.nodes :
       place[x] < place[y] /\ place[y] > place[s.pp] => old[x] < old[y]
  /\ s.spot # Nil =>
       \A x \in l.nodes :
         place[x] =< place[s.spot] => Rank[x] =< Rank[l.next[s.pp]]

SortInv ==
  /\ ListInv
  /\ scan.call = "sort" =>
       \E old \in [Item -> Nat] :
         /\ Recalled(list, old, scan.was)
         /\ \A place \in [Owner -> Nat] :
              Whole(list, place) => Sorted(list, scan, old, place)

LEMMA Numbers ==
  ASSUME NEW l, NEW place, Whole(l, place)
  PROVE  /\ \A x \in l.nodes : /\ x \in Ends(l) /\ x \in Item
                               /\ place[x] \in Nat /\ place[x] # 0
         /\ \A x \in l.nodes : Rank[x] \in Int
         /\ \A o, p \in Ends(l) : place[o] = place[p] => o = p
         /\ place[Top] = 0 /\ Top \in Ends(l)
         /\ \A o \in Ends(l) : o # Top => o \in l.nodes
         /\ \A o \in Ends(l) : l.next[o] # Nil =>
              l.next[o] \in l.nodes /\ place[l.next[o]] = place[o] + 1
  <1>1. \A x \in l.nodes : x \in Ends(l) /\ x \in Item
    BY DEF Ends, Whole, Typed
  <1>2. \A x \in l.nodes : 1 =< place[x] /\ place[x] \in Nat
    BY <1>1, Facts DEF Whole, Numbered
  <1>3. \A x \in l.nodes : place[x] # 0
    BY <1>2
  <1>4. \A x \in l.nodes : Rank[x] \in Int
    BY <1>1, ListsAssumption
  <1>5. /\ \A o, p \in Ends(l) : place[o] = place[p] => o = p
        /\ place[Top] = 0 /\ Top \in Ends(l)
        /\ \A o \in Ends(l) : o # Top => o \in l.nodes
    BY DEF Whole, Numbered, Ends
  <1>6. \A o \in Ends(l) : l.next[o] # Nil =>
          l.next[o] \in l.nodes /\ place[l.next[o]] = place[o] + 1
    BY Facts DEF Whole, Numbered
  <1> QED BY <1>1, <1>2, <1>3, <1>4, <1>5, <1>6

\* What s has recalled is what Place(s, x) says.
LEMMA PlaceIs ==
  ASSUME NEW l, NEW old, NEW s, Recalled(l, old, s), NEW x \in l.nodes
  PROVE  Place(s, x) = old[x]
  <1>1. old[x] \in DOMAIN s /\ \A n \in DOMAIN s : s[n] = x <=> n = old[x]
    BY DEF Recalled
  <1> QED BY <1>1 DEF Place

\* The items are recalled as they are numbered.
LEMMA ItemsRecalled ==
  ASSUME NEW l, NEW place, Whole(l, place)
  PROVE  Recalled(l, place, Chain(l.next)[l.next[Top]])
  <1> DEFINE s == Chain(l.next)[l.next[Top]]
  <1>1. InOrder(l, place, s)
    BY ItemsAre
  <1> HIDE DEF s
  <1>2. DOMAIN s = 1 .. l.count /\ s \in Seq(l.nodes) /\ l.count \in Nat
    BY <1>1, Facts DEF InOrder
  <1>3. ASSUME NEW x \in l.nodes
        PROVE  /\ place[x] \in DOMAIN s
               /\ \A n \in DOMAIN s : s[n] = x <=> n = place[x]
    <2>1. place[x] \in 1 .. l.count
      BY Facts DEF Whole, Numbered, Ends
    <2>2. \A n \in 1 .. l.count : s[n] \in l.nodes /\ place[s[n]] = n
      BY <1>1, <1>2 DEF InOrder
    <2>3. s[place[x]] = x
      BY <2>1, <2>2, Numbers
    <2> QED BY <1>2, <2>1, <2>2, <2>3
  <1>4. Recalled(l, place, s)
    BY <1>2, <1>3 DEF Recalled
  <1> QED BY <1>4 DEF s

LEMMA LoopInvAny ==
  ASSUME ListInv, scan.call = "sort",
         NEW place \in [Owner -> Nat], Whole(list, place)
  PROVE  LoopInv(list, scan, place)
  <1>1. PICK p \in [Owner -> Nat] : Whole(list, p) /\ LoopInv(list, scan, p)
    BY DEF ListInv
  <1>2. \A o \in Ends(list) : p[o] = place[o]
    BY <1>1, OneNumbering
  <1> QED BY <1>1, <1>2 DEF LoopInv

LEMMA SortBegins ==
  ASSUME ListInv, scan.call # "sort", Sort PROVE SortInv'
  <1>1. ListInv'
    BY SortKeeps
  <1>2. scan = Idle /\ list' = list
    BY DEF Sort, Call
  <1>3. CASE scan' = scan
    BY <1>1, <1>3 DEF SortInv
  <1>4. CASE scan' = Loop("sort", 0, list.next[Top], Top, Nil, 0, Items)
    <2>1. PICK p \in [Owner -> Nat] : Whole(list, p)
      BY DEF ListInv
    <2> DEFINE old == [x \in Item |-> p[x]]
    <2>2. old \in [Item -> Nat] /\ \A x \in Item : old[x] = p[x]
      <3>1. \A x \in Item : x \in Owner
        BY DEF Owner
      <3> QED BY <3>1
    <2> HIDE DEF old
    <2>3. list.nodes \subseteq Item
      BY <2>1, Numbers
    <2>4. Recalled(list, p, Items)
      BY <2>1, ItemsRecalled DEF Items
    <2>5. Recalled(list, old, Items)
      BY ONLY <2>2, <2>3, <2>4 DEF Recalled
    <2>6. /\ scan'.was = Items /\ scan'.pp = list.next[Top]
          /\ scan'.spot = Nil
      BY <1>4 DEF Loop
    <2>7. ASSUME NEW place \in [Owner -> Nat], Whole(list, place)
          PROVE  Sorted(list, scan', old, place)
      <3>1. /\ \A x \in list.nodes : place[x] \in Nat /\ place[x] # 0
            /\ list.next[Top] # Nil => place[list.next[Top]] = 1
        BY <2>7, Numbers
      <3>2. \A x \in list.nodes : place[x] = old[x]
        BY <2>1, <2>2, <2>3, <2>7, OneNumbering DEF Ends
      <3>3. list.next[Top] # Nil
        <4>1. list.count > 1
          BY <1>4 DEF Sort, Call, Idle, Loop
        <4>2. Top \in Ends(list) /\ place[Top] = 0
          BY <2>7, Numbers
        <4> QED BY <2>7, <4>1, <4>2 DEF Whole, Numbered
      <3>4. \A x, y \in list.nodes :
              ~ (place[x] < place[y] /\ place[y] =< 1)
        BY <3>1
      <3> QED BY <2>6, <3>1, <3>2, <3>3, <3>4 DEF Sorted
    <2>8. list'.nodes = list.nodes
      BY <1>2
    <2>9. Recalled(list', old, scan'.was)
      BY <1>2, <2>5, <2>6
    <2>10. \A place \in [Owner -> Nat] :
             Whole(list', place) => Sorted(list', scan', old, place)
      BY <1>2, <2>7
    <2> QED BY <1>1, <2>2, <2>9, <2>10 DEF SortInv
  <1> QED BY <1>3, <1>4 DEF Sort, Call

\* What holds while a list is sorted, of any numbering.
LEMMA SortingFacts ==
  ASSUME ListInv, scan.call = "sort",
         NEW place \in [Owner -> Nat], Whole(list, place)
  PROVE  /\ scan.pp \in list.nodes /\ scan.back \in Ends(list)
         /\ list.next[scan.back] = scan.pp
         /\ place[scan.pp] = place[scan.back] + 1
         /\ scan.spot # Nil =>
              /\ scan.spot \in Ends(list)
              /\ list.next[scan.pp] # Nil
              /\ Rank[list.next[scan.pp]] < Rank[scan.pp]
              /\ place[scan.spot] =< place[scan.back]
  <1>1. LoopInv(list, scan, place)
    BY LoopInvAny
  <1>2. /\ scan.pp \in Ends(list) /\ scan.back \in Ends(list)
        /\ place[scan.pp] = place[scan.back] + 1
        /\ scan.spot # Nil =>
             /\ scan.spot \in Ends(list)
             /\ list.next[scan.pp] # Nil
             /\ Less(list.next[scan.pp], list.next[scan.back])
             /\ place[scan.spot] =< place[scan.back]
    BY <1>1, SortFacts
  <1>3. \A o \in Ends(list) : place[o] \in Nat /\ place[o] =< list.count
    BY Facts DEF Whole, Numbered, Ends
  <1>4. list.next[scan.back] # Nil
    <2>1. place[scan.back] # list.count
      BY <1>2, <1>3, Facts
    <2> QED BY <1>2, <2>1 DEF Whole, Numbered
  <1>5. /\ list.next[scan.back] \in list.nodes
        /\ place[list.next[scan.back]] = place[scan.pp]
    BY <1>2, <1>4, Numbers
  <1>6. list.next[scan.back] = scan.pp
    BY <1>2, <1>5, Numbers
  <1> QED BY <1>2, <1>5, <1>6 DEF Less

LEMMA SortCompareSorts ==
  ASSUME SortInv, SortCompare PROVE SortInv'
  <1>1. scan.call = "sort" /\ scan.spot = Nil /\ list.next[scan.pp] # Nil
        /\ list' = list /\ ListInv
    BY DEF SortCompare, Sorting, SortInv
  <1>2. ListInv'
    BY <1>1, SortCompareKeeps
  <1>3. PICK old \in [Item -> Nat] :
          /\ Recalled(list, old, scan.was)
          /\ \A place \in [Owner -> Nat] :
               Whole(list, place) => Sorted(list, scan, old, place)
    BY <1>1 DEF SortInv
  <1>4. scan'.was = scan.was
    BY DEF SortCompare, Loop
  <1>5. ASSUME NEW place \in [Owner -> Nat], Whole(list, place)
        PROVE  Sorted(list, scan', old, place)
    <2> DEFINE z == list.next[scan.pp]
    <2>1. /\ scan.pp \in list.nodes
          /\ list.next[scan.back] = scan.pp
      BY <1>1, <1>5, SortingFacts
    <2>2. /\ \A x \in list.nodes : place[x] \in Nat /\ place[x] # 0
          /\ \A x \in list.nodes : Rank[x] \in Int
          /\ \A x, y \in list.nodes : place[x] = place[y] => x = y
          /\ z \in list.nodes /\ place[z] = place[scan.pp] + 1
          /\ place[Top] = 0
      <3>1. scan.pp \in Ends(list) /\ \A x \in list.nodes : x \in Ends(list)
        BY <2>1 DEF Ends
      <3> QED BY <1>1, <1>5, <3>1, Numbers
    <2>3. Sorted(list, scan, old, place)
      BY <1>3, <1>5
    <2> HIDE DEF z
    <2>4. CASE Less(z, scan.pp)
      <3>1. scan'.pp = scan.pp /\ scan'.spot = Top
        BY <2>1, <2>4 DEF SortCompare, Loop, z
      <3>2. \A x \in list.nodes : ~ (place[x] =< place[Top])
        BY <2>2
      <3> QED BY <2>3, <3>1, <3>2 DEF Sorted
    <2>5. CASE ~ Less(z, scan.pp)
      <3>1. scan'.pp = z /\ scan'.spot = Nil
        BY <2>1, <2>5 DEF SortCompare, Loop, z
      <3>2. Rank[scan.pp] =< Rank[z]
        BY <2>1, <2>2, <2>5 DEF Less
      <3>3. ASSUME NEW x \in list.nodes, NEW y \in list.nodes,
                   place[x] < place[y], place[y] =< place[z]
            PROVE  Before(old, x, y)
        <4>1. CASE y = z
          <5>1. old[x] < old[z] /\ place[x] =< place[scan.pp]
            BY <2>1, <2>2, <2>3, <3>3, <4>1 DEF Sorted
          <5>2. x = scan.pp \/ Before(old, x, scan.pp)
            <6>1. x # scan.pp => place[x] < place[scan.pp]
              BY <2>1, <2>2, <5>1
            <6> QED BY <2>1, <2>2, <2>3, <6>1 DEF Sorted
          <5>3. Rank[x] =< Rank[scan.pp]
            BY <2>1, <2>2, <5>2 DEF Before
          <5>4. Rank[x] =< Rank[z]
            BY <2>1, <2>2, <3>2, <5>3
          <5> QED BY <2>2, <4>1, <5>1, <5>4 DEF Before
        <4>2. CASE y # z
          <5>1. place[y] =< place[scan.pp]
            <6>1. place[y] # place[z]
              BY <2>2, <4>2
            <6> QED BY <2>1, <2>2, <3>3, <6>1
          <5> QED BY <2>3, <3>3, <5>1 DEF Sorted
        <4> QED BY <4>1, <4>2
      <3>4. ASSUME NEW x \in list.nodes, NEW y \in list.nodes,
                   place[x] < place[y], place[y] > place[z]
            PROVE  old[x] < old[y]
        <4>1. place[y] > place[scan.pp]
          BY <2>1, <2>2, <3>4
        <4> QED BY <2>3, <3>4, <4>1 DEF Sorted
      <3> QED BY <3>1, <3>3, <3>4 DEF Sorted
    <2> QED BY <2>4, <2>5
  <1>6. Recalled(list', old, scan'.was)
    BY <1>1, <1>3, <1>4
  <1>7. \A place \in [Owner -> Nat] :
          Whole(list', place) => Sorted(list', scan', old, place)
    BY <1>1, <1>5
  <1> QED BY <1>2, <1>6, <1>7 DEF SortInv

LEMMA SortLookSorts ==
  ASSUME SortInv, SortLook PROVE SortInv'
  <1>1. /\ scan.call = "sort" /\ scan.spot # Nil /\ list' = list /\ ListInv
        /\ ~ Less(list.next[scan.pp], list.next[scan.spot])
        /\ scan' = Loop("sort", 0, scan.pp, scan.back, list.next[scan.spot],
                        0, scan.was)
    BY DEF SortLook, SortInv
  <1>2. ListInv'
    BY <1>1, SortLookKeeps
  <1>3. PICK old \in [Item -> Nat] :
          /\ Recalled(list, old, scan.was)
          /\ \A place \in [Owner -> Nat] :
               Whole(list, place) => Sorted(list, scan, old, place)
    BY <1>1 DEF SortInv
  <1>4. /\ scan'.was = scan.was /\ scan'.pp = scan.pp
        /\ scan'.spot = list.next[scan.spot]
    BY <1>1 DEF Loop
  <1>5. ASSUME NEW place \in [Owner -> Nat], Whole(list, place)
        PROVE  Sorted(list, scan', old, place)
    <2> DEFINE z == list.next[scan.pp]
               w == list.next[scan.spot]
    <2>1. /\ scan.pp \in Ends(list) /\ scan.spot \in Ends(list) /\ z # Nil
      BY <1>1, <1>5, SortingFacts DEF Ends
    <2>2. /\ \A x \in list.nodes : place[x] \in Nat /\ place[x] # 0
          /\ \A x \in list.nodes : Rank[x] \in Int
          /\ \A x, y \in list.nodes : place[x] = place[y] => x = y
          /\ z \in list.nodes
          /\ w # Nil => w \in list.nodes /\ place[w] = place[scan.spot] + 1
          /\ place[scan.spot] \in Nat
      <3>1. \A x \in list.nodes : x \in Ends(list)
        BY DEF Ends
      <3>2. place[scan.spot] \in Nat
        BY <1>5, <2>1, Facts
      <3> QED BY <1>5, <2>1, <3>1, <3>2, Numbers
    <2>3. Sorted(list, scan, old, place)
      BY <1>3, <1>5
    <2>4. w # Nil => Rank[w] =< Rank[z]
      BY <1>1, <2>2 DEF Less
    <2> HIDE DEF w
    <2>5. ASSUME w # Nil, NEW x \in list.nodes, place[x] =< place[w]
          PROVE  Rank[x] =< Rank[z]
      <3>1. CASE place[x] =< place[scan.spot]
        BY <1>1, <2>3, <3>1 DEF Sorted
      <3>2. CASE ~ (place[x] =< place[scan.spot])
        <4>1. x = w
          BY <2>2, <2>5, <3>2
        <4> QED BY <2>4, <2>5, <4>1
      <3> QED BY <3>1, <3>2
    <2>6. scan'.spot = w
      BY <1>4 DEF w
    <2> QED BY <1>4, <2>3, <2>5, <2>6 DEF Sorted
  <1>6. Recalled(list', old, scan'.was)
    BY <1>1, <1>3, <1>4
  <1>7. \A place \in [Owner -> Nat] :
          Whole(list', place) => Sorted(list', scan', old, place)
    BY <1>1, <1>5
  <1> QED BY <1>2, <1>6, <1>7 DEF SortInv

\* The numbers move, but for the node that is put in its place the order of
\* those up to pp stays, and so does that of the others.
LEMMA SortMoveSorts ==
  ASSUME SortInv, SortMove PROVE SortInv'
  <1> DEFINE m == Relinked(list, scan.pp, scan.spot)
             z == list.next[scan.pp]
             w == list.next[scan.spot]
  <1>1. /\ scan.call = "sort" /\ scan.spot # Nil /\ ListInv
        /\ Less(z, w)
        /\ list' = m
        /\ scan'.was = scan.was /\ scan'.pp = scan.pp /\ scan'.spot = Nil
    BY DEF SortMove, SortInv, Relinked, Loop
  <1>2. ListInv'
    BY <1>1, SortMoveKeeps DEF SortInv
  <1>3. PICK old \in [Item -> Nat] :
          /\ Recalled(list, old, scan.was)
          /\ \A place \in [Owner -> Nat] :
               Whole(list, place) => Sorted(list, scan, old, place)
    BY <1>1 DEF SortInv
  <1>4. PICK place \in [Owner -> Nat] : Whole(list, place)
    BY <1>1 DEF ListInv
  <1>5. Sorted(list, scan, old, place)
    BY <1>3, <1>4
  <1>6. /\ scan.pp \in list.nodes /\ scan.back \in Ends(list)
        /\ place[scan.pp] = place[scan.back] + 1
        /\ scan.spot \in Ends(list)
        /\ list.next[scan.pp] # Nil
        /\ place[scan.spot] =< place[scan.back]
        /\ scan.pp \in Ends(list)
    BY <1>1, <1>4, SortingFacts DEF Ends
  <1>7. /\ Ends(m) = Ends(list)
        /\ \E q \in [Owner -> Nat] :
             Whole(m, q) /\ Renumbered(list, place, scan.pp, scan.spot, q)
    BY <1>4, <1>6, MoveKeeps
  <1>8. m.nodes = list.nodes
    BY DEF Relinked, With
  <1> HIDE DEF m
  <1>9. PICK q \in [Owner -> Nat] :
          Whole(m, q) /\ Renumbered(list, place, scan.pp, scan.spot, q)
    BY <1>7
  <1>10. /\ place[scan.spot] \in Nat /\ place[scan.pp] \in Nat
         /\ place[scan.spot] < place[scan.pp]
    <2>1. place[scan.spot] \in Nat /\ place[scan.pp] \in Nat
            /\ place[scan.back] \in Nat
      BY <1>4, <1>6, Facts
    <2> QED BY <1>6, <2>1
  <1>11. /\ \A x \in list.nodes :
              /\ x \in Ends(list)
              /\ place[x] \in Nat /\ place[x] # 0 /\ Rank[x] \in Int
         /\ \A x, y \in list.nodes : place[x] = place[y] => x = y
         /\ z \in list.nodes /\ place[z] = place[scan.pp] + 1
         /\ w # Nil => w \in list.nodes /\ place[w] = place[scan.spot] + 1
    <2>1. \A x \in list.nodes : x \in Ends(list)
      BY DEF Ends
    <2> QED BY <1>4, <1>6, <2>1, Numbers
  <1>12. w # Nil
    <2>1. list.count \in Nat /\ place[scan.pp] =< list.count
      BY <1>4, <1>6, Facts DEF Whole, Numbered
    <2>2. place[scan.spot] # list.count
      BY <1>10, <2>1
    <2> QED BY <1>4, <1>6, <2>2 DEF Whole, Numbered
  <1>13. /\ q[z] = place[scan.spot] + 1
         /\ \A x \in list.nodes : x # z =>
              q[x] = IF place[x] > place[scan.spot]
                          /\ place[x] =< place[scan.pp]
                     THEN place[x] + 1 ELSE place[x]
    BY <1>9, <1>11 DEF Renumbered
  <1>14. q[scan.pp] = place[scan.pp] + 1
    <2>1. scan.pp # z
      BY <1>10, <1>11
    <2> QED BY <1>6, <1>10, <1>13, <2>1
  <1>15. Rank[z] < Rank[w]
    BY <1>1 DEF Less
  <1> HIDE DEF z, w
  \* What is up to pp, but for z, was.
  <1>16. ASSUME NEW x \in list.nodes, x # z, q[x] =< q[scan.pp]
         PROVE  place[x] =< place[scan.pp]
    <2>1. place[x] # place[scan.pp] + 1
      BY <1>11, <1>16
    <2> QED BY <1>10, <1>11, <1>13, <1>14, <1>16, <2>1
  <1>17. ASSUME NEW x \in list.nodes, NEW y \in list.nodes,
                x # z, y # z, q[x] < q[y]
         PROVE  place[x] < place[y]
    <2>1. /\ q[x] = IF place[x] > place[scan.spot]
                         /\ place[x] =< place[scan.pp]
                    THEN place[x] + 1 ELSE place[x]
          /\ q[y] = IF place[y] > place[scan.spot]
                         /\ place[y] =< place[scan.pp]
                    THEN place[y] + 1 ELSE place[y]
      BY <1>13, <1>17
    <2>2. /\ place[x] \in Nat /\ place[y] \in Nat
          /\ place[x] # place[scan.pp] + 1 /\ place[y] # place[scan.pp] + 1
      BY <1>11, <1>17
    <2>3. x # y
      BY <1>10, <1>17, <2>1, <2>2
    <2>4. place[x] # place[y]
      BY <1>11, <2>3
    <2> QED BY <1>10, <1>17, <2>1, <2>2, <2>4
  <1>18. ASSUME NEW x \in list.nodes, NEW y \in list.nodes,
                q[x] < q[y], q[y] =< q[scan.pp]
         PROVE  Before(old, x, y)
    <2>1. CASE x # z /\ y # z
      <3>1. place[x] < place[y] /\ place[y] =< place[scan.pp]
        BY <1>16, <1>17, <1>18, <2>1
      <3> QED BY <1>5, <3>1 DEF Sorted
    <2>2. CASE x # z /\ y = z
      <3>1. place[x] =< place[scan.spot]
        <4>1. q[x] < place[scan.spot] + 1
          BY <1>13, <1>18, <2>2
        <4> QED BY <1>10, <1>11, <1>13, <2>2, <4>1
      <3>2. Rank[x] =< Rank[z]
        BY <1>1, <1>5, <3>1 DEF Sorted, z
      <3>3. place[x] < place[z] /\ place[z] > place[scan.pp]
        BY <1>10, <1>11, <3>1
      <3>4. old[x] < old[z]
        BY <1>5, <1>11, <3>3 DEF Sorted
      <3> QED BY <1>11, <2>2, <3>2, <3>4 DEF Before
    <2>3. CASE x = z /\ y # z
      <3>1. place[y] =< place[scan.pp]
        BY <1>16, <1>18, <2>3
      <3>2. place[y] > place[scan.spot]
        BY <1>10, <1>11, <1>13, <1>18, <2>3
      <3>3. Rank[w] =< Rank[y]
        <4>1. CASE y = w
          BY <1>11, <4>1
        <4>2. CASE y # w
          <5>1. place[w] < place[y]
            BY <1>10, <1>11, <1>12, <3>2, <4>2
          <5>2. Before(old, w, y)
            BY <1>5, <1>11, <1>12, <3>1, <5>1 DEF Sorted
          <5> QED BY <1>11, <1>12, <5>2 DEF Before
        <4> QED BY <4>1, <4>2
      <3>4. Rank[z] < Rank[y]
        BY <1>11, <1>12, <1>15, <3>3
      <3> QED BY <2>3, <3>4 DEF Before
    <2>4. CASE x = z /\ y = z
      BY <1>10, <1>13, <1>18, <2>4
    <2> QED BY <2>1, <2>2, <2>3, <2>4
  <1>19. ASSUME NEW x \in list.nodes, NEW y \in list.nodes,
                q[x] < q[y], q[y] > q[scan.pp]
         PROVE  old[x] < old[y]
    <2>1. y # z
      BY <1>10, <1>13, <1>14, <1>19
    <2>2. place[y] > place[scan.pp]
      BY <1>10, <1>11, <1>13, <1>14, <1>19, <2>1
    <2>3. place[x] < place[y]
      <3>1. CASE x = z
        <4>1. place[y] # place[z]
          BY <1>11, <2>1
        <4> QED BY <1>10, <1>11, <2>2, <3>1, <4>1
      <3>2. CASE x # z
        BY <1>17, <1>19, <2>1, <3>2
      <3> QED BY <3>1, <3>2
    <2> QED BY <1>5, <2>2, <2>3 DEF Sorted
  <1>20. ASSUME NEW r \in [Owner -> Nat], Whole(m, r)
         PROVE  Sorted(m, scan', old, r)
    <2>1. \A x \in list.nodes : r[x] = q[x]
      BY <1>7, <1>9, <1>11, <1>20, OneNumbering
    <2> QED BY <1>1, <1>6, <1>8, <1>18, <1>19, <2>1 DEF Sorted
  <1>21. Recalled(m, old, scan'.was)
    BY <1>1, <1>3, <1>8 DEF Recalled
  <1> QED BY <1>1, <1>2, <1>20, <1>21 DEF SortInv

\* s are the items of was in ascending order, equal ones as they were.
Stably(s, was) ==
  /\ {s[n] : n \in DOMAIN s} = {was[n] : n \in DOMAIN was}
  /\ \A m, n \in DOMAIN s : m < n =>
       \/ Rank[s[m]] < Rank[s[n]]
       \/ /\ Rank[s[m]] = Rank[s[n]]
          /\ Place(was, s[m]) < Place(was, s[n])

\* When the last node is in its place, all are in order.
LEMMA SortEndSorts ==
  ASSUME SortInv, SortEnd
  PROVE  Stably(Items', scan.was)
  <1>1. /\ scan.call = "sort" /\ list.next[scan.pp] = Nil /\ ListInv
        /\ list'.next = list.next
    BY DEF SortEnd, With, SortInv
  <1>2. Items' = Items
    BY <1>1 DEF Items
  <1>3. PICK old \in [Item -> Nat] :
          /\ Recalled(list, old, scan.was)
          /\ \A place \in [Owner -> Nat] :
               Whole(list, place) => Sorted(list, scan, old, place)
    BY <1>1 DEF SortInv
  <1>4. PICK place \in [Owner -> Nat] : Whole(list, place)
    BY <1>1 DEF ListInv
  <1>5. Sorted(list, scan, old, place)
    BY <1>3, <1>4
  <1>6. /\ scan.pp \in Ends(list) /\ place[scan.pp] = list.count
    BY <1>1, <1>4, SortingFacts DEF Ends, Whole, Numbered
  <1>7. /\ Items \in Seq(list.nodes) /\ Len(Items) = list.count
        /\ \A k \in 1 .. list.count : place[Items[k]] = k
    BY <1>4, ItemsAre DEF Items, InOrder
  <1>8. DOMAIN Items = 1 .. list.count /\ list.count \in Nat
        /\ \A k \in DOMAIN Items : Items[k] \in list.nodes
    BY <1>4, <1>7, Facts
  <1>9. {Items[n] : n \in DOMAIN Items} = list.nodes
    BY <1>1, ListInvIsWhole DEF ListIsWhole
  <1>10. {scan.was[n] : n \in DOMAIN scan.was} = list.nodes
    <2>1. \A n \in DOMAIN scan.was : scan.was[n] \in list.nodes
      BY <1>3 DEF Recalled
    <2>2. \A x \in list.nodes : \E n \in DOMAIN scan.was : scan.was[n] = x
      BY <1>3 DEF Recalled
    <2> QED BY <2>1, <2>2
  <1>11. ASSUME NEW i \in DOMAIN Items, NEW j \in DOMAIN Items, i < j
         PROVE  \/ Rank[Items[i]] < Rank[Items[j]]
                \/ /\ Rank[Items[i]] = Rank[Items[j]]
                   /\ Place(scan.was, Items[i]) < Place(scan.was, Items[j])
    <2>1. /\ Items[i] \in list.nodes /\ Items[j] \in list.nodes
          /\ place[Items[i]] = i /\ place[Items[j]] = j
      BY <1>7, <1>8
    <2>2. place[Items[j]] =< place[scan.pp]
      BY <1>6, <1>8, <2>1
    <2>3. Before(old, Items[i], Items[j])
      BY <1>5, <1>11, <2>1, <2>2 DEF Sorted
    <2>4. /\ Place(scan.was, Items[i]) = old[Items[i]]
          /\ Place(scan.was, Items[j]) = old[Items[j]]
      BY <1>3, <2>1, PlaceIs
    <2> QED BY <2>3, <2>4 DEF Before
  <1>12. Stably(Items, scan.was)
    BY <1>9, <1>10, <1>11 DEF Stably
  <1> QED BY <1>2, <1>12

\* No call but list_sort() sorts, and no call is made while it does.
LEMMA OthersDoNotSort ==
  ASSUME Next
  PROVE  \/ Sort /\ scan.call # "sort"
         \/ SortCompare \/ SortLook \/ SortMove \/ SortEnd
         \/ scan.call # "sort" /\ scan'.call # "sort"
  <1>1. Idle.call = "none"
    BY DEF Idle, Loop
  <1>2. \A r : Call(r) => scan.call # "sort" /\ scan'.call # "sort"
    BY <1>1 DEF Call
  <1>3. CASE Renew \/ Peek \/ FindFirst \/ ForEach
    BY <1>2, <1>3 DEF Renew, Peek, FindFirst, ForEach
  <1>4. CASE AppendItem \/ Enqueue \/ Prepend \/ Push \/ Insert
    BY <1>2, <1>4 DEF AppendItem, Enqueue, Prepend, Push, Insert, Put
  <1>5. CASE Pop \/ Dequeue \/ Remove \/ Delete
    BY <1>2, <1>5 DEF Pop, Dequeue, Remove, Delete, Take
  <1>6. CASE IterCreate \/ IterReset \/ IterDestroy \/ ListNext
    BY <1>2, <1>6 DEF IterCreate, IterReset, IterDestroy, ListNext
  <1>7. CASE Find \/ DeleteAll
    BY <1>1, <1>7 DEF Find, DeleteAll, Loop
  <1>8. CASE Finding
    BY <1>1, <1>8 DEF Finding
  <1>9. CASE Deleting
    BY <1>1, <1>9 DEF Deleting, Loop
  <1>10. CASE Sort
    BY <1>1, <1>2, <1>10 DEF Sort
  <1> QED BY <1>3, <1>4, <1>5, <1>6, <1>7, <1>8, <1>9, <1>10 DEF Next

LEMMA NextSorts ==
  SortInv /\ [Next]_vars => SortInv'
  <1> SUFFICES ASSUME SortInv, [Next]_vars PROVE SortInv'
    OBVIOUS
  <1>1. ListInv /\ ListInv'
    BY NextKeeps DEF SortInv
  <1>2. CASE scan'.call # "sort"
    BY <1>1, <1>2 DEF SortInv
  <1>3. CASE UNCHANGED vars
    BY <1>3 DEF vars, SortInv, ListInv, LoopInv
  <1>4. CASE SortEnd
    <2>1. scan'.call # "sort"
      BY <1>4 DEF SortEnd, Idle, Loop
    <2> QED BY <1>2, <2>1
  <1>5. CASE Sort /\ scan.call # "sort"
    BY <1>1, <1>5, SortBegins
  <1>6. CASE SortCompare \/ SortLook \/ SortMove
    BY <1>6, SortCompareSorts, SortLookSorts, SortMoveSorts
  <1> QED BY <1>2, <1>3, <1>4, <1>5, <1>6, OthersDoNotSort

\* Whatever list is sorted, and from whatever order, list_sort() leaves the
\* items that were there in ascending order, equal ones as they were.
THEOREM SortingIsStable == Spec => SortIsStable
  <1>1. Init => SortInv
    <2> SUFFICES ASSUME Init PROVE SortInv
      OBVIOUS
    <2>1. scan.call # "sort"
      BY DEF Init, Idle, Loop
    <2> QED BY <2>1, InitInv DEF SortInv
  <1>2. SortInv /\ [Next]_vars => SortInv'
    BY NextSorts
  <1>3. ASSUME SortInv, Next, scan.call = "sort", scan'.call # "sort"
        PROVE  SortEnd
    <2>1. ~ SortCompare /\ ~ SortLook /\ ~ SortMove
      BY <1>3 DEF SortCompare, SortLook, SortMove, Loop
    <2> QED BY <1>3, <2>1, OthersDoNotSort
  <1>4. SortInv /\ [Next]_vars =>
          [scan.call = "sort" /\ scan'.call # "sort"
             => Stably(Items', scan.was)]_vars
    BY <1>3, SortEndSorts
  <1>5. [][scan.call = "sort" /\ scan'.call # "sort"
             => Stably(Items', scan.was)]_vars => SortIsStable
    BY DEF SortIsStable, Stably
  <1> QED BY <1>1, <1>2, <1>4, <1>5, PTL DEF Spec

-----------------------------------------------------------------------------
(* TraversalsAreWhole.  What an iterator has still to meet is the end of   *)
(* the items that begins where it stands, and the numbers of the nodes say *)
(* where that is, before a call and after it.                              *)

\* The same elements in the same places.
LEMMA SameSeq ==
  ASSUME NEW S, NEW s \in Seq(S), NEW t \in Seq(S), Len(s) = Len(t),
         \A j \in 1 .. Len(s) : s[j] = t[j]
  PROVE  s = t
  OBVIOUS

LEMMA CutIs ==
  ASSUME NEW S, NEW s \in Seq(S), NEW a \in Nat, a =< Len(s)
  PROVE  /\ SubSeq(s, a + 1, Len(s)) \in Seq(S)
         /\ Len(SubSeq(s, a + 1, Len(s))) = Len(s) - a
         /\ \A j \in 1 .. Len(s) - a : SubSeq(s, a + 1, Len(s))[j] = s[a + j]
  OBVIOUS

LEMMA BeginIs ==
  ASSUME NEW S, NEW s \in Seq(S), NEW k \in Nat, k =< Len(s)
  PROVE  /\ SubSeq(s, 1, k) \in Seq(S) /\ Len(SubSeq(s, 1, k)) = k
         /\ \A j \in 1 .. k : SubSeq(s, 1, k)[j] = s[j]
  OBVIOUS

\* u is s and then t.
IsJoined(s, t, u) ==
  /\ Len(u) = Len(s) + Len(t)
  /\ \A j \in 1 .. Len(s) : u[j] = s[j]
  /\ \A j \in 1 .. Len(t) : u[Len(s) + j] = t[j]

LEMMA JoinIs ==
  ASSUME NEW S, NEW s \in Seq(S), NEW t \in Seq(S)
  PROVE  s \o t \in Seq(S) /\ IsJoined(s, t, s \o t)
  BY DEF IsJoined

\* t is s with x behind the first k elements.
HasPut(s, k, x, t) ==
  /\ Len(t) = Len(s) + 1
  /\ \A j \in 1 .. Len(s) + 1 :
       t[j] = IF j =< k THEN s[j] ELSE IF j = k + 1 THEN x ELSE s[j - 1]

LEMMA PutAtIs ==
  ASSUME NEW S, NEW s \in Seq(S), NEW x \in S, NEW k \in Nat, k =< Len(s)
  PROVE  /\ Promised!PutAt(s, k, x) \in Seq(S)
         /\ HasPut(s, k, x, Promised!PutAt(s, k, x))
  <1> DEFINE u == SubSeq(s, 1, k)
             v == SubSeq(s, k + 1, Len(s))
  <1>1. /\ u \in Seq(S) /\ Len(u) = k
        /\ \A j \in 1 .. k : u[j] = s[j]
    BY BeginIs
  <1>2. /\ v \in Seq(S) /\ Len(v) = Len(s) - k
        /\ \A j \in 1 .. Len(s) - k : v[j] = s[k + j]
    BY CutIs
  <1>3. Promised!PutAt(s, k, x) = u \o <<x>> \o v
    BY DEF Promised!PutAt
  <1> HIDE DEF u, v
  <1>4. PICK n \in Nat : n = Len(s)
    OBVIOUS
  <1> DEFINE w == u \o <<x>>
  <1>5. /\ w \in Seq(S) /\ Len(w) = k + 1
        /\ \A j \in 1 .. k : w[j] = s[j]
        /\ w[k + 1] = x
    BY <1>1
  <1> HIDE DEF w
  <1>11. w \in Seq(S) /\ v \in Seq(S)
    BY <1>2, <1>5
  <1>12. w \o v \in Seq(S) /\ IsJoined(w, v, w \o v)
    BY <1>11, JoinIs
  <1>9. /\ w \o v \in Seq(S) /\ Len(w \o v) = Len(w) + Len(v)
        /\ \A j \in 1 .. Len(w) : (w \o v)[j] = w[j]
        /\ \A j \in 1 .. Len(v) : (w \o v)[Len(w) + j] = v[j]
    BY <1>12 DEF IsJoined
  <1>10. k \in Nat /\ k =< n /\ Len(w) = k + 1 /\ Len(v) = n - k
    BY <1>2, <1>4, <1>5
  <1>6. w \o v \in Seq(S) /\ Len(w \o v) = n + 1
    BY <1>9, <1>10
  <1>7. ASSUME NEW j \in 1 .. n + 1
        PROVE  (w \o v)[j] = IF j =< k THEN s[j] ELSE IF j = k + 1 THEN x
                             ELSE s[j - 1]
    <2>1. CASE j =< k
      <3>1. j \in 1 .. k /\ j \in 1 .. k + 1
        BY <1>10, <2>1
      <3> QED BY <1>5, <1>9, <1>10, <2>1, <3>1
    <2>3. CASE j = k + 1
      <3>1. j \in 1 .. k + 1 /\ ~ (j =< k)
        BY <1>10, <2>3
      <3> QED BY <1>5, <1>9, <1>10, <2>3, <3>1
    <2>2. CASE j > k + 1
      <3> DEFINE i == j - (k + 1)
      <3>1. /\ i \in 1 .. n - k /\ k + i = j - 1 /\ k + 1 + i = j
            /\ ~ (j =< k) /\ j # k + 1
        BY <1>10, <2>2
      <3> HIDE DEF i
      <3>2. (w \o v)[k + 1 + i] = v[i] /\ v[i] = s[k + i]
        BY <1>2, <1>4, <1>9, <1>10, <3>1
      <3> QED BY <3>1, <3>2
    <2> QED BY <1>10, <2>1, <2>2, <2>3
  <1>8. Promised!PutAt(s, k, x) = w \o v
    BY <1>3 DEF w
  <1> DEFINE t == w \o v
  <1> HIDE DEF t
  <1>13. t \in Seq(S) /\ HasPut(s, k, x, t)
    BY <1>4, <1>6, <1>7 DEF HasPut, t
  <1> QED BY <1>8, <1>13 DEF t

\* t is s without its k-th element.
HasLost(s, k, t) ==
  /\ Len(t) = Len(s) - 1
  /\ \A j \in 1 .. Len(s) - 1 : t[j] = IF j < k THEN s[j] ELSE s[j + 1]

LEMMA WithoutIs ==
  ASSUME NEW S, NEW s \in Seq(S), NEW x, NEW k \in 1 .. Len(s),
         \A n \in DOMAIN s : s[n] = x <=> n = k
  PROVE  /\ Promised!Without(s, x) \in Seq(S)
         /\ HasLost(s, k, Promised!Without(s, x))
  <1>1. PICK n \in Nat : n = Len(s)
    OBVIOUS
  <1>2. DOMAIN s = 1 .. n /\ k \in Nat /\ 1 =< k /\ k =< n
    BY <1>1
  <1>3. (CHOOSE m \in DOMAIN s : s[m] = x) = k
    BY <1>2
  <1> DEFINE u == SubSeq(s, 1, k - 1)
             v == SubSeq(s, k + 1, Len(s))
  <1>4. Promised!Without(s, x) = u \o v
    <2>1. ~ \A m \in DOMAIN s : s[m] # x
      BY <1>2
    <2> QED BY <1>3, <2>1 DEF Promised!Without
  <1>5. /\ u \in Seq(S) /\ Len(u) = k - 1
        /\ \A j \in 1 .. k - 1 : u[j] = s[j]
    <2>1. k - 1 \in Nat /\ k - 1 =< Len(s)
      BY <1>1, <1>2
    <2> QED BY <2>1, BeginIs
  <1>6. /\ v \in Seq(S) /\ Len(v) = Len(s) - k
        /\ \A j \in 1 .. Len(s) - k : v[j] = s[k + j]
    BY <1>1, <1>2, CutIs
  <1> HIDE DEF u, v
  <1>11. u \in Seq(S) /\ v \in Seq(S)
    BY <1>5, <1>6
  <1>12. u \o v \in Seq(S) /\ IsJoined(u, v, u \o v)
    BY <1>11, JoinIs
  <1>9. /\ u \o v \in Seq(S) /\ Len(u \o v) = Len(u) + Len(v)
        /\ \A j \in 1 .. Len(u) : (u \o v)[j] = u[j]
        /\ \A j \in 1 .. Len(v) : (u \o v)[Len(u) + j] = v[j]
    BY <1>12 DEF IsJoined
  <1>10. Len(u) = k - 1 /\ Len(v) = n - k
    BY <1>1, <1>5, <1>6
  <1>7. u \o v \in Seq(S) /\ Len(u \o v) = n - 1
    BY <1>2, <1>9, <1>10
  <1>8. ASSUME NEW j \in 1 .. n - 1
        PROVE  (u \o v)[j] = IF j < k THEN s[j] ELSE s[j + 1]
    <2>1. ASSUME j < k PROVE (u \o v)[j] = s[j]
      <3>1. j \in 1 .. k - 1
        BY <1>2, <2>1
      <3> QED BY <1>5, <1>9, <1>10, <2>1, <3>1
    <2>2. ASSUME ~ (j < k) PROVE (u \o v)[j] = s[j + 1]
      <3> DEFINE i == j - (k - 1)
      <3>1. /\ i \in 1 .. n - k /\ k + i = j + 1 /\ k - 1 + i = j
        BY <1>2, <2>2
      <3> HIDE DEF i
      <3>2. (u \o v)[k - 1 + i] = v[i] /\ v[i] = s[k + i]
        BY <1>1, <1>6, <1>9, <1>10, <3>1
      <3>3. (u \o v)[j] = s[j + 1]
        BY ONLY <3>1, <3>2
      <3> QED BY <3>1, <3>3
    <2> QED BY <2>1, <2>2
  <1> QED BY <1>1, <1>4, <1>7, <1>8 DEF HasLost

LEMMA WithoutNone ==
  ASSUME NEW s, NEW x, \A n \in DOMAIN s : s[n] # x
  PROVE  Promised!Without(s, x) = s
  BY DEF Promised!Without

ItemsOf(l) == Chain(l.next)[l.next[Top]]

\* s are the items of l, each where it is numbered.
Ordered(l, place, s) ==
  /\ s \in Seq(l.nodes) /\ s \in Seq(Item) /\ Len(s) = l.count
  /\ DOMAIN s = 1 .. l.count
  /\ \A k \in 1 .. l.count : s[k] \in l.nodes /\ place[s[k]] = k
  /\ \A x \in l.nodes : /\ place[x] \in 1 .. l.count /\ s[place[x]] = x
                        /\ Place(s, x) = place[x]

LEMMA ItemsOrdered ==
  ASSUME NEW l, NEW place, Whole(l, place)
  PROVE  Ordered(l, place, ItemsOf(l))
  <1> DEFINE s == ItemsOf(l)
  <1>1. InOrder(l, place, s) /\ Recalled(l, place, s)
    BY ItemsAre, ItemsRecalled DEF ItemsOf
  <1> HIDE DEF s
  <1>2. l.count \in Nat /\ l.nodes \subseteq Item
    BY Facts DEF Whole, Typed
  <1>3. s \in Seq(l.nodes) /\ Len(s) = l.count /\ DOMAIN s = 1 .. l.count
    BY <1>1 DEF InOrder
  <1>4. \A k \in 1 .. l.count : s[k] \in l.nodes /\ place[s[k]] = k
    BY <1>1, <1>3 DEF InOrder
  <1>5. \A x \in l.nodes : place[x] \in 1 .. l.count /\ s[place[x]] = x
    BY <1>1, <1>3 DEF Recalled
  <1>6. \A x \in l.nodes : Place(s, x) = place[x]
    BY <1>1, PlaceIs
  <1>7. s \in Seq(Item)
    BY <1>2, <1>3
  <1>8. Ordered(l, place, s)
    BY <1>3, <1>4, <1>5, <1>6, <1>7 DEF Ordered
  <1> QED BY <1>8 DEF s

\* What the items are, from the numbers.
LEMMA InOrderIs ==
  ASSUME NEW l, NEW place, NEW s, Ordered(l, place, s),
         NEW t \in Seq(Item), Len(t) = l.count,
         \A k \in 1 .. l.count : t[k] \in l.nodes /\ place[t[k]] = k
  PROVE  s = t
  <1>1. /\ s \in Seq(Item) /\ Len(s) = l.count
        /\ \A x \in l.nodes : s[place[x]] = x
    BY DEF Ordered
  <1>2. \A k \in 1 .. Len(s) : s[k] = t[k]
    BY <1>1
  <1> QED BY <1>1, <1>2, SameSeq

\* How many of the items are behind where it stands.
From(l, place, it) == IF it.pos = Nil THEN l.count ELSE place[it.pos] - 1

\* What an iterator has still to meet of s, and what it has met last.
TodoOf(l, s, i) ==
  IF l.iter[i].pos = Nil THEN <<>>
  ELSE SubSeq(s, Place(s, l.iter[i].pos), Len(s))
MetOf(l, s, i) ==
  LET prev == l.iter[i].prev
      n == IF prev = Top THEN 1 ELSE Place(s, prev) + 1
  IN  IF n > Len(s) \/ i \notin l.open THEN Nil
      ELSE IF s[n] = l.iter[i].pos THEN Nil ELSE s[n]

\* Todo is what is behind the first items.
StandsAt(l, place, s, i) ==
  LET b == From(l, place, l.iter[i]) IN
  /\ b \in Nat /\ b =< Len(s)
  /\ TodoOf(l, s, i) = SubSeq(s, b + 1, Len(s))
  /\ TodoOf(l, s, i) \in Seq(Item)
  /\ Len(TodoOf(l, s, i)) = Len(s) - b

LEMMA TodoIs ==
  ASSUME NEW l, NEW place, Whole(l, place), NEW s, Ordered(l, place, s),
         NEW i \in Iter
  PROVE  StandsAt(l, place, s, i)
  <1> DEFINE pos == l.iter[i].pos
             b == From(l, place, l.iter[i])
  <1>1. pos \in l.nodes \cup {Nil}
    BY DEF Whole, Typed
  <1>2. s \in Seq(Item) /\ Len(s) = l.count /\ l.count \in Nat
    BY Facts DEF Ordered
  <1>3. CASE pos = Nil
    <2>1. b = Len(s) /\ TodoOf(l, s, i) = <<>>
      BY <1>2, <1>3 DEF From, TodoOf
    <2>2. SubSeq(s, Len(s) + 1, Len(s)) = <<>>
      BY <1>2
    <2> HIDE DEF b, pos
    <2>3. b \in Nat /\ b =< Len(s) /\ Len(s) - b = 0
      BY <1>2, <2>1
    <2>4. TodoOf(l, s, i) = SubSeq(s, b + 1, Len(s))
      BY <2>1, <2>2
    <2>5. TodoOf(l, s, i) \in Seq(Item) /\ Len(TodoOf(l, s, i)) = 0
      BY <2>1
    <2> QED BY <2>3, <2>4, <2>5 DEF b, StandsAt
  <1>4. CASE pos # Nil
    <2>1. pos \in l.nodes
      BY <1>1, <1>4
    <2>2. place[pos] \in 1 .. l.count /\ Place(s, pos) = place[pos]
      BY <2>1 DEF Ordered
    <2>3. b = place[pos] - 1 /\ TodoOf(l, s, i)
                                  = SubSeq(s, Place(s, pos), Len(s))
      BY <1>4 DEF From, TodoOf
    <2> HIDE DEF b, pos
    <2>4. b \in Nat /\ b =< Len(s) /\ b + 1 = place[pos]
      BY <1>2, <2>2, <2>3
    <2>5. TodoOf(l, s, i) = SubSeq(s, b + 1, Len(s))
      BY <2>2, <2>3, <2>4
    <2>6. /\ SubSeq(s, b + 1, Len(s)) \in Seq(Item)
          /\ Len(SubSeq(s, b + 1, Len(s))) = Len(s) - b
      BY <1>2, <2>4, CutIs
    <2> QED BY <2>4, <2>5, <2>6 DEF b, StandsAt
  <1> QED BY <1>3, <1>4

LEMMA MetIs ==
  ASSUME NEW l, NEW place, Whole(l, place), NEW s, Ordered(l, place, s),
         NEW i \in Iter
  PROVE  MetOf(l, s, i) =
           IF i \in l.open /\ l.next[l.iter[i].prev] # l.iter[i].pos
           THEN l.next[l.iter[i].prev] ELSE Nil
  <1> DEFINE prev == l.iter[i].prev
             pos == l.iter[i].pos
             n == IF prev = Top THEN 1 ELSE Place(s, prev) + 1
  <1>1. prev \in Ends(l)
    BY DEF Whole, Typed
  <1>2. n = place[prev] + 1
    <2>1. CASE prev = Top
      BY <2>1, Numbers
    <2>2. CASE prev # Top
      BY <1>1, <2>2, Numbers DEF Ordered
    <2> QED BY <2>1, <2>2
  <1>3. /\ Len(s) = l.count /\ l.count \in Nat /\ place[prev] \in Nat
        /\ DOMAIN s = 1 .. l.count
    BY <1>1, Facts DEF Ordered
  <1>4. MetOf(l, s, i) = IF n > Len(s) \/ i \notin l.open THEN Nil
                         ELSE IF s[n] = pos THEN Nil ELSE s[n]
    BY DEF MetOf
  <1> HIDE DEF prev, pos, n
  <1>5. CASE l.next[prev] = Nil
    <2>1. n > Len(s)
      BY <1>1, <1>2, <1>3, <1>5 DEF Whole, Numbered
    <2> QED BY <1>4, <1>5, <2>1 DEF prev
  <1>6. CASE l.next[prev] # Nil
    <2>1. l.next[prev] \in l.nodes /\ place[l.next[prev]] = n
      BY <1>1, <1>2, <1>6, Numbers
    <2>2. n \in 1 .. l.count /\ s[n] = l.next[prev]
      BY <2>1 DEF Ordered
    <2>3. ~ (n > Len(s))
      BY <1>3, <2>2
    <2> QED BY <1>4, <2>2, <2>3 DEF prev, pos
  <1> QED BY <1>5, <1>6

-----------------------------------------------------------------------------
(* One step of the list is one of Traversal: an item comes in.             *)

\* What is behind the first b elements of t, which is s with x behind k.
RestHasPut(s, t, x, k, b) ==
  /\ k =< b => SubSeq(t, b + 2, Len(t)) = SubSeq(s, b + 1, Len(s))
  /\ b =< k => SubSeq(t, b + 1, Len(t))
                 = Promised!PutAt(SubSeq(s, b + 1, Len(s)), k - b, x)

LEMMA PutInRest ==
  ASSUME NEW S, NEW s \in Seq(S), NEW t \in Seq(S), NEW x \in S,
         NEW k \in Nat, k =< Len(s), HasPut(s, k, x, t),
         NEW b \in Nat, b =< Len(s)
  PROVE  RestHasPut(s, t, x, k, b)
  <1> DEFINE r == SubSeq(s, b + 1, Len(s))
  <1>1. PICK n \in Nat : n = Len(s)
    OBVIOUS
  <1>2. /\ Len(t) = n + 1 /\ k =< n /\ b =< n
        /\ \A j \in 1 .. n + 1 :
             t[j] = IF j =< k THEN s[j] ELSE IF j = k + 1 THEN x ELSE s[j - 1]
    BY <1>1 DEF HasPut
  <1>3. /\ r \in Seq(S) /\ Len(r) = n - b
        /\ \A j \in 1 .. n - b : r[j] = s[b + j]
    BY <1>1, CutIs
  <1> HIDE DEF r
  <1>4. ASSUME k =< b PROVE SubSeq(t, b + 2, Len(t)) = r
    <2> DEFINE u == SubSeq(t, b + 2, Len(t))
    <2>1. /\ b + 1 \in Nat /\ b + 1 =< Len(t) /\ Len(t) - (b + 1) = n - b
          /\ b + 1 + 1 = b + 2
      BY <1>2
    <2>2. /\ u \in Seq(S) /\ Len(u) = n - b
          /\ \A j \in 1 .. n - b : u[j] = t[b + 1 + j]
      <3>1. /\ SubSeq(t, b + 1 + 1, Len(t)) \in Seq(S)
            /\ Len(SubSeq(t, b + 1 + 1, Len(t))) = Len(t) - (b + 1)
            /\ \A j \in 1 .. Len(t) - (b + 1) :
                 SubSeq(t, b + 1 + 1, Len(t))[j] = t[b + 1 + j]
        BY ONLY <2>1, CutIs, t \in Seq(S)
      <3> QED BY <2>1, <3>1
    <2> HIDE DEF u
    <2>3. ASSUME NEW j \in 1 .. n - b PROVE u[j] = r[j]
      <3>1. /\ b + 1 + j \in 1 .. n + 1 /\ ~ (b + 1 + j =< k)
            /\ b + 1 + j # k + 1 /\ b + 1 + j - 1 = b + j
        BY <1>2, <1>4
      <3>2. t[b + 1 + j] = s[b + j]
        BY <1>2, <3>1
      <3> QED BY <1>3, <2>2, <3>2
    <2>4. u = r
      BY <1>3, <2>2, <2>3, SameSeq
    <2> QED BY <2>4 DEF u
  <1>5. ASSUME b =< k
        PROVE  SubSeq(t, b + 1, Len(t)) = Promised!PutAt(r, k - b, x)
    <2> DEFINE u == SubSeq(t, b + 1, Len(t))
               v == Promised!PutAt(r, k - b, x)
    <2>1. b =< Len(t) /\ Len(t) - b = n - b + 1
      BY <1>2
    <2>2. /\ u \in Seq(S) /\ Len(u) = n - b + 1
          /\ \A j \in 1 .. n - b + 1 : u[j] = t[b + j]
      BY <2>1, CutIs
    <2>3. k - b \in Nat /\ k - b =< Len(r)
      BY <1>2, <1>3, <1>5
    <2>4. v \in Seq(S) /\ HasPut(r, k - b, x, v)
      BY <1>3, <2>3, PutAtIs
    <2> HIDE DEF u, v
    <2>5. /\ Len(v) = n - b + 1
          /\ \A j \in 1 .. n - b + 1 :
               v[j] = IF j =< k - b THEN r[j]
                      ELSE IF j = k - b + 1 THEN x ELSE r[j - 1]
      BY <1>3, <2>4 DEF HasPut
    <2>6. ASSUME NEW j \in 1 .. n - b + 1 PROVE u[j] = v[j]
      <3>1. u[j] = t[b + j] /\ b + j \in 1 .. n + 1
        BY <1>2, <2>2
      <3>2. CASE j =< k - b
        <4>1. b + j =< k /\ j \in 1 .. n - b
          BY <1>2, <3>2
        <4> QED BY <1>2, <1>3, <2>5, <3>1, <3>2, <4>1
      <3>3. CASE j = k - b + 1
        <4>1. b + j = k + 1 /\ ~ (b + j =< k) /\ ~ (j =< k - b)
          BY <1>2, <3>3
        <4> QED BY <1>2, <2>5, <3>1, <3>3, <4>1
      <3>4. CASE j > k - b + 1
        <4>1. /\ b + j # k + 1 /\ ~ (b + j =< k) /\ ~ (j =< k - b)
              /\ j # k - b + 1 /\ j - 1 \in 1 .. n - b
              /\ b + (j - 1) = b + j - 1
          BY <1>2, <2>3, <3>4
        <4>2. u[j] = s[b + j - 1]
          BY <1>2, <3>1, <4>1
        <4>3. v[j] = r[j - 1] /\ r[j - 1] = s[b + (j - 1)]
          BY <1>3, <2>5, <4>1
        <4> QED BY <4>1, <4>2, <4>3
      <3>5. j \in Int /\ k \in Int /\ b \in Int
        OBVIOUS
      <3> QED BY <3>2, <3>3, <3>4, <3>5
    <2>7. u = v
      BY <2>2, <2>4, <2>5, <2>6, SameSeq
    <2> QED BY <2>7 DEF u, v
  <1> QED BY <1>4, <1>5 DEF r, RestHasPut

\* The items after list_node_create().
LEMMA CreatedItems ==
  ASSUME NEW l, NEW place, Whole(l, place),
         NEW pp \in Ends(l), NEW x \in Item \ l.nodes,
         NEW m, NEW q, Whole(m, q),
         m.nodes = l.nodes \cup {x}, m.count = l.count + 1,
         q[x] = place[pp] + 1, MadeRoom(l, place, place[pp], q)
  PROVE  /\ place[pp] \in Nat /\ place[pp] =< Len(ItemsOf(l))
         /\ HasPut(ItemsOf(l), place[pp], x, ItemsOf(m))
         /\ ItemsOf(m) = Promised!PutAt(ItemsOf(l), place[pp], x)
  <1> DEFINE s == ItemsOf(l)
             t == Promised!PutAt(s, place[pp], x)
             k == place[pp]
  <1>1. Ordered(l, place, s) /\ Ordered(m, q, ItemsOf(m))
    BY ItemsOrdered
  <1> HIDE DEF s
  <1>2. k \in Nat /\ k =< l.count /\ l.count \in Nat
    BY Facts DEF Whole, Numbered, Ends
  <1>3. s \in Seq(Item) /\ Len(s) = l.count
    BY <1>1 DEF Ordered
  <1>4. t \in Seq(Item) /\ HasPut(s, k, x, t)
    BY <1>2, <1>3, PutAtIs
  <1> HIDE DEF t, k
  <1>5. /\ Len(t) = l.count + 1
        /\ \A j \in 1 .. l.count + 1 :
             t[j] = IF j =< k THEN s[j] ELSE IF j = k + 1 THEN x ELSE s[j - 1]
    BY <1>3, <1>4 DEF HasPut
  <1>6. ASSUME NEW j \in 1 .. l.count
        PROVE  s[j] \in l.nodes /\ q[s[j]] = IF j > k THEN j + 1 ELSE j
    <2>1. s[j] \in l.nodes /\ place[s[j]] = j
      BY <1>1 DEF Ordered
    <2> QED BY <2>1 DEF MadeRoom, Ends, k
  <1>7. ASSUME NEW j \in 1 .. m.count PROVE t[j] \in m.nodes /\ q[t[j]] = j
    <2>1. j \in 1 .. l.count + 1
      OBVIOUS
    <2>2. CASE j =< k
      <3>1. j \in 1 .. l.count /\ ~ (j > k)
        BY <1>2, <2>2
      <3> QED BY <1>5, <1>6, <2>1, <2>2, <3>1
    <2>3. CASE j = k + 1
      <3>1. ~ (j =< k)
        BY <1>2, <2>3
      <3> QED BY <1>5, <2>1, <2>3, <3>1 DEF k
    <2>4. CASE j > k + 1
      <3>1. /\ ~ (j =< k) /\ j # k + 1 /\ j - 1 \in 1 .. l.count /\ j - 1 > k
            /\ j - 1 + 1 = j
        BY <1>2, <2>4
      <3>2. t[j] = s[j - 1]
        BY <1>5, <2>1, <3>1
      <3> QED BY <1>6, <3>1, <3>2
    <2>5. j \in Int /\ k \in Int
      BY <1>2
    <2> QED BY <2>2, <2>3, <2>4, <2>5
  <1>8. ItemsOf(m) = t
    BY <1>1, <1>4, <1>5, <1>7, InOrderIs
  <1> QED BY <1>2, <1>3, <1>4, <1>8 DEF s, t, k

\* Where an iterator stands after list_node_create(): on x, if it stood right
\* behind pp and had not met it, or where it stood.
LEMMA CreatedFrom ==
  ASSUME NEW l, NEW place, Whole(l, place),
         NEW pp \in Ends(l), NEW x \in Item \ l.nodes,
         NEW m, m = NodeCreate(l, pp, x), NEW q, Whole(m, q),
         q[x] = place[pp] + 1, MadeRoom(l, place, place[pp], q),
         NEW i \in l.open
  PROVE  \/ /\ From(m, q, m.iter[i]) = From(l, place, l.iter[i]) + 1
            /\ place[pp] =< From(l, place, l.iter[i])
         \/ /\ From(m, q, m.iter[i]) = From(l, place, l.iter[i])
            /\ From(l, place, l.iter[i]) =< place[pp]
  <1> DEFINE it == l.iter[i]
             pos == l.iter[i].pos
             k == place[pp]
             b == From(l, place, l.iter[i])
  <1>1. /\ i \in Iter /\ pos \in l.nodes \cup {Nil}
        /\ Nil \notin l.nodes /\ l.count \in Nat
        /\ x # Nil
    BY Facts, ListsAssumption DEF Whole, Typed, Ends
  <1>2. k \in Nat /\ k =< l.count
    BY Facts DEF Whole, Numbered, Ends
  <1>3. /\ m.iter[i].pos = IF it.prev # pp /\ pos = l.next[pp] THEN x ELSE pos
        /\ m.count = l.count + 1
    BY <1>1 DEF NodeCreate, Moved, AfterCreate
  <1>4. pos # Nil => /\ place[pos] \in Nat /\ b = place[pos] - 1
                     /\ q[pos] = IF place[pos] > k THEN place[pos] + 1
                                 ELSE place[pos]
    BY <1>1, Facts DEF From, MadeRoom, Ends
  <1>5. pos = Nil => b = l.count
    BY DEF From
  <1>6. CASE it.prev # pp /\ pos = l.next[pp]
    <2>1. m.iter[i].pos = x
      BY <1>3, <1>6
    <2>2. From(m, q, m.iter[i]) = k
      <3>1. From(m, q, m.iter[i]) = q[x] - 1
        BY <1>1, <2>1 DEF From
      <3> QED BY <1>2, <3>1
    <2>3. b = k
      <3>1. CASE pos = Nil
        BY <1>5, <1>6, <3>1 DEF Whole, Numbered
      <3>2. CASE pos # Nil
        <4>1. place[pos] = k + 1
          BY <1>6, <3>2 DEF Whole, Numbered
        <4> QED BY <1>2, <1>4, <3>2, <4>1
      <3> QED BY <3>1, <3>2
    <2> QED BY <1>2, <2>2, <2>3
  <1>7. CASE ~ (it.prev # pp /\ pos = l.next[pp])
    <2>1. m.iter[i].pos = pos
      BY <1>3, <1>7
    <2>2. CASE pos = Nil
      <3>1. From(m, q, m.iter[i]) = l.count + 1
        BY <1>3, <2>1, <2>2 DEF From
      <3> QED BY <1>2, <1>5, <2>2, <3>1
    <2>3. CASE pos # Nil
      <3>1. From(m, q, m.iter[i]) = q[pos] - 1
        BY <2>1, <2>3 DEF From
      <3> HIDE DEF b, k, pos, it
      <3>2. PICK f \in Nat : f = place[pos]
        BY <1>4, <2>3
      <3>3. CASE f > k
        <4>1. From(m, q, m.iter[i]) = b + 1 /\ k =< b
          BY <1>2, <1>4, <2>3, <3>1, <3>2, <3>3
        <4> QED BY <4>1 DEF b, k
      <3>4. CASE ~ (f > k)
        <4>1. From(m, q, m.iter[i]) = b /\ b =< k
          BY <1>2, <1>4, <2>3, <3>1, <3>2, <3>4
        <4> QED BY <4>1 DEF b, k
      <3> QED BY <3>3, <3>4
    <2> QED BY <2>2, <2>3
  <1> QED BY <1>6, <1>7

LEMMA CreatedMet ==
  ASSUME NEW l, NEW place, Whole(l, place), Settled(l),
         NEW pp \in Ends(l), NEW x \in Item \ l.nodes,
         NEW m, m = NodeCreate(l, pp, x), NEW q, Whole(m, q),
         NEW i \in Iter
  PROVE  MetOf(m, ItemsOf(m), i) = MetOf(l, ItemsOf(l), i)
  <1> DEFINE prev == l.iter[i].prev
             pos == l.iter[i].pos
             met == m.next[m.iter[i].prev]
  <1>1. /\ MetOf(l, ItemsOf(l), i)
             = IF i \in l.open /\ l.next[prev] # pos THEN l.next[prev] ELSE Nil
        /\ MetOf(m, ItemsOf(m), i)
             = IF i \in m.open /\ met # m.iter[i].pos THEN met ELSE Nil
    BY MetIs, ItemsOrdered
  <1>2. /\ prev \in Ends(l) /\ pos \in l.nodes \cup {Nil}
        /\ l.next \in [Owner -> l.nodes \cup {Nil}] /\ Ends(l) \subseteq Owner
        /\ x \notin Ends(l) /\ x \in Owner /\ x # Nil
    BY Facts, ListsAssumption DEF Whole, Typed, Ends, Owner
  <1>3. /\ m.open = l.open
        /\ m.next = [l.next EXCEPT ![x] = l.next[pp], ![pp] = x]
    BY DEF NodeCreate
  <1>4. i \in l.open =>
          /\ m.iter[i].prev = IF prev = pp THEN x ELSE prev
          /\ m.iter[i].pos = IF prev # pp /\ pos = l.next[pp] THEN x ELSE pos
    BY DEF NodeCreate, Moved, AfterCreate
  <1> HIDE DEF prev, pos
  <1>5. /\ m.next[pp] = x /\ m.next[x] = l.next[pp]
        /\ \A o \in Ends(l) \ {pp} : m.next[o] = l.next[o]
        /\ \A o \in Ends(l) : l.next[o] \in l.nodes \cup {Nil} /\ l.next[o] # x
    BY <1>2, <1>3 DEF Ends
  <1>6. CASE i \notin l.open
    BY <1>1, <1>3, <1>6
  <1>7. CASE i \in l.open /\ prev = pp
    <2>1. m.iter[i].prev = x /\ m.iter[i].pos = pos /\ met = l.next[prev]
      BY <1>4, <1>5, <1>7
    <2> QED BY <1>1, <1>3, <1>7, <2>1
  <1>8. CASE i \in l.open /\ prev # pp
    <2>1. m.iter[i].prev = prev /\ met = l.next[prev]
      BY <1>2, <1>4, <1>5, <1>8
    <2>2. CASE pos # l.next[pp]
      BY <1>1, <1>3, <1>4, <1>8, <2>1, <2>2
    <2>3. CASE pos = l.next[pp]
      <3>1. m.iter[i].pos = x /\ met # x
        BY <1>2, <1>4, <1>5, <1>8, <2>1, <2>3
      <3>2. pos = l.next[prev] => l.next[prev] = Nil
        BY <1>2, <1>8, <2>3, Facts
      <3> QED BY <1>1, <1>3, <1>8, <2>1, <3>1, <3>2
    <2> QED BY <2>2, <2>3
  <1> QED BY <1>6, <1>7, <1>8

-----------------------------------------------------------------------------
(* An item goes out.                                                       *)

\* What is behind the first b elements of s is without x in t, which is s
\* without its k-th element, x.
RestHasLost(s, t, x, k, b) ==
  /\ k =< b => SubSeq(t, b, Len(t))
                 = Promised!Without(SubSeq(s, b + 1, Len(s)), x)
  /\ b < k => SubSeq(t, b + 1, Len(t))
                = Promised!Without(SubSeq(s, b + 1, Len(s)), x)

LEMMA LostInRest ==
  ASSUME NEW S, NEW s \in Seq(S), NEW t \in Seq(S), NEW x,
         NEW k \in 1 .. Len(s), HasLost(s, k, t),
         \A n \in DOMAIN s : s[n] = x <=> n = k,
         NEW b \in Nat, b =< Len(s)
  PROVE  RestHasLost(s, t, x, k, b)
  <1> DEFINE r == SubSeq(s, b + 1, Len(s))
  <1>1. PICK n \in Nat : n = Len(s)
    OBVIOUS
  <1>2. /\ Len(t) = n - 1 /\ k \in Nat /\ 1 =< k /\ k =< n /\ b =< n
        /\ DOMAIN s = 1 .. n
        /\ \A j \in 1 .. n - 1 : t[j] = IF j < k THEN s[j] ELSE s[j + 1]
    BY <1>1 DEF HasLost
  <1>3. /\ r \in Seq(S) /\ Len(r) = n - b
        /\ \A j \in 1 .. n - b : r[j] = s[b + j]
    BY <1>1, CutIs
  <1> HIDE DEF r
  <1>4. DOMAIN r = 1 .. n - b
    BY <1>3
  <1>5. ASSUME k =< b PROVE SubSeq(t, b, Len(t)) = Promised!Without(r, x)
    <2>1. \A j \in DOMAIN r : r[j] # x
      <3> TAKE j \in DOMAIN r
      <3>1. b + j \in 1 .. n /\ b + j # k
        BY <1>2, <1>4, <1>5
      <3> QED BY <1>2, <1>3, <1>4, <3>1
    <2>2. Promised!Without(r, x) = r
      BY <2>1, WithoutNone
    <2> DEFINE c == b - 1
               u == SubSeq(t, c + 1, Len(t))
    <2>3. c \in Nat /\ c =< Len(t) /\ Len(t) - c = n - b /\ c + 1 = b
      BY <1>2, <1>5
    <2>4. /\ u \in Seq(S) /\ Len(u) = n - b
          /\ \A j \in 1 .. n - b : u[j] = t[c + j]
      <3> HIDE DEF c
      <3> QED BY <2>3, CutIs
    <2>5. u = SubSeq(t, b, Len(t))
      BY <2>3
    <2> HIDE DEF u
    <2>6. ASSUME NEW j \in 1 .. n - b PROVE u[j] = r[j]
      <3>1. /\ c + j \in 1 .. n - 1 /\ ~ (c + j < k) /\ c + j + 1 = b + j
        BY <1>2, <1>5
      <3> HIDE DEF c
      <3>2. t[c + j] = s[b + j]
        BY <1>2, <3>1
      <3> QED BY <1>3, <2>4, <3>2
    <2>7. u = r
      BY <1>3, <2>4, <2>6, SameSeq
    <2> QED BY <2>2, <2>5, <2>7
  <1>6. ASSUME b < k
        PROVE  SubSeq(t, b + 1, Len(t)) = Promised!Without(r, x)
    <2> DEFINE u == SubSeq(t, b + 1, Len(t))
               v == Promised!Without(r, x)
    <2>1. k - b \in 1 .. Len(r)
      BY <1>2, <1>3, <1>6
    <2>2. \A j \in DOMAIN r : r[j] = x <=> j = k - b
      <3> TAKE j \in DOMAIN r
      <3>1. b + j \in 1 .. n /\ (b + j = k <=> j = k - b)
        BY <1>2, <1>4
      <3> QED BY <1>2, <1>3, <1>4, <3>1
    <2>3. v \in Seq(S) /\ HasLost(r, k - b, v)
      BY <1>3, <2>1, <2>2, WithoutIs
    <2>4. b =< Len(t) /\ Len(t) - b = n - b - 1
      BY <1>2, <1>6
    <2>5. /\ u \in Seq(S) /\ Len(u) = n - b - 1
          /\ \A j \in 1 .. n - b - 1 : u[j] = t[b + j]
      BY <2>4, CutIs
    <2> HIDE DEF u, v
    <2>6. /\ Len(v) = n - b - 1
          /\ \A j \in 1 .. n - b - 1 :
               v[j] = IF j < k - b THEN r[j] ELSE r[j + 1]
      BY <1>3, <2>3 DEF HasLost
    <2>7. ASSUME NEW j \in 1 .. n - b - 1 PROVE u[j] = v[j]
      <3>1. /\ u[j] = t[b + j] /\ b + j \in 1 .. n - 1
            /\ j \in 1 .. n - b /\ j + 1 \in 1 .. n - b
            /\ b + (j + 1) = b + j + 1
            /\ (b + j < k <=> j < k - b)
        BY <1>2, <2>5
      <3>2. /\ t[b + j] = IF b + j < k THEN s[b + j] ELSE s[b + j + 1]
            /\ r[j] = s[b + j] /\ r[j + 1] = s[b + (j + 1)]
            /\ v[j] = IF j < k - b THEN r[j] ELSE r[j + 1]
        BY <1>2, <1>3, <2>6, <3>1
      <3>3. CASE b + j < k
        BY <3>1, <3>2, <3>3
      <3>4. CASE ~ (b + j < k)
        BY <3>1, <3>2, <3>4
      <3> QED BY <3>3, <3>4
    <2>8. u = v
      BY <2>3, <2>5, <2>6, <2>7, SameSeq
    <2> QED BY <2>8 DEF u, v
  <1> QED BY <1>5, <1>6 DEF r, RestHasLost

\* The items after list_node_destroy().
LEMMA DestroyedItems ==
  ASSUME NEW l, NEW place, Whole(l, place),
         NEW p \in l.nodes, NEW m, NEW q, Whole(m, q),
         m.nodes = l.nodes \ {p}, m.count = l.count - 1,
         ClosedUp(l, place, place[p], q)
  PROVE  /\ place[p] \in 1 .. Len(ItemsOf(l))
         /\ \A n \in DOMAIN ItemsOf(l) : ItemsOf(l)[n] = p <=> n = place[p]
         /\ HasLost(ItemsOf(l), place[p], ItemsOf(m))
         /\ ItemsOf(m) = Promised!Without(ItemsOf(l), p)
  <1> DEFINE s == ItemsOf(l)
             t == Promised!Without(s, p)
             k == place[p]
  <1>1. Ordered(l, place, s) /\ Ordered(m, q, ItemsOf(m))
    BY ItemsOrdered
  <1> HIDE DEF s
  <1>2. k \in 1 .. l.count /\ l.count \in Nat
    BY <1>1, Facts DEF Ordered
  <1>3. s \in Seq(Item) /\ Len(s) = l.count /\ DOMAIN s = 1 .. l.count
    BY <1>1 DEF Ordered
  <1>4. \A n \in DOMAIN s : s[n] = p <=> n = k
    BY <1>1, <1>3 DEF Ordered
  <1>5. t \in Seq(Item) /\ HasLost(s, k, t)
    BY <1>2, <1>3, <1>4, WithoutIs
  <1> HIDE DEF t, k
  <1>6. /\ Len(t) = l.count - 1
        /\ \A j \in 1 .. l.count - 1 :
             t[j] = IF j < k THEN s[j] ELSE s[j + 1]
    BY <1>3, <1>5 DEF HasLost
  <1>7. ASSUME NEW j \in 1 .. l.count
        PROVE  s[j] \in l.nodes /\ q[s[j]] = IF j > k THEN j - 1 ELSE j
    <2>1. s[j] \in l.nodes /\ place[s[j]] = j
      BY <1>1 DEF Ordered
    <2> QED BY <2>1 DEF ClosedUp, Ends, k
  <1>8. ASSUME NEW j \in 1 .. m.count PROVE t[j] \in m.nodes /\ q[t[j]] = j
    <2>1. /\ j \in 1 .. l.count - 1 /\ j \in 1 .. l.count
          /\ j + 1 \in 1 .. l.count
      BY <1>2
    <2>2. CASE j < k
      <3>1. ~ (j > k) /\ j # k
        BY <1>2, <2>2
      <3>2. t[j] = s[j] /\ s[j] # p
        BY <1>3, <1>4, <1>6, <2>1, <2>2, <3>1
      <3> QED BY <1>7, <2>1, <3>1, <3>2
    <2>3. CASE ~ (j < k)
      <3>1. j + 1 > k /\ j + 1 # k /\ j + 1 - 1 = j
        BY <1>2, <2>3
      <3>2. t[j] = s[j + 1] /\ s[j + 1] # p
        BY <1>3, <1>4, <1>6, <2>1, <2>3, <3>1
      <3> QED BY <1>7, <2>1, <3>1, <3>2
    <2> QED BY <2>2, <2>3
  <1>9. ItemsOf(m) = t
    BY <1>1, <1>5, <1>6, <1>8, InOrderIs
  <1> QED BY <1>2, <1>3, <1>4, <1>5, <1>9 DEF s, t, k

\* Where an iterator stands after list_node_destroy().
LEMMA DestroyedFrom ==
  ASSUME NEW l, NEW place, Whole(l, place),
         NEW pp \in Ends(l), NEW p, p = l.next[pp], p # Nil,
         NEW m, m = NodeDestroy(l, pp), NEW q, Whole(m, q),
         ClosedUp(l, place, place[p], q),
         NEW i \in l.open
  PROVE  From(m, q, m.iter[i])
           = IF place[p] =< From(l, place, l.iter[i])
             THEN From(l, place, l.iter[i]) - 1
             ELSE From(l, place, l.iter[i])
  <1> DEFINE it == l.iter[i]
             pos == l.iter[i].pos
             k == place[p]
             b == From(l, place, l.iter[i])
             behind == l.next[p]
  <1>1. /\ i \in Iter /\ pos \in l.nodes \cup {Nil}
        /\ Nil \notin l.nodes /\ l.count \in Nat
        /\ p \in l.nodes /\ p \in Ends(l)
    BY Facts DEF Whole, Typed, Ends
  <1>2. k \in Nat /\ k =< l.count /\ 1 =< k
    BY <1>1, Numbers DEF Whole, Numbered
  <1>3. /\ m.iter[i].pos = IF pos = p THEN behind ELSE pos
        /\ m.count = l.count - 1
    BY <1>1 DEF NodeDestroy, Moved, AfterDestroy
  <1>4. pos # Nil => /\ place[pos] \in Nat /\ b = place[pos] - 1
                     /\ q[pos] = IF place[pos] > k THEN place[pos] - 1
                                 ELSE place[pos]
    BY <1>1, Facts DEF From, ClosedUp, Ends
  <1>5. CASE pos = p
    <2>1. m.iter[i].pos = behind /\ b = k - 1 /\ ~ (k =< b)
      BY <1>1, <1>2, <1>3, <1>4, <1>5
    <2>2. CASE behind = Nil
      <3>1. k = l.count
        BY <1>1, <2>2 DEF Whole, Numbered
      <3>2. From(m, q, m.iter[i]) = l.count - 1
        BY <1>3, <2>1, <2>2 DEF From
      <3> QED BY <2>1, <3>1, <3>2
    <2>3. CASE behind # Nil
      <3>1. behind \in Ends(l) /\ place[behind] = k + 1
        BY <1>1, <2>3, Numbers DEF Ends
      <3>4. q[behind] = IF place[behind] > k THEN place[behind] - 1
                        ELSE place[behind]
        BY <3>1 DEF ClosedUp
      <3>2. q[behind] = k
        BY <1>2, <3>1, <3>4
      <3>3. From(m, q, m.iter[i]) = q[behind] - 1
        BY <2>1, <2>3 DEF From
      <3> QED BY <1>2, <2>1, <3>2, <3>3
    <2> QED BY <2>2, <2>3
  <1>6. CASE pos = Nil
    <2>1. b = l.count /\ m.iter[i].pos = Nil
      BY <1>1, <1>3, <1>6 DEF From
    <2>2. From(m, q, m.iter[i]) = l.count - 1
      BY <1>3, <2>1 DEF From
    <2> QED BY <1>2, <2>1, <2>2
  <1>7. CASE pos # p /\ pos # Nil
    <2>1. m.iter[i].pos = pos /\ From(m, q, m.iter[i]) = q[pos] - 1
      BY <1>3, <1>7 DEF From
    <2>2. place[pos] # k
      BY <1>1, <1>7, Numbers DEF Ends
    <2> HIDE DEF b, k, pos
    <2>3. PICK f \in Nat : f = place[pos]
      BY <1>4, <1>7
    <2>4. CASE f > k
      <3>1. From(m, q, m.iter[i]) = b - 1 /\ k =< b
        BY <1>2, <1>4, <1>7, <2>1, <2>3, <2>4
      <3> QED BY <3>1 DEF b, k
    <2>5. CASE ~ (f > k)
      <3>1. From(m, q, m.iter[i]) = b /\ ~ (k =< b)
        BY <1>2, <1>4, <1>7, <2>1, <2>2, <2>3, <2>5
      <3> QED BY <3>1 DEF b, k
    <2> QED BY <2>4, <2>5
  <1> QED BY <1>5, <1>6, <1>7

\* The last item met may be forgotten, and p is.
LEMMA DestroyedMet ==
  ASSUME NEW l, NEW place, Whole(l, place), Settled(l),
         NEW pp \in Ends(l), NEW p, p = l.next[pp], p # Nil,
         NEW m, m = NodeDestroy(l, pp), NEW q, Whole(m, q),
         NEW i \in Iter
  PROVE  MetOf(m, ItemsOf(m), i)
           \in {Nil} \cup ({MetOf(l, ItemsOf(l), i)} \ {p})
  <1> DEFINE prev == l.iter[i].prev
             pos == l.iter[i].pos
             behind == l.next[p]
             met == m.next[m.iter[i].prev]
  <1>1. /\ MetOf(l, ItemsOf(l), i)
             = IF i \in l.open /\ l.next[prev] # pos THEN l.next[prev] ELSE Nil
        /\ MetOf(m, ItemsOf(m), i)
             = IF i \in m.open /\ met # m.iter[i].pos THEN met ELSE Nil
    BY MetIs, ItemsOrdered
  <1>2. /\ prev \in Ends(l) /\ pos \in l.nodes \cup {Nil}
        /\ l.next \in [Owner -> l.nodes \cup {Nil}] /\ Ends(l) \subseteq Owner
        /\ p \in Ends(l) /\ p # pp /\ behind # p
    BY Facts DEF Whole, Typed, Ends
  <1>3. /\ m.open = l.open
        /\ m.next = [l.next EXCEPT ![pp] = behind, ![p] = Nil]
    BY DEF NodeDestroy
  <1>4. i \in l.open =>
          /\ m.iter[i].prev = IF pos = p \/ prev = p THEN pp ELSE prev
          /\ m.iter[i].pos = IF pos = p THEN behind ELSE pos
          /\ Agrees(l.next, l.iter[i])
    BY DEF NodeDestroy, Moved, AfterDestroy, Settled
  <1> HIDE DEF prev, pos, behind
  <1>5. /\ m.next[pp] = behind
        /\ \A o \in Ends(l) \ {pp, p} : m.next[o] = l.next[o]
    BY <1>2, <1>3
  <1>6. \A o \in Ends(l) \ {pp} : l.next[o] # p
    BY <1>2, Facts
  <1>7. CASE i \notin l.open
    BY <1>1, <1>3, <1>7
  <1>8. CASE i \in l.open /\ pos = p
    BY <1>1, <1>3, <1>4, <1>5, <1>8
  <1>9. CASE i \in l.open /\ pos # p /\ prev = p
    <2>1. /\ met = l.next[prev] /\ m.iter[i].pos = pos
          /\ l.next[prev] # p
      BY <1>2, <1>4, <1>5, <1>9 DEF behind
    <2> QED BY <1>1, <1>3, <1>9, <2>1
  <1>10. CASE i \in l.open /\ pos # p /\ prev = pp
    <2>1. met = behind /\ m.iter[i].pos = pos
      BY <1>2, <1>4, <1>5, <1>10
    <2>2. pos = behind
      BY <1>4, <1>10 DEF Agrees, prev, pos, behind
    <2> QED BY <1>1, <1>3, <1>10, <2>1, <2>2
  <1>11. CASE i \in l.open /\ pos # p /\ prev # p /\ prev # pp
    <2>1. met = l.next[prev] /\ m.iter[i].pos = pos /\ l.next[prev] # p
      BY <1>2, <1>4, <1>5, <1>6, <1>11
    <2> QED BY <1>1, <1>3, <1>11, <2>1
  <1> QED BY <1>7, <1>8, <1>9, <1>10, <1>11

-----------------------------------------------------------------------------
(* The calls, as what Traversal says that they do.                         *)

LEMMA AsSeen ==
  /\ scan.call # "sort" => Seen = ItemsOf(list)
  /\ \A i \in Iter : Todo(i) = TodoOf(list, Seen, i)
  /\ \A i \in Iter : Met(i) = MetOf(list, Seen, i)
  BY DEF Seen, Items, ItemsOf, Todo, TodoOf, Met, MetOf

LEMMA AsSeenNext ==
  /\ scan'.call # "sort" => Seen' = ItemsOf(list')
  /\ \A i \in Iter : Todo(i)' = TodoOf(list', Seen', i)
  /\ \A i \in Iter : Met(i)' = MetOf(list', Seen', i)
  BY DEF Seen, Items, ItemsOf, Todo, TodoOf, Met, MetOf

LEMMA PutIsPut ==
  ASSUME NEW place \in [Owner -> Nat], Whole(list, place), Settled(list),
         scan.call # "sort", scan'.call # "sort",
         NEW pp \in Ends(list), NEW x \in Item \ list.nodes,
         list' = NodeCreate(list, pp, x)
  PROVE  Promised!Put(x)
  <1> DEFINE m == NodeCreate(list, pp, x)
             s == ItemsOf(list)
             t == ItemsOf(list')
             k == place[pp]
  <1>1. PICK q \in [Owner -> Nat] :
          /\ Whole(m, q)
          /\ q[x] = place[pp] + 1 /\ MadeRoom(list, place, place[pp], q)
    BY CreateKeeps
  <1>2. Whole(list', q)
    BY <1>1
  <1>3. /\ list'.nodes = list.nodes \cup {x}
        /\ list'.count = list.count + 1 /\ list'.open = list.open
    BY DEF NodeCreate
  <1> HIDE DEF m
  <1>4. k \in Nat /\ k =< Len(s) /\ HasPut(s, k, x, t)
        /\ t = Promised!PutAt(s, k, x)
    BY <1>1, <1>2, <1>3, CreatedItems
  <1>5. Ordered(list, place, s) /\ Ordered(list', q, t)
    BY <1>2, ItemsOrdered
  <1>6. s \in Seq(Item) /\ t \in Seq(Item)
    BY <1>5 DEF Ordered
  <1>7. Seen = s /\ Seen' = t
    BY AsSeen, AsSeenNext
  <1>8. \A i \in Iter : Todo(i) = TodoOf(list, s, i)
                        /\ Todo(i)' = TodoOf(list', t, i)
    BY <1>7, AsSeen, AsSeenNext
  <1>9. ASSUME NEW i \in list.open
        PROVE  LET b == Len(s) - Len(Todo(i)) IN
               \/ k =< b /\ Todo(i)' = Todo(i)
               \/ b =< k /\ Todo(i)' = Promised!PutAt(Todo(i), k - b, x)
    <2> DEFINE b == From(list, place, list.iter[i])
               c == From(list', q, list'.iter[i])
    <2>1. i \in Iter
      BY DEF Whole, Typed
    <2>9. StandsAt(list, place, s, i) /\ StandsAt(list', q, t, i)
      BY <1>2, <1>5, <2>1, TodoIs
    <2>2. /\ b \in Nat /\ b =< Len(s)
          /\ Todo(i) = SubSeq(s, b + 1, Len(s))
          /\ Len(Todo(i)) = Len(s) - b
      BY <1>8, <2>1, <2>9 DEF StandsAt
    <2>3. Todo(i)' = SubSeq(t, c + 1, Len(t))
      BY <1>8, <2>1, <2>9 DEF StandsAt
    <2>4. (c = b + 1 /\ k =< b) \/ (c = b /\ b =< k)
      BY <1>1, <1>2, CreatedFrom
    <2> HIDE DEF b, c, s, t, k
    <2>5. /\ k =< b => SubSeq(t, b + 2, Len(t)) = SubSeq(s, b + 1, Len(s))
          /\ b =< k => SubSeq(t, b + 1, Len(t))
                         = Promised!PutAt(SubSeq(s, b + 1, Len(s)), k - b, x)
      <3>1. RestHasPut(s, t, x, k, b)
        BY <1>4, <1>6, <2>2, PutInRest
      <3> QED BY <3>1 DEF RestHasPut
    <2>6. Len(s) - Len(Todo(i)) = b /\ b + 1 + 1 = b + 2
      BY <1>6, <2>2
    <2>7. CASE c = b + 1 /\ k =< b
      BY <2>2, <2>3, <2>5, <2>6, <2>7
    <2>8. CASE c = b /\ b =< k
      BY <2>2, <2>3, <2>5, <2>6, <2>8
    <2> QED BY <2>4, <2>7, <2>8
  <1>10. \A i \in Iter : Todo(i)' \in Seq(Item)
    BY <1>2, <1>5, <1>8, TodoIs DEF StandsAt
  <1>11. \A i \in Iter : Met(i)' = Met(i)
    BY <1>1, <1>2, <1>7, AsSeen, AsSeenNext, CreatedMet
  <1> DEFINE td == [i \in Iter |-> Todo(i)]
  <1>12. td' \in [Iter -> Seq(Item)]
    BY <1>10
  <1>13. ASSUME NEW i \in list.open
         PROVE  IF k < Len(s) - Len(td[i]) THEN td'[i] = td[i]
                ELSE \/ td'[i] = Promised!PutAt(
                                    td[i], k - (Len(s) - Len(td[i])), x)
                     \/ k = Len(s) - Len(td[i]) /\ td'[i] = td[i]
    <2>1. td[i] = Todo(i) /\ td'[i] = Todo(i)' /\ Todo(i) \in Seq(Item)
      <3>1. i \in Iter
        BY DEF Whole, Typed
      <3> QED BY <1>5, <1>8, <3>1, TodoIs DEF StandsAt
    <2> HIDE DEF td, s, k
    <2>6. Len(s) \in Int /\ Len(td[i]) \in Int
      BY <1>6, <2>1
    <2>7. PICK c \in Int : c = Len(s)
      BY <2>6
    <2>8. PICK d \in Int : d = Len(td[i])
      BY <2>6
    <2>2. PICK b \in Int : b = Len(s) - Len(td[i])
      <3>1. c - d \in Int /\ c - d = Len(s) - Len(td[i])
        BY <2>7, <2>8
      <3> QED BY ONLY <3>1
    <2>3. \/ k =< b /\ td'[i] = td[i]
          \/ b =< k /\ td'[i] = Promised!PutAt(td[i], k - b, x)
      BY <1>9, <2>1, <2>2
    <2>4. CASE k < b
      BY <1>4, <2>2, <2>3, <2>4
    <2>5. CASE ~ (k < b)
      BY <1>4, <2>2, <2>3, <2>5
    <2> QED BY <2>4, <2>5
  <1>14. [i \in Iter |-> Met(i)]' = [i \in Iter |-> Met(i)]
    BY <1>11
  <1>15. k \in 0 .. Len(s)
    BY <1>4, <1>6
  <1>16. \A n \in DOMAIN s : s[n] # x
    BY <1>5 DEF Ordered
  <1> HIDE DEF s, t, k
  <1> QED BY <1>3, <1>4, <1>7, <1>12, <1>13, <1>14, <1>15, <1>16, ZenonT(60)
          DEF Promised!Put, Promised!Behind, td

\* Iterators that are not in use stand nowhere.
AtRest(l) == \A i \in Iter \ l.open : l.iter[i] = Closed

LEMMA ClosedSees ==
  ASSUME NEW l, NEW s, NEW i, l.iter[i] = Closed, i \notin l.open
  PROVE  TodoOf(l, s, i) = <<>> /\ MetOf(l, s, i) = Nil
  BY DEF TodoOf, MetOf, Closed

LEMMA TakeIsTake ==
  ASSUME NEW place \in [Owner -> Nat], Whole(list, place), Settled(list),
         AtRest(list), scan.call # "sort", scan'.call # "sort",
         NEW pp \in Ends(list), list.next[pp] # Nil,
         list' = NodeDestroy(list, pp)
  PROVE  Promised!Take(list.next[pp])
  <1> DEFINE m == NodeDestroy(list, pp)
             p == list.next[pp]
             s == ItemsOf(list)
             t == ItemsOf(list')
             k == place[p]
  <1>1. PICK q \in [Owner -> Nat] :
          Whole(m, q) /\ ClosedUp(list, place, place[list.next[pp]], q)
    BY DestroyKeeps
  <1>2. Whole(list', q)
    BY <1>1
  <1>3. /\ list'.nodes = list.nodes \ {p}
        /\ list'.count = list.count - 1 /\ list'.open = list.open
        /\ list'.iter = [i \in Iter |->
                           IF i \in list.open
                           THEN AfterDestroy(list.iter[i], pp, p, list.next[p])
                           ELSE Closed]
    BY DEF NodeDestroy, Moved
  <1> HIDE DEF m
  <1>4. p \in list.nodes
    BY Facts
  <1>5. /\ k \in 1 .. Len(s) /\ HasLost(s, k, t)
        /\ \A n \in DOMAIN s : s[n] = p <=> n = k
        /\ t = Promised!Without(s, p)
    <2> HIDE DEF p
    <2> QED BY <1>1, <1>2, <1>3, <1>4, DestroyedItems, SMTT(30) DEF p
  <1>6. Ordered(list, place, s) /\ Ordered(list', q, t)
    BY <1>2, ItemsOrdered
  <1>7. s \in Seq(Item) /\ t \in Seq(Item)
    BY <1>6 DEF Ordered
  <1>8. Seen = s /\ Seen' = t
    BY AsSeen, AsSeenNext
  <1>9. \A i \in Iter : /\ Todo(i) = TodoOf(list, s, i)
                        /\ Todo(i)' = TodoOf(list', t, i)
                        /\ Met(i) = MetOf(list, s, i)
                        /\ Met(i)' = MetOf(list', t, i)
    BY <1>8, AsSeen, AsSeenNext
  <1>10. ASSUME NEW i \in list.open
         PROVE  Todo(i)' = Promised!Without(Todo(i), p)
    <2> DEFINE b == From(list, place, list.iter[i])
               c == From(list', q, list'.iter[i])
    <2>1. i \in Iter
      BY DEF Whole, Typed
    <2>2. StandsAt(list, place, s, i) /\ StandsAt(list', q, t, i)
      BY <1>2, <1>6, <2>1, TodoIs
    <2>3. /\ b \in Nat /\ b =< Len(s)
          /\ Todo(i) = SubSeq(s, b + 1, Len(s))
      BY <1>9, <2>1, <2>2 DEF StandsAt
    <2>4. Todo(i)' = SubSeq(t, c + 1, Len(t))
      BY <1>9, <2>1, <2>2 DEF StandsAt
    <2>5. c = IF k =< b THEN b - 1 ELSE b
      BY <1>1, <1>2, DestroyedFrom
    <2> HIDE DEF b, c, s, t, k, p
    <2>6. RestHasLost(s, t, p, k, b)
      BY <1>5, <1>7, <2>3, LostInRest
    <2>7. k \in Int
      BY <1>5
    <2>8. CASE k =< b
      <3>1. c + 1 = b
        BY <2>3, <2>5, <2>8
      <3> QED BY <2>3, <2>4, <2>6, <2>8, <3>1 DEF RestHasLost
    <2>9. CASE ~ (k =< b)
      <3>1. c = b /\ b < k
        BY <2>3, <2>5, <2>7, <2>9
      <3> QED BY <2>3, <2>4, <2>6, <2>9, <3>1 DEF RestHasLost
    <2> QED BY <2>8, <2>9
  <1>11. ASSUME NEW i \in Iter \ list.open
         PROVE  Todo(i)' = Promised!Without(Todo(i), p)
    <2>1. list.iter[i] = Closed /\ list'.iter[i] = Closed
      BY <1>3 DEF AtRest
    <2>2. Todo(i) = <<>> /\ Todo(i)' = <<>>
      BY <1>3, <1>9, <2>1, ClosedSees
    <2>3. Promised!Without(<<>>, p) = <<>>
      BY WithoutNone
    <2> QED BY <2>2, <2>3
  <1>12. \A i \in Iter : Met(i)' \in {Nil} \cup ({Met(i)} \ {p})
    BY <1>1, <1>2, <1>9, DestroyedMet
  <1>13. \A i \in Iter : Todo(i)' = Promised!Without(Todo(i), p)
    BY <1>10, <1>11
  <1>14. \A i \in Iter :
           [j \in Iter |-> Met(j)'][i] \in {Nil} \cup
              ({[j \in Iter |-> Met(j)][i]} \ {p})
    BY <1>12
  <1>15. [i \in Iter |-> Todo(i)'] =
           [i \in Iter |-> Promised!Without([j \in Iter |-> Todo(j)][i], p)]
    BY <1>13
  <1> HIDE DEF s, t, k, p
  <1>16. Promised!Take(p)
    BY <1>3, <1>5, <1>8, <1>14, <1>15 DEF Promised!Take
  <1> QED BY <1>16 DEF p

\* Nothing has changed for those who read the list.
LEMMA NothingSeen ==
  ASSUME Seen' = Seen, list'.open = list.open, list'.iter = list.iter
  PROVE  UNCHANGED Promised!vars
  <1>1. /\ \A i \in Iter : Todo(i) = TodoOf(list, Seen, i)
                           /\ Todo(i)' = TodoOf(list', Seen', i)
        /\ \A i \in Iter : Met(i) = MetOf(list, Seen, i)
                           /\ Met(i)' = MetOf(list', Seen', i)
    BY AsSeen, AsSeenNext
  <1>2. \A i \in Iter : Todo(i)' = Todo(i) /\ Met(i)' = Met(i)
    BY <1>1 DEF TodoOf, MetOf
  <1>3. /\ [i \in Iter |-> Todo(i)'] = [i \in Iter |-> Todo(i)]
        /\ [i \in Iter |-> Met(i)'] = [i \in Iter |-> Met(i)]
    BY <1>2
  <1> QED BY <1>3 DEF Promised!vars

LEMMA NothingHappens ==
  ASSUME list' = list, scan'.call # "sort", scan.call # "sort"
  PROVE  UNCHANGED Promised!vars
  <1>1. Seen' = Seen
    BY AsSeen, AsSeenNext DEF ItemsOf
  <1> QED BY <1>1, NothingSeen

-----------------------------------------------------------------------------
(* Iterators go on, begin again, and are made and destroyed.               *)

\* What moves, makes or destroys the iterator i is not seen by others.
LEMMA OneMoves ==
  ASSUME scan.call # "sort", scan'.call # "sort",
         list'.next = list.next, NEW i \in Iter, NEW it, NEW open,
         list.iter \in [Iter -> [prev : Ends(list),
                                 pos : list.nodes \cup {Nil}]],
         list'.open = open, open \ {i} = list.open \ {i},
         list'.iter = [list.iter EXCEPT ![i] = it]
  PROVE  /\ Seen = ItemsOf(list) /\ Seen' = Seen
         /\ list'.iter[i] = it
         /\ [j \in Iter |-> Todo(j)'] =
              [[j \in Iter |-> Todo(j)] EXCEPT
                 ![i] = TodoOf(list', ItemsOf(list'), i)]
         /\ [j \in Iter |-> Met(j)'] =
              [[j \in Iter |-> Met(j)] EXCEPT
                 ![i] = MetOf(list', ItemsOf(list'), i)]
  <1>1. Seen = ItemsOf(list) /\ Seen' = ItemsOf(list') /\ Seen' = Seen
    BY AsSeen, AsSeenNext DEF ItemsOf
  <1>2. /\ \A j \in Iter : Todo(j) = TodoOf(list, Seen, j)
                           /\ Todo(j)' = TodoOf(list', Seen', j)
        /\ \A j \in Iter : Met(j) = MetOf(list, Seen, j)
                           /\ Met(j)' = MetOf(list', Seen', j)
    BY AsSeen, AsSeenNext
  <1>3. ASSUME NEW j \in Iter, j # i
        PROVE  Todo(j)' = Todo(j) /\ Met(j)' = Met(j)
    <2>1. list'.iter[j] = list.iter[j]
      BY <1>3
    <2>2. j \in list'.open <=> j \in list.open
      BY <1>3
    <2>3. TodoOf(list', Seen', j) = TodoOf(list, Seen, j)
      BY <1>1, <2>1 DEF TodoOf
    <2>4. MetOf(list', Seen', j) = MetOf(list, Seen, j)
      BY <1>1, <2>1, <2>2 DEF MetOf
    <2> QED BY <1>2, <2>3, <2>4
  <1>4. /\ Todo(i)' = TodoOf(list', ItemsOf(list'), i)
        /\ Met(i)' = MetOf(list', ItemsOf(list'), i)
    BY <1>1, <1>2
  <1>5. list'.iter[i] = it
    OBVIOUS
  <1> QED BY <1>1, <1>3, <1>4, <1>5

\* What an iterator meets that stands at the head.
LEMMA HeadSees ==
  ASSUME NEW l, NEW place, Whole(l, place), NEW i \in Iter,
         l.iter[i] = AtHead(l.next)
  PROVE  /\ TodoOf(l, ItemsOf(l), i) = ItemsOf(l)
         /\ MetOf(l, ItemsOf(l), i) = Nil
  <1> DEFINE s == ItemsOf(l)
  <1>1. Ordered(l, place, s)
    BY ItemsOrdered
  <1> HIDE DEF s
  <1>2. l.iter[i].prev = Top /\ l.iter[i].pos = l.next[Top]
    BY DEF AtHead
  <1>3. From(l, place, l.iter[i]) = 0
    <2>1. Top \in Ends(l) /\ place[Top] = 0
      BY Numbers
    <2>2. CASE l.next[Top] = Nil
      BY <1>2, <2>1, <2>2 DEF From, Whole, Numbered
    <2>3. CASE l.next[Top] # Nil
      BY <1>2, <2>1, <2>3 DEF From, Whole, Numbered
    <2> QED BY <2>2, <2>3
  <1>4. s \in Seq(Item)
    BY <1>1 DEF Ordered
  <1>5. StandsAt(l, place, s, i)
    BY <1>1, TodoIs
  <1>6. TodoOf(l, s, i) = SubSeq(s, 0 + 1, Len(s))
    BY <1>3, <1>5 DEF StandsAt
  <1>7. SubSeq(s, 0 + 1, Len(s)) = s
    BY <1>4
  <1>8. MetOf(l, s, i) = Nil
    BY <1>1, <1>2, MetIs
  <1>9. TodoOf(l, s, i) = s
    BY <1>6, <1>7
  <1> QED BY <1>8, <1>9 DEF s

LEMMA FromIsCons ==
  ASSUME NEW S, NEW s \in Seq(S), NEW k \in 1 .. Len(s),
         NEW r, r = SubSeq(s, k, Len(s))
  PROVE  r # <<>> /\ Head(r) = s[k] /\ Tail(r) = SubSeq(s, k + 1, Len(s))
  <1> DEFINE u == SubSeq(s, k + 1, Len(s))
  <1>1. PICK n \in Nat : n = Len(s)
    OBVIOUS
  <1>2. k \in Nat /\ 1 =< k /\ k =< n
    BY <1>1
  <1>3. /\ r \in Seq(S) /\ Len(r) = n - k + 1
        /\ \A j \in 1 .. n - k + 1 : r[j] = s[k + j - 1]
    BY <1>1, <1>2
  <1>4. /\ u \in Seq(S) /\ Len(u) = n - k
        /\ \A j \in 1 .. n - k : u[j] = s[k + j]
    BY <1>1, <1>2, CutIs
  <1> HIDE DEF u
  <1>5. r # <<>> /\ Head(r) = r[1] /\ r[1] = s[k]
    <2>1. 1 \in 1 .. n - k + 1 /\ k + 1 - 1 = k
      BY <1>2
    <2>2. Len(r) # 0
      BY <1>2, <1>3
    <2>4. r # <<>>
      BY <2>2
    <2>5. Head(r) = r[1]
      BY <1>3, <2>4
    <2>3. r # <<>> /\ Head(r) = r[1]
      BY <2>4, <2>5
    <2> QED BY <1>3, <2>1, <2>3
  <1>6. /\ Tail(r) \in Seq(S) /\ Len(Tail(r)) = n - k
        /\ \A j \in 1 .. n - k : Tail(r)[j] = r[j + 1]
    BY <1>2, <1>3, <1>5
  <1>7. ASSUME NEW j \in 1 .. n - k PROVE Tail(r)[j] = u[j]
    <2>1. j + 1 \in 1 .. n - k + 1 /\ k + (j + 1) - 1 = k + j
      BY <1>2
    <2> QED BY <1>3, <1>4, <1>6, <2>1
  <1>8. Tail(r) = u
    BY <1>4, <1>6, <1>7, SameSeq
  <1> QED BY <1>5, <1>8 DEF u

\* list_next()
LEMMA AdvancedSees ==
  ASSUME NEW l, NEW place, Whole(l, place), NEW m, Whole(m, place),
         m.next = l.next, m.count = l.count, m.nodes = l.nodes,
         m.open = l.open, NEW i \in l.open, Agrees(l.next, l.iter[i]),
         m.iter[i] = Advanced(l.next, l.iter[i])
  PROVE  LET td == TodoOf(l, ItemsOf(l), i) IN
         IF td = <<>>
         THEN /\ TodoOf(m, ItemsOf(m), i) = td
              /\ MetOf(m, ItemsOf(m), i) = Nil
         ELSE /\ TodoOf(m, ItemsOf(m), i) = Tail(td)
              /\ MetOf(m, ItemsOf(m), i) = Head(td)
  <1> DEFINE s == ItemsOf(l)
             prev == l.iter[i].prev
             pos == l.iter[i].pos
             next == l.next
             td == TodoOf(l, s, i)
  <1>1. ItemsOf(m) = s
    BY DEF ItemsOf
  <1>2. Ordered(l, place, s) /\ Ordered(m, place, s)
    BY <1>1, ItemsOrdered
  <1>3. /\ i \in Iter /\ prev \in Ends(l) /\ pos \in l.nodes \cup {Nil}
        /\ Nil \notin l.nodes
    BY Facts DEF Whole, Typed, Ends
  <1>4. /\ m.iter[i].prev = IF next[prev] # pos THEN next[prev] ELSE prev
        /\ m.iter[i].pos = IF pos = Nil THEN Nil ELSE next[pos]
    BY DEF Advanced
  <1>5. /\ MetOf(m, s, i)
             = IF next[m.iter[i].prev] # m.iter[i].pos
               THEN next[m.iter[i].prev] ELSE Nil
    BY <1>2, <1>3, MetIs
  <1>6. \/ pos = next[prev]
        \/ next[prev] # Nil /\ pos = next[next[prev]]
    BY DEF Agrees
  <1>7. next[m.iter[i].prev] = pos
    BY <1>4, <1>6
  <1>8. /\ StandsAt(l, place, s, i) /\ StandsAt(m, place, s, i)
        /\ s \in Seq(Item) /\ Len(s) = l.count /\ l.count \in Nat
    BY <1>2, <1>3, TodoIs, Facts DEF Ordered
  <1> HIDE DEF s
  <1>9. CASE pos = Nil
    <2>1. td = <<>> /\ TodoOf(m, s, i) = <<>> /\ MetOf(m, s, i) = Nil
      BY <1>4, <1>5, <1>7, <1>9 DEF TodoOf
    <2> QED BY <1>1, <2>1 DEF s
  <1>10. CASE pos # Nil
    <2> DEFINE k == place[pos]
    <2>1. /\ k \in 1 .. l.count /\ s[k] = pos /\ pos \in Ends(l)
          /\ pos \in l.nodes
      BY <1>2, <1>3, <1>10 DEF Ordered, Ends
    <2>2. m.iter[i].pos = next[pos] /\ next[pos] # pos
      BY <1>4, <1>10, <2>1, Facts
    <2>3. MetOf(m, s, i) = pos
      BY <1>5, <1>7, <2>2
    <2>4. From(l, place, l.iter[i]) = k - 1
      BY <1>10 DEF From
    <2>5. From(m, place, m.iter[i]) = k
      <3>1. CASE next[pos] = Nil
        <4>1. k = l.count
          BY <2>1, <3>1 DEF Whole, Numbered
        <4> QED BY <2>2, <3>1, <4>1 DEF From
      <3>2. CASE next[pos] # Nil
        <4>1. place[next[pos]] = k + 1
          BY <2>1, <3>2 DEF Whole, Numbered
        <4> QED BY <2>1, <2>2, <3>2, <4>1 DEF From
      <3> QED BY <3>1, <3>2
    <2> HIDE DEF k, pos, td, next
    <2>6. k \in Nat /\ k - 1 \in Nat /\ k - 1 + 1 = k /\ k =< Len(s)
      BY <1>8, <2>1
    <2>7. /\ td = SubSeq(s, k, Len(s))
          /\ TodoOf(m, s, i) = SubSeq(s, k + 1, Len(s))
      BY <1>8, <2>4, <2>5, <2>6 DEF StandsAt, td
    <2>8. /\ td # <<>> /\ Head(td) = s[k]
          /\ Tail(td) = SubSeq(s, k + 1, Len(s))
      <3>1. k \in 1 .. Len(s)
        BY <2>6, <2>1, <1>8
      <3> QED BY <1>8, <2>7, <3>1, FromIsCons
    <2>9. /\ td # <<>> /\ TodoOf(m, s, i) = Tail(td)
          /\ MetOf(m, s, i) = Head(td)
      BY <2>1, <2>3, <2>7, <2>8
    <2> QED BY <1>1, <2>9 DEF s, td
  <1> QED BY <1>9, <1>10

LEMMA MeetIsMeet ==
  ASSUME NEW place \in [Owner -> Nat], Whole(list, place), Settled(list),
         scan.call # "sort", scan'.call # "sort",
         NEW i \in list.open, Meet(i)
  PROVE  Promised!Meet(i)
  <1> DEFINE it == Advanced(list.next, list.iter[i])
             s == ItemsOf(list)
             td == TodoOf(list, s, i)
             td2 == TodoOf(list', ItemsOf(list'), i)
             met2 == MetOf(list', ItemsOf(list'), i)
  <1>1. Whole(list', place) /\ list'.open = list.open
    BY MeetKeeps
  <1>2. /\ list'.next = list.next /\ list'.count = list.count
        /\ list'.nodes = list.nodes
        /\ list'.iter = [list.iter EXCEPT ![i] = it]
    BY DEF Meet, Reading, With
  <1>3. /\ i \in Iter
        /\ list.iter \in [Iter -> [prev : Ends(list),
                                   pos : list.nodes \cup {Nil}]]
        /\ Agrees(list.next, list.iter[i])
    BY DEF Whole, Typed, Settled
  <1> HIDE DEF it
  <1>4. /\ Seen = s /\ Seen' = Seen
        /\ list'.iter[i] = it
        /\ [j \in Iter |-> Todo(j)'] =
             [[j \in Iter |-> Todo(j)] EXCEPT ![i] = td2]
        /\ [j \in Iter |-> Met(j)'] =
             [[j \in Iter |-> Met(j)] EXCEPT ![i] = met2]
    BY <1>1, <1>2, <1>3, OneMoves
  <1>5. IF td = <<>> THEN td2 = td /\ met2 = Nil
        ELSE td2 = Tail(td) /\ met2 = Head(td)
    BY <1>1, <1>2, <1>3, <1>4, AdvancedSees DEF it
  <1>6. [j \in Iter |-> Todo(j)][i] = td
    BY <1>3, <1>4, AsSeen
  <1> HIDE DEF s, td, td2, met2
  <1> DEFINE todo == [j \in Iter |-> Todo(j)]
  <1>7. CASE td = <<>>
    <2>1. [todo EXCEPT ![i] = td2] = todo
      BY <1>3, <1>5, <1>6, <1>7
    <2> QED BY <1>1, <1>4, <1>5, <1>6, <1>7, <2>1 DEF Promised!Meet
  <1>8. CASE td # <<>>
    BY <1>1, <1>4, <1>5, <1>6, <1>8 DEF Promised!Meet
  <1> QED BY <1>7, <1>8

\* An iterator that comes to stand at the head.
LEMMA StartIsStart ==
  ASSUME NEW place \in [Owner -> Nat], Whole(list, place),
         Whole(list', place), scan.call # "sort", scan'.call # "sort",
         NEW i \in Iter,
         list' = With(list, list.next, list.tail, list.open \cup {i},
                      [list.iter EXCEPT ![i] = AtHead(list.next)])
  PROVE  Promised!Start(i)
  <1> DEFINE it == AtHead(list.next)
             open == list.open \cup {i}
             td2 == TodoOf(list', ItemsOf(list'), i)
             met2 == MetOf(list', ItemsOf(list'), i)
  <1>1. /\ list'.next = list.next /\ list'.open = open
        /\ list'.iter = [list.iter EXCEPT ![i] = it]
        /\ open \ {i} = list.open \ {i}
        /\ list.iter \in [Iter -> [prev : Ends(list),
                                   pos : list.nodes \cup {Nil}]]
    BY DEF With, Whole, Typed
  <1> HIDE DEF it, open
  <1>2. /\ Seen = ItemsOf(list) /\ Seen' = Seen
        /\ list'.iter[i] = it
        /\ [j \in Iter |-> Todo(j)'] =
             [[j \in Iter |-> Todo(j)] EXCEPT ![i] = td2]
        /\ [j \in Iter |-> Met(j)'] =
             [[j \in Iter |-> Met(j)] EXCEPT ![i] = met2]
    BY <1>1, OneMoves, ZenonT(60)
  <1>3. td2 = ItemsOf(list') /\ met2 = Nil
    BY <1>1, <1>2, HeadSees DEF it
  <1>4. ItemsOf(list') = Seen
    BY <1>1, <1>2 DEF ItemsOf
  <1>5. list'.open = list.open \cup {i}
    BY <1>1 DEF open
  <1> HIDE DEF td2, met2
  <1> QED BY <1>2, <1>3, <1>4, <1>5 DEF Promised!Start

LEMMA StopIsStop ==
  ASSUME NEW place, Whole(list, place),
         scan.call # "sort", scan'.call # "sort",
         NEW i \in Iter,
         list' = With(list, list.next, list.tail, list.open \ {i},
                      [list.iter EXCEPT ![i] = Closed])
  PROVE  Promised!Stop(i)
  <1> DEFINE open == list.open \ {i}
             td2 == TodoOf(list', ItemsOf(list'), i)
             met2 == MetOf(list', ItemsOf(list'), i)
  <1>1. /\ list'.next = list.next /\ list'.open = open
        /\ list'.iter = [list.iter EXCEPT ![i] = Closed]
        /\ open \ {i} = list.open \ {i} /\ i \notin list'.open
        /\ list.iter \in [Iter -> [prev : Ends(list),
                                   pos : list.nodes \cup {Nil}]]
    BY DEF With, Whole, Typed
  <1> HIDE DEF open
  <1>2. /\ Seen = ItemsOf(list) /\ Seen' = Seen
        /\ list'.iter[i] = Closed
        /\ [j \in Iter |-> Todo(j)'] =
             [[j \in Iter |-> Todo(j)] EXCEPT ![i] = td2]
        /\ [j \in Iter |-> Met(j)'] =
             [[j \in Iter |-> Met(j)] EXCEPT ![i] = met2]
    BY <1>1, OneMoves, ZenonT(60)
  <1>3. td2 = <<>> /\ met2 = Nil
    BY <1>1, <1>2, ClosedSees
  <1>4. list'.open = list.open \ {i}
    BY <1>1 DEF open
  <1> HIDE DEF td2, met2
  <1> QED BY <1>2, <1>3, <1>4 DEF Promised!Stop

LEMMA RenewIsDiscard ==
  ASSUME ListInv, Renew PROVE Promised!Discard
  <1>1. /\ scan' = Idle /\ list'.count = 0 /\ list'.open = {}
        /\ \A i \in Iter : list'.iter[i] = Closed
    BY DEF Renew, Call, Created
  <1>2. scan'.call # "sort"
    BY <1>1, IdleFields
  <1>3. PICK q \in [Owner -> Nat] : Whole(list', q)
    BY RenewKeeps DEF ListInv
  <1>4. ItemsOf(list') = <<>>
    <2>1. ItemsOf(list') \in Seq(Item) /\ Len(ItemsOf(list')) = 0
      BY <1>1, <1>3, ItemsOrdered DEF Ordered
    <2> QED BY <2>1
  <1>5. Seen' = <<>>
    BY <1>2, <1>4, AsSeenNext
  <1>6. \A i \in Iter : Todo(i)' = <<>> /\ Met(i)' = Nil
    BY <1>1, AsSeenNext, ClosedSees
  <1>7. /\ [i \in Iter |-> Todo(i)'] = [i \in Iter |-> <<>>]
        /\ [i \in Iter |-> Met(i)'] = [i \in Iter |-> Nil]
    BY <1>6
  <1> QED BY <1>1, <1>5, <1>7 DEF Promised!Discard

-----------------------------------------------------------------------------
(* Sorting is one step, the last.                                          *)

TraversalInv ==
  /\ SortInv
  /\ AtRest(list)
  /\ scan.call = "sort" => Len(scan.was) = list.count

LEMMA SortEndIsReorder ==
  ASSUME TraversalInv, SortEnd PROVE Promised!Reorder
  <1>1. /\ scan.call = "sort" /\ scan' = Idle
        /\ list'.open = list.open /\ list'.next = list.next
        /\ list'.iter = [i \in Iter |-> IF i \in list.open
                                        THEN AtHead(list.next) ELSE Closed]
        /\ list'.count = list.count
    BY DEF SortEnd, With, Moved
  <1>2. scan'.call # "sort"
    BY <1>1, IdleFields
  <1>3. SortInv /\ ListInv /\ Len(scan.was) = list.count
    BY <1>1 DEF TraversalInv, SortInv
  <1>4. PICK q \in [Owner -> Nat] : Whole(list', q)
    BY <1>3, SortEndKeeps DEF ListInv
  <1> DEFINE t == ItemsOf(list')
  <1>5. Seen = scan.was /\ Seen' = t /\ Items' = t
    BY <1>1, <1>2, AsSeenNext DEF Seen, Items, ItemsOf
  <1>6. Len(t) = list.count /\ t \in Seq(Item)
    BY <1>1, <1>4, ItemsOrdered DEF Ordered
  <1>7. {t[n] : n \in DOMAIN t} = {scan.was[n] : n \in DOMAIN scan.was}
    <2>1. Stably(Items', scan.was)
      BY <1>3, SortEndSorts
    <2> HIDE DEF t
    <2>2. Stably(t, scan.was)
      BY <1>5, <2>1
    <2> QED BY <2>2 DEF Stably
  <1>8. \A n \in DOMAIN Seen : \E j \in DOMAIN Seen' : Seen'[j] = Seen[n]
    <2> HIDE DEF t
    <2> QED BY <1>5, <1>7
  <1>9. ASSUME NEW i \in Iter
        PROVE  /\ Todo(i)' = IF i \in list.open THEN t ELSE <<>>
               /\ Met(i)' = Nil
    <2>1. /\ Todo(i)' = TodoOf(list', t, i)
          /\ Met(i)' = MetOf(list', t, i)
      BY <1>5, AsSeenNext
    <2>2. CASE i \in list.open
      <3>1. list'.iter[i] = AtHead(list'.next)
        BY <1>1, <2>2
      <3> QED BY <1>4, <2>1, <2>2, <3>1, HeadSees
    <2>3. CASE i \notin list.open
      <3>1. list'.iter[i] = Closed /\ i \notin list'.open
        BY <1>1, <2>3
      <3> QED BY <2>1, <2>3, <3>1, ClosedSees
    <2> QED BY <2>2, <2>3
  <1>10. /\ [i \in Iter |-> Todo(i)']
              = [i \in Iter |-> IF i \in list.open THEN Seen' ELSE <<>>]
         /\ [i \in Iter |-> Met(i)'] = [i \in Iter |-> Nil]
    BY <1>5, <1>9
  <1>11. Len(Seen') = Len(Seen)
    BY <1>3, <1>5, <1>6
  <1> HIDE DEF t
  <1> QED BY <1>1, <1>8, <1>10, <1>11 DEF Promised!Reorder

\* While a list is sorted it is what it was.
LEMMA SortingUnseen ==
  ASSUME TraversalInv,
         \/ Sort /\ scan.call # "sort"
         \/ SortCompare \/ SortLook \/ SortMove
  PROVE  UNCHANGED Promised!vars
  <1>1. CASE Sort /\ scan.call # "sort"
    <2>1. list' = list
      BY <1>1 DEF Sort, Call
    <2>2. Seen = Items
      BY <1>1 DEF Seen
    <2>3. CASE scan' = scan
      BY <1>1, <2>1, <2>3, NothingHappens
    <2>4. CASE scan' = Loop("sort", 0, list.next[Top], Top, Nil, 0, Items)
      <3>1. scan'.call = "sort" /\ scan'.was = Items
        BY <2>4 DEF Loop
      <3>2. Seen' = Seen
        BY <2>2, <3>1 DEF Seen
      <3> QED BY <2>1, <3>2, NothingSeen
    <2> QED BY <1>1, <2>3, <2>4 DEF Sort, Call
  <1>2. CASE SortCompare \/ SortLook \/ SortMove
    <2>1. /\ scan.call = "sort" /\ scan'.call = "sort"
          /\ scan'.was = scan.was
      BY <1>2 DEF SortCompare, Sorting, SortLook, SortMove, Loop
    <2>2. Seen' = Seen
      BY <2>1 DEF Seen
    <2>3. list'.open = list.open /\ list'.iter = list.iter
      BY <1>2 DEF SortCompare, SortLook, SortMove, With
    <2> QED BY <2>2, <2>3, NothingSeen
  <1> QED BY <1>1, <1>2

LEMMA PutOrNothing ==
  ASSUME TraversalInv, NEW pp \in Ends(list), NEW x \in Item, Put(pp, x)
  PROVE  Promised!Put(x) \/ UNCHANGED Promised!vars
  <1>1. /\ scan = Idle /\ scan' = Idle /\ x \in Item \ list.nodes
        /\ scan.call # "sort" /\ scan'.call # "sort"
    BY IdleFields DEF Put, Call
  <1>2. PICK place \in [Owner -> Nat] : Whole(list, place) /\ Settled(list)
    BY <1>1, IdleIsSettled DEF TraversalInv, SortInv
  <1>3. CASE list' = list
    BY <1>1, <1>3, NothingHappens
  <1>4. CASE list' = NodeCreate(list, pp, x)
    BY <1>1, <1>2, <1>4, PutIsPut
  <1> QED BY <1>3, <1>4 DEF Put

LEMMA OutOrNothing ==
  ASSUME TraversalInv, NEW pp \in Ends(list), Out(pp),
         scan.call # "sort", scan'.call # "sort"
  PROVE  (\E x \in Item : Promised!Take(x)) \/ UNCHANGED Promised!vars
  <1>1. PICK place \in [Owner -> Nat] : Whole(list, place) /\ Settled(list)
    BY IdleIsSettled DEF TraversalInv, SortInv
  <1>2. CASE list.next[pp] = Nil
    BY <1>2, NothingHappens DEF Out
  <1>3. CASE list.next[pp] # Nil
    <2>1. list' = NodeDestroy(list, pp)
      BY <1>3 DEF Out
    <2>2. Promised!Take(list.next[pp])
      BY <1>1, <1>3, <2>1, TakeIsTake DEF TraversalInv
    <2>3. list.next[pp] \in Item
      BY <1>1, <1>3, Facts DEF Whole, Typed
    <2> QED BY <2>2, <2>3
  <1> QED BY <1>2, <1>3

LEMMA IteratorCallsTraverse ==
  ASSUME TraversalInv, IterCreate \/ IterReset \/ IterDestroy \/ ListNext
  PROVE  \/ \E i \in Iter : Promised!Meet(i) \/ Promised!Start(i)
                              \/ Promised!Stop(i)
         \/ UNCHANGED Promised!vars
  <1>1. /\ scan = Idle /\ scan.call # "sort" /\ scan'.call # "sort"
    BY IdleFields DEF IterCreate, IterReset, IterDestroy, ListNext, Call
  <1>2. PICK place \in [Owner -> Nat] : Whole(list, place) /\ Settled(list)
    BY <1>1, IdleIsSettled DEF TraversalInv, SortInv
  <1>3. list.open \subseteq Iter
    BY <1>2 DEF Whole, Typed
  <1>4. /\ AtHead(list.next)
             \in [prev : Ends(list), pos : list.nodes \cup {Nil}]
        /\ Agrees(list.next, AtHead(list.next))
    BY <1>2, HeadAgrees
  <1>5. ASSUME NEW i \in Iter,
               list' = With(list, list.next, list.tail, list.open \cup {i},
                            [list.iter EXCEPT ![i] = AtHead(list.next)])
        PROVE  Promised!Start(i)
    <2> DEFINE open == list.open \cup {i}
    <2>1. open \in SUBSET Iter /\ open \ {i} \subseteq list.open
      BY <1>3
    <2>3. list' = With(list, list.next, list.tail, open,
                       [list.iter EXCEPT ![i] = AtHead(list.next)])
      BY <1>5
    <2> HIDE DEF open
    <2>2. Whole(list', place)
      BY <1>2, <1>4, <2>1, <2>3, IterKeeps
    <2> QED BY <1>1, <1>2, <1>5, <2>2, StartIsStart
  <1>6. CASE IterCreate
    <2>1. PICK i \in Iter \ list.open :
            \/ list' = With(list, list.next, list.tail, list.open \cup {i},
                            [list.iter EXCEPT ![i] = AtHead(list.next)])
            \/ list' = list
      BY <1>6 DEF IterCreate
    <2>2. CASE list' = list
      BY <1>1, <2>2, NothingHappens
    <2> QED BY <1>5, <2>1, <2>2
  <1>7. CASE IterReset
    <2>1. PICK i \in list.open :
            list' = With(list, list.next, list.tail, list.open,
                         [list.iter EXCEPT ![i] = AtHead(list.next)])
      BY <1>7 DEF IterReset, Reading
    <2>2. i \in Iter /\ list.open = list.open \cup {i}
      BY <1>3
    <2> QED BY <1>5, <2>1, <2>2
  <1>8. CASE IterDestroy
    <2>1. PICK i \in list.open :
            list' = With(list, list.next, list.tail, list.open \ {i},
                         [list.iter EXCEPT ![i] = Closed])
      BY <1>8 DEF IterDestroy
    <2>2. i \in Iter
      BY <1>3
    <2> QED BY <1>1, <1>2, <2>1, <2>2, StopIsStop
  <1>9. CASE ListNext
    <2>1. PICK i \in list.open : Meet(i)
      BY <1>9 DEF ListNext
    <2> QED BY <1>1, <1>2, <1>3, <2>1, MeetIsMeet
  <1> QED BY <1>6, <1>7, <1>8, <1>9

LEMMA LoopsTraverse ==
  ASSUME TraversalInv, Find \/ Finding \/ DeleteAll \/ Deleting
  PROVE  \/ \E i \in Iter : Promised!Meet(i)
         \/ \E x \in Item : Promised!Take(x)
         \/ UNCHANGED Promised!vars
  <1>1. CASE Find \/ DeleteAll
    <2>1. list' = list /\ scan.call # "sort" /\ scan'.call # "sort"
      BY <1>1, IdleFields DEF Find, DeleteAll, Loop
    <2> QED BY <2>1, NothingHappens
  <1>2. PICK place \in [Owner -> Nat] :
          Whole(list, place) /\ LoopInv(list, scan, place)
    BY DEF TraversalInv, SortInv, ListInv
  <1>3. CASE Finding
    <2>1. scan.call = "find" /\ scan'.call # "sort"
      BY <1>3, IdleFields DEF Finding
    <2>2. scan.was[1] \in list.open /\ Settled(list) /\ scan.was[1] \in Iter
      BY <1>2, <2>1 DEF LoopInv, Whole, Typed
    <2>3. Meet(scan.was[1])
      BY <1>3 DEF Finding
    <2> QED BY <1>2, <2>1, <2>2, <2>3, MeetIsMeet
  <1>4. CASE Deleting
    <2>1. /\ scan.call = "delete_all" /\ scan'.call # "sort"
          /\ \/ list' = list
             \/ list' = NodeDestroy(list, scan.pp) /\ list.next[scan.pp] # Nil
      BY <1>4, IdleFields DEF Deleting, Loop
    <2>2. scan.pp \in Ends(list)
      BY <1>2 DEF LoopInv
    <2>3. CASE list' = list
      BY <2>1, <2>3, NothingHappens
    <2>4. CASE list' = NodeDestroy(list, scan.pp) /\ list.next[scan.pp] # Nil
      <3>1. Out(scan.pp)
        BY <2>4 DEF Out
      <3> QED BY <2>1, <2>2, <3>1, OutOrNothing
    <2> QED BY <2>1, <2>3, <2>4
  <1> QED BY <1>1, <1>3, <1>4

LEMMA StepTraverses ==
  ASSUME TraversalInv, [Next]_vars
  PROVE  [Promised!Next]_(Promised!vars)
  <1>0. ListInv
    BY DEF TraversalInv, SortInv
  <1>1. /\ Top \in Ends(list) /\ list.tail \in Ends(list)
        /\ \A i \in list.open : list.iter[i].prev \in Ends(list)
    BY <1>0, Standing
  <1>2. \A r : Call(r) => scan.call # "sort" /\ scan'.call # "sort"
    BY IdleFields DEF Call
  <1>3. CASE Renew
    BY <1>0, <1>3, RenewIsDiscard DEF Promised!Next
  <1>4. CASE AppendItem \/ Enqueue \/ Prepend \/ Push \/ Insert
    <2>1. \E pp \in Ends(list), x \in Item : Put(pp, x)
      BY <1>1, <1>4 DEF AppendItem, Enqueue, Prepend, Push, Insert
    <2> QED BY <2>1, PutOrNothing DEF Promised!Next
  <1>5. CASE Pop \/ Dequeue \/ Remove \/ Delete
    <2>1. /\ scan.call # "sort" /\ scan'.call # "sort"
          /\ list' = list \/ \E pp \in Ends(list) : Out(pp)
      <3>1. CASE Pop \/ Dequeue
        BY <1>1, <1>2, <3>1 DEF Pop, Dequeue, Take
      <3>2. CASE Remove
        BY <1>1, <1>2, <3>2 DEF Remove, Take
      <3>3. CASE Delete
        BY <1>1, <1>2, <3>3 DEF Delete
      <3> QED BY <1>5, <3>1, <3>2, <3>3
    <2>2. CASE list' = list
      BY <2>1, <2>2, NothingHappens
    <2>3. CASE \E pp \in Ends(list) : Out(pp)
      BY <2>1, <2>3, OutOrNothing DEF Promised!Next
    <2> QED BY <2>1, <2>2, <2>3
  <1>6. CASE Peek \/ FindFirst \/ ForEach
    <2>1. scan.call # "sort" /\ scan'.call # "sort" /\ list' = list
      BY <1>2, <1>6 DEF Peek, FindFirst, ForEach
    <2> QED BY <2>1, NothingHappens
  <1>7. CASE IterCreate \/ IterReset \/ IterDestroy \/ ListNext
    BY <1>7, IteratorCallsTraverse DEF Promised!Next
  <1>8. CASE Find \/ Finding \/ DeleteAll \/ Deleting
    BY <1>8, LoopsTraverse DEF Promised!Next
  <1>9. CASE Sort
    <2>1. scan.call # "sort"
      BY <1>2, <1>9, IdleFields DEF Sort
    <2> QED BY <1>9, <2>1, SortingUnseen
  <1>10. CASE SortCompare \/ SortLook \/ SortMove
    BY <1>10, SortingUnseen
  <1>11. CASE SortEnd
    BY <1>11, SortEndIsReorder DEF Promised!Next
  <1>12. CASE UNCHANGED vars
    <2>1. Seen' = Seen
      BY <1>12 DEF vars, Seen, Items
    <2> QED BY <1>12, <2>1, NothingSeen DEF vars
  <1> QED BY <1>3, <1>4, <1>5, <1>6, <1>7, <1>8, <1>9, <1>10, <1>11, <1>12
          DEF Next

LEMMA NextTraverses ==
  TraversalInv /\ [Next]_vars => TraversalInv'
  <1> SUFFICES ASSUME TraversalInv, [Next]_vars PROVE TraversalInv'
    OBVIOUS
  <1>1. SortInv /\ SortInv'
    BY NextSorts DEF TraversalInv
  <1>2. list.iter \in [Iter -> [prev : Ends(list),
                                pos : list.nodes \cup {Nil}]]
    BY <1>1 DEF SortInv, ListInv, Whole, Typed
  <1>3. AtRest(list')
    <2> USE DEF AtRest
    <2>1. AtRest(list)
      BY DEF TraversalInv
    <2>2. CASE list' = list
      BY <2>1, <2>2
    <2>3. CASE Renew
      BY <2>3 DEF Renew, Created
    <2>4. ASSUME NEW pp, NEW x, Put(pp, x) PROVE AtRest(list')
      BY <2>2, <2>4 DEF Put, NodeCreate, Moved
    <2>5. ASSUME NEW pp, list' = NodeDestroy(list, pp) PROVE AtRest(list')
      BY <2>5 DEF NodeDestroy, Moved
    <2>6. ASSUME NEW pp, Out(pp) PROVE AtRest(list')
      BY <2>2, <2>5, <2>6 DEF Out
    <2>7. ASSUME NEW i \in list.open, Meet(i) PROVE AtRest(list')
      <3>1. list'.open = list.open
            /\ \A j \in Iter \ {i} : list'.iter[j] = list.iter[j]
        BY <1>2, <2>7 DEF Meet, Reading, With
      <3> QED BY <2>1, <3>1
    <2>8. CASE IterCreate \/ IterReset
      <3>1. \/ list' = list
            \/ \E i \in Iter :
                 /\ list'.open = list.open \cup {i}
                 /\ \A j \in Iter \ {i} : list'.iter[j] = list.iter[j]
        <4>1. list.open \subseteq Iter
          BY <1>1 DEF SortInv, ListInv, Whole, Typed
        <4> QED BY <1>2, <2>8, <4>1 DEF IterCreate, IterReset, Reading, With
      <3> QED BY <2>1, <2>2, <3>1
    <2>9. CASE IterDestroy
      <3>1. PICK i \in list.open :
              /\ list'.open = list.open \ {i}
              /\ list'.iter = [list.iter EXCEPT ![i] = Closed]
        BY <2>9 DEF IterDestroy, With
      <3> QED BY <1>2, <2>1, <3>1
    <2>10. CASE AppendItem \/ Enqueue \/ Prepend \/ Push \/ Insert
      BY <2>4, <2>10 DEF AppendItem, Enqueue, Prepend, Push, Insert
    <2>11. CASE Pop \/ Dequeue \/ Remove \/ Delete
      BY <2>2, <2>6, <2>11 DEF Pop, Dequeue, Remove, Delete, Take
    <2>12. CASE ListNext \/ Finding
      <3>1. \E i \in list.open : Meet(i)
        <4>1. CASE ListNext
          BY <4>1, SMTT(30) DEF ListNext
        <4>2. CASE Finding
          BY <1>1, <4>2 DEF Finding, SortInv, ListInv, LoopInv
        <4> QED BY <2>12, <4>1, <4>2
      <3> QED BY <2>7, <3>1
    <2>13. CASE Deleting
      BY <2>2, <2>5, <2>13 DEF Deleting
    <2>14. CASE \/ Peek \/ FindFirst \/ ForEach \/ Find \/ DeleteAll \/ Sort
                \/ SortCompare \/ SortLook \/ UNCHANGED vars
      BY <2>2, <2>14 DEF Peek, FindFirst, ForEach, Find, DeleteAll, Sort, Call,
                         SortCompare, SortLook, vars
    <2>15. CASE SortMove
      BY <2>1, <2>15 DEF SortMove, With
    <2>16. CASE SortEnd
      BY <2>16 DEF SortEnd, With, Moved
    <2> QED BY <2>3, <2>8, <2>9, <2>10, <2>11, <2>12, <2>13, <2>14, <2>15,
               <2>16 DEF Next
  <1>4. ASSUME scan'.call = "sort" PROVE Len(scan'.was) = list'.count
    <2>1. CASE Sort /\ scan.call # "sort"
      <3>1. Len(Items) = list.count
        BY <1>1, ListInvIsWhole DEF SortInv, ListIsWhole
      <3>2. scan' # scan
        BY <1>4, <2>1
      <3>3. scan'.was = Items /\ list' = list
        BY <2>1, <3>2 DEF Sort, Call, Loop
      <3> QED BY <3>1, <3>3
    <2>2. CASE SortCompare \/ SortLook \/ SortMove
      <3>1. /\ scan.call = "sort" /\ scan'.was = scan.was
            /\ list'.count = list.count
        BY <2>2 DEF SortCompare, Sorting, SortLook, SortMove, Loop, With
      <3> QED BY <3>1 DEF TraversalInv
    <2>3. CASE SortEnd
      BY <1>4, <2>3, IdleFields DEF SortEnd
    <2>4. CASE UNCHANGED vars
      BY <1>4, <2>4 DEF vars, TraversalInv
    <2> QED BY <1>4, <2>1, <2>2, <2>3, <2>4, OthersDoNotSort
  <1> QED BY <1>1, <1>3, <1>4 DEF TraversalInv

\* However many iterators read a list, and whatever is put in, taken out and
\* sorted meanwhile, through them or not, each of them meets every item that
\* stays, in order and once, and takes out none but the one it met last.
THEOREM TraversalsAlwaysWhole == Spec => TraversalsAreWhole
  <1>1. Init => TraversalInv
    <2> SUFFICES ASSUME Init PROVE TraversalInv
      OBVIOUS
    <2>1. scan.call # "sort"
      BY IdleFields DEF Init
    <2>2. AtRest(list)
      BY DEF Init, Created, AtRest
    <2> QED BY <2>1, <2>2, InitInv DEF TraversalInv, SortInv
  <1>2. TraversalInv /\ [Next]_vars => TraversalInv'
    BY NextTraverses
  <1>3. Init => Promised!Init
    <2> SUFFICES ASSUME Init PROVE Promised!Init
      OBVIOUS
    <2>1. scan.call # "sort" /\ ListInv
      BY IdleFields, InitInv DEF Init
    <2>2. /\ list.count = 0 /\ list.open = {}
          /\ \A i \in Iter : list.iter[i] = Closed
      BY DEF Init, Created
    <2>3. Seen = <<>>
      <3>1. PICK place \in [Owner -> Nat] : Whole(list, place)
        BY <2>1 DEF ListInv
      <3>2. ItemsOf(list) \in Seq(Item) /\ Len(ItemsOf(list)) = 0
        BY <2>2, <3>1, ItemsOrdered DEF Ordered
      <3>3. ItemsOf(list) = <<>>
        BY <3>2
      <3> QED BY <2>1, <3>3, AsSeen
    <2>4. \A i \in Iter : Todo(i) = <<>> /\ Met(i) = Nil
      BY <2>2, AsSeen, ClosedSees
    <2> QED BY <2>2, <2>3, <2>4 DEF Promised!Init
  <1>4. TraversalInv /\ [Next]_vars => [Promised!Next]_(Promised!vars)
    BY StepTraverses
  <1> QED BY <1>1, <1>2, <1>3, <1>4, PTL
          DEF Spec, TraversalsAreWhole, Promised!Spec

-----------------------------------------------------------------------------
(***************************************************************************)
(* HashHolds for every set of names, every hash function and every size.   *)
(* EntriesInPlace and AttrsAreFound rest on each other: a name is inserted *)
(* if it is not found, and what is not found is nowhere in the table only  *)
(* because all entries are in place.                                       *)
(***************************************************************************)

\* A table whose entries are where they are looked for, and counted.
Placed(h) ==
  /\ h.size \in Nat \ {0}
  /\ h.table \in [0 .. h.size - 1 -> SUBSET Key]
  /\ \A s \in 0 .. h.size - 1 : \A key \in h.table[s] : Slot(key, h.size) = s
  /\ h.count = Cardinality(Nodes(h))

\* A name has a slot, and is found if and only if it is in the table.
LEMMA SlotIsThere ==
  ASSUME NEW key \in Key, NEW n \in Nat \ {0}
  PROVE  Slot(key, n) \in 0 .. n - 1
  BY HashAssumption DEF Slot

LEMMA FoundIsThere ==
  ASSUME NEW h, Placed(h), NEW key \in Key
  PROVE  Found(h, key) <=> key \in Nodes(h)
  <1>1. Slot(key, h.size) \in 0 .. h.size - 1
    BY SlotIsThere DEF Placed
  <1>2. ASSUME key \in Nodes(h) PROVE Found(h, key)
    <2>1. PICK s \in 0 .. h.size - 1 : key \in h.table[s]
      BY <1>2 DEF Nodes
    <2>2. Slot(key, h.size) = s
      BY <2>1 DEF Placed
    <2> QED BY <2>1, <2>2 DEF Found
  <1>3. ASSUME Found(h, key) PROVE key \in Nodes(h)
    BY <1>1, <1>3 DEF Found, Nodes
  <1> QED BY <1>2, <1>3

\* The nodes of a table are a finite set of names.
LEMMA NodesAreKeys ==
  ASSUME NEW h, Placed(h)
  PROVE  Nodes(h) \subseteq Key /\ IsFiniteSet(Nodes(h))
  <1>1. Nodes(h) \subseteq Key
    <2>1. ASSUME NEW key \in Nodes(h) PROVE key \in Key
      <3>1. PICK s \in 0 .. h.size - 1 : key \in h.table[s]
        BY <2>1 DEF Nodes
      <3> QED BY <3>1 DEF Placed
    <2> QED BY <2>1
  <1> QED BY <1>1, HashAssumption, FS_Subset

\* hash_create() and _genders_rehash() put every name where it belongs.
LEMMA FilledIsPlaced ==
  ASSUME NEW n \in Nat \ {0}, NEW keys \in SUBSET Key, NEW frees
  PROVE  LET h == Filled(n, keys, frees) IN Placed(h) /\ Nodes(h) = keys
  <1> DEFINE h == Filled(n, keys, frees)
  <1>1. /\ h.size = n /\ h.count = Cardinality(keys)
        /\ h.table = [s \in 0 .. n - 1 |->
                        {key \in keys : Slot(key, n) = s}]
    BY DEF Filled
  <1> HIDE DEF h
  <1>2. \A key \in keys : Slot(key, n) \in 0 .. n - 1
    BY SlotIsThere
  <1>3. Nodes(h) = keys
    BY <1>1, <1>2 DEF Nodes
  <1>4. h.table \in [0 .. h.size - 1 -> SUBSET Key]
    BY <1>1
  <1>5. Placed(h)
    BY <1>1, <1>3, <1>4 DEF Placed
  <1> QED BY <1>3, <1>5 DEF h

\* hash_insert() of a name that is not there adds it, and nothing else.
LEMMA InsertedIsPlaced ==
  ASSUME NEW h, Placed(h), NEW key \in Key, key \notin Nodes(h)
  PROVE  LET i == Inserted(h, key) IN
         Placed(i) /\ Nodes(i) = Nodes(h) \cup {key} /\ i.size = h.size
  <1> DEFINE i == Inserted(h, key)
             slot == Slot(key, h.size)
  <1>1. /\ i.size = h.size /\ i.count = h.count + 1
        /\ i.table = [h.table EXCEPT ![slot] = h.table[slot] \cup {key}]
    BY DEF Inserted
  <1>2. slot \in 0 .. h.size - 1
    BY SlotIsThere DEF Placed
  <1>3. \A s \in 0 .. h.size - 1 :
          i.table[s] = IF s = slot THEN h.table[s] \cup {key} ELSE h.table[s]
    BY <1>1 DEF Placed
  <1>4. i.table \in [0 .. h.size - 1 -> SUBSET Key]
    BY <1>1, <1>2 DEF Placed
  <1>5. \A s \in 0 .. h.size - 1 : \A k \in i.table[s] :
          Slot(k, h.size) = s
    <2> SUFFICES ASSUME NEW s \in 0 .. h.size - 1, NEW k \in i.table[s]
                 PROVE  Slot(k, h.size) = s
      OBVIOUS
    <2>1. CASE k \in h.table[s]
      BY <2>1 DEF Placed
    <2>2. CASE s = slot /\ k = key
      BY <2>2
    <2>3. k \in h.table[s] \/ (s = slot /\ k = key)
      BY <1>3
    <2> QED BY <2>1, <2>2, <2>3
  <1> HIDE DEF i, slot
  <1>6. Nodes(i) = Nodes(h) \cup {key}
    <2>1. ASSUME NEW k \in Nodes(i) PROVE k \in Nodes(h) \cup {key}
      <3>1. PICK s \in 0 .. h.size - 1 : k \in i.table[s]
        BY <1>1, <2>1 DEF Nodes
      <3> QED BY <1>3, <3>1 DEF Nodes
    <2>2. ASSUME NEW k \in Nodes(h) PROVE k \in Nodes(i)
      <3>1. PICK s \in 0 .. h.size - 1 : k \in h.table[s]
        BY <2>2 DEF Nodes
      <3> QED BY <1>1, <1>3, <3>1 DEF Nodes
    <2>3. key \in Nodes(i)
      BY <1>1, <1>2, <1>3 DEF Nodes
    <2> QED BY <2>1, <2>2, <2>3
  <1>7. Cardinality(Nodes(h) \cup {key}) = Cardinality(Nodes(h)) + 1
    BY NodesAreKeys, FS_AddElement
  <1>8. i.count = Cardinality(Nodes(i))
    BY <1>1, <1>6, <1>7 DEF Placed
  <1>9. Placed(i)
    BY <1>1, <1>4, <1>5, <1>8 DEF Placed
  <1> QED BY <1>1, <1>6, <1>9 DEF i

\* hash_remove() and hash_delete_if() take out what they should.
LEMMA RemovedIsPlaced ==
  ASSUME NEW h, Placed(h), NEW keys, keys \subseteq Nodes(h)
  PROVE  LET r == Removed(h, keys) IN
         Placed(r) /\ Nodes(r) = Nodes(h) \ keys /\ r.size = h.size
  <1> DEFINE r == Removed(h, keys)
  <1>1. /\ r.size = h.size /\ r.count = h.count - Cardinality(keys)
        /\ r.table = [s \in 0 .. h.size - 1 |-> h.table[s] \ keys]
    BY DEF Removed
  <1> HIDE DEF r
  <1>2. Nodes(r) = Nodes(h) \ keys
    BY <1>1 DEF Nodes
  <1>3. r.table \in [0 .. h.size - 1 -> SUBSET Key]
    BY <1>1 DEF Placed
  <1>4. \A s \in 0 .. h.size - 1 : \A k \in r.table[s] :
          Slot(k, h.size) = s
    BY <1>1 DEF Placed
  <1>5. r.count = Cardinality(Nodes(r))
    <2>1. IsFiniteSet(Nodes(h)) /\ IsFiniteSet(keys)
      BY NodesAreKeys, FS_Subset
    <2>2. Nodes(h) \cap keys = keys
      OBVIOUS
    <2>3. Cardinality(Nodes(h) \ keys)
            = Cardinality(Nodes(h)) - Cardinality(Nodes(h) \cap keys)
      BY <2>1, FS_Difference
    <2> QED BY <1>1, <1>2, <2>2, <2>3 DEF Placed
  <1>6. Placed(r)
    BY <1>1, <1>3, <1>4, <1>5 DEF Placed
  <1> QED BY <1>1, <1>2, <1>6 DEF r

-----------------------------------------------------------------------------
\* The invariant: what is known is in the table unless it was lost, and a
\* table that was never rehashed still frees its names.
HashInv ==
  /\ Placed(hash)
  /\ size \in Nat \ {0} /\ hash.size =< size
  /\ Nodes(hash) = known \ lost
  /\ names \subseteq Key
  /\ NamesAreOwned
  /\ rehashed \in BOOLEAN
  /\ ~ rehashed => hash.frees = TRUE

LEMMA HashInvImplies ==
  HashInv => HashHolds
  <1> SUFFICES ASSUME HashInv PROVE HashHolds
    OBVIOUS
  <1>1. EntriesInPlace
    BY DEF HashInv, Placed, EntriesInPlace
  <1>2. AttrsAreFound
    BY FoundIsThere DEF HashInv, AttrsAreFound
  <1> QED BY <1>1, <1>2 DEF HashInv, HashHolds

LEMMA NewHashIsPlaced ==
  /\ Placed(NewHash) /\ Nodes(NewHash) = {}
  /\ NewHash.size = InitSize /\ NewHash.frees = TRUE
  <1>1. Placed(Filled(InitSize, {}, TRUE))
          /\ Nodes(Filled(InitSize, {}, TRUE)) = {}
    BY FilledIsPlaced, HashAssumption
  <1> QED BY <1>1 DEF NewHash, Filled

LEMMA HashInitInv ==
  HashInit => HashInv
  <1> SUFFICES ASSUME HashInit PROVE HashInv
    OBVIOUS
  <1>1. Placed(hash) /\ Nodes(hash) = {} /\ hash.frees = TRUE
    BY NewHashIsPlaced DEF HashInit
  <1>2. size \in Nat \ {0} /\ hash.size = size
    BY NewHashIsPlaced, HashAssumption DEF HashInit
  <1>3. hash.size =< size
    BY <1>2
  <1> QED BY <1>1, <1>2, <1>3 DEF HashInit, HashInv, NamesAreOwned

\* An insertion into a table with the right entries, h, be it the one that
\* was or its rehash.
LEMMA EnterKeeps ==
  ASSUME HashInv, NEW key \in Key, NEW h, Placed(h), Enter(h, key)
  PROVE  /\ Placed(hash') /\ hash'.size = h.size
         /\ hash'.frees = h.frees
         /\ \/ /\ Nodes(hash') = Nodes(h)
               /\ names' = names /\ known' = known
            \/ /\ Nodes(hash') = Nodes(h) \cup {key} /\ key \notin Nodes(h)
               /\ names' = names \cup {key} /\ known' = known \cup {key}
  <1>1. CASE hash' = h /\ UNCHANGED <<names, known>>
    BY <1>1
  <1>2. CASE /\ ~ Found(h, key)
             /\ hash' = Inserted(h, key)
             /\ names' = names \cup {key} /\ known' = known \cup {key}
    <2>1. key \notin Nodes(h)
      BY <1>2, FoundIsThere
    <2>2. /\ Placed(Inserted(h, key))
          /\ Nodes(Inserted(h, key)) = Nodes(h) \cup {key}
          /\ Inserted(h, key).size = h.size
      BY <2>1, InsertedIsPlaced
    <2>3. Inserted(h, key).frees = h.frees
      BY DEF Inserted
    <2> QED BY <1>2, <2>1, <2>2, <2>3
  <1> QED BY <1>1, <1>2 DEF Enter

LEMMA InsertGrownKeeps ==
  ASSUME HashInv, NEW key \in Key, InsertGrown(key)
  PROVE  HashInv'
  <1> USE DEF HashInv, NamesAreOwned
  <1>1. CASE ~ Crowded
    <2>1. /\ Enter(hash, key) /\ lost' = lost \ Nodes(hash')
          /\ UNCHANGED <<size, rehashed>>
      BY <1>1 DEF InsertGrown
    <2>2. /\ Placed(hash') /\ hash'.size = hash.size
          /\ hash'.frees = hash.frees
          /\ \/ /\ Nodes(hash') = Nodes(hash)
                /\ names' = names /\ known' = known
             \/ /\ Nodes(hash') = Nodes(hash) \cup {key}
                /\ names' = names \cup {key} /\ known' = known \cup {key}
      BY <2>1, EnterKeeps
    <2>3. Nodes(hash') = known' \ lost'
      BY <2>1, <2>2
    <2>4. names' \subseteq Key /\ Nodes(hash') \subseteq names'
      BY <2>2
    <2>5. ~ rehashed' => names' = Nodes(hash')
      BY <2>1, <2>2
    <2> QED BY <2>1, <2>2, <2>3, <2>4, <2>5
  <1>2. CASE Crowded
    <2>1. PICK dropped \in SUBSET Nodes(hash) :
            /\ Enter(Rehashed(hash, size * 2, dropped), key)
            /\ lost' = (lost \cup dropped) \ Nodes(hash')
      BY <1>2 DEF InsertGrown
    <2> DEFINE h == Rehashed(hash, size * 2, dropped)
    <2>2. size' = size * 2 /\ rehashed' = TRUE
      BY <1>2 DEF InsertGrown
    <2>3. size * 2 \in Nat \ {0}
      OBVIOUS
    <2>4. Nodes(hash) \ dropped \in SUBSET Key
      BY NodesAreKeys
    <2>5. Placed(h) /\ Nodes(h) = Nodes(hash) \ dropped
      BY <2>3, <2>4, FilledIsPlaced DEF Rehashed
    <2>6. h.size = size * 2
      BY DEF Rehashed, Filled
    <2> HIDE DEF h
    <2>7. Enter(h, key)
      BY <2>1 DEF h
    <2>8. /\ Placed(hash') /\ hash'.size = h.size
          /\ \/ /\ Nodes(hash') = Nodes(h)
                /\ names' = names /\ known' = known
             \/ /\ Nodes(hash') = Nodes(h) \cup {key}
                /\ names' = names \cup {key} /\ known' = known \cup {key}
      BY <2>5, <2>7, EnterKeeps
    <2>9. Nodes(hash') = known' \ lost'
      BY <2>1, <2>5, <2>8
    <2>10. names' \subseteq Key /\ Nodes(hash') \subseteq names'
      BY <2>5, <2>8
    <2>11. size' \in Nat \ {0} /\ hash'.size =< size'
      BY <2>2, <2>3, <2>6, <2>8
    <2> QED BY <2>2, <2>8, <2>9, <2>10, <2>11
  <1> QED BY <1>1, <1>2

\* What changes the table in no way.
LEMMA ReturnsKeeps ==
  ASSUME HashInv, UNCHANGED <<hash, names, known, lost, rehashed>>,
         size' \in Nat \ {0}, size =< size'
  PROVE  HashInv'
  <1>1. hash.size \in Nat /\ size \in Nat /\ hash.size =< size
    BY DEF HashInv, Placed
  <1>2. hash.size =< size'
    BY <1>1
  <1> QED BY <1>2 DEF HashInv, NamesAreOwned

LEMMA CopyFailsKeeps ==
  ASSUME HashInv, CopyFails \/ RehashFails
  PROVE  HashInv'
  <1>1. UNCHANGED <<hash, names, known, lost, rehashed>>
    BY DEF CopyFails, RehashFails, Returns
  <1>2. size' = size \/ size' = size * 2
    BY DEF CopyFails, RehashFails
  <1>3. size' \in Nat \ {0} /\ size =< size'
    BY <1>2 DEF HashInv
  <1> QED BY <1>1, <1>3, ReturnsKeeps

LEMMA ClearKeeps ==
  ASSUME HashInv, Clear PROVE HashInv'
  <1>1. /\ Placed(Removed(hash, Nodes(hash)))
        /\ Nodes(Removed(hash, Nodes(hash))) = Nodes(hash) \ Nodes(hash)
        /\ Removed(hash, Nodes(hash)).size = hash.size
    BY RemovedIsPlaced DEF HashInv
  <1>2. Removed(hash, Nodes(hash)).frees = hash.frees
    BY DEF Removed
  <1>3. /\ Placed(hash') /\ Nodes(hash') = {} /\ hash'.size = hash.size
        /\ hash'.frees = hash.frees
    BY <1>1, <1>2 DEF Clear
  <1>4. ~ rehashed' => names' = {}
    BY DEF Clear, HashInv, NamesAreOwned
  <1> QED BY <1>3, <1>4 DEF Clear, HashInv, NamesAreOwned

LEMMA RenewHashKeeps ==
  ASSUME HashInv, RenewHash PROVE HashInv'
  <1>1. ~ rehashed' => names' = {}
    BY DEF RenewHash, HashInv, NamesAreOwned
  <1> QED BY <1>1, NewHashIsPlaced, HashAssumption
          DEF RenewHash, HashInv, NamesAreOwned

LEMMA RemoveKeyKeeps ==
  ASSUME HashInv, RemoveKey PROVE HashInv'
  <1>1. PICK key \in Key :
          /\ IF Found(hash, key)
             THEN /\ hash' = Removed(hash, {key}) /\ names' = names \ {key}
             ELSE UNCHANGED <<hash, names>>
          /\ known' = known \ {key} /\ lost' = lost \ {key}
          /\ UNCHANGED <<size, rehashed>>
    BY DEF RemoveKey
  <1>2. Found(hash, key) <=> key \in Nodes(hash)
    BY FoundIsThere DEF HashInv
  <1>3. CASE Found(hash, key)
    <2>1. /\ Placed(hash') /\ Nodes(hash') = Nodes(hash) \ {key}
          /\ hash'.size = hash.size
      BY <1>1, <1>2, <1>3, RemovedIsPlaced DEF HashInv
    <2>2. hash'.frees = hash.frees
      BY <1>1, <1>3 DEF Removed
    <2> QED BY <1>1, <1>3, <2>1, <2>2 DEF HashInv, NamesAreOwned
  <1>4. CASE ~ Found(hash, key)
    BY <1>1, <1>2, <1>4 DEF HashInv, NamesAreOwned
  <1> QED BY <1>3, <1>4

LEMMA HashNextKeeps ==
  HashInv /\ [HashNext]_hashVars => HashInv'
  <1> SUFFICES ASSUME HashInv, [HashNext]_hashVars PROVE HashInv'
    OBVIOUS
  <1>1. size \in Nat \ {0} /\ size =< size
    BY DEF HashInv
  <1>2. ASSUME UNCHANGED <<hash, size, names, known, lost, rehashed>>
        PROVE  HashInv'
    BY <1>1, <1>2, ReturnsKeeps
  <1>3. CASE InsertAttr
    <2>1. PICK key \in Key :
            IF Found(hash, key) THEN Returns(0) /\ UNCHANGED size
            ELSE CopyFails \/ RehashFails \/ InsertGrown(key)
      BY <1>3 DEF InsertAttr
    <2> QED BY <1>2, <2>1, CopyFailsKeeps, InsertGrownKeeps DEF Returns
  <1>4. CASE InsertAttrval
    BY <1>4, CopyFailsKeeps, InsertGrownKeeps DEF InsertAttrval
  <1>5. CASE Clear
    BY <1>5, ClearKeeps
  <1>6. CASE RenewHash
    BY <1>6, RenewHashKeeps
  <1>7. CASE RemoveKey
    BY <1>7, RemoveKeyKeeps
  <1>8. CASE ForEachEntry
    BY <1>2, <1>8 DEF ForEachEntry, Returns
  <1>9. CASE UNCHANGED hashVars
    BY <1>2, <1>9 DEF hashVars
  <1> QED BY <1>3, <1>4, <1>5, <1>6, <1>7, <1>8, <1>9 DEF HashNext

-----------------------------------------------------------------------------
\* Through any insertions, removals, rehashes and lacks of memory, hash.c and
\* _genders_rehash() keep every entry where it is looked for, count it, and
\* have not freed its name.
THEOREM HashAlwaysHolds == HashSpec => []HashHolds
  <1>1. HashInit => HashInv
    BY HashInitInv
  <1>2. HashInv /\ [HashNext]_hashVars => HashInv'
    BY HashNextKeeps
  <1>3. HashInv => HashHolds
    BY HashInvImplies
  <1> QED BY <1>1, <1>2, <1>3, PTL DEF HashSpec

-----------------------------------------------------------------------------
(***************************************************************************)
(* Values of any length, in files of any size, are read as they were       *)
(* meant, and simple ones fit valbuf.                                      *)
(*                                                                         *)
(* Joins(w, s): w[k] is what the first k sequences of s make.  With it the *)
(* loop over the characters is between two pieces of the value, so many of *)
(* which are read and so many of which are written (AtPiece).              *)
(***************************************************************************)

(***************************************************************************)
(* Greatest elements.                                                      *)
(***************************************************************************)

\* A set of integers with an upper bound has a greatest one.
LEMMA MaxIs ==
  ASSUME NEW S \in SUBSET Int, NEW x \in S,
         NEW b \in Int, \A y \in S : y <= b
  PROVE  Ext!Max(S) \in S /\ \A y \in S : y <= Ext!Max(S)
<1> DEFINE T == {n \in Nat : b - n \in S}
<1>1. b - x \in T
  BY x <= b
<1>2. PICK n \in T : \A m \in T : n <= m
  BY <1>1, NatMin
<1>3. b - n \in S /\ n \in Nat
  BY <1>2
<1>4. ASSUME NEW y \in S PROVE y <= b - n
  <2>1. y \in Int /\ b - y \in Nat /\ b - (b - y) = y
    BY <1>4
  <2>2. b - y \in T
    BY <2>1
  <2> QED BY <1>2, <2>1, <2>2
<1>5. \E z \in S : \A y \in S : z >= y
  <2>1. \A y \in S : b - n >= y
    BY <1>4, <1>3
  <2> QED BY <1>3, <2>1
<1>6. Ext!Max(S) \in S /\ \A y \in S : Ext!Max(S) >= y
  BY <1>5 DEF Ext!Max
<1> QED
  BY <1>6

\* Finitely many naturals have an upper bound.
LEMMA BoundOf ==
  ASSUME NEW n \in Nat, NEW f, \A i \in 1 .. n : f[i] \in Nat
  PROVE  \E b \in Nat : \A i \in 1 .. n : f[i] <= b
<1> DEFINE T == {k \in Nat : k <= n =>
                   \E b \in Nat : \A i \in 1 .. k : f[i] <= b}
<1>1. 0 \in T
  OBVIOUS
<1>2. ASSUME NEW k \in Nat, k \in T PROVE k + 1 \in T
  <2> SUFFICES ASSUME k + 1 <= n
               PROVE  \E b \in Nat : \A i \in 1 .. k + 1 : f[i] <= b
    OBVIOUS
  <2>1. PICK b \in Nat : \A i \in 1 .. k : f[i] <= b
    BY <1>2
  <2>2. PICK c \in Nat : b <= c /\ f[k + 1] <= c
    <3>1. f[k + 1] \in Nat
      OBVIOUS
    <3>2. CASE f[k + 1] <= b BY <3>2
    <3>3. CASE ~ (f[k + 1] <= b)
      BY <3>1, <3>3
    <3> QED BY <3>2, <3>3
  <2>3. \A i \in 1 .. k + 1 : f[i] <= c
    <3> SUFFICES ASSUME NEW i \in 1 .. k + 1 PROVE f[i] <= c
      OBVIOUS
    <3>1. CASE i = k + 1 BY <3>1, <2>2
    <3>2. CASE i \in 1 .. k
      <4>1. f[i] \in Nat /\ f[i] <= b
        BY <3>2, <2>1
      <4> QED BY <4>1, <2>2
    <3> QED BY <3>1, <3>2
  <2> QED BY <2>3
<1> HIDE DEF T
<1>3. n \in T
  BY <1>1, <1>2, Induction
<1> QED
  BY <1>3 DEF T

\* The provers do not know of a literal that it is a STRING.
Char == STRING \cup {"x", "n", "%", "%%", "%n"}

(***************************************************************************)
(* Sequences one behind the other.                                         *)
(***************************************************************************)

\* w[k] is what the first k sequences of s make.
Joins(w, s) ==
  /\ w \in [0 .. Len(s) -> Seq(Char)]
  /\ w[0] = <<>>
  /\ \A k \in 1 .. Len(s) : w[k] = w[k - 1] \o s[k]

\* FlattenSeq() is what they all make.
LEMMA FlattenIs ==
  ASSUME NEW s \in Seq(Seq(Char))
  PROVE  \E w : Joins(w, s) /\ Ext!FlattenSeq(s) = w[Len(s)]
<1>1. CASE Len(s) = 0
  <2> DEFINE w == [k \in 0 .. Len(s) |-> <<>>]
  <2>1. s = <<>>
    BY <1>1
  <2>2. Joins(w, s)
    BY <1>1 DEF Joins
  <2>3. Ext!FlattenSeq(s) = <<>>
    BY <1>1, <2>1 DEF Ext!FlattenSeq
  <2>4. w[Len(s)] = <<>>
    BY <1>1
  <2> HIDE DEF w
  <2> QED BY <2>2, <2>3, <2>4
<1>2. CASE Len(s) # 0
  <2> DEFINE N == Len(s)
             V == Seq(Char)
             S == 1 .. N
             G == [x \in S \X [S -> V] |->
                     IF x[1] = 1 THEN s[1] ELSE (x[2])[x[1] - 1] \o s[x[1]]]
             m == [k \in S |-> k]
             Step(f) == [i \in 1 .. Len(s) |->
                           IF i = 1 THEN s[i] ELSE f[i - 1] \o s[i]]
  <2>1. N \in Nat \ {0} /\ \A i \in S : s[i] \in V
    BY <1>2
  <2>2. Recursion(S, V, N, m, G)
    <3>1. G \in [S \X [S -> V] -> V]
      <4> SUFFICES ASSUME NEW k \in S, NEW f \in [S -> V]
                   PROVE  (IF k = 1 THEN s[1] ELSE f[k - 1] \o s[k]) \in V
        OBVIOUS
      <4>1. CASE k = 1 BY <4>1, <2>1
      <4>2. CASE k # 1
        <5>1. k - 1 \in S /\ s[k] \in V
          BY <4>2, <2>1
        <5>2. f[k - 1] \in V
          BY <5>1
        <5>3. f[k - 1] \o s[k] \in V
          BY <5>1, <5>2
        <5> QED BY <4>2, <5>3
      <4> QED BY <4>1, <4>2
    <3>2. ASSUME NEW k \in S, NEW f \in [S -> V], NEW g \in [S -> V],
                 \A y \in S : m[y] < m[k] => f[y] = g[y]
          PROVE  G[<<k, f>>] = G[<<k, g>>]
      <4>1. CASE k = 1 BY <4>1
      <4>2. CASE k # 1
        <5>1. k - 1 \in S /\ m[k - 1] < m[k]
          BY <4>2, <2>1
        <5>2. f[k - 1] = g[k - 1]
          BY <5>1, <3>2
        <5> QED BY <4>2, <5>2
      <4> QED BY <4>1, <4>2
    <3>3. m \in [S -> 0 .. N] /\ V # {} /\ N \in Nat
      BY <2>1
    <3> HIDE DEF G, m, V, S, N
    <3> QED BY <3>1, <3>2, <3>3 DEF Recursion
  <2>3. PICK f \in [S -> V] : \A x \in S : f[x] = G[<<x, f>>]
    <3> HIDE DEF G, m, V, S, N
    <3> QED BY <2>2, RecursionExists
  <2>4. f = Step(f)
    <3>1. \A x \in S : f[x] = IF x = 1 THEN s[x] ELSE f[x - 1] \o s[x]
      BY <2>3
    <3> QED BY <3>1
  <2>5. PICK g : g = Step(g) /\ Ext!FlattenSeq(s) = g[N]
    <3> DEFINE g == CHOOSE g : g = Step(g)
    <3>1. g = Step(g)
      <4> HIDE DEF Step
      <4> QED BY <2>4
    <3>2. Ext!FlattenSeq(s) = g[N]
      BY <1>2 DEF Ext!FlattenSeq
    <3> HIDE DEF g
    <3> QED BY <3>1, <3>2
  <2>6. \A i \in S : g[i] = IF i = 1 THEN s[i] ELSE g[i - 1] \o s[i]
    BY <2>5
  <2> DEFINE T == {k \in Nat : k + 1 <= N => g[k + 1] \in V}
  <2>7. 0 \in T
    <3>1. g[1] = s[1]
      BY <2>6, <2>1
    <3> QED BY <3>1, <2>1
  <2>8. ASSUME NEW k \in Nat, k \in T PROVE k + 1 \in T
    <3> SUFFICES ASSUME k + 2 <= N PROVE g[k + 2] \in V
      OBVIOUS
    <3>1. k + 2 \in S /\ k + 2 # 1 /\ (k + 2) - 1 = k + 1 /\ k + 1 <= N
      BY <2>1
    <3>2. g[k + 2] = g[(k + 2) - 1] \o s[k + 2]
      BY <2>6, <3>1
    <3>3. g[k + 1] \in V /\ s[k + 2] \in V
      BY <2>8, <3>1, <2>1
    <3> QED BY <3>1, <3>2, <3>3
  <2> HIDE DEF T
  <2>9. \A i \in S : g[i] \in V
    <3> TAKE i \in S
    <3>1. Nat \subseteq T
      BY <2>7, <2>8, Induction
    <3>2. i - 1 \in Nat /\ (i - 1) + 1 = i /\ i <= N
      BY <2>1
    <3> QED BY <3>1, <3>2 DEF T
  <2> DEFINE w == [k \in 0 .. Len(s) |-> IF k = 0 THEN <<>> ELSE g[k]]
  <2>10. Joins(w, s)
    <3>1. w \in [0 .. Len(s) -> Seq(Char)]
      <4>1. ASSUME NEW k \in 0 .. Len(s)
            PROVE  (IF k = 0 THEN <<>> ELSE g[k]) \in Seq(Char)
        <5>1. CASE k = 0 BY <5>1
        <5>2. CASE k # 0
          <6>1. k \in S
            BY <5>2
          <6>2. g[k] \in V
            BY <6>1, <2>9
          <6> QED BY <5>2, <6>2
        <5> QED BY <5>1, <5>2
      <4> QED BY <4>1
    <3>2. ASSUME NEW k \in 1 .. Len(s) PROVE w[k] = w[k - 1] \o s[k]
      <4>1. CASE k = 1
        <5>1. w[k] = s[1] /\ w[k - 1] = <<>>
          BY <4>1, <2>6, <2>1
        <5>2. <<>> \o s[1] = s[1]
          BY <2>1
        <5> QED BY <4>1, <5>1, <5>2
      <4>2. CASE k # 1
        <5>1. w[k] = g[k] /\ w[k - 1] = g[k - 1]
          BY <4>2
        <5> QED BY <4>2, <5>1, <2>6
      <4> QED BY <4>1, <4>2
    <3>3. w[0] = <<>>
      OBVIOUS
    <3> HIDE DEF w
    <3> QED BY <3>1, <3>2, <3>3 DEF Joins
  <2>11. w[Len(s)] = g[N]
    BY <1>2
  <2> HIDE DEF w
  <2> QED BY <2>5, <2>10, <2>11
<1> QED
  BY <1>1, <1>2

\* What two sequences make.
LEMMA ConcatAt ==
  ASSUME NEW u \in Seq(Char), NEW v \in Seq(Char)
  PROVE  /\ u \o v \in Seq(Char)
         /\ Len(u) \in Nat /\ Len(v) \in Nat
         /\ Len(u \o v) = Len(u) + Len(v)
         /\ \A j \in 1 .. Len(u) : (u \o v)[j] = u[j]
         /\ \A j \in 1 .. Len(v) : (u \o v)[Len(u) + j] = v[j]
<1>1. ASSUME NEW j \in 1 .. Len(v) PROVE (u \o v)[Len(u) + j] = v[j]
  OBVIOUS
<1> QED
  BY <1>1

\* What is joined are sequences, and one is added at a time.
LEMMA JoinsSeq ==
  ASSUME NEW s \in Seq(Seq(Char)), NEW w, Joins(w, s)
  PROVE  /\ \A i \in 0 .. Len(s) : w[i] \in Seq(Char) /\ Len(w[i]) \in Nat
         /\ \A i \in 1 .. Len(s) :
              /\ s[i] \in Seq(Char) /\ Len(s[i]) \in Nat
              /\ i - 1 \in 0 .. Len(s) /\ i \in 0 .. Len(s)
              /\ w[i] = w[i - 1] \o s[i]
              /\ Len(w[i]) = Len(w[i - 1]) + Len(s[i])
<1>1. \A i \in 0 .. Len(s) : w[i] \in Seq(Char)
  BY DEF Joins
<1>2. \A i \in 1 .. Len(s) : s[i] \in Seq(Char)
  OBVIOUS
<1>3. \A i \in 0 .. Len(s) : Len(w[i]) \in Nat
  BY <1>1
<1>4. ASSUME NEW i \in 1 .. Len(s)
      PROVE  /\ s[i] \in Seq(Char) /\ Len(s[i]) \in Nat
             /\ i - 1 \in 0 .. Len(s) /\ i \in 0 .. Len(s)
             /\ w[i] = w[i - 1] \o s[i]
             /\ Len(w[i]) = Len(w[i - 1]) + Len(s[i])
  <2>1. i - 1 \in 0 .. Len(s) /\ i \in 0 .. Len(s)
    OBVIOUS
  <2>2. w[i] = w[i - 1] \o s[i]
    BY DEF Joins
  <2>3. w[i - 1] \in Seq(Char) /\ s[i] \in Seq(Char)
    BY <1>1, <1>2, <2>1
  <2>4. Len(w[i]) = Len(w[i - 1]) + Len(s[i]) /\ Len(s[i]) \in Nat
    BY <2>2, <2>3, ConcatAt
  <2> QED BY <2>1, <2>2, <2>3, <2>4
<1> QED
  BY <1>1, <1>3, <1>4

\* What comes first is not changed by what follows.
LEMMA JoinsGrow ==
  ASSUME NEW s \in Seq(Seq(Char)), NEW w, Joins(w, s),
         NEW k \in 0 .. Len(s), NEW n \in k .. Len(s)
  PROVE  /\ Len(w[k]) <= Len(w[n])
         /\ \A j \in 1 .. Len(w[k]) : w[n][j] = w[k][j]
<1> DEFINE T == {d \in Nat : k + d <= Len(s) =>
                   /\ Len(w[k]) <= Len(w[k + d])
                   /\ \A j \in 1 .. Len(w[k]) : w[k + d][j] = w[k][j]}
<1>0. \A i \in 0 .. Len(s) : w[i] \in Seq(Char) /\ Len(w[i]) \in Nat
  BY JoinsSeq
<1>1. 0 \in T
  <2>1. k + 0 = k OBVIOUS
  <2> QED BY <1>0, <2>1
<1>2. ASSUME NEW d \in Nat, d \in T PROVE d + 1 \in T
  <2> SUFFICES ASSUME k + (d + 1) <= Len(s)
               PROVE  /\ Len(w[k]) <= Len(w[k + (d + 1)])
                      /\ \A j \in 1 .. Len(w[k]) :
                           w[k + (d + 1)][j] = w[k][j]
    OBVIOUS
  <2>1. PICK i \in 0 .. Len(s) : i = k + d /\ i + 1 = k + (d + 1)
                                  /\ i + 1 \in 1 .. Len(s)
    OBVIOUS
  <2>2. Len(w[k]) <= Len(w[i])
        /\ \A j \in 1 .. Len(w[k]) : w[i][j] = w[k][j]
    BY <1>2, <2>1
  <2>3. PICK n1 \in 1 .. Len(s) : n1 = i + 1 /\ n1 - 1 = i
    BY <2>1
  <2>4. w[n1] = w[i] \o s[n1] /\ s[n1] \in Seq(Char)
        /\ w[i] \in Seq(Char)
    <3>1. w[n1] = w[n1 - 1] \o s[n1]
      BY DEF Joins
    <3>2. s[n1] \in Seq(Char)
      OBVIOUS
    <3> QED BY ONLY <3>1, <3>2, <2>3, <1>0
  <2>5. Len(w[i + 1]) = Len(w[i]) + Len(s[n1])
        /\ \A j \in 1 .. Len(w[i]) : w[i + 1][j] = w[i][j]
    <3> DEFINE u == w[i]
               v == s[n1]
    <3>1. u \in Seq(Char) /\ v \in Seq(Char) /\ w[i + 1] = u \o v
      BY <2>3, <2>4
    <3> HIDE DEF u, v
    <3>2. Len(w[i + 1]) = Len(u) + Len(v)
          /\ \A j \in 1 .. Len(u) : w[i + 1][j] = u[j]
      BY <3>1, ConcatAt
    <3> QED BY <3>2 DEF u, v
  <2>6. Len(s[n1]) \in Nat /\ Len(w[i]) \in Nat /\ Len(w[k]) \in Nat
    BY ONLY <2>4, <1>0
  <2>7. Len(w[k]) <= Len(w[i + 1])
    <3>1. PICK x, y, z, t : x = Len(w[k]) /\ y = Len(w[i])
                             /\ z = Len(w[i + 1]) /\ t = Len(s[n1])
      OBVIOUS
    <3>2. x \in Nat /\ y \in Nat /\ t \in Nat /\ x <= y /\ z = y + t
      BY ONLY <2>2, <2>5, <2>6, <3>1
    <3>3. x <= z
      BY ONLY <3>2
    <3> QED BY <3>1, <3>3
  <2>8. \A j \in 1 .. Len(w[k]) : w[i + 1][j] = w[k][j]
    <3> TAKE j \in 1 .. Len(w[k])
    <3>1. j \in 1 .. Len(w[i])
      BY ONLY <2>2, <2>6
    <3> QED BY <3>1, <2>2, <2>5
  <2> QED BY <2>1, <2>7, <2>8
<1> HIDE DEF T
<1>3. Nat \subseteq T
  BY <1>1, <1>2, Induction
<1>4. n - k \in Nat /\ k + (n - k) = n /\ n <= Len(s)
  OBVIOUS
<1> QED
  BY <1>3, <1>4 DEF T

\* Each sequence is where it comes in the result.
LEMMA JoinsAt ==
  ASSUME NEW s \in Seq(Seq(Char)), NEW w, Joins(w, s),
         NEW k \in 1 .. Len(s), NEW j \in 1 .. Len(s[k])
  PROVE  /\ Len(w[k - 1]) + j \in 1 .. Len(w[Len(s)])
         /\ w[Len(s)][Len(w[k - 1]) + j] = s[k][j]
<1>1. k - 1 \in 0 .. Len(s) /\ k \in 0 .. Len(s) /\ Len(s) \in k .. Len(s)
      /\ Len(s) \in 0 .. Len(s)
  OBVIOUS
<1>2. w[k - 1] \in Seq(Char) /\ Len(w[k - 1]) \in Nat
      /\ s[k] \in Seq(Char) /\ Len(s[k]) \in Nat
      /\ Len(w[k]) = Len(w[k - 1]) + Len(s[k])
      /\ Len(w[k]) \in Nat /\ Len(w[Len(s)]) \in Nat
  BY <1>1, JoinsSeq
<1>3. w[k] = w[k - 1] \o s[k]
  BY JoinsSeq
<1>4. PICK p : p = Len(w[k - 1]) + j
  OBVIOUS
<1>5. p \in 1 .. Len(w[k]) /\ w[k][p] = s[k][j]
  <2> DEFINE u == w[k - 1]
             v == s[k]
  <2>0. u \in Seq(Char) /\ v \in Seq(Char) /\ w[k] = u \o v
        /\ j \in 1 .. Len(v)
    BY <1>2, <1>3
  <2>1. p \in 1 .. Len(w[k])
    <3>1. PICK x, y, z : x = Len(w[k - 1]) /\ y = Len(s[k])
                         /\ z = Len(w[k])
      OBVIOUS
    <3>2. x \in Nat /\ y \in Nat /\ z = x + y /\ p = x + j
          /\ j \in 1 .. y
      BY ONLY <1>2, <1>4, <3>1, <2>0 DEF v
    <3>3. p \in 1 .. z
      BY ONLY <3>2
    <3> QED BY <3>1, <3>3
  <2>2. w[k][Len(w[k - 1]) + j] = s[k][j]
    <3>1. p = Len(u) + j
      BY <1>4
    <3> HIDE DEF u, v
    <3>2. w[k][p] = v[j]
      BY <2>0, <3>1, ConcatAt
    <3> QED BY <3>2, <1>4 DEF v
  <2> QED BY <2>1, <2>2, <1>4
<1>6. Len(w[k]) <= Len(w[Len(s)])
      /\ \A i \in 1 .. Len(w[k]) : w[Len(s)][i] = w[k][i]
  BY <1>1, JoinsGrow
<1>7. p \in 1 .. Len(w[Len(s)])
  <2>1. PICK x, y : x = Len(w[k]) /\ y = Len(w[Len(s)])
    OBVIOUS
  <2>2. x \in Nat /\ y \in Nat /\ x <= y /\ p \in 1 .. x
    BY ONLY <1>2, <1>5, <1>6, <2>1
  <2>3. p \in 1 .. y
    BY ONLY <2>2
  <2> QED BY <2>1, <2>3
<1> QED
  BY <1>4, <1>5, <1>6, <1>7

\* Each place of the result is one of a sequence.
PlaceIn(p, w, s, k) == \E j \in 1 .. Len(s[k]) : p = Len(w[k - 1]) + j

LEMMA JoinsCover ==
  ASSUME NEW s \in Seq(Seq(Char)), NEW w, Joins(w, s),
         NEW p \in 1 .. Len(w[Len(s)])
  PROVE  \E k \in 1 .. Len(s) : PlaceIn(p, w, s, k)
<1> DEFINE R(q) == \E k \in 1 .. Len(s) : PlaceIn(q, w, s, k)
           T == {n \in Nat : n <= Len(s) => \A q \in 1 .. Len(w[n]) : R(q)}
<1>1. 0 \in T
  <2>1. w[0] = <<>>
    BY DEF Joins
  <2>2. 1 .. Len(w[0]) = {}
    BY <2>1
  <2> QED BY <2>2
<1>2. ASSUME NEW n \in Nat, n \in T PROVE n + 1 \in T
  <2> SUFFICES ASSUME n + 1 <= Len(s), NEW q \in 1 .. Len(w[n + 1])
               PROVE  R(q)
    OBVIOUS
  <2>1. PICK k \in 1 .. Len(s) : k = n + 1 /\ k - 1 = n
    OBVIOUS
  <2>2. Len(w[k]) = Len(w[k - 1]) + Len(s[k])
        /\ Len(w[k - 1]) \in Nat /\ Len(s[k]) \in Nat
    BY <2>1, JoinsSeq
  <2>3. CASE q \in 1 .. Len(w[n])
    <3>1. n <= Len(s)
      BY <2>1
    <3>2. \A r \in 1 .. Len(w[n]) : R(r)
      <4> HIDE DEF R
      <4> QED BY <1>2, <3>1
    <3> QED BY <3>2, <2>3
  <2>4. CASE ~ (q \in 1 .. Len(w[n]))
    <3>0. q \in 1 .. Len(w[k]) /\ ~ (q \in 1 .. Len(w[k - 1]))
      BY <2>1, <2>4
    <3>1. PICK j : j = q - Len(w[k - 1])
      OBVIOUS
    <3>2. j \in 1 .. Len(s[k]) /\ q = Len(w[k - 1]) + j
      <4>1. PICK x, y, z : x = Len(w[k - 1]) /\ y = Len(s[k])
                           /\ z = Len(w[k])
        OBVIOUS
      <4>2. x \in Nat /\ y \in Nat /\ z = x + y /\ q \in 1 .. z
            /\ ~ (q \in 1 .. x) /\ j = q - x
        BY ONLY <2>2, <3>0, <3>1, <4>1
      <4>3. j \in 1 .. y /\ q = x + j
        BY ONLY <4>2
      <4> QED BY <4>1, <4>3
    <3> QED BY <3>2 DEF PlaceIn
  <2> QED BY <2>3, <2>4
<1> HIDE DEF T
<1>3. Nat \subseteq T
  BY <1>1, <1>2, Induction
<1>4. Len(s) \in Nat
  OBVIOUS
<1> QED
  BY <1>3, <1>4 DEF T

(***************************************************************************)
(* The pieces of a value, as they are spelt and as they are meant.         *)
(***************************************************************************)
Spelling(v) == [i \in 1 .. Len(v) |-> Characters(v[i])]
Readings(v, n) == [i \in 1 .. Len(v) |-> Means(v[i], n)]

Spelt(w, v) == Joins(w, Spelling(v)) /\ Written(v) = w[Len(v)]
Meant(m, v, n) == Joins(m, Readings(v, n)) /\ Meaning(v, n) = m[Len(v)]

\* How pieces are spelt.
LEMMA CharactersAre ==
  ASSUME NEW p \in Piece
  PROVE  /\ p \in Char /\ Characters(p) \in Seq(Char)
         /\ p = "%%" => Characters(p) = <<"%", "%">>
         /\ p = "%n" => Characters(p) = <<"%", "n">>
         /\ p \in {"x", "n", "%"} => Characters(p) = <<p>>
         /\ p \in {"x", "n", "%", "%%", "%n"}
<1>1. p \in {"x", "n", "%", "%%", "%n"}
  BY FileAssumption
<1>2. p \in Char /\ "%" \in Char /\ "n" \in Char
  BY <1>1 DEF Char
<1>3. p = "%%" => Characters(p) = <<"%", "%">>
  BY DEF Characters
<1>4. p = "%n" => Characters(p) = <<"%", "n">>
  BY DEF Characters
<1>5. p \in {"x", "n", "%"} => Characters(p) = <<p>>
  BY DEF Characters
<1>6. <<"%", "%">> \in Seq(Char) /\ <<"%", "n">> \in Seq(Char)
      /\ <<p>> \in Seq(Char)
  BY <1>2
<1> QED
  BY <1>1, <1>2, <1>3, <1>4, <1>5, <1>6

\* A value is spelt, and meant, piece by piece.
LEMMA ValueIs ==
  ASSUME NEW v \in Value, NEW n \in Seq(Char)
  PROVE  /\ Spelling(v) \in Seq(Seq(Char)) /\ Len(Spelling(v)) = Len(v)
         /\ Readings(v, n) \in Seq(Seq(Char))
         /\ Len(Readings(v, n)) = Len(v)
         /\ Len(v) \in Nat /\ \A i \in 1 .. Len(v) : v[i] \in Piece
<1>1. Len(v) \in Nat /\ \A i \in 1 .. Len(v) : v[i] \in Piece
  BY DEF Value
<1>2. \A i \in 1 .. Len(v) : Characters(v[i]) \in Seq(Char)
  BY <1>1, CharactersAre
<1>3. Spelling(v) \in Seq(Seq(Char)) /\ Len(Spelling(v)) = Len(v)
  BY <1>1, <1>2 DEF Spelling
<1>4. ASSUME NEW i \in 1 .. Len(v) PROVE Means(v[i], n) \in Seq(Char)
  <2>1. v[i] \in Char
    BY <1>1, CharactersAre
  <2>2. "%" \in Char
    BY DEF Char
  <2>3. <<v[i]>> \in Seq(Char) /\ <<"%">> \in Seq(Char)
    BY <2>1, <2>2
  <2> QED BY <2>3 DEF Means
<1>5. Readings(v, n) \in Seq(Seq(Char)) /\ Len(Readings(v, n)) = Len(v)
  BY <1>1, <1>4 DEF Readings
<1> QED
  BY <1>1, <1>3, <1>5

LEMMA SpeltExists ==
  ASSUME NEW v \in Value
  PROVE  \E w : Spelt(w, v)
<1>1. <<>> \in Seq(Char)
  OBVIOUS
<1>2. Spelling(v) \in Seq(Seq(Char)) /\ Len(Spelling(v)) = Len(v)
  BY <1>1, ValueIs
<1>3. PICK w : Joins(w, Spelling(v))
               /\ Ext!FlattenSeq(Spelling(v)) = w[Len(Spelling(v))]
  BY <1>2, FlattenIs
<1>4. Written(v) = Ext!FlattenSeq(Spelling(v))
  BY DEF Written, Spelling
<1> QED
  BY <1>2, <1>3, <1>4 DEF Spelt

LEMMA MeantExists ==
  ASSUME NEW v \in Value, NEW n \in Seq(Char)
  PROVE  \E m : Meant(m, v, n)
<1>2. Readings(v, n) \in Seq(Seq(Char)) /\ Len(Readings(v, n)) = Len(v)
  BY ValueIs
<1>3. PICK m : Joins(m, Readings(v, n))
               /\ Ext!FlattenSeq(Readings(v, n)) = m[Len(Readings(v, n))]
  BY <1>2, FlattenIs
<1>4. Meaning(v, n) = Ext!FlattenSeq(Readings(v, n))
  BY DEF Meaning, Readings
<1> QED
  BY <1>2, <1>3, <1>4 DEF Meant

\* One piece more, in characters and as it is meant.
LEMMA SpeltSteps ==
  ASSUME NEW v \in Value, NEW w, Spelt(w, v)
  PROVE  /\ w[0] = <<>> /\ Written(v) = w[Len(v)]
         /\ \A k \in 0 .. Len(v) :
              w[k] \in Seq(Char) /\ Len(w[k]) \in Nat
              /\ Len(w[k]) <= Len(Written(v))
         /\ \A k \in 1 .. Len(v) :
              /\ k - 1 \in 0 .. Len(v) /\ k \in 0 .. Len(v)
              /\ w[k] = w[k - 1] \o Characters(v[k])
              /\ Len(w[k]) = Len(w[k - 1]) + Len(Characters(v[k]))
<1> DEFINE s == Spelling(v)
<1>0. <<>> \in Seq(Char)
  OBVIOUS
<1>1. s \in Seq(Seq(Char)) /\ Len(s) = Len(v) /\ Len(v) \in Nat
  BY <1>0, ValueIs
<1>2. \A k \in 1 .. Len(v) : s[k] = Characters(v[k])
  BY DEF Spelling
<1>3. Joins(w, s) /\ Written(v) = w[Len(v)]
  BY DEF Spelt
<1> HIDE DEF s
<1>4. w[0] = <<>>
  BY <1>3 DEF Joins
<1>5. \A k \in 0 .. Len(v) :
        w[k] \in Seq(Char) /\ Len(w[k]) \in Nat
        /\ Len(w[k]) <= Len(Written(v))
  <2> TAKE k \in 0 .. Len(v)
  <2>1. w[k] \in Seq(Char) /\ Len(w[k]) \in Nat
    BY <1>1, <1>3, JoinsSeq
  <2>2. Len(s) \in k .. Len(s) /\ k \in 0 .. Len(s)
    BY <1>1
  <2>3. Len(w[k]) <= Len(w[Len(s)])
    BY <1>1, <1>3, <2>2, JoinsGrow
  <2> QED BY <2>1, <2>3, <1>1, <1>3
<1>6. \A k \in 1 .. Len(v) :
        /\ k - 1 \in 0 .. Len(v) /\ k \in 0 .. Len(v)
        /\ w[k] = w[k - 1] \o Characters(v[k])
        /\ Len(w[k]) = Len(w[k - 1]) + Len(Characters(v[k]))
  <2> TAKE k \in 1 .. Len(v)
  <2>1. k \in 1 .. Len(s) /\ w[k] = w[k - 1] \o s[k]
    BY <1>1, <1>3 DEF Joins
  <2>2. /\ k - 1 \in 0 .. Len(s) /\ k \in 0 .. Len(s)
        /\ Len(w[k]) = Len(w[k - 1]) + Len(s[k])
    BY ONLY <1>1, <1>3, <2>1, JoinsSeq
  <2> QED BY <2>1, <2>2, <1>1, <1>2
<1> QED
  BY <1>3, <1>4, <1>5, <1>6

LEMMA MeantSteps ==
  ASSUME NEW v \in Value, NEW n \in Seq(Char), NEW m, Meant(m, v, n)
  PROVE  /\ m[0] = <<>> /\ Meaning(v, n) = m[Len(v)]
         /\ \A k \in 0 .. Len(v) : m[k] \in Seq(Char) /\ Len(m[k]) \in Nat
         /\ \A k \in 1 .. Len(v) :
              /\ m[k] = m[k - 1] \o Means(v[k], n)
              /\ Len(m[k]) = Len(m[k - 1]) + Len(Means(v[k], n))
<1> DEFINE s == Readings(v, n)
<1>1. s \in Seq(Seq(Char)) /\ Len(s) = Len(v) /\ Len(v) \in Nat
  BY ValueIs
<1>2. \A k \in 1 .. Len(v) : s[k] = Means(v[k], n)
  BY DEF Readings
<1>3. Joins(m, s) /\ Meaning(v, n) = m[Len(v)]
  BY DEF Meant
<1> HIDE DEF s
<1>4. m[0] = <<>>
  BY <1>3 DEF Joins
<1>5. \A k \in 0 .. Len(v) : m[k] \in Seq(Char) /\ Len(m[k]) \in Nat
  BY <1>1, <1>3, JoinsSeq
<1>6. \A k \in 1 .. Len(v) :
        /\ m[k] = m[k - 1] \o Means(v[k], n)
        /\ Len(m[k]) = Len(m[k - 1]) + Len(Means(v[k], n))
  <2> TAKE k \in 1 .. Len(v)
  <2>1. k \in 1 .. Len(s) /\ m[k] = m[k - 1] \o s[k]
    BY <1>1, <1>3 DEF Joins
  <2>2. Len(m[k]) = Len(m[k - 1]) + Len(s[k])
    BY ONLY <1>1, <1>3, <2>1, JoinsSeq
  <2> QED BY <2>1, <2>2, <1>2
<1> QED
  BY <1>3, <1>4, <1>5, <1>6

\* The characters at which a piece begins, and how long it is.
PieceAt(v, w, k, q) ==
  /\ q \in Nat /\ Len(Written(v)) \in Nat /\ q < Len(Written(v))
  /\ v[k] = "%%" => /\ Written(v)[q + 1] = "%"
                    /\ Written(v)[q + 2] = "%"
                    /\ q + 2 <= Len(Written(v))
                    /\ Len(w[k]) = q + 2
  /\ v[k] = "%n" => /\ Written(v)[q + 1] = "%"
                    /\ Written(v)[q + 2] = "n"
                    /\ q + 2 <= Len(Written(v))
                    /\ Len(w[k]) = q + 2
  /\ v[k] \in {"x", "n", "%"} => /\ Written(v)[q + 1] = v[k]
                                 /\ Len(w[k]) = q + 1

LEMMA CharsAt ==
  ASSUME NEW v \in Value, NEW w, Spelt(w, v), NEW k \in 1 .. Len(v),
         NEW q, q = Len(w[k - 1])
  PROVE  PieceAt(v, w, k, q)
<1> DEFINE s == Spelling(v)
<1>0. <<>> \in Seq(Char)
  OBVIOUS
<1>1. s \in Seq(Seq(Char)) /\ Len(s) = Len(v) /\ Len(v) \in Nat
      /\ v[k] \in Piece
  BY <1>0, ValueIs
<1>2. s[k] = Characters(v[k])
  BY DEF Spelling
<1>3. Joins(w, s) /\ Written(v) = w[Len(v)]
  BY DEF Spelt
<1> HIDE DEF s
<1>4. q \in Nat /\ Len(Written(v)) \in Nat
  <2>1. k - 1 \in 0 .. Len(v) /\ Len(v) \in 0 .. Len(v)
    BY <1>1
  <2> QED BY <2>1, <1>3, SpeltSteps
<1>5. Len(w[k]) = q + Len(s[k])
  BY <1>1, <1>3, JoinsSeq
<1>6. ASSUME NEW j \in 1 .. Len(s[k])
      PROVE  q + j <= Len(Written(v)) /\ Written(v)[q + j] = s[k][j]
  <2>1. /\ q + j \in 1 .. Len(w[Len(s)])
        /\ w[Len(s)][q + j] = s[k][j]
    BY <1>1, <1>3, <1>6, JoinsAt, SMTT(30)
  <2> QED BY <2>1, <1>1, <1>3
<1> USE DEF PieceAt
<1>7. CASE v[k] \in {"%%", "%n"}
  <2>1. Len(s[k]) = 2 /\ s[k][1] = "%"
        /\ s[k][2] = IF v[k] = "%%" THEN "%" ELSE "n"
    BY <1>1, <1>2, <1>7, CharactersAre
  <2>2. 1 \in 1 .. Len(s[k]) /\ 2 \in 1 .. Len(s[k])
    BY <2>1
  <2>3. Written(v)[q + 1] = s[k][1] /\ Written(v)[q + 2] = s[k][2]
        /\ q + 2 <= Len(Written(v))
    BY <2>2, <1>6
  <2>4. q < Len(Written(v))
    BY <1>4, <2>3
  <2> QED BY <1>4, <1>5, <1>7, <2>1, <2>3, <2>4
<1>8. CASE v[k] \in {"x", "n", "%"}
  <2>1. Len(s[k]) = 1 /\ s[k][1] = v[k]
    BY <1>1, <1>2, <1>8, CharactersAre
  <2>2. 1 \in 1 .. Len(s[k])
    BY <2>1
  <2>3. Written(v)[q + 1] = s[k][1] /\ q + 1 <= Len(Written(v))
    BY <2>2, <1>6
  <2>4. q < Len(Written(v))
    BY <1>4, <2>3
  <2> QED BY <1>4, <1>5, <1>8, <2>1, <2>3, <2>4
<1> QED
  BY <1>1, <1>7, <1>8, CharactersAre

(***************************************************************************)
(* What strstr() finds in a value.                                         *)
(***************************************************************************)
LEMMA HoldsTwo ==
  ASSUME NEW c \in Seq(Char), NEW a, NEW b
  PROVE  Holds(c, <<a, b>>) <=>
           \E i \in 0 .. Len(c) - 2 : c[i + 1] = a /\ c[i + 2] = b
<1>1. ASSUME NEW i \in 0 .. Len(c) - 2
      PROVE  SubSeq(c, i + 1, i + 2) = <<a, b>>
               <=> c[i + 1] = a /\ c[i + 2] = b
  <2> DEFINE u == SubSeq(c, i + 1, i + 2)
  <2>1. u \in Seq(Char) /\ Len(u) = 2
    OBVIOUS
  <2>2. u[1] = c[i + 1] /\ u[2] = c[i + 2]
    OBVIOUS
  <2> HIDE DEF u
  <2>3. u = <<a, b>> <=> u[1] = a /\ u[2] = b
    BY <2>1
  <2> QED BY <2>2, <2>3 DEF u
<1>2. Len(<<a, b>>) = 2
  OBVIOUS
<1> QED
  BY <1>1, <1>2 DEF Holds

LEMMA HoldsThree ==
  ASSUME NEW c \in Seq(Char), NEW a, NEW b, NEW d,
         NEW i \in 0 .. Len(c) - 3,
         c[i + 1] = a, c[i + 2] = b, c[i + 3] = d
  PROVE  Holds(c, <<a, b, d>>)
<1> DEFINE u == SubSeq(c, i + 1, i + 3)
<1>1. u \in Seq(Char) /\ Len(u) = 3
  OBVIOUS
<1>2. u[1] = c[i + 1] /\ u[2] = c[i + 2] /\ u[3] = c[i + 3]
  OBVIOUS
<1> HIDE DEF u
<1>3. u = <<a, b, d>>
  BY <1>1, <1>2
<1>4. Len(<<a, b, d>>) = 3
  OBVIOUS
<1> QED
  BY <1>3, <1>4 DEF u, Holds

LEMMA WrittenIs ==
  ASSUME NEW v \in Value
  PROVE  Written(v) \in Seq(Char) /\ Len(Written(v)) \in Nat
         /\ Len(v) \in Nat /\ \A k \in 1 .. Len(v) : v[k] \in Piece
<1>0. <<>> \in Seq(Char)
  OBVIOUS
<1>1. Len(v) \in Nat /\ \A k \in 1 .. Len(v) : v[k] \in Piece
  BY <1>0, ValueIs
<1>2. PICK w : Spelt(w, v)
  BY SpeltExists
<1>3. Len(v) \in 0 .. Len(v)
  BY <1>1
<1> QED
  BY <1>1, <1>2, <1>3, SpeltSteps

\* A piece to be replaced is found.
LEMMA PiecesAreFound ==
  ASSUME NEW v \in Value, NEW k \in 1 .. Len(v)
  PROVE  /\ v[k] = "%n" => Holds(Written(v), <<"%", "n">>)
         /\ v[k] = "%%" => Holds(Written(v), <<"%", "%">>)
<1>1. PICK w : Spelt(w, v)
  BY SpeltExists
<1>2. PICK q : q = Len(w[k - 1])
  OBVIOUS
<1>3. /\ q \in Nat /\ Len(Written(v)) \in Nat
      /\ v[k] = "%%" => /\ Written(v)[q + 1] = "%"
                        /\ Written(v)[q + 2] = "%"
                        /\ q + 2 <= Len(Written(v))
      /\ v[k] = "%n" => /\ Written(v)[q + 1] = "%"
                        /\ Written(v)[q + 2] = "n"
                        /\ q + 2 <= Len(Written(v))
  BY <1>1, <1>2, CharsAt, SMTT(30) DEF PieceAt
<1>4. Written(v) \in Seq(Char)
  BY WrittenIs
<1>5. q + 2 <= Len(Written(v)) => q \in 0 .. Len(Written(v)) - 2
  BY <1>3
<1> QED
  BY <1>3, <1>4, <1>5, HoldsTwo

\* Where nothing is found, nothing is meant but what is written.
LEMMA AsWritten ==
  ASSUME NEW v \in Value, NEW n \in Seq(Char),
         ~ ValContainsSubst(Written(v))
  PROVE  Meaning(v, n) = Written(v)
<1>1. \A k \in 1 .. Len(v) : v[k] \in {"x", "n", "%"}
  <2> TAKE k \in 1 .. Len(v)
  <2>1. v[k] # "%n" /\ v[k] # "%%"
    BY PiecesAreFound DEF ValContainsSubst
  <2>2. v[k] \in Piece
    BY WrittenIs
  <2> QED BY <2>1, <2>2, CharactersAre
<1>2. \A k \in 1 .. Len(v) : Characters(v[k]) = Means(v[k], n)
  BY <1>1 DEF Characters, Means
<1>3. [i \in 1 .. Len(v) |-> Characters(v[i])]
        = [i \in 1 .. Len(v) |-> Means(v[i], n)]
  BY <1>2
<1> QED
  BY <1>3 DEF Written, Meaning

\* A name that _parse_line() expects in a value is meant by it.
LEMMA NamesAreMeant ==
  ASSUME NEW v \in Value, Unambiguous(v), NodeSubst(Written(v))
  PROVE  \E k \in 1 .. Len(v) : v[k] = "%n"
<1> SUFFICES ASSUME \A k \in 1 .. Len(v) : v[k] # "%n"
             PROVE  Holds(Written(v), <<"%", "%", "n">>)
  BY DEF NodeSubst
<1>1. PICK w : Spelt(w, v)
  BY SpeltExists
<1> DEFINE s == Spelling(v)
           c == Written(v)
<1>2. c \in Seq(Char) /\ Len(c) \in Nat /\ Len(v) \in Nat
      /\ \A k \in 1 .. Len(v) : v[k] \in Piece
  BY WrittenIs
<1>3. s \in Seq(Seq(Char)) /\ Len(s) = Len(v) /\ Joins(w, s)
      /\ c = w[Len(s)] /\ \A k \in 1 .. Len(v) : s[k] = Characters(v[k])
  <2>1. <<>> \in Seq(Char)
    OBVIOUS
  <2>2. s \in Seq(Seq(Char)) /\ Len(s) = Len(v)
    BY <2>1, ValueIs
  <2> QED BY <1>1, <2>2 DEF Spelt, Spelling
<1>4. PICK i \in 0 .. Len(c) - 2 : c[i + 1] = "%" /\ c[i + 2] = "n"
  BY <1>2, HoldsTwo DEF NodeSubst
<1>5. i + 1 \in 1 .. Len(w[Len(s)])
  BY <1>2, <1>3
<1> HIDE DEF s, c
<1>6. PICK k \in 1 .. Len(s) : PlaceIn(i + 1, w, s, k)
  BY <1>3, <1>5, JoinsCover
<1>7. PICK j \in 1 .. Len(s[k]) : i + 1 = Len(w[k - 1]) + j
  BY <1>6 DEF PlaceIn
<1>8. PICK q : q = Len(w[k - 1])
  OBVIOUS
<1>9. k \in 1 .. Len(v) /\ v[k] \in Piece /\ v[k] # "%n"
      /\ s[k] = Characters(v[k])
  BY <1>2, <1>3, <1>6
<1>10. /\ q \in Nat
       /\ v[k] = "%%" => /\ c[q + 1] = "%" /\ c[q + 2] = "%"
                         /\ q + 2 <= Len(c) /\ Len(w[k]) = q + 2
       /\ v[k] \in {"x", "n", "%"} =>
            c[q + 1] = v[k] /\ Len(w[k]) = q + 1
  <2>1. PieceAt(v, w, k, q)
    BY <1>1, <1>8, <1>9, CharsAt
  <2> QED BY <2>1 DEF c, PieceAt
<1>11. v[k] = "%%" => j \in {1, 2}
  <2> SUFFICES ASSUME v[k] = "%%" PROVE j \in {1, 2}
    OBVIOUS
  <2>1. s[k] = <<"%", "%">>
    BY <1>9, CharactersAre
  <2>2. Len(s[k]) = 2
    BY <2>1
  <2> QED BY <2>2, <1>7
<1>12. v[k] \in {"x", "n", "%"} => j = 1
  <2> SUFFICES ASSUME v[k] \in {"x", "n", "%"} PROVE j = 1
    OBVIOUS
  <2>1. s[k] = <<v[k]>>
    BY <1>9, CharactersAre
  <2>2. Len(s[k]) = 1
    BY <2>1
  <2> QED BY <2>2, <1>7
<1>13. v[k] \in {"x", "n", "%", "%%"}
  BY <1>9, CharactersAre
<1>14. Len(w[k]) = i + 1 /\ v[k] \in {"%", "%%"}
       /\ (v[k] = "%%" => i >= 1 /\ c[i] = "%")
  <2>1. CASE v[k] = "%%"
    <3>1. j = 2
      <4>1. j # 1
        <5> SUFFICES ASSUME j = 1 PROVE FALSE
          OBVIOUS
        <5>1. i = q /\ i + 2 = q + 2
          BY <1>4, <1>7, <1>8, <1>10
        <5> QED BY <1>4, <1>10, <2>1, <5>1
      <4> QED BY <4>1, <1>11, <2>1
    <3>2. i = q + 1 /\ i \in Int
      BY <3>1, <1>4, <1>7, <1>8, <1>10
    <3> QED BY <3>2, <1>10, <2>1
  <2>2. CASE v[k] \in {"x", "n", "%"}
    <3>1. i = q
      BY <1>4, <1>7, <1>8, <1>10, <1>12, <2>2
    <3>2. v[k] = "%"
      BY <3>1, <1>4, <1>10, <2>2
    <3> QED BY <3>1, <3>2, <1>10
  <2> QED BY <1>13, <2>1, <2>2
<1>15. k < Len(v)
  <2> SUFFICES ASSUME k = Len(v) PROVE FALSE
    BY <1>2, <1>9
  <2>1. Len(c) = i + 1
    BY <1>3, <1>14
  <2> QED BY <2>1, <1>2, <1>4
<1>16. PICK h \in 1 .. Len(v) : h = k + 1 /\ h - 1 = k
  BY <1>2, <1>9, <1>15
<1>17. v[h] \in {"x", "n", "%", "%%"}
  BY <1>2, CharactersAre
<1>18. c[i + 2] = IF v[h] = "%%" THEN "%" ELSE v[h]
  <2>1. i + 1 = Len(w[h - 1]) /\ (i + 1) + 1 = i + 2
    BY <1>4, <1>14, <1>16
  <2>2. PICK r : r = i + 1
    OBVIOUS
  <2>3. r = Len(w[h - 1])
    BY <2>1, <2>2
  <2>4. /\ v[h] = "%%" => Written(v)[r + 1] = "%"
        /\ v[h] \in {"x", "n", "%"} => Written(v)[r + 1] = v[h]
    BY <1>1, <2>3, CharsAt, SMTT(30) DEF PieceAt
  <2>5. /\ v[h] = "%%" => c[(i + 1) + 1] = "%"
        /\ v[h] \in {"x", "n", "%"} => c[(i + 1) + 1] = v[h]
    BY <2>2, <2>4 DEF c
  <2> QED BY <1>17, <2>1, <2>5
<1>19. v[h] = "n"
  BY <1>4, <1>17, <1>18
<1>20. v[k] = "%%"
  <2>1. k \in 1 .. Len(v) - 1
    BY <1>2, <1>9, <1>15
  <2>2. v[k] = "%" => v[k + 1] = "x"
    BY <2>1 DEF Unambiguous
  <2> QED BY <2>2, <1>14, <1>16, <1>19
<1>21. PICK o : o = i - 1
  OBVIOUS
<1>22. o \in 0 .. Len(c) - 3 /\ o + 1 = i /\ o + 2 = i + 1 /\ o + 3 = i + 2
  BY <1>2, <1>4, <1>14, <1>20, <1>21
<1> QED
  BY <1>2, <1>4, <1>14, <1>20, <1>22, HoldsThree DEF c

(***************************************************************************)
(* The size of valbuf.                                                     *)
(***************************************************************************)
LEMMA LongestIs ==
  ASSUME NEW S, NEW b \in Nat, \A x \in S : Len(x) \in Nat /\ Len(x) <= b
  PROVE  Longest(S) \in Nat /\ \A x \in S : Len(x) <= Longest(S)
<1> DEFINE L == {0} \cup {Len(x) : x \in S}
<1>1. L \in SUBSET Int /\ 0 \in L /\ \A y \in L : y \in Nat /\ y <= b
  OBVIOUS
<1>2. \A x \in S : Len(x) \in L
  OBVIOUS
<1> HIDE DEF L
<1>3. Ext!Max(L) \in L /\ \A y \in L : y <= Ext!Max(L)
  <2>1. PICK z, c : z = 0 /\ c = b
    OBVIOUS
  <2>2. z \in L /\ c \in Int /\ \A y \in L : y <= c
    BY <1>1, <2>1
  <2> QED BY <1>1, <2>2, MaxIs
<1>4. Longest(S) = Ext!Max(L)
  BY DEF Longest, L
<1> QED
  BY <1>1, <1>2, <1>3, <1>4

LEMMA MaxOfTwo ==
  ASSUME NEW a \in Nat, NEW b \in Int
  PROVE  Ext!Max({a, b}) \in Nat /\ a <= Ext!Max({a, b})
         /\ b <= Ext!Max({a, b})
<1> DEFINE S == {a, b}
<1>1. S \in SUBSET Int /\ a \in S /\ b \in S
  OBVIOUS
<1>2. PICK c \in Int : \A y \in S : y <= c
  <2>1. CASE a <= b BY <2>1
  <2>2. CASE ~ (a <= b)
    <3>1. b <= a BY <2>2
    <3> QED BY <3>1
  <2> QED BY <2>1, <2>2
<1> HIDE DEF S
<1>3. Ext!Max(S) \in S /\ \A y \in S : y <= Ext!Max(S)
  BY <1>1, <1>2, MaxIs
<1>4. Ext!Max(S) \in Int /\ a <= Ext!Max(S) /\ b <= Ext!Max(S)
  BY <1>1, <1>3
<1>5. Ext!Max(S) \in Nat
  BY <1>4
<1> QED
  BY <1>4, <1>5 DEF S

\* How often a piece is in a value.
LEMMA CountIs ==
  ASSUME NEW v \in Value, NEW p
  PROVE  /\ Count(v, p) \in Nat
         /\ \A k \in 1 .. Len(v) : v[k] = p => Count(v, p) > 0
         /\ Count(v, p) > 0 => \E k \in 1 .. Len(v) : v[k] = p
         /\ Count(v, p) = 1 =>
              \A k, j \in 1 .. Len(v) : v[k] = p /\ v[j] = p => k = j
<1> DEFINE S == {i \in 1 .. Len(v) : v[i] = p}
<1>1. Len(v) \in Nat
  BY WrittenIs
<1>2. IsFiniteSet(1 .. Len(v))
  <2>1. 1 \in Int /\ Len(v) \in Int
    BY <1>1
  <2> QED BY <2>1, FS_Interval
<1>3. S \subseteq 1 .. Len(v)
  OBVIOUS
<1>4. IsFiniteSet(S)
  <2> HIDE DEF S
  <2> QED BY <1>2, <1>3, FS_Subset
<1>5. Count(v, p) = Cardinality(S)
  BY DEF Count
<1>6. \A k \in 1 .. Len(v) : v[k] = p <=> k \in S
  OBVIOUS
<1> HIDE DEF S
<1>7. Cardinality(S) \in Nat /\ (Cardinality(S) = 0 <=> S = {})
  BY <1>4, FS_CardinalityType, FS_EmptySet
<1>8. Cardinality(S) = 1 => \E x : S = {x}
  BY <1>4, FS_Singleton
<1>9. Count(v, p) = 1 =>
        \A k, j \in 1 .. Len(v) : v[k] = p /\ v[j] = p => k = j
  BY <1>5, <1>6, <1>8
<1>10. \A k \in 1 .. Len(v) : v[k] = p => Count(v, p) > 0
  BY <1>5, <1>6, <1>7
<1>11. Count(v, p) > 0 => \E k \in 1 .. Len(v) : v[k] = p
  BY <1>3, <1>5, <1>6, <1>7
<1> QED
  BY <1>5, <1>7, <1>9, <1>10, <1>11

\* What a line is.
LEMMA LineIs ==
  ASSUME NEW l \in Line
  PROVE  /\ Len(l.vals) \in Nat /\ Len(l.nodes) \in Nat
         /\ \A i \in 1 .. Len(l.vals) : l.vals[i] \in Value
         /\ \A i \in 1 .. Len(l.nodes) :
              l.nodes[i] \in Seq(Char) /\ Len(l.nodes[i]) \in Nat
<1>1. l.vals \in Seq(Value) /\ l.nodes \in Seq(Name)
  BY DEF Line
<1>2. \A i \in 1 .. Len(l.nodes) : l.nodes[i] \in Name
  BY <1>1
<1>3. ASSUME NEW n \in Name PROVE n \in Seq(Char) /\ Len(n) \in Nat
  <2>1. n \in Seq(STRING)
    BY FileAssumption
  <2>2. Len(n) \in Nat /\ \A i \in 1 .. Len(n) : n[i] \in Char
    BY <2>1 DEF Char
  <2> QED BY <2>1, <2>2
<1> QED
  BY <1>1, <1>2, <1>3

\* What _parse_line() computes is no less than what it was computed from.
LEMMA LineSizes ==
  ASSUME NEW l \in Line
  PROVE  /\ LineMaxValLen(l) \in Nat /\ LastSubstLen(l) \in Int
         /\ \A i \in 1 .. Len(l.vals) :
              ~ NodeSubst(Written(l.vals[i])) =>
                Len(Written(l.vals[i])) <= LineMaxValLen(l)
         /\ \A i \in 1 .. Len(l.nodes) :
              LastSubstLen(l) # 0 =>
                LastSubstLen(l) - 2 + Len(l.nodes[i]) <= LineMaxValLen(l)
<1>1. /\ Len(l.vals) \in Nat /\ Len(l.nodes) \in Nat
      /\ \A i \in 1 .. Len(l.vals) : l.vals[i] \in Value
      /\ \A i \in 1 .. Len(l.nodes) : Len(l.nodes[i]) \in Nat
  BY LineIs
<1>2. \A i \in 1 .. Len(l.vals) : Len(Written(l.vals[i])) \in Nat
  BY <1>1, WrittenIs
<1> DEFINE lens == [i \in 1 .. Len(l.vals) |-> Len(Written(l.vals[i]))]
           sizes == [i \in 1 .. Len(l.nodes) |-> Len(l.nodes[i])]
           plain == {c \in Texts(l) : ~ NodeSubst(c)}
           heads == Elements(l.nodes)
           A == Longest(plain)
           N == Longest(heads)
           B == IF LastSubstLen(l) = 0 THEN 0 ELSE LastSubstLen(l) - 2 + N
<1>3. PICK b \in Nat : \A i \in 1 .. Len(l.vals) : lens[i] <= b
  <2>1. \A i \in 1 .. Len(l.vals) : lens[i] \in Nat
    BY <1>2
  <2> HIDE DEF lens
  <2> QED BY <1>1, <2>1, BoundOf
<1>4. PICK d \in Nat : \A i \in 1 .. Len(l.nodes) : sizes[i] <= d
  <2>1. \A i \in 1 .. Len(l.nodes) : sizes[i] \in Nat
    BY <1>1
  <2> HIDE DEF sizes
  <2> QED BY <1>1, <2>1, BoundOf
<1>5. A \in Nat /\ \A x \in plain : Len(x) <= A
  <2>1. \A x \in plain : Len(x) \in Nat /\ Len(x) <= b
    BY <1>2, <1>3 DEF Texts
  <2> HIDE DEF plain
  <2> QED BY <2>1, LongestIs
<1>6. N \in Nat /\ \A x \in heads : Len(x) <= N
  <2>1. \A x \in heads : Len(x) \in Nat /\ Len(x) <= d
    BY <1>1, <1>4 DEF Elements
  <2> HIDE DEF heads
  <2> QED BY <2>1, LongestIs
<1>7. LastSubstLen(l) \in Nat
  <2> DEFINE substs == {i \in 1 .. Len(l.vals) :
                          NodeSubst(Written(l.vals[i]))}
  <2>1. LastSubstLen(l) = IF substs = {} THEN 0
                          ELSE Len(Written(l.vals[Ext!Max(substs)]))
    BY DEF LastSubstLen
  <2>2. CASE substs = {} BY <2>1, <2>2
  <2>3. CASE substs # {}
    <3>1. PICK x \in substs : TRUE
      BY <2>3
    <3>2. substs \in SUBSET Int /\ \A y \in substs : y <= Len(l.vals)
      BY <1>1
    <3>3. substs \subseteq 1 .. Len(l.vals)
      OBVIOUS
    <3> HIDE DEF substs
    <3>4. PICK c \in Int : c = Len(l.vals)
      BY <1>1
    <3>5. Ext!Max(substs) \in substs
      BY <3>1, <3>2, <3>4, MaxIs
    <3>6. Ext!Max(substs) \in 1 .. Len(l.vals)
      BY <3>3, <3>5
    <3> QED BY <2>1, <2>3, <3>6, <1>2
  <2> QED BY <2>2, <2>3
<1>8. B \in Int
  BY <1>6, <1>7
<1>9. LineMaxValLen(l) = Ext!Max({A, B})
  BY DEF LineMaxValLen
<1>10. LineMaxValLen(l) \in Nat /\ A <= LineMaxValLen(l)
       /\ B <= LineMaxValLen(l)
  <2> HIDE DEF A, B
  <2> QED BY <1>5, <1>8, <1>9, MaxOfTwo
<1>11. ASSUME NEW i \in 1 .. Len(l.vals),
              ~ NodeSubst(Written(l.vals[i]))
       PROVE  Len(Written(l.vals[i])) <= LineMaxValLen(l)
  <2>1. Written(l.vals[i]) \in plain
    BY <1>11 DEF Texts
  <2>2. Len(Written(l.vals[i])) <= A
    BY <2>1, <1>5
  <2> HIDE DEF A
  <2> QED BY <2>2, <1>2, <1>5, <1>10
<1>12. ASSUME NEW i \in 1 .. Len(l.nodes), LastSubstLen(l) # 0
       PROVE  LastSubstLen(l) - 2 + Len(l.nodes[i]) <= LineMaxValLen(l)
  <2>1. l.nodes[i] \in heads
    BY DEF Elements
  <2>2. Len(l.nodes[i]) <= N
    BY <2>1, <1>6
  <2>3. B = LastSubstLen(l) - 2 + N
    BY <1>12
  <2>4. Len(l.nodes[i]) \in Nat
    BY <1>1
  <2> HIDE DEF B, N
  <2> QED BY <2>2, <2>3, <2>4, <1>6, <1>7, <1>10
<1> QED
  BY <1>7, <1>10, <1>11, <1>12

\* And what genders_load_data() makes of it is no less.
LEMMA FileSizes ==
  ASSUME NEW f \in File
  PROVE  /\ MaxValLen(f) \in Nat
         /\ \A i \in 1 .. Len(f) :
              f[i] \in Line /\ LineMaxValLen(f[i]) <= MaxValLen(f)
<1>1. Len(f) \in Nat /\ \A i \in 1 .. Len(f) : f[i] \in Line
  <2>1. f \in Seq(Line)
    BY FileAssumption
  <2> QED BY <2>1
<1> DEFINE lens == [i \in 1 .. Len(f) |-> LineMaxValLen(f[i])]
           S == {0} \cup {LineMaxValLen(f[i]) : i \in 1 .. Len(f)}
<1>2. \A i \in 1 .. Len(f) : LineMaxValLen(f[i]) \in Nat
  BY <1>1, LineSizes
<1>3. PICK b \in Nat : \A i \in 1 .. Len(f) : lens[i] <= b
  <2>1. \A i \in 1 .. Len(f) : lens[i] \in Nat
    BY <1>2
  <2> HIDE DEF lens
  <2> QED BY <1>1, <2>1, BoundOf
<1>4. S \in SUBSET Int /\ 0 \in S /\ \A y \in S : y <= b
  BY <1>2, <1>3
<1>5. \A i \in 1 .. Len(f) : LineMaxValLen(f[i]) \in S
  OBVIOUS
<1>6. S \subseteq Nat
  BY <1>2
<1> HIDE DEF S
<1>7. Ext!Max(S) \in S /\ \A y \in S : y <= Ext!Max(S)
  <2>1. PICK z, c : z = 0 /\ c = b
    OBVIOUS
  <2>2. z \in S /\ c \in Int /\ \A y \in S : y <= c
    BY <1>4, <2>1
  <2> QED BY <1>4, <2>2, MaxIs
<1>8. MaxValLen(f) = Ext!Max(S)
  BY DEF MaxValLen, S
<1> QED
  BY <1>1, <1>5, <1>6, <1>7, <1>8

(***************************************************************************)
(* Lines at most one value of which names the node.                        *)
(***************************************************************************)

\* The value that names the node is the one _parse_line() measures.
LEMMA LastSubstIs ==
  ASSUME NEW l \in Line, Simple(l), NEW j \in 1 .. Len(l.vals),
         NEW z \in 1 .. Len(l.vals[j]), l.vals[j][z] = "%n"
  PROVE  LastSubstLen(l) = Len(Written(l.vals[j])) /\ LastSubstLen(l) # 0
<1> DEFINE substs == {i \in 1 .. Len(l.vals) : NodeSubst(Written(l.vals[i]))}
<1>1. Len(l.vals) \in Nat /\ \A i \in 1 .. Len(l.vals) : l.vals[i] \in Value
  BY LineIs
<1>2. Count(l.vals[j], "%n") > 0
  BY <1>1, CountIs
<1>3. Holds(Written(l.vals[j]), <<"%", "n">>)
  BY <1>1, PiecesAreFound
<1>4. NodeSubst(Written(l.vals[j]))
  BY <1>2, <1>3 DEF NodeSubst, Simple
<1>5. ASSUME NEW i \in substs PROVE i = j
  <2>1. i \in 1 .. Len(l.vals) /\ l.vals[i] \in Value
        /\ Unambiguous(l.vals[i]) /\ NodeSubst(Written(l.vals[i]))
    BY <1>1 DEF Simple
  <2>2. \E k \in 1 .. Len(l.vals[i]) : l.vals[i][k] = "%n"
    BY <2>1, NamesAreMeant
  <2>3. Count(l.vals[i], "%n") > 0
    BY <2>1, <2>2, CountIs
  <2> QED BY <2>1, <2>3, <1>2 DEF Simple
<1>6. substs = {j}
  BY <1>4, <1>5
<1>7. LastSubstLen(l) = IF substs = {} THEN 0
                        ELSE Len(Written(l.vals[Ext!Max(substs)]))
  BY DEF LastSubstLen
<1>8. Ext!Max({j}) = j
  <2>1. {j} \in SUBSET Int /\ j \in {j} /\ j \in Int
        /\ \A y \in {j} : y <= j
    BY <1>1
  <2>2. Ext!Max({j}) \in {j}
    BY <2>1, MaxIs
  <2> QED BY <2>2
<1>9. LastSubstLen(l) = Len(Written(l.vals[j]))
  <2> HIDE DEF substs
  <2> QED BY <1>6, <1>7, <1>8
<1>10. Len(Written(l.vals[j])) # 0
  <2>1. Written(l.vals[j]) \in Seq(Char)
        /\ Len(Written(l.vals[j])) \in Nat
    BY <1>1, WrittenIs
  <2>2. \E i \in 0 .. Len(Written(l.vals[j])) - 2 : TRUE
    BY <2>1, <1>3, HoldsTwo
  <2> QED BY <2>1, <2>2
<1> QED
  BY <1>9, <1>10

\* What a piece is meant to be is no longer than it, unless it is the name.
LEMMA StepLens ==
  ASSUME NEW p \in Piece, NEW n \in Seq(Char)
  PROVE  /\ Len(Means(p, n)) \in Nat /\ Len(Characters(p)) \in {1, 2}
         /\ p # "%n" => Len(Means(p, n)) = 1
         /\ p = "%n" => Len(Means(p, n)) = Len(n)
                        /\ Len(Characters(p)) = 2
<1>1. p \in {"x", "n", "%", "%%", "%n"}
  BY CharactersAre
<1>2. CASE p = "%n"
  <2>1. Means(p, n) = n /\ Characters(p) = <<"%", "n">>
    BY <1>2 DEF Means, Characters
  <2> QED BY <2>1, <1>2
<1>3. CASE p = "%%"
  <2>1. Means(p, n) = <<"%">> /\ Characters(p) = <<"%", "%">>
    BY <1>3 DEF Means, Characters
  <2> QED BY <2>1, <1>3
<1>4. CASE p \in {"x", "n", "%"}
  <2>1. Means(p, n) = <<p>> /\ Characters(p) = <<p>>
    BY <1>4 DEF Means, Characters
  <2> QED BY <2>1, <1>4
<1> QED
  BY <1>1, <1>2, <1>3, <1>4

\* A value only grows where it names the node, once.
LEMMA GrowsOnce ==
  ASSUME NEW v \in Value, NEW n \in Seq(Char), NEW z \in Nat,
         NEW w, Spelt(w, v), NEW m, Meant(m, v, n),
         \A k \in 1 .. Len(v) : v[k] = "%n" <=> k = z,
         NEW k \in 0 .. Len(v)
  PROVE  IF k < z THEN Len(m[k]) <= Len(w[k])
         ELSE z = 0 \/ Len(m[k]) + 2 <= Len(w[k]) + Len(n)
<1> DEFINE Bound(i) ==
             IF i < z THEN Len(m[i]) <= Len(w[i])
             ELSE z = 0 \/ Len(m[i]) + 2 <= Len(w[i]) + Len(n)
           T == {i \in Nat : i <= Len(v) => Bound(i)}
<1>0. Len(v) \in Nat /\ Len(n) \in Nat
      /\ \A i \in 1 .. Len(v) : v[i] \in Piece
  BY WrittenIs
<1>1. 0 \in T
  <2>1. w[0] = <<>> /\ m[0] = <<>>
    BY SpeltSteps, MeantSteps, ZenonT(60)
  <2>2. Len(w[0]) = 0 /\ Len(m[0]) = 0
    BY <2>1
  <2>3. Bound(0)
    BY <2>2
  <2> QED BY <2>3
<1>2. ASSUME NEW i \in Nat, i \in T PROVE i + 1 \in T
  <2> SUFFICES ASSUME i + 1 <= Len(v) PROVE Bound(i + 1)
    OBVIOUS
  <2>1. PICK h \in 1 .. Len(v) : h = i + 1 /\ h - 1 = i
    BY <1>0
  <2>2. i \in 0 .. Len(v) /\ v[h] \in Piece
    BY <1>0, <2>1
  <2>3. Bound(i)
    BY <1>2, <2>2
  <2>4. PICK a, b, c, d, e, g :
          /\ a = Len(m[i]) /\ b = Len(w[i])
          /\ c = Len(m[h]) /\ d = Len(w[h])
          /\ e = Len(Means(v[h], n)) /\ g = Len(Characters(v[h]))
    OBVIOUS
  <2>5. a \in Nat /\ b \in Nat /\ c = a + e /\ d = b + g
    <3>1. Len(w[h]) = Len(w[h - 1]) + Len(Characters(v[h]))
          /\ Len(w[i]) \in Nat
      BY <2>2, SpeltSteps
    <3>2. Len(m[h]) = Len(m[h - 1]) + Len(Means(v[h], n))
          /\ Len(m[i]) \in Nat
      <4>1. /\ \A k1 \in 0 .. Len(v) : Len(m[k1]) \in Nat
            /\ \A k1 \in 1 .. Len(v) :
                 Len(m[k1]) = Len(m[k1 - 1]) + Len(Means(v[k1], n))
        BY ONLY v \in Value, n \in Seq(Char), Meant(m, v, n), MeantSteps
      <4> QED BY ONLY <4>1, <2>2
    <3> QED BY <2>1, <2>4, <3>1, <3>2
  <2>6. /\ e \in Nat /\ g \in {1, 2}
        /\ v[h] # "%n" => e = 1
        /\ v[h] = "%n" => e = Len(n) /\ g = 2
    BY <1>0, <2>2, <2>4, StepLens
  <2>7. v[h] = "%n" <=> h = z
    OBVIOUS
  <2>8. IF i < z THEN a <= b ELSE z = 0 \/ a + 2 <= b + Len(n)
    BY <2>3, <2>4
  <2>9. PICK y \in Nat : y = Len(n)
    BY <1>0
  <2>10. IF i + 1 < z THEN c <= d ELSE z = 0 \/ c + 2 <= d + y
    <3>1. CASE h = z
      <4>1. e = y /\ g = 2 /\ a <= b /\ z = i + 1
        BY <2>1, <2>6, <2>7, <2>8, <2>9, <3>1
      <4> QED BY ONLY <4>1, <2>5, <2>6, <2>9, i \in Nat
    <3>2. CASE h # z
      <4>1. e = 1 /\ z # i + 1
        BY <2>1, <2>6, <2>7, <3>2
      <4>2. IF i < z THEN a <= b ELSE z = 0 \/ a + 2 <= b + y
        BY <2>8, <2>9
      <4> QED BY ONLY <4>1, <4>2, <2>5, <2>6, <2>9, i \in Nat, z \in Nat
    <3> QED BY <3>1, <3>2
  <2> QED BY <2>1, <2>4, <2>9, <2>10
<1> HIDE DEF T
<1>3. Nat \subseteq T
  BY <1>1, <1>2, Induction
<1>4. k \in Nat /\ k <= Len(v)
  BY <1>0
<1> QED
  BY <1>3, <1>4 DEF T

\* Whatever is written for a value of such a line, its length was foreseen.
Fits(v, n, m, room) ==
  /\ \A k \in 0 .. Len(v) : Len(m[k]) <= room
  /\ \A z \in 1 .. Len(v) : v[z] = "%n" => Len(Written(v)) - 2 + Len(n) <= room

LEMMA MeantFits ==
  ASSUME NEW l \in Line, Simple(l),
         NEW v \in Elements(l.vals), NEW n \in Elements(l.nodes),
         NEW w, Spelt(w, v), NEW m, Meant(m, v, n)
  PROVE  Fits(v, n, m, LineMaxValLen(l))
<1>0. PICK i \in 1 .. Len(l.vals), h \in 1 .. Len(l.nodes) :
        v = l.vals[i] /\ n = l.nodes[h]
  BY DEF Elements
<1>1. v \in Value /\ n \in Seq(Char) /\ Len(n) \in Nat /\ Unambiguous(v)
  BY <1>0, LineIs DEF Simple
<1>2. Len(v) \in Nat /\ Len(Written(v)) \in Nat
  BY <1>1, WrittenIs
<1>3. LineMaxValLen(l) \in Nat
  BY LineSizes
<1>4. ASSUME NEW z \in 1 .. Len(v), v[z] = "%n"
      PROVE  Len(Written(v)) - 2 + Len(n) <= LineMaxValLen(l)
  <2>1. PICK y \in 1 .. Len(l.vals[i]) : y = z
    BY <1>0
  <2>2. l.vals[i][y] = "%n"
    BY <1>0, <1>4, <2>1
  <2>3. LastSubstLen(l) = Len(Written(v)) /\ LastSubstLen(l) # 0
    BY <1>0, <2>2, LastSubstIs
  <2> QED BY <1>0, <2>3, LineSizes
<1>5. \A k \in 0 .. Len(v) :
        Len(w[k]) \in Nat /\ Len(w[k]) <= Len(Written(v))
  BY <1>1, SpeltSteps
<1>6. \A k \in 0 .. Len(v) : Len(m[k]) \in Nat
  BY <1>1, MeantSteps
<1>7. ASSUME NEW k \in 0 .. Len(v) PROVE Len(m[k]) <= LineMaxValLen(l)
  <2>1. CASE \A z \in 1 .. Len(v) : v[z] # "%n"
    <3>1. PICK z \in Nat : z = Len(v) + 1
      BY <1>2
    <3>2. \A j \in 1 .. Len(v) : v[j] = "%n" <=> j = z
      BY <1>2, <2>1, <3>1
    <3>3. k < z
      BY <1>2, <3>1
    <3>4. Len(m[k]) <= Len(w[k])
      BY <1>1, <3>2, <3>3, GrowsOnce
    <3>5. ~ NodeSubst(Written(v))
      BY <1>1, <2>1, NamesAreMeant
    <3>6. Len(Written(v)) <= LineMaxValLen(l)
      BY <1>0, <3>5, LineSizes
    <3> QED BY <1>2, <1>3, <1>5, <1>6, <3>4, <3>6
  <2>2. CASE \E z \in 1 .. Len(v) : v[z] = "%n"
    <3>1. PICK z \in 1 .. Len(v) : v[z] = "%n"
      BY <2>2
    <3>2. Count(v, "%n") = 1
      <4>1. Count(v, "%n") > 0
        BY <1>1, <3>1, CountIs
      <4> QED BY <1>0, <4>1 DEF Simple
    <3>3. \A j \in 1 .. Len(v) : v[j] = "%n" <=> j = z
      BY <1>1, <3>1, <3>2, CountIs
    <3>4. z \in Nat /\ z # 0
      BY <1>2
    <3>5. IF k < z THEN Len(m[k]) <= Len(w[k])
          ELSE z = 0 \/ Len(m[k]) + 2 <= Len(w[k]) + Len(n)
      BY <1>1, <3>3, <3>4, GrowsOnce
    <3>6. Len(Written(v)) - 2 + Len(n) <= LineMaxValLen(l)
      BY <1>4, <3>1
    <3>7. PICK a, b, c, d, e :
            /\ a = Len(m[k]) /\ b = Len(w[k]) /\ c = Len(Written(v))
            /\ d = Len(n) /\ e = LineMaxValLen(l)
      OBVIOUS
    <3>8. a \in Nat /\ b \in Nat /\ c \in Nat /\ d \in Nat /\ e \in Nat
          /\ b <= c /\ c - 2 + d <= e
      BY <1>1, <1>2, <1>3, <1>5, <1>6, <3>6, <3>7
    <3>9. CASE k < z
      <4>1. a <= b
        BY <3>5, <3>7, <3>9
      <4>2. b + 2 <= c
        <5>1. PICK x : x = z - 1
          OBVIOUS
        <5>2. x \in k .. Len(v) /\ x \in 0 .. Len(v)
          BY <1>2, <3>9, <5>1
        <5>3. Len(w[k]) <= Len(w[x])
          <6>1. PICK s : s = Spelling(v)
            OBVIOUS
          <6>2. s \in Seq(Seq(Char)) /\ Len(s) = Len(v) /\ Joins(w, s)
            BY <1>1, <6>1, ValueIs DEF Spelt
          <6>3. k \in 0 .. Len(s) /\ x \in k .. Len(s)
            BY <5>2, <6>2
          <6> QED BY ONLY <6>2, <6>3, JoinsGrow
        <5>4. PICK q : q = Len(w[z - 1])
          OBVIOUS
        <5>5. q \in Nat /\ q + 2 <= c /\ b <= q
          <6>1. PieceAt(v, w, z, q)
            BY <1>1, <5>4, CharsAt
          <6> QED BY <6>1, <3>1, <3>7, <5>1, <5>3, <5>4 DEF PieceAt
        <5> QED BY ONLY <5>5, <3>8
      <4> QED BY ONLY <3>7, <3>8, <4>1, <4>2
    <3>10. CASE ~ (k < z)
      <4>1. a + 2 <= b + d
        BY <3>4, <3>5, <3>7, <3>10
      <4> QED BY ONLY <3>7, <3>8, <4>1
    <3> QED BY <3>9, <3>10
  <2> QED BY <2>1, <2>2
<1> QED
  BY <1>4, <1>7 DEF Fits

(***************************************************************************)
(* Reading a value.                                                        *)
(***************************************************************************)

\* The loop is between two pieces of the value.
AtPiece(v, n, at, buf) ==
  \E w, m : \E k \in 0 .. Len(v) :
    /\ Spelt(w, v) /\ Meant(m, v, n)
    /\ at = Len(w[k]) + 1
    /\ buf = m[k]

Asked == asked \in Pairs \/ asked = <<<<>>, <<>>>>

AllSimple == \A i \in 1 .. Len(file) : Simple(file[i])

ValueInv ==
  /\ file \in File /\ maxvallen = MaxValLen(file)
  /\ raw \in BOOLEAN /\ pc \in {"idle", "copy"}
  /\ error \in {"SUCCESS", "INTERNAL"}
  /\ Asked
  /\ pc = "copy" =>
       /\ asked \in Pairs /\ ~ raw /\ error = "SUCCESS" /\ text = <<>>
       /\ Unambiguous(asked[1]) =>
            AtPiece(asked[1], asked[2], valptr, valbuf)
  /\ ReadsAsMeant
  /\ AllSimple =>
       /\ error = "SUCCESS"
       /\ Len(valbuf) <= maxvallen
       /\ ~ raw => Len(text) <= maxvallen

\* What is asked for is a value and a node of a line.
LEMMA PairIs ==
  ASSUME NEW f \in File,
         NEW p \in UNION {{<<v, n>> : v \in Elements(f[i].vals),
                                      n \in Elements(f[i].nodes)} :
                            i \in 1 .. Len(f)}
  PROVE  \E i \in 1 .. Len(f) : \E j \in 1 .. Len(f[i].vals) :
           \E h \in 1 .. Len(f[i].nodes) :
             /\ f[i] \in Line
             /\ p = <<f[i].vals[j], f[i].nodes[h]>>
             /\ p[1] = f[i].vals[j] /\ p[2] = f[i].nodes[h]
             /\ p[1] \in Value /\ p[2] \in Seq(Char)
<1>1. PICK i \in 1 .. Len(f) :
        p \in {<<v, n>> : v \in Elements(f[i].vals),
                          n \in Elements(f[i].nodes)}
  OBVIOUS
<1>2. PICK v \in Elements(f[i].vals), n \in Elements(f[i].nodes) :
        p = <<v, n>>
  BY <1>1
<1>3. PICK j \in 1 .. Len(f[i].vals) : v = f[i].vals[j]
  BY DEF Elements
<1>4. PICK h \in 1 .. Len(f[i].nodes) : n = f[i].nodes[h]
  BY DEF Elements
<1>5. f[i] \in Line
  BY FileSizes
<1>6. f[i].vals[j] \in Value /\ f[i].nodes[h] \in Seq(Char)
  <2>1. PICK l \in Line : l = f[i]
    BY <1>5
  <2>2. j \in 1 .. Len(l.vals) /\ h \in 1 .. Len(l.nodes)
    BY <2>1
  <2>3. l.vals[j] \in Value /\ l.nodes[h] \in Seq(Char)
    BY ONLY l \in Line, <2>2, LineIs, SMTT(30)
  <2> QED BY <2>1, <2>3
<1>7. p = <<f[i].vals[j], f[i].nodes[h]>>
  BY <1>2, <1>3, <1>4
<1>8. p[1] = f[i].vals[j] /\ p[2] = f[i].nodes[h]
  BY <1>7
<1>9. p[1] \in Value /\ p[2] \in Seq(Char)
  BY <1>6, <1>8
<1> QED
  BY ONLY <1>5, <1>7, <1>8, <1>9

\* A value of a simple line fits, as it is meant and with the name in it.
SizeFits(p, room) ==
  /\ Unambiguous(p[1])
  /\ \A w, m : Spelt(w, p[1]) /\ Meant(m, p[1], p[2]) =>
       \A k \in 0 .. Len(p[1]) : Len(m[k]) \in Nat /\ Len(m[k]) <= room
  /\ \A z \in 1 .. Len(p[1]) : p[1][z] = "%n" =>
       Len(Written(p[1])) - 2 + Len(p[2]) <= room

LEMMA PairFits ==
  ASSUME NEW f \in File, \A i \in 1 .. Len(f) : Simple(f[i]),
         NEW p \in UNION {{<<v, n>> : v \in Elements(f[i].vals),
                                      n \in Elements(f[i].nodes)} :
                            i \in 1 .. Len(f)}
  PROVE  SizeFits(p, MaxValLen(f))
<1>1. PICK i \in 1 .. Len(f) : \E j \in 1 .. Len(f[i].vals) :
        \E h \in 1 .. Len(f[i].nodes) :
          /\ f[i] \in Line
          /\ p = <<f[i].vals[j], f[i].nodes[h]>>
          /\ p[1] = f[i].vals[j] /\ p[2] = f[i].nodes[h]
          /\ p[1] \in Value /\ p[2] \in Seq(Char)
  BY PairIs
<1>2. PICK j \in 1 .. Len(f[i].vals), h \in 1 .. Len(f[i].nodes) :
          /\ f[i] \in Line
          /\ p[1] = f[i].vals[j] /\ p[2] = f[i].nodes[h]
          /\ p[1] \in Value /\ p[2] \in Seq(Char)
  BY <1>1
<1>3. PICK l : l = f[i]
  OBVIOUS
<1>4. PICK v, n : v = p[1] /\ n = p[2]
  OBVIOUS
<1>5. l \in Line /\ Simple(l) /\ j \in 1 .. Len(l.vals)
      /\ h \in 1 .. Len(l.nodes) /\ v = l.vals[j] /\ n = l.nodes[h]
      /\ v \in Value /\ n \in Seq(Char)
      /\ v \in Elements(l.vals) /\ n \in Elements(l.nodes)
  BY <1>2, <1>3, <1>4, SMTT(30) DEF Elements
<1>6. MaxValLen(f) \in Nat /\ LineMaxValLen(l) <= MaxValLen(f)
      /\ LineMaxValLen(l) \in Nat
  BY <1>3, <1>5, FileSizes, LineSizes
<1>7. Unambiguous(v)
  BY <1>5 DEF Simple
<1>8. ASSUME NEW w, NEW m, Spelt(w, v), Meant(m, v, n),
             NEW k \in 0 .. Len(v)
      PROVE  Len(m[k]) \in Nat /\ Len(m[k]) <= MaxValLen(f)
  <2>1. Len(m[k]) <= LineMaxValLen(l)
    <3>1. Fits(v, n, m, LineMaxValLen(l))
      BY <1>5, <1>8, MeantFits
    <3> QED BY <3>1 DEF Fits
  <2>2. Len(m[k]) \in Nat
    BY <1>5, <1>8, MeantSteps
  <2> QED BY <2>1, <2>2, <1>6
<1>9. ASSUME NEW z \in 1 .. Len(v), v[z] = "%n"
      PROVE  Len(Written(v)) - 2 + Len(n) <= MaxValLen(f)
  <2>1. PICK w : Spelt(w, v)
    BY <1>5, SpeltExists
  <2>2. PICK m : Meant(m, v, n)
    BY <1>5, MeantExists
  <2>3. Len(Written(v)) - 2 + Len(n) <= LineMaxValLen(l)
    <3>1. Fits(v, n, m, LineMaxValLen(l))
      BY <1>5, <2>1, <2>2, MeantFits
    <3> QED BY <3>1, <1>9 DEF Fits
  <2>4. Len(Written(v)) \in Nat /\ Len(n) \in Nat
    BY <1>5, WrittenIs, SMTT(30)
  <2> QED BY <2>3, <2>4, <1>6
<1>10. \A w, m : Spelt(w, v) /\ Meant(m, v, n) =>
         \A k \in 0 .. Len(v) :
           Len(m[k]) \in Nat /\ Len(m[k]) <= MaxValLen(f)
  BY <1>8
<1>11. \A z \in 1 .. Len(v) : v[z] = "%n" =>
         Len(Written(v)) - 2 + Len(n) <= MaxValLen(f)
  BY <1>9
<1>12. p[1] = v /\ p[2] = n
  BY <1>4
<1> QED
  BY ONLY <1>7, <1>10, <1>11, <1>12 DEF SizeFits

(***************************************************************************)
(* The next piece.                                                         *)
(***************************************************************************)
CharAt(v, i) == IF i <= Len(Written(v)) THEN Written(v)[i] ELSE "NUL"

\* What At() shows of the piece that comes next.
PieceHere(v, n, at, buf, k, w, m) ==
  /\ Spelt(w, v) /\ Meant(m, v, n)
  /\ at = Len(w[k - 1]) + 1 /\ buf = m[k - 1] /\ Len(w[k - 1]) \in Nat
  /\ CharAt(v, at) = "%" /\ CharAt(v, at + 1) = "%" => v[k] = "%%"
  /\ CharAt(v, at) = "%" /\ CharAt(v, at + 1) = "n" => v[k] = "%n"
  /\ (CharAt(v, at) = "%" => CharAt(v, at + 1) \notin {"%", "n"}) =>
       v[k] \in {"x", "n", "%"} /\ v[k] = CharAt(v, at)

LEMMA PieceIsHere ==
  ASSUME NEW v \in Value, NEW n \in Seq(Char), Unambiguous(v),
         NEW at, NEW buf, AtPiece(v, n, at, buf), at <= Len(Written(v))
  PROVE  \E k \in 1 .. Len(v) : \E w, m : PieceHere(v, n, at, buf, k, w, m)
<1>1. PICK w, m : \E k \in 0 .. Len(v) :
        /\ Spelt(w, v) /\ Meant(m, v, n)
        /\ at = Len(w[k]) + 1
        /\ buf = m[k]
  BY DEF AtPiece
<1>2. PICK h \in 0 .. Len(v) :
        /\ Spelt(w, v) /\ Meant(m, v, n)
        /\ at = Len(w[h]) + 1
        /\ buf = m[h]
  BY <1>1
<1>3. Len(v) \in Nat /\ Len(Written(v)) \in Nat
      /\ \A k \in 1 .. Len(v) : v[k] \in Piece
  BY WrittenIs
<1>4. Len(w[h]) \in Nat
  BY <1>2, SpeltSteps
<1>5. h # Len(v)
  <2> SUFFICES ASSUME h = Len(v) PROVE FALSE
    OBVIOUS
  <2>1. Len(w[h]) = Len(Written(v))
    BY <1>2, SpeltSteps
  <2> QED BY <2>1, <1>2, <1>3
<1>6. PICK k \in 1 .. Len(v) : k = h + 1 /\ k - 1 = h
  BY <1>3, <1>5
<1>7. PICK q : q = Len(w[k - 1])
  OBVIOUS
<1>8. PieceAt(v, w, k, q)
  BY <1>2, <1>7, CharsAt
<1>9. at = q + 1 /\ at + 1 = q + 2 /\ q \in Nat
  BY <1>2, <1>4, <1>6, <1>7
<1>10. v[k] \in {"x", "n", "%", "%%", "%n"}
  BY <1>3, CharactersAre
<1>11. CharAt(v, at) = IF v[k] \in {"%%", "%n"} THEN "%" ELSE v[k]
  <2>1. CharAt(v, at) = Written(v)[q + 1]
    BY <1>9 DEF CharAt
  <2> QED BY <2>1, <1>8, <1>10 DEF PieceAt
<1>12. v[k] = "%%" => CharAt(v, at + 1) = "%"
  BY <1>8, <1>9 DEF PieceAt, CharAt
<1>13. v[k] = "%n" => CharAt(v, at + 1) = "n"
  BY <1>8, <1>9 DEF PieceAt, CharAt
<1>14. v[k] = "%" => CharAt(v, at + 1) \notin {"%", "n"}
  <2> SUFFICES ASSUME v[k] = "%" PROVE CharAt(v, at + 1) \notin {"%", "n"}
    OBVIOUS
  <2>1. Len(w[k]) = q + 1
    BY <1>8 DEF PieceAt
  <2>2. CASE k = Len(v)
    <3>1. Len(Written(v)) = q + 1
      BY <2>1, <2>2, <1>2, SpeltSteps
    <3>2. CharAt(v, at + 1) = "NUL"
      BY <3>1, <1>9 DEF CharAt
    <3> QED BY <3>2
  <2>3. CASE k # Len(v)
    <3>1. PICK g \in 1 .. Len(v) : g = k + 1 /\ g - 1 = k
      BY <2>3, <1>3
    <3>2. v[g] = "x"
      <4>1. k \in 1 .. Len(v) - 1
        BY <2>3, <1>3
      <4>2. v[k + 1] = "x"
        BY <4>1 DEF Unambiguous
      <4> QED BY <3>1, <4>2
    <3>3. PICK r : r = Len(w[g - 1])
      OBVIOUS
    <3>4. PieceAt(v, w, g, r)
      BY <1>2, <3>3, CharsAt
    <3>5. r = q + 1
      BY <2>1, <3>1, <3>3
    <3>6. Written(v)[r + 1] = "x" /\ r < Len(Written(v))
      BY <3>2, <3>4 DEF PieceAt
    <3>7. CharAt(v, at + 1) = "x"
      BY <3>5, <3>6, <1>3, <1>9 DEF CharAt
    <3> QED BY <3>7
  <2> QED BY <2>2, <2>3
<1>15. CharAt(v, at) = "%" /\ CharAt(v, at + 1) = "%" => v[k] = "%%"
  BY <1>10, <1>11, <1>12, <1>13, <1>14
<1>16. CharAt(v, at) = "%" /\ CharAt(v, at + 1) = "n" => v[k] = "%n"
  BY <1>10, <1>11, <1>12, <1>13, <1>14
<1>17. (CharAt(v, at) = "%" => CharAt(v, at + 1) \notin {"%", "n"}) =>
         v[k] \in {"x", "n", "%"} /\ v[k] = CharAt(v, at)
  BY <1>10, <1>11, <1>12, <1>13
<1>18. at = Len(w[k - 1]) + 1 /\ buf = m[k - 1] /\ Len(w[k - 1]) \in Nat
  BY <1>2, <1>4, <1>6
<1>19. PieceHere(v, n, at, buf, k, w, m)
  BY <1>2, <1>15, <1>16, <1>17, <1>18 DEF PieceHere
<1> QED
  BY <1>19

\* The next piece is taken and written.
LEMMA PieceOn ==
  ASSUME NEW v \in Value, NEW n \in Seq(Char), NEW at, NEW buf,
         NEW k \in 1 .. Len(v), NEW w, NEW m,
         PieceHere(v, n, at, buf, k, w, m)
  PROVE  AtPiece(v, n, at + Len(Characters(v[k])), buf \o Means(v[k], n))
<1>1. Spelt(w, v) /\ Meant(m, v, n) /\ at = Len(w[k - 1]) + 1
      /\ buf = m[k - 1] /\ Len(w[k - 1]) \in Nat
  BY DEF PieceHere
<1>2. k \in 0 .. Len(v) /\ Len(w[k]) = Len(w[k - 1]) + Len(Characters(v[k]))
  BY <1>1, SpeltSteps
<1>3. m[k] = m[k - 1] \o Means(v[k], n)
  BY <1>1, MeantSteps
<1>4. Len(Characters(v[k])) \in {1, 2}
  <2>1. v[k] \in Piece
    BY WrittenIs
  <2> QED BY <2>1, StepLens
<1>5. at + Len(Characters(v[k])) = Len(w[k]) + 1
  <2>1. PICK x, y, z : x = Len(w[k - 1]) /\ y = Len(Characters(v[k]))
                       /\ z = Len(w[k])
    OBVIOUS
  <2>2. x \in Nat /\ y \in {1, 2} /\ z = x + y /\ at = x + 1
    BY <1>1, <1>2, <1>4, <2>1
  <2>3. at + y = z + 1
    BY ONLY <2>2
  <2> QED BY <2>1, <2>3
<1> QED
  BY <1>1, <1>2, <1>3, <1>5 DEF AtPiece

\* The loop is done when all pieces are.
LEMMA AllPieces ==
  ASSUME NEW v \in Value, NEW n \in Seq(Char), NEW at, NEW buf,
         AtPiece(v, n, at, buf), at > Len(Written(v))
  PROVE  buf = Meaning(v, n)
<1>1. PICK w, m : \E k \in 0 .. Len(v) :
        /\ Spelt(w, v) /\ Meant(m, v, n)
        /\ at = Len(w[k]) + 1
        /\ buf = m[k]
  BY DEF AtPiece
<1>2. PICK h \in 0 .. Len(v) :
        /\ Spelt(w, v) /\ Meant(m, v, n)
        /\ at = Len(w[h]) + 1
        /\ buf = m[h]
  BY <1>1
<1>3. Len(v) \in Nat /\ Len(Written(v)) \in Nat
  BY WrittenIs
<1>4. h = Len(v)
  <2> SUFFICES ASSUME h # Len(v) PROVE FALSE
    OBVIOUS
  <2>1. PICK k \in 1 .. Len(v) : k = h + 1 /\ k - 1 = h
    BY <1>3
  <2>2. PICK q : q = Len(w[k - 1])
    OBVIOUS
  <2>3. PieceAt(v, w, k, q)
    BY <1>2, <2>2, CharsAt
  <2> QED BY <2>1, <2>2, <2>3, <1>2 DEF PieceAt
<1> QED
  BY <1>2, <1>4, MeantSteps

\* What is written is of a length that was foreseen.
LEMMA BufferFits ==
  ASSUME NEW p, NEW room, SizeFits(p, room), NEW at, NEW buf,
         AtPiece(p[1], p[2], at, buf)
  PROVE  Len(buf) \in Nat /\ Len(buf) <= room
<1>1. PICK w, m : \E k \in 0 .. Len(p[1]) :
        /\ Spelt(w, p[1]) /\ Meant(m, p[1], p[2])
        /\ at = Len(w[k]) + 1
        /\ buf = m[k]
  BY DEF AtPiece
<1> QED
  BY <1>1 DEF SizeFits

\* Nothing is written for nothing.
LEMMA NothingIsRead ==
  /\ <<>> \in Value /\ <<>> \in Seq(Char)
  /\ Written(<<>>) = <<>> /\ Meaning(<<>>, <<>>) = <<>>
<1>1. <<>> \in Value /\ <<>> \in Seq(Char) /\ Len(<<>>) = 0
  BY DEF Value
<1>2. PICK w : Spelt(w, <<>>)
  BY <1>1, SpeltExists
<1>3. PICK m : Meant(m, <<>>, <<>>)
  BY <1>1, MeantExists
<1>4. Written(<<>>) = <<>>
  BY <1>1, <1>2, SpeltSteps
<1>5. Meaning(<<>>, <<>>) = <<>>
  BY <1>1, <1>3, MeantSteps
<1> QED
  BY <1>1, <1>4, <1>5

(***************************************************************************)
(* The invariant.                                                          *)
(***************************************************************************)
LEMMA ValueInvInit == ValueInit => ValueInv
<1> SUFFICES ASSUME ValueInit PROVE ValueInv
  OBVIOUS
<1> USE DEF ValueInit
<1>1. asked[1] = <<>> /\ asked[2] = <<>>
  OBVIOUS
<1>2. ReadsAsMeant
  BY <1>1, NothingIsRead DEF ReadsAsMeant, NodeName, Chars
<1>3. maxvallen \in Nat
  BY FileSizes
<1>4. Len(valbuf) = 0 /\ Len(text) = 0
  OBVIOUS
<1>5. Asked
  BY DEF Asked
<1>6. Len(valbuf) <= maxvallen /\ Len(text) <= maxvallen
  BY <1>3, <1>4
<1>7. file \in File /\ maxvallen = MaxValLen(file) /\ raw \in BOOLEAN
      /\ pc = "idle" /\ error = "SUCCESS"
  OBVIOUS
<1> QED
  BY ONLY <1>2, <1>5, <1>6, <1>7 DEF ValueInv

\* What a pair asked for is.
LEMMA AskedIs ==
  ASSUME ValueInv, NEW p \in Pairs
  PROVE  /\ p[1] \in Value /\ p[2] \in Seq(Char)
         /\ AllSimple => SizeFits(p, maxvallen)
         /\ maxvallen \in Nat
<1>1. file \in File /\ maxvallen = MaxValLen(file)
  BY DEF ValueInv
<1>2. p \in UNION {{<<v, n>> : v \in Elements(file[i].vals),
                               n \in Elements(file[i].nodes)} :
                     i \in 1 .. Len(file)}
  BY DEF Pairs
<1>3. p[1] \in Value /\ p[2] \in Seq(Char)
  BY <1>1, <1>2, PairIs
<1>4. AllSimple => SizeFits(p, maxvallen)
  BY <1>1, <1>2, PairFits DEF AllSimple
<1>5. maxvallen \in Nat
  BY <1>1, FileSizes
<1> QED
  BY <1>3, <1>4, <1>5

LEMMA SetFlagsKeeps ==
  ASSUME ValueInv, SetFlags
  PROVE  ValueInv'
<1> USE DEF SetFlags
<1>1. asked'[1] = <<>> /\ asked'[2] = <<>>
  OBVIOUS
<1>2. ReadsAsMeant'
  BY <1>1, NothingIsRead DEF ReadsAsMeant, NodeName, Chars
<1>3. maxvallen \in Nat
  BY FileSizes DEF ValueInv
<1>4. Asked'
  BY DEF Asked
<1>5. AllSimple' => error' = "SUCCESS" /\ Len(valbuf') <= maxvallen'
                    /\ Len(text') <= maxvallen'
  <2>1. AllSimple' = AllSimple /\ Len(text') = 0
    BY DEF AllSimple
  <2> QED BY <2>1, <1>3 DEF ValueInv
<1> QED
  BY <1>2, <1>4, <1>5 DEF ValueInv

LEMMA BeginKeeps ==
  ASSUME ValueInv, NEW p \in Pairs, Begin(p[1], p[2])
  PROVE  ValueInv'
<1> USE DEF Begin
<1>1. PICK v, n : v = p[1] /\ n = p[2]
  OBVIOUS
<1>2. v \in Value /\ n \in Seq(Char) /\ maxvallen \in Nat
      /\ (AllSimple => SizeFits(p, maxvallen))
  BY <1>1, AskedIs
<1>3. asked' = p
  <2>1. \E i \in 1 .. Len(file) : \E j \in 1 .. Len(file[i].vals) :
           \E h \in 1 .. Len(file[i].nodes) :
             p = <<file[i].vals[j], file[i].nodes[h]>>
    BY PairIs DEF ValueInv, Pairs
  <2>2. p = <<p[1], p[2]>>
    BY <2>1
  <2> QED BY <2>2
<1>4. Asked' /\ Pairs' = Pairs /\ asked'[1] = v /\ asked'[2] = n
      /\ AllSimple' = AllSimple
  BY <1>1, <1>3 DEF Asked, Pairs, AllSimple
<1>5. file' \in File /\ maxvallen' = MaxValLen(file')
      /\ raw' \in BOOLEAN /\ raw' = raw /\ error' = "SUCCESS"
      /\ maxvallen' = maxvallen /\ valbuf' = <<>>
  BY DEF ValueInv
<1>6. PICK w : Spelt(w, v)
  BY <1>2, SpeltExists
<1>7. PICK m : Meant(m, v, n)
  BY <1>2, MeantExists
<1>8. Len(v) \in Nat
  BY <1>2, WrittenIs
<1>9. CASE raw \/ ~ ValContainsSubst(Written(v))
  <2>1. pc' = "idle" /\ text' = Written(v)
    BY <1>1, <1>9
  <2>2. ~ raw => text' = Meaning(v, n)
    BY <1>2, <1>9, <2>1, AsWritten
  <2>3. ReadsAsMeant'
    BY <1>4, <1>5, <2>1, <2>2 DEF ReadsAsMeant, Chars, NodeName
  <2>4. ASSUME AllSimple, ~ raw PROVE Len(text') <= maxvallen
    <3>0. Meaning(v, n) = m[Len(v)]
      BY <1>2, <1>7, MeantSteps
    <3>1. Len(v) \in 0 .. Len(v) /\ text' = m[Len(v)]
      BY <1>8, <2>2, <2>4, <3>0
    <3> QED BY <1>1, <1>2, <1>6, <1>7, <2>4, <3>1 DEF SizeFits
  <2>5. pc' = "idle"
    BY <2>1
  <2> QED BY <1>2, <1>4, <1>5, <2>3, <2>4, <2>5 DEF ValueInv
<1>10. CASE ~ (raw \/ ~ ValContainsSubst(Written(v)))
  <2>1. pc' = "copy" /\ text' = <<>> /\ valptr' = 1 /\ ~ raw
    BY <1>1, <1>10
  <2>2. ReadsAsMeant'
    BY <2>1 DEF ReadsAsMeant
  <2>3. AtPiece(v, n, 1, <<>>)
    <3>a. w[0] = <<>>
      BY <1>2, <1>6, SpeltSteps
    <3>b. m[0] = <<>>
      BY <1>2, <1>7, MeantSteps
    <3>1. 0 \in 0 .. Len(v) /\ w[0] = <<>> /\ m[0] = <<>>
      BY <1>8, <3>a, <3>b
    <3>2. 1 = Len(w[0]) + 1
      BY <3>1
    <3> QED BY <1>6, <1>7, <3>1, <3>2 DEF AtPiece
  <2>4. AtPiece(asked'[1], asked'[2], valptr', valbuf')
    BY <1>4, <1>5, <2>1, <2>3
  <2>5. Len(text') <= maxvallen' /\ Len(valbuf') <= maxvallen'
    BY <1>2, <1>5, <2>1
  <2>6. asked' \in Pairs'
    BY <1>3, <1>4
  <2> QED BY <1>4, <1>5, <2>1, <2>2, <2>4, <2>5, <2>6 DEF ValueInv
<1> QED
  BY <1>9, <1>10

\* What the loop knows.
LEMMA CopyIs ==
  ASSUME ValueInv, pc = "copy"
  PROVE  /\ asked \in Pairs /\ asked[1] \in Value /\ asked[2] \in Seq(Char)
         /\ AllSimple => SizeFits(asked, maxvallen)
         /\ AllSimple => Unambiguous(asked[1])
         /\ maxvallen \in Nat /\ ~ raw /\ error = "SUCCESS" /\ text = <<>>
         /\ Unambiguous(asked[1]) =>
              AtPiece(asked[1], asked[2], valptr, valbuf)
         /\ \A i : At(i) = CharAt(asked[1], i)
<1>1. asked \in Pairs
  BY DEF ValueInv
<1>2. /\ asked[1] \in Value /\ asked[2] \in Seq(Char)
      /\ AllSimple => SizeFits(asked, maxvallen)
      /\ maxvallen \in Nat
  BY <1>1, AskedIs
<1>3. AllSimple => Unambiguous(asked[1])
  BY <1>2 DEF SizeFits
<1>4. \A i : At(i) = CharAt(asked[1], i)
  BY DEF At, CharAt, Chars
<1> QED
  BY <1>1, <1>2, <1>3, <1>4 DEF ValueInv

\* The loop goes on by a piece.
LEMMA EmitKeeps ==
  ASSUME ValueInv, pc = "copy", NEW chars, NEW step, Emit(chars, step),
         Unambiguous(asked[1]) =>
           AtPiece(asked[1], asked[2], valptr + step, valbuf \o chars)
  PROVE  ValueInv'
<1> USE DEF Emit
<1>1. pc' = "copy" /\ asked' = asked /\ text' = text /\ raw' = raw
      /\ Pairs' = Pairs /\ AllSimple' = AllSimple /\ maxvallen' = maxvallen
      /\ error' = error /\ file' = file
  BY DEF Pairs, AllSimple
<1>2. Asked'
  BY <1>1 DEF ValueInv, Asked
<1>3. Unambiguous(asked'[1]) =>
        AtPiece(asked'[1], asked'[2], valptr', valbuf')
  BY <1>1
<1>4. ReadsAsMeant'
  BY <1>1 DEF ReadsAsMeant
<1>5. AllSimple => Len(valbuf') <= maxvallen
  <2> SUFFICES ASSUME AllSimple PROVE Len(valbuf') <= maxvallen
    OBVIOUS
  <2>1. SizeFits(asked, maxvallen) /\ Unambiguous(asked[1])
    BY CopyIs
  <2>2. AtPiece(asked[1], asked[2], valptr', valbuf')
    BY <2>1
  <2> QED BY <2>1, <2>2, BufferFits
<1>6. asked' \in Pairs'
  BY <1>1 DEF ValueInv
<1> QED
  BY <1>1, <1>2, <1>3, <1>4, <1>5, <1>6 DEF ValueInv

\* What the loop takes is the next piece.
LEMMA TakesPiece ==
  ASSUME ValueInv, InLoop, Unambiguous(asked[1])
  PROVE  \E k \in 1 .. Len(asked[1]) : \E w, m :
           PieceHere(asked[1], asked[2], valptr, valbuf, k, w, m)
<1>1. asked[1] \in Value /\ asked[2] \in Seq(Char)
      /\ AtPiece(asked[1], asked[2], valptr, valbuf)
  BY CopyIs DEF InLoop
<1>2. valptr <= Len(Written(asked[1]))
  BY DEF InLoop, Chars
<1>3. PICK v, n, at, buf :
        v = asked[1] /\ n = asked[2] /\ at = valptr /\ buf = valbuf
  OBVIOUS
<1>4. v \in Value /\ n \in Seq(Char) /\ AtPiece(v, n, at, buf)
      /\ at <= Len(Written(v)) /\ Unambiguous(v)
  BY <1>1, <1>2, <1>3
<1>5. \E k \in 1 .. Len(v) : \E w, m : PieceHere(v, n, at, buf, k, w, m)
  BY ONLY <1>4, PieceIsHere
<1> QED
  BY <1>3, <1>5

\* A turn of the loop that takes the piece that is there.
LEMMA TurnKeeps ==
  ASSUME ValueInv, InLoop, NEW chars, NEW step, Emit(chars, step),
         Unambiguous(asked[1]) =>
           \A k \in 1 .. Len(asked[1]) : \A w, m :
             PieceHere(asked[1], asked[2], valptr, valbuf, k, w, m) =>
               /\ chars = Means(asked[1][k], asked[2])
               /\ step = Len(Characters(asked[1][k]))
  PROVE  ValueInv'
<1>1. pc = "copy"
  BY DEF InLoop
<1>2. asked[1] \in Value /\ asked[2] \in Seq(Char)
  BY <1>1, CopyIs
<1>3. ASSUME Unambiguous(asked[1])
      PROVE  AtPiece(asked[1], asked[2], valptr + step, valbuf \o chars)
  <2>1. PICK k \in 1 .. Len(asked[1]) : \E w, m :
           PieceHere(asked[1], asked[2], valptr, valbuf, k, w, m)
    BY <1>3, TakesPiece
  <2>2. PICK w, m : PieceHere(asked[1], asked[2], valptr, valbuf, k, w, m)
    BY <2>1
  <2>3. chars = Means(asked[1][k], asked[2])
        /\ step = Len(Characters(asked[1][k]))
    BY <1>3, <2>2
  <2>4. PICK v, n, at, buf :
          v = asked[1] /\ n = asked[2] /\ at = valptr /\ buf = valbuf
    OBVIOUS
  <2>5. v \in Value /\ n \in Seq(Char) /\ k \in 1 .. Len(v)
        /\ PieceHere(v, n, at, buf, k, w, m)
    BY <1>2, <2>2, <2>4
  <2>6. AtPiece(v, n, at + Len(Characters(v[k])), buf \o Means(v[k], n))
    BY ONLY <2>5, PieceOn
  <2> QED BY <2>3, <2>4, <2>6
<1> QED
  BY <1>1, <1>3, EmitKeeps

LEMMA PutPercentKeeps ==
  ASSUME ValueInv, PutPercent
  PROVE  ValueInv'
<1>1. InLoop /\ At(valptr) = "%" /\ At(valptr + 1) = "%"
      /\ Emit(<<"%">>, 2)
  BY DEF PutPercent
<1>2. CharAt(asked[1], valptr) = "%" /\ CharAt(asked[1], valptr + 1) = "%"
  BY <1>1, CopyIs DEF InLoop
<1>3. ASSUME NEW k \in 1 .. Len(asked[1]), NEW w, NEW m,
             PieceHere(asked[1], asked[2], valptr, valbuf, k, w, m)
      PROVE  /\ <<"%">> = Means(asked[1][k], asked[2])
             /\ 2 = Len(Characters(asked[1][k]))
  <2>1. asked[1][k] = "%%"
    BY <1>2, <1>3 DEF PieceHere
  <2>2. Characters(asked[1][k]) = <<"%", "%">>
    BY <2>1 DEF Characters
  <2> QED BY <2>1, <2>2 DEF Means
<1> QED
  BY <1>1, <1>3, TurnKeeps

LEMMA PutNameKeeps ==
  ASSUME ValueInv, PutName
  PROVE  ValueInv'
<1>1. InLoop /\ At(valptr) = "%" /\ At(valptr + 1) = "n"
      /\ Emit(asked[2], 2)
  BY DEF PutName, AtName, NodeName
<1>2. CharAt(asked[1], valptr) = "%" /\ CharAt(asked[1], valptr + 1) = "n"
  BY <1>1, CopyIs DEF InLoop
<1>3. ASSUME NEW k \in 1 .. Len(asked[1]), NEW w, NEW m,
             PieceHere(asked[1], asked[2], valptr, valbuf, k, w, m)
      PROVE  /\ asked[2] = Means(asked[1][k], asked[2])
             /\ 2 = Len(Characters(asked[1][k]))
  <2>1. asked[1][k] = "%n"
    BY <1>2, <1>3 DEF PieceHere
  <2>2. Characters(asked[1][k]) = <<"%", "n">>
    BY <2>1 DEF Characters
  <2> QED BY <2>1, <2>2 DEF Means
<1> QED
  BY <1>1, <1>3, TurnKeeps

LEMMA PutCharKeeps ==
  ASSUME ValueInv, PutChar
  PROVE  ValueInv'
<1>1. InLoop /\ (At(valptr) = "%" => At(valptr + 1) \notin {"%", "n"})
      /\ Emit(<<At(valptr)>>, 1)
  BY DEF PutChar
<1>2. CharAt(asked[1], valptr) = "%" =>
        CharAt(asked[1], valptr + 1) \notin {"%", "n"}
  BY <1>1, CopyIs DEF InLoop
<1>3. ASSUME NEW k \in 1 .. Len(asked[1]), NEW w, NEW m,
             PieceHere(asked[1], asked[2], valptr, valbuf, k, w, m)
      PROVE  /\ <<At(valptr)>> = Means(asked[1][k], asked[2])
             /\ 1 = Len(Characters(asked[1][k]))
  <2>1. asked[1][k] \in {"x", "n", "%"}
        /\ asked[1][k] = CharAt(asked[1], valptr)
    BY <1>2, <1>3 DEF PieceHere
  <2>2. At(valptr) = asked[1][k]
    BY <1>1, <2>1, CopyIs DEF InLoop
  <2>3. Characters(asked[1][k]) = <<asked[1][k]>>
    BY <2>1 DEF Characters
  <2>4. Means(asked[1][k], asked[2]) = <<asked[1][k]>>
    BY <2>1 DEF Means
  <2> QED BY <2>2, <2>3, <2>4
<1> QED
  BY <1>1, <1>3, TurnKeeps

\* In a file of simple lines the name is never too long.
LEMMA NameTooLongKeeps ==
  ASSUME ValueInv, NameTooLong
  PROVE  ValueInv'
<1>1. InLoop /\ At(valptr) = "%" /\ At(valptr + 1) = "n" /\ TooLong
      /\ pc = "copy"
  BY DEF NameTooLong, AtName, InLoop
<1>2. CharAt(asked[1], valptr) = "%" /\ CharAt(asked[1], valptr + 1) = "n"
  BY <1>1, CopyIs
<1>3. ~ AllSimple
  <2> SUFFICES ASSUME AllSimple PROVE FALSE
    OBVIOUS
  <2>1. SizeFits(asked, maxvallen) /\ Unambiguous(asked[1])
        /\ maxvallen \in Nat
        /\ asked[1] \in Value /\ asked[2] \in Seq(Char)
    BY <1>1, CopyIs
  <2>2. PICK k \in 1 .. Len(asked[1]) : \E w, m :
           PieceHere(asked[1], asked[2], valptr, valbuf, k, w, m)
    BY <1>1, <2>1, TakesPiece
  <2>3. asked[1][k] = "%n"
    BY <1>2, <2>2 DEF PieceHere
  <2>4. Len(Written(asked[1])) - 2 + Len(asked[2]) <= maxvallen
    BY <2>1, <2>3 DEF SizeFits
  <2>5. Len(Written(asked[1])) \in Nat /\ Len(asked[2]) \in Nat
    BY <2>1, WrittenIs
  <2>6. Len(Written(asked[1])) - 2 + Len(asked[2]) > maxvallen + 1
    BY <1>1 DEF TooLong, Chars, NodeName
  <2>7. PICK x, y, z : x = Len(Written(asked[1])) /\ y = Len(asked[2])
                       /\ z = maxvallen
    OBVIOUS
  <2>8. x \in Nat /\ y \in Nat /\ z \in Nat
        /\ x - 2 + y <= z /\ x - 2 + y > z + 1
    BY <2>1, <2>4, <2>5, <2>6, <2>7
  <2> QED BY ONLY <2>8
<1>4. pc' = "idle" /\ error' = "INTERNAL" /\ file' = file /\ raw' = raw
      /\ maxvallen' = maxvallen /\ asked' = asked
      /\ AllSimple' = AllSimple /\ Pairs' = Pairs
  BY DEF NameTooLong, AllSimple, Pairs
<1>5. Asked'
  BY <1>4 DEF ValueInv, Asked
<1>6. ReadsAsMeant'
  BY <1>4 DEF ReadsAsMeant
<1> QED
  BY <1>3, <1>4, <1>5, <1>6 DEF ValueInv

LEMMA DoneKeeps ==
  ASSUME ValueInv, Done
  PROVE  ValueInv'
<1>1. pc = "copy" /\ valptr > Len(Written(asked[1])) /\ pc' = "idle"
      /\ text' = valbuf /\ file' = file /\ maxvallen' = maxvallen
      /\ raw' = raw /\ asked' = asked /\ valbuf' = valbuf /\ error' = error
  BY DEF Done, Chars
<1>2. AllSimple' = AllSimple /\ Pairs' = Pairs
  BY <1>1 DEF AllSimple, Pairs
<1>3. Asked'
  BY <1>1, <1>2 DEF ValueInv, Asked
<1>4. ASSUME Unambiguous(asked[1])
      PROVE  valbuf = Meaning(asked[1], asked[2])
  <2>1. asked[1] \in Value /\ asked[2] \in Seq(Char)
        /\ AtPiece(asked[1], asked[2], valptr, valbuf)
    BY <1>1, <1>4, CopyIs
  <2> QED BY <1>1, <2>1, AllPieces
<1>5. ReadsAsMeant'
  <2>1. ~ raw
    BY <1>1, CopyIs
  <2> QED BY <1>1, <1>4, <2>1 DEF ReadsAsMeant, Chars, NodeName
<1> QED
  BY <1>1, <1>2, <1>3, <1>5 DEF ValueInv

LEMMA ValueInvNext ==
  ASSUME ValueInv, [ValueNext]_valueVars
  PROVE  ValueInv'
<1>1. CASE PutPercent BY <1>1, PutPercentKeeps
<1>2. CASE PutName BY <1>2, PutNameKeeps
<1>3. CASE NameTooLong BY <1>3, NameTooLongKeeps
<1>4. CASE PutChar BY <1>4, PutCharKeeps
<1>5. CASE Done BY <1>5, DoneKeeps
<1>6. CASE SetFlags BY <1>6, SetFlagsKeeps
<1>7. CASE \E p \in Pairs : Begin(p[1], p[2]) BY <1>7, BeginKeeps
<1>8. CASE UNCHANGED valueVars
  BY <1>8 DEF ValueInv, valueVars, Asked, AllSimple, Pairs, ReadsAsMeant,
              Chars, NodeName
<1> QED
  BY <1>1, <1>2, <1>3, <1>4, <1>5, <1>6, <1>7, <1>8
  DEF ValueNext, CopyStep

THEOREM ValueInvariant == ValueSpec => []ValueInv
<1>1. ValueInv /\ [ValueNext]_valueVars => ValueInv'
  BY ValueInvNext
<1> QED
  BY <1>1, ValueInvInit, PTL DEF ValueSpec

\* Values read as they were meant: whatever pieces a value is of that can be
\* told apart, _genders_get_valptr() gives its text with "%n" replaced by the
\* node and "%%" by "%", or as it stands in the file if raw values are asked
\* for.
THEOREM ValuesReadAsMeant == ValueSpec => []ReadsAsMeant
<1>1. ValueInv => ReadsAsMeant
  BY DEF ValueInv
<1> QED
  BY <1>1, ValueInvariant, PTL

\* Simple values fit: if at most one value of each line names the node, and
\* that once, the maximum that _parse_line() computes suffices for all that is
\* ever written into valbuf, and no value is refused.
THEOREM SimpleValuesAlwaysFit == ValueSpec => []SimpleValuesFit
<1>1. ValueInv => SimpleValuesFit
  BY DEF ValueInv, SimpleValuesFit, AllSimple
<1> QED
  BY <1>1, ValueInvariant, PTL

====
