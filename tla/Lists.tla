---- MODULE Lists ----
(***************************************************************************)
(* The singly linked list of list.c, with its iterators: the database      *)
(* keeps its lines in one, nodeattr what it prints, and both walk them by  *)
(* iterators while they call each other.                                   *)
(*                                                                         *)
(* A node is named by the item it holds, which is in the list once at      *)
(* most; the address of a "next" pointer, which list->tail, an iterator's  *)
(* prev and the local variables of the loops hold, by its owner: a node,   *)
(* or Top for &list->head.  Loops are taken step by step; no other call   *)
(* comes between, as the list is locked, or its callers have one thread.   *)
(***************************************************************************)
EXTENDS Integers, Sequences, FiniteSets

CONSTANTS
  Item,     \* what callers put in lists
  Iter,     \* the iterators
  Top,     \* the owner of list->head
  Nil,      \* NULL
  Rank      \* items are sorted and matched by their rank

ASSUME ListsAssumption ==
  /\ Top \notin Item /\ Nil \notin Item /\ Top # Nil
  /\ Rank \in [Item -> Int]
  /\ IsFiniteSet(Item)

VARIABLES
  list,     \* struct list: nodes (allocated), next, tail, count, open, iter
  scan,     \* the loop that is going on, if any: see Loop
  answer    \* what the last call returned

vars == <<list, scan, answer>>

Owner == Item \cup {Top}
Node == Item \cup {Nil}
Ranks == {Rank[x] : x \in Item}
Position == [prev : Owner, pos : Node]

\* The items from a node on: what loops over p->next meet.
Chain(next) ==
  LET from[n \in 0 .. Cardinality(Item)] ==
        [p \in Node |->
           IF n = 0 \/ p = Nil THEN <<>> ELSE <<p>> \o from[n - 1][next[p]]]
  IN  from[Cardinality(Item)]
Items == Chain(list.next)[list.next[Top]]

Matches(x, key) == Rank[x] = key

-----------------------------------------------------------------------------
(* Nodes in and out, and the iterators that stand there.                   *)

AtHead(next) == [prev |-> Top, pos |-> next[Top]]
Closed == [prev |-> Top, pos |-> Nil]

Created ==
  [nodes |-> {}, next |-> [o \in Owner |-> Nil], tail |-> Top, count |-> 0,
   open |-> {}, iter |-> [i \in Iter |-> Closed]]

\* The iterators in use, moved by f; the rest are not there.
Moved(l, f(_)) ==
  [i \in Iter |-> IF i \in l.open THEN f(l.iter[i]) ELSE Closed]

\* x comes in behind pp, before the node that was there.
AfterCreate(it, pp, x, behind) ==
  [prev |-> IF it.prev = pp THEN x ELSE it.prev,
   pos  |-> IF it.prev # pp /\ it.pos = behind THEN x ELSE it.pos]

\* A slip: iterators that stand right behind pp stay there.
NodeCreateBehind(l, pp, x) ==
  [nodes |-> l.nodes \cup {x},
   next  |-> [l.next EXCEPT ![x] = l.next[pp], ![pp] = x],
   tail  |-> IF l.next[pp] = Nil THEN x ELSE l.tail,
   count |-> l.count + 1,
   open  |-> l.open,
   iter  |-> l.iter]

\* A slip: the tail is not moved on.
NodeCreateTail(l, pp, x) ==
  [nodes |-> l.nodes \cup {x},
   next  |-> [l.next EXCEPT ![x] = l.next[pp], ![pp] = x],
   tail  |-> l.tail,
   count |-> l.count + 1,
   open  |-> l.open,
   iter  |-> Moved(l, LAMBDA it : AfterCreate(it, pp, x, l.next[pp]))]

\* list_node_create()
NodeCreate(l, pp, x) ==
  [nodes |-> l.nodes \cup {x},
   next  |-> [l.next EXCEPT ![x] = l.next[pp], ![pp] = x],
   tail  |-> IF l.next[pp] = Nil THEN x ELSE l.tail,
   count |-> l.count + 1,
   open  |-> l.open,
   iter  |-> Moved(l, LAMBDA it : AfterCreate(it, pp, x, l.next[pp]))]

\* A slip: only iterators that would meet p next are moved.
AfterDestroyNext(it, pp, p, behind) ==
  [prev |-> IF it.pos = p THEN pp ELSE it.prev,
   pos  |-> IF it.pos = p THEN behind ELSE it.pos]

\* p, which was behind pp, is out.
AfterDestroy(it, pp, p, behind) ==
  [prev |-> IF it.pos = p \/ it.prev = p THEN pp ELSE it.prev,
   pos  |-> IF it.pos = p THEN behind ELSE it.pos]

\* list_node_destroy(), where there is a node.
NodeDestroy(l, pp) ==
  LET p == l.next[pp]
      behind == l.next[p]
  IN  [nodes |-> l.nodes \ {p},
       next  |-> [l.next EXCEPT ![pp] = behind, ![p] = Nil],
       tail  |-> IF behind = Nil THEN pp ELSE l.tail,
       count |-> l.count - 1,
       open  |-> l.open,
       iter  |-> Moved(l, LAMBDA it : AfterDestroy(it, pp, p, behind))]

\* list_next()
Advanced(next, it) ==
  [prev |-> IF next[it.prev] # it.pos THEN next[it.prev] ELSE it.prev,
   pos  |-> IF it.pos = Nil THEN Nil ELSE next[it.pos]]

With(l, next, tail, open, iter) ==
  [nodes |-> l.nodes, next |-> next, tail |-> tail, count |-> l.count,
   open |-> open, iter |-> iter]
Reading(l, iter) == With(l, l.next, l.tail, l.open, iter)

-----------------------------------------------------------------------------
(* The calls.                                                              *)

\* A loop that is going on: its local variables pp, ppPrev (back), ppPos (spot,
\* while a place is sought) and n, and what it began with (was): the iterator
\* of list_find(), and the items of a list that is sorted.
Loop(call, key, pp, back, spot, n, was) ==
  [call |-> call, key |-> key, pp |-> pp, back |-> back, spot |-> spot,
   n |-> n, was |-> was]
Idle == Loop("none", 0, Top, Top, Nil, 0, <<>>)

Init ==
  /\ list = Created
  /\ scan = Idle
  /\ answer = Nil

\* A call that is done at once.
Call(result) ==
  /\ scan = Idle
  /\ answer' = result
  /\ UNCHANGED scan

\* list_create() makes an empty list of the memory of one list_destroy()
\* has given back, with its nodes and its iterators.
Renew == Call(Nil) /\ list' = Created

\* A node for x goes behind pp, if there is memory for it.
Put(pp, x) ==
  /\ x \in Item \ list.nodes
  /\ \/ Call(x) /\ list' = NodeCreate(list, pp, x)
     \/ Call(Nil) /\ UNCHANGED list

AppendItem == \E x \in Item : Put(list.tail, x)
Enqueue == \E x \in Item : Put(list.tail, x)
Prepend == \E x \in Item : Put(Top, x)
Push == \E x \in Item : Put(Top, x)
\* list_insert()
Insert == \E i \in list.open, x \in Item : Put(list.iter[i].prev, x)

\* What is behind pp goes out, if anything is.
Out(pp) ==
  list' = IF list.next[pp] = Nil THEN list ELSE NodeDestroy(list, pp)
Take(pp) == Call(list.next[pp]) /\ Out(pp)

Pop == Take(Top)
Dequeue == Take(Top)
Peek == Call(list.next[Top]) /\ UNCHANGED list

\* list_remove(): the item that was met last, if it is still there.
Remove == \E i \in list.open :
  IF list.next[list.iter[i].prev] # list.iter[i].pos
  THEN Take(list.iter[i].prev)
  ELSE Call(Nil) /\ UNCHANGED list

\* list_delete() counts the items it has removed.
Delete == \E i \in list.open :
  IF list.next[list.iter[i].prev] # list.iter[i].pos
  THEN /\ Call(IF list.next[list.iter[i].prev] = Nil THEN 0 ELSE 1)
       /\ Out(list.iter[i].prev)
  ELSE Call(0) /\ UNCHANGED list

IterCreate == \E i \in Iter \ list.open :
  \/ /\ Call(Nil)
     /\ list' = With(list, list.next, list.tail, list.open \cup {i},
                     [list.iter EXCEPT ![i] = AtHead(list.next)])
  \/ Call(Nil) /\ UNCHANGED list

IterReset == \E i \in list.open :
  /\ Call(Nil)
  /\ list' = Reading(list, [list.iter EXCEPT ![i] = AtHead(list.next)])

IterDestroy == \E i \in list.open :
  /\ Call(Nil)
  /\ list' = With(list, list.next, list.tail, list.open \ {i},
                  [list.iter EXCEPT ![i] = Closed])

Meet(i) ==
  list' = Reading(list, [list.iter EXCEPT
                           ![i] = Advanced(list.next, list.iter[i])])

ListNext == \E i \in list.open : Call(list.iter[i].pos) /\ Meet(i)

\* The first item that matches, or NULL.
FirstMatch(items, key) ==
  IF \E n \in DOMAIN items : Matches(items[n], key)
  THEN items[CHOOSE n \in DOMAIN items :
               /\ Matches(items[n], key)
               /\ \A m \in 1 .. n - 1 : ~ Matches(items[m], key)]
  ELSE Nil

FindFirst == \E key \in Ranks :
  Call(FirstMatch(Items, key)) /\ UNCHANGED list

\* list_for_each(), where the function fails on the n-th item or on none.
ForEach == \E n \in 1 .. list.count + 1 :
  Call(IF n > list.count THEN list.count ELSE -n) /\ UNCHANGED list

\* list_find(): list_next() until an item matches.
Find == \E i \in list.open, key \in Ranks :
  /\ scan = Idle
  /\ scan' = Loop("find", key, Top, Top, Nil, 0, <<i>>)
  /\ UNCHANGED <<list, answer>>

Finding ==
  /\ scan.call = "find"
  /\ LET i == scan.was[1] IN
     /\ Meet(i)
     /\ answer' = list.iter[i].pos
     /\ scan' = IF list.iter[i].pos = Nil
                  \/ Matches(list.iter[i].pos, scan.key)
                THEN Idle ELSE scan

\* list_delete_all(): what matches goes, and the loop stays where it is.
DeleteAll == \E key \in Ranks :
  /\ scan = Idle
  /\ scan' = Loop("delete_all", key, Top, Top, Nil, 0, <<>>)
  /\ UNCHANGED <<list, answer>>

Deleting ==
  /\ scan.call = "delete_all"
  /\ LET p == list.next[scan.pp] IN
     IF p = Nil
     THEN answer' = scan.n /\ scan' = Idle /\ UNCHANGED list
     ELSE IF Matches(p, scan.key)
     THEN /\ list' = NodeDestroy(list, scan.pp)
          /\ scan' = Loop("delete_all", scan.key, scan.pp, Top, Nil,
                          scan.n + 1, <<>>)
          /\ UNCHANGED answer
     ELSE /\ scan' = Loop("delete_all", scan.key, p, Top, Nil, scan.n, <<>>)
          /\ UNCHANGED <<list, answer>>

-----------------------------------------------------------------------------
(* list_sort(): each node that is less than the one before it, which ends  *)
(* the part that is in order, goes where it belongs.                       *)

Sort ==
  IF list.count > 1
  THEN /\ scan = Idle
       /\ scan' = Loop("sort", 0, list.next[Top], Top, Nil, 0, Items)
       /\ UNCHANGED <<list, answer>>
  ELSE Call(Nil) /\ UNCHANGED list

Sorting == scan.call = "sort" /\ scan.spot = Nil /\ list.next[scan.pp] # Nil

Less(x, y) == Rank[x] < Rank[y]

\* Is the node at pp to go before the last of those in order?
SortCompare ==
  /\ Sorting
  /\ scan' =
       IF Less(list.next[scan.pp], list.next[scan.back])
       THEN Loop("sort", 0, scan.pp, scan.back, Top, 0, scan.was)
       ELSE Loop("sort", 0, list.next[scan.pp], scan.pp, Nil, 0, scan.was)
  /\ UNCHANGED <<list, answer>>

SortLook ==
  /\ scan.call = "sort" /\ scan.spot # Nil
  /\ ~ Less(list.next[scan.pp], list.next[scan.spot])
  /\ scan' = Loop("sort", 0, scan.pp, scan.back, list.next[scan.spot], 0,
                  scan.was)
  /\ UNCHANGED <<list, answer>>

\* A slip: ppPrev is left where it was.
SortMoveBack ==
  /\ scan.call = "sort" /\ scan.spot # Nil
  /\ Less(list.next[scan.pp], list.next[scan.spot])
  /\ LET x == list.next[scan.pp]
         next == [list.next EXCEPT ![x] = list.next[scan.spot],
                                   ![scan.spot] = x,
                                   ![scan.pp] = list.next[x]]
     IN  /\ list' = With(list, next, list.tail, list.open, list.iter)
         /\ scan' = Loop("sort", 0, scan.pp,
                         scan.back, Nil, 0, scan.was)
  /\ UNCHANGED answer

\* The node at pp goes behind spot.
SortMove ==
  /\ scan.call = "sort" /\ scan.spot # Nil
  /\ Less(list.next[scan.pp], list.next[scan.spot])
  /\ LET x == list.next[scan.pp]
         next == [list.next EXCEPT ![x] = list.next[scan.spot],
                                   ![scan.spot] = x,
                                   ![scan.pp] = list.next[x]]
     IN  /\ list' = With(list, next, list.tail, list.open, list.iter)
         /\ scan' = Loop("sort", 0, scan.pp,
                         IF scan.back = scan.spot THEN x ELSE scan.back,
                         Nil, 0, scan.was)
  /\ UNCHANGED answer

\* A slip: iterators are left where they were.
SortEndLeaves ==
  /\ scan.call = "sort" /\ scan.spot = Nil /\ list.next[scan.pp] = Nil
  /\ list' = With(list, list.next, scan.pp, list.open, list.iter)
  /\ scan' = Idle
  /\ answer' = Nil

SortEnd ==
  /\ scan.call = "sort" /\ scan.spot = Nil /\ list.next[scan.pp] = Nil
  /\ list' = With(list, list.next, scan.pp, list.open,
                  Moved(list, LAMBDA it : AtHead(list.next)))
  /\ scan' = Idle
  /\ answer' = Nil

-----------------------------------------------------------------------------
Next ==
  \/ Renew
  \/ AppendItem \/ Enqueue \/ Prepend \/ Push \/ Insert
  \/ Pop \/ Dequeue \/ Peek \/ Remove \/ Delete
  \/ IterCreate \/ IterReset \/ IterDestroy \/ ListNext
  \/ FindFirst \/ ForEach \/ Find \/ DeleteAll \/ Sort
  \/ Finding \/ Deleting
  \/ SortCompare \/ SortLook \/ SortMove \/ SortEnd

Spec == Init /\ [][Next]_vars

-----------------------------------------------------------------------------
(* What must hold.                                                         *)

\* Every pointer of the list, of its iterators and of a loop is NULL or leads
\* to a node that is allocated: nothing reads what list_node_free() was given.
LivePointers ==
  /\ list.nodes \subseteq Item
  /\ list.next \in [Owner -> list.nodes \cup {Nil}]
  /\ list.tail \in list.nodes \cup {Top}
  /\ list.iter \in [Iter -> [prev : list.nodes \cup {Top},
                            pos : list.nodes \cup {Nil}]]
  /\ scan.pp \in list.nodes \cup {Top}
  /\ scan.back \in list.nodes \cup {Top}
  /\ scan.spot \in list.nodes \cup {Top, Nil}

\* list_node_create() and list_node_destroy() assert of every iterator that
\* it stands on what its prev leads to or on the node behind that: so no call
\* through an iterator follows NULL or takes out what was not met last.
Agrees(next, it) ==
  \/ it.pos = next[it.prev]
  \/ next[it.prev] # Nil /\ it.pos = next[next[it.prev]]
IteratorsAgree ==
  /\ LivePointers
  /\ scan.call # "sort" =>
       \A i \in list.open : Agrees(list.next, list.iter[i])

\* Whatever was put in and taken out, all nodes hang together from the head,
\* none twice, as many as list_count() says, and tail is the end of them.
ListIsWhole ==
  /\ {Items[n] : n \in DOMAIN Items} = list.nodes
  /\ Len(Items) = list.count
  /\ scan.call # "sort" =>
       list.tail = IF Items = <<>> THEN Top ELSE Items[Len(Items)]

\* list.h: "The sort algorithm is stable."  Sorting leaves the items that were
\* there, in ascending order, equal ones in the order they were in.
Place(s, x) == CHOOSE n \in DOMAIN s : s[n] = x
SortIsStable == [][
  scan.call = "sort" /\ scan'.call # "sort" =>
    /\ {Items'[n] : n \in DOMAIN Items'}
         = {scan.was[n] : n \in DOMAIN scan.was}
    /\ \A m, n \in DOMAIN Items' : m < n =>
         \/ Rank[Items'[m]] < Rank[Items'[n]]
         \/ /\ Rank[Items'[m]] = Rank[Items'[n]]
            /\ Place(scan.was, Items'[m]) < Place(scan.was, Items'[n])
  ]_vars

\* Traversals are as promised, however many iterators read the list and
\* whoever puts items in or takes them out.  While it is being sorted, a list
\* is what it was.
Seen == IF scan.call = "sort" THEN scan.was ELSE Items
Todo(i) ==
  LET pos == list.iter[i].pos
  IN  IF pos = Nil THEN <<>> ELSE SubSeq(Seen, Place(Seen, pos), Len(Seen))
Met(i) ==
  LET prev == list.iter[i].prev
      n == IF prev = Top THEN 1 ELSE Place(Seen, prev) + 1
  IN  IF n > Len(Seen) \/ i \notin list.open THEN Nil
      ELSE IF Seen[n] = list.iter[i].pos THEN Nil ELSE Seen[n]
Promised == INSTANCE Traversal WITH
  items <- Seen, open <- list.open, None <- Nil,
  todo <- [i \in Iter |-> Todo(i)], last <- [i \in Iter |-> Met(i)]
TraversalsAreWhole == Promised!Spec

====
