---- MODULE Traversal ----
(***************************************************************************)
(* What a list of list.c promises those who read it by iterators: an       *)
(* iterator meets the items in the order of the list, none twice, none     *)
(* that was taken out, and each one that stays in the list, whatever is    *)
(* put in or taken out meanwhile.  What is put in right where an iterator  *)
(* stands is met or not.                                                   *)
(***************************************************************************)
EXTENDS Integers, Sequences

CONSTANTS Item, Iter, None

VARIABLES
  items,   \* the items of the list, in order
  open,    \* the iterators in use
  todo,    \* what each iterator has still to meet
  last     \* the item it has met last, if it may still be taken out by it

vars == <<items, open, todo, last>>

\* s without x, which is in it once at most.
Without(s, x) ==
  IF \A n \in DOMAIN s : s[n] # x THEN s
  ELSE LET n == CHOOSE m \in DOMAIN s : s[m] = x
       IN  SubSeq(s, 1, n - 1) \o SubSeq(s, n + 1, Len(s))
PutAt(s, k, x) == SubSeq(s, 1, k) \o <<x>> \o SubSeq(s, k + 1, Len(s))

\* Where an iterator stands: how many items are behind it.
Behind(i) == Len(items) - Len(todo[i])

Init ==
  /\ items = <<>>
  /\ open = {}
  /\ todo = [i \in Iter |-> <<>>]
  /\ last = [i \in Iter |-> None]

\* An item is in a list once.
Put(x) == \E k \in 0 .. Len(items) :
  /\ \A n \in DOMAIN items : items[n] # x
  /\ items' = PutAt(items, k, x)
  /\ todo' \in [Iter -> Seq(Item)]
  /\ \A i \in open :
       IF k < Behind(i) THEN todo'[i] = todo[i]
       ELSE \/ todo'[i] = PutAt(todo[i], k - Behind(i), x)
            \/ k = Behind(i) /\ todo'[i] = todo[i]
  /\ UNCHANGED <<open, last>>

\* Taking out what an iterator would meet next may make it forget the last.
Take(x) ==
  /\ items' = Without(items, x)
  /\ todo' = [i \in Iter |-> Without(todo[i], x)]
  /\ \A i \in Iter : last'[i] \in {None} \cup ({last[i]} \ {x})
  /\ UNCHANGED open

Meet(i) ==
  /\ i \in open
  /\ IF todo[i] = <<>>
     THEN last' = [last EXCEPT ![i] = None] /\ UNCHANGED todo
     ELSE /\ last' = [last EXCEPT ![i] = Head(todo[i])]
          /\ todo' = [todo EXCEPT ![i] = Tail(todo[i])]
  /\ UNCHANGED <<items, open>>

\* An iterator starts at the head of the list, when it is made and again.
Start(i) ==
  /\ open' = open \cup {i}
  /\ todo' = [todo EXCEPT ![i] = items]
  /\ last' = [last EXCEPT ![i] = None]
  /\ UNCHANGED items

Stop(i) ==
  /\ open' = open \ {i}
  /\ todo' = [todo EXCEPT ![i] = <<>>]
  /\ last' = [last EXCEPT ![i] = None]
  /\ UNCHANGED items

\* Sorting puts the same items in another order and resets all iterators.
Reorder ==
  /\ Len(items') = Len(items)
  /\ \A n \in DOMAIN items : \E m \in DOMAIN items' : items'[m] = items[n]
  /\ todo' = [i \in Iter |-> IF i \in open THEN items' ELSE <<>>]
  /\ last' = [i \in Iter |-> None]
  /\ UNCHANGED open

Discard ==
  /\ items' = <<>>
  /\ open' = {}
  /\ todo' = [i \in Iter |-> <<>>]
  /\ last' = [i \in Iter |-> None]

Next ==
  \/ \E x \in Item : Put(x) \/ Take(x)
  \/ \E i \in Iter : Meet(i) \/ Start(i) \/ Stop(i)
  \/ Reorder
  \/ Discard

Spec == Init /\ [][Next]_vars

====
