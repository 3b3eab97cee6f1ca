---- MODULE HostNames ----
(***************************************************************************)
(* What a hostlist promises: it is a sequence of names.  The code behind   *)
(* it keeps ranges instead (Hostlist).                                     *)
(***************************************************************************)
EXTENDS Integers, Sequences, SequencesExt

CONSTANTS
  Text,        \* texts with names in them
  Spelled      \* the names in each text

VARIABLES
  names,       \* the names in the list
  visited      \* how many of them an iterator has returned; -1 without iterator

vars == <<names, visited>>

Init == names = <<>> /\ visited = -1

\* Looking a name up, printing and asking for more at the end change nothing.
Find == UNCHANGED vars

\* A text goes to the end.
Push ==
  /\ UNCHANGED visited
  /\ \E t \in Text : names' = names \o Spelled[t]

\* A list is emptied, its iterator is gone.
Renew == names' = <<>> /\ visited' = -1

\* Each name of a text is removed once, where it comes first.
Delete ==
  /\ UNCHANGED visited
  /\ \E t \in Text :
       names' = FoldLeft(RemoveFirst, names, Reverse(Spelled[t]))

DeleteFirst == names # <<>> /\ names' = Tail(names) /\ UNCHANGED visited

Pop == names # <<>> /\ names' = Front(names) /\ UNCHANGED visited

Copies(s, n) == Cardinality({i \in DOMAIN s : s[i] = n})

\* Names are removed from s, but not the last of a kind.
Thinned(s) ==
  LET left == names'
  IN  /\ ToSet(left) = ToSet(s)
      /\ \A n \in ToSet(s) : Copies(left, n) \in 1 .. Copies(s, n)

Rewind == IF visited = -1 THEN UNCHANGED visited ELSE visited' \in {visited, 0}

\* Sorting moves names about.
Sort ==
  /\ LET before == names
         after == names'
     IN  \A n \in ToSet(before) \cup ToSet(after) :
           Copies(after, n) = Copies(before, n)
  /\ Rewind

\* So does removing duplicates, which leaves at least one of each.
Uniq == Thinned(names) /\ Rewind

\* Of two lists that are put together one may be left out.
Union ==
  /\ UNCHANGED visited
  /\ \E t \in Text : \/ Thinned(names \o Spelled[t])
                     \/ Thinned(names)
                     \/ Thinned(Spelled[t])

Open == visited' = 0 /\ UNCHANGED names

Close == visited' = -1 /\ UNCHANGED names

\* An iterator returns one name after the other.
Visit ==
  /\ visited \in 0 .. Len(names) - 1
  /\ visited' = visited + 1
  /\ UNCHANGED names

\* A name is taken off the front of a list that is read, or one that an iterator
\* just returned out of it.
Shift ==
  /\ names # <<>> /\ names' = Tail(names)
  /\ visited' = IF visited > 0 THEN visited - 1 ELSE visited

RemoveMet ==
  /\ visited \in 1 .. Len(names)
  /\ names' = RemoveAt(names, visited)
  /\ visited' = visited - 1

\* So are several names at once, from either end, or returned.  Those that go from
\* the front of a list that is read have all been returned.
ShiftSome ==
  \E k \in 1 .. Len(names) :
    /\ names' = SubSeq(names, k + 1, Len(names))
    /\ \/ visited = -1 /\ visited' = -1
       \/ visited = Len(names) /\ visited' = visited - k

PopSome ==
  \E k \in 0 .. Len(names) - 1 :
    /\ names' = SubSeq(names, 1, k)
    /\ visited' = IF visited < k THEN visited ELSE k

VisitSome ==
  /\ visited >= 0
  /\ visited' \in visited + 1 .. Len(names)
  /\ UNCHANGED names

\* A set, a new one too, has no use for a name that it has.
Insert ==
  /\ UNCHANGED visited
  /\ \E t \in Text : Thinned(names \o Spelled[t])

Next ==
  \/ Find \/ Visit \/ Open \/ Close \/ Pop \/ DeleteFirst \/ Renew \/ Shift
  \/ RemoveMet \/ ShiftSome \/ PopSome \/ VisitSome \/ Push
  \/ Insert \/ Delete \/ Sort \/ Uniq \/ Union

Spec == Init /\ [][Next]_vars

====
