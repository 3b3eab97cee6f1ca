---- MODULE Hostset ----
(***************************************************************************)
(* The rest of hostlist.h, which the programs at the end of hostlist.c     *)
(* try out and nothing else calls yet: host sets, an iterator that goes    *)
(* from bracket to bracket or removes what it met, and hosts and brackets  *)
(* that are taken off either end.  A set is a list, so it is the one of    *)
(* Hostlist, in the hands of callers who only call what is for sets.       *)
(*                                                                         *)
(* Some of these calls leave a list whose array or number of hosts is      *)
(* wrong.  A guard on those says which calls do not; the README lists what *)
(* happens otherwise.                                                      *)
(***************************************************************************)
EXTENDS Hostlist

VARIABLES
  set,     \* whether the list is that of a hostset
  met      \* what the iterator was last asked: "new" (nothing), "host" (for a
           \* host, which is still there), "gone" (which is not), "range"

setVars == <<list, reader, set, met>>

SetInit == Init /\ set = FALSE /\ met = "new"

\* The calls of Hostlist, of which some are not for sets.
ListOnly ==
  /\ ~set
  /\ Push \/ Union \/ DeleteFirst \/ Sort \/ Uniq
  /\ met' = IF reader.open THEN "new" ELSE met
  /\ UNCHANGED set
Lookups == (Pop \/ Find \/ Delete) /\ UNCHANGED <<set, met>>
Iterate ==
  /\ Open \/ Close \/ Renew
  /\ met' = "new"
  /\ set' = (set /\ list' = list)
NextMet ==
  /\ met # "range"
  /\ NextHost
  /\ met' = IF reader'.idx < Len(list.hr) THEN "host" ELSE "gone"
  /\ UNCHANGED set

-----------------------------------------------------------------------------
(* An iterator that goes from bracket to bracket, or removes hosts.        *)

\* hostlist_next_range()
NextRange ==
  /\ reader.open /\ met \in {"new", "range"}
  /\ reader.idx < Len(list.hr)
  /\ reader' = [reader EXCEPT
       !.idx = IF reader.depth < 0 THEN @
               ELSE BracketEnd(list.hr, reader.idx + 1) - 1,
       !.depth = 0]
  /\ met' = "range"
  /\ UNCHANGED <<list, set>>

\* hostlist_remove(): the range splits, shrinks or goes.  When it goes, the
\* iterator goes to the range before, at the same depth.
Removed(l, it) ==
  LET r == l.hr[it.idx + 1]
      rest == Remaining(r, r.lo + it.depth)
  IN  [list |-> [hr |-> SubSeq(l.hr, 1, it.idx) \o rest
                          \o SubSeq(l.hr, it.idx + 2, Len(l.hr)),
                 nhosts |-> l.nhosts - 1],
       reader |->
         CASE Len(rest) = 2 -> [it EXCEPT !.idx = @ + 1, !.depth = -1]
           [] Len(rest) = 1 -> [it EXCEPT !.depth = @ - 1]
           [] OTHER -> IF it.idx = 0 THEN Reset ELSE [it EXCEPT !.idx = @ - 1]]

\* Behind a range of several hosts, an iterator would return these again.
RemovesInPlace(hr, it) ==
  it.idx > 0 /\ Count(hr[it.idx + 1]) = 1 => Count(hr[it.idx]) = 1

RemoveMet ==
  /\ reader.open /\ met = "host"
  /\ Careful => RemovesInPlace(list.hr, reader)
  /\ \E after \in {Removed(list, reader)} :
       list' = after.list /\ reader' = after.reader
  /\ met' = "gone"
  /\ UNCHANGED set

-----------------------------------------------------------------------------
(* Either end.                                                             *)

\* The iterator after the first range has become r: one in it follows, or starts
\* again when it goes.
Shifted(it, r) ==
  IF ~it.open THEN it
  ELSE IF IsEmpty(r)
  THEN IF it.idx = 0 THEN Reset ELSE [it EXCEPT !.idx = @ - 1]
  ELSE IF it.idx = 0 /\ it.depth >= 0 THEN [it EXCEPT !.depth = @ - 1]
  ELSE it

\* hostlist_shift()
Shift ==
  /\ list.nhosts > 0 /\ met # "range"
  /\ LET r == [Head(list.hr) EXCEPT !.lo = @ + 1]
     IN  /\ list' = [hr |-> IF IsEmpty(r) THEN Tail(list.hr)
                            ELSE Cons(r, Tail(list.hr)),
                     nhosts |-> list.nhosts - 1]
         /\ reader' = Shifted(reader, r)
  /\ met' = IF met = "host" /\ reader'.depth < 0 THEN "gone" ELSE met
  /\ UNCHANGED set

\* What goes is pushed on another list first, where ranges may merge; the array
\* is shortened by the number of ranges there.
Taken(ranges) == PushAll(Empty, [hr |-> ranges]).to

\* hostlist_pop_range(): no iterator is told.
PopRange ==
  /\ list.hr # <<>>
  /\ \E i \in DOMAIN list.hr :
       /\ BracketEnd(list.hr, i) = Len(list.hr) + 1
       /\ i > 1 => BracketEnd(list.hr, i - 1) = i
       /\ LET tail == SubSeq(list.hr, i, Len(list.hr))
          IN  /\ Len(Taken(tail).hr) = Len(tail)
              /\ list' = [hr |-> SubSeq(list.hr, 1, i - 1),
                          nhosts |-> list.nhosts - Taken(tail).nhosts]
  /\ met' = IF met = "host" /\ reader.idx >= Len(list'.hr) THEN "gone" ELSE met
  /\ UNCHANGED <<reader, set>>

\* hostlist_shift_range(): iterators are moved by number before the ranges are.
\* One in what goes would stay in a freed range, and one behind it would be given
\* a freed range or another than its own: an open iterator has met them all.
ShiftRange ==
  /\ list.hr # <<>>
  /\ LET n == BracketEnd(list.hr, 1) - 1
         head == SubSeq(list.hr, 1, n)
     IN  /\ Len(Taken(head).hr) = n
         /\ reader.open => reader.idx >= Len(list.hr)
         /\ list' = [hr |-> SubSeq(list.hr, n + 1, Len(list.hr)),
                     nhosts |-> list.nhosts - Taken(head).nhosts]
         /\ reader' = IF reader.open THEN [reader EXCEPT !.idx = @ - n]
                      ELSE reader
  /\ UNCHANGED <<set, met>>

-----------------------------------------------------------------------------
(* Sets.                                                                   *)

\* _attempt_range_join() of range i and the one before it.
JoinAt(l, i) ==
  LET j == Join(l.hr[i - 1], l.hr[i])
      before == SubSeq(l.hr, 1, i - 2)
      behind == SubSeq(l.hr, i + 1, Len(l.hr))
  IN  IF i = 1 THEN [dup |-> 0, list |-> l]
      ELSE IF j.dup < 0
      THEN [dup |-> 0,
            list |-> [l EXCEPT !.hr = before \o <<j.left, j.right>> \o behind]]
      ELSE [dup |-> j.dup,
            list |-> [hr |-> before \o <<j.left>> \o behind,
                      nhosts |-> l.nhosts - j.dup]]

\* hostset_insert_range(): r goes before the first range that is not less, and is
\* joined with it and with the one before.  What the latter has in common with r
\* is subtracted twice.
InsertRange(l, r) ==
  LET i == SelectInSeq(l.hr, LAMBDA s : Cmp(r, s) <= 0)
      j == Join(r, l.hr[i])
      put == [l EXCEPT !.hr = SubSeq(@, 1, i - 1) \o <<j.left>>
                 \o (IF j.dup < 0 THEN <<j.right>> ELSE <<>>)
                 \o SubSeq(@, i + 1, Len(@))]
      joined(p) == [p.list EXCEPT
                      !.nhosts = @ + Count(r) - Larger(j.dup, 0) - p.dup]
  IN  IF i = 0
      THEN JoinAt([hr |-> Append(l.hr, r), nhosts |-> l.nhosts + Count(r)],
                  Len(l.hr) + 1).list
      ELSE joined(JoinAt(put, i))

\* What r has in common with the range before it is not subtracted twice, and it
\* does not reach a third range.
InsertsRight(l, r) ==
  LET i == SelectInSeq(l.hr, LAMBDA s : Cmp(r, s) <= 0)
      j == Join(r, l.hr[i])
  IN  i > 0 => /\ i > 1 => Join(l.hr[i - 1], j.left).dup <= 0
               /\ j.dup >= 0 /\ i < Len(l.hr)
                    => Join(j.left, l.hr[i + 1]).dup <= 0

InsertAll(l, ranges) == FoldLeft(InsertRange, l, ranges)

\* hostset_create(), in the place of a list that is gone
SetCreate ==
  /\ list = Empty /\ reader = Closed
  /\ \E t \in Text : ~Refused(t) /\ list' \in Joined(Create(t))
  /\ list'.nhosts <= MaxHosts
  /\ reader' = Closed /\ set' = TRUE /\ met' = "new"

\* hostset_insert()
SetInsert ==
  /\ set /\ Unread
  /\ \E t \in Text :
       /\ ~Refused(t)
       /\ \E new \in Joined(Create(t)) :
            /\ Careful => \A k \in DOMAIN new.hr :
                 InsertsRight(InsertAll(list, SubSeq(new.hr, 1, k - 1)),
                              new.hr[k])
            /\ list' = InsertAll(list, new.hr)
  /\ list'.nhosts <= MaxHosts
  /\ UNCHANGED <<reader, set, met>>

SetNext ==
  \/ ListOnly \/ Lookups \/ Iterate \/ NextMet
  \/ NextRange \/ RemoveMet \/ Shift \/ PopRange \/ ShiftRange
  \/ SetCreate \/ SetInsert

SetSpec == SetInit /\ [][SetNext]_setVars

-----------------------------------------------------------------------------
(* Properties.                                                             *)

IsSet(hr) ==
  /\ IsSorted(hr, LAMBDA r, s : Cmp(r, s) <= 0)
  /\ Len(Names(hr)) = Cardinality(ToSet(Names(hr)))

\* A set has no host twice and is in order (hostlist.h:59-64) after it is made
\* and after each insertion and removal, and a list has no host twice after
\* hostlist_uniq(), as long as names are padded and cut alike.
EachNameOnce ==
  /\ UniqLeavesOneEach
  /\ [][set' /\ PaddedAlike(list'.hr) /\ CutAlike(list'.hr) =>
           \/ IsSet(list'.hr)
           \/ ~SetCreate /\ ~(PaddedAlike(list.hr) /\ IsSet(list.hr))]_setVars

\* The names that hostlist_push() finds in a text.
Spelling ==
  [t \in Text |-> IF Refused(t) THEN <<>> ELSE Names(Create(t).hr)]

\* How many hosts the iterator has passed.
Visited ==
  IF ~reader.open THEN -1
  ELSE IF reader.idx >= Len(list.hr) THEN Len(Names(list.hr))
  ELSE IF met = "range" THEN Before(list.hr, BracketEnd(list.hr, reader.idx + 1))
  ELSE Before(list.hr, reader.idx + 1) + reader.depth + 1

Abstract == INSTANCE HostNames WITH Spelled <- Spelling,
                                    names <- Names(list.hr),
                                    visited <- Visited

\* Every operation does to the names of a list what it does to a sequence of
\* names: nothing is lost, added or moved when ranges merge, split, overlap or
\* change their width, and an iterator returns each name once, in order.
IsSequence == Abstract!Spec

====
