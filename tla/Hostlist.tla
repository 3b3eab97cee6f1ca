---- MODULE Hostlist ----
(***************************************************************************)
(* The list of hostlist.c: libgenders keeps the nodes of a file and of a   *)
(* line in one, calculates queries with them, and nodeattr prints them.    *)
(* It is an array of ranges and the number of its hosts.  A list that is   *)
(* read by an iterator is not changed by its caller until the iterator is  *)
(* destroyed, but for sorting, which resets it; look-ups rewrite the width *)
(* of a range meanwhile.  Memory is taken to suffice.                      *)
(***************************************************************************)
EXTENDS HostText, FiniteSets

CONSTANTS
  Text,      \* what hostlist_push() is given: sequences of pieces
  Lookup,    \* the names that are looked up
  MaxRange,  \* MAX_RANGE: a piece with a longer range is refused
  Careful,   \* whether callers sort no list that hostlist_sort() may spoil
  FreedLo,   \* what lo may be read as in a range that has been freed
  MaxHosts,  \* bound of the model: how many hosts a caller puts in
  MaxRanges, \* bound of the model: the longest array that is sorted
  MaxLooks   \* bound of the model: how often a sort looks for an overlap

\* What _parse_single_range() lets through.
Between ==
  {r \in [lo : Nat, hi : Nat, width : Nat] : r.lo <= r.hi}

Piece ==
  [how : {"host"}, prefix : Name]
    \cup [how : {"bracket"}, prefix : Name, ranges : Seq(Between)]
    \cup [how : {"suffixed"}, prefix : Name, ranges : Seq(Between),
          behind : Name]

ASSUME ListAssumption ==
  /\ MaxRange \in Nat /\ MaxHosts \in Nat /\ MaxRanges \in Nat
  /\ MaxLooks \in Nat
  /\ Careful \in BOOLEAN /\ FreedLo \subseteq Nat /\ FreedLo # {}
  /\ Text \subseteq Seq(Piece) /\ Lookup \subseteq Name

VARIABLES
  list,      \* the list: hr, nhosts
  reader     \* its iterator: open, idx, depth

vars == <<list, reader>>

Empty == [hr |-> <<>>, nhosts |-> 0]
Closed == [open |-> FALSE, idx |-> 0, depth |-> -1]
Reset == [Closed EXCEPT !.open = TRUE]

\* How many hosts are in front of range i.
Before(hr, i) ==
  LET upto[k \in 1 .. i] ==
        IF k = 1 THEN 0 ELSE upto[k - 1] + Count(hr[k - 1])
  IN  upto[i]

\* The names in an array of ranges.
Names(hr) == FlattenSeq([i \in DOMAIN hr |-> Hosts(hr[i])])

-----------------------------------------------------------------------------
(* Putting hosts in.                                                       *)

\* What pushing r on l has made of both.
Merged(l, r, c) ==
  [list |-> [hr |-> Append(Front(l.hr), [c.left EXCEPT !.hi = r.hi]),
             nhosts |-> l.nhosts + Count(r)],
   range |-> c.right]
Added(l, r) ==
  [list |-> [hr |-> Append(l.hr, r), nhosts |-> l.nhosts + Count(r)],
   range |-> r]

\* A slip: padding is not looked at.
PushRangeAnyWidth(l, r) ==
  IF l.hr # <<>> /\ Adjoins(Last(l.hr), r)
  THEN Merged(l, r, Combine(Last(l.hr), r)) ELSE Added(l, r)

\* hostlist_push_range(), which may rewrite the width of what is pushed too.
PushRange(l, r) ==
  IF l.hr # <<>> /\ Adjoins(Last(l.hr), r) /\ Combines(Last(l.hr), r)
  THEN Merged(l, r, Combine(Last(l.hr), r)) ELSE Added(l, r)

\* hostlist_push_list(): both lists afterwards.
PushAll(l, m) ==
  LET pushed(p, q) == [to |-> q.list, from |-> Append(p.from, q.range)]
  IN  FoldLeft(LAMBDA p, r : pushed(p, PushRange(p.to, r)),
               [to |-> l, from |-> <<>>], m.hr)

\* A piece of a text is a single host, or a prefix with ranges in brackets:
\* then hosts are in ranges, or, when something follows the brackets, single.
PieceRanges(piece) ==
  LET range(r) == NewRange(piece.prefix, r.lo, r.hi, r.width)
      singles(names) ==
        [i \in DOMAIN names |-> Single(Followed(names[i], piece.behind))]
  IN  IF piece.how = "host" THEN <<HostRange(piece.prefix)>>
      ELSE IF piece.how = "bracket"
      THEN [i \in DOMAIN piece.ranges |-> range(piece.ranges[i])]
      ELSE singles(Names([i \in DOMAIN piece.ranges |->
                            range(piece.ranges[i])]))

\* A slip: a range may be one host longer.
RefusedLater(text) ==
  \E i \in DOMAIN text : /\ text[i].how # "host"
                         /\ \E j \in DOMAIN text[i].ranges :
                              text[i].ranges[j].hi - text[i].ranges[j].lo
                                > MaxRange

Refused(text) ==
  \E i \in DOMAIN text : /\ text[i].how # "host"
                         /\ \E j \in DOMAIN text[i].ranges :
                              LET r == text[i].ranges[j]
                              IN  r.hi - r.lo + 1 > MaxRange

\* hostlist_create() of a text that is not refused.
Create(text) ==
  PushAll(Empty, [hr |-> FlattenSeq([i \in DOMAIN text |->
                                       PieceRanges(text[i])])]).to

\* hostlist_push(), which pushes nothing when the text is refused.
PushText(l, text) == IF Refused(text) THEN l ELSE PushAll(l, Create(text)).to

-----------------------------------------------------------------------------
(* Printing.                                                               *)

\* hostlist_ranged_string(): ranges that follow one another and have one prefix
\* share a pair of brackets; a host that stands alone has none.  What is read
\* from "lo-hi" is as wide as lo is printed.
PrintedAs(hr, i, j) ==
  IF i = j /\ Count(hr[i]) = 1
  THEN [how |-> "host", prefix |-> Hosts(hr[i])[1]]
  ELSE [how |-> "bracket", prefix |-> hr[i].prefix,
        ranges |-> [k \in 1 .. j - i + 1 |->
          LET r == hr[i + k - 1]
          IN  [lo |-> r.lo, hi |-> r.hi,
               width |-> Len(Numeral(r.lo, r.width))]]]

\* The range behind those that are printed in one pair of brackets with i.
BracketEnd(hr, i) ==
  CHOOSE j \in i + 1 .. Len(hr) + 1 :
    /\ \A k \in i + 1 .. j - 1 : WithinRange(hr[i], hr[k])
    /\ j <= Len(hr) => ~WithinRange(hr[i], hr[j])

Printed(hr) ==
  FlattenSeq([i \in DOMAIN hr |->
    IF i > 1 /\ WithinRange(hr[i], hr[i - 1]) THEN <<>>
    ELSE <<PrintedAs(hr, i, BracketEnd(hr, i) - 1)>>])

-----------------------------------------------------------------------------
(* Taking hosts out.                                                       *)

\* hostlist_find(): the position counted from 0, or -1, and the ranges, of which
\* the one with the name may have another width.
FindIn(hr, name) ==
  LET at(i, w) == [at |-> Before(hr, i) + w.at,
                   hr |-> ReplaceAt(hr, i, w.range)]
      first(i) == IF i = 0 THEN [at |-> -1, hr |-> hr]
                  ELSE at(i, Within(hr[i], name))
  IN  first(SelectInSeq(hr, LAMBDA r : Within(r, name).at >= 0))

\* hostlist_delete_nth(): the range around host n shrinks, splits or goes.
DropNth(l, n) ==
  LET rest(r, k) == IF r.single THEN <<>> ELSE Remaining(r, r.lo + k)
      without(i) == SubSeq(l.hr, 1, i - 1)
                      \o rest(l.hr[i], n - Before(l.hr, i))
                      \o SubSeq(l.hr, i + 1, Len(l.hr))
  IN  [hr |-> without(CHOOSE i \in DOMAIN l.hr :
                        /\ Before(l.hr, i) <= n
                        /\ n < Before(l.hr, i + 1)),
       nhosts |-> l.nhosts - 1]

\* hostlist_delete_host()
DropHost(l, name) ==
  LET found(f) == IF f.at >= 0 THEN DropNth([l EXCEPT !.hr = f.hr], f.at)
                  ELSE [l EXCEPT !.hr = f.hr]
  IN  found(FindIn(l.hr, name))

\* hostlist_delete() pops the names off the list that the text is read into.
DropText(l, text) ==
  IF Refused(text) THEN l
  ELSE FoldLeft(DropHost, l, Reverse(Names(Create(text).hr)))

DropLast(l) ==
  LET r == Popped(Last(l.hr))
  IN  [hr |-> IF IsEmpty(r) THEN Front(l.hr) ELSE Append(Front(l.hr), r),
       nhosts |-> l.nhosts - 1]

-----------------------------------------------------------------------------
(* Sorting.                                                                *)

\* The orders in which qsort() may leave an array.  Its comparisons also rewrite
\* widths, which ComparingIsSafe shows to make no difference: they stay here.
Orders(hr) ==
  {s \in {[i \in DOMAIN hr |-> hr[p[i]]] :
            p \in SetToSeqs(DOMAIN hr)} :
     IsSorted(s, LAMBDA r, q : Cmp(r, q) <= 0)}

\* A range and the next, which overlap, become a range that ends where the
\* overlap begins, the hosts inside one by one and twice, and a range that
\* starts where it ends.  If prev begins after next does, its rest is empty and
\* next goes instead: it is freed, and then read.  c is both with one width.
Parts(both, c, freed) ==
  LET a == [c.left EXCEPT !.hi = both.lo]
      b == [c.right EXCEPT !.lo = both.hi, !.hi = Larger(@, c.left.hi)]
      b_lo == IF IsEmpty(a) THEN freed ELSE b.lo
      one(n) == <<NewRange(both.prefix, n, n, both.width)>>
      inside == [k \in 1 .. both.hi - both.lo + 1 |->
                   LET n == both.lo + k - 1
                   IN  (IF n > a.hi THEN one(n) ELSE <<>>)
                         \o (IF n < b_lo THEN one(n) ELSE <<>>)]
  IN  <<a>> \o FlattenSeq(inside) \o (IF IsEmpty(a) THEN <<>> ELSE <<b>>)

\* Ranges i - 1 and i of hr, which overlap, in their parts.
Overlap(hr, i, freed) ==
  SubSeq(hr, 1, i - 2)
    \o Parts(Intersect(hr[i - 1], hr[i])[1], Combine(hr[i - 1], hr[i]), freed)
    \o SubSeq(hr, i + 1, Len(hr))

\* A search for overlaps comes from the end of an array.
End(hr) == [at |-> Len(hr), hr |-> hr]

\* A slip: it does not start again.
LookOnce(s, freed) ==
  IF s.at <= 1 THEN s
  ELSE IF Intersect(s.hr[s.at - 1], s.hr[s.at]) = <<>>
       THEN [s EXCEPT !.at = @ - 1]
       ELSE [at |-> s.at - 1, hr |-> Overlap(s.hr, s.at, freed)]

\* The search goes on with the range before, and starts again when it has split
\* two ranges.
Look(s, freed) ==
  IF s.at <= 1 THEN s
  ELSE IF Intersect(s.hr[s.at - 1], s.hr[s.at]) = <<>>
       THEN [s EXCEPT !.at = @ - 1]
       ELSE End(Overlap(s.hr, s.at, freed))

\* hostlist_coalesce() has looked everywhere when it is at the front.
Coalesce(hr, freed) ==
  LET looks[k \in 0 .. MaxLooks] ==
        IF k = 0 THEN End(hr) ELSE Look(looks[k - 1], freed)
  IN  looks[MaxLooks]

\* hostlist_collapse() joins what adjoins, from the end to the front.
Collapse(hr) ==
  FoldLeft(LAMBDA rest, r :
             IF /\ rest # <<>>
                /\ Adjoins(r, Head(rest)) /\ Combines(r, Head(rest))
             THEN Cons([Combine(r, Head(rest)).left EXCEPT
                          !.hi = Head(rest).hi], Tail(rest))
             ELSE Cons(r, rest),
           <<>>, Reverse(hr))

\* hostlist_uniq() joins each range with the one before it, when they touch.
JoinAll(l) ==
  LET joined(m, j) ==
        IF j.dup < 0
        THEN [m EXCEPT !.hr = Front(@) \o <<j.left, j.right>>]
        ELSE [hr |-> Append(Front(m.hr), j.left), nhosts |-> m.nhosts - j.dup]
  IN  FoldLeft(LAMBDA m, r : IF m.hr = <<>> THEN [m EXCEPT !.hr = <<r>>]
                             ELSE joined(m, Join(Last(m.hr), r)),
               [l EXCEPT !.hr = <<>>], l.hr)

\* What hostlist_uniq() may make of a list: it too sorts first.
Joined(l) == {JoinAll([l EXCEPT !.hr = s]) : s \in Orders(l.hr)}

-----------------------------------------------------------------------------
(* The state machine.                                                      *)

Init == list = Empty /\ reader = Closed

Unread == ~reader.open

\* hostlist_destroy(), which destroys the iterators, and hostlist_create(NULL)
Renew == list' = Empty /\ reader' = Closed

Push ==
  /\ Unread
  /\ \E t \in Text : list' = PushText(list, t)
  /\ list'.nhosts <= MaxHosts
  /\ UNCHANGED reader

\* The union of a query: a new list, pushed what this one and another print, of
\* which either may be refused unnoticed, without duplicates.
Union ==
  /\ Unread
  /\ \E t \in Text \ {u \in Text : Refused(u)} :
       \E both \in {PushText(PushText(Empty, Printed(list.hr)),
                             Printed(Create(t).hr))} :
         /\ Len(both.hr) <= MaxRanges
         /\ list' \in Joined(both)
  /\ list'.nhosts <= MaxHosts
  /\ UNCHANGED reader

Pop ==
  /\ Unread
  /\ list.nhosts > 0
  /\ list' = DropLast(list)
  /\ UNCHANGED reader

Find ==
  /\ list' \in {[list EXCEPT !.hr = FindIn(@, n).hr] : n \in Lookup}
  /\ UNCHANGED reader

Delete ==
  /\ Unread
  /\ list' \in {DropText(list, t) : t \in Text}
  /\ UNCHANGED reader

\* hostlist_delete_nth() of position 0, with which libgenders empties a list
DeleteFirst ==
  /\ Unread
  /\ list.nhosts > 0
  /\ list' = DropNth(list, 0)
  /\ UNCHANGED reader

\* Ranges with one prefix are padded alike.
PaddedAlike(hr) ==
  \A r, s \in ToSet(hr) : Alike(r, s) => Combines(r, s)

\* What coalescing splits must stay in order.
Sortable(hr) ==
  PaddedAlike(hr) \/ Len(Names(hr)) = Cardinality(ToSet(Names(hr)))

Rewind == reader' = IF reader.open THEN Reset ELSE reader

Sort ==
  /\ Len(list.hr) \in 2 .. MaxRanges
  /\ Rewind
  /\ Careful => Sortable(list.hr)
  /\ \E s \in Orders(list.hr), freed \in FreedLo :
       \E split \in {Coalesce(s, freed)} :
         /\ split.at <= 1
         /\ list' = [list EXCEPT !.hr = Collapse(split.hr)]

Uniq ==
  /\ Len(list.hr) \in 2 .. MaxRanges
  /\ Rewind
  /\ list' \in Joined(list)

\* hostlist_iterator_create(), or hostlist_iterator_reset() of one there is
Open == reader' = Reset /\ UNCHANGED list

Close == reader.open /\ reader' = Closed /\ UNCHANGED list

Advance(it, hr) ==
  LET r == hr[it.idx + 1]
  IN  IF it.idx >= Len(hr) THEN it
      ELSE IF r.hi >= r.lo /\ it.depth + 1 > r.hi - r.lo
           THEN [it EXCEPT !.idx = @ + 1, !.depth = 0]
           ELSE [it EXCEPT !.depth = @ + 1]

\* hostlist_next() returns the host at the depth of the range it comes to, or
\* NULL behind the last range.
NextHost ==
  /\ reader.open
  /\ reader' = Advance(reader, list.hr)
  /\ UNCHANGED list

Next ==
  \/ Renew \/ Push \/ Union \/ Pop \/ Find \/ Delete \/ DeleteFirst
  \/ Sort \/ Uniq \/ Open \/ Close \/ NextHost

Spec == Init /\ [][Next]_vars

-----------------------------------------------------------------------------
(* Properties.                                                             *)

\* The number of hosts, which is kept beside the ranges and that callers size
\* their own arrays by, is the number of names an iterator will return: merging,
\* splitting, joining and the duplicates that uniq drops all keep the two equal.
\* No range is left empty, whose bounds count as many hosts as there are numbers.
HostsCounted ==
  /\ \A r \in ToSet(list.hr) : ~ IsEmpty(r)
  /\ list.nhosts = Len(Names(list.hr))

\* hostlist_find() gives the position of the first host with a name, and says -1
\* only of a name that no iterator would return: whatever the padding, and also
\* when the digits of a name are partly in the prefix of its range.
FindIsFirst ==
  \A n \in Lookup :
    LET names == Names(list.hr)
        at == FindIn(list.hr, n).at
    IN  IF n \in ToSet(names)
        THEN at = SelectInSeq(names, LAMBDA m : m = n) - 1
        ELSE at = -1

\* How many characters the text of an array has, with brackets and without.
RangeLen(r) ==
  Larger(r.width, DigitsOf(r.lo))
    + IF r.lo = r.hi THEN 0 ELSE 1 + Larger(r.width, DigitsOf(r.hi))
PieceLen(piece) ==
  Len(Chars(piece.prefix))
    + IF piece.how = "host" THEN 0
      ELSE FoldLeft(LAMBDA n, r : n + RangeLen(r) + 1, 1, piece.ranges)
TextLen(text) ==
  Larger(FoldLeft(LAMBDA n, piece : n + PieceLen(piece) + 1, 0, text) - 1, 0)
NamesLen(names) ==
  Larger(FoldLeft(LAMBDA n, name : n + Len(Chars(name)) + 1, 0, names) - 1, 0)

\* What hostlist_ranged_string() prints, hostlist_push() reads as the same names
\* in the same order, unless a range is longer than it accepts (then it pushes
\* nothing): a union of a query goes through this.  Of a buffer that is too small
\* it says so, whichever part of the text does not fit, and nodeattr gets a
\* larger one.  What fits, hostlist_deranged_string() prints whole as well.
PrintedIsRead ==
  LET text == Printed(list.hr)
      len == TextLen(text)
      all == NamesLen(Names(list.hr))
  IN  /\ IF \E r \in ToSet(list.hr) : Count(r) > MaxRange
         THEN Refused(text)
         ELSE ~Refused(text) /\ Names(Create(text).hr) = Names(list.hr)
      /\ \A n \in 0 .. len : Ranged(list.hr, n) = -1
      /\ Ranged(list.hr, len + 1) = len /\ Deranged(list.hr, all + 1) = all

\* hostlist_deranged_string() too says so.  src/src/libcommon/hostlist.h:286-288:
\* "Writes the string representation of the hostlist hl into buf, writing at
\* most n chars. Returns the number of bytes written, or -1 if truncation
\* occurred."
TruncationIsTold ==
  \A n \in 1 .. NamesLen(Names(list.hr)) : Deranged(list.hr, n) = -1

\* Comparing two ranges rewrites a width, also in the middle of qsort() and of a
\* look-up.  It changes no name and the outcome of no other comparison, and the
\* comparisons order any ranges, so that qsort() has an order to find.
ComparingIsSafe ==
  \A r, s \in ToSet(list.hr) :
    LET c == Combine(r, s)
    IN  /\ Hosts(c.left) = Hosts(r) /\ Hosts(c.right) = Hosts(s)
        /\ Cmp(r, s) <= 0 \/ Cmp(s, r) <= 0
        /\ \A t \in ToSet(list.hr) :
             /\ Cmp(r, s) <= 0 /\ Cmp(s, t) <= 0 => Cmp(r, t) <= 0
             /\ (Cmp(c.left, t) <= 0) = (Cmp(r, t) <= 0)
             /\ (Cmp(t, c.left) <= 0) = (Cmp(t, r) <= 0)

\* Names that begin alike are cut into prefix and number at one place.
CutAlike(hr) ==
  \A r, s \in ToSet(hr) :
    IsPrefix(Chars(r.prefix), Chars(s.prefix)) => Alike(r, s)

\* hostlist_sort() leaves the hosts in order of prefix and number, also those of
\* ranges that overlapped, if their padding does not stand in the way.
SortOrders ==
  [][PaddedAlike(list.hr) /\ Sort =>
       \A i, j \in DOMAIN list'.hr :
         LET r == list'.hr[i]
             s == list'.hr[j]
         IN  i < j => \/ PrefixCmp(r, s) < 0
                      \/ Alike(r, s) /\ r.hi <= s.lo]_vars

\* hostlist_sort() keeps every host.  src/src/libcommon/hostlist.c:1999-2000
\* says of its last part "search through hostlist (hl) for intersecting ranges
\* split up duplicates and coalesce ranges where possible", and 878 asserts that
\* ranges stay in order meanwhile.
SortKeepsHosts ==
  [][Sort => Len(Names(list'.hr)) = Len(Names(list.hr))]_vars

\* After hostlist_uniq() no name is in the list twice, if names are padded and
\* cut alike: libgenders counts the nodes of a database and the hits of a query
\* that way.
UniqLeavesOneEach ==
  [][PaddedAlike(list.hr) /\ CutAlike(list.hr) /\ Uniq =>
       Len(Names(list'.hr)) = Cardinality(ToSet(Names(list'.hr)))]_vars

====
