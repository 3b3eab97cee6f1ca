---- MODULE HostRange ----
(***************************************************************************)
(* The values of hostlist.c: host names, and the ranges they are kept in.  *)
(*                                                                         *)
(* A name is its text up to the digits it ends in, and these digits: the   *)
(* name n012 is [base |-> <<n>>, digits |-> <<0, 1, 2>>].  Characters are  *)
(* numbers in the order of strcmp(): 0 .. Radix - 1 are the digits, the    *)
(* letters come after them.                                                *)
(*                                                                         *)
(* A range is a struct hostrange_components.  Its prefix is a name of its  *)
(* own: that of "n1[0-3]" ends in a digit.  C compares, joins and cuts     *)
(* ranges in place; here an operator returns what it changed.              *)
(***************************************************************************)
EXTENDS Integers, Sequences, SequencesExt

CONSTANTS
  Radix,     \* the base of the numerals: 10 in the code
  MaxSuffix  \* MAX_HOST_SUFFIX: a larger suffix is not taken for a number

ASSUME RangeAssumption ==
  /\ Radix \in Nat /\ Radix > 1
  /\ MaxSuffix \in Nat

\* The text ends where the digits start.
Name ==
  {name \in [base : Seq(Nat), digits : Seq(0 .. Radix - 1)] :
     name.base # <<>> => Last(name.base) >= Radix}

HostRangeType ==
  [prefix : Name, lo : Nat, hi : Int, width : Nat, single : BOOLEAN]

Larger(a, b) == IF a > b THEN a ELSE b
Smaller(a, b) == IF a < b THEN a ELSE b

-----------------------------------------------------------------------------
(* Numerals.                                                               *)

\* 1, 10, 100 and so on.
Power[k \in Nat] == IF k = 0 THEN 1 ELSE Radix * Power[k - 1]

DigitsOf(n) == CHOOSE d \in 1 .. n + 1 : /\ n < Power[d]
                                         /\ d = 1 \/ n >= Power[d - 1]

\* What "%0*lu" prints.
Numeral(n, width) ==
  LET d == Larger(width, DigitsOf(n))
  IN  [i \in 1 .. d |-> (n \div Power[d - i]) % Radix]

\* What strtoul() reads.
Value(s) == FoldLeft(LAMBDA n, d : n * Radix + d, 0, s)

ZeroPadded(n, width) == Larger(width - DigitsOf(n), 0)

\* A slip: the other width is the one that is rewritten.
WidthEquivSwapped(n, wn, m, wm) ==
  IF ZeroPadded(n, wn) = ZeroPadded(n, wm)
  THEN [ok |-> TRUE, wn |-> wn, wm |-> wn]
  ELSE IF ZeroPadded(m, wm) = ZeroPadded(m, wn)
  THEN [ok |-> TRUE, wn |-> wm, wm |-> wm]
  ELSE [ok |-> FALSE, wn |-> wn, wm |-> wm]

\* _width_equiv(): whether two numbers can be printed with one width, and the
\* widths after the call, which makes them equal when it says yes.
WidthEquiv(n, wn, m, wm) ==
  IF ZeroPadded(n, wn) = ZeroPadded(n, wm)
  THEN [ok |-> TRUE, wn |-> wm, wm |-> wm]
  ELSE IF ZeroPadded(m, wm) = ZeroPadded(m, wn)
  THEN [ok |-> TRUE, wn |-> wn, wm |-> wn]
  ELSE [ok |-> FALSE, wn |-> wn, wm |-> wm]

-----------------------------------------------------------------------------
(* Names.                                                                  *)

Host(prefix, n, width) ==
  [prefix EXCEPT !.digits = @ \o Numeral(n, width)]

Chars(name) == name.base \o name.digits

\* A name with a text behind it, which may end in digits too.
Followed(name, tail) ==
  IF tail.base = <<>> THEN [name EXCEPT !.digits = @ \o tail.digits]
  ELSE [base |-> Chars(name) \o tail.base, digits |-> tail.digits]

\* The first place where one of two sequences of characters ends or differs.
Parting(s, t) ==
  CHOOSE i \in 1 .. Len(s) + 1 :
    /\ i > Len(s) \/ i > Len(t) \/ s[i] # t[i]
    /\ \A j \in 1 .. i - 1 : j <= Len(t) /\ s[j] = t[j]

\* The sign of strcmp(), where the end comes before any character.
StrCmp(s, t) ==
  LET at(q, i) == IF i > Len(q) THEN -1 ELSE q[i]
      difference(i) == at(s, i) - at(t, i)
  IN  difference(Parting(s, t))

\* hostname_create_with_suffix(): the digits in prefix belong to the prefix, the
\* others are the suffix, unless there is none or it is too large a number.
SplitAt(name, prefix, suffix) ==
  IF suffix # <<>> /\ Value(suffix) <= MaxSuffix
  THEN [name |-> name, valid |-> TRUE, num |-> Value(suffix),
        prefix |-> [name EXCEPT !.digits = prefix], suffix |-> suffix]
  ELSE [name |-> name, valid |-> FALSE, num |-> Value(suffix),
        prefix |-> name, suffix |-> <<>>]

\* The first k digits belong to the prefix.
Split(name, k) ==
  SplitAt(name, SubSeq(name.digits, 1, k),
          SubSeq(name.digits, k + 1, Len(name.digits)))

Hostname(name) == Split(name, 0)

-----------------------------------------------------------------------------
(* One range.                                                              *)

Single(name) ==
  [prefix |-> name, lo |-> 0, hi |-> 0, width |-> 0, single |-> TRUE]

NewRange(prefix, lo, hi, width) ==
  [prefix |-> prefix, lo |-> lo, hi |-> hi, width |-> width,
   single |-> FALSE]

Count(r) == IF r.single THEN 1 ELSE r.hi - r.lo + 1

\* The names of a range in the order of hostlist_next().
Hosts(r) ==
  IF r.single THEN <<r.prefix>>
  ELSE [i \in 1 .. Count(r) |-> Host(r.prefix, r.lo + i - 1, r.width)]

\* hi - 1 of 0 is the largest unsigned long, -1 here.
IsEmpty(r) == r.hi < r.lo \/ r.hi = -1

\* What a name pushed by itself becomes.
HostRange(name) ==
  LET range(h) == IF h.valid
                  THEN NewRange(h.prefix, h.num, h.num, Len(h.suffix))
                  ELSE Single(name)
  IN  range(Hostname(name))

\* hostrange_delete_host(): the range without number n, in one or two parts.
DeleteNumber(r, n) ==
  IF n = r.lo THEN <<[r EXCEPT !.lo = @ + 1]>>
  ELSE IF n = r.hi THEN <<[r EXCEPT !.hi = @ - 1]>>
  ELSE <<[r EXCEPT !.hi = n - 1], [r EXCEPT !.lo = n + 1]>>

\* What the range leaves in an array: nothing if no host is left.
Remaining(r, n) ==
  LET rest == DeleteNumber(r, n)
  IN  IF Len(rest) = 1 /\ IsEmpty(rest[1]) THEN <<>> ELSE rest

\* hostrange_pop(): the range without its last host.
Popped(r) == IF r.single THEN [r EXCEPT !.lo = @ + 1]
             ELSE [r EXCEPT !.hi = @ - 1]

-----------------------------------------------------------------------------
(* Two ranges.                                                             *)

\* hostrange_prefix_cmp(), and whether it is 0.
Alike(r, s) == r.prefix = s.prefix /\ r.single = s.single

PrefixCmp(r, s) ==
  LET flag(x) == IF x.single THEN 1 ELSE 0
  IN  IF r.prefix = s.prefix THEN flag(s) - flag(r)
      ELSE StrCmp(Chars(r.prefix), Chars(s.prefix))

WithinRange(r, s) == Alike(r, s) /\ ~r.single

\* hostrange_width_combine(), with both ranges as it leaves them.
Combine(r, s) ==
  LET with(e) == [ok |-> e.ok, left |-> [r EXCEPT !.width = e.wn],
                  right |-> [s EXCEPT !.width = e.wm]]
  IN  with(WidthEquiv(r.lo, r.width, s.lo, s.width))

Combines(r, s) == Combine(r, s).ok

Cmp(r, s) ==
  IF ~Alike(r, s) THEN PrefixCmp(r, s)
  ELSE IF Combines(r, s) THEN r.lo - s.lo ELSE r.width - s.width

\* Whether s continues r: the condition of pushing and of collapsing.
Adjoins(r, s) == Alike(r, s) /\ r.hi = s.lo - 1 /\ s.lo # 0

\* Two ranges that do not touch, and two that do.
Apart(c) == [dup |-> -1, left |-> c.left, right |-> c.right]
Joint(c, dup) ==
  [dup |-> dup, left |-> [c.left EXCEPT !.hi = Larger(@, c.right.hi)],
   right |-> c.right]

\* Slips: a single common host does not count as one, or all common hosts but
\* one count.
TouchStrict(c) ==
  LET r == c.left
      s == c.right
  IN  IF r.single THEN Joint(c, 1)
      ELSE IF Adjoins(r, s) THEN Joint(c, 0)
      ELSE IF r.hi <= s.lo THEN Apart(c)
      ELSE Joint(c, Smaller(r.hi, s.hi) - s.lo + 1)

TouchShort(c) ==
  LET r == c.left
      s == c.right
  IN  IF r.single THEN Joint(c, 1)
      ELSE IF Adjoins(r, s) THEN Joint(c, 0)
      ELSE IF r.hi < s.lo THEN Apart(c)
      ELSE Joint(c, Smaller(r.hi, s.hi) - s.lo)

\* What hostrange_join() does to two ranges that are alike and as wide.
Touch(c) ==
  LET r == c.left
      s == c.right
  IN  IF r.single THEN Joint(c, 1)
      ELSE IF Adjoins(r, s) THEN Joint(c, 0)
      ELSE IF r.hi < s.lo THEN Apart(c)
      ELSE Joint(c, Smaller(r.hi, s.hi) - s.lo + 1)

\* hostrange_join(): how many hosts were in both, -1 if they do not touch, and
\* what both have become; s is in r when they touch.
Join(r, s) ==
  IF Alike(r, s) /\ Combines(r, s) THEN Touch(Combine(r, s))
  ELSE [dup |-> -1, left |-> r, right |-> s]

\* hostrange_intersect(): at most one range, of the numbers in both, when more
\* than the last of r is.
Intersect(r, s) ==
  IF /\ ~r.single /\ ~s.single
     /\ Alike(r, s)
     /\ r.hi > s.lo
     /\ Combines(r, s)
  THEN <<[Combine(r, s).left EXCEPT !.lo = s.lo,
                                    !.hi = Smaller(r.hi, s.hi)]>>
  ELSE <<>>

-----------------------------------------------------------------------------
(* A name in a range.                                                      *)

\* A slip: digits stay in the suffix.
NoMoreDigits(r, h) == FALSE

\* hostrange_hn_within(): digits move from the suffix into the prefix of the
\* name as long as they are those of a longer prefix of the range.
MoreDigits(r, h) ==
  LET n == Len(Chars(h.prefix))
      p == Chars(r.prefix)
  IN  /\ h.valid
      /\ IsPrefix(Chars(h.prefix), p)
      /\ n < Len(p)
      /\ Len(h.suffix) > 1
      /\ p[Len(p)] < Radix
      /\ p[n + 1] = h.suffix[1]

\* The number of digits of name that are compared with the prefix of r.
Moved(r, name) ==
  CHOOSE k \in 0 .. Len(name.digits) :
    /\ \A i \in 0 .. k - 1 : MoreDigits(r, Split(name, i))
    /\ ~MoreDigits(r, Split(name, k))

\* The offset of a name in a range or -1, and the range after the look-up.
Within(r, name) ==
  LET none == [at |-> -1, range |-> r]
      found(h, e) == IF e.ok THEN [at |-> h.num - r.lo,
                                   range |-> [r EXCEPT !.width = e.wn]]
                     ELSE none
      look(h) == IF h.valid /\ h.prefix = r.prefix /\ h.num \in r.lo .. r.hi
                 THEN found(h, WidthEquiv(r.lo, r.width, h.num, Len(h.suffix)))
                 ELSE none
  IN  IF ~r.single THEN look(Split(name, Moved(r, name)))
      ELSE IF r.prefix = name THEN [none EXCEPT !.at = 0] ELSE none

====
