---- MODULE HostText ----
(***************************************************************************)
(* How hostlist.c writes an array of ranges into a buffer of n characters: *)
(* how many it says it has written, -1 if they do not fit.  snprintf()     *)
(* returns how many it would have written; what is left of the buffer is   *)
(* n - len as a size_t, taken to be 0 when that wraps.                     *)
(***************************************************************************)
EXTENDS HostRange

Left(n, len) == Larger(n - len, 0)

PrefixLen(r) == Len(Chars(r.prefix))
NumberLen(r, i) == Larger(r.width, DigitsOf(i))
HostLen(r, i) == PrefixLen(r) + IF r.single THEN 0 ELSE NumberLen(r, i)

\* A trailing comma counted: nothing is left for it when the last host fits.
ListLen(r) ==
  FoldLeft(LAMBDA len, i : len + HostLen(r, r.lo + i - 1) + 1, 0,
           [i \in 1 .. Count(r) |-> i])

\* hostrange_to_string(), where -1 says that not all hosts of the range fit: but
\* nothing is said when nothing is left, or of a host without a number.
RangeToString(r, n) ==
  IF n = 0 THEN 0
  ELSE IF r.single THEN HostLen(r, 0)
  ELSE IF ListLen(r) <= n THEN ListLen(r) - 1 ELSE -1

\* hostlist_deranged_string()
Deranged(hr, n) ==
  LET put(out, r) ==
        LET ret == RangeToString(r, Left(n, out.len))
        IN  IF out.cut THEN out
            ELSE IF ret < 0 \/ ret > Left(n, out.len)
            THEN [len |-> n, cut |-> TRUE]
            ELSE [out EXCEPT !.len = @ + ret + 1]
      end(out) == [out EXCEPT !.len = Larger(@ - 1, 0)]
      told(out) == IF out.cut \/ out.len = n THEN -1 ELSE out.len
  IN  told(end(FoldLeft(put, [len |-> 0, cut |-> FALSE], hr)))

\* hostrange_numstr()
NumStr(r, n) ==
  LET lo == NumberLen(r, r.lo)
  IN  IF r.single \/ n = 0 THEN 0
      ELSE IF lo < n /\ r.lo < r.hi THEN lo + 1 + NumberLen(r, r.hi)
      ELSE lo

\* _is_bracket_needed()
IsBracketNeeded(hr, i) ==
  \/ Count(hr[i]) > 1
  \/ i < Len(hr) /\ WithinRange(hr[i], hr[i + 1])

\* _get_bracketed_list(), from range i on: the range it comes to, and how many
\* characters it says it has written.
GetBracketedList(hr, i, n) ==
  LET bracket == IF IsBracketNeeded(hr, i) THEN 1 ELSE 0
      prefix == PrefixLen(hr[i])
      from[s \in Nat \X Nat] ==
        LET k == s[1]
            len == s[2] + NumStr(hr[k], Left(n, s[2]))
        IN  IF len >= n THEN [next |-> k, len |-> len]
            ELSE IF k < Len(hr) /\ WithinRange(hr[k + 1], hr[k])
            THEN from[<<k + 1, len + bracket>>]
            ELSE [next |-> k + 1, len |-> len + bracket]
  IN  IF prefix > n THEN [next |-> i, len |-> n]
      ELSE from[<<i, IF prefix < n THEN prefix + bracket ELSE prefix>>]

\* hostlist_ranged_string()
Ranged(hr, n) ==
  LET comma(len, i) == IF len \in 1 .. n - 1 /\ i <= Len(hr) THEN 1 ELSE 0
      from[s \in Nat \X Nat] ==
        LET b == GetBracketedList(hr, s[1], n - s[2])
            len == s[2] + b.len
        IN  IF s[1] > Len(hr) \/ s[2] >= n THEN s[2]
            ELSE from[<<b.next, len + comma(len, b.next)>>]
      told(len) == IF len >= n THEN -1 ELSE len
  IN  told(from[<<1, 0>>])

====
