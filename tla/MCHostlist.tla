---- MODULE MCHostlist ----
(***************************************************************************)
(* Base 2, so that numerals get longer at 2 and at 4: the names are n0,    *)
(* n1, n01, n10 and n11, of which two may be in brackets behind n1, one    *)
(* with letters behind its number, and n100, too large a number.           *)
(***************************************************************************)
EXTENDS Hostset

n == [base |-> <<5>>, digits |-> <<>>]
N(digits) == [n EXCEPT !.digits = digits]

Alone(name) == [how |-> "host", prefix |-> name]
R(lo, hi, width) == [lo |-> lo, hi |-> hi, width |-> width]
In(prefix, ranges) ==
  [how |-> "bracket", prefix |-> prefix, ranges |-> ranges]
Behind(prefix, ranges) ==
  [how |-> "suffixed", prefix |-> prefix, ranges |-> ranges,
   behind |-> [n EXCEPT !.base = <<3>>]]

MCText == {
  <<Alone(N(<<1>>))>>,                                        \* n1
  <<In(n, <<R(1, 2, 2)>>)>>,                                  \* n[01-10]
  <<In(n, <<R(1, 3, 1)>>)>>,                                  \* n[1-11]
  <<In(N(<<1>>), <<R(0, 1, 1)>>), Alone(N(<<1, 0, 0>>))>>,    \* n1[0-1],n100
  <<Behind(n, <<R(1, 1, 1)>>), In(n, <<R(3, 3, 2), R(0, 0, 1)>>)>>,
                                                              \* n[1]x,n[11,0]
  <<In(n, <<R(0, 3, 1)>>)>>}                                  \* refused

\* For the run with callers that are not careful.
MCMixed == {<<In(n, <<R(1, 2, 1)>>)>>,                        \* n[1-10]
            <<Alone(N(<<0, 1>>))>>}                           \* n01

MCLookup == {N(<<>>), N(<<0>>), N(<<1, 0>>), N(<<0, 1>>), N(<<0, 1, 0>>),
             N(<<1, 1>>), N(<<1, 0, 0>>)}

====
