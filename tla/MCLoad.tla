---- MODULE MCLoad ----
(***************************************************************************)
(* A small instance of GendersLoad: three node names and one that is too   *)
(* long, two attributes, every kind of line, and some files of up to three *)
(* lines.                                                                  *)
(***************************************************************************)
EXTENDS GendersLoad, TLC

MCNode == {"n1", "n2", "n3", "long"}
MCAttr == {"a", "b"}
MCValue == {"v", "x%n"}
MCNodeLen == [n \in MCNode |-> IF n = "long" THEN 5 ELSE 2]
MCAttrLen == [a \in MCAttr |-> IF a = "a" THEN 1 ELSE 3]
MCValueLen == "v" :> 1 @@ "x%n" :> 3

Entry(hl, avs) ==
  [kind |-> "entry", names |-> "good", hl |-> hl, white |-> FALSE,
   avs |-> avs]
Has(a, v) == [attr |-> a, val |-> v]

A12  == Entry(<<"n1", "n2">>, <<Has("a", NoValue)>>)
A23  == Entry(<<"n2", "n3">>, <<Has("a", "v")>>)
B1   == Entry(<<"n1">>, <<Has("b", "x%n")>>)
AB3  == Entry(<<"n3", "n3">>, <<Has("a", "v"), Has("b", NoValue)>>)
N2   == Entry(<<"n2">>, <<>>)
AA   == Entry(<<"n1">>, <<Has("a", NoValue), Has("a", "v")>>)
BE   == Entry(<<"n2">>, <<Has("b", "v"), Has(EmptyAttr, NoValue)>>)
EV   == Entry(<<"n2">>, <<Has("b", EmptyValue)>>)
LN   == Entry(<<"n1", "long">>, <<Has("b", NoValue)>>)
Dot  == [A23 EXCEPT !.names = "dotted"]
Bad  == [B1 EXCEPT !.names = "bad"]
Wht  == [AB3 EXCEPT !.white = TRUE]
Blk  == [N2 EXCEPT !.kind = "blank"]
Lng  == [N2 EXCEPT !.kind = "long"]

MCLines == {A12, A23, B1, AB3, N2, AA, BE, EV, LN, Dot, Bad, Wht, Blk, Lng}
MCFile ==
  {<<>>} \cup {<<l>> : l \in MCLines}
    \cup {<<A12, m>> : m \in MCLines \ {Lng, Wht, N2, EV}}
    \cup {<<BE, A12>>, <<BE, BE>>, <<BE, Blk>>, <<AB3, AB3>>, <<AB3, A23>>}
    \cup {<<A12, BE, A23>>, <<N2, A12, A23>>, <<A12, B1, A23>>}

====
