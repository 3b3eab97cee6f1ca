---- MODULE MCQuery ----
(***************************************************************************)
(* Three nodes and two attributes, "a" of nodes 1 and 2, "b" of 2 and 3;   *)
(* "ba" is a third attribute, of node 1, on a line that lists it twice.    *)
(* The queries are all of one piece, some of two, and longer ones: all the *)
(* operators on two terms, chains, nesting, and the errors of the test     *)
(* suite, with text behind the error and without.                          *)
(***************************************************************************)
EXTENDS GendersQuery, TLC

MCNode == {"n1", "n2", "n3"}
MCRank == "n1" :> 1 @@ "n2" :> 2 @@ "n3" :> 3
MCFound == <<"a">> :> {"n1", "n2"} @@ <<"b">> :> {"n2", "n3"}
             @@ <<"b", "a">> :> {"n1"}
MCCrowded == {<<"b", "a">>}
MCWide == {MCNode}

Pieces == {"a", "b", "(", ")", "||", "~", "--"}
MCText ==
  {<<p>> : p \in Pieces}
    \cup {<<p, q>> : p, q \in {"a", ")", "~"}}
    \cup {<<"a", o, "b">> : o \in {"&&", "--", "||"}}
    \cup {<<"a", "--", "b", "||", "a">>,
          <<"a", "--", "(", "b", "||", "a", ")">>,
          <<"~", "(", "a", "||", "b", ")">>,
          <<"~", "~", "a", "&&", "~", "b">>,
          <<"(", "~", "a", "||", "a", ")", "||", "b">>,
          <<"a", "||", "~", "a", "--", "b">>,
          <<" ", "a", " ", "||", " ", "b", " ">>,
          <<"a", " ", "b", " ">>, <<"a", " ", "b">>,
          <<"(", "(", "a", ")">>, <<"(", "a", ")", ")">>,
          <<"||", " ", "a">>, <<"a", ")", "b">>, <<"@", "a">>,
          <<"b", "a", "||", "a">>,
          <<"a", "||", "a", "||", "a", "||", "a">>,
          <<"a", "||", "a", "||", "a", "||", "a", "||", "a">>,
          <<" ", " ">>}

====
