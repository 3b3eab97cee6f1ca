---- MODULE MCHandle ----
(***************************************************************************)
(* Small instances of GendersHandle: two nodes of one character each, two  *)
(* attributes, and databases as GendersLoad leaves them (maxvallen is by   *)
(* the rule of _parse_line()):                                             *)
(*   Same   a node reads "1" from "%n", another has it literally;          *)
(*   Twice  a line lists a node twice;                                     *)
(*   Short  maxvallen is of the last value with "%n" on the line, so that  *)
(*          the longer one does not fit valbuf;                            *)
(*   Bare   nodes, and no attributes.                                      *)
(***************************************************************************)
EXTENDS GendersHandle, TLC

MCNode == {"1", "2"}
MCNodeLen == [n \in MCNode |-> 1]
MCRank == "1" :> 1 @@ "2" :> 2
MCAttr == {"a", "b"}

MCValue == {"%n", "1", "xxx%n"}
MCResult == {"%n", "1", "2", "xxx%n", "xxx1", "xxx2", NOVALUE}
MCStrLen ==
  [r \in MCResult |->
     CASE r = "%n" -> 2 [] r \in {"1", "2"} -> 1 [] r = "xxx%n" -> 5
       [] r \in {"xxx1", "xxx2"} -> 4 [] OTHER -> 9]

MCExpand ==
  [p \in MCValue \X MCNode |->
     CASE p[1] = "%n" -> p[2]
       [] p[1] = "xxx%n" -> IF p[2] = "1" THEN "xxx1" ELSE "xxx2"
       [] OTHER -> p[1]]

Line(hl, va, vb) ==
  [hl |-> hl, attrval_index |-> "a" :> va @@ "b" :> vb]
DB(hosts, attrs, maxvallen) ==
  [genders_hosts |-> hosts,
   hostnames |-> UNION {NodesIn(hosts[i].hl) : i \in 1 .. Len(hosts)},
   attrs |-> attrs, numattrs |-> Cardinality(attrs), maxnodelen |-> 1,
   maxattrlen |-> 1, maxvallen |-> maxvallen]

Same == DB(<<Line(<<"1">>, "%n", Absent), Line(<<"2">>, "1", NoValue),
             Line(<<"1">>, Absent, "%n")>>, {"a", "b"}, 1)
Twice == DB(<<Line(<<"1", "2", "2">>, "%n", Absent)>>, {"a"}, 1)
Short == DB(<<Line(<<"1">>, "xxx%n", "%n"), Line(<<"2">>, "%n", NoValue)>>,
            {"a", "b"}, 1)
Bare == DB(<<Line(<<"2">>, Absent, Absent)>>, {}, 0)

MCLoadable == {Same, Twice, Short, Bare}

====
