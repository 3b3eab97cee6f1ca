---- MODULE MCCopy ----
(***************************************************************************)
(* Two handles, one of them a copy of the other now and then, with a       *)
(* database whose attribute "b" can be indexed under any flags, and "a"    *)
(* with raw values only (maxvallen is of the "%n", see MCHandle).          *)
(***************************************************************************)
EXTENDS GendersHandle, TLC

MCNode == {"1", "2"}
MCNodeLen == [n \in MCNode |-> 1]
MCRank == "1" :> 1 @@ "2" :> 2
MCExpand == [p \in {"%n", "1", "xxx%n"} \X MCNode |->
               CASE p[1] = "1" -> "1" [] p[1] = "%n" -> p[2]
                 [] OTHER -> IF p[2] = "1" THEN "xxx1" ELSE "xxx2"]
MCResult == {"%n", "1", "2", "xxx%n", "xxx1", "xxx2", NOVALUE}
MCStrLen == [r \in MCResult |->
               CASE r = "%n" -> 2 [] r \in {"1", "2"} -> 1
                 [] r = "xxx%n" -> 5 [] OTHER -> 4]

Line(n, va, vb) ==
  [hl |-> <<n>>, attrval_index |-> "a" :> va @@ "b" :> vb]
MCLoadable ==
  {[genders_hosts |-> <<Line("1", "xxx%n", "%n"), Line("2", Absent, "1")>>,
    hostnames |-> MCNode, attrs |-> {"a", "b"}, numattrs |-> 2,
    maxnodelen |-> 1, maxattrlen |-> 1, maxvallen |-> 1]}

====
