---- MODULE MCNodeattr ----
(***************************************************************************)
(* nodeattr with up to three options on files of three nodes and two       *)
(* attributes: none; attributes shared by lines and given to one node by   *)
(* two of them; values that name their node, before and after they are     *)
(* read; nodes without attributes; files with 3 and with 256 errors (which *)
(* exit() takes for none), and one that cannot be read.                    *)
(***************************************************************************)
EXTENDS Nodeattr

CONSTANTS n1, n2, n3, a1, a2

\* A value, the node's name ("%n"), and one that reads as "%n" ("%%n"); what
\* the names of the nodes are as values.
MCValue == {"v", "w", "%n", "%%n", "n1", "n2", "n3"}
NameOf(n) == CASE n = n1 -> "n1" [] n = n2 -> "n2" [] n = n3 -> "n3"
MCReading == [p \in MCValue \X Node |->
  CASE p[1] = "%n" -> NameOf(p[2]) [] p[1] = "%%n" -> "%n" [] OTHER -> p[1]]
MCRank == [n \in Node |-> CASE n = n1 -> 1 [] n = n2 -> 2 [] n = n3 -> 3]
MCAfterSort == [s \in SUBSET Node |-> s]
MCPrintedLen == [s \in SUBSET Node |-> Cardinality(s)]

L(hl, v1, v2) ==
  [hl |-> hl, attrval_index |-> [a \in Attr |-> IF a = a1 THEN v1 ELSE v2]]
F(lines) == [lines |-> lines, errors |-> 0, readable |-> TRUE]
MCFile == {
  F(<<>>),
  F(<<L(<<n1, n2>>, "v", NoValue), L(<<n3>>, Absent, Absent)>>),
  F(<<L(<<n2>>, "v", NoValue), L(<<n1>>, "v", NoValue),
      L(<<n3>>, Absent, NoValue)>>),
  F(<<L(<<n1, n3>>, "%n", Absent), L(<<n3, n2>>, Absent, "w")>>),
  F(<<L(<<n3>>, "n3", "w"), L(<<n1>>, "n1", Absent),
      L(<<n2>>, Absent, "w")>>),
  F(<<L(<<n1>>, NoValue, "w"), L(<<n2>>, NoValue, Absent),
      L(<<n3>>, "%n", "%%n")>>),
  F(<<L(<<n1>>, "n1", Absent), L(<<n2, n2>>, "n1", "w")>>),
  [lines |-> <<>>, errors |-> 3, readable |-> TRUE],
  [lines |-> <<>>, errors |-> 256, readable |-> TRUE],
  [lines |-> <<>>, errors |-> 0, readable |-> FALSE]}

====
