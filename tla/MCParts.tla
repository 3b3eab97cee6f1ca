---- MODULE MCParts ----
(***************************************************************************)
(* The parts that call no other part, one at a time: a list of three       *)
(* items, of which two are equal, with two iterators; a table of five      *)
(* names, two of which have the same hash, that grows from one slot to two *)
(* and to four; or the values of a file of one line with two values, or of *)
(* two lines with one value each, of up to three pieces, with node names   *)
(* of one and three characters.                                            *)
(***************************************************************************)
EXTENDS Lists, Hash, GendersValue, TLC

CONSTANTS a, b, c

VARIABLE subject

MCRank == a :> 0 @@ b :> 0 @@ c :> 1
MCKey == {"p", "q", "r", "s", "t"}
MCHashKey == "p" :> 0 @@ "q" :> 1 @@ "r" :> 2 @@ "s" :> 3 @@ "t" :> 3

MCPiece == {"x", "n", "%", "%%", "%n"}
MCName == {<<"h">>, <<"h", "1", "2">>}
MCVal == UNION {[1 .. k -> MCPiece] : k \in 1 .. 3}
MCShort == UNION {[1 .. k -> {"x", "%n"}] : k \in 1 .. 2}
MCNodes == {<<<<"h">>>>, <<<<"h">>, <<"h", "1", "2">>>>}

MCFile ==
  {<<[nodes |-> ns, vals |-> <<v>>]>> : ns \in MCNodes, v \in MCVal}
    \cup {<<[nodes |-> ns, vals |-> <<v, w>>]>> :
             ns \in MCNodes, v \in MCVal, w \in MCShort}
    \cup {<<[nodes |-> <<<<"h">>>>, vals |-> <<v>>],
            [nodes |-> <<<<"h", "1", "2">>>>, vals |-> <<w>>]>> :
             v \in MCVal, w \in MCShort}

AnyFile == CHOOSE f \in File : TRUE

MCInit ==
  /\ Init /\ HashInit /\ ValueInit
  /\ subject \in {"list", "hash", "value"}
  /\ subject # "value" => file = AnyFile
MCNext ==
  \/ subject = "list" /\ Next /\ UNCHANGED <<hashVars, valueVars, subject>>
  \/ subject = "hash" /\ HashNext /\ UNCHANGED <<vars, valueVars, subject>>
  \/ subject = "value" /\ ValueNext /\ UNCHANGED <<vars, hashVars, subject>>
MCSpec == MCInit /\ [][MCNext]_<<vars, hashVars, valueVars, subject>>

====
