---- MODULE GendersDB ----
(***************************************************************************)
(* The data a genders handle holds, shared by the modules that fill it     *)
(* (GendersLoad) and the modules that answer from it (GendersHandle,       *)
(* GendersQuery).                                                          *)
(*                                                                         *)
(* A node name, an attribute name and a raw attribute value are opaque;    *)
(* the parser and the queries only compare them and measure their lengths. *)
(***************************************************************************)
EXTENDS Integers, Sequences, FiniteSets

CONSTANTS
  Node,     \* node names
  Attr,     \* attribute names
  Value,    \* raw values, as written after the "=" in a genders file
  NoValue,  \* an attribute listed without "=" (av->val == NULL)
  Absent    \* hash_find() returns NULL: the attribute is not on the line

ASSUME MarksAreNotValues ==
  /\ NoValue \notin Value
  /\ Absent \notin Value \cup {NoValue}

(* struct genders_hosts: the hostlist of one line, and its attributes.      *)
AttrVals == [Attr -> Value \cup {NoValue, Absent}]
GendersHosts == [hl : Seq(Node), attrval_index : AttrVals]

NoAttrVals == [a \in Attr |-> Absent]
AttrsIn(attrvals) == {a \in Attr : attrvals[a] # Absent}
NodesIn(hl) == {hl[i] : i \in 1 .. Len(hl)}

(* The members of struct genders that the parser fills.                     *)
Database ==
  [genders_hosts : Seq(GendersHosts),
   hostnames     : SUBSET Node,
   attrs         : SUBSET Attr,
   numattrs      : Nat,
   maxnodelen    : Nat,
   maxattrlen    : Nat,
   maxvallen     : Nat]

EmptyDatabase ==
  [genders_hosts |-> <<>>, hostnames |-> {}, attrs |-> {}, numattrs |-> 0,
   maxnodelen |-> 0, maxattrlen |-> 0, maxvallen |-> 0]

(* _duplicate_attr_checks() for two lines: they share a node and an         *)
(* attribute, so that node would have the attribute twice.                  *)
Clash(hl1, attrvals1, hl2, attrvals2) ==
  /\ NodesIn(hl1) \cap NodesIn(hl2) # {}
  /\ AttrsIn(attrvals1) \cap AttrsIn(attrvals2) # {}

(* What a list of lines says: node n has attribute a with value v.          *)
Table(hosts) ==
  {t \in Node \X Attr \X (Value \cup {NoValue}) :
     \E i \in 1 .. Len(hosts) :
        /\ t[1] \in NodesIn(hosts[i].hl)
        /\ hosts[i].attrval_index[t[2]] = t[3]}

(* TUTORIAL: "no single node may have duplicate attributes".                *)
NoDuplicateAttrsIn(hosts) ==
  \A i, j \in 1 .. Len(hosts) :
     i # j => ~ Clash(hosts[i].hl, hosts[i].attrval_index,
                      hosts[j].hl, hosts[j].attrval_index)

(* The nodes and the attributes of a list of lines.                         *)
NodesOfLines(hosts) ==
  {n \in Node : \E i \in 1 .. Len(hosts) : n \in NodesIn(hosts[i].hl)}
AttrsOfLines(hosts) ==
  {a \in Attr : \E i \in 1 .. Len(hosts) : a \in AttrsIn(hosts[i].attrval_index)}

(* The list of lines, the list of all nodes and the table of all attributes *)
(* say the same.                                                            *)
ConsistentDatabase(db) ==
  /\ NoDuplicateAttrsIn(db.genders_hosts)
  /\ db.hostnames = {n \in Node : \E i \in 1 .. Len(db.genders_hosts) :
                       n \in NodesIn(db.genders_hosts[i].hl)}
  /\ db.attrs = {a \in Attr : \E i \in 1 .. Len(db.genders_hosts) :
                   a \in AttrsIn(db.genders_hosts[i].attrval_index)}
  /\ db.numattrs = Cardinality(db.attrs)

====
