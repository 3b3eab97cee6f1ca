---- MODULE GendersFile ----
(***************************************************************************)
(* A genders file as its documentation describes it: a sequence of lines,  *)
(* each naming nodes and listing attributes.  Which files are correct, and *)
(* what a correct file says, is stated here without reference to the       *)
(* parser; GendersTable builds the abstract store from it and GendersLoad  *)
(* is checked against it.                                                  *)
(***************************************************************************)
EXTENDS GendersDB

CONSTANTS
  File,               \* the files that may be read
  EmptyAttr,          \* an empty string between two commas
  EmptyValue,         \* nothing after the "="
  NodeLen,            \* strlen() of a node name
  AttrLen,            \* strlen() of an attribute name
  ValueLen,           \* strlen() of a raw value
  SubstValue,         \* values with "%n" and without "%%n"
  MAXHOSTNAMELEN      \* GENDERS_MAXHOSTNAMELEN

AttrVal == [attr : Attr \cup {EmptyAttr},
            val  : Value \cup {NoValue, EmptyValue}]

(* kind:  "blank" is white space or a comment, "long" does not fit the      *)
(*        buffer of _genders_open_and_parse(), "entry" is anything else.    *)
(* names: "good" is accepted by hostlist_push() and stands for the nodes    *)
(*        hl, "dotted" holds a '.', "bad" is refused by hostlist_push().    *)
(* white: there is white space inside the attribute list.                   *)
Line == [kind  : {"blank", "long", "entry"},
         names : {"good", "dotted", "bad"},
         hl    : Seq(Node),
         white : BOOLEAN,
         avs   : Seq(AttrVal)]

ASSUME FileAssumption ==
  /\ File \subseteq Seq(Line)
  /\ EmptyAttr \notin Attr
  /\ EmptyValue \notin Value \cup {NoValue, Absent}
  /\ NodeLen \in [Node -> Nat]
  /\ AttrLen \in [Attr -> Nat]
  /\ ValueLen \in [Value -> Nat]
  /\ SubstValue \subseteq Value
  /\ \A v \in SubstValue : ValueLen[v] >= 2
  /\ MAXHOSTNAMELEN \in Nat

LinesOf(f) == 1 .. Len(f)
Entries(f) == {i \in LinesOf(f) : f[i].kind = "entry"}

(* Line l gives attribute a.                                                *)
Lists(l, a) == \E k \in 1 .. Len(l.avs) : l.avs[k].attr = a

GoodAttrs(l) ==
  /\ l.avs # <<>> => ~ l.white
  /\ \A k \in 1 .. Len(l.avs) : /\ l.avs[k].attr # EmptyAttr
                                /\ l.avs[k].val # EmptyValue
  /\ \A j, k \in 1 .. Len(l.avs) : l.avs[j].attr = l.avs[k].attr => j = k

GoodNames(l) ==
  /\ l.names = "good"
  /\ \A n \in NodesIn(l.hl) : NodeLen[n] <= MAXHOSTNAMELEN

(* Two lines may not give the same attribute to the same node.              *)
Compatible(l1, l2) ==
  \A n \in Node, a \in Attr :
     ~ (/\ n \in NodesIn(l1.hl) \cap NodesIn(l2.hl)
        /\ Lists(l1, a) /\ Lists(l2, a))

(* A file without errors.                                                   *)
Correct(f) ==
  /\ \A i \in LinesOf(f) : f[i].kind # "long"
  /\ \A i \in Entries(f) : GoodAttrs(f[i]) /\ GoodNames(f[i])
  /\ \A i, j \in Entries(f) : i < j => Compatible(f[i], f[j])

(* What the first m lines of a file say.                                    *)
NodesUpTo(f, m) ==
  UNION {NodesIn(f[i].hl) : i \in {j \in Entries(f) : j <= m}}
AttrsUpTo(f, m) ==
  {a \in Attr : \E i \in Entries(f) : i <= m /\ Lists(f[i], a)}
TableUpTo(f, m) ==
  {t \in Node \X Attr \X (Value \cup {NoValue}) :
     \E i \in Entries(f) :
        /\ i <= m
        /\ t[1] \in NodesIn(f[i].hl)
        /\ \E k \in 1 .. Len(f[i].avs) :
              f[i].avs[k].attr = t[2] /\ f[i].avs[k].val = t[3]}

====
