---- MODULE GendersLoadProofs ----
(***************************************************************************)
(* Proofs about GendersLoad, for every set of files, nodes, attributes and *)
(* values.                                                                 *)
(***************************************************************************)
EXTENDS GendersLoad, FiniteSetTheorems, TLAPS

(***************************************************************************)
(* Lemmas about the data.                                                  *)
(***************************************************************************)

(* A line names finitely many nodes.                                        *)
LEMMA NodesInFinite ==
  ASSUME NEW hl \in Seq(Node)
  PROVE  IsFiniteSet(NodesIn(hl)) /\ NodesIn(hl) \subseteq Node
<1>1. Len(hl) \in Nat
  OBVIOUS
<1>2. IsFiniteSet(1 .. Len(hl))
  BY <1>1, FS_Interval
<1> DEFINE f == [i \in 1 .. Len(hl) |-> hl[i]]
<1>3. f \in Surjection(1 .. Len(hl), NodesIn(hl))
  BY DEF NodesIn, Surjection
<1>4. IsFiniteSet(NodesIn(hl))
  BY <1>2, <1>3, FS_Surjection
<1> QED
  BY <1>4 DEF NodesIn

(* The empty database has its type, and is finite.                          *)
LEMMA EmptyDatabaseType ==
  /\ EmptyDatabase \in Database
  /\ IsFiniteSet(EmptyDatabase.hostnames)
  /\ IsFiniteSet(EmptyDatabase.attrs)
BY FS_EmptySet DEF EmptyDatabase, Database

LEMMA NoAttrValsType == NoAttrVals \in AttrVals /\ AttrsIn(NoAttrVals) = {}
BY DEF NoAttrVals, AttrVals, AttrsIn

(***************************************************************************)
(* Types.                                                                  *)
(***************************************************************************)

(* The sets whose sizes are counted are finite.                             *)
Finite ==
  \A m \in Modes : /\ IsFiniteSet(data[m].hostnames)
                   /\ IsFiniteSet(data[m].attrs)

(* Between calls no line is being read.                                     *)
Resting == pc = "idle" => line = 1

TypeInv == TypeOK /\ Finite /\ Resting

LEMMA LineDoneType ==
  ASSUME NEW l \in Nat \ {0}, LineDone(l)
  PROVE  /\ line' \in Nat \ {0} /\ line' = l
         /\ next' \in Nat \ {0}
         /\ attrval_index' \in AttrVals
         /\ max_n_subst_vallen' \in {0} \cup (Nat \ {0, 1})
         /\ line_maxnodelen' \in Nat
BY NoAttrValsType DEF LineDone

(* What a failure that goes unnoticed is remembered as.                     *)
LEMMA GoesUnnoticedType ==
  ASSUME TypeOK, NEW what \in Unnoticed, GoesUnnoticed(what)
  PROVE  /\ missed' \in [Modes -> SUBSET Unnoticed] /\ fault' = TRUE
         /\ missed'[mode] = missed[mode] \cup {what}
         /\ \A m \in Modes : m # mode => missed'[m] = missed[m]
         /\ \A m \in Modes : missed[m] \subseteq missed'[m]
BY DEF TypeOK, GoesUnnoticed

LEMMA GiveUpType ==
  ASSUME TypeInv, NEW e \in Errors, GiveUp(e), fault' \in BOOLEAN
  PROVE  TypeInv'
<1> USE DEF TypeInv, TypeOK, Finite, Resting
<1>1. data' \in [Modes -> Database]
  BY EmptyDatabaseType DEF GiveUp, CleanUp
<1>2. Finite'
  BY EmptyDatabaseType DEF GiveUp, CleanUp
<1>3. handle' \in [is_loaded : BOOLEAN, numnodes : Nat, valbuf : Nat]
  BY DEF GiveUp, NewHandle
<1>4. line' \in 1 .. Len(file') + 1 /\ Resting'
  BY LineDoneType DEF GiveUp, callvars
<1>5. /\ next' \in Nat \ {0}
      /\ attrval_index' \in AttrVals
      /\ max_n_subst_vallen' \in {0} \cup (Nat \ {0, 1})
      /\ line_maxnodelen' \in Nat
  BY LineDoneType DEF GiveUp
<1> QED
  BY <1>1, <1>2, <1>3, <1>4, <1>5 DEF GiveUp, callvars

LEMMA RejectLineType ==
  ASSUME TypeInv, RejectLine, pc \in {"attrs", "names", "hosts"},
         fault' \in BOOLEAN
  PROVE  TypeInv'
<1>1. CASE mode = "load"
  BY <1>1, GiveUpType DEF RejectLine, Errors
<1>2. CASE mode # "load"
  <2> USE DEF TypeInv, TypeOK, Resting
  <2>1. line + 1 \in Nat \ {0} /\ LineDone(line + 1)
    BY <1>2 DEF RejectLine
  <2>2. /\ line' \in 1 .. Len(file') + 1
        /\ next' \in Nat \ {0}
        /\ attrval_index' \in AttrVals
        /\ max_n_subst_vallen' \in {0} \cup (Nat \ {0, 1})
        /\ line_maxnodelen' \in Nat
    BY <1>2, <2>1, LineDoneType DEF RejectLine, callvars
  <2>3. Finite'
    BY <1>2 DEF RejectLine, Finite
  <2> QED
    BY <1>2, <2>2, <2>3 DEF RejectLine, Errors, callvars
<1> QED
  BY <1>1, <1>2

LEMMA InitType == Init => TypeInv
<1> SUFFICES ASSUME Init PROVE TypeInv
  OBVIOUS
<1>1. data \in [Modes -> Database] /\ Finite
  BY EmptyDatabaseType DEF Init, Finite
<1>2. file \in Seq(Line) /\ line \in 1 .. Len(file) + 1 /\ Resting
  BY DEF Init, Resting
<1>3. handle \in [is_loaded : BOOLEAN, numnodes : Nat, valbuf : Nat]
  BY DEF Init, NewHandle
<1>4. attrval_index \in AttrVals
  BY NoAttrValsType DEF Init
<1>5. pc = "idle" /\ mode \in Modes /\ errnum \in Errors
  BY DEF Init, Modes, Errors
<1>6. /\ next \in Nat \ {0} /\ line_maxnodelen \in Nat
      /\ max_n_subst_vallen \in {0} \cup (Nat \ {0, 1})
      /\ errcount \in Nat /\ rv \in Int
  BY DEF Init
<1>7. fault \in BOOLEAN /\ missed \in [Modes -> SUBSET Unnoticed]
  BY DEF Init
<1> QED
  BY <1>1, <1>2, <1>3, <1>4, <1>5, <1>6, <1>7 DEF TypeInv, TypeOK

LEMMA WithAttrType ==
  ASSUME NEW db \in Database, Av.attr \in Attr
  PROVE  WithAttr(db) \in Database
<1>1. AttrLen[Av.attr] \in Nat /\ \A v \in Value : ValueLen[v] \in Nat
  BY FileAssumption
<1> QED
  BY <1>1 DEF WithAttr, InsertCount, Database, Bigger

LEMMA WithNodeLenType ==
  ASSUME NEW db \in Database, NEW len \in Nat
  PROVE  /\ WithNodeLen(db, len) \in Database
         /\ WithNodeLen(db, len).genders_hosts = db.genders_hosts
         /\ WithNodeLen(db, len).hostnames = db.hostnames
         /\ WithNodeLen(db, len).attrs = db.attrs
         /\ WithNodeLen(db, len).numattrs = db.numattrs
         /\ WithNodeLen(db, len).maxattrlen = db.maxattrlen
         /\ WithNodeLen(db, len).maxvallen = db.maxvallen
         /\ WithNodeLen(db, len).maxnodelen = Bigger(len, db.maxnodelen)
BY DEF WithNodeLen, Database, Bigger

LEMMA WithHostsType ==
  ASSUME NEW db \in Database, Current.hl \in Seq(Node),
         NEW pushed \in SUBSET Node, attrval_index \in AttrVals, line_maxnodelen \in Nat,
         max_n_subst_vallen \in {0} \cup (Nat \ {0, 1})
  PROVE  WithHosts(db, pushed) \in Database
<1> DEFINE hosts == [hl |-> Current.hl, attrval_index |-> attrval_index]
<1>1. hosts \in GendersHosts
  BY DEF GendersHosts
<1>2. Append(db.genders_hosts, hosts) \in Seq(GendersHosts)
  BY <1>1 DEF Database
<1>3. db.hostnames \cup pushed \in SUBSET Node
  BY DEF Database
<1>4. max_n_subst_vallen # 0 => SubstLen \in Nat
  BY DEF SubstLen
<1> QED
  BY <1>2, <1>3, <1>4 DEF WithHosts, Database, Bigger

(* The line being parsed.                                                   *)
LEMMA CurrentType ==
  ASSUME TypeOK, pc \in {"attrs", "names", "hosts"}
  PROVE  /\ Current \in Line
         /\ Current.hl \in Seq(Node)
         /\ Current.avs \in Seq(AttrVal)
<1>1. file \in Seq(Line) /\ line \in 1 .. Len(file)
  BY DEF TypeOK
<1>2. Current \in Line
  BY <1>1 DEF Current
<1> QED
  BY <1>2 DEF Line

(* The attribute InsertAttr takes is a well-formed one.                     *)
LEMMA AvType ==
  ASSUME TypeOK, InsertAttr
  PROVE  /\ Current \in Line /\ Av \in AttrVal
         /\ Av.attr \in Attr /\ Av.val \in Value \cup {NoValue}
<1>1. Current \in Line /\ Current.avs \in Seq(AttrVal)
  BY CurrentType DEF InsertAttr, ParseAttr
<1>2. next \in 1 .. Len(Current.avs)
  BY <1>1 DEF TypeOK, InsertAttr, ParseAttr, MoreAttrs
<1>3. Av \in AttrVal
  BY <1>1, <1>2 DEF Av
<1> QED
  BY <1>1, <1>3 DEF AttrVal, InsertAttr, AcceptableAttr

LEMMA InsertAttrType ==
  ASSUME TypeInv, InsertAttr
  PROVE  TypeInv'
<1> USE DEF TypeInv, TypeOK, Resting
<1>1. Av.attr \in Attr /\ Av.val \in Value \cup {NoValue}
  BY AvType
<1>2. attrval_index' \in AttrVals
  BY <1>1 DEF InsertAttr, AttrVals
<1>3. WithAttr(data[mode]) \in Database
  BY <1>1, WithAttrType
<1>4. data' \in [Modes -> Database]
  BY <1>3 DEF InsertAttr
<1>5. /\ IsFiniteSet(WithAttr(data[mode]).attrs)
      /\ IsFiniteSet(WithAttr(data[mode]).hostnames)
  BY FS_AddElement DEF Finite, WithAttr
<1>6. Finite'
  BY <1>5 DEF Finite, InsertAttr
<1>7. max_n_subst_vallen' \in {0} \cup (Nat \ {0, 1})
  BY FileAssumption DEF InsertAttr
<1> QED
  BY <1>2, <1>4, <1>6, <1>7 DEF InsertAttr, callvars, ParseAttr

LEMMA HostLenType ==
  ASSUME TypeOK, pc = "hosts", MoreHosts
  PROVE  /\ Current.hl \in Seq(Node) /\ next \in 1 .. Len(Current.hl)
         /\ HostLen \in Nat
<1>1. Current.hl \in Seq(Node)
  BY CurrentType
<1>2. next \in 1 .. Len(Current.hl)
  BY <1>1 DEF TypeOK, MoreHosts
<1>3. Current.hl[next] \in Node
  BY <1>1, <1>2
<1> QED
  BY <1>1, <1>2, <1>3, FileAssumption DEF HostLen

LEMMA MeasureHostType ==
  ASSUME TypeInv, MeasureHost
  PROVE  TypeInv'
<1> USE DEF TypeInv, TypeOK, Resting
<1>1. HostLen \in Nat
  BY HostLenType DEF MeasureHost
<1>2. data["load"] \in Database
  BY DEF Modes
<1>3. WithNodeLen(data["load"], HostLen) \in Database
  BY <1>1, <1>2, WithNodeLenType
<1>4. data' \in [Modes -> Database]
  BY <1>3 DEF MeasureHost
<1>5. Finite'
  <2>1. /\ WithNodeLen(data["load"], HostLen).attrs = data["load"].attrs
        /\ WithNodeLen(data["load"], HostLen).hostnames
             = data["load"].hostnames
    BY <1>1, <1>2, WithNodeLenType
  <2>2. \A m \in Modes : /\ data'[m].attrs = data[m].attrs
                         /\ data'[m].hostnames = data[m].hostnames
    BY <2>1 DEF MeasureHost
  <2> QED
    BY <2>2 DEF Finite
<1>6. line_maxnodelen' \in Nat
  BY <1>1 DEF MeasureHost, Bigger
<1> QED
  BY <1>4, <1>5, <1>6 DEF MeasureHost, callvars

LEMMA AppendWithType ==
  ASSUME TypeInv, pc = "hosts", NEW pushed \in SUBSET Node,
         IsFiniteSet(pushed), AppendWith(pushed), fault' \in BOOLEAN,
         missed' \in [Modes -> SUBSET Unnoticed]
  PROVE  TypeInv'
<1> USE DEF TypeInv, TypeOK, Resting
<1>1. Current.hl \in Seq(Node)
  BY CurrentType
<1>2. data' \in [Modes -> Database]
  BY <1>1, WithHostsType DEF AppendWith
<1>3. /\ IsFiniteSet(WithHosts(data[mode], pushed).attrs)
      /\ IsFiniteSet(WithHosts(data[mode], pushed).hostnames)
  BY <1>1, FS_Union DEF Finite, WithHosts
<1>4. Finite'
  BY <1>3 DEF AppendWith, Finite
<1>5. line + 1 \in Nat \ {0} /\ LineDone(line + 1)
  BY DEF AppendWith
<1>6. /\ line' \in 1 .. Len(file') + 1
      /\ next' \in Nat \ {0}
      /\ attrval_index' \in AttrVals
      /\ max_n_subst_vallen' \in {0} \cup (Nat \ {0, 1})
      /\ line_maxnodelen' \in Nat
  BY <1>5, LineDoneType DEF AppendWith, callvars
<1> QED
  BY <1>2, <1>4, <1>6 DEF AppendWith, callvars

(* Each way of finishing a line.                                            *)
LEMMA AppendsWith ==
  ASSUME TypeOK, AppendHosts \/ LosesNames
  PROVE  /\ pc = "hosts" /\ Current.hl \in Seq(Node)
         /\ fault' \in BOOLEAN
         /\ missed' \in [Modes -> SUBSET Unnoticed]
         /\ \A m \in Modes : missed[m] \subseteq missed'[m]
         /\ \A m \in Modes : m # mode => missed'[m] = missed[m]
         /\ ~ MoreHosts
         /\ \E pushed \in SUBSET NodesIn(Current.hl) :
               /\ AppendWith(pushed)
               /\ pushed # NodesIn(Current.hl) => "names" \in missed'[mode]
<1>1. pc = "hosts"
  BY DEF AppendHosts, LosesNames
<1>2. Current.hl \in Seq(Node)
  BY <1>1, CurrentType
<1>3. missed \in [Modes -> SUBSET Unnoticed] /\ fault \in BOOLEAN /\ mode \in Modes
  BY DEF TypeOK
<1>4. CASE AppendHosts
  <2>1. /\ AppendWith(NodesIn(Current.hl)) /\ missed' = missed
        /\ fault' = fault /\ ~ MoreHosts
    BY <1>4 DEF AppendHosts
  <2> QED
    BY <1>1, <1>2, <1>3, <2>1
<1>5. CASE LosesNames
  <2>1. /\ GoesUnnoticed("names") /\ ~ MoreHosts
        /\ \E pushed \in SUBSET NodesIn(Current.hl) : AppendWith(pushed)
    BY <1>5 DEF LosesNames
  <2>2. "names" \in Unnoticed
    BY DEF Unnoticed
  <2>3. /\ missed' \in [Modes -> SUBSET Unnoticed] /\ fault' = TRUE
        /\ missed'[mode] = missed[mode] \cup {"names"}
        /\ \A m \in Modes : m # mode => missed'[m] = missed[m]
        /\ \A m \in Modes : missed[m] \subseteq missed'[m]
    BY <2>1, <2>2, GoesUnnoticedType
  <2> QED
    BY <1>1, <1>2, <1>3, <2>1, <2>3
<1> QED
  BY <1>4, <1>5

LEMMA FinishType ==
  ASSUME TypeInv, AppendHosts \/ LosesNames
  PROVE  TypeInv'
<1>1. TypeOK
  BY DEF TypeInv
<1>2. /\ pc = "hosts" /\ Current.hl \in Seq(Node) /\ fault' \in BOOLEAN
      /\ missed' \in [Modes -> SUBSET Unnoticed]
      /\ \E p \in SUBSET NodesIn(Current.hl) : AppendWith(p)
  BY <1>1, AppendsWith
<1>3. PICK pushed \in SUBSET NodesIn(Current.hl) : AppendWith(pushed)
  BY <1>2
<1>4. pushed \in SUBSET Node /\ IsFiniteSet(pushed)
  BY <1>2, <1>3, NodesInFinite, FS_Subset
<1> QED
  BY <1>2, <1>3, <1>4, AppendWithType

(* A table that a rehash takes an entry from.                               *)
LEMMA DropsType ==
  ASSUME TypeInv, DropsAttrval \/ DropsAttr
  PROVE  TypeInv'
<1> USE DEF TypeInv, TypeOK, Resting
<1>1. /\ missed' \in [Modes -> SUBSET Unnoticed] /\ fault' = TRUE
  <2>1. "attrs" \in Unnoticed /\ GoesUnnoticed("attrs")
    BY DEF Unnoticed, DropsAttrval, DropsAttr
  <2> QED
    BY <2>1, GoesUnnoticedType
<1>2. CASE DropsAttrval
  <2>1. attrval_index' \in AttrVals
    BY <1>2 DEF DropsAttrval, AttrVals
  <2>2. Finite'
    BY <1>2 DEF DropsAttrval, Finite
  <2> QED
    BY <1>1, <1>2, <2>1, <2>2 DEF DropsAttrval, callvars, ParseAttr
<1>3. CASE DropsAttr
  <2>1. PICK a \in data[mode].attrs :
           data' = [data EXCEPT ![mode] = WithoutAttr(data[mode], a)]
    BY <1>3 DEF DropsAttr
  <2>2. /\ WithoutAttr(data[mode], a) \in Database
        /\ WithoutAttr(data[mode], a).attrs = data[mode].attrs \ {a}
        /\ WithoutAttr(data[mode], a).hostnames = data[mode].hostnames
    BY DEF WithoutAttr, Database
  <2>3. data' \in [Modes -> Database]
    BY <2>1, <2>2
  <2>4. IsFiniteSet(data[mode].attrs \ {a})
    BY FS_Subset DEF Finite
  <2>5. Finite'
    BY <2>1, <2>2, <2>4 DEF Finite
  <2> QED
    BY <1>1, <1>3, <2>3, <2>5 DEF DropsAttr, callvars, linevars, ParseAttr
<1> QED
  BY <1>2, <1>3

(* The local variables of a line that was never begun.                      *)
LEMMA LineDoneOneType ==
  ASSUME LineDone(1)
  PROVE  /\ line' = 1 /\ next' \in Nat \ {0}
         /\ attrval_index' \in AttrVals
         /\ max_n_subst_vallen' \in {0} \cup (Nat \ {0, 1})
         /\ line_maxnodelen' \in Nat
BY LineDoneType

LEMMA ForgetsType ==
  ASSUME TypeOK, NEW m \in Modes, Forgets(m)
  PROVE  /\ missed' \in [Modes -> SUBSET Unnoticed]
         /\ missed'[m] = {}
         /\ handle.is_loaded /\ m = "debug" => missed'["load"] = missed["load"]
         /\ \A k \in Modes : missed'[k] \in {missed[k], {}}
BY DEF TypeOK, Forgets, Modes

LEMMA OpenType ==
  ASSUME TypeInv, NEW m \in Modes, NEW f \in File, Open(m, f)
  PROVE  TypeInv'
<1> USE DEF TypeInv, TypeOK, Resting
<1>1. file' \in Seq(Line) /\ mode' \in Modes /\ fault' \in BOOLEAN
  BY FileAssumption DEF Open, Start
<1>4. missed' \in [Modes -> SUBSET Unnoticed]
  BY ForgetsType DEF Open, Start
<1>2. /\ line' \in 1 .. Len(file') + 1
      /\ next' \in Nat \ {0}
      /\ attrval_index' \in AttrVals
      /\ max_n_subst_vallen' \in {0} \cup (Nat \ {0, 1})
      /\ line_maxnodelen' \in Nat
  BY <1>1, LineDoneOneType DEF Open, Start
<1>3. Finite'
  BY DEF Open, Finite
<1> QED
  BY <1>1, <1>2, <1>3, <1>4 DEF Open

LEMMA LoadAgainType ==
  ASSUME TypeInv, LoadAgain
  PROVE  TypeInv'
<1> USE DEF TypeInv, TypeOK, Resting
<1>1. data' \in [Modes -> Database] /\ Finite'
  BY EmptyDatabaseType DEF LoadAgain, CleanUp, Finite
<1>2. handle' \in [is_loaded : BOOLEAN, numnodes : Nat, valbuf : Nat]
  BY DEF LoadAgain, NewHandle
<1>3. errnum' \in Errors /\ mode' \in Modes
  BY DEF LoadAgain, Errors, Modes
<1>4. file' \in Seq(Line) /\ line' \in 1 .. Len(file') + 1 /\ Resting'
  BY DEF LoadAgain, linevars
<1>5. rv' \in Int
  BY DEF LoadAgain
<1>6. fault' \in BOOLEAN /\ missed' \in [Modes -> SUBSET Unnoticed]
  BY DEF LoadAgain
<1> QED
  BY <1>1, <1>2, <1>3, <1>4, <1>5, <1>6 DEF LoadAgain, linevars

LEMMA OpenFailsType ==
  ASSUME TypeInv, NEW m \in Modes, OpenFails(m)
  PROVE  TypeInv'
<1> USE DEF TypeInv, TypeOK, Resting
<1>1. errnum' \in Errors
  BY DEF OpenFails, Errors
<1>2. Finite'
  BY DEF OpenFails, Finite
<1>3. missed' \in [Modes -> SUBSET Unnoticed]
  BY ForgetsType DEF OpenFails
<1> QED
  BY <1>1, <1>2, <1>3 DEF OpenFails, linevars

LEMMA LoadSucceedsType ==
  ASSUME TypeInv, LoadSucceeds
  PROVE  TypeInv'
<1> USE DEF TypeInv, TypeOK, Resting
<1> DEFINE db == data["load"]
<1>1. db \in Database /\ IsFiniteSet(db.hostnames)
  BY DEF Modes, Finite
<1>2. /\ WithNodeLen(db, LocalLen) \in Database
      /\ WithNodeLen(db, LocalLen).attrs = db.attrs
      /\ WithNodeLen(db, LocalLen).hostnames = db.hostnames
  BY <1>1, WithNodeLenType, LocalLenAssumption
<1>3. data' \in [Modes -> Database]
  BY <1>2 DEF LoadSucceeds
<1>4. Finite'
  BY <1>2 DEF LoadSucceeds, Finite
<1>5. Cardinality(db.hostnames) \in Nat /\ db.maxvallen + 1 \in Nat
  BY ONLY <1>1, FS_CardinalityType DEF Database
<1>6. handle' \in [is_loaded : BOOLEAN, numnodes : Nat, valbuf : Nat]
  BY <1>5 DEF LoadSucceeds
<1>7. /\ line' \in 1 .. Len(file') + 1
      /\ line' = 1
      /\ next' \in Nat \ {0}
      /\ attrval_index' \in AttrVals
      /\ max_n_subst_vallen' \in {0} \cup (Nat \ {0, 1})
      /\ line_maxnodelen' \in Nat
  BY LineDoneOneType DEF LoadSucceeds, callvars
<1> QED
  BY <1>3, <1>4, <1>6, <1>7 DEF LoadSucceeds, callvars, Errors

LEMMA ParseReturnsType ==
  ASSUME TypeInv, ParseReturns
  PROVE  TypeInv'
<1> USE DEF TypeInv, TypeOK, Resting
<1>1. data' \in [Modes -> Database] /\ Finite'
  BY EmptyDatabaseType DEF ParseReturns, CleanUp, Finite
<1>2. /\ line' \in 1 .. Len(file') + 1
      /\ line' = 1
      /\ next' \in Nat \ {0}
      /\ attrval_index' \in AttrVals
      /\ max_n_subst_vallen' \in {0} \cup (Nat \ {0, 1})
      /\ line_maxnodelen' \in Nat
  BY LineDoneOneType DEF ParseReturns, callvars
<1> QED
  BY <1>1, <1>2 DEF ParseReturns, callvars, Errors

(* Steps of the parser that only move on.                                   *)
LEMMA MoveOnType ==
  ASSUME TypeInv,
         ReadBlank \/ ReadEntry \/ AttrsDone \/ NamesDone \/ MissesClash
           \/ StopsMeasuring
  PROVE  TypeInv'
<1> USE DEF TypeInv, TypeOK, Resting, Finite
<1>1. CASE ReadBlank
  <2>1. line + 1 \in Nat \ {0} /\ LineDone(line + 1)
    BY <1>1 DEF ReadBlank
  <2>2. /\ line' \in 1 .. Len(file') + 1
        /\ next' \in Nat \ {0}
        /\ attrval_index' \in AttrVals
        /\ max_n_subst_vallen' \in {0} \cup (Nat \ {0, 1})
        /\ line_maxnodelen' \in Nat
    BY <1>1, <2>1, LineDoneType DEF ReadBlank, callvars, MoreLines
  <2> QED
    BY <1>1, <2>2 DEF ReadBlank, callvars
<1>2. CASE ReadEntry
  BY <1>2 DEF ReadEntry, callvars, linevars, MoreLines
<1>3. CASE AttrsDone
  BY <1>3 DEF AttrsDone, callvars, linevars
<1>4. CASE NamesDone
  BY <1>4 DEF NamesDone, GoOnToHosts, callvars
<1>5. CASE MissesClash
  <2>1. "clash" \in Unnoticed
    BY DEF Unnoticed
  <2>2. missed' \in [Modes -> SUBSET Unnoticed] /\ fault' = TRUE
    BY <1>5, <2>1, GoesUnnoticedType DEF MissesClash
  <2> QED
    BY <1>5, <2>2 DEF MissesClash, GoOnToHosts, callvars
<1>6. CASE StopsMeasuring
  <2>1. "length" \in Unnoticed
    BY DEF Unnoticed
  <2>2. missed' \in [Modes -> SUBSET Unnoticed] /\ fault' = TRUE
    BY <1>6, <2>1, GoesUnnoticedType DEF StopsMeasuring
  <2>3. Len(Current.hl) + 1 \in Nat \ {0}
    BY <1>6, HostLenType DEF StopsMeasuring
  <2> QED
    BY <1>6, <2>2, <2>3 DEF StopsMeasuring, callvars
<1> QED
  BY <1>1, <1>2, <1>3, <1>4, <1>5, <1>6

LEMMA NextType ==
  ASSUME TypeInv, [Next]_vars
  PROVE  TypeInv'
<1>1. CASE ReadBlank \/ ReadEntry \/ AttrsDone \/ NamesDone \/ MissesClash
           \/ StopsMeasuring
  BY <1>1, MoveOnType
<1>2. CASE WhiteSpace \/ BadAttr \/ BadNames \/ HostTooLong \/ PushFails
  <2>1. RejectLine /\ pc \in {"attrs", "names", "hosts"}
    BY <1>2 DEF WhiteSpace, BadAttr, ParseAttr, BadNames, HostTooLong,
                PushFails
  <2>2. fault' \in BOOLEAN
    BY <1>2 DEF WhiteSpace, BadAttr, BadNames, HostTooLong, PushFails,
                TypeInv, TypeOK
  <2> QED
    BY <2>1, <2>2, RejectLineType
<1>3. CASE ReadLong \/ ReadFails \/ NoMemory \/ LoadFails
  <2>1. fault' \in BOOLEAN
    BY <1>3 DEF ReadLong, ReadFails, NoMemory, LoadFails, TypeInv, TypeOK
  <2>2. \E e \in Errors : GiveUp(e)
    BY <1>3 DEF ReadLong, ReadFails, NoMemory, LoadFails, Errors
  <2> QED
    BY <2>1, <2>2, GiveUpType
<1>4. CASE InsertAttr
  BY <1>4, InsertAttrType
<1>5. CASE MeasureHost
  BY <1>5, MeasureHostType
<1>6. CASE AppendHosts \/ LosesNames
  BY <1>6, FinishType
<1>11. CASE DropsAttrval \/ DropsAttr
  BY <1>11, DropsType
<1>7. CASE LoadSucceeds
  BY <1>7, LoadSucceedsType
<1>8. CASE ParseReturns
  BY <1>8, ParseReturnsType
<1>9. CASE Caller
  BY <1>9, OpenType, OpenFailsType, LoadAgainType DEF Caller
<1>10. CASE UNCHANGED vars
  BY <1>10 DEF vars, TypeInv, TypeOK, Finite, Resting
<1> QED
  BY <1>1, <1>2, <1>3, <1>4, <1>5, <1>6, <1>7, <1>8, <1>9, <1>10, <1>11
     DEF Next, Parser, Faults

(* Every variable has its type, whatever the files, and the sets the        *)
(* parser counts are finite.                                                *)
THEOREM TypeCorrect == Spec => []TypeOK
<1>1. TypeInv => TypeOK
  BY DEF TypeInv
<1> QED
  BY InitType, NextType, <1>1, PTL DEF Spec

(***************************************************************************)
(* Safety.  A database is accurate, but for the attributes `pending' of    *)
(* the line being read and for what `unnoticed' failures left undone, when *)
(* its sets, counts and lengths agree with its lines.                      *)
(***************************************************************************)
Listed(db, pending) == db.attrs \cup AttrsOfLines(db.genders_hosts) \cup pending

Accurate(db, pending, unnoticed) ==
  /\ "names" \notin unnoticed => db.hostnames = NodesOfLines(db.genders_hosts)
  /\ "attrs" \notin unnoticed =>
       /\ db.attrs = AttrsOfLines(db.genders_hosts) \cup pending
       /\ db.numattrs = Cardinality(db.attrs)
  /\ "length" \notin unnoticed =>
       \A n \in db.hostnames : NodeLen[n] <= db.maxnodelen
  /\ IsFiniteSet(Listed(db, pending))
  /\ Cardinality(Listed(db, pending)) <= db.numattrs
  /\ \A a \in Listed(db, pending) : AttrLen[a] <= db.maxattrlen

Pending == IF mode = "load" THEN AttrsIn(attrval_index) ELSE {}

(* The inductive invariant.                                                 *)
Measured ==
  mode = "load" /\ pc = "hosts" /\ "length" \notin missed["load"] =>
     \A j \in 1 .. Len(Current.hl) :
        j < next => NodeLen[Current.hl[j]] <= data["load"].maxnodelen

HandleInv ==
  /\ handle.is_loaded =>
       /\ pc = "idle" \/ mode = "debug"
       /\ handle.numnodes = Cardinality(data["load"].hostnames)
       /\ handle.valbuf = data["load"].maxvallen + 1
  /\ ~ handle.is_loaded =>
       /\ handle = NewHandle
       /\ pc = "idle" \/ mode = "debug" => data["load"] = EmptyDatabase
  /\ pc = "idle" \/ mode = "load" => data["debug"] = EmptyDatabase

LoadInv ==
  /\ TypeInv
  /\ NoDuplicateAttrs
  /\ Accurate(data["load"], Pending, missed["load"])
  /\ pc \in {"idle", "read"} => attrval_index = NoAttrVals
  /\ pc = "hosts" => ~ Duplicates \/ "clash" \in missed[mode]
  /\ Measured
  /\ HandleInv

LEMMA EmptyDatabaseInv ==
  /\ NoDuplicateAttrsIn(EmptyDatabase.genders_hosts)
  /\ \A unnoticed : Accurate(EmptyDatabase, {}, unnoticed)
<1>1. Cardinality({}) = 0 /\ IsFiniteSet({})
  BY FS_EmptySet
<1>2. /\ NodesOfLines(EmptyDatabase.genders_hosts) = {}
      /\ AttrsOfLines(EmptyDatabase.genders_hosts) = {}
  BY DEF EmptyDatabase, NodesOfLines, AttrsOfLines
<1>3. Listed(EmptyDatabase, {}) = {}
  BY <1>2 DEF Listed, EmptyDatabase
<1>4. NoDuplicateAttrsIn(EmptyDatabase.genders_hosts)
  BY DEF EmptyDatabase, NoDuplicateAttrsIn
<1>5. /\ EmptyDatabase.hostnames = {} /\ EmptyDatabase.attrs = {}
      /\ EmptyDatabase.numattrs = 0
  BY DEF EmptyDatabase
<1>6. 0 <= 0
  OBVIOUS
<1> QED
  BY <1>1, <1>2, <1>3, <1>4, <1>5, <1>6 DEF Accurate

(* More failures that went unnoticed promise less.                          *)
LEMMA AccurateDespite ==
  ASSUME NEW db, NEW pending, NEW u, NEW v, u \subseteq v,
         Accurate(db, pending, u)
  PROVE  Accurate(db, pending, v)
BY DEF Accurate

LEMMA WithAttrInv ==
  ASSUME NEW db \in Database, IsFiniteSet(db.attrs),
         NEW pending \in SUBSET Attr, NEW u, Accurate(db, pending, u), Av.attr \in Attr, mode = "load"
  PROVE  /\ Accurate(WithAttr(db), pending \cup {Av.attr}, u)
         /\ WithAttr(db).genders_hosts = db.genders_hosts
<1> DEFINE new == WithAttr(db)
<1>1. /\ new.genders_hosts = db.genders_hosts
      /\ new.hostnames = db.hostnames
      /\ new.attrs = db.attrs \cup {Av.attr}
      /\ new.numattrs = db.numattrs + InsertCount(db)
      /\ new.maxnodelen = db.maxnodelen
      /\ new.maxattrlen = Bigger(AttrLen[Av.attr], db.maxattrlen)
  BY DEF WithAttr
<1>2. "attrs" \notin u => new.numattrs = Cardinality(new.attrs)
  <2>1. Cardinality(db.attrs \cup {Av.attr}) =
           IF Av.attr \in db.attrs THEN Cardinality(db.attrs)
           ELSE Cardinality(db.attrs) + 1
    BY FS_AddElement
  <2>2. /\ "attrs" \notin u => db.numattrs = Cardinality(db.attrs)
        /\ db.numattrs \in Nat
    BY DEF Accurate, Database
  <2> QED
    BY <1>1, <2>1, <2>2 DEF InsertCount
<1>3. Listed(new, pending \cup {Av.attr}) = Listed(db, pending) \cup {Av.attr}
  BY <1>1 DEF Listed
<1>4. \A a \in Listed(new, pending \cup {Av.attr}) : AttrLen[a] <= new.maxattrlen
  <2>1. AttrLen[Av.attr] \in Nat /\ db.maxattrlen \in Nat
    BY FileAssumption DEF Database
  <2>2. /\ AttrLen[Av.attr] <= new.maxattrlen
        /\ db.maxattrlen <= new.maxattrlen /\ new.maxattrlen \in Nat
    BY <1>1, <2>1 DEF Bigger
  <2>3. Listed(db, pending) \subseteq Attr
    BY DEF Listed, Database, AttrsOfLines
  <2> QED
    BY <1>3, <2>1, <2>2, <2>3, FileAssumption DEF Accurate
<1>5. /\ IsFiniteSet(Listed(new, pending \cup {Av.attr}))
      /\ Cardinality(Listed(new, pending \cup {Av.attr})) <= new.numattrs
  <2>1. IsFiniteSet(Listed(db, pending))
    BY DEF Accurate
  <2>2. Cardinality(Listed(db, pending) \cup {Av.attr}) =
           IF Av.attr \in Listed(db, pending) THEN Cardinality(Listed(db, pending))
           ELSE Cardinality(Listed(db, pending)) + 1
    BY <2>1, FS_AddElement
  <2>3. IsFiniteSet(Listed(db, pending) \cup {Av.attr})
    BY <2>1, FS_AddElement
  <2>4. /\ Cardinality(Listed(db, pending)) <= db.numattrs
        /\ Cardinality(Listed(db, pending)) \in Nat /\ db.numattrs \in Nat
    BY <2>1, FS_CardinalityType DEF Accurate, Database
  <2>5. Av.attr \in db.attrs => Av.attr \in Listed(db, pending)
    BY DEF Listed
  <2>6. new.numattrs = IF Av.attr \in db.attrs THEN db.numattrs
                       ELSE db.numattrs + 1
    BY ONLY <1>1, <2>4 DEF InsertCount
  <2>7. Cardinality(Listed(db, pending) \cup {Av.attr}) <= new.numattrs
    BY ONLY <2>2, <2>4, <2>5, <2>6
  <2> QED
    BY ONLY <1>3, <2>3, <2>7
<1> HIDE DEF new
<1>6. /\ "names" \notin u => new.hostnames = NodesOfLines(new.genders_hosts)
      /\ "length" \notin u =>
           \A n \in new.hostnames : NodeLen[n] <= new.maxnodelen
      /\ "attrs" \notin u =>
           new.attrs = AttrsOfLines(new.genders_hosts)
                         \cup (pending \cup {Av.attr})
  BY <1>1 DEF Accurate
<1>7. Accurate(new, pending \cup {Av.attr}, u)
  BY ONLY <1>2, <1>4, <1>5, <1>6 DEF Accurate
<1> QED
  BY <1>1, <1>7 DEF new

LEMMA WithNodeLenInv ==
  ASSUME NEW db \in Database, NEW len \in Nat, NEW pending, NEW u,
         Accurate(db, pending, u)
  PROVE  Accurate(WithNodeLen(db, len), pending, u)
<1> DEFINE new == WithNodeLen(db, len)
<1>1. \A n \in Node : NodeLen[n] \in Nat
  BY FileAssumption
<1>2. "length" \notin u =>
        \A n \in db.hostnames : NodeLen[n] <= Bigger(len, db.maxnodelen)
  BY <1>1 DEF Accurate, Database, Bigger
<1>3. /\ new.genders_hosts = db.genders_hosts
      /\ new.hostnames = db.hostnames /\ new.attrs = db.attrs
      /\ new.numattrs = db.numattrs /\ new.maxattrlen = db.maxattrlen
      /\ new.maxnodelen = Bigger(len, db.maxnodelen)
  BY WithNodeLenType
<1> HIDE DEF new
<1>4. Listed(new, pending) = Listed(db, pending)
  BY <1>3 DEF Listed
<1>5. Accurate(new, pending, u)
  BY <1>2, <1>3, <1>4 DEF Accurate
<1> QED
  BY <1>5 DEF new

(* A line appended to the list.                                             *)
LEMMA AppendLine ==
  ASSUME NEW hosts \in Seq(GendersHosts), NEW h \in GendersHosts
  PROVE  LET longer == Append(hosts, h)
         IN /\ Len(longer) = Len(hosts) + 1
            /\ longer[Len(hosts) + 1] = h
            /\ \A i \in 1 .. Len(hosts) : longer[i] = hosts[i]
            /\ NodesOfLines(longer) = NodesOfLines(hosts) \cup NodesIn(h.hl)
            /\ AttrsOfLines(longer) =
                 AttrsOfLines(hosts) \cup AttrsIn(h.attrval_index)
<1> DEFINE longer == Append(hosts, h)
<1>1. /\ Len(longer) = Len(hosts) + 1
      /\ longer[Len(hosts) + 1] = h
      /\ \A i \in 1 .. Len(hosts) : longer[i] = hosts[i]
  OBVIOUS
<1>2. /\ Len(hosts) \in Nat
      /\ NodesIn(h.hl) \subseteq Node
      /\ AttrsIn(h.attrval_index) \subseteq Attr
  BY NodesInFinite DEF GendersHosts, AttrsIn
<1>3. \A i : i \in 1 .. Len(longer) <=>
               i \in 1 .. Len(hosts) \/ i = Len(hosts) + 1
  BY <1>1, <1>2
<1>4. NodesOfLines(longer) = NodesOfLines(hosts) \cup NodesIn(h.hl)
  BY <1>1, <1>2, <1>3 DEF NodesOfLines
<1>5. AttrsOfLines(longer) =
         AttrsOfLines(hosts) \cup AttrsIn(h.attrval_index)
  BY <1>1, <1>2, <1>3 DEF AttrsOfLines
<1> QED
  BY <1>1, <1>4, <1>5

LEMMA WithHostsInv ==
  ASSUME NEW db \in Database, NEW u, NEW v, u \subseteq v,
         Accurate(db, AttrsIn(attrval_index), u),
         Current.hl \in Seq(Node), attrval_index \in AttrVals,
         NEW pushed \in SUBSET NodesIn(Current.hl),
         pushed # NodesIn(Current.hl) => "names" \in v,
         "length" \notin v =>
           \A j \in 1 .. Len(Current.hl) :
              NodeLen[Current.hl[j]] <= db.maxnodelen
  PROVE  Accurate(WithHosts(db, pushed), {}, v)
<1> DEFINE h == [hl |-> Current.hl, attrval_index |-> attrval_index]
           new == WithHosts(db, pushed)
<1>1. h \in GendersHosts /\ db.genders_hosts \in Seq(GendersHosts)
  BY DEF GendersHosts, Database
<1>2. /\ new.genders_hosts = Append(db.genders_hosts, h)
      /\ new.hostnames = db.hostnames \cup pushed
      /\ new.attrs = db.attrs
      /\ new.numattrs = db.numattrs
      /\ new.maxnodelen = db.maxnodelen
      /\ new.maxattrlen = db.maxattrlen
  BY DEF WithHosts
<1>3. /\ NodesOfLines(new.genders_hosts) =
           NodesOfLines(db.genders_hosts) \cup NodesIn(Current.hl)
      /\ AttrsOfLines(new.genders_hosts) =
           AttrsOfLines(db.genders_hosts) \cup AttrsIn(attrval_index)
  BY <1>1, <1>2, AppendLine
<1> HIDE DEF new
<1>4. "names" \notin v => new.hostnames = NodesOfLines(new.genders_hosts)
  BY <1>2, <1>3 DEF Accurate
<1>5. "attrs" \notin v => new.attrs = AttrsOfLines(new.genders_hosts) \cup {}
  BY <1>2, <1>3 DEF Accurate
<1>6. "length" \notin v => \A n \in new.hostnames : NodeLen[n] <= new.maxnodelen
  BY <1>2 DEF Accurate, NodesIn
<1>7. Listed(new, {}) = Listed(db, AttrsIn(attrval_index))
  BY <1>2, <1>3 DEF Listed
<1>8. Accurate(new, {}, v)
  BY <1>2, <1>4, <1>5, <1>6, <1>7 DEF Accurate
<1> QED
  BY <1>8 DEF new

(* A line that clashes with none of the lines may be appended to them.      *)
LEMMA NoDuplicateAppend ==
  ASSUME NEW hosts \in Seq(GendersHosts), NEW h \in GendersHosts,
         NoDuplicateAttrsIn(hosts),
         \A i \in 1 .. Len(hosts) :
            ~ Clash(hosts[i].hl, hosts[i].attrval_index, h.hl, h.attrval_index)
  PROVE  NoDuplicateAttrsIn(Append(hosts, h))
<1> DEFINE longer == Append(hosts, h)
<1> SUFFICES ASSUME NEW i \in 1 .. Len(longer), NEW j \in 1 .. Len(longer),
                    i # j
             PROVE  ~ Clash(longer[i].hl, longer[i].attrval_index,
                            longer[j].hl, longer[j].attrval_index)
  BY DEF NoDuplicateAttrsIn
<1>1. /\ Len(hosts) \in Nat
      /\ Len(longer) = Len(hosts) + 1
      /\ longer[Len(hosts) + 1] = h
      /\ \A k \in 1 .. Len(hosts) : longer[k] = hosts[k]
  BY AppendLine
<1>2. CASE i \in 1 .. Len(hosts) /\ j \in 1 .. Len(hosts)
  BY <1>1, <1>2 DEF NoDuplicateAttrsIn
<1>3. CASE i \in 1 .. Len(hosts) /\ j = Len(hosts) + 1
  BY <1>1, <1>3
<1>4. CASE i = Len(hosts) + 1 /\ j \in 1 .. Len(hosts)
  <2>1. ~ Clash(hosts[j].hl, hosts[j].attrval_index, h.hl, h.attrval_index)
    BY <1>4
  <2>2. ~ Clash(h.hl, h.attrval_index, hosts[j].hl, hosts[j].attrval_index)
    BY <2>1 DEF Clash
  <2> QED
    BY <1>1, <1>4, <2>2
<1> QED
  BY <1>1, <1>2, <1>3, <1>4

LEMMA InitInv == Init => LoadInv
<1> SUFFICES ASSUME Init PROVE LoadInv
  OBVIOUS
<1>1. TypeInv
  BY InitType
<1>2. data["load"] = EmptyDatabase /\ data["debug"] = EmptyDatabase
  BY DEF Init, Modes
<1>3. Pending = {}
  BY NoAttrValsType DEF Init, Pending
<1>4. NoDuplicateAttrs
  BY <1>2, EmptyDatabaseInv DEF NoDuplicateAttrs, Modes
<1>5. Accurate(data["load"], Pending, missed["load"])
  BY <1>2, <1>3, EmptyDatabaseInv
<1>6. HandleInv
  BY <1>2 DEF Init, HandleInv, NewHandle
<1>7. Measured
  BY DEF Init, Measured
<1> QED
  BY <1>1, <1>4, <1>5, <1>6, <1>7 DEF LoadInv, Init

LEMMA GiveUpInv ==
  ASSUME LoadInv, NEW e \in Errors, GiveUp(e), fault' \in BOOLEAN, pc # "idle"
  PROVE  LoadInv'
<1>1. TypeInv'
  BY GiveUpType DEF LoadInv
<1>2. /\ mode \in Modes /\ mode' = mode /\ pc' = "idle"
      /\ attrval_index' = NoAttrVals
      /\ data' = [data EXCEPT ![mode] = EmptyDatabase]
      /\ data \in [Modes -> Database] /\ missed' = missed
  BY DEF GiveUp, callvars, LineDone, CleanUp, LoadInv, TypeInv, TypeOK
<1>3. Pending' = {}
  BY <1>2, NoAttrValsType DEF Pending
<1>4. NoDuplicateAttrs'
  BY <1>2, EmptyDatabaseInv DEF LoadInv, NoDuplicateAttrs
<1>5. Accurate(data["load"], Pending, missed["load"])' /\ HandleInv'
  <2>1. CASE mode = "load"
    <3>1. data'["load"] = EmptyDatabase /\ data'["debug"] = EmptyDatabase
      BY <1>2, <2>1 DEF LoadInv, HandleInv, Modes
    <3>2. handle' = NewHandle
      BY <2>1 DEF GiveUp
    <3>3. Accurate(data["load"], Pending, missed["load"])'
      BY <1>3, <3>1, EmptyDatabaseInv
    <3>4. HandleInv'
      BY <3>1, <3>2 DEF HandleInv, NewHandle
    <3> QED
      BY <3>3, <3>4
  <2>2. CASE mode = "debug"
    <3>1. data'["load"] = data["load"] /\ handle' = handle
      BY <1>2, <2>2 DEF GiveUp, Modes
    <3>2. Pending = {}
      BY <2>2 DEF Pending
    <3>3. Accurate(data["load"], Pending, missed["load"])'
      BY <1>2, <1>3, <3>1, <3>2 DEF LoadInv
    <3>4. data'["debug"] = EmptyDatabase
      BY <1>2, <2>2
    <3>5. HandleInv'
      BY <1>2, <2>2, <3>1, <3>4 DEF LoadInv, HandleInv
    <3> QED
      BY <3>3, <3>5
  <2> QED
    BY <1>2, <2>1, <2>2 DEF Modes
<1>6. Measured'
  BY <1>2 DEF Measured
<1> QED
  BY <1>1, <1>2, <1>4, <1>5, <1>6 DEF LoadInv

(* A step that changes neither the data nor the handle, of a debugging call *)
(* or between the lines.                                                    *)
LEMMA MoveOnInv ==
  ASSUME LoadInv, TypeInv', data' = data, handle' = handle, mode' = mode,
         \A m \in Modes : missed[m] \subseteq missed'[m],
         pc # "idle", pc' # "idle",
         AttrsIn(attrval_index)' = AttrsIn(attrval_index) \/ mode = "debug",
         pc' \in {"idle", "read"} => attrval_index' = NoAttrVals,
         pc' = "hosts" =>
           /\ next' = 1 \/ "length" \in missed'[mode]
           /\ ~ Duplicates' \/ "clash" \in missed'[mode]
  PROVE  LoadInv'
<1>1. Pending' = Pending
  BY DEF Pending
<1>2. NoDuplicateAttrs'
  BY DEF LoadInv, NoDuplicateAttrs
<1>3. Accurate(data["load"], Pending, missed["load"])'
  <2>1. /\ Accurate(data["load"], Pending, missed["load"])
        /\ missed["load"] \subseteq missed'["load"]
    BY DEF LoadInv, Modes
  <2>2. Accurate(data["load"], Pending, missed'["load"])
    BY <2>1, AccurateDespite
  <2> QED
    BY <1>1, <2>2
<1>4. Measured'
  BY DEF Measured
<1>5. HandleInv'
  BY DEF LoadInv, HandleInv
<1> QED
  BY <1>2, <1>3, <1>4, <1>5 DEF LoadInv

LEMMA RejectLineInv ==
  ASSUME LoadInv, RejectLine, pc \in {"attrs", "names", "hosts"},
         fault' \in BOOLEAN
  PROVE  LoadInv'
<1>1. CASE mode = "load"
  BY <1>1, GiveUpInv DEF RejectLine, Errors
<1>2. CASE mode # "load"
  <2>1. TypeInv' /\ mode = "debug"
    BY <1>2, RejectLineType DEF LoadInv, TypeInv, TypeOK, Modes
  <2>2. /\ data' = data /\ handle' = handle /\ mode' = mode
        /\ pc' = "read" /\ attrval_index' = NoAttrVals
    BY <1>2 DEF RejectLine, LineDone, callvars
  <2>3. missed' = missed
    BY <1>2 DEF RejectLine
  <2> QED
    BY <2>1, <2>2, <2>3, MoveOnInv
<1> QED
  BY <1>1, <1>2

LEMMA StepOnInv ==
  ASSUME LoadInv,
         ReadBlank \/ ReadEntry \/ AttrsDone \/ NamesDone \/ MissesClash
           \/ StopsMeasuring
  PROVE  LoadInv'
<1>1. TypeInv' /\ TypeOK
  BY MoveOnType DEF LoadInv, TypeInv
<1>2. data' = data /\ handle' = handle /\ mode' = mode /\ file' = file
  BY DEF ReadBlank, ReadEntry, AttrsDone, NamesDone, MissesClash, GoOnToHosts,
         StopsMeasuring, callvars
<1>3. CASE ReadBlank
  <2>1. /\ pc = "read" /\ pc' = "read" /\ attrval_index' = NoAttrVals
        /\ missed' = missed
    BY <1>3 DEF ReadBlank, LineDone
  <2>2. attrval_index = NoAttrVals
    BY <2>1 DEF LoadInv
  <2> QED
    BY <1>1, <1>2, <2>1, <2>2, MoveOnInv
<1>4. CASE ReadEntry \/ AttrsDone
  <2>1. /\ pc # "idle" /\ pc' \in {"attrs", "names"}
        /\ attrval_index' = attrval_index /\ missed' = missed
    BY <1>4 DEF ReadEntry, AttrsDone, linevars
  <2> QED
    BY <1>1, <1>2, <2>1, MoveOnInv
<1>5. CASE NamesDone
  <2>1. /\ pc = "names" /\ pc' = "hosts" /\ next' = 1
        /\ attrval_index' = attrval_index /\ line' = line /\ ~ Duplicates
        /\ missed' = missed
    BY <1>5 DEF NamesDone, GoOnToHosts
  <2>2. ~ Duplicates'
    BY <1>2, <2>1 DEF Duplicates, Current
  <2> QED
    BY <1>1, <1>2, <2>1, <2>2, MoveOnInv
<1>6. CASE MissesClash
  <2>1. /\ pc = "names" /\ pc' = "hosts" /\ next' = 1
        /\ attrval_index' = attrval_index /\ GoesUnnoticed("clash")
    BY <1>6 DEF MissesClash, GoOnToHosts
  <2>2. /\ "clash" \in missed'[mode]
        /\ \A m \in Modes : missed[m] \subseteq missed'[m]
    BY <1>1, <2>1, GoesUnnoticedType DEF Unnoticed
  <2> QED
    BY <1>1, <1>2, <2>1, <2>2, MoveOnInv
<1>7. CASE StopsMeasuring
  <2>1. /\ pc = "hosts" /\ pc' = "hosts" /\ line' = line
        /\ attrval_index' = attrval_index /\ GoesUnnoticed("length")
    BY <1>7 DEF StopsMeasuring
  <2>2. /\ "length" \in missed'[mode]
        /\ \A m \in Modes : missed[m] \subseteq missed'[m]
    BY <1>1, <2>1, GoesUnnoticedType DEF Unnoticed
  <2>3. ~ Duplicates' \/ "clash" \in missed'[mode]
    <3>1. mode \in Modes
      BY <1>1 DEF TypeOK
    <3>2. ~ Duplicates \/ "clash" \in missed[mode]
      BY <2>1 DEF LoadInv
    <3>3. Duplicates' = Duplicates
      BY <1>2, <2>1 DEF Duplicates, Current
    <3> QED
      BY <2>2, <3>1, <3>2, <3>3
  <2> QED
    BY <1>1, <1>2, <2>1, <2>2, <2>3, MoveOnInv
<1> QED
  BY <1>3, <1>4, <1>5, <1>6, <1>7

LEMMA InsertAttrInv ==
  ASSUME LoadInv, InsertAttr
  PROVE  LoadInv'
<1> DEFINE db == data[mode]
<1>1. TypeInv' /\ TypeOK /\ TypeInv
  BY InsertAttrType DEF LoadInv, TypeInv
<1>2. /\ Av.attr \in Attr /\ Av.val \in Value \cup {NoValue}
  BY <1>1, AvType
<1>3. /\ mode' = mode /\ pc' = "attrs" /\ pc = "attrs" /\ handle' = handle
      /\ missed' = missed
      /\ data' = [data EXCEPT ![mode] = WithAttr(data[mode])]
      /\ attrval_index' = [attrval_index EXCEPT ![Av.attr] = Av.val]
  BY DEF InsertAttr, ParseAttr, callvars
<1>4. /\ mode \in Modes /\ data \in [Modes -> Database]
      /\ attrval_index \in AttrVals
  BY <1>1 DEF TypeOK
<1>5. WithAttr(db).genders_hosts = db.genders_hosts
  BY DEF WithAttr
<1>6. NoDuplicateAttrs'
  BY <1>3, <1>4, <1>5 DEF LoadInv, NoDuplicateAttrs
<1>7. AttrsIn(attrval_index') = AttrsIn(attrval_index) \cup {Av.attr}
  BY <1>2, <1>3, <1>4, MarksAreNotValues DEF AttrsIn, AttrVals
<1>8. CASE mode = "load"
  <2>1. data'["load"] = WithAttr(data["load"]) /\ data["load"] \in Database
    BY <1>3, <1>4, <1>8
  <2>2. Accurate(data["load"], AttrsIn(attrval_index), missed["load"])
    BY <1>8 DEF LoadInv, Pending
  <2>3. IsFiniteSet(data["load"].attrs)
    BY <1>1 DEF TypeInv, Finite, Modes
  <2>9. AttrsIn(attrval_index) \in SUBSET Attr
    BY DEF AttrsIn
  <2>4. Accurate(WithAttr(data["load"]),
                 AttrsIn(attrval_index) \cup {Av.attr}, missed["load"])
    BY <1>2, <1>8, <2>1, <2>2, <2>3, <2>9, WithAttrInv
  <2>5. Pending' = AttrsIn(attrval_index) \cup {Av.attr}
    BY <1>3, <1>7, <1>8 DEF Pending
  <2>6. Accurate(data["load"], Pending, missed["load"])'
    BY <1>3, <2>1, <2>4, <2>5
  <2>10. data'["debug"] = data["debug"]
    BY <1>3, <1>4, <1>8 DEF Modes
  <2>7. HandleInv'
    BY <1>3, <1>8, <2>10 DEF LoadInv, HandleInv
  <2>8. Measured'
    BY <1>3 DEF Measured
  <2> QED
    BY <1>1, <1>3, <1>6, <2>6, <2>7, <2>8 DEF LoadInv
<1>9. CASE mode = "debug"
  <2>1. data'["load"] = data["load"]
    BY <1>3, <1>4, <1>9 DEF Modes
  <2>2. Pending = {} /\ Pending' = {}
    BY <1>3, <1>9 DEF Pending
  <2>3. Accurate(data["load"], Pending, missed["load"])'
    BY <1>3, <2>1, <2>2 DEF LoadInv
  <2>4. HandleInv'
    BY <1>3, <1>9, <2>1 DEF LoadInv, HandleInv
  <2>5. Measured'
    BY <1>3 DEF Measured
  <2> QED
    BY <1>1, <1>3, <1>6, <2>3, <2>4, <2>5 DEF LoadInv
<1> QED
  BY <1>4, <1>8, <1>9 DEF Modes

LEMMA MeasureHostInv ==
  ASSUME LoadInv, MeasureHost
  PROVE  LoadInv'
<1> DEFINE db == data["load"]
<1>1. TypeInv' /\ TypeOK
  BY MeasureHostType DEF LoadInv, TypeInv
<1>2. /\ pc = "hosts" /\ pc' = "hosts" /\ mode' = mode /\ file' = file
      /\ line' = line /\ handle' = handle /\ next' = next + 1
      /\ attrval_index' = attrval_index /\ missed' = missed
  BY DEF MeasureHost, callvars
<1>3. /\ db \in Database /\ data \in [Modes -> Database]
      /\ HostLen \in Nat /\ next \in 1 .. Len(Current.hl)
      /\ Current.hl \in Seq(Node)
  BY <1>1, HostLenType DEF TypeOK, MeasureHost, Modes
<1>4. Pending' = Pending
  BY <1>2 DEF Pending
<1>5. CASE mode = "load"
  <2>1. data' = [data EXCEPT !["load"] = WithNodeLen(db, HostLen)]
    BY <1>5 DEF MeasureHost
  <2> HIDE DEF db
  <2>2. /\ WithNodeLen(db, HostLen).genders_hosts = db.genders_hosts
        /\ WithNodeLen(db, HostLen).maxnodelen = Bigger(HostLen, db.maxnodelen)
    BY <1>3, WithNodeLenType
  <2> USE DEF db
  <2>3. \A m \in Modes : data'[m].genders_hosts = data[m].genders_hosts
    BY <1>3, <2>1, <2>2
  <2>4. NoDuplicateAttrs' /\ (~ Duplicates \/ "clash" \in missed[mode])'
    BY <1>1, <1>2, <2>3 DEF LoadInv, NoDuplicateAttrs, Duplicates, Current,
                            TypeOK
  <2>5. data'["load"] = WithNodeLen(db, HostLen)
    BY <1>3, <2>1 DEF Modes
  <2>6. Accurate(data["load"], Pending, missed["load"])'
    BY <1>2, <1>3, <1>4, <2>5, WithNodeLenInv DEF LoadInv
  <2>7. data'["load"].maxnodelen = Bigger(HostLen, db.maxnodelen)
    BY <2>5, <2>2
  <2>8. Measured'
    <3>1. ASSUME "length" \notin missed["load"],
                 NEW j \in 1 .. Len(Current.hl), j < next + 1
          PROVE  NodeLen[Current.hl[j]] <= Bigger(HostLen, db.maxnodelen)
      <4>1. NodeLen[Current.hl[j]] \in Nat /\ db.maxnodelen \in Nat
        BY <1>3, FileAssumption DEF Database
      <4>2. CASE j < next
        <5>1. NodeLen[Current.hl[j]] <= db.maxnodelen
          BY <1>2, <1>5, <3>1, <4>2 DEF LoadInv, Measured
        <5> QED
          BY <1>3, <4>1, <5>1 DEF Bigger
      <4>3. CASE j = next
        BY <1>3, <4>1, <4>3 DEF Bigger, HostLen
      <4> QED
        BY <1>3, <3>1, <4>2, <4>3
    <3> QED
      BY <1>2, <2>7, <3>1 DEF Measured, Current
  <2>10. data'["debug"] = data["debug"]
    BY <1>3, <2>1 DEF Modes
  <2>9. HandleInv'
    BY <1>2, <1>5, <2>10 DEF LoadInv, HandleInv
  <2> QED
    BY <1>1, <1>2, <2>4, <2>6, <2>8, <2>9 DEF LoadInv
<1>6. CASE mode # "load"
  <2>1. data' = data
    BY <1>6 DEF MeasureHost
  <2>2. NoDuplicateAttrs' /\ (~ Duplicates \/ "clash" \in missed[mode])'
    BY <1>2, <2>1 DEF LoadInv, Duplicates, Current, NoDuplicateAttrs
  <2>3. Measured'
    BY <1>2, <1>6 DEF Measured
  <2>4. HandleInv' /\ Accurate(data["load"], Pending, missed["load"])'
    BY <1>2, <1>4, <2>1 DEF LoadInv, HandleInv
  <2> QED
    BY <1>1, <1>2, <2>2, <2>3, <2>4 DEF LoadInv
<1> QED
  BY <1>5, <1>6

LEMMA FinishInv ==
  ASSUME LoadInv, AppendHosts \/ LosesNames
  PROVE  LoadInv'
<1> DEFINE db == data[mode]
           h == [hl |-> Current.hl, attrval_index |-> attrval_index]
<1>1. TypeInv' /\ TypeOK
  BY FinishType DEF LoadInv, TypeInv
<1>2. PICK pushed \in SUBSET NodesIn(Current.hl) :
         /\ AppendWith(pushed)
         /\ pushed # NodesIn(Current.hl) => "names" \in missed'[mode]
  BY <1>1, AppendsWith
<1>3. /\ pc = "hosts" /\ Current.hl \in Seq(Node)
      /\ \A m \in Modes : missed[m] \subseteq missed'[m]
      /\ \A m \in Modes : m # mode => missed'[m] = missed[m]
      /\ ~ MoreHosts
  BY <1>1, AppendsWith
<1>4. /\ pc' = "read" /\ mode' = mode /\ handle' = handle
      /\ attrval_index' = NoAttrVals
      /\ data' = [data EXCEPT ![mode] = WithHosts(data[mode], pushed)]
  BY <1>2 DEF AppendWith, callvars, LineDone
<1>5. /\ attrval_index \in AttrVals /\ next \in Nat
      /\ mode \in Modes /\ data \in [Modes -> Database]
      /\ db \in Database
  BY <1>1 DEF TypeOK
<1>6. db.genders_hosts \in Seq(GendersHosts) /\ h \in GendersHosts
  BY <1>3, <1>5 DEF Database, GendersHosts
<1>7. WithHosts(db, pushed).genders_hosts = Append(db.genders_hosts, h)
  BY DEF WithHosts
<1>8. ASSUME "clash" \notin missed'[mode]
      PROVE  NoDuplicateAttrsIn(Append(db.genders_hosts, h))
  <2>1. ~ Duplicates /\ NoDuplicateAttrsIn(db.genders_hosts)
    BY <1>3, <1>5, <1>8 DEF LoadInv, NoDuplicateAttrs
  <2> QED
    BY <1>6, <2>1, NoDuplicateAppend DEF Duplicates
<1>9. NoDuplicateAttrs'
  <2> SUFFICES ASSUME NEW m \in Modes, "clash" \notin missed'[m]
               PROVE  NoDuplicateAttrsIn(data'[m].genders_hosts)
    BY DEF NoDuplicateAttrs
  <2>1. CASE m = mode
    BY <1>4, <1>5, <1>7, <1>8, <2>1
  <2>2. CASE m # mode
    <3>1. data'[m] = data[m] /\ missed'[m] = missed[m]
      BY <1>3, <1>4, <1>5, <2>2
    <3> QED
      BY <3>1 DEF LoadInv, NoDuplicateAttrs
  <2> QED
    BY <2>1, <2>2
<1>10. Pending' = {}
  BY <1>4, NoAttrValsType DEF Pending
<1>11. Measured'
  BY <1>4 DEF Measured
<1>12. CASE mode = "load"
  <2>1. Accurate(db, AttrsIn(attrval_index), missed["load"])
    BY <1>12 DEF LoadInv, Pending
  <2>2. "length" \notin missed'["load"] =>
          \A j \in 1 .. Len(Current.hl) :
             NodeLen[Current.hl[j]] <= db.maxnodelen
    <3>1. ASSUME "length" \notin missed'["load"],
                 NEW j \in 1 .. Len(Current.hl)
          PROVE  j < next
      BY <1>3, <1>5 DEF MoreHosts
    <3>2. missed["load"] \subseteq missed'["load"]
      BY <1>3 DEF Modes
    <3> QED
      BY <1>3, <1>12, <3>1, <3>2 DEF LoadInv, Measured
  <2>3. Accurate(WithHosts(db, pushed), {}, missed'["load"])
    BY <1>2, <1>3, <1>5, <1>12, <2>1, <2>2, WithHostsInv
  <2>4. Accurate(data["load"], Pending, missed["load"])'
    BY <1>4, <1>5, <1>10, <1>12, <2>3
  <2>5. data'["debug"] = data["debug"]
    BY <1>4, <1>5, <1>12 DEF Modes
  <2>6. HandleInv'
    BY <1>3, <1>4, <1>12, <2>5 DEF LoadInv, HandleInv
  <2> QED
    BY <1>1, <1>4, <1>9, <1>11, <2>4, <2>6 DEF LoadInv
<1>13. CASE mode = "debug"
  <2>1. /\ data'["load"] = data["load"] /\ Pending = {}
        /\ missed'["load"] = missed["load"]
    BY <1>3, <1>4, <1>5, <1>13 DEF Modes, Pending
  <2>2. Accurate(data["load"], Pending, missed["load"])'
    BY <1>10, <2>1 DEF LoadInv
  <2>3. HandleInv'
    BY <1>4, <1>13, <2>1 DEF LoadInv, HandleInv
  <2> QED
    BY <1>1, <1>4, <1>9, <1>11, <2>2, <2>3 DEF LoadInv
<1> QED
  BY <1>5, <1>12, <1>13 DEF Modes

(* What a rehash leaves out is missing, and room is kept for it.            *)
LEMMA AccurateWithLess ==
  ASSUME NEW db \in Database, NEW new, NEW pending, NEW u,
         Accurate(db, pending, u), NEW less \in SUBSET pending,
         NEW v, u \subseteq v, "attrs" \in v,
         new.genders_hosts = db.genders_hosts, new.hostnames = db.hostnames,
         new.attrs \subseteq db.attrs, new.numattrs = db.numattrs,
         new.maxnodelen = db.maxnodelen, new.maxattrlen = db.maxattrlen
  PROVE  Accurate(new, less, v)
<1>1. Listed(new, less) \in SUBSET Listed(db, pending)
  BY DEF Listed
<1>2. IsFiniteSet(Listed(db, pending))
  BY DEF Accurate
<1>3. /\ IsFiniteSet(Listed(new, less))
      /\ Cardinality(Listed(new, less)) <= Cardinality(Listed(db, pending))
  BY ONLY <1>1, <1>2, FS_Subset
<1>4. /\ Cardinality(Listed(new, less)) \in Nat
      /\ Cardinality(Listed(db, pending)) \in Nat
      /\ db.numattrs \in Nat
  BY <1>2, <1>3, FS_CardinalityType DEF Database
<1>5. Cardinality(Listed(new, less)) <= new.numattrs
  BY <1>3, <1>4 DEF Accurate
<1>6. \A a \in Listed(new, less) : AttrLen[a] <= new.maxattrlen
  BY <1>1 DEF Accurate
<1>7. /\ "names" \notin v => new.hostnames = NodesOfLines(new.genders_hosts)
      /\ "length" \notin v =>
           \A n \in new.hostnames : NodeLen[n] <= new.maxnodelen
  BY DEF Accurate
<1> QED
  BY <1>3, <1>5, <1>6, <1>7 DEF Accurate

LEMMA DropsInv ==
  ASSUME LoadInv, DropsAttrval \/ DropsAttr
  PROVE  LoadInv'
<1>1. TypeInv' /\ TypeOK
  BY DropsType DEF LoadInv, TypeInv
<1>2. /\ pc = "attrs" /\ pc' = "attrs" /\ mode' = mode /\ handle' = handle
      /\ GoesUnnoticed("attrs")
  BY DEF DropsAttrval, DropsAttr, ParseAttr, callvars
<1>3. /\ missed'[mode] = missed[mode] \cup {"attrs"}
      /\ \A m \in Modes : m # mode => missed'[m] = missed[m]
      /\ \A m \in Modes : missed[m] \subseteq missed'[m]
  BY <1>1, <1>2, GoesUnnoticedType DEF Unnoticed
<1>4. mode \in Modes /\ data \in [Modes -> Database]
  BY <1>1 DEF TypeOK
<1>5. /\ \A m \in Modes :
           /\ m # mode => data'[m] = data[m]
           /\ data'[m].genders_hosts = data[m].genders_hosts
           /\ data'[m].hostnames = data[m].hostnames
           /\ data'[m].attrs \subseteq data[m].attrs
           /\ data'[m].numattrs = data[m].numattrs
           /\ data'[m].maxnodelen = data[m].maxnodelen
           /\ data'[m].maxattrlen = data[m].maxattrlen
      /\ AttrsIn(attrval_index') \subseteq AttrsIn(attrval_index)
  <2>1. CASE DropsAttrval
    <3>1. data' = data
      BY <2>1 DEF DropsAttrval
    <3>2. AttrsIn(attrval_index') \subseteq AttrsIn(attrval_index)
      BY <1>1, <2>1 DEF DropsAttrval, AttrsIn, TypeOK, AttrVals
    <3> QED
      BY <3>1, <3>2
  <2>2. CASE DropsAttr
    <3>1. PICK a \in data[mode].attrs :
             data' = [data EXCEPT ![mode] = WithoutAttr(data[mode], a)]
      BY <2>2 DEF DropsAttr
    <3>2. data[mode] \in Database
      BY <1>4
    <3>3. /\ WithoutAttr(data[mode], a).genders_hosts = data[mode].genders_hosts
          /\ WithoutAttr(data[mode], a).hostnames = data[mode].hostnames
          /\ WithoutAttr(data[mode], a).attrs \subseteq data[mode].attrs
          /\ WithoutAttr(data[mode], a).numattrs = data[mode].numattrs
          /\ WithoutAttr(data[mode], a).maxnodelen = data[mode].maxnodelen
          /\ WithoutAttr(data[mode], a).maxattrlen = data[mode].maxattrlen
      BY <3>2 DEF WithoutAttr, Database
    <3>4. attrval_index' = attrval_index
      BY <2>2 DEF DropsAttr, linevars
    <3>5. \A m \in Modes :
             data'[m] = IF m = mode THEN WithoutAttr(data[mode], a) ELSE data[m]
      BY <1>4, <3>1
    <3> QED
      BY <3>3, <3>4, <3>5
  <2> QED
    BY <2>1, <2>2
<1>6. NoDuplicateAttrs'
  BY <1>3, <1>5 DEF LoadInv, NoDuplicateAttrs
<1>7. Accurate(data["load"], Pending, missed["load"])'
  <2>1. CASE mode = "load"
    <3>1. /\ Accurate(data["load"], AttrsIn(attrval_index), missed["load"])
          /\ data["load"] \in Database
          /\ AttrsIn(attrval_index') \in SUBSET AttrsIn(attrval_index)
      BY <1>4, <1>5, <2>1 DEF LoadInv, Pending
    <3>2. Accurate(data'["load"], AttrsIn(attrval_index'), missed'["load"])
      BY <1>3, <1>4, <1>5, <2>1, <3>1, AccurateWithLess
    <3> QED
      BY <1>2, <2>1, <3>2 DEF Pending
  <2>2. CASE mode # "load"
    BY <1>2, <1>3, <1>5, <2>2 DEF LoadInv, Pending, Modes
  <2> QED
    BY <2>1, <2>2
<1>8. HandleInv'
  <2>1. CASE mode = "load"
    <3>1. data'["debug"] = data["debug"]
      BY <1>5, <2>1 DEF Modes
    <3> QED
      BY <1>2, <2>1, <3>1 DEF LoadInv, HandleInv
  <2>2. CASE mode = "debug"
    <3>1. data'["load"] = data["load"]
      BY <1>5, <2>2 DEF Modes
    <3> QED
      BY <1>2, <2>2, <3>1 DEF LoadInv, HandleInv
  <2> QED
    BY <1>4, <2>1, <2>2 DEF Modes
<1>9. Measured'
  BY <1>2 DEF Measured
<1> QED
  BY <1>1, <1>2, <1>6, <1>7, <1>8, <1>9 DEF LoadInv

LEMMA LoadSucceedsInv ==
  ASSUME LoadInv, LoadSucceeds
  PROVE  LoadInv'
<1> DEFINE db == data["load"]
           new == WithNodeLen(db, LocalLen)
<1>1. TypeInv' /\ TypeOK
  BY LoadSucceedsType DEF LoadInv, TypeInv
<1>2. /\ mode = "load" /\ mode' = "load" /\ pc = "read" /\ pc' = "idle"
      /\ data' = [data EXCEPT !["load"] = new]
      /\ attrval_index' = NoAttrVals /\ missed' = missed
  BY DEF LoadSucceeds, AtEof, callvars, LineDone
<1>3. db \in Database /\ data \in [Modes -> Database]
  BY <1>1 DEF TypeOK, Modes
<1>4. data'["load"] = new /\ \A m \in Modes :
         data'[m].genders_hosts = data[m].genders_hosts
  BY <1>2, <1>3, WithNodeLenType, LocalLenAssumption DEF Modes
<1>5. NoDuplicateAttrs'
  BY <1>2, <1>4 DEF LoadInv, NoDuplicateAttrs
<1>6. Pending = {} /\ Pending' = {}
  BY <1>2, NoAttrValsType DEF LoadInv, Pending
<1>7. Accurate(data["load"], Pending, missed["load"])'
  BY <1>2, <1>3, <1>4, <1>6, WithNodeLenInv, LocalLenAssumption DEF LoadInv
<1>8. new.hostnames = db.hostnames /\ new.maxvallen = db.maxvallen
  BY <1>3, WithNodeLenType, LocalLenAssumption
<1>9. HandleInv'
  <2>1. handle' = [is_loaded |-> TRUE,
                   numnodes  |-> Cardinality(db.hostnames),
                   valbuf    |-> db.maxvallen + 1]
    BY DEF LoadSucceeds
  <2>2. /\ handle'.is_loaded = TRUE
        /\ handle'.numnodes = Cardinality(db.hostnames)
        /\ handle'.valbuf = db.maxvallen + 1
    BY <2>1
  <2>3. data'["debug"] = EmptyDatabase
    BY <1>2, <1>3 DEF LoadInv, HandleInv, Modes
  <2> QED
    BY <1>2, <1>4, <1>8, <2>2, <2>3 DEF HandleInv
<1>10. Measured'
  BY <1>2 DEF Measured
<1> QED
  BY <1>1, <1>2, <1>5, <1>7, <1>9, <1>10 DEF LoadInv

LEMMA ParseReturnsInv ==
  ASSUME LoadInv, ParseReturns
  PROVE  LoadInv'
<1>1. TypeInv' /\ TypeOK
  BY ParseReturnsType DEF LoadInv, TypeInv
<1>2. /\ mode = "debug" /\ mode' = "debug" /\ pc = "read" /\ pc' = "idle"
      /\ data' = [data EXCEPT !["debug"] = EmptyDatabase]
      /\ attrval_index' = NoAttrVals /\ handle' = handle
      /\ missed' = missed
  BY DEF ParseReturns, AtEof, callvars, LineDone, CleanUp
<1>3. data'["load"] = data["load"] /\ data'["debug"] = EmptyDatabase
  BY <1>1, <1>2 DEF TypeOK, Modes
<1>4. NoDuplicateAttrs'
  BY <1>2, <1>3, EmptyDatabaseInv DEF LoadInv, NoDuplicateAttrs, Modes
<1>5. Pending = {} /\ Pending' = {}
  BY <1>2 DEF Pending
<1>6. Accurate(data["load"], Pending, missed["load"])' /\ HandleInv' /\ Measured'
  BY <1>2, <1>3, <1>5 DEF LoadInv, HandleInv, Measured
<1> QED
  BY <1>1, <1>2, <1>4, <1>6 DEF LoadInv

(* A new call forgets the failures of what it does not keep.                *)
LEMMA ForgottenInv ==
  ASSUME LoadInv, pc = "idle", NEW m \in Modes, m = "load" => ~ handle.is_loaded,
         Forgets(m), Pending = {}
  PROVE  /\ Accurate(data["load"], {}, missed'["load"])
         /\ \A k \in Modes : "clash" \notin missed'[k] =>
               NoDuplicateAttrsIn(data[k].genders_hosts)
<1>1. data["debug"] = EmptyDatabase
  BY DEF LoadInv, HandleInv
<1>2. CASE handle.is_loaded
  <2>1. missed'["load"] = missed["load"]
    BY <1>2 DEF Forgets, Modes
  <2> QED
    BY <1>1, <2>1, EmptyDatabaseInv DEF LoadInv, NoDuplicateAttrs, Modes
<1>3. CASE ~ handle.is_loaded
  <2>1. data["load"] = EmptyDatabase
    BY <1>3 DEF LoadInv, HandleInv
  <2> QED
    BY <1>1, <2>1, EmptyDatabaseInv DEF Modes
<1> QED
  BY <1>2, <1>3

LEMMA CallerInv ==
  ASSUME LoadInv, Caller
  PROVE  LoadInv'
<1>1. CASE \E m \in Modes, f \in File : Open(m, f)
  <2>1. PICK m \in Modes, f \in File : Open(m, f)
    BY <1>1
  <2>2. TypeInv'
    BY <2>1, OpenType DEF LoadInv
  <2>3. /\ pc = "idle" /\ pc' = "read" /\ mode' = m /\ data' = data
        /\ attrval_index' = NoAttrVals /\ handle' = handle
        /\ m = "load" => ~ handle.is_loaded
    BY <2>1 DEF Open, Start, LineDone
  <2>4. Pending = {} /\ Pending' = {}
    BY <2>3, NoAttrValsType DEF LoadInv, Pending
  <2>7. Forgets(m)
    BY <2>1 DEF Open, Start
  <2>5. Accurate(data["load"], Pending, missed["load"])' /\ NoDuplicateAttrs'
    BY <2>3, <2>4, <2>7, ForgottenInv DEF LoadInv, NoDuplicateAttrs
  <2>6. Measured' /\ HandleInv'
    BY <2>1, <2>3 DEF LoadInv, Measured, HandleInv, Modes
  <2> QED
    BY <2>2, <2>3, <2>5, <2>6 DEF LoadInv
<1>2. CASE \E m \in Modes : OpenFails(m)
  <2>1. PICK m \in Modes : OpenFails(m)
    BY <1>2
  <2>2. TypeInv'
    BY <2>1, OpenFailsType DEF LoadInv
  <2>3. /\ pc = "idle" /\ pc' = "idle" /\ mode' = m /\ data' = data
        /\ attrval_index' = attrval_index /\ handle' = handle
        /\ m = "load" => ~ handle.is_loaded
    BY <2>1 DEF OpenFails, linevars
  <2>4. Pending = {} /\ Pending' = {}
    BY <2>3, NoAttrValsType DEF LoadInv, Pending
  <2>7. Forgets(m)
    BY <2>1 DEF OpenFails
  <2>5. Accurate(data["load"], Pending, missed["load"])' /\ NoDuplicateAttrs'
    BY <2>3, <2>4, <2>7, ForgottenInv DEF LoadInv, NoDuplicateAttrs
  <2>6. Measured' /\ HandleInv'
    BY <2>3 DEF LoadInv, Measured, HandleInv
  <2> QED
    BY <2>2, <2>3, <2>5, <2>6 DEF LoadInv
<1>3. CASE LoadAgain
  <2>1. TypeInv' /\ TypeOK
    BY <1>3, LoadAgainType DEF LoadInv, TypeInv
  <2>2. /\ pc = "idle" /\ pc' = "idle" /\ mode' = "load"
        /\ attrval_index' = attrval_index /\ handle' = NewHandle
        /\ data' = [data EXCEPT !["load"] = EmptyDatabase]
    BY <1>3 DEF LoadAgain, linevars, CleanUp
  <2>3. data'["load"] = EmptyDatabase /\ data'["debug"] = data["debug"]
    BY <2>1, <2>2 DEF TypeOK, Modes
  <2>4. Pending' = {}
    BY <2>2, NoAttrValsType DEF LoadInv, Pending
  <2>7. data'["debug"] = EmptyDatabase
    BY <2>2, <2>3 DEF LoadInv, HandleInv
  <2>5. Accurate(data["load"], Pending, missed["load"])' /\ NoDuplicateAttrs'
    BY <2>3, <2>4, <2>7, EmptyDatabaseInv DEF NoDuplicateAttrs, Modes
  <2>6. Measured' /\ HandleInv'
    BY <2>2, <2>3, <2>7 DEF Measured, HandleInv, NewHandle
  <2> QED
    BY <2>1, <2>2, <2>5, <2>6 DEF LoadInv
<1> QED
  BY <1>1, <1>2, <1>3 DEF Caller

LEMMA NextInv ==
  ASSUME LoadInv, [Next]_vars
  PROVE  LoadInv'
<1>1. CASE ReadBlank \/ ReadEntry \/ AttrsDone \/ NamesDone \/ MissesClash
           \/ StopsMeasuring
  BY <1>1, StepOnInv
<1>2. CASE WhiteSpace \/ BadAttr \/ BadNames \/ HostTooLong \/ PushFails
  <2>1. RejectLine /\ pc \in {"attrs", "names", "hosts"}
    BY <1>2 DEF WhiteSpace, BadAttr, ParseAttr, BadNames, HostTooLong,
                PushFails
  <2>2. fault' \in BOOLEAN
    BY <1>2 DEF WhiteSpace, BadAttr, BadNames, HostTooLong, PushFails,
                LoadInv, TypeInv, TypeOK
  <2> QED
    BY <2>1, <2>2, RejectLineInv
<1>3. CASE ReadLong \/ ReadFails \/ NoMemory \/ LoadFails
  <2>1. fault' \in BOOLEAN
    BY <1>3 DEF ReadLong, ReadFails, NoMemory, LoadFails, LoadInv, TypeInv,
                TypeOK
  <2>2. \E e \in Errors : GiveUp(e)
    BY <1>3 DEF ReadLong, ReadFails, NoMemory, LoadFails, Errors
  <2>3. pc # "idle"
    BY <1>3 DEF ReadLong, ReadFails, NoMemory, LoadFails, AtEof
  <2> QED
    BY <2>1, <2>2, <2>3, GiveUpInv
<1>4. CASE InsertAttr
  BY <1>4, InsertAttrInv
<1>5. CASE MeasureHost
  BY <1>5, MeasureHostInv
<1>6. CASE AppendHosts \/ LosesNames
  BY <1>6, FinishInv
<1>11. CASE DropsAttrval \/ DropsAttr
  BY <1>11, DropsInv
<1>7. CASE LoadSucceeds
  BY <1>7, LoadSucceedsInv
<1>8. CASE ParseReturns
  BY <1>8, ParseReturnsInv
<1>9. CASE Caller
  BY <1>9, CallerInv
<1>10. CASE UNCHANGED vars
  BY <1>10, NextType
     DEF vars, LoadInv, NoDuplicateAttrs, Pending, Duplicates, Current,
         Measured, HandleInv
<1> QED
  BY <1>1, <1>2, <1>3, <1>4, <1>5, <1>6, <1>7, <1>8, <1>9, <1>10,
     <1>11 DEF Next, Parser, Faults

(* Whatever the files, and wherever memory runs out, no node is given an    *)
(* attribute twice: _duplicate_attr_checks() compares each line with all    *)
(* before it, unless a comparison itself runs out of memory unnoticed.      *)
THEOREM NeverDuplicate == Spec => []NoDuplicateAttrs
<1>1. LoadInv => NoDuplicateAttrs
  BY DEF LoadInv
<1> QED
  BY InitInv, NextInv, <1>1, PTL DEF Spec

(* A loaded handle describes its lines, its buffers hold every name and its *)
(* lists have room for every attribute, but for what each failure that went *)
(* unnoticed leaves undone.                                                 *)
THEOREM Consistent == Spec => []LoadedIsConsistent
<1>1. LoadInv => LoadedIsConsistent
  <2> SUFFICES ASSUME LoadInv, handle.is_loaded
               PROVE  LoadedIsConsistent
    BY DEF LoadedIsConsistent
  <2>1. attrval_index = NoAttrVals \/ mode = "debug"
    BY DEF LoadInv, HandleInv
  <2>2. Pending = {}
    BY <2>1, NoAttrValsType DEF Pending
  <2> DEFINE db == data["load"]
  <2>3. Accurate(db, {}, missed["load"])
    BY <2>2 DEF LoadInv
  <2>4. "clash" \notin missed["load"] => NoDuplicateAttrsIn(db.genders_hosts)
    BY DEF LoadInv, NoDuplicateAttrs, Modes
  <2>5. Listed(db, {}) = db.attrs \cup AttrsOfLines(db.genders_hosts)
    BY DEF Listed
  <2>6. /\ handle.numnodes = Cardinality(db.hostnames)
        /\ handle.valbuf = db.maxvallen + 1
    BY DEF LoadInv, HandleInv
  <2>7. "attrs" \notin missed["load"] =>
          /\ db.attrs = AttrsOfLines(db.genders_hosts)
          /\ db.numattrs = Cardinality(db.attrs)
    BY <2>3 DEF Accurate
  <2>8. /\ Cardinality(db.attrs \cup AttrsOfLines(db.genders_hosts))
             <= db.numattrs
        /\ \A a \in db.attrs \cup AttrsOfLines(db.genders_hosts) :
              AttrLen[a] <= db.maxattrlen
    BY <2>3, <2>5 DEF Accurate
  <2>9. /\ "names" \notin missed["load"] =>
             db.hostnames = NodesOfLines(db.genders_hosts)
        /\ "length" \notin missed["load"] =>
             \A n \in db.hostnames : NodeLen[n] <= db.maxnodelen
    BY <2>3 DEF Accurate
  <2> QED
    BY <2>4, <2>6, <2>7, <2>8, <2>9 DEF LoadedIsConsistent
<1> QED
  BY InitInv, NextInv, <1>1, PTL DEF Spec

(* A failed load leaves the handle as genders_handle_create() made it.      *)
THEOREM FailedLoadLeavesNothing == Spec => []AllOrNothing
<1>1. LoadInv => AllOrNothing
  BY DEF LoadInv, HandleInv, AllOrNothing
<1> QED
  BY InitInv, NextInv, <1>1, PTL DEF Spec

(***************************************************************************)
(* The parser of GendersLoad reads a file exactly as GendersFile says one  *)
(* is to be read, for every set of files: a load implements one step of    *)
(* GendersTable, and the verdicts of genders_load_data() and               *)
(* genders_parse() are right.                                              *)
(*                                                                         *)
(* The argument: as long as no line was rejected and no check was skipped  *)
(* for want of memory, each entry above the line being read is good and is *)
(* represented by a member of the list of lines, each member represents    *)
(* such an entry, and the part of the line already parsed is good and is   *)
(* what attrval_index says.  What is skipped is remembered in `missed'.    *)
(***************************************************************************)
(* The first m attributes of line l are good ...                            *)
GoodPrefix(l, m) ==
  /\ m > 0 => ~ l.white
  /\ \A k \in 1 .. m : l.avs[k].attr # EmptyAttr /\ l.avs[k].val # EmptyValue
  /\ \A j, k \in 1 .. m : l.avs[j].attr = l.avs[k].attr => j = k

(* ... and are what attrvals says.                                          *)
Says(attrvals, avs, m) ==
  \A a \in Attr, v \in Value \cup {NoValue} :
     attrvals[a] = v <=> \E k \in 1 .. m : avs[k].attr = a /\ avs[k].val = v

Represents(h, l) ==
  /\ h.hl = l.hl
  /\ Says(h.attrval_index, l.avs, Len(l.avs))

(* No check was skipped and no table lost anything since the call began.    *)
Sound == missed[mode] \subseteq {"names"}

LineInv ==
  /\ pc = "read" => next = 1
  /\ pc \in {"attrs", "names", "hosts"} => Current.kind = "entry"
  /\ pc = "attrs" => next <= Len(Current.avs) + 1
  /\ pc = "attrs" /\ Sound =>
       /\ GoodPrefix(Current, next - 1)
       /\ Says(attrval_index, Current.avs, next - 1)
  /\ pc \in {"names", "hosts"} /\ Sound =>
       /\ GoodPrefix(Current, Len(Current.avs))
       /\ Says(attrval_index, Current.avs, Len(Current.avs))
  /\ pc = "hosts" =>
       /\ Current.names = "good"
       /\ Sound => \A j \in 1 .. Len(Current.hl) :
             j < next => NodeLen[Current.hl[j]] <= MAXHOSTNAMELEN

(* Lines 1 .. m of file f are good, and hosts is what they say.             *)
GoodUpTo(f, m, hosts) ==
  /\ \A i \in LinesOf(f) : i <= m => f[i].kind # "long"
  /\ \A i \in Entries(f) : i <= m => GoodAttrs(f[i]) /\ GoodNames(f[i])
  /\ \A i, j \in Entries(f) : i < j /\ j <= m => Compatible(f[i], f[j])
  /\ \A i \in Entries(f) :
        i <= m => \E k \in 1 .. Len(hosts) : Represents(hosts[k], f[i])
  /\ \A k \in 1 .. Len(hosts) :
        \E i \in Entries(f) : i <= m /\ Represents(hosts[k], f[i])

CallInv ==
  /\ pc # "idle" => file \in File
  /\ pc # "idle" /\ missed[mode] # {} => fault
  /\ pc # "idle" /\ errcount = 0 /\ Sound =>
       GoodUpTo(file, line - 1, data[mode].genders_hosts)
  /\ pc = "idle" \/ mode = "load" =>
       errcount = 0 /\ data["debug"] = EmptyDatabase
  /\ errcount > 0 => ~ Correct(file) \/ fault

ReadInv == LoadInv /\ LineInv /\ CallInv /\ Verdicts

(***************************************************************************)
(* Lemmas about lines.                                                     *)
(***************************************************************************)
LEMMA GoodPrefixIsGoodAttrs ==
  ASSUME NEW l \in Line
  PROVE  GoodPrefix(l, Len(l.avs)) <=> GoodAttrs(l)
<1>1. l.avs \in Seq(AttrVal)
  BY DEF Line
<1>2. Len(l.avs) > 0 <=> l.avs # <<>>
  BY <1>1
<1> QED
  BY <1>2 DEF GoodPrefix, GoodAttrs

(* A good line lists the attributes its representation has.                 *)
LEMMA RepresentsAttrs ==
  ASSUME NEW l \in Line, GoodAttrs(l), NEW h \in GendersHosts,
         Represents(h, l), NEW a \in Attr
  PROVE  Lists(l, a) <=> a \in AttrsIn(h.attrval_index)
<1>1. l.avs \in Seq(AttrVal) /\ h.attrval_index \in AttrVals
  BY DEF Line, GendersHosts
<1>2. ASSUME Lists(l, a) PROVE h.attrval_index[a] # Absent
  <2>1. PICK k \in 1 .. Len(l.avs) : l.avs[k].attr = a
    BY <1>2 DEF Lists
  <2>2. l.avs[k] \in AttrVal
    BY <1>1
  <2>3. l.avs[k].val \in Value \cup {NoValue}
    BY <2>2 DEF AttrVal, GoodAttrs
  <2>4. h.attrval_index[a] = l.avs[k].val
    <3>1. PICK v \in Value \cup {NoValue} : v = l.avs[k].val
      BY <2>3
    <3>2. \E i \in 1 .. Len(l.avs) : l.avs[i].attr = a /\ l.avs[i].val = v
      BY <2>1, <3>1
    <3> QED BY <3>1, <3>2 DEF Represents, Says
  <2> QED
    BY <2>3, <2>4, MarksAreNotValues
<1>3. ASSUME h.attrval_index[a] # Absent PROVE Lists(l, a)
  <2>1. h.attrval_index[a] \in Value \cup {NoValue}
    BY <1>1, <1>3 DEF AttrVals
  <2> QED
    BY <2>1 DEF Represents, Says, Lists
<1> QED
  BY <1>2, <1>3 DEF AttrsIn

(* _duplicate_attr_checks() finds exactly the lines that are incompatible.  *)
LEMMA ClashIsIncompatible ==
  ASSUME NEW l1 \in Line, NEW l2 \in Line, GoodAttrs(l1), GoodAttrs(l2),
         NEW h1 \in GendersHosts, NEW h2 \in GendersHosts,
         Represents(h1, l1), Represents(h2, l2)
  PROVE  Clash(h1.hl, h1.attrval_index, h2.hl, h2.attrval_index)
           <=> ~ Compatible(l1, l2)
<1>1. h1.hl = l1.hl /\ h2.hl = l2.hl
  BY DEF Represents
<1>2. NodesIn(l1.hl) \subseteq Node /\ NodesIn(l2.hl) \subseteq Node
  BY NodesInFinite DEF Line
<1>3. \A a \in Attr : /\ Lists(l1, a) <=> a \in AttrsIn(h1.attrval_index)
                      /\ Lists(l2, a) <=> a \in AttrsIn(h2.attrval_index)
  BY RepresentsAttrs
<1>4. /\ AttrsIn(h1.attrval_index) \subseteq Attr
      /\ AttrsIn(h2.attrval_index) \subseteq Attr
  BY DEF AttrsIn
<1> QED
  BY <1>1, <1>2, <1>3, <1>4 DEF Clash, Compatible

(* A blank line changes nothing.                                            *)
LEMMA GoodUpToBlank ==
  ASSUME NEW f \in Seq(Line), NEW m \in Nat, NEW hosts,
         m + 1 \in LinesOf(f), f[m + 1].kind = "blank", GoodUpTo(f, m, hosts)
  PROVE  GoodUpTo(f, m + 1, hosts)
<1>1. \A i \in LinesOf(f) : i <= m + 1 <=> i <= m \/ i = m + 1
  BY DEF LinesOf
<1>2. \A i \in Entries(f) : i \in LinesOf(f) /\ (i <= m + 1 <=> i <= m)
  BY <1>1 DEF Entries
<1> QED
  BY <1>1, <1>2 DEF GoodUpTo

LEMMA GoodUpToEntry ==
  ASSUME NEW f \in Seq(Line), NEW m \in Nat,
         NEW hosts \in Seq(GendersHosts), NEW h \in GendersHosts,
         m + 1 \in LinesOf(f), f[m + 1].kind = "entry",
         GoodUpTo(f, m, hosts),
         GoodAttrs(f[m + 1]), GoodNames(f[m + 1]), Represents(h, f[m + 1]),
         \A k \in 1 .. Len(hosts) :
            ~ Clash(hosts[k].hl, hosts[k].attrval_index, h.hl, h.attrval_index)
  PROVE  GoodUpTo(f, m + 1, Append(hosts, h))
<1> DEFINE longer == Append(hosts, h)
<1>1. \A i \in LinesOf(f) : i <= m + 1 <=> i <= m \/ i = m + 1
  BY DEF LinesOf
<1>2. /\ Entries(f) \subseteq LinesOf(f) /\ m + 1 \in Entries(f)
      /\ \A i \in Entries(f) : f[i] \in Line
  BY DEF Entries, LinesOf
<1>3. /\ Len(hosts) \in Nat
      /\ Len(longer) = Len(hosts) + 1
      /\ longer[Len(hosts) + 1] = h
      /\ \A k \in 1 .. Len(hosts) : longer[k] = hosts[k]
      /\ \A k \in 1 .. Len(hosts) : hosts[k] \in GendersHosts
  BY AppendLine
<1>4. \A i \in LinesOf(f) : i <= m + 1 => f[i].kind # "long"
  BY <1>1 DEF GoodUpTo
<1>5. \A i \in Entries(f) : i <= m + 1 => GoodAttrs(f[i]) /\ GoodNames(f[i])
  BY <1>1, <1>2 DEF GoodUpTo
<1>6. ASSUME NEW i \in Entries(f), NEW j \in Entries(f), i < j, j <= m + 1
      PROVE  Compatible(f[i], f[j])
  <2>1. CASE j <= m
    BY <1>6, <2>1 DEF GoodUpTo
  <2>2. CASE j = m + 1
    <3>1. i <= m
      BY <1>2, <1>6, <2>2 DEF LinesOf
    <3>2. PICK k \in 1 .. Len(hosts) : Represents(hosts[k], f[i])
      BY <3>1 DEF GoodUpTo
    <3>3. GoodAttrs(f[i])
      BY <3>1 DEF GoodUpTo
    <3> QED
      BY <1>2, <1>3, <2>2, <3>2, <3>3, ClashIsIncompatible
  <2> QED
    BY <1>1, <1>2, <1>6, <2>1, <2>2
<1>7. ASSUME NEW i \in Entries(f), i <= m + 1
      PROVE  \E k \in 1 .. Len(longer) : Represents(longer[k], f[i])
  <2>1. CASE i <= m
    <3>1. PICK k \in 1 .. Len(hosts) : Represents(hosts[k], f[i])
      BY <2>1 DEF GoodUpTo
    <3>2. k \in 1 .. Len(longer) /\ Represents(longer[k], f[i])
      BY <1>3, <3>1
    <3> QED
      BY <3>2
  <2>2. CASE i = m + 1
    <3>1. Len(hosts) + 1 \in 1 .. Len(longer)
      BY <1>3
    <3> QED
      BY <1>3, <2>2, <3>1
  <2> QED
    BY <1>1, <1>2, <1>7, <2>1, <2>2
<1>8. ASSUME NEW k \in 1 .. Len(longer)
      PROVE  \E i \in Entries(f) : i <= m + 1 /\ Represents(longer[k], f[i])
  <2>1. CASE k \in 1 .. Len(hosts)
    <3>1. PICK i \in Entries(f) : i <= m /\ Represents(hosts[k], f[i])
      BY <2>1 DEF GoodUpTo
    <3>2. i <= m + 1
      BY <1>1, <1>2, <3>1
    <3> QED
      BY <1>3, <2>1, <3>1, <3>2
  <2>2. CASE k = Len(hosts) + 1
    <3>1. m + 1 <= m + 1
      OBVIOUS
    <3> QED
      BY <1>2, <1>3, <2>2, <3>1
  <2> QED
    BY <1>3, <2>1, <2>2
<1> QED
  BY <1>4, <1>5, <1>6, <1>7, <1>8 DEF GoodUpTo

(* At the end of the file, the list of lines says what the file says.       *)
LEMMA GoodUpToEnd ==
  ASSUME NEW f \in Seq(Line), NEW hosts \in Seq(GendersHosts),
         GoodUpTo(f, Len(f), hosts)
  PROVE  /\ Correct(f)
         /\ NodesOfLines(hosts) = NodesUpTo(f, Len(f))
         /\ AttrsOfLines(hosts) = AttrsUpTo(f, Len(f))
         /\ Table(hosts) = TableUpTo(f, Len(f))
<1>1. /\ \A i \in LinesOf(f) : i <= Len(f)
      /\ \A i \in Entries(f) : i \in LinesOf(f) /\ f[i] \in Line
      /\ \A k \in 1 .. Len(hosts) : hosts[k] \in GendersHosts
  BY DEF LinesOf, Entries
<1>2. Correct(f)
  BY <1>1 DEF GoodUpTo, Correct
<1>3. \A i \in Entries(f) : \E k \in 1 .. Len(hosts) : Represents(hosts[k], f[i])
  BY <1>1 DEF GoodUpTo
<1>4. \A k \in 1 .. Len(hosts) : \E i \in Entries(f) : Represents(hosts[k], f[i])
  BY DEF GoodUpTo
<1>5. \A i \in Entries(f) : NodesIn(f[i].hl) \subseteq Node
  BY <1>1, NodesInFinite DEF Line
<1>6. NodesOfLines(hosts) = NodesUpTo(f, Len(f))
  BY <1>1, <1>3, <1>4, <1>5 DEF NodesOfLines, NodesUpTo, Represents
<1>7. AttrsOfLines(hosts) = AttrsUpTo(f, Len(f))
  <2>1. \A i \in Entries(f), k \in 1 .. Len(hosts), a \in Attr :
           Represents(hosts[k], f[i]) =>
             (Lists(f[i], a) <=> a \in AttrsIn(hosts[k].attrval_index))
    BY <1>1, <1>2, RepresentsAttrs DEF Correct
  <2> QED
    BY <1>1, <1>3, <1>4, <2>1 DEF AttrsOfLines, AttrsUpTo
<1>8. Table(hosts) = TableUpTo(f, Len(f))
  <2> DEFINE Gives(l, t) == /\ t[1] \in NodesIn(l.hl)
                            /\ \E j \in 1 .. Len(l.avs) :
                                 l.avs[j].attr = t[2] /\ l.avs[j].val = t[3]
             Holds(h, t) == /\ t[1] \in NodesIn(h.hl)
                            /\ h.attrval_index[t[2]] = t[3]
  <2>1. \A i \in Entries(f), k \in 1 .. Len(hosts),
           t \in Node \X Attr \X (Value \cup {NoValue}) :
           Represents(hosts[k], f[i]) => (Holds(hosts[k], t) <=> Gives(f[i], t))
    BY DEF Represents, Says
  <2>2. \A t : t \in Table(hosts) <=>
           /\ t \in Node \X Attr \X (Value \cup {NoValue})
           /\ \E k \in 1 .. Len(hosts) : Holds(hosts[k], t)
    BY DEF Table
  <2>3. \A t : t \in TableUpTo(f, Len(f)) <=>
           /\ t \in Node \X Attr \X (Value \cup {NoValue})
           /\ \E i \in Entries(f) : Gives(f[i], t)
    BY <1>1 DEF TableUpTo
  <2> HIDE DEF Gives, Holds
  <2>4. \A t : t \in Table(hosts) <=> t \in TableUpTo(f, Len(f))
    BY <1>3, <1>4, <2>1, <2>2, <2>3
  <2> QED
    BY <2>4
<1> QED
  BY <1>2, <1>6, <1>7, <1>8

(***************************************************************************)
(* The invariant holds.                                                    *)
(***************************************************************************)
LEMMA NoLines ==
  /\ Correct(<<>>)
  /\ \A f \in Seq(Line) : GoodUpTo(f, 0, <<>>)
<1>1. LinesOf(<<>>) = {} /\ Entries(<<>>) = {}
  BY DEF LinesOf, Entries
<1>2. \A f \in Seq(Line) : /\ \A i \in LinesOf(f) : ~ i <= 0
                          /\ Entries(f) \subseteq LinesOf(f)
  BY DEF LinesOf, Entries
<1>3. \A f \in Seq(Line) : \A i, j \in Entries(f) : ~ (i < j /\ j <= 0)
  BY <1>2 DEF LinesOf
<1>4. 1 .. Len(<<>>) = {}
  OBVIOUS
<1> QED
  BY <1>1, <1>2, <1>3, <1>4 DEF Correct, GoodUpTo

LEMMA InitRead == Init => ReadInv
<1> SUFFICES ASSUME Init PROVE ReadInv
  OBVIOUS
<1>1. LoadInv
  BY InitInv
<1>2. data["debug"] = EmptyDatabase
  BY DEF Init, Modes
<1>3. LineInv /\ CallInv
  BY <1>2 DEF Init, LineInv, CallInv
<1>4. Verdicts
  BY NoLines DEF Init, Verdicts
<1> QED
  BY <1>1, <1>3, <1>4 DEF ReadInv

(* The line being read, in a call that rejected no line.                    *)
LEMMA CurrentLine ==
  ASSUME ReadInv, pc \in {"attrs", "names", "hosts"}
  PROVE  /\ line \in Entries(file) /\ line \in LinesOf(file)
         /\ file[line] = Current /\ Current \in Line
         /\ line \in Nat \ {0} /\ Current.kind = "entry"
         /\ file \in Seq(Line) /\ Current.avs \in Seq(AttrVal)
         /\ next \in Nat \ {0} /\ attrval_index \in AttrVals
<1>1. TypeOK
  BY DEF ReadInv, LoadInv, TypeInv
<1>2. Current.kind = "entry"
  BY DEF ReadInv, LineInv
<1>3. /\ line \in LinesOf(file) /\ file[line] = Current /\ line \in Nat \ {0}
      /\ next \in Nat \ {0} /\ attrval_index \in AttrVals
      /\ file \in Seq(Line)
  BY <1>1 DEF TypeOK, LinesOf, Current
<1> QED
  BY <1>1, <1>2, <1>3, CurrentType DEF Entries

(* What _parse_line() rejects is an error in the file.                      *)
LEMMA RejectedIsWrong ==
  ASSUME ReadInv, WhiteSpace \/ BadAttr \/ BadNames \/ HostTooLong,
         errcount = 0, Sound
  PROVE  ~ Correct(file)
<1>1. pc \in {"attrs", "names", "hosts"}
  BY DEF WhiteSpace, BadAttr, ParseAttr, BadNames, HostTooLong
<1>2. /\ line \in Entries(file) /\ file[line] = Current /\ Current \in Line
      /\ line \in Nat \ {0} /\ Current.avs \in Seq(AttrVal)
      /\ file \in Seq(Line) /\ next \in Nat \ {0}
  BY <1>1, CurrentLine
<1>3. Correct(file) => GoodAttrs(Current) /\ GoodNames(Current)
  BY <1>2 DEF Correct
<1>4. CASE WhiteSpace
  <2>1. Current.white /\ Current.avs # <<>>
    BY <1>2, <1>4 DEF WhiteSpace, MoreAttrs
  <2> QED
    BY <1>3, <2>1 DEF GoodAttrs
<1>5. CASE BadAttr
  <2>1. next \in 1 .. Len(Current.avs) /\ Av = Current.avs[next] /\ pc = "attrs"
    BY <1>2, <1>5 DEF BadAttr, ParseAttr, MoreAttrs, Av
  <2>2. CASE Av.attr = EmptyAttr \/ Av.val = EmptyValue
    BY <1>3, <2>1, <2>2 DEF GoodAttrs
  <2>3. CASE Av.attr \in AttrsIn(attrval_index)
    <3>1. attrval_index[Av.attr] \in Value \cup {NoValue} /\ Av.attr \in Attr
      BY <1>1, <2>3, CurrentLine DEF AttrsIn, AttrVals
    <3>2. Says(attrval_index, Current.avs, next - 1)
      BY <2>1 DEF ReadInv, LineInv
    <3>3. PICK k \in 1 .. next - 1 : Current.avs[k].attr = Av.attr
      BY <3>1, <3>2 DEF Says
    <3>4. k \in 1 .. Len(Current.avs) /\ k # next
      BY <1>2, <2>1, <3>3
    <3> QED
      BY <1>3, <2>1, <3>3, <3>4 DEF GoodAttrs
  <2> QED
    BY <1>5, <2>2, <2>3 DEF BadAttr
<1>6. CASE BadNames
  <2>1. CASE Current.names \in {"dotted", "bad"}
    BY <1>3, <2>1 DEF GoodNames
  <2>2. CASE Duplicates
    <3> DEFINE hosts == data[mode].genders_hosts
               h == [hl |-> Current.hl, attrval_index |-> attrval_index]
    <3>1. PICK k \in 1 .. Len(hosts) :
             Clash(hosts[k].hl, hosts[k].attrval_index, Current.hl,
                   attrval_index)
      BY <2>2 DEF Duplicates
    <3>2. /\ hosts[k] \in GendersHosts /\ h \in GendersHosts
          /\ Represents(h, Current)
      <4>1. hosts \in Seq(GendersHosts)
        BY DEF ReadInv, LoadInv, TypeInv, TypeOK, Database
      <4>2. h \in GendersHosts
        BY <1>1, <1>2, CurrentLine DEF GendersHosts, Line
      <4>3. Says(attrval_index, Current.avs, Len(Current.avs))
        BY <1>6 DEF BadNames, ReadInv, LineInv
      <4> QED
        BY <3>1, <4>1, <4>2, <4>3 DEF Represents
    <3>3. GoodUpTo(file, line - 1, hosts)
      BY <1>1 DEF ReadInv, CallInv
    <3>4. PICK i \in Entries(file) :
             i <= line - 1 /\ Represents(hosts[k], file[i])
      BY <3>3 DEF GoodUpTo
    <3>5. i \in LinesOf(file) /\ i < line /\ file[i] \in Line
      BY <1>2, <3>4 DEF Entries, LinesOf
    <3>6. SUFFICES ASSUME Correct(file) PROVE FALSE
      OBVIOUS
    <3>7. /\ GoodAttrs(file[i]) /\ GoodAttrs(Current)
          /\ Compatible(file[i], Current)
      BY <1>2, <3>5, <3>6 DEF Correct
    <3> QED
      BY <1>2, <3>1, <3>2, <3>4, <3>5, <3>7, ClashIsIncompatible
  <2> QED
    BY <1>6, <2>1, <2>2 DEF BadNames
<1>7. CASE HostTooLong
  <2>1. /\ next \in 1 .. Len(Current.hl) /\ Current.hl \in Seq(Node)
        /\ NodeLen[Current.hl[next]] \in Nat
    BY <1>7, HostLenType DEF HostTooLong, ReadInv, LoadInv, TypeInv, HostLen
  <2>2. NodeLen[Current.hl[next]] > MAXHOSTNAMELEN
    BY <1>7 DEF HostTooLong, TooLong, HostLen
  <2>3. Current.hl[next] \in NodesIn(Current.hl)
    BY <2>1 DEF NodesIn
  <2> QED
    BY <1>3, <2>1, <2>2, <2>3, FileAssumption DEF GoodNames
<1> QED
  BY <1>4, <1>5, <1>6, <1>7

LEMMA GiveUpRead ==
  ASSUME ReadInv, LoadInv', NEW e, GiveUp(e), pc # "idle",
         ~ Correct(file) \/ fault'
  PROVE  ReadInv'
<1>1. /\ pc' = "idle" /\ rv' = -1 /\ mode' = mode /\ file' = file
      /\ errcount' = 0 /\ data' = [data EXCEPT ![mode] = EmptyDatabase]
  BY DEF GiveUp, callvars, CleanUp
<1>2. mode \in Modes /\ data \in [Modes -> Database]
  BY DEF ReadInv, LoadInv, TypeInv, TypeOK
<1>3. data'["debug"] = EmptyDatabase
  BY <1>1, <1>2 DEF ReadInv, CallInv, Modes
<1>4. LineInv' /\ CallInv'
  BY <1>1, <1>3 DEF LineInv, CallInv
<1>5. Verdicts'
  BY <1>1 DEF Verdicts
<1> QED
  BY <1>4, <1>5 DEF ReadInv

LEMMA RejectLineRead ==
  ASSUME ReadInv, LoadInv', RejectLine, pc \in {"attrs", "names", "hosts"},
         ~ Correct(file) \/ fault', fault => fault'
  PROVE  ReadInv'
<1>1. CASE mode = "load"
  BY <1>1, GiveUpRead DEF RejectLine
<1>2. CASE mode # "load"
  <2>1. /\ pc' = "read" /\ mode' = mode /\ file' = file
        /\ errcount' = errcount + 1 /\ next' = 1 /\ missed' = missed
    BY <1>2 DEF RejectLine, callvars, LineDone
  <2>2. errcount \in Nat
    BY DEF ReadInv, LoadInv, TypeInv, TypeOK
  <2>3. LineInv' /\ Verdicts'
    BY <2>1 DEF LineInv, Verdicts
  <2>4. CallInv'
    BY <1>2, <2>1, <2>2 DEF ReadInv, CallInv
  <2> QED
    BY <2>3, <2>4 DEF ReadInv
<1> QED
  BY <1>1, <1>2

(* Steps inside a line leave what was said about the lines above it.        *)
LEMMA SameLineCall ==
  ASSUME ReadInv, pc # "idle", pc' # "idle", mode' = mode, file' = file,
         line' = line, errcount' = errcount, fault => fault',
         missed[mode] \subseteq missed'[mode],
         missed'[mode] = missed[mode] \/ fault',
         data'["debug"] = data["debug"] \/ mode = "debug",
         data'[mode].genders_hosts = data[mode].genders_hosts
  PROVE  CallInv' /\ Verdicts'
<1>1. Sound' => Sound
  BY DEF Sound
<1> QED
  BY <1>1 DEF ReadInv, CallInv, Verdicts

LEMMA StepOnRead ==
  ASSUME ReadInv, LoadInv', 
         ReadBlank \/ ReadEntry \/ AttrsDone \/ NamesDone \/ MissesClash
           \/ StopsMeasuring
  PROVE  ReadInv'
<1>1. /\ pc # "idle" /\ pc' # "idle" /\ mode' = mode /\ file' = file
      /\ errcount' = errcount /\ data' = data
  BY DEF ReadBlank, ReadEntry, AttrsDone, NamesDone, MissesClash, GoOnToHosts,
         StopsMeasuring, callvars
<1>2. TypeOK /\ TypeOK'
  BY DEF ReadInv, LoadInv, TypeInv
<1>3. CASE ReadBlank
  <2>1. /\ pc = "read" /\ pc' = "read" /\ line' = line + 1 /\ next' = 1
        /\ line <= Len(file) /\ Current.kind = "blank"
        /\ missed' = missed /\ fault' = fault
    BY <1>3 DEF ReadBlank, LineDone, MoreLines
  <2>2. LineInv' /\ Verdicts'
    BY <2>1 DEF LineInv, Verdicts
  <2>3. /\ line - 1 \in Nat /\ (line - 1) + 1 = line /\ (line + 1) - 1 = line
        /\ file \in Seq(Line) /\ line \in LinesOf(file)
    BY <1>2, <2>1 DEF TypeOK, LinesOf
  <2>4. ASSUME errcount = 0, Sound
        PROVE  GoodUpTo(file, line, data[mode].genders_hosts)
    <3>1. GoodUpTo(file, line - 1, data[mode].genders_hosts)
      BY <2>1, <2>4 DEF ReadInv, CallInv
    <3>2. file[line].kind = "blank"
      BY <2>1 DEF Current
    <3>3. GoodUpTo(file, (line - 1) + 1, data[mode].genders_hosts)
      BY <2>3, <3>1, <3>2, GoodUpToBlank
    <3> QED
      BY <2>3, <3>3
  <2>5. CallInv'
    BY <1>1, <2>1, <2>3, <2>4 DEF ReadInv, CallInv, Sound
  <2> QED
    BY <2>2, <2>5 DEF ReadInv
<1>4. CASE ReadEntry
  <2>1. /\ pc' = "attrs" /\ line' = line /\ next' = next /\ pc = "read"
        /\ attrval_index' = attrval_index /\ Current.kind = "entry"
        /\ Current' = Current /\ missed' = missed /\ fault' = fault
    BY <1>1, <1>4 DEF ReadEntry, linevars, Current
  <2>2. CallInv' /\ Verdicts'
    BY <1>1, <2>1, SameLineCall
  <2>3. next = 1 /\ attrval_index = NoAttrVals
    BY <2>1 DEF ReadInv, LoadInv, LineInv
  <2>4. Says(NoAttrVals, Current.avs, 0) /\ GoodPrefix(Current, 0)
    BY MarksAreNotValues DEF Says, GoodPrefix, NoAttrVals
  <2>5. line \in 1 .. Len(file) /\ file \in Seq(Line)
    BY <1>2, <1>4 DEF TypeOK, ReadEntry, MoreLines
  <2>6. Current \in Line
    BY <2>5 DEF Current
  <2>7. Current.avs \in Seq(AttrVal)
    BY <2>6 DEF Line
  <2>8. LineInv'
    BY <2>1, <2>3, <2>4, <2>7 DEF LineInv
  <2> QED
    BY <2>2, <2>8 DEF ReadInv
<1>5. CASE AttrsDone
  <2>1. /\ pc = "attrs" /\ pc' = "names" /\ line' = line /\ next' = next
        /\ attrval_index' = attrval_index /\ Current' = Current
        /\ ~ (next <= Len(Current.avs))
        /\ missed' = missed /\ fault' = fault
    BY <1>1, <1>5 DEF AttrsDone, linevars, Current, MoreAttrs
  <2>2. CallInv' /\ Verdicts'
    BY <1>1, <2>1, SameLineCall
  <2>3. next - 1 = Len(Current.avs)
    BY <2>1, CurrentLine DEF ReadInv, LineInv
  <2>4. LineInv'
    BY <1>1, <2>1, <2>3 DEF ReadInv, LineInv, Sound
  <2> QED
    BY <2>2, <2>4 DEF ReadInv
<1>6. CASE NamesDone
  <2>1. /\ pc = "names" /\ pc' = "hosts" /\ line' = line /\ next' = 1
        /\ attrval_index' = attrval_index /\ Current' = Current
        /\ Current.names = "good"
        /\ missed' = missed /\ fault' = fault
    BY <1>1, <1>6 DEF NamesDone, GoOnToHosts, Current
  <2>2. CallInv' /\ Verdicts'
    BY <1>1, <2>1, SameLineCall
  <2>3. \A j \in 1 .. Len(Current.hl) : ~ (j < 1)
    OBVIOUS
  <2>4. LineInv'
    BY <1>1, <2>1, <2>3 DEF ReadInv, LineInv, Sound
  <2> QED
    BY <2>2, <2>4 DEF ReadInv
<1>7. CASE MissesClash
  <2>1. /\ pc = "names" /\ pc' = "hosts" /\ line' = line /\ next' = 1
        /\ attrval_index' = attrval_index /\ Current' = Current
        /\ Current.names = "good" /\ GoesUnnoticed("clash")
    BY <1>1, <1>7 DEF MissesClash, GoOnToHosts, Current
  <2>2. missed'[mode] = missed[mode] \cup {"clash"} /\ fault' = TRUE
    BY <1>2, <2>1, GoesUnnoticedType DEF Unnoticed
  <2>3. CallInv' /\ Verdicts'
    BY <1>1, <2>1, <2>2, SameLineCall
  <2>4. ~ Sound'
    BY <1>1, <2>2 DEF Sound
  <2>5. \A j \in 1 .. Len(Current.hl) : ~ (j < 1)
    OBVIOUS
  <2>6. LineInv'
    BY <2>1, <2>4, <2>5 DEF ReadInv, LineInv
  <2> QED
    BY <2>3, <2>6 DEF ReadInv
<1>8. CASE StopsMeasuring
  <2>1. /\ pc = "hosts" /\ pc' = "hosts" /\ line' = line
        /\ attrval_index' = attrval_index /\ Current' = Current
        /\ GoesUnnoticed("length")
    BY <1>1, <1>8 DEF StopsMeasuring, Current
  <2>2. missed'[mode] = missed[mode] \cup {"length"} /\ fault' = TRUE
    BY <1>2, <2>1, GoesUnnoticedType DEF Unnoticed
  <2>3. CallInv' /\ Verdicts'
    BY <1>1, <2>1, <2>2, SameLineCall
  <2>4. ~ Sound'
    BY <1>1, <2>2 DEF Sound
  <2>5. LineInv'
    BY <2>1, <2>4 DEF ReadInv, LineInv
  <2> QED
    BY <2>3, <2>5 DEF ReadInv
<1> QED
  BY <1>3, <1>4, <1>5, <1>6, <1>7, <1>8

LEMMA InsertAttrRead ==
  ASSUME ReadInv, LoadInv', InsertAttr
  PROVE  ReadInv'
<1>1. /\ pc = "attrs" /\ pc' = "attrs" /\ mode' = mode /\ file' = file
      /\ line' = line /\ errcount' = errcount /\ fault' = fault
      /\ missed' = missed
      /\ next' = next + 1 /\ Current' = Current
      /\ attrval_index' = [attrval_index EXCEPT ![Av.attr] = Av.val]
      /\ data' = [data EXCEPT ![mode] = WithAttr(data[mode])]
      /\ next <= Len(Current.avs) /\ ~ Current.white
      /\ Av.attr \in Attr \ AttrsIn(attrval_index) /\ Av.val # EmptyValue
  BY DEF InsertAttr, ParseAttr, callvars, Current, MoreAttrs, AcceptableAttr
<1>2. TypeOK
  BY DEF ReadInv, LoadInv, TypeInv
<1>3. /\ Current.avs \in Seq(AttrVal) /\ next \in 1 .. Len(Current.avs)
      /\ Av = Current.avs[next] /\ Av.val \in Value \cup {NoValue}
      /\ attrval_index \in AttrVals /\ Len(Current.avs) \in Nat
  BY <1>1, <1>2, AvType, CurrentLine DEF Av
<1>4. CallInv' /\ Verdicts'
  <2>1. WithAttr(data[mode]).genders_hosts = data[mode].genders_hosts
    BY DEF WithAttr
  <2>2. mode \in Modes /\ data \in [Modes -> Database]
    BY <1>2 DEF TypeOK
  <2>3. data'["debug"] = data["debug"] \/ mode = "debug"
    BY <1>1, <2>2 DEF Modes
  <2> QED
    BY <1>1, <2>1, <2>2, <2>3, SameLineCall
<1>12. CASE ~ Sound
  <2>1. next' <= Len(Current.avs) + 1 /\ ~ Sound'
    BY <1>1, <1>3, <1>12 DEF Sound
  <2>2. LineInv'
    BY <1>1, <2>1 DEF ReadInv, LineInv
  <2> QED
    BY <1>4, <2>2 DEF ReadInv
<1>13. SUFFICES ASSUME Sound PROVE ReadInv'
  BY <1>12
<1>5. /\ GoodPrefix(Current, next - 1)
      /\ Says(attrval_index, Current.avs, next - 1)
  BY <1>1, <1>13 DEF ReadInv, LineInv
<1>6. Av.attr \in Attr /\ attrval_index[Av.attr] = Absent
  BY <1>1 DEF AttrsIn
<1>7. \A k : k \in 1 .. next <=> k \in 1 .. next - 1 \/ k = next
  BY <1>3
<1>8. ASSUME NEW k \in 1 .. next - 1
      PROVE  Current.avs[k].attr # Av.attr
  <2>1. SUFFICES ASSUME Current.avs[k].attr = Av.attr PROVE FALSE
    OBVIOUS
  <2>2. Current.avs[k] \in AttrVal /\ Current.avs[k].val # EmptyValue
    BY <1>3, <1>5 DEF GoodPrefix
  <2>3. Current.avs[k].val \in Value \cup {NoValue}
    BY <2>2 DEF AttrVal
  <2>4. attrval_index[Av.attr] = Current.avs[k].val
    BY <1>5, <1>6, <2>1, <2>3 DEF Says
  <2> QED
    BY <1>6, <2>3, <2>4, MarksAreNotValues
<1>9. GoodPrefix(Current, next)
  <2>1. \A k \in 1 .. next : /\ Current.avs[k].attr # EmptyAttr
                            /\ Current.avs[k].val # EmptyValue
    BY <1>1, <1>3, <1>5, <1>6, <1>7, FileAssumption DEF GoodPrefix
  <2>2. \A j, k \in 1 .. next :
           Current.avs[j].attr = Current.avs[k].attr => j = k
    BY <1>3, <1>5, <1>7, <1>8 DEF GoodPrefix
  <2> QED
    BY <1>1, <2>1, <2>2 DEF GoodPrefix
<1>10. Says(attrval_index', Current.avs, next)
  <2> SUFFICES ASSUME NEW a \in Attr, NEW v \in Value \cup {NoValue}
               PROVE  attrval_index'[a] = v <=>
                        \E k \in 1 .. next : /\ Current.avs[k].attr = a
                                             /\ Current.avs[k].val = v
    BY DEF Says
  <2>1. CASE a = Av.attr
    <3>1. attrval_index'[a] = Av.val
      BY <1>1, <1>3, <2>1 DEF AttrVals
    <3>2. \A k \in 1 .. next : Current.avs[k].attr = a <=> k = next
      BY <1>3, <1>7, <1>8, <2>1
    <3>3. next \in 1 .. next
      BY <1>3
    <3> QED
      BY <1>3, <3>1, <3>2, <3>3
  <2>2. CASE a # Av.attr
    <3>1. attrval_index'[a] = attrval_index[a]
      BY <1>1, <1>3, <2>2 DEF AttrVals
    <3>2. attrval_index[a] = v <=>
             \E k \in 1 .. next - 1 : /\ Current.avs[k].attr = a
                                      /\ Current.avs[k].val = v
      BY <1>5 DEF Says
    <3> QED
      BY <1>3, <1>7, <2>2, <3>1, <3>2
  <2> QED
    BY <2>1, <2>2
<1>11. LineInv'
  <2>1. next' - 1 = next /\ next' <= Len(Current.avs) + 1
    BY <1>1, <1>3
  <2> QED
    BY <1>1, <1>9, <1>10, <2>1 DEF ReadInv, LineInv
<1> QED
  BY <1>4, <1>11 DEF ReadInv

(* A table loses an entry: nothing more is said of what is read.            *)
LEMMA DropsRead ==
  ASSUME ReadInv, LoadInv', DropsAttrval \/ DropsAttr
  PROVE  ReadInv'
<1>1. /\ pc = "attrs" /\ pc' = "attrs" /\ mode' = mode /\ file' = file
      /\ line' = line /\ errcount' = errcount /\ next' = next
      /\ Current' = Current /\ GoesUnnoticed("attrs")
  BY DEF DropsAttrval, DropsAttr, ParseAttr, callvars, linevars, Current
<1>2. TypeOK
  BY DEF ReadInv, LoadInv, TypeInv
<1>3. missed'[mode] = missed[mode] \cup {"attrs"} /\ fault' = TRUE
  BY <1>1, <1>2, GoesUnnoticedType DEF Unnoticed
<1>4. /\ data'[mode].genders_hosts = data[mode].genders_hosts
      /\ data'["debug"] = data["debug"] \/ mode = "debug"
  <2>1. mode \in Modes /\ data \in [Modes -> Database]
    BY <1>2 DEF TypeOK
  <2>2. CASE DropsAttrval
    BY <2>2 DEF DropsAttrval
  <2>3. CASE DropsAttr
    <3>1. PICK a \in data[mode].attrs :
             data' = [data EXCEPT ![mode] = WithoutAttr(data[mode], a)]
      BY <2>3 DEF DropsAttr
    <3>2. WithoutAttr(data[mode], a).genders_hosts = data[mode].genders_hosts
      BY <2>1 DEF WithoutAttr, Database
    <3> QED
      BY <2>1, <3>1, <3>2 DEF Modes
  <2> QED
    BY <2>2, <2>3
<1>5. CallInv' /\ Verdicts'
  BY <1>1, <1>3, <1>4, SameLineCall
<1>6. ~ Sound'
  BY <1>1, <1>3 DEF Sound
<1>7. LineInv'
  BY <1>1, <1>6 DEF ReadInv, LineInv
<1> QED
  BY <1>5, <1>7 DEF ReadInv

LEMMA MeasureHostRead ==
  ASSUME ReadInv, LoadInv', MeasureHost
  PROVE  ReadInv'
<1>1. /\ pc = "hosts" /\ pc' = "hosts" /\ mode' = mode /\ file' = file
      /\ line' = line /\ errcount' = errcount /\ fault' = fault
      /\ missed' = missed
      /\ next' = next + 1 /\ Current' = Current
      /\ attrval_index' = attrval_index
      /\ MoreHosts /\ ~ TooLong
  BY DEF MeasureHost, callvars, Current
<1>2. TypeOK
  BY DEF ReadInv, LoadInv, TypeInv
<1>3. /\ mode \in Modes /\ data \in [Modes -> Database] /\ HostLen \in Nat
      /\ next \in 1 .. Len(Current.hl) /\ Current.hl \in Seq(Node)
  BY <1>1, <1>2, HostLenType DEF TypeOK
<1>4. data'[mode].genders_hosts = data[mode].genders_hosts
  <2>1. CASE mode = "load"
    <3>1. data' = [data EXCEPT !["load"] = WithNodeLen(data["load"], HostLen)]
      BY <2>1 DEF MeasureHost
    <3>2. WithNodeLen(data["load"], HostLen).genders_hosts
            = data["load"].genders_hosts
      BY DEF WithNodeLen
    <3> QED
      BY <1>3, <2>1, <3>1, <3>2
  <2>2. CASE mode # "load"
    BY <2>2 DEF MeasureHost
  <2> QED
    BY <2>1, <2>2
<1>5. data'["debug"] = data["debug"]
  BY <1>3 DEF MeasureHost, Modes
<1>6. CallInv' /\ Verdicts'
  BY <1>1, <1>4, <1>5, SameLineCall
<1>7. Sound => \A j \in 1 .. Len(Current.hl) :
         j < next + 1 => NodeLen[Current.hl[j]] <= MAXHOSTNAMELEN
  <2>1. NodeLen[Current.hl[next]] <= MAXHOSTNAMELEN
    BY <1>1, <1>3, FileAssumption DEF TooLong, HostLen
  <2>2. \A j \in 1 .. Len(Current.hl) : j < next + 1 <=> j < next \/ j = next
    BY <1>3
  <2> QED
    BY <1>1, <2>1, <2>2 DEF ReadInv, LineInv
<1>8. LineInv'
  BY <1>1, <1>7 DEF ReadInv, LineInv, Sound
<1> QED
  BY <1>6, <1>8 DEF ReadInv

LEMMA FinishRead ==
  ASSUME ReadInv, LoadInv', AppendHosts \/ LosesNames
  PROVE  ReadInv'
<1> DEFINE hosts == data[mode].genders_hosts
           h == [hl |-> Current.hl, attrval_index |-> attrval_index]
<1>1. TypeOK
  BY DEF ReadInv, LoadInv, TypeInv
<1>2. PICK pushed \in SUBSET NodesIn(Current.hl) : AppendWith(pushed)
  BY <1>1, AppendsWith
<1>3. /\ pc = "hosts" /\ Current.hl \in Seq(Node)
      /\ missed[mode] \subseteq missed'[mode]
      /\ ~ MoreHosts
      /\ fault => fault'
      /\ missed'[mode] = missed[mode] \/ fault'
  <2>1. mode \in Modes
    BY <1>1 DEF TypeOK
  <2>2. /\ fault => fault'
        /\ missed' = missed \/ fault'
    BY DEF AppendHosts, LosesNames, GoesUnnoticed
  <2> QED
    BY <1>1, <2>1, <2>2, AppendsWith
<1>4. /\ pc' = "read" /\ mode' = mode /\ file' = file
      /\ line' = line + 1 /\ errcount' = errcount /\ next' = 1
      /\ data' = [data EXCEPT ![mode] = WithHosts(data[mode], pushed)]
  BY <1>2 DEF AppendWith, callvars, LineDone
<1>5. /\ mode \in Modes /\ data \in [Modes -> Database]
      /\ hosts \in Seq(GendersHosts)
  BY <1>1 DEF TypeOK, Database
<1>6. /\ line \in LinesOf(file) /\ file[line] = Current /\ Current \in Line
      /\ line \in Nat \ {0} /\ file \in Seq(Line) /\ next \in Nat
      /\ attrval_index \in AttrVals /\ Current.kind = "entry"
  BY <1>3, CurrentLine
<1>7. LineInv' /\ Verdicts'
  BY <1>4 DEF LineInv, Verdicts
<1>8. data'[mode].genders_hosts = Append(hosts, h)
  BY <1>4, <1>5 DEF WithHosts
<1>9. h \in GendersHosts
  BY <1>3, <1>6 DEF GendersHosts
<1>10. ASSUME errcount = 0, Sound'
       PROVE  GoodUpTo(file, line, Append(hosts, h))
  <2>1. Sound /\ ~ MoreHosts /\ "clash" \notin missed[mode]
    BY <1>3, <1>4, <1>10 DEF Sound
  <2>2. GoodUpTo(file, line - 1, hosts)
    BY <1>3, <1>10, <2>1 DEF ReadInv, CallInv
  <2>3. Represents(h, Current) /\ GoodAttrs(Current)
    BY <1>3, <1>6, <2>1, GoodPrefixIsGoodAttrs DEF ReadInv, LineInv, Represents
  <2>4. GoodNames(Current)
    <3>1. Current.names = "good"
      BY <1>3 DEF ReadInv, LineInv
    <3>2. \A j \in 1 .. Len(Current.hl) :
             NodeLen[Current.hl[j]] <= MAXHOSTNAMELEN
      BY <1>3, <1>6, <2>1 DEF ReadInv, LineInv, MoreHosts
    <3> QED
      BY <3>1, <3>2 DEF GoodNames, NodesIn
  <2>5. \A k \in 1 .. Len(hosts) :
           ~ Clash(hosts[k].hl, hosts[k].attrval_index, h.hl, h.attrval_index)
    BY <1>3, <2>1 DEF ReadInv, LoadInv, Duplicates
  <2>6. line - 1 \in Nat /\ (line - 1) + 1 = line
    BY <1>6
  <2> HIDE DEF h, hosts
  <2>7. GoodUpTo(file, (line - 1) + 1, Append(hosts, h))
    BY <1>5, <1>6, <1>9, <2>2, <2>3, <2>4, <2>5, <2>6, GoodUpToEntry
  <2> QED
    BY <2>6, <2>7
<1>11. CallInv'
  <2>1. line' - 1 = line
    BY <1>4, <1>6
  <2>2. mode = "load" => data'["debug"] = data["debug"]
    BY <1>4, <1>5 DEF Modes
  <2> QED
    BY <1>3, <1>4, <1>8, <1>10, <2>1, <2>2 DEF ReadInv, CallInv
<1> QED
  BY <1>7, <1>11 DEF ReadInv

(* At the end of the file nothing is wrong with it.                         *)
LEMMA AtEofCorrect ==
  ASSUME ReadInv, AtEof, errcount = 0, Sound
  PROVE  /\ Correct(file) /\ file \in File
         /\ LET hosts == data[mode].genders_hosts
            IN /\ NodesOfLines(hosts) = NodesUpTo(file, Len(file))
               /\ AttrsOfLines(hosts) = AttrsUpTo(file, Len(file))
               /\ Table(hosts) = TableUpTo(file, Len(file))
<1>1. TypeOK /\ pc = "read" /\ ~ (line <= Len(file))
  BY DEF ReadInv, LoadInv, TypeInv, AtEof, MoreLines
<1>2. line - 1 = Len(file) /\ file \in Seq(Line)
  BY <1>1 DEF TypeOK
<1>3. GoodUpTo(file, Len(file), data[mode].genders_hosts) /\ file \in File
  BY <1>1, <1>2 DEF ReadInv, CallInv
<1>4. data[mode].genders_hosts \in Seq(GendersHosts)
  BY <1>1 DEF TypeOK, Database
<1> QED
  BY <1>2, <1>3, <1>4, GoodUpToEnd

LEMMA ReturnsRead ==
  ASSUME ReadInv, LoadInv', LoadSucceeds \/ ParseReturns
  PROVE  ReadInv'
<1>1. /\ AtEof /\ pc' = "idle" /\ file' = file /\ mode' = mode
      /\ pc # "idle" /\ missed' = missed /\ fault' = fault
  BY DEF LoadSucceeds, ParseReturns, AtEof, callvars
<1>2. TypeOK
  BY DEF ReadInv, LoadInv, TypeInv
<1>3. data \in [Modes -> Database] /\ errcount \in Nat
  BY <1>2 DEF TypeOK
<1>4. CASE LoadSucceeds
  <2>1. /\ mode = "load" /\ errcount' = errcount /\ rv' = 0
        /\ data'["debug"] = data["debug"]
    BY <1>3, <1>4 DEF LoadSucceeds, Modes
  <2>2. errcount = 0 /\ data["debug"] = EmptyDatabase
    BY <2>1 DEF ReadInv, CallInv
  <2>3. Sound => Correct(file)
    BY <1>1, <2>2, AtEofCorrect
  <2> QED
    BY <1>1, <2>1, <2>2, <2>3 DEF ReadInv, LineInv, CallInv, Verdicts, Sound
<1>5. CASE ParseReturns
  <2>1. /\ errcount' = 0 /\ rv' = errcount /\ fault' = fault
        /\ data'["debug"] = EmptyDatabase
    BY <1>3, <1>5 DEF ParseReturns, Modes, CleanUp
  <2>2. errcount = 0 /\ Sound => Correct(file)
    BY <1>1, AtEofCorrect
  <2>3. errcount # 0 => ~ Correct(file) \/ fault
    BY <1>3 DEF ReadInv, CallInv
  <2> QED
    BY <1>1, <2>1, <2>2, <2>3 DEF ReadInv, LineInv, CallInv, Verdicts, Sound
<1> QED
  BY <1>4, <1>5

LEMMA CallerRead ==
  ASSUME ReadInv, LoadInv', Caller
  PROVE  ReadInv'
<1>1. CASE \E m \in Modes, f \in File : Open(m, f)
  <2>1. PICK m \in Modes, f \in File : Open(m, f)
    BY <1>1
  <2>2. /\ pc = "idle" /\ pc' = "read" /\ mode' = m /\ file' = f
        /\ data' = data /\ errcount' = errcount /\ line' = 1 /\ next' = 1
        /\ Forgets(m)
    BY <2>1 DEF Open, Start, LineDone
  <2>3. errcount = 0 /\ data["debug"] = EmptyDatabase
    BY <2>2 DEF ReadInv, CallInv
  <2>4. data[m].genders_hosts = <<>>
    <3>1. m = "load" => data["load"] = EmptyDatabase
      BY <2>1, <2>2 DEF Open, ReadInv, LoadInv, HandleInv
    <3> QED
      BY <2>3, <3>1 DEF EmptyDatabase, Modes
  <2>5. GoodUpTo(f, 0, <<>>)
    BY NoLines, FileAssumption
  <2>6. missed'[m] = {}
    BY <2>2 DEF Forgets
  <2> QED
    BY <2>2, <2>3, <2>4, <2>5, <2>6 DEF ReadInv, LineInv, CallInv, Verdicts
<1>2. CASE \E m \in Modes : OpenFails(m)
  <2>1. /\ pc = "idle" /\ pc' = "idle" /\ data' = data /\ rv' = -1
        /\ errcount' = errcount /\ fault' = TRUE
    BY <1>2 DEF OpenFails
  <2> QED
    BY <2>1 DEF ReadInv, LineInv, CallInv, Verdicts
<1>3. CASE LoadAgain
  <2>1. /\ pc = "idle" /\ pc' = "idle" /\ errnum' = "ISLOADED"
        /\ errcount' = errcount
        /\ data' = [data EXCEPT !["load"] = CleanUp(data["load"])]
    BY <1>3 DEF LoadAgain
  <2>2. data'["debug"] = data["debug"]
    BY <2>1 DEF ReadInv, LoadInv, TypeInv, TypeOK, Modes
  <2> QED
    BY <2>1, <2>2 DEF ReadInv, LineInv, CallInv, Verdicts
<1> QED
  BY <1>1, <1>2, <1>3 DEF Caller

LEMMA NextRead ==
  ASSUME ReadInv, [Next]_vars
  PROVE  ReadInv'
<1>1. LoadInv'
  BY NextInv DEF ReadInv
<1>2. CASE ReadBlank \/ ReadEntry \/ AttrsDone \/ NamesDone \/ MissesClash
           \/ StopsMeasuring
  BY <1>1, <1>2, StepOnRead
<1>3. CASE WhiteSpace \/ BadAttr \/ BadNames \/ HostTooLong \/ PushFails
  <2>1. RejectLine /\ pc \in {"attrs", "names", "hosts"}
    BY <1>3 DEF WhiteSpace, BadAttr, ParseAttr, BadNames, HostTooLong,
                PushFails
  <2>2. ~ Correct(file) \/ fault'
    <3>1. CASE PushFails
      BY <3>1 DEF PushFails
    <3>2. CASE WhiteSpace \/ BadAttr \/ BadNames \/ HostTooLong
      <4>1. fault' = fault
        BY <3>2 DEF WhiteSpace, BadAttr, BadNames, HostTooLong
      <4>2. errcount \in Nat
        BY DEF ReadInv, LoadInv, TypeInv, TypeOK
      <4>3. errcount > 0 => ~ Correct(file) \/ fault
        BY DEF ReadInv, CallInv
      <4>4. errcount = 0 /\ Sound => ~ Correct(file)
        BY <3>2, RejectedIsWrong
      <4>5. ~ Sound => fault
        BY <2>1 DEF Sound, ReadInv, CallInv
      <4> QED
        BY <4>1, <4>2, <4>3, <4>4, <4>5
    <3> QED
      BY <1>3, <3>1, <3>2
  <2>3. fault => fault'
    BY <1>3 DEF WhiteSpace, BadAttr, BadNames, HostTooLong, PushFails
  <2> QED
    BY <1>1, <2>1, <2>2, <2>3, RejectLineRead
<1>4. CASE ReadLong \/ ReadFails \/ NoMemory \/ LoadFails
  <2>1. (\E e \in Errors : GiveUp(e)) /\ pc # "idle"
    BY <1>4 DEF ReadLong, ReadFails, NoMemory, LoadFails, AtEof, Errors
  <2>2. ~ Correct(file) \/ fault'
    <3>1. CASE ReadLong
      <4>1. line \in LinesOf(file) /\ file[line].kind = "long"
        BY <3>1 DEF ReadLong, MoreLines, Current, LinesOf, ReadInv, LoadInv,
                    TypeInv, TypeOK
      <4> QED
        BY <4>1 DEF Correct
    <3>2. CASE ReadFails \/ NoMemory \/ LoadFails
      BY <3>2 DEF ReadFails, NoMemory, LoadFails
    <3> QED
      BY <1>4, <3>1, <3>2
  <2> QED
    BY <1>1, <2>1, <2>2, GiveUpRead
<1>5. CASE InsertAttr
  BY <1>1, <1>5, InsertAttrRead
<1>6. CASE MeasureHost
  BY <1>1, <1>6, MeasureHostRead
<1>7. CASE AppendHosts \/ LosesNames
  BY <1>1, <1>7, FinishRead
<1>11. CASE DropsAttrval \/ DropsAttr
  BY <1>1, <1>11, DropsRead
<1>8. CASE LoadSucceeds \/ ParseReturns
  BY <1>1, <1>8, ReturnsRead
<1>9. CASE Caller
  BY <1>1, <1>9, CallerRead
<1>10. CASE UNCHANGED vars
  BY <1>1, <1>10 DEF vars, ReadInv, LineInv, CallInv, Verdicts, Current, Sound
<1> QED
  BY <1>2, <1>3, <1>4, <1>5, <1>6, <1>7, <1>8, <1>9, <1>10,
     <1>11 DEF Next, Parser, Faults

(* genders_load_data() and genders_parse() accept exactly the correct       *)
(* files, unless an allocation or a read fails: one that they notice may    *)
(* make them refuse a correct file, and only one that goes unnoticed in a   *)
(* check or a table may make them accept another.                           *)
THEOREM VerdictsAreRight == Spec => []Verdicts
<1>1. ReadInv => Verdicts
  BY DEF ReadInv
<1> QED
  BY InitRead, NextRead, <1>1, PTL DEF Spec

(***************************************************************************)
(* The handle implements the store.                                        *)
(***************************************************************************)

(* The store changes only when a load succeeds or a loaded handle is loaded *)
(* again.                                                                   *)
LEMMA StoreUnchanged ==
  ASSUME \/ handle' = handle
         \/ ~ handle.is_loaded /\ handle' = NewHandle,
         handle.is_loaded =>
           data'["load"] = data["load"] /\ missed'["load"] = missed["load"]
  PROVE  Store' = Store
<1>1. NewHandle.is_loaded = FALSE
  BY DEF NewHandle
<1> QED
  BY <1>1 DEF Store

LEMMA GiveUpStore ==
  ASSUME LoadInv, NEW e, GiveUp(e), pc # "idle"
  PROVE  Store' = Store
<1>1. CASE mode = "load"
  BY <1>1, StoreUnchanged DEF GiveUp, LoadInv, HandleInv
<1>2. CASE mode # "load"
  <2>1. data'["load"] = data["load"] /\ handle' = handle
        /\ missed' = missed
    BY <1>2 DEF GiveUp, LoadInv, TypeInv, TypeOK, Modes
  <2> QED
    BY <2>1, StoreUnchanged
<1> QED
  BY <1>1, <1>2

LEMMA LineStore ==
  ASSUME LoadInv, pc \in {"attrs", "names", "hosts"}, handle' = handle,
         data' = data \/ \E db : data' = [data EXCEPT ![mode] = db],
         \A m \in Modes : m # mode => missed'[m] = missed[m]
  PROVE  Store' = Store
<1>1. data \in [Modes -> Database] /\ mode \in Modes
  BY DEF LoadInv, TypeInv, TypeOK
<1>2. handle.is_loaded => mode # "load"
  BY DEF LoadInv, HandleInv
<1>3. handle.is_loaded =>
        data'["load"] = data["load"] /\ missed'["load"] = missed["load"]
  BY <1>1, <1>2 DEF Modes
<1> QED
  BY <1>3, StoreUnchanged

(* GendersTable reads a file as GendersFile says.                           *)
LEMMA SameFile ==
  ASSUME NEW f
  PROVE  /\ Correct(f) => Abstract!Correct(f)
         /\ Abstract!Contents(f) =
              [state |-> "loaded", nodes |-> NodesUpTo(f, Len(f)),
               attrs |-> AttrsUpTo(f, Len(f)), table |-> TableUpTo(f, Len(f))]
<1>1. Entries(f) = Abstract!Entries(f) /\ LinesOf(f) = Abstract!LinesOf(f)
  BY DEF Entries, Abstract!Entries, LinesOf, Abstract!LinesOf
<1>2. Correct(f) => Abstract!Correct(f)
  <2>1. \A l : GoodAttrs(l) = Abstract!GoodAttrs(l)
    BY DEF GoodAttrs, Abstract!GoodAttrs
  <2>2. \A hl : NodesIn(hl) = Abstract!NodesIn(hl)
    BY DEF NodesIn, Abstract!NodesIn
  <2>3. \A l : GoodNames(l) = Abstract!GoodNames(l)
    BY <2>2 DEF GoodNames, Abstract!GoodNames
  <2>4. \A l, a : Lists(l, a) = Abstract!Lists(l, a)
    BY DEF Lists, Abstract!Lists
  <2>5. \A k, l : Compatible(k, l) = Abstract!Compatible(k, l)
    BY <2>2, <2>4 DEF Compatible, Abstract!Compatible
  <2> QED BY <1>1, <2>1, <2>3, <2>5 DEF Correct, Abstract!Correct
<1>3. /\ Abstract!NodesUpTo(f, Len(f)) = NodesUpTo(f, Len(f))
      /\ Abstract!AttrsUpTo(f, Len(f)) = AttrsUpTo(f, Len(f))
      /\ Abstract!TableUpTo(f, Len(f)) = TableUpTo(f, Len(f))
  BY <1>1 DEF NodesUpTo, Abstract!NodesUpTo, AttrsUpTo, Abstract!AttrsUpTo,
              TableUpTo, Abstract!TableUpTo, Lists, Abstract!Lists,
              NodesIn, Abstract!NodesIn
<1> QED
  BY <1>2, <1>3 DEF Abstract!Contents

LEMMA LoadIsLoad ==
  ASSUME ReadInv, LoadSucceeds
  PROVE  Abstract!Next
<1> DEFINE db == data["load"]
           hosts == db.genders_hosts
<1>1. /\ mode = "load" /\ AtEof /\ pc = "read" /\ errcount = 0
      /\ ~ handle.is_loaded /\ missed' = missed
  BY DEF LoadSucceeds, AtEof, ReadInv, CallInv, LoadInv, HandleInv
<1>2. /\ handle'.is_loaded = TRUE
      /\ data'["load"] = WithNodeLen(db, LocalLen)
  BY DEF LoadSucceeds, ReadInv, LoadInv, TypeInv, TypeOK, Modes
<1>3. /\ data'["load"].hostnames = db.hostnames
      /\ data'["load"].attrs = db.attrs
      /\ data'["load"].genders_hosts = hosts
  BY <1>2 DEF WithNodeLen
<1>4. Store.state = "empty"
  BY <1>1 DEF Store
<1>5. CASE missed["load"] = {}
  <2>1. Sound
    BY <1>1, <1>5 DEF Sound
  <2>2. /\ Correct(file) /\ file \in File
        /\ NodesOfLines(hosts) = NodesUpTo(file, Len(file))
        /\ AttrsOfLines(hosts) = AttrsUpTo(file, Len(file))
        /\ Table(hosts) = TableUpTo(file, Len(file))
    BY <1>1, <2>1, AtEofCorrect
  <2>3. Pending = {}
    BY <1>1, NoAttrValsType DEF ReadInv, LoadInv, Pending
  <2>4. db.hostnames = NodesOfLines(hosts) /\ db.attrs = AttrsOfLines(hosts)
    BY <1>5, <2>3 DEF ReadInv, LoadInv, Accurate
  <2>5. Store' = [state |-> "loaded", nodes |-> NodesUpTo(file, Len(file)),
                  attrs |-> AttrsUpTo(file, Len(file)),
                  table |-> TableUpTo(file, Len(file))]
    BY <1>1, <1>2, <1>3, <1>5, <2>2, <2>4 DEF Store
  <2> QED
    BY <1>4, <2>2, <2>5, SameFile DEF Abstract!Load, Abstract!Next
<1>6. CASE missed["load"] # {}
  <2>1. Store' = Abstract!Doubtful
    BY <1>1, <1>2, <1>6 DEF Store, Abstract!Doubtful, Abstract!Nothing
  <2> QED
    BY <1>4, <2>1 DEF Abstract!LoadBlindly, Abstract!Next
<1> QED
  BY <1>5, <1>6

LEMMA StepImplements ==
  ASSUME ReadInv, [Next]_vars
  PROVE  [Abstract!Next]_Store
<1> USE DEF ReadInv
<1>11. TypeOK
  BY DEF LoadInv, TypeInv
<1>1. CASE ReadBlank \/ ReadEntry \/ AttrsDone \/ NamesDone
  BY <1>1, StoreUnchanged DEF ReadBlank, ReadEntry, AttrsDone, NamesDone,
                              GoOnToHosts
<1>2. CASE WhiteSpace \/ BadAttr \/ BadNames \/ HostTooLong \/ PushFails
  <2>1. RejectLine /\ pc # "idle"
    BY <1>2 DEF WhiteSpace, BadAttr, ParseAttr, BadNames, HostTooLong,
                PushFails
  <2>2. (\E e \in Errors : GiveUp(e)) \/ UNCHANGED <<data, handle, missed>>
    BY <2>1 DEF RejectLine, Errors
  <2> QED
    BY <2>1, <2>2, GiveUpStore, StoreUnchanged
<1>3. CASE ReadLong \/ ReadFails \/ NoMemory \/ LoadFails
  <2>1. (\E e \in Errors : GiveUp(e)) /\ pc # "idle"
    BY <1>3 DEF ReadLong, ReadFails, NoMemory, LoadFails, AtEof, Errors
  <2> QED
    BY <2>1, GiveUpStore
<1>4. CASE InsertAttr
  <2>1. /\ pc \in {"attrs", "hosts"} /\ handle' = handle /\ missed' = missed
        /\ \E db : data' = [data EXCEPT ![mode] = db]
    BY <1>4 DEF InsertAttr, ParseAttr
  <2> QED
    BY <2>1, LineStore
<1>12. CASE AppendHosts \/ LosesNames
  <2>1. /\ pc = "hosts" /\ handle' = handle
        /\ \E db : data' = [data EXCEPT ![mode] = db]
    BY <1>12 DEF AppendHosts, LosesNames, AppendWith
  <2>2. \A m \in Modes : m # mode => missed'[m] = missed[m]
    BY <1>11, <1>12, AppendsWith
  <2> QED
    BY <2>1, <2>2, LineStore
<1>13. CASE DropsAttrval \/ DropsAttr \/ MissesClash \/ StopsMeasuring
  <2>1. /\ pc \in {"attrs", "names", "hosts"} /\ handle' = handle
        /\ data' = data \/ \E db : data' = [data EXCEPT ![mode] = db]
        /\ \E what \in Unnoticed : GoesUnnoticed(what)
    BY <1>13 DEF DropsAttrval, DropsAttr, MissesClash, StopsMeasuring,
                 GoOnToHosts, ParseAttr, Unnoticed
  <2>2. \A m \in Modes : m # mode => missed'[m] = missed[m]
    BY <1>11, <2>1, GoesUnnoticedType
  <2> QED
    BY <2>1, <2>2, LineStore
<1>5. CASE MeasureHost
  <2>1. CASE mode = "load"
    <3>1. /\ pc = "hosts" /\ handle' = handle /\ missed' = missed
          /\ data' = [data EXCEPT ![mode] = WithNodeLen(data[mode], HostLen)]
      BY <1>5, <2>1 DEF MeasureHost
    <3> QED
      BY <3>1, LineStore
  <2>2. CASE mode # "load"
    BY <1>5, <2>2, StoreUnchanged DEF MeasureHost
  <2> QED
    BY <2>1, <2>2
<1>6. CASE LoadSucceeds
  BY <1>6, LoadIsLoad
<1>7. CASE ParseReturns
  <2>1. data'["load"] = data["load"] /\ handle' = handle
        /\ missed' = missed
    BY <1>7 DEF ParseReturns, LoadInv, TypeInv, TypeOK, Modes
  <2> QED
    BY <2>1, StoreUnchanged
<1>8. CASE (\E m \in Modes, f \in File : Open(m, f)) \/ (\E m \in Modes : OpenFails(m))
  <2>1. data' = data /\ handle' = handle
    BY <1>8 DEF Open, OpenFails
  <2>2. PICK m \in Modes : (m = "load" => ~ handle.is_loaded) /\ Forgets(m)
    BY <1>8 DEF Open, OpenFails, Start
  <2>3. handle.is_loaded => missed'["load"] = missed["load"]
    BY <2>2 DEF Forgets, Modes
  <2> QED
    BY <2>1, <2>3, StoreUnchanged
<1>9. CASE LoadAgain
  <2>1. handle.is_loaded /\ handle' = NewHandle
    BY <1>9 DEF LoadAgain
  <2>2. Store.state # "empty" /\ Store' = Abstract!Nothing
    BY <2>1 DEF Store, NewHandle, Abstract!Nothing
  <2> QED
    BY <2>2 DEF Abstract!Next, Abstract!Forget
<1>10. CASE UNCHANGED vars
  BY <1>10, StoreUnchanged DEF vars
<1> QED
  BY <1>1, <1>2, <1>3, <1>4, <1>5, <1>6, <1>7, <1>8, <1>9, <1>10,
     <1>12, <1>13
     DEF Next, Parser, Faults, Caller

(* Loading implements the store of GendersTable: whatever the file, however *)
(* long the load and wherever it fails, its callers see nothing or exactly  *)
(* what one correct file says, unless an allocation failed where the code   *)
(* does not look (then the store is doubtful until the handle is emptied).  *)
THEOREM LoadImplementsTable == Spec => ImplementsTable
<1>1. Init => Abstract!Init
  <2> SUFFICES ASSUME Init PROVE Abstract!Init
    OBVIOUS
  <2>1. handle.is_loaded = FALSE
    BY DEF Init, NewHandle
  <2> QED
    BY <2>1 DEF Store, Abstract!Init, Abstract!Nothing
<1> QED
  BY InitRead, NextRead, <1>1, StepImplements, PTL
     DEF Spec, ImplementsTable, Abstract!Spec
====
