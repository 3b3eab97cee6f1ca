---- MODULE GendersHandleProofs ----
(***************************************************************************)
(* Proofs about GendersHandle, for all handles, databases, nodes,          *)
(* attributes and values.                                                  *)
(***************************************************************************)
EXTENDS GendersHandle, FiniteSetTheorems, TLAPS

(***************************************************************************)
(* Types.                                                                  *)
(***************************************************************************)

(* TypeOK in three parts: handles, the walk over lines, what is returned.   *)
HandleType ==
  /\ live \in [Handle -> BOOLEAN] /\ is_loaded \in [Handle -> BOOLEAN]
  /\ flags \in [Handle -> Flags]
  /\ db \in [Handle -> Loadable \cup {EmptyDatabase}]
  /\ attrval_index_attr \in [Handle -> Attr \cup {NULL}]
  /\ attrval_index \in [Handle -> IndexTable]
  /\ index_flags \in [Handle -> Flags \cup {"PARTIAL"}]

Answers == Seq(Node \cup Attr \cup Result)

WalkType ==
  /\ line \in Nat \ {0} /\ next \in Nat \ {0}
  /\ seen \subseteq Attr
  /\ index \in IndexTable

OutType ==
  /\ found \in Answers
  /\ vals \in Seq(Result \cup {NULL})
  /\ rv \in Int /\ error \in Errors

(* What a handle that is loaded, or is not, looks like.                     *)
HandleInv ==
  \A h \in Handle :
    /\ is_loaded[h] => live[h] /\ db[h] \in Loadable
    /\ ~ is_loaded[h] => /\ db[h] = EmptyDatabase
                         /\ attrval_index_attr[h] = NULL

(* The arguments of a call whose loop runs.                                 *)
CallInv ==
  /\ pc # "idle" => is_loaded[H]
  /\ pc = "lines" =>
       /\ call.op \in {"getnodes", "isattrval", "index_attrvals", "copy"}
       /\ call.attr \in Attr
       /\ Indexing => call.val = NULL
  /\ pc = "hits" =>
       /\ call.op = "getnodes" /\ call.val \in Result
       /\ Indexed(H, call.attr, call.val)
  /\ pc = "names" => call.op = "getnodes" /\ call.attr = NULL
  /\ pc = "attrs" => call.op = "getattr" /\ call.node \in db[H].hostnames
  /\ pc # "idle" /\ call.op \in {"getnodes", "getattr"} => call.len \in Nat

TypeInv == TypeOK /\ HandleInv /\ CallInv

LEMMA TypeParts ==
  TypeOK <=>
    /\ HandleType /\ WalkType /\ OutType
    /\ pc \in {"idle", "lines", "hits", "names", "attrs"}
    /\ call \in Call /\ fault \in BOOLEAN
BY DEF TypeOK, HandleType, WalkType, OutType, Answers

LEMMA NoIndexType == NoIndex \in IndexTable
BY DEF NoIndex, IndexTable

(* Every database a handle holds is a database.                             *)
LEMMA DatabaseType ==
  /\ EmptyDatabase \in Database
  /\ Loadable \cup {EmptyDatabase} \subseteq Database
<1>1. EmptyDatabase \in Database
  BY DEF EmptyDatabase, Database
<1>2. Loadable \subseteq Database
  BY LoadableAssumption
<1> QED
  BY <1>1, <1>2

LEMMA WalkDoneType ==
  ASSUME WalkDone
  PROVE  WalkType'
BY NoIndexType DEF WalkDone, WalkType

LEMMA ReturnsType ==
  ASSUME NEW r \in Int, NEW xs \in Answers,
         NEW vs \in Seq(Result \cup {NULL}), Returns(r, xs, vs)
  PROVE  pc' = "idle" /\ WalkType' /\ OutType'
BY WalkDoneType DEF Returns, OutType, Errors

LEMMA FailsType ==
  ASSUME NEW e \in Errors, Fails(e)
  PROVE  pc' = "idle" /\ WalkType' /\ OutType'
<1>1. <<>> \in Answers /\ <<>> \in Seq(Result \cup {NULL}) /\ -1 \in Int
  BY DEF Answers
<1> QED
  BY <1>1, WalkDoneType DEF Fails, OutType

LEMMA WalkStarts ==
  ASSUME NEW where, Walk(where)
  PROVE  /\ pc' = where /\ WalkType' /\ OutType'
         /\ fault' = FALSE
<1>1. <<>> \in Answers /\ <<>> \in Seq(Result \cup {NULL}) /\ 0 \in Int
  BY DEF Answers
<1> QED
  BY <1>1, WalkDoneType DEF Walk, OutType, Errors

LEMMA ResetType ==
  ASSUME HandleType, HandleInv, NEW h \in Handle, Reset(h),
         live' = live \/ \E b \in BOOLEAN : live' = [live EXCEPT ![h] = b]
  PROVE  HandleType' /\ HandleInv'
<1>1. HandleType'
  BY NoIndexType DEF Reset, HandleType, Flags
<1>2. HandleInv'
  BY DEF Reset, HandleType, HandleInv
<1> QED
  BY <1>1, <1>2

(* A call that ends, or never runs a loop.                                  *)
LEMMA Ended ==
  ASSUME HandleType', HandleInv', WalkType', OutType', pc' = "idle",
         call' \in Call, fault' \in BOOLEAN
  PROVE  TypeInv'
<1>1. TypeOK'
  BY DEF TypeOK, HandleType, WalkType, OutType, Answers
<1>2. CallInv'
  BY DEF CallInv
<1> QED
  BY <1>1, <1>2 DEF TypeInv

(* A step of a loop that goes on.                                           *)
LEMMA GoesOn ==
  ASSUME TypeInv, UNCHANGED <<handlevars, pc, call>>,
         WalkType', OutType', fault' \in BOOLEAN
  PROVE  TypeInv'
<1> USE DEF handlevars, indexvars
<1>1. TypeOK'
  BY DEF TypeInv, TypeOK, WalkType, OutType, Answers
<1>2. HandleInv'
  BY DEF TypeInv, HandleInv
<1>3. CallInv'
  BY DEF TypeInv, CallInv, H, Indexing, Indexed
<1> QED
  BY <1>1, <1>2, <1>3 DEF TypeInv

LEMMA SameHandles ==
  ASSUME TypeInv, UNCHANGED handlevars
  PROVE  HandleType' /\ HandleInv'
BY DEF TypeInv, TypeOK, HandleType, HandleInv, handlevars, indexvars

(* A call that ends and leaves the handles alone.                           *)
LEMMA EndsSame ==
  ASSUME TypeInv, UNCHANGED handlevars, WalkType', OutType', pc' = "idle",
         call' \in Call, fault' \in BOOLEAN
  PROVE  TypeInv'
BY SameHandles, Ended

LEMMA InvokeType ==
  ASSUME NEW o \in Ops, NEW h \in Handle, NEW k \in Handle,
         NEW n \in Node \cup {NULL}, NEW a \in Attr \cup {NULL},
         NEW v \in Result \cup {NULL}, NEW l \in Nat \cup {NULL},
         Invoke(o, h, k, n, a, v, l)
  PROVE  call' \in Call
BY DEF Invoke, Call

LEMMA NoneType ==
  /\ <<>> \in Answers /\ <<>> \in Seq(Result \cup {NULL})
  /\ 0 \in Int /\ 1 \in Int /\ 0 \in Nat
BY DEF Answers

LEMMA InitType == Init => TypeInv
<1> SUFFICES ASSUME Init PROVE TypeInv
  OBVIOUS
<1>1. HandleType
  BY NoIndexType DEF Init, HandleType, Flags
<1>2. HandleInv
  BY DEF Init, HandleInv
<1>3. WalkType
  BY NoIndexType DEF Init, WalkType
<1>7. OutType
  BY NoneType DEF Init, OutType, Errors
<1>8. fault \in BOOLEAN
  BY DEF Init
<1>4. call \in Call
  BY DEF Init, Call, Ops
<1>5. pc = "idle"
  BY DEF Init
<1>6. CallInv
  BY <1>5 DEF CallInv
<1> QED
  BY <1>1, <1>2, <1>3, <1>4, <1>5, <1>6, <1>7, <1>8, TypeParts DEF TypeInv

(***************************************************************************)
(* Types: the calls that manage handles.                                   *)
(***************************************************************************)
LEMMA CreateDestroyType ==
  ASSUME TypeInv, NEW h \in Handle, HandleCreate(h) \/ HandleDestroy(h)
  PROVE  TypeInv'
<1>1. HandleType /\ HandleInv
  BY TypeParts DEF TypeInv
<1>2. Reset(h) /\ \E b \in BOOLEAN : live' = [live EXCEPT ![h] = b]
  BY DEF HandleCreate, HandleDestroy
<1>3. HandleType' /\ HandleInv'
  BY <1>1, <1>2, ResetType
<1>4. pc' = "idle" /\ WalkType' /\ OutType' /\ fault' \in BOOLEAN
  BY NoneType, ReturnsType DEF HandleCreate, HandleDestroy
<1>5. call' \in Call
  BY NoneType, InvokeType DEF HandleCreate, HandleDestroy, Ops
<1> QED
  BY <1>3, <1>4, <1>5, Ended

LEMMA LoadType ==
  ASSUME TypeInv, NEW h \in Handle,
         LoadFails(h) \/ \E d \in Loadable : LoadSucceeds(h, d)
  PROVE  TypeInv'
<1>1. HandleType /\ HandleInv
  BY TypeParts DEF TypeInv
<1>2. call' \in Call
  BY NoneType, InvokeType DEF LoadFails, LoadSucceeds, Ops
<1>3. CASE LoadFails(h)
  <2>1. HandleType' /\ HandleInv'
    BY <1>1, <1>3, ResetType DEF LoadFails
  <2>2. pc' = "idle" /\ WalkType' /\ OutType' /\ fault' \in BOOLEAN
    BY <1>3, FailsType DEF LoadFails, Errors
  <2> QED
    BY <1>2, <2>1, <2>2, Ended
<1>4. ASSUME NEW d \in Loadable, LoadSucceeds(h, d)
      PROVE  TypeInv'
  <2>1. HandleType'
    BY <1>1, <1>4 DEF LoadSucceeds, HandleType, indexvars
  <2>2. HandleInv'
    BY <1>1, <1>4 DEF LoadSucceeds, HandleType, HandleInv, indexvars, Idle
  <2>3. pc' = "idle" /\ WalkType' /\ OutType' /\ fault' \in BOOLEAN
    BY <1>4, NoneType, ReturnsType DEF LoadSucceeds
  <2> QED
    BY <1>2, <2>1, <2>2, <2>3, Ended
<1> QED
  BY <1>3, <1>4

LEMMA SetFlagsType ==
  ASSUME TypeInv, NEW h \in Handle, NEW f \in Flags, SetFlags(h, f)
  PROVE  TypeInv'
<1>1. HandleType /\ HandleInv
  BY TypeParts DEF TypeInv
<1>2. HandleType' /\ HandleInv'
  BY <1>1 DEF SetFlags, HandleType, HandleInv, indexvars
<1>3. pc' = "idle" /\ WalkType' /\ OutType' /\ fault' \in BOOLEAN
  BY NoneType, ReturnsType DEF SetFlags
<1>4. call' \in Call
  BY NoneType, InvokeType DEF SetFlags, Ops
<1> QED
  BY <1>2, <1>3, <1>4, Ended

(* The scan over the lines begins.                                          *)
LEMMA LinesStart ==
  ASSUME HandleType', HandleInv', call' \in Call, Walk("lines"),
         is_loaded[H]',
         call'.op \in {"getnodes", "isattrval", "index_attrvals", "copy"},
         call'.attr \in Attr,
         call'.op \in {"index_attrvals", "copy"} => call'.val = NULL,
         call'.op = "getnodes" => call'.len \in Nat
  PROVE  TypeInv'
<1>1. pc' = "lines" /\ WalkType' /\ OutType' /\ fault' = FALSE
  BY WalkStarts
<1>2. TypeOK'
  BY <1>1 DEF TypeOK, HandleType, WalkType, OutType, Answers
<1>3. CallInv'
  BY <1>1 DEF CallInv, Indexing, H
<1> QED
  BY <1>2, <1>3 DEF TypeInv

LEMMA CopyType ==
  ASSUME TypeInv, NEW h \in Handle, NEW k \in Handle, Copy(h, k)
  PROVE  TypeInv'
<1>1. HandleType /\ HandleInv
  BY TypeParts DEF TypeInv
<1>2. attrval_index_attr[h] \in Attr \cup {NULL}
  BY <1>1 DEF HandleType
<1>3. call' \in Call
  BY <1>2, NoneType, InvokeType DEF Copy, Ops
<1>4. HandleType'
  BY <1>1 DEF Copy, HandleType, indexvars
<1>5. HandleInv'
  BY <1>1 DEF Copy, HandleType, HandleInv, indexvars, Idle, Ready
<1>6. is_loaded[H]'
  BY <1>1 DEF Copy, HandleType, H, Invoke
<1>7. CASE attrval_index_attr[h] = NULL
  <2>1. pc' = "idle" /\ WalkType' /\ OutType' /\ fault' \in BOOLEAN
    BY <1>7, NoneType, ReturnsType DEF Copy
  <2> QED
    BY <1>3, <1>4, <1>5, <2>1, Ended
<1>8. CASE attrval_index_attr[h] # NULL
  BY <1>2, <1>3, <1>4, <1>5, <1>6, <1>8, LinesStart DEF Copy, Invoke
<1> QED
  BY <1>7, <1>8

LEMMA IndexAttrValsType ==
  ASSUME TypeInv, NEW h \in Handle, NEW a \in Attr, IndexAttrVals(h, a)
  PROVE  TypeInv'
<1>1. call' \in Call
  BY NoneType, InvokeType DEF IndexAttrVals, Ops
<1>2. UNCHANGED handlevars
  BY DEF IndexAttrVals
<1>3. HandleType' /\ HandleInv'
  BY <1>2, SameHandles
<1>4. CASE Fails("NOTFOUND") /\ fault' = FALSE
  BY <1>1, <1>2, <1>4, FailsType, EndsSame DEF Errors
<1>5. CASE Returns(0, <<>>, <<>>) /\ fault' = FALSE
  BY <1>1, <1>2, <1>5, NoneType, ReturnsType, EndsSame
<1>6. CASE Walk("lines")
  <2>1. is_loaded[H]'
    BY <1>2 DEF IndexAttrVals, Ready, H, Invoke, handlevars
  <2> QED
    BY <1>1, <1>3, <1>6, <2>1, LinesStart DEF IndexAttrVals, Invoke
<1> QED
  BY <1>4, <1>5, <1>6 DEF IndexAttrVals

(***************************************************************************)
(* Types: the questions.                                                   *)
(***************************************************************************)
LEMMA RefusedType ==
  ASSUME TypeInv, NEW h \in Handle, NEW o \in Ops,
         NotLoaded(h, o) \/ WrongParameters(h, o) \/ OutOfMemory(h, o)
  PROVE  TypeInv'
<1>1. call' \in Call
  BY NoneType, InvokeType DEF NotLoaded, WrongParameters, OutOfMemory
<1>2. pc' = "idle" /\ WalkType' /\ OutType' /\ fault' \in BOOLEAN
  BY FailsType DEF NotLoaded, WrongParameters, OutOfMemory, Errors
<1>3. UNCHANGED handlevars
  BY DEF NotLoaded, WrongParameters, OutOfMemory
<1> QED
  BY <1>1, <1>2, <1>3, EndsSame

LEMMA IsNodeIsAttrType ==
  ASSUME TypeInv, NEW h \in Handle,
         \/ \E n \in Node : IsNode(h, n)
         \/ \E a \in Attr : IsAttr(h, a)
  PROVE  TypeInv'
<1>1. call' \in Call
  BY NoneType, InvokeType DEF IsNode, IsAttr, Ops
<1>2. pc' = "idle" /\ WalkType' /\ OutType' /\ fault' \in BOOLEAN
  BY NoneType, ReturnsType DEF IsNode, IsAttr
<1>3. UNCHANGED handlevars
  BY DEF IsNode, IsAttr
<1> QED
  BY <1>1, <1>2, <1>3, EndsSame

(* A handle's lines have their type.                                        *)
LEMMA HostsType ==
  ASSUME TypeInv, NEW h \in Handle
  PROVE  /\ db[h] \in Database
         /\ db[h].genders_hosts \in Seq(GendersHosts)
         /\ Len(db[h].genders_hosts) \in Nat
         /\ \A i \in 1 .. Len(db[h].genders_hosts) :
              /\ db[h].genders_hosts[i] \in GendersHosts
              /\ db[h].genders_hosts[i].hl \in Seq(Node)
              /\ Len(db[h].genders_hosts[i].hl) \in Nat
              /\ NodesIn(db[h].genders_hosts[i].hl) \subseteq Node
              /\ \A a \in Attr : db[h].genders_hosts[i].attrval_index[a]
                                   \in Value \cup {NoValue, Absent}
<1>1. db[h] \in Database
  BY DatabaseType, TypeParts DEF TypeInv, HandleType
<1>2. db[h].genders_hosts \in Seq(GendersHosts)
  BY <1>1 DEF Database
<1>3. \A g \in GendersHosts :
         /\ g.hl \in Seq(Node) /\ Len(g.hl) \in Nat
         /\ NodesIn(g.hl) \subseteq Node
         /\ \A a \in Attr : g.attrval_index[a] \in Value \cup {NoValue, Absent}
  BY DEF GendersHosts, AttrVals, NodesIn
<1> QED
  BY <1>1, <1>2, <1>3, SMTT(30)

(* What a value reads as is a string, and not the key of NULL values.       *)
LEMMA ReadingType ==
  ASSUME NEW f, NEW v \in Value, NEW n \in Node
  PROVE  Reading(f, v, n) \in Result /\ Reading(f, v, n) # NOVALUE
BY HandleAssumption DEF Reading

LEMMA AnswerType ==
  ASSUME TypeInv, NEW h \in Handle, NEW n \in Node, NEW a \in Attr,
         NEW val \in Result \cup {NULL}, NEW len, Answer(h, n, a, val, len)
  PROVE  pc' = "idle" /\ WalkType' /\ OutType'
<1>1. CASE \E e \in Errors : Fails(e)
  BY <1>1, FailsType
<1>2. CASE \E r \in Int : Returns(r, <<>>, <<>>)
  BY <1>2, NoneType, ReturnsType
<1>3. CASE \E r \in Int, x \in Result : Returns(r, <<x>>, <<>>)
  <2>1. \A x \in Result : <<x>> \in Answers
    BY DEF Answers
  <2> QED
    BY <1>3, <2>1, NoneType, ReturnsType
<1>4. ASSUME NEW i \in FirstLine(h, n, a),
             NEW v, v = db[h].genders_hosts[i].attrval_index[a], v # NoValue
      PROVE  v \in Value
  <2>1. /\ i \in 1 .. Len(db[h].genders_hosts)
        /\ db[h].genders_hosts[i].attrval_index[a] # Absent
    BY DEF FirstLine, Gives
  <2> QED
    BY <1>4, <2>1, HostsType
<1> QED
  BY <1>1, <1>2, <1>3, <1>4, ReadingType, NoneType DEF Answer, Errors

LEMMA TestAttrType ==
  ASSUME TypeInv, NEW h \in Handle, NEW n \in Node, NEW a \in Attr,
         \/ \E l \in Length \cup {NULL} : TestAttr(h, n, a, l)
         \/ \E v \in Result \cup {NULL} : TestAttrVal(h, n, a, v)
  PROVE  TypeInv'
<1>1. db[h].maxvallen + 1 \in Nat
  BY HostsType DEF Database
<1>2. call' \in Call
  BY <1>1, HandleAssumption, InvokeType DEF TestAttr, TestAttrVal, Ops
<1>3. pc' = "idle" /\ WalkType' /\ OutType'
  BY AnswerType DEF TestAttr, TestAttrVal
<1>4. UNCHANGED handlevars /\ fault' \in BOOLEAN
  BY DEF TestAttr, TestAttrVal
<1> QED
  BY <1>2, <1>3, <1>4, EndsSame

LEMMA GetNodesType ==
  ASSUME TypeInv, NEW h \in Handle, NEW a \in Attr \cup {NULL},
         NEW v \in Result \cup {NULL}, NEW l \in Length, GetNodes(h, a, v, l)
  PROVE  TypeInv'
<1>1. l \in Nat /\ call' \in Call
  BY HandleAssumption, InvokeType DEF GetNodes, Ops
<1>2. UNCHANGED handlevars /\ HandleType' /\ HandleInv'
  BY SameHandles DEF GetNodes
<1>3. is_loaded[H]'
  BY <1>2 DEF GetNodes, Ready, H, Invoke, handlevars
<1>4. CASE Walk("lines") /\ a # NULL
  BY <1>1, <1>2, <1>3, <1>4, LinesStart DEF GetNodes, Invoke
<1>5. ASSUME NEW where \in {"hits", "names"}, Walk(where),
             where = "hits" => Indexed(h, a, v),
             where = "names" => a = NULL
      PROVE  TypeInv'
  <2>1. pc' = where /\ WalkType' /\ OutType' /\ fault' = FALSE
    BY <1>5, WalkStarts
  <2>2. TypeOK'
    BY <1>1, <1>2, <2>1 DEF TypeOK, HandleType, WalkType, OutType, Answers
  <2>3. CallInv'
    BY <1>1, <1>2, <1>3, <1>5, <2>1
    DEF CallInv, GetNodes, Invoke, Indexed, H, handlevars, indexvars
  <2> QED
    BY <1>2, <2>2, <2>3 DEF TypeInv
<1> QED
  BY <1>4, <1>5 DEF GetNodes, Indexed

LEMMA IsAttrValType ==
  ASSUME TypeInv, NEW h \in Handle, NEW a \in Attr, NEW v \in Result,
         IsAttrVal(h, a, v)
  PROVE  TypeInv'
<1>1. call' \in Call
  BY NoneType, InvokeType DEF IsAttrVal, Ops
<1>2. UNCHANGED handlevars /\ HandleType' /\ HandleInv'
  BY SameHandles DEF IsAttrVal
<1>3. CASE Walk("lines")
  <2>1. is_loaded[H]'
    BY <1>2 DEF IsAttrVal, Ready, H, Invoke, handlevars
  <2> QED
    BY <1>1, <1>2, <1>3, <2>1, LinesStart DEF IsAttrVal, Invoke
<1>4. CASE fault' = FALSE /\ \E r \in {0, 1} : Returns(r, <<>>, <<>>)
  BY <1>1, <1>2, <1>4, NoneType, ReturnsType, EndsSame
<1> QED
  BY <1>3, <1>4 DEF IsAttrVal

LEMMA GetAttrType ==
  ASSUME TypeInv, NEW h \in Handle, NEW n \in Node, NEW l \in Length,
         GetAttr(h, n, l)
  PROVE  TypeInv'
<1>1. l \in Nat /\ call' \in Call
  BY HandleAssumption, InvokeType DEF GetAttr, Ops
<1>2. UNCHANGED handlevars /\ HandleType' /\ HandleInv'
  BY SameHandles DEF GetAttr
<1>3. CASE n \notin db[h].hostnames
  BY <1>1, <1>2, <1>3, FailsType, EndsSame DEF GetAttr, Errors
<1>4. CASE n \in db[h].hostnames
  <2>1. pc' = "attrs" /\ WalkType' /\ OutType' /\ fault' = FALSE
    BY <1>4, WalkStarts DEF GetAttr
  <2>2. TypeOK'
    BY <1>1, <1>2, <2>1 DEF TypeOK, HandleType, WalkType, OutType, Answers
  <2>3. CallInv'
    BY <1>1, <1>2, <1>4, <2>1
    DEF CallInv, GetAttr, Ready, Invoke, H, handlevars, indexvars
  <2> QED
    BY <1>2, <2>2, <2>3 DEF TypeInv
<1> QED
  BY <1>3, <1>4

(***************************************************************************)
(* Types: the loops.                                                       *)
(***************************************************************************)

(* The line, the value and the node of the scan.                            *)
LEMMA ScanType ==
  ASSUME TypeInv, pc = "lines"
  PROVE  /\ H \in Handle /\ call.attr \in Attr
         /\ Hosts \in Seq(GendersHosts) /\ Len(Hosts) \in Nat
         /\ line \in Nat \ {0} /\ next \in Nat \ {0}
         /\ line <= Len(Hosts) =>
              /\ line \in 1 .. Len(Hosts)
              /\ Gh.hl \in Seq(Node) /\ Len(Gh.hl) \in Nat
              /\ Av \in Value \cup {NoValue, Absent}
              /\ next <= Len(Gh.hl) => next \in 1 .. Len(Gh.hl) /\ Nd \in Node
<1>1. H \in Handle /\ call.attr \in Attr
  BY DEF TypeInv, TypeOK, CallInv, Call, H
<1>2. line \in Nat \ {0} /\ next \in Nat \ {0}
  BY DEF TypeInv, TypeOK
<1>3. Hosts \in Seq(GendersHosts) /\ Len(Hosts) \in Nat
  BY <1>1, HostsType DEF Hosts
<1>4. ASSUME line <= Len(Hosts)
      PROVE  /\ line \in 1 .. Len(Hosts)
             /\ Gh.hl \in Seq(Node) /\ Len(Gh.hl) \in Nat
             /\ Av \in Value \cup {NoValue, Absent}
  BY <1>1, <1>2, <1>3, <1>4, HostsType DEF Hosts, Gh, Av
<1>5. ASSUME line <= Len(Hosts), next <= Len(Gh.hl)
      PROVE  next \in 1 .. Len(Gh.hl) /\ Nd \in Node
  BY <1>2, <1>4, <1>5 DEF Nd
<1> QED
  BY <1>1, <1>2, <1>3, <1>4, <1>5

LEMMA ReadableType ==
  ASSUME TypeInv, OnNode
  PROVE  /\ Nd \in Node
         /\ Av # NoValue => Av \in Value /\ Val \in Result /\ Val # NOVALUE
         /\ Key \in Result
<1>1. Nd \in Node /\ Av \in Value \cup {NoValue}
  BY ScanType DEF OnNode, OnLine, Relevant
<1>2. Av # NoValue => Av \in Value /\ Val \in Result /\ Val # NOVALUE
  BY <1>1, ReadingType DEF Val
<1> QED
  BY <1>1, <1>2, HandleAssumption DEF Key

LEMMA StoreType ==
  ASSUME TypeInv, NEW x \in Node, Store(x),
         UNCHANGED <<handlevars, call, fault>>
  PROVE  TypeInv'
<1>1. CASE Fails("OVERFLOW")
  <2>1. call' \in Call /\ fault' \in BOOLEAN
    BY DEF TypeInv, TypeOK
  <2> QED
    BY <1>1, <2>1, FailsType, EndsSame DEF Errors
<1>2. CASE /\ found' = Append(found, x) /\ next' = next + 1
           /\ UNCHANGED <<pc, line, seen, index, vals, rv, error>>
  <2>1. found' \in Answers
    BY <1>2 DEF TypeInv, TypeOK, Answers
  <2>2. WalkType' /\ OutType'
    BY <1>2, <2>1 DEF TypeInv, TypeOK, WalkType, OutType
  <2>3. fault' \in BOOLEAN
    BY DEF TypeInv, TypeOK
  <2> QED
    BY <1>2, <2>2, <2>3, GoesOn
<1> QED
  BY <1>1, <1>2 DEF Store

(* Memory runs out, or a value is too long.                                 *)
LEMMA GivesUpType ==
  ASSUME TypeInv, pc # "idle", NEW e \in Errors, Fails(e),
         IF call.op = "copy" THEN Reset(H) /\ live' = [live EXCEPT ![H] = FALSE]
                             ELSE UNCHANGED handlevars,
         UNCHANGED call, fault' \in BOOLEAN
  PROVE  TypeInv'
<1>1. HandleType /\ HandleInv /\ H \in Handle /\ call' \in Call
  BY TypeParts DEF TypeInv, Call, H
<1>2. HandleType' /\ HandleInv'
  BY <1>1, ResetType, SameHandles
<1> QED
  BY <1>1, <1>2, FailsType, Ended

LEMMA LinesType ==
  ASSUME TypeInv,
         \/ NextLine \/ ValueTooLong \/ CollectNode \/ PassNode
         \/ FindValue \/ IndexNode \/ CutLineShort
  PROVE  TypeInv'
<1>1. call \in Call /\ fault \in BOOLEAN /\ WalkType /\ OutType
  BY TypeParts DEF TypeInv
<1>2. CASE NextLine \/ PassNode \/ CutLineShort
  <2>1. WalkType'
    BY <1>1, <1>2 DEF NextLine, PassNode, CutLineShort, WalkType
  <2>2. OutType'
    BY <1>1, <1>2 DEF NextLine, PassNode, CutLineShort, OutType, outvars
  <2>3. fault' \in BOOLEAN
    BY <1>1, <1>2 DEF NextLine, PassNode, CutLineShort
  <2> QED
    BY <1>2, <2>1, <2>2, <2>3, GoesOn DEF NextLine, PassNode, CutLineShort, outvars
<1>3. CASE ValueTooLong
  BY <1>1, <1>3, GivesUpType DEF ValueTooLong, OnNode, OnLine, Errors
<1>4. CASE CollectNode
  BY <1>4, StoreType, ReadableType DEF CollectNode, Readable
<1>5. CASE FindValue
  BY <1>1, <1>5, NoneType, ReturnsType, EndsSame DEF FindValue
<1>6. CASE IndexNode
  <2>1. Nd \in Node /\ Key \in Result
    BY <1>6, ReadableType DEF IndexNode, Readable
  <2>2. index' \in IndexTable
    BY <1>1, <1>6, <2>1 DEF IndexNode, WalkType, IndexTable
  <2>3. WalkType' /\ OutType' /\ fault' \in BOOLEAN
    BY <1>1, <1>6, <2>2 DEF IndexNode, WalkType, OutType, outvars
  <2> QED
    BY <1>6, <2>3, GoesOn DEF IndexNode
<1> QED
  BY <1>2, <1>3, <1>4, <1>5, <1>6

LEMMA FoundType ==
  ASSUME TypeInv
  PROVE  found \in Answers /\ Len(found) \in Int
BY DEF TypeInv, TypeOK, Answers

LEMMA ReturnType ==
  ASSUME TypeInv,
         ScanReturns \/ ListReturns \/ AttrsReturn \/ CutListShort
  PROVE  TypeInv'
<1>1. call \in Call /\ fault \in BOOLEAN /\ vals \in Seq(Result \cup {NULL})
  BY TypeParts DEF TypeInv, OutType
<1>2. pc' = "idle" /\ WalkType' /\ OutType'
  BY <1>1, FoundType, NoneType, ReturnsType
  DEF ScanReturns, ListReturns, AttrsReturn, CutListShort
<1>3. UNCHANGED <<handlevars, call>> /\ fault' \in BOOLEAN
  BY <1>1 DEF ScanReturns, ListReturns, AttrsReturn, CutListShort
<1> QED
  BY <1>1, <1>2, <1>3, EndsSame

LEMMA IndexReturnsType ==
  ASSUME TypeInv, IndexReturns
  PROVE  TypeInv'
<1>1. /\ HandleType /\ HandleInv /\ H \in Handle /\ call.attr \in Attr
      /\ is_loaded[H] /\ index \in IndexTable
      /\ call' \in Call /\ fault' \in BOOLEAN
  BY TypeParts DEF TypeInv, WalkType, CallInv, IndexReturns, LinesDone, Call, H
<1>2. HandleType'
  BY <1>1 DEF IndexReturns, HandleType
<1>3. HandleInv'
  BY <1>1 DEF IndexReturns, HandleType, HandleInv
<1>4. pc' = "idle" /\ WalkType' /\ OutType'
  BY NoneType, ReturnsType DEF IndexReturns
<1> QED
  BY <1>1, <1>2, <1>3, <1>4, Ended

LEMMA HitsType ==
  ASSUME TypeInv, CollectHit \/ CollectName
  PROVE  TypeInv'
<1>1. H \in Handle /\ next \in Nat \ {0}
  BY DEF TypeInv, TypeOK, Call, H
<1>2. CASE CollectHit
  <2>1. Hits \in Seq(Node)
    BY <1>1, <1>2 DEF CollectHit, Hits, TypeInv, TypeOK, CallInv, IndexTable
  <2>2. Hits[next] \in Node
    BY <1>1, <1>2, <2>1 DEF CollectHit
  <2> QED
    BY <1>2, <2>2, StoreType DEF CollectHit
<1>3. CASE CollectName
  <2>1. Unlisted \subseteq Node
    BY <1>1, HostsType DEF Unlisted, Database
  <2> QED
    BY <1>3, <2>1, StoreType DEF CollectName
<1> QED
  BY <1>2, <1>3

LEMMA AttrsType ==
  ASSUME TypeInv, CollectAttr \/ NextAttrLine
  PROVE  TypeInv'
<1>1. /\ H \in Handle /\ call \in Call /\ WalkType /\ OutType
      /\ line \in Nat /\ next \in Nat
  BY TypeParts DEF TypeInv, Call, H, WalkType
<1>2. fault' \in BOOLEAN
  BY DEF TypeInv, TypeOK, CollectAttr, NextAttrLine
<1>3. CASE NextAttrLine
  <2>1. WalkType'
    BY <1>1, <1>3 DEF NextAttrLine, WalkType
  <2>2. OutType'
    BY <1>1, <1>3 DEF NextAttrLine, OutType, outvars
  <2> QED
    BY <1>2, <1>3, <2>1, <2>2, GoesOn DEF NextAttrLine
<1>4. CASE CollectAttr
  <2>1. call' \in Call /\ UNCHANGED <<handlevars, call>>
    BY <1>1, <1>4 DEF CollectAttr
  <2>2. CASE Fails("OVERFLOW") \/ Fails("INTERNAL")
    BY <1>2, <2>1, <2>2, FailsType, EndsSame DEF Errors
  <2>3. ASSUME NEW a \in LineAttrs \ seen, NEW v,
               v = Gh.attrval_index[a],
               found' = Append(found, a),
               vals' = Append(vals, IF v = NoValue THEN NULL
                                    ELSE Reading(flags[H], v, call.node)),
               seen' = seen \cup {a},
               UNCHANGED <<pc, line, next, index, rv, error>>
        PROVE  TypeInv'
    <3>1. line \in 1 .. Len(db[H].genders_hosts) /\ call.node \in Node
      BY <1>1, <1>4, HostsType
      DEF CollectAttr, OnAttrs, Hosts, TypeInv, CallInv, WalkType, Database
    <3>2. a \in Attr /\ v \in Value \cup {NoValue}
      BY <1>1, <2>3, <3>1, HostsType DEF LineAttrs, AttrsIn, Gh, Hosts
    <3>3. vals' \in Seq(Result \cup {NULL})
      BY <1>1, <2>3, <3>1, <3>2, ReadingType DEF OutType
    <3>4. found' \in Answers
      BY <1>1, <2>3, <3>2 DEF OutType, Answers
    <3>5. WalkType' /\ OutType'
      BY <1>1, <2>3, <3>2, <3>3, <3>4 DEF WalkType, OutType
    <3> QED
      BY <1>2, <2>1, <2>3, <3>5, GoesOn
  <2> QED
    BY <1>4, <2>2, <2>3 DEF CollectAttr
<1> QED
  BY <1>3, <1>4

LEMMA NoMemoryType ==
  ASSUME TypeInv, NoMemory
  PROVE  TypeInv'
BY GivesUpType DEF NoMemory, Errors

LEMMA NextType == TypeInv /\ [Next]_vars => TypeInv'
<1> SUFFICES ASSUME TypeInv, [Next]_vars PROVE TypeInv'
  OBVIOUS
<1>1. CASE Loop
  BY <1>1, LinesType, ReturnType, IndexReturnsType, HitsType, AttrsType DEF Loop
<1>2. CASE Faults
  BY <1>2, RefusedType, NoMemoryType, LinesType, ReturnType
  DEF Faults, Loops, Ops
<1>3. CASE Management
  BY <1>3, CreateDestroyType, LoadType, SetFlagsType, IndexAttrValsType, CopyType
  DEF Management
<1>4. CASE Questions
  BY <1>4, RefusedType, IsNodeIsAttrType, TestAttrType, IsAttrValType,
     GetNodesType, GetAttrType
  DEF Questions, Loops, Ops
<1>5. CASE UNCHANGED vars
  <2>1. TypeOK'
    BY <1>5 DEF TypeInv, TypeOK, vars, handlevars, indexvars, walkvars, outvars
  <2>2. HandleInv'
    BY <1>5 DEF TypeInv, HandleInv, vars, handlevars, indexvars
  <2>3. CallInv'
    BY <1>5 DEF TypeInv, CallInv, H, Indexing, Indexed, vars, handlevars,
                indexvars
  <2> QED
    BY <2>1, <2>2, <2>3 DEF TypeInv
<1> QED
  BY <1>1, <1>2, <1>3, <1>4, <1>5 DEF Next

(* TypeOK: whatever is loaded and asked, every variable has its type.       *)
THEOREM TypeCorrect == Spec => []TypeOK
<1>1. TypeInv => TypeOK
  BY DEF TypeInv
<1> QED
  BY <1>1, InitType, NextType, PTL DEF Spec

(***************************************************************************)
(* Proofs about GendersHandle: the indexes are right, for all databases.   *)
(* A scan over the lines visits pairs of a node and its value; the scan    *)
(* that is done has visited what the database's table says.                *)
(***************************************************************************)
(***************************************************************************)
(* What a scan over the lines has visited.                                 *)
(***************************************************************************)

(* The nodes with their values for a, on the lines before line l and before *)
(* node m of line l, those without a value only if v is NULL.               *)
Values == Value \cup {NoValue}
VisitedIn(hosts, a, v, l, m) ==
  {p \in Node \X Values :
     \E i \in 1 .. Len(hosts) : \E j \in 1 .. Len(hosts[i].hl) :
        /\ i < l \/ (i = l /\ j < m)
        /\ p[1] = hosts[i].hl[j]
        /\ p[2] = hosts[i].attrval_index[a]
        /\ v # NULL => p[2] # NoValue}

LEMMA LineType ==
  ASSUME NEW hosts \in Seq(GendersHosts), NEW a \in Attr,
         NEW i \in 1 .. Len(hosts)
  PROVE  /\ hosts[i].hl \in Seq(Node) /\ Len(hosts[i].hl) \in Nat
         /\ \A j \in 1 .. Len(hosts[i].hl) : hosts[i].hl[j] \in Node
         /\ hosts[i].attrval_index[a] \in Values \cup {Absent}
<1>1. hosts[i] \in GendersHosts
  OBVIOUS
<1> QED
  BY <1>1 DEF GendersHosts, AttrVals, Values

LEMMA NothingVisited ==
  ASSUME NEW hosts \in Seq(GendersHosts), NEW a \in Attr, NEW v
  PROVE  VisitedIn(hosts, a, v, 1, 1) = {}
<1>1. \A i \in 1 .. Len(hosts) : \A j \in 1 .. Len(hosts[i].hl) :
         ~ (i < 1 \/ (i = 1 /\ j < 1))
  BY LineType
<1> QED
  BY <1>1 DEF VisitedIn

LEMMA VisitNode ==
  ASSUME NEW hosts \in Seq(GendersHosts), NEW a \in Attr, NEW v,
         NEW l \in 1 .. Len(hosts), NEW m \in 1 .. Len(hosts[l].hl),
         hosts[l].attrval_index[a] # Absent,
         v # NULL => hosts[l].attrval_index[a] # NoValue
  PROVE  VisitedIn(hosts, a, v, l, m + 1) =
           VisitedIn(hosts, a, v, l, m)
             \cup {<<hosts[l].hl[m], hosts[l].attrval_index[a]>>}
<1> DEFINE w == hosts[l].attrval_index[a]
           n == hosts[l].hl[m]
<1>1. n \in Node /\ w \in Values
  BY LineType
<1>2. \A i \in 1 .. Len(hosts) : \A j \in 1 .. Len(hosts[i].hl) :
         (i < l \/ (i = l /\ j < m + 1)) <=>
           (i < l \/ (i = l /\ j < m)) \/ (i = l /\ j = m)
  BY LineType
<1>3. ASSUME NEW p \in Node \X Values
      PROVE  p \in VisitedIn(hosts, a, v, l, m + 1) <=>
               p \in VisitedIn(hosts, a, v, l, m) \/ p = <<n, w>>
  <2>1. p = <<n, w>> <=> p[1] = n /\ p[2] = w
    BY <1>3
  <2>2. CASE p = <<n, w>>
    <3>1. p[1] = hosts[l].hl[m] /\ p[2] = hosts[l].attrval_index[a]
      BY <2>1, <2>2
    <3> QED
      BY <1>2, <1>3, <2>2, <3>1 DEF VisitedIn
  <2>3. CASE p # <<n, w>>
    <3>1. \A i \in 1 .. Len(hosts) : \A j \in 1 .. Len(hosts[i].hl) :
             /\ p[1] = hosts[i].hl[j] /\ p[2] = hosts[i].attrval_index[a]
             => ~ (i = l /\ j = m)
      BY <2>1, <2>3
    <3> QED
      BY <1>2, <1>3, <2>3, <3>1 DEF VisitedIn
  <2> QED
    BY <2>2, <2>3
<1>4. <<n, w>> \in Node \X Values
  BY <1>1
<1>5. VisitedIn(hosts, a, v, l, m + 1) \subseteq Node \X Values
      /\ VisitedIn(hosts, a, v, l, m) \subseteq Node \X Values
  BY DEF VisitedIn
<1> QED
  BY <1>3, <1>4, <1>5

LEMMA VisitLine ==
  ASSUME NEW hosts \in Seq(GendersHosts), NEW a \in Attr, NEW v,
         NEW l \in 1 .. Len(hosts), NEW m \in Nat,
         \/ hosts[l].attrval_index[a] = Absent
         \/ v # NULL /\ hosts[l].attrval_index[a] = NoValue
         \/ m > Len(hosts[l].hl)
  PROVE  VisitedIn(hosts, a, v, l + 1, 1) = VisitedIn(hosts, a, v, l, m)
<1>1. \A i \in 1 .. Len(hosts) : \A j \in 1 .. Len(hosts[i].hl) :
         /\ (i < l + 1 \/ (i = l + 1 /\ j < 1)) <=> (i < l \/ i = l)
         /\ j \in Nat
  BY LineType
<1>2. ASSUME NEW p \in Node \X Values
      PROVE  p \in VisitedIn(hosts, a, v, l + 1, 1) <=>
               p \in VisitedIn(hosts, a, v, l, m)
  <2>1. p[2] # Absent
    BY MarksAreNotValues DEF Values
  <2>2. ASSUME NEW j \in 1 .. Len(hosts[l].hl),
               p[2] = hosts[l].attrval_index[a], v # NULL => p[2] # NoValue
        PROVE  j < m
    BY <2>1, <2>2, LineType
  <2> QED
    BY <1>1, <2>2 DEF VisitedIn
<1>3. VisitedIn(hosts, a, v, l + 1, 1) \subseteq Node \X Values
      /\ VisitedIn(hosts, a, v, l, m) \subseteq Node \X Values
  BY DEF VisitedIn
<1> QED
  BY <1>2, <1>3

LEMMA AllVisited ==
  ASSUME NEW hosts \in Seq(GendersHosts), NEW a \in Attr, NEW v,
         NEW l \in Nat, NEW m \in Nat, l > Len(hosts),
         NEW n \in Node, NEW w \in Values
  PROVE  <<n, w>> \in VisitedIn(hosts, a, v, l, m) <=>
           <<n, a, w>> \in Table(hosts) /\ (v # NULL => w # NoValue)
<1> DEFINE p == <<n, w>>
           t == <<n, a, w>>
<1>1. /\ p \in Node \X Values /\ p[1] = n /\ p[2] = w
      /\ t \in Node \X Attr \X (Value \cup {NoValue})
      /\ t[1] = n /\ t[2] = a /\ t[3] = w
  BY DEF Values
<1>2. \A i \in 1 .. Len(hosts) : i < l
  OBVIOUS
<1>3. t \in Table(hosts) <=>
        \E i \in 1 .. Len(hosts) : /\ n \in NodesIn(hosts[i].hl)
                                   /\ hosts[i].attrval_index[a] = w
  BY <1>1 DEF Table
<1>4. p \in VisitedIn(hosts, a, v, l, m) <=>
        \E i \in 1 .. Len(hosts) : \E j \in 1 .. Len(hosts[i].hl) :
          /\ i < l \/ (i = l /\ j < m)
          /\ n = hosts[i].hl[j] /\ w = hosts[i].attrval_index[a]
          /\ v # NULL => w # NoValue
  BY <1>1 DEF VisitedIn
<1> QED
  BY <1>2, <1>3, <1>4 DEF NodesIn

(***************************************************************************)
(* The index.                                                              *)
(***************************************************************************)

(* The key a node is filed under.                                           *)
KeyOf(f, w, n) == IF w = NoValue THEN NOVALUE ELSE Reading(f, w, n)

Visited == VisitedIn(Hosts, call.attr, call.val, line, next)

(* The nodes visited that belong under key r.                               *)
Filed(V, f, r) ==
  {n \in Node : \E w \in Values : <<n, w>> \in V /\ KeyOf(f, w, n) = r}

(* The index that is built holds the nodes visited, unless memory ran out:  *)
(* then it may lack some.                                                   *)
BuildInv ==
  pc = "lines" /\ Indexing =>
    \A r \in Result :
       /\ NodesIn(index[r]) \subseteq Filed(Visited, flags[H], r)
       /\ ~ fault => NodesIn(index[r]) = Filed(Visited, flags[H], r)
       /\ OncePerLine(db[H]) => Distinct(index[r])

(* What is true of every index, complete or not.                            *)
IndexSound ==
  \A h \in Handle :
    attrval_index_attr[h] # NULL =>
      \A r \in Result :
        /\ NodesIn(attrval_index[h][r]) \subseteq db[h].hostnames
        /\ OncePerLine(db[h]) => Distinct(attrval_index[h][r])

IndexInv == TypeInv /\ IndexIsRight /\ IndexSound /\ BuildInv

LEMMA AppendNode ==
  ASSUME NEW T, NEW s \in Seq(T), NEW x \in T
  PROVE  /\ NodesIn(Append(s, x)) = NodesIn(s) \cup {x}
         /\ Distinct(s) /\ x \notin NodesIn(s) => Distinct(Append(s, x))
<1>1. /\ Len(s) \in Nat /\ Len(Append(s, x)) = Len(s) + 1
      /\ \A i \in 1 .. Len(s) : Append(s, x)[i] = s[i]
      /\ Append(s, x)[Len(s) + 1] = x
  OBVIOUS
<1>2. 1 .. Len(s) + 1 = (1 .. Len(s)) \cup {Len(s) + 1}
  BY <1>1
<1> QED
  BY <1>1, <1>2 DEF NodesIn, Distinct

LEMMA NoNodes == NodesIn(<<>>) = {} /\ Distinct(<<>>)
BY DEF NodesIn, Distinct

(* A handle whose loop runs is loaded with a consistent database.           *)
LEMMA LoadedHosts ==
  ASSUME TypeInv, pc # "idle"
  PROVE  /\ H \in Handle /\ db[H] \in Loadable /\ db[H] \in Database
         /\ ConsistentDatabase(db[H])
         /\ Hosts \in Seq(GendersHosts) /\ Len(Hosts) \in Nat
         /\ IsFiniteSet(db[H].hostnames) /\ IsFiniteSet(db[H].attrs)
<1>1. H \in Handle /\ is_loaded[H]
  BY DEF TypeInv, TypeOK, CallInv, Call, H
<1>2. db[H] \in Loadable
  BY <1>1 DEF TypeInv, HandleInv
<1> QED
  BY <1>1, <1>2, LoadableAssumption, HostsType DEF Hosts

(* A node that is visited is a node of the database.                        *)
LEMMA VisitedIsNode ==
  ASSUME TypeInv, pc = "lines", NEW n, NEW w, <<n, w>> \in Visited
  PROVE  n \in db[H].hostnames
<1>1. PICK i \in 1 .. Len(Hosts) : \E j \in 1 .. Len(Hosts[i].hl) :
         <<n, w>>[1] = Hosts[i].hl[j]
  BY DEF Visited, VisitedIn
<1>2. n \in NodesIn(Hosts[i].hl) /\ n \in Node
  BY <1>1, ScanType, LineType DEF NodesIn
<1> QED
  BY <1>2, LoadedHosts DEF ConsistentDatabase, Hosts

(* No node is visited twice: a second time on the same line only if the     *)
(* line lists it twice, and on another line it would have the attribute     *)
(* twice.                                                                   *)
LEMMA NotVisitedBefore ==
  ASSUME TypeInv, OnNode, OncePerLine(db[H]), NEW w
  PROVE  <<Nd, w>> \notin Visited
<1>1. /\ line \in 1 .. Len(Hosts) /\ next \in 1 .. Len(Gh.hl)
      /\ call.attr \in Attr /\ Hosts \in Seq(GendersHosts)
      /\ Av # Absent
  BY ScanType DEF OnNode, OnLine, Relevant
<1> SUFFICES ASSUME <<Nd, w>> \in Visited PROVE FALSE
  OBVIOUS
<1>2. PICK i \in 1 .. Len(Hosts) : \E j \in 1 .. Len(Hosts[i].hl) :
         /\ i < line \/ (i = line /\ j < next)
         /\ <<Nd, w>>[1] = Hosts[i].hl[j]
         /\ <<Nd, w>>[2] = Hosts[i].attrval_index[call.attr]
         /\ w \in Values
  BY DEF Visited, VisitedIn
<1>3. PICK j \in 1 .. Len(Hosts[i].hl) :
         /\ i < line \/ (i = line /\ j < next)
         /\ Nd = Hosts[i].hl[j] /\ w = Hosts[i].attrval_index[call.attr]
         /\ w # Absent
  BY <1>2, MarksAreNotValues DEF Values
<1>4. CASE i = line
  <2>1. Hosts[line].hl[j] = Hosts[line].hl[next] /\ j < next
    BY <1>1, <1>3, <1>4 DEF Nd, Gh
  <2>2. j = next
    BY <1>1, <1>3, <1>4, <2>1 DEF OncePerLine, Distinct, Hosts, Gh
  <2> QED
    BY <1>1, <2>1, <2>2
<1>5. CASE i # line
  <2>1. ~ Clash(Hosts[i].hl, Hosts[i].attrval_index,
                Hosts[line].hl, Hosts[line].attrval_index)
    BY <1>1, <1>5, LoadedHosts
    DEF ConsistentDatabase, NoDuplicateAttrsIn, Hosts, OnNode, OnLine
  <2>2. Nd \in NodesIn(Hosts[i].hl) /\ Nd \in NodesIn(Hosts[line].hl)
    BY <1>1, <1>3 DEF NodesIn, Nd, Gh
  <2>3. /\ call.attr \in AttrsIn(Hosts[i].attrval_index)
        /\ call.attr \in AttrsIn(Hosts[line].attrval_index)
    BY <1>1, <1>3 DEF AttrsIn, Av, Gh
  <2> QED
    BY <2>1, <2>2, <2>3 DEF Clash
<1> QED
  BY <1>4, <1>5

(***************************************************************************)
(* The index is right.                                                     *)
(***************************************************************************)
LEMMA HostsPrimed ==
  ASSUME TypeInv'
  PROVE  /\ Hosts' \in Seq(GendersHosts)
         /\ pc' = "lines" => call'.attr \in Attr
<1>1. H' \in Handle /\ (pc' = "lines" => call'.attr \in Attr)
  BY DEF TypeInv, TypeOK, CallInv, Call, H
<1>2. db'[H'] \in Database
  BY <1>1, DatabaseType DEF TypeInv, TypeOK
<1> QED
  BY <1>1, <1>2 DEF Hosts, Database

(* What is true of the indexes depends on each handle's database and index. *)
LEMMA IndexesKept ==
  ASSUME IndexIsRight, IndexSound,
         \A h \in Handle :
           \/ attrval_index_attr'[h] = NULL
           \/ /\ attrval_index_attr'[h] = attrval_index_attr[h]
              /\ attrval_index'[h] = attrval_index[h]
              /\ index_flags'[h] = index_flags[h]
              /\ db'[h] = db[h]
  PROVE  IndexIsRight' /\ IndexSound'
<1>1. IndexIsRight'
  BY DEF IndexIsRight
<1>2. IndexSound'
  BY DEF IndexSound
<1> QED
  BY <1>1, <1>2

LEMMA SameIndexes ==
  ASSUME IndexIsRight, IndexSound, UNCHANGED handlevars
  PROVE  IndexIsRight' /\ IndexSound'
BY IndexesKept DEF handlevars, indexvars

LEMMA ResetIndexes ==
  ASSUME TypeInv, IndexIsRight, IndexSound, NEW h \in Handle, Reset(h)
  PROVE  IndexIsRight' /\ IndexSound'
<1>1. \A g \in Handle :
        \/ attrval_index_attr'[g] = NULL
        \/ /\ attrval_index_attr'[g] = attrval_index_attr[g]
           /\ attrval_index'[g] = attrval_index[g]
           /\ index_flags'[g] = index_flags[g]
           /\ db'[g] = db[g]
  BY DEF TypeInv, TypeOK, Reset
<1> QED
  BY <1>1, IndexesKept

(* Nothing is filed while nothing is visited.                               *)
LEMMA BuildStarts ==
  ASSUME TypeInv', Walk("lines")
  PROVE  BuildInv'
<1> SUFFICES ASSUME pc' = "lines" PROVE BuildInv'
  BY DEF BuildInv
<1>1. Visited' = {}
  <2>1. VisitedIn(Hosts', call'.attr, call'.val, 1, 1) = {}
    BY HostsPrimed, NothingVisited
  <2> QED
    BY <2>1 DEF Walk, WalkDone, Visited
<1>2. ASSUME NEW r \in Result
      PROVE  /\ index'[r] = <<>>
             /\ Filed(Visited', flags'[H'], r) = {}
  BY <1>1 DEF Walk, WalkDone, NoIndex, Filed
<1> QED
  BY <1>2, NoNodes DEF BuildInv

LEMMA NotBuilding ==
  ASSUME pc' # "lines" \/ ~ Indexing'
  PROVE  BuildInv'
BY DEF BuildInv

LEMMA VisitMore ==
  ASSUME NEW hosts \in Seq(GendersHosts), NEW a \in Attr, NEW v,
         NEW l \in 1 .. Len(hosts), NEW m \in Nat
  PROVE  VisitedIn(hosts, a, v, l, m) \subseteq VisitedIn(hosts, a, v, l + 1, 1)
<1>1. \A i \in 1 .. Len(hosts) : \A j \in 1 .. Len(hosts[i].hl) :
         i < l \/ (i = l /\ j < m) => i < l + 1
  BY LineType
<1> QED
  BY <1>1 DEF VisitedIn

(* A line left behind had nothing more to visit, unless memory ran out.     *)
LEMMA LeaveLine ==
  ASSUME TypeInv, NextLine \/ CutLineShort
  PROVE  /\ Visited \subseteq Visited'
         /\ NextLine => Visited' = Visited
<1>1. /\ Hosts \in Seq(GendersHosts) /\ call.attr \in Attr
      /\ line \in 1 .. Len(Hosts) /\ next \in Nat
  BY ScanType DEF NextLine, CutLineShort, OnNode, OnLine
<1>2. Visited' = VisitedIn(Hosts, call.attr, call.val, line + 1, 1)
  BY DEF NextLine, CutLineShort, Visited, Hosts, H, handlevars
<1>3. CASE NextLine
  <2>1. \/ Hosts[line].attrval_index[call.attr] = Absent
        \/ /\ call.val # NULL
           /\ Hosts[line].attrval_index[call.attr] = NoValue
        \/ next > Len(Hosts[line].hl)
    BY <1>3 DEF NextLine, Relevant, Av, Gh
  <2> QED
    BY <1>1, <1>2, <2>1, VisitLine DEF Visited
<1>4. CASE CutLineShort /\ ~ NextLine
  BY <1>1, <1>2, <1>4, VisitMore DEF Visited
<1> QED
  BY <1>3, <1>4

(* A node of the scan is visited.                                           *)
LEMMA VisitNext ==
  ASSUME TypeInv, OnNode, UNCHANGED <<handlevars, call, line>>,
         next' = next + 1
  PROVE  Visited' = Visited \cup {<<Nd, Av>>}
<1>1. /\ Hosts \in Seq(GendersHosts) /\ call.attr \in Attr
      /\ line \in 1 .. Len(Hosts) /\ next \in 1 .. Len(Hosts[line].hl)
  BY ScanType DEF OnNode, OnLine, Gh
<1>2. Visited' = VisitedIn(Hosts, call.attr, call.val, line, next + 1)
  BY DEF Visited, Hosts, H, handlevars
<1>3. /\ Hosts[line].attrval_index[call.attr] # Absent
      /\ call.val # NULL => Hosts[line].attrval_index[call.attr] # NoValue
  BY DEF OnNode, Relevant, Av, Gh
<1>4. VisitedIn(Hosts, call.attr, call.val, line, next + 1) =
        VisitedIn(Hosts, call.attr, call.val, line, next)
          \cup {<<Hosts[line].hl[next], Hosts[line].attrval_index[call.attr]>>}
  <2> HIDE DEF Hosts, VisitedIn
  <2> QED
    BY <1>1, <1>3, VisitNode
<1> QED
  BY <1>2, <1>4 DEF Visited, Nd, Av, Gh

LEMMA BuildGoesOn ==
  ASSUME TypeInv, BuildInv, NextLine \/ CutLineShort
  PROVE  BuildInv'
<1>1. /\ pc = "lines" /\ index' = index /\ flags' = flags /\ db' = db
      /\ H' = H /\ Indexing' = Indexing
  BY DEF NextLine, CutLineShort, OnNode, OnLine, H, Indexing, handlevars
<1>2. Visited \subseteq Visited' /\ (NextLine => Visited' = Visited)
  BY LeaveLine
<1>3. NextLine \/ fault' = TRUE
  BY DEF CutLineShort
<1>4. NextLine => fault' = fault
  BY DEF NextLine
<1>5. \A r : Filed(Visited, flags[H], r) \subseteq Filed(Visited', flags[H], r)
  BY <1>2 DEF Filed
<1> QED
  BY <1>1, <1>2, <1>3, <1>4, <1>5 DEF BuildInv

LEMMA BuildNode ==
  ASSUME TypeInv, BuildInv, IndexNode
  PROVE  BuildInv'
<1>1. /\ pc = "lines" /\ Indexing /\ OnNode /\ fault' = fault
      /\ flags' = flags /\ db' = db /\ H' = H
  BY DEF IndexNode, Readable, OnNode, OnLine, H, handlevars
<1>2. Nd \in Node /\ Av \in Values /\ Key \in Result
  BY <1>1, ReadableType, ScanType DEF OnNode, OnLine, Relevant, Values
<1>3. Visited' = Visited \cup {<<Nd, Av>>}
  BY <1>1, VisitNext DEF IndexNode
<1>4. Key = KeyOf(flags[H], Av, Nd)
  BY DEF Key, KeyOf, Val
<1>5. ASSUME NEW r \in Result
      PROVE  Filed(Visited', flags[H], r) =
               Filed(Visited, flags[H], r)
                 \cup (IF r = Key THEN {Nd} ELSE {})
  BY <1>2, <1>3, <1>4 DEF Filed
<1>6. index \in IndexTable
  BY DEF TypeInv, TypeOK
<1>7. ASSUME NEW r \in Result
      PROVE  /\ index[r] \in Seq(Node)
             /\ index'[r] = IF r = Key THEN Append(index[r], Nd) ELSE index[r]
  BY <1>6 DEF IndexTable, IndexNode
<1>8. ASSUME OncePerLine(db[H])
      PROVE  Nd \notin NodesIn(index[Key])
  <2>1. Nd \notin Filed(Visited, flags[H], Key)
    BY <1>1, <1>8, NotVisitedBefore DEF Filed
  <2> QED
    BY <1>1, <1>2, <2>1 DEF BuildInv
<1>9. ASSUME NEW r \in Result
      PROVE  /\ NodesIn(index'[r]) =
                  NodesIn(index[r]) \cup (IF r = Key THEN {Nd} ELSE {})
             /\ OncePerLine(db[H]) => Distinct(index'[r])
  <2>1. OncePerLine(db[H]) => Distinct(index[r])
    BY <1>1 DEF BuildInv
  <2>2. CASE r = Key
    BY <1>2, <1>7, <1>8, <2>1, <2>2, AppendNode
  <2>3. CASE r # Key
    BY <1>7, <2>1, <2>3
  <2> QED
    BY <2>2, <2>3
<1> QED
  BY <1>1, <1>5, <1>9 DEF BuildInv

(* A scan that ends has visited what the database says.                     *)
LEMMA ScanIsTable ==
  ASSUME TypeInv, LinesDone, NEW n \in Node, NEW w \in Values
  PROVE  <<n, w>> \in Visited <=>
           Has(db[H], n, call.attr, w) /\ (call.val # NULL => w # NoValue)
<1>1. /\ Hosts \in Seq(GendersHosts) /\ call.attr \in Attr
      /\ line \in Nat /\ next \in Nat /\ line > Len(Hosts)
  BY ScanType DEF LinesDone
<1> QED
  BY <1>1, AllVisited DEF Visited, Has, Hosts

LEMMA IndexComplete ==
  ASSUME TypeInv, BuildInv, LinesDone, Indexing, NEW r \in Result
  PROVE  /\ ~ fault =>
              NodesIn(index[r]) =
                IF r = NOVALUE
                THEN {n \in Node : Has(db[H], n, call.attr, NoValue)}
                ELSE NodesWith(db[H], flags[H], call.attr, r)
         /\ NodesIn(index[r]) \subseteq db[H].hostnames
<1>1. pc = "lines" /\ call.val = NULL /\ call.attr \in Attr
  BY DEF LinesDone, TypeInv, CallInv
<1>2. call.attr # NULL /\ r # NULL
  BY <1>1, HandleAssumption
<1>3. \A n \in Node : \A w \in Values :
        <<n, w>> \in Visited <=> Has(db[H], n, call.attr, w)
  BY <1>1, ScanIsTable
<1>4. \A n \in Node : \A w \in Values :
        KeyOf(flags[H], w, n) = r <=>
          IF r = NOVALUE THEN w = NoValue
          ELSE w # NoValue /\ Reading(flags[H], w, n) = r
  BY ReadingType DEF KeyOf, Values
<1>5. Filed(Visited, flags[H], r) =
        IF r = NOVALUE
        THEN {n \in Node : Has(db[H], n, call.attr, NoValue)}
        ELSE NodesWith(db[H], flags[H], call.attr, r)
  BY <1>2, <1>3, <1>4 DEF Filed, NodesWith, Values
<1>6. Filed(Visited, flags[H], r) \subseteq db[H].hostnames
  BY <1>1, VisitedIsNode DEF Filed
<1> QED
  BY <1>1, <1>5, <1>6 DEF BuildInv

LEMMA NewIndex ==
  ASSUME TypeInv, IndexIsRight, IndexSound, BuildInv, IndexReturns
  PROVE  IndexIsRight' /\ IndexSound' /\ BuildInv'
<1>1. /\ LinesDone /\ Indexing /\ pc' = "idle" /\ db' = db /\ H \in Handle
      /\ fault \in BOOLEAN
  BY DEF IndexReturns, Returns, TypeInv, TypeOK, Call, H
<1>2. \A g \in Handle : g # H =>
        /\ attrval_index_attr'[g] = attrval_index_attr[g]
        /\ attrval_index'[g] = attrval_index[g]
        /\ index_flags'[g] = index_flags[g]
  BY <1>1 DEF IndexReturns, TypeInv, TypeOK
<1>3. /\ attrval_index_attr'[H] = call.attr
      /\ attrval_index'[H] = index
      /\ fault => index_flags'[H] = "PARTIAL"
      /\ ~ fault => index_flags'[H] = flags[H]
  BY <1>1 DEF IndexReturns, TypeInv, TypeOK
<1>4. IndexIsRight'
  BY <1>1, <1>2, <1>3, IndexComplete DEF IndexIsRight
<1>5. \A r \in Result : OncePerLine(db[H]) => Distinct(index[r])
  BY <1>1 DEF BuildInv, LinesDone
<1>6. IndexSound'
  BY <1>1, <1>2, <1>3, <1>5, IndexComplete DEF IndexSound
<1> QED
  BY <1>1, <1>4, <1>6, NotBuilding

LEMMA LoopIndex ==
  ASSUME IndexInv, Loop \/ NoMemory \/ CutLineShort \/ CutListShort
  PROVE  IndexIsRight' /\ IndexSound' /\ BuildInv'
<1> USE DEF IndexInv
<1>1. CASE IndexReturns
  BY <1>1, NewIndex
<1>2. CASE NextLine \/ CutLineShort
  BY <1>2, SameIndexes, BuildGoesOn DEF NextLine, CutLineShort
<1>3. CASE IndexNode
  BY <1>3, SameIndexes, BuildNode DEF IndexNode
<1>4. CASE ValueTooLong \/ NoMemory
  <2>1. pc' = "idle" /\ H \in Handle
    BY <1>4 DEF ValueTooLong, NoMemory, Fails, TypeInv, TypeOK, Call, H
  <2>2. Reset(H) \/ UNCHANGED handlevars
    BY <1>4 DEF ValueTooLong, NoMemory
  <2> QED
    BY <2>1, <2>2, ResetIndexes, SameIndexes, NotBuilding
<1>5. CASE CollectNode \/ PassNode \/ FindValue \/ CollectAttr \/ NextAttrLine
           \/ CollectHit \/ CollectName
  <2>1. /\ UNCHANGED <<handlevars, call>>
        /\ call.op \notin {"index_attrvals", "copy"} \/ pc # "lines"
    BY <1>5 DEF CollectNode, PassNode, FindValue, CollectAttr, NextAttrLine,
                CollectHit, CollectName, OnAttrs
  <2>2. pc' = pc \/ pc' = "idle"
    BY <1>5 DEF CollectNode, PassNode, FindValue, CollectAttr, NextAttrLine,
                CollectHit, CollectName, Store, Fails, Returns
  <2>3. pc' # "lines" \/ ~ Indexing'
    BY <2>1, <2>2 DEF Indexing
  <2> QED
    BY <2>1, <2>3, SameIndexes, NotBuilding
<1>6. CASE ScanReturns \/ ListReturns \/ AttrsReturn \/ CutListShort
  <2>1. pc' = "idle" /\ UNCHANGED handlevars
    BY <1>6 DEF ScanReturns, ListReturns, AttrsReturn, CutListShort, Returns
  <2> QED
    BY <2>1, SameIndexes, NotBuilding
<1> QED
  BY <1>1, <1>2, <1>3, <1>4, <1>5, <1>6 DEF Loop

LEMMA ManagementIndex ==
  ASSUME IndexInv, TypeInv', Management
  PROVE  IndexIsRight' /\ IndexSound' /\ BuildInv'
<1> USE DEF IndexInv
<1>1. CASE \E h \in Handle : HandleCreate(h) \/ HandleDestroy(h) \/ LoadFails(h)
  <2>1. pc' = "idle" /\ \E h \in Handle : Reset(h)
    BY <1>1 DEF HandleCreate, HandleDestroy, LoadFails, Returns, Fails
  <2> QED
    BY <2>1, ResetIndexes, NotBuilding
<1>2. CASE \E h \in Handle, d \in Loadable : LoadSucceeds(h, d)
  <2>1. PICK h \in Handle : \E d \in Loadable : LoadSucceeds(h, d)
    BY <1>2
  <2>2. pc' = "idle" /\ UNCHANGED indexvars /\ attrval_index_attr[h] = NULL
    BY <2>1 DEF LoadSucceeds, Returns, TypeInv, HandleInv
  <2>3. \A g \in Handle : g # h => db'[g] = db[g]
    BY <2>1 DEF LoadSucceeds, TypeInv, TypeOK
  <2> QED
    BY <2>2, <2>3, IndexesKept, NotBuilding DEF indexvars
<1>3. CASE \E h \in Handle, f \in Flags : SetFlags(h, f)
  <2>1. pc' = "idle" /\ UNCHANGED <<indexvars, db>>
    BY <1>3 DEF SetFlags, Returns
  <2> QED
    BY <2>1, IndexesKept, NotBuilding DEF indexvars
<1>4. CASE \E h \in Handle, a \in Attr : IndexAttrVals(h, a)
  <2>1. /\ UNCHANGED handlevars
        /\ pc' = "idle" \/ Walk("lines")
    BY <1>4 DEF IndexAttrVals, Returns, Fails
  <2> QED
    BY <2>1, SameIndexes, NotBuilding, BuildStarts
<1>5. CASE \E h, k \in Handle : Copy(h, k)
  <2>1. PICK h \in Handle, k \in Handle : Copy(h, k)
    BY <1>5
  <2>2. UNCHANGED indexvars /\ attrval_index_attr[k] = NULL
    BY <2>1 DEF Copy, TypeInv, HandleInv
  <2>3. \A g \in Handle : g # k => db'[g] = db[g]
    BY <2>1 DEF Copy, TypeInv, TypeOK
  <2>4. pc' = "idle" \/ Walk("lines")
    BY <2>1 DEF Copy, Returns
  <2> QED
    BY <2>2, <2>3, <2>4, IndexesKept, NotBuilding, BuildStarts DEF indexvars
<1> QED
  BY <1>1, <1>2, <1>3, <1>4, <1>5 DEF Management

LEMMA QuestionIndex ==
  ASSUME IndexInv, TypeInv', \/ Questions
                             \/ \E h \in Handle, o \in Loops : OutOfMemory(h, o)
  PROVE  IndexIsRight' /\ IndexSound' /\ BuildInv'
<1> USE DEF IndexInv
<1>1. UNCHANGED handlevars
  BY DEF Questions, OutOfMemory, NotLoaded, WrongParameters, IsNode, IsAttr,
         TestAttr, TestAttrVal, IsAttrVal, GetNodes, GetAttr
<1>2. CASE \E h \in Handle : \E n \in Node : \E a \in Attr :
              \/ \E l \in Length \cup {NULL} : TestAttr(h, n, a, l)
              \/ \E v \in Result \cup {NULL} : TestAttrVal(h, n, a, v)
  BY <1>1, <1>2, AnswerType, SameIndexes, NotBuilding DEF TestAttr, TestAttrVal
<1>3. CASE \E h \in Handle :
              \/ \E o \in Ops : \/ NotLoaded(h, o) \/ WrongParameters(h, o)
                                \/ OutOfMemory(h, o)
              \/ \E n \in Node : IsNode(h, n)
              \/ \E a \in Attr : IsAttr(h, a)
  <2>1. pc' = "idle"
    BY <1>3 DEF NotLoaded, WrongParameters, OutOfMemory, IsNode, IsAttr,
                Returns, Fails
  <2> QED
    BY <1>1, <2>1, SameIndexes, NotBuilding
<1>4. CASE \E h \in Handle :
              \/ \E a \in Attr : \E v \in Result : IsAttrVal(h, a, v)
              \/ \E a \in Attr \cup {NULL} : \E v \in Result \cup {NULL} :
                   \E l \in Length : GetNodes(h, a, v, l)
              \/ \E n \in Node : \E l \in Length : GetAttr(h, n, l)
  <2>1. call'.op \in {"isattrval", "getnodes", "getattr"}
    BY <1>4 DEF IsAttrVal, GetNodes, GetAttr, Invoke
  <2>2. ~ Indexing'
    BY <2>1 DEF Indexing
  <2> QED
    BY <1>1, <2>2, SameIndexes, NotBuilding
<1> QED
  BY <1>2, <1>3, <1>4 DEF Questions, Loops, Ops

LEMMA InitIndex == Init => IndexInv
<1> SUFFICES ASSUME Init PROVE IndexInv
  OBVIOUS
<1>1. pc = "idle" /\ \A h \in Handle : attrval_index_attr[h] = NULL
  BY DEF Init
<1>2. IndexIsRight /\ IndexSound
  BY <1>1 DEF IndexIsRight, IndexSound
<1> QED
  BY <1>1, <1>2, InitType DEF IndexInv, BuildInv

LEMMA NextIndex == IndexInv /\ [Next]_vars => IndexInv'
<1> SUFFICES ASSUME IndexInv, [Next]_vars PROVE IndexInv'
  OBVIOUS
<1>1. TypeInv'
  BY NextType DEF IndexInv
<1>2. CASE Next
  BY <1>1, <1>2, LoopIndex, ManagementIndex, QuestionIndex
  DEF Next, Faults, IndexInv
<1>3. CASE UNCHANGED vars
  <2>1. UNCHANGED handlevars /\ UNCHANGED <<pc, call, line, next, index, fault>>
    BY <1>3 DEF vars, walkvars
  <2>2. BuildInv'
    BY <2>1 DEF IndexInv, BuildInv, Visited, Hosts, H, Indexing, handlevars
  <2> QED
    BY <1>1, <2>1, <2>2, SameIndexes DEF IndexInv
<1> QED
  BY <1>1, <1>2, <1>3

(* IndexIsRight: an index that genders_index_attrvals() or genders_copy()   *)
(* built with enough memory holds what the database says, under the flags   *)
(* it was built with, as long as it lives.                                  *)
THEOREM IndexAlwaysRight == Spec => []IndexIsRight
<1>1. IndexInv => IndexIsRight
  BY DEF IndexInv
<1> QED
  BY <1>1, InitIndex, NextIndex, PTL DEF Spec

(* What IndexKept says of one step.                                         *)
Kept ==
  \A h \in Handle :
    /\ attrval_index_attr[h] # NULL /\ attrval_index_attr'[h] = NULL
         => ~ is_loaded'[h]
    /\ attrval_index'[h] # attrval_index[h] /\ is_loaded'[h]
         => pc = "lines" /\ line > Len(db[h].genders_hosts)

LEMMA NextKept == TypeInv /\ [Next]_vars => Kept
<1> SUFFICES ASSUME TypeInv, [Next]_vars PROVE Kept
  OBVIOUS
<1>1. CASE UNCHANGED indexvars
  BY <1>1 DEF Kept, indexvars
<1>2. ASSUME NEW h \in Handle, Reset(h)
      PROVE  Kept
  <2>1. /\ ~ is_loaded'[h]
        /\ \A g \in Handle : g # h =>
             /\ attrval_index_attr'[g] = attrval_index_attr[g]
             /\ attrval_index'[g] = attrval_index[g]
    BY <1>2 DEF Reset, TypeInv, TypeOK
  <2> QED
    BY <2>1 DEF Kept
<1>3. CASE IndexReturns
  <2>1. /\ H \in Handle /\ pc = "lines" /\ call.attr \in Attr
        /\ line > Len(db[H].genders_hosts)
    BY <1>3 DEF IndexReturns, LinesDone, Hosts, TypeInv, TypeOK, CallInv,
                Call, H
  <2>2. call.attr # NULL
    BY <2>1, HandleAssumption
  <2>3. /\ attrval_index_attr'[H] = call.attr
        /\ \A g \in Handle : g # H =>
             /\ attrval_index_attr'[g] = attrval_index_attr[g]
             /\ attrval_index'[g] = attrval_index[g]
    BY <1>3, <2>1 DEF IndexReturns, TypeInv, TypeOK
  <2> QED
    BY <2>1, <2>2, <2>3 DEF Kept
<1>4. CASE Loop \/ NoMemory \/ CutLineShort \/ CutListShort
  <2>1. H \in Handle
    BY DEF TypeInv, TypeOK, Call, H
  <2>2. UNCHANGED handlevars \/ Reset(H) \/ IndexReturns
    BY <1>4 DEF Loop, NextLine, ValueTooLong, CollectNode, PassNode, FindValue,
                IndexNode, ScanReturns, CollectHit, CollectName, ListReturns,
                CollectAttr, NextAttrLine, AttrsReturn, NoMemory,
                CutLineShort, CutListShort
  <2> QED
    BY <1>1, <1>2, <1>3, <2>1, <2>2 DEF handlevars
<1>5. CASE Management
  <2>1. UNCHANGED indexvars \/ \E h \in Handle : Reset(h)
    BY <1>5 DEF Management, HandleCreate, HandleDestroy, LoadFails,
                LoadSucceeds, SetFlags, IndexAttrVals, Copy, handlevars
  <2> QED
    BY <1>1, <1>2, <2>1
<1>6. CASE Questions \/ \E h \in Handle, o \in Loops : OutOfMemory(h, o)
  <2>1. UNCHANGED handlevars
    BY <1>6 DEF Questions, OutOfMemory, NotLoaded, WrongParameters, IsNode,
                IsAttr, TestAttr, TestAttrVal, IsAttrVal, GetNodes, GetAttr
  <2> QED
    BY <1>1, <2>1 DEF handlevars
<1>7. CASE UNCHANGED vars
  BY <1>1, <1>7 DEF vars, handlevars
<1> QED
  BY <1>4, <1>5, <1>6, <1>7 DEF Next, Faults

(* IndexKept: an index is lost only with its database, and another takes    *)
(* its place only when genders_index_attrvals() has read every line.        *)
THEOREM IndexAlwaysKept == Spec => IndexKept
<1>1. TypeInv /\ [Next]_vars =>
        [\A h \in Handle :
          /\ attrval_index_attr[h] # NULL /\ attrval_index_attr'[h] = NULL
               => ~ is_loaded'[h]
          /\ attrval_index'[h] # attrval_index[h] /\ is_loaded'[h]
               => pc = "lines" /\ line > Len(db[h].genders_hosts)]_vars
  BY NextKept DEF Kept
<1> QED
  BY <1>1, InitType, NextType, PTL DEF Spec, IndexKept

-----------------------------------------------------------------------------
(***************************************************************************)
(* Proofs about GendersHandle: genders_getnodes(), genders_testattr(),     *)
(* genders_testattrval() and genders_isattrval() answer what the table of  *)
(* the database says, by an index or by reading the lines, for all         *)
(* databases; genders_getattr() finds the attributes it says; and the      *)
(* lists made for them are large enough.                                   *)
(***************************************************************************)

(***************************************************************************)
(* What the loops have found so far.                                       *)
(***************************************************************************)

(* The nodes visited that a caller who asks for v wants.                    *)
Matching(V, f, v) ==
  {n \in Node : \E w \in Values :
     /\ <<n, w>> \in V
     /\ v # NULL => w # NoValue /\ Reading(f, w, n) = v}

Match == Matching(Visited, flags[H], call.val)

ScanInv ==
  /\ pc = "lines" /\ call.op = "getnodes" =>
       /\ NodesIn(found) \subseteq Match
       /\ ~ fault => NodesIn(found) = Match
       /\ OncePerLine(db[H]) => Distinct(found)
  /\ pc = "lines" /\ call.op = "isattrval" => (~ fault => Match = {})

(* The attributes of n on the lines before line l.                          *)
Given(hosts, n, l) ==
  {a \in Attr : \E i \in 1 .. Len(hosts) :
     /\ i < l
     /\ n \in NodesIn(hosts[i].hl)
     /\ a \in AttrsIn(hosts[i].attrval_index)}

AttrsInv ==
  /\ NodesIn(found) = Given(Hosts, call.node, line) \cup seen
  /\ seen \subseteq IF line <= Len(Hosts) THEN LineAttrs ELSE {}
  /\ Distinct(found) /\ Len(vals) = Len(found)
  /\ \A i \in 1 .. Len(found) :
        vals[i] # NULL => call.node \in
                           NodesWith(db[H], flags[H], found[i], vals[i])

ListInv ==
  /\ pc = "hits" =>
       /\ Len(found) = next - 1 /\ next <= Len(Hits) + 1
       /\ \A i \in 1 .. Len(found) : found[i] = Hits[i]
  /\ pc = "names" =>
       /\ NodesIn(found) \subseteq db[H].hostnames
       /\ Distinct(found)
  /\ pc = "attrs" => AttrsInv

Right == NodesAreRight /\ TestsAgree /\ AttrsAreRight /\ RoomForAll

AnswerInv == IndexInv /\ ScanInv /\ ListInv /\ Right

(***************************************************************************)
(* Calls that have no answer to get wrong.                                 *)
(***************************************************************************)
LEMMA Unanswered ==
  ASSUME pc' # "idle" \/ (rv' = -1 /\ error' # "OVERFLOW")
  PROVE  Right'
BY DEF Right, NodesAreRight, TestsAgree, AttrsAreRight, RoomForAll, Answered

LEMMA OtherCall ==
  ASSUME call'.op \notin {"getnodes", "testattr", "testattrval", "isattrval",
                          "getattr"},
         error' # "OVERFLOW"
  PROVE  Right'
BY DEF Right, NodesAreRight, TestsAgree, AttrsAreRight, RoomForAll, Answered

LEMMA NoLoop ==
  ASSUME pc' = "idle"
  PROVE  ScanInv' /\ ListInv'
BY DEF ScanInv, ListInv

LEMMA OtherLoop ==
  ASSUME pc' = "lines", call'.op \notin {"getnodes", "isattrval"}
  PROVE  ScanInv' /\ ListInv'
BY DEF ScanInv, ListInv

(***************************************************************************)
(* The scan over the lines.                                                *)
(***************************************************************************)
LEMMA ScanStarts ==
  ASSUME TypeInv', Walk("lines")
  PROVE  ScanInv' /\ ListInv' /\ Right'
<1>1. pc' = "lines" /\ found' = <<>>
  BY DEF Walk
<1>2. Visited' = {}
  <2>1. VisitedIn(Hosts', call'.attr, call'.val, 1, 1) = {}
    BY <1>1, HostsPrimed, NothingVisited
  <2> QED
    BY <2>1 DEF Walk, WalkDone, Visited
<1>3. Match' = {}
  BY <1>2 DEF Match, Matching
<1>4. ScanInv'
  BY <1>1, <1>3, NoNodes DEF ScanInv
<1> QED
  BY <1>1, <1>4, Unanswered DEF ListInv

LEMMA ScanLeavesLine ==
  ASSUME TypeInv, ScanInv, NextLine \/ CutLineShort
  PROVE  ScanInv' /\ ListInv' /\ Right'
<1>1. /\ pc' = "lines" /\ found' = found /\ flags' = flags /\ db' = db
      /\ pc = "lines" /\ H' = H /\ call' = call
  BY DEF NextLine, CutLineShort, OnNode, OnLine, H, handlevars, outvars
<1>2. Visited \subseteq Visited' /\ (NextLine => Visited' = Visited)
  BY LeaveLine
<1>3. (NextLine /\ fault' = fault) \/ fault' = TRUE
  BY DEF NextLine, CutLineShort
<1>4. Match \subseteq Match' /\ (NextLine => Match' = Match)
  BY <1>1, <1>2 DEF Match, Matching
<1>5. ScanInv'
  BY <1>1, <1>3, <1>4 DEF ScanInv
<1> QED
  BY <1>1, <1>5, Unanswered DEF ListInv

(* The node visited is among those wanted, or not.                          *)
LEMMA MatchNode ==
  ASSUME TypeInv, OnNode, UNCHANGED <<handlevars, call, line>>,
         next' = next + 1
  PROVE  Match' = Match \cup (IF Wanted THEN {Nd} ELSE {})
<1>1. Visited' = Visited \cup {<<Nd, Av>>}
  BY VisitNext
<1>2. Nd \in Node /\ Av \in Values
  BY ReadableType, ScanType DEF OnNode, OnLine, Relevant, Values
<1>3. flags' = flags /\ H' = H /\ call' = call
  BY DEF handlevars, H
<1>4. Wanted <=>
        (call.val # NULL =>
           Av # NoValue /\ Reading(flags[H], Av, Nd) = call.val)
  BY DEF Wanted, Val, OnNode, Relevant
<1> QED
  BY <1>1, <1>2, <1>3, <1>4 DEF Match, Matching

(* Nodes are stored once, if the line does not list them twice.             *)
LEMMA NotStoredBefore ==
  ASSUME TypeInv, ScanInv, OnNode, call.op = "getnodes", OncePerLine(db[H])
  PROVE  Nd \notin NodesIn(found)
<1>1. Nd \notin Match
  BY NotVisitedBefore DEF Match, Matching
<1> QED
  BY <1>1 DEF ScanInv, OnNode, OnLine

(* A list without repetitions that lacks an element of S is shorter than S  *)
(* is large.                                                                *)
LEMMA RoomLeft ==
  ASSUME NEW T, NEW s \in Seq(T), NEW S, IsFiniteSet(S), Distinct(s),
         NodesIn(s) \subseteq S, NEW x \in S, x \notin NodesIn(s)
  PROVE  Len(s) < Cardinality(S)
<1> DEFINE f == [i \in 1 .. Len(s) |-> s[i]]
<1>1. Len(s) \in Nat /\ Cardinality(S) \in Nat
  BY FS_CardinalityType
<1>2. f \in Injection(1 .. Len(s), S)
  BY DEF NodesIn, Distinct, Injection, IsInjective
<1>3. f \notin Surjection(1 .. Len(s), S)
  BY DEF NodesIn, Surjection
<1>4. Cardinality(1 .. Len(s)) = Len(s)
  <2>1. Cardinality(1 .. Len(s)) =
          IF 1 > Len(s) THEN 0 ELSE Len(s) - 1 + 1
    BY <1>1, 1 \in Int, Len(s) \in Int, FS_Interval
  <2> QED
    BY <1>1, <2>1
<1>5. /\ Cardinality(1 .. Len(s)) <= Cardinality(S)
      /\ Cardinality(1 .. Len(s)) = Cardinality(S)
           <=> f \in Surjection(1 .. Len(s), S)
  <2> HIDE DEF f
  <2> QED
    BY <1>2, FS_Injection
<1> QED
  BY <1>1, <1>3, <1>4, <1>5

LEMMA AppendFound ==
  ASSUME TypeInv, NEW x \in Node
  PROVE  /\ NodesIn(Append(found, x)) = NodesIn(found) \cup {x}
         /\ Distinct(found) /\ x \notin NodesIn(found) =>
              Distinct(Append(found, x))
<1>1. found \in Answers /\ x \in Node \cup Attr \cup Result
  BY FoundType
<1> QED
  BY <1>1, AppendNode DEF Answers

(* The array is full only if it is shorter than the database has nodes.     *)
LEMMA ArrayFull ==
  ASSUME TypeInv, pc # "idle", call.op = "getnodes", Len(found) >= call.len,
         Fails("OVERFLOW"), UNCHANGED <<handlevars, call>>,
         NEW x \in db[H].hostnames, NodesIn(found) \subseteq db[H].hostnames,
         OncePerLine(db[H]) => Distinct(found) /\ x \notin NodesIn(found)
  PROVE  Right'
<1>1. IsFiniteSet(db[H].hostnames) /\ call.len \in Nat
  BY LoadedHosts DEF TypeInv, CallInv
<1>2. OncePerLine(db[H]) => call.len < Cardinality(db[H].hostnames)
  <2> SUFFICES ASSUME OncePerLine(db[H])
               PROVE  call.len < Cardinality(db[H].hostnames)
    OBVIOUS
  <2>1. found \in Seq(Node \cup Attr \cup Result)
    BY FoundType DEF Answers
  <2>2. Len(found) < Cardinality(db[H].hostnames)
    BY <1>1, <2>1, RoomLeft
  <2>3. Len(found) \in Nat /\ Cardinality(db[H].hostnames) \in Nat
    BY <1>1, <2>1, FS_CardinalityType
  <2> QED
    BY <1>1, <2>2, <2>3
<1>3. /\ rv' = -1 /\ db' = db /\ H' = H /\ call' = call
  BY DEF Fails, handlevars, H
<1> QED
  BY <1>2, <1>3 DEF Right, NodesAreRight, TestsAgree, AttrsAreRight, RoomForAll, Answered

(* The node of the scan is a node of the database.                          *)
LEMMA ScanNode ==
  ASSUME TypeInv, OnNode
  PROVE  /\ Nd \in db[H].hostnames
         /\ Has(db[H], Nd, call.attr, Av)
<1>1. /\ line \in 1 .. Len(Hosts) /\ Hosts \in Seq(GendersHosts)
      /\ next \in 1 .. Len(Gh.hl) /\ Nd \in Node /\ call.attr \in Attr
      /\ Av \in Value \cup {NoValue}
  BY ScanType DEF OnNode, OnLine, Relevant
<1>2. Nd \in NodesIn(Hosts[line].hl)
  BY <1>1 DEF NodesIn, Nd, Gh
<1>3. Nd \in db[H].hostnames
  BY <1>1, <1>2, LoadedHosts
  DEF ConsistentDatabase, Hosts, OnNode, OnLine
<1>4. <<Nd, call.attr, Av>> \in Table(Hosts)
  BY <1>1, <1>2 DEF Table, Av, Gh
<1> QED
  BY <1>3, <1>4 DEF Has, Hosts

LEMMA ScanVisits ==
  ASSUME AnswerInv, CollectNode \/ PassNode
  PROVE  ScanInv' /\ ListInv' /\ Right'
<1>1. TypeInv /\ ScanInv /\ OnNode /\ pc = "lines"
  BY DEF AnswerInv, IndexInv, CollectNode, PassNode, Readable, OnNode, OnLine
<1>2. Nd \in Node /\ Nd \in db[H].hostnames
  BY <1>1, ReadableType, ScanNode
<1>3. CASE CollectNode /\ Len(found) >= call.len
  <2>1. pc' = "idle" /\ call.op = "getnodes" /\ Fails("OVERFLOW")
        /\ UNCHANGED <<handlevars, call>>
    BY <1>3 DEF CollectNode, Store, Fails
  <2>2. NodesIn(found) \subseteq Match
        /\ (OncePerLine(db[H]) => Distinct(found))
    BY <1>1, <2>1 DEF ScanInv
  <2>3. Match \subseteq db[H].hostnames
    BY <1>1, VisitedIsNode DEF Match, Matching
  <2>4. Right'
    BY <1>1, <1>2, <1>3, <2>1, <2>2, <2>3, NotStoredBefore, ArrayFull
  <2> QED
    BY <2>1, <2>4, NoLoop
<1>4. CASE PassNode \/ (CollectNode /\ ~ (Len(found) >= call.len))
  <2>1. /\ UNCHANGED <<handlevars, call, line, pc>> /\ next' = next + 1
        /\ fault' = fault /\ db' = db /\ H' = H
        /\ call.op \in {"getnodes", "isattrval"}
    BY <1>4 DEF CollectNode, PassNode, Store, H, handlevars
  <2>2. Match' = Match \cup (IF Wanted THEN {Nd} ELSE {})
    BY <1>1, <2>1, MatchNode
  <2>3. CASE PassNode
    <3>1. found' = found /\ Match' = Match
      BY <2>2, <2>3 DEF PassNode, outvars
    <3> QED
      BY <1>1, <2>1, <3>1, Unanswered DEF ScanInv, ListInv
  <2>4. CASE CollectNode /\ ~ PassNode
    <3>1. /\ found' = Append(found, Nd) /\ Match' = Match \cup {Nd}
          /\ call.op = "getnodes"
      BY <1>4, <2>2, <2>4 DEF CollectNode, Store
    <3>2. NodesIn(found') = NodesIn(found) \cup {Nd}
      BY <1>1, <1>2, <3>1, AppendFound
    <3>3. OncePerLine(db[H]) => Distinct(found')
      BY <1>1, <1>2, <3>1, AppendFound, NotStoredBefore DEF ScanInv
    <3> QED
      BY <1>1, <2>1, <3>1, <3>2, <3>3, Unanswered DEF ScanInv, ListInv
  <2> QED
    BY <1>4, <2>3, <2>4
<1> QED
  BY <1>3, <1>4

(* A scan that is done has found what the database says.                    *)
LEMMA MatchIsAll ==
  ASSUME TypeInv, LinesDone
  PROVE  Match = NodesWith(db[H], flags[H], call.attr, call.val)
<1>1. call.attr # NULL
  BY HandleAssumption DEF TypeInv, CallInv, LinesDone
<1>2. \A n \in Node : \A w \in Values :
        <<n, w>> \in Visited <=>
          Has(db[H], n, call.attr, w) /\ (call.val # NULL => w # NoValue)
  BY ScanIsTable
<1> QED
  BY <1>1, <1>2 DEF Match, Matching, NodesWith, Values

LEMMA ScanAnswers ==
  ASSUME AnswerInv, ScanReturns \/ FindValue
  PROVE  ScanInv' /\ ListInv' /\ Right'
<1>1. /\ TypeInv /\ ScanInv /\ pc = "lines" /\ pc' = "idle"
      /\ db' = db /\ flags' = flags /\ H' = H /\ call' = call
      /\ fault' = fault /\ error' = "SUCCESS"
  BY DEF AnswerInv, IndexInv, ScanReturns, FindValue, LinesDone, Readable,
         OnNode, OnLine, Returns, H, handlevars
<1>2. CASE ScanReturns /\ call.op = "getnodes"
  <2>1. found' = found /\ rv' = Len(found)
    BY <1>2 DEF ScanReturns, Returns
  <2>2. /\ ~ fault => NodesIn(found) =
                        NodesWith(db[H], flags[H], call.attr, call.val)
        /\ OncePerLine(db[H]) => Distinct(found)
    BY <1>1, <1>2, MatchIsAll DEF ScanInv, ScanReturns
  <2>3. NodesAreRight'
    BY <1>1, <2>1, <2>2 DEF NodesAreRight, Listed, NodesIn
  <2> QED
    BY <1>1, <1>2, <2>3, NoLoop DEF Right, TestsAgree, AttrsAreRight, RoomForAll, Answered
<1>3. CASE call.op = "isattrval"
  <2>1. CASE ScanReturns
    <3>1. rv' = 0
      BY <1>3, <2>1 DEF ScanReturns, Returns
    <3>2. ~ fault => NodesWith(db[H], flags[H], call.attr, call.val) = {}
      BY <1>1, <1>3, <2>1, MatchIsAll DEF ScanInv, ScanReturns
    <3> QED
      BY <1>1, <1>3, <3>1, <3>2, NoLoop
      DEF Right, NodesAreRight, TestsAgree, AttrsAreRight, RoomForAll, Answered
  <2>2. CASE FindValue
    <3>1. rv' = 1 /\ Wanted /\ OnNode
      BY <2>2 DEF FindValue, Returns, Readable
    <3>2. Nd \in Node /\ Av \in Value \cup {NoValue} /\ call.attr # NULL
      BY <1>1, <3>1, ReadableType, ScanType, HandleAssumption
      DEF OnNode, OnLine, Relevant
    <3>3. Has(db[H], Nd, call.attr, Av)
      BY <1>1, <3>1, ScanNode
    <3>4. call.val # NULL =>
            Av # NoValue /\ Reading(flags[H], Av, Nd) = call.val
      BY <3>1 DEF Wanted, Val, OnNode, Relevant
    <3>5. Nd \in NodesWith(db[H], flags[H], call.attr, call.val)
      BY <3>2, <3>3, <3>4 DEF NodesWith
    <3> QED
      BY <1>1, <1>3, <3>1, <3>5, NoLoop
      DEF Right, NodesAreRight, TestsAgree, AttrsAreRight, RoomForAll, Answered
  <2> QED
    BY <2>1, <2>2
<1> QED
  BY <1>2, <1>3 DEF ScanReturns, FindValue

(***************************************************************************)
(* One entry of the index, and the list of all nodes.                      *)
(***************************************************************************)
LEMMA HitsAre ==
  ASSUME TypeInv, IndexIsRight, IndexSound, pc = "hits"
  PROVE  /\ Hits \in Seq(Node) /\ NodesIn(Hits) \subseteq db[H].hostnames
         /\ OncePerLine(db[H]) => Distinct(Hits)
         /\ Current => NodesIn(Hits) =
                         NodesWith(db[H], flags[H], call.attr, call.val)
<1>1. /\ H \in Handle /\ call.val \in Result
      /\ Indexed(H, call.attr, call.val)
  BY DEF TypeInv, TypeOK, CallInv, Call, H
<1>2. attrval_index_attr[H] = call.attr /\ call.attr # NULL
  BY <1>1 DEF Indexed
<1>3. attrval_index[H] \in IndexTable /\ flags[H] \in Flags
  BY <1>1 DEF TypeInv, TypeOK
<1>4. Current => call.val # NOVALUE /\ index_flags[H] = flags[H]
                   /\ index_flags[H] # "PARTIAL"
  BY <1>1, <1>3 DEF Current, Flags
<1>5. Hits \in Seq(Node)
  BY <1>1, <1>3 DEF Hits, IndexTable
<1>6. /\ NodesIn(Hits) \subseteq db[H].hostnames
      /\ OncePerLine(db[H]) => Distinct(Hits)
  BY <1>1, <1>2 DEF IndexSound, Hits
<1>7. Current => NodesIn(Hits) =
                   NodesWith(db[H], flags[H], call.attr, call.val)
  BY <1>1, <1>2, <1>4 DEF IndexIsRight, Hits
<1> QED
  BY <1>5, <1>6, <1>7

LEMMA HitsStored ==
  ASSUME AnswerInv, CollectHit
  PROVE  ScanInv' /\ ListInv' /\ Right'
<1>1. /\ TypeInv /\ IndexIsRight /\ IndexSound /\ ListInv /\ pc = "hits"
      /\ next <= Len(Hits) /\ call.op = "getnodes"
  BY DEF AnswerInv, IndexInv, CollectHit, TypeInv, CallInv
<1>2. next \in Nat \ {0} /\ found \in Seq(Node \cup Attr \cup Result)
  BY <1>1, FoundType DEF TypeInv, TypeOK, Answers
<1>3. Hits \in Seq(Node) /\ NodesIn(Hits) \subseteq db[H].hostnames
      /\ (OncePerLine(db[H]) => Distinct(Hits))
  BY <1>1, HitsAre
<1>4. /\ Len(found) = next - 1
      /\ \A i \in 1 .. Len(found) : found[i] = Hits[i]
  BY <1>1 DEF ListInv
<1>5. next \in 1 .. Len(Hits) /\ Hits[next] \in NodesIn(Hits)
      /\ Hits[next] \in Node
  BY <1>1, <1>2, <1>3 DEF NodesIn
<1>6. CASE Len(found) >= call.len
  <2>1. pc' = "idle" /\ Fails("OVERFLOW") /\ UNCHANGED <<handlevars, call>>
    BY <1>6 DEF CollectHit, Store, Fails
  <2>2. NodesIn(found) \subseteq NodesIn(Hits)
    BY <1>2, <1>3, <1>4, <1>5 DEF NodesIn
  <2>3. Distinct(Hits) => Distinct(found) /\ Hits[next] \notin NodesIn(found)
    BY <1>2, <1>3, <1>4, <1>5, SMTT(30) DEF NodesIn, Distinct
  <2>4. Right'
    BY <1>1, <1>3, <1>5, <1>6, <2>1, <2>2, <2>3, ArrayFull
  <2> QED
    BY <2>1, <2>4, NoLoop
<1>7. CASE ~ (Len(found) >= call.len)
  <2>1. found' = Append(found, Hits[next]) /\ next' = next + 1 /\ pc' = pc
        /\ Hits' = Hits
    BY <1>7 DEF CollectHit, Store, Hits, H, handlevars, indexvars
  <2>2. /\ Len(found') = next' - 1 /\ next' <= Len(Hits') + 1
        /\ \A i \in 1 .. Len(found') : found'[i] = Hits'[i]
    BY <1>1, <1>2, <1>3, <1>4, <2>1
  <2> QED
    BY <1>1, <2>1, <2>2, Unanswered DEF ScanInv, ListInv
<1> QED
  BY <1>6, <1>7

LEMMA NamesStored ==
  ASSUME AnswerInv, CollectName
  PROVE  ScanInv' /\ ListInv' /\ Right'
<1>1. /\ TypeInv /\ ListInv /\ pc = "names" /\ call.op = "getnodes"
      /\ H \in Handle
  BY DEF AnswerInv, IndexInv, CollectName, TypeInv, TypeOK, CallInv, Call, H
<1>2. PICK n \in Unlisted : Store(n)
  BY DEF CollectName
<1>3. /\ n \in db[H].hostnames /\ n \notin NodesIn(found) /\ n \in Node
      /\ UNCHANGED <<handlevars, call>>
  BY <1>1, <1>2, HostsType DEF Unlisted, Database, CollectName
<1>4. NodesIn(found) \subseteq db[H].hostnames /\ Distinct(found)
  BY <1>1 DEF ListInv
<1>5. CASE Len(found) >= call.len
  <2>1. pc' = "idle" /\ Fails("OVERFLOW")
    BY <1>2, <1>5 DEF Store, Fails
  <2>2. Right'
    BY <1>1, <1>3, <1>4, <1>5, <2>1, ArrayFull
  <2> QED
    BY <2>1, <2>2, NoLoop
<1>6. CASE ~ (Len(found) >= call.len)
  <2>1. found' = Append(found, n) /\ pc' = pc /\ db' = db /\ H' = H
    BY <1>2, <1>3, <1>6 DEF Store, handlevars, H
  <2>2. NodesIn(found') = NodesIn(found) \cup {n} /\ Distinct(found')
    BY <1>1, <1>3, <1>4, <2>1, AppendFound
  <2> QED
    BY <1>1, <1>3, <1>4, <2>1, <2>2, Unanswered DEF ScanInv, ListInv
<1> QED
  BY <1>5, <1>6

LEMMA ListAnswers ==
  ASSUME AnswerInv, ListReturns \/ CutListShort
  PROVE  ScanInv' /\ ListInv' /\ Right'
<1>1. /\ TypeInv /\ IndexIsRight /\ IndexSound /\ ListInv
      /\ call.op = "getnodes" /\ pc \in {"hits", "names"} /\ pc' = "idle"
      /\ db' = db /\ flags' = flags /\ H' = H /\ call' = call
      /\ index_flags' = index_flags /\ attrval_index_attr' = attrval_index_attr
      /\ error' = "SUCCESS" /\ found' = found /\ rv' = Len(found)
  BY DEF AnswerInv, IndexInv, ListReturns, CutListShort, TypeInv, CallInv,
         Returns, H, handlevars, indexvars
<1>2. TestsAgree' /\ AttrsAreRight' /\ RoomForAll'
  BY <1>1 DEF TestsAgree, AttrsAreRight, RoomForAll, Answered
<1>3. CASE CutListShort
  <2>1. fault' = TRUE
    BY <1>3 DEF CutListShort
  <2> QED
    BY <1>1, <1>2, <2>1, NoLoop DEF Right, NodesAreRight
<1>4. CASE ListReturns
  <2>1. ASSUME Current
        PROVE  Listed = NodesWith(db[H], flags[H], call.attr, call.val)
    <3>1. CASE pc = "hits"
      <4>1. Hits \in Seq(Node) /\ Len(found) = Len(Hits)
            /\ \A i \in 1 .. Len(found) : found[i] = Hits[i]
        <5>1. next > Len(Hits) /\ Len(found) = next - 1
              /\ next <= Len(Hits) + 1 /\ next \in Nat
              /\ \A i \in 1 .. Len(found) : found[i] = Hits[i]
          BY <1>1, <1>4, <3>1 DEF ListReturns, ListInv, TypeInv, TypeOK
        <5>2. Hits \in Seq(Node) /\ Len(Hits) \in Nat
          BY <1>1, <3>1, HitsAre
        <5> QED
          BY <5>1, <5>2
      <4>2. Listed = NodesIn(Hits)
        BY <4>1 DEF Listed, NodesIn
      <4> QED
        BY <1>1, <2>1, <3>1, <4>2, HitsAre
    <3>2. CASE pc = "names"
      <4>1. NodesIn(found) = db[H].hostnames /\ call.attr = NULL
        BY <1>1, <1>4, <3>2
        DEF ListReturns, ListInv, Unlisted, TypeInv, CallInv
      <4> QED
        BY <4>1 DEF Listed, NodesIn, NodesWith
    <3> QED
      BY <1>1, <3>1, <3>2
  <2>2. OncePerLine(db[H]) => Distinct(found)
    <3>1. CASE pc = "hits"
      <4>1. Len(found) = next - 1 /\ next <= Len(Hits) + 1 /\ next \in Nat
            /\ \A i \in 1 .. Len(found) : found[i] = Hits[i]
        BY <1>1, <3>1 DEF ListInv, TypeInv, TypeOK
      <4>2. Hits \in Seq(Node) /\ Len(Hits) \in Nat
            /\ (OncePerLine(db[H]) => Distinct(Hits))
        BY <1>1, <3>1, HitsAre
      <4> QED
        BY <4>1, <4>2 DEF Distinct
    <3>2. CASE pc = "names"
      BY <1>1, <3>2 DEF ListInv
    <3> QED
      BY <1>1, <3>1, <3>2
  <2>3. NodesAreRight'
    BY <1>1, <2>1, <2>2 DEF NodesAreRight, Listed, Current, Indexed
  <2> QED
    BY <1>1, <1>2, <2>3, NoLoop DEF Right
<1> QED
  BY <1>3, <1>4

(***************************************************************************)
(* The questions answered from one line.                                   *)
(***************************************************************************)

(* The first line that gives a node an attribute is the only one that does. *)
LEMMA OnlyLine ==
  ASSUME TypeInv, NEW h \in Handle, is_loaded[h], NEW n \in Node,
         NEW a \in Attr, NEW i \in 1 .. Len(db[h].genders_hosts),
         NEW j \in 1 .. Len(db[h].genders_hosts),
         Gives(db[h].genders_hosts[i], n, a),
         Gives(db[h].genders_hosts[j], n, a)
  PROVE  i = j
<1>1. NoDuplicateAttrsIn(db[h].genders_hosts)
  BY LoadableAssumption DEF TypeInv, HandleInv, ConsistentDatabase
<1>2. /\ n \in NodesIn(db[h].genders_hosts[i].hl)
      /\ n \in NodesIn(db[h].genders_hosts[j].hl)
      /\ a \in AttrsIn(db[h].genders_hosts[i].attrval_index)
      /\ a \in AttrsIn(db[h].genders_hosts[j].attrval_index)
  BY DEF Gives, AttrsIn
<1> QED
  BY <1>1, <1>2 DEF NoDuplicateAttrsIn, Clash

LEMMA FirstLineGives ==
  ASSUME TypeInv, NEW h \in Handle, is_loaded[h], NEW n \in Node,
         NEW a \in Attr
  PROVE  /\ \A i \in FirstLine(h, n, a) : \A w \in Values :
              Has(db[h], n, a, w) <=>
                db[h].genders_hosts[i].attrval_index[a] = w
         /\ FirstLine(h, n, a) = {} =>
              \A w \in Values : ~ Has(db[h], n, a, w)
<1> DEFINE hosts == db[h].genders_hosts
<1>1. \A i \in 1 .. Len(hosts) :
        /\ Gives(hosts[i], n, a) <=> i \in FirstLine(h, n, a)
        /\ \A j \in 1 .. i - 1 : j \in 1 .. Len(hosts)
  <2>1. Len(hosts) \in Nat
    BY HostsType
  <2>2. ASSUME NEW i \in 1 .. Len(hosts), NEW j \in 1 .. i - 1
        PROVE  /\ j \in 1 .. Len(hosts)
               /\ Gives(hosts[i], n, a) => ~ Gives(hosts[j], n, a)
    <3>1. j \in 1 .. Len(hosts) /\ i # j
      BY <2>1, <2>2
    <3> QED
      BY <3>1, OnlyLine
  <2> QED
    BY <2>2 DEF FirstLine
<1>2. \A w \in Values :
        Has(db[h], n, a, w) <=>
          \E i \in 1 .. Len(hosts) : /\ n \in NodesIn(hosts[i].hl)
                                     /\ hosts[i].attrval_index[a] = w
  <2>1. ASSUME NEW w \in Values
        PROVE  /\ <<n, a, w>> \in Node \X Attr \X (Value \cup {NoValue})
               /\ <<n, a, w>>[1] = n /\ <<n, a, w>>[2] = a
               /\ <<n, a, w>>[3] = w
    BY DEF Values
  <2> QED
    BY <2>1 DEF Has, Table
<1>3. ASSUME NEW i \in 1 .. Len(hosts), NEW w \in Values,
             n \in NodesIn(hosts[i].hl), hosts[i].attrval_index[a] = w
      PROVE  Gives(hosts[i], n, a)
  BY <1>3, MarksAreNotValues DEF Gives, Values
<1>4. \A i \in FirstLine(h, n, a) :
        i \in 1 .. Len(hosts) /\ n \in NodesIn(hosts[i].hl)
  BY DEF FirstLine, Gives
<1>5. \A i \in FirstLine(h, n, a) : \A j \in FirstLine(h, n, a) : i = j
  BY OnlyLine DEF FirstLine
<1> HIDE DEF hosts
<1>6. \A i \in FirstLine(h, n, a) : \A w \in Values :
        Has(db[h], n, a, w) <=> hosts[i].attrval_index[a] = w
  BY <1>1, <1>2, <1>3, <1>4, <1>5
<1>7. FirstLine(h, n, a) = {} => \A w \in Values : ~ Has(db[h], n, a, w)
  BY <1>1, <1>2, <1>3, SMTT(30)
<1> QED
  BY <1>6, <1>7 DEF hosts

LEMMA AnswerRight ==
  ASSUME TypeInv, NEW h \in Handle, is_loaded[h], NEW n \in Node,
         NEW a \in Attr, NEW val \in Result \cup {NULL},
         NEW len \in Nat \cup {NULL}, len = NULL => val = NULL,
         Answer(h, n, a, val, len)
  PROVE  /\ rv' >= 0 =>
              /\ rv' = 1 <=> n \in NodesWith(db[h], flags[h], a, val)
              /\ found' # <<>> =>
                   n \in NodesWith(db[h], flags[h], a, found'[1])
<1>1. a # NULL /\ NULL \notin Result
  BY HandleAssumption
<1>2. CASE \E e : Fails(e)
  BY <1>2 DEF Fails
<1>3. CASE FirstLine(h, n, a) = {} /\ Returns(0, <<>>, <<>>)
  <2>1. n \notin NodesWith(db[h], flags[h], a, val)
    BY <1>1, <1>3, FirstLineGives DEF NodesWith, Values
  <2> QED
    BY <1>3, <2>1 DEF Returns
<1>4. ASSUME NEW i \in FirstLine(h, n, a), NEW v, NEW r,
             v = db[h].genders_hosts[i].attrval_index[a],
             r = Reading(flags[h], v, n),
             \/ v = NoValue
                /\ Returns(IF val = NULL THEN 1 ELSE 0, <<>>, <<>>)
             \/ v # NoValue /\ len = NULL /\ Returns(1, <<>>, <<>>)
             \/ v # NoValue
                /\ Returns(IF val \in {NULL, r} THEN 1 ELSE 0, <<r>>, <<>>)
      PROVE  /\ rv' = 1 <=> n \in NodesWith(db[h], flags[h], a, val)
             /\ found' # <<>> =>
                  n \in NodesWith(db[h], flags[h], a, found'[1])
  <2>1. v \in Values /\ v # Absent
    <3>1. /\ i \in 1 .. Len(db[h].genders_hosts)
          /\ db[h].genders_hosts[i].attrval_index[a] # Absent
      BY DEF FirstLine, Gives
    <3> QED
      BY <1>4, <3>1, HostsType DEF Values
  <2>2. \A w \in Values : Has(db[h], n, a, w) <=> w = v
    BY <1>4, FirstLineGives
  <2>3. \A x : n \in NodesWith(db[h], flags[h], a, x) <=>
                 (x # NULL => v # NoValue /\ r = x)
    BY <1>1, <1>4, <2>1, <2>2 DEF NodesWith, Values
  <2>4. CASE found' = <<>>
    BY <1>4, <2>3, <2>4 DEF Returns
  <2>5. CASE found' # <<>>
    <3>1. /\ v # NoValue /\ found' = <<r>>
          /\ rv' = IF val \in {NULL, r} THEN 1 ELSE 0
      BY <1>4, <2>5 DEF Returns
    <3> QED
      BY <2>3, <3>1
  <2> QED
    BY <2>4, <2>5
<1> QED
  BY <1>2, <1>3, <1>4 DEF Answer

LEMMA TestsRight ==
  ASSUME TypeInv, NEW h \in Handle, NEW n \in Node, NEW a \in Attr,
         \/ \E l \in Length \cup {NULL} : TestAttr(h, n, a, l)
         \/ \E v \in Result \cup {NULL} : TestAttrVal(h, n, a, v)
  PROVE  ScanInv' /\ ListInv' /\ Right'
<1>1. PICK val \in Result \cup {NULL}, len \in Nat \cup {NULL} :
         /\ Answer(h, n, a, val, len) /\ (len = NULL => val = NULL)
         /\ \/ Invoke("testattr", h, h, n, a, val, len)
            \/ Invoke("testattrval", h, h, n, a, val, len)
  <2>1. CASE \E l \in Length \cup {NULL} : TestAttr(h, n, a, l)
    BY <2>1, HandleAssumption DEF TestAttr
  <2>2. CASE \E v \in Result \cup {NULL} : TestAttrVal(h, n, a, v)
    <3>1. db[h].maxvallen + 1 \in Nat /\ db[h].maxvallen + 1 # NULL
      <4>1. db[h].maxvallen + 1 \in Nat
        BY HostsType DEF Database
      <4> QED
        BY <4>1, HandleAssumption
    <3> QED
      BY <2>2, <3>1 DEF TestAttrVal
  <2> QED
    BY <2>1, <2>2
<1>2. is_loaded[h] /\ UNCHANGED handlevars
  BY DEF TestAttr, TestAttrVal, Ready
<1>3. /\ H' = h /\ call'.node = n /\ call'.attr = a /\ call'.val = val
      /\ call'.op \in {"testattr", "testattrval"}
      /\ db' = db /\ flags' = flags
  BY <1>1, <1>2 DEF Invoke, H, handlevars
<1>4. pc' = "idle"
  BY <1>1, AnswerType
<1>5. TestsAgree'
  BY <1>1, <1>2, <1>3, AnswerRight DEF TestsAgree, Answered
<1> QED
  BY <1>3, <1>4, <1>5, NoLoop DEF Right, NodesAreRight, AttrsAreRight, RoomForAll, Answered

LEMMA SomeNode ==
  ASSUME NEW T, NEW s \in Seq(T)
  PROVE  s # <<>> <=> NodesIn(s) # {}
<1>1. CASE s = <<>>
  BY <1>1, NoNodes
<1>2. CASE s # <<>>
  <2>1. Len(s) \in Nat /\ Len(s) # 0
    BY <1>2
  <2>2. 1 \in 1 .. Len(s)
    BY <2>1
  <2> QED
    BY <1>2, <2>2 DEF NodesIn
<1> QED
  BY <1>1, <1>2

LEMMA IsAttrValRight ==
  ASSUME TypeInv, TypeInv', IndexIsRight, NEW h \in Handle, NEW a \in Attr,
         NEW v \in Result, IsAttrVal(h, a, v)
  PROVE  ScanInv' /\ ListInv' /\ Right'
<1>1. CASE ~ Indexed(h, a, v)
  BY <1>1, ScanStarts DEF IsAttrVal
<1>2. CASE Indexed(h, a, v)
  <2>1. /\ pc' = "idle" /\ error' = "SUCCESS"
        /\ rv' = IF attrval_index[h][v] # <<>> THEN 1 ELSE 0
        /\ H' = h /\ call'.attr = a /\ call'.val = v
        /\ call'.op = "isattrval" /\ UNCHANGED handlevars
        /\ db' = db /\ flags' = flags
        /\ index_flags' = index_flags
        /\ attrval_index_attr' = attrval_index_attr
    BY <1>2 DEF IsAttrVal, Returns, Invoke, H, handlevars, indexvars
  <2>2. /\ attrval_index_attr[h] = a /\ a # NULL /\ flags[h] \in Flags
        /\ attrval_index[h][v] \in Seq(Node)
    BY <1>2 DEF Indexed, TypeInv, TypeOK, IndexTable
  <2>3. attrval_index[h][v] # <<>> <=> NodesIn(attrval_index[h][v]) # {}
    BY <2>2, SomeNode
  <2>4. ASSUME Current'
        PROVE  NodesIn(attrval_index[h][v]) = NodesWith(db[h], flags[h], a, v)
    <3>1. v # NOVALUE /\ index_flags[h] = flags[h]
      BY <2>1, <2>2, <2>4, <1>2 DEF Current, Indexed
    <3>2. index_flags[h] # "PARTIAL"
      BY <2>2, <3>1 DEF Flags
    <3> QED
      BY <2>2, <3>1, <3>2 DEF IndexIsRight
  <2>5. TestsAgree'
    BY <2>1, <2>3, <2>4 DEF TestsAgree, Answered
  <2> QED
    BY <2>1, <2>5, NoLoop DEF Right, NodesAreRight, AttrsAreRight, RoomForAll, Answered
<1> QED
  BY <1>1, <1>2

LEMMA GetNodesStarts ==
  ASSUME TypeInv, TypeInv', NEW h \in Handle, NEW a \in Attr \cup {NULL},
         NEW v \in Result \cup {NULL}, NEW l \in Length, GetNodes(h, a, v, l)
  PROVE  ScanInv' /\ ListInv' /\ Right'
<1>1. CASE Walk("lines")
  BY <1>1, ScanStarts
<1>2. CASE Walk("hits") \/ Walk("names")
  <2>1. /\ pc' \in {"hits", "names"} /\ found' = <<>> /\ next' = 1
    BY <1>2 DEF Walk, WalkDone
  <2>2. pc' = "hits" => Hits' \in Seq(Node)
    BY DEF TypeInv, TypeOK, CallInv, Call, H, Hits, IndexTable
  <2>3. pc' = "hits" => next' <= Len(Hits') + 1 /\ Len(found') = next' - 1
    BY <2>1, <2>2
  <2>4. ListInv'
    BY <2>1, <2>3, NoNodes DEF ListInv
  <2> QED
    BY <2>1, <2>4, Unanswered DEF ScanInv
<1> QED
  BY <1>1, <1>2 DEF GetNodes

(***************************************************************************)
(* The attributes of a node.                                               *)
(***************************************************************************)
LEMMA AttrsWalk ==
  ASSUME TypeInv, pc = "attrs"
  PROVE  /\ H \in Handle /\ call.op = "getattr" /\ call.node \in Node
         /\ call.len \in Nat
         /\ Hosts \in Seq(GendersHosts) /\ Len(Hosts) \in Nat
         /\ line \in Nat \ {0}
         /\ line <= Len(Hosts) => line \in 1 .. Len(Hosts)
         /\ found \in Seq(Node \cup Attr \cup Result)
         /\ vals \in Seq(Result \cup {NULL})
<1>1. H \in Handle /\ call.op = "getattr" /\ call.node \in db[H].hostnames
      /\ call.len \in Nat
  BY DEF TypeInv, TypeOK, CallInv, Call, H
<1>2. db[H].hostnames \subseteq Node /\ Hosts \in Seq(GendersHosts)
      /\ Len(Hosts) \in Nat
  BY <1>1, HostsType DEF Database, Hosts
<1>3. line \in Nat \ {0} /\ found \in Seq(Node \cup Attr \cup Result)
      /\ vals \in Seq(Result \cup {NULL})
  BY DEF TypeInv, TypeOK
<1> QED
  BY <1>1, <1>2, <1>3

LEMMA AttrsStart ==
  ASSUME TypeInv', Walk("attrs")
  PROVE  ScanInv' /\ ListInv' /\ Right'
<1>1. /\ pc' = "attrs" /\ found' = <<>> /\ vals' = <<>> /\ seen' = {}
      /\ line' = 1
  BY DEF Walk, WalkDone
<1>2. Hosts' \in Seq(GendersHosts)
  BY HostsPrimed
<1>3. Given(Hosts', call'.node, 1) = {}
  BY <1>2 DEF Given
<1>4. AttrsInv'
  <2>1. NodesIn(found') = {} /\ Distinct(found')
    BY <1>1, NoNodes
  <2>2. Len(vals') = Len(found') /\ 1 .. Len(found') = {}
    BY <1>1
  <2>3. NodesIn(found') = Given(Hosts', call'.node, line') \cup seen'
    BY ONLY <1>1, <1>3, <2>1
  <2>4. seen' \subseteq IF line' <= Len(Hosts') THEN LineAttrs' ELSE {}
    BY ONLY <1>1
  <2> QED BY <2>1, <2>2, <2>3, <2>4 DEF AttrsInv
<1> QED
  BY <1>1, <1>4, Unanswered DEF ScanInv, ListInv

(* The attributes of the line that is left have all been taken.             *)
LEMMA AttrsLeaveLine ==
  ASSUME AnswerInv, NextAttrLine
  PROVE  ScanInv' /\ ListInv' /\ Right'
<1>1. /\ TypeInv /\ AttrsInv /\ pc = "attrs" /\ pc' = "attrs"
      /\ line <= Len(Hosts) /\ line' = line + 1 /\ seen' = {}
      /\ Hosts' = Hosts /\ call' = call /\ H' = H /\ db' = db
      /\ flags' = flags /\ found' = found /\ vals' = vals
  BY DEF AnswerInv, IndexInv, ListInv, NextAttrLine, OnAttrs, Hosts, H,
         handlevars, outvars
<1>2. seen = LineAttrs
  BY <1>1 DEF AttrsInv, NextAttrLine
<1>3. line \in 1 .. Len(Hosts) /\ Len(Hosts) \in Nat
      /\ \A i \in 1 .. Len(Hosts) : i < line + 1 <=> i < line \/ i = line
  BY <1>1, AttrsWalk
<1>4. LineAttrs = {a \in Attr : /\ call.node \in NodesIn(Hosts[line].hl)
                                /\ a \in AttrsIn(Hosts[line].attrval_index)}
  BY DEF LineAttrs, Gh, AttrsIn
<1>5. Given(Hosts, call.node, line + 1) =
        Given(Hosts, call.node, line) \cup LineAttrs
  BY <1>3, <1>4 DEF Given
<1>6. AttrsInv'
  BY <1>1, <1>2, <1>5 DEF AttrsInv
<1> QED
  BY <1>1, <1>6, Unanswered DEF ScanInv, ListInv

(* An attribute of the line was not on an earlier one that has the node.    *)
LEMMA NewAttr ==
  ASSUME TypeInv, AttrsInv, OnAttrs, NEW a \in LineAttrs \ seen
  PROVE  /\ a \in Attr /\ a \notin NodesIn(found)
         /\ a \in db[H].attrs /\ NodesIn(found) \subseteq db[H].attrs
         /\ call.node \in NodesIn(Gh.hl)
         /\ Gh.attrval_index[a] \in Value \cup {NoValue}
         /\ Has(db[H], call.node, a, Gh.attrval_index[a])
<1>1. /\ pc = "attrs" /\ H \in Handle /\ line \in 1 .. Len(Hosts)
      /\ Len(Hosts) \in Nat /\ call.node \in Node
      /\ Hosts \in Seq(GendersHosts)
  BY AttrsWalk DEF OnAttrs
<1>2. /\ a \in Attr /\ call.node \in NodesIn(Hosts[line].hl)
      /\ a \in AttrsIn(Hosts[line].attrval_index)
  BY DEF LineAttrs, AttrsIn, Gh
<1>3. /\ ConsistentDatabase(db[H])
      /\ Hosts = db[H].genders_hosts
  BY <1>1, LoadedHosts DEF Hosts
<1>4. a \notin Given(Hosts, call.node, line)
  <2> SUFFICES ASSUME NEW i \in 1 .. Len(Hosts), i < line,
                      call.node \in NodesIn(Hosts[i].hl),
                      a \in AttrsIn(Hosts[i].attrval_index)
               PROVE  FALSE
    BY DEF Given
  <2>1. i # line /\ ~ Clash(Hosts[i].hl, Hosts[i].attrval_index,
                            Hosts[line].hl, Hosts[line].attrval_index)
    BY <1>1, <1>3 DEF ConsistentDatabase, NoDuplicateAttrsIn
  <2> QED
    BY <1>2, <2>1 DEF Clash
<1>5. a \notin NodesIn(found)
  BY <1>4 DEF AttrsInv
<1>6. db[H].attrs = {b \in Attr : \E i \in 1 .. Len(Hosts) :
                       b \in AttrsIn(Hosts[i].attrval_index)}
  BY <1>3 DEF ConsistentDatabase
<1>7. a \in db[H].attrs /\ LineAttrs \subseteq db[H].attrs
  BY <1>1, <1>2, <1>6 DEF LineAttrs, AttrsIn, Gh
<1>8. Given(Hosts, call.node, line) \subseteq db[H].attrs
  BY <1>6 DEF Given
<1>9. NodesIn(found) \subseteq db[H].attrs
  BY <1>7, <1>8 DEF AttrsInv, OnAttrs
<1>10. Gh.attrval_index[a] \in Value \cup {NoValue}
  BY <1>1, <1>2, LineType DEF AttrsIn, Gh, Values
<1>11. <<call.node, a, Hosts[line].attrval_index[a]>> \in Table(Hosts)
  BY <1>1, <1>2, <1>10 DEF Table, Gh
<1> QED
  BY <1>2, <1>3, <1>5, <1>7, <1>9, <1>10, <1>11 DEF Has, Gh

LEMMA AttrsRoom ==
  ASSUME TypeInv, AttrsInv, OnAttrs, NEW a \in LineAttrs \ seen,
         Len(found) >= call.len, Fails("OVERFLOW"),
         UNCHANGED <<handlevars, call>>
  PROVE  Right'
<1>1. /\ pc = "attrs" /\ H \in Handle /\ call.op = "getattr"
      /\ call.len \in Nat /\ found \in Seq(Node \cup Attr \cup Result)
  BY AttrsWalk DEF OnAttrs
<1>2. IsFiniteSet(db[H].attrs) /\ db[H].numattrs = Cardinality(db[H].attrs)
  BY <1>1, LoadedHosts DEF ConsistentDatabase
<1>3. /\ a \in db[H].attrs /\ a \notin NodesIn(found)
      /\ NodesIn(found) \subseteq db[H].attrs /\ Distinct(found)
  BY NewAttr DEF AttrsInv
<1>4. Len(found) < Cardinality(db[H].attrs)
  BY <1>1, <1>2, <1>3, RoomLeft
<1>5. Len(found) \in Nat /\ Cardinality(db[H].attrs) \in Nat
  BY <1>1, <1>2, FS_CardinalityType
<1>6. call.len < db[H].numattrs
  BY <1>1, <1>2, <1>4, <1>5
<1>7. rv' = -1 /\ db' = db /\ H' = H /\ call' = call
  BY DEF Fails, handlevars, H
<1> QED
  BY <1>1, <1>6, <1>7
  DEF Right, NodesAreRight, TestsAgree, AttrsAreRight, RoomForAll, Answered

LEMMA AppendBoth ==
  ASSUME NEW S, NEW T, NEW s \in Seq(S), NEW t \in Seq(T), NEW x \in S,
         NEW y \in T, Len(s) = Len(t)
  PROVE  /\ Len(Append(s, x)) = Len(Append(t, y))
         /\ \A i \in 1 .. Len(Append(s, x)) :
              \/ /\ i \in 1 .. Len(s)
                 /\ Append(s, x)[i] = s[i] /\ Append(t, y)[i] = t[i]
              \/ Append(s, x)[i] = x /\ Append(t, y)[i] = y
OBVIOUS

LEMMA AttrStored ==
  ASSUME TypeInv, AttrsInv, OnAttrs, NEW a \in LineAttrs \ seen, NEW v, NEW r,
         v = Gh.attrval_index[a],
         r = IF v = NoValue THEN NULL ELSE Reading(flags[H], v, call.node),
         found' = Append(found, a), vals' = Append(vals, r),
         seen' = seen \cup {a},
         UNCHANGED <<pc, line, handlevars, call>>
  PROVE  AttrsInv'
<1>1. /\ call.node \in Node /\ found \in Seq(Node \cup Attr \cup Result)
      /\ vals \in Seq(Result \cup {NULL}) /\ H \in Handle
  BY AttrsWalk DEF OnAttrs
<1>2. /\ a \in Attr /\ a \notin NodesIn(found) /\ v \in Value \cup {NoValue}
      /\ Has(db[H], call.node, a, v)
  BY NewAttr
<1>3. r \in Result \cup {NULL}
  BY <1>1, <1>2, ReadingType
<1>4. NodesIn(found') = NodesIn(found) \cup {a} /\ Distinct(found')
  BY <1>1, <1>2, AppendNode DEF AttrsInv
<1>5. r # NULL => call.node \in NodesWith(db[H], flags[H], a, r)
  BY <1>1, <1>2, HandleAssumption DEF NodesWith
<1>6. /\ Len(vals') = Len(found')
      /\ \A i \in 1 .. Len(found') :
           \/ /\ i \in 1 .. Len(found)
              /\ found'[i] = found[i] /\ vals'[i] = vals[i]
           \/ found'[i] = a /\ vals'[i] = r
  BY <1>1, <1>2, <1>3, AppendBoth DEF AttrsInv
<1>7. /\ Hosts' = Hosts /\ LineAttrs' = LineAttrs /\ H' = H /\ db' = db
      /\ flags' = flags /\ call' = call /\ line' = line
  BY DEF Hosts, LineAttrs, Gh, H, handlevars
<1>8. \A i \in 1 .. Len(found') :
        vals'[i] # NULL => call.node \in
                            NodesWith(db[H], flags[H], found'[i], vals'[i])
  BY <1>5, <1>6 DEF AttrsInv
<1>9. seen' \subseteq IF line <= Len(Hosts) THEN LineAttrs ELSE {}
  BY DEF AttrsInv, OnAttrs
<1> QED
  BY <1>4, <1>6, <1>7, <1>8, <1>9 DEF AttrsInv

LEMMA AttrsCollected ==
  ASSUME AnswerInv, CollectAttr
  PROVE  ScanInv' /\ ListInv' /\ Right'
<1>1. /\ TypeInv /\ AttrsInv /\ pc = "attrs" /\ OnAttrs
      /\ UNCHANGED <<handlevars, call>>
  BY DEF AnswerInv, IndexInv, ListInv, CollectAttr, OnAttrs
<1>2. PICK a \in LineAttrs \ seen :
        \/ Len(found) >= call.len /\ Fails("OVERFLOW")
        \/ Fails("INTERNAL")
        \/ \E v, r :
             /\ v = Gh.attrval_index[a]
             /\ r = IF v = NoValue THEN NULL
                    ELSE Reading(flags[H], v, call.node)
             /\ found' = Append(found, a) /\ vals' = Append(vals, r)
             /\ seen' = seen \cup {a} /\ UNCHANGED <<pc, line>>
  BY DEF CollectAttr
<1>3. CASE Len(found) >= call.len /\ Fails("OVERFLOW")
  BY <1>1, <1>3, AttrsRoom, NoLoop DEF Fails
<1>4. CASE Fails("INTERNAL")
  BY <1>4, Unanswered, NoLoop DEF Fails
<1>5. ASSUME NEW v, NEW r,
             v = Gh.attrval_index[a],
             r = IF v = NoValue THEN NULL
                 ELSE Reading(flags[H], v, call.node),
             found' = Append(found, a), vals' = Append(vals, r),
             seen' = seen \cup {a}, UNCHANGED <<pc, line>>
      PROVE  ScanInv' /\ ListInv' /\ Right'
  <2>1. AttrsInv' /\ pc' = "attrs"
    BY <1>1, <1>5, AttrStored
  <2> QED
    BY <2>1, Unanswered DEF ScanInv, ListInv
<1> QED
  BY <1>2, <1>3, <1>4, <1>5

LEMMA AttrsAnswered ==
  ASSUME AnswerInv, AttrsReturn
  PROVE  ScanInv' /\ ListInv' /\ Right'
<1>1. /\ TypeInv /\ AttrsInv /\ pc = "attrs" /\ pc' = "idle"
      /\ line > Len(Hosts) /\ call' = call /\ H' = H /\ db' = db
      /\ flags' = flags /\ found' = found /\ vals' = vals
      /\ rv' = Len(found) /\ error' = "SUCCESS"
  BY DEF AnswerInv, IndexInv, ListInv, AttrsReturn, Returns, H, handlevars
<1>2. /\ call.node \in Node /\ Len(Hosts) \in Nat /\ line \in Nat
      /\ H \in Handle /\ Hosts \in Seq(GendersHosts)
      /\ call.op = "getattr"
  BY <1>1, AttrsWalk
<1>3. NodesIn(found) = Given(Hosts, call.node, line)
  BY <1>1, <1>2 DEF AttrsInv
<1>4. ASSUME NEW a \in Attr
      PROVE  a \in Given(Hosts, call.node, line) <=>
               call.node \in NodesWith(db[H], flags[H], a, NULL)
  <2>1. a \in Given(Hosts, call.node, line) <=>
          \E i \in 1 .. Len(Hosts) :
             /\ call.node \in NodesIn(Hosts[i].hl)
             /\ Hosts[i].attrval_index[a] # Absent
    BY <1>1, <1>2 DEF Given, AttrsIn
  <2>2. a # NULL
    BY HandleAssumption
  <2>3. \A w \in Values :
          Has(db[H], call.node, a, w) <=>
            \E i \in 1 .. Len(Hosts) :
               /\ call.node \in NodesIn(Hosts[i].hl)
               /\ Hosts[i].attrval_index[a] = w
    <3>1. ASSUME NEW w \in Values
          PROVE  /\ <<call.node, a, w>> \in Node \X Attr \X (Value \cup {NoValue})
                 /\ <<call.node, a, w>>[1] = call.node
                 /\ <<call.node, a, w>>[2] = a
                 /\ <<call.node, a, w>>[3] = w
      BY <1>2 DEF Values
    <3> QED
      BY <3>1 DEF Has, Table, Hosts
  <2>4. \A i \in 1 .. Len(Hosts) :
          /\ Hosts[i].attrval_index[a] \in Values \cup {Absent}
          /\ Absent \notin Values
    BY <1>2, LineType, MarksAreNotValues DEF Values
  <2> QED
    BY <1>2, <2>1, <2>2, <2>3, <2>4 DEF NodesWith, Values
<1>5. Listed = {a \in Attr :
                  call.node \in NodesWith(db[H], flags[H], a, NULL)}
  BY <1>3, <1>4 DEF Listed, NodesIn, Given
<1>6. AttrsAreRight'
  BY <1>1, <1>5 DEF AttrsAreRight, AttrsInv, Listed
<1> QED
  BY <1>1, <1>2, <1>6, NoLoop
  DEF Right, NodesAreRight, TestsAgree, RoomForAll, Answered

(***************************************************************************)
(* All steps.                                                              *)
(***************************************************************************)
LEMMA LoopRight ==
  ASSUME AnswerInv, Loop \/ NoMemory \/ CutLineShort \/ CutListShort
  PROVE  ScanInv' /\ ListInv' /\ Right'
<1>1. TypeInv /\ ScanInv
  BY DEF AnswerInv, IndexInv
<1>2. CASE NextLine \/ CutLineShort
  BY <1>1, <1>2, ScanLeavesLine
<1>3. CASE ValueTooLong \/ NoMemory
  <2>1. pc' = "idle" /\ rv' = -1 /\ error' # "OVERFLOW"
    BY <1>3 DEF ValueTooLong, NoMemory, Fails
  <2> QED
    BY <2>1, Unanswered, NoLoop
<1>4. CASE IndexNode
  <2>1. pc' = "lines" /\ call'.op \notin {"getnodes", "isattrval"}
    BY <1>4 DEF IndexNode, Readable, OnNode, OnLine, Indexing
  <2> QED
    BY <2>1, Unanswered, OtherLoop
<1>5. CASE IndexReturns
  <2>1. /\ pc' = "idle" /\ error' # "OVERFLOW"
        /\ call'.op \in {"index_attrvals", "copy"}
    BY <1>5 DEF IndexReturns, Returns, Indexing
  <2> QED
    BY <2>1, OtherCall, NoLoop
<1>6. CASE CollectAttr \/ NextAttrLine \/ AttrsReturn
  BY <1>6, AttrsCollected, AttrsLeaveLine, AttrsAnswered
<1> QED
  BY <1>2, <1>3, <1>4, <1>5, <1>6, ScanVisits, ScanAnswers, HitsStored,
     NamesStored, ListAnswers
  DEF Loop

LEMMA ManagementRight ==
  ASSUME TypeInv', Management
  PROVE  ScanInv' /\ ListInv' /\ Right'
<1>1. pc' = "idle" \/ Walk("lines")
  BY DEF Management, HandleCreate, HandleDestroy, LoadFails, LoadSucceeds,
         SetFlags, IndexAttrVals, Copy, Returns, Fails
<1>2. pc' = "idle" => error' # "OVERFLOW"
  BY DEF Management, HandleCreate, HandleDestroy, LoadFails, LoadSucceeds,
         SetFlags, IndexAttrVals, Copy, Returns, Fails, Walk
<1>3. call'.op \in {"create", "destroy", "load_data", "set_flags",
                    "index_attrvals", "copy"}
  BY DEF Management, HandleCreate, HandleDestroy, LoadFails, LoadSucceeds,
         SetFlags, IndexAttrVals, Copy, Invoke
<1> QED
  BY <1>1, <1>2, <1>3, ScanStarts, OtherCall, NoLoop

LEMMA QuestionRight ==
  ASSUME AnswerInv, TypeInv', \/ Questions
                              \/ \E h \in Handle, o \in Loops : OutOfMemory(h, o)
  PROVE  ScanInv' /\ ListInv' /\ Right'
<1>1. TypeInv /\ IndexIsRight
  BY DEF AnswerInv, IndexInv
<1>2. CASE \E h \in Handle :
              \/ \E o \in Ops : \/ NotLoaded(h, o) \/ WrongParameters(h, o)
                                \/ OutOfMemory(h, o)
  <2>1. pc' = "idle" /\ rv' = -1 /\ error' # "OVERFLOW"
    BY <1>2 DEF NotLoaded, WrongParameters, OutOfMemory, Fails
  <2> QED
    BY <2>1, Unanswered, NoLoop
<1>3. CASE \E h \in Handle : \/ \E n \in Node : IsNode(h, n)
                             \/ \E a \in Attr : IsAttr(h, a)
  <2>1. pc' = "idle" /\ call'.op \in {"isnode", "isattr"}
        /\ error' # "OVERFLOW"
    BY <1>3 DEF IsNode, IsAttr, Invoke, Returns
  <2> QED
    BY <2>1, OtherCall, NoLoop
<1>4. CASE \E h \in Handle : \E n \in Node : \E a \in Attr :
              \/ \E l \in Length \cup {NULL} : TestAttr(h, n, a, l)
              \/ \E v \in Result \cup {NULL} : TestAttrVal(h, n, a, v)
  BY <1>1, <1>4, TestsRight
<1>5. CASE \E h \in Handle : \E a \in Attr : \E v \in Result :
              IsAttrVal(h, a, v)
  BY <1>1, <1>5, IsAttrValRight
<1>6. CASE \E h \in Handle : \E a \in Attr \cup {NULL} :
              \E v \in Result \cup {NULL} : \E l \in Length :
                 GetNodes(h, a, v, l)
  BY <1>1, <1>6, GetNodesStarts
<1>7. CASE \E h \in Handle : \E n \in Node : \E l \in Length : GetAttr(h, n, l)
  <2>1. CASE Walk("attrs")
    BY <2>1, AttrsStart
  <2>2. CASE Fails("NOTFOUND")
    BY <2>2, Unanswered, NoLoop DEF Fails
  <2> QED
    BY <1>7, <2>1, <2>2 DEF GetAttr
<1> QED
  BY <1>2, <1>3, <1>4, <1>5, <1>6, <1>7 DEF Questions, Loops, Ops

LEMMA InitAnswer == Init => AnswerInv
<1> SUFFICES ASSUME Init PROVE AnswerInv
  OBVIOUS
<1>1. pc = "idle" /\ call.op = "create" /\ error = "SUCCESS"
  BY DEF Init
<1>2. Right
  BY <1>1
  DEF Right, NodesAreRight, TestsAgree, AttrsAreRight, RoomForAll, Answered
<1> QED
  BY <1>1, <1>2, InitIndex DEF AnswerInv, ScanInv, ListInv

LEMMA NextAnswer == AnswerInv /\ [Next]_vars => AnswerInv'
<1> SUFFICES ASSUME AnswerInv, [Next]_vars PROVE AnswerInv'
  OBVIOUS
<1>1. IndexInv' /\ TypeInv'
  BY NextIndex DEF AnswerInv, IndexInv
<1>2. CASE Next
  BY <1>1, <1>2, LoopRight, ManagementRight, QuestionRight
  DEF Next, Faults, AnswerInv
<1>3. CASE UNCHANGED vars
  <2>1. UNCHANGED <<handlevars, indexvars, live, is_loaded, flags, db,
                    attrval_index_attr, attrval_index, index_flags,
                    pc, call, line, next, seen, index,
                    found, vals, rv, error, fault>>
    BY <1>3 DEF vars, handlevars, indexvars, walkvars, outvars
  <2>2. /\ H' = H /\ Hosts' = Hosts /\ Visited' = Visited /\ Match' = Match
        /\ Hits' = Hits /\ LineAttrs' = LineAttrs /\ Listed' = Listed
        /\ Current' = Current
    BY <2>1 DEF H, Hosts, Visited, Match, Hits, LineAttrs, Gh, Listed,
                Current, Indexed
  <2>3. ScanInv' /\ ListInv'
    BY <2>1, <2>2 DEF AnswerInv, ScanInv, ListInv, AttrsInv
  <2>4. NodesAreRight' /\ TestsAgree'
    BY <2>1, <2>2 DEF AnswerInv, Right, NodesAreRight, TestsAgree, Answered
  <2>5. AttrsAreRight' /\ RoomForAll'
    BY <2>1, <2>2 DEF AnswerInv, Right, AttrsAreRight, RoomForAll, Answered
  <2> QED
    BY <1>1, <2>3, <2>4, <2>5 DEF AnswerInv, Right
<1> QED
  BY <1>1, <1>2, <1>3

(***************************************************************************)
(* Theorems.                                                               *)
(***************************************************************************)

(* NodesAreRight: genders_getnodes() finds exactly the nodes the database   *)
(* says, each once, whether an index is used or the lines are read.         *)
THEOREM NodesAlwaysRight == Spec => []NodesAreRight
<1>1. AnswerInv => NodesAreRight
  BY DEF AnswerInv, Right
<1> QED
  BY <1>1, InitAnswer, NextAnswer, PTL DEF Spec

(* TestsAgree: genders_testattr(), genders_testattrval() and                *)
(* genders_isattrval() agree with what genders_getnodes() finds.            *)
THEOREM TestsAlwaysAgree == Spec => []TestsAgree
<1>1. AnswerInv => TestsAgree
  BY DEF AnswerInv, Right
<1> QED
  BY <1>1, InitAnswer, NextAnswer, PTL DEF Spec

(* AttrsAreRight: genders_getattr() finds every attribute of the node once, *)
(* with its own value.                                                      *)
THEOREM AttrsAlwaysRight == Spec => []AttrsAreRight
<1>1. AnswerInv => AttrsAreRight
  BY DEF AnswerInv, Right
<1> QED
  BY <1>1, InitAnswer, NextAnswer, PTL DEF Spec

(* RoomForAll: lists of genders_getnumnodes() and genders_getnumattrs()     *)
(* elements never overflow, if no line lists a node twice.                  *)
THEOREM AlwaysRoom == Spec => []RoomForAll
<1>1. AnswerInv => RoomForAll
  BY DEF AnswerInv, Right
<1> QED
  BY <1>1, InitAnswer, NextAnswer, PTL DEF Spec

(***************************************************************************)
(* Proofs about GendersHandle: a copy is equal to its original.  The copy  *)
(* reads its index from the lines again, so that two scans, of which one   *)
(* ended long ago, must have filed the same nodes in the same order.       *)
(***************************************************************************)
(***************************************************************************)
(* What a scan has filed at each of its places, as a function.             *)
(***************************************************************************)
Places == Nat \X Nat

FiledUnder(ix, f, w, n) == [ix EXCEPT ![KeyOf(f, w, n)] = Append(@, n)]

(* The place on a line at which the scan leaves it.                         *)
LastPlace(gh, a) ==
  IF gh.attrval_index[a] = Absent THEN 1 ELSE Len(gh.hl) + 1

(* F is what a scan for a under flags f has filed, up to node m of line l.  *)
FilesTo(F, hosts, a, f, l, m) ==
  /\ F \in [Places -> IndexTable]
  /\ F[<<1, 1>>] = NoIndex
  /\ \A i \in 1 .. Len(hosts) :
       /\ \A j \in 1 .. Len(hosts[i].hl) :
            /\ i < l \/ (i = l /\ j < m)
            /\ hosts[i].attrval_index[a] # Absent
            => F[<<i, j + 1>>] = FiledUnder(F[<<i, j>>], f,
                                    hosts[i].attrval_index[a], hosts[i].hl[j])
       /\ i < l => F[<<i + 1, 1>>] = F[<<i, LastPlace(hosts[i], a)>>]

Files(F, hosts, a, f) == FilesTo(F, hosts, a, f, Len(hosts) + 1, 1)
FiledIn(F, hosts) == F[<<Len(hosts) + 1, 1>>]

(***************************************************************************)
(* The invariant.                                                          *)
(***************************************************************************)

(* A scan that builds an index keeps to the places.                         *)
PlaceInv ==
  pc = "lines" /\ Indexing =>
    /\ line <= Len(Hosts) => next <= LastPlace(Gh, call.attr)
    /\ line > Len(Hosts) => line = Len(Hosts) + 1 /\ next = 1

(* It has filed what some function says, and what any says that says all.   *)
FilingInv ==
  pc = "lines" /\ Indexing /\ ~ fault =>
    /\ \E F : /\ FilesTo(F, Hosts, call.attr, flags[H], line, next)
              /\ index = F[<<line, next>>]
    /\ \A F : Files(F, Hosts, call.attr, flags[H]) =>
                index = F[<<line, next>>]

(* So has the scan that made an index.                                      *)
MadeInv ==
  \A h \in Handle :
    IF attrval_index_attr[h] = NULL THEN attrval_index[h] = NoIndex
    ELSE index_flags[h] # "PARTIAL" =>
           \E F : /\ Files(F, db[h].genders_hosts, attrval_index_attr[h],
                           index_flags[h])
                  /\ attrval_index[h] = FiledIn(F, db[h].genders_hosts)

(* A copy whose index is being built has all else of its original.          *)
CopyInv ==
  pc # "idle" /\ call.op = "copy" =>
    /\ pc = "lines" /\ call.h # H
    /\ db[H] = db[call.h] /\ flags[H] = flags[call.h]
    /\ call.attr = attrval_index_attr[call.h]

EqualInv ==
  TypeInv /\ PlaceInv /\ FilingInv /\ MadeInv /\ CopyInv /\ CopyIsEqual

(***************************************************************************)
(* A scan that builds an index.                                            *)
(***************************************************************************)
LEMMA FiledUnderType ==
  ASSUME NEW ix \in IndexTable, NEW k \in Result, NEW n \in Node
  PROVE  [ix EXCEPT ![k] = Append(@, n)] \in IndexTable
BY DEF IndexTable

(* Where the scan is, and what one of its steps is about.                   *)
LEMMA OnPlace ==
  ASSUME TypeInv, PlaceInv, OnLine, Indexing
  PROVE  /\ pc = "lines" /\ line \in 1 .. Len(Hosts) /\ next \in Nat \ {0}
         /\ Len(Hosts) \in Nat /\ index \in IndexTable
         /\ next <= LastPlace(Hosts[line], call.attr)
         /\ Len(Gh.hl) \in Nat
         /\ Relevant <=> Av # Absent
         /\ ~ Relevant => next = 1
<1>1. /\ pc = "lines" /\ line \in 1 .. Len(Hosts) /\ next \in Nat \ {0}
      /\ Len(Hosts) \in Nat /\ index \in IndexTable /\ Len(Gh.hl) \in Nat
      /\ next <= LastPlace(Hosts[line], call.attr)
  BY ScanType DEF OnLine, PlaceInv, Gh, TypeInv, TypeOK
<1>2. Relevant <=> Av # Absent
  BY <1>1 DEF Relevant, TypeInv, CallInv
<1>3. ~ Relevant => next = 1
  BY <1>1, <1>2 DEF LastPlace, Av, Gh
<1> QED
  BY <1>1, <1>2, <1>3

LEMMA ScanGoesOn ==
  ASSUME UNCHANGED <<handlevars, pc, call>>
  PROVE  /\ pc' = pc /\ H' = H /\ Hosts' = Hosts /\ call' = call
         /\ flags' = flags /\ Indexing' = Indexing
BY DEF handlevars, H, Hosts, Indexing

LEMMA FileNode ==
  ASSUME EqualInv, IndexNode
  PROVE  PlaceInv' /\ FilingInv'
<1> USE DEF EqualInv
<1> DEFINE a == call.attr
           f == flags[H]
<1>1. /\ OnNode /\ OnLine /\ Indexing /\ Relevant
      /\ UNCHANGED <<handlevars, pc, call, line, fault>> /\ next' = next + 1
      /\ index' = [index EXCEPT ![Key] = Append(@, Nd)]
  BY DEF IndexNode, Readable, OnNode
<1>2. /\ pc = "lines" /\ line \in 1 .. Len(Hosts) /\ next \in Nat \ {0}
      /\ Len(Hosts) \in Nat /\ index \in IndexTable /\ Len(Gh.hl) \in Nat
      /\ Av # Absent
  BY <1>1, OnPlace
<1>3. /\ H' = H /\ Hosts' = Hosts /\ a' = a /\ f' = f /\ pc' = pc
      /\ Indexing' = Indexing
  BY <1>1, ScanGoesOn
<1>4. next \in 1 .. Len(Hosts[line].hl)
  BY <1>1, <1>2 DEF OnNode, Gh
<1>5. PlaceInv'
  BY <1>1, <1>2, <1>3, <1>4 DEF PlaceInv, LastPlace, Gh, Av
<1>6. index' = FiledUnder(index, f, Hosts[line].attrval_index[a],
                          Hosts[line].hl[next])
  BY <1>1 DEF FiledUnder, Key, KeyOf, Val, Av, Nd, Gh
<1>7. index' \in IndexTable
  BY <1>1, <1>2, ReadableType, FiledUnderType
<1>8. ASSUME ~ fault
      PROVE  \E F : FilesTo(F, Hosts, a, f, line, next + 1)
                    /\ index' = F[<<line, next + 1>>]
  <2>1. PICK F : FilesTo(F, Hosts, a, f, line, next)
                 /\ index = F[<<line, next>>]
    BY <1>1, <1>2, <1>8 DEF FilingInv
  <2> DEFINE G == [F EXCEPT ![<<line, next + 1>>] = index']
  <2>2. <<line, next + 1>> \in Places /\ F \in [Places -> IndexTable]
    BY <1>2, <2>1 DEF Places, FilesTo
  <2>3. /\ G \in [Places -> IndexTable]
        /\ G[<<line, next + 1>>] = index'
        /\ \A p \in Places : p # <<line, next + 1>> => G[p] = F[p]
    BY <1>7, <2>2
  <2> HIDE DEF G
  <2>4. \A i, j \in Nat : i # line \/ j # next + 1 => G[<<i, j>>] = F[<<i, j>>]
    BY <2>3 DEF Places
  <2>5. G[<<1, 1>>] = NoIndex
    BY <1>2, <2>1, <2>4 DEF FilesTo
  <2>6. ASSUME NEW i \in 1 .. Len(Hosts), NEW j \in 1 .. Len(Hosts[i].hl),
               i < line \/ (i = line /\ j < next + 1),
               Hosts[i].attrval_index[a] # Absent
        PROVE  G[<<i, j + 1>>] = FiledUnder(G[<<i, j>>], f,
                                   Hosts[i].attrval_index[a], Hosts[i].hl[j])
    <3>1. i \in Nat /\ j \in Nat
      BY <1>2, <2>6, ScanType, LineType
    <3>2. CASE i = line /\ j = next
      <4>1. G[<<i, j>>] = index
        BY <1>2, <2>1, <2>4, <3>2
      <4> QED
        BY <1>6, <2>3, <3>2, <4>1
    <3>3. CASE i < line \/ (i = line /\ j < next)
      <4>1. G[<<i, j>>] = F[<<i, j>>] /\ G[<<i, j + 1>>] = F[<<i, j + 1>>]
        BY <1>2, <2>4, <3>1, <3>3
      <4>2. F[<<i, j + 1>>] = FiledUnder(F[<<i, j>>], f,
                                Hosts[i].attrval_index[a], Hosts[i].hl[j])
        BY <2>1, <2>6, <3>3 DEF FilesTo
      <4> QED
        BY <4>1, <4>2
    <3> QED
      BY <1>2, <2>6, <3>1, <3>2, <3>3
  <2>7. ASSUME NEW i \in 1 .. Len(Hosts), i < line
        PROVE  G[<<i + 1, 1>>] = G[<<i, LastPlace(Hosts[i], a)>>]
    <3>1. LastPlace(Hosts[i], a) \in Nat
      BY <1>2, ScanType, LineType DEF LastPlace
    <3>2. F[<<i + 1, 1>>] = F[<<i, LastPlace(Hosts[i], a)>>]
      BY <2>1, <2>7 DEF FilesTo
    <3> QED
      BY <1>2, <2>4, <2>7, <3>1, <3>2
  <2>8. FilesTo(G, Hosts, a, f, line, next + 1)
    BY <2>3, <2>5, <2>6, <2>7 DEF FilesTo
  <2> QED
    BY <2>3, <2>8
<1>9. ASSUME ~ fault, NEW F, Files(F, Hosts, a, f)
      PROVE  index' = F[<<line, next + 1>>]
  <2>1. index = F[<<line, next>>]
    BY <1>1, <1>2, <1>9 DEF FilingInv
  <2>2. line < Len(Hosts) + 1 /\ Hosts[line].attrval_index[a] # Absent
    BY <1>2 DEF Av, Gh
  <2>3. F[<<line, next + 1>>] =
          FiledUnder(F[<<line, next>>], f, Hosts[line].attrval_index[a],
                     Hosts[line].hl[next])
    BY <1>2, <1>4, <1>9, <2>2 DEF Files, FilesTo
  <2> QED
    BY <1>6, <2>1, <2>3
<1>10. FilingInv'
  BY <1>1, <1>3, <1>8, <1>9 DEF FilingInv
<1> QED
  BY <1>5, <1>10

LEMMA FileLeave ==
  ASSUME EqualInv, NextLine \/ CutLineShort, Indexing
  PROVE  PlaceInv' /\ FilingInv'
<1> USE DEF EqualInv
<1> DEFINE a == call.attr
           f == flags[H]
<1>1. /\ OnLine /\ UNCHANGED <<handlevars, pc, call, index>>
      /\ line' = line + 1 /\ next' = 1
  BY DEF NextLine, CutLineShort, OnNode
<1>2. /\ pc = "lines" /\ line \in 1 .. Len(Hosts) /\ next \in Nat \ {0}
      /\ Len(Hosts) \in Nat /\ index \in IndexTable /\ Len(Gh.hl) \in Nat
      /\ next <= LastPlace(Hosts[line], a)
      /\ Relevant <=> Av # Absent
  BY <1>1, OnPlace
<1>3. /\ H' = H /\ Hosts' = Hosts /\ a' = a /\ f' = f /\ pc' = pc
      /\ Indexing' = Indexing
  BY <1>1, ScanGoesOn
<1>4. PlaceInv'
  <2>1. line' <= Len(Hosts) => 1 <= LastPlace(Hosts[line'], a)
    BY <1>1, <1>2, ScanType, LineType DEF LastPlace
  <2> QED
    BY <1>1, <1>2, <1>3, <2>1 DEF PlaceInv, Gh
<1>5. ASSUME ~ fault'
      PROVE  ~ fault /\ next = LastPlace(Hosts[line], a)
  <2>1. NextLine
    BY <1>5 DEF CutLineShort
  <2> QED
    BY <1>2, <1>5, <2>1 DEF NextLine, LastPlace, Gh, Av
<1>6. ASSUME ~ fault'
      PROVE  \E F : FilesTo(F, Hosts, a, f, line + 1, 1)
                    /\ index = F[<<line + 1, 1>>]
  <2>1. PICK F : FilesTo(F, Hosts, a, f, line, next)
                 /\ index = F[<<line, next>>]
    BY <1>2, <1>5, <1>6 DEF FilingInv
  <2> DEFINE G == [F EXCEPT ![<<line + 1, 1>>] = index]
  <2>2. <<line + 1, 1>> \in Places /\ F \in [Places -> IndexTable]
    BY <1>2, <2>1 DEF Places, FilesTo
  <2>3. /\ G \in [Places -> IndexTable]
        /\ G[<<line + 1, 1>>] = index
        /\ \A p \in Places : p # <<line + 1, 1>> => G[p] = F[p]
    BY <1>2, <2>2
  <2> HIDE DEF G
  <2>4. \A i, j \in Nat : i # line + 1 \/ j # 1 => G[<<i, j>>] = F[<<i, j>>]
    BY <2>3 DEF Places
  <2>5. G[<<1, 1>>] = NoIndex
    BY <1>2, <2>1, <2>4 DEF FilesTo
  <2>6. ASSUME NEW i \in 1 .. Len(Hosts), NEW j \in 1 .. Len(Hosts[i].hl),
               i < line + 1 \/ (i = line + 1 /\ j < 1),
               Hosts[i].attrval_index[a] # Absent
        PROVE  G[<<i, j + 1>>] = FiledUnder(G[<<i, j>>], f,
                                   Hosts[i].attrval_index[a], Hosts[i].hl[j])
    <3>1. i \in Nat /\ j \in Nat /\ Len(Hosts[i].hl) \in Nat
      BY <1>2, <2>6, ScanType, LineType
    <3>2. i < line \/ (i = line /\ j < next)
      BY <1>2, <1>5, <1>6, <2>6, <3>1 DEF LastPlace
    <3>3. G[<<i, j>>] = F[<<i, j>>] /\ G[<<i, j + 1>>] = F[<<i, j + 1>>]
      BY <1>2, <2>4, <3>1, <3>2
    <3>4. F[<<i, j + 1>>] = FiledUnder(F[<<i, j>>], f,
                              Hosts[i].attrval_index[a], Hosts[i].hl[j])
      BY <2>1, <2>6, <3>2 DEF FilesTo
    <3> QED
      BY <3>3, <3>4
  <2>7. ASSUME NEW i \in 1 .. Len(Hosts), i < line + 1
        PROVE  G[<<i + 1, 1>>] = G[<<i, LastPlace(Hosts[i], a)>>]
    <3>1. LastPlace(Hosts[i], a) \in Nat
      BY <1>2, ScanType, LineType DEF LastPlace
    <3>2. G[<<i, LastPlace(Hosts[i], a)>>] = F[<<i, LastPlace(Hosts[i], a)>>]
      BY <1>2, <2>4, <2>7, <3>1
    <3>3. CASE i = line
      BY <1>5, <1>6, <2>1, <2>3, <3>2, <3>3
    <3>4. CASE i < line
      <4>1. F[<<i + 1, 1>>] = F[<<i, LastPlace(Hosts[i], a)>>]
        BY <2>1, <2>7, <3>4 DEF FilesTo
      <4> QED
        BY <1>2, <2>4, <2>7, <3>2, <3>4, <4>1
    <3> QED
      BY <1>2, <2>7, <3>3, <3>4
  <2>8. FilesTo(G, Hosts, a, f, line + 1, 1)
    BY <2>3, <2>5, <2>6, <2>7 DEF FilesTo
  <2> QED
    BY <2>3, <2>8
<1>7. ASSUME ~ fault', NEW F, Files(F, Hosts, a, f)
      PROVE  index = F[<<line + 1, 1>>]
  <2>1. index = F[<<line, next>>]
    BY <1>2, <1>5, <1>7 DEF FilingInv
  <2>2. F[<<line + 1, 1>>] = F[<<line, LastPlace(Hosts[line], a)>>]
    BY <1>2, <1>7 DEF Files, FilesTo
  <2> QED
    BY <1>5, <1>7, <2>1, <2>2
<1>8. FilingInv'
  BY <1>1, <1>3, <1>6, <1>7 DEF FilingInv
<1> QED
  BY <1>4, <1>8

(* Nothing is filed when a scan starts.                                     *)
LEMMA FileStart ==
  ASSUME TypeInv', Walk("lines")
  PROVE  PlaceInv' /\ FilingInv'
<1> SUFFICES ASSUME pc' = "lines" PROVE PlaceInv' /\ FilingInv'
  BY DEF PlaceInv, FilingInv
<1> DEFINE hosts == Hosts'
<1>1. /\ line' = 1 /\ next' = 1 /\ index' = NoIndex
      /\ hosts \in Seq(GendersHosts) /\ Len(hosts) \in Nat
      /\ call'.attr \in Attr
  BY HostsPrimed DEF Walk, WalkDone
<1>2. PlaceInv'
  <2>1. 1 <= Len(hosts) => 1 <= LastPlace(hosts[1], call'.attr)
    BY <1>1, LineType DEF LastPlace
  <2> QED
    BY <1>1, <2>1 DEF PlaceInv, Gh
<1>3. \E F : /\ FilesTo(F, hosts, call'.attr, flags'[H'], 1, 1)
             /\ NoIndex = F[<<1, 1>>]
  <2> DEFINE F == [p \in Places |-> NoIndex]
  <2>1. F \in [Places -> IndexTable] /\ F[<<1, 1>>] = NoIndex
    BY NoIndexType DEF Places
  <2>2. \A i \in 1 .. Len(hosts) :
          /\ ~ i < 1
          /\ \A j \in 1 .. Len(hosts[i].hl) : ~ (i = 1 /\ j < 1)
    BY <1>1, LineType
  <2> QED
    BY <2>1, <2>2 DEF FilesTo
<1>4. \A F : Files(F, hosts, call'.attr, flags'[H']) => NoIndex = F[<<1, 1>>]
  BY DEF Files, FilesTo
<1> QED
  BY <1>1, <1>2, <1>3, <1>4 DEF FilingInv

LEMMA NotFiling ==
  ASSUME pc' # "lines" \/ ~ Indexing'
  PROVE  PlaceInv' /\ FilingInv'
BY DEF PlaceInv, FilingInv

(***************************************************************************)
(* The indexes made.                                                       *)
(***************************************************************************)
LEMMA MadeKept ==
  ASSUME MadeInv,
         \A h \in Handle :
           \/ attrval_index_attr'[h] = NULL /\ attrval_index'[h] = NoIndex
           \/ /\ attrval_index_attr'[h] = attrval_index_attr[h]
              /\ attrval_index'[h] = attrval_index[h]
              /\ index_flags'[h] = index_flags[h]
              /\ \/ db'[h] = db[h]
                 \/ attrval_index_attr[h] = NULL
  PROVE  MadeInv'
<1> SUFFICES ASSUME NEW h \in Handle
             PROVE  IF attrval_index_attr'[h] = NULL
                    THEN attrval_index'[h] = NoIndex
                    ELSE index_flags'[h] # "PARTIAL" =>
                      \E F : /\ Files(F, db'[h].genders_hosts,
                                      attrval_index_attr'[h], index_flags'[h])
                             /\ attrval_index'[h] =
                                  FiledIn(F, db'[h].genders_hosts)
  BY DEF MadeInv
<1>1. IF attrval_index_attr[h] = NULL THEN attrval_index[h] = NoIndex
      ELSE index_flags[h] # "PARTIAL" =>
             \E F : /\ Files(F, db[h].genders_hosts, attrval_index_attr[h],
                             index_flags[h])
                    /\ attrval_index[h] = FiledIn(F, db[h].genders_hosts)
  BY DEF MadeInv
<1> QED
  BY <1>1

LEMMA SameMade ==
  ASSUME MadeInv, UNCHANGED handlevars
  PROVE  MadeInv'
BY MadeKept DEF handlevars, indexvars

LEMMA ResetMade ==
  ASSUME TypeInv, MadeInv, NEW h \in Handle, Reset(h)
  PROVE  MadeInv'
<1>1. \A g \in Handle :
        \/ attrval_index_attr'[g] = NULL /\ attrval_index'[g] = NoIndex
        \/ /\ attrval_index_attr'[g] = attrval_index_attr[g]
           /\ attrval_index'[g] = attrval_index[g]
           /\ index_flags'[g] = index_flags[g]
           /\ db'[g] = db[g]
  BY DEF TypeInv, TypeOK, Reset
<1> QED
  BY <1>1, MadeKept

(* A scan that ends is past the last line.                                  *)
LEMMA AtEnd ==
  ASSUME EqualInv, LinesDone, Indexing
  PROVE  /\ H \in Handle /\ pc = "lines" /\ fault \in BOOLEAN
         /\ line = Len(Hosts) + 1 /\ next = 1
         /\ call.attr \in Attr /\ call.attr # NULL
         /\ flags[H] \in Flags /\ flags[H] # "PARTIAL"
<1>1. /\ H \in Handle /\ pc = "lines" /\ fault \in BOOLEAN
      /\ call.attr \in Attr /\ flags[H] \in Flags
  BY DEF EqualInv, TypeInv, TypeOK, CallInv, Call, H, LinesDone
<1>2. line > Len(Hosts)
  BY DEF LinesDone
<1> QED
  BY <1>1, <1>2, HandleAssumption DEF EqualInv, PlaceInv, Flags

LEMMA NewMade ==
  ASSUME EqualInv, IndexReturns
  PROVE  MadeInv' /\ CopyIsEqual'
<1> USE DEF EqualInv
<1>1. /\ LinesDone /\ Indexing /\ pc' = "idle" /\ db' = db /\ flags' = flags
      /\ call' = call /\ H' = H /\ fault' = fault /\ rv' = 0
  BY DEF IndexReturns, Returns, H
<1>2. /\ H \in Handle /\ pc = "lines" /\ fault \in BOOLEAN
      /\ line = Len(Hosts) + 1 /\ next = 1
      /\ call.attr \in Attr /\ call.attr # NULL
      /\ flags[H] \in Flags /\ flags[H] # "PARTIAL"
  BY <1>1, AtEnd
<1>3. /\ attrval_index_attr'[H] = call.attr
      /\ attrval_index'[H] = index
      /\ fault => index_flags'[H] = "PARTIAL"
      /\ ~ fault => index_flags'[H] = flags[H]
  BY <1>2 DEF IndexReturns, TypeInv, TypeOK
<1>4. \A g \in Handle : g # H =>
        /\ attrval_index_attr'[g] = attrval_index_attr[g]
        /\ attrval_index'[g] = attrval_index[g]
        /\ index_flags'[g] = index_flags[g]
  BY DEF IndexReturns, TypeInv, TypeOK
<1>5. ~ fault =>
        \E F : /\ Files(F, Hosts, call.attr, flags[H])
               /\ index = FiledIn(F, Hosts)
  BY <1>1, <1>2 DEF FilingInv, Files, FiledIn
<1>6. MadeInv'
  <2> SUFFICES ASSUME NEW h \in Handle
               PROVE  IF attrval_index_attr'[h] = NULL
                      THEN attrval_index'[h] = NoIndex
                      ELSE index_flags'[h] # "PARTIAL" =>
                        \E F : /\ Files(F, db'[h].genders_hosts,
                                     attrval_index_attr'[h], index_flags'[h])
                               /\ attrval_index'[h] =
                                    FiledIn(F, db'[h].genders_hosts)
    BY DEF MadeInv
  <2>1. CASE h = H
    BY <1>1, <1>2, <1>3, <1>5, <2>1 DEF Hosts
  <2>2. CASE h # H
    BY <1>1, <1>4, <2>2 DEF MadeInv
  <2> QED
    BY <2>1, <2>2
<1>7. ASSUME call.op = "copy"
      PROVE  /\ call.h # H /\ call.h \in Handle
             /\ db[H] = db[call.h] /\ flags[H] = flags[call.h]
             /\ attrval_index_attr'[call.h] = call.attr
             /\ ~ fault /\ index_flags'[call.h] = flags[call.h]
                  => attrval_index'[call.h] = index
  <2>1. /\ call.h # H /\ call.h \in Handle
        /\ db[H] = db[call.h] /\ flags[H] = flags[call.h]
        /\ call.attr = attrval_index_attr[call.h]
    BY <1>2, <1>7 DEF CopyInv, TypeInv, TypeOK, Call
  <2>2. ASSUME ~ fault, index_flags[call.h] = flags[call.h]
        PROVE  attrval_index[call.h] = index
    <3>1. PICK F : /\ Files(F, Hosts, call.attr, flags[H])
                   /\ attrval_index[call.h] = FiledIn(F, Hosts)
      BY <1>2, <2>1, <2>2 DEF MadeInv, Hosts
    <3>2. index = F[<<line, next>>]
      BY <1>1, <1>2, <2>2, <3>1 DEF FilingInv
    <3> QED
      BY <1>2, <3>1, <3>2 DEF FiledIn
  <2> QED
    BY <1>4, <2>1, <2>2
<1>8. CopyIsEqual'
  BY <1>1, <1>2, <1>3, <1>7 DEF CopyIsEqual
<1> QED
  BY <1>6, <1>8

(***************************************************************************)
(* The copy.                                                               *)
(***************************************************************************)
LEMMA NoCopy ==
  ASSUME call'.op # "copy"
  PROVE  CopyInv' /\ CopyIsEqual'
BY DEF CopyInv, CopyIsEqual

LEMMA CopyGoesOn ==
  ASSUME CopyInv, UNCHANGED <<handlevars, pc, call>>, pc # "idle"
  PROVE  CopyInv' /\ CopyIsEqual'
BY DEF CopyInv, CopyIsEqual, handlevars, indexvars, H

LEMMA Refused ==
  ASSUME pc' = "idle", rv' = -1, H' = call'.h \/ ~ live'[H']
  PROVE  CopyInv' /\ CopyIsEqual'
BY DEF CopyInv, CopyIsEqual

LEMMA CopyStarts ==
  ASSUME EqualInv, NEW h \in Handle, NEW k \in Handle, Copy(h, k)
  PROVE  MadeInv' /\ CopyInv' /\ CopyIsEqual'
<1> USE DEF EqualInv
<1>1. /\ is_loaded[h] /\ ~ live[k] /\ h # k
      /\ attrval_index_attr[k] = NULL
  BY DEF Copy, Ready, Idle, TypeInv, HandleInv
<1>2. /\ call'.op = "copy" /\ call'.h = h /\ H' = k
      /\ call'.attr = attrval_index_attr[h]
  BY DEF Copy, Invoke, H
<1>3. /\ UNCHANGED indexvars
      /\ db'[k] = db[h] /\ flags'[k] = flags[h]
      /\ db'[h] = db[h] /\ flags'[h] = flags[h]
      /\ \A g \in Handle : g # k => db'[g] = db[g]
  BY <1>1 DEF Copy, TypeInv, TypeOK
<1>4. MadeInv'
  BY <1>1, <1>3, MadeKept DEF indexvars
<1>5. CASE attrval_index_attr[h] = NULL
  <2>1. pc' = "idle" /\ rv' = 0
    BY <1>5 DEF Copy, Returns
  <2>2. attrval_index[h] = NoIndex /\ attrval_index[k] = NoIndex
    BY <1>1, <1>5 DEF MadeInv
  <2> QED
    BY <1>1, <1>2, <1>3, <1>4, <1>5, <2>1, <2>2
    DEF CopyInv, CopyIsEqual, indexvars
<1>6. CASE attrval_index_attr[h] # NULL
  <2>1. pc' = "lines"
    BY <1>6 DEF Copy, Walk
  <2> QED
    BY <1>1, <1>2, <1>3, <1>4, <2>1 DEF CopyInv, CopyIsEqual, indexvars
<1> QED
  BY <1>5, <1>6

(***************************************************************************)
(* The actions.                                                            *)
(***************************************************************************)
LEMMA LoopEqual ==
  ASSUME EqualInv, TypeInv', Loop \/ NoMemory \/ CutLineShort \/ CutListShort
  PROVE  EqualInv'
<1> USE DEF EqualInv
<1>1. CASE IndexReturns
  <2>1. pc' = "idle"
    BY <1>1 DEF IndexReturns, Returns
  <2> QED
    BY <1>1, <2>1, NewMade, NotFiling DEF CopyInv
<1>2. CASE NextLine \/ CutLineShort
  <2>1. UNCHANGED <<handlevars, pc, call>> /\ pc # "idle"
    BY <1>2 DEF NextLine, CutLineShort, OnNode, OnLine
  <2>2. CASE Indexing
    BY <1>2, <2>1, <2>2, FileLeave, SameMade, CopyGoesOn
  <2>3. CASE ~ Indexing
    BY <2>1, <2>3, ScanGoesOn, NotFiling, SameMade, CopyGoesOn
  <2> QED
    BY <2>2, <2>3
<1>3. CASE IndexNode
  <2>1. UNCHANGED <<handlevars, pc, call>> /\ pc # "idle"
    BY <1>3 DEF IndexNode, Readable, OnNode, OnLine
  <2> QED
    BY <1>3, <2>1, FileNode, SameMade, CopyGoesOn
<1>4. CASE ValueTooLong \/ NoMemory
  <2>1. /\ pc' = "idle" /\ pc # "idle" /\ H \in Handle /\ call' = call
        /\ H' = H /\ rv' = -1
    BY <1>4 DEF ValueTooLong, NoMemory, Fails, TypeInv, TypeOK, Call, H,
                OnNode, OnLine
  <2>2. CASE call.op = "copy"
    <3>1. Reset(H) /\ live' = [live EXCEPT ![H] = FALSE]
      BY <1>4, <2>2 DEF ValueTooLong, NoMemory
    <3>2. ~ live'[H]
      BY <2>1, <3>1 DEF TypeInv, TypeOK
    <3> QED
      BY <2>1, <3>1, <3>2, ResetMade, NotFiling, Refused
  <2>3. CASE call.op # "copy"
    <3>1. UNCHANGED handlevars
      BY <1>4, <2>3 DEF ValueTooLong, NoMemory
    <3> QED
      BY <2>1, <2>3, <3>1, SameMade, NotFiling, NoCopy
  <2> QED
    BY <2>2, <2>3
<1>5. CASE CollectNode \/ PassNode \/ FindValue \/ CollectAttr \/ NextAttrLine
           \/ CollectHit \/ CollectName
           \/ ScanReturns \/ ListReturns \/ AttrsReturn \/ CutListShort
  <2>1. /\ UNCHANGED <<handlevars, call>> /\ pc # "idle"
        /\ call.op \notin {"index_attrvals", "copy"} \/ pc # "lines"
    BY <1>5 DEF CollectNode, PassNode, FindValue, CollectAttr, NextAttrLine,
                CollectHit, CollectName, OnAttrs, ScanReturns, ListReturns,
                AttrsReturn, CutListShort, Readable, OnNode, OnLine, LinesDone
  <2>2. pc' = pc \/ pc' = "idle"
    BY <1>5 DEF CollectNode, PassNode, FindValue, CollectAttr, NextAttrLine,
                CollectHit, CollectName, Store, Fails, Returns, ScanReturns,
                ListReturns, AttrsReturn, CutListShort
  <2>3. pc' # "lines" \/ ~ Indexing'
    BY <2>1, <2>2 DEF Indexing
  <2>4. call'.op # "copy"
    BY <2>1 DEF CopyInv
  <2> QED
    BY <2>1, <2>3, <2>4, SameMade, NotFiling, NoCopy
<1> QED
  BY <1>1, <1>2, <1>3, <1>4, <1>5 DEF Loop

LEMMA ManagementEqual ==
  ASSUME EqualInv, TypeInv', Management
  PROVE  EqualInv'
<1> USE DEF EqualInv
<1>1. CASE \E h \in Handle :
              HandleCreate(h) \/ HandleDestroy(h) \/ LoadFails(h)
  <2>1. /\ pc' = "idle" /\ call'.op # "copy"
        /\ \E h \in Handle : Reset(h)
    BY <1>1 DEF HandleCreate, HandleDestroy, LoadFails, Returns, Fails, Invoke
  <2> QED
    BY <2>1, ResetMade, NotFiling, NoCopy
<1>2. CASE \E h \in Handle, d \in Loadable : LoadSucceeds(h, d)
  <2>1. PICK h \in Handle : \E d \in Loadable : LoadSucceeds(h, d)
    BY <1>2
  <2>2. /\ pc' = "idle" /\ UNCHANGED indexvars /\ attrval_index_attr[h] = NULL
        /\ call'.op # "copy"
    BY <2>1 DEF LoadSucceeds, Returns, Invoke, TypeInv, HandleInv
  <2>3. \A g \in Handle : g # h => db'[g] = db[g]
    BY <2>1 DEF LoadSucceeds, TypeInv, TypeOK
  <2> QED
    BY <2>2, <2>3, MadeKept, NotFiling, NoCopy DEF indexvars
<1>3. CASE \E h \in Handle, f \in Flags : SetFlags(h, f)
  <2>1. pc' = "idle" /\ UNCHANGED <<indexvars, db>> /\ call'.op # "copy"
    BY <1>3 DEF SetFlags, Returns, Invoke
  <2> QED
    BY <2>1, MadeKept, NotFiling, NoCopy DEF indexvars
<1>4. CASE \E h \in Handle, a \in Attr : IndexAttrVals(h, a)
  <2>1. /\ UNCHANGED handlevars /\ call'.op # "copy"
        /\ pc' = "idle" \/ Walk("lines")
    BY <1>4 DEF IndexAttrVals, Returns, Fails, Invoke
  <2> QED
    BY <2>1, SameMade, NotFiling, FileStart, NoCopy
<1>5. CASE \E h, k \in Handle : Copy(h, k)
  <2>1. PICK h \in Handle, k \in Handle : Copy(h, k)
    BY <1>5
  <2>2. pc' = "idle" \/ Walk("lines")
    BY <2>1 DEF Copy, Returns
  <2> QED
    BY <2>1, <2>2, CopyStarts, NotFiling, FileStart
<1> QED
  BY <1>1, <1>2, <1>3, <1>4, <1>5 DEF Management

LEMMA QuestionEqual ==
  ASSUME EqualInv, TypeInv', \/ Questions
                             \/ \E h \in Handle : \E o \in Loops :
                                  OutOfMemory(h, o)
  PROVE  EqualInv'
<1> USE DEF EqualInv
<1>1. UNCHANGED handlevars
  BY DEF Questions, OutOfMemory, NotLoaded, WrongParameters, IsNode, IsAttr,
         TestAttr, TestAttrVal, IsAttrVal, GetNodes, GetAttr
<1>2. CASE \E h \in Handle :
              \E o \in Loops \cup {"isnode", "isattr", "set_flags"} :
              NotLoaded(h, o) \/ WrongParameters(h, o) \/ OutOfMemory(h, o)
  <2>1. pc' = "idle" /\ rv' = -1 /\ H' = call'.h
    BY <1>2 DEF NotLoaded, WrongParameters, OutOfMemory, Fails, Invoke, H
  <2> QED
    BY <1>1, <2>1, SameMade, NotFiling, Refused
<1>3. CASE \E h \in Handle :
              \/ \E n \in Node : IsNode(h, n)
              \/ \E a \in Attr : IsAttr(h, a)
              \/ \E n \in Node : \E a \in Attr :
                   \/ \E l \in Length \cup {NULL} : TestAttr(h, n, a, l)
                   \/ \E v \in Result \cup {NULL} : TestAttrVal(h, n, a, v)
              \/ \E a \in Attr : \E v \in Result : IsAttrVal(h, a, v)
              \/ \E a \in Attr \cup {NULL} : \E v \in Result \cup {NULL} :
                   \E l \in Length : GetNodes(h, a, v, l)
              \/ \E n \in Node : \E l \in Length : GetAttr(h, n, l)
  <2>1. call'.op \in {"isnode", "isattr", "testattr", "testattrval",
                      "isattrval", "getnodes", "getattr"}
    BY <1>3 DEF IsNode, IsAttr, TestAttr, TestAttrVal, IsAttrVal, GetNodes,
                GetAttr, Invoke
  <2>2. ~ Indexing' /\ call'.op # "copy"
    BY <2>1 DEF Indexing
  <2> QED
    BY <1>1, <2>2, SameMade, NotFiling, NoCopy
<1> QED
  BY <1>2, <1>3 DEF Questions

LEMMA InitEqual == Init => EqualInv
<1> SUFFICES ASSUME Init PROVE EqualInv
  OBVIOUS
<1>1. /\ pc = "idle" /\ call.op = "create"
      /\ \A h \in Handle : /\ attrval_index_attr[h] = NULL
                           /\ attrval_index[h] = NoIndex
  BY DEF Init
<1> QED
  BY <1>1, InitType
  DEF EqualInv, PlaceInv, FilingInv, MadeInv, CopyInv, CopyIsEqual

LEMMA NextEqual == EqualInv /\ [Next]_vars => EqualInv'
<1> SUFFICES ASSUME EqualInv, [Next]_vars PROVE EqualInv'
  OBVIOUS
<1>1. TypeInv'
  BY NextType DEF EqualInv
<1>2. CASE Next
  BY <1>1, <1>2, LoopEqual, ManagementEqual, QuestionEqual DEF Next, Faults
<1>3. CASE UNCHANGED vars
  <2>1. /\ UNCHANGED handlevars
        /\ UNCHANGED <<pc, call, line, next, index, fault, rv>>
    BY <1>3 DEF vars, walkvars, outvars
  <2>2. Hosts' = Hosts /\ H' = H /\ Indexing' = Indexing /\ Gh' = Gh
    BY <2>1 DEF Hosts, H, Indexing, Gh, handlevars
  <2>3. PlaceInv' /\ FilingInv'
    BY <2>1, <2>2 DEF EqualInv, PlaceInv, FilingInv, LastPlace, handlevars
  <2>4. CopyInv' /\ CopyIsEqual'
    BY <2>1, <2>2 DEF EqualInv, CopyInv, CopyIsEqual, handlevars, indexvars
  <2> QED
    BY <1>1, <2>1, <2>3, <2>4, SameMade DEF EqualInv
<1> QED
  BY <1>1, <1>2, <1>3

(* CopyIsEqual: genders_copy() fails and leaves nothing behind, or the copy *)
(* has the database, the flags and, if it was built under these flags and   *)
(* memory sufficed, the same index as its original, list by list.           *)
THEOREM CopiesAlwaysEqual == Spec => []CopyIsEqual
<1>1. EqualInv => CopyIsEqual
  BY DEF EqualInv
<1> QED
  BY <1>1, InitEqual, NextEqual, PTL DEF Spec

====
