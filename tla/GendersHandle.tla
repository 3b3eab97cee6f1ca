---- MODULE GendersHandle ----
(***************************************************************************)
(* The calls on genders handles: creating, loading, copying and destroying *)
(* them, setting their flags, indexing the values of an attribute, and the *)
(* questions genders_getnodes(), genders_getattr(), genders_testattr(),    *)
(* genders_testattrval(), genders_isattrval(), genders_isnode() and        *)
(* genders_isattr() answer from them.                                      *)
(*                                                                         *)
(* How a file becomes a database is the business of GendersLoad; here a    *)
(* load finds one of the databases a file may leave.  The loops over lines *)
(* and nodes are run step by step: each step may run out of memory.  One   *)
(* call runs at a time, as the library has no locks.                       *)
(***************************************************************************)
EXTENDS GendersDB

CONSTANTS
  Handle,      \* handles a program may have
  Loadable,    \* what a successful genders_load_data() may leave
  Result,      \* strings: what values read as, and what a caller asks for
  Subst,       \* av->val_contains_subst: values with a "%n" or a "%%"
  NodeSubst,   \* those with a "%n"
  Expand,      \* Expand[v, n]: the value v as it reads on the node n
  NOVALUE,     \* GENDERS_NOVALUE, the index key of a value that is NULL
  NULL,        \* an attr or a val that is not given; no index
  NodeLen,     \* strlen() of a node name
  StrLen,      \* strlen() of a result
  Rank,        \* the order of hostlist_sort()
  Length       \* lengths of the arrays and buffers callers pass

ASSUME HandleAssumption ==
  /\ Value \subseteq Result
  /\ NodeSubst \subseteq Subst /\ Subst \subseteq Value
  /\ Expand \in [Value \X Node -> Result]
  /\ NOVALUE \in Result \ Value
  /\ \A v \in Value, n \in Node : Expand[v, n] # NOVALUE
  /\ NULL \notin Attr \cup Result \cup Nat
  /\ Absent \notin Result /\ NoValue \notin Result
  /\ NodeLen \in [Node -> Nat] /\ StrLen \in [Result -> Nat]
  /\ Rank \in [Node -> Nat]
  /\ \A m, n \in Node : Rank[m] = Rank[n] => m = n
  /\ Length \subseteq Nat

(* What GendersLoad!LoadedIsConsistent says of a loaded handle, if memory   *)
(* did not run out unnoticed while it was loaded.                           *)
ASSUME LoadableAssumption ==
  /\ Loadable \subseteq Database
  /\ \A d \in Loadable : /\ ConsistentDatabase(d)
                         /\ IsFiniteSet(d.hostnames)
                         /\ IsFiniteSet(d.attrs)

VARIABLES
  live,                \* the handle was created and not destroyed
  is_loaded,
  flags,
  db,                  \* what the parser left
  attrval_index_attr,  \* the attribute indexed, or NULL
  attrval_index,       \* its values, each with its hostlist
  index_flags,         \* history: what the index was built under
  pc,                  \* "idle", or the loop that runs
  call,                \* the call that runs, or the last one
  line, next,          \* the line and the node or attribute taken next
  seen,                \* the attributes of the line visited so far
  index,               \* the index being built
  found, vals,         \* the caller's arrays
  rv,                  \* what the last call returned
  error,               \* handle->errnum, if it failed
  fault                \* history: memory ran out during the call

indexvars == <<attrval_index_attr, attrval_index, index_flags>>
handlevars == <<live, is_loaded, flags, db, indexvars>>
walkvars == <<line, next, seen, index>>
outvars == <<found, vals, rv, error>>
vars == <<handlevars, pc, call, walkvars, outvars, fault>>

Flags == {"DEFAULT", "RAW_VALUES"}
Errors == {"SUCCESS", "ISLOADED", "NOTLOADED", "PARAMETERS", "NOTFOUND",
           "OVERFLOW", "OUTMEM", "INTERNAL", "PARSE"}
Ops == {"create", "destroy", "load_data", "set_flags", "index_attrvals",
        "copy", "getnodes", "getattr", "testattr", "testattrval",
        "isattrval", "isnode", "isattr"}

(* op, the handle, the copy's handle, and the arguments.                    *)
Call == [op : Ops, h : Handle, to : Handle, node : Node \cup {NULL},
         attr : Attr \cup {NULL}, val : Result \cup {NULL},
         len : Nat \cup {NULL}]

Invoke(o, h, k, n, a, v, l) ==
  call' = [op |-> o, h |-> h, to |-> k, node |-> n, attr |-> a, val |-> v,
           len |-> l]

NoIndex == [r \in Result |-> <<>>]

Init ==
  /\ live = [h \in Handle |-> FALSE]
  /\ is_loaded = [h \in Handle |-> FALSE]
  /\ flags = [h \in Handle |-> "DEFAULT"]
  /\ db = [h \in Handle |-> EmptyDatabase]
  /\ attrval_index_attr = [h \in Handle |-> NULL]
  /\ attrval_index = [h \in Handle |-> NoIndex]
  /\ index_flags = [h \in Handle |-> "DEFAULT"]
  /\ pc = "idle"
  /\ call \in [op : {"create"}, h : Handle, to : Handle, node : {NULL},
               attr : {NULL}, val : {NULL}, len : {0}]
  /\ call.to = call.h
  /\ line = 1 /\ next = 1 /\ seen = {} /\ index = NoIndex
  /\ found = <<>> /\ vals = <<>>
  /\ rv = 0 /\ error = "SUCCESS"
  /\ fault = FALSE

(***************************************************************************)
(* Helpers of the calls.                                                   *)
(***************************************************************************)
WalkDone == line' = 1 /\ next' = 1 /\ seen' = {} /\ index' = NoIndex

Returns(r, xs, vs) ==
  /\ pc' = "idle" /\ WalkDone
  /\ rv' = r /\ error' = "SUCCESS"
  /\ found' = xs /\ vals' = vs

Fails(e) ==
  /\ pc' = "idle" /\ WalkDone
  /\ rv' = -1 /\ error' = e
  /\ found' = <<>> /\ vals' = <<>>

(* A loop starts.                                                           *)
Walk(where) ==
  /\ pc' = where /\ WalkDone
  /\ found' = <<>> /\ vals' = <<>> /\ rv' = 0 /\ error' = "SUCCESS"
  /\ fault' = FALSE

(* A slip: the attributes are not deleted.                                  *)
ResetKeepsAttrs(h) ==
  /\ is_loaded' = [is_loaded EXCEPT ![h] = FALSE]
  /\ flags' = [flags EXCEPT ![h] = "DEFAULT"]
  /\ db' = [db EXCEPT ![h] = [EmptyDatabase EXCEPT !.attrs = db[h].attrs]]
  /\ attrval_index_attr' = [attrval_index_attr EXCEPT ![h] = NULL]
  /\ attrval_index' = [attrval_index EXCEPT ![h] = NoIndex]
  /\ index_flags' = [index_flags EXCEPT ![h] = "DEFAULT"]

(* _initialize_handle_info(), and the lists it does not touch emptied.      *)
Reset(h) ==
  /\ is_loaded' = [is_loaded EXCEPT ![h] = FALSE]
  /\ flags' = [flags EXCEPT ![h] = "DEFAULT"]
  /\ db' = [db EXCEPT ![h] = EmptyDatabase]
  /\ attrval_index_attr' = [attrval_index_attr EXCEPT ![h] = NULL]
  /\ attrval_index' = [attrval_index EXCEPT ![h] = NoIndex]
  /\ index_flags' = [index_flags EXCEPT ![h] = "DEFAULT"]

Idle(h) == pc = "idle" /\ live[h]
Ready(h) == Idle(h) /\ is_loaded[h]

(* _genders_get_valptr(): what value v reads as, and the check that         *)
(* handle->valbuf is large enough.                                          *)
Reading(f, v, n) ==
  IF v \in Subst /\ f # "RAW_VALUES" THEN Expand[v, n] ELSE v

Unreadable(h, v, n) ==
  /\ flags[h] # "RAW_VALUES"
  /\ v \in NodeSubst
  /\ StrLen[v] - 2 + NodeLen[n] > db[h].maxvallen + 1

(***************************************************************************)
(* Handles.                                                                *)
(***************************************************************************)
HandleCreate(h) ==
  /\ pc = "idle" /\ ~ live[h]
  /\ Invoke("create", h, h, NULL, NULL, NULL, 0)
  /\ live' = [live EXCEPT ![h] = TRUE]
  /\ Reset(h)
  /\ Returns(0, <<>>, <<>>)
  /\ fault' = FALSE

HandleDestroy(h) ==
  /\ Idle(h)
  /\ Invoke("destroy", h, h, NULL, NULL, NULL, 0)
  /\ live' = [live EXCEPT ![h] = FALSE]
  /\ Reset(h)
  /\ Returns(0, <<>>, <<>>)
  /\ fault' = FALSE

LoadSucceeds(h, d) ==
  /\ Idle(h) /\ ~ is_loaded[h]
  /\ Invoke("load_data", h, h, NULL, NULL, NULL, 0)
  /\ is_loaded' = [is_loaded EXCEPT ![h] = TRUE]
  /\ db' = [db EXCEPT ![h] = d]
  /\ Returns(0, <<>>, <<>>)
  /\ fault' = FALSE
  /\ UNCHANGED <<live, flags, indexvars>>

(* Whatever fails, the handle is emptied and initialised: a file that       *)
(* cannot be read, and a handle that is loaded already.                     *)
LoadFails(h) ==
  /\ Idle(h)
  /\ Invoke("load_data", h, h, NULL, NULL, NULL, 0)
  /\ Reset(h)
  /\ Fails(IF is_loaded[h] THEN "ISLOADED" ELSE "PARSE")
  /\ fault' = FALSE
  /\ UNCHANGED live

SetFlags(h, f) ==
  /\ Idle(h)
  /\ Invoke("set_flags", h, h, NULL, NULL, NULL, 0)
  /\ flags' = [flags EXCEPT ![h] = f]
  /\ Returns(0, <<>>, <<>>)
  /\ fault' = FALSE
  /\ UNCHANGED <<live, is_loaded, db, indexvars>>

(* _genders_loaded_handle_error_check(), the first thing a question does.   *)
NotLoaded(h, o) ==
  /\ Idle(h) /\ ~ is_loaded[h]
  /\ Invoke(o, h, h, NULL, NULL, NULL, 0)
  /\ Fails("NOTLOADED")
  /\ fault' = FALSE
  /\ UNCHANGED handlevars

(* An empty attr, a negative length, unknown flags.                         *)
WrongParameters(h, o) ==
  /\ Idle(h)
  /\ is_loaded[h] \/ o = "set_flags"
  /\ Invoke(o, h, h, NULL, NULL, NULL, 0)
  /\ Fails("PARAMETERS")
  /\ fault' = FALSE
  /\ UNCHANGED handlevars

(***************************************************************************)
(* Questions answered at once.                                             *)
(***************************************************************************)
IsNode(h, n) ==
  /\ Ready(h)
  /\ Invoke("isnode", h, h, n, NULL, NULL, 0)
  /\ Returns(IF n \in db[h].hostnames THEN 1 ELSE 0, <<>>, <<>>)
  /\ fault' = FALSE
  /\ UNCHANGED handlevars

IsAttr(h, a) ==
  /\ Ready(h)
  /\ Invoke("isattr", h, h, NULL, a, NULL, 0)
  /\ Returns(IF a \in db[h].attrs THEN 1 ELSE 0, <<>>, <<>>)
  /\ fault' = FALSE
  /\ UNCHANGED handlevars

(* The lines genders_testattr() stops at: the first that gives n the        *)
(* attribute.                                                               *)
Gives(gh, n, a) ==
  n \in NodesIn(gh.hl) /\ gh.attrval_index[a] # Absent
(* A slip: the lines of other nodes too.                                    *)
SomeNodeLine(h, n, a) ==
  {i \in 1 .. Len(db[h].genders_hosts) :
     db[h].genders_hosts[i].attrval_index[a] # Absent}
FirstLine(h, n, a) ==
  {i \in 1 .. Len(db[h].genders_hosts) :
     /\ Gives(db[h].genders_hosts[i], n, a)
     /\ \A j \in 1 .. i - 1 : ~ Gives(db[h].genders_hosts[j], n, a)}

(* The value is read into a buffer of len bytes, unless len is NULL, and    *)
(* compared with val, unless val is NULL; found is what the buffer holds.   *)
Answer(h, n, a, val, len) ==
  \/ n \notin db[h].hostnames /\ Fails("NOTFOUND")
  \/ n \in db[h].hostnames /\ FirstLine(h, n, a) = {}
     /\ Returns(0, <<>>, <<>>)
  \/ /\ n \in db[h].hostnames
     /\ \E i \in FirstLine(h, n, a) :
          LET v == db[h].genders_hosts[i].attrval_index[a]
              r == Reading(flags[h], v, n)
          IN \/ v = NoValue
                /\ Returns(IF val = NULL THEN 1 ELSE 0, <<>>, <<>>)
             \/ v # NoValue /\ len = NULL /\ Returns(1, <<>>, <<>>)
             \/ v # NoValue /\ len # NULL /\ Unreadable(h, v, n)
                /\ Fails("INTERNAL")
             \/ /\ v # NoValue /\ len # NULL /\ ~ Unreadable(h, v, n)
                /\ IF StrLen[r] + 1 > len
                   THEN Fails("OVERFLOW")
                   ELSE Returns(IF val \in {NULL, r} THEN 1 ELSE 0,
                                <<r>>, <<>>)

TestAttr(h, n, a, len) ==
  /\ Ready(h)
  /\ Invoke("testattr", h, h, n, a, NULL, len)
  /\ Answer(h, n, a, NULL, len)
  /\ fault' = FALSE
  /\ UNCHANGED handlevars

(* A call of genders_testattr() with a buffer for the longest value.        *)
TestAttrVal(h, n, a, val) ==
  /\ Ready(h)
  /\ Invoke("testattrval", h, h, n, a, val, db[h].maxvallen + 1)
  /\ Answer(h, n, a, val, db[h].maxvallen + 1)
  /\ fault' = FALSE
  /\ UNCHANGED handlevars

(***************************************************************************)
(* Calls that run a loop.                                                  *)
(***************************************************************************)
(* A slip: the index is used whatever attribute it is of.                   *)
IndexedAny(h, a, val) ==
  a # NULL /\ val # NULL /\ attrval_index_attr[h] # NULL

Indexed(h, a, val) ==
  a # NULL /\ val # NULL /\ attrval_index_attr[h] = a

(* Case A looks val up in the index, case B reads the lines, case C takes   *)
(* every node.  Without attributes case B finds nothing at once.            *)
GetNodes(h, a, val, len) ==
  /\ Ready(h)
  /\ Invoke("getnodes", h, h, NULL, a, val, len)
  /\ Walk(IF Indexed(h, a, val) THEN "hits"
          ELSE IF a # NULL THEN "lines" ELSE "names")
  /\ UNCHANGED handlevars

IsAttrVal(h, a, val) ==
  /\ Ready(h)
  /\ Invoke("isattrval", h, h, NULL, a, val, 0)
  /\ IF Indexed(h, a, val)
     THEN /\ Returns(IF attrval_index[h][val] # <<>> THEN 1 ELSE 0, <<>>, <<>>)
          /\ fault' = FALSE
     ELSE Walk("lines")
  /\ UNCHANGED handlevars

GetAttr(h, n, len) ==
  /\ Ready(h)
  /\ Invoke("getattr", h, h, n, NULL, NULL, len)
  /\ IF n \in db[h].hostnames
     THEN Walk("attrs")
     ELSE Fails("NOTFOUND") /\ fault' = FALSE
  /\ UNCHANGED handlevars

(* A slip: the previous index is freed first.                               *)
IndexAttrValsFreesFirst(h, a) ==
  /\ Ready(h)
  /\ Invoke("index_attrvals", h, h, NULL, a, NULL, 0)
  /\ a \in db[h].attrs /\ attrval_index_attr[h] # a
  /\ attrval_index_attr' = [attrval_index_attr EXCEPT ![h] = NULL]
  /\ attrval_index' = [attrval_index EXCEPT ![h] = NoIndex]
  /\ Walk("lines")
  /\ UNCHANGED <<live, is_loaded, flags, db, index_flags>>

(* The attribute must be known; an index of it is kept.                     *)
IndexAttrVals(h, a) ==
  /\ Ready(h)
  /\ Invoke("index_attrvals", h, h, NULL, a, NULL, 0)
  /\ \/ a \notin db[h].attrs /\ Fails("NOTFOUND") /\ fault' = FALSE
     \/ /\ a \in db[h].attrs
        /\ attrval_index_attr[h] = a \/ db[h].hostnames = {}
        /\ Returns(0, <<>>, <<>>) /\ fault' = FALSE
     \/ /\ a \in db[h].attrs
        /\ attrval_index_attr[h] # a /\ db[h].hostnames # {}
        /\ Walk("lines")
  /\ UNCHANGED handlevars

(* The copy takes the flags and the database; its index is built anew.      *)
Copy(h, k) ==
  /\ Ready(h) /\ ~ live[k]
  /\ Invoke("copy", h, k, NULL, attrval_index_attr[h], NULL, 0)
  /\ live' = [live EXCEPT ![k] = TRUE]
  /\ is_loaded' = [is_loaded EXCEPT ![k] = TRUE]
  /\ flags' = [flags EXCEPT ![k] = flags[h]]
  /\ db' = [db EXCEPT ![k] = db[h]]
  /\ IF attrval_index_attr[h] = NULL
     THEN Returns(0, <<>>, <<>>) /\ fault' = FALSE
     ELSE Walk("lines")
  /\ UNCHANGED indexvars

(***************************************************************************)
(* The loop over the lines and their nodes.  A copy is indexed itself.     *)
(***************************************************************************)
H == call.to
Hosts == db[H].genders_hosts
Gh == Hosts[line]
Av == Gh.attrval_index[call.attr]
Nd == Gh.hl[next]
Indexing == call.op \in {"index_attrvals", "copy"}

(* The line has the attribute, and a value if one is asked for.             *)
Relevant == Av # Absent /\ (call.val # NULL => Av # NoValue)

OnLine == pc = "lines" /\ line <= Len(Hosts)
OnNode == OnLine /\ Relevant /\ next <= Len(Gh.hl)
ReadsValue == Av # NoValue /\ (call.val # NULL \/ Indexing)

(* A slip: a line is not left.                                              *)
NextLineStays ==
  /\ OnLine
  /\ Relevant => next > Len(Gh.hl)
  /\ next' = 1
  /\ UNCHANGED <<handlevars, pc, call, line, seen, index, outvars, fault>>

NextLine ==
  /\ OnLine
  /\ Relevant => next > Len(Gh.hl)
  /\ line' = line + 1 /\ next' = 1
  /\ UNCHANGED <<handlevars, pc, call, seen, index, outvars, fault>>

ValueTooLong ==
  /\ OnNode /\ ReadsValue
  /\ Unreadable(H, Av, Nd)
  /\ IF call.op = "copy" THEN Reset(H) /\ live' = [live EXCEPT ![H] = FALSE]
                         ELSE UNCHANGED handlevars
  /\ Fails("INTERNAL")
  /\ UNCHANGED <<call, fault>>

Readable == OnNode /\ (ReadsValue => ~ Unreadable(H, Av, Nd))
Val == Reading(flags[H], Av, Nd)

(* A slip: the last element of the array is not used.                       *)
StoreTooFew(x) ==
  IF Len(found) + 1 >= call.len
  THEN Fails("OVERFLOW")
  ELSE /\ found' = Append(found, x)
       /\ next' = next + 1
       /\ UNCHANGED <<pc, line, seen, index, vals, rv, error>>

(* _genders_put_in_array().                                                 *)
Store(x) ==
  IF Len(found) >= call.len
  THEN Fails("OVERFLOW")
  ELSE /\ found' = Append(found, x)
       /\ next' = next + 1
       /\ UNCHANGED <<pc, line, seen, index, vals, rv, error>>

Wanted == call.val = NULL \/ Val = call.val

(* A value without "%n" is compared once for the whole line.                *)
CollectNode ==
  /\ Readable /\ call.op = "getnodes"
  /\ Wanted
  /\ Store(Nd)
  /\ UNCHANGED <<handlevars, call, fault>>

PassNode ==
  /\ Readable /\ call.op \in {"getnodes", "isattrval"}
  /\ ~ Wanted
  /\ next' = next + 1
  /\ UNCHANGED <<handlevars, pc, call, line, seen, index, outvars, fault>>

FindValue ==
  /\ Readable /\ call.op = "isattrval"
  /\ Wanted
  /\ Returns(1, <<>>, <<>>)
  /\ UNCHANGED <<handlevars, call, fault>>

(* A slip: substituted values are filed under the value as written.         *)
RawKey == IF Av = NoValue THEN NOVALUE ELSE Av
Key == IF Av = NoValue THEN NOVALUE ELSE Val

IndexNode ==
  /\ Readable /\ Indexing
  /\ index' = [index EXCEPT ![Key] = Append(@, Nd)]
  /\ next' = next + 1
  /\ UNCHANGED <<handlevars, pc, call, line, seen, outvars, fault>>

LinesDone == pc = "lines" /\ line > Len(Hosts)

ScanReturns ==
  /\ LinesDone
  /\ \/ call.op = "getnodes" /\ Returns(Len(found), found, <<>>)
     \/ call.op = "isattrval" /\ Returns(0, <<>>, <<>>)
  /\ UNCHANGED <<handlevars, call, fault>>

(* Only now is the previous index given up.                                 *)
IndexReturns ==
  /\ LinesDone /\ Indexing
  /\ attrval_index_attr' = [attrval_index_attr EXCEPT ![H] = call.attr]
  /\ attrval_index' = [attrval_index EXCEPT ![H] = index]
  /\ index_flags' =
       [index_flags EXCEPT ![H] = IF fault THEN "PARTIAL" ELSE flags[H]]
  /\ Returns(0, <<>>, <<>>)
  /\ UNCHANGED <<live, is_loaded, flags, db, call, fault>>

(***************************************************************************)
(* The other loops: one entry of the index, every node, the attributes of  *)
(* a node.                                                                 *)
(***************************************************************************)
Hits == attrval_index[H][call.val]

CollectHit ==
  /\ pc = "hits" /\ next <= Len(Hits)
  /\ Store(Hits[next])
  /\ UNCHANGED <<handlevars, call, fault>>

Unlisted == db[H].hostnames \ NodesIn(found)

(* hostnames was sorted, and its duplicates removed, by the load.           *)
CollectName ==
  /\ pc = "names"
  /\ \E n \in Unlisted :
       /\ \A m \in Unlisted : Rank[n] <= Rank[m]
       /\ Store(n)
  /\ UNCHANGED <<handlevars, call, fault>>

ListReturns ==
  /\ \/ pc = "hits" /\ next > Len(Hits)
     \/ pc = "names" /\ Unlisted = {}
  /\ Returns(Len(found), found, <<>>)
  /\ UNCHANGED <<handlevars, call, fault>>

OnAttrs == pc = "attrs" /\ line <= Len(Hosts)
(* A slip: the attributes of every line.                                    *)
AnyLineAttrs == AttrsIn(Gh.attrval_index)
LineAttrs ==
  IF call.node \in NodesIn(Gh.hl) THEN AttrsIn(Gh.attrval_index) ELSE {}

(* hash_for_each() visits the attributes of a line in some order, and goes  *)
(* on after an error; the first error is the one reported.                  *)
CollectAttr ==
  /\ OnAttrs
  /\ \E a \in LineAttrs \ seen :
       LET v == Gh.attrval_index[a]
       IN IF Len(found) >= call.len THEN Fails("OVERFLOW")
          ELSE IF v # NoValue /\ Unreadable(H, v, call.node)
          THEN Fails("INTERNAL")
          ELSE /\ found' = Append(found, a)
               /\ vals' = Append(vals, IF v = NoValue THEN NULL
                                       ELSE Reading(flags[H], v, call.node))
               /\ seen' = seen \cup {a}
               /\ UNCHANGED <<pc, line, next, index, rv, error>>
  /\ UNCHANGED <<handlevars, call, fault>>

NextAttrLine ==
  /\ OnAttrs
  /\ LineAttrs \subseteq seen
  /\ line' = line + 1 /\ seen' = {}
  /\ UNCHANGED <<handlevars, pc, call, next, index, outvars, fault>>

AttrsReturn ==
  /\ pc = "attrs" /\ line > Len(Hosts)
  /\ Returns(Len(found), found, vals)
  /\ UNCHANGED <<handlevars, call, fault>>

(***************************************************************************)
(* Memory runs out.                                                        *)
(***************************************************************************)
Loops == {"index_attrvals", "copy", "getnodes", "getattr", "testattr",
          "testattrval", "isattrval"}

(* A call fails before it has changed anything.                             *)
OutOfMemory(h, o) ==
  /\ Ready(h)
  /\ Invoke(o, h, h, NULL, NULL, NULL, 0)
  /\ Fails("OUTMEM")
  /\ fault' = TRUE
  /\ UNCHANGED handlevars

(* A slip: the copy that could not be indexed is not destroyed.             *)
NoMemoryKeepsCopy ==
  /\ pc # "idle"
  /\ UNCHANGED handlevars
  /\ Fails(IF call.op = "copy" THEN "INTERNAL" ELSE "OUTMEM")
  /\ fault' = TRUE
  /\ UNCHANGED call

NoMemory ==
  /\ pc # "idle"
  /\ IF call.op = "copy" THEN Reset(H) /\ live' = [live EXCEPT ![H] = FALSE]
                         ELSE UNCHANGED handlevars
  /\ Fails(IF call.op = "copy" THEN "INTERNAL" ELSE "OUTMEM")
  /\ fault' = TRUE
  /\ UNCHANGED call

(* hostlist_next() returns NULL for no memory as for the end of the list:   *)
(* the nodes left are passed over.                                          *)
CutLineShort ==
  /\ OnNode
  /\ Indexing => Av \in Subst
  /\ line' = line + 1 /\ next' = 1
  /\ fault' = TRUE
  /\ UNCHANGED <<handlevars, pc, call, seen, index, outvars>>

CutListShort ==
  /\ pc \in {"hits", "names"}
  /\ Returns(Len(found), found, <<>>)
  /\ fault' = TRUE
  /\ UNCHANGED <<handlevars, call>>

Loop ==
  \/ NextLine \/ ValueTooLong \/ CollectNode \/ PassNode \/ FindValue
  \/ IndexNode \/ ScanReturns \/ IndexReturns
  \/ CollectHit \/ CollectName \/ ListReturns
  \/ CollectAttr \/ NextAttrLine \/ AttrsReturn

Faults ==
  \/ \E h \in Handle, o \in Loops : OutOfMemory(h, o)
  \/ NoMemory \/ CutLineShort \/ CutListShort

Management ==
  \/ \E h \in Handle : HandleCreate(h) \/ HandleDestroy(h) \/ LoadFails(h)
  \/ \E h \in Handle, d \in Loadable : LoadSucceeds(h, d)
  \/ \E h \in Handle, f \in Flags : SetFlags(h, f)
  \/ \E h \in Handle, a \in Attr : IndexAttrVals(h, a)
  \/ \E h, k \in Handle : Copy(h, k)

Questions ==
  \E h \in Handle :
     \/ \E o \in Loops \cup {"isnode", "isattr"} : NotLoaded(h, o)
     \/ \E o \in Loops \cup {"set_flags"} : WrongParameters(h, o)
     \/ \E n \in Node : IsNode(h, n)
     \/ \E a \in Attr : IsAttr(h, a)
     \/ \E n \in Node, a \in Attr, l \in Length \cup {NULL} :
          TestAttr(h, n, a, l)
     \/ \E n \in Node, a \in Attr, v \in Result \cup {NULL} :
          TestAttrVal(h, n, a, v)
     \/ \E a \in Attr, v \in Result : IsAttrVal(h, a, v)
     \/ \E a \in Attr \cup {NULL}, v \in Result \cup {NULL}, l \in Length :
          GetNodes(h, a, v, l)
     \/ \E n \in Node, l \in Length : GetAttr(h, n, l)

Next == Loop \/ Faults \/ Management \/ Questions

(* A call that has begun runs to its end.                                   *)
Spec == Init /\ [][Next]_vars /\ WF_vars(Loop)

(***************************************************************************)
(* Properties.                                                             *)
(***************************************************************************)
IndexTable == [Result -> Seq(Node)]

(* Every variable has its type.                                            *)
TypeOK ==
  /\ live \in [Handle -> BOOLEAN] /\ is_loaded \in [Handle -> BOOLEAN]
  /\ flags \in [Handle -> Flags]
  /\ db \in [Handle -> Loadable \cup {EmptyDatabase}]
  /\ attrval_index_attr \in [Handle -> Attr \cup {NULL}]
  /\ attrval_index \in [Handle -> IndexTable]
  /\ index_flags \in [Handle -> Flags \cup {"PARTIAL"}]
  /\ pc \in {"idle", "lines", "hits", "names", "attrs"}
  /\ call \in Call
  /\ line \in Nat \ {0} /\ next \in Nat \ {0}
  /\ seen \subseteq Attr
  /\ index \in IndexTable
  /\ found \in Seq(Node \cup Attr \cup Result)
  /\ vals \in Seq(Result \cup {NULL})
  /\ rv \in Int /\ error \in Errors /\ fault \in BOOLEAN

(* What the database says: the nodes that have attribute a and, unless v is *)
(* NULL, read the value v for it; every node if a is NULL.                  *)
Has(d, n, a, w) == <<n, a, w>> \in Table(d.genders_hosts)

NodesWith(d, f, a, v) ==
  IF a = NULL THEN d.hostnames
  ELSE {n \in Node : \E w \in Value \cup {NoValue} :
          /\ Has(d, n, a, w)
          /\ v # NULL => w # NoValue /\ Reading(f, w, n) = v}

Distinct(s) == \A i, j \in 1 .. Len(s) : s[i] = s[j] => i = j

(* No line of the file lists a node twice.                                  *)
OncePerLine(d) ==
  \A i \in 1 .. Len(d.genders_hosts) : Distinct(d.genders_hosts[i].hl)

(* An index, whatever was called since, files every node under the value it *)
(* had when the index was built, and no other; a node without a value is    *)
(* filed under NOVALUE.                                                     *)
IndexIsRight ==
  \A h \in Handle :
     attrval_index_attr[h] # NULL /\ index_flags[h] # "PARTIAL" =>
       \A r \in Result :
          NodesIn(attrval_index[h][r]) =
            IF r = NOVALUE
            THEN {n \in Node : Has(db[h], n, attrval_index_attr[h], NoValue)}
            ELSE NodesWith(db[h], index_flags[h], attrval_index_attr[h], r)

(* The index was not needed, or it was built under the flags of now.  The   *)
(* key of NULL values is not a value of a file and is not asked for.        *)
Current ==
  /\ Indexed(H, call.attr, call.val) => index_flags[H] = flags[H]
  /\ call.val # NOVALUE

Listed == {found[i] : i \in 1 .. Len(found)}
Answered(ops) == pc = "idle" /\ call.op \in ops /\ rv >= 0

(* genders_getnodes() finds the nodes the database says, by the index or by *)
(* reading the lines, each once.                                            *)
NodesAreRight ==
  Answered({"getnodes"}) /\ ~ fault /\ Current =>
    /\ rv = Len(found)
    /\ Listed = NodesWith(db[H], flags[H], call.attr, call.val)
    /\ OncePerLine(db[H]) => Distinct(found)

(* genders_testattr(), genders_testattrval() and genders_isattrval() agree  *)
(* with it, though the first two stop at the first line they find.          *)
TestsAgree ==
  /\ Answered({"testattr", "testattrval"}) =>
       /\ rv = 1 <=>
            call.node \in NodesWith(db[H], flags[H], call.attr, call.val)
       /\ found # <<>> =>
            call.node \in NodesWith(db[H], flags[H], call.attr, found[1])
  /\ Answered({"isattrval"}) /\ ~ fault /\ Current =>
       (rv = 1 <=>
          NodesWith(db[H], flags[H], call.attr, call.val) # {})

(* genders_getattr() stores every attribute of the node once, each with its *)
(* own value.                                                               *)
AttrsAreRight ==
  Answered({"getattr"}) =>
    /\ rv = Len(found) /\ Len(vals) = Len(found)
    /\ Distinct(found)
    /\ Listed = {a \in Attr :
                  call.node \in NodesWith(db[H], flags[H], a, NULL)}
    /\ \A i \in 1 .. Len(found) :
          vals[i] # NULL => call.node \in
                             NodesWith(db[H], flags[H], found[i], vals[i])

(* A list made by genders_nodelist_create() or genders_attrlist_create(),   *)
(* which has genders_getnumnodes() or genders_getnumattrs() elements, is    *)
(* large enough, if the file lists no node twice on one line.               *)
RoomForAll ==
  pc = "idle" /\ error = "OVERFLOW" =>
    /\ call.op = "getnodes" /\ OncePerLine(db[H]) =>
         call.len < Cardinality(db[H].hostnames)
    /\ call.op = "getattr" => call.len < db[H].numattrs

(* An index is lost only with the data it was built from: another index     *)
(* takes its place only when it is complete.                                *)
IndexKept ==
  [][\A h \in Handle :
       /\ attrval_index_attr[h] # NULL /\ attrval_index_attr'[h] = NULL
            => ~ is_loaded'[h]
       /\ attrval_index'[h] # attrval_index[h] /\ is_loaded'[h]
            => pc = "lines" /\ line > Len(db[h].genders_hosts)]_vars

(* genders_copy() is all or nothing, and the copy answers as its original.  *)
CopyIsEqual ==
  pc = "idle" /\ call.op = "copy" =>
    /\ rv = -1 /\ H # call.h => ~ live[H]
    /\ rv = 0 => /\ db[H] = db[call.h] /\ flags[H] = flags[call.h]
                 /\ attrval_index_attr[H] = attrval_index_attr[call.h]
                 /\ ~ fault /\ index_flags[call.h] = flags[call.h] =>
                      attrval_index[H] = attrval_index[call.h]

(* Every call returns.                                                      *)
CallsReturn == pc # "idle" ~> pc = "idle"

(***************************************************************************)
(* What the documentation says and the code does not do.                   *)
(***************************************************************************)
(* genders.h.in: under RAW_VALUES no substitution is performed, and man     *)
(* genders_index_attrvals(3): an index makes the same searches quicker.     *)
(* But an index built before genders_set_flags() answers as before it.      *)
SearchesFollowFlags ==
  Answered({"getnodes"}) /\ ~ fault /\ call.val # NOVALUE
    /\ (Indexed(H, call.attr, call.val) => index_flags[H] # "PARTIAL") =>
    Listed = NodesWith(db[H], flags[H], call.attr, call.val)

====
