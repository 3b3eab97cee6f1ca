---- MODULE GendersLoad ----
(***************************************************************************)
(* genders_load_data() and genders_parse(): the two ways a genders file is *)
(* read.  Both run _genders_open_and_parse(), the first ("load", line_num  *)
(* 0) into the handle and giving up at the first error, the second         *)
(* ("debug", line_num > 0) into structures of its own and counting the     *)
(* lines in error.                                                         *)
(*                                                                         *)
(* One step opens the file, reads a line, takes one attribute of the line, *)
(* or finishes the line; an early return with the clean-up it runs is one  *)
(* step.  Allocations and reads may fail.  Some failing allocations go     *)
(* unnoticed: a call that meets one goes on with what it has, and may      *)
(* succeed (`missed').                                                     *)
(***************************************************************************)
EXTENDS GendersFile

CONSTANTS
  LocalLen,       \* strlen() of the shortened local host name
  MaxUnnoticed    \* a bound: the kinds of unnoticed failures in one call

ASSUME LocalLenAssumption == LocalLen \in Nat

VARIABLES
  pc,        \* "idle" between calls, else where the parser is
  mode,      \* "load" or "debug": the call running, or the last one
  file,      \* the file being read, or read last
  line,      \* the line being read (1 based)
  next,      \* the attribute, then the node, of the line taken next
  attrval_index,       \* the attributes of the line so far
  max_n_subst_vallen,  \* a local of _parse_line()
  line_maxnodelen,     \* a local of _parse_line()
  data,      \* data["load"]: the handle's; data["debug"]: genders_parse()'s
  handle,    \* is_loaded, numnodes and the size of valbuf
  errcount,  \* lines in error ("debug")
  errnum,    \* handle->errnum
  rv,        \* what the last call returned
  fault,     \* history: an allocation or a read failed during the call
  missed     \* history: the failures that went unnoticed while data[m] was
             \* made, by what they leave undone

linevars == <<line, next, attrval_index, max_n_subst_vallen, line_maxnodelen>>
callvars == <<mode, file>>
vars == <<pc, mode, file, line, next, attrval_index, max_n_subst_vallen,
          line_maxnodelen, data, handle, errcount, errnum, rv, fault, missed>>

Modes == {"load", "debug"}
Errors == {"SUCCESS", "OPEN", "PARSE", "ISLOADED", "OUTMEM", "INTERNAL"}
Unnoticed == {"attrs", "clash", "length", "names"}
Bigger(x, y) == IF x > y THEN x ELSE y

NewHandle == [is_loaded |-> FALSE, numnodes |-> 0, valbuf |-> 0]

Init ==
  /\ pc = "idle"
  /\ mode = "load"
  /\ file = <<>>
  /\ line = 1 /\ next = 1
  /\ attrval_index = NoAttrVals
  /\ max_n_subst_vallen = 0 /\ line_maxnodelen = 0
  /\ data = [m \in Modes |-> EmptyDatabase]
  /\ handle = NewHandle
  /\ errcount = 0
  /\ errnum = "SUCCESS"
  /\ rv = 0
  /\ fault = FALSE
  /\ missed = [m \in Modes |-> {}]

(* A slip: the attributes of a line survive it.                             *)
LineDoneKeepsAttrs(l) ==
  /\ line' = l
  /\ next' = 1
  /\ max_n_subst_vallen' = 0 /\ line_maxnodelen' = 0
  /\ UNCHANGED attrval_index

(* The line-local variables of _parse_line() are gone when it returns.      *)
LineDone(l) ==
  /\ line' = l
  /\ next' = 1
  /\ attrval_index' = NoAttrVals
  /\ max_n_subst_vallen' = 0 /\ line_maxnodelen' = 0

(* hash_delete_if(), list_delete_all(), _genders_hostlist_delete_all() and  *)
(* _initialize_handle_info(); or the frees of genders_parse().  A slip: the *)
(* attributes are not deleted.                                              *)
CleanUpKeepsAttrs(db) == [EmptyDatabase EXCEPT !.attrs = db.attrs]
CleanUp(db) == EmptyDatabase

(* goto cleanup all the way up.  genders_load_data() empties and            *)
(* re-initialises the handle; genders_parse() frees its own structures.     *)
GiveUp(error) ==
  /\ errnum' = error
  /\ rv' = -1
  /\ pc' = "idle"
  /\ data' = [data EXCEPT ![mode] = CleanUp(data[mode])]
  /\ handle' = IF mode = "load" THEN NewHandle ELSE handle
  /\ errcount' = 0
  /\ LineDone(1)
  /\ UNCHANGED <<callvars, missed>>

(***************************************************************************)
(* Calls.                                                                  *)
(***************************************************************************)
(* Only what a loaded handle holds is older than the call.                  *)
Forgets(m) ==
  missed' = [k \in Modes |->
               IF k = m \/ ~ handle.is_loaded THEN {} ELSE missed[k]]

Start(m, f) ==
  /\ mode' = m
  /\ file' = f
  /\ fault' = FALSE
  /\ Forgets(m)
  /\ LineDone(1)

Open(m, f) ==
  /\ pc = "idle"
  /\ m = "load" => ~ handle.is_loaded
  /\ Start(m, f)
  /\ pc' = "read"
  /\ UNCHANGED <<data, handle, errcount, errnum, rv>>

(* fopen() fails; genders_parse() may also run out of memory before it.     *)
OpenFails(m) ==
  /\ pc = "idle"
  /\ m = "load" => ~ handle.is_loaded
  /\ mode' = m
  /\ file' = <<>>
  /\ errnum' \in (IF m = "load" THEN {"OPEN"} ELSE {"OPEN", "OUTMEM"})
  /\ rv' = -1
  /\ fault' = TRUE
  /\ Forgets(m)
  /\ UNCHANGED <<pc, linevars, data, handle, errcount>>

(* genders_load_data() on a loaded handle: ISLOADED, and the clean-up.      *)
LoadAgain ==
  /\ pc = "idle"
  /\ handle.is_loaded
  /\ mode' = "load"
  /\ errnum' = "ISLOADED"
  /\ rv' = -1
  /\ data' = [data EXCEPT !["load"] = CleanUp(data["load"])]
  /\ handle' = NewHandle
  /\ file' = <<>>
  /\ fault' = FALSE
  /\ missed' = [m \in Modes |-> {}]
  /\ UNCHANGED <<pc, linevars, errcount>>

(***************************************************************************)
(* The loop over the lines.                                                *)
(***************************************************************************)
MoreLines == line <= Len(file)
Current == file[line]

(* A slip: a blank line is read again and again.                            *)
ReadBlankAgain ==
  /\ pc = "read" /\ MoreLines
  /\ Current.kind = "blank"
  /\ UNCHANGED vars

ReadBlank ==
  /\ pc = "read" /\ MoreLines
  /\ Current.kind = "blank"
  /\ LineDone(line + 1)
  /\ UNCHANGED <<pc, callvars, data, handle, errcount, errnum, rv, fault,
                 missed>>

(* The buffer is full: the loop ends before the end of the file.            *)
ReadLong ==
  /\ pc = "read" /\ MoreLines
  /\ Current.kind = "long"
  /\ GiveUp("PARSE")
  /\ UNCHANGED fault

ReadFails ==
  /\ pc = "read"
  /\ GiveUp("PARSE")
  /\ fault' = TRUE

ReadEntry ==
  /\ pc = "read" /\ MoreLines
  /\ Current.kind = "entry"
  /\ pc' = "attrs"
  /\ UNCHANGED <<callvars, linevars, data, handle, errcount, errnum, rv,
                 fault, missed>>

(* _parse_line() finds an error: "load" gives up, "debug" counts it and     *)
(* goes on with the next line.                                              *)
RejectLine ==
  IF mode = "load"
  THEN GiveUp("PARSE")
  ELSE /\ errcount' = errcount + 1
       /\ errnum' = "PARSE"
       /\ pc' = "read"
       /\ LineDone(line + 1)
       /\ UNCHANGED <<callvars, data, handle, rv, missed>>

(***************************************************************************)
(* _parse_line(): attributes.                                              *)
(***************************************************************************)
MoreAttrs == next <= Len(Current.avs)
Av == Current.avs[next]

WhiteSpace ==
  /\ pc = "attrs" /\ MoreAttrs
  /\ next = 1
  /\ Current.white
  /\ RejectLine
  /\ UNCHANGED fault

ParseAttr == pc = "attrs" /\ MoreAttrs /\ ~ Current.white

(* An empty attribute, an empty value, or _insert_attrval() finds the       *)
(* attribute on the line already.                                           *)
BadAttr ==
  /\ ParseAttr
  /\ \/ Av.attr = EmptyAttr
     \/ Av.val = EmptyValue
     \/ Av.attr \in AttrsIn(attrval_index)
  /\ RejectLine
  /\ UNCHANGED fault

AcceptsEmptyValue == Av.attr \in Attr \ AttrsIn(attrval_index)
AcceptableAttr ==
  /\ Av.attr \in Attr \ AttrsIn(attrval_index)
  /\ Av.val # EmptyValue

(* What _insert_attr() returns: 1 if the attribute was not known.           *)
CountsEveryAttr(db) == 1
InsertCount(db) == IF Av.attr \in db.attrs THEN 0 ELSE 1

(* _insert_attr() and, for "load", the statistics of the attribute.         *)
WithAttr(db) ==
  [genders_hosts |-> db.genders_hosts,
   hostnames     |-> db.hostnames,
   attrs         |-> db.attrs \cup {Av.attr},
   numattrs      |-> IF mode = "load"
                     THEN db.numattrs + InsertCount(db) ELSE db.numattrs,
   maxnodelen    |-> db.maxnodelen,
   maxattrlen    |-> IF mode = "load"
                     THEN Bigger(AttrLen[Av.attr], db.maxattrlen)
                     ELSE db.maxattrlen,
   maxvallen     |-> IF mode = "load" /\ Av.val \in Value \ SubstValue
                     THEN Bigger(ValueLen[Av.val], db.maxvallen)
                     ELSE db.maxvallen]

(* max_n_subst_vallen keeps the last value with a "%n", not the longest.    *)
InsertAttr ==
  /\ ParseAttr
  /\ AcceptableAttr
  /\ attrval_index' = [attrval_index EXCEPT ![Av.attr] = Av.val]
  /\ next' = next + 1
  /\ data' = [data EXCEPT ![mode] = WithAttr(data[mode])]
  /\ max_n_subst_vallen' = IF mode = "load" /\ Av.val \in SubstValue
                           THEN ValueLen[Av.val] ELSE max_n_subst_vallen
  /\ UNCHANGED <<pc, callvars, line, line_maxnodelen, handle, errcount, errnum,
                 rv, fault, missed>>

(***************************************************************************)
(* Failures that go unnoticed.                                             *)
(***************************************************************************)
GoesUnnoticed(what) ==
  /\ fault' = TRUE
  /\ missed' = [missed EXCEPT ![mode] = @ \cup {what}]
  /\ Cardinality(missed[mode] \cup {what}) <= MaxUnnoticed

(* _genders_rehash() before an attribute is inserted into the line's table  *)
(* or into the table of all attributes: an entry for which hash_insert()    *)
(* has no memory is left out, and what _hash_reinsert() compares with 0     *)
(* does not tell.  The tables' sizes are not kept here (Hash keeps them):   *)
(* any insertion may be one that rehashes.                                  *)
DropsAttrval ==
  /\ ParseAttr
  /\ Av.attr # EmptyAttr /\ Av.val # EmptyValue
  /\ \E a \in AttrsIn(attrval_index) :
        attrval_index' = [attrval_index EXCEPT ![a] = Absent]
  /\ GoesUnnoticed("attrs")
  /\ UNCHANGED <<pc, callvars, line, next, max_n_subst_vallen,
                 line_maxnodelen, data, handle, errcount, errnum, rv>>

WithoutAttr(db, a) == [db EXCEPT !.attrs = @ \ {a}]

DropsAttr ==
  /\ ParseAttr
  /\ AcceptableAttr
  /\ Av.attr \notin data[mode].attrs
  /\ \E a \in data[mode].attrs :
        data' = [data EXCEPT ![mode] = WithoutAttr(data[mode], a)]
  /\ GoesUnnoticed("attrs")
  /\ UNCHANGED <<pc, callvars, linevars, handle, errcount, errnum, rv>>

AttrsDone ==
  /\ pc = "attrs" /\ ~ MoreAttrs
  /\ pc' = "names"
  /\ UNCHANGED <<callvars, linevars, data, handle, errcount, errnum, rv,
                 fault, missed>>

(***************************************************************************)
(* _parse_line(): node names.                                              *)
(***************************************************************************)
(* A slip: only the line before is looked at.                               *)
DuplicatesOfLastLine ==
  LET n == Len(data[mode].genders_hosts)
  IN /\ n > 0
     /\ Clash(data[mode].genders_hosts[n].hl,
              data[mode].genders_hosts[n].attrval_index,
              Current.hl, attrval_index)

Duplicates ==
  \E i \in 1 .. Len(data[mode].genders_hosts) :
     Clash(data[mode].genders_hosts[i].hl,
           data[mode].genders_hosts[i].attrval_index,
           Current.hl, attrval_index)

BadNames ==
  /\ pc = "names"
  /\ Current.names \in {"dotted", "bad"} \/ Duplicates
  /\ RejectLine
  /\ UNCHANGED fault

GoOnToHosts ==
  /\ pc' = "hosts"
  /\ next' = 1
  /\ UNCHANGED <<callvars, line, attrval_index, max_n_subst_vallen,
                 line_maxnodelen, data, handle, errcount, errnum, rv>>

NamesDone ==
  /\ pc = "names"
  /\ Current.names = "good"
  /\ ~ Duplicates
  /\ GoOnToHosts
  /\ UNCHANGED <<fault, missed>>

(* _hostlist_intersect(): hostlist_next() returns NULL for no memory as for *)
(* the end of the list, the loop ends, and the lists seem to share no node. *)
MissesClash ==
  /\ pc = "names"
  /\ Current.names = "good"
  /\ Duplicates
  /\ GoOnToHosts
  /\ GoesUnnoticed("clash")

MoreHosts == next <= Len(Current.hl)
HostLen == NodeLen[Current.hl[next]]

TooLongByTwo == HostLen > MAXHOSTNAMELEN + 1
TooLong == HostLen > MAXHOSTNAMELEN

HostTooLong ==
  /\ pc = "hosts" /\ MoreHosts
  /\ TooLong
  /\ RejectLine
  /\ UNCHANGED fault

WithNodeLen(db, len) ==
  [genders_hosts |-> db.genders_hosts,
   hostnames     |-> db.hostnames,
   attrs         |-> db.attrs,
   numattrs      |-> db.numattrs,
   maxnodelen    |-> Bigger(len, db.maxnodelen),
   maxattrlen    |-> db.maxattrlen,
   maxvallen     |-> db.maxvallen]

MeasureHost ==
  /\ pc = "hosts" /\ MoreHosts
  /\ ~ TooLong
  /\ next' = next + 1
  /\ IF mode = "load"
     THEN /\ data' = [data EXCEPT !["load"] =
                                  WithNodeLen(data["load"], HostLen)]
          /\ line_maxnodelen' = Bigger(HostLen, line_maxnodelen)
     ELSE UNCHANGED <<data, line_maxnodelen>>
  /\ UNCHANGED <<pc, callvars, line, attrval_index, max_n_subst_vallen,
                 handle, errcount, errnum, rv, fault, missed>>

(* maxvallen of the substituted values, the names and the line itself.      *)
SubstLen == max_n_subst_vallen - 2 + line_maxnodelen

WithHosts(db, pushed) ==
  [genders_hosts |-> Append(db.genders_hosts,
                            [hl |-> Current.hl,
                             attrval_index |-> attrval_index]),
   hostnames     |-> db.hostnames \cup pushed,
   attrs         |-> db.attrs,
   numattrs      |-> db.numattrs,
   maxnodelen    |-> db.maxnodelen,
   maxattrlen    |-> db.maxattrlen,
   maxvallen     |-> IF mode = "load" /\ max_n_subst_vallen # 0
                     THEN Bigger(SubstLen, db.maxvallen) ELSE db.maxvallen]

(* The line is appended, and `pushed' to the list of all nodes.             *)
AppendWith(pushed) ==
  /\ data' = [data EXCEPT ![mode] = WithHosts(data[mode], pushed)]
  /\ pc' = "read"
  /\ LineDone(line + 1)
  /\ UNCHANGED <<callvars, handle, errcount, errnum, rv>>

AppendHosts ==
  /\ pc = "hosts" /\ ~ MoreHosts
  /\ AppendWith(NodesIn(Current.hl))
  /\ UNCHANGED <<fault, missed>>

(* hostlist_next() again: the names left are neither refused nor measured.  *)
StopsMeasuring ==
  /\ pc = "hosts" /\ MoreHosts
  /\ next' = Len(Current.hl) + 1
  /\ GoesUnnoticed("length")
  /\ UNCHANGED <<pc, callvars, line, attrval_index, max_n_subst_vallen,
                 line_maxnodelen, data, handle, errcount, errnum, rv>>

(* hostlist_push_list() does not look at what hostlist_push_range() says; a *)
(* range without memory is a NULL in the list of all nodes, which does not  *)
(* have its names.  Where hostlist_sort() reads it the process ends; it may *)
(* not (one range, or a name without number before it), and the load goes   *)
(* on.                                                                      *)
LosesNames ==
  /\ pc = "hosts" /\ ~ MoreHosts
  /\ \E pushed \in SUBSET NodesIn(Current.hl) :
        /\ pushed # NodesIn(Current.hl)
        /\ AppendWith(pushed)
  /\ GoesUnnoticed("names")

(* malloc() fails somewhere in _parse_line(), and it notices.               *)
NoMemory ==
  /\ pc \in {"attrs", "names", "hosts"}
  /\ \/ GiveUp("OUTMEM")
     \/ pc = "hosts" /\ GiveUp("INTERNAL")
  /\ fault' = TRUE

(* hostlist_push() returns 0 for bad names and for no memory alike.         *)
PushFails ==
  /\ pc = "names"
  /\ Current.names = "good"
  /\ RejectLine
  /\ fault' = TRUE

(***************************************************************************)
(* End of file.                                                            *)
(***************************************************************************)
AtEof == pc = "read" /\ ~ MoreLines

(* genders_load_data(): hostlist_uniq() and hostlist_sort() leave every     *)
(* name once; then the statistics, the local name and valbuf.               *)
LoadSucceeds ==
  /\ mode = "load" /\ AtEof
  /\ data' = [data EXCEPT !["load"] = WithNodeLen(data["load"], LocalLen)]
  /\ handle' = [is_loaded |-> TRUE,
                numnodes  |-> Cardinality(data["load"].hostnames),
                valbuf    |-> data["load"].maxvallen + 1]
  /\ errnum' = "SUCCESS"
  /\ rv' = 0
  /\ pc' = "idle"
  /\ LineDone(1)
  /\ UNCHANGED <<callvars, errcount, fault, missed>>

(* gethostname() or the allocation of valbuf fails.                         *)
LoadFails ==
  /\ mode = "load" /\ AtEof
  /\ \E error \in {"INTERNAL", "OUTMEM"} : GiveUp(error)
  /\ fault' = TRUE

ParseReturns ==
  /\ mode = "debug" /\ AtEof
  /\ errnum' = "SUCCESS"
  /\ rv' = errcount
  /\ data' = [data EXCEPT !["debug"] = CleanUp(data["debug"])]
  /\ pc' = "idle"
  /\ errcount' = 0
  /\ LineDone(1)
  /\ UNCHANGED <<callvars, handle, fault, missed>>

Parser ==
  \/ ReadBlank \/ ReadLong \/ ReadEntry
  \/ WhiteSpace \/ BadAttr \/ InsertAttr \/ AttrsDone
  \/ BadNames \/ NamesDone \/ HostTooLong \/ MeasureHost \/ AppendHosts
  \/ LoadSucceeds \/ ParseReturns

Faults ==
  \/ ReadFails \/ NoMemory \/ PushFails \/ LoadFails
  \/ DropsAttrval \/ DropsAttr \/ MissesClash \/ StopsMeasuring \/ LosesNames

Caller ==
  \/ \E m \in Modes, f \in File : Open(m, f)
  \/ \E m \in Modes : OpenFails(m)
  \/ LoadAgain

Next == Parser \/ Faults \/ Caller

(* A call runs until it returns; nothing obliges a caller to make one, and  *)
(* nothing obliges an allocation or a read to fail.                         *)
Spec == Init /\ [][Next]_vars /\ WF_vars(Parser)

(***************************************************************************)
(* Properties.                                                             *)
(***************************************************************************)

(* Every variable has its type.                                            *)
TypeOK ==
  /\ pc \in {"idle", "read", "attrs", "names", "hosts"}
  /\ mode \in Modes
  /\ file \in Seq(Line)
  /\ line \in 1 .. Len(file) + 1
  /\ pc \in {"attrs", "names", "hosts"} => line <= Len(file)
  /\ next \in Nat \ {0}
  /\ attrval_index \in AttrVals
  /\ max_n_subst_vallen \in {0} \cup (Nat \ {0, 1})
  /\ line_maxnodelen \in Nat
  /\ data \in [Modes -> Database]
  /\ handle \in [is_loaded : BOOLEAN, numnodes : Nat, valbuf : Nat]
  /\ errcount \in Nat
  /\ errnum \in Errors
  /\ rv \in Int
  /\ fault \in BOOLEAN
  /\ missed \in [Modes -> SUBSET Unnoticed]

(* However far a call has come, loading or debugging, no node in the list  *)
(* of lines has an attribute twice (_duplicate_attr_checks() on every      *)
(* earlier line), unless a check itself ran out of memory unnoticed.       *)
NoDuplicateAttrs ==
  \A m \in Modes :
     "clash" \notin missed[m] => NoDuplicateAttrsIn(data[m].genders_hosts)

(* A loaded handle's nodes, attributes, counts and buffer sizes describe   *)
(* its lines: every name fits the buffers of genders_nodelist_create() and *)
(* genders_attrlist_create(), and the lists have room for all.  A failure  *)
(* that went unnoticed costs what it left undone and nothing else: names   *)
(* not measured may be too long, names not pushed are missing, attributes  *)
(* dropped are missing (but the lists keep room for them).                 *)
LoadedIsConsistent ==
  LET db == data["load"]
      unnoticed == missed["load"]
  IN handle.is_loaded =>
       /\ "clash" \notin unnoticed => NoDuplicateAttrsIn(db.genders_hosts)
       /\ "names" \notin unnoticed =>
            db.hostnames = NodesOfLines(db.genders_hosts)
       /\ "attrs" \notin unnoticed =>
            /\ db.attrs = AttrsOfLines(db.genders_hosts)
            /\ db.numattrs = Cardinality(db.attrs)
       /\ "length" \notin unnoticed =>
            \A n \in db.hostnames : NodeLen[n] <= db.maxnodelen
       /\ handle.numnodes = Cardinality(db.hostnames)
       /\ LET listed == db.attrs \cup AttrsOfLines(db.genders_hosts)
          IN /\ Cardinality(listed) <= db.numattrs
             /\ \A a \in listed : AttrLen[a] <= db.maxattrlen
       /\ handle.valbuf = db.maxvallen + 1

(* A call of genders_load_data() that failed, at whatever line, leaves     *)
(* nothing behind for the next one: it may be tried again.                 *)
AllOrNothing ==
  ~ handle.is_loaded /\ (pc = "idle" \/ mode = "debug") =>
     data["load"] = EmptyDatabase /\ handle = NewHandle

(* genders_load_data() and genders_parse() agree on what a correct file    *)
(* is: the first succeeds, and the second counts no error, only on correct *)
(* ones, or when a check or a table ran out of memory unnoticed; and only  *)
(* a failing allocation or read makes either of them complain about a      *)
(* correct file.                                                           *)
Verdicts ==
  pc = "idle" /\ errnum # "ISLOADED" =>
    /\ rv = 0 => Correct(file) \/ missed[mode] \ {"names"} # {}
    /\ rv # 0 => ~ Correct(file) \/ fault

(* Every call returns.                                                     *)
CallsReturn == pc # "idle" ~> pc = "idle"

(* The handle implements the store of GendersTable.                        *)
Store ==
  IF handle.is_loaded /\ missed["load"] = {}
  THEN [state |-> "loaded",
        nodes |-> data["load"].hostnames,
        attrs |-> data["load"].attrs,
        table |-> Table(data["load"].genders_hosts)]
  ELSE [state |-> IF handle.is_loaded THEN "doubtful" ELSE "empty",
        nodes |-> {}, attrs |-> {}, table |-> {}]

Abstract == INSTANCE GendersTable WITH store <- Store

(* Seen from outside, a load is one step: from the empty store to what a   *)
(* correct file says, or, when a failing allocation went unnoticed, to one *)
(* that promises nothing.                                                  *)
ImplementsTable == Abstract!Spec

====
