---- MODULE Bindings ----
(***************************************************************************)
(* An object of a language binding: it is made, its methods are called in  *)
(* any order, and it goes.  Each step of a method (BindingMethods) may     *)
(* fail, in the library, in malloc() or in the language; what the method   *)
(* does then is run one operation at a time, for each call of the library  *)
(* sets the number of the error anew, genders_nodelist_destroy() too.      *)
(***************************************************************************)
EXTENDS BindingMethods

CONSTANTS
  Language,     \* languages that are modelled
  LoadErrors,   \* what genders_load_data() may fail with on a new handle
  QueryErrors   \* what a question may fail with on a loaded one

VARIABLES
  lang, empty,  \* the language; whether the file has no nodes or attributes
  made, gh,     \* is there an object; its handle: none, open, loaded
  errnum,       \* the handle's error number
  mem,          \* what the call's pointers hold: null, wild, held, freed
  at, todo,     \* what is done: idle, body, exit, returned; what is left
  done,         \* the end of the method, if nothing fails
  saved,        \* an error number that is kept
  raised,       \* the error the caller gets, or "none"
  cause,        \* the step that failed first, and its error
  fault         \* something was released twice, or used after that

object == <<lang, empty, made>>
vars == <<object, gh, errnum, mem, at, todo, done, saved, raised, cause,
          fault>>

Lists == {"nodelist", "attrlist", "vallist"}
Local == Lists \cup {"buf", "stringbuf", "array", "class", "utf1", "utf2",
                     "utf3"}
NoCause == [do |-> "none", of |-> "none", err |-> "none"]

\* PHP and cfengine leave their lists to chance until they are made.
Fresh == [o \in Local |->
  IF lang \in {"php", "cfengine"} /\ o \in Lists THEN "wild" ELSE "null"]

Init ==
  /\ lang \in Language /\ empty \in BOOLEAN
  /\ made = FALSE /\ gh = "none" /\ errnum = "success"
  /\ mem = Fresh
  /\ at = "idle" /\ todo = <<>> /\ done = <<>>
  /\ saved = "none" /\ raised = "none" /\ cause = NoCause /\ fault = FALSE

-----------------------------------------------------------------------------
(* The library.                                                            *)

\* genders_errnum()
Errnum == IF gh = "none" THEN "nullhandle" ELSE errnum

\* What a call may fail with; numbers and lengths are there once it is loaded.
Errors(f) ==
  IF f \in {"create", "copy"} THEN {"outmem"}
  ELSE IF gh = "none" THEN {"nullhandle"}
  ELSE IF f = "load" THEN IF gh = "loaded" THEN {"isloaded"} ELSE LoadErrors
  ELSE IF gh = "open" THEN {"notloaded"}
  ELSE IF f \in {"getnum", "getmax", "getnodename"} THEN {}
  ELSE IF f = "list" THEN IF empty THEN {} ELSE {"outmem"}
  ELSE IF f = "getattr_all" THEN {}
  ELSE QueryErrors

\* ... and the handle after it has succeeded.
Succeeds(f) ==
  CASE f = "create" -> "open"
    [] f = "copy" -> "loaded"
    [] f = "load" -> IF gh = "open" THEN "loaded" ELSE "fails"
    [] OTHER -> IF gh = "loaded" THEN gh ELSE "fails"

-----------------------------------------------------------------------------
\* PHP and cfengine have no object: a handle is a variable of the call.
Begin == \E method \in (IF made THEN Methods[lang] ELSE Maker[lang]) :
  /\ at = "idle"
  /\ at' = "body" /\ todo' = method.steps /\ done' = method.done
  /\ gh' = IF made THEN gh ELSE "none"
  /\ mem' = Fresh
  /\ saved' = "none" /\ raised' = "none" /\ cause' = NoCause
  /\ UNCHANGED <<object, errnum, fault>>

Doing(kinds) == at = "body" /\ todo # <<>> /\ Head(todo).do \in kinds

Passes ==
  /\ at' = at /\ todo' = Tail(todo)
  /\ UNCHANGED <<object, done, saved, raised, cause>>

\* The first failure is the one to be reported.
FailsWith(e) ==
  LET step == Head(todo) IN
  /\ cause' = IF cause = NoCause
              THEN [do |-> step.do, of |-> step.of, err |-> e] ELSE cause
  /\ IF step.fails = <<"go on">> THEN at' = at /\ todo' = Tail(todo)
     ELSE at' = "exit" /\ todo' = step.fails
  /\ raised' = IF step.do = "vm" THEN "vm" ELSE raised
  /\ saved' = IF step.of = "copy" THEN e ELSE saved
  /\ UNCHANGED <<object, done>>

LibCall ==
  LET f == IF Head(todo).do = "list" THEN "list" ELSE Head(todo).of IN
  /\ Doing({"lib", "list"})
  /\ \/ /\ Succeeds(f) # "fails"
        /\ gh' = Succeeds(f) /\ errnum' = "success"
        /\ mem' = IF f = "list" /\ ~ empty
                  THEN [mem EXCEPT ![Head(todo).of] = "held"] ELSE mem
        /\ Passes
     \/ \E e \in Errors(f) :
          /\ errnum' = IF f \in {"create", "copy"} THEN errnum ELSE e
          /\ FailsWith(e)
          /\ UNCHANGED <<gh, mem>>
  /\ UNCHANGED fault

\* malloc(), a string that is converted (or is not given), another object.
Allocate ==
  LET o == Head(todo).of IN
  /\ Doing({"buf", "vm"})
  /\ \/ /\ mem' = IF o \in Local THEN [mem EXCEPT ![o] = "held"] ELSE mem
        /\ Passes
     \/ /\ o \in {"utf1", "utf2", "utf3"} /\ Passes /\ UNCHANGED mem
     \/ FailsWith("memory") /\ UNCHANGED mem
  /\ UNCHANGED <<gh, errnum, fault>>

\* _get_handle(): the field is 0 once the object has been cleaned up.
GetHandle ==
  /\ Doing({"get"})
  /\ \/ gh # "none" /\ Passes
     \/ /\ at' = "exit" /\ todo' = Head(todo).fails
        /\ raised' = IF gh = "none" THEN "internal" ELSE "vm"
        /\ cause' = [do |-> "get", of |-> "handle", err |-> raised']
        /\ UNCHANGED <<object, done, saved>>
  /\ UNCHANGED <<gh, errnum, mem, fault>>

\* genders_handle_destroy(), before something that may fail.
DropHandle ==
  /\ Doing({"drop"}) /\ Passes
  /\ gh' = "none"
  /\ UNCHANGED <<errnum, mem, fault>>

BodyEnds ==
  /\ at = "body" /\ todo = <<>>
  /\ at' = "exit" /\ todo' = done
  /\ UNCHANGED <<object, gh, errnum, mem, done, saved, raised, cause, fault>>

-----------------------------------------------------------------------------
(* The end of a method.                                                    *)

\* The exceptions there are for an error, in each language.
Class(e) ==
  CASE lang = "java" ->
         IF e \in {"open", "read", "parse", "parameters", "notfound",
                   "syntax"} THEN e ELSE "internal"
    [] lang = "cpp" ->
         IF e \in {"open", "read", "parse", "notfound", "syntax", "outmem"}
         THEN e ELSE "internal"
    [] lang = "python" ->
         IF e \in {"open", "read", "parse", "notfound", "syntax", "internal"}
         THEN e ELSE "genders"
    [] OTHER -> e

Ending(ops) == at = "exit" /\ todo # <<>> /\ Head(todo) \in ops
EndsStep ==
  /\ at' = at /\ todo' = Tail(todo)
  /\ UNCHANGED <<lang, empty, done, cause>>

Reports ==
  /\ Ending({"throw", "throw saved", "throw internal", "throw outmem",
             "throw system", "check memory", "find exception", "undef"})
  /\ raised' =
       CASE Head(todo) = "throw" -> Class(Errnum)
         [] Head(todo) = "throw saved" -> Class(saved)
         [] Head(todo) = "throw internal" -> "internal"
         [] Head(todo) = "throw outmem" -> "outmem"
         [] Head(todo) = "throw system" -> "system"
         [] Head(todo) = "check memory" ->
              IF Errnum = "outmem" THEN "outmem" ELSE raised
         [] Head(todo) = "find exception" ->
              IF raised = "none" THEN Class(Errnum) ELSE raised
         [] Head(todo) = "undef" -> Errnum
  /\ EndsStep /\ UNCHANGED <<made, gh, errnum, mem, saved, fault>>

\* genders_errnum() is kept, and given back by genders_set_errnum().
SaveErrnum ==
  /\ Ending({"save", "restore"})
  /\ saved' = IF Head(todo) = "save" THEN Errnum ELSE saved
  /\ errnum' = IF Head(todo) = "restore" THEN saved ELSE errnum
  /\ EndsStep /\ UNCHANGED <<made, gh, mem, raised, fault>>

\* _genders_list_destroy(): a list of no elements is not looked at; Java
\* looks at the pointer first.
ListDestroyed(list) ==
  IF gh # "loaded" THEN IF gh = "open" THEN "notloaded" ELSE errnum
  ELSE IF mem[list] = "null" /\ lang = "java" THEN errnum
  ELSE IF mem[list] = "null" /\ ~ empty THEN "parameters"
  ELSE "success"

Releases ==
  LET o == Head(todo)
      looked == o \notin Lists \/ (gh = "loaded" /\ ~ empty)
  IN  /\ Ending(Local)
      /\ mem' = [mem EXCEPT ![o] = IF @ = "held" /\ looked THEN "freed" ELSE @]
      /\ fault' = (fault \/ (looked /\ mem[o] \in {"freed", "wild"}))
      /\ errnum' = IF o \in Lists THEN ListDestroyed(o) ELSE errnum
      /\ EndsStep /\ UNCHANGED <<made, gh, saved, raised>>

ReleaseHandle ==
  /\ Ending({"handle"})
  /\ gh' = "none"
  /\ EndsStep /\ UNCHANGED <<made, errnum, mem, saved, raised, fault>>

Object ==
  /\ Ending({"made", "gone"})
  /\ made' = (Head(todo) = "made")
  /\ EndsStep /\ UNCHANGED <<gh, errnum, mem, saved, raised, fault>>

Return ==
  /\ at = "exit" /\ todo = <<>>
  /\ at' = "returned"
  /\ UNCHANGED <<object, gh, errnum, mem, todo, done, saved, raised, cause,
                 fault>>

CallAgain ==
  /\ at = "returned" /\ at' = "idle" /\ mem' = Fresh
  /\ saved' = "none" /\ raised' = "none" /\ cause' = NoCause
  /\ fault' = FALSE
  /\ UNCHANGED <<object, gh, errnum, todo, done>>

Next ==
  \/ Begin \/ LibCall \/ Allocate \/ GetHandle \/ DropHandle \/ BodyEnds
  \/ Reports \/ SaveErrnum \/ Releases \/ ReleaseHandle \/ Object
  \/ Return \/ CallAgain

Spec == Init /\ [][Next]_vars

-----------------------------------------------------------------------------
(* What must hold.                                                         *)

Binding == {"java", "cpp", "python", "perl"}
Holds(o) == mem[o] = "held"

\* Whatever step of a call fails, what the call has taken is released, once,
\* and no more than the object's own handle stays.  (An exception that C++
\* throws in a conversion passes the clean-up by, and so does each error of
\* the integrations for PHP and cfengine.)
EverythingIsReleased ==
  /\ lang \in Binding \/ cause = NoCause => ~ fault
  /\ at = "returned" =>
       \/ lang = "cpp" /\ cause.do = "vm"
       \/ lang \notin Binding /\ cause # NoCause
       \/ /\ \A o \in Local :
               Holds(o) => o = "array" /\ cause = NoCause
          /\ made \/ gh = "none"

\* A call that fails is reported, as what failed: with the error of the call
\* of the library although the clean-up calls it again.  (Lack of memory in the
\* binding has no error of its own in C++ and Perl.)
NoMemoryIs ==
  [java |-> "internal", cpp |-> "internal", python |-> "outmem",
   perl |-> "success"]
CreateFailsAs ==
  [java |-> "internal", cpp |-> "outmem", python |-> "system",
   perl |-> "none"]
ErrorsAreReported ==
  at = "returned" /\ lang \in Binding =>
    raised = IF cause = NoCause THEN "none"
             ELSE IF cause.do = "vm" THEN "vm"
             ELSE IF cause.do = "get" THEN cause.err
             ELSE IF cause.do = "buf" THEN NoMemoryIs[lang]
             ELSE IF cause.of = "create" THEN CreateFailsAs[lang]
             ELSE IF lang = "python" /\ cause.err = "outmem" THEN "outmem"
             ELSE Class(cause.err)

====
