---- MODULE BindingMethods ----
(***************************************************************************)
(* The wrappers around libgenders, as the steps each of them takes: for    *)
(* Java (Gendersjni.c), C++ (gendersplusplus.cpp), Python (libgenders-     *)
(* module.c below genders.py) and Perl (Libgenders.xs), and two programs   *)
(* that use the library in the same way, for PHP and for cfengine.  How    *)
(* the steps are run is Bindings' concern.                                 *)
(*                                                                         *)
(* A method is a sequence of steps that may fail, each with what is done   *)
(* when it does, and what is done when none does.                          *)
(***************************************************************************)
EXTENDS Sequences

Step(do, of) == [do |-> do, of |-> of]
Lib(f) == Step("lib", f)          \* a call of the library
Take(list) == Step("list", list)  \* genders_nodelist_create() and its like
Buf(buf) == Step("buf", buf)      \* malloc()
Vm(object) == Step("vm", object)  \* the language makes an object
Get == Step("get", "handle")      \* the handle that an object keeps
Drop(object) == Step("drop", object)

Method(steps, fails(_), done) ==
  [steps |-> [i \in DOMAIN steps |->
                [do |-> steps[i].do, of |-> steps[i].of,
                 fails |-> fails(steps[i])]],
   done |-> done]

\* Loading, and copying, make an object of the language; others use one.
Makes(method) == [method EXCEPT !.done = Append(@, "made")]

-----------------------------------------------------------------------------
(* Java: an error is thrown where it happens, and a cleanup label releases *)
(* whatever there is.                                                      *)

JavaThrows(step) ==
  CASE step.do \in {"lib", "list"} -> <<"throw">>
    [] step.do = "buf" -> <<"throw internal">>
    [] OTHER -> <<>>
Java(steps, kept) ==
  Method(steps, LAMBDA step : JavaThrows(step) \o kept, kept)

\* A method that converts its strings before the handle is taken.
Outer(utfs, steps, kept) ==
  Java([i \in DOMAIN utfs |-> Vm(utfs[i])] \o steps, kept \o utfs)

JavaConstructor == Makes(Method(
  <<Vm("utf1"), Lib("create"), Lib("load"), Vm("field")>>,
  LAMBDA step :
    CASE step.of = "create" -> <<"throw internal", "utf1">>
      [] step.of = "load" -> <<"throw", "handle", "utf1">>
      [] step.of = "field" -> <<"handle", "utf1">>
      [] OTHER -> <<"utf1">>,
  <<"utf1">>))
JavaNumbers == Java(<<Get, Lib("getnum")>>, <<>>)
JavaGetnodename ==
  Java(<<Get, Lib("getmax"), Buf("buf"), Lib("getnodename"), Vm("result")>>,
       <<"buf">>)

\* The array is released unless it is returned; string_class always is.  (A
\* class that is not found is noticed when the array cannot be made of it.)
JavaArray(list, call) ==
  <<Take(list), Lib(call), Vm("class"), Vm("array"), Vm("element")>>
JavaKept(list) == <<"array", list, "class">>
Returned(method) ==
  [method EXCEPT !.done = SelectSeq(@, LAMBDA op : op # "array")]

JavaGetnodes == Returned(Outer(<<"utf1", "utf2">>,
  <<Get>> \o JavaArray("nodelist", "query"), JavaKept("nodelist")))
JavaGetattr == Returned(Outer(<<"utf1">>,
  <<Get>> \o JavaArray("attrlist", "query"), JavaKept("attrlist")))
JavaGetattrAll == Returned(Java(
  <<Get>> \o JavaArray("attrlist", "getattr_all"), JavaKept("attrlist")))
JavaGetattrval == Outer(<<"utf1", "utf2">>,
  <<Get, Lib("getmax"), Buf("buf"), Lib("query"), Vm("result")>>, <<"buf">>)
JavaTestattr == Outer(<<"utf1", "utf2">>, <<Get, Lib("query")>>, <<>>)
JavaTestattrval ==
  Outer(<<"utf1", "utf2", "utf3">>, <<Get, Lib("query")>>, <<>>)
JavaIsnode == Java(<<Get, Vm("utf1"), Lib("query")>>, <<"utf1">>)
JavaIsattr == Java(<<Get, Vm("utf1"), Lib("query")>>, <<"utf1">>)
JavaIsattrval ==
  Java(<<Get, Vm("utf1"), Vm("utf2"), Lib("query")>>, <<"utf1", "utf2">>)
JavaQuery == Returned(Java(
  <<Get, Vm("utf1")>> \o JavaArray("nodelist", "query"),
  JavaKept("nodelist") \o <<"utf1">>))
JavaTestquery == Outer(<<"utf1", "utf2">>, <<Get, Lib("query")>>, <<>>)

\* The field is looked up again before it is cleared, which is taken to
\* succeed where it has just done.
JavaCleanup == [Java(<<Get>>, <<>>) EXCEPT !.done = <<"handle">>]

-----------------------------------------------------------------------------
(* C++: what has been taken is released by hand before an error is thrown; *)
(* an exception that a string or a vector throws passes it by.             *)

CppOf(steps, fails(_), kept) ==
  Method(steps, LAMBDA step : IF step.do = "vm" THEN <<>> ELSE fails(step),
         kept)
CppTest == CppOf(<<Lib("query")>>, LAMBDA step : <<"throw">>, <<>>)

CppConstructor == Makes(CppOf(<<Lib("create"), Lib("load")>>,
  LAMBDA step : IF step.of = "create" THEN <<"throw outmem">>
                ELSE <<"save", "handle", "throw saved">>,
  <<>>))
CppCopy == Makes(CppOf(<<Lib("copy")>>, LAMBDA step : <<"throw saved">>, <<>>))
CppAssign ==
  CppOf(<<Drop("handle"), Lib("copy")>>, LAMBDA step : <<"throw saved">>, <<>>)
CppNumbers == CppOf(<<Lib("getnum")>>, LAMBDA step : <<"throw">>, <<>>)
CppGetnodename ==
  CppOf(<<Lib("getmax"), Buf("buf"), Lib("getnodename"), Vm("result")>>,
    LAMBDA step : IF step.of = "getnodename" THEN <<"buf", "throw">>
                  ELSE <<"throw">>,
    <<"buf">>)
CppList(list, call) ==
  CppOf(<<Take(list), Lib(call), Vm("element")>>,
    LAMBDA step : IF step.do = "list" THEN <<"throw">>
                  ELSE <<"save", list, "throw saved">>,
    <<list>>)
CppGetnodes == CppList("nodelist", "query")

\* A slip: when there is no second list the first one is forgotten.
CppGetattrForgets ==
  CppOf(<<Take("attrlist"), Take("vallist"), Lib("query"), Vm("element")>>,
    LAMBDA step : IF step.do = "list" THEN <<"throw">>
                  ELSE <<"save", "attrlist", "vallist", "throw saved">>,
    <<"attrlist", "vallist">>)

CppGetattr ==
  CppOf(<<Take("attrlist"), Take("vallist"), Lib("query"), Vm("element")>>,
    LAMBDA step : CASE step.of = "attrlist" -> <<"throw">>
                    [] step.of = "vallist" ->
                         <<"save", "attrlist", "throw saved">>
                    [] OTHER -> <<"save", "attrlist", "vallist",
                                  "throw saved">>,
    <<"attrlist", "vallist">>)
CppGetattrAll == CppList("attrlist", "getattr_all")
CppTestattr ==
  CppOf(<<Lib("getmax"), Buf("buf"), Lib("query"), Vm("result")>>,
    LAMBDA step : IF step.of = "query" THEN <<"buf", "throw">>
                  ELSE <<"throw">>,
    <<"buf">>)
CppQuery == CppList("nodelist", "query")
CppDestructor == CppOf(<<>>, LAMBDA step : <<>>, <<"handle", "gone">>)

-----------------------------------------------------------------------------
(* Python: genders.py turns what a method reports without an exception of  *)
(* Python's into one by the number of the error, so that the number must   *)
(* outlive the clean-up.                                                   *)

\* A slip: the number of the error is left to what the clean-up makes of it.
KeepNothing(lists) == lists

\* The number is kept while lists are destroyed, the empty pointer too.
Keep(lists) == <<"save">> \o lists \o <<"restore">>

PythonRaises(step) ==
  CASE step.do \in {"lib", "list"} -> <<"check memory">>
    [] step.do = "buf" -> <<"throw outmem">>
    [] OTHER -> <<>>
Python(steps, kept) ==
  Method(steps,
         LAMBDA step : PythonRaises(step) \o kept \o <<"find exception">>,
         kept)

\* The arguments are parsed, a call is made and its result converted.
PythonTest(call) == Python(<<Vm("args"), Lib(call), Vm("result")>>, <<>>)

PythonNew == Makes(Method(<<Vm("self"), Lib("create")>>,
  LAMBDA step : IF step.do = "lib" THEN <<"throw system", "handle">>
                ELSE <<>>, <<>>))
PythonLoad == PythonTest("load")
PythonNumbers == Python(<<Lib("getnum"), Vm("result")>>, <<>>)

\* _build_comma_separated_string() frees its buffer, whatever happens;
\* for no items it is not called and only the result is made.
PythonString ==
  <<Lib("getmax"), Buf("stringbuf"), Vm("result")>>
PythonList(first, list, call) ==
  Python(first \o <<Take(list), Lib(call)>> \o PythonString,
         <<"stringbuf">> \o Keep(<<list>>))
PythonGetnodes == PythonList(<<Vm("args")>>, "nodelist", "query")
PythonGetattr == PythonList(<<Vm("args")>>, "attrlist", "query")
PythonGetattrAll == PythonList(<<>>, "attrlist", "getattr_all")
PythonGetnodename ==
  Python(<<Lib("getmax"), Buf("buf"), Lib("getnodename"), Vm("result")>>,
         <<"buf">>)
PythonGetattrval ==
  Python(<<Vm("args"), Lib("getmax"), Buf("buf"), Lib("query"),
           Vm("result")>>, <<"buf">>)
PythonTestattr == PythonTest("query")
PythonIndex == PythonTest("query")
PythonQuery == PythonList(<<Vm("args")>>, "nodelist", "query")
PythonTestquery == PythonTest("query")
PythonDealloc == Python(<<>>, <<"handle", "gone">>)

-----------------------------------------------------------------------------
(* Perl: a method that fails returns nothing, or -1, and leaves the error  *)
(* in the handle.  Perl itself ends when it has no memory.                 *)

Perl(steps, fails, done) ==
  Method(steps, LAMBDA step : fails \o <<"undef">>, done)
PerlCall(call) == Perl(<<Lib(call)>>, <<>>, <<>>)
PerlList(list, call) ==
  Perl(<<Take(list), Lib(call)>>, Keep(<<list>>), <<list>>)

\* Perl makes an object of the null pointer too.
PerlCreate ==
  Makes(Method(<<Lib("create")>>, LAMBDA step : <<"made">>, <<>>))
PerlLoad == PerlCall("load")
PerlNumbers == PerlCall("getnum")
PerlGetnodename ==
  Perl(<<Lib("getmax"), Buf("buf"), Lib("getnodename")>>, <<"buf">>,
       <<"buf">>)
PerlGetnodes == PerlList("nodelist", "query")
PerlGetattr ==
  Perl(<<Take("attrlist"), Take("vallist"), Lib("query")>>,
       Keep(<<"attrlist", "vallist">>), <<"attrlist", "vallist">>)
PerlGetattrAll == PerlList("attrlist", "getattr_all")
PerlGetattrval ==
  Perl(<<Lib("getmax"), Buf("buf"), Lib("query")>>, <<"buf">>, <<"buf">>)
PerlTest == PerlCall("query")
PerlQuery == PerlList("nodelist", "query")
PerlDestroy == Perl(<<>>, <<>>, <<"handle", "gone">>)

-----------------------------------------------------------------------------
(* PHP and cfengine: a handle for each call.  What PHP does not look at is *)
(* followed by the next step; a call that does fail leaves everything.     *)

Php(steps, kept) ==
  Method(steps, LAMBDA step : IF step = steps[Len(steps)] THEN <<"throw">>
                              ELSE <<"go on">>, kept \o <<"handle">>)
PhpOpens == <<Lib("create"), Lib("load")>>

\* The number is unsigned, and so never negative.
PhpGetnumattrs == Method(PhpOpens \o <<Lib("getnum")>>,
                         LAMBDA step : <<"go on">>, <<"handle">>)
PhpGetattr ==
  Php(PhpOpens \o <<Take("attrlist"), Take("vallist"), Lib("query")>>,
      <<"attrlist", "vallist">>)
PhpGetnodes == Php(PhpOpens \o <<Take("nodelist"), Lib("query")>>,
                   <<"nodelist">>)
PhpGetattrAll == Php(PhpOpens \o <<Take("attrlist"), Lib("getattr_all")>>,
                     <<"attrlist">>)

\* cfagent_module_getclasses(): label out2 destroys the list that was not
\* made and passes by the one that was.
Getclasses == Method(
  PhpOpens \o <<Take("attrlist"), Take("vallist"), Lib("query")>>,
  LAMBDA step : CASE step.of \in {"create", "load"} -> <<"throw">>
                  [] step.of = "attrlist" -> <<"throw", "handle">>
                  [] step.of = "vallist" -> <<"throw", "vallist", "handle">>
                  [] OTHER -> <<"throw", "attrlist", "vallist", "handle">>,
  <<"attrlist", "vallist", "handle">>)

-----------------------------------------------------------------------------
\* What there is to call in each language: makers of an object, and the
\* methods of one (PHP and cfengine have functions only).
Maker == [
  java |-> {JavaConstructor}, cpp |-> {CppConstructor, CppCopy},
  python |-> {PythonNew}, perl |-> {PerlCreate},
  php |-> {PhpGetnumattrs, PhpGetattr, PhpGetnodes, PhpGetattrAll},
  cfengine |-> {Getclasses}]
Methods == [
  java |-> {JavaNumbers, JavaGetnodename, JavaGetnodes, JavaGetattr,
            JavaGetattrAll, JavaGetattrval, JavaTestattr, JavaTestattrval,
            JavaIsnode, JavaIsattr, JavaIsattrval, JavaQuery, JavaTestquery,
            JavaCleanup},
  cpp |-> {CppAssign, CppNumbers, CppGetnodename, CppGetnodes, CppGetattr,
           CppGetattrAll, CppTestattr, CppTest, CppQuery, CppDestructor},
  python |-> {PythonLoad, PythonNumbers, PythonGetnodes, PythonGetattr,
              PythonGetattrAll, PythonGetnodename, PythonGetattrval,
              PythonTestattr, PythonIndex, PythonQuery, PythonTestquery,
              PythonDealloc},
  perl |-> {PerlLoad, PerlNumbers, PerlGetnodename, PerlGetnodes,
            PerlGetattr, PerlGetattrAll, PerlGetattrval, PerlTest, PerlQuery,
            PerlDestroy},
  php |-> {}, cfengine |-> {}]

====
