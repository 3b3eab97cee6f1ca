---- MODULE Nodeattr ----
(***************************************************************************)
(* The command nodeattr: one invocation, from its options to its exit      *)
(* status.  What it asks of the library is answered from the lines of a    *)
(* file, as GendersLoad and GendersHandle have it; what it collects in     *)
(* hostlists is sorted and printed: a printed range stands for what        *)
(* hostlist_sort() leaves of its nodes (AfterSort), in order.  Memory, and *)
(* the buffers made for values, are taken to suffice: the command exits    *)
(* when they do not.                                                       *)
(***************************************************************************)
EXTENDS GendersDB, SequencesExt

CONSTANTS
  File,        \* genders files: lines, errors (found by a check), readable
  Reading,     \* Reading[v, n]: what the raw value v reads as on node n
  Rank,        \* the order of hostlist_sort()
  AfterSort,   \* AfterSort[s]: the hosts that hostlist_sort() leaves of s
  PrintedLen,  \* how long the printed range of a set of nodes is
  Self,        \* the host nodeattr runs on
  MaxOptions,  \* bound of the model: how many options are given
  MaxNodes     \* bound of the model: how many nodes -l is given

ASSUME NodeattrAssumption ==
  /\ Reading \in [Value \X Node -> Value]
  /\ Rank \in [Node -> Nat]
  /\ AfterSort \in [SUBSET Node -> SUBSET Node]
  /\ PrintedLen \in [SUBSET Node -> Nat]
  /\ Self \in Node
  /\ MaxOptions \in Nat /\ MaxNodes \in Nat

NodesOf(lines) == UNION {NodesIn(lines[i].hl) : i \in DOMAIN lines}
AttrsOf(lines) == UNION {AttrsIn(lines[i].attrval_index) : i \in DOMAIN lines}

\* hostlist_sort() loses no host.  It may if it has to split ranges of nodes
\* whose numbers are not padded alike.
SortKeepsHosts == \A nodes \in SUBSET Node : AfterSort[nodes] = nodes

\* What genders_load_data() leaves (GendersLoad).  A line has a node, as
\* hostlist_push() of none is an error to the parser; of the list of all nodes,
\* which is sorted, no host is lost.
ASSUME FileAssumption ==
  \A f \in File :
    /\ f.lines \in Seq(GendersHosts)
    /\ f.errors \in Nat /\ f.readable \in BOOLEAN
    /\ NoDuplicateAttrsIn(f.lines)
    /\ AfterSort[NodesOf(f.lines)] = NodesOf(f.lines)
    /\ \A i \in DOMAIN f.lines :
         /\ f.lines[i].hl # <<>>
         /\ IsFiniteSet(AttrsIn(f.lines[i].attrval_index))

VARIABLES
  opts, nargs,  \* the options, and how many arguments follow them
  asked,        \* the arguments, once a command has taken them
  gp, dgp,      \* the lines that are loaded; the second ones for --diff
  pc,           \* what the program does
  todo,         \* the nodes its loop has still to take
  vals,         \* the array of values that the library writes to
  hattr,        \* hash of hosts by attributes: key, hl
  out,          \* what is printed
  errcount,     \* differences, or errors, that are reported
  status        \* the exit status, or -1

argv == <<opts, nargs>>
loop == <<todo, vals, hattr>>
vars == <<argv, asked, gp, dgp, pc, loop, out, errcount, status>>

-----------------------------------------------------------------------------
(* The library, as it answers for a file that is loaded.                   *)

Sorted(nodes) ==
  CHOOSE s \in SetToSeqs(nodes) :
    \A i, j \in DOMAIN s : i < j => Rank[s[i]] =< Rank[s[j]]

\* A value as it is stored for callers; NULL is not, and reads as "".
ValueAs(raw, v, n) == IF v = NoValue \/ raw THEN v ELSE Reading[v, n]

\* genders_testattr(): what the first line says that gives n the attribute.
Test(lines, n, a) ==
  LET has == {i \in DOMAIN lines : /\ n \in NodesIn(lines[i].hl)
                                   /\ a \in AttrsIn(lines[i].attrval_index)}
      first == CHOOSE i \in has : \A j \in has : i =< j
  IN  IF has = {} THEN Absent
      ELSE ValueAs(FALSE, lines[first].attrval_index[a], n)

\* A query names an attribute, or an attribute and its value.
Query == Attr \X (Value \cup {Absent})
Meets(lines, n, q) ==
  LET v == Test(lines, n, q[1]) IN v # Absent /\ q[2] \in {Absent, v}
Answer(lines, q) == {n \in NodesOf(lines) : Meets(lines, n, q)}

\* The places in the lines whose names genders_getnodes() stores for a query, a
\* name as often as a line has it: into a list of numnodes elements.
Places(lines, q) ==
  {p \in UNION {{i} \X DOMAIN lines[i].hl : i \in DOMAIN lines} :
     LET line == lines[p[1]] IN
     /\ q[1] \in AttrsIn(line.attrval_index)
     /\ q[2] \in {Absent, ValueAs(FALSE, line.attrval_index[q[1]], line.hl[p[2]])}}
Overflows(lines, q) ==
  Cardinality(Places(lines, q)) > Cardinality(NodesOf(lines))

\* genders_getattr(): the attributes of n with their raw values, line by
\* line, in the order of their table.
PairsOf(line) ==
  LET attrs == SetToSeq(AttrsIn(line.attrval_index))
  IN  [i \in DOMAIN attrs |-> <<attrs[i], line.attrval_index[attrs[i]]>>]
GetAttr(lines, n) ==
  FlattenSeq([i \in DOMAIN lines |->
    IF n \in NodesIn(lines[i].hl) THEN PairsOf(lines[i]) ELSE <<>>])

\* What the call leaves in the array of values: an attribute without a value
\* leaves its element alone.
Stored(array, pairs, raw, n) ==
  [i \in DOMAIN array |->
     IF i > Len(pairs) \/ pairs[i][2] = NoValue THEN array[i]
     ELSE ValueAs(raw, pairs[i][2], n)]
Cleared(lines) == [i \in 1 .. Cardinality(AttrsOf(lines)) |-> NoValue]

\* The attributes of n with what stands in the array beside them.
Shown(pairs, array) == {<<pairs[i][1], array[i]>> : i \in DOMAIN pairs}

-----------------------------------------------------------------------------
(* main()                                                                  *)

Option ==
  {"q", "c", "X", "A", "v", "Q", "V", "U", "l", "k", "d", "e", "C", "H"}
Command == {"Q", "V", "l", "k", "d", "e", "C", "H"}

Nothing == [nodes |-> <<>>, query |-> <<>>, without |-> <<>>]

Init ==
  /\ opts \in {s \in SUBSET Option : Cardinality(s) =< MaxOptions}
  /\ nargs \in 0 .. 3
  /\ asked = Nothing
  /\ gp = <<>> /\ dgp = <<>>
  /\ pc = "options"
  /\ todo = <<>> /\ vals = <<>> /\ hattr = {}
  /\ out = <<>>
  /\ errcount = 0
  /\ status = -1

Given(option) == option \in opts
qopt == Given("q") \/ Given("c")
Commands == (opts \cap Command) \cup (IF qopt THEN {"q"} ELSE {})

\* -A asks for a query too, after the commands have been counted.
Queries == qopt \/ Given("A")

\* How many arguments each command takes, and a test, which has no option.
Takes(command) ==
  CASE command = "q" -> IF Given("A") THEN {0} ELSE {1}
    [] command = "Q" -> {1, 2}
    [] command = "V" -> {1}
    [] command = "l" -> {0, 1}
    [] OTHER -> {0}
ArgumentsFit ==
  IF Commands = {} /\ ~ Queries THEN nargs \in {1, 2}
  ELSE \A command \in Commands \cup (IF Queries THEN {"q"} ELSE {}) :
         nargs \in Takes(command)

\* A slip: -X is not refused without a query.
WellUsedX ==
  /\ Cardinality(Commands) =< 1
  /\ Given("v") => Commands = {}
  /\ Given("U") => Given("V")
  /\ ArgumentsFit

WellUsed ==
  /\ Cardinality(Commands) =< 1
  /\ Given("v") => Commands = {}
  /\ Given("X") => Queries
  /\ Given("U") => Given("V")
  /\ ArgumentsFit

Exit(code) == status' = code

\* usage()
Usage ==
  /\ pc = "options" /\ status = -1
  /\ ~ WellUsed
  /\ Exit(1)
  /\ UNCHANGED <<argv, asked, gp, dgp, pc, loop, out, errcount>>

\* genders_load_data() succeeds; _gend_error_exit() follows when it does not.
Loads(f) == f.readable /\ f.errors = 0

\* diff_genders() loads both files before it compares them.
LoadBoth == \E f, d \in File :
  /\ pc = "options" /\ status = -1
  /\ WellUsed /\ Given("d")
  /\ IF Loads(f) /\ Loads(d)
     THEN pc' = "diff" /\ gp' = f.lines /\ dgp' = d.lines /\ UNCHANGED status
     ELSE Exit(1) /\ UNCHANGED <<pc, gp, dgp>>
  /\ UNCHANGED <<argv, asked, loop, out, errcount>>

\* genders_parse(): exit() keeps eight bits of the number of errors.
Check == \E f \in File :
  /\ pc = "options" /\ status = -1
  /\ WellUsed /\ Given("k")
  /\ pc' = "check"
  /\ errcount' = IF f.readable THEN f.errors ELSE 0
  /\ Exit(IF f.readable THEN f.errors % 256 ELSE 1)
  /\ UNCHANGED <<argv, asked, gp, dgp, loop, out>>

\* The command that is run on a file that loads.
Chosen ==
  IF Given("e") THEN "expand" ELSE IF Given("C") THEN "compress"
  ELSE IF Given("H") THEN "compress_hosts" ELSE IF Queries THEN "list_nodes"
  ELSE IF Given("Q") THEN "test_query" ELSE IF Given("V") THEN "list_attr_val"
  ELSE IF Given("l") THEN "list_attrs" ELSE "test_attr"

\* The loops of expand() and both compressions are over all nodes.
Load == \E f \in File :
  /\ pc = "options" /\ status = -1
  /\ WellUsed /\ ~ Given("d") /\ ~ Given("k")
  /\ IF Loads(f)
     THEN /\ pc' = Chosen /\ gp' = f.lines /\ vals' = Cleared(f.lines)
          /\ todo' = Sorted(NodesOf(f.lines))
          /\ UNCHANGED status
     ELSE Exit(1) /\ UNCHANGED <<pc, gp, vals, todo>>
  /\ UNCHANGED <<argv, asked, dgp, hattr, out, errcount>>

-----------------------------------------------------------------------------
(* Lists and tests.                                                        *)

Runs(command) == pc = command /\ status = -1
Asks(nodes, query, without) ==
  asked' = [nodes |-> nodes, query |-> query, without |-> without]
Prints(lines, code) ==
  /\ out' = lines
  /\ Exit(code)
  /\ UNCHANGED <<argv, gp, dgp, pc, loop, errcount>>

\* A slip: what is excluded is asked for too.
NodesListedBoth(q, x) == Answer(gp, q) \cap Answer(gp, x)

\* list_nodes(): what the first query finds but for what the second one does.
NodesListed(q, x) ==
  (IF Given("A") THEN NodesOf(gp) ELSE Answer(gp, q))
    \ (IF Given("X") THEN Answer(gp, x) ELSE {})

QueriesOverflow(q, x) ==
  \/ ~ Given("A") /\ Overflows(gp, q)
  \/ Given("X") /\ Overflows(gp, x)

ListNodes == \E q, x \in Query :
  /\ Runs("list_nodes")
  /\ Asks(<<>>, q, x)
  /\ IF QueriesOverflow(q, x) THEN Prints(<<>>, 1)
     ELSE Prints(Sorted(AfterSort[NodesListed(q, x)]), 0)

\* The node that is given first, or the host nodeattr runs on; the library
\* refuses one it does not know.
TestedOn(n) == IF nargs = 2 THEN n ELSE Self

\* test_attr(): with -v the value is printed, whatever value is wanted.
TestAttr == \E n \in Node, q \in Query :
  LET node == TestedOn(n)
      v == Test(gp, node, q[1])
  IN  /\ Runs("test_attr")
      /\ Asks(<<node>>, q, <<>>)
      /\ Prints(IF Given("v") /\ node \in NodesOf(gp)
                   /\ v \notin {Absent, NoValue}
                THEN <<v>> ELSE <<>>,
                IF node \in NodesOf(gp) /\ Meets(gp, node, q) THEN 0 ELSE 1)

TestQuery == \E n \in Node, q \in Query :
  LET node == TestedOn(n) IN
  /\ Runs("test_query")
  /\ Asks(<<node>>, q, <<>>)
  /\ Prints(<<>>, IF node \in Answer(gp, q) /\ ~ Overflows(gp, q) THEN 0 ELSE 1)

\* list_attr_val() takes the nodes that have the attribute, line by line ...
ListAttrVal == \E a \in Attr :
  /\ Runs("list_attr_val")
  /\ Asks(<<>>, <<a, Absent>>, <<>>)
  /\ \/ Overflows(gp, <<a, Absent>>) /\ Prints(<<>>, 1)
     \/ /\ ~ Overflows(gp, <<a, Absent>>)
        /\ pc' = "values"
        /\ todo' = FlattenSeq([i \in DOMAIN gp |->
             IF a \in AttrsIn(gp[i].attrval_index) THEN gp[i].hl ELSE <<>>])
        /\ UNCHANGED <<argv, gp, dgp, vals, hattr, out, errcount, status>>

\* ... and keeps each value, or with -U each that it has not kept.
KeepValue ==
  LET v == Test(gp, Head(todo), asked.query[1]) IN
  /\ Runs("values") /\ todo # <<>>
  /\ todo' = Tail(todo)
  /\ out' = IF v = NoValue \/ (Given("U") /\ Contains(out, v)) THEN out
            ELSE Append(out, v)
  /\ UNCHANGED <<argv, asked, gp, dgp, pc, vals, hattr, errcount, status>>

PrintValues ==
  /\ Runs("values") /\ todo = <<>>
  /\ Prints(out, 0) /\ UNCHANGED asked

\* _hash_attrval(), _hash_allattrvals(): n is one of the hosts of each key.
HashAttrval(h, keys, n) ==
  LET hl(k) == UNION {e.hl : e \in {f \in h : f.key = k}}
  IN  {e \in h : e.key \notin keys}
        \cup {[key |-> k, hl |-> hl(k) \cup {n}] : k \in keys}

\* list_attrs(): all attributes, or those of the nodes of a range.
ListAttrs ==
  /\ Runs("list_attrs")
  /\ \/ /\ nargs = 0
        /\ Prints(SetToSeq(AttrsOf(gp)), 0)
        /\ UNCHANGED asked
     \/ \E nodes \in BoundedSeq(Node, MaxNodes) :
        /\ nargs = 1 /\ nodes # <<>>
        /\ Asks(nodes, <<>>, <<>>)
        /\ pc' = "attrs"
        /\ todo' = nodes
        /\ UNCHANGED <<argv, gp, dgp, vals, hattr, out, errcount, status>>

\* The last node is taken first; the values of the one before it stay in the
\* array where this one's attributes have none.
HashAttrs ==
  LET n == Last(todo)
      pairs == GetAttr(gp, n)
  IN  /\ Runs("attrs") /\ todo # <<>>
      /\ IF n \in NodesOf(gp)
         THEN /\ todo' = Front(todo)
              /\ vals' = Stored(vals, pairs, FALSE, n)
              /\ hattr' = HashAttrval(hattr, {{p} : p \in Shown(pairs, vals')},
                                      n)
              /\ UNCHANGED status
         ELSE Exit(1) /\ UNCHANGED loop
      /\ UNCHANGED <<argv, asked, gp, dgp, pc, out, errcount>>

PrintAttrs ==
  /\ Runs("attrs") /\ todo = <<>>
  /\ Prints(SetToSeq(UNION {e.key : e \in hattr}), 0)
  /\ UNCHANGED asked

-----------------------------------------------------------------------------
(* Expanding and compressing.                                              *)

\* A line of a genders file; comma: a comma follows its last attribute.
Printed(hl, pairs, comma) == [hl |-> hl, pairs |-> pairs, comma |-> comma]

\* A slip: the array of values is not cleared for the next node.
FreshKeep == vals

\* genders_vallist_clear(), before each node.
Fresh == Cleared(gp)

\* expand(): a line for each node, with the values as they read there.
ExpandNode ==
  LET n == Head(todo)
      pairs == GetAttr(gp, n)
  IN  /\ Runs("expand") /\ todo # <<>>
      /\ todo' = Tail(todo)
      /\ vals' = Stored(Fresh, pairs, FALSE, n)
      /\ out' = Append(out, Printed(<<n>>, Shown(pairs, vals'), FALSE))
      /\ UNCHANGED <<argv, asked, gp, dgp, pc, hattr, errcount, status>>

Expanded ==
  /\ Runs("expand") /\ todo = <<>>
  /\ Prints(out, 0) /\ UNCHANGED asked

\* compress() files a node under each of its attributes, compress_hosts()
\* under all of them at once; one without attributes has a key of its own,
\* NOATTRSFLAG, which is the empty set here.
Keys(shown) ==
  IF pc = "compress_hosts" THEN {shown}
  ELSE IF shown = {} THEN {{}} ELSE {{p} : p \in shown}

\* Values are taken raw, as they are to be printed for many nodes.
Gather ==
  LET n == Head(todo)
      pairs == GetAttr(gp, n)
  IN  /\ pc \in {"compress", "compress_hosts"} /\ status = -1 /\ todo # <<>>
      /\ todo' = Tail(todo)
      /\ vals' = Stored(Fresh, pairs, TRUE, n)
      /\ hattr' = HashAttrval(hattr, Keys(Shown(pairs, vals')), n)
      /\ UNCHANGED <<argv, asked, gp, dgp, pc, out, errcount, status>>

\* A slip: a range gets the attributes of all ranges of its length.
RangesByLength(h) ==
  {[hl |-> AfterSort[e.hl],
    keys |-> {f.key : f \in {g \in h : PrintedLen[g.hl] = PrintedLen[e.hl]}}]
     : e \in h}

\* _hash_hostrange(): what is filed under each range, once its hosts are sorted.
Ranges(h) ==
  {[hl |-> AfterSort[e.hl],
    keys |-> {f.key : f \in {g \in h : AfterSort[g.hl] = AfterSort[e.hl]}}]
     : e \in h}

\* _output_hostrange(): a comma follows each attribute but the last one,
\* counted with NOATTRSFLAG, which is not printed.
RangeLine(r) ==
  Printed(Sorted(r.hl), UNION r.keys, {} \in r.keys /\ r.keys # {{}})

\* _hostrange_cmp(): the longest range comes first.
LongestFirst(ranges) ==
  CHOOSE s \in SetToSeqs(ranges) :
    \A i, j \in DOMAIN s : i < j => PrintedLen[s[i].hl] >= PrintedLen[s[j].hl]

PrintRanges ==
  LET lines == LongestFirst(Ranges(hattr))
  IN  /\ pc \in {"compress", "compress_hosts"} /\ status = -1 /\ todo = <<>>
      /\ Prints([i \in DOMAIN lines |-> RangeLine(lines[i])], 0)
      /\ UNCHANGED asked

-----------------------------------------------------------------------------
(* _diff()                                                                 *)

\* Tests 1 and 2: nodes and attributes that are in one file only.
DiffNames ==
  LET onlyIn(s, t) == Cardinality(s \ t) IN
  /\ Runs("diff")
  /\ errcount' = onlyIn(NodesOf(gp), NodesOf(dgp))
               + onlyIn(NodesOf(dgp), NodesOf(gp))
               + onlyIn(AttrsOf(gp), AttrsOf(dgp))
               + onlyIn(AttrsOf(dgp), AttrsOf(gp))
  /\ pc' = "diff_nodes"
  /\ todo' = Sorted(NodesOf(gp))
  /\ UNCHANGED <<argv, asked, gp, dgp, vals, hattr, out, status>>

\* The attributes of n in the lines of which test holds.
Having(lines, n, test(_)) ==
  {a \in AttrsOf(lines) : Test(lines, n, a) # Absent /\ test(a)}

\* A slip: attributes are not looked for the other way round.
Differences1(n) ==
  Cardinality(Having(gp, n, LAMBDA a :
    /\ a \in AttrsOf(dgp)
    /\ Test(dgp, n, a) # Test(gp, n, a)))

\* Test 3: attributes that n has in both files, with values, and those that
\* only the second file gives it.
Differences(n) ==
  Cardinality(Having(gp, n, LAMBDA a :
    /\ a \in AttrsOf(dgp)
    /\ Test(dgp, n, a) # Test(gp, n, a)))
  + Cardinality(Having(dgp, n, LAMBDA a :
      /\ a \in AttrsOf(gp)
      /\ Test(gp, n, a) = Absent))

\* A node the second file has not is passed over: it has been counted.
DiffNode ==
  /\ Runs("diff_nodes") /\ todo # <<>>
  /\ todo' = Tail(todo)
  /\ errcount' = IF Head(todo) \in NodesOf(dgp)
                 THEN errcount + Differences(Head(todo)) ELSE errcount
  /\ UNCHANGED <<argv, asked, gp, dgp, pc, vals, hattr, out, status>>

\* main() does not look at what _diff() has found.
DiffEnds ==
  /\ Runs("diff_nodes") /\ todo = <<>>
  /\ Prints(<<>>, 0) /\ UNCHANGED asked

-----------------------------------------------------------------------------
Next ==
  \/ Usage \/ LoadBoth \/ Check \/ Load
  \/ ListNodes \/ TestAttr \/ TestQuery
  \/ ListAttrVal \/ KeepValue \/ PrintValues
  \/ ListAttrs \/ HashAttrs \/ PrintAttrs
  \/ ExpandNode \/ Expanded
  \/ Gather \/ PrintRanges
  \/ DiffNames \/ DiffNode \/ DiffEnds

Spec == Init /\ [][Next]_vars

-----------------------------------------------------------------------------
(* What must hold.                                                         *)

Did(command) == pc = command /\ status = 0

\* What is accepted is one of the uses the usage message lists, so that no
\* option is passed over: but for -A, which is taken with any command that can
\* do without arguments, and with -v.
Uses ==
  {[o |-> {f} \cup x, n |-> {1}] : f \in {"q", "c"}, x \in SUBSET {"X"}}
    \cup {[o |-> {"A"} \cup x, n |-> {0}] : x \in SUBSET {"q", "c", "X"}}
    \cup {[o |-> x, n |-> {1, 2}] : x \in SUBSET {"v"}}
    \cup {[o |-> {"Q"}, n |-> {1, 2}], [o |-> {"l"}, n |-> {0, 1}]}
    \cup {[o |-> {"V"} \cup x, n |-> {1}] : x \in SUBSET {"U"}}
    \cup {[o |-> {f}, n |-> {0}] : f \in {"k", "d", "e", "C", "H"}}
OptionsAreUsed ==
  pc # "options" =>
    \/ \E use \in Uses :
         /\ opts \in {use.o, use.o \cup {"q", "c"}}
         /\ nargs \in use.n
    \/ /\ Given("A") /\ nargs = 0
       /\ Cardinality(Commands \ {"q"}) =< 1

\* What --expand, --compress and --compress-hosts print is a genders file that
\* says of each node what the first one does.  (nodeattr.1: "The subsequent
\* database will be identical".)  But --expand prints a value as it reads, and
\* one that reads like a "%n" is substituted when it is read again.
Again == [i \in DOMAIN out |->
  [hl |-> out[i].hl,
   attrval_index |->
     [a \in Attr |-> IF \E p \in out[i].pairs : p[1] = a
                     THEN (CHOOSE p \in out[i].pairs : p[1] = a)[2]
                     ELSE Absent]]]
SameFile ==
  /\ \A i \in DOMAIN out : ~ out[i].comma
  /\ \A i \in DOMAIN out : \A p, q \in out[i].pairs : p[1] = q[1] => p = q
  /\ NoDuplicateAttrsIn(Again)
  /\ NodesOf(Again) = NodesOf(gp)
  /\ \A n \in NodesOf(gp), a \in Attr :
       LET v == Test(gp, n, a) IN
       \/ Test(Again, n, a) = v
       \/ pc = "expand" /\ v \in Value /\ Reading[v, n] # v
\* nodeattr.1: "With --compress a given attr only appears once.  With
\* --compress-hosts a given node only appears once."
ListedOnce ==
  \A i, j \in DOMAIN out : i # j =>
    /\ pc = "compress" => out[i].pairs \cap out[j].pairs = {}
    /\ pc # "compress" => NodesIn(out[i].hl) \cap NodesIn(out[j].hl) = {}
OutputReadsBack ==
  Did("expand") \/ Did("compress") \/ Did("compress_hosts")
    => SameFile /\ ListedOnce

\* The number of differences --diff reports is that of the nodes and of the
\* attributes that one file has alone, and of the pairs of a node and an
\* attribute of both files that do not read the same: it is 0 for files that
\* say the same, and only for them.
Compared(s, t) == (s \ t) \cup (t \ s)
DiffCounts ==
  Did("diff_nodes") =>
    /\ errcount =
         Cardinality(Compared(NodesOf(gp), NodesOf(dgp)))
         + Cardinality(Compared(AttrsOf(gp), AttrsOf(dgp)))
         + Cardinality({p \in (NodesOf(gp) \cap NodesOf(dgp))
                              \X (AttrsOf(gp) \cap AttrsOf(dgp)) :
                          Test(gp, p[1], p[2]) # Test(dgp, p[1], p[2])})
    /\ errcount = 0 <=>
         /\ NodesOf(gp) = NodesOf(dgp)
         /\ \A n \in NodesOf(gp), a \in Attr : Test(gp, n, a) = Test(dgp, n, a)

\* What is listed is what the file says.  With -U values come once, without it
\* once for each node, if no line names a node twice; a list of the attributes
\* of several nodes may show one that has no value with that of a node taken
\* before.  The lists of nodes and of values fail for no other reason than that a
\* line names a node twice: then there may be more names than numnodes.
ReadOn(a) == {Test(gp, n, a) : n \in NodesOf(gp)} \ {Absent, NoValue}
Own(n) ==
  {<<a, Test(gp, n, a)>> : a \in {b \in Attr : Test(gp, n, b) # Absent}}
NamedOnce == \A i \in DOMAIN gp : IsInjective(gp[i].hl)
AnswersAreRight ==
  /\ Did("values") =>
       /\ {out[i] : i \in DOMAIN out} = ReadOn(asked.query[1])
       /\ Given("U") => \A i, j \in DOMAIN out : out[i] = out[j] => i = j
       /\ ~ Given("U") /\ NamedOnce => Len(out) = Cardinality({n \in NodesOf(gp) :
            Test(gp, n, asked.query[1]) \notin {Absent, NoValue}})
  /\ Did("attrs") =>
       LET listed == {out[i] : i \in DOMAIN out}
           own == UNION {Own(asked.nodes[i]) : i \in DOMAIN asked.nodes}
       IN  /\ {p \in own : p[2] # NoValue} \subseteq listed
           /\ \A p \in listed : \E q \in own : p[1] = q[1]
           /\ Len(asked.nodes) = 1 => listed = own
  /\ Did("list_nodes") =>
       \A n \in Node : Contains(out, n) <=>
         /\ n \in NodesOf(gp)
         /\ Given("A") \/ Meets(gp, n, asked.query)
         /\ Given("X") => ~ Meets(gp, n, asked.without)
  /\ pc \in {"list_nodes", "list_attr_val"} /\ status = 1 => ~ NamedOnce

====
