# genders: models, model checks and proofs

genders is a static cluster configuration database: a text file gives nodes
attributes, a C library (libgenders) loads it and answers questions about it,
and the command `nodeattr` prints the answers. This directory holds TLA+ models
of the library, the configurations that check them with TLC, and proofs that
TLAPS checks. `PROJECT.json` maps every definition to the lines it models and
lists components, runs, mutants, hazards, findings and theorems.

## The system

One process, no threads: libgenders takes no locks, and the mutexes of
libcommon are empty unless built with threads. What is hard here is not
scheduling but long sequences of legal calls on the same handle, early returns
in the middle of a loop with half-filled tables, memory that runs out and is
mistaken for the end of a list, state that is cached (an index, counts, buffer
sizes, the scanner's buffer) and used after what it was made from has changed,
and lengths at their limits.

| Component | State | Operations | Correct when |
| --- | --- | --- | --- |
| Parser (`genders_parsing.c`, `genders_load_data()`) | the lists and tables of the handle, maxima of lengths, the file position | load; parse for debugging | a correct file is loaded as it reads, a wrong one leaves nothing; both calls agree on what is correct; no node has an attribute twice |
| Handles (`genders.c`) | a database, flags, an attribute index | create, destroy, copy, set flags, index, all questions | every question has the answer the database gives, with an index or without; a failed call changes nothing; a copy answers as its original |
| Values (`genders_util.c`) | `valbuf` | substitution of `%n`, `%%` | a value reads as it was meant; it fits the buffers made for it |
| Queries (`genders_query.y`, `genders_query_parse.l`) | the scanner's buffer, parse tree and error, all static | query, testquery | the answer is the set the expression denotes; nothing of one call reaches the next |
| hostlist (`hostlist.c`) | sorted or unsorted ranges of names, open iterators; host sets | parse, push, find, delete, sort, uniq, iterate, print; take off either end, remove by an iterator, insert into a set | ranges stand for the sequence of hosts pushed, whatever merges or splits; their number is counted right; comparisons, which rewrite widths, order them; what is printed reads the same, and a buffer too small is told |
| list (`list.c`) | cells and the pointers to their `next` fields that open iterators hold | append, prepend, insert, push, pop, find, remove, delete, sort, iterate | an iterator meets each item that stays once, in order, and reads no cell that is gone; sorting is stable |
| hash (`hash.c`, `_genders_rehash()`) | slots of nodes, keys that are copies | insert, find, remove, delete; rehash | what was entered is found, in the slot of its key, or memory was short |
| nodeattr (`nodeattr.c`) | options, two handles at a time, lists | list, query, test, values, attributes, check, diff, expand, compress | what it prints is what the file says; --diff counts every difference; --expand and --compress print the same database |
| Bindings (C++, Perl, Python, Java), programs for PHP and cfengine | the object's handle, the lists of a call | one method per call of the library | whatever step fails, what was taken is released once, and the error is that of the step |
| The Perl compatibility library, patches in contrib, the test suite, wrappers of threads and memory | none, or outside the library | | |

The parser fills the lists of a handle and is called once per load. The
questions read them through iterators of list and hostlist; names go in and out
of hostlists as strings. `genders_query()` evaluates a tree with
`genders_getnodes()`, whose work an index may short-cut. `nodeattr` and the
bindings call the library like any other program.

## Modules

`GendersDB` — the data of a handle (nodes, attributes, values, the lines) as
the parser leaves it and the other modules read it; what it means that two
lines clash, that a database is consistent, and the table of facts it states.

`GendersFile` — a genders file as its documentation describes it, and which
files are correct. Nothing here is taken from the parser: it is the reference
the parser is checked against. How a line is cut into fields is abstracted to
the kinds of lines and names the code tells apart ("blank", "long", "dotted",
"bad", white space inside the attributes, an empty attribute or value).

`GendersTable` — the abstract store: empty, or all that one correct file says,
or "doubtful" when memory ran out where the parser does not look; loading is one
step.

`GendersLoad` — `genders_load_data()` and `genders_parse()`. `pc` is the place
in `_genders_open_and_parse()` and `_parse_line()`: "read" (fgets), "attrs",
"names", "hosts". `mode` tells the two callers apart, which the code does by
`line_num`; `data[mode]` are the lists and tables they pass. One action is one
line read, one attribute inserted, one name measured, or an early return with
all of the clean-up it leads to (`GiveUp` goes through `_parse_line()`,
`_genders_open_and_parse()` and the cleanup labels of the callers, `RejectLine`
counts the error in debug mode and goes on). `ReadFails`, `NoMemory`,
`PushFails` and `LoadFails` may strike at any step, and end the load or the line.
Other failures the code does not notice, and the load goes on and may succeed:
`MissesClash` and `StopsMeasuring` (a `hostlist_next()` without memory ends the
loops of `_hostlist_intersect()` and of the lengths of names), `DropsAttrval` and
`DropsAttr` (a rehash leaves out what it has no memory for; the sizes of tables are
not kept here, so that any insertion may rehash), and `LosesNames`
(`hostlist_push_list()` does not look at what `hostlist_push_range()` returns). The
last leaves a NULL in the list of all nodes, which then lacks names of the line.
`hostlist_sort()` may end the process at it and need not (it takes a list of one
range as it is, and compares a name without number before the NULL without reading
it; with asserts it ends), so that the load may go on with any of the names missing.
`missed` is a
history variable, the kinds of failures that went unnoticed, and the properties
say what each may cost; `MaxUnnoticed` bounds how many kinds there are in a call.
A failing allocation that ends the process has no step, since nothing comes after
it: in `hostlist_find()`, of a range of the line's own list, which the loop at
`genders_parsing.c:595` then reads, or of a list's array, which the next push reads.
Left out is the case that this loop itself runs out of memory before it gets to such
a range.

`GendersHandle` — every call on handles. Short calls are one action; those
with loops over lines and nodes run step by step (`pc` is "lines" for the scan
that `genders_getnodes()`, `genders_isattrval()` and
`genders_index_attrvals()` share in shape, "hits" for an index entry, "names"
for all nodes, "attrs" for `genders_getattr()`), because memory may run out at
any step (`NoMemory`, and `CutLineShort`/`CutListShort` where
`hostlist_next()` cannot say so). A load finds any database of `Loadable`,
which `LoadableAssumption` restricts to what `GendersLoad!LoadedIsConsistent`
says of a handle that was loaded without an unnoticed failure (after one, nothing is
stated of the questions). `index_flags` is a history variable: the flags an
index was built under.

`GendersValue` — `_genders_get_valptr()` character by character, and the
computation of `maxvallen` in `_parse_line()`. `GendersHandle` uses its result
as the function `Expand`.

`GendersQuery` — `genders_query()` and `genders_testquery()`: the text goes
through a pipe, the scanner cuts tokens off what its buffer and the pipe hold
(`rest`), the parser is the LALR automaton of the grammar with bison's default
reductions (`Reducing` states do not look ahead), its actions make and free
treenodes, and the tree is evaluated. `rest` and `pending` (flex's
YY_BUFFER_EOF_PENDING) outlive a call, as they do in the code. flex and bison
are not part of the repository; the entries of their part are marked external.
`Denotes` is the reference: what a text means, by splitting it at its last
operator, top down, where the parser works bottom up.

`Lists` — one list of `list.c` with any number of iterators. A node is named by
its item, and the address of a `next` pointer (`list->tail`, `prev` of an
iterator, the locals of the loops) by the node that has it, or `Top`. A call is
an action, and so is each turn of the loops of find, delete and sort; functions
that callers pass are any predicate, and memory may run out. `Traversal` is
what those who read a list by iterators are promised; `TraversalsAreWhole` says
that `Lists` implements it.

`Hash` — the table of attributes as the parser fills it: `hash.c` and
`_genders_rehash()`, with the copies of the names and who is to free them. The
nodes of a slot are a set. `lost` is a history variable: the names for which a
rehash had no memory.

`Nodeattr` — one invocation of the command: the checks of the options in their
order, loading (both files for --diff), and each command step by step, one
node, attribute or line at a time; `out` is what is printed. What it asks the
library is taken from the lines, as the modules above show that it is:
`FileAssumption` is what they prove of a file that loads (its lines have nodes,
finitely many attributes and no duplicates), and that the list of all nodes keeps
them when it is sorted at the end of the load. `AfterSort` is what
`hostlist_sort()` leaves of the other lists that are printed: all hosts in the run, and
`SortKeepsHosts` is assumed by the theorems that need it, since the finding
sort_frees says that it may fail. A line that names a node twice may
overflow the list of nodes of `genders_getnodes()` (`Overflows`), and then the
command exits with 1. Values are taken to fit the buffers that are made for them;
`GendersValue` says when they do. `MaxOptions` and `MaxNodes` bound
how many options and how many nodes of -l are enumerated.

`BindingMethods`, `Bindings` — the methods of the language bindings as the
sequences of steps in their source, each with what is done when it fails, and
the machine that runs them: every step may fail in the library, in `malloc()`
or in the language, and clean-up is run one operation at a time, because
`genders_nodelist_destroy()` sets the handle's error too.

`HostRange` — names and ranges of `hostlist.c` as operators: how a name is cut
into prefix and number, the padding of numbers and when two widths are
equivalent, comparing, joining and intersecting two ranges, a name in a range.
C changes ranges in place; the operators return what was changed, the widths
that a comparison rewrites included.

`HostText` — how many characters `hostlist_ranged_string()` and
`hostlist_deranged_string()` say they have written into a buffer of n.

`HostNames` — the abstract list: a sequence of names, and how many of them an
iterator has returned.

`Hostlist` — one list as libgenders and nodeattr use it: an array of ranges,
`nhosts`, and an iterator. An action is a call (`Union` is `_calc_union()` with
the two lists printed and read again; `DeleteFirst` is the step of
`_genders_hostlist_delete_all()`). qsort() is any order that the comparison
allows (`Orders`). `IsSequence` says that it implements `HostNames`. `Careful`
restricts `Sort` to lists that `hostlist_sort()` keeps together; without it
the finding sort_frees appears, where `FreedLo` is what may be read from a
range that has been freed.

`Hostset` — the rest of `hostlist.h`, on the list of `Hostlist`: host sets
(`set` says that the list is that of one), an iterator that goes by brackets or
removes what it met, and what is taken off either end. `met` is what the
iterator was last asked. Nothing but the test programs at the end of
`hostlist.c` calls these; some leave a broken list or iterator, and a guard on those
(`RemovesInPlace`, `InsertsRight`, the lengths in `PopRange` and `ShiftRange`, and
in the latter that an open iterator has met all hosts)
says which calls do not. The others are listed below.

`GendersLoadProofs`, `GendersHandleProofs`, `GendersQueryProofs`, `PartsProofs`
(lists, hash, values), `HostlistCalls` (what each call of `hostlist.c` does to
the names), `HostlistProofs` (the invariants of lists and sets) and
`NodeattrProofs` — proofs;
`DataInduction` holds what they need of induction, recursive functions and
finite sequences. `MC*` — instances; `MCParts` runs the three parts that call
no other one, `Lists`, `Hash` and `GendersValue`, one at a time.

Choices a reader may question:
- in `GendersLoad`, `GendersHandle` and `GendersQuery` the names of a file are taken
  to be padded alike, so that `hostlist_uniq()` removes every duplicate and
  `hostlist_sort()` loses none; `EachNameOnce` shows that it does then, and
  n[08-12],n[9-11] is a list of which it leaves n10 and n11 twice. It also asks
  that names be cut alike: n1[0-1] and n[10-11] are different ranges;
- numerals in `HostRange` have any base. The instance takes 2, in which numbers
  get longer at 2 and 4 as they do at 10 and 100, and every relation of number
  and width needs few hosts;
- the widths that comparisons rewrite are left alone in sorting, since
  `ComparingIsSafe` shows that a rewritten width changes no name and no other comparison;
- a list with an open iterator is sorted, searched, and loses hosts by the calls
  of `Hostset`: nothing is pushed meanwhile, as no caller does so;
- in `HostText` what is left of a buffer is 0 when `n - len` wraps, as the code
  tests for;
- an item is in a list of `Lists` once at most, so that it can name its node;
- a method of a binding is checked on one object with one handle; how arguments
  are converted is one step, which may fail;
- `error` in `GendersHandle` is errnum of a call that failed only, since
  `genders_isnode()` does not set it on success (`genders.c:1049-1050`); GENDERS_ERR_NULLPTR,
  for arrays with holes, is left out; the order in which a hash is visited is open;
- a NULL node stands for the local name and is passed as that name;
- GENDERS_NOVALUE, the key of nodes without a value, is excluded from the
  agreement of index and scan: asking for the string "  NOVAL  " would find
  them by index only;
- memory that runs out in the evaluation of a query is a node of the tree at
  which only some of the result comes out, which covers the loops that end
  early and the unchecked `hostlist_push()` of a union.

## Runs

| Run | What it asks | Instance |
| --- | --- | --- |
| load | Do both readers accept the correct files and no others, whatever fails, and is a load all or nothing? Does the parser implement `GendersTable`? | 3 nodes and one too long, 2 attributes, every kind of line, files of up to 3 lines, one kind of unnoticed failure in a call |
| handle | Does every question agree with the database, and with an index, after any sequence of calls and failures? | 1 handle, 2 nodes, 4 databases: values that read alike from "%n" and literally, a node twice on a line, a value too long for valbuf, no attributes |
| copy | Is `genders_copy()` all or nothing and its result equal to the original? | 2 handles, 1 database whose index fails under one of the flags |
| parts | Do iterators survive what is put in and taken out, and is sorting stable? Does the table keep what was entered? Does a value read as it was meant, and fit? | a list of 3 items, 2 of them equal, with 2 iterators; 5 names of which 2 have one hash, in a table of 1 to 4 slots; all values of up to 3 pieces, alone or with another, names of 1 and 3 characters |
| query | Is the answer what the parsed text means? Are trees freed? | 3 nodes, 3 attributes, some 50 texts in any order, at most 2 pieces left over |
| nodeattr | Is a command line that is accepted one of the listed uses? Is what is printed what the files say, and the same database? | 3 nodes, 2 attributes, 10 files, up to 3 options |
| bindings | Is all that was taken released once, and the right error reported? | every method of 4 languages and 2 programs, a file with nodes and one without, 4 errors of a load and 6 of a call |
| hostlist | Does an array of ranges behave as a sequence of names, with the right count, look-ups and order, and is its text whole or told to be cut? | base 2, numbers up to 3 padded to 1 or 2, digits in a prefix, letters behind a number, a number too large, a range too long; at most 4 hosts and 4 ranges that are sorted |
| stale_index, leftover, sort_frees, truncated | one documented statement each, which the code does not keep | as above |

Why the bounds suffice. In `GendersLoad` the duplicate check compares a new
line with each earlier one, so three lines have every relation of "earlier",
"this" and "later"; two attributes make "the same" and "another"; one name over
the limit and one below decide the length tests; one kind of unnoticed failure in a
call, at any of its steps and as often as may be, shows what each costs; the proofs
below then cover every file and all kinds together. In `GendersHandle` an answer depends on which of a node's lines come
first and on whether two nodes read the same value: two nodes and three lines
give every case; `Length` has values below, at and above what is needed. In
`GendersValue` the loop looks at two characters; three pieces give every
neighbourhood. In `GendersQuery` the parser's decisions depend on the top two
symbols of its stack and the lookahead; the texts reach all of them. `MaxRest`
only bounds what successive wrong queries may pile up, `PipeSize` is smaller
than one text so that the blocked write happens; since that blocks for ever
the run does not check for deadlock, and `CallsReturn` states termination
instead. In `Hostlist` every decision is about two ranges that are neighbours (in the
array or in qsort's order) or about a range and a name; four hosts make two
overlapping ranges of two, or four ranges; `MaxHosts` and `MaxRanges` bound what
a caller puts in, and `MaxLooks` how often a sort looks for an overlap (no sort of
the run needs as many). The same texts are pushed, deleted, united and inserted; each
list is printed into buffers of every length up to that of its text. sort_frees
needs five hosts, a range twice and one that is padded. In `Lists` every
pointer that a call rewrites is at a node, its neighbour or an iterator at
either: three nodes and two iterators have all of these positions, two equal
items decide stability, and `PartsProofs` covers the rest. In `Hash` one
collision and two rehashes occur (`MaxSize`), and it covers the rest too.
A command line of `nodeattr` has a conflict between two options at most, a third
shows that it is not hidden; two files suffice for --diff, and the value that
reads as "%n" and the file with 256 errors are the edges of what is printed and of
the exit status. A method of a binding takes up to two lists, and one failure ends
it. No counter needs a bound other than these.

Fairness. Weak fairness is on the steps of a call that runs (`Parser` in
`GendersLoad`, `Loop` in `GendersHandle`, `Run` in `GendersQuery`): a
single-threaded loop goes on until it returns. Nothing obliges a caller to call,
and nothing obliges memory or a read to fail. `CallsReturn` in each of the three
then says that every call returns; in `GendersQuery` only if the text fits the
pipe, into which the process writes all of it before it reads.

## Where code and documentation differ

Each is a run that TLC finds violated; the quotations are in `PROJECT.json`.
- stale_index: `genders_set_flags()` leaves an index built under other flags.
- leftover: after a query with a syntax error, the next query is read behind
  what that one left in the scanner (or, when a wrong word was the last, not
  read at all). The test suite's list of wrong queries
  (`genders_test_query_tests.c:34-47`) leaves text behind several times, and
  each following query is wrong as well, so it is not noticed.
- sort_frees: `hostlist_sort()` splits overlapping ranges, which may put them out
  of order if their padding differs; then it frees a range, reads it, and
  hosts are gone (with assertions, it aborts). `nodeattr --compress` comes to it
  with the nodes n[9-100], n05, n[99-101] and n012, if n05 lacks an attribute
  that the others have.

- truncated: `hostlist_deranged_string()` returns a length instead of -1 when a
  range and its comma, or a host without number, end where the buffer ends and
  more follow. `nodeattr` has a comment that the -1 does not seem to work, and
  takes a large buffer.

Seen and not turned into a run:
- in libgenders: a second `genders_load_data()` fails with GENDERS_ERR_ISLOADED
  and empties the handle; a line that is too long is GENDERS_ERR_PARSE, for the
  test for GENDERS_ERR_OVERFLOW is behind a return (`genders_parsing.c:713`);
  a line that lists a node twice overflows a list of `genders_getnumnodes()`
  elements (`genders.c:690`, man/genders_getnodes.3:48-50); when memory runs out in
  `hostlist_next()`, `genders_getnodes()` succeeds with fewer nodes
  (`hostlist.c:2335`); of several values with "%n" on a line only the last is
  measured for maxvallen (`genders_parsing.c:545`, against genders.h.in:186);
  `genders_getnodes()` without an attribute returns the nodes sorted, not in the
  order of the file; `hostlist_push()` without memory is reported as a parse
  error; loops that end in an error leave the name of the current node unfreed; a
  syntax error inside a query leaks its treenodes; memory that runs out in the checks
  of a line lets a node have an attribute twice, or a name be too long, in a load that
  succeeds (`genders_parsing.c:241`, `595`), and in `hostlist_push_list()` leaves
  a database without its nodes (`hostlist.c:1659`); a query longer than a pipe
  holds blocks; a rehash without memory drops entries silently
  (`genders_util.c:206`) and forgets that the table is to free its keys;
- in hostlist, as the library uses it: a range longer than 16384 hosts, which
  pushing may build by merging, is printed but refused when it is read again, so
  that the union of a query loses it; hosts whose number is over 2^25 are not
  found if they were pushed in brackets; `hostlist_next()` cuts numbers of more
  than 14 digits;
- in hostlist, as only its own test program uses it: `hostset_insert_range()`
  subtracts twice what a range has in common with the one before it
  (2466-2471), and leaves duplicates when a range reaches over several others;
  `hostlist_pop_range()` and `hostlist_shift_range()` shorten the array by the
  number of ranges after merging and leave holes (1756, 1793); the latter
  moves the iterators (1787) before the ranges (1790-1793), so that one that stands
  behind what goes is given a freed range or another than its own (1698), and
  one that stands in it stays in a freed range; after `hostlist_remove()` of the only host of a
  range behind a range of several the iterator returns those again (2383);
  `hostlist_next_range()` reads behind the array when asked again after NULL
  (2305-2308); deletions from a set of mixed padding may leave it out of order;
- in nodeattr: -q, -Q and -V fail with an overflow for some files in which a line
  names a node twice (371-372, 440-441, 462-463); --expand prints a value "%%n" as "%n", which reads as another
  value (man/nodeattr.1:174-200); -l of several nodes may show, for an attribute
  without value, that of a node before; -k exits with the number of errors modulo
  256; -d exits with 0 always; -A is accepted with -l, -k, -d, -e, -C and -H; the buffers
  of --compress are too short for raw values "%n" if all node names have one
  character (`genders_parsing.c:542`); a range longer than HOSTLIST_BUFLEN
  makes it exit; errors on the way leave lists behind or free one twice;
- in the bindings: `GetFieldID()` after `genders_handle_destroy()` is taken to
  succeed (`Gendersjni.c:1022`); C++ conversions that throw leak the list
  (`gendersplusplus.cpp:222`), `operator=` destroys its own handle before it
  copies (135), lack of memory throws GendersExceptionInternal (187); Perl makes an
  object of a NULL handle; the PHP functions leak on every error and test an
  unsigned number for less than 0; cfengine leaks the handle of a load that
  failed, and destroys a list it has not made (65-68, 90-93).

## Proofs

From the assumptions of `GendersDB`, `GendersFile` and `GendersLoad` (values
are told apart from marks, lengths are numbers) and for every set of files:

- `TypeCorrect`: `Spec => []TypeOK`, by `TypeInv`, which adds what an idle
  parser's locals are.
- (In what follows a failure that goes unnoticed is a step like any other, and the
  properties say what it may cost: `missed`.)
  `NeverDuplicate`, `Consistent`, `FailedLoadLeavesNothing`: the invariants
  NoDuplicateAttrs, LoadedIsConsistent and AllOrNothing, by `LoadInv`:
  `Accurate` (the lists and tables of either caller describe its lines, plus
  the attributes of the line that is being read: they are inserted before the line is
  appended), `Pending` (the line read so far clashes with no earlier line),
  `Measured` (maxima cover what was measured), `HandleInv` (an unloaded handle is
  empty unless it is being filled). None of the three is inductive alone: a
  clash is excluded when the names are checked, two loops before the line is
  appended.
- `VerdictsAreRight`: Verdicts, by `ReadInv`: the lines before the current one
  are good (`GoodUpTo`), unless debug mode counted an error, the attributes of
  the current line read so far are good and are what `attrval_index`
  holds (`Represents`).
- `LoadImplementsTable`: `Spec => ImplementsTable`. Only the step that sets
  `is_loaded` and the step that empties a loaded handle change `Store`;
  `ReadInv` makes the first `Load(f)` of a correct file, or `LoadBlindly` if
  something was missed.

From the assumptions of `GendersHandle` (a value never reads as GENDERS_NOVALUE,
NULL is neither a string nor a number) and `LoadableAssumption` (a load leaves a
consistent database with finitely many names, which `Consistent` and
`TypeCorrect` of the parser show for loads without an unnoticed failure), for every set of handles, databases and
values:

- `TypeCorrect` (of `GendersHandleProofs`): `Spec => []TypeOK`, by `TypeInv`:
  a handle that is not loaded is empty and has no index (`HandleInv`), and a
  loop that runs has the arguments its checks let through (`CallInv`).
- `IndexAlwaysRight`, `IndexAlwaysKept`: IndexIsRight and IndexKept, by
  `IndexInv`. IndexIsRight is not inductive: the index appears in one step, at
  the end of the scan. `Visited` is the set of pairs of a node and its value
  that the scan has passed; the index being built holds `Visited` filed by
  key, or some of it if memory ran out (`BuildInv`); `ScanIsTable` says that
  a scan that is done has visited the table of the database.
- `NodesAlwaysRight`, `TestsAlwaysAgree`, `AttrsAlwaysRight`, `AlwaysRoom`:
  NodesAreRight, TestsAgree, AttrsAreRight and RoomForAll, by `AnswerInv`:
  `found` is what matches among `Visited`, a beginning of the entry of the
  index, some of the names, or the attributes of the lines passed.
  That nothing is stored twice comes from NoDuplicateAttrsIn: two lines
  that give a node the same attribute would clash (`NotVisitedBefore`,
  `NewAttr`). The same makes the first line that `genders_testattr()` finds the
  only one (`OnlyLine`). `AlwaysRoom` counts: a list without repetitions
  that lacks an element of a finite set is shorter than the set is large.
- `CopiesAlwaysEqual`: CopyIsEqual, by `EqualInv`. A copy reads its index from
  the lines again, so that two scans, one of which may have ended long ago, must
  agree list by list, order included. What a scan files is a recursion over
  places (a line and a node of it); `Files(F, ...)` says that F is its result at
  every place. The scan that runs follows every such F, and its own past is one
  up to where it is (`FilingInv`), which `MadeInv` keeps with the index when
  it ends. So the F of the original's index is followed by the copy's scan, and no
  induction over the lines is needed.

From the assumptions of `Hash` and `Lists` (Nil is no item, sizes are numbers),
for any number of names, slots, items and iterators:

- `HashAlwaysHolds`: HashHolds, by `HashInv`: the table's nodes are in the slots
  of their keys and are what was entered and not lost (`Placed`), and each name
  that the table frees is in it. A rehash moves one entry at a time; `EnterKeeps`
  is about an insertion into either table.
- `IteratorsAlwaysAgree`: IteratorsAgree, by `ListInv`: the owners of `next`
  pointers can be numbered so that each is one more than the owner that points
  to it. Sorting moves a cell ahead of others and renumbers; the loop's pointers
  (`pp`, `back`, `spot`) are ordered by the numbers (`LoopInv`).
- `ListsAreWhole`: ListIsWhole. The items met from the head are the nodes in the
  order of their numbers, by induction on how far the list has been followed.
- `SortingIsStable`: SortIsStable, by `SortInv`: the nodes up to `pp` are in order
  of rank, then of where they were before the sort; the others are where
  they were; none up to `spot` is greater than the one that is to be moved.
- `TraversalsAlwaysWhole`: TraversalsAreWhole, the refinement of `Traversal`,
  by `TraversalInv`. Under the mapping `items` is the nodes at their numbers
  (`Ordered`), and what an iterator has still to meet is the items behind the
  number where it stands (`StandsAt`). An insertion puts one item into the items and
  into the rest of each iterator that stands before it, or of none
  (`HasPut`, `RestHasPut`), a removal takes it from each (`HasLost`,
  `RestHasLost`); the steps inside a sort stutter until it ends.

From the assumptions of `GendersQuery`, for every set of texts, nodes and words:

- `OneMeaning`: what a text means by the recursive definition of the language
  is one set of nodes at most. An operator outside all parentheses where a
  text splits is the last of its kind there, which counts of parentheses
  (`Depth`, `Balanced`) and of neighbours (`Shape`) show.
- `ParserIsSound`: the scanner and the stack are as the grammar has it.
- `AlwaysReadsAll`, `TreesAlwaysFreed`, `AnswersAlwaysRight`: AnswersReadAll,
  TreesAreFreed and AnswerIsRight, by `ReadInv`: the symbols on the stack cover
  consecutive spans of the text up to where the scanner is (`Cover`), and
  the tree of each symbol is worth what its span means, unless memory ran out.
  When the stack is one query over the whole text, its tree's answer is the text's
  meaning; where the parser stops, no way to split the text gives it one
  (`SyntaxErrorReads`). The recursion of `genders_query()` over the tree and that
  of `Denotes` over the text are compared by induction on the treenodes
  in order of age and on the length of spans.

From the assumptions of `GendersValue` and that names of nodes are sequences of
strings:

- `ValuesReadAsMeant`: ReadsAsMeant, by `AtPiece`: what is read so far is a number of
  whole pieces, and what is written is their meanings. Where a value joins
  pieces such that "%" would read with the next letter (`Joins`), nothing is said, as
  in the property.
- `SimpleValuesAlwaysFit`: SimpleValuesFit, by `ValueInvariant`: the maximum covers
  each line read (`LineSizes`, `FileSizes`), and a name is put in for two characters once
  (`GrowsOnce`, `MeantFits`), against which the maximum is measured.

From the assumptions of `HostRange` and `Hostlist` (a base of at least 2, names
that do not end in a digit as prefixes) and that callers sort no list that
`hostlist_sort()` would spoil (`Careful`; without it HostsCounted is false, which is
the finding sort_frees), for lists of any length, any numbers and padding, and all
calls of `Hostset` under their guards:

- The calls of `HostlistCalls`: two widths are equivalent if and only if every number
  between is printed alike, which is why `WidthEquiv`, which rewrites one of them, keeps
  every name; merging, joining, cutting and reducing a range do to its names what
  they do to its numbers; the recursion of a look-up through the digits of a prefix ends
  at a name of the range or says there is none.
- `ListsStayWhole`: `ListInv` is inductive. `Whole`: no range is empty and each has its
  type (one host if it is single, a prefix that does not end in a digit if it
  was cut so), and `nhosts` is the sum of their sizes. `ReaderFits`: an
  iterator that has just met a host is at a range and within it, without which
  `hostlist_remove()` would take a host from another.
- `HostsAlwaysCounted`: HostsCounted. A sort is what needs `Careful`: splitting
  keeps the number of names as long as the ranges to be split are in order.
- `ComparingAlwaysSafe`: ComparingIsSafe.
- `SortingAlwaysOrders`: SortOrders. The search for overlaps keeps
  the array in the order of `Cmp` behind where it is (`Below`, `Fine`), and when it
  has come to the front no two neighbours overlap (`Settled`); then joining from
  the end keeps the names ascending. If the search were cut off by
  `MaxLooks` the step would not be taken, so that the bound restricts nothing that is
  stated of a sort that ends.
- `FindingAlwaysFirst`: FindIsFirst, as long as no number of a range, read with the
  digits its prefix ends in, is above `MAX_HOST_SUFFIX` (`AllInReach`, which is so in
  every state of the run). Without that a look-up takes the whole name for a
  prefix and misses a host its range has (`hostlist.c:496`), so that the theorem could
  not be stated for all texts. Its proof is about numerals: what a number prints is read as
  that number (`NumeralRead`), and a text of digits is what its number prints at its
  length (`NumeralOf`); the look-up moves exactly as many digits into the prefix as the
  range has there (`MoreDigitsIn`, `MovedIs`), and the widths it finds
  equivalent print the number alike. Within a list, the hosts before the position
  found do not have the name (`FirstAt`).

From the assumptions of `Nodeattr` (a value reads as a value, nodes are ranked by
numbers) and `FileAssumption`, for all files, nodes, attributes and options:

- `NodeattrInvariant`: `IInv` is inductive. For each command it relates what is done
  and what is still to do: the values kept and those of the nodes to take are all
  values (`ValuesAt`); the table has the attributes of each node of the range that
  has been taken, and nothing that none of them has (`AttrsAt`); the lines printed are
  those of the nodes that have been taken, one each (`ExpandAt`); the table of a
  compression is what these nodes file under their keys (`GatherAt`, `FiledBy`); the count is
  that of the names and of their pairs (`DiffAt`). A line may name a node
  twice; then a list of nodes may overflow, and only then (`RoomForNames` counts the
  places that name a node). The loops run over sorted lists, of which it
  is shown that they have each element of the set once, however elements that
  compare alike are put (`SortedLists`, `LongestLists`).
- `OptionsAlwaysUsed`: OptionsAreUsed, from the checks of `main()`: at most one
  command is left, and its arguments fit.
- `DiffAlwaysCounts`: DiffCounts. Test 3 counts the attributes of the first file that differ and those
  that only the second has; `DifferencesAre` makes them one set without overlap.
- `AnswersAlwaysRight`: AnswersAreRight, if the sort of the list that is printed loses
  no host (`SortKeepsHosts`).
- `OutputAlwaysReadsBack`: OutputReadsBack, under the same assumption, which is what
  a compression needs of each of its ranges (`RangesKeepHosts`) and which fails for the
  nodes of the finding sort_frees. `Raw` is what the only line that gives a node
  an attribute says (`GivesOnce`). Lines that have for each node the
  pairs it has, and each pair once (`Describes`), are a file without duplicates that
  says the same (`ReadsBack`). That the ranges of a compression do so follows from
  their keys: each attribute of a node is in one key, each key in one range
  (`KeysAtIs`, `RangesIs`), and no comma is left over since a node without attributes
  has no other key.

Recursion over data needs induction, and the theorems on it in the library take
a predicate as a parameter, which no prover here can instantiate. `DataInduction`
states it with sets: a set of naturals that has 0 and with each number the next has
all; a predicate is the set of the numbers that have it. With this it shows that
a function defined by recursion exists and has its equations.

Only model-checked:
- liveness (`CallsReturn` of every module), since the provers do not reason about
  ENABLED;
- PrintedIsRead, EachNameOnce and IsSequence of `Hostlist` and `Hostset`;
- EverythingIsReleased and ErrorsAreReported of `Bindings`: the methods are constants of the
  source, and the run has all of them with every step failing, so that a proof would be an
  enumeration of the same cases.

## Not modelled, and the plan

Left for later, in this order:
1. Proofs of IsSequence and PrintedIsRead from the lemmas of `HostlistCalls` and the
   numerals of `HostlistProofs`.
2. An abstract store of several handles (a copy is one step) that
   `GendersHandle` refines, and the ownership of the lists of an index
   under construction, which a failure may free twice (`genders.c:1261-1281`,
   `1301-1309`).
3. The failures of `pipe()`, `fdopen()` and `fopen()` in `_parse_query()`
   (`genders_query.y:246`), for which the component "query" is partly modelled.
4. Memory that runs out in `hostlist.c` (an insertion that fails while ranges are
   split).

Not planned: the other patches in contrib, which belong to other programs; the
Perl compatibility library, an older program with the same purpose; thread
wrappers, as libgenders uses no thread; the test suite, which was read for what
its authors expect. The getters of counts and lengths and the calls that
allocate, clear and free lists only read a field or allocate; they appear as the
lengths callers pass.
