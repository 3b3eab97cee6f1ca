---- MODULE GendersQuery ----
(***************************************************************************)
(* genders_query() and genders_testquery(): a query is written into a pipe *)
(* that a flex scanner reads, a bison parser builds a tree of it, and the  *)
(* tree is evaluated with genders_getnodes().                              *)
(*                                                                         *)
(* The scanner and its buffer are static: they outlive a call.  The parser *)
(* is as bison makes it, with default reductions; its actions, the tree    *)
(* and the evaluation are the code of genders_query.y.  What               *)
(* genders_getnodes() finds is the business of GendersHandle.              *)
(*                                                                         *)
(* A query is a sequence of pieces: the characters attributes are made of, *)
(* the tokens of the scanner, " " for white space, and "@" for a character *)
(* that begins no token.                                                   *)
(***************************************************************************)
EXTENDS Integers, Sequences, FiniteSets

CONSTANTS
  Letter,      \* pieces of an attribute, or of an attribute and a value
  Node,        \* handle->hostnames
  Rank,        \* the order of hostlist_sort()
  Found,       \* Found[w]: what genders_getnodes() finds for attribute w
  Crowded,     \* words with which it needs more than numnodes elements
  Wide,        \* sets whose ranged string exceeds GENDERS_BUFLEN
  Text,        \* queries callers make
  Length,      \* lengths of the lists callers pass
  PipeSize,    \* what a pipe holds that nobody reads
  MaxRest      \* a bound: what is left over when a query is made

Op == {"||", "&&", "--"}
Ignored == {" ", "@"}
Piece == Letter \cup Op \cup Ignored \cup {"(", ")", "~"}

ASSUME QueryAssumption ==
  /\ Letter \cap (Op \cup Ignored \cup {"(", ")", "~"}) = {}
  /\ IsFiniteSet(Node)
  /\ Rank \in [Node -> Nat]
  /\ \A m, n \in Node : Rank[m] = Rank[n] => m = n
  /\ DOMAIN Found \subseteq Seq(Letter)
  /\ \A w \in DOMAIN Found : Found[w] \subseteq Node
  /\ Text \subseteq Seq(Piece)
  /\ Length \subseteq Nat /\ PipeSize \in Nat /\ MaxRest \in Nat

VARIABLES
  rest,          \* what flex's buffer and the pipe hold
  pending,       \* YY_BUFFER_EOF_PENDING
  pc,            \* "idle", "write", "parse" or "calc"
  call,          \* the call that runs, or the last one
  asked, deaf,   \* history: rest and pending as the parser found them
  look,          \* the lookahead token
  stack,         \* the parser's stack
  heap,          \* the treenodes made by the call
  unfreed,       \* those not freed
  treeroot,      \* genders_treeroot, 0 if NULL
  query_err,     \* genders_query_err
  found, rv,     \* the caller's list, what the last call returned
  error,         \* handle->errnum, if it failed
  fault          \* history: memory ran out during the call

flexvars == <<rest, pending>>
parser == <<look, stack, heap, unfreed, treeroot, query_err>>
outvars == <<found, rv, error>>
vars == <<flexvars, pc, call, asked, deaf, parser, outvars, fault>>

None == [sym |-> "none", str |-> <<>>, node |-> 0]
Token(s) == [None EXCEPT !.sym = s]
Word(w) == [None EXCEPT !.sym = "ATTR", !.str = w]
Tree(sym, t) == [None EXCEPT !.sym = sym, !.node = t]

Init ==
  /\ rest = <<>> /\ pending = FALSE
  /\ pc = "idle"
  /\ call = [op |-> "query", node |-> "", len |-> 0, text |-> <<>>]
  /\ asked = <<>> /\ deaf = FALSE
  /\ look = None /\ stack = <<>> /\ heap = <<>> /\ unfreed = {}
  /\ treeroot = 0 /\ query_err = "SUCCESS"
  /\ found = <<>> /\ rv = 0 /\ error = "SUCCESS"
  /\ fault = FALSE

(***************************************************************************)
(* The calls.                                                              *)
(***************************************************************************)
Sorted(S) ==
  CHOOSE s \in [1 .. Cardinality(S) -> S] :
     \A i, j \in 1 .. Cardinality(S) : i < j => Rank[s[i]] < Rank[s[j]]

Called(o, n, l, t) ==
  /\ pc = "idle" /\ Len(rest) <= MaxRest
  /\ call' = [op |-> o, node |-> n, len |-> l, text |-> t]
  /\ heap' = <<>> /\ unfreed' = {}
  /\ fault' = FALSE

(* genders_query() stores the nodes, genders_testquery() looks for its node *)
(* in a list of numnodes elements.                                          *)
Answers(S) ==
  /\ error' = "SUCCESS"
  /\ IF call'.op = "query"
     THEN found' = Sorted(S) /\ rv' = Cardinality(S)
     ELSE found' = <<>> /\ rv' = IF call'.node \in S THEN 1 ELSE 0

Fails(e) == error' = e /\ rv' = -1 /\ found' = <<>>

AtOnce ==
  /\ pc' = "idle" /\ asked' = <<>>
  /\ UNCHANGED <<flexvars, deaf, look, stack, treeroot, query_err>>

(* A NULL or empty query asks for all nodes.                                *)
QueryAll(l) ==
  /\ Called("query", "", l, <<>>)
  /\ IF Cardinality(Node) > l THEN Fails("OVERFLOW") ELSE Answers(Node)
  /\ AtOnce

(* Nothing is loaded, a bad list, no query to test for, an unknown node.    *)
Refuse(o, e) ==
  /\ Called(o, "", 0, <<>>)
  /\ Fails(e)
  /\ AtOnce

Start(o, n, l, t) ==
  /\ t # <<>>
  /\ Called(o, n, l, t)
  /\ query_err' = "SUCCESS" /\ treeroot' = 0
  /\ pc' = "write"
  /\ found' = <<>> /\ rv' = 0 /\ error' = "SUCCESS"
  /\ UNCHANGED <<flexvars, asked, deaf, look, stack>>

Query(l, t) == Start("query", "", l, t)
TestQuery(n, t) == Start("testquery", n, Cardinality(Node), t)

(* A slip: a pipe one piece short.                                          *)
HoldsLess(t) == Len(t) < PipeSize

(* The pipe is read after all of the query is written to it.                *)
Holds(t) == Len(t) <= PipeSize

Write ==
  /\ pc = "write" /\ Holds(call.text)
  /\ pc' = "parse"
  /\ rest' = rest \o call.text
  /\ asked' = rest \o call.text /\ deaf' = pending
  /\ UNCHANGED <<pending, call, parser, outvars, fault>>

(***************************************************************************)
(* The scanner.                                                            *)
(***************************************************************************)
Skip ==
  CHOOSE k \in 0 .. Len(rest) :
     /\ \A i \in 1 .. k : rest[i] \in Ignored
     /\ k < Len(rest) => rest[k + 1] \notin Ignored

WordEnd(k) ==
  CHOOSE j \in k .. Len(rest) :
     /\ \A i \in k + 1 .. j : rest[i] \in Letter
     /\ j < Len(rest) => rest[j + 1] \notin Letter

From(k) == SubSeq(rest, k + 1, Len(rest))

(* States of the parser that reduce whatever follows.                       *)
Size == Len(stack)
Top == IF stack = <<>> THEN None ELSE stack[Size]
Reducing == Top.sym \in {"ATTR", "term", ")"}

(* A word that ends where the buffer does is only known to end after the    *)
(* end of the file was met: then nothing more is read, the next token is    *)
(* the end, and the buffer starts anew.                                     *)
Scan ==
  /\ pc = "parse" /\ look = None /\ ~ Reducing
  /\ \/ /\ pending \/ Skip = Len(rest)
        /\ look' = Token("END")
        /\ rest' = <<>> /\ pending' = FALSE
     \/ /\ ~ pending /\ Skip < Len(rest) /\ rest[Skip + 1] \in Letter
        /\ look' = Word(SubSeq(rest, Skip + 1, WordEnd(Skip)))
        /\ rest' = From(WordEnd(Skip)) /\ pending' = (rest' = <<>>)
     \/ /\ ~ pending /\ Skip < Len(rest) /\ rest[Skip + 1] \notin Letter
        /\ look' = Token(rest[Skip + 1])
        /\ rest' = From(Skip + 1) /\ UNCHANGED pending
  /\ UNCHANGED <<pc, call, asked, deaf, stack, heap, unfreed, treeroot,
                 query_err, outvars, fault>>

(***************************************************************************)
(* The parser.                                                             *)
(***************************************************************************)
(* The last n symbols are reduced to s.                                     *)
Reduced(n, s) == SubSeq(stack, 1, Size - n) \o <<s>>
Below == IF Size < 2 THEN None ELSE stack[Size - 1]

Reduction ==
  /\ pc = "parse"
  /\ UNCHANGED <<flexvars, pc, call, asked, deaf, look, treeroot, outvars>>

(* _genders_makenode(), which makes nothing once an error is set.           *)
Make(n, sym, str, left, right) ==
  \/ /\ query_err = "SUCCESS"
     /\ heap' = Append(heap, [str |-> str, left |-> left, right |-> right,
                              complement |-> FALSE])
     /\ unfreed' = unfreed \cup {Len(heap')}
     /\ stack' = Reduced(n, Tree(sym, Len(heap')))
     /\ UNCHANGED <<query_err, fault>>
  \/ /\ query_err = "SUCCESS"
     /\ query_err' = "OUTMEM" /\ fault' = TRUE
     /\ stack' = Reduced(n, Tree(sym, 0))
     /\ UNCHANGED <<heap, unfreed>>
  \/ /\ query_err # "SUCCESS"
     /\ stack' = Reduced(n, Tree(sym, 0))
     /\ UNCHANGED <<heap, unfreed, query_err, fault>>

ReduceAttr ==
  /\ Top.sym = "ATTR"
  /\ Make(1, "term", Top.str, 0, 0)
  /\ Reduction

ReduceBinary ==
  /\ Top.sym = "term" /\ Below.sym \in Op
  /\ Make(3, "query", <<Below.sym>>, stack[Size - 2].node, Top.node)
  /\ Reduction

ReduceTerm ==
  /\ Top.sym = "term" /\ Below.sym \in {"none", "("}
  /\ stack' = Reduced(1, Tree("query", Top.node))
  /\ UNCHANGED <<heap, unfreed, query_err, fault>>
  /\ Reduction

ReduceParens ==
  /\ Top.sym = ")"
  /\ stack' = Reduced(3, Tree("term", Below.node))
  /\ UNCHANGED <<heap, unfreed, query_err, fault>>
  /\ Reduction

(* Double negation is allowed.                                              *)
Complement(c) == ~ c

ReduceComplement ==
  /\ Top.sym = "term" /\ Below.sym = "~"
  /\ stack' = Reduced(2, Top)
  /\ heap' = IF query_err # "SUCCESS" THEN heap
             ELSE [heap EXCEPT ![Top.node].complement = Complement(@)]
  /\ UNCHANGED <<unfreed, query_err, fault>>
  /\ Reduction

(* A slip: a query ends at a parenthesis too.                               *)
FinalsWithParen == {"END", ")"}
Finals == {"END"}

Complete == Size = 1 /\ Top.sym = "query"

Expected ==
  IF Top.sym # "query" THEN {"ATTR", "(", "~"}
  ELSE IF Complete THEN Op ELSE Op \cup {")"}

Shift ==
  /\ pc = "parse" /\ ~ Reducing
  /\ look.sym \in Expected
  /\ stack' = Append(stack, look)
  /\ look' = None
  /\ UNCHANGED <<flexvars, pc, call, asked, deaf, heap, unfreed, treeroot,
                 query_err, outvars, fault>>

(* A slip: the children are not freed.                                      *)
RootOnly(t) == {t}

(* The nodes _genders_free_treenode() frees: t, and those below it.         *)
Subtree(t) ==
  LET tree[i \in 0 .. Len(heap)] ==
        IF i = 0 THEN {}
        ELSE {i} \cup tree[heap[i].left] \cup tree[heap[i].right]
  IN tree[t]

(* What genders_query() does however it ends.                               *)
Cleanup(t) ==
  /\ pc' = "idle"
  /\ unfreed' = unfreed \ Subtree(t)
  /\ treeroot' = 0 /\ query_err' = "SUCCESS"
  /\ look' = None /\ stack' = <<>>
  /\ UNCHANGED <<flexvars, call, asked, deaf, heap>>

(* The end of the query: genders_treeroot is set.                           *)
Accept ==
  /\ pc = "parse" /\ Complete /\ look.sym \in Finals
  /\ IF query_err = "SUCCESS"
     THEN /\ pc' = "calc"
          /\ treeroot' = Top.node
          /\ look' = None /\ stack' = <<>>
          /\ UNCHANGED <<flexvars, call, asked, deaf, heap, unfreed,
                         query_err, outvars, fault>>
     ELSE Fails(query_err) /\ Cleanup(Top.node) /\ UNCHANGED fault

(* yyerror().  The parser has reduced a complete query before it sees that  *)
(* something wrong follows.                                                 *)
SyntaxError ==
  /\ pc = "parse" /\ look # None /\ ~ Reducing
  /\ look.sym \notin Expected /\ ~ (Complete /\ look.sym \in Finals)
  /\ Fails(IF query_err = "SUCCESS" THEN "SYNTAX" ELSE query_err)
  /\ Cleanup(IF Complete THEN Top.node ELSE 0)
  /\ UNCHANGED fault

(***************************************************************************)
(* The evaluation.                                                         *)
(***************************************************************************)
Hits(w) == IF w \in DOMAIN Found THEN Found[w] ELSE {}

(* A slip: the difference the wrong way round.                              *)
CombineSwapped(o, l, r) ==
  CASE o = "||" -> l \cup r [] o = "&&" -> l \cap r [] o = "--" -> r \ l

Combine(o, l, r) ==
  CASE o = "||" -> l \cup r [] o = "&&" -> l \cap r [] o = "--" -> l \ r

(* _calc_query(t), or why it fails.  At node cut memory runs out: only some *)
(* of what is computed there comes out.                                     *)
Calc(t, cut, some) ==
  LET calc[i \in 1 .. Len(heap)] ==
        LET tn == heap[i]
            l == calc[tn.left]
            r == calc[tn.right]
            leaf == [err |-> IF tn.str \in Crowded THEN "OVERFLOW"
                             ELSE "SUCCESS", set |-> Hits(tn.str)]
            both == [err |-> IF tn.str = <<"||">>
                                /\ (l.set \in Wide \/ r.set \in Wide)
                             THEN "INTERNAL" ELSE "SUCCESS",
                     set |-> Combine(tn.str[1], l.set, r.set)
                               \cap (IF i = cut THEN some ELSE Node)]
            h == IF tn.left = 0 THEN leaf
                 ELSE IF l.err # "SUCCESS" THEN l
                 ELSE IF r.err # "SUCCESS" THEN r ELSE both
        IN IF tn.complement /\ h.err = "SUCCESS"
           THEN [h EXCEPT !.set = Node \ @] ELSE h
  IN calc[t]

Finish(h) ==
  /\ Cleanup(treeroot)
  /\ IF h.err # "SUCCESS" THEN Fails(h.err)
     ELSE IF Cardinality(h.set) > call.len THEN Fails("OVERFLOW")
     ELSE Answers(h.set)

Evaluate ==
  /\ pc = "calc"
  /\ Finish(Calc(treeroot, 0, Node))
  /\ UNCHANGED fault

(* hostlist_next() ends a loop without memory as at the end of the list,    *)
(* and a failed hostlist_push() into a union is not noticed.                *)
EvaluateShort ==
  /\ pc = "calc"
  /\ \E cut \in 0 .. Len(heap), some \in SUBSET Node :
       LET h == Calc(treeroot, cut, some)
       IN Finish(IF cut = 0 THEN [h EXCEPT !.set = @ \cap some] ELSE h)
  /\ fault' = TRUE

(* Memory runs out in a way that is noticed.                                *)
NoMemory ==
  /\ pc = "calc"
  /\ \E e \in {"OUTMEM", "INTERNAL"} : Fails(e)
  /\ Cleanup(treeroot)
  /\ fault' = TRUE

Calls ==
  \/ \E l \in Length : QueryAll(l)
  \/ \E l \in Length, t \in Text : Query(l, t)
  \/ \E n \in Node, t \in Text : TestQuery(n, t)
  \/ \E e \in {"NOTLOADED", "PARAMETERS"} :
        Refuse("query", e) \/ Refuse("testquery", e)
  \/ Refuse("testquery", "NOTFOUND")

Parse ==
  \/ Scan \/ Shift \/ Accept \/ SyntaxError
  \/ ReduceAttr \/ ReduceBinary \/ ReduceTerm \/ ReduceParens
  \/ ReduceComplement

Run == Write \/ Parse \/ Evaluate

Next == Run \/ EvaluateShort \/ NoMemory \/ Calls

(* A call that has begun runs on, except while it cannot write.             *)
Spec == Init /\ [][Next]_vars /\ WF_vars(Run)

(***************************************************************************)
(* Properties.                                                             *)
(***************************************************************************)
(* What two terms that are joined by an operator mean.                      *)
Joined(o, l, r) ==
  IF o = "||" THEN l \cup r ELSE IF o = "&&" THEN l \cap r ELSE l \ r

(* What pieces i to j of t mean as a query or as a term, from what fewer    *)
(* of them do.  Operators are of one rank and taken left to right.          *)
Reading(t, phrase, k, i, j) ==
  IF i > j THEN {}
  ELSE IF t[i] \in Ignored THEN phrase[k, i + 1, j]
  ELSE IF t[j] \in Ignored THEN phrase[k, i, j - 1]
  ELSE UNION
    {IF \A x \in i .. j : t[x] \in Letter THEN {Hits(SubSeq(t, i, j))}
       ELSE {},
     IF t[i] = "(" /\ t[j] = ")" THEN phrase["query", i + 1, j - 1] ELSE {},
     IF t[i] = "~" THEN {Node \ S : S \in phrase["term", i + 1, j]} ELSE {},
     IF k = "query"
       THEN UNION {{Joined(t[x], l, r) : l \in phrase["query", i, x - 1],
                                         r \in phrase["term", x + 1, j]} :
                   x \in {y \in i .. j : t[y] \in Op}}
       ELSE {}}

(* What a text means: {} if it is no query, otherwise {S} for the set S of  *)
(* nodes it asks for.                                                       *)
Denotes(t) ==
  LET phrase[s \in {"query", "term"} \X (1 .. Len(t) + 1) \X (0 .. Len(t))]
        == Reading(t, phrase, s[1], s[2], s[3])
  IN phrase[<<"query", 1, Len(t)>>]

Answered == pc = "idle" /\ call.text # <<>>

(* The answer of genders_query() and genders_testquery() is what the text   *)
(* they parse, left over or not, means, and they fail only for a reason.    *)
AnswerIsRight ==
  Answered /\ ~ fault =>
    /\ error = "SYNTAX" <=> deaf \/ Denotes(asked) = {}
    /\ rv >= 0 /\ call.op = "query" =>
         /\ {found[i] : i \in 1 .. rv} \in Denotes(asked)
         /\ Len(found) = rv
         /\ \A i, j \in 1 .. rv : i < j => Rank[found[i]] < Rank[found[j]]
    /\ rv >= 0 /\ call.op = "testquery" =>
         (rv = 1 <=> \E S \in Denotes(asked) : call.node \in S)
    /\ error = "OVERFLOW" =>
         \/ \E S \in Denotes(asked) : call.len < Cardinality(S)
         \/ \E w \in Crowded, i, j \in 1 .. Len(asked) :
               SubSeq(asked, i, j) = w
    /\ error = "INTERNAL" => \E i \in 1 .. Len(asked) : asked[i] = "||"

(* A call that is not stopped by a syntax error has read all of its text,   *)
(* and leaves nothing in the scanner for the next one.                      *)
AnswersReadAll ==
  Answered /\ error # "SYNTAX" /\ ~ fault => rest = <<>> /\ ~ pending

(* A tree that was parsed to its end is freed, every treenode of it, in     *)
(* whatever way its evaluation goes; none but a tree is freed.  And no call *)
(* leaves its tree or its error to the next one, in genders_treeroot and    *)
(* genders_query_err, which are static.                                     *)
TreesAreFreed ==
  pc = "idle" =>
    /\ error # "SYNTAX" /\ ~ fault => unfreed = {}
    /\ treeroot = 0 /\ query_err = "SUCCESS"

(* A call whose query fits the pipe returns.                                *)
CallsReturn ==
  pc # "idle" /\ Len(call.text) <= PipeSize ~> pc = "idle"

(* man genders_query(3): GENDERS_ERR_SYNTAX, there is a syntax error in the *)
(* query.  But a query after one with a syntax error is parsed with what    *)
(* that one left in the scanner.                                            *)
SyntaxErrorsAreItsOwn ==
  Answered /\ error = "SYNTAX" => Denotes(call.text) = {}

====
