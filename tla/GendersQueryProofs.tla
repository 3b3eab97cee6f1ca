---- MODULE GendersQueryProofs ----
(***************************************************************************)
(* Proofs about GendersQuery.                                              *)
(***************************************************************************)
EXTENDS GendersQuery, DataInduction, FiniteSetTheorems, TLAPS


-----------------------------------------------------------------------------
(* Types.                                                                  *)

Terminal == Op \cup {"ATTR", "(", ")", "~"}
Symbol == [sym : Terminal \cup {"term", "query", "END", "none"},
           str : Seq(Letter), node : Nat]
TreeNode == [str : Seq(Letter \cup Op), left : Nat, right : Nat,
             complement : BOOLEAN]

\* What a caller may ask for.
CallType == [op : {"query", "testquery"}, node : Node \cup {""},
             len : Nat, text : Seq(Piece)]

\* What the variables are, and what a parser is that does not run.
TypeInv ==
  /\ rest \in Seq(Piece) /\ pending \in BOOLEAN
  /\ pc \in {"idle", "write", "parse", "calc"}
  /\ call \in CallType
  /\ asked \in Seq(Piece) /\ deaf \in BOOLEAN
  /\ look \in Symbol /\ stack \in Seq(Symbol)
  /\ heap \in Seq(TreeNode) /\ unfreed \subseteq 1 .. Len(heap)
  /\ treeroot \in Nat
  /\ query_err \in {"SUCCESS", "OUTMEM"} /\ fault \in BOOLEAN
  /\ pc # "parse" => look = None /\ stack = <<>>
  /\ pc \in {"idle", "write"} => query_err = "SUCCESS" /\ treeroot = 0

\* A run of elements of A that begins behind k.
LEMMA RunEnds ==
  ASSUME NEW S, NEW s \in Seq(S), NEW k \in 0 .. Len(s), NEW A
  PROVE  \E j \in k .. Len(s) :
            /\ \A i \in k + 1 .. j : s[i] \in A
            /\ j < Len(s) => s[j + 1] \notin A
<1> DEFINE T == {j \in k .. Len(s) : j < Len(s) => s[j + 1] \notin A}
<1>1. Len(s) \in T /\ T \subseteq Nat
  OBVIOUS
<1>2. PICK j \in T : \A i \in T : j <= i
  BY <1>1, NatMin
<1>3. ASSUME NEW i \in k + 1 .. j PROVE s[i] \in A
  <2>1. i - 1 \in k .. Len(s) /\ i - 1 < j /\ (i - 1) + 1 = i
    BY <1>3
  <2>2. i - 1 \notin T
    <3>1. ~ (j <= i - 1) /\ j \in Nat
      BY <2>1, <1>1, <1>2
    <3> HIDE DEF T
    <3> QED BY <3>1, <1>2
  <2> QED BY <2>1, <2>2
<1> QED
  BY <1>2, <1>3

LEMMA SkipIs ==
  ASSUME TypeInv
  PROVE  /\ Skip \in 0 .. Len(rest)
         /\ \A i \in 1 .. Skip : rest[i] \in Ignored
         /\ Skip < Len(rest) => rest[Skip + 1] \notin Ignored
<1>1. rest \in Seq(Piece)
  BY DEF TypeInv
<1>2. 0 \in 0 .. Len(rest) /\ 0 + 1 = 1
  BY <1>1
<1>3. \E k \in 0 .. Len(rest) :
        /\ \A i \in 0 + 1 .. k : rest[i] \in Ignored
        /\ k < Len(rest) => rest[k + 1] \notin Ignored
  BY ONLY <1>1, <1>2, RunEnds
<1> QED
  BY <1>2, <1>3 DEF Skip

LEMMA WordEndIs ==
  ASSUME TypeInv, NEW k \in 0 .. Len(rest)
  PROVE  /\ WordEnd(k) \in k .. Len(rest)
         /\ \A i \in k + 1 .. WordEnd(k) : rest[i] \in Letter
         /\ WordEnd(k) < Len(rest) => rest[WordEnd(k) + 1] \notin Letter
<1>1. rest \in Seq(Piece)
  BY DEF TypeInv
<1>2. \E j \in k .. Len(rest) :
        /\ \A i \in k + 1 .. j : rest[i] \in Letter
        /\ j < Len(rest) => rest[j + 1] \notin Letter
  BY <1>1, RunEnds
<1> QED
  BY <1>2 DEF WordEnd

LEMMA ReducedIs ==
  ASSUME TypeInv, NEW n \in 1 .. 3, n <= Len(stack), NEW s \in Symbol
  PROVE  /\ Reduced(n, s) \in Seq(Symbol)
         /\ Len(Reduced(n, s)) = Len(stack) - n + 1
         /\ \A k \in 1 .. Len(stack) - n : Reduced(n, s)[k] = stack[k]
         /\ Reduced(n, s)[Len(stack) - n + 1] = s
<1>0. stack \in Seq(Symbol)
  BY DEF TypeInv
<1>1. stack \in Seq(Symbol) /\ Len(stack) \in Nat
  BY <1>0
<1> DEFINE b == SubSeq(stack, 1, Len(stack) - n)
<1>2. b \in Seq(Symbol) /\ Len(b) = Len(stack) - n
  BY <1>1
<1>3. \A k \in 1 .. Len(b) : b[k] = stack[k]
  BY <1>1, <1>2
<1>4. Reduced(n, s) = b \o <<s>>
  BY DEF Reduced, Size
<1> HIDE DEF b
<1>5. <<s>> \in Seq(Symbol) /\ Len(<<s>>) = 1 /\ <<s>>[1] = s
  OBVIOUS
<1> QED
  BY <1>1, <1>2, <1>3, <1>4, <1>5

\* What a symbol of the parser's stack stands on, "none" for the bottom.
Under(k) == IF k = 1 THEN "none" ELSE stack[k - 1].sym
StandsOn(s) ==
  IF s = "query" THEN {"none", "("}
  ELSE IF s \in Op \cup {")"} THEN {"query"}
  ELSE Op \cup {"none", "(", "~"}

\* The stack is one that the grammar allows, and the lookahead is a token.
StackInv ==
  /\ look = None \/ look.sym \in Terminal \cup {"END"}
  /\ \A k \in 1 .. Len(stack) :
        /\ stack[k].sym \in Terminal \cup {"term", "query"}
        /\ Under(k) \in StandsOn(stack[k].sym)
        /\ stack[k].sym = ")" => k > 2 /\ stack[k - 2].sym = "("

\* A treenode is a word, or an operator of two treenodes made before it.
IsNode(tn, i) ==
  /\ tn.left < i /\ tn.right < i
  /\ tn.left = 0 => tn.str \in Seq(Letter)
  /\ tn.left # 0 => tn.right # 0 /\ \E o \in Op : tn.str = <<o>>

\* What the parser has read has a treenode unless memory ran out.
HeapInv ==
  /\ \A i \in 1 .. Len(heap) : IsNode(heap[i], i)
  /\ query_err = "SUCCESS" =>
        /\ \A k \in 1 .. Len(stack) :
              stack[k].sym \in {"term", "query"} =>
                stack[k].node \in 1 .. Len(heap)
        /\ pc = "calc" => treeroot \in 1 .. Len(heap)
  /\ query_err # "SUCCESS" => fault

ParseInv == TypeInv /\ StackInv /\ HeapInv

LEMMA NoneIs ==
  /\ None \in Symbol /\ None.sym = "none"
  /\ \A s \in Terminal \cup {"term", "query", "END"}, n \in Nat :
        Tree(s, n) \in Symbol /\ Tree(s, n).sym = s /\ Tree(s, n).node = n
  /\ \A s \in Terminal \cup {"END"} :
        Token(s) \in Symbol /\ Token(s).sym = s
  /\ \A w \in Seq(Letter) :
        Word(w) \in Symbol /\ Word(w).sym = "ATTR" /\ Word(w).str = w
<1>1. <<>> \in Seq(Letter)
  OBVIOUS
<1> QED
  BY <1>1 DEF None, Tree, Token, Word, Symbol, Terminal

\* The top of the stack, and what is below it.
LEMMA StackIs ==
  ASSUME TypeInv, StackInv
  PROVE  /\ stack \in Seq(Symbol) /\ Len(stack) \in Nat /\ Size = Len(stack)
         /\ stack = <<>> <=> Len(stack) = 0
         /\ \A k \in 1 .. Len(stack) :
               /\ stack[k] \in Symbol
               /\ stack[k].sym \in Terminal \cup {"term", "query"}
               /\ stack[k].sym # "none"
               /\ Under(k) \in StandsOn(stack[k].sym)
<1>1. stack \in Seq(Symbol)
  BY DEF TypeInv
<1>2. Len(stack) \in Nat /\ (stack = <<>> <=> Len(stack) = 0)
  BY <1>1
<1>3. \A k \in 1 .. Len(stack) : stack[k] \in Symbol
  BY <1>1
<1>4. \A k \in 1 .. Len(stack) :
        /\ stack[k].sym \in Terminal \cup {"term", "query"}
        /\ Under(k) \in StandsOn(stack[k].sym)
  BY DEF StackInv
<1>5. "none" \notin Terminal \cup {"term", "query"}
  BY DEF Terminal, Op
<1> QED
  BY <1>1, <1>2, <1>3, <1>4, <1>5 DEF Size

LEMMA TopIs ==
  ASSUME TypeInv, StackInv, Top.sym # "none"
  PROVE  /\ Len(stack) > 0 /\ Len(stack) \in 1 .. Len(stack)
         /\ Top = stack[Len(stack)] /\ Top \in Symbol
         /\ Top.sym \in Terminal \cup {"term", "query"}
         /\ Below.sym = Under(Len(stack))
         /\ Below.sym \in StandsOn(Top.sym)
<1>1. stack # <<>> /\ Len(stack) > 0
  BY StackIs, NoneIs DEF Top
<1>2. Len(stack) \in 1 .. Len(stack) /\ Top = stack[Len(stack)]
  BY <1>1, StackIs DEF Top
<1>3. Below.sym = Under(Len(stack))
  <2>1. CASE Len(stack) = 1
    BY <2>1, StackIs, NoneIs DEF Below, Under
  <2>2. CASE Len(stack) > 1
    BY <2>2, StackIs DEF Below, Under
  <2> QED BY <1>1, <2>1, <2>2, StackIs
<1> QED
  BY <1>1, <1>2, <1>3, StackIs

LEMMA BelowIs ==
  ASSUME TypeInv, StackInv, Below.sym # "none"
  PROVE  /\ Len(stack) > 1 /\ Len(stack) - 1 \in 1 .. Len(stack)
         /\ Below = stack[Len(stack) - 1] /\ Below \in Symbol
         /\ Below.sym \in Terminal \cup {"term", "query"}
         /\ Under(Len(stack) - 1) \in StandsOn(Below.sym)
         /\ Top.sym # "none"
<1>1. ~ (Len(stack) < 2)
  BY StackIs, NoneIs DEF Below
<1>2. Len(stack) > 1 /\ Len(stack) - 1 \in 1 .. Len(stack)
  BY <1>1, StackIs
<1>3. Below = stack[Len(stack) - 1]
  BY <1>1, StackIs DEF Below
<1>4. Top.sym # "none"
  BY <1>2, StackIs DEF Top
<1> QED
  BY <1>2, <1>3, <1>4, StackIs

-----------------------------------------------------------------------------
(* What is always so of the scanner, the parser and its treenodes.         *)

LEMMA EmptyIs ==
  /\ \A S : <<>> \in Seq(S)
  /\ Len(<<>>) = 0 /\ 1 .. Len(<<>>) = {}
OBVIOUS

LEMMA TextIs ==
  \A t \in Text : t \in Seq(Piece)
BY QueryAssumption

\* Between calls, and before a query is parsed.
LEMMA ParseInvAtRest ==
  ASSUME ParseInv,
         pc' \in {"idle", "write"}, look' = None, stack' = <<>>,
         query_err' = "SUCCESS", treeroot' = 0,
         rest' \in Seq(Piece), pending' \in BOOLEAN,
         call' \in CallType,
         asked' \in Seq(Piece), deaf' \in BOOLEAN, fault' \in BOOLEAN,
         \/ heap' = <<>> /\ unfreed' = {}
         \/ heap' = heap /\ unfreed' \subseteq unfreed
  PROVE  ParseInv'
<1>1. stack' \in Seq(Symbol) /\ Len(stack') = 0 /\ 1 .. Len(stack') = {}
  BY EmptyIs
<1>2. heap' \in Seq(TreeNode) /\ unfreed' \subseteq 1 .. Len(heap')
  <2>1. heap \in Seq(TreeNode) /\ unfreed \subseteq 1 .. Len(heap)
    BY DEF ParseInv, TypeInv
  <2>2. CASE heap' = <<>> /\ unfreed' = {}
    BY ONLY <2>2, EmptyIs
  <2>3. CASE heap' = heap /\ unfreed' \subseteq unfreed
    BY ONLY <2>1, <2>3
  <2> QED
    BY <2>2, <2>3
<1>3. TypeInv'
  BY <1>1, <1>2, NoneIs DEF TypeInv
<1>4. StackInv'
  BY <1>1 DEF StackInv
<1>5. HeapInv'
  <2>1. \A i \in 1 .. Len(heap') : i \in 1 .. Len(heap) /\ heap'[i] = heap[i]
    BY EmptyIs
  <2> QED
    BY <2>1, <1>1 DEF HeapInv, ParseInv
<1> QED
  BY <1>3, <1>4, <1>5 DEF ParseInv

LEMMA ParseInvInit ==
  Init => ParseInv
<1> SUFFICES ASSUME Init PROVE ParseInv
  OBVIOUS
<1>1. 1 .. Len(stack) = {} /\ 1 .. Len(heap) = {}
  BY EmptyIs DEF Init
<1>2. TypeInv
  <2> QED
    BY EmptyIs, NoneIs DEF Init, TypeInv, CallType
<1> QED
  BY <1>1, <1>2 DEF Init, ParseInv, StackInv, HeapInv

LEMMA ParseInvCalls ==
  ASSUME ParseInv, Calls
  PROVE  ParseInv'
<1> USE DEF ParseInv
<1>1. /\ heap' = <<>> /\ unfreed' = {} /\ fault' = FALSE /\ pc = "idle"
      /\ UNCHANGED <<rest, pending, deaf, look, stack>>
  BY DEF Calls, QueryAll, Query, TestQuery, Start, Refuse, Called, AtOnce,
     flexvars
<1>2. /\ pc' \in {"idle", "write"}
      /\ query_err' = "SUCCESS" /\ treeroot' = 0
      /\ asked' = <<>> \/ asked' = asked
  <2>1. query_err = "SUCCESS" /\ treeroot = 0
    BY <1>1 DEF TypeInv
  <2> QED
    BY <2>1
    DEF Calls, QueryAll, Query, TestQuery, Start, Refuse, AtOnce
<1>6. asked' \in Seq(Piece)
  <2>1. asked \in Seq(Piece)
    BY DEF TypeInv
  <2> QED
    BY <1>2, <2>1, EmptyIs
<1>3. call' \in CallType
  <2> DEFINE C(o, n, l, t) == [op |-> o, node |-> n, len |-> l, text |-> t]
  <2>1. Cardinality(Node) \in Nat /\ <<>> \in Seq(Piece)
    BY QueryAssumption, FS_CardinalityType
  <2>2. \A l \in Length : l \in Nat
    BY QueryAssumption
  <2>3. \A o \in {"query", "testquery"}, n \in Node \cup {""}, l \in Nat,
           t \in Seq(Piece) : C(o, n, l, t) \in CallType
    BY DEF CallType
  <2>4. \/ \E l \in Length : call' = C("query", "", l, <<>>)
        \/ \E l \in Length, t \in Text : call' = C("query", "", l, t)
        \/ \E n \in Node, t \in Text :
              call' = C("testquery", n, Cardinality(Node), t)
        \/ \E o \in {"query", "testquery"} : call' = C(o, "", 0, <<>>)
    BY DEF Calls, QueryAll, Query, TestQuery, Start, Refuse, Called
  <2> HIDE DEF C
  <2> QED
    BY <2>1, <2>2, <2>3, <2>4, TextIs
<1>4. look = None /\ stack = <<>>
  BY <1>1 DEF TypeInv
<1>5. rest \in Seq(Piece) /\ pending \in BOOLEAN /\ deaf \in BOOLEAN
  BY DEF TypeInv
<1> QED
  BY <1>1, <1>2, <1>3, <1>4, <1>5, <1>6, ParseInvAtRest

\* However a query ends.
LEMMA ParseInvCleanup ==
  ASSUME ParseInv, NEW t, Cleanup(t), fault' \in BOOLEAN
  PROVE  ParseInv'
<1>1. /\ pc' = "idle" /\ unfreed' \subseteq unfreed
      /\ treeroot' = 0 /\ query_err' = "SUCCESS"
      /\ look' = None /\ stack' = <<>> /\ heap' = heap
      /\ UNCHANGED <<rest, pending, call, asked, deaf>>
  BY DEF Cleanup, flexvars
<1>2. /\ rest \in Seq(Piece) /\ pending \in BOOLEAN
      /\ call \in CallType
      /\ asked \in Seq(Piece) /\ deaf \in BOOLEAN
  BY DEF ParseInv, TypeInv
<1> QED
  BY <1>1, <1>2, ParseInvAtRest

LEMMA ParseInvEvaluate ==
  ASSUME ParseInv, Evaluate \/ EvaluateShort \/ NoMemory
  PROVE  ParseInv'
<1>1. Cleanup(treeroot)
  BY DEF Evaluate, EvaluateShort, NoMemory, Finish
<1>2. fault' \in BOOLEAN
  BY DEF Evaluate, EvaluateShort, NoMemory, ParseInv, TypeInv
<1> QED
  BY <1>1, <1>2, ParseInvCleanup

LEMMA ParseInvWrite ==
  ASSUME ParseInv, Write
  PROVE  ParseInv'
<1> USE DEF ParseInv, Write
<1>1. rest \o call.text \in Seq(Piece)
  <2>1. rest \in Seq(Piece) /\ call.text \in Seq(Piece)
    BY DEF TypeInv, CallType
  <2> QED BY <2>1
<1>2. UNCHANGED <<look, stack, heap, unfreed, treeroot, query_err, call,
                  pending, fault>> /\ pc' = "parse" /\ pc = "write"
  BY DEF parser
<1>3. TypeInv'
  BY <1>1, <1>2 DEF TypeInv
<1>4. stack = <<>> /\ look = None
  BY <1>2 DEF TypeInv
<1>5. StackInv'
  BY <1>2, <1>4 DEF StackInv
<1>6. HeapInv'
  BY <1>2, <1>4 DEF HeapInv
<1> QED
  BY <1>3, <1>5, <1>6

\* What the scanner makes of what it has read.
LEMMA ScanIs ==
  ASSUME TypeInv, Scan
  PROVE  /\ \/ /\ pending \/ Skip = Len(rest)
               /\ look' = Token("END") /\ rest' = <<>> /\ ~ pending'
            \/ /\ ~ pending /\ Skip < Len(rest)
               /\ \E j \in Skip + 1 .. Len(rest) :
                     /\ \A i \in Skip + 1 .. j : rest[i] \in Letter
                     /\ j < Len(rest) => rest[j + 1] \notin Letter
                     /\ SubSeq(rest, Skip + 1, j) \in Seq(Letter)
                     /\ look' = Word(SubSeq(rest, Skip + 1, j))
                     /\ rest' = From(j) /\ pending' = (rest' = <<>>)
            \/ /\ ~ pending /\ Skip < Len(rest)
               /\ rest[Skip + 1] \in Op \cup {"(", ")", "~"}
               /\ look' = Token(rest[Skip + 1])
               /\ rest' = From(Skip + 1) /\ ~ pending'
         /\ look' \in Symbol /\ look'.sym \in Terminal \cup {"END"}
         /\ rest' \in Seq(Piece) /\ pending' \in BOOLEAN
<1>1. rest \in Seq(Piece) /\ Len(rest) \in Nat /\ pending \in BOOLEAN
  <2>1. rest \in Seq(Piece) /\ pending \in BOOLEAN
    BY DEF TypeInv
  <2> QED BY <2>1
<1>2. \A k \in 0 .. Len(rest) : From(k) \in Seq(Piece)
  BY <1>1 DEF From
<1>3. CASE /\ pending \/ Skip = Len(rest)
           /\ look' = Token("END")
           /\ rest' = <<>> /\ pending' = FALSE
  BY <1>3, NoneIs, EmptyIs
<1>4. CASE /\ ~ pending /\ Skip < Len(rest) /\ rest[Skip + 1] \in Letter
           /\ look' = Word(SubSeq(rest, Skip + 1, WordEnd(Skip)))
           /\ rest' = From(WordEnd(Skip)) /\ pending' = (rest' = <<>>)
  <2> DEFINE k == Skip
             j == WordEnd(k)
  <2>1. /\ k \in 0 .. Len(rest) /\ j \in k .. Len(rest)
        /\ \A i \in k + 1 .. j : rest[i] \in Letter
        /\ j < Len(rest) => rest[j + 1] \notin Letter
    BY SkipIs, WordEndIs
  <2> HIDE DEF k, j
  <2>2. j > k
    BY <2>1, <1>1, <1>4 DEF k
  <2>3. SubSeq(rest, k + 1, j) \in Seq(Letter)
    <3>1. \A i \in 1 .. j - k : rest[k + i] \in Letter
      <4> TAKE i \in 1 .. j - k
      <4>1. k + i \in k + 1 .. j
        BY <2>1, <1>1
      <4> QED BY <4>1, <2>1
    <3> DEFINE s == [i \in 1 .. j - k |-> rest[k + i]]
    <3>2. s \in Seq(Letter)
      <4>1. j - k \in Nat
        BY <2>1, <1>1
      <4>2. s \in [1 .. j - k -> Letter]
        BY <3>1
      <4> QED BY <4>1, <4>2
    <3>3. SubSeq(rest, k + 1, j) = s
      BY <2>1, <1>1
    <3> QED BY <3>2, <3>3
  <2>4. j \in 0 .. Len(rest) /\ rest' \in Seq(Piece)
    BY <2>1, <1>1, <1>2, <1>4 DEF j, k
  <2>5. /\ Word(SubSeq(rest, k + 1, j)) \in Symbol
        /\ Word(SubSeq(rest, k + 1, j)).sym \in Terminal \cup {"END"}
    BY <2>3, NoneIs DEF Terminal
  <2>6. j \in k + 1 .. Len(rest)
    BY <2>1, <2>2, <1>1
  <2> QED
    BY <1>4, <2>1, <2>3, <2>4, <2>5, <2>6 DEF j, k
<1>5. CASE /\ ~ pending /\ Skip < Len(rest) /\ rest[Skip + 1] \notin Letter
           /\ look' = Token(rest[Skip + 1])
           /\ rest' = From(Skip + 1) /\ UNCHANGED pending
  <2> DEFINE k == Skip
  <2>1. k \in 0 .. Len(rest) /\ k < Len(rest)
    BY SkipIs, <1>5
  <2> HIDE DEF k
  <2>2. k + 1 \in 0 .. Len(rest) /\ k + 1 \in 1 .. Len(rest)
    BY <2>1, <1>1
  <2>3. rest[k + 1] \in Piece /\ rest' \in Seq(Piece)
    BY <1>1, <1>2, <1>5, <2>2 DEF k
  <2>4. rest[k + 1] \in Op \cup {"(", ")", "~"}
    BY <2>1, <2>3, <1>5, SkipIs DEF k, Piece
  <2>5. /\ Token(rest[k + 1]) \in Symbol
        /\ Token(rest[k + 1]).sym \in Terminal \cup {"END"}
    BY <2>4, NoneIs DEF Terminal
  <2> QED
    BY <1>1, <1>5, <2>3, <2>4, <2>5 DEF k
<1> QED
  BY <1>3, <1>4, <1>5 DEF Scan

\* A reduction puts a symbol that may stand there on what is left.
LEMMA StackInvReduced ==
  ASSUME TypeInv, StackInv, NEW n \in 1 .. 3, n <= Len(stack),
         NEW s \in Symbol, s.sym \in {"term", "query"},
         Under(Len(stack) - n + 1) \in StandsOn(s.sym),
         stack' = Reduced(n, s), look' = look
  PROVE  /\ StackInv' /\ stack' \in Seq(Symbol)
         /\ Len(stack') = Len(stack) - n + 1
         /\ \A k \in 1 .. Len(stack) - n : stack'[k] = stack[k]
         /\ stack'[Len(stack')] = s
<1>0. Len(stack) \in Nat
  BY StackIs
<1>1. PICK m \in Nat : m = Len(stack) - n + 1 /\ m >= 1
  BY <1>0
<1>2. /\ stack' \in Seq(Symbol) /\ Len(stack') = m
      /\ \A k \in 1 .. m - 1 : stack'[k] = stack[k]
      /\ stack'[m] = s
  <2>1. /\ Reduced(n, s) \in Seq(Symbol)
        /\ Len(Reduced(n, s)) = Len(stack) - n + 1
        /\ \A k \in 1 .. Len(stack) - n : Reduced(n, s)[k] = stack[k]
        /\ Reduced(n, s)[Len(stack) - n + 1] = s
    BY ReducedIs
  <2>2. m - 1 = Len(stack) - n
    BY <1>0, <1>1
  <2> QED
    BY <2>1, <2>2, <1>1
<1>3. \A k \in 1 .. m : Under(k)' = Under(k)
  <2> TAKE k \in 1 .. m
  <2>1. k # 1 => k - 1 \in 1 .. m - 1
    BY <1>1
  <2> QED
    BY <1>2, <2>1 DEF Under
<1>4. ASSUME NEW k \in 1 .. m - 1
      PROVE  /\ stack'[k].sym \in Terminal \cup {"term", "query"}
             /\ Under(k)' \in StandsOn(stack'[k].sym)
             /\ stack'[k].sym = ")" => k > 2 /\ stack'[k - 2].sym = "("
  <2>1. k \in 1 .. Len(stack) /\ k \in 1 .. m
    BY <1>0, <1>1
  <2>2. /\ stack[k].sym \in Terminal \cup {"term", "query"}
        /\ Under(k) \in StandsOn(stack[k].sym)
        /\ stack[k].sym = ")" => k > 2 /\ stack[k - 2].sym = "("
    BY <2>1 DEF StackInv
  <2>3. k > 2 => k - 2 \in 1 .. m - 1
    BY <1>1
  <2> QED
    BY <1>2, <1>3, <2>1, <2>2, <2>3
<1>5. /\ stack'[m].sym \in Terminal \cup {"term", "query"}
      /\ Under(m)' \in StandsOn(stack'[m].sym)
      /\ stack'[m].sym # ")"
  <2>1. m \in 1 .. m
    BY <1>1
  <2>2. Under(m)' = Under(m) /\ stack'[m] = s
    BY <1>2, <1>3, <2>1
  <2>3. Under(m) \in StandsOn(s.sym)
    BY <1>1
  <2> QED
    BY <2>2, <2>3
<1>6. \A k \in 1 .. m : k \in 1 .. m - 1 \/ k = m
  BY <1>1
<1>7. look' = None \/ look'.sym \in Terminal \cup {"END"}
  BY DEF StackInv
<1>8. ASSUME NEW k \in 1 .. m
      PROVE  /\ stack'[k].sym \in Terminal \cup {"term", "query"}
             /\ Under(k)' \in StandsOn(stack'[k].sym)
             /\ stack'[k].sym = ")" => k > 2 /\ stack'[k - 2].sym = "("
  <2>1. CASE k \in 1 .. m - 1
    BY <2>1, <1>4
  <2>2. CASE k = m
    BY <2>2, <1>5
  <2> QED
    BY <2>1, <2>2, <1>6
<1>9. StackInv'
  BY <1>2, <1>7, <1>8 DEF StackInv
<1> QED
  <2>1. m - 1 = Len(stack) - n
    BY <1>0, <1>1
  <2> QED
    BY <1>1, <1>2, <1>9, <2>1

\* The symbols a reduction takes are there, and its result may stand where
\* they stood.
LEMMA ReducesAttr ==
  ASSUME ParseInv, ReduceAttr
  PROVE  /\ 1 <= Len(stack) /\ Under(Len(stack)) \in StandsOn("term")
         /\ Top = stack[Len(stack)] /\ Top.str \in Seq(Letter)
         /\ Under(Len(stack) - 1 + 1) \in StandsOn("term")
<1>1. Top.sym = "ATTR" /\ TypeInv /\ StackInv
  BY DEF ReduceAttr, ParseInv
<1>2. Top \in Symbol /\ Under(Len(stack)) \in StandsOn("ATTR")
  BY <1>1, TopIs
<1>3. StandsOn("ATTR") = StandsOn("term")
  BY DEF StandsOn, Op
<1>4. Len(stack) - 1 + 1 = Len(stack) /\ 1 <= Len(stack)
  BY <1>1, TopIs, StackIs
<1> QED
  BY <1>1, <1>2, <1>3, <1>4, TopIs DEF Symbol

LEMMA ReducesBinary ==
  ASSUME ParseInv, ReduceBinary
  PROVE  /\ 3 <= Len(stack) /\ Len(stack) - 2 \in 1 .. Len(stack)
         /\ Top = stack[Len(stack)] /\ Top.sym = "term"
         /\ Below = stack[Len(stack) - 1] /\ Below.sym \in Op
         /\ stack[Len(stack) - 2].sym = "query"
         /\ Under(Len(stack) - 3 + 1) \in StandsOn("query")
         /\ Len(stack) \in 1 .. Len(stack)
         /\ Len(stack) - 1 \in 1 .. Len(stack)
<1>1. Top.sym = "term" /\ Below.sym \in Op /\ TypeInv /\ StackInv
  BY DEF ReduceBinary, ParseInv
<1>2. Below.sym # "none"
  BY <1>1 DEF Op
<1>3. /\ Len(stack) > 1 /\ Len(stack) - 1 \in 1 .. Len(stack)
      /\ Len(stack) \in 1 .. Len(stack)
      /\ Below = stack[Len(stack) - 1] /\ Top = stack[Len(stack)]
      /\ Under(Len(stack) - 1) = "query"
  BY <1>1, <1>2, BelowIs, TopIs DEF StandsOn, Op
<1>4. Len(stack) - 1 # 1 /\ stack[Len(stack) - 1 - 1].sym = "query"
  BY <1>3 DEF Under
<1>5. /\ 3 <= Len(stack) /\ Len(stack) - 2 \in 1 .. Len(stack)
      /\ Len(stack) - 1 - 1 = Len(stack) - 2
      /\ Len(stack) - 3 + 1 = Len(stack) - 2
  BY <1>1, <1>3, <1>4, StackIs
<1> QED
  BY <1>1, <1>3, <1>4, <1>5, StackIs

LEMMA ReducesTerm ==
  ASSUME ParseInv, ReduceTerm
  PROVE  /\ 1 <= Len(stack) /\ Len(stack) \in 1 .. Len(stack)
         /\ Top = stack[Len(stack)] /\ Top.sym = "term"
         /\ Under(Len(stack) - 1 + 1) \in StandsOn("query")
<1>1. Top.sym = "term" /\ Below.sym \in {"none", "("} /\ TypeInv /\ StackInv
  BY DEF ReduceTerm, ParseInv
<1>2. /\ Len(stack) > 0 /\ Len(stack) \in 1 .. Len(stack)
      /\ Top = stack[Len(stack)] /\ Under(Len(stack)) \in {"none", "("}
  BY <1>1, TopIs
<1>3. Len(stack) - 1 + 1 = Len(stack) /\ 1 <= Len(stack)
  BY <1>1, <1>2, StackIs
<1> QED
  BY <1>1, <1>2, <1>3 DEF StandsOn

LEMMA ReducesParens ==
  ASSUME ParseInv, ReduceParens
  PROVE  /\ 3 <= Len(stack) /\ Len(stack) - 2 \in 1 .. Len(stack)
         /\ Top = stack[Len(stack)] /\ Top.sym = ")"
         /\ Below = stack[Len(stack) - 1] /\ Below.sym = "query"
         /\ stack[Len(stack) - 2].sym = "("
         /\ Under(Len(stack) - 3 + 1) \in StandsOn("term")
         /\ Len(stack) \in 1 .. Len(stack)
         /\ Len(stack) - 1 \in 1 .. Len(stack)
<1>1. Top.sym = ")" /\ TypeInv /\ StackInv
  BY DEF ReduceParens, ParseInv
<1>2. /\ Len(stack) \in 1 .. Len(stack)
      /\ Top = stack[Len(stack)] /\ Below.sym = "query"
  BY <1>1, TopIs DEF StandsOn, Op
<1>3. Len(stack) - 1 \in 1 .. Len(stack) /\ Below = stack[Len(stack) - 1]
  BY <1>1, <1>2, BelowIs
<1>4. Len(stack) > 2 /\ stack[Len(stack) - 2].sym = "("
  BY <1>1, <1>2 DEF StackInv
<1>5. /\ 3 <= Len(stack) /\ Len(stack) - 2 \in 1 .. Len(stack)
      /\ Len(stack) - 3 + 1 = Len(stack) - 2
  BY <1>1, <1>4, StackIs
<1>6. StandsOn("(") = StandsOn("term")
  BY DEF StandsOn, Op
<1>7. Under(Len(stack) - 2) \in StandsOn("(")
  BY <1>1, <1>4, <1>5, StackIs
<1> QED
  BY <1>1, <1>2, <1>3, <1>4, <1>5, <1>6, <1>7

LEMMA ReducesComplement ==
  ASSUME ParseInv, ReduceComplement
  PROVE  /\ 2 <= Len(stack) /\ Len(stack) \in 1 .. Len(stack)
         /\ Len(stack) - 1 \in 1 .. Len(stack)
         /\ Top = stack[Len(stack)] /\ Top.sym = "term" /\ Top \in Symbol
         /\ Below = stack[Len(stack) - 1] /\ Below.sym = "~"
         /\ Under(Len(stack) - 2 + 1) \in StandsOn("term")
<1>1. Top.sym = "term" /\ Below.sym = "~" /\ TypeInv /\ StackInv
  BY DEF ReduceComplement, ParseInv
<1>2. /\ Len(stack) > 1 /\ Len(stack) \in 1 .. Len(stack)
      /\ Len(stack) - 1 \in 1 .. Len(stack)
      /\ Top = stack[Len(stack)] /\ Top \in Symbol
      /\ Below = stack[Len(stack) - 1]
      /\ Under(Len(stack) - 1) \in StandsOn("~")
  BY <1>1, TopIs, BelowIs
<1>3. Len(stack) - 2 + 1 = Len(stack) - 1 /\ 2 <= Len(stack)
  BY <1>1, <1>2, StackIs
<1>4. StandsOn("~") = StandsOn("term")
  BY DEF StandsOn, Op
<1> QED
  BY <1>1, <1>2, <1>3, <1>4

LEMMA ParseInvReduced ==
  ASSUME ParseInv, Reduction, NEW n \in 1 .. 3, n <= Len(stack),
         NEW s \in Symbol, s.sym \in {"term", "query"},
         Under(Len(stack) - n + 1) \in StandsOn(s.sym),
         stack' = Reduced(n, s),
         heap' \in Seq(TreeNode), unfreed' \subseteq 1 .. Len(heap'),
         Len(heap) <= Len(heap'),
         \A i \in 1 .. Len(heap') : IsNode(heap'[i], i),
         query_err' \in {"SUCCESS", "OUTMEM"}, fault' \in BOOLEAN,
         query_err' # "SUCCESS" => fault',
         query_err' = "SUCCESS" =>
           query_err = "SUCCESS" /\ s.node \in 1 .. Len(heap')
  PROVE  ParseInv'
<1>1. /\ pc = "parse" /\ pc' = "parse"
      /\ UNCHANGED <<rest, pending, call, asked, deaf, look, treeroot>>
  BY DEF Reduction, flexvars
<1>2. TypeInv /\ StackInv /\ HeapInv
  BY DEF ParseInv
<1>3. /\ StackInv' /\ stack' \in Seq(Symbol)
      /\ Len(stack') = Len(stack) - n + 1
      /\ \A k \in 1 .. Len(stack) - n : stack'[k] = stack[k]
      /\ stack'[Len(stack')] = s
  BY <1>1, <1>2, StackInvReduced
<1>4. TypeInv'
  <2>1. /\ rest \in Seq(Piece) /\ pending \in BOOLEAN /\ call \in CallType
        /\ asked \in Seq(Piece) /\ deaf \in BOOLEAN
        /\ look \in Symbol /\ treeroot \in Nat
    BY <1>2 DEF TypeInv
  <2> QED
    BY <1>1, <1>3, <2>1 DEF TypeInv
<1>5. ASSUME query_err' = "SUCCESS", NEW k \in 1 .. Len(stack'),
             stack'[k].sym \in {"term", "query"}
      PROVE  stack'[k].node \in 1 .. Len(heap')
  <2>1. CASE k = Len(stack')
    BY <2>1, <1>3, <1>5
  <2>2. CASE k # Len(stack')
    <3>1. Len(stack) \in Nat /\ Len(heap) \in Nat /\ Len(heap') \in Nat
      BY <1>2, StackIs DEF TypeInv
    <3>2. k \in 1 .. Len(stack) - n /\ k \in 1 .. Len(stack)
      BY <3>1, <1>3, <2>2
    <3>3. stack[k].node \in 1 .. Len(heap)
      BY <1>2, <1>3, <1>5, <3>2 DEF HeapInv
    <3> QED
      BY <1>3, <3>1, <3>2, <3>3, SMTT(30)
  <2> QED
    BY <2>1, <2>2
<1>6. HeapInv'
  BY <1>1, <1>5 DEF HeapInv
<1> QED
  BY <1>3, <1>4, <1>6 DEF ParseInv

\* A treenode is made, or memory runs out, or had run out before.
LEMMA MakeIs ==
  ASSUME ParseInv, NEW n, NEW sym, NEW str \in Seq(Letter \cup Op),
         NEW left \in Nat, NEW right \in Nat, Make(n, sym, str, left, right)
  PROVE  \/ /\ query_err = "SUCCESS" /\ query_err' = "SUCCESS"
            /\ heap' \in Seq(TreeNode) /\ Len(heap') = Len(heap) + 1
            /\ \A i \in 1 .. Len(heap) : heap'[i] = heap[i]
            /\ heap'[Len(heap) + 1] =
                 [str |-> str, left |-> left, right |-> right,
                  complement |-> FALSE]
            /\ unfreed' = unfreed \cup {Len(heap) + 1}
            /\ stack' = Reduced(n, Tree(sym, Len(heap) + 1))
            /\ UNCHANGED fault
         \/ /\ query_err' = "OUTMEM" /\ fault'
            /\ stack' = Reduced(n, Tree(sym, 0))
            /\ UNCHANGED <<heap, unfreed>>
<1>1. heap \in Seq(TreeNode)
  BY DEF ParseInv, TypeInv
<1>2. CASE /\ query_err = "SUCCESS"
           /\ heap' = Append(heap, [str |-> str, left |-> left,
                                    right |-> right, complement |-> FALSE])
           /\ unfreed' = unfreed \cup {Len(heap')}
           /\ stack' = Reduced(n, Tree(sym, Len(heap')))
           /\ UNCHANGED <<query_err, fault>>
  <2> DEFINE tn == [str |-> str, left |-> left, right |-> right,
                    complement |-> FALSE]
  <2>1. tn \in TreeNode
    BY DEF TreeNode
  <2> HIDE DEF tn
  <2>2. heap' = Append(heap, tn)
    BY <1>2 DEF tn
  <2>3. /\ heap' \in Seq(TreeNode) /\ Len(heap') = Len(heap) + 1
        /\ \A i \in 1 .. Len(heap) : heap'[i] = heap[i]
        /\ heap'[Len(heap) + 1] = tn
    BY ONLY <1>1, <2>1, <2>2
  <2> QED
    BY <1>2, <2>3 DEF tn
<1>3. CASE /\ query_err = "SUCCESS"
           /\ query_err' = "OUTMEM" /\ fault' = TRUE
           /\ stack' = Reduced(n, Tree(sym, 0))
           /\ UNCHANGED <<heap, unfreed>>
  BY <1>3
<1>4. CASE /\ query_err # "SUCCESS"
           /\ stack' = Reduced(n, Tree(sym, 0))
           /\ UNCHANGED <<heap, unfreed, query_err, fault>>
  <2>1. query_err = "OUTMEM" /\ fault
    BY <1>4 DEF ParseInv, TypeInv, HeapInv
  <2> QED
    BY <1>4, <2>1
<1> QED
  BY <1>2, <1>3, <1>4 DEF Make

LEMMA ParseInvMake ==
  ASSUME ParseInv, Reduction, NEW n \in 1 .. 3, n <= Len(stack),
         NEW sym \in {"term", "query"}, NEW str \in Seq(Letter \cup Op),
         NEW left \in Nat, NEW right \in Nat, Make(n, sym, str, left, right),
         Under(Len(stack) - n + 1) \in StandsOn(sym),
         query_err = "SUCCESS" =>
           /\ left <= Len(heap) /\ right <= Len(heap)
           /\ left = 0 => str \in Seq(Letter)
           /\ left # 0 => right # 0 /\ \E o \in Op : str = <<o>>
  PROVE  ParseInv'
<1>1. /\ heap \in Seq(TreeNode) /\ unfreed \subseteq 1 .. Len(heap)
      /\ query_err \in {"SUCCESS", "OUTMEM"} /\ fault \in BOOLEAN
  BY DEF ParseInv, TypeInv
<1>2. Len(heap) \in Nat
  BY <1>1
<1>3. \A i \in 1 .. Len(heap) : IsNode(heap[i], i)
  BY DEF ParseInv, HeapInv
<1>4. \A k \in Nat : /\ Tree(sym, k) \in Symbol /\ Tree(sym, k).sym = sym
                     /\ Tree(sym, k).node = k
  BY NoneIs
<1>5. CASE /\ query_err = "SUCCESS" /\ query_err' = "SUCCESS"
           /\ heap' \in Seq(TreeNode) /\ Len(heap') = Len(heap) + 1
           /\ \A i \in 1 .. Len(heap) : heap'[i] = heap[i]
           /\ heap'[Len(heap) + 1] =
                [str |-> str, left |-> left, right |-> right,
                 complement |-> FALSE]
           /\ unfreed' = unfreed \cup {Len(heap) + 1}
           /\ stack' = Reduced(n, Tree(sym, Len(heap) + 1))
           /\ UNCHANGED fault
  <2>1. IsNode(heap'[Len(heap) + 1], Len(heap) + 1)
    BY <1>2, <1>5 DEF IsNode
  <2>2. \A i \in 1 .. Len(heap') : i \in 1 .. Len(heap) \/ i = Len(heap) + 1
    BY <1>2, <1>5
  <2>3. \A i \in 1 .. Len(heap') : IsNode(heap'[i], i)
    BY <1>3, <1>5, <2>1, <2>2
  <2>4. unfreed' \subseteq 1 .. Len(heap') /\ Len(heap) + 1 \in 1 .. Len(heap')
    <3>1. \A i \in 1 .. Len(heap) : i \in 1 .. Len(heap')
      BY <1>2, <1>5
    <3>2. Len(heap) + 1 \in 1 .. Len(heap')
      BY <1>2, <1>5
    <3> QED
      BY <1>1, <1>5, <3>1, <3>2
  <2>5. Len(heap) <= Len(heap') /\ Len(heap) + 1 \in Nat
    BY <1>2, <1>5
  <2> QED
    BY <1>1, <1>4, <1>5, <2>3, <2>4, <2>5, ParseInvReduced
<1>6. CASE /\ query_err' = "OUTMEM" /\ fault'
           /\ stack' = Reduced(n, Tree(sym, 0))
           /\ UNCHANGED <<heap, unfreed>>
  <2>1. fault' \in BOOLEAN
    BY <1>1 DEF Make
  <2>2. Len(heap) <= Len(heap')
    BY <1>2, <1>6
  <2> QED
    BY <1>1, <1>3, <1>4, <1>6, <2>1, <2>2, ParseInvReduced
<1> QED
  BY <1>5, <1>6, MakeIs

LEMMA OpStr ==
  /\ \A w \in Seq(Letter) : w \in Seq(Letter \cup Op)
  /\ \A o \in Op : <<o>> \in Seq(Letter \cup Op)
<1>1. ASSUME NEW w \in Seq(Letter) PROVE w \in Seq(Letter \cup Op)
  <2>1. w \in [1 .. Len(w) -> Letter] /\ Len(w) \in Nat
    OBVIOUS
  <2>2. w \in [1 .. Len(w) -> Letter \cup Op]
    BY <2>1
  <2> QED
    BY <2>1, <2>2
<1> QED
  BY <1>1

\* Only the root of the tree on top of the stack is complemented.
LEMMA ComplementIs ==
  ASSUME ParseInv, ReduceComplement
  PROVE  /\ heap' \in Seq(TreeNode) /\ Len(heap') = Len(heap)
         /\ query_err # "SUCCESS" => heap' = heap
         /\ query_err = "SUCCESS" => Top.node \in 1 .. Len(heap)
         /\ \A i \in 1 .. Len(heap) :
               /\ heap'[i].left = heap[i].left
               /\ heap'[i].right = heap[i].right
               /\ heap'[i].str = heap[i].str
               /\ query_err = "SUCCESS" =>
                    (i # Top.node => heap'[i] = heap[i])
                    /\ (i = Top.node =>
                          heap'[i].complement = (~ heap[i].complement))
<1>1. heap \in Seq(TreeNode)
  BY DEF ParseInv, TypeInv
<1>2. CASE query_err # "SUCCESS"
  BY <1>1, <1>2 DEF ReduceComplement
<1>3. CASE query_err = "SUCCESS"
  <2>1. heap' = [heap EXCEPT ![Top.node].complement = ~ @]
    BY <1>3 DEF ReduceComplement, Complement
  <2>2. Top.node \in 1 .. Len(heap)
    <3>1. Len(stack) \in 1 .. Len(stack) /\ Top = stack[Len(stack)]
      BY ReducesComplement
    <3> QED
      BY <1>3, <3>1, ReducesComplement DEF ParseInv, HeapInv
  <2>3. PICK n \in 1 .. Len(heap) : n = Top.node
    BY <2>2
  <2>4. PICK new : new = [heap[n] EXCEPT !.complement = ~ @]
    OBVIOUS
  <2>5. /\ new \in TreeNode
        /\ new.left = heap[n].left /\ new.right = heap[n].right
        /\ new.str = heap[n].str
        /\ new.complement = (~ heap[n].complement)
    <3>1. heap[n] \in TreeNode
      BY <1>1
    <3>2. (~ heap[n].complement) \in BOOLEAN
      BY <3>1 DEF TreeNode
    <3> QED
      BY <2>4, <3>1, <3>2 DEF TreeNode
  <2>6. heap' = [heap EXCEPT ![n] = new]
    BY <2>1, <2>3, <2>4
  <2>7. /\ heap' \in Seq(TreeNode) /\ Len(heap') = Len(heap)
        /\ \A i \in 1 .. Len(heap) :
             heap'[i] = IF i = n THEN new ELSE heap[i]
    BY <1>1, <2>5, <2>6
  <2> QED
    BY <1>3, <2>3, <2>5, <2>7
<1> QED
  BY <1>2, <1>3

LEMMA ParseInvParser ==
  ASSUME ParseInv,
         \/ ReduceAttr \/ ReduceBinary \/ ReduceTerm \/ ReduceParens
         \/ ReduceComplement
  PROVE  ParseInv'
<1>1. /\ TypeInv /\ StackInv /\ HeapInv
      /\ heap \in Seq(TreeNode) /\ unfreed \subseteq 1 .. Len(heap)
      /\ query_err \in {"SUCCESS", "OUTMEM"} /\ fault \in BOOLEAN
  BY DEF ParseInv, TypeInv
<1>2. Len(heap) \in Nat /\ Len(stack) \in Nat
  BY <1>1, StackIs
<1>3. \A k \in 1 .. Len(stack) : stack[k] \in Symbol /\ stack[k].node \in Nat
  BY <1>1, StackIs DEF Symbol
<1>4. /\ \A i \in 1 .. Len(heap) : IsNode(heap[i], i)
      /\ query_err # "SUCCESS" => fault
      /\ query_err = "SUCCESS" =>
           \A k \in 1 .. Len(stack) : stack[k].sym \in {"term", "query"} =>
              stack[k].node \in 1 .. Len(heap)
  BY <1>1 DEF HeapInv
<1>5. CASE ReduceAttr
  <2>1. /\ 1 <= Len(stack) /\ Top.str \in Seq(Letter)
        /\ Under(Len(stack) - 1 + 1) \in StandsOn("term")
    BY <1>5, ReducesAttr
  <2>2. Make(1, "term", Top.str, 0, 0) /\ Reduction
    BY <1>5 DEF ReduceAttr
  <2>3. Top.str \in Seq(Letter \cup Op) /\ 0 \in Nat /\ 0 <= Len(heap)
    BY <2>1, <1>2, OpStr
  <2> QED
    BY <2>1, <2>2, <2>3, ParseInvMake
<1>6. CASE ReduceBinary
  <2>1. /\ 3 <= Len(stack) /\ Len(stack) - 2 \in 1 .. Len(stack)
        /\ Top = stack[Len(stack)] /\ Top.sym = "term"
        /\ Below.sym \in Op /\ stack[Len(stack) - 2].sym = "query"
        /\ Under(Len(stack) - 3 + 1) \in StandsOn("query")
        /\ Len(stack) \in 1 .. Len(stack)
    BY <1>6, ReducesBinary
  <2>2. /\ Make(3, "query", <<Below.sym>>, stack[Len(stack) - 2].node,
                Top.node)
        /\ Reduction
    BY <1>6 DEF ReduceBinary, Size
  <2>3. /\ <<Below.sym>> \in Seq(Letter \cup Op)
        /\ \E o \in Op : <<Below.sym>> = <<o>>
        /\ stack[Len(stack) - 2].node \in Nat /\ Top.node \in Nat
    BY <2>1, <1>3, OpStr
  <2>4. query_err = "SUCCESS" =>
          /\ stack[Len(stack) - 2].node \in 1 .. Len(heap)
          /\ Top.node \in 1 .. Len(heap)
    BY <2>1, <1>4
  <2>5. query_err = "SUCCESS" =>
          /\ stack[Len(stack) - 2].node <= Len(heap)
          /\ Top.node <= Len(heap)
          /\ stack[Len(stack) - 2].node # 0 /\ Top.node # 0
    BY <2>4, <1>2
  <2>6. 3 \in 1 .. 3 /\ "query" \in {"term", "query"}
    OBVIOUS
  <2> HIDE DEF Top, Below
  <2> QED
    BY <2>1, <2>2, <2>3, <2>5, <2>6, ParseInvMake
<1>7. CASE ReduceTerm
  <2>1. /\ 1 <= Len(stack) /\ Len(stack) \in 1 .. Len(stack)
        /\ Top = stack[Len(stack)] /\ Top.sym = "term"
        /\ Under(Len(stack) - 1 + 1) \in StandsOn("query")
    BY <1>7, ReducesTerm
  <2>2. /\ stack' = Reduced(1, Tree("query", Top.node)) /\ Reduction
        /\ UNCHANGED <<heap, unfreed, query_err, fault>>
    BY <1>7 DEF ReduceTerm
  <2>3. /\ Tree("query", Top.node) \in Symbol
        /\ Tree("query", Top.node).sym = "query"
        /\ Tree("query", Top.node).node = Top.node
    BY <2>1, <1>3, NoneIs, ZenonT(60)
  <2>4. query_err = "SUCCESS" => Top.node \in 1 .. Len(heap)
    BY <2>1, <1>4
  <2>5. Len(heap) <= Len(heap') /\ 1 \in 1 .. 3
    BY <2>2, <1>2
  <2> QED
    BY <1>1, <1>4, <2>1, <2>2, <2>3, <2>4, <2>5, ParseInvReduced
<1>8. CASE ReduceParens
  <2>1. /\ 3 <= Len(stack) /\ Len(stack) - 1 \in 1 .. Len(stack)
        /\ Below = stack[Len(stack) - 1] /\ Below.sym = "query"
        /\ Under(Len(stack) - 3 + 1) \in StandsOn("term")
    BY <1>8, ReducesParens
  <2>2. /\ stack' = Reduced(3, Tree("term", Below.node)) /\ Reduction
        /\ UNCHANGED <<heap, unfreed, query_err, fault>>
    BY <1>8 DEF ReduceParens
  <2>3. /\ Tree("term", Below.node) \in Symbol
        /\ Tree("term", Below.node).sym = "term"
        /\ Tree("term", Below.node).node = Below.node
    BY <2>1, <1>3, NoneIs, ZenonT(60)
  <2>4. query_err = "SUCCESS" => Below.node \in 1 .. Len(heap)
    BY <2>1, <1>4
  <2>5. Len(heap) <= Len(heap') /\ 3 \in 1 .. 3
    BY <2>2, <1>2
  <2> QED
    BY <1>1, <1>4, <2>1, <2>2, <2>3, <2>4, <2>5, ParseInvReduced
<1>9. CASE ReduceComplement
  <2>1. /\ 2 <= Len(stack) /\ Len(stack) \in 1 .. Len(stack)
        /\ Top = stack[Len(stack)] /\ Top.sym = "term" /\ Top \in Symbol
        /\ Under(Len(stack) - 2 + 1) \in StandsOn("term")
    BY <1>9, ReducesComplement
  <2>2. /\ stack' = Reduced(2, Top) /\ Reduction
        /\ UNCHANGED <<unfreed, query_err, fault>>
    BY <1>9 DEF ReduceComplement
  <2>3. query_err = "SUCCESS" => Top.node \in 1 .. Len(heap)
    BY <2>1, <1>4
  <2>4. /\ heap' \in Seq(TreeNode) /\ Len(heap') = Len(heap)
        /\ \A i \in 1 .. Len(heap) : IsNode(heap'[i], i)
    BY <1>4, <1>9, ComplementIs DEF IsNode
  <2>5. Len(heap) <= Len(heap') /\ 2 \in 1 .. 3
    BY <2>4, <1>2
  <2> QED
    BY <1>1, <1>4, <2>1, <2>2, <2>3, <2>4, <2>5, ParseInvReduced
<1> QED
  BY <1>5, <1>6, <1>7, <1>8, <1>9

LEMMA ParseInvScan ==
  ASSUME ParseInv, Scan
  PROVE  ParseInv'
<1>1. TypeInv /\ StackInv /\ HeapInv
  BY DEF ParseInv
<1>2. /\ look' \in Symbol /\ look'.sym \in Terminal \cup {"END"}
      /\ rest' \in Seq(Piece) /\ pending' \in BOOLEAN
  BY <1>1, ScanIs
<1>3. /\ pc = "parse"
      /\ UNCHANGED <<pc, call, asked, deaf, stack, heap, unfreed, treeroot,
                     query_err, fault>>
  BY DEF Scan
<1>4. TypeInv'
  BY <1>1, <1>2, <1>3 DEF TypeInv
<1>5. StackInv'
  BY <1>1, <1>2, <1>3 DEF StackInv, Under
<1>6. HeapInv'
  BY <1>1, <1>3 DEF HeapInv
<1> QED
  BY <1>4, <1>5, <1>6 DEF ParseInv

\* A token is put on the stack where the grammar allows it.
LEMMA ShiftIs ==
  ASSUME ParseInv, Shift
  PROVE  /\ look.sym \in Terminal /\ look \in Symbol
         /\ stack' = Append(stack, look) /\ stack' \in Seq(Symbol)
         /\ Len(stack') = Len(stack) + 1
         /\ \A k \in 1 .. Len(stack) : stack'[k] = stack[k]
         /\ stack'[Len(stack) + 1] = look
         /\ Top.sym \in StandsOn(look.sym)
         /\ look.sym = ")" =>
              /\ Top.sym = "query" /\ Len(stack) > 1
              /\ stack[Len(stack) - 1].sym = "("
<1>1. TypeInv /\ StackInv
  BY DEF ParseInv
<1>2. look \in Symbol /\ stack \in Seq(Symbol) /\ stack' = Append(stack, look)
  BY <1>1 DEF TypeInv, Shift
<1>3. /\ stack' \in Seq(Symbol) /\ Len(stack') = Len(stack) + 1
      /\ \A k \in 1 .. Len(stack) : stack'[k] = stack[k]
      /\ stack'[Len(stack) + 1] = look
  BY ONLY <1>2
<1>4. Top.sym \notin {"ATTR", "term", ")"} /\ look.sym \in Expected
  BY DEF Shift, Reducing
<1>5. Top.sym = "query" => Below.sym \in {"none", "("}
  BY <1>1, TopIs DEF StandsOn
<1>6. CASE Top.sym # "query"
  <2>1. look.sym \in {"ATTR", "(", "~"}
    BY <1>4, <1>6 DEF Expected
  <2>2. Top.sym \in Op \cup {"none", "(", "~"}
    BY <1>1, <1>4, <1>6, TopIs DEF Terminal
  <2> QED
    BY <1>2, <1>3, <2>1, <2>2 DEF StandsOn, Op, Terminal
<1>7. CASE Top.sym = "query"
  <2>1. look.sym \in Op \cup {")"} /\ (look.sym = ")" => ~ Complete)
    BY <1>4, <1>7 DEF Expected, Op
  <2>2. look.sym = ")" => Len(stack) > 1 /\ stack[Len(stack) - 1].sym = "("
    <3> HAVE look.sym = ")"
    <3>1. Len(stack) # 1
      BY <1>7, <2>1 DEF Complete, Size
    <3>2. Len(stack) > 1 /\ Len(stack) \in 1 .. Len(stack)
      BY <1>1, <1>7, <3>1, TopIs, StackIs
    <3>3. Below.sym = stack[Len(stack) - 1].sym
      BY <1>1, <1>7, <3>1, <3>2, TopIs DEF Under
    <3>4. Len(stack) - 1 \in 1 .. Len(stack)
      BY <1>1, <3>2, StackIs
    <3> QED
      BY <1>1, <1>5, <1>7, <3>2, <3>3, <3>4, StackIs
  <2> QED
    BY <1>2, <1>3, <1>7, <2>1, <2>2 DEF StandsOn, Op, Terminal
<1> QED
  BY <1>6, <1>7

LEMMA ParseInvShift ==
  ASSUME ParseInv, Shift
  PROVE  ParseInv'
<1>1. /\ pc = "parse" /\ look' = None
      /\ UNCHANGED <<rest, pending, pc, call, asked, deaf, heap, unfreed,
                     treeroot, query_err, fault>>
  BY DEF Shift, flexvars
<1>2. TypeInv /\ StackInv /\ HeapInv
  BY DEF ParseInv
<1>3. PICK m \in Nat : m = Len(stack)
  BY <1>2, StackIs
<1>4. /\ look.sym \in Terminal /\ look \in Symbol
      /\ stack' \in Seq(Symbol) /\ Len(stack') = m + 1
      /\ \A k \in 1 .. m : stack'[k] = stack[k]
      /\ stack'[m + 1] = look
      /\ Top.sym \in StandsOn(look.sym)
      /\ look.sym = ")" => m > 1 /\ stack[m - 1].sym = "("
  BY <1>3, ShiftIs
<1>5. TypeInv'
  BY <1>1, <1>2, <1>4, NoneIs DEF TypeInv
<1>6. \A k \in 1 .. m : Under(k)' = Under(k)
  BY <1>4 DEF Under
<1>7. Under(m + 1)' = Top.sym
  BY <1>2, <1>3, <1>4, StackIs, NoneIs DEF Under, Top, Size
<1>8. ASSUME NEW k \in 1 .. Len(stack')
      PROVE  /\ stack'[k].sym \in Terminal \cup {"term", "query"}
             /\ Under(k)' \in StandsOn(stack'[k].sym)
             /\ stack'[k].sym = ")" => k > 2 /\ stack'[k - 2].sym = "("
  <2>1. CASE k = m + 1
    <3>1. stack'[k].sym = ")" => k > 2 /\ stack'[k - 2].sym = "("
      <4> HAVE stack'[k].sym = ")"
      <4>1. m > 1 /\ stack[m - 1].sym = "("
        BY <1>4, <2>1
      <4>2. k > 2 /\ k - 2 = m - 1 /\ m - 1 \in 1 .. m
        BY <4>1, <2>1
      <4> QED BY <1>4, <4>1, <4>2
    <3> QED
      BY <1>4, <1>7, <2>1, <3>1
  <2>2. CASE k \in 1 .. m
    <3>1. /\ stack[k].sym \in Terminal \cup {"term", "query"}
          /\ Under(k) \in StandsOn(stack[k].sym)
          /\ stack[k].sym = ")" => k > 2 /\ stack[k - 2].sym = "("
      BY <1>2, <1>3, <2>2 DEF StackInv
    <3>2. k > 2 => k - 2 \in 1 .. m
      BY <2>2
    <3> QED
      BY <1>4, <1>6, <2>2, <3>1, <3>2
  <2> QED
    BY <1>4, <2>1, <2>2
<1>9. StackInv'
  BY <1>1, <1>8 DEF StackInv
<1>10. ASSUME query_err = "SUCCESS", NEW k \in 1 .. Len(stack'),
              stack'[k].sym \in {"term", "query"}
       PROVE  stack'[k].node \in 1 .. Len(heap)
  <2>1. look.sym \notin {"term", "query"}
    BY <1>4 DEF Terminal, Op
  <2>2. k \in 1 .. m
    BY <1>4, <1>10, <2>1
  <2> QED
    BY <1>2, <1>3, <1>4, <1>10, <2>2 DEF HeapInv
<1>11. HeapInv'
  BY <1>1, <1>2, <1>10 DEF HeapInv
<1> QED
  BY <1>5, <1>9, <1>11 DEF ParseInv

\* A complete query is the one symbol on the stack.
LEMMA CompleteIs ==
  ASSUME ParseInv, Complete
  PROVE  /\ Len(stack) = 1 /\ stack[1] = Top /\ Top.sym = "query"
         /\ Top \in Symbol /\ Top.node \in Nat
         /\ query_err = "SUCCESS" => Top.node \in 1 .. Len(heap)
<1>1. TypeInv /\ StackInv /\ Top.sym = "query" /\ Len(stack) = 1
  BY DEF ParseInv, Complete, Size
<1>2. Top = stack[1] /\ 1 \in 1 .. Len(stack) /\ Top \in Symbol
  BY <1>1, TopIs
<1> QED
  BY <1>1, <1>2 DEF ParseInv, HeapInv, Symbol

LEMMA ParseInvAccept ==
  ASSUME ParseInv, Accept
  PROVE  ParseInv'
<1>1. CASE query_err # "SUCCESS"
  <2>1. Cleanup(Top.node) /\ UNCHANGED fault
    BY <1>1 DEF Accept
  <2>2. fault' \in BOOLEAN
    BY <2>1 DEF ParseInv, TypeInv
  <2> QED
    BY <2>1, <2>2, ParseInvCleanup
<1>2. CASE query_err = "SUCCESS"
  <2>1. /\ pc' = "calc" /\ treeroot' = Top.node
        /\ look' = None /\ stack' = <<>>
        /\ UNCHANGED <<rest, pending, call, asked, deaf, heap, unfreed,
                       query_err, fault>>
    BY <1>2 DEF Accept, flexvars
  <2>2. Top.node \in Nat /\ Top.node \in 1 .. Len(heap)
    BY <1>2, CompleteIs DEF Accept
  <2>3. TypeInv'
    BY <2>1, <2>2, EmptyIs, NoneIs DEF TypeInv, ParseInv
  <2>4. StackInv'
    BY <2>1, EmptyIs DEF StackInv
  <2>5. HeapInv'
    BY <2>1, <2>2, EmptyIs DEF HeapInv, ParseInv
  <2> QED
    BY <2>3, <2>4, <2>5 DEF ParseInv
<1> QED
  BY <1>1, <1>2

LEMMA ParseInvSyntaxError ==
  ASSUME ParseInv, SyntaxError
  PROVE  ParseInv'
<1>1. Cleanup(IF Complete THEN Top.node ELSE 0) /\ UNCHANGED fault
  BY DEF SyntaxError
<1>2. fault' \in BOOLEAN
  BY <1>1 DEF ParseInv, TypeInv
<1> QED
  BY <1>1, <1>2, ParseInvCleanup

LEMMA ParseInvNext ==
  ASSUME ParseInv, [Next]_vars
  PROVE  ParseInv'
<1>1. CASE UNCHANGED vars
  BY <1>1 DEF vars, flexvars, parser, ParseInv, TypeInv, StackInv, HeapInv,
     Under
<1>2. CASE Next
  BY <1>2, ParseInvCalls, ParseInvWrite, ParseInvScan, ParseInvShift,
     ParseInvAccept, ParseInvSyntaxError, ParseInvParser, ParseInvEvaluate
  DEF Next, Run, Parse
<1> QED
  BY <1>1, <1>2

\* The scanner, the parser's stack and the treenodes are always as the
\* grammar of genders_query.y has it.
THEOREM ParserIsSound ==
  Spec => []ParseInv
BY ParseInvInit, ParseInvNext, PTL DEF Spec

-----------------------------------------------------------------------------
(* What is left in the scanner, and what is left of the trees.             *)

\* The end of a query is seen when all is read.
EndInv ==
  /\ look.sym = "END" \/ pc = "calc" => rest = <<>> /\ ~ pending
  /\ AnswersReadAll

LEMMA EndInvInit ==
  Init => EndInv
BY NoneIs DEF Init, EndInv, AnswersReadAll, Answered

LEMMA EndInvNext ==
  ASSUME ParseInv, EndInv, [Next]_vars
  PROVE  EndInv'
<1> USE DEF EndInv, AnswersReadAll, Answered
<1>1. TypeInv /\ StackInv
  BY DEF ParseInv
<1>2. pc # "parse" => look.sym = "none"
  BY <1>1, NoneIs DEF TypeInv
<1>3. CASE UNCHANGED vars
  BY <1>3 DEF vars, flexvars, parser, outvars
<1>4. CASE Calls
  <2>1. /\ pc = "idle" /\ look' = look
        /\ pc' \in {"idle", "write"}
        /\ pc' = "idle" => call'.text = <<>>
    <3>0. \A o, n, l, t : Called(o, n, l, t) => pc = "idle" /\ call'.text = t
      BY DEF Called
    <3>1. \A l : QueryAll(l) =>
            Called("query", "", l, <<>>) /\ look' = look /\ pc' = "idle"
      BY DEF QueryAll, AtOnce
    <3>2. \A o, e : Refuse(o, e) =>
            Called(o, "", 0, <<>>) /\ look' = look /\ pc' = "idle"
      BY DEF Refuse, AtOnce
    <3>3. \A o, n, l, t : Start(o, n, l, t) =>
            pc = "idle" /\ look' = look /\ pc' = "write"
      BY DEF Start, Called
    <3> QED
      BY <1>4, <3>0, <3>1, <3>2, <3>3 DEF Calls, Query, TestQuery
  <2> QED
    BY <1>2, <2>1
<1>5. CASE Write
  BY <1>2, <1>5 DEF Write, parser
<1>6. CASE Scan
  <2>1. /\ pc' = "parse"
        /\ look'.sym = "END" => rest' = <<>> /\ ~ pending'
    <3>1. "END" \notin Op \cup {"(", ")", "~", "ATTR"}
      BY DEF Op
    <3>2. \A w \in Seq(Letter) : Word(w).sym # "END"
      BY NoneIs
    <3>3. \A s \in Op \cup {"(", ")", "~"} : Token(s).sym # "END"
      BY <3>1, NoneIs DEF Terminal
    <3> QED
      BY <1>1, <1>6, <3>2, <3>3, ScanIs DEF Scan
  <2> QED
    BY <2>1
<1>7. CASE Shift
  BY <1>7, NoneIs DEF Shift
<1>8. CASE ReduceAttr \/ ReduceBinary \/ ReduceTerm \/ ReduceParens
             \/ ReduceComplement
  BY <1>8 DEF ReduceAttr, ReduceBinary, ReduceTerm, ReduceParens,
     ReduceComplement, Reduction, flexvars
<1>9. CASE Accept
  BY <1>9, NoneIs DEF Accept, Finals, Cleanup, flexvars
<1>10. CASE SyntaxError
  <2>1. /\ error' = "SYNTAX" \/ query_err # "SUCCESS"
        /\ fault' = fault /\ pc' = "idle" /\ look' = None
    BY <1>10 DEF SyntaxError, Cleanup, Fails
  <2>2. query_err # "SUCCESS" => fault
    BY DEF ParseInv, HeapInv
  <2> QED
    BY <2>1, <2>2, NoneIs
<1>11. CASE Evaluate \/ EvaluateShort \/ NoMemory
  <2>1. pc = "calc" /\ Cleanup(treeroot)
    BY <1>11 DEF Evaluate, EvaluateShort, NoMemory, Finish
  <2>2. rest' = rest /\ pending' = pending /\ pc' = "idle" /\ look' = None
    BY <2>1 DEF Cleanup, flexvars
  <2> QED
    BY <2>1, <2>2, NoneIs
<1> QED
  BY <1>3, <1>4, <1>5, <1>6, <1>7, <1>8, <1>9, <1>10, <1>11
  DEF Next, Run, Parse

\* For every set of queries and every size of the pipe, a call that is not
\* stopped by a syntax error leaves nothing in flex's buffer and nothing in
\* YY_BUFFER_EOF_PENDING.
THEOREM AlwaysReadsAll ==
  Spec => []AnswersReadAll
<1>1. Init => ParseInv /\ EndInv
  BY ParseInvInit, EndInvInit
<1>2. ParseInv /\ EndInv /\ [Next]_vars => (ParseInv /\ EndInv)'
  BY ParseInvNext, EndInvNext
<1>3. EndInv => AnswersReadAll
  BY DEF EndInv
<1> QED
  BY <1>1, <1>2, <1>3, PTL DEF Spec

-----------------------------------------------------------------------------

\* T[i] is what _genders_free_treenode() frees from treenode i on.
IsTree(T, h) ==
  /\ T[0] = {}
  /\ \A i \in 1 .. Len(h) :
        T[i] = {i} \cup T[h[i].left] \cup T[h[i].right]

LEMMA SubtreeIs ==
  ASSUME ParseInv
  PROVE  \E T : IsTree(T, heap)
                  /\ \A t \in 0 .. Len(heap) : Subtree(t) = T[t]
<1> DEFINE N == Len(heap)
           Sub(T, i) == IF i = 0 THEN {}
                        ELSE {i} \cup T[heap[i].left] \cup T[heap[i].right]
<1>1. N \in Nat /\ heap \in Seq(TreeNode)
  BY DEF ParseInv, TypeInv
<1>2. \A i \in 1 .. N : /\ heap[i].left \in 0 .. i - 1
                        /\ heap[i].right \in 0 .. i - 1
  <2> TAKE i \in 1 .. N
  <2>1. heap[i] \in TreeNode /\ IsNode(heap[i], i)
    BY <1>1 DEF ParseInv, HeapInv
  <2>2. heap[i].left \in Nat /\ heap[i].right \in Nat
    BY <2>1 DEF TreeNode
  <2> QED
    BY <2>1, <2>2, <1>1 DEF IsNode
<1> DEFINE S == 0 .. N
           V == SUBSET (1 .. N)
           m == [i \in S |-> i]
           D == [p \in S \X [S -> V] |-> Sub(p[2], p[1])]
<1>3. m \in [S -> 0 .. N] /\ V # {}
  OBVIOUS
<1>4. ASSUME NEW i \in S, NEW T \in [S -> V] PROVE Sub(T, i) \in V
  <2>1. CASE i = 0
    BY <2>1
  <2>2. CASE i # 0
    <3>1. i \in 1 .. N /\ heap[i].left \in S /\ heap[i].right \in S
      BY <1>1, <1>2, <2>2
    <3> QED
      BY <2>2, <3>1
  <2> QED
    BY <2>1, <2>2
<1>5. \A i \in S, T \in [S -> V] : D[<<i, T>>] = Sub(T, i)
  OBVIOUS
<1>6. D \in [S \X [S -> V] -> V]
  BY <1>4
<1>7. ASSUME NEW i \in S, NEW f \in [S -> V], NEW g \in [S -> V],
             \A y \in S : m[y] < m[i] => f[y] = g[y]
      PROVE  Sub(f, i) = Sub(g, i)
  <2>1. CASE i = 0
    BY <2>1
  <2>2. CASE i # 0
    <3>1. /\ i \in 1 .. N
          /\ heap[i].left \in 0 .. i - 1 /\ heap[i].right \in 0 .. i - 1
      BY <1>1, <1>2, <2>2
    <3>2. \A y \in 0 .. i - 1 : y \in S /\ f[y] = g[y]
      <4> TAKE y \in 0 .. i - 1
      <4>1. y \in S /\ y < i
        BY <1>1, <3>1
      <4> QED BY <4>1, <1>7
    <3> QED
      BY <2>2, <3>1, <3>2
  <2> QED
    BY <2>1, <2>2
<1>8. \A i \in S, f, g \in [S -> V] :
        (\A y \in S : m[y] < m[i] => f[y] = g[y])
          => D[<<i, f>>] = D[<<i, g>>]
  <2> SUFFICES ASSUME NEW i \in S, NEW f \in [S -> V], NEW g \in [S -> V],
                      \A y \in S : m[y] < m[i] => f[y] = g[y]
               PROVE  D[<<i, f>>] = D[<<i, g>>]
    OBVIOUS
  <2>1. Sub(f, i) = Sub(g, i)
    BY <1>7
  <2> HIDE DEF D, Sub
  <2> QED
    BY <1>5, <2>1
<1> HIDE DEF D, V, m, S, N
<1>9. PICK T \in [S -> V] : \A i \in S : T[i] = D[<<i, T>>]
  <2>1. Recursion(S, V, N, m, D)
    BY <1>1, <1>3, <1>6, <1>8 DEF Recursion
  <2> QED
    BY <2>1, RecursionExists
<1> USE DEF S, N
<1>10. T = [i \in S |-> Sub(T, i)]
  BY <1>5, <1>9
<1> DEFINE tree == CHOOSE t : t = [i \in S |-> Sub(t, i)]
<1>11. tree = [i \in S |-> Sub(tree, i)]
  BY <1>10
<1>12. \A t : Subtree(t) = tree[t]
  BY DEF Subtree
<1> HIDE DEF tree
<1>13. IsTree(tree, heap)
  <2>1. \A i \in S : tree[i] = Sub(tree, i)
    BY <1>11
  <2>2. 0 \in S /\ \A i \in 1 .. N : i \in S /\ i # 0
    BY <1>1
  <2> QED
    BY <2>1, <2>2 DEF IsTree
<1> QED
  BY <1>12, <1>13

\* Unless memory ran out, all treenodes that are not freed are in the trees
\* of the symbols on the stack, and then in the tree that was parsed.
TreeInv ==
  /\ pc = "write" => unfreed = {}
  /\ pc = "parse" /\ query_err = "SUCCESS" =>
       \A T : IsTree(T, heap) =>
         \A i \in unfreed : \E k \in 1 .. Len(stack) :
            /\ stack[k].sym \in {"term", "query"}
            /\ i \in T[stack[k].node]
  /\ pc = "calc" => \A T : IsTree(T, heap) => unfreed \subseteq T[treeroot]
  /\ TreesAreFreed

\* The trees of the symbols on the stack.
Owned(T, i) ==
  \E k \in 1 .. Len(stack) :
     stack[k].sym \in {"term", "query"} /\ i \in T[stack[k].node]

LEMMA OwnedInv ==
  ASSUME TreeInv, pc = "parse", query_err = "SUCCESS",
         NEW T, IsTree(T, heap), NEW i \in unfreed
  PROVE  Owned(T, i)
BY DEF TreeInv, Owned

\* A tree of more treenodes is a tree of those that were there before.
LEMMA TreeBefore ==
  ASSUME ParseInv, NEW T, IsTree(T, heap'), heap' \in Seq(TreeNode),
         Len(heap) <= Len(heap'),
         \A i \in 1 .. Len(heap) :
           heap'[i].left = heap[i].left /\ heap'[i].right = heap[i].right
  PROVE  IsTree(T, heap)
<1>1. \A i \in 1 .. Len(heap) : i \in 1 .. Len(heap')
  <2>1. Len(heap) \in Nat /\ Len(heap') \in Nat
    <3>1. heap \in Seq(TreeNode)
      BY DEF ParseInv, TypeInv
    <3> QED BY <3>1
  <2> QED BY <2>1
<1> QED
  BY <1>1 DEF IsTree

\* What is freed when a query has ended.
LEMMA FreedAtEnd ==
  ASSUME ParseInv, NEW t, Cleanup(t), fault' \in BOOLEAN,
         ~ fault' /\ error' # "SYNTAX" =>
           /\ t \in 0 .. Len(heap)
           /\ \A T : IsTree(T, heap) => unfreed \subseteq T[t]
  PROVE  TreeInv'
<1>1. /\ pc' = "idle" /\ unfreed' = unfreed \ Subtree(t)
      /\ treeroot' = 0 /\ query_err' = "SUCCESS"
  BY DEF Cleanup
<1>2. ASSUME error' # "SYNTAX", ~ fault' PROVE unfreed' = {}
  <2>1. PICK T : IsTree(T, heap) /\ \A i \in 0 .. Len(heap) : Subtree(i) = T[i]
    BY SubtreeIs
  <2>2. Subtree(t) = T[t] /\ unfreed \subseteq T[t]
    BY <1>2, <2>1
  <2> QED
    BY <1>1, <2>2
<1> QED
  BY <1>1, <1>2 DEF TreeInv, TreesAreFreed

\* A reduction that makes no treenode: s stands for all the symbols taken.
LEMMA TreeInvReduced ==
  ASSUME ParseInv, TreeInv, Reduction, NEW n \in 1 .. 3, n <= Len(stack),
         NEW s \in Symbol, s.sym \in {"term", "query"},
         Under(Len(stack) - n + 1) \in StandsOn(s.sym),
         stack' = Reduced(n, s),
         heap' \in Seq(TreeNode), Len(heap) <= Len(heap'),
         \A i \in 1 .. Len(heap) :
           heap'[i].left = heap[i].left /\ heap'[i].right = heap[i].right,
         query_err' = "SUCCESS" => query_err = "SUCCESS",
         query_err' = "SUCCESS" => \A T : IsTree(T, heap') =>
           /\ unfreed' \ unfreed \subseteq T[s.node]
           /\ \A k \in Len(stack) - n + 1 .. Len(stack) :
                 stack[k].sym \in {"term", "query"} =>
                   T[stack[k].node] \subseteq T[s.node]
  PROVE  TreeInv'
<1>1. pc = "parse" /\ pc' = "parse"
  BY DEF Reduction
<1>2. /\ stack' \in Seq(Symbol)
      /\ Len(stack') = Len(stack) - n + 1
      /\ \A k \in 1 .. Len(stack) - n : stack'[k] = stack[k]
      /\ stack'[Len(stack')] = s
  BY StackInvReduced DEF ParseInv, Reduction
<1>3. Len(stack) \in Nat
  BY StackIs DEF ParseInv
<1>4. ASSUME query_err' = "SUCCESS", NEW T, IsTree(T, heap'),
             NEW i \in unfreed'
      PROVE  \E k \in 1 .. Len(stack') :
                /\ stack'[k].sym \in {"term", "query"}
                /\ i \in T[stack'[k].node]
  <2>1. Len(stack') \in 1 .. Len(stack')
    BY <1>2, <1>3
  <2>2. CASE i \in T[s.node]
    BY <1>2, <2>1, <2>2
  <2>3. CASE i \notin T[s.node]
    <3>1. i \in unfreed /\ query_err = "SUCCESS"
      BY <1>4, <2>3
    <3>2. IsTree(T, heap)
      BY <1>4, TreeBefore
    <3>3. PICK k \in 1 .. Len(stack) :
             stack[k].sym \in {"term", "query"} /\ i \in T[stack[k].node]
      BY <1>1, <3>1, <3>2, OwnedInv DEF Owned
    <3>4. k \notin Len(stack) - n + 1 .. Len(stack)
      BY <1>4, <2>3, <3>3
    <3>5. k \in 1 .. Len(stack) - n /\ k \in 1 .. Len(stack')
      BY <1>2, <1>3, <3>4
    <3> QED
      BY <1>2, <3>3, <3>5
  <2> QED
    BY <2>2, <2>3
<1> QED
  BY <1>1, <1>4 DEF TreeInv, TreesAreFreed


LEMMA TreeInvMake ==
  ASSUME ParseInv, TreeInv, Reduction, NEW n \in 1 .. 3, n <= Len(stack),
         NEW sym \in {"term", "query"}, NEW str \in Seq(Letter \cup Op),
         NEW left \in Nat, NEW right \in Nat, Make(n, sym, str, left, right),
         Under(Len(stack) - n + 1) \in StandsOn(sym),
         query_err = "SUCCESS" =>
           \A k \in Len(stack) - n + 1 .. Len(stack) :
             stack[k].sym \in {"term", "query"} =>
               stack[k].node \in {left, right}
  PROVE  TreeInv'
<1>1. heap \in Seq(TreeNode) /\ Len(heap) \in Nat
  <2>1. heap \in Seq(TreeNode)
    BY DEF ParseInv, TypeInv
  <2> QED BY <2>1
<1>2. \A k \in Nat : /\ Tree(sym, k) \in Symbol /\ Tree(sym, k).sym = sym
                     /\ Tree(sym, k).node = k
  BY NoneIs
<1>3. CASE /\ query_err = "SUCCESS" /\ query_err' = "SUCCESS"
           /\ heap' \in Seq(TreeNode) /\ Len(heap') = Len(heap) + 1
           /\ \A i \in 1 .. Len(heap) : heap'[i] = heap[i]
           /\ heap'[Len(heap) + 1] =
                [str |-> str, left |-> left, right |-> right,
                 complement |-> FALSE]
           /\ unfreed' = unfreed \cup {Len(heap) + 1}
           /\ stack' = Reduced(n, Tree(sym, Len(heap) + 1))
  <2>1. Len(heap) <= Len(heap') /\ Len(heap) + 1 \in Nat
    BY <1>1, <1>3
  <2>2. ASSUME NEW T, IsTree(T, heap')
        PROVE  /\ unfreed' \ unfreed \subseteq T[Len(heap) + 1]
               /\ \A k \in Len(stack) - n + 1 .. Len(stack) :
                    stack[k].sym \in {"term", "query"} =>
                      T[stack[k].node] \subseteq T[Len(heap) + 1]
    <3>1. Len(heap) + 1 \in 1 .. Len(heap')
      BY <1>1, <1>3
    <3>3. /\ heap'[Len(heap) + 1].left = left
          /\ heap'[Len(heap) + 1].right = right
      BY <1>3
    <3>2. T[Len(heap) + 1] = {Len(heap) + 1} \cup T[left] \cup T[right]
      BY <2>2, <3>1, <3>3 DEF IsTree
    <3> QED
      BY <1>3, <3>2
  <2> QED
    BY <1>2, <1>3, <2>1, <2>2, TreeInvReduced
<1>4. CASE /\ query_err' = "OUTMEM" /\ fault'
           /\ stack' = Reduced(n, Tree(sym, 0))
           /\ UNCHANGED <<heap, unfreed>>
  <2>1. Len(heap) <= Len(heap')
    BY <1>1, <1>4
  <2> QED
    BY <1>1, <1>2, <1>4, <2>1, TreeInvReduced
<1> QED
  BY <1>3, <1>4, MakeIs

LEMMA TreeInvParser ==
  ASSUME ParseInv, TreeInv,
         \/ ReduceAttr \/ ReduceBinary \/ ReduceTerm \/ ReduceParens
         \/ ReduceComplement
  PROVE  TreeInv'
<1>1. TypeInv /\ StackInv /\ HeapInv /\ heap \in Seq(TreeNode)
  BY DEF ParseInv, TypeInv
<1>2. PICK m \in Nat : m = Len(stack)
  BY <1>1, StackIs
<1>3. \A k \in 1 .. m : stack[k] \in Symbol /\ stack[k].node \in Nat
  BY <1>1, <1>2, StackIs DEF Symbol
<1>4. /\ "ATTR" \notin {"term", "query"} /\ ")" \notin {"term", "query"}
      /\ "(" \notin {"term", "query"} /\ "~" \notin {"term", "query"}
      /\ \A o \in Op : o \notin {"term", "query"}
  BY DEF Op
<1>5. CASE ReduceAttr
  <2>1. /\ 1 <= m /\ Top.str \in Seq(Letter) /\ Top = stack[m]
        /\ Under(m - 1 + 1) \in StandsOn("term")
    BY <1>2, <1>5, ReducesAttr
  <2>2. /\ Make(1, "term", Top.str, 0, 0) /\ Reduction
        /\ Top.sym = "ATTR"
    BY <1>5 DEF ReduceAttr
  <2>3. Top.str \in Seq(Letter \cup Op) /\ 0 \in Nat /\ 1 \in 1 .. 3
    BY <2>1, OpStr
  <2>4. \A k \in m - 1 + 1 .. m : stack[k].sym \notin {"term", "query"}
    <3>1. \A k \in m - 1 + 1 .. m : k = m
      BY <2>1
    <3> QED
      BY <1>4, <2>1, <2>2, <3>1
  <2> QED
    BY <1>2, <2>1, <2>2, <2>3, <2>4, TreeInvMake
<1>6. CASE ReduceBinary
  <2>1. /\ 3 <= m
        /\ Top = stack[m] /\ Top.sym = "term"
        /\ Below = stack[m - 1] /\ Below.sym \in Op
        /\ stack[m - 2].sym = "query"
        /\ Under(m - 3 + 1) \in StandsOn("query")
    BY <1>2, <1>6, ReducesBinary
  <2>2. /\ Make(3, "query", <<Below.sym>>, stack[m - 2].node, Top.node)
        /\ Reduction
    BY <1>2, <1>6 DEF ReduceBinary, Size
  <2>3. /\ <<Below.sym>> \in Seq(Letter \cup Op)
        /\ stack[m - 2].node \in Nat /\ Top.node \in Nat
    <3>1. m - 2 \in 1 .. m /\ m \in 1 .. m
      BY <2>1
    <3> QED
      BY <2>1, <3>1, <1>3, OpStr
  <2>4. \A k \in m - 3 + 1 .. m : stack[k].sym \in {"term", "query"} =>
          stack[k].node \in {stack[m - 2].node, Top.node}
    <3>1. \A k \in m - 3 + 1 .. m : k = m \/ k = m - 1 \/ k = m - 2
      BY <2>1
    <3> QED
      BY <1>4, <2>1, <3>1
  <2>5. 3 \in 1 .. 3 /\ "query" \in {"term", "query"}
    OBVIOUS
  <2> QED
    BY <1>2, <2>1, <2>2, <2>3, <2>4, <2>5, TreeInvMake
<1>7. CASE ReduceTerm
  <2>1. /\ 1 <= m /\ m \in 1 .. m
        /\ Top = stack[m] /\ Top.sym = "term"
        /\ Under(m - 1 + 1) \in StandsOn("query")
    BY <1>2, <1>7, ReducesTerm
  <2>2. /\ stack' = Reduced(1, Tree("query", Top.node)) /\ Reduction
        /\ UNCHANGED <<heap, unfreed, query_err, fault>>
    BY <1>7 DEF ReduceTerm
  <2>3. /\ Tree("query", Top.node) \in Symbol
        /\ Tree("query", Top.node).sym = "query"
        /\ Tree("query", Top.node).node = Top.node
    BY <2>1, <1>3, NoneIs, ZenonT(60)
  <2>4. \A k \in m - 1 + 1 .. m : stack[k].node = Top.node
    <3>1. \A k \in m - 1 + 1 .. m : k = m
      BY <2>1
    <3> QED
      BY <2>1, <3>1
  <2>5. Len(heap) <= Len(heap') /\ 1 \in 1 .. 3
    BY <2>2, <1>1
  <2> QED
    BY <1>1, <1>2, <2>1, <2>2, <2>3, <2>4, <2>5, TreeInvReduced
<1>8. CASE ReduceParens
  <2>1. /\ 3 <= m /\ m - 1 \in 1 .. m /\ Top = stack[m] /\ Top.sym = ")"
        /\ Below = stack[m - 1] /\ Below.sym = "query"
        /\ stack[m - 2].sym = "("
        /\ Under(m - 3 + 1) \in StandsOn("term")
    BY <1>2, <1>8, ReducesParens
  <2>2. /\ stack' = Reduced(3, Tree("term", Below.node)) /\ Reduction
        /\ UNCHANGED <<heap, unfreed, query_err, fault>>
    BY <1>8 DEF ReduceParens
  <2>3. /\ Tree("term", Below.node) \in Symbol
        /\ Tree("term", Below.node).sym = "term"
        /\ Tree("term", Below.node).node = Below.node
    <3>1. PICK n \in Nat : n = Below.node
      BY <2>1, <1>3
    <3>2. PICK s \in Terminal \cup {"term", "query", "END"} : s = "term"
      OBVIOUS
    <3>3. Tree(s, n) \in Symbol /\ Tree(s, n).sym = s /\ Tree(s, n).node = n
      BY ONLY NoneIs
    <3> QED BY ONLY <3>1, <3>2, <3>3
  <2>4. \A k \in m - 3 + 1 .. m : stack[k].sym \in {"term", "query"} =>
          stack[k].node = Below.node
    <3>1. \A k \in m - 3 + 1 .. m : k = m \/ k = m - 1 \/ k = m - 2
      BY <2>1
    <3> QED
      BY <1>4, <2>1, <3>1
  <2>5. Len(heap) <= Len(heap') /\ 3 \in 1 .. 3
    BY <2>2, <1>1
  <2> QED
    BY <1>1, <1>2, <2>1, <2>2, <2>3, <2>4, <2>5, TreeInvReduced
<1>9. CASE ReduceComplement
  <2>1. /\ 2 <= m /\ m \in 1 .. m
        /\ Top = stack[m] /\ Top.sym = "term" /\ Top \in Symbol
        /\ Below = stack[m - 1] /\ Below.sym = "~"
        /\ Under(m - 2 + 1) \in StandsOn("term")
    BY <1>2, <1>9, ReducesComplement
  <2>2. /\ stack' = Reduced(2, Top) /\ Reduction
        /\ UNCHANGED <<unfreed, query_err, fault>>
    BY <1>9 DEF ReduceComplement
  <2>3. /\ heap' \in Seq(TreeNode) /\ Len(heap') = Len(heap)
        /\ \A i \in 1 .. Len(heap) : /\ heap'[i].left = heap[i].left
                                     /\ heap'[i].right = heap[i].right
    BY <1>9, ComplementIs
  <2>4. \A k \in m - 2 + 1 .. m : stack[k].sym \in {"term", "query"} =>
          stack[k].node = Top.node
    <3>1. \A k \in m - 2 + 1 .. m : k = m \/ k = m - 1
      BY <2>1
    <3> QED
      BY <1>4, <2>1, <3>1
  <2>5. Len(heap) <= Len(heap') /\ 2 \in 1 .. 3
    BY <2>3, <1>1
  <2> QED
    BY <1>1, <1>2, <2>1, <2>2, <2>3, <2>4, <2>5, TreeInvReduced
<1> QED
  BY <1>5, <1>6, <1>7, <1>8, <1>9

LEMMA TreeInvNext ==
  ASSUME ParseInv, TreeInv, [Next]_vars
  PROVE  TreeInv'
<1>1. CASE UNCHANGED vars
  BY <1>1 DEF vars, parser, outvars, TreeInv, TreesAreFreed
<1>2. CASE Calls
  <2>1. /\ unfreed' = {}
        /\ \/ pc' = "idle" /\ pc = "idle"
              /\ treeroot' = treeroot /\ query_err' = query_err
           \/ pc' = "write"
    BY <1>2 DEF Calls, QueryAll, Query, TestQuery, Start, Refuse, Called,
       AtOnce
  <2> QED
    BY <2>1 DEF TreeInv, TreesAreFreed
<1>3. CASE Write
  <2>1. pc = "write" /\ pc' = "parse" /\ unfreed' = unfreed
    BY <1>3 DEF Write, parser
  <2> QED
    BY <2>1 DEF TreeInv, TreesAreFreed
<1>4. CASE Scan
  BY <1>4 DEF Scan, TreeInv, TreesAreFreed
<1>5. CASE Shift
  <2>1. /\ pc = "parse"
        /\ UNCHANGED <<pc, heap, unfreed, query_err>>
        /\ Len(stack') = Len(stack) + 1
        /\ \A k \in 1 .. Len(stack) : stack'[k] = stack[k]
    BY <1>5, ShiftIs DEF Shift
  <2>2. \A k \in 1 .. Len(stack) : k \in 1 .. Len(stack')
    BY <2>1, StackIs DEF ParseInv
  <2>3. ASSUME query_err = "SUCCESS", NEW T, IsTree(T, heap), NEW i \in unfreed
        PROVE  \E k \in 1 .. Len(stack') :
                  /\ stack'[k].sym \in {"term", "query"}
                  /\ i \in T[stack'[k].node]
    BY <2>1, <2>2, <2>3, OwnedInv DEF Owned
  <2> QED
    BY <2>1, <2>3 DEF TreeInv, TreesAreFreed
<1>6. CASE ReduceAttr \/ ReduceBinary \/ ReduceTerm \/ ReduceParens
             \/ ReduceComplement
  BY <1>6, TreeInvParser
<1>7. CASE Accept
  <2>1. CASE query_err # "SUCCESS"
    <3>1. Cleanup(Top.node) /\ fault' /\ fault' \in BOOLEAN
      BY <1>7, <2>1 DEF Accept, ParseInv, HeapInv, TypeInv
    <3> QED
      BY <3>1, FreedAtEnd
  <2>2. CASE query_err = "SUCCESS"
    <3>1. /\ pc = "parse" /\ pc' = "calc" /\ treeroot' = Top.node
          /\ UNCHANGED <<heap, unfreed>>
      BY <1>7, <2>2 DEF Accept
    <3>2. Len(stack) = 1 /\ stack[1] = Top
      BY <1>7, CompleteIs DEF Accept
    <3>3. \A T : IsTree(T, heap) => unfreed \subseteq T[Top.node]
      BY <2>2, <3>1, <3>2, OwnedInv DEF Owned
    <3> QED
      BY <3>1, <3>3 DEF TreeInv, TreesAreFreed
  <2> QED
    BY <2>1, <2>2
<1>8. CASE SyntaxError
  <2>1. /\ Cleanup(IF Complete THEN Top.node ELSE 0)
        /\ error' = "SYNTAX" \/ fault'
        /\ fault' \in BOOLEAN
    BY <1>8 DEF SyntaxError, Fails, ParseInv, HeapInv, TypeInv
  <2> QED
    BY <2>1, FreedAtEnd
<1>9. CASE Evaluate \/ EvaluateShort \/ NoMemory
  <2>1. pc = "calc" /\ Cleanup(treeroot)
    BY <1>9 DEF Evaluate, EvaluateShort, NoMemory, Finish
  <2>2. fault' \in BOOLEAN
    BY <1>9 DEF Evaluate, EvaluateShort, NoMemory, ParseInv, TypeInv
  <2>3. \A T : IsTree(T, heap) => unfreed \subseteq T[treeroot]
    BY <2>1 DEF TreeInv
  <2>4. ~ fault' => treeroot \in 0 .. Len(heap)
    <3> HAVE ~ fault'
    <3>1. query_err = "SUCCESS"
      BY <1>9 DEF Evaluate, EvaluateShort, NoMemory, ParseInv, HeapInv
    <3> QED
      BY <2>1, <3>1 DEF ParseInv, HeapInv
  <2> QED
    BY <2>1, <2>2, <2>3, <2>4, FreedAtEnd
<1> QED
  BY <1>1, <1>2, <1>3, <1>4, <1>5, <1>6, <1>7, <1>8, <1>9
  DEF Next, Run, Parse

\* Whatever a query is and however it ends, if it was parsed to its end and
\* memory did not run out then _genders_free_treenode() frees all of its
\* treenodes; genders_treeroot and genders_query_err are left as they were.
THEOREM TreesAlwaysFreed ==
  Spec => []TreesAreFreed
<1>1. Init => ParseInv /\ TreeInv
  BY ParseInvInit DEF Init, TreeInv, TreesAreFreed
<1>2. ParseInv /\ TreeInv /\ [Next]_vars => (ParseInv /\ TreeInv)'
  BY ParseInvNext, TreeInvNext
<1>3. TreeInv => TreesAreFreed
  BY DEF TreeInv
<1> QED
  BY <1>1, <1>2, <1>3, PTL DEF Spec

-----------------------------------------------------------------------------
(* The language: what Denotes() finds, for every text.                     *)

Kind == {"query", "term"}

\* How one table reads pieces i to j, as a query or as a term.
At(P, k, i, j) == P[k, i, j]

\* P is the table of readings of t.
Meaning(P, t) ==
  \A k \in Kind, i \in 1 .. Len(t) + 1, j \in 0 .. Len(t) :
    At(P, k, i, j) = Reading(t, P, k, i, j)

\* What Reading says, one way at a time.
Ways(P, t, k, i, j, S) ==
  \/ (\A x \in i .. j : t[x] \in Letter) /\ S = Hits(SubSeq(t, i, j))
  \/ t[i] = "(" /\ t[j] = ")" /\ S \in At(P, "query", i + 1, j - 1)
  \/ t[i] = "~" /\ \E R \in At(P, "term", i + 1, j) : S = Node \ R
  \/ /\ k = "query"
     /\ \E x \in i .. j :
          /\ t[x] \in Op
          /\ \E l \in At(P, "query", i, x - 1), r \in At(P, "term", x + 1, j) :
               S = Joined(t[x], l, r)

Reads(P, t, k, i, j, S) ==
  \/ t[i] \in Ignored /\ S \in At(P, k, i + 1, j)
  \/ t[i] \notin Ignored /\ t[j] \in Ignored /\ S \in At(P, k, i, j - 1)
  \/ t[i] \notin Ignored /\ t[j] \notin Ignored /\ Ways(P, t, k, i, j, S)

LEMMA ReadingIs ==
  ASSUME NEW P, NEW t, NEW k, NEW i, NEW j, NEW S
  PROVE  S \in Reading(t, P, k, i, j) <=> ~ (i > j) /\ Reads(P, t, k, i, j, S)
<1> USE DEF At
<1>1. CASE i > j
  BY <1>1 DEF Reading
<1>2. CASE ~ (i > j) /\ t[i] \in Ignored
  <2>1. Reading(t, P, k, i, j) = At(P, k, i + 1, j)
    BY <1>2 DEF Reading
  <2>2. Reads(P, t, k, i, j, S) <=> S \in At(P, k, i + 1, j)
    BY <1>2, Zenon DEF Reads
  <2> QED
    BY <1>2, <2>1, <2>2
<1>3. CASE ~ (i > j) /\ t[i] \notin Ignored /\ t[j] \in Ignored
  <2>1. Reading(t, P, k, i, j) = At(P, k, i, j - 1)
    BY <1>3 DEF Reading
  <2>2. Reads(P, t, k, i, j, S) <=> S \in At(P, k, i, j - 1)
    BY <1>3, Zenon DEF Reads
  <2> QED
    BY <1>3, <2>1, <2>2
<1>4. CASE ~ (i > j) /\ t[i] \notin Ignored /\ t[j] \notin Ignored
  <2> DEFINE A == IF \A x \in i .. j : t[x] \in Letter
                  THEN {Hits(SubSeq(t, i, j))} ELSE {}
             B == IF t[i] = "(" /\ t[j] = ")" THEN At(P, "query", i + 1, j - 1)
                  ELSE {}
             C == IF t[i] = "~" THEN {Node \ R : R \in At(P, "term", i + 1, j)}
                  ELSE {}
             E(x) == {Joined(t[x], l, r) : l \in At(P, "query", i, x - 1),
                                           r \in At(P, "term", x + 1, j)}
             D == IF k = "query"
                  THEN UNION {E(x) : x \in {y \in i .. j : t[y] \in Op}}
                  ELSE {}
  <2>1. Reading(t, P, k, i, j) = UNION {A, B, C, D}
    BY <1>4 DEF Reading
  <2>2. S \in A <=> (\A x \in i .. j : t[x] \in Letter)
                      /\ S = Hits(SubSeq(t, i, j))
    OBVIOUS
  <2>3. S \in B <=>
          t[i] = "(" /\ t[j] = ")" /\ S \in At(P, "query", i + 1, j - 1)
    OBVIOUS
  <2>4. S \in C <=>
          t[i] = "~" /\ \E R \in At(P, "term", i + 1, j) : S = Node \ R
    OBVIOUS
  <2>5. \A x : S \in E(x) <=>
          \E l \in At(P, "query", i, x - 1), r \in At(P, "term", x + 1, j) :
            S = Joined(t[x], l, r)
    OBVIOUS
  <2> HIDE DEF A, B, C, E
  <2>6. S \in D <=> k = "query" /\ \E x \in i .. j : t[x] \in Op /\ S \in E(x)
    OBVIOUS
  <2> HIDE DEF D
  <2>7. S \in Reading(t, P, k, i, j) <=>
          S \in A \/ S \in B \/ S \in C \/ S \in D
    BY <2>1
  <2>8. S \in D <=>
          /\ k = "query"
          /\ \E x \in i .. j :
               /\ t[x] \in Op
               /\ \E l \in At(P, "query", i, x - 1),
                     r \in At(P, "term", x + 1, j) :
                    S = Joined(t[x], l, r)
    BY <2>5, <2>6
  <2>9. Reads(P, t, k, i, j, S) <=> S \in A \/ S \in B \/ S \in C \/ S \in D
    BY <1>4, <2>2, <2>3, <2>4, <2>8, Zenon DEF Reads, Ways
  <2> QED
    BY <1>4, <2>7, <2>9
<1>5. \/ i > j
      \/ ~ (i > j) /\ t[i] \in Ignored
      \/ ~ (i > j) /\ t[i] \notin Ignored /\ t[j] \in Ignored
      \/ ~ (i > j) /\ t[i] \notin Ignored /\ t[j] \notin Ignored
  OBVIOUS
<1> QED
  BY <1>1, <1>2, <1>3, <1>4, <1>5, Zenon

LEMMA MeaningIs ==
  ASSUME NEW t \in Seq(Piece), NEW P, Meaning(P, t),
         NEW k \in Kind, NEW i \in 1 .. Len(t) + 1, NEW j \in 0 .. Len(t),
         NEW S
  PROVE  S \in At(P, k, i, j) <=> i <= j /\ Reads(P, t, k, i, j, S)
<1>1. Len(t) \in Nat
  OBVIOUS
<1>2. ~ (i > j) <=> i <= j
  BY <1>1
<1>3. At(P, k, i, j) = Reading(t, P, k, i, j)
  BY DEF Meaning
<1> QED
  BY <1>2, <1>3, ReadingIs


\* What the readings of pieces i to j rest on.
Triple(t) == Kind \X (1 .. Len(t) + 1) \X (0 .. Len(t))
Span(i, j) == IF i > j THEN 0 ELSE j - i + 1

LEMMA Shorter ==
  ASSUME NEW t \in Seq(Piece), NEW k \in Kind,
         NEW i \in 1 .. Len(t) + 1, NEW j \in 0 .. Len(t), i <= j
  PROVE  /\ i \in 1 .. Len(t) /\ j \in 1 .. Len(t)
         /\ i + 1 \in 1 .. Len(t) + 1 /\ j - 1 \in 0 .. Len(t)
         /\ Span(i + 1, j) < Span(i, j) /\ Span(i, j - 1) < Span(i, j)
         /\ Span(i + 1, j - 1) < Span(i, j)
         /\ \A x \in i .. j :
              /\ x \in 1 .. Len(t)
              /\ x - 1 \in 0 .. Len(t) /\ x + 1 \in 1 .. Len(t) + 1
              /\ Span(i, x - 1) < Span(i, j) /\ Span(x + 1, j) < Span(i, j)
<1>1. Len(t) \in Nat /\ i \in Nat /\ j \in Nat /\ 1 <= i /\ j <= Len(t)
  OBVIOUS
<1>2. ASSUME NEW x \in i .. j
      PROVE  /\ x \in 1 .. Len(t)
             /\ x - 1 \in 0 .. Len(t) /\ x + 1 \in 1 .. Len(t) + 1
             /\ Span(i, x - 1) < Span(i, j) /\ Span(x + 1, j) < Span(i, j)
  BY <1>1 DEF Span
<1> QED
  BY <1>1, <1>2 DEF Span

LEMMA ReadsAlike ==
  ASSUME NEW t \in Seq(Piece), NEW P, NEW Q,
         NEW k \in Kind, NEW i \in 1 .. Len(t) + 1, NEW j \in 0 .. Len(t),
         \A s \in Triple(t) : Span(s[2], s[3]) < Span(i, j) => P[s] = Q[s]
  PROVE  Reading(t, P, k, i, j) = Reading(t, Q, k, i, j)
<1>1. CASE i > j
  BY <1>1 DEF Reading
<1>2. CASE i <= j
  <2>1. \A h \in Kind, a \in 1 .. Len(t) + 1, c \in 0 .. Len(t) :
          Span(a, c) < Span(i, j) => At(P, h, a, c) = At(Q, h, a, c)
    <3> TAKE h \in Kind, a \in 1 .. Len(t) + 1, c \in 0 .. Len(t)
    <3>1. <<h, a, c>> \in Triple(t) /\ <<h, a, c>>[2] = a /\ <<h, a, c>>[3] = c
      BY DEF Triple
    <3> QED
      BY <3>1 DEF At
  <2>2. "query" \in Kind /\ "term" \in Kind
    BY DEF Kind
  <2>3. /\ At(P, k, i + 1, j) = At(Q, k, i + 1, j)
        /\ At(P, k, i, j - 1) = At(Q, k, i, j - 1)
        /\ At(P, "query", i + 1, j - 1) = At(Q, "query", i + 1, j - 1)
        /\ At(P, "term", i + 1, j) = At(Q, "term", i + 1, j)
    BY <1>2, <2>1, <2>2, Shorter
  <2>4. \A x \in i .. j :
          /\ At(P, "query", i, x - 1) = At(Q, "query", i, x - 1)
          /\ At(P, "term", x + 1, j) = At(Q, "term", x + 1, j)
    BY <1>2, <2>1, <2>2, Shorter
  <2>5. \A S : Reads(P, t, k, i, j, S) <=> Reads(Q, t, k, i, j, S)
    <3> TAKE S
    <3>1. (\E x \in i .. j :
             /\ t[x] \in Op
             /\ \E l \in At(P, "query", i, x - 1),
                   r \in At(P, "term", x + 1, j) :
                  S = Joined(t[x], l, r))
          <=> (\E x \in i .. j :
             /\ t[x] \in Op
             /\ \E l \in At(Q, "query", i, x - 1),
                   r \in At(Q, "term", x + 1, j) :
                  S = Joined(t[x], l, r))
      BY <2>4, Zenon
    <3> QED
      BY <2>3, <3>1, Zenon DEF Reads, Ways
  <2>6. \A S : S \in Reading(t, P, k, i, j) <=> S \in Reading(t, Q, k, i, j)
    <3> TAKE S
    <3>1. /\ S \in Reading(t, P, k, i, j) <=>
               ~ (i > j) /\ Reads(P, t, k, i, j, S)
          /\ S \in Reading(t, Q, k, i, j) <=>
               ~ (i > j) /\ Reads(Q, t, k, i, j, S)
      BY ReadingIs
    <3> QED
      BY <2>5, <3>1
  <2> QED
    BY <2>6
<1>3. i > j \/ i <= j
  BY DEF Kind
<1> QED
  BY <1>1, <1>2, <1>3

LEMMA ReadingType ==
  ASSUME NEW t \in Seq(Piece), NEW P \in [Triple(t) -> SUBSET SUBSET Node],
         NEW k \in Kind, NEW i \in 1 .. Len(t) + 1, NEW j \in 0 .. Len(t)
  PROVE  Reading(t, P, k, i, j) \in SUBSET SUBSET Node
<1>1. \A h \in Kind, a \in 1 .. Len(t) + 1, c \in 0 .. Len(t) :
        At(P, h, a, c) \subseteq SUBSET Node
  BY DEF Triple, At
<1>2. \A w : Hits(w) \subseteq Node
  BY QueryAssumption DEF Hits
<1>3. "query" \in Kind /\ "term" \in Kind
  BY DEF Kind
<1> SUFFICES ASSUME NEW S, S \in Reading(t, P, k, i, j) PROVE S \subseteq Node
  OBVIOUS
<1>4. i <= j /\ Reads(P, t, k, i, j, S)
  BY ReadingIs
<1>5. CASE S \in At(P, k, i + 1, j) \/ S \in At(P, k, i, j - 1)
            \/ S \in At(P, "query", i + 1, j - 1)
  BY <1>1, <1>3, <1>4, <1>5, Shorter
<1>6. CASE S = Hits(SubSeq(t, i, j))
  BY <1>2, <1>6
<1>7. CASE \E R : S = Node \ R
  BY <1>7
<1>8. CASE \E x \in i .. j :
              \E l \in At(P, "query", i, x - 1),
                 r \in At(P, "term", x + 1, j) :
                S = Joined(t[x], l, r)
  <2>0. PICK x \in i .. j :
               \E l \in At(P, "query", i, x - 1),
                  r \in At(P, "term", x + 1, j) :
                 S = Joined(t[x], l, r)
    BY <1>8
  <2>1. PICK l \in At(P, "query", i, x - 1), r \in At(P, "term", x + 1, j) :
               S = Joined(t[x], l, r)
    BY <2>0
  <2>2. l \subseteq Node /\ r \subseteq Node
    BY <1>1, <1>3, <1>4, Shorter, SMTT(30)
  <2> QED
    BY <2>1, <2>2 DEF Joined
<1> QED
  BY <1>4, <1>5, <1>6, <1>7, <1>8, Zenon DEF Reads, Ways

\* A table of readings exists for every text.
LEMMA DenotesIs ==
  ASSUME NEW t \in Seq(Piece)
  PROVE  \E P : Meaning(P, t) /\ Denotes(t) = At(P, "query", 1, Len(t))
<1>1. Len(t) \in Nat
  OBVIOUS
<1> DEFINE S == Triple(t)
           V == SUBSET SUBSET Node
           m == [s \in S |-> Span(s[2], s[3])]
           Body(s, P) == Reading(t, P, s[1], s[2], s[3])
           D == [p \in S \X [S -> V] |-> Body(p[1], p[2])]
<1>2. \A s \in S : s[1] \in Kind /\ s[2] \in 1 .. Len(t) + 1
                     /\ s[3] \in 0 .. Len(t)
  BY DEF Triple
<1>3. m \in [S -> 0 .. Len(t)] /\ V # {}
  <2>1. \A s \in S : Span(s[2], s[3]) \in 0 .. Len(t)
    BY <1>1, <1>2 DEF Span
  <2> QED
    BY <2>1
<1>4. \A s \in S, P \in [S -> V] : Body(s, P) \in V
  BY <1>2, ReadingType
<1>5. \A s \in S, P \in [S -> V] : D[<<s, P>>] = Body(s, P)
  OBVIOUS
<1>6. D \in [S \X [S -> V] -> V]
  BY <1>4
<1>7. ASSUME NEW s \in S, NEW f \in [S -> V], NEW g \in [S -> V],
             \A y \in S : m[y] < m[s] => f[y] = g[y]
      PROVE  Body(s, f) = Body(s, g)
  <2>1. \A y \in Triple(t) :
          Span(y[2], y[3]) < Span(s[2], s[3]) => f[y] = g[y]
    BY <1>7
  <2> HIDE DEF m
  <2> QED
    BY <1>2, <2>1, ReadsAlike
<1>8. \A s \in S, f, g \in [S -> V] :
        (\A y \in S : m[y] < m[s] => f[y] = g[y])
          => D[<<s, f>>] = D[<<s, g>>]
  <2> SUFFICES ASSUME NEW s \in S, NEW f \in [S -> V], NEW g \in [S -> V],
                      \A y \in S : m[y] < m[s] => f[y] = g[y]
               PROVE  D[<<s, f>>] = D[<<s, g>>]
    OBVIOUS
  <2>1. Body(s, f) = Body(s, g)
    BY <1>7
  <2> HIDE DEF D, Body
  <2> QED
    BY <1>5, <2>1
<1> HIDE DEF D, V, m, S
<1>9. PICK P \in [S -> V] : \A s \in S : P[s] = D[<<s, P>>]
  <2>1. Recursion(S, V, Len(t), m, D)
    BY <1>1, <1>3, <1>6, <1>8 DEF Recursion
  <2> QED
    BY <2>1, RecursionExists
<1> USE DEF S
<1>10. P = [s \in S |-> Body(s, P)]
  BY <1>5, <1>9
<1> DEFINE phrase == CHOOSE p : p = [s \in S |-> Body(s, p)]
<1>11. phrase = [s \in S |-> Body(s, phrase)]
  BY <1>10
<1>12. Denotes(t) = phrase[<<"query", 1, Len(t)>>]
  BY DEF Denotes, Triple, Kind
<1> HIDE DEF phrase
<1>13. Meaning(phrase, t)
  <2> SUFFICES ASSUME NEW k \in Kind, NEW i \in 1 .. Len(t) + 1,
                      NEW j \in 0 .. Len(t)
               PROVE  At(phrase, k, i, j) = Reading(t, phrase, k, i, j)
    BY DEF Meaning
  <2>1. <<k, i, j>> \in S
    BY DEF Triple
  <2>2. phrase[<<k, i, j>>] = Body(<<k, i, j>>, phrase)
    BY <1>11, <2>1
  <2> QED
    BY <2>2 DEF At
<1> QED
  BY <1>12, <1>13 DEF At

\* What is ignored on either side changes nothing.
Blank(t, i, j) == \A x \in i .. j : t[x] \in Ignored

LEMMA NoReading ==
  ASSUME NEW t \in Seq(Piece), NEW P, Meaning(P, t),
         NEW k \in Kind, NEW i \in 1 .. Len(t) + 1, NEW j \in 0 .. Len(t),
         i > j
  PROVE  At(P, k, i, j) = {}
<1>1. ~ (i <= j)
  BY DEF Kind
<1>2. \A S : S \notin At(P, k, i, j)
  BY <1>1, MeaningIs
<1> QED
  BY <1>2

LEMMA StepLeft ==
  ASSUME NEW t \in Seq(Piece), NEW P, Meaning(P, t),
         NEW k \in Kind, NEW i \in 1 .. Len(t), NEW j \in 0 .. Len(t),
         t[i] \in Ignored
  PROVE  At(P, k, i, j) = At(P, k, i + 1, j)
<1>1. i \in 1 .. Len(t) + 1 /\ i + 1 \in 1 .. Len(t) + 1
  OBVIOUS
<1>2. CASE i > j
  <2>1. i + 1 > j
    BY <1>2
  <2> QED
    BY <1>1, <1>2, <2>1, NoReading
<1>3. CASE i <= j
  <2>1. \A S : Reads(P, t, k, i, j, S) <=> S \in At(P, k, i + 1, j)
    BY Zenon DEF Reads
  <2>2. \A S : S \in At(P, k, i, j) <=> S \in At(P, k, i + 1, j)
    BY <1>1, <1>3, <2>1, MeaningIs
  <2> QED
    BY <2>2
<1> QED
  BY <1>2, <1>3

LEMMA StripLeft ==
  ASSUME NEW t \in Seq(Piece), NEW P, Meaning(P, t),
         NEW k \in Kind, NEW i \in 1 .. Len(t) + 1, NEW j \in 0 .. Len(t),
         NEW a \in i .. Len(t) + 1, Blank(t, i, a - 1)
  PROVE  At(P, k, i, j) = At(P, k, a, j)
<1>0. Len(t) \in Nat /\ i \in Nat /\ a \in Nat
  OBVIOUS
<1> DEFINE T == {n \in Nat : i + n <= a => At(P, k, i, j) = At(P, k, i + n, j)}
<1>1. 0 \in T
  BY <1>0
<1>2. ASSUME NEW n \in Nat, n \in T PROVE n + 1 \in T
  <2> SUFFICES ASSUME i + (n + 1) <= a
               PROVE  At(P, k, i, j) = At(P, k, i + (n + 1), j)
    OBVIOUS
  <2>1. i + n \in i .. a - 1 /\ i + n \in 1 .. Len(t)
    BY <1>0
  <2>2. At(P, k, i + n, j) = At(P, k, i + n + 1, j)
    BY <2>1, StepLeft DEF Blank
  <2>3. At(P, k, i, j) = At(P, k, i + n, j)
    BY <1>0, <1>2
  <2>4. i + n + 1 = i + (n + 1)
    BY <1>0
  <2> QED
    BY <2>2, <2>3, <2>4
<1> HIDE DEF T
<1>3. a - i \in T
  BY <1>0, <1>1, <1>2, Induction
<1>4. i + (a - i) = a
  BY <1>0
<1> QED
  BY <1>3, <1>4 DEF T

\* The first piece behind i that is not ignored.
LEMMA FirstIs ==
  ASSUME NEW t \in Seq(Piece), NEW i \in 1 .. Len(t) + 1
  PROVE  \E a \in i .. Len(t) + 1 :
            /\ Blank(t, i, a - 1)
            /\ a <= Len(t) => t[a] \notin Ignored
<1>1. Len(t) \in Nat /\ i - 1 \in 0 .. Len(t) /\ i \in Nat
  OBVIOUS
<1>2. PICK c \in i - 1 .. Len(t) :
             /\ \A x \in (i - 1) + 1 .. c : t[x] \in Ignored
             /\ c < Len(t) => t[c + 1] \notin Ignored
  BY <1>1, RunEnds
<1>3. /\ (i - 1) + 1 = i /\ c + 1 \in i .. Len(t) + 1 /\ (c + 1) - 1 = c
      /\ c + 1 <= Len(t) => c < Len(t)
  BY <1>1
<1> QED
  BY <1>2, <1>3 DEF Blank

LEMMA StepRight ==
  ASSUME NEW t \in Seq(Piece), NEW P, Meaning(P, t),
         NEW k \in Kind, NEW i \in 1 .. Len(t) + 1, NEW j \in 1 .. Len(t),
         t[j] \in Ignored
  PROVE  At(P, k, i, j) = At(P, k, i, j - 1)
<1>0. Len(t) \in Nat /\ j \in 0 .. Len(t) /\ j - 1 \in 0 .. Len(t)
  OBVIOUS
<1>1. PICK a \in i .. Len(t) + 1 : /\ Blank(t, i, a - 1)
                                   /\ a <= Len(t) => t[a] \notin Ignored
  BY FirstIs
<1>2. a \in 1 .. Len(t) + 1
  BY <1>0
<1>3. /\ At(P, k, i, j) = At(P, k, a, j)
      /\ At(P, k, i, j - 1) = At(P, k, a, j - 1)
  BY <1>0, <1>1, StripLeft
<1>4. CASE a >= j
  <2>1. a > j
    <3>1. CASE a <= Len(t)
      BY <1>0, <1>1, <1>4, <3>1
    <3>2. CASE ~ (a <= Len(t))
      BY <1>0, <3>2
    <3> QED
      BY <3>1, <3>2
  <2>2. a > j - 1
    BY <1>0, <2>1
  <2> QED
    BY <1>0, <1>2, <1>3, <2>1, <2>2, NoReading
<1>5. CASE a < j
  <2>1. a <= j /\ t[a] \notin Ignored
    BY <1>0, <1>1, <1>5
  <2>2. \A S : Reads(P, t, k, a, j, S) <=> S \in At(P, k, a, j - 1)
    BY <2>1, Zenon DEF Reads
  <2>3. \A S : S \in At(P, k, a, j) <=> S \in At(P, k, a, j - 1)
    BY <1>0, <1>2, <2>1, <2>2, MeaningIs
  <2>4. At(P, k, a, j) = At(P, k, a, j - 1)
    BY <2>3
  <2> QED
    BY <1>3, <2>4
<1>6. a >= j \/ a < j
  BY <1>0, <1>2
<1> QED
  BY <1>4, <1>5, <1>6, Zenon

LEMMA StripRight ==
  ASSUME NEW t \in Seq(Piece), NEW P, Meaning(P, t),
         NEW k \in Kind, NEW i \in 1 .. Len(t) + 1, NEW j \in 0 .. Len(t),
         NEW c \in 0 .. j, Blank(t, c + 1, j)
  PROVE  At(P, k, i, j) = At(P, k, i, c)
<1>0. Len(t) \in Nat /\ j \in Nat /\ c \in Nat
  OBVIOUS
<1> DEFINE T == {n \in Nat : c <= j - n => At(P, k, i, j) = At(P, k, i, j - n)}
<1>1. 0 \in T
  BY <1>0
<1>2. ASSUME NEW n \in Nat, n \in T PROVE n + 1 \in T
  <2> SUFFICES ASSUME c <= j - (n + 1)
               PROVE  At(P, k, i, j) = At(P, k, i, j - (n + 1))
    OBVIOUS
  <2>1. j - n \in c + 1 .. j /\ j - n \in 1 .. Len(t)
    BY <1>0
  <2>2. At(P, k, i, j - n) = At(P, k, i, (j - n) - 1)
    BY <2>1, StepRight DEF Blank
  <2>3. At(P, k, i, j) = At(P, k, i, j - n)
    BY <1>0, <1>2
  <2>4. (j - n) - 1 = j - (n + 1)
    BY <1>0
  <2> QED
    BY <2>2, <2>3, <2>4
<1> HIDE DEF T
<1>3. j - c \in T
  BY <1>0, <1>1, <1>2, Induction
<1>4. j - (j - c) = c
  BY <1>0
<1> QED
  BY <1>3, <1>4 DEF T

LEMMA PieceIs ==
  /\ \A x \in Letter : x \notin Ignored /\ x \notin Op
                         /\ x # "(" /\ x # ")" /\ x # "~"
  /\ \A x \in Op : x \notin Ignored /\ x # "(" /\ x # ")" /\ x # "~"
  /\ "(" \notin Ignored /\ ")" \notin Ignored /\ "~" \notin Ignored
  /\ "(" # ")" /\ "(" # "~" /\ ")" # "~"
BY QueryAssumption DEF Op, Ignored

LEMMA WaysAre ==
  ASSUME NEW t \in Seq(Piece), NEW P, Meaning(P, t),
         NEW k \in Kind, NEW i \in 1 .. Len(t), NEW j \in 1 .. Len(t), i <= j,
         t[i] \notin Ignored, t[j] \notin Ignored, NEW S
  PROVE  S \in At(P, k, i, j) <=> Ways(P, t, k, i, j, S)
<1>1. i \in 1 .. Len(t) + 1 /\ j \in 0 .. Len(t)
  OBVIOUS
<1>2. S \in At(P, k, i, j) <=> i <= j /\ Reads(P, t, k, i, j, S)
  BY <1>1, MeaningIs
<1> QED
  BY <1>2, Zenon DEF Reads

\* Whatever is ignored before them, a word ...
LEMMA WordReads ==
  ASSUME NEW t \in Seq(Piece), NEW P, Meaning(P, t), NEW k \in Kind,
         NEW i \in 1 .. Len(t), NEW a \in i .. Len(t), NEW j \in a .. Len(t),
         Blank(t, i, a - 1), \A x \in a .. j : t[x] \in Letter
  PROVE  Hits(SubSeq(t, a, j)) \in At(P, k, i, j)
<1>1. /\ i \in 1 .. Len(t) + 1 /\ a \in i .. Len(t) + 1
      /\ j \in 0 .. Len(t) /\ j \in 1 .. Len(t) /\ a \in 1 .. Len(t)
      /\ a \in a .. j /\ j \in a .. j /\ a <= j
  OBVIOUS
<1>2. t[a] \notin Ignored /\ t[j] \notin Ignored
  BY <1>1, PieceIs
<1>3. Ways(P, t, k, a, j, Hits(SubSeq(t, a, j)))
  BY Zenon DEF Ways
<1>4. At(P, k, i, j) = At(P, k, a, j)
  BY <1>1, StripLeft
<1> QED
  BY <1>1, <1>2, <1>3, <1>4, WaysAre

\* ... a query in parentheses, ...
LEMMA ParensRead ==
  ASSUME NEW t \in Seq(Piece), NEW P, Meaning(P, t), NEW k \in Kind,
         NEW i \in 1 .. Len(t), NEW a \in i .. Len(t), NEW j \in a .. Len(t),
         Blank(t, i, a - 1), t[a] = "(", t[j] = ")",
         NEW S \in At(P, "query", a + 1, j - 1)
  PROVE  S \in At(P, k, i, j)
<1>1. /\ i \in 1 .. Len(t) + 1 /\ a \in i .. Len(t) + 1
      /\ j \in 0 .. Len(t) /\ j \in 1 .. Len(t) /\ a \in 1 .. Len(t)
      /\ a <= j
  OBVIOUS
<1>2. t[a] \notin Ignored /\ t[j] \notin Ignored
  BY PieceIs
<1>3. Ways(P, t, k, a, j, S)
  BY Zenon DEF Ways
<1>4. At(P, k, i, j) = At(P, k, a, j)
  BY <1>1, StripLeft
<1> QED
  BY <1>1, <1>2, <1>3, <1>4, WaysAre

\* ... and a term behind "~" read as they are.
LEMMA ComplementReads ==
  ASSUME NEW t \in Seq(Piece), NEW P, Meaning(P, t), NEW k \in Kind,
         NEW i \in 1 .. Len(t), NEW a \in i .. Len(t), NEW j \in a .. Len(t),
         Blank(t, i, a - 1), t[a] = "~", t[j] \notin Ignored,
         NEW R \in At(P, "term", a + 1, j)
  PROVE  Node \ R \in At(P, k, i, j)
<1>1. /\ i \in 1 .. Len(t) + 1 /\ a \in i .. Len(t) + 1
      /\ j \in 0 .. Len(t) /\ j \in 1 .. Len(t) /\ a \in 1 .. Len(t)
      /\ a <= j
  OBVIOUS
<1>2. t[a] \notin Ignored
  BY PieceIs
<1>3. Ways(P, t, k, a, j, Node \ R)
  BY Zenon DEF Ways
<1>4. At(P, k, i, j) = At(P, k, a, j)
  BY <1>1, StripLeft
<1> QED
  BY <1>1, <1>2, <1>3, <1>4, WaysAre

LEMMA FirstBefore ==
  ASSUME NEW t \in Seq(Piece), NEW i \in 1 .. Len(t), NEW x \in i .. Len(t),
         t[x] \notin Ignored
  PROVE  \E a \in i .. x : Blank(t, i, a - 1) /\ t[a] \notin Ignored
<1>0. Len(t) \in Nat /\ i \in 1 .. Len(t) + 1 /\ x \in Nat
  OBVIOUS
<1>1. PICK a \in i .. Len(t) + 1 : /\ Blank(t, i, a - 1)
                                   /\ a <= Len(t) => t[a] \notin Ignored
  BY <1>0, FirstIs
<1>2. ~ (x \in i .. a - 1)
  BY <1>1 DEF Blank
<1>3. a <= x
  BY <1>0, <1>2
<1> QED
  BY <1>0, <1>1, <1>3

\* Two terms with an operator between them are a query.
LEMMA JoinReads ==
  ASSUME NEW t \in Seq(Piece), NEW P, Meaning(P, t),
         NEW i \in 1 .. Len(t), NEW x \in i .. Len(t), NEW j \in x .. Len(t),
         t[x] \in Op, t[j] \notin Ignored,
         NEW l \in At(P, "query", i, x - 1), NEW r \in At(P, "term", x + 1, j)
  PROVE  Joined(t[x], l, r) \in At(P, "query", i, j)
<1>0. /\ Len(t) \in Nat /\ i \in 1 .. Len(t) + 1 /\ x \in Nat
      /\ j \in 0 .. Len(t) /\ j \in 1 .. Len(t) /\ x - 1 \in 0 .. Len(t)
      /\ "query" \in Kind
  BY DEF Kind
<1>1. PICK a \in i .. x : Blank(t, i, a - 1) /\ t[a] \notin Ignored
  BY PieceIs, FirstBefore
<1>2. /\ a \in i .. Len(t) + 1 /\ a \in 1 .. Len(t) /\ a <= j
      /\ x \in a .. j
  BY <1>0
<1>3. /\ At(P, "query", i, j) = At(P, "query", a, j)
      /\ At(P, "query", i, x - 1) = At(P, "query", a, x - 1)
  BY <1>0, <1>1, <1>2, StripLeft
<1>4. l \in At(P, "query", a, x - 1)
  BY <1>3
<1>5. Ways(P, t, "query", a, j, Joined(t[x], l, r))
  BY <1>2, <1>4, Zenon DEF Ways
<1> QED
  BY <1>0, <1>1, <1>2, <1>3, <1>5, WaysAre

\* A term is a query.
LEMMA TermReads ==
  ASSUME NEW t \in Seq(Piece), NEW P, Meaning(P, t),
         NEW i \in 1 .. Len(t), NEW j \in i .. Len(t), t[j] \notin Ignored,
         NEW S \in At(P, "term", i, j)
  PROVE  S \in At(P, "query", i, j)
<1>0. /\ Len(t) \in Nat /\ i \in 1 .. Len(t) + 1 /\ j \in Nat
      /\ j \in 0 .. Len(t) /\ j \in 1 .. Len(t)
      /\ "query" \in Kind /\ "term" \in Kind /\ "query" # "term"
  BY DEF Kind
<1>1. PICK a \in i .. j : Blank(t, i, a - 1) /\ t[a] \notin Ignored
  BY FirstBefore
<1>2. a \in i .. Len(t) + 1 /\ a \in 1 .. Len(t) /\ a <= j
  BY <1>0
<1>3. /\ At(P, "query", i, j) = At(P, "query", a, j)
      /\ At(P, "term", i, j) = At(P, "term", a, j)
  BY <1>0, <1>1, <1>2, StripLeft
<1>4. Ways(P, t, "term", a, j, S)
  BY <1>0, <1>1, <1>2, <1>3, WaysAre
<1>5. Ways(P, t, "query", a, j, S)
  BY <1>0, <1>4, Zenon DEF Ways
<1> QED
  BY <1>0, <1>1, <1>2, <1>3, <1>5, WaysAre

-----------------------------------------------------------------------------
(* What a text must be like to be read at all, and that it is read in one   *)
(* way.                                                                    *)

Opening == Letter \cup {"(", "~"}
Closing == Letter \cup {")"}

\* How many parentheses are open behind each piece.
Step(p) == IF p = "(" THEN 1 ELSE IF p = ")" THEN -1 ELSE 0

Depth(d, t) ==
  /\ d \in [0 .. Len(t) -> Int]
  /\ d[0] = 0
  /\ \A x \in 1 .. Len(t) : d[x] = d[x - 1] + Step(t[x])

\* What may follow what, whatever is ignored between the two.
Legal(t, x, y) ==
  \/ t[x] \in Closing /\ t[y] \in Op \cup {")"}
  \/ t[x] \in Op \cup {"(", "~"} /\ t[y] \in Opening
  \/ t[x] \in Letter /\ t[y] \in Letter /\ y = x + 1

Neighbours(t, i, j) ==
  \A x, y \in i .. j :
    /\ x < y /\ t[x] \notin Ignored /\ t[y] \notin Ignored
    /\ Blank(t, x + 1, y - 1)
    => Legal(t, x, y)

First(t, i, a) == Blank(t, i, a - 1) /\ t[a] \in Opening
Last(t, z, j) == Blank(t, z + 1, j) /\ t[z] \in Closing

Balanced(d, i, j) ==
  d[j] = d[i - 1] /\ \A x \in i .. j : d[i - 1] <= d[x]

Shape(t, d, i, j) ==
  /\ \E a \in i .. j : First(t, i, a)
  /\ \E z \in i .. j : Last(t, z, j)
  /\ Neighbours(t, i, j)
  /\ Balanced(d, i, j)

\* The operators of a term are in parentheses.
Inside(t, d, i, j) == \A x \in i .. j : t[x] \in Op => d[i - 1] < d[x]

LEMMA DepthExists ==
  ASSUME NEW t \in Seq(Piece)
  PROVE  \E d : Depth(d, t)
<1>1. Len(t) \in Nat
  OBVIOUS
<1> DEFINE S == 0 .. Len(t)
           m == [x \in S |-> x]
           Body(x, d) == IF x = 0 THEN 0 ELSE d[x - 1] + Step(t[x])
           D == [p \in S \X [S -> Int] |-> Body(p[1], p[2])]
<1>2. m \in [S -> 0 .. Len(t)] /\ Int # {}
  <2>1. m \in [S -> 0 .. Len(t)]
    OBVIOUS
  <2>2. 0 \in Int
    OBVIOUS
  <2> QED
    BY <2>1, <2>2
<1>3. \A x \in S, d \in [S -> Int] : Body(x, d) \in Int
  <2> SUFFICES ASSUME NEW x \in S, NEW d \in [S -> Int], x # 0
               PROVE  d[x - 1] + Step(t[x]) \in Int
    OBVIOUS
  <2>1. x - 1 \in S
    BY <1>1
  <2>2. d[x - 1] \in Int /\ Step(t[x]) \in Int
    BY <2>1 DEF Step
  <2> QED
    BY <2>2
<1>4. \A x \in S, d \in [S -> Int] : D[<<x, d>>] = Body(x, d)
  OBVIOUS
<1>5. D \in [S \X [S -> Int] -> Int]
  BY <1>3
<1>6. ASSUME NEW x \in S, NEW f \in [S -> Int], NEW g \in [S -> Int],
             \A y \in S : m[y] < m[x] => f[y] = g[y]
      PROVE  Body(x, f) = Body(x, g)
  <2>1. CASE x # 0
    <3>1. x - 1 \in S /\ m[x - 1] < m[x]
      BY <1>1, <2>1
    <3> QED
      BY <1>6, <3>1
  <2> QED
    BY <2>1
<1>7. \A x \in S, f, g \in [S -> Int] :
        (\A y \in S : m[y] < m[x] => f[y] = g[y])
          => D[<<x, f>>] = D[<<x, g>>]
  <2> SUFFICES ASSUME NEW x \in S, NEW f \in [S -> Int], NEW g \in [S -> Int],
                      \A y \in S : m[y] < m[x] => f[y] = g[y]
               PROVE  D[<<x, f>>] = D[<<x, g>>]
    OBVIOUS
  <2>1. Body(x, f) = Body(x, g)
    BY <1>6
  <2> HIDE DEF D, Body
  <2> QED
    BY <1>4, <2>1
<1> HIDE DEF D, m, S
<1>8. PICK d \in [S -> Int] : \A x \in S : d[x] = D[<<x, d>>]
  <2>1. Recursion(S, Int, Len(t), m, D)
    BY <1>1, <1>2, <1>5, <1>7 DEF Recursion
  <2> QED
    BY <2>1, RecursionExists
<1>9. \A x \in S : d[x] = Body(x, d)
  BY <1>4, <1>8
<1>10. \A x \in 1 .. Len(t) : x \in S /\ x # 0
  BY <1>1 DEF S
<1>11. 0 \in S
  BY <1>1 DEF S
<1> QED
  BY <1>8, <1>9, <1>10, <1>11 DEF Depth, S

LEMMA DepthIs ==
  ASSUME NEW t \in Seq(Piece), NEW d, Depth(d, t), NEW x \in 1 .. Len(t)
  PROVE  /\ d[x] \in Int /\ d[x - 1] \in Int
         /\ t[x] = "(" => d[x] = d[x - 1] + 1
         /\ t[x] = ")" => d[x] = d[x - 1] - 1
         /\ t[x] # "(" /\ t[x] # ")" => d[x] = d[x - 1]
<1>1. x \in 0 .. Len(t) /\ x - 1 \in 0 .. Len(t)
  OBVIOUS
<1>2. d[x] \in Int /\ d[x - 1] \in Int
  BY <1>1 DEF Depth
<1>3. d[x] = d[x - 1] + Step(t[x])
  BY DEF Depth
<1> QED
  BY <1>2, <1>3, PieceIs DEF Step

LEMMA ShapeLeft ==
  ASSUME NEW t \in Seq(Piece), NEW d, Depth(d, t),
         NEW i \in 1 .. Len(t), NEW j \in i + 1 .. Len(t),
         t[i] \in Ignored, Shape(t, d, i + 1, j)
  PROVE  Shape(t, d, i, j) /\ (Inside(t, d, i + 1, j) => Inside(t, d, i, j))
<1>0. Len(t) \in Nat /\ i \in Nat /\ j \in Nat /\ i < j /\ (i + 1) - 1 = i
  OBVIOUS
<1>1. t[i] # "(" /\ t[i] # ")" /\ t[i] \notin Op
  BY PieceIs
<1>2. d[i] = d[i - 1] /\ d[i] \in Int
  BY <1>1, DepthIs
<1>3. \A x \in i .. j : x = i \/ x \in i + 1 .. j
  BY <1>0
<1>4. \E a \in i .. j : First(t, i, a)
  <2>1. PICK a \in i + 1 .. j : First(t, i + 1, a)
    BY DEF Shape
  <2>2. a \in i .. j
    BY <1>0
  <2>3. Blank(t, i, a - 1)
    <3> SUFFICES ASSUME NEW x \in i .. a - 1 PROVE t[x] \in Ignored
      BY DEF Blank
    <3>1. x = i \/ x \in i + 1 .. a - 1
      BY <1>0
    <3> QED
      BY <2>1, <3>1 DEF First, Blank
  <2> QED
    BY <2>1, <2>2, <2>3 DEF First
<1>5. \E z \in i .. j : Last(t, z, j)
  <2>1. PICK z \in i + 1 .. j : Last(t, z, j)
    BY DEF Shape
  <2>2. z \in i .. j
    BY <1>0
  <2> QED
    BY <2>1, <2>2
<1>6. Neighbours(t, i, j)
  <2> SUFFICES ASSUME NEW x \in i .. j, NEW y \in i .. j, x < y,
                      t[x] \notin Ignored, t[y] \notin Ignored,
                      Blank(t, x + 1, y - 1)
               PROVE  Legal(t, x, y)
    BY DEF Neighbours
  <2>1. x \in i + 1 .. j /\ y \in i + 1 .. j
    BY <1>0, <1>3
  <2> QED
    BY <2>1 DEF Shape, Neighbours
<1>7. Balanced(d, i, j)
  <2>1. d[j] = d[i] /\ \A x \in i + 1 .. j : d[i] <= d[x]
    BY <1>0 DEF Shape, Balanced
  <2> QED
    BY <1>2, <1>3, <2>1 DEF Balanced
<1>8. Inside(t, d, i + 1, j) => Inside(t, d, i, j)
  BY <1>0, <1>1, <1>2, <1>3 DEF Inside
<1> QED
  BY <1>4, <1>5, <1>6, <1>7, <1>8 DEF Shape

LEMMA ShapeRight ==
  ASSUME NEW t \in Seq(Piece), NEW d, Depth(d, t),
         NEW j \in 1 .. Len(t), NEW i \in 1 .. j - 1,
         t[j] \in Ignored, Shape(t, d, i, j - 1)
  PROVE  Shape(t, d, i, j) /\ (Inside(t, d, i, j - 1) => Inside(t, d, i, j))
<1>0. Len(t) \in Nat /\ i \in Nat /\ j \in Nat /\ i < j
  OBVIOUS
<1>1. t[j] # "(" /\ t[j] # ")" /\ t[j] \notin Op
  BY PieceIs
<1>2. d[j] = d[j - 1] /\ d[j] \in Int
  BY <1>1, DepthIs
<1>3. \A x \in i .. j : x = j \/ x \in i .. j - 1
  BY <1>0
<1>4. \E a \in i .. j : First(t, i, a)
  <2>1. PICK a \in i .. j - 1 : First(t, i, a)
    BY DEF Shape
  <2>2. a \in i .. j
    BY <1>0
  <2> QED
    BY <2>1, <2>2
<1>5. \E z \in i .. j : Last(t, z, j)
  <2>1. PICK z \in i .. j - 1 : Last(t, z, j - 1)
    BY DEF Shape
  <2>2. z \in i .. j
    BY <1>0
  <2>3. Blank(t, z + 1, j)
    <3> SUFFICES ASSUME NEW x \in z + 1 .. j PROVE t[x] \in Ignored
      BY DEF Blank
    <3>1. x = j \/ x \in z + 1 .. j - 1
      BY <1>0
    <3> QED
      BY <2>1, <3>1 DEF Last, Blank
  <2> QED
    BY <2>1, <2>2, <2>3 DEF Last
<1>6. Neighbours(t, i, j)
  <2> SUFFICES ASSUME NEW x \in i .. j, NEW y \in i .. j, x < y,
                      t[x] \notin Ignored, t[y] \notin Ignored,
                      Blank(t, x + 1, y - 1)
               PROVE  Legal(t, x, y)
    BY DEF Neighbours
  <2>1. x \in i .. j - 1 /\ y \in i .. j - 1
    BY <1>0, <1>3
  <2> QED
    BY <2>1 DEF Shape, Neighbours
<1>7. Balanced(d, i, j)
  <2>1. d[j - 1] = d[i - 1] /\ \A x \in i .. j - 1 : d[i - 1] <= d[x]
    BY <1>0 DEF Shape, Balanced
  <2> QED
    BY <1>2, <1>3, <2>1 DEF Balanced
<1>8. Inside(t, d, i, j - 1) => Inside(t, d, i, j)
  BY <1>0, <1>1, <1>2, <1>3 DEF Inside
<1> QED
  BY <1>4, <1>5, <1>6, <1>7, <1>8 DEF Shape

LEMMA NeighboursAfter ==
  ASSUME NEW t \in Seq(Piece),
         NEW i \in 1 .. Len(t), NEW j \in i + 1 .. Len(t),
         Neighbours(t, i + 1, j), NEW a \in i + 1 .. j,
         Blank(t, i + 1, a - 1), t[a] \notin Ignored, Legal(t, i, a)
  PROVE  Neighbours(t, i, j)
<1>0. Len(t) \in Nat /\ i \in Nat /\ j \in Nat /\ a \in Nat
  OBVIOUS
<1> SUFFICES ASSUME NEW x \in i .. j, NEW y \in i .. j, x < y,
                    t[x] \notin Ignored, t[y] \notin Ignored,
                    Blank(t, x + 1, y - 1)
             PROVE  Legal(t, x, y)
  BY DEF Neighbours
<1>1. CASE x = i
  <2>1. ~ (y \in i + 1 .. a - 1)
    BY DEF Blank
  <2>2. ~ (a \in x + 1 .. y - 1)
    BY DEF Blank
  <2>3. y = a
    BY <1>0, <1>1, <2>1, <2>2
  <2> QED
    BY <1>1, <2>3
<1>2. CASE x # i
  <2>1. x \in i + 1 .. j /\ y \in i + 1 .. j
    BY <1>0, <1>2
  <2> QED
    BY <2>1 DEF Neighbours
<1> QED
  BY <1>1, <1>2

LEMMA NeighboursBefore ==
  ASSUME NEW t \in Seq(Piece), NEW j \in 1 .. Len(t), NEW i \in 1 .. j - 1,
         Neighbours(t, i, j - 1), NEW z \in i .. j - 1,
         Blank(t, z + 1, j - 1), t[z] \notin Ignored, Legal(t, z, j)
  PROVE  Neighbours(t, i, j)
<1>0. Len(t) \in Nat /\ i \in Nat /\ j \in Nat /\ z \in Nat
  OBVIOUS
<1> SUFFICES ASSUME NEW x \in i .. j, NEW y \in i .. j, x < y,
                    t[x] \notin Ignored, t[y] \notin Ignored,
                    Blank(t, x + 1, y - 1)
             PROVE  Legal(t, x, y)
  BY DEF Neighbours
<1>1. CASE y = j
  <2>1. ~ (x \in z + 1 .. j - 1)
    BY DEF Blank
  <2>2. ~ (z \in x + 1 .. y - 1)
    BY DEF Blank
  <2>3. x = z
    BY <1>0, <1>1, <2>1, <2>2
  <2> QED
    BY <1>1, <2>3
<1>2. CASE y # j
  <2>1. x \in i .. j - 1 /\ y \in i .. j - 1
    BY <1>0, <1>2
  <2> QED
    BY <2>1 DEF Neighbours
<1> QED
  BY <1>1, <1>2

LEMMA NeighboursGlued ==
  ASSUME NEW t \in Seq(Piece), NEW i \in 1 .. Len(t),
         NEW p \in i .. Len(t), NEW j \in p .. Len(t),
         Neighbours(t, i, p), Neighbours(t, p, j), t[p] \notin Ignored
  PROVE  Neighbours(t, i, j)
<1>0. Len(t) \in Nat /\ i \in Nat /\ j \in Nat /\ p \in Nat
  OBVIOUS
<1> SUFFICES ASSUME NEW x \in i .. j, NEW y \in i .. j, x < y,
                    t[x] \notin Ignored, t[y] \notin Ignored,
                    Blank(t, x + 1, y - 1)
             PROVE  Legal(t, x, y)
  BY DEF Neighbours
<1>1. ~ (p \in x + 1 .. y - 1)
  BY DEF Blank
<1>2. \/ x \in i .. p /\ y \in i .. p
      \/ x \in p .. j /\ y \in p .. j
  BY <1>0, <1>1
<1> QED
  BY <1>2 DEF Neighbours

LEMMA ShapeWord ==
  ASSUME NEW t \in Seq(Piece), NEW d, Depth(d, t),
         NEW i \in 1 .. Len(t), NEW j \in i .. Len(t),
         \A x \in i .. j : t[x] \in Letter
  PROVE  Shape(t, d, i, j) /\ Inside(t, d, i, j)
<1>0. /\ Len(t) \in Nat /\ i \in Nat /\ j \in Nat
      /\ i \in i .. j /\ j \in i .. j
      /\ i - 1 \in 0 .. Len(t)
  OBVIOUS
<1>1. First(t, i, i)
  BY <1>0 DEF First, Blank, Opening
<1>2. Last(t, j, j)
  BY <1>0 DEF Last, Blank, Closing
<1>3. Neighbours(t, i, j)
  <2> SUFFICES ASSUME NEW x \in i .. j, NEW y \in i .. j, x < y,
                      Blank(t, x + 1, y - 1)
               PROVE  Legal(t, x, y)
    BY DEF Neighbours
  <2>1. CASE y = x + 1
    BY <2>1 DEF Legal
  <2>2. CASE y # x + 1
    <3>1. x + 1 \in x + 1 .. y - 1 /\ x + 1 \in i .. j
      BY <1>0, <2>2
    <3> QED
      BY <3>1, PieceIs DEF Blank
  <2> QED
    BY <2>1, <2>2
<1>4. \A x \in i .. j : d[x] = d[i - 1]
  <2> DEFINE T == {n \in Nat : i + n <= j => d[i + n] = d[i - 1]}
  <2>1. 0 \in T
    <3>1. d[i] = d[i - 1]
      BY <1>0, PieceIs, DepthIs, SMTT(30)
    <3>2. i + 0 = i
      BY <1>0
    <3> QED
      BY <3>1, <3>2
  <2>2. ASSUME NEW n \in Nat, n \in T PROVE n + 1 \in T
    <3> SUFFICES ASSUME i + (n + 1) <= j PROVE d[i + (n + 1)] = d[i - 1]
      OBVIOUS
    <3>1. i + (n + 1) \in i .. j /\ i + (n + 1) \in 1 .. Len(t)
      BY <1>0
    <3>2. (i + (n + 1)) - 1 = i + n /\ i + n <= j
      BY <1>0
    <3>3. d[i + (n + 1)] = d[(i + (n + 1)) - 1]
      BY <3>1, PieceIs, DepthIs
    <3> QED
      BY <2>2, <3>2, <3>3
  <2> HIDE DEF T
  <2>3. Nat \subseteq T
    BY <2>1, <2>2, Induction
  <2> TAKE x \in i .. j
  <2>4. x - i \in Nat /\ i + (x - i) = x
    BY <1>0
  <2>5. x - i \in T
    BY <2>3, <2>4
  <2> QED
    BY <1>0, <2>4, <2>5 DEF T
<1>5. d[i - 1] \in Int
  BY <1>0 DEF Depth
<1>6. Balanced(d, i, j)
  BY <1>0, <1>4, <1>5 DEF Balanced
<1>7. Inside(t, d, i, j)
  BY PieceIs DEF Inside
<1> QED
  BY <1>0, <1>1, <1>2, <1>3, <1>6, <1>7 DEF Shape

LEMMA ShapeParens ==
  ASSUME NEW t \in Seq(Piece), NEW d, Depth(d, t),
         NEW i \in 1 .. Len(t), NEW j \in i .. Len(t),
         t[i] = "(", t[j] = ")", i + 1 <= j - 1, Shape(t, d, i + 1, j - 1)
  PROVE  Shape(t, d, i, j) /\ Inside(t, d, i, j)
<1>0. /\ Len(t) \in Nat /\ i \in Nat /\ j \in Nat
      /\ i \in i .. j /\ j \in i .. j /\ j \in 1 .. Len(t)
      /\ (i + 1) - 1 = i
  OBVIOUS
<1>1. First(t, i, i)
  BY <1>0 DEF First, Blank, Opening
<1>2. Last(t, j, j)
  BY <1>0 DEF Last, Blank, Closing
<1>3. Neighbours(t, i, j)
  <2>1. PICK a \in i + 1 .. j - 1 : First(t, i + 1, a)
    BY DEF Shape
  <2>2. PICK z \in i + 1 .. j - 1 : Last(t, z, j - 1)
    BY DEF Shape
  <2>3. t[a] \notin Ignored /\ t[z] \notin Ignored
    BY <2>1, <2>2, PieceIs DEF First, Last, Opening, Closing
  <2>4. Legal(t, i, a) /\ Legal(t, z, j)
    BY <2>1, <2>2 DEF First, Last, Legal
  <2>5. j - 1 \in i + 1 .. Len(t) /\ i \in 1 .. j - 1 /\ z \in i .. j - 1
    BY <1>0, <2>1, <2>2
  <2>6. Neighbours(t, i, j - 1)
    BY <1>0, <2>1, <2>3, <2>4, <2>5, NeighboursAfter DEF Shape, First
  <2> QED
    BY <1>0, <2>2, <2>3, <2>4, <2>5, <2>6, NeighboursBefore DEF Last
<1>4. /\ d[i] = d[i - 1] + 1 /\ d[j] = d[j - 1] - 1
      /\ d[i - 1] \in Int /\ d[j - 1] \in Int
  BY <1>0, DepthIs
<1>5. d[j - 1] = d[i] /\ \A x \in i + 1 .. j - 1 : d[i] <= d[x]
  BY <1>0 DEF Shape, Balanced
<1>6. \A x \in i .. j : x = i \/ x = j \/ x \in i + 1 .. j - 1
  BY <1>0
<1>7. \A x \in i .. j : d[x] \in Int
  <2> TAKE x \in i .. j
  <2>1. x \in 0 .. Len(t)
    BY <1>0
  <2> QED
    BY <2>1 DEF Depth
<1>8. Balanced(d, i, j)
  <2> SUFFICES ASSUME NEW x \in i .. j PROVE d[i - 1] <= d[x]
    BY <1>4, <1>5 DEF Balanced
  <2> QED
    BY <1>4, <1>5, <1>6, <1>7
<1>9. Inside(t, d, i, j)
  <2> SUFFICES ASSUME NEW x \in i .. j, t[x] \in Op PROVE d[i - 1] < d[x]
    BY DEF Inside
  <2>1. x \in i + 1 .. j - 1
    BY <1>6, PieceIs
  <2> QED
    BY <1>4, <1>5, <1>7, <2>1
<1> QED
  BY <1>0, <1>1, <1>2, <1>3, <1>8, <1>9 DEF Shape

LEMMA ShapeComplement ==
  ASSUME NEW t \in Seq(Piece), NEW d, Depth(d, t),
         NEW i \in 1 .. Len(t), NEW j \in i + 1 .. Len(t),
         t[i] = "~", Shape(t, d, i + 1, j), Inside(t, d, i + 1, j)
  PROVE  Shape(t, d, i, j) /\ Inside(t, d, i, j)
<1>0. /\ Len(t) \in Nat /\ i \in Nat /\ j \in Nat
      /\ i \in i .. j /\ j \in i .. j /\ j \in 1 .. Len(t)
      /\ (i + 1) - 1 = i
  OBVIOUS
<1>1. First(t, i, i)
  BY <1>0 DEF First, Blank, Opening
<1>2. \E z \in i .. j : Last(t, z, j)
  <2>1. PICK z \in i + 1 .. j : Last(t, z, j)
    BY DEF Shape
  <2>2. z \in i .. j
    BY <1>0
  <2> QED
    BY <2>1, <2>2
<1>3. Neighbours(t, i, j)
  <2>1. PICK a \in i + 1 .. j : First(t, i + 1, a)
    BY DEF Shape
  <2>3. t[a] \notin Ignored
    BY <2>1, PieceIs DEF First, Opening
  <2>4. Legal(t, i, a)
    BY <2>1 DEF First, Legal
  <2> QED
    BY <1>0, <2>1, <2>3, <2>4, NeighboursAfter DEF Shape, First
<1>4. d[i] = d[i - 1] /\ d[i] \in Int /\ t[i] \notin Op
  BY <1>0, PieceIs, DepthIs
<1>5. d[j] = d[i] /\ \A x \in i + 1 .. j : d[i] <= d[x]
  BY <1>0 DEF Shape, Balanced
<1>6. \A x \in i .. j : x = i \/ x \in i + 1 .. j
  BY <1>0
<1>8. Balanced(d, i, j)
  BY <1>4, <1>5, <1>6 DEF Balanced
<1>9. Inside(t, d, i, j)
  BY <1>0, <1>4, <1>6 DEF Inside
<1> QED
  BY <1>0, <1>1, <1>2, <1>3, <1>8, <1>9 DEF Shape

LEMMA ShapeJoined ==
  ASSUME NEW t \in Seq(Piece), NEW d, Depth(d, t),
         NEW i \in 1 .. Len(t), NEW j \in i .. Len(t),
         NEW p \in i + 1 .. j - 1,
         t[p] \in Op, Shape(t, d, i, p - 1), Shape(t, d, p + 1, j)
  PROVE  Shape(t, d, i, j)
<1>0. /\ Len(t) \in Nat /\ i \in Nat /\ j \in Nat /\ p \in Nat
      /\ p \in i .. j /\ p \in 1 .. Len(t) /\ p \in i .. Len(t)
      /\ j \in p .. Len(t) /\ j \in p + 1 .. Len(t) /\ i \in 1 .. p - 1
      /\ (p + 1) - 1 = p
  OBVIOUS
<1>1. \E a \in i .. j : First(t, i, a)
  <2>1. PICK a \in i .. p - 1 : First(t, i, a)
    BY DEF Shape
  <2>2. a \in i .. j
    BY <1>0
  <2> QED
    BY <2>1, <2>2
<1>2. \E z \in i .. j : Last(t, z, j)
  <2>1. PICK z \in p + 1 .. j : Last(t, z, j)
    BY DEF Shape
  <2>2. z \in i .. j
    BY <1>0
  <2> QED
    BY <2>1, <2>2
<1>3. Neighbours(t, i, j)
  <2>1. PICK a \in p + 1 .. j : First(t, p + 1, a)
    BY DEF Shape
  <2>2. PICK z \in i .. p - 1 : Last(t, z, p - 1)
    BY DEF Shape
  <2>3. t[a] \notin Ignored /\ t[z] \notin Ignored /\ t[p] \notin Ignored
    BY <2>1, <2>2, PieceIs DEF First, Last, Opening, Closing
  <2>4. Legal(t, p, a) /\ Legal(t, z, p)
    BY <2>1, <2>2 DEF First, Last, Legal
  <2>5. Neighbours(t, p, j)
    BY <1>0, <2>1, <2>3, <2>4, NeighboursAfter DEF Shape, First
  <2>6. Neighbours(t, i, p)
    BY <1>0, <2>2, <2>3, <2>4, NeighboursBefore DEF Shape, Last
  <2> QED
    BY <1>0, <2>3, <2>5, <2>6, NeighboursGlued
<1>4. d[p] = d[p - 1] /\ d[p] \in Int
  BY <1>0, PieceIs, DepthIs
<1>5. d[j] = d[p] /\ \A x \in p + 1 .. j : d[p] <= d[x]
  BY <1>0 DEF Shape, Balanced
<1>6. d[p - 1] = d[i - 1] /\ \A x \in i .. p - 1 : d[i - 1] <= d[x]
  BY <1>0 DEF Shape, Balanced
<1>7. \A x \in i .. j : x = p \/ x \in i .. p - 1 \/ x \in p + 1 .. j
  BY <1>0
<1>8. Balanced(d, i, j)
  <2> SUFFICES ASSUME NEW x \in i .. j PROVE d[i - 1] <= d[x]
    BY <1>4, <1>5, <1>6 DEF Balanced
  <2> QED
    BY <1>4, <1>5, <1>6, <1>7
<1> QED
  BY <1>1, <1>2, <1>3, <1>8 DEF Shape

\* Pieces that can be read are well formed.
LEMMA ReadingShapes ==
  ASSUME NEW t \in Seq(Piece), NEW P, Meaning(P, t), NEW d, Depth(d, t)
  PROVE  \A k \in Kind, i \in 1 .. Len(t) + 1, j \in 0 .. Len(t) :
           At(P, k, i, j) # {} =>
             Shape(t, d, i, j) /\ (k = "term" => Inside(t, d, i, j))
<1> DEFINE Good(k, i, j) ==
             At(P, k, i, j) # {} =>
               Shape(t, d, i, j) /\ (k = "term" => Inside(t, d, i, j))
           T == {n \in Nat :
                   \A k \in Kind, i \in 1 .. Len(t) + 1, j \in 0 .. Len(t) :
                     Span(i, j) < n => Good(k, i, j)}
<1>1. 0 \in T
  <2> SUFFICES ASSUME NEW i \in 1 .. Len(t) + 1, NEW j \in 0 .. Len(t)
               PROVE  ~ (Span(i, j) < 0)
    OBVIOUS
  <2> QED
    BY DEF Span
<1>2. ASSUME NEW n \in Nat, n \in T PROVE n + 1 \in T
  <2> SUFFICES ASSUME NEW k \in Kind, NEW i \in 1 .. Len(t) + 1,
                      NEW j \in 0 .. Len(t),
                      Span(i, j) < n + 1, At(P, k, i, j) # {}
               PROVE  Shape(t, d, i, j) /\ (k = "term" => Inside(t, d, i, j))
    OBVIOUS
  <2>0. Len(t) \in Nat /\ i \in Nat /\ j \in Nat /\ Span(i, j) \in Nat
    BY DEF Span
  <2>1. \A h \in Kind, a \in 1 .. Len(t) + 1, c \in 0 .. Len(t) :
          Span(a, c) < Span(i, j) => Good(h, a, c)
    <3> TAKE h \in Kind, a \in 1 .. Len(t) + 1, c \in 0 .. Len(t)
    <3>1. Span(a, c) < Span(i, j) => Span(a, c) < n
      BY <2>0 DEF Span
    <3> HIDE DEF Good
    <3> QED
      BY <1>2, <3>1
  <2>2. PICK S : S \in At(P, k, i, j)
    OBVIOUS
  <2>3. i <= j /\ Reads(P, t, k, i, j, S)
    BY <2>2, MeaningIs
  <2>4. /\ i \in 1 .. Len(t) /\ j \in 1 .. Len(t) /\ j \in i .. Len(t)
        /\ i + 1 \in 1 .. Len(t) + 1 /\ j - 1 \in 0 .. Len(t)
        /\ Span(i + 1, j) < Span(i, j) /\ Span(i, j - 1) < Span(i, j)
        /\ Span(i + 1, j - 1) < Span(i, j)
        /\ "query" \in Kind /\ "term" \in Kind
    BY <2>0, <2>3, Shorter DEF Kind
  <2>5. \A h \in Kind, a \in 1 .. Len(t) + 1, c \in 0 .. Len(t) : \A R :
          R \in At(P, h, a, c) => a <= c
    BY MeaningIs
  <2>6. CASE t[i] \in Ignored /\ S \in At(P, k, i + 1, j)
    <3>1. i + 1 <= j
      BY <2>4, <2>5, <2>6
    <3>2. Good(k, i + 1, j)
      BY <2>1, <2>4
    <3>3. Shape(t, d, i + 1, j) /\ (k = "term" => Inside(t, d, i + 1, j))
      BY <2>6, <3>2
    <3>4. j \in i + 1 .. Len(t)
      BY <2>0, <2>4, <3>1
    <3> QED
      BY <2>4, <2>6, <3>3, <3>4, ShapeLeft
  <2>7. CASE t[j] \in Ignored /\ S \in At(P, k, i, j - 1)
    <3>1. i <= j - 1
      BY <2>4, <2>5, <2>7
    <3>2. Good(k, i, j - 1)
      BY <2>1, <2>4
    <3>3. Shape(t, d, i, j - 1) /\ (k = "term" => Inside(t, d, i, j - 1))
      BY <2>7, <3>2
    <3>4. i \in 1 .. j - 1
      BY <2>0, <2>4, <3>1
    <3> QED
      BY <2>4, <2>7, <3>3, <3>4, ShapeRight
  <2>8. CASE \A x \in i .. j : t[x] \in Letter
    BY <2>4, <2>8, ShapeWord
  <2>9. CASE t[i] = "(" /\ t[j] = ")" /\ S \in At(P, "query", i + 1, j - 1)
    <3>1. i + 1 <= j - 1
      BY <2>4, <2>5, <2>9
    <3>2. Good("query", i + 1, j - 1)
      BY <2>1, <2>4
    <3>3. Shape(t, d, i + 1, j - 1)
      BY <2>9, <3>2
    <3> QED
      BY <2>4, <2>9, <3>1, <3>3, ShapeParens
  <2>10. CASE t[i] = "~" /\ At(P, "term", i + 1, j) # {}
    <3>1. i + 1 <= j
      BY <2>4, <2>5, <2>10
    <3>2. Good("term", i + 1, j)
      BY <2>1, <2>4
    <3>3. Shape(t, d, i + 1, j) /\ Inside(t, d, i + 1, j)
      BY <2>10, <3>2
    <3>4. j \in i + 1 .. Len(t)
      BY <2>0, <2>4, <3>1
    <3> QED
      BY <2>4, <2>10, <3>3, <3>4, ShapeComplement
  <2>11. CASE /\ k = "query"
              /\ \E x \in i .. j :
                   /\ t[x] \in Op
                   /\ At(P, "query", i, x - 1) # {}
                   /\ At(P, "term", x + 1, j) # {}
    <3>1. PICK x \in i .. j :
                   /\ t[x] \in Op
                   /\ At(P, "query", i, x - 1) # {}
                   /\ At(P, "term", x + 1, j) # {}
      BY <2>11
    <3>2. /\ x - 1 \in 0 .. Len(t) /\ x + 1 \in 1 .. Len(t) + 1
          /\ Span(i, x - 1) < Span(i, j) /\ Span(x + 1, j) < Span(i, j)
      BY <2>3, Shorter
    <3>3. i <= x - 1 /\ x + 1 <= j
      BY <2>4, <2>5, <3>1, <3>2
    <3>4. Good("query", i, x - 1) /\ Good("term", x + 1, j)
      BY <2>1, <2>4, <3>2
    <3>5. Shape(t, d, i, x - 1) /\ Shape(t, d, x + 1, j)
      BY <3>1, <3>4
    <3>6. x \in i + 1 .. j - 1
      BY <2>0, <3>3
    <3>7. Shape(t, d, i, j)
      BY <2>4, <3>1, <3>5, <3>6, ShapeJoined
    <3>8. k # "term"
      BY <2>11
    <3> QED
      BY <3>7, <3>8
  <2> HIDE DEF Good, T
  <2> QED
    BY <2>3, <2>6, <2>7, <2>8, <2>9, <2>10, <2>11, Zenon DEF Reads, Ways
<1> HIDE DEF Good
<1>3. Nat \subseteq T
  <2> HIDE DEF T
  <2> QED
    BY <1>1, <1>2, Induction
<1>4. \A i \in 1 .. Len(t) + 1, j \in 0 .. Len(t) :
        Span(i, j) + 1 \in Nat /\ Span(i, j) < Span(i, j) + 1
  BY DEF Span
<1>5. \A k \in Kind, i \in 1 .. Len(t) + 1, j \in 0 .. Len(t) : Good(k, i, j)
  BY <1>3, <1>4
<1> QED
  BY <1>5 DEF Good

\* The last operator of a query that is not in parentheses is the one it is
\* split at, so that nothing is read in two ways.
LEMMA SplitIs ==
  ASSUME NEW t \in Seq(Piece), NEW d, Depth(d, t),
         NEW i \in 1 .. Len(t), NEW j \in i .. Len(t),
         NEW x \in i .. j, NEW y \in i .. j, x < y, t[y] \in Op,
         Shape(t, d, x + 1, j), Inside(t, d, x + 1, j), Shape(t, d, y + 1, j)
  PROVE  FALSE
<1>0. /\ Len(t) \in Nat /\ (x + 1) - 1 = x /\ (y + 1) - 1 = y
      /\ y \in x + 1 .. j /\ x \in 0 .. Len(t) /\ y \in 0 .. Len(t)
  OBVIOUS
<1>1. d[x] < d[y]
  BY <1>0 DEF Inside
<1>2. d[j] = d[x] /\ d[j] = d[y]
  BY <1>0 DEF Shape, Balanced
<1>3. d[x] \in Int /\ d[y] \in Int
  BY <1>0 DEF Depth
<1> QED
  BY <1>1, <1>2, <1>3

LEMMA ParensAreNoSplit ==
  ASSUME NEW t \in Seq(Piece), NEW d, Depth(d, t),
         NEW i \in 1 .. Len(t), NEW j \in i .. Len(t),
         NEW x \in i + 1 .. j - 1,
         t[i] = "(", Shape(t, d, i + 1, j - 1), Shape(t, d, i, x - 1)
  PROVE  FALSE
<1>0. /\ Len(t) \in Nat /\ (i + 1) - 1 = i
      /\ x - 1 \in 0 .. Len(t) /\ i \in 0 .. Len(t) /\ i \in 1 .. Len(t)
      /\ x - 1 = i \/ x - 1 \in i + 1 .. j - 1
  OBVIOUS
<1>1. d[x - 1] = d[i - 1]
  BY DEF Shape, Balanced
<1>2. d[i] = d[i - 1] + 1 /\ d[i] \in Int /\ d[i - 1] \in Int
  BY <1>0, DepthIs
<1>3. d[i] <= d[x - 1]
  <2>1. \A w \in i + 1 .. j - 1 : d[i] <= d[w]
    BY <1>0 DEF Shape, Balanced
  <2> QED
    BY <1>0, <1>2, <2>1
<1> QED
  BY <1>1, <1>2, <1>3

LEMMA ComplementIsNoSplit ==
  ASSUME NEW t \in Seq(Piece), NEW d, Depth(d, t),
         NEW i \in 1 .. Len(t), NEW j \in i .. Len(t), NEW x \in i + 1 .. j,
         t[i] = "~", t[x] \in Op, Inside(t, d, i + 1, j), Shape(t, d, i, x - 1)
  PROVE  FALSE
<1>0. /\ Len(t) \in Nat /\ (i + 1) - 1 = i /\ i \in 1 .. Len(t)
      /\ x \in 1 .. Len(t)
  OBVIOUS
<1>1. d[x - 1] = d[i - 1]
  BY DEF Shape, Balanced
<1>2. d[i] = d[i - 1] /\ d[i] \in Int /\ d[x] = d[x - 1] /\ d[x] \in Int
  BY <1>0, PieceIs, DepthIs, SMTT(30)
<1>3. d[i] < d[x]
  BY <1>0 DEF Inside
<1> QED
  BY <1>1, <1>2, <1>3

LEMMA ReadOnce ==
  ASSUME NEW t \in Seq(Piece), NEW P, Meaning(P, t)
  PROVE  \A k \in Kind, i \in 1 .. Len(t) + 1, j \in 0 .. Len(t) :
           \A S, R \in At(P, k, i, j) : S = R
<1> DEFINE Once(k, i, j) == \A S, R \in At(P, k, i, j) : S = R
           T == {n \in Nat :
                   \A k \in Kind, i \in 1 .. Len(t) + 1, j \in 0 .. Len(t) :
                     Span(i, j) < n => Once(k, i, j)}
<1>0. PICK d : Depth(d, t)
  BY DepthExists
<1>1. 0 \in T
  <2> SUFFICES ASSUME NEW i \in 1 .. Len(t) + 1, NEW j \in 0 .. Len(t)
               PROVE  ~ (Span(i, j) < 0)
    OBVIOUS
  <2> QED
    BY DEF Span
<1>2. ASSUME NEW n \in Nat, n \in T PROVE n + 1 \in T
  <2> SUFFICES ASSUME NEW k \in Kind, NEW i \in 1 .. Len(t) + 1,
                      NEW j \in 0 .. Len(t), Span(i, j) < n + 1,
                      NEW S \in At(P, k, i, j), NEW R \in At(P, k, i, j)
               PROVE  S = R
    OBVIOUS
  <2>0. Len(t) \in Nat /\ i \in Nat /\ j \in Nat /\ Span(i, j) \in Nat
    BY DEF Span
  <2>1. \A h \in Kind, a \in 1 .. Len(t) + 1, c \in 0 .. Len(t) :
          Span(a, c) < Span(i, j) => Once(h, a, c)
    <3> TAKE h \in Kind, a \in 1 .. Len(t) + 1, c \in 0 .. Len(t)
    <3>1. Span(a, c) < Span(i, j) => Span(a, c) < n
      BY <2>0 DEF Span
    <3> HIDE DEF Once
    <3> QED
      BY <1>2, <3>1
  <2>2. i <= j /\ Reads(P, t, k, i, j, S) /\ Reads(P, t, k, i, j, R)
    BY MeaningIs
  <2>3. /\ i \in 1 .. Len(t) /\ j \in 1 .. Len(t) /\ j \in i .. Len(t)
        /\ i + 1 \in 1 .. Len(t) + 1 /\ j - 1 \in 0 .. Len(t)
        /\ Span(i + 1, j) < Span(i, j) /\ Span(i, j - 1) < Span(i, j)
        /\ Span(i + 1, j - 1) < Span(i, j)
        /\ "query" \in Kind /\ "term" \in Kind
    BY <2>0, <2>2, Shorter DEF Kind
  <2>4. \A x \in i .. j :
          /\ x - 1 \in 0 .. Len(t) /\ x + 1 \in 1 .. Len(t) + 1
          /\ Once("query", i, x - 1) /\ Once("term", x + 1, j)
    <3> TAKE x \in i .. j
    <3>1. /\ x - 1 \in 0 .. Len(t) /\ x + 1 \in 1 .. Len(t) + 1
          /\ Span(i, x - 1) < Span(i, j) /\ Span(x + 1, j) < Span(i, j)
      BY <2>2, Shorter
    <3> HIDE DEF Once
    <3> QED
      BY <2>1, <2>3, <3>1
  <2>5. /\ Once(k, i + 1, j) /\ Once(k, i, j - 1)
        /\ Once("query", i + 1, j - 1) /\ Once("term", i + 1, j)
    <3> HIDE DEF Once
    <3> QED
      BY <2>1, <2>3
  <2>6. \A h \in Kind, a \in 1 .. Len(t) + 1, c \in 0 .. Len(t) :
          At(P, h, a, c) # {} =>
            /\ a <= c /\ Shape(t, d, a, c)
            /\ h = "term" => Inside(t, d, a, c)
    BY <1>0, MeaningIs, ReadingShapes
  <2>7. CASE t[i] \in Ignored
    <3>1. S \in At(P, k, i + 1, j) /\ R \in At(P, k, i + 1, j)
      BY <2>2, <2>7, Zenon DEF Reads
    <3> QED
      BY <2>5, <3>1
  <2>8. CASE t[i] \notin Ignored /\ t[j] \in Ignored
    <3>1. S \in At(P, k, i, j - 1) /\ R \in At(P, k, i, j - 1)
      BY <2>2, <2>8, Zenon DEF Reads
    <3> QED
      BY <2>5, <3>1
  <2>9. CASE t[i] \notin Ignored /\ t[j] \notin Ignored
    <3> DEFINE A(Q) == (\A x \in i .. j : t[x] \in Letter)
                         /\ Q = Hits(SubSeq(t, i, j))
               B(Q) == t[i] = "(" /\ t[j] = ")"
                         /\ Q \in At(P, "query", i + 1, j - 1)
               C(Q) == t[i] = "~"
                         /\ \E r \in At(P, "term", i + 1, j) : Q = Node \ r
               E(Q, x) == /\ t[x] \in Op
                          /\ \E l \in At(P, "query", i, x - 1),
                                r \in At(P, "term", x + 1, j) :
                               Q = Joined(t[x], l, r)
               D(Q) == \E x \in i .. j : E(Q, x)
    <3>1. \A Q : Ways(P, t, k, i, j, Q) => A(Q) \/ B(Q) \/ C(Q) \/ D(Q)
      BY Zenon DEF Ways
    <3>2. Ways(P, t, k, i, j, S) /\ Ways(P, t, k, i, j, R)
      BY <2>2, <2>9, Zenon DEF Reads
    <3>3. /\ A(S) \/ B(S) \/ C(S) \/ D(S)
          /\ A(R) \/ B(R) \/ C(R) \/ D(R)
      BY <3>1, <3>2
    <3>4. i \in i .. j
      BY <2>0, <2>2
    <3>5. ASSUME NEW Q, NEW x \in i .. j, E(Q, x)
          PROVE  /\ x \in i + 1 .. j - 1
                 /\ Shape(t, d, i, x - 1) /\ Shape(t, d, x + 1, j)
                 /\ Inside(t, d, x + 1, j)
      <4>1. At(P, "query", i, x - 1) # {} /\ At(P, "term", x + 1, j) # {}
        BY <3>5
      <4>2. i <= x - 1 /\ x + 1 <= j /\ Shape(t, d, i, x - 1)
              /\ Shape(t, d, x + 1, j) /\ Inside(t, d, x + 1, j)
        BY <2>3, <2>4, <2>6, <4>1
      <4> QED
        BY <2>0, <4>2
    <3>6. CASE A(S) \/ A(R)
      <4>1. /\ t[i] \in Letter /\ ~ B(S) /\ ~ B(R) /\ ~ C(S) /\ ~ C(R)
            /\ ~ D(S) /\ ~ D(R)
        BY <3>4, <3>6, PieceIs
      <4> QED
        BY <3>3, <4>1
    <3>7. ASSUME NEW Q, NEW U, B(Q), D(U) PROVE FALSE
      <4>1. PICK x \in i .. j : E(U, x)
        BY <3>7
      <4>2. i + 1 <= j - 1 /\ Shape(t, d, i + 1, j - 1)
        BY <2>3, <2>6, <3>7
      <4> HIDE DEF E
      <4>3. x \in i + 1 .. j - 1 /\ Shape(t, d, i, x - 1)
        BY <3>5, <4>1
      <4> QED
        BY <1>0, <2>3, <3>7, <4>2, <4>3, ParensAreNoSplit
    <3>8. ASSUME NEW Q, NEW U, C(Q), D(U) PROVE FALSE
      <4>1. PICK x \in i .. j : E(U, x)
        BY <3>8
      <4>2. At(P, "term", i + 1, j) # {}
        BY <3>8
      <4>3. Inside(t, d, i + 1, j)
        BY <2>3, <2>6, <4>2
      <4>4. t[x] \in Op
        BY <4>1
      <4> HIDE DEF E
      <4>5. x \in i + 1 .. j - 1 /\ Shape(t, d, i, x - 1)
        BY <3>5, <4>1
      <4>6. x \in i + 1 .. j
        BY <2>0, <4>5
      <4> QED
        BY <1>0, <2>3, <3>8, <4>3, <4>4, <4>5, <4>6, ComplementIsNoSplit
    <3>9. CASE B(S) /\ B(R)
      BY <2>5, <3>9
    <3>10. CASE C(S) /\ C(R)
      BY <2>5, <3>10
    <3>11. CASE D(S) /\ D(R)
      <4>1. PICK x \in i .. j : E(S, x)
        BY <3>11
      <4>2. PICK y \in i .. j : E(R, y)
        BY <3>11
      <4>3. t[x] \in Op /\ t[y] \in Op
        BY <4>1, <4>2
      <4>4. CASE x = y
        BY <2>4, <4>1, <4>2, <4>4
      <4> HIDE DEF E
      <4>5. /\ Shape(t, d, x + 1, j) /\ Inside(t, d, x + 1, j)
            /\ Shape(t, d, y + 1, j) /\ Inside(t, d, y + 1, j)
        BY <3>5, <4>1, <4>2
      <4>6. CASE x < y
        BY <1>0, <2>3, <4>3, <4>5, <4>6, SplitIs
      <4>7. CASE y < x
        BY <1>0, <2>3, <4>3, <4>5, <4>7, SplitIs
      <4> QED
        BY <2>0, <4>4, <4>6, <4>7
    <3>12. ~ (B(S) /\ C(R)) /\ ~ (C(S) /\ B(R))
      BY PieceIs
    <3> HIDE DEF A, B, C, D
    <3> QED
      BY <3>3, <3>6, <3>7, <3>8, <3>9, <3>10, <3>11, <3>12
  <2> QED
    BY <2>7, <2>8, <2>9
<1>3. Nat \subseteq T
  <2> HIDE DEF T
  <2> QED
    BY <1>1, <1>2, Induction
<1>4. \A i \in 1 .. Len(t) + 1, j \in 0 .. Len(t) :
        Span(i, j) + 1 \in Nat /\ Span(i, j) < Span(i, j) + 1
  BY DEF Span
<1> HIDE DEF Once
<1>5. \A k \in Kind, i \in 1 .. Len(t) + 1, j \in 0 .. Len(t) : Once(k, i, j)
  BY <1>3, <1>4
<1> QED
  BY <1>5 DEF Once

-----------------------------------------------------------------------------
(* The parser reads as the language says.                                  *)

\* The word that ends at e, if one does, ends there.
WordEnds(t, e) == t[e] \in Letter /\ e < Len(t) => t[e + 1] \notin Letter

\* Symbol s is what was made of pieces b + 1 to e; V says what its treenode
\* stands for.
Covers(t, P, V, s, b, e) ==
  /\ b < e
  /\ s.sym \in {"term", "query"} =>
       /\ V[s.node] \in At(P, s.sym, b + 1, e)
       /\ t[e] \in Closing /\ WordEnds(t, e)
  /\ s.sym = "ATTR" =>
       /\ \E a \in b + 1 .. e :
            /\ Blank(t, b + 1, a - 1)
            /\ \A x \in a .. e : t[x] \in Letter
            /\ s.str = SubSeq(t, a, e)
       /\ WordEnds(t, e)
  /\ s.sym \in Op \cup {"(", ")", "~"} =>
       Blank(t, b + 1, e - 1) /\ t[e] = s.sym

\* What the treenodes of h stand for.
Plain(V, tn) == IF tn.left = 0 THEN Hits(tn.str)
                ELSE Joined(tn.str[1], V[tn.left], V[tn.right])
Value(V, tn) == IF tn.complement THEN Node \ Plain(V, tn) ELSE Plain(V, tn)
IsValue(V, h) ==
  /\ V \in [1 .. Len(h) -> SUBSET Node]
  /\ \A i \in 1 .. Len(h) : V[i] = Value(V, h[i])

\* Words and operators of the treenodes are in the text.
FromText(t, h) ==
  \A i \in 1 .. Len(h) :
    /\ h[i].left = 0 => \E a, c \in 1 .. Len(t) : h[i].str = SubSeq(t, a, c)
    /\ h[i].left # 0 => \E x \in 1 .. Len(t) : h[i].str = <<t[x]>>

\* The last treenode belongs to the last phrase on the stack.
Phrase(s) == s.sym \in {"term", "query"}
NewestLast ==
  \A k \in 1 .. Len(stack) :
    Phrase(stack[k]) =>
      IF \E m \in k + 1 .. Len(stack) : Phrase(stack[m])
      THEN stack[k].node < Len(heap) ELSE stack[k].node = Len(heap)

\* What is left in the scanner begins behind q.
Remains(t, q) ==
  /\ q \in 0 .. Len(t)
  /\ Len(rest) = Len(t) - q /\ \A x \in 1 .. Len(t) - q : rest[x] = t[q + x]
  /\ pending => q = Len(t)

\* The symbols of the stack follow each other from b[1] to q.
InStack(t, P, b, V) ==
  /\ b \in [1 .. Len(stack) + 1 -> 0 .. Len(t)] /\ b[1] = 0
  /\ \A k \in 1 .. Len(stack) : Covers(t, P, V, stack[k], b[k], b[k + 1])

Looked(t, P, q, e, V) ==
  /\ look = None => q = e
  /\ look.sym = "END" => q = Len(t) /\ Blank(t, e + 1, q)
  /\ look.sym \in Terminal => Covers(t, P, V, look, e, q)

InText(t, P, q, b, V) ==
  /\ Remains(t, q)
  /\ InStack(t, P, b, V)
  /\ Looked(t, P, q, b[Len(stack) + 1], V)
  /\ IsValue(V, heap) /\ FromText(t, heap)
  /\ NewestLast

LEMMA FromIs ==
  ASSUME TypeInv, NEW k \in 0 .. Len(rest)
  PROVE  /\ Len(From(k)) = Len(rest) - k
         /\ \A x \in 1 .. Len(rest) - k : From(k)[x] = rest[k + x]
<1>1. rest \in Seq(Piece)
  BY DEF TypeInv
<1>2. Len(rest) \in Nat
  BY <1>1
<1>3. \A x \in k + 1 .. Len(rest) : rest[x] \in Piece
  BY <1>1
<1> QED
  BY <1>1, <1>2, <1>3 DEF From

LEMMA RemainsFrom ==
  ASSUME TypeInv, NEW t \in Seq(Piece), NEW q, Remains(t, q),
         NEW k \in 0 .. Len(rest), rest' = From(k),
         pending' => rest' = <<>>
  PROVE  Remains(t, q + k)'
<1>0. /\ Len(t) \in Nat /\ q \in 0 .. Len(t) /\ Len(rest) = Len(t) - q
      /\ q + k \in 0 .. Len(t)
  BY DEF Remains
<1>1. Len(rest') = Len(t) - (q + k)
  <2>1. Len(rest') = Len(rest) - k
    BY FromIs
  <2>2. k \in Int /\ q \in Int
    BY <1>0
  <2> QED
    BY <1>0, <2>1, <2>2
<1>2. \A x \in 1 .. Len(t) - (q + k) : rest'[x] = t[(q + k) + x]
  <2> TAKE x \in 1 .. Len(t) - (q + k)
  <2>1. /\ x \in 1 .. Len(rest) - k /\ k + x \in 1 .. Len(t) - q
        /\ q + (k + x) = (q + k) + x
    BY <1>0
  <2>2. rest'[x] = rest[k + x]
    BY <2>1, FromIs
  <2>3. rest[k + x] = t[q + (k + x)]
    BY <2>1 DEF Remains
  <2> QED
    BY <2>1, <2>2, <2>3
<1>3. pending' => q + k = Len(t)
  BY <1>0, <1>1, EmptyIs
<1> QED
  BY <1>0, <1>1, <1>2, <1>3 DEF Remains

LEMMA Reread ==
  ASSUME TypeInv, NEW t \in Seq(Piece), NEW q, Remains(t, q),
         NEW a \in 1 .. Len(rest), NEW j \in a .. Len(rest)
  PROVE  /\ SubSeq(rest, a, j) = SubSeq(t, q + a, q + j)
         /\ \A x \in 1 .. Len(rest) : rest[x] = t[q + x]
<1>0. /\ Len(t) \in Nat /\ q \in 0 .. Len(t) /\ Len(rest) = Len(t) - q
      /\ rest \in Seq(Piece) /\ Len(rest) \in Nat
  BY DEF Remains, TypeInv
<1>1. \A x \in 1 .. Len(rest) : rest[x] = t[q + x]
  BY <1>0 DEF Remains
<1>2. /\ SubSeq(rest, a, j) = [i \in 1 .. j - a + 1 |-> rest[a + i - 1]]
      /\ SubSeq(t, q + a, q + j) =
           [i \in 1 .. (q + j) - (q + a) + 1 |-> t[(q + a) + i - 1]]
  BY <1>0
<1>3. (q + j) - (q + a) + 1 = j - a + 1
  BY <1>0
<1>4. \A i \in 1 .. j - a + 1 : rest[a + i - 1] = t[(q + a) + i - 1]
  <2> TAKE i \in 1 .. j - a + 1
  <2>1. /\ a + i - 1 \in 1 .. Len(rest)
        /\ q + (a + i - 1) = (q + a) + i - 1
    BY <1>0
  <2> QED
    BY <1>1, <2>1
<1> QED
  BY <1>1, <1>2, <1>3, <1>4

LEMMA EndOfStack ==
  ASSUME ParseInv, NEW t \in Seq(Piece), NEW P, NEW b, NEW V,
         InStack(t, P, b, V)
  PROVE  b[Len(stack) + 1] \in 0 .. Len(t)
<1>1. Len(stack) \in Nat
  BY StackIs DEF ParseInv
<1>2. Len(stack) + 1 \in 1 .. Len(stack) + 1
  BY <1>1
<1> QED
  BY <1>2 DEF InStack

LEMMA ScanLooks ==
  ASSUME ParseInv, Scan, NEW t \in Seq(Piece), NEW P, NEW V,
         NEW q, Remains(t, q)
  PROVE  \E r : Remains(t, r)' /\ Looked(t, P, r, q, V)'
<1>0. TypeInv
  BY DEF ParseInv
<1>1. /\ Len(t) \in Nat /\ q \in 0 .. Len(t) /\ Len(rest) = Len(t) - q
      /\ Len(rest) \in Nat /\ rest \in Seq(Piece)
      /\ \A x \in 1 .. Len(rest) : rest[x] = t[q + x]
  BY <1>0 DEF Remains, TypeInv
<1>2. PICK k \in 0 .. Len(rest) : k = Skip
  BY <1>0, SkipIs
<1>3. \A x \in 1 .. k : rest[x] \in Ignored
  BY <1>0, <1>2, SkipIs
<1>4. \A x \in q + 1 .. q + k : t[x] \in Ignored
  <2> TAKE x \in q + 1 .. q + k
  <2>1. x - q \in 1 .. k /\ x - q \in 1 .. Len(rest) /\ q + (x - q) = x
    BY <1>1
  <2> QED
    BY <1>1, <1>3, <2>1
<1>5. None.sym \notin Terminal \cup {"END"} /\ "END" \notin Terminal
  BY NoneIs DEF Terminal, Op
<1>6. CASE /\ pending \/ k = Len(rest)
           /\ look' = Token("END") /\ rest' = <<>> /\ ~ pending'
  <2>1. look'.sym = "END" /\ look' # None
    BY <1>5, <1>6, NoneIs DEF Terminal
  <2>2. Remains(t, Len(t))'
    <3>1. Len(rest') = 0
      BY <1>6
    <3> QED
      BY <1>1, <1>6, <3>1 DEF Remains
  <2>3. Blank(t, q + 1, Len(t))
    <3>1. pending => q = Len(t)
      BY DEF Remains
    <3>2. CASE pending
      BY <1>1, <3>1, <3>2 DEF Blank
    <3>3. CASE k = Len(rest)
      <4>1. q + k = Len(t)
        BY <1>1, <3>3
      <4> QED
        BY <1>4, <4>1 DEF Blank
    <3> QED
      BY <1>6, <3>2, <3>3
  <2>4. Looked(t, P, Len(t), q, V)'
    BY <1>5, <2>1, <2>3 DEF Looked
  <2> QED
    BY <2>2, <2>4
<1>7. ASSUME k < Len(rest),
             NEW j \in k + 1 .. Len(rest),
             \A i \in k + 1 .. j : rest[i] \in Letter,
             j < Len(rest) => rest[j + 1] \notin Letter,
             SubSeq(rest, k + 1, j) \in Seq(Letter),
             look' = Word(SubSeq(rest, k + 1, j)),
             rest' = From(j), pending' = (rest' = <<>>)
      PROVE  \E r : Remains(t, r)' /\ Looked(t, P, r, q, V)'
  <2>0. j \in 0 .. Len(rest) /\ k + 1 \in 1 .. Len(rest)
    BY <1>1
  <2>1. Remains(t, q + j)'
    BY <1>0, <1>7, <2>0, RemainsFrom
  <2>2. look'.sym = "ATTR" /\ look'.str = SubSeq(rest, k + 1, j)
    BY <1>7, NoneIs
  <2>3. SubSeq(rest, k + 1, j) = SubSeq(t, q + (k + 1), q + j)
    BY <1>0, <2>0, Reread
  <2>4. \A x \in q + (k + 1) .. q + j : t[x] \in Letter
    <3> TAKE x \in q + (k + 1) .. q + j
    <3>1. x - q \in k + 1 .. j /\ x - q \in 1 .. Len(rest) /\ q + (x - q) = x
      BY <1>1, <2>0
    <3> QED
      BY <1>1, <1>7, <3>1
  <2>5. WordEnds(t, q + j)
    <3> SUFFICES ASSUME q + j < Len(t) PROVE t[(q + j) + 1] \notin Letter
      BY DEF WordEnds
    <3>1. /\ j < Len(rest) /\ j + 1 \in 1 .. Len(rest)
          /\ q + (j + 1) = (q + j) + 1
      BY <1>1, <2>0
    <3> QED
      BY <1>1, <1>7, <3>1
  <2>6. /\ q + (k + 1) \in q + 1 .. q + j /\ q < q + j
        /\ (q + (k + 1)) - 1 = q + k
    BY <1>1, <2>0
  <2>7. Blank(t, q + 1, (q + (k + 1)) - 1)
    BY <1>4, <2>6 DEF Blank
  <2>8. Covers(t, P, V, look', q, q + j)
    <3>1. /\ "ATTR" \notin {"term", "query"}
          /\ "ATTR" \notin Op \cup {"(", ")", "~"}
      BY DEF Op
    <3> QED
      BY <2>2, <2>3, <2>4, <2>5, <2>6, <2>7, <3>1 DEF Covers
  <2>9. look' # None /\ look'.sym # "END"
    BY <1>5, <2>2 DEF Terminal
  <2>10. Looked(t, P, q + j, q, V)'
    BY <2>8, <2>9 DEF Looked
  <2> QED
    BY <2>1, <2>10
<1>8. CASE /\ ~ pending /\ k < Len(rest)
           /\ rest[k + 1] \in Op \cup {"(", ")", "~"}
           /\ look' = Token(rest[k + 1])
           /\ rest' = From(k + 1) /\ ~ pending'
  <2>0. k + 1 \in 0 .. Len(rest) /\ k + 1 \in 1 .. Len(rest)
    BY <1>1, <1>8
  <2>1. Remains(t, q + (k + 1))'
    BY <1>0, <1>8, <2>0, RemainsFrom
  <2>2. look'.sym = rest[k + 1] /\ look'.sym \in Op \cup {"(", ")", "~"}
    BY <1>8, NoneIs DEF Terminal
  <2>3. t[q + (k + 1)] = rest[k + 1]
    BY <1>1, <2>0
  <2>4. q < q + (k + 1) /\ (q + (k + 1)) - 1 = q + k
    BY <1>1, <2>0
  <2>5. Blank(t, q + 1, (q + (k + 1)) - 1)
    BY <1>4, <2>4 DEF Blank
  <2>6. Covers(t, P, V, look', q, q + (k + 1))
    <3>1. {"term", "query", "ATTR"} \cap (Op \cup {"(", ")", "~"}) = {}
      BY DEF Op
    <3> QED
      BY <2>2, <2>3, <2>4, <2>5, <3>1 DEF Covers
  <2>7. look' # None /\ look'.sym # "END"
    BY <1>5, <2>2 DEF Terminal
  <2>8. Looked(t, P, q + (k + 1), q, V)'
    BY <2>6, <2>7 DEF Looked
  <2> QED
    BY <2>1, <2>8
<1>9. \/ /\ pending \/ k = Len(rest)
         /\ look' = Token("END") /\ rest' = <<>> /\ ~ pending'
      \/ /\ ~ pending /\ k < Len(rest)
         /\ \E j \in k + 1 .. Len(rest) :
               /\ \A i \in k + 1 .. j : rest[i] \in Letter
               /\ j < Len(rest) => rest[j + 1] \notin Letter
               /\ SubSeq(rest, k + 1, j) \in Seq(Letter)
               /\ look' = Word(SubSeq(rest, k + 1, j))
               /\ rest' = From(j) /\ pending' = (rest' = <<>>)
      \/ /\ ~ pending /\ k < Len(rest)
         /\ rest[k + 1] \in Op \cup {"(", ")", "~"}
         /\ look' = Token(rest[k + 1])
         /\ rest' = From(k + 1) /\ ~ pending'
  BY ONLY <1>0, <1>2, Scan, ScanIs
<1> QED
  BY <1>6, <1>7, <1>8, <1>9

LEMMA ScanReads ==
  ASSUME ParseInv, Scan, NEW t \in Seq(Piece), NEW P,
         NEW q, NEW b, NEW V, InText(t, P, q, b, V)
  PROVE  \E r : InText(t, P, r, b, V)'
<1>1. look = None /\ stack' = stack /\ heap' = heap
  BY DEF Scan
<1>2. PICK n \in Nat : n = Len(stack)
  BY StackIs DEF ParseInv
<1>3. q = b[n + 1]
  BY <1>1, <1>2 DEF InText, Looked
<1>4. PICK r : Remains(t, r)' /\ Looked(t, P, r, q, V)'
  BY ScanLooks DEF InText
<1>5. InStack(t, P, b, V)' /\ NewestLast'
  BY <1>1 DEF InText, InStack, NewestLast
<1>6. IsValue(V, heap)' /\ FromText(t, heap)'
  BY <1>1 DEF InText, IsValue, FromText
<1>7. Looked(t, P, r, b[Len(stack) + 1], V)'
  BY <1>1, <1>2, <1>3, <1>4 DEF Looked
<1> QED
  BY <1>4, <1>5, <1>6, <1>7 DEF InText

LEMMA ShiftReads ==
  ASSUME ParseInv, Shift, NEW t \in Seq(Piece), NEW P,
         NEW q, NEW b, NEW V, InText(t, P, q, b, V)
  PROVE  \E c : InText(t, P, q, c, V)'
<1>0. PICK n \in Nat : n = Len(stack)
  BY StackIs DEF ParseInv
<1>1. /\ look.sym \in Terminal
      /\ Len(stack') = n + 1
      /\ \A k \in 1 .. n : stack'[k] = stack[k]
      /\ stack'[n + 1] = look
  BY <1>0, ShiftIs
<1>2. look' = None /\ rest' = rest /\ pending' = pending /\ heap' = heap
  BY DEF Shift, flexvars
<1>3. Remains(t, q)'
  BY <1>2 DEF InText, Remains
<1>4. q \in 0 .. Len(t)
  BY DEF InText, Remains
<1> DEFINE c == [k \in 1 .. n + 2 |-> IF k = n + 2 THEN q ELSE b[k]]
<1>5. /\ b \in [1 .. n + 1 -> 0 .. Len(t)] /\ b[1] = 0
      /\ \A k \in 1 .. n : Covers(t, P, V, stack[k], b[k], b[k + 1])
  BY <1>0 DEF InText, InStack
<1>6. /\ c \in [1 .. n + 2 -> 0 .. Len(t)] /\ c[1] = 0 /\ c[n + 2] = q
      /\ \A k \in 1 .. n + 1 : c[k] = b[k]
  <2>1. \A k \in 1 .. n + 2 : k # n + 2 => k \in 1 .. n + 1
    OBVIOUS
  <2> QED
    BY <1>4, <1>5, <2>1
<1> HIDE DEF c
<1>7. Covers(t, P, V, look, b[n + 1], q)
  BY <1>0, <1>1 DEF InText, Looked
<1>8. \A k \in 1 .. n + 1 : Covers(t, P, V, stack'[k], c[k], c[k + 1])
  <2> TAKE k \in 1 .. n + 1
  <2>1. CASE k = n + 1
    <3>1. k + 1 = n + 2 /\ n + 1 \in 1 .. n + 1
      BY <2>1
    <3> QED
      BY <1>1, <1>6, <1>7, <2>1, <3>1
  <2>2. CASE k # n + 1
    <3>1. k \in 1 .. n /\ k + 1 \in 1 .. n + 1
      BY <2>2
    <3> QED
      BY <1>1, <1>5, <1>6, <3>1
  <2> QED
    BY <2>1, <2>2
<1>9. InStack(t, P, c, V)'
  <2>1. (n + 1) + 1 = n + 2
    BY <1>0
  <2> QED
    BY <1>1, <1>6, <1>8, <2>1 DEF InStack
<1>10. None.sym \notin Terminal \cup {"END"}
  BY NoneIs DEF Terminal, Op
<1>11. Looked(t, P, q, c[Len(stack) + 1], V)'
  <2>1. (n + 1) + 1 = n + 2
    BY <1>0
  <2>2. c[Len(stack') + 1] = q
    BY <1>1, <1>6, <2>1
  <2> QED
    BY <1>2, <1>10, <2>2 DEF Looked
<1>12. NewestLast'
  <2>1. ~ Phrase(look)
    BY <1>1 DEF Phrase, Terminal, Op
  <2> SUFFICES ASSUME NEW k \in 1 .. n + 1, Phrase(stack'[k])
               PROVE  IF \E m \in k + 1 .. n + 1 : Phrase(stack'[m])
                      THEN stack'[k].node < Len(heap)
                      ELSE stack'[k].node = Len(heap)
    BY <1>1, <1>2 DEF NewestLast
  <2>2. k \in 1 .. n /\ stack'[k] = stack[k]
    BY <1>1, <2>1
  <2>3. (\E m \in k + 1 .. n + 1 : Phrase(stack'[m]))
          <=> \E m \in k + 1 .. n : Phrase(stack[m])
    <3>1. \A m \in k + 1 .. n + 1 : m = n + 1 \/ m \in k + 1 .. n
      OBVIOUS
    <3>2. \A m \in k + 1 .. n : m \in 1 .. n /\ m \in k + 1 .. n + 1
      BY <2>2
    <3> QED
      BY <1>1, <2>1, <3>1, <3>2
  <2> QED
    BY <1>0, <2>2, <2>3 DEF InText, NewestLast
<1>13. IsValue(V, heap)' /\ FromText(t, heap)'
  BY <1>2 DEF InText, IsValue, FromText
<1> QED
  BY <1>3, <1>9, <1>11, <1>12, <1>13 DEF InText

LEMMA CoversSame ==
  ASSUME NEW t, NEW P, NEW V, NEW W, NEW s, NEW b, NEW e,
         Covers(t, P, V, s, b, e), Phrase(s) => W[s.node] = V[s.node]
  PROVE  Covers(t, P, W, s, b, e)
BY DEF Covers, Phrase

\* A reduction of n symbols to s.
LEMMA ReducedReads ==
  ASSUME ParseInv, Reduction, NEW t \in Seq(Piece), NEW P,
         NEW q, NEW b, NEW V, InText(t, P, q, b, V),
         NEW n \in 1 .. 3, n <= Len(stack), NEW s \in Symbol, Phrase(s),
         stack' = Reduced(n, s),
         NEW W, IsValue(W, heap'), FromText(t, heap'),
         \A k \in 1 .. Len(stack) - n :
           Phrase(stack[k]) => /\ stack[k].node < Len(heap')
                               /\ W[stack[k].node] = V[stack[k].node],
         s.node = Len(heap'),
         Covers(t, P, W, s, b[Len(stack) - n + 1], b[Len(stack) + 1])
  PROVE  \E c : InText(t, P, q, c, W)'
<1>0. PICK m \in Nat : m = Len(stack)
  BY StackIs DEF ParseInv
<1>1. PICK r \in Nat : r = m - n
  BY <1>0
<1>2. /\ Len(stack') = r + 1
      /\ \A k \in 1 .. r : stack'[k] = stack[k]
      /\ stack'[r + 1] = s
  BY <1>0, <1>1, ReducedIs DEF ParseInv
<1>3. look' = look /\ rest' = rest /\ pending' = pending
  BY DEF Reduction, flexvars
<1>4. /\ b \in [1 .. m + 1 -> 0 .. Len(t)] /\ b[1] = 0
      /\ \A k \in 1 .. m : Covers(t, P, V, stack[k], b[k], b[k + 1])
  BY <1>0 DEF InText, InStack
<1> DEFINE c == [k \in 1 .. r + 2 |-> IF k = r + 2 THEN b[m + 1] ELSE b[k]]
<1>5. /\ c \in [1 .. r + 2 -> 0 .. Len(t)] /\ c[1] = 0 /\ c[r + 2] = b[m + 1]
      /\ \A k \in 1 .. r + 1 : c[k] = b[k]
  <2>1. \A k \in 1 .. r + 2 : k # r + 2 => k \in 1 .. m + 1
    BY <1>0, <1>1
  <2>2. m + 1 \in 1 .. m + 1
    OBVIOUS
  <2>3. \A k \in 1 .. r + 1 : k \in 1 .. r + 2 /\ k # r + 2
    OBVIOUS
  <2>4. 1 \in 1 .. r + 1 /\ r + 2 \in 1 .. r + 2
    OBVIOUS
  <2> QED
    BY <1>4, <2>1, <2>2, <2>3, <2>4
<1> HIDE DEF c
<1>6. \A k \in 1 .. r + 1 : Covers(t, P, W, stack'[k], c[k], c[k + 1])
  <2> TAKE k \in 1 .. r + 1
  <2>1. CASE k = r + 1
    <3>1. k + 1 = r + 2 /\ r + 1 \in 1 .. r + 1 /\ Len(stack) - n + 1 = r + 1
      BY <1>0, <1>1, <2>1
    <3> QED
      BY <1>0, <1>2, <1>5, <2>1, <3>1
  <2>2. CASE k # r + 1
    <3>1. /\ k \in 1 .. r /\ k + 1 \in 1 .. r + 1 /\ k \in 1 .. m
          /\ k \in 1 .. Len(stack) - n
      BY <1>0, <1>1, <2>2, SMTT(30)
    <3>2. Covers(t, P, V, stack[k], b[k], b[k + 1])
      BY <1>4, <3>1
    <3>3. Covers(t, P, W, stack[k], b[k], b[k + 1])
      BY <3>1, <3>2, CoversSame
    <3> QED
      BY <1>2, <1>5, <3>1, <3>3
  <2> QED
    BY <2>1, <2>2
<1>7. InStack(t, P, c, W)'
  <2>1. (r + 1) + 1 = r + 2
    BY <1>1
  <2> QED
    BY <1>2, <1>5, <1>6, <2>1 DEF InStack
<1>8. Looked(t, P, q, c[Len(stack) + 1], W)'
  <2>1. (r + 1) + 1 = r + 2
    BY <1>1
  <2>2. c[Len(stack') + 1] = b[m + 1]
    BY <1>2, <1>5, <2>1
  <2>3. Looked(t, P, q, b[m + 1], V)
    BY <1>0 DEF InText
  <2>4. look.sym \in Terminal => Covers(t, P, W, look, b[m + 1], q)
    <3>1. look.sym \in Terminal => ~ Phrase(look)
      BY DEF Phrase, Terminal, Op
    <3> QED
      BY <2>3, <3>1, CoversSame DEF Looked
  <2> QED
    BY <1>3, <2>2, <2>3, <2>4 DEF Looked
<1>9. NewestLast'
  <2> SUFFICES ASSUME NEW k \in 1 .. r + 1, Phrase(stack'[k])
               PROVE  IF \E l \in k + 1 .. r + 1 : Phrase(stack'[l])
                      THEN stack'[k].node < Len(heap')
                      ELSE stack'[k].node = Len(heap')
    BY <1>2 DEF NewestLast
  <2>1. CASE k = r + 1
    <3>1. ~ \E l \in k + 1 .. r + 1 : Phrase(stack'[l])
      BY <2>1
    <3> QED
      BY <1>2, <2>1, <3>1
  <2>2. CASE k # r + 1
    <3>1. k \in 1 .. r /\ r + 1 \in k + 1 .. r + 1 /\ k \in 1 .. Len(stack) - n
      BY <1>0, <1>1, <2>2
    <3> QED
      BY <1>2, <3>1
  <2> QED
    BY <2>1, <2>2
<1>10. Remains(t, q)'
  BY <1>3 DEF InText, Remains
<1> QED
  BY <1>7, <1>8, <1>9, <1>10 DEF InText

\* Where the last n symbols of the stack are in the text.
LEMMA PlacesIs ==
  ASSUME ParseInv, NEW t \in Seq(Piece), NEW P,
         NEW q, NEW b, NEW V, InText(t, P, q, b, V),
         NEW k \in 1 .. Len(stack)
  PROVE  /\ b[k] \in 0 .. Len(t) /\ b[k + 1] \in 0 .. Len(t) /\ b[k] < b[k + 1]
         /\ b[k] + 1 \in 1 .. Len(t) /\ b[k + 1] \in b[k] + 1 .. Len(t)
         /\ Covers(t, P, V, stack[k], b[k], b[k + 1])
<1>1. Len(stack) \in Nat /\ Len(t) \in Nat
  BY StackIs DEF ParseInv
<1>2. k \in 1 .. Len(stack) + 1 /\ k + 1 \in 1 .. Len(stack) + 1
  BY <1>1
<1>3. b[k] \in 0 .. Len(t) /\ b[k + 1] \in 0 .. Len(t)
  BY <1>2 DEF InText, InStack
<1>4. Covers(t, P, V, stack[k], b[k], b[k + 1])
  BY DEF InText, InStack
<1>5. b[k] < b[k + 1]
  BY <1>4 DEF Covers
<1> QED
  BY <1>1, <1>3, <1>4, <1>5

LEMMA ReduceTermReads ==
  ASSUME ParseInv, ReduceTerm, NEW t \in Seq(Piece), NEW P, Meaning(P, t),
         NEW q, NEW b, NEW V, InText(t, P, q, b, V)
  PROVE  \E c : InText(t, P, q, c, V)'
<1>1. PICK m \in Nat : m = Len(stack)
  BY StackIs DEF ParseInv
<1>2. /\ 1 <= m /\ m \in 1 .. m /\ Top = stack[m] /\ Top.sym = "term"
      /\ Top.node \in Nat
  <2>1. Top \in Symbol
    BY <1>1, ReducesTerm, StackIs DEF ParseInv
  <2> QED
    BY <1>1, <2>1, ReducesTerm DEF Symbol
<1>3. /\ stack' = Reduced(1, Tree("query", Top.node)) /\ Reduction
      /\ heap' = heap
  BY DEF ReduceTerm
<1>4. PICK s \in Symbol : s = Tree("query", Top.node)
  BY <1>2, NoneIs
<1>5. s.sym = "query" /\ s.node = Top.node /\ Phrase(s)
  BY <1>2, <1>4, NoneIs, ZenonT(60) DEF Phrase
<1>6. /\ b[m] + 1 \in 1 .. Len(t) /\ b[m + 1] \in b[m] + 1 .. Len(t)
      /\ b[m] < b[m + 1]
      /\ Covers(t, P, V, stack[m], b[m], b[m + 1])
  BY <1>1, <1>2, PlacesIs
<1>7. Covers(t, P, V, s, b[m], b[m + 1])
  <2>1. /\ V[Top.node] \in At(P, "term", b[m] + 1, b[m + 1])
        /\ t[b[m + 1]] \in Closing /\ WordEnds(t, b[m + 1])
    BY <1>2, <1>6 DEF Covers
  <2>2. t[b[m + 1]] \notin Ignored
    BY <2>1, PieceIs DEF Closing
  <2>3. V[Top.node] \in At(P, "query", b[m] + 1, b[m + 1])
    BY <1>6, <2>1, <2>2, TermReads
  <2>4. "query" # "ATTR" /\ "query" \notin Op \cup {"(", ")", "~"}
    BY DEF Op
  <2> QED
    BY <1>5, <1>6, <2>1, <2>3, <2>4 DEF Covers
<1>8. /\ s.node = Len(heap')
      /\ \A k \in 1 .. m - 1 : Phrase(stack[k]) => stack[k].node < Len(heap')
  <2>1. Phrase(stack[m]) /\ ~ \E l \in m + 1 .. m : Phrase(stack[l])
    BY <1>2 DEF Phrase
  <2>2. stack[m].node = Len(heap)
    BY <1>1, <1>2, <2>1 DEF InText, NewestLast
  <2>3. ASSUME NEW k \in 1 .. m - 1, Phrase(stack[k])
        PROVE  stack[k].node < Len(heap)
    <3>1. k \in 1 .. m /\ m \in k + 1 .. m
      OBVIOUS
    <3> QED
      BY <1>1, <2>1, <2>3, <3>1 DEF InText, NewestLast
  <2> QED
    BY <1>2, <1>3, <1>5, <2>2, <2>3
<1>9. IsValue(V, heap') /\ FromText(t, heap')
  BY <1>3 DEF InText
<1>10. m - 1 + 1 = m
  OBVIOUS
<1> QED
  BY <1>1, <1>2, <1>3, <1>4, <1>5, <1>7, <1>8, <1>9, <1>10, ReducedReads

LEMMA ReduceParensReads ==
  ASSUME ParseInv, ReduceParens, NEW t \in Seq(Piece), NEW P, Meaning(P, t),
         NEW q, NEW b, NEW V, InText(t, P, q, b, V)
  PROVE  \E c : InText(t, P, q, c, V)'
<1>1. PICK m \in Nat : m = Len(stack)
  BY StackIs DEF ParseInv
<1>2. /\ 3 <= m /\ m \in 1 .. m /\ m - 1 \in 1 .. m /\ m - 2 \in 1 .. m
      /\ stack[m].sym = ")" /\ Below = stack[m - 1]
      /\ stack[m - 1].sym = "query" /\ stack[m - 2].sym = "("
      /\ Below.node \in Nat
  <2>1. /\ 3 <= m /\ m \in 1 .. m /\ m - 1 \in 1 .. m /\ m - 2 \in 1 .. m
        /\ stack[m].sym = ")" /\ Below = stack[m - 1]
        /\ stack[m - 1].sym = "query" /\ stack[m - 2].sym = "("
    BY <1>1, ReducesParens
  <2>2. Below \in Symbol
    BY <1>1, <2>1, StackIs DEF ParseInv
  <2> QED
    BY <2>1, <2>2 DEF Symbol
<1>3. /\ stack' = Reduced(3, Tree("term", Below.node)) /\ Reduction
      /\ heap' = heap
  BY DEF ReduceParens
<1>4. PICK s \in Symbol : s = Tree("term", Below.node)
  BY <1>2, NoneIs
<1>5. s.sym = "term" /\ s.node = Below.node /\ Phrase(s)
  <2>1. \A n \in Nat : /\ Tree("term", n).sym = "term"
                      /\ Tree("term", n).node = n
    BY NoneIs
  <2>2. s.sym = "term" /\ s.node = Below.node
    BY <1>2, <1>4, <2>1
  <2> QED
    BY <2>2 DEF Phrase
<1>6. (m - 2) + 1 = m - 1 /\ (m - 1) + 1 = m /\ m - 3 + 1 = m - 2
  BY <1>1
<1>7. /\ b[m - 2] + 1 \in 1 .. Len(t) /\ b[m - 1] \in b[m - 2] + 1 .. Len(t)
      /\ b[m - 2] < b[m - 1] /\ b[m - 2] \in 0 .. Len(t)
      /\ Covers(t, P, V, stack[m - 2], b[m - 2], b[m - 1])
  BY <1>1, <1>2, <1>6, PlacesIs
<1>8. /\ b[m - 1] + 1 \in 1 .. Len(t) /\ b[m] \in b[m - 1] + 1 .. Len(t)
      /\ b[m - 1] < b[m]
      /\ Covers(t, P, V, stack[m - 1], b[m - 1], b[m])
  BY <1>1, <1>2, <1>6, PlacesIs
<1>9. /\ b[m] + 1 \in 1 .. Len(t) /\ b[m + 1] \in b[m] + 1 .. Len(t)
      /\ b[m] < b[m + 1]
      /\ Covers(t, P, V, stack[m], b[m], b[m + 1])
  BY <1>1, <1>2, PlacesIs
<1>10. PICK i \in 1 .. Len(t), a \in 1 .. Len(t), e \in 1 .. Len(t),
            j \in 1 .. Len(t) :
              i = b[m - 2] + 1 /\ a = b[m - 1] /\ e = b[m] /\ j = b[m + 1]
  <2>1. b[m - 1] \in 1 .. Len(t)
    BY <1>7
  <2>2. b[m] \in 1 .. Len(t)
    BY <1>8, <2>1
  <2>3. b[m + 1] \in 1 .. Len(t)
    BY <1>9, <2>2
  <2>4. b[m - 2] + 1 \in 1 .. Len(t)
    BY <1>7
  <2> QED
    BY <2>1, <2>2, <2>3, <2>4, Zenon
<1>11. /\ i <= a /\ a < e /\ e < j /\ b[m - 2] < j
       /\ a \in i .. Len(t) /\ j \in a .. Len(t)
  BY <1>7, <1>8, <1>9, <1>10, SMTT(30)
<1>12. Blank(t, i, a - 1) /\ t[a] = "("
  BY <1>2, <1>7, <1>10 DEF Covers
<1>13. Blank(t, e + 1, j - 1) /\ t[j] = ")"
  BY <1>2, <1>9, <1>10 DEF Covers
<1>14. V[Below.node] \in At(P, "query", a + 1, e)
  BY <1>2, <1>8, <1>10 DEF Covers
<1>15. V[Below.node] \in At(P, "query", a + 1, j - 1)
  <2>1. /\ a + 1 \in 1 .. Len(t) + 1 /\ j - 1 \in 0 .. Len(t)
        /\ e \in 0 .. j - 1 /\ "query" \in Kind
    BY <1>11 DEF Kind
  <2>2. At(P, "query", a + 1, j - 1) = At(P, "query", a + 1, e)
    BY <1>13, <2>1, StripRight
  <2> QED
    BY <1>14, <2>2
<1>16. V[Below.node] \in At(P, "term", i, j)
  <2>1. "term" \in Kind
    BY DEF Kind
  <2> QED
    BY <1>10, <1>11, <1>12, <1>13, <1>15, <2>1, ParensRead
<1>17. Covers(t, P, V, s, b[m - 2], b[m + 1])
  <2>1. "term" # "ATTR" /\ "term" \notin Op \cup {"(", ")", "~"}
    BY DEF Op
  <2>2. t[j] \in Closing /\ WordEnds(t, j)
    BY <1>13, PieceIs DEF Closing, WordEnds
  <2> QED
    BY <1>5, <1>10, <1>11, <1>16, <2>1, <2>2 DEF Covers
<1>18. /\ s.node = Len(heap')
       /\ \A k \in 1 .. m - 3 : Phrase(stack[k]) => stack[k].node < Len(heap')
  <2>1. Phrase(stack[m - 1]) /\ ~ \E l \in m - 1 + 1 .. m : Phrase(stack[l])
    <3>1. \A l \in m - 1 + 1 .. m : l = m
      OBVIOUS
    <3>2. ~ Phrase(stack[m])
      BY <1>2 DEF Phrase
    <3> QED
      BY <1>2, <3>1, <3>2 DEF Phrase
  <2>2. stack[m - 1].node = Len(heap)
    BY <1>1, <1>2, <2>1 DEF InText, NewestLast
  <2>3. ASSUME NEW k \in 1 .. m - 3, Phrase(stack[k])
        PROVE  stack[k].node < Len(heap)
    <3>1. k \in 1 .. m /\ m - 1 \in k + 1 .. m
      OBVIOUS
    <3> QED
      BY <1>1, <2>1, <2>3, <3>1 DEF InText, NewestLast
  <2> QED
    BY <1>2, <1>3, <1>5, <2>2, <2>3
<1>19. IsValue(V, heap') /\ FromText(t, heap')
  BY <1>3 DEF InText
<1>20. 3 \in 1 .. 3
  OBVIOUS
<1> QED
  BY <1>1, <1>2, <1>3, <1>4, <1>5, <1>6, <1>17, <1>18, <1>19, <1>20,
     ReducedReads

\* Values of treenodes.
LEMMA PlainIs ==
  ASSUME NEW n \in Nat, NEW V, \A i \in 1 .. n : V[i] \in SUBSET Node,
         NEW tn, tn.left \in 0 .. n, tn.right \in 0 .. n,
         tn.left # 0 => tn.right # 0
  PROVE  /\ Plain(V, tn) \in SUBSET Node /\ Value(V, tn) \in SUBSET Node
<1>1. tn.left # 0 => tn.left \in 1 .. n /\ tn.right \in 1 .. n
  OBVIOUS
<1>2. \A w : Hits(w) \subseteq Node
  BY QueryAssumption DEF Hits
<1>3. Plain(V, tn) \in SUBSET Node
  BY <1>1, <1>2 DEF Plain, Joined
<1>4. Value(V, tn) \in SUBSET Node
  BY <1>3 DEF Value
<1> QED
  BY <1>3, <1>4

Links(tn, n) == tn.left \in 0 .. n /\ tn.right \in 0 .. n
                  /\ (tn.left # 0 => tn.right # 0)
Agree(V, W, n) == \A i \in 1 .. n : W[i] = V[i]
Extends(h, g, tn) ==
  /\ Len(h) = Len(g) + 1
  /\ \A i \in 1 .. Len(g) : h[i] = g[i]
  /\ h[Len(g) + 1] = tn

LEMMA PlainSame ==
  ASSUME NEW n \in Nat, NEW V, NEW W, NEW tn, Agree(V, W, n), Links(tn, n)
  PROVE  Plain(W, tn) = Plain(V, tn)
<1>1. tn.left # 0 => tn.left \in 1 .. n /\ tn.right \in 1 .. n
  BY DEF Links
<1> QED
  BY <1>1 DEF Plain, Agree

LEMMA NodeLinks ==
  ASSUME ParseInv, NEW i \in 1 .. Len(heap)
  PROVE  /\ heap[i] \in TreeNode /\ i - 1 \in Nat
         /\ heap[i].left \in 0 .. i - 1 /\ heap[i].right \in 0 .. i - 1
         /\ heap[i].left # 0 => heap[i].right # 0
<1>1. heap \in Seq(TreeNode) /\ IsNode(heap[i], i) /\ Len(heap) \in Nat
  BY DEF ParseInv, TypeInv, HeapInv
<1>2. heap[i] \in TreeNode
  BY <1>1
<1>3. heap[i].left \in Nat /\ heap[i].right \in Nat
  BY <1>2 DEF TreeNode
<1> QED
  BY <1>1, <1>2, <1>3 DEF IsNode

LEMMA ValueExtends ==
  ASSUME ParseInv, NEW V, IsValue(V, heap), NEW h, NEW tn,
         Extends(h, heap, tn), Links(tn, Len(heap)), ~ tn.complement
  PROVE  \E W : /\ IsValue(W, h) /\ W[Len(heap) + 1] = Plain(V, tn)
                /\ Agree(V, W, Len(heap))
<1>0. PICK n \in Nat : n = Len(heap)
  <2>1. heap \in Seq(TreeNode)
    BY DEF ParseInv, TypeInv
  <2>2. Len(heap) \in Nat
    BY <2>1
  <2> QED
    BY <2>2
<1>01. /\ Len(h) = n + 1 /\ h[n + 1] = tn
       /\ \A i \in 1 .. n : h[i] = heap[i]
       /\ tn.left \in 0 .. n /\ tn.right \in 0 .. n
       /\ tn.left # 0 => tn.right # 0
  BY <1>0 DEF Extends, Links
<1>1. /\ V \in [1 .. n -> SUBSET Node]
      /\ \A i \in 1 .. n : V[i] = Value(V, heap[i])
  BY <1>0 DEF IsValue
<1>2. \A i \in 1 .. n : V[i] \in SUBSET Node
  BY <1>1
<1> DEFINE W == [i \in 1 .. n + 1 |-> IF i = n + 1 THEN Plain(V, tn) ELSE V[i]]
<1>3. Plain(V, tn) \in SUBSET Node
  BY <1>01, <1>2, PlainIs
<1>4. /\ W \in [1 .. n + 1 -> SUBSET Node] /\ W[n + 1] = Plain(V, tn)
      /\ \A i \in 1 .. n : W[i] = V[i]
  <2>1. \A i \in 1 .. n + 1 : i # n + 1 => i \in 1 .. n
    OBVIOUS
  <2>2. n + 1 \in 1 .. n + 1 /\ \A i \in 1 .. n : i \in 1 .. n + 1 /\ i # n + 1
    OBVIOUS
  <2> HIDE DEF Plain
  <2> QED
    BY <1>2, <1>3, <2>1, <2>2
<1> HIDE DEF W
<1>5. \A i \in 1 .. n + 1 : W[i] = Value(W, h[i])
  <2> TAKE i \in 1 .. n + 1
  <2>1. CASE i = n + 1
    <3>0. Agree(V, W, n) /\ Links(tn, n)
      BY <1>0, <1>4 DEF Agree
    <3>1. Plain(W, tn) = Plain(V, tn)
      BY <3>0, PlainSame
    <3>2. Value(W, tn) = Plain(W, tn)
      BY DEF Value
    <3> QED
      BY <1>01, <1>4, <2>1, <3>1, <3>2
  <2>2. CASE i # n + 1
    <3>1. i \in 1 .. n
      BY <2>2
    <3>2. /\ i - 1 \in Nat
          /\ heap[i].left \in 0 .. i - 1 /\ heap[i].right \in 0 .. i - 1
          /\ heap[i].left # 0 => heap[i].right # 0
      BY <1>0, <3>1, NodeLinks
    <3>3. Agree(V, W, i - 1) /\ Links(heap[i], i - 1)
      BY <1>4, <3>1, <3>2 DEF Agree, Links
    <3>4. Plain(W, heap[i]) = Plain(V, heap[i])
      BY <3>2, <3>3, PlainSame
    <3> QED
      BY <1>0, <1>01, <1>1, <1>4, <3>1, <3>4 DEF Value
  <2> QED
    BY <2>1, <2>2
<1>6. IsValue(W, h)
  BY <1>01, <1>4, <1>5 DEF IsValue
<1> QED
  BY <1>0, <1>4, <1>6 DEF Agree

\* What a treenode that is made must be, for it to be from the text.
Written(t, tn) ==
  /\ tn.left = 0 => \E a, c \in 1 .. Len(t) : tn.str = SubSeq(t, a, c)
  /\ tn.left # 0 => \E x \in 1 .. Len(t) : tn.str = <<t[x]>>

LEMMA FromTextExtends ==
  ASSUME ParseInv, NEW t, FromText(t, heap), NEW h, NEW tn,
         Len(h) = Len(heap) + 1,
         \A i \in 1 .. Len(heap) : h[i] = heap[i],
         h[Len(heap) + 1] = tn, Written(t, tn)
  PROVE  FromText(t, h)
<1>1. PICK n \in Nat : n = Len(heap)
  <2>1. heap \in Seq(TreeNode)
    BY DEF ParseInv, TypeInv
  <2> QED
    BY <2>1
<1>2. \A i \in 1 .. n : Written(t, heap[i])
  BY <1>1 DEF FromText, Written
<1>3. \A i \in 1 .. n + 1 : Written(t, h[i])
  <2> TAKE i \in 1 .. n + 1
  <2>1. CASE i = n + 1
    BY <1>1, <2>1
  <2>2. CASE i # n + 1
    <3>1. i \in 1 .. n
      BY <2>2
    <3> QED
      BY <1>1, <1>2, <3>1
  <2> QED
    BY <2>1, <2>2
<1> QED
  BY <1>1, <1>3 DEF FromText, Written

\* A reduction of n symbols that makes treenode tn.
LEMMA MadeReads ==
  ASSUME ParseInv, Reduction, NEW t \in Seq(Piece), NEW P,
         NEW q, NEW b, NEW V, InText(t, P, q, b, V),
         NEW n \in 1 .. 3, n <= Len(stack), NEW sym \in {"term", "query"},
         NEW str \in Seq(Letter \cup Op), NEW left \in Nat, NEW right \in Nat,
         Make(n, sym, str, left, right), ~ fault',
         left \in 0 .. Len(heap), right \in 0 .. Len(heap),
         left # 0 => right # 0,
         NEW tn, tn = [str |-> str, left |-> left, right |-> right,
                       complement |-> FALSE],
         Written(t, tn),
         Plain(V, tn) \in At(P, sym, b[Len(stack) - n + 1] + 1,
                             b[Len(stack) + 1]),
         b[Len(stack) - n + 1] < b[Len(stack) + 1],
         t[b[Len(stack) + 1]] \in Closing, WordEnds(t, b[Len(stack) + 1])
  PROVE  \E c, W : InText(t, P, q, c, W)'
<1>0. PICK h \in Nat : h = Len(heap)
  <2>1. heap \in Seq(TreeNode)
    BY DEF ParseInv, TypeInv
  <2> QED
    BY <2>1
<1>1. /\ query_err = "SUCCESS"
      /\ heap' \in Seq(TreeNode) /\ Len(heap') = h + 1
      /\ \A i \in 1 .. h : heap'[i] = heap[i]
      /\ heap'[h + 1] = tn
      /\ stack' = Reduced(n, Tree(sym, h + 1))
  BY <1>0, MakeIs
<1>2. IsValue(V, heap) /\ FromText(t, heap) /\ NewestLast
  BY DEF InText
<1>3. tn.left = left /\ tn.right = right /\ tn.complement = FALSE
  OBVIOUS
<1>4. PICK W : /\ IsValue(W, heap') /\ W[h + 1] = Plain(V, tn)
               /\ \A i \in 1 .. h : W[i] = V[i]
  <2>1. Extends(heap', heap, tn)
    BY <1>0, <1>1 DEF Extends
  <2>2. Links(tn, Len(heap)) /\ ~ tn.complement
    BY <1>3 DEF Links
  <2>3. \E W : /\ IsValue(W, heap') /\ W[Len(heap) + 1] = Plain(V, tn)
               /\ Agree(V, W, Len(heap))
    BY ONLY ParseInv, <1>2, <2>1, <2>2, ValueExtends
  <2> QED
    BY <1>0, <2>3 DEF Agree
<1>5. FromText(t, heap')
  BY <1>0, <1>1, <1>2, FromTextExtends
<1>6. PICK s \in Symbol : /\ s = Tree(sym, h + 1)
                          /\ s.sym = sym /\ s.node = h + 1
  <2>1. h + 1 \in Nat /\ sym \in Terminal \cup {"term", "query", "END"}
    OBVIOUS
  <2> QED
    BY <2>1, NoneIs
<1>7. s.sym = sym /\ s.node = h + 1 /\ Phrase(s)
  BY <1>6 DEF Phrase
<1>8. PICK m \in Nat : m = Len(stack)
  BY StackIs DEF ParseInv
<1>9. \A k \in 1 .. Len(stack) - n :
        Phrase(stack[k]) => /\ stack[k].node < Len(heap')
                            /\ W[stack[k].node] = V[stack[k].node]
  <2> TAKE k \in 1 .. Len(stack) - n
  <2> HAVE Phrase(stack[k])
  <2>1. k \in 1 .. Len(stack)
    BY <1>8
  <2>2. stack[k].node \in 1 .. h
    BY <1>0, <1>1, <2>1 DEF ParseInv, HeapInv, Phrase
  <2>3. stack[k].node < h + 1
    BY ONLY <2>2
  <2>4. W[stack[k].node] = V[stack[k].node]
    BY <1>4, <2>2
  <2> QED
    BY <1>1, <2>3, <2>4
<1>10. Covers(t, P, W, s, b[Len(stack) - n + 1], b[Len(stack) + 1])
  <2>1. sym # "ATTR" /\ sym \notin Op \cup {"(", ")", "~"}
    BY DEF Op
  <2> QED
    BY <1>4, <1>7, <2>1 DEF Covers
<1>11. stack' = Reduced(n, s) /\ s.node = Len(heap')
  BY <1>1, <1>6, <1>7
<1>12. \E c : InText(t, P, q, c, W)'
  BY <1>4, <1>5, <1>7, <1>9, <1>10, <1>11, ReducedReads
<1> QED
  BY <1>12

LEMMA ReduceAttrReads ==
  ASSUME ParseInv, ReduceAttr, ~ fault',
         NEW t \in Seq(Piece), NEW P, Meaning(P, t),
         NEW q, NEW b, NEW V, InText(t, P, q, b, V)
  PROVE  \E c, W : InText(t, P, q, c, W)'
<1>1. PICK m \in Nat : m = Len(stack)
  BY StackIs DEF ParseInv
<1>2. /\ 1 <= m /\ m \in 1 .. m /\ Top = stack[m] /\ Top.sym = "ATTR"
      /\ Top.str \in Seq(Letter)
  BY <1>1, ReducesAttr DEF ReduceAttr
<1>3. Make(1, "term", Top.str, 0, 0) /\ Reduction
  BY DEF ReduceAttr
<1>4. /\ b[m] + 1 \in 1 .. Len(t) /\ b[m + 1] \in b[m] + 1 .. Len(t)
      /\ b[m] < b[m + 1]
      /\ Covers(t, P, V, stack[m], b[m], b[m + 1])
  BY <1>1, <1>2, PlacesIs
<1>5. PICK i \in 1 .. Len(t), j \in 1 .. Len(t) :
        i = b[m] + 1 /\ j = b[m + 1] /\ i <= j
  <2>1. b[m + 1] \in 1 .. Len(t) /\ b[m] + 1 <= b[m + 1]
    BY <1>4
  <2> QED
    BY <1>4, <2>1, Zenon
<1>6. /\ WordEnds(t, j)
      /\ \E a \in i .. j : /\ Blank(t, i, a - 1)
                           /\ \A x \in a .. j : t[x] \in Letter
                           /\ Top.str = SubSeq(t, a, j)
  BY <1>2, <1>4, <1>5 DEF Covers
<1>7. PICK a \in i .. j : /\ Blank(t, i, a - 1)
                          /\ \A x \in a .. j : t[x] \in Letter
                          /\ Top.str = SubSeq(t, a, j)
  BY <1>6
<1>8. a \in i .. Len(t) /\ j \in a .. Len(t) /\ a \in 1 .. Len(t)
  BY <1>5, <1>7
<1>9. Hits(Top.str) \in At(P, "term", i, j)
  <2>1. "term" \in Kind
    BY DEF Kind
  <2> QED
    BY <1>7, <1>8, <2>1, WordReads
<1>10. t[j] \in Closing
  <2>1. j \in a .. j
    BY <1>8
  <2> QED
    BY <1>7, <2>1 DEF Closing
<1> DEFINE tn == [str |-> Top.str, left |-> 0, right |-> 0,
                  complement |-> FALSE]
<1>11. Written(t, tn)
  BY <1>7, <1>8 DEF Written
<1>12. Plain(V, tn) \in At(P, "term", b[m] + 1, b[m + 1])
  BY <1>5, <1>9 DEF Plain
<1>13. m - 1 + 1 = m /\ 1 \in 1 .. 3
  OBVIOUS
<1>14. 0 \in 0 .. Len(heap) /\ Top.str \in Seq(Letter \cup Op)
  <2>1. heap \in Seq(TreeNode)
    BY DEF ParseInv, TypeInv
  <2>2. Len(heap) \in Nat
    BY <2>1
  <2> QED
    BY <1>2, <2>2, OpStr
<1> QED
  BY <1>1, <1>2, <1>3, <1>4, <1>5, <1>6, <1>10, <1>11, <1>12, <1>13, <1>14,
     MadeReads

LEMMA NodesAre ==
  ASSUME ParseInv, query_err = "SUCCESS", NEW k \in 1 .. Len(stack),
         Phrase(stack[k])
  PROVE  stack[k].node \in 1 .. Len(heap) /\ stack[k].node # 0
<1>1. stack[k].node \in 1 .. Len(heap)
  BY DEF ParseInv, HeapInv, Phrase
<1> QED
  BY <1>1

LEMMA ReduceBinaryReads ==
  ASSUME ParseInv, ReduceBinary, ~ fault',
         NEW t \in Seq(Piece), NEW P, Meaning(P, t),
         NEW q, NEW b, NEW V, InText(t, P, q, b, V)
  PROVE  \E c, W : InText(t, P, q, c, W)'
<1>1. PICK m \in Nat : m = Len(stack)
  BY StackIs DEF ParseInv
<1>2. /\ 3 <= m /\ m \in 1 .. m /\ m - 1 \in 1 .. m /\ m - 2 \in 1 .. m
      /\ Top = stack[m] /\ stack[m].sym = "term"
      /\ Below = stack[m - 1] /\ stack[m - 1].sym \in Op
      /\ stack[m - 2].sym = "query"
  BY <1>1, ReducesBinary
<1>3. /\ Make(3, "query", <<Below.sym>>, stack[m - 2].node, Top.node)
      /\ Reduction
  <2>1. Size = m
    BY <1>1 DEF Size
  <2> QED
    BY <2>1 DEF ReduceBinary
<1>4. PICK o \in Op : Below.sym = o /\ stack[m - 1].sym = o
  BY <1>2
<1>5. <<o>> \in Seq(Letter \cup Op) /\ <<o>>[1] = o
  BY OpStr
<1>6. /\ stack[m - 2] \in Symbol /\ stack[m] \in Symbol
      /\ stack[m - 2].node \in Nat /\ stack[m].node \in Nat
  <2>1. stack[m - 2] \in Symbol /\ stack[m] \in Symbol
    BY <1>1, <1>2, StackIs DEF ParseInv
  <2> QED
    BY <2>1 DEF Symbol
<1>7. query_err = "SUCCESS"
  BY <1>2, <1>3, <1>4, <1>5, <1>6, MakeIs
<1>8. PICK l \in 1 .. Len(heap), r \in 1 .. Len(heap) :
        l = stack[m - 2].node /\ r = stack[m].node /\ l # 0 /\ r # 0
  <2>1. Phrase(stack[m - 2]) /\ Phrase(stack[m])
    BY <1>2 DEF Phrase
  <2> QED
    BY <1>1, <1>2, <1>7, <2>1, NodesAre
<1>9. (m - 2) + 1 = m - 1 /\ (m - 1) + 1 = m /\ m - 3 + 1 = m - 2
  BY <1>1
<1>10. /\ b[m - 2] + 1 \in 1 .. Len(t) /\ b[m - 1] \in b[m - 2] + 1 .. Len(t)
       /\ b[m - 2] < b[m - 1] /\ b[m - 2] \in 0 .. Len(t)
       /\ Covers(t, P, V, stack[m - 2], b[m - 2], b[m - 1])
  BY <1>1, <1>2, <1>9, PlacesIs
<1>11. /\ b[m - 1] + 1 \in 1 .. Len(t) /\ b[m] \in b[m - 1] + 1 .. Len(t)
       /\ b[m - 1] < b[m]
       /\ Covers(t, P, V, stack[m - 1], b[m - 1], b[m])
  BY <1>1, <1>2, <1>9, PlacesIs
<1>12. /\ b[m] + 1 \in 1 .. Len(t) /\ b[m + 1] \in b[m] + 1 .. Len(t)
       /\ b[m] < b[m + 1]
       /\ Covers(t, P, V, stack[m], b[m], b[m + 1])
  BY <1>1, <1>2, PlacesIs
<1>13. PICK i \in 1 .. Len(t), a \in 1 .. Len(t), x \in 1 .. Len(t),
            j \in 1 .. Len(t) :
              i = b[m - 2] + 1 /\ a = b[m - 1] /\ x = b[m] /\ j = b[m + 1]
  <2>1. b[m - 1] \in 1 .. Len(t)
    BY <1>10
  <2>2. b[m] \in 1 .. Len(t)
    BY <1>11, <2>1
  <2>3. b[m + 1] \in 1 .. Len(t)
    BY <1>12, <2>2
  <2>4. b[m - 2] + 1 \in 1 .. Len(t)
    BY <1>10
  <2> QED
    BY <2>1, <2>2, <2>3, <2>4, Zenon
<1>14. /\ i <= a /\ a < x /\ x < j /\ b[m - 2] < j
       /\ x \in i .. Len(t) /\ j \in x .. Len(t)
  <2>1. i <= a /\ i = b[m - 2] + 1 /\ b[m - 2] \in Int
    BY <1>10, <1>13
  <2>2. a < x
    BY <1>11, <1>13
  <2>3. x < j
    BY <1>12, <1>13
  <2> QED
    BY <2>1, <2>2, <2>3
<1>15. V[l] \in At(P, "query", i, a)
  BY <1>2, <1>8, <1>10, <1>13 DEF Covers
<1>16. Blank(t, a + 1, x - 1) /\ t[x] = o
  BY <1>4, <1>11, <1>13 DEF Covers
<1>17. V[r] \in At(P, "term", x + 1, j) /\ t[j] \in Closing /\ WordEnds(t, j)
  BY <1>2, <1>8, <1>12, <1>13 DEF Covers
<1>18. V[l] \in At(P, "query", i, x - 1)
  <2>1. /\ i \in 1 .. Len(t) + 1 /\ x - 1 \in 0 .. Len(t)
        /\ a \in 0 .. x - 1 /\ "query" \in Kind
    BY <1>14 DEF Kind
  <2>2. At(P, "query", i, x - 1) = At(P, "query", i, a)
    BY <1>16, <2>1, StripRight
  <2> QED
    BY <1>15, <2>2
<1>19. Joined(o, V[l], V[r]) \in At(P, "query", i, j)
  <2>1. t[j] \notin Ignored
    BY <1>17, PieceIs DEF Closing
  <2>2. Joined(t[x], V[l], V[r]) \in At(P, "query", i, j)
    BY <1>14, <1>16, <1>17, <1>18, <2>1, JoinReads
  <2> QED
    BY <1>16, <2>2
<1> DEFINE tn == [str |-> <<o>>, left |-> l, right |-> r,
                  complement |-> FALSE]
<1>20. Written(t, tn)
  <2>1. tn.left = l /\ tn.str = <<t[x]>>
    BY <1>16
  <2> QED
    BY <1>8, <2>1 DEF Written
<1>21. Plain(V, tn) \in At(P, "query", i, j)
  <2>1. tn.left = l /\ tn.right = r /\ tn.str[1] = o
    BY <1>5
  <2>2. Plain(V, tn) = Joined(o, V[l], V[r])
    BY <1>8, <2>1 DEF Plain
  <2> QED
    BY <1>19, <2>2
<1>22. 3 \in 1 .. 3 /\ "query" \in {"term", "query"}
  OBVIOUS
<1>23. /\ l \in Nat /\ r \in Nat /\ l \in 0 .. Len(heap)
       /\ r \in 0 .. Len(heap)
  OBVIOUS
<1>24. Make(3, "query", <<o>>, l, r)
  BY <1>2, <1>3, <1>4, <1>8
<1> HIDE DEF tn
<1>25. tn = [str |-> <<o>>, left |-> l, right |-> r, complement |-> FALSE]
  BY DEF tn
<1>26. Plain(V, tn) \in At(P, "query", b[m - 2] + 1, b[m + 1])
  BY <1>13, <1>21
<1> QED
  BY <1>1, <1>2, <1>3, <1>5, <1>8, <1>9, <1>13, <1>14, <1>17, <1>20, <1>22,
     <1>23, <1>24, <1>25, <1>26, MadeReads

LEMMA ReduceComplementReads ==
  ASSUME ParseInv, ReduceComplement, ~ fault',
         NEW t \in Seq(Piece), NEW P, Meaning(P, t),
         NEW q, NEW b, NEW V, InText(t, P, q, b, V)
  PROVE  \E c, W : InText(t, P, q, c, W)'
<1>1. PICK m \in Nat : m = Len(stack)
  BY StackIs DEF ParseInv
<1>2. /\ 2 <= m /\ m \in 1 .. m /\ m - 1 \in 1 .. m
      /\ Top = stack[m] /\ stack[m].sym = "term" /\ Top \in Symbol
      /\ stack[m - 1].sym = "~"
  BY <1>1, ReducesComplement
<1>3. stack' = Reduced(2, Top) /\ Reduction /\ fault' = fault
  BY DEF ReduceComplement
<1>4. query_err = "SUCCESS"
  BY <1>3 DEF ParseInv, HeapInv
<1>5. PICK h \in Nat : h = Len(heap) /\ heap \in Seq(TreeNode)
  <2>1. heap \in Seq(TreeNode)
    BY DEF ParseInv, TypeInv
  <2> QED
    BY <2>1
<1>6. /\ Len(heap') = h /\ Top.node \in 1 .. h
      /\ \A i \in 1 .. h :
            /\ heap'[i].left = heap[i].left
            /\ heap'[i].right = heap[i].right
            /\ heap'[i].str = heap[i].str
            /\ i # Top.node => heap'[i] = heap[i]
            /\ i = Top.node => heap'[i].complement = (~ heap[i].complement)
  BY <1>4, <1>5, ComplementIs
<1>7. IsValue(V, heap) /\ FromText(t, heap) /\ NewestLast
  BY DEF InText
<1>8. Top.node = h
  <2>1. Phrase(stack[m]) /\ ~ \E l \in m + 1 .. m : Phrase(stack[l])
    BY <1>2 DEF Phrase
  <2> QED
    BY <1>1, <1>2, <1>5, <1>7, <2>1 DEF NewestLast
<1> DEFINE W == [i \in 1 .. h |-> IF i = h THEN Node \ V[i] ELSE V[i]]
<1>9. /\ W \in [1 .. h -> SUBSET Node] /\ W[h] = Node \ V[h]
      /\ V[h] \in SUBSET Node
      /\ \A i \in 1 .. h : i # h => W[i] = V[i]
  <2>1. V \in [1 .. h -> SUBSET Node]
    BY <1>5, <1>7 DEF IsValue
  <2>2. h \in 1 .. h
    BY <1>6, <1>8
  <2> QED
    BY <2>1, <2>2
<1> HIDE DEF W
<1>10. ASSUME NEW i \in 1 .. h PROVE W[i] = Value(W, heap'[i])
  <2>1. /\ i - 1 \in Nat
        /\ heap[i].left \in 0 .. i - 1 /\ heap[i].right \in 0 .. i - 1
        /\ heap[i].left # 0 => heap[i].right # 0
        /\ heap[i].complement \in BOOLEAN
    BY <1>5, NodeLinks DEF TreeNode
  <2>2. Agree(V, W, i - 1) /\ Links(heap[i], i - 1)
    <3>1. \A k \in 1 .. i - 1 : k \in 1 .. h /\ k # h
      OBVIOUS
    <3> QED
      BY <1>9, <2>1, <3>1 DEF Agree, Links
  <2>3. Plain(W, heap[i]) = Plain(V, heap[i])
    BY <2>1, <2>2, PlainSame
  <2>4. Plain(W, heap'[i]) = Plain(W, heap[i])
    BY <1>6 DEF Plain
  <2>5. V[i] = Value(V, heap[i])
    BY <1>5, <1>7 DEF IsValue
  <2>6. CASE i = h
    <3>1. heap'[i].complement = (~ heap[i].complement)
      BY <1>6, <1>8, <2>6
    <3>2. Plain(V, heap[i]) \in SUBSET Node
      <4>1. \A k \in 1 .. h : V[k] \in SUBSET Node
        BY <1>5, <1>7 DEF IsValue
      <4>2. /\ heap[i].left \in 0 .. h /\ heap[i].right \in 0 .. h
        BY <2>1
      <4> QED
        BY <2>1, <4>1, <4>2, PlainIs
    <3>3. CASE heap[i].complement
      <4>1. ~ heap'[i].complement
        BY <3>1, <3>3
      <4>2. Value(W, heap'[i]) = Plain(V, heap[i])
        BY <2>3, <2>4, <4>1 DEF Value
      <4>3. V[i] = Node \ Plain(V, heap[i])
        BY <2>5, <3>3 DEF Value
      <4>4. W[i] = Node \ (Node \ Plain(V, heap[i]))
        BY <1>9, <2>6, <4>3
      <4> QED
        BY <3>2, <4>2, <4>4
    <3>4. CASE ~ heap[i].complement
      <4>1. heap'[i].complement
        BY <3>1, <3>4
      <4>2. Value(W, heap'[i]) = Node \ Plain(V, heap[i])
        BY <2>3, <2>4, <4>1 DEF Value
      <4>3. V[i] = Plain(V, heap[i])
        BY <2>5, <3>4 DEF Value
      <4> QED
        BY <1>9, <2>6, <4>2, <4>3
    <3> QED
      BY <3>3, <3>4
  <2>7. CASE i # h
    <3>1. heap'[i] = heap[i]
      BY <1>6, <1>8, <2>7
    <3> QED
      BY <1>9, <2>3, <2>5, <2>7, <3>1 DEF Value
  <2> QED
    BY <2>6, <2>7
<1>11. IsValue(W, heap')
  BY <1>6, <1>9, <1>10 DEF IsValue
<1>12. FromText(t, heap')
  <2>1. ASSUME NEW i \in 1 .. h PROVE Written(t, heap'[i])
    <3>1. Written(t, heap[i])
      BY <1>5, <1>7 DEF FromText, Written
    <3>2. heap'[i].left = heap[i].left /\ heap'[i].str = heap[i].str
      BY <1>6
    <3> QED
      BY <3>1, <3>2 DEF Written
  <2> QED
    BY <1>6, <2>1 DEF FromText, Written
<1>13. (m - 1) + 1 = m /\ m - 2 + 1 = m - 1 /\ 2 \in 1 .. 3
  BY <1>1
<1>14. /\ b[m - 1] + 1 \in 1 .. Len(t) /\ b[m] \in b[m - 1] + 1 .. Len(t)
       /\ b[m - 1] < b[m] /\ b[m - 1] \in 0 .. Len(t)
       /\ Covers(t, P, V, stack[m - 1], b[m - 1], b[m])
  BY <1>1, <1>2, <1>13, PlacesIs
<1>15. /\ b[m] + 1 \in 1 .. Len(t) /\ b[m + 1] \in b[m] + 1 .. Len(t)
       /\ b[m] < b[m + 1]
       /\ Covers(t, P, V, stack[m], b[m], b[m + 1])
  BY <1>1, <1>2, PlacesIs
<1>16. PICK i \in 1 .. Len(t), a \in 1 .. Len(t), j \in 1 .. Len(t) :
              i = b[m - 1] + 1 /\ a = b[m] /\ j = b[m + 1]
  <2>1. b[m] \in 1 .. Len(t)
    BY <1>14
  <2>2. b[m + 1] \in 1 .. Len(t)
    BY <1>15, <2>1
  <2>3. b[m - 1] + 1 \in 1 .. Len(t)
    BY <1>14
  <2> QED
    BY <2>1, <2>2, <2>3, Zenon
<1>17. /\ i <= a /\ a < j /\ b[m - 1] < j
       /\ a \in i .. Len(t) /\ j \in a .. Len(t)
  BY <1>14, <1>15, <1>16
<1>18. Blank(t, i, a - 1) /\ t[a] = "~"
  BY <1>2, <1>14, <1>16 DEF Covers
<1>19. /\ V[h] \in At(P, "term", a + 1, j)
       /\ t[j] \in Closing /\ WordEnds(t, j)
  BY <1>2, <1>8, <1>15, <1>16 DEF Covers
<1>20. W[h] \in At(P, "term", i, j)
  <2>1. t[j] \notin Ignored /\ "term" \in Kind
    BY <1>19, PieceIs DEF Closing, Kind
  <2>2. Node \ V[h] \in At(P, "term", i, j)
    BY <1>17, <1>18, <1>19, <2>1, ComplementReads
  <2> QED
    BY <1>9, <2>2
<1>21. Covers(t, P, W, Top, b[m - 1], b[m + 1])
  <2>1. "term" # "ATTR" /\ "term" \notin Op \cup {"(", ")", "~"}
    BY DEF Op
  <2> QED
    BY <1>2, <1>8, <1>16, <1>17, <1>19, <1>20, <2>1 DEF Covers
<1>22. ASSUME NEW k \in 1 .. m - 2, Phrase(stack[k])
       PROVE  stack[k].node < h /\ W[stack[k].node] = V[stack[k].node]
  <2>1. k \in 1 .. m /\ m \in k + 1 .. m
    OBVIOUS
  <2>2. Phrase(stack[m])
    BY <1>2 DEF Phrase
  <2>3. stack[k].node < h
    BY <1>1, <1>5, <1>7, <1>22, <2>1, <2>2 DEF NewestLast
  <2>4. stack[k].node \in 1 .. h
    BY <1>1, <1>4, <1>5, <1>22, <2>1, NodesAre
  <2>5. stack[k].node # h
    BY <2>3, <2>4
  <2> QED
    BY <1>9, <2>3, <2>4, <2>5
<1>23. Phrase(Top)
  BY <1>2 DEF Phrase
<1>24. \E c : InText(t, P, q, c, W)'
  BY <1>1, <1>2, <1>3, <1>6, <1>8, <1>11, <1>12, <1>13, <1>21, <1>22, <1>23,
     ReducedReads
<1> QED
  BY <1>24

-----------------------------------------------------------------------------
(* What a syntax error says of the text, and what its absence does.        *)

LEMMA DepthBlank ==
  ASSUME NEW t \in Seq(Piece), NEW d, Depth(d, t),
         NEW e \in 0 .. Len(t), NEW q \in e .. Len(t), Blank(t, e + 1, q)
  PROVE  d[q] = d[e]
<1> DEFINE T == {n \in Nat : e + n <= q => d[e + n] = d[e]}
<1>0. Len(t) \in Nat /\ e \in Nat /\ q \in Nat /\ e <= q
  OBVIOUS
<1>1. 0 \in T
  OBVIOUS
<1>2. ASSUME NEW n \in Nat, n \in T PROVE n + 1 \in T
  <2> SUFFICES ASSUME e + (n + 1) <= q PROVE d[e + (n + 1)] = d[e]
    OBVIOUS
  <2>1. /\ e + (n + 1) \in 1 .. Len(t) /\ (e + (n + 1)) - 1 = e + n
        /\ e + n <= q /\ e + (n + 1) \in e + 1 .. q
    BY <1>0
  <2>2. t[e + (n + 1)] \in Ignored
    BY <2>1 DEF Blank
  <2>3. d[e + n] = d[e]
    BY <1>2, <2>1
  <2>4. t[e + (n + 1)] # "(" /\ t[e + (n + 1)] # ")"
    BY <2>2, PieceIs
  <2>5. d[e + (n + 1)] = d[e + n]
    BY <2>1, <2>4, DepthIs
  <2> QED
    BY <2>3, <2>5
<1>3. q - e \in T
  <2> HIDE DEF T
  <2>1. q - e \in Nat
    BY <1>0
  <2> QED
    BY <1>1, <1>2, <2>1, Induction
<1>4. e + (q - e) = q /\ e + (q - e) <= q
  BY <1>0
<1> QED
  BY <1>3, <1>4

\* The end of the stack in the text, where the parser stops to look.
Stopped(t, P, V, d, q, e) ==
  /\ Depth(d, t) /\ Shape(t, d, 1, Len(t))
  /\ q \in 0 .. Len(t) /\ e \in 0 .. Len(t)
  /\ Looked(t, P, q, e, V)

LEMMA StoppedIs ==
  ASSUME NEW t \in Seq(Piece), NEW P, NEW V, NEW d, NEW q, NEW e,
         Stopped(t, P, V, d, q, e)
  PROVE  /\ look.sym \in Op \cup {"(", ")", "~"} =>
              /\ e < q /\ q \in 1 .. Len(t) /\ Blank(t, e + 1, q - 1)
              /\ t[q] = look.sym /\ t[q] \notin Ignored
         /\ look.sym = "ATTR" =>
              \E a \in e + 1 .. Len(t) :
                 /\ Blank(t, e + 1, a - 1) /\ t[a] \in Letter
                 /\ t[a] \notin Ignored
         /\ look.sym = "END" => q = Len(t) /\ Blank(t, e + 1, Len(t))
<1>1. Len(t) \in Nat /\ q \in 0 .. Len(t) /\ e \in 0 .. Len(t)
  BY DEF Stopped
<1>2. Looked(t, P, q, e, V)
  BY DEF Stopped
<1>3. ASSUME look.sym \in Op \cup {"(", ")", "~"}
      PROVE  /\ e < q /\ q \in 1 .. Len(t) /\ Blank(t, e + 1, q - 1)
             /\ t[q] = look.sym /\ t[q] \notin Ignored
  <2>1. look.sym \in Terminal
    BY <1>3 DEF Terminal
  <2>2. e < q /\ Blank(t, e + 1, q - 1) /\ t[q] = look.sym
    BY <1>2, <1>3, <2>1 DEF Looked, Covers
  <2>3. q \in 1 .. Len(t)
    BY <1>1, <2>2
  <2> QED
    BY <1>3, <2>2, <2>3, PieceIs
<1>4. ASSUME look.sym = "ATTR"
      PROVE  \E a \in e + 1 .. Len(t) :
                 /\ Blank(t, e + 1, a - 1) /\ t[a] \in Letter
                 /\ t[a] \notin Ignored
  <2>1. look.sym \in Terminal
    BY <1>4 DEF Terminal
  <2>2. PICK a \in e + 1 .. q : /\ Blank(t, e + 1, a - 1)
                                /\ \A x \in a .. q : t[x] \in Letter
    BY <1>2, <1>4, <2>1 DEF Looked, Covers
  <2>3. a \in a .. q /\ a \in e + 1 .. Len(t)
    BY <1>1, <2>2
  <2>4. t[a] \in Letter
    BY <2>2, <2>3
  <2> QED
    BY <2>2, <2>3, <2>4, PieceIs
<1>5. ASSUME look.sym = "END"
      PROVE  q = Len(t) /\ Blank(t, e + 1, Len(t))
  BY <1>2, <1>5 DEF Looked
<1> QED
  BY <1>3, <1>4, <1>5

\* Nothing is read yet, or an operator, "(" or "~" was read last.
LEMMA StoppedEarly ==
  ASSUME NEW t \in Seq(Piece), NEW P, NEW V, NEW d, NEW q, NEW e,
         Stopped(t, P, V, d, q, e),
         look.sym \in Op \cup {")", "END"},
         \/ e = 0
         \/ e \in 1 .. Len(t) /\ t[e] \in Op \cup {"(", "~"}
  PROVE  FALSE
<1>1. Len(t) \in Nat /\ Shape(t, d, 1, Len(t))
  BY DEF Stopped
<1>2. PICK a \in 1 .. Len(t) : Blank(t, 1, a - 1) /\ t[a] \in Opening
  BY <1>1 DEF Shape, First
<1>3. PICK z \in 1 .. Len(t) : Blank(t, z + 1, Len(t)) /\ t[z] \in Closing
  BY <1>1 DEF Shape, Last
<1>4. t[a] \notin Ignored /\ t[z] \notin Ignored
  BY <1>2, <1>3, PieceIs DEF Opening, Closing
<1>5. /\ \A x \in Op \cup {")"} : x \notin Opening
      /\ \A x \in Op \cup {"(", "~"} : x \notin Closing /\ x \notin Letter
      /\ \A x \in Op \cup {"(", "~"} : x \notin Ignored
  BY PieceIs DEF Opening, Closing
<1>6. CASE look.sym \in Op \cup {")"}
  <2>1. /\ e < q /\ q \in 1 .. Len(t) /\ Blank(t, e + 1, q - 1)
        /\ t[q] \in Op \cup {")"} /\ t[q] \notin Ignored
    BY <1>6, StoppedIs
  <2>2. CASE e = 0
    <3>1. ~ (a < q)
      <4>1. a < q => a \in e + 1 .. q - 1
        BY <2>1, <2>2
      <4> QED
        BY <1>4, <2>1, <4>1 DEF Blank
    <3>2. ~ (q < a)
      <4>1. q < a => q \in 1 .. a - 1
        BY <2>1
      <4> QED
        BY <1>2, <2>1, <4>1 DEF Blank
    <3>3. a = q
      BY <2>1, <3>1, <3>2
    <3> QED
      BY <1>2, <1>5, <2>1, <3>3
  <2>3. CASE e \in 1 .. Len(t) /\ t[e] \in Op \cup {"(", "~"}
    <3>1. t[e] \notin Ignored
      BY <1>5, <2>3
    <3>2. Legal(t, e, q)
      BY <1>1, <2>1, <2>3, <3>1 DEF Shape, Neighbours
    <3> QED
      BY <1>5, <2>1, <2>3, <3>2 DEF Legal
  <2> QED
    BY <2>2, <2>3
<1>7. CASE look.sym = "END"
  <2>1. Blank(t, e + 1, Len(t))
    BY <1>7, StoppedIs
  <2>2. CASE e = 0
    <3>1. a \in e + 1 .. Len(t)
      BY <2>2
    <3> QED
      BY <1>4, <2>1, <3>1 DEF Blank
  <2>3. CASE e \in 1 .. Len(t) /\ t[e] \in Op \cup {"(", "~"}
    <3>1. ~ (z < e)
      <4>1. z < e => e \in z + 1 .. Len(t)
        BY <2>3
      <4> QED
        BY <1>3, <1>5, <2>3, <4>1 DEF Blank
    <3>2. ~ (e < z)
      <4>1. e < z => z \in e + 1 .. Len(t)
        BY <2>3
      <4> QED
        BY <1>4, <2>1, <4>1 DEF Blank
    <3>3. z = e
      BY <2>3, <3>1, <3>2
    <3> QED
      BY <1>3, <1>5, <2>3, <3>3
  <2> QED
    BY <2>2, <2>3
<1> QED
  BY <1>6, <1>7

\* A query was read, and something follows that no query is followed by.
LEMMA StoppedBehind ==
  ASSUME NEW t \in Seq(Piece), NEW P, NEW V, NEW d, NEW q, NEW e,
         Stopped(t, P, V, d, q, e),
         look.sym \in {"ATTR", "(", "~"},
         e \in 1 .. Len(t), t[e] \in Closing, WordEnds(t, e)
  PROVE  FALSE
<1>1. Len(t) \in Nat /\ Neighbours(t, 1, Len(t))
  BY DEF Stopped, Shape
<1>2. t[e] \notin Ignored /\ t[e] \notin Op \cup {"(", "~"}
  BY PieceIs DEF Closing
<1>3. CASE look.sym \in {"(", "~"}
  <2>1. /\ e < q /\ q \in 1 .. Len(t) /\ Blank(t, e + 1, q - 1)
        /\ t[q] \in {"(", "~"} /\ t[q] \notin Ignored
    BY <1>3, StoppedIs
  <2>2. Legal(t, e, q)
    BY <1>1, <1>2, <2>1 DEF Neighbours
  <2> QED
    BY <1>2, <2>1, <2>2, PieceIs DEF Legal
<1>4. CASE look.sym = "ATTR"
  <2>1. PICK a \in e + 1 .. Len(t) :
          Blank(t, e + 1, a - 1) /\ t[a] \in Letter /\ t[a] \notin Ignored
    BY <1>4, StoppedIs
  <2>2. e < a /\ a \in 1 .. Len(t) /\ e < Len(t)
    BY <2>1
  <2>3. Legal(t, e, a)
    BY <1>1, <1>2, <2>1, <2>2 DEF Neighbours
  <2>4. t[e] \in Letter /\ a = e + 1
    BY <1>2, <2>1, <2>3, PieceIs DEF Legal
  <2> QED
    BY <2>1, <2>2, <2>4 DEF WordEnds
<1> QED
  BY <1>3, <1>4

\* Parentheses that are not closed, or not opened.
LEMMA StoppedInParens ==
  ASSUME NEW t \in Seq(Piece), NEW P, NEW V, NEW d, NEW q, NEW e,
         Stopped(t, P, V, d, q, e), NEW f \in 0 .. e,
         d[e] = d[f],
         \/ look.sym = ")" /\ f = 0
         \/ look.sym = "END" /\ f # 0 /\ t[f] = "("
  PROVE  FALSE
<1>1. /\ Len(t) \in Nat /\ Depth(d, t) /\ Balanced(d, 1, Len(t))
      /\ e \in 0 .. Len(t) /\ f \in 0 .. Len(t)
  BY DEF Stopped, Shape
<1>2. /\ d[0] = 0 /\ d[Len(t)] = 0
      /\ \A x \in 0 .. Len(t) : d[x] \in Int /\ 0 <= d[x]
  <2>1. d[0] = 0 /\ d \in [0 .. Len(t) -> Int] /\ 1 - 1 = 0
    BY <1>1 DEF Depth
  <2>2. \A x \in 1 .. Len(t) : 0 <= d[x]
    BY <1>1, <2>1 DEF Balanced
  <2>3. \A x \in 0 .. Len(t) : x = 0 \/ x \in 1 .. Len(t)
    BY <1>1
  <2>4. d[Len(t)] = 0
    BY <1>1, <2>1 DEF Balanced
  <2> QED
    BY <2>1, <2>2, <2>3, <2>4
<1>3. CASE look.sym = ")" /\ f = 0
  <2>1. e < q /\ q \in 1 .. Len(t) /\ Blank(t, e + 1, q - 1) /\ t[q] = ")"
    BY <1>3, StoppedIs
  <2>2. q - 1 \in e .. Len(t) /\ q - 1 \in 0 .. Len(t)
    BY <1>1, <2>1
  <2>3. d[q - 1] = 0
    BY <1>1, <1>2, <1>3, <2>1, <2>2, DepthBlank
  <2>4. d[q] = d[q - 1] - 1
    BY <1>1, <2>1, DepthIs
  <2>5. q \in 0 .. Len(t)
    BY <2>1
  <2>6. 0 <= d[q]
    BY <1>2, <2>5
  <2> QED
    BY <2>3, <2>4, <2>6
<1>4. CASE look.sym = "END" /\ f # 0 /\ t[f] = "("
  <2>1. Blank(t, e + 1, Len(t))
    BY <1>4, StoppedIs
  <2>2. Len(t) \in e .. Len(t)
    BY <1>1
  <2>3. d[e] = 0
    BY <1>1, <1>2, <2>1, <2>2, DepthBlank
  <2>4. f \in 1 .. Len(t) /\ f - 1 \in 0 .. Len(t)
    BY <1>1, <1>4
  <2>5. d[f] = d[f - 1] + 1
    BY <1>1, <1>4, <2>4, DepthIs
  <2>6. d[f - 1] \in Int /\ 0 <= d[f - 1]
    BY <1>2, <2>4
  <2>7. d[f] = 0
    BY <2>3
  <2>8. d[f - 1] + 1 = 0
    BY <2>5, <2>7
  <2> QED
    BY ONLY <2>6, <2>8
<1> QED
  BY <1>3, <1>4

\* The query on the stack of a parser that has read a whole query.
LEMMA AcceptReads ==
  ASSUME ParseInv, Complete, look.sym = "END",
         NEW t \in Seq(Piece), NEW P, Meaning(P, t),
         NEW q, NEW b, NEW V, InText(t, P, q, b, V)
  PROVE  V[Top.node] \in At(P, "query", 1, Len(t))
<1>1. Len(stack) = 1 /\ stack[1] = Top /\ Top.sym = "query"
  BY CompleteIs
<1>2. 1 \in 1 .. Len(stack) /\ 1 + 1 = Len(stack) + 1
  BY <1>1
<1>3. b[1] = 0
  BY DEF InText, InStack
<1>4. /\ b[1] < b[2] /\ b[2] \in b[1] + 1 .. Len(t)
      /\ Covers(t, P, V, stack[1], b[1], b[2])
  BY <1>2, PlacesIs
<1>5. PICK e \in 1 .. Len(t) : e = b[2]
  BY <1>3, <1>4
<1>6. V[Top.node] \in At(P, "query", 1, e)
  BY <1>1, <1>3, <1>4, <1>5 DEF Covers
<1>7. q = Len(t) /\ Blank(t, e + 1, Len(t))
  <2>1. Looked(t, P, q, b[2], V)
    BY <1>1 DEF InText
  <2> QED
    BY <1>5, <2>1 DEF Looked
<1>8. At(P, "query", 1, Len(t)) = At(P, "query", 1, e)
  <2>1. /\ 1 \in 1 .. Len(t) + 1 /\ Len(t) \in 0 .. Len(t)
        /\ e \in 0 .. Len(t) /\ "query" \in Kind
    BY <1>5 DEF Kind
  <2> QED
    BY <1>7, <2>1, StripRight
<1> QED
  BY <1>6, <1>8

LEMMA SyntaxErrorReads ==
  ASSUME ParseInv, SyntaxError,
         NEW t \in Seq(Piece), NEW P, Meaning(P, t),
         NEW q, NEW b, NEW V, InText(t, P, q, b, V)
  PROVE  At(P, "query", 1, Len(t)) = {}
<1> SUFFICES ASSUME At(P, "query", 1, Len(t)) # {} PROVE FALSE
  OBVIOUS
<1>1. Len(t) \in Nat
  OBVIOUS
<1>2. PICK d : Depth(d, t)
  BY DepthExists
<1>3. "query" \in Kind /\ 1 \in 1 .. Len(t) + 1 /\ Len(t) \in 0 .. Len(t)
  BY <1>1 DEF Kind
<1>4. Shape(t, d, 1, Len(t))
  BY <1>2, <1>3, ReadingShapes
<1>5. PICK m \in Nat : m = Len(stack)
  BY StackIs DEF ParseInv
<1>6. /\ look # None /\ Top.sym \notin {"ATTR", "term", ")"}
      /\ look.sym \notin Expected /\ ~ (Complete /\ look.sym \in Finals)
  BY DEF SyntaxError, Reducing
<1>7. look.sym \in Op \cup {"(", ")", "~", "ATTR", "END"}
  BY <1>6 DEF ParseInv, StackInv, Terminal
<1>8. PICK e \in 0 .. Len(t) : e = b[m + 1]
  BY <1>5, EndOfStack DEF InText
<1>9. Stopped(t, P, V, d, q, e)
  <2>1. Looked(t, P, q, e, V) /\ q \in 0 .. Len(t)
    BY <1>5, <1>8 DEF InText, Remains
  <2> QED
    BY <1>2, <1>4, <2>1 DEF Stopped
<1>10. CASE m = 0
  <2>1. Top.sym = "none" /\ e = 0
    <3>1. stack = <<>>
      BY <1>5, <1>10, StackIs DEF ParseInv
    <3>2. b[1] = 0
      BY DEF InText, InStack
    <3> QED
      BY <1>8, <1>10, <3>1, <3>2, NoneIs DEF Top
  <2>2. look.sym \in Op \cup {")", "END"}
    BY <1>6, <1>7, <2>1 DEF Expected
  <2> QED
    BY <1>9, <2>1, <2>2, StoppedEarly
<1>11. CASE m # 0
  <2>1. /\ m \in 1 .. m /\ Top = stack[m]
        /\ Top.sym \in Terminal \cup {"term", "query"}
    <3>1. Top = stack[m]
      BY <1>5, <1>11, StackIs DEF ParseInv, Top
    <3>2. m \in 1 .. m
      BY <1>11
    <3> QED
      BY <1>5, <3>1, <3>2, StackIs DEF ParseInv
  <2>2. /\ b[m] < b[m + 1] /\ b[m] \in 0 .. Len(t)
        /\ b[m] + 1 \in 1 .. Len(t) /\ b[m + 1] \in b[m] + 1 .. Len(t)
        /\ Covers(t, P, V, stack[m], b[m], b[m + 1])
    BY <1>5, <2>1, PlacesIs
  <2>3. e \in 1 .. Len(t)
    BY <1>8, <2>2
  <2>4. CASE Top.sym # "query"
    <3>1. Top.sym \in Op \cup {"(", "~"}
      BY <1>6, <2>1, <2>4 DEF Terminal
    <3>2. t[e] = Top.sym
      BY <1>8, <2>1, <2>2, <3>1 DEF Covers
    <3>3. look.sym \in Op \cup {")", "END"}
      BY <1>6, <1>7, <2>4 DEF Expected
    <3> QED
      BY <1>9, <2>3, <3>1, <3>2, <3>3, StoppedEarly
  <2>5. CASE Top.sym = "query"
    <3>1. /\ V[stack[m].node] \in At(P, "query", b[m] + 1, e)
          /\ t[e] \in Closing /\ WordEnds(t, e)
      BY <1>8, <2>1, <2>2, <2>5 DEF Covers
    <3>2. d[e] = d[b[m]]
      <4>1. PICK i \in 1 .. Len(t) + 1 : i = b[m] + 1 /\ i - 1 = b[m]
        <5>1. b[m] + 1 \in 1 .. Len(t) + 1 /\ (b[m] + 1) - 1 = b[m]
          BY <2>2
        <5> QED
          BY <5>1, Zenon
      <4>2. At(P, "query", i, e) # {}
        BY <3>1, <4>1
      <4>3. Shape(t, d, i, e)
        BY <1>2, <1>3, <1>8, <4>2, ReadingShapes
      <4> QED
        BY <4>1, <4>3 DEF Shape, Balanced
    <3>3. b[m] \in 0 .. e
      BY <1>8, <2>2
    <3>4. CASE look.sym \in {"ATTR", "(", "~"}
      BY <1>9, <2>3, <3>1, <3>4, StoppedBehind
    <3>5. CASE look.sym \in Op
      BY <1>6, <2>5, <3>5 DEF Expected
    <3>6. CASE look.sym \in {")", "END"}
      <4>1. CASE m = 1
        <5>1. Complete
          BY <1>5, <2>5, <4>1 DEF Complete, Size
        <5>2. look.sym = ")"
          BY <1>6, <3>6, <5>1 DEF Finals
        <5>3. b[m] = 0
          BY <4>1 DEF InText, InStack
        <5> QED
          BY <1>9, <3>2, <3>3, <5>2, <5>3, StoppedInParens
      <4>2. CASE m # 1
        <5>1. ~ Complete
          BY <1>5, <4>2 DEF Complete, Size
        <5>2. look.sym = "END"
          BY <1>6, <2>5, <3>6, <5>1 DEF Expected
        <5>3. m - 1 \in 1 .. Len(stack) /\ (m - 1) + 1 = m
          BY <1>5, <1>11, <4>2
        <5>4. stack[m - 1].sym = "("
          <6>1. Under(m) \in StandsOn("query") /\ Under(m) = stack[m - 1].sym
            BY <1>5, <2>1, <2>5, <4>2, StackIs DEF ParseInv, Under
          <6>2. stack[m - 1].sym # "none"
            BY <5>3, StackIs DEF ParseInv
          <6> QED
            BY <6>1, <6>2 DEF StandsOn
        <5>5. /\ b[m - 1] < b[m] /\ b[m - 1] \in 0 .. Len(t)
              /\ Covers(t, P, V, stack[m - 1], b[m - 1], b[m])
          BY <5>3, PlacesIs
        <5>6. b[m] # 0 /\ t[b[m]] = "("
          BY <2>2, <5>4, <5>5 DEF Covers
        <5> QED
          BY <1>9, <3>2, <3>3, <5>2, <5>6, StoppedInParens
      <4> QED
        BY <4>1, <4>2
    <3> QED
      BY <1>7, <3>4, <3>5, <3>6
  <2> QED
    BY <2>4, <2>5
<1> QED
  BY <1>10, <1>11

-----------------------------------------------------------------------------
(* The text is read as the language says: the invariant.                   *)

Parsed(t, P) == \E q, b, V : InText(t, P, q, b, V)

Meant(t, P, V) ==
  /\ IsValue(V, heap) /\ FromText(t, heap)
  /\ V[treeroot] \in At(P, "query", 1, Len(t))

\* A parser that starts at the end of the file reads nothing, and any other
\* has read what the language says, unless memory ran out.
ReadInv ==
  /\ pc = "write" => heap = <<>>
  /\ pc = "parse" /\ deaf =>
       stack = <<>> /\ ((look = None /\ pending) \/ look.sym = "END")
  /\ pc = "parse" /\ ~ deaf /\ ~ fault =>
       \A P : Meaning(P, asked) => Parsed(asked, P)
  /\ pc = "calc" => ~ deaf
  /\ pc = "calc" /\ ~ fault =>
       \A P : Meaning(P, asked) => \E V : Meant(asked, P, V)

LEMMA WriteReads ==
  ASSUME ParseInv, ReadInv, Write, ~ pending, NEW P, NEW t, t = asked'
  PROVE  Parsed(t, P)'
<1>1. /\ pc = "write" /\ rest' = t /\ pending' = pending
      /\ look' = look /\ stack' = stack /\ heap' = heap
  BY DEF Write, parser
<1>2. look = None /\ stack = <<>> /\ heap = <<>>
  BY <1>1 DEF ParseInv, TypeInv, ReadInv
<1>3. t \in Seq(Piece)
  <2>1. rest \in Seq(Piece) /\ call.text \in Seq(Piece)
    BY DEF ParseInv, TypeInv, CallType
  <2> QED
    BY <2>1 DEF Write
<1>4. Len(t) \in Nat
  BY <1>3
<1>5. Remains(t, 0)'
  <2>1. Len(rest') = Len(t) - 0 /\ 0 \in 0 .. Len(t)
    BY <1>1, <1>4
  <2>2. \A x \in 1 .. Len(t) - 0 : rest'[x] = t[0 + x]
    BY <1>1
  <2>3. ~ pending'
    BY <1>1
  <2> QED
    BY <2>1, <2>2, <2>3 DEF Remains
<1> DEFINE b == [k \in 1 .. 1 |-> 0]
<1>6. b \in [1 .. 1 -> 0 .. Len(t)] /\ b[1] = 0
  BY <1>4
<1> HIDE DEF b
<1>7. Len(stack') = 0 /\ Len(heap') = 0
  BY <1>1, <1>2, EmptyIs
<1>8. InStack(t, P, b, <<>>)'
  <2>1. 0 + 1 = 1 /\ 1 .. 0 = {}
    OBVIOUS
  <2> QED
    BY <1>6, <1>7, <2>1 DEF InStack
<1>9. Looked(t, P, 0, b[Len(stack) + 1], <<>>)'
  <2>1. look'.sym = "none" /\ "none" \notin Terminal /\ 0 + 1 = 1
    BY <1>1, <1>2, NoneIs DEF Terminal, Op
  <2>2. b[Len(stack') + 1] = 0
    BY <1>6, <1>7, <2>1
  <2> QED
    BY <2>1, <2>2 DEF Looked
<1>10. IsValue(<<>>, heap')
  <2>1. 1 .. 0 = {} /\ <<>> \in [1 .. 0 -> SUBSET Node]
    OBVIOUS
  <2> QED
    BY <1>7, <2>1 DEF IsValue
<1>11. FromText(t, heap') /\ NewestLast'
  <2>1. 1 .. 0 = {}
    OBVIOUS
  <2> QED
    BY <1>7, <2>1 DEF FromText, NewestLast
<1>12. InText(t, P, 0, b, <<>>)'
  BY <1>5, <1>8, <1>9, <1>10, <1>11 DEF InText
<1> QED
  BY <1>12 DEF Parsed

LEMMA ParsedSame ==
  ASSUME UNCHANGED <<rest, pending, look, stack, heap>>, NEW t, NEW P,
         Parsed(t, P)
  PROVE  Parsed(t, P)'
BY ZenonT(60) DEF Parsed, InText, Remains, InStack, Looked, NewestLast

LEMMA ParserReads ==
  ASSUME ParseInv, ~ fault', NEW t \in Seq(Piece), NEW P, Meaning(P, t),
         Parsed(t, P),
         \/ Scan \/ Shift \/ ReduceAttr \/ ReduceBinary \/ ReduceTerm
         \/ ReduceParens \/ ReduceComplement
  PROVE  Parsed(t, P)'
<1>1. PICK q, b, V : InText(t, P, q, b, V)
  BY DEF Parsed
<1>2. \A r, c, W : InText(t, P, r, c, W)' => Parsed(t, P)'
  BY DEF Parsed
<1>3. CASE Scan
  BY <1>1, <1>2, <1>3, ScanReads
<1>4. CASE Shift
  BY <1>1, <1>2, <1>4, ShiftReads
<1>5. CASE ReduceAttr
  BY <1>1, <1>2, <1>5, ReduceAttrReads
<1>6. CASE ReduceBinary
  BY <1>1, <1>2, <1>6, ReduceBinaryReads
<1>7. CASE ReduceTerm
  BY <1>1, <1>2, <1>7, ReduceTermReads
<1>8. CASE ReduceParens
  BY <1>1, <1>2, <1>8, ReduceParensReads
<1>9. CASE ReduceComplement
  BY <1>1, <1>2, <1>9, ReduceComplementReads
<1> QED
  BY <1>3, <1>4, <1>5, <1>6, <1>7, <1>8, <1>9

LEMMA ReadInvInit ==
  Init => ReadInv
BY DEF Init, ReadInv

LEMMA ReadInvNext ==
  ASSUME ParseInv, ReadInv, [Next]_vars
  PROVE  ReadInv'
<1> USE DEF ReadInv
<1>1. /\ pc \in {"idle", "write", "parse", "calc"}
      /\ asked \in Seq(Piece) /\ deaf \in BOOLEAN /\ fault \in BOOLEAN
      /\ pc # "parse" => look = None /\ stack = <<>>
  BY DEF ParseInv, TypeInv
<1>2. CASE UNCHANGED vars
  <2>1. UNCHANGED <<rest, pending, look, stack, heap, pc, asked, deaf, fault,
                    treeroot>>
    BY <1>2 DEF vars, flexvars, parser
  <2>2. \A P : Parsed(asked, P) => Parsed(asked, P)'
    <3> TAKE P
    <3> HAVE Parsed(asked, P)
    <3>1. PICK t : t = asked
      OBVIOUS
    <3>2. Parsed(t, P)'
      BY <2>1, <3>1, ParsedSame
    <3> QED
      BY <2>1, <3>1, <3>2
  <2>3. \A P, V : Meant(asked, P, V) => Meant(asked, P, V)'
    BY <2>1 DEF Meant
  <2> QED
    BY <2>1, <2>2, <2>3
<1>3. ASSUME pc' = "idle" PROVE ReadInv'
  BY <1>3
<1>4. CASE Calls
  <2>1. pc' \in {"idle", "write"} /\ heap' = <<>>
    <3>1. \A o, n, l, t : Called(o, n, l, t) => heap' = <<>>
      BY DEF Called
    <3>2. \A l : QueryAll(l) => pc' = "idle" /\ heap' = <<>>
      BY <3>1 DEF QueryAll, AtOnce
    <3>3. \A o, e : Refuse(o, e) => pc' = "idle" /\ heap' = <<>>
      BY <3>1 DEF Refuse, AtOnce
    <3>4. \A o, n, l, t : Start(o, n, l, t) => pc' = "write" /\ heap' = <<>>
      BY <3>1 DEF Start
    <3> QED
      BY <1>4, <3>2, <3>3, <3>4 DEF Calls, Query, TestQuery
  <2> QED
    BY <2>1
<1>5. CASE Write
  <2>1. /\ pc' = "parse" /\ deaf' = pending /\ pending' = pending
        /\ look' = None /\ stack' = <<>>
    BY <1>1, <1>5 DEF Write, parser
  <2>2. ASSUME ~ pending, NEW P PROVE Parsed(asked, P)'
    <3>1. PICK t : t = asked'
      OBVIOUS
    <3>2. Parsed(t, P)'
      BY <1>5, <2>2, <3>1, WriteReads
    <3> QED
      BY <3>1, <3>2
  <2> QED
    BY <2>1, <2>2
<1>6. CASE /\ ~ deaf
           /\ \/ Scan \/ Shift \/ ReduceAttr \/ ReduceBinary \/ ReduceTerm
              \/ ReduceParens \/ ReduceComplement
  <2>1. /\ pc = "parse" /\ pc' = "parse" /\ asked' = asked /\ deaf' = deaf
        /\ fault => fault'
    BY <1>6 DEF Scan, Shift, ReduceAttr, ReduceBinary, ReduceTerm,
       ReduceParens, ReduceComplement, Reduction, Make
  <2>2. ASSUME ~ fault', NEW P, Meaning(P, asked)
        PROVE  Parsed(asked, P)'
    <3>1. PICK t \in Seq(Piece) : t = asked
      BY <1>1
    <3>2. Parsed(t, P) /\ Meaning(P, t)
      BY <1>6, <2>1, <2>2, <3>1
    <3>3. Parsed(t, P)'
      BY <1>6, <2>2, <3>2, ParserReads
    <3> QED
      BY <2>1, <3>1, <3>3
  <2> QED
    BY <1>6, <2>1, <2>2
<1>7. CASE Scan /\ deaf
  <2>1. /\ pc = "parse" /\ pc' = "parse" /\ deaf' = deaf /\ look = None
        /\ stack' = stack
    BY <1>7 DEF Scan
  <2>2. pending /\ stack = <<>>
    BY <1>7, <2>1, NoneIs
  <2>3. look' = Token("END")
    BY <1>7, <2>2, ScanIs DEF ParseInv
  <2> QED
    BY <1>7, <2>1, <2>2, <2>3, NoneIs
<1>8. ASSUME deaf, pc = "parse"
      PROVE  /\ stack = <<>> /\ Top.sym = "none" /\ ~ Complete /\ ~ Shift
             /\ ~ (ReduceAttr \/ ReduceBinary \/ ReduceTerm \/ ReduceParens
                     \/ ReduceComplement)
  <2>1. stack = <<>> /\ (look = None \/ look.sym = "END")
    BY <1>8
  <2>2. Top.sym = "none"
    BY <2>1, NoneIs DEF Top
  <2>3. ~ Complete
    BY <2>2 DEF Complete
  <2>4. ~ Shift
    <3>1. look.sym \in {"none", "END"}
      BY <2>1, NoneIs
    <3> QED
      BY <2>2, <3>1 DEF Shift, Expected
  <2>5. ~ (ReduceAttr \/ ReduceBinary \/ ReduceTerm \/ ReduceParens
             \/ ReduceComplement)
    BY <2>2 DEF ReduceAttr, ReduceBinary, ReduceTerm, ReduceParens,
       ReduceComplement
  <2> QED
    BY <2>1, <2>2, <2>3, <2>4, <2>5
<1>9. CASE deaf /\ \/ Shift \/ ReduceAttr \/ ReduceBinary \/ ReduceTerm
                   \/ ReduceParens \/ ReduceComplement
  <2>1. pc = "parse"
    BY <1>9 DEF Shift, ReduceAttr, ReduceBinary, ReduceTerm, ReduceParens,
       ReduceComplement, Reduction
  <2> QED
    BY <1>8, <1>9, <2>1
<1>10. CASE Accept
  <2>1. pc = "parse" /\ Complete /\ look.sym = "END"
    BY <1>10 DEF Accept, Finals
  <2>2. ~ deaf
    BY <1>8, <2>1
  <2>3. CASE query_err # "SUCCESS"
    <3>1. pc' = "idle"
      BY <1>10, <2>3 DEF Accept, Cleanup
    <3> QED
      BY <1>3, <3>1
  <2>4. CASE query_err = "SUCCESS"
    <3>1. /\ pc' = "calc" /\ deaf' = deaf /\ asked' = asked /\ heap' = heap
          /\ treeroot' = Top.node /\ fault' = fault
      BY <1>10, <2>4 DEF Accept
    <3>2. ASSUME ~ fault, NEW P, Meaning(P, asked)
          PROVE  \E V : Meant(asked, P, V)'
      <4>1. PICK t \in Seq(Piece) : t = asked
        BY <1>1
      <4>2. Parsed(t, P) /\ Meaning(P, t)
        BY <2>1, <2>2, <3>2, <4>1
      <4>3. PICK q, b, V : InText(t, P, q, b, V)
        BY <4>2 DEF Parsed
      <4>4. V[Top.node] \in At(P, "query", 1, Len(t))
        BY <2>1, <4>2, <4>3, AcceptReads
      <4>5. Meant(t, P, V)'
        BY <3>1, <4>3, <4>4 DEF Meant, InText
      <4> QED
        BY <3>1, <4>1, <4>5
    <3> QED
      BY <2>2, <3>1, <3>2
  <2> QED
    BY <2>3, <2>4
<1>11. CASE SyntaxError \/ Evaluate \/ EvaluateShort \/ NoMemory
  <2>1. pc' = "idle"
    BY <1>11 DEF SyntaxError, Evaluate, EvaluateShort, NoMemory, Finish,
       Cleanup
  <2> QED
    BY <1>3, <2>1
<1> HIDE DEF ReadInv
<1> QED
  BY <1>1, <1>2, <1>4, <1>5, <1>6, <1>7, <1>9, <1>10, <1>11
     DEF Next, Run, Parse

-----------------------------------------------------------------------------
(* The evaluation, when memory does not run out.                           *)

Result == [err : {"SUCCESS", "OVERFLOW", "INTERNAL"}, set : SUBSET Node]

\* What _calc_query() makes of a treenode, from what it made of the two below.
Leaf(tn) == [err |-> IF tn.str \in Crowded THEN "OVERFLOW" ELSE "SUCCESS",
             set |-> Hits(tn.str)]
Both(tn, l, r) ==
  [err |-> IF tn.str = <<"||">> /\ (l.set \in Wide \/ r.set \in Wide)
           THEN "INTERNAL" ELSE "SUCCESS",
   set |-> Combine(tn.str[1], l.set, r.set) \cap Node]
Half(tn, l, r) ==
  IF tn.left = 0 THEN Leaf(tn)
  ELSE IF l.err # "SUCCESS" THEN l
  ELSE IF r.err # "SUCCESS" THEN r ELSE Both(tn, l, r)
Whole(tn, h) == IF tn.complement /\ h.err = "SUCCESS"
                THEN [h EXCEPT !.set = Node \ @] ELSE h
Evaluated(tn, l, r) == Whole(tn, Half(tn, l, r))

LEMMA CombineIs ==
  ASSUME NEW o \in Op, NEW l \in SUBSET Node, NEW r \in SUBSET Node
  PROVE  /\ Combine(o, l, r) = Joined(o, l, r)
         /\ Joined(o, l, r) \in SUBSET Node
         /\ Combine(o, l, r) \cap Node = Joined(o, l, r)
<1>1. CASE o = "||"
  BY <1>1 DEF Combine, Joined
<1>2. CASE o = "&&"
  BY <1>2 DEF Combine, Joined
<1>3. CASE o = "--"
  BY <1>3 DEF Combine, Joined
<1> QED
  BY <1>1, <1>2, <1>3 DEF Op

LEMMA HitsAre ==
  ASSUME NEW w
  PROVE  Hits(w) \in SUBSET Node
BY QueryAssumption DEF Hits

LEMMA NodeStr ==
  ASSUME ParseInv, NEW i \in 1 .. Len(heap), heap[i].left # 0
  PROVE  \E o \in Op : heap[i].str = <<o>> /\ heap[i].str[1] = o
<1>1. PICK o \in Op : heap[i].str = <<o>>
  BY DEF ParseInv, HeapInv, IsNode
<1> QED
  BY <1>1

\* What is computed for treenode i is what V says, or has failed for a reason.
Explained(V, i, c) ==
  /\ c \in Result
  /\ c.err = "SUCCESS" => c.set = V[i]
  /\ c.err = "OVERFLOW" =>
       \E k \in 1 .. Len(heap) : heap[k].left = 0 /\ heap[k].str \in Crowded
  /\ c.err = "INTERNAL" =>
       \E k \in 1 .. Len(heap) : heap[k].left # 0 /\ heap[k].str = <<"||">>

LEMMA HalfType ==
  ASSUME ParseInv, NEW i \in 1 .. Len(heap), NEW l, NEW r,
         heap[i].left # 0 => l \in Result /\ r \in Result
  PROVE  /\ Half(heap[i], l, r) \in Result
         /\ Evaluated(heap[i], l, r) \in Result
<1>1. CASE heap[i].left = 0
  BY <1>1, HitsAre DEF Half, Leaf, Result, Evaluated, Whole
<1>2. CASE heap[i].left # 0
  <2>1. PICK o \in Op : heap[i].str[1] = o
    BY <1>2, NodeStr
  <2>2. /\ l.set \in SUBSET Node /\ r.set \in SUBSET Node
        /\ l \in Result /\ r \in Result
    BY <1>2 DEF Result
  <2>3. Combine(heap[i].str[1], l.set, r.set) \cap Node \in SUBSET Node
    OBVIOUS
  <2>4. Both(heap[i], l, r) \in Result
    BY <2>3 DEF Both, Result
  <2>5. Half(heap[i], l, r) \in Result
    BY <1>2, <2>2, <2>4 DEF Half
  <2>6. \A h \in Result : [h EXCEPT !.set = Node \ @] \in Result
    BY DEF Result
  <2> QED
    BY <2>5, <2>6 DEF Evaluated, Whole
<1> QED
  BY <1>1, <1>2

LEMMA HalfIs ==
  ASSUME ParseInv, NEW V, IsValue(V, heap),
         NEW i \in 1 .. Len(heap), NEW l, NEW r,
         heap[i].left # 0 => /\ Explained(V, heap[i].left, l)
                             /\ Explained(V, heap[i].right, r)
  PROVE  LET h == Half(heap[i], l, r)
         IN  /\ h.err = "SUCCESS" => h.set = Plain(V, heap[i])
             /\ h.err = "OVERFLOW" =>
                  \E k \in 1 .. Len(heap) :
                    heap[k].left = 0 /\ heap[k].str \in Crowded
             /\ h.err = "INTERNAL" =>
                  \E k \in 1 .. Len(heap) :
                    heap[k].left # 0 /\ heap[k].str = <<"||">>
<1>1. CASE heap[i].left = 0
  <2>1. Half(heap[i], l, r) = Leaf(heap[i])
    BY <1>1 DEF Half
  <2>2. /\ Leaf(heap[i]).err \in {"OVERFLOW", "SUCCESS"}
        /\ Leaf(heap[i]).err = "OVERFLOW" => heap[i].str \in Crowded
        /\ Leaf(heap[i]).set = Plain(V, heap[i])
    BY <1>1 DEF Leaf, Plain
  <2> QED
    BY <1>1, <2>1, <2>2
<1>2. CASE heap[i].left # 0
  <2>1. PICK o \in Op : heap[i].str = <<o>> /\ heap[i].str[1] = o
    BY <1>2, NodeStr
  <2>2. /\ l \in Result /\ r \in Result
        /\ l.set \in SUBSET Node /\ r.set \in SUBSET Node
    BY <1>2 DEF Explained, Result
  <2>3. CASE l.err # "SUCCESS"
    BY <1>2, <2>3 DEF Half, Explained
  <2>4. CASE l.err = "SUCCESS" /\ r.err # "SUCCESS"
    BY <1>2, <2>4 DEF Half, Explained
  <2>5. CASE l.err = "SUCCESS" /\ r.err = "SUCCESS"
    <3>1. Half(heap[i], l, r) = Both(heap[i], l, r)
      BY <1>2, <2>5 DEF Half
    <3>2. l.set = V[heap[i].left] /\ r.set = V[heap[i].right]
      BY <1>2, <2>5 DEF Explained
    <3>3. /\ Both(heap[i], l, r).err \in {"INTERNAL", "SUCCESS"}
          /\ Both(heap[i], l, r).err = "INTERNAL" => heap[i].str = <<"||">>
          /\ Both(heap[i], l, r).set = Combine(o, l.set, r.set) \cap Node
      BY <2>1 DEF Both
    <3>4. Plain(V, heap[i]) = Joined(o, l.set, r.set)
      BY <1>2, <2>1, <3>2 DEF Plain
    <3>5. Combine(o, l.set, r.set) \cap Node = Joined(o, l.set, r.set)
      BY <2>2, CombineIs
    <3> QED
      BY <1>2, <3>1, <3>3, <3>4, <3>5
  <2> QED
    BY <2>3, <2>4, <2>5
<1> QED
  BY <1>1, <1>2

LEMMA EvaluatedIs ==
  ASSUME ParseInv, NEW V, IsValue(V, heap),
         NEW i \in 1 .. Len(heap), NEW l, NEW r,
         heap[i].left # 0 => /\ Explained(V, heap[i].left, l)
                             /\ Explained(V, heap[i].right, r)
  PROVE  Explained(V, i, Evaluated(heap[i], l, r))
<1>1. heap[i].left # 0 => l \in Result /\ r \in Result
  BY DEF Explained
<1>2. PICK h \in Result : h = Half(heap[i], l, r)
  BY <1>1, HalfType
<1>3. /\ h.err = "SUCCESS" => h.set = Plain(V, heap[i])
      /\ h.err = "OVERFLOW" =>
           \E k \in 1 .. Len(heap) :
             heap[k].left = 0 /\ heap[k].str \in Crowded
      /\ h.err = "INTERNAL" =>
           \E k \in 1 .. Len(heap) : heap[k].left # 0 /\ heap[k].str = <<"||">>
  BY <1>2, HalfIs, ZenonT(60)
<1>4. V[i] = Value(V, heap[i])
  BY DEF IsValue
<1>5. CASE heap[i].complement /\ h.err = "SUCCESS"
  <2>1. PICK c \in Result : /\ c = Evaluated(heap[i], l, r)
                            /\ c.err = "SUCCESS" /\ c.set = Node \ h.set
    <3>1. Evaluated(heap[i], l, r) = [h EXCEPT !.set = Node \ @]
      BY <1>2, <1>5 DEF Evaluated, Whole
    <3>2. /\ [h EXCEPT !.set = Node \ @] \in Result
          /\ [h EXCEPT !.set = Node \ @].err = h.err
          /\ [h EXCEPT !.set = Node \ @].set = Node \ h.set
      BY DEF Result
    <3> QED
      BY <1>5, <3>1, <3>2
  <2>2. c.set = V[i]
    BY <1>3, <1>4, <1>5, <2>1 DEF Value
  <2> QED
    BY <2>1, <2>2 DEF Explained
<1>6. CASE ~ (heap[i].complement /\ h.err = "SUCCESS")
  <2>1. Evaluated(heap[i], l, r) = h
    BY <1>2, <1>6 DEF Evaluated, Whole
  <2>2. h.err = "SUCCESS" => h.set = V[i]
    BY <1>3, <1>4, <1>6 DEF Value
  <2> QED
    BY <1>3, <2>1, <2>2 DEF Explained
<1> QED
  BY <1>5, <1>6

\* A table of what is computed for each treenode.
IsCalc(c) ==
  \A i \in 1 .. Len(heap) :
    c[i] = Evaluated(heap[i], c[heap[i].left], c[heap[i].right])

LEMMA CalcIs ==
  ASSUME ParseInv
  PROVE  \E c : IsCalc(c) /\ \A t : Calc(t, 0, Node) = c[t]
<1> DEFINE N == Len(heap)
           S == 1 .. N
           Eval(c, i) ==
             Evaluated(heap[i], c[heap[i].left], c[heap[i].right])
           m == [i \in S |-> i]
           D == [p \in S \X [S -> Result] |-> Eval(p[2], p[1])]
<1>1. N \in Nat /\ heap \in Seq(TreeNode)
  BY DEF ParseInv, TypeInv
<1>2. \A i \in S : /\ i - 1 \in Nat
                   /\ heap[i].left \in 0 .. i - 1
                   /\ heap[i].right \in 0 .. i - 1
                   /\ heap[i].left # 0 => heap[i].right # 0
  BY NodeLinks
<1>3. m \in [S -> 0 .. N] /\ Result # {}
  <2>1. [err |-> "SUCCESS", set |-> {}] \in Result
    BY DEF Result
  <2>2. m \in [S -> 0 .. N]
    BY <1>1
  <2> QED
    BY <2>1, <2>2
<1>4. ASSUME NEW i \in S, NEW c \in [S -> Result] PROVE Eval(c, i) \in Result
  <2>1. CASE heap[i].left = 0
    BY <2>1, HalfType
  <2>2. CASE heap[i].left # 0
    <3>1. heap[i].left \in S /\ heap[i].right \in S
      BY <1>1, <1>2, <2>2
    <3> QED
      BY <3>1, HalfType
  <2> QED
    BY <2>1, <2>2
<1>5. \A i \in S, c \in [S -> Result] : D[<<i, c>>] = Eval(c, i)
  <2> HIDE DEF Eval
  <2> QED
    OBVIOUS
<1>6. D \in [S \X [S -> Result] -> Result]
  <2> HIDE DEF Eval
  <2> QED
    BY <1>4
<1>7. ASSUME NEW i \in S, NEW f \in [S -> Result], NEW g \in [S -> Result],
             \A y \in S : m[y] < m[i] => f[y] = g[y]
      PROVE  Eval(f, i) = Eval(g, i)
  <2>1. CASE heap[i].left = 0
    BY <2>1 DEF Evaluated, Half
  <2>2. CASE heap[i].left # 0
    <3>1. /\ heap[i].left \in S /\ heap[i].left < i
          /\ heap[i].right \in S /\ heap[i].right < i
      BY <1>1, <1>2, <2>2
    <3>2. /\ f[heap[i].left] = g[heap[i].left]
          /\ f[heap[i].right] = g[heap[i].right]
      BY <1>7, <3>1
    <3> QED
      BY <3>2
  <2> QED
    BY <2>1, <2>2
<1>8. \A i \in S, f, g \in [S -> Result] :
        (\A y \in S : m[y] < m[i] => f[y] = g[y])
          => D[<<i, f>>] = D[<<i, g>>]
  <2> SUFFICES ASSUME NEW i \in S, NEW f \in [S -> Result],
                      NEW g \in [S -> Result],
                      \A y \in S : m[y] < m[i] => f[y] = g[y]
               PROVE  D[<<i, f>>] = D[<<i, g>>]
    OBVIOUS
  <2>1. Eval(f, i) = Eval(g, i)
    BY <1>7
  <2> HIDE DEF D, Eval
  <2> QED
    BY <1>5, <2>1
<1> HIDE DEF D, m, S, N
<1>9. PICK c \in [S -> Result] : \A i \in S : c[i] = D[<<i, c>>]
  <2>1. Recursion(S, Result, N, m, D)
    BY <1>1, <1>3, <1>6, <1>8 DEF Recursion
  <2> QED
    BY <2>1, RecursionExists
<1> USE DEF S, N
<1>10. c = [i \in S |-> Eval(c, i)]
  BY <1>5, <1>9, Zenon
<1> DEFINE Body(d, i) ==
      LET tn == heap[i]
          l == d[tn.left]
          r == d[tn.right]
          leaf == [err |-> IF tn.str \in Crowded THEN "OVERFLOW"
                           ELSE "SUCCESS", set |-> Hits(tn.str)]
          both == [err |-> IF tn.str = <<"||">>
                              /\ (l.set \in Wide \/ r.set \in Wide)
                           THEN "INTERNAL" ELSE "SUCCESS",
                   set |-> Combine(tn.str[1], l.set, r.set)
                             \cap (IF i = 0 THEN Node ELSE Node)]
          h == IF tn.left = 0 THEN leaf
               ELSE IF l.err # "SUCCESS" THEN l
               ELSE IF r.err # "SUCCESS" THEN r ELSE both
      IN IF tn.complement /\ h.err = "SUCCESS"
         THEN [h EXCEPT !.set = Node \ @] ELSE h
<1>11. \A d, i : Body(d, i) = Eval(d, i)
  <2> TAKE d, i
  <2>1. (IF i = 0 THEN Node ELSE Node) = Node
    OBVIOUS
  <2> QED
    BY <2>1 DEF Evaluated, Whole, Half, Leaf, Both
<1> DEFINE calc == CHOOSE d : d = [i \in 1 .. Len(heap) |-> Body(d, i)]
<1>12. \A t : Calc(t, 0, Node) = calc[t]
  BY DEF Calc
<1> HIDE DEF Body
<1>13. c = [i \in 1 .. Len(heap) |-> Body(c, i)]
  BY <1>10, <1>11
<1>14. calc = [i \in 1 .. Len(heap) |-> Body(calc, i)]
  BY <1>13
<1> HIDE DEF calc
<1>15. IsCalc(calc)
  <2>1. \A i \in 1 .. Len(heap) : calc[i] = Body(calc, i)
    BY <1>14
  <2> QED
    BY <1>11, <2>1 DEF IsCalc
<1> QED
  BY <1>12, <1>15

\* The whole evaluation.
LEMMA CalcExplained ==
  ASSUME ParseInv, NEW V, IsValue(V, heap), NEW i \in 1 .. Len(heap)
  PROVE  Explained(V, i, Calc(i, 0, Node))
<1>1. PICK c : IsCalc(c) /\ \A t : Calc(t, 0, Node) = c[t]
  BY CalcIs
<1> DEFINE T == {n \in Nat : \A k \in 1 .. Len(heap) :
                               k <= n => Explained(V, k, c[k])}
<1>2. 0 \in T
  OBVIOUS
<1>3. ASSUME NEW n \in Nat, n \in T PROVE n + 1 \in T
  <2> SUFFICES ASSUME NEW k \in 1 .. Len(heap), k <= n + 1
               PROVE  Explained(V, k, c[k])
    OBVIOUS
  <2>1. /\ heap[k].left \in 0 .. k - 1 /\ heap[k].right \in 0 .. k - 1
        /\ heap[k].left # 0 => heap[k].right # 0
    BY NodeLinks
  <2>2. Len(heap) \in Nat
    <3>1. heap \in Seq(TreeNode)
      BY DEF ParseInv, TypeInv
    <3> QED
      BY <3>1
  <2>3. heap[k].left # 0 => /\ Explained(V, heap[k].left, c[heap[k].left])
                            /\ Explained(V, heap[k].right, c[heap[k].right])
    <3> SUFFICES ASSUME heap[k].left # 0
                 PROVE  /\ Explained(V, heap[k].left, c[heap[k].left])
                        /\ Explained(V, heap[k].right, c[heap[k].right])
      OBVIOUS
    <3>1. /\ heap[k].left \in 1 .. Len(heap) /\ heap[k].left <= n
          /\ heap[k].right \in 1 .. Len(heap) /\ heap[k].right <= n
      BY <2>1, <2>2
    <3> QED
      BY <1>3, <3>1
  <2>4. Explained(V, k, Evaluated(heap[k], c[heap[k].left],
                                  c[heap[k].right]))
    BY <2>3, EvaluatedIs
  <2> QED
    BY <1>1, <2>4 DEF IsCalc
<1>4. i \in T /\ i \in Nat
  <2> HIDE DEF T
  <2>1. i \in Nat
    OBVIOUS
  <2> QED
    BY <1>2, <1>3, <2>1, Induction
<1>5. i <= i
  BY <1>4
<1>6. Explained(V, i, c[i])
  BY <1>4, <1>5
<1> QED
  BY <1>1, <1>6

-----------------------------------------------------------------------------
(* The list of a set of nodes.                                             *)

Increasing(s, n) ==
  \A i, j \in 1 .. n : i < j => Rank[s[i]] < Rank[s[j]]

LEMMA FirstNode ==
  ASSUME NEW S \in SUBSET Node, S # {}
  PROVE  \E x \in S : \A y \in S \ {x} : Rank[x] < Rank[y]
<1> DEFINE R == {Rank[x] : x \in S}
<1>0. \A x \in Node : Rank[x] \in Nat
  BY QueryAssumption
<1>1. R \in SUBSET Nat /\ R # {}
  BY <1>0
<1>2. PICK k \in R : \A l \in R : k <= l
  BY <1>1, NatMin
<1>3. PICK x \in S : Rank[x] = k
  BY <1>2
<1>4. ASSUME NEW y \in S \ {x} PROVE Rank[x] < Rank[y]
  <2>1. Rank[y] \in R /\ Rank[x] \in Nat /\ Rank[y] \in Nat
    BY <1>0
  <2>2. Rank[x] <= Rank[y]
    BY <1>2, <1>3, <2>1
  <2>3. Rank[x] # Rank[y]
    BY QueryAssumption
  <2> QED
    BY <2>1, <2>2, <2>3
<1> QED
  BY <1>4

LEMMA ListExists ==
  ASSUME NEW S \in SUBSET Node
  PROVE  \E s \in [1 .. Cardinality(S) -> S] : Increasing(s, Cardinality(S))
<1> DEFINE T == {n \in Nat : \A R \in SUBSET Node :
                   Cardinality(R) = n =>
                     \E s \in [1 .. n -> R] : Increasing(s, n)}
<1>1. \A R \in SUBSET Node : IsFiniteSet(R) /\ Cardinality(R) \in Nat
  BY QueryAssumption, FS_Subset, FS_CardinalityType
<1>2. 0 \in T
  <2> SUFFICES ASSUME NEW R \in SUBSET Node
               PROVE  \E s \in [1 .. 0 -> R] : Increasing(s, 0)
    OBVIOUS
  <2>1. 1 .. 0 = {} /\ <<>> \in [1 .. 0 -> R]
    OBVIOUS
  <2> QED
    BY <2>1 DEF Increasing
<1>3. ASSUME NEW n \in Nat, n \in T PROVE n + 1 \in T
  <2> SUFFICES ASSUME NEW R \in SUBSET Node, Cardinality(R) = n + 1
               PROVE  \E s \in [1 .. n + 1 -> R] : Increasing(s, n + 1)
    OBVIOUS
  <2>1. R # {}
    BY FS_EmptySet
  <2>2. PICK x \in R : \A y \in R \ {x} : Rank[x] < Rank[y]
    BY <2>1, FirstNode
  <2>3. Cardinality(R \ {x}) = n
    BY <1>1, FS_RemoveElement
  <2>4. PICK r \in [1 .. n -> R \ {x}] : Increasing(r, n)
    BY <1>3, <2>3
  <2> DEFINE s == [i \in 1 .. n + 1 |-> IF i = 1 THEN x ELSE r[i - 1]]
  <2>5. \A i \in 1 .. n + 1 : i # 1 => i - 1 \in 1 .. n
    OBVIOUS
  <2>6. s \in [1 .. n + 1 -> R]
    BY <2>5
  <2>7. /\ s[1] = x
        /\ \A i \in 1 .. n + 1 : i # 1 =>
             s[i] = r[i - 1] /\ s[i] \in R \ {x}
    <3>1. 1 \in 1 .. n + 1
      OBVIOUS
    <3> QED
      BY <2>5, <3>1
  <2> HIDE DEF s
  <2>8. Increasing(s, n + 1)
    <3> SUFFICES ASSUME NEW i \in 1 .. n + 1, NEW j \in 1 .. n + 1, i < j
                 PROVE  Rank[s[i]] < Rank[s[j]]
      BY DEF Increasing
    <3>1. j # 1
      OBVIOUS
    <3>2. CASE i = 1
      BY <2>2, <2>7, <3>1, <3>2
    <3>3. CASE i # 1
      <4>1. i - 1 \in 1 .. n /\ j - 1 \in 1 .. n /\ i - 1 < j - 1
        BY <2>5, <3>1, <3>3
      <4>2. Rank[r[i - 1]] < Rank[r[j - 1]]
        BY <2>4, <4>1 DEF Increasing
      <4> QED
        BY <2>7, <3>1, <3>3, <4>2
    <3> QED
      BY <3>2, <3>3
  <2> QED
    BY <2>6, <2>8
<1>4. Cardinality(S) \in T
  <2> HIDE DEF T
  <2>1. Cardinality(S) \in Nat
    BY <1>1
  <2> QED
    BY <1>2, <1>3, <2>1, Induction
<1> QED
  BY <1>4

LEMMA SortedIs ==
  ASSUME NEW S \in SUBSET Node
  PROVE  /\ Cardinality(S) \in Nat
         /\ Len(Sorted(S)) = Cardinality(S)
         /\ {Sorted(S)[i] : i \in 1 .. Cardinality(S)} = S
         /\ \A i, j \in 1 .. Cardinality(S) :
              i < j => Rank[Sorted(S)[i]] < Rank[Sorted(S)[j]]
<1>1. IsFiniteSet(S) /\ Cardinality(S) \in Nat
  BY QueryAssumption, FS_Subset, FS_CardinalityType
<1>2. PICK n \in Nat : n = Cardinality(S)
  BY <1>1
<1>3. \E s \in [1 .. Cardinality(S) -> S] :
        \A i, j \in 1 .. Cardinality(S) : i < j => Rank[s[i]] < Rank[s[j]]
  BY ListExists DEF Increasing
<1>4. PICK s : /\ s = Sorted(S) /\ s \in [1 .. n -> S]
               /\ \A i, j \in 1 .. n : i < j => Rank[s[i]] < Rank[s[j]]
  <2>1. /\ Sorted(S) \in [1 .. Cardinality(S) -> S]
        /\ \A i, j \in 1 .. Cardinality(S) :
             i < j => Rank[Sorted(S)[i]] < Rank[Sorted(S)[j]]
    BY <1>3 DEF Sorted
  <2> QED
    BY <1>2, <2>1
<1>5. Len(s) = n
  <2>1. s \in Seq(S)
    BY <1>4
  <2> QED
    BY <1>4, <2>1
<1>6. \A x \in Node : Rank[x] \in Nat
  BY QueryAssumption
<1>7. s \in Injection(1 .. n, S)
  <2>1. ASSUME NEW i \in 1 .. n, NEW j \in 1 .. n, i # j PROVE s[i] # s[j]
    <3>0. Rank[s[i]] \in Nat /\ Rank[s[j]] \in Nat
      BY <1>4, <1>6
    <3>1. i < j \/ j < i
      BY <2>1
    <3>2. Rank[s[i]] < Rank[s[j]] \/ Rank[s[j]] < Rank[s[i]]
      BY <1>4, <3>1
    <3> QED
      BY <3>0, <3>2
  <2> QED
    BY <1>4, <2>1 DEF Injection, IsInjective
<1>8. Cardinality(1 .. n) = n
  BY FS_Interval
<1>9. s \in Surjection(1 .. n, S)
  BY <1>1, <1>2, <1>7, <1>8, FS_Injection
<1>10. \A x \in S : \E i \in 1 .. n : s[i] = x
  BY <1>9 DEF Surjection
<1>11. {s[i] : i \in 1 .. n} = S
  BY <1>4, <1>10
<1> QED
  BY <1>1, <1>2, <1>4, <1>5, <1>11

-----------------------------------------------------------------------------
(* The answer.                                                             *)

(* A text asks for at most one set of nodes, whatever stands in it: the     *)
(* grammar of genders_query.y is not ambiguous.                             *)
THEOREM OneMeaning ==
  \A t \in Seq(Piece) : \A S, R \in Denotes(t) : S = R
<1> TAKE t \in Seq(Piece)
<1>1. PICK P : Meaning(P, t) /\ Denotes(t) = At(P, "query", 1, Len(t))
  BY DenotesIs
<1>2. "query" \in Kind /\ 1 \in 1 .. Len(t) + 1 /\ Len(t) \in 0 .. Len(t)
  <2>1. Len(t) \in Nat
    OBVIOUS
  <2> QED
    BY <2>1 DEF Kind
<1> QED
  BY <1>1, <1>2, ReadOnce

LEMMA EvaluateIsRight ==
  ASSUME ParseInv, ReadInv, Evaluate
  PROVE  AnswerIsRight'
<1>1. /\ pc = "calc" /\ pc' = "idle" /\ call' = call /\ asked' = asked
      /\ deaf' = deaf /\ fault' = fault
  BY DEF Evaluate, Finish, Cleanup
<1> SUFFICES ASSUME ~ fault PROVE AnswerIsRight'
  BY <1>1 DEF AnswerIsRight
<1>2. PICK t \in Seq(Piece) : t = asked
  BY DEF ParseInv, TypeInv
<1>3. PICK P : Meaning(P, t) /\ Denotes(t) = At(P, "query", 1, Len(t))
  BY DenotesIs
<1>4. ~ deaf /\ \E V : Meant(t, P, V)
  BY <1>1, <1>2, <1>3 DEF ReadInv
<1>5. PICK V : Meant(t, P, V)
  BY <1>4
<1>6. PICK r \in 1 .. Len(heap) : r = treeroot
  BY <1>1 DEF ParseInv, HeapInv
<1>7. Explained(V, r, Calc(r, 0, Node))
  BY <1>5, CalcExplained DEF Meant
<1>8. PICK h \in Result : h = Calc(r, 0, Node)
  BY <1>7 DEF Explained
<1>9. PICK S \in SUBSET Node : S = h.set
  BY DEF Result
<1>10. h.err \in {"SUCCESS", "OVERFLOW", "INTERNAL"}
  BY DEF Result
<1>11. h.err = "SUCCESS" => S \in Denotes(t)
  BY <1>3, <1>5, <1>6, <1>7, <1>8, <1>9 DEF Explained, Meant
<1>12. V[r] \in Denotes(t)
  BY <1>3, <1>5, <1>6 DEF Meant
<1>13. \A R \in Denotes(t) : R = V[r]
  BY <1>12, OneMeaning
<1>14. FromText(t, heap)
  BY <1>5 DEF Meant
<1>15. IF h.err # "SUCCESS" THEN Fails(h.err)
       ELSE IF Cardinality(S) > call.len THEN Fails("OVERFLOW")
       ELSE Answers(S)
  BY <1>6, <1>8, <1>9 DEF Evaluate, Finish
<1>16. Cardinality(S) \in Nat /\ call.len \in Nat
       /\ call.op \in {"query", "testquery"}
  BY SortedIs DEF ParseInv, TypeInv, CallType
<1>17. CASE h.err # "SUCCESS"
  <2>1. error' = h.err /\ rv' = -1
    BY <1>15, <1>17 DEF Fails
  <2>2. ~ (rv' >= 0)
    BY <2>1
  <2>3. error' = "OVERFLOW" =>
          \E w \in Crowded, i, j \in 1 .. Len(t) : SubSeq(t, i, j) = w
    <3> SUFFICES ASSUME h.err = "OVERFLOW"
                 PROVE  \E w \in Crowded, i, j \in 1 .. Len(t) :
                          SubSeq(t, i, j) = w
      BY <2>1
    <3>1. PICK k \in 1 .. Len(heap) :
            heap[k].left = 0 /\ heap[k].str \in Crowded
      BY <1>7, <1>8 DEF Explained
    <3>2. PICK a \in 1 .. Len(t), c \in 1 .. Len(t) :
            heap[k].str = SubSeq(t, a, c)
      BY <1>14, <3>1 DEF FromText
    <3> QED
      BY <3>1, <3>2
  <2>4. error' = "INTERNAL" => \E i \in 1 .. Len(t) : t[i] = "||"
    <3> SUFFICES ASSUME h.err = "INTERNAL"
                 PROVE  \E i \in 1 .. Len(t) : t[i] = "||"
      BY <2>1
    <3>1. PICK k \in 1 .. Len(heap) :
            heap[k].left # 0 /\ heap[k].str = <<"||">>
      BY <1>7, <1>8 DEF Explained
    <3>2. PICK x \in 1 .. Len(t) : heap[k].str = <<t[x]>>
      BY <1>14, <3>1 DEF FromText
    <3>3. <<t[x]>>[1] = <<"||">>[1]
      BY <3>1, <3>2
    <3> QED
      BY <3>3
  <2>5. error' # "SYNTAX"
    BY <1>10, <2>1
  <2> QED
    BY <1>1, <1>2, <1>4, <1>12, <2>2, <2>3, <2>4, <2>5 DEF AnswerIsRight
<1>18. CASE h.err = "SUCCESS" /\ Cardinality(S) > call.len
  <2>1. error' = "OVERFLOW" /\ rv' = -1
    BY <1>15, <1>18 DEF Fails
  <2>2. ~ (rv' >= 0) /\ error' # "SYNTAX" /\ error' # "INTERNAL"
    BY <2>1
  <2>3. \E R \in Denotes(t) : call.len < Cardinality(R)
    BY <1>11, <1>16, <1>18
  <2> QED
    BY <1>1, <1>2, <1>4, <1>12, <2>2, <2>3 DEF AnswerIsRight
<1>19. CASE h.err = "SUCCESS" /\ ~ (Cardinality(S) > call.len)
  <2>1. Answers(S)
    BY <1>15, <1>19
  <2>2. S \in Denotes(t) /\ \A R \in Denotes(t) : R = S
    BY <1>11, <1>13, <1>19
  <2>3. error' = "SUCCESS"
    BY <2>1 DEF Answers
  <2>4. call.op = "query" =>
          /\ {found'[i] : i \in 1 .. rv'} = S
          /\ Len(found') = rv'
          /\ \A i, j \in 1 .. rv' : i < j => Rank[found'[i]] < Rank[found'[j]]
    <3> SUFFICES ASSUME call.op = "query"
                 PROVE  /\ {found'[i] : i \in 1 .. rv'} = S
                        /\ Len(found') = rv'
                        /\ \A i, j \in 1 .. rv' :
                             i < j => Rank[found'[i]] < Rank[found'[j]]
      OBVIOUS
    <3>1. found' = Sorted(S) /\ rv' = Cardinality(S)
      BY <1>1, <2>1 DEF Answers
    <3>2. /\ Len(Sorted(S)) = Cardinality(S)
          /\ {Sorted(S)[i] : i \in 1 .. Cardinality(S)} = S
          /\ \A i, j \in 1 .. Cardinality(S) :
               i < j => Rank[Sorted(S)[i]] < Rank[Sorted(S)[j]]
      BY SortedIs
    <3> HIDE DEF Sorted
    <3> QED
      BY <3>1, <3>2
  <2>5. call.op = "testquery" =>
          (rv' = 1 <=> \E R \in Denotes(t) : call.node \in R)
    <3> SUFFICES ASSUME call.op = "testquery"
                 PROVE  rv' = 1 <=> \E R \in Denotes(t) : call.node \in R
      OBVIOUS
    <3>1. rv' = IF call.node \in S THEN 1 ELSE 0
      BY <1>1, <2>1 DEF Answers
    <3> QED
      BY <2>2, <3>1
  <2>6. error' # "SYNTAX" /\ error' # "OVERFLOW" /\ error' # "INTERNAL"
    BY <2>3
  <2>7. call.op = "query" => {found'[i] : i \in 1 .. rv'} \in Denotes(t)
    BY <2>2, <2>4
  <2> QED
    BY <1>1, <1>2, <1>4, <2>2, <2>4, <2>5, <2>6, <2>7 DEF AnswerIsRight
<1> QED
  BY <1>17, <1>18, <1>19

LEMMA SyntaxErrorIsRight ==
  ASSUME ParseInv, ReadInv, SyntaxError
  PROVE  AnswerIsRight'
<1>1. /\ pc = "parse" /\ pc' = "idle" /\ asked' = asked
      /\ deaf' = deaf /\ fault' = fault /\ rv' = -1
      /\ error' = IF query_err = "SUCCESS" THEN "SYNTAX" ELSE query_err
  BY DEF SyntaxError, Cleanup, Fails
<1> SUFFICES ASSUME ~ fault PROVE AnswerIsRight'
  BY <1>1 DEF AnswerIsRight
<1>2. error' = "SYNTAX"
  BY <1>1 DEF ParseInv, HeapInv
<1>3. PICK t \in Seq(Piece) : t = asked
  BY DEF ParseInv, TypeInv
<1>4. deaf \/ Denotes(t) = {}
  <2> SUFFICES ASSUME ~ deaf PROVE Denotes(t) = {}
    OBVIOUS
  <2>1. PICK P : Meaning(P, t) /\ Denotes(t) = At(P, "query", 1, Len(t))
    BY <1>3, DenotesIs
  <2>2. Parsed(t, P)
    BY <1>1, <1>3, <2>1 DEF ReadInv
  <2>3. PICK q, b, V : InText(t, P, q, b, V)
    BY <2>2 DEF Parsed
  <2> QED
    BY <2>1, <2>3, SyntaxErrorReads
<1>5. ~ (rv' >= 0) /\ error' # "OVERFLOW" /\ error' # "INTERNAL"
  BY <1>1, <1>2
<1> QED
  BY <1>1, <1>2, <1>3, <1>4, <1>5 DEF AnswerIsRight

LEMMA AnswerInvNext ==
  ASSUME ParseInv, ReadInv, AnswerIsRight, [Next]_vars
  PROVE  AnswerIsRight'
<1>1. CASE UNCHANGED vars
  <2>1. UNCHANGED <<pc, call, asked, deaf, found, rv, error, fault>>
    BY <1>1 DEF vars, outvars
  <2> QED
    BY <2>1 DEF AnswerIsRight, Answered
<1>2. ASSUME pc' # "idle" \/ call'.text = <<>> \/ fault' PROVE AnswerIsRight'
  BY <1>2 DEF AnswerIsRight, Answered
<1>3. CASE Calls
  <2>0. \A o, n, l, t : Called(o, n, l, t) => call'.text = t
    BY DEF Called
  <2>1. \A l : QueryAll(l) => call'.text = <<>>
    BY <2>0 DEF QueryAll
  <2>2. \A o, e : Refuse(o, e) => call'.text = <<>>
    BY <2>0 DEF Refuse
  <2>3. \A o, n, l, t : Start(o, n, l, t) => pc' # "idle"
    BY DEF Start
  <2>4. pc' # "idle" \/ call'.text = <<>>
    BY <1>3, <2>1, <2>2, <2>3 DEF Calls, Query, TestQuery
  <2> QED
    BY <1>2, <2>4
<1>4. CASE \/ Write \/ Scan \/ Shift \/ ReduceAttr \/ ReduceBinary
           \/ ReduceTerm \/ ReduceParens \/ ReduceComplement
  <2>1. pc' # "idle"
    BY <1>4 DEF Write, Scan, Shift, ReduceAttr, ReduceBinary, ReduceTerm,
       ReduceParens, ReduceComplement, Reduction
  <2> QED
    BY <1>2, <2>1
<1>5. CASE Accept
  <2>1. CASE query_err = "SUCCESS"
    <3>1. pc' # "idle"
      BY <1>5, <2>1 DEF Accept
    <3> QED
      BY <1>2, <3>1
  <2>2. CASE query_err # "SUCCESS"
    <3>1. fault'
      BY <1>5, <2>2 DEF Accept, ParseInv, HeapInv
    <3> QED
      BY <1>2, <3>1
  <2> QED
    BY <2>1, <2>2
<1>6. CASE SyntaxError
  BY <1>6, SyntaxErrorIsRight
<1>7. CASE Evaluate
  BY <1>7, EvaluateIsRight
<1>8. CASE EvaluateShort \/ NoMemory
  BY <1>2, <1>8 DEF EvaluateShort, NoMemory
<1> QED
  BY <1>1, <1>3, <1>4, <1>5, <1>6, <1>7, <1>8 DEF Next, Run, Parse

(* genders_query() and genders_testquery() answer with the nodes their text *)
(* asks for, in order and each once, or say rightly what went wrong, for    *)
(* every text, whatever calls came before it, unless memory runs out.       *)
THEOREM AnswersAlwaysRight ==
  Spec => []AnswerIsRight
<1> DEFINE Inv == ParseInv /\ ReadInv /\ AnswerIsRight
<1>1. Init => Inv
  <2>1. Init => AnswerIsRight
    <3>1. Init => call.text = <<>>
      <4>1. [op |-> "query", node |-> "", len |-> 0, text |-> <<>>].text
              = <<>>
        OBVIOUS
      <4> QED
        BY ONLY <4>1 DEF Init
    <3> QED
      BY <3>1 DEF AnswerIsRight, Answered
  <2> QED
    BY <2>1, ParseInvInit, ReadInvInit
<1>2. Inv /\ [Next]_vars => Inv'
  BY ParseInvNext, ReadInvNext, AnswerInvNext
<1>3. Inv => AnswerIsRight
  OBVIOUS
<1> QED
  BY <1>1, <1>2, <1>3, PTL DEF Spec
====
