---- MODULE GendersValue ----
(***************************************************************************)
(* How a value is read back: _genders_get_valptr() runs over its           *)
(* characters, replaces "%n" by the node name and "%%" by "%", and writes  *)
(* what it gets into handle->valbuf, whose size genders_load_data() took   *)
(* from the lengths of the values and of the node names.                   *)
(*                                                                         *)
(* A value is given as the pieces its writer meant; the code sees the      *)
(* characters.  "x" and "n" stand for any text without and with an "n"     *)
(* first.                                                                  *)
(***************************************************************************)
EXTENDS Integers, Sequences, FiniteSets

Ext == INSTANCE SequencesExt

CONSTANTS
  Piece,   \* of "x", "n", "%" (alone), "%%" and "%n"
  Name,    \* node names, as sequences of characters
  File     \* the files that may be loaded: sequences of lines

Characters(piece) ==
  CASE piece = "%%" -> <<"%", "%">>
    [] piece = "%n" -> <<"%", "n">>
    [] OTHER -> <<piece>>

Value == Seq(Piece)
Line == [nodes : Seq(Name), vals : Seq(Value)]

ASSUME FileAssumption ==
  /\ Name \subseteq Seq(STRING)
  /\ Piece \subseteq {"x", "n", "%", "%%", "%n"}
  /\ File \subseteq Seq(Line)

Written(v) == Ext!FlattenSeq([i \in 1 .. Len(v) |-> Characters(v[i])])

(* A "%" alone would be read with the character after it.                   *)
Unambiguous(v) ==
  \A i \in 1 .. Len(v) - 1 : v[i] = "%" => v[i + 1] = "x"

(* strstr().                                                                *)
Holds(chars, sub) ==
  \E i \in 0 .. Len(chars) - Len(sub) :
     SubSeq(chars, i + 1, i + Len(sub)) = sub

ValContainsSubst(chars) ==
  Holds(chars, <<"%", "n">>) \/ Holds(chars, <<"%", "%">>)

(* The values that _parse_line() expects to grow by a node name.            *)
NodeSubst(chars) ==
  Holds(chars, <<"%", "n">>) /\ ~ Holds(chars, <<"%", "%", "n">>)

(***************************************************************************)
(* The size of valbuf.                                                     *)
(***************************************************************************)
Longest(S) == Ext!Max({0} \cup {Len(x) : x \in S})

Elements(s) == {s[i] : i \in 1 .. Len(s)}
Texts(l) == {Written(l.vals[i]) : i \in 1 .. Len(l.vals)}

(* max_n_subst_vallen: the last value with a node name on the line.         *)
LastSubstLen(l) ==
  LET substs == {i \in 1 .. Len(l.vals) : NodeSubst(Written(l.vals[i]))}
  IN IF substs = {} THEN 0 ELSE Len(Written(l.vals[Ext!Max(substs)]))

(* A slip: the value is measured as it is written.                          *)
LineMaxValLenWithoutName(l) ==
  Ext!Max({Longest({c \in Texts(l) : ~ NodeSubst(c)}),
       LastSubstLen(l)})

LineMaxValLen(l) ==
  Ext!Max({Longest({c \in Texts(l) : ~ NodeSubst(c)}),
       IF LastSubstLen(l) = 0 THEN 0
       ELSE LastSubstLen(l) - 2 + Longest(Elements(l.nodes))})

MaxValLen(f) == Ext!Max({0} \cup {LineMaxValLen(f[i]) : i \in 1 .. Len(f)})

(***************************************************************************)
(* _genders_get_valptr().                                                  *)
(***************************************************************************)
VARIABLES
  file,       \* the file loaded
  maxvallen,  \* handle->maxvallen
  raw,        \* GENDERS_FLAG_RAW_VALUES is set
  pc,         \* "idle", or "copy" in the loop over the characters
  asked,      \* the value that is read, and the node it is read on
  valptr,     \* the character of the value taken next
  valbuf,     \* the characters written so far
  text,       \* what the last call returned, if it did not fail
  error       \* "SUCCESS" or "INTERNAL"

valueVars == <<file, maxvallen, raw, pc, asked, valptr, valbuf, text, error>>

Pairs ==
  UNION {{<<v, n>> : v \in Elements(file[i].vals),
                     n \in Elements(file[i].nodes)} : i \in 1 .. Len(file)}

ValueInit ==
  /\ file \in File
  /\ maxvallen = MaxValLen(file)
  /\ raw = FALSE
  /\ pc = "idle"
  /\ asked = <<<<>>, <<>>>>
  /\ valptr = 1 /\ valbuf = <<>>
  /\ text = <<>> /\ error = "SUCCESS"

Chars == Written(asked[1])
NodeName == asked[2]
At(i) == IF i <= Len(Chars) THEN Chars[i] ELSE "NUL"

SetFlags ==
  /\ pc = "idle"
  /\ raw' = ~ raw
  /\ asked' = <<<<>>, <<>>>>
  /\ valptr' = 1
  /\ text' = <<>> /\ error' = "SUCCESS"
  /\ UNCHANGED <<file, maxvallen, pc, valbuf>>

(* Without anything to substitute the value itself is returned.             *)
Begin(v, n) ==
  /\ pc = "idle"
  /\ asked' = <<v, n>>
  /\ error' = "SUCCESS"
  /\ IF raw \/ ~ ValContainsSubst(Written(v))
     THEN pc' = "idle" /\ text' = Written(v)
     ELSE pc' = "copy" /\ text' = <<>>
  /\ valptr' = 1 /\ valbuf' = <<>>
  /\ UNCHANGED <<file, maxvallen, raw>>

Emit(chars, step) ==
  /\ valbuf' = valbuf \o chars
  /\ valptr' = valptr + step
  /\ UNCHANGED <<file, maxvallen, raw, pc, asked, text, error>>

InLoop == pc = "copy" /\ valptr <= Len(Chars)

(* A slip: the second "%" is looked at again.                               *)
PutPercentAgain ==
  InLoop /\ At(valptr) = "%" /\ At(valptr + 1) = "%" /\ Emit(<<"%">>, 1)

PutPercent ==
  InLoop /\ At(valptr) = "%" /\ At(valptr + 1) = "%" /\ Emit(<<"%">>, 2)

AtName == InLoop /\ At(valptr) = "%" /\ At(valptr + 1) = "n"
TooLong == Len(Chars) - 2 + Len(NodeName) > maxvallen + 1

PutName == AtName /\ ~ TooLong /\ Emit(NodeName, 2)

NameTooLong ==
  /\ AtName /\ TooLong
  /\ pc' = "idle"
  /\ error' = "INTERNAL"
  /\ UNCHANGED <<file, maxvallen, raw, asked, valptr, valbuf, text>>

PutChar ==
  /\ InLoop
  /\ At(valptr) = "%" => At(valptr + 1) \notin {"%", "n"}
  /\ Emit(<<At(valptr)>>, 1)

Done ==
  /\ pc = "copy" /\ valptr > Len(Chars)
  /\ pc' = "idle"
  /\ text' = valbuf
  /\ UNCHANGED <<file, maxvallen, raw, asked, valptr, valbuf, error>>

CopyStep == PutPercent \/ PutName \/ NameTooLong \/ PutChar \/ Done

ValueNext == CopyStep \/ SetFlags \/ \E p \in Pairs : Begin(p[1], p[2])

ValueSpec == ValueInit /\ [][ValueNext]_valueVars

(***************************************************************************)
(* Properties.                                                             *)
(***************************************************************************)

(* What the writer of the value meant.                                      *)
Means(piece, n) ==
  CASE piece = "%n" -> n [] piece = "%%" -> <<"%">> [] OTHER -> <<piece>>

Meaning(v, n) ==
  Ext!FlattenSeq([i \in 1 .. Len(v) |-> Means(v[i], n)])

(* A value reads as its writer meant it, or as it is written with the flag, *)
(* whichever way "%n", "%%" and text follow each other.                     *)
ReadsAsMeant ==
  pc = "idle" /\ error = "SUCCESS" /\ Unambiguous(asked[1]) =>
    text = IF raw THEN Chars ELSE Meaning(asked[1], NodeName)

Count(v, piece) == Cardinality({i \in 1 .. Len(v) : v[i] = piece})

(* At most one value of a line names the node, once, and not behind "%%".   *)
Simple(l) ==
  /\ \A i \in 1 .. Len(l.vals) : Unambiguous(l.vals[i])
  /\ \A i, j \in 1 .. Len(l.vals) :
       Count(l.vals[i], "%n") > 0 /\ Count(l.vals[j], "%n") > 0 => i = j
  /\ \A i \in 1 .. Len(l.vals) :
       Count(l.vals[i], "%n") > 0 =>
          /\ Count(l.vals[i], "%n") = 1
          /\ ~ Holds(Written(l.vals[i]), <<"%", "%", "n">>)

(* In files of such lines every value is read, fits valbuf, and is no       *)
(* longer than genders_getmaxvallen() says.                                 *)
SimpleValuesFit ==
  (\A i \in 1 .. Len(file) : Simple(file[i])) /\ ~ raw =>
    /\ error = "SUCCESS"
    /\ Len(valbuf) <= maxvallen
    /\ Len(text) <= maxvallen

====
