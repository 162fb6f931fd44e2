------------------------------ MODULE AvmPrint ------------------------------
(***************************************************************************)
(* The text of a value (avm.c:99-200): cell_tostring and table_tostring    *)
(* call each other.  Which elements of a table are printed, in which order *)
(* and in which of the two formats, is AvmTable's Entries and ArrayFormat; *)
(* here a table is the sequence of these elements.  A table may be an      *)
(* element of itself, directly or through others.                          *)
(*                                                                         *)
(* The text is a sequence of words.  A call appends what its own buffer    *)
(* would hold, so that the text of a caller is complete when it returns.   *)
(***************************************************************************)
EXTENDS Integers, Sequences, SequencesExt, FiniteSets

CONSTANTS
  Tables,    \* the tables there are
  Scalars,   \* the texts of all other values
  ArrayKeys, \* the texts of the keys 0, 1, 2, ... in this order
  Contents,  \* the sequences of elements that a table may have
  MaxDepth   \* the depth of the innermost tables that are printed: 4 in the code

ASSUME PrintAssumption ==
  /\ MaxDepth \in Nat /\ Tables \cap Scalars = {}
  /\ \A c \in Contents : \A i \in DOMAIN c : c[i].value \in Tables \cup Scalars

VARIABLES
  elems,  \* the elements of every table
  value,  \* the value that is printed
  calls,  \* the running calls of table_tostring: table, depth, and the next element
  text    \* the words so far

vars == <<elems, value, calls, text>>

Init ==
  /\ elems \in [Tables -> Contents] /\ value \in Tables \cup Scalars
  /\ calls = <<>> /\ text = <<>>

-----------------------------------------------------------------------------

ArrayFormat(t) ==
  /\ Len(elems[t]) <= Len(ArrayKeys)
  /\ \A i \in DOMAIN elems[t] : elems[t][i].key = ArrayKeys[i]

\* What table_tostring does not go through element by element.
TooDeep(depth) == depth > MaxDepth

ShortMutant(v, depth) == v \in Tables => elems[v] = <<>>

Short(v, depth) == v \in Tables => TooDeep(depth) \/ elems[v] = <<>>

ShortText(v, depth) == IF v \in Scalars THEN v ELSE IF TooDeep(depth) THEN "[...]" ELSE "[ ]"

\* A value is printed: at once, or by a call that begins.
CellToString(v, depth, before, waiting) ==
  IF Short(v, depth)
  THEN text' = Append(before, ShortText(v, depth)) /\ calls' = waiting
  ELSE /\ text' = Append(before, "[")
       /\ calls' = Append(waiting, [table |-> v, depth |-> depth, next |-> 1])

AvmToString ==
  /\ text = <<>>
  /\ CellToString(value, 0, <<>>, <<>>)
  /\ UNCHANGED <<elems, value>>

Call     == Last(calls)
Content == elems[Call.table]

SeparatedMutant(i, array) == IF array THEN <<>> ELSE IF i = 1 THEN <<>> ELSE <<"}", ",">>

\* Behind the element before.
Separated(i, array) == IF i = 1 THEN <<>> ELSE IF array THEN <<",">> ELSE <<"}", ",">>

Element ==
  /\ calls # <<>> /\ Call.next \in DOMAIN Content
  /\ LET array == ArrayFormat(Call.table)
         e     == Content[Call.next]
         named == IF array THEN <<>> ELSE <<"{", e.key, ":">>
     IN  CellToString(e.value, Call.depth + 1, text \o Separated(Call.next, array) \o named,
                      Front(calls) \o <<[Call EXCEPT !.next = @ + 1]>>)
  /\ UNCHANGED <<elems, value>>

ReturnMutant ==
  /\ calls # <<>> /\ Call.next > Len(Content) + 1
  /\ text' = text \o (IF ArrayFormat(Call.table) THEN <<"]">> ELSE <<"}", "]">>)
  /\ calls' = Front(calls)
  /\ UNCHANGED <<elems, value>>

Return ==
  /\ calls # <<>> /\ Call.next > Len(Content)
  /\ text' = text \o (IF ArrayFormat(Call.table) THEN <<"]">> ELSE <<"}", "]">>)
  /\ calls' = Front(calls)
  /\ UNCHANGED <<elems, value>>

Next == AvmToString \/ Element \/ Return

\* One thread, which waits for nothing.
Spec == Init /\ [][Next]_vars /\ WF_vars(Next)

-----------------------------------------------------------------------------
(* Where a path of positions leads to, from the value that is printed. *)

Paths == UNION {[1..n -> 1..Max({Len(c) : c \in Contents})] : n \in 0..MaxDepth + 1}

At(p) ==
  FoldLeft(LAMBDA v, i : IF v \in Tables /\ i \in DOMAIN elems[v] THEN elems[v][i].value ELSE "nowhere",
           value, p)

\* What a reader of the text sees: behind each opening bracket that is not
\* closed yet, the number of commas tells the position.
Count(word, from, to) == Cardinality({k \in from..to : text[k] = word})

Open(i) ==
  {o \in 1..i - 1 : text[o] = "[" /\ \A m \in o..i - 1 : Count("[", o, m) > Count("]", o, m)}

Position(o, i) ==
  1 + Cardinality({k \in o..i - 1 : text[k] = "," /\ Open(k) = Open(o) \cup {o}})

PathTo(i) ==
  LET brackets == SetToSortSeq(Open(i), LAMBDA a, b : a < b)
  IN  [n \in DOMAIN brackets |-> Position(brackets[n], i)]

Leaves == {i \in DOMAIN text : text[i] \in Scalars \cup {"[ ]", "[...]"}}

Printed == text # <<>> /\ calls = <<>>

\* The calls are nested as deep as the tables they print are.
TypeOK ==
  /\ elems \in [Tables -> Contents]
  /\ Len(calls) <= MaxDepth + 1
  /\ \A i \in DOMAIN calls : calls[i].table \in Tables /\ calls[i].depth = i - 1

\* The text shows each value under its path, tables that contain themselves
\* unfolded, down to the depth where "[...]" stands for what is left, and
\* shows nothing else and nothing twice (avm.c:99-195).
ShowsEveryPath ==
  Printed =>
    LET shown == {<<PathTo(i), text[i]>> : i \in Leaves}
    IN  /\ Cardinality(shown) = Cardinality(Leaves)
        /\ shown = {<<p, At(p)>> : p \in {q \in Paths : At(q) \in Scalars}}
                     \cup {<<p, "[...]">> : p \in {q \in Paths : At(q) \in Tables /\ Len(q) > MaxDepth}}
                     \cup {<<p, "[ ]">> : p \in {q \in Paths : At(q) \in Tables /\ elems[At(q)] = <<>>
                                                            /\ Len(q) <= MaxDepth}}

\* Every value is printed in the end, tables that contain themselves too (avm.c:118).
PrintEnds == <>Printed
=============================================================================
