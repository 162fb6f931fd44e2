------------------------------ MODULE AvmCells ------------------------------
(***************************************************************************)
(* The values of the virtual machine (avm.h:66-104, avm.c:202-377).        *)
(*                                                                         *)
(* A memory cell is a tagged union, and here it is a record whose value    *)
(* field has the name of the union member the tag selects.  Numbers are    *)
(* integers: what is modelled of a double is that it is a number, with the *)
(* order and the zero of its integer part.  A table is a key-value map     *)
(* with the counter the code keeps beside it; an element set to nil stays  *)
(* in the map with the value nil, as it stays in its bucket in the code.   *)
(* Tables are identified by the position at which they were created.       *)
(***************************************************************************)
EXTENDS Integers, Sequences, FiniteSets

CONSTANTS
  Word,       \* the number of values of an unsigned: 2^32 in the code
  Strings,    \* the strings there are
  Numerals    \* the strings strtod reads to the end, with the numbers they denote

CellTypes == {"number", "string", "bool", "table", "userfunc", "libfunc", "nil", "undef"}

\* The names typeof gives, and the key of a callable table, are strings too.
ASSUME StringsAssumption ==
  /\ CellTypes \cup {"libraryfunction", "()"} \subseteq Strings
  /\ DOMAIN Numerals \subseteq Strings
  /\ \A s \in DOMAIN Numerals : Numerals[s] \in Int

Number(n)   == [type |-> "number", numVal |-> n]
String(s)   == [type |-> "string", strVal |-> s]
Bool(b)     == [type |-> "bool", boolVal |-> b]
TableRef(i) == [type |-> "table", tableVal |-> i]
UserFunc(f) == [type |-> "userfunc", funcVal |-> f]
LibFunc(s)  == [type |-> "libfunc", libfuncVal |-> s]
Nil         == [type |-> "nil"]
Undef       == [type |-> "undef"]

Cells ==
  [type : {"number"}, numVal : Int] \cup [type : {"string"}, strVal : Strings]
    \cup [type : {"bool"}, boolVal : BOOLEAN] \cup [type : {"table"}, tableVal : Nat]
    \cup [type : {"userfunc"}, funcVal : Nat] \cup [type : {"libfunc"}, libfuncVal : Strings]
    \cup {Nil, Undef}

-----------------------------------------------------------------------------
(* Truth and equality. *)

ToBool(c) ==
  \/ c.type = "number" /\ c.numVal # 0
  \/ c.type = "string" /\ c.strVal # ""
  \/ c.type = "bool" /\ c.boolVal
  \/ c.type \in {"table", "userfunc", "libfunc"}

\* An undefined cell equals nothing, itself included.
CompareEq(a, b) == a.type # "undef" /\ a = b

\* "if (x)" compiles to a comparison of x with a boolean, so a boolean on
\* either side compares truth values.
JeqCond(a, b) ==
  IF b.type = "bool" THEN ToBool(a) = b.boolVal
  ELSE IF a.type = "bool" THEN a.boolVal = ToBool(b)
  ELSE CompareEq(a, b)

JneCond(a, b) == ~ JeqCond(a, b)

Comparable(c) == c.type \in {"number", "bool"}

ToNum(c) == IF c.type = "number" THEN c.numVal ELSE IF c.boolVal THEN 1 ELSE 0

NumCond(op, a, b) ==
  CASE op = "jle" -> a <= b
    [] op = "jge" -> a >= b
    [] op = "jlt" -> a < b
    [] op = "jgt" -> a > b

-----------------------------------------------------------------------------
(* Arithmetic.  C divides towards zero; the fraction of a quotient is dropped. *)

Abs(n) == IF n < 0 THEN -n ELSE n

Quotient(a, b) == IF (a < 0) = (b < 0) THEN Abs(a) \div Abs(b) ELSE -(Abs(a) \div Abs(b))

ArithResult(op, a, b) ==
  CASE op = "add" -> a + b
    [] op = "sub" -> a - b
    [] op = "mul" -> a * b
    [] op = "div" -> Quotient(a, b)
    [] op = "mod" -> a - b * Quotient(a, b)

\* Conversion of a double to unsigned, as the build does it (through a 64-bit integer).
ToUnsigned(n) == n % Word

\* The integer part of a square root, the one element of this set.
SquareRoots(n) == {r \in 0..n : r * r <= n /\ n < (r + 1) * (r + 1)}

StrToNum(s) == IF s \in DOMAIN Numerals THEN Number(Numerals[s]) ELSE Nil

-----------------------------------------------------------------------------
(* Tables. *)

\* A table whose keys and elements are among the cells C.
IsTable(t, C) ==
  /\ t = [elems |-> t.elems, total |-> t.total]
  /\ t.elems = [k \in DOMAIN t.elems |-> t.elems[k]]
  /\ DOMAIN t.elems \subseteq C /\ IsFiniteSet(DOMAIN t.elems)
  /\ \A k \in DOMAIN t.elems : t.elems[k] \in C
  /\ t.total \in 0..Word - 1

EmptyTable == [elems |-> [k \in {} |-> Nil], total |-> 0]

\* No bucket list can hold these two as keys.
Storable(key) == key.type \notin {"undef", "nil"}

GetElem(t, key) == IF key \in DOMAIN t.elems THEN t.elems[key] ELSE Nil

Bind(t, key, val) == [k \in DOMAIN t.elems \cup {key} |-> IF k = key THEN val ELSE t.elems[k]]

\* nil marks the element as deleted; only an element that is new to its
\* bucket list raises the counter.
SetElem(t, key, val) ==
  IF val.type = "nil" THEN
    IF GetElem(t, key).type = "nil" THEN t
    ELSE [elems |-> Bind(t, key, Nil), total |-> (t.total - 1) % Word]
  ELSE IF ~ Storable(key) THEN t
  ELSE [elems |-> Bind(t, key, val),
        total |-> IF key \in DOMAIN t.elems THEN t.total ELSE (t.total + 1) % Word]

\* The keys whose elements are not deleted.
Members(t) == {k \in DOMAIN t.elems : t.elems[k].type # "nil"}

\* objectcopy goes through the string and the number buckets only.
CopyOf(t) ==
  LET kept == {k \in Members(t) : k.type \in {"string", "number"}}
  IN  [elems |-> [k \in kept |-> t.elems[k]], total |-> Cardinality(kept) % Word]
=============================================================================
