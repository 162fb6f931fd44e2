---------------------------- MODULE ExprMeanings ----------------------------
(***************************************************************************)
(* What expressions of numbers, variables, elements, calls and tables      *)
(* mean, told from their structure: from left to right, an operand with    *)
(* its value at that time, a place (a variable or an element that is       *)
(* assigned, called or looked into) found first and read when it is used.  *)
(*                                                                         *)
(* A number stands for its double, counted in halves.  A run has the       *)
(* variables, the tables, the calls so far, the value of the expression,   *)
(* and whether an error has ended it.                                      *)
(***************************************************************************)
EXTENDS AvmCells, SequencesExt

CONSTANT Stores   \* the values of the variables and the tables before the program

-----------------------------------------------------------------------------
(* Arithmetic. *)

\* The integer part of a number; and a division in whole numbers.
Whole(n)    == Quotient(n, 2)
Modulo(a, b) == 2 * (Whole(a) - Whole(b) * Quotient(Whole(a), Whole(b)))

Exactly(op, a, b) ==
  CASE op = "add" -> a + b
    [] op = "sub" -> a - b
    [] op = "mul" -> Quotient(a * b, 2)
    [] op = "div" -> Quotient(2 * a, b)
    [] op = "mod" -> Modulo(a, b)

\* execute_arith: whether it reports an error.
Undefined(op, b) == (op = "div" /\ b = 0) \/ (op = "mod" /\ Whole(b) = 0)

-----------------------------------------------------------------------------
(* Runs. *)

Start(store) ==
  [x |-> store.x, heap |-> store.heap, calls |-> <<>>, val |-> Nil, failed |-> FALSE]

Giving(run, cell) == [run EXCEPT !.val = cell]
Failing(run)      == [run EXCEPT !.val = Nil, !.failed = TRUE]

Calculated(run, op, a, b) ==
  IF a.type = "number" /\ b.type = "number" /\ ~ Undefined(op, b.numVal)
  THEN Giving(run, Number(Exactly(op, a.numVal, b.numVal)))
  ELSE Failing(run)

ElementOf(run, base, key) ==
  IF base.type = "table" THEN Giving(run, GetElem(run.heap[base.tableVal], key)) ELSE Failing(run)

WithElement(run, base, key, cell) ==
  IF base.type = "table"
  THEN [run EXCEPT !.heap[base.tableVal] = SetElem(@, key, cell)]
  ELSE Failing(run)

WithTable(run) ==
  [run EXCEPT !.heap = Append(@, EmptyTable), !.val = TableRef(Len(run.heap) + 1)]

\* A function can be seen to be called, and returns its first argument; it changes
\* nothing that the expression reads.  No table of a store has an element "()".
Called(run, callee, args) ==
  IF callee.type = "userfunc"
  THEN [run EXCEPT !.calls = Append(@, [callee |-> callee, args |-> args]),
                   !.val = IF args = <<>> THEN Nil ELSE args[1]]
  ELSE Failing(run)

\* The elements of a new table are set from the last to the first.
Filled(run, pairs) ==
  LET table == run.val
  IN  Giving(FoldRight(LAMBDA p, r : WithElement(r, table, p[1], p[2]), pairs, run), table)

Positions(cells) == [i \in DOMAIN cells |-> <<Number(2 * (i - 1)), cells[i]>>]
Pairs(cells)     == [i \in 1..Len(cells) \div 2 |-> <<cells[2 * i - 1], cells[2 * i]>>]

-----------------------------------------------------------------------------
(* Meanings. *)

RECURSIVE Eval(_, _), EvalAll(_, _, _), Located(_, _)

Then(run, Step(_)) == IF run.failed THEN run ELSE Step(run)

\* The table and the key of an element whose place was found.
Place(run, base, key) == [run |-> run, base |-> base, key |-> key]

Read(e, place, run) ==
  CASE e.op = "var"  -> Giving(run, run.x[e.name])
    [] e.op = "item" -> ElementOf(run, place.base, place.key)
    [] e.op \in {"call", "method"} -> Giving(run, place.base)

Located(e, run) ==
  CASE e.op = "var"  -> Place(run, Nil, Nil)
    [] e.op \in {"call", "method"} -> LET r == Eval(e, run) IN Place(r, r.val, Nil)
    [] e.op = "item" ->
         LET outer == Located(e.table, run)
             key   == Eval(e.key, outer.run)
             base  == Then(key, LAMBDA r : Read(e.table, outer, r))
         IN  Place(base, base.val, key.val)

\* The value of run is assigned to a place, and read back.
Assigned(e, place, run) ==
  IF e.op = "var" THEN [run EXCEPT !.x[e.name] = run.val]
  ELSE Then(WithElement(run, place.base, place.key, run.val), LAMBDA r : Read(e, place, r))

\* The old value of a place, and the run with the new one.
Stepped(e, run) ==
  LET place == Located(e.target, run)
      old   == Then(place.run, LAMBDA r : Read(e.target, place, r))
      new   == Then(old, LAMBDA r : Calculated(r, e.by, r.val, Number(2)))
  IN  [old |-> old.val, run |-> Then(new, LAMBDA r : Assigned(e.target, place, r))]

Eval(e, run) ==
  IF run.failed THEN run
  ELSE CASE e.op = "const" -> Giving(run, e.val)
    [] e.op \in {"var", "item"} ->
         LET place == Located(e, run) IN Then(place.run, LAMBDA r : Read(e, place, r))
    [] e.op = "binary" ->
         LET l == Eval(e.left, run)
         IN  Then(Eval(e.right, l), LAMBDA r : Calculated(r, e.by, l.val, r.val))
    [] e.op = "minus" ->
         Then(Eval(e.left, run), LAMBDA l : Calculated(l, "mul", l.val, Number(-2)))
    [] e.op = "assign" ->
         LET place == Located(e.target, run)
         IN  Then(Eval(e.left, place.run), LAMBDA r : Assigned(e.target, place, r))
    [] e.op = "pre"  -> Stepped(e, run).run
    [] e.op = "post" ->
         LET s == Stepped(e, run) IN Then(s.run, LAMBDA r : Giving(r, s.old))
    [] e.op = "call" ->
         LET place == Located(e.callee, run)
             args  == EvalAll(e.args, place.run, <<>>)
             f     == Then(args.run, LAMBDA r : Read(e.callee, place, r))
         IN  Then(f, LAMBDA r : Called(r, f.val, args.cells))
    [] e.op = "method" ->
         LET place  == Located(e.callee, run)
             args   == EvalAll(e.args, place.run, <<>>)
             object == Then(args.run, LAMBDA r : Read(e.callee, place, r))
             f      == Then(object, LAMBDA r : ElementOf(r, object.val, e.name))
         IN  Then(f, LAMBDA r : Called(r, f.val, <<object.val>> \o args.cells))
    [] e.op = "list" ->
         LET parts == EvalAll(e.parts, run, <<>>)
         IN  Then(parts.run, LAMBDA r : Filled(WithTable(r), Positions(parts.cells)))
    [] e.op = "pairs" ->
         LET parts == EvalAll(e.parts, run, <<>>)
         IN  Then(parts.run, LAMBDA r : Filled(WithTable(r), Pairs(parts.cells)))

EvalAll(es, run, cells) ==
  IF es = <<>> THEN [run |-> run, cells |-> cells]
  ELSE LET r == Eval(Head(es), run) IN EvalAll(Tail(es), r, Append(cells, r.val))

-----------------------------------------------------------------------------
(* Expressions whose meaning is left open. *)

Parts(e) ==
  CASE e.op \in {"const", "var"} -> <<>>
    [] e.op = "item" -> <<e.table, e.key>>
    [] e.op = "binary" -> <<e.left, e.right>>
    [] e.op = "minus" -> <<e.left>>
    [] e.op = "assign" -> <<e.target, e.left>>
    [] e.op \in {"pre", "post"} -> <<e.target>>
    [] e.op \in {"call", "method"} -> <<e.callee>> \o e.args
    [] e.op \in {"list", "pairs"} -> e.parts

RECURSIVE Changes(_), ReadLate(_)

\* The variables that an expression changes.
Changes(e) ==
  UNION {Changes(p) : p \in Range(Parts(e))}
    \cup {t.name : t \in {t \in (IF e.op \in {"assign", "pre", "post"} THEN {e.target} ELSE {}) :
                              t.op = "var"}}

\* The variables by whose names e knows its i-th part: the part itself, if it
\* is a value; the table and the key, if it is the place of an element.
KnownBy(e, i) ==
  LET p     == Parts(e)[i]
      place == i = 1 /\ e.op \in {"item", "assign", "call", "method"}
      names == IF ~ place THEN {p} ELSE IF p.op = "item" THEN {p.table, p.key} ELSE {}
  IN  {v.name : v \in {n \in names : n.op = "var"}}

\* A variable is an operand, a table or a key, and is changed before what it belongs to reads it.
ReadLate(e) ==
  \E i \in DOMAIN Parts(e) :
    \/ ReadLate(Parts(e)[i])
    \/ \E j \in DOMAIN Parts(e) : i < j /\ KnownBy(e, i) \cap Changes(Parts(e)[j]) # {}

\* A constant is divided by a constant that execute_arith does not divide by.
RECURSIVE FoldsToNumber(_), DividesByZero(_)

FoldsToNumber(e) == e.op = "const" \/ (e.op = "binary" /\ FoldsToNumber(e.left) /\ FoldsToNumber(e.right))

DividesByZero(e) ==
  \/ \E p \in Range(Parts(e)) : DividesByZero(p)
  \/ e.op = "binary" /\ FoldsToNumber(e) /\ Eval(e, Start(CHOOSE s \in Stores : TRUE)).failed
=============================================================================
