---------------------------- MODULE Expressions ----------------------------
(***************************************************************************)
(* Expressions that compute, change and put together values: constants and *)
(* their folding, variables and elements as operands and as targets of     *)
(* = ++ and --, calls and method calls, and table constructors             *)
(* (parser.y:71-79, 135-161, 276-349, 457-812).                            *)
(*                                                                         *)
(* As in Backpatch a step is an action of the grammar, which rule comes    *)
(* next is left open, and expressions carry their syntax tree.  The        *)
(* compiler cuts numbers to halves in the same way as the machine.         *)
(***************************************************************************)
EXTENDS ExprMeanings

CONSTANTS
  Fragments   \* parts of the grammar: constants in halves, variables, binary operators, other
              \* rules, and how many operators and other rules a program has at most

VARIABLES
  fragment,  \* the part of the grammar that the program is from
  quads,     \* quad_array
  stack,     \* the semantic stack: rules that have begun, and at the end what was parsed
  used,      \* the number of operators and other rules
  crashed    \* the compiler has divided by zero

vars == <<fragment, quads, stack, used, crashed>>

Init == fragment \in Fragments /\ quads = <<>> /\ stack = <<>> /\ used = 0 /\ crashed = FALSE

FoldedMutant(op, a, b) ==
  IF Undefined(op, a) \/ Undefined(op, b) THEN 0 ELSE Exactly(op, b, a)

\* The rules for operators with constants, and where they do not come to an end.
Folded(op, a, b)  == IF op \in {"div", "mod"} /\ b = 0 THEN 0 ELSE Exactly(op, a, b)
FoldCrashes(op, b) == op = "mod" /\ b # 0 /\ Whole(b) = 0

-----------------------------------------------------------------------------
(* Quads and the semantic stack. *)

Temp(n)   == [temp |-> n]     \* the temporary that is made for quad n
Var(x)    == [var |-> x]
Const(c)  == [const |-> c]
NoPlace   == [none |-> 0]
One       == Const(Number(2))
Method    == String("a")      \* the name behind a dot, of an element or of a method

Quad(op, arg1, arg2, result) == [op |-> op, arg1 |-> arg1, arg2 |-> arg2, result |-> result]

Operand(place, tree) == [kind |-> "expr", place |-> place, tree |-> tree]

\* A variable; the element under a key of the table in place; the result of a call.
VarLvalue(x) ==
  [kind |-> "lvalue", place |-> Var(x), key |-> NoPlace, tree |-> [op |-> "var", name |-> x]]

Item(place, key, tree) == [kind |-> "lvalue", place |-> place, key |-> key, tree |-> tree]
CallResult(place, tree) == [kind |-> "call", place |-> place, key |-> NoPlace, tree |-> tree]
IsItem(lvalue) == lvalue.tree.op = "item"

GetElemQuad(item, n)   == Quad("tablegetelem", item.place, item.key, Temp(n))
SetElemQuad(item, val) == Quad("tablesetelem", item.key, val, item.place)

\* emit_iftableitem, with n quads before it.
Fetched(lvalue, n) ==
  IF IsItem(lvalue) THEN [code |-> <<GetElemQuad(lvalue, n)>>, place |-> Temp(n)]
  ELSE [code |-> <<>>, place |-> lvalue.place]

EmitCallMutant(code, func, args, n) ==
  LET params == [i \in 1..Len(args) |-> Quad("param", args[i], NoPlace, NoPlace)]
      result == n + Len(code) + Len(args) + 1
  IN  [code |-> code \o params
                  \o <<Quad("call", func, NoPlace, NoPlace),
                       Quad("getretval", NoPlace, NoPlace, Temp(result))>>,
       place |-> Temp(result)]

\* emit_call behind the quads of code: the last argument is pushed first.
EmitCall(code, func, args, n) ==
  LET params == [i \in 1..Len(args) |-> Quad("param", args[i], NoPlace, NoPlace)]
      result == n + Len(code) + Len(args) + 1
  IN  [code |-> code \o Reverse(params)
                  \o <<Quad("call", func, NoPlace, NoPlace),
                       Quad("getretval", NoPlace, NoPlace, Temp(result))>>,
       place |-> Temp(result)]

Top     == IF stack = <<>> THEN [kind |-> "none"] ELSE Last(stack)
Rest(n) == SubSeq(stack, 1, Len(stack) - n)
Kind(k) == Top.kind = k
Below   == IF Len(stack) > 1 THEN stack[Len(stack) - 1].kind ELSE "none"
Rule    == stack[Len(stack) - 1]

ListKinds == {"call(", "list", "pair"}
Wanted    == Top.kind \in ListKinds \cup {"none", "binary", "minus", "assign", "index", "key"}

Push(n, item) == stack' = Append(Rest(n), item)

\* The bound of this model.
Begins == ~ crashed /\ used < fragment.maxRules /\ used' = used + 1 /\ UNCHANGED fragment

Goes == ~ crashed /\ UNCHANGED <<fragment, used>>

Emits(new) == quads' = quads \o new /\ UNCHANGED crashed
EmitsNone  == UNCHANGED <<quads, crashed>>

-----------------------------------------------------------------------------
(* Operands and places. *)

Constant(c) ==
  /\ Wanted
  /\ Push(0, Operand(Const(Number(c)), [op |-> "const", val |-> Number(c)]))
  /\ EmitsNone /\ Goes

Variable(x) ==
  /\ Wanted \/ Kind("pre")
  /\ Push(0, VarLvalue(x))
  /\ EmitsNone /\ Goes

\* What can be followed by a dot, a bracket or a parenthesis.
Suffixed == Top.kind \in {"lvalue", "call"}

\* lvalue . id and call . id
Dot ==
  /\ Suffixed /\ "dot" \in fragment.rules /\ Begins
  /\ LET f == Fetched(Top, Len(quads))
     IN  /\ Emits(f.code)
         /\ Push(1, Item(f.place, Const(Method),
                         [op |-> "item", table |-> Top.tree, key |-> [op |-> "const", val |-> Method]]))

\* lvalue [ expr ] and call [ expr ]
BeginIndex ==
  /\ Suffixed /\ "index" \in fragment.rules /\ Begins
  /\ Push(1, [kind |-> "index", table |-> Top])
  /\ EmitsNone

IndexMutant ==
  /\ Kind("expr") /\ Below = "index"
  /\ LET f == Fetched(Rule.table, Len(quads))
     IN  /\ Emits(f.code)
         /\ Push(2, Item(Rule.table.place, Top.place,
                         [op |-> "item", table |-> Rule.table.tree, key |-> Top.tree]))
  /\ Goes

Index ==
  /\ Kind("expr") /\ Below = "index"
  /\ LET f == Fetched(Rule.table, Len(quads))
     IN  /\ Emits(f.code)
         /\ Push(2, Item(f.place, Top.place,
                         [op |-> "item", table |-> Rule.table.tree, key |-> Top.tree]))
  /\ Goes

\* primary: an element is copied to a temporary, a variable and a result are not.
Primary ==
  /\ Suffixed /\ Below # "pre"
  /\ LET f == Fetched(Top, Len(quads))
     IN  Emits(f.code) /\ Push(1, Operand(f.place, Top.tree))
  /\ Goes

-----------------------------------------------------------------------------
(* Calls and tables: lists of expressions in parentheses or brackets. *)

BeginCall ==
  /\ Suffixed /\ "call" \in fragment.rules /\ Begins
  /\ Push(1, [kind |-> "call(", op |-> "call", callee |-> Top, done |-> <<>>])
  /\ EmitsNone

BeginMethod ==
  /\ Kind("lvalue") /\ "method" \in fragment.rules /\ Begins
  /\ Push(1, [kind |-> "call(", op |-> "method", callee |-> Top, done |-> <<>>])
  /\ EmitsNone

BeginList ==
  /\ Wanted /\ "list" \in fragment.rules /\ Begins
  /\ Push(0, [kind |-> "list", done |-> <<>>])
  /\ EmitsNone

\* { expr : of the first pair
BeginPairs ==
  /\ Wanted /\ "pairs" \in fragment.rules /\ Begins
  /\ Push(0, [kind |-> "key", done |-> <<>>])
  /\ EmitsNone

Colon ==
  /\ Kind("expr") /\ Below = "key"
  /\ Push(2, [kind |-> "pair", done |-> Append(Rule.done, Top)])
  /\ EmitsNone /\ Goes

\* In a list of pairs a key comes next.
Comma ==
  /\ Kind("expr") /\ Below \in ListKinds /\ "comma" \in fragment.rules /\ Begins
  /\ Push(2, [Rule EXCEPT !.done = Append(@, Top),
                          !.kind = IF @ = "pair" THEN "key" ELSE @])
  /\ EmitsNone

\* The list ends behind an expression, or is empty.
Ends(k) == (Kind("expr") /\ Below = k) \/ (Kind(k) /\ Top.done = <<>>)

Ended     == IF Kind("expr") THEN Rule ELSE Top
EndedSize == IF Kind("expr") THEN 2 ELSE 1
Elist     == IF Kind("expr") THEN Append(Rule.done, Top) ELSE <<>>
Places    == [i \in DOMAIN Elist |-> Elist[i].place]
Trees     == [i \in DOMAIN Elist |-> Elist[i].tree]

Call ==
  /\ Ends("call(") /\ Ended.op = "call"
  /\ LET f == Fetched(Ended.callee, Len(quads))
         c == EmitCall(f.code, f.place, Places, Len(quads))
     IN  /\ Emits(c.code)
         /\ Push(EndedSize, CallResult(c.place, [op |-> "call", callee |-> Ended.callee.tree,
                                                 args |-> Trees]))
  /\ Goes

\* The table of a method is the first argument.
MethodCall ==
  /\ Ends("call(") /\ Ended.op = "method"
  /\ LET n      == Len(quads)
         object == Fetched(Ended.callee, n)
         method == Fetched(Item(object.place, Const(Method), [op |-> "item"]), n + Len(object.code))
         c      == EmitCall(object.code \o method.code, method.place, <<object.place>> \o Places, n)
     IN  /\ Emits(c.code)
         /\ Push(EndedSize, CallResult(c.place, [op |-> "method", callee |-> Ended.callee.tree,
                                                 name |-> Method, args |-> Trees]))
  /\ Goes

\* A new table whose elements are set from the last to the first.
NewTable(n, pairs, tree) ==
  LET sets == [i \in DOMAIN pairs |-> Quad("tablesetelem", pairs[i][1], pairs[i][2], Temp(n))]
  IN  /\ Emits(<<Quad("tablecreate", NoPlace, NoPlace, Temp(n))>> \o Reverse(sets))
      /\ Push(EndedSize, Operand(Temp(n), tree))

List ==
  /\ Ends("list")
  /\ NewTable(Len(quads), [i \in DOMAIN Places |-> <<Const(Number(2 * (i - 1))), Places[i]>>],
              [op |-> "list", parts |-> Trees])
  /\ Goes

PairsEnd ==
  /\ Ends("pair")
  /\ NewTable(Len(quads), Pairs(Places), [op |-> "pairs", parts |-> Trees])
  /\ Goes

-----------------------------------------------------------------------------
(* Operators. *)

BinaryLeft(op) ==
  /\ Kind("expr") /\ Begins
  /\ Push(1, [kind |-> "binary", op |-> op, left |-> Top])
  /\ EmitsNone

Binary ==
  /\ Kind("expr") /\ Below = "binary"
  /\ LET op    == Rule.op
         left  == Rule.left
         right == Top
         tree  == [op |-> "binary", by |-> op, left |-> left.tree, right |-> right.tree]
         lc    == left.place
         rc    == right.place
     IN  IF "const" \in DOMAIN lc /\ "const" \in DOMAIN rc
         THEN IF FoldCrashes(op, rc.const.numVal)
              THEN crashed' = TRUE /\ Push(2, Operand(Const(Number(0)), tree)) /\ UNCHANGED quads
              ELSE /\ Push(2, Operand(Const(Number(Folded(op, lc.const.numVal, rc.const.numVal))), tree))
                   /\ EmitsNone
         ELSE /\ Emits(<<Quad(op, lc, rc, Temp(Len(quads)))>>)
              /\ Push(2, Operand(Temp(Len(quads)), tree))
  /\ Goes

BeginMinus ==
  /\ Wanted /\ "minus" \in fragment.rules /\ Begins
  /\ Push(0, [kind |-> "minus"])
  /\ EmitsNone

Minus ==
  /\ Kind("expr") /\ Below = "minus"
  /\ Emits(<<Quad("uminus", Top.place, NoPlace, Temp(Len(quads)))>>)
  /\ Push(2, Operand(Temp(Len(quads)), [op |-> "minus", left |-> Top.tree]))
  /\ Goes

BeginAssign ==
  /\ Kind("lvalue") /\ Below # "pre" /\ "assign" \in fragment.rules /\ Begins
  /\ Push(1, [kind |-> "assign", target |-> Top])
  /\ EmitsNone

Assign ==
  /\ Kind("expr") /\ Below = "assign"
  /\ LET target == Rule.target
         n      == Len(quads)
     IN  /\ Emits(IF IsItem(target)
                  THEN <<SetElemQuad(target, Top.place), GetElemQuad(target, n + 1)>>
                  ELSE <<Quad("assign", Top.place, NoPlace, target.place),
                         Quad("assign", target.place, NoPlace, Temp(n + 1))>>)
         /\ Push(2, Operand(Temp(n + 1), [op |-> "assign", target |-> target.tree, left |-> Top.tree]))
  /\ Goes

BeginPre(op) ==
  /\ Wanted /\ "pre" \in fragment.rules /\ Begins
  /\ Push(0, [kind |-> "pre", op |-> op])
  /\ EmitsNone

\* ++ and -- in front.
Pre ==
  /\ Kind("lvalue") /\ Below = "pre"
  /\ LET n    == Len(quads)
         tree == [op |-> "pre", by |-> Rule.op, target |-> Top.tree]
     IN  IF IsItem(Top)
         THEN /\ Emits(<<GetElemQuad(Top, n), Quad(Rule.op, Temp(n), One, Temp(n)),
                         SetElemQuad(Top, Temp(n))>>)
              /\ Push(2, Operand(Temp(n), tree))
         ELSE /\ Emits(<<Quad(Rule.op, Top.place, One, Top.place),
                         Quad("assign", Top.place, NoPlace, Temp(n + 1))>>)
              /\ Push(2, Operand(Temp(n + 1), tree))
  /\ Goes

PostMutant(op) ==
  /\ Kind("lvalue") /\ Below # "pre" /\ "post" \in fragment.rules /\ Begins
  /\ LET n    == Len(quads)
         tree == [op |-> "post", by |-> op, target |-> Top.tree]
     IN  IF IsItem(Top)
         THEN /\ Emits(<<GetElemQuad(Top, n), Quad(op, Temp(n), One, Temp(n)),
                         SetElemQuad(Top, Temp(n))>>)
              /\ Push(1, Operand(Temp(n), tree))
         ELSE /\ Emits(<<Quad("assign", Top.place, NoPlace, Temp(n)),
                         Quad(op, Top.place, One, Top.place)>>)
              /\ Push(1, Operand(Temp(n), tree))

\* ++ and -- behind.
Post(op) ==
  /\ Kind("lvalue") /\ Below # "pre" /\ "post" \in fragment.rules /\ Begins
  /\ LET n    == Len(quads)
         tree == [op |-> "post", by |-> op, target |-> Top.tree]
     IN  IF IsItem(Top)
         THEN /\ Emits(<<GetElemQuad(Top, n), Quad("assign", Temp(n), NoPlace, Temp(n + 1)),
                         Quad(op, Temp(n), One, Temp(n)), SetElemQuad(Top, Temp(n))>>)
              /\ Push(1, Operand(Temp(n + 1), tree))
         ELSE /\ Emits(<<Quad("assign", Top.place, NoPlace, Temp(n)),
                         Quad(op, Top.place, One, Top.place)>>)
              /\ Push(1, Operand(Temp(n), tree))

Next ==
  \/ \E c \in fragment.constants : Constant(c)
  \/ \E x \in fragment.names : Variable(x)
  \/ Dot \/ BeginIndex \/ Index \/ Primary
  \/ BeginCall \/ BeginMethod \/ BeginList \/ BeginPairs \/ Colon \/ Comma
  \/ Call \/ MethodCall \/ List \/ PairsEnd
  \/ \E op \in fragment.ops : BinaryLeft(op)
  \/ Binary \/ BeginMinus \/ Minus \/ BeginAssign \/ Assign
  \/ \E op \in {"add", "sub"} : BeginPre(op)
  \/ Pre
  \/ \E op \in {"add", "sub"} : Post(op)

Spec == Init /\ [][Next]_vars

-----------------------------------------------------------------------------
(* What the quads do. *)

Machine(store) == [run |-> Start(store), temps |-> [n \in 0..Len(quads) |-> Undef], params |-> <<>>]

Fetch(m, place) ==
  CASE "temp" \in DOMAIN place -> m.temps[place.temp]
    [] "const" \in DOMAIN place -> place.const
    [] "var" \in DOMAIN place -> m.run.x[place.var]

Kept(m, place, cell) ==
  IF "temp" \in DOMAIN place THEN [m EXCEPT !.temps[place.temp] = cell]
  ELSE [m EXCEPT !.run.x[place.var] = cell]

\* The value of run, if it has one, is kept.
KeptValue(m, place, run) ==
  LET after == [m EXCEPT !.run = run] IN IF run.failed THEN after ELSE Kept(after, place, run.val)

Executed(m, q) ==
  LET a == Fetch(m, q.arg1)
      b == Fetch(m, q.arg2)
  IN  CASE q.op \in {"add", "sub", "mul", "div", "mod"} ->
             KeptValue(m, q.result, Calculated(m.run, q.op, a, b))
        [] q.op = "uminus" -> KeptValue(m, q.result, Calculated(m.run, "mul", a, Number(-2)))
        [] q.op = "assign" -> Kept(m, q.result, a)
        [] q.op = "tablecreate" -> KeptValue(m, q.result, WithTable(m.run))
        [] q.op = "tablegetelem" -> KeptValue(m, q.result, ElementOf(m.run, a, b))
        [] q.op = "tablesetelem" ->
             [m EXCEPT !.run = WithElement(@, Fetch(m, q.result), a, b)]
        [] q.op = "param" -> [m EXCEPT !.params = <<a>> \o @]
        [] q.op = "call" -> [m EXCEPT !.run = Called(@, a, m.params), !.params = <<>>]
        [] q.op = "getretval" -> Kept(m, q.result, m.run.val)

RECURSIVE ExecutedAll(_, _)

ExecutedAll(m, n) ==
  IF n > Len(quads) \/ m.run.failed THEN m ELSE ExecutedAll(Executed(m, quads[n]), n + 1)

QuadOutcome(store) ==
  LET m == ExecutedAll(Machine(store), 1)
  IN  IF m.run.failed THEN m.run ELSE Giving(m.run, Fetch(m, Top.place))

-----------------------------------------------------------------------------

Finished == Len(stack) = 1 /\ Kind("expr")

\* From every store the quads of an expression change the variables and the
\* tables, make the calls, and end with the value that the expression means,
\* or fail where it fails.  Excepted are expressions that read a variable
\* late, and divisions by zero among constants (parser.y:276-349, 457-812,
\* avm.c:440-466).
MeaningPreserved ==
  Finished /\ ~ ReadLate(Top.tree) /\ ~ DividesByZero(Top.tree) =>
    \A s \in Stores : QuadOutcome(s) = Eval(Top.tree, Start(s))
=============================================================================
