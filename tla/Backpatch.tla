----------------------------- MODULE Backpatch -----------------------------
(***************************************************************************)
(* Quads with jumps whose targets are not known yet (quads.c:33-65,        *)
(* 140-168) and the actions of the grammar that emit and patch them        *)
(* (parser.y).                                                             *)
(*                                                                         *)
(* The parser is its semantic stack: an item for each rule that has begun, *)
(* with the semantic values it has so far, and an item for an expression   *)
(* that was parsed.  A step is an action of the grammar; which rule comes  *)
(* next, and so which program is compiled, is left open.  Parentheses are  *)
(* not modelled, so every expression can be an operand of every other.     *)
(*                                                                         *)
(* Beside its semantic value an expression and a statement has its syntax  *)
(* tree, which the compiler does not build: module BackpatchRuns compares  *)
(* what the quads do with what the tree means.                             *)
(***************************************************************************)
EXTENDS Integers, FiniteSets, SequencesExt

CONSTANTS
  Fragments,     \* parts of the grammar: kinds of rules, and how many a program has at most
  EarlyBooleans  \* whether comparisons, and, or, not occur where more operands follow

VARIABLES
  fragment,    \* the part of the grammar that the program is from
  quads,       \* quad_array; the quad with label n is at n + 1
  stack,       \* the semantic stack
  loop_stack,  \* the loops around, in this function, the innermost last
  savedLoops,  \* func_loop_stack_save
  bodies,      \* the functions compiled: label of funcstart and funcend, and syntax tree
  used,        \* the number of rules begun
  reported     \* an error was reported; what is compiled from then on is not followed

vars == <<fragment, quads, stack, loop_stack, savedLoops, bodies, used, reported>>

Init ==
  /\ fragment \in Fragments
  /\ quads = <<>>
  /\ stack = <<[kind |-> "program", stmts |-> <<>>]>>
  /\ loop_stack = <<>> /\ savedLoops = <<>> /\ bodies = <<>>
  /\ used = 0 /\ reported = FALSE

-----------------------------------------------------------------------------
(* Quads.  patches counts how often the label of a jump was given. *)

NoArg    == [none |-> 0]
Temp(n)  == [temp |-> n]      \* the temporary made at quad n
Var      == [var |-> "x"]
Const(v) == [const |-> v]
Func(n)  == [func |-> n]

Quad(op, arg1, arg2, result, label) ==
  [op |-> op, arg1 |-> arg1, arg2 |-> arg2, result |-> result, label |-> label, patches |-> 0]

OpenJump      == Quad("jump", NoArg, NoArg, NoArg, 0)
JumpTo(label) == [OpenJump EXCEPT !.label = label, !.patches = 1]

PatchList(code, list, label) ==
  [n \in DOMAIN code |->
     IF n - 1 \in Range(list) THEN [code[n] EXCEPT !.label = label, !.patches = @ + 1] ELSE code[n]]

MergeListsMutant(l1, l2) == IF l1 = <<>> THEN l2 ELSE l1

MergeLists(l1, l2) == l1 \o l2

\* The quad of a comparison, which jumps when it holds.
IfOps ==
  [eq |-> "if_eq", noteq |-> "if_noteq", less |-> "if_less", lesseq |-> "if_lesseq",
   greater |-> "if_greater", greatereq |-> "if_greatereq"]

Comparisons == DOMAIN IfOps

-----------------------------------------------------------------------------
(* Expressions.  An operand has a place; a boolexpr has its two lists. *)

Value(place, tree)     == [type |-> "var_e", place |-> place, tree |-> tree]
BoolExpr(t, f, tree)   == [type |-> "boolexpr_e", truelist |-> t, falselist |-> f, tree |-> tree]

\* emit_ifboolexpr
IfBoolExpr(code, e) ==
  IF e.type = "boolexpr_e" THEN [code |-> code, e |-> e]
  ELSE LET n == Len(code) IN
    [code |-> code \o <<Quad("if_eq", e.place, Const("true"), NoArg, 0), OpenJump>>,
     e    |-> BoolExpr(<<n>>, <<n + 1>>, e.tree)]

ConvertToValueMutant(code, e) ==
  IF e.type # "boolexpr_e" THEN [code |-> code, e |-> e]
  ELSE LET n == Len(code)
           whenTrue == PatchList(code, e.truelist, n)
                         \o <<Quad("assign", Const("true"), NoArg, Temp(n), 0), OpenJump>>
           whenFalse == Append(PatchList(whenTrue, e.falselist, n + 2),
                               Quad("assign", Const("false"), NoArg, Temp(n), 0))
       IN  [code |-> PatchList(whenFalse, <<n + 1>>, n + 2), e |-> Value(Temp(n), e.tree)]

\* convert_to_value
ConvertToValue(code, e) ==
  IF e.type # "boolexpr_e" THEN [code |-> code, e |-> e]
  ELSE LET n == Len(code)
           whenTrue == PatchList(code, e.truelist, n)
                         \o <<Quad("assign", Const("true"), NoArg, Temp(n), 0), OpenJump>>
           whenFalse == Append(PatchList(whenTrue, e.falselist, n + 2),
                               Quad("assign", Const("false"), NoArg, Temp(n), 0))
       IN  [code |-> PatchList(whenFalse, <<n + 1>>, n + 3), e |-> Value(Temp(n), e.tree)]

\* The actions of elist and elist_opt: the last expression is finished first.
FinalizeList(code, exprs) ==
  FoldRight(LAMBDA e, done :
              LET f == ConvertToValue(done.code, e)
              IN  [code |-> f.code, exprs |-> <<f.e>> \o done.exprs],
            exprs, [code |-> code, exprs |-> <<>>])

\* The condition of an if or a loop.
Condition(code, e) ==
  LET v == ConvertToValue(code, e) IN IfBoolExpr(v.code, v.e)

\* emit_call
EmitCall(code, callee, exprs) ==
  code \o [i \in DOMAIN exprs |-> Quad("param", Reverse(exprs)[i].place, NoArg, NoArg, 0)]
       \o <<Quad("call", Func(callee), NoArg, NoArg, 0),
            Quad("getretval", NoArg, NoArg, Temp(Len(code) + Len(exprs) + 1), 0)>>

Trees(exprs) == [i \in DOMAIN exprs |-> exprs[i].tree]

-----------------------------------------------------------------------------
(* The stack. *)

Top     == Last(stack)
Rest(n) == SubSeq(stack, 1, Len(stack) - n)

Kind(k) == Top.kind = k

\* What waits for an expression, and for a statement.
ListRules == {"call", "forinit", "forstep"}
ExprRules == ListRules \cup Comparisons
               \cup {"and", "or", "not", "assign", "exprstmt", "if", "while", "forcond", "return"}
StmtLists == {"program", "block", "funcbody"}
StmtRules == StmtLists \cup {"then", "else", "whilebody", "forbody"}

Wanted == Top.kind \in ExprRules
AtStmt == Top.kind \in StmtRules

\* An expression was parsed as a part of a rule of kind k.
Parsed(k) == Kind("expr") /\ stack[Len(stack) - 1].kind = k
Expr      == Top.e
Rule      == stack[Len(stack) - 1]

PushExpr(below, e) == stack' = Append(below, [kind |-> "expr", e |-> e])

\* A statement with this tree was parsed: stmts takes it, other rules wait for it.
EndStmt(below, tree) ==
  stack' = IF Last(below).kind \in StmtLists
           THEN Front(below) \o <<[Last(below) EXCEPT !.stmts = Append(@, tree)]>>
           ELSE Append(below, [kind |-> "stmt", tree |-> tree])

Stmt(k) == Kind("stmt") /\ Rule.kind = k

\* The bound of this model: a program has at most maxRules rules.  Those
\* that the rules on the stack, and one of kind k, cannot do without are
\* counted too, so that every program that is begun can be finished.
Waiting == Cardinality({i \in DOMAIN stack :
                          stack[i].kind \in {"if", "while", "forinit", "forcond", "forstep"}})
             + Cardinality({i \in DOMAIN stack : stack[i].kind = "forinit"})

Parts(k) ==
  CASE k \in {"if", "while", "for"} -> 2
    [] k \in Comparisons \cup {"and", "or", "not", "assign", "comma", "exprstmt", "else"} -> 1
    [] OTHER -> 0

\* A rule of kind k begins.
Begins(k) ==
  /\ k \in fragment.rules /\ ~ reported
  /\ used + 1 + Parts(k) + Waiting <= fragment.maxRules
  /\ used' = used + 1 /\ UNCHANGED fragment

Goes == ~ reported /\ UNCHANGED <<fragment, used, reported>>

SameLoops == UNCHANGED <<loop_stack, savedLoops>>

-----------------------------------------------------------------------------
(* Expressions. *)

\* The left operand of a comparison is finished only when the right one was parsed.
ComparisonLeft(k) ==
  /\ Kind("expr") /\ Begins(k)
  /\ Expr.type = "boolexpr_e" => EarlyBooleans
  /\ stack' = Append(Rest(1), [kind |-> k, left |-> Expr])
  /\ UNCHANGED <<quads, bodies, reported>> /\ SameLoops

Comparison(k) ==
  /\ Parsed(k) /\ Goes
  /\ LET l == ConvertToValue(quads, Rule.left)
         r == ConvertToValue(l.code, Expr)
         n == Len(r.code)
     IN  /\ quads' = r.code \o <<Quad(IfOps[k], l.e.place, r.e.place, NoArg, 0), OpenJump>>
         /\ PushExpr(Rest(2), BoolExpr(<<n>>, <<n + 1>>,
                                       [op |-> k, left |-> l.e.tree, right |-> r.e.tree]))
  /\ UNCHANGED bodies /\ SameLoops

AndOrLeftMutant(k) ==
  /\ Kind("expr") /\ Begins(k)
  /\ LET l == IfBoolExpr(quads, Expr)
     IN  /\ quads' = l.code
         /\ stack' = Append(Rest(1), [kind |-> k, left |-> l.e, label |-> Len(quads)])
  /\ UNCHANGED <<bodies, reported>> /\ SameLoops

\* expr AND, expr OR, and the M behind them.
AndOrLeft(k) ==
  /\ Kind("expr") /\ Begins(k)
  /\ LET l == IfBoolExpr(quads, Expr)
     IN  /\ quads' = l.code
         /\ stack' = Append(Rest(1), [kind |-> k, left |-> l.e, label |-> Len(l.code)])
  /\ UNCHANGED <<bodies, reported>> /\ SameLoops

And ==
  /\ Parsed("and") /\ Goes
  /\ LET left  == Rule.left
         right == IfBoolExpr(PatchList(quads, left.truelist, Rule.label), Expr)
     IN  /\ quads' = right.code
         /\ PushExpr(Rest(2), BoolExpr(right.e.truelist, MergeLists(left.falselist, right.e.falselist),
                                       [op |-> "and", left |-> left.tree, right |-> right.e.tree]))
  /\ UNCHANGED bodies /\ SameLoops

Or ==
  /\ Parsed("or") /\ Goes
  /\ LET left  == Rule.left
         right == IfBoolExpr(PatchList(quads, left.falselist, Rule.label), Expr)
     IN  /\ quads' = right.code
         /\ PushExpr(Rest(2), BoolExpr(MergeLists(left.truelist, right.e.truelist), right.e.falselist,
                                       [op |-> "or", left |-> left.tree, right |-> right.e.tree]))
  /\ UNCHANGED bodies /\ SameLoops

\* NOT, or an identifier and "=", or one and "(".
BeginPrefix(k) ==
  /\ Wanted /\ Begins(k)
  /\ stack' = Append(stack, IF k = "call" THEN [kind |-> k, args |-> <<>>] ELSE [kind |-> k])
  /\ UNCHANGED <<quads, bodies, reported>> /\ SameLoops

Not ==
  /\ Parsed("not") /\ Goes
  /\ LET e == IfBoolExpr(quads, Expr)
     IN  /\ quads' = e.code
         /\ PushExpr(Rest(2), BoolExpr(e.e.falselist, e.e.truelist, [op |-> "not", left |-> e.e.tree]))
  /\ UNCHANGED bodies /\ SameLoops

Assign ==
  /\ Parsed("assign") /\ Goes
  /\ LET r == ConvertToValue(quads, Expr)
         n == Len(r.code) + 1
     IN  /\ quads' = r.code \o <<Quad("assign", r.e.place, NoArg, Var, 0),
                                 Quad("assign", Var, NoArg, Temp(n), 0)>>
         /\ PushExpr(Rest(2), Value(Temp(n), [op |-> "assign", left |-> r.e.tree]))
  /\ UNCHANGED bodies /\ SameLoops

\* An expression of a list, and the comma behind it: nothing is finished yet.
Comma ==
  /\ Kind("expr") /\ Rule.kind \in ListRules /\ Begins("comma")
  /\ Expr.type = "boolexpr_e" => EarlyBooleans
  /\ stack' = Append(Rest(2), [Rule EXCEPT !.args = Append(@, Expr)])
  /\ UNCHANGED <<quads, bodies, reported>> /\ SameLoops

\* A list ends with the expression on top, or is empty.
ListEnds(k) == Goes /\ (Parsed(k) \/ (Kind(k) /\ Top.args = <<>>))
ListRule    == IF Kind("expr") THEN Rule ELSE Top
List        == IF Kind("expr") THEN Append(Rule.args, Expr) ELSE <<>>
BelowList   == IF Kind("expr") THEN Rest(2) ELSE Rest(1)

CallEnd ==
  /\ ListEnds("call")
  /\ LET done   == FinalizeList(quads, List)
         callee == Len(done.code)
     IN  /\ quads' = EmitCall(done.code, callee, done.exprs)
         /\ PushExpr(BelowList, Value(Temp(callee + Len(List) + 1),
                                      [op |-> "call", callee |-> callee, args |-> Trees(List)]))
  /\ UNCHANGED bodies /\ SameLoops

-----------------------------------------------------------------------------
(* Statements. *)

BeginExprStmt ==
  /\ AtStmt /\ Begins("exprstmt")
  /\ stack' = Append(stack, [kind |-> "exprstmt"])
  /\ UNCHANGED <<quads, bodies, reported>> /\ SameLoops

ExprStmt ==
  /\ Parsed("exprstmt") /\ Goes
  /\ quads' = ConvertToValue(quads, Expr).code
  /\ EndStmt(Rest(2), [op |-> "expr", cond |-> Expr.tree])
  /\ UNCHANGED bodies /\ SameLoops

BeginBlock ==
  /\ AtStmt /\ Begins("block")
  /\ stack' = Append(stack, [kind |-> "block", stmts |-> <<>>])
  /\ UNCHANGED <<quads, bodies, reported>> /\ SameLoops

EndBlock ==
  /\ Kind("block") /\ Goes
  /\ EndStmt(Rest(1), [op |-> "block", stmts |-> Top.stmts])
  /\ UNCHANGED <<quads, bodies>> /\ SameLoops

BeginIf ==
  /\ AtStmt /\ Begins("if")
  /\ stack' = Append(stack, [kind |-> "if"])
  /\ UNCHANGED <<quads, bodies, reported>> /\ SameLoops

\* ifprefix and the M behind it.
IfPrefix ==
  /\ Parsed("if") /\ Goes
  /\ LET c == Condition(quads, Expr)
     IN  /\ quads' = c.code
         /\ stack' = Append(Rest(2), [kind |-> "then", cond |-> c.e, label |-> Len(c.code)])
  /\ UNCHANGED bodies /\ SameLoops

If ==
  /\ Stmt("then") /\ Goes
  /\ LET cond == Rule.cond
     IN  /\ quads' = PatchList(PatchList(quads, cond.truelist, Rule.label),
                               cond.falselist, Len(quads))
         /\ EndStmt(Rest(2), [op |-> "if", cond |-> cond.tree, body |-> Top.tree])
  /\ UNCHANGED bodies /\ SameLoops

\* ELSE N M
Else ==
  /\ Stmt("then") /\ Begins("else")
  /\ quads' = Append(quads, OpenJump)
  /\ stack' = Append(Rest(2), [kind |-> "else", cond |-> Rule.cond, label |-> Rule.label,
                               body |-> Top.tree, end |-> Len(quads)])
  /\ UNCHANGED <<bodies, reported>> /\ SameLoops

IfElse ==
  /\ Stmt("else") /\ Goes
  /\ LET cond == Rule.cond
     IN  /\ quads' = PatchList(PatchList(PatchList(quads, cond.truelist, Rule.label),
                                         cond.falselist, Rule.end + 1),
                               <<Rule.end>>, Len(quads))
         /\ EndStmt(Rest(2), [op |-> "ifelse", cond |-> cond.tree, body |-> Rule.body, other |-> Top.tree])
  /\ UNCHANGED bodies /\ SameLoops

NewLoop == [breaklist |-> <<>>, contlist |-> <<>>]

\* WHILE M
BeginWhile ==
  /\ AtStmt /\ Begins("while")
  /\ loop_stack' = Append(loop_stack, NewLoop)
  /\ stack' = Append(stack, [kind |-> "while", start |-> Len(quads)])
  /\ UNCHANGED <<quads, savedLoops, bodies, reported>>

WhileCondition ==
  /\ Parsed("while") /\ Goes
  /\ LET c == Condition(quads, Expr)
     IN  /\ quads' = c.code
         /\ stack' = Append(Rest(2), [kind |-> "whilebody", start |-> Rule.start,
                                      cond |-> c.e, label |-> Len(c.code)])
  /\ UNCHANGED bodies /\ SameLoops

LoopPatchedMutant(code, loop, cond, body, cont) ==
  LET inside == PatchList(code, cond.truelist, body)
  IN  PatchList(PatchList(inside, cond.falselist, Len(code)), loop.breaklist, Len(code))

\* The jumps of a loop that is finished: into its body, and for the end, break and continue.
LoopPatched(code, loop, cond, body, cont) ==
  LET inside == PatchList(code, cond.truelist, body)
      out    == PatchList(PatchList(inside, cond.falselist, Len(code)), loop.breaklist, Len(code))
  IN  PatchList(out, loop.contlist, cont)

While ==
  /\ Stmt("whilebody") /\ Goes
  /\ quads' = LoopPatched(Append(quads, JumpTo(Rule.start)), Last(loop_stack),
                          Rule.cond, Rule.label, Rule.start)
  /\ loop_stack' = Front(loop_stack)
  /\ EndStmt(Rest(2), [op |-> "for", init |-> <<>>, cond |-> Rule.cond.tree, step |-> <<>>, body |-> Top.tree])
  /\ UNCHANGED <<savedLoops, bodies>>

BeginFor ==
  /\ AtStmt /\ Begins("for")
  /\ loop_stack' = Append(loop_stack, NewLoop)
  /\ stack' = Append(stack, [kind |-> "forinit", args |-> <<>>])
  /\ UNCHANGED <<quads, savedLoops, bodies, reported>>

\* elist ; M
ForInit ==
  /\ ListEnds("forinit")
  /\ LET done == FinalizeList(quads, List)
     IN  /\ quads' = done.code
         /\ stack' = Append(BelowList, [kind |-> "forcond", init |-> Trees(List), test |-> Len(done.code)])
  /\ UNCHANGED bodies /\ SameLoops

\* expr ; M
ForCondition ==
  /\ Parsed("forcond") /\ Goes
  /\ LET c == Condition(quads, Expr)
     IN  /\ quads' = c.code
         /\ stack' = Append(Rest(2), [kind |-> "forstep", init |-> Rule.init, test |-> Rule.test,
                                      cond |-> c.e, step |-> Len(c.code), args |-> <<>>])
  /\ UNCHANGED bodies /\ SameLoops

\* elist N ) M
ForStep ==
  /\ ListEnds("forstep")
  /\ LET done == FinalizeList(quads, List)
         for  == ListRule
     IN  /\ quads' = Append(done.code, OpenJump)
         /\ stack' = Append(BelowList, [kind |-> "forbody", init |-> for.init, test |-> for.test,
                                        cond |-> for.cond, step |-> for.step, steps |-> Trees(List),
                                        back |-> Len(done.code)])
  /\ UNCHANGED bodies /\ SameLoops

ForMutant ==
  /\ Stmt("forbody") /\ Goes
  /\ LET n == Len(quads)
         looped == LoopPatched(Append(quads, OpenJump), Last(loop_stack),
                               Rule.cond, Rule.back + 1, Rule.test)
     IN  quads' = PatchList(PatchList(looped, <<Rule.back>>, Rule.test), <<n>>, Rule.step)
  /\ loop_stack' = Front(loop_stack)
  /\ EndStmt(Rest(2), [op |-> "for", init |-> Rule.init, cond |-> Rule.cond.tree,
                       step |-> Rule.steps, body |-> Top.tree])
  /\ UNCHANGED <<savedLoops, bodies>>

\* stmt N
For ==
  /\ Stmt("forbody") /\ Goes
  /\ LET n == Len(quads)
         looped == LoopPatched(Append(quads, OpenJump), Last(loop_stack),
                               Rule.cond, Rule.back + 1, Rule.step)
     IN  quads' = PatchList(PatchList(looped, <<Rule.back>>, Rule.test), <<n>>, Rule.step)
  /\ loop_stack' = Front(loop_stack)
  /\ EndStmt(Rest(2), [op |-> "for", init |-> Rule.init, cond |-> Rule.cond.tree,
                       step |-> Rule.steps, body |-> Top.tree])
  /\ UNCHANGED <<savedLoops, bodies>>

Report ==
  /\ reported' = TRUE
  /\ UNCHANGED <<quads, stack, loop_stack, savedLoops, bodies>>

\* BREAK and CONTINUE in a loop, and outside of every loop of the function.
Leave(k) ==
  LET n == Len(loop_stack)
      list == IF k = "break" THEN "breaklist" ELSE "contlist"
  IN  /\ AtStmt /\ Begins(k) /\ n > 0
      /\ loop_stack' = [loop_stack EXCEPT ![n][list] = MergeLists(@, <<Len(quads)>>)]
      /\ quads' = Append(quads, OpenJump)
      /\ EndStmt(stack, [op |-> k])
      /\ UNCHANGED <<savedLoops, bodies, reported>>

LeaveNothing(k) == AtStmt /\ Begins(k) /\ loop_stack = <<>> /\ Report

\* active_func_top > 0
InFunction == \E i \in DOMAIN stack : stack[i].kind = "funcbody"

BeginReturn ==
  /\ AtStmt /\ Begins("return")
  /\ stack' = Append(stack, [kind |-> "return"])
  /\ UNCHANGED <<quads, bodies, reported>> /\ SameLoops

\* RETURN expr ;
ReturnValue ==
  /\ Parsed("return") /\ InFunction /\ Goes
  /\ LET v == ConvertToValue(quads, Expr)
     IN  quads' = Append(v.code, Quad("ret", NoArg, NoArg, v.e.place, 0))
  /\ EndStmt(Rest(2), [op |-> "return", value |-> <<Expr.tree>>])
  /\ UNCHANGED bodies /\ SameLoops

\* RETURN ;
Return ==
  /\ Kind("return") /\ InFunction /\ Goes
  /\ quads' = Append(quads, Quad("ret", NoArg, NoArg, NoArg, 0))
  /\ EndStmt(Rest(1), [op |-> "return", value |-> <<>>])
  /\ UNCHANGED bodies /\ SameLoops

\* Outside of every function the jumps of the value, if any, are never filled in.
ReturnOutside ==
  /\ Kind("return") \/ Parsed("return")
  /\ ~ InFunction /\ ~ reported /\ UNCHANGED <<fragment, used>>
  /\ Report

-----------------------------------------------------------------------------
(* Functions: as a statement, or in parentheses where an expression begins *)
(* and called at once.                                                     *)

BeginFunctionMutant ==
  /\ AtStmt \/ Wanted
  /\ Begins("function")
  /\ quads' = Append(quads, Quad("funcstart", NoArg, NoArg, NoArg, 0))
  /\ savedLoops' = Append(savedLoops, loop_stack)
  /\ stack' = Append(stack, [kind |-> "funcbody", stmts |-> <<>>, start |-> Len(quads), called |-> Wanted])
  /\ UNCHANGED <<loop_stack, bodies, reported>>

BeginFunction ==
  /\ AtStmt \/ Wanted
  /\ Begins("function")
  /\ quads' = Append(quads, Quad("funcstart", NoArg, NoArg, NoArg, 0))
  /\ savedLoops' = Append(savedLoops, loop_stack)
  /\ loop_stack' = <<>>
  /\ stack' = Append(stack, [kind |-> "funcbody", stmts |-> <<>>, start |-> Len(quads), called |-> Wanted])
  /\ UNCHANGED <<bodies, reported>>

EndFunction ==
  /\ Kind("funcbody") /\ Goes
  /\ quads' = Append(quads, Quad("funcend", NoArg, NoArg, NoArg, 0))
  /\ loop_stack' = Last(savedLoops)
  /\ savedLoops' = Front(savedLoops)
  /\ bodies' = Append(bodies, [start |-> Top.start, end |-> Len(quads), stmts |-> Top.stmts])
  /\ IF Top.called THEN stack' = Append(Rest(1), [kind |-> "call", args |-> <<>>])
     ELSE EndStmt(Rest(1), [op |-> "block", stmts |-> <<>>])

-----------------------------------------------------------------------------

Next ==
  \/ \E k \in Comparisons : ComparisonLeft(k) \/ Comparison(k)
  \/ AndOrLeft("and") \/ AndOrLeft("or") \/ And \/ Or
  \/ BeginPrefix("not") \/ Not \/ BeginPrefix("assign") \/ Assign
  \/ BeginPrefix("call") \/ Comma \/ CallEnd
  \/ BeginExprStmt \/ ExprStmt \/ BeginBlock \/ EndBlock
  \/ BeginIf \/ IfPrefix \/ If \/ Else \/ IfElse
  \/ BeginWhile \/ WhileCondition \/ While
  \/ BeginFor \/ ForInit \/ ForCondition \/ ForStep \/ For
  \/ Leave("break") \/ Leave("continue") \/ LeaveNothing("break") \/ LeaveNothing("continue")
  \/ BeginReturn \/ ReturnValue \/ Return \/ ReturnOutside
  \/ BeginFunction \/ EndFunction

Spec == Init /\ [][Next]_vars

-----------------------------------------------------------------------------
(* Properties. *)

\* The jumps that an item of the stack or a loop has still to fill in.
ListsOf(e) == IF e.type = "boolexpr_e" THEN e.truelist \o e.falselist ELSE <<>>

HeldBy(item) ==
  CASE item.kind = "expr" -> ListsOf(item.e)
    [] item.kind \in Comparisons \cup {"and"} -> ListsOf(item.left)
    [] item.kind = "or" -> ListsOf(item.left)
    [] item.kind \in ListRules \ {"forstep"} -> FlattenSeq([i \in DOMAIN item.args |-> ListsOf(item.args[i])])
    [] item.kind \in {"then", "whilebody"} -> ListsOf(item.cond)
    [] item.kind = "else" -> Append(ListsOf(item.cond), item.end)
    [] item.kind = "forstep" ->
         ListsOf(item.cond) \o FlattenSeq([i \in DOMAIN item.args |-> ListsOf(item.args[i])])
    [] item.kind = "forbody" -> Append(ListsOf(item.cond), item.back)
    [] OTHER -> <<>>

HeldByLoops(loops) == FlattenSeq([i \in DOMAIN loops |-> loops[i].breaklist \o loops[i].contlist])

Held ==
  FlattenSeq([i \in DOMAIN stack |-> HeldBy(stack[i])]) \o HeldByLoops(loop_stack)
    \o FlattenSeq([i \in DOMAIN savedLoops |-> HeldByLoops(savedLoops[i])])

Jumps == {n \in 0..Len(quads) - 1 : quads[n + 1].op \in {"jump"} \cup Range(IfOps)}

\* A jump is in one list as long as its target is not known, and never
\* again: no list loses a jump and no two lists share one (quads.c:148-168).
PatchedOnce ==
  ~ reported =>
    /\ IsInjective(Held) /\ Range(Held) \subseteq Jumps
    /\ \A n \in Jumps :
         IF n \in Range(Held) THEN quads[n + 1].patches = 0 /\ quads[n + 1].label = 0
         ELSE quads[n + 1].patches = 1

Finished == Len(stack) = 1 /\ ~ reported

\* The functions around a quad.
Around(n) == {i \in DOMAIN bodies : bodies[i].start < n /\ n <= bodies[i].end}

\* No jump enters or leaves a function: generate_all (target_code.c) and the
\* machine take this for granted.
JumpsStayInFunction ==
  Finished => \A n \in Jumps : Around(quads[n + 1].label) = Around(n)
=============================================================================
