---------------------------- MODULE MCTargetCode ----------------------------
(* Quads to generate code from. *)
EXTENDS TargetCode
LOCAL INSTANCE FiniteSets

MCStrings  == CellTypes \cup {"libraryfunction", "()", "a", "b"} \cup LibNames
MCNumerals == [s \in {} |-> 0]

\* Only the table of the numbers is ever full: by a function that returns four.
FewConsts == [t \in ConstTypes |-> IF t = "number" THEN 2 ELSE 8]

QuadOf(op, result, arg1, arg2, label) ==
  [op |-> op, result |-> result, arg1 |-> arg1, arg2 |-> arg2, label |-> label]

-----------------------------------------------------------------------------
(* Every way to nest functions, returns and a jump in Length quads. *)

Length == 6

Opened(shape, k) ==
  Cardinality({j \in 0..k : shape[j] = "funcstart"}) - Cardinality({j \in 0..k : shape[j] = "funcend"})

Jumps(shape) == {k \in DOMAIN shape : shape[k] \in {"jump", "if_eq"}}

Shapes ==
  {shape \in [0..Length - 1 -> {"and", "jump", "if_eq", "ret", "retv", "funcstart", "funcend"}] :
     /\ Cardinality(Jumps(shape)) <= 1
     /\ \A k \in DOMAIN shape :
          Opened(shape, k) >= IF shape[k] \in {"ret", "retv"} THEN 1 ELSE 0
     /\ Opened(shape, Length - 1) = 0}

\* The quads of a shape.  A function is named by where it begins.
Filled(shape, labels) ==
  [k \in DOMAIN shape |->
     CASE shape[k] = "and" -> QuadOf("and", Global(0), Global(0), Global(0), 0)
       [] shape[k] = "jump" -> QuadOf("jump", NoExpr, NoExpr, NoExpr, labels[k])
       [] shape[k] = "if_eq" -> QuadOf("if_eq", NoExpr, Global(0), Bool(TRUE), labels[k])
       [] shape[k] = "ret" -> QuadOf("ret", NoExpr, NoExpr, NoExpr, 0)
       [] shape[k] = "retv" -> QuadOf("ret", Number(k), NoExpr, NoExpr, 0)
       [] shape[k] = "funcstart" -> QuadOf("funcstart", FuncExpr(k, 1), NoExpr, NoExpr, 0)
       [] shape[k] = "funcend" ->
            LET s == CHOOSE s \in DOMAIN shape :
                       /\ s < k /\ shape[s] = "funcstart" /\ Opened(shape, s) = Opened(shape, k) + 1
                       /\ \A x \in s..k - 1 : Opened(shape, x) > Opened(shape, k)
            IN  QuadOf("funcend", FuncExpr(s, 1), NoExpr, NoExpr, 0)]

\* A jump stays in its function.
Labellings(shape) ==
  LET qs == Filled(shape, [k \in DOMAIN shape |-> 0])
      around == [k \in 0..Length |-> IF k = Length THEN {} ELSE Around(qs, k)]
  IN  {labels \in [Jumps(shape) -> 0..Length] :
         \A k \in Jumps(shape) : around[labels[k]] = around[k]}

FlowQuads == UNION {{Filled(shape, labels) : labels \in Labellings(shape)} : shape \in Shapes}

-----------------------------------------------------------------------------
(* Three quads of every kind, in every order, that share constants. *)

F == FuncExpr("a", 3)

OperandQuad ==
  {QuadOf(op, Global(0), Number(1), arg2, 0) : op \in ArithOps, arg2 \in {Number(2), Local(0)}}
    \cup {QuadOf("assign", Global(0), c, NoExpr, 0) :
            c \in {Number(-1), String("a"), String("b"), Bool(TRUE), Nil, F, LibFunc("print")}}
    \cup {QuadOf("uminus", Global(0), Formal(1), NoExpr, 0)}
    \cup {QuadOf("not", Global(0), Global(0), NoExpr, 0),
          QuadOf("tablecreate", Local(1), NoExpr, NoExpr, 0),
          QuadOf("tablegetelem", Local(0), Local(1), String("b"), 0),
          QuadOf("tablesetelem", Local(1), String("a"), Bool(FALSE), 0),
          QuadOf("getretval", Local(2), NoExpr, NoExpr, 0)}
    \cup {QuadOf("param", NoExpr, e, NoExpr, 0) : e \in {Number(2), F}}
    \cup {QuadOf("call", NoExpr, e, NoExpr, 0) : e \in {F, LibFunc("typeof"), String("b")}}
    \cup {QuadOf(op, NoExpr, Number(2), Number(1), 4) : op \in DOMAIN Relops}
    \cup {QuadOf("ret", e, NoExpr, NoExpr, 0) : e \in {Number(2), String("a"), NoExpr}}

\* The quads are the body of a function; arguments are followed by their call.
OperandQuads ==
  {[k \in 0..4 |-> CASE k = 0 -> QuadOf("funcstart", F, NoExpr, NoExpr, 0)
                     [] k = 4 -> QuadOf("funcend", F, NoExpr, NoExpr, 0)
                     [] OTHER -> body[k]] :
     body \in {b \in [1..3 -> OperandQuad] :
                 \A k \in 1..3 : b[k].op = "param" => k < 3 /\ b[k + 1].op \in {"param", "call"}}}

AllQuads == FlowQuads \cup OperandQuads

\* OutputWellFormed is about all of them.
ASSUME ProgramsAssumption == \A qs \in AllQuads : IsProgram(qs)
=============================================================================
