----------------------------- MODULE MCPrograms -----------------------------
(***************************************************************************)
(* Programs to run the virtual machine on, written as the code generator   *)
(* writes them (target_code.c): a function is a jump over it, its          *)
(* funcenter, its body and its funcexit; the arguments of a call are       *)
(* pushed from the last to the first right before it; the result of a call *)
(* is fetched into a variable.  Labels are relative until Link adds the    *)
(* instruction's own address.                                              *)
(***************************************************************************)
EXTENDS AvmPrograms
LOCAL INSTANCE SequencesExt

I3(op, result, arg1, arg2) == [op |-> op, result |-> result, arg1 |-> arg1, arg2 |-> arg2]
I2(op, result, arg1) == I3(op, result, arg1, Nil)
I1(op, result) == I3(op, result, Nil, Nil)

Push(o)      == I1("pusharg", o)
CallOf(o)    == I1("call", o)
Set(o, v)    == I2("assign", o, v)
Goto(n)      == I1("jump", Label(n))
Invoke(f, args, r) ==
  [n \in 1..Len(args) |-> Push(args[Len(args) + 1 - n])] \o <<CallOf(f), I1("getretval", r)>>

\* A return of the value v, n instructions before the funcexit.
Return(v, n) == <<Set(Retval, v), Goto(n - 1)>>

FuncBlock(f, body) ==
  <<Goto(Len(body) + 3), I1("funcenter", UserFunc(f))>> \o body \o <<I1("funcexit", UserFunc(f))>>

Absolute(instr, i) ==
  IF instr.op \in JumpOps THEN [instr EXCEPT !.result.val = @ + i] ELSE instr

\* The program of a sequence of instructions, given the locals of its functions.
Link(instrs, locals, globals) ==
  LET code == [i \in 0..Len(instrs) - 1 |-> Absolute(instrs[i + 1], i)]
  IN  [code |-> code,
       codeSize |-> Len(instrs),
       userFuncs |->
         [f \in DOMAIN locals |->
            [address |-> CHOOSE i \in DOMAIN code :
                           code[i].op = "funcenter" /\ code[i].result = UserFunc(f),
             localSize |-> locals[f]]],
       totalGlobals |-> globals]

-----------------------------------------------------------------------------
(* Bodies of functions.  The first function is called 0, the second 1. *)

G0 == Global(0)
G1 == Global(1)

\* function f0(x, y) { if (x > 0) return f0(x - 1, y) + x; return y; }
Recursive ==
  <<I3("jgt", Label(2), Formal(0), Number(0)), Goto(7),
    I3("sub", Local(0), Formal(0), Number(1))>>
    \o Invoke(UserFunc(0), <<Local(0), Formal(1)>>, Local(1))
    \o <<I3("add", Local(2), Local(1), Formal(0))>> \o Return(Local(2), 4)
    \o Return(Formal(1), 2)

\* function f0(x, y) { local z = f1(x, f1(y)); x = argument(1); y = z; }
Nested ==
  Invoke(UserFunc(1), <<Formal(1)>>, Local(1))
    \o Invoke(UserFunc(1), <<Formal(0), Local(1)>>, Local(0))
    \o Invoke(LibFunc("argument"), <<Number(1)>>, Local(2))
    \o <<Set(Formal(0), Local(2)), Set(Formal(1), Local(0))>>

\* function f0(x) { x = 5; local n = totalarguments(); local m = argument(n); f0(n); }
Endless ==
  <<Set(Formal(0), Number(5))>>
    \o Invoke(LibFunc("totalarguments"), <<>>, Local(0))
    \o Invoke(LibFunc("argument"), <<Local(0)>>, Local(2))
    \o Invoke(UserFunc(0), <<Local(0)>>, Local(1))

\* function f0(x, y) { function f2(z) { return z * z; } return f2(y); }
Inner ==
  FuncBlock(2, <<I3("mul", Local(0), Formal(0), Formal(0))>> \o Return(Local(0), 2))
    \o Invoke(UserFunc(2), <<Formal(1)>>, Local(0)) \o Return(Local(0), 2)

\* function f1(a) { local b = a; print(b); b = typeof(b); }
Leaf ==
  <<Set(Local(0), Formal(0))>>
    \o Invoke(LibFunc("print"), <<Local(0)>>, Local(1))
    \o Invoke(LibFunc("typeof"), <<Local(0)>>, Local(1))
    \o <<Set(Local(0), Local(1))>>

Bodies == {Recursive, Nested, Endless, Inner}

-----------------------------------------------------------------------------
MCStrings  == CellTypes \cup {"libraryfunction", "()", "1", "a", "sqrt"} \cup LibNames
MCNumerals == [s \in {"1"} |-> 1]
MCInputs   == {Nil, Number(1)}

\* Statements at the global scope, over two variables and a temporary.
Statements ==
  {Invoke(UserFunc(0), <<G0, Number(1)>>, G1),
   Invoke(UserFunc(0), <<G0>>, G0),
   Invoke(UserFunc(1), <<Number(0), G0>>, G0),
   Invoke(LibFunc("print"), <<G0, Number(2)>>, Global(2)),
   Invoke(LibFunc("argument"), <<G0>>, G1),
   Invoke(G0, <<G1>>, G1),
   <<I1("newtable", G0), I3("tablesetelem", G0, String("()"), UserFunc(0))>>,
   <<Set(G0, Number(1)), I3("add", G1, G1, G0)>>,
   <<Set(G1, UserFunc(1)), Set(G0, G1)>>,
   <<I3("jlt", Label(2), G0, Number(2)), Goto(3), I3("add", G0, G0, Number(1)), Goto(-3)>>}

ProgramOf(body, main) ==
  Link(FuncBlock(0, body) \o FuncBlock(1, Leaf) \o main,
       [f \in 0..(IF body = Inner THEN 2 ELSE 1) |-> IF f = 2 THEN 1 ELSE 3], 3)

\* Every sequence of three statements, with every body for the function they call.
CallPrograms ==
  {ProgramOf(body, <<Set(G0, Number(1))>> \o first \o second \o third) :
     body \in Bodies, first \in Statements, second \in Statements, third \in Statements}

-----------------------------------------------------------------------------
(* Instructions and library functions, on values of every type. *)

TableOf(pairs) ==
  <<I1("newtable", G0)>>
    \o [n \in 1..Len(pairs) |-> I3("tablesetelem", G0, pairs[n][1], pairs[n][2])]

Values ==
  {<<Set(G0, v)>> : v \in {Number(0), Number(4), Number(-1), String("1"), String("sqrt"),
                           Bool(TRUE), Nil, UserFunc(1), LibFunc("print")}}
    \cup {TableOf(<<<<String("()"), LibFunc("typeof")>>, <<Bool(TRUE), Number(1)>>>>),
          TableOf(<<<<String("()"), UserFunc(1)>>, <<String("()"), Nil>>, <<Nil, Nil>>>>),
          TableOf(<<<<String("()"), Number(1)>>, <<String("()"), Nil>>,
                    <<String("()"), LibFunc("argument")>>>>),
          TableOf(<<<<String("a"), G0>>, <<Number(2), Number(1)>>, <<Number(1), G0>>>>)}

Operations ==
  {Invoke(LibFunc(f), <<G0>>, G1) : f \in LibNames}
    \cup {Invoke(G0, <<>>, G1), Invoke(G0, <<G0>>, G1), Invoke(UserFunc(2), <<G0>>, G1)}
    \cup {<<I3(op, G1, G0, Number(-3))>> : op \in ArithOps}
    \cup {<<I3("div", G1, G0, Number(0)), I3("mod", G1, G0, Number(0))>>}
    \cup {<<I3(op, Label(2), G0, Number(4)), Set(G1, G0)>> : op \in JumpOps}
    \cup {<<I3("jeq", Label(2), G0, v), I3("jne", Label(1), v, G0)>> : v \in {Bool(TRUE), String("1")}}
    \cup {<<I3("tablegetelem", G1, G0, k)>> : k \in {Number(1), String("a")}}

Observations ==
  {Invoke(LibFunc("objecttotalmembers"), <<G1>>, G0)
     \o <<I3("tablesetelem", G1, G0, Number(1)), I3("tablesetelem", G1, G0, Nil)>>,
   Invoke(LibFunc("objectmemberkeys"), <<G1>>, G1) \o Invoke(LibFunc("argument"), <<G1>>, G1),
   Invoke(LibFunc("argument"), <<Number(8)>>, G1)}

\* function f2(z) { z = argument(totalarguments()); }
ReadsArguments ==
  Invoke(LibFunc("totalarguments"), <<>>, Local(0))
    \o Invoke(LibFunc("argument"), <<Local(0)>>, Local(1)) \o <<Set(Formal(0), Local(1))>>

InstructionPrograms ==
  {Link(FuncBlock(1, Leaf) \o FuncBlock(2, ReadsArguments)
          \o <<Set(Global(2), last)>> \o value \o operation \o observation,
        [f \in 1..2 |-> 2], 3) :
     last \in {Number(9)}, value \in Values, operation \in Operations,
     observation \in Observations}

-----------------------------------------------------------------------------
(* Calls that never return: with any number of arguments and of locals,    *)
(* through a table or not, and with the arguments print leaves behind.     *)

EndlessBody(callee, args, prints) ==
  [n \in 1..2 * prints |-> IF n % 2 = 1 THEN Push(G0) ELSE CallOf(LibFunc("print"))]
    \o Invoke(callee, args, Local(0))

EndlessPrograms(printCounts) ==
  {Link(FuncBlock(0, EndlessBody(callee, [n \in 1..args |-> Number(n)], prints))
          \o TableOf(<<<<String("()"), UserFunc(0)>>>>) \o Invoke(UserFunc(0), <<>>, G1),
        [f \in {0} |-> locals], 2) :
     callee \in {UserFunc(0), G0}, args \in 0..3, locals \in 1..3, prints \in printCounts}

RecursionPrograms == EndlessPrograms(0..2)

-----------------------------------------------------------------------------
AllPrograms == CallPrograms \cup InstructionPrograms \cup RecursionPrograms
=============================================================================
