----------------------------- MODULE TargetCode -----------------------------
(***************************************************************************)
(* The code generator (target_code.c): generate_all translates the quads   *)
(* in order, one step each, into instructions for the virtual machine, and *)
(* at the end fills in the targets of the jumps.  The jumps around and out *)
(* of functions are filled in when the function ends, from a stack of the  *)
(* functions being translated.  Operands that are constants go into        *)
(* tables, and instructions hold positions in these tables.                *)
(*                                                                         *)
(* An operator named ...Mutant is the definition that follows it, with a   *)
(* plausible bug; nothing uses it.  It shows that a property can fail.     *)
(***************************************************************************)
EXTENDS AvmPrograms

CONSTANTS
  QuadLists,        \* the sequences of quads the parser may leave
  TotalGlobals,     \* program_var_offset when the parser is done
  MaxInstructions,  \* MAX_INSTRUCTIONS, which emit_instr asserts
  FuncStackSize,    \* FUNCSTACK_SIZE, which push_func_frame asserts
  RetListSize,      \* RETLIST_SIZE, which add_ret_to_frame asserts
  MaxConsts         \* from the types of constants to MAX_CONST_STRINGS and the
                    \* like, which nothing checks

ConstTypes == {"string", "number", "userfunc", "libfunc"}

ASSUME LimitsAssumption ==
  /\ TotalGlobals \in Nat
  /\ {MaxInstructions, FuncStackSize, RetListSize} \subseteq Nat
  /\ MaxConsts \in [ConstTypes -> Nat]

VARIABLES
  quads,         \* quad_array
  next,          \* the quad to be translated
  taddress,      \* of each translated quad: its first instruction
  instructions,  \* instruction n is at n + 1
  jumpList,      \* incomplete jumps: an instruction and the quad it goes to
  funcStack,     \* the functions being translated, the innermost last
  consts,        \* from the types of constants to tables; position n is at n + 1
  bodies,        \* the address and the locals in the rows of the user functions
  outcome

vars == <<quads, next, taddress, instructions, jumpList, funcStack, consts, bodies, outcome>>

\* "aborted": an assertion failed; "wild": a constant table was overrun.
Outcomes == {"running", "done", "aborted", "wild"}

Init ==
  /\ quads \in QuadLists
  /\ next = 0
  /\ taddress = [k \in {} |-> 0]
  /\ instructions = <<>>
  /\ jumpList = {}
  /\ funcStack = <<>>
  /\ consts = [t \in ConstTypes |-> <<>>]
  /\ bodies = [f \in {} |-> [address |-> 0, localSize |-> 0]]
  /\ outcome = "running"

CurrQuad == Cardinality(DOMAIN quads)
Quad     == quads[next]
CurrInstruction == Len(instructions)

-----------------------------------------------------------------------------
(* Operands.  An expr is told by what make_operand makes of it: a variable *)
(* (which is what a temporary is too), a constant, a function, or nothing. *)

NoExpr == [type |-> "null"]
NilArg == [type |-> "nil", val |-> 0]

\* The symbol of a user function, and the number of its locals when it ended.
FuncExpr(name, totalLocals) ==
  [type |-> "userfunc", sym |-> [s_name |-> name, total_locals |-> totalLocals]]

\* A table with an entry for e: the one it has, or a new one.
Interned(table, e) ==
  IF \E n \in DOMAIN table : table[n] = e THEN table ELSE Append(table, e)

PositionMutant(table, e) == Len(table) - 1
Position(table, e) == CHOOSE n \in 0..Len(table) - 1 : table[n + 1] = e

WithOperand(tables, e) ==
  IF e.type \in ConstTypes THEN [tables EXCEPT ![e.type] = Interned(@, e)] ELSE tables

\* The tables when the operands of a quad are there: its result, arg1 and arg2.
WithOperands(exprs) == WithOperand(WithOperand(WithOperand(consts, exprs[1]), exprs[2]), exprs[3])

\* make_operand: entries are never removed, so an operand can be looked up
\* in the tables as they are once all operands of the quad are there.
MakeOperand(tables, e) ==
  CASE e.type \in ConstTypes -> [type |-> e.type, val |-> Position(tables[e.type], e)]
    [] e.type = "bool" -> [type |-> "bool", val |-> IF e.boolVal THEN 1 ELSE 0]
    [] e.type \in {"null", "nil"} -> NilArg
    [] OTHER -> e

-----------------------------------------------------------------------------
(* Emitting instructions. *)

Instruction(op, result, arg1, arg2) ==
  [op |-> op, result |-> result, arg1 |-> arg1, arg2 |-> arg2]

\* A jump that is not complete yet.
OpenJump == Instruction("jump", Label(0), NilArg, NilArg)

\* The instructions and the table entries of the next quad.
Emit(tables, instrs) ==
  /\ Len(instructions) + Len(instrs) <= MaxInstructions
  /\ \A t \in ConstTypes : Len(tables[t]) <= MaxConsts[t]
  /\ taddress' = [k \in 0..next |-> IF k = next THEN CurrInstruction ELSE taddress[k]]
  /\ instructions' = instructions \o instrs
  /\ consts' = tables
  /\ next' = next + 1
  /\ UNCHANGED <<quads, outcome>>

At(ops) == outcome = "running" /\ next < CurrQuad /\ Quad.op \in ops

\* A quad that becomes one instruction, with operands taken from exprs.
EmitOne(op, result, arg1, arg2) ==
  LET tables == WithOperands(<<result, arg1, arg2>>)
  IN  Emit(tables, <<Instruction(op, MakeOperand(tables, result),
                                 MakeOperand(tables, arg1), MakeOperand(tables, arg2))>>)

GenerateAssign ==
  /\ At({"assign"})
  /\ EmitOne("assign", Quad.result, Quad.arg1, NoExpr)
  /\ UNCHANGED <<jumpList, funcStack, bodies>>

GenerateArith ==
  /\ At(ArithOps)
  /\ EmitOne(Quad.op, Quad.result, Quad.arg1, Quad.arg2)
  /\ UNCHANGED <<jumpList, funcStack, bodies>>

GenerateUminus ==
  /\ At({"uminus"})
  /\ EmitOne("mul", Quad.result, Quad.arg1, Number(-1))
  /\ UNCHANGED <<jumpList, funcStack, bodies>>

\* and, or and not are translated by the jumps around them.
GenerateNothing ==
  /\ At({"and", "or", "not"})
  /\ Emit(consts, <<>>)
  /\ UNCHANGED <<jumpList, funcStack, bodies>>

Relops == [if_eq |-> "jeq", if_noteq |-> "jne", if_lesseq |-> "jle",
           if_greatereq |-> "jge", if_less |-> "jlt", if_greater |-> "jgt"]

IncompleteJumpMutant == [instrNo |-> next, iaddress |-> Quad.label]
IncompleteJump == [instrNo |-> CurrInstruction, iaddress |-> Quad.label]

GenerateRelop ==
  /\ At(DOMAIN Relops)
  /\ EmitOne(Relops[Quad.op], Label(0), Quad.arg1, Quad.arg2)
  /\ jumpList' = jumpList \cup {IncompleteJump}
  /\ UNCHANGED <<funcStack, bodies>>

GenerateJump ==
  /\ At({"jump"})
  /\ Emit(consts, <<OpenJump>>)
  /\ jumpList' = jumpList \cup {IncompleteJump}
  /\ UNCHANGED <<funcStack, bodies>>

\* The function of a call and the argument of a param are their arg1.
GenerateCall ==
  /\ At({"call"})
  /\ EmitOne("call", Quad.arg1, NoExpr, NoExpr)
  /\ UNCHANGED <<jumpList, funcStack, bodies>>

GenerateParam ==
  /\ At({"param"})
  /\ EmitOne("pusharg", Quad.arg1, NoExpr, NoExpr)
  /\ UNCHANGED <<jumpList, funcStack, bodies>>

GenerateGetretval ==
  /\ At({"getretval"})
  /\ EmitOne("getretval", Quad.result, NoExpr, NoExpr)
  /\ UNCHANGED <<jumpList, funcStack, bodies>>

GenerateTablecreate ==
  /\ At({"tablecreate"})
  /\ EmitOne("newtable", Quad.result, NoExpr, NoExpr)
  /\ UNCHANGED <<jumpList, funcStack, bodies>>

GenerateTablegetelem ==
  /\ At({"tablegetelem"})
  /\ EmitOne("tablegetelem", Quad.result, Quad.arg1, Quad.arg2)
  /\ UNCHANGED <<jumpList, funcStack, bodies>>

GenerateTablesetelem ==
  /\ At({"tablesetelem"})
  /\ EmitOne("tablesetelem", Quad.result, Quad.arg1, Quad.arg2)
  /\ UNCHANGED <<jumpList, funcStack, bodies>>

-----------------------------------------------------------------------------
(* Functions. *)

Innermost == Len(funcStack)

\* Where the jump of a return goes that is the n-th instruction from here.
WithReturnMutant(n) == [funcStack EXCEPT ![1].rets = @ \cup {CurrInstruction + n}]
WithReturn(n) == [funcStack EXCEPT ![Innermost].rets = @ \cup {CurrInstruction + n}]

GenerateRet ==
  LET value == Quad.result
      tables == WithOperands(<<value, NoExpr, NoExpr>>)
      setValue == Instruction("assign", Retval, MakeOperand(tables, value), NilArg)
  IN  /\ At({"ret"})
      /\ Cardinality(funcStack[Innermost].rets) < RetListSize
      /\ IF value = NoExpr
         THEN Emit(tables, <<OpenJump>>) /\ funcStack' = WithReturn(0)
         ELSE Emit(tables, <<setValue, OpenJump>>) /\ funcStack' = WithReturn(1)
      /\ UNCHANGED <<jumpList, bodies>>

\* A jump over the body, which will be completed at its end, and the entry.
GenerateFuncstart ==
  LET tables == WithOperands(<<Quad.result, NoExpr, NoExpr>>)
      func == MakeOperand(tables, Quad.result)
  IN  /\ At({"funcstart"})
      /\ Len(funcStack) < FuncStackSize
      /\ Emit(tables, <<OpenJump, Instruction("funcenter", func, NilArg, NilArg)>>)
      /\ funcStack' = Append(funcStack,
                        [jump_instr |-> CurrInstruction, rets |-> {}, ufidx |-> func.val])
      /\ bodies' = [f \in DOMAIN bodies \cup {func.val} |->
                      IF f # func.val THEN bodies[f]
                      ELSE [address |-> CurrInstruction + 1,
                            localSize |-> IF f \in DOMAIN bodies THEN bodies[f].localSize ELSE 0]]
      /\ UNCHANGED jumpList

RetTarget == CurrInstruction

JumpTargetMutant == CurrInstruction
JumpTarget == CurrInstruction + 1

\* pop_func_frame: the jump over the function goes behind its funcexit, and
\* the returns go to it.
PatchedFunction(frame) ==
  [n \in DOMAIN instructions |->
     IF n - 1 = frame.jump_instr THEN [instructions[n] EXCEPT !.result.val = JumpTarget]
     ELSE IF n - 1 \in frame.rets THEN [instructions[n] EXCEPT !.result.val = RetTarget]
     ELSE instructions[n]]

GenerateFuncend ==
  LET frame == funcStack[Innermost]
      func == [type |-> "userfunc", val |-> frame.ufidx]
  IN  /\ At({"funcend"})
      /\ Len(instructions) < MaxInstructions
      /\ taddress' = [k \in 0..next |-> IF k = next THEN CurrInstruction ELSE taddress[k]]
      /\ instructions' = Append(PatchedFunction(frame), Instruction("funcexit", func, NilArg, NilArg))
      /\ funcStack' = SubSeq(funcStack, 1, Innermost - 1)
      /\ bodies' = [bodies EXCEPT ![frame.ufidx].localSize = Quad.result.sym.total_locals]
      /\ next' = next + 1
      /\ UNCHANGED <<quads, jumpList, consts, outcome>>

-----------------------------------------------------------------------------
(* The end of the translation, and its limits. *)

TargetMutant(label) == IF label < CurrQuad THEN taddress[label] ELSE taddress[CurrQuad - 1]
Target(label) == IF label < CurrQuad THEN taddress[label] ELSE CurrInstruction

PatchIncompleteJumps ==
  /\ outcome = "running" /\ next = CurrQuad
  /\ instructions' =
       [n \in DOMAIN instructions |->
          IF \E j \in jumpList : j.instrNo = n - 1
          THEN LET j == CHOOSE j \in jumpList : j.instrNo = n - 1
               IN  [instructions[n] EXCEPT !.result.val = Target(j.iaddress)]
          ELSE instructions[n]]
  /\ jumpList' = {}
  /\ outcome' = "done"
  /\ UNCHANGED <<quads, next, taddress, funcStack, consts, bodies>>

\* The operands that a quad makes entries for, and the number of its instructions.
QuadOperands(q) ==
  CASE q.op \in {"jump", "funcend", "and", "or", "not"} -> <<NoExpr, NoExpr, NoExpr>>
    [] q.op \in DOMAIN Relops -> <<NoExpr, q.arg1, q.arg2>>
    [] q.op = "uminus" -> <<q.result, q.arg1, Number(-1)>>
    [] OTHER -> <<q.result, q.arg1, q.arg2>>

Size(q) ==
  CASE q.op \in {"and", "or", "not"} -> 0
    [] q.op = "funcstart" \/ (q.op = "ret" /\ q.result # NoExpr) -> 2
    [] OTHER -> 1

Overruns ==
  LET tables == WithOperands(QuadOperands(Quad))
  IN  \E t \in ConstTypes : Len(tables[t]) > MaxConsts[t]

Stop(why) ==
  /\ outcome' = why
  /\ UNCHANGED <<quads, next, taddress, instructions, jumpList, funcStack, consts, bodies>>

Overrun ==
  /\ outcome = "running" /\ next < CurrQuad
  /\ Overruns
  /\ Stop("wild")

\* An assertion fails, and the compiler aborts.
Abort ==
  /\ outcome = "running" /\ next < CurrQuad
  /\ ~ Overruns
  /\ \/ Len(instructions) + Size(Quad) > MaxInstructions
     \/ Quad.op = "funcstart" /\ Len(funcStack) = FuncStackSize
     \/ Quad.op = "ret" /\ Cardinality(funcStack[Innermost].rets) = RetListSize
  /\ Stop("aborted")

Stopped == outcome # "running" /\ UNCHANGED vars

Next ==
  \/ GenerateAssign \/ GenerateArith \/ GenerateUminus \/ GenerateNothing
  \/ GenerateRelop \/ GenerateJump \/ GenerateCall \/ GenerateParam \/ GenerateGetretval
  \/ GenerateTablecreate \/ GenerateTablegetelem \/ GenerateTablesetelem
  \/ GenerateRet \/ GenerateFuncstart \/ GenerateFuncend
  \/ PatchIncompleteJumps \/ Overrun \/ Abort \/ Stopped

Spec == Init /\ [][Next]_vars

-----------------------------------------------------------------------------
(* The program that the machine loads. *)

\* An operand of an instruction, as the constant tables say.
Decoded(arg) ==
  CASE arg.type \in ConstTypes -> consts[arg.type][arg.val + 1]
    [] arg.type = "bool" -> Bool(arg.val = 1)
    [] arg.type = "nil" -> Nil
    [] OTHER -> arg

\* The machine knows a function by its position.
Loaded(arg) == IF arg.type = "userfunc" THEN UserFunc(arg.val) ELSE Decoded(arg)

Output ==
  [code |-> [n \in 0..CurrInstruction - 1 |->
               LET i == instructions[n + 1]
               IN  Instruction(i.op, Loaded(i.result), Loaded(i.arg1), Loaded(i.arg2))],
   codeSize |-> CurrInstruction,
   userFuncs |-> [f \in 0..Len(consts["userfunc"]) - 1 |->
                    IF f \in DOMAIN bodies THEN bodies[f] ELSE [address |-> 0, localSize |-> 0]],
   totalGlobals |-> TotalGlobals]

-----------------------------------------------------------------------------
(* Where control goes from a quad. *)

Count(qs, op, a, b) == Cardinality({k \in a..b : qs[k].op = op})

\* The funcend of the function that begins at s.
End(qs, s) ==
  CHOOSE e \in DOMAIN qs :
    /\ s < e /\ Count(qs, "funcstart", s, e) = Count(qs, "funcend", s, e)
    /\ \A x \in s..e - 1 : Count(qs, "funcstart", s, x) > Count(qs, "funcend", s, x)

FuncStarts(qs) == {s \in DOMAIN qs : qs[s].op = "funcstart"}

\* The functions around a quad, told by where they start, and the innermost.
Around(qs, k) == {s \in FuncStarts(qs) : s < k /\ k <= End(qs, s)}

FunctionOf(qs, k) == CHOOSE s \in Around(qs, k) : \A r \in Around(qs, k) : r <= s

QuadSucc(k) ==
  LET q == quads[k] IN
    CASE q.op = "jump" -> {q.label}
      [] q.op \in DOMAIN Relops -> {q.label, k + 1}
      [] q.op = "funcstart" -> {End(quads, k) + 1}
      [] q.op = "ret" -> {End(quads, FunctionOf(quads, k))}
      [] q.op = "funcend" -> {}
      [] OTHER -> {k + 1}

\* The first instruction of a quad, or of what comes behind the last one.
StartOf(k) == IF k < next THEN taddress[k] ELSE CurrInstruction

\* The instruction by which control leaves a quad.
LastOf(k) == IF quads[k].op = "funcstart" THEN taddress[k] ELSE StartOf(k + 1) - 1

-----------------------------------------------------------------------------
(* What the parser leaves. *)

QuadOps == ArithOps \cup DOMAIN Relops \cup
             {"assign", "uminus", "and", "or", "not", "jump", "call", "param", "getretval",
              "tablecreate", "tablegetelem", "tablesetelem", "ret", "funcstart", "funcend"}

IsFunc(e) == e = FuncExpr(e.sym.s_name, e.sym.total_locals) /\ e.sym.total_locals \in Nat

IsExpr(e) == e \in Variables \/ (e \in Constants /\ e.type # "userfunc") \/ IsFunc(e)

\* What the operands of an instruction are in the quad.
Carried(q) ==
  CASE q.op \in {"assign"} -> [result |-> q.result, arg1 |-> q.arg1]
    [] q.op \in ArithOps \cup {"tablegetelem", "tablesetelem"} ->
         [result |-> q.result, arg1 |-> q.arg1, arg2 |-> q.arg2]
    [] q.op = "uminus" -> [result |-> q.result, arg1 |-> q.arg1, arg2 |-> Number(-1)]
    [] q.op \in DOMAIN Relops -> [arg1 |-> q.arg1, arg2 |-> q.arg2]
    [] q.op \in {"call", "param"} -> [result |-> q.arg1]
    [] q.op \in {"getretval", "tablecreate"} -> [result |-> q.result]
    [] q.op = "ret" /\ q.result # NoExpr -> [arg1 |-> q.result]
    [] OTHER -> [x \in {} |-> NoExpr]

\* A quad among n: its operands are there, and a jump has got its label.
QuadOK(q, n) ==
  /\ q.op \in QuadOps
  /\ \A x \in DOMAIN Carried(q) : IsExpr(Carried(q)[x])
  /\ q.op \in {"funcstart", "funcend"} => IsFunc(q.result)
  /\ q.op \in {"jump"} \cup DOMAIN Relops => q.label \in 0..n

\* How deep in functions the quads go behind quad k.
Depth(qs, k) == Count(qs, "funcstart", 0, k) - Count(qs, "funcend", 0, k)

\* Functions nest, and there is no return outside of them (parser.y reports
\* one and emits nothing).
ASSUME QuadsAssumption ==
  \A qs \in QuadLists : LET n == Cardinality(DOMAIN qs) IN
    /\ n \in Nat /\ DOMAIN qs = 0..n - 1
    /\ \A k \in 0..n - 1 :
          /\ QuadOK(qs[k], n)
          /\ Depth(qs, k) >= IF qs[k].op = "ret" THEN 1 ELSE 0
    /\ Depth(qs, n - 1) = 0

\* The variable e is there for the code at quad k: its place is one that
\* the function around it has when it ended.
HasVariable(qs, k, e) ==
  /\ e.type = "global" => e.val < TotalGlobals
  /\ e.type \in {"local", "formal"} => Around(qs, k) # {}
  /\ e.type = "local" => e.val < qs[FunctionOf(qs, k)].result.sym.total_locals

\* The quads of a program: a jump stays in its function, params come right
\* before their call, what is written is a variable, an operand names what
\* is declared, and a funcend has the symbol of its funcstart.
IsProgram(qs) ==
  \A k \in DOMAIN qs : LET q == qs[k] IN
    /\ q.op \in {"jump"} \cup DOMAIN Relops => Around(qs, q.label) = Around(qs, k)
    /\ q.op = "param" => k + 1 \in DOMAIN qs /\ qs[k + 1].op \in {"param", "call"}
    /\ q.op \in ArithOps \cup {"assign", "uminus", "getretval", "tablecreate", "tablegetelem"} =>
         q.result \in Variables
    /\ \A x \in DOMAIN Carried(q) : LET e == Carried(q)[x] IN
         /\ HasVariable(qs, k, e)
         /\ e.type = "userfunc" => \E s \in FuncStarts(qs) : qs[s].result = e
    /\ q.op = "funcstart" => qs[End(qs, k)].result = q.result

-----------------------------------------------------------------------------
(* Properties. *)

\* Instructions, tables and jump lists keep their types: a jump that waits
\* for its target, in either list, is a jump instruction that was emitted.
TypeOK ==
  /\ next \in 0..CurrQuad
  /\ taddress \in [0..next - 1 -> 0..CurrInstruction]
  /\ \A n \in DOMAIN instructions : instructions[n].op \in Opcodes
  /\ \A j \in jumpList :
        /\ j.instrNo + 1 \in DOMAIN instructions
        /\ instructions[j.instrNo + 1].op \in JumpOps
        /\ j.iaddress \in 0..CurrQuad
  /\ \A d \in DOMAIN funcStack : \A n \in funcStack[d].rets \cup {funcStack[d].jump_instr} :
        instructions[n + 1].op = "jump"
  /\ outcome \in Outcomes

\* While a function is translated, func_stack (target_code.c:130-152) holds
\* the functions around the next quad, each with the jump over it and with
\* exactly the returns that are its own and not of a function inside it.
OpenFunctions ==
  outcome = "running" =>
    LET around == Around(quads, next) IN
      /\ Len(funcStack) = Cardinality(around)
      /\ \A s \in around : LET frame == funcStack[Cardinality({r \in around : r <= s})] IN
           /\ frame.jump_instr = taddress[s]
           /\ frame.rets = {LastOf(k) : k \in {r \in 0..next - 1 :
                              quads[r].op = "ret" /\ FunctionOf(quads, r) = s}}
           /\ consts["userfunc"][frame.ufidx + 1] = quads[s].result

\* Each symbol of a function is declared by one quad.
DeclaredOnce == \A s, t \in FuncStarts(quads) : quads[s].result = quads[t].result => s = t

\* In the finished code control leaves the instructions of a quad for those
\* of the quads that it leaves the quad for: a jump for its label, a
\* declaration for what follows the function, a return for the end of the
\* innermost function around it; and a function that is declared once is
\* entered at the quad behind its funcstart.
FlowPreserved ==
  outcome = "done" =>
    \A k \in DOMAIN quads :
      /\ Size(quads[k]) > 0 =>
           Succ(Output, LastOf(k)) = {StartOf(s) : s \in QuadSucc(k)}
      /\ quads[k].op = "funcstart" /\ DeclaredOnce =>
           \E f \in Funcs(Output) :
             /\ consts["userfunc"][f + 1] = quads[k].result
             /\ Output.userFuncs[f].address + 1 = StartOf(k + 1)

\* Every operand can be read back from the constant tables at any time
\* after it was emitted, however the tables grew since.
OperandsPreserved ==
  \A k \in 0..next - 1 :
    LET carried == Carried(quads[k]) IN
      \A x \in DOMAIN carried : Decoded(instructions[taddress[k] + 1][x]) = carried[x]

\* The finished code is what the virtual machine relies on (avm.c checks
\* nothing of it), if the quads are those of a program with a global that
\* declares every function once.
OutputWellFormed ==
  outcome = "done" /\ IsProgram(quads) /\ DeclaredOnce /\ TotalGlobals > 0 => WellFormed(Output)
=============================================================================
