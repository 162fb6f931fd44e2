-------------------------------- MODULE Avm --------------------------------
(***************************************************************************)
(* The virtual machine (avm.c): its registers, its stack, one action per   *)
(* kind of instruction and one per library function.                       *)
(*                                                                         *)
(* The stack grows towards address 0.  The globals are its highest cells;  *)
(* below them lie the frames of the active calls.  A frame is, downwards,  *)
(* the arguments, the return address, the caller's top, the caller's       *)
(* topsp, the number of arguments, and the locals, the first one at topsp; *)
(* top is the first free cell.  top and topsp are unsigned.                *)
(*                                                                         *)
(* Table lifetimes are not modelled here: a table is never freed.          *)
(*                                                                         *)
(* An operator named ...Mutant is the definition that follows it, with a   *)
(* plausible bug; nothing uses it.  It shows that a property can fail.     *)
(***************************************************************************)
EXTENDS AvmPrograms

CONSTANTS
  Programs,   \* the programs load_binary may read
  StackSize,  \* AVM_STACKSIZE: 4096 in the code
  Inputs      \* the cells a line of standard input, or its end, turns into

ASSUME AvmAssumption ==
  /\ StackSize \in Nat
  /\ Word \in Nat /\ Word > StackSize + 4
  /\ Inputs \subseteq {c \in Cells : c.type \in {"number", "string", "bool", "nil"}}

ASSUME ProgramsAssumption ==
  \A p \in Programs : WellFormed(p) /\ p.totalGlobals < StackSize /\ p.codeSize < Word

NumActualsOffset  == 1
SavedTopSpOffset  == 2
SavedTopOffset    == 3
SavedPcOffset     == 4
StackEnvSize      == 5

VARIABLES
  prog,          \* the program
  stack,         \* from addresses to cells
  top, topsp,    \* the first free cell, and the frame pointer
  pc,
  totalActuals,  \* the number of arguments pushed for the coming call
  retval_reg,
  tables,        \* the tables in order of their creation
  outcome        \* "running" until executionFinished is set, then why it was

registers == <<top, topsp, pc, totalActuals>>
vars == <<prog, stack, registers, retval_reg, tables, outcome>>

\* "finished": the end of the code; "error": a run-time error was reported;
\* "overflow": "Stack overflow!" was reported; "wild": the machine touched
\* memory outside the stack array, and what follows is undefined.
Outcomes == {"running", "finished", "error", "overflow", "wild"}

Addresses  == 0..StackSize - 1
InStack(a) == a \in Addresses

\* The registers and every cell keep their types.  In particular top is a
\* free cell or has wrapped once below address 0 (avm.c:550), topsp stays in
\* the stack, and a cell never names a table or a function that is not there.
TypeOK ==
  /\ stack \in [Addresses -> CellsOf(prog, Len(tables))]
  /\ top \in Addresses \cup {Word - 1} /\ topsp \in Addresses
  /\ pc \in 0..prog.codeSize
  /\ totalActuals \in Nat
  /\ retval_reg \in CellsOf(prog, Len(tables))
  /\ tables \in Seq({tables[i] : i \in DOMAIN tables})
  /\ \A i \in DOMAIN tables : IsTable(tables[i], CellsOf(prog, Len(tables)))
  /\ outcome \in Outcomes

\* The address just below the globals.
Floor == StackSize - 1 - prog.totalGlobals

Init ==
  /\ prog \in Programs
  /\ stack = [a \in Addresses |-> Undef]
  /\ top = Floor
  /\ topsp = Floor
  /\ pc = 0
  /\ totalActuals = 0
  /\ retval_reg = Undef
  /\ tables = <<>>
  /\ outcome = IF prog.codeSize = 0 THEN "finished" ELSE "running"

-----------------------------------------------------------------------------
(* Operands. *)

Instr == prog.code[pc]

Fetch(ops) == outcome = "running" /\ pc < prog.codeSize /\ Instr.op \in ops

\* The number of arguments, as the current frame records it.
NumActuals ==
  LET c == stack[topsp + NumActualsOffset]
  IN  IF c.type = "number" THEN ToUnsigned(c.numVal) ELSE 0

MissingMutant(o) == o.type = "formal" /\ o.val > NumActuals

\* An argument the caller did not pass: an undefined register stands for
\* it, and the instruction is completed before the machine stops.
Missing(o) == o.type = "formal" /\ o.val >= NumActuals

AddressMutant(o) ==
  CASE o.type = "global" -> StackSize - 1 - o.val
    [] o.type = "local"  -> topsp - o.val
    [] o.type = "formal" -> topsp + StackEnvSize + o.val - 1

Address(o) ==
  CASE o.type = "global" -> StackSize - 1 - o.val
    [] o.type = "local"  -> topsp - o.val
    [] o.type = "formal" -> topsp + StackEnvSize + o.val

IsVariable(o) == o.type \in {"global", "local", "formal"}

Value(o) ==
  IF Missing(o) THEN Undef
  ELSE IF IsVariable(o) THEN stack[Address(o)]
  ELSE IF o.type = "retval" THEN retval_reg
  ELSE o

\* avm_assign, with lv the cell that the operand o translates to.
Store(o, c) ==
  /\ stack' = IF IsVariable(o) /\ ~ Missing(o) THEN [stack EXCEPT ![Address(o)] = c] ELSE stack
  /\ retval_reg' = IF o.type = "retval" THEN c ELSE retval_reg

Translated(operands) ==
  outcome' = IF \E o \in operands : Missing(o) THEN "error" ELSE "running"

\* avm_error in an instruction that has changed nothing.
Fail == outcome' = "error" /\ UNCHANGED <<prog, stack, registers, retval_reg, tables>>

-----------------------------------------------------------------------------
(* Assignment, arithmetic and jumps. *)

Assign ==
  /\ Fetch({"assign"})
  /\ Store(Instr.result, Value(Instr.arg1))
  /\ pc' = pc + 1
  /\ Translated({Instr.result, Instr.arg1})
  /\ UNCHANGED <<prog, top, topsp, totalActuals, tables>>

ArithDefined(op, a, b) ==
  /\ a.type = "number" /\ b.type = "number"
  /\ op \in {"div", "mod"} => b.numVal # 0

Arithmetic ==
  LET a == Value(Instr.arg1)
      b == Value(Instr.arg2)
  IN  /\ Fetch(ArithOps)
      /\ ArithDefined(Instr.op, a, b)
      /\ Store(Instr.result, Number(ArithResult(Instr.op, a.numVal, b.numVal)))
      /\ pc' = pc + 1
      /\ Translated({Instr.result, Instr.arg1, Instr.arg2})
      /\ UNCHANGED <<prog, top, topsp, totalActuals, tables>>

ArithmeticError ==
  /\ Fetch(ArithOps)
  /\ ~ ArithDefined(Instr.op, Value(Instr.arg1), Value(Instr.arg2))
  /\ Fail

JumpIf(cond) ==
  /\ pc' = IF cond THEN Instr.result.val ELSE pc + 1
  /\ UNCHANGED <<prog, stack, top, topsp, totalActuals, retval_reg, tables>>

Jeq ==
  /\ Fetch({"jeq"})
  /\ JumpIf(JeqCond(Value(Instr.arg1), Value(Instr.arg2)))
  /\ Translated({Instr.arg1, Instr.arg2})

Jne ==
  /\ Fetch({"jne"})
  /\ JumpIf(JneCond(Value(Instr.arg1), Value(Instr.arg2)))
  /\ Translated({Instr.arg1, Instr.arg2})

NumCmp ==
  LET a == Value(Instr.arg1)
      b == Value(Instr.arg2)
  IN  /\ Fetch(NumCmpOps)
      /\ Comparable(a) /\ Comparable(b)
      /\ JumpIf(NumCond(Instr.op, ToNum(a), ToNum(b)))
      /\ Translated({Instr.arg1, Instr.arg2})

NumCmpError ==
  /\ Fetch(NumCmpOps)
  /\ ~ (Comparable(Value(Instr.arg1)) /\ Comparable(Value(Instr.arg2)))
  /\ Fail

Jump ==
  /\ Fetch({"jump"})
  /\ JumpIf(TRUE)
  /\ UNCHANGED outcome

-----------------------------------------------------------------------------
(* Tables. *)

\* The table that comes next.
NextTableMutant == TableRef(Len(tables))
NextTable == TableRef(Len(tables) + 1)

NewTable ==
  /\ Fetch({"newtable"})
  /\ tables' = Append(tables, EmptyTable)
  /\ Store(Instr.result, NextTable)
  /\ pc' = pc + 1
  /\ Translated({Instr.result})
  /\ UNCHANGED <<prog, top, topsp, totalActuals>>

TableGetElem ==
  LET t == Value(Instr.arg1)
      key == Value(Instr.arg2)
  IN  /\ Fetch({"tablegetelem"})
      /\ t.type = "table"
      /\ Store(Instr.result, GetElem(tables[t.tableVal], key))
      /\ pc' = pc + 1
      /\ Translated({Instr.result, Instr.arg1, Instr.arg2})
      /\ UNCHANGED <<prog, top, topsp, totalActuals, tables>>

TableSetElem ==
  LET t == Value(Instr.result)
      key == Value(Instr.arg1)
      val == Value(Instr.arg2)
  IN  /\ Fetch({"tablesetelem"})
      /\ t.type = "table"
      /\ tables' = [tables EXCEPT ![t.tableVal] = SetElem(@, key, val)]
      /\ pc' = pc + 1
      /\ Translated({Instr.result, Instr.arg1, Instr.arg2})
      /\ UNCHANGED <<prog, stack, top, topsp, totalActuals, retval_reg>>

TableError ==
  /\ \/ Fetch({"tablegetelem"}) /\ Value(Instr.arg1).type # "table"
     \/ Fetch({"tablesetelem"}) /\ Value(Instr.result).type # "table"
  /\ Fail

-----------------------------------------------------------------------------
(* Arguments and calls. *)

PushArg ==
  /\ Fetch({"pusharg"})
  /\ InStack(top)
  /\ stack' = [stack EXCEPT ![top] = Value(Instr.result)]
  /\ top' = (top - 1) % Word
  /\ totalActuals' = totalActuals + 1
  /\ pc' = pc + 1
  /\ Translated({Instr.result})
  /\ UNCHANGED <<prog, topsp, retval_reg, tables>>

\* pusharg does not compare top with anything.
PushArgWild ==
  /\ Fetch({"pusharg"})
  /\ ~ InStack(top)
  /\ outcome' = "wild"
  /\ UNCHANGED <<prog, stack, registers, retval_reg, tables>>

\* A table with an element "()" is callable: it is pushed as one more
\* argument, the first formal, and the element is called.
Functor == Value(Instr.result).type = "table"

Callee ==
  LET func == Value(Instr.result) IN
    IF ~ Functor THEN func ELSE GetElem(tables[func.tableVal], String("()"))

Callable ==
  IF Functor THEN Callee.type \in {"userfunc", "libfunc"}
  ELSE Callee.type \in {"userfunc", "libfunc", "string"}

\* The stack, top and the number of arguments once the table is pushed.
CallStack == IF Functor THEN [stack EXCEPT ![top] = Value(Instr.result)] ELSE stack
CallTop   == IF Functor THEN (top - 1) % Word ELSE top

ActualsMutant == totalActuals
Actuals   == IF Functor THEN totalActuals + 1 ELSE totalActuals

\* The machine is at a call whose callee has the type t, and pushing the
\* table, if it must, stays inside the stack.
Calls(t) ==
  /\ Fetch({"call"})
  /\ Callable /\ Callee.type = t
  /\ Functor => InStack(top)

\* The environment of a call fits below the arguments.
EnvironmentFitsMutant == CallTop >= 3 /\ InStack(CallTop)
EnvironmentFits == CallTop >= 4 /\ InStack(CallTop)

\* Where top was before the arguments were pushed.
SavedTopMutant == CallTop
SavedTop == CallTop + Actuals

CallUserFunc ==
  /\ Calls("userfunc")
  /\ EnvironmentFits
  /\ stack' = [CallStack EXCEPT ![CallTop]     = Number(pc + 1),
                                ![CallTop - 1] = Number(SavedTop),
                                ![CallTop - 2] = Number(topsp),
                                ![CallTop - 3] = Number(Actuals)]
  /\ top' = CallTop - 4
  /\ topsp' = CallTop - 4
  /\ totalActuals' = 0
  /\ pc' = prog.userFuncs[Callee.funcVal].address
  /\ UNCHANGED <<prog, retval_reg, tables, outcome>>

CallOverflowMutant ==
  /\ Calls("userfunc")
  /\ CallTop < 4
  /\ stack' = CallStack /\ top' = CallTop /\ totalActuals' = Actuals
  /\ UNCHANGED <<prog, topsp, pc, retval_reg, tables, outcome>>

CallOverflow ==
  /\ Calls("userfunc")
  /\ CallTop < 4
  /\ stack' = CallStack /\ top' = CallTop /\ totalActuals' = Actuals
  /\ outcome' = "overflow"
  /\ UNCHANGED <<prog, topsp, pc, retval_reg, tables>>

\* The check "top < 4" lets a top that has wrapped around pass.
CallWild ==
  /\ \/ Calls("userfunc") /\ CallTop >= 4 /\ ~ InStack(CallTop)
     \/ Fetch({"call"}) /\ Functor /\ Callable /\ ~ InStack(top)
  /\ outcome' = "wild"
  /\ UNCHANGED <<prog, stack, registers, retval_reg, tables>>

CallError ==
  /\ Fetch({"call"})
  /\ ~ Callable
  /\ Fail

TopBelowLocalsMutant(localSize) == top
TopBelowLocals(localSize) == top - localSize

FuncEnter ==
  LET localSize == prog.userFuncs[Instr.result.funcVal].localSize
  IN  /\ Fetch({"funcenter"})
      /\ top >= localSize
      /\ stack' = [a \in Addresses |->
                     IF topsp - localSize < a /\ a <= topsp THEN Undef ELSE stack[a]]
      /\ top' = TopBelowLocals(localSize)
      /\ pc' = pc + 1
      /\ UNCHANGED <<prog, topsp, totalActuals, retval_reg, tables, outcome>>

FuncEnterOverflow ==
  /\ Fetch({"funcenter"})
  /\ top < prog.userFuncs[Instr.result.funcVal].localSize
  /\ outcome' = "overflow"
  /\ UNCHANGED <<prog, stack, registers, retval_reg, tables>>

FuncExitMutant ==
  /\ Fetch({"funcexit"})
  /\ top' = ToUnsigned(stack[topsp + SavedTopOffset].numVal)
  /\ pc' = ToUnsigned(stack[topsp + SavedPcOffset].numVal)
  /\ UNCHANGED <<prog, stack, topsp, totalActuals, retval_reg, tables, outcome>>

FuncExit ==
  /\ Fetch({"funcexit"})
  /\ top' = ToUnsigned(stack[topsp + SavedTopOffset].numVal)
  /\ topsp' = ToUnsigned(stack[topsp + SavedTopSpOffset].numVal)
  /\ pc' = ToUnsigned(stack[topsp + SavedPcOffset].numVal)
  /\ UNCHANGED <<prog, stack, totalActuals, retval_reg, tables, outcome>>

GetRetval ==
  /\ Fetch({"getretval"})
  /\ Store(Instr.result, retval_reg)
  /\ pc' = pc + 1
  /\ Translated({Instr.result})
  /\ UNCHANGED <<prog, top, topsp, totalActuals, tables>>

-----------------------------------------------------------------------------
(* Library functions.  None of them pops the arguments. *)

\* A string is called as the library function of that name.
LibName == IF Callee.type = "string" THEN Callee.strVal ELSE Callee.libfuncVal

AtLib(names) == (Calls("libfunc") \/ Calls("string")) /\ LibName \in names

LibArg == CallStack[(CallTop + 1) % Word]

LibReturn ==
  /\ stack' = CallStack /\ top' = CallTop /\ totalActuals' = 0
  /\ pc' = pc + 1
  /\ UNCHANGED <<prog, topsp, outcome>>

LibDomain(name) ==
  /\ name \in UnaryLibs => Actuals = 1
  /\ name \in {"argument"} \cup MathLibs => LibArg.type = "number"
  /\ name \in ObjectLibs => LibArg.type = "table"

\* avm_error inside avm_calllibfunc: the call instruction still ends.
LibError ==
  /\ Calls("libfunc") \/ Calls("string")
  /\ ~ (LibName \in LibNames /\ LibDomain(LibName))
  /\ stack' = CallStack /\ top' = CallTop /\ totalActuals' = Actuals
  /\ pc' = pc + 1
  /\ outcome' = "error"
  /\ UNCHANGED <<prog, topsp, retval_reg, tables>>

LibPrint ==
  /\ AtLib({"print"})
  /\ LibReturn
  /\ UNCHANGED <<retval_reg, tables>>

LibInput ==
  /\ AtLib({"input"})
  /\ retval_reg' \in Inputs
  /\ LibReturn
  /\ UNCHANGED tables

LibTypeof ==
  /\ AtLib({"typeof"}) /\ LibDomain("typeof")
  /\ retval_reg' = String(IF LibArg.type = "libfunc" THEN "libraryfunction" ELSE LibArg.type)
  /\ LibReturn
  /\ UNCHANGED tables

\* Outside every function topsp + 1 is the last global.
LibTotalArguments ==
  LET c == CallStack[topsp + NumActualsOffset]
  IN  /\ AtLib({"totalarguments"})
      /\ retval_reg' = IF c.type = "number" THEN c ELSE Nil
      /\ LibReturn
      /\ UNCHANGED tables

ArgumentAddress == (topsp + StackEnvSize + ToUnsigned(LibArg.numVal)) % Word

ArgumentPassedMutant ==
  LET c == CallStack[topsp + NumActualsOffset]
  IN  c.type = "number" /\ ToUnsigned(LibArg.numVal) <= ToUnsigned(c.numVal)

ArgumentPassed ==
  LET c == CallStack[topsp + NumActualsOffset]
  IN  c.type = "number" /\ ToUnsigned(LibArg.numVal) < ToUnsigned(c.numVal)

LibArgument ==
  /\ AtLib({"argument"}) /\ LibDomain("argument")
  /\ ArgumentPassed => InStack(ArgumentAddress)
  /\ retval_reg' = IF ArgumentPassed THEN CallStack[ArgumentAddress] ELSE Nil
  /\ LibReturn
  /\ UNCHANGED tables

LibArgumentWild ==
  /\ AtLib({"argument"}) /\ LibDomain("argument")
  /\ ArgumentPassed /\ ~ InStack(ArgumentAddress)
  /\ outcome' = "wild"
  /\ UNCHANGED <<prog, stack, registers, retval_reg, tables>>

LibStrtonum ==
  /\ AtLib({"strtonum"}) /\ LibDomain("strtonum")
  /\ retval_reg' = IF LibArg.type = "string" THEN StrToNum(LibArg.strVal) ELSE Nil
  /\ LibReturn
  /\ UNCHANGED tables

LibSqrt ==
  /\ AtLib({"sqrt"}) /\ LibDomain("sqrt")
  /\ IF LibArg.numVal < 0 THEN retval_reg' = Nil
     ELSE retval_reg' \in {Number(r) : r \in SquareRoots(LibArg.numVal)}
  /\ LibReturn
  /\ UNCHANGED tables

LibTrigonometry ==
  /\ AtLib({"cos", "sin"}) /\ LibDomain("cos")
  /\ retval_reg' \in {Number(n) : n \in -1..1}
  /\ LibReturn
  /\ UNCHANGED tables

\* The string keys come before the number keys; the order within each kind
\* is that of the hash buckets.
KeyOrders(t) ==
  LET strs == {k \in Members(t) : k.type = "string"}
      nums == {k \in Members(t) : k.type = "number"}
      n == Cardinality(strs)
      m == Cardinality(nums)
  IN  {order \in [0..n + m - 1 -> strs \cup nums] :
         /\ {order[i] : i \in 0..n - 1} = strs
         /\ {order[i] : i \in n..n + m - 1} = nums}

LibObjectMemberKeys ==
  /\ AtLib({"objectmemberkeys"}) /\ LibDomain("objectmemberkeys")
  /\ \E order \in KeyOrders(tables[LibArg.tableVal]) :
       tables' = Append(tables,
         [elems |-> [k \in {Number(i) : i \in DOMAIN order} |-> order[k.numVal]],
          total |-> Cardinality(DOMAIN order) % Word])
  /\ retval_reg' = NextTable
  /\ LibReturn

LibObjectTotalMembers ==
  /\ AtLib({"objecttotalmembers"}) /\ LibDomain("objecttotalmembers")
  /\ retval_reg' = Number(tables[LibArg.tableVal].total)
  /\ LibReturn
  /\ UNCHANGED tables

LibObjectCopy ==
  /\ AtLib({"objectcopy"}) /\ LibDomain("objectcopy")
  /\ tables' = Append(tables, CopyOf(tables[LibArg.tableVal]))
  /\ retval_reg' = NextTable
  /\ LibReturn

LibCall ==
  \/ LibError \/ LibPrint \/ LibInput \/ LibTypeof \/ LibTotalArguments
  \/ LibArgument \/ LibArgumentWild \/ LibStrtonum \/ LibSqrt \/ LibTrigonometry
  \/ LibObjectMemberKeys \/ LibObjectTotalMembers \/ LibObjectCopy

-----------------------------------------------------------------------------

\* execute_cycle at the end of the code.
Halt ==
  /\ outcome = "running" /\ pc >= prog.codeSize
  /\ outcome' = "finished"
  /\ UNCHANGED <<prog, stack, registers, retval_reg, tables>>

\* A machine that has stopped stays as it is.
Stopped == outcome # "running" /\ UNCHANGED vars

\* Every step but a call and a return leaves the frames in place.
InFrame ==
  \/ Assign \/ Arithmetic \/ ArithmeticError \/ Jeq \/ Jne \/ NumCmp \/ NumCmpError \/ Jump
  \/ NewTable \/ TableGetElem \/ TableSetElem \/ TableError
  \/ PushArg \/ PushArgWild \/ CallOverflow \/ CallWild \/ CallError
  \/ FuncEnter \/ FuncEnterOverflow \/ GetRetval \/ LibCall \/ Halt \/ Stopped

Next == InFrame \/ CallUserFunc \/ FuncExit

Spec == Init /\ [][Next]_vars

-----------------------------------------------------------------------------
(* Properties. *)

\* What no check prevents: arguments took the last cell of the stack, and
\* there is one more to push or an environment to write; or argument() was
\* called outside of every function, where the last global answers for the
\* number of arguments.
PushedOut == Instr.op \in {"pusharg", "call"} /\ top \notin 1..StackSize - 1
FrameLess == Instr.op = "call" /\ topsp = Floor

\* The machine comes to the end of the code or stops with a report, but for
\* two ways out of the stack (avm.c:548 and 596, avm.c:815-831).  No machine
\* can promise that for every program; it is promised for one whose only
\* repetition is recursion, even without end: the stack is finite, and call
\* and funcenter say so (avm.c:560, 615).
Stops ==
  <>(\/ outcome \in {"finished", "error", "overflow"}
     \/ outcome = "wild" /\ (PushedOut \/ FrameLess))

\* The checks of call and funcenter (avm.c:560, 614-619) keep the machine
\* inside the stack array.
NeverWild == outcome # "wild"
=============================================================================
