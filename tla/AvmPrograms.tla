---------------------------- MODULE AvmPrograms ----------------------------
(***************************************************************************)
(* A loaded program (load_binary, avm.c:1003-1056) and what the machine    *)
(* takes for granted of one.                                               *)
(*                                                                         *)
(* A program has its instructions, numbered from 0, its user functions,    *)
(* each with the address of its funcenter and the number of its locals,    *)
(* and the number of its globals.  An operand that names a constant is the *)
(* cell the constant table holds.                                          *)
(***************************************************************************)
EXTENDS AvmCells

Main == -1    \* the owner of the code outside every function

Global(n) == [type |-> "global", val |-> n]
Local(n)  == [type |-> "local", val |-> n]
Formal(n) == [type |-> "formal", val |-> n]
Retval    == [type |-> "retval"]
Label(n)  == [type |-> "label", val |-> n]

Variables == [type : {"global", "local", "formal"}, val : Nat]
Constants == Cells \ ([type : {"table"}, tableVal : Nat] \cup {Undef})
Labels    == [type : {"label"}, val : Nat]
Operands  == Variables \cup Constants \cup Labels \cup {Retval}

ArithOps  == {"add", "sub", "mul", "div", "mod"}
NumCmpOps == {"jle", "jge", "jlt", "jgt"}
JumpOps   == NumCmpOps \cup {"jeq", "jne", "jump"}
Opcodes   == ArithOps \cup JumpOps \cup
               {"assign", "call", "pusharg", "getretval", "funcenter", "funcexit",
                "newtable", "tablegetelem", "tablesetelem"}

\* The library functions (lib_dispatch); the unary ones insist on one argument.
ObjectLibs == {"objectmemberkeys", "objecttotalmembers", "objectcopy"}
MathLibs   == {"sqrt", "cos", "sin"}
UnaryLibs  == {"typeof", "argument", "strtonum"} \cup MathLibs \cup ObjectLibs
LibNames   == {"print", "input", "totalarguments"} \cup UnaryLibs

\* The operands that an instruction writes, and those that it reads.
Destinations(i) ==
  IF i.op \in ArithOps \cup {"assign", "getretval", "newtable", "tablegetelem"}
  THEN {i.result} ELSE {}

ReadOperands(i) ==
  CASE i.op \in {"call", "pusharg"} -> {i.result}
    [] i.op = "assign" -> {i.arg1}
    [] i.op \in ArithOps \cup {"jeq", "jne", "tablegetelem"} \cup NumCmpOps -> {i.arg1, i.arg2}
    [] i.op = "tablesetelem" -> {i.result, i.arg1, i.arg2}
    [] OTHER -> {}

-----------------------------------------------------------------------------
(* The cells a program can make: its user functions, and the first n tables. *)

Funcs(p) == DOMAIN p.userFuncs
Code(p)  == 0..p.codeSize - 1

CellsOf(p, n) ==
  {c \in Cells : /\ c.type = "userfunc" => c.funcVal \in Funcs(p)
                 /\ c.type = "table" => c.tableVal \in 1..n}

-----------------------------------------------------------------------------
(* The function whose body an instruction belongs to. *)

Encloses(p, f, i) ==
  /\ p.userFuncs[f].address <= i
  /\ \E x \in i..p.codeSize - 1 : p.code[x].op = "funcexit" /\ p.code[x].result.funcVal = f

Owner(p, i) ==
  LET around == {f \in Funcs(p) : Encloses(p, f, i)}
  IN  IF around = {} THEN Main
      ELSE CHOOSE f \in around :
             \A g \in around : p.userFuncs[g].address <= p.userFuncs[f].address

LocalsOf(p, f) == IF f = Main THEN 0 ELSE p.userFuncs[f].localSize

\* Where control can go from i without leaving the activation: a call
\* comes back to the next instruction.
Succ(p, i) ==
  LET instr == p.code[i] IN
    (IF instr.op \in JumpOps THEN {instr.result.val} ELSE {})
      \cup (IF instr.op \in {"jump", "funcexit"} THEN {} ELSE {i + 1})

-----------------------------------------------------------------------------
(* What the machine relies on.  It does not check any of this when it      *)
(* loads a program; it is up to the compiler to emit such code.            *)

ProgramTypeOK(p) ==
  /\ p.codeSize \in Nat
  /\ p.totalGlobals \in Nat \ {0}
  /\ p.code \in [Code(p) -> [op : Opcodes, result : Operands, arg1 : Operands, arg2 : Operands]]
  /\ \A f \in Funcs(p) :
        /\ f \in Nat
        /\ p.userFuncs[f].address \in Code(p)
        /\ p.userFuncs[f].localSize \in Nat

\* Each function begins at its own funcenter, and no funcenter is stray.
EntriesOK(p) ==
  /\ \A f \in Funcs(p) :
        LET a == p.userFuncs[f].address
        IN  p.code[a].op = "funcenter" /\ p.code[a].result = UserFunc(f) /\ Owner(p, a) = f
  /\ \A i \in Code(p) : p.code[i].op = "funcenter" =>
        \E f \in Funcs(p) : p.userFuncs[f].address = i
  /\ Owner(p, 0) = Main /\ Owner(p, p.codeSize) = Main

\* Control stays in the function, and enters a body only by a call.
FlowOK(p) ==
  \A i \in Code(p) :
    /\ \A s \in Succ(p, i) :
          /\ s \in 0..p.codeSize
          /\ Owner(p, s) = Owner(p, i)
          /\ s \in Code(p) => p.code[s].op # "funcenter"
    /\ p.code[i].op = "funcexit" => Owner(p, i) # Main

\* The arguments of a call are pushed together, right before the call.
PushesOK(p) ==
  \A i \in Code(p) : p.code[i].op = "pusharg" =>
    i + 1 \in Code(p) /\ p.code[i + 1].op \in {"pusharg", "call"}

\* An operand names a variable that its function has.
VariableOK(p, i, o) ==
  /\ o.type = "global" => o.val < p.totalGlobals
  /\ o.type = "local" => Owner(p, i) # Main /\ o.val < LocalsOf(p, Owner(p, i))
  /\ o.type = "formal" => Owner(p, i) # Main

OperandsOK(p) ==
  \A i \in Code(p) :
    /\ \A o \in Destinations(p.code[i]) :
          o \in Variables \cup {Retval} /\ VariableOK(p, i, o)
    /\ \A o \in ReadOperands(p.code[i]) :
          o \in Variables \cup Constants /\ VariableOK(p, i, o)

CalleesOK(p) ==
  \A i \in Code(p) : \A o \in ReadOperands(p.code[i]) :
    o.type = "userfunc" => o.funcVal \in Funcs(p)

WellFormed(p) ==
  /\ ProgramTypeOK(p)
  /\ EntriesOK(p)
  /\ FlowOK(p)
  /\ PushesOK(p)
  /\ OperandsOK(p)
  /\ CalleesOK(p)
=============================================================================
