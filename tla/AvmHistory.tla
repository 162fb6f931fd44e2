----------------------------- MODULE AvmHistory -----------------------------
(***************************************************************************)
(* The virtual machine with a history of its active calls, which the code  *)
(* does not keep: the stack is all it has to return by.  The properties    *)
(* say that the stack always holds what the history remembers, and that    *)
(* the machine implements the calls of module Activations.                 *)
(***************************************************************************)
EXTENDS Avm

VARIABLE activations  \* the active calls, oldest first

historyVars == <<vars, activations>>

\* What a call leaves to be remembered: the function, where its frame is,
\* how many arguments it got, and what the return must restore.
Activation ==
  [func |-> Callee.funcVal, base |-> CallTop - 4, nargs |-> Actuals,
   ret |-> pc + 1, callerTopSp |-> topsp, callerTop |-> CallTop + Actuals]

HInit == Init /\ activations = <<>>

HCall == CallUserFunc /\ activations' = Append(activations, Activation)

HReturn ==
  /\ FuncExit
  /\ activations' = SubSeq(activations, 1, Len(activations) - 1)

HInFrame == InFrame /\ UNCHANGED activations

HNext == HInFrame \/ HCall \/ HReturn

HSpec == HInit /\ [][HNext]_historyVars

\* main() executes instructions for as long as the machine runs.
FairHSpec == HSpec /\ WF_historyVars(HNext)

Depth == Len(activations)

CurrentFunc == IF activations = <<>> THEN Main ELSE activations[Depth].func

\* The call was made, and its funcenter was not executed yet.
Entering == pc \in Code(prog) /\ Instr.op = "funcenter"

\* The lowest address of the k-th frame once its locals are there; below
\* the 0th, the globals, is Floor.
Low(k) ==
  IF k = 0 THEN Floor
  ELSE activations[k].base - LocalsOf(prog, activations[k].func)

\* A top that has gone below address 0 has wrapped around.
Height == IF top < StackSize THEN top ELSE top - Word

-----------------------------------------------------------------------------
(* Properties. *)

\* The environment of every active call is on the stack as the call wrote
\* it (avm.c:621-639), however many calls were made and returned since, and
\* whatever was assigned.  funcexit (avm.c:573-580) trusts these cells.
FramesIntact ==
  \A k \in 1..Depth :
    LET a == activations[k] IN
      /\ stack[a.base + SavedPcOffset] = Number(a.ret)
      /\ stack[a.base + SavedTopOffset] = Number(a.callerTop)
      /\ stack[a.base + SavedTopSpOffset] = Number(a.callerTopSp)
      /\ stack[a.base + NumActualsOffset] = Number(a.nargs)

\* The frames lie one below the other: a call's arguments end where, or
\* below where, the locals of each older call and the globals end.
FramesDisjoint ==
  \A k \in 1..Depth : \A j \in 0..k - 1 :
    activations[k].base + 4 + activations[k].nargs <= Low(j)

\* The machine runs the code of the newest call, in its frame, and what it
\* has pushed is below that frame.
FrameCurrent ==
  outcome = "running" =>
    /\ topsp = IF activations = <<>> THEN Floor ELSE activations[Depth].base
    /\ Owner(prog, pc) = CurrentFunc
    /\ IF Entering THEN top = topsp /\ totalActuals = 0
       ELSE Height + totalActuals <= Low(Depth)

\* The cells of the variables of one kind that the running code may use.
CellsOfKind(kind) ==
  LET a == activations[Depth] IN
    CASE kind = "global" -> Floor + 1..StackSize - 1
      [] kind = "local"  -> Low(Depth) + 1..a.base
      [] kind = "formal" -> a.base + 5..a.base + 4 + a.nargs

\* Every variable operand (avm.c:381-398) is a global, or a cell that the
\* newest call has for its locals or its arguments, and not one that pushed
\* arguments may use.
OperandsInFrame ==
  outcome = "running" /\ pc \in Code(prog) =>
    \A o \in Destinations(Instr) \cup ReadOperands(Instr) :
      IsVariable(o) /\ ~ Missing(o) =>
        Address(o) \in CellsOfKind(o.type) /\ Address(o) > Height + totalActuals

\* A return resumes the instruction after the call, with the caller's
\* topsp, and with top where it was before the arguments of this call were
\* pushed (avm.c:573-580, 612).
ReturnsToCaller ==
  [][FuncExit =>
       /\ activations # <<>>
       /\ LET a == activations[Depth] IN
            pc' = a.ret /\ topsp' = a.callerTopSp /\ top' = a.callerTop]_historyVars

\* Inside a function, totalarguments() and argument(i) answer for the call
\* that is running (avm.c:805-830).
LibrarySeesFrame ==
  [][activations # <<>> =>
       LET a == activations[Depth]
           i == ToUnsigned(LibArg.numVal)
       IN  /\ LibTotalArguments => retval_reg' = Number(a.nargs)
           /\ LibArgument => retval_reg' = IF i < a.nargs THEN stack[a.base + StackEnvSize + i]
                                           ELSE Nil]_historyVars

-----------------------------------------------------------------------------
(* The inductive invariant: the properties above, and how the history      *)
(* hangs together.                                                         *)

FuncBelow(k) == IF k = 1 THEN Main ELSE activations[k - 1].func
BaseBelow(k) == IF k = 1 THEN Floor ELSE activations[k - 1].base

HistoryOK ==
  /\ activations \in Seq([func : Funcs(prog), base : Addresses, nargs : Nat, ret : 0..prog.codeSize,
                          callerTopSp : Addresses, callerTop : Addresses])
  /\ \A k \in 1..Depth :
       LET a == activations[k] IN
         /\ a.callerTop = a.base + 4 + a.nargs
         /\ a.callerTopSp = BaseBelow(k)
         /\ Owner(prog, a.ret) = FuncBelow(k)
         /\ a.ret \in Code(prog) => prog.code[a.ret].op # "funcenter"

\* Arguments are pending only between a pusharg and the call.
PushesPending ==
  outcome = "running" /\ totalActuals > 0 =>
    pc \in Code(prog) /\ Instr.op \in {"pusharg", "call"}

IInv ==
  /\ TypeOK
  /\ prog \in Programs
  /\ HistoryOK
  /\ FramesIntact
  /\ FramesDisjoint
  /\ FrameCurrent
  /\ PushesPending

-----------------------------------------------------------------------------
(* Refinement: the frames of module Activations, read off the stack. *)

FrameOf(k) ==
  LET a == activations[k] IN
    [args   |-> [x \in 1..a.nargs |-> stack[a.base + StackEnvSize + x - 1]],
     locals |-> IF k = Depth /\ Entering THEN <<>>
                ELSE [x \in 0..LocalsOf(prog, a.func) - 1 |-> stack[a.base - x]],
     ret    |-> a.ret]

Abstract == INSTANCE Activations WITH
  globals <- [g \in 0..prog.totalGlobals - 1 |-> stack[StackSize - 1 - g]],
  frames  <- [k \in 1..Depth |-> FrameOf(k)],
  pending <- IF outcome = "running"
             THEN [x \in 1..totalActuals |-> stack[Height + x]] ELSE <<>>,
  retval  <- retval_reg,
  running <- outcome = "running"

\* The machine implements the calls of module Activations.
ImplementsActivations == Abstract!Spec
=============================================================================
