------------------------ MODULE AvmActivationsProofs ------------------------
(***************************************************************************)
(* A proof that the virtual machine implements calls: the refinement of    *)
(* module Activations by module AvmHistory.                                *)
(***************************************************************************)
EXTENDS AvmHistoryProofs, FunctionTheorems, FiniteSetTheorems

-----------------------------------------------------------------------------
(* The state of module Activations, read off the machine. *)

GlobalsOf == [g \in 0..prog.totalGlobals - 1 |-> stack[StackSize - 1 - g]]
FramesOf  == [k \in 1..Depth |-> FrameOf(k)]
PendingOf == IF outcome = "running" THEN [x \in 1..totalActuals |-> stack[Height + x]] ELSE <<>>
Running   == outcome = "running"
LastFrame == FramesOf[Len(FramesOf)]

\* Where the arguments and the locals of the k-th call are.
FrameCells(k) ==
  LET a == activations[k]
  IN  (Low(k) + 1..a.base) \cup (a.base + StackEnvSize..a.base + 4 + a.nargs)

-----------------------------------------------------------------------------
(* The actions of module Activations in terms of the above. *)

LEMMA StopUnfolds ==
  Abstract!Stop <=>
    /\ ~ Running'
    /\ PendingOf' = <<>>
    /\ GlobalsOf' = GlobalsOf /\ FramesOf' = FramesOf /\ retval_reg' = retval_reg
BY DEF Abstract!Stop, GlobalsOf, FramesOf, PendingOf, Running

LEMMA LibCallUnfolds ==
  Abstract!LibCall <=>
    /\ PendingOf' = <<>>
    /\ pc' = pc + 1
    /\ GlobalsOf' = GlobalsOf /\ FramesOf' = FramesOf /\ Running' = Running
BY DEF Abstract!LibCall, GlobalsOf, FramesOf, PendingOf, Running

LEMMA PushUnfolds ==
  Abstract!Push <=>
    /\ PendingOf' # <<>> /\ Tail(PendingOf') = PendingOf
    /\ pc' = pc + 1
    /\ GlobalsOf' = GlobalsOf /\ FramesOf' = FramesOf /\ retval_reg' = retval_reg
BY DEF Abstract!Push, GlobalsOf, FramesOf, PendingOf

LEMMA CallUnfolds ==
  Abstract!Call <=>
    /\ Len(FramesOf') = Len(FramesOf) + 1
    /\ \A k \in 1..Len(FramesOf) : FramesOf'[k] = FramesOf[k]
    /\ \/ LastFrame'.args = PendingOf
       \/ LastFrame'.args # <<>> /\ Tail(LastFrame'.args) = PendingOf
    /\ LastFrame'.locals = <<>>
    /\ LastFrame'.ret = pc + 1
    /\ PendingOf' = <<>>
    /\ GlobalsOf' = GlobalsOf /\ retval_reg' = retval_reg /\ Running' = Running
BY DEF Abstract!Call, Abstract!Passed, Abstract!Last, GlobalsOf, FramesOf, PendingOf, LastFrame, Running

\* Module Activations has the operator of FiniteSets in its own instance.
LEMMA CardinalityAgrees == \A S : Abstract!Cardinality(S) = Cardinality(S)
BY DEF Abstract!Cardinality, Cardinality

LEMMA EnterUnfolds ==
  Abstract!Enter <=>
    /\ PendingOf = <<>>
    /\ FramesOf # <<>> /\ LastFrame.locals = <<>>
    /\ \E n \in {Cardinality(DOMAIN LastFrame'.locals)} :
          FramesOf' = [FramesOf EXCEPT ![Len(FramesOf)].locals = [x \in 0..n - 1 |-> Undef]]
    /\ pc' = pc + 1
    /\ GlobalsOf' = GlobalsOf /\ PendingOf' = PendingOf /\ retval_reg' = retval_reg
    /\ Running' = Running
BY CardinalityAgrees DEF Abstract!Enter, Abstract!Last, GlobalsOf, FramesOf, PendingOf, LastFrame, Running

LEMMA ReturnUnfolds ==
  Abstract!Return <=>
    /\ PendingOf = <<>>
    /\ FramesOf # <<>> /\ FramesOf' = SubSeq(FramesOf, 1, Len(FramesOf) - 1)
    /\ pc' = LastFrame.ret
    /\ GlobalsOf' = GlobalsOf /\ PendingOf' = PendingOf /\ retval_reg' = retval_reg
    /\ Running' = Running
BY DEF Abstract!Return, Abstract!Last, GlobalsOf, FramesOf, PendingOf, LastFrame, Running

\* The variables that a step changes.
DiffersAt(f, g) == {x \in DOMAIN f : f[x] # g[x]}

ChangedOf ==
  {<<"global", x>> : x \in DiffersAt(GlobalsOf, GlobalsOf')}
    \cup (IF retval_reg' = retval_reg THEN {} ELSE {<<"retval">>})
    \cup (IF FramesOf = <<>> THEN {} ELSE
            {<<"arg", x>> : x \in DiffersAt(LastFrame.args, LastFrame'.args)}
              \cup {<<"local", x>> : x \in DiffersAt(LastFrame.locals, LastFrame'.locals)})

LEMMA ChangedUnfolds == Abstract!Changed = ChangedOf
BY DEF Abstract!Changed, Abstract!Last, Abstract!Differences, ChangedOf, DiffersAt,
       GlobalsOf, FramesOf, LastFrame

LEMMA SameUnfolds ==
  Abstract!SameActivations <=>
    /\ DOMAIN GlobalsOf' = DOMAIN GlobalsOf
    /\ Len(FramesOf') = Len(FramesOf)
    /\ \A k \in 1..Len(FramesOf) - 1 : FramesOf'[k] = FramesOf[k]
    /\ FramesOf # <<>> => /\ LastFrame'.ret = LastFrame.ret
                          /\ DOMAIN LastFrame'.args = DOMAIN LastFrame.args
                          /\ DOMAIN LastFrame'.locals = DOMAIN LastFrame.locals
BY DEF Abstract!SameActivations, Abstract!Last, GlobalsOf, FramesOf, LastFrame

LEMMA ComputeUnfolds ==
  Abstract!Compute <=>
    /\ PendingOf = <<>> /\ PendingOf' = <<>>
    /\ Abstract!SameActivations
    /\ Cardinality(Abstract!Changed) <= 1
BY CardinalityAgrees DEF Abstract!Compute, PendingOf

-----------------------------------------------------------------------------
(* Where the variables are. *)

LEMMA FrameParts ==
  ASSUME NEW k
  PROVE  LET a == activations[k] IN
           /\ FrameOf(k).args = [x \in 1..a.nargs |-> stack[a.base + StackEnvSize + x - 1]]
           /\ FrameOf(k).locals = IF k = Depth /\ Entering THEN <<>>
                                  ELSE [x \in 0..LocalsOf(prog, a.func) - 1 |-> stack[a.base - x]]
           /\ FrameOf(k).ret = a.ret
BY DEF FrameOf

LEMMA FramesAreSequence ==
  ASSUME HistoryOK
  PROVE  /\ Len(FramesOf) = Depth /\ Depth \in Nat
         /\ \A k \in 1..Depth : FramesOf[k] = FrameOf(k)
         /\ FramesOf = <<>> <=> Depth = 0
         /\ FramesOf \in Seq({FrameOf(k) : k \in 1..Depth})
<1>1. PICK n \in Nat : n = Depth
  BY DepthIsNat
<1>2. FramesOf = [k \in 1..n |-> FrameOf(k)]
  BY <1>1 DEF FramesOf
<1>3. FramesOf \in Seq({FrameOf(k) : k \in 1..n})
  BY <1>2
<1>4. Len(FramesOf) = n
  BY <1>2, <1>3, LenProperties
<1>5. FramesOf = <<>> <=> n = 0
  BY <1>3, <1>4, EmptySeq
<1> QED
  BY <1>1, <1>2, <1>3, <1>4, <1>5

\* Each variable of a call is a cell of its frame, above all that may be pushed.
LEMMA FrameCellsAreHigh ==
  ASSUME IInv, NEW k \in 1..Depth
  PROVE  /\ activations[k].base \in Nat /\ activations[k].nargs \in Nat
         /\ LocalsOf(prog, activations[k].func) \in Nat
         /\ Low(k) = activations[k].base - LocalsOf(prog, activations[k].func)
         /\ activations[k].base + 4 + activations[k].nargs <= Floor
         /\ Low(Depth) <= Low(k) /\ Low(Depth) \in Int /\ Low(k) \in Int
         /\ Floor \in Nat /\ Floor < StackSize
         /\ \A x \in FrameCells(k) : x > Low(k) /\ x > Low(Depth) /\ x <= Floor /\ x \in Int
<1>1. activations[k].base \in Nat /\ activations[k].nargs \in Nat
  BY ActivationFields, WordIsBig DEF IInv, Addresses
<1>2. LocalsOf(prog, activations[k].func) \in Nat
  BY ActivationFields, LocalsAreNat DEF IInv
<1>3. k \in 0..Depth /\ k > 0
  BY DepthIsNat DEF IInv
<1>4. /\ Low(k) = activations[k].base - LocalsOf(prog, activations[k].func) /\ Low(k) \in Int
      /\ Low(Depth) \in Int
  BY <1>3, LowIsInt, DepthIsNat DEF IInv
<1>5. Low(Depth) <= Low(k)
  BY <1>3, LowestFrame DEF IInv
<1>6. activations[k].base + 4 + activations[k].nargs <= Floor
  BY NewestFrameIsLowest DEF IInv
<1>7. Floor \in Nat /\ Floor < StackSize
  BY ProgramNumbers, WordIsBig DEF IInv
<1>8. ASSUME NEW x \in FrameCells(k)
      PROVE  x > Low(k) /\ x > Low(Depth) /\ x <= Floor /\ x \in Int
  BY <1>1, <1>2, <1>4, <1>5, <1>6, <1>7 DEF FrameCells, StackEnvSize
<1> QED
  BY <1>1, <1>2, <1>4, <1>5, <1>6, <1>7, <1>8

\* A frame whose cells stay is the same frame.
LEMMA FrameStays ==
  ASSUME IInv, NEW k \in 1..Depth, UNCHANGED prog, activations'[k] = activations[k],
         \A x \in FrameCells(k) : stack'[x] = stack[x],
         (k = Depth' /\ Entering') <=> (k = Depth /\ Entering)
  PROVE  FrameOf(k)' = FrameOf(k)
<1> DEFINE a == activations[k]
           n == LocalsOf(prog, a.func)
<1>1. PICK b, m : b = activations[k] /\ m = LocalsOf(prog, b.func)
  OBVIOUS
<1>2. b.base \in Nat /\ b.nargs \in Nat /\ m \in Nat /\ Low(k) = b.base - m
  BY <1>1, FrameCellsAreHigh
<1>3. [x \in 1..b.nargs |-> stack'[b.base + StackEnvSize + x - 1]]
        = [x \in 1..b.nargs |-> stack[b.base + StackEnvSize + x - 1]]
  <2>1. \A x \in 1..b.nargs : b.base + StackEnvSize + x - 1 \in FrameCells(k)
    BY <1>1, <1>2 DEF FrameCells, StackEnvSize
  <2> QED BY <2>1
<1>4. [x \in 0..m - 1 |-> stack'[b.base - x]] = [x \in 0..m - 1 |-> stack[b.base - x]]
  <2>1. \A x \in 0..m - 1 : b.base - x \in FrameCells(k)
    BY <1>1, <1>2 DEF FrameCells
  <2> QED BY <2>1
<1> QED
  BY <1>1, <1>3, <1>4 DEF FrameOf

\* A step keeps what is above the pushed arguments.
KeptAbove == \A x \in Addresses : x > Low(Depth) => stack'[x] = stack[x]

LEMMA FrameKept ==
  ASSUME IInv, KeptAbove, Low(Depth) >= -1, NEW k \in 1..Depth
  PROVE  \A x \in FrameCells(k) : stack'[x] = stack[x]
<1> SUFFICES ASSUME NEW x \in FrameCells(k) PROVE stack'[x] = stack[x]
  OBVIOUS
<1>1. /\ x > Low(Depth) /\ x <= Floor /\ x \in Int /\ Low(Depth) \in Int
      /\ Floor < StackSize /\ Floor \in Nat
  BY FrameCellsAreHigh
<1> QED
  BY <1>1, WordIsBig DEF KeptAbove, Addresses

LEMMA GlobalsKept ==
  ASSUME IInv, KeptAbove, UNCHANGED prog
  PROVE  GlobalsOf' = GlobalsOf
<1>1. Low(Depth) <= Floor
  BY NewestFrameIsLowest DEF IInv
<1>2. Low(Depth) \in Int
  BY LowIsInt, DepthIsNat DEF IInv
<1>3. /\ Floor \in Nat /\ StackSize \in Nat /\ prog.totalGlobals \in Nat
      /\ Floor = StackSize - 1 - prog.totalGlobals
  BY ProgramNumbers, WordIsBig DEF IInv, Floor
<1>4. \A g \in 0..prog.totalGlobals - 1 : stack'[StackSize - 1 - g] = stack[StackSize - 1 - g]
  <2> TAKE g \in 0..prog.totalGlobals - 1
  <2>1. StackSize - 1 - g \in 0..StackSize - 1 /\ StackSize - 1 - g > Floor
    BY <1>3
  <2>2. StackSize - 1 - g \in Addresses /\ StackSize - 1 - g > Low(Depth)
    BY <1>1, <1>2, <1>3, <2>1 DEF Addresses
  <2> QED BY <2>2 DEF KeptAbove
<1> QED BY <1>4 DEF GlobalsOf

\* A step inside a frame that keeps all variables.
LEMMA AllKept ==
  ASSUME IInv, KeptAbove, Low(Depth) >= -1, UNCHANGED <<prog, activations>>,
         Entering' <=> Entering
  PROVE  GlobalsOf' = GlobalsOf /\ FramesOf' = FramesOf
<1>1. Depth' = Depth
  BY DEF Depth
<1>2. \A k \in 1..Depth : FrameOf(k)' = FrameOf(k)
  <2> TAKE k \in 1..Depth
  <2>1. \A x \in FrameCells(k) : stack'[x] = stack[x]
    BY FrameKept
  <2> QED BY <1>1, <2>1, FrameStays
<1>3. FramesOf' = FramesOf
  BY <1>1, <1>2 DEF FramesOf
<1> QED
  BY <1>3, GlobalsKept

\* A step that leaves the stack alone.
LEMMA StackKept ==
  ASSUME UNCHANGED <<prog, stack, activations>>, Entering' <=> Entering
  PROVE  GlobalsOf' = GlobalsOf /\ FramesOf' = FramesOf
<1>1. Depth' = Depth
  BY DEF Depth
<1>2. \A k : FrameOf(k)' = FrameOf(k)
  BY <1>1 DEF FrameOf
<1> QED
  BY <1>1, <1>2 DEF FramesOf, GlobalsOf

LEMMA NothingPending ==
  /\ totalActuals = 0 => PendingOf = <<>>
  /\ totalActuals' = 0 => PendingOf' = <<>>
  /\ outcome' # "running" => PendingOf' = <<>>
BY DEF PendingOf

-----------------------------------------------------------------------------
(* Steps that stop the machine. *)

LEMMA StandingStops ==
  ASSUME UNCHANGED <<prog, stack, registers, retval_reg, activations>>, outcome' # "running"
  PROVE  Abstract!Stop
<1>1. Entering' <=> Entering
  BY DEF Entering, Instr, registers
<1> QED
  BY <1>1, StackKept, NothingPending, StopUnfolds DEF Running

LEMMA FailingMaps ==
  ASSUME UNCHANGED activations,
         \/ ArithmeticError \/ NumCmpError \/ TableError \/ PushArgWild \/ CallWild \/ CallError
         \/ FuncEnterOverflow \/ LibArgumentWild \/ Halt
  PROVE  Abstract!Stop
BY StandingStops DEF ArithmeticError, NumCmpError, TableError, PushArgWild, CallWild, CallError,
     FuncEnterOverflow, LibArgumentWild, Halt, Fail

-----------------------------------------------------------------------------
(* Library calls. *)

\* The called table, which is pushed, is below every variable.
LEMMA CallStackIsLow ==
  ASSUME IInv, Fetch({"call"}), Functor => InStack(top), stack' = CallStack,
         UNCHANGED <<prog, activations>>, pc' \in {pc, pc + 1}
  PROVE  GlobalsOf' = GlobalsOf /\ FramesOf' = FramesOf
<1>1. outcome = "running" /\ pc \in Code(prog) /\ Instr.op = "call"
  BY Fetched
<1>2. Low(Depth) >= -1
  BY <1>1, PushesAreLow
<1>3. KeptAbove
  BY CallStackKeepsFrames, WordIsBig DEF KeptAbove, Addresses
<1>4. ~ Entering /\ ~ Entering'
  <2>1. pc + 1 \in Code(prog) => prog.code[pc + 1].op # "funcenter"
    BY AtCall
  <2> QED BY <1>1, <2>1 DEF Entering, Instr
<1> QED
  BY <1>2, <1>3, <1>4, AllKept

LEMMA OverflowMaps ==
  ASSUME IInv, CallOverflow, UNCHANGED activations
  PROVE  Abstract!Stop
<1>1. GlobalsOf' = GlobalsOf /\ FramesOf' = FramesOf
  BY CallStackIsLow, CallsAreFetched DEF CallOverflow
<1> QED
  BY <1>1, NothingPending, StopUnfolds DEF CallOverflow, Running

LEMMA LibErrorMaps ==
  ASSUME IInv, LibError, UNCHANGED activations
  PROVE  Abstract!Stop
<1>1. GlobalsOf' = GlobalsOf /\ FramesOf' = FramesOf
  BY CallStackIsLow, LibIsCalled DEF LibError, LibCalled
<1> QED
  BY <1>1, NothingPending, StopUnfolds DEF LibError, Running

LEMMA LibReturnMaps ==
  ASSUME IInv, LibCalled, LibReturn, UNCHANGED activations
  PROVE  Abstract!LibCall
<1>1. GlobalsOf' = GlobalsOf /\ FramesOf' = FramesOf
  BY CallStackIsLow DEF LibReturn, LibCalled
<1> QED
  BY <1>1, NothingPending, LibCallUnfolds DEF LibReturn, Running

LEMMA LibMaps ==
  ASSUME IInv, LibCall, UNCHANGED activations
  PROVE  Abstract!LibCall \/ Abstract!Stop
<1>1. CASE LibError
  BY <1>1, LibErrorMaps
<1>2. CASE LibArgumentWild
  BY <1>2, FailingMaps
<1>3. CASE \/ LibPrint \/ LibInput \/ LibTypeof \/ LibTotalArguments \/ LibArgument
           \/ LibStrtonum \/ LibSqrt \/ LibTrigonometry \/ LibObjectTotalMembers
           \/ LibObjectMemberKeys \/ LibObjectCopy
  <2>1. LibCalled /\ LibReturn
    BY <1>3, LibIsCalled DEF LibPrint, LibInput, LibTypeof, LibTotalArguments, LibArgument,
         LibStrtonum, LibSqrt, LibTrigonometry, LibObjectTotalMembers, LibObjectMemberKeys, LibObjectCopy
  <2> QED BY <2>1, LibReturnMaps
<1> QED
  BY <1>1, <1>2, <1>3 DEF LibCall

-----------------------------------------------------------------------------
(* Arguments. *)

\* The sequence p is the n arguments above the cell h of the stack f.
ArgumentsAt(p, f, h, n) == p = [x \in 1..n |-> f[h + x]]

\* Pushing in front of a sequence of arguments.
LEMMA PushedInFront ==
  ASSUME NEW n \in Nat, NEW h \in Int, NEW f, NEW g, \A x \in h + 1..h + n : g[x] = f[x],
         NEW p, ArgumentsAt(p, g, h - 1, n + 1)
  PROVE  p # <<>> /\ ArgumentsAt(Tail(p), f, h, n)
<1> USE DEF ArgumentsAt
<1>1. p \in Seq({p[x] : x \in DOMAIN p}) /\ Len(p) = n + 1
  <2>1. p = [x \in 1..n + 1 |-> p[x]] /\ n + 1 \in Nat
    OBVIOUS
  <2> QED BY ONLY <2>1, RangeSequence
<1>2. p # <<>>
  BY <1>1, EmptySeq
<1>3. Tail(p) = [x \in 1..n |-> p[x + 1]]
  <2>1. PICK S, t : t = Tail(p) /\ S = {p[x] : x \in DOMAIN p}
    OBVIOUS
  <2>2. t \in Seq(S) /\ Len(t) = n /\ \A x \in 1..n : t[x] = p[x + 1]
    <3>1. p \in Seq(S) /\ p # <<>> /\ Len(p) - 1 = n
      BY <1>1, <1>2, <2>1
    <3> QED BY ONLY <2>1, <3>1, HeadTailProperties
  <2>3. t = [x \in 1..n |-> t[x]]
    BY ONLY <2>2, LenProperties, n \in Nat
  <2> QED BY <2>1, <2>2, <2>3
<1>4. \A x \in 1..n : p[x + 1] = f[h + x]
  <2> TAKE x \in 1..n
  <2>1. x + 1 \in 1..n + 1 /\ h - 1 + (x + 1) = h + x /\ h + x \in h + 1..h + n
    OBVIOUS
  <2>2. p[x + 1] = g[h - 1 + (x + 1)]
    BY <2>1
  <2> QED BY <2>1, <2>2
<1> QED
  BY ONLY <1>2, <1>3, <1>4

LEMMA PushArgMaps ==
  ASSUME IInv, PushArg, UNCHANGED activations
  PROVE  Abstract!Push \/ Abstract!Stop
<1>1. outcome = "running" /\ pc \in Code(prog) /\ Instr.op = "pusharg"
  BY Fetched DEF PushArg
<1>2. /\ Height \in Int /\ Height >= -1 /\ totalActuals \in Nat
      /\ Low(Depth) \in Int
      /\ Height + totalActuals <= Low(Depth) /\ Low(Depth) <= Floor
  BY <1>1, PushesAreLow
<1>3. top \in 0..StackSize - 1 /\ Height = top
  BY WordIsBig DEF PushArg, InStack, Addresses, Height
<1>4. Height' = top - 1
  <2>1. CASE top = 0
    BY <2>1, ModMinusOne, WordIsBig DEF PushArg, Height
  <2>2. CASE top > 0
    <3>1. top - 1 \in 0..Word - 1
      BY <1>3, <2>2, WordIsBig
    <3>2. top' = top - 1
      BY <3>1, ModSmall DEF PushArg
    <3> QED
      BY <1>3, <2>2, <3>2, WordIsBig DEF Height
  <2> QED
    BY <1>3, <2>1, <2>2
<1>5. /\ stack' = [stack EXCEPT ![top] = Value(Instr.result)] /\ totalActuals' = totalActuals + 1
      /\ pc' = pc + 1 /\ UNCHANGED <<prog, retval_reg, activations>>
  BY DEF PushArg
<1>6. \A x \in Addresses : x > top => stack'[x] = stack[x]
  <2>1. stack = [b \in Addresses |-> stack[b]]
    BY DEF IInv, TypeOK
  <2> QED BY <1>3, <1>5, <2>1
<1>7. KeptAbove
  <2>1. Low(Depth) >= top
    BY <1>2, <1>3
  <2> QED BY <1>2, <1>3, <1>6, <2>1, WordIsBig DEF KeptAbove, Addresses
<1>8. ~ Entering /\ ~ Entering'
  <2>1. pc + 1 \in Code(prog) /\ prog.code[pc + 1].op \in {"pusharg", "call"}
    BY <1>1, ProgramIsWellFormed DEF IInv, WellFormed, PushesOK, Instr
  <2> QED BY <1>1, <1>5, <2>1 DEF Entering, Instr
<1>9. GlobalsOf' = GlobalsOf /\ FramesOf' = FramesOf
  <2>1. Low(Depth) >= -1
    BY <1>2
  <2> QED BY <1>5, <1>7, <1>8, <2>1, AllKept
<1>10. CASE outcome' # "running"
  BY <1>5, <1>9, <1>10, NothingPending, StopUnfolds DEF Running
<1>11. CASE outcome' = "running"
  <2>1. PICK n \in Nat, h \in Int : n = totalActuals /\ h = top
    BY <1>2, <1>3
  <2>2. \A x \in h + 1..h + n : stack'[x] = stack[x]
    <3> TAKE x \in h + 1..h + n
    <3>1. x <= Floor /\ x > top /\ x \in Int /\ top >= 0
      BY <1>2, <1>3, <2>1, ProgramNumbers DEF IInv
    <3>2. x \in Addresses
      <4>1. Floor \in Int /\ Floor < StackSize - 1 /\ StackSize \in Nat
        BY ProgramNumbers, WordIsBig DEF IInv
      <4> QED BY <1>3, <3>1, <4>1 DEF Addresses
    <3> QED BY <1>6, <3>1, <3>2
  <2>3. PendingOf = [x \in 1..n |-> stack[h + x]]
    BY <1>1, <1>3, <2>1 DEF PendingOf
  <2>4. PendingOf' = [x \in 1..n + 1 |-> stack'[h - 1 + x]]
    BY <1>4, <1>5, <1>11, <2>1 DEF PendingOf
  <2>5. PendingOf' # <<>> /\ Tail(PendingOf') = PendingOf
    <3>1. PICK f, g, p : f = stack /\ g = stack' /\ p = PendingOf'
      OBVIOUS
    <3>2. (\A x \in h + 1..h + n : g[x] = f[x]) /\ ArgumentsAt(p, g, h - 1, n + 1)
      BY <2>2, <2>4, <3>1 DEF ArgumentsAt
    <3>3. p # <<>> /\ ArgumentsAt(Tail(p), f, h, n)
      BY <3>2, PushedInFront
    <3> QED BY <2>3, <3>1, <3>3 DEF ArgumentsAt
  <2> QED BY <1>5, <1>9, <2>5, PushUnfolds
<1> QED
  BY <1>10, <1>11

-----------------------------------------------------------------------------
(* Calls and returns. *)

LEMMA ReturnMaps ==
  ASSUME IInv, HReturn
  PROVE  Abstract!Return
<1>1. PICK n \in Nat : n = Depth
  BY DepthIsNat DEF IInv
<1>2. /\ n > 0 /\ n \in 1..Depth /\ totalActuals = 0 /\ pc' = activations[n].ret
      /\ UNCHANGED <<prog, stack, totalActuals, retval_reg, outcome>>
  BY <1>1, FuncExitRestores DEF HReturn, FuncExit
<1>3. Depth' = n - 1 /\ \A k \in 1..n - 1 : activations'[k] = activations[k]
  <2> DEFINE R == [func : Funcs(prog), base : Addresses, nargs : Nat, ret : 0..prog.codeSize,
                   callerTopSp : Addresses, callerTop : Addresses]
  <2>1. activations \in Seq(R) /\ Len(activations) = n
    BY <1>1 DEF IInv, HistoryOK, Depth
  <2>2. activations' = SubSeq(activations, 1, n - 1)
    BY <1>1 DEF HReturn, Depth
  <2> HIDE DEF R
  <2> QED BY <1>2, <2>1, <2>2, SubSeqProperties DEF Depth
<1>4. ~ Entering /\ ~ Entering'
  <2>1. outcome = "running" /\ pc \in Code(prog) /\ Instr.op = "funcexit"
    BY Fetched DEF HReturn, FuncExit
  <2>2. activations[n].ret \in Code(prog) => prog.code[activations[n].ret].op # "funcenter"
    BY <1>2 DEF IInv, HistoryOK
  <2> QED BY <1>2, <2>1, <2>2 DEF Entering, Instr
<1>5. \A k \in 1..n - 1 : FrameOf(k)' = FrameOf(k)
  <2> TAKE k \in 1..n - 1
  <2>1. k \in 1..Depth /\ activations'[k] = activations[k]
    BY <1>1, <1>3
  <2> QED BY <1>2, <1>4, <2>1, FrameStays
<1>6. /\ Len(FramesOf) = n /\ \A k \in 1..n : FramesOf[k] = FrameOf(k)
      /\ FramesOf # <<>> /\ FramesOf \in Seq({FrameOf(k) : k \in 1..n})
  BY <1>1, <1>2, FramesAreSequence DEF IInv
<1>7. FramesOf' = [k \in 1..n - 1 |-> FrameOf(k)]
  BY <1>3, <1>5 DEF FramesOf
<1>8. SubSeq(FramesOf, 1, n - 1) = [k \in 1..n - 1 |-> FrameOf(k)]
  <2>1. SubSeq(FramesOf, 1, n - 1) = [k \in 1..n - 1 |-> FramesOf[k]]
    <3>1. PICK s : s = FramesOf
      OBVIOUS
    <3>2. SubSeq(s, 1, n - 1) = [k \in 1..(n - 1 - 1 + 1) |-> s[1 + k - 1]]
      BY <1>2 DEF SubSeq
    <3>3. n - 1 - 1 + 1 = n - 1 /\ \A k \in 1..n - 1 : 1 + k - 1 = k
      OBVIOUS
    <3> QED BY <3>1, <3>2, <3>3
  <2>2. \A k \in 1..n - 1 : FramesOf[k] = FrameOf(k)
    BY <1>6
  <2> QED BY <2>1, <2>2
<1>9. LastFrame.ret = activations[n].ret
  BY <1>2, <1>6 DEF LastFrame, FrameOf
<1>10. GlobalsOf' = GlobalsOf /\ PendingOf = <<>> /\ PendingOf' = <<>> /\ Running' = Running
  BY <1>2, NothingPending DEF GlobalsOf, Running
<1> QED
  BY <1>2, <1>6, <1>7, <1>8, <1>9, <1>10, ReturnUnfolds

LEMMA CallMaps ==
  ASSUME IInv, HCall
  PROVE  Abstract!Call
<1> DEFINE act == Activation
<1>1. /\ Fetch({"call"}) /\ (Functor => InStack(top)) /\ Callee.type = "userfunc"
      /\ outcome = "running" /\ pc \in Code(prog) /\ Instr.op = "call"
  BY CallsAreFetched, Fetched DEF HCall, CallUserFunc
<1>2. PICK t, m : t = CallTop /\ m = Actuals
  OBVIOUS
<1>3. /\ t \in 4..StackSize - 1 /\ t + m <= Low(Depth) /\ m \in Nat
      /\ CallStack \in [Addresses -> MyCells]
      /\ Low(Depth) \in Int /\ Low(Depth) <= Floor
  <2>1. CallTop \in 4..StackSize - 1 /\ HeightOf(CallTop) = CallTop
    BY WordIsBig DEF HCall, CallUserFunc, EnvironmentFits, InStack, Addresses, HeightOf
  <2> QED
    BY <1>1, <1>2, <2>1, AtCall
<1>4. Callee.funcVal \in Funcs(prog)
  BY <1>1, CalleeIsCell, CellFields, TablesAreTables DEF IInv, MyCells
<1>5. /\ pc' = prog.userFuncs[Callee.funcVal].address
      /\ totalActuals' = 0
      /\ UNCHANGED <<prog, retval_reg, outcome>>
      /\ stack' = [CallStack EXCEPT ![t]     = Number(pc + 1),
                                    ![t - 1] = Number(SavedTop),
                                    ![t - 2] = Number(topsp),
                                    ![t - 3] = Number(m)]
      /\ activations' = Append(activations, act)
  BY <1>2 DEF HCall, CallUserFunc
<1>6. act.base = t - 4 /\ act.nargs = m /\ act.ret = pc + 1
  BY <1>2 DEF Activation
<1> HIDE DEF act
<1>7. PICK n \in Nat : n = Depth
  BY DepthIsNat DEF IInv
<1>8. /\ Depth' = n + 1 /\ activations'[n + 1] = act
      /\ \A k \in 1..n : activations'[k] = activations[k]
  <2> DEFINE R == [func : Funcs(prog), base : Addresses, nargs : Nat, ret : 0..prog.codeSize,
                   callerTopSp : Addresses, callerTop : Addresses]
  <2>1. activations \in Seq(R)
    BY DEF IInv, HistoryOK
  <2>2. activations \in Seq(R \cup {act}) /\ act \in R \cup {act}
    <3> HIDE DEF R
    <3> QED BY <2>1, SeqDef
  <2> HIDE DEF R
  <2> QED
    BY <1>5, <1>7, <2>2, AppendProperties DEF Depth
<1>9. \A x \in Addresses : x > t => stack'[x] = CallStack[x]
  <2>1. \A x \in Addresses : x > t => x # t /\ x # t - 1 /\ x # t - 2 /\ x # t - 3
    BY <1>3, WordIsBig DEF Addresses
  <2>2. CallStack = [x \in Addresses |-> CallStack[x]]
    BY <1>3
  <2> QED BY <1>5, <2>1, <2>2
<1>10. KeptAbove
  <2> SUFFICES ASSUME NEW x \in Addresses, x > Low(Depth) PROVE stack'[x] = stack[x]
    BY DEF KeptAbove
  <2>1. x \in Int /\ x > t
    BY <1>3, WordIsBig DEF Addresses
  <2> QED BY <1>1, <1>9, <2>1, CallStackKeepsFrames
<1>11. GlobalsOf' = GlobalsOf
  BY <1>5, <1>10, GlobalsKept
<1>12. \A k \in 1..n : FrameOf(k)' = FrameOf(k)
  <2> TAKE k \in 1..n
  <2>1. Low(Depth) >= -1
    BY <1>3
  <2>2. k # Depth' /\ ~ Entering
    BY <1>1, <1>8 DEF Entering
  <2>3. \A x \in FrameCells(k) : stack'[x] = stack[x]
    BY <1>7, <1>10, <2>1, FrameKept
  <2> QED BY <1>5, <1>7, <1>8, <2>2, <2>3, FrameStays
<1>13. Len(FramesOf) = n /\ \A k \in 1..n : FramesOf[k] = FrameOf(k)
  BY <1>7, FramesAreSequence DEF IInv
<1>14. /\ Len(FramesOf') = n + 1 /\ \A k \in 1..n + 1 : FramesOf'[k] = FrameOf(k)'
       /\ LastFrame' = FrameOf(n + 1)'
  <2>1. FramesOf' = [k \in 1..n + 1 |-> FrameOf(k)']
    BY <1>8 DEF FramesOf
  <2>2. Len(FramesOf') = n + 1
    <3>1. PICK s : s = FramesOf'
      OBVIOUS
    <3>2. s = [k \in 1..n + 1 |-> s[k]]
      BY <2>1, <3>1
    <3> QED BY <3>1, <3>2, RangeSequence
  <2>3. \A k \in 1..n + 1 : FramesOf'[k] = FrameOf(k)'
    BY <2>1
  <2>4. LastFrame' = FramesOf'[n + 1]
    BY <2>2 DEF LastFrame
  <2> QED BY <2>2, <2>3, <2>4
<1>15. /\ LastFrame'.locals = <<>> /\ LastFrame'.ret = pc + 1
       /\ LastFrame'.args = [x \in 1..m |-> stack'[t + x]]
  <2>1. Entering'
    BY <1>4, <1>5, EntryOfFunction DEF IInv, Entering, Instr
  <2>2. FrameOf(n + 1)' = [args |-> [x \in 1..m |-> stack'[t - 4 + StackEnvSize + x - 1]],
                           locals |-> <<>>, ret |-> pc + 1]
    <3>1. PICK s : s = stack'
      OBVIOUS
    <3> QED BY <1>6, <1>8, <2>1, <3>1 DEF FrameOf
  <2>3. \A x \in 1..m : t - 4 + StackEnvSize + x - 1 = t + x
    BY <1>3 DEF StackEnvSize
  <2>4. [x \in 1..m |-> stack'[t - 4 + StackEnvSize + x - 1]] = [x \in 1..m |-> stack'[t + x]]
    BY <2>3
  <2>5. /\ LastFrame'.args = [x \in 1..m |-> stack'[t - 4 + StackEnvSize + x - 1]]
        /\ LastFrame'.locals = <<>> /\ LastFrame'.ret = pc + 1
    <3>1. PICK fr, ar : fr = LastFrame' /\ ar = [x \in 1..m |-> stack'[t - 4 + StackEnvSize + x - 1]]
      OBVIOUS
    <3>2. fr = [args |-> ar, locals |-> <<>>, ret |-> pc + 1]
      BY <1>14, <2>2, <3>1
    <3>3. fr.args = ar /\ fr.locals = <<>> /\ fr.ret = pc + 1
      BY <3>2
    <3> QED BY <3>1, <3>3
  <2> QED BY <2>4, <2>5
<1>16. \/ LastFrame'.args = PendingOf
       \/ LastFrame'.args # <<>> /\ Tail(LastFrame'.args) = PendingOf
  <2>1. PendingOf = [x \in 1..totalActuals |-> stack[Height + x]]
    BY <1>1 DEF PendingOf
  <2>2. ASSUME NEW x \in Int, x > t + m - totalActuals, x <= t + m, totalActuals <= m, totalActuals \in Nat
        PROVE  stack'[x] = CallStack[x]
    <3>1. x \in Addresses /\ x > t
      <4>1. Floor \in Int /\ Floor < StackSize - 1 /\ StackSize \in Nat
        BY ProgramNumbers, WordIsBig DEF IInv
      <4> QED BY <1>3, <2>2, <4>1 DEF Addresses
    <3> QED BY <1>9, <3>1
  <2>3. totalActuals \in Nat
    BY DEF IInv, TypeOK
  <2>4. CASE ~ Functor
    <3>1. m = totalActuals /\ t = top /\ CallStack = stack
      BY <1>2, <2>4 DEF CallTop, Actuals, CallStack
    <3>2. Height = t
      BY <1>3, <3>1, WordIsBig DEF Height
    <3>3. \A x \in 1..m : stack'[t + x] = stack[t + x]
      <4> TAKE x \in 1..m
      <4>1. t + x \in Int /\ t + x > t + m - totalActuals /\ t + x <= t + m /\ totalActuals <= m
        BY <1>3, <3>1
      <4> QED BY <2>2, <2>3, <3>1, <4>1
    <3> QED BY <1>15, <2>1, <3>1, <3>2, <3>3
  <2>5. CASE Functor
    <3>1. m = totalActuals + 1 /\ t = (top - 1) % Word /\ CallStack = [stack EXCEPT ![top] = Value(Instr.result)]
      BY <1>2, <2>5 DEF CallTop, Actuals, CallStack
    <3>2. top \in 0..StackSize - 1
      BY <1>1, <2>5 DEF InStack, Addresses
    <3>3. t = top - 1
      <4>1. CASE top = 0
        BY <1>3, <3>1, <4>1, ModMinusOne, WordIsBig
      <4>2. CASE top > 0
        <5>1. top - 1 \in 0..Word - 1
          BY <3>2, <4>2, WordIsBig
        <5> QED BY <3>1, <5>1, ModSmall
      <4> QED BY <3>2, <4>1, <4>2
    <3>4. Height = top
      BY <3>2, WordIsBig DEF Height
    <3>5. PICK k, h, f, g, p :
            k \in Nat /\ h \in Int /\ k = totalActuals /\ h = top /\ f = stack /\ g = stack' /\ p = LastFrame'.args
      BY <2>3, <3>2
    <3>6. \A x \in h + 1..h + k : g[x] = f[x]
      <4> TAKE x \in h + 1..h + k
      <4>1. x \in Int /\ x > t + m - totalActuals /\ x <= t + m /\ totalActuals <= m
        BY <1>3, <3>1, <3>2, <3>3, <3>5
      <4>2. stack'[x] = CallStack[x]
        BY <2>2, <2>3, <4>1
      <4>3. stack = [b \in Addresses |-> stack[b]] /\ x # top
        BY <3>2, <3>5 DEF IInv, TypeOK
      <4>4. CallStack[x] = stack[x]
        BY <3>1, <4>3
      <4> QED BY <3>5, <4>2, <4>4
    <3>7. ArgumentsAt(p, g, h - 1, k + 1)
      BY <1>15, <3>1, <3>3, <3>5 DEF ArgumentsAt
    <3>8. p # <<>> /\ ArgumentsAt(Tail(p), f, h, k)
      <4>1. k \in Nat /\ h \in Int
        BY <3>5
      <4> QED BY ONLY <4>1, <3>6, <3>7, PushedInFront
    <3> QED BY <2>1, <3>4, <3>5, <3>8 DEF ArgumentsAt
  <2> QED BY <2>4, <2>5
<1>17. PendingOf' = <<>> /\ Running' = Running
  BY <1>5, NothingPending DEF Running
<1>18. /\ Len(FramesOf') = Len(FramesOf) + 1
       /\ \A k \in 1..Len(FramesOf) : FramesOf'[k] = FramesOf[k]
  BY <1>12, <1>13, <1>14
<1> QED
  BY <1>5, <1>11, <1>15, <1>16, <1>17, <1>18, CallUnfolds

LEMMA EnterMaps ==
  ASSUME IInv, FuncEnter, UNCHANGED activations
  PROVE  Abstract!Enter
<1>1. outcome = "running" /\ pc \in Code(prog) /\ Instr.op = "funcenter"
  BY Fetched DEF FuncEnter
<1>2. PICK f \in Funcs(prog) :
        Instr.result = UserFunc(f) /\ Owner(prog, pc) = f /\ f # Main
  <2>1. PICK f \in Funcs(prog) : prog.userFuncs[f].address = pc
    BY <1>1, ProgramIsWellFormed DEF IInv, WellFormed, EntriesOK, Instr
  <2> QED
    BY <2>1, EntryOfFunction, LocalsAreNat DEF IInv, Instr
<1>3. PICK m \in Nat : m = LocalsOf(prog, f) /\ m = prog.userFuncs[Instr.result.funcVal].localSize
  BY <1>2, LocalsAreNat DEF IInv, UserFunc
<1>4. top = topsp /\ totalActuals = 0 /\ Owner(prog, pc) = CurrentFunc /\ Entering
  BY <1>1 DEF IInv, FrameCurrent, Entering
<1>5. PICK n \in Nat : n = Depth
  BY DepthIsNat DEF IInv
<1>6. n > 0 /\ activations # <<>> /\ activations[n].func = f /\ activations[n].base = topsp
  <2>1. activations # <<>>
    BY <1>2, <1>4 DEF CurrentFunc
  <2>2. n > 0
    BY <1>5, <2>1, DepthIsNat DEF IInv
  <2> QED
    BY <1>1, <1>2, <1>4, <1>5, <2>1, <2>2 DEF CurrentFunc, IInv, FrameCurrent
<1>7. PICK b \in 0..StackSize - 1 : b = topsp
  BY DEF IInv, TypeOK, Addresses
<1>8. /\ m <= b /\ pc' = pc + 1
      /\ stack' = [a \in Addresses |-> IF b - m < a /\ a <= b THEN Undef ELSE stack[a]]
      /\ UNCHANGED <<prog, totalActuals, retval_reg, outcome>>
  BY <1>3, <1>4, <1>7, WordIsBig DEF FuncEnter
<1>9. ~ Entering'
  <2>1. pc + 1 \in Succ(prog, pc)
    BY <1>1, NextIsSuccessor DEF IInv
  <2>2. pc + 1 \in Code(prog) => prog.code[pc + 1].op # "funcenter"
    BY <1>1, <2>1, SuccessorStaysInFunction DEF IInv
  <2> QED BY <1>8, <2>2 DEF Entering, Instr
<1>10. Depth' = n
  BY <1>5 DEF Depth
<1>11. /\ Low(n) = b - m /\ activations[n].nargs \in Nat
       /\ b + 4 + activations[n].nargs <= Floor /\ Floor < StackSize - 1 /\ Floor \in Nat
  <2>1. n \in 1..Depth
    BY <1>5, <1>6
  <2>2. /\ activations[n].nargs \in Nat
        /\ Low(n) = activations[n].base - LocalsOf(prog, activations[n].func)
        /\ activations[n].base + 4 + activations[n].nargs <= Floor /\ Floor \in Nat
    BY <2>1, FrameCellsAreHigh
  <2>3. Floor < StackSize - 1
    BY ProgramNumbers DEF IInv
  <2> QED BY <1>3, <1>6, <1>7, <2>2, <2>3
<1>12. \A x \in Addresses : x > b => stack'[x] = stack[x]
  BY <1>7, <1>8, WordIsBig DEF Addresses
<1>13. \A k \in 1..n - 1 : FrameOf(k)' = FrameOf(k)
  <2> TAKE k \in 1..n - 1
  <2>1. k \in 1..Depth /\ k < Depth /\ k # n
    BY <1>5
  <2>2. \A x \in FrameCells(k) : stack'[x] = stack[x]
    <3> TAKE x \in FrameCells(k)
    <3>1. x > Low(k) /\ x <= Floor /\ x \in Int /\ Low(k) \in Int
      BY <2>1, FrameCellsAreHigh
    <3>2. b + 4 + activations[n].nargs <= Low(k)
      <4>1. n \in 1..Depth /\ k \in 0..n - 1
        BY <1>5, <1>6
      <4> QED BY <1>6, <1>7, <4>1 DEF IInv, FramesDisjoint
    <3>3. x > b /\ x \in 0..StackSize - 1
      BY <1>7, <1>11, <3>1, <3>2, WordIsBig
    <3> QED BY <1>12, <3>3 DEF Addresses
  <2> QED BY <1>5, <1>8, <1>10, <2>1, <2>2, FrameStays
<1>14. PICK args, ret : FrameOf(n) = [args |-> args, locals |-> <<>>, ret |-> ret]
  BY <1>4, <1>5 DEF FrameOf
<1>15. FrameOf(n)' = [args |-> args, locals |-> [x \in 0..m - 1 |-> Undef], ret |-> ret]
  <2>1. PICK s, a : s = stack' /\ a = activations[n]
    OBVIOUS
  <2>2. a.base = b /\ a.func = f /\ a.nargs \in Nat /\ LocalsOf(prog, a.func) = m
    BY <1>3, <1>6, <1>7, <1>11, <2>1
  <2>3. FrameOf(n)' = [args |-> [x \in 1..a.nargs |-> s[b + StackEnvSize + x - 1]],
                       locals |-> [x \in 0..m - 1 |-> s[b - x]],
                       ret |-> a.ret]
    BY <1>8, <1>9, <2>1, <2>2 DEF FrameOf
  <2>4. args = [x \in 1..a.nargs |-> stack[b + StackEnvSize + x - 1]] /\ ret = a.ret
    BY <1>14, <2>1, <2>2 DEF FrameOf
  <2>5. \A x \in 1..a.nargs : s[b + StackEnvSize + x - 1] = stack[b + StackEnvSize + x - 1]
    <3> TAKE x \in 1..a.nargs
    <3>1. b + StackEnvSize + x - 1 \in 0..StackSize - 1 /\ b + StackEnvSize + x - 1 > b
      BY <1>7, <1>11, <2>1, <2>2, WordIsBig DEF StackEnvSize
    <3> QED BY <1>12, <2>1, <3>1 DEF Addresses
  <2>6. \A x \in 0..m - 1 : s[b - x] = Undef
    <3> TAKE x \in 0..m - 1
    <3>1. b - x \in 0..StackSize - 1 /\ b - m < b - x /\ b - x <= b
      BY <1>7, <1>8, WordIsBig
    <3> QED BY <1>8, <2>1, <3>1 DEF Addresses
  <2>7. /\ [x \in 1..a.nargs |-> s[b + StackEnvSize + x - 1]] = args
        /\ [x \in 0..m - 1 |-> s[b - x]] = [x \in 0..m - 1 |-> Undef]
    BY <2>4, <2>5, <2>6
  <2> QED BY <2>3, <2>4, <2>7
<1>16. /\ FramesOf = [k \in 1..n |-> FrameOf(k)] /\ Len(FramesOf) = n /\ FramesOf # <<>>
       /\ LastFrame = FrameOf(n)
  <2>1. FramesOf = [k \in 1..n |-> FrameOf(k)]
    BY <1>5 DEF FramesOf
  <2>2. Len(FramesOf) = n /\ FramesOf # <<>>
    BY <1>5, <1>6, FramesAreSequence DEF IInv
  <2> QED BY <1>6, <2>1, <2>2 DEF LastFrame
<1>17. FramesOf' = [k \in 1..n |-> FrameOf(k)'] /\ LastFrame' = FrameOf(n)'
  <2>1. FramesOf' = [k \in 1..n |-> FrameOf(k)']
    BY <1>10 DEF FramesOf
  <2>2. Len(FramesOf') = n
    <3>1. PICK s : s = FramesOf'
      OBVIOUS
    <3>2. s = [k \in 1..n |-> s[k]]
      BY <2>1, <3>1
    <3> QED BY <3>1, <3>2, RangeSequence
  <2> QED BY <1>6, <2>1, <2>2 DEF LastFrame
<1>18. Cardinality(DOMAIN LastFrame'.locals) = m
  <2>1. DOMAIN LastFrame'.locals = 0..m - 1
    BY <1>15, <1>17
  <2>2. 0 \in Int /\ m - 1 \in Int
    OBVIOUS
  <2>3. Cardinality(0..m - 1) = m
    BY <2>2, FS_Interval
  <2> QED BY <2>1, <2>3
<1>19. FramesOf' = [FramesOf EXCEPT ![n].locals = [x \in 0..m - 1 |-> Undef]]
  <2>1. PICK l, fr : l = [x \in 0..m - 1 |-> Undef] /\ fr = FrameOf(n)
    OBVIOUS
  <2>2. [fr EXCEPT !.locals = l] = [args |-> args, locals |-> l, ret |-> ret]
    <3>1. fr = [args |-> args, locals |-> <<>>, ret |-> ret]
      BY <1>14, <2>1
    <3> QED BY ONLY <3>1
  <2>3. FrameOf(n)' = [fr EXCEPT !.locals = l]
    BY <1>15, <2>1, <2>2
  <2>4. FramesOf' = [k \in 1..n |-> IF k = n THEN [fr EXCEPT !.locals = l] ELSE FrameOf(k)]
    <3>1. \A k \in 1..n : FrameOf(k)' = IF k = n THEN [fr EXCEPT !.locals = l] ELSE FrameOf(k)
      BY <1>13, <2>3
    <3> QED BY <1>17, <3>1
  <2>5. [FramesOf EXCEPT ![n].locals = l]
          = [k \in 1..n |-> IF k = n THEN [fr EXCEPT !.locals = l] ELSE FrameOf(k)]
    BY <1>6, <1>16, <2>1
  <2> QED BY <2>1, <2>4, <2>5
<1>20. GlobalsOf' = GlobalsOf
  <2>1. StackSize \in Nat /\ prog.totalGlobals \in Nat /\ Floor = StackSize - 1 - prog.totalGlobals
    BY ProgramNumbers, WordIsBig DEF IInv, Floor
  <2>2. \A g \in 0..prog.totalGlobals - 1 : stack'[StackSize - 1 - g] = stack[StackSize - 1 - g]
    <3> TAKE g \in 0..prog.totalGlobals - 1
    <3>1. StackSize - 1 - g \in 0..StackSize - 1 /\ StackSize - 1 - g > b
      BY <1>7, <1>11, <2>1
    <3> QED BY <1>12, <3>1 DEF Addresses
  <2> QED BY <1>8, <2>2 DEF GlobalsOf
<1>21. PendingOf = <<>> /\ PendingOf' = <<>> /\ Running' = Running /\ LastFrame.locals = <<>>
  BY <1>4, <1>8, <1>14, <1>16, NothingPending DEF Running
<1> QED
  BY <1>8, <1>16, <1>18, <1>19, <1>20, <1>21, EnterUnfolds

-----------------------------------------------------------------------------
(* Steps inside a frame. *)

\* The variable that lives in a cell.
VariableAt(a) ==
  IF a > Floor THEN <<"global", StackSize - 1 - a>>
  ELSE IF a > activations[Depth].base THEN <<"arg", a - activations[Depth].base - 4>>
  ELSE <<"local", activations[Depth].base - a>>

\* Stacks that differ at most in one cell, which no older call has.
OneCellChanged(a) ==
  /\ a \in Int
  /\ \A k \in 1..Depth - 1 : a \notin FrameCells(k)
  /\ \A x \in Addresses : x # a => stack'[x] = stack[x]

LEMMA OneGlobalChanges ==
  ASSUME IInv, UNCHANGED prog, NEW a, OneCellChanged(a)
  PROVE  /\ DOMAIN GlobalsOf' = DOMAIN GlobalsOf
         /\ \A x \in DiffersAt(GlobalsOf, GlobalsOf') : <<"global", x>> = VariableAt(a)
<1>1. /\ StackSize \in Nat /\ prog.totalGlobals \in Nat /\ Floor = StackSize - 1 - prog.totalGlobals
      /\ 0 <= Floor /\ a \in Int /\ \A x \in Addresses : x # a => stack'[x] = stack[x]
  BY ProgramNumbers, WordIsBig DEF IInv, Floor, OneCellChanged
<1>2. PICK s, t : s = stack /\ t = stack'
  OBVIOUS
<1>3. /\ GlobalsOf = [g \in 0..prog.totalGlobals - 1 |-> s[StackSize - 1 - g]]
      /\ GlobalsOf' = [g \in 0..prog.totalGlobals - 1 |-> t[StackSize - 1 - g]]
  BY <1>2 DEF GlobalsOf
<1>4. ASSUME NEW x \in 0..prog.totalGlobals - 1, s[StackSize - 1 - x] # t[StackSize - 1 - x]
      PROVE  <<"global", x>> = VariableAt(a)
  <2>1. StackSize - 1 - x \in 0..StackSize - 1
    BY <1>1
  <2>2. a = StackSize - 1 - x
    BY <1>1, <1>2, <1>4, <2>1 DEF Addresses
  <2>3. a > Floor /\ StackSize - 1 - a = x
    BY <1>1, <2>2
  <2> QED BY <2>3 DEF VariableAt
<1>5. DOMAIN GlobalsOf' = DOMAIN GlobalsOf
  BY <1>3
<1>6. ASSUME NEW x \in DiffersAt(GlobalsOf, GlobalsOf') PROVE <<"global", x>> = VariableAt(a)
  <2>1. PICK G, H : G = GlobalsOf /\ H = GlobalsOf' /\ x \in DOMAIN G /\ G[x] # H[x]
    BY <1>6 DEF DiffersAt
  <2> QED BY <1>3, <1>4, <2>1
<1> QED
  BY <1>5, <1>6

LEMMA OneOfLastFrameChanges ==
  ASSUME IInv, UNCHANGED <<prog, activations>>, NEW a, OneCellChanged(a), Depth > 0,
         ~ Entering, ~ Entering', Low(Depth) >= -1
  PROVE  /\ FrameOf(Depth)'.ret = FrameOf(Depth).ret
         /\ DOMAIN FrameOf(Depth)'.args = DOMAIN FrameOf(Depth).args
         /\ DOMAIN FrameOf(Depth)'.locals = DOMAIN FrameOf(Depth).locals
         /\ \A x \in DiffersAt(FrameOf(Depth).args, FrameOf(Depth)'.args) : <<"arg", x>> = VariableAt(a)
         /\ \A x \in DiffersAt(FrameOf(Depth).locals, FrameOf(Depth)'.locals) : <<"local", x>> = VariableAt(a)
<1>1. PICK d \in Nat : d = Depth /\ d \in 1..Depth
  BY DepthIsNat DEF IInv
<1>2. PICK c, m, s, t : c = activations[d] /\ m = LocalsOf(prog, c.func) /\ s = stack /\ t = stack'
  OBVIOUS
<1>3. /\ c.base \in Nat /\ c.nargs \in Nat /\ m \in Nat /\ Low(d) = c.base - m /\ Low(d) >= -1
      /\ c.base + 4 + c.nargs <= Floor /\ Floor \in Nat /\ Floor < StackSize /\ StackSize \in Nat
  BY <1>1, <1>2, FrameCellsAreHigh, WordIsBig
<1>4. a \in Int /\ \A x \in Addresses : x # a => t[x] = s[x]
  BY <1>2 DEF OneCellChanged
<1>5. PICK F, G, fa, ga, fl, gl :
        /\ F = FrameOf(Depth) /\ G = FrameOf(Depth)'
        /\ fa = [x \in 1..c.nargs |-> s[c.base + StackEnvSize + x - 1]]
        /\ ga = [x \in 1..c.nargs |-> t[c.base + StackEnvSize + x - 1]]
        /\ fl = [x \in 0..m - 1 |-> s[c.base - x]]
        /\ gl = [x \in 0..m - 1 |-> t[c.base - x]]
  OBVIOUS
<1>6. F = [args |-> fa, locals |-> fl, ret |-> c.ret] /\ G = [args |-> ga, locals |-> gl, ret |-> c.ret]
  <2>1. Depth' = d
    BY <1>1 DEF Depth
  <2>2. F = [args |-> fa, locals |-> fl, ret |-> c.ret]
    BY <1>1, <1>2, <1>5 DEF FrameOf
  <2>3. G = [args |-> ga, locals |-> gl, ret |-> c.ret]
    BY <1>1, <1>2, <1>5, <2>1 DEF FrameOf
  <2> QED BY <2>2, <2>3
<1>7. /\ F.args = fa /\ F.locals = fl /\ F.ret = c.ret
      /\ G.args = ga /\ G.locals = gl /\ G.ret = c.ret
  BY <1>6
<1>8. DOMAIN fa = DOMAIN ga /\ DOMAIN fl = DOMAIN gl
  BY <1>5
<1>9. ASSUME NEW x \in DiffersAt(fa, ga) PROVE <<"arg", x>> = VariableAt(a)
  <2>1. x \in 1..c.nargs /\ s[c.base + StackEnvSize + x - 1] # t[c.base + StackEnvSize + x - 1]
    BY <1>5, <1>9 DEF DiffersAt
  <2>2. c.base + StackEnvSize + x - 1 \in 0..StackSize - 1
    BY <1>3, <2>1 DEF StackEnvSize
  <2>3. a = c.base + StackEnvSize + x - 1
    BY <1>4, <2>1, <2>2 DEF Addresses
  <2>4. ~ (a > Floor) /\ a > c.base /\ a - c.base - 4 = x
    BY <1>3, <2>1, <2>3 DEF StackEnvSize
  <2> QED BY <1>1, <1>2, <2>4 DEF VariableAt
<1>10. ASSUME NEW x \in DiffersAt(fl, gl) PROVE <<"local", x>> = VariableAt(a)
  <2>1. x \in 0..m - 1 /\ s[c.base - x] # t[c.base - x]
    BY <1>5, <1>10 DEF DiffersAt
  <2>2. c.base - x \in 0..StackSize - 1
    BY <1>3, <2>1
  <2>3. a = c.base - x
    BY <1>4, <2>1, <2>2 DEF Addresses
  <2>4. ~ (a > Floor) /\ ~ (a > c.base) /\ c.base - a = x
    BY <1>3, <2>1, <2>3
  <2> QED BY <1>1, <1>2, <2>4 DEF VariableAt
<1> QED
  BY <1>5, <1>7, <1>8, <1>9, <1>10

LEMMA AtMostOne ==
  ASSUME NEW S, NEW w, S \subseteq {w}
  PROVE  Cardinality(S) <= 1
<1>1. CASE S = {}
  BY <1>1, FS_EmptySet
<1>2. CASE S = {w}
  <2>1. Cardinality({w}) = 1
    BY FS_Singleton
  <2> QED BY <1>2, <2>1
<1> QED BY <1>1, <1>2

LEMMA ComputeMaps ==
  ASSUME IInv, UNCHANGED <<prog, activations>>, totalActuals = 0, totalActuals' = 0,
         ~ Entering, ~ Entering', Low(Depth) >= -1,
         \/ stack' = stack
         \/ UNCHANGED retval_reg /\ \E a : OneCellChanged(a)
  PROVE  Abstract!Compute
<1>1. PendingOf = <<>> /\ PendingOf' = <<>>
  BY NothingPending
<1>2. PICK d \in Nat : d = Depth
  BY DepthIsNat DEF IInv
<1>3. /\ FramesOf = [k \in 1..d |-> FrameOf(k)] /\ FramesOf' = [k \in 1..d |-> FrameOf(k)']
      /\ Len(FramesOf) = d /\ (FramesOf = <<>> <=> d = 0)
  <2>1. Depth' = d
    BY <1>2 DEF Depth
  <2> QED BY <1>2, <2>1, FramesAreSequence DEF IInv, FramesOf
<1>4. Len(FramesOf') = d
  <2>1. PICK s : s = FramesOf'
    OBVIOUS
  <2>2. s = [k \in 1..d |-> s[k]]
    BY <1>3, <2>1
  <2> QED BY <2>1, <2>2, RangeSequence
<1>5. d > 0 => LastFrame = FrameOf(d) /\ LastFrame' = FrameOf(d)'
  BY <1>3, <1>4 DEF LastFrame
<1>6. CASE stack' = stack
  <2>1. GlobalsOf' = GlobalsOf /\ FramesOf' = FramesOf
    BY <1>6, StackKept
  <2>2. LastFrame' = LastFrame
    BY <2>1 DEF LastFrame
  <2>3. Abstract!SameActivations
    BY <2>1, <2>2, SameUnfolds
  <2>4. ChangedOf \subseteq {<<"retval">>}
    BY <2>1, <2>2 DEF ChangedOf, DiffersAt
  <2>5. Cardinality(ChangedOf) <= 1
    BY <2>4, AtMostOne
  <2> QED BY <1>1, <2>3, <2>5, ChangedUnfolds, ComputeUnfolds
<1>7. ASSUME UNCHANGED retval_reg, NEW a, OneCellChanged(a) PROVE Abstract!Compute
  <2>1. /\ DOMAIN GlobalsOf' = DOMAIN GlobalsOf
        /\ \A x \in DiffersAt(GlobalsOf, GlobalsOf') : <<"global", x>> = VariableAt(a)
    BY <1>7, OneGlobalChanges
  <2>2. d > 0 =>
          /\ LastFrame'.ret = LastFrame.ret
          /\ DOMAIN LastFrame'.args = DOMAIN LastFrame.args
          /\ DOMAIN LastFrame'.locals = DOMAIN LastFrame.locals
          /\ \A x \in DiffersAt(LastFrame.args, LastFrame'.args) : <<"arg", x>> = VariableAt(a)
          /\ \A x \in DiffersAt(LastFrame.locals, LastFrame'.locals) : <<"local", x>> = VariableAt(a)
    <3>1. Depth' = Depth
      BY DEF Depth
    <3>2. FrameOf(Depth)' = FrameOf(d)'
      BY <1>2, <3>1 DEF FrameOf
    <3> QED BY <1>2, <1>5, <1>7, <3>2, OneOfLastFrameChanges
  <2>3. \A k \in 1..d - 1 : FramesOf'[k] = FramesOf[k]
    <3> TAKE k \in 1..d - 1
    <3>1. k \in 1..Depth /\ k \in 1..Depth - 1
      BY <1>2
    <3>2. \A x \in FrameCells(k) : stack'[x] = stack[x]
      <4> TAKE x \in FrameCells(k)
      <4>1. x > Low(Depth) /\ x <= Floor /\ x \in Int /\ Floor < StackSize /\ Floor \in Nat /\ Low(Depth) \in Int
        BY <3>1, FrameCellsAreHigh
      <4>2. x \in Addresses
        BY <4>1, WordIsBig DEF Addresses
      <4>3. x # a
        BY <1>7, <3>1 DEF OneCellChanged
      <4> QED BY <1>7, <4>2, <4>3 DEF OneCellChanged
    <3>3. FrameOf(k)' = FrameOf(k)
      BY <3>1, <3>2, FrameStays
    <3> QED BY <1>3, <3>3
  <2>4. Abstract!SameActivations
    <3>1. Len(FramesOf') = Len(FramesOf) /\ \A k \in 1..Len(FramesOf) - 1 : FramesOf'[k] = FramesOf[k]
      BY <1>3, <1>4, <2>3
    <3>2. FramesOf # <<>> => /\ LastFrame'.ret = LastFrame.ret
                            /\ DOMAIN LastFrame'.args = DOMAIN LastFrame.args
                            /\ DOMAIN LastFrame'.locals = DOMAIN LastFrame.locals
      <4>1. FramesOf # <<>> => d > 0
        BY ONLY <1>3, d \in Nat
      <4> QED BY ONLY <2>2, <4>1
    <3> QED BY ONLY <2>1, <3>1, <3>2, SameUnfolds
  <2>5. ChangedOf \subseteq {VariableAt(a)}
    <3> SUFFICES ASSUME NEW w \in ChangedOf PROVE w = VariableAt(a)
      OBVIOUS
    <3>1. \/ \E x \in DiffersAt(GlobalsOf, GlobalsOf') : w = <<"global", x>>
          \/ /\ FramesOf # <<>>
             /\ \/ \E x \in DiffersAt(LastFrame.args, LastFrame'.args) : w = <<"arg", x>>
                \/ \E x \in DiffersAt(LastFrame.locals, LastFrame'.locals) : w = <<"local", x>>
      BY <1>7 DEF ChangedOf
    <3> QED BY <1>2, <1>3, <2>1, <2>2, <3>1
  <2>6. Cardinality(ChangedOf) <= 1
    BY <2>5, AtMostOne
  <2> QED BY <1>1, <2>4, <2>6, ChangedUnfolds, ComputeUnfolds
<1> QED
  BY <1>6, <1>7

\* What every instruction has in common that neither pushes nor calls.
LEMMA InsideFrame ==
  ASSUME IInv, outcome = "running", pc \in Code(prog),
         Instr.op \notin {"pusharg", "call", "funcenter", "funcexit"},
         UNCHANGED <<prog, totalActuals>>, pc' \in Succ(prog, pc)
  PROVE  totalActuals = 0 /\ totalActuals' = 0 /\ ~ Entering /\ ~ Entering' /\ Low(Depth) >= -1
<1>1. totalActuals = 0
  BY DEF IInv, PushesPending, TypeOK
<1>2. ~ Entering /\ ~ Entering'
  BY SuccessorStaysInFunction DEF IInv, Entering, Instr, Code
<1>3. Low(Depth) >= -1
  BY PushesAreLow
<1> QED
  BY <1>1, <1>2, <1>3

\* A destination is a variable of the running call or a global.
LEMMA DestinationIsOwn ==
  ASSUME IInv, outcome = "running", pc \in Code(prog), NEW o \in Destinations(Instr),
         IsVariable(o), ~ Missing(o), NEW k \in 1..Depth - 1
  PROVE  Address(o) \notin FrameCells(k)
<1>1. PICK d \in Nat : d = Depth /\ d \in 1..Depth /\ k \in 1..Depth /\ k \in 0..d - 1
  BY DepthIsNat DEF IInv
<1>2. PICK a : a = Address(o)
  OBVIOUS
<1>3. a \in CellsOfKind(o.type)
  BY <1>2, OperandAddress
<1>4. /\ activations[d].base \in Nat /\ activations[d].nargs \in Nat /\ Low(k) \in Int
      /\ Floor \in Nat /\ \A x \in FrameCells(k) : x > Low(k) /\ x <= Floor /\ x \in Int
  BY <1>1, FrameCellsAreHigh
<1>5. activations[d].base + 4 + activations[d].nargs <= Low(k)
  BY <1>1 DEF IInv, FramesDisjoint
<1>6. CASE o.type = "global"
  BY <1>2, <1>3, <1>4, <1>6 DEF CellsOfKind
<1>7. CASE o.type = "local"
  <2>1. a \in Low(Depth) + 1..activations[d].base /\ Low(Depth) \in Int
    BY <1>1, <1>3, <1>7, FrameCellsAreHigh DEF CellsOfKind
  <2>2. a \in Int /\ a <= Low(k)
    BY <1>4, <1>5, <2>1
  <2> QED BY <1>2, <1>4, <2>2
<1>8. CASE o.type = "formal"
  <2>1. a \in activations[d].base + 5..activations[d].base + 4 + activations[d].nargs
    BY <1>1, <1>3, <1>8 DEF CellsOfKind
  <2>2. a \in Int /\ a <= Low(k)
    BY <1>4, <1>5, <2>1
  <2> QED BY <1>2, <1>4, <2>2
<1> QED
  BY <1>6, <1>7, <1>8 DEF IsVariable

LEMMA StoreMaps ==
  ASSUME IInv, outcome = "running", pc \in Code(prog),
         Instr.op \notin {"pusharg", "call", "funcenter", "funcexit"},
         UNCHANGED <<prog, totalActuals, activations>>, pc' = pc + 1,
         NEW o \in Destinations(Instr), NEW c, Store(o, c)
  PROVE  Abstract!Compute
<1>1. pc' \in Succ(prog, pc)
  BY NextIsSuccessor DEF IInv, Destinations, ArithOps
<1>2. totalActuals = 0 /\ totalActuals' = 0 /\ ~ Entering /\ ~ Entering' /\ Low(Depth) >= -1
  BY <1>1, InsideFrame
<1>3. CASE IsVariable(o) /\ ~ Missing(o)
  <2>1. UNCHANGED retval_reg /\ stack' = [stack EXCEPT ![Address(o)] = c]
    BY <1>3 DEF Store, IsVariable
  <2>2. InStack(Address(o))
    BY <1>3, OperandAddress
  <2>3. OneCellChanged(Address(o))
    <3>1. PICK a : a = Address(o)
      OBVIOUS
    <3>2. a \in Int
      BY <2>2, <3>1, WordIsBig DEF InStack, Addresses
    <3>3. \A k \in 1..Depth - 1 : a \notin FrameCells(k)
      BY <1>3, <3>1, DestinationIsOwn
    <3>4. \A x \in Addresses : x # a => stack'[x] = stack[x]
      <4>1. stack = [b \in Addresses |-> stack[b]]
        BY DEF IInv, TypeOK
      <4> QED BY <2>1, <3>1, <4>1
    <3>5. OneCellChanged(a)
      BY <3>2, <3>3, <3>4 DEF OneCellChanged
    <3> QED BY <3>1, <3>5 DEF OneCellChanged
  <2> QED BY <1>2, <2>1, <2>3, ComputeMaps
<1>4. CASE ~ (IsVariable(o) /\ ~ Missing(o))
  <2>1. stack' = stack
    BY <1>4 DEF Store
  <2> QED BY <1>2, <2>1, ComputeMaps
<1> QED
  BY <1>3, <1>4

LEMMA AssignmentsMap ==
  ASSUME IInv, UNCHANGED activations,
         Assign \/ Arithmetic \/ NewTable \/ TableGetElem \/ GetRetval
  PROVE  Abstract!Compute
<1>1. PICK ops \in {{"assign"}, ArithOps, {"newtable"}, {"tablegetelem"}, {"getretval"}} : Fetch(ops)
  BY DEF Assign, Arithmetic, NewTable, TableGetElem, GetRetval
<1>2. outcome = "running" /\ pc \in Code(prog) /\ Instr.op \in ops
  BY <1>1, Fetched
<1>3. /\ Instr.op \notin {"pusharg", "call", "funcenter", "funcexit"}
      /\ Instr.result \in Destinations(Instr)
  BY <1>2 DEF ArithOps, Destinations
<1>4. \E c : Store(Instr.result, c)
  BY DEF Assign, Arithmetic, NewTable, TableGetElem, GetRetval
<1>5. UNCHANGED <<prog, totalActuals>> /\ pc' = pc + 1
  BY DEF Assign, Arithmetic, NewTable, TableGetElem, GetRetval
<1> QED
  BY <1>2, <1>3, <1>4, <1>5, StoreMaps

LEMMA JumpsMap ==
  ASSUME IInv, UNCHANGED activations, Jeq \/ Jne \/ NumCmp \/ Jump \/ TableSetElem
  PROVE  Abstract!Compute
<1>1. UNCHANGED <<prog, stack, totalActuals>>
  BY DEF Jeq, Jne, NumCmp, Jump, JumpIf, TableSetElem
<1>2. PICK ops \in {{"jeq"}, {"jne"}, NumCmpOps, {"jump"}, {"tablesetelem"}} : Fetch(ops)
  BY DEF Jeq, Jne, NumCmp, Jump, TableSetElem
<1>3. outcome = "running" /\ pc \in Code(prog) /\ Instr.op \in ops
  BY <1>2, Fetched
<1>4. Instr.op \notin {"pusharg", "call", "funcenter", "funcexit"}
  BY <1>3 DEF NumCmpOps
<1>5. pc' \in Succ(prog, pc)
  <2>1. CASE Jump
    <3>1. Instr.op = "jump" /\ pc' = Instr.result.val
      BY <2>1 DEF Jump, Fetch, JumpIf
    <3> QED BY <1>3, <3>1, LabelIsSuccessor DEF IInv, JumpOps
  <2>2. CASE Jeq \/ Jne \/ NumCmp
    <3>1. Instr.op \in {"jeq", "jne"} \cup NumCmpOps
      BY <2>2 DEF Jeq, Jne, NumCmp, Fetch
    <3>2. Instr.op \in JumpOps /\ Instr.op # "jump"
      BY <3>1 DEF JumpOps, NumCmpOps
    <3>3. Instr.result.val \in Succ(prog, pc) /\ pc + 1 \in Succ(prog, pc)
      BY <1>3, <1>4, <3>2, LabelIsSuccessor, NextIsSuccessor DEF IInv
    <3>4. pc' = Instr.result.val \/ pc' = pc + 1
      BY <2>2 DEF Jeq, Jne, NumCmp, JumpIf
    <3> QED BY <3>3, <3>4
  <2>3. CASE TableSetElem
    <3>1. Instr.op = "tablesetelem" /\ pc' = pc + 1
      BY <2>3 DEF TableSetElem, Fetch
    <3> QED BY <1>3, <3>1, NextIsSuccessor DEF IInv
  <2> QED BY <2>1, <2>2, <2>3
<1>6. totalActuals = 0 /\ totalActuals' = 0 /\ ~ Entering /\ ~ Entering' /\ Low(Depth) >= -1
  BY <1>1, <1>3, <1>4, <1>5, InsideFrame
<1> QED
  BY <1>1, <1>6, ComputeMaps

-----------------------------------------------------------------------------
(* The theorem. *)

LEMMA InitMaps == HInit => Abstract!Init
<1> SUFFICES ASSUME HInit PROVE Abstract!Init
  OBVIOUS
<1>1. IInv /\ Depth = 0 /\ totalActuals = 0 /\ retval_reg = Undef /\ pc = 0
  BY InitHolds, DepthIsNat DEF HInit, Init, IInv
<1>2. FramesOf = <<>> /\ PendingOf = <<>>
  BY <1>1, FramesAreSequence, NothingPending DEF IInv
<1>3. GlobalsOf = [g \in DOMAIN GlobalsOf |-> Undef]
  <2>1. \A g \in 0..prog.totalGlobals - 1 : StackSize - 1 - g \in Addresses
    <3>1. StackSize \in Nat /\ prog.totalGlobals \in Nat /\ StackSize - 1 - prog.totalGlobals >= 0
      BY <1>1, ProgramNumbers, WordIsBig DEF IInv, Floor
    <3> QED BY <3>1 DEF Addresses
  <2>2. \A g \in 0..prog.totalGlobals - 1 : stack[StackSize - 1 - g] = Undef
    BY <2>1 DEF HInit, Init
  <2> QED BY <2>2 DEF GlobalsOf
<1>4. Abstract!Init <=>
        /\ GlobalsOf = [g \in DOMAIN GlobalsOf |-> Undef]
        /\ FramesOf = <<>>
        /\ PendingOf = <<>>
        /\ retval_reg = Undef
        /\ pc = 0
        /\ Running \in BOOLEAN
  BY DEF Abstract!Init, GlobalsOf, FramesOf, PendingOf, Running
<1> QED
  BY <1>1, <1>2, <1>3, <1>4 DEF Running

LEMMA StutterMaps ==
  ASSUME UNCHANGED historyVars
  PROVE  UNCHANGED Abstract!vars
<1>1. UNCHANGED <<prog, stack, top, topsp, pc, totalActuals, retval_reg, outcome, activations>>
  BY DEF historyVars, vars, registers
<1>2. Entering' <=> Entering
  BY <1>1 DEF Entering, Instr
<1>3. GlobalsOf' = GlobalsOf /\ FramesOf' = FramesOf
  BY <1>1, <1>2, StackKept
<1>4. PendingOf' = PendingOf /\ Running' = Running
  BY <1>1 DEF PendingOf, Running, Height
<1> QED
  BY <1>1, <1>3, <1>4 DEF Abstract!vars, GlobalsOf, FramesOf, PendingOf, Running

LEMMA StepMaps ==
  ASSUME IInv, [HNext]_historyVars
  PROVE  [Abstract!Next]_(Abstract!vars)
<1>1. CASE UNCHANGED historyVars
  BY <1>1, StutterMaps
<1>2. CASE HInFrame /\ Stopped
  BY <1>2, StutterMaps DEF HInFrame, Stopped, historyVars
<1>3. CASE outcome = "running" /\ HNext
  <2>1. Abstract!Next <=>
          /\ outcome = "running"
          /\ \/ Abstract!Compute \/ Abstract!Push \/ Abstract!Call \/ Abstract!Enter
             \/ Abstract!Return \/ Abstract!LibCall \/ Abstract!Stop
    BY DEF Abstract!Next
  <2>2. CASE HCall
    BY <1>3, <2>1, <2>2, CallMaps
  <2>3. CASE HReturn
    BY <1>3, <2>1, <2>3, ReturnMaps
  <2>4. CASE HInFrame
    <3>1. UNCHANGED activations
      BY <2>4 DEF HInFrame
    <3>2. CASE Assign \/ Arithmetic \/ NewTable \/ TableGetElem \/ GetRetval
      BY <1>3, <2>1, <3>1, <3>2, AssignmentsMap
    <3>3. CASE Jeq \/ Jne \/ NumCmp \/ Jump \/ TableSetElem
      BY <1>3, <2>1, <3>1, <3>3, JumpsMap
    <3>4. CASE PushArg
      BY <1>3, <2>1, <3>1, <3>4, PushArgMaps
    <3>5. CASE CallOverflow
      BY <1>3, <2>1, <3>1, <3>5, OverflowMaps
    <3>6. CASE FuncEnter
      BY <1>3, <2>1, <3>1, <3>6, EnterMaps
    <3>7. CASE LibCall
      BY <1>3, <2>1, <3>1, <3>7, LibMaps
    <3>8. CASE \/ ArithmeticError \/ NumCmpError \/ TableError \/ PushArgWild \/ CallWild
               \/ CallError \/ FuncEnterOverflow \/ Halt
      BY <1>3, <2>1, <3>1, <3>8, FailingMaps
    <3>9. CASE Stopped
      BY <1>3, <3>9 DEF Stopped
    <3> QED
      BY <2>4, <3>2, <3>3, <3>4, <3>5, <3>6, <3>7, <3>8, <3>9 DEF HInFrame, InFrame
  <2> QED
    BY <1>3, <2>2, <2>3, <2>4 DEF HNext
<1>4. CASE outcome # "running" /\ HNext
  <2>1. HInFrame /\ Stopped
    BY <1>4 DEF HNext, HCall, HReturn, HInFrame, InFrame, CallUserFunc, FuncExit, Calls, Fetch,
       Assign, Arithmetic, ArithmeticError, Jeq, Jne, NumCmp, NumCmpError, Jump, NewTable, TableGetElem,
       TableSetElem, TableError, PushArg, PushArgWild, CallOverflow, CallWild, CallError, FuncEnter,
       FuncEnterOverflow, GetRetval, LibCall, Halt, LibError, LibPrint, LibInput, LibTypeof,
       LibTotalArguments, LibArgument, LibArgumentWild, LibStrtonum, LibSqrt, LibTrigonometry,
       LibObjectMemberKeys, LibObjectTotalMembers, LibObjectCopy, AtLib
  <2> QED BY <1>2, <2>1
<1> QED
  BY <1>1, <1>3, <1>4

\* The machine implements the calls of module Activations: whatever the program,
\* each call has arguments and locals of its own that no other call can change,
\* and gets the arguments that were pushed for it (avm.c:553-640).
THEOREM CallsAreActivations == HSpec => ImplementsActivations
<1>1. IInv /\ [HNext]_historyVars => IInv'
  BY InFrameKeeps, HCallStep, HReturnStep, StutterKeeps DEF HNext, HInFrame
<1>2. IInv /\ [HNext]_historyVars => [Abstract!Next]_(Abstract!vars)
  BY StepMaps
<1> QED
  BY InitHolds, InitMaps, <1>1, <1>2, PTL DEF HSpec, Abstract!Spec, ImplementsActivations
=============================================================================
