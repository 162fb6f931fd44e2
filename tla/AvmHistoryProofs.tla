-------------------------- MODULE AvmHistoryProofs --------------------------
(* Proofs about the virtual machine with its history of calls. *)
EXTENDS AvmHistory, FiniteSetTheorems, SequenceTheorems, TLAPS

-----------------------------------------------------------------------------
(* Arithmetic modulo Word. *)

LEMMA WordIsBig == Word \in Nat /\ StackSize \in Nat /\ Word > StackSize + 4
BY AvmAssumption

LEMMA ModRange == \A n \in Int : n % Word \in 0..Word - 1
BY WordIsBig

LEMMA ModSmall == \A n \in 0..Word - 1 : n % Word = n
BY WordIsBig

LEMMA ModMinusOne == (-1) % Word = Word - 1
BY WordIsBig

-----------------------------------------------------------------------------
(* Cells. *)

LEMMA NumberIsCell == \A p, n : \A i \in Int : Number(i) \in CellsOf(p, n)
BY DEF CellsOf, Cells, Number

LEMMA BlankIsCell == \A p, n : Nil \in CellsOf(p, n) /\ Undef \in CellsOf(p, n)
BY DEF CellsOf, Cells, Nil, Undef

LEMMA StringIsCell == \A p, n : \A s \in Strings : String(s) \in CellsOf(p, n)
BY DEF CellsOf, Cells, String

LEMMA TableRefIsCell == \A p : \A n \in Nat : \A i \in 1..n : TableRef(i) \in CellsOf(p, n)
BY DEF CellsOf, Cells, TableRef

LEMMA CellsGrow ==
  \A p : \A n, m \in Nat : n <= m => CellsOf(p, n) \subseteq CellsOf(p, m)
BY DEF CellsOf

\* What the type of a cell says of its value.
LEMMA CellFields ==
  ASSUME NEW p, NEW n \in Nat, NEW c \in CellsOf(p, n)
  PROVE  /\ c.type \in CellTypes
         /\ c.type = "number" => c.numVal \in Int /\ c = Number(c.numVal)
         /\ c.type = "table" => c.tableVal \in 1..n
         /\ c.type = "userfunc" => c.funcVal \in Funcs(p)
         /\ c.type = "string" => c.strVal \in Strings
<1>1. CASE c \in [type : {"number"}, numVal : Int]
  BY <1>1 DEF Number, CellTypes
<1>2. CASE c \in [type : {"string"}, strVal : Strings]
  BY <1>2 DEF CellTypes
<1>3. CASE c \in [type : {"table"}, tableVal : Nat]
  BY <1>3 DEF CellsOf, CellTypes
<1>4. CASE c \in [type : {"userfunc"}, funcVal : Nat]
  BY <1>4 DEF CellsOf, CellTypes
<1>5. CASE c \in [type : {"bool"}, boolVal : BOOLEAN]
  BY <1>5 DEF CellTypes
<1>6. CASE c \in [type : {"libfunc"}, libfuncVal : Strings]
  BY <1>6 DEF CellTypes
<1>7. CASE c \in {Nil, Undef}
  BY <1>7 DEF Nil, Undef, CellTypes
<1> QED
  BY <1>1, <1>2, <1>3, <1>4, <1>5, <1>6, <1>7 DEF CellsOf, Cells

-----------------------------------------------------------------------------
(* Tables. *)

LEMMA TableGrows ==
  ASSUME NEW C, NEW D, C \subseteq D, NEW t, IsTable(t, C)
  PROVE  IsTable(t, D)
BY DEF IsTable

LEMMA EmptyIsTable == \A C : IsTable(EmptyTable, C)
BY FS_EmptySet, WordIsBig DEF IsTable, EmptyTable

LEMMA GetElemIsCell ==
  ASSUME NEW C, Nil \in C, NEW t, IsTable(t, C), NEW key
  PROVE  GetElem(t, key) \in C
BY DEF IsTable, GetElem

LEMMA BindIsTable ==
  ASSUME NEW C, NEW t, IsTable(t, C), NEW key \in C, NEW val \in C, NEW n \in 0..Word - 1
  PROVE  IsTable([elems |-> Bind(t, key, val), total |-> n], C)
<1> DEFINE u == [elems |-> Bind(t, key, val), total |-> n]
<1>1. DOMAIN u.elems = DOMAIN t.elems \cup {key}
  BY DEF Bind
<1>2. IsFiniteSet(DOMAIN u.elems)
  BY <1>1, FS_AddElement DEF IsTable
<1>3. \A k \in DOMAIN u.elems : u.elems[k] \in C
  BY DEF Bind, IsTable
<1>4. u.elems = [k \in DOMAIN u.elems |-> u.elems[k]]
  BY DEF Bind
<1> QED
  BY <1>1, <1>2, <1>3, <1>4 DEF IsTable

LEMMA SetElemIsTable ==
  ASSUME NEW C, Nil \in C, NEW t, IsTable(t, C), NEW key \in C, NEW val \in C
  PROVE  IsTable(SetElem(t, key, val), C)
<1>1. t.total \in Int /\ (t.total - 1) % Word \in 0..Word - 1 /\ (t.total + 1) % Word \in 0..Word - 1
  BY ModRange, WordIsBig DEF IsTable
<1>2. IsTable([elems |-> Bind(t, key, Nil), total |-> (t.total - 1) % Word], C)
  BY <1>1, BindIsTable
<1>3. IsTable([elems |-> Bind(t, key, val), total |-> (t.total + 1) % Word], C)
  BY <1>1, BindIsTable
<1>4. IsTable([elems |-> Bind(t, key, val), total |-> t.total], C)
  BY BindIsTable DEF IsTable
<1> QED
  BY <1>2, <1>3, <1>4 DEF SetElem

LEMMA CopyIsTable ==
  ASSUME NEW C, NEW t, IsTable(t, C)
  PROVE  IsTable(CopyOf(t), C)
<1> DEFINE kept == {k \in Members(t) : k.type \in {"string", "number"}}
<1>1. kept \subseteq DOMAIN t.elems
  BY DEF Members
<1>2. IsFiniteSet(kept) /\ Cardinality(kept) \in Nat
  BY <1>1, FS_Subset, FS_CardinalityType DEF IsTable
<1>3. Cardinality(kept) % Word \in 0..Word - 1
  BY <1>2, ModRange
<1>4. CopyOf(t) = [elems |-> [k \in kept |-> t.elems[k]], total |-> Cardinality(kept) % Word]
  BY DEF CopyOf
<1> QED
  BY <1>1, <1>2, <1>3, <1>4 DEF IsTable

LEMMA KeyTableIsTable ==
  ASSUME NEW C, (\A i \in Int : Number(i) \in C), NEW t, IsTable(t, C), NEW order \in KeyOrders(t)
  PROVE  IsTable([elems |-> [k \in {Number(i) : i \in DOMAIN order} |-> order[k.numVal]],
                  total |-> Cardinality(DOMAIN order) % Word], C)
<1> DEFINE strs == {k \in Members(t) : k.type = "string"}
           nums == {k \in Members(t) : k.type = "number"}
           n == Cardinality(strs)
           m == Cardinality(nums)
           keys == {Number(i) : i \in DOMAIN order}
           u == [elems |-> [k \in keys |-> order[k.numVal]],
                 total |-> Cardinality(DOMAIN order) % Word]
<1>1. n \in Nat /\ m \in Nat
  <2>1. strs \subseteq DOMAIN t.elems /\ nums \subseteq DOMAIN t.elems
    BY DEF Members
  <2> QED
    BY <2>1, FS_Subset, FS_CardinalityType DEF IsTable
<1>2. order \in [0..n + m - 1 -> strs \cup nums]
  BY DEF KeyOrders
<1>3. IsFiniteSet(DOMAIN order) /\ Cardinality(DOMAIN order) \in Nat
  <2>1. IsFiniteSet(0..n + m - 1)
    BY <1>1, FS_Interval
  <2> QED
    BY <1>2, <2>1, FS_CardinalityType
<1>4. IsFiniteSet(keys)
  <2> DEFINE number == [i \in DOMAIN order |-> Number(i)]
  <2>1. keys = {number[i] : i \in DOMAIN order}
    OBVIOUS
  <2>2. number \in Surjection(DOMAIN order, keys)
    BY <2>1 DEF Surjection
  <2> QED
    BY <1>3, <2>2, FS_Surjection
<1>5. keys \subseteq C
  BY <1>1, <1>2
<1>6. \A k \in keys : order[k.numVal] \in C
  <2> SUFFICES ASSUME NEW i \in DOMAIN order PROVE order[Number(i).numVal] \in C
    OBVIOUS
  <2>1. order[i] \in DOMAIN t.elems
    BY <1>2 DEF Members
  <2> QED
    BY <2>1 DEF IsTable, Number
<1>7. u.total \in 0..Word - 1
  BY <1>3, ModRange
<1>8. DOMAIN u.elems = keys /\ \A k \in keys : u.elems[k] \in C
  BY <1>6
<1>9. u.elems = [k \in DOMAIN u.elems |-> u.elems[k]] /\ u = [elems |-> u.elems, total |-> u.total]
  OBVIOUS
<1> HIDE DEF keys, u
<1>10. IsTable(u, C)
  BY <1>4, <1>5, <1>7, <1>8, <1>9 DEF IsTable
<1> QED
  BY <1>10 DEF u, keys

-----------------------------------------------------------------------------
(* The program. *)

LEMMA ProgramIsWellFormed ==
  ASSUME prog \in Programs
  PROVE  WellFormed(prog) /\ prog.totalGlobals < StackSize /\ prog.codeSize < Word
BY ProgramsAssumption

LEMMA ProgramNumbers ==
  ASSUME prog \in Programs
  PROVE  /\ prog.codeSize \in Nat
         /\ prog.totalGlobals \in Nat /\ prog.totalGlobals > 0
         /\ Floor \in Int /\ 0 <= Floor /\ Floor < StackSize - 1
BY ProgramIsWellFormed, WordIsBig DEF WellFormed, ProgramTypeOK, Floor

LEMMA LocalsAreNat ==
  ASSUME prog \in Programs, NEW f \in Funcs(prog)
  PROVE  f # Main /\ LocalsOf(prog, f) = prog.userFuncs[f].localSize /\ LocalsOf(prog, f) \in Nat
BY ProgramIsWellFormed DEF WellFormed, ProgramTypeOK, LocalsOf, Main

LEMMA InstrFields ==
  ASSUME prog \in Programs, pc \in Code(prog)
  PROVE  /\ Instr.op \in Opcodes
         /\ Instr.result \in Operands /\ Instr.arg1 \in Operands /\ Instr.arg2 \in Operands
BY ProgramIsWellFormed DEF WellFormed, ProgramTypeOK, Instr

\* Where an instruction leads inside its function.
LEMMA SuccessorStaysInFunction ==
  ASSUME prog \in Programs, pc \in Code(prog), NEW s \in Succ(prog, pc)
  PROVE  /\ s \in 0..prog.codeSize
         /\ Owner(prog, s) = Owner(prog, pc)
         /\ s \in Code(prog) => prog.code[s].op # "funcenter"
BY ProgramIsWellFormed DEF WellFormed, FlowOK

LEMMA NextIsSuccessor ==
  ASSUME prog \in Programs, pc \in Code(prog), Instr.op \notin {"jump", "funcexit"}
  PROVE  pc + 1 \in Succ(prog, pc)
BY DEF Succ, Instr

LEMMA LabelIsSuccessor ==
  ASSUME prog \in Programs, pc \in Code(prog), Instr.op \in JumpOps
  PROVE  Instr.result.val \in Succ(prog, pc)
BY DEF Succ, Instr

-----------------------------------------------------------------------------
(* The frames. *)

LEMMA ActivationFields ==
  ASSUME HistoryOK, NEW k \in 1..Depth
  PROVE  /\ activations[k].func \in Funcs(prog)
         /\ activations[k].base \in Addresses
         /\ activations[k].nargs \in Nat
         /\ activations[k].ret \in 0..prog.codeSize
         /\ activations[k].callerTopSp \in Addresses
         /\ activations[k].callerTop \in Addresses
<1> DEFINE Activations == [func : Funcs(prog), base : Addresses, nargs : Nat, ret : 0..prog.codeSize,
                           callerTopSp : Addresses, callerTop : Addresses]
<1>1. activations \in Seq(Activations)
  BY DEF HistoryOK
<1>2. activations[k] \in Activations
  <2> HIDE DEF Activations
  <2> QED
    BY <1>1, ElementOfSeq DEF Depth
<1> QED
  BY <1>2

LEMMA DepthIsNat ==
  ASSUME HistoryOK
  PROVE  Depth \in Nat /\ (Depth = 0 <=> activations = <<>>)
BY EmptySeq, LenProperties DEF HistoryOK, Depth

LEMMA LowIsInt ==
  ASSUME prog \in Programs, HistoryOK, NEW k \in 0..Depth
  PROVE  /\ Low(k) \in Int
         /\ k = 0 => Low(k) = Floor
         /\ k > 0 => Low(k) = activations[k].base - LocalsOf(prog, activations[k].func)
         /\ k > 0 => Low(k) <= activations[k].base
<1>1. CASE k = 0
  BY <1>1, ProgramNumbers DEF Low
<1>2. CASE k > 0
  <2>1. k \in 1..Depth
    BY <1>2, DepthIsNat
  <2>2. activations[k].base \in Int /\ activations[k].func \in Funcs(prog)
    BY <2>1, ActivationFields, WordIsBig DEF Addresses
  <2>3. LocalsOf(prog, activations[k].func) \in Nat
    BY <2>2, LocalsAreNat
  <2> QED
    BY <1>2, <2>2, <2>3 DEF Low
<1> QED
  BY <1>1, <1>2, DepthIsNat

\* The newest frame lies below every other, and below the globals.
LEMMA NewestFrameIsLowest ==
  ASSUME prog \in Programs, HistoryOK, FramesDisjoint
  PROVE  /\ Low(Depth) <= Floor
         /\ \A k \in 1..Depth :
               /\ Low(Depth) <= activations[k].base
               /\ activations[k].base + 4 + activations[k].nargs <= Floor
               /\ k < Depth => activations[Depth].base + 4 + activations[Depth].nargs
                                 <= activations[k].base
<1>1. \A k \in 1..Depth : activations[k].base + 4 + activations[k].nargs <= Floor
  <2> TAKE k \in 1..Depth
  <2>1. 0 \in 0..k - 1
    BY DepthIsNat
  <2> QED
    BY <2>1 DEF FramesDisjoint, Low
<1>2. \A k \in 1..Depth : k < Depth =>
        activations[Depth].base + 4 + activations[Depth].nargs <= activations[k].base
  <2> SUFFICES ASSUME NEW k \in 1..Depth, k < Depth
               PROVE  activations[Depth].base + 4 + activations[Depth].nargs <= activations[k].base
    OBVIOUS
  <2>1. Depth \in 1..Depth /\ k \in 0..Depth - 1 /\ k \in 0..Depth /\ k > 0
    BY DepthIsNat
  <2>2. activations[Depth].base + 4 + activations[Depth].nargs <= Low(k)
    BY <2>1 DEF FramesDisjoint
  <2>3. Low(k) <= activations[k].base /\ Low(k) \in Int
    BY <2>1, LowIsInt
  <2>4. /\ activations[Depth].base \in Int /\ activations[Depth].nargs \in Int
        /\ activations[k].base \in Int
    BY <2>1, ActivationFields, WordIsBig DEF Addresses
  <2> QED
    BY <2>2, <2>3, <2>4
<1>3. Depth > 0 => Low(Depth) <= activations[Depth].base /\ Low(Depth) \in Int
                     /\ activations[Depth].base \in Int /\ activations[Depth].nargs \in Nat
  BY DepthIsNat, LowIsInt, ActivationFields, WordIsBig DEF Addresses
<1>4. \A k \in 1..Depth : activations[k].base \in Int
  BY ActivationFields, WordIsBig DEF Addresses
<1>5. \A k \in 1..Depth : Low(Depth) <= activations[k].base
  <2> TAKE k \in 1..Depth
  <2>1. CASE k = Depth
    BY <2>1, <1>3, DepthIsNat
  <2>2. CASE k < Depth
    <3>1. activations[Depth].base + 4 + activations[Depth].nargs <= activations[k].base
      BY <2>2, <1>2
    <3>2. Depth > 0 /\ activations[k].base \in Int
      BY <2>2, <1>4, DepthIsNat
    <3> QED
      BY <3>1, <3>2, <1>3
  <2> QED
    BY <2>1, <2>2, DepthIsNat
<1>6. Low(Depth) <= Floor
  <2>1. CASE Depth = 0
    BY <2>1, ProgramNumbers DEF Low
  <2>2. CASE Depth > 0
    BY <2>2, <1>1, <1>3, ProgramNumbers, DepthIsNat
  <2> QED
    BY <2>1, <2>2, DepthIsNat
<1> QED
  BY <1>1, <1>2, <1>5, <1>6

\* The argument count that the code reads from the newest frame.
LEMMA NumActualsIsRecorded ==
  ASSUME IInv, outcome = "running", Depth > 0
  PROVE  /\ NumActuals = activations[Depth].nargs
         /\ topsp = activations[Depth].base
<1>1. Depth \in 1..Depth
  BY DepthIsNat DEF IInv
<1>2. topsp = activations[Depth].base
  BY DepthIsNat DEF IInv, FrameCurrent
<1>3. activations[Depth].nargs \in 0..Word - 1
  <2>1. activations[Depth].base + 4 + activations[Depth].nargs <= Floor
    BY <1>1, NewestFrameIsLowest DEF IInv
  <2>2. activations[Depth].base \in Nat /\ activations[Depth].nargs \in Nat
    BY <1>1, ActivationFields, WordIsBig DEF IInv, Addresses
  <2> QED
    BY <2>1, <2>2, ProgramNumbers, WordIsBig DEF IInv
<1>4. stack[topsp + NumActualsOffset] = Number(activations[Depth].nargs)
  BY <1>1, <1>2 DEF IInv, FramesIntact
<1> QED
  BY <1>2, <1>3, <1>4, ModSmall DEF NumActuals, ToUnsigned, Number

-----------------------------------------------------------------------------
(* Operands. *)

LEMMA OperandIsOK ==
  ASSUME prog \in Programs, pc \in Code(prog),
         NEW o \in Destinations(Instr) \cup ReadOperands(Instr)
  PROVE  /\ o \in Variables \cup Constants \cup {Retval}
         /\ o \in ReadOperands(Instr) => o \in Variables \cup Constants
         /\ VariableOK(prog, pc, o)
         /\ Instr.op # "funcenter"
<1>1. Instr.op # "funcenter"
  BY DEF Destinations, ReadOperands, ArithOps, NumCmpOps
<1> QED
  BY <1>1, ProgramIsWellFormed DEF WellFormed, OperandsOK, Instr

\* The highest cell that the pushing of arguments has used or may use next.
LEMMA PushesAreLow ==
  ASSUME IInv, outcome = "running", pc \in Code(prog), Instr.op # "funcenter"
  PROVE  /\ Height \in Int /\ Height >= -1 /\ totalActuals \in Nat
         /\ Low(Depth) \in Int
         /\ Height + totalActuals <= Low(Depth) /\ Low(Depth) <= Floor
<1>1. Height \in Int /\ Height >= -1 /\ totalActuals \in Nat
  BY WordIsBig DEF IInv, TypeOK, Height, Addresses
<1>2. Low(Depth) \in Int
  BY LowIsInt, DepthIsNat DEF IInv
<1>3. Height + totalActuals <= Low(Depth)
  BY DEF IInv, FrameCurrent, Entering
<1> QED
  BY <1>1, <1>2, <1>3, NewestFrameIsLowest DEF IInv

LEMMA EnvironmentIsHigh ==
  ASSUME IInv, NEW k \in 1..Depth
  PROVE  /\ activations[k].base \in Nat
         /\ Low(Depth) \in Int /\ Low(Depth) <= activations[k].base
         /\ activations[k].base + 4 <= Floor
<1>1. activations[k].base \in Nat /\ activations[k].nargs \in Nat
  BY ActivationFields, WordIsBig DEF IInv, Addresses
<1>2. Low(Depth) \in Int
  BY LowIsInt, DepthIsNat DEF IInv
<1>3. Low(Depth) <= activations[k].base /\ activations[k].base + 4 + activations[k].nargs <= Floor
  BY NewestFrameIsLowest DEF IInv
<1> QED
  BY <1>1, <1>2, <1>3, ProgramNumbers DEF IInv

LEMMA OperandAddress ==
  ASSUME IInv, outcome = "running", pc \in Code(prog),
         NEW o \in Destinations(Instr) \cup ReadOperands(Instr),
         IsVariable(o), ~ Missing(o)
  PROVE  /\ InStack(Address(o))
         /\ Address(o) > Height + totalActuals
         /\ \A k \in 1..Depth : Address(o) \notin activations[k].base + 1..activations[k].base + 4
         /\ Address(o) \in CellsOfKind(o.type)
<1>1. VariableOK(prog, pc, o) /\ Instr.op # "funcenter" /\ o.val \in Nat
  <2>1. o \in Variables
    <3>1. o \in Variables \cup Constants \cup {Retval}
      BY OperandIsOK DEF IInv
    <3>2. o # Retval
      BY DEF IsVariable, Retval
    <3>3. ASSUME o \in Constants PROVE FALSE
      <4>1. CASE o.type \in CellTypes
        BY <4>1 DEF IsVariable, CellTypes
      <4>2. CASE o.type \notin CellTypes
        BY <3>3, <4>2 DEF Constants, Cells, CellTypes, Nil, Undef
      <4> QED
        BY <4>1, <4>2
    <3> QED
      BY <3>1, <3>2, <3>3
  <2> QED
    BY <2>1, OperandIsOK DEF IInv, Variables
<1>2. /\ Height \in Int /\ Height >= -1 /\ totalActuals \in Nat
      /\ Low(Depth) \in Int
      /\ Height + totalActuals <= Low(Depth) /\ Low(Depth) <= Floor
  BY <1>1, PushesAreLow
<1>3. /\ Floor \in Int /\ 0 <= Floor /\ Floor < StackSize - 1 /\ StackSize \in Nat
      /\ prog.totalGlobals \in Nat /\ Floor = StackSize - 1 - prog.totalGlobals
  BY ProgramNumbers, WordIsBig DEF IInv, Floor
<1>4. CASE o.type = "global"
  <2>1. Address(o) = StackSize - 1 - o.val /\ o.val < prog.totalGlobals
    BY <1>1, <1>4 DEF Address, VariableOK
  <2>2. Address(o) \in Int /\ Address(o) > Floor /\ Address(o) < StackSize
    BY <1>1, <1>3, <2>1
  <2>3. \A k \in 1..Depth : Address(o) \notin activations[k].base + 1..activations[k].base + 4
    <3> TAKE k \in 1..Depth
    <3> QED
      BY <1>3, <2>2, EnvironmentIsHigh
  <2> QED
    BY <1>2, <1>3, <1>4, <2>2, <2>3 DEF InStack, Addresses, CellsOfKind
<1>5. CASE o.type \in {"local", "formal"}
  <2>1. Owner(prog, pc) # Main
    BY <1>1, <1>5 DEF VariableOK
  <2>2. Depth > 0 /\ Depth \in 1..Depth /\ Owner(prog, pc) = activations[Depth].func
    BY <2>1, DepthIsNat DEF IInv, FrameCurrent, CurrentFunc
  <2>3. NumActuals = activations[Depth].nargs /\ topsp = activations[Depth].base
    BY <2>2, NumActualsIsRecorded
  <2>4. /\ activations[Depth].base \in Nat /\ activations[Depth].nargs \in Nat
        /\ Low(Depth) <= activations[Depth].base
        /\ activations[Depth].base + 4 + activations[Depth].nargs <= Floor
    BY <2>2, ActivationFields, NewestFrameIsLowest, WordIsBig DEF IInv, Addresses
  <2>5. CASE o.type = "local"
    <3>1. Address(o) = activations[Depth].base - o.val
      BY <2>3, <2>5 DEF Address
    <3>2. Low(Depth) = activations[Depth].base - LocalsOf(prog, Owner(prog, pc))
      BY <2>2, LowIsInt DEF IInv
    <3>3. LocalsOf(prog, Owner(prog, pc)) \in Nat /\ o.val < LocalsOf(prog, Owner(prog, pc))
      BY <1>1, <2>2, <2>5, LocalsAreNat, ActivationFields DEF IInv, VariableOK
    <3>4. Address(o) \in Int /\ Address(o) > Low(Depth) /\ Address(o) <= activations[Depth].base
      BY <1>1, <2>4, <3>1, <3>2, <3>3
    <3>5. \A k \in 1..Depth : activations[Depth].base <= activations[k].base /\ activations[k].base \in Nat
      <4> TAKE k \in 1..Depth
      <4>1. activations[k].base \in Nat
        BY EnvironmentIsHigh
      <4>2. k < Depth => activations[Depth].base + 4 + activations[Depth].nargs <= activations[k].base
        BY NewestFrameIsLowest DEF IInv
      <4>3. k = Depth \/ k < Depth
        BY <2>2, DepthIsNat DEF IInv
      <4> QED
        BY <2>4, <4>1, <4>2, <4>3
    <3>6. \A k \in 1..Depth : Address(o) \notin activations[k].base + 1..activations[k].base + 4
      BY <2>4, <3>4, <3>5
    <3> QED
      BY <1>2, <1>3, <2>4, <2>5, <3>4, <3>6 DEF InStack, Addresses, CellsOfKind
  <2>6. CASE o.type = "formal"
    <3>1. Address(o) = activations[Depth].base + 5 + o.val /\ o.val < activations[Depth].nargs
      BY <1>1, <2>3, <2>4, <2>6 DEF Address, StackEnvSize, Missing
    <3>2. /\ Address(o) \in Int
          /\ Address(o) > activations[Depth].base + 4
          /\ Address(o) <= activations[Depth].base + 4 + activations[Depth].nargs
      BY <1>1, <2>4, <3>1
    <3>3. \A k \in 1..Depth : Address(o) \notin activations[k].base + 1..activations[k].base + 4
      <4> TAKE k \in 1..Depth
      <4>1. activations[k].base \in Nat
        BY EnvironmentIsHigh
      <4>2. k < Depth => activations[Depth].base + 4 + activations[Depth].nargs <= activations[k].base
        BY NewestFrameIsLowest DEF IInv
      <4>3. k = Depth \/ k < Depth
        BY <2>2, DepthIsNat DEF IInv
      <4> QED
        BY <2>4, <3>2, <4>1, <4>2, <4>3
    <3> QED
      BY <1>2, <1>3, <2>4, <2>6, <3>2, <3>3 DEF InStack, Addresses, CellsOfKind
  <2> QED
    BY <1>5, <2>5, <2>6
<1> QED
  BY <1>4, <1>5 DEF IsVariable

-----------------------------------------------------------------------------
(* Values. *)

MyCells == CellsOf(prog, Len(tables))

LEMMA TablesAreTables ==
  ASSUME TypeOK
  PROVE  /\ Len(tables) \in Nat /\ DOMAIN tables = 1..Len(tables)
         /\ \A i \in 1..Len(tables) : IsTable(tables[i], MyCells)
<1>1. tables \in Seq({tables[i] : i \in DOMAIN tables})
  BY DEF TypeOK
<1>2. Len(tables) \in Nat /\ DOMAIN tables = 1..Len(tables)
  BY <1>1, LenProperties
<1> QED
  BY <1>2 DEF TypeOK, MyCells

LEMMA ConstantIsCell ==
  ASSUME NEW p, NEW n, NEW o \in Constants, o.type = "userfunc" => o.funcVal \in Funcs(p)
  PROVE  o \in CellsOf(p, n) /\ o.type \in CellTypes
<1>1. o.type # "table"
  BY DEF Constants, Cells, Nil, Undef
<1>2. o \in Cells
  BY DEF Constants
<1>3. o.type \in CellTypes
  BY <1>2 DEF Cells, CellTypes, Nil, Undef
<1> QED
  BY <1>1, <1>2, <1>3 DEF CellsOf

LEMMA ValueIsCell ==
  ASSUME IInv, outcome = "running", pc \in Code(prog), NEW o \in ReadOperands(Instr)
  PROVE  Value(o) \in MyCells
<1>1. o \in Variables \cup Constants
  BY OperandIsOK DEF IInv
<1>2. CASE o \in Variables
  <2>1. IsVariable(o)
    BY <1>2 DEF Variables, IsVariable
  <2>2. CASE Missing(o)
    BY <2>2, BlankIsCell DEF Value, MyCells
  <2>3. CASE ~ Missing(o)
    <3>1. Address(o) \in Addresses
      BY <2>1, <2>3, OperandAddress DEF InStack
    <3> QED
      BY <2>1, <2>3, <3>1 DEF Value, IInv, TypeOK, MyCells
  <2> QED
    BY <2>2, <2>3
<1>3. CASE o \in Constants
  <2>1. o.type = "userfunc" => o.funcVal \in Funcs(prog)
    BY ProgramIsWellFormed DEF IInv, WellFormed, CalleesOK, Instr
  <2>2. o \in MyCells /\ o.type \in CellTypes
    BY <1>3, <2>1, ConstantIsCell DEF MyCells
  <2>3. o.type \notin {"global", "local", "formal", "retval"}
    BY <2>2 DEF CellTypes
  <2> QED
    BY <2>2, <2>3 DEF Value, Missing, IsVariable
<1> QED
  BY <1>1, <1>2, <1>3

LEMMA RangeSequence ==
  ASSUME NEW s, NEW n \in Nat, s = [i \in 1..n |-> s[i]]
  PROVE  s \in Seq({s[i] : i \in DOMAIN s}) /\ Len(s) = n
<1> DEFINE R == {s[i] : i \in DOMAIN s}
<1>1. DOMAIN s = 1..n /\ \A i \in 1..n : s[i] \in R
  OBVIOUS
<1> HIDE DEF R
<1>2. s \in [1..n -> R]
  BY <1>1
<1>3. s \in Seq(R)
  BY <1>2, SeqDef
<1>4. Len(s) = n
  BY <1>1, <1>3, LenProperties
<1> QED
  BY <1>3, <1>4 DEF R

\* Cells stay cells when tables are created.
LEMMA CellsStay ==
  ASSUME TypeOK, UNCHANGED prog, Len(tables') \in Nat, Len(tables) <= Len(tables')
  PROVE  MyCells \subseteq MyCells'
BY CellsGrow, TablesAreTables DEF MyCells

LEMMA StoreKeepsType ==
  ASSUME IInv, outcome = "running", pc \in Code(prog), NEW o \in Destinations(Instr),
         UNCHANGED prog, Len(tables') \in Nat, Len(tables) <= Len(tables'),
         NEW c \in MyCells', Store(o, c)
  PROVE  /\ stack' \in [Addresses -> MyCells'] /\ retval_reg' \in MyCells'
         /\ \A k \in 1..Depth : \A x \in activations[k].base + 1..activations[k].base + 4 :
               stack'[x] = stack[x]
<1>1. MyCells \subseteq MyCells'
  BY CellsStay DEF IInv
<1>2. stack \in [Addresses -> MyCells'] /\ retval_reg \in MyCells'
  BY <1>1 DEF IInv, TypeOK, MyCells
<1>3. stack' \in [Addresses -> MyCells'] /\ retval_reg' \in MyCells'
  BY <1>2 DEF Store
<1>4. ASSUME NEW k \in 1..Depth, NEW x \in activations[k].base + 1..activations[k].base + 4
      PROVE  stack'[x] = stack[x]
  <2>1. CASE IsVariable(o) /\ ~ Missing(o)
    <3>1. Address(o) # x
      BY <2>1, OperandAddress
    <3>2. stack' = [stack EXCEPT ![Address(o)] = c]
      BY <2>1 DEF Store
    <3>3. stack = [a \in Addresses |-> stack[a]]
      BY DEF IInv, TypeOK
    <3> QED
      BY <3>1, <3>2, <3>3
  <2>2. CASE ~ (IsVariable(o) /\ ~ Missing(o))
    BY <2>2 DEF Store
  <2> QED
    BY <2>1, <2>2
<1> QED
  BY <1>3, <1>4

LEMMA TablesStay ==
  ASSUME TypeOK, UNCHANGED <<prog, tables>>
  PROVE  /\ tables' \in Seq({tables'[i] : i \in DOMAIN tables'})
         /\ \A i \in DOMAIN tables' : IsTable(tables'[i], MyCells')
         /\ Len(tables') \in Nat /\ Len(tables) <= Len(tables')
         /\ MyCells' = MyCells
BY TablesAreTables DEF TypeOK, MyCells

LEMMA TableAppended ==
  ASSUME TypeOK, UNCHANGED prog, NEW t, tables' = Append(tables, t), IsTable(t, MyCells)
  PROVE  /\ tables' \in Seq({tables'[i] : i \in DOMAIN tables'})
         /\ \A i \in DOMAIN tables' : IsTable(tables'[i], MyCells')
         /\ Len(tables') = Len(tables) + 1
<1> DEFINE S == {tables[i] : i \in DOMAIN tables} \cup {t}
<1>1. tables \in Seq({tables[i] : i \in DOMAIN tables})
  BY DEF TypeOK
<1>2. tables \in Seq(S) /\ t \in S
  BY <1>1, SeqMonotonic
<1>3. /\ tables' \in Seq(S) /\ Len(tables') = Len(tables) + 1
      /\ \A i \in 1..Len(tables) + 1 : tables'[i] = IF i <= Len(tables) THEN tables[i] ELSE t
  <2> HIDE DEF S
  <2> QED
    BY <1>2, AppendProperties
<1>4. Len(tables) \in Nat /\ DOMAIN tables' = 1..Len(tables) + 1
  <2> HIDE DEF S
  <2> QED
    BY <1>3, LenProperties, TablesAreTables
<1>5. tables' \in Seq({tables'[i] : i \in DOMAIN tables'})
  <2>1. tables' = [i \in 1..Len(tables') |-> tables'[i]] /\ Len(tables') \in Nat
    <3> HIDE DEF S
    <3> QED
      BY <1>3, LenProperties
  <2> QED
    BY <2>1, RangeSequence
<1>6. ASSUME NEW i \in DOMAIN tables'
      PROVE  IsTable(tables'[i], MyCells')
  <2>1. MyCells \subseteq MyCells'
    BY <1>3, <1>4, CellsStay
  <2>2. IsTable(tables'[i], MyCells)
    BY <1>3, <1>4, TablesAreTables
  <2> QED
    BY <2>1, <2>2, TableGrows
<1> QED
  BY <1>3, <1>5, <1>6

LEMMA TableChanged ==
  ASSUME TypeOK, UNCHANGED prog, NEW n \in 1..Len(tables), NEW t, IsTable(t, MyCells),
         tables' = [tables EXCEPT ![n] = t]
  PROVE  /\ tables' \in Seq({tables'[i] : i \in DOMAIN tables'})
         /\ \A i \in DOMAIN tables' : IsTable(tables'[i], MyCells')
         /\ Len(tables') = Len(tables)
<1>1. /\ Len(tables) \in Nat /\ DOMAIN tables' = 1..Len(tables)
      /\ \A i \in 1..Len(tables) : tables'[i] = IF i = n THEN t ELSE tables[i]
      /\ tables' = [i \in 1..Len(tables) |-> tables'[i]]
  <2>1. Len(tables) \in Nat /\ tables = [i \in 1..Len(tables) |-> tables[i]]
    BY TablesAreTables, LenProperties DEF TypeOK
  <2> QED
    BY <2>1
<1>2. tables' \in Seq({tables'[i] : i \in DOMAIN tables'}) /\ Len(tables') = Len(tables)
  BY ONLY <1>1, RangeSequence
<1>3. MyCells' = MyCells
  BY <1>2 DEF MyCells
<1>4. \A i \in DOMAIN tables' : IsTable(tables'[i], MyCells')
  BY <1>1, <1>3, TablesAreTables
<1> QED
  BY <1>2, <1>4

-----------------------------------------------------------------------------
(* Kinds of steps. *)

\* A step leaves the environments of the active calls alone.
EnvironmentsKept ==
  \A k \in 1..Depth : \A x \in activations[k].base + 1..activations[k].base + 4 :
    stack'[x] = stack[x]

LEMMA LowCellIsOutside ==
  ASSUME IInv, NEW a \in Int, a <= Low(Depth), NEW c, stack' = [stack EXCEPT ![a] = c]
  PROVE  EnvironmentsKept
<1> SUFFICES ASSUME NEW k \in 1..Depth, NEW x \in activations[k].base + 1..activations[k].base + 4
             PROVE  stack'[x] = stack[x]
  BY DEF EnvironmentsKept
<1>1. a # x
  BY EnvironmentIsHigh
<1>2. stack = [b \in Addresses |-> stack[b]]
  BY DEF IInv, TypeOK
<1> QED
  BY <1>1, <1>2

LEMMA FramesStay ==
  ASSUME IInv, UNCHANGED <<prog, activations>>, EnvironmentsKept
  PROVE  /\ prog' \in Programs /\ HistoryOK' /\ FramesIntact' /\ FramesDisjoint'
         /\ Depth' = Depth /\ Low(Depth)' = Low(Depth) /\ CurrentFunc' = CurrentFunc
<1>1. Depth' = Depth /\ Floor' = Floor /\ prog' \in Programs
  BY DEF IInv, Depth, Floor
<1>2. HistoryOK'
  BY <1>1 DEF IInv, HistoryOK, FuncBelow, BaseBelow, Addresses
<1>3. FramesDisjoint'
  BY <1>1 DEF IInv, FramesDisjoint, Low
<1>4. FramesIntact'
  <2> SUFFICES ASSUME NEW k \in 1..Depth
               PROVE  \A d \in 1..4 : stack'[activations[k].base + d] = stack[activations[k].base + d]
    BY <1>1 DEF IInv, FramesIntact, SavedPcOffset, SavedTopOffset, SavedTopSpOffset, NumActualsOffset
  <2>1. activations[k].base \in Int
    BY EnvironmentIsHigh
  <2> QED
    BY <2>1 DEF EnvironmentsKept
<1> QED
  BY <1>1, <1>2, <1>3, <1>4 DEF Low, CurrentFunc

LEMMA StoppingStep ==
  ASSUME IInv, UNCHANGED <<prog, activations>>, EnvironmentsKept, TypeOK', outcome' # "running"
  PROVE  IInv'
BY FramesStay DEF IInv, FrameCurrent, PushesPending

LEMMA InFrameStep ==
  ASSUME IInv, outcome = "running", pc \in Code(prog),
         Instr.op \notin {"pusharg", "call", "funcenter", "funcexit"},
         UNCHANGED <<prog, top, topsp, totalActuals, activations>>,
         EnvironmentsKept, TypeOK', pc' \in Succ(prog, pc)
  PROVE  IInv'
<1>1. totalActuals = 0
  BY DEF IInv, PushesPending, TypeOK
<1>2. ~ Entering /\ ~ Entering'
  BY SuccessorStaysInFunction DEF IInv, Entering, Instr, Code
<1>3. Owner(prog, pc') = Owner(prog, pc)
  BY SuccessorStaysInFunction DEF IInv
<1>4. /\ prog' \in Programs /\ HistoryOK' /\ FramesIntact' /\ FramesDisjoint'
      /\ Depth' = Depth /\ Low(Depth)' = Low(Depth) /\ CurrentFunc' = CurrentFunc
  BY FramesStay
<1>5. FrameCurrent'
  BY <1>2, <1>3, <1>4 DEF IInv, FrameCurrent, Height, Floor
<1> QED
  BY <1>1, <1>4, <1>5 DEF IInv, PushesPending

\* A step inside a frame that stores one cell, or stops.
LEMMA StoringStep ==
  ASSUME IInv, outcome = "running", pc \in Code(prog),
         Instr.op \notin {"pusharg", "call", "funcenter", "funcexit"},
         UNCHANGED <<prog, top, topsp, totalActuals, activations>>,
         NEW o \in Destinations(Instr), NEW c \in MyCells', Store(o, c),
         pc' = pc + 1, outcome' \in Outcomes,
         tables' \in Seq({tables'[i] : i \in DOMAIN tables'}),
         \A i \in DOMAIN tables' : IsTable(tables'[i], MyCells'),
         Len(tables') \in Nat, Len(tables) <= Len(tables')
  PROVE  IInv'
<1>1. pc' \in Succ(prog, pc) /\ pc' \in 0..prog.codeSize
  <2>1. pc + 1 \in Succ(prog, pc)
    BY NextIsSuccessor DEF IInv, Destinations, ArithOps
  <2> QED
    BY <2>1, SuccessorStaysInFunction DEF IInv
<1>2. /\ stack' \in [Addresses -> MyCells'] /\ retval_reg' \in MyCells'
      /\ EnvironmentsKept
  BY StoreKeepsType DEF EnvironmentsKept
<1>3. TypeOK'
  BY <1>1, <1>2 DEF IInv, TypeOK, MyCells, Addresses
<1> QED
  BY <1>1, <1>2, <1>3, InFrameStep

\* A step that only moves the program counter, or stops.
LEMMA JumpingStep ==
  ASSUME IInv, outcome = "running", pc \in Code(prog),
         Instr.op \notin {"pusharg", "call", "funcenter", "funcexit"},
         UNCHANGED <<prog, stack, top, topsp, totalActuals, retval_reg, tables, activations>>,
         outcome' \in Outcomes, pc' \in Succ(prog, pc)
  PROVE  IInv'
<1>1. pc' \in 0..prog.codeSize
  BY SuccessorStaysInFunction DEF IInv
<1>2. TypeOK'
  BY <1>1 DEF IInv, TypeOK, Addresses
<1>3. EnvironmentsKept
  BY DEF EnvironmentsKept
<1> QED
  BY <1>2, <1>3, InFrameStep

\* A step that only sets executionFinished.
LEMMA StandingStep ==
  ASSUME IInv, UNCHANGED <<prog, stack, registers, retval_reg, tables, activations>>,
         outcome' \in Outcomes \ {"running"}
  PROVE  IInv'
<1>1. TypeOK'
  BY DEF IInv, TypeOK, Addresses, registers
<1>2. EnvironmentsKept
  BY DEF EnvironmentsKept
<1> QED
  BY <1>1, <1>2, StoppingStep

-----------------------------------------------------------------------------
(* Instructions inside a frame. *)

LEMMA Fetched ==
  ASSUME IInv, NEW ops, Fetch(ops)
  PROVE  outcome = "running" /\ pc \in Code(prog) /\ Instr.op \in ops
BY ProgramNumbers DEF IInv, TypeOK, Fetch, Code

LEMMA TranslatedOutcome ==
  ASSUME NEW operands, Translated(operands)
  PROVE  outcome' \in Outcomes
BY DEF Translated, Outcomes

LEMMA ArithIsInt ==
  ASSUME NEW op \in ArithOps, NEW a \in Int, NEW b \in Int, op \in {"div", "mod"} => b # 0
  PROVE  ArithResult(op, a, b) \in Int
<1>1. CASE op \in {"add", "sub", "mul"}
  BY <1>1 DEF ArithResult
<1>2. CASE op \in {"div", "mod"}
  <2>1. Abs(a) \in Nat /\ Abs(b) \in Nat /\ Abs(b) > 0
    BY <1>2 DEF Abs
  <2>2. Abs(a) \div Abs(b) \in Int
    BY <2>1
  <2>3. Quotient(a, b) \in Int
    BY <2>2 DEF Quotient
  <2>4. b * Quotient(a, b) \in Int
    BY <2>3
  <2> QED
    BY <1>2, <2>3, <2>4 DEF ArithResult
<1> QED
  BY <1>1, <1>2 DEF ArithOps

LEMMA AssignStep == IInv /\ Assign /\ UNCHANGED activations => IInv'
<1> SUFFICES ASSUME IInv, Assign, UNCHANGED activations PROVE IInv'
  OBVIOUS
<1>1. outcome = "running" /\ pc \in Code(prog) /\ Instr.op = "assign"
  BY Fetched DEF Assign
<1>2. Value(Instr.arg1) \in MyCells /\ Instr.result \in Destinations(Instr)
  BY <1>1, ValueIsCell DEF ReadOperands, Destinations
<1> QED
  BY <1>1, <1>2, StoringStep, TablesStay, TranslatedOutcome DEF Assign, IInv

LEMMA ArithmeticStep == IInv /\ Arithmetic /\ UNCHANGED activations => IInv'
<1> SUFFICES ASSUME IInv, Arithmetic, UNCHANGED activations PROVE IInv'
  OBVIOUS
<1> DEFINE a == Value(Instr.arg1)
           b == Value(Instr.arg2)
           c == Number(ArithResult(Instr.op, a.numVal, b.numVal))
<1>1. outcome = "running" /\ pc \in Code(prog) /\ Instr.op \in ArithOps
  BY Fetched DEF Arithmetic
<1>2. Instr.op \notin {"pusharg", "call", "funcenter", "funcexit"}
  BY <1>1 DEF ArithOps
<1>3. a \in MyCells /\ b \in MyCells /\ Instr.result \in Destinations(Instr)
  <2>1. ReadOperands(Instr) = {Instr.arg1, Instr.arg2}
    BY <1>1 DEF ReadOperands, ArithOps
  <2> QED
    BY <1>1, <2>1, ValueIsCell DEF Destinations
<1>4. a.numVal \in Int /\ b.numVal \in Int
  BY <1>3, CellFields, TablesAreTables DEF Arithmetic, ArithDefined, IInv, MyCells
<1>5. c \in MyCells
  BY <1>1, <1>4, ArithIsInt, NumberIsCell DEF Arithmetic, ArithDefined, MyCells
<1>6. Store(Instr.result, c) /\ outcome' \in Outcomes
  BY TranslatedOutcome DEF Arithmetic
<1> HIDE DEF c
<1> QED
  BY <1>1, <1>2, <1>3, <1>5, <1>6, StoringStep, TablesStay DEF Arithmetic, IInv

LEMMA JumpStep ==
  IInv /\ (Jeq \/ Jne \/ NumCmp \/ Jump) /\ UNCHANGED activations => IInv'
<1> SUFFICES ASSUME IInv, Jeq \/ Jne \/ NumCmp \/ Jump, UNCHANGED activations PROVE IInv'
  OBVIOUS
<1>1. outcome = "running" /\ pc \in Code(prog) /\ Instr.op \in JumpOps
  <2>1. Fetch({"jeq"}) \/ Fetch({"jne"}) \/ Fetch(NumCmpOps) \/ Fetch({"jump"})
    BY DEF Jeq, Jne, NumCmp, Jump
  <2> QED
    BY <2>1, Fetched DEF JumpOps
<1>2. outcome' \in Outcomes
  BY TranslatedOutcome DEF Jeq, Jne, NumCmp, Jump, IInv, TypeOK
<1>3. PICK cond : JumpIf(cond) /\ (Instr.op = "jump" => cond = TRUE)
  <2>1. CASE Jump
    BY <2>1 DEF Jump
  <2>2. CASE Jeq \/ Jne \/ NumCmp
    <3>1. Instr.op # "jump"
      BY <2>2 DEF Jeq, Jne, NumCmp, Fetch, NumCmpOps
    <3> QED
      BY <2>2, <3>1 DEF Jeq, Jne, NumCmp
  <2> QED
    BY <2>1, <2>2
<1>4. pc' \in Succ(prog, pc)
  <2>1. Instr.result.val \in Succ(prog, pc)
    BY <1>1, LabelIsSuccessor DEF IInv
  <2>2. Instr.op # "jump" => pc + 1 \in Succ(prog, pc)
    BY <1>1, NextIsSuccessor DEF IInv, JumpOps, NumCmpOps
  <2> QED
    BY <1>3, <2>1, <2>2 DEF JumpIf
<1>5. Instr.op \notin {"pusharg", "call", "funcenter", "funcexit"}
  BY <1>1 DEF JumpOps, NumCmpOps
<1> QED
  BY <1>1, <1>2, <1>3, <1>4, <1>5, JumpingStep DEF JumpIf

LEMMA NewTableStep == IInv /\ NewTable /\ UNCHANGED activations => IInv'
<1> SUFFICES ASSUME IInv, NewTable, UNCHANGED activations PROVE IInv'
  OBVIOUS
<1>1. outcome = "running" /\ pc \in Code(prog) /\ Instr.op = "newtable"
  BY Fetched DEF NewTable
<1>2. /\ tables' \in Seq({tables'[i] : i \in DOMAIN tables'})
      /\ \A i \in DOMAIN tables' : IsTable(tables'[i], MyCells')
      /\ Len(tables') = Len(tables) + 1 /\ Len(tables) \in Nat
  BY TableAppended, TablesAreTables, EmptyIsTable DEF NewTable, IInv
<1>3. TableRef(Len(tables) + 1) \in MyCells' /\ Instr.result \in Destinations(Instr)
  BY <1>1, <1>2, TableRefIsCell DEF Destinations, MyCells
<1> QED
  BY <1>1, <1>2, <1>3, StoringStep, TranslatedOutcome DEF NewTable, NextTable

LEMMA TableGetElemStep == IInv /\ TableGetElem /\ UNCHANGED activations => IInv'
<1> SUFFICES ASSUME IInv, TableGetElem, UNCHANGED activations PROVE IInv'
  OBVIOUS
<1> DEFINE t == Value(Instr.arg1)
           c == GetElem(tables[t.tableVal], Value(Instr.arg2))
<1>1. outcome = "running" /\ pc \in Code(prog) /\ Instr.op = "tablegetelem"
  BY Fetched DEF TableGetElem
<1>2. t \in MyCells /\ Instr.result \in Destinations(Instr)
  BY <1>1, ValueIsCell DEF ReadOperands, Destinations
<1>3. t.tableVal \in 1..Len(tables)
  BY <1>2, CellFields, TablesAreTables DEF TableGetElem, IInv, MyCells
<1>4. c \in MyCells
  BY <1>3, GetElemIsCell, TablesAreTables, BlankIsCell DEF IInv, MyCells
<1>5. Store(Instr.result, c) /\ outcome' \in Outcomes
  BY TranslatedOutcome DEF TableGetElem
<1> HIDE DEF c
<1> QED
  BY <1>1, <1>2, <1>4, <1>5, StoringStep, TablesStay DEF TableGetElem, IInv

LEMMA TableSetElemStep == IInv /\ TableSetElem /\ UNCHANGED activations => IInv'
<1> SUFFICES ASSUME IInv, TableSetElem, UNCHANGED activations PROVE IInv'
  OBVIOUS
<1> DEFINE t == Value(Instr.result)
           key == Value(Instr.arg1)
           val == Value(Instr.arg2)
           u == SetElem(tables[t.tableVal], key, val)
<1>1. outcome = "running" /\ pc \in Code(prog) /\ Instr.op = "tablesetelem"
  BY Fetched DEF TableSetElem
<1>2. t \in MyCells /\ key \in MyCells /\ val \in MyCells
  BY <1>1, ValueIsCell DEF ReadOperands, ArithOps, NumCmpOps
<1>3. t.tableVal \in 1..Len(tables)
  BY <1>2, CellFields, TablesAreTables DEF TableSetElem, IInv, MyCells
<1>4. IsTable(u, MyCells)
  BY <1>2, <1>3, SetElemIsTable, TablesAreTables, BlankIsCell DEF IInv, MyCells
<1>5. tables' = [tables EXCEPT ![t.tableVal] = u]
  BY <1>3, TablesAreTables DEF TableSetElem, IInv
<1> HIDE DEF u
<1>6. /\ tables' \in Seq({tables'[i] : i \in DOMAIN tables'})
      /\ \A i \in DOMAIN tables' : IsTable(tables'[i], MyCells')
      /\ Len(tables') = Len(tables)
  BY <1>3, <1>4, <1>5, TableChanged DEF TableSetElem, IInv
<1>7. MyCells' = MyCells
  BY <1>6 DEF TableSetElem, MyCells
<1>8. pc' \in Succ(prog, pc) /\ pc' \in 0..prog.codeSize
  BY <1>1, NextIsSuccessor, SuccessorStaysInFunction DEF TableSetElem, IInv
<1>9. TypeOK'
  BY <1>6, <1>7, <1>8, TranslatedOutcome DEF TableSetElem, IInv, TypeOK, MyCells, Addresses
<1>10. EnvironmentsKept
  BY DEF EnvironmentsKept, TableSetElem
<1> QED
  BY <1>1, <1>8, <1>9, <1>10, InFrameStep DEF TableSetElem

LEMMA GetRetvalStep == IInv /\ GetRetval /\ UNCHANGED activations => IInv'
<1> SUFFICES ASSUME IInv, GetRetval, UNCHANGED activations PROVE IInv'
  OBVIOUS
<1>1. outcome = "running" /\ pc \in Code(prog) /\ Instr.op = "getretval"
  BY Fetched DEF GetRetval
<1>2. retval_reg \in MyCells /\ Instr.result \in Destinations(Instr)
  BY <1>1 DEF Destinations, IInv, TypeOK, MyCells
<1> QED
  BY <1>1, <1>2, StoringStep, TablesStay, TranslatedOutcome DEF GetRetval, IInv

\* The steps that only stop the machine.
LEMMA FailingStep ==
  /\ IInv /\ UNCHANGED activations
  /\ \/ ArithmeticError \/ NumCmpError \/ TableError \/ PushArgWild \/ CallWild \/ CallError
     \/ FuncEnterOverflow \/ LibArgumentWild \/ Halt
  => IInv'
BY StandingStep DEF ArithmeticError, NumCmpError, TableError, PushArgWild, CallWild, CallError,
     FuncEnterOverflow, LibArgumentWild, Halt, Fail, Outcomes

-----------------------------------------------------------------------------
(* Arguments and library calls. *)

HeightOf(t) == IF t < StackSize THEN t ELSE t - Word

LEMMA PushArgStep == IInv /\ PushArg /\ UNCHANGED activations => IInv'
<1> SUFFICES ASSUME IInv, PushArg, UNCHANGED activations PROVE IInv'
  OBVIOUS
<1>1. outcome = "running" /\ pc \in Code(prog) /\ Instr.op = "pusharg"
  BY Fetched DEF PushArg
<1>2. /\ Height \in Int /\ Height >= -1 /\ totalActuals \in Nat
      /\ Low(Depth) \in Int
      /\ Height + totalActuals <= Low(Depth) /\ Low(Depth) <= Floor
  BY <1>1, PushesAreLow
<1>3. top \in 0..StackSize - 1 /\ Height = top
  BY WordIsBig DEF PushArg, InStack, Addresses, Height
<1>4. top' \in Addresses \cup {Word - 1} /\ Height' = top - 1
  <2>1. CASE top = 0
    BY <2>1, ModMinusOne, WordIsBig DEF PushArg, Height
  <2>2. CASE top > 0
    <3>1. top - 1 \in 0..Word - 1
      BY <1>3, <2>2, WordIsBig
    <3>2. top' = top - 1
      BY <3>1, ModSmall DEF PushArg
    <3> QED
      BY <1>3, <2>2, <3>2, WordIsBig DEF Addresses, Height
  <2> QED
    BY <1>3, <2>1, <2>2
<1>5. pc + 1 \in Code(prog) /\ prog.code[pc + 1].op \in {"pusharg", "call"}
  BY <1>1, ProgramIsWellFormed DEF IInv, WellFormed, PushesOK, Instr
<1>6. Owner(prog, pc + 1) = Owner(prog, pc) /\ pc + 1 \in 0..prog.codeSize
  BY <1>1, NextIsSuccessor, SuccessorStaysInFunction DEF IInv
<1>7. EnvironmentsKept
  <2>1. top \in Int /\ top <= Low(Depth)
    BY <1>2, <1>3
  <2>2. stack' = [stack EXCEPT ![top] = Value(Instr.result)]
    BY DEF PushArg
  <2> QED
    BY <2>1, <2>2, LowCellIsOutside
<1>8. Value(Instr.result) \in MyCells
  BY <1>1, ValueIsCell DEF ReadOperands, ArithOps, NumCmpOps
<1>9. TypeOK'
  <2>1. stack' \in [Addresses -> MyCells]
    BY <1>8 DEF PushArg, IInv, TypeOK, MyCells
  <2> QED
    BY <1>4, <1>6, <2>1, TranslatedOutcome, TablesStay DEF PushArg, IInv, TypeOK, MyCells, Addresses
<1>10. /\ prog' \in Programs /\ HistoryOK' /\ FramesIntact' /\ FramesDisjoint'
       /\ Depth' = Depth /\ Low(Depth)' = Low(Depth) /\ CurrentFunc' = CurrentFunc
  BY <1>7, FramesStay DEF PushArg
<1>11. ~ Entering /\ ~ Entering'
  BY <1>1, <1>5 DEF Entering, Instr, PushArg
<1>12. FrameCurrent'
  <2>1. Height' + totalActuals' = Height + totalActuals
    BY <1>2, <1>3, <1>4 DEF PushArg
  <2>2. UNCHANGED <<prog, topsp, activations>> /\ pc' = pc + 1
    BY DEF PushArg
  <2>3. Owner(prog', pc') = CurrentFunc'
    BY <1>1, <1>6, <1>10, <2>2 DEF IInv, FrameCurrent
  <2>4. topsp' = IF activations' = <<>> THEN Floor' ELSE activations'[Depth'].base
    BY <1>1, <1>10, <2>2 DEF IInv, FrameCurrent, Floor
  <2> QED
    BY <1>2, <1>10, <1>11, <2>1, <2>3, <2>4 DEF FrameCurrent
<1>13. PushesPending'
  BY <1>5 DEF PushesPending, PushArg, Instr
<1> QED
  BY <1>9, <1>10, <1>12, <1>13 DEF IInv

\* The machine at a call, the called table pushed if there is one.
LEMMA AtCall ==
  ASSUME IInv, Fetch({"call"}), Functor => InStack(top)
  PROVE  /\ CallStack \in [Addresses -> MyCells]
         /\ CallTop \in Addresses \cup {Word - 1}
         /\ HeightOf(CallTop) \in Int /\ HeightOf(CallTop) >= -1 /\ Actuals \in Nat
         /\ HeightOf(CallTop) + Actuals <= Low(Depth)
         /\ Low(Depth) \in Int /\ Low(Depth) <= Floor
         /\ stack' = CallStack => EnvironmentsKept
         /\ pc + 1 \in 0..prog.codeSize /\ Owner(prog, pc + 1) = CurrentFunc
         /\ pc + 1 \in Code(prog) => prog.code[pc + 1].op # "funcenter"
<1>1. outcome = "running" /\ pc \in Code(prog) /\ Instr.op = "call"
  BY Fetched
<1>2. /\ Height \in Int /\ Height >= -1 /\ totalActuals \in Nat
      /\ Low(Depth) \in Int
      /\ Height + totalActuals <= Low(Depth) /\ Low(Depth) <= Floor
  BY <1>1, PushesAreLow
<1>3. Value(Instr.result) \in MyCells
  BY <1>1, ValueIsCell DEF ReadOperands, ArithOps, NumCmpOps
<1>4. pc + 1 \in Succ(prog, pc)
  BY <1>1, NextIsSuccessor DEF IInv
<1>5. /\ pc + 1 \in 0..prog.codeSize /\ Owner(prog, pc + 1) = CurrentFunc
      /\ pc + 1 \in Code(prog) => prog.code[pc + 1].op # "funcenter"
  BY <1>1, <1>4, SuccessorStaysInFunction DEF IInv, FrameCurrent
<1>6. CASE Functor
  <2>1. top \in 0..StackSize - 1 /\ Height = top
    BY <1>6, WordIsBig DEF InStack, Addresses, Height
  <2>2. CallTop \in Addresses \cup {Word - 1} /\ HeightOf(CallTop) = top - 1
    <3>1. CASE top = 0
      BY <1>6, <3>1, ModMinusOne, WordIsBig DEF CallTop, HeightOf
    <3>2. CASE top > 0
      <4>1. top - 1 \in 0..Word - 1
        BY <2>1, <3>2, WordIsBig
      <4>2. CallTop = top - 1
        BY <1>6, <4>1, ModSmall DEF CallTop
      <4> QED
        BY <2>1, <3>2, <4>2, WordIsBig DEF Addresses, HeightOf
    <3> QED
      BY <2>1, <3>1, <3>2
  <2>3. Actuals = totalActuals + 1
    BY <1>6 DEF Actuals
  <2>4. CallStack = [stack EXCEPT ![top] = Value(Instr.result)]
    BY <1>6 DEF CallStack
  <2>5. CallStack \in [Addresses -> MyCells]
    BY <1>3, <2>4 DEF IInv, TypeOK, MyCells
  <2>6. stack' = CallStack => EnvironmentsKept
    <3>1. top \in Int /\ top <= Low(Depth)
      BY <1>2, <2>1
    <3> QED
      BY <2>4, <3>1, LowCellIsOutside
  <2> QED
    BY <1>2, <1>5, <2>1, <2>2, <2>3, <2>5, <2>6
<1>7. CASE ~ Functor
  <2>1. CallTop = top /\ Actuals = totalActuals /\ CallStack = stack
    BY <1>7 DEF CallTop, Actuals, CallStack
  <2>2. HeightOf(CallTop) = Height
    BY <2>1 DEF HeightOf, Height
  <2>3. stack' = CallStack => EnvironmentsKept
    BY <2>1 DEF EnvironmentsKept
  <2> QED
    BY <1>2, <1>5, <2>1, <2>2, <2>3 DEF IInv, TypeOK, MyCells
<1> QED
  BY <1>6, <1>7

LEMMA CalleeIsCell ==
  ASSUME IInv, Fetch({"call"})
  PROVE  Callee \in MyCells
<1>1. outcome = "running" /\ pc \in Code(prog) /\ Instr.op = "call"
  BY Fetched
<1>2. Value(Instr.result) \in MyCells
  BY <1>1, ValueIsCell DEF ReadOperands, ArithOps, NumCmpOps
<1>3. ASSUME Functor PROVE Callee \in MyCells
  <2>1. Value(Instr.result).tableVal \in 1..Len(tables)
    BY <1>2, <1>3, CellFields, TablesAreTables DEF Functor, IInv, MyCells
  <2> QED
    BY <1>3, <2>1, GetElemIsCell, TablesAreTables, BlankIsCell DEF Callee, IInv, MyCells
<1> QED
  BY <1>2, <1>3 DEF Callee

\* A library function that returns.
LEMMA LibReturnStep ==
  ASSUME IInv, Fetch({"call"}), Functor => InStack(top), LibReturn, UNCHANGED activations,
         retval_reg' \in MyCells',
         tables' \in Seq({tables'[i] : i \in DOMAIN tables'}),
         \A i \in DOMAIN tables' : IsTable(tables'[i], MyCells'),
         Len(tables') \in Nat, Len(tables) <= Len(tables')
  PROVE  IInv'
<1>1. /\ outcome = "running" /\ pc \in Code(prog) /\ Instr.op = "call"
  BY Fetched
<1>2. /\ CallStack \in [Addresses -> MyCells]
      /\ CallTop \in Addresses \cup {Word - 1}
      /\ HeightOf(CallTop) \in Int /\ HeightOf(CallTop) >= -1 /\ Actuals \in Nat
      /\ HeightOf(CallTop) + Actuals <= Low(Depth)
      /\ Low(Depth) \in Int /\ Low(Depth) <= Floor
      /\ stack' = CallStack => EnvironmentsKept
      /\ pc + 1 \in 0..prog.codeSize /\ Owner(prog, pc + 1) = CurrentFunc
      /\ pc + 1 \in Code(prog) => prog.code[pc + 1].op # "funcenter"
  BY AtCall
<1>3. MyCells \subseteq MyCells'
  BY CellsStay DEF IInv, LibReturn
<1>4. TypeOK'
  BY <1>2, <1>3 DEF LibReturn, IInv, TypeOK, MyCells, Addresses
<1>5. /\ prog' \in Programs /\ HistoryOK' /\ FramesIntact' /\ FramesDisjoint'
      /\ Depth' = Depth /\ Low(Depth)' = Low(Depth) /\ CurrentFunc' = CurrentFunc
  BY <1>2, FramesStay DEF LibReturn
<1>6. FrameCurrent'
  <2>1. UNCHANGED <<prog, topsp, activations>> /\ pc' = pc + 1 /\ top' = CallTop /\ totalActuals' = 0
    BY DEF LibReturn
  <2>2. ~ Entering'
    BY <1>2, <2>1 DEF Entering, Instr
  <2>3. Height' = HeightOf(CallTop)
    BY <2>1 DEF Height, HeightOf
  <2>4. topsp' = IF activations' = <<>> THEN Floor' ELSE activations'[Depth'].base
    BY <1>1, <1>5, <2>1 DEF IInv, FrameCurrent, Floor
  <2> QED
    BY <1>2, <1>5, <2>1, <2>2, <2>3, <2>4 DEF FrameCurrent
<1>7. PushesPending'
  BY DEF PushesPending, LibReturn
<1> QED
  BY <1>4, <1>5, <1>6, <1>7 DEF IInv

LEMMA CallsAreFetched ==
  ASSUME NEW t, Calls(t)
  PROVE  Fetch({"call"}) /\ (Functor => InStack(top)) /\ Callee.type = t
BY DEF Calls

\* The argument of a unary library function is a cell of the stack.
LEMMA LibArgIsCell ==
  ASSUME IInv, Fetch({"call"}), Functor => InStack(top), Actuals = 1
  PROVE  LibArg \in MyCells
<1>1. /\ CallStack \in [Addresses -> MyCells]
      /\ CallTop \in Addresses \cup {Word - 1}
      /\ HeightOf(CallTop) + Actuals <= Low(Depth)
      /\ Low(Depth) \in Int /\ Low(Depth) <= Floor
  BY AtCall
<1>2. (CallTop + 1) % Word \in Addresses
  <2>1. CASE CallTop = Word - 1
    <3>1. Word % Word = 0
      BY WordIsBig
    <3> QED
      BY <1>1, <2>1, <3>1, ProgramNumbers, WordIsBig DEF IInv, Addresses
  <2>2. CASE CallTop \in Addresses
    <3>1. CallTop + 1 \in 0..StackSize - 1
      BY <1>1, <2>2, ProgramNumbers, WordIsBig DEF IInv, Addresses, HeightOf
    <3>2. (CallTop + 1) % Word = CallTop + 1
      BY <3>1, ModSmall, WordIsBig
    <3> QED
      BY <3>1, <3>2 DEF Addresses
  <2> QED
    BY <1>1, <2>1, <2>2
<1> QED
  BY <1>1, <1>2 DEF LibArg

LibCalled == Fetch({"call"}) /\ (Functor => InStack(top))

LEMMA LibIsCalled ==
  /\ Calls("libfunc") \/ Calls("string") => LibCalled
  /\ \A names : AtLib(names) => LibCalled
BY CallsAreFetched DEF AtLib, LibCalled

LEMMA LibAnswersCell ==
  ASSUME IInv, LibCalled, LibReturn, UNCHANGED <<tables, activations>>, retval_reg' \in MyCells
  PROVE  IInv'
<1>1. UNCHANGED <<prog, tables>>
  BY DEF LibReturn
<1> QED
  BY <1>1, LibReturnStep, TablesStay DEF LibCalled, IInv

LEMMA LibAnswersTable ==
  ASSUME IInv, LibCalled, LibReturn, UNCHANGED activations,
         NEW t, IsTable(t, MyCells), tables' = Append(tables, t),
         retval_reg' = TableRef(Len(tables) + 1)
  PROVE  IInv'
<1>1. /\ tables' \in Seq({tables'[i] : i \in DOMAIN tables'})
      /\ \A i \in DOMAIN tables' : IsTable(tables'[i], MyCells')
      /\ Len(tables') = Len(tables) + 1 /\ Len(tables) \in Nat
  BY TableAppended, TablesAreTables DEF LibReturn, IInv
<1>2. TableRef(Len(tables) + 1) \in MyCells'
  BY <1>1, TableRefIsCell DEF MyCells
<1> QED
  BY <1>1, <1>2, LibReturnStep DEF LibCalled

LEMMA LibTableIsTable ==
  ASSUME IInv, LibCalled, Actuals = 1, LibArg.type = "table"
  PROVE  IsTable(tables[LibArg.tableVal], MyCells)
<1>1. LibArg \in MyCells
  BY LibArgIsCell DEF LibCalled
<1>2. LibArg.tableVal \in 1..Len(tables)
  BY <1>1, CellFields, TablesAreTables DEF IInv, MyCells
<1> QED
  BY <1>2, TablesAreTables DEF IInv

\* The cell above the frame pointer: the recorded argument count, or, outside
\* every function, a global.
LEMMA CellAboveTopSp ==
  ASSUME IInv, outcome = "running"
  PROVE  topsp + NumActualsOffset \in Addresses
<1>1. CASE Depth = 0
  <2>1. topsp = Floor
    BY <1>1, DepthIsNat DEF IInv, FrameCurrent
  <2> QED
    BY <2>1, ProgramNumbers, WordIsBig DEF IInv, Addresses, NumActualsOffset
<1>2. CASE Depth > 0
  <2>1. Depth \in 1..Depth /\ topsp = activations[Depth].base
    BY <1>2, DepthIsNat, NumActualsIsRecorded DEF IInv
  <2>2. activations[Depth].base \in Nat /\ activations[Depth].base + 4 <= Floor
    BY <2>1, EnvironmentIsHigh
  <2> QED
    BY <2>1, <2>2, ProgramNumbers, WordIsBig DEF IInv, Addresses, NumActualsOffset
<1> QED
  BY <1>1, <1>2, DepthIsNat DEF IInv

LEMMA LibErrorStep == IInv /\ LibError /\ UNCHANGED activations => IInv'
<1> SUFFICES ASSUME IInv, LibError, UNCHANGED activations PROVE IInv'
  OBVIOUS
<1>1. /\ CallStack \in [Addresses -> MyCells]
      /\ CallTop \in Addresses \cup {Word - 1} /\ Actuals \in Nat
      /\ stack' = CallStack => EnvironmentsKept
      /\ pc + 1 \in 0..prog.codeSize
  BY AtCall, LibIsCalled DEF LibError, LibCalled
<1>2. TypeOK'
  BY <1>1, TablesStay DEF LibError, IInv, TypeOK, MyCells, Addresses, Outcomes
<1> QED
  BY <1>1, <1>2, StoppingStep DEF LibError

LEMMA LibAnswerStep ==
  /\ IInv /\ UNCHANGED activations
  /\ \/ LibPrint \/ LibInput \/ LibTypeof \/ LibTotalArguments \/ LibArgument
     \/ LibStrtonum \/ LibSqrt \/ LibTrigonometry \/ LibObjectTotalMembers
  => IInv'
<1> SUFFICES ASSUME IInv, UNCHANGED activations,
                    \/ LibPrint \/ LibInput \/ LibTypeof \/ LibTotalArguments \/ LibArgument
                    \/ LibStrtonum \/ LibSqrt \/ LibTrigonometry \/ LibObjectTotalMembers
             PROVE  IInv'
  OBVIOUS
<1>1. LibCalled /\ LibReturn /\ UNCHANGED tables
  BY LibIsCalled DEF LibPrint, LibInput, LibTypeof, LibTotalArguments, LibArgument, LibStrtonum,
       LibSqrt, LibTrigonometry, LibObjectTotalMembers
<1>2. CallStack \in [Addresses -> MyCells]
  BY <1>1, AtCall DEF LibCalled
<1>3. \A i \in Int : Number(i) \in MyCells
  BY NumberIsCell DEF MyCells
<1>4. Nil \in MyCells
  BY BlankIsCell DEF MyCells
<1> SUFFICES retval_reg' \in MyCells
  BY <1>1, LibAnswersCell
<1>5. CASE LibPrint
  BY <1>5 DEF LibPrint, IInv, TypeOK, MyCells
<1>6. CASE LibInput
  <2>1. Inputs \subseteq MyCells
    BY AvmAssumption DEF MyCells, CellsOf
  <2> QED
    BY <1>6, <2>1 DEF LibInput
<1>7. CASE LibTypeof
  <2>1. LibArg \in MyCells
    BY <1>1, <1>7, LibArgIsCell DEF LibCalled, LibTypeof, LibDomain, UnaryLibs
  <2>2. LibArg.type \in CellTypes
    BY <2>1, CellFields, TablesAreTables DEF IInv, MyCells
  <2>3. (IF LibArg.type = "libfunc" THEN "libraryfunction" ELSE LibArg.type) \in Strings
    BY <2>2, StringsAssumption
  <2> QED
    BY <1>7, <2>3, StringIsCell DEF LibTypeof, MyCells
<1>8. CASE LibTotalArguments
  <2>1. topsp + NumActualsOffset \in Addresses
    BY <1>1, CellAboveTopSp DEF LibCalled, Fetch
  <2> QED
    BY <1>2, <1>4, <1>8, <2>1 DEF LibTotalArguments
<1>9. CASE LibArgument
  BY <1>2, <1>4, <1>9 DEF LibArgument, InStack
<1>10. CASE LibStrtonum
  BY <1>3, <1>4, <1>10, StringsAssumption DEF LibStrtonum, StrToNum
<1>11. CASE LibSqrt
  BY <1>3, <1>4, <1>11 DEF LibSqrt, SquareRoots
<1>12. CASE LibTrigonometry
  BY <1>3, <1>12 DEF LibTrigonometry
<1>13. CASE LibObjectTotalMembers
  <2>1. IsTable(tables[LibArg.tableVal], MyCells)
    BY <1>1, <1>13, LibTableIsTable DEF LibObjectTotalMembers, LibDomain, UnaryLibs, ObjectLibs
  <2>2. tables[LibArg.tableVal].total \in Int
    BY <2>1, WordIsBig DEF IsTable
  <2> QED
    BY <1>3, <1>13, <2>2 DEF LibObjectTotalMembers
<1> QED
  BY <1>5, <1>6, <1>7, <1>8, <1>9, <1>10, <1>11, <1>12, <1>13

LEMMA LibTableStep ==
  IInv /\ (LibObjectMemberKeys \/ LibObjectCopy) /\ UNCHANGED activations => IInv'
<1> SUFFICES ASSUME IInv, LibObjectMemberKeys \/ LibObjectCopy, UNCHANGED activations PROVE IInv'
  OBVIOUS
<1> DEFINE t == tables[LibArg.tableVal]
<1>1. LibCalled /\ LibReturn /\ retval_reg' = TableRef(Len(tables) + 1)
  BY LibIsCalled DEF LibObjectMemberKeys, LibObjectCopy, NextTable
<1>2. IsTable(t, MyCells)
  BY <1>1, LibTableIsTable DEF LibObjectMemberKeys, LibObjectCopy, LibDomain, UnaryLibs, ObjectLibs
<1>3. CASE LibObjectMemberKeys
  <2>1. PICK order \in KeyOrders(t) :
          tables' = Append(tables,
            [elems |-> [k \in {Number(i) : i \in DOMAIN order} |-> order[k.numVal]],
             total |-> Cardinality(DOMAIN order) % Word])
    BY <1>3 DEF LibObjectMemberKeys
  <2>2. \A i \in Int : Number(i) \in MyCells
    BY NumberIsCell DEF MyCells
  <2>3. IsTable([elems |-> [k \in {Number(i) : i \in DOMAIN order} |-> order[k.numVal]],
                 total |-> Cardinality(DOMAIN order) % Word], MyCells)
    BY <1>2, <2>2, KeyTableIsTable
  <2> QED
    BY <1>1, <2>1, <2>3, LibAnswersTable
<1>4. CASE LibObjectCopy
  BY <1>1, <1>2, <1>4, CopyIsTable, LibAnswersTable DEF LibObjectCopy
<1> QED
  BY <1>3, <1>4

LEMMA CallOverflowStep == IInv /\ CallOverflow /\ UNCHANGED activations => IInv'
<1> SUFFICES ASSUME IInv, CallOverflow, UNCHANGED activations PROVE IInv'
  OBVIOUS
<1>1. /\ CallStack \in [Addresses -> MyCells]
      /\ CallTop \in Addresses \cup {Word - 1} /\ Actuals \in Nat
      /\ stack' = CallStack => EnvironmentsKept
  BY AtCall, CallsAreFetched DEF CallOverflow
<1>2. TypeOK'
  BY <1>1, TablesStay DEF CallOverflow, IInv, TypeOK, MyCells, Addresses, Outcomes
<1> QED
  BY <1>1, <1>2, StoppingStep DEF CallOverflow

-----------------------------------------------------------------------------
(* Calls and returns. *)

LEMMA LowestFrame ==
  ASSUME prog \in Programs, HistoryOK, FramesDisjoint, NEW j \in 0..Depth
  PROVE  Low(Depth) <= Low(j)
<1>1. Low(j) \in Int /\ Low(Depth) \in Int
  BY LowIsInt, DepthIsNat
<1>2. CASE j = Depth
  BY <1>1, <1>2
<1>3. CASE j < Depth
  <2>1. Depth \in 1..Depth /\ j \in 0..Depth - 1
    BY <1>3, DepthIsNat
  <2>2. activations[Depth].base + 4 + activations[Depth].nargs <= Low(j)
    BY <2>1 DEF FramesDisjoint
  <2>3. /\ activations[Depth].base \in Nat /\ activations[Depth].nargs \in Nat
        /\ Low(Depth) <= activations[Depth].base
    BY <2>1, ActivationFields, NewestFrameIsLowest, WordIsBig DEF Addresses
  <2> QED
    BY <1>1, <2>2, <2>3
<1> QED
  BY <1>2, <1>3, DepthIsNat

LEMMA CallStackKeepsFrames ==
  ASSUME IInv, Fetch({"call"}), Functor => InStack(top), NEW x \in Int, x > Low(Depth)
  PROVE  CallStack[x] = stack[x]
<1>1. CASE ~ Functor
  BY <1>1 DEF CallStack
<1>2. CASE Functor
  <2>1. outcome = "running" /\ pc \in Code(prog) /\ Instr.op = "call"
    BY Fetched
  <2>2. /\ Height + totalActuals <= Low(Depth) /\ totalActuals \in Nat
        /\ Low(Depth) \in Int /\ Height \in Int
    BY <2>1, PushesAreLow
  <2>3. top \in Int /\ Height = top
    BY <1>2, WordIsBig DEF InStack, Addresses, Height
  <2>5. top # x
    BY <2>2, <2>3
  <2>6. stack = [b \in Addresses |-> stack[b]]
    BY DEF IInv, TypeOK
  <2> QED
    BY <1>2, <2>5, <2>6 DEF CallStack
<1> QED
  BY <1>1, <1>2

LEMMA CallStackKeepsEnvironments ==
  ASSUME IInv, Fetch({"call"}), Functor => InStack(top),
         NEW k \in 1..Depth, NEW x \in activations[k].base + 1..activations[k].base + 4
  PROVE  CallStack[x] = stack[x]
<1>1. Low(Depth) \in Int /\ Low(Depth) <= activations[k].base /\ activations[k].base \in Nat
  BY EnvironmentIsHigh
<1> QED
  BY <1>1, CallStackKeepsFrames

\* The entry of a called function.
LEMMA EntryOfFunction ==
  ASSUME prog \in Programs, NEW f \in Funcs(prog)
  PROVE  LET a == prog.userFuncs[f].address
         IN  /\ a \in Code(prog) /\ a \in 0..prog.codeSize
             /\ prog.code[a].op = "funcenter" /\ prog.code[a].result = UserFunc(f)
             /\ Owner(prog, a) = f
<1> DEFINE a == prog.userFuncs[f].address
<1>1. a \in Code(prog) /\ prog.codeSize \in Nat
  BY ProgramIsWellFormed DEF WellFormed, ProgramTypeOK
<1>2. a \in 0..prog.codeSize
  BY <1>1 DEF Code
<1> QED
  BY <1>1, <1>2, ProgramIsWellFormed DEF WellFormed, EntriesOK

LEMMA HCallStep == IInv /\ HCall => IInv'
<1> SUFFICES ASSUME IInv, HCall PROVE IInv'
  OBVIOUS
<1> DEFINE f == Callee.funcVal
           act == Activation
<1>1. /\ Fetch({"call"}) /\ (Functor => InStack(top)) /\ Callee.type = "userfunc"
      /\ outcome = "running" /\ pc \in Code(prog)
  BY CallsAreFetched, Fetched DEF HCall, CallUserFunc
<1>2. /\ CallTop \in 4..StackSize - 1 /\ CallTop + Actuals <= Low(Depth) /\ Actuals \in Nat
      /\ CallStack \in [Addresses -> MyCells]
      /\ Low(Depth) \in Int /\ Low(Depth) <= Floor
      /\ pc + 1 \in 0..prog.codeSize /\ Owner(prog, pc + 1) = CurrentFunc
      /\ pc + 1 \in Code(prog) => prog.code[pc + 1].op # "funcenter"
  <2>1. CallTop \in 4..StackSize - 1 /\ HeightOf(CallTop) = CallTop
    BY WordIsBig DEF HCall, CallUserFunc, EnvironmentFits, InStack, Addresses, HeightOf
  <2> QED
    BY <1>1, <2>1, AtCall
<1>3. f \in Funcs(prog)
  BY <1>1, CalleeIsCell, CellFields, TablesAreTables DEF IInv, MyCells
<1>4. /\ pc' = prog.userFuncs[f].address
      /\ top' = CallTop - 4 /\ topsp' = CallTop - 4 /\ totalActuals' = 0
      /\ UNCHANGED <<prog, retval_reg, tables, outcome>>
      /\ stack' = [CallStack EXCEPT ![CallTop]     = Number(pc + 1),
                                    ![CallTop - 1] = Number(CallTop + Actuals),
                                    ![CallTop - 2] = Number(topsp),
                                    ![CallTop - 3] = Number(Actuals)]
      /\ activations' = Append(activations, act)
  BY DEF HCall, CallUserFunc, SavedTop
<1>5. topsp \in 0..StackSize - 1 /\ pc \in Int
  BY <1>1, ProgramNumbers, WordIsBig DEF IInv, TypeOK, Addresses, Code
<1>6. /\ act.func = f /\ act.base = CallTop - 4 /\ act.nargs = Actuals
      /\ act.ret = pc + 1 /\ act.callerTopSp = topsp /\ act.callerTop = CallTop + Actuals
  BY DEF Activation
<1>7. act \in [func : Funcs(prog), base : Addresses, nargs : Nat, ret : 0..prog.codeSize,
               callerTopSp : Addresses, callerTop : Addresses]
  <2>1. CallTop + Actuals \in 0..StackSize - 1
    BY <1>2, ProgramNumbers, WordIsBig DEF IInv
  <2>2. CallTop - 4 \in 0..StackSize - 1
    BY <1>2, WordIsBig
  <2> QED
    BY <1>2, <1>3, <1>5, <2>1, <2>2 DEF Activation, Addresses
<1> HIDE DEF act, f
<1>17. PICK n \in Nat : n = Depth
  BY DepthIsNat DEF IInv
<1>8. /\ activations' \in Seq([func : Funcs(prog), base : Addresses, nargs : Nat,
                               ret : 0..prog.codeSize, callerTopSp : Addresses,
                               callerTop : Addresses])
      /\ Depth' = n + 1
      /\ \A k \in 1..n : activations'[k] = activations[k]
      /\ activations'[n + 1] = act
  <2>1. activations \in Seq([func : Funcs(prog), base : Addresses, nargs : Nat,
                             ret : 0..prog.codeSize, callerTopSp : Addresses,
                             callerTop : Addresses])
    BY DEF IInv, HistoryOK
  <2> QED
    BY <1>4, <1>7, <1>17, <2>1, AppendProperties DEF Depth
<1>18. /\ stack' \in [Addresses -> MyCells]
      /\ stack'[CallTop] = Number(pc + 1) /\ stack'[CallTop - 1] = Number(CallTop + Actuals)
      /\ stack'[CallTop - 2] = Number(topsp) /\ stack'[CallTop - 3] = Number(Actuals)
      /\ \A x \in Addresses : x > CallTop => stack'[x] = CallStack[x]
  <2>1. /\ Number(pc + 1) \in MyCells /\ Number(CallTop + Actuals) \in MyCells
        /\ Number(topsp) \in MyCells /\ Number(Actuals) \in MyCells
    BY <1>2, <1>5, NumberIsCell DEF MyCells
  <2>2. {CallTop, CallTop - 1, CallTop - 2, CallTop - 3} \subseteq Addresses /\ CallTop \in Int
    BY <1>2, WordIsBig DEF Addresses
  <2>3. \A x \in Addresses : x > CallTop =>
          x \notin {CallTop, CallTop - 1, CallTop - 2, CallTop - 3}
    BY <1>2, WordIsBig DEF Addresses
  <2>4. /\ stack' \in [Addresses -> MyCells]
        /\ stack'[CallTop] = Number(pc + 1) /\ stack'[CallTop - 1] = Number(CallTop + Actuals)
        /\ stack'[CallTop - 2] = Number(topsp) /\ stack'[CallTop - 3] = Number(Actuals)
        /\ \A x \in Addresses :
              x \notin {CallTop, CallTop - 1, CallTop - 2, CallTop - 3} => stack'[x] = CallStack[x]
    <3>1. CallStack \in [Addresses -> MyCells]
      BY <1>2
    <3>2. /\ CallTop # CallTop - 1 /\ CallTop # CallTop - 2 /\ CallTop # CallTop - 3
          /\ CallTop - 1 # CallTop - 2 /\ CallTop - 1 # CallTop - 3 /\ CallTop - 2 # CallTop - 3
      BY <2>2
    <3> QED
      BY ONLY <1>4, <2>1, <2>2, <3>1, <3>2
  <2> QED
    BY <2>3, <2>4
<1>9. TypeOK'
  <2>2. stack' \in [Addresses -> MyCells]
    BY <1>18
  <2>3. pc' \in 0..prog.codeSize
    BY <1>3, <1>4, EntryOfFunction DEF IInv
  <2>4. top' \in Addresses /\ topsp' \in Addresses
    BY <1>2, <1>4, WordIsBig DEF Addresses
  <2> QED
    BY <1>4, <2>2, <2>3, <2>4 DEF IInv, TypeOK, MyCells, Addresses
<1>10. topsp = IF activations = <<>> THEN Floor ELSE activations[n].base
  BY <1>1, <1>17 DEF IInv, FrameCurrent
<1>11. HistoryOK'
  <2>1. ASSUME NEW k \in 1..n
        PROVE  FuncBelow(k)' = FuncBelow(k) /\ BaseBelow(k)' = BaseBelow(k)
    <3>1. k # 1 => activations'[k - 1] = activations[k - 1]
      BY <1>17, <1>8
    <3> QED
      BY <1>4, <3>1 DEF FuncBelow, BaseBelow, Floor
  <2>2. FuncBelow(n + 1)' = CurrentFunc /\ BaseBelow(n + 1)' = topsp
    <3>1. CASE n = 0
      BY <1>4, <1>10, <1>17, <3>1, DepthIsNat DEF IInv, FuncBelow, BaseBelow, CurrentFunc, Floor
    <3>2. CASE n > 0
      <4>1. activations'[n + 1 - 1] = activations[n] /\ n + 1 # 1
        BY <1>17, <1>8, <3>2
      <4>2. activations # <<>>
        BY <1>17, <3>2, DepthIsNat DEF IInv
      <4> QED
        BY <1>10, <1>17, <4>1, <4>2 DEF FuncBelow, BaseBelow, CurrentFunc
    <3> QED
      BY <1>17, <1>8, <3>1, <3>2
  <2>3. ASSUME NEW k \in 1..n + 1
        PROVE  LET a == activations'[k] IN
                 /\ a.callerTop = a.base + 4 + a.nargs
                 /\ a.callerTopSp = BaseBelow(k)'
                 /\ Owner(prog, a.ret) = FuncBelow(k)'
                 /\ a.ret \in Code(prog) => prog.code[a.ret].op # "funcenter"
    <3>1. CASE k \in 1..n
      BY <1>17, <1>8, <2>1, <3>1 DEF IInv, HistoryOK
    <3>2. CASE k = n + 1
      <4>1. CallTop + Actuals = CallTop - 4 + 4 + Actuals
        BY <1>2, WordIsBig
      <4>2. activations'[k] = act /\ FuncBelow(k)' = CurrentFunc /\ BaseBelow(k)' = topsp
        BY <1>8, <2>2, <3>2
      <4> QED
        BY <1>2, <1>6, <4>1, <4>2
    <3> QED
      BY <1>17, <1>8, <3>1, <3>2
  <2> QED
    BY <1>4, <1>17, <1>8, <2>3 DEF HistoryOK, Addresses
<1>12. FramesIntact'
  <2>1. ASSUME NEW k \in 1..n, NEW d \in 1..4
        PROVE  stack'[activations[k].base + d] = stack[activations[k].base + d]
    <3>1. Low(n) <= activations[k].base /\ activations[k].base \in Nat
      BY <1>17, EnvironmentIsHigh
    <3>2. activations[k].base + d > CallTop
      BY <1>2, <1>17, <3>1
    <3>3. stack'[activations[k].base + d] = CallStack[activations[k].base + d]
      <4>1. activations[k].base + 4 <= Floor
        BY <1>17, EnvironmentIsHigh
      <4>2. activations[k].base + d \in Addresses
        BY <3>1, <4>1, ProgramNumbers, WordIsBig DEF IInv, Addresses
      <4> QED
        BY <1>18, <3>2, <4>2
    <3>4. activations[k].base + d \in activations[k].base + 1..activations[k].base + 4
      BY <3>1
    <3> QED
      BY <1>1, <1>17, <3>3, <3>4, CallStackKeepsEnvironments
  <2>2. /\ stack'[CallTop - 4 + 4] = Number(pc + 1)
        /\ stack'[CallTop - 4 + 3] = Number(CallTop + Actuals)
        /\ stack'[CallTop - 4 + 2] = Number(topsp)
        /\ stack'[CallTop - 4 + 1] = Number(Actuals)
    <3>1. /\ CallTop - 4 + 4 = CallTop /\ CallTop - 4 + 3 = CallTop - 1
          /\ CallTop - 4 + 2 = CallTop - 2 /\ CallTop - 4 + 1 = CallTop - 3
      BY <1>2, WordIsBig
    <3> QED
      BY <1>18, <3>1
  <2>3. ASSUME NEW k \in 1..n + 1
        PROVE  LET a == activations'[k] IN
                 /\ stack'[a.base + 4] = Number(a.ret)
                 /\ stack'[a.base + 3] = Number(a.callerTop)
                 /\ stack'[a.base + 2] = Number(a.callerTopSp)
                 /\ stack'[a.base + 1] = Number(a.nargs)
    <3>1. CASE k \in 1..n
      <4>1. activations'[k] = activations[k]
        BY <1>8, <3>1
      <4>2. /\ stack'[activations[k].base + 4] = stack[activations[k].base + 4]
            /\ stack'[activations[k].base + 3] = stack[activations[k].base + 3]
            /\ stack'[activations[k].base + 2] = stack[activations[k].base + 2]
            /\ stack'[activations[k].base + 1] = stack[activations[k].base + 1]
        BY <2>1, <3>1
      <4> QED
        BY <1>17, <3>1, <4>1, <4>2 DEF IInv, FramesIntact, SavedPcOffset, SavedTopOffset,
             SavedTopSpOffset, NumActualsOffset
    <3>2. CASE k = n + 1
      BY <1>6, <1>17, <1>8, <2>2, <3>2
    <3> QED
      BY <1>17, <1>8, <3>1, <3>2
  <2> QED
    BY <1>17, <1>8, <2>3 DEF FramesIntact, SavedPcOffset, SavedTopOffset, SavedTopSpOffset, NumActualsOffset
<1>13. FramesDisjoint'
  <2>1. ASSUME NEW j \in 0..n
        PROVE  Low(j)' = Low(j)
    <3>1. j # 0 => activations'[j] = activations[j]
      BY <1>17, <1>8
    <3> QED
      BY <1>4, <3>1 DEF Low, Floor
  <2>2. ASSUME NEW k \in 1..n + 1, NEW j \in 0..k - 1
        PROVE  activations'[k].base + 4 + activations'[k].nargs <= Low(j)'
    <3>1. CASE k \in 1..n
      <4>1. j \in 0..n
        BY <1>17, <1>8, <3>1
      <4> QED
        BY <1>17, <1>8, <2>1, <3>1, <4>1 DEF IInv, FramesDisjoint
    <3>2. CASE k = n + 1
      <4>1. j \in 0..n
        BY <1>17, <1>8, <3>2
      <4>2. Low(n) <= Low(j) /\ Low(j) \in Int
        BY <1>17, <4>1, LowestFrame, LowIsInt DEF IInv
      <4>3. CallTop - 4 + 4 + Actuals <= Low(j)
        BY <1>2, <1>17, <4>2
      <4> QED
        BY <1>6, <1>17, <1>8, <2>1, <3>2, <4>1, <4>3
    <3> QED
      BY <1>17, <1>8, <3>1, <3>2
  <2> QED
    BY <1>17, <1>8, <2>2 DEF FramesDisjoint
<1>14. FrameCurrent'
  <2>1. activations' # <<>> /\ activations'[Depth'] = act
    BY <1>17, <1>8, EmptySeq DEF Depth
  <2>2. CurrentFunc' = f
    BY <1>6, <2>1 DEF CurrentFunc
  <2>3. Owner(prog', pc') = f /\ Entering'
    BY <1>3, <1>4, EntryOfFunction DEF IInv, Entering, Instr
  <2> QED
    BY <1>4, <1>6, <2>1, <2>2, <2>3 DEF FrameCurrent
<1>15. PushesPending' /\ prog' \in Programs
  BY <1>4 DEF PushesPending, IInv
<1> QED
  BY <1>9, <1>11, <1>12, <1>13, <1>14, <1>15 DEF IInv

LEMMA FuncEnterStep == IInv /\ FuncEnter /\ UNCHANGED activations => IInv'
<1> SUFFICES ASSUME IInv, FuncEnter, UNCHANGED activations PROVE IInv'
  OBVIOUS
<1> DEFINE localSize == prog.userFuncs[Instr.result.funcVal].localSize
<1>1. outcome = "running" /\ pc \in Code(prog) /\ Instr.op = "funcenter"
  BY Fetched DEF FuncEnter
<1>2. PICK f \in Funcs(prog) :
        Instr.result = UserFunc(f) /\ Owner(prog, pc) = f /\ f # Main
  <2>1. PICK f \in Funcs(prog) : prog.userFuncs[f].address = pc
    BY <1>1, ProgramIsWellFormed DEF IInv, WellFormed, EntriesOK, Instr
  <2> QED
    BY <2>1, EntryOfFunction, LocalsAreNat DEF IInv, Instr
<1>3. localSize = LocalsOf(prog, f) /\ localSize \in Nat
  BY <1>2, LocalsAreNat DEF IInv, UserFunc
<1>4. top = topsp /\ totalActuals = 0 /\ Owner(prog, pc) = CurrentFunc
  BY <1>1 DEF IInv, FrameCurrent, Entering
<1>5. /\ Depth > 0 /\ Depth \in 1..Depth /\ activations # <<>>
      /\ activations[Depth].func = f /\ activations[Depth].base = topsp
  <2>1. activations # <<>>
    BY <1>2, <1>4 DEF CurrentFunc
  <2>2. Depth > 0 /\ Depth \in 1..Depth
    BY <2>1, DepthIsNat DEF IInv
  <2> QED
    BY <1>1, <1>2, <1>4, <2>1, <2>2 DEF CurrentFunc, IInv, FrameCurrent
<1>6. topsp \in 0..StackSize - 1
  BY DEF IInv, TypeOK, Addresses
<1> HIDE DEF localSize
<1>7. /\ localSize <= topsp /\ top' = topsp - localSize /\ pc' = pc + 1
      /\ stack' = [a \in Addresses |->
                     IF topsp - localSize < a /\ a <= topsp THEN Undef ELSE stack[a]]
      /\ UNCHANGED <<prog, topsp, totalActuals, retval_reg, tables, outcome>>
  BY <1>3, <1>4, <1>6, WordIsBig DEF FuncEnter, TopBelowLocals, localSize
<1>8. pc + 1 \in Succ(prog, pc)
  BY <1>1, NextIsSuccessor DEF IInv
<1>9. /\ pc + 1 \in 0..prog.codeSize /\ Owner(prog, pc + 1) = Owner(prog, pc)
      /\ pc + 1 \in Code(prog) => prog.code[pc + 1].op # "funcenter"
  BY <1>1, <1>8, SuccessorStaysInFunction DEF IInv
<1>10. TypeOK'
  <2>1. stack' \in [Addresses -> MyCells]
    BY <1>7, BlankIsCell DEF IInv, TypeOK, MyCells
  <2>2. top' \in Addresses
    BY <1>3, <1>6, <1>7, WordIsBig DEF Addresses
  <2> QED
    BY <1>7, <1>9, <2>1, <2>2 DEF IInv, TypeOK, MyCells, Addresses
<1>11. EnvironmentsKept
  <2> SUFFICES ASSUME NEW k \in 1..Depth, NEW x \in activations[k].base + 1..activations[k].base + 4
               PROVE  stack'[x] = stack[x]
    BY DEF EnvironmentsKept
  <2>1. activations[k].base \in Nat /\ activations[k].base + 4 <= Floor
    BY EnvironmentIsHigh
  <2>2. topsp <= activations[k].base
    <3>1. activations[Depth].nargs \in Nat
      BY <1>5, ActivationFields DEF IInv
    <3>2. k < Depth => topsp + 4 + activations[Depth].nargs <= activations[k].base
      BY <1>5, NewestFrameIsLowest DEF IInv
    <3>3. k = Depth \/ k < Depth
      BY DepthIsNat DEF IInv
    <3> QED
      BY <1>5, <1>6, <2>1, <3>1, <3>2, <3>3
  <2>3. x \in Addresses /\ x > topsp
    BY <1>6, <2>1, <2>2, ProgramNumbers, WordIsBig DEF IInv, Addresses
  <2> QED
    BY <1>6, <1>7, <2>3
<1>12. /\ prog' \in Programs /\ HistoryOK' /\ FramesIntact' /\ FramesDisjoint'
       /\ Depth' = Depth /\ Low(Depth)' = Low(Depth) /\ CurrentFunc' = CurrentFunc
  BY <1>7, <1>11, FramesStay
<1>13. FrameCurrent'
  <2>1. ~ Entering'
    BY <1>7, <1>9 DEF Entering, Instr
  <2>2. Height' = topsp - localSize
    <3>1. topsp - localSize < StackSize
      BY <1>3, <1>6, WordIsBig
    <3> QED
      BY <1>7, <3>1 DEF Height
  <2>3. Low(Depth) = topsp - localSize
    BY <1>3, <1>5, LowIsInt DEF IInv
  <2>4. Height' + totalActuals' <= Low(Depth)'
    BY <1>3, <1>4, <1>6, <1>7, <1>12, <2>2, <2>3, WordIsBig
  <2>5. topsp' = activations'[Depth'].base /\ activations' # <<>>
    BY <1>5, <1>7, <1>12
  <2>6. Owner(prog', pc') = CurrentFunc'
    BY <1>4, <1>7, <1>9, <1>12
  <2> QED
    BY <2>1, <2>4, <2>5, <2>6 DEF FrameCurrent
<1>14. PushesPending'
  BY <1>4, <1>7 DEF PushesPending
<1> QED
  BY <1>10, <1>12, <1>13, <1>14 DEF IInv

\* What funcexit reads from the stack is what the history remembers.
LEMMA FuncExitRestores ==
  ASSUME IInv, FuncExit
  PROVE  /\ Depth \in 1..Depth /\ activations # <<>> /\ totalActuals = 0
         /\ pc' = activations[Depth].ret
         /\ topsp' = activations[Depth].callerTopSp
         /\ top' = activations[Depth].callerTop
<1>1. outcome = "running" /\ pc \in Code(prog) /\ Instr.op = "funcexit"
  BY Fetched DEF FuncExit
<1>2. Owner(prog, pc) # Main
  BY <1>1, ProgramIsWellFormed DEF IInv, WellFormed, FlowOK, Instr
<1>3. activations # <<>> /\ Depth \in 1..Depth
  <2>1. activations # <<>>
    BY <1>1, <1>2 DEF IInv, FrameCurrent, CurrentFunc
  <2> QED
    BY <2>1, DepthIsNat DEF IInv
<1>4. topsp = activations[Depth].base
  BY <1>1, <1>3 DEF IInv, FrameCurrent
<1>5. /\ stack[topsp + SavedPcOffset] = Number(activations[Depth].ret)
      /\ stack[topsp + SavedTopOffset] = Number(activations[Depth].callerTop)
      /\ stack[topsp + SavedTopSpOffset] = Number(activations[Depth].callerTopSp)
  BY <1>3, <1>4 DEF IInv, FramesIntact
<1>6. /\ activations[Depth].ret \in 0..Word - 1
      /\ activations[Depth].callerTop \in 0..Word - 1
      /\ activations[Depth].callerTopSp \in 0..Word - 1
  <2>1. /\ activations[Depth].ret \in 0..prog.codeSize
        /\ activations[Depth].callerTopSp \in Addresses /\ activations[Depth].callerTop \in Addresses
    BY <1>3, ActivationFields DEF IInv
  <2>2. prog.codeSize < Word /\ prog.codeSize \in Nat
    BY ProgramIsWellFormed, ProgramNumbers DEF IInv
  <2> QED
    BY <2>1, <2>2, WordIsBig DEF Addresses
<1>7. /\ ToUnsigned(activations[Depth].ret) = activations[Depth].ret
      /\ ToUnsigned(activations[Depth].callerTop) = activations[Depth].callerTop
      /\ ToUnsigned(activations[Depth].callerTopSp) = activations[Depth].callerTopSp
  BY <1>6, ModSmall DEF ToUnsigned
<1>8. totalActuals = 0
  BY <1>1 DEF IInv, PushesPending, TypeOK
<1> QED
  BY <1>3, <1>5, <1>7, <1>8 DEF FuncExit, Number

LEMMA HReturnStep == IInv /\ HReturn => IInv'
<1> SUFFICES ASSUME IInv, HReturn PROVE IInv'
  OBVIOUS
<1>1. PICK n \in Nat : n = Depth
  BY DepthIsNat DEF IInv
<1>2. /\ n > 0 /\ n \in 1..Depth /\ totalActuals = 0
      /\ pc' = activations[n].ret /\ topsp' = activations[n].callerTopSp
      /\ top' = activations[n].callerTop
      /\ UNCHANGED <<prog, stack, totalActuals, retval_reg, tables, outcome>>
  BY <1>1, FuncExitRestores DEF HReturn, FuncExit
<1>3. /\ activations' \in Seq([func : Funcs(prog), base : Addresses, nargs : Nat,
                               ret : 0..prog.codeSize, callerTopSp : Addresses,
                               callerTop : Addresses])
      /\ Depth' = n - 1
      /\ \A k \in 1..n - 1 : activations'[k] = activations[k]
  <2> DEFINE R == [func : Funcs(prog), base : Addresses, nargs : Nat, ret : 0..prog.codeSize,
                   callerTopSp : Addresses, callerTop : Addresses]
  <2>1. activations \in Seq(R) /\ Len(activations) = n
    BY <1>1 DEF IInv, HistoryOK, Depth
  <2>2. activations' = SubSeq(activations, 1, n - 1)
    BY <2>1 DEF HReturn
  <2> HIDE DEF R
  <2>3. /\ activations' \in Seq(R) /\ Len(activations') = n - 1
        /\ \A k \in 1..n - 1 : activations'[k] = activations[k]
    BY <1>2, <2>1, <2>2, SubSeqProperties
  <2> QED
    BY <2>3 DEF R, Depth
<1>4. /\ activations[n].base \in Nat /\ activations[n].nargs \in Nat
      /\ activations[n].ret \in 0..prog.codeSize
      /\ activations[n].callerTopSp \in Addresses /\ activations[n].callerTop \in Addresses
  BY <1>2, ActivationFields, WordIsBig DEF IInv, Addresses
<1>5. TypeOK'
  BY <1>2, <1>4 DEF IInv, TypeOK, Addresses
<1>6. /\ activations[n].callerTop = activations[n].base + 4 + activations[n].nargs
      /\ activations[n].callerTopSp = BaseBelow(n)
      /\ Owner(prog, activations[n].ret) = FuncBelow(n)
      /\ activations[n].ret \in Code(prog) => prog.code[activations[n].ret].op # "funcenter"
  BY <1>1, <1>2 DEF IInv, HistoryOK
<1>7. ASSUME NEW k \in 1..n - 1
      PROVE  FuncBelow(k)' = FuncBelow(k) /\ BaseBelow(k)' = BaseBelow(k)
  <2>1. k # 1 => activations'[k - 1] = activations[k - 1]
    <3>1. k # 1 => k - 1 \in 1..n - 1
      BY <1>1
    <3> QED
      BY <1>3, <3>1
  <2> QED
    BY <1>2, <2>1 DEF FuncBelow, BaseBelow, Floor
<1>8. HistoryOK'
  <2>1. ASSUME NEW k \in 1..n - 1
        PROVE  LET a == activations'[k] IN
                 /\ a.callerTop = a.base + 4 + a.nargs
                 /\ a.callerTopSp = BaseBelow(k)'
                 /\ Owner(prog, a.ret) = FuncBelow(k)'
                 /\ a.ret \in Code(prog) => prog.code[a.ret].op # "funcenter"
    <3>1. k \in 1..Depth /\ activations'[k] = activations[k]
      BY <1>1, <1>3
    <3> QED
      BY <1>7, <3>1 DEF IInv, HistoryOK
  <2> QED
    BY <1>2, <1>3, <2>1 DEF HistoryOK, Addresses
<1>9. FramesIntact'
  BY <1>1, <1>2, <1>3 DEF IInv, FramesIntact
<1>10. ASSUME NEW j \in 0..n - 1
       PROVE  Low(j)' = Low(j)
  <2>1. j # 0 => activations'[j] = activations[j]
    BY <1>3
  <2> QED
    BY <1>2, <2>1 DEF Low, Floor
<1>11. FramesDisjoint'
  <2>1. ASSUME NEW k \in 1..n - 1, NEW j \in 0..k - 1
        PROVE  activations'[k].base + 4 + activations'[k].nargs <= Low(j)'
    <3>1. k \in 1..Depth /\ activations'[k] = activations[k] /\ Low(j)' = Low(j)
      BY <1>1, <1>3, <1>10
    <3> QED
      BY <3>1 DEF IInv, FramesDisjoint
  <2> QED
    BY <1>3, <2>1 DEF FramesDisjoint
<1>12. FrameCurrent'
  <2>1. activations' = <<>> <=> n = 1
    BY <1>3, EmptySeq, LenProperties DEF Depth
  <2>2. n # 1 => activations'[Depth'] = activations[n - 1]
    BY <1>2, <1>3
  <2>3. /\ topsp' = IF activations' = <<>> THEN Floor' ELSE activations'[Depth'].base
        /\ Owner(prog', pc') = CurrentFunc'
    BY <1>2, <1>6, <2>1, <2>2 DEF BaseBelow, FuncBelow, CurrentFunc, Floor
  <2>4. ~ Entering'
    BY <1>2, <1>6 DEF Entering, Instr
  <2>5. Height' = activations[n].callerTop
    BY <1>2, <1>4, WordIsBig DEF Height, Addresses
  <2>6. activations[n].base + 4 + activations[n].nargs <= Low(n - 1)
    <3>1. n \in 1..Depth /\ n - 1 \in 0..n - 1
      BY <1>2
    <3> QED
      BY <3>1 DEF IInv, FramesDisjoint
  <2>7. Low(Depth)' = Low(n - 1)
    <3>1. n - 1 \in 0..n - 1
      BY <1>2
    <3>2. n - 1 # 0 => activations'[n - 1] = activations[n - 1]
      BY <1>2, <1>3
    <3> QED
      BY <1>2, <1>3, <3>2 DEF Low, Floor
  <2>8. Height' + totalActuals' <= Low(Depth)'
    BY <1>2, <1>4, <1>6, <2>5, <2>6, <2>7
  <2> QED
    BY <2>3, <2>4, <2>8 DEF FrameCurrent
<1>13. PushesPending' /\ prog' \in Programs
  BY <1>2 DEF PushesPending, IInv
<1> QED
  BY <1>5, <1>8, <1>9, <1>11, <1>12, <1>13 DEF IInv

-----------------------------------------------------------------------------
(* The theorems. *)

LEMMA InFrameKeeps == IInv /\ InFrame /\ UNCHANGED activations => IInv'
<1> SUFFICES ASSUME IInv, InFrame, UNCHANGED activations PROVE IInv'
  OBVIOUS
<1>1. CASE Assign
  BY <1>1, AssignStep
<1>2. CASE Arithmetic
  BY <1>2, ArithmeticStep
<1>3. CASE Jeq \/ Jne \/ NumCmp \/ Jump
  BY <1>3, JumpStep
<1>4. CASE NewTable
  BY <1>4, NewTableStep
<1>5. CASE TableGetElem
  BY <1>5, TableGetElemStep
<1>6. CASE TableSetElem
  BY <1>6, TableSetElemStep
<1>7. CASE PushArg
  BY <1>7, PushArgStep
<1>8. CASE CallOverflow
  BY <1>8, CallOverflowStep
<1>9. CASE FuncEnter
  BY <1>9, FuncEnterStep
<1>10. CASE GetRetval
  BY <1>10, GetRetvalStep
<1>11. CASE LibCall
  BY <1>11, LibErrorStep, LibAnswerStep, LibTableStep, FailingStep DEF LibCall
<1>12. CASE \/ ArithmeticError \/ NumCmpError \/ TableError \/ PushArgWild \/ CallWild
            \/ CallError \/ FuncEnterOverflow \/ Halt
  BY <1>12, FailingStep
<1>13. CASE Stopped
  <2>1. UNCHANGED <<prog, stack, registers, retval_reg, tables, activations>>
        /\ outcome' \in Outcomes \ {"running"}
    BY <1>13 DEF Stopped, vars, IInv, TypeOK
  <2> QED
    BY <2>1, StandingStep
<1> QED
  BY <1>1, <1>2, <1>3, <1>4, <1>5, <1>6, <1>7, <1>8, <1>9, <1>10, <1>11, <1>12, <1>13 DEF InFrame

LEMMA StutterKeeps == IInv /\ UNCHANGED historyVars => IInv'
<1> SUFFICES ASSUME IInv, UNCHANGED historyVars PROVE IInv'
  OBVIOUS
<1>1. UNCHANGED <<prog, stack, top, topsp, pc, totalActuals, retval_reg, tables, outcome, activations>>
  BY DEF historyVars, vars, registers
<1>2. EnvironmentsKept
  BY <1>1 DEF EnvironmentsKept
<1>3. /\ prog' \in Programs /\ HistoryOK' /\ FramesIntact' /\ FramesDisjoint'
      /\ Depth' = Depth /\ Low(Depth)' = Low(Depth) /\ CurrentFunc' = CurrentFunc
  BY <1>1, <1>2, FramesStay
<1>4. TypeOK' /\ PushesPending'
  BY <1>1 DEF IInv, TypeOK, PushesPending, Instr, Addresses
<1>5. FrameCurrent'
  BY <1>1, <1>3 DEF IInv, FrameCurrent, Entering, Instr, Height, Floor
<1> QED
  BY <1>3, <1>4, <1>5 DEF IInv

LEMMA InitHolds == HInit => IInv
<1> SUFFICES ASSUME HInit PROVE IInv
  OBVIOUS
<1>1. prog \in Programs /\ activations = <<>> /\ Depth = 0
  BY EmptySeq DEF HInit, Init, Depth
<1>2. TypeOK
  <2>1. tables = <<>> /\ Len(tables) = 0 /\ DOMAIN tables = {}
    BY EmptySeq DEF HInit, Init
  <2>2. tables \in Seq({tables[i] : i \in DOMAIN tables})
    BY <2>1, EmptySeq
  <2>3. Undef \in MyCells
    BY BlankIsCell DEF MyCells
  <2>4. Floor \in Addresses /\ 0 \in 0..prog.codeSize
    BY <1>1, ProgramNumbers, WordIsBig DEF Addresses
  <2> QED
    BY <2>1, <2>2, <2>3, <2>4 DEF HInit, Init, TypeOK, MyCells, Outcomes
<1>3. HistoryOK
  BY <1>1, EmptySeq DEF HistoryOK
<1>4. FramesIntact /\ FramesDisjoint
  BY <1>1 DEF FramesIntact, FramesDisjoint
<1>5. FrameCurrent
  <2>1. Owner(prog, 0) = Main
    BY <1>1, ProgramIsWellFormed DEF WellFormed, EntriesOK
  <2>2. ~ Entering
    <3> SUFFICES ASSUME Entering PROVE FALSE
      OBVIOUS
    <3>1. PICK f \in Funcs(prog) : prog.userFuncs[f].address = pc
      BY <1>1, ProgramIsWellFormed DEF WellFormed, EntriesOK, Entering, Instr
    <3>2. Owner(prog, pc) = f /\ f # Main
      BY <1>1, <3>1, EntryOfFunction, LocalsAreNat
    <3> QED
      BY <2>1, <3>2 DEF HInit, Init
  <2>3. Height = Floor /\ Low(0) = Floor
    BY <1>1, ProgramNumbers, WordIsBig DEF HInit, Init, Height, Low
  <2>4. Height + totalActuals <= Low(Depth)
    BY <1>1, <2>3, ProgramNumbers DEF HInit, Init
  <2> QED
    BY <1>1, <2>1, <2>2, <2>4 DEF HInit, Init, FrameCurrent, CurrentFunc
<1>6. PushesPending
  BY DEF HInit, Init, PushesPending
<1> QED
  BY <1>1, <1>2, <1>3, <1>4, <1>5, <1>6 DEF IInv

\* The invariant holds of every run of every program the code generator may
\* emit, on a stack of any size.
THEOREM InvariantHolds == HSpec => []IInv
<1>1. IInv /\ [HNext]_historyVars => IInv'
  BY InFrameKeeps, HCallStep, HReturnStep, StutterKeeps DEF HNext, HInFrame
<1> QED
  BY InitHolds, <1>1, PTL DEF HSpec

\* The registers, the stack and the tables always hold what they are declared
\* to hold: addresses are addresses, and every function, table and cell exists.
THEOREM TypeCorrect == HSpec => []TypeOK
<1>1. IInv => TypeOK
  BY DEF IInv
<1> QED
  BY <1>1, InvariantHolds, PTL

\* No instruction ever damages the environment of an active call.
THEOREM FramesStayIntact == HSpec => []FramesIntact
<1>1. IInv => FramesIntact
  BY DEF IInv
<1> QED
  BY <1>1, InvariantHolds, PTL

\* The frames of the active calls never overlap.
THEOREM FramesStayDisjoint == HSpec => []FramesDisjoint
<1>1. IInv => FramesDisjoint
  BY DEF IInv
<1> QED
  BY <1>1, InvariantHolds, PTL

\* The registers always agree with the newest call.
THEOREM FrameStaysCurrent == HSpec => []FrameCurrent
<1>1. IInv => FrameCurrent
  BY DEF IInv
<1> QED
  BY <1>1, InvariantHolds, PTL

\* An operand always resolves to a cell of its own frame or to a global.
THEOREM OperandsStayInFrame == HSpec => []OperandsInFrame
<1>1. IInv => OperandsInFrame
  BY OperandAddress DEF OperandsInFrame
<1> QED
  BY <1>1, InvariantHolds, PTL

\* Every return resumes the caller as the call left it.
THEOREM ReturnsResumeCaller == HSpec => ReturnsToCaller
<1> DEFINE Resumes == FuncExit =>
      /\ activations # <<>>
      /\ LET a == activations[Depth] IN
           pc' = a.ret /\ topsp' = a.callerTopSp /\ top' = a.callerTop
<1>1. IInv /\ [HNext]_historyVars => [Resumes]_historyVars
  BY FuncExitRestores
<1> QED
  BY <1>1, InvariantHolds, PTL DEF HSpec, ReturnsToCaller

LEMMA LibraryAnswersForCall ==
  ASSUME IInv, activations # <<>>, LibCalled, NEW i \in 0..Word - 1
  PROVE  /\ CallStack[topsp + NumActualsOffset] = Number(activations[Depth].nargs)
         /\ ToUnsigned(activations[Depth].nargs) = activations[Depth].nargs
         /\ i < activations[Depth].nargs =>
              /\ (topsp + StackEnvSize + i) % Word = activations[Depth].base + StackEnvSize + i
              /\ CallStack[activations[Depth].base + StackEnvSize + i]
                   = stack[activations[Depth].base + StackEnvSize + i]
<1>1. Depth \in 1..Depth /\ outcome = "running" /\ Fetch({"call"}) /\ (Functor => InStack(top))
  BY DepthIsNat DEF IInv, LibCalled, Fetch
<1>2. topsp = activations[Depth].base
  BY <1>1 DEF IInv, FrameCurrent
<1>3. /\ activations[Depth].base \in Nat /\ activations[Depth].nargs \in Nat
      /\ Low(Depth) \in Int /\ Low(Depth) <= activations[Depth].base
      /\ activations[Depth].base + 4 + activations[Depth].nargs <= Floor
  BY <1>1, EnvironmentIsHigh, ActivationFields, NewestFrameIsLowest DEF IInv
<1>4. /\ 0 <= Floor /\ Floor \in Int /\ Floor < Word - 1 /\ Word \in Nat
  BY ProgramNumbers, WordIsBig DEF IInv
<1>5. CallStack[topsp + NumActualsOffset] = Number(activations[Depth].nargs)
  <2>1. stack[topsp + NumActualsOffset] = Number(activations[Depth].nargs)
    BY <1>1, <1>2 DEF IInv, FramesIntact
  <2>2. topsp + NumActualsOffset \in Int /\ topsp + NumActualsOffset > Low(Depth)
    BY <1>2, <1>3 DEF NumActualsOffset
  <2> QED
    BY <1>1, <2>1, <2>2, CallStackKeepsFrames
<1>6. ToUnsigned(activations[Depth].nargs) = activations[Depth].nargs
  <2>1. activations[Depth].nargs \in 0..Word - 1
    BY <1>3, <1>4
  <2> QED
    BY <2>1, ModSmall DEF ToUnsigned
<1>7. ASSUME i < activations[Depth].nargs
      PROVE  /\ (topsp + StackEnvSize + i) % Word = activations[Depth].base + StackEnvSize + i
             /\ CallStack[activations[Depth].base + StackEnvSize + i]
                  = stack[activations[Depth].base + StackEnvSize + i]
  <2>1. /\ activations[Depth].base + StackEnvSize + i \in 0..Word - 1
        /\ activations[Depth].base + StackEnvSize + i > Low(Depth)
    <3>1. i \in Nat
      BY <1>4
    <3>2. activations[Depth].base + 5 + i <= Floor
      BY <1>3, <1>4, <1>7, <3>1
    <3> QED
      BY ONLY <1>3, <1>4, <3>1, <3>2 DEF StackEnvSize
  <2>2. (activations[Depth].base + StackEnvSize + i) % Word = activations[Depth].base + StackEnvSize + i
    BY <2>1, ModSmall
  <2> QED
    BY <1>1, <1>2, <2>1, <2>2, CallStackKeepsFrames
<1> QED
  BY <1>5, <1>6, <1>7

LEMMA LibrarySeesNewestCall ==
  ASSUME IInv, activations # <<>>, LibTotalArguments \/ LibArgument
  PROVE  LET a == activations[Depth]
             i == ToUnsigned(LibArg.numVal)
         IN  /\ LibTotalArguments => retval_reg' = Number(a.nargs)
             /\ LibArgument => retval_reg' = IF i < a.nargs THEN stack[a.base + StackEnvSize + i]
                                             ELSE Nil
<1>1. LibCalled
  BY LibIsCalled DEF LibTotalArguments, LibArgument
<1>2. ASSUME LibTotalArguments PROVE retval_reg' = Number(activations[Depth].nargs)
  <2>1. 0 \in 0..Word - 1
    BY WordIsBig
  <2> QED
    BY <1>1, <1>2, <2>1, LibraryAnswersForCall DEF LibTotalArguments, Number
<1>3. ASSUME LibArgument
      PROVE  LET a == activations[Depth]
                 i == ToUnsigned(LibArg.numVal)
             IN  retval_reg' = IF i < a.nargs THEN stack[a.base + StackEnvSize + i] ELSE Nil
  <2> DEFINE i == ToUnsigned(LibArg.numVal)
             nargs == activations[Depth].nargs
  <2>1. LibArg \in MyCells /\ LibArg.type = "number"
    BY <1>1, <1>3, LibArgIsCell DEF LibCalled, LibArgument, LibDomain, UnaryLibs
  <2>2. i \in 0..Word - 1
    BY <2>1, CellFields, TablesAreTables, ModRange DEF IInv, MyCells, ToUnsigned
  <2>3. ArgumentPassed <=> i < nargs
    BY <1>1, <2>2, LibraryAnswersForCall DEF ArgumentPassed, Number
  <2>4. CASE i < nargs
    <3>1. ArgumentAddress = activations[Depth].base + StackEnvSize + i
      BY <1>1, <2>2, <2>4, LibraryAnswersForCall DEF ArgumentAddress
    <3>2. CallStack[ArgumentAddress] = stack[activations[Depth].base + StackEnvSize + i]
      BY <1>1, <2>2, <2>4, <3>1, LibraryAnswersForCall
    <3> QED
      BY <1>3, <2>3, <2>4, <3>2 DEF LibArgument
  <2>5. CASE ~ (i < nargs)
    BY <1>3, <2>3, <2>5 DEF LibArgument
  <2> QED
    BY <2>4, <2>5
<1> QED
  BY <1>2, <1>3

\* totalarguments and argument answer for the call that is running.
THEOREM LibraryStaysInFrame == HSpec => LibrarySeesFrame
<1> DEFINE Answers == activations # <<>> =>
      LET a == activations[Depth]
          i == ToUnsigned(LibArg.numVal)
      IN  /\ LibTotalArguments => retval_reg' = Number(a.nargs)
          /\ LibArgument => retval_reg' = IF i < a.nargs THEN stack[a.base + StackEnvSize + i]
                                          ELSE Nil
<1>1. IInv /\ [HNext]_historyVars => [Answers]_historyVars
  <2> SUFFICES ASSUME IInv, activations # <<>>, LibTotalArguments \/ LibArgument PROVE Answers
    OBVIOUS
  <2> QED
    BY LibrarySeesNewestCall
<1> QED
  BY <1>1, InvariantHolds, PTL DEF HSpec, LibrarySeesFrame
=============================================================================
