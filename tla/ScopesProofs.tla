---------------------------- MODULE ScopesProofs ----------------------------
(* Proofs about names, scopes and storage in the compiler. *)
EXTENDS Scopes, FiniteSetTheorems, SequenceTheorems, TLAPS

-----------------------------------------------------------------------------
(* Sets of numbers. *)

\* A nonempty set of natural numbers has a least element.
LEMMA LeastOfSet ==
  ASSUME NEW T, T \subseteq Nat, T # {}
  PROVE  \E x \in T : \A y \in T : x <= y
<1> DEFINE R == OpToRel(<, Nat)
<1>1. IsWellFoundedOn(R, Nat)
  BY NatLessThanWellFounded
<1>2. \A x, y \in Nat : x < y => <<x, y>> \in R
  BY DEF OpToRel
<1> HIDE DEF R
<1>3. PICK x \in T : \A y \in T : ~ (<<y, x>> \in R)
  BY <1>1, WFMin
<1>4. \A y \in T : ~ (y < x)
  BY <1>2, <1>3
<1> QED
  BY <1>3, <1>4

\* The newest of the symbols up to n that are in a set.
LEMMA NewestIsLast ==
  ASSUME NEW n \in Nat, NEW S, S \subseteq 1..n, S # {}
  PROVE  Newest(S) \in S /\ Newest(S) # Null /\ \A j \in S : j <= Newest(S)
<1> DEFINE T == {n - i : i \in S}
<1>1. T \subseteq Nat /\ T # {}
  <2>1. PICK j : j \in S
    OBVIOUS
  <2>2. n - j \in T
    BY <2>1
  <2> QED
    BY <2>2
<1> HIDE DEF T
<1>2. PICK x \in T : \A y \in T : x <= y
  BY <1>1, LeastOfSet
<1>3. PICK i \in S : x = n - i
  BY DEF T
<1>4. \A j \in S : n - i <= n - j
  BY <1>2, <1>3 DEF T
<1>5. \A j \in S : j <= i
  BY <1>4
<1>6. Newest(S) = CHOOSE k \in S : \A j \in S : j <= k
  BY DEF Newest
<1>7. Newest(S) \in S /\ \A j \in S : j <= Newest(S)
  BY <1>3, <1>5, <1>6
<1> QED
  BY <1>7 DEF Null

LEMMA NoneIsNewest == Newest({}) = Null
BY DEF Newest

-----------------------------------------------------------------------------
(* Sequences whose last element is added, changed or taken away. *)

LEMMA LastProperties ==
  ASSUME NEW S, NEW s \in Seq(S), s # <<>>
  PROVE  /\ Len(s) \in Nat \ {0} /\ Last(s) = s[Len(s)] /\ Last(s) \in S
         /\ Front(s) \in Seq(S) /\ Len(Front(s)) = Len(s) - 1
         /\ \A i \in 1..Len(s) - 1 : Front(s)[i] = s[i]
<1>1. Len(s) \in Nat \ {0}
  BY EmptySeq
<1>2. Last(s) = s[Len(s)] /\ Last(s) \in S
  BY <1>1, ElementOfSeq DEF Last
<1>3. PICK n \in Nat : n = Len(s) - 1
  BY <1>1
<1>4. \A i \in 1..n : s[i] \in S
  BY <1>1, <1>3, ElementOfSeq
<1>5. /\ SubSeq(s, 1, n) \in Seq(S)
      /\ Len(SubSeq(s, 1, n)) = IF 1 <= n THEN n - 1 + 1 ELSE 0
      /\ \A i \in 1..n - 1 + 1 : SubSeq(s, 1, n)[i] = s[1 + i - 1]
  BY <1>4, SubSeqProperties
<1>6. Len(SubSeq(s, 1, n)) = n
  BY <1>5
<1>7. \A i \in 1..n : SubSeq(s, 1, n)[i] = s[i]
  <2> TAKE i \in 1..n
  <2>1. 1 + i - 1 = i /\ i \in 1..n - 1 + 1
    OBVIOUS
  <2> QED BY <2>1, <1>5
<1> QED
  BY <1>1, <1>2, <1>3, <1>5, <1>6, <1>7 DEF Front

-----------------------------------------------------------------------------
(* How the parser, the counters and the symbols hang together. *)

AnyName == {Ident(x) : x \in Names} \cup {TempName(n) : n \in Nat} \cup {HiddenName}
SymbolTypes == {"libfunc", "userfunc", "globalvar", "localvar", "formal"}
SymbolRecords ==
  [s_name : AnyName, s_type : SymbolTypes, s_scope : Nat, is_active : BOOLEAN,
   space : Spaces \cup {"none"}, offset : Nat, total_locals : Nat]
Rules == [kind : {"block", "formals", "body"}, sym : Nat]

\* The functions around the parser, as places in parsing.
OpenFunctions == {k \in DOMAIN parsing : parsing[k].kind # "block"}

Typed ==
  /\ symbols \in Seq(SymbolRecords)
  /\ parsing \in Seq(Rules)
  /\ current_scope_depth = Len(parsing)
  /\ offsets \in [Spaces -> Nat]
  /\ temp_counter \in Nat
  /\ func_temp_counter_save \in Seq(Nat)
  /\ lvalue \in 0..Len(symbols)
  /\ declared \in Seq(SUBSET Nat) /\ declared # <<>>

\* Only what is innermost can be a list of formals; the functions are as many
\* as the sets of declared symbols, and scope_space_counter counts them.
Nested ==
  /\ \A k \in OpenFunctions : parsing[k].sym \in 1..Len(symbols)
  /\ \A k \in DOMAIN parsing : parsing[k].kind = "formals" => k = Len(parsing)
  /\ Nesting = Cardinality(OpenFunctions)
  /\ scope_space_counter = 2 * Nesting + (IF InStatements THEN 1 ELSE 0)
  /\ Len(func_temp_counter_save) = IF InStatements THEN Nesting ELSE Nesting - 1

\* A symbol is active only while the scope it was declared in is open.
ActiveInScope ==
  \A i \in DOMAIN symbols : symbols[i].is_active => symbols[i].s_scope <= current_scope_depth

Structure == Typed /\ Nested /\ ActiveInScope

-----------------------------------------------------------------------------
(* What the steps do to the symbols. *)

LEMMA SymbolFields ==
  ASSUME Typed
  PROVE  /\ Len(symbols) \in Nat /\ DOMAIN symbols = 1..Len(symbols)
         /\ \A i \in 1..Len(symbols) : symbols[i] \in SymbolRecords
BY LenProperties, ElementOfSeq DEF Typed

LEMMA SpaceIsSpace == CurrScopespace \in Spaces
BY DEF CurrScopespace, Spaces

LEMMA OffsetsAreTyped ==
  ASSUME Typed
  PROVE  /\ offsets[CurrScopespace] \in Nat
         /\ NextOffsets \in [Spaces -> Nat]
BY SpaceIsSpace DEF Typed, NextOffsets

LEMMA AddedSymbol ==
  ASSUME Typed, NEW name \in AnyName, NEW type \in SymbolTypes
  PROVE  LET s == WithSymbol(name, type)
             new == Symbol(name, type, current_scope_depth, CurrScopespace, offsets[CurrScopespace])
         IN  /\ s \in Seq(SymbolRecords) /\ Len(s) = Len(symbols) + 1
             /\ DOMAIN s = 1..Len(symbols) + 1
             /\ \A i \in 1..Len(symbols) : s[i] = symbols[i]
             /\ s[Len(symbols) + 1] = new
             /\ new \in SymbolRecords
<1> DEFINE new == Symbol(name, type, current_scope_depth, CurrScopespace, offsets[CurrScopespace])
<1>1. current_scope_depth \in Nat
  BY LenProperties DEF Typed
<1>2. new \in SymbolRecords
  BY <1>1, SpaceIsSpace, OffsetsAreTyped DEF Symbol, SymbolRecords
<1> HIDE DEF new
<1>3. symbols \in Seq(SymbolRecords)
  BY DEF Typed
<1>4. /\ Append(symbols, new) \in Seq(SymbolRecords)
      /\ Len(Append(symbols, new)) = Len(symbols) + 1
      /\ \A i \in 1..Len(symbols) : Append(symbols, new)[i] = symbols[i]
      /\ Append(symbols, new)[Len(symbols) + 1] = new
  BY <1>2, <1>3, AppendProperties
<1>5. DOMAIN Append(symbols, new) = 1..Len(symbols) + 1
  BY <1>4, LenProperties
<1>6. WithSymbol(name, type) = Append(symbols, new)
  BY DEF WithSymbol, new
<1> QED
  BY <1>2, <1>4, <1>5, <1>6 DEF new

\* Hiding changes whether a symbol is active, and nothing else of it.
LEMMA HiddenSymbols ==
  ASSUME Typed, NEW d \in Nat
  PROVE  /\ Hidden(d) \in Seq(SymbolRecords) /\ Len(Hidden(d)) = Len(symbols)
         /\ \A i \in 1..Len(symbols) :
              Hidden(d)[i] = [symbols[i] EXCEPT !.is_active = @ /\ symbols[i].s_scope # d]
<1>1. \A i \in 1..Len(symbols) :
        [symbols[i] EXCEPT !.is_active = @ /\ symbols[i].s_scope # d] \in SymbolRecords
  BY SymbolFields DEF SymbolRecords
<1>2. Hidden(d) = [i \in 1..Len(symbols) |->
                    [symbols[i] EXCEPT !.is_active = @ /\ symbols[i].s_scope # d]]
  BY SymbolFields DEF Hidden
<1>3. Hidden(d) \in [1..Len(symbols) -> SymbolRecords]
  BY <1>1, <1>2
<1>4. Len(symbols) \in Nat
  BY SymbolFields
<1> QED
  BY <1>2, <1>3, <1>4, SeqDef

-----------------------------------------------------------------------------
(* The structure is kept. *)

\* What the rules for variables, temporaries and formals have in common.
VariableStep ==
  /\ \/ NoNewSymbol
     \/ \E name \in AnyName, type \in SymbolTypes : AddVariable(name, type)
  /\ lvalue' \in 0..Len(symbols')
  /\ temp_counter' \in Nat
  /\ UNCHANGED <<current_scope_depth, scope_space_counter, func_temp_counter_save, parsing>>

\* A lookup finds nothing or one of the symbols.
LEMMA LookupIsSymbol ==
  ASSUME Typed, NEW name, NEW depth
  PROVE  /\ LookupInScope(name, depth) \in 0..Len(symbols)
         /\ LookupInScope(name, depth) # Null =>
              LET i == LookupInScope(name, depth) IN
                /\ i \in 1..Len(symbols)
                /\ symbols[i].is_active /\ symbols[i].s_scope = depth /\ symbols[i].s_name = name
<1> DEFINE S == {i \in DOMAIN symbols : symbols[i].is_active /\ symbols[i].s_scope = depth
                                          /\ symbols[i].s_name = name}
<1>1. LookupInScope(name, depth) = Newest(S)
  BY DEF LookupInScope
<1>2. S \subseteq 1..Len(symbols) /\ Len(symbols) \in Nat
  BY SymbolFields
<1>3. CASE S = {}
  <2>1. Newest(S) = Null
    BY <1>3 DEF Newest
  <2> QED BY <1>1, <1>2, <2>1 DEF Null
<1>4. CASE S # {}
  <2>1. Newest(S) \in S
    <3> HIDE DEF S
    <3> QED BY <1>2, <1>4, NewestIsLast
  <2> QED
    BY <1>1, <1>2, <2>1
<1> HIDE DEF S
<1> QED
  BY <1>3, <1>4

LEMMA ActiveLookupIsSymbol ==
  ASSUME Typed, NEW name
  PROVE  /\ LookupActiveSymbol(name) \in 0..Len(symbols)
         /\ LookupActiveSymbol(name) # Null =>
              LET i == LookupActiveSymbol(name) IN
                /\ i \in 1..Len(symbols)
                /\ symbols[i].is_active /\ symbols[i].s_name = name
                /\ \A j \in ActiveNamed(name) : symbols[j].s_scope <= symbols[i].s_scope
<1> DEFINE S == {i \in ActiveNamed(name) :
                   \A j \in ActiveNamed(name) : symbols[j].s_scope <= symbols[i].s_scope}
<1>1. LookupActiveSymbol(name) = Newest(S)
  BY DEF LookupActiveSymbol
<1>2. S \subseteq 1..Len(symbols) /\ Len(symbols) \in Nat
  BY SymbolFields DEF ActiveNamed
<1>3. CASE S = {}
  <2>1. Newest(S) = Null
    BY <1>3 DEF Newest
  <2> QED BY <1>1, <1>2, <2>1 DEF Null
<1>4. CASE S # {}
  <2>1. Newest(S) \in S
    <3> HIDE DEF S
    <3> QED BY <1>2, <1>4, NewestIsLast
  <2> QED
    BY <1>1, <1>2, <2>1 DEF ActiveNamed
<1> HIDE DEF S
<1> QED
  BY <1>3, <1>4

LEMMA TypesOfVariables ==
  /\ VariableType \in SymbolTypes
  /\ {"userfunc", "formal", "localvar"} \subseteq SymbolTypes
  /\ \A x \in Names : Ident(x) \in AnyName
  /\ \A n \in Nat : TempName(n) \in AnyName
  /\ HiddenName \in AnyName
BY DEF VariableType, SymbolTypes, AnyName

LEMMA AddedIsLast ==
  ASSUME Typed, NEW name \in AnyName, NEW type \in SymbolTypes, AddVariable(name, type)
  PROVE  Len(symbols') = Len(symbols) + 1 /\ NewSymbol \in 1..Len(symbols')
BY AddedSymbol, SymbolFields DEF AddVariable, NewSymbol

LEMMA UsesAreVariableSteps ==
  ASSUME Typed, NEW x \in Names
  PROVE  UseIdent(x) \/ UseLocal(x) \/ UseGlobal(x) \/ Formal(x) => VariableStep
<1>1. ASSUME UseIdent(x) PROVE VariableStep
  BY <1>1, ActiveLookupIsSymbol, TypesOfVariables, AddedIsLast
     DEF UseIdent, VariableStep, NoNewSymbol, UnchangedByLvalue, Typed
<1>2. ASSUME UseLocal(x) PROVE VariableStep
  BY <1>2, LookupIsSymbol, TypesOfVariables, AddedIsLast
     DEF UseLocal, VariableStep, NoNewSymbol, UnchangedByLvalue, Typed
<1>3. ASSUME UseGlobal(x) PROVE VariableStep
  BY <1>3, LookupIsSymbol DEF UseGlobal, VariableStep, NoNewSymbol, UnchangedByLvalue, Typed
<1>4. ASSUME Formal(x) PROVE VariableStep
  <2>1. Len(symbols') \in Nat /\ lvalue' = 0
    BY <1>4, TypesOfVariables, AddedIsLast, SymbolFields DEF Formal, Null
  <2> QED
    BY <1>4, <2>1, TypesOfVariables DEF Formal, VariableStep, UnchangedByLvalue, Typed
<1> QED
  BY <1>1, <1>2, <1>3, <1>4

LEMMA CreateTempIsVariableStep == Typed /\ CreateTempVar => VariableStep
<1> SUFFICES ASSUME Typed, CreateTempVar PROVE VariableStep
  OBVIOUS
<1>1. temp_counter \in Nat /\ temp_counter' \in Nat /\ lvalue' = 0
  BY DEF Typed, CreateTempVar, Null
<1>2. TempName(temp_counter) \in AnyName
  BY <1>1, TypesOfVariables
<1>3. Len(symbols') \in Nat
  BY <1>2, TypesOfVariables, AddedIsLast, SymbolFields DEF CreateTempVar, NoNewSymbol
<1> QED
  BY <1>1, <1>2, <1>3, TypesOfVariables DEF CreateTempVar, VariableStep

LEMMA VariableStepKeepsStructure == Structure /\ VariableStep => Structure'
<1> SUFFICES ASSUME Structure, VariableStep PROVE Structure'
  OBVIOUS
<1> USE DEF Structure
<1>1. CASE NoNewSymbol
  BY <1>1 DEF NoNewSymbol, VariableStep, Typed, Nested, ActiveInScope, Nesting, OpenFunctions, InStatements
<1>2. ASSUME NEW name \in AnyName, NEW type \in SymbolTypes, AddVariable(name, type)
      PROVE  Structure'
  <2>1. /\ symbols' \in Seq(SymbolRecords) /\ Len(symbols') = Len(symbols) + 1
        /\ DOMAIN symbols' = 1..Len(symbols) + 1
        /\ \A i \in 1..Len(symbols) : symbols'[i] = symbols[i]
        /\ symbols'[Len(symbols) + 1].s_scope = current_scope_depth
    <3>1. Symbol(name, type, current_scope_depth, CurrScopespace, offsets[CurrScopespace]).s_scope
            = current_scope_depth
      BY DEF Symbol
    <3> QED BY <1>2, <3>1, AddedSymbol DEF AddVariable
  <2>2. Len(symbols) \in Nat /\ DOMAIN symbols = 1..Len(symbols) /\ current_scope_depth \in Nat
    BY SymbolFields, LenProperties DEF Typed
  <2>3. declared' \in Seq(SUBSET Nat) /\ declared' # <<>> /\ Len(declared') = Len(declared)
    <3>1. declared \in Seq(SUBSET Nat) /\ declared # <<>> /\ Len(declared) \in 1..Len(declared)
      BY EmptySeq DEF Typed
    <3>2. declared[Len(declared)] \cup {NewSymbol} \in SUBSET Nat
      BY <2>2, <3>1, ElementOfSeq DEF NewSymbol
    <3>3. declared' = [declared EXCEPT ![Len(declared)] = declared[Len(declared)] \cup {NewSymbol}]
      BY <1>2 DEF AddVariable, DeclaredHere
    <3> QED
      BY <3>1, <3>2, <3>3, ExceptSeq, EmptySeq
  <2>4. Typed'
    BY <1>2, <2>1, <2>3, OffsetsAreTyped DEF VariableStep, AddVariable, Typed
  <2>5. Nested'
    BY <2>1, <2>2, <2>3 DEF VariableStep, Nested, Nesting, OpenFunctions, InStatements
  <2>6. ActiveInScope'
    BY <2>1, <2>2 DEF VariableStep, ActiveInScope
  <2> QED
    BY <2>4, <2>5, <2>6
<1> QED
  BY <1>1, <1>2 DEF VariableStep

-----------------------------------------------------------------------------
(* Blocks and functions. *)

LEMMA ParsingFields ==
  ASSUME Typed
  PROVE  /\ Len(parsing) \in Nat /\ DOMAIN parsing = 1..Len(parsing)
         /\ (parsing # <<>> <=> Len(parsing) > 0)
         /\ \A k \in 1..Len(parsing) : parsing[k] \in Rules
         /\ current_scope_depth = Len(parsing)
         /\ Last(parsing) = parsing[Len(parsing)]
BY LenProperties, EmptySeq, ElementOfSeq DEF Typed, Last

\* The functions around the parser are places, and finitely many.
LEMMA FunctionsAreFinite ==
  ASSUME Typed
  PROVE  /\ OpenFunctions \subseteq 1..Len(parsing)
         /\ IsFiniteSet(OpenFunctions) /\ Cardinality(OpenFunctions) \in Nat
<1>1. OpenFunctions \subseteq 1..Len(parsing) /\ Len(parsing) \in Nat
  BY ParsingFields DEF OpenFunctions
<1>2. IsFiniteSet(1..Len(parsing))
  BY <1>1, FS_Interval
<1> QED
  BY <1>1, <1>2, FS_Subset, FS_CardinalityType

LEMMA NestingIsNat ==
  ASSUME Typed
  PROVE  Nesting \in Nat /\ Len(declared) = Nesting + 1 /\ DOMAIN declared = 1..Nesting + 1
BY EmptySeq, LenProperties DEF Typed, Nesting

\* A rule begins: it is put on the stack, and counts if it is a function.
LEMMA RuleBegins ==
  ASSUME Typed, NEW r \in Rules, parsing' = Append(parsing, r)
  PROVE  /\ parsing' \in Seq(Rules) /\ Len(parsing') = Len(parsing) + 1
         /\ DOMAIN parsing' = 1..Len(parsing) + 1
         /\ \A k \in 1..Len(parsing) : parsing'[k] = parsing[k]
         /\ parsing'[Len(parsing) + 1] = r /\ Last(parsing') = r
         /\ OpenFunctions' = OpenFunctions \cup (IF r.kind = "block" THEN {} ELSE {Len(parsing) + 1})
         /\ Cardinality(OpenFunctions') = Cardinality(OpenFunctions) + (IF r.kind = "block" THEN 0 ELSE 1)
<1>1. /\ parsing' \in Seq(Rules) /\ Len(parsing') = Len(parsing) + 1 /\ parsing' # <<>>
      /\ \A k \in 1..Len(parsing) : parsing'[k] = parsing[k]
      /\ parsing'[Len(parsing) + 1] = r
  <2>1. parsing \in Seq(Rules)
    BY DEF Typed
  <2> QED BY <2>1, AppendProperties
<1>2. DOMAIN parsing' = 1..Len(parsing) + 1 /\ Last(parsing') = r
  BY <1>1, LenProperties DEF Last
<1>3. OpenFunctions' = OpenFunctions \cup (IF r.kind = "block" THEN {} ELSE {Len(parsing) + 1})
  BY <1>1, <1>2, ParsingFields DEF OpenFunctions
<1>4. Len(parsing) + 1 \notin OpenFunctions
  BY FunctionsAreFinite, ParsingFields
<1>5. Cardinality(OpenFunctions') = Cardinality(OpenFunctions) + (IF r.kind = "block" THEN 0 ELSE 1)
  <2>1. CASE r.kind = "block"
    BY <1>3, <2>1, FunctionsAreFinite
  <2>2. CASE r.kind # "block"
    BY <1>3, <1>4, <2>2, FunctionsAreFinite, FS_AddElement
  <2> QED BY <2>1, <2>2
<1> QED
  BY <1>1, <1>2, <1>3, <1>5

\* A rule ends: it is taken from the stack.
LEMMA RuleEnds ==
  ASSUME Typed, parsing # <<>>, parsing' = Front(parsing)
  PROVE  /\ parsing' \in Seq(Rules) /\ Len(parsing') = Len(parsing) - 1 /\ Len(parsing') \in Nat
         /\ DOMAIN parsing' = 1..Len(parsing) - 1
         /\ \A k \in 1..Len(parsing) - 1 : parsing'[k] = parsing[k]
         /\ OpenFunctions' = OpenFunctions \ {Len(parsing)}
         /\ Cardinality(OpenFunctions')
              = Cardinality(OpenFunctions) - (IF Last(parsing).kind = "block" THEN 0 ELSE 1)
<1>1. /\ parsing' \in Seq(Rules) /\ Len(parsing') = Len(parsing) - 1 /\ Len(parsing) \in Nat \ {0}
      /\ \A k \in 1..Len(parsing) - 1 : parsing'[k] = parsing[k]
      /\ Last(parsing) = parsing[Len(parsing)]
  BY LastProperties DEF Typed
<1>2. DOMAIN parsing' = 1..Len(parsing) - 1
  BY <1>1, LenProperties
<1>3. OpenFunctions' = OpenFunctions \ {Len(parsing)}
  BY <1>1, <1>2, ParsingFields DEF OpenFunctions
<1>4. Cardinality(OpenFunctions')
        = Cardinality(OpenFunctions) - (IF Last(parsing).kind = "block" THEN 0 ELSE 1)
  <2>1. CASE Last(parsing).kind = "block"
    <3>1. Len(parsing) \notin OpenFunctions
      BY <1>1, <2>1 DEF OpenFunctions
    <3>2. OpenFunctions' = OpenFunctions
      BY <1>3, <3>1
    <3> QED BY <2>1, <3>2, FunctionsAreFinite
  <2>2. CASE Last(parsing).kind # "block"
    <3>1. Len(parsing) \in OpenFunctions
      BY <1>1, <2>2, ParsingFields DEF OpenFunctions
    <3> QED BY <1>3, <2>2, <3>1, FunctionsAreFinite, FS_RemoveElement
  <2> QED BY <2>1, <2>2
<1> QED
  BY <1>1, <1>2, <1>3, <1>4

LEMMA BlockStartKeepsStructure == Structure /\ BlockStart => Structure'
<1> SUFFICES ASSUME Structure, BlockStart PROVE Structure'
  OBVIOUS
<1> USE DEF Structure
<1> DEFINE r == [kind |-> "block", sym |-> Null]
<1>1. r \in Rules /\ r.kind = "block" /\ parsing' = Append(parsing, r)
  BY DEF Rules, Null, BlockStart
<1> HIDE DEF r
<1>2. /\ parsing' \in Seq(Rules) /\ Len(parsing') = Len(parsing) + 1
      /\ DOMAIN parsing' = 1..Len(parsing) + 1
      /\ \A k \in 1..Len(parsing) : parsing'[k] = parsing[k]
      /\ parsing'[Len(parsing) + 1].kind = "block" /\ Last(parsing').kind = "block"
      /\ OpenFunctions' = OpenFunctions
      /\ Cardinality(OpenFunctions') = Cardinality(OpenFunctions)
  BY <1>1, RuleBegins, FunctionsAreFinite
<1>3. Typed'
  BY <1>2, SymbolFields DEF Typed, BlockStart, counters, Null
<1>4. InStatements /\ InStatements'
  BY <1>2 DEF BlockStart, InStatements
<1>5. \A k \in 1..Len(parsing) : parsing[k].kind # "formals"
  BY <1>4, ParsingFields DEF Nested, InStatements
<1>6. Nested'
  <2>1. \A k \in OpenFunctions' : parsing'[k].sym \in 1..Len(symbols')
    BY <1>2, FunctionsAreFinite DEF Nested, BlockStart
  <2>2. \A k \in DOMAIN parsing' : parsing'[k].kind # "formals"
    BY <1>2, <1>5, ParsingFields
  <2>3. scope_space_counter' = 2 * Nesting' + 1 /\ Len(func_temp_counter_save') = Nesting'
    <3>1. Nesting' = Nesting /\ Nesting \in Nat
      BY NestingIsNat DEF BlockStart, Nesting
    <3> QED
      BY <1>4, <3>1 DEF Nested, BlockStart, counters
  <2>4. Nesting' = Cardinality(OpenFunctions')
    BY <1>2 DEF Nested, BlockStart, Nesting
  <2> QED
    BY <1>4, <2>1, <2>2, <2>3, <2>4 DEF Nested
<1>7. ActiveInScope'
  BY SymbolFields, ParsingFields DEF ActiveInScope, BlockStart, SymbolRecords
<1> QED
  BY <1>3, <1>6, <1>7

\* What the end of a block or function leaves: symbols of the scope are hidden.
LEMMA ScopeCloses ==
  ASSUME Typed, ActiveInScope, parsing # <<>>,
         Len(symbols') = Len(symbols), symbols' \in Seq(SymbolRecords),
         \A i \in 1..Len(symbols) :
           /\ symbols'[i].is_active = (symbols[i].is_active /\ symbols[i].s_scope # current_scope_depth)
           /\ symbols'[i].s_scope = symbols[i].s_scope,
         current_scope_depth' = current_scope_depth - 1
  PROVE  ActiveInScope'
<1>1. DOMAIN symbols' = 1..Len(symbols) /\ DOMAIN symbols = 1..Len(symbols)
  BY LenProperties, SymbolFields
<1>2. \A i \in 1..Len(symbols) : symbols[i].s_scope \in Nat
  BY SymbolFields DEF SymbolRecords
<1>3. ASSUME NEW i \in 1..Len(symbols), symbols'[i].is_active
      PROVE  symbols'[i].s_scope <= current_scope_depth'
  <2>1. /\ symbols[i].s_scope <= current_scope_depth /\ symbols[i].s_scope # current_scope_depth
        /\ symbols'[i].s_scope = symbols[i].s_scope
    BY <1>1, <1>3 DEF ActiveInScope
  <2>2. current_scope_depth \in Nat /\ current_scope_depth' = current_scope_depth - 1
    BY ParsingFields
  <2> QED BY <1>2, <2>1, <2>2
<1> QED
  BY <1>1, <1>3 DEF ActiveInScope

LEMMA BlockEndKeepsStructure == Structure /\ BlockEnd => Structure'
<1> SUFFICES ASSUME Structure, BlockEnd PROVE Structure'
  OBVIOUS
<1> USE DEF Structure
<1>1. /\ parsing' \in Seq(Rules) /\ Len(parsing') = Len(parsing) - 1 /\ Len(parsing') \in Nat
      /\ DOMAIN parsing' = 1..Len(parsing) - 1
      /\ \A k \in 1..Len(parsing) - 1 : parsing'[k] = parsing[k]
      /\ OpenFunctions' = OpenFunctions \ {Len(parsing)}
      /\ Cardinality(OpenFunctions') = Cardinality(OpenFunctions)
  BY RuleEnds, FunctionsAreFinite DEF BlockEnd
<1>2. /\ symbols' \in Seq(SymbolRecords) /\ Len(symbols') = Len(symbols)
      /\ \A i \in 1..Len(symbols) :
           symbols'[i] = [symbols[i] EXCEPT !.is_active = @ /\ symbols[i].s_scope # current_scope_depth]
  BY HiddenSymbols, ParsingFields DEF BlockEnd
<1>3. Typed'
  BY <1>1, <1>2, SymbolFields, ParsingFields DEF Typed, BlockEnd, counters, Null
<1>4. \A k \in 1..Len(parsing) : parsing[k].kind # "formals"
  BY ParsingFields DEF Nested, BlockEnd
<1>5. InStatements /\ InStatements'
  <2>1. InStatements
    BY DEF InStatements, BlockEnd
  <2>2. parsing' # <<>> => Last(parsing') = parsing'[Len(parsing')] /\ Len(parsing') \in 1..Len(parsing) - 1
    <3> SUFFICES ASSUME parsing' # <<>>
                 PROVE  Last(parsing') = parsing'[Len(parsing')] /\ Len(parsing') \in 1..Len(parsing) - 1
      OBVIOUS
    <3>1. Len(parsing') \in Nat \ {0} /\ Last(parsing') = parsing'[Len(parsing')]
      BY <1>1, LastProperties
    <3> QED BY <1>1, <3>1, ParsingFields
  <2> QED
    BY <1>1, <1>4, <2>1, <2>2 DEF InStatements
<1>6. Nested'
  <2>1. \A k \in OpenFunctions' : parsing'[k].sym \in 1..Len(symbols')
    BY <1>1, <1>2, FunctionsAreFinite DEF Nested
  <2>2. \A k \in DOMAIN parsing' : parsing'[k].kind # "formals"
    BY <1>1, <1>4
  <2>3. /\ scope_space_counter' = 2 * Nesting' + 1 /\ Nesting' = Nesting
        /\ Len(func_temp_counter_save') = Nesting'
    <3>1. Nesting' = Nesting /\ Nesting \in Nat
      BY NestingIsNat DEF BlockEnd, Nesting
    <3> QED
      BY <1>5, <3>1 DEF Nested, BlockEnd, counters
  <2> QED
    BY <1>1, <1>5, <2>1, <2>2, <2>3 DEF Nested
<1>7. ActiveInScope'
  <2>1. \A i \in 1..Len(symbols) :
           /\ symbols'[i].is_active = (symbols[i].is_active /\ symbols[i].s_scope # current_scope_depth)
           /\ symbols'[i].s_scope = symbols[i].s_scope
    BY <1>2, SymbolFields DEF SymbolRecords
  <2> QED
    BY <1>2, <2>1, ScopeCloses DEF BlockEnd
<1> QED
  BY <1>3, <1>6, <1>7

LEMMA DeclaredFields ==
  ASSUME Typed
  PROVE  /\ declared \in Seq(SUBSET Nat) /\ Len(declared) \in Nat \ {0}
         /\ DOMAIN declared = 1..Len(declared)
         /\ \A n \in 1..Len(declared) : declared[n] \subseteq Nat
         /\ Last(declared) = declared[Len(declared)]
BY EmptySeq, LenProperties, ElementOfSeq DEF Typed, Last

\* The symbols declared where the parser is, with one more.
LEMMA OneMoreDeclared ==
  ASSUME Typed
  PROVE  /\ DeclaredHere \in Seq(SUBSET Nat) /\ DeclaredHere # <<>>
         /\ Len(DeclaredHere) = Len(declared)
         /\ DeclaredHere[Len(declared)] = declared[Len(declared)] \cup {NewSymbol}
         /\ \A n \in 1..Len(declared) - 1 : DeclaredHere[n] = declared[n]
<1>1. declared[Len(declared)] \cup {NewSymbol} \in SUBSET Nat
  BY DeclaredFields, SymbolFields DEF NewSymbol
<1>2. DeclaredHere = [declared EXCEPT ![Len(declared)] = declared[Len(declared)] \cup {NewSymbol}]
  BY DEF DeclaredHere
<1>3. Len(declared) \in 1..Len(declared) /\ 1..Len(declared) - 1 \subseteq 1..Len(declared)
  BY DeclaredFields
<1>4. declared \in Seq(SUBSET Nat)
  BY DeclaredFields
<1>5. /\ DeclaredHere \in Seq(SUBSET Nat) /\ Len(DeclaredHere) = Len(declared)
      /\ \A n \in 1..Len(declared) : DeclaredHere[n] = IF n = Len(declared)
                  THEN declared[Len(declared)] \cup {NewSymbol} ELSE declared[n]
  BY <1>1, <1>2, <1>3, <1>4, ExceptSeq
<1>6. DeclaredHere # <<>>
  BY <1>5, DeclaredFields, EmptySeq
<1> QED
  BY <1>3, <1>5, <1>6, DeclaredFields

\* One function more is open, with a set of symbols of its own, and the next
\* symbols are its formals.
LEMMA FuncStartKeepsStructure ==
  ASSUME NEW name \in AnyName, Structure, FuncStart(name)
  PROVE  Structure'
<1> USE DEF Structure
<1> DEFINE isNew == LookupInScope(name, current_scope_depth) = Null \/ name = HiddenName
           f == IF isNew THEN NewSymbol ELSE LookupInScope(name, current_scope_depth)
           decl == IF isNew THEN DeclaredHere ELSE declared
           r == [kind |-> "formals", sym |-> f]
<1>1. /\ f \in 1..Len(symbols') /\ Len(symbols') \in Nat
      /\ symbols' \in Seq(SymbolRecords) /\ Len(symbols) <= Len(symbols')
      /\ DOMAIN symbols' = 1..Len(symbols')
      /\ \A i \in 1..Len(symbols) : symbols'[i] = symbols[i]
      /\ \A i \in 1..Len(symbols') : i \notin 1..Len(symbols) => symbols'[i].s_scope = current_scope_depth
      /\ offsets' \in [Spaces -> Nat]
      /\ decl \in Seq(SUBSET Nat) /\ decl # <<>> /\ Len(decl) = Len(declared)
  <2>1. CASE ~ isNew
    <3>1. symbols' = symbols /\ offsets' = [offsets EXCEPT !["formalarg"] = 0] /\ decl = declared
      BY <2>1 DEF FuncStart
    <3>2. f \in 1..Len(symbols)
      BY <2>1, LookupIsSymbol
    <3>3. offsets' \in [Spaces -> Nat]
      BY <3>1 DEF Typed
    <3>4. declared \in Seq(SUBSET Nat) /\ declared # <<>> /\ symbols \in Seq(SymbolRecords)
      BY DEF Typed
    <3> HIDE DEF f, decl, isNew
    <3> QED
      BY <3>1, <3>2, <3>3, <3>4, SymbolFields
  <2>2. CASE isNew
    <3>1. /\ symbols' = WithSymbol(name, "userfunc")
          /\ offsets' = [NextOffsets EXCEPT !["formalarg"] = 0]
          /\ decl = DeclaredHere /\ f = Len(symbols) + 1
      BY <2>2 DEF FuncStart, NewSymbol
    <3>2. /\ symbols' \in Seq(SymbolRecords) /\ Len(symbols') = Len(symbols) + 1
          /\ DOMAIN symbols' = 1..Len(symbols) + 1
          /\ \A i \in 1..Len(symbols) : symbols'[i] = symbols[i]
          /\ symbols'[Len(symbols) + 1].s_scope = current_scope_depth
      <4>1. Symbol(name, "userfunc", current_scope_depth, CurrScopespace, offsets[CurrScopespace]).s_scope
              = current_scope_depth
        BY DEF Symbol
      <4> QED BY <3>1, <4>1, TypesOfVariables, AddedSymbol
    <3>3. offsets' \in [Spaces -> Nat]
      BY <3>1, OffsetsAreTyped
    <3>4. Len(symbols) \in Nat
      BY SymbolFields
    <3> HIDE DEF f, decl, isNew
    <3> QED
      BY <3>1, <3>2, <3>3, <3>4, OneMoreDeclared
  <2> QED
    BY <2>1, <2>2
<1>2. /\ r \in Rules /\ r.kind = "formals" /\ r.sym = f /\ parsing' = Append(parsing, r)
      /\ declared' = Append(decl, {})
  <2>1. f \in Nat
    BY <1>1
  <2> QED BY <2>1 DEF Rules, FuncStart
<1> HIDE DEF r, f, decl, isNew
<1>3. /\ parsing' \in Seq(Rules) /\ Len(parsing') = Len(parsing) + 1
      /\ DOMAIN parsing' = 1..Len(parsing) + 1
      /\ \A k \in 1..Len(parsing) : parsing'[k] = parsing[k]
      /\ parsing'[Len(parsing) + 1] = r /\ Last(parsing') = r
      /\ OpenFunctions' = OpenFunctions \cup {Len(parsing) + 1}
      /\ Cardinality(OpenFunctions') = Cardinality(OpenFunctions) + 1
  BY <1>2, RuleBegins
<1>4. declared' \in Seq(SUBSET Nat) /\ declared' # <<>> /\ Len(declared') = Len(declared) + 1
  <2>1. {} \in SUBSET Nat
    OBVIOUS
  <2> QED BY <1>1, <1>2, <2>1, AppendProperties, EmptySeq
<1>5. Typed'
  BY <1>1, <1>3, <1>4, SymbolFields, LenProperties DEF Typed, FuncStart, Null
<1>6. InStatements /\ ~ InStatements'
  <2>1. parsing' # <<>>
    BY <1>3, ParsingFields, EmptySeq
  <2> QED BY <1>2, <1>3, <2>1 DEF FuncStart, InStatements
<1>7. \A k \in 1..Len(parsing) : parsing[k].kind # "formals"
  BY <1>6, ParsingFields DEF Nested, InStatements
<1>8. Nested'
  <2>1. \A k \in OpenFunctions' : parsing'[k].sym \in 1..Len(symbols')
    <3>1. 1..Len(symbols) \subseteq 1..Len(symbols')
      BY <1>1, SymbolFields
    <3>2. \A k \in OpenFunctions : parsing'[k].sym \in 1..Len(symbols')
      BY <1>3, <3>1, FunctionsAreFinite DEF Nested
    <3> QED BY <1>1, <1>2, <1>3, <3>2
  <2>2. \A k \in DOMAIN parsing' : parsing'[k].kind = "formals" => k = Len(parsing')
    BY <1>3, <1>7, ParsingFields
  <2>3. Nesting' = Nesting + 1 /\ Nesting \in Nat
    BY <1>4, NestingIsNat DEF Nesting
  <2>4. scope_space_counter' = 2 * Nesting' /\ Len(func_temp_counter_save') = Nesting' - 1
    <3>1. scope_space_counter = 2 * Nesting + 1 /\ Len(func_temp_counter_save) = Nesting
      BY <1>6 DEF Nested
    <3>2. scope_space_counter' = scope_space_counter + 1 /\ func_temp_counter_save' = func_temp_counter_save
      BY DEF FuncStart
    <3> QED BY <2>3, <3>1, <3>2
  <2> QED
    BY <1>3, <1>6, <2>1, <2>2, <2>3, <2>4 DEF Nested
<1>9. ActiveInScope'
  <2>1. current_scope_depth \in Nat /\ current_scope_depth' = current_scope_depth + 1
    BY ParsingFields DEF FuncStart
  <2>2. \A i \in 1..Len(symbols) : symbols[i].is_active => symbols[i].s_scope <= current_scope_depth'
    <3>1. \A i \in 1..Len(symbols) : symbols[i].s_scope \in Nat
      BY SymbolFields DEF SymbolRecords
    <3>2. \A i \in 1..Len(symbols) : symbols[i].is_active => symbols[i].s_scope <= current_scope_depth
      BY SymbolFields DEF ActiveInScope
    <3> QED BY <2>1, <3>1, <3>2
  <2>3. \A i \in 1..Len(symbols') : i \notin 1..Len(symbols) => symbols'[i].s_scope <= current_scope_depth'
    BY <1>1, <2>1
  <2> QED
    BY <1>1, <2>2, <2>3 DEF ActiveInScope
<1> QED
  BY <1>5, <1>8, <1>9

LEMMA BodyStarts ==
  ASSUME Typed, BodyStart
  PROVE  /\ parsing' \in Seq(Rules) /\ Len(parsing') = Len(parsing) /\ Len(parsing) \in Nat \ {0}
         /\ DOMAIN parsing' = 1..Len(parsing)
         /\ \A k \in 1..Len(parsing) - 1 : parsing'[k] = parsing[k]
         /\ parsing[Len(parsing)].kind = "formals" /\ parsing'[Len(parsing)].kind = "body"
         /\ parsing'[Len(parsing)].sym = parsing[Len(parsing)].sym
         /\ parsing' # <<>> /\ Last(parsing') = parsing'[Len(parsing)]
         /\ OpenFunctions' = OpenFunctions
<1> DEFINE n == Len(parsing)
           r == [parsing[n] EXCEPT !.kind = "body"]
<1>1. n \in Nat \ {0} /\ n \in 1..n /\ parsing[n] \in Rules /\ parsing[n].kind = "formals"
  BY ParsingFields DEF BodyStart
<1>2. r \in Rules /\ r.kind = "body" /\ r.sym = parsing[n].sym
  BY <1>1 DEF Rules
<1>3. parsing' = [parsing EXCEPT ![n] = r]
  BY DEF BodyStart
<1>4. /\ parsing' \in Seq(Rules) /\ Len(parsing') = n
      /\ \A k \in 1..n - 1 : parsing'[k] = parsing[k]
      /\ parsing'[n] = r
  <2> HIDE DEF r, n
  <2>1. parsing \in Seq(Rules) /\ n = Len(parsing)
    BY DEF Typed, n
  <2> QED BY <1>1, <1>2, <1>3, <2>1, ExceptSeq
<1> HIDE DEF r
<1>5. DOMAIN parsing' = 1..n /\ parsing' # <<>> /\ Last(parsing') = parsing'[n]
  BY <1>1, <1>4, LenProperties, EmptySeq DEF Last
<1>6. OpenFunctions' = OpenFunctions
  BY <1>1, <1>2, <1>4, <1>5, ParsingFields DEF OpenFunctions
<1> QED
  BY <1>1, <1>2, <1>4, <1>5, <1>6

LEMMA BodyStartKeepsStructure == Structure /\ BodyStart => Structure'
<1> SUFFICES ASSUME Structure, BodyStart PROVE Structure'
  OBVIOUS
<1> USE DEF Structure
<1>1. Typed'
  <2>1. offsets' \in [Spaces -> Nat]
    BY DEF Typed, BodyStart
  <2>2. func_temp_counter_save' \in Seq(Nat)
    BY AppendProperties DEF Typed, BodyStart
  <2> QED
    BY <2>1, <2>2, BodyStarts, SymbolFields DEF Typed, BodyStart, Null
<1>2. Nested'
  <2>1. ~ InStatements /\ InStatements'
    BY BodyStarts, ParsingFields DEF InStatements, BodyStart
  <2>2. \A k \in OpenFunctions' : parsing'[k].sym \in 1..Len(symbols')
    BY BodyStarts, ParsingFields, FunctionsAreFinite DEF Nested, BodyStart
  <2>3. \A k \in DOMAIN parsing' : parsing'[k].kind # "formals"
    BY BodyStarts, ParsingFields DEF Nested
  <2>4. Nesting' = Nesting /\ Nesting \in Nat
    BY NestingIsNat DEF Nesting, BodyStart
  <2>5. scope_space_counter' = 2 * Nesting' + 1
    BY <2>1, <2>4 DEF Nested, BodyStart
  <2>6. Len(func_temp_counter_save') = Nesting'
    <3>1. Len(func_temp_counter_save) = Nesting - 1
      BY <2>1 DEF Nested
    <3> QED BY <2>4, <3>1, AppendProperties DEF Typed, BodyStart
  <2> QED
    BY <2>1, <2>2, <2>3, <2>4, <2>5, <2>6, BodyStarts DEF Nested
<1>3. ActiveInScope'
  BY DEF ActiveInScope, BodyStart
<1> QED
  BY <1>1, <1>2, <1>3

\* What the end of a function does to the symbols: those of its scope are
\* hidden, and its own symbol has the size of the frame.
LEMMA FunctionEnds ==
  ASSUME Structure, FuncEnd
  PROVE  LET f == Last(parsing).sym IN
         /\ f \in 1..Len(symbols)
         /\ symbols' \in Seq(SymbolRecords) /\ Len(symbols') = Len(symbols)
         /\ DOMAIN symbols' = 1..Len(symbols)
         /\ symbols'[f].total_locals = TotalLocals
         /\ \A i \in 1..Len(symbols) :
              /\ symbols'[i].is_active = (symbols[i].is_active /\ symbols[i].s_scope # current_scope_depth)
              /\ symbols'[i].s_scope = symbols[i].s_scope /\ symbols'[i].s_name = symbols[i].s_name
              /\ symbols'[i].s_type = symbols[i].s_type
              /\ symbols'[i].space = symbols[i].space /\ symbols'[i].offset = symbols[i].offset
<1> USE DEF Structure
<1> DEFINE f == Last(parsing).sym
           h == Hidden(current_scope_depth)
           g == [h[f] EXCEPT !.total_locals = TotalLocals]
<1>1. f \in 1..Len(symbols)
  <2>1. Len(parsing) \in OpenFunctions /\ Last(parsing) = parsing[Len(parsing)]
    BY ParsingFields DEF FuncEnd, OpenFunctions
  <2> QED BY <2>1 DEF Nested
<1>2. /\ h \in Seq(SymbolRecords) /\ Len(h) = Len(symbols)
      /\ \A i \in 1..Len(symbols) :
           h[i] = [symbols[i] EXCEPT !.is_active = @ /\ symbols[i].s_scope # current_scope_depth]
  BY HiddenSymbols, ParsingFields
<1>3. TotalLocals \in Nat
  BY DEF Typed, TotalLocals, Spaces
<1> HIDE DEF h
<1>4. h[f] \in SymbolRecords
  BY <1>1, <1>2, ElementOfSeq
<1>5. g \in SymbolRecords /\ g.total_locals = TotalLocals
      /\ g.is_active = h[f].is_active /\ g.s_scope = h[f].s_scope /\ g.s_name = h[f].s_name
      /\ g.s_type = h[f].s_type /\ g.space = h[f].space /\ g.offset = h[f].offset
  BY <1>3, <1>4 DEF SymbolRecords
<1>6. symbols' = [h EXCEPT ![f] = g]
  BY DEF FuncEnd, h
<1> HIDE DEF g
<1>7. /\ symbols' \in Seq(SymbolRecords) /\ Len(symbols') = Len(symbols)
      /\ \A i \in 1..Len(symbols) : symbols'[i] = IF i = f THEN g ELSE h[i]
  <2>1. symbols' \in Seq(SymbolRecords)
    BY <1>1, <1>2, <1>5, <1>6, ExceptSeq
  <2> QED BY <1>1, <1>2, <1>5, <1>6, <2>1, ExceptSeq
<1>8. \A i \in 1..Len(symbols) :
        /\ h[i].is_active = (symbols[i].is_active /\ symbols[i].s_scope # current_scope_depth)
        /\ h[i].s_scope = symbols[i].s_scope /\ h[i].s_name = symbols[i].s_name
        /\ h[i].s_type = symbols[i].s_type
        /\ h[i].space = symbols[i].space /\ h[i].offset = symbols[i].offset
  BY <1>2, SymbolFields DEF SymbolRecords
<1>9. DOMAIN symbols' = 1..Len(symbols)
  BY <1>7, LenProperties
<1> QED
  BY <1>1, <1>5, <1>7, <1>8, <1>9

\* So does the end of a block, but for the frame.
LEMMA BlockEnds ==
  ASSUME Structure, BlockEnd
  PROVE  /\ symbols' \in Seq(SymbolRecords) /\ Len(symbols') = Len(symbols)
         /\ DOMAIN symbols' = 1..Len(symbols)
         /\ \A i \in 1..Len(symbols) :
              /\ symbols'[i].is_active = (symbols[i].is_active /\ symbols[i].s_scope # current_scope_depth)
              /\ symbols'[i].s_scope = symbols[i].s_scope /\ symbols'[i].s_name = symbols[i].s_name
              /\ symbols'[i].s_type = symbols[i].s_type
              /\ symbols'[i].space = symbols[i].space /\ symbols'[i].offset = symbols[i].offset
<1> USE DEF Structure
<1>1. /\ symbols' \in Seq(SymbolRecords) /\ Len(symbols') = Len(symbols)
      /\ \A i \in 1..Len(symbols) :
           symbols'[i] = [symbols[i] EXCEPT !.is_active = @ /\ symbols[i].s_scope # current_scope_depth]
  BY HiddenSymbols, ParsingFields DEF BlockEnd
<1>2. DOMAIN symbols' = 1..Len(symbols)
  BY <1>1, LenProperties
<1> QED
  BY <1>1, <1>2, SymbolFields DEF SymbolRecords

LEMMA FuncEndKeepsStructure == Structure /\ FuncEnd => Structure'
<1> SUFFICES ASSUME Structure, FuncEnd PROVE Structure'
  OBVIOUS
<1> USE DEF Structure
<1>1. /\ parsing' \in Seq(Rules) /\ Len(parsing') = Len(parsing) - 1 /\ Len(parsing') \in Nat
      /\ DOMAIN parsing' = 1..Len(parsing) - 1
      /\ \A k \in 1..Len(parsing) - 1 : parsing'[k] = parsing[k]
      /\ OpenFunctions' = OpenFunctions \ {Len(parsing)}
      /\ Cardinality(OpenFunctions') = Cardinality(OpenFunctions) - 1
  BY RuleEnds, FunctionsAreFinite DEF FuncEnd
<1>2. Len(parsing) \in OpenFunctions
  BY ParsingFields DEF FuncEnd, OpenFunctions
<1>3. Nesting \in Nat \ {0} /\ Len(declared) = Nesting + 1
  <2>1. Cardinality(OpenFunctions) # 0
    BY <1>2, FunctionsAreFinite, FS_EmptySet
  <2> QED BY <2>1, NestingIsNat DEF Nested
<1>4. InStatements /\ parsing # <<>>
  BY DEF InStatements, FuncEnd
<1>5. Len(func_temp_counter_save) = Nesting /\ func_temp_counter_save \in Seq(Nat)
  BY <1>3, <1>4 DEF Nested, Typed
<1>6. /\ func_temp_counter_save' \in Seq(Nat) /\ Len(func_temp_counter_save') = Nesting - 1
      /\ temp_counter' \in Nat
  <2>1. func_temp_counter_save # <<>>
    BY <1>3, <1>5, EmptySeq
  <2> QED BY <1>5, <2>1, LastProperties DEF FuncEnd, RestoredTempCounter
<1>7. declared' \in Seq(SUBSET Nat) /\ declared' # <<>> /\ Len(declared') = Len(declared) - 1
  <2>1. declared' = Front(declared) /\ declared \in Seq(SUBSET Nat) /\ declared # <<>>
    BY DEF Typed, FuncEnd
  <2>2. declared' \in Seq(SUBSET Nat) /\ Len(declared') = Len(declared) - 1
    BY <2>1, LastProperties
  <2> QED BY <1>3, <2>2, EmptySeq
<1>8. /\ symbols' \in Seq(SymbolRecords) /\ Len(symbols') = Len(symbols)
      /\ \A i \in 1..Len(symbols) :
           /\ symbols'[i].is_active = (symbols[i].is_active /\ symbols[i].s_scope # current_scope_depth)
           /\ symbols'[i].s_scope = symbols[i].s_scope
  BY FunctionEnds
<1>9. Typed'
  BY <1>1, <1>6, <1>7, <1>8, SymbolFields, ParsingFields DEF Typed, FuncEnd, Null
<1>10. \A k \in 1..Len(parsing) : parsing[k].kind # "formals"
  BY <1>4, ParsingFields DEF Nested, FuncEnd
<1>11. InStatements'
  <2> SUFFICES ASSUME parsing' # <<>> PROVE Last(parsing').kind # "formals"
    BY DEF InStatements
  <2>1. Len(parsing') \in Nat \ {0} /\ Last(parsing') = parsing'[Len(parsing')]
    BY <1>1, LastProperties
  <2>2. Len(parsing') \in 1..Len(parsing) - 1 /\ Len(parsing') \in 1..Len(parsing)
    BY <1>1, <2>1, ParsingFields
  <2> QED BY <1>1, <1>10, <2>1, <2>2
<1>12. Nested'
  <2>1. \A k \in OpenFunctions' : parsing'[k].sym \in 1..Len(symbols')
    <3> SUFFICES ASSUME NEW k \in OpenFunctions' PROVE parsing'[k].sym \in 1..Len(symbols')
      OBVIOUS
    <3>1. k \in OpenFunctions /\ k # Len(parsing)
      BY <1>1
    <3>2. k \in 1..Len(parsing) - 1
      BY <3>1, FunctionsAreFinite, ParsingFields
    <3> QED BY <1>1, <1>8, <3>1, <3>2 DEF Nested
  <2>2. \A k \in DOMAIN parsing' : parsing'[k].kind # "formals"
    BY <1>1, <1>10
  <2>3. Nesting' = Nesting - 1
    BY <1>3, <1>7 DEF Nesting
  <2>4. scope_space_counter' = 2 * Nesting' + 1
    BY <1>3, <1>4, <2>3 DEF Nested, FuncEnd, SpaceOutside
  <2> QED
    BY <1>1, <1>3, <1>6, <1>11, <2>1, <2>2, <2>3, <2>4 DEF Nested
<1>13. ActiveInScope'
  BY <1>4, <1>8, ScopeCloses DEF FuncEnd
<1> QED
  BY <1>9, <1>12, <1>13

LEMMA BuiltinsAreNames ==
  /\ Len(Builtins) \in Nat /\ DOMAIN Builtins = 1..Len(Builtins)
  /\ \A i \in 1..Len(Builtins) : Builtins[i] \in Names
BY ScopesAssumption, LenProperties, ElementOfSeq

\* The library functions are the first symbols.
LEMMA InitialSymbols ==
  ASSUME Init
  PROVE  /\ symbols \in Seq(SymbolRecords) /\ Len(symbols) = Len(Builtins)
         /\ DOMAIN symbols = 1..Len(Builtins)
         /\ \A i \in 1..Len(Builtins) : symbols[i] = Symbol(Ident(Builtins[i]), "libfunc", 0, "none", 0)
<1>1. \A i \in 1..Len(Builtins) : Symbol(Ident(Builtins[i]), "libfunc", 0, "none", 0) \in SymbolRecords
  BY BuiltinsAreNames DEF Symbol, SymbolRecords, AnyName, SymbolTypes
<1>2. symbols = [i \in 1..Len(Builtins) |-> Symbol(Ident(Builtins[i]), "libfunc", 0, "none", 0)]
  BY BuiltinsAreNames DEF Init
<1>3. symbols \in [1..Len(Builtins) -> SymbolRecords]
  BY <1>1, <1>2
<1> QED
  BY <1>2, <1>3, BuiltinsAreNames, SeqDef

LEMMA InitialStructure == Init => Structure
<1> SUFFICES ASSUME Init PROVE Structure
  OBVIOUS
<1>1. parsing = <<>> /\ func_temp_counter_save = <<>> /\ current_scope_depth = 0 /\ lvalue = 0
  BY DEF Init, Null
<1>2. /\ declared \in Seq(SUBSET Nat) /\ Len(declared) = 1 /\ declared # <<>>
      /\ offsets \in [Spaces -> Nat] /\ temp_counter \in Nat
  BY DEF Init
<1>3. Typed
  <2>1. 0 \in 0..Len(symbols)
    BY InitialSymbols, BuiltinsAreNames
  <2> QED
    BY <1>1, <1>2, <2>1, InitialSymbols DEF Typed
<1>4. Nested
  <2>1. OpenFunctions = {}
    BY <1>1 DEF OpenFunctions
  <2>2. Cardinality(OpenFunctions) = 0 /\ Nesting = 0
    BY <1>2, <2>1, FS_EmptySet DEF Nesting
  <2>3. InStatements /\ scope_space_counter = 1
    BY <1>1 DEF InStatements, Init
  <2> QED
    BY <1>1, <2>1, <2>2, <2>3 DEF Nested
<1>5. ActiveInScope
  BY <1>1, InitialSymbols DEF ActiveInScope, Symbol
<1> QED
  BY <1>3, <1>4, <1>5 DEF Structure

LEMMA StructureIsKept == Structure /\ [Next]_vars => Structure'
<1> SUFFICES ASSUME Structure, [Next]_vars PROVE Structure'
  OBVIOUS
<1>1. CASE UNCHANGED vars
  BY <1>1 DEF vars, counters, Structure, Typed, Nested, ActiveInScope, Nesting, OpenFunctions, InStatements
<1>2. ASSUME NEW x \in Names, UseIdent(x) \/ UseLocal(x) \/ UseGlobal(x) \/ Formal(x)
      PROVE  Structure'
  BY <1>2, UsesAreVariableSteps, VariableStepKeepsStructure DEF Structure
<1>3. ASSUME NEW x \in Names, FuncStart(Ident(x))
      PROVE  Structure'
  BY <1>3, TypesOfVariables, FuncStartKeepsStructure
<1>4. CASE FuncStart(HiddenName)
  BY <1>4, TypesOfVariables, FuncStartKeepsStructure
<1>5. CASE CreateTempVar
  BY <1>5, CreateTempIsVariableStep, VariableStepKeepsStructure DEF Structure
<1> QED
  BY <1>1, <1>2, <1>3, <1>4, <1>5, BlockStartKeepsStructure, BlockEndKeepsStructure,
     BodyStartKeepsStructure, FuncEndKeepsStructure DEF Next

\* The parser, the counters and the symbols hang together in every state: the
\* inductive invariant that the other theorems rest on.
THEOREM ScopesStructure == Spec => []Structure
BY InitialStructure, StructureIsKept, PTL DEF Spec

LEMMA StructureIsTyped == Structure => TypeOK
<1> SUFFICES ASSUME Structure PROVE TypeOK
  OBVIOUS
<1> USE DEF Structure
<1>1. \A i \in DOMAIN symbols :
       /\ symbols[i].s_type \in {"libfunc", "userfunc", "globalvar", "localvar", "formal"}
       /\ symbols[i].space \in Spaces \cup {"none"} /\ symbols[i].offset \in Nat
       /\ symbols[i].is_active => symbols[i].s_scope <= current_scope_depth
  BY SymbolFields DEF SymbolRecords, SymbolTypes, ActiveInScope
<1>2. CurrScopespace = IF ~ InFunction THEN "programvar"
                       ELSE IF InStatements THEN "functionlocal" ELSE "formalarg"
  <2>1. Nesting \in Nat
    BY NestingIsNat
  <2>2. CASE InStatements
    <3>1. scope_space_counter = 2 * Nesting + 1 /\ scope_space_counter % 2 = 1
      BY <2>1, <2>2 DEF Nested
    <3> QED BY <2>1, <2>2, <3>1 DEF CurrScopespace, InFunction
  <2>3. CASE ~ InStatements
    <3>1. Nesting > 0
      BY <2>1, <2>3, LenProperties DEF Nested, Typed
    <3>2. scope_space_counter = 2 * Nesting /\ scope_space_counter % 2 = 0
      BY <2>1, <2>3 DEF Nested
    <3> QED BY <2>1, <2>3, <3>1, <3>2 DEF CurrScopespace, InFunction
  <2> QED BY <2>2, <2>3
<1>3. Nesting = Cardinality({k \in DOMAIN parsing : parsing[k].kind # "block"})
  BY DEF Nested, OpenFunctions
<1> QED
  BY <1>1, <1>2, <1>3 DEF TypeOK, Typed

\* The counters agree with where the parser is, in every state: the space that
\* symbols are declared in is that of the program, of the formals or of the
\* locals, whichever the parser is among (quads.c:96-109, symtable.c:83-121).
THEOREM CountersAgree == Spec => []TypeOK
<1>1. Structure => TypeOK
  BY StructureIsTyped
<1> QED
  BY <1>1, ScopesStructure, PTL

-----------------------------------------------------------------------------
(* Temporaries. *)

LEMMA NamesDiffer ==
  /\ \A x, y : Ident(x) = Ident(y) => x = y
  /\ \A n, m : TempName(n) = TempName(m) => n = m
  /\ \A x, n : Ident(x) # TempName(n)
  /\ \A x : Ident(x) # HiddenName
  /\ \A n : TempName(n) # HiddenName
<1>1. \A x, y : Ident(x) = Ident(y) => x = y
  BY DEF Ident
<1>2. \A n, m : TempName(n) = TempName(m) => n = m
  BY DEF TempName
<1>3. \A x, n : DOMAIN Ident(x) = {"ident"} /\ DOMAIN TempName(n) = {"temp"}
  BY DEF Ident, TempName
<1>4. DOMAIN HiddenName = {"hidden"}
  BY DEF HiddenName
<1>5. "ident" # "temp" /\ "ident" # "hidden" /\ "temp" # "hidden"
  OBVIOUS
<1> QED
  BY <1>1, <1>2, <1>3, <1>4, <1>5

\* The start of a function: its symbol is there already, or is new.
LEMMA FunctionStarts ==
  ASSUME NEW name, FuncStart(name)
  PROVE  \/ /\ name # HiddenName /\ LookupInScope(name, current_scope_depth) # Null
            /\ symbols' = symbols
            /\ offsets' = [offsets EXCEPT !["formalarg"] = 0]
            /\ declared' = Append(declared, {})
         \/ /\ name = HiddenName \/ LookupInScope(name, current_scope_depth) = Null
            /\ symbols' = WithSymbol(name, "userfunc")
            /\ offsets' = [NextOffsets EXCEPT !["formalarg"] = 0]
            /\ declared' = Append(DeclaredHere, {})
BY DEF FuncStart

\* The functions whose bodies are around the parser, as places in parsing.
Bodies == {k \in DOMAIN parsing : parsing[k].kind = "body"}

LivingTemp(i, n) == i \in DOMAIN symbols /\ symbols[i].is_active /\ symbols[i].s_name = TempName(n)

\* Every value that is saved was saved at the start of the body place[d], and
\* the temporaries numbered from there on are declared in that body.
SavedAt(place) ==
  /\ \A d, e \in DOMAIN place : d < e => place[d] < place[e]
  /\ \A d \in DOMAIN place : place[d] \in Bodies
  /\ \A k \in Bodies : \E d \in DOMAIN place : place[d] = k
  /\ \A n \in Nat : \A i \in DOMAIN symbols : LivingTemp(i, n) =>
       \A d \in DOMAIN place : n >= func_temp_counter_save[d] => symbols[i].s_scope >= place[d]

TempsInBodies ==
  \E place \in [1..Len(func_temp_counter_save) -> Nat] : SavedAt(place)

TempsBelowCounter ==
  \A n \in Nat : \A i \in DOMAIN symbols : LivingTemp(i, n) => n < temp_counter

TempsNumbered == TempsInBodies /\ TempsBelowCounter

\* What lives after the step lived before it.
NoNewTemps ==
  \A n \in Nat : \A i \in DOMAIN symbols' : LivingTemp(i, n)' =>
    i \in DOMAIN symbols /\ LivingTemp(i, n) /\ symbols'[i].s_scope = symbols[i].s_scope

NamesTemp(name) == \E n \in Nat : name = TempName(n)

LEMMA OtherNamesAreNoTemps ==
  ASSUME Typed, NEW name \in AnyName, NEW type \in SymbolTypes, ~ NamesTemp(name),
         symbols' = WithSymbol(name, type)
  PROVE  NoNewTemps
<1>1. /\ DOMAIN symbols' = 1..Len(symbols) + 1
      /\ \A i \in 1..Len(symbols) : symbols'[i] = symbols[i]
      /\ symbols'[Len(symbols) + 1].s_name = name
  <2>1. Symbol(name, type, current_scope_depth, CurrScopespace, offsets[CurrScopespace]).s_name = name
    BY DEF Symbol
  <2> QED BY <2>1, AddedSymbol
<1> QED
  BY <1>1, SymbolFields DEF NoNewTemps, LivingTemp, NamesTemp

\* No step but the creation of a temporary makes one.
LEMMA OnlyCreateTempCreates ==
  ASSUME Structure, Next
  PROVE  CreateTempVar \/ NoNewTemps
<1> USE DEF Structure
<1>0. \A x \in Names : Ident(x) \in AnyName /\ ~ NamesTemp(Ident(x))
  BY TypesOfVariables, NamesDiffer DEF NamesTemp
<1>1. ASSUME symbols' = symbols PROVE NoNewTemps
  BY <1>1 DEF NoNewTemps, LivingTemp
<1>2. ASSUME NEW x \in Names, UseIdent(x) \/ UseLocal(x) \/ UseGlobal(x) \/ Formal(x)
      PROVE  NoNewTemps
  <2>1. symbols' = symbols \/ \E type \in SymbolTypes : symbols' = WithSymbol(Ident(x), type)
    BY <1>2, TypesOfVariables DEF UseIdent, UseLocal, UseGlobal, Formal, NoNewSymbol, AddVariable
  <2>2. CASE symbols' = symbols
    BY <1>1, <2>2
  <2>3. ASSUME NEW type \in SymbolTypes, symbols' = WithSymbol(Ident(x), type)
        PROVE  NoNewTemps
    BY <1>0, <2>3, OtherNamesAreNoTemps
  <2> QED
    BY <2>1, <2>2, <2>3
<1>3. ASSUME NEW name \in AnyName, ~ NamesTemp(name), FuncStart(name)
      PROVE  NoNewTemps
  <2>1. CASE symbols' = symbols
    BY <1>1, <2>1
  <2>2. CASE symbols' = WithSymbol(name, "userfunc")
    BY <1>3, <2>2, OtherNamesAreNoTemps, TypesOfVariables
  <2> QED
    BY <1>3, <2>1, <2>2, FunctionStarts
<1>4. CASE BlockEnd \/ FuncEnd
  <2>1. /\ DOMAIN symbols' = 1..Len(symbols) /\ DOMAIN symbols = 1..Len(symbols)
        /\ \A i \in 1..Len(symbols) :
             /\ symbols'[i].is_active = (symbols[i].is_active /\ symbols[i].s_scope # current_scope_depth)
             /\ symbols'[i].s_scope = symbols[i].s_scope /\ symbols'[i].s_name = symbols[i].s_name
    BY <1>4, BlockEnds, FunctionEnds, SymbolFields
  <2>2. ASSUME NEW n \in Nat, NEW i \in 1..Len(symbols), LivingTemp(i, n)'
        PROVE  LivingTemp(i, n) /\ symbols'[i].s_scope = symbols[i].s_scope
    <3>1. symbols'[i].is_active /\ symbols'[i].s_name = TempName(n)
      BY <2>2 DEF LivingTemp
    <3>2. symbols[i].is_active /\ symbols[i].s_name = TempName(n)
      BY <2>1, <3>1
    <3> QED BY <2>1, <3>2 DEF LivingTemp
  <2> QED
    BY <2>1, <2>2 DEF NoNewTemps
<1>5. CASE BlockStart \/ BodyStart
  BY <1>1, <1>5 DEF BlockStart, BodyStart
<1>6. CASE FuncStart(HiddenName)
  BY <1>3, <1>6, TypesOfVariables, NamesDiffer DEF NamesTemp
<1> QED
  BY <1>0, <1>2, <1>3, <1>4, <1>5, <1>6 DEF Next

LEMMA CounterStaysAbove ==
  ASSUME NoNewTemps, TempsBelowCounter, temp_counter' = temp_counter
  PROVE  TempsBelowCounter'
BY DEF NoNewTemps, TempsBelowCounter

\* The bodies around the parser are the same after the step.
LEMMA BodiesStay ==
  ASSUME TempsNumbered, NoNewTemps, Bodies' = Bodies,
         UNCHANGED <<temp_counter, func_temp_counter_save>>
  PROVE  TempsNumbered'
<1>1. PICK place \in [1..Len(func_temp_counter_save) -> Nat] : SavedAt(place)
  BY DEF TempsNumbered, TempsInBodies
<1>2. SavedAt(place)'
  BY <1>1 DEF SavedAt, NoNewTemps
<1> QED
  BY <1>1, <1>2, CounterStaysAbove DEF TempsNumbered, TempsInBodies

\* A new temporary has the largest number, and the innermost scope.
LEMMA CreateTempNumbers ==
  ASSUME Structure, TempsNumbered, CreateTempVar
  PROVE  TempsNumbered' /\ Len(symbols') = Len(symbols) + 1
<1> USE DEF Structure
<1>1. temp_counter \in Nat /\ TempName(temp_counter) \in AnyName /\ temp_counter' = temp_counter + 1
  BY TypesOfVariables DEF Typed, CreateTempVar
<1>2. LookupInScope(TempName(temp_counter), current_scope_depth) = Null
  BY <1>1, LookupIsSymbol, SymbolFields DEF TempsNumbered, TempsBelowCounter, LivingTemp
<1>3. symbols' = WithSymbol(TempName(temp_counter), "localvar")
  BY <1>2 DEF CreateTempVar, AddVariable
<1>4. /\ DOMAIN symbols' = 1..Len(symbols) + 1 /\ Len(symbols') = Len(symbols) + 1
      /\ \A i \in 1..Len(symbols) : symbols'[i] = symbols[i]
      /\ symbols'[Len(symbols) + 1].s_name = TempName(temp_counter)
      /\ symbols'[Len(symbols) + 1].s_scope = current_scope_depth
  <2>1. LET s == Symbol(TempName(temp_counter), "localvar", current_scope_depth, CurrScopespace,
                        offsets[CurrScopespace])
        IN  s.s_name = TempName(temp_counter) /\ s.s_scope = current_scope_depth
    BY DEF Symbol
  <2> QED BY <1>1, <1>3, <2>1, TypesOfVariables, AddedSymbol
<1>5. TempsBelowCounter'
  BY <1>1, <1>4, SymbolFields, NamesDiffer DEF TempsNumbered, TempsBelowCounter, LivingTemp
<1>6. PICK place \in [1..Len(func_temp_counter_save) -> Nat] : SavedAt(place)
  BY DEF TempsNumbered, TempsInBodies
<1>7. Bodies' = Bodies /\ func_temp_counter_save' = func_temp_counter_save
  BY DEF Bodies, CreateTempVar
<1>8. \A k \in Bodies : k <= current_scope_depth
  BY ParsingFields DEF Bodies
<1>9. SavedAt(place)'
  <2>1. ASSUME NEW n \in Nat, NEW i \in DOMAIN symbols', LivingTemp(i, n)', NEW d \in DOMAIN place,
               n >= func_temp_counter_save[d]
        PROVE  symbols'[i].s_scope >= place[d]
    <3>1. CASE i \in 1..Len(symbols)
      <4>1. LivingTemp(i, n) /\ i \in DOMAIN symbols /\ symbols'[i] = symbols[i]
        BY <1>4, <2>1, <3>1, SymbolFields DEF LivingTemp
      <4> QED BY <1>6, <2>1, <4>1 DEF SavedAt
    <3>2. CASE i = Len(symbols) + 1
      <4>1. place[d] \in Bodies /\ place[d] \in Nat
        BY <1>6, <2>1 DEF SavedAt
      <4> QED BY <1>4, <1>8, <3>2, <4>1, ParsingFields
    <3> QED BY <1>4, <2>1, <3>1, <3>2, SymbolFields
  <2> QED
    BY <1>6, <1>7, <2>1 DEF SavedAt
<1> QED
  BY <1>4, <1>5, <1>6, <1>7, <1>9 DEF TempsNumbered, TempsInBodies

\* The counter is saved when a body begins: no living temporary has a number
\* from there on.
LEMMA BodyStartNumbers ==
  ASSUME Structure, TempsNumbered, BodyStart
  PROVE  TempsNumbered'
<1> USE DEF Structure
<1> DEFINE top == Len(func_temp_counter_save)
           save == func_temp_counter_save
<1>1. PICK place \in [1..top -> Nat] : SavedAt(place)
  BY DEF TempsNumbered, TempsInBodies
<1>2. /\ Bodies' = Bodies \cup {Len(parsing)}
      /\ \A k \in Bodies : k < Len(parsing) /\ Len(parsing) \in Nat
  BY BodyStarts, ParsingFields DEF Bodies
<1>3. /\ top \in Nat /\ Len(save') = top + 1
      /\ \A d \in 1..top : save'[d] = save[d]
      /\ save'[top + 1] = temp_counter /\ temp_counter' = temp_counter /\ temp_counter \in Nat
  BY LenProperties, AppendProperties DEF Typed, BodyStart
<1> HIDE DEF top
<1>4. PICK place2 \in [1..top + 1 -> Nat] :
        (\A d \in 1..top : place2[d] = place[d]) /\ place2[top + 1] = Len(parsing)
  <2> DEFINE p == [d \in 1..top + 1 |-> IF d \in 1..top THEN place[d] ELSE Len(parsing)]
  <2>1. p \in [1..top + 1 -> Nat] /\ p[top + 1] = Len(parsing) /\ \A d \in 1..top : p[d] = place[d]
    BY <1>2, <1>3, ParsingFields
  <2> HIDE DEF p
  <2> QED BY <2>1
<1>5. \A d \in 1..top + 1 : d \in 1..top \/ d = top + 1
  BY <1>3
<1>6. SavedAt(place2)'
  <2>1. \A d, e \in 1..top + 1 : d < e => place2[d] < place2[e]
    BY <1>1, <1>2, <1>3, <1>4, <1>5 DEF SavedAt
  <2>2. /\ \A d \in 1..top + 1 : place2[d] \in Bodies'
        /\ \A k \in Bodies' : \E d \in 1..top + 1 : place2[d] = k
    BY <1>1, <1>2, <1>3, <1>4, <1>5 DEF SavedAt
  <2>3. \A n \in Nat : \A i \in DOMAIN symbols' : LivingTemp(i, n)' =>
          \A d \in 1..top + 1 : n >= save'[d] => symbols'[i].s_scope >= place2[d]
    <3>1. symbols' = symbols
      BY DEF BodyStart
    <3>2. \A n \in Nat : \A i \in DOMAIN symbols : LivingTemp(i, n) =>
            \A d \in 1..top : n >= save'[d] => symbols[i].s_scope >= place2[d]
      BY <1>1, <1>3, <1>4 DEF SavedAt
    <3>3. \A n \in Nat : \A i \in DOMAIN symbols : LivingTemp(i, n) => ~ (n >= save'[top + 1])
      BY <1>3 DEF TempsNumbered, TempsBelowCounter
    <3>4. \A n \in Nat : \A i : LivingTemp(i, n)' => LivingTemp(i, n)
      BY <3>1 DEF LivingTemp
    <3> QED BY <1>5, <3>1, <3>2, <3>3, <3>4
  <2> HIDE DEF save
  <2> QED
    BY <1>4, <2>1, <2>2, <2>3 DEF SavedAt, save
<1>7. TempsBelowCounter'
  BY <1>3 DEF TempsNumbered, TempsBelowCounter, LivingTemp, BodyStart
<1> QED
  BY <1>3, <1>4, <1>6, <1>7 DEF TempsNumbered, TempsInBodies, top

\* When a body ends, the temporaries numbered since it began are hidden with
\* its scope, and the numbers are free again.
LEMMA FuncEndNumbers ==
  ASSUME Structure, TempsNumbered, FuncEnd, NoNewTemps
  PROVE  TempsNumbered'
<1> USE DEF Structure
<1> DEFINE top == Len(func_temp_counter_save)
           save == func_temp_counter_save
<1>1. PICK place \in [1..top -> Nat] : SavedAt(place)
  BY DEF TempsNumbered, TempsInBodies
<1>2. /\ Len(parsing) \in Bodies /\ \A k \in Bodies : k <= Len(parsing)
      /\ Bodies' = Bodies \ {Len(parsing)}
  <2>1. Len(parsing) \in Bodies /\ \A k \in Bodies : k <= Len(parsing)
    BY ParsingFields DEF Bodies, FuncEnd
  <2>2. /\ DOMAIN parsing' = 1..Len(parsing) - 1
        /\ \A k \in 1..Len(parsing) - 1 : parsing'[k] = parsing[k]
    BY RuleEnds DEF FuncEnd
  <2> QED
    BY <2>1, <2>2, ParsingFields DEF Bodies
<1>3. PICK last \in 1..top : place[last] = Len(parsing)
  BY <1>1, <1>2 DEF SavedAt
<1>4. save \in Seq(Nat) /\ top \in Nat \ {0} /\ save # <<>>
  BY <1>3, EmptySeq DEF Typed
<1>5. last = top
  <2>1. \A d \in 1..top : place[d] <= Len(parsing)
    BY <1>1, <1>2 DEF SavedAt
  <2>2. top \in 1..top
    BY <1>4
  <2>3. last < top => place[last] < place[top]
    BY <1>1, <2>2 DEF SavedAt
  <2> QED BY <1>1, <1>3, <1>4, <2>1, <2>2, <2>3, ParsingFields
<1>6. /\ Len(save') = top - 1 /\ temp_counter' = save[top]
      /\ \A d \in 1..top - 1 : save'[d] = save[d]
  BY <1>4, LastProperties DEF FuncEnd, RestoredTempCounter
<1>7. \A n \in Nat : \A i \in DOMAIN symbols' : LivingTemp(i, n)' => n < temp_counter'
  <2> SUFFICES ASSUME NEW n \in Nat, NEW i \in DOMAIN symbols', LivingTemp(i, n)', n >= save[top]
               PROVE  FALSE
    BY <1>4, <1>6, ElementOfSeq
  <2>1. i \in DOMAIN symbols /\ LivingTemp(i, n) /\ symbols[i].s_scope # current_scope_depth
        /\ i \in 1..Len(symbols)
    BY FunctionEnds, SymbolFields DEF NoNewTemps, LivingTemp
  <2>2. symbols[i].s_scope >= Len(parsing)
    BY <1>1, <1>3, <1>5, <2>1 DEF SavedAt
  <2>3. symbols[i].s_scope <= current_scope_depth /\ symbols[i].s_scope \in Nat
    BY <2>1, SymbolFields DEF ActiveInScope, LivingTemp, SymbolRecords
  <2> QED
    BY <2>1, <2>2, <2>3, ParsingFields
<1>8. TempsBelowCounter'
  BY <1>7 DEF TempsBelowCounter
<1> HIDE DEF top
<1>9. PICK place2 \in [1..top - 1 -> Nat] :
        \A d \in 1..top - 1 : place2[d] = place[d] /\ d \in 1..top /\ d # top
  <2> DEFINE p == [d \in 1..top - 1 |-> place[d]]
  <2>1. p \in [1..top - 1 -> Nat] /\ \A d \in 1..top - 1 : p[d] = place[d] /\ d \in 1..top /\ d # top
    BY <1>4
  <2> HIDE DEF p
  <2> QED BY <2>1
<1>10. SavedAt(place2)'
  <2>1. \A d, e \in 1..top - 1 : d < e => place2[d] < place2[e]
    BY <1>1, <1>9 DEF SavedAt
  <2>2. \A d \in 1..top - 1 : place2[d] \in Bodies'
    <3>1. \A d \in 1..top - 1 : d < top /\ place[d] < place[top]
      BY <1>1, <1>4, <1>9 DEF SavedAt
    <3> QED BY <1>1, <1>2, <1>3, <1>5, <1>9, <3>1 DEF SavedAt
  <2>3. \A k \in Bodies' : \E d \in 1..top - 1 : place2[d] = k
    <3> SUFFICES ASSUME NEW k \in Bodies' PROVE \E d \in 1..top - 1 : place2[d] = k
      OBVIOUS
    <3>1. k \in Bodies /\ k # Len(parsing)
      BY <1>2
    <3>2. PICK d \in 1..top : place[d] = k
      BY <1>1, <1>9, <3>1 DEF SavedAt
    <3>3. d \in 1..top - 1
      BY <1>3, <1>4, <1>5, <3>1, <3>2
    <3> QED BY <1>9, <3>2, <3>3
  <2>4. \A n \in Nat : \A i \in DOMAIN symbols' : LivingTemp(i, n)' =>
          \A d \in 1..top - 1 : n >= save'[d] => symbols'[i].s_scope >= place2[d]
    BY <1>1, <1>6, <1>9 DEF SavedAt, NoNewTemps
  <2> QED
    BY <1>9, <2>1, <2>2, <2>3, <2>4 DEF SavedAt
<1> QED
  BY <1>6, <1>8, <1>9, <1>10 DEF TempsNumbered, TempsInBodies

LEMMA InitialTemps == Init => TempsNumbered
<1> SUFFICES ASSUME Init PROVE TempsNumbered
  OBVIOUS
<1>1. \A n \in Nat : \A i \in DOMAIN symbols : ~ LivingTemp(i, n)
  BY InitialSymbols, NamesDiffer DEF LivingTemp, Symbol
<1>2. Bodies = {} /\ func_temp_counter_save = <<>>
  BY DEF Init, Bodies
<1> DEFINE place == [d \in 1..Len(func_temp_counter_save) |-> 0]
<1>3. place \in [1..Len(func_temp_counter_save) -> Nat] /\ DOMAIN place = {}
  BY <1>2
<1> HIDE DEF place
<1>4. SavedAt(place)
  BY <1>1, <1>2, <1>3 DEF SavedAt
<1> QED
  BY <1>1, <1>3, <1>4 DEF TempsNumbered, TempsInBodies, TempsBelowCounter

LEMMA TempsAreKept == Structure /\ TempsNumbered /\ [Next]_vars => TempsNumbered'
<1> SUFFICES ASSUME Structure, TempsNumbered, [Next]_vars PROVE TempsNumbered'
  OBVIOUS
<1> USE DEF Structure
<1>1. CASE UNCHANGED vars
  BY <1>1, BodiesStay DEF vars, counters, NoNewTemps, LivingTemp, Bodies
<1>2. CASE CreateTempVar
  BY <1>2, CreateTempNumbers
<1>3. CASE Next /\ NoNewTemps
  <2>1. CASE BodyStart
    BY <2>1, BodyStartNumbers
  <2>2. CASE FuncEnd
    BY <1>3, <2>2, FuncEndNumbers
  <2>3. ASSUME NEW x \in Names, UseIdent(x) \/ UseLocal(x) \/ UseGlobal(x) \/ Formal(x)
        PROVE  TempsNumbered'
    BY <1>3, <2>3, BodiesStay DEF UseIdent, UseLocal, UseGlobal, Formal, UnchangedByLvalue, Bodies
  <2>4. ASSUME NEW r \in Rules, r.kind # "body", parsing' = Append(parsing, r)
        PROVE  Bodies' = Bodies
    <3>1. /\ DOMAIN parsing' = 1..Len(parsing) + 1
          /\ \A k \in 1..Len(parsing) : parsing'[k] = parsing[k]
          /\ parsing'[Len(parsing) + 1] = r
      BY <2>4, RuleBegins
    <3> QED BY <2>4, <3>1, ParsingFields DEF Bodies
  <2>5. CASE BlockStart
    <3>1. Bodies' = Bodies
      BY <2>4, <2>5 DEF BlockStart, Rules, Null
    <3> QED BY <1>3, <2>5, <3>1, BodiesStay DEF BlockStart, counters
  <2>6. CASE BlockEnd
    <3>1. /\ DOMAIN parsing' = 1..Len(parsing) - 1
          /\ \A k \in 1..Len(parsing) - 1 : parsing'[k] = parsing[k]
      BY <2>6, RuleEnds DEF BlockEnd
    <3>2. Bodies' = Bodies
      BY <2>6, <3>1, ParsingFields DEF Bodies, BlockEnd
    <3> QED BY <1>3, <2>6, <3>2, BodiesStay DEF BlockEnd, counters
  <2>7. ASSUME NEW name \in AnyName, FuncStart(name)
        PROVE  TempsNumbered'
    <3> DEFINE isNew == LookupInScope(name, current_scope_depth) = Null \/ name = HiddenName
               f == IF isNew THEN NewSymbol ELSE LookupInScope(name, current_scope_depth)
               r == [kind |-> "formals", sym |-> f]
    <3>1. f \in Nat
      BY SymbolFields, LookupIsSymbol DEF NewSymbol
    <3>2. parsing' = Append(parsing, r)
      BY <2>7 DEF FuncStart
    <3> HIDE DEF f
    <3>3. r \in Rules /\ r.kind # "body"
      BY <3>1 DEF Rules
    <3>4. Bodies' = Bodies
      BY <2>4, <3>2, <3>3
    <3> QED BY <1>3, <2>7, <3>4, BodiesStay DEF FuncStart
  <2> QED
    BY <1>2, <1>3, <2>1, <2>2, <2>3, <2>5, <2>6, <2>7, TypesOfVariables DEF Next
<1> QED
  BY <1>1, <1>2, <1>3, OnlyCreateTempCreates

\* The value of an expression gets a variable that nothing else uses, however
\* functions are nested: a temporary of the number that the counter goes back
\* to when a function ends is hidden by then (parser.y:876-890, quads.c:52-66).
THEOREM TemporariesAreNew == Spec => TempsAreNew
<1>1. Init => Structure /\ TempsNumbered
  BY InitialStructure, InitialTemps
<1>2. Structure /\ TempsNumbered /\ [Next]_vars => (Structure /\ TempsNumbered)'
  BY StructureIsKept, TempsAreKept
<1>3. Structure /\ TempsNumbered /\ [Next]_vars
        => [CreateTempVar => Len(symbols') = Len(symbols) + 1]_vars
  BY CreateTempNumbers
<1> QED
  BY <1>1, <1>2, <1>3, PTL DEF Spec, TempsAreNew

-----------------------------------------------------------------------------
(* Storage, in programs whose functions are not nested. *)

\* The symbols of S are below the counters of their spaces, at places of their own.
Allocated(S, syms, offs) ==
  /\ \A i \in S : i \in 1..Len(syms) /\ syms[i].space \in Spaces /\ syms[i].offset < offs[syms[i].space]
  /\ \A i, j \in S : i # j /\ syms[i].space = syms[j].space => syms[i].offset # syms[j].offset

\* The program's symbols are in the program's space, the function's among the
\* formals or, once its body has begun, among the locals.
Places ==
  /\ Len(declared) <= 2
  /\ \A n \in 1..Len(declared) : Allocated(declared[n], symbols, offsets)
  /\ \A i \in declared[1] : symbols[i].space = "programvar"
  /\ Len(declared) = 2 =>
       \A i \in declared[2] : \/ symbols[i].space = "formalarg"
                              \/ symbols[i].space = "functionlocal" /\ InStatements

LEMMA AllocatedLater ==
  ASSUME NEW S, NEW syms, NEW syms2, NEW offs, NEW offs2,
         Allocated(S, syms, offs),
         \A i \in S : /\ i \in 1..Len(syms2)
                      /\ syms2[i].space = syms[i].space /\ syms2[i].offset = syms[i].offset
                      /\ syms[i].offset \in Nat
                      /\ offs[syms[i].space] \in Nat /\ offs2[syms[i].space] \in Nat
                      /\ offs[syms[i].space] <= offs2[syms[i].space]
  PROVE  Allocated(S, syms2, offs2)
BY DEF Allocated

\* A symbol that is added is at the counter of its space, which moves on.
LEMMA NextIsAllocated ==
  ASSUME Typed, NEW name \in AnyName, NEW type \in SymbolTypes, NEW S,
         Allocated(S, symbols, offsets)
  PROVE  /\ Allocated(S, WithSymbol(name, type), NextOffsets)
         /\ Allocated(S \cup {NewSymbol}, WithSymbol(name, type), NextOffsets)
<1> DEFINE syms == WithSymbol(name, type)
<1>1. /\ Len(symbols) \in Nat /\ Len(syms) = Len(symbols) + 1
      /\ \A i \in 1..Len(symbols) : syms[i] = symbols[i] /\ symbols[i].offset \in Nat /\ i # NewSymbol
      /\ syms[NewSymbol].space = CurrScopespace /\ syms[NewSymbol].offset = offsets[CurrScopespace]
  <2>1. LET s == Symbol(name, type, current_scope_depth, CurrScopespace, offsets[CurrScopespace])
        IN  s.space = CurrScopespace /\ s.offset = offsets[CurrScopespace]
    BY DEF Symbol
  <2>2. syms[Len(symbols) + 1].space = CurrScopespace
        /\ syms[Len(symbols) + 1].offset = offsets[CurrScopespace]
    BY <2>1, AddedSymbol
  <2>3. \A i \in 1..Len(symbols) : syms[i] = symbols[i]
    BY AddedSymbol
  <2>4. Len(syms) = Len(symbols) + 1
    BY AddedSymbol
  <2> HIDE DEF syms
  <2> QED
    BY <2>2, <2>3, <2>4, SymbolFields DEF NewSymbol, SymbolRecords
<1>2. /\ CurrScopespace \in Spaces /\ offsets \in [Spaces -> Nat] /\ NextOffsets \in [Spaces -> Nat]
      /\ NextOffsets[CurrScopespace] = offsets[CurrScopespace] + 1
      /\ \A s \in Spaces : offsets[s] <= NextOffsets[s]
  BY SpaceIsSpace, OffsetsAreTyped DEF Typed, NextOffsets
<1>3. NewSymbol \in 1..Len(syms)
  BY <1>1 DEF NewSymbol
<1> HIDE DEF syms
<1>4. Allocated(S, syms, NextOffsets)
  <2>1. \A i \in S : /\ i \in 1..Len(symbols) /\ symbols[i].space \in Spaces
                     /\ i \in 1..Len(syms) /\ syms[i] = symbols[i]
    BY <1>1 DEF Allocated
  <2>2. \A s \in Spaces : offsets[s] \in Nat /\ NextOffsets[s] \in Nat
    BY <1>2
  <2> QED BY <1>1, <1>2, <2>1, <2>2, AllocatedLater
<1>5. \A i \in S : syms[i].space = CurrScopespace => syms[i].offset < syms[NewSymbol].offset
                                                     /\ syms[i].offset \in Nat
  BY <1>1, <1>2 DEF Allocated
<1>6. Allocated(S \cup {NewSymbol}, syms, NextOffsets)
  BY <1>1, <1>2, <1>3, <1>4, <1>5 DEF Allocated
<1> QED
  BY <1>4, <1>6 DEF syms

\* The space that a symbol gets.
LEMMA SpaceOfNext ==
  ASSUME Structure
  PROVE  CurrScopespace = IF Len(declared) = 1 THEN "programvar"
                          ELSE IF InStatements THEN "functionlocal" ELSE "formalarg"
<1>1. TypeOK
  BY StructureIsTyped
<1>2. Nesting \in Nat /\ Len(declared) = Nesting + 1
  BY NestingIsNat DEF Structure
<1> QED
  BY <1>1, <1>2 DEF TypeOK, InFunction

LEMMA AddedHasItsPlace ==
  ASSUME Structure, Places, NEW name \in AnyName, NEW type \in SymbolTypes,
         AddVariable(name, type), parsing' = parsing
  PROVE  Places'
<1> USE DEF Structure
<1> DEFINE last == Len(declared)
<1>1. /\ symbols' = WithSymbol(name, type) /\ offsets' = NextOffsets /\ declared' = DeclaredHere
      /\ Len(declared') = last /\ last \in {1, 2}
      /\ declared'[last] = declared[last] \cup {NewSymbol}
      /\ \A n \in 1..last - 1 : declared'[n] = declared[n]
  BY OneMoreDeclared, DeclaredFields DEF AddVariable, Places
<1>2. \A n \in 1..last : Allocated(declared'[n], symbols', offsets')
  <2> SUFFICES ASSUME NEW n \in 1..last PROVE Allocated(declared'[n], symbols', offsets')
    OBVIOUS
  <2>1. Allocated(declared[n], symbols, offsets)
    BY DEF Places
  <2>2. /\ Allocated(declared[n], symbols', offsets')
        /\ Allocated(declared[n] \cup {NewSymbol}, symbols', offsets')
    BY <1>1, <2>1, NextIsAllocated
  <2>3. declared'[n] = declared[n] \cup {NewSymbol} \/ declared'[n] = declared[n]
    BY <1>1
  <2> QED BY <2>2, <2>3
<1>3. /\ symbols'[NewSymbol].space = CurrScopespace
      /\ \A n \in 1..last : \A i \in declared[n] : symbols'[i] = symbols[i]
  <2>1. Symbol(name, type, current_scope_depth, CurrScopespace, offsets[CurrScopespace]).space = CurrScopespace
    BY DEF Symbol
  <2>2. symbols'[Len(symbols) + 1].space = CurrScopespace
    BY <1>1, <2>1, AddedSymbol
  <2>3. \A i \in 1..Len(symbols) : symbols'[i] = symbols[i]
    BY <1>1, AddedSymbol
  <2> QED BY <2>2, <2>3 DEF NewSymbol, Places, Allocated
<1>4. InStatements' = InStatements
  BY DEF InStatements
<1>5. CASE last = 1
  BY <1>1, <1>2, <1>3, <1>5, SpaceOfNext DEF Places
<1>6. CASE last = 2
  <2>1. \A i \in declared'[2] : i \in declared[2] \/ i = NewSymbol
    BY <1>1, <1>6
  <2>2. CurrScopespace = IF InStatements THEN "functionlocal" ELSE "formalarg"
    BY <1>6, SpaceOfNext
  <2>3. declared'[1] = declared[1]
    BY <1>1, <1>6
  <2> QED
    BY <1>1, <1>2, <1>3, <1>4, <1>6, <2>1, <2>2, <2>3 DEF Places
<1> QED
  BY <1>1, <1>5, <1>6

LEMMA EmptyIsAllocated == ASSUME NEW syms, NEW offs PROVE Allocated({}, syms, offs)
BY DEF Allocated

\* A function begins with no formals, at the place zero, and the program's
\* symbols are in another space.
LEMMA FunctionHasItsPlace ==
  ASSUME Structure, Places, MaxNesting <= 1, NEW name \in AnyName, FuncStart(name)
  PROVE  Places'
<1> USE DEF Structure
<1>1. Len(declared) = 1 /\ CurrScopespace = "programvar"
  <2>1. Nesting < MaxNesting /\ Nesting \in Nat /\ Len(declared) = Nesting + 1 /\ MaxNesting \in Nat
    BY NestingIsNat, ScopesAssumption DEF FuncStart
  <2> QED BY <2>1, SpaceOfNext
<1>2. PICK S, syms, offs :
        /\ Allocated(S, syms, offs) /\ \A i \in S : syms[i].space = "programvar"
        /\ syms \in Seq(SymbolRecords)
        /\ symbols' = syms /\ offs \in [Spaces -> Nat] /\ offsets' = [offs EXCEPT !["formalarg"] = 0]
        /\ Len(declared') = 2 /\ declared'[1] = S /\ declared'[2] = {}
  <2>1. {} \in SUBSET Nat
    OBVIOUS
  <2>2. Allocated(declared[1], symbols, offsets)
    BY <1>1 DEF Places
  <2>3. CASE /\ symbols' = symbols
             /\ offsets' = [offsets EXCEPT !["formalarg"] = 0]
             /\ declared' = Append(declared, {})
    <3>1. Len(declared') = 2 /\ declared'[1] = declared[1] /\ declared'[2] = {}
      <4>1. declared \in Seq(SUBSET Nat) /\ 1 \in 1..Len(declared)
        BY <1>1 DEF Typed
      <4>2. /\ Len(declared') = Len(declared) + 1 /\ declared'[Len(declared) + 1] = {}
            /\ \A i \in 1..Len(declared) : declared'[i] = declared[i]
        BY <2>1, <2>3, <4>1, AppendProperties
      <4> QED BY <1>1, <4>1, <4>2
    <3> QED BY <2>2, <2>3, <3>1 DEF Places, Typed
  <2>4. CASE /\ symbols' = WithSymbol(name, "userfunc")
             /\ offsets' = [NextOffsets EXCEPT !["formalarg"] = 0]
             /\ declared' = Append(DeclaredHere, {})
    <3>1. /\ Len(declared') = 2 /\ declared'[1] = declared[1] \cup {NewSymbol} /\ declared'[2] = {}
      <4>1. /\ DeclaredHere \in Seq(SUBSET Nat) /\ Len(DeclaredHere) = 1 /\ 1 \in 1..1
            /\ DeclaredHere[1] = declared[1] \cup {NewSymbol}
        BY <1>1, OneMoreDeclared
      <4>2. PICK d \in Seq(SUBSET Nat) : d = DeclaredHere /\ declared' = Append(d, {})
        BY <2>4, <4>1
      <4>3. Len(declared') = Len(d) + 1 /\ declared'[Len(d) + 1] = {} /\ \A i \in 1..Len(d) : declared'[i] = d[i]
        BY <2>1, <4>2, AppendProperties
      <4> QED BY <4>1, <4>2, <4>3
    <3>2. /\ Allocated(declared[1] \cup {NewSymbol}, symbols', NextOffsets)
          /\ symbols' \in Seq(SymbolRecords)
      BY <2>2, <2>4, NextIsAllocated, AddedSymbol, TypesOfVariables
    <3>3. \A i \in declared[1] \cup {NewSymbol} : symbols'[i].space = "programvar"
      <4>1. Symbol(name, "userfunc", current_scope_depth, CurrScopespace, offsets[CurrScopespace]).space
              = CurrScopespace
        BY DEF Symbol
      <4>2. symbols'[Len(symbols) + 1].space = CurrScopespace
        BY <2>4, <4>1, AddedSymbol, TypesOfVariables
      <4>3. \A i \in 1..Len(symbols) : symbols'[i] = symbols[i]
        BY <2>4, AddedSymbol, TypesOfVariables
      <4> QED BY <1>1, <2>2, <4>2, <4>3 DEF NewSymbol, Places, Allocated
    <3> QED BY <2>4, <3>1, <3>2, <3>3, OffsetsAreTyped
  <2> QED
    BY <2>3, <2>4, FunctionStarts
<1>3. Allocated(S, syms, offsets')
  <2>1. \A i \in S : syms[i].offset \in Nat
    <3>1. \A i \in S : i \in 1..Len(syms)
      BY <1>2 DEF Allocated
    <3>2. \A i \in 1..Len(syms) : syms[i] \in SymbolRecords
      BY <1>2, ElementOfSeq
    <3> QED BY <3>1, <3>2 DEF SymbolRecords
  <2>2. offsets'["programvar"] = offs["programvar"] /\ offs["programvar"] \in Nat
    BY <1>2 DEF Spaces
  <2> QED
    BY <1>2, <2>1, <2>2, AllocatedLater DEF Allocated
<1>4. \A n \in 1..Len(declared') : Allocated(declared'[n], symbols', offsets')
  <2>1. \A n \in 1..2 : n = 1 \/ n = 2
    OBVIOUS
  <2> QED BY <1>2, <1>3, <2>1, EmptyIsAllocated
<1> QED
  BY <1>2, <1>4 DEF Places

LEMMA BodyHasItsPlace ==
  ASSUME Structure, Places, BodyStart
  PROVE  Places'
<1> USE DEF Structure
<1>1. ~ InStatements /\ InStatements'
  BY BodyStarts, ParsingFields DEF InStatements, BodyStart
<1>2. /\ symbols' = symbols /\ declared' = declared
      /\ offsets \in [Spaces -> Nat] /\ offsets' = [offsets EXCEPT !["functionlocal"] = 0]
  BY DEF BodyStart, Typed
<1>3. ASSUME NEW n \in 1..Len(declared)
      PROVE  Allocated(declared[n], symbols, offsets')
  <2>1. Allocated(declared[n], symbols, offsets) /\ (n = 1 \/ (n = 2 /\ Len(declared) = 2))
    BY DeclaredFields DEF Places
  <2>2. \A i \in declared[n] : symbols[i].space \in {"programvar", "formalarg"}
    BY <1>1, <2>1 DEF Places
  <2>3. \A i \in declared[n] : /\ offsets'[symbols[i].space] = offsets[symbols[i].space]
                               /\ offsets[symbols[i].space] \in Nat
    BY <1>2, <2>2 DEF Spaces
  <2>4. \A i \in declared[n] : i \in 1..Len(symbols) /\ symbols[i].offset \in Nat
    BY <2>1, SymbolFields DEF Allocated, SymbolRecords
  <2> QED
    BY <2>1, <2>3, <2>4, AllocatedLater
<1> QED
  BY <1>1, <1>2, <1>3 DEF Places

\* Hiding leaves every symbol where it is.
LEMMA BlockKeepsPlaces ==
  ASSUME Structure, Places, BlockStart \/ BlockEnd
  PROVE  Places'
<1> USE DEF Structure
<1>1. CASE BlockStart
  <2>1. InStatements
    BY <1>1 DEF BlockStart
  <2>2. InStatements'
    BY <1>1, RuleBegins DEF BlockStart, InStatements, Rules, Null
  <2> QED BY <1>1, <2>1, <2>2 DEF BlockStart, counters, Places
<1>2. CASE BlockEnd
  <2>1. InStatements /\ InStatements'
    <3>1. InStatements /\ parsing # <<>>
      BY <1>2 DEF BlockEnd, InStatements
    <3>2. /\ DOMAIN parsing' = 1..Len(parsing) - 1 /\ parsing' \in Seq(Rules)
          /\ Len(parsing') = Len(parsing) - 1
          /\ \A k \in 1..Len(parsing) - 1 : parsing'[k] = parsing[k]
      BY <1>2, RuleEnds DEF BlockEnd
    <3>3. ASSUME parsing' # <<>> PROVE Last(parsing').kind # "formals"
      <4>1. Len(parsing') \in Nat \ {0} /\ Last(parsing') = parsing'[Len(parsing')]
        BY <3>2, <3>3, LastProperties
      <4>2. Len(parsing') \in 1..Len(parsing) - 1 /\ Len(parsing') # Len(parsing)
            /\ Len(parsing') \in DOMAIN parsing
        BY <3>2, <4>1, ParsingFields
      <4> QED BY <3>2, <4>1, <4>2 DEF Nested
    <3> QED BY <3>1, <3>3 DEF InStatements
  <2>2. /\ Len(symbols') = Len(symbols) /\ declared' = declared /\ offsets' = offsets
        /\ \A i \in 1..Len(symbols) :
             symbols'[i].space = symbols[i].space /\ symbols'[i].offset = symbols[i].offset
    BY <1>2, BlockEnds DEF BlockEnd, counters
  <2>3. \A n \in 1..Len(declared) : \A i \in declared[n] : i \in 1..Len(symbols)
    BY DEF Places, Allocated
  <2>4. \A n \in 1..Len(declared) : Allocated(declared[n], symbols', offsets')
    BY <2>2, <2>3 DEF Places, Allocated
  <2>5. 1 \in 1..Len(declared) /\ (Len(declared) = 2 => 2 \in 1..Len(declared))
    BY DeclaredFields
  <2> QED
    BY <2>1, <2>2, <2>3, <2>4, <2>5 DEF Places
<1> QED BY <1>1, <1>2

LEMMA FuncEndKeepsPlaces ==
  ASSUME Structure, Places, FuncEnd
  PROVE  Places'
<1> USE DEF Structure
<1>1. /\ Len(symbols') = Len(symbols) /\ offsets' = offsets
      /\ \A i \in 1..Len(symbols) :
           symbols'[i].space = symbols[i].space /\ symbols'[i].offset = symbols[i].offset
  BY FunctionEnds DEF FuncEnd
<1>2. Len(declared) = 2
  <2>1. Len(parsing) \in OpenFunctions
    BY ParsingFields DEF FuncEnd, OpenFunctions
  <2>2. Cardinality(OpenFunctions) # 0
    BY <2>1, FunctionsAreFinite, FS_EmptySet
  <2> QED BY <2>2, NestingIsNat DEF Nested, Places
<1>3. Len(declared') = 1 /\ declared'[1] = declared[1]
  <2>1. declared' = Front(declared) /\ declared \in Seq(SUBSET Nat) /\ declared # <<>>
    BY DEF Typed, FuncEnd
  <2>2. Len(declared') = Len(declared) - 1 /\ \A i \in 1..Len(declared) - 1 : declared'[i] = declared[i]
    BY <2>1, LastProperties
  <2> QED BY <1>2, <2>2
<1>4. \A i \in declared[1] : i \in 1..Len(symbols)
  BY <1>2 DEF Places, Allocated
<1>5. Allocated(declared[1], symbols', offsets')
  BY <1>1, <1>2, <1>4 DEF Places, Allocated
<1>6. \A n \in 1..1 : n = 1
  OBVIOUS
<1> QED
  BY <1>1, <1>3, <1>4, <1>5, <1>6 DEF Places

LEMMA InitialPlaces == Init => Places
<1> SUFFICES ASSUME Init PROVE Places
  OBVIOUS
<1>1. Len(declared) = 1 /\ declared[1] = {} /\ \A n \in 1..1 : n = 1
  BY DEF Init
<1> QED
  BY <1>1, EmptyIsAllocated DEF Places

LEMMA PlacesAreKept ==
  ASSUME MaxNesting <= 1
  PROVE  Structure /\ Places /\ [Next]_vars => Places'
<1> SUFFICES ASSUME Structure, Places, [Next]_vars PROVE Places'
  OBVIOUS
<1>1. CASE UNCHANGED vars
  BY <1>1 DEF vars, counters, Places, InStatements
<1>2. ASSUME NoNewSymbol, parsing' = parsing PROVE Places'
  BY <1>2 DEF NoNewSymbol, Places, InStatements
<1>3. ASSUME NEW x \in Names, UseIdent(x) \/ UseLocal(x) \/ UseGlobal(x) \/ Formal(x) PROVE Places'
  <2>1. /\ parsing' = parsing
        /\ NoNewSymbol \/ \E type \in SymbolTypes : AddVariable(Ident(x), type)
    BY <1>3, TypesOfVariables DEF UseIdent, UseLocal, UseGlobal, Formal, UnchangedByLvalue
  <2> QED
    BY <1>2, <2>1, AddedHasItsPlace, TypesOfVariables
<1>4. CASE CreateTempVar
  <2>1. TempName(temp_counter) \in AnyName
    BY TypesOfVariables DEF Structure, Typed
  <2>2. parsing' = parsing /\ (NoNewSymbol \/ AddVariable(TempName(temp_counter), "localvar"))
    BY <1>4 DEF CreateTempVar
  <2> QED
    BY <1>2, <2>1, <2>2, AddedHasItsPlace, TypesOfVariables
<1> QED
  BY <1>1, <1>3, <1>4, TypesOfVariables, FunctionHasItsPlace, BodyHasItsPlace, BlockKeepsPlaces,
     FuncEndKeepsPlaces DEF Next

\* A symbol that has a place in a frame is active only in the function it was
\* declared in.
InFrame ==
  /\ \A i \in 1..Len(symbols) : symbols[i].space = "none" => symbols[i].s_type = "libfunc"
  /\ \A i \in 1..Len(symbols) : symbols[i].is_active /\ symbols[i].space \in {"formalarg", "functionlocal"} =>
       /\ Nesting = 1 /\ i \in declared[Len(declared)]
       /\ \A k \in OpenFunctions : symbols[i].s_scope >= k

LvalueLives == lvalue # Null => symbols[lvalue].is_active

Storage == Places /\ InFrame /\ LvalueLives

\* What a variable's use finds or declares is active.
LEMMA UsesFindActive ==
  ASSUME Structure, NEW x \in Names, UseIdent(x) \/ UseLocal(x) \/ UseGlobal(x) \/ Formal(x)
  PROVE  LvalueLives'
<1> USE DEF Structure
<1>1. ASSUME NEW type \in SymbolTypes, AddVariable(Ident(x), type)
      PROVE  symbols'[NewSymbol].is_active
  <2>1. Symbol(Ident(x), type, current_scope_depth, CurrScopespace, offsets[CurrScopespace]).is_active
    BY DEF Symbol
  <2> QED BY <1>1, <2>1, AddedSymbol, TypesOfVariables DEF AddVariable, NewSymbol
<1>2. CASE UseIdent(x)
  BY <1>1, <1>2, ActiveLookupIsSymbol, TypesOfVariables DEF UseIdent, NoNewSymbol, LvalueLives
<1>3. CASE UseLocal(x)
  BY <1>1, <1>3, LookupIsSymbol, TypesOfVariables DEF UseLocal, NoNewSymbol, LvalueLives
<1>4. CASE UseGlobal(x)
  BY <1>4, LookupIsSymbol DEF UseGlobal, NoNewSymbol, LvalueLives
<1>5. CASE Formal(x)
  BY <1>5 DEF Formal, LvalueLives
<1> QED
  BY <1>2, <1>3, <1>4, <1>5

LEMMA AddedIsInFrame ==
  ASSUME Structure, Places, InFrame, NEW name \in AnyName, NEW type \in SymbolTypes,
         AddVariable(name, type), parsing' = parsing
  PROVE  InFrame'
<1> USE DEF Structure
<1>1. /\ Len(symbols') = Len(symbols) + 1 /\ Len(symbols) \in Nat
      /\ \A i \in 1..Len(symbols) : symbols'[i] = symbols[i]
      /\ symbols'[NewSymbol].space = CurrScopespace
      /\ symbols'[NewSymbol].s_scope = current_scope_depth
  <2>1. LET s == Symbol(name, type, current_scope_depth, CurrScopespace, offsets[CurrScopespace])
        IN  s.space = CurrScopespace /\ s.s_scope = current_scope_depth
    BY DEF Symbol
  <2> QED BY <2>1, AddedSymbol, SymbolFields DEF AddVariable, NewSymbol
<1>2. \A i \in 1..Len(symbols') : i \in 1..Len(symbols) \/ i = NewSymbol
  BY <1>1 DEF NewSymbol
<1>3. /\ Len(declared') = Len(declared)
      /\ declared'[Len(declared)] = declared[Len(declared)] \cup {NewSymbol}
  BY OneMoreDeclared DEF AddVariable
<1>4. Nesting' = Nesting /\ OpenFunctions' = OpenFunctions
  BY <1>3 DEF Nesting, OpenFunctions
<1>5. CurrScopespace # "none" /\ (CurrScopespace # "programvar" => Nesting = 1)
  BY SpaceOfNext, SpaceIsSpace, NestingIsNat DEF Places, Spaces
<1>6. \A k \in OpenFunctions : current_scope_depth >= k
  BY FunctionsAreFinite, ParsingFields
<1> QED
  BY <1>1, <1>2, <1>3, <1>4, <1>5, <1>6 DEF InFrame

LEMMA FuncStartKeepsFrame ==
  ASSUME Structure, InFrame, MaxNesting <= 1, NEW name \in AnyName, FuncStart(name)
  PROVE  InFrame'
<1> USE DEF Structure
<1>1. Nesting = 0 /\ CurrScopespace = "programvar"
  <2>1. Nesting < MaxNesting /\ Nesting \in Nat /\ Len(declared) = Nesting + 1 /\ MaxNesting \in Nat
    BY NestingIsNat, ScopesAssumption DEF FuncStart
  <2> QED BY <2>1, SpaceOfNext
<1>2. \A i \in 1..Len(symbols) : symbols[i].is_active => symbols[i].space \notin {"formalarg", "functionlocal"}
  BY <1>1 DEF InFrame
<1>3. CASE symbols' = symbols
  BY <1>2, <1>3 DEF InFrame
<1>4. CASE symbols' = WithSymbol(name, "userfunc")
  <2>1. Symbol(name, "userfunc", current_scope_depth, CurrScopespace, offsets[CurrScopespace]).space
          = "programvar"
    BY <1>1 DEF Symbol
  <2>2. /\ Len(symbols') = Len(symbols) + 1 /\ Len(symbols) \in Nat
        /\ \A i \in 1..Len(symbols) : symbols'[i] = symbols[i]
        /\ symbols'[Len(symbols) + 1].space = "programvar"
    BY <1>4, <2>1, AddedSymbol, SymbolFields, TypesOfVariables
  <2>3. \A i \in 1..Len(symbols') : i \in 1..Len(symbols) \/ i = Len(symbols) + 1
    BY <2>2
  <2> QED
    BY <1>2, <2>2, <2>3 DEF InFrame
<1> QED
  BY <1>3, <1>4, FunctionStarts

LEMMA ScopeEndsKeepFrame ==
  ASSUME Structure, Places, InFrame, BlockEnd \/ FuncEnd
  PROVE  InFrame'
<1> USE DEF Structure
<1>1. /\ Len(symbols') = Len(symbols)
      /\ \A i \in 1..Len(symbols) :
           /\ symbols'[i].is_active = (symbols[i].is_active /\ symbols[i].s_scope # current_scope_depth)
           /\ symbols'[i].s_scope = symbols[i].s_scope /\ symbols'[i].s_type = symbols[i].s_type
           /\ symbols'[i].space = symbols[i].space
  BY BlockEnds, FunctionEnds
<1>2. ASSUME NEW i \in 1..Len(symbols), symbols'[i].is_active
      PROVE  symbols[i].is_active /\ symbols[i].s_scope < current_scope_depth
  <2>1. symbols[i].is_active /\ symbols[i].s_scope # current_scope_depth
    BY <1>1, <1>2
  <2>2. symbols[i].s_scope <= current_scope_depth /\ symbols[i].s_scope \in Nat
    BY <2>1, SymbolFields DEF ActiveInScope, SymbolRecords
  <2> QED BY <2>1, <2>2, ParsingFields
<1>3. CASE BlockEnd
  <2>1. OpenFunctions' = OpenFunctions
    <3>1. OpenFunctions' = OpenFunctions \ {Len(parsing)}
      BY <1>3, RuleEnds DEF BlockEnd
    <3>2. Len(parsing) \notin OpenFunctions
      BY <1>3, ParsingFields DEF BlockEnd, OpenFunctions
    <3> QED BY <3>1, <3>2
  <2>2. declared' = declared /\ Nesting' = Nesting
    BY <1>3 DEF BlockEnd, Nesting
  <2> QED
    BY <1>1, <1>2, <2>1, <2>2 DEF InFrame
<1>4. CASE FuncEnd
  <2>1. Len(parsing) \in OpenFunctions
    BY <1>4, ParsingFields DEF FuncEnd, OpenFunctions
  <2>2. \A i \in 1..Len(symbols) : symbols'[i].is_active =>
          symbols[i].space \notin {"formalarg", "functionlocal"}
    <3> SUFFICES ASSUME NEW i \in 1..Len(symbols), symbols'[i].is_active,
                        symbols[i].space \in {"formalarg", "functionlocal"}
                 PROVE  FALSE
      OBVIOUS
    <3>1. symbols[i].s_scope >= Len(parsing)
      BY <1>2, <2>1 DEF InFrame
    <3>2. symbols[i].s_scope < Len(parsing) /\ symbols[i].s_scope \in Nat /\ Len(parsing) \in Nat
      BY <1>2, SymbolFields, ParsingFields DEF SymbolRecords
    <3> QED BY <3>1, <3>2
  <2> QED
    BY <1>1, <2>2 DEF InFrame
<1> QED BY <1>3, <1>4

LEMMA InitialStorage == Init => Storage
<1> SUFFICES ASSUME Init PROVE Storage
  OBVIOUS
<1>1. InFrame
  BY InitialSymbols DEF InFrame, Symbol
<1>2. LvalueLives
  BY DEF Init, LvalueLives
<1> QED
  BY <1>1, <1>2, InitialPlaces DEF Storage

LEMMA StorageIsKept ==
  ASSUME MaxNesting <= 1
  PROVE  Structure /\ Storage /\ [Next]_vars => Storage'
<1> SUFFICES ASSUME Structure, Storage, [Next]_vars PROVE Storage'
  OBVIOUS
<1>0. Places' /\ Places /\ InFrame
  BY PlacesAreKept DEF Storage
<1>1. CASE UNCHANGED vars
  BY <1>0, <1>1 DEF vars, counters, Storage, InFrame, LvalueLives, Nesting, OpenFunctions
<1>2. ASSUME NoNewSymbol, parsing' = parsing PROVE InFrame'
  BY <1>0, <1>2 DEF NoNewSymbol, InFrame, Nesting, OpenFunctions
<1>3. ASSUME NEW x \in Names, UseIdent(x) \/ UseLocal(x) \/ UseGlobal(x) \/ Formal(x) PROVE Storage'
  <2>1. /\ parsing' = parsing
        /\ NoNewSymbol \/ \E type \in SymbolTypes : AddVariable(Ident(x), type)
    BY <1>3, TypesOfVariables DEF UseIdent, UseLocal, UseGlobal, Formal, UnchangedByLvalue
  <2>2. InFrame'
    BY <1>0, <1>2, <2>1, AddedIsInFrame, TypesOfVariables
  <2> QED
    BY <1>0, <1>3, <2>2, UsesFindActive DEF Storage
<1>4. ASSUME lvalue' = Null, InFrame' PROVE Storage'
  BY <1>0, <1>4 DEF Storage, LvalueLives
<1>5. CASE CreateTempVar
  <2>1. TempName(temp_counter) \in AnyName
    BY TypesOfVariables DEF Structure, Typed
  <2>2. parsing' = parsing /\ (NoNewSymbol \/ AddVariable(TempName(temp_counter), "localvar"))
    BY <1>5 DEF CreateTempVar
  <2> QED
    BY <1>0, <1>2, <1>4, <1>5, <2>1, <2>2, AddedIsInFrame, TypesOfVariables DEF CreateTempVar
<1>6. ASSUME NEW name \in AnyName, FuncStart(name) PROVE Storage'
  BY <1>0, <1>4, <1>6, FuncStartKeepsFrame DEF FuncStart
<1>7. CASE BlockStart
  <2>1. [kind |-> "block", sym |-> Null] \in Rules /\ [kind |-> "block", sym |-> Null].kind = "block"
    BY DEF Rules, Null
  <2>2. OpenFunctions' = OpenFunctions
    BY <1>7, <2>1, RuleBegins DEF BlockStart, Structure
  <2> QED BY <1>0, <1>4, <1>7, <2>2 DEF BlockStart, counters, InFrame, Nesting
<1>8. CASE BodyStart
  <2>1. OpenFunctions' = OpenFunctions
    BY <1>8, BodyStarts DEF Structure
  <2> QED BY <1>0, <1>4, <1>8, <2>1 DEF BodyStart, InFrame, Nesting
<1>9. CASE BlockEnd \/ FuncEnd
  BY <1>0, <1>4, <1>9, ScopeEndsKeepFrame DEF BlockEnd, FuncEnd
<1> QED
  BY <1>1, <1>3, <1>5, <1>6, <1>7, <1>8, <1>9, TypesOfVariables DEF Next

LEMMA StorageInvariant ==
  ASSUME MaxNesting <= 1
  PROVE  Spec => [](Structure /\ Storage)
<1>1. Init => Structure /\ Storage
  BY InitialStructure, InitialStorage
<1>2. Structure /\ Storage /\ [Next]_vars => (Structure /\ Storage)'
  BY StructureIsKept, StorageIsKept
<1> QED
  BY <1>1, <1>2, PTL DEF Spec

\* In a program whose functions are not nested, any two variables of the
\* program, and any two of a function, have different places in their space
\* (quads.c:111-132).  Where functions are nested it is not so.
THEOREM StorageIsOwn ==
  ASSUME MaxNesting <= 1
  PROVE  Spec => []OwnStorage
<1>1. Structure /\ Storage => OwnStorage
  BY DeclaredFields DEF Structure, Storage, Places, Allocated, OwnStorage
<1> QED
  BY <1>1, StorageInvariant, PTL

\* In such a program, a variable that code finds in a frame is one of the
\* function that the code belongs to (symtable.c:157-170, parser.y:590-599).
THEOREM FrameIsOwn ==
  ASSUME MaxNesting <= 1
  PROVE  Spec => []OwnFrame
<1>1. Structure /\ Storage => OwnFrame
  <2> SUFFICES ASSUME Structure, Storage, lvalue \in Variables, symbols[lvalue].space # "programvar"
               PROVE  lvalue \in Last(declared)
    BY DEF OwnFrame
  <2>1. /\ lvalue \in 1..Len(symbols) /\ symbols[lvalue].s_type # "libfunc"
        /\ symbols[lvalue] \in SymbolRecords
    BY SymbolFields DEF Structure, Variables
  <2>2. symbols[lvalue].is_active
    BY <2>1, SymbolFields DEF Storage, LvalueLives, Null, Structure
  <2>3. symbols[lvalue].space \in {"formalarg", "functionlocal"}
    BY <2>1 DEF Storage, InFrame, SymbolRecords, Spaces
  <2>4. lvalue \in declared[Len(declared)]
    BY <2>1, <2>2, <2>3 DEF Storage, InFrame
  <2> QED
    BY <2>4, DeclaredFields DEF Structure
<1> QED
  BY <1>1, StorageInvariant, PTL

\* In such a program, the frame of a function has room for every local
\* variable and temporary that it declares (parser.y:876-890).
THEOREM FrameHasRoom ==
  ASSUME MaxNesting <= 1
  PROVE  Spec => FrameHoldsLocals
<1> DEFINE Room == FuncEnd =>
             \A i \in Last(declared) \cap Variables :
               symbols[i].space = "functionlocal" =>
                 symbols[i].offset < symbols'[Last(parsing).sym].total_locals
<1>1. Structure /\ Storage /\ [Next]_vars => [Room]_vars
  <2> SUFFICES ASSUME Structure, Storage, FuncEnd PROVE Room
    OBVIOUS
  <2>1. symbols'[Last(parsing).sym].total_locals = offsets["functionlocal"]
    BY FunctionEnds DEF TotalLocals
  <2>2. Last(declared) = declared[Len(declared)] /\ Len(declared) \in 1..Len(declared)
    BY DeclaredFields DEF Structure
  <2>3. Allocated(Last(declared), symbols, offsets)
    BY <2>2 DEF Storage, Places
  <2> QED
    BY <2>1, <2>3 DEF Allocated
<1> QED
  BY <1>1, StorageInvariant, PTL DEF Spec, FrameHoldsLocals

-----------------------------------------------------------------------------
(***************************************************************************)
(* The symbol table implements lexical scoping: the refinement of module   *)
(* LexicalScopes by module Scopes.                                         *)
(***************************************************************************)

(* Lookups. *)

Found(name, scope) ==
  {i \in DOMAIN symbols : symbols[i].is_active /\ symbols[i].s_scope = scope
                            /\ symbols[i].s_name = name}

LEMMA LookupIsNewest ==
  /\ \A name, scope : LookupInScope(name, scope) = Newest(Found(name, scope))
  /\ \A name, scope : LookupInScope(name, scope)' = Newest(Found(name, scope)')
BY DEF LookupInScope, Found, Newest

\* The newest of a set of symbols is the one that no other is after.
LEMMA NewestIs ==
  ASSUME NEW n \in Nat, NEW S, S \subseteq 1..n, NEW i \in S, \A j \in S : j <= i
  PROVE  Newest(S) = i
<1>1. Newest(S) \in S /\ i <= Newest(S) /\ Newest(S) <= i
  BY NewestIsLast
<1>2. Newest(S) \in 1..n /\ i \in 1..n
  BY <1>1
<1> QED
  BY <1>1, <1>2

\* A lookup in a scope fails just when no active symbol of the scope has the name.
LEMMA LookupFails ==
  ASSUME Typed, NEW name, NEW scope
  PROVE  LookupInScope(name, scope) = Null <=> Found(name, scope) = {}
<1>1. Found(name, scope) \subseteq 1..Len(symbols) /\ Len(symbols) \in Nat
  BY SymbolFields DEF Found
<1>2. Found(name, scope) # {} => Newest(Found(name, scope)) # Null
  BY <1>1, NewestIsLast
<1> QED
  BY <1>2, NoneIsNewest, LookupIsNewest

\* The active lookup finds what the name means in the innermost scope that has it.
LEMMA ActiveLookupIsInnermost ==
  ASSUME Structure, NEW name
  PROVE  \/ /\ LookupActiveSymbol(name) = Null
            /\ \A k \in 0..current_scope_depth : LookupInScope(name, k) = Null
         \/ \E k \in 0..current_scope_depth :
              /\ LookupActiveSymbol(name) = LookupInScope(name, k)
              /\ LookupInScope(name, k) # Null
              /\ \A j \in 0..current_scope_depth : LookupInScope(name, j) # Null => j <= k
<1> USE DEF Structure
<1> DEFINE d == current_scope_depth
           T == {d - symbols[i].s_scope : i \in ActiveNamed(name)}
           Top == {i \in ActiveNamed(name) :
                     \A j \in ActiveNamed(name) : symbols[j].s_scope <= symbols[i].s_scope}
<1>1. \A i \in ActiveNamed(name) : /\ i \in 1..Len(symbols) /\ symbols[i].is_active
                                   /\ symbols[i].s_scope \in 0..d /\ symbols[i].s_name = name
  BY SymbolFields, ParsingFields DEF ActiveNamed, ActiveInScope, SymbolRecords
<1>2. LookupActiveSymbol(name) = Newest(Top)
  BY DEF LookupActiveSymbol
<1>3. \A k : Found(name, k) = {i \in ActiveNamed(name) : symbols[i].s_scope = k}
  BY DEF Found, ActiveNamed
<1>4. CASE ActiveNamed(name) = {}
  <2>1. LookupActiveSymbol(name) = Null
    BY <1>2, <1>4, NoneIsNewest
  <2>2. \A k \in 0..d : Found(name, k) = {}
    BY <1>3, <1>4
  <2> QED BY <2>1, <2>2, LookupFails
<1>5. CASE ActiveNamed(name) # {}
  <2>1. d \in Nat
    BY ParsingFields
  <2>2. T \subseteq Nat /\ T # {}
    <3>1. PICK i : i \in ActiveNamed(name)
      BY <1>5
    <3>2. d - symbols[i].s_scope \in T
      BY <3>1
    <3>3. \A j \in ActiveNamed(name) : d - symbols[j].s_scope \in Nat
      BY <1>1, <2>1
    <3> QED BY <3>2, <3>3
  <2> HIDE DEF T
  <2>3. PICK t \in T : \A u \in T : t <= u
    BY <2>2, LeastOfSet
  <2>4. PICK top \in ActiveNamed(name) : t = d - symbols[top].s_scope
    BY <2>3 DEF T
  <2>5. \A j \in ActiveNamed(name) : symbols[j].s_scope <= symbols[top].s_scope
    <3> SUFFICES ASSUME NEW j \in ActiveNamed(name) PROVE symbols[j].s_scope <= symbols[top].s_scope
      OBVIOUS
    <3>1. d - symbols[top].s_scope <= d - symbols[j].s_scope
      BY <2>3, <2>4 DEF T
    <3> QED BY <1>1, <2>1, <3>1
  <2>6. PICK k \in 0..d : k = symbols[top].s_scope
    BY <1>1
  <2>7. Top = Found(name, k)
    <3>1. ASSUME NEW i \in ActiveNamed(name)
          PROVE  (\A j \in ActiveNamed(name) : symbols[j].s_scope <= symbols[i].s_scope)
                   <=> symbols[i].s_scope = k
      <4>1. symbols[i].s_scope \in 0..d /\ symbols[top].s_scope \in 0..d
            /\ symbols[i].s_scope <= symbols[top].s_scope
        BY <1>1, <2>5
      <4> QED BY <2>1, <2>5, <2>6, <4>1
    <3> QED BY <1>3, <3>1
  <2>8. LookupActiveSymbol(name) = LookupInScope(name, k)
    BY <1>2, <2>7, LookupIsNewest
  <2>9. LookupInScope(name, k) # Null
    BY <1>3, <2>6, LookupFails
  <2>10. \A j \in 0..d : LookupInScope(name, j) # Null => j <= k
    <3> SUFFICES ASSUME NEW j \in 0..d, LookupInScope(name, j) # Null PROVE j <= k
      OBVIOUS
    <3>1. PICK i \in Found(name, j) : TRUE
      BY LookupFails
    <3> QED BY <1>3, <2>5, <2>6, <3>1
  <2> QED BY <2>8, <2>9, <2>10
<1> QED BY <1>4, <1>5

\* A lookup after a symbol was added finds it in its scope under its name, and
\* what it found before everywhere else.
LEMMA LookupAfterAdd ==
  ASSUME Structure, NEW new \in AnyName, NEW type \in SymbolTypes, symbols' = WithSymbol(new, type),
         NEW name, NEW scope
  PROVE  LookupInScope(name, scope)' = IF name = new /\ scope = current_scope_depth THEN NewSymbol
                                       ELSE LookupInScope(name, scope)
<1> USE DEF Structure
<1>1. /\ DOMAIN symbols' = 1..Len(symbols) + 1 /\ DOMAIN symbols = 1..Len(symbols) /\ Len(symbols) \in Nat
      /\ \A i \in 1..Len(symbols) : symbols'[i] = symbols[i]
      /\ symbols'[NewSymbol].s_name = new /\ symbols'[NewSymbol].s_scope = current_scope_depth
      /\ symbols'[NewSymbol].is_active
  <2>1. LET s == Symbol(new, type, current_scope_depth, CurrScopespace, offsets[CurrScopespace])
        IN  s.s_name = new /\ s.s_scope = current_scope_depth /\ s.is_active
    BY DEF Symbol
  <2> QED BY <2>1, AddedSymbol, SymbolFields DEF NewSymbol
<1>2. \A i \in 1..Len(symbols) + 1 : i \in 1..Len(symbols) \/ i = NewSymbol
  BY <1>1 DEF NewSymbol
<1>3. CASE name = new /\ scope = current_scope_depth
  <2>1. /\ NewSymbol \in Found(name, scope)' /\ Found(name, scope)' \subseteq 1..Len(symbols) + 1
        /\ \A j \in Found(name, scope)' : j <= NewSymbol
    BY <1>1, <1>3 DEF Found, NewSymbol
  <2>2. PICK S : S = Found(name, scope)'
    OBVIOUS
  <2>3. Len(symbols) + 1 \in Nat
    BY <1>1
  <2>4. Newest(S) = NewSymbol
    BY <2>1, <2>2, <2>3, NewestIs
  <2> QED BY <1>3, <2>2, <2>4, LookupIsNewest
<1>4. CASE ~ (name = new /\ scope = current_scope_depth)
  <2>1. Found(name, scope)' = Found(name, scope)
    BY <1>1, <1>2, <1>4 DEF Found
  <2> QED BY <1>4, <2>1, LookupIsNewest
<1> QED BY <1>3, <1>4

\* A lookup after the innermost scope was closed finds nothing in it.
LEMMA LookupAfterClose ==
  ASSUME Structure, BlockEnd \/ FuncEnd, NEW name, NEW scope
  PROVE  LookupInScope(name, scope)' = IF scope = current_scope_depth THEN Null
                                       ELSE LookupInScope(name, scope)
<1>1. /\ DOMAIN symbols' = 1..Len(symbols) /\ DOMAIN symbols = 1..Len(symbols)
      /\ \A i \in 1..Len(symbols) :
           /\ symbols'[i].is_active = (symbols[i].is_active /\ symbols[i].s_scope # current_scope_depth)
           /\ symbols'[i].s_scope = symbols[i].s_scope /\ symbols'[i].s_name = symbols[i].s_name
  BY BlockEnds, FunctionEnds, SymbolFields DEF Structure
<1>2. CASE scope = current_scope_depth
  <2>1. Found(name, scope)' = {}
    BY <1>1, <1>2 DEF Found
  <2> QED BY <1>2, <2>1, NoneIsNewest, LookupIsNewest
<1>3. CASE scope # current_scope_depth
  <2>1. Found(name, scope)' = Found(name, scope)
    BY <1>1, <1>3 DEF Found
  <2> QED BY <1>3, <2>1, LookupIsNewest
<1> QED BY <1>2, <1>3

\* There is nothing yet in a scope that opens.
LEMMA NothingFurtherIn ==
  ASSUME Structure, NEW name
  PROVE  LookupInScope(name, current_scope_depth + 1) = Null
<1>1. \A i \in DOMAIN symbols : symbols[i].is_active => symbols[i].s_scope # current_scope_depth + 1
  BY SymbolFields, ParsingFields DEF Structure, ActiveInScope, SymbolRecords
<1>2. Found(name, current_scope_depth + 1) = {}
  BY <1>1 DEF Found
<1> QED
  BY <1>2, LookupFails DEF Structure

-----------------------------------------------------------------------------
(* The library functions. *)

Reserved == {Builtins[i] : i \in DOMAIN Builtins}

\* The first symbols are those of the library functions, which stay active, and
\* nothing else of that type or, in the outermost scope, of that name is declared.
Library ==
  /\ Len(Builtins) <= Len(symbols)
  /\ \A i \in 1..Len(symbols) : symbols[i].s_type = "libfunc" => i <= Len(Builtins)
  /\ \A i \in 1..Len(Builtins) :
       /\ symbols[i].s_name = Ident(Builtins[i]) /\ symbols[i].s_type = "libfunc"
       /\ symbols[i].s_scope = 0 /\ symbols[i].is_active
  /\ \A i \in 1..Len(symbols), j \in 1..Len(Builtins) :
       symbols[i].s_scope = 0 /\ symbols[i].s_name = Ident(Builtins[j]) => i = j

\* In the outermost scope, the name of a library function means that function.
LEMMA ReservedMeansLibrary ==
  ASSUME Structure, Library, NEW j \in 1..Len(Builtins)
  PROVE  LookupInScope(Ident(Builtins[j]), 0) = j /\ j # Null /\ j \in 1..Len(symbols)
         /\ symbols[j].s_type = "libfunc"
<1>1. j \in 1..Len(symbols) /\ Len(symbols) \in Nat /\ DOMAIN symbols = 1..Len(symbols)
  BY SymbolFields, BuiltinsAreNames DEF Structure, Library
<1>2. Found(Ident(Builtins[j]), 0) = {j}
  BY <1>1 DEF Found, Library
<1>3. Newest({j}) = j
  BY <1>1, NewestIs
<1>4. LookupInScope(Ident(Builtins[j]), 0) = Newest(Found(Ident(Builtins[j]), 0))
  BY LookupIsNewest
<1>5. LookupInScope(Ident(Builtins[j]), 0) = j
  BY <1>2, <1>3, <1>4
<1> QED
  BY <1>1, <1>5 DEF Null, Library

\* A library function that is found there has such a name.
LEMMA LibraryIsReserved ==
  ASSUME Structure, Library, NEW x \in Names, LookupInScope(Ident(x), 0) # Null,
         symbols[LookupInScope(Ident(x), 0)].s_type = "libfunc"
  PROVE  x \in Reserved
<1> DEFINE i == LookupInScope(Ident(x), 0)
<1>1. i \in 1..Len(symbols) /\ symbols[i].s_name = Ident(x)
  BY LookupIsSymbol DEF Structure
<1> HIDE DEF i
<1>2. i \in 1..Len(Builtins)
  BY <1>1, BuiltinsAreNames, SymbolFields DEF Library, Structure, i
<1>3. Ident(Builtins[i]) = Ident(x)
  BY <1>1, <1>2 DEF Library
<1>4. Builtins[i] = x
  BY <1>3, NamesDiffer
<1> QED
  BY <1>2, <1>4, BuiltinsAreNames DEF Reserved

LEMMA AddedIsNoLibrary ==
  ASSUME Structure, Library, NEW name \in AnyName, NEW type \in SymbolTypes \ {"libfunc"},
         symbols' = WithSymbol(name, type),
         current_scope_depth # 0 \/ name = HiddenName \/ LookupInScope(name, 0) = Null
  PROVE  Library'
<1>1. /\ Len(symbols') = Len(symbols) + 1 /\ Len(symbols) \in Nat
      /\ \A i \in 1..Len(symbols) : symbols'[i] = symbols[i]
      /\ symbols'[NewSymbol].s_name = name /\ symbols'[NewSymbol].s_scope = current_scope_depth
      /\ symbols'[NewSymbol].s_type = type
  <2>1. LET s == Symbol(name, type, current_scope_depth, CurrScopespace, offsets[CurrScopespace])
        IN  s.s_name = name /\ s.s_scope = current_scope_depth /\ s.s_type = type
    BY DEF Symbol
  <2> QED BY <2>1, AddedSymbol, SymbolFields DEF NewSymbol, Structure
<1>2. \A i \in 1..Len(symbols') : i \in 1..Len(symbols) \/ i = NewSymbol
  BY <1>1 DEF NewSymbol
<1>3. \A j \in 1..Len(Builtins) :
        ~ (symbols'[NewSymbol].s_scope = 0 /\ symbols'[NewSymbol].s_name = Ident(Builtins[j]))
  BY <1>1, ReservedMeansLibrary, NamesDiffer
<1>4. \A i \in 1..Len(Builtins) : i \in 1..Len(symbols)
  BY <1>1, BuiltinsAreNames DEF Library
<1> QED
  BY <1>1, <1>2, <1>3, <1>4, BuiltinsAreNames DEF Library

LEMMA InitialLibrary == Init => Library
<1> SUFFICES ASSUME Init PROVE Library
  OBVIOUS
<1>1. \A i, j \in 1..Len(Builtins) : Ident(Builtins[i]) = Ident(Builtins[j]) => i = j
  BY NamesDiffer, BuiltinsAssumption, BuiltinsAreNames
<1> QED
  BY <1>1, InitialSymbols, BuiltinsAreNames DEF Library, Symbol

\* What a use of a variable does to the symbols: it finds what it was looking
\* for, or declares it where nothing was found.
LEMMA UsesDeclareOnce ==
  ASSUME Structure, Library, NEW x \in Names, UseIdent(x) \/ UseLocal(x) \/ UseGlobal(x) \/ Formal(x)
  PROVE  \/ symbols' = symbols
         \/ /\ \E type \in SymbolTypes \ {"libfunc"} : symbols' = WithSymbol(Ident(x), type)
            /\ current_scope_depth # 0 \/ LookupInScope(Ident(x), 0) = Null
<1>0. VariableType \in SymbolTypes \ {"libfunc"} /\ "formal" \in SymbolTypes \ {"libfunc"}
  BY DEF VariableType, SymbolTypes
<1>1. current_scope_depth \in Nat /\ 0 \in 0..current_scope_depth
  BY ParsingFields DEF Structure
<1>2. CASE UseIdent(x)
  <2>1. LookupActiveSymbol(Ident(x)) = Null => LookupInScope(Ident(x), 0) = Null
    BY <1>1, ActiveLookupIsInnermost
  <2> QED BY <1>0, <1>2, <2>1 DEF UseIdent, NoNewSymbol, AddVariable
<1>3. CASE UseLocal(x)
  BY <1>0, <1>3 DEF UseLocal, NoNewSymbol, AddVariable
<1>4. CASE UseGlobal(x)
  BY <1>4 DEF UseGlobal, NoNewSymbol
<1>5. CASE Formal(x)
  <2>1. current_scope_depth # 0
    BY <1>5, ParsingFields DEF Formal, Structure
  <2> QED BY <1>0, <1>5, <2>1 DEF Formal, AddVariable
<1> QED
  BY <1>2, <1>3, <1>4, <1>5

LEMMA LibraryIsKept == Structure /\ Library /\ [Next]_vars => Library'
<1> SUFFICES ASSUME Structure, Library, [Next]_vars PROVE Library'
  OBVIOUS
<1>1. ASSUME symbols' = symbols PROVE Library'
  BY <1>1 DEF Library
<1>2. ASSUME NEW x \in Names, UseIdent(x) \/ UseLocal(x) \/ UseGlobal(x) \/ Formal(x) PROVE Library'
  BY <1>1, <1>2, UsesDeclareOnce, AddedIsNoLibrary, TypesOfVariables
<1>3. {"userfunc", "localvar"} \subseteq SymbolTypes \ {"libfunc"}
  BY DEF SymbolTypes
<1>4. CASE CreateTempVar
  <2>1. TempName(temp_counter) \in AnyName
    BY TypesOfVariables DEF Structure, Typed
  <2>2. \/ symbols' = symbols
        \/ /\ symbols' = WithSymbol(TempName(temp_counter), "localvar")
           /\ LookupInScope(TempName(temp_counter), current_scope_depth) = Null
    BY <1>4 DEF CreateTempVar, NoNewSymbol, AddVariable
  <2> QED
    BY <1>1, <1>3, <2>1, <2>2, AddedIsNoLibrary
<1>5. ASSUME NEW name \in AnyName, FuncStart(name) PROVE Library'
  <2>1. \/ symbols' = symbols
        \/ /\ symbols' = WithSymbol(name, "userfunc")
           /\ name = HiddenName \/ LookupInScope(name, current_scope_depth) = Null
    BY <1>5, FunctionStarts
  <2> QED
    BY <1>1, <1>3, <2>1, AddedIsNoLibrary
<1>6. CASE BlockEnd \/ FuncEnd
  <2>1. /\ Len(symbols') = Len(symbols)
        /\ \A i \in 1..Len(symbols) :
             /\ symbols'[i].is_active = (symbols[i].is_active /\ symbols[i].s_scope # current_scope_depth)
             /\ symbols'[i].s_scope = symbols[i].s_scope /\ symbols'[i].s_name = symbols[i].s_name
             /\ symbols'[i].s_type = symbols[i].s_type
    BY <1>6, BlockEnds, FunctionEnds
  <2>2. current_scope_depth # 0
    BY <1>6, ParsingFields DEF BlockEnd, FuncEnd, Structure
  <2>3. \A i \in 1..Len(Builtins) : i \in 1..Len(symbols)
    BY ReservedMeansLibrary
  <2> QED
    BY <2>1, <2>2, <2>3 DEF Library
<1>7. CASE BlockStart \/ BodyStart \/ UNCHANGED vars
  BY <1>1, <1>7 DEF BlockStart, BodyStart, vars
<1> QED
  BY <1>2, <1>4, <1>5, <1>6, <1>7, TypesOfVariables DEF Next

-----------------------------------------------------------------------------
(* The open scopes. *)

\* What Abstract takes for the scopes and the declarations.
OpenScopes == [k \in 1..current_scope_depth + 1 |-> ScopeAt(k - 1)]
NamedSymbols == {i \in DOMAIN symbols : "ident" \in DOMAIN symbols[i].s_name}

LEMMA AbstractUnfolded ==
  /\ Abstract!Inner = Len(OpenScopes)
  /\ Abstract!Keep <=> OpenScopes' = OpenScopes /\ NamedSymbols' = NamedSymbols
  /\ \A x : Abstract!Has(x) = {k \in 1..Len(OpenScopes) : x \in DOMAIN OpenScopes[k]}
  /\ \A x : Abstract!Meaning(x) =
       IF Abstract!Has(x) = {} THEN Null
       ELSE OpenScopes[CHOOSE k \in Abstract!Has(x) : \A j \in Abstract!Has(x) : j <= k][x]
BY DEF Abstract!Inner, Abstract!Keep, Abstract!Has, Abstract!Meaning, OpenScopes, NamedSymbols

\* x is declared as d in the innermost scope.
Declared(x, d) ==
  /\ d \notin NamedSymbols /\ NamedSymbols' = NamedSymbols \cup {d}
  /\ OpenScopes' = [OpenScopes EXCEPT ![Len(OpenScopes)] = Abstract!With(OpenScopes[Len(OpenScopes)], x, d)]

LEMMA UseUnfolded ==
  ASSUME NEW x
  PROVE  /\ Abstract!Use(x) <=>
              \/ Abstract!Meaning(x) # Null /\ lvalue' = Abstract!Meaning(x) /\ Abstract!Keep
              \/ Abstract!Meaning(x) = Null /\ lvalue' # Null /\ Declared(x, lvalue')
         /\ Abstract!UseLocal(x) <=>
              IF x \in Reserved /\ Len(OpenScopes) > 1 THEN lvalue' = OpenScopes[1][x] /\ Abstract!Keep
              ELSE IF x \in DOMAIN OpenScopes[Len(OpenScopes)]
                   THEN lvalue' = OpenScopes[Len(OpenScopes)][x] /\ Abstract!Keep
                   ELSE lvalue' # Null /\ Declared(x, lvalue')
         /\ Abstract!UseGlobal(x) <=>
              /\ lvalue' = IF x \in DOMAIN OpenScopes[1] THEN OpenScopes[1][x] ELSE Null
              /\ Abstract!Keep
         /\ Abstract!Formal(x) <=> (\E d \in NamedSymbols' : Declared(x, d)) /\ lvalue' = Null
BY DEF Abstract!Use, Abstract!UseLocal, Abstract!UseGlobal, Abstract!Formal, Abstract!Declare, Abstract!Inner,
       Declared, OpenScopes, NamedSymbols, Reserved

LEMMA OpenUnfolded ==
  /\ Abstract!Open <=> OpenScopes' = Append(OpenScopes, <<>>) /\ NamedSymbols' = NamedSymbols /\ lvalue' = Null
  /\ Abstract!Close <=> /\ Len(OpenScopes) > 1
                        /\ OpenScopes' = SubSeq(OpenScopes, 1, Len(OpenScopes) - 1)
                        /\ NamedSymbols' = NamedSymbols /\ lvalue' = Null
  /\ Abstract!Internal <=> Abstract!Keep /\ lvalue' = Null
  /\ \A x : Abstract!OpenFunction(x) <=>
       /\ IF x \in DOMAIN OpenScopes[Len(OpenScopes)]
          THEN OpenScopes' = Append(OpenScopes, <<>>) /\ NamedSymbols' = NamedSymbols
          ELSE \E d \in NamedSymbols' :
                 /\ d \notin NamedSymbols /\ NamedSymbols' = NamedSymbols \cup {d}
                 /\ OpenScopes' = Append([OpenScopes EXCEPT ![Len(OpenScopes)]
                                            = Abstract!With(OpenScopes[Len(OpenScopes)], x, d)], <<>>)
       /\ lvalue' = Null
BY DEF Abstract!Open, Abstract!Close, Abstract!Internal, Abstract!OpenFunction, Abstract!Inner,
       OpenScopes, NamedSymbols

LEMMA ScopeFields ==
  ASSUME NEW d
  PROVE  /\ \A x \in Names : x \in DOMAIN ScopeAt(d) <=> LookupInScope(Ident(x), d) # Null
         /\ DOMAIN ScopeAt(d) \subseteq Names
         /\ \A x \in DOMAIN ScopeAt(d) : ScopeAt(d)[x] = LookupInScope(Ident(x), d)
BY DEF ScopeAt

LEMMA OpenScopesFields ==
  ASSUME Structure
  PROVE  /\ current_scope_depth \in Nat
         /\ DOMAIN OpenScopes = 1..current_scope_depth + 1
         /\ Len(OpenScopes) = current_scope_depth + 1
         /\ \A k \in 0..current_scope_depth : OpenScopes[k + 1] = ScopeAt(k)
         /\ \A k \in 1..current_scope_depth + 1 : OpenScopes[k] = ScopeAt(k - 1)
         /\ OpenScopes \in Seq({OpenScopes[k] : k \in 1..current_scope_depth + 1})
<1> DEFINE n == current_scope_depth + 1
           S == {OpenScopes[k] : k \in 1..n}
<1>1. current_scope_depth \in Nat
  BY ParsingFields DEF Structure
<1>2. DOMAIN OpenScopes = 1..n /\ \A k \in 1..n : OpenScopes[k] = ScopeAt(k - 1)
  BY DEF OpenScopes
<1>3. OpenScopes \in [1..n -> S]
  <2>1. OpenScopes = [k \in 1..n |-> OpenScopes[k]]
    BY DEF OpenScopes
  <2> QED BY <2>1
<1>4. n \in Nat
  BY <1>1
<1>5. OpenScopes \in Seq(S)
  BY <1>3, <1>4, SeqDef
<1>6. Len(OpenScopes) = n
  BY <1>2, <1>4, <1>5, LenProperties
<1>7. \A k \in 0..current_scope_depth : k + 1 \in 1..n /\ (k + 1) - 1 = k
  BY <1>1
<1>8. \A k \in 0..current_scope_depth : OpenScopes[k + 1] = ScopeAt(k)
  BY <1>2, <1>7
<1> QED
  BY <1>1, <1>2, <1>5, <1>6, <1>8

\* A name means what the lookup of an active symbol finds (symtable.c:107-121).
LEMMA MeaningIsActiveLookup ==
  ASSUME Structure, NEW x \in Names
  PROVE  Abstract!Meaning(x) = LookupActiveSymbol(Ident(x))
<1> DEFINE H == {k \in 1..Len(OpenScopes) : x \in DOMAIN OpenScopes[k]}
<1>1. Abstract!Meaning(x) = IF H = {} THEN Null ELSE OpenScopes[CHOOSE k \in H : \A j \in H : j <= k][x]
  BY AbstractUnfolded
<1>2. H = {k \in 1..current_scope_depth + 1 : LookupInScope(Ident(x), k - 1) # Null}
  BY OpenScopesFields, ScopeFields
<1> HIDE DEF H
<1>3. \A k \in 1..current_scope_depth + 1 : k - 1 \in 0..current_scope_depth
  BY OpenScopesFields
<1>4. CASE /\ LookupActiveSymbol(Ident(x)) = Null
           /\ \A k \in 0..current_scope_depth : LookupInScope(Ident(x), k) = Null
  BY <1>1, <1>2, <1>3, <1>4
<1>5. ASSUME NEW k \in 0..current_scope_depth,
             LookupActiveSymbol(Ident(x)) = LookupInScope(Ident(x), k),
             LookupInScope(Ident(x), k) # Null,
             \A j \in 0..current_scope_depth : LookupInScope(Ident(x), j) # Null => j <= k
      PROVE  Abstract!Meaning(x) = LookupActiveSymbol(Ident(x))
  <2>1. k + 1 \in 1..current_scope_depth + 1 /\ (k + 1) - 1 = k
    BY OpenScopesFields
  <2>2. k + 1 \in H
    BY <1>2, <1>5, <2>1
  <2>3. \A j \in H : j <= k + 1 /\ j \in Int
    BY <1>2, <1>3, <1>5, OpenScopesFields
  <2>4. (CHOOSE i \in H : \A j \in H : j <= i) = k + 1
    <3> DEFINE c == CHOOSE i \in H : \A j \in H : j <= i
    <3>1. c \in H /\ \A j \in H : j <= c
      BY <2>2, <2>3
    <3> HIDE DEF c
    <3>2. c <= k + 1 /\ k + 1 <= c /\ c \in Int /\ k + 1 \in Int
      BY <2>2, <2>3, <3>1
    <3>3. c = k + 1
      BY <3>2
    <3> QED BY <3>3 DEF c
  <2>5. Abstract!Meaning(x) = ScopeAt(k)[x]
    BY <1>1, <2>2, <2>4, OpenScopesFields
  <2> QED
    BY <1>5, <2>5, ScopeFields
<1> QED
  BY <1>4, <1>5, ActiveLookupIsInnermost

LEMMA LibraryNames ==
  ASSUME Structure, Library, NEW x \in Names
  PROVE  /\ x \in Reserved => /\ LookupInScope(Ident(x), 0) # Null
                              /\ symbols[LookupInScope(Ident(x), 0)].s_type = "libfunc"
         /\ x \notin Reserved => \/ LookupInScope(Ident(x), 0) = Null
                                 \/ symbols[LookupInScope(Ident(x), 0)].s_type # "libfunc"
BY ReservedMeansLibrary, LibraryIsReserved, BuiltinsAreNames DEF Reserved

\* The scopes are the same when every lookup is.
LEMMA ScopeStays ==
  ASSUME NEW d, \A y \in Names : LookupInScope(Ident(y), d)' = LookupInScope(Ident(y), d)
  PROVE  ScopeAt(d)' = ScopeAt(d)
<1>1. {y \in Names : LookupInScope(Ident(y), d) # Null}' = {y \in Names : LookupInScope(Ident(y), d) # Null}
  OBVIOUS
<1> QED
  BY <1>1 DEF ScopeAt

LEMMA ScopesStay ==
  ASSUME current_scope_depth' = current_scope_depth,
         \A d : \A y \in Names : LookupInScope(Ident(y), d)' = LookupInScope(Ident(y), d)
  PROVE  OpenScopes' = OpenScopes
<1>1. \A d : ScopeAt(d)' = ScopeAt(d)
  BY ScopeStays
<1> QED
  BY <1>1 DEF OpenScopes

LEMMA SameSymbolsSameScopes ==
  ASSUME symbols' = symbols
  PROVE  /\ NamedSymbols' = NamedSymbols
         /\ \A d : ScopeAt(d)' = ScopeAt(d)
         /\ current_scope_depth' = current_scope_depth => OpenScopes' = OpenScopes
BY DEF NamedSymbols, OpenScopes, ScopeAt, LookupInScope

\* The declaration of an identifier, in the innermost scope.
LEMMA AddedIsDeclared ==
  ASSUME Structure, NEW x \in Names, NEW type \in SymbolTypes, symbols' = WithSymbol(Ident(x), type),
         NEW top, top = current_scope_depth
  PROVE  /\ NewSymbol \notin NamedSymbols /\ NamedSymbols' = NamedSymbols \cup {NewSymbol}
         /\ NewSymbol # Null /\ NewSymbol \in NamedSymbols'
         /\ ScopeAt(top)' = Abstract!With(ScopeAt(top), x, NewSymbol)
         /\ \A d : d # top => ScopeAt(d)' = ScopeAt(d)
<1>1. Ident(x) \in AnyName
  BY TypesOfVariables
<1>2. /\ DOMAIN symbols' = 1..Len(symbols) + 1 /\ DOMAIN symbols = 1..Len(symbols) /\ Len(symbols) \in Nat
      /\ \A i \in 1..Len(symbols) : symbols'[i] = symbols[i]
      /\ symbols'[NewSymbol].s_name = Ident(x)
  <2>1. Symbol(Ident(x), type, current_scope_depth, CurrScopespace, offsets[CurrScopespace]).s_name = Ident(x)
    BY DEF Symbol
  <2> QED BY <1>1, <2>1, AddedSymbol, SymbolFields DEF NewSymbol, Structure
<1>3. "ident" \in DOMAIN Ident(x)
  BY DEF Ident
<1>4. \A i \in 1..Len(symbols) + 1 : i \in 1..Len(symbols) \/ i = NewSymbol
  BY <1>2 DEF NewSymbol
<1>5. /\ NewSymbol \notin NamedSymbols /\ NamedSymbols' = NamedSymbols \cup {NewSymbol}
      /\ NewSymbol # Null
  <2>1. NewSymbol \in 1..Len(symbols) + 1 /\ NewSymbol \notin 1..Len(symbols) /\ NewSymbol # 0
    BY <1>2 DEF NewSymbol
  <2> QED BY <1>2, <1>3, <1>4, <2>1 DEF NamedSymbols, Null
<1>6. \A d : \A y \in Names : LookupInScope(Ident(y), d)' = IF y = x /\ d = top THEN NewSymbol
                                                              ELSE LookupInScope(Ident(y), d)
  <2> SUFFICES ASSUME NEW d, NEW y \in Names
               PROVE  LookupInScope(Ident(y), d)' = IF y = x /\ d = top THEN NewSymbol
                                                    ELSE LookupInScope(Ident(y), d)
    OBVIOUS
  <2>1. Ident(y) = Ident(x) <=> y = x
    BY NamesDiffer
  <2> QED BY <1>1, <2>1, LookupAfterAdd
<1>7. ScopeAt(top)' = Abstract!With(ScopeAt(top), x, NewSymbol)
  <2>1. ScopeAt(top)' = [y \in {z \in Names : LookupInScope(Ident(z), top)' # Null} |->
                           LookupInScope(Ident(y), top)']
    BY DEF ScopeAt, Null
  <2>2. {z \in Names : LookupInScope(Ident(z), top)' # Null} = DOMAIN ScopeAt(top) \cup {x}
    BY <1>5, <1>6, ScopeFields
  <2>3. \A y \in DOMAIN ScopeAt(top) \cup {x} :
          LookupInScope(Ident(y), top)' = IF y = x THEN NewSymbol ELSE ScopeAt(top)[y]
    BY <1>6, ScopeFields
  <2> QED
    BY <2>1, <2>2, <2>3 DEF Abstract!With
<1>8. \A d : d # top => ScopeAt(d)' = ScopeAt(d)
  BY <1>6, ScopeStays
<1> QED
  BY <1>5, <1>7, <1>8

LEMMA AddedDeclares ==
  ASSUME Structure, NEW x \in Names, NEW type \in SymbolTypes, symbols' = WithSymbol(Ident(x), type),
         current_scope_depth' = current_scope_depth, NEW new, new = NewSymbol
  PROVE  /\ new \notin NamedSymbols /\ NamedSymbols' = NamedSymbols \cup {new}
         /\ new # Null /\ new \in NamedSymbols'
         /\ OpenScopes' = [OpenScopes EXCEPT
                             ![Len(OpenScopes)] = Abstract!With(OpenScopes[Len(OpenScopes)], x, new)]
<1>1. PICK top : top = current_scope_depth
  OBVIOUS
<1>3. /\ new \notin NamedSymbols /\ NamedSymbols' = NamedSymbols \cup {new}
      /\ new # Null /\ new \in NamedSymbols'
      /\ ScopeAt(top)' = Abstract!With(ScopeAt(top), x, new)
      /\ \A d : d # top => ScopeAt(d)' = ScopeAt(d)
  BY <1>1, AddedIsDeclared
<1>4. top \in Nat /\ DOMAIN OpenScopes = 1..top + 1 /\ Len(OpenScopes) = top + 1
      /\ \A k \in 1..top + 1 : OpenScopes[k] = ScopeAt(k - 1)
      /\ OpenScopes[top + 1] = ScopeAt(top)
  BY <1>1, OpenScopesFields
<1>5. OpenScopes' = [k \in 1..top + 1 |-> IF k = top + 1 THEN Abstract!With(ScopeAt(top), x, new)
                                          ELSE OpenScopes[k]]
  <2>1. OpenScopes' = [k \in 1..top + 1 |-> ScopeAt(k - 1)']
    BY <1>1 DEF OpenScopes
  <2>2. \A k \in 1..top + 1 : ScopeAt(k - 1)' = IF k = top + 1 THEN Abstract!With(ScopeAt(top), x, new)
                                                ELSE OpenScopes[k]
    <3> SUFFICES ASSUME NEW k \in 1..top + 1
                 PROVE  ScopeAt(k - 1)' = IF k = top + 1 THEN Abstract!With(ScopeAt(top), x, new)
                                          ELSE OpenScopes[k]
      OBVIOUS
    <3>1. CASE k = top + 1
      <4>1. k - 1 = top
        BY <1>4, <3>1
      <4> QED BY <1>3, <3>1, <4>1
    <3>2. CASE k # top + 1
      <4>1. k - 1 # top
        BY <1>4, <3>2
      <4> QED BY <1>3, <1>4, <3>2, <4>1
    <3> QED BY <3>1, <3>2
  <2> QED BY <2>1, <2>2
<1>6. OpenScopes = [k \in 1..top + 1 |-> OpenScopes[k]]
  BY <1>4 DEF OpenScopes
<1>7. OpenScopes' = [OpenScopes EXCEPT ![Len(OpenScopes)] = Abstract!With(OpenScopes[Len(OpenScopes)], x, new)]
  BY <1>4, <1>5, <1>6
<1> QED
  BY <1>3, <1>7

-----------------------------------------------------------------------------
(* Every step is one of LexicalScopes. *)

LEMMA FindingKeeps ==
  ASSUME NoNewSymbol, UnchangedByLvalue
  PROVE  Abstract!Keep /\ OpenScopes' = OpenScopes /\ NamedSymbols' = NamedSymbols
BY SameSymbolsSameScopes, AbstractUnfolded DEF NoNewSymbol, UnchangedByLvalue

LEMMA DeclaringDeclares ==
  ASSUME Structure, NEW x \in Names, NEW type \in SymbolTypes, AddVariable(Ident(x), type), UnchangedByLvalue,
         NEW new, new = NewSymbol
  PROVE  Declared(x, new) /\ new # Null /\ new \in NamedSymbols'
BY AddedDeclares DEF AddVariable, UnchangedByLvalue, Declared

LEMMA UseIdentMaps ==
  ASSUME Structure, NEW x \in Names, UseIdent(x)
  PROVE  Abstract!Use(x)
<1>1. Abstract!Meaning(x) = LookupActiveSymbol(Ident(x))
  BY MeaningIsActiveLookup
<1>2. CASE LookupActiveSymbol(Ident(x)) # Null
  <2>1. lvalue' = Abstract!Meaning(x) /\ Abstract!Keep /\ Abstract!Meaning(x) # Null
    BY <1>1, <1>2, FindingKeeps DEF UseIdent
  <2> QED BY <2>1, UseUnfolded
<1>3. CASE LookupActiveSymbol(Ident(x)) = Null
  <2>1. PICK new : new = NewSymbol
    OBVIOUS
  <2>2. lvalue' = new /\ AddVariable(Ident(x), VariableType) /\ UnchangedByLvalue
    BY <1>3, <2>1 DEF UseIdent
  <2>3. Declared(x, new) /\ new # Null
    BY <2>1, <2>2, DeclaringDeclares, TypesOfVariables
  <2>4. Abstract!Meaning(x) = Null /\ lvalue' # Null /\ Declared(x, lvalue')
    BY <1>1, <1>3, <2>2, <2>3 DEF Declared
  <2> QED BY <2>4, UseUnfolded
<1> QED BY <1>2, <1>3

LEMMA OuterAndInner ==
  ASSUME Structure
  PROVE  /\ OpenScopes[1] = ScopeAt(0)
         /\ OpenScopes[Len(OpenScopes)] = ScopeAt(current_scope_depth)
         /\ Len(OpenScopes) > 1 <=> current_scope_depth > 0
<1>1. 0 \in 0..current_scope_depth /\ 0 + 1 = 1 /\ current_scope_depth \in 0..current_scope_depth
  BY OpenScopesFields
<1> QED
  BY <1>1, OpenScopesFields

LEMMA UseLocalMaps ==
  ASSUME Structure, Library, NEW x \in Names, UseLocal(x)
  PROVE  Abstract!UseLocal(x)
<1> DEFINE builtin == LookupInScope(Ident(x), 0)
           r == LookupInScope(Ident(x), current_scope_depth)
           here == ScopeAt(current_scope_depth)
<1>1. x \in Reserved <=> builtin # Null /\ symbols[builtin].s_type = "libfunc"
  BY LibraryNames
<1>2. /\ x \in Reserved => ScopeAt(0)[x] = builtin
      /\ x \in DOMAIN here <=> r # Null
      /\ x \in DOMAIN here => here[x] = r
  BY <1>1, ScopeFields
<1>3. CASE current_scope_depth > 0 /\ builtin # Null /\ symbols[builtin].s_type = "libfunc"
  <2>1. lvalue' = builtin /\ Abstract!Keep
    BY <1>3, FindingKeeps DEF UseLocal
  <2> HIDE DEF builtin
  <2> QED BY <1>1, <1>2, <1>3, <2>1, UseUnfolded, OuterAndInner
<1>4. CASE ~ (current_scope_depth > 0 /\ builtin # Null /\ symbols[builtin].s_type = "libfunc")
  <2>1. ~ (x \in Reserved /\ Len(OpenScopes) > 1)
    BY <1>1, <1>4, OuterAndInner
  <2>2. CASE r # Null
    <3>1. lvalue' = r /\ Abstract!Keep
      BY <1>4, <2>2, FindingKeeps DEF UseLocal
    <3> HIDE DEF r, builtin
    <3> QED BY <1>2, <2>1, <2>2, <3>1, UseUnfolded, OuterAndInner
  <2>3. CASE r = Null
    <3>1. PICK new : new = NewSymbol
      OBVIOUS
    <3>2. lvalue' = new /\ AddVariable(Ident(x), VariableType) /\ UnchangedByLvalue
      BY <1>4, <2>3, <3>1 DEF UseLocal
    <3>3. Declared(x, new) /\ new # Null
      BY <3>1, <3>2, DeclaringDeclares, TypesOfVariables
    <3>4. lvalue' # Null /\ Declared(x, lvalue')
      BY <3>2, <3>3 DEF Declared
    <3> HIDE DEF r, builtin
    <3> QED BY <1>2, <2>1, <2>3, <3>4, UseUnfolded, OuterAndInner
  <2> QED BY <2>2, <2>3
<1> QED BY <1>3, <1>4

LEMMA UseGlobalMaps ==
  ASSUME Structure, NEW x \in Names, UseGlobal(x)
  PROVE  Abstract!UseGlobal(x)
<1>1. lvalue' = LookupInScope(Ident(x), 0) /\ Abstract!Keep
  BY FindingKeeps DEF UseGlobal
<1>2. LookupInScope(Ident(x), 0) = IF x \in DOMAIN ScopeAt(0) THEN ScopeAt(0)[x] ELSE Null
  BY ScopeFields
<1> QED
  BY <1>1, <1>2, UseUnfolded, OuterAndInner

LEMMA FormalMaps ==
  ASSUME Structure, NEW x \in Names, Formal(x)
  PROVE  Abstract!Formal(x)
<1>1. PICK new : new = NewSymbol
  OBVIOUS
<1>2. Declared(x, new) /\ new \in NamedSymbols'
  BY <1>1, DeclaringDeclares, TypesOfVariables DEF Formal
<1>3. lvalue' = Null
  BY DEF Formal
<1> QED
  BY <1>2, <1>3, UseUnfolded

\* The compiler's own symbols are in no scope.
LEMMA OtherNamesAreNotDeclared ==
  ASSUME Structure, NEW name \in AnyName, NEW type \in SymbolTypes, symbols' = WithSymbol(name, type),
         "ident" \notin DOMAIN name, \A x : Ident(x) # name
  PROVE  /\ NamedSymbols' = NamedSymbols
         /\ \A d : ScopeAt(d)' = ScopeAt(d)
         /\ current_scope_depth' = current_scope_depth => OpenScopes' = OpenScopes
<1>1. /\ DOMAIN symbols' = 1..Len(symbols) + 1 /\ DOMAIN symbols = 1..Len(symbols) /\ Len(symbols) \in Nat
      /\ \A i \in 1..Len(symbols) : symbols'[i] = symbols[i]
      /\ symbols'[NewSymbol].s_name = name
  <2>1. Symbol(name, type, current_scope_depth, CurrScopespace, offsets[CurrScopespace]).s_name = name
    BY DEF Symbol
  <2> QED BY <2>1, AddedSymbol, SymbolFields DEF NewSymbol, Structure
<1>2. \A i \in 1..Len(symbols) + 1 : i \in 1..Len(symbols) \/ i = NewSymbol
  BY <1>1 DEF NewSymbol
<1>3. NamedSymbols' = NamedSymbols
  BY <1>1, <1>2 DEF NamedSymbols
<1>4. ASSUME NEW d, NEW y \in Names PROVE LookupInScope(Ident(y), d)' = LookupInScope(Ident(y), d)
  BY LookupAfterAdd
<1>5. \A d : ScopeAt(d)' = ScopeAt(d)
  BY <1>4, ScopeStays
<1> QED
  BY <1>3, <1>5 DEF OpenScopes

LEMMA OwnNames ==
  /\ \A n : "ident" \notin DOMAIN TempName(n) /\ \A x : Ident(x) # TempName(n)
  /\ "ident" \notin DOMAIN HiddenName /\ \A x : Ident(x) # HiddenName
<1>1. \A n : DOMAIN TempName(n) = {"temp"}
  BY DEF TempName
<1>2. DOMAIN HiddenName = {"hidden"}
  BY DEF HiddenName
<1> QED
  BY <1>1, <1>2, NamesDiffer

LEMMA CreateTempMaps ==
  ASSUME Structure, CreateTempVar
  PROVE  Abstract!Internal
<1>1. TempName(temp_counter) \in AnyName
  BY TypesOfVariables DEF Structure, Typed
<1>2. /\ symbols' = symbols \/ symbols' = WithSymbol(TempName(temp_counter), "localvar")
      /\ current_scope_depth' = current_scope_depth /\ lvalue' = Null
  BY DEF CreateTempVar, NoNewSymbol, AddVariable
<1>3. OpenScopes' = OpenScopes /\ NamedSymbols' = NamedSymbols
  BY <1>1, <1>2, SameSymbolsSameScopes, OtherNamesAreNotDeclared, OwnNames, TypesOfVariables
<1> QED
  BY <1>2, <1>3, AbstractUnfolded, OpenUnfolded

LEMMA BodyStartMaps ==
  ASSUME BodyStart
  PROVE  Abstract!Internal
<1>1. symbols' = symbols /\ current_scope_depth' = current_scope_depth /\ lvalue' = Null
  BY DEF BodyStart
<1>2. OpenScopes' = OpenScopes /\ NamedSymbols' = NamedSymbols
  BY <1>1, SameSymbolsSameScopes
<1> QED
  BY <1>1, <1>2, AbstractUnfolded, OpenUnfolded

\* A scope opens inside those that are open, which are scopes, and is empty.
LEMMA ScopeOpens ==
  ASSUME NEW n \in Nat, n = current_scope_depth + 1, current_scope_depth' = n,
         NEW scopes, DOMAIN scopes = 1..n, scopes = [k \in 1..n |-> scopes[k]],
         \A k \in 1..n : ScopeAt(k - 1)' = scopes[k],
         \A y \in Names : LookupInScope(Ident(y), n)' = Null
  PROVE  OpenScopes' = Append(scopes, <<>>)
<1> DEFINE S == {scopes[k] : k \in 1..n} \cup {<<>>}
<1>2. scopes \in Seq(S) /\ Len(scopes) = n
  <2>1. scopes \in [1..n -> S]
    OBVIOUS
  <2>2. scopes \in Seq(S)
    BY <2>1, SeqDef
  <2> QED BY <2>2, LenProperties
<1>3. ScopeAt(n)' = <<>>
  <2>2. DOMAIN (ScopeAt(n)') = {}
    BY DEF ScopeAt, Null
  <2>3. ScopeAt(n)' = [y \in DOMAIN (ScopeAt(n)') |-> ScopeAt(n)'[y]]
    BY DEF ScopeAt
  <2>4. PICK f : f = ScopeAt(n)'
    OBVIOUS
  <2>5. DOMAIN f = 1..0 /\ f = [y \in 1..0 |-> f[y]]
    BY <2>2, <2>3, <2>4
  <2>6. f \in Seq({}) /\ Len(f) = 0
    <3>1. f \in [1..0 -> {}]
      BY <2>5
    <3>2. f \in Seq({})
      BY <3>1, SeqDef
    <3> QED BY <2>5, <3>2, LenProperties
  <2>7. f = <<>>
    BY <2>6, EmptySeq
  <2> QED BY <2>4, <2>7
<1>4. PICK after : after = OpenScopes'
  OBVIOUS
<1>5. /\ DOMAIN after = 1..n + 1 /\ after = [k \in 1..n + 1 |-> after[k]]
      /\ \A k \in 1..n + 1 : after[k] = ScopeAt(k - 1)'
  BY <1>4 DEF OpenScopes
<1>6. /\ \A k \in 1..n : after[k] = scopes[k] /\ k \in 1..n + 1
      /\ after[n + 1] = <<>>
  <2>1. (n + 1) - 1 = n /\ n + 1 \in 1..n + 1
    OBVIOUS
  <2> QED BY <1>3, <1>5, <2>1
<1>7. after \in Seq(S) /\ Len(after) = n + 1
  <2>1. \A k \in 1..n + 1 : k \in 1..n \/ k = n + 1
    OBVIOUS
  <2>2. after \in [1..n + 1 -> S]
    BY <1>5, <1>6, <2>1
  <2>3. n + 1 \in Nat
    OBVIOUS
  <2>4. after \in Seq(S)
    BY <2>2, <2>3, SeqDef
  <2> QED BY <1>5, <2>3, <2>4, LenProperties
<1>8. /\ Append(scopes, <<>>) \in Seq(S) /\ Len(Append(scopes, <<>>)) = n + 1
      /\ \A k \in 1..n : Append(scopes, <<>>)[k] = scopes[k]
      /\ Append(scopes, <<>>)[n + 1] = <<>>
  <2>1. PICK e \in S : e = <<>>
    OBVIOUS
  <2> HIDE DEF S
  <2>2. /\ Append(scopes, e) \in Seq(S) /\ Len(Append(scopes, e)) = Len(scopes) + 1
        /\ \A k \in 1..Len(scopes) : Append(scopes, e)[k] = scopes[k]
        /\ Append(scopes, e)[Len(scopes) + 1] = e
    BY <1>2, AppendProperties
  <2> QED BY <1>2, <2>1, <2>2
<1>9. \A k \in 1..n + 1 : after[k] = Append(scopes, <<>>)[k]
  <2>1. \A k \in 1..n + 1 : k \in 1..n \/ k = n + 1
    OBVIOUS
  <2> QED BY <1>6, <1>8, <2>1
<1> HIDE DEF S
<1>10. after = Append(scopes, <<>>)
  BY <1>7, <1>8, <1>9, SeqEqual
<1> QED
  BY <1>4, <1>10

\* Nothing that names something changes but that the parser is a scope further in.
LEMMA OpeningOpens ==
  ASSUME Structure, current_scope_depth' = current_scope_depth + 1,
         NamedSymbols' = NamedSymbols, \A d : ScopeAt(d)' = ScopeAt(d), lvalue' = Null,
         \A d : \A y \in Names : LookupInScope(Ident(y), d)' = LookupInScope(Ident(y), d)
  PROVE  Abstract!Open /\ OpenScopes' = Append(OpenScopes, <<>>)
<1>1. PICK n \in Nat : n = current_scope_depth + 1
  BY OpenScopesFields
<1>2. PICK scopes : scopes = OpenScopes
  OBVIOUS
<1>3. /\ DOMAIN scopes = 1..n /\ scopes = [k \in 1..n |-> scopes[k]]
      /\ \A k \in 1..n : ScopeAt(k - 1)' = scopes[k]
  BY <1>1, <1>2 DEF OpenScopes
<1>4. \A y \in Names : LookupInScope(Ident(y), n)' = Null
  BY <1>1, NothingFurtherIn
<1>5. OpenScopes' = Append(scopes, <<>>)
  BY <1>1, <1>3, <1>4, ScopeOpens
<1> QED
  BY <1>2, <1>5, OpenUnfolded

LEMMA BlockStartMaps ==
  ASSUME Structure, BlockStart
  PROVE  Abstract!Open
<1>1. symbols' = symbols /\ current_scope_depth' = current_scope_depth + 1 /\ lvalue' = Null
  BY DEF BlockStart
<1>2. \A d : \A y \in Names : LookupInScope(Ident(y), d)' = LookupInScope(Ident(y), d)
  BY <1>1 DEF LookupInScope
<1> QED
  BY <1>1, <1>2, SameSymbolsSameScopes, OpeningOpens

LEMMA HiddenFunctionMaps ==
  ASSUME Structure, FuncStart(HiddenName)
  PROVE  Abstract!Open
<1>1. /\ symbols' = WithSymbol(HiddenName, "userfunc")
      /\ current_scope_depth' = current_scope_depth + 1 /\ lvalue' = Null
  BY DEF FuncStart
<1>2. \A d : \A y \in Names : LookupInScope(Ident(y), d)' = LookupInScope(Ident(y), d)
  BY <1>1, LookupAfterAdd, OwnNames, TypesOfVariables
<1>3. NamedSymbols' = NamedSymbols /\ \A d : ScopeAt(d)' = ScopeAt(d)
  BY <1>1, OtherNamesAreNotDeclared, OwnNames, TypesOfVariables
<1> QED
  BY <1>1, <1>2, <1>3, OpeningOpens

LEMMA FunctionMaps ==
  ASSUME Structure, NEW x \in Names, FuncStart(Ident(x))
  PROVE  Abstract!OpenFunction(x)
<1>1. current_scope_depth' = current_scope_depth + 1 /\ lvalue' = Null
  BY DEF FuncStart
<1>2. x \in DOMAIN OpenScopes[Len(OpenScopes)] <=> LookupInScope(Ident(x), current_scope_depth) # Null
  BY ScopeFields, OuterAndInner
<1>3. Ident(x) # HiddenName
  BY NamesDiffer
<1>4. CASE LookupInScope(Ident(x), current_scope_depth) # Null
  <2>1. symbols' = symbols
    BY <1>3, <1>4, FunctionStarts
  <2>2. \A d : \A y \in Names : LookupInScope(Ident(y), d)' = LookupInScope(Ident(y), d)
    BY <2>1 DEF LookupInScope
  <2>3. OpenScopes' = Append(OpenScopes, <<>>) /\ NamedSymbols' = NamedSymbols
    BY <1>1, <2>1, <2>2, SameSymbolsSameScopes, OpeningOpens
  <2> QED
    BY <1>1, <1>2, <1>4, <2>3, OpenUnfolded
<1>5. CASE LookupInScope(Ident(x), current_scope_depth) = Null
  <2>1. symbols' = WithSymbol(Ident(x), "userfunc")
    BY <1>5, FunctionStarts
  <2>2. PICK n, top : n \in Nat /\ top = current_scope_depth /\ n = top + 1 /\ n # top
    BY OpenScopesFields
  <2>3. PICK new : new = NewSymbol
    OBVIOUS
  <2>4. /\ new \notin NamedSymbols /\ NamedSymbols' = NamedSymbols \cup {new} /\ new \in NamedSymbols'
        /\ ScopeAt(top)' = Abstract!With(ScopeAt(top), x, new)
        /\ \A d : d # top => ScopeAt(d)' = ScopeAt(d)
    BY <2>1, <2>2, <2>3, AddedIsDeclared, TypesOfVariables
  <2>5. PICK scopes : scopes = [OpenScopes EXCEPT
                                  ![Len(OpenScopes)] = Abstract!With(OpenScopes[Len(OpenScopes)], x, new)]
    OBVIOUS
  <2>6. /\ DOMAIN OpenScopes = 1..n /\ Len(OpenScopes) = n /\ top \in Nat
        /\ \A k \in 1..n : OpenScopes[k] = ScopeAt(k - 1)
        /\ OpenScopes[n] = ScopeAt(top)
    BY <2>2, OpenScopesFields, OuterAndInner
  <2>7. /\ DOMAIN scopes = 1..n /\ scopes = [k \in 1..n |-> scopes[k]]
        /\ \A k \in 1..n : scopes[k] = IF k = n THEN Abstract!With(ScopeAt(top), x, new) ELSE ScopeAt(k - 1)
    BY <2>5, <2>6
  <2>8. \A k \in 1..n : ScopeAt(k - 1)' = scopes[k]
    <3> SUFFICES ASSUME NEW k \in 1..n PROVE ScopeAt(k - 1)' = scopes[k]
      OBVIOUS
    <3>1. CASE k = n
      <4>1. k - 1 = top
        BY <2>2, <2>6, <3>1
      <4> QED BY <2>4, <2>7, <3>1, <4>1
    <3>2. CASE k # n
      <4>1. k - 1 # top
        BY <2>2, <2>6, <3>2
      <4> QED BY <2>4, <2>7, <3>2, <4>1
    <3> QED BY <3>1, <3>2
  <2>9. \A y \in Names : LookupInScope(Ident(y), n)' = Null
    <3> SUFFICES ASSUME NEW y \in Names PROVE LookupInScope(Ident(y), n)' = Null
      OBVIOUS
    <3>1. LookupInScope(Ident(y), n)' = LookupInScope(Ident(y), n)
      BY <2>1, <2>2, LookupAfterAdd, TypesOfVariables
    <3>2. LookupInScope(Ident(y), n) = Null
      BY <2>2, NothingFurtherIn
    <3> QED BY <3>1, <3>2 DEF Null
  <2>10. OpenScopes' = Append(scopes, <<>>)
    BY <1>1, <2>2, <2>7, <2>8, <2>9, ScopeOpens
  <2> QED
    BY <1>1, <1>2, <1>5, <2>4, <2>5, <2>10, OpenUnfolded
<1> QED BY <1>4, <1>5

\* The innermost scope closes, and the others are as they were.
LEMMA ScopeEndsMap ==
  ASSUME Structure, BlockEnd \/ FuncEnd
  PROVE  Abstract!Close
<1>1. /\ current_scope_depth' = current_scope_depth - 1 /\ lvalue' = Null
      /\ current_scope_depth \in Nat \ {0}
  BY ParsingFields DEF BlockEnd, FuncEnd, Structure
<1>2. PICK n \in Nat : n = current_scope_depth /\ n > 0
  BY <1>1
<1>3. NamedSymbols' = NamedSymbols
  <2>1. /\ DOMAIN symbols' = 1..Len(symbols) /\ DOMAIN symbols = 1..Len(symbols)
        /\ \A i \in 1..Len(symbols) : symbols'[i].s_name = symbols[i].s_name
    BY BlockEnds, FunctionEnds, SymbolFields DEF Structure
  <2> QED BY <2>1 DEF NamedSymbols
<1>4. \A k \in 1..n : ScopeAt(k - 1)' = ScopeAt(k - 1)
  <2> SUFFICES ASSUME NEW k \in 1..n PROVE ScopeAt(k - 1)' = ScopeAt(k - 1)
    OBVIOUS
  <2>1. k - 1 # n
    OBVIOUS
  <2>2. \A y \in Names : LookupInScope(Ident(y), k - 1)' = LookupInScope(Ident(y), k - 1)
    BY <1>2, <2>1, LookupAfterClose
  <2> QED BY <2>2, ScopeStays
<1>5. PICK before, after : before = OpenScopes /\ after = OpenScopes'
  OBVIOUS
<1> DEFINE S == {before[k] : k \in 1..n + 1}
<1>6. /\ DOMAIN before = 1..n + 1 /\ Len(before) = n + 1 /\ before \in Seq(S)
      /\ \A k \in 1..n + 1 : before[k] = ScopeAt(k - 1)
  BY <1>2, <1>5, OpenScopesFields
<1>7. /\ DOMAIN after = 1..n /\ after = [k \in 1..n |-> after[k]]
      /\ \A k \in 1..n : after[k] = ScopeAt(k - 1)'
  <2>1. current_scope_depth' + 1 = n
    BY <1>1, <1>2
  <2> QED BY <1>5, <2>1 DEF OpenScopes
<1>8. \A k \in 1..n : after[k] = before[k] /\ before[k] \in S /\ k \in 1..n + 1
  BY <1>4, <1>6, <1>7
<1> HIDE DEF S
<1>9. after \in Seq(S) /\ Len(after) = n
  <2>1. after \in [1..n -> S]
    BY <1>7, <1>8
  <2>2. after \in Seq(S)
    BY <2>1, SeqDef
  <2> QED BY <1>7, <2>2, LenProperties
<1>10. /\ SubSeq(before, 1, n) \in Seq(S) /\ Len(SubSeq(before, 1, n)) = n
       /\ \A k \in 1..n : SubSeq(before, 1, n)[k] = before[k]
  <2>1. /\ SubSeq(before, 1, n) \in Seq(S)
        /\ Len(SubSeq(before, 1, n)) = IF 1 <= n THEN n - 1 + 1 ELSE 0
        /\ \A k \in 1..n - 1 + 1 : SubSeq(before, 1, n)[k] = before[1 + k - 1]
    BY <1>8, SubSeqProperties
  <2>2. n - 1 + 1 = n /\ \A k \in 1..n : 1 + k - 1 = k
    OBVIOUS
  <2> QED BY <1>2, <2>1, <2>2
<1>11. after = SubSeq(before, 1, n)
  BY <1>8, <1>9, <1>10, SeqEqual
<1>12. Len(OpenScopes) > 1 /\ OpenScopes' = SubSeq(OpenScopes, 1, Len(OpenScopes) - 1)
  <2>1. n + 1 > 1 /\ (n + 1) - 1 = n
    BY <1>2
  <2> QED BY <1>5, <1>6, <1>11, <2>1
<1> QED
  BY <1>1, <1>3, <1>12, OpenUnfolded

LEMMA InitialScopes == Init => Abstract!Init
<1> SUFFICES ASSUME Init PROVE Abstract!Init
  OBVIOUS
<1>1. Structure /\ Library /\ current_scope_depth = 0 /\ lvalue = Null
  BY InitialStructure, InitialLibrary DEF Init
<1>2. DOMAIN ScopeAt(0) = Reserved
  <2>1. \A x \in Names : LookupInScope(Ident(x), 0) # Null => x \in Reserved
    <3> SUFFICES ASSUME NEW x \in Names, LookupInScope(Ident(x), 0) # Null PROVE x \in Reserved
      OBVIOUS
    <3>1. LookupInScope(Ident(x), 0) \in 1..Len(symbols)
      BY <1>1, LookupIsSymbol DEF Structure
    <3>2. symbols[LookupInScope(Ident(x), 0)].s_type = "libfunc"
      BY <3>1, InitialSymbols DEF Symbol
    <3> QED BY <1>1, <3>2, LibraryIsReserved
  <2>2. \A x \in Reserved : x \in Names /\ LookupInScope(Ident(x), 0) # Null
    BY <1>1, LibraryNames, BuiltinsAreNames DEF Reserved
  <2> QED BY <2>1, <2>2, ScopeFields
<1>3. OpenScopes = <<ScopeAt(0)>>
  <2>1. OpenScopes = [k \in 1..1 |-> ScopeAt(k - 1)] /\ 1 - 1 = 0
    BY <1>1 DEF OpenScopes
  <2>2. \A k \in 1..1 : k - 1 = 0
    OBVIOUS
  <2>3. OpenScopes = [k \in 1..1 |-> ScopeAt(0)]
    BY <2>1, <2>2
  <2> QED BY <2>3
<1>4. OpenScopes[1] = ScopeAt(0) /\ ScopeAt(0) = [x \in Reserved |-> ScopeAt(0)[x]]
  BY <1>2, <1>3 DEF ScopeAt
<1>5. NamedSymbols = {OpenScopes[1][x] : x \in Reserved}
  <2>1. NamedSymbols = 1..Len(Builtins)
    <3>1. \A i \in 1..Len(Builtins) : "ident" \in DOMAIN symbols[i].s_name
      BY InitialSymbols DEF Symbol, Ident
    <3> QED BY <3>1, InitialSymbols DEF NamedSymbols
  <2>2. \A j \in 1..Len(Builtins) : /\ Builtins[j] \in Reserved /\ Builtins[j] \in DOMAIN ScopeAt(0)
                                    /\ LookupInScope(Ident(Builtins[j]), 0) = j
    BY <1>1, <1>2, ReservedMeansLibrary, BuiltinsAreNames DEF Reserved
  <2>3. \A j \in 1..Len(Builtins) : ScopeAt(0)[Builtins[j]] = j
    BY <2>2, ScopeFields
  <2>4. Reserved = {Builtins[j] : j \in 1..Len(Builtins)}
    BY BuiltinsAreNames DEF Reserved
  <2> QED BY <1>4, <2>1, <2>3, <2>4
<1>6. OpenScopes = <<[x \in Reserved |-> OpenScopes[1][x]]>>
  BY <1>3, <1>4
<1> QED
  BY <1>1, <1>5, <1>6 DEF Abstract!Init, OpenScopes, NamedSymbols, Reserved

LEMMA StepsMap ==
  ASSUME Structure, Library, [Next]_vars
  PROVE  [Abstract!Next]_(Abstract!vars)
<1>1. CASE UNCHANGED vars
  <2>1. symbols' = symbols /\ current_scope_depth' = current_scope_depth /\ lvalue' = lvalue
    BY <1>1 DEF vars
  <2>2. OpenScopes' = OpenScopes /\ NamedSymbols' = NamedSymbols
    BY <2>1, SameSymbolsSameScopes
  <2> QED BY <2>1, <2>2 DEF Abstract!vars, OpenScopes, NamedSymbols
<1>2. ASSUME NEW x \in Names,
             UseIdent(x) \/ UseLocal(x) \/ UseGlobal(x) \/ FuncStart(Ident(x)) \/ Formal(x)
      PROVE  Abstract!Next
  BY <1>2, UseIdentMaps, UseLocalMaps, UseGlobalMaps, FunctionMaps, FormalMaps DEF Abstract!Next
<1>3. CASE CreateTempVar \/ BodyStart
  BY <1>3, CreateTempMaps, BodyStartMaps DEF Abstract!Next
<1>4. CASE FuncStart(HiddenName) \/ BlockStart
  BY <1>4, HiddenFunctionMaps, BlockStartMaps DEF Abstract!Next
<1>5. CASE BlockEnd \/ FuncEnd
  BY <1>5, ScopeEndsMap DEF Abstract!Next
<1> QED
  BY <1>1, <1>2, <1>3, <1>4, <1>5 DEF Next

\* The symbol table implements lexical scoping: whatever the program, a name
\* means its declaration in the innermost scope that has one, and blocks and
\* functions, however deep in one another, hide and give back what is outside
\* of them (symtable.c:44-156, parser.y:545-630).
THEOREM NamesAreLexical == Spec => ImplementsLexicalScopes
<1>1. Init => Structure /\ Library
  BY InitialStructure, InitialLibrary
<1>2. Structure /\ Library /\ [Next]_vars => (Structure /\ Library)'
  BY StructureIsKept, LibraryIsKept
<1>3. Init => Abstract!Init
  BY InitialScopes
<1>4. Structure /\ Library /\ [Next]_vars => [Abstract!Next]_(Abstract!vars)
  BY StepsMap
<1> QED
  BY <1>1, <1>2, <1>3, <1>4, PTL DEF Spec, Abstract!Spec, ImplementsLexicalScopes
=============================================================================
