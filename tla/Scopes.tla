------------------------------- MODULE Scopes -------------------------------
(***************************************************************************)
(* Names, scopes and storage in the compiler: the symbol table             *)
(* (symtable.c), the counters that give each variable its place in a frame *)
(* (quads.c:17-21, 96-138), and the semantic actions of the parser that    *)
(* use them (parser.y: lvalue, block, funcprefix, funcargs, funcbody,      *)
(* funcdef and formal_ident).  One step is one such action, in an order    *)
(* that the grammar allows.                                                *)
(*                                                                         *)
(* A symbol's position in the sequence of symbols stands for its address.  *)
(* The chains of the hash table are not modelled: they are searched from   *)
(* the newest symbol to the oldest, and so is the sequence.                *)
(*                                                                         *)
(* An operator named ...Mutant is the definition that follows it, with a   *)
(* plausible bug; nothing uses it.  It shows that a property can fail.     *)
(***************************************************************************)
EXTENDS Integers, Sequences, FiniteSets, SequencesExt

CONSTANTS
  Names,       \* the identifiers a program uses
  Builtins,    \* the library functions, a sequence of identifiers
  MaxSymbols,  \* the symbols of a program
  MaxDepth,    \* how deep blocks and functions are in one another
  MaxNesting   \* how deep functions are in one another

ASSUME ScopesAssumption ==
  /\ Builtins \in Seq(Names)
  /\ {MaxSymbols, MaxDepth, MaxNesting} \subseteq Nat

\* init_environment enters every library function once.
ASSUME BuiltinsAssumption ==
  \A i, j \in DOMAIN Builtins : Builtins[i] = Builtins[j] => i = j

VARIABLES
  symbols,              \* in the order of their creation
  current_scope_depth,
  scope_space_counter,
  offsets,              \* program_var_offset, formal_arg_offset, function_local_offset
  temp_counter,
  func_temp_counter_save,
  parsing,              \* the blocks and functions around the parser, innermost last
  lvalue,               \* the symbol of the lvalue just reduced
  declared              \* history: the symbols declared in the program and in each
                        \* function around the parser

counters == <<scope_space_counter, offsets, temp_counter, func_temp_counter_save>>
vars == <<symbols, current_scope_depth, counters, parsing, lvalue, declared>>

Null == 0

\* The names of the compiler's own symbols are not identifiers.
Ident(x)    == [ident |-> x]
TempName(n) == [temp |-> n]
HiddenName  == [hidden |-> TRUE]

Symbol(name, type, scope, space, offset) ==
  [s_name |-> name, s_type |-> type, s_scope |-> scope, is_active |-> TRUE,
   space |-> space, offset |-> offset, total_locals |-> 0]

Spaces == {"programvar", "formalarg", "functionlocal"}

\* init_environment.  A library function has no place in any space.
Init ==
  /\ symbols = [i \in DOMAIN Builtins |-> Symbol(Ident(Builtins[i]), "libfunc", 0, "none", 0)]
  /\ current_scope_depth = 0
  /\ scope_space_counter = 1
  /\ offsets = [s \in Spaces |-> 0]
  /\ temp_counter = 0
  /\ func_temp_counter_save = <<>>
  /\ parsing = <<>>
  /\ lvalue = Null
  /\ declared = <<{}>>

-----------------------------------------------------------------------------
(* The symbol table. *)

\* The newest of a set of symbols.
Newest(S) == IF S = {} THEN Null ELSE CHOOSE i \in S : \A j \in S : j <= i

LookupInScope(name, scope) ==
  Newest({i \in DOMAIN symbols : symbols[i].is_active /\ symbols[i].s_scope = scope
                                   /\ symbols[i].s_name = name})

ActiveNamedMutant(name) == {i \in DOMAIN symbols : symbols[i].s_name = name}
ActiveNamed(name) == {i \in DOMAIN symbols : symbols[i].is_active /\ symbols[i].s_name = name}

LookupActiveSymbol(name) ==
  Newest({i \in ActiveNamed(name) :
            \A j \in ActiveNamed(name) : symbols[j].s_scope <= symbols[i].s_scope})

HiddenMutant(scope) == [i \in DOMAIN symbols |-> [symbols[i] EXCEPT !.is_active = @ /\ i # Len(symbols)]]

\* The symbols once those of the scope are hidden.
Hidden(scope) ==
  [i \in DOMAIN symbols |-> [symbols[i] EXCEPT !.is_active = @ /\ symbols[i].s_scope # scope]]

-----------------------------------------------------------------------------
(* Spaces and offsets. *)

CurrScopespace ==
  IF scope_space_counter = 1 THEN "programvar"
  ELSE IF scope_space_counter % 2 = 0 THEN "formalarg" ELSE "functionlocal"

NextOffsetsMutant == [offsets EXCEPT !["functionlocal"] = @ + 1]
NextOffsets == [offsets EXCEPT ![CurrScopespace] = @ + 1]

WithSymbol(name, type) ==
  Append(symbols, Symbol(name, type, current_scope_depth, CurrScopespace, offsets[CurrScopespace]))

NewSymbol == Len(symbols) + 1

DeclaredHere == [declared EXCEPT ![Len(declared)] = @ \cup {NewSymbol}]

\* add_symbol, and the place of the variable in its space.
AddVariable(name, type) ==
  /\ Len(symbols) < MaxSymbols
  /\ symbols' = WithSymbol(name, type)
  /\ offsets' = NextOffsets
  /\ declared' = DeclaredHere

NoNewSymbol == UNCHANGED <<symbols, offsets, declared>>

-----------------------------------------------------------------------------
(* Variables. *)

\* The parser is where a statement may stand, not among the formals.
InStatements == parsing # <<>> => Last(parsing).kind # "formals"

VariableType == IF current_scope_depth = 0 THEN "globalvar" ELSE "localvar"

UnchangedByLvalue ==
  UNCHANGED <<current_scope_depth, scope_space_counter, temp_counter, func_temp_counter_save, parsing>>

\* lvalue: IDENT
UseIdent(x) ==
  LET r == LookupActiveSymbol(Ident(x)) IN
    /\ InStatements
    /\ IF r # Null THEN lvalue' = r /\ NoNewSymbol
       ELSE lvalue' = NewSymbol /\ AddVariable(Ident(x), VariableType)
    /\ UnchangedByLvalue

\* lvalue: LOCAL IDENT
UseLocal(x) ==
  LET builtin == LookupInScope(Ident(x), 0)
      r == LookupInScope(Ident(x), current_scope_depth)
  IN  /\ InStatements
      /\ IF current_scope_depth > 0 /\ builtin # Null /\ symbols[builtin].s_type = "libfunc"
         THEN lvalue' = builtin /\ NoNewSymbol
         ELSE IF r # Null THEN lvalue' = r /\ NoNewSymbol
         ELSE lvalue' = NewSymbol /\ AddVariable(Ident(x), VariableType)
      /\ UnchangedByLvalue

\* lvalue: DOUBLE_COLON IDENT
UseGlobal(x) ==
  /\ InStatements
  /\ lvalue' = LookupInScope(Ident(x), 0)
  /\ NoNewSymbol
  /\ UnchangedByLvalue

\* create_temp_var, for the value of an expression
CreateTempVar ==
  LET name == TempName(temp_counter) IN
    /\ InStatements
    /\ temp_counter' = temp_counter + 1
    /\ IF LookupInScope(name, current_scope_depth) # Null THEN NoNewSymbol
       ELSE AddVariable(name, "localvar")
    /\ lvalue' = Null
    /\ UNCHANGED <<current_scope_depth, scope_space_counter, func_temp_counter_save, parsing>>

-----------------------------------------------------------------------------
(* Blocks. *)

BlockStart ==
  /\ InStatements
  /\ current_scope_depth < MaxDepth
  /\ current_scope_depth' = current_scope_depth + 1
  /\ parsing' = Append(parsing, [kind |-> "block", sym |-> Null])
  /\ lvalue' = Null
  /\ UNCHANGED <<symbols, counters, declared>>

BlockEnd ==
  /\ parsing # <<>> /\ Last(parsing).kind = "block"
  /\ symbols' = Hidden(current_scope_depth)
  /\ current_scope_depth' = current_scope_depth - 1
  /\ parsing' = Front(parsing)
  /\ lvalue' = Null
  /\ UNCHANGED <<counters, declared>>

-----------------------------------------------------------------------------
(* Functions. *)

Nesting == Len(declared) - 1

\* funcprefix and the beginning of funcargs, which follows at once.  The
\* name is an identifier, or the compiler's own.
FuncStart(name) ==
  LET f == LookupInScope(name, current_scope_depth)
      isNew == f = Null \/ name = HiddenName
  IN  /\ InStatements
      /\ current_scope_depth < MaxDepth /\ Nesting < MaxNesting
      /\ isNew => Len(symbols) < MaxSymbols
      /\ symbols' = IF isNew THEN WithSymbol(name, "userfunc") ELSE symbols
      /\ offsets' = [IF isNew THEN NextOffsets ELSE offsets EXCEPT !["formalarg"] = 0]
      /\ declared' = Append(IF isNew THEN DeclaredHere ELSE declared, {})
      /\ scope_space_counter' = scope_space_counter + 1
      /\ current_scope_depth' = current_scope_depth + 1
      /\ parsing' = Append(parsing, [kind |-> "formals", sym |-> IF isNew THEN NewSymbol ELSE f])
      /\ lvalue' = Null
      /\ UNCHANGED <<temp_counter, func_temp_counter_save>>

\* formal_ident
Formal(x) ==
  /\ parsing # <<>> /\ Last(parsing).kind = "formals"
  /\ AddVariable(Ident(x), "formal")
  /\ lvalue' = Null
  /\ UnchangedByLvalue

\* funcbody, at the left brace
BodyStart ==
  /\ parsing # <<>> /\ Last(parsing).kind = "formals"
  /\ scope_space_counter' = scope_space_counter + 1
  /\ offsets' = [offsets EXCEPT !["functionlocal"] = 0]
  /\ func_temp_counter_save' = Append(func_temp_counter_save, temp_counter)
  /\ parsing' = [parsing EXCEPT ![Len(parsing)].kind = "body"]
  /\ lvalue' = Null
  /\ UNCHANGED <<symbols, current_scope_depth, temp_counter, declared>>

RestoredTempCounterMutant == 0
RestoredTempCounter == Last(func_temp_counter_save)

TotalLocalsMutant == offsets["formalarg"]
TotalLocals == offsets["functionlocal"]

SpaceOutsideMutant == scope_space_counter - 1
SpaceOutside == scope_space_counter - 2

\* funcbody at the right brace, and funcdef, which follows at once
FuncEnd ==
  LET f == Last(parsing).sym IN
    /\ parsing # <<>> /\ Last(parsing).kind = "body"
    /\ symbols' = [Hidden(current_scope_depth) EXCEPT ![f].total_locals = TotalLocals]
    /\ current_scope_depth' = current_scope_depth - 1
    /\ scope_space_counter' = SpaceOutside
    /\ temp_counter' = RestoredTempCounter
    /\ func_temp_counter_save' = Front(func_temp_counter_save)
    /\ parsing' = Front(parsing)
    /\ lvalue' = Null
    /\ declared' = Front(declared)
    /\ UNCHANGED offsets

Next ==
  \/ \E x \in Names :
       UseIdent(x) \/ UseLocal(x) \/ UseGlobal(x) \/ FuncStart(Ident(x)) \/ Formal(x)
  \/ CreateTempVar \/ FuncStart(HiddenName)
  \/ BlockStart \/ BlockEnd \/ BodyStart \/ FuncEnd

Spec == Init /\ [][Next]_vars

-----------------------------------------------------------------------------
(* Properties. *)

InFunction == Nesting > 0

\* The counters agree with where the parser is: the space that symbols are
\* declared in is that of the program, or of the formals or the locals of
\* the function around the parser.
TypeOK ==
  /\ \A i \in DOMAIN symbols :
       /\ symbols[i].s_type \in {"libfunc", "userfunc", "globalvar", "localvar", "formal"}
       /\ symbols[i].space \in Spaces \cup {"none"} /\ symbols[i].offset \in Nat
       /\ symbols[i].is_active => symbols[i].s_scope <= current_scope_depth
  /\ current_scope_depth = Len(parsing)
  /\ Nesting = Cardinality({k \in DOMAIN parsing : parsing[k].kind # "block"})
  /\ CurrScopespace = IF ~ InFunction THEN "programvar"
                      ELSE IF InStatements THEN "functionlocal" ELSE "formalarg"
  /\ lvalue \in 0..Len(symbols)

\* Code finds a variable by its offset, but a function in the constant
\* tables (target_code.c:160-185).
Variables == {i \in DOMAIN symbols : symbols[i].s_type \notin {"userfunc", "libfunc"}}

\* The variables and temporaries of a function, those of its closed blocks
\* included, and the globals, each have a place of their own: the offsets
\* (quads.c:111-132) that two of them have in the same space differ.
OwnStorage ==
  \A n \in DOMAIN declared : \A i, j \in declared[n] \cap Variables :
    i # j /\ symbols[i].space = symbols[j].space => symbols[i].offset # symbols[j].offset

\* The frame that funcenter makes, of total_locals cells (parser.y:890), has
\* room for every local variable and temporary that the function declared.
FrameHoldsLocals ==
  [][FuncEnd =>
       \A i \in Last(declared) \cap Variables :
         symbols[i].space = "functionlocal" =>
           symbols[i].offset < symbols'[Last(parsing).sym].total_locals]_vars

\* A variable that code uses by its offset in a frame is in the frame of the
\* function that the code belongs to (parser.y:590-599).
OwnFrame ==
  lvalue \in Variables /\ symbols[lvalue].space # "programvar" => lvalue \in Last(declared)

\* The value of an expression gets a variable that nothing else uses: the
\* counter that numbers temporaries goes back to where it was when a
\* function ends (parser.y:876, 883), and still names no living temporary.
TempsAreNew == [][CreateTempVar => Len(symbols') = Len(symbols) + 1]_vars

-----------------------------------------------------------------------------
(* Refinement: the scopes of module LexicalScopes are the active symbols.  *)

ScopeAt(depth) ==
  [x \in {y \in Names : LookupInScope(Ident(y), depth) # Null} |-> LookupInScope(Ident(x), depth)]

Abstract == INSTANCE LexicalScopes WITH
  Reserved <- {Builtins[i] : i \in DOMAIN Builtins},
  scopes   <- [k \in 1..current_scope_depth + 1 |-> ScopeAt(k - 1)],
  used     <- {i \in DOMAIN symbols : "ident" \in DOMAIN symbols[i].s_name}

\* Names mean what lexical scoping says they mean.
ImplementsLexicalScopes == Abstract!Spec
=============================================================================
