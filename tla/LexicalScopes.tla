--------------------------- MODULE LexicalScopes ---------------------------
(***************************************************************************)
(* What the symbol table promises: a name means its declaration in the     *)
(* innermost scope that has one, a name declared in a scope hides the same *)
(* name outside of it until the scope is closed, and a name that means     *)
(* nothing yet is declared by its use.                                     *)
(***************************************************************************)
EXTENDS Integers, Sequences

CONSTANTS
  Names,      \* the identifiers
  Reserved,   \* those of the library functions
  Null        \* no declaration

VARIABLES
  scopes,  \* from names to declarations, one for each open scope, the innermost last
  used,    \* the declarations there were
  lvalue   \* the declaration that a variable just read means

vars == <<scopes, used, lvalue>>

Inner == Len(scopes)

Init ==
  /\ scopes = <<[x \in Reserved |-> scopes[1][x]]>>
  /\ used = {scopes[1][x] : x \in Reserved}
  /\ lvalue = Null

Has(x) == {k \in 1..Inner : x \in DOMAIN scopes[k]}

Meaning(x) ==
  IF Has(x) = {} THEN Null
  ELSE LET k == CHOOSE k \in Has(x) : \A j \in Has(x) : j <= k IN scopes[k][x]

With(scope, x, d) == [y \in DOMAIN scope \cup {x} |-> IF y = x THEN d ELSE scope[y]]

\* d, which is new, is what x means in the innermost scope.
Declare(x, d) ==
  /\ d \notin used /\ used' = used \cup {d}
  /\ scopes' = [scopes EXCEPT ![Inner] = With(@, x, d)]

Keep == UNCHANGED <<scopes, used>>

Use(x) ==
  IF Meaning(x) # Null THEN lvalue' = Meaning(x) /\ Keep
  ELSE lvalue' # Null /\ Declare(x, lvalue')

\* "local x", which is refused inside a scope for the name of a library function.
UseLocal(x) ==
  IF x \in Reserved /\ Inner > 1 THEN lvalue' = scopes[1][x] /\ Keep
  ELSE IF x \in DOMAIN scopes[Inner] THEN lvalue' = scopes[Inner][x] /\ Keep
  ELSE lvalue' # Null /\ Declare(x, lvalue')

\* "::x"
UseGlobal(x) ==
  /\ lvalue' = IF x \in DOMAIN scopes[1] THEN scopes[1][x] ELSE Null
  /\ Keep

Open == scopes' = Append(scopes, <<>>) /\ UNCHANGED used /\ lvalue' = Null

Close ==
  /\ Inner > 1
  /\ scopes' = SubSeq(scopes, 1, Inner - 1)
  /\ UNCHANGED used
  /\ lvalue' = Null

\* A function is declared where it stands, unless its name is, and its
\* formals and locals are in a scope of their own.
OpenFunction(x) ==
  /\ IF x \in DOMAIN scopes[Inner]
     THEN scopes' = Append(scopes, <<>>) /\ UNCHANGED used
     ELSE \E d \in used' :
            /\ d \notin used /\ used' = used \cup {d}
            /\ scopes' = Append([scopes EXCEPT ![Inner] = With(@, x, d)], <<>>)
  /\ lvalue' = Null

Formal(x) ==
  /\ \E d \in used' : Declare(x, d)
  /\ lvalue' = Null

\* What the compiler does for itself has no name.
Internal == Keep /\ lvalue' = Null

Next ==
  \/ \E x \in Names : Use(x) \/ UseLocal(x) \/ UseGlobal(x) \/ OpenFunction(x) \/ Formal(x)
  \/ Open \/ Close \/ Internal

Spec == Init /\ [][Next]_vars
=============================================================================
