---------------------------- MODULE MCBackpatch ----------------------------
(* Parts of the grammar for Backpatch. *)
EXTENDS BackpatchRuns

Expressions ==
  [rules |-> {"exprstmt", "call", "eq", "and", "or", "not", "assign", "if", "comma"}, maxRules |-> 8]
Loops ==
  [rules |-> {"exprstmt", "call", "block", "if", "else", "while", "for", "break", "continue"},
   maxRules |-> 8]
Functions ==
  [rules |-> {"call", "while", "break", "function", "return"}, maxRules |-> 7]
Returns ==
  [rules |-> {"exprstmt", "call", "and", "if", "function", "return"}, maxRules |-> 6]

Relations ==
  [rules |-> Comparisons \cup {"exprstmt", "call", "and", "not", "if"}, maxRules |-> 6]

AllFragments == {Expressions, Relations, Loops, Functions, Returns}
OneFragment  == {Expressions}
=============================================================================
