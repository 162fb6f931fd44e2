--------------------------- MODULE MCExpressions ---------------------------
(* Parts of the grammar for Expressions, and values of the variables. *)
EXTENDS Expressions

MCStrings  == CellTypes \cup {"libraryfunction", "()", "a"}
MCNumerals == [s \in {} |-> 0]

\* Zero, a half, two and a half, and the operators on them, but for the minus that Effects has.
Folding ==
  [constants |-> {0, 1, 5}, names |-> {"x"}, ops |-> {"add", "mul", "div", "mod"},
   rules |-> {"minus"}, maxRules |-> 3]

\* A variable and the elements of a table, and all that changes them.
Effects ==
  [constants |-> {2}, names |-> {"x", "t"}, ops |-> {"sub"},
   rules |-> {"minus", "assign", "index", "pre", "post"}, maxRules |-> 4]

\* Calls, methods and tables, of elements and as elements.
Objects ==
  [constants |-> {2}, names |-> {"t"}, ops |-> {},
   rules |-> {"dot", "index", "call", "method", "list", "pairs", "comma", "assign"}, maxRules |-> 4]

AllFragments == {Folding, Effects, Objects}

\* x is a number or not yet set, or a function; t is a table whose elements
\* are a number or a table, and a function or that table.
Elements(c, d) == [elems |-> [k \in {Number(2), Method} |-> IF k = Method THEN d ELSE c], total |-> 2]
MCStores ==
  {[x |-> [n \in {"x", "t"} |-> IF n = "x" THEN Number(2) ELSE TableRef(1)],
    heap |-> <<Elements(Number(4), UserFunc(1))>>],
   [x |-> [n \in {"x", "t"} |-> IF n = "x" THEN Undef ELSE TableRef(1)],
    heap |-> <<Elements(TableRef(2), TableRef(2)), Elements(UserFunc(2), UserFunc(3))>>]}
=============================================================================
