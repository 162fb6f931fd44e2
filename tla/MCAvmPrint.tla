----------------------------- MODULE MCAvmPrint -----------------------------
EXTENDS AvmPrint

MCTables  == {"t", "u"}
MCScalars == {"true"}
MCArrayKeys == <<"0", "1">>

\* Arrays and tables with other keys, of at most two elements.
MCContents ==
  {<<>>} \cup
  UNION {{[i \in DOMAIN keys |-> [key |-> keys[i], value |-> vals[i]]] :
            vals \in [DOMAIN keys -> MCTables \cup MCScalars]} :
            keys \in {<<"0">>, <<"a">>, <<"0", "1">>, <<"a", "0">>}}
=============================================================================
