----------------------------- MODULE MCAvmTable -----------------------------
EXTENDS AvmTable

\* Two numbers that collide; two strings whose slots are not in their order;
\* a key of another kind, and one that cannot be stored.
MCKeys  == {Number(0), Number(1), String("a"), String("b"), Bool(TRUE), Undef}
MCElems == {Number(7), Bool(FALSE), Nil}

MCStrings  == CellTypes \cup {"libraryfunction", "()", "a", "b"}
MCNumerals == [s \in {} |-> 0]

MCHashNum == (0 :> 1) @@ (1 :> 1) @@ (2 :> 0) @@ (3 :> 0)
MCHashStr == ("a" :> 1) @@ ("b" :> 0)
MCStrOrder == <<"a", "b">>
=============================================================================
