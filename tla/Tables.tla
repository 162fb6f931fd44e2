------------------------------- MODULE Tables -------------------------------
(***************************************************************************)
(* What a table promises to an Alpha program: it is a map from keys to     *)
(* elements with a counter, as AvmCells has it.  Nothing is said of        *)
(* buckets or hash values.                                                 *)
(***************************************************************************)
EXTENDS AvmCells

CONSTANTS Keys, Elems  \* the cells used as keys and as elements

VARIABLES elems, total

Current == [elems |-> elems, total |-> total]

Becomes(t) == elems' = t.elems /\ total' = t.total

Init == Current = EmptyTable

Next ==
  \/ \E key \in Keys, val \in Elems : Becomes(SetElem(Current, key, val))
  \/ Becomes(CopyOf(Current))

Spec == Init /\ [][Next]_<<elems, total>>
=============================================================================
