----------------------------- MODULE MCAvmRefs -----------------------------
(* Programs for AvmRefs. *)
EXTENDS AvmRefs

\* One makes three tables, with elements under one key; the other makes two
\* and uses one of them as a key.
MCUses ==
  {[keys |-> PlainKeys, heap |-> Addresses],
   [keys |-> TableKeys, heap |-> CHOOSE two \in SUBSET Addresses : TableKeys \subseteq two /\ Cardinality(two) = 2]}
=============================================================================
