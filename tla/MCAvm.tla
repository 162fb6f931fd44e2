------------------------------- MODULE MCAvm -------------------------------
(* Instances of Avm for TLC. *)
EXTENDS Avm, MCPrograms
=============================================================================
