---------------------------- MODULE MCAvmHistory ----------------------------
(* Instances of AvmHistory for TLC. *)
EXTENDS AvmHistory, MCPrograms
=============================================================================
