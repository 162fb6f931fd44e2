------------------------------ MODULE MCScopes ------------------------------
(* Instances of Scopes for TLC. *)
EXTENDS Scopes

MCNames    == {"x", "print"}
MCBuiltins == <<"print">>
NoBuiltins == <<>>
=============================================================================
