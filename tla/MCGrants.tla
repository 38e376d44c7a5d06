------------------------------ MODULE MCGrants ------------------------------
(* Grants on two and three machines, for TLC. *)
EXTENDS Grants
=============================================================================
