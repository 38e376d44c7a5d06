------------------------------ MODULE MCKeeper ------------------------------
(* Keeper.tla for TLC, on the requests and bounds its configurations give. *)
EXTENDS Keeper
=============================================================================
