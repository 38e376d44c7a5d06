----------------------------- MODULE MCTransfer -----------------------------
(* Transfer.tla for TLC, on the machines and bounds its configurations give. *)
EXTENDS Transfer
=============================================================================
