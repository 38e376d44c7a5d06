------------------------------- MODULE MCShelf -------------------------------
(* Shelf.tla for TLC, on the machines and bounds its configurations give. *)
EXTENDS Shelf
=============================================================================
