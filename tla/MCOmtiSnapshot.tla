--------------------------- MODULE MCOmtiSnapshot ---------------------------
(***************************************************************************)
(* A small instance of OmtiSnapshot: one slot, one image.                  *)
(***************************************************************************)
EXTENDS OmtiSnapshot, MCOmti
=============================================================================
