--------------------------- MODULE MCSlotListing ---------------------------
(***************************************************************************)
(* An instance of SlotListing for TLC: pages of one to three records.      *)
(***************************************************************************)
EXTENDS SlotListing
=============================================================================
