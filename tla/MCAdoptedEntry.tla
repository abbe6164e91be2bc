--------------------------- MODULE MCAdoptedEntry ---------------------------
(***************************************************************************)
(* Instances of AdoptedEntry for TLC.                                      *)
(***************************************************************************)
EXTENDS AdoptedEntry
=============================================================================
