---------------------------- MODULE MCStateFiles ----------------------------
(* Bounds of StateFiles for model checking. *)
EXTENDS StateFiles
=============================================================================
