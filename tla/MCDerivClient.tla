---------------------------- MODULE MCDerivClient ----------------------------
(* Bounds of DerivClient for model checking. *)
EXTENDS DerivClient
=============================================================================
