-------------------------------- MODULE Sums --------------------------------
(***************************************************************************)
(* What the code adds up with iter().sum() or a fold: the values of a      *)
(* function or a sequence.                                                 *)
(***************************************************************************)
EXTENDS Integers, Functions

Total(f) == FoldFunction(+, 0, f)

=============================================================================
