------------------------------ MODULE MCAssign ------------------------------
(***************************************************************************)
(* Two assignments to a variable of three layers, or one assignment with   *)
(* calls in its index expressions.                                         *)
(***************************************************************************)
EXTENDS Assign, TLC

CONSTANTS one, two

MCProc == {one, two}
MCAlone == {one}
Symmetry == Permutations(MCProc)
=============================================================================
