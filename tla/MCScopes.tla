------------------------------ MODULE MCScopes ------------------------------
(***************************************************************************)
(* Values for Scopes: two names, so that one can shadow the other's scope  *)
(* and be declared twice.                                                  *)
(***************************************************************************)
EXTENDS Scopes, TLC

CONSTANTS x, y

MCNames == {x, y}

\* The two names are interchangeable.
Symmetry == Permutations(MCNames)
=============================================================================
