---------------------------- MODULE MCRangeLoops ----------------------------
(* Four-bit integers: every pair of bounds, those at the limits included.   *)
EXTENDS RangeLoops
=============================================================================
