----------------------------- MODULE MCForLoops -----------------------------
(***************************************************************************)
(* Values for ForLoops: two containers, two keys and two values, so that a *)
(* key can be deleted that the loop has not reached, a List can be         *)
(* replaced by a shorter or a longer one, and an element can be            *)
(* overwritten before its visit and after it.                              *)
(***************************************************************************)
EXTENDS ForLoops

CONSTANTS r1, r2, k1, k2, v1, v2

MCRefs == {r1, r2}
MCKeys == {k1, k2}
MCVals == {v1, v2}
=============================================================================
