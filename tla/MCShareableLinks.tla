-------------------------- MODULE MCShareableLinks --------------------------
(***************************************************************************)
(* Small instances of ShareableLinks for TLC.                              *)
(***************************************************************************)
EXTENDS ShareableLinks, TLC

CONSTANTS l1, l2, t1, t2, h1, h2
Symmetry == Permutations({t1, t2}) \cup Permutations({h1, h2})
=============================================================================
