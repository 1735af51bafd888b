---------------------------- MODULE MCOnboarding ----------------------------
(***************************************************************************)
(* Small instances of Onboarding for TLC.                                  *)
(***************************************************************************)
EXTENDS Onboarding, TLC

CONSTANTS c1, c2
Symmetry == Permutations({c1, c2})
=============================================================================
