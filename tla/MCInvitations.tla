--------------------------- MODULE MCInvitations ---------------------------
(***************************************************************************)
(* Small instances of InvitationAcceptance for TLC.                        *)
(***************************************************************************)
EXTENDS InvitationAcceptance, TLC

CONSTANTS i1, i2, e1, e2, t1, t2, t3, h1, h2
Symmetry == Permutations({t1, t2, t3}) \cup Permutations({h1, h2})
=============================================================================
