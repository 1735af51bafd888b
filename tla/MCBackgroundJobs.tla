--------------------------- MODULE MCBackgroundJobs ---------------------------
(***************************************************************************)
(* Small instances of BackgroundJobs for TLC.                              *)
(***************************************************************************)
EXTENDS BackgroundJobs, TLC

CONSTANTS m1, m2, id1

\* The ids of the emails and of every tick
SomeJobIds == {id1} \cup (Scheduled \X (1..MaxTicks))
=============================================================================
