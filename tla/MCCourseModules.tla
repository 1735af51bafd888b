--------------------------- MODULE MCCourseModules ---------------------------
(***************************************************************************)
(* Small instances of CourseModules for TLC.                               *)
(***************************************************************************)
EXTENDS CourseModules

CONSTANTS a1, a2, c1, c2, m1, m2, m3
=============================================================================
