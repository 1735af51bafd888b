-------------------------- MODULE MCCoursePayments --------------------------
(***************************************************************************)
(* Small instances of CoursePayments for TLC.                             *)
(***************************************************************************)
EXTENDS CoursePayments, TLC

CONSTANTS u1, u2, c1, c2, p1, s1, s2, q1, q2, h1, h2, shop1, shop2

\* prices: a full price and a scholarship price
Full == "full"
Reduced == "reduced"

Course(open, offers, price, scholarshipPrice) ==
    [open |-> open, offers |-> offers,
     price |-> price, scholarshipPrice |-> scholarshipPrice]

OneCourseState == {Course(TRUE, TRUE, Full, Reduced)}
ClosableCourse == {Course(TRUE, TRUE, Full, Reduced), Course(FALSE, FALSE, Full, Reduced)}
SamePriceCourse == {Course(TRUE, TRUE, Reduced, Reduced)}
TwoAmounts == {Full, Reduced}
=============================================================================
