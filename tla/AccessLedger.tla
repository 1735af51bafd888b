---------------------------- MODULE AccessLedger ----------------------------
(***************************************************************************)
(* What the payment side of the platform promises, without handlers,      *)
(* references or retries: a user is quoted amounts for a course, Paystack *)
(* confirms charges, and access to a course is granted only against a     *)
(* confirmed charge of an amount that was quoted to that user for that    *)
(* course.  Nothing that was granted, quoted or confirmed is taken back.  *)
(***************************************************************************)
CONSTANTS Users, Courses, Amounts, Charges

VARIABLES
    quoted,         \* [user, course, amount] a payment was asked for
    confirmed,      \* [charge, amount] Paystack has collected
    access          \* <<user, course>> granted

vars == <<quoted, confirmed, access>>

Init == quoted = {} /\ confirmed = {} /\ access = {}

Quote(u, c, a) ==
    /\ quoted' = quoted \cup {[user |-> u, course |-> c, amount |-> a]}
    /\ UNCHANGED <<confirmed, access>>

Confirm(r, a) ==
    /\ \A f \in confirmed : f.charge # r
    /\ confirmed' = confirmed \cup {[charge |-> r, amount |-> a]}
    /\ UNCHANGED <<quoted, access>>

Grant(u, c) ==
    /\ \E k \in quoted, f \in confirmed :
          k.user = u /\ k.course = c /\ k.amount = f.amount
    /\ access' = access \cup {<<u, c>>}
    /\ UNCHANGED <<quoted, confirmed>>

Next ==
    \/ \E u \in Users, c \in Courses, a \in Amounts : Quote(u, c, a)
    \/ \E r \in Charges, a \in Amounts : Confirm(r, a)
    \/ \E u \in Users, c \in Courses : Grant(u, c)

Spec == Init /\ [][Next]_vars
=============================================================================
