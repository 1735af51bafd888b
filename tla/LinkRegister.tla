---------------------------- MODULE LinkRegister ----------------------------
(***************************************************************************)
(* What shareable links promise: a visitor is let in through a link that   *)
(* is open at that moment, and a link that was withdrawn never opens       *)
(* again.  Until then a link may close and open as often as its owner      *)
(* moves its expiry or switches it.                                        *)
(***************************************************************************)
CONSTANTS Links, Visitors

VARIABLES
    open,           \* links that let visitors in
    withdrawn,      \* links withdrawn for good
    visiting        \* for each visitor, the link it was let in by, if any

register == <<open, withdrawn, visiting>>

Init ==
    /\ open = {} /\ withdrawn = {}
    /\ visiting = [v \in Visitors |-> {}]

Open(l) ==
    /\ l \notin withdrawn
    /\ open' = open \cup {l}
    /\ UNCHANGED <<withdrawn, visiting>>

Close(l) ==
    /\ open' = open \ {l}
    /\ UNCHANGED <<withdrawn, visiting>>

Withdraw(l) ==
    /\ open' = open \ {l}
    /\ withdrawn' = withdrawn \cup {l}
    /\ UNCHANGED visiting

Admit(v, l) ==
    /\ l \in open
    /\ visiting' = [visiting EXCEPT ![v] = {l}]
    /\ UNCHANGED <<open, withdrawn>>

Leave(v) ==
    /\ visiting' = [visiting EXCEPT ![v] = {}]
    /\ UNCHANGED <<open, withdrawn>>

Next ==
    \/ \E l \in Links : Open(l) \/ Close(l) \/ Withdraw(l)
    \/ \E v \in Visitors : Leave(v) \/ \E l \in Links : Admit(v, l)

Spec == Init /\ [][Next]_register
=============================================================================
