-------------------------- MODULE InvitationLedger --------------------------
(***************************************************************************)
(* What inviting promises, without documents, calls or failures: tokens    *)
(* are handed out once, a token that was answered is spent for good, and   *)
(* an account is opened, and later admitted, only for an email whose       *)
(* invitation was accepted.                                                *)
(***************************************************************************)
CONSTANTS Tokens, Emails

VARIABLES
    open,           \* tokens an invitation waits for
    spent,          \* tokens with an answer
    accepted,       \* emails with an accepted invitation
    opened,         \* emails with an account
    admitted        \* emails told 201

vars == <<open, spent, accepted, opened, admitted>>

Init == open = {} /\ spent = {} /\ accepted = {} /\ opened = {} /\ admitted = {}

\* A spent token is never open again.
Offer(t) ==
    /\ t \notin spent
    /\ open' = open \cup {t}
    /\ UNCHANGED <<spent, accepted, opened, admitted>>

\* A resend closes one token and opens another.
Exchange(t) ==
    /\ t \notin spent
    /\ \E gone \in SUBSET open : open' = (open \ gone) \cup {t}
    /\ UNCHANGED <<spent, accepted, opened, admitted>>

Withdraw ==
    /\ open' \subseteq open
    /\ UNCHANGED <<spent, accepted, opened, admitted>>

\* The answer to one token may close the one that has replaced it.
Answer(t) ==
    /\ open' \subseteq open \ {t}
    /\ spent' = spent \cup {t}
    /\ \E es \in SUBSET Emails : accepted' = accepted \cup es
    /\ UNCHANGED <<opened, admitted>>

OpenAccount(e) ==
    /\ e \in accepted
    /\ opened' = opened \cup {e}
    /\ UNCHANGED <<open, spent, accepted, admitted>>

Admit(e) ==
    /\ e \in opened
    /\ admitted' = admitted \cup {e}
    /\ UNCHANGED <<open, spent, accepted, opened>>

Next ==
    \/ \E t \in Tokens : Offer(t) \/ Exchange(t) \/ Answer(t)
    \/ Withdraw
    \/ \E e \in Emails : OpenAccount(e) \/ Admit(e)

Spec == Init /\ [][Next]_vars
=============================================================================
