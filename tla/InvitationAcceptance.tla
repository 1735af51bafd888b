------------------------ MODULE InvitationAcceptance ------------------------
(***************************************************************************)
(* The accept endpoints: validateInvite settles the invitation first, and  *)
(* the account is then found or built with one save after another.  The    *)
(* talent endpoint builds it through userService.createUser, the admin     *)
(* endpoint by hand, with the same saves in the same order.                *)
(*                                                                         *)
(* The document a call built is a mongoose document: each save writes all  *)
(* that is still unsaved.  The one the look-up returns is a plain object   *)
(* with no save, so the call that found an account answers 500.            *)
(***************************************************************************)
EXTENDS Invitations

CONSTANTS MaxCalls      \* bound on the calls that begin
ASSUME AcceptanceAssumption == MaxCalls \in Nat

VARIABLES
    account,        \* the users collection, by email
    attached,       \* calls whose document holds the role already
    admitted,       \* emails answered 201
    begun

vars == <<invite, call, issued, settled, inviteFaults, account, attached, admitted, begun>>
accountVars == <<account, attached, admitted>>

\* typed: userType is the invited one.  sealed: the password is encrypted.
UserDoc == [exists: BOOLEAN, typed: BOOLEAN, sealed: BOOLEAN, role: BOOLEAN,
            active: BOOLEAN, seen: BOOLEAN]
NoUser == [exists |-> FALSE, typed |-> FALSE, sealed |-> FALSE, role |-> FALSE,
           active |-> FALSE, seen |-> FALSE]

\* The collection, the calls, the tokens, the answers and the accounts are
\* made of the values the schemas and the code allow.
TypeOK ==
    /\ InvitationsTypeOK
    /\ account \in [Emails -> UserDoc]
    /\ attached \subseteq Calls
    /\ admitted \subseteq Emails
    /\ begun \in 0..MaxCalls

Init ==
    /\ InvitationsInit
    /\ account = [e \in Emails |-> NoUser]
    /\ attached = {} /\ admitted = {} /\ begun = 0

Begins == begun < MaxCalls /\ begun' = begun + 1

----------------------------------------------------------------------------
(* The steps after the invitation was accepted *)

\* An error of the look-up reads as "no such user".
FindUser(h) ==
    LET e == call[h].email IN
    /\ InStep(h, "findUser")
    /\ \/ account[e].exists /\ Works /\ Finish(h)
       \/ ~account[e].exists /\ Works /\ GoTo(h, "insertUser")
       \/ Fails /\ GoTo(h, "insertUser")
    /\ UNCHANGED <<invite, issued, settled, accountVars, begun>>

\* The email is unique: the second insert is refused and answered 500.
InsertUser(h) ==
    LET e == call[h].email IN
    /\ InStep(h, "insertUser")
    /\ \/ /\ ~account[e].exists /\ Works
          /\ account' = [account EXCEPT ![e] = [NoUser EXCEPT !.exists = TRUE]]
          /\ GoTo(h, "userType")
       \/ account[e].exists /\ Works /\ Finish(h) /\ UNCHANGED account
       \/ Fails /\ Finish(h) /\ UNCHANGED account
    /\ UNCHANGED <<invite, issued, settled, attached, admitted, begun>>

SaveUserType(h) ==
    /\ InStep(h, "userType")
    /\ \/ /\ Works
          /\ account' = [account EXCEPT ![call[h].email].typed = TRUE]
          /\ GoTo(h, "role")
       \/ Fails /\ Finish(h) /\ UNCHANGED account
    /\ UNCHANGED <<invite, issued, settled, attached, admitted, begun>>

\* attachRole answers its own errors and the caller goes on.  The password was
\* encrypted in the document before it, so the save writes both.  The first
\* failure is that of the role's look-up, the second that of the save.
AttachRole(h) ==
    /\ InStep(h, "role")
    /\ \/ /\ Works
          /\ account' = [account EXCEPT ![call[h].email] =
                            [@ EXCEPT !.sealed = TRUE, !.role = TRUE]]
          /\ attached' = attached \cup {h}
       \/ Fails /\ UNCHANGED <<account, attached>>
       \/ Fails /\ attached' = attached \cup {h} /\ UNCHANGED account
    /\ GoTo(h, "save")
    /\ UNCHANGED <<invite, issued, settled, admitted, begun>>

\* user.save(): what is unsaved of the password and the role
SaveUser(h) ==
    LET e == call[h].email IN
    /\ InStep(h, "save")
    /\ \/ /\ Works
          /\ account' = [account EXCEPT ![e] =
                 [account[e] EXCEPT !.sealed = TRUE,
                                    !.role = account[e].role \/ h \in attached]]
          /\ GoTo(h, "activate")
       \/ Fails /\ Finish(h) /\ UNCHANGED account
    /\ attached' = attached \ {h}
    /\ UNCHANGED <<invite, issued, settled, admitted, begun>>

\* mutant: a failing save goes unnoticed
ActivateQuietly(h) ==
    /\ InStep(h, "activate")
    /\ \/ Works /\ account' = [account EXCEPT ![call[h].email].active = TRUE]
       \/ Fails /\ UNCHANGED account
    /\ GoTo(h, "lastLogin")
    /\ UNCHANGED <<invite, issued, settled, attached, admitted, begun>>

ActivateAccount(h) ==
    /\ InStep(h, "activate")
    /\ \/ /\ Works
          /\ account' = [account EXCEPT ![call[h].email].active = TRUE]
          /\ GoTo(h, "lastLogin")
       \/ Fails /\ Finish(h) /\ UNCHANGED account
    /\ UNCHANGED <<invite, issued, settled, attached, admitted, begun>>

\* The last save before 201.
UpdateLastLogin(h) ==
    LET e == call[h].email IN
    /\ InStep(h, "lastLogin")
    /\ \/ /\ Works
          /\ account' = [account EXCEPT ![e].seen = TRUE]
          /\ admitted' = admitted \cup {e}
       \/ Fails /\ UNCHANGED <<account, admitted>>
    /\ Finish(h)
    /\ UNCHANGED <<invite, issued, settled, attached, begun>>

\* The process stops: what the call held is gone, what it wrote stays.
CallLost(h) ==
    /\ ~InStep(h, "idle")
    /\ Fails
    /\ Finish(h)
    /\ attached' = attached \ {h}
    /\ UNCHANGED <<invite, issued, settled, account, admitted, begun>>

----------------------------------------------------------------------------

AcceptanceStep(h) ==
    \/ FindUser(h) \/ InsertUser(h) \/ SaveUserType(h) \/ AttachRole(h) \/ SaveUser(h)
    \/ ActivateAccount(h) \/ UpdateLastLogin(h)

Starts(h) ==
    \/ \E e \in Emails, r \in Resources : NewInvitation(h, e, r)
    \/ \E es \in SUBSET Emails, r \in Resources : BulkInvitation(h, es, r)
    \/ \E t \in Tokens, a \in Answers : StartAnswer(h, t, a)
    \/ \E t \in Tokens : StartResend(h, t)

Background ==
    \/ \E i \in Invites : PassTime(i) \/ ExpireByIndex(i)
    \/ MarkExpired \/ CleanupExpired

Next ==
    \/ \E h \in Calls :
          \/ Starts(h) /\ Begins /\ UNCHANGED accountVars
          \/ InvitationStep(h) /\ UNCHANGED <<accountVars, begun>>
          \/ AcceptanceStep(h)
          \/ CallLost(h)
    \/ Background /\ UNCHANGED <<accountVars, begun>>

Spec == Init /\ [][Next]_vars

----------------------------------------------------------------------------
(* What inviting is for *)

Spent == {s.token : s \in settled}

\* Whatever calls, resends and jobs did in between, no look-up finds a pending
\* invitation by a token that was answered 200 before (validateInvite,
\* revokeInvite and declineInvite over a document that a resend loaded).
UsedTokenIsDead == \A t \in Spent : PendingWithToken(t) = {}

\* Answers race and the status is the last one's, but the time stamp of each
\* answer given (acceptedAt, revokedAt, declinedAt) stays on the document.
AnsweredLeavesMark ==
    \A s \in settled : Stored(s.doc) => s.status \in invite[s.doc].stamps

\* Who was told 201 by the accept endpoint has an account that is active, has
\* the invited type and an encrypted password, whatever failed on the way.
AdmittedIsComplete ==
    \A e \in admitted : /\ account[e].exists /\ account[e].typed
                        /\ account[e].sealed /\ account[e].active

\* The ledger the documents and the accounts amount to.
Open == {t \in Tokens : PendingWithToken(t) # {}}
Accepted == {e \in Emails : \E s \in settled : s.status = "ACCEPTED" /\ s.email = e}
Opened == {e \in Emails : account[e].exists}

Ledger == INSTANCE InvitationLedger WITH
    open <- Open, spent <- Spent, accepted <- Accepted, opened <- Opened

\* Saves, jobs and accounts amount to the promises of InvitationLedger: no
\* spent token is offered again, no account without an accepted invitation.
KeepsLedger == Ledger!Spec
=============================================================================
