---------------------------- MODULE Invitations ----------------------------
(***************************************************************************)
(* The invites collection: invitationService, the hourly job that marks    *)
(* expired invitations, and the TTL index that removes them.               *)
(*                                                                         *)
(* A call finds a document, decides, and saves what it modified.  No index *)
(* but TTL guards the collection and no save checks a version, so two      *)
(* calls over one document overwrite each other's status; the time stamps  *)
(* they set beside it are different fields.                                *)
(*                                                                         *)
(* A token stands for the 29 random digits with the email they were        *)
(* encrypted for; a pair that does not match finds nothing.  The look-up   *)
(* in generateInviteToken encrypts with an empty email and never finds a   *)
(* document: tokens differ by chance alone, and here always.               *)
(***************************************************************************)
EXTENDS Integers, FiniteSets

CONSTANTS
    Invites,        \* documents there is room for; a deleted one stays deleted
    Emails,
    Resources,
    Tokens,
    Calls,          \* calls of the service under way
    MaxInviteFaults \* bound on failing database calls

VARIABLES
    invite,         \* the collection
    call,           \* what each call knows
    issued,         \* tokens generated so far
    settled,        \* answers given with 200
    inviteFaults

invitations == <<invite, call, issued, settled, inviteFaults>>

NoToken == "no token"

ASSUME InvitationsAssumption ==
    /\ MaxInviteFaults \in Nat
    /\ Invites # {} /\ Emails # {} /\ Resources # {}
    /\ NoToken \notin Tokens

Answers == {"ACCEPTED", "REVOKED", "DECLINED"}
Statuses == Answers \cup {"PENDING", "EXPIRED"}

\* stamps: which of acceptedAt, revokedAt, declinedAt are set.
\* age: expiresAt is ahead, is past, or is past by the 30 days of the cleanup.
InviteDoc ==
    [status: Statuses \cup {"unused", "deleted"},
     email: Emails, resource: Resources, token: Tokens \cup {NoToken},
     age: {"valid", "past", "old"}, stamps: SUBSET Answers]

CallSteps ==
    {"idle", "existing", "token", "create",             \* new and bulk
     "find", "answer", "expire",                        \* the three answers
     "findAny", "expireFirst", "newToken", "renew",     \* resend
     "findUser", "insertUser", "userType", "role", "save",
     "activate", "lastLogin"}                           \* see InvitationAcceptance

\* status: the answer a call is to write; for a resend, the status its copy of
\* the document was stored with.  rest: the emails of a bulk not yet tried.
Call ==
    [step: CallSteps, email: Emails, resource: Resources, rest: SUBSET Emails,
     bulk: BOOLEAN, token: Tokens \cup {NoToken}, doc: Invites,
     status: Statuses, joins: BOOLEAN]

Settlement == [doc: Invites, token: Tokens, email: Emails, status: Answers]

InvitationsTypeOK ==
    /\ invite \in [Invites -> InviteDoc]
    /\ call \in [Calls -> Call]
    /\ issued \subseteq Tokens
    /\ settled \subseteq Settlement
    /\ inviteFaults \in 0..MaxInviteFaults

AnyEmail == CHOOSE e \in Emails : TRUE
AnyResource == CHOOSE r \in Resources : TRUE
AnyInvite == CHOOSE i \in Invites : TRUE

UnusedInvite == [status |-> "unused", email |-> AnyEmail, resource |-> AnyResource,
                 token |-> NoToken, age |-> "valid", stamps |-> {}]

IdleCall == [step |-> "idle", email |-> AnyEmail, resource |-> AnyResource,
             rest |-> {}, bulk |-> FALSE, token |-> NoToken, doc |-> AnyInvite,
             status |-> "PENDING", joins |-> FALSE]

InvitationsInit ==
    /\ invite = [i \in Invites |-> UnusedInvite]
    /\ call = [h \in Calls |-> IdleCall]
    /\ issued = {} /\ settled = {} /\ inviteFaults = 0

----------------------------------------------------------------------------
(* Queries and helpers *)

Stored(i) == invite[i].status \in Statuses

Works == UNCHANGED inviteFaults
Fails == inviteFaults < MaxInviteFaults /\ inviteFaults' = inviteFaults + 1

InStep(h, step) == call[h].step = step
Becomes(h, c) == call' = [call EXCEPT ![h] = c]
GoTo(h, step) == Becomes(h, [call[h] EXCEPT !.step = step])
Finish(h) == Becomes(h, IdleCall)

\* findOne by token, with or without a status
WithToken(t) == {i \in Invites : Stored(i) /\ invite[i].token = t}
PendingWithToken(t) == {i \in WithToken(t) : invite[i].status = "PENDING"}

\* The query filters by email and resource, not by status.
Existing(e, r) ==
    {i \in Invites : Stored(i) /\ invite[i].email = e /\ invite[i].resource = r}

ValidTransition(from, to) == from = "PENDING" /\ to \in Statuses \ {"PENDING"}

----------------------------------------------------------------------------
(* newInvitation and bulkInvitation *)

\* Formats are checked before the first call and never change a document.
NewInvitation(h, e, r) ==
    /\ InStep(h, "idle")
    /\ Becomes(h, [IdleCall EXCEPT !.step = "existing", !.email = e, !.resource = r])
    /\ UNCHANGED <<invite, issued, settled, inviteFaults>>

BulkInvitation(h, es, r) ==
    /\ InStep(h, "idle")
    /\ \E e \in es :
           Becomes(h, [IdleCall EXCEPT !.step = "existing", !.email = e,
                           !.resource = r, !.rest = es \ {e}, !.bulk = TRUE])
    /\ UNCHANGED <<invite, issued, settled, inviteFaults>>

\* A bulk catches what goes wrong with one email and goes on with the next;
\* a single invitation answers.
NextInvitee(h) ==
    IF call[h].rest = {} THEN Finish(h)
    ELSE \E e \in call[h].rest :
             Becomes(h, [call[h] EXCEPT !.step = "existing", !.email = e,
                             !.rest = call[h].rest \ {e}, !.token = NoToken])

CheckExisting(h) ==
    /\ InStep(h, "existing")
    /\ \/ Existing(call[h].email, call[h].resource) # {} /\ Works /\ NextInvitee(h)
       \/ Existing(call[h].email, call[h].resource) = {} /\ Works /\ GoTo(h, "token")
       \/ Fails /\ NextInvitee(h)
    /\ UNCHANGED <<invite, issued, settled>>

\* mutant: a random token may be one that is in use
AnyTokens == Tokens

\* mutant: an encryption that returned nothing is stored as the token
UncheckedTokens == Tokens \cup {NoToken}

FreshTokens == Tokens \ issued

\* The look-up of generateInviteToken; it may fail and the call with it.
GenerateToken(h) ==
    /\ InStep(h, "token")
    /\ \/ /\ Works
          /\ \E t \in FreshTokens :
                 /\ issued' = issued \cup {t}
                 /\ Becomes(h, [call[h] EXCEPT !.token = t, !.step = "create"])
       \/ Fails /\ NextInvitee(h) /\ UNCHANGED issued
    /\ UNCHANGED <<invite, settled>>

\* Nothing in the database stops a second invitation by now.
CreateInvite(h) ==
    /\ InStep(h, "create")
    /\ \/ /\ Works
          /\ \E i \in Invites :
                 /\ invite[i].status = "unused"
                 /\ invite' = [invite EXCEPT ![i] =
                        [UnusedInvite EXCEPT !.status = "PENDING",
                             !.email = call[h].email, !.resource = call[h].resource,
                             !.token = call[h].token]]
       \/ Fails /\ UNCHANGED invite
    /\ NextInvitee(h)
    /\ UNCHANGED <<issued, settled>>

----------------------------------------------------------------------------
(* validateInvite, revokeInvite, declineInvite *)

\* joins: the call comes from the accept endpoint and goes on to the account.
StartAnswer(h, t, answer) ==
    /\ InStep(h, "idle")
    /\ t \in issued
    /\ Becomes(h, [IdleCall EXCEPT !.step = "find", !.token = t, !.status = answer,
                                   !.joins = (answer = "ACCEPTED")])
    /\ UNCHANGED <<invite, issued, settled, inviteFaults>>

\* validateInvite alone looks at expiresAt, and then writes EXPIRED.
FindPending(h) ==
    /\ InStep(h, "find")
    /\ \/ /\ Works
          /\ \E i \in PendingWithToken(call[h].token) :
                 Becomes(h, [call[h] EXCEPT !.doc = i,
                     !.step = IF call[h].joins /\ invite[i].age # "valid"
                              THEN "expire" ELSE "answer"])
       \/ PendingWithToken(call[h].token) = {} /\ Works /\ Finish(h)
       \/ Fails /\ Finish(h)
    /\ UNCHANGED <<invite, issued, settled>>

\* mutant: the whole loaded document is written back
Answered(doc, answer) == [doc EXCEPT !.status = answer, !.stamps = {answer}]

\* The save writes the status and its time stamp.
Stamped(doc, answer) == [doc EXCEPT !.status = answer, !.stamps = @ \cup {answer}]

\* A save whose document is gone fails.
SaveAnswer(h) ==
    LET c == call[h] IN
    /\ InStep(h, "answer")
    /\ \/ /\ Stored(c.doc) /\ Works
          /\ invite' = [invite EXCEPT ![c.doc] = Stamped(@, c.status)]
          /\ settled' = settled \cup {[doc |-> c.doc, token |-> c.token,
                                      email |-> invite[c.doc].email, status |-> c.status]}
          /\ IF c.joins
             THEN Becomes(h, [IdleCall EXCEPT !.step = "findUser", !.joins = TRUE,
                                              !.email = invite[c.doc].email])
             ELSE Finish(h)
       \/ ~Stored(c.doc) /\ Works /\ Finish(h) /\ UNCHANGED <<invite, settled>>
       \/ Fails /\ Finish(h) /\ UNCHANGED <<invite, settled>>
    /\ UNCHANGED issued

SaveExpired(h) ==
    /\ InStep(h, "expire")
    /\ \/ /\ Stored(call[h].doc) /\ Works
          /\ invite' = [invite EXCEPT ![call[h].doc].status = "EXPIRED"]
       \/ ~Stored(call[h].doc) /\ Works /\ UNCHANGED invite
       \/ Fails /\ UNCHANGED invite
    /\ Finish(h)
    /\ UNCHANGED <<issued, settled>>

----------------------------------------------------------------------------
(* resendInvite *)

StartResend(h, t) ==
    /\ InStep(h, "idle")
    /\ t \in issued
    /\ Becomes(h, [IdleCall EXCEPT !.step = "findAny", !.token = t])
    /\ UNCHANGED <<invite, issued, settled, inviteFaults>>

FindAny(h) ==
    /\ InStep(h, "findAny")
    /\ \/ /\ Works
          /\ \E i \in WithToken(call[h].token) :
                 /\ invite[i].status \notin {"ACCEPTED", "REVOKED"}
                 /\ Becomes(h, [call[h] EXCEPT !.doc = i, !.status = invite[i].status,
                        !.step = IF /\ invite[i].age # "valid"
                                    /\ ValidTransition(invite[i].status, "EXPIRED")
                                 THEN "expireFirst" ELSE "newToken"])
       \/ /\ \A i \in WithToken(call[h].token) :
                 invite[i].status \in {"ACCEPTED", "REVOKED"}
          /\ Works /\ Finish(h)
       \/ Fails /\ Finish(h)
    /\ UNCHANGED <<invite, issued, settled>>

SaveExpiredFirst(h) ==
    /\ InStep(h, "expireFirst")
    /\ \/ /\ Stored(call[h].doc) /\ Works
          /\ invite' = [invite EXCEPT ![call[h].doc].status = "EXPIRED"]
          /\ Becomes(h, [call[h] EXCEPT !.step = "newToken", !.status = "EXPIRED"])
       \/ ~Stored(call[h].doc) /\ Works /\ UNCHANGED invite /\ Finish(h)
       \/ Fails /\ UNCHANGED invite /\ Finish(h)
    /\ UNCHANGED <<issued, settled>>

GenerateNewToken(h) ==
    /\ InStep(h, "newToken")
    /\ \/ /\ Works
          /\ \E t \in FreshTokens :
                 /\ issued' = issued \cup {t}
                 /\ Becomes(h, [call[h] EXCEPT !.token = t, !.step = "renew"])
       \/ Fails /\ Finish(h) /\ UNCHANGED issued
    /\ UNCHANGED <<invite, settled>>

\* mutant: the token stays, the status is written
RenewedKeepingToken(doc, c) == [doc EXCEPT !.age = "valid", !.status = "PENDING"]

\* inviteStatus = PENDING is a modification only if the copy had another one.
Renewed(doc, c) ==
    [doc EXCEPT !.token = c.token, !.age = "valid",
                !.status = IF c.status = "PENDING" THEN @ ELSE "PENDING"]

SaveRenewed(h) ==
    /\ InStep(h, "renew")
    /\ \/ /\ Stored(call[h].doc) /\ Works
          /\ invite' = [invite EXCEPT ![call[h].doc] = Renewed(@, call[h])]
       \/ ~Stored(call[h].doc) /\ Works /\ UNCHANGED invite
       \/ Fails /\ UNCHANGED invite
    /\ Finish(h)
    /\ UNCHANGED <<issued, settled>>

----------------------------------------------------------------------------
(* Time, the job, the TTL index and the cleanup *)

PassTime(i) ==
    /\ Stored(i)
    /\ \/ invite[i].age = "valid" /\ invite' = [invite EXCEPT ![i].age = "past"]
       \/ invite[i].age = "past" /\ invite' = [invite EXCEPT ![i].age = "old"]
    /\ UNCHANGED <<call, issued, settled, inviteFaults>>

\* One updateMany; a run that fails changes nothing and is repeated.
MarkExpired ==
    LET overdue == {i \in Invites : /\ Stored(i) /\ invite[i].age # "valid"
                                    /\ invite[i].status = "PENDING"}
    IN  /\ overdue # {}
        /\ invite' = [i \in Invites |->
               IF i \in overdue THEN [invite[i] EXCEPT !.status = "EXPIRED"]
                                ELSE invite[i]]
        /\ UNCHANGED <<call, issued, settled, inviteFaults>>

\* The index on expiresAt removes documents of every status.
ExpireByIndex(i) ==
    /\ Stored(i) /\ invite[i].age # "valid"
    /\ invite' = [invite EXCEPT ![i] = [UnusedInvite EXCEPT !.status = "deleted"]]
    /\ UNCHANGED <<call, issued, settled, inviteFaults>>

CleanupExpired ==
    LET old == {i \in Invites : invite[i].status = "EXPIRED" /\ invite[i].age = "old"}
    IN  /\ old # {}
        /\ invite' = [i \in Invites |->
               IF i \in old THEN [UnusedInvite EXCEPT !.status = "deleted"]
                            ELSE invite[i]]
        /\ UNCHANGED <<call, issued, settled, inviteFaults>>

----------------------------------------------------------------------------

InvitationStep(h) ==
    \/ CheckExisting(h) \/ GenerateToken(h) \/ CreateInvite(h)
    \/ FindPending(h) \/ SaveAnswer(h) \/ SaveExpired(h)
    \/ FindAny(h) \/ SaveExpiredFirst(h) \/ GenerateNewToken(h) \/ SaveRenewed(h)

InvitationNext ==
    \/ \E h \in Calls, e \in Emails, r \in Resources : NewInvitation(h, e, r)
    \/ \E h \in Calls, es \in SUBSET Emails, r \in Resources : BulkInvitation(h, es, r)
    \/ \E h \in Calls, t \in Tokens, a \in Answers : StartAnswer(h, t, a)
    \/ \E h \in Calls, t \in Tokens : StartResend(h, t)
    \/ \E h \in Calls : InvitationStep(h)
    \/ \E i \in Invites : PassTime(i) \/ ExpireByIndex(i)
    \/ MarkExpired \/ CleanupExpired
=============================================================================
