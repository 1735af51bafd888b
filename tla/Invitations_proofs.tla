-------------------------- MODULE Invitations_proofs --------------------------
(***************************************************************************)
(* UsedTokenIsDead, AnsweredLeavesMark and AdmittedIsComplete hold for any *)
(* documents, emails, tokens, calls and bounds.  What makes them           *)
(* inductive: a token that a call has generated and not stored yet is on   *)
(* no document and in no answer; two documents never share a token; the    *)
(* token of a call about to answer is on its own document or on none; and  *)
(* a call past the insert has stored what its step says.                   *)
(***************************************************************************)
EXTENDS InvitationAcceptance, TLAPS

\* A new token waits in a call for its save.
Holds(h) == call[h].step \in {"create", "renew"}

HeldIsNew(h) == Holds(h) =>
    /\ call[h].token \in issued
    /\ call[h].token \notin Spent
    /\ \A i \in Invites : Stored(i) => invite[i].token # call[h].token
    /\ \A k \in Calls \ {h} : Holds(k) => call[k].token # call[h].token

AsksToAnswer(h) == call[h].step \in {"find", "answer"} =>
    /\ call[h].status \in Answers /\ call[h].token \in issued
    /\ call[h].joins => call[h].status = "ACCEPTED"

AnswersItsOwn(h) == InStep(h, "answer") =>
    /\ \A i \in Invites \ {call[h].doc} : Stored(i) => invite[i].token # call[h].token
    /\ \A k \in Calls : Holds(k) => call[k].token # call[h].token

StoredIsIssued == \A i \in Invites : Stored(i) => invite[i].token \in issued

TokensDiffer == \A i \in Invites : \A j \in Invites \ {i} :
    Stored(i) /\ Stored(j) => invite[i].token # invite[j].token

SettledWasUsed == \A s \in settled : invite[s.doc].status # "unused"

TokenInv ==
    /\ \A h \in Calls : HeldIsNew(h) /\ AsksToAnswer(h) /\ AnswersItsOwn(h)
    /\ StoredIsIssued /\ TokensDiffer
    /\ Spent \subseteq issued
    /\ UsedTokenIsDead

MarkInv == SettledWasUsed /\ AnsweredLeavesMark

\* What a call has stored of the account it builds.
AccountMatches(h) ==
    LET a == account[call[h].email] IN
    /\ call[h].step \in {"findUser", "insertUser"} => call[h].email \in Accepted
    /\ call[h].step \in {"userType", "role", "save", "activate", "lastLogin"} => a.exists
    /\ call[h].step \in {"role", "save", "activate", "lastLogin"} => a.typed
    /\ call[h].step \in {"activate", "lastLogin"} => a.sealed
    /\ InStep(h, "lastLogin") => a.active

AccountInv == AdmittedIsComplete /\ \A h \in Calls : AccountMatches(h)

IInv == TypeOK /\ TokenInv /\ MarkInv /\ AccountInv

----------------------------------------------------------------------------
(* Types *)

LEMMA Defaults ==
    /\ IdleCall \in Call /\ UnusedInvite \in InviteDoc /\ NoUser \in UserDoc
    /\ AnyEmail \in Emails /\ AnyResource \in Resources /\ AnyInvite \in Invites
<1>1. AnyEmail \in Emails /\ AnyResource \in Resources /\ AnyInvite \in Invites
  BY InvitationsAssumption DEF AnyEmail, AnyResource, AnyInvite
<1> QED
  BY <1>1 DEF IdleCall, Call, CallSteps, UnusedInvite, InviteDoc, NoUser, UserDoc,
              Statuses, Answers

LEMMA InitType == Init => TypeOK
BY Defaults, InvitationsAssumption, AcceptanceAssumption
   DEF Init, InvitationsInit, TypeOK, InvitationsTypeOK

\* The records the steps leave in a call.
LEMMA CallRecords ==
    ASSUME NEW c \in Call
    PROVE  /\ \A step \in CallSteps : [c EXCEPT !.step = step] \in Call
           /\ \A e \in Emails, es \in SUBSET Emails :
                 [c EXCEPT !.step = "existing", !.email = e, !.rest = es,
                           !.token = NoToken] \in Call
           /\ \A e \in Emails, r \in Resources :
                 [c EXCEPT !.step = "existing", !.email = e, !.resource = r] \in Call
           /\ \A e \in Emails, r \in Resources, es \in SUBSET Emails :
                 [c EXCEPT !.step = "existing", !.email = e, !.resource = r,
                           !.rest = es, !.bulk = TRUE] \in Call
           /\ \A t \in Tokens, step \in CallSteps :
                 [c EXCEPT !.token = t, !.step = step] \in Call
           /\ \A t \in Tokens, a \in Answers, j \in BOOLEAN :
                 [c EXCEPT !.step = "find", !.token = t, !.status = a, !.joins = j] \in Call
           /\ \A i \in Invites, step \in CallSteps :
                 [c EXCEPT !.doc = i, !.step = step] \in Call
           /\ \A i \in Invites, a \in Statuses, step \in CallSteps :
                 [c EXCEPT !.doc = i, !.status = a, !.step = step] \in Call
           /\ \A a \in Statuses, step \in CallSteps :
                 [c EXCEPT !.step = step, !.status = a] \in Call
           /\ \A e \in Emails :
                 [c EXCEPT !.step = "findUser", !.joins = TRUE, !.email = e] \in Call
<1>1. \A step \in CallSteps : [c EXCEPT !.step = step] \in Call
  BY DEF Call
<1>2. \A e \in Emails, es \in SUBSET Emails :
          [c EXCEPT !.step = "existing", !.email = e, !.rest = es, !.token = NoToken] \in Call
  BY DEF Call, CallSteps
<1>3. \A e \in Emails, r \in Resources :
          [c EXCEPT !.step = "existing", !.email = e, !.resource = r] \in Call
  BY DEF Call, CallSteps
<1>4. \A e \in Emails, r \in Resources, es \in SUBSET Emails :
          [c EXCEPT !.step = "existing", !.email = e, !.resource = r,
                    !.rest = es, !.bulk = TRUE] \in Call
  BY DEF Call, CallSteps
<1>5. \A t \in Tokens, step \in CallSteps : [c EXCEPT !.token = t, !.step = step] \in Call
  BY DEF Call
<1>6. \A t \in Tokens, a \in Answers, j \in BOOLEAN :
          [c EXCEPT !.step = "find", !.token = t, !.status = a, !.joins = j] \in Call
  BY DEF Call, CallSteps, Statuses
<1>7. \A i \in Invites, step \in CallSteps : [c EXCEPT !.doc = i, !.step = step] \in Call
  BY DEF Call
<1>8. \A i \in Invites, a \in Statuses, step \in CallSteps :
          [c EXCEPT !.doc = i, !.status = a, !.step = step] \in Call
  BY DEF Call
<1>9. \A a \in Statuses, step \in CallSteps : [c EXCEPT !.step = step, !.status = a] \in Call
  BY DEF Call
<1>10. \A e \in Emails : [c EXCEPT !.step = "findUser", !.joins = TRUE, !.email = e] \in Call
  BY DEF Call, CallSteps
<1> QED BY <1>1, <1>2, <1>3, <1>4, <1>5, <1>6, <1>7, <1>8, <1>9, <1>10

LEMMA BecomesType ==
    ASSUME TypeOK, NEW h \in Calls, NEW c \in Call, Becomes(h, c)
    PROVE  /\ call' \in [Calls -> Call] /\ call'[h] = c
           /\ \A k \in Calls \ {h} : call'[k] = call[k]
BY DEF TypeOK, InvitationsTypeOK, Becomes

LEMMA CallUpdates ==
    ASSUME TypeOK, NEW h \in Calls
    PROVE  /\ Finish(h) => call' \in [Calls -> Call]
           /\ \A step \in CallSteps : GoTo(h, step) => call' \in [Calls -> Call]
           /\ NextInvitee(h) => call' \in [Calls -> Call]
<1>0. call[h] \in Call /\ call[h].rest \in SUBSET Emails
  BY DEF TypeOK, InvitationsTypeOK, Call
<1>1. Finish(h) => call' \in [Calls -> Call]
  BY Defaults, BecomesType DEF Finish
<1>2. ASSUME NEW step \in CallSteps, GoTo(h, step) PROVE call' \in [Calls -> Call]
  BY <1>0, <1>2, CallRecords, BecomesType DEF GoTo
<1>3. ASSUME NextInvitee(h), call[h].rest # {} PROVE call' \in [Calls -> Call]
  <2>1. PICK e \in call[h].rest :
           Becomes(h, [call[h] EXCEPT !.step = "existing", !.email = e,
                           !.rest = call[h].rest \ {e}, !.token = NoToken])
    BY <1>3 DEF NextInvitee
  <2>2. e \in Emails /\ call[h].rest \ {e} \in SUBSET Emails
    BY <1>0
  <2> QED BY <1>0, <2>1, <2>2, CallRecords, BecomesType
<1> QED BY <1>1, <1>2, <1>3 DEF NextInvitee

LEMMA FaultType ==
    ASSUME TypeOK, Works \/ Fails
    PROVE  inviteFaults' \in 0..MaxInviteFaults
BY InvitationsAssumption DEF TypeOK, InvitationsTypeOK, Works, Fails

\* The calls that begin.
LEMMA StartCall ==
    ASSUME TypeOK, NEW h \in Calls, Starts(h)
    PROVE  \E c \in Call : Becomes(h, c) /\ c.step \in {"existing", "find", "findAny"}
<1>1. CASE \E e \in Emails, r \in Resources : NewInvitation(h, e, r)
  <2>1. PICK e \in Emails, r \in Resources : NewInvitation(h, e, r)
    BY <1>1
  <2> DEFINE c == [IdleCall EXCEPT !.step = "existing", !.email = e, !.resource = r]
  <2>2. c \in Call /\ c.step = "existing"
    BY Defaults, CallRecords DEF IdleCall
  <2>3. Becomes(h, c)
    BY <2>1 DEF NewInvitation
  <2> QED BY <2>2, <2>3
<1>2. CASE \E es \in SUBSET Emails, r \in Resources : BulkInvitation(h, es, r)
  <2>1. PICK es \in SUBSET Emails, r \in Resources : BulkInvitation(h, es, r)
    BY <1>2
  <2>2. PICK e \in es : Becomes(h, [IdleCall EXCEPT !.step = "existing", !.email = e,
                           !.resource = r, !.rest = es \ {e}, !.bulk = TRUE])
    BY <2>1 DEF BulkInvitation
  <2> DEFINE c == [IdleCall EXCEPT !.step = "existing", !.email = e,
                           !.resource = r, !.rest = es \ {e}, !.bulk = TRUE]
  <2>3. c \in Call /\ c.step = "existing"
    <3>1. e \in Emails /\ es \ {e} \in SUBSET Emails
      OBVIOUS
    <3> QED BY <3>1, Defaults, CallRecords DEF IdleCall
  <2> QED BY <2>2, <2>3
<1>3. CASE \E t \in Tokens, a \in Answers : StartAnswer(h, t, a)
  <2>1. PICK t \in Tokens, a \in Answers : StartAnswer(h, t, a)
    BY <1>3
  <2> DEFINE c == [IdleCall EXCEPT !.step = "find", !.token = t, !.status = a,
                                   !.joins = (a = "ACCEPTED")]
  <2>2. c \in Call /\ c.step = "find"
    BY Defaults, CallRecords DEF IdleCall
  <2>3. Becomes(h, c)
    BY <2>1 DEF StartAnswer
  <2> QED BY <2>2, <2>3
<1>4. CASE \E t \in Tokens : StartResend(h, t)
  <2>1. PICK t \in Tokens : StartResend(h, t)
    BY <1>4
  <2> DEFINE c == [IdleCall EXCEPT !.step = "findAny", !.token = t]
  <2>2. c \in Call /\ c.step = "findAny"
    BY Defaults DEF IdleCall, Call, CallSteps
  <2>3. Becomes(h, c)
    BY <2>1 DEF StartResend
  <2> QED BY <2>2, <2>3
<1> QED BY <1>1, <1>2, <1>3, <1>4 DEF Starts

LEMMA StartType ==
    ASSUME TypeOK, NEW h \in Calls, Starts(h), Begins, UNCHANGED accountVars
    PROVE  TypeOK'
<1>1. begun' \in 0..MaxCalls
  BY AcceptanceAssumption DEF TypeOK, Begins
<1>2. UNCHANGED <<invite, issued, settled, inviteFaults>>
  BY DEF Starts, NewInvitation, BulkInvitation, StartAnswer, StartResend
<1>3. call' \in [Calls -> Call]
  BY StartCall, BecomesType
<1> QED BY <1>1, <1>2, <1>3 DEF TypeOK, InvitationsTypeOK, accountVars

\* What the calls write to an invitation is an invitation.
LEMMA DocUpdates ==
    ASSUME NEW d \in InviteDoc
    PROVE  /\ \A a \in Answers : Stamped(d, a) \in InviteDoc
           /\ [d EXCEPT !.status = "EXPIRED"] \in InviteDoc
           /\ \A e \in Emails, r \in Resources, t \in Tokens \cup {NoToken} :
                 [d EXCEPT !.status = "PENDING", !.email = e, !.resource = r,
                           !.token = t] \in InviteDoc
           /\ \A c \in Call : Renewed(d, c) \in InviteDoc
           /\ \A a \in {"past", "old"} : [d EXCEPT !.age = a] \in InviteDoc
<1>1. ASSUME NEW c \in Call PROVE Renewed(d, c) \in InviteDoc
  <2> DEFINE s == IF c.status = "PENDING" THEN d.status ELSE "PENDING"
  <2>1. s \in Statuses \cup {"unused", "deleted"}
    BY DEF InviteDoc, Statuses
  <2>2. c.token \in Tokens \cup {NoToken}
    BY DEF Call
  <2>3. Renewed(d, c) = [d EXCEPT !.token = c.token, !.age = "valid", !.status = s]
    BY DEF Renewed
  <2> HIDE DEF s
  <2> QED BY <2>1, <2>2, <2>3 DEF InviteDoc
<1>2. ASSUME NEW a \in Answers PROVE Stamped(d, a) \in InviteDoc
  <2>1. d.stamps \cup {a} \in SUBSET Answers
    BY DEF InviteDoc
  <2> QED BY <2>1 DEF Stamped, InviteDoc, Statuses
<1>3. ASSUME NEW e \in Emails, NEW r \in Resources, NEW t \in Tokens \cup {NoToken}
      PROVE [d EXCEPT !.status = "PENDING", !.email = e, !.resource = r, !.token = t]
                \in InviteDoc
  BY DEF InviteDoc, Statuses
<1>4. [d EXCEPT !.status = "EXPIRED"] \in InviteDoc
  BY DEF InviteDoc, Statuses
<1>5. \A a \in {"past", "old"} : [d EXCEPT !.age = a] \in InviteDoc
  BY DEF InviteDoc
<1> QED BY <1>1, <1>2, <1>3, <1>4, <1>5

\* Each step of a call leaves one record in that call.
LEMMA StepCall ==
    ASSUME TypeOK, NEW h \in Calls, InvitationStep(h)
    PROVE  call' \in [Calls -> Call] /\ \E c : Becomes(h, c)
<1>c. call[h] \in Call /\ call[h].rest \in SUBSET Emails
  BY DEF TypeOK, InvitationsTypeOK, Call
<1>n. ASSUME NextInvitee(h) PROVE \E c : Becomes(h, c)
  BY <1>n DEF NextInvitee, Finish
<1>g. ASSUME NEW step, GoTo(h, step) PROVE \E c : Becomes(h, c)
  BY <1>g DEF GoTo
<1>f. ASSUME Finish(h) PROVE \E c : Becomes(h, c)
  BY <1>f DEF Finish
<1>1. CASE CheckExisting(h)
  BY <1>1, <1>n, <1>g, CallUpdates DEF CheckExisting, CallSteps
<1>2. CASE GenerateToken(h)
  <2>1. CASE NextInvitee(h)
    BY <2>1, <1>n, CallUpdates
  <2>2. CASE \E t \in FreshTokens : Becomes(h, [call[h] EXCEPT !.token = t, !.step = "create"])
    <3>1. PICK t \in Tokens : Becomes(h, [call[h] EXCEPT !.token = t, !.step = "create"])
      BY <2>2 DEF FreshTokens
    <3>2. [call[h] EXCEPT !.token = t, !.step = "create"] \in Call
      BY <1>c, CallRecords DEF CallSteps
    <3> QED BY <3>1, <3>2, BecomesType
  <2> QED BY <1>2, <2>1, <2>2 DEF GenerateToken
<1>3. CASE CreateInvite(h)
  BY <1>3, <1>n, CallUpdates DEF CreateInvite
<1>4. CASE FindPending(h)
  <2>1. CASE Finish(h)
    BY <2>1, <1>f, CallUpdates
  <2>2. CASE ~Finish(h)
    <3> DEFINE s(i) == IF call[h].joins /\ invite[i].age # "valid" THEN "expire" ELSE "answer"
    <3>1. PICK i \in Invites : Becomes(h, [call[h] EXCEPT !.doc = i, !.step = s(i)])
      BY <1>4, <2>2 DEF FindPending, PendingWithToken, WithToken
    <3>2. s(i) \in CallSteps
      BY DEF CallSteps
    <3> HIDE DEF s
    <3>3. [call[h] EXCEPT !.doc = i, !.step = s(i)] \in Call
      BY <1>c, <3>2, CallRecords
    <3> QED BY <3>1, <3>3, BecomesType
  <2> QED BY <2>1, <2>2
<1>5. CASE SaveAnswer(h)
  <2>1. CASE Finish(h)
    BY <2>1, <1>f, CallUpdates
  <2>2. CASE ~Finish(h)
    <3> DEFINE c == [IdleCall EXCEPT !.step = "findUser", !.joins = TRUE,
                                     !.email = invite[call[h].doc].email]
    <3>1. Becomes(h, c)
      BY <1>5, <2>2 DEF SaveAnswer
    <3>2. invite[call[h].doc].email \in Emails
      BY <1>c DEF TypeOK, InvitationsTypeOK, Call, InviteDoc
    <3>3. c \in Call
      BY <3>2, Defaults, CallRecords
    <3> QED BY <3>1, <3>3, BecomesType
  <2> QED BY <2>1, <2>2
<1>6. CASE SaveExpired(h)
  BY <1>6, <1>f, CallUpdates DEF SaveExpired
<1>7. CASE FindAny(h)
  <2>1. CASE Finish(h)
    BY <2>1, <1>f, CallUpdates
  <2>2. CASE ~Finish(h)
    <3> DEFINE s(i) == IF /\ invite[i].age # "valid"
                          /\ ValidTransition(invite[i].status, "EXPIRED")
                       THEN "expireFirst" ELSE "newToken"
    <3>1. PICK i \in Invites : /\ Stored(i)
                               /\ Becomes(h, [call[h] EXCEPT !.doc = i,
                                      !.status = invite[i].status, !.step = s(i)])
      BY <1>7, <2>2 DEF FindAny, WithToken
    <3>2. s(i) \in CallSteps
      BY DEF CallSteps
    <3> HIDE DEF s
    <3>3. [call[h] EXCEPT !.doc = i, !.status = invite[i].status, !.step = s(i)] \in Call
      BY <1>c, <3>1, <3>2, CallRecords DEF Stored
    <3> QED BY <3>1, <3>3, BecomesType
  <2> QED BY <2>1, <2>2
<1>8. CASE SaveExpiredFirst(h)
  <2>1. CASE Finish(h)
    BY <2>1, <1>f, CallUpdates
  <2>2. CASE ~Finish(h)
    <3>1. Becomes(h, [call[h] EXCEPT !.step = "newToken", !.status = "EXPIRED"])
      BY <1>8, <2>2 DEF SaveExpiredFirst
    <3>2. [call[h] EXCEPT !.step = "newToken", !.status = "EXPIRED"] \in Call
      BY <1>c, CallRecords DEF CallSteps, Statuses
    <3> QED BY <3>1, <3>2, BecomesType
  <2> QED BY <2>1, <2>2
<1>9. CASE GenerateNewToken(h)
  <2>1. CASE Finish(h)
    BY <2>1, <1>f, CallUpdates
  <2>2. CASE ~Finish(h)
    <3>1. PICK t \in Tokens : Becomes(h, [call[h] EXCEPT !.token = t, !.step = "renew"])
      BY <1>9, <2>2 DEF GenerateNewToken, FreshTokens
    <3>2. [call[h] EXCEPT !.token = t, !.step = "renew"] \in Call
      BY <1>c, CallRecords DEF CallSteps
    <3> QED BY <3>1, <3>2, BecomesType
  <2> QED BY <2>1, <2>2
<1>10. CASE SaveRenewed(h)
  BY <1>10, <1>f, CallUpdates DEF SaveRenewed
<1> QED
  BY <1>1, <1>2, <1>3, <1>4, <1>5, <1>6, <1>7, <1>8, <1>9, <1>10 DEF InvitationStep

\* What a step of a call does to the documents, the tokens and the answers.
StepWrites(h) ==
    \/ UNCHANGED <<invite, issued, settled>>
    \/ /\ \E t \in FreshTokens : issued' = issued \cup {t}
       /\ UNCHANGED <<invite, settled>>
    \/ /\ \E i \in Invites :
             /\ InStep(h, "create") /\ invite[i].status = "unused"
             /\ invite' = [invite EXCEPT ![i] =
                    [UnusedInvite EXCEPT !.status = "PENDING", !.email = call[h].email,
                         !.resource = call[h].resource, !.token = call[h].token]]
       /\ UNCHANGED <<issued, settled>>
    \/ /\ InStep(h, "answer") /\ Stored(call[h].doc)
       /\ invite' = [invite EXCEPT ![call[h].doc] = Stamped(@, call[h].status)]
       /\ settled' = settled \cup {[doc |-> call[h].doc, token |-> call[h].token,
                            email |-> invite[call[h].doc].email, status |-> call[h].status]}
       /\ UNCHANGED issued
    \/ /\ Stored(call[h].doc)
       /\ invite' = [invite EXCEPT ![call[h].doc].status = "EXPIRED"]
       /\ UNCHANGED <<issued, settled>>
    \/ /\ InStep(h, "renew") /\ Stored(call[h].doc)
       /\ invite' = [invite EXCEPT ![call[h].doc] = Renewed(@, call[h])]
       /\ UNCHANGED <<issued, settled>>

LEMMA StepWriting ==
    ASSUME NEW h \in Calls, InvitationStep(h)
    PROVE  StepWrites(h) /\ (Works \/ Fails)
BY DEF InvitationStep, StepWrites, CheckExisting, GenerateToken, CreateInvite, FindPending,
       SaveAnswer, SaveExpired, FindAny, SaveExpiredFirst, GenerateNewToken, SaveRenewed

\* Only an answer about to be written carries one of the three statuses.
LEMMA InvitationStepType ==
    ASSUME TypeOK, NEW h \in Calls, InvitationStep(h), UNCHANGED <<accountVars, begun>>,
           InStep(h, "answer") => call[h].status \in Answers /\ call[h].token \in Tokens
    PROVE  TypeOK'
<1>c. call[h] \in Call /\ call[h].doc \in Invites /\ call[h].token \in Tokens \cup {NoToken}
      /\ call[h].email \in Emails /\ call[h].resource \in Resources
  BY DEF TypeOK, InvitationsTypeOK, Call
<1>i. invite \in [Invites -> InviteDoc] /\ settled \subseteq Settlement /\ issued \subseteq Tokens
  BY DEF TypeOK, InvitationsTypeOK
<1>1. call' \in [Calls -> Call]
  BY StepCall
<1>2. inviteFaults' \in 0..MaxInviteFaults
  BY StepWriting, FaultType
<1>3. /\ invite' \in [Invites -> InviteDoc] /\ issued' \subseteq Tokens
      /\ settled' \subseteq Settlement
  <2>1. StepWrites(h)
    BY StepWriting
  <2>2. ASSUME NEW i \in Invites, NEW d \in InviteDoc, invite' = [invite EXCEPT ![i] = d]
        PROVE  invite' \in [Invites -> InviteDoc]
    BY <1>i, <2>2
  <2>3. [UnusedInvite EXCEPT !.status = "PENDING", !.email = call[h].email,
             !.resource = call[h].resource, !.token = call[h].token] \in InviteDoc
    BY <1>c, Defaults, DocUpdates
  <2>4. invite[call[h].doc] \in InviteDoc
    BY <1>c, <1>i
  <2>5. [invite[call[h].doc] EXCEPT !.status = "EXPIRED"] \in InviteDoc
    BY <2>4, DocUpdates
  <2>6. Renewed(invite[call[h].doc], call[h]) \in InviteDoc
    BY <1>c, <2>4, DocUpdates
  <2>7. ASSUME InStep(h, "answer")
        PROVE  /\ Stamped(invite[call[h].doc], call[h].status) \in InviteDoc
               /\ [doc |-> call[h].doc, token |-> call[h].token,
                   email |-> invite[call[h].doc].email, status |-> call[h].status]
                      \in Settlement
    BY <1>c, <2>4, <2>7, DocUpdates DEF Settlement, InviteDoc
  <2>8. CASE UNCHANGED <<invite, issued, settled>>
    BY <1>i, <2>8
  <2>9. CASE /\ \E t \in FreshTokens : issued' = issued \cup {t}
             /\ UNCHANGED <<invite, settled>>
    BY <1>i, <2>9 DEF FreshTokens
  <2>10. CASE /\ \E i \in Invites :
                    invite' = [invite EXCEPT ![i] =
                        [UnusedInvite EXCEPT !.status = "PENDING", !.email = call[h].email,
                             !.resource = call[h].resource, !.token = call[h].token]]
              /\ UNCHANGED <<issued, settled>>
    BY <1>i, <2>2, <2>3, <2>10
  <2>11. CASE /\ InStep(h, "answer")
              /\ invite' = [invite EXCEPT ![call[h].doc] = Stamped(@, call[h].status)]
              /\ settled' = settled \cup {[doc |-> call[h].doc, token |-> call[h].token,
                            email |-> invite[call[h].doc].email, status |-> call[h].status]}
              /\ UNCHANGED issued
    <3>1. invite' \in [Invites -> InviteDoc]
      BY <1>c, <2>2, <2>7, <2>11
    <3> QED BY <1>i, <2>7, <2>11, <3>1
  <2>12. CASE /\ invite' = [invite EXCEPT ![call[h].doc].status = "EXPIRED"]
              /\ UNCHANGED <<issued, settled>>
    BY <1>c, <1>i, <2>2, <2>5, <2>12
  <2>13. CASE /\ invite' = [invite EXCEPT ![call[h].doc] = Renewed(@, call[h])]
              /\ UNCHANGED <<issued, settled>>
    BY <1>c, <1>i, <2>2, <2>6, <2>13
  <2> QED BY <2>1, <2>8, <2>9, <2>10, <2>11, <2>12, <2>13 DEF StepWrites
<1> QED BY <1>1, <1>2, <1>3 DEF TypeOK, InvitationsTypeOK, accountVars

LEMMA AcceptanceStepType ==
    ASSUME TypeOK, NEW h \in Calls, AcceptanceStep(h) \/ CallLost(h)
    PROVE  TypeOK'
<1>c. call[h] \in Call /\ call[h].email \in Emails
  BY DEF TypeOK, InvitationsTypeOK, Call
<1>1. call' \in [Calls -> Call]
  BY CallUpdates
     DEF AcceptanceStep, CallLost, FindUser, InsertUser, SaveUserType, AttachRole, SaveUser,
         ActivateAccount, UpdateLastLogin, CallSteps
<1>2. inviteFaults' \in 0..MaxInviteFaults
  BY FaultType
     DEF AcceptanceStep, CallLost, FindUser, InsertUser, SaveUserType, AttachRole, SaveUser,
         ActivateAccount, UpdateLastLogin
<1>3. account' \in [Emails -> UserDoc]
  <2>1. account \in [Emails -> UserDoc] /\ account[call[h].email] \in UserDoc
    BY <1>c DEF TypeOK
  <2> DEFINE a == account[call[h].email]
             Wrote(d) == account' = [account EXCEPT ![call[h].email] = d]
  <2>2. ASSUME NEW d \in UserDoc, Wrote(d) PROVE account' \in [Emails -> UserDoc]
    BY <1>c, <2>1, <2>2
  <2>3. CASE UNCHANGED account
    BY <2>1, <2>3
  <2>4. CASE InsertUser(h)
    BY <2>2, <2>3, <2>4 DEF InsertUser, NoUser, UserDoc
  <2>5. CASE SaveUserType(h)
    BY <2>1, <2>2, <2>3, <2>5 DEF SaveUserType, UserDoc
  <2>6. CASE AttachRole(h)
    <3>1. [a EXCEPT !.sealed = TRUE, !.role = TRUE] \in UserDoc
      BY <2>1 DEF UserDoc
    <3> QED BY <2>2, <2>3, <2>6, <3>1 DEF AttachRole
  <2>7. CASE SaveUser(h)
    <3> DEFINE r == a.role \/ h \in attached
    <3>1. r \in BOOLEAN /\ [a EXCEPT !.sealed = TRUE, !.role = r] \in UserDoc
      BY <2>1 DEF UserDoc
    <3> QED BY <2>2, <2>3, <2>7, <3>1 DEF SaveUser
  <2>8. CASE ActivateAccount(h)
    BY <2>1, <2>2, <2>3, <2>8 DEF ActivateAccount, UserDoc
  <2>9. CASE UpdateLastLogin(h)
    BY <2>1, <2>2, <2>3, <2>9 DEF UpdateLastLogin, UserDoc
  <2> QED
    BY <2>3, <2>4, <2>5, <2>6, <2>7, <2>8, <2>9
       DEF AcceptanceStep, CallLost, FindUser, accountVars
<1>4. attached' \subseteq Calls /\ admitted' \subseteq Emails
  BY <1>c DEF TypeOK, AcceptanceStep, CallLost, FindUser, InsertUser, SaveUserType, AttachRole,
         SaveUser, ActivateAccount, UpdateLastLogin, accountVars
<1>5. UNCHANGED <<invite, issued, settled, begun>>
  BY DEF AcceptanceStep, CallLost, FindUser, InsertUser, SaveUserType, AttachRole, SaveUser,
         ActivateAccount, UpdateLastLogin
<1> QED BY <1>1, <1>2, <1>3, <1>4, <1>5 DEF TypeOK, InvitationsTypeOK

\* Time, the job, the index and the cleanup change status and age, or delete.
LEMMA BackgroundWrites ==
    ASSUME TypeOK, Background
    PROVE  /\ invite' \in [Invites -> InviteDoc]
           /\ UNCHANGED <<call, issued, settled, inviteFaults>>
           /\ \A i \in Invites :
                 \/ invite'[i] = invite[i]
                 \/ invite'[i].status = "deleted" /\ Stored(i)
                 \/ \E a \in {"past", "old"} : invite'[i] = [invite[i] EXCEPT !.age = a]
                 \/ Stored(i) /\ invite'[i] = [invite[i] EXCEPT !.status = "EXPIRED"]
<1>1. \A i \in Invites : invite[i] \in InviteDoc /\ invite \in [Invites -> InviteDoc]
  BY DEF TypeOK, InvitationsTypeOK
<1>2. [UnusedInvite EXCEPT !.status = "deleted"] \in InviteDoc
      /\ [UnusedInvite EXCEPT !.status = "deleted"].status = "deleted"
  BY Defaults DEF UnusedInvite, InviteDoc
<1>3. CASE \E i \in Invites : PassTime(i)
  <2>1. PICK i \in Invites, a \in {"past", "old"} :
           /\ invite' = [invite EXCEPT ![i] = [invite[i] EXCEPT !.age = a]]
           /\ UNCHANGED <<call, issued, settled, inviteFaults>>
    BY <1>3 DEF PassTime
  <2>2. [invite[i] EXCEPT !.age = a] \in InviteDoc
    BY <1>1, DocUpdates
  <2> QED BY <1>1, <2>1, <2>2
<1>4. CASE \E i \in Invites : ExpireByIndex(i)
  BY <1>1, <1>2, <1>4 DEF ExpireByIndex
<1>5. CASE MarkExpired
  <2>1. \A i \in Invites : [invite[i] EXCEPT !.status = "EXPIRED"] \in InviteDoc
    BY <1>1, DocUpdates
  <2> QED BY <1>1, <1>5, <2>1 DEF MarkExpired
<1>6. CASE CleanupExpired
  <2>1. \A i \in Invites : invite[i].status = "EXPIRED" => Stored(i)
    BY DEF Stored, Statuses
  <2> QED BY <1>1, <1>2, <1>6, <2>1 DEF CleanupExpired
<1> QED BY <1>3, <1>4, <1>5, <1>6 DEF Background

----------------------------------------------------------------------------
(* Tokens *)

\* A call other than h is where it was.
LEMMA Others ==
    ASSUME TypeOK, NEW h \in Calls, NEW c, Becomes(h, c)
    PROVE  call'[h] = c /\ \A k \in Calls \ {h} : call'[k] = call[k]
BY DEF TypeOK, InvitationsTypeOK, Becomes

\* What the calls know of tokens after a step of h that issues none.
LEMMA CallsKeepTokens ==
    ASSUME TypeOK, NEW h \in Calls, NEW c, Becomes(h, c),
           c.step \notin {"create", "renew", "answer", "find"}
    PROVE  \A k \in Calls : call'[k].step \in {"create", "renew", "answer", "find"} =>
               k # h /\ call'[k] = call[k]
BY Others

Minding == {"create", "renew", "answer", "find"}

\* Writes that put no token on a document and reopen none.
LEMMA CalmStep ==
    ASSUME TypeOK, TokenInv,
           \A k \in Calls : call'[k].step \in Minding => call'[k] = call[k],
           \A i \in Invites : Stored(i)' =>
               /\ Stored(i) /\ invite'[i].token = invite[i].token
               /\ invite'[i].status = "PENDING" => invite[i].status = "PENDING",
           UNCHANGED <<issued, settled>>
    PROVE  TokenInv'
<1>1. Spent' = Spent
  BY DEF Spent
<1>2. ASSUME NEW k \in Calls PROVE HeldIsNew(k)' /\ AsksToAnswer(k)' /\ AnswersItsOwn(k)'
  <2>1. HeldIsNew(k) /\ AsksToAnswer(k) /\ AnswersItsOwn(k)
    BY DEF TokenInv
  <2>2. HeldIsNew(k)'
    BY <1>1, <2>1 DEF HeldIsNew, Holds, Minding
  <2>3. AsksToAnswer(k)'
    BY <2>1 DEF AsksToAnswer, Minding
  <2>4. AnswersItsOwn(k)'
    BY <2>1 DEF AnswersItsOwn, InStep, Holds, Minding
  <2> QED BY <2>2, <2>3, <2>4
<1>3. StoredIsIssued' /\ TokensDiffer'
  BY DEF TokenInv, StoredIsIssued, TokensDiffer
<1>4. UsedTokenIsDead' /\ Spent' \subseteq issued'
  BY <1>1 DEF TokenInv, UsedTokenIsDead, PendingWithToken, WithToken
<1> QED BY <1>2, <1>3, <1>4 DEF TokenInv

LEMMA BackgroundTokens ==
    ASSUME TypeOK, TokenInv, Background
    PROVE  TokenInv'
<1>1. \A i \in Invites : invite[i] \in InviteDoc
  BY DEF TypeOK, InvitationsTypeOK
<1>2. ASSUME NEW i \in Invites, Stored(i)'
      PROVE  /\ Stored(i) /\ invite'[i].token = invite[i].token
             /\ invite'[i].status = "PENDING" => invite[i].status = "PENDING"
  <2>1. invite'[i].status \in Statuses
    BY <1>2 DEF Stored
  <2>2. "deleted" \notin Statuses
    BY DEF Statuses, Answers
  <2>3. CASE invite'[i] = invite[i]
    BY <2>1, <2>3 DEF Stored
  <2>4. CASE \E a \in {"past", "old"} : invite'[i] = [invite[i] EXCEPT !.age = a]
    BY <1>1, <2>1, <2>4 DEF Stored, InviteDoc
  <2>5. CASE Stored(i) /\ invite'[i] = [invite[i] EXCEPT !.status = "EXPIRED"]
    BY <1>1, <2>5 DEF InviteDoc
  <2> QED BY <2>1, <2>2, <2>3, <2>4, <2>5, BackgroundWrites
<1>3. UNCHANGED <<call, issued, settled>>
  BY BackgroundWrites
<1> QED BY <1>2, <1>3, CalmStep

\* A step of one call that leaves the documents alone and minds no token after.
LEMMA CalmCall ==
    ASSUME TypeOK, TokenInv, NEW h \in Calls, NEW c, Becomes(h, c), c.step \notin Minding,
           UNCHANGED <<invite, issued, settled>>
    PROVE  TokenInv'
<1>1. \A k \in Calls : call'[k].step \in Minding => call'[k] = call[k]
  BY Others
<1>2. \A i \in Invites : Stored(i)' <=> Stored(i)
  BY DEF Stored
<1> QED BY <1>1, <1>2, CalmStep

LEMMA StartTokens ==
    ASSUME TypeOK, TokenInv, NEW h \in Calls, Starts(h)
    PROVE  TokenInv'
<1>1. UNCHANGED <<invite, issued, settled>>
  BY DEF Starts, NewInvitation, BulkInvitation, StartAnswer, StartResend
<1>2. CASE \E t \in Tokens, a \in Answers : StartAnswer(h, t, a)
  <2>1. PICK t \in Tokens, a \in Answers : StartAnswer(h, t, a)
    BY <1>2
  <2> DEFINE c == [IdleCall EXCEPT !.step = "find", !.token = t, !.status = a,
                                   !.joins = (a = "ACCEPTED")]
  <2>2. c.step = "find" /\ c.token = t /\ c.status = a /\ (c.joins => a = "ACCEPTED")
    BY DEF IdleCall
  <2>3. Becomes(h, c) /\ t \in issued
    BY <2>1 DEF StartAnswer
  <2> HIDE DEF c
  <2>4. call'[h] = c /\ \A k \in Calls \ {h} : call'[k] = call[k]
    BY <2>3, Others
  <2>5. Spent' = Spent
    BY <1>1 DEF Spent
  <2>6. ASSUME NEW k \in Calls PROVE HeldIsNew(k)' /\ AsksToAnswer(k)' /\ AnswersItsOwn(k)'
    <3>1. HeldIsNew(k) /\ AsksToAnswer(k) /\ AnswersItsOwn(k)
      BY DEF TokenInv
    <3>2. ~Holds(h)' /\ \A j \in Calls : Holds(j)' => Holds(j) /\ call'[j] = call[j]
      BY <2>2, <2>4 DEF Holds
    <3>3. HeldIsNew(k)'
      BY <1>1, <2>5, <3>1, <3>2 DEF HeldIsNew, Stored
    <3>4. AsksToAnswer(k)'
      BY <1>1, <2>2, <2>3, <2>4, <3>1 DEF AsksToAnswer
    <3>5. AnswersItsOwn(k)'
      BY <1>1, <2>2, <2>4, <3>1, <3>2 DEF AnswersItsOwn, InStep, Stored
    <3> QED BY <3>3, <3>4, <3>5
  <2>7. StoredIsIssued' /\ TokensDiffer' /\ UsedTokenIsDead' /\ Spent' \subseteq issued'
    BY <1>1, <2>5 DEF TokenInv, StoredIsIssued, TokensDiffer, UsedTokenIsDead, PendingWithToken,
                      WithToken, Stored
  <2> QED BY <2>6, <2>7 DEF TokenInv
<1>3. CASE \E e \in Emails, r \in Resources : NewInvitation(h, e, r)
  BY <1>1, <1>3, CalmCall DEF NewInvitation, IdleCall, Minding
<1>4. CASE \E es \in SUBSET Emails, r \in Resources : BulkInvitation(h, es, r)
  BY <1>1, <1>4, CalmCall DEF BulkInvitation, IdleCall, Minding
<1>5. CASE \E t \in Tokens : StartResend(h, t)
  BY <1>1, <1>5, CalmCall DEF StartResend, IdleCall, Minding
<1> QED BY <1>2, <1>3, <1>4, <1>5 DEF Starts

\* What comes after an email, an answer or a resend minds no token.
LEMMA CalmEnds ==
    ASSUME TypeOK, NEW h \in Calls, NextInvitee(h) \/ Finish(h)
    PROVE  \E c : Becomes(h, c) /\ c.step \notin Minding
<1>1. call[h] \in Call
  BY DEF TypeOK, InvitationsTypeOK
<1>2. IdleCall.step \notin Minding
  BY DEF IdleCall, Minding
<1>3. \A e, es : [call[h] EXCEPT !.step = "existing", !.email = e, !.rest = es,
                                 !.token = NoToken].step \notin Minding
  BY <1>1 DEF Call, Minding
<1> QED BY <1>2, <1>3 DEF NextInvitee, Finish

\* A new token goes to the call that asked for it.
LEMMA FreshTokenStep ==
    ASSUME TypeOK, TokenInv, NEW h \in Calls, NEW t \in Tokens \ issued,
           NEW step \in {"create", "renew"}, issued' = issued \cup {t},
           Becomes(h, [call[h] EXCEPT !.token = t, !.step = step]),
           UNCHANGED <<invite, settled>>
    PROVE  TokenInv'
<1> DEFINE c == [call[h] EXCEPT !.token = t, !.step = step]
<1>1. c.step = step /\ c.token = t
  BY DEF TypeOK, InvitationsTypeOK, Call
<1>2. call'[h] = c /\ \A k \in Calls \ {h} : call'[k] = call[k]
  BY Others
<1> HIDE DEF c
<1>3. Spent' = Spent
  BY DEF Spent
<1>4. \A i \in Invites : (Stored(i)' <=> Stored(i)) /\ (Stored(i) => invite[i].token # t)
  BY DEF Stored, TokenInv, StoredIsIssued
<1>5. \A k \in Calls \ {h} : call[k].step \in Minding => call[k].token # t
  BY DEF TokenInv, Minding, AsksToAnswer, HeldIsNew, Holds
<1>6. t \notin Spent'
  BY <1>3 DEF TokenInv
<1>7. ASSUME NEW k \in Calls PROVE HeldIsNew(k)' /\ AsksToAnswer(k)' /\ AnswersItsOwn(k)'
  <2>1. HeldIsNew(k) /\ AsksToAnswer(k) /\ AnswersItsOwn(k)
    BY DEF TokenInv
  <2>2. CASE k = h
    <3>1. HeldIsNew(h)'
      BY <1>1, <1>2, <1>4, <1>5, <1>6 DEF HeldIsNew, Holds, Minding
    <3>2. AsksToAnswer(h)' /\ AnswersItsOwn(h)'
      BY <1>1, <1>2 DEF AsksToAnswer, AnswersItsOwn, InStep
    <3> QED BY <2>2, <3>1, <3>2
  <2>3. CASE k # h
    <3>1. call'[k] = call[k]
      BY <1>2, <2>3
    <3>2. HeldIsNew(k)'
      BY <1>1, <1>2, <1>4, <1>5, <2>1, <2>3, <3>1 DEF HeldIsNew, Holds, Spent, Minding
    <3>3. AsksToAnswer(k)'
      BY <2>1, <3>1 DEF AsksToAnswer
    <3>4. AnswersItsOwn(k)'
      BY <1>1, <1>2, <1>4, <1>5, <2>1, <2>3, <3>1
         DEF AnswersItsOwn, InStep, Holds, Minding
    <3> QED BY <3>2, <3>3, <3>4
  <2> QED BY <2>2, <2>3
<1>8. StoredIsIssued' /\ TokensDiffer' /\ UsedTokenIsDead' /\ Spent' \subseteq issued'
  BY <1>3 DEF TokenInv, StoredIsIssued, TokensDiffer, UsedTokenIsDead, PendingWithToken,
         WithToken, Stored
<1> QED BY <1>7, <1>8 DEF TokenInv

\* The look-up of an answer finds the one document with the token.
LEMMA FindPendingTokens ==
    ASSUME TypeOK, TokenInv, NEW h \in Calls, FindPending(h)
    PROVE  TokenInv'
<1>1. UNCHANGED <<invite, issued, settled>> /\ InStep(h, "find")
  BY DEF FindPending
<1>2. CASE Finish(h)
  BY <1>1, <1>2, CalmEnds, CalmCall
<1>3. CASE ~Finish(h)
  <2> DEFINE s(i) == IF call[h].joins /\ invite[i].age # "valid" THEN "expire" ELSE "answer"
             c(i) == [call[h] EXCEPT !.doc = i, !.step = s(i)]
  <2>1. PICK i \in Invites : Becomes(h, c(i)) /\ Stored(i) /\ invite[i].token = call[h].token
    BY <1>3 DEF FindPending, PendingWithToken, WithToken
  <2>2. /\ c(i).step = s(i) /\ c(i).doc = i /\ c(i).token = call[h].token
        /\ c(i).status = call[h].status /\ c(i).joins = call[h].joins /\ s(i) \in {"expire", "answer"}
    BY DEF TypeOK, InvitationsTypeOK, Call
  <2> HIDE DEF c, s
  <2>3. call'[h] = c(i) /\ \A k \in Calls \ {h} : call'[k] = call[k]
    BY <2>1, Others
  <2>4. \A k \in Calls : Holds(k)' => k # h /\ Holds(k) /\ call'[k] = call[k]
    BY <2>2, <2>3 DEF Holds
  <2>5. ASSUME NEW k \in Calls PROVE HeldIsNew(k)' /\ AsksToAnswer(k)' /\ AnswersItsOwn(k)'
    <3>1. HeldIsNew(k) /\ AsksToAnswer(k) /\ AnswersItsOwn(k)
      BY DEF TokenInv
    <3>2. HeldIsNew(k)'
      BY <1>1, <2>4, <3>1 DEF HeldIsNew, Stored, Spent
    <3>3. AsksToAnswer(k)'
      BY <1>1, <2>2, <2>3, <3>1 DEF AsksToAnswer, InStep
    <3>4. CASE k = h
      <4>1. \A j \in Invites \ {i} : Stored(j)' => invite'[j].token # call[h].token
        BY <1>1, <2>1 DEF TokenInv, TokensDiffer, Stored
      <4>2. \A j \in Calls : Holds(j)' => call'[j].token # call[h].token
        BY <2>1, <2>4 DEF TokenInv, HeldIsNew
      <4> QED BY <2>2, <2>3, <3>2, <3>3, <3>4, <4>1, <4>2 DEF AnswersItsOwn
    <3>5. CASE k # h
      BY <1>1, <2>3, <2>4, <3>1, <3>2, <3>3, <3>5 DEF AnswersItsOwn, InStep, Stored
    <3> QED BY <3>4, <3>5
  <2>6. StoredIsIssued' /\ TokensDiffer' /\ UsedTokenIsDead' /\ Spent' \subseteq issued'
    BY <1>1 DEF TokenInv, StoredIsIssued, TokensDiffer, UsedTokenIsDead, PendingWithToken,
                WithToken, Stored, Spent
  <2> QED BY <2>5, <2>6 DEF TokenInv
<1> QED BY <1>2, <1>3

\* The new token moves from the call that held it to one document.
LEMMA PlaceToken ==
    ASSUME TypeOK, TokenInv, NEW h \in Calls, Holds(h), NEW i \in Invites,
           NEW d, d.token = call[h].token, invite' = [invite EXCEPT ![i] = d],
           NEW c, Becomes(h, c), c.step \notin Minding, UNCHANGED <<issued, settled>>
    PROVE  TokenInv'
<1>1. call'[h] = c /\ \A k \in Calls \ {h} : call'[k] = call[k]
  BY Others
<1>2. invite'[i] = d /\ \A j \in Invites \ {i} : invite'[j] = invite[j]
  BY DEF TypeOK, InvitationsTypeOK
<1>3. Spent' = Spent
  BY DEF Spent
<1>4. \A j \in Invites \ {i} : Stored(j)' <=> Stored(j)
  BY <1>2 DEF Stored
<1>5. HeldIsNew(h)
  BY DEF TokenInv
<1>6. \A k \in Calls : call'[k].step \in Minding => k # h /\ call'[k] = call[k]
  BY <1>1
<1>7. ASSUME NEW k \in Calls PROVE HeldIsNew(k)' /\ AsksToAnswer(k)' /\ AnswersItsOwn(k)'
  <2>1. HeldIsNew(k) /\ AsksToAnswer(k) /\ AnswersItsOwn(k)
    BY DEF TokenInv
  <2>2. HeldIsNew(k)'
    BY <1>2, <1>3, <1>4, <1>5, <1>6, <2>1 DEF HeldIsNew, Holds, Minding
  <2>3. AsksToAnswer(k)'
    BY <1>6, <2>1 DEF AsksToAnswer, Minding
  <2>4. AnswersItsOwn(k)'
    BY <1>2, <1>4, <1>5, <1>6, <2>1 DEF AnswersItsOwn, InStep, Holds, Minding
  <2> QED BY <2>2, <2>3, <2>4
<1>8. StoredIsIssued'
  BY <1>2, <1>4, <1>5 DEF TokenInv, StoredIsIssued, HeldIsNew
<1>9. TokensDiffer'
  BY <1>2, <1>4, <1>5 DEF TokenInv, TokensDiffer, HeldIsNew
<1>10. UsedTokenIsDead' /\ Spent' \subseteq issued'
  <2>1. ASSUME NEW t \in Spent', NEW j \in PendingWithToken(t)' PROVE FALSE
    <3>1. j \in Invites /\ Stored(j)' /\ invite'[j].token = t /\ invite'[j].status = "PENDING"
      BY <2>1 DEF PendingWithToken, WithToken
    <3>2. CASE j = i
      BY <1>2, <1>3, <1>5, <2>1, <3>1, <3>2 DEF HeldIsNew
    <3>3. CASE j # i
      BY <1>2, <1>3, <1>4, <2>1, <3>1, <3>3
         DEF TokenInv, UsedTokenIsDead, PendingWithToken, WithToken
    <3> QED BY <3>2, <3>3
  <2> QED BY <1>3, <2>1 DEF TokenInv, UsedTokenIsDead
<1> QED BY <1>7, <1>8, <1>9, <1>10 DEF TokenInv

\* The answer spends its token, wherever a resend has moved the document since.
LEMMA SaveAnswerTokens ==
    ASSUME TypeOK, TokenInv, NEW h \in Calls, SaveAnswer(h)
    PROVE  TokenInv'
<1>1. InStep(h, "answer") /\ issued' = issued
  BY DEF SaveAnswer
<1>2. call[h] \in Call /\ call[h].doc \in Invites /\ invite[call[h].doc] \in InviteDoc
  BY DEF TypeOK, InvitationsTypeOK, Call
<1>3. PICK c : Becomes(h, c) /\ c.step \notin Minding
  <2>1. \A e : [IdleCall EXCEPT !.step = "findUser", !.joins = TRUE, !.email = e].step
                   \notin Minding
    BY DEF IdleCall, Minding
  <2> QED BY <2>1, CalmEnds DEF SaveAnswer
<1>4. CASE UNCHANGED <<invite, settled>>
  BY <1>1, <1>3, <1>4, CalmCall
<1>5. CASE ~UNCHANGED <<invite, settled>>
  <2> DEFINE i == call[h].doc
             t == call[h].token
             d == Stamped(invite[i], call[h].status)
  <2>1. /\ Stored(i) /\ invite' = [invite EXCEPT ![i] = d]
        /\ settled' = settled \cup {[doc |-> i, token |-> t, email |-> invite[i].email,
                                     status |-> call[h].status]}
    BY <1>5 DEF SaveAnswer
  <2>2. AsksToAnswer(h) /\ AnswersItsOwn(h)
    BY DEF TokenInv
  <2>3. d.token = invite[i].token /\ d.status = call[h].status
    BY <1>2 DEF Stamped, InviteDoc
  <2>4. d.status # "PENDING" /\ d.status \in Statuses
    BY <1>1, <2>2, <2>3 DEF AsksToAnswer, InStep, Answers, Statuses
  <2> HIDE DEF d
  <2>5. invite'[i] = d /\ \A j \in Invites \ {i} : invite'[j] = invite[j]
    BY <1>2, <2>1 DEF TypeOK, InvitationsTypeOK
  <2>6. Spent' = Spent \cup {t}
    <3> DEFINE r == [doc |-> i, token |-> t, email |-> invite[i].email,
                     status |-> call[h].status]
    <3>1. r.token = t /\ settled' = settled \cup {r}
      BY <2>1
    <3> HIDE DEF r, t
    <3> QED BY <3>1 DEF Spent
  <2>7. \A j \in Invites : (Stored(j)' <=> Stored(j)) /\ invite'[j].token = invite[j].token
    BY <2>1, <2>3, <2>4, <2>5 DEF Stored
  <2>8. \A k \in Calls : call'[k].step \in Minding => k # h /\ call'[k] = call[k]
    BY <1>3, Others
  <2>9. ASSUME NEW k \in Calls PROVE HeldIsNew(k)' /\ AsksToAnswer(k)' /\ AnswersItsOwn(k)'
    <3>1. HeldIsNew(k) /\ AsksToAnswer(k) /\ AnswersItsOwn(k)
      BY DEF TokenInv
    <3>2. Holds(k) => call[k].token # t
      BY <1>1, <2>2 DEF AnswersItsOwn
    <3>3. HeldIsNew(k)'
      BY <1>1, <2>6, <2>7, <2>8, <3>1, <3>2 DEF HeldIsNew, Holds, Minding
    <3>4. AsksToAnswer(k)'
      BY <1>1, <2>8, <3>1 DEF AsksToAnswer, Minding
    <3>5. AnswersItsOwn(k)'
      BY <2>7, <2>8, <3>1 DEF AnswersItsOwn, InStep, Holds, Minding
    <3> QED BY <3>3, <3>4, <3>5
  <2>10. StoredIsIssued' /\ TokensDiffer'
    BY <1>1, <2>7 DEF TokenInv, StoredIsIssued, TokensDiffer
  <2>11. Spent' \subseteq issued'
    BY <1>1, <2>2, <2>6 DEF TokenInv, AsksToAnswer, InStep
  <2>12. UsedTokenIsDead'
    <3>1. ASSUME NEW u \in Spent', NEW j \in PendingWithToken(u)' PROVE FALSE
      <4>1. j \in Invites /\ Stored(j)' /\ invite'[j].token = u /\ invite'[j].status = "PENDING"
        BY <3>1 DEF PendingWithToken, WithToken
      <4>2. j # i
        BY <2>4, <2>5, <4>1
      <4>3. invite'[j] = invite[j] /\ Stored(j)
        BY <2>5, <2>7, <4>1, <4>2
      <4>4. u # t
        BY <1>1, <2>2, <4>1, <4>2, <4>3 DEF AnswersItsOwn
      <4> QED
        BY <2>6, <3>1, <4>1, <4>3, <4>4
           DEF TokenInv, UsedTokenIsDead, PendingWithToken, WithToken
    <3> QED BY <3>1 DEF UsedTokenIsDead
  <2> QED BY <2>9, <2>10, <2>11, <2>12 DEF TokenInv
<1> QED BY <1>4, <1>5

LEMMA InvitationStepTokens ==
    ASSUME TypeOK, TokenInv, NEW h \in Calls, InvitationStep(h)
    PROVE  TokenInv'
<1>0. call[h] \in Call /\ call[h].doc \in Invites /\ \A i \in Invites : invite[i] \in InviteDoc
  BY DEF TypeOK, InvitationsTypeOK, Call
<1>g. ASSUME NEW step \in CallSteps \ Minding, GoTo(h, step)
      PROVE  \E c : Becomes(h, c) /\ c.step \notin Minding
  <2>1. [call[h] EXCEPT !.step = step].step = step
    BY <1>0 DEF Call
  <2> QED BY <1>g, <2>1 DEF GoTo
<1>1. CASE CheckExisting(h)
  <2>1. "token" \in CallSteps \ Minding
    BY DEF CallSteps, Minding
  <2>2. \E c : Becomes(h, c) /\ c.step \notin Minding
    BY <1>1, <1>g, <2>1, CalmEnds DEF CheckExisting
  <2> QED BY <1>1, <2>2, CalmCall DEF CheckExisting
<1>2. CASE GenerateToken(h)
  <2>1. CASE NextInvitee(h) /\ UNCHANGED issued
    BY <1>2, <2>1, CalmEnds, CalmCall DEF GenerateToken
  <2>2. CASE ~(NextInvitee(h) /\ UNCHANGED issued)
    BY <1>2, <2>2, FreshTokenStep DEF GenerateToken, FreshTokens
  <2> QED BY <2>1, <2>2
<1>3. CASE CreateInvite(h)
  <2>1. PICK c : Becomes(h, c) /\ c.step \notin Minding
    BY <1>3, CalmEnds DEF CreateInvite
  <2>2. CASE UNCHANGED invite
    BY <1>3, <2>1, <2>2, CalmCall DEF CreateInvite
  <2>3. CASE ~UNCHANGED invite
    <3> DEFINE d == [UnusedInvite EXCEPT !.status = "PENDING", !.email = call[h].email,
                         !.resource = call[h].resource, !.token = call[h].token]
    <3>1. PICK i \in Invites : invite' = [invite EXCEPT ![i] = d]
      BY <1>3, <2>3 DEF CreateInvite
    <3>2. d.token = call[h].token
      BY DEF UnusedInvite
    <3> HIDE DEF d
    <3>3. Holds(h) /\ UNCHANGED <<issued, settled>>
      BY <1>3 DEF CreateInvite, InStep, Holds
    <3> QED BY <2>1, <3>1, <3>2, <3>3, PlaceToken
  <2> QED BY <2>2, <2>3
<1>4. CASE FindPending(h)
  BY <1>4, FindPendingTokens
<1>5. CASE SaveAnswer(h)
  BY <1>5, SaveAnswerTokens
<1>x. ASSUME NEW c, Becomes(h, c), c.step \notin Minding,
             invite' = [invite EXCEPT ![call[h].doc].status = "EXPIRED"],
             Stored(call[h].doc), UNCHANGED <<issued, settled>>
      PROVE  TokenInv'
  <2>1. \A k \in Calls : call'[k].step \in Minding => call'[k] = call[k]
    BY <1>x, Others
  <2>2. \A i \in Invites : Stored(i)' =>
               /\ Stored(i) /\ invite'[i].token = invite[i].token
               /\ invite'[i].status = "PENDING" => invite[i].status = "PENDING"
    BY <1>0, <1>x DEF Stored, TypeOK, InvitationsTypeOK, InviteDoc
  <2> QED BY <1>x, <2>1, <2>2, CalmStep
<1>6. CASE SaveExpired(h)
  <2>1. PICK c : Becomes(h, c) /\ c.step \notin Minding
    BY <1>6, CalmEnds DEF SaveExpired
  <2> QED BY <1>6, <1>x, <2>1, CalmCall DEF SaveExpired
<1>7. CASE FindAny(h)
  <2>1. \A i, s : \A step \in {"expireFirst", "newToken"} :
            [call[h] EXCEPT !.doc = i, !.status = s, !.step = step].step \notin Minding
    BY <1>0 DEF Call, Minding
  <2>2. \E c : Becomes(h, c) /\ c.step \notin Minding
    BY <1>7, <2>1, CalmEnds DEF FindAny
  <2> QED BY <1>7, <2>2, CalmCall DEF FindAny
<1>8. CASE SaveExpiredFirst(h)
  <2>1. [call[h] EXCEPT !.step = "newToken", !.status = "EXPIRED"].step \notin Minding
    BY <1>0 DEF Call, Minding
  <2>2. PICK c : Becomes(h, c) /\ c.step \notin Minding
    BY <1>8, <2>1, CalmEnds DEF SaveExpiredFirst
  <2> QED BY <1>8, <1>x, <2>2, CalmCall DEF SaveExpiredFirst
<1>9. CASE GenerateNewToken(h)
  <2>1. CASE Finish(h) /\ UNCHANGED issued
    BY <1>9, <2>1, CalmEnds, CalmCall DEF GenerateNewToken
  <2>2. CASE ~(Finish(h) /\ UNCHANGED issued)
    BY <1>9, <2>2, FreshTokenStep DEF GenerateNewToken, FreshTokens
  <2> QED BY <2>1, <2>2
<1>10. CASE SaveRenewed(h)
  <2>1. PICK c : Becomes(h, c) /\ c.step \notin Minding
    BY <1>10, CalmEnds DEF SaveRenewed
  <2>2. CASE UNCHANGED invite
    BY <1>10, <2>1, <2>2, CalmCall DEF SaveRenewed
  <2>3. CASE ~UNCHANGED invite
    <3>1. invite' = [invite EXCEPT ![call[h].doc] = Renewed(invite[call[h].doc], call[h])]
      BY <1>10, <2>3 DEF SaveRenewed
    <3>2. Renewed(invite[call[h].doc], call[h]).token = call[h].token
      BY <1>0 DEF Renewed, InviteDoc
    <3>3. Holds(h) /\ UNCHANGED <<issued, settled>>
      BY <1>10 DEF SaveRenewed, InStep, Holds
    <3> QED BY <1>0, <2>1, <3>1, <3>2, <3>3, PlaceToken
  <2> QED BY <2>2, <2>3
<1> QED
  BY <1>1, <1>2, <1>3, <1>4, <1>5, <1>6, <1>7, <1>8, <1>9, <1>10 DEF InvitationStep

----------------------------------------------------------------------------
(* Marks *)

\* Documents gain stamps, come from the unused ones, and go for good.
LEMMA MarkStep ==
    ASSUME TypeOK, MarkInv, UNCHANGED settled,
           \A i \in Invites : invite[i].status # "unused" =>
               /\ invite'[i].status # "unused"
               /\ Stored(i)' => Stored(i) /\ invite[i].stamps \subseteq invite'[i].stamps
    PROVE  MarkInv'
BY DEF MarkInv, SettledWasUsed, AnsweredLeavesMark, TypeOK, InvitationsTypeOK, Settlement

LEMMA BackgroundMarks ==
    ASSUME TypeOK, MarkInv, Background
    PROVE  MarkInv'
<1>1. \A i \in Invites : invite[i] \in InviteDoc
  BY DEF TypeOK, InvitationsTypeOK
<1>2. ASSUME NEW i \in Invites, invite[i].status # "unused"
      PROVE  /\ invite'[i].status # "unused"
             /\ Stored(i)' => Stored(i) /\ invite[i].stamps \subseteq invite'[i].stamps
  <2>1. "deleted" \notin Statuses
    BY DEF Statuses, Answers
  <2>2. CASE invite'[i] = invite[i]
    BY <1>2, <2>2 DEF Stored
  <2>3. CASE invite'[i].status = "deleted" /\ Stored(i)
    BY <2>1, <2>3 DEF Stored
  <2>4. CASE \E a \in {"past", "old"} : invite'[i] = [invite[i] EXCEPT !.age = a]
    BY <1>1, <1>2, <2>4 DEF Stored, InviteDoc
  <2>5. CASE Stored(i) /\ invite'[i] = [invite[i] EXCEPT !.status = "EXPIRED"]
    BY <1>1, <2>5 DEF InviteDoc
  <2> QED BY <2>2, <2>3, <2>4, <2>5, BackgroundWrites
<1> QED BY <1>2, BackgroundWrites, MarkStep

LEMMA InvitationStepMarks ==
    ASSUME TypeOK, TokenInv, MarkInv, NEW h \in Calls, InvitationStep(h)
    PROVE  MarkInv'
<1>0. call[h].doc \in Invites /\ \A i \in Invites : invite[i] \in InviteDoc
  BY DEF TypeOK, InvitationsTypeOK, Call
<1>w. ASSUME NEW i \in Invites, NEW d, invite' = [invite EXCEPT ![i] = d], UNCHANGED settled,
             invite[i].status # "unused" =>
                 /\ Stored(i) /\ d.status # "unused"
                 /\ invite[i].stamps \subseteq d.stamps
      PROVE  MarkInv'
  <2>1. invite'[i] = d /\ \A j \in Invites \ {i} : invite'[j] = invite[j]
    BY <1>w DEF TypeOK, InvitationsTypeOK
  <2>2. ASSUME NEW j \in Invites, invite[j].status # "unused"
        PROVE  /\ invite'[j].status # "unused"
               /\ Stored(j)' => Stored(j) /\ invite[j].stamps \subseteq invite'[j].stamps
    <3>1. CASE j = i
      BY <1>w, <2>1, <2>2, <3>1
    <3>2. CASE j # i
      BY <2>1, <2>2, <3>2 DEF Stored
    <3> QED BY <3>1, <3>2
  <2> QED BY <1>w, <2>2, MarkStep
<1>1. StepWrites(h)
  BY StepWriting
<1>2. CASE UNCHANGED <<invite, settled>>
  BY <1>2, MarkStep DEF Stored
<1>3. CASE \E i \in Invites :
              /\ invite[i].status = "unused"
              /\ \E d : invite' = [invite EXCEPT ![i] = d]
              /\ UNCHANGED settled
  BY <1>3, <1>w
<1>4. CASE /\ Stored(call[h].doc)
           /\ invite' = [invite EXCEPT ![call[h].doc].status = "EXPIRED"]
           /\ UNCHANGED settled
  BY <1>0, <1>4, <1>w DEF InviteDoc
<1>5. CASE /\ Stored(call[h].doc)
           /\ invite' = [invite EXCEPT ![call[h].doc] = Renewed(@, call[h])]
           /\ UNCHANGED settled
  <2> DEFINE d == Renewed(invite[call[h].doc], call[h])
  <2>1. d.stamps = invite[call[h].doc].stamps
        /\ d.status \in {invite[call[h].doc].status, "PENDING"}
    BY <1>0 DEF Renewed, InviteDoc
  <2>2. d.status # "unused"
    BY <1>5, <2>1 DEF Stored, Statuses, Answers
  <2> HIDE DEF d
  <2>3. invite' = [invite EXCEPT ![call[h].doc] = d]
    BY <1>5 DEF d
  <2> QED BY <1>0, <1>5, <1>w, <2>1, <2>2, <2>3
<1>6. CASE /\ InStep(h, "answer") /\ Stored(call[h].doc)
           /\ invite' = [invite EXCEPT ![call[h].doc] = Stamped(@, call[h].status)]
           /\ settled' = settled \cup {[doc |-> call[h].doc, token |-> call[h].token,
                            email |-> invite[call[h].doc].email, status |-> call[h].status]}
  <2> DEFINE i == call[h].doc
             a == call[h].status
             d == Stamped(invite[i], a)
             r == [doc |-> i, token |-> call[h].token, email |-> invite[i].email,
                   status |-> a]
  <2>1. d.stamps = invite[i].stamps \cup {a} /\ d.status = a
    BY <1>0 DEF Stamped, InviteDoc
  <2>2. a \in Answers
    BY <1>6 DEF TokenInv, AsksToAnswer, InStep
  <2>3. r.doc = i /\ r.status = a /\ settled' = settled \cup {r}
    BY <1>6
  <2> HIDE DEF d, r
  <2>4. invite'[i] = d /\ \A j \in Invites \ {i} : invite'[j] = invite[j]
    BY <1>0, <1>6 DEF TypeOK, InvitationsTypeOK, d
  <2>5. d.status # "unused"
    BY <2>1, <2>2 DEF Answers
  <2>6. \A s \in settled : s.doc \in Invites
    BY DEF TypeOK, InvitationsTypeOK, Settlement
  <2>7. SettledWasUsed'
    BY <2>3, <2>4, <2>5, <2>6 DEF MarkInv, SettledWasUsed
  <2>8. AnsweredLeavesMark'
    <3>1. ASSUME NEW s \in settled', Stored(s.doc)' PROVE s.status \in invite'[s.doc].stamps
      <4>1. CASE s = r
        BY <2>1, <2>3, <2>4, <4>1
      <4>2. CASE s \in settled /\ s.doc = i
        <5>1. s.status \in invite[i].stamps
          BY <1>6, <4>2 DEF MarkInv, AnsweredLeavesMark
        <5> QED BY <2>1, <2>4, <4>2, <5>1
      <4>3. CASE s \in settled /\ s.doc # i
        <5>1. invite'[s.doc] = invite[s.doc]
          BY <2>4, <2>6, <4>3
        <5>2. Stored(s.doc)
          BY <3>1, <5>1 DEF Stored
        <5> QED BY <4>3, <5>1, <5>2 DEF MarkInv, AnsweredLeavesMark
      <4> QED BY <2>3, <4>1, <4>2, <4>3
    <3> QED BY <3>1 DEF AnsweredLeavesMark
  <2> QED BY <2>7, <2>8 DEF MarkInv
<1> QED BY <1>1, <1>2, <1>3, <1>4, <1>5, <1>6 DEF StepWrites

----------------------------------------------------------------------------
(* Accounts *)

\* The part of the endpoint after the invitation.
Building == {"findUser", "insertUser", "userType", "role", "save", "activate", "lastLogin"}

\* What attachRole and the save after it write.
LEMMA AttachRoleWrite ==
    ASSUME TypeOK, NEW h \in Calls, AttachRole(h)
    PROVE  LET e == call[h].email IN
           \/ UNCHANGED account
           \/ \E d : /\ account' = [account EXCEPT ![e] = d]
                     /\ d.exists = account[e].exists /\ d.typed = account[e].typed
                     /\ d.active = account[e].active /\ d.sealed
<1> DEFINE e == call[h].email
           d == [account[e] EXCEPT !.sealed = TRUE, !.role = TRUE]
<1>1. account[e] \in UserDoc
  BY DEF TypeOK, InvitationsTypeOK, Call
<1>2. d.exists = account[e].exists /\ d.typed = account[e].typed
      /\ d.active = account[e].active /\ d.sealed
  BY <1>1 DEF UserDoc
<1>3. UNCHANGED account \/ account' = [account EXCEPT ![e] = d]
  BY DEF AttachRole
<1> QED BY <1>2, <1>3

LEMMA SaveUserWrite ==
    ASSUME TypeOK, NEW h \in Calls, SaveUser(h)
    PROVE  LET e == call[h].email IN
           \/ UNCHANGED account
           \/ \E d : /\ account' = [account EXCEPT ![e] = d]
                     /\ d.exists = account[e].exists /\ d.typed = account[e].typed
                     /\ d.active = account[e].active /\ d.sealed
<1> DEFINE e == call[h].email
           r == account[e].role \/ h \in attached
           d == [account[e] EXCEPT !.sealed = TRUE, !.role = r]
<1>1. account[e] \in UserDoc
  BY DEF TypeOK, InvitationsTypeOK, Call
<1>3. UNCHANGED account \/ account' = [account EXCEPT ![e] = d]
  BY DEF SaveUser
<1> HIDE DEF r
<1>2. d.exists = account[e].exists /\ d.typed = account[e].typed
      /\ d.active = account[e].active /\ d.sealed
  BY <1>1 DEF UserDoc
<1> QED BY <1>2, <1>3

\* No step makes an account less than it was.
LEMMA AccountGrows ==
    ASSUME TypeOK, AccountInv, NEW h \in Calls, AcceptanceStep(h) \/ CallLost(h)
    PROVE  \A e \in Emails : /\ account[e].exists => account'[e].exists
                             /\ account[e].exists /\ account[e].typed => account'[e].typed
                             /\ account[e].exists /\ account[e].sealed => account'[e].sealed
                             /\ account[e].exists /\ account[e].active => account'[e].active
<1>0. call[h].email \in Emails /\ account \in [Emails -> UserDoc]
  BY DEF TypeOK, InvitationsTypeOK, Call
<1> USE <1>0
<1>1. CASE UNCHANGED account
  BY <1>1
<1>2. CASE InsertUser(h)
  BY <1>2 DEF InsertUser, NoUser
<1>3. CASE SaveUserType(h)
  BY <1>3 DEF SaveUserType, UserDoc
<1>4. CASE AttachRole(h)
  BY <1>4, AttachRoleWrite DEF UserDoc
<1>5. CASE SaveUser(h)
  BY <1>5, SaveUserWrite DEF UserDoc
<1>6. CASE ActivateAccount(h)
  BY <1>6 DEF ActivateAccount, UserDoc
<1>7. CASE UpdateLastLogin(h)
  BY <1>7 DEF UpdateLastLogin, UserDoc
<1> QED
  BY <1>1, <1>2, <1>3, <1>4, <1>5, <1>6, <1>7 DEF AcceptanceStep, CallLost, FindUser, accountVars

\* Other steps: no account changes, and a call goes on to build one only after
\* its answer was stored as accepted.
LEMMA OtherAccounts ==
    ASSUME TypeOK, AccountInv, UNCHANGED accountVars, Accepted \subseteq Accepted',
           \A k \in Calls : call'[k].step \in Building =>
               \/ call'[k] = call[k]
               \/ call'[k].step = "findUser" /\ call'[k].email \in Accepted'
    PROVE  AccountInv'
<1>1. AdmittedIsComplete'
  BY DEF AccountInv, AdmittedIsComplete, accountVars
<1>2. ASSUME NEW k \in Calls PROVE AccountMatches(k)'
  <2>1. CASE call'[k].step = "findUser" /\ call'[k].email \in Accepted'
    BY <2>1 DEF AccountMatches, InStep
  <2>2. CASE call'[k].step \in Building /\ call'[k] = call[k]
    BY <2>2 DEF AccountInv, AccountMatches, InStep, accountVars
  <2>3. CASE call'[k].step \notin Building
    BY <2>3 DEF AccountMatches, InStep, Building
  <2> QED BY <2>1, <2>2, <2>3
<1> QED BY <1>1, <1>2 DEF AccountInv

LEMMA BackgroundAccounts ==
    ASSUME TypeOK, AccountInv, Background, UNCHANGED accountVars
    PROVE  AccountInv'
<1>1. UNCHANGED <<call, settled>>
  BY BackgroundWrites
<1>2. Accepted' = Accepted
  BY <1>1 DEF Accepted
<1> QED BY <1>1, <1>2, OtherAccounts

LEMMA StartAccounts ==
    ASSUME TypeOK, AccountInv, NEW h \in Calls, Starts(h), UNCHANGED accountVars
    PROVE  AccountInv'
<1>1. PICK c \in Call : Becomes(h, c) /\ c.step \in {"existing", "find", "findAny"}
  BY StartCall
<1>2. Accepted' = Accepted
  BY DEF Accepted, Starts, NewInvitation, BulkInvitation, StartAnswer, StartResend
<1>3. \A k \in Calls : call'[k].step \in Building => call'[k] = call[k]
  BY <1>1, Others DEF Building
<1> QED BY <1>2, <1>3, OtherAccounts

\* Only the answer that was stored as accepted goes on to the account.
LEMMA StepToAccount ==
    ASSUME TypeOK, TokenInv, NEW h \in Calls, InvitationStep(h)
    PROVE  /\ Accepted \subseteq Accepted'
           /\ call'[h].step \in Building =>
                 call'[h].step = "findUser" /\ call'[h].email \in Accepted'
<1>0. call[h] \in Call
  BY DEF TypeOK, InvitationsTypeOK
<1>1. StepWrites(h)
  BY StepWriting
<1>2. settled \subseteq settled'
  BY <1>1 DEF StepWrites
<1>3. Accepted \subseteq Accepted'
  BY <1>2 DEF Accepted
<1>4. PICK c : Becomes(h, c)
  BY StepCall
<1>5. call'[h] = c
  BY <1>4, Others
<1>6. CASE c.step \notin Building
  BY <1>3, <1>5, <1>6
<1>7. CASE c.step \in Building
  <2>1. IdleCall.step \notin Building
    BY DEF IdleCall, Building
  <2>2. ~Finish(h)
    BY <1>5, <1>7, <2>1, Others DEF Finish
  <2>3. ~NextInvitee(h)
    <3>1. \A e, es : [call[h] EXCEPT !.step = "existing", !.email = e, !.rest = es,
                                     !.token = NoToken].step \notin Building
      BY <1>0 DEF Call, Building
    <3>2. ASSUME NEW e, NEW es,
                 Becomes(h, [call[h] EXCEPT !.step = "existing", !.email = e, !.rest = es,
                                            !.token = NoToken])
          PROVE  FALSE
      <4> DEFINE n == [call[h] EXCEPT !.step = "existing", !.email = e, !.rest = es,
                                      !.token = NoToken]
      <4>1. call'[h] = n
        BY <3>2, Others
      <4>2. n.step \notin Building
        BY <3>1
      <4> QED BY <1>5, <1>7, <4>1, <4>2
    <3> QED BY <2>2, <3>2 DEF NextInvitee
  <2>4. ~GoTo(h, "token")
    <3>1. [call[h] EXCEPT !.step = "token"].step \notin Building
      BY <1>0 DEF Call, Building
    <3> QED BY <1>5, <1>7, <3>1, Others DEF GoTo
  <2>5. ~CheckExisting(h)
    BY <2>3, <2>4 DEF CheckExisting
  <2>6. \A t : \A step \in {"create", "renew"} :
            ~Becomes(h, [call[h] EXCEPT !.token = t, !.step = step])
    <3>1. \A t : \A step \in {"create", "renew"} :
              [call[h] EXCEPT !.token = t, !.step = step].step \notin Building
      BY <1>0 DEF Call, Building
    <3> QED BY <1>5, <1>7, <3>1, Others
  <2>7. ~GenerateToken(h) /\ ~GenerateNewToken(h)
    BY <2>2, <2>3, <2>6 DEF GenerateToken, GenerateNewToken
  <2>8. ~CreateInvite(h) /\ ~SaveExpired(h) /\ ~SaveRenewed(h)
    BY <2>2, <2>3 DEF CreateInvite, SaveExpired, SaveRenewed
  <2>9. ~FindPending(h)
    <3>1. \A i : \A step \in {"expire", "answer"} :
              [call[h] EXCEPT !.doc = i, !.step = step].step \notin Building
      BY <1>0 DEF Call, Building
    <3>2. \A i : \A step \in {"expire", "answer"} :
              ~Becomes(h, [call[h] EXCEPT !.doc = i, !.step = step])
      BY <1>5, <1>7, <3>1, Others
    <3> QED BY <2>2, <3>2 DEF FindPending
  <2>10. ~FindAny(h)
    <3>1. \A i, s : \A step \in {"expireFirst", "newToken"} :
              [call[h] EXCEPT !.doc = i, !.status = s, !.step = step].step \notin Building
      BY <1>0 DEF Call, Building
    <3>2. ASSUME NEW i, NEW s, NEW step \in {"expireFirst", "newToken"},
                 Becomes(h, [call[h] EXCEPT !.doc = i, !.status = s, !.step = step])
          PROVE  FALSE
      <4> DEFINE n == [call[h] EXCEPT !.doc = i, !.status = s, !.step = step]
      <4>1. call'[h] = n
        BY <3>2, Others
      <4>2. n.step \notin Building
        BY <3>1
      <4> QED BY <1>5, <1>7, <4>1, <4>2
    <3> QED BY <2>2, <3>2 DEF FindAny
  <2>11. ~SaveExpiredFirst(h)
    <3>1. [call[h] EXCEPT !.step = "newToken", !.status = "EXPIRED"].step \notin Building
      BY <1>0 DEF Call, Building
    <3>2. ~Becomes(h, [call[h] EXCEPT !.step = "newToken", !.status = "EXPIRED"])
      BY <1>5, <1>7, <3>1, Others
    <3> QED BY <2>2, <3>2 DEF SaveExpiredFirst
  <2>12. SaveAnswer(h)
    BY <2>5, <2>7, <2>8, <2>9, <2>10, <2>11 DEF InvitationStep
  <2> DEFINE e == invite[call[h].doc].email
             r == [doc |-> call[h].doc, token |-> call[h].token, email |-> e,
                   status |-> call[h].status]
  <2>13. /\ InStep(h, "answer") /\ call[h].joins
         /\ settled' = settled \cup {r}
         /\ Becomes(h, [IdleCall EXCEPT !.step = "findUser", !.joins = TRUE, !.email = e])
    BY <2>2, <2>12 DEF SaveAnswer
  <2>14. call'[h].step = "findUser" /\ call'[h].email = e
    <3> HIDE DEF e
    <3> DEFINE n == [IdleCall EXCEPT !.step = "findUser", !.joins = TRUE, !.email = e]
    <3>1. n.step = "findUser" /\ n.email = e
      BY DEF IdleCall
    <3>2. call'[h] = n
      BY <2>13, Others
    <3> QED BY <3>1, <3>2
  <2>15. r.status = "ACCEPTED" /\ r.email = e
    BY <2>13 DEF TokenInv, AsksToAnswer, InStep
  <2>16. e \in Emails
    BY DEF TypeOK, InvitationsTypeOK, Call, InviteDoc
  <2> HIDE DEF r, e
  <2>17. e \in Accepted'
    BY <2>13, <2>15, <2>16 DEF Accepted
  <2> QED BY <1>3, <2>14, <2>17
<1> QED BY <1>6, <1>7

LEMMA InvitationStepAccounts ==
    ASSUME TypeOK, TokenInv, AccountInv, NEW h \in Calls, InvitationStep(h),
           UNCHANGED accountVars
    PROVE  AccountInv'
<1>1. \A k \in Calls \ {h} : call'[k] = call[k]
  BY StepCall, Others
<1> QED BY <1>1, StepToAccount, OtherAccounts

LEMMA AcceptanceStepAccounts ==
    ASSUME TypeOK, AccountInv, NEW h \in Calls, AcceptanceStep(h) \/ CallLost(h)
    PROVE  AccountInv'
<1> DEFINE e == call[h].email
<1>0. call[h] \in Call /\ e \in Emails /\ account \in [Emails -> UserDoc]
      /\ admitted \subseteq Emails
  BY DEF TypeOK, InvitationsTypeOK, Call
<1>1. Accepted' = Accepted
  BY DEF Accepted, AcceptanceStep, CallLost, FindUser, InsertUser, SaveUserType, AttachRole,
         SaveUser, ActivateAccount, UpdateLastLogin
<1>g. ASSUME NEW step, GoTo(h, step)
      PROVE  call'[h].step = step /\ call'[h].email = e
             /\ \A k \in Calls \ {h} : call'[k] = call[k]
  BY <1>0, <1>g, Others DEF GoTo, Call
<1>f. ASSUME Finish(h)
      PROVE  call'[h].step = "idle" /\ \A k \in Calls \ {h} : call'[k] = call[k]
  BY <1>f, Others DEF Finish, IdleCall
<1>2. AccountMatches(h) /\ AdmittedIsComplete
  BY DEF AccountInv
<1>3. \A k \in Calls \ {h} : call'[k] = call[k]
  BY <1>g, <1>f DEF AcceptanceStep, CallLost, FindUser, InsertUser, SaveUserType, AttachRole,
         SaveUser, ActivateAccount, UpdateLastLogin
<1>4. AccountMatches(h)'
  <2>1. CASE Finish(h)
    BY <1>f, <2>1 DEF AccountMatches, InStep
  <2>2. CASE FindUser(h) /\ GoTo(h, "insertUser")
    BY <1>1, <1>2, <1>g, <2>2 DEF FindUser, AccountMatches, InStep
  <2>3. CASE InsertUser(h) /\ ~Finish(h)
    BY <1>0, <1>g, <2>3 DEF InsertUser, AccountMatches, InStep, NoUser
  <2>4. CASE SaveUserType(h) /\ ~Finish(h)
    BY <1>0, <1>2, <1>g, <2>4 DEF SaveUserType, AccountMatches, InStep, UserDoc
  <2>5. CASE AttachRole(h)
    <3>1. InStep(h, "role") /\ call'[h].step = "save" /\ call'[h].email = e
      BY <1>g, <2>5 DEF AttachRole
    <3>2. account'[e].exists /\ account'[e].typed
      BY <1>0, <1>2, <2>5, <3>1, AttachRoleWrite DEF AccountMatches, InStep
    <3> QED BY <3>1, <3>2 DEF AccountMatches, InStep
  <2>6. CASE SaveUser(h) /\ ~Finish(h)
    <3>1. InStep(h, "save") /\ call'[h].step = "activate" /\ call'[h].email = e
      BY <1>g, <2>6 DEF SaveUser
    <3>2. account' = [account EXCEPT ![e] =
              [account[e] EXCEPT !.sealed = TRUE,
                                 !.role = account[e].role \/ h \in attached]]
      BY <2>6 DEF SaveUser
    <3>3. account'[e].sealed
      BY <1>0, <3>2 DEF UserDoc
    <3>4. account'[e].exists /\ account'[e].typed
      BY <1>0, <1>2, <2>6, <3>1, SaveUserWrite DEF AccountMatches, InStep
    <3> QED BY <3>1, <3>3, <3>4 DEF AccountMatches, InStep
  <2>7. CASE ActivateAccount(h) /\ ~Finish(h)
    BY <1>0, <1>2, <1>g, <2>7 DEF ActivateAccount, AccountMatches, InStep, UserDoc
  <2> QED
    BY <2>1, <2>2, <2>3, <2>4, <2>5, <2>6, <2>7
       DEF AcceptanceStep, CallLost, FindUser, UpdateLastLogin, InsertUser
<1>5. ASSUME NEW k \in Calls \ {h} PROVE AccountMatches(k)'
  <2>1. AccountMatches(k) /\ call'[k] = call[k] /\ call[k].email \in Emails
    BY <1>3, <1>5 DEF AccountInv, TypeOK, InvitationsTypeOK, Call
  <2> QED BY <1>1, <2>1, AccountGrows DEF AccountMatches, InStep
<1>6. AdmittedIsComplete'
  <2>1. CASE UNCHANGED admitted
    BY <1>0, <1>2, <2>1, AccountGrows DEF AdmittedIsComplete
  <2>2. CASE ~UNCHANGED admitted
    <3>1. UpdateLastLogin(h) /\ admitted' = admitted \cup {e} /\ InStep(h, "lastLogin")
      BY <2>2 DEF AcceptanceStep, CallLost, FindUser, InsertUser, SaveUserType, AttachRole,
                  SaveUser, ActivateAccount, UpdateLastLogin, accountVars
    <3>2. account[e].exists /\ account[e].typed /\ account[e].sealed /\ account[e].active
      BY <1>2, <3>1 DEF AccountMatches, InStep
    <3> QED BY <1>0, <1>2, <3>1, <3>2, AccountGrows DEF AdmittedIsComplete
  <2> QED BY <2>1, <2>2
<1> QED BY <1>4, <1>5, <1>6 DEF AccountInv

----------------------------------------------------------------------------
(* The theorems *)

LEMMA InitInv == Init => IInv
<1> SUFFICES ASSUME Init PROVE IInv
  OBVIOUS
<1>1. TypeOK
  BY InitType
<1>2. \A h \in Calls : call[h].step = "idle"
  BY DEF Init, InvitationsInit, IdleCall
<1>3. \A i \in Invites : ~Stored(i)
  BY DEF Init, InvitationsInit, UnusedInvite, Stored, Statuses, Answers
<1>4. settled = {} /\ Spent = {} /\ admitted = {}
  BY DEF Init, InvitationsInit, Spent
<1>5. TokenInv
  BY <1>2, <1>3, <1>4
     DEF TokenInv, HeldIsNew, Holds, AsksToAnswer, AnswersItsOwn, InStep, StoredIsIssued,
         TokensDiffer, UsedTokenIsDead
<1>6. MarkInv
  BY <1>4 DEF MarkInv, SettledWasUsed, AnsweredLeavesMark
<1>7. AccountInv
  BY <1>2, <1>4 DEF AccountInv, AdmittedIsComplete, AccountMatches, InStep
<1> QED BY <1>1, <1>5, <1>6, <1>7 DEF IInv

LEMMA AcceptanceStepRest ==
    ASSUME TypeOK, TokenInv, MarkInv, NEW h \in Calls, AcceptanceStep(h) \/ CallLost(h)
    PROVE  TokenInv' /\ MarkInv'
<1>0. call[h] \in Call
  BY DEF TypeOK, InvitationsTypeOK
<1>1. UNCHANGED <<invite, issued, settled>>
  BY DEF AcceptanceStep, CallLost, FindUser, InsertUser, SaveUserType, AttachRole, SaveUser,
         ActivateAccount, UpdateLastLogin
<1>2. ASSUME NEW step \in {"insertUser", "userType", "role", "save", "activate", "lastLogin"},
             GoTo(h, step)
      PROVE  \E c : Becomes(h, c) /\ c.step \notin Minding
  <2>1. [call[h] EXCEPT !.step = step].step \notin Minding
    BY <1>0 DEF Call, Minding
  <2> QED BY <1>2, <2>1 DEF GoTo
<1>3. \E c : Becomes(h, c) /\ c.step \notin Minding
  BY <1>2, CalmEnds
     DEF AcceptanceStep, CallLost, FindUser, InsertUser, SaveUserType, AttachRole, SaveUser,
         ActivateAccount, UpdateLastLogin
<1>4. TokenInv'
  BY <1>1, <1>3, CalmCall
<1>5. MarkInv'
  BY <1>1, MarkStep DEF Stored
<1> QED BY <1>4, <1>5

LEMMA StepInv == IInv /\ [Next]_vars => IInv'
<1> SUFFICES ASSUME IInv, [Next]_vars PROVE IInv'
  OBVIOUS
<1> USE DEF IInv
<1>1. ASSUME NEW h \in Calls, Starts(h), Begins, UNCHANGED accountVars PROVE IInv'
  <2>1. UNCHANGED <<invite, settled>>
    BY <1>1 DEF Starts, NewInvitation, BulkInvitation, StartAnswer, StartResend
  <2>2. MarkInv'
    BY <2>1, MarkStep DEF Stored
  <2> QED BY <1>1, <2>2, StartType, StartTokens, StartAccounts
<1>2. ASSUME NEW h \in Calls, InvitationStep(h), UNCHANGED <<accountVars, begun>> PROVE IInv'
  <2>1. InStep(h, "answer") => call[h].status \in Answers /\ call[h].token \in Tokens
    BY DEF TokenInv, AsksToAnswer, InStep, TypeOK, InvitationsTypeOK
  <2>2. TypeOK'
    BY <1>2, <2>1, InvitationStepType
  <2> QED
    BY <1>2, <2>2, InvitationStepTokens, InvitationStepMarks, InvitationStepAccounts
<1>3. ASSUME NEW h \in Calls, AcceptanceStep(h) \/ CallLost(h) PROVE IInv'
  BY <1>3, AcceptanceStepType, AcceptanceStepRest, AcceptanceStepAccounts
<1>4. CASE Background /\ UNCHANGED <<accountVars, begun>>
  <2>1. TypeOK'
    BY <1>4, BackgroundWrites DEF TypeOK, InvitationsTypeOK, accountVars
  <2> QED BY <1>4, <2>1, BackgroundTokens, BackgroundMarks, BackgroundAccounts
<1>5. CASE UNCHANGED vars
  <2>1. TypeOK'
    BY <1>5 DEF vars, TypeOK, InvitationsTypeOK
  <2>2. UNCHANGED <<call, invite, issued, settled, accountVars>>
    BY <1>5 DEF vars, accountVars
  <2>3. TokenInv'
    BY <2>2, CalmStep DEF Stored
  <2>4. MarkInv'
    BY <2>2, MarkStep DEF Stored
  <2>5. Accepted' = Accepted
    BY <2>2 DEF Accepted
  <2>6. AccountInv'
    BY <2>2, <2>5, OtherAccounts
  <2> QED BY <2>1, <2>3, <2>4, <2>6
<1> QED BY <1>1, <1>2, <1>3, <1>4, <1>5 DEF Next

\* For any documents, emails, tokens, calls and bounds, the state stays in the
\* types and each part of the inductive invariant holds.
THEOREM InvitationsInv == Spec => []IInv
<1>1. Init => IInv
  BY InitInv
<1>2. IInv /\ [Next]_vars => IInv'
  BY StepInv
<1> QED BY <1>1, <1>2, PTL DEF Spec

\* The collection, the calls and the accounts keep their types.
THEOREM InvitationTypes == Spec => []TypeOK
<1>1. IInv => TypeOK
  BY DEF IInv
<1> QED BY <1>1, InvitationsInv, PTL

\* No look-up finds a pending invitation by a token that was answered.
THEOREM UsedTokens == Spec => []UsedTokenIsDead
<1>1. IInv => UsedTokenIsDead
  BY DEF IInv, TokenInv
<1> QED BY <1>1, InvitationsInv, PTL

\* Each answer given keeps its time stamp on the document.
THEOREM AnswersMark == Spec => []AnsweredLeavesMark
<1>1. IInv => AnsweredLeavesMark
  BY DEF IInv, MarkInv
<1> QED BY <1>1, InvitationsInv, PTL

\* Who was told 201 has an active account of the invited type, sealed.
THEOREM AdmittedAccounts == Spec => []AdmittedIsComplete
<1>1. IInv => AdmittedIsComplete
  BY DEF IInv, AccountInv
<1> QED BY <1>1, InvitationsInv, PTL

----------------------------------------------------------------------------
(* The ledger *)

\* A document that is pending with a token now was so before, or got it now.
LEMMA OpenAfter ==
    ASSUME NEW new,
           \A i \in Invites : Stored(i)' /\ invite'[i].status = "PENDING" =>
               \/ invite'[i].token = new
               \/ /\ Stored(i) /\ invite[i].status = "PENDING"
                  /\ invite[i].token = invite'[i].token
    PROVE  Open' \subseteq Open \cup {new}
<1> SUFFICES ASSUME NEW t \in Open', t # new PROVE t \in Open
  OBVIOUS
<1>1. PICK i \in Invites : Stored(i)' /\ invite'[i].status = "PENDING" /\ invite'[i].token = t
  BY DEF Open, PendingWithToken, WithToken
<1>2. Stored(i) /\ invite[i].status = "PENDING" /\ invite[i].token = t
  BY <1>1
<1> QED BY <1>2 DEF Open, PendingWithToken, WithToken

LEMMA OpenShrinks ==
    ASSUME \A i \in Invites : Stored(i)' /\ invite'[i].status = "PENDING" =>
               /\ Stored(i) /\ invite[i].status = "PENDING"
               /\ invite[i].token = invite'[i].token
    PROVE  Open' \subseteq Open
BY DEF Open, PendingWithToken, WithToken

LEMMA LedgerInit == Init => Ledger!Init
<1> SUFFICES ASSUME Init PROVE Ledger!Init
  OBVIOUS
<1>1. Open = {}
  BY DEF Init, InvitationsInit, UnusedInvite, Open, PendingWithToken, WithToken, Stored,
         Statuses, Answers
<1>2. Spent = {} /\ Accepted = {} /\ admitted = {}
  BY DEF Init, InvitationsInit, Spent, Accepted
<1>3. Opened = {}
  BY DEF Init, Opened, NoUser
<1> QED BY <1>1, <1>2, <1>3 DEF Ledger!Init

\* The writes of the service's own steps.
LEMMA InvitationStepLedger ==
    ASSUME IInv, IInv', NEW h \in Calls, InvitationStep(h), UNCHANGED accountVars
    PROVE  [Ledger!Next]_(Ledger!vars)
<1>0. TypeOK /\ TokenInv /\ TokenInv'
  BY DEF IInv
<1>c. call[h] \in Call /\ call[h].doc \in Invites /\ \A i \in Invites : invite[i] \in InviteDoc
  BY <1>0 DEF TypeOK, InvitationsTypeOK, Call
<1>1. StepWrites(h)
  BY StepWriting
<1>2. Opened' = Opened /\ admitted' = admitted
  BY DEF Opened, accountVars
<1>s. ASSUME UNCHANGED settled PROVE Spent' = Spent /\ Accepted' = Accepted
  BY <1>s DEF Spent, Accepted
<1>w. ASSUME Open' \subseteq Open, UNCHANGED settled PROVE Ledger!Next
  BY <1>2, <1>s, <1>w DEF Ledger!Next, Ledger!Withdraw
<1>t. ASSUME NEW t \in Tokens, t \notin Spent, t \in Open', Open' \subseteq Open \cup {t},
             UNCHANGED settled
      PROVE  Ledger!Next
  <2> DEFINE gone == Open \ Open'
  <2>1. gone \in SUBSET Open /\ Open' = (Open \ gone) \cup {t}
    BY <1>t
  <2> QED BY <1>2, <1>s, <1>t, <2>1 DEF Ledger!Next, Ledger!Exchange
<1>3. CASE UNCHANGED <<invite, settled>>
  <2>1. Open' = Open
    BY <1>3 DEF Open, PendingWithToken, WithToken, Stored
  <2> QED BY <1>2, <1>3, <1>s, <2>1 DEF Ledger!vars
<1>4. CASE \E i \in Invites :
              /\ InStep(h, "create") /\ invite[i].status = "unused"
              /\ invite' = [invite EXCEPT ![i] =
                    [UnusedInvite EXCEPT !.status = "PENDING", !.email = call[h].email,
                         !.resource = call[h].resource, !.token = call[h].token]]
              /\ UNCHANGED settled
  <2> DEFINE d == [UnusedInvite EXCEPT !.status = "PENDING", !.email = call[h].email,
                         !.resource = call[h].resource, !.token = call[h].token]
             t == call[h].token
  <2>1. PICK i \in Invites : InStep(h, "create") /\ invite' = [invite EXCEPT ![i] = d]
    BY <1>4
  <2>2. d.status = "PENDING" /\ d.token = t
    BY DEF UnusedInvite
  <2> HIDE DEF d
  <2>3. invite'[i] = d /\ \A j \in Invites \ {i} : invite'[j] = invite[j]
    BY <1>0, <2>1 DEF TypeOK, InvitationsTypeOK
  <2>4. t \in issued /\ t \notin Spent
    BY <1>0, <2>1 DEF TokenInv, HeldIsNew, Holds, InStep
  <2>5. t \in Tokens
    BY <1>0, <2>4 DEF TypeOK, InvitationsTypeOK
  <2>6. Open' \subseteq Open \cup {t}
    BY <2>2, <2>3, OpenAfter DEF Stored
  <2>7. t \in Open'
    BY <2>2, <2>3, <2>5 DEF Open, PendingWithToken, WithToken, Stored, Statuses
  <2> QED BY <1>4, <1>t, <2>4, <2>5, <2>6, <2>7
<1>5. CASE /\ Stored(call[h].doc)
           /\ invite' = [invite EXCEPT ![call[h].doc].status = "EXPIRED"]
           /\ UNCHANGED settled
  <2>1. \A i \in Invites : Stored(i)' /\ invite'[i].status = "PENDING" =>
               /\ Stored(i) /\ invite[i].status = "PENDING"
               /\ invite[i].token = invite'[i].token
    BY <1>0, <1>c, <1>5 DEF Stored, InviteDoc, TypeOK, InvitationsTypeOK
  <2> QED BY <1>5, <1>w, <2>1, OpenShrinks
<1>6. CASE /\ InStep(h, "renew") /\ Stored(call[h].doc)
           /\ invite' = [invite EXCEPT ![call[h].doc] = Renewed(@, call[h])]
           /\ UNCHANGED settled
  <2> DEFINE i == call[h].doc
             d == Renewed(invite[i], call[h])
             t == call[h].token
  <2>1. d.token = t /\ d.status \in {invite[i].status, "PENDING"}
    BY <1>c DEF Renewed, InviteDoc
  <2> HIDE DEF d
  <2>2. invite'[i] = d /\ \A j \in Invites \ {i} : invite'[j] = invite[j]
    BY <1>0, <1>c, <1>6 DEF TypeOK, InvitationsTypeOK, d
  <2>3. t \in issued /\ t \notin Spent
    BY <1>0, <1>6 DEF TokenInv, HeldIsNew, Holds, InStep
  <2>4. t \in Tokens
    BY <1>0, <2>3 DEF TypeOK, InvitationsTypeOK
  <2>5. Open' \subseteq Open \cup {t}
    BY <2>1, <2>2, OpenAfter DEF Stored
  <2>6. CASE t \in Open'
    BY <1>6, <1>t, <2>3, <2>4, <2>5, <2>6
  <2>7. CASE t \notin Open'
    BY <1>6, <1>w, <2>5, <2>7
  <2> QED BY <2>6, <2>7
<1>7. CASE /\ InStep(h, "answer") /\ Stored(call[h].doc)
           /\ invite' = [invite EXCEPT ![call[h].doc] = Stamped(@, call[h].status)]
           /\ settled' = settled \cup {[doc |-> call[h].doc, token |-> call[h].token,
                            email |-> invite[call[h].doc].email, status |-> call[h].status]}
  <2> DEFINE i == call[h].doc
             t == call[h].token
             e == invite[i].email
             d == Stamped(invite[i], call[h].status)
             r == [doc |-> i, token |-> t, email |-> e, status |-> call[h].status]
  <2>1. r.token = t /\ r.email = e /\ settled' = settled \cup {r}
    BY <1>7
  <2>2. d.token = invite[i].token /\ d.status = call[h].status
    BY <1>c DEF Stamped, InviteDoc
  <2>3. d.status # "PENDING" /\ t \in Tokens /\ e \in Emails
    BY <1>0, <1>c, <1>7, <2>2
       DEF TokenInv, AsksToAnswer, InStep, Answers, TypeOK, InvitationsTypeOK, InviteDoc
  <2> HIDE DEF r, d
  <2>4. invite'[i] = d /\ \A j \in Invites \ {i} : invite'[j] = invite[j]
    BY <1>0, <1>c, <1>7 DEF TypeOK, InvitationsTypeOK, d
  <2>5. Open' \subseteq Open
    BY <2>3, <2>4, OpenShrinks DEF Stored
  <2>6. Spent' = Spent \cup {t}
    BY <2>1 DEF Spent
  <2>7. t \notin Open'
    BY <1>0, <2>6 DEF TokenInv, UsedTokenIsDead, Open
  <2>8. \E es \in SUBSET Emails : Accepted' = Accepted \cup es
    <3>1. CASE r.status = "ACCEPTED"
      <4>1. Accepted' = Accepted \cup {e}
        BY <2>1, <2>3, <3>1 DEF Accepted
      <4> QED BY <2>3, <4>1
    <3>2. CASE r.status # "ACCEPTED"
      <4>1. Accepted' = Accepted \cup {}
        BY <2>1, <3>2 DEF Accepted
      <4> QED BY <4>1
    <3> QED BY <3>1, <3>2
  <2>9. Ledger!Answer(t)
    BY <1>2, <2>5, <2>6, <2>7, <2>8 DEF Ledger!Answer
  <2> QED BY <2>3, <2>9 DEF Ledger!Next
<1> QED BY <1>1, <1>3, <1>4, <1>5, <1>6, <1>7 DEF StepWrites

\* The steps after the invitation open and admit.
LEMMA AcceptanceStepLedger ==
    ASSUME IInv, NEW h \in Calls, AcceptanceStep(h) \/ CallLost(h)
    PROVE  [Ledger!Next]_(Ledger!vars)
<1> DEFINE e == call[h].email
<1>0. TypeOK /\ e \in Emails /\ account \in [Emails -> UserDoc] /\ AccountMatches(h)
  BY DEF IInv, AccountInv, TypeOK, InvitationsTypeOK, Call
<1>1. UNCHANGED <<invite, settled>>
  BY DEF AcceptanceStep, CallLost, FindUser, InsertUser, SaveUserType, AttachRole, SaveUser,
         ActivateAccount, UpdateLastLogin
<1>2. Open' = Open /\ Spent' = Spent /\ Accepted' = Accepted
  BY <1>1 DEF Open, PendingWithToken, WithToken, Stored, Spent, Accepted
<1>3. CASE InsertUser(h) /\ ~UNCHANGED account
  <2>1. account' = [account EXCEPT ![e] = [NoUser EXCEPT !.exists = TRUE]]
        /\ InStep(h, "insertUser") /\ admitted' = admitted
    BY <1>3 DEF InsertUser
  <2>2. e \in Accepted
    BY <1>0, <2>1 DEF AccountMatches, InStep
  <2>3. Opened' = Opened \cup {e}
    BY <1>0, <2>1 DEF Opened, NoUser
  <2>4. Ledger!OpenAccount(e)
    BY <1>2, <2>1, <2>2, <2>3 DEF Ledger!OpenAccount
  <2> QED BY <1>0, <2>4 DEF Ledger!Next
<1>4. ASSUME \A x \in Emails : account'[x].exists <=> account[x].exists
      PROVE  Opened' = Opened
  BY <1>4 DEF Opened
<1>5. CASE UpdateLastLogin(h)
  <2>1. Opened' = Opened
    BY <1>0, <1>4, <1>5 DEF UpdateLastLogin, UserDoc
  <2>2. CASE admitted' = admitted
    BY <1>2, <2>1, <2>2 DEF Ledger!vars
  <2>3. CASE admitted' = admitted \cup {e}
    <3>1. e \in Opened
      BY <1>0, <1>5 DEF UpdateLastLogin, AccountMatches, InStep, Opened
    <3>2. Ledger!Admit(e)
      BY <1>2, <2>1, <2>3, <3>1 DEF Ledger!Admit
    <3> QED BY <1>0, <3>2 DEF Ledger!Next
  <2> QED BY <1>5, <2>2, <2>3 DEF UpdateLastLogin
<1>6. ASSUME Opened' = Opened, admitted' = admitted PROVE UNCHANGED Ledger!vars
  BY <1>2, <1>6 DEF Ledger!vars
<1>7. CASE UNCHANGED <<account, admitted>>
  BY <1>6, <1>7 DEF Opened
<1>8. CASE SaveUserType(h)
  BY <1>0, <1>4, <1>6, <1>8 DEF SaveUserType, UserDoc
<1>9. CASE AttachRole(h)
  <2>1. admitted' = admitted
    BY <1>9 DEF AttachRole
  <2> QED BY <1>0, <1>4, <1>6, <1>9, <2>1, AttachRoleWrite
<1>10. CASE SaveUser(h)
  <2>1. admitted' = admitted
    BY <1>10 DEF SaveUser
  <2> QED BY <1>0, <1>4, <1>6, <1>10, <2>1, SaveUserWrite
<1>11. CASE ActivateAccount(h)
  BY <1>0, <1>4, <1>6, <1>11 DEF ActivateAccount, UserDoc
<1>12. CASE InsertUser(h) /\ UNCHANGED account
  BY <1>7, <1>12 DEF InsertUser
<1> QED
  BY <1>3, <1>5, <1>7, <1>8, <1>9, <1>10, <1>11, <1>12
     DEF AcceptanceStep, CallLost, FindUser, accountVars

LEMMA StepLedger == IInv /\ IInv' /\ [Next]_vars => [Ledger!Next]_(Ledger!vars)
<1> SUFFICES ASSUME IInv, IInv', [Next]_vars PROVE [Ledger!Next]_(Ledger!vars)
  OBVIOUS
<1>s. ASSUME UNCHANGED <<invite, settled, accountVars>> PROVE UNCHANGED Ledger!vars
  BY <1>s DEF Ledger!vars, Open, PendingWithToken, WithToken, Stored, Spent, Accepted, Opened,
              accountVars
<1>1. ASSUME NEW h \in Calls, Starts(h), UNCHANGED accountVars
      PROVE  UNCHANGED Ledger!vars
  BY <1>s, <1>1 DEF Starts, NewInvitation, BulkInvitation, StartAnswer, StartResend
<1>2. ASSUME NEW h \in Calls, InvitationStep(h), UNCHANGED accountVars
      PROVE  [Ledger!Next]_(Ledger!vars)
  BY <1>2, InvitationStepLedger
<1>3. ASSUME NEW h \in Calls, AcceptanceStep(h) \/ CallLost(h)
      PROVE  [Ledger!Next]_(Ledger!vars)
  BY <1>3, AcceptanceStepLedger
<1>4. CASE Background /\ UNCHANGED accountVars
  <2>1. TypeOK /\ \A i \in Invites : invite[i] \in InviteDoc
    BY DEF IInv, TypeOK, InvitationsTypeOK
  <2>2. \A i \in Invites : Stored(i)' /\ invite'[i].status = "PENDING" =>
               /\ Stored(i) /\ invite[i].status = "PENDING"
               /\ invite[i].token = invite'[i].token
    BY <1>4, <2>1, BackgroundWrites DEF InviteDoc, Stored
  <2>3. Open' \subseteq Open
    BY <2>2, OpenShrinks
  <2>4. UNCHANGED settled
    BY <1>4, <2>1, BackgroundWrites
  <2>5. Ledger!Withdraw
    BY <1>4, <2>3, <2>4 DEF Ledger!Withdraw, Spent, Accepted, Opened, accountVars
  <2> QED BY <2>5 DEF Ledger!Next
<1>5. CASE UNCHANGED vars
  BY <1>s, <1>5 DEF vars, accountVars
<1> QED BY <1>1, <1>2, <1>3, <1>4, <1>5 DEF Next

\* Documents, calls, failures and jobs keep the promises of InvitationLedger.
THEOREM InvitationRefinement == Spec => KeepsLedger
<1>1. Init => Ledger!Init
  BY LedgerInit
<1>2. IInv /\ IInv' /\ [Next]_vars => [Ledger!Next]_(Ledger!vars)
  BY StepLedger
<1> QED BY <1>1, <1>2, InvitationsInv, PTL DEF Spec, KeepsLedger, Ledger!Spec
=============================================================================
