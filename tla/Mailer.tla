-------------------------------- MODULE Mailer --------------------------------
(***************************************************************************)
(* The emails (email.service.ts, job.ts, email.job.ts, email.worker.ts).   *)
(* A handler that mails answers as soon as addJob returns, and addJob does *)
(* not wait for Redis: the job is stored, or not, some time later.  The    *)
(* worker renders the template and hands the mail to the mail service.     *)
(***************************************************************************)
EXTENDS JobQueues

CONSTANTS
    Emails,                     \* calls of the send... methods
    Kinds,                      \* the kinds of mail they send
    MailIds,                    \* what Random.randomCode(6) can return
    MailAttempts                \* the attempts of addJob's default options

VARIABLES
    mail                        \* each call: "none", the kind of mail it was
                                \* accepted with, then "stored" or "lost"

MailQueue == "emails:send"
MailJob == "emails"

----------------------------------------------------------------------------
(* The templates *)

\* switchOtpTemplate, for the mails that carry a code
OtpTemplate ==
    [register |-> "verify-email", verify |-> "verify-email", login |-> "generic",
     passwordReset |-> "password-reset", changePassword |-> "password-changed"]

\* The literal in the method of every other kind
NoticeTemplate ==
    [welcome |-> "welcome", passwordChanged |-> "password-changed",
     resetNotice |-> "password-reset", invitation |-> "invite",
     scholarshipApproved |-> "scholarship-approved",
     enrollmentConfirmed |-> "course-enrollment-confirmed"]

Template ==
    [k \in DOMAIN OtpTemplate \cup DOMAIN NoticeTemplate |->
        IF k \in DOMAIN OtpTemplate THEN OtpTemplate[k] ELSE NoticeTemplate[k]]

\* dispatch chooses the folder by parts of the template's name.
TemplateFolder(template) ==
    IF template \in {"scholarship-approved", "course-enrollment-confirmed"}
    THEN "transactional" ELSE "authentication"

\* The templates of the two folders of src/views/emails that some kind uses
TemplateFiles ==
    ({"authentication"} \X {"verify-email", "generic", "password-reset",
                            "password-changed", "welcome"})
    \cup ({"transactional"} \X {"scholarship-approved", "course-enrollment-confirmed"})

Renders(k) == <<TemplateFolder(Template[k]), Template[k]>> \in TemplateFiles

ASSUME MailerAssumption ==
    /\ MailIds \subseteq JobIds
    /\ Kinds \subseteq DOMAIN Template
    /\ MailAttempts \in Nat \ {0}

----------------------------------------------------------------------------
(* queueEmailJob and addJob *)

\* The caller goes on, with "202 queued".
QueueEmailJob(e, k) ==
    /\ mail[e] = "none"
    /\ mail' = [mail EXCEPT ![e] = k]
    /\ UNCHANGED queueVars

SendOtpEmail(e) == \E k \in Kinds \cap DOMAIN OtpTemplate : QueueEmailJob(e, k)
SendNotice(e) == \E k \in Kinds \cap DOMAIN NoticeTemplate : QueueEmailJob(e, k)

\* The promise of BullQueue.addJobs, which nobody waits for, settles.
StoreMail(e, ok) ==
    /\ mail[e] \in Kinds
    /\ \E id \in MailIds :
          /\ AddJob(id, NewJob(MailQueue, MailJob, MailAttempts, mail[e]), ok)
          /\ mail' = [mail EXCEPT ![e] =
                IF ok /\ stored[id] = NoJob THEN "stored" ELSE "lost"]

\* startEmailWorker
MailProcessors(queue) == IF queue = MailQueue THEN {MailJob} ELSE {}

LoseAccepted == [e \in Emails |-> IF mail[e] \in Kinds THEN "lost" ELSE mail[e]]

----------------------------------------------------------------------------
(* emailProcessor: sendEmail, dispatch *)

\* A template that is missing, and a service that refuses, are returned as errors.
\* The service may have sent the mail that it answers with an error.
Dispatch(k) ==
    {r \in [sent : BOOLEAN, error : BOOLEAN] :
        (r.sent => Renders(k)) /\ (r.sent \/ r.error)}

\* An error of dispatch is handed on.
SendEmail(k) == Dispatch(k)

\* mutant: the result of sendEmail is not looked at
UncheckedProcessor(id) ==
    /\ stored[id].state = "active"
    /\ \E r \in SendEmail(stored[id].for) : EndRun(id, TRUE, r.sent)
    /\ UNCHANGED mail

\* An error is thrown, for Bull to try again.
EmailProcessor(id) ==
    /\ stored[id].state = "active"
    /\ \E r \in SendEmail(stored[id].for) : EndRun(id, ~r.error, r.sent)
    /\ UNCHANGED mail
=============================================================================
