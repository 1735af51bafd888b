------------------------- MODULE ScholarshipApproval -------------------------
(***************************************************************************)
(* POST /scholarships (ScholarshipService.createScholarship), the delayed *)
(* job it queues in Redis, and the worker that runs the job               *)
(* (processScholarshipApproval under scholarship.job.ts).  Bull retries a *)
(* failed job, and a job whose worker died is stalled and run again; the  *)
(* queue outlives a crash of the server, an application request does not. *)
(***************************************************************************)
EXTENDS CourseLedger

CONSTANTS
    MaxAttempts,                \* defaultJobOptions.attempts
    MaxStalls                   \* Bull's maxStalledCount

ASSUME ApprovalAssumption == MaxAttempts \in Nat \ {0} /\ MaxStalls \in Nat

VARIABLES job                   \* the application request, then its Bull job

\* need: "absent" before the application; "guard", "insert" and "queue" are
\* the awaits of the request, "lost" a request that died; from "waiting" on
\* the Bull job; the others are the awaits of the worker.
JobSteps == {"absent", "guard", "insert", "queue", "lost",
             "waiting", "enrollment", "enroll", "transaction", "record",
             "approve", "notify", "completed", "failed"}

Running == {"enrollment", "enroll", "transaction", "record", "approve", "notify"}

JobDoc == [need: JobSteps, user: Users, course: Courses, amount: Amounts,
           ref: References, attempts: 0..MaxAttempts, stalls: 0..MaxStalls]

ApprovalTypeOK ==
    /\ job \in [Scholarships -> JobDoc]
    /\ \A s \in Scholarships :
          job[s].need \notin {"completed", "failed"} => job[s].attempts < MaxAttempts

ApprovalInit ==
    job = [s \in Scholarships |->
             [need |-> "absent", user |-> AnyUser, course |-> AnyCourse,
              amount |-> AnyAmount, ref |-> 0, attempts |-> 0, stalls |-> 0]]

JobAwaits(s, call) == job' = [job EXCEPT ![s].need = call]

----------------------------------------------------------------------------
(* createScholarship *)

\* An application that is complete.  The course must offer scholarships and be
\* open to enrollment; its status (draft, published, archived) is not asked for.
Apply(s, u, c) ==
    /\ job[s].need = "absent"
    /\ course[c].offers
    /\ job' = [job EXCEPT ![s] = [@ EXCEPT !.need = "guard", !.user = u, !.course = c]]
    /\ UNCHANGED ledger

\* processFilter puts a $ before every "in", the one of the "$in" that
\* getActiveScholarshipByUserAndTarget already wrote included; mongoose
\* refuses the operator "$$in", and findOne answers {error: true}.
ActiveFilterRejected == TRUE

ActiveScholarships(u, c) ==
    {s \in Scholarships : /\ scholarship[s].status \in {"PENDING", "APPROVED"}
                          /\ scholarship[s].user = u
                          /\ scholarship[s].course = c}

\* 409 only when the query succeeds and finds an application.
CheckActiveScholarship(s) ==
    /\ job[s].need = "guard"
    /\ IF /\ ~ActiveFilterRejected
          /\ ActiveScholarships(job[s].user, job[s].course) # {}
       THEN JobAwaits(s, "absent")
       ELSE JobAwaits(s, "insert")
    /\ UNCHANGED ledger

SaveScholarship(s) ==
    /\ job[s].need = "insert"
    /\ \E ok \in BOOLEAN :
          /\ DbCall(ok)
          /\ IF ok
             THEN /\ scholarship' = [scholarship EXCEPT ![s] =
                        [status |-> "PENDING", user |-> job[s].user,
                         course |-> job[s].course]]
                  /\ JobAwaits(s, "queue")
             ELSE UNCHANGED scholarship /\ JobAwaits(s, "absent")
    /\ UNCHANGED <<course, enrollment, tx, charge, now>>

\* queue.add may throw (Redis away): the scholarship stays, without a job.
QueueJob(s) ==
    /\ job[s].need = "queue"
    /\ JobAwaits(s, "waiting") \/ JobAwaits(s, "lost")
    /\ UNCHANGED ledger

----------------------------------------------------------------------------
(* processScholarshipApproval, under Bull *)

\* An error result is thrown to Bull, which queues the job again until its
\* attempts are used up.
Attempted(j, call) == [j EXCEPT !.attempts = @ + 1, !.need = call]

\* mutant: attempts are not counted down
FailJobForever(s) == job' = [job EXCEPT ![s] = Attempted(job[s], "waiting")]

FailJob(s) ==
    \/ /\ job[s].attempts + 1 < MaxAttempts
       /\ job' = [job EXCEPT ![s] = Attempted(job[s], "waiting")]
    \/ /\ job[s].attempts + 1 >= MaxAttempts
       /\ job' = [job EXCEPT ![s] = Attempted(job[s], "failed")]

\* mutant: no look at the status of the application
StartJobAgain(s) ==
    /\ job[s].need = "waiting"
    /\ \E ok \in BOOLEAN :
          /\ DbCall(ok)
          /\ \/ ~ok /\ FailJob(s)
             \/ /\ ok
                /\ job' = [job EXCEPT ![s] =
                     [@ EXCEPT !.need = "enrollment",
                               !.amount = course[job[s].course].scholarshipPrice]]
    /\ UNCHANGED <<course, enrollment, tx, scholarship, charge, now>>

\* An application that is not PENDING any more counts as processed.
StartJob(s) ==
    /\ job[s].need = "waiting"
    /\ \E ok \in BOOLEAN :
          /\ DbCall(ok)
          /\ \/ ~ok /\ FailJob(s)
             \/ /\ ok /\ scholarship[s].status # "PENDING"
                /\ JobAwaits(s, "completed")
             \/ /\ ok /\ scholarship[s].status = "PENDING"
                /\ job' = [job EXCEPT ![s] =
                     [@ EXCEPT !.need = "enrollment",
                               !.amount = course[job[s].course].scholarshipPrice]]
    /\ UNCHANGED <<course, enrollment, tx, scholarship, charge, now>>

\* Any enrollment will do: one of another kind, or one already ACTIVE.
FindEnrollment(s) ==
    /\ job[s].need = "enrollment"
    /\ \E ok \in BOOLEAN :
          /\ DbCall(ok)
          /\ IF ok /\ HasEnrollment(job[s].user, job[s].course)
             THEN JobAwaits(s, "transaction")
             ELSE JobAwaits(s, "enroll")
    /\ UNCHANGED <<course, enrollment, tx, scholarship, charge, now>>

\* mutant: the enrollment is born ACTIVE, like that of a program
SaveActiveEnrollment(s) ==
    LET u == job[s].user
        c == job[s].course
    IN  /\ job[s].need = "enroll"
        /\ CanInsertEnrollment(u, c)
        /\ InsertEnrollment(u, c, "ACTIVE", "SCHOLARSHIP")
        /\ JobAwaits(s, "transaction")
        /\ UNCHANGED <<course, tx, scholarship, charge, now, faults>>

SaveScholarshipEnrollment(s) ==
    LET u == job[s].user
        c == job[s].course
    IN  /\ job[s].need = "enroll"
        /\ \E ok \in BOOLEAN :
              /\ DbCall(ok)
              /\ IF ok /\ CanInsertEnrollment(u, c)
                 THEN /\ InsertEnrollment(u, c, "PENDING", "SCHOLARSHIP")
                      /\ JobAwaits(s, "transaction")
                 ELSE UNCHANGED enrollment /\ FailJob(s)
        /\ UNCHANGED <<course, tx, scholarship, charge, now>>

\* Any pending transaction of the enrollment will do, whatever its amount
\* and its source.
FindTransaction(s) ==
    /\ job[s].need = "transaction"
    /\ \E ok \in BOOLEAN :
          /\ DbCall(ok)
          /\ IF ok /\ PendingTransactions(job[s].user, job[s].course) # {}
             THEN JobAwaits(s, "approve")
             ELSE job' = [job EXCEPT ![s] =
                            [@ EXCEPT !.need = "record", !.ref = now]]
    /\ UNCHANGED <<course, enrollment, tx, scholarship, charge, now>>

\* mutant: the result of createTransaction is not looked at
RecordTransactionUnchecked(s) ==
    LET u == job[s].user
        c == job[s].course
        r == job[s].ref
    IN  /\ job[s].need = "record"
        /\ \E ok \in BOOLEAN :
              /\ DbCall(ok)
              /\ IF ok /\ CanInsertTransaction(r, u, c)
                 THEN InsertTransaction(r, u, c, job[s].amount, FALSE, s)
                 ELSE UNCHANGED tx
        /\ JobAwaits(s, "approve")
        /\ UNCHANGED <<course, enrollment, scholarship, charge, now>>

RecordScholarshipTransaction(s) ==
    LET u == job[s].user
        c == job[s].course
        r == job[s].ref
    IN  /\ job[s].need = "record"
        /\ \E ok \in BOOLEAN :
              /\ DbCall(ok)
              /\ IF ok /\ CanInsertTransaction(r, u, c)
                 THEN /\ InsertTransaction(r, u, c, job[s].amount, FALSE, s)
                      /\ JobAwaits(s, "approve")
                 ELSE UNCHANGED tx /\ FailJob(s)
        /\ UNCHANGED <<course, enrollment, scholarship, charge, now>>

ApproveScholarship(s) ==
    /\ job[s].need = "approve"
    /\ \E ok \in BOOLEAN :
          /\ DbCall(ok)
          /\ IF ok
             THEN /\ scholarship' = [scholarship EXCEPT ![s].status = "APPROVED"]
                  /\ JobAwaits(s, "notify")
             ELSE UNCHANGED scholarship /\ FailJob(s)
    /\ UNCHANGED <<course, enrollment, tx, charge, now>>

\* The approval email is queued, or it is not and the job fails: its retry
\* then finds the application processed and never sends it.
NotifyApproval(s) ==
    /\ job[s].need = "notify"
    /\ JobAwaits(s, "completed") \/ FailJob(s)
    /\ UNCHANGED ledger

----------------------------------------------------------------------------

ApplicationStep(s) ==
    CheckActiveScholarship(s) \/ SaveScholarship(s) \/ QueueJob(s)

WorkerStep(s) ==
    \/ StartJob(s)
    \/ FindEnrollment(s)
    \/ SaveScholarshipEnrollment(s)
    \/ FindTransaction(s)
    \/ RecordScholarshipTransaction(s)
    \/ ApproveScholarship(s)
    \/ NotifyApproval(s)

\* mutant: running jobs are not taken up again
AfterCrashJobsLost(j) ==
    IF j.need \in Running \cup {"queue"} THEN [j EXCEPT !.need = "lost"] ELSE j

\* A crash of the server: requests in flight are gone, the applications they
\* had inserted keep no job, and running jobs stall and go back to the queue
\* (or fail, once they have stalled too often).
AfterCrash(j) ==
    CASE j.need \in {"guard", "insert"} -> [j EXCEPT !.need = "absent"]
      [] j.need = "queue" -> [j EXCEPT !.need = "lost"]
      [] j.need \in Running ->
            IF j.stalls < MaxStalls
            THEN [j EXCEPT !.need = "waiting", !.stalls = @ + 1]
            ELSE [j EXCEPT !.need = "failed"]
      [] OTHER -> j

DropApplicationsAndStallJobs == job' = [s \in Scholarships |-> AfterCrash(job[s])]
=============================================================================
