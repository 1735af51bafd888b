----------------------- MODULE CoursePayments_proofs -----------------------
(***************************************************************************)
(* What is proved of CoursePayments, for every number of users, courses,  *)
(* scholarships, requests, handlers, faults and crashes.                   *)
(*                                                                         *)
(* First type correctness.  Then the inductive invariant IInv and what     *)
(* follows from it: four lemmas say how a step may write each collection;  *)
(* from them no document is ever taken back (Advance), so what a handler   *)
(* knows about the documents it holds stays true while other handlers run  *)
(* between its awaits.  With LinkInv on top of it: a payment link that was *)
(* answered 200 is settled, and no repeat of its delivery changes a        *)
(* document.  Last, that CoursePayments implements AccessLedger:           *)
(* a step of a handler, a payment or a crash is one step of the ledger     *)
(* under the mapping of Access, or leaves what it maps to alone.           *)
(***************************************************************************)
EXTENDS CoursePayments, TLAPS

----------------------------------------------------------------------------
(* Types: the collections *)

\* The placeholders of documents that do not exist are well typed.
LEMMA Defaults ==
    /\ AnyUser \in Users /\ AnyCourse \in Courses /\ AnyAmount \in Amounts
    /\ 0 \in References
  BY LedgerAssumption DEF AnyUser, AnyCourse, AnyAmount, References

\* The fault budget is kept by every database call.
LEMMA DbCallType ==
    ASSUME NEW ok \in BOOLEAN, faults \in 0..MaxDbFaults, DbCall(ok)
    PROVE  faults' \in 0..MaxDbFaults
  BY LedgerAssumption DEF DbCall

\* An inserted enrollment is an enrollment.
LEMMA InsertEnrollmentType ==
    ASSUME LedgerTypeOK, NEW u \in Users, NEW t \in Targets,
           NEW st \in {"PENDING", "ACTIVE"},
           NEW k \in {"REGULAR", "SCHOLARSHIP", "FREE"},
           InsertEnrollment(u, t, st, k)
    PROVE  enrollment' \in [Users \X Targets -> EnrollmentDoc]
  BY DEF InsertEnrollment, EnrollmentDoc, LedgerTypeOK

\* An activated enrollment is an enrollment.
LEMMA ActivateEnrollmentType ==
    ASSUME LedgerTypeOK, NEW u \in Users, NEW t \in Targets, ActivateEnrollment(u, t)
    PROVE  enrollment' \in [Users \X Targets -> EnrollmentDoc]
  BY DEF ActivateEnrollment, EnrollmentDoc, LedgerTypeOK

\* An inserted transaction is a transaction.
LEMMA InsertTransactionType ==
    ASSUME LedgerTypeOK, NEW r \in References, NEW u \in Users, NEW c \in Courses,
           NEW a \in Amounts, NEW url \in BOOLEAN,
           NEW s \in Scholarships \cup {NoScholarship},
           InsertTransaction(r, u, c, a, url, s)
    PROVE  tx' \in [References -> TransactionDoc]
  BY DEF InsertTransaction, TransactionDoc, LedgerTypeOK

\* A settled transaction is a transaction.
LEMMA SettleType ==
    ASSUME LedgerTypeOK, NEW r \in References,
           tx' = [tx EXCEPT ![r].status = "SUCCESS"]
    PROVE  tx' \in [References -> TransactionDoc]
  BY DEF TransactionDoc, LedgerTypeOK

----------------------------------------------------------------------------
(* Types: the enrollment request *)

\* A request that goes on to another call keeps its locals.
LEMMA AwaitType ==
    ASSUME RequestTypeOK, NEW q \in Requests, NEW call \in RequestSteps,
           call \in {"course", "transaction", "paystack", "record"}
              => req[q].target \in Courses,
           call = "record" => req[q].price \in Amounts,
           Await(q, call), UNCHANGED urls
    PROVE  RequestTypeOK'
<1>1. req[q] \in RequestLocals /\ [req[q] EXCEPT !.need = call] \in RequestLocals
  BY DEF RequestTypeOK, RequestLocals
<1>2. req' = [req EXCEPT ![q] = [req[q] EXCEPT !.need = call]]
  BY DEF Await, RequestTypeOK
<1> QED
  BY <1>1, <1>2 DEF RequestTypeOK, RequestLocals

\* A request that answers leaves no locals behind.
LEMMA RespondType ==
    ASSUME RequestTypeOK, NEW q \in Requests, Respond(q),
           urls' \subseteq Users \X References
    PROVE  RequestTypeOK'
<1>1. IdleRequest \in RequestLocals /\ IdleRequest.need = "idle"
  BY Defaults DEF IdleRequest, Targets, RequestSteps, RequestLocals
<1> QED
  BY <1>1 DEF Respond, RequestTypeOK

\* Every step of an enrollment request writes well-typed documents.
LEMMA RequestType ==
    ASSUME LedgerTypeOK, RequestTypeOK, NEW q \in Requests, RequestStep(q)
    PROVE  LedgerTypeOK' /\ RequestTypeOK'
<1>t. /\ req[q].user \in Users /\ req[q].target \in Targets
      /\ req[q].price \in Amounts \cup {NoPrice} /\ req[q].ref \in References
      /\ urls \subseteq Users \X References
  BY DEF RequestLocals, RequestTypeOK
<1>s. {"active", "pending", "create", "enrollment", "course", "transaction",
       "paystack", "record"} \subseteq RequestSteps
  BY DEF RequestSteps
<1>f. faults \in 0..MaxDbFaults
  BY DEF LedgerTypeOK
<1>1. CASE CheckActiveEnrollment(q)
  <2>1. RequestTypeOK'
    BY <1>1, <1>s, <1>t, AwaitType, RespondType DEF CheckActiveEnrollment
  <2> QED
    BY <1>1, <2>1, <1>f, DbCallType DEF CheckActiveEnrollment, LedgerTypeOK
<1>2. CASE CheckPendingEnrollment(q)
  <2>1. RequestTypeOK'
    BY <1>2, <1>s, <1>t, AwaitType, RespondType DEF CheckPendingEnrollment
  <2> QED
    BY <1>2, <2>1, <1>f, DbCallType DEF CheckPendingEnrollment, LedgerTypeOK
<1>3. CASE SaveEnrollment(q)
  <2>1. enrollment' \in [Users \X Targets -> EnrollmentDoc]
    BY <1>3, <1>t, InsertEnrollmentType DEF SaveEnrollment, LedgerTypeOK
  <2>2. RequestTypeOK'
    BY <1>3, <1>s, <1>t, AwaitType, RespondType DEF SaveEnrollment
  <2> QED
    BY <1>3, <2>1, <2>2, <1>f, DbCallType DEF SaveEnrollment, LedgerTypeOK
<1>4. CASE LoadEnrollment(q)
  <2>1. RequestTypeOK'
    BY <1>4, <1>s, <1>t, AwaitType, RespondType DEF LoadEnrollment
  <2> QED
    BY <1>4, <2>1, <1>f, DbCallType DEF LoadEnrollment, LedgerTypeOK
<1>5. CASE LoadCourse(q)
  <2>1. req[q].target \in Courses
    BY <1>5 DEF LoadCourse, RequestTypeOK
  <2>2. course[req[q].target].price \in Amounts
    BY <2>1, LedgerAssumption DEF CourseDoc, LedgerTypeOK
  <2>3. ASSUME NEW p \in Amounts \cup {NoPrice},
               req' = [req EXCEPT ![q] = [@ EXCEPT !.need = "transaction", !.price = p]],
               UNCHANGED urls
        PROVE  RequestTypeOK'
    <3> DEFINE d == [req[q] EXCEPT !.need = "transaction", !.price = p]
    <3>1. d \in RequestLocals /\ d.target \in Courses /\ d.need = "transaction"
      BY <2>1, <1>s DEF RequestLocals, RequestTypeOK
    <3>2. req' = [req EXCEPT ![q] = d]
      BY <2>3 DEF RequestTypeOK
    <3> HIDE DEF d
    <3> QED
      BY <2>3, <3>1, <3>2 DEF RequestTypeOK
  <2>4. RequestTypeOK'
    BY <1>5, <2>2, <2>3 DEF LoadCourse
  <2> QED
    BY <1>5, <2>4, <1>f, DbCallType DEF LoadCourse, LedgerTypeOK
<1>6. CASE CheckPendingTransaction(q)
  <2>1. req[q].target \in Courses
    BY <1>6 DEF CheckPendingTransaction, RequestTypeOK
  <2>2. ASSUME req' = [req EXCEPT ![q] = [@ EXCEPT !.need = "paystack", !.ref = now]],
               UNCHANGED urls
        PROVE  RequestTypeOK'
    <3> DEFINE d == [req[q] EXCEPT !.need = "paystack", !.ref = now]
    <3>1. d \in RequestLocals /\ d.target \in Courses /\ d.need = "paystack"
      BY <2>1, <1>s DEF RequestLocals, RequestTypeOK, LedgerTypeOK
    <3>2. req' = [req EXCEPT ![q] = d]
      BY <2>2 DEF RequestTypeOK
    <3> HIDE DEF d
    <3> QED
      BY <2>2, <3>1, <3>2 DEF RequestTypeOK
  <2>3. PendingTransactions(req[q].user, req[q].target) \subseteq References
    BY DEF PendingTransactions
  <2>4. ASSUME NEW r \in References,
               urls' = IF tx[r].url THEN urls \cup {<<req[q].user, r>>} ELSE urls,
               Respond(q)
        PROVE  RequestTypeOK'
    BY <2>4, <1>t, RespondType
  <2>5. RequestTypeOK'
    BY <1>6, <2>2, <2>3, <2>4 DEF CheckPendingTransaction
  <2> QED
    BY <1>6, <2>5, <1>f, DbCallType DEF CheckPendingTransaction, LedgerTypeOK
<1>7. CASE InitializeAtPaystack(q)
  <2>0. req[q].price # NoPrice => req[q].price \in Amounts
    BY <1>t
  <2>1. charge' \in [ChargeRefs -> PaystackCharge]
    BY <1>7, <1>t, <2>0 DEF InitializeAtPaystack, PaystackCharge, ChargeRefs, LedgerTypeOK
  <2>2. req[q].target \in Courses
    BY <1>7 DEF InitializeAtPaystack, RequestTypeOK
  <2>3. RequestTypeOK'
    BY <1>7, <2>0, <2>2, <1>s, <1>t, AwaitType, RespondType DEF InitializeAtPaystack
  <2> QED
    BY <1>7, <2>1, <2>3 DEF InitializeAtPaystack, LedgerTypeOK
<1>8. CASE RecordTransaction(q)
  <2>1. req[q].target \in Courses
    BY <1>8 DEF RecordTransaction, RequestTypeOK
  <2>0. req[q].price \in Amounts
    BY <1>8 DEF RecordTransaction, RequestTypeOK
  <2>2. tx' \in [References -> TransactionDoc]
    BY <1>8, <2>0, <2>1, <1>t, InsertTransactionType DEF RecordTransaction, LedgerTypeOK
  <2>3. RequestTypeOK'
    BY <1>8, <1>t, RespondType DEF RecordTransaction
  <2> QED
    BY <1>8, <2>2, <2>3, <1>f, DbCallType DEF RecordTransaction, LedgerTypeOK
<1> QED
  BY <1>1, <1>2, <1>3, <1>4, <1>5, <1>6, <1>7, <1>8 DEF RequestStep

----------------------------------------------------------------------------
(* Types: the application and its job *)

\* A job that goes on to another call keeps its data.
LEMMA JobAwaitsType ==
    ASSUME ApprovalTypeOK, NEW s \in Scholarships, NEW call \in JobSteps,
           call # "completed" => call # "failed" /\ job[s].attempts < MaxAttempts,
           JobAwaits(s, call)
    PROVE  ApprovalTypeOK'
  BY DEF JobAwaits, ApprovalTypeOK, JobDoc

\* The retries of a job never exceed its attempts.
LEMMA FailJobType ==
    ASSUME ApprovalTypeOK, NEW s \in Scholarships,
           job[s].attempts < MaxAttempts, FailJob(s)
    PROVE  ApprovalTypeOK'
<1>1. job[s].attempts \in Nat /\ job[s].attempts + 1 \in 0..MaxAttempts
  BY ApprovalAssumption DEF ApprovalTypeOK, JobDoc
<1>2. {"waiting", "failed"} \subseteq JobSteps
  BY DEF JobSteps
<1>3. \A call \in {"waiting", "failed"} :
         /\ Attempted(job[s], call) \in JobDoc
         /\ Attempted(job[s], call).need = call
         /\ Attempted(job[s], call).attempts = job[s].attempts + 1
  BY <1>1, <1>2 DEF ApprovalTypeOK, JobDoc, Attempted
<1> QED
  BY <1>1, <1>3 DEF ApprovalTypeOK, FailJob

\* Every step of an application or its job writes well-typed documents.
LEMMA ApprovalType ==
    ASSUME LedgerTypeOK, ApprovalTypeOK, NEW s \in Scholarships,
           ApplicationStep(s) \/ WorkerStep(s)
    PROVE  LedgerTypeOK' /\ ApprovalTypeOK'
<1>t. /\ job[s].user \in Users /\ job[s].course \in Courses
      /\ job[s].amount \in Amounts /\ job[s].ref \in References
      /\ job[s].course \in Targets
  BY DEF ApprovalTypeOK, JobDoc, Targets
<1>s. Running \cup {"absent", "insert", "queue", "lost", "waiting", "completed"} \subseteq JobSteps
  BY DEF JobSteps, Running
<1>r. Running = {"enrollment", "enroll", "transaction", "record", "approve", "notify"}
  BY DEF Running
<1>a. job[s].need \notin {"completed", "failed"} => job[s].attempts < MaxAttempts
  BY DEF ApprovalTypeOK
<1>f. faults \in 0..MaxDbFaults
  BY DEF LedgerTypeOK
<1>1. CASE CheckActiveScholarship(s)
  <2>1. ApprovalTypeOK'
    BY <1>1, <1>a, <1>s, JobAwaitsType DEF CheckActiveScholarship
  <2> QED
    BY <1>1, <2>1 DEF CheckActiveScholarship, LedgerTypeOK, ledger, ChargeRefs, Targets
<1>2. CASE SaveScholarship(s)
  <2>1. ApprovalTypeOK'
    BY <1>2, <1>a, <1>s, JobAwaitsType DEF SaveScholarship
  <2>2. scholarship' \in [Scholarships -> ScholarshipDoc]
    BY <1>2, <1>t DEF SaveScholarship, ScholarshipDoc, LedgerTypeOK
  <2> QED
    BY <1>2, <2>1, <2>2, <1>f, DbCallType DEF SaveScholarship, LedgerTypeOK
<1>3. CASE QueueJob(s)
  <2>1. job[s].attempts < MaxAttempts
    BY <1>3, <1>a DEF QueueJob
  <2>2. ApprovalTypeOK'
    BY <1>3, <2>1, <1>s, JobAwaitsType DEF QueueJob
  <2> QED
    BY <1>3, <2>2 DEF QueueJob, LedgerTypeOK, ledger
<1>4. CASE StartJob(s)
  <2>1. job[s].attempts < MaxAttempts
    BY <1>4, <1>a DEF StartJob
  <2>2. course[job[s].course].scholarshipPrice \in Amounts
    BY <1>t, LedgerAssumption DEF LedgerTypeOK, CourseDoc
  <2>3. ASSUME job' = [job EXCEPT ![s] =
                         [@ EXCEPT !.need = "enrollment",
                                   !.amount = course[job[s].course].scholarshipPrice]]
        PROVE  ApprovalTypeOK'
    BY <2>1, <2>2, <2>3, <1>s, <1>r DEF ApprovalTypeOK, JobDoc
  <2>4. ApprovalTypeOK'
    BY <1>4, <2>1, <2>3, <1>s, JobAwaitsType, FailJobType DEF StartJob
  <2> QED
    BY <1>4, <2>4, <1>f, DbCallType DEF StartJob, LedgerTypeOK
<1>5. CASE FindEnrollment(s)
  <2>1. ApprovalTypeOK'
    BY <1>5, <1>a, <1>s, <1>r, JobAwaitsType DEF FindEnrollment
  <2> QED
    BY <1>5, <2>1, <1>f, DbCallType DEF FindEnrollment, LedgerTypeOK
<1>6. CASE SaveScholarshipEnrollment(s)
  <2>1. ApprovalTypeOK'
    BY <1>6, <1>a, <1>s, <1>r, JobAwaitsType, FailJobType DEF SaveScholarshipEnrollment
  <2>2. enrollment' \in [Users \X Targets -> EnrollmentDoc]
    BY <1>6, <1>t, InsertEnrollmentType DEF SaveScholarshipEnrollment, LedgerTypeOK
  <2> QED
    BY <1>6, <2>1, <2>2, <1>f, DbCallType DEF SaveScholarshipEnrollment, LedgerTypeOK
<1>7. CASE FindTransaction(s)
  <2>1. job[s].attempts < MaxAttempts
    BY <1>7, <1>a, <1>r DEF FindTransaction
  <2>2. ASSUME job' = [job EXCEPT ![s] = [@ EXCEPT !.need = "record", !.ref = now]]
        PROVE  ApprovalTypeOK'
    BY <2>1, <2>2, <1>s, <1>r DEF ApprovalTypeOK, JobDoc, LedgerTypeOK
  <2>3. ApprovalTypeOK'
    BY <1>7, <2>1, <2>2, <1>s, <1>r, JobAwaitsType DEF FindTransaction
  <2> QED
    BY <1>7, <2>3, <1>f, DbCallType DEF FindTransaction, LedgerTypeOK
<1>8. CASE RecordScholarshipTransaction(s)
  <2>1. ApprovalTypeOK'
    BY <1>8, <1>a, <1>s, <1>r, JobAwaitsType, FailJobType DEF RecordScholarshipTransaction
  <2>2. tx' \in [References -> TransactionDoc]
    BY <1>8, <1>t, InsertTransactionType DEF RecordScholarshipTransaction, LedgerTypeOK
  <2> QED
    BY <1>8, <2>1, <2>2, <1>f, DbCallType DEF RecordScholarshipTransaction, LedgerTypeOK
<1>9. CASE ApproveScholarship(s)
  <2>1. ApprovalTypeOK'
    BY <1>9, <1>a, <1>s, <1>r, JobAwaitsType, FailJobType DEF ApproveScholarship
  <2>2. scholarship' \in [Scholarships -> ScholarshipDoc]
    BY <1>9 DEF ApproveScholarship, ScholarshipDoc, LedgerTypeOK
  <2> QED
    BY <1>9, <2>1, <2>2, <1>f, DbCallType DEF ApproveScholarship, LedgerTypeOK
<1>10. CASE NotifyApproval(s)
  <2>1. ApprovalTypeOK'
    BY <1>10, <1>a, <1>s, <1>r, JobAwaitsType, FailJobType DEF NotifyApproval
  <2> QED
    BY <1>10, <2>1 DEF NotifyApproval, LedgerTypeOK, ledger
<1> QED
  BY <1>1, <1>2, <1>3, <1>4, <1>5, <1>6, <1>7, <1>8, <1>9, <1>10
     DEF ApplicationStep, WorkerStep

----------------------------------------------------------------------------
(* Types: the webhook *)

\* A webhook request that goes on to another call keeps its locals.
LEMMA HookAwaitsType ==
    ASSUME WebhookTypeOK, NEW h \in Handlers, NEW call \in HookSteps, HookAwaits(h, call)
    PROVE  hook' \in [Handlers -> HookLocals]
  BY DEF HookAwaits, WebhookTypeOK, HookLocals

\* The locals of a webhook request that has returned are well typed.
LEMMA IdleHookType == IdleHook \in HookLocals
  BY Defaults DEF IdleHook, HookLocals, HookSteps, ChargeRefs

\* Every way a webhook request can end an await is well typed.
LEMMA AnswerType ==
    ASSUME WebhookTypeOK, NEW h \in Handlers, UNCHANGED failureAcked,
           Accept(h) \/ Throw(h) \/ \E call \in HookSteps : Continue(h, call)
    PROVE  WebhookTypeOK'
<1>1. hook[h].ref \in ChargeRefs
  BY DEF WebhookTypeOK, HookLocals
<1>2. CASE Accept(h)
  BY <1>1, <1>2, IdleHookType DEF Accept, WebhookTypeOK
<1>3. CASE Throw(h)
  BY <1>1, <1>3, IdleHookType DEF Throw, WebhookTypeOK
<1>4. CASE \E call \in HookSteps : Continue(h, call)
  BY <1>4, HookAwaitsType DEF Continue, WebhookTypeOK
<1> QED
  BY <1>2, <1>3, <1>4

\* Every step of a webhook request writes well-typed documents.
LEMMA WebhookType ==
    ASSUME LedgerTypeOK, WebhookTypeOK, NEW h \in Handlers, HookStep(h)
    PROVE  LedgerTypeOK' /\ WebhookTypeOK'
<1>t. hook[h].ref \in ChargeRefs /\ hook[h].tx \in References
  BY DEF WebhookTypeOK, HookLocals
<1>k. tx[hook[h].tx].user \in Users /\ tx[hook[h].tx].course \in Targets
  BY <1>t DEF LedgerTypeOK, TransactionDoc, Targets
<1>s. {"settleScholarship", "activateScholarship", "scholarship", "markPaid",
       "lookup", "settle", "activate", "reactivate", "notify"} \subseteq HookSteps
  BY DEF HookSteps
<1>f. faults \in 0..MaxDbFaults
  BY DEF LedgerTypeOK
<1>1. CASE MatchScholarshipTransaction(h)
  <2>1. ASSUME NEW t \in References,
               hook' = [hook EXCEPT ![h] =
                          [@ EXCEPT !.need = "settleScholarship", !.tx = t]]
        PROVE  hook' \in [Handlers -> HookLocals]
    BY <2>1, <1>s DEF WebhookTypeOK, HookLocals
  <2>2. \A u, a : PendingScholarshipTransactions(u, a) \subseteq References
    BY DEF PendingScholarshipTransactions
  <2>3. hook' \in [Handlers -> HookLocals]
    BY <1>1, <2>1, <2>2, <1>s, HookAwaitsType DEF MatchScholarshipTransaction
  <2> QED
    BY <1>1, <2>3, <1>f, DbCallType
       DEF MatchScholarshipTransaction, LedgerTypeOK, WebhookTypeOK
<1>2. CASE SettleScholarshipTransaction(h)
  <2>1. WebhookTypeOK'
    BY <1>2, <1>s, AnswerType DEF SettleScholarshipTransaction
  <2>2. tx' \in [References -> TransactionDoc]
    BY <1>2, <1>t, SettleType DEF SettleScholarshipTransaction, LedgerTypeOK
  <2> QED
    BY <1>2, <2>1, <2>2, <1>f, DbCallType DEF SettleScholarshipTransaction, LedgerTypeOK
<1>3. CASE ActivateScholarshipEnrollment(h)
  <2>1. WebhookTypeOK'
    BY <1>3, <1>s, AnswerType DEF ActivateScholarshipEnrollment
  <2>2. enrollment' \in [Users \X Targets -> EnrollmentDoc]
    BY <1>3, <1>k, ActivateEnrollmentType DEF ActivateScholarshipEnrollment, LedgerTypeOK
  <2> QED
    BY <1>3, <2>1, <2>2, <1>f, DbCallType DEF ActivateScholarshipEnrollment, LedgerTypeOK
<1>4. CASE LoadScholarship(h)
  <2>1. WebhookTypeOK'
    BY <1>4, <1>s, AnswerType DEF LoadScholarship
  <2> QED
    BY <1>4, <2>1, <1>f, DbCallType DEF LoadScholarship, LedgerTypeOK
<1>5. CASE MarkScholarshipPaid(h)
  <2>1. WebhookTypeOK'
    BY <1>5, <1>s, AnswerType DEF MarkScholarshipPaid
  <2>2. scholarship' \in [Scholarships -> ScholarshipDoc]
    <3>1. ASSUME NEW s, scholarship' = [scholarship EXCEPT ![s].status = "PAID"]
          PROVE  scholarship' \in [Scholarships -> ScholarshipDoc]
      BY <3>1 DEF LedgerTypeOK, ScholarshipDoc
    <3> QED
      BY <1>5, <3>1 DEF MarkScholarshipPaid, LedgerTypeOK
  <2> QED
    BY <1>5, <2>1, <2>2, <1>f, DbCallType DEF MarkScholarshipPaid, LedgerTypeOK
<1>6. CASE FindTransactionByReference(h)
  <2>1. ASSUME hook[h].ref \in References,
               NEW call \in HookSteps,
               hook' = [hook EXCEPT ![h] = [@ EXCEPT !.need = call, !.tx = hook[h].ref]]
        PROVE  hook' \in [Handlers -> HookLocals]
    BY <2>1 DEF WebhookTypeOK, HookLocals
  <2>2. WebhookTypeOK'
    BY <1>6, <2>1, <1>s, AnswerType DEF FindTransactionByReference, WebhookTypeOK
  <2> QED
    BY <1>6, <2>2, <1>f, DbCallType DEF FindTransactionByReference, LedgerTypeOK
<1>7. CASE ReactivateEnrollment(h)
  <2>1. WebhookTypeOK'
    BY <1>7, AnswerType DEF ReactivateEnrollment
  <2>2. enrollment' \in [Users \X Targets -> EnrollmentDoc]
    BY <1>7, <1>k, ActivateEnrollmentType DEF ReactivateEnrollment, LedgerTypeOK
  <2> QED
    BY <1>7, <2>1, <2>2, <1>f, DbCallType DEF ReactivateEnrollment, LedgerTypeOK
<1>8. CASE SettleTransaction(h)
  <2>1. WebhookTypeOK'
    BY <1>8, <1>s, AnswerType DEF SettleTransaction
  <2>2. tx' \in [References -> TransactionDoc]
    BY <1>8, <1>t, SettleType DEF SettleTransaction, LedgerTypeOK
  <2> QED
    BY <1>8, <2>1, <2>2, <1>f, DbCallType DEF SettleTransaction, LedgerTypeOK
<1>9. CASE ActivatePaidEnrollment(h)
  <2>1. WebhookTypeOK'
    BY <1>9, <1>s, AnswerType DEF ActivatePaidEnrollment
  <2>2. enrollment' \in [Users \X Targets -> EnrollmentDoc]
    BY <1>9, <1>k, ActivateEnrollmentType DEF ActivatePaidEnrollment, LedgerTypeOK
  <2> QED
    BY <1>9, <2>1, <2>2, <1>f, DbCallType DEF ActivatePaidEnrollment, LedgerTypeOK
<1>10. CASE NotifyEnrollment(h)
  <2>1. WebhookTypeOK'
    BY <1>10, AnswerType DEF NotifyEnrollment
  <2> QED
    BY <1>10, <2>1 DEF NotifyEnrollment, LedgerTypeOK, ledger
<1>11. CASE MarkTransactionFailed(h)
  <2>1. WebhookTypeOK'
    BY <1>11, <1>t, IdleHookType DEF MarkTransactionFailed, WebhookTypeOK
  <2> QED
    BY <1>11, <2>1, <1>f, DbCallType DEF MarkTransactionFailed, LedgerTypeOK
<1> QED
  BY <1>1, <1>2, <1>3, <1>4, <1>5, <1>6, <1>7, <1>8, <1>9, <1>10, <1>11 DEF HookStep

----------------------------------------------------------------------------
(* Types: the system *)

\* The empty collections are well typed.
LEMMA InitType == Init => TypeOK
<1> SUFFICES ASSUME Init PROVE TypeOK
  OBVIOUS
<1>1. LedgerTypeOK
  BY Defaults, LedgerAssumption
     DEF Init, LedgerInit, LedgerTypeOK, EnrollmentDoc, TransactionDoc,
         ScholarshipDoc, PaystackCharge, References
<1>2. RequestTypeOK
  BY Defaults DEF Init, RequestInit, RequestTypeOK, RequestLocals, RequestSteps,
                  IdleRequest, Targets
<1>3. ApprovalTypeOK
  BY Defaults, ApprovalAssumption
     DEF Init, ApprovalInit, ApprovalTypeOK, JobDoc, JobSteps
<1>4. WebhookTypeOK
  BY IdleHookType DEF Init, WebhookInit, WebhookTypeOK
<1> QED
  BY <1>1, <1>2, <1>3, <1>4, CrashAssumption DEF TypeOK, Init

\* A job that a crash stalls goes back to the queue or fails for good.
LEMMA AfterCrashType ==
    ASSUME NEW j \in JobDoc, j.need \notin {"completed", "failed"} => j.attempts < MaxAttempts
    PROVE  /\ AfterCrash(j) \in JobDoc
           /\ AfterCrash(j).need \notin {"completed", "failed"}
                 => AfterCrash(j).attempts < MaxAttempts
<1>1. CASE j.need \in {"guard", "insert"}
  <2>1. AfterCrash(j) = [j EXCEPT !.need = "absent"]
    BY <1>1 DEF AfterCrash, Running
  <2> QED
    BY <1>1, <2>1 DEF JobDoc, JobSteps
<1>2. CASE j.need = "queue"
  <2>1. AfterCrash(j) = [j EXCEPT !.need = "lost"]
    BY <1>2 DEF AfterCrash, Running
  <2> QED
    BY <1>2, <2>1 DEF JobDoc, JobSteps
<1>3. CASE j.need \in Running /\ j.stalls < MaxStalls
  <2>1. AfterCrash(j) = [j EXCEPT !.need = "waiting", !.stalls = @ + 1]
    BY <1>3 DEF AfterCrash, Running
  <2>2. j.stalls + 1 \in 0..MaxStalls
    BY <1>3, ApprovalAssumption DEF JobDoc
  <2> QED
    BY <1>3, <2>1, <2>2 DEF JobDoc, JobSteps, Running
<1>4. CASE j.need \in Running /\ ~(j.stalls < MaxStalls)
  <2>1. AfterCrash(j) = [j EXCEPT !.need = "failed"]
    BY <1>4 DEF AfterCrash, Running
  <2> QED
    BY <2>1 DEF JobDoc, JobSteps
<1>5. CASE j.need \notin Running \cup {"guard", "insert", "queue"}
  BY <1>5 DEF AfterCrash
<1> QED
  BY <1>1, <1>2, <1>3, <1>4, <1>5

\* A crash of the server leaves everything well typed.
LEMMA CrashType == TypeOK /\ Crash => TypeOK'
<1> SUFFICES ASSUME TypeOK, Crash PROVE TypeOK'
  OBVIOUS
<1>1. LedgerTypeOK'
  BY DEF Crash, ledger, TypeOK, LedgerTypeOK
<1>2. RequestTypeOK'
  <2>1. IdleRequest \in RequestLocals /\ IdleRequest.need = "idle"
    BY Defaults DEF IdleRequest, Targets, RequestSteps, RequestLocals
  <2> QED
    BY <2>1 DEF Crash, DropRequests, TypeOK, RequestTypeOK
<1>3. ApprovalTypeOK'
  BY AfterCrashType DEF Crash, DropApplicationsAndStallJobs, TypeOK, ApprovalTypeOK
<1>4. WebhookTypeOK'
  BY IdleHookType DEF Crash, DropHooks, TypeOK, WebhookTypeOK
<1>5. crashes' \in 0..MaxCrashes
  BY CrashAssumption DEF Crash, TypeOK
<1> QED
  BY <1>1, <1>2, <1>3, <1>4, <1>5 DEF TypeOK

\* So do the clock, the admin and the users who pay.
LEMMA EnvironmentType == TypeOK /\ Environment => TypeOK'
<1> SUFFICES ASSUME TypeOK, Environment PROVE TypeOK'
  OBVIOUS
<1>0. UNCHANGED <<request, job, webhook, crashes>>
  BY DEF Environment
<1>1. RequestTypeOK' /\ ApprovalTypeOK' /\ WebhookTypeOK' /\ crashes' \in 0..MaxCrashes
  BY <1>0 DEF request, webhook, TypeOK, RequestTypeOK, ApprovalTypeOK, WebhookTypeOK
<1>2. ASSUME Tick PROVE LedgerTypeOK'
  BY <1>2, LedgerAssumption DEF Tick, TypeOK, LedgerTypeOK, References
<1>3. ASSUME \E c \in Courses : UpdateCourse(c) PROVE LedgerTypeOK'
  BY <1>3 DEF UpdateCourse, TypeOK, LedgerTypeOK
<1>4. ASSUME \E u \in Users, r \in References : PayLink(u, r) PROVE LedgerTypeOK'
  BY <1>4 DEF PayLink, TypeOK, LedgerTypeOK, PaystackCharge, ChargeRefs
<1>5. ASSUME \E r \in ShopRefs, u \in Users \cup {Stranger}, a \in Amounts : PayShop(r, u, a)
      PROVE  LedgerTypeOK'
  BY <1>5 DEF PayShop, TypeOK, LedgerTypeOK, PaystackCharge, ChargeRefs
<1>6. LedgerTypeOK'
  BY <1>2, <1>3, <1>4, <1>5 DEF Environment, LedgerTypeOK, TypeOK
<1> QED
  BY <1>1, <1>6 DEF TypeOK

\* Every step of the system keeps the types.
LEMMA NextType == TypeOK /\ [Next]_vars => TypeOK'
<1> SUFFICES ASSUME TypeOK, [Next]_vars PROVE TypeOK'
  OBVIOUS
<1>1. CASE RequestNext
  <2>0. ApprovalTypeOK' /\ WebhookTypeOK' /\ crashes' \in 0..MaxCrashes
    BY <1>1 DEF RequestNext, webhook, TypeOK, ApprovalTypeOK, WebhookTypeOK
  <2>1. ASSUME NEW q \in Requests, NEW u \in Users, NEW t \in Targets, CreateEnrollment(q, u, t)
        PROVE  LedgerTypeOK' /\ RequestTypeOK'
    <3>1. (IF t \in Courses THEN course[t].open ELSE TRUE) \in BOOLEAN
      <4>1. t \in Courses => course[t].open \in BOOLEAN
        BY LedgerAssumption DEF TypeOK, LedgerTypeOK, CourseDoc
      <4> QED
        BY <4>1
    <3>2. RequestTypeOK'
      BY <2>1, <3>1 DEF CreateEnrollment, TypeOK, RequestTypeOK, RequestLocals, RequestSteps
    <3> QED
      BY <2>1, <3>2 DEF CreateEnrollment, TypeOK, LedgerTypeOK, ledger
  <2> QED
    BY <1>1, <2>0, <2>1, RequestType DEF RequestNext, TypeOK
<1>2. CASE ApprovalNext
  <2>0. RequestTypeOK' /\ WebhookTypeOK' /\ crashes' \in 0..MaxCrashes
    BY <1>2 DEF ApprovalNext, request, webhook, TypeOK, RequestTypeOK, WebhookTypeOK
  <2>1. ASSUME NEW s \in Scholarships, NEW u \in Users, NEW c \in Courses, Apply(s, u, c)
        PROVE  LedgerTypeOK' /\ ApprovalTypeOK'
    <3>1. ApprovalTypeOK'
      BY <2>1 DEF Apply, TypeOK, ApprovalTypeOK, JobDoc, JobSteps
    <3> QED
      BY <2>1, <3>1 DEF Apply, TypeOK, LedgerTypeOK, ledger
  <2> QED
    BY <1>2, <2>0, <2>1, ApprovalType DEF ApprovalNext, TypeOK
<1>3. CASE WebhookNext
  <2>0. RequestTypeOK' /\ ApprovalTypeOK' /\ crashes' \in 0..MaxCrashes
    BY <1>3 DEF WebhookNext, request, TypeOK, RequestTypeOK, ApprovalTypeOK
  <2>1. ASSUME NEW h \in Handlers, NEW r \in ChargeRefs,
               DeliverSuccess(h, r) \/ DeliverFailure(h, r)
        PROVE  LedgerTypeOK' /\ WebhookTypeOK'
    <3>1. WebhookTypeOK'
      BY <2>1, Defaults
         DEF DeliverSuccess, DeliverFailure, TypeOK, WebhookTypeOK, HookLocals, HookSteps
    <3> QED
      BY <2>1, <3>1 DEF DeliverSuccess, DeliverFailure, TypeOK, LedgerTypeOK, ledger
  <2> QED
    BY <1>3, <2>0, <2>1, WebhookType DEF WebhookNext, TypeOK
<1>4. CASE UNCHANGED vars
  BY <1>4 DEF vars, ledger, request, webhook, TypeOK, LedgerTypeOK, RequestTypeOK,
              ApprovalTypeOK, WebhookTypeOK
<1> QED
  BY <1>1, <1>2, <1>3, <1>4, CrashType, EnvironmentType DEF Next

\* The collections, the locals of every handler and the bounds are what they
\* are declared to be, in every state of every instance.
THEOREM TypeCorrect == Spec => []TypeOK
  BY InitType, NextType, PTL DEF Spec

----------------------------------------------------------------------------
(* What a step can write *)

\* One lemma per collection: untouched, a guarded insert, or an update by the
\* handler that holds the document.
LEMMA EnrollmentWrites ==
    ASSUME TypeOK, [Next]_vars
    PROVE  \/ UNCHANGED enrollment
           \/ \E u \in Users, t \in Targets, st \in {"PENDING", "ACTIVE"},
                 k \in {"REGULAR", "SCHOLARSHIP", "FREE"} :
                 /\ CanInsertEnrollment(u, t)
                 /\ InsertEnrollment(u, t, st, k)
                 /\ st = "ACTIVE" => t \in Programs
                 /\ UNCHANGED <<tx, charge>>
           \/ \E h \in Handlers :
                 /\ hook[h].need \in Settling
                 /\ ActivateEnrollment(tx[hook[h].tx].user, tx[hook[h].tx].course)
                 /\ UNCHANGED <<tx, charge>>
<1>1. CASE RequestNext
  <2>1. PICK q \in Requests :
           (\E u \in Users, t \in Targets : CreateEnrollment(q, u, t)) \/ RequestStep(q)
    BY <1>1 DEF RequestNext
  <2>2. CASE SaveEnrollment(q)
    <3>1. req[q].user \in Users /\ req[q].target \in Targets
      BY DEF TypeOK, RequestTypeOK, RequestLocals
    <3>2. CASE UNCHANGED enrollment
      BY <3>2
    <3>3. CASE /\ CanInsertEnrollment(req[q].user, req[q].target)
               /\ req[q].target \in Programs
               /\ InsertEnrollment(req[q].user, req[q].target, "ACTIVE", "FREE")
               /\ UNCHANGED <<tx, charge>>
      BY <3>1, <3>3
    <3>4. CASE /\ CanInsertEnrollment(req[q].user, req[q].target)
               /\ InsertEnrollment(req[q].user, req[q].target, "PENDING", "REGULAR")
               /\ UNCHANGED <<tx, charge>>
      BY <3>1, <3>4
    <3> QED
      BY <2>2, <3>2, <3>3, <3>4 DEF SaveEnrollment
  <2>3. CASE ~SaveEnrollment(q)
    BY <2>1, <2>3
       DEF RequestStep, CreateEnrollment, CheckActiveEnrollment, CheckPendingEnrollment,
           LoadEnrollment, LoadCourse, CheckPendingTransaction, InitializeAtPaystack,
           RecordTransaction, ledger
  <2> QED
    BY <2>2, <2>3
<1>2. CASE ApprovalNext
  <2>1. PICK s \in Scholarships :
           \/ \E u \in Users, c \in Courses : Apply(s, u, c)
           \/ ApplicationStep(s) \/ WorkerStep(s)
    BY <1>2 DEF ApprovalNext
  <2>2. CASE SaveScholarshipEnrollment(s)
    <3>1. job[s].user \in Users /\ job[s].course \in Targets
      BY DEF TypeOK, ApprovalTypeOK, JobDoc, Targets
    <3>2. CASE UNCHANGED enrollment
      BY <3>2
    <3>3. CASE /\ CanInsertEnrollment(job[s].user, job[s].course)
               /\ InsertEnrollment(job[s].user, job[s].course, "PENDING", "SCHOLARSHIP")
               /\ UNCHANGED <<tx, charge>>
      BY <3>1, <3>3
    <3> QED
      BY <2>2, <3>2, <3>3 DEF SaveScholarshipEnrollment
  <2>3. CASE ~SaveScholarshipEnrollment(s)
    BY <2>1, <2>3
       DEF ApplicationStep, WorkerStep, Apply, CheckActiveScholarship, SaveScholarship,
           QueueJob, StartJob, FindEnrollment, FindTransaction,
           RecordScholarshipTransaction, ApproveScholarship, NotifyApproval, ledger
  <2> QED
    BY <2>2, <2>3
<1>3. CASE WebhookNext
  <2>1. PICK h \in Handlers :
           (\E r \in ChargeRefs : DeliverSuccess(h, r) \/ DeliverFailure(h, r)) \/ HookStep(h)
    BY <1>3 DEF WebhookNext
  <2>2. CASE \/ ActivateScholarshipEnrollment(h) \/ ReactivateEnrollment(h)
             \/ ActivatePaidEnrollment(h)
    BY <2>2 DEF ActivateScholarshipEnrollment, ReactivateEnrollment, ActivatePaidEnrollment,
                Settling, ScholarshipSettling
  <2>3. CASE ~(\/ ActivateScholarshipEnrollment(h) \/ ReactivateEnrollment(h)
               \/ ActivatePaidEnrollment(h))
    BY <2>1, <2>3
       DEF HookStep, DeliverSuccess, DeliverFailure, MatchScholarshipTransaction,
           SettleScholarshipTransaction, LoadScholarship, MarkScholarshipPaid,
           FindTransactionByReference, SettleTransaction, NotifyEnrollment,
           MarkTransactionFailed, ledger
  <2> QED
    BY <2>2, <2>3
<1>4. CASE Environment \/ Crash \/ UNCHANGED vars
  BY <1>4 DEF Environment, Tick, UpdateCourse, PayLink, PayShop, Crash, vars, ledger
<1> QED
  BY <1>1, <1>2, <1>3, <1>4 DEF Next

\* Transactions: an insert that the unique indexes allow, or a settlement.
LEMMA TransactionWrites ==
    ASSUME TypeOK, [Next]_vars
    PROVE  \/ UNCHANGED tx
           \/ \E r \in References, u \in Users, c \in Courses, a \in Amounts,
                 url \in BOOLEAN, s \in Scholarships \cup {NoScholarship} :
                 /\ CanInsertTransaction(r, u, c)
                 /\ InsertTransaction(r, u, c, a, url, s)
                 /\ UNCHANGED <<scholarship, enrollment, charge>>
                 /\ s # NoScholarship =>
                       /\ job[s].need = "record" /\ a = job[s].amount
                       /\ u = job[s].user /\ c = job[s].course
           \/ \E h \in Handlers :
                 /\ hook[h].need \in Settling
                 /\ tx' = [tx EXCEPT ![hook[h].tx].status = "SUCCESS"]
                 /\ UNCHANGED <<scholarship, enrollment, charge>>
<1>1. CASE RequestNext
  <2>1. PICK q \in Requests :
           (\E u \in Users, t \in Targets : CreateEnrollment(q, u, t)) \/ RequestStep(q)
    BY <1>1 DEF RequestNext
  <2>2. CASE RecordTransaction(q)
    <3>1. /\ req[q].ref \in References /\ req[q].user \in Users
          /\ req[q].target \in Courses /\ req[q].price \in Amounts
      BY <2>2 DEF RecordTransaction, TypeOK, RequestTypeOK, RequestLocals
    <3>2. CASE UNCHANGED tx
      BY <3>2
    <3>3. CASE /\ CanInsertTransaction(req[q].ref, req[q].user, req[q].target)
               /\ InsertTransaction(req[q].ref, req[q].user, req[q].target,
                                    req[q].price, TRUE, NoScholarship)
               /\ UNCHANGED <<scholarship, enrollment, charge>>
      BY <3>1, <3>3
    <3> QED
      BY <2>2, <3>2, <3>3 DEF RecordTransaction
  <2>3. CASE ~RecordTransaction(q)
    BY <2>1, <2>3
       DEF RequestStep, CreateEnrollment, CheckActiveEnrollment, CheckPendingEnrollment,
           SaveEnrollment, LoadEnrollment, LoadCourse, CheckPendingTransaction,
           InitializeAtPaystack, ledger
  <2> QED
    BY <2>2, <2>3
<1>2. CASE ApprovalNext
  <2>1. PICK s \in Scholarships :
           \/ \E u \in Users, c \in Courses : Apply(s, u, c)
           \/ ApplicationStep(s) \/ WorkerStep(s)
    BY <1>2 DEF ApprovalNext
  <2>2. CASE RecordScholarshipTransaction(s)
    <3>1. /\ job[s].ref \in References /\ job[s].user \in Users
          /\ job[s].course \in Courses /\ job[s].amount \in Amounts
      BY DEF TypeOK, ApprovalTypeOK, JobDoc
    <3>2. CASE UNCHANGED tx
      BY <3>2
    <3>3. CASE /\ job[s].need = "record"
               /\ CanInsertTransaction(job[s].ref, job[s].user, job[s].course)
               /\ InsertTransaction(job[s].ref, job[s].user, job[s].course,
                                    job[s].amount, FALSE, s)
               /\ UNCHANGED <<scholarship, enrollment, charge>>
      BY <3>1, <3>3
    <3> QED
      BY <2>2, <3>2, <3>3 DEF RecordScholarshipTransaction
  <2>3. CASE ~RecordScholarshipTransaction(s)
    BY <2>1, <2>3
       DEF ApplicationStep, WorkerStep, Apply, CheckActiveScholarship, SaveScholarship,
           QueueJob, StartJob, FindEnrollment, SaveScholarshipEnrollment, FindTransaction,
           ApproveScholarship, NotifyApproval, ledger
  <2> QED
    BY <2>2, <2>3
<1>3. CASE WebhookNext
  <2>1. PICK h \in Handlers :
           (\E r \in ChargeRefs : DeliverSuccess(h, r) \/ DeliverFailure(h, r)) \/ HookStep(h)
    BY <1>3 DEF WebhookNext
  <2>2. CASE SettleScholarshipTransaction(h) \/ SettleTransaction(h)
    BY <2>2 DEF SettleScholarshipTransaction, SettleTransaction, Settling, ScholarshipSettling
  <2>3. CASE ~(SettleScholarshipTransaction(h) \/ SettleTransaction(h))
    BY <2>1, <2>3
       DEF HookStep, DeliverSuccess, DeliverFailure, MatchScholarshipTransaction,
           ActivateScholarshipEnrollment, LoadScholarship, MarkScholarshipPaid,
           FindTransactionByReference, ReactivateEnrollment, ActivatePaidEnrollment,
           NotifyEnrollment, MarkTransactionFailed, ledger
  <2> QED
    BY <2>2, <2>3
<1>4. CASE Environment \/ Crash \/ UNCHANGED vars
  BY <1>4 DEF Environment, Tick, UpdateCourse, PayLink, PayShop, Crash, vars, ledger
<1> QED
  BY <1>1, <1>2, <1>3, <1>4 DEF Next

\* Scholarships: created by the application, approved by the job, paid by the webhook.
LEMMA ScholarshipWrites ==
    ASSUME TypeOK, [Next]_vars
    PROVE  \/ UNCHANGED scholarship
           \/ \E s \in Scholarships :
                 \/ /\ job[s].need = "insert"
                    /\ scholarship' = [scholarship EXCEPT ![s] =
                          [status |-> "PENDING", user |-> job[s].user,
                           course |-> job[s].course]]
                    /\ job' = [job EXCEPT ![s].need = "queue"]
                    /\ UNCHANGED <<tx, enrollment, hook>>
                 \/ /\ job[s].need = "approve"
                    /\ scholarship' = [scholarship EXCEPT ![s].status = "APPROVED"]
                    /\ job' = [job EXCEPT ![s].need = "notify"]
                    /\ UNCHANGED <<tx, enrollment, hook>>
           \/ \E h \in Handlers :
                 /\ hook[h].need = "markPaid"
                 /\ scholarship' =
                       [scholarship EXCEPT ![tx[hook[h].tx].scholarship].status = "PAID"]
                 /\ hook' = [hook EXCEPT ![h].need = "notify"]
                 /\ UNCHANGED <<tx, enrollment, job>>
<1>1. CASE RequestNext
  BY <1>1 DEF RequestNext, RequestStep, CreateEnrollment, CheckActiveEnrollment,
              CheckPendingEnrollment, SaveEnrollment, LoadEnrollment, LoadCourse,
              CheckPendingTransaction, InitializeAtPaystack, RecordTransaction, ledger
<1>2. CASE ApprovalNext
  <2>1. PICK s \in Scholarships :
           \/ \E u \in Users, c \in Courses : Apply(s, u, c)
           \/ ApplicationStep(s) \/ WorkerStep(s)
    BY <1>2 DEF ApprovalNext
  <2>2. CASE SaveScholarship(s)
    BY <1>2, <2>2 DEF SaveScholarship, JobAwaits, ApprovalNext, webhook
  <2>3. CASE ApproveScholarship(s)
    BY <1>2, <2>3 DEF ApproveScholarship, JobAwaits, ApprovalNext, webhook
  <2>4. CASE ~(SaveScholarship(s) \/ ApproveScholarship(s))
    BY <2>1, <2>4
       DEF ApplicationStep, WorkerStep, Apply, CheckActiveScholarship, QueueJob,
           StartJob, FindEnrollment, SaveScholarshipEnrollment, FindTransaction,
           RecordScholarshipTransaction, NotifyApproval, ledger
  <2> QED
    BY <2>2, <2>3, <2>4
<1>3. CASE WebhookNext
  <2>1. PICK h \in Handlers :
           (\E r \in ChargeRefs : DeliverSuccess(h, r) \/ DeliverFailure(h, r)) \/ HookStep(h)
    BY <1>3 DEF WebhookNext
  <2>2. CASE MarkScholarshipPaid(h)
    BY <1>3, <2>2 DEF MarkScholarshipPaid, Continue, HookAwaits, WebhookNext
  <2>3. CASE ~MarkScholarshipPaid(h)
    BY <2>1, <2>3
       DEF HookStep, DeliverSuccess, DeliverFailure, MatchScholarshipTransaction,
           SettleScholarshipTransaction, ActivateScholarshipEnrollment, LoadScholarship,
           FindTransactionByReference, ReactivateEnrollment, SettleTransaction,
           ActivatePaidEnrollment, NotifyEnrollment, MarkTransactionFailed, ledger
  <2> QED
    BY <2>2, <2>3
<1>4. CASE Environment \/ Crash \/ UNCHANGED vars
  BY <1>4 DEF Environment, Tick, UpdateCourse, PayLink, PayShop, Crash, vars, ledger
<1> QED
  BY <1>1, <1>2, <1>3, <1>4 DEF Next

\* The approval job, the webhook and a crash leave Paystack's records alone.
LEMMA ChargesElsewhere ==
    ASSUME ApprovalNext \/ WebhookNext \/ Crash \/ UNCHANGED vars
    PROVE  UNCHANGED charge
<1>1. CASE ApprovalNext
  BY <1>1
     DEF ApprovalNext, ApplicationStep, WorkerStep, Apply, CheckActiveScholarship,
         SaveScholarship, QueueJob, StartJob, FindEnrollment, SaveScholarshipEnrollment,
         FindTransaction, RecordScholarshipTransaction, ApproveScholarship,
         NotifyApproval, ledger
<1>2. CASE WebhookNext
  BY <1>2
     DEF WebhookNext, HookStep, DeliverSuccess, DeliverFailure,
         MatchScholarshipTransaction, SettleScholarshipTransaction,
         ActivateScholarshipEnrollment, LoadScholarship, MarkScholarshipPaid,
         FindTransactionByReference, ReactivateEnrollment, SettleTransaction,
         ActivatePaidEnrollment, NotifyEnrollment, MarkTransactionFailed, ledger
<1>3. CASE Crash \/ UNCHANGED vars
  BY <1>3 DEF Crash, vars, ledger
<1> QED
  BY <1>1, <1>2, <1>3

\* Paystack opens and confirms charges; a confirmed charge stays as it is.
LEMMA ChargeWrites ==
    ASSUME TypeOK, [Next]_vars
    PROVE  \/ UNCHANGED charge
           \/ \E r \in ChargeRefs, d \in PaystackCharge :
                 /\ charge[r].status # "paid"
                 /\ charge' = [charge EXCEPT ![r] = d]
                 /\ UNCHANGED <<tx, enrollment>>
<1>1. CASE RequestNext
  <2>1. PICK q \in Requests :
           (\E u \in Users, t \in Targets : CreateEnrollment(q, u, t)) \/ RequestStep(q)
    BY <1>1 DEF RequestNext
  <2>2. CASE InitializeAtPaystack(q)
    <3> DEFINE d == [status |-> "open", payer |-> req[q].user, amount |-> req[q].price]
    <3>1. /\ req[q].ref \in ChargeRefs
          /\ req[q].price # NoPrice => d \in PaystackCharge
      BY DEF TypeOK, RequestTypeOK, RequestLocals, ChargeRefs, PaystackCharge
    <3>2. \/ UNCHANGED charge
          \/ /\ charge[req[q].ref].status # "paid" /\ req[q].price # NoPrice
             /\ charge' = [charge EXCEPT ![req[q].ref] = d]
             /\ UNCHANGED <<tx, enrollment>>
      BY <2>2 DEF InitializeAtPaystack
    <3> QED
      BY <3>1, <3>2
  <2>3. CASE ~InitializeAtPaystack(q)
    BY <2>1, <2>3
       DEF RequestStep, CreateEnrollment, CheckActiveEnrollment, CheckPendingEnrollment,
           SaveEnrollment, LoadEnrollment, LoadCourse, CheckPendingTransaction,
           RecordTransaction, ledger
  <2> QED
    BY <2>2, <2>3
<1>2. CASE ApprovalNext \/ WebhookNext \/ Crash \/ UNCHANGED vars
  BY <1>2, ChargesElsewhere
<1>3. CASE Environment
  <2>1. ASSUME NEW u \in Users, NEW r \in References, PayLink(u, r)
        PROVE  /\ charge[r].status # "paid"
               /\ charge' = [charge EXCEPT ![r] = [charge[r] EXCEPT !.status = "paid"]]
               /\ UNCHANGED <<tx, enrollment>>
    BY <2>1 DEF PayLink
  <2>2. \A r \in ChargeRefs : [charge[r] EXCEPT !.status = "paid"] \in PaystackCharge
    BY DEF TypeOK, LedgerTypeOK, PaystackCharge
  <2>3. ASSUME NEW r \in ShopRefs, NEW u \in Users \cup {Stranger}, NEW a \in Amounts,
               PayShop(r, u, a)
        PROVE  \E d \in PaystackCharge : /\ charge[r].status # "paid"
                                         /\ charge' = [charge EXCEPT ![r] = d]
                                         /\ UNCHANGED <<tx, enrollment>>
    BY <2>3 DEF PayShop, PaystackCharge
  <2>4. Tick \/ (\E c \in Courses : UpdateCourse(c)) => UNCHANGED charge
    BY DEF Tick, UpdateCourse
  <2>5. References \subseteq ChargeRefs /\ ShopRefs \subseteq ChargeRefs
    BY DEF ChargeRefs
  <2> QED
    BY <1>3, <2>1, <2>2, <2>3, <2>4, <2>5 DEF Environment
<1> QED
  BY <1>1, <1>2, <1>3 DEF Next

----------------------------------------------------------------------------
(* Nothing is taken back *)

\* A step that keeps the invariant takes no document back.
LEMMA AdvanceStep ==
    ASSUME IInv, [Next]_vars
    PROVE  Advance
<1>0. TypeOK
  BY DEF IInv
<1>1. EnrollmentsAdvance
  <2>1. CASE UNCHANGED enrollment
    BY <2>1 DEF EnrollmentsAdvance, HasEnrollment, HasActiveEnrollment
  <2>2. ASSUME NEW u \in Users, NEW t \in Targets, NEW st \in {"PENDING", "ACTIVE"}, NEW k,
               CanInsertEnrollment(u, t), InsertEnrollment(u, t, st, k)
        PROVE  EnrollmentsAdvance
    BY <2>2, <1>0
       DEF CanInsertEnrollment, InsertEnrollment, EnrollmentsAdvance, HasEnrollment,
           HasActiveEnrollment, TypeOK, LedgerTypeOK, EnrollmentDoc
  <2>3. ASSUME NEW u, NEW t, ActivateEnrollment(u, t)
        PROVE  EnrollmentsAdvance
    BY <2>3, <1>0
       DEF ActivateEnrollment, EnrollmentsAdvance, HasEnrollment, HasActiveEnrollment,
           TypeOK, LedgerTypeOK, EnrollmentDoc
  <2> QED
    BY <1>0, <2>1, <2>2, <2>3, EnrollmentWrites
<1>2. TransactionsAdvance
  <2>1. CASE UNCHANGED tx
    BY <2>1 DEF TransactionsAdvance
  <2>2. ASSUME NEW r \in References, NEW u, NEW c, NEW a, NEW url, NEW s,
               CanInsertTransaction(r, u, c), InsertTransaction(r, u, c, a, url, s)
        PROVE  TransactionsAdvance
    BY <2>2, <1>0 DEF CanInsertTransaction, InsertTransaction, TransactionsAdvance,
                      TypeOK, LedgerTypeOK
  <2>3. ASSUME NEW r \in References, tx' = [tx EXCEPT ![r].status = "SUCCESS"]
        PROVE  TransactionsAdvance
    BY <2>3, <1>0 DEF TransactionsAdvance, TypeOK, LedgerTypeOK
  <2>4. \A h \in Handlers : hook[h].tx \in References
    BY <1>0 DEF TypeOK, WebhookTypeOK, HookLocals
  <2> QED
    BY <1>0, <2>1, <2>2, <2>3, <2>4, TransactionWrites
<1>3. ScholarshipsAdvance
  <2>1. CASE UNCHANGED scholarship
    BY <2>1 DEF ScholarshipsAdvance
  <2>2. ASSUME NEW s \in Scholarships, NEW doc, scholarship[s].status = "none",
               scholarship' = [scholarship EXCEPT ![s] = doc]
        PROVE  ScholarshipsAdvance
    BY <2>2, <1>0 DEF ScholarshipsAdvance, TypeOK, LedgerTypeOK
  <2>3. ASSUME NEW s \in Scholarships, scholarship[s].status = "PENDING",
               scholarship' = [scholarship EXCEPT ![s].status = "APPROVED"]
        PROVE  ScholarshipsAdvance
    BY <2>3, <1>0 DEF ScholarshipsAdvance, TypeOK, LedgerTypeOK
  <2>4. ASSUME NEW s \in Scholarships, scholarship[s].status \in {"APPROVED", "PAID"},
               scholarship' = [scholarship EXCEPT ![s].status = "PAID"]
        PROVE  ScholarshipsAdvance
    BY <2>4, <1>0 DEF ScholarshipsAdvance, TypeOK, LedgerTypeOK, ScholarshipDoc
  <2>5. \A s \in Scholarships :
           /\ job[s].need = "insert" => scholarship[s].status = "none"
           /\ job[s].need = "approve" => scholarship[s].status = "PENDING"
    BY DEF IInv, JobMatches, Running
  <2>6. \A h \in Handlers :
           hook[h].need = "markPaid" =>
              /\ tx[hook[h].tx].scholarship \in Scholarships
              /\ scholarship[tx[hook[h].tx].scholarship].status \in {"APPROVED", "PAID"}
    BY <1>0 DEF IInv, HookMatches, ScholarshipSettling, TypeOK, WebhookTypeOK, HookLocals,
                LedgerTypeOK, TransactionDoc
  <2> QED
    BY <1>0, <2>1, <2>2, <2>3, <2>4, <2>5, <2>6, ScholarshipWrites
<1>4. ChargesAdvance
  BY <1>0, ChargeWrites DEF ChargesAdvance, TypeOK, LedgerTypeOK
<1> QED
  BY <1>1, <1>2, <1>3, <1>4 DEF Advance

----------------------------------------------------------------------------
(* What stays true while other handlers run *)

\* The funds behind an enrollment do not go away.
LEMMA FundsStay ==
    ASSUME TypeOK, Advance, NEW r \in ChargeRefs, NEW t \in References,
           NEW u, NEW c, Funds(r, t, u, c)
    PROVE  Funds(r, t, u, c)'
<1>1. tx'[t] \in {tx[t], [tx[t] EXCEPT !.status = "SUCCESS"]}
  BY DEF Funds, Advance, TransactionsAdvance
<1>2. charge'[r] = charge[r]
  BY DEF Funds, Advance, ChargesAdvance
<1>3. tx[t] \in TransactionDoc
  BY DEF TypeOK, LedgerTypeOK
<1> QED
  BY <1>1, <1>2, <1>3 DEF Funds, TransactionDoc

\* A transaction keeps its user, course, amount and scholarship.
LEMMA TransactionStays ==
    ASSUME TypeOK, Advance, NEW t \in References, tx[t].status # "none"
    PROVE  /\ tx'[t].status # "none"
           /\ tx'[t].user = tx[t].user
           /\ tx'[t].course = tx[t].course
           /\ tx'[t].amount = tx[t].amount
           /\ tx'[t].scholarship = tx[t].scholarship
<1>1. tx'[t] \in {tx[t], [tx[t] EXCEPT !.status = "SUCCESS"]}
  BY DEF Advance, TransactionsAdvance
<1>2. tx[t] \in TransactionDoc
  BY DEF TypeOK, LedgerTypeOK
<1> QED
  BY <1>1, <1>2 DEF TransactionDoc

\* A payment record stays the record of its user and course.
LEMMA HasTransactionStays ==
    ASSUME TypeOK, Advance, NEW u, NEW c, HasTransaction(u, c)
    PROVE  HasTransaction(u, c)'
  BY TransactionStays DEF HasTransaction, References

\* An application keeps its user and course, and once decided stays decided.
LEMMA ScholarshipStays ==
    ASSUME TypeOK, Advance, NEW s \in Scholarships, scholarship[s].status # "none"
    PROVE  /\ scholarship'[s].status # "none"
           /\ scholarship'[s].user = scholarship[s].user
           /\ scholarship'[s].course = scholarship[s].course
           /\ scholarship[s].status \in {"APPROVED", "PAID"}
                 => scholarship'[s].status \in {"APPROVED", "PAID"}
<1>1. \/ scholarship'[s] = scholarship[s]
      \/ /\ scholarship[s].status = "PENDING"
         /\ scholarship'[s] = [scholarship[s] EXCEPT !.status = "APPROVED"]
      \/ /\ scholarship[s].status = "APPROVED"
         /\ scholarship'[s] = [scholarship[s] EXCEPT !.status = "PAID"]
  BY DEF Advance, ScholarshipsAdvance
<1>2. scholarship[s] \in ScholarshipDoc
  BY DEF TypeOK, LedgerTypeOK
<1> QED
  BY <1>1, <1>2 DEF ScholarshipDoc

----------------------------------------------------------------------------
(* The invariant, part by part *)

\* An activation is made by a webhook that holds the funds of the enrollment.
LEMMA ActiveIsFundedStep ==
    ASSUME IInv, [Next]_vars
    PROVE  ActiveIsFunded'
<1> SUFFICES ASSUME NEW u \in Users, NEW c \in Courses, HasActiveEnrollment(u, c)'
             PROVE  \E r \in ChargeRefs, t \in References : Funds(r, t, u, c)'
  BY DEF ActiveIsFunded, ChargeRefs, References
<1>0. TypeOK /\ Advance
  BY AdvanceStep DEF IInv
<1>1. CASE HasActiveEnrollment(u, c)
  BY <1>0, <1>1, FundsStay DEF IInv, ActiveIsFunded
<1>2. CASE ~HasActiveEnrollment(u, c)
  <2>0. <<u, c>> \in Users \X Targets
    BY DEF Targets
  <2>1. PICK h \in Handlers :
           /\ hook[h].need \in Settling
           /\ ActivateEnrollment(tx[hook[h].tx].user, tx[hook[h].tx].course)
    <3>1. ~ UNCHANGED enrollment
      BY <1>2 DEF HasActiveEnrollment
    <3>2. ASSUME NEW v \in Users, NEW t \in Targets, NEW st \in {"PENDING", "ACTIVE"}, NEW k,
                 InsertEnrollment(v, t, st, k), st = "ACTIVE" => t \in Programs
          PROVE  FALSE
      BY <1>0, <1>2, <2>0, <3>2, LedgerAssumption
         DEF InsertEnrollment, HasActiveEnrollment, TypeOK, LedgerTypeOK
    <3> QED
      BY <1>0, <3>1, <3>2, EnrollmentWrites
  <2> DEFINE t == hook[h].tx
  <2>2. t \in References /\ hook[h].ref \in ChargeRefs
    BY <1>0 DEF TypeOK, WebhookTypeOK, HookLocals
  <2>3. Funds(hook[h].ref, t, tx[t].user, tx[t].course)
    BY <2>1 DEF IInv, HookMatches
  <2>4. tx[t].user = u /\ tx[t].course = c
    BY <1>0, <1>2, <2>0, <2>1 DEF ActivateEnrollment, HasActiveEnrollment, TypeOK, LedgerTypeOK
  <2> QED
    BY <1>0, <2>2, <2>3, <2>4, FundsStay
<1> QED
  BY <1>1, <1>2

\* A transaction of a scholarship is inserted by the job of that scholarship.
LEMMA TransactionMatchesStep ==
    ASSUME IInv, [Next]_vars
    PROVE  TransactionMatches'
<1>0. TypeOK /\ Advance /\ TransactionMatches
  BY AdvanceStep DEF IInv
<1> SUFFICES ASSUME NEW t \in References, tx'[t].status # "none",
                    tx'[t].scholarship # NoScholarship
             PROVE  LET s == tx'[t].scholarship
                    IN  /\ scholarship'[s].status # "none"
                        /\ scholarship'[s].user = tx'[t].user
                        /\ scholarship'[s].course = tx'[t].course
  BY DEF TransactionMatches, References
<1>1. CASE tx[t].status # "none"
  <2>1. tx[t].scholarship \in Scholarships
    BY <1>0, <1>1, TransactionStays DEF TypeOK, LedgerTypeOK, TransactionDoc
  <2> QED
    BY <1>0, <1>1, <2>1, TransactionStays, ScholarshipStays DEF TransactionMatches
<1>2. CASE tx[t].status = "none"
  <2>1. CASE UNCHANGED tx
    BY <1>2, <2>1
  <2>2. ASSUME NEW r \in References, NEW u, NEW c, NEW a, NEW url,
               NEW s \in Scholarships \cup {NoScholarship},
               InsertTransaction(r, u, c, a, url, s), UNCHANGED scholarship,
               s # NoScholarship =>
                  job[s].need = "record" /\ u = job[s].user /\ c = job[s].course
        PROVE  /\ tx'[t].scholarship = s
               /\ scholarship'[s].status # "none"
               /\ scholarship'[s].user = tx'[t].user
               /\ scholarship'[s].course = tx'[t].course
    <3>1. r = t
      BY <1>0, <1>2, <2>2 DEF InsertTransaction, TypeOK, LedgerTypeOK
    <3>2. tx'[t].user = u /\ tx'[t].course = c /\ tx'[t].scholarship = s
      BY <1>0, <2>2, <3>1 DEF InsertTransaction, TypeOK, LedgerTypeOK
    <3>3. s \in Scholarships /\ job[s].need = "record"
      BY <2>2, <3>2
    <3>4. /\ scholarship[s].status # "none"
          /\ scholarship[s].user = job[s].user /\ scholarship[s].course = job[s].course
      BY <3>3 DEF IInv, JobMatches
    <3> QED
      BY <2>2, <3>2, <3>3, <3>4
  <2>3. ASSUME NEW h \in Handlers, hook[h].need \in Settling,
               tx' = [tx EXCEPT ![hook[h].tx].status = "SUCCESS"]
        PROVE  FALSE
    <3>1. hook[h].tx \in References /\ tx[hook[h].tx].status # "none"
      BY <1>0, <2>3 DEF IInv, HookMatches, Funds, TypeOK, WebhookTypeOK, HookLocals
    <3> QED
      BY <1>0, <1>2, <2>3, <3>1 DEF TypeOK, LedgerTypeOK
  <2> QED
    BY <1>0, <2>1, <1>2, <2>2, <2>3, TransactionWrites
<1> QED
  BY <1>1, <1>2

\* The approval is written by a job that has seen the enrollment and the
\* transaction, PAID by a webhook that has activated the enrollment.
LEMMA ApprovedHasPaymentRecordStep ==
    ASSUME IInv, [Next]_vars
    PROVE  ApprovedHasPaymentRecord' /\ PaidHasAccess'
<1>0. TypeOK /\ Advance
  BY AdvanceStep DEF IInv
<1>e. \A u \in Users, c \in Courses :
         /\ HasEnrollment(u, c) => HasEnrollment(u, c)'
         /\ HasActiveEnrollment(u, c) => HasActiveEnrollment(u, c)'
         /\ HasTransaction(u, c) => HasTransaction(u, c)'
         /\ HasActiveEnrollment(u, c) => HasEnrollment(u, c)
  BY <1>0, HasTransactionStays
     DEF Advance, EnrollmentsAdvance, Targets, HasActiveEnrollment, HasEnrollment
<1> SUFFICES ASSUME NEW s \in Scholarships, scholarship'[s].status \in {"APPROVED", "PAID"}
             PROVE  \E u \in Users, c \in Courses :
                        /\ scholarship'[s].user = u /\ scholarship'[s].course = c
                        /\ HasEnrollment(u, c)' /\ HasTransaction(u, c)'
                        /\ scholarship'[s].status = "PAID" => HasActiveEnrollment(u, c)'
  <2>1. ASSUME \A s \in Scholarships : scholarship'[s].status \in {"APPROVED", "PAID"} =>
                 \E u \in Users, c \in Courses :
                     /\ scholarship'[s].user = u /\ scholarship'[s].course = c
                     /\ HasEnrollment(u, c)' /\ HasTransaction(u, c)'
                     /\ scholarship'[s].status = "PAID" => HasActiveEnrollment(u, c)'
        PROVE  ApprovedHasPaymentRecord'
    BY <2>1 DEF ApprovedHasPaymentRecord, HasEnrollment, HasTransaction, References
  <2>2. ASSUME \A s \in Scholarships : scholarship'[s].status \in {"APPROVED", "PAID"} =>
                 \E u \in Users, c \in Courses :
                     /\ scholarship'[s].user = u /\ scholarship'[s].course = c
                     /\ HasEnrollment(u, c)' /\ HasTransaction(u, c)'
                     /\ scholarship'[s].status = "PAID" => HasActiveEnrollment(u, c)'
        PROVE  PaidHasAccess'
    BY <2>2 DEF PaidHasAccess, HasActiveEnrollment
  <2> QED
    BY <2>1, <2>2
<1>t. scholarship[s].user \in Users /\ scholarship[s].course \in Courses
  BY <1>0 DEF TypeOK, LedgerTypeOK, ScholarshipDoc
<1>1. CASE scholarship'[s] = scholarship[s]
  BY <1>1, <1>e, <1>t DEF IInv, ApprovedHasPaymentRecord, PaidHasAccess
<1>2. CASE scholarship'[s] # scholarship[s]
  <2>1. ASSUME NEW x \in Scholarships, job[x].need = "insert", NEW u, NEW c,
               scholarship' = [scholarship EXCEPT ![x] =
                                 [status |-> "PENDING", user |-> u, course |-> c]]
        PROVE  FALSE
    BY <1>0, <1>2, <2>1 DEF TypeOK, LedgerTypeOK
  <2>2. ASSUME NEW x \in Scholarships, job[x].need = "approve",
               scholarship' = [scholarship EXCEPT ![x].status = "APPROVED"]
        PROVE  /\ scholarship'[s] = [scholarship[s] EXCEPT !.status = "APPROVED"]
               /\ HasEnrollment(scholarship[s].user, scholarship[s].course)
               /\ HasTransaction(scholarship[s].user, scholarship[s].course)
    <3>1. x = s
      BY <1>0, <1>2, <2>2 DEF TypeOK, LedgerTypeOK
    <3> QED
      BY <1>0, <2>2, <3>1 DEF IInv, JobMatches, TypeOK, LedgerTypeOK
  <2>3. ASSUME NEW h \in Handlers, hook[h].need = "markPaid",
               scholarship' = [scholarship EXCEPT ![tx[hook[h].tx].scholarship].status = "PAID"]
        PROVE  /\ scholarship'[s] = [scholarship[s] EXCEPT !.status = "PAID"]
               /\ HasActiveEnrollment(scholarship[s].user, scholarship[s].course)
               /\ HasTransaction(scholarship[s].user, scholarship[s].course)
    <3> DEFINE t == hook[h].tx
    <3>1. tx[t].scholarship = s
      BY <1>0, <1>2, <2>3 DEF TypeOK, LedgerTypeOK
    <3>2. /\ t \in References /\ tx[t].status # "none"
          /\ HasActiveEnrollment(tx[t].user, tx[t].course)
      BY <1>0, <2>3 DEF IInv, HookMatches, Funds, Settling, ScholarshipSettling, TypeOK,
                        WebhookTypeOK, HookLocals
    <3>3. s # NoScholarship
      BY LedgerAssumption
    <3>4. scholarship[s].user = tx[t].user /\ scholarship[s].course = tx[t].course
      BY <3>1, <3>2, <3>3 DEF IInv, TransactionMatches
    <3>5. scholarship'[s] = [scholarship[s] EXCEPT !.status = "PAID"]
      BY <1>0, <2>3, <3>1 DEF TypeOK, LedgerTypeOK
    <3> QED
      BY <3>2, <3>4, <3>5 DEF HasTransaction
  <2>4. \/ /\ scholarship'[s] = [scholarship[s] EXCEPT !.status = "APPROVED"]
           /\ HasEnrollment(scholarship[s].user, scholarship[s].course)
           /\ HasTransaction(scholarship[s].user, scholarship[s].course)
        \/ /\ scholarship'[s] = [scholarship[s] EXCEPT !.status = "PAID"]
           /\ HasActiveEnrollment(scholarship[s].user, scholarship[s].course)
           /\ HasTransaction(scholarship[s].user, scholarship[s].course)
    BY <1>0, <1>2, <2>1, <2>2, <2>3, ScholarshipWrites
  <2>5. scholarship[s] \in ScholarshipDoc
    BY <1>0 DEF TypeOK, LedgerTypeOK
  <2>6. /\ scholarship'[s].user = scholarship[s].user
        /\ scholarship'[s].course = scholarship[s].course
        /\ scholarship'[s].status = "PAID"
              => HasActiveEnrollment(scholarship[s].user, scholarship[s].course)
    BY <2>4, <2>5 DEF ScholarshipDoc
  <2> QED
    BY <2>4, <2>6, <1>e, <1>t
<1> QED
  BY <1>1, <1>2

\* The moves of an application and its job, with what the awaited call told.
LEMMA JobMoves ==
    ASSUME TypeOK, [Next]_vars, NEW s \in Scholarships
    PROVE  LET j == job[s]
               k == job'[s]
               same == k.user = j.user /\ k.course = j.course
           IN  \/ k = j
               \/ /\ {j.need, k.need} \subseteq {"absent", "guard", "insert"}
                  /\ UNCHANGED scholarship
               \/ /\ j.need = "insert" /\ k.need = "queue" /\ same
                  /\ scholarship'[s] = [status |-> "PENDING", user |-> j.user,
                                        course |-> j.course]
               \/ /\ j.need \notin {"absent", "guard", "insert"} /\ same
                  /\ k.need \notin {"absent", "guard", "insert"} \cup Running
               \/ /\ j.need = "waiting" /\ k.need = "enrollment" /\ same
                  /\ scholarship[s].status = "PENDING"
                  /\ UNCHANGED scholarship
               \/ /\ j.need \in {"enrollment", "enroll"} /\ same
                  /\ k.need \in {"enroll", "transaction"}
                  /\ k.need = "transaction" =>
                        enrollment'[<<j.user, j.course>>].status # "none"
                  /\ UNCHANGED scholarship
               \/ /\ j.need \in {"transaction", "record"} /\ same
                  /\ k.need \in {"record", "approve"}
                  /\ k.need = "approve" =>
                        \E t \in References : /\ tx'[t].status # "none"
                                              /\ tx'[t].user = j.user
                                              /\ tx'[t].course = j.course
                  /\ UNCHANGED scholarship
               \/ j.need = "approve" /\ k.need = "notify" /\ same
<1> DEFINE j == job[s]
           k == job'[s]
<1>t. job \in [Scholarships -> JobDoc] /\ job[s] \in JobDoc
  BY DEF TypeOK, ApprovalTypeOK
<1>f. ASSUME FailJob(s)
      PROVE  k.user = j.user /\ k.course = j.course /\ k.need \in {"waiting", "failed"}
  BY <1>t, <1>f DEF FailJob, Attempted, JobDoc
<1>1. CASE ApprovalNext
  <2>1. PICK x \in Scholarships :
           \/ \E u \in Users, c \in Courses : Apply(x, u, c)
           \/ ApplicationStep(x) \/ WorkerStep(x)
    BY <1>1 DEF ApprovalNext
  <2>2. CASE x # s
    <3>1. k = j
      BY <1>t, <2>1, <2>2
         DEF ApplicationStep, WorkerStep, Apply, CheckActiveScholarship, SaveScholarship,
             QueueJob, StartJob, FindEnrollment, SaveScholarshipEnrollment, FindTransaction,
             RecordScholarshipTransaction, ApproveScholarship, NotifyApproval, FailJob,
             JobAwaits
    <3> QED
      BY <3>1
  <2>3. CASE x = s /\ \E u \in Users, c \in Courses : Apply(x, u, c)
    BY <1>t, <2>3 DEF Apply, JobDoc, ledger
  <2>4. CASE x = s /\ ApplicationStep(x)
    <3>1. CASE CheckActiveScholarship(s)
      BY <1>t, <3>1 DEF CheckActiveScholarship, JobAwaits, JobDoc, ledger
    <3>2. CASE SaveScholarship(s)
      BY <1>t, <3>2 DEF SaveScholarship, JobAwaits, JobDoc, TypeOK, LedgerTypeOK
    <3>3. CASE QueueJob(s)
      BY <1>t, <3>3 DEF QueueJob, JobAwaits, JobDoc, Running
    <3> QED
      BY <2>4, <3>1, <3>2, <3>3 DEF ApplicationStep
  <2>5. CASE x = s /\ WorkerStep(x)
    <3>1. CASE StartJob(s)
      <4>1. CASE FailJob(s)
        BY <1>f, <3>1, <4>1 DEF StartJob, Running
      <4>2. CASE job' = [job EXCEPT ![s] =
                     [@ EXCEPT !.need = "enrollment",
                               !.amount = course[job[s].course].scholarshipPrice]]
                 /\ scholarship[s].status = "PENDING"
        BY <1>t, <3>1, <4>2 DEF StartJob, JobDoc
      <4>3. CASE JobAwaits(s, "completed")
        BY <1>t, <3>1, <4>3 DEF StartJob, JobAwaits, JobDoc, Running
      <4> QED
        BY <3>1, <4>1, <4>2, <4>3 DEF StartJob
    <3>2. CASE FindEnrollment(s)
      BY <1>t, <3>2 DEF FindEnrollment, JobAwaits, JobDoc, HasEnrollment
    <3>3. CASE SaveScholarshipEnrollment(s)
      <4>1. CASE FailJob(s)
        BY <1>f, <3>3, <4>1 DEF SaveScholarshipEnrollment, Running
      <4>2. CASE InsertEnrollment(j.user, j.course, "PENDING", "SCHOLARSHIP")
                 /\ JobAwaits(s, "transaction")
        <5>1. <<j.user, j.course>> \in Users \X Targets
          BY <1>t DEF JobDoc, Targets
        <5>2. enrollment'[<<j.user, j.course>>].status # "none"
          BY <4>2, <5>1 DEF InsertEnrollment, TypeOK, LedgerTypeOK
        <5>3. k = [j EXCEPT !.need = "transaction"]
          BY <1>t, <4>2 DEF JobAwaits
        <5> QED
          BY <1>t, <3>3, <5>2, <5>3 DEF SaveScholarshipEnrollment, JobDoc
      <4> QED
        BY <3>3, <4>1, <4>2 DEF SaveScholarshipEnrollment
    <3>4. CASE FindTransaction(s)
      <4>1. j.need = "transaction" /\ UNCHANGED <<tx, scholarship>>
        BY <3>4 DEF FindTransaction
      <4>2. CASE JobAwaits(s, "approve") /\ PendingTransactions(j.user, j.course) # {}
        <5>1. \E t \in References : /\ tx[t].status # "none"
                                    /\ tx[t].user = j.user /\ tx[t].course = j.course
          BY <4>2 DEF PendingTransactions
        <5>2. k = [j EXCEPT !.need = "approve"]
          BY <1>t, <4>2 DEF JobAwaits
        <5> QED
          BY <1>t, <4>1, <5>1, <5>2 DEF JobDoc
      <4>3. CASE job' = [job EXCEPT ![s] = [@ EXCEPT !.need = "record", !.ref = now]]
        BY <1>t, <4>1, <4>3 DEF JobDoc
      <4> QED
        BY <3>4, <4>2, <4>3 DEF FindTransaction
    <3>5. CASE RecordScholarshipTransaction(s)
      <4>1. CASE FailJob(s)
        BY <1>f, <3>5, <4>1 DEF RecordScholarshipTransaction, Running
      <4>2. CASE InsertTransaction(j.ref, j.user, j.course, j.amount, FALSE, s)
                 /\ JobAwaits(s, "approve")
        <5>1. j.ref \in References
          BY <1>t DEF JobDoc
        <5>2. /\ tx'[j.ref].status # "none"
              /\ tx'[j.ref].user = j.user /\ tx'[j.ref].course = j.course
          BY <4>2, <5>1 DEF InsertTransaction, TypeOK, LedgerTypeOK
        <5>3. k = [j EXCEPT !.need = "approve"]
          BY <1>t, <4>2 DEF JobAwaits
        <5> QED
          BY <1>t, <3>5, <5>1, <5>2, <5>3 DEF RecordScholarshipTransaction, JobDoc
      <4> QED
        BY <3>5, <4>1, <4>2 DEF RecordScholarshipTransaction
    <3>6. CASE ApproveScholarship(s)
      <4>1. CASE FailJob(s)
        BY <1>f, <3>6, <4>1 DEF ApproveScholarship, Running
      <4>2. CASE JobAwaits(s, "notify")
        BY <1>t, <3>6, <4>2 DEF ApproveScholarship, JobAwaits, JobDoc
      <4> QED
        BY <3>6, <4>1, <4>2 DEF ApproveScholarship
    <3>7. CASE NotifyApproval(s)
      <4>1. CASE FailJob(s)
        BY <1>f, <3>7, <4>1 DEF NotifyApproval, Running
      <4>2. CASE JobAwaits(s, "completed")
        BY <1>t, <3>7, <4>2 DEF NotifyApproval, JobAwaits, JobDoc, Running
      <4> QED
        BY <3>7, <4>1, <4>2 DEF NotifyApproval
    <3> QED
      BY <2>5, <3>1, <3>2, <3>3, <3>4, <3>5, <3>6, <3>7 DEF WorkerStep
  <2> QED
    BY <2>1, <2>2, <2>3, <2>4, <2>5
<1>2. CASE Crash
  <2>1. k = AfterCrash(j) /\ UNCHANGED scholarship
    BY <1>2 DEF Crash, DropApplicationsAndStallJobs, ledger
  <2>2. CASE j.need \in {"guard", "insert"}
    <3>1. k = [j EXCEPT !.need = "absent"]
      BY <2>1, <2>2 DEF AfterCrash, Running
    <3> QED
      BY <1>t, <2>1, <2>2, <3>1 DEF JobDoc
  <2>3. CASE j.need = "queue"
    <3>1. k = [j EXCEPT !.need = "lost"]
      BY <2>1, <2>3 DEF AfterCrash, Running
    <3> QED
      BY <1>t, <2>3, <3>1 DEF JobDoc, Running
  <2>4. CASE j.need \in Running
    <3>1. k = IF j.stalls < MaxStalls
              THEN [j EXCEPT !.need = "waiting", !.stalls = @ + 1]
              ELSE [j EXCEPT !.need = "failed"]
      BY <2>1, <2>4 DEF AfterCrash, Running
    <3>2. k.user = j.user /\ k.course = j.course /\ k.need \in {"waiting", "failed"}
      BY <1>t, <3>1 DEF JobDoc
    <3> QED
      BY <2>4, <3>2 DEF Running
  <2>5. CASE j.need \notin {"guard", "insert", "queue"} \cup Running
    <3>1. k = j
      BY <2>1, <2>5 DEF AfterCrash, Running
    <3> QED
      BY <3>1
  <2> QED
    BY <2>2, <2>3, <2>4, <2>5
<1>3. CASE Environment \/ RequestNext \/ WebhookNext \/ UNCHANGED vars
  BY <1>3 DEF Environment, RequestNext, WebhookNext, vars
<1> QED
  BY <1>1, <1>2, <1>3 DEF Next

\* Between its awaits an application, and the enrollment and the transaction
\* its job found, change in no way the job could be wrong about.
LEMMA JobMatchesStep ==
    ASSUME IInv, [Next]_vars
    PROVE  JobMatches'
<1>0. TypeOK /\ Advance
  BY AdvanceStep DEF IInv
<1> SUFFICES ASSUME NEW s \in Scholarships
             PROVE  LET k == job'[s]
                        d == scholarship'[s]
                    IN  /\ k.need \in {"absent", "guard", "insert"} => d.status = "none"
                        /\ k.need \notin {"absent", "guard", "insert"} =>
                              /\ d.status # "none"
                              /\ d.user = k.user /\ d.course = k.course
                        /\ k.need \in Running \ {"notify"} => d.status = "PENDING"
                        /\ k.need \in {"transaction", "record", "approve"} =>
                              enrollment'[<<k.user, k.course>>].status # "none"
                        /\ k.need = "approve" =>
                              \E t \in References : /\ tx'[t].status # "none"
                                                    /\ tx'[t].user = k.user
                                                    /\ tx'[t].course = k.course
  BY DEF JobMatches, HasEnrollment, HasTransaction, References, Running
<1> DEFINE j == job[s]
           k == job'[s]
           d == scholarship[s]
<1>t. j \in JobDoc /\ d \in ScholarshipDoc /\ NoScholarship # s
  BY <1>0, LedgerAssumption DEF TypeOK, ApprovalTypeOK, LedgerTypeOK
<1>j. /\ j.need \in {"absent", "guard", "insert"} => d.status = "none"
      /\ j.need \notin {"absent", "guard", "insert"} =>
            d.status # "none" /\ d.user = j.user /\ d.course = j.course
      /\ j.need \in Running \ {"notify"} => d.status = "PENDING"
      /\ j.need \in {"transaction", "record", "approve"} =>
            enrollment[<<j.user, j.course>>].status # "none"
      /\ j.need = "approve" => HasTransaction(j.user, j.course)
  BY DEF IInv, JobMatches, HasEnrollment
<1>e. enrollment[<<j.user, j.course>>].status # "none" =>
         enrollment'[<<j.user, j.course>>].status # "none"
  BY <1>0, <1>t DEF Advance, EnrollmentsAdvance, HasEnrollment, JobDoc, Targets
<1>h. HasTransaction(j.user, j.course) =>
         \E t \in References : /\ tx'[t].status # "none"
                               /\ tx'[t].user = j.user /\ tx'[t].course = j.course
  BY <1>0, TransactionStays DEF HasTransaction
<1>d. d.status # "none" => /\ scholarship'[s].status # "none"
                           /\ scholarship'[s].user = d.user
                           /\ scholarship'[s].course = d.course
  BY <1>0, ScholarshipStays
<1>1. CASE k = j
  <2>1. d.status \in {"none", "PENDING"} => scholarship'[s] = d
    <3>1. ASSUME NEW x \in Scholarships, job'[x] # job[x], NEW doc,
                 scholarship' = [scholarship EXCEPT ![x] = doc]
          PROVE  scholarship'[s] = d
      BY <1>0, <1>1, <3>1 DEF TypeOK, LedgerTypeOK
    <3>2. ASSUME NEW h \in Handlers, hook[h].need = "markPaid",
                 scholarship' = [scholarship EXCEPT ![tx[hook[h].tx].scholarship].status = "PAID"]
          PROVE  d.status \in {"none", "PENDING"} => scholarship'[s] = d
      <4>1. scholarship[tx[hook[h].tx].scholarship].status \in {"APPROVED", "PAID"}
        BY <3>2 DEF IInv, HookMatches
      <4> QED
        BY <1>0, <3>2, <4>1 DEF TypeOK, LedgerTypeOK
    <3>3. ASSUME NEW x \in Scholarships, job[x].need \in {"insert", "approve"},
                 \/ job' = [job EXCEPT ![x].need = "queue"]
                 \/ job' = [job EXCEPT ![x].need = "notify"]
          PROVE  job'[x] # job[x]
      <4>1. job \in [Scholarships -> JobDoc] /\ job[x] \in JobDoc
        BY <1>0 DEF TypeOK, ApprovalTypeOK
      <4>2. job'[x].need \in {"queue", "notify"}
        BY <3>3, <4>1 DEF JobDoc
      <4> QED
        BY <3>3, <4>2
    <3>4. ASSUME NEW x \in Scholarships, job[x].need \in {"insert", "approve"},
                 \/ job' = [job EXCEPT ![x].need = "queue"]
                 \/ job' = [job EXCEPT ![x].need = "notify"],
                 \/ \E doc : scholarship' = [scholarship EXCEPT ![x] = doc]
                 \/ scholarship' = [scholarship EXCEPT ![x].status = "APPROVED"]
          PROVE  scholarship'[s] = d
      <4>1. job'[x] # job[x]
        BY <3>3, <3>4
      <4>2. CASE \E doc : scholarship' = [scholarship EXCEPT ![x] = doc]
        BY <3>1, <4>1, <4>2
      <4>3. CASE scholarship' = [scholarship EXCEPT ![x].status = "APPROVED"]
        BY <1>0, <1>1, <4>1, <4>3 DEF TypeOK, LedgerTypeOK
      <4> QED
        BY <3>4, <4>2, <4>3
    <3> QED
      BY <1>0, <3>2, <3>4, ScholarshipWrites
  <2>2. d.status = "none" \/ scholarship'[s].status # "none"
    BY <1>d
  <2> QED
    BY <1>1, <1>j, <1>e, <1>h, <1>d, <2>1 DEF Running
<1>2. CASE {j.need, k.need} \subseteq {"absent", "guard", "insert"} /\ UNCHANGED scholarship
  BY <1>2, <1>j DEF Running
<1>3. CASE /\ j.need = "insert" /\ k.need = "queue"
           /\ k.user = j.user /\ k.course = j.course
           /\ scholarship'[s] = [status |-> "PENDING", user |-> j.user, course |-> j.course]
  BY <1>3 DEF Running
<1>4. CASE /\ j.need \notin {"absent", "guard", "insert"}
           /\ k.user = j.user /\ k.course = j.course
           /\ k.need \notin {"absent", "guard", "insert"} \cup Running
  BY <1>4, <1>j, <1>d DEF Running
<1>5. CASE /\ j.need = "waiting" /\ k.need = "enrollment" /\ d.status = "PENDING"
           /\ k.user = j.user /\ k.course = j.course
           /\ UNCHANGED scholarship
  BY <1>5, <1>j
<1>6. CASE /\ j.need \in {"enrollment", "enroll"} /\ k.need \in {"enroll", "transaction"}
           /\ k.user = j.user /\ k.course = j.course
           /\ k.need = "transaction" => enrollment'[<<j.user, j.course>>].status # "none"
           /\ UNCHANGED scholarship
  BY <1>6, <1>j DEF Running
<1>7. CASE /\ j.need \in {"transaction", "record"} /\ k.need \in {"record", "approve"}
           /\ k.user = j.user /\ k.course = j.course
           /\ k.need = "approve" =>
                 \E t \in References : /\ tx'[t].status # "none"
                                       /\ tx'[t].user = j.user
                                       /\ tx'[t].course = j.course
           /\ UNCHANGED scholarship
  BY <1>7, <1>j, <1>e DEF Running
<1>8. CASE /\ j.need = "approve" /\ k.need = "notify"
           /\ k.user = j.user /\ k.course = j.course
  BY <1>8, <1>j, <1>d
<1> QED
  BY <1>0, <1>1, <1>2, <1>3, <1>4, <1>5, <1>6, <1>7, <1>8, JobMoves

\* The moves of a webhook request, with what the awaited call told.
LEMMA HookMoves ==
    ASSUME TypeOK, [Next]_vars, NEW h \in Handlers
    PROVE  LET i == hook[h]
               k == hook'[h]
               held == k.ref = i.ref /\ k.tx = i.tx
           IN  \/ k = i
               \/ k.need \in {"idle", "failure"}
               \/ k.need = "match" /\ charge[k.ref].status = "paid"
               \/ i.need = "match" /\ k.need = "lookup" /\ k.ref = i.ref
               \/ i.need = "markPaid" /\ k.need = "notify" /\ k.ref = i.ref
               \/ /\ i.need = "match" /\ k.need = "settleScholarship" /\ k.ref = i.ref
                  /\ k.tx \in PendingScholarshipTransactions(charge[i.ref].payer,
                                                             charge[i.ref].amount)
               \/ /\ i.need = "lookup" /\ k.need \in {"reactivate", "settle"}
                  /\ k.ref = i.ref /\ k.tx = i.ref /\ i.ref \in References
                  /\ tx[i.ref].status # "none" /\ tx[i.ref].amount = charge[i.ref].amount
                  /\ k.need = "reactivate" => tx[i.ref].status = "SUCCESS"
               \/ /\ i.need = "settle" /\ k.need = "activate" /\ held
                  /\ tx' = [tx EXCEPT ![i.tx].status = "SUCCESS"]
               \/ /\ i.need = "activate" /\ k.need = "notify" /\ held
                  /\ ActivateEnrollment(tx[i.tx].user, tx[i.tx].course)
                  /\ UNCHANGED tx
               \/ /\ i.need = "settleScholarship" /\ k.need = "activateScholarship" /\ held
               \/ /\ i.need = "activateScholarship" /\ k.need = "scholarship" /\ held
                  /\ ActivateEnrollment(tx[i.tx].user, tx[i.tx].course)
                  /\ UNCHANGED tx
               \/ /\ i.need = "scholarship" /\ k.need = "markPaid" /\ held
                  /\ scholarship[tx[i.tx].scholarship].status = "APPROVED"
                  /\ UNCHANGED <<tx, enrollment, scholarship>>
<1> DEFINE i == hook[h]
           k == hook'[h]
<1>t. hook \in [Handlers -> HookLocals] /\ hook[h] \in HookLocals
  BY DEF TypeOK, WebhookTypeOK
<1>1. CASE WebhookNext
  <2>1. PICK x \in Handlers :
           (\E r \in ChargeRefs : DeliverSuccess(x, r) \/ DeliverFailure(x, r)) \/ HookStep(x)
    BY <1>1 DEF WebhookNext
  <2>2. CASE x # h
    <3>1. k = i
      BY <1>t, <2>1, <2>2
         DEF HookStep, DeliverSuccess, DeliverFailure, MatchScholarshipTransaction,
             SettleScholarshipTransaction, ActivateScholarshipEnrollment, LoadScholarship,
             MarkScholarshipPaid, FindTransactionByReference, ReactivateEnrollment,
             SettleTransaction, ActivatePaidEnrollment, NotifyEnrollment,
             MarkTransactionFailed, HookAwaits, Accept, Throw, Continue
    <3> QED
      BY <3>1
  <2>3. CASE x = h /\ \E r \in ChargeRefs : DeliverSuccess(x, r) \/ DeliverFailure(x, r)
    BY <1>t, <2>3 DEF DeliverSuccess, DeliverFailure
  <2>4. ASSUME Accept(h) \/ Throw(h)
        PROVE  k.need = "idle"
    BY <1>t, <2>4 DEF Accept, Throw, IdleHook
  <2>5. ASSUME NEW call, HookAwaits(h, call)
        PROVE  k.need = call /\ k.ref = i.ref /\ k.tx = i.tx
    BY <1>t, <2>5 DEF HookAwaits, HookLocals
  <2>6. CASE x = h /\ HookStep(x)
    <3>1. CASE MatchScholarshipTransaction(h)
      <4>1. CASE HookAwaits(h, "lookup")
        BY <2>5, <3>1, <4>1 DEF MatchScholarshipTransaction
      <4>2. ASSUME NEW t \in PendingScholarshipTransactions(charge[i.ref].payer,
                                                            charge[i.ref].amount),
                   hook' = [hook EXCEPT ![h] =
                              [@ EXCEPT !.need = "settleScholarship", !.tx = t]]
            PROVE  k.need = "settleScholarship" /\ k.ref = i.ref /\ k.tx = t
        BY <1>t, <4>2 DEF HookLocals
      <4> QED
        BY <3>1, <4>1, <4>2 DEF MatchScholarshipTransaction
    <3>2. CASE SettleScholarshipTransaction(h)
      BY <2>5, <3>2 DEF SettleScholarshipTransaction, Continue
    <3>3. CASE ActivateScholarshipEnrollment(h)
      BY <2>4, <2>5, <3>3 DEF ActivateScholarshipEnrollment, Continue
    <3>4. CASE LoadScholarship(h)
      BY <2>4, <2>5, <3>4 DEF LoadScholarship, Continue
    <3>5. CASE MarkScholarshipPaid(h)
      BY <2>5, <3>5 DEF MarkScholarshipPaid, Continue
    <3>6. CASE FindTransactionByReference(h)
      <4>1. CASE Throw(h)
        BY <2>4, <4>1
      <4>2. CASE /\ i.ref \in References
                 /\ tx[i.ref].status # "none" /\ tx[i.ref].amount = charge[i.ref].amount
                 /\ hook' = [hook EXCEPT ![h] =
                       [@ EXCEPT !.need = IF tx[i.ref].status = "SUCCESS"
                                          THEN "reactivate" ELSE "settle",
                                 !.tx = i.ref]]
        <5>1. /\ k.need \in {"reactivate", "settle"}
              /\ k.need = "reactivate" => tx[i.ref].status = "SUCCESS"
              /\ k.ref = i.ref /\ k.tx = i.ref
          BY <1>t, <4>2 DEF HookLocals
        <5> QED
          BY <3>6, <4>2, <5>1 DEF FindTransactionByReference
      <4> QED
        BY <3>6, <4>1, <4>2 DEF FindTransactionByReference
    <3>7. CASE ReactivateEnrollment(h)
      BY <2>4, <3>7 DEF ReactivateEnrollment
    <3>8. CASE SettleTransaction(h)
      BY <2>4, <2>5, <3>8 DEF SettleTransaction, Continue
    <3>9. CASE ActivatePaidEnrollment(h)
      BY <2>4, <2>5, <3>9 DEF ActivatePaidEnrollment, Continue
    <3>10. CASE NotifyEnrollment(h)
      BY <2>4, <3>10 DEF NotifyEnrollment
    <3>11. CASE MarkTransactionFailed(h)
      BY <1>t, <3>11 DEF MarkTransactionFailed, IdleHook
    <3> QED
      BY <2>6, <3>1, <3>2, <3>3, <3>4, <3>5, <3>6, <3>7, <3>8, <3>9, <3>10, <3>11
         DEF HookStep
  <2> QED
    BY <2>1, <2>2, <2>3, <2>6
<1>2. CASE Crash
  BY <1>2 DEF Crash, DropHooks, IdleHook
<1>3. CASE Environment \/ RequestNext \/ ApprovalNext \/ UNCHANGED vars
  BY <1>3 DEF Environment, RequestNext, ApprovalNext, vars, webhook
<1> QED
  BY <1>1, <1>2, <1>3 DEF Next

\* What a webhook request holds stays right while others run between its awaits.
LEMMA HookMatchesStep ==
    ASSUME IInv, [Next]_vars
    PROVE  HookMatches'
<1>0. TypeOK /\ Advance /\ HookMatches
  BY AdvanceStep DEF IInv
<1> SUFFICES ASSUME NEW h \in Handlers
             PROVE  LET k == hook'[h]
                        t == tx'[k.tx]
                    IN  /\ k.need \notin {"idle", "failure"} => charge'[k.ref].status = "paid"
                        /\ k.need \in Settling =>
                              /\ t.status # "none"
                              /\ charge'[k.ref].status = "paid"
                              /\ charge'[k.ref].amount = t.amount
                              /\ charge'[k.ref].payer = t.user \/ k.ref = k.tx
                        /\ k.need \in ScholarshipSettling => t.scholarship # NoScholarship
                        /\ k.need \in {"scholarship", "markPaid"} =>
                              enrollment'[<<t.user, t.course>>].status = "ACTIVE"
                        /\ k.need = "markPaid" =>
                              scholarship'[t.scholarship].status \in {"APPROVED", "PAID"}
  BY DEF HookMatches, Funds, HasActiveEnrollment
<1> DEFINE i == hook[h]
           k == hook'[h]
           held == k.ref = i.ref /\ k.tx = i.tx
           T == tx[i.tx]
<1>t. i \in HookLocals /\ i.tx \in References /\ i.ref \in ChargeRefs /\ T \in TransactionDoc
  BY <1>0 DEF TypeOK, WebhookTypeOK, HookLocals, LedgerTypeOK
<1>h. /\ i.need \notin {"idle", "failure"} => charge[i.ref].status = "paid"
      /\ i.need \in Settling =>
            /\ T.status # "none"
            /\ charge[i.ref].amount = T.amount
            /\ charge[i.ref].payer = T.user \/ i.ref = i.tx
      /\ i.need \in ScholarshipSettling => T.scholarship # NoScholarship
      /\ i.need \in {"scholarship", "markPaid"} => HasActiveEnrollment(T.user, T.course)
      /\ i.need = "markPaid" => scholarship[T.scholarship].status \in {"APPROVED", "PAID"}
  BY <1>0 DEF HookMatches, Funds
<1>c. charge[i.ref].status = "paid" => charge'[i.ref] = charge[i.ref]
  BY <1>0, <1>t DEF Advance, ChargesAdvance
<1>x. T.status # "none" => /\ tx'[i.tx].status # "none"
                           /\ tx'[i.tx].user = T.user /\ tx'[i.tx].course = T.course
                           /\ tx'[i.tx].amount = T.amount
                           /\ tx'[i.tx].scholarship = T.scholarship
  BY <1>0, <1>t, TransactionStays
<1>e. HasActiveEnrollment(T.user, T.course) =>
         enrollment'[<<T.user, T.course>>].status = "ACTIVE"
  BY <1>0, <1>t DEF Advance, EnrollmentsAdvance, HasActiveEnrollment, TransactionDoc, Targets
<1>s. T.scholarship # NoScholarship /\ scholarship[T.scholarship].status \in {"APPROVED", "PAID"}
         => scholarship'[T.scholarship].status \in {"APPROVED", "PAID"}
  BY <1>0, <1>t, ScholarshipStays DEF TransactionDoc
<1>1. CASE k = i
  BY <1>1, <1>h, <1>c, <1>x, <1>e, <1>s DEF Settling, ScholarshipSettling
<1>2. CASE k.need \in {"idle", "failure"}
  BY <1>2 DEF Settling, ScholarshipSettling
<1>3. CASE k.need = "match" /\ charge[k.ref].status = "paid"
  <2>1. k.ref \in ChargeRefs
    <3>1. (hook \in [Handlers -> HookLocals])'
      BY <1>0, NextType DEF TypeOK, WebhookTypeOK
    <3> QED
      BY <3>1 DEF HookLocals, ChargeRefs, References
  <2>2. charge'[k.ref] = charge[k.ref]
    BY <1>0, <1>3, <2>1 DEF Advance, ChargesAdvance
  <2> QED
    BY <1>3, <2>2 DEF Settling, ScholarshipSettling
<1>4. CASE /\ i.need \in {"match", "markPaid", "activate"} /\ k.ref = i.ref
           /\ k.need \in {"lookup", "notify"}
  BY <1>4, <1>h, <1>c DEF Settling, ScholarshipSettling
<1>5. CASE /\ i.need = "match" /\ k.need = "settleScholarship" /\ k.ref = i.ref
           /\ k.tx \in PendingScholarshipTransactions(charge[i.ref].payer, charge[i.ref].amount)
  <2>1. /\ k.tx \in References /\ tx[k.tx].status = "PENDING"
        /\ tx[k.tx].user = charge[i.ref].payer /\ tx[k.tx].amount = charge[i.ref].amount
        /\ tx[k.tx].scholarship # NoScholarship
    BY <1>5 DEF PendingScholarshipTransactions
  <2>2. /\ tx'[k.tx].status # "none" /\ tx'[k.tx].user = tx[k.tx].user
        /\ tx'[k.tx].amount = tx[k.tx].amount
        /\ tx'[k.tx].scholarship = tx[k.tx].scholarship
    BY <1>0, <2>1, TransactionStays
  <2> QED
    BY <1>5, <1>h, <1>c, <2>1, <2>2 DEF Settling, ScholarshipSettling
<1>6. CASE /\ i.need = "lookup" /\ k.need \in {"reactivate", "settle"}
           /\ k.ref = i.ref /\ k.tx = i.ref /\ i.ref \in References
           /\ tx[i.ref].status # "none" /\ tx[i.ref].amount = charge[i.ref].amount
  <2>1. tx'[i.ref].status # "none" /\ tx'[i.ref].amount = tx[i.ref].amount
    BY <1>0, <1>6, TransactionStays
  <2> QED
    BY <1>6, <1>h, <1>c, <2>1 DEF Settling, ScholarshipSettling
<1>7. CASE i.need = "settle" /\ k.need = "activate" /\ held
  BY <1>7, <1>h, <1>c, <1>x DEF Settling, ScholarshipSettling
<1>8. CASE i.need = "settleScholarship" /\ k.need = "activateScholarship" /\ held
  BY <1>8, <1>h, <1>c, <1>x DEF Settling, ScholarshipSettling
<1>9. CASE /\ i.need = "activateScholarship" /\ k.need = "scholarship" /\ held
           /\ ActivateEnrollment(T.user, T.course)
           /\ UNCHANGED tx
  <2>1. <<T.user, T.course>> \in Users \X Targets
    BY <1>t DEF TransactionDoc, Targets
  <2>2. enrollment'[<<T.user, T.course>>].status = "ACTIVE"
    BY <1>0, <1>9, <2>1 DEF ActivateEnrollment, TypeOK, LedgerTypeOK, EnrollmentDoc
  <2> QED
    BY <1>9, <1>h, <1>c, <2>2 DEF Settling, ScholarshipSettling
<1>10. CASE /\ i.need = "scholarship" /\ k.need = "markPaid" /\ held
            /\ scholarship[T.scholarship].status = "APPROVED"
            /\ UNCHANGED <<tx, enrollment, scholarship>>
  BY <1>10, <1>h, <1>c, <1>e DEF Settling, ScholarshipSettling
<1>m. \/ k = i
      \/ k.need \in {"idle", "failure"}
      \/ k.need = "match" /\ charge[k.ref].status = "paid"
      \/ /\ i.need \in {"match", "markPaid", "activate"} /\ k.ref = i.ref
         /\ k.need \in {"lookup", "notify"}
      \/ /\ i.need = "match" /\ k.need = "settleScholarship" /\ k.ref = i.ref
         /\ k.tx \in PendingScholarshipTransactions(charge[i.ref].payer, charge[i.ref].amount)
      \/ /\ i.need = "lookup" /\ k.need \in {"reactivate", "settle"}
         /\ k.ref = i.ref /\ k.tx = i.ref /\ i.ref \in References
         /\ tx[i.ref].status # "none" /\ tx[i.ref].amount = charge[i.ref].amount
      \/ i.need = "settle" /\ k.need = "activate" /\ held
      \/ i.need = "settleScholarship" /\ k.need = "activateScholarship" /\ held
      \/ /\ i.need = "activateScholarship" /\ k.need = "scholarship" /\ held
         /\ ActivateEnrollment(T.user, T.course)
         /\ UNCHANGED tx
      \/ /\ i.need = "scholarship" /\ k.need = "markPaid" /\ held
         /\ scholarship[T.scholarship].status = "APPROVED"
         /\ UNCHANGED <<tx, enrollment, scholarship>>
  BY <1>0, HookMoves
<1> HIDE DEF i, k, held, T
<1> QED
  BY <1>m, <1>1, <1>2, <1>3, <1>4, <1>5, <1>6, <1>7, <1>8, <1>9, <1>10 DEF i, k, T

----------------------------------------------------------------------------
(* The theorems *)

\* Initially nothing is recorded, paid or running.
LEMMA InitIInv == Init => IInv
<1> SUFFICES ASSUME Init
             PROVE  IInv
  OBVIOUS
<1>1. TypeOK
  BY InitType
<1>2. HookMatches
  BY DEF Init, WebhookInit, IdleHook, HookMatches, Settling, ScholarshipSettling
<1>3. TransactionMatches
  BY DEF Init, LedgerInit, TransactionMatches
<1>4. JobMatches
  BY DEF Init, LedgerInit, ApprovalInit, JobMatches, Running
<1>5. ActiveIsFunded
  BY DEF Init, LedgerInit, ActiveIsFunded, HasActiveEnrollment, Targets
<1>6. ApprovedHasPaymentRecord /\ PaidHasAccess
  BY DEF Init, LedgerInit, ApprovedHasPaymentRecord, PaidHasAccess
<1> QED
  BY <1>1, <1>2, <1>3, <1>4, <1>5, <1>6 DEF IInv

\* IInv is inductive.
LEMMA IInvStep == IInv /\ [Next]_vars => IInv'
<1> SUFFICES ASSUME IInv, [Next]_vars
             PROVE  IInv'
  OBVIOUS
<1>1. TypeOK'
  BY NextType DEF IInv
<1>2. HookMatches' /\ TransactionMatches' /\ JobMatches' /\ ActiveIsFunded'
  BY HookMatchesStep, TransactionMatchesStep, JobMatchesStep, ActiveIsFundedStep
<1>3. ApprovedHasPaymentRecord' /\ PaidHasAccess'
  BY ApprovedHasPaymentRecordStep
<1> QED
  BY <1>1, <1>2, <1>3 DEF IInv

\* What the handlers know across their awaits is right in every reachable
\* state, with any number of users, courses, requests, retries, failing calls
\* and crashes.
THEOREM Inductive == Spec => []IInv
<1>1. Init => IInv
  BY InitIInv
<1>2. IInv /\ [Next]_vars => IInv'
  BY IInvStep
<1> QED
  BY <1>1, <1>2, PTL DEF Spec

\* Behind every ACTIVE course enrollment there is a confirmed charge of the
\* amount its user was asked for.
THEOREM AccessIsFunded == Spec => []ActiveIsFunded
<1>1. IInv => ActiveIsFunded
  BY DEF IInv
<1> QED
  BY <1>1, Inductive, PTL

\* An application is approved only with an enrollment and a payment record.
THEOREM ApprovalHasPaymentRecord == Spec => []ApprovedHasPaymentRecord
<1>1. IInv => ApprovedHasPaymentRecord
  BY DEF IInv
<1> QED
  BY <1>1, Inductive, PTL

\* A PAID scholarship gives access to its course.
THEOREM PaymentGivesAccess == Spec => []PaidHasAccess
<1>1. IInv => PaidHasAccess
  BY DEF IInv
<1> QED
  BY <1>1, Inductive, PTL

\* No write of any handler takes back what another one wrote.
THEOREM NothingIsTakenBack == Spec => RecordsOnlyAdvance
<1>1. IInv /\ [Next]_vars => Advance
  BY AdvanceStep
<1>2. IInv /\ [Next]_vars => [Advance]_vars
  BY <1>1
<1> QED
  BY <1>2, Inductive, PTL DEF Spec, RecordsOnlyAdvance

----------------------------------------------------------------------------
(* Payment links: what is acknowledged is settled *)

\* A step fails at most one call.
LEMMA FaultsGrow ==
    ASSUME TypeOK, [Next]_vars
    PROVE  faults' \in {faults, faults + 1}
<1>1. CASE Environment \/ Crash \/ UNCHANGED vars
  BY <1>1 DEF Environment, Tick, UpdateCourse, PayLink, PayShop, Crash, vars, ledger
<1>2. CASE RequestNext
  BY <1>2 DEF RequestNext, RequestStep, CreateEnrollment, CheckActiveEnrollment,
              CheckPendingEnrollment, SaveEnrollment, LoadEnrollment, LoadCourse,
              CheckPendingTransaction, InitializeAtPaystack, RecordTransaction,
              DbCall, ledger
<1>3. CASE ApprovalNext
  BY <1>3
     DEF ApprovalNext, ApplicationStep, WorkerStep, Apply, CheckActiveScholarship,
         SaveScholarship, QueueJob, StartJob, FindEnrollment, SaveScholarshipEnrollment,
         FindTransaction, RecordScholarshipTransaction, ApproveScholarship,
         NotifyApproval, DbCall, ledger
<1>4. CASE WebhookNext
  BY <1>4
     DEF WebhookNext, HookStep, DeliverSuccess, DeliverFailure,
         MatchScholarshipTransaction, SettleScholarshipTransaction,
         ActivateScholarshipEnrollment, LoadScholarship, MarkScholarshipPaid,
         FindTransactionByReference, ReactivateEnrollment, SettleTransaction,
         ActivatePaidEnrollment, NotifyEnrollment, MarkTransactionFailed, DbCall, ledger
<1> QED
  BY <1>1, <1>2, <1>3, <1>4 DEF Next

\* The price of a request is the one its course had when it was read.
LEMMA RequestPrices ==
    ASSUME TypeOK, [Next]_vars, NEW q \in Requests,
           req'[q].need \in {"transaction", "paystack"}
    PROVE  \/ /\ req[q].need \in {"transaction", "paystack"}
              /\ req'[q].price = req[q].price
           \/ req'[q].price \in Prices \cup {NoPrice}
<1>t. req \in [Requests -> RequestLocals] /\ req[q] \in RequestLocals
  BY DEF TypeOK, RequestTypeOK
<1>r. ASSUME NEW x \in Requests, Respond(x)
      PROVE  req'[q] = req[q] \/ req'[q].need = "idle"
  BY <1>t, <1>r DEF Respond, IdleRequest
<1>a. ASSUME NEW x \in Requests, NEW call, Await(x, call)
      PROVE  req'[q] = req[q] \/ req'[q].need = call
  BY <1>t, <1>a DEF Await, RequestLocals
<1>1. CASE RequestNext
  <2>1. PICK x \in Requests :
           (\E u \in Users, t \in Targets : CreateEnrollment(x, u, t)) \/ RequestStep(x)
    BY <1>1 DEF RequestNext
  <2>2. CASE \E u \in Users, t \in Targets : CreateEnrollment(x, u, t)
    BY <1>t, <2>2 DEF CreateEnrollment, RequestLocals
  <2>3. CASE CheckActiveEnrollment(x) \/ CheckPendingEnrollment(x)
    BY <1>r, <1>a, <2>3 DEF CheckActiveEnrollment, CheckPendingEnrollment
  <2>4. CASE SaveEnrollment(x)
    BY <1>r, <1>a, <2>4 DEF SaveEnrollment
  <2>5. CASE LoadEnrollment(x)
    BY <1>r, <1>a, <2>5 DEF LoadEnrollment
  <2>6. CASE LoadCourse(x)
    <3>1. course[req[x].target] \in CourseStates
      BY <2>6 DEF LoadCourse, TypeOK, RequestTypeOK, LedgerTypeOK
    <3>2. PICK ok \in BOOLEAN :
             req' = [req EXCEPT ![x] = [@ EXCEPT !.need = "transaction",
                       !.price = IF ok THEN course[req[x].target].price ELSE NoPrice]]
      BY <2>6 DEF LoadCourse
    <3>3. req'[q] = req[q]
          \/ req'[q].price = IF ok THEN course[req[x].target].price ELSE NoPrice
      BY <1>t, <3>2 DEF RequestLocals
    <3> QED
      BY <3>1, <3>3 DEF Prices
  <2>7. CASE CheckPendingTransaction(x)
    <3>1. CASE Respond(x)
      BY <1>r, <3>1
    <3>2. CASE req' = [req EXCEPT ![x] = [@ EXCEPT !.need = "paystack", !.ref = now]]
      <4>1. req[x].need = "transaction"
        BY <2>7 DEF CheckPendingTransaction
      <4> QED
        BY <1>t, <3>2, <4>1 DEF RequestLocals
    <3> QED
      BY <2>7, <3>1, <3>2 DEF CheckPendingTransaction
  <2>8. CASE InitializeAtPaystack(x)
    BY <1>r, <1>a, <2>8 DEF InitializeAtPaystack
  <2>9. CASE RecordTransaction(x)
    BY <1>r, <2>9 DEF RecordTransaction
  <2> QED
    BY <2>1, <2>2, <2>3, <2>4, <2>5, <2>6, <2>7, <2>8, <2>9 DEF RequestStep
<1>2. CASE Crash
  BY <1>2 DEF Crash, DropRequests, IdleRequest
<1>3. CASE Environment \/ ApprovalNext \/ WebhookNext \/ UNCHANGED vars
  BY <1>3 DEF Environment, ApprovalNext, WebhookNext, vars, request
<1> QED
  BY <1>1, <1>2, <1>3 DEF Next

\* The amount of a link is the price its request read.
LEMMA LinkAmounts ==
    ASSUME TypeOK, [Next]_vars, NEW r \in References, charge'[r].status # "none"
    PROVE  \/ charge[r].status # "none" /\ charge'[r].amount = charge[r].amount
           \/ \E q \in Requests : /\ req[q].need = "paystack"
                                  /\ req[q].price # NoPrice
                                  /\ charge'[r].amount = req[q].price
<1>t. /\ charge \in [ChargeRefs -> PaystackCharge]
      /\ References \subseteq ChargeRefs /\ charge[r] \in PaystackCharge
  BY DEF TypeOK, LedgerTypeOK, ChargeRefs
<1>1. CASE UNCHANGED charge
  BY <1>1
<1>2. CASE RequestNext
  <2>1. PICK q \in Requests :
           (\E u \in Users, t \in Targets : CreateEnrollment(q, u, t)) \/ RequestStep(q)
    BY <1>2 DEF RequestNext
  <2>2. CASE InitializeAtPaystack(q)
    <3>1. \/ UNCHANGED charge
          \/ /\ req[q].need = "paystack" /\ req[q].price # NoPrice
             /\ charge' = [charge EXCEPT ![req[q].ref] =
                   [status |-> "open", payer |-> req[q].user, amount |-> req[q].price]]
      BY <2>2 DEF InitializeAtPaystack
    <3> QED
      BY <1>t, <3>1
  <2>3. CASE ~InitializeAtPaystack(q)
    BY <1>1, <2>1, <2>3
       DEF RequestStep, CreateEnrollment, CheckActiveEnrollment, CheckPendingEnrollment,
           SaveEnrollment, LoadEnrollment, LoadCourse, CheckPendingTransaction,
           RecordTransaction, ledger
  <2> QED
    BY <2>2, <2>3
<1>3. CASE Environment
  <2>1. CASE \E u \in Users, x \in References : PayLink(u, x)
    <3>1. PICK x \in References :
             charge[x].status = "open" /\ charge' = [charge EXCEPT ![x].status = "paid"]
      BY <2>1 DEF PayLink
    <3> QED
      BY <1>t, <3>1 DEF PaystackCharge
  <2>2. CASE \E x \in ShopRefs, u \in Users \cup {Stranger}, a \in Amounts : PayShop(x, u, a)
    <3>1. PICK x \in ShopRefs, u \in Users \cup {Stranger}, a \in Amounts : PayShop(x, u, a)
      BY <2>2
    <3>2. r # x
      BY LedgerAssumption
    <3>3. charge'[r] = charge[r]
      BY <1>t, <3>1, <3>2 DEF PayShop
    <3> QED
      BY <3>3
  <2> QED
    BY <1>1, <1>3, <2>1, <2>2 DEF Environment, Tick, UpdateCourse
<1>4. CASE ApprovalNext \/ WebhookNext \/ Crash \/ UNCHANGED vars
  BY <1>4, <1>1, ChargesElsewhere
<1> QED
  BY <1>2, <1>3, <1>4 DEF Next

\* A job asks for the scholarship price of a course.
LEMMA JobAmounts ==
    ASSUME TypeOK, [Next]_vars, NEW s \in Scholarships,
           job'[s].need \in {"enrollment", "enroll", "transaction", "record"}
    PROVE  \/ /\ job[s].need \in {"enrollment", "enroll", "transaction", "record"}
              /\ job'[s].amount = job[s].amount
           \/ job'[s].amount \in ScholarshipPrices
<1> DEFINE Asked == {"enrollment", "enroll", "transaction", "record"}
<1>t. job \in [Scholarships -> JobDoc] /\ job[s] \in JobDoc
  BY DEF TypeOK, ApprovalTypeOK
<1>f. ASSUME NEW x \in Scholarships, FailJob(x)
      PROVE  job'[s] = job[s] \/ job'[s].need \notin Asked
  BY <1>t, <1>f DEF FailJob, Attempted, JobDoc
<1>a. ASSUME NEW x \in Scholarships, NEW call, JobAwaits(x, call)
      PROVE  job'[s] = job[s] \/ (x = s /\ job'[s].need = call /\ job'[s].amount = job[s].amount)
  BY <1>t, <1>a DEF JobAwaits, JobDoc
<1>1. CASE ApprovalNext
  <2>1. PICK x \in Scholarships :
           \/ \E u \in Users, c \in Courses : Apply(x, u, c)
           \/ ApplicationStep(x) \/ WorkerStep(x)
    BY <1>1 DEF ApprovalNext
  <2>2. CASE \E u \in Users, c \in Courses : Apply(x, u, c)
    BY <1>t, <2>2 DEF Apply, JobDoc
  <2>3. CASE ApplicationStep(x)
    BY <1>a, <2>3 DEF ApplicationStep, CheckActiveScholarship, SaveScholarship, QueueJob
  <2>4. CASE StartJob(x)
    <3>1. CASE FailJob(x) \/ JobAwaits(x, "completed")
      BY <1>f, <1>a, <3>1
    <3>2. CASE job' = [job EXCEPT ![x] =
                 [@ EXCEPT !.need = "enrollment",
                           !.amount = course[job[x].course].scholarshipPrice]]
      <4>1. course[job[x].course] \in CourseStates
        BY <1>t DEF JobDoc, TypeOK, LedgerTypeOK
      <4>2. job'[s] = job[s] \/ job'[s].amount = course[job[x].course].scholarshipPrice
        BY <1>t, <3>2 DEF JobDoc
      <4> QED
        BY <4>1, <4>2 DEF ScholarshipPrices
    <3> QED
      BY <2>4, <3>1, <3>2 DEF StartJob
  <2>5. CASE FindEnrollment(x)
    BY <1>a, <2>5 DEF FindEnrollment
  <2>6. CASE SaveScholarshipEnrollment(x)
    BY <1>f, <1>a, <2>6 DEF SaveScholarshipEnrollment
  <2>7. CASE FindTransaction(x)
    <3>1. CASE JobAwaits(x, "approve")
      BY <1>a, <3>1
    <3>2. CASE job' = [job EXCEPT ![x] = [@ EXCEPT !.need = "record", !.ref = now]]
      <4>1. job[x].need = "transaction"
        BY <2>7 DEF FindTransaction
      <4> QED
        BY <1>t, <3>2, <4>1 DEF JobDoc
    <3> QED
      BY <2>7, <3>1, <3>2 DEF FindTransaction
  <2>8. CASE RecordScholarshipTransaction(x)
    BY <1>f, <1>a, <2>8 DEF RecordScholarshipTransaction
  <2>9. CASE ApproveScholarship(x) \/ NotifyApproval(x)
    BY <1>f, <1>a, <2>9 DEF ApproveScholarship, NotifyApproval
  <2> QED
    BY <2>1, <2>2, <2>3, <2>4, <2>5, <2>6, <2>7, <2>8, <2>9 DEF WorkerStep
<1>2. CASE Crash
  <2>1. job'[s] = AfterCrash(job[s])
    BY <1>2 DEF Crash, DropApplicationsAndStallJobs
  <2> QED
    BY <1>t, <2>1 DEF AfterCrash, JobDoc, Running
<1>3. CASE Environment \/ RequestNext \/ WebhookNext \/ UNCHANGED vars
  BY <1>3 DEF Environment, RequestNext, WebhookNext, vars
<1> QED
  BY <1>1, <1>2, <1>3 DEF Next

\* The two kinds of amounts stay where they belong.
LEMMA AmountsMatchStep ==
    ASSUME IInv, AmountsMatch, [Next]_vars
    PROVE  AmountsMatch'
<1>0. TypeOK /\ Advance /\ HookMatches
  BY AdvanceStep DEF IInv
<1>1. ASSUME NEW q \in Requests, req'[q].need \in {"transaction", "paystack"}
      PROVE  req'[q].price \in Prices \cup {NoPrice}
  BY <1>0, <1>1, RequestPrices DEF AmountsMatch
<1>2. ASSUME NEW r \in References, charge'[r].status # "none"
      PROVE  charge'[r].amount \in Prices
  BY <1>0, <1>2, LinkAmounts DEF AmountsMatch
<1>3. ASSUME NEW s \in Scholarships,
             job'[s].need \in {"enrollment", "enroll", "transaction", "record"}
      PROVE  job'[s].amount \in ScholarshipPrices
  BY <1>0, <1>3, JobAmounts DEF AmountsMatch
<1>4. ASSUME NEW t \in References, tx'[t].status # "none", tx'[t].scholarship # NoScholarship
      PROVE  tx'[t].amount \in ScholarshipPrices
  <2>1. CASE tx[t].status # "none"
    BY <1>0, <1>4, <2>1, TransactionStays DEF AmountsMatch
  <2>2. CASE tx[t].status = "none"
    <3>1. CASE UNCHANGED tx
      BY <1>4, <2>2, <3>1
    <3>2. ASSUME NEW r \in References, NEW u, NEW c, NEW a, NEW url,
                 NEW s \in Scholarships \cup {NoScholarship},
                 InsertTransaction(r, u, c, a, url, s),
                 s # NoScholarship => job[s].need = "record" /\ a = job[s].amount
          PROVE  tx'[t].amount \in ScholarshipPrices
      <4>1. CASE t = r
        <5>1. tx'[t].amount = a /\ tx'[t].scholarship = s
          BY <1>0, <3>2, <4>1 DEF InsertTransaction, TypeOK, LedgerTypeOK
        <5> QED
          BY <1>4, <3>2, <5>1 DEF AmountsMatch
      <4>2. CASE t # r
        BY <1>0, <1>4, <2>2, <3>2, <4>2 DEF InsertTransaction, TypeOK, LedgerTypeOK
      <4> QED
        BY <4>1, <4>2
    <3>3. ASSUME NEW h \in Handlers, hook[h].need \in Settling,
                 tx' = [tx EXCEPT ![hook[h].tx].status = "SUCCESS"]
          PROVE  tx'[t] = tx[t]
      BY <1>0, <2>2, <3>3 DEF HookMatches, Funds, TypeOK, LedgerTypeOK
    <3> QED
      BY <1>0, <1>4, <2>2, <3>1, <3>2, <3>3, TransactionWrites
  <2> QED
    BY <2>1, <2>2
<1> QED
  BY <1>1, <1>2, <1>3, <1>4 DEF AmountsMatch

\* A settled transaction stays settled, and its enrollment active.
LEMMA SettledStays ==
    ASSUME TypeOK, Advance, NEW r \in References, tx[r].status = "SUCCESS"
    PROVE  /\ tx'[r] = tx[r]
           /\ HasActiveEnrollment(tx[r].user, tx[r].course)
                 => enrollment'[<<tx[r].user, tx[r].course>>].status = "ACTIVE"
<1>1. tx[r] \in TransactionDoc
  BY DEF TypeOK, LedgerTypeOK
<1>2. tx'[r] = tx[r]
  BY <1>1 DEF Advance, TransactionsAdvance, TransactionDoc
<1> QED
  BY <1>1, <1>2
     DEF Advance, EnrollmentsAdvance, HasActiveEnrollment, TransactionDoc, Targets

\* An activation leaves the enrollment of the transaction active.
LEMMA ActivationGivesAccess ==
    ASSUME TypeOK, NEW r \in References, ActivateEnrollment(tx[r].user, tx[r].course)
    PROVE  enrollment'[<<tx[r].user, tx[r].course>>].status = "ACTIVE"
<1>1. <<tx[r].user, tx[r].course>> \in Users \X Targets
  BY DEF TypeOK, LedgerTypeOK, TransactionDoc, Targets
<1> QED
  BY <1>1 DEF ActivateEnrollment, TypeOK, LedgerTypeOK, EnrollmentDoc

\* What the delivery of a link knows of the transaction of that link stays true.
LEMMA LinkHookMatchesStep ==
    ASSUME IInv, AmountsMatch, LinkHookMatches, PricesApart, [Next]_vars
    PROVE  LinkHookMatches'
<1>0. TypeOK /\ Advance /\ HookMatches
  BY AdvanceStep DEF IInv
<1> SUFFICES ASSUME NEW h \in Handlers, hook'[h].ref \in References
             PROVE  LET k == hook'[h]
                        t == tx'[k.ref]
                    IN  /\ k.need \notin ScholarshipSettling
                        /\ k.need \in {"settle", "activate", "reactivate"} => k.tx = k.ref
                        /\ k.need \in {"activate", "reactivate", "notify"} =>
                              t.status = "SUCCESS"
                        /\ k.need = "notify" =>
                              enrollment'[<<t.user, t.course>>].status = "ACTIVE"
  BY DEF LinkHookMatches, HasActiveEnrollment
<1> DEFINE i == hook[h]
           k == hook'[h]
           held == k.ref = i.ref /\ k.tx = i.tx
<1>i. i.ref \in References =>
         /\ i.need \notin ScholarshipSettling
         /\ i.need \in {"settle", "activate", "reactivate"} => i.tx = i.ref
         /\ i.need \in {"activate", "reactivate", "notify"} => tx[i.ref].status = "SUCCESS"
         /\ i.need = "notify" => HasActiveEnrollment(tx[i.ref].user, tx[i.ref].course)
  BY DEF LinkHookMatches
<1>s. ASSUME i.ref \in References, tx[i.ref].status = "SUCCESS"
      PROVE  /\ tx'[i.ref] = tx[i.ref]
             /\ HasActiveEnrollment(tx[i.ref].user, tx[i.ref].course)
                  => enrollment'[<<tx[i.ref].user, tx[i.ref].course>>].status = "ACTIVE"
  BY <1>0, <1>s, SettledStays
<1>1. CASE k = i
  BY <1>1, <1>i, <1>s DEF ScholarshipSettling
<1>2. CASE k.need \in {"idle", "failure", "match", "lookup"}
  BY <1>2 DEF ScholarshipSettling
<1>3. CASE i.need \in ScholarshipSettling /\ k.ref = i.ref
  BY <1>3, <1>i
<1>4. CASE /\ i.need = "match" /\ k.need = "settleScholarship" /\ k.ref = i.ref
           /\ k.tx \in PendingScholarshipTransactions(charge[i.ref].payer, charge[i.ref].amount)
  <2>1. charge[i.ref].amount \in Prices
    BY <1>0, <1>4 DEF HookMatches, AmountsMatch
  <2>2. charge[i.ref].amount \in ScholarshipPrices
    BY <1>4 DEF PendingScholarshipTransactions, AmountsMatch
  <2> QED
    BY <2>1, <2>2 DEF PricesApart
<1>5. CASE /\ i.need = "lookup" /\ k.need \in {"reactivate", "settle"}
           /\ k.ref = i.ref /\ k.tx = i.ref /\ i.ref \in References
           /\ k.need = "reactivate" => tx[i.ref].status = "SUCCESS"
  BY <1>5, <1>s DEF ScholarshipSettling
<1>6. CASE /\ i.need = "settle" /\ k.need = "activate" /\ held
           /\ tx' = [tx EXCEPT ![i.tx].status = "SUCCESS"]
  <2>1. tx'[i.tx].status = "SUCCESS"
    BY <1>0, <1>6, <1>i DEF TypeOK, LedgerTypeOK, TransactionDoc
  <2> QED
    BY <1>6, <1>i, <2>1 DEF ScholarshipSettling
<1>7. CASE /\ i.need = "activate" /\ k.need = "notify" /\ held
           /\ ActivateEnrollment(tx[i.tx].user, tx[i.tx].course)
           /\ UNCHANGED tx
  <2>1. enrollment'[<<tx[i.tx].user, tx[i.tx].course>>].status = "ACTIVE"
    BY <1>0, <1>7, <1>i, ActivationGivesAccess
  <2> QED
    BY <1>7, <1>i, <2>1 DEF ScholarshipSettling
<1>m. \/ k = i
      \/ k.need \in {"idle", "failure", "match", "lookup"}
      \/ i.need \in ScholarshipSettling /\ k.ref = i.ref
      \/ /\ i.need = "match" /\ k.need = "settleScholarship" /\ k.ref = i.ref
         /\ k.tx \in PendingScholarshipTransactions(charge[i.ref].payer, charge[i.ref].amount)
      \/ /\ i.need = "lookup" /\ k.need \in {"reactivate", "settle"}
         /\ k.ref = i.ref /\ k.tx = i.ref /\ i.ref \in References
         /\ k.need = "reactivate" => tx[i.ref].status = "SUCCESS"
      \/ /\ i.need = "settle" /\ k.need = "activate" /\ held
         /\ tx' = [tx EXCEPT ![i.tx].status = "SUCCESS"]
      \/ /\ i.need = "activate" /\ k.need = "notify" /\ held
         /\ ActivateEnrollment(tx[i.tx].user, tx[i.tx].course)
         /\ UNCHANGED tx
  BY <1>0, HookMoves DEF ScholarshipSettling
<1> HIDE DEF i, k, held
<1> QED
  BY <1>m, <1>1, <1>2, <1>3, <1>4, <1>5, <1>6, <1>7 DEF i, k

\* A charge is answered 200 at the end of its delivery.
LEMMA Answers ==
    ASSUME TypeOK, [Next]_vars, NEW r \in References, answer'[r] = "ok", answer[r] # "ok"
    PROVE  \E h \in Handlers :
              /\ hook[h].ref = r
              /\ \/ hook[h].need \in {"scholarship", "notify"}
                 \/ /\ hook[h].need = "reactivate"
                    /\ UNCHANGED tx
                    /\ faults' = faults =>
                          ActivateEnrollment(tx[hook[h].tx].user, tx[hook[h].tx].course)
<1>t. /\ answer \in [ChargeRefs -> {"none", "ok", "error"}]
      /\ References \subseteq ChargeRefs
  BY DEF TypeOK, WebhookTypeOK, ChargeRefs
<1>1. CASE WebhookNext
  <2>1. PICK h \in Handlers :
           (\E x \in ChargeRefs : DeliverSuccess(h, x) \/ DeliverFailure(h, x)) \/ HookStep(h)
    BY <1>1 DEF WebhookNext
  <2>2. Throw(h) => answer'[r] # "ok"
    BY <1>t DEF Throw
  <2>3. Accept(h) => hook[h].ref = r
    BY <1>t DEF Accept
  <2>4. CASE ReactivateEnrollment(h)
    <3>1. faults \in Nat
      BY LedgerAssumption DEF TypeOK, LedgerTypeOK
    <3> QED
      BY <2>3, <2>4, <3>1 DEF ReactivateEnrollment, DbCall
  <2>5. CASE LoadScholarship(h)
    BY <2>2, <2>3, <2>5 DEF LoadScholarship, Continue
  <2>6. CASE NotifyEnrollment(h)
    BY <2>2, <2>3, <2>6 DEF NotifyEnrollment
  <2>7. CASE ~(ReactivateEnrollment(h) \/ LoadScholarship(h) \/ NotifyEnrollment(h))
    BY <2>1, <2>2, <2>7
       DEF HookStep, DeliverSuccess, DeliverFailure, MatchScholarshipTransaction,
           SettleScholarshipTransaction, ActivateScholarshipEnrollment,
           MarkScholarshipPaid, FindTransactionByReference, SettleTransaction,
           ActivatePaidEnrollment, MarkTransactionFailed, Continue
  <2> QED
    BY <2>4, <2>5, <2>6, <2>7
<1>2. CASE Environment \/ RequestNext \/ ApprovalNext \/ Crash \/ UNCHANGED vars
  BY <1>2 DEF Environment, RequestNext, ApprovalNext, Crash, vars, webhook
<1> QED
  BY <1>1, <1>2 DEF Next

\* As long as no call has failed, what is answered 200 is settled.
LEMMA AcknowledgedIsSettledStep ==
    ASSUME IInv, LinkHookMatches, faults = 0 => AcknowledgedIsSettled, [Next]_vars,
           faults' = 0
    PROVE  AcknowledgedIsSettled'
<1>0. TypeOK /\ Advance
  BY AdvanceStep DEF IInv
<1>1. faults = 0
  <2>1. faults \in Nat
    BY <1>0, LedgerAssumption DEF TypeOK, LedgerTypeOK
  <2> QED
    BY <1>0, <2>1, FaultsGrow
<1> SUFFICES ASSUME NEW r \in References, answer'[r] = "ok"
             PROVE  /\ tx'[r].status = "SUCCESS"
                    /\ enrollment'[<<tx'[r].user, tx'[r].course>>].status = "ACTIVE"
  BY DEF AcknowledgedIsSettled, HasActiveEnrollment
<1>2. ASSUME tx[r].status = "SUCCESS", HasActiveEnrollment(tx[r].user, tx[r].course)
      PROVE  /\ tx'[r].status = "SUCCESS"
             /\ enrollment'[<<tx'[r].user, tx'[r].course>>].status = "ACTIVE"
  BY <1>0, <1>2, SettledStays
<1>3. CASE answer[r] = "ok"
  BY <1>1, <1>2, <1>3 DEF AcknowledgedIsSettled
<1>4. CASE answer[r] # "ok"
  <2>1. PICK h \in Handlers :
           /\ hook[h].ref = r
           /\ \/ hook[h].need \in {"scholarship", "notify"}
              \/ /\ hook[h].need = "reactivate"
                 /\ UNCHANGED tx
                 /\ faults' = faults =>
                       ActivateEnrollment(tx[hook[h].tx].user, tx[hook[h].tx].course)
    BY <1>0, <1>4, Answers
  <2>2. CASE hook[h].need \in {"scholarship", "notify"}
    BY <1>2, <2>1, <2>2 DEF LinkHookMatches, ScholarshipSettling
  <2>3. CASE /\ hook[h].need = "reactivate" /\ UNCHANGED tx
             /\ ActivateEnrollment(tx[hook[h].tx].user, tx[hook[h].tx].course)
    <3>1. hook[h].tx = r /\ tx[r].status = "SUCCESS"
      BY <2>1, <2>3 DEF LinkHookMatches
    <3> QED
      BY <1>0, <2>3, <3>1, ActivationGivesAccess
  <2> QED
    BY <1>1, <2>1, <2>2, <2>3
<1> QED
  BY <1>3, <1>4

\* LinkInv is inductive, given IInv.
LEMMA LinkInvStep == PricesApart /\ IInv /\ LinkInv /\ [Next]_vars => LinkInv'
  BY AmountsMatchStep, LinkHookMatchesStep, AcknowledgedIsSettledStep DEF LinkInv

\* What requests, jobs and deliveries know of amounts and of the transaction of
\* a link is right in every reachable state, failing calls or not.
THEOREM LinksInductive ==
    ASSUME PricesApart
    PROVE  Spec => []LinkInv
<1>1. Init => LinkInv
  <2> SUFFICES ASSUME Init
               PROVE  LinkInv
    OBVIOUS
  <2>1. AmountsMatch
    BY DEF Init, LedgerInit, RequestInit, ApprovalInit, IdleRequest, AmountsMatch, ChargeRefs
  <2>2. LinkHookMatches
    BY DEF Init, WebhookInit, IdleHook, LinkHookMatches, ScholarshipSettling
  <2>3. AcknowledgedIsSettled
    BY DEF Init, WebhookInit, AcknowledgedIsSettled, ChargeRefs
  <2> QED
    BY <2>1, <2>2, <2>3 DEF LinkInv
<1>2. IInv /\ LinkInv /\ [Next]_vars => LinkInv'
  BY LinkInvStep
<1> QED
  BY <1>1, <1>2, Inductive, PTL DEF Spec

\* Nobody's money is acknowledged and lost: until a call fails, a payment link
\* answered 200 has its transaction SUCCESS and its enrollment ACTIVE.
THEOREM AcknowledgedLinksAreSettled ==
    ASSUME PricesApart
    PROVE  Spec => [](faults = 0 => AcknowledgedIsSettled)
<1>1. LinkInv => (faults = 0 => AcknowledgedIsSettled)
  BY DEF LinkInv
<1> QED
  BY <1>1, LinksInductive, PTL

\* A step of another delivery of an acknowledged link changes no document.
LEMMA RedeliveryStep ==
    ASSUME TypeOK, LinkHookMatches, AcknowledgedIsSettled, [Next]_vars,
           NEW h \in Handlers, HandlerMoves(h),
           hook[h].ref \in References, answer[hook[h].ref] = "ok"
    PROVE  UNCHANGED Documents
<1> DEFINE r == hook[h].ref
<1>t. /\ tx \in [References -> TransactionDoc] /\ tx[r] \in TransactionDoc
      /\ enrollment \in [Users \X Targets -> EnrollmentDoc]
      /\ hook \in [Handlers -> HookLocals]
  BY DEF TypeOK, LedgerTypeOK, WebhookTypeOK
<1>s. /\ tx[r].status = "SUCCESS"
      /\ enrollment[<<tx[r].user, tx[r].course>>].status = "ACTIVE"
  BY DEF AcknowledgedIsSettled, HasActiveEnrollment
<1>h. /\ hook[h].need \notin ScholarshipSettling
      /\ hook[h].need \in {"settle", "activate", "reactivate"} => hook[h].tx = r
  BY DEF LinkHookMatches
<1>x. tx = [tx EXCEPT ![r].status = "SUCCESS"]
  BY <1>t, <1>s DEF TransactionDoc
<1>e. ActivateEnrollment(tx[r].user, tx[r].course) => UNCHANGED enrollment
  BY <1>t, <1>s DEF ActivateEnrollment, EnrollmentDoc
<1>1. WebhookNext
  <2>1. crashes \in Nat
    BY CrashAssumption DEF TypeOK
  <2> QED
    BY <2>1 DEF Next, HandlerMoves, Crash, Environment, RequestNext, ApprovalNext, vars, webhook
<1>2. PICK x \in Handlers :
         (\E c \in ChargeRefs : DeliverSuccess(x, c) \/ DeliverFailure(x, c)) \/ HookStep(x)
  BY <1>1 DEF WebhookNext
<1>3. x = h
  BY <1>t, <1>2
     DEF HandlerMoves, HookStep, DeliverSuccess, DeliverFailure, MatchScholarshipTransaction,
         SettleScholarshipTransaction, ActivateScholarshipEnrollment, LoadScholarship,
         MarkScholarshipPaid, FindTransactionByReference, ReactivateEnrollment,
         SettleTransaction, ActivatePaidEnrollment, NotifyEnrollment,
         MarkTransactionFailed, HookAwaits, Accept, Throw, Continue
<1>4. CASE SettleTransaction(h)
  BY <1>4, <1>h, <1>x DEF SettleTransaction, Documents
<1>5. CASE ReactivateEnrollment(h) \/ ActivatePaidEnrollment(h)
  BY <1>5, <1>h, <1>e DEF ReactivateEnrollment, ActivatePaidEnrollment, Documents
<1>6. CASE ~(SettleTransaction(h) \/ ReactivateEnrollment(h) \/ ActivatePaidEnrollment(h))
  BY <1>2, <1>3, <1>6, <1>h
     DEF HookStep, DeliverSuccess, DeliverFailure, MatchScholarshipTransaction,
         SettleScholarshipTransaction, ActivateScholarshipEnrollment, LoadScholarship,
         MarkScholarshipPaid, FindTransactionByReference, NotifyEnrollment,
         MarkTransactionFailed, ScholarshipSettling, Documents, ledger
<1> QED
  BY <1>4, <1>5, <1>6

\* handleWebhook is idempotent for payment links: in an execution without
\* failing calls, whatever crashes, races and repeats there are, a delivery
\* after the 200 changes no document.
THEOREM LinksAreSettledOnce ==
    ASSUME PricesApart
    PROVE  Spec /\ [](faults = 0) => LinkRedeliveryChangesNothing
<1> DEFINE A == \A h \in Handlers :
                   HandlerMoves(h) /\ hook[h].ref \in References /\ answer[hook[h].ref] = "ok"
                      => UNCHANGED Documents
<1>1. IInv /\ LinkInv /\ faults = 0 /\ [Next]_vars => [A]_vars
  BY RedeliveryStep DEF IInv, LinkInv
<1> QED
  BY <1>1, Inductive, LinksInductive, PTL DEF Spec, LinkRedeliveryChangesNothing

----------------------------------------------------------------------------
(* The implementation of AccessLedger *)

\* Nothing is quoted, confirmed or granted at the start.
LEMMA AccessInit == Init => Access!Init
<1> SUFFICES ASSUME Init
             PROVE  Access!Init
  OBVIOUS
<1>1. /\ \A t \in References : tx[t].status = "none"
      /\ \A r \in ChargeRefs : charge[r].status = "none"
      /\ \A k \in Users \X Courses : enrollment[k].status = "none"
  BY DEF Init, LedgerInit, Targets
<1>2. Quoted = {}
  BY <1>1 DEF Quoted
<1>3. Confirmed = {}
  BY <1>1 DEF Confirmed
<1>4. Granted = {}
  BY <1>1 DEF Granted
<1> QED
  BY <1>2, <1>3, <1>4 DEF Access!Init

\* A write to the transactions quotes one amount, or settles what was quoted.
LEMMA QuotedStep ==
    ASSUME IInv, [Next]_vars, tx' # tx
    PROVE  \/ UNCHANGED Quoted
           \/ \E u \in Users, c \in Courses, a \in Amounts :
                 Quoted' = Quoted \cup {[user |-> u, course |-> c, amount |-> a]}
<1>0. TypeOK
  BY DEF IInv
<1> DEFINE Q(t) == [user |-> tx[t].user, course |-> tx[t].course, amount |-> tx[t].amount]
           R(t) == [user |-> tx'[t].user, course |-> tx'[t].course, amount |-> tx'[t].amount]
<1>q. Quoted = {Q(t) : t \in {x \in References : tx[x].status # "none"}}
  BY DEF Quoted
<1>r. Quoted' = {R(t) : t \in {x \in References : tx'[x].status # "none"}}
  BY DEF Quoted, References
<1>1. ASSUME NEW r \in References, NEW u \in Users, NEW c \in Courses, NEW a \in Amounts,
             NEW url, NEW s,
             CanInsertTransaction(r, u, c), InsertTransaction(r, u, c, a, url, s)
      PROVE  Quoted' = Quoted \cup {[user |-> u, course |-> c, amount |-> a]}
  <2>1. tx[r].status = "none" /\ tx'[r].status # "none"
        /\ R(r) = [user |-> u, course |-> c, amount |-> a]
    BY <1>0, <1>1 DEF CanInsertTransaction, InsertTransaction, TypeOK, LedgerTypeOK
  <2>2. \A t \in References \ {r} : tx'[t] = tx[t]
    BY <1>0, <1>1 DEF InsertTransaction, TypeOK, LedgerTypeOK
  <2>3. \A t \in References \ {r} : R(t) = Q(t)
    BY <2>2
  <2> HIDE DEF Q, R
  <2>4. {x \in References : tx'[x].status # "none"}
           = {x \in References : tx[x].status # "none"} \cup {r}
    BY <2>1, <2>2
  <2> QED
    BY <2>1, <2>3, <2>4, <1>q, <1>r
<1>2. ASSUME NEW r \in References, tx[r].status # "none",
             tx' = [tx EXCEPT ![r].status = "SUCCESS"]
      PROVE  UNCHANGED Quoted
  <2>1. \A t \in References : tx[t] \in TransactionDoc
    BY <1>0 DEF TypeOK, LedgerTypeOK
  <2>2. tx'[r] = [tx[r] EXCEPT !.status = "SUCCESS"]
        /\ \A t \in References \ {r} : tx'[t] = tx[t]
    BY <1>0, <1>2 DEF TypeOK, LedgerTypeOK
  <2>3. \A t \in References : R(t) = Q(t) /\ (tx'[t].status # "none" <=> tx[t].status # "none")
    BY <1>2, <2>1, <2>2 DEF TransactionDoc
  <2> HIDE DEF Q, R
  <2>4. {x \in References : tx'[x].status # "none"}
           = {x \in References : tx[x].status # "none"}
    BY <2>3
  <2> QED
    BY <2>3, <2>4, <1>q, <1>r
<1>3. \A h \in Handlers : hook[h].need \in Settling =>
         hook[h].tx \in References /\ tx[hook[h].tx].status # "none"
  BY <1>0 DEF IInv, HookMatches, Funds, TypeOK, WebhookTypeOK, HookLocals
<1>4. CASE \E r \in References, u \in Users, c \in Courses, a \in Amounts,
              url \in BOOLEAN, s \in Scholarships \cup {NoScholarship} :
              CanInsertTransaction(r, u, c) /\ InsertTransaction(r, u, c, a, url, s)
  BY <1>1, <1>4
<1>5. CASE \E h \in Handlers : /\ hook[h].need \in Settling
                              /\ tx' = [tx EXCEPT ![hook[h].tx].status = "SUCCESS"]
  BY <1>2, <1>3, <1>5
<1> QED
  BY <1>0, <1>4, <1>5, TransactionWrites

\* A write to the charges confirms one of them, or none.
LEMMA ConfirmedStep ==
    ASSUME IInv, [Next]_vars, charge' # charge
    PROVE  \/ UNCHANGED Confirmed
           \/ \E r \in ChargeRefs, a \in Amounts :
                 /\ \A f \in Confirmed : f.charge # r
                 /\ Confirmed' = Confirmed \cup {[charge |-> r, amount |-> a]}
<1>0. TypeOK
  BY DEF IInv
<1> DEFINE Q(t) == [charge |-> t, amount |-> charge[t].amount]
           R(t) == [charge |-> t, amount |-> charge'[t].amount]
<1>q. Confirmed = {Q(t) : t \in {x \in ChargeRefs : charge[x].status = "paid"}}
  BY DEF Confirmed
<1>r. Confirmed' = {R(t) : t \in {x \in ChargeRefs : charge'[x].status = "paid"}}
  BY DEF Confirmed, ChargeRefs, References
<1>1. PICK r \in ChargeRefs, d \in PaystackCharge :
         charge[r].status # "paid" /\ charge' = [charge EXCEPT ![r] = d]
  BY <1>0, ChargeWrites
<1>2. charge'[r] = d /\ \A t \in ChargeRefs \ {r} : charge'[t] = charge[t]
  BY <1>0, <1>1 DEF TypeOK, LedgerTypeOK
<1>3. \A t \in ChargeRefs \ {r} : R(t) = Q(t)
  BY <1>2
<1>4. CASE d.status = "paid"
  <2>1. R(r) = [charge |-> r, amount |-> d.amount] /\ d.amount \in Amounts
    BY <1>2 DEF PaystackCharge
  <2>2. \A f \in Confirmed : f.charge # r
    BY <1>1, <1>q
  <2>3. {x \in ChargeRefs : charge'[x].status = "paid"}
           = {x \in ChargeRefs : charge[x].status = "paid"} \cup {r}
    BY <1>1, <1>2, <1>4
  <2> HIDE DEF Q, R
  <2>4. Confirmed' = Confirmed \cup {R(r)}
    BY <1>1, <1>3, <1>q, <1>r, <2>3
  <2> QED
    BY <2>1, <2>2, <2>4
<1>5. CASE d.status # "paid"
  <2>1. {x \in ChargeRefs : charge'[x].status = "paid"}
           = {x \in ChargeRefs : charge[x].status = "paid"}
    BY <1>1, <1>2, <1>5
  <2> HIDE DEF Q, R
  <2> QED
    BY <1>1, <1>3, <1>q, <1>r, <2>1
<1> QED
  BY <1>4, <1>5

\* A write to the enrollments grants one access, against a confirmed charge of
\* an amount quoted for it, or none.
LEMMA GrantedStep ==
    ASSUME IInv, [Next]_vars, enrollment' # enrollment
    PROVE  \/ UNCHANGED Granted
           \/ \E u \in Users, c \in Courses :
                 /\ \E k \in Quoted, f \in Confirmed :
                       k.user = u /\ k.course = c /\ k.amount = f.amount
                 /\ Granted' = Granted \cup {<<u, c>>}
<1>0. TypeOK
  BY DEF IInv
<1>g. Granted' = {k \in Users \X Courses : enrollment'[k].status = "ACTIVE"}
  BY DEF Granted
<1>t. Users \X Courses \subseteq Users \X Targets
  BY DEF Targets
<1>1. ASSUME NEW u \in Users, NEW t \in Targets, NEW st \in {"PENDING", "ACTIVE"}, NEW kind,
             CanInsertEnrollment(u, t), InsertEnrollment(u, t, st, kind),
             st = "ACTIVE" => t \in Programs
      PROVE  UNCHANGED Granted
  <2>1. \A k \in Users \X Courses :
           enrollment'[k].status = "ACTIVE" <=> enrollment[k].status = "ACTIVE"
    BY <1>0, <1>1, <1>t, LedgerAssumption
       DEF CanInsertEnrollment, InsertEnrollment, TypeOK, LedgerTypeOK
  <2> QED
    BY <1>g, <2>1 DEF Granted
<1>2. ASSUME NEW h \in Handlers, hook[h].need \in Settling,
             ActivateEnrollment(tx[hook[h].tx].user, tx[hook[h].tx].course)
      PROVE  \E u \in Users, c \in Courses :
                /\ \E k \in Quoted, f \in Confirmed :
                      k.user = u /\ k.course = c /\ k.amount = f.amount
                /\ Granted' = Granted \cup {<<u, c>>}
  <2> DEFINE t == hook[h].tx
             r == hook[h].ref
             u == tx[t].user
             c == tx[t].course
  <2>1. t \in References /\ r \in ChargeRefs /\ u \in Users /\ c \in Courses
    BY <1>0 DEF TypeOK, WebhookTypeOK, HookLocals, LedgerTypeOK, TransactionDoc
  <2>2. Funds(r, t, u, c)
    BY <1>2 DEF IInv, HookMatches
  <2>3. /\ [user |-> u, course |-> c, amount |-> tx[t].amount] \in Quoted
        /\ [charge |-> r, amount |-> charge[r].amount] \in Confirmed
        /\ charge[r].amount = tx[t].amount
    BY <2>1, <2>2 DEF Funds, Quoted, Confirmed
  <2>4. \E k \in Quoted, f \in Confirmed :
           k.user = u /\ k.course = c /\ k.amount = f.amount
    BY <2>3
  <2>5. \A k \in Users \X Courses :
           enrollment'[k].status = "ACTIVE" <=> enrollment[k].status = "ACTIVE" \/ k = <<u, c>>
    BY <1>0, <1>2, <1>t DEF ActivateEnrollment, TypeOK, LedgerTypeOK, EnrollmentDoc
  <2>6. Granted' = Granted \cup {<<u, c>>}
    BY <1>g, <2>1, <2>5 DEF Granted
  <2> QED
    BY <2>1, <2>4, <2>6
<1> QED
  BY <1>0, <1>1, <1>2, EnrollmentWrites

\* A step writes at most one of the three.
LEMMA AccessStep == IInv /\ [Next]_vars => [Access!Next]_Access!vars
<1> SUFFICES ASSUME IInv, [Next]_vars
             PROVE  [Access!Next]_Access!vars
  OBVIOUS
<1>0. TypeOK
  BY DEF IInv
<1>1. /\ UNCHANGED tx => UNCHANGED Quoted
      /\ UNCHANGED charge => UNCHANGED Confirmed
      /\ UNCHANGED enrollment => UNCHANGED Granted
  BY DEF Quoted, Confirmed, Granted, References, ChargeRefs
<1>2. CASE tx' # tx
  <2>1. UNCHANGED <<charge, enrollment>>
    BY <1>0, <1>2, TransactionWrites
  <2> QED
    BY <1>1, <1>2, <2>1, QuotedStep DEF Access!Next, Access!Quote, Access!vars
<1>3. CASE charge' # charge
  <2>1. UNCHANGED <<tx, enrollment>>
    BY <1>0, <1>3, ChargeWrites
  <2> QED
    BY <1>1, <1>3, <2>1, ConfirmedStep DEF Access!Next, Access!Confirm, Access!vars
<1>4. CASE enrollment' # enrollment
  <2>1. UNCHANGED <<tx, charge>>
    BY <1>0, <1>4, EnrollmentWrites
  <2> QED
    BY <1>1, <1>4, <2>1, GrantedStep DEF Access!Next, Access!Grant, Access!vars
<1>5. CASE UNCHANGED <<tx, charge, enrollment>>
  BY <1>1, <1>5 DEF Access!vars
<1> QED
  BY <1>2, <1>3, <1>4, <1>5

\* The handlers, their retries, failures and crashes implement the ledger of
\* access the platform promises.
THEOREM Refinement == Spec => ImplementsAccessLedger
<1>1. Init => Access!Init
  BY AccessInit
<1>2. IInv /\ [Next]_vars => [Access!Next]_Access!vars
  BY AccessStep
<1> QED
  BY <1>1, <1>2, Inductive, PTL DEF Spec, ImplementsAccessLedger, Access!Spec
=============================================================================
