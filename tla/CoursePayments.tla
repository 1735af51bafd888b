--------------------------- MODULE CoursePayments ---------------------------
(***************************************************************************)
(* The payment side of the platform as one system: enrollment requests,   *)
(* scholarship applications and their jobs, and webhook deliveries, over  *)
(* the shared collections, with the users who pay, the admin who edits    *)
(* courses, Paystack's redelivery and crashes of the server.              *)
(***************************************************************************)
EXTENDS EnrollmentRequest, ScholarshipApproval, PaystackWebhook

CONSTANTS MaxCrashes            \* bound on crashes of the server

ASSUME CrashAssumption == MaxCrashes \in Nat

VARIABLES crashes

vars == <<ledger, request, job, webhook, crashes>>

Init ==
    /\ LedgerInit
    /\ RequestInit
    /\ ApprovalInit
    /\ WebhookInit
    /\ crashes = 0

----------------------------------------------------------------------------
(* The users, outside the code: a payment link is paid at Paystack, and the *)
(* shop page of a course takes any amount from anyone.                      *)

PayLink(u, r) ==
    /\ <<u, r>> \in urls
    /\ charge[r].status = "open"
    /\ charge' = [charge EXCEPT ![r].status = "paid"]
    /\ UNCHANGED <<course, enrollment, tx, scholarship, now, faults>>

PayShop(r, u, a) ==
    /\ charge[r].status = "none"
    /\ charge' = [charge EXCEPT ![r] = [status |-> "paid", payer |-> u, amount |-> a]]
    /\ UNCHANGED <<course, enrollment, tx, scholarship, now, faults>>

\* process exit: everything in memory is gone, MongoDB and Redis remain
Crash ==
    /\ crashes < MaxCrashes
    /\ crashes' = crashes + 1
    /\ DropRequests
    /\ DropApplicationsAndStallJobs
    /\ DropHooks
    /\ UNCHANGED <<ledger, urls, answer, acked, failureAcked>>

----------------------------------------------------------------------------

Environment ==
    /\ \/ Tick
       \/ \E c \in Courses : UpdateCourse(c)
       \/ \E u \in Users, r \in References : PayLink(u, r)
       \/ \E r \in ShopRefs, u \in Users \cup {Stranger}, a \in Amounts : PayShop(r, u, a)
    /\ UNCHANGED <<request, job, webhook, crashes>>

RequestNext ==
    /\ \E q \in Requests :
          \/ \E u \in Users, t \in Targets : CreateEnrollment(q, u, t)
          \/ RequestStep(q)
    /\ UNCHANGED <<job, webhook, crashes>>

ApprovalNext ==
    /\ \E s \in Scholarships :
          \/ \E u \in Users, c \in Courses : Apply(s, u, c)
          \/ ApplicationStep(s)
          \/ WorkerStep(s)
    /\ UNCHANGED <<request, webhook, crashes>>

WebhookNext ==
    /\ \E h \in Handlers :
          \/ \E r \in ChargeRefs : DeliverSuccess(h, r) \/ DeliverFailure(h, r)
          \/ HookStep(h)
    /\ UNCHANGED <<request, job, crashes>>

Next == Environment \/ RequestNext \/ ApprovalNext \/ WebhookNext \/ Crash

\* The event loop resumes every awaited call, Bull runs every queued job, and
\* Paystack keeps delivering a paid charge whose 200 it has not seen.
Fairness ==
    /\ \A q \in Requests :
          WF_vars(RequestStep(q) /\ UNCHANGED <<job, webhook, crashes>>)
    /\ \A s \in Scholarships :
          WF_vars((ApplicationStep(s) \/ WorkerStep(s))
                  /\ UNCHANGED <<request, webhook, crashes>>)
    /\ \A h \in Handlers :
          WF_vars(HookStep(h) /\ UNCHANGED <<request, job, crashes>>)
    /\ \A r \in ChargeRefs :
          SF_vars((\E h \in Handlers : DeliverSuccess(h, r))
                  /\ UNCHANGED <<request, job, crashes>>)

Spec == Init /\ [][Next]_vars

FairSpec == Spec /\ Fairness

----------------------------------------------------------------------------
(* Invariants *)

TypeOK ==
    /\ LedgerTypeOK
    /\ RequestTypeOK
    /\ ApprovalTypeOK
    /\ WebhookTypeOK
    /\ crashes \in 0..MaxCrashes

\* u was asked for the amount of charge r for course c, and the charge came
\* either from u or under the reference of that very transaction
Funds(r, t, u, c) ==
    /\ tx[t].status # "none" /\ tx[t].user = u /\ tx[t].course = c
    /\ charge[r].status = "paid" /\ charge[r].amount = tx[t].amount
    /\ charge[r].payer = u \/ r = t

\* Access is paid for: behind every ACTIVE course enrollment there is a
\* charge Paystack confirmed, of the amount a transaction of that user in
\* that course asked for, whichever of the two webhook paths matched it and
\* whatever calls failed or crashed on the way.
ActiveIsFunded ==
    \A u \in Users, c \in Courses :
        HasActiveEnrollment(u, c) =>
            \E r \in ChargeRefs, t \in References : Funds(r, t, u, c)

HasTransaction(u, c) ==
    \E t \in References : tx[t].status # "none" /\ tx[t].user = u /\ tx[t].course = c

\* The comment of processScholarshipApproval ("Only approve after the pending
\* enrollment and payment record exist"): an approved or paid application has
\* an enrollment and a transaction of its user in its course, through retries,
\* stalls and duplicate keys.
ApprovedHasPaymentRecord ==
    \A s \in Scholarships :
        scholarship[s].status \in {"APPROVED", "PAID"} =>
            /\ HasEnrollment(scholarship[s].user, scholarship[s].course)
            /\ HasTransaction(scholarship[s].user, scholarship[s].course)

\* handleScholarshipPayment writes PAID last: a PAID scholarship gives access
\* to its own course, even when the settled transaction was reached through
\* another delivery or the update of the transaction failed unnoticed.
PaidHasAccess ==
    \A s \in Scholarships :
        scholarship[s].status = "PAID" =>
            HasActiveEnrollment(scholarship[s].user, scholarship[s].course)

\* A regular charge Paystack was told is settled (200) has its transaction
\* SUCCESS and its enrollment ACTIVE: nobody's money is acknowledged and lost.
\* It needs calls that do not fail (ReactivateEnrollment ignores a failure)
\* and PricesApart (MatchScholarshipTransaction goes by user and amount).
AcknowledgedIsSettled ==
    \A r \in References :
        answer[r] = "ok" => /\ tx[r].status = "SUCCESS"
                            /\ HasActiveEnrollment(tx[r].user, tx[r].course)

\* A webhook between two awaits still holds the transaction it found for a
\* confirmed charge, and the scholarship of that transaction.
HookMatches ==
    \A h \in Handlers :
        LET t == tx[hook[h].tx]
        IN  /\ hook[h].need \notin {"idle", "failure"} => charge[hook[h].ref].status = "paid"
            /\ hook[h].need \in Settling => Funds(hook[h].ref, hook[h].tx, t.user, t.course)
            /\ hook[h].need \in ScholarshipSettling => t.scholarship # NoScholarship
            /\ hook[h].need \in {"scholarship", "markPaid"} =>
                  HasActiveEnrollment(t.user, t.course)
            /\ hook[h].need = "markPaid" =>
                  scholarship[t.scholarship].status \in {"APPROVED", "PAID"}

\* metadata.scholarshipId names an application of the same user and course.
TransactionMatches ==
    \A t \in References :
        tx[t].status # "none" /\ tx[t].scholarship # NoScholarship =>
            LET s == tx[t].scholarship
            IN  /\ scholarship[s].status # "none"
                /\ scholarship[s].user = tx[t].user
                /\ scholarship[s].course = tx[t].course

\* What the application request and the job know about their application,
\* its enrollment and its transaction.
JobMatches ==
    \A s \in Scholarships :
        LET j == job[s]
        IN  /\ j.need \in {"absent", "guard", "insert"} => scholarship[s].status = "none"
            /\ j.need \notin {"absent", "guard", "insert"} =>
                  /\ scholarship[s].status # "none"
                  /\ scholarship[s].user = j.user /\ scholarship[s].course = j.course
            /\ j.need \in Running \ {"notify"} => scholarship[s].status = "PENDING"
            /\ j.need \in {"transaction", "record", "approve"} =>
                  HasEnrollment(j.user, j.course)
            /\ j.need = "approve" => HasTransaction(j.user, j.course)

\* No scholarship price is the price of a course.
Prices == {doc.price : doc \in CourseStates}
ScholarshipPrices == {doc.scholarshipPrice : doc \in CourseStates}
PricesApart == Prices \cap ScholarshipPrices = {}

\* A payment link asks for the price of a course, the transaction of an
\* application for a scholarship price, from the read of the course on.
AmountsMatch ==
    /\ \A q \in Requests :
          req[q].need \in {"transaction", "paystack"} =>
              req[q].price \in Prices \cup {NoPrice}
    /\ \A r \in References : charge[r].status # "none" => charge[r].amount \in Prices
    /\ \A s \in Scholarships :
          job[s].need \in {"enrollment", "enroll", "transaction", "record"} =>
              job[s].amount \in ScholarshipPrices
    /\ \A t \in References :
          tx[t].status # "none" /\ tx[t].scholarship # NoScholarship =>
              tx[t].amount \in ScholarshipPrices

\* The delivery of a payment link holds the transaction of that link, settled
\* from markTransactionSuccessful's write on, and never a scholarship's.
LinkHookMatches ==
    \A h \in Handlers :
        LET r == hook[h].ref
        IN  r \in References =>
              /\ hook[h].need \notin ScholarshipSettling
              /\ hook[h].need \in {"settle", "activate", "reactivate"} => hook[h].tx = r
              /\ hook[h].need \in {"activate", "reactivate", "notify"} =>
                    tx[r].status = "SUCCESS"
              /\ hook[h].need = "notify" => HasActiveEnrollment(tx[r].user, tx[r].course)

LinkInv ==
    /\ AmountsMatch
    /\ LinkHookMatches
    /\ faults = 0 => AcknowledgedIsSettled

IInv ==
    /\ TypeOK
    /\ HookMatches
    /\ TransactionMatches
    /\ JobMatches
    /\ ActiveIsFunded
    /\ ApprovedHasPaymentRecord
    /\ PaidHasAccess

----------------------------------------------------------------------------
(* Action properties *)

EnrollmentsAdvance ==
    \A u \in Users, t \in Targets :
        /\ HasEnrollment(u, t) => HasEnrollment(u, t)'
        /\ HasActiveEnrollment(u, t) => HasActiveEnrollment(u, t)'

TransactionsAdvance ==
    \A t \in References :
        tx[t].status # "none" => tx'[t] \in {tx[t], [tx[t] EXCEPT !.status = "SUCCESS"]}

ScholarshipsAdvance ==
    \A s \in Scholarships :
        scholarship[s].status # "none" =>
            \/ scholarship'[s] = scholarship[s]
            \/ /\ scholarship[s].status = "PENDING"
               /\ scholarship'[s] = [scholarship[s] EXCEPT !.status = "APPROVED"]
            \/ /\ scholarship[s].status = "APPROVED"
               /\ scholarship'[s] = [scholarship[s] EXCEPT !.status = "PAID"]

ChargesAdvance ==
    \A r \in ChargeRefs : charge[r].status = "paid" => charge'[r] = charge[r]

Advance ==
    EnrollmentsAdvance /\ TransactionsAdvance /\ ScholarshipsAdvance /\ ChargesAdvance

\* Every update is an unconditional write, by id, decided on a document read
\* some awaits earlier.  None of them takes a document back: an enrollment
\* stays ACTIVE, a transaction SUCCESS, an application goes from PENDING over
\* APPROVED to PAID, no insert overwrites a document, and whom and what a
\* document is about never changes.
RecordsOnlyAdvance == [][Advance]_vars

Documents == <<enrollment, tx, scholarship>>

HandlerMoves(h) == hook'[h] # hook[h] /\ crashes' = crashes

\* handleWebhook "must be idempotent": once a delivery of a charge has been
\* answered 200, no step of another delivery of it changes a document.  For
\* the payment links of initializePayment:
LinkRedeliveryChangesNothing ==
    [][\A h \in Handlers :
          HandlerMoves(h) /\ hook[h].ref \in References /\ answer[hook[h].ref] = "ok"
             => UNCHANGED Documents]_vars

\* ... and for purchases on the shop page:
ShopRedeliveryChangesNothing ==
    [][\A h \in Handlers :
          HandlerMoves(h) /\ hook[h].ref \in ShopRefs /\ answer[hook[h].ref] = "ok"
             => UNCHANGED Documents]_vars

----------------------------------------------------------------------------
(* Liveness *)

\* Webhook reconciliation: a paid link with a local transaction gives access,
\* however the deliveries of the charge were cut short or overtaken.
PaidLinkGivesAccess ==
    \A r \in References :
        (charge[r].status = "paid" /\ tx[r].status # "none" /\ tx[r].url)
            ~> HasActiveEnrollment(tx[r].user, tx[r].course)

\* A queued application is decided, or its job has used up its retries.
QueuedIsDecided ==
    \A s \in Scholarships :
        (job[s].need = "waiting")
            ~> (scholarship[s].status # "PENDING" \/ job[s].need = "failed")

----------------------------------------------------------------------------
(* Refinement *)

Quoted ==
    {[user |-> tx[t].user, course |-> tx[t].course, amount |-> tx[t].amount] :
        t \in {x \in References : tx[x].status # "none"}}

Confirmed ==
    {[charge |-> r, amount |-> charge[r].amount] :
        r \in {x \in ChargeRefs : charge[x].status = "paid"}}

Granted == {k \in Users \X Courses : enrollment[k].status = "ACTIVE"}

Access == INSTANCE AccessLedger WITH
    Charges <- ChargeRefs, quoted <- Quoted, confirmed <- Confirmed, access <- Granted

\* Every step of the handlers is a step of the ledger the platform promises,
\* or leaves it alone.
ImplementsAccessLedger == Access!Spec
=============================================================================
