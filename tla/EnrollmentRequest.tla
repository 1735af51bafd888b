-------------------------- MODULE EnrollmentRequest --------------------------
(***************************************************************************)
(* POST /enrollments: EnrollmentService.createEnrollment and the          *)
(* TransactionService.initializePayment it ends in.  A request runs on    *)
(* the event loop and yields at every await; each action below is the     *)
(* stretch of code from one await to the next.  `need` names the call the *)
(* request is waiting for.                                                 *)
(***************************************************************************)
EXTENDS CourseLedger

CONSTANTS Requests              \* concurrent requests

VARIABLES
    req,                        \* the locals of each request
    urls                        \* <<user, reference>>: payment links handed out

request == <<req, urls>>

RequestSteps == {"idle", "active", "pending", "create",
                 "enrollment", "course", "transaction", "paystack", "record"}

NoPrice == "no price"           \* the course or the user was not read

ASSUME PriceAssumption == NoPrice \notin Amounts

RequestLocals == [need: RequestSteps, user: Users, target: Targets,
                  open: BOOLEAN, price: Amounts \cup {NoPrice}, ref: References]

\* initializePayment goes past its checks for courses only, and past Paystack
\* with a price only
RequestTypeOK ==
    /\ req \in [Requests -> RequestLocals]
    /\ \A q \in Requests :
          req[q].need \in {"course", "transaction", "paystack", "record"}
             => req[q].target \in Courses
    /\ \A q \in Requests : req[q].need = "record" => req[q].price \in Amounts
    /\ urls \subseteq Users \X References

IdleRequest == [need |-> "idle", user |-> AnyUser, target |-> AnyCourse,
                open |-> FALSE, price |-> AnyAmount, ref |-> 0]

RequestInit ==
    /\ req = [q \in Requests |-> IdleRequest]
    /\ urls = {}

Await(q, call) == req' = [req EXCEPT ![q].need = call]

Respond(q) == req' = [req EXCEPT ![q] = IdleRequest]

----------------------------------------------------------------------------
(* createEnrollment *)

\* The target is a course or a program that exists (validateCreateDto,
\* checkTargetExists).  The course document read here decides, several awaits
\* later, whether enrollment is open.
CreateEnrollment(q, u, t) ==
    /\ req[q].need = "idle"
    /\ req' = [req EXCEPT ![q] =
                 [@ EXCEPT !.need = "active", !.user = u, !.target = t,
                           !.open = IF t \in Courses THEN course[t].open ELSE TRUE]]
    /\ UNCHANGED <<ledger, urls>>

\* A failed query is taken for "no such enrollment".
CheckActiveEnrollment(q) ==
    /\ req[q].need = "active"
    /\ \E ok \in BOOLEAN :
          /\ DbCall(ok)
          /\ IF ok /\ HasActiveEnrollment(req[q].user, req[q].target)
             THEN Respond(q)                                       \* 409
             ELSE Await(q, "pending")
    /\ UNCHANGED <<course, enrollment, tx, scholarship, charge, now, urls>>

CheckPendingEnrollment(q) ==
    /\ req[q].need = "pending"
    /\ \E ok \in BOOLEAN :
          /\ DbCall(ok)
          /\ IF ok /\ HasPendingEnrollment(req[q].user, req[q].target)
             THEN Await(q, "enrollment")
             ELSE IF req[q].open THEN Await(q, "create")
                                 ELSE Respond(q)                   \* 400
    /\ UNCHANGED <<course, enrollment, tx, scholarship, charge, now, urls>>

\* A program enrollment is born ACTIVE and answers; a course enrollment is
\* born PENDING and goes on to the payment.  A duplicate key ends the request.
SaveEnrollment(q) ==
    LET u == req[q].user
        t == req[q].target
    IN  /\ req[q].need = "create"
        /\ \E ok \in BOOLEAN :
              /\ DbCall(ok)
              /\ \/ /\ ok /\ CanInsertEnrollment(u, t)
                    /\ t \in Programs
                    /\ InsertEnrollment(u, t, "ACTIVE", "FREE")
                    /\ Respond(q)
                 \/ /\ ok /\ CanInsertEnrollment(u, t)
                    /\ t \notin Programs
                    /\ InsertEnrollment(u, t, "PENDING", "REGULAR")
                    /\ Await(q, "enrollment")
                 \/ /\ ~(ok /\ CanInsertEnrollment(u, t))
                    /\ UNCHANGED enrollment
                    /\ Respond(q)                                  \* 500
        /\ UNCHANGED <<course, tx, scholarship, charge, now, urls>>

----------------------------------------------------------------------------
(* initializePayment *)

LoadEnrollment(q) ==
    /\ req[q].need = "enrollment"
    /\ \E ok \in BOOLEAN :
          /\ DbCall(ok)
          /\ IF /\ ok
                /\ req[q].target \in Courses
                /\ HasPendingEnrollment(req[q].user, req[q].target)
             THEN Await(q, "course")
             ELSE Respond(q)                                       \* 404, 400
    /\ UNCHANGED <<course, enrollment, tx, scholarship, charge, now, urls>>

\* The results of reading the user and the course are not looked at: after a
\* failure there is no email or no price to open a charge with.
LoadCourse(q) ==
    /\ req[q].need = "course"
    /\ \E ok \in BOOLEAN :
          /\ DbCall(ok)
          /\ req' = [req EXCEPT ![q] =
                       [@ EXCEPT !.need = "transaction",
                                 !.price = IF ok THEN course[req[q].target].price
                                                 ELSE NoPrice]]
    /\ UNCHANGED <<course, enrollment, tx, scholarship, charge, now, urls>>

\* A pending transaction answers with its own link, which a transaction of
\* the approval job does not have.  Without one the reference is taken from
\* the clock and Paystack is called, both before the next await.
CheckPendingTransaction(q) ==
    LET pending == PendingTransactions(req[q].user, req[q].target)
    IN  /\ req[q].need = "transaction"
        /\ \E ok \in BOOLEAN :
              /\ DbCall(ok)
              /\ \/ /\ ok
                    /\ \E r \in pending :
                          urls' = IF tx[r].url THEN urls \cup {<<req[q].user, r>>}
                                               ELSE urls
                    /\ Respond(q)
                 \/ /\ ~ok \/ pending = {}
                    /\ req' = [req EXCEPT ![q] =
                                 [@ EXCEPT !.need = "paystack", !.ref = now]]
                    /\ UNCHANGED urls
        /\ UNCHANGED <<course, enrollment, tx, scholarship, charge, now>>

\* Paystack refuses a reference it knows and an amount it cannot read; it may
\* also fail, and it may fail after it has opened the charge.
InitializeAtPaystack(q) ==
    LET opened == charge' = [charge EXCEPT ![req[q].ref] =
                               [status |-> "open", payer |-> req[q].user,
                                amount |-> req[q].price]]
        fresh == charge[req[q].ref].status = "none" /\ req[q].price # NoPrice
    IN  /\ req[q].need = "paystack"
        /\ \/ fresh /\ opened /\ Await(q, "record")
           \/ fresh /\ opened /\ Respond(q)                        \* 500
           \/ UNCHANGED charge /\ Respond(q)                       \* 500
        /\ UNCHANGED <<course, enrollment, tx, scholarship, now, faults, urls>>

\* The result of createTransaction is logged, never looked at: the link goes
\* out whether or not there is a local transaction for it.
RecordTransaction(q) ==
    LET u == req[q].user
        r == req[q].ref
    IN  /\ req[q].need = "record"
        /\ \E ok \in BOOLEAN :
              /\ DbCall(ok)
              /\ IF ok /\ CanInsertTransaction(r, u, req[q].target)
                 THEN InsertTransaction(r, u, req[q].target, req[q].price,
                                        TRUE, NoScholarship)
                 ELSE UNCHANGED tx
        /\ urls' = urls \cup {<<u, r>>}
        /\ Respond(q)
        /\ UNCHANGED <<course, enrollment, scholarship, charge, now>>

----------------------------------------------------------------------------

RequestStep(q) ==
    \/ CheckActiveEnrollment(q)
    \/ CheckPendingEnrollment(q)
    \/ SaveEnrollment(q)
    \/ LoadEnrollment(q)
    \/ LoadCourse(q)
    \/ CheckPendingTransaction(q)
    \/ InitializeAtPaystack(q)
    \/ RecordTransaction(q)

\* A crash of the server ends every request it was serving.
DropRequests == req' = [q \in Requests |-> IdleRequest]
=============================================================================
