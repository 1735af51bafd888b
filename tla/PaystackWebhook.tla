--------------------------- MODULE PaystackWebhook ---------------------------
(***************************************************************************)
(* POST /paystack/webhook: TransactionService.handleWebhook and the calls *)
(* it makes.  A handler that throws answers 500 and Paystack delivers the *)
(* event again; an answer may also be lost on the way, so a delivery that *)
(* was handled can be repeated, and two deliveries of one event can run   *)
(* at the same time.  Each action is the code from one await to the next. *)
(***************************************************************************)
EXTENDS CourseLedger

CONSTANTS Handlers              \* concurrent webhook requests

VARIABLES
    hook,                       \* the locals of each webhook request
    answer,                     \* the last answer given for a paid charge
    acked,                      \* charges whose 200 has reached Paystack
    failureAcked                \* charges whose charge.failed was answered 200

webhook == <<hook, answer, acked, failureAcked>>

HookSteps == {"idle", "match",
              "settleScholarship", "activateScholarship", "scholarship", "markPaid",
              "lookup", "settle", "activate", "reactivate", "notify", "failure"}

\* the awaits at which a handler holds a transaction it has matched
ScholarshipSettling == {"settleScholarship", "activateScholarship", "scholarship", "markPaid"}
Settling == ScholarshipSettling \cup {"settle", "activate", "reactivate"}

\* ref: data.reference of the event; tx: the transaction found for it
HookLocals == [need: HookSteps, ref: ChargeRefs, tx: References]

WebhookTypeOK ==
    /\ hook \in [Handlers -> HookLocals]
    /\ answer \in [ChargeRefs -> {"none", "ok", "error"}]
    /\ acked \subseteq ChargeRefs
    /\ failureAcked \subseteq ChargeRefs

IdleHook == [need |-> "idle", ref |-> 0, tx |-> 0]

WebhookInit ==
    /\ hook = [h \in Handlers |-> IdleHook]
    /\ answer = [r \in ChargeRefs |-> "none"]
    /\ acked = {}
    /\ failureAcked = {}

HookAwaits(h, call) == hook' = [hook EXCEPT ![h].need = call]

\* The handler returns: 200, which may or may not reach Paystack.
Accept(h) ==
    /\ hook' = [hook EXCEPT ![h] = IdleHook]
    /\ answer' = [answer EXCEPT ![hook[h].ref] = "ok"]
    /\ acked' \in {acked, acked \cup {hook[h].ref}}

\* The handler throws: 500.
Throw(h) ==
    /\ hook' = [hook EXCEPT ![h] = IdleHook]
    /\ answer' = [answer EXCEPT ![hook[h].ref] = "error"]
    /\ UNCHANGED acked

Continue(h, call) == HookAwaits(h, call) /\ UNCHANGED <<answer, acked>>

----------------------------------------------------------------------------
(* handleWebhook *)

\* charge.success, delivered until Paystack has seen a 200
DeliverSuccess(h, r) ==
    /\ hook[h].need = "idle"
    /\ charge[r].status = "paid"
    /\ r \notin acked
    /\ hook' = [hook EXCEPT ![h] = [need |-> "match", ref |-> r, tx |-> 0]]
    /\ UNCHANGED <<ledger, answer, acked, failureAcked>>

\* charge.failed, for an attempt to pay an open charge
DeliverFailure(h, r) ==
    /\ hook[h].need = "idle"
    /\ charge[r].status = "open"
    /\ r \notin failureAcked
    /\ hook' = [hook EXCEPT ![h] = [need |-> "failure", ref |-> r, tx |-> 0]]
    /\ UNCHANGED <<ledger, answer, acked, failureAcked>>

----------------------------------------------------------------------------
(* handleScholarshipPayment *)

\* The payer is found by email; then any pending scholarship transaction of
\* that user and amount is taken.  No user, no transaction or a failed query
\* returns false, and the event is handled as a regular payment.
MatchScholarshipTransaction(h) ==
    LET paid == charge[hook[h].ref]
        found == PendingScholarshipTransactions(paid.payer, paid.amount)
    IN  /\ hook[h].need = "match"
        /\ \E ok \in BOOLEAN :
              /\ DbCall(ok)
              /\ \/ /\ ok
                    /\ \E t \in found :
                          hook' = [hook EXCEPT ![h] =
                                     [@ EXCEPT !.need = "settleScholarship", !.tx = t]]
                 \/ /\ ~ok \/ found = {}
                    /\ HookAwaits(h, "lookup")
        /\ UNCHANGED <<course, enrollment, tx, scholarship, charge, now,
                       answer, acked, failureAcked>>

\* The result of the update is not looked at.
SettleScholarshipTransaction(h) ==
    /\ hook[h].need = "settleScholarship"
    /\ \E ok \in BOOLEAN :
          /\ DbCall(ok)
          /\ tx' = IF ok THEN [tx EXCEPT ![hook[h].tx].status = "SUCCESS"] ELSE tx
    /\ Continue(h, "activateScholarship")
    /\ UNCHANGED <<course, enrollment, scholarship, charge, now, failureAcked>>

\* mutant: the result of the activation is not looked at
ActivateScholarshipEnrollmentUnchecked(h) ==
    LET t == tx[hook[h].tx]
    IN  /\ hook[h].need = "activateScholarship"
        /\ \E ok \in BOOLEAN :
              /\ DbCall(ok)
              /\ IF ok THEN ActivateEnrollment(t.user, t.course)
                       ELSE UNCHANGED enrollment
        /\ Continue(h, "scholarship")
        /\ UNCHANGED <<course, tx, scholarship, charge, now, failureAcked>>

ActivateScholarshipEnrollment(h) ==
    LET t == tx[hook[h].tx]
    IN  /\ hook[h].need = "activateScholarship"
        /\ \E ok \in BOOLEAN :
              /\ DbCall(ok)
              /\ IF ok
                 THEN ActivateEnrollment(t.user, t.course) /\ Continue(h, "scholarship")
                 ELSE UNCHANGED enrollment /\ Throw(h)
        /\ UNCHANGED <<course, tx, scholarship, charge, now, failureAcked>>

LoadScholarship(h) ==
    LET status == scholarship[tx[hook[h].tx].scholarship].status
    IN  /\ hook[h].need = "scholarship"
        /\ \E ok \in BOOLEAN :
              /\ DbCall(ok)
              /\ \/ ok /\ status = "PAID" /\ Accept(h)
                 \/ ok /\ status = "APPROVED" /\ Continue(h, "markPaid")
                 \/ (~ok \/ status \notin {"PAID", "APPROVED"}) /\ Throw(h)
        /\ UNCHANGED <<course, enrollment, tx, scholarship, charge, now, failureAcked>>

\* The result of this update is not looked at either.
MarkScholarshipPaid(h) ==
    LET s == tx[hook[h].tx].scholarship
    IN  /\ hook[h].need = "markPaid"
        /\ \E ok \in BOOLEAN :
              /\ DbCall(ok)
              /\ scholarship' = IF ok THEN [scholarship EXCEPT ![s].status = "PAID"]
                                      ELSE scholarship
        /\ Continue(h, "notify")
        /\ UNCHANGED <<course, enrollment, tx, charge, now, failureAcked>>

----------------------------------------------------------------------------
(* markTransactionSuccessful *)

\* mutant: a transaction that is SUCCESS already is answered at once
FindTransactionByReferenceOnce(h) ==
    LET r == hook[h].ref
        found == /\ r \in References
                 /\ tx[r].status # "none"
                 /\ tx[r].amount = charge[r].amount
    IN  /\ hook[h].need = "lookup"
        /\ \/ found /\ tx[r].status = "SUCCESS" /\ Accept(h)
           \/ /\ found /\ tx[r].status = "PENDING"
              /\ hook' = [hook EXCEPT ![h] = [@ EXCEPT !.need = "settle", !.tx = r]]
              /\ UNCHANGED <<answer, acked>>
           \/ ~found /\ Throw(h)
        /\ UNCHANGED <<ledger, failureAcked>>

FindTransactionByReference(h) ==
    LET r == hook[h].ref
    IN  /\ hook[h].need = "lookup"
        /\ \E ok \in BOOLEAN :
              /\ DbCall(ok)
              /\ IF /\ ok
                    /\ r \in References
                    /\ tx[r].status # "none"
                    /\ tx[r].amount = charge[r].amount
                 THEN /\ hook' = [hook EXCEPT ![h] =
                           [@ EXCEPT !.need = IF tx[r].status = "SUCCESS"
                                              THEN "reactivate" ELSE "settle",
                                     !.tx = r]]
                      /\ UNCHANGED <<answer, acked>>
                 ELSE Throw(h)
        /\ UNCHANGED <<course, enrollment, tx, scholarship, charge, now, failureAcked>>

\* A transaction that is SUCCESS already: activate again, whatever came of
\* the first time, and answer 200 whatever comes of this one.
ReactivateEnrollment(h) ==
    LET t == tx[hook[h].tx]
    IN  /\ hook[h].need = "reactivate"
        /\ \E ok \in BOOLEAN :
              /\ DbCall(ok)
              /\ IF ok THEN ActivateEnrollment(t.user, t.course)
                       ELSE UNCHANGED enrollment
        /\ Accept(h)
        /\ UNCHANGED <<course, tx, scholarship, charge, now, failureAcked>>

\* mutant: the delivery is answered before the enrollment is activated
SettleTransactionAndAnswer(h) ==
    /\ hook[h].need = "settle"
    /\ tx' = [tx EXCEPT ![hook[h].tx].status = "SUCCESS"]
    /\ Accept(h)
    /\ UNCHANGED <<course, enrollment, scholarship, charge, now, faults, failureAcked>>

SettleTransaction(h) ==
    /\ hook[h].need = "settle"
    /\ \E ok \in BOOLEAN :
          /\ DbCall(ok)
          /\ IF ok
             THEN /\ tx' = [tx EXCEPT ![hook[h].tx].status = "SUCCESS"]
                  /\ Continue(h, "activate")
             ELSE UNCHANGED tx /\ Throw(h)
    /\ UNCHANGED <<course, enrollment, scholarship, charge, now, failureAcked>>

ActivatePaidEnrollment(h) ==
    LET t == tx[hook[h].tx]
    IN  /\ hook[h].need = "activate"
        /\ \E ok \in BOOLEAN :
              /\ DbCall(ok)
              /\ IF ok
                 THEN ActivateEnrollment(t.user, t.course) /\ Continue(h, "notify")
                 ELSE UNCHANGED enrollment /\ Throw(h)
        /\ UNCHANGED <<course, tx, scholarship, charge, now, failureAcked>>

\* The confirmation email is queued, or the handler throws.
NotifyEnrollment(h) ==
    /\ hook[h].need = "notify"
    /\ Accept(h) \/ Throw(h)
    /\ UNCHANGED <<ledger, failureAcked>>

----------------------------------------------------------------------------
(* markTransactionFailed: looks the transaction up and does nothing else *)

MarkTransactionFailed(h) ==
    LET r == hook[h].ref
    IN  /\ hook[h].need = "failure"
        /\ \E ok \in BOOLEAN :
              /\ DbCall(ok)
              /\ failureAcked' = IF ok /\ r \in References /\ tx[r].status # "none"
                                 THEN failureAcked \cup {r} ELSE failureAcked
        /\ hook' = [hook EXCEPT ![h] = IdleHook]
        /\ UNCHANGED <<course, enrollment, tx, scholarship, charge, now, answer, acked>>

----------------------------------------------------------------------------

HookStep(h) ==
    \/ MatchScholarshipTransaction(h)
    \/ SettleScholarshipTransaction(h)
    \/ ActivateScholarshipEnrollment(h)
    \/ LoadScholarship(h)
    \/ MarkScholarshipPaid(h)
    \/ FindTransactionByReference(h)
    \/ ReactivateEnrollment(h)
    \/ SettleTransaction(h)
    \/ ActivatePaidEnrollment(h)
    \/ NotifyEnrollment(h)
    \/ MarkTransactionFailed(h)

\* A crash of the server ends every webhook request; Paystack, unanswered,
\* delivers again.
DropHooks == hook' = [h \in Handlers |-> IdleHook]
=============================================================================
