---------------------------- MODULE CourseLedger ----------------------------
(***************************************************************************)
(* The MongoDB collections behind course access: courses, enrollments,    *)
(* transactions and scholarships, with the unique indexes their schemas   *)
(* declare, and the charges Paystack holds.  The handlers of the platform *)
(* (enrollment request, approval job, webhook) read and write these       *)
(* collections one awaited call at a time: this module gives the queries  *)
(* and the writes, the modules that extend it give their order.           *)
(*                                                                         *)
(* A collection is a total function; a document not yet inserted has      *)
(* status "none".  The unique index on open enrollments, and the fact     *)
(* that no code writes CANCELLED, leave at most one enrollment of a user  *)
(* in a target: enrollments are keyed by that pair.  An amount stands for *)
(* an (amount, currency) pair: the code compares both or neither.         *)
(***************************************************************************)
EXTENDS Integers

CONSTANTS
    Users,          \* accounts that enroll and apply
    Courses,        \* paid enrollment targets
    Programs,       \* free enrollment targets
    Scholarships,   \* identities of scholarship documents
    Amounts,        \* prices, in minor units, with their currency
    CourseStates,   \* the contents an admin may give a course
    ShopRefs,       \* references Paystack makes up for shop purchases
    MaxNow,         \* bound on the millisecond clock
    MaxDbFaults     \* bound on failing database calls

VARIABLES
    course,         \* the courses collection
    enrollment,     \* the enrollments collection, by <<user, target>>
    tx,             \* the transactions collection, by reference
    scholarship,    \* the scholarships collection
    charge,         \* Paystack's record of each reference
    now,            \* Date.now(), from which references are made
    faults          \* database calls that have failed so far

ledger == <<course, enrollment, tx, scholarship, charge, now, faults>>

Targets == Courses \cup Programs
References == 0..MaxNow             \* `PCPD-TXN-${Date.now()}`
ChargeRefs == References \cup ShopRefs
NoScholarship == "no scholarship"   \* metadata without a scholarshipId
Stranger == "no account"            \* a payer whose email is nobody's

CourseDoc == [open: BOOLEAN,        \* PUBLISHED and enrollmentEnabled
              offers: BOOLEAN,      \* scholarshipEnabled and enrollmentEnabled
              price: Amounts, scholarshipPrice: Amounts]

ASSUME LedgerAssumption ==
    /\ MaxNow \in Nat
    /\ MaxDbFaults \in Nat
    /\ Users # {} /\ Courses # {} /\ Amounts # {}
    /\ Courses \cap Programs = {}
    /\ CourseStates \subseteq CourseDoc
    /\ NoScholarship \notin Scholarships
    /\ Stranger \notin Users
    /\ ShopRefs \cap References = {}

----------------------------------------------------------------------------
(* Documents *)

EnrollmentDoc == [status: {"none", "PENDING", "ACTIVE"},
                  kind: {"none", "REGULAR", "SCHOLARSHIP", "FREE"}]

\* url: the authorization URL initializePayment stores and the job does not;
\* scholarship: metadata.scholarshipId, written exactly when
\* metadata.paymentSource is "shop_url".
TransactionDoc == [status: {"none", "PENDING", "SUCCESS"},
                   user: Users, course: Courses, amount: Amounts,
                   url: BOOLEAN,
                   scholarship: Scholarships \cup {NoScholarship}]

ScholarshipDoc == [status: {"none", "PENDING", "APPROVED", "PAID"},
                   user: Users, course: Courses]

PaystackCharge == [status: {"none", "open", "paid"},
                   payer: Users \cup {Stranger}, amount: Amounts]

AnyUser == CHOOSE u \in Users : TRUE
AnyCourse == CHOOSE c \in Courses : TRUE
AnyAmount == CHOOSE a \in Amounts : TRUE

LedgerTypeOK ==
    /\ course \in [Courses -> CourseStates]
    /\ enrollment \in [Users \X Targets -> EnrollmentDoc]
    /\ tx \in [References -> TransactionDoc]
    /\ scholarship \in [Scholarships -> ScholarshipDoc]
    /\ charge \in [ChargeRefs -> PaystackCharge]
    /\ now \in References
    /\ faults \in 0..MaxDbFaults

LedgerInit ==
    /\ course \in [Courses -> CourseStates]
    /\ enrollment = [k \in Users \X Targets |->
                        [status |-> "none", kind |-> "none"]]
    /\ tx = [r \in References |->
                [status |-> "none", user |-> AnyUser, course |-> AnyCourse,
                 amount |-> AnyAmount, url |-> FALSE,
                 scholarship |-> NoScholarship]]
    /\ scholarship = [s \in Scholarships |->
                [status |-> "none", user |-> AnyUser, course |-> AnyCourse]]
    /\ charge = [r \in ChargeRefs |->
                [status |-> "none", payer |-> AnyUser, amount |-> AnyAmount]]
    /\ now = 0
    /\ faults = 0

----------------------------------------------------------------------------
(* Queries *)

\* findOne({userId, targetType, targetId, status})
HasActiveEnrollment(u, t) == enrollment[<<u, t>>].status = "ACTIVE"
HasPendingEnrollment(u, t) == enrollment[<<u, t>>].status = "PENDING"

\* getEnrollment: no filter on the status
HasEnrollment(u, t) == enrollment[<<u, t>>].status # "none"

\* findOne({enrollmentId, status: PENDING})
PendingTransactions(u, c) ==
    {r \in References : tx[r].status = "PENDING" /\ tx[r].user = u /\ tx[r].course = c}

\* mutant: the query without the amount
AnyPendingScholarshipTransactions(u, a) ==
    {r \in References : /\ tx[r].status = "PENDING"
                        /\ tx[r].user = u
                        /\ tx[r].scholarship # NoScholarship}

\* findOne({userId, status: PENDING, "metadata.paymentSource": "shop_url",
\*          amount, currency}): the reference of the charge plays no part
PendingScholarshipTransactions(u, a) ==
    {r \in References : /\ tx[r].status = "PENDING"
                        /\ tx[r].user = u
                        /\ tx[r].amount = a
                        /\ tx[r].scholarship # NoScholarship}

----------------------------------------------------------------------------
(* Writes, with the unique indexes that guard the inserts *)

\* Every repository method turns a failing call into {error: true}.
DbCall(ok) ==
    \/ ok = TRUE /\ UNCHANGED faults
    \/ ok = FALSE /\ faults < MaxDbFaults /\ faults' = faults + 1

\* unique {userId, targetType, targetId} where status is PENDING or ACTIVE
CanInsertEnrollment(u, t) == enrollment[<<u, t>>].status \notin {"PENDING", "ACTIVE"}

InsertEnrollment(u, t, status, kind) ==
    enrollment' = [enrollment EXCEPT ![<<u, t>>] = [status |-> status, kind |-> kind]]

\* unique {reference}, and unique {userId, courseId} where status is PENDING
CanInsertTransaction(r, u, c) ==
    tx[r].status = "none" /\ PendingTransactions(u, c) = {}

InsertTransaction(r, u, c, a, url, s) ==
    tx' = [tx EXCEPT ![r] = [status |-> "PENDING", user |-> u, course |-> c,
                             amount |-> a, url |-> url, scholarship |-> s]]

\* activateEnrollment reads the enrollment and, unless it is ACTIVE already,
\* writes ACTIVE; the read decides nothing else (CANCELLED is never written).
ActivateEnrollment(u, t) ==
    enrollment' = [enrollment EXCEPT ![<<u, t>>].status = "ACTIVE"]

----------------------------------------------------------------------------
(* The clock, and the admin who edits a course under a running handler *)

Tick ==
    /\ now < MaxNow
    /\ now' = now + 1
    /\ UNCHANGED <<course, enrollment, tx, scholarship, charge, faults>>

UpdateCourse(c) ==
    /\ \E doc \in CourseStates \ {course[c]} :
          course' = [course EXCEPT ![c] = doc]
    /\ UNCHANGED <<enrollment, tx, scholarship, charge, now, faults>>
=============================================================================
