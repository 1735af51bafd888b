# Formal model of the Copy Learn platform

TLA+ modules, TLC configurations and TLAPS proofs for the backend in `src/`.
The platform is an Express server over MongoDB (mongoose), Redis (Bull queues)
and Paystack. All handlers of one server share one event loop: code between two
`await`s is atomic, everything else interleaves. There are no MongoDB
transactions; every write is a single unconditional update by id or an insert
guarded at most by a unique index. That, together with jobs that are retried
and webhooks that are delivered more than once, is where the difficult
behaviour is.

## 1. The system

| part | state it keeps | operations | talks to |
|---|---|---|---|
| Enrollments (`core/enrollments`) | `enrollments`: status PENDING/ACTIVE (CANCELLED is never written), unique while open | create, activate, list, check access | courses, programs, transactions |
| Transactions (`payments/transaction`) | `transactions`: PENDING/SUCCESS, unique reference, one PENDING per user and course | initialize payment, verify, webhook | Paystack, enrollments, scholarships, email |
| Scholarships (`core/scholarships`, `jobs/scholarship.job.ts`) | `scholarships`: PENDING, APPROVED, PAID; one delayed Bull job per application | apply, approve (job), pay (webhook) | queue, enrollments, transactions |
| Courses, modules, programs, events (`core/*`) | content, prices, flags, order, dates | create, update, read | enrollments read them |
| Authentication (`authentication/auth`, `token.service.ts`, `checkAuth.mdw.ts`) | on the user: one OTP slot, login counter and lock, status, token version | register, activate, login, logout, refresh, reset, OTP | email, roles |
| Roles and permissions | roles with default permissions; permissions of a user | seed, assign, promote, revoke | users |
| Users, admins, talents (`users/*`) | profiles, onboarding, status | create, update, onboard | roles, invitations |
| Invitations (`platform/Invitation`) | PENDING, ACCEPTED, REVOKED, DECLINED, EXPIRED with a token | create, validate, accept, revoke, resend, decline, bulk, expire | users, roles, hourly job |
| Shareable links (`platform/ShareableLink`) | token, use count, expiry, status | generate, validate, use, revoke, update, cleanup | roles |
| Queues and scheduler (`queues`, `tasks`) | named queues in memory, jobs in Redis | create, add, process, schedule, close | every job |
| Repository layer (`internals/repository.service.ts`) | none | find, save, filter rewriting | MongoDB |
| Paystack | its charges | initialize, deliver events, shop page | external |

How they interact: an enrollment request creates a PENDING enrollment and opens
a charge; the user pays at Paystack; Paystack's webhook settles the transaction
and activates the enrollment. A scholarship application queues a job that
creates a PENDING enrollment and a PENDING transaction at the reduced price;
the user pays on the course's shop page, whose charge has no reference of ours
and is matched by payer and amount.

What makes each part correct, and what makes it hard:

* **Enrollments and payments** - access is granted only for a confirmed
  payment, and a confirmed payment gives access. Hard: redelivered and
  concurrent webhooks, two ways to match a payment, results of writes that are
  not looked at, a crash between two writes.
* **Scholarships** - approval happens once, after its enrollment and payment
  record exist. Hard: a job run again over what an earlier run left; documents
  of a regular enrollment found by the job's queries.
* **Course modules** - orders are distinct and dates nested. Hard:
  read-then-insert by two admins.
* **Authentication** - a registered account can be activated, a locked one is
  unlocked. Hard: a registration cut short anywhere, one code slot per user,
  find-then-save from parallel requests.
* **Onboarding** - who completed has the role and the profile of the account's
  type. Hard: steps of one user mix their fields in one document.
* **Courses, programs, events** - a slug leads to its document, a list can be
  read page by page. Hard: look first and write later; two reads per page.
* **Invitations, shareable links** - an answered token is dead, a revoked link
  stays closed, who is admitted has a complete account. Hard: find-then-save
  without versions, handlers racing the cleanup jobs.
* **Queues, emails, schedules** - a job added is run or given up for a reason,
  a shutdown leaves nothing running. Hard: failures nobody awaits, stalls,
  signals that close some queues and not others.

The hazards in `PROJECT.json` name the lines; those beyond its list are in
section 6.

## 2. Plan

| order | modules | status |
|---|---|---|
| 1 | `CourseLedger`, `EnrollmentRequest`, `ScholarshipApproval`, `PaystackWebhook`, `CoursePayments` (composition), `AccessLedger` (abstract), proofs | done |
| 2 | `CourseModules` (order and dates), proofs | done |
| 3 | `Accounts` (registration, role, codes, activation, login lock), proofs | done |
| 4 | `Invitations`, `InvitationAcceptance` (composition), `InvitationLedger` (abstract), proofs | done |
| 5 | `ShareableLinks`, `LinkRegister` (abstract), proofs | done |
| 6 | `Onboarding`, proofs | done |
| 7 | `CatalogueDocuments`, `CatalogueListings`, `ProgramEvents`, `Catalogue` (composition), proofs | done |
| 8 | `JobQueues`, `Mailer`, `Scheduler`, `BackgroundJobs` (composition), proofs | done |
| 9 | deletion and renaming of roles beside a registration; the retries of `ScholarshipApproval` over `JobQueues` | later |

The order follows what can run. `Protect` puts a lean user on the request, which
has `_id` and no `id`; the handlers that read `req.user.id` (inviting admins and
talents, logout, change of password, most of the admin routes) do not get past
it, and the talent routes are not mounted, while enrollments, scholarships,
content and onboarding read `_id`. Invitations are therefore modelled at the
level of their service and of the accept endpoints, which need no user.

Every invariant and every action property the passing runs check is a theorem
(section 7).
Worth proving next: what becomes of `AcknowledgedIsSettled` where prices
coincide, and that `BackgroundJobs` implements an abstract queue.

## 3. Modules and the code

`PROJECT.json` maps every definition to its lines. Common to all modules:

* **One action is the stretch from one `await` to the next**: it takes the
  result of the call that was awaited and ends where the next call is made. The
  field `need` (payments) or `step` (accounts, modules) of a request names the
  call it waits for, its other fields are the locals that survive the `await`.
  Two awaits are merged only when nothing another actor can do in between is
  visible to either: the user and the transaction read by
  `MatchScholarshipTransaction`, the application and the course read by
  `StartJob`, `createdBy` and `userType` stored by `SetUserType`, the two saves
  of `activateAccount` and `updateLastLogin`, load and save of
  `generateOTPCode` (which overwrites whatever it loaded).
* **A failing call** is a choice of the action, as long as `faults` is below
  `MaxDbFaults`; what follows is what the code does with the error result,
  including nothing.
* **A crash** ends every request unanswered and keeps the collections; Bull's
  jobs stay in Redis.
* Operators commented `mutant:` are bugs the code could have had. They are not
  used by the specification; they show that a property notices them.

| module | state | actions |
|---|---|---|
| `CourseLedger` | the collections `course`, `enrollment`, `tx`, `scholarship`, Paystack's `charge`s, the clock `now` | what the repositories do: look-ups, inserts with their unique indexes, activation. Enrollments are keyed by user and target, because no code writes CANCELLED and the partial unique index then allows one |
| `EnrollmentRequest` | `req`: the locals of POST /enrollments; `urls`: links handed out | `createEnrollment` then `initializePayment`, one action per call |
| `ScholarshipApproval` | `job`: the application request and its Bull job, with attempts and stalls | `createScholarship`, `queue.add`, `processScholarshipApproval`, retry, stall |
| `PaystackWebhook` | `hook`: deliveries being handled; `answer`, `acked`, `failureAcked`: what Paystack saw | `handleWebhook`, `handleScholarshipPayment`, `markTransactionSuccessful`, `markTransactionFailed` |
| `CoursePayments` | the four above and `crashes` | their union, payments at Paystack, the crash; properties; refinement mapping |
| `AccessLedger` | `quoted`, `confirmed`, `access` | the abstract promise: access is granted to a user for a course when a charge of an amount quoted to the user was confirmed |
| `CourseModules` | `module` documents, `creation` requests | create (validate, course, last module, insert) and update |
| `Invitations` | `invite` documents, `call`s of the service, `issued` tokens, `settled` answers | every operation of `invitationService` find by save, the hourly job, the TTL index, the cleanup |
| `InvitationAcceptance` | with it the users collection `account`, who was told 201 | the accept endpoints: the invitation is settled first, then the account is built save by save |
| `InvitationLedger` | `open`, `spent` tokens, `accepted`, `opened`, `admitted` | the abstract promise: a spent token is never offered again, no account without an accepted invitation |
| `ShareableLinks` | `link` documents, `call`s, the `visits` answered valid | generate, validate, revoke (an `updateMany`, document by document), update, cleanup |
| `LinkRegister` | `open`, `withdrawn` links, who is `visiting` | the abstract promise: visitors enter by an open link, a withdrawn one never opens |
| `Onboarding` | `user` documents, how many talent `profiles`, a `call` with the document as loaded and as changed | the five onboarding steps await by await, and the deactivation |
| `CatalogueDocuments` | `docs`: courses, programs and events in the order of creation; `call` | create with its search for a slug, update of a course |
| `CatalogueListings` | (the same) a walk: list, page, total, what is still to be seen | `countDocuments` and `find` of each page of the courses, of a program's events for admins, and of the public list of its published events, which has one page |
| `ProgramEvents` | `enrolled` | create, update and open (`getEventById`) an event of a program |
| `Catalogue` | the three above | their union |
| `JobQueues` | `stored` jobs in Redis; `handle` and `handlers` of each queue in the process | add, take, end, stall, close: Bull as the code relies on it, and the wrapper in `queue.ts` |
| `Mailer` | `mail`: each call of a sending method | 202 before the job is stored, the templates, the processor |
| `Scheduler` | `tasks`, `ownQueues`, `ticked` | the six schedules, a tick, their processors |
| `BackgroundJobs` | `phase`, `shut`, `lives` | start, crash, SIGTERM, SIGINT and the shutdown, with the two above |
| `Accounts` | `user`, the talent `role`, `registration` and `session` requests, the code in each mailbox | register (ten steps), resend, activate, verify, login right and wrong, reset, expiry of codes and locks |

Details that decide what the models can do:

* References are the clock (`Date.now()`), so two requests in one millisecond
  make the same reference. A charge of the shop page has a reference of its
  own kind.
* `findOne` of the repository ignores `sort`, and `processFilter` rewrites the
  word `in` of a filter. Both are modelled by what they do: any module of the
  course may be "the last one", and the query for an open application is
  refused.
* mongoose saves the paths that were modified with respect to the document the
  handler loaded. `Activated` and `Counted` therefore take two arguments, the
  stored document and the loaded one. Assigning a whole array (`role.users`)
  makes the save conditional on the version of the role; that is
  `RoleIsCurrent`.
* `Onboarding` writes the same rule out: `Saved` merges, field by field, the
  document as it was loaded, as the request changed it and as it is stored; the
  array of roles is only pushed to.
* `SlugOf` gives the slugs of a title, bare and with each counter. Slugs of
  different titles may be the same: in the run, "Intro 2" begins with
  `intro-2`, the second slug of "Intro". The slugs in `IdLike` have 24
  hexadecimal digits and `findByIdOrSlug` takes them for an id. The index is the
  last word, and `create` and `update` answer its refusal with 400.
* The times of creation in the lists are distinct. A walk is the reader's: it
  asks for the page the answer names as the next.
* In `BackgroundJobs` starting is one step, because nothing between
  `startWorkers` and `startScheduler` waits for input or output. Delays and
  backoffs are waiting of any length; how many jobs a worker runs at a time is
  left out. Closing a queue while Redis is away neither waits for its jobs nor
  is certain to return, which is how Bull behaves.
* A new module needs both dates and an instructor (the schema refuses one
  without, although the DTO has it optional); only the dates are in the model.

## 4. What the runs check

| run | question | states |
|---|---|---|
| `LinkPayments` | a charge answered 200 has its transaction settled and its enrollment open, a repeated delivery changes nothing, and a paid link gives access in the end; one request, two deliveries at once, lost answers, one crash, a course that closes | 630 k |
| `ScholarshipPayments` | types; an approved application has enrollment and payment record; PAID gives access; access is funded; no document is ever taken back; every step implements `AccessLedger`; an application with a retried and stalled job, a link and a shop payment of one price, one failing call, one crash | 2.89 M |
| `ApprovalLiveness` | a queued application is decided or its job gives up; enrollment requests of the same user for the course and a program, a course that closes, one failing call, one crash, one stall | 638 k |
| `Invitations` | types; an answered token never finds a pending invitation again; every answer leaves its time stamp; who was told 201 has an active, typed and sealed account; every step implements `InvitationLedger`; two documents, two emails, three tokens, four calls, two at a time, one failure | 3.53 M |
| `ShareableLinks` | types; a link whose revocation was answered stays revoked or is gone; no access answered valid goes uncounted; every step implements `LinkRegister`; two links of two types, four calls, two at a time, one failure | 775 k |
| `Onboarding` | types; who completed has the role of the account's type, the basic information and, as a talent, a profile; no save undoes a deactivation, a name or a role; one user of either type, two requests at a time, as many as one likes, cut short anywhere | 685 k |
| `Catalogue` | a slug finds the one document that has it; the slugs of its title that a program's slug comes after are all of programs; a walk of a list nothing was taken from misses nothing, save what the public list of events has no page for; `getEventById` opens an event to users enrolled in its program only; two requests at a time, three documents, three titles of which two share a slug, pages of one | 8.55 M |
| `BackgroundJobs` | a reported shutdown leaves no task, queue or half-done job of the scheduler; a job completes only when its work was done, and is given up only when its attempts or stalls are used up; an email in the queue is decided unless its worker was closed for good; two lives, two schedules, two emails (one of a template that is missing), one Redis fault | 1.49 M |
| `ModuleOrders` | types; modules of a course are numbered 1..n; two admins, three modules, two courses, one failing call | 353 k |
| `Registrations` | types; the role lists its users and loses none; a 200 means an encrypted password; two registrations (of one user or two), two failing calls, one crash | 639 k |
| `AccountLiveness` | a created account can be activated and a locked one is unlocked; one registration, two sessions of its user, one failing call or lost email, one failed login, one code that expires, is sent again or is verified for nothing | 748 k |

The run that ends in a counterexample, `ShopRedelivery`, is in section 6.

**Bounds.** `MaxDbFaults`, `MaxInviteFaults`, `MaxLinkFaults`,
`MaxRedisFaults`, `MaxCrashes`, `MaxLives`, `MaxStalls`, `MaxDetours` and
`MaxFailures` bound what goes wrong, `MaxCalls` and `MaxLinkCalls` the calls
that begin, `MaxDocs` the documents inserted, `MaxTicks` the ticks of a
schedule; `MaxNow` the clock (two values are
enough to have equal and different references); `MaxAttempts` is 2
where the queue has 3, so that "retried" and "out of retries" both occur;
`MaxCodes` the codes in use at the same time. Each race in these modules is
between two actors over one document, so every run has two of the actors whose
race it is about, and one of the others. Two courses are in a run where the
wrong course could be matched, two applications where one could be taken for
the other (`ShopRedelivery`). Three documents and pages of one give lists with
a first, a middle and a last page; four calls are an invitation, its answer and
two calls that race it; one email id makes two emails collide; two lives are
enough for a job to outlive its process. What a bound hides is a behaviour that needs
three actors or two crashes; the theorems of section 7 have no bounds.

`CHECK_DEADLOCK FALSE` is set because the bounded system stops: when the
requests have been answered and the faults are used up, nothing is left to do;
in `BackgroundJobs` when the process is down and its lives are used up.

## 5. Fairness

* A handler's next step is weakly fair: the event loop resumes an awaited call.
* A queued or retried job is weakly fair: Bull runs it; a stall or a crash puts
  it back.
* Delivery of a charge is strongly fair as long as its 200 was not seen:
  Paystack repeats a webhook that was not acknowledged.
* In `Accounts` the user keeps trying. Asking for a code when there is none
  left to try, starting an activation with the code at hand, and logging in to
  a locked account are strongly fair: each may be disabled in between by
  another request of the same user, and a user who wants in tries again. A
  lock running out is weakly fair, and so is the reset of a password that is
  not accepted.
* Bull's workers on the emails are weakly fair while the process lives: taking a
  job, recovering a stalled one, running the processor. Nothing makes the
  process start again, end after SIGTERM, or see any tick.
* Failing calls, crashes, wrong passwords, expiry of codes and payments have no
  fairness.

## 6. Where the code and its words differ

One is a run with `expect: violation`; its finding in `PROJECT.json` quotes the
line. `ShopRedelivery`: a repeated delivery of a shop charge settles another
pending transaction of the same amount.

The models have further behaviours that disagree with the words around them, or
that a reader would not expect; no run states them.

Payments and scholarships:

* a crash between settling a scholarship transaction and activating its
  enrollment loses the access: the next delivery looks for PENDING transactions
  only, finds none and is answered 200 (transaction.service.ts:437);
* the approval job adopts the full-price transaction of a regular enrollment as
  the scholarship's payment record (scholarship.service.ts:320);
* the query for an open application is refused by the driver, so a second
  application is accepted (scholarship.repository.ts:50);
* the second of two concurrent requests hands out a payment link whose
  transaction was refused by the unique index (transaction.service.ts:157);
* `charge.failed` is acknowledged and written nowhere
  (transaction.service.ts:382);
* the reactivation of a SUCCESS transaction may fail and is answered 200 all the
  same (transaction.service.ts:298);
* a payment link is matched with a pending scholarship transaction of the same
  payer and amount before its own reference is looked up
  (transaction.service.ts:236);
* whether enrollment is open is read three awaits before the insert
  (enroll.service.ts:166), and a user whose enrollment became ACTIVE meanwhile is
  still given a payment link (transaction.service.ts:97).

Content:

* "the last module" is any module of the course, because `findOne` drops the
  sort; the third creation may be refused by the index
  (module.repository.ts:41);
* two updates of one date each leave a module that ends before it starts
  (module.service.ts:392);
* `updateCourse` refuses a course's own slug (course.service.ts:494); a slug of
  24 hexadecimal digits is never found by slug (repository.service.ts:150);
* programs stay DRAFT, because `updateProgram` has no status: the public list is
  empty, yet a draft can be enrolled in, and `enrollmentEnabled` of a program is
  not looked at (enroll.service.ts:158);
* programs of one title need not be numbered 1..n, because slugs of different
  titles coincide: created in this order, "Intro", "Intro 2" and "Intro" get
  `intro`, `intro-2` and `intro-3` (program.service.ts:211);
* the list of a program's published events is public, its documents in full,
  drafts of programs included (event.controller.ts:12, program.routes.ts:18),
  whereas `getEventById` asks for an active enrollment and then shows an
  unpublished event as well (event.service.ts:288);
* `getPrograms` and `getEvents` pass no page, so that the twenty-sixth document
  is out of reach;
* a reader who pages through a list misses a document when one was taken from
  the list during the walk, or came into it between the count and the find of a
  page (repository.service.ts:232).

Accounts, roles and onboarding:

* two registrations at once: a version conflict on the role leaves an account
  without permissions, answered 200 (role.service.ts:92); and permissions are
  not initialised while `clearUserCache` throws, which it does when the Redis
  client was never opened (role.service.ts:97);
* the userType `business` the tests register is not in the enum, and the
  account is left behind (user.service.ts:117);
* the login counter starts at its limit, so that one failed login locks an
  account before its first activation (auth.service.ts:363);
* a code that is verified while another is sent takes the new one with it
  (auth.service.ts:454);
* the onboarding step is 1 by default, so "complete step 1 first" is never
  answered (user.service.ts:519); completion "activates" an account that
  `Protect` has already found active;
* two concurrent `setTalentInfo` make two talent profiles (user.service.ts:663),
  and a `setUserType` saved while a completion is under way leaves a COMPLETED
  talent without one (user.service.ts:451).

Invitations:

* for an email that has an account the look-up returns a plain object without
  `save`: the endpoint answers 500 and the invitation is used up
  (admin.controller.ts:518); a failing `attachRole` is answered 201
  (admin.controller.ts:557);
* two invitations of one email to one resource may both be stored
  (invitation.service.ts:112), and the uniqueness look-up of a token finds
  nothing, ever (invitation.service.ts:187);
* the TTL index removes answered invitations at their expiry, so the cleanup
  after thirty days finds little (invitation.model.ts:56).

Queues and emails:

* the template `invite` of the invitation emails has no file under
  `views/emails/authentication`: every such email fails all its attempts
  (email.service.ts:99);
* "202 queued" is answered before Redis has the job, whose add nobody awaits
  (job.ts:29); an email whose random id is taken is dropped without an error
  (job.ts:17);
* the worker's message "[SIGTERM]: Shutdown all Queue listeners" (worker.ts:11)
  follows the close of the email queue alone; the process lives on and accepts
  emails nobody will work on;
* a shutdown leaves the scholarship queue open (scheduler.ts:48), does not wait
  for the email worker, and stops at the first queue that fails to close;
* an email that was sent and whose outcome was not recorded is sent again
  (queue.ts:86);
* the marketing schedule is enabled and its processor commented out
  (scheduler.worker.ts:71); a tick that is missed is not caught up.

## 7. What is proved

There is one module of proofs per component. The proofs hold for every value of
the constants under the assumptions the modules name: `LedgerAssumption` (there
are users, courses and amounts; the markers are not members; the references
Paystack makes up for its shop page are not `PCPD-TXN-` ones),
`PriceAssumption`, `ApprovalAssumption`, `CrashAssumption` (bounds are natural
numbers), `ModulesAssumption`, `AccountsAssumption`, those of `Invitations` and
`InvitationAcceptance`, `LinksAssumption`, `OnboardingAssumption`, those of
`CatalogueDocuments` and its companions, and `QueuesAssumption`,
`MailerAssumption`, `SchedulerAssumption`, `LivesAssumption` (a job has at least
one attempt, bounds are natural numbers). TLC evaluates them in every run. Each
inductive invariant was first checked by TLC on the instance of its run.

* `CoursePayments_proofs`, types: `TypeCorrect`.
* `CoursePayments_proofs`, safety: `AccessIsFunded`,
  `ApprovalHasPaymentRecord`, `PaymentGivesAccess` and `NothingIsTakenBack`.
  None is inductive, because a write relies on what a request read some awaits
  earlier. `IInv` adds what each request knows: `HookMatches` (a delivery that
  found a transaction still has a confirmed charge that funds it),
  `TransactionMatches` (the metadata of a transaction names an application of
  the same user and course) and `JobMatches` (a job past a step left the
  document of that step). These stay true while other actors run because no
  document is taken back, the lemma both `Inductive` and `NothingIsTakenBack`
  use.
* `CoursePayments_proofs`, payment links: `AcknowledgedLinksAreSettled` and
  `LinksAreSettledOnce`. They have two conditions, and the code needs both.
  `PricesApart`, no scholarship price is a course price, because the webhook
  looks for a scholarship transaction of the payer and the amount before it
  looks at the reference of the charge (transaction.service.ts:236). And no
  call may have failed, because the reactivation of a SUCCESS transaction is
  answered 200 whatever came of it (transaction.service.ts:298): so the first
  theorem says `faults = 0 => AcknowledgedIsSettled`, which holds in every
  execution up to its first failing call, and the second is about executions
  without one. Crashes, lost answers, races and scholarships are not
  restricted. The invariant is `LinkInv`: `AmountsMatch` (links ask for
  course prices, applications for scholarship prices, from the read of the
  course on) keeps the deliveries of links out of the scholarship path;
  `LinkHookMatches` says what such a delivery has settled at each of its steps,
  failing calls or not (`LinksInductive`).
* `CoursePayments_proofs`, refinement: `Refinement`, that `CoursePayments`
  implements `AccessLedger`: each step grants access to a funded key, records a
  quote or a confirmation, or stutters.
* `CourseModules_proofs`: `ModulesTypeCorrect` and `ModulesAreNumbered`. The
  strengthening `NextOrderHasPredecessor` says that an order computed and not
  yet inserted still has its predecessor, since modules are not deleted.
* `Accounts_proofs`: `AccountsTypeCorrect`, `RolesListTheirUsers`,
  `RolesKeepTheirUsers` and `AnswersAreSealed`. A user document only gains its
  role and its encrypted password (`UsersGain`); `StepMatches` says what a
  registration has stored at each step, `RoleReadListsItsUsers` that the role it
  read lists only users who have it, `RoleReadMatches` that the role it read
  is the role stored as long as the version agrees.
* `Invitations_proofs`: `InvitationTypes`, `UsedTokens`, `AnswersMark`,
  `AdmittedAccounts` and `InvitationRefinement`. A stale save can set an
  answered document back to PENDING, so what is inductive is about tokens and
  not about statuses: `TokenInv` says that a token a call holds and has not
  stored is on no document, that stored tokens differ, and that a call which
  answers acts on the document of its token; `MarkInv` that answers have their
  time stamps; `AccountInv` what an accepting call has stored at each step.
* `ShareableLinks_proofs`: `LinkTypesCorrect`, `RevocationsHold`,
  `AccessesCounted` and `LinkRefinement`. `RevokeMatches` says that a link a
  revocation set out to revoke still matches its filter or is withdrawn:
  documents keep resource, type and token, and never come back from revoked.
* `Onboarding_proofs`: `OnboardingTypes`, `CompletionGivesRole`,
  `NamedBeforeNextStep`, `TalentsHaveProfiles` and `SavesUndoNothing`. `CallInv`
  relates the three versions of a document: what a request loaded, what it
  changed it to, and what is stored. A loaded type can be out of date only
  because another request set the type, and that request saved the role with it.
* `Catalogue_proofs`: `CatalogueTypes`, `SlugsFindDocuments`,
  `SlugsAreTakenInOrder`, `WalksAreComplete` and
  `EventsAreOpenedByTheEnrolled` (of `getEventById` alone).
  `CatalogueInvariant` says three things of a request. `NoneSkipped`: a
  creation that is at a slug has found all those of its title before it, and
  programs keep their slugs, so that none was passed over; which program has
  them is left open, since nothing says that titles have slugs of their own.
  `ChecksHold`: the program, the event or the enrollment a request has checked
  is still there when it answers, since no document goes away or changes its
  program. `DueIsAhead`: what a walk has still to see has at least `StartIndex`
  newer documents, so that no page it has read could have held it. That slugs
  are unique is different: what `slugExists` answered may be out of date at the
  insert, and uniqueness rests on the index alone.
* `BackgroundJobs_proofs`: `JobsTypeCorrect`, `ShutdownsAreQuiet` and
  `JobsHaveReasons`. `JobOk` says that a job not yet settled has attempts and
  stalls left and a name its queue's processors know, so that a job ends only
  by its work or by using them up. For the shutdown: `TasksStopFirst` (the cron
  tasks are stopped before the first queue closes, so no tick opens a handle
  again), `PassedAreAbsent` (the steps of `After` leave closed queues behind)
  and `AbsentIsIdle` (while Redis is there, a closed queue has finished its
  jobs).

## 8. What is only model-checked

* Liveness: `PaidLinkGivesAccess`, `QueuedIsDecided`, `CreatedIsActivated`,
  `LockIsLifted`, `MailIsDecided`; it is outside what the prover handles.
* The counterexample of section 6.

No operator of the models is recursive, so nothing else is out of the prover's
reach; what is only checked by TLC is what fairness is needed for.

## 9. What is not modelled

* Storage: uploads to and deletions from S3. API keys, referrals and push
  notifications: there is no code.
* Sessions: tokens are stateless, nothing increments `tokenVersion`, logout and
  the change of a password answer 401 before they write, and
  `suspendAccount` and `deactivateAccount` of `auth.service.ts` have no callers.
* Roles: the endpoints that attach and detach a role answer 500, because the
  user they load is a plain object; creating, renaming and deleting roles is left
  out, and the seeded roles are taken to be there.
* Code without callers: `createBulkUsers`, `updateUserProfile`, `addJobs` of
  `job.ts`, `unscheduleJob`, `getScheduledJobs`, `getQueue`, the array
  operations of the repository; and the talent routes, which are not mounted.
* The update of an invitation's metadata, and of a program's texts: data no other
  operation reads.
* Reads that only list or count: enrollments, invitations by inviter or
  resource, links by resource, modules, users.
* Signatures of webhooks, tokens and hashing: a delivery in the model is one
  Paystack sent, a password is encrypted or it is not.
* Texts of emails, views, seeds; files of the cleanup job.
* In `Accounts`: other user types and their roles, the random user code and its
  unique index, and equal codes by chance (a code is fresh while another is in
  use).
* In the payments: course fields that are not read there, the listing and
  access queries, refunds (there is no code for them).
