---------------------------- MODULE BackgroundJobs ----------------------------
(***************************************************************************)
(* The server process around its queues (server.ts, worker.ts,             *)
(* scheduler.ts): it starts the email worker and the scheduler, answers    *)
(* requests that mail, and ends by SIGINT, by a rejection nobody handles,  *)
(* or by a crash.  SIGTERM closes the email queue and ends nothing.  The   *)
(* composition of Mailer and Scheduler over the queues they share.         *)
(*                                                                         *)
(* The workers and the cron tasks are started without waiting for Redis in *)
(* between, so the start is one step.  One SIGINT in a life.               *)
(***************************************************************************)
EXTENDS Mailer, Scheduler

CONSTANTS
    MaxLives                    \* bound: starts of the process

VARIABLES
    phase,                      \* "down" or "up"
    shut,                       \* how far shutdownScheduler is
    lives

ASSUME LivesAssumption == MaxLives \in Nat

lifeVars == <<phase, shut, lives>>
vars == <<queueVars, mail, scheduleVars, lifeVars>>

JobNames == {MailJob} \cup {Schedules[s].job : s \in Scheduled}

ProcessorNames == UNION {Processors(q) \cup MailProcessors(q) : q \in Queues}

Job ==
    [state: {"waiting", "active", "completed", "failed", "stalled"}, queue: Queues,
     name: JobNames, left: Nat, stalls: 0..(MaxStalls + 1), for: Kinds \cup Scheduled,
     done: BOOLEAN]

\* How far shutdownScheduler is: at a close, or where it ended.
ShutdownSteps ==
    {"no", "own", "reminders", "cleanup", "marketing", "invitations", "done", "failed"}

\* Redis, the handles and what the process holds have their types.
TypeOK ==
    /\ stored \in [JobIds -> {NoJob} \cup Job]
    /\ handle \in [Queues -> {"absent", "open", "closing", "closed"}]
    /\ handlers \in [Queues -> SUBSET ProcessorNames]
    /\ redisFaults \in 0..MaxRedisFaults
    /\ mail \in [Emails -> Kinds \cup {"none", "stored", "lost"}]
    /\ tasks \subseteq Scheduled
    /\ ownQueues \subseteq SchedulerQueues
    /\ ticked \in [Scheduled -> 0..MaxTicks]
    /\ phase \in {"down", "up"} /\ shut \in ShutdownSteps
    /\ lives \in 0..MaxLives

Init ==
    /\ stored = [id \in JobIds |-> NoJob]
    /\ handle = [q \in Queues |-> "absent"]
    /\ handlers = [q \in Queues |-> {}]
    /\ redisFaults = 0
    /\ mail = [e \in Emails |-> "none"]
    /\ tasks = {} /\ ownQueues = {}
    /\ ticked = [s \in Scheduled |-> 0]
    /\ phase = "down" /\ shut = "no" /\ lives = 0

----------------------------------------------------------------------------
(* The life of the process *)

\* startWorkers and startSchedulerWorkers
StartWorkers ==
    /\ handlers' = [q \in Queues |-> Processors(q) \cup MailProcessors(q)]
    /\ handle' = [q \in Queues |-> IF handlers'[q] = {} THEN "absent" ELSE "open"]
    /\ UNCHANGED <<stored, redisFaults>>

Start ==
    /\ phase = "down" /\ lives < MaxLives
    /\ phase' = "up" /\ lives' = lives + 1
    /\ StartWorkers
    /\ StartScheduledJobs
    /\ UNCHANGED <<mail, shut>>

\* What the process held is gone.  It exits once the server is closed, after
\* shutdownScheduler or after a rejection that reached no catch (an email that
\* was not stored is one), and it may crash at any other time.
Leave ==
    /\ phase = "up"
    /\ phase' = "down" /\ shut' = "no"
    /\ LeaveQueues
    /\ mail' = LoseAccepted
    /\ tasks' = {} /\ ownQueues' = {}
    /\ UNCHANGED <<ticked, lives>>

\* The SIGTERM handler of worker.ts: only the email worker is closed.
Terminate ==
    /\ phase = "up"
    /\ handle[MailQueue] = "open"
    /\ Closing({MailQueue})
    /\ UNCHANGED <<stored, handlers, redisFaults, mail, scheduleVars, lifeVars>>

\* emailWorker.close() returns, or throws in a handler nobody waits for.  The
\* closed handle stays in the map.
MailQueueCloses ==
    /\ \E thrown \in BOOLEAN : FinishClose(MailQueue, "closed", thrown)
    /\ UNCHANGED <<mail, scheduleVars, lifeVars>>

----------------------------------------------------------------------------
(* SIGINT: shutdownScheduler *)

\* mutant: the queues are closed while the cron tasks still run
InterruptUnstopped ==
    /\ phase = "up" /\ shut = "no"
    /\ Closing({MailQueue} \cup ownQueues)
    /\ shut' = "own"
    /\ UNCHANGED <<stored, handlers, redisFaults, mail, scheduleVars,
                   phase, lives>>

\* Both handlers: that of worker.ts closes the email worker, that of server.ts
\* stops the tasks and closes the queues the ticks have used, side by side.
Interrupt ==
    /\ phase = "up" /\ shut = "no"
    /\ StopAll
    /\ Closing({MailQueue} \cup ownQueues)
    /\ shut' = "own"
    /\ UNCHANGED <<stored, handlers, redisFaults, mail, phase, lives>>

\* A close of closeAllQueues, or one by name.  closeQueue deletes the handle
\* from the map, unless close() threw: then the error is logged and the queues
\* that are left are not closed.
SchedulerQueueCloses(queue) ==
    /\ \E thrown \in BOOLEAN :
          /\ FinishClose(queue, IF thrown THEN "closed" ELSE "absent", thrown)
          /\ shut' = IF thrown THEN "failed" ELSE shut
    /\ UNCHANGED <<mail, scheduleVars, phase, lives>>

\* After the scheduler's own queues come the four by name, one by one, and
\* then the message that the scheduler was shut down successfully.
After == [own |-> "reminders", reminders |-> "cleanup", cleanup |-> "marketing",
          marketing |-> "invitations", invitations |-> "done"]

CloseNext ==
    /\ shut \in DOMAIN After
    /\ \A q \in ownQueues \cup ({shut} \cap Queues) : handle[q] = "absent"
    /\ shut' = After[shut]
    /\ ownQueues' = {}
    /\ Closing({shut'} \cap Queues)
    /\ UNCHANGED <<stored, handlers, redisFaults, mail, tasks, ticked,
                   phase, lives>>

----------------------------------------------------------------------------

\* The server answers until it exits, while it shuts down as well.
Mailing ==
    \E e \in Emails :
        \/ phase = "up" /\ (SendOtpEmail(e) \/ SendNotice(e))
        \/ \E ok \in BOOLEAN : StoreMail(e, ok)

Workers ==
    \/ \E id \in JobIds :
          (TakeJob(id) \/ RecoverStalled(id)) /\ UNCHANGED <<mail, scheduleVars>>
    \/ \E id \in MailIds : EmailProcessor(id) /\ UNCHANGED scheduleVars
    \/ \E s \in Scheduled, n \in 1..MaxTicks : RunScheduled(s, n) /\ UNCHANGED mail

Next ==
    \/ Start \/ Leave \/ Terminate \/ MailQueueCloses
    \/ Interrupt \/ CloseNext
    \/ \E q \in SchedulerQueues : SchedulerQueueCloses(q)
    \/ Mailing /\ UNCHANGED <<scheduleVars, lifeVars>>
    \/ \E s \in Scheduled : Tick(s) /\ UNCHANGED <<mail, lifeVars>>
    \/ Workers /\ UNCHANGED lifeVars

Spec == Init /\ [][Next]_vars

\* Bull's workers go on while the process lives.  Nothing makes the process
\* come back, end after SIGTERM, or see any tick.
MailWorker(id) ==
    /\ TakeJob(id) \/ RecoverStalled(id) \/ EmailProcessor(id)
    /\ UNCHANGED <<mail, scheduleVars, lifeVars>>

LiveSpec == Spec /\ \A id \in MailIds : WF_vars(MailWorker(id))

----------------------------------------------------------------------------

\* Once the scheduler reports that it was shut down (scheduler.ts:54), and
\* Redis was there throughout, no task and no queue of the scheduler is left,
\* and no job of theirs is half done.
ShutdownIsQuiet ==
    shut = "done" /\ redisFaults = 0 =>
        /\ tasks = {}
        /\ \A q \in SchedulerQueues : handle[q] = "absent" /\ ActiveIn(q) = {}

\* A job counts as completed only when its work was done, and is given up only
\* when its attempts are used up or its worker was lost too often: no error of
\* the mail service is swallowed on its way to Bull, and no job is fetched by a
\* worker that has no processor for its name.
JobsEndForAReason ==
    \A id \in JobIds :
        /\ stored[id].state = "completed" => stored[id].done
        /\ stored[id].state = "failed" =>
              stored[id].left = 0 \/ stored[id].stalls > MaxStalls

\* The server is down, or SIGTERM or SIGINT has closed its email worker.
MailUnattended == phase = "down" \/ handle[MailQueue] # "open"

\* An email that is in the queue is sent, or given up, unless from some time
\* on nobody works on the queue.  A closed email worker is never replaced: a
\* process that SIGTERM reached holds the emails up until it is killed.
MailIsDecided ==
    \A id \in MailIds :
        [](stored[id].state \in {"waiting", "active", "stalled"}
              => \/ <>(stored[id].state \in {"completed", "failed"})
                 \/ <>[]MailUnattended)
=============================================================================
