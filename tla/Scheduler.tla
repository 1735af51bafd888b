------------------------------ MODULE Scheduler ------------------------------
(***************************************************************************)
(* The recurring jobs: SchedulerService (scheduler.service.ts), the six    *)
(* schedules of tasks/scheduler/, and the processors of their jobs.  A     *)
(* cron task adds one job to its queue on each tick.  A tick that comes    *)
(* while the server is down is not caught up.                              *)
(***************************************************************************)
EXTENDS JobQueues

CONSTANTS
    Scheduled,                  \* the schedules of this instance
    MaxTicks                    \* bound: ticks of each schedule

VARIABLES
    tasks,                      \* scheduledTasks: the cron tasks that run
    ownQueues,                  \* the scheduler's own map of queues
    ticked                      \* the ticks of each schedule so far

scheduleVars == <<tasks, ownQueues, ticked>>

Schedule(queue, job, attempts) == [queue |-> queue, job |-> job, attempts |-> attempts]

\* Every schedule is enabled and has a valid pattern.
ReminderSchedules ==
    [dailyReminder  |-> Schedule("reminders", "send-daily-reminder", 3),
     weeklyReminder |-> Schedule("reminders", "send-weekly-reminder", 3)]

CleanupSchedules ==
    [hourlyCleanup |-> Schedule("cleanup", "cleanup-temp-files", 2),
     deepCleanup   |-> Schedule("cleanup", "deep-cleanup", 3)]

MarketingSchedules ==
    [hackathons |-> Schedule("marketing", "send-hackathons-this-week", 3)]

InvitationSchedules ==
    [markExpired |-> Schedule("invitations", "mark-expired-invitations", 3)]

Schedules ==
    [s \in DOMAIN ReminderSchedules \cup DOMAIN CleanupSchedules
             \cup DOMAIN MarketingSchedules \cup DOMAIN InvitationSchedules |->
        CASE s \in DOMAIN ReminderSchedules  -> ReminderSchedules[s]
          [] s \in DOMAIN CleanupSchedules   -> CleanupSchedules[s]
          [] s \in DOMAIN MarketingSchedules -> MarketingSchedules[s]
          [] OTHER                           -> InvitationSchedules[s]]

ASSUME SchedulerAssumption ==
    /\ Scheduled \subseteq DOMAIN Schedules
    /\ Scheduled \X (1..MaxTicks) \subseteq JobIds
    /\ MaxTicks \in Nat

----------------------------------------------------------------------------
(* startSchedulerWorkers, startScheduledJobs *)

\* The processors of each queue; that of the marketing job is commented out,
\* and the one of the scholarship queue is the worker of ScholarshipApproval.
Processors(queue) ==
    CASE queue = "reminders"    -> {"send-daily-reminder", "send-weekly-reminder"}
      [] queue = "cleanup"      -> {"cleanup-temp-files", "deep-cleanup"}
      [] queue = "invitations"  -> {"mark-expired-invitations"}
      [] queue = "scholarships" -> {"process-scholarship"}
      [] OTHER                  -> {}

\* Once in each life of the process
StartScheduledJobs == tasks' = Scheduled /\ ownQueues' = {} /\ UNCHANGED ticked

----------------------------------------------------------------------------
(* The cron callback of scheduleJob *)

\* Its errors are caught and logged: a tick Redis does not answer is lost.
Tick(s) ==
    /\ s \in tasks
    /\ ticked[s] < MaxTicks
    /\ ticked' = [ticked EXCEPT ![s] = @ + 1]
    /\ ownQueues' = ownQueues \cup {Schedules[s].queue}
    /\ \E ok \in BOOLEAN :
          AddJob(<<s, ticked'[s]>>,
                 NewJob(Schedules[s].queue, Schedules[s].job, Schedules[s].attempts, s), ok)
    /\ UNCHANGED tasks

----------------------------------------------------------------------------
(* processReminderJob, processCleanupJob, processInvitationJob *)

\* The reminders and the deep cleanup do nothing yet, and cannot fail.  The
\* cleanup of temporary files takes a missing directory or file for the end
\* of its work and fails on any other error; the marking of invitations fails
\* when the database does not answer.
CanFail(job) == job.name \in {"cleanup-temp-files", "mark-expired-invitations"}

RunScheduled(s, n) ==
    LET job == stored[<<s, n>>]
    IN  /\ job.state = "active"
        /\ \E ok \in BOOLEAN : (ok \/ CanFail(job)) /\ EndRun(<<s, n>>, ok, ok)
        /\ UNCHANGED scheduleVars

----------------------------------------------------------------------------
(* stopAll *)

StopAll == tasks' = {} /\ UNCHANGED <<ownQueues, ticked>>
=============================================================================
