----------------------- MODULE BackgroundJobs_proofs -----------------------
(***************************************************************************)
(* What is proved of BackgroundJobs, for any emails, kinds, schedules,     *)
(* attempts, stalls, lives and calls that Redis leaves unanswered.         *)
(*                                                                         *)
(* Jobs: one that is not settled has attempts and stalls left, and a name  *)
(* for which its queue's handle has a processor, if it has any.            *)
(* Shutdown: the tasks are stopped first, so nothing opens a handle of the *)
(* scheduler again, and the steps of After leave only absent ones behind;  *)
(* while Redis is there, an absent handle has left no job half done.       *)
(***************************************************************************)
EXTENDS BackgroundJobs, TLAPS

----------------------------------------------------------------------------
(* The inductive invariant *)

\* The names the handle on a queue has processors for, when it has any
NamesOf(q) == Processors(q) \cup MailProcessors(q)

\* The handle on a queue has the processors worker.ts and scheduler.ts attach.
HandlersFit == \A q \in Queues : handlers[q] \in {{}, NamesOf(q)}

\* A job was completed because its work was done, or given up because its attempts
\* or stalls are used up; any other has some of both left, and a name its queue knows.
JobOk(job) ==
    /\ job.state = "completed" => job.done
    /\ job.state = "failed" => job.left = 0 \/ job.stalls > MaxStalls
    /\ job.state \in {"waiting", "active", "stalled"} =>
           /\ job.left > 0 /\ job.stalls <= MaxStalls
           /\ job.name \in NamesOf(job.queue) \/ NamesOf(job.queue) = {}

\* A process that is down holds no handle, no task and no accepted mail.
DownHoldsNothing ==
    phase = "down" =>
        /\ shut = "no" /\ tasks = {}
        /\ \A q \in Queues : handle[q] = "absent"
        /\ \A e \in Emails : mail[e] \notin Kinds

\* The cron tasks are stopped before the scheduler's queues are closed.
TasksStopFirst ==
    /\ shut # "no" => tasks = {}
    /\ shut = "no" => \A q \in SchedulerQueues : handle[q] \in {"absent", "open"}

\* The queues shutdownScheduler is through with, at each of its steps
Passed ==
    [no |-> {}, own |-> {}, reminders |-> {}, cleanup |-> {"reminders"},
     marketing |-> {"reminders", "cleanup"},
     invitations |-> {"reminders", "cleanup", "marketing"},
     done |-> SchedulerQueues, failed |-> {}]

PassedAreAbsent == \A q \in Passed[shut] : handle[q] = "absent"

\* An absent handle has left no job half done, if Redis was always there.
AbsentIsIdle ==
    redisFaults = 0 => \A q \in Queues : handle[q] = "absent" => ActiveIn(q) = {}

IInv ==
    /\ TypeOK
    /\ HandlersFit
    /\ \A id \in JobIds : JobOk(stored[id])
    /\ DownHoldsNothing
    /\ TasksStopFirst
    /\ PassedAreAbsent
    /\ AbsentIsIdle

----------------------------------------------------------------------------
(* Constants *)

\* The jobs of the schedules have attempts, go to the scheduler's queues and
\* have names these have processors for, if they have any.
LEMMA SchedulesFit ==
    ASSUME NEW s \in Scheduled
    PROVE  /\ Schedules[s].queue \in SchedulerQueues
           /\ Schedules[s].attempts \in Nat \ {0}
           /\ \/ Schedules[s].job \in NamesOf(Schedules[s].queue)
              \/ NamesOf(Schedules[s].queue) = {}
<1>1. /\ DOMAIN ReminderSchedules = {"dailyReminder", "weeklyReminder"}
      /\ DOMAIN CleanupSchedules = {"hourlyCleanup", "deepCleanup"}
      /\ DOMAIN MarketingSchedules = {"hackathons"}
      /\ DOMAIN InvitationSchedules = {"markExpired"}
  BY DEF ReminderSchedules, CleanupSchedules, MarketingSchedules, InvitationSchedules
<1>2. s \in DOMAIN ReminderSchedules \cup DOMAIN CleanupSchedules
             \cup DOMAIN MarketingSchedules \cup DOMAIN InvitationSchedules
  BY SchedulerAssumption DEF Schedules
<1>3. /\ Processors("reminders") = {"send-daily-reminder", "send-weekly-reminder"}
      /\ Processors("cleanup") = {"cleanup-temp-files", "deep-cleanup"}
      /\ Processors("invitations") = {"mark-expired-invitations"}
      /\ Processors("marketing") = {} /\ MailProcessors("marketing") = {}
  BY DEF Processors, MailProcessors, MailQueue
<1>4. CASE s \in DOMAIN ReminderSchedules
  <2>1. Schedules[s] = ReminderSchedules[s]
    BY <1>1, <1>2, <1>4 DEF Schedules
  <2>2. PICK job \in {"send-daily-reminder", "send-weekly-reminder"} :
            Schedules[s] = Schedule("reminders", job, 3)
    BY <1>1, <1>4, <2>1 DEF ReminderSchedules
  <2>3. /\ Schedules[s].queue = "reminders" /\ Schedules[s].job = job
        /\ Schedules[s].attempts = 3
    BY <2>2 DEF Schedule
  <2>4. "reminders" \in SchedulerQueues
    BY DEF SchedulerQueues
  <2>5. job \in NamesOf("reminders") \/ NamesOf("reminders") = {}
    BY <1>3 DEF NamesOf
  <2> QED
    BY <2>3, <2>4, <2>5
<1>5. CASE s \in DOMAIN CleanupSchedules
  <2>1. Schedules[s] = CleanupSchedules[s]
    BY <1>1, <1>2, <1>5 DEF Schedules
  <2>2. PICK job \in {"cleanup-temp-files", "deep-cleanup"}, n \in {2, 3} :
            Schedules[s] = Schedule("cleanup", job, n)
    BY <1>1, <1>5, <2>1 DEF CleanupSchedules
  <2>3. /\ Schedules[s].queue = "cleanup" /\ Schedules[s].job = job
        /\ Schedules[s].attempts = n
    BY <2>2 DEF Schedule
  <2>4. "cleanup" \in SchedulerQueues
    BY DEF SchedulerQueues
  <2>5. job \in NamesOf("cleanup") \/ NamesOf("cleanup") = {}
    BY <1>3 DEF NamesOf
  <2> QED
    BY <2>3, <2>4, <2>5
<1>6. CASE s \in DOMAIN MarketingSchedules
  <2>1. Schedules[s] = MarketingSchedules[s]
    BY <1>1, <1>2, <1>6 DEF Schedules
  <2>2. Schedules[s] = Schedule("marketing", "send-hackathons-this-week", 3)
    BY <1>1, <1>6, <2>1 DEF MarketingSchedules
  <2>3. /\ Schedules[s].queue = "marketing" /\ Schedules[s].job = "send-hackathons-this-week"
        /\ Schedules[s].attempts = 3
    BY <2>2 DEF Schedule
  <2>4. "marketing" \in SchedulerQueues
    BY DEF SchedulerQueues
  <2>5. "send-hackathons-this-week" \in NamesOf("marketing") \/ NamesOf("marketing") = {}
    BY <1>3 DEF NamesOf
  <2> QED
    BY <2>3, <2>4, <2>5
<1>7. CASE s \in DOMAIN InvitationSchedules
  <2>1. Schedules[s] = InvitationSchedules[s]
    BY <1>1, <1>2, <1>7 DEF Schedules
  <2>2. Schedules[s] = Schedule("invitations", "mark-expired-invitations", 3)
    BY <1>1, <1>7, <2>1 DEF InvitationSchedules
  <2>3. /\ Schedules[s].queue = "invitations" /\ Schedules[s].job = "mark-expired-invitations"
        /\ Schedules[s].attempts = 3
    BY <2>2 DEF Schedule
  <2>4. "invitations" \in SchedulerQueues
    BY DEF SchedulerQueues
  <2>5. "mark-expired-invitations" \in NamesOf("invitations") \/ NamesOf("invitations") = {}
    BY <1>3 DEF NamesOf
  <2> QED
    BY <2>3, <2>4, <2>5
<1> QED
  BY <1>2, <1>4, <1>5, <1>6, <1>7

\* What becomes of an accepted mail is no kind of mail.
LEMMA KindsAreKinds == "none" \notin Kinds /\ "stored" \notin Kinds /\ "lost" \notin Kinds
  BY MailerAssumption DEF Template, OtpTemplate, NoticeTemplate

\* The handles of the scheduler's queues and of the emails are handles.
LEMMA QueuesAre ==
    /\ SchedulerQueues \subseteq Queues /\ MailQueue \in Queues
    /\ MailQueue \notin SchedulerQueues
  BY DEF Queues, SchedulerQueues, MailQueue

----------------------------------------------------------------------------
(* Redis *)

\* The bound on unanswered calls is kept, and such a call is not forgotten.
LEMMA RedisCallKeeps ==
    ASSUME TypeOK, NEW ok, RedisCall(ok)
    PROVE  /\ redisFaults' \in 0..MaxRedisFaults
           /\ redisFaults <= redisFaults'
           /\ redisFaults' = 0 => ok
  BY QueuesAssumption DEF TypeOK, RedisCall

----------------------------------------------------------------------------
(* Jobs *)

\* A job that is written under an id is the only change.
LEMMA JobWritten ==
    ASSUME TypeOK, \A id \in JobIds : JobOk(stored[id]),
           NEW id \in JobIds, NEW job \in Job, JobOk(job),
           stored' = [stored EXCEPT ![id] = job]
    PROVE  /\ stored' \in [JobIds -> {NoJob} \cup Job]
           /\ \A i \in JobIds : JobOk(stored'[i])
  BY DEF TypeOK

\* What a step may write: one job that is as it should be, active only while its
\* handle is open.
OneJobWritten ==
    \E id \in JobIds, job \in Job :
        /\ stored' = [stored EXCEPT ![id] = job]
        /\ JobOk(job)
        /\ job.state = "active" => handle[job.queue] = "open" /\ UNCHANGED handle

\* A job that is added waits.
LEMMA AddJobWrites ==
    ASSUME TypeOK, NEW id \in JobIds, NEW q \in Queues, NEW name \in JobNames,
           NEW n \in Nat \ {0}, NEW for \in Kinds \cup Scheduled, NEW ok \in BOOLEAN,
           name \in NamesOf(q) \/ NamesOf(q) = {},
           AddJob(id, NewJob(q, name, n, for), ok)
    PROVE  UNCHANGED stored \/ OneJobWritten
<1> DEFINE job == NewJob(q, name, n, for)
<1>1. job \in Job /\ JobOk(job) /\ job.state = "waiting"
  BY QueuesAssumption DEF NewJob, Job, JobOk
<1>2. UNCHANGED stored \/ stored' = [stored EXCEPT ![id] = job]
  BY DEF AddJob
<1> HIDE DEF job
<1> QED
  BY <1>1, <1>2 DEF OneJobWritten

\* A job that is taken is one the handle has a processor for.
LEMMA TakeJobWrites ==
    ASSUME TypeOK, HandlersFit, NEW id \in JobIds, JobOk(stored[id]), TakeJob(id)
    PROVE  OneJobWritten
<1> DEFINE job == [stored[id] EXCEPT !.state = "active"]
<1>1. stored[id] \in Job /\ stored[id].queue \in Queues
  BY DEF TakeJob, TypeOK, Job, NoJob
<1>2. stored[id].name \in handlers[stored[id].queue]
  BY <1>1 DEF TakeJob, HandlersFit, JobOk
<1>3. stored' = [stored EXCEPT ![id] = job]
  BY <1>2 DEF TakeJob, Becomes
<1>4. /\ job \in Job /\ job.queue = stored[id].queue /\ job.state = "active"
      /\ job.left = stored[id].left /\ job.stalls = stored[id].stalls
      /\ job.name = stored[id].name
  BY <1>1 DEF Job
<1>5. JobOk(job)
  BY <1>4 DEF JobOk, TakeJob
<1> QED
  BY <1>3, <1>4, <1>5 DEF OneJobWritten, TakeJob

\* A run that did not do its work does not complete the job.
LEMMA EndRunWrites ==
    ASSUME TypeOK, NEW id \in JobIds, JobOk(stored[id]),
           NEW ok \in BOOLEAN, NEW done \in BOOLEAN, ok => done, EndRun(id, ok, done)
    PROVE  OneJobWritten
<1> DEFINE job == stored[id]
           ended == Ended(job, ok, done, job.left - 1)
           lost == [job EXCEPT !.done = job.done \/ done, !.state = "stalled"]
<1>1. /\ job \in Job /\ job.left \in Nat /\ job.left > 0 /\ job.stalls <= MaxStalls
      /\ job.name \in NamesOf(job.queue) \/ NamesOf(job.queue) = {}
      /\ job.done \in BOOLEAN
  BY DEF EndRun, TypeOK, Job, NoJob, JobOk
<1>2. stored' = [stored EXCEPT ![id] = ended] \/ stored' = [stored EXCEPT ![id] = lost]
  BY DEF EndRun
<1>3. lost \in Job /\ JobOk(lost) /\ lost.state # "active"
  BY <1>1 DEF Job, JobOk
<1>4. ended \in Job /\ JobOk(ended) /\ ended.state # "active"
  <2>1. CASE ok
    BY <1>1, <2>1 DEF Ended, Job, JobOk
  <2>2. CASE ~ok
    <3> DEFINE left == job.left - 1
               state == IF left > 0 THEN "waiting" ELSE "failed"
    <3>1. left \in Nat
      BY <1>1
    <3>2. state \in {"waiting", "failed"} /\ (state = "waiting" <=> left > 0)
      OBVIOUS
    <3>3. ended = [job EXCEPT !.done = job.done \/ done, !.left = left, !.state = state]
      BY <2>2 DEF Ended
    <3> HIDE DEF left, state, job, ended
    <3>4. ended \in Job
      BY <1>1, <3>1, <3>2, <3>3 DEF Job
    <3>5. /\ ended.state = state /\ ended.left = left /\ ended.stalls = job.stalls
          /\ ended.name = job.name /\ ended.queue = job.queue
      BY <1>1, <3>3 DEF Job
    <3> QED
      BY <1>1, <3>1, <3>2, <3>4, <3>5 DEF JobOk
  <2> QED
    BY <2>1, <2>2
<1> QED
  BY <1>2, <1>3, <1>4 DEF OneJobWritten

\* A stalled job runs again until its stalls are used up.
LEMMA RecoverWrites ==
    ASSUME TypeOK, NEW id \in JobIds, JobOk(stored[id]), RecoverStalled(id)
    PROVE  OneJobWritten
<1> DEFINE state == IF stored[id].stalls < MaxStalls THEN "waiting" ELSE "failed"
           job == [stored[id] EXCEPT !.stalls = stored[id].stalls + 1, !.state = state]
<1>1. /\ stored[id] \in Job /\ stored[id].left > 0
      /\ stored[id].stalls \in Nat /\ stored[id].stalls <= MaxStalls
      /\ stored[id].name \in NamesOf(stored[id].queue) \/ NamesOf(stored[id].queue) = {}
  BY DEF RecoverStalled, TypeOK, Job, NoJob, JobOk
<1>2. stored' = [stored EXCEPT ![id] = job]
  BY DEF RecoverStalled
<1>3. /\ state \in {"waiting", "failed"}
      /\ state = "waiting" <=> stored[id].stalls < MaxStalls
  OBVIOUS
<1>4. job \in Job /\ JobOk(job) /\ job.state # "active"
  <2> HIDE DEF state
  <2>1. stored[id].stalls + 1 \in 0..(MaxStalls + 1)
    BY <1>1, QueuesAssumption
  <2>2. job \in Job
    BY <1>1, <1>3, <2>1 DEF Job
  <2>3. /\ job.state = state /\ job.stalls = stored[id].stalls + 1
        /\ job.left = stored[id].left
        /\ job.name = stored[id].name /\ job.queue = stored[id].queue
    BY <1>1 DEF Job
  <2> HIDE DEF job
  <2> QED
    BY <1>1, <1>3, <2>2, <2>3, QueuesAssumption DEF JobOk
<1> QED
  BY <1>2, <1>4 DEF OneJobWritten

\* Nothing of a job that ran is left but that it is stalled.
Stalled(job) == IF job.state = "active" THEN [job EXCEPT !.state = "stalled"] ELSE job

\* Every step but the end of the process writes one job at most.
LEMMA StoredWrites ==
    ASSUME IInv, [Next]_vars
    PROVE  \/ UNCHANGED stored
           \/ OneJobWritten
           \/ stored' = [id \in JobIds |-> Stalled(stored[id])] /\ Leave
<1> USE DEF IInv
<1>1. CASE Leave
  BY <1>1 DEF Leave, LeaveQueues, Stalled
<1>2. CASE Mailing
  <2>1. PICK e \in Emails :
            \/ SendOtpEmail(e) \/ SendNotice(e)
            \/ \E ok \in BOOLEAN : StoreMail(e, ok)
    BY <1>2 DEF Mailing
  <2>2. CASE SendOtpEmail(e) \/ SendNotice(e)
    BY <2>2 DEF SendOtpEmail, SendNotice, QueueEmailJob, queueVars
  <2>3. CASE \E ok \in BOOLEAN : StoreMail(e, ok)
    <3>1. PICK ok \in BOOLEAN, id \in MailIds :
              AddJob(id, NewJob(MailQueue, MailJob, MailAttempts, mail[e]), ok)
      BY <2>3 DEF StoreMail
    <3>2. /\ id \in JobIds /\ MailQueue \in Queues /\ MailJob \in JobNames
          /\ MailAttempts \in Nat \ {0} /\ mail[e] \in Kinds \cup Scheduled
          /\ MailJob \in NamesOf(MailQueue)
      BY <2>3, MailerAssumption, QueuesAre
         DEF StoreMail, JobNames, NamesOf, MailProcessors
    <3> QED
      BY <3>1, <3>2, AddJobWrites
  <2> QED
    BY <2>1, <2>2, <2>3
<1>3. ASSUME NEW s \in Scheduled, Tick(s)
      PROVE  UNCHANGED stored \/ OneJobWritten
  <2>1. ticked[s] \in 0..MaxTicks /\ ticked'[s] = ticked[s] + 1 /\ ticked[s] < MaxTicks
    BY <1>3 DEF Tick, TypeOK
  <2>2. <<s, ticked'[s]>> \in JobIds
    BY <2>1, SchedulerAssumption
  <2>3. PICK ok \in BOOLEAN :
            AddJob(<<s, ticked'[s]>>,
                   NewJob(Schedules[s].queue, Schedules[s].job, Schedules[s].attempts, s), ok)
    BY <1>3 DEF Tick
  <2>4. Schedules[s].job \in JobNames /\ s \in Kinds \cup Scheduled
    BY DEF JobNames
  <2> QED
    BY <2>2, <2>3, <2>4, SchedulesFit, QueuesAre, AddJobWrites
<1>4. CASE Workers
  <2>1. CASE \E id \in JobIds : TakeJob(id) \/ RecoverStalled(id)
    BY <2>1, TakeJobWrites, RecoverWrites
  <2>2. ASSUME NEW id \in MailIds, EmailProcessor(id)
        PROVE  OneJobWritten
    <3>1. PICK r \in SendEmail(stored[id].for) : EndRun(id, ~r.error, r.sent)
      BY <2>2 DEF EmailProcessor
    <3>2. r.sent \in BOOLEAN /\ (~r.error) \in BOOLEAN /\ (~r.error => r.sent)
      BY DEF SendEmail, Dispatch
    <3>3. id \in JobIds
      BY MailerAssumption
    <3> QED
      BY <3>1, <3>2, <3>3, EndRunWrites
  <2>3. ASSUME NEW s \in Scheduled, NEW n \in 1..MaxTicks, RunScheduled(s, n)
        PROVE  OneJobWritten
    <3>1. <<s, n>> \in JobIds
      BY SchedulerAssumption
    <3>2. PICK ok \in BOOLEAN : EndRun(<<s, n>>, ok, ok)
      BY <2>3 DEF RunScheduled
    <3> QED
      BY <3>1, <3>2, EndRunWrites
  <2> QED
    BY <1>4, <2>1, <2>2, <2>3 DEF Workers
<1>5. CASE Start \/ Terminate \/ Interrupt \/ CloseNext
  BY <1>5 DEF Start, StartWorkers, Terminate, Interrupt, CloseNext
<1>6. CASE MailQueueCloses \/ \E q \in SchedulerQueues : SchedulerQueueCloses(q)
  BY <1>6 DEF MailQueueCloses, SchedulerQueueCloses, FinishClose
<1> QED
  BY <1>1, <1>2, <1>3, <1>4, <1>5, <1>6 DEF Next, vars, queueVars

\* Stored jobs stay jobs, and as they should be.
LEMMA JobsStep ==
    ASSUME IInv, [Next]_vars
    PROVE  /\ stored' \in [JobIds -> {NoJob} \cup Job]
           /\ \A id \in JobIds : JobOk(stored'[id])
<1>1. TypeOK /\ \A id \in JobIds : JobOk(stored[id])
  BY DEF IInv
<1>2. CASE UNCHANGED stored
  BY <1>1, <1>2 DEF TypeOK
<1>3. CASE OneJobWritten
  BY <1>1, <1>3, JobWritten DEF OneJobWritten
<1>4. CASE stored' = [id \in JobIds |-> Stalled(stored[id])]
  <2>1. ASSUME NEW id \in JobIds
        PROVE  Stalled(stored[id]) \in {NoJob} \cup Job /\ JobOk(Stalled(stored[id]))
    <3>1. CASE stored[id].state = "active"
      <4>1. stored[id] \in Job
        BY <1>1, <3>1 DEF TypeOK, NoJob
      <4> QED
        BY <1>1, <3>1, <4>1 DEF Stalled, Job, JobOk
    <3>2. CASE stored[id].state # "active"
      BY <1>1, <3>2 DEF Stalled, TypeOK
    <3> QED
      BY <3>1, <3>2
  <2> QED
    BY <1>4, <2>1
<1> QED
  BY <1>2, <1>3, <1>4, StoredWrites

----------------------------------------------------------------------------
(* Handles *)

\* How a step writes the handles.  They are opened at the start and by the calls
\* that add a job, which for the scheduler's queues are the ticks; they are
\* closed one by one, without waiting for the jobs only if Redis is away.
LEMMA HandleWrites ==
    ASSUME IInv, [Next]_vars
    PROVE  \/ UNCHANGED <<handle, handlers>>
           \/ Start
           \/ Leave
           \/ \E q \in Queues :
                 /\ handle' = [handle EXCEPT ![q] = IF handle[q] = "absent" THEN "open"
                                                    ELSE handle[q]]
                 /\ \/ q = MailQueue /\ phase = "up"
                    \/ q \in SchedulerQueues /\ tasks # {}
                 /\ UNCHANGED <<handlers, phase, shut, tasks>>
           \/ \E S \in SUBSET Queues :
                 /\ Closing(S)
                 /\ phase = "up"
                 /\ \/ Interrupt
                    \/ CloseNext
                    \/ Terminate /\ S = {MailQueue}
                 /\ UNCHANGED handlers
           \/ \E q \in Queues, becomes \in {"absent", "closed"} :
                 /\ handle[q] = "closing"
                 /\ handle' = [handle EXCEPT ![q] = becomes]
                 /\ handlers' = [handlers EXCEPT ![q] = {}]
                 /\ redisFaults' = 0 => ActiveIn(q) = {}
                 /\ \/ q = MailQueue /\ becomes = "closed" /\ UNCHANGED shut
                    \/ q \in SchedulerQueues /\ shut' \in {shut, "failed"}
                 /\ UNCHANGED <<stored, phase, tasks>>
<1> USE DEF IInv
<1>1. CASE Mailing /\ UNCHANGED <<scheduleVars, lifeVars>>
  <2>1. PICK e \in Emails :
            \/ SendOtpEmail(e) \/ SendNotice(e)
            \/ \E ok \in BOOLEAN : StoreMail(e, ok)
    BY <1>1 DEF Mailing
  <2>2. CASE SendOtpEmail(e) \/ SendNotice(e)
    BY <2>2 DEF SendOtpEmail, SendNotice, QueueEmailJob, queueVars
  <2>3. CASE \E ok \in BOOLEAN : StoreMail(e, ok)
    <3>1. PICK ok \in BOOLEAN, id \in MailIds :
              AddJob(id, NewJob(MailQueue, MailJob, MailAttempts, mail[e]), ok)
      BY <2>3 DEF StoreMail
    <3>2. phase = "up"
      BY <2>3 DEF StoreMail, DownHoldsNothing, TypeOK
    <3> QED
      BY <1>1, <3>1, <3>2, QueuesAre DEF AddJob, CreateQueue, NewJob, scheduleVars, lifeVars
  <2> QED
    BY <2>1, <2>2, <2>3
<1>2. ASSUME NEW s \in Scheduled, Tick(s), UNCHANGED <<mail, lifeVars>>
      PROVE  \E q \in SchedulerQueues :
                 /\ handle' = [handle EXCEPT ![q] = IF handle[q] = "absent" THEN "open"
                                                    ELSE handle[q]]
                 /\ tasks # {}
                 /\ UNCHANGED <<handlers, phase, shut, tasks>>
  <2>1. Schedules[s].queue \in SchedulerQueues
    BY SchedulesFit
  <2>2. PICK ok \in BOOLEAN :
            AddJob(<<s, ticked'[s]>>,
                   NewJob(Schedules[s].queue, Schedules[s].job, Schedules[s].attempts, s), ok)
    BY <1>2 DEF Tick
  <2> QED
    BY <1>2, <2>1, <2>2 DEF AddJob, CreateQueue, NewJob, Tick, lifeVars
<1>3. CASE Workers
  BY <1>3 DEF Workers, TakeJob, RecoverStalled, EmailProcessor, RunScheduled, EndRun
<1>4. CASE Terminate
  BY <1>4, QueuesAre DEF Terminate
<1>5. CASE Interrupt
  <2> DEFINE S == {MailQueue} \cup ownQueues
  <2>1. S \in SUBSET Queues
    BY QueuesAre DEF TypeOK
  <2>2. Closing(S) /\ phase = "up" /\ UNCHANGED handlers
    BY <1>5 DEF Interrupt
  <2> HIDE DEF S
  <2> QED
    BY <1>5, <2>1, <2>2
<1>6. CASE CloseNext
  <2>1. shut' \in {"reminders", "cleanup", "marketing", "invitations", "done"}
    BY <1>6 DEF CloseNext, After
  <2>2. shut # "no"
    BY <1>6 DEF CloseNext, After
  <2>3. phase = "up"
    BY <2>2 DEF DownHoldsNothing, TypeOK
  <2> DEFINE S == {shut'} \cap Queues
  <2>4. S \in SUBSET Queues
    OBVIOUS
  <2>5. Closing(S) /\ UNCHANGED handlers
    BY <1>6 DEF CloseNext
  <2> HIDE DEF S
  <2> QED
    BY <1>6, <2>3, <2>4, <2>5
<1>7. ASSUME NEW q \in Queues, NEW becomes, NEW thrown \in BOOLEAN,
             FinishClose(q, becomes, thrown)
      PROVE  /\ handle[q] = "closing"
             /\ handle' = [handle EXCEPT ![q] = becomes]
             /\ handlers' = [handlers EXCEPT ![q] = {}]
             /\ redisFaults' = 0 => ActiveIn(q) = {}
             /\ UNCHANGED stored
  BY <1>7, RedisCallKeeps DEF FinishClose
<1>8. CASE MailQueueCloses
  BY <1>7, <1>8, QueuesAre DEF MailQueueCloses, scheduleVars, lifeVars
<1>9. ASSUME NEW q \in SchedulerQueues, SchedulerQueueCloses(q)
      PROVE  \E becomes \in {"absent", "closed"} :
                 /\ handle[q] = "closing"
                 /\ handle' = [handle EXCEPT ![q] = becomes]
                 /\ handlers' = [handlers EXCEPT ![q] = {}]
                 /\ redisFaults' = 0 => ActiveIn(q) = {}
                 /\ shut' \in {shut, "failed"}
                 /\ UNCHANGED <<stored, phase, tasks>>
  <2>1. PICK thrown \in BOOLEAN :
            /\ FinishClose(q, IF thrown THEN "closed" ELSE "absent", thrown)
            /\ shut' = IF thrown THEN "failed" ELSE shut
    BY <1>9 DEF SchedulerQueueCloses
  <2> QED
    BY <1>7, <1>9, <2>1, QueuesAre DEF SchedulerQueueCloses, scheduleVars
<1> QED
  BY <1>1, <1>2, <1>3, <1>4, <1>5, <1>6, <1>8, <1>9, QueuesAre DEF Next, vars, queueVars

\* Handles keep their types, and their processors.
LEMMA HandlesStep ==
    ASSUME IInv, [Next]_vars
    PROVE  /\ handle' \in [Queues -> {"absent", "open", "closing", "closed"}]
           /\ handlers' \in [Queues -> SUBSET ProcessorNames]
           /\ HandlersFit'
<1> USE DEF IInv, TypeOK, HandlersFit
<1>1. CASE UNCHANGED <<handle, handlers>>
  BY <1>1
<1>2. CASE Start
  <2>1. handlers' = [q \in Queues |-> NamesOf(q)]
    BY <1>2 DEF Start, StartWorkers, NamesOf
  <2>2. handle' = [q \in Queues |-> IF handlers'[q] = {} THEN "absent" ELSE "open"]
    BY <1>2 DEF Start, StartWorkers
  <2>3. \A q \in Queues : NamesOf(q) \subseteq ProcessorNames
    BY DEF NamesOf, ProcessorNames
  <2> QED
    BY <2>1, <2>2, <2>3
<1>3. CASE Leave
  BY <1>3 DEF Leave, LeaveQueues
<1>4. ASSUME NEW q \in Queues, NEW h \in {"absent", "open", "closing", "closed"},
             handle' = [handle EXCEPT ![q] = h],
             UNCHANGED handlers \/ handlers' = [handlers EXCEPT ![q] = {}]
      PROVE  /\ handle' \in [Queues -> {"absent", "open", "closing", "closed"}]
             /\ handlers' \in [Queues -> SUBSET ProcessorNames]
             /\ HandlersFit'
  BY <1>4
<1>5. ASSUME NEW S \in SUBSET Queues, Closing(S), UNCHANGED handlers
      PROVE  /\ handle' \in [Queues -> {"absent", "open", "closing", "closed"}]
             /\ handlers' \in [Queues -> SUBSET ProcessorNames]
             /\ HandlersFit'
  BY <1>5 DEF Closing
<1> QED
  BY <1>1, <1>2, <1>3, <1>4, <1>5, HandleWrites

\* The bound on unanswered calls.
LEMMA FaultsStep ==
    ASSUME IInv, [Next]_vars
    PROVE  redisFaults' \in 0..MaxRedisFaults /\ redisFaults <= redisFaults'
<1> USE DEF IInv
<1>1. CASE UNCHANGED redisFaults
  BY <1>1, QueuesAssumption DEF TypeOK
<1>2. CASE \E ok : RedisCall(ok)
  BY <1>2, RedisCallKeeps
<1>3. UNCHANGED redisFaults \/ \E ok : RedisCall(ok)
  BY DEF Next, vars, queueVars, Start, StartWorkers, Leave, LeaveQueues, Terminate,
     MailQueueCloses, FinishClose, Interrupt, CloseNext, SchedulerQueueCloses, Mailing,
     SendOtpEmail, SendNotice, QueueEmailJob, StoreMail, AddJob, Tick, Workers, TakeJob,
     RecoverStalled, EmailProcessor, RunScheduled, EndRun, Records
<1> QED
  BY <1>1, <1>2, <1>3

\* An absent handle has no active jobs, as long as Redis is there.
LEMMA IdleStep ==
    ASSUME IInv, [Next]_vars
    PROVE  AbsentIsIdle'
<1> USE DEF IInv
<1> SUFFICES ASSUME redisFaults' = 0, NEW q \in Queues, handle'[q] = "absent"
             PROVE  ActiveIn(q)' = {}
  BY DEF AbsentIsIdle
<1>1. redisFaults = 0
  BY FaultsStep, QueuesAssumption DEF TypeOK
<1>2. CASE Leave
  BY <1>2 DEF Leave, LeaveQueues, ActiveIn
<1>3. CASE ~Leave
  <2>1. ActiveIn(q) = {}
    <3>1. handle[q] = "absent" => ActiveIn(q) = {}
      BY <1>1 DEF AbsentIsIdle
    <3>2. CASE Start
      BY <3>1, <3>2 DEF Start, DownHoldsNothing
    <3>3. ASSUME NEW r \in Queues, handle' = [handle EXCEPT ![r] =
                     IF handle[r] = "absent" THEN "open" ELSE handle[r]]
          PROVE  ActiveIn(q) = {}
      BY <3>1, <3>3 DEF TypeOK
    <3>4. ASSUME NEW S \in SUBSET Queues, Closing(S)
          PROVE  ActiveIn(q) = {}
      BY <3>1, <3>4 DEF TypeOK, Closing
    <3>5. ASSUME NEW r \in Queues, NEW becomes \in {"absent", "closed"},
                 handle' = [handle EXCEPT ![r] = becomes],
                 redisFaults' = 0 => ActiveIn(r) = {}
          PROVE  ActiveIn(q) = {}
      BY <3>1, <3>5 DEF TypeOK
    <3>6. CASE UNCHANGED handle
      BY <3>1, <3>6
    <3> QED
      BY <1>3, <3>2, <3>3, <3>4, <3>5, <3>6, HandleWrites
  <2>2. CASE UNCHANGED stored
    BY <2>1, <2>2 DEF ActiveIn
  <2>3. CASE OneJobWritten
    BY <2>1, <2>3 DEF OneJobWritten, ActiveIn, TypeOK
  <2> QED
    BY <1>3, <2>2, <2>3, StoredWrites
<1> QED
  BY <1>2, <1>3

----------------------------------------------------------------------------
(* The shutdown *)

\* Each step of the shutdown adds the queue it waited for to those passed.
LEMMA PassedGrows ==
    /\ \A s \in ShutdownSteps : Passed[s] \subseteq SchedulerQueues
    /\ Passed["no"] = {} /\ Passed["own"] = {} /\ Passed["failed"] = {}
    /\ Passed["done"] = SchedulerQueues
    /\ DOMAIN After = {"own", "reminders", "cleanup", "marketing", "invitations"}
    /\ \A s \in DOMAIN After :
          /\ After[s] \in ShutdownSteps \ {"no"}
          /\ Passed[After[s]] \subseteq Passed[s] \cup ({s} \cap Queues)
<1>1. DOMAIN After = {"own", "reminders", "cleanup", "marketing", "invitations"}
  BY DEF After
<1>2. /\ Passed["no"] = {} /\ Passed["own"] = {} /\ Passed["failed"] = {}
      /\ Passed["reminders"] = {} /\ Passed["cleanup"] = {"reminders"}
      /\ Passed["marketing"] = {"reminders", "cleanup"}
      /\ Passed["invitations"] = {"reminders", "cleanup", "marketing"}
      /\ Passed["done"] = SchedulerQueues
  BY DEF Passed
<1>3. /\ After["own"] = "reminders" /\ After["reminders"] = "cleanup"
      /\ After["cleanup"] = "marketing" /\ After["marketing"] = "invitations"
      /\ After["invitations"] = "done"
  BY DEF After
<1>4. {"reminders", "cleanup", "marketing", "invitations"} = SchedulerQueues
  BY DEF SchedulerQueues
<1>5. \A s \in ShutdownSteps : Passed[s] \subseteq SchedulerQueues
  BY <1>2, <1>4 DEF ShutdownSteps
<1>6. ASSUME NEW s \in DOMAIN After
      PROVE  /\ After[s] \in ShutdownSteps \ {"no"}
             /\ Passed[After[s]] \subseteq Passed[s] \cup ({s} \cap Queues)
  BY <1>1, <1>2, <1>3, <1>4, QueuesAre DEF ShutdownSteps
<1> QED
  BY <1>1, <1>2, <1>5, <1>6

\* How a step writes how far the shutdown is.
LEMMA ShutWrites ==
    ASSUME IInv, [Next]_vars
    PROVE  \/ UNCHANGED <<shut, tasks>> /\ ~Start /\ ~Leave
           \/ Start /\ UNCHANGED shut
           \/ Leave /\ shut' = "no" /\ tasks' = {}
           \/ Interrupt /\ shut' = "own" /\ tasks' = {} /\ ~Start /\ ~Leave
           \/ CloseNext /\ shut' = After[shut] /\ UNCHANGED tasks /\ ~Start /\ ~Leave
           \/ \E q \in SchedulerQueues :
                 /\ SchedulerQueueCloses(q)
                 /\ shut' = "failed" /\ UNCHANGED tasks
                 /\ ~Start /\ ~Leave
<1>1. CASE Start
  BY <1>1 DEF Start
<1>2. CASE Leave
  BY <1>2 DEF Leave
<1>3. CASE Interrupt
  BY <1>1, <1>2, <1>3 DEF Interrupt, StopAll
<1>4. CASE CloseNext
  BY <1>1, <1>2, <1>4 DEF CloseNext
<1>5. ASSUME NEW q \in SchedulerQueues, SchedulerQueueCloses(q)
      PROVE  shut' \in {shut, "failed"} /\ UNCHANGED tasks
  BY <1>5 DEF SchedulerQueueCloses, scheduleVars
<1>6. CASE \/ Terminate \/ MailQueueCloses
           \/ Mailing /\ UNCHANGED <<scheduleVars, lifeVars>>
           \/ \E s \in Scheduled : Tick(s) /\ UNCHANGED <<mail, lifeVars>>
           \/ Workers /\ UNCHANGED lifeVars
           \/ UNCHANGED vars
  <2>1. UNCHANGED <<shut, tasks>>
    BY <1>6 DEF Terminate, MailQueueCloses, Tick, Workers, RunScheduled, scheduleVars,
       lifeVars, vars
  <2> QED
    BY <1>1, <1>2, <2>1
<1> QED
  BY <1>1, <1>2, <1>3, <1>4, <1>5, <1>6 DEF Next

\* The handles on the queues that are passed stay absent.
LEMMA PassedStep ==
    ASSUME IInv, [Next]_vars
    PROVE  PassedAreAbsent'
<1> USE DEF IInv
<1> SUFFICES ASSUME NEW q \in Passed[shut']
             PROVE  handle'[q] = "absent"
  BY DEF PassedAreAbsent, Passed
<1>1. shut \in ShutdownSteps
  BY DEF TypeOK
<1>2. CASE shut' \in {"no", "own", "failed"}
  BY <1>2, PassedGrows
<1>3. CASE Start
  <2>1. shut' = "no"
    BY <1>3 DEF Start, DownHoldsNothing
  <2> QED
    BY <2>1, <1>2
<1>4. CASE UNCHANGED <<shut, tasks>> /\ ~Start /\ ~Leave
  <2>1. CASE shut = "no"
    BY <1>2, <1>4, <2>1
  <2>2. CASE shut # "no"
    <3>1. tasks = {} /\ q \in SchedulerQueues /\ q # MailQueue /\ handle[q] = "absent"
      BY <1>1, <1>4, <2>2, PassedGrows, QueuesAre DEF TasksStopFirst, PassedAreAbsent
    <3>2. handle \in [Queues -> {"absent", "open", "closing", "closed"}] /\ q \in Queues
      BY <3>1, QueuesAre DEF TypeOK
    <3>3. ASSUME NEW S \in SUBSET Queues, Closing(S)
          PROVE  handle'[q] = "absent"
      BY <3>1, <3>2, <3>3 DEF Closing
    <3> QED
      BY <1>4, <3>1, <3>2, <3>3, HandleWrites
  <2> QED
    BY <2>1, <2>2
<1>5. CASE CloseNext /\ shut' = After[shut]
  <2>1. shut \in DOMAIN After /\ Closing({shut'} \cap Queues)
    BY <1>5 DEF CloseNext
  <2>2. q \in Passed[shut] \cup ({shut} \cap Queues)
    BY <1>5, <2>1, PassedGrows
  <2>3. handle[q] = "absent"
    BY <1>5, <2>2 DEF CloseNext, PassedAreAbsent
  <2>4. q \in Queues
    BY <1>1, <2>2, PassedGrows, QueuesAre
  <2> QED
    BY <2>1, <2>3, <2>4 DEF Closing
<1> QED
  BY <1>2, <1>3, <1>4, <1>5, ShutWrites

\* Tasks are stopped before a queue of the scheduler is closed.
LEMMA TasksStep ==
    ASSUME IInv, [Next]_vars
    PROVE  TasksStopFirst'
<1> USE DEF IInv
<1>1. shut' # "no" => tasks' = {}
  <2>1. CASE Start
    BY <2>1 DEF Start, DownHoldsNothing
  <2>2. CASE CloseNext /\ shut' = After[shut] /\ UNCHANGED tasks
    BY <2>2, PassedGrows DEF CloseNext, TasksStopFirst
  <2>3. ASSUME NEW q \in SchedulerQueues, SchedulerQueueCloses(q), UNCHANGED tasks
        PROVE  tasks' = {}
    <3>1. handle[q] = "closing"
      BY <2>3 DEF SchedulerQueueCloses, FinishClose
    <3> QED
      BY <2>3, <3>1 DEF TasksStopFirst
  <2> QED
    BY <2>1, <2>2, <2>3, ShutWrites DEF TasksStopFirst
<1>2. ASSUME shut' = "no", NEW q \in SchedulerQueues
      PROVE  handle'[q] \in {"absent", "open"}
  <2>1. q \in Queues /\ q # MailQueue /\ handle \in [Queues -> {"absent", "open", "closing", "closed"}]
    BY QueuesAre DEF TypeOK
  <2>2. CASE Leave
    BY <2>1, <2>2 DEF Leave, LeaveQueues
  <2>3. CASE Start
    BY <2>1, <2>3 DEF Start, StartWorkers
  <2>4. CASE UNCHANGED shut /\ ~Start /\ ~Leave
    <3>1. handle[q] \in {"absent", "open"} /\ ~Interrupt /\ ~CloseNext
      BY <1>2, <2>4, PassedGrows DEF TasksStopFirst, Interrupt, CloseNext
    <3>2. ASSUME NEW r \in Queues,
                 handle' = [handle EXCEPT ![r] = IF handle[r] = "absent" THEN "open"
                                                 ELSE handle[r]]
          PROVE  handle'[q] \in {"absent", "open"}
      BY <2>1, <3>1, <3>2
    <3>3. ASSUME Closing({MailQueue})
          PROVE  handle'[q] \in {"absent", "open"}
      BY <2>1, <3>1, <3>3 DEF Closing
    <3>4. ASSUME NEW r \in Queues, NEW becomes, handle[r] = "closing",
                 handle' = [handle EXCEPT ![r] = becomes]
          PROVE  handle'[q] \in {"absent", "open"}
      BY <2>1, <3>1, <3>4
    <3>5. CASE UNCHANGED handle
      BY <3>1, <3>5
    <3> QED
      BY <2>4, <3>1, <3>2, <3>3, <3>4, <3>5, HandleWrites
  <2> QED
    BY <1>2, <2>2, <2>3, <2>4, PassedGrows, ShutWrites DEF CloseNext
<1> QED
  BY <1>1, <1>2 DEF TasksStopFirst

\* The process that is gone has nothing, and none is gone but by Leave.
LEMMA DownStep ==
    ASSUME IInv, [Next]_vars
    PROVE  DownHoldsNothing'
<1> USE DEF IInv
<1> SUFFICES ASSUME phase' = "down"
             PROVE  DownHoldsNothing'
  BY DEF DownHoldsNothing
<1>1. CASE Leave
  <2>1. \A e \in Emails : mail'[e] \notin Kinds
    BY <1>1, KindsAreKinds DEF Leave, LoseAccepted
  <2> QED
    BY <1>1, <2>1 DEF Leave, LeaveQueues, DownHoldsNothing
<1>2. CASE ~Leave
  <2>1. phase = "down" /\ ~Start
    BY <1>2 DEF Next, vars, lifeVars, Start, Terminate, MailQueueCloses, Interrupt,
       CloseNext, SchedulerQueueCloses
  <2>2. /\ shut = "no" /\ tasks = {} /\ \A q \in Queues : handle[q] = "absent"
        /\ \A e \in Emails : mail[e] \notin Kinds
    BY <2>1 DEF DownHoldsNothing
  <2>3. ~Terminate /\ ~Interrupt /\ ~CloseNext /\ ~MailQueueCloses /\ ~Mailing
    BY <2>1, <2>2, QueuesAre, PassedGrows
       DEF Terminate, Interrupt, CloseNext, MailQueueCloses, FinishClose, Mailing, StoreMail
  <2>4. /\ \A q \in SchedulerQueues : ~SchedulerQueueCloses(q)
        /\ \A s \in Scheduled : ~Tick(s)
    BY <2>2, QueuesAre DEF SchedulerQueueCloses, FinishClose, Tick
  <2>5. (Workers /\ UNCHANGED lifeVars) \/ UNCHANGED vars
    BY <1>2, <2>1, <2>3, <2>4 DEF Next
  <2>6. UNCHANGED <<handle, mail, tasks, shut>>
    BY <2>5 DEF Workers, TakeJob, RecoverStalled, EmailProcessor, RunScheduled, EndRun,
       vars, queueVars, scheduleVars, lifeVars
  <2> QED
    BY <2>2, <2>6 DEF DownHoldsNothing
<1> QED
  BY <1>1, <1>2

----------------------------------------------------------------------------
(* The invariant and what follows from it *)

\* The mails, the ticks and the life of the process keep their types.
LEMMA ProcessTypesStep ==
    ASSUME IInv, [Next]_vars
    PROVE  /\ mail' \in [Emails -> Kinds \cup {"none", "stored", "lost"}]
           /\ tasks' \subseteq Scheduled
           /\ ownQueues' \subseteq SchedulerQueues
           /\ ticked' \in [Scheduled -> 0..MaxTicks]
           /\ phase' \in {"down", "up"} /\ shut' \in ShutdownSteps
           /\ lives' \in 0..MaxLives
<1> USE DEF IInv, TypeOK
<1>1. mail' \in [Emails -> Kinds \cup {"none", "stored", "lost"}]
  <2>1. CASE Mailing
    BY <2>1 DEF Mailing, SendOtpEmail, SendNotice, QueueEmailJob, StoreMail
  <2>2. CASE Leave
    BY <2>2 DEF Leave, LoseAccepted
  <2>3. CASE UNCHANGED mail
    BY <2>3
  <2> QED
    BY <2>1, <2>2, <2>3 DEF Next, vars, Start, Terminate, MailQueueCloses, Interrupt,
       CloseNext, SchedulerQueueCloses, Workers, EmailProcessor
<1>2. /\ tasks' \subseteq Scheduled /\ ownQueues' \subseteq SchedulerQueues
      /\ ticked' \in [Scheduled -> 0..MaxTicks]
  <2>1. ASSUME NEW s \in Scheduled, Tick(s)
        PROVE  /\ tasks' \subseteq Scheduled /\ ownQueues' \subseteq SchedulerQueues
               /\ ticked' \in [Scheduled -> 0..MaxTicks]
    BY <2>1, SchedulesFit, SchedulerAssumption DEF Tick
  <2>2. CASE UNCHANGED scheduleVars
    BY <2>2 DEF scheduleVars
  <2>3. CASE Start \/ Leave \/ Interrupt \/ CloseNext
    BY <2>3 DEF Start, StartScheduledJobs, Leave, Interrupt, StopAll, CloseNext
  <2> QED
    BY <2>1, <2>2, <2>3 DEF Next, vars, Terminate, MailQueueCloses, SchedulerQueueCloses,
       Workers, RunScheduled
<1>3. shut' \in ShutdownSteps
  BY ShutWrites, PassedGrows DEF ShutdownSteps, CloseNext
<1>4. phase' \in {"down", "up"} /\ lives' \in 0..MaxLives
  <2>1. CASE Start
    BY <2>1, LivesAssumption DEF Start
  <2>2. CASE Leave
    BY <2>2 DEF Leave
  <2>3. CASE UNCHANGED <<phase, lives>>
    BY <2>3
  <2> QED
    BY <2>1, <2>2, <2>3 DEF Next, vars, lifeVars, Terminate, MailQueueCloses, Interrupt,
       CloseNext, SchedulerQueueCloses
<1> QED
  BY <1>1, <1>2, <1>3, <1>4

LEMMA InitInvariant == Init => IInv
<1> SUFFICES ASSUME Init
             PROVE  IInv
  OBVIOUS
<1>1. TypeOK
  BY QueuesAssumption, SchedulerAssumption, LivesAssumption DEF Init, TypeOK, ShutdownSteps
<1>2. HandlersFit /\ TasksStopFirst
  BY QueuesAre DEF Init, HandlersFit, TasksStopFirst
<1>3. \A id \in JobIds : stored[id] = NoJob /\ NoJob.state = "none"
  BY DEF Init, NoJob
<1>4. \A id \in JobIds : JobOk(stored[id])
  BY <1>3 DEF JobOk
<1>5. AbsentIsIdle
  BY <1>3 DEF AbsentIsIdle, ActiveIn
<1>6. DownHoldsNothing
  BY KindsAreKinds DEF Init, DownHoldsNothing
<1>7. PassedAreAbsent
  BY PassedGrows DEF Init, PassedAreAbsent
<1> QED
  BY <1>1, <1>2, <1>4, <1>5, <1>6, <1>7 DEF IInv

LEMMA StepInvariant == IInv /\ [Next]_vars => IInv'
<1> SUFFICES ASSUME IInv, [Next]_vars
             PROVE  IInv'
  OBVIOUS
<1>1. TypeOK'
  BY JobsStep, HandlesStep, FaultsStep, ProcessTypesStep DEF TypeOK
<1>2. \A id \in JobIds : JobOk(stored[id])'
  BY JobsStep DEF JobOk
<1> QED
  BY <1>1, <1>2, HandlesStep, DownStep, TasksStep, PassedStep, IdleStep DEF IInv

\* What jobs, handles and the steps of the shutdown have to do with each other
\* holds in every reachable state.
THEOREM JobsInvariant == Spec => []IInv
  BY InitInvariant, StepInvariant, PTL DEF Spec

\* Jobs, handles, tasks and the life of the process keep their types.
THEOREM JobsTypeCorrect == Spec => []TypeOK
<1>1. IInv => TypeOK
  BY DEF IInv
<1> QED
  BY <1>1, JobsInvariant, PTL

\* A scheduler that reports its shutdown has left no task, no queue and no job
\* that is half done, if Redis was always there.
THEOREM ShutdownsAreQuiet == Spec => []ShutdownIsQuiet
<1>1. IInv => ShutdownIsQuiet
  BY QueuesAre, PassedGrows
     DEF IInv, ShutdownIsQuiet, TasksStopFirst, PassedAreAbsent, AbsentIsIdle
<1> QED
  BY <1>1, JobsInvariant, PTL

\* A job is completed because its work was done, and given up because its
\* attempts or its stalls are used up.
THEOREM JobsHaveReasons == Spec => []JobsEndForAReason
<1>1. IInv => JobsEndForAReason
  BY DEF IInv, JobOk, JobsEndForAReason
<1> QED
  BY <1>1, JobsInvariant, PTL
=============================================================================
