------------------------------ MODULE JobQueues ------------------------------
(***************************************************************************)
(* The Bull queues of the server (queues/queue.ts).  The jobs live in      *)
(* Redis and outlive the process; the handles on the queues, and the       *)
(* processors attached to them, belong to the process.                     *)
(*                                                                         *)
(* Bull is external and modelled as the code relies on it: an id that is   *)
(* already stored swallows the job that is added under it; a worker fails  *)
(* a job whose name has no processor at once and for good; a failed        *)
(* attempt puts the job back until its attempts are used up; a job whose   *)
(* worker is gone is stalled, and run again MaxStalls times at most; a     *)
(* handle that is closed waits for the jobs it runs and then answers every *)
(* call with an error.  Delays and backoffs are waiting, of no set length. *)
(***************************************************************************)
EXTENDS Naturals

CONSTANTS
    JobIds,                     \* the ids jobs are stored under
    MaxStalls,                  \* Bull's maxStalledCount
    MaxRedisFaults              \* bound: calls that Redis leaves unanswered

ASSUME QueuesAssumption == MaxStalls \in Nat /\ MaxRedisFaults \in Nat

VARIABLES
    stored,                     \* Redis: the job of each id
    handle,                     \* BullQueue.queues: the handle of each queue
    handlers,                   \* the names a handle has processors for
    redisFaults

queueVars == <<stored, handle, handlers, redisFaults>>

\* channel.queue.ts: the scheduler's four queues, that of the scholarship
\* applications, and that of the emails (which is called JobChannel.SendEmail)
SchedulerQueues == {"reminders", "cleanup", "marketing", "invitations"}
Queues == SchedulerQueues \cup {"scholarships", "emails:send"}

\* No job is stored under this id.
NoJob == [state |-> "none"]

\* "for" is the kind of mail or the schedule the job carries out, "done"
\* whether some run of it did so.
NewJob(queue, name, attempts, for) ==
    [state |-> "waiting", queue |-> queue, name |-> name, left |-> attempts,
     stalls |-> 0, for |-> for, done |-> FALSE]

\* Every call may be left unanswered, MaxRedisFaults times over the run.
RedisCall(ok) ==
    IF ok THEN UNCHANGED redisFaults
          ELSE redisFaults < MaxRedisFaults /\ redisFaults' = redisFaults + 1

----------------------------------------------------------------------------
(* createQueue, addJobs *)

\* The handle there is, whatever its state, or a new one
CreateQueue(queue) ==
    handle' = [handle EXCEPT ![queue] = IF @ = "absent" THEN "open" ELSE @]

\* queue.add and queue.addBulk
AddJob(id, job, ok) ==
    /\ CreateQueue(job.queue)
    /\ IF handle'[job.queue] = "closed" THEN ~ok /\ UNCHANGED redisFaults
                                        ELSE RedisCall(ok)
    /\ stored' = IF ok /\ stored[id] = NoJob THEN [stored EXCEPT ![id] = job]
                                             ELSE stored
    /\ UNCHANGED handlers

----------------------------------------------------------------------------
(* The workers of addProcessor *)

Becomes(id, state) == stored' = [stored EXCEPT ![id].state = state]

\* A handle with processors takes the jobs of its queue under any name.
TakeJob(id) ==
    LET job == stored[id]
    IN  /\ job.state = "waiting"
        /\ handle[job.queue] = "open"
        /\ handlers[job.queue] # {}
        /\ Becomes(id, IF job.name \in handlers[job.queue] THEN "active" ELSE "failed")
        /\ UNCHANGED <<handle, handlers, redisFaults>>

\* The outcome of a run is recorded unless Redis is away or the handle is gone.
Records(id, recorded) ==
    IF handle[stored[id].queue] \in {"open", "closing"}
    THEN RedisCall(recorded)
    ELSE ~recorded /\ UNCHANGED redisFaults

Ended(job, ok, done, left) ==
    [job EXCEPT !.done = @ \/ done,
                !.left = IF ok THEN @ ELSE left,
                !.state = IF ok THEN "completed"
                          ELSE IF left > 0 THEN "waiting" ELSE "failed"]

\* mutant: a failed attempt is not counted
EndRunUncounted(id, ok, done) ==
    LET job == stored[id]
    IN  /\ job.state = "active"
        /\ \E recorded \in BOOLEAN :
              /\ Records(id, recorded)
              /\ stored' = [stored EXCEPT ![id] =
                    IF recorded THEN Ended(job, ok, done, job.left)
                    ELSE [job EXCEPT !.done = @ \/ done, !.state = "stalled"]]
        /\ UNCHANGED <<handle, handlers>>

\* The processor is through, and "done" says whether it did its work.  A job
\* whose outcome is not recorded stays active until it counts as stalled.
EndRun(id, ok, done) ==
    LET job == stored[id]
    IN  /\ job.state = "active"
        /\ \E recorded \in BOOLEAN :
              /\ Records(id, recorded)
              /\ stored' = [stored EXCEPT ![id] =
                    IF recorded THEN Ended(job, ok, done, job.left - 1)
                    ELSE [job EXCEPT !.done = @ \/ done, !.state = "stalled"]]
        /\ UNCHANGED <<handle, handlers>>

\* The stalled check of a handle with processors
RecoverStalled(id) ==
    LET job == stored[id]
    IN  /\ job.state = "stalled"
        /\ handle[job.queue] = "open"
        /\ handlers[job.queue] # {}
        /\ stored' = [stored EXCEPT ![id] =
              [job EXCEPT !.stalls = @ + 1,
                          !.state = IF job.stalls < MaxStalls THEN "waiting" ELSE "failed"]]
        /\ UNCHANGED <<handle, handlers, redisFaults>>

----------------------------------------------------------------------------
(* closeQueue, and the end of the process *)

ActiveIn(queue) == {id \in JobIds : /\ stored[id].state = "active"
                                    /\ stored[id].queue = queue}

\* queue.close(): no job is taken any more.  A second call waits for the first.
Closing(queues) ==
    handle' = [q \in Queues |-> IF q \in queues /\ handle[q] = "open"
                                THEN "closing" ELSE handle[q]]

\* queue.close() returns once the jobs it ran are through; without Redis it
\* does not wait for them, and may throw.
FinishClose(queue, becomes, thrown) ==
    /\ handle[queue] = "closing"
    /\ \E ok \in BOOLEAN :
          /\ RedisCall(ok)
          /\ ok => ~thrown /\ ActiveIn(queue) = {}
    /\ handle' = [handle EXCEPT ![queue] = becomes]
    /\ handlers' = [handlers EXCEPT ![queue] = {}]
    /\ UNCHANGED stored

\* Nothing of a process that is gone is left but what Redis holds.
LeaveQueues ==
    /\ stored' = [id \in JobIds |-> IF stored[id].state = "active"
                                   THEN [stored[id] EXCEPT !.state = "stalled"]
                                   ELSE stored[id]]
    /\ handle' = [q \in Queues |-> "absent"]
    /\ handlers' = [q \in Queues |-> {}]
    /\ UNCHANGED redisFaults
=============================================================================
