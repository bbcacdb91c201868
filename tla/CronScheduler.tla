--------------------------- MODULE CronScheduler ---------------------------
(***************************************************************************)
(* The cron scheduler (src/src/cron/): the tables cron_jobs and cron_runs  *)
(* in SQLite, the polling loop of the daemon that runs the jobs that are   *)
(* due, and the tools and CLI calls that change the same rows meanwhile.   *)
(*                                                                         *)
(* Every store call opens its own connection, so a call of several SQL     *)
(* statements outside a transaction is several actions: update_job reads   *)
(* the row in one and writes all of it back in another.  The scheduler     *)
(* works on copies of the rows it polled; a task carries its copy.         *)
(*                                                                         *)
(* A job is abstracted to its schedule, flags, next run and last status;   *)
(* what it executes, its retries and its delivery to an outcome.           *)
(***************************************************************************)
EXTENDS Integers, FiniteSets

CONSTANTS
  JobId,          \* identifiers of jobs; a UUID is never used twice
  NewJobs,        \* [schedule, delete_after_run] of the jobs that can be added
  Editors,        \* callers of update_job (CLI, tools, gateway)
  Patches,        \* what they change: functions from field names to new values
  Runners,        \* callers of the cron_run tool
  Timed,          \* jobs whose execution always ends: a command, killed after 120 s, that
                  \* delivers its output nowhere
  MaxTasks,       \* scheduler.max_tasks
  MaxConcurrent,  \* scheduler.max_concurrent
  Threshold,      \* scheduler.circuit_breaker_threshold; 0 disables the breaker
  MaxHistory,     \* cron.max_run_history
  MaxTime,        \* bound of the model: seconds that pass
  MaxRows,        \* bound of the model: rows of cron_runs ever inserted
  MaxCrashes      \* bound of the model: deaths of the daemon

Time == 0 .. MaxTime
\* Schedule::At, Every and Cron; a cron expression fires at the multiples of t.  An
\* expression with a year names no time after last, an interval none after the end of the
\* calendar; 0 stands for a last time that is out of reach.
Schedule == [kind : {"at", "every", "cron"}, t : Nat \ {0}, last : Nat]

ASSUME NewJobsAssumption == NewJobs \subseteq [schedule : Schedule, delete_after_run : BOOLEAN]
\* CronJobPatch: each field of a job that a caller may set.
ASSUME PatchesAssumption ==
  \A p \in Patches :
    /\ "enabled" \in DOMAIN p => p["enabled"] \in BOOLEAN
    /\ "schedule" \in DOMAIN p => p["schedule"] \in Schedule
    /\ "delete_after_run" \in DOMAIN p => p["delete_after_run"] \in BOOLEAN
ASSUME CronLimitsAssumption ==
  /\ MaxTasks \in Nat \ {0}
  /\ MaxConcurrent \in Nat \ {0}
  /\ Threshold \in Nat
  /\ MaxHistory \in Nat \ {0}
ASSUME TimedAssumption == Timed \subseteq JobId
ASSUME CronBoundsAssumption == MaxTime \in Nat /\ MaxRows \in Nat /\ MaxCrashes \in Nat

VARIABLES
  job,       \* the row of each job in cron_jobs
  rows,      \* the rows of cron_runs
  lastRow,   \* the last identifier of cron_runs handed out
  up,        \* whether the daemon runs
  failures,  \* JobCircuitBreaker.consecutive_failures
  task,      \* the job's place in the batch being processed
  edit,      \* the row each update_job call has read, patched and not yet written
  manual,    \* the cron_run calls that are executing a job
  now,       \* wall clock, seconds
  crashes,   \* deaths of the daemon so far
  fired      \* history: next_run of the copy each job last started from; a run that the
             \* daemon's death cuts off does not count

vars == <<job, rows, lastRow, up, failures, task, edit, manual, now, crashes, fired>>

-----------------------------------------------------------------------------
Never == -1
NoRow == 0     \* no row of cron_runs: insert_running_run failed, or not yet called

JobRow == [exists : {"not yet", "yes", "removed"}, enabled : BOOLEAN, schedule : Schedule,
           delete_after_run : BOOLEAN, next_run : Nat, last_status : {"none", "ok", "error"}]
Unborn == [exists |-> "not yet", enabled |-> FALSE, schedule |-> [kind |-> "every", t |-> 1, last |-> 0],
           delete_after_run |-> FALSE, next_run |-> 0, last_status |-> "none"]
Removed == [Unborn EXCEPT !.exists = "removed"]

RunRow == [id : 1 .. MaxRows, job : JobId, started_at : Time,
           status : {"running", "ok", "error", "interrupted"}]

Stage == {"idle", "queued", "executing", "recorded", "disabling", "done"}
InFlightStage == {"executing", "recorded", "disabling"}
Task == [stage : Stage, copy : JobRow, row : 0 .. MaxRows, started_at : Time, success : BOOLEAN]
IdleTask == [stage |-> "idle", copy |-> Unborn, row |-> NoRow, started_at |-> 0, success |-> FALSE]

NoEdit == [job |-> "none"]
NoManual == [job |-> "none"]

-----------------------------------------------------------------------------
Exists(j) == job[j].exists = "yes"

\* next_run_for_schedule, from the current time.
NextRun(s) ==
  IF s.kind = "at" THEN s.t
  ELSE IF s.kind = "every" THEN now + s.t
  ELSE (now \div s.t + 1) * s.t

\* Whether next_run_for_schedule returns it: it fails when nothing is left to name.
HasNext(s) == s.kind = "at" \/ s.last = 0 \/ NextRun(s) <= s.last

\* validate_schedule and the first next_run_for_schedule: a time that has passed and a
\* schedule that has run out are refused.
Valid(s) == (s.kind = "at" => s.t > now) /\ HasNext(s)

IsOneShot(rec) == rec.delete_after_run /\ rec.schedule.kind = "at"
IsDue(j) == Exists(j) /\ job[j].enabled /\ job[j].next_run <= now
Due == {j \in JobId : IsDue(j)}

\* Mutant: ORDER BY next_run DESC.
DueBatches_LatestFirst ==
  {Q \in SUBSET Due :
     /\ Cardinality(Q) <= MaxTasks
     /\ Q # Due => Cardinality(Q) = MaxTasks
     /\ \A j \in Q, k \in Due \ Q : job[j].next_run >= job[k].next_run}

\* due_jobs: the MaxTasks jobs that have been due longest, ties in any order.
DueBatches ==
  {Q \in SUBSET Due :
     /\ Cardinality(Q) <= MaxTasks
     /\ Q # Due => Cardinality(Q) = MaxTasks
     /\ \A j \in Q, k \in Due \ Q : job[j].next_run <= job[k].next_run}

IsOpen(j) == Threshold > 0 /\ failures[j] >= Threshold
InFlight == {j \in JobId : task[j].stage \in InFlightStage}

\* Mutant: the loop polls again while jobs are in flight.
BatchOver_Always == TRUE

\* process_due_jobs has returned: nothing of the last batch is queued or in flight.
BatchOver == \A j \in JobId : task[j].stage \in {"idle", "done"}

-----------------------------------------------------------------------------
(* Statements on cron_runs.                                                *)

Newer(q, r) ==
  \/ q.started_at > r.started_at
  \/ q.started_at = r.started_at /\ q.id > r.id

\* Mutant: LIMIT is one too high.
Newest_OffByOne(rs) == {r \in rs : Cardinality({q \in rs : Newer(q, r)}) <= MaxHistory}

\* The rows ORDER BY started_at DESC, id DESC LIMIT max_run_history keeps.
Newest(rs) == {r \in rs : Cardinality({q \in rs : Newer(q, r)}) < MaxHistory}

RowsOf(rs, j) == {r \in rs : r.job = j}
FinishedRowsOf(rs, j) == {r \in rs : r.job = j /\ r.status # "running"}
Status(success) == IF success THEN "ok" ELSE "error"

\* record_run: insert a finished row and prune every older row of the job.
RecordRun(j, started, success) ==
  IF Exists(j)
  THEN LET rs == rows \cup {[id |-> lastRow + 1, job |-> j, started_at |-> started,
                             status |-> Status(success)]}
       IN /\ rows' = (rs \ RowsOf(rs, j)) \cup Newest(RowsOf(rs, j))
          /\ lastRow' = lastRow + 1
  ELSE UNCHANGED <<rows, lastRow>>      \* the foreign key refuses the row

\* complete_run: give the sentinel its outcome and prune the job's finished rows.
CompleteRun(id, j, success) ==
  LET rs == {IF r.id = id THEN [r EXCEPT !.status = Status(success)] ELSE r : r \in rows}
  IN /\ rows' = (rs \ FinishedRowsOf(rs, j)) \cup Newest(FinishedRowsOf(rs, j))
     /\ UNCHANGED lastRow

\* Mutant: the sweep finds nothing.
Swept_Nothing(rs) == rs

\* sweep_interrupted_runs and mark_run_interrupted.
Swept(rs) ==
  {IF r.status = "running" THEN [r EXCEPT !.status = "interrupted"] ELSE r : r \in rs}

Init ==
  /\ job = [j \in JobId |-> Unborn]
  /\ rows = {}
  /\ lastRow = 0
  /\ up = FALSE
  /\ failures = [j \in JobId |-> 0]
  /\ task = [j \in JobId |-> IdleTask]
  /\ edit = [e \in Editors |-> NoEdit]
  /\ manual = [m \in Runners |-> NoManual]
  /\ now = 0
  /\ crashes = 0
  /\ fired = [j \in JobId |-> Never]

-----------------------------------------------------------------------------
(* The polling loop.                                                       *)

\* run: sweep what the last process left behind, begin with an empty breaker.
Startup ==
  /\ ~up
  /\ up' = TRUE
  /\ rows' = Swept(rows)
  /\ failures' = [j \in JobId |-> 0]
  /\ UNCHANGED <<job, lastRow, task, edit, manual, now, crashes, fired>>

\* A tick: copy the due rows and queue the ones whose breaker is closed.
Poll ==
  /\ up
  /\ BatchOver
  /\ \E Q \in DueBatches :
       task' = [j \in JobId |-> IF j \in Q /\ ~IsOpen(j)
                                THEN [IdleTask EXCEPT !.stage = "queued", !.copy = job[j]]
                                ELSE IdleTask]
  /\ UNCHANGED <<job, rows, lastRow, up, failures, edit, manual, now, crashes, fired>>

\* execute_and_persist_job up to the execution: insert the "running" sentinel.
StartJob(j) ==
  /\ task[j].stage = "queued"
  /\ \A k \in JobId : task[k].stage = "queued" => task[j].copy.next_run <= task[k].copy.next_run
  /\ Cardinality(InFlight) < MaxConcurrent
  /\ lastRow < MaxRows
  /\ fired' = [fired EXCEPT ![j] = task[j].copy.next_run]
  /\ \/ /\ Exists(j)
        /\ rows' = rows \cup {[id |-> lastRow + 1, job |-> j, started_at |-> now,
                               status |-> "running"]}
        /\ lastRow' = lastRow + 1
        /\ task' = [task EXCEPT ![j].stage = "executing", ![j].started_at = now,
                                ![j].row = lastRow + 1]
     \/ /\ ~Exists(j)                   \* the foreign key refuses the sentinel
        /\ task' = [task EXCEPT ![j].stage = "executing", ![j].started_at = now]
        /\ UNCHANGED <<rows, lastRow>>
  /\ UNCHANGED <<job, up, failures, edit, manual, now, crashes>>

\* execute_job_with_retry has returned: record its outcome.
FinishJob(j, success) ==
  /\ task[j].stage = "executing"
  /\ \/ task[j].row # NoRow /\ CompleteRun(task[j].row, j, success)
     \/ task[j].row = NoRow /\ RecordRun(j, task[j].started_at, success)
  /\ task' = [task EXCEPT ![j].stage = "recorded", ![j].success = success]
  /\ UNCHANGED <<job, up, failures, edit, manual, now, crashes, fired>>

\* The result reaches process_due_jobs, which counts it in the breaker.
Count(j, success) ==
  failures' = [failures EXCEPT ![j] = IF success THEN 0 ELSE @ + 1]

\* remove_job; the rows of cron_runs go with the job (ON DELETE CASCADE).
Remove(j) ==
  /\ job' = [job EXCEPT ![j] = IF Exists(j) THEN Removed ELSE @]
  /\ rows' = rows \ RowsOf(rows, j)

\* persist_job_result_no_record, for a one-shot job that succeeded.
RemoveOneShot(j) ==
  /\ task[j].stage = "recorded"
  /\ task[j].success
  /\ IsOneShot(task[j].copy)
  /\ Remove(j)
  /\ task' = [task EXCEPT ![j].stage = "done"]
  /\ Count(j, TRUE)
  /\ UNCHANGED <<lastRow, up, edit, manual, now, crashes, fired>>

\* Mutant: the one-shot job that failed is not disabled.
FailOneShot_LeavesEnabled(j) ==
  /\ task[j].stage = "recorded"
  /\ IsOneShot(task[j].copy)
  /\ job' = [job EXCEPT ![j].last_status = IF Exists(j) THEN "error" ELSE @]
  /\ task' = [task EXCEPT ![j].stage = "done", ![j].success = FALSE]
  /\ Count(j, FALSE)
  /\ UNCHANGED <<rows, lastRow, up, edit, manual, now, crashes, fired>>

\* The same for one that failed, or whose delivery failed: record_last_run, then the
\* read of update_job, which fails when the job is gone.
FailOneShot(j) ==
  /\ task[j].stage = "recorded"
  /\ IsOneShot(task[j].copy)
  /\ \/ /\ Exists(j)
        /\ job' = [job EXCEPT ![j].last_status = "error"]
        /\ task' = [task EXCEPT ![j].stage = "disabling", ![j].success = FALSE,
                                ![j].copy = [job[j] EXCEPT !.enabled = FALSE]]
        /\ UNCHANGED failures
     \/ /\ ~Exists(j)
        /\ task' = [task EXCEPT ![j].stage = "done", ![j].success = FALSE]
        /\ Count(j, FALSE)
        /\ UNCHANGED job
  /\ UNCHANGED <<rows, lastRow, up, edit, manual, now, crashes, fired>>

\* The write of update_job: every field of the copy but the last status.
WriteBack(j, rec) ==
  job' = [job EXCEPT ![j] = IF Exists(j) THEN [rec EXCEPT !.last_status = job[j].last_status]
                                         ELSE @]

DisableOneShot(j) ==
  /\ task[j].stage = "disabling"
  /\ WriteBack(j, task[j].copy)
  /\ task' = [task EXCEPT ![j].stage = "done"]
  /\ Count(j, FALSE)
  /\ UNCHANGED <<rows, lastRow, up, edit, manual, now, crashes, fired>>

\* reschedule_after_run, for every other job: the next run follows from the schedule
\* of the copy.  One without a next run is an error that is only logged: the row stays as
\* it is, last status included.  A delivery that fails turns the outcome into an error.
Reschedule(j, delivered) ==
  LET success == task[j].success /\ delivered
  IN /\ task[j].stage = "recorded"
     /\ ~IsOneShot(task[j].copy)
     /\ job' = IF Exists(j) /\ HasNext(task[j].copy.schedule)
               THEN [job EXCEPT ![j].next_run = NextRun(task[j].copy.schedule),
                                ![j].last_status = Status(success)]
               ELSE job
     /\ task' = [task EXCEPT ![j].stage = "done", ![j].success = success]
     /\ Count(j, success)
     /\ UNCHANGED <<rows, lastRow, up, edit, manual, now, crashes, fired>>

\* The daemon dies: its batch and breaker are lost, the database stays.
Crash ==
  /\ up
  /\ crashes < MaxCrashes
  /\ crashes' = crashes + 1
  /\ up' = FALSE
  /\ task' = [j \in JobId |-> IdleTask]
  /\ failures' = [j \in JobId |-> 0]
  /\ fired' = [j \in JobId |-> IF j \in InFlight THEN Never ELSE fired[j]]
  /\ UNCHANGED <<job, rows, lastRow, edit, manual, now>>

-----------------------------------------------------------------------------
(* Everybody else: tools, CLI and gateway, in this or another process.     *)

\* add_shell_job, add_agent_job; the first always, the second by default, deletes
\* exactly the one-shot jobs after their run.
AddJob(j, new) ==
  /\ job[j].exists = "not yet"
  /\ Valid(new.schedule)
  /\ job' = [job EXCEPT ![j] = [exists |-> "yes", enabled |-> TRUE, schedule |-> new.schedule,
               delete_after_run |-> new.delete_after_run,
               next_run |-> NextRun(new.schedule), last_status |-> "none"]]
  /\ UNCHANGED <<rows, lastRow, up, failures, task, edit, manual, now, crashes, fired>>

RemoveJob(j) ==
  /\ Exists(j)
  /\ Remove(j)
  /\ UNCHANGED <<lastRow, up, failures, task, edit, manual, now, crashes, fired>>

\* update_job before its write: the row with the patch applied; a new schedule is
\* validated and moves the next run.
Patched(rec, p) ==
  [rec EXCEPT !.enabled = IF "enabled" \in DOMAIN p THEN p["enabled"] ELSE @,
              !.schedule = IF "schedule" \in DOMAIN p THEN p["schedule"] ELSE @,
              !.delete_after_run = IF "delete_after_run" \in DOMAIN p
                                   THEN p["delete_after_run"] ELSE @,
              !.next_run = IF "schedule" \in DOMAIN p THEN NextRun(p["schedule"]) ELSE @]

ReadForUpdate(e, j, p) ==
  /\ edit[e] = NoEdit
  /\ Exists(j)
  /\ "schedule" \in DOMAIN p => Valid(p.schedule)
  /\ edit' = [edit EXCEPT ![e] = [job |-> "one", id |-> j, row |-> Patched(job[j], p)]]
  /\ UNCHANGED <<job, rows, lastRow, up, failures, task, manual, now, crashes, fired>>

WriteUpdate(e) ==
  /\ edit[e] # NoEdit
  /\ WriteBack(edit[e].id, edit[e].row)
  /\ edit' = [edit EXCEPT ![e] = NoEdit]
  /\ UNCHANGED <<rows, lastRow, up, failures, task, manual, now, crashes, fired>>

\* cron_run: executes a copy of the row without a sentinel, paused or not.
StartManual(m, j) ==
  /\ manual[m] = NoManual
  /\ Exists(j)
  /\ manual' = [manual EXCEPT ![m] = [job |-> "one", id |-> j, started_at |-> now]]
  /\ UNCHANGED <<job, rows, lastRow, up, failures, task, edit, now, crashes, fired>>

\* Its outcome is recorded (record_run, record_last_run); the next run stays.
FinishManual(m, success) ==
  /\ manual[m] # NoManual
  /\ lastRow < MaxRows
  /\ LET j == manual[m].id
     IN /\ RecordRun(j, manual[m].started_at, success)
        /\ job' = [job EXCEPT ![j].last_status = IF Exists(j) THEN Status(success) ELSE @]
  /\ manual' = [manual EXCEPT ![m] = NoManual]
  /\ UNCHANGED <<up, failures, task, edit, now, crashes, fired>>

Tick ==
  /\ now < MaxTime
  /\ now' = now + 1
  /\ UNCHANGED <<job, rows, lastRow, up, failures, task, edit, manual, crashes, fired>>

Settle(j) ==
  \/ RemoveOneShot(j)
  \/ FailOneShot(j)
  \/ DisableOneShot(j)
  \/ \E delivered \in BOOLEAN : Reschedule(j, delivered)

Daemon ==
  \/ Startup
  \/ Poll
  \/ \E j \in JobId :
       \/ StartJob(j)
       \/ \E success \in BOOLEAN : FinishJob(j, success)
       \/ Settle(j)

Callers ==
  \/ \E j \in JobId : RemoveJob(j) \/ \E new \in NewJobs : AddJob(j, new)
  \/ \E e \in Editors : WriteUpdate(e) \/ \E j \in JobId, p \in Patches : ReadForUpdate(e, j, p)
  \/ \E m \in Runners :
       \/ \E j \in JobId : StartManual(m, j)
       \/ \E success \in BOOLEAN : FinishManual(m, success)

Next == Daemon \/ Callers \/ Crash \/ Tick

Spec == Init /\ [][Next]_vars

(* The loop is awaited by the daemon and the supervisor starts a daemon that died.  Only
   the jobs of Timed are known to end: nothing limits the time of an agent's turn or of a
   delivery. *)
FairSpec ==
  /\ Spec
  /\ WF_vars(Startup)
  /\ WF_vars(Poll)
  /\ \A j \in JobId : WF_vars(StartJob(j))
  /\ \A j \in Timed :
       /\ WF_vars(\E success \in BOOLEAN : FinishJob(j, success))
       /\ WF_vars(Settle(j))

-----------------------------------------------------------------------------
(* The tables, the loop's tasks and the callers' copies stay within their types. *)
CronTypeOK ==
  /\ job \in [JobId -> JobRow]
  /\ rows \subseteq RunRow
  /\ lastRow \in 0 .. MaxRows
  /\ \A r \in rows : r.id <= lastRow
  /\ \A r, q \in rows : r.id = q.id => r = q
  /\ up \in BOOLEAN
  /\ failures \in [JobId -> Nat]
  /\ task \in [JobId -> Task]
  /\ edit \in [Editors -> {NoEdit} \cup [job : {"one"}, id : JobId, row : JobRow]]
  /\ manual \in [Runners -> {NoManual} \cup [job : {"one"}, id : JobId, started_at : Time]]
  /\ now \in Time
  /\ crashes \in 0 .. MaxCrashes
  /\ fired \in [JobId -> Nat \cup {Never}]

(* While the daemon runs, the rows of status "running" are exactly those of the jobs it
   is executing: a crash is noticed for each of them and a sweep accuses no other
   (insert_running_run, complete_run, sweep_and_detect_on_startup). *)
SentinelsExact ==
  up => {r.id : r \in {q \in rows : q.status = "running"}} =
        {task[j].row : j \in {k \in JobId : /\ Exists(k)
                                            /\ task[k].stage = "executing"
                                            /\ task[k].row # NoRow}}

(* A job keeps no more than max_run_history rows that ended "ok" or
   "error", whatever crashes, removals and manual runs came between (complete_run,
   record_run). *)
OutcomesBounded ==
  \A j \in JobId :
    Cardinality({r \in rows : r.job = j /\ r.status \in {"ok", "error"}}) <= MaxHistory

(* A job is started at most once for each of its due times, however long the execution
   takes, whatever is added or removed meanwhile and across restarts of the daemon; only a
   run that its death cut off is repeated (due_jobs reads what reschedule_after_run and
   the disabling of a one-shot job have written).  Two jobs are due for ever and started
   at every poll, and are not spoken of: a one-shot job that is kept after its run, and
   one whose schedule names no further time. *)
OccurrenceOnce ==
  [][\A j \in JobId :
       /\ task[j].stage = "queued" /\ task'[j].stage = "executing"
       /\ task[j].copy.schedule.kind = "at" => task[j].copy.delete_after_run
       /\ HasNext(task[j].copy.schedule)
       => task[j].copy.next_run > fired[j]]_vars

(* A one-shot job that failed is disabled once its batch has settled it
   (persist_job_result_no_record). *)
FailedStaysDisabled ==
  \A j \in JobId :
    Exists(j) /\ IsOneShot(job[j]) /\ job[j].last_status = "error" /\ task[j].stage = "done"
      => ~job[j].enabled

\* A job that stays due whatever the loop does with it: skipped by its breaker, kept
\* after its only run, or out of further times.
Stuck(j) ==
  /\ IsDue(j)
  /\ \/ IsOpen(j)
     \/ job[j].schedule.kind = "at" /\ ~job[j].delete_after_run
     \/ ~HasNext(job[j].schedule)

\* Jobs that stay due and are not behind j take the whole LIMIT of due_jobs.
Crowded(j) ==
  Cardinality({k \in JobId \ {j} : Stuck(k) /\ job[k].next_run <= job[j].next_run}) >= MaxTasks

(* A job that is due and not skipped by its breaker is executed or stops being due,
   although the batch is cut to max_tasks and a failing job goes on being read: unless
   max_tasks jobs that stay due are ahead of it, or some job of the loop that has no time
   limit never ends (due_jobs, process_due_jobs). *)
DueJobsRun ==
  \/ \E k \in JobId \ Timed : <>[](task[k].stage \in InFlightStage)
  \/ \A j \in JobId :
       (IsDue(j) /\ ~IsOpen(j)) ~>
         (task[j].stage \in InFlightStage \/ ~IsDue(j) \/ Crowded(j) \/ lastRow = MaxRows)
=============================================================================
