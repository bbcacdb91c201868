------------------------- MODULE CronSchedulerProofs --------------------------
(* Proofs about CronScheduler, for any jobs, schedules, limits and numbers  *)
(* of editors, manual runs, crashes and seconds.                            *)
EXTENDS CronScheduler, FiniteSetTheorems, WellFoundedInduction, TLAPS

(* A time to run is a time, and that of a recurring job is still to come.   *)
LEMMA NextRunIs ==
  ASSUME NEW s \in Schedule, now \in Nat
  PROVE  /\ NextRun(s) \in Nat
         /\ s.kind # "at" => NextRun(s) > now
<1>1. s.t \in Nat \ {0} /\ s.kind \in {"at", "every", "cron"}
  BY DEF Schedule
<1>2. \A n \in Nat, t \in Nat \ {0} : (n \div t + 1) * t \in Nat /\ (n \div t + 1) * t > n
  <2> SUFFICES ASSUME NEW n \in Nat, NEW t \in Nat \ {0}
               PROVE  (n \div t + 1) * t \in Nat /\ (n \div t + 1) * t > n
    OBVIOUS
  <2>1. n = t * (n \div t) + (n % t)
    OBVIOUS
  <2>2. n % t \in 0 .. t - 1
    OBVIOUS
  <2>3. n \div t \in Nat
    OBVIOUS
  <2>4. ASSUME NEW d \in Nat, NEW m \in 0 .. t - 1, n = t * d + m
        PROVE  (d + 1) * t \in Nat /\ (d + 1) * t > n
    <3>1. t * d \in Nat
      OBVIOUS
    <3>2. (d + 1) * t = t * d + t
      OBVIOUS
    <3>3. QED  BY <2>4, <3>1, <3>2
  <2>5. QED  BY <2>1, <2>2, <2>3, <2>4
<1>3. CASE s.kind = "at"
  BY <1>1, <1>3 DEF NextRun
<1>4. CASE s.kind = "every"
  BY <1>1, <1>4 DEF NextRun
<1>5. CASE s.kind = "cron"
  <2>1. NextRun(s) = (now \div s.t + 1) * s.t
    BY <1>5 DEF NextRun
  <2>2. QED  BY <1>1, <1>2, <1>5, <2>1
<1>6. QED
  BY <1>1, <1>3, <1>4, <1>5

(* As time passes the next run moves on, so a schedule that has run out stays so. *)
LEMMA HasNextBefore ==
  ASSUME NEW s \in Schedule, now \in Nat, now' = now + 1
  PROVE  HasNext(s)' => HasNext(s)
<1>1. s.t \in Nat \ {0} /\ s.last \in Nat /\ s.kind \in {"at", "every", "cron"}
  BY DEF Schedule
<1>2. \A n \in Nat, t \in Nat \ {0} : (n \div t + 1) * t <= ((n + 1) \div t + 1) * t
  <2> SUFFICES ASSUME NEW n \in Nat, NEW t \in Nat \ {0}
               PROVE  (n \div t + 1) * t <= ((n + 1) \div t + 1) * t
    OBVIOUS
  <2>1. n = t * (n \div t) + (n % t) /\ n % t \in 0 .. t - 1 /\ n \div t \in Nat
    OBVIOUS
  <2>2. n + 1 = t * ((n + 1) \div t) + ((n + 1) % t) /\ (n + 1) % t \in 0 .. t - 1
        /\ (n + 1) \div t \in Nat
    OBVIOUS
  <2>3. ASSUME NEW a \in Nat, NEW b \in Nat, NEW x \in 0 .. t - 1, NEW y \in 0 .. t - 1,
               n = t * a + x, n + 1 = t * b + y
        PROVE  (a + 1) * t <= (b + 1) * t
    <3>1. t * a \in Nat /\ t * b \in Nat /\ (a + 1) * t = t * a + t /\ (b + 1) * t = t * b + t
      OBVIOUS
    <3>2. CASE a <= b
      <4>1. PICK d \in Nat : b = a + d
        BY <3>2
      <4>2. t * b = t * a + t * d /\ t * d \in Nat
        BY <4>1
      <4>3. QED  BY <3>1, <4>2
    <3>3. CASE b < a
      <4>1. PICK d \in Nat : a = b + 1 + d
        <5>1. a - b - 1 \in Nat /\ a = b + 1 + (a - b - 1)
          BY <3>3
        <5>2. QED  BY <5>1
      <4>2. t * a = t * b + t + t * d /\ t * d \in Nat
        BY <4>1
      <4>3. QED  BY <2>3, <3>1, <4>2
    <3>4. QED  BY <3>2, <3>3
  <2>4. QED  BY <2>1, <2>2, <2>3
<1>3. CASE s.kind = "at"
  BY <1>3 DEF HasNext
<1>4. CASE s.kind = "every"
  <2>1. NextRun(s) = now + s.t /\ NextRun(s)' = now' + s.t
    BY <1>4 DEF NextRun
  <2>2. NextRun(s) \in Nat /\ NextRun(s)' \in Nat /\ NextRun(s) <= NextRun(s)'
    BY <1>1, <2>1
  <2>3. QED  BY <1>1, <2>2 DEF HasNext
<1>5. CASE s.kind = "cron"
  <2>1. NextRun(s) = (now \div s.t + 1) * s.t /\ NextRun(s)' = ((now + 1) \div s.t + 1) * s.t
    BY <1>5 DEF NextRun
  <2>2. NextRun(s) <= NextRun(s)'
    BY <1>1, <1>2, <2>1
  <2>3. NextRun(s) \in Nat /\ NextRun(s)' \in Nat
    <3>1. now \div s.t \in Nat /\ (now + 1) \div s.t \in Nat
      BY <1>1
    <3>2. QED  BY <1>1, <2>1, <3>1
  <2>4. QED  BY <1>1, <2>2, <2>3 DEF HasNext
<1>6. QED
  BY <1>1, <1>3, <1>4, <1>5

(* What update_job writes is a row.                                         *)
LEMMA PatchedIs ==
  ASSUME NEW rec \in JobRow, NEW p \in Patches, now \in Nat
  PROVE  Patched(rec, p) \in JobRow /\ Patched(rec, p).exists = rec.exists
<1>1. "schedule" \in DOMAIN p => p["schedule"] \in Schedule /\ NextRun(p["schedule"]) \in Nat
  BY PatchesAssumption, NextRunIs
<1>2. QED
  BY <1>1, PatchesAssumption DEF Patched, JobRow

(* The finished rows a job keeps are some of them.                          *)
LEMMA NewestAre == ASSUME NEW rs PROVE Newest(rs) \subseteq rs
  BY DEF Newest

-----------------------------------------------------------------------------
(* The rows of cron_runs have their types, identifiers that were handed out *)
(* and no identifier twice.                                                 *)
RowsOK(rs) ==
  /\ rs \subseteq RunRow
  /\ \A r \in rs : r.id <= lastRow
  /\ \A r, q \in rs : r.id = q.id => r = q

(* Giving rows another status keeps that.                                   *)
LEMMA RowsWithStatus ==
  ASSUME RowsOK(rows)
  PROVE  /\ RowsOK(Swept(rows))
         /\ \A id, success :
              RowsOK({IF r.id = id THEN [r EXCEPT !.status = Status(success)] ELSE r : r \in rows})
<1>1. RowsOK(Swept(rows))
  BY DEF RowsOK, Swept, RunRow
<1>2. ASSUME NEW id, NEW success
      PROVE  RowsOK({IF r.id = id THEN [r EXCEPT !.status = Status(success)] ELSE r : r \in rows})
  BY DEF RowsOK, RunRow, Status
<1>3. QED
  BY <1>1, <1>2

(* So does removing some.                                                   *)
LEMMA RowsFewer == ASSUME NEW rs, NEW qs, RowsOK(rs), qs \subseteq rs PROVE RowsOK(qs)
  BY DEF RowsOK

(* What complete_run leaves.                                                *)
LEMMA CompleteRunRows ==
  ASSUME RowsOK(rows), lastRow \in Nat, NEW id, NEW j, NEW success, CompleteRun(id, j, success)
  PROVE  RowsOK(rows') /\ lastRow' = lastRow
<1> DEFINE rs == {IF r.id = id THEN [r EXCEPT !.status = Status(success)] ELSE r : r \in rows}
<1>1. RowsOK(rs)
  BY RowsWithStatus
<1>2. rows' \subseteq rs
  <2>1. Newest(FinishedRowsOf(rs, j)) \subseteq rs
    BY NewestAre DEF FinishedRowsOf
  <2>2. QED  BY <2>1 DEF CompleteRun
<1> HIDE DEF rs
<1>3. QED
  BY <1>1, <1>2, RowsFewer DEF CompleteRun

(* What record_run leaves.                                                  *)
LEMMA RecordRunRows ==
  ASSUME RowsOK(rows), lastRow \in 0 .. MaxRows, NEW j \in JobId, NEW started \in Time,
         NEW success, RecordRun(j, started, success), Exists(j) => lastRow < MaxRows
  PROVE  /\ rows' \subseteq RunRow
         /\ lastRow' \in 0 .. MaxRows
         /\ \A r \in rows' : r.id <= lastRow'
         /\ \A r, q \in rows' : r.id = q.id => r = q
<1>0. MaxRows \in Nat
  BY CronBoundsAssumption
<1> DEFINE new == [id |-> lastRow + 1, job |-> j, started_at |-> started, status |-> Status(success)]
           rs == rows \cup {new}
<1>1. CASE Exists(j)
  <2>1. rows' \subseteq rs /\ lastRow' = lastRow + 1
    BY <1>1, NewestAre DEF RecordRun, RowsOf
  <2>2. new \in RunRow /\ new.id = lastRow + 1
    BY <1>0, <1>1 DEF RunRow, Status
  <2> HIDE DEF new
  <2>3. QED  BY <1>0, <1>1, <2>1, <2>2 DEF RowsOK, RunRow
<1>2. CASE ~Exists(j)
  BY <1>2 DEF RecordRun, RowsOK
<1>3. QED
  BY <1>1, <1>2

-----------------------------------------------------------------------------
(* What the types rest on: a task is one of a job that was added, it lacks  *)
(* a sentinel only when the job is gone, and what is written back is a copy *)
(* of a row that existed.                                                   *)
SeenInv ==
  /\ \A j \in JobId :
       /\ task[j].stage # "idle" => job[j].exists # "not yet"
       /\ task[j].stage = "executing" /\ task[j].row = NoRow => ~Exists(j)
       /\ task[j].stage = "disabling" => task[j].copy.exists = "yes"
  /\ \A e \in Editors : edit[e] # NoEdit => edit[e].row.exists = "yes"

Typed == CronTypeOK /\ SeenInv

(* A row of a job that is not there, and a task that is idle. *)
LEMMA IdleTyped ==
  /\ Unborn \in JobRow /\ Unborn.exists = "not yet"
  /\ Removed \in JobRow /\ Removed.exists = "removed"
  /\ IdleTask \in Task /\ IdleTask.stage = "idle"
<1>1. Unborn \in JobRow /\ Unborn.exists = "not yet"
  BY DEF Unborn, JobRow, Schedule
<1>2. Removed \in JobRow /\ Removed.exists = "removed"
  BY <1>1 DEF Removed, JobRow
<1>3. NoRow \in 0 .. MaxRows /\ 0 \in Time
  BY CronBoundsAssumption DEF NoRow, Time
<1>4. IdleTask \in Task /\ IdleTask.stage = "idle"
  BY <1>1, <1>3 DEF IdleTask, Task, Stage
<1>5. QED
  BY <1>1, <1>2, <1>4

\* The time is a natural number.
LEMMA NowIsNat == ASSUME CronTypeOK PROVE now \in Nat
  BY CronBoundsAssumption DEF CronTypeOK, Time

\* What an edit writes back, into a row that is there, is a row.
LEMMA WriteBackTyped ==
  ASSUME job \in [JobId -> JobRow], NEW j \in JobId, NEW rec \in JobRow, rec.exists = "yes",
         WriteBack(j, rec)
  PROVE  /\ job' \in [JobId -> JobRow]
         /\ \A k \in JobId : job'[k].exists = job[k].exists
  BY DEF WriteBack, JobRow, Exists

(* The steps of the loop. *)
LEMMA LoopTyped == ASSUME Typed, Startup \/ Poll PROVE Typed'
<1> USE DEF Typed, CronTypeOK, SeenInv, Exists
<1>1. CASE Startup
  <2>1. RowsOK(rows')
    BY <1>1, RowsWithStatus DEF Startup, RowsOK
  <2>2. QED  BY <1>1, <2>1 DEF Startup, RowsOK
<1>2. CASE Poll
  <2>1. PICK Q \in DueBatches :
          task' = [j \in JobId |-> IF j \in Q /\ ~IsOpen(j)
                                  THEN [IdleTask EXCEPT !.stage = "queued", !.copy = job[j]]
                                  ELSE IdleTask]
    BY <1>2 DEF Poll
  <2>2. IdleTask \in Task /\ IdleTask.stage = "idle"
    BY IdleTyped
  <2>3. \A rec \in JobRow :
          LET t == [IdleTask EXCEPT !.stage = "queued", !.copy = rec]
          IN t \in Task /\ t.stage = "queued"
    BY <2>2 DEF Task, Stage
  <2>4. \A j \in Q : Exists(j)
    BY <2>1 DEF DueBatches, Due, IsDue
  <2>5. task' \in [JobId -> Task]
    BY <2>1, <2>2, <2>3
  <2>6. \A j \in JobId : /\ task'[j].stage \in {"idle", "queued"}
                         /\ task'[j].stage # "idle" => Exists(j)
    BY <2>1, <2>2, <2>3, <2>4
  <2>7. QED  BY <1>2, <2>5, <2>6 DEF Poll
<1>3. QED
  BY <1>1, <1>2

\* Inserting the sentinel keeps the types.
LEMMA StartJobTyped == ASSUME Typed, NEW j \in JobId, StartJob(j) PROVE Typed'
<1>0. /\ task \in [JobId -> Task] /\ now \in Time /\ lastRow \in Nat /\ lastRow + 1 \in 1 .. MaxRows
      /\ MaxRows \in Nat /\ task[j].stage = "queued" /\ task[j] \in Task
  BY CronBoundsAssumption DEF StartJob, Typed, CronTypeOK
<1>1. fired' \in [JobId -> Nat \cup {Never}]
  BY DEF StartJob, Task, JobRow, Typed, CronTypeOK
<1>2. UNCHANGED <<job, up, failures, edit, manual, now, crashes>>
  BY DEF StartJob
<1>3. /\ task' \in [JobId -> Task]
      /\ \A k \in JobId : k # j => task'[k] = task[k]
      /\ task'[j].stage = "executing"
      /\ Exists(j) => task'[j].row # NoRow
      /\ rows' \subseteq RunRow
      /\ lastRow' \in 0 .. MaxRows
      /\ \A r \in rows' : r.id <= lastRow'
      /\ \A r, q \in rows' : r.id = q.id => r = q
  <2>1. CASE Exists(j)
    <3> DEFINE new == [id |-> lastRow + 1, job |-> j, started_at |-> now, status |-> "running"]
    <3>1. /\ rows' = rows \cup {new}
          /\ lastRow' = lastRow + 1
          /\ task' = [task EXCEPT ![j].stage = "executing", ![j].started_at = now,
                                  ![j].row = lastRow + 1]
      BY <2>1 DEF StartJob
    <3>2. new \in RunRow /\ new.id = lastRow + 1
      BY <1>0 DEF RunRow
    <3>3. task' = [task EXCEPT ![j] = [task[j] EXCEPT !.stage = "executing", !.started_at = now,
                                                      !.row = lastRow + 1]]
      BY <3>1
    <3>4. [task[j] EXCEPT !.stage = "executing", !.started_at = now, !.row = lastRow + 1] \in Task
      <4>1. [task[j] EXCEPT !.stage = "executing", !.started_at = now] \in Task
        BY <1>0 DEF Task, Stage
      <4>2. lastRow + 1 \in 0 .. MaxRows
        BY <1>0
      <4>3. QED  BY <4>1, <4>2 DEF Task
    <3>5. task'[j].stage = "executing" /\ task'[j].row = lastRow + 1 /\ lastRow + 1 # NoRow
      BY <1>0, <3>3 DEF Task, NoRow
    <3>6. RowsOK(rows)
      BY DEF Typed, CronTypeOK, RowsOK
    <3> HIDE DEF new
    <3>7. /\ rows' \subseteq RunRow
          /\ \A r \in rows' : r.id <= lastRow'
          /\ \A r, q \in rows' : r.id = q.id => r = q
      BY <1>0, <3>1, <3>2, <3>6 DEF RowsOK, RunRow
    <3>8. QED  BY <1>0, <3>1, <3>3, <3>4, <3>5, <3>7
  <2>2. CASE ~Exists(j)
    <3>1. /\ UNCHANGED <<rows, lastRow>>
          /\ task' = [task EXCEPT ![j] = [task[j] EXCEPT !.stage = "executing", !.started_at = now]]
      BY <2>2 DEF StartJob
    <3>2. [task[j] EXCEPT !.stage = "executing", !.started_at = now] \in Task
      BY <1>0 DEF Task, Stage
    <3>3. task'[j].stage = "executing"
      BY <1>0, <3>1 DEF Task
    <3>4. QED  BY <1>0, <2>2, <3>1, <3>2, <3>3 DEF Typed, CronTypeOK
  <2>3. QED  BY <2>1, <2>2
<1>4. QED
  BY <1>0, <1>1, <1>2, <1>3 DEF Typed, CronTypeOK, SeenInv, Exists

\* Recording the outcome keeps the types.
LEMMA FinishJobTyped ==
  ASSUME Typed, NEW j \in JobId, NEW success \in BOOLEAN, FinishJob(j, success) PROVE Typed'
<1>0. task \in [JobId -> Task] /\ task[j] \in Task /\ task[j].stage = "executing"
  BY DEF FinishJob, Typed, CronTypeOK
<1>1. /\ rows' \subseteq RunRow
      /\ lastRow' \in 0 .. MaxRows
      /\ \A r \in rows' : r.id <= lastRow'
      /\ \A r, q \in rows' : r.id = q.id => r = q
  <2>1. CASE CompleteRun(task[j].row, j, success)
    <3>1. RowsOK(rows) /\ lastRow \in 0 .. MaxRows
      BY DEF RowsOK, Typed, CronTypeOK
    <3>2. lastRow \in Nat
      BY <3>1
    <3>3. RowsOK(rows') /\ lastRow' = lastRow
      BY <2>1, <3>1, <3>2, CompleteRunRows
    <3>4. QED  BY <3>1, <3>3 DEF RowsOK
  <2>2. CASE task[j].row = NoRow /\ RecordRun(j, task[j].started_at, success)
    <3>1. /\ RowsOK(rows) /\ lastRow \in 0 .. MaxRows
          /\ task[j].started_at \in Time /\ ~Exists(j)
      BY <1>0, <2>2 DEF RowsOK, Task, Typed, CronTypeOK, SeenInv
    <3>2. QED  BY <2>2, <3>1, RecordRunRows
  <2>3. QED  BY <2>1, <2>2 DEF FinishJob
<1>2. task' = [task EXCEPT ![j] = [task[j] EXCEPT !.stage = "recorded", !.success = success]]
  BY DEF FinishJob
<1>3. [task[j] EXCEPT !.stage = "recorded", !.success = success] \in Task
  BY <1>0 DEF Task, Stage
<1>4. /\ task' \in [JobId -> Task]
      /\ \A k \in JobId : k # j => task'[k] = task[k]
      /\ task'[j].stage = "recorded"
  BY <1>0, <1>2, <1>3 DEF Task
<1>5. UNCHANGED <<job, up, failures, edit, manual, now, crashes, fired>>
  BY DEF FinishJob
<1>6. QED
  BY <1>0, <1>1, <1>4, <1>5 DEF Typed, CronTypeOK, SeenInv, Exists

(* What the settlement of a run does to the job and to its task. *)
LEMMA SettleTyped == ASSUME Typed, NEW j \in JobId, Settle(j) PROVE Typed'
<1>0. /\ task \in [JobId -> Task] /\ task[j] \in Task /\ task[j].stage # "idle"
      /\ job \in [JobId -> JobRow] /\ failures \in [JobId -> Nat]
  BY DEF Settle, RemoveOneShot, FailOneShot, DisableOneShot, Reschedule, Typed, CronTypeOK
<1>1. UNCHANGED <<lastRow, up, edit, manual, now, crashes, fired>>
  BY DEF Settle, RemoveOneShot, FailOneShot, DisableOneShot, Reschedule
<1>2. failures' \in [JobId -> Nat]
  BY <1>0 DEF Settle, RemoveOneShot, FailOneShot, DisableOneShot, Reschedule, Count
<1>3. rows' \subseteq rows
  BY DEF Settle, RemoveOneShot, FailOneShot, DisableOneShot, Reschedule, Remove, RowsOf
<1>4. /\ job' \in [JobId -> JobRow]
      /\ \A k \in JobId :
           \/ job'[k].exists = job[k].exists
           \/ job[k].exists = "yes" /\ job'[k].exists = "removed"
  <2>1. CASE RemoveOneShot(j)
    BY <1>0, <2>1, IdleTyped DEF RemoveOneShot, Remove, Exists
  <2>2. CASE FailOneShot(j)
    <3>1. \/ job' = job
          \/ job' = [job EXCEPT ![j] = [job[j] EXCEPT !.last_status = "error"]]
      BY <2>2 DEF FailOneShot
    <3>2. [job[j] EXCEPT !.last_status = "error"] \in JobRow
      BY <1>0 DEF JobRow
    <3>3. [job[j] EXCEPT !.last_status = "error"].exists = job[j].exists
      BY <1>0 DEF JobRow
    <3>4. QED  BY <1>0, <3>1, <3>2, <3>3
  <2>3. CASE DisableOneShot(j)
    <3>1. task[j].copy \in JobRow /\ task[j].copy.exists = "yes" /\ WriteBack(j, task[j].copy)
      BY <1>0, <2>3 DEF DisableOneShot, Task, Typed, SeenInv
    <3>2. QED  BY <1>0, <3>1, WriteBackTyped
  <2>4. ASSUME NEW delivered \in BOOLEAN, Reschedule(j, delivered)
        PROVE  /\ job' \in [JobId -> JobRow]
               /\ \A k \in JobId : job'[k].exists = job[k].exists
    <3>1. NextRun(task[j].copy.schedule) \in Nat
      <4>1. task[j].copy.schedule \in Schedule /\ now \in Nat
        BY <1>0, NowIsNat DEF Task, JobRow, Typed
      <4>2. QED  BY <4>1, NextRunIs
    <3> DEFINE st == Status(task[j].success /\ delivered)
               rec == [job[j] EXCEPT !.next_run = NextRun(task[j].copy.schedule), !.last_status = st]
    <3>2. st \in {"ok", "error"}
      BY DEF Status
    <3>3. job' = job \/ job' = [job EXCEPT ![j] = rec]
      BY <2>4 DEF Reschedule
    <3> HIDE DEF st
    <3>4. rec \in JobRow /\ rec.exists = job[j].exists
      BY <1>0, <3>1, <3>2 DEF JobRow
    <3> HIDE DEF rec
    <3>5. QED  BY <1>0, <3>3, <3>4
  <2>5. QED  BY <2>1, <2>2, <2>3, <2>4 DEF Settle
<1>5. /\ task' \in [JobId -> Task]
      /\ \A k \in JobId : k # j => task'[k] = task[k]
      /\ task'[j].stage \in {"disabling", "done"}
      /\ task'[j].stage = "disabling" => task'[j].copy.exists = "yes"
  <2>1. CASE RemoveOneShot(j) \/ DisableOneShot(j)
    <3>1. task' = [task EXCEPT ![j] = [task[j] EXCEPT !.stage = "done"]]
      BY <2>1 DEF RemoveOneShot, DisableOneShot
    <3>2. [task[j] EXCEPT !.stage = "done"] \in Task /\ [task[j] EXCEPT !.stage = "done"].stage = "done"
      BY <1>0 DEF Task, Stage
    <3>3. QED  BY <1>0, <3>1, <3>2
  <2>2. CASE FailOneShot(j) /\ ~Exists(j)
    <3> DEFINE t == [task[j] EXCEPT !.stage = "done", !.success = FALSE]
    <3>1. task' = [task EXCEPT ![j] = t]
      BY <2>2 DEF FailOneShot
    <3>2. t \in Task /\ t.stage = "done"
      BY <1>0 DEF Task, Stage
    <3> HIDE DEF t
    <3>3. QED  BY <1>0, <3>1, <3>2
  <2>3. CASE FailOneShot(j) /\ Exists(j)
    <3> DEFINE rec == [job[j] EXCEPT !.enabled = FALSE]
               t == [task[j] EXCEPT !.stage = "disabling", !.success = FALSE, !.copy = rec]
    <3>1. task' = [task EXCEPT ![j] = t]
      BY <2>3 DEF FailOneShot
    <3>2. rec \in JobRow /\ rec.exists = "yes"
      BY <1>0, <2>3 DEF JobRow, Exists
    <3> HIDE DEF rec
    <3>3. t \in Task /\ t.stage = "disabling" /\ t.copy = rec
      BY <1>0, <3>2 DEF Task, Stage
    <3> HIDE DEF t
    <3>4. QED  BY <1>0, <3>1, <3>2, <3>3
  <2>4. ASSUME NEW delivered \in BOOLEAN, Reschedule(j, delivered)
        PROVE  /\ task' \in [JobId -> Task]
               /\ \A k \in JobId : k # j => task'[k] = task[k]
               /\ task'[j].stage = "done"
    <3> DEFINE s == task[j].success /\ delivered
               t == [task[j] EXCEPT !.stage = "done", !.success = s]
    <3>1. task' = [task EXCEPT ![j] = t]
      BY <2>4 DEF Reschedule
    <3>2. s \in BOOLEAN
      OBVIOUS
    <3> HIDE DEF s
    <3>3. t \in Task /\ t.stage = "done"
      BY <1>0, <3>2 DEF Task, Stage
    <3> HIDE DEF t
    <3>4. QED  BY <1>0, <3>1, <3>3
  <2>5. QED  BY <2>1, <2>2, <2>3, <2>4 DEF Settle
<1>6. CronTypeOK'
  BY <1>1, <1>2, <1>3, <1>4, <1>5 DEF Typed, CronTypeOK
<1>7. ASSUME NEW k \in JobId
      PROVE  /\ task'[k].stage # "idle" => job'[k].exists # "not yet"
             /\ task'[k].stage = "executing" /\ task'[k].row = NoRow => job'[k].exists # "yes"
             /\ task'[k].stage = "disabling" => task'[k].copy.exists = "yes"
  <2>1. CASE k = j
    BY <1>0, <1>4, <1>5, <2>1 DEF Typed, SeenInv
  <2>2. CASE k # j
    BY <1>4, <1>5, <2>2 DEF Typed, SeenInv, Exists
  <2>3. QED  BY <2>1, <2>2
<1>8. SeenInv'
  BY <1>1, <1>7 DEF Typed, SeenInv, Exists
<1>9. QED
  BY <1>6, <1>8 DEF Typed

(* The steps of the callers. *)
LEMMA RowCallersTyped ==
  ASSUME Typed, NEW j \in JobId, RemoveJob(j) \/ \E new \in NewJobs : AddJob(j, new)
  PROVE  Typed'
<1>0. job \in [JobId -> JobRow] /\ now \in Nat
  BY NowIsNat DEF Typed, CronTypeOK
<1>1. UNCHANGED <<lastRow, up, failures, task, edit, manual, now, crashes, fired>> /\ rows' \subseteq rows
  BY DEF RemoveJob, AddJob, Remove
<1>2. /\ job' \in [JobId -> JobRow]
      /\ \A k \in JobId : k # j => job'[k] = job[k]
      /\ job'[j].exists # "not yet"
      /\ Exists(j) => job'[j].exists = "removed"
      /\ ~Exists(j) => job[j].exists = "not yet"
  <2>1. CASE RemoveJob(j)
    BY <1>0, <2>1, IdleTyped DEF RemoveJob, Remove, Exists
  <2>2. ASSUME NEW new \in NewJobs, AddJob(j, new)
        PROVE  /\ job' \in [JobId -> JobRow]
               /\ \A k \in JobId : k # j => job'[k] = job[k]
               /\ job'[j].exists = "yes" /\ job[j].exists = "not yet"
    <3> DEFINE rec == [exists |-> "yes", enabled |-> TRUE, schedule |-> new.schedule,
                       delete_after_run |-> new.delete_after_run,
                       next_run |-> NextRun(new.schedule), last_status |-> "none"]
    <3>1. new.schedule \in Schedule /\ new.delete_after_run \in BOOLEAN
      BY NewJobsAssumption
    <3>2. NextRun(new.schedule) \in Nat
      BY <1>0, <3>1, NextRunIs
    <3>3. rec \in JobRow /\ rec.exists = "yes"
      BY <3>1, <3>2 DEF JobRow
    <3>4. job' = [job EXCEPT ![j] = rec] /\ job[j].exists = "not yet"
      BY <2>2 DEF AddJob
    <3> HIDE DEF rec
    <3>5. QED  BY <1>0, <3>3, <3>4
  <2>3. QED  BY <2>1, <2>2 DEF RemoveJob, Exists
<1>3. task[j].stage # "idle" => job[j].exists # "not yet"
  BY DEF Typed, SeenInv
<1>4. \A k \in JobId : /\ task[k].stage # "idle" => job'[k].exists # "not yet"
                       /\ task[k].stage = "executing" /\ task[k].row = NoRow
                            => job'[k].exists # "yes"
  BY <1>2, <1>3 DEF Typed, SeenInv, Exists
<1>5. QED
  BY <1>1, <1>2, <1>4 DEF Typed, CronTypeOK, SeenInv, Exists

\* So do the edits of others ...
LEMMA EditorsTyped ==
  ASSUME Typed, NEW e \in Editors,
         WriteUpdate(e) \/ \E j \in JobId, p \in Patches : ReadForUpdate(e, j, p)
  PROVE  Typed'
<1>0. /\ job \in [JobId -> JobRow] /\ now \in Nat
      /\ edit \in [Editors -> {NoEdit} \cup [job : {"one"}, id : JobId, row : JobRow]]
  BY NowIsNat DEF Typed, CronTypeOK
<1>1. CASE WriteUpdate(e)
  <2>1. /\ edit[e].id \in JobId /\ edit[e].row \in JobRow /\ edit[e].row.exists = "yes"
        /\ WriteBack(edit[e].id, edit[e].row)
    BY <1>0, <1>1 DEF WriteUpdate, Typed, SeenInv
  <2>2. job' \in [JobId -> JobRow] /\ \A k \in JobId : job'[k].exists = job[k].exists
    BY <1>0, <2>1, WriteBackTyped
  <2>3. /\ edit' = [edit EXCEPT ![e] = NoEdit]
        /\ UNCHANGED <<rows, lastRow, up, failures, task, manual, now, crashes, fired>>
    BY <1>1 DEF WriteUpdate
  <2>4. QED  BY <1>0, <2>2, <2>3 DEF Typed, CronTypeOK, SeenInv, Exists
<1>2. ASSUME NEW j \in JobId, NEW p \in Patches, ReadForUpdate(e, j, p) PROVE Typed'
  <2> DEFINE rec == [job |-> "one", id |-> j, row |-> Patched(job[j], p)]
  <2>1. Patched(job[j], p) \in JobRow /\ Patched(job[j], p).exists = "yes"
    BY <1>0, <1>2, PatchedIs DEF ReadForUpdate, Exists
  <2>2. rec \in [job : {"one"}, id : JobId, row : JobRow] /\ rec.row.exists = "yes"
    BY <2>1
  <2>3. /\ edit' = [edit EXCEPT ![e] = rec]
        /\ UNCHANGED <<job, rows, lastRow, up, failures, task, manual, now, crashes, fired>>
    BY <1>2 DEF ReadForUpdate
  <2> HIDE DEF rec
  <2>4. QED  BY <1>0, <2>2, <2>3 DEF Typed, CronTypeOK, SeenInv, Exists
<1>3. QED
  BY <1>1, <1>2

\* ... and runs by hand.
LEMMA ManualTyped ==
  ASSUME Typed, NEW m \in Runners,
         \/ \E j \in JobId : StartManual(m, j)
         \/ \E success \in BOOLEAN : FinishManual(m, success)
  PROVE  Typed'
<1>0. manual \in [Runners -> {NoManual} \cup [job : {"one"}, id : JobId, started_at : Time]]
  BY DEF Typed, CronTypeOK
<1>1. ASSUME NEW j \in JobId, StartManual(m, j) PROVE Typed'
  <2>1. [job |-> "one", id |-> j, started_at |-> now]
          \in [job : {"one"}, id : JobId, started_at : Time]
    BY DEF Typed, CronTypeOK
  <2>2. manual' \in [Runners -> {NoManual} \cup [job : {"one"}, id : JobId, started_at : Time]]
    BY <1>0, <1>1, <2>1 DEF StartManual
  <2>3. UNCHANGED <<job, rows, lastRow, up, failures, task, edit, now, crashes, fired>>
    BY <1>1 DEF StartManual
  <2>4. QED  BY <2>2, <2>3 DEF Typed, CronTypeOK, SeenInv, Exists
<1>2. ASSUME NEW success \in BOOLEAN, FinishManual(m, success) PROVE Typed'
  <2> DEFINE j == manual[m].id
  <2>1. j \in JobId /\ manual[m].started_at \in Time
    BY <1>0, <1>2 DEF FinishManual
  <2>2. /\ RecordRun(j, manual[m].started_at, success)
        /\ job' = [job EXCEPT ![j].last_status = IF Exists(j) THEN Status(success) ELSE @]
        /\ manual' = [manual EXCEPT ![m] = NoManual]
        /\ UNCHANGED <<up, failures, task, edit, now, crashes, fired>>
        /\ lastRow < MaxRows
    BY <1>2 DEF FinishManual
  <2> HIDE DEF j
  <2>3. RowsOK(rows) /\ lastRow \in 0 .. MaxRows /\ job \in [JobId -> JobRow]
    BY DEF Typed, CronTypeOK, RowsOK
  <2>4. /\ rows' \subseteq RunRow
        /\ lastRow' \in 0 .. MaxRows
        /\ \A r \in rows' : r.id <= lastRow'
        /\ \A r, q \in rows' : r.id = q.id => r = q
    BY <2>1, <2>2, <2>3, RecordRunRows
  <2>5. job' \in [JobId -> JobRow] /\ \A k \in JobId : job'[k].exists = job[k].exists
    <3> DEFINE rec == [job[j] EXCEPT !.last_status = IF Exists(j) THEN Status(success) ELSE @]
    <3>1. rec \in JobRow /\ rec.exists = job[j].exists
      BY <2>1, <2>3 DEF JobRow, Status
    <3>2. job' = [job EXCEPT ![j] = rec]
      BY <2>2
    <3> HIDE DEF rec
    <3>3. QED  BY <2>1, <2>3, <3>1, <3>2
  <2>6. manual' \in [Runners -> {NoManual} \cup [job : {"one"}, id : JobId, started_at : Time]]
    BY <1>0, <2>2
  <2>7. CronTypeOK'
    BY <2>2, <2>4, <2>5, <2>6 DEF Typed, CronTypeOK
  <2>8. SeenInv'
    BY <2>2, <2>5 DEF Typed, SeenInv, Exists
  <2>9. QED  BY <2>7, <2>8 DEF Typed
<1>3. QED
  BY <1>1, <1>2

\* Every step keeps the types.
LEMMA StepTyped == Typed /\ [Next]_vars => Typed'
<1> SUFFICES ASSUME Typed, [Next]_vars PROVE Typed'
  OBVIOUS
<1>1. CASE Daemon
  BY <1>1, LoopTyped, StartJobTyped, FinishJobTyped, SettleTyped DEF Daemon
<1>2. CASE Callers
  BY <1>2, RowCallersTyped, EditorsTyped, ManualTyped DEF Callers
<1>3. CASE Crash
  <2>1. task' = [j \in JobId |-> IdleTask] /\ UNCHANGED <<job, rows, lastRow, edit, manual, now>>
    BY <1>3 DEF Crash
  <2>2. crashes' \in 0 .. MaxCrashes
    BY <1>3, CronBoundsAssumption DEF Crash, Typed, CronTypeOK
  <2>3. up' \in BOOLEAN /\ failures' \in [JobId -> Nat] /\ fired' \in [JobId -> Nat \cup {Never}]
    BY <1>3 DEF Crash, Typed, CronTypeOK
  <2>4. CronTypeOK'
    BY <2>1, <2>2, <2>3, IdleTyped DEF Typed, CronTypeOK
  <2>5. SeenInv'
    BY <2>1, IdleTyped DEF Typed, SeenInv
  <2>6. QED  BY <2>4, <2>5 DEF Typed
<1>4. CASE Tick
  <2>1. UNCHANGED <<job, rows, lastRow, up, failures, task, edit, manual, crashes, fired>>
    BY <1>4 DEF Tick
  <2>2. now' \in Time
    BY <1>4, CronBoundsAssumption DEF Tick, Typed, CronTypeOK, Time
  <2>3. CronTypeOK'
    BY <2>1, <2>2 DEF Typed, CronTypeOK
  <2>4. SeenInv'
    BY <2>1 DEF Typed, SeenInv, Exists
  <2>5. QED  BY <2>3, <2>4 DEF Typed
<1>5. CASE UNCHANGED vars
  BY <1>5 DEF vars, Typed, CronTypeOK, SeenInv, Exists
<1>6. QED
  BY <1>1, <1>2, <1>3, <1>4, <1>5 DEF Next

\* Two empty tables have the types.
LEMMA InitTyped == Init => Typed
<1> SUFFICES ASSUME Init PROVE Typed
  OBVIOUS
<1>1. 0 \in 0 .. MaxRows /\ 0 \in 0 .. MaxCrashes /\ 0 \in Time
  BY CronBoundsAssumption DEF Time
<1>2. CronTypeOK
  BY <1>1, IdleTyped DEF Init, CronTypeOK
<1>3. SeenInv
  BY IdleTyped DEF Init, SeenInv
<1>4. QED
  BY <1>2, <1>3 DEF Typed

\* The types, along every run.
LEMMA AlwaysTyped == Spec => []Typed
  BY InitTyped, StepTyped, PTL DEF Spec

(* The tables, the loop's tasks and the callers' copies stay within their types,
   identifiers of runs are handed out once, and a row is inserted without a sentinel only
   for a job that is gone (insert_running_run, record_run, update_job). *)
THEOREM TypeCorrect == Spec => []CronTypeOK
<1>1. Typed => CronTypeOK
  BY DEF Typed
<1>2. QED
  BY <1>1, AlwaysTyped, PTL

-----------------------------------------------------------------------------
(* What the settlement of a run leaves to the other jobs and to the rows of *)
(* cron_runs.                                                               *)
LEMMA SettleIs ==
  ASSUME Typed, NEW j \in JobId, Settle(j)
  PROVE  /\ UNCHANGED <<lastRow, up>>
         /\ task[j].stage \in {"recorded", "disabling"}
         /\ \A k \in JobId : k # j => task'[k] = task[k]
         /\ task'[j].stage \in {"disabling", "done"}
         /\ task'[j].row = task[j].row
         /\ \/ rows' = rows /\ (\A k \in JobId : job'[k].exists = job[k].exists)
            \/ rows' = rows \ RowsOf(rows, j) /\ (\A k \in JobId : k # j => job'[k] = job[k])
<1>0. /\ task \in [JobId -> Task] /\ task[j] \in Task /\ job \in [JobId -> JobRow]
  BY DEF Typed, CronTypeOK
<1>1. CASE RemoveOneShot(j)
  BY <1>0, <1>1 DEF RemoveOneShot, Remove, Task
<1>2. CASE DisableOneShot(j)
  <2>1. task[j].copy \in JobRow /\ task[j].copy.exists = "yes" /\ WriteBack(j, task[j].copy)
    BY <1>0, <1>2 DEF DisableOneShot, Task, Typed, SeenInv
  <2>2. \A k \in JobId : job'[k].exists = job[k].exists
    BY <1>0, <2>1, WriteBackTyped
  <2>3. QED  BY <1>0, <1>2, <2>2 DEF DisableOneShot, Task
<1>3. CASE FailOneShot(j)
  <2>1. \A k \in JobId : job'[k].exists = job[k].exists
    <3>1. \/ job' = job
          \/ job' = [job EXCEPT ![j] = [job[j] EXCEPT !.last_status = "error"]]
      BY <1>3 DEF FailOneShot
    <3>2. [job[j] EXCEPT !.last_status = "error"].exists = job[j].exists
      BY <1>0 DEF JobRow
    <3>3. QED  BY <1>0, <3>1, <3>2
  <2>2. /\ \A k \in JobId : k # j => task'[k] = task[k]
        /\ task'[j].stage \in {"disabling", "done"} /\ task'[j].row = task[j].row
    <3> DEFINE t == [task[j] EXCEPT !.stage = "done", !.success = FALSE]
               u == [task[j] EXCEPT !.stage = "disabling", !.success = FALSE,
                                    !.copy = [job[j] EXCEPT !.enabled = FALSE]]
    <3>1. task' = [task EXCEPT ![j] = t] \/ task' = [task EXCEPT ![j] = u]
      BY <1>3 DEF FailOneShot
    <3>2. t.stage = "done" /\ t.row = task[j].row /\ u.stage = "disabling" /\ u.row = task[j].row
      BY <1>0 DEF Task
    <3> HIDE DEF t, u
    <3>3. QED  BY <1>0, <3>1, <3>2
  <2>3. QED  BY <1>3, <2>1, <2>2 DEF FailOneShot
<1>4. ASSUME NEW delivered \in BOOLEAN, Reschedule(j, delivered)
      PROVE  /\ UNCHANGED <<lastRow, up, rows>>
             /\ task[j].stage = "recorded"
             /\ \A k \in JobId : k # j => task'[k] = task[k]
             /\ task'[j].stage = "done" /\ task'[j].row = task[j].row
             /\ \A k \in JobId : job'[k].exists = job[k].exists
  <2>1. \A k \in JobId : job'[k].exists = job[k].exists
    BY <1>0, <1>4 DEF Reschedule, JobRow
  <2>2. QED  BY <1>0, <1>4, <2>1 DEF Reschedule, Task
<1>5. QED
  BY <1>1, <1>2, <1>3, <1>4 DEF Settle

(* No cron_run executes a job: each of them records its outcome with the    *)
(* statement that prunes the rows of the job, running ones included.        *)
NoManualRuns == Runners = {}

(* Why the sentinels are exact: a running row is that of the job executed,  *)
(* found by its identifier, and no identifier belongs to two tasks.         *)
SentinelInv ==
  /\ ~up => \A j \in JobId : task[j].stage = "idle"
  /\ up => \A r \in rows : r.status = "running" =>
              /\ Exists(r.job) /\ task[r.job].stage = "executing" /\ task[r.job].row = r.id
  /\ \A j \in JobId : Exists(j) /\ task[j].stage = "executing" /\ task[j].row # NoRow =>
       \E r \in rows : r.id = task[j].row /\ r.job = j /\ r.status = "running"
  /\ \A j \in JobId : task[j].row <= lastRow
  /\ \A j, k \in JobId : task[j].row # NoRow /\ task[j].row = task[k].row => j = k

\* Nothing is in flight at first.
LEMMA SentinelStart == Init => SentinelInv
  BY DEF Init, SentinelInv, IdleTask, NoRow

\* A startup, a poll and a crash keep sentinels and tasks together.
LEMMA SentinelLoop == ASSUME Typed, SentinelInv, Startup \/ Poll \/ Crash PROVE SentinelInv'
<1>0. lastRow \in Nat /\ IdleTask.row = NoRow /\ IdleTask.stage = "idle" /\ NoRow <= lastRow
  BY CronBoundsAssumption DEF Typed, CronTypeOK, IdleTask, NoRow
<1>1. CASE Startup
  <2>1. \A r \in rows' : r.status # "running"
    BY <1>1 DEF Startup, Swept, Typed, CronTypeOK, RunRow
  <2>2. UNCHANGED <<lastRow, task>> /\ \A j \in JobId : task[j].stage = "idle"
    BY <1>1 DEF Startup, SentinelInv
  <2>3. QED  BY <2>1, <2>2 DEF SentinelInv
<1>2. CASE Poll
  <2>1. \A j \in JobId : task'[j].stage \in {"idle", "queued"} /\ task'[j].row = NoRow
    BY <1>0, <1>2 DEF Poll, IdleTask
  <2>2. UNCHANGED <<rows, lastRow, up, job>> /\ up /\ \A j \in JobId : task[j].stage # "executing"
    BY <1>2 DEF Poll, BatchOver
  <2>3. \A r \in rows : r.job \in JobId
    BY DEF Typed, CronTypeOK, RunRow
  <2>4. QED  BY <1>0, <2>1, <2>2, <2>3 DEF SentinelInv
<1>3. CASE Crash
  BY <1>0, <1>3 DEF Crash, SentinelInv
<1>4. QED
  BY <1>1, <1>2, <1>3

\* The sentinel of a job that starts is its own.
LEMMA SentinelInserted ==
  ASSUME Typed, SentinelInv, NEW j \in JobId, StartJob(j) PROVE SentinelInv'
<1>0. /\ task \in [JobId -> Task] /\ task[j] \in Task /\ lastRow \in Nat /\ task[j].stage = "queued"
      /\ rows \subseteq RunRow
  BY CronBoundsAssumption DEF StartJob, Typed, CronTypeOK
<1>1. UNCHANGED <<job, up>> /\ up
  BY <1>0 DEF StartJob, SentinelInv
<1>2. \A r \in rows : r.status = "running" => r.job \in JobId /\ r.job # j
  BY <1>0, <1>1 DEF SentinelInv, RunRow
<1>3. CASE Exists(j)
  <2> DEFINE new == [id |-> lastRow + 1, job |-> j, started_at |-> now, status |-> "running"]
  <2>1. /\ rows' = rows \cup {new} /\ lastRow' = lastRow + 1
        /\ \A k \in JobId : k # j => task'[k] = task[k]
        /\ task'[j].stage = "executing" /\ task'[j].row = lastRow + 1
    BY <1>0, <1>3 DEF StartJob, Task
  <2>2. new.id = lastRow + 1 /\ new.job = j /\ new.status = "running"
    OBVIOUS
  <2> HIDE DEF new
  <2>3. \A k \in JobId : k # j => task[k].row \in Nat /\ task[k].row <= lastRow
    BY <1>0, CronBoundsAssumption DEF Task, SentinelInv
  <2>4. QED  BY <1>0, <1>1, <1>2, <1>3, <2>1, <2>2, <2>3 DEF SentinelInv, Exists
<1>4. CASE ~Exists(j)
  <2>1. /\ UNCHANGED <<rows, lastRow>>
        /\ \A k \in JobId : k # j => task'[k] = task[k]
        /\ task'[j].stage = "executing" /\ task'[j].row = task[j].row
    BY <1>0, <1>4 DEF StartJob, Task
  <2>2. QED  BY <1>0, <1>1, <1>2, <1>4, <2>1 DEF SentinelInv, Exists
<1>5. QED
  BY <1>3, <1>4

\* A job that is executed takes its own sentinel with it.
LEMMA SentinelCompleted ==
  ASSUME Typed, SentinelInv, NEW j \in JobId, NEW success \in BOOLEAN, FinishJob(j, success)
  PROVE  SentinelInv'
<1>0. /\ task \in [JobId -> Task] /\ task[j] \in Task /\ task[j].stage = "executing"
      /\ rows \subseteq RunRow /\ \A r, q \in rows : r.id = q.id => r = q
  BY DEF FinishJob, Typed, CronTypeOK
<1>1. /\ UNCHANGED <<job, up>> /\ up
      /\ \A k \in JobId : k # j => task'[k] = task[k]
      /\ task'[j].stage = "recorded" /\ task'[j].row = task[j].row
  BY <1>0 DEF FinishJob, SentinelInv, Task
<1>2. lastRow' = lastRow /\ \A r : r \in rows' /\ r.status = "running" <=>
                                 r \in rows /\ r.status = "running" /\ r.id # task[j].row
  <2>1. CASE task[j].row # NoRow /\ CompleteRun(task[j].row, j, success)
    <3> DEFINE rs == {IF r.id = task[j].row THEN [r EXCEPT !.status = Status(success)] ELSE r : r \in rows}
    <3>1. rows' = (rs \ FinishedRowsOf(rs, j)) \cup Newest(FinishedRowsOf(rs, j)) /\ lastRow' = lastRow
      BY <2>1 DEF CompleteRun
    <3>2. \A r : r \in rs /\ r.status = "running" <=>
               r \in rows /\ r.status = "running" /\ r.id # task[j].row
      BY <1>0 DEF RunRow, Status
    <3> HIDE DEF rs
    <3>3. \A r : r \in rows' /\ r.status = "running" <=> r \in rs /\ r.status = "running"
      BY <3>1, NewestAre DEF FinishedRowsOf
    <3>4. QED  BY <3>1, <3>2, <3>3
  <2>2. CASE task[j].row = NoRow /\ RecordRun(j, task[j].started_at, success)
    <3>1. ~Exists(j)
      BY <1>0, <2>2 DEF Typed, SeenInv
    <3>2. UNCHANGED <<rows, lastRow>>
      BY <2>2, <3>1 DEF RecordRun
    <3>3. \A r \in rows : r.id # NoRow
      BY <1>0 DEF RunRow, NoRow
    <3>4. QED  BY <2>2, <3>2, <3>3
  <2>3. QED  BY <2>1, <2>2 DEF FinishJob
<1>3. \A r \in rows : r.status = "running" /\ r.id # task[j].row => r.job \in JobId /\ r.job # j
  BY <1>0, <1>1 DEF SentinelInv, RunRow
<1>4. ASSUME NEW k \in JobId, k # j, Exists(k), task[k].stage = "executing", task[k].row # NoRow
      PROVE  \E r \in rows' : r.id = task[k].row /\ r.job = k /\ r.status = "running"
  BY <1>2, <1>4 DEF SentinelInv
<1>5. QED
  BY <1>1, <1>2, <1>3, <1>4 DEF SentinelInv, Exists

\* Settling a job leaves the sentinels alone.
LEMMA SentinelSettled == ASSUME Typed, SentinelInv, NEW j \in JobId, Settle(j) PROVE SentinelInv'
<1>0. rows \subseteq RunRow
  BY DEF Typed, CronTypeOK
<1>1. up /\ \A r \in rows : r.status = "running" => r.job \in JobId /\ r.job # j
  BY <1>0, SettleIs DEF SentinelInv, RunRow
<1>2. /\ UNCHANGED <<lastRow, up>>
      /\ \A k \in JobId : k # j => task'[k] = task[k]
      /\ task'[j].stage # "executing" /\ task'[j].row = task[j].row
  BY SettleIs
<1>3. CASE rows' = rows /\ \A k \in JobId : job'[k].exists = job[k].exists
  BY <1>0, <1>1, <1>2, <1>3 DEF SentinelInv, Exists
<1>4. CASE rows' = rows \ RowsOf(rows, j) /\ \A k \in JobId : k # j => job'[k] = job[k]
  <2>1. rows' = {r \in rows : r.job # j}
    BY <1>4 DEF RowsOf
  <2>2. QED  BY <1>0, <1>1, <1>2, <1>4, <2>1 DEF SentinelInv, Exists
<1>5. QED
  BY <1>3, <1>4, SettleIs

\* So do time and edits.
LEMMA SentinelOthers ==
  ASSUME Typed, SentinelInv, NoManualRuns, Callers \/ Tick \/ UNCHANGED vars PROVE SentinelInv'
<1>0. rows \subseteq RunRow /\ job \in [JobId -> JobRow]
  BY DEF Typed, CronTypeOK
<1>1. ASSUME NEW j \in JobId, RemoveJob(j) PROVE SentinelInv'
  <2>1. /\ \A k \in JobId : k # j => job'[k] = job[k]
        /\ rows' = {r \in rows : r.job # j}
        /\ ~Exists(j)'
        /\ UNCHANGED <<lastRow, up, task>>
    BY <1>0, <1>1, IdleTyped DEF RemoveJob, Remove, RowsOf, Exists
  <2>2. QED  BY <1>0, <2>1 DEF SentinelInv, Exists, RunRow
<1>2. ASSUME NEW j \in JobId, NEW new \in NewJobs, AddJob(j, new) PROVE SentinelInv'
  <2>1. /\ \A k \in JobId : k # j => job'[k] = job[k]
        /\ ~Exists(j) /\ task[j].stage = "idle"
        /\ UNCHANGED <<rows, lastRow, up, task>>
    BY <1>0, <1>2 DEF AddJob, Exists, Typed, SeenInv
  <2>2. QED  BY <1>0, <2>1 DEF SentinelInv, Exists, RunRow
<1>3. ASSUME NEW e \in Editors, WriteUpdate(e) PROVE SentinelInv'
  <2>1. /\ edit[e].id \in JobId /\ edit[e].row \in JobRow /\ edit[e].row.exists = "yes"
        /\ WriteBack(edit[e].id, edit[e].row)
    BY <1>3 DEF WriteUpdate, Typed, CronTypeOK, SeenInv
  <2>2. \A k \in JobId : job'[k].exists = job[k].exists
    BY <1>0, <2>1, WriteBackTyped
  <2>3. UNCHANGED <<rows, lastRow, up, task>>
    BY <1>3 DEF WriteUpdate
  <2>4. QED  BY <1>0, <2>2, <2>3 DEF SentinelInv, Exists, RunRow
<1>4. CASE \/ \E e \in Editors, j \in JobId, p \in Patches : ReadForUpdate(e, j, p)
           \/ Tick
           \/ UNCHANGED vars
  <2>1. UNCHANGED <<job, rows, lastRow, up, task>>
    BY <1>4 DEF ReadForUpdate, Tick, vars
  <2>2. QED  BY <2>1 DEF SentinelInv, Exists
<1>5. QED
  BY <1>1, <1>2, <1>3, <1>4 DEF Callers, NoManualRuns

(* While the daemon runs, the rows of status "running" are exactly those of the jobs it
   is executing, when no cron_run is made (insert_running_run, complete_run,
   sweep_and_detect_on_startup). *)
THEOREM SentinelsExactInvariant == ASSUME NoManualRuns PROVE Spec => []SentinelsExact
<1>1. Typed /\ SentinelInv /\ [Next]_vars => SentinelInv'
  BY SentinelLoop, SentinelInserted, SentinelCompleted, SentinelSettled, SentinelOthers
  DEF Next, Daemon
<1>2. Typed /\ SentinelInv => SentinelsExact
  BY DEF Typed, CronTypeOK, SentinelInv, SentinelsExact, RunRow, NoRow
<1>3. QED
  BY <1>1, <1>2, SentinelStart, AlwaysTyped, PTL DEF Spec

-----------------------------------------------------------------------------
(* Nobody edits a job: jobs are added, removed and run by hand, but the     *)
(* schedule in the copy of a task is that of the row.                       *)
NoEdits == Editors = {}

\* The runs of the job have their own due times: it is not a one-shot job that is kept,
\* and its schedule has not run out.
Recurs(rec) == (rec.schedule.kind = "at" => rec.delete_after_run) /\ HasNext(rec.schedule)

(* Why a due time is served once and a failed one-shot job is disabled: a   *)
(* job that is not in the loop's hands is due only for a time after the one *)
(* it was last started for, and a one-shot job comes back disabled.         *)
Served(j) ==
  /\ fired[j] <= now
  /\ job[j].exists = "not yet" => fired[j] = Never
  /\ task[j].stage \notin {"idle", "done"} /\ Exists(j) =>
       /\ task[j].copy.schedule = job[j].schedule
       /\ task[j].copy.delete_after_run = job[j].delete_after_run
  /\ task[j].stage = "queued" =>
       /\ task[j].copy.next_run <= now
       /\ Exists(j) => job[j].next_run = task[j].copy.next_run
       /\ Recurs(task[j].copy) => task[j].copy.next_run > fired[j]
  /\ task[j].stage = "disabling" => ~task[j].copy.enabled
  /\ task[j].stage = "done" /\ Exists(j) /\ IsOneShot(job[j]) => ~job[j].enabled
  /\ task[j].stage \in {"idle", "done"} /\ Exists(j) /\ job[j].enabled /\ Recurs(job[j]) =>
       job[j].next_run > fired[j]

ServedInv == \A j \in JobId : Served(j)

\* A step that changes nothing about a job keeps what is said of it.
LEMMA ServedSame ==
  ASSUME NEW j \in JobId, Served(j), job'[j] = job[j], task'[j] = task[j], fired'[j] = fired[j],
         now' = now
  PROVE  Served(j)'
  BY DEF Served, Exists, IsOneShot, Recurs, HasNext, NextRun

\* What a job was last started for is a time or Never, a number.
LEMMA FiredIsInt ==
  ASSUME NEW j \in JobId, fired \in [JobId -> Nat \cup {Never}]
  PROVE  fired[j] \in Int
<1>1. \A x \in Nat \cup {Never} : x \in Int
  BY DEF Never
<1>2. QED
  BY <1>1

(* A job that is not in the loop's hands and was not started, as a process finds it. *)
LEMMA ServedFresh ==
  ASSUME NEW j \in JobId, job \in [JobId -> JobRow], now \in Nat, fired[j] = Never,
         task[j].stage = "idle"
  PROVE  Served(j)
<1>1. job[j].next_run \in Nat
  BY DEF JobRow
<1>2. QED
  BY <1>1 DEF Served, Never

\* Nothing has been started at first.
LEMMA ServedStart == Init => ServedInv
<1> SUFFICES ASSUME Init, NEW j \in JobId PROVE Served(j)
  BY DEF ServedInv
<1>1. job \in [JobId -> JobRow] /\ now \in Nat /\ fired[j] = Never /\ task[j].stage = "idle"
  BY IdleTyped DEF Init
<1>2. QED
  BY <1>1, ServedFresh

\* A poll takes jobs that are due, for a time they were not started for.
LEMMA ServedPolled == ASSUME Typed, ServedInv, Poll PROVE ServedInv'
<1> SUFFICES ASSUME NEW j \in JobId PROVE Served(j)'
  BY DEF ServedInv
<1>1. Served(j) /\ task[j].stage \in {"idle", "done"} /\ UNCHANGED <<job, now, fired>>
  BY DEF ServedInv, Poll, BatchOver
<1>2. PICK Q \in DueBatches :
        task' = [k \in JobId |-> IF k \in Q /\ ~IsOpen(k)
                                THEN [IdleTask EXCEPT !.stage = "queued", !.copy = job[k]]
                                ELSE IdleTask]
  BY DEF Poll
<1>3. CASE j \in Q /\ ~IsOpen(j)
  <2>1. task'[j].stage = "queued" /\ task'[j].copy = job[j]
    BY <1>2, <1>3 DEF IdleTask
  <2>2. Exists(j) /\ job[j].enabled /\ job[j].next_run <= now
    BY <1>2, <1>3 DEF DueBatches, Due, IsDue
  <2>3. QED  BY <1>1, <2>1, <2>2 DEF Served, Exists, Recurs, HasNext, NextRun
<1>4. CASE ~(j \in Q /\ ~IsOpen(j))
  <2>1. task'[j].stage = "idle"
    BY <1>2, <1>4 DEF IdleTask
  <2>2. QED  BY <1>1, <2>1 DEF Served, Exists, Recurs, HasNext, NextRun
<1>5. QED
  BY <1>3, <1>4

\* A job that starts is started for the time of its copy.
LEMMA ServedStarted == ASSUME Typed, ServedInv, NEW j \in JobId, StartJob(j) PROVE ServedInv'
<1>0. task \in [JobId -> Task] /\ task[j] \in Task /\ task[j].stage = "queued"
      /\ fired \in [JobId -> Nat \cup {Never}] /\ Served(j)
  BY DEF StartJob, Typed, CronTypeOK, ServedInv
<1>1. /\ UNCHANGED <<job, now>>
      /\ fired' = [fired EXCEPT ![j] = task[j].copy.next_run]
      /\ \A k \in JobId : k # j => task'[k] = task[k]
      /\ task'[j].stage = "executing" /\ task'[j].copy = task[j].copy
  BY <1>0 DEF StartJob, Task
<1>2. fired'[j] <= now /\ job[j].exists # "not yet"
  BY <1>0, <1>1 DEF Served, Typed, SeenInv
<1>3. Served(j)'
  BY <1>0, <1>1, <1>2 DEF Served, Exists
<1>4. \A k \in JobId : k # j => Served(k)'
  BY <1>0, <1>1, ServedSame DEF ServedInv
<1>5. QED
  BY <1>3, <1>4 DEF ServedInv

\* A job that was executed goes on to what its schedule says.
LEMMA ServedFinished ==
  ASSUME Typed, ServedInv, NEW j \in JobId, NEW success \in BOOLEAN, FinishJob(j, success)
  PROVE  ServedInv'
<1>0. task \in [JobId -> Task] /\ task[j] \in Task /\ task[j].stage = "executing" /\ Served(j)
  BY DEF FinishJob, Typed, CronTypeOK, ServedInv
<1>1. /\ UNCHANGED <<job, now, fired>>
      /\ \A k \in JobId : k # j => task'[k] = task[k]
      /\ task'[j].stage = "recorded" /\ task'[j].copy = task[j].copy
  BY <1>0 DEF FinishJob, Task
<1>2. Served(j)'
  BY <1>0, <1>1 DEF Served, Exists
<1>3. QED
  BY <1>1, <1>2, ServedSame DEF ServedInv

\* A settled job is due later, disabled or gone.
LEMMA ServedSettled == ASSUME Typed, ServedInv, NEW j \in JobId, Settle(j) PROVE ServedInv'
<1>0. /\ task \in [JobId -> Task] /\ task[j] \in Task /\ job \in [JobId -> JobRow] /\ job[j] \in JobRow
      /\ now \in Nat /\ fired \in [JobId -> Nat \cup {Never}] /\ Served(j)
  BY NowIsNat DEF Typed, CronTypeOK, ServedInv
<1>1. UNCHANGED <<now, fired>> /\ \A k \in JobId : k # j => job'[k] = job[k] /\ task'[k] = task[k]
  BY <1>0 DEF Settle, RemoveOneShot, FailOneShot, DisableOneShot, Reschedule, Remove, WriteBack
<1>2. CASE RemoveOneShot(j)
  <2>1. ~Exists(j)' /\ task'[j].stage = "done" /\ job'[j].exists # "not yet"
    BY <1>0, <1>2, IdleTyped DEF RemoveOneShot, Remove, Exists, Task, Typed, SeenInv
  <2>2. QED  BY <1>0, <1>1, <2>1, ServedSame DEF Served, ServedInv
<1>3. CASE FailOneShot(j) /\ Exists(j)
  <2> DEFINE rec == [job[j] EXCEPT !.enabled = FALSE]
             t == [task[j] EXCEPT !.stage = "disabling", !.success = FALSE, !.copy = rec]
             row == [job[j] EXCEPT !.last_status = "error"]
  <2>1. task' = [task EXCEPT ![j] = t] /\ job' = [job EXCEPT ![j] = row]
    BY <1>3 DEF FailOneShot
  <2>2. ~rec.enabled /\ rec.schedule = job[j].schedule /\ rec.delete_after_run = job[j].delete_after_run
    BY <1>0 DEF JobRow
  <2>3. /\ row.exists = "yes" /\ row.schedule = job[j].schedule
        /\ row.delete_after_run = job[j].delete_after_run
    BY <1>0, <1>3 DEF JobRow, Exists
  <2> HIDE DEF rec, row
  <2>4. t.stage = "disabling" /\ t.copy = rec
    BY <1>0 DEF Task
  <2> HIDE DEF t
  <2>5. Served(j)'
    BY <1>0, <1>1, <1>3, <2>1, <2>2, <2>3, <2>4 DEF Served, Exists
  <2>6. QED  BY <1>1, <2>5, ServedSame DEF ServedInv
<1>4. CASE FailOneShot(j) /\ ~Exists(j)
  <2>1. UNCHANGED job /\ task'[j].stage = "done"
    <3> DEFINE t == [task[j] EXCEPT !.stage = "done", !.success = FALSE]
    <3>1. UNCHANGED job /\ task' = [task EXCEPT ![j] = t]
      BY <1>4 DEF FailOneShot
    <3>2. t.stage = "done"
      BY <1>0 DEF Task
    <3> HIDE DEF t
    <3>3. QED  BY <1>0, <3>1, <3>2
  <2>2. QED  BY <1>0, <1>1, <1>4, <2>1, ServedSame DEF Served, ServedInv, Exists
<1>5. CASE DisableOneShot(j)
  <2>1. task'[j].stage = "done" /\ ~task[j].copy.enabled /\ task[j].copy \in JobRow
    BY <1>0, <1>5 DEF DisableOneShot, Task, Served
  <2>2. /\ ~Exists(j) => job'[j] = job[j]
        /\ Exists(j) => ~job'[j].enabled
    BY <1>0, <1>5, <2>1 DEF DisableOneShot, WriteBack, JobRow
  <2>3. job'[j].exists = job[j].exists
    BY <1>0, <1>5, <2>1, WriteBackTyped DEF DisableOneShot, Typed, SeenInv
  <2>4. Served(j)'
    <3>1. CASE Exists(j)
      <4>1. ~job'[j].enabled /\ job'[j].exists = "yes"
        BY <2>2, <2>3, <3>1 DEF Exists
      <4>2. QED  BY <1>0, <1>1, <2>1, <4>1 DEF Served
    <3>2. CASE ~Exists(j)
      <4>1. job'[j] = job[j] /\ job'[j].exists # "yes"
        BY <2>2, <3>2 DEF Exists
      <4>2. QED  BY <1>0, <1>1, <2>1, <4>1 DEF Served, Exists
    <3>3. QED  BY <3>1, <3>2
  <2>5. ASSUME NEW k \in JobId, k # j PROVE Served(k)'
    BY <1>1, <2>5, ServedSame DEF ServedInv
  <2>6. QED  BY <2>4, <2>5 DEF ServedInv
<1>6. ASSUME NEW delivered \in BOOLEAN, Reschedule(j, delivered) PROVE ServedInv'
  <2>1. /\ task'[j].stage = "done" /\ task[j].stage = "recorded" /\ ~IsOneShot(task[j].copy)
        /\ task[j].copy.schedule \in Schedule
    BY <1>0, <1>6 DEF Reschedule, Task, JobRow
  <2>2. /\ ~Exists(j) => job'[j] = job[j]
        /\ Exists(j) => /\ HasNext(task[j].copy.schedule) =>
                             job'[j].next_run = NextRun(task[j].copy.schedule)
                        /\ job'[j].exists = "yes"
                        /\ job'[j].schedule = job[j].schedule
                        /\ job'[j].delete_after_run = job[j].delete_after_run
    BY <1>0, <1>6 DEF Reschedule, JobRow, Exists
  <2>3. /\ NextRun(task[j].copy.schedule) \in Nat
        /\ task[j].copy.schedule.kind # "at" => NextRun(task[j].copy.schedule) > now
    BY <1>0, <2>1, NextRunIs
  <2>4. Exists(j) => ~IsOneShot(job[j])
    BY <1>0, <2>1 DEF Served, IsOneShot
  <2>5. Exists(j) /\ Recurs(job[j]) => job'[j].next_run > fired[j]
    <3>1. SUFFICES ASSUME Exists(j), Recurs(job[j]) PROVE job'[j].next_run > fired[j]
      OBVIOUS
    <3>2. task[j].copy.schedule = job[j].schedule
      BY <1>0, <2>1, <3>1 DEF Served
    <3>3. task[j].copy.schedule.kind # "at" /\ HasNext(task[j].copy.schedule)
      BY <2>4, <3>1, <3>2 DEF IsOneShot, Recurs
    <3>4. fired[j] <= now /\ fired[j] \in Int
      BY <1>0, FiredIsInt DEF Served
    <3>5. QED  BY <1>0, <2>2, <2>3, <3>1, <3>3, <3>4
  <2>6. Served(j)'
    <3>1. now' = now /\ fired'[j] = fired[j] /\ task'[j].stage = "done" /\ fired[j] <= now
      BY <1>0, <1>1, <2>1 DEF Served
    <3>2. CASE ~Exists(j)
      BY <1>0, <2>2, <3>1, <3>2 DEF Served, Exists
    <3>3. CASE Exists(j)
      <4>1. /\ job'[j].exists = "yes" /\ job'[j].schedule = job[j].schedule
            /\ job'[j].delete_after_run = job[j].delete_after_run
        BY <2>2, <3>3
      <4>2. ~IsOneShot(job'[j])
        BY <2>4, <3>3, <4>1 DEF IsOneShot
      <4>3. Recurs(job[j])' => Recurs(job[j])
        BY <3>1, <4>1 DEF Recurs, HasNext, NextRun
      <4>4. Recurs(job[j])' => job'[j].next_run > fired'[j]
        BY <2>5, <3>1, <3>3, <4>3
      <4>5. QED  BY <3>1, <4>1, <4>2, <4>4 DEF Served, IsOneShot
    <3>4. QED  BY <3>2, <3>3
  <2>7. QED  BY <1>1, <2>6, ServedSame DEF ServedInv
<1>7. QED
  BY <1>2, <1>3, <1>4, <1>5, <1>6 DEF Settle

\* Nothing else brings a due time back, without edits.
LEMMA ServedOthers ==
  ASSUME Typed, ServedInv, NoEdits, Startup \/ Crash \/ Callers \/ Tick \/ UNCHANGED vars
  PROVE  ServedInv'
<1>0. /\ job \in [JobId -> JobRow] /\ now \in Nat /\ fired \in [JobId -> Nat \cup {Never}]
      /\ manual \in [Runners -> {NoManual} \cup [job : {"one"}, id : JobId, started_at : Time]]
  BY NowIsNat DEF Typed, CronTypeOK
<1>1. CASE UNCHANGED <<job, task, now, fired>>
  BY <1>1, ServedSame DEF ServedInv
<1>2. CASE Crash
  <2> SUFFICES ASSUME NEW j \in JobId PROVE Served(j)'
    BY DEF ServedInv
  <2>1. /\ UNCHANGED <<job, now>> /\ task'[j].stage = "idle"
        /\ fired'[j] = IF j \in InFlight THEN Never ELSE fired[j]
    BY <1>2, IdleTyped DEF Crash
  <2>2. job[j].next_run \in Nat
    BY <1>0 DEF JobRow
  <2>3. CASE j \in InFlight
    BY <1>0, <2>1, <2>2, <2>3 DEF Served, Never
  <2>4. CASE j \notin InFlight
    <3>1. task[j].stage \in {"idle", "queued", "done"} /\ fired'[j] = fired[j] /\ Served(j)
      BY <2>1, <2>4 DEF InFlight, InFlightStage, Typed, CronTypeOK, Task, Stage, ServedInv
    <3>2. Exists(j) /\ job[j].enabled /\ Recurs(job[j]) => job[j].next_run > fired[j]
      <4>1. CASE task[j].stage = "queued"
        <5>1. Exists(j) => Recurs(job[j]) = Recurs(task[j].copy)
          BY <3>1, <4>1 DEF Served, Recurs
        <5>2. QED  BY <3>1, <4>1, <5>1 DEF Served
      <4>2. CASE task[j].stage # "queued"
        BY <3>1, <4>2 DEF Served
      <4>3. QED  BY <4>1, <4>2
    <3>3. Recurs(job[j])' = Recurs(job[j])
      BY <2>1 DEF Recurs, HasNext, NextRun
    <3>4. QED  BY <2>1, <3>1, <3>2, <3>3 DEF Served, Exists
  <2>5. QED  BY <2>3, <2>4
<1>3. CASE Tick
  <2> SUFFICES ASSUME NEW j \in JobId PROVE Served(j)'
    BY DEF ServedInv
  <2>1. UNCHANGED <<job, task, fired>> /\ now' = now + 1 /\ Served(j)
    BY <1>3 DEF Tick, ServedInv
  <2>2. fired[j] \in Int /\ task[j].copy.next_run \in Nat
    BY <1>0, FiredIsInt DEF Typed, CronTypeOK, Task, JobRow
  <2>3. fired[j] <= now /\ (task[j].stage = "queued" => task[j].copy.next_run <= now)
    BY <2>1 DEF Served
  <2>4. fired[j] <= now + 1 /\ (task[j].stage = "queued" => task[j].copy.next_run <= now + 1)
    BY <1>0, <2>2, <2>3
  <2>5. Recurs(job[j])' => Recurs(job[j])
    <3>1. job[j].schedule \in Schedule
      BY <1>0 DEF JobRow
    <3>2. HasNext(job[j].schedule)' => HasNext(job[j].schedule)
      <4>1. ASSUME NEW s \in Schedule PROVE HasNext(s)' => HasNext(s)
        BY <1>0, <2>1, HasNextBefore
      <4>2. QED  BY <2>1, <3>1, <4>1 DEF HasNext, NextRun
    <3>3. QED  BY <2>1, <3>2 DEF Recurs
  <2>6. Recurs(task[j].copy)' => Recurs(task[j].copy)
    <3>1. task[j].copy.schedule \in Schedule
      BY DEF Typed, CronTypeOK, Task, JobRow
    <3>2. HasNext(task[j].copy.schedule)' => HasNext(task[j].copy.schedule)
      <4>1. ASSUME NEW s \in Schedule PROVE HasNext(s)' => HasNext(s)
        BY <1>0, <2>1, HasNextBefore
      <4>2. QED  BY <2>1, <3>1, <4>1 DEF HasNext, NextRun
    <3>3. QED  BY <2>1, <3>2 DEF Recurs
  <2>7. QED  BY <2>1, <2>4, <2>5, <2>6 DEF Served, Exists, IsOneShot
<1>4. ASSUME NEW j \in JobId, RemoveJob(j) PROVE ServedInv'
  <2>1. /\ \A k \in JobId : k # j => job'[k] = job[k]
        /\ ~Exists(j)' /\ job'[j].exists # "not yet"
        /\ UNCHANGED <<task, now, fired>>
    BY <1>0, <1>4, IdleTyped DEF RemoveJob, Remove, Exists
  <2>2. Served(j)'
    BY <2>1 DEF Served, ServedInv, Exists, Recurs, HasNext, NextRun
  <2>3. QED  BY <2>1, <2>2, ServedSame DEF ServedInv
<1>5. ASSUME NEW j \in JobId, NEW new \in NewJobs, AddJob(j, new) PROVE ServedInv'
  <2>1. /\ \A k \in JobId : k # j => job'[k] = job[k]
        /\ job'[j].next_run = NextRun(new.schedule) /\ job'[j].exists = "yes"
        /\ job[j].exists = "not yet"
        /\ UNCHANGED <<task, now, fired>>
    BY <1>0, <1>5 DEF AddJob
  <2>2. NextRun(new.schedule) \in Nat
    BY <1>0, NewJobsAssumption, NextRunIs
  <2>3. fired[j] = Never /\ task[j].stage = "idle"
    BY <2>1 DEF ServedInv, Served, Typed, SeenInv
  <2>4. Served(j)'
    <3>1. task'[j].stage = "idle" /\ fired'[j] = Never /\ now' \in Nat /\ job'[j].exists = "yes"
      BY <1>0, <2>1, <2>3
    <3>2. fired'[j] <= now' /\ job'[j].next_run > fired'[j]
      <4>1. \A n \in Nat : Never <= n /\ n > Never
        BY DEF Never
      <4>2. QED  BY <2>1, <2>2, <3>1, <4>1
    <3>3. QED  BY <3>1, <3>2 DEF Served
  <2>5. QED  BY <2>1, <2>4, ServedSame DEF ServedInv
<1>6. ASSUME NEW m \in Runners, NEW success \in BOOLEAN, FinishManual(m, success) PROVE ServedInv'
  <2> DEFINE j == manual[m].id
  <2>1. /\ j \in JobId
        /\ job' = [job EXCEPT ![j].last_status = IF Exists(j) THEN Status(success) ELSE @]
        /\ UNCHANGED <<task, now, fired>>
    BY <1>0, <1>6 DEF FinishManual
  <2> HIDE DEF j
  <2>2. ASSUME NEW k \in JobId
        PROVE  /\ job'[k].exists = job[k].exists /\ job'[k].enabled = job[k].enabled
               /\ job'[k].schedule = job[k].schedule /\ job'[k].next_run = job[k].next_run
               /\ job'[k].delete_after_run = job[k].delete_after_run
    <3>1. CASE k = j
      <4> DEFINE st == IF Exists(j) THEN Status(success) ELSE job[j].last_status
      <4>1. job'[j] = [job[j] EXCEPT !.last_status = st]
        BY <1>0, <2>1
      <4> HIDE DEF st
      <4>2. job[j] \in JobRow
        BY <1>0, <2>1
      <4>3. QED  BY <3>1, <4>1, <4>2 DEF JobRow
    <3>2. CASE k # j
      BY <1>0, <2>1, <3>2
    <3>3. QED  BY <3>1, <3>2
  <2>3. ASSUME NEW k \in JobId PROVE Served(k)'
    <3>1. Served(k) /\ UNCHANGED <<task, now, fired>>
      BY <2>1 DEF ServedInv
    <3>2. Recurs(job[k])' = Recurs(job[k]) /\ Recurs(task[k].copy)' = Recurs(task[k].copy)
      BY <2>2, <3>1 DEF Recurs, HasNext, NextRun
    <3>3. QED  BY <2>2, <3>1, <3>2 DEF Served, Exists, IsOneShot
  <2>4. QED  BY <2>3 DEF ServedInv
<1>7. QED
  BY <1>1, <1>2, <1>3, <1>4, <1>5, <1>6 DEF Startup, Callers, NoEdits, StartManual, vars

\* Where each job is between two due times, along every run.
LEMMA AlwaysServed == ASSUME NoEdits PROVE Spec => []ServedInv
<1>1. Typed /\ ServedInv /\ [Next]_vars => ServedInv'
  BY ServedPolled, ServedStarted, ServedFinished, ServedSettled, ServedOthers DEF Next, Daemon
<1>2. QED
  BY <1>1, ServedStart, AlwaysTyped, PTL DEF Spec

(* A one-shot job that failed is disabled once its batch has settled it, when nobody
   edits jobs (persist_job_result_no_record). *)
THEOREM FailedStaysDisabledInvariant == ASSUME NoEdits PROVE Spec => []FailedStaysDisabled
<1>1. ServedInv => FailedStaysDisabled
  BY DEF ServedInv, Served, FailedStaysDisabled
<1>2. QED
  BY <1>1, AlwaysServed, PTL

(* A job whose schedule names a further time is started at most once for each of its due
   times, unless the death of the daemon cut the run off, when nobody edits jobs
   (due_jobs, reschedule_after_run, next_run_for_schedule). *)
THEOREM OccurrenceOnceHolds == ASSUME NoEdits PROVE Spec => OccurrenceOnce
<1>1. ServedInv =>
        \A j \in JobId :
          /\ task[j].stage = "queued" /\ task'[j].stage = "executing"
          /\ task[j].copy.schedule.kind = "at" => task[j].copy.delete_after_run
          /\ HasNext(task[j].copy.schedule)
          => task[j].copy.next_run > fired[j]
  BY DEF ServedInv, Served, Recurs
<1>2. QED
  BY <1>1, AlwaysServed, PTL DEF OccurrenceOnce

-----------------------------------------------------------------------------
(* How many rows are kept.                                                  *)

\* A set of natural numbers that is not empty has a smallest one.
LEMMA SmallestExists ==
  ASSUME NEW T \in SUBSET Nat, T # {}
  PROVE  \E x \in T : \A y \in T : x <= y
<1>1. PICK x \in T : \A y \in T : <<y, x>> \notin OpToRel(<, Nat)
  BY WFMin, NatLessThanWellFounded
<1>2. ASSUME NEW y \in T PROVE x <= y
  <2>1. ~(y < x) /\ x \in Nat /\ y \in Nat
    BY <1>1 DEF OpToRel
  <2>2. QED  BY <2>1
<1>3. QED
  BY <1>2

\* Among some rows there is one that every other is newer than.
LEMMA OldestExists ==
  ASSUME NEW N \in SUBSET RunRow, N # {}, \A r, q \in N : r.id = q.id => r = q
  PROVE  \E r \in N : \A q \in N \ {r} : Newer(q, r)
<1>0. \A r \in N : r.started_at \in Nat /\ r.id \in Nat
  BY CronBoundsAssumption DEF RunRow, Time
<1>1. PICK t \in {r.started_at : r \in N} : \A u \in {r.started_at : r \in N} : t <= u
  <2>1. {r.started_at : r \in N} \in SUBSET Nat /\ {r.started_at : r \in N} # {}
    BY <1>0
  <2>2. QED  BY <2>1, SmallestExists
<1> DEFINE first == {r \in N : r.started_at = t}
<1>2. PICK i \in {r.id : r \in first} : \A k \in {r.id : r \in first} : i <= k
  <2>1. {r.id : r \in first} \in SUBSET Nat /\ {r.id : r \in first} # {}
    BY <1>0, <1>1
  <2>2. QED  BY <2>1, SmallestExists
<1>3. PICK r \in first : r.id = i
  OBVIOUS
<1>4. ASSUME NEW q \in N \ {r} PROVE Newer(q, r)
  <2>1. t <= q.started_at /\ r.started_at = t /\ q.id # r.id
    BY <1>1, <1>3
  <2>2. CASE q.started_at = t
    <3>1. i <= q.id
      BY <1>2, <2>2
    <3>2. QED  BY <1>0, <1>3, <2>1, <2>2, <3>1 DEF Newer
  <2>3. CASE q.started_at # t
    BY <1>0, <2>1, <2>3 DEF Newer
  <2>4. QED  BY <2>2, <2>3
<1>5. QED
  BY <1>3, <1>4

\* Rows that have identifiers of their own are finitely many.
LEMMA RowsFinite ==
  ASSUME NEW rs \in SUBSET RunRow, \A r, q \in rs : r.id = q.id => r = q
  PROVE  IsFiniteSet(rs)
<1> DEFINE f == [r \in rs |-> r.id]
<1>1. f \in [rs -> 1 .. MaxRows]
  BY DEF RunRow
<1>2. f \in Injection(rs, 1 .. MaxRows)
  BY <1>1 DEF Injection, IsInjective
<1>3. IsFiniteSet(1 .. MaxRows)
  BY CronBoundsAssumption, FS_Interval
<1> HIDE DEF f
<1>4. QED
  BY <1>2, <1>3, FS_Injection

(* Pruning keeps max_run_history rows at most: each row kept has fewer than *)
(* that many newer ones, and the others kept are newer than the oldest.     *)
LEMMA NewestBounded ==
  ASSUME NEW rs \in SUBSET RunRow, \A r, q \in rs : r.id = q.id => r = q
  PROVE  IsFiniteSet(Newest(rs)) /\ Cardinality(Newest(rs)) <= MaxHistory
<1>0. MaxHistory \in Nat \ {0} /\ IsFiniteSet(rs)
  BY CronLimitsAssumption, RowsFinite
<1> DEFINE N == Newest(rs)
<1>1. N \subseteq rs /\ IsFiniteSet(N)
  BY <1>0, NewestAre, FS_Subset
<1>2. CASE N = {}
  BY <1>0, <1>1, <1>2, FS_EmptySet
<1>3. CASE N # {}
  <2>1. PICK r \in N : \A q \in N \ {r} : Newer(q, r)
    <3> HIDE DEF N
    <3>1. QED  BY <1>1, <1>3, OldestExists
  <2> DEFINE newer == {q \in rs : Newer(q, r)}
  <2>2. Cardinality(newer) < MaxHistory
    BY DEF Newest
  <2>3. IsFiniteSet(newer) /\ Cardinality(newer) \in Nat
    BY <1>0, FS_Subset, FS_CardinalityType
  <2>4. N \ {r} \in SUBSET newer
    BY <1>1, <2>1
  <2> HIDE DEF newer, N
  <2>5. Cardinality(N \ {r}) <= Cardinality(newer)
    BY <2>3, <2>4, FS_Subset
  <2>6. Cardinality(N \ {r}) = Cardinality(N) - 1 /\ Cardinality(N) \in Nat
    BY <1>1, <2>1, FS_RemoveElement, FS_CardinalityType
  <2>7. QED  BY <1>0, <1>1, <2>2, <2>3, <2>5, <2>6 DEF N
<1>4. QED
  BY <1>2, <1>3

Outcomes(rs, j) == {r \in rs : r.job = j /\ r.status \in {"ok", "error"}}

\* Some of a job's outcomes are no more than all of them.
LEMMA FewerOutcomes ==
  ASSUME NEW S, NEW T, IsFiniteSet(S), T \subseteq S, Cardinality(S) <= MaxHistory
  PROVE  Cardinality(T) <= MaxHistory
<1>1. Cardinality(T) <= Cardinality(S) /\ IsFiniteSet(T)
  BY FS_Subset
<1>2. Cardinality(S) \in Nat /\ Cardinality(T) \in Nat
  BY <1>1, FS_CardinalityType
<1>3. QED
  BY <1>1, <1>2, CronLimitsAssumption

(* Why the history is bounded: what complete_run prunes is the history of   *)
(* the job whose sentinel it completes, since the identifier a task holds   *)
(* is that of a row of its own job.                                         *)
HistoryInv ==
  /\ \A j \in JobId : Cardinality(Outcomes(rows, j)) <= MaxHistory
  /\ \A j \in JobId : task[j].row <= lastRow
  /\ \A j \in JobId, r \in rows : r.id = task[j].row => r.job = j

\* What the invariants say of a row and of the tasks.
LEMMA RowFacts ==
  ASSUME Typed
  PROVE  /\ RowsOK(rows) /\ IsFiniteSet(rows)
         /\ \A r \in rows : r.id \in Nat \ {NoRow} /\ r.job \in JobId
         /\ lastRow \in Nat /\ NoRow <= lastRow
         /\ \A j \in JobId : task[j] \in Task /\ task[j].row \in Nat
<1>1. RowsOK(rows) /\ lastRow \in 0 .. MaxRows /\ \A j \in JobId : task[j] \in Task
  BY DEF Typed, CronTypeOK, RowsOK
<1>2. IsFiniteSet(rows)
  BY <1>1, RowsFinite DEF RowsOK
<1>3. \A r \in rows : r.id \in Nat \ {NoRow} /\ r.job \in JobId
  BY <1>1, CronBoundsAssumption DEF RowsOK, RunRow, NoRow
<1>4. lastRow \in Nat /\ NoRow <= lastRow /\ \A j \in JobId : task[j].row \in Nat
  BY <1>1, CronBoundsAssumption DEF Task, NoRow
<1>5. QED
  BY <1>1, <1>2, <1>3, <1>4

(* A step that inserts and completes nothing. *)
LEMMA HistoryShrinks ==
  ASSUME Typed, HistoryInv, rows' \subseteq rows, lastRow' = lastRow,
         \A j \in JobId : task'[j].row \in {task[j].row, NoRow}
  PROVE  HistoryInv'
<1>1. ASSUME NEW j \in JobId PROVE Cardinality(Outcomes(rows', j)) <= MaxHistory
  <2>1. IsFiniteSet(Outcomes(rows, j)) /\ Outcomes(rows', j) \subseteq Outcomes(rows, j)
    BY RowFacts, FS_Subset DEF Outcomes
  <2>2. Cardinality(Outcomes(rows, j)) <= MaxHistory
    BY DEF HistoryInv
  <2>3. QED  BY <2>1, <2>2, FewerOutcomes
<1>2. \A j \in JobId : task'[j].row <= lastRow'
  BY RowFacts DEF HistoryInv
<1>3. \A j \in JobId, r \in rows' : r.id = task'[j].row => r.job = j
  BY RowFacts DEF HistoryInv
<1>4. QED
  BY <1>1, <1>2, <1>3 DEF HistoryInv

\* A startup, a poll and a crash record no outcome beyond the limit.
LEMMA HistoryLoop == ASSUME Typed, HistoryInv, Startup \/ Poll \/ Crash PROVE HistoryInv'
<1>1. CASE Startup
  <2>1. rows' = Swept(rows) /\ UNCHANGED <<lastRow, task>>
    BY <1>1 DEF Startup
  <2>2. \A r \in rows' : \E q \in rows : r.id = q.id /\ r.job = q.job
    BY <2>1, RowFacts DEF Swept, RowsOK, RunRow
  <2>3. \A j \in JobId : Outcomes(rows', j) = Outcomes(rows, j)
    BY <2>1, RowFacts DEF Swept, Outcomes, RowsOK, RunRow
  <2>4. QED  BY <2>1, <2>2, <2>3 DEF HistoryInv
<1>2. CASE Poll
  <2>1. \A j \in JobId : task'[j].row = NoRow
    <3>1. IdleTask.row = NoRow /\ \A rec : [IdleTask EXCEPT !.stage = "queued", !.copy = rec].row = NoRow
      BY DEF IdleTask
    <3> QED  BY <1>2, <3>1 DEF Poll
  <2>2. UNCHANGED <<rows, lastRow>>
    BY <1>2 DEF Poll
  <2>3. QED  BY <2>1, <2>2, HistoryShrinks
<1>3. CASE Crash
  <2>1. UNCHANGED <<rows, lastRow>> /\ \A j \in JobId : task'[j].row = NoRow
    BY <1>3 DEF Crash, IdleTask
  <2>2. QED  BY <2>1, HistoryShrinks
<1>4. QED
  BY <1>1, <1>2, <1>3

\* A sentinel is no outcome.
LEMMA HistoryInserted ==
  ASSUME Typed, HistoryInv, NEW j \in JobId, StartJob(j) PROVE HistoryInv'
<1>0. task \in [JobId -> Task] /\ task[j] \in Task
  BY DEF Typed, CronTypeOK
<1>1. CASE Exists(j)
  <2> DEFINE new == [id |-> lastRow + 1, job |-> j, started_at |-> now, status |-> "running"]
  <2>1. /\ rows' = rows \cup {new} /\ lastRow' = lastRow + 1
        /\ \A k \in JobId : k # j => task'[k] = task[k]
        /\ task'[j].row = lastRow + 1
    BY <1>0, <1>1 DEF StartJob, Task
  <2>2. new.id = lastRow + 1 /\ new.job = j /\ new.status = "running"
    OBVIOUS
  <2> HIDE DEF new
  <2>3. \A k \in JobId : Outcomes(rows', k) = Outcomes(rows, k)
    BY <2>1, <2>2 DEF Outcomes
  <2>4. \A k \in JobId : task'[k].row <= lastRow'
    BY <2>1, RowFacts DEF HistoryInv
  <2>5. ASSUME NEW k \in JobId, NEW r \in rows', r.id = task'[k].row PROVE r.job = k
    <3>1. CASE r = new
      <4>1. k = j
        BY <2>1, <2>2, <2>5, <3>1, RowFacts DEF HistoryInv
      <4>2. QED  BY <2>2, <3>1, <4>1
    <3>2. CASE r \in rows
      <4>1. r.id <= lastRow /\ r.id \in Nat
        BY <3>2, RowFacts DEF RowsOK
      <4>2. k # j
        BY <2>1, <2>5, <4>1, RowFacts
      <4>3. QED  BY <2>1, <2>5, <3>2, <4>2 DEF HistoryInv
    <3>3. QED  BY <2>1, <3>1, <3>2
  <2>6. QED  BY <2>3, <2>4, <2>5 DEF HistoryInv
<1>2. CASE ~Exists(j)
  <2>1. UNCHANGED <<rows, lastRow>> /\ \A k \in JobId : task'[k].row = task[k].row
    BY <1>0, <1>2 DEF StartJob, Task
  <2>2. QED  BY <2>1, HistoryShrinks
<1>3. QED
  BY <1>1, <1>2

\* An outcome is recorded and the history of its job pruned in one transaction.
LEMMA HistoryCompleted ==
  ASSUME Typed, HistoryInv, NEW j \in JobId, NEW success \in BOOLEAN, FinishJob(j, success)
  PROVE  HistoryInv'
<1>0. /\ task \in [JobId -> Task] /\ task[j] \in Task /\ task[j].stage = "executing"
  BY DEF FinishJob, Typed, CronTypeOK
<1>1. \A k \in JobId : task'[k].row = task[k].row
  BY <1>0 DEF FinishJob, Task
<1>2. CASE CompleteRun(task[j].row, j, success)
  <2> DEFINE rs == {IF r.id = task[j].row THEN [r EXCEPT !.status = Status(success)] ELSE r : r \in rows}
  <2>1. rows' = (rs \ FinishedRowsOf(rs, j)) \cup Newest(FinishedRowsOf(rs, j)) /\ lastRow' = lastRow
    BY <1>2 DEF CompleteRun
  <2>2. RowsOK(rs)
    BY RowFacts, RowsWithStatus
  <2>3. \A r \in rs : \E q \in rows :
          /\ r.id = q.id /\ r.job = q.job
          /\ q.id # task[j].row => r = q
    BY RowFacts DEF RowsOK, RunRow
  <2> HIDE DEF rs
  <2>4. rows' \subseteq rs
    BY <2>1, NewestAre DEF FinishedRowsOf
  <2>5. ASSUME NEW k \in JobId PROVE Cardinality(Outcomes(rows', k)) <= MaxHistory
    <3>1. CASE k = j
      <4>1. /\ FinishedRowsOf(rs, j) \in SUBSET RunRow
            /\ \A r, q \in FinishedRowsOf(rs, j) : r.id = q.id => r = q
        BY <2>2 DEF FinishedRowsOf, RowsOK
      <4>2. Outcomes(rows', j) \subseteq Newest(FinishedRowsOf(rs, j))
        BY <2>1 DEF Outcomes, FinishedRowsOf
      <4>3. QED  BY <3>1, <4>1, <4>2, NewestBounded, FewerOutcomes
    <3>2. CASE k # j
      <4>1. Outcomes(rows', k) \subseteq Outcomes(rows, k)
        BY <2>3, <2>4, <3>2 DEF Outcomes, HistoryInv
      <4>2. IsFiniteSet(Outcomes(rows, k)) /\ Cardinality(Outcomes(rows, k)) <= MaxHistory
        BY RowFacts, FS_Subset DEF Outcomes, HistoryInv
      <4>3. QED  BY <4>1, <4>2, FewerOutcomes
    <3>3. QED  BY <3>1, <3>2
  <2>6. \A k \in JobId, r \in rows' : r.id = task'[k].row => r.job = k
    BY <1>1, <2>3, <2>4 DEF HistoryInv
  <2>7. QED  BY <1>1, <2>1, <2>5, <2>6 DEF HistoryInv
<1>3. CASE task[j].row = NoRow /\ RecordRun(j, task[j].started_at, success)
  <2>1. ~Exists(j)
    BY <1>0, <1>3 DEF Typed, SeenInv
  <2>2. UNCHANGED <<rows, lastRow>>
    BY <1>3, <2>1 DEF RecordRun
  <2>3. QED  BY <1>1, <2>2, HistoryShrinks
<1>4. QED
  BY <1>2, <1>3 DEF FinishJob

\* So is that of a run by hand.
LEMMA HistoryRecorded ==
  ASSUME Typed, HistoryInv, NEW m \in Runners, NEW success \in BOOLEAN, FinishManual(m, success)
  PROVE  HistoryInv'
<1> DEFINE j == manual[m].id
           started == manual[m].started_at
<1>1. /\ j \in JobId /\ started \in Time /\ lastRow < MaxRows
      /\ RecordRun(j, started, success) /\ task' = task
  BY DEF FinishManual, Typed, CronTypeOK
<1> HIDE DEF j, started
<1>2. CASE ~Exists(j)
  <2>1. UNCHANGED <<rows, lastRow>>
    BY <1>1, <1>2 DEF RecordRun
  <2>2. QED  BY <1>1, <2>1, HistoryShrinks
<1>3. CASE Exists(j)
  <2> DEFINE new == [id |-> lastRow + 1, job |-> j, started_at |-> started, status |-> Status(success)]
             rs == rows \cup {new}
  <2>1. /\ rows' = (rs \ RowsOf(rs, j)) \cup Newest(RowsOf(rs, j))
        /\ lastRow' = lastRow + 1
    BY <1>1, <1>3 DEF RecordRun
  <2>2. new \in RunRow /\ new.id = lastRow + 1 /\ new.job = j
    <3>1. lastRow + 1 \in 1 .. MaxRows
      BY <1>1, RowFacts, CronBoundsAssumption
    <3>2. Status(success) \in {"running", "ok", "error", "interrupted"}
      BY DEF Status
    <3>3. QED  BY <1>1, <3>1, <3>2 DEF RunRow
  <2> HIDE DEF new
  <2>3. rs \subseteq RunRow /\ \A r, q \in rs : r.id = q.id => r = q
    BY <2>2, RowFacts DEF RowsOK
  <2>4. rows' \subseteq rs
    BY <2>1, NewestAre DEF RowsOf
  <2>5. ASSUME NEW k \in JobId PROVE Cardinality(Outcomes(rows', k)) <= MaxHistory
    <3>1. CASE k = j
      <4>1. RowsOf(rs, j) \in SUBSET RunRow /\ \A r, q \in RowsOf(rs, j) : r.id = q.id => r = q
        BY <2>3 DEF RowsOf
      <4>2. Outcomes(rows', j) \subseteq Newest(RowsOf(rs, j))
        BY <2>1 DEF Outcomes, RowsOf
      <4>3. QED  BY <3>1, <4>1, <4>2, NewestBounded, FewerOutcomes
    <3>2. CASE k # j
      <4>1. Outcomes(rows', k) \subseteq Outcomes(rows, k)
        BY <2>2, <2>4, <3>2 DEF Outcomes
      <4>2. IsFiniteSet(Outcomes(rows, k)) /\ Cardinality(Outcomes(rows, k)) <= MaxHistory
        BY RowFacts, FS_Subset DEF Outcomes, HistoryInv
      <4>3. QED  BY <4>1, <4>2, FewerOutcomes
    <3>3. QED  BY <3>1, <3>2
  <2>6. ASSUME NEW k \in JobId, NEW r \in rows', r.id = task'[k].row PROVE r.job = k
    <3>1. r # new
      BY <1>1, <2>2, <2>6, RowFacts DEF HistoryInv
    <3>2. QED  BY <1>1, <2>4, <2>6, <3>1 DEF HistoryInv
  <2>7. \A k \in JobId : task'[k].row <= lastRow'
    BY <1>1, <2>1, RowFacts DEF HistoryInv
  <2>8. QED  BY <2>5, <2>6, <2>7 DEF HistoryInv
<1>4. QED
  BY <1>2, <1>3

\* All other steps leave the outcomes alone, or take some away.
LEMMA HistoryOthers ==
  ASSUME Typed, HistoryInv,
         \/ \E j \in JobId : Settle(j) \/ RemoveJob(j) \/ \E new \in NewJobs : AddJob(j, new)
         \/ \E e \in Editors : \/ WriteUpdate(e)
                              \/ \E j \in JobId, p \in Patches : ReadForUpdate(e, j, p)
         \/ \E m \in Runners, j \in JobId : StartManual(m, j)
         \/ Tick
         \/ UNCHANGED vars
  PROVE  HistoryInv'
<1>1. ASSUME NEW j \in JobId, Settle(j) PROVE HistoryInv'
  <2>1. /\ rows' \subseteq rows /\ lastRow' = lastRow
        /\ \A k \in JobId : task'[k].row = task[k].row
    BY <1>1, SettleIs
  <2>2. QED  BY <2>1, HistoryShrinks
<1>2. CASE ~ \E j \in JobId : Settle(j)
  <2>1. rows' \subseteq rows /\ UNCHANGED <<lastRow, task>>
    BY <1>2 DEF RemoveJob, Remove, AddJob, WriteUpdate, ReadForUpdate, StartManual, Tick, vars
  <2>2. QED  BY <2>1, HistoryShrinks
<1>3. QED
  BY <1>1, <1>2

(* A job keeps no more than max_run_history rows that ended "ok" or "error", whatever
   crashes, removals, edits and manual runs came between (complete_run, record_run). *)
THEOREM OutcomesBoundedInvariant == Spec => []OutcomesBounded
<1>1. Init => HistoryInv
  <2> SUFFICES ASSUME Init PROVE HistoryInv
    OBVIOUS
  <2>1. \A j \in JobId : task[j].row = 0 /\ lastRow = 0 /\ Outcomes(rows, j) = {} /\ rows = {}
    BY DEF Init, IdleTask, NoRow, Outcomes
  <2>2. Cardinality({}) <= MaxHistory
    BY FS_EmptySet, CronLimitsAssumption
  <2>3. \A j \in JobId : Cardinality(Outcomes(rows, j)) <= MaxHistory /\ task[j].row <= lastRow
    BY <2>1, <2>2
  <2>4. \A j \in JobId, r \in rows : r.id = task[j].row => r.job = j
    BY <2>1
  <2>5. QED  BY <2>3, <2>4 DEF HistoryInv
<1>2. Typed /\ HistoryInv /\ [Next]_vars => HistoryInv'
  BY HistoryLoop, HistoryInserted, HistoryCompleted, HistoryRecorded, HistoryOthers
  DEF Next, Daemon, Callers
<1>3. HistoryInv => OutcomesBounded
  BY DEF HistoryInv, Outcomes, OutcomesBounded
<1>4. QED
  BY <1>1, <1>2, <1>3, AlwaysTyped, PTL DEF Spec
=============================================================================
