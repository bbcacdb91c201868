------------------------------ MODULE SopEngine ------------------------------
(***************************************************************************)
(* The SOP engine (src/src/sop/engine.rs): the in-memory owner of every    *)
(* Standard Operating Procedure run, behind one std::sync::Mutex.          *)
(*                                                                         *)
(* A call of the engine (start_run, advance_step, approve_step, ...) runs  *)
(* under that mutex from its first read to its last write, so each is one  *)
(* action here.  What interleaves is the calls: the agent's tools          *)
(* (src/src/tools/sop_execute.rs, sop_advance.rs, sop_approve.rs), the     *)
(* approval-timeout poll, a reload of the SOP directory, the passing of    *)
(* time and the death of the process, in any order and by any caller.      *)
(*                                                                         *)
(* A SOP is abstracted to what the engine reads of it: the approval flag   *)
(* of each of its steps, its execution mode, its priority and its limits.  *)
(***************************************************************************)
EXTENDS Integers, Sequences, FiniteSets

CONSTANTS
  SopNames,             \* names a SOP can have
  NoSop,                \* the SOP of the record of a run that does not exist
  Catalogs,             \* what `reload` can find in the SOP directory
  MaxConcurrentTotal,   \* SopConfig.max_concurrent_total
  ApprovalTimeout,      \* SopConfig.approval_timeout_secs; 0 disables it
  MaxFinished,          \* SopConfig.max_finished_runs; 0 keeps every run
  MaxRuns,              \* bound of the model: runs ever started
  MaxTime               \* bound of the model: seconds that pass

Priority == {"low", "normal", "high", "critical"}
Mode == {"auto", "supervised", "step_by_step", "priority_based"}

\* requires_confirmation[i] is the flag of step i; its length is the number of steps.
Sop == [priority : Priority, mode : Mode, requires_confirmation : Seq(BOOLEAN),
        cooldown : Nat, max_concurrent : Nat]

ASSUME CatalogsAssumption ==
  \A c \in Catalogs : DOMAIN c \subseteq SopNames /\ c \in [DOMAIN c -> Sop]
ASSUME LimitsAssumption ==
  /\ MaxConcurrentTotal \in Nat
  /\ ApprovalTimeout \in Nat
  /\ MaxFinished \in Nat
ASSUME BoundsAssumption == MaxRuns \in Nat /\ MaxTime \in Nat
ASSUME NoSopAssumption == NoSop \notin SopNames

VARIABLES
  catalog,   \* SopEngine.sops: the definitions loaded last, by name
  run,       \* the record of every run this process has started
  active,    \* the keys of SopEngine.active_runs
  finished,  \* SopEngine.finished_runs, oldest first
  issued,    \* run identifiers handed out (epoch milliseconds and run_counter)
  now        \* wall clock, seconds

vars == <<catalog, run, active, finished, issued, now>>

-----------------------------------------------------------------------------
RunId == 1 .. MaxRuns
Time == 0 .. MaxTime
Never == -1     \* Option::None of waiting_since and completed_at

Outcome == {"completed", "failed", "skipped"}
ActiveStatus == {"Running", "WaitingApproval"}
FinalStatus == {"Completed", "Failed", "Cancelled"}
Status == ActiveStatus \cup FinalStatus \cup {"None"}

StepResult == [step : Nat, outcome : Outcome]

Run == [sop : SopNames \cup {NoSop}, status : Status, current_step : Nat,
        total_steps : Nat, step_results : Seq(StepResult),
        waiting_since : Time \cup {Never}, completed_at : Time \cup {Never}]

NoRun == [sop |-> NoSop, status |-> "None", current_step |-> 0, total_steps |-> 0,
          step_results |-> << >>, waiting_since |-> Never, completed_at |-> Never]

-----------------------------------------------------------------------------
(* Reads of the engine.                                                    *)

Loaded(s) == s \in DOMAIN catalog
StepCount(s) == Len(catalog[s].requires_confirmation)
ActiveOf(s) == {r \in active : run[r].sop = s}

\* cooldown_elapsed: the clock is at least `secs` past the timestamp.
Elapsed(since, secs) == now - since >= secs

\* resolve_step_action: whether step n of definition d stops for an operator.
NeedsApproval(d, n) ==
  \/ d.requires_confirmation[n]
  \/ d.mode = "step_by_step"
  \/ d.mode = "supervised" /\ n = 1
  \/ d.mode = "priority_based" /\ d.priority \in {"low", "normal"} /\ n = 1

\* Mutant: searches finished_runs from the front.
IsLastFinished_FromFront(i, s) ==
  /\ run[finished[i]].sop = s
  /\ \A j \in DOMAIN finished : run[finished[j]].sop = s => i <= j

\* last_finished_run: the newest retained run of s, found from the back.
IsLastFinished(i, s) ==
  /\ run[finished[i]].sop = s
  /\ \A j \in DOMAIN finished : run[finished[j]].sop = s => j <= i

CooledDown(s) ==
  catalog[s].cooldown > 0 =>
    \A i \in DOMAIN finished :
      IsLastFinished(i, s) => Elapsed(run[finished[i]].completed_at, catalog[s].cooldown)

\* Mutant: both limits admit one run too many.
CanStart_OffByOne(s) ==
  /\ Loaded(s)
  /\ Cardinality(ActiveOf(s)) <= catalog[s].max_concurrent
  /\ Cardinality(active) <= MaxConcurrentTotal
  /\ CooledDown(s)

CanStart(s) ==
  /\ Loaded(s)
  /\ Cardinality(ActiveOf(s)) < catalog[s].max_concurrent
  /\ Cardinality(active) < MaxConcurrentTotal
  /\ CooledDown(s)

-----------------------------------------------------------------------------
(* Writes shared by the calls.                                             *)

\* Mutant: stores the deadline instead of the beginning of the wait.
Arrive_Deadline(rec, d, n) ==
  IF NeedsApproval(d, n)
  THEN [rec EXCEPT !.status = "WaitingApproval", !.waiting_since = now + ApprovalTimeout]
  ELSE rec

\* The run after resolve_step_action picked the action of its current step n: only
\* a step that waits writes the status, one that executes leaves it as it is.
Arrive(rec, d, n) ==
  IF NeedsApproval(d, n)
  THEN [rec EXCEPT !.status = "WaitingApproval", !.waiting_since = now]
  ELSE rec

\* Mutant: a retried report replaces the last result.
Reported_Replaces(rec, outcome) ==
  [rec EXCEPT !.step_results =
     SubSeq(@, 1, Len(@) - 1) \o << [step |-> rec.current_step, outcome |-> outcome] >>]

\* The run with the result of its current step, which the sop_advance tool numbers.
Reported(rec, outcome) ==
  [rec EXCEPT !.step_results = Append(@, [step |-> rec.current_step, outcome |-> outcome])]

\* Mutant: evicts the run that just finished.
Retain_Oldest(q) ==
  IF MaxFinished > 0 /\ Len(q) > MaxFinished THEN SubSeq(q, 1, MaxFinished) ELSE q

\* The oldest runs are evicted once there are more than MaxFinished.
Retain(q) ==
  IF MaxFinished > 0 /\ Len(q) > MaxFinished
  THEN SubSeq(q, Len(q) - MaxFinished + 1, Len(q))
  ELSE q

\* Mutant: the run stays in active_runs.
Finish_StaysActive(r, rec, status) ==
  /\ run' = [run EXCEPT ![r] = [rec EXCEPT !.status = status, !.completed_at = now]]
  /\ finished' = Retain(Append(finished, r))
  /\ UNCHANGED active

\* finish_run: out of active_runs, onto the end of finished_runs.
Finish(r, rec, status) ==
  /\ run' = [run EXCEPT ![r] = [rec EXCEPT !.status = status, !.completed_at = now]]
  /\ active' = active \ {r}
  /\ finished' = Retain(Append(finished, r))

\* The process is gone and a new one has loaded the directory: nothing is persisted.
LoseMemory ==
  /\ catalog' \in Catalogs
  /\ run' = [r \in RunId |-> NoRun]
  /\ active' = {}
  /\ finished' = << >>
  /\ UNCHANGED <<issued, now>>

-----------------------------------------------------------------------------
Init ==
  /\ catalog \in Catalogs
  /\ run = [r \in RunId |-> NoRun]
  /\ active = {}
  /\ finished = << >>
  /\ issued = 0
  /\ now = 0
  
\* start_run, for the sop_execute tool.
StartRun(s) ==
  LET r == issued + 1
      d == catalog[s]
      rec == [NoRun EXCEPT !.sop = s, !.status = "Running", !.current_step = 1,
                           !.total_steps = StepCount(s)]
  IN  /\ issued < MaxRuns
      /\ CanStart(s)
      /\ StepCount(s) > 0
      /\ run' = [run EXCEPT ![r] = Arrive(rec, d, 1)]
      /\ active' = active \cup {r}
      /\ issued' = r
      /\ UNCHANGED <<catalog, finished, now>>

\* advance_step, for the sop_advance tool, which takes the number of the step from
\* the run itself.  The status of the run is not looked at.
AdvanceStep(r, outcome) ==
  LET s == run[r].sop
      n == run[r].current_step
      reported == Reported(run[r], outcome)
      next == [reported EXCEPT !.current_step = n + 1]
  IN  /\ r \in active
      /\ Loaded(s)
      /\ \/ /\ outcome = "failed"
            /\ Finish(r, reported, "Failed")
         \/ /\ outcome # "failed"
            /\ n + 1 > run[r].total_steps
            /\ Finish(r, reported, "Completed")
         \/ /\ outcome # "failed"
            /\ n + 1 <= run[r].total_steps
            /\ n + 1 <= StepCount(s)
            /\ run' = [run EXCEPT ![r] = Arrive(next, catalog[s], n + 1)]
            /\ UNCHANGED <<active, finished>>
      /\ UNCHANGED <<catalog, issued, now>>

\* Mutant: the timestamp of the wait survives the approval.
Approved_KeepsTimestamp(rec) == [rec EXCEPT !.status = "Running"]

\* What approve_step writes before it looks the SOP up.
Approved(rec) == [rec EXCEPT !.status = "Running", !.waiting_since = Never]

\* approve_step, for the sop_approve tool: when the SOP is no longer loaded the call
\* fails, but the run has already left WaitingApproval.
ApproveStep(r) ==
  /\ r \in active
  /\ run[r].status = "WaitingApproval"
  /\ Loaded(run[r].sop) => run[r].current_step <= StepCount(run[r].sop)
  /\ run' = [run EXCEPT ![r] = Approved(@)]
  /\ UNCHANGED <<catalog, active, finished, issued, now>>

CancelRun(r) ==
  /\ r \in active
  /\ Finish(r, run[r], "Cancelled")
  /\ UNCHANGED <<catalog, issued, now>>

\* The runs check_approval_timeouts approves by itself.
TimedOut ==
  {r \in active : /\ run[r].status = "WaitingApproval"
                  /\ run[r].waiting_since # Never
                  /\ Elapsed(run[r].waiting_since, ApprovalTimeout)
                  /\ Loaded(run[r].sop)
                  /\ catalog[run[r].sop].priority \in {"high", "critical"}}

CheckApprovalTimeouts ==
  /\ ApprovalTimeout # 0
  /\ TimedOut # {}
  /\ \A r \in TimedOut : run[r].current_step <= StepCount(run[r].sop)
  /\ run' = [r \in RunId |-> IF r \in TimedOut THEN Approved(run[r]) ELSE run[r]]
  /\ UNCHANGED <<catalog, active, finished, issued, now>>

Reload ==
  /\ catalog' \in Catalogs
  /\ catalog' # catalog
  /\ UNCHANGED <<run, active, finished, issued, now>>

\* sop.steps[current_step - 1] is out of range when the SOP was reloaded with fewer
\* steps than the run was started with; a release build aborts (panic = "abort").
IndexPanic(r) ==
  LET s == run[r].sop
      n == run[r].current_step
  IN  /\ r \in active
      /\ Loaded(s)
      /\ \/ n < run[r].total_steps /\ n + 1 > StepCount(s)               \* advance_step
         \/ run[r].status = "WaitingApproval" /\ n > StepCount(s)        \* approve_step
      /\ LoseMemory

\* The daemon is stopped or killed, and started again.
Restart == LoseMemory

Tick ==
  /\ now < MaxTime
  /\ now' = now + 1
  /\ UNCHANGED <<catalog, run, active, finished, issued>>

Next ==
  \/ \E s \in SopNames : StartRun(s)
  \/ \E r \in RunId : \/ \E outcome \in Outcome : AdvanceStep(r, outcome)
                      \/ ApproveStep(r)
                      \/ CancelRun(r)
                      \/ IndexPanic(r)
  \/ CheckApprovalTimeouts
  \/ Reload
  \/ Restart
  \/ Tick

Spec == Init /\ [][Next]_vars

-----------------------------------------------------------------------------
(* Properties.                                                             *)

\* Every variable holds the values the engine's types allow.
TypeOK ==
  /\ catalog \in Catalogs
  /\ run \in [RunId -> Run]
  /\ active \in SUBSET RunId
  /\ finished \in Seq(RunId)
  /\ issued \in 0 .. MaxRuns
  /\ now \in Time

\* The engine never holds more active runs than max_concurrent_total, and never more
\* runs of one SOP than a definition of that SOP allowed, whatever was reloaded between
\* the starts (can_start).
ConcurrencyBounded ==
  /\ Cardinality(active) <= MaxConcurrentTotal
  /\ \A s \in SopNames : ActiveOf(s) # {} =>
       \E c \in Catalogs : /\ s \in DOMAIN c
                           /\ Cardinality(ActiveOf(s)) <= c[s].max_concurrent

\* A run carries exactly one result per step, in order: an active run those of the steps
\* before its current one, none of them failed; a completed run all of them; a failed
\* run ends with its only failed result (advance_step, finish_run).
NoFailureIn(results) == \A i \in DOMAIN results : results[i].outcome # "failed"
StepAccounting ==
  \A r \in RunId :
    LET rec == run[r]
        results == rec.step_results
    IN  /\ \A i \in DOMAIN results : results[i].step = i
        /\ r \in active =>
             /\ Len(results) = rec.current_step - 1
             /\ rec.current_step \in 1 .. rec.total_steps
             /\ NoFailureIn(results)
        /\ rec.status = "Completed" => Len(results) = rec.total_steps /\ NoFailureIn(results)
        /\ rec.status = "Failed" =>
             /\ Len(results) \in 1 .. rec.total_steps
             /\ \A i \in DOMAIN results :
                  results[i].outcome = "failed" <=> i = Len(results)

\* finished_runs holds finished runs, each once, in the order they finished, never more
\* than MaxFinished, and a run was evicted only for ones that finished after it
\* (finish_run).
Evicted == {r \in RunId : /\ run[r].status \in FinalStatus
                          /\ \A i \in DOMAIN finished : finished[i] # r}
RetentionCorrect ==
  /\ MaxFinished > 0 => Len(finished) <= MaxFinished
  /\ \A i \in DOMAIN finished : run[finished[i]].status \in FinalStatus
  /\ \A i, j \in DOMAIN finished : i < j =>
       /\ finished[i] # finished[j]
       /\ run[finished[i]].completed_at <= run[finished[j]].completed_at
  /\ Evicted # {} => MaxFinished > 0 /\ Len(finished) = MaxFinished
  /\ \A r \in Evicted, i \in DOMAIN finished :
       run[r].completed_at <= run[finished[i]].completed_at

\* A run waits for approval exactly when it carries the time it began to wait, so a
\* waiting run is always visible to the timeout poll (start_run, advance_step,
\* approve_step, check_approval_timeouts).
WaitingIsTimed ==
  \A r \in active : run[r].status = "WaitingApproval" <=> run[r].waiting_since # Never

Starts(r) == run[r].status = "None" /\ run'[r].status \in ActiveStatus

\* A run starts only when every retained run of its SOP, not just the one can_start
\* finds, finished at least cooldown seconds before.  An evicted run holds no start
\* back: finish_run drops what the cooldown is read from.
CooldownRespected ==
  [][\A r \in RunId, i \in DOMAIN finished :
       /\ Starts(r)
       /\ run[finished[i]].sop = run'[r].sop
       => now - run[finished[i]].completed_at >= catalog[run'[r].sop].cooldown]_vars

\* The runs of the engine, seen as the pool of SopRunPool.
phaseOf(r) ==
  IF r > issued THEN "unborn"
  ELSE IF run[r].status = "None" THEN "lost"
  ELSE IF run[r].status \in ActiveStatus THEN "active"
  ELSE run[r].status
phaseBar == [r \in RunId |-> phaseOf(r)]
needBar == [r \in RunId |-> run[r].total_steps]
reportedBar == [r \in RunId |-> Len(run[r].step_results)]
RunPool == INSTANCE SopRunPool WITH
  Capacity <- MaxConcurrentTotal, phase <- phaseBar, need <- needBar, reported <- reportedBar

\* The engine implements the pool: what a run may do depends on nothing but its reports
\* and the capacity, however approvals, timeouts, reloads and evictions interleave.
ImplementsRunPool == RunPool!Spec
=============================================================================
