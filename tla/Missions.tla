------------------------------ MODULE Missions ------------------------------
(***************************************************************************)
(* The mission runner (src/src/missions/mod.rs): a mission is a goal that  *)
(* is planned into steps and executed step by step by a call of `run`,     *)
(* while other calls pause, resume or stop it.                             *)
(*                                                                         *)
(* The three maps of the runner sit behind one tokio Mutex each, and every *)
(* await of `run` lets others in: an action is the code between two locks  *)
(* or awaits.  The module follows one mission, as missions share nothing;  *)
(* several calls of `run` may be given its identifier.                     *)
(***************************************************************************)
EXTENDS Integers, Sequences

CONSTANTS
  Runs,       \* calls of `run` on the mission
  Commands,   \* of {"pause", "resume", "stop"}: the calls others make
  StepCounts, \* how many steps the planner may return, capped to max_steps
  Budget,     \* budget_usd, in estimated step costs
  MaxControls \* bound of the model: commands ever given

ASSUME MissionAssumption ==
  /\ Commands \subseteq {"pause", "resume", "stop"}
  /\ StepCounts \subseteq Nat
  /\ Budget \in Nat
  /\ MaxControls \in Nat

VARIABLES
  state,     \* MissionRecord.state
  plan,      \* MissionRecord.plan: the status of each step
  spent,     \* MissionRecord.spent_usd
  control,   \* the mission's entry of MissionRunner.controls
  pc,        \* where each call of `run` is
  steps,     \* its step_count, taken from the plan before its loop
  step,      \* its step_idx, from 1
  given,     \* commands given so far
  overrun    \* history: steps begun since the last stop, -1 before any

vars == <<state, plan, spent, control, pc, steps, step, given, overrun>>

StepStatus == {"Pending", "Running", "Completed", "Failed"}
MissionState == {"Idle", "Running", "Paused", "Completed", "Failed"}

Place == {"idle", "registered", "planning", "planned", "loop", "wait", "budget", "begin", "execute",
          "charge", "complete", "unregister", "ended"}

\* The registered MissionControl: absent, or whether its `stopped` flag is set.
Control == {"none", "live", "stopped"}

Init ==
  /\ state = "Idle"
  /\ plan = << >>
  /\ spent = 0
  /\ control = "none"
  /\ pc = [r \in Runs |-> "idle"]
  /\ steps = [r \in Runs |-> 0]
  /\ step = [r \in Runs |-> 1]
  /\ given = 0
  /\ overrun = -1

Goto(r, place) == pc' = [pc EXCEPT ![r] = place]

\* Mutant: the flag of the control is not read.
IsStopped_OnlyRegistered == control = "none"

\* is_stopped: a mission without a control counts as stopped.
IsStopped == control # "live"

\* Mutant: the step about to be executed is left out of the estimate.
CanAfford_SpentOnly == spent <= Budget

\* check_budget, for a step of cost 1.
CanAfford == spent + 1 <= Budget

-----------------------------------------------------------------------------
(* A call of `run`.                                                        *)

Register(r) ==
  /\ pc[r] = "idle"
  /\ control' = "live"
  /\ Goto(r, "registered")
  /\ UNCHANGED <<state, plan, spent, steps, step, given, overrun>>

SetRunning(r) ==
  /\ pc[r] = "registered"
  /\ state' = "Running"
  /\ Goto(r, "planning")
  /\ UNCHANGED <<plan, spent, control, steps, step, given, overrun>>

\* fail_mission and the early return: the control stays registered.
Fail(r) ==
  /\ state' = "Failed"
  /\ Goto(r, "ended")

PlanFails(r) ==
  /\ pc[r] = "planning"
  /\ Fail(r)
  /\ UNCHANGED <<plan, spent, control, steps, step, given, overrun>>

\* The new plan replaces the one of an earlier run.
StorePlan(r, n) ==
  /\ pc[r] = "planning"
  /\ plan' = [i \in 1 .. n |-> "Pending"]
  /\ Goto(r, "planned")
  /\ UNCHANGED <<state, spent, control, steps, step, given, overrun>>

\* How many steps the plan has, under a lock of its own: the loop does not look again.
CountSteps(r) ==
  /\ pc[r] = "planned"
  /\ steps' = [steps EXCEPT ![r] = Len(plan)]
  /\ step' = [step EXCEPT ![r] = 1]
  /\ Goto(r, "loop")
  /\ UNCHANGED <<state, plan, spent, control, given, overrun>>

\* Mutant: the loop ends before the last step.
CheckStop_OffByOne(r) ==
  /\ pc[r] = "loop"
  /\ Goto(r, IF step[r] >= steps[r] \/ IsStopped THEN "complete" ELSE "wait")
  /\ UNCHANGED <<state, plan, spent, control, steps, step, given, overrun>>

\* The head of the loop: its end, or the test for a stop.
CheckStop(r) ==
  /\ pc[r] = "loop"
  /\ Goto(r, IF step[r] > steps[r] \/ IsStopped THEN "complete" ELSE "wait")
  /\ UNCHANGED <<state, plan, spent, control, steps, step, given, overrun>>

\* wait_if_paused: `run` waits on a MissionControl of its own, not on the registered one,
\* and nobody else holds it: its pause flag is never set and the wait returns at once.
WaitIfPaused(r) ==
  /\ pc[r] = "wait"
  /\ Goto(r, "budget")
  /\ UNCHANGED <<state, plan, spent, control, steps, step, given, overrun>>

CheckBudget(r) ==
  /\ pc[r] = "budget"
  /\ \/ CanAfford /\ Goto(r, "begin") /\ UNCHANGED state
     \/ ~CanAfford /\ Fail(r)
  /\ UNCHANGED <<plan, spent, control, steps, step, given, overrun>>

\* Skip a completed step, or mark this one as running.
BeginStep(r) ==
  /\ pc[r] = "begin"
  /\ \/ /\ step[r] \in DOMAIN plan /\ plan[step[r]] = "Completed"
        /\ step' = [step EXCEPT ![r] = @ + 1]
        /\ Goto(r, "loop")
        /\ UNCHANGED <<plan, overrun>>
     \/ /\ step[r] \in DOMAIN plan => plan[step[r]] # "Completed"
        /\ plan' = [i \in DOMAIN plan |-> IF i = step[r] THEN "Running" ELSE plan[i]]
        /\ overrun' = IF overrun = -1 THEN -1 ELSE overrun + 1
        /\ Goto(r, "execute")
        /\ UNCHANGED step
  /\ UNCHANGED <<state, spent, control, steps, given>>

\* One of the three attempts succeeded.
StepSucceeds(r) ==
  /\ pc[r] = "execute"
  /\ plan' = [i \in DOMAIN plan |-> IF i = step[r] THEN "Completed" ELSE plan[i]]
  /\ Goto(r, "charge")
  /\ UNCHANGED <<state, spent, control, steps, step, given, overrun>>

Charge(r) ==
  /\ pc[r] = "charge"
  /\ spent' = spent + 1
  /\ step' = [step EXCEPT ![r] = @ + 1]
  /\ Goto(r, "loop")
  /\ UNCHANGED <<state, plan, control, steps, given, overrun>>

\* The first attempt and MAX_STEP_RETRIES more failed; nothing is charged.
StepFails(r) ==
  /\ pc[r] = "execute"
  /\ plan' = [i \in DOMAIN plan |-> IF i = step[r] THEN "Failed" ELSE plan[i]]
  /\ Fail(r)
  /\ UNCHANGED <<spent, control, steps, step, given, overrun>>

\* Only a mission that is still "Running" is completed.
Complete(r) ==
  /\ pc[r] = "complete"
  /\ state' = IF state = "Running" THEN "Completed" ELSE state
  /\ Goto(r, "unregister")
  /\ UNCHANGED <<plan, spent, control, steps, step, given, overrun>>

Unregister(r) ==
  /\ pc[r] = "unregister"
  /\ control' = "none"
  /\ Goto(r, "ended")
  /\ UNCHANGED <<state, plan, spent, steps, step, given, overrun>>

\* The next call of `run` by the same caller.
RunAgain(r) ==
  /\ pc[r] = "ended"
  /\ given < MaxControls
  /\ given' = given + 1
  /\ Goto(r, "idle")
  /\ UNCHANGED <<state, plan, spent, control, steps, step, overrun>>

-----------------------------------------------------------------------------
(* The commands; each fails without a registered control.                  *)

Command(c) ==
  /\ c \in Commands
  /\ control # "none"
  /\ given < MaxControls
  /\ given' = given + 1
  /\ UNCHANGED <<plan, spent, pc, steps, step>>

Pause ==
  /\ Command("pause")
  /\ state' = "Paused"
  /\ UNCHANGED <<control, overrun>>

Resume ==
  /\ Command("resume")
  /\ state' = "Running"
  /\ UNCHANGED <<control, overrun>>

Stop ==
  /\ Command("stop")
  /\ control' = "stopped"
  /\ state' = "Failed"
  /\ overrun' = 0

RunStep(r) ==
  \/ Register(r) \/ SetRunning(r)
  \/ PlanFails(r) \/ \E n \in StepCounts : StorePlan(r, n)
  \/ CountSteps(r)
  \/ CheckStop(r) \/ WaitIfPaused(r) \/ CheckBudget(r) \/ BeginStep(r)
  \/ StepSucceeds(r) \/ Charge(r) \/ StepFails(r)
  \/ Complete(r) \/ Unregister(r) \/ RunAgain(r)

Next == (\E r \in Runs : RunStep(r)) \/ Pause \/ Resume \/ Stop

Spec == Init /\ [][Next]_vars

-----------------------------------------------------------------------------
(* The record, the control and the calls stay within their types. *)
MissionTypeOK ==
  /\ state \in MissionState
  /\ plan \in Seq(StepStatus)
  /\ spent \in Nat
  /\ control \in Control
  /\ pc \in [Runs -> Place]
  /\ steps \in [Runs -> Nat]
  /\ step \in [Runs -> Nat \ {0}]
  /\ given \in 0 .. MaxControls
  /\ overrun \in Nat \cup {-1}

(* The steps a mission completes never cost more than its budget, over all its runs
   (check_budget before a step, the charge after it). *)
BudgetRespected == spent <= Budget

(* A mission that is completed, and was never stopped, has completed every step of its
   plan, however often it was paused, resumed or run (the end of run). *)
CompletedMeansDone ==
  state = "Completed" /\ overrun = -1 => \A i \in DOMAIN plan : plan[i] = "Completed"

(* After a stop at most one more step begins before the run ends: the one the loop had
   already checked for. *)
StopBounded == control = "stopped" => overrun <= 1

=============================================================================
