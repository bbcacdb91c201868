---------------------------- MODULE MissionsProofs ----------------------------
(* Proofs about Missions: its types for any calls of `run`, and, when no    *)
(* two calls of `run` overlap, that the budget holds, that what is          *)
(* completed is done and that a stop is obeyed, for every plan, budget and  *)
(* sequence of commands.                                                    *)
EXTENDS Missions, TLAPS

(* A plan in which one step has another status is a plan.                   *)
LEMMA PlanWith ==
  ASSUME NEW p \in Seq(StepStatus), NEW n, NEW s \in StepStatus
  PROVE  /\ [i \in DOMAIN p |-> IF i = n THEN s ELSE p[i]] \in Seq(StepStatus)
         /\ DOMAIN [i \in DOMAIN p |-> IF i = n THEN s ELSE p[i]] = DOMAIN p
  OBVIOUS

(* The record, the control and the calls stay within their types.           *)
THEOREM TypeCorrect == Spec => []MissionTypeOK
<1>1. Init => MissionTypeOK
  BY MissionAssumption DEF Init, MissionTypeOK, MissionState, Control, Place
<1>2. MissionTypeOK /\ [Next]_vars => MissionTypeOK'
  <2> SUFFICES ASSUME MissionTypeOK, [Next]_vars PROVE MissionTypeOK'
    OBVIOUS
  <2> USE MissionAssumption DEF MissionTypeOK, MissionState, Control, Place, StepStatus, Goto, Fail
  <2>1. ASSUME NEW r \in Runs, Register(r) \/ SetRunning(r) \/ PlanFails(r) PROVE MissionTypeOK'
    BY <2>1 DEF Register, SetRunning, PlanFails
  <2>2. ASSUME NEW r \in Runs, NEW n \in StepCounts, StorePlan(r, n) PROVE MissionTypeOK'
    <3>1. plan' \in Seq(StepStatus)
      BY <2>2 DEF StorePlan
    <3>2. QED  BY <2>2, <3>1 DEF StorePlan
  <2>c. ASSUME NEW r \in Runs, CountSteps(r) PROVE MissionTypeOK'
    <3>1. Len(plan) \in Nat
      OBVIOUS
    <3>2. QED  BY <2>c, <3>1 DEF CountSteps
  <2>3. ASSUME NEW r \in Runs, CheckStop(r) \/ WaitIfPaused(r) \/ CheckBudget(r)
        PROVE MissionTypeOK'
    BY <2>3 DEF CheckStop, WaitIfPaused, CheckBudget
  <2>4. ASSUME NEW r \in Runs, BeginStep(r) PROVE MissionTypeOK'
    <3> DEFINE n == step[r]
               begun == [i \in DOMAIN plan |-> IF i = n THEN "Running" ELSE plan[i]]
    <3>1. begun \in Seq(StepStatus)
      BY PlanWith
    <3>2. plan' \in {plan, begun} /\ step' \in {step, [step EXCEPT ![r] = @ + 1]}
      BY <2>4 DEF BeginStep
    <3>3. pc' \in {[pc EXCEPT ![r] = "loop"], [pc EXCEPT ![r] = "execute"]}
      BY <2>4 DEF BeginStep
    <3>4. overrun' \in {overrun, -1, overrun + 1} /\ (overrun = -1 => overrun' = -1)
      BY <2>4 DEF BeginStep
    <3>5. UNCHANGED <<state, spent, control, steps, given>>
      BY <2>4 DEF BeginStep
    <3> HIDE DEF begun, n
    <3>6. plan' \in Seq(StepStatus)
      BY <3>1, <3>2
    <3>7. step' \in [Runs -> Nat \ {0}]
      BY <3>2
    <3>8. pc' \in [Runs -> Place]
      BY <3>3
    <3>9. overrun' \in Nat \cup {-1}
      BY <3>4
    <3>10. QED  BY <3>5, <3>6, <3>7, <3>8, <3>9
  <2>5. ASSUME NEW r \in Runs, StepSucceeds(r) \/ StepFails(r) PROVE MissionTypeOK'
    <3>1. plan' \in Seq(StepStatus)
      <4>1. CASE StepSucceeds(r)
        BY <4>1, PlanWith DEF StepSucceeds
      <4>2. CASE StepFails(r)
        BY <4>2, PlanWith DEF StepFails
      <4>3. QED  BY <2>5, <4>1, <4>2
    <3>2. QED  BY <2>5, <3>1 DEF StepSucceeds, StepFails
  <2>6. ASSUME NEW r \in Runs, Charge(r) \/ Complete(r) \/ Unregister(r) \/ RunAgain(r)
        PROVE MissionTypeOK'
    <3>1. CASE Charge(r)
      <4>1. spent' \in Nat /\ step' \in [Runs -> Nat \ {0}] /\ pc' \in [Runs -> Place]
        BY <3>1 DEF Charge
      <4>2. QED  BY <3>1, <4>1 DEF Charge
    <3>2. CASE Complete(r)
      BY <3>2 DEF Complete
    <3>3. CASE Unregister(r)
      BY <3>3 DEF Unregister
    <3>4. CASE RunAgain(r)
      BY <3>4 DEF RunAgain
    <3>5. QED  BY <2>6, <3>1, <3>2, <3>3, <3>4
  <2>7. CASE Pause \/ Resume \/ Stop
    BY <2>7 DEF Pause, Resume, Stop, Command
  <2>8. CASE UNCHANGED vars
    BY <2>8 DEF vars
  <2>9. QED
    BY <2>1, <2>2, <2>c, <2>3, <2>4, <2>5, <2>6, <2>7, <2>8 DEF Next, RunStep
<1>3. QED
  BY <1>1, <1>2, PTL DEF Spec

-----------------------------------------------------------------------------
(* Calls of `run` do not overlap: one caller, which may call again.         *)
OneRun == \A r, q \in Runs : r = q

(* Why the budget holds: between the check and the charge there is room for *)
(* one more step.                                                           *)
BudgetInv ==
  /\ spent <= Budget
  /\ \A r \in Runs : pc[r] \in {"begin", "execute", "charge"} => spent + 1 <= Budget

(* The steps a mission completes never cost more than its budget, over all its runs
   (check_budget before a step, the charge after it). *)
THEOREM BudgetRespectedInvariant == ASSUME OneRun PROVE Spec => []BudgetRespected
<1>1. Init => BudgetInv
  BY MissionAssumption DEF Init, BudgetInv
<1>2. MissionTypeOK /\ BudgetInv /\ [Next]_vars => BudgetInv'
  <2> SUFFICES ASSUME MissionTypeOK, BudgetInv, [Next]_vars PROVE BudgetInv'
    OBVIOUS
  <2> USE MissionAssumption DEF BudgetInv, MissionTypeOK, Goto, Fail
  <2>1. ASSUME NEW r \in Runs,
               Register(r) \/ SetRunning(r) \/ PlanFails(r) \/ (\E n \in StepCounts : StorePlan(r, n))
                 \/ CountSteps(r) \/ CheckStop(r) \/ WaitIfPaused(r) \/ Complete(r) \/ Unregister(r) \/ RunAgain(r)
        PROVE BudgetInv'
    BY <2>1 DEF Register, SetRunning, PlanFails, StorePlan, CountSteps, CheckStop, WaitIfPaused, Complete,
                Unregister, RunAgain
  <2>2. ASSUME NEW r \in Runs, CheckBudget(r) PROVE BudgetInv'
    BY <2>2 DEF CheckBudget, CanAfford
  <2>3. ASSUME NEW r \in Runs, BeginStep(r) \/ StepSucceeds(r) \/ StepFails(r) PROVE BudgetInv'
    BY <2>3 DEF BeginStep, StepSucceeds, StepFails
  <2>4. ASSUME NEW r \in Runs, Charge(r) PROVE BudgetInv'
    <3>1. spent' <= Budget /\ pc'[r] = "loop"
      BY <2>4 DEF Charge
    <3>2. \A q \in Runs : pc'[q] = "loop"
      BY <3>1, OneRun DEF OneRun
    <3>3. QED  BY <3>1, <3>2
  <2>5. CASE Pause \/ Resume \/ Stop
    BY <2>5 DEF Pause, Resume, Stop, Command
  <2>6. CASE UNCHANGED vars
    BY <2>6 DEF vars
  <2>7. QED
    BY <2>1, <2>2, <2>3, <2>4, <2>5, <2>6 DEF Next, RunStep
<1>3. BudgetInv => BudgetRespected
  BY DEF BudgetInv, BudgetRespected
<1>4. QED
  BY <1>1, <1>2, <1>3, TypeCorrect, PTL DEF Spec

-----------------------------------------------------------------------------
(* Why a mission that nobody stopped is done when it is completed: its      *)
(* control stays live, and the steps before the current one are completed.  *)
DoneInv ==
  overrun = -1 =>
    /\ control # "stopped"
    /\ \A r \in Runs :
         /\ pc[r] \in {"registered", "planning", "planned", "loop", "wait", "budget", "begin",
                       "execute", "charge"} => control = "live"
         /\ pc[r] \in {"loop", "wait", "budget", "begin", "execute", "charge"} =>
              DOMAIN plan = 1 .. steps[r]
         /\ pc[r] \in {"loop", "wait", "budget", "begin", "execute"} =>
              \A i \in DOMAIN plan : i < step[r] => plan[i] = "Completed"
         /\ pc[r] = "charge" => \A i \in DOMAIN plan : i <= step[r] => plan[i] = "Completed"
         /\ pc[r] = "complete" => \A i \in DOMAIN plan : plan[i] = "Completed"
    /\ state = "Completed" =>
         /\ \A i \in DOMAIN plan : plan[i] = "Completed"
         /\ \A r \in Runs : pc[r] \in {"idle", "registered", "unregister", "ended"}

(* A mission that is completed, and was never stopped, has completed every step of its
   plan, however often it was paused, resumed or run (the end of run). *)
THEOREM CompletedMeansDoneInvariant == ASSUME OneRun PROVE Spec => []CompletedMeansDone
<1>1. Init => DoneInv
  BY DEF Init, DoneInv
<1>2. MissionTypeOK /\ DoneInv /\ [Next]_vars => DoneInv'
  <2> SUFFICES ASSUME MissionTypeOK, DoneInv, [Next]_vars PROVE DoneInv'
    OBVIOUS
  <2>0. ASSUME NEW r \in Runs PROVE \A q \in Runs : q = r
    BY OneRun DEF OneRun
  <2>t. /\ plan \in Seq(StepStatus) /\ pc \in [Runs -> Place]
        /\ step \in [Runs -> Nat \ {0}] /\ overrun \in Nat \cup {-1}
        /\ steps \in [Runs -> Nat]
        /\ DOMAIN plan = 1 .. Len(plan) /\ Len(plan) \in Nat
    BY DEF MissionTypeOK
  <2> USE DEF DoneInv, Goto, Fail
  <2>1. ASSUME NEW r \in Runs, Register(r) PROVE DoneInv'
    BY <2>0, <2>1, <2>t DEF Register
  <2>2. ASSUME NEW r \in Runs, SetRunning(r) \/ PlanFails(r) PROVE DoneInv'
    BY <2>0, <2>2, <2>t DEF SetRunning, PlanFails
  <2>3. ASSUME NEW r \in Runs, NEW n \in StepCounts, StorePlan(r, n) PROVE DoneInv'
    <3>1. pc' = [pc EXCEPT ![r] = "planned"] /\ (overrun = -1 => state # "Completed")
      BY <2>3 DEF StorePlan
    <3>2. QED  BY <2>0, <2>3, <2>t, <3>1 DEF StorePlan
  <2>c. ASSUME NEW r \in Runs, CountSteps(r) PROVE DoneInv'
    <3>1. /\ step'[r] = 1 /\ pc' = [pc EXCEPT ![r] = "loop"] /\ DOMAIN plan = 1 .. steps'[r]
          /\ overrun = -1 => state # "Completed"
          /\ pc[r] = "planned" /\ UNCHANGED <<state, plan, control, overrun>>
      BY <2>c, <2>t DEF CountSteps
    <3>2. QED  BY <2>0, <2>t, <3>1
  <2>4. ASSUME NEW r \in Runs, CheckStop(r) PROVE DoneInv'
    <3>1. UNCHANGED <<state, plan, control, steps, step, overrun>>
      BY <2>4 DEF CheckStop
    <3>2. CASE step[r] > steps[r] \/ IsStopped
      <4>1. overrun = -1 => step[r] > steps[r]
        BY <2>4, <3>2 DEF CheckStop, IsStopped
      <4>2. pc' = [pc EXCEPT ![r] = "complete"]
        BY <2>4, <3>2 DEF CheckStop
      <4>3. QED  BY <2>0, <2>4, <2>t, <3>1, <4>1, <4>2 DEF CheckStop
    <3>3. CASE ~(step[r] > steps[r] \/ IsStopped)
      BY <2>0, <2>4, <2>t, <3>1, <3>3 DEF CheckStop
    <3>4. QED  BY <3>2, <3>3
  <2>5. ASSUME NEW r \in Runs, WaitIfPaused(r) \/ CheckBudget(r) PROVE DoneInv'
    BY <2>0, <2>5, <2>t DEF WaitIfPaused, CheckBudget
  <2>6. ASSUME NEW r \in Runs, BeginStep(r) PROVE DoneInv'
    <3>1. CASE step[r] \in DOMAIN plan /\ plan[step[r]] = "Completed"
      <4>1. /\ step' = [step EXCEPT ![r] = step[r] + 1]
            /\ pc' = [pc EXCEPT ![r] = "loop"]
            /\ UNCHANGED <<plan, overrun, state, control, steps>>
        BY <2>6, <3>1 DEF BeginStep
      <4>2. \A i \in DOMAIN plan : i < step'[r] => i < step[r] \/ i = step[r]
        BY <2>t, <4>1
      <4>3. QED  BY <2>0, <2>6, <2>t, <3>1, <4>1, <4>2 DEF BeginStep
    <3>2. CASE ~(step[r] \in DOMAIN plan /\ plan[step[r]] = "Completed")
      <4>1. /\ plan' = [i \in DOMAIN plan |-> IF i = step[r] THEN "Running" ELSE plan[i]]
            /\ pc' = [pc EXCEPT ![r] = "execute"]
            /\ pc[r] = "begin"
            /\ overrun' = -1 => overrun = -1
            /\ UNCHANGED <<step, state, control, steps>>
        BY <2>6, <2>t, <3>2 DEF BeginStep
      <4>2. /\ DOMAIN plan' = DOMAIN plan
            /\ \A i \in DOMAIN plan' : i \in DOMAIN plan /\ (i < step[r] => plan'[i] = plan[i])
        BY <2>t, <4>1
      <4>3. QED  BY <2>0, <2>t, <4>1, <4>2
    <3>3. QED  BY <3>1, <3>2
  <2>7. ASSUME NEW r \in Runs, StepSucceeds(r) PROVE DoneInv'
    <3>1. /\ plan' = [i \in DOMAIN plan |-> IF i = step[r] THEN "Completed" ELSE plan[i]]
          /\ pc' = [pc EXCEPT ![r] = "charge"]
          /\ pc[r] = "execute"
          /\ UNCHANGED <<state, control, steps, step, overrun>>
      BY <2>7 DEF StepSucceeds
    <3>2. DOMAIN plan' = DOMAIN plan /\ \A i \in DOMAIN plan' :
            i \in DOMAIN plan /\ (plan'[i] = plan[i] \/ plan'[i] = "Completed")
      BY <3>1
    <3>3. overrun = -1 => \A i \in DOMAIN plan' : i <= step[r] => plan'[i] = "Completed"
      BY <2>t, <3>1
    <3>4. QED  BY <2>0, <2>t, <3>1, <3>2, <3>3
  <2>8. ASSUME NEW r \in Runs, StepFails(r) PROVE DoneInv'
    BY <2>0, <2>8, <2>t DEF StepFails
  <2>9. ASSUME NEW r \in Runs, Charge(r) PROVE DoneInv'
    <3>1. step'[r] = step[r] + 1
      BY <2>9, <2>t DEF Charge
    <3>2. \A i \in DOMAIN plan : i < step'[r] => i <= step[r]
      BY <2>t, <3>1
    <3>3. QED  BY <2>0, <2>9, <2>t, <3>2 DEF Charge
  <2>10. ASSUME NEW r \in Runs, Complete(r) \/ Unregister(r) \/ RunAgain(r) PROVE DoneInv'
    BY <2>0, <2>10, <2>t DEF Complete, Unregister, RunAgain
  <2>11. CASE Pause \/ Resume \/ Stop
    BY <2>11 DEF Pause, Resume, Stop, Command
  <2>12. CASE UNCHANGED vars
    BY <2>12 DEF vars
  <2>13. QED
    BY <2>1, <2>2, <2>3, <2>c, <2>4, <2>5, <2>6, <2>7, <2>8, <2>9, <2>10, <2>11, <2>12
    DEF Next, RunStep
<1>3. DoneInv => CompletedMeansDone
  BY DEF DoneInv, CompletedMeansDone
<1>4. QED
  BY <1>1, <1>2, <1>3, TypeCorrect, PTL DEF Spec

-----------------------------------------------------------------------------
(* Why a stop is obeyed: the loop looks at the control before every step,   *)
(* so only the step it has looked for already can still begin.              *)
StopInv ==
  control = "stopped" =>
    /\ overrun \in {0, 1}
    /\ overrun = 1 => \A r \in Runs : pc[r] \notin {"wait", "budget", "begin"}

(* After a stop at most one more step begins before the run ends: the one the loop had
   already checked for. *)
THEOREM StopBoundedInvariant == ASSUME OneRun PROVE Spec => []StopBounded
<1>1. Init => StopInv
  BY DEF Init, StopInv
<1>2. MissionTypeOK /\ StopInv /\ [Next]_vars => StopInv'
  <2> SUFFICES ASSUME MissionTypeOK, StopInv, [Next]_vars PROVE StopInv'
    OBVIOUS
  <2>0. ASSUME NEW r \in Runs PROVE \A q \in Runs : q = r
    BY OneRun DEF OneRun
  <2>t. pc \in [Runs -> Place]
    BY DEF MissionTypeOK
  <2> USE DEF StopInv, Goto, Fail
  <2>1. ASSUME NEW r \in Runs, Register(r) \/ Unregister(r) PROVE StopInv'
    BY <2>1 DEF Register, Unregister
  <2>2. ASSUME NEW r \in Runs,
               SetRunning(r) \/ PlanFails(r) \/ (\E n \in StepCounts : StorePlan(r, n))
                 \/ CountSteps(r) \/ StepSucceeds(r) \/ StepFails(r) \/ Charge(r) \/ Complete(r) \/ RunAgain(r)
        PROVE StopInv'
    BY <2>2, <2>t DEF SetRunning, PlanFails, StorePlan, CountSteps, StepSucceeds, StepFails, Charge,
                      Complete, RunAgain
  <2>3. ASSUME NEW r \in Runs, CheckStop(r) PROVE StopInv'
    <3>1. control = "stopped" => pc' = [pc EXCEPT ![r] = "complete"]
      BY <2>3 DEF CheckStop, IsStopped
    <3>2. QED  BY <2>3, <2>t, <3>1 DEF CheckStop
  <2>4. ASSUME NEW r \in Runs, WaitIfPaused(r) \/ CheckBudget(r) PROVE StopInv'
    BY <2>4, <2>t DEF WaitIfPaused, CheckBudget
  <2>5. ASSUME NEW r \in Runs, BeginStep(r) PROVE StopInv'
    <3>1. control' = control /\ pc[r] = "begin" /\ pc'[r] \in {"loop", "execute"}
      BY <2>5, <2>t DEF BeginStep
    <3>2. control = "stopped" => overrun = 0 /\ overrun' \in {0, 1}
      BY <2>5, <3>1 DEF BeginStep
    <3>3. \A q \in Runs : pc'[q] \in {"loop", "execute"}
      BY <2>0, <3>1
    <3>4. QED  BY <3>1, <3>2, <3>3
  <2>6. CASE Pause \/ Resume \/ Stop
    BY <2>6 DEF Pause, Resume, Stop, Command
  <2>7. CASE UNCHANGED vars
    BY <2>7 DEF vars
  <2>8. QED
    BY <2>1, <2>2, <2>3, <2>4, <2>5, <2>6, <2>7 DEF Next, RunStep
<1>3. MissionTypeOK /\ StopInv => StopBounded
  BY DEF StopInv, StopBounded, MissionTypeOK
<1>4. QED
  BY <1>1, <1>2, <1>3, TypeCorrect, PTL DEF Spec
=============================================================================
