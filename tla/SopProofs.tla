------------------------------ MODULE SopProofs ------------------------------
(***************************************************************************)
(* Proofs about the SOP engine for every catalog, limit, timeout and       *)
(* bound: types, results, limits and the refinement of the run pool; what  *)
(* it remembers of its runs - the waits of the active ones, the finished   *)
(* ones it retains, the cooldowns it reads from them; and, for one caller  *)
(* of its tools, that what the caller was told is what the engine holds.   *)
(***************************************************************************)
EXTENDS SopCallers, FiniteSetTheorems, WellFoundedInduction, TLAPS

-----------------------------------------------------------------------------
(* Lemmas about the operators the actions are built from.                  *)

\* A loaded SOP is a definition.
LEMMA CatalogType ==
  ASSUME TypeOK, NEW s \in SopNames, Loaded(s)
  PROVE  /\ catalog[s] \in Sop
         /\ StepCount(s) \in Nat
<1>1. catalog \in [DOMAIN catalog -> Sop]
  BY CatalogsAssumption DEF TypeOK
<1>2. catalog[s] \in Sop
  BY <1>1 DEF Loaded
<1>3. QED
  BY <1>2 DEF StepCount, Sop

\* What stands for a run not yet started has the type of one.
LEMMA NoRunType == NoRun \in Run
  BY DEF NoRun, Run, Status

\* Arriving at a step changes neither the SOP of a run, its step nor its results.
LEMMA ArriveType ==
  ASSUME TypeOK, NEW rec \in Run, NEW d, NEW n
  PROVE  /\ Arrive(rec, d, n) \in Run
         /\ rec.status \in ActiveStatus => Arrive(rec, d, n).status \in ActiveStatus
         /\ Arrive(rec, d, n).sop = rec.sop
         /\ Arrive(rec, d, n).step_results = rec.step_results
         /\ Arrive(rec, d, n).current_step = rec.current_step
         /\ Arrive(rec, d, n).total_steps = rec.total_steps
  BY DEF Arrive, Run, Status, ActiveStatus, TypeOK

\* Approving a run changes its status only.
LEMMA ApprovedType ==
  ASSUME NEW rec \in Run
  PROVE  /\ Approved(rec) \in Run
         /\ Approved(rec).status = "Running"
         /\ Approved(rec).sop = rec.sop
         /\ Approved(rec).step_results = rec.step_results
         /\ Approved(rec).current_step = rec.current_step
         /\ Approved(rec).total_steps = rec.total_steps
  BY DEF Approved, Run, Status, ActiveStatus

\* Retain keeps a suffix, so its elements are elements of the queue.
LEMMA RetainType ==
  ASSUME NEW q \in Seq(RunId)
  PROVE  Retain(q) \in Seq(RunId)
  BY LimitsAssumption DEF Retain

\* A run that ends leaves runs and lists of runs within their types.
LEMMA FinishType ==
  ASSUME TypeOK, NEW r \in RunId, NEW rec \in Run, NEW status \in FinalStatus,
         Finish(r, rec, status)
  PROVE  /\ run' \in [RunId -> Run]
         /\ active' \in SUBSET RunId
         /\ finished' \in Seq(RunId)
<1>1. [rec EXCEPT !.status = status, !.completed_at = now] \in Run
  BY DEF Run, Status, TypeOK
<1>2. Append(finished, r) \in Seq(RunId)
  BY DEF TypeOK
<1>3. QED
  BY <1>1, <1>2, RetainType DEF Finish, TypeOK

-----------------------------------------------------------------------------
(* Type correctness.                                                       *)

\* A new process has the types.
LEMMA LoseMemoryType ==
  ASSUME TypeOK, LoseMemory
  PROVE  TypeOK'
  BY NoRunType DEF LoseMemory, TypeOK

\* start_run keeps the types.
LEMMA StartRunType ==
  ASSUME TypeOK, NEW s \in SopNames, StartRun(s)
  PROVE  TypeOK'
<1> DEFINE rec == [NoRun EXCEPT !.sop = s, !.status = "Running", !.current_step = 1,
                                !.total_steps = StepCount(s)]
<1>1. StepCount(s) \in Nat
  BY CatalogType DEF StartRun, CanStart
<1>2. rec \in Run
  BY <1>1, NoRunType DEF Run, Status, ActiveStatus
<1>3. Arrive(rec, catalog[s], 1) \in Run
  BY <1>2, ArriveType
<1>4. issued + 1 \in RunId
  BY BoundsAssumption DEF TypeOK, StartRun, RunId
<1>5. QED
  BY <1>3, <1>4 DEF StartRun, TypeOK, RunId

\* advance_step keeps the types.
LEMMA AdvanceStepType ==
  ASSUME TypeOK, NEW r \in RunId, NEW outcome \in Outcome, AdvanceStep(r, outcome)
  PROVE  TypeOK'
<1> DEFINE n == run[r].current_step
           reported == Reported(run[r], outcome)
           next == [reported EXCEPT !.current_step = n + 1]
<1>1. run[r] \in Run /\ n \in Nat
  BY DEF TypeOK, Run
<1>2. reported \in Run
  <2>1. [step |-> n, outcome |-> outcome] \in StepResult
    BY <1>1 DEF StepResult
  <2>2. run[r].step_results \in Seq(StepResult)
    BY <1>1 DEF Run
  <2>3. Append(run[r].step_results, [step |-> n, outcome |-> outcome]) \in Seq(StepResult)
    BY <2>1, <2>2
  <2>4. QED
    BY <1>1, <2>3 DEF Run, Reported
<1>3. next \in Run
  <2>1. n + 1 \in Nat
    BY <1>1
  <2>2. QED
    BY <1>2, <2>1 DEF Run
<1>4. CASE Finish(r, reported, "Failed") \/ Finish(r, reported, "Completed")
  BY <1>2, <1>4, FinishType DEF AdvanceStep, TypeOK, FinalStatus
<1>5. CASE /\ run' = [run EXCEPT ![r] = Arrive(next, catalog[run[r].sop], n + 1)]
           /\ UNCHANGED <<active, finished>>
  BY <1>3, <1>5, ArriveType DEF AdvanceStep, TypeOK
<1>6. QED
  BY <1>4, <1>5 DEF AdvanceStep

\* Every step keeps the types.
LEMMA NextType == TypeOK /\ [Next]_vars => TypeOK'
<1> SUFFICES ASSUME TypeOK, [Next]_vars
             PROVE  TypeOK'
  OBVIOUS
<1>1. ASSUME NEW s \in SopNames, StartRun(s)
      PROVE  TypeOK'
  BY <1>1, StartRunType
<1>2. ASSUME NEW r \in RunId, NEW outcome \in Outcome, AdvanceStep(r, outcome)
      PROVE  TypeOK'
  BY <1>2, AdvanceStepType
<1>3. ASSUME NEW r \in RunId, ApproveStep(r)
      PROVE  TypeOK'
  BY <1>3, ApprovedType DEF ApproveStep, TypeOK
<1>4. ASSUME NEW r \in RunId, CancelRun(r)
      PROVE  TypeOK'
  BY <1>4, FinishType DEF CancelRun, TypeOK, FinalStatus
<1>5. ASSUME NEW r \in RunId, IndexPanic(r)
      PROVE  TypeOK'
  BY <1>5, LoseMemoryType DEF IndexPanic
<1>6. CASE CheckApprovalTimeouts
  BY <1>6, ApprovedType DEF CheckApprovalTimeouts, TypeOK
<1>7. CASE Reload
  BY <1>7 DEF Reload, TypeOK
<1>8. CASE Restart
  BY <1>8, LoseMemoryType DEF Restart
<1>9. CASE Tick
  BY <1>9, BoundsAssumption DEF Tick, TypeOK, Time, Run
<1>10. CASE UNCHANGED vars
  BY <1>10 DEF vars, TypeOK
<1>11. QED
  BY <1>1, <1>2, <1>3, <1>4, <1>5, <1>6, <1>7, <1>8, <1>9, <1>10 DEF Next

\* Whatever the callers, the reloads and the clock do, the engine's state stays within
\* the types of src/src/sop/engine.rs and types.rs.
THEOREM TypeCorrect == Spec => []TypeOK
<1>1. Init => TypeOK
  BY NoRunType, BoundsAssumption DEF Init, TypeOK, Time
<1>2. QED
  BY <1>1, NextType, PTL DEF Spec
-----------------------------------------------------------------------------
(* Where a run is: in active_runs exactly while its status is an active one. *)

\* The active runs are the ones with an active status, an identifier not yet issued has
\* no run, and a run that exists names a SOP.
Lifecycle ==
  /\ \A r \in RunId : r \in active <=> run[r].status \in ActiveStatus
  /\ \A r \in RunId : r > issued => run[r] = NoRun
  /\ \A r \in RunId : run[r].status = "None" => run[r] = NoRun
  /\ \A r \in RunId : run[r].status # "None" => run[r].sop \in SopNames

\* What finish_run does to the run it finishes, and to no other.
LEMMA FinishEffect ==
  ASSUME TypeOK, NEW r \in RunId, NEW rec \in Run, NEW status \in FinalStatus,
         Finish(r, rec, status)
  PROVE  /\ active' = active \ {r}
         /\ run'[r].status = status
         /\ run'[r].sop = rec.sop
         /\ run'[r].step_results = rec.step_results
         /\ run'[r].current_step = rec.current_step
         /\ run'[r].total_steps = rec.total_steps
         /\ \A q \in RunId \ {r} : run'[q] = run[q]
  BY DEF Finish, TypeOK, Run

\* What start_run does to the run it starts, and to no other.
LEMMA StartEffect ==
  ASSUME TypeOK, NEW s \in SopNames, StartRun(s)
  PROVE  /\ issued' = issued + 1
         /\ issued' \in RunId
         /\ active' = active \cup {issued'}
         /\ run'[issued'].status \in ActiveStatus
         /\ run'[issued'].sop = s
         /\ run'[issued'].step_results = << >>
         /\ run'[issued'].current_step = 1
         /\ run'[issued'].total_steps = StepCount(s)
         /\ StepCount(s) \in Nat \ {0}
         /\ \A q \in RunId \ {issued'} : run'[q] = run[q]
         /\ catalog' = catalog
<1> DEFINE rec == [NoRun EXCEPT !.sop = s, !.status = "Running", !.current_step = 1,
                                !.total_steps = StepCount(s)]
<1>1. StepCount(s) \in Nat
  BY CatalogType DEF StartRun, CanStart
<1>2. /\ rec \in Run
      /\ rec.status \in ActiveStatus
      /\ rec.sop = s
      /\ rec.step_results = << >>
      /\ rec.current_step = 1
      /\ rec.total_steps = StepCount(s)
  BY <1>1, NoRunType DEF Run, Status, ActiveStatus, NoRun
<1>3. issued + 1 \in RunId
  BY BoundsAssumption DEF TypeOK, StartRun, RunId
<1>4. run' = [run EXCEPT ![issued + 1] = Arrive(rec, catalog[s], 1)]
  BY DEF StartRun
<1>5. run'[issued + 1] = Arrive(rec, catalog[s], 1)
  BY <1>3, <1>4 DEF TypeOK
<1> HIDE DEF rec
<1>6. /\ run'[issued + 1].status \in ActiveStatus
      /\ run'[issued + 1].sop = s
      /\ run'[issued + 1].step_results = << >>
      /\ run'[issued + 1].current_step = 1
      /\ run'[issued + 1].total_steps = StepCount(s)
  BY <1>2, <1>5, ArriveType
<1>7. \A q \in RunId \ {issued + 1} : run'[q] = run[q]
  BY <1>4 DEF TypeOK
<1>8. issued' = issued + 1 /\ active' = active \cup {issued'} /\ catalog' = catalog
  BY DEF StartRun
<1>9. StepCount(s) \in Nat \ {0}
  BY <1>1 DEF StartRun
<1>10. QED
  BY <1>3, <1>6, <1>7, <1>8, <1>9

\* What advance_step does: a failed report fails the run, the report of the last step
\* completes it, and any other moves it on.
LEMMA AdvanceEffect ==
  ASSUME TypeOK, Lifecycle, NEW r \in RunId, NEW outcome \in Outcome,
         AdvanceStep(r, outcome)
  PROVE  LET n == run[r].current_step
         IN  /\ r \in active
             /\ catalog' = catalog /\ issued' = issued
             /\ run'[r].sop = run[r].sop
             /\ run'[r].total_steps = run[r].total_steps
             /\ run'[r].step_results
                  = Append(run[r].step_results, [step |-> n, outcome |-> outcome])
             /\ \A q \in RunId \ {r} : run'[q] = run[q]
             /\ \/ /\ outcome = "failed"
                   /\ active' = active \ {r}
                   /\ run'[r].status = "Failed"
                   /\ run'[r].current_step = n
                \/ /\ outcome # "failed"
                   /\ n + 1 > run[r].total_steps
                   /\ active' = active \ {r}
                   /\ run'[r].status = "Completed"
                   /\ run'[r].current_step = n
                \/ /\ outcome # "failed"
                   /\ n + 1 <= run[r].total_steps
                   /\ active' = active
                   /\ run'[r].status \in ActiveStatus
                   /\ run'[r].current_step = n + 1
<1> DEFINE n == run[r].current_step
           reported == Reported(run[r], outcome)
           next == [reported EXCEPT !.current_step = n + 1]
<1>1. run[r] \in Run /\ n \in Nat /\ run[r].status \in ActiveStatus
  BY DEF TypeOK, Run, Lifecycle, AdvanceStep
<1>2. [step |-> n, outcome |-> outcome] \in StepResult
  BY <1>1 DEF StepResult
<1>3. /\ reported \in Run
      /\ reported.status = run[r].status
      /\ reported.sop = run[r].sop
      /\ reported.total_steps = run[r].total_steps
      /\ reported.current_step = n
      /\ reported.step_results = Append(run[r].step_results, [step |-> n, outcome |-> outcome])
  <2>1. reported = [run[r] EXCEPT !.step_results
                      = Append(run[r].step_results, [step |-> n, outcome |-> outcome])]
    BY DEF Reported
  <2>2. Append(run[r].step_results, [step |-> n, outcome |-> outcome]) \in Seq(StepResult)
    BY <1>1, <1>2 DEF Run
  <2>3. QED
    BY <1>1, <2>1, <2>2 DEF Run
<1>4. /\ next \in Run
      /\ next.status = run[r].status
      /\ next.sop = run[r].sop
      /\ next.total_steps = run[r].total_steps
      /\ next.current_step = n + 1
      /\ next.step_results = reported.step_results
  <2> HIDE DEF reported
  <2>1. n + 1 \in Nat
    BY <1>1
  <2>2. QED
    BY <1>1, <1>3, <2>1 DEF Run
<1>5. CASE outcome = "failed" /\ Finish(r, reported, "Failed")
  BY <1>3, <1>5, FinishEffect DEF AdvanceStep, FinalStatus
<1>6. CASE outcome # "failed" /\ n + 1 > run[r].total_steps /\ Finish(r, reported, "Completed")
  BY <1>3, <1>6, FinishEffect DEF AdvanceStep, FinalStatus
<1>7. CASE /\ outcome # "failed"
           /\ n + 1 <= run[r].total_steps
           /\ run' = [run EXCEPT ![r] = Arrive(next, catalog[run[r].sop], n + 1)]
           /\ UNCHANGED <<active, finished>>
  <2>1. run'[r] = Arrive(next, catalog[run[r].sop], n + 1)
    BY <1>7 DEF TypeOK
  <2>2. /\ run'[r].status \in ActiveStatus
        /\ run'[r].sop = run[r].sop
        /\ run'[r].total_steps = run[r].total_steps
        /\ run'[r].current_step = n + 1
        /\ run'[r].step_results = reported.step_results
    <3> HIDE DEF next, reported
    <3>1. QED
      BY <1>1, <1>4, <2>1, ArriveType
  <2>3. \A q \in RunId \ {r} : run'[q] = run[q]
    BY <1>7 DEF TypeOK
  <2>4. r \in active /\ catalog' = catalog /\ issued' = issued
    BY DEF AdvanceStep
  <2>5. QED
    BY <1>3, <1>7, <2>2, <2>3, <2>4
<1>8. QED
  BY <1>5, <1>6, <1>7 DEF AdvanceStep

\* What an approval, an operator's or a timeout's, does: it only sets active runs Running.
ApprovalEffect ==
  /\ catalog' = catalog /\ active' = active /\ issued' = issued
  /\ \A q \in RunId \ active : run'[q] = run[q]
  /\ \A q \in active : /\ run'[q].status \in ActiveStatus
                       /\ run'[q].sop = run[q].sop
                       /\ run'[q].step_results = run[q].step_results
                       /\ run'[q].current_step = run[q].current_step
                       /\ run'[q].total_steps = run[q].total_steps

\* approve_step changes a status only.
LEMMA ApproveStepEffect ==
  ASSUME TypeOK, Lifecycle, NEW r \in RunId, ApproveStep(r)
  PROVE  ApprovalEffect
<1>1. run[r] \in Run
  BY DEF TypeOK
<1>2. run'[r] = Approved(run[r]) /\ \A q \in RunId \ {r} : run'[q] = run[q]
  BY DEF ApproveStep, TypeOK
<1>3. QED
  BY <1>1, <1>2, ApprovedType DEF ApproveStep, ApprovalEffect, Lifecycle, TypeOK, ActiveStatus

\* So does check_approval_timeouts, for any number of runs.
LEMMA CheckApprovalTimeoutsEffect ==
  ASSUME TypeOK, Lifecycle, CheckApprovalTimeouts
  PROVE  ApprovalEffect
<1>1. \A q \in RunId : run[q] \in Run
  BY DEF TypeOK
<1>2. \A q \in RunId : run'[q] = IF q \in TimedOut THEN Approved(run[q]) ELSE run[q]
  BY DEF CheckApprovalTimeouts
<1>3. TimedOut \subseteq active
  BY DEF TimedOut
<1>4. QED
  BY <1>1, <1>2, <1>3, ApprovedType
     DEF CheckApprovalTimeouts, ApprovalEffect, Lifecycle, TypeOK, ActiveStatus

\* Every step of the engine is one of these, whatever its caller.
LEMMA StepCases ==
  ASSUME TypeOK, Lifecycle, [Next]_vars
  PROVE  \/ \E s \in SopNames : StartRun(s)
         \/ \E r \in RunId, outcome \in Outcome : AdvanceStep(r, outcome)
         \/ \E r \in RunId : CancelRun(r)
         \/ ApprovalEffect
         \/ LoseMemory
         \/ run' = run /\ active' = active /\ issued' = issued
<1>1. ASSUME NEW r \in RunId, IndexPanic(r)
      PROVE  LoseMemory
  BY <1>1 DEF IndexPanic
<1>2. CASE Reload \/ Tick \/ UNCHANGED vars
  BY <1>2 DEF Reload, Tick, vars
<1>3. QED
  BY <1>1, <1>2, ApproveStepEffect, CheckApprovalTimeoutsEffect DEF Next, Restart

\* cancel_run ends one active run.
LEMMA CancelEffect ==
  ASSUME TypeOK, NEW r \in RunId, CancelRun(r)
  PROVE  /\ r \in active
         /\ active' = active \ {r}
         /\ catalog' = catalog /\ issued' = issued
         /\ run'[r].status = "Cancelled"
         /\ run'[r].sop = run[r].sop
         /\ run'[r].step_results = run[r].step_results
         /\ run'[r].current_step = run[r].current_step
         /\ run'[r].total_steps = run[r].total_steps
         /\ \A q \in RunId \ {r} : run'[q] = run[q]
<1>1. run[r] \in Run
  BY DEF TypeOK
<1>2. QED
  BY <1>1, FinishEffect DEF CancelRun, FinalStatus

\* Every step keeps runs where their status says.
LEMMA LifecycleStep == TypeOK /\ TypeOK' /\ Lifecycle /\ [Next]_vars => Lifecycle'
<1> SUFFICES ASSUME TypeOK, TypeOK', Lifecycle, [Next]_vars
             PROVE  Lifecycle'
  OBVIOUS
<1> USE DEF ActiveStatus
<1>1. ASSUME NEW s \in SopNames, StartRun(s)
      PROVE  Lifecycle'
  <2>1. issued \in Nat /\ RunId \subseteq Nat
    BY BoundsAssumption DEF TypeOK, RunId
  <2>2. QED
    BY <1>1, <2>1, StartEffect DEF Lifecycle
<1>2. ASSUME NEW r \in RunId, NEW outcome \in Outcome, AdvanceStep(r, outcome)
      PROVE  Lifecycle'
  <2>1. /\ \A q \in RunId \ {r} : run'[q] = run[q]
        /\ issued' = issued /\ run'[r].sop = run[r].sop
        /\ r \in active
    BY <1>2, AdvanceEffect
  <2>2. \/ active' = active /\ run'[r].status \in ActiveStatus
        \/ active' = active \ {r} /\ run'[r].status \in {"Completed", "Failed"}
    BY <1>2, AdvanceEffect
  <2>3. run[r] # NoRun
    BY <2>1 DEF Lifecycle, NoRun
  <2>4. QED
    BY <2>1, <2>2, <2>3 DEF Lifecycle
<1>3. ASSUME NEW r \in RunId, CancelRun(r)
      PROVE  Lifecycle'
  <2>1. run[r] # NoRun
    BY <1>3, CancelEffect DEF Lifecycle, NoRun
  <2>2. QED
    BY <1>3, <2>1, CancelEffect DEF Lifecycle
<1>4. CASE ApprovalEffect
  <2>1. \A q \in active : run[q] # NoRun
    BY DEF Lifecycle, NoRun, TypeOK
  <2>2. QED
    BY <1>4, <2>1 DEF ApprovalEffect, Lifecycle, TypeOK
<1>5. CASE LoseMemory
  BY <1>5 DEF LoseMemory, Lifecycle, NoRun
<1>6. CASE run' = run /\ active' = active /\ issued' = issued
  BY <1>6 DEF Lifecycle
<1>7. QED
  BY <1>1, <1>2, <1>3, <1>4, <1>5, <1>6, StepCases

\* The keys of active_runs are exactly the runs whose status is an active one.
THEOREM LifecycleInvariant == Spec => []Lifecycle
<1>1. Init => Lifecycle
  BY DEF Init, Lifecycle, NoRun, ActiveStatus
<1>2. QED
  BY <1>1, TypeCorrect, LifecycleStep, PTL DEF Spec

-----------------------------------------------------------------------------
(* The results of a run.                                                   *)

\* Every step keeps one result for each step passed.
LEMMA StepAccountingStep ==
  TypeOK /\ TypeOK' /\ Lifecycle /\ Lifecycle' /\ StepAccounting /\ [Next]_vars
    => StepAccounting'
<1> SUFFICES ASSUME TypeOK, TypeOK', Lifecycle, Lifecycle', StepAccounting, [Next]_vars
             PROVE  StepAccounting'
  OBVIOUS
<1> DEFINE Accounted(r) ==
      LET rec == run[r]
          results == rec.step_results
      IN  /\ \A i \in DOMAIN results : results[i].step = i
          /\ rec.status \in ActiveStatus =>
               /\ Len(results) = rec.current_step - 1
               /\ rec.current_step \in 1 .. rec.total_steps
               /\ NoFailureIn(results)
          /\ rec.status = "Completed" => Len(results) = rec.total_steps /\ NoFailureIn(results)
          /\ rec.status = "Failed" =>
               /\ Len(results) \in 1 .. rec.total_steps
               /\ \A i \in DOMAIN results :
                    results[i].outcome = "failed" <=> i = Len(results)
<1>1. \A r \in RunId : Accounted(r)
  BY DEF StepAccounting, Lifecycle
<1>2. SUFFICES \A r \in RunId : Accounted(r)'
  BY DEF StepAccounting, Lifecycle
<1>3. ASSUME NEW r \in RunId, run'[r] = run[r]
      PROVE  Accounted(r)'
  BY <1>1, <1>3 DEF NoFailureIn
<1>4. ASSUME NEW r \in RunId, run'[r].step_results = << >>, run'[r].status = "None"
      PROVE  Accounted(r)'
  BY <1>4 DEF ActiveStatus
<1>5. ASSUME NEW s \in SopNames, StartRun(s)
      PROVE  \A r \in RunId : Accounted(r)'
  <2> SUFFICES ASSUME NEW r \in RunId
               PROVE  Accounted(r)'
    OBVIOUS
  <2>1. CASE r = issued'
    <3>1. /\ run'[r].status \in ActiveStatus
          /\ run'[r].step_results = << >>
          /\ run'[r].current_step = 1
          /\ run'[r].total_steps \in Nat \ {0}
      BY <1>5, <2>1, StartEffect
    <3>2. QED
      BY <3>1 DEF ActiveStatus, NoFailureIn
  <2>2. CASE r # issued'
    <3>1. run'[r] = run[r]
      BY <1>5, <2>2, StartEffect
    <3>2. QED
      BY <1>3, <3>1
  <2>3. QED
    BY <2>1, <2>2
<1>6. ASSUME NEW r \in RunId, NEW outcome \in Outcome, AdvanceStep(r, outcome)
      PROVE  \A q \in RunId : Accounted(q)'
  <2> DEFINE n == run[r].current_step
             old == run[r].step_results
             new == run'[r].step_results
  <2>1. old \in Seq(StepResult) /\ n \in Nat /\ run[r].total_steps \in Nat
    BY DEF TypeOK, Run
  <2>2. run[r].status \in ActiveStatus
    BY <1>6, AdvanceEffect DEF Lifecycle
  <2>3. /\ \A i \in DOMAIN old : old[i].step = i
        /\ Len(old) = n - 1
        /\ n \in 1 .. run[r].total_steps
        /\ NoFailureIn(old)
    BY <1>1, <2>2
  <2>4. new = Append(old, [step |-> n, outcome |-> outcome])
    BY <1>6, AdvanceEffect
  <2>5. /\ Len(new) = n
        /\ DOMAIN new = 1 .. n
        /\ new[n] = [step |-> n, outcome |-> outcome]
        /\ \A i \in 1 .. n - 1 : new[i] = old[i] /\ i \in DOMAIN old
    BY <2>1, <2>3, <2>4
  <2>6. \A i \in DOMAIN new : new[i].step = i
    <3>1. ASSUME NEW i \in 1 .. n
          PROVE  new[i].step = i
      <4>1. CASE i = n
        BY <2>5, <4>1
      <4>2. CASE i # n
        <5>1. i \in 1 .. n - 1
          BY <2>1, <4>2
        <5>2. QED
          BY <2>3, <2>5, <5>1
      <4>3. QED
        BY <4>1, <4>2
    <3>2. QED
      BY <2>5, <3>1
  <2>7. \A i \in 1 .. n - 1 : new[i].outcome # "failed"
    BY <2>3, <2>5 DEF NoFailureIn
  <2>8. new[n].outcome = outcome
    BY <2>5
  <2>9. Accounted(r)'
    <3>1. CASE /\ outcome = "failed"
               /\ run'[r].status = "Failed"
      <4>1. \A i \in DOMAIN new : new[i].outcome = "failed" <=> i = Len(new)
        BY <2>1, <2>5, <2>7, <2>8, <3>1
      <4>2. run'[r].total_steps = run[r].total_steps
        BY <1>6, AdvanceEffect
      <4>3. QED
        BY <2>1, <2>3, <2>5, <2>6, <3>1, <4>1, <4>2 DEF ActiveStatus
    <3>2. CASE outcome # "failed"
      <4>1. NoFailureIn(new)
        BY <2>1, <2>5, <2>7, <2>8, <3>2 DEF NoFailureIn
      <4>2. run'[r].total_steps = run[r].total_steps
        BY <1>6, AdvanceEffect
      <4>3. \/ run'[r].status = "Completed" /\ n + 1 > run[r].total_steps
            \/ /\ run'[r].status \in ActiveStatus
               /\ run'[r].current_step = n + 1
               /\ n + 1 <= run[r].total_steps
        BY <1>6, <3>2, AdvanceEffect
      <4>4. QED
        <5>1. CASE run'[r].status = "Completed" /\ n + 1 > run[r].total_steps
          <6>1. Len(new) = run'[r].total_steps
            BY <2>1, <2>3, <2>5, <4>2, <5>1
          <6>2. QED
            BY <2>6, <4>1, <5>1, <6>1 DEF ActiveStatus
        <5>2. CASE /\ run'[r].status \in ActiveStatus
                   /\ run'[r].current_step = n + 1
                   /\ n + 1 <= run[r].total_steps
          <6>1. /\ Len(new) = run'[r].current_step - 1
                /\ run'[r].current_step \in 1 .. run'[r].total_steps
            BY <2>1, <2>3, <2>5, <4>2, <5>2
          <6>2. QED
            BY <2>6, <4>1, <5>2, <6>1 DEF ActiveStatus
        <5>3. QED
          BY <4>3, <5>1, <5>2
    <3>3. QED
      BY <1>6, <3>1, <3>2, AdvanceEffect
  <2>10. ASSUME NEW q \in RunId, q # r
         PROVE  Accounted(q)'
    <3>1. run'[q] = run[q]
      BY <1>6, <2>10, AdvanceEffect
    <3>2. QED
      BY <1>3, <3>1
  <2>11. QED
    BY <2>9, <2>10
<1>7. ASSUME NEW r \in RunId, CancelRun(r)
      PROVE  \A q \in RunId : Accounted(q)'
  <2>1. Accounted(r)'
    <3>1. run[r].status \in ActiveStatus
      BY <1>7, CancelEffect DEF Lifecycle
    <3>2. \A i \in DOMAIN run'[r].step_results : run'[r].step_results[i].step = i
      BY <1>1, <1>7, CancelEffect
    <3>3. QED
      BY <1>7, <3>2, CancelEffect DEF ActiveStatus
  <2>2. QED
    BY <1>3, <1>7, <2>1, CancelEffect
<1>8. CASE ApprovalEffect
  <2>1. ASSUME NEW r \in active
        PROVE  Accounted(r)'
    <3>1. run[r].status \in ActiveStatus /\ r \in RunId
      BY DEF Lifecycle, TypeOK
    <3>2. QED
      BY <1>1, <1>8, <3>1 DEF ApprovalEffect, ActiveStatus, NoFailureIn
  <2>2. QED
    BY <1>3, <1>8, <2>1 DEF ApprovalEffect
<1>9. CASE LoseMemory
  BY <1>4, <1>9 DEF LoseMemory, NoRun
<1>10. CASE run' = run
  BY <1>3, <1>10
<1>11. QED
  BY <1>5, <1>6, <1>7, <1>8, <1>9, <1>10, StepCases

\* Every run of every SOP holds exactly one result per step it has passed, completes only
\* with all of them and fails at its first failed one (advance_step).
THEOREM StepAccountingInvariant == Spec => []StepAccounting
<1>1. Init => StepAccounting
  BY DEF Init, StepAccounting, NoRun
<1>2. QED
  BY <1>1, TypeCorrect, LifecycleInvariant, StepAccountingStep, PTL DEF Spec

-----------------------------------------------------------------------------
(* The concurrency limits.                                                 *)

\* The active runs are finitely many.
LEMMA ActiveFinite ==
  ASSUME TypeOK, NEW S \in SUBSET active
  PROVE  IsFiniteSet(S) /\ Cardinality(S) \in Nat
<1>1. IsFiniteSet(RunId)
  BY BoundsAssumption, FS_Interval DEF RunId
<1>2. IsFiniteSet(S)
  BY <1>1, FS_Subset DEF TypeOK
<1>3. QED
  BY <1>2, FS_CardinalityType

\* Runs that leave, or stay for their SOP, keep within the limits.
LEMMA FewerActive ==
  ASSUME TypeOK, ConcurrencyBounded, active' \subseteq active,
         \A r \in active' : run'[r].sop = run[r].sop
  PROVE  ConcurrencyBounded'
<1>1. Cardinality(active') <= MaxConcurrentTotal
  <2>1. Cardinality(active') <= Cardinality(active)
    BY ActiveFinite, FS_Subset
  <2>2. Cardinality(active') \in Nat /\ Cardinality(active) \in Nat
    BY ActiveFinite
  <2>3. QED
    BY <2>1, <2>2, LimitsAssumption DEF ConcurrencyBounded
<1>2. ASSUME NEW s \in SopNames, ActiveOf(s)' # {}
      PROVE  \E c \in Catalogs : s \in DOMAIN c /\ Cardinality(ActiveOf(s)') <= c[s].max_concurrent
  <2>1. ActiveOf(s)' \subseteq ActiveOf(s) /\ ActiveOf(s) \in SUBSET active
    BY DEF ActiveOf
  <2>2. PICK c \in Catalogs : s \in DOMAIN c /\ Cardinality(ActiveOf(s)) <= c[s].max_concurrent
    BY <1>2, <2>1 DEF ConcurrencyBounded
  <2>3. Cardinality(ActiveOf(s)') <= Cardinality(ActiveOf(s))
    BY <2>1, ActiveFinite, FS_Subset
  <2>4. Cardinality(ActiveOf(s)') \in Nat /\ Cardinality(ActiveOf(s)) \in Nat
    BY <2>1, ActiveFinite
  <2>5. c[s].max_concurrent \in Nat
    <3>1. c \in [DOMAIN c -> Sop]
      BY CatalogsAssumption
    <3>2. c[s] \in Sop
      BY <2>2, <3>1
    <3>3. QED
      BY <3>2 DEF Sop
  <2>6. QED
    BY <2>2, <2>3, <2>4, <2>5
<1>3. QED
  BY <1>1, <1>2 DEF ConcurrencyBounded

\* A run that joins was let in by can_start.
LEMMA OneMoreActive ==
  ASSUME TypeOK, Lifecycle, ConcurrencyBounded, NEW s \in SopNames, StartRun(s)
  PROVE  ConcurrencyBounded'
<1>1. issued' \notin active
  <2>1. issued \in Nat /\ RunId \subseteq Nat
    BY BoundsAssumption DEF TypeOK, RunId
  <2>2. issued' = issued + 1 /\ issued' \in RunId
    BY StartEffect
  <2>3. run[issued'] = NoRun
    BY <2>1, <2>2 DEF Lifecycle
  <2>4. QED
    BY <2>2, <2>3 DEF Lifecycle, NoRun, ActiveStatus
<1>2. IsFiniteSet(active) /\ Cardinality(active) \in Nat
  BY ActiveFinite
<1>3. Cardinality(active') <= MaxConcurrentTotal
  <2>1. Cardinality(active') = Cardinality(active) + 1
    BY <1>1, <1>2, StartEffect, FS_AddElement
  <2>2. Cardinality(active) < MaxConcurrentTotal
    BY DEF StartRun, CanStart
  <2>3. QED
    BY <1>2, <2>1, <2>2, LimitsAssumption
<1>4. ASSUME NEW t \in SopNames, ActiveOf(t)' # {}
      PROVE  \E c \in Catalogs : t \in DOMAIN c /\ Cardinality(ActiveOf(t)') <= c[t].max_concurrent
  <2>1. CASE t # s
    <3>1. ActiveOf(t)' = ActiveOf(t)
      BY <1>1, <2>1, StartEffect DEF ActiveOf, TypeOK
    <3>2. QED
      BY <1>4, <3>1 DEF ConcurrencyBounded
  <2>2. CASE t = s
    <3>1. ActiveOf(s)' = ActiveOf(s) \cup {issued'}
      BY <1>1, StartEffect DEF ActiveOf, TypeOK
    <3>2. issued' \notin ActiveOf(s) /\ ActiveOf(s) \in SUBSET active
      BY <1>1 DEF ActiveOf
    <3>3. IsFiniteSet(ActiveOf(s)) /\ Cardinality(ActiveOf(s)) \in Nat
      BY <3>2, ActiveFinite
    <3>4. Cardinality(ActiveOf(s)') = Cardinality(ActiveOf(s)) + 1
      BY <3>1, <3>2, <3>3, FS_AddElement
    <3>5. Loaded(s) /\ Cardinality(ActiveOf(s)) < catalog[s].max_concurrent
      BY DEF StartRun, CanStart
    <3>6. catalog[s].max_concurrent \in Nat /\ catalog \in Catalogs /\ s \in DOMAIN catalog
      BY <3>5, CatalogType DEF Sop, Loaded, TypeOK
    <3>7. Cardinality(ActiveOf(s)') <= catalog[s].max_concurrent
      BY <3>3, <3>4, <3>5, <3>6
    <3>8. QED
      BY <2>2, <3>6, <3>7
  <2>3. QED
    BY <2>1, <2>2
<1>5. QED
  BY <1>3, <1>4 DEF ConcurrencyBounded

\* Every step keeps the limits.
LEMMA ConcurrencyBoundedStep ==
  TypeOK /\ Lifecycle /\ ConcurrencyBounded /\ [Next]_vars => ConcurrencyBounded'
<1> SUFFICES ASSUME TypeOK, Lifecycle, ConcurrencyBounded, [Next]_vars
             PROVE  ConcurrencyBounded'
  OBVIOUS
<1>1. ASSUME NEW s \in SopNames, StartRun(s)
      PROVE  ConcurrencyBounded'
  BY <1>1, OneMoreActive
<1>2. ASSUME NEW r \in RunId, NEW outcome \in Outcome, AdvanceStep(r, outcome)
      PROVE  ConcurrencyBounded'
  <2>1. /\ active' \subseteq active
        /\ run'[r].sop = run[r].sop
        /\ \A q \in RunId \ {r} : run'[q] = run[q]
    BY <1>2, AdvanceEffect
  <2>2. QED
    BY <2>1, FewerActive DEF TypeOK
<1>3. ASSUME NEW r \in RunId, CancelRun(r)
      PROVE  ConcurrencyBounded'
  <2>1. /\ active' \subseteq active
        /\ run'[r].sop = run[r].sop
        /\ \A q \in RunId \ {r} : run'[q] = run[q]
    BY <1>3, CancelEffect
  <2>2. QED
    BY <2>1, FewerActive DEF TypeOK
<1>4. CASE ApprovalEffect
  BY <1>4, FewerActive DEF ApprovalEffect
<1>5. CASE LoseMemory
  BY <1>5, FewerActive DEF LoseMemory
<1>6. CASE run' = run /\ active' = active
  BY <1>6, FewerActive
<1>7. QED
  BY <1>1, <1>2, <1>3, <1>4, <1>5, <1>6, StepCases

\* No interleaving of starts, reports, approvals, reloads and restarts takes the engine
\* over max_concurrent_total, or a SOP over every limit it was ever given (can_start).
THEOREM ConcurrencyBoundedInvariant == Spec => []ConcurrencyBounded
<1>1. Init => ConcurrencyBounded
  BY LimitsAssumption, FS_EmptySet DEF Init, ConcurrencyBounded, ActiveOf
<1>2. QED
  BY <1>1, TypeCorrect, LifecycleInvariant, ConcurrencyBoundedStep, PTL DEF Spec

-----------------------------------------------------------------------------
(* The engine implements SopRunPool.                                       *)

\* Where an active run is, and that an issued run is no longer unborn.
LEMMA PhaseOfActive ==
  ASSUME TypeOK, Lifecycle, NEW r \in RunId
  PROVE  /\ phaseOf(r) = "active" <=> r \in active
         /\ r \in active => r <= issued
         /\ phaseOf(r) = "unborn" <=> r > issued
<1>1. issued \in Nat /\ r \in Nat
  BY BoundsAssumption DEF TypeOK, RunId
<1>2. run[r].status \in Status
  BY DEF TypeOK, Run
<1>3. r > issued => r \notin active
  BY DEF Lifecycle, NoRun, ActiveStatus
<1>4. QED
  BY <1>1, <1>2, <1>3 DEF phaseOf, Lifecycle, Status, ActiveStatus, FinalStatus

\* A step that moves run r only: the pool's functions change at r only.
LEMMA OtherRunsKeepPhase ==
  ASSUME TypeOK, NEW r \in RunId, issued' = issued,
         \A q \in RunId \ {r} : run'[q] = run[q]
  PROVE  /\ phaseBar' = [phaseBar EXCEPT ![r] = phaseOf(r)']
         /\ needBar' = [needBar EXCEPT ![r] = run'[r].total_steps]
         /\ reportedBar' = [reportedBar EXCEPT ![r] = Len(run'[r].step_results)]
<1>1. \A q \in RunId \ {r} : phaseOf(q)' = phaseOf(q)
  BY DEF phaseOf
<1>2. QED
  BY <1>1 DEF phaseBar, needBar, reportedBar

\* The engine begins as an empty pool.
LEMMA InitRefines == Init => RunPool!Init
<1> SUFFICES ASSUME Init
             PROVE  RunPool!Init
  OBVIOUS
<1>1. \A r \in RunId : phaseOf(r) = "unborn"
  BY DEF Init, phaseOf, RunId
<1>2. \A r \in RunId : run[r].total_steps = 0 /\ Len(run[r].step_results) = 0
  BY DEF Init, NoRun
<1>3. QED
  BY <1>1, <1>2 DEF RunPool!Init, phaseBar, needBar, reportedBar

\* The pool's own copy of the standard module counts as the engine's does.
LEMMA SameCardinality ==
  ASSUME NEW S
  PROVE  RunPool!Cardinality(S) = Cardinality(S)
  BY DEF RunPool!Cardinality, Cardinality

\* start_run admits a run to the pool.
LEMMA StartRefines ==
  ASSUME TypeOK, Lifecycle, Lifecycle', TypeOK', ConcurrencyBounded,
         NEW s \in SopNames, StartRun(s)
  PROVE  \E r \in RunId : RunPool!Admit(r)
<1> SUFFICES ASSUME NEW r \in RunId, r = issued + 1
             PROVE  RunPool!Admit(r)
  BY StartEffect
<1>1. /\ issued \in Nat /\ issued' = r
      /\ RunId \subseteq Nat
  BY StartEffect, BoundsAssumption DEF TypeOK, RunId
<1>2. run[r] = NoRun /\ r > issued
  BY <1>1 DEF Lifecycle
<1>3. phaseOf(r) = "unborn"
  BY <1>2 DEF phaseOf
<1>4. phaseOf(r)' = "active"
  BY <1>1, StartEffect DEF phaseOf, ActiveStatus
<1>5. \A q \in RunId \ {r} : phaseOf(q)' = phaseOf(q)
  <2>1. \A q \in RunId \ {r} : run'[q] = run[q] /\ (q > issued' <=> q > issued)
    BY <1>1, StartEffect
  <2>2. QED
    BY <2>1 DEF phaseOf
<1>6. {q \in RunId : phaseBar[q] = "active"} = active
  BY PhaseOfActive DEF phaseBar, TypeOK
<1>7. Cardinality(active) < MaxConcurrentTotal
  BY DEF StartRun, CanStart
<1>8. phaseBar' = [phaseBar EXCEPT ![r] = "active"]
  BY <1>1, <1>4, <1>5 DEF phaseBar
<1>9. /\ needBar' = [needBar EXCEPT ![r] = needBar'[r]]
      /\ needBar'[r] \in Nat \ {0}
      /\ reportedBar' = reportedBar
  <2>1. \A q \in RunId \ {r} : run'[q] = run[q]
    BY <1>1, StartEffect
  <2>2. /\ run'[r].step_results = << >> /\ run[r].step_results = << >>
        /\ run'[r].total_steps \in Nat \ {0}
    BY <1>1, <1>2, StartEffect DEF NoRun
  <2>3. QED
    BY <2>1, <2>2 DEF needBar, reportedBar
<1>10. /\ phaseBar[r] = "unborn"
       /\ Cardinality({q \in RunId : phaseBar[q] = "active"}) < MaxConcurrentTotal
  BY <1>3, <1>6, <1>7 DEF phaseBar
<1>11. QED
  BY <1>8, <1>9, <1>10, SameCardinality DEF RunPool!Admit

\* advance_step reports a step of the pool, or ends a run of it.
LEMMA AdvanceRefines ==
  ASSUME TypeOK, Lifecycle, StepAccounting, NEW r \in RunId, NEW outcome \in Outcome,
         AdvanceStep(r, outcome)
  PROVE  RunPool!Report(r) \/ RunPool!Fail(r)
<1>1. /\ r \in active
      /\ phaseBar[r] = "active"
      /\ r <= issued /\ issued' = issued
  BY AdvanceEffect, PhaseOfActive DEF phaseBar
<1>2. /\ run[r].current_step \in Nat /\ run[r].total_steps \in Nat
      /\ run[r].step_results \in Seq(StepResult)
      /\ r \in Nat /\ issued \in Nat
  BY BoundsAssumption DEF TypeOK, Run, RunId
<1>3. /\ Len(run[r].step_results) = run[r].current_step - 1
      /\ run[r].current_step \in 1 .. run[r].total_steps
  BY <1>1 DEF StepAccounting
<1>4. Len(run'[r].step_results) = Len(run[r].step_results) + 1
  <2>1. [step |-> run[r].current_step, outcome |-> outcome] \in StepResult
    BY <1>2 DEF StepResult
  <2>2. run'[r].step_results
          = Append(run[r].step_results, [step |-> run[r].current_step, outcome |-> outcome])
    BY AdvanceEffect
  <2>3. QED
    BY <1>2, <2>1, <2>2
<1>5. /\ phaseBar' = [phaseBar EXCEPT ![r] = phaseOf(r)']
      /\ needBar' = needBar
      /\ reportedBar' = [reportedBar EXCEPT ![r] = reportedBar[r] + 1]
  <2>1. /\ phaseBar' = [phaseBar EXCEPT ![r] = phaseOf(r)']
        /\ needBar' = [needBar EXCEPT ![r] = run'[r].total_steps]
        /\ reportedBar' = [reportedBar EXCEPT ![r] = Len(run'[r].step_results)]
    <3>1. \A q \in RunId \ {r} : run'[q] = run[q]
      BY AdvanceEffect
    <3>2. QED  BY <1>1, <3>1, OtherRunsKeepPhase
  <2>2. needBar' = needBar
    <3>1. run'[r].total_steps = run[r].total_steps
      BY AdvanceEffect
    <3>2. QED  BY <2>1, <3>1 DEF needBar
  <2>3. Len(run'[r].step_results) = reportedBar[r] + 1
    BY <1>4 DEF reportedBar
  <2>4. QED  BY <2>1, <2>2, <2>3
<1>6. CASE outcome = "failed"
  <2>1. phaseOf(r)' = "Failed"
    <3>1. run'[r].status = "Failed"
      BY <1>6, AdvanceEffect
    <3>2. QED
      BY <1>1, <1>2, <3>1 DEF phaseOf, ActiveStatus
  <2>2. QED
    BY <1>1, <1>5, <2>1 DEF RunPool!Fail
<1>7. CASE outcome # "failed"
  <2>0. \/ run'[r].status = "Completed" /\ run[r].current_step + 1 > run[r].total_steps
        \/ /\ run'[r].status \in ActiveStatus
           /\ run[r].current_step + 1 <= run[r].total_steps
    BY <1>7, AdvanceEffect
  <2>1. phaseOf(r)' = IF reportedBar[r] + 1 = needBar[r] THEN "Completed" ELSE phaseBar[r]
    <3>1. CASE run[r].current_step + 1 > run[r].total_steps
      <4>1. run'[r].status = "Completed"
        BY <1>2, <2>0, <3>1
      <4>2. phaseOf(r)' = "Completed"
        BY <1>1, <1>2, <4>1 DEF phaseOf, ActiveStatus
      <4>3. reportedBar[r] + 1 = needBar[r]
        BY <1>2, <1>3, <3>1 DEF needBar, reportedBar
      <4>4. QED
        BY <4>2, <4>3
    <3>2. CASE run[r].current_step + 1 <= run[r].total_steps
      <4>1. reportedBar[r] + 1 # needBar[r]
        BY <1>2, <1>3, <3>2 DEF needBar, reportedBar
      <4>2. phaseOf(r)' = "active"
        <5>1. run'[r].status \in ActiveStatus
          BY <1>2, <2>0, <3>2
        <5>2. QED
          BY <1>1, <1>2, <5>1 DEF phaseOf, ActiveStatus
      <4>3. QED
        BY <1>1, <4>1, <4>2
    <3>3. QED
      BY <1>2, <3>1, <3>2
  <2>2. QED
    BY <1>1, <1>5, <2>1 DEF RunPool!Report
<1>8. QED
  BY <1>6, <1>7

\* cancel_run takes a run out of the pool.
LEMMA CancelRefines ==
  ASSUME TypeOK, Lifecycle, NEW r \in RunId, CancelRun(r)
  PROVE  RunPool!Cancel(r)
<1>1. phaseBar[r] = "active" /\ r <= issued /\ issued' = issued
  BY CancelEffect, PhaseOfActive DEF phaseBar
<1>2. r \in Nat /\ issued \in Nat
  BY BoundsAssumption DEF TypeOK, RunId
<1>3. phaseOf(r)' = "Cancelled"
  BY <1>1, <1>2, CancelEffect DEF phaseOf, ActiveStatus
<1>4. /\ phaseBar' = [phaseBar EXCEPT ![r] = "Cancelled"]
      /\ needBar' = needBar /\ reportedBar' = reportedBar
  BY <1>1, <1>3, CancelEffect, OtherRunsKeepPhase DEF needBar, reportedBar
<1>5. QED
  BY <1>1, <1>4 DEF RunPool!Cancel

\* Approvals, reloads and time leave the pool as it is.
LEMMA StutterRefines ==
  ASSUME TypeOK, Lifecycle,
         ApprovalEffect \/ (run' = run /\ active' = active /\ issued' = issued)
  PROVE  phaseBar' = phaseBar /\ needBar' = needBar /\ reportedBar' = reportedBar
<1>1. ASSUME NEW r \in RunId
      PROVE  /\ phaseOf(r)' = phaseOf(r)
             /\ run'[r].total_steps = run[r].total_steps
             /\ run'[r].step_results = run[r].step_results
  <2>1. CASE run'[r] = run[r]
    BY <2>1 DEF phaseOf, ApprovalEffect
  <2>2. CASE r \in active /\ ApprovalEffect
    <3>1. run[r].status \in ActiveStatus /\ run'[r].status \in ActiveStatus /\ issued' = issued
      BY <2>2 DEF Lifecycle, ApprovalEffect
    <3>2. QED
      BY <2>2, <3>1 DEF phaseOf, ApprovalEffect, ActiveStatus
  <2>3. QED
    BY <2>1, <2>2 DEF ApprovalEffect
<1>2. QED
  BY <1>1 DEF phaseBar, needBar, reportedBar

\* A restart, or an abort, empties the pool.
LEMMA ForgetRefines ==
  ASSUME TypeOK, Lifecycle, LoseMemory
  PROVE  RunPool!Forget
<1>1. ASSUME NEW r \in RunId
      PROVE  phaseOf(r)' = IF phaseOf(r) = "unborn" THEN "unborn" ELSE "lost"
  <2>1. issued' = issued /\ run'[r].status = "None"
    BY DEF LoseMemory, NoRun
  <2>2. QED
    BY <2>1, PhaseOfActive DEF phaseOf
<1>2. \A r \in RunId : run'[r].total_steps = 0 /\ Len(run'[r].step_results) = 0
  BY DEF LoseMemory, NoRun
<1>3. QED
  BY <1>1, <1>2 DEF RunPool!Forget, phaseBar, needBar, reportedBar

\* Every step of the engine is a step of the pool or leaves it as it is.
LEMMA StepRefines ==
  ASSUME TypeOK, TypeOK', Lifecycle, Lifecycle', StepAccounting, ConcurrencyBounded,
         [Next]_vars
  PROVE  [RunPool!Next]_(RunPool!vars)
<1>1. CASE \E s \in SopNames : StartRun(s)
  BY <1>1, StartRefines DEF RunPool!Next
<1>2. CASE \E r \in RunId, outcome \in Outcome : AdvanceStep(r, outcome)
  BY <1>2, AdvanceRefines DEF RunPool!Next
<1>3. CASE \E r \in RunId : CancelRun(r)
  BY <1>3, CancelRefines DEF RunPool!Next
<1>4. CASE LoseMemory
  BY <1>4, ForgetRefines DEF RunPool!Next
<1>5. CASE ApprovalEffect \/ (run' = run /\ active' = active /\ issued' = issued)
  BY <1>5, StutterRefines DEF RunPool!vars
<1>6. QED
  BY <1>1, <1>2, <1>3, <1>4, <1>5, StepCases

\* Every behaviour of the engine is a behaviour of the pool: whatever approvals, polls,
\* reloads and evictions interleave, a run moves only by its reports, its cancellation
\* or the end of the process.
THEOREM EngineImplementsRunPool == Spec => ImplementsRunPool
<1>1. Init => RunPool!Init
  BY InitRefines
<1>2. TypeOK /\ TypeOK' /\ Lifecycle /\ Lifecycle' /\ StepAccounting /\ ConcurrencyBounded
        /\ [Next]_vars => [RunPool!Next]_(RunPool!vars)
  BY StepRefines
<1>3. QED
  BY <1>1, <1>2, TypeCorrect, LifecycleInvariant, StepAccountingInvariant,
     ConcurrencyBoundedInvariant, PTL DEF Spec, ImplementsRunPool, RunPool!Spec


-----------------------------------------------------------------------------
(* Waits.                                                                  *)

Timed(rec) == rec.status = "WaitingApproval" <=> rec.waiting_since # Never

\* A run that arrives at a step carries a time exactly when it waits there.
LEMMA ArriveTimed ==
  ASSUME TypeOK, NEW rec \in Run, Timed(rec), NEW d, NEW n
  PROVE  Timed(Arrive(rec, d, n))
  BY BoundsAssumption DEF Timed, Arrive, Run, TypeOK, Time, Never

\* An approved run neither waits nor carries a time.
LEMMA ApprovedTimed ==
  ASSUME NEW rec \in Run
  PROVE  Timed(Approved(rec))
  BY DEF Timed, Approved, Run

\* Every step keeps waits and their times together.
LEMMA WaitingIsTimedStep ==
  TypeOK /\ Lifecycle /\ WaitingIsTimed /\ [Next]_vars => WaitingIsTimed'
<1> SUFFICES ASSUME TypeOK, Lifecycle, WaitingIsTimed, [Next]_vars
             PROVE  \A r \in active' : Timed(run'[r])
  BY DEF WaitingIsTimed, Timed
<1>0. active \subseteq RunId /\ \A r \in RunId : run[r] \in Run
  BY DEF TypeOK
<1>1. \A r \in active : Timed(run[r])
  BY DEF WaitingIsTimed, Timed
<1>2. ASSUME NEW s \in SopNames, StartRun(s)
      PROVE  \A r \in active' : Timed(run'[r])
  <2> DEFINE rec == [NoRun EXCEPT !.sop = s, !.status = "Running", !.current_step = 1,
                                  !.total_steps = StepCount(s)]
  <2>1. StepCount(s) \in Nat
    BY <1>2, CatalogType DEF StartRun, CanStart
  <2>2. rec \in Run /\ Timed(rec)
    BY <2>1, NoRunType DEF Run, Status, ActiveStatus, NoRun, Timed
  <2>3. run' = [run EXCEPT ![issued + 1] = Arrive(rec, catalog[s], 1)]
    BY <1>2 DEF StartRun
  <2> HIDE DEF rec
  <2>4. run'[issued'] = Arrive(rec, catalog[s], 1)
    BY <1>2, <2>3, StartEffect DEF TypeOK
  <2>5. Timed(run'[issued'])
    BY <2>2, <2>4, ArriveTimed
  <2>6. QED
    BY <1>0, <1>1, <1>2, <2>5, StartEffect
<1>3. ASSUME NEW r \in RunId, NEW outcome \in Outcome, AdvanceStep(r, outcome)
      PROVE  \A q \in active' : Timed(run'[q])
  <2> DEFINE n == run[r].current_step
             reported == Reported(run[r], outcome)
             next == [reported EXCEPT !.current_step = n + 1]
  <2>1. \A q \in RunId \ {r} : run'[q] = run[q]
    BY <1>3, AdvanceEffect
  <2>2. CASE active' = active \ {r}
    BY <1>0, <1>1, <2>1, <2>2
  <2>3. CASE /\ run' = [run EXCEPT ![r] = Arrive(next, catalog[run[r].sop], n + 1)]
             /\ active' = active
    <3>1. /\ next \in Run
          /\ next.status = run[r].status
          /\ next.waiting_since = run[r].waiting_since
      <4>1. n \in Nat /\ run[r].step_results \in Seq(StepResult)
        BY <1>0 DEF Run
      <4>2. [step |-> n, outcome |-> outcome] \in StepResult
        BY <4>1 DEF StepResult
      <4>3. Append(run[r].step_results, [step |-> n, outcome |-> outcome]) \in Seq(StepResult)
        BY <4>1, <4>2
      <4>4. /\ reported \in Run
            /\ reported.status = run[r].status
            /\ reported.waiting_since = run[r].waiting_since
        BY <1>0, <4>3 DEF Run, Reported
      <4>5. n + 1 \in Nat
        BY <4>1
      <4> HIDE DEF reported
      <4>6. QED
        BY <4>4, <4>5 DEF Run
    <3>2. Timed(run[r])
      BY <1>1, <1>3 DEF AdvanceStep
    <3>3. Timed(next)
      BY <3>1, <3>2 DEF Timed
    <3> HIDE DEF next
    <3>4. run'[r] = Arrive(next, catalog[run[r].sop], n + 1)
      BY <2>3 DEF TypeOK
    <3>5. Timed(run'[r])
      BY <3>1, <3>3, <3>4, ArriveTimed
    <3>6. QED
      BY <1>0, <1>1, <2>1, <2>3, <3>5
  <2>4. QED
    BY <1>3, <2>2, <2>3 DEF AdvanceStep, Finish
<1>4. ASSUME NEW r \in RunId, ApproveStep(r)
      PROVE  \A q \in active' : Timed(run'[q])
  <2>1. run'[r] = Approved(run[r]) /\ \A q \in RunId \ {r} : run'[q] = run[q]
    BY <1>4 DEF ApproveStep, TypeOK
  <2>2. QED
    BY <1>0, <1>1, <1>4, <2>1, ApprovedTimed DEF ApproveStep
<1>5. ASSUME NEW r \in RunId, CancelRun(r)
      PROVE  \A q \in active' : Timed(run'[q])
  BY <1>0, <1>1, <1>5, CancelEffect
<1>6. CASE CheckApprovalTimeouts
  <2>1. \A q \in RunId : run'[q] = IF q \in TimedOut THEN Approved(run[q]) ELSE run[q]
    BY <1>6 DEF CheckApprovalTimeouts
  <2>2. QED
    BY <1>0, <1>1, <1>6, <2>1, ApprovedTimed DEF CheckApprovalTimeouts
<1>7. CASE LoseMemory
  BY <1>7 DEF LoseMemory
<1>8. CASE run' = run /\ active' = active
  BY <1>1, <1>8
<1>9. QED
  BY <1>2, <1>3, <1>4, <1>5, <1>6, <1>7, <1>8 DEF Next, IndexPanic, Restart, Reload, Tick, vars

\* An active run waits exactly while it carries the beginning of its wait, so no wait is
\* invisible to check_approval_timeouts and no approved run is approved again by it.
THEOREM WaitingIsTimedInvariant == Spec => []WaitingIsTimed
<1>1. Init => WaitingIsTimed
  BY DEF Init, WaitingIsTimed
<1>2. QED
  BY <1>1, WaitingIsTimedStep, TypeCorrect, LifecycleInvariant, PTL DEF Spec

-----------------------------------------------------------------------------
(* Finished runs.                                                          *)

\* What retention rests on: a finished run carries a time that has passed.
Dated ==
  \A r \in RunId : run[r].status \in FinalStatus => run[r].completed_at \in 0 .. now

\* A queue at most one longer than the limit loses at most its first element.
LEMMA RetainEffect ==
  ASSUME NEW q \in Seq(RunId), MaxFinished > 0 => Len(q) <= MaxFinished + 1
  PROVE  \/ Retain(q) = q /\ (MaxFinished > 0 => Len(q) <= MaxFinished)
         \/ /\ MaxFinished > 0 /\ Len(q) = MaxFinished + 1
            /\ DOMAIN Retain(q) = 1 .. MaxFinished
            /\ \A i \in 1 .. MaxFinished : Retain(q)[i] = q[i + 1]
  BY LimitsAssumption DEF Retain

\* One run, active until now, is finished now.
Finishes(r) ==
  /\ r \in active /\ now' = now
  /\ run'[r].status \in FinalStatus /\ run'[r].completed_at = now
  /\ \A q \in RunId \ {r} : run'[q] = run[q]
  /\ finished' = Retain(Append(finished, r))

\* No run is finished or forgotten.
KeepsFinished ==
  /\ finished' = finished /\ now <= now'
  /\ \A q \in RunId : run[q].status \in FinalStatus \/ run'[q].status \in FinalStatus
                       => run'[q] = run[q]

\* finish_run appends the run to the history, dated now, and retains what fits.
LEMMA FinishFinishes ==
  ASSUME TypeOK, NEW r \in RunId, NEW rec \in Run, NEW status \in FinalStatus,
         Finish(r, rec, status), r \in active, now' = now
  PROVE  Finishes(r)
  BY DEF Finish, Finishes, TypeOK, Run

\* As far as the history is concerned a step finishes a run, keeps it or loses all.
LEMMA RetentionCases ==
  ASSUME TypeOK, TypeOK', Lifecycle, Lifecycle', [Next]_vars
  PROVE  (\E r \in RunId : Finishes(r)) \/ KeepsFinished \/ LoseMemory
<1>0. now \in Int /\ now' \in Int
  BY DEF TypeOK, Time
<1>1. ASSUME NEW s \in SopNames, StartRun(s)
      PROVE  KeepsFinished
  <2>1. issued \in Nat /\ issued' \in RunId /\ issued' > issued
    BY <1>1, StartEffect DEF TypeOK
  <2>2. run[issued'] = NoRun
    BY <2>1 DEF Lifecycle
  <2>3. run'[issued'].status \notin FinalStatus /\ run[issued'].status \notin FinalStatus
    BY <1>1, <2>2, StartEffect DEF NoRun, ActiveStatus, FinalStatus
  <2>4. finished' = finished /\ now' = now
    BY <1>1 DEF StartRun
  <2>5. \A q \in RunId \ {issued'} : run'[q] = run[q]
    BY <1>1, StartEffect
  <2>6. QED
    BY <1>0, <2>3, <2>4, <2>5 DEF KeepsFinished
<1>2. ASSUME NEW r \in RunId, NEW outcome \in Outcome, AdvanceStep(r, outcome)
      PROVE  Finishes(r) \/ KeepsFinished
  <2> DEFINE reported == Reported(run[r], outcome)
  <2>1. CASE Finish(r, reported, "Failed") \/ Finish(r, reported, "Completed")
    <3>1. run[r].step_results \in Seq(StepResult) /\ run[r].current_step \in Nat
      BY DEF TypeOK, Run
    <3>2. [step |-> run[r].current_step, outcome |-> outcome] \in StepResult
      BY <3>1 DEF StepResult
    <3>3. Append(run[r].step_results, [step |-> run[r].current_step, outcome |-> outcome])
            \in Seq(StepResult)
      BY <3>1, <3>2
    <3>4. reported \in Run
      BY <3>3 DEF Reported, Run, TypeOK
    <3>5. QED
      BY <1>2, <2>1, <3>4, FinishFinishes DEF AdvanceStep, FinalStatus
  <2>2. CASE finished' = finished /\ active' = active
    <3>1. run'[r].status \notin FinalStatus /\ run[r].status \notin FinalStatus
      BY <1>2, <2>2 DEF Lifecycle, AdvanceStep, ActiveStatus, FinalStatus
    <3>2. now' = now
      BY <1>2 DEF AdvanceStep
    <3>3. \A q \in RunId \ {r} : run'[q] = run[q]
      BY <1>2, AdvanceEffect
    <3>4. QED
      BY <1>0, <2>2, <3>1, <3>2, <3>3 DEF KeepsFinished
  <2>3. QED
    BY <1>2, <2>1, <2>2 DEF AdvanceStep
<1>3. ASSUME NEW r \in RunId, CancelRun(r)
      PROVE  Finishes(r)
  BY <1>3, FinishFinishes DEF CancelRun, TypeOK, FinalStatus
<1>4. ASSUME ApprovalEffect, finished' = finished, now' = now
      PROVE  KeepsFinished
  <2>1. \A q \in active : /\ run[q].status \notin FinalStatus
                          /\ run'[q].status \notin FinalStatus
    BY <1>4 DEF ApprovalEffect, Lifecycle, TypeOK, ActiveStatus, FinalStatus
  <2>2. QED
    BY <1>0, <1>4, <2>1 DEF ApprovalEffect, KeepsFinished
<1>5. ASSUME NEW r \in RunId, ApproveStep(r)
      PROVE  KeepsFinished
  BY <1>4, <1>5, ApproveStepEffect DEF ApproveStep
<1>6. CASE CheckApprovalTimeouts
  BY <1>4, <1>6, CheckApprovalTimeoutsEffect DEF CheckApprovalTimeouts
<1>7. CASE Reload \/ Tick \/ UNCHANGED vars
  BY <1>0, <1>7 DEF Reload, Tick, vars, KeepsFinished
<1>8. QED
  BY <1>1, <1>2, <1>3, <1>5, <1>6, <1>7 DEF Next, IndexPanic, Restart

\* No finished run is dated in the future, whatever the step.
LEMMA DatedStep ==
  TypeOK /\ TypeOK' /\ Lifecycle /\ Lifecycle' /\ Dated /\ [Next]_vars => Dated'
<1> SUFFICES ASSUME TypeOK, TypeOK', Lifecycle, Lifecycle', Dated, [Next]_vars
             PROVE  Dated'
  OBVIOUS
<1>0. now \in Nat /\ now' \in Nat
  BY BoundsAssumption DEF TypeOK, Time
<1>1. ASSUME NEW r \in RunId, Finishes(r)
      PROVE  Dated'
  BY <1>0, <1>1 DEF Finishes, Dated
<1>2. CASE KeepsFinished
  BY <1>0, <1>2 DEF KeepsFinished, Dated
<1>3. CASE LoseMemory
  BY <1>3 DEF LoseMemory, Dated, NoRun, FinalStatus
<1>4. QED
  BY <1>1, <1>2, <1>3, RetentionCases

\* Finished runs are dated between the start of the clock and now.
LEMMA DatedInvariant == Spec => []Dated
<1>1. Init => Dated
  BY DEF Init, Dated, NoRun, FinalStatus
<1>2. QED
  BY <1>1, DatedStep, TypeCorrect, LifecycleInvariant, PTL DEF Spec

\* Appending now and evicting at the front keeps the history a suffix in time.
LEMMA RetentionStep ==
  TypeOK /\ TypeOK' /\ Lifecycle /\ Lifecycle' /\ Dated /\ RetentionCorrect /\ [Next]_vars
    => RetentionCorrect'
<1> SUFFICES ASSUME TypeOK, TypeOK', Lifecycle, Lifecycle', Dated, RetentionCorrect,
                    [Next]_vars
             PROVE  RetentionCorrect'
  OBVIOUS
<1>0. finished \in Seq(RunId)
  BY DEF TypeOK
<1>1. ASSUME NEW r \in RunId, Finishes(r)
      PROVE  RetentionCorrect'
  <2> DEFINE q == Append(finished, r)
             done(x) == run'[x].completed_at
             old == {x \in RunId : /\ run'[x].status \in FinalStatus
                                   /\ \A i \in DOMAIN q : q[i] # x}
  <2>1. /\ q \in Seq(RunId) /\ Len(q) = Len(finished) + 1 /\ q[Len(q)] = r
        /\ \A i \in DOMAIN q : i # Len(q) => i \in DOMAIN finished /\ q[i] = finished[i]
        /\ \A i \in DOMAIN finished : i \in DOMAIN q /\ q[i] = finished[i] /\ i # Len(q)
        /\ Len(q) \in DOMAIN q /\ DOMAIN q = 1 .. Len(q)
    BY <1>0
  <2>2. run[r].status \notin FinalStatus
    BY <1>1 DEF Finishes, Lifecycle, ActiveStatus, FinalStatus
  <2>3. \A i \in DOMAIN finished :
          /\ finished[i] \in RunId /\ finished[i] # r
          /\ run'[finished[i]] = run[finished[i]]
          /\ run[finished[i]].status \in FinalStatus
    BY <1>0, <1>1, <2>2 DEF RetentionCorrect, Finishes
  <2>4. /\ now \in Nat /\ done(r) = now
        /\ \A x \in RunId : run'[x].status \in FinalStatus => done(x) \in 0 .. now
    <3>1. now \in Nat /\ now' = now /\ done(r) = now
      BY <1>1, BoundsAssumption DEF TypeOK, Time, Finishes
    <3>2. Dated'
      BY DatedStep
    <3>3. QED
      BY <3>1, <3>2 DEF Dated
  <2>5. \A i \in DOMAIN q : run'[q[i]].status \in FinalStatus
    BY <1>1, <2>1, <2>3 DEF Finishes
  <2>6. \A i, j \in DOMAIN q : i < j => q[i] # q[j] /\ done(q[i]) <= done(q[j])
    <3> SUFFICES ASSUME NEW i \in DOMAIN q, NEW j \in DOMAIN q, i < j
                 PROVE  q[i] # q[j] /\ done(q[i]) <= done(q[j])
      OBVIOUS
    <3>1. i # Len(q)
      BY <2>1
    <3>2. CASE j = Len(q)
      <4>1. q[i] \in RunId /\ q[i] # r /\ run'[q[i]].status \in FinalStatus
        BY <2>1, <2>3, <3>1
      <4>2. QED
        BY <2>1, <2>4, <3>2, <4>1
    <3>3. CASE j # Len(q)
      BY <2>1, <2>3, <3>1, <3>3 DEF RetentionCorrect
    <3>4. QED
      BY <3>2, <3>3
  <2>7. old = Evicted /\ \A x \in Evicted : run'[x] = run[x]
    <3>1. \A x \in RunId : x # r => run'[x] = run[x]
      BY <1>1 DEF Finishes
    <3>2. ASSUME NEW x \in RunId
          PROVE  x \in old <=> x \in Evicted
      <4>1. CASE x = r
        BY <2>1, <2>2, <4>1 DEF Evicted
      <4>2. CASE x # r
        BY <2>1, <3>1, <4>2 DEF Evicted
      <4>3. QED
        BY <4>1, <4>2
    <3>3. r \notin Evicted
      BY <2>2 DEF Evicted
    <3>4. QED
      BY <3>1, <3>2, <3>3 DEF Evicted
  <2>8. old # {} => MaxFinished > 0 /\ Len(q) = MaxFinished + 1
    BY <2>1, <2>7 DEF RetentionCorrect
  <2>9. \A x \in old, i \in DOMAIN q : done(x) <= done(q[i])
    <3> SUFFICES ASSUME NEW x \in old, NEW i \in DOMAIN q
                 PROVE  done(x) <= done(q[i])
      OBVIOUS
    <3>1. CASE i = Len(q)
      BY <2>1, <2>4, <3>1
    <3>2. CASE i # Len(q)
      BY <2>1, <2>3, <2>7, <3>2 DEF RetentionCorrect
    <3>3. QED
      BY <3>1, <3>2
  <2>10. MaxFinished > 0 => Len(q) <= MaxFinished + 1
    BY <2>1, <1>0, LimitsAssumption DEF RetentionCorrect
  <2>11. finished' = Retain(q)
    BY <1>1 DEF Finishes
  <2> HIDE DEF q, old, done
  <2>12. CASE Retain(q) = q /\ (MaxFinished > 0 => Len(q) <= MaxFinished)
    <3>1. old = {}
      BY <2>1, <2>8, <2>12, LimitsAssumption
    <3>2. Evicted' = {}
      BY <2>11, <2>12, <3>1 DEF Evicted, old
    <3>3. QED
      BY <2>5, <2>6, <2>11, <2>12, <3>2 DEF RetentionCorrect, done
  <2>13. CASE /\ MaxFinished > 0 /\ Len(q) = MaxFinished + 1
              /\ DOMAIN Retain(q) = 1 .. MaxFinished
              /\ \A i \in 1 .. MaxFinished : Retain(q)[i] = q[i + 1]
    <3>1. /\ Len(finished') = MaxFinished /\ DOMAIN finished' = 1 .. MaxFinished
          /\ \A i \in DOMAIN finished' : i + 1 \in DOMAIN q /\ finished'[i] = q[i + 1]
                                         /\ 1 < i + 1
      BY <2>1, <2>11, <2>13, LimitsAssumption DEF TypeOK
    <3>2. 1 \in DOMAIN q
      BY <2>1, <2>13, LimitsAssumption
    <3>3. \A x \in Evicted' : x \in old \/ x = q[1]
      <4> SUFFICES ASSUME NEW x \in Evicted', x \notin old
                   PROVE  x = q[1]
        OBVIOUS
      <4>1. PICK i \in DOMAIN q : q[i] = x
        BY DEF Evicted, old
      <4>2. ASSUME i # 1
            PROVE  FALSE
        <5>1. i - 1 \in DOMAIN finished' /\ (i - 1) + 1 = i
          BY <2>1, <2>13, <3>1, <4>2
        <5>2. finished'[i - 1] = x
          BY <3>1, <4>1, <5>1
        <5>3. QED
          BY <5>1, <5>2 DEF Evicted
      <4>3. QED
        BY <4>1, <4>2
    <3>4. \A x \in Evicted', i \in DOMAIN finished' : done(x) <= done(finished'[i])
      BY <2>6, <2>9, <3>1, <3>2, <3>3
    <3>5. \A i \in DOMAIN finished' : run'[finished'[i]].status \in FinalStatus
      BY <2>5, <3>1
    <3>6. \A i, j \in DOMAIN finished' :
            i < j => /\ finished'[i] # finished'[j]
                     /\ done(finished'[i]) <= done(finished'[j])
      BY <2>6, <3>1
    <3>7. QED
      BY <2>13, <3>1, <3>4, <3>5, <3>6, LimitsAssumption DEF RetentionCorrect, done
  <2>14. QED
    BY <2>1, <2>10, <2>12, <2>13, RetainEffect
<1>2. CASE KeepsFinished
  <2>1. \A i \in DOMAIN finished : /\ finished[i] \in RunId
                                   /\ run[finished[i]].status \in FinalStatus
                                   /\ run'[finished[i]] = run[finished[i]]
    BY <1>0, <1>2 DEF RetentionCorrect, KeepsFinished
  <2>2. Evicted' = Evicted /\ \A x \in Evicted : run'[x] = run[x]
    BY <1>2 DEF Evicted, KeepsFinished
  <2>3. QED
    BY <1>2, <2>1, <2>2 DEF RetentionCorrect, KeepsFinished
<1>3. CASE LoseMemory
  <2>1. Evicted' = {} /\ finished' = << >>
    BY <1>3 DEF LoseMemory, Evicted, NoRun, FinalStatus
  <2>2. QED
    BY <2>1, LimitsAssumption DEF RetentionCorrect
<1>4. QED
  BY <1>1, <1>2, <1>3, RetentionCases

\* The retained history is a suffix in time: each finished run once, in the order they
\* finished, no more than the limit, and whatever was evicted finished before all of it.
THEOREM RetentionInvariant == Spec => []RetentionCorrect
<1>1. Init => RetentionCorrect
  <2>1. Init => Evicted = {} /\ finished = << >>
    BY DEF Init, Evicted, NoRun, FinalStatus
  <2>2. QED
    BY <2>1, LimitsAssumption DEF RetentionCorrect
<1>2. QED
  BY <1>1, RetentionStep, TypeCorrect, LifecycleInvariant, DatedInvariant, PTL DEF Spec

-----------------------------------------------------------------------------
(* Cooldowns.                                                              *)

\* What last_finished_run finds: behind any retained run of a SOP there is a last one.
LEMMA LastFinishedExists ==
  ASSUME TypeOK, NEW s, NEW i \in DOMAIN finished, run[finished[i]].sop = s
  PROVE  \E j \in DOMAIN finished : IsLastFinished(j, s) /\ i <= j
<1> DEFINE mine == {j \in DOMAIN finished : run[finished[j]].sop = s}
           behind == {Len(finished) - j : j \in mine}
<1>1. finished \in Seq(RunId)
  BY DEF TypeOK
<1>2. behind \subseteq Nat /\ behind # {}
  BY <1>1
<1>3. PICK least \in behind : \A k \in behind : <<k, least>> \notin OpToRel(<, Nat)
  <2> HIDE DEF behind
  <2>1. QED
    BY <1>2, WFMin, NatLessThanWellFounded
<1>4. \A k \in behind : least <= k
  <2> SUFFICES ASSUME NEW k \in behind
               PROVE  least <= k
    OBVIOUS
  <2>1. least \in Nat /\ k \in Nat
    BY <1>2
  <2>2. ~(k < least)
    BY <1>3, <2>1 DEF OpToRel
  <2>3. QED
    BY <2>1, <2>2
<1>5. PICK j \in mine : least = Len(finished) - j
  OBVIOUS
<1>6. ASSUME NEW m \in mine
      PROVE  m <= j
  <2>1. Len(finished) - j <= Len(finished) - m
    BY <1>4, <1>5
  <2>2. Len(finished) \in Nat /\ j \in Nat /\ m \in Nat
    BY <1>1
  <2>3. QED
    BY <2>1, <2>2
<1>7. QED
  BY <1>5, <1>6 DEF IsLastFinished

\* A run begins in start_run and nowhere else.
LEMMA OnlyStartRunStarts ==
  ASSUME TypeOK, TypeOK', Lifecycle, [Next]_vars, NEW r \in RunId, Starts(r)
  PROVE  \E s \in SopNames : StartRun(s) /\ r = issued'
<1>1. run[r].status = "None" /\ r \notin active /\ run'[r] # run[r]
  BY DEF Starts, Lifecycle, ActiveStatus
<1>2. ASSUME NEW s \in SopNames, StartRun(s)
      PROVE  r = issued'
  BY <1>1, <1>2, StartEffect
<1>3. ASSUME NEW q \in RunId, NEW outcome \in Outcome, AdvanceStep(q, outcome)
      PROVE  FALSE
  BY <1>1, <1>3, AdvanceEffect
<1>4. ASSUME NEW q \in RunId, CancelRun(q)
      PROVE  FALSE
  BY <1>1, <1>4, CancelEffect
<1>5. CASE ApprovalEffect
  BY <1>1, <1>5 DEF ApprovalEffect
<1>6. CASE LoseMemory
  BY <1>6 DEF LoseMemory, NoRun, Starts, ActiveStatus
<1>7. CASE run' = run
  BY <1>1, <1>7
<1>8. QED
  BY <1>2, <1>3, <1>4, <1>5, <1>6, <1>7, StepCases

\* What can_start has checked of the last retained run holds of the earlier ones.
LEMMA CooldownStep ==
  ASSUME TypeOK, TypeOK', Lifecycle, Dated, RetentionCorrect, [Next]_vars,
         NEW r \in RunId, NEW i \in DOMAIN finished,
         Starts(r), run[finished[i]].sop = run'[r].sop
  PROVE  now - run[finished[i]].completed_at >= catalog[run'[r].sop].cooldown
<1> DEFINE done(k) == run[finished[k]].completed_at
<1>1. PICK s \in SopNames : StartRun(s) /\ r = issued'
  BY OnlyStartRunStarts
<1>2. run'[r].sop = s /\ Loaded(s) /\ CooledDown(s)
  BY <1>1, StartEffect DEF StartRun, CanStart
<1>3. catalog[s].cooldown \in Nat
  BY <1>2, CatalogType DEF Sop
<1>4. now \in Nat /\ \A k \in DOMAIN finished : done(k) \in 0 .. now
  <2>1. now \in Nat /\ finished \in Seq(RunId)
    BY BoundsAssumption DEF TypeOK, Time
  <2>2. \A k \in DOMAIN finished :
          finished[k] \in RunId /\ run[finished[k]].status \in FinalStatus
    BY <2>1 DEF RetentionCorrect
  <2>3. QED
    BY <2>1, <2>2 DEF Dated
<1>5. PICK j \in DOMAIN finished : IsLastFinished(j, s) /\ i <= j
  BY <1>2, LastFinishedExists
<1>6. done(i) <= done(j)
  <2>1. CASE i = j
    BY <1>4, <2>1
  <2>2. CASE i < j
    BY <2>2 DEF RetentionCorrect
  <2>3. QED
    BY <1>5, <2>1, <2>2 DEF TypeOK
<1>7. CASE catalog[s].cooldown = 0
  BY <1>2, <1>4, <1>7
<1>8. CASE catalog[s].cooldown > 0
  <2>1. now - done(j) >= catalog[s].cooldown
    BY <1>2, <1>5, <1>8 DEF CooledDown, Elapsed
  <2>2. QED
    BY <1>2, <1>3, <1>4, <1>6, <2>1
<1>9. QED
  BY <1>3, <1>7, <1>8

\* can_start looks at one record, the last one retained of the SOP; since the history is
\* in order of time, every retained run of the SOP has cooled down when a run starts.
THEOREM CooldownProperty == Spec => CooldownRespected
<1> DEFINE Cooled ==
      \A r \in RunId, i \in DOMAIN finished :
        /\ Starts(r)
        /\ run[finished[i]].sop = run'[r].sop
        => now - run[finished[i]].completed_at >= catalog[run'[r].sop].cooldown
<1>1. TypeOK /\ TypeOK' /\ Lifecycle /\ Dated /\ RetentionCorrect /\ [Next]_vars
        => [Cooled]_vars
  BY CooldownStep
<1>2. QED
  BY <1>1, TypeCorrect, LifecycleInvariant, DatedInvariant, RetentionInvariant, PTL
     DEF Spec, CooldownRespected

-----------------------------------------------------------------------------
(* Callers.                                                                *)

(* The calls of the tools are calls of the engine, and leave its invariants intact. *)
LEMMA CallersAreCalls == CallersSpec => [](TypeOK /\ Lifecycle /\ StepAccounting)
<1>1. CallersInit => Init
  BY DEF CallersInit
<1>2. [CallersNext]_callerVars => [Next]_vars
  BY DEF CallersNext, callerVars, Next, vars, Execute, Advance, Approve, ReadStatus, PollTimeouts,
         RestartCallers, PassTime
<1>3. CallersSpec => Spec
  BY <1>1, <1>2, PTL DEF CallersSpec, Spec
<1>4. QED
  BY <1>3, TypeCorrect, LifecycleInvariant, StepAccountingInvariant, PTL

\* Where start_run leaves the run: at its first step, waiting if that step needs approval.
LEMMA StartStatus ==
  ASSUME TypeOK, NEW s \in SopNames, StartRun(s)
  PROVE  run'[issued'].status =
           IF NeedsApproval(catalog[s], 1) THEN "WaitingApproval" ELSE "Running"
<1> DEFINE rec == [NoRun EXCEPT !.sop = s, !.status = "Running", !.current_step = 1,
                                !.total_steps = StepCount(s)]
<1>1. issued + 1 \in RunId /\ issued' = issued + 1
  BY StartEffect
<1>2. run' = [run EXCEPT ![issued + 1] = Arrive(rec, catalog[s], 1)]
  BY DEF StartRun
<1>3. run'[issued'] = Arrive(rec, catalog[s], 1)
  BY <1>1, <1>2 DEF TypeOK
<1>4. rec.status = "Running"
  BY DEF NoRun
<1>5. QED  BY <1>3, <1>4 DEF Arrive, NoRun

\* Where advance_step leaves a run it moves on: waiting if the next step needs approval,
\* and as it was otherwise.
LEMMA AdvanceStatus ==
  ASSUME TypeOK, Lifecycle, NEW r \in RunId, NEW outcome \in Outcome,
         AdvanceStep(r, outcome), r \in active'
  PROVE  run'[r].status =
           IF NeedsApproval(catalog[run[r].sop], run[r].current_step + 1)
           THEN "WaitingApproval" ELSE run[r].status
<1> DEFINE n == run[r].current_step
           reported == Reported(run[r], outcome)
           next == [reported EXCEPT !.current_step = n + 1]
<1>1. run[r] \in Run /\ r \in active
  BY DEF TypeOK, AdvanceStep
<1>2. run' = [run EXCEPT ![r] = Arrive(next, catalog[run[r].sop], n + 1)]
  BY DEF AdvanceStep, Finish
<1>3. run'[r] = Arrive(next, catalog[run[r].sop], n + 1)
  BY <1>2 DEF TypeOK
<1>4. /\ next.status = run[r].status
      /\ [next EXCEPT !.status = "WaitingApproval", !.waiting_since = now].status
           = "WaitingApproval"
  BY <1>1 DEF Reported, Run
<1> HIDE DEF next
<1>5. QED  BY <1>3, <1>4 DEF Arrive

\* With one caller, what it was told is what the engine holds: a running step has been
\* approved if it had to be, and the caller knows no step of an active run but the
\* running one.
CallersInv ==
  /\ view \in [Callers -> [RunId -> Nat]]
  /\ \A r \in active :
       run[r].status = "Running" /\ NeedsApproval(catalog[run[r].sop], run[r].current_step) =>
         <<r, run[r].current_step>> \in approvals
  /\ \A a \in Callers, r \in active :
       view[a][r] # 0 => run[r].status = "Running" /\ view[a][r] = run[r].current_step
  /\ ApprovalEnforced

OneCaller == \A a, b \in Callers : a = b

\* A caller that is told of run r knows of the others what it knew.
LEMMA ToldIs ==
  ASSUME NEW a \in Callers, NEW r \in RunId, NEW n \in Nat, NEW execute \in BOOLEAN,
         view \in [Callers -> [RunId -> Nat]], Told(a, r, n, execute)
  PROVE  /\ view' \in [Callers -> [RunId -> Nat]]
         /\ view'[a][r] = IF execute THEN n ELSE 0
         /\ \A b \in Callers, q \in RunId : b # a \/ q # r => view'[b][q] = view[b][q]
<1> DEFINE told == IF execute THEN n ELSE 0
<1>1. told \in Nat
  OBVIOUS
<1>2. view' = [view EXCEPT ![a] = [view[a] EXCEPT ![r] = told]]
  BY DEF Told
<1> HIDE DEF told
<1>3. [view[a] EXCEPT ![r] = told] \in [RunId -> Nat]
  BY <1>1
<1>4. view' \in [Callers -> [RunId -> Nat]]
  BY <1>2, <1>3
<1>5. view'[a] = [view[a] EXCEPT ![r] = told] /\ \A b \in Callers : b # a => view'[b] = view[b]
  BY <1>2
<1>6. view'[a][r] = told /\ \A q \in RunId : q # r => view'[a][q] = view[a][q]
  BY <1>5
<1>7. QED  BY <1>4, <1>5, <1>6 DEF told

\* sop_execute tells the caller the step it has to do.
LEMMA ExecuteKeeps ==
  ASSUME OneCaller, TypeOK, Lifecycle, CallersInv, NEW a \in Callers, NEW s \in SopNames,
         Execute(a, s)
  PROVE  CallersInv'
<1> DEFINE r == issued + 1
<1>1. /\ issued' = r /\ r \in RunId /\ active' = active \cup {r} /\ catalog' = catalog
      /\ run'[r].sop = s /\ run'[r].step_results = << >> /\ run'[r].current_step = 1
      /\ \A q \in RunId \ {r} : run'[q] = run[q]
      /\ run'[r].status = IF NeedsApproval(catalog[s], 1) THEN "WaitingApproval" ELSE "Running"
      /\ approvals' = approvals
  BY StartEffect, StartStatus DEF Execute
<1>2. r \notin active /\ active \subseteq RunId
  <2>1. r > issued /\ r \in RunId /\ active \subseteq RunId
    BY <1>1 DEF TypeOK, RunId
  <2>2. run[r].status = "None"
    BY <2>1 DEF Lifecycle, NoRun
  <2>3. QED  BY <2>1, <2>2 DEF Lifecycle, ActiveStatus
<1> HIDE DEF r
<1>3. Told(a, r, 1, ~NeedsApproval(catalog[s], 1))
  BY DEF Execute, r
<1> DEFINE execute == ~NeedsApproval(catalog[s], 1)
<1>4. execute \in BOOLEAN
  OBVIOUS
<1>5. /\ view' \in [Callers -> [RunId -> Nat]]
      /\ view'[a][r] = IF execute THEN 1 ELSE 0
      /\ \A b \in Callers, q \in RunId : b # a \/ q # r => view'[b][q] = view[b][q]
  <2> HIDE DEF execute
  <2>1. Told(a, r, 1, execute)
    BY <1>3 DEF execute
  <2>2. QED  BY <1>1, <1>4, <2>1, ToldIs DEF CallersInv
<1>6. \A q \in active' :
        run'[q].status = "Running" /\ NeedsApproval(catalog'[run'[q].sop], run'[q].current_step) =>
          <<q, run'[q].current_step>> \in approvals'
  <2>1. CASE NeedsApproval(catalog[s], 1)
    BY <1>1, <1>2, <2>1 DEF CallersInv
  <2>2. CASE ~NeedsApproval(catalog[s], 1)
    BY <1>1, <1>2, <2>2 DEF CallersInv
  <2>3. QED  BY <2>1, <2>2
<1>7. \A b \in Callers, q \in active' :
        view'[b][q] # 0 => run'[q].status = "Running" /\ view'[b][q] = run'[q].current_step
  BY <1>1, <1>2, <1>5 DEF CallersInv, OneCaller
<1>8. ApprovalEnforced'
  <2>1. DOMAIN run'[r].step_results = {}
    BY <1>1
  <2>2. QED  BY <1>1, <2>1 DEF ApprovalEnforced, CallersInv
<1>9. QED  BY <1>5, <1>6, <1>7, <1>8 DEF CallersInv

\* The caller was told to execute the running step, so the step it reports was approved
\* if it had to be.
LEMMA AdvanceKeeps ==
  ASSUME OneCaller, TypeOK, Lifecycle, StepAccounting, CallersInv,
         NEW a \in Callers, NEW r \in RunId, NEW outcome \in Outcome, Advance(a, r, outcome)
  PROVE  CallersInv'
<1> DEFINE n == run[r].current_step
           d == catalog[run[r].sop]
<1>1. AdvanceStep(r, outcome) /\ view[a][r] # 0 /\ approvals' = approvals
  BY DEF Advance
<1>2. /\ r \in active /\ active' \subseteq active /\ catalog' = catalog
      /\ run'[r].sop = run[r].sop
      /\ run'[r].step_results = Append(run[r].step_results, [step |-> n, outcome |-> outcome])
      /\ r \in active' => run'[r].current_step = n + 1
      /\ \A q \in RunId \ {r} : run'[q] = run[q]
  BY <1>1, AdvanceEffect
<1>3. r \in active' => run'[r].status = IF NeedsApproval(d, n + 1) THEN "WaitingApproval"
                                                                  ELSE run[r].status
  BY <1>1, AdvanceStatus
<1>4. run[r].status = "Running" /\ (NeedsApproval(d, n) => <<r, n>> \in approvals)
  BY <1>1, <1>2 DEF CallersInv
<1>5. n \in Nat /\ run[r].step_results \in Seq(StepResult) /\ Len(run[r].step_results) = n - 1
  BY <1>2 DEF TypeOK, Run, StepAccounting
<1>6. DOMAIN run'[r].step_results = 1 .. n /\ DOMAIN run[r].step_results = 1 .. n - 1
  <2>1. [step |-> n, outcome |-> outcome] \in StepResult
    BY <1>5 DEF StepResult
  <2>2. QED  BY <1>2, <1>5, <2>1
<1>7. active \subseteq RunId
  BY DEF TypeOK
<1> DEFINE execute == r \in active' /\ ~NeedsApproval(d, n + 1)
<1>8. execute \in BOOLEAN
  OBVIOUS
<1>9. Told(a, r, n + 1, execute)
  BY DEF Advance
<1>10. execute <=> r \in active' /\ ~NeedsApproval(d, n + 1)
  OBVIOUS
<1> HIDE DEF execute
<1>11. /\ view' \in [Callers -> [RunId -> Nat]]
       /\ view'[a][r] = IF execute THEN n + 1 ELSE 0
       /\ \A b \in Callers, q \in RunId : b # a \/ q # r => view'[b][q] = view[b][q]
  BY <1>5, <1>8, <1>9, ToldIs DEF CallersInv
<1>12. ASSUME NEW q \in active', run'[q].status = "Running",
              NeedsApproval(catalog'[run'[q].sop], run'[q].current_step)
       PROVE  <<q, run'[q].current_step>> \in approvals'
  <2>1. CASE q = r
    BY <1>2, <1>3, <1>12, <2>1
  <2>2. CASE q # r
    <3>1. run'[q] = run[q] /\ q \in active /\ catalog'[run'[q].sop] = catalog[run[q].sop]
      BY <1>2, <1>7, <2>2
    <3>2. QED  BY <1>1, <1>12, <3>1 DEF CallersInv
  <2>3. QED  BY <2>1, <2>2
<1>13. ASSUME NEW b \in Callers, NEW q \in active', view'[b][q] # 0
       PROVE  run'[q].status = "Running" /\ view'[b][q] = run'[q].current_step
  <2>1. b = a
    BY DEF OneCaller
  <2>2. CASE q = r
    <3>1. execute
      BY <1>11, <1>13, <2>1, <2>2
    <3>2. QED  BY <1>2, <1>3, <1>4, <1>10, <1>11, <2>1, <2>2, <3>1
  <2>3. CASE q # r
    <3>1. run'[q] = run[q] /\ q \in active /\ view'[b][q] = view[b][q]
      BY <1>2, <1>7, <1>11, <2>3
    <3>2. QED  BY <1>13, <3>1 DEF CallersInv
  <2>4. QED  BY <2>2, <2>3
<1>14. ASSUME NEW q \in RunId, NEW i \in DOMAIN run'[q].step_results,
              NeedsApproval(catalog'[run'[q].sop], i)
       PROVE  <<q, i>> \in approvals'
  <2>1. CASE q = r /\ i = n
    BY <1>1, <1>2, <1>4, <1>14, <2>1
  <2>2. CASE q # r \/ i # n
    <3>1. run'[q].sop = run[q].sop /\ i \in DOMAIN run[q].step_results
      BY <1>2, <1>5, <1>6, <2>2
    <3>2. NeedsApproval(catalog[run[q].sop], i)
      BY <1>2, <1>14, <3>1
    <3>3. <<q, i>> \in approvals
      BY <3>1, <3>2 DEF CallersInv, ApprovalEnforced
    <3>4. QED  BY <1>1, <3>3
  <2>3. QED  BY <2>1, <2>2
<1>15. ApprovalEnforced'
  BY <1>14 DEF ApprovalEnforced
<1>16. QED  BY <1>11, <1>12, <1>13, <1>15 DEF CallersInv

\* What an approval leaves alone.
LEMMA ApproveKeeps ==
  ASSUME OneCaller, TypeOK, Lifecycle, CallersInv, NEW a \in Callers, NEW r \in RunId,
         Approve(a, r)
  PROVE  CallersInv'
<1>1. /\ r \in active /\ run[r].status = "WaitingApproval"
      /\ active' = active /\ catalog' = catalog
      /\ run'[r] = Approved(run[r]) /\ \A q \in RunId \ {r} : run'[q] = run[q]
      /\ approvals' = approvals \cup {<<r, run[r].current_step>>}
  BY DEF Approve, ApproveStep, TypeOK
<1>2. /\ run'[r].status = "Running" /\ run'[r].sop = run[r].sop
      /\ run'[r].step_results = run[r].step_results
      /\ run'[r].current_step = run[r].current_step
      /\ run[r].current_step \in Nat
  BY <1>1, ApprovedType DEF TypeOK, Run
<1>3. active \subseteq RunId
  BY DEF TypeOK
<1>4. /\ view' \in [Callers -> [RunId -> Nat]]
      /\ view'[a][r] \in {0, run[r].current_step}
      /\ \A b \in Callers, q \in RunId : b # a \/ q # r => view'[b][q] = view[b][q]
  <2> DEFINE execute == Loaded(run[r].sop)
  <2>1. execute \in BOOLEAN
    BY DEF Loaded
  <2>2. Told(a, r, run[r].current_step, execute)
    BY DEF Approve
  <2> HIDE DEF execute
  <2>3. QED  BY <1>2, <2>1, <2>2, ToldIs DEF CallersInv
<1>5. \A q \in RunId : /\ run'[q].sop = run[q].sop /\ run'[q].current_step = run[q].current_step
                       /\ run'[q].step_results = run[q].step_results
                       /\ q # r => run'[q].status = run[q].status
  BY <1>1, <1>2
<1>6. \A q \in active' :
        run'[q].status = "Running" /\ NeedsApproval(catalog'[run'[q].sop], run'[q].current_step) =>
          <<q, run'[q].current_step>> \in approvals'
  BY <1>1, <1>3, <1>5 DEF CallersInv
<1>7. \A b \in Callers, q \in active' :
        view'[b][q] # 0 => run'[q].status = "Running" /\ view'[b][q] = run'[q].current_step
  BY <1>1, <1>2, <1>3, <1>4, <1>5 DEF CallersInv, OneCaller
<1>8. ApprovalEnforced'
  BY <1>1, <1>5 DEF ApprovalEnforced, CallersInv
<1>9. QED  BY <1>4, <1>6, <1>7, <1>8 DEF CallersInv

\* sop_status tells a caller the step of a running run.
LEMMA ReadStatusKeeps ==
  ASSUME OneCaller, TypeOK, CallersInv, NEW a \in Callers, NEW r \in RunId, ReadStatus(a, r)
  PROVE  CallersInv'
<1>1. /\ UNCHANGED <<catalog, run, active, approvals>>
      /\ r \in active /\ run[r].status = "Running" /\ active \subseteq RunId
      /\ run[r].current_step \in Nat
  BY DEF ReadStatus, TypeOK, Run
<1>2. /\ view' \in [Callers -> [RunId -> Nat]]
      /\ view'[a][r] = run[r].current_step
      /\ \A b \in Callers, q \in RunId : b # a \/ q # r => view'[b][q] = view[b][q]
  <2>1. Told(a, r, run[r].current_step, TRUE)
    BY DEF ReadStatus
  <2>2. QED  BY <1>1, <2>1, ToldIs DEF CallersInv
<1>3. ApprovalEnforced'
  BY <1>1 DEF ApprovalEnforced, CallersInv
<1>4. QED  BY <1>1, <1>2, <1>3 DEF CallersInv, OneCaller

\* A timeout approves what it lets go on.
LEMMA PollTimeoutsKeeps ==
  ASSUME TypeOK, CallersInv, PollTimeouts
  PROVE  CallersInv'
<1>1. /\ UNCHANGED <<catalog, active, view>> /\ TimedOut \subseteq active
      /\ \A q \in TimedOut : run[q].status = "WaitingApproval"
      /\ \A q \in RunId : run'[q] = IF q \in TimedOut THEN Approved(run[q]) ELSE run[q]
      /\ approvals' = approvals \cup {<<r, run[r].current_step>> : r \in TimedOut}
      /\ active \subseteq RunId
  BY DEF PollTimeouts, CheckApprovalTimeouts, TimedOut, TypeOK
<1>2. \A q \in RunId : /\ run'[q].sop = run[q].sop /\ run'[q].current_step = run[q].current_step
                       /\ run'[q].step_results = run[q].step_results
                       /\ q \notin TimedOut => run'[q].status = run[q].status
                       /\ q \in TimedOut => <<q, run'[q].current_step>> \in approvals'
  BY <1>1, ApprovedType DEF TypeOK
<1>3. \A q \in active' :
        run'[q].status = "Running" /\ NeedsApproval(catalog'[run'[q].sop], run'[q].current_step) =>
          <<q, run'[q].current_step>> \in approvals'
  BY <1>1, <1>2 DEF CallersInv
<1>4. \A b \in Callers, q \in active' :
        view'[b][q] # 0 => run'[q].status = "Running" /\ view'[b][q] = run'[q].current_step
  BY <1>1, <1>2 DEF CallersInv
<1>5. ApprovalEnforced'
  BY <1>1, <1>2 DEF ApprovalEnforced, CallersInv
<1>6. view' \in [Callers -> [RunId -> Nat]]
  BY <1>1 DEF CallersInv
<1>7. QED  BY <1>3, <1>4, <1>5, <1>6 DEF CallersInv

\* The invariant of the callers, along every run.
LEMMA AlwaysTold == ASSUME OneCaller PROVE CallersSpec => []CallersInv
<1>1. CallersInit => CallersInv
  BY DEF CallersInit, Init, CallersInv, ApprovalEnforced, NoRun
<1>2. TypeOK /\ Lifecycle /\ StepAccounting /\ CallersInv /\ [CallersNext]_callerVars => CallersInv'
  <2> SUFFICES ASSUME TypeOK, Lifecycle, StepAccounting, CallersInv, [CallersNext]_callerVars
               PROVE  CallersInv'
    OBVIOUS
  <2>1. CASE RestartCallers
    BY <2>1 DEF RestartCallers, Restart, LoseMemory, CallersInv, ApprovalEnforced, NoRun
  <2>2. CASE PassTime \/ UNCHANGED callerVars
    <3>1. UNCHANGED <<catalog, run, active, view, approvals>>
      BY <2>2 DEF PassTime, Tick, callerVars
    <3>2. QED  BY <3>1 DEF CallersInv, ApprovalEnforced
  <2>3. QED
    BY <2>1, <2>2, ExecuteKeeps, AdvanceKeeps, ApproveKeeps, ReadStatusKeeps, PollTimeoutsKeeps
       DEF CallersNext
<1>3. QED
  BY <1>1, <1>2, CallersAreCalls, PTL DEF CallersSpec

(* With one caller, a step that needs approval has a result only if it was approved
   (resolve_step_action, advance_step, approve_step). *)
THEOREM ApprovalEnforcedInvariant == ASSUME OneCaller PROVE CallersSpec => []ApprovalEnforced
<1>1. CallersInv => ApprovalEnforced
  BY DEF CallersInv
<1>2. QED
  BY <1>1, AlwaysTold, PTL

(* With one caller, the step whose result sop_advance records is the one the caller was
   told to execute. *)
THEOREM ResultsAttributedProperty == ASSUME OneCaller PROVE CallersSpec => ResultsAttributed
<1>1. CallersInv =>
        \A a \in Callers, r \in RunId, outcome \in Outcome :
          Advance(a, r, outcome) => view[a][r] = run[r].current_step
  BY DEF CallersInv, Advance, AdvanceStep
<1>2. QED
  BY <1>1, AlwaysTold, PTL DEF ResultsAttributed, CallersSpec
=============================================================================
