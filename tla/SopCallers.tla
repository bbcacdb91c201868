------------------------------ MODULE SopCallers ------------------------------
(***************************************************************************)
(* The SOP engine with the tool calls that drive it.  The sop_* tools of an *)
(* agent loop share one engine (src/src/tools/mod.rs, make_sop_tools).  A  *)
(* caller is a chain of tool calls, each decided on the answer to the one  *)
(* before: a loop whose responses hold one sop_* call at a time is one     *)
(* caller; the calls of a response that holds several were all decided     *)
(* before any of them is answered, and run concurrently                    *)
(* (execute_tools_parallel, src/src/agent/loop_.rs:2217), as several do.   *)
(*                                                                         *)
(* The callers are obedient: one reports the result of a step only after a *)
(* tool told it to execute that step (SopRunAction::ExecuteStep) or showed *)
(* it the step running (sop_status), and approves when the operator asks.  *)
(*                                                                         *)
(* The engine's reload and cancel_run are left out: no tool calls them.    *)
(***************************************************************************)
EXTENDS SopEngine

CONSTANT Callers

VARIABLES
  view,       \* view[a][r]: the step of run r caller a has to execute, 0 for none
  approvals   \* history: the steps <<r, n>> approved, by an operator or by timeout

callerVars == <<catalog, run, active, finished, issued, now, view, approvals>>

CallersInit ==
  /\ Init
  /\ view = [a \in Callers |-> [r \in RunId |-> 0]]
  /\ approvals = {}

\* Mutant: every answer reads as an order to execute.
Told_Always(a, r, n, execute) == view' = [view EXCEPT ![a][r] = n]

\* The answer to a call on run r: its new current step, when the call said to execute it.
Told(a, r, n, execute) ==
  view' = [view EXCEPT ![a][r] = IF execute THEN n ELSE 0]

\* sop_execute: start_run under the lock, the action returned to the caller.
Execute(a, s) ==
  /\ StartRun(s)
  /\ Told(a, issued + 1, 1, ~NeedsApproval(catalog[s], 1))
  /\ UNCHANGED approvals

\* Mutant: the answer repeats the step just reported.
Advance_OldStep(a, r, outcome) ==
  LET n == run[r].current_step
  IN  /\ view[a][r] # 0
      /\ AdvanceStep(r, outcome)
      /\ Told(a, r, n, r \in active' /\ ~NeedsApproval(catalog[run[r].sop], n + 1))
      /\ UNCHANGED approvals

\* sop_advance: reports on the run, not on a step; the tool reads the step under the lock.
Advance(a, r, outcome) ==
  LET n == run[r].current_step + 1
  IN  /\ view[a][r] # 0
      /\ AdvanceStep(r, outcome)
      /\ Told(a, r, n, r \in active' /\ ~NeedsApproval(catalog[run[r].sop], n))
      /\ UNCHANGED approvals

\* sop_approve, relayed for the operator.
Approve(a, r) ==
  /\ ApproveStep(r)
  /\ Told(a, r, run[r].current_step, Loaded(run[r].sop))
  /\ approvals' = approvals \cup {<<r, run[r].current_step>>}

\* sop_status: a caller without instructions for the run reads that its step is running.
ReadStatus(a, r) ==
  /\ view[a][r] = 0
  /\ r \in active
  /\ run[r].status = "Running"
  /\ Told(a, r, run[r].current_step, TRUE)
  /\ UNCHANGED <<catalog, run, active, finished, issued, now, approvals>>

\* check_approval_timeouts returns the approved actions to its caller, not to a tool call.
\* Nothing outside the tests of the repository calls it yet.
PollTimeouts ==
  /\ CheckApprovalTimeouts
  /\ approvals' = approvals \cup {<<r, run[r].current_step>> : r \in TimedOut}
  /\ UNCHANGED view

RestartCallers ==
  /\ Restart
  /\ view' = [a \in Callers |-> [r \in RunId |-> 0]]
  /\ approvals' = {}

PassTime == Tick /\ UNCHANGED <<view, approvals>>

CallersNext ==
  \/ \E a \in Callers : \/ \E s \in SopNames : Execute(a, s)
                       \/ \E r \in RunId : \/ \E outcome \in Outcome : Advance(a, r, outcome)
                                           \/ Approve(a, r)
                                           \/ ReadStatus(a, r)
  \/ PollTimeouts
  \/ RestartCallers
  \/ PassTime

CallersSpec == CallersInit /\ [][CallersNext]_callerVars

-----------------------------------------------------------------------------
(* Properties.                                                             *)

\* A step that requires confirmation, or that the execution mode stops at, has a result
\* only if it was approved (resolve_step_action, advance_step, approve_step).
ApprovalEnforced ==
  \A r \in RunId : \A n \in DOMAIN run[r].step_results :
    NeedsApproval(catalog[run[r].sop], n) => <<r, n>> \in approvals

\* A result is recorded for the step the reporting caller executed: sop_advance writes
\* the run's current step, which must still be the one the caller was told.
ResultsAttributed ==
  [][\A a \in Callers, r \in RunId, outcome \in Outcome :
       Advance(a, r, outcome) => view[a][r] = run[r].current_step]_callerVars
=============================================================================
