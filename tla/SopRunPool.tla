----------------------------- MODULE SopRunPool ------------------------------
(***************************************************************************)
(* What the SOP engine promises of its runs, without approvals, timeouts,  *)
(* definitions or retention: a pool of at most Capacity active runs, each  *)
(* of which takes one report per step, completes exactly when its last     *)
(* step is reported, fails at its first failed report, and is never        *)
(* revived; a run is forgotten only with every other one, when the process *)
(* that holds them ends.  SopEngine implements it (SopEngine!RunPool).     *)
(***************************************************************************)
EXTENDS Naturals, FiniteSets

CONSTANTS RunId, Capacity

VARIABLES
  phase,     \* where each run is in its life
  need,      \* the number of steps of the run
  reported   \* the number of steps reported so far

vars == <<phase, need, reported>>

Init ==
  /\ phase = [r \in RunId |-> "unborn"]
  /\ need = [r \in RunId |-> 0]
  /\ reported = [r \in RunId |-> 0]

Admit(r) ==
  /\ phase[r] = "unborn"
  /\ Cardinality({q \in RunId : phase[q] = "active"}) < Capacity
  /\ phase' = [phase EXCEPT ![r] = "active"]
  /\ need' = [need EXCEPT ![r] = need'[r]]     \* any number of steps
  /\ need'[r] \in Nat \ {0}
  /\ UNCHANGED reported

Report(r) ==
  /\ phase[r] = "active"
  /\ reported' = [reported EXCEPT ![r] = @ + 1]
  /\ phase' = [phase EXCEPT ![r] = IF reported[r] + 1 = need[r] THEN "Completed" ELSE @]
  /\ UNCHANGED need

Fail(r) ==
  /\ phase[r] = "active"
  /\ reported' = [reported EXCEPT ![r] = @ + 1]
  /\ phase' = [phase EXCEPT ![r] = "Failed"]
  /\ UNCHANGED need

Cancel(r) ==
  /\ phase[r] = "active"
  /\ phase' = [phase EXCEPT ![r] = "Cancelled"]
  /\ UNCHANGED <<need, reported>>

Forget ==
  /\ phase' = [r \in RunId |-> IF phase[r] = "unborn" THEN "unborn" ELSE "lost"]
  /\ need' = [r \in RunId |-> 0]
  /\ reported' = [r \in RunId |-> 0]

Next ==
  \/ \E r \in RunId : Admit(r) \/ Report(r) \/ Fail(r) \/ Cancel(r)
  \/ Forget

Spec == Init /\ [][Next]_vars
=============================================================================
