---------------------------- MODULE MCSopEngine -----------------------------
(* Instances of SopEngine for TLC.                                         *)
EXTENDS SopEngine, TLC

CONSTANTS deploy, backup

D(priority, mode, flags, cooldown, max) ==
  [priority |-> priority, mode |-> mode, requires_confirmation |-> flags,
   cooldown |-> cooldown, max_concurrent |-> max]

(* Two steps with the second confirmed, and a one-step SOP with a cooldown. *)
Deploy == D("critical", "priority_based", <<FALSE, TRUE>>, 0, 2)
Backup == D("normal", "supervised", <<FALSE>>, 1, 1)
(* What an operator may have edited deploy to: fewer steps, a lower limit.  *)
DeployShort == D("high", "step_by_step", <<FALSE>>, 0, 1)

MCSops == {deploy, backup}
EditedCatalogs ==
  {deploy :> Deploy @@ backup :> Backup,
   deploy :> DeployShort}
=============================================================================
