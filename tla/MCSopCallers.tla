---------------------------- MODULE MCSopCallers -----------------------------
(* Instances of SopCallers for TLC.                                         *)
EXTENDS SopCallers, TLC

CONSTANTS deploy, patch

D(priority, mode, flags, cooldown, max) ==
  [priority |-> priority, mode |-> mode, requires_confirmation |-> flags,
   cooldown |-> cooldown, max_concurrent |-> max]

(* A confirmed last step under auto-approval on timeout, and a supervised     *)
(* procedure that only an operator can let begin.                            *)
Deploy == D("critical", "auto", <<FALSE, TRUE>>, 0, 2)
Patch == D("low", "priority_based", <<FALSE, FALSE, TRUE>>, 0, 1)

MCSops == {deploy, patch}
MCCatalogs == {deploy :> Deploy @@ patch :> Patch}
=============================================================================
