-------------------------- MODULE MCCronScheduler ---------------------------
(* Instances of CronScheduler for TLC.                                     *)
EXTENDS CronScheduler, TLC

CONSTANTS j1, j2, j3

New(kind, t, last, delete) ==
  [schedule |-> [kind |-> kind, t |-> t, last |-> last], delete_after_run |-> delete]

OneJob == {j1}
TwoJobs == {j1, j2}
ThreeJobs == {j1, j2, j3}
(* What the tools add by default: one-shot jobs are deleted after their run.  The cron
   expression names one time. *)
Defaults == {New("at", 1, 0, TRUE), New("every", 1, 0, FALSE), New("cron", 2, 2, FALSE)}

NoPatches == {}
(* Pause and resume. *)
PauseResume == {[enabled |-> FALSE], [enabled |-> TRUE]}
=============================================================================
