------------------------------- MODULE Daemon -------------------------------
(***************************************************************************)
(* The daemon (src/src/daemon/mod.rs): a process that claims the PID file  *)
(* (pid.rs), supervises its components, writes its health to               *)
(* daemon_state.json and, on a signal, cancels a token and waits for its   *)
(* tasks.  Several daemons may be started on one configuration.            *)
(*                                                                         *)
(* What the components do is in the other modules.  How long a supervisor  *)
(* waits before a restart, the preflight checks and the health of single   *)
(* components are left out.  A component that does not reach an await, or  *)
(* waits for blocking work it has spawned, holds its thread: its task      *)
(* cannot be dropped before it does.  A panic ends the process, as the     *)
(* release profiles abort.                                                 *)
(***************************************************************************)
EXTENDS Naturals, FiniteSets

CONSTANTS
  Daemons,     \* the daemons that are ever started, each a process of its own
  Components,  \* gateway, channels, heartbeat, scheduler: those that are supervised
  Nobody,      \* no daemon
  MaxRestarts, \* how often a component returns before the signal
  MaxCrashes   \* how many daemons are killed

ASSUME DaemonAssumption ==
  /\ Nobody \notin Daemons
  /\ MaxRestarts \in Nat
  /\ MaxCrashes \in Nat

VARIABLES
  stage,       \* where run is, in each daemon
  pidFile,     \* whose PID the file has, or Nobody's
  supervisor,  \* where each component's supervisor is
  restarts,    \* restart_count of each component
  writer,      \* where the state writer is
  status,      \* the health of "daemon" in each registry
  stateFile,   \* daemon_state.json: who wrote it and the health of "daemon" in it
  crashes,     \* daemons killed so far
  overlapped,  \* history: two daemons were starting at the same time
  late,        \* history: starts of each component after the shutdown
  orderly      \* history: daemons that left after all their tasks

vars == <<stage, pidFile, supervisor, restarts, writer, status, stateFile, crashes,
          overlapped, late, orderly>>

-----------------------------------------------------------------------------
Alive(d) == stage[d] \in {"checked", "up", "told", "draining", "leaving", "dropping"}
Serving(d) == stage[d] \in {"up", "told", "draining"}          \* run has not returned
Running(d) == Serving(d) \/ stage[d] = "leaving"               \* its tasks may still run
Cancelled(d) == stage[d] \in {"draining", "leaving"}           \* shutdown_token, with tasks left

Goto(d, place) == stage' = [stage EXCEPT ![d] = place]

Init ==
  /\ stage = [d \in Daemons |-> "off"]
  /\ pidFile = Nobody
  /\ supervisor = [d \in Daemons |-> [c \in Components |-> "none"]]
  /\ restarts = [d \in Daemons |-> [c \in Components |-> 0]]
  /\ writer = [d \in Daemons |-> "none"]
  /\ status = [d \in Daemons |-> "none"]
  /\ stateFile = [by |-> Nobody, status |-> "none"]
  /\ crashes = 0
  /\ overlapped = FALSE
  /\ late = [d \in Daemons |-> [c \in Components |-> 0]]
  /\ orderly = {}

\* PidFileGuard::acquire: the daemon is refused if the file names a live process ...
CheckPid(d) ==
  /\ stage[d] = "off"
  /\ IF pidFile # Nobody /\ Alive(pidFile)
     THEN Goto(d, "refused") /\ UNCHANGED overlapped
     ELSE /\ Goto(d, "checked")
          /\ overlapped' = (overlapped \/ \E e \in Daemons : stage[e] = "checked")
  /\ UNCHANGED <<pidFile, supervisor, restarts, writer, status, stateFile, crashes, late, orderly>>

\* ... and writes its own PID otherwise, whatever happened since.  The tasks are spawned.
WritePid(d) ==
  /\ stage[d] = "checked"
  /\ Goto(d, "up")
  /\ pidFile' = d
  /\ supervisor' = [supervisor EXCEPT ![d] = [c \in Components |-> "start"]]
  /\ writer' = [writer EXCEPT ![d] = "running"]
  /\ status' = [status EXCEPT ![d] = "ok"]
  /\ UNCHANGED <<restarts, stateFile, crashes, overlapped, late, orderly>>

-----------------------------------------------------------------------------
(* spawn_component_supervisor_cancellable                                  *)

Supervise(d, c, place) == supervisor' = [supervisor EXCEPT ![d][c] = place]

\* select! polls its branches in any order: a component may begin after the shutdown.
Begin(d, c) ==
  /\ Running(d)
  /\ supervisor[d][c] = "start"
  /\ Supervise(d, c, "running")
  /\ late' = IF Cancelled(d) THEN [late EXCEPT ![d][c] = @ + 1] ELSE late
  /\ UNCHANGED <<stage, pidFile, restarts, writer, status, stateFile, crashes, overlapped, orderly>>

\* Mutant: the component is restarted although the shutdown was requested while it ran.
Return_Ignores(d, c) ==
  /\ Running(d)
  /\ supervisor[d][c] = "running"
  /\ restarts[d][c] < MaxRestarts
  /\ Supervise(d, c, "waiting")
  /\ restarts' = [restarts EXCEPT ![d][c] = @ + 1]
  /\ UNCHANGED <<stage, pidFile, writer, status, stateFile, crashes, overlapped, late, orderly>>

\* The component returns, with an error or without.
Return(d, c) ==
  /\ Running(d)
  /\ supervisor[d][c] = "running"
  /\ IF Cancelled(d)
     THEN Supervise(d, c, "over") /\ UNCHANGED restarts
     ELSE /\ restarts[d][c] < MaxRestarts
          /\ Supervise(d, c, "waiting")
          /\ restarts' = [restarts EXCEPT ![d][c] = @ + 1]
  /\ UNCHANGED <<stage, pidFile, writer, status, stateFile, crashes, overlapped, late, orderly>>

\* Mutant: the backoff grows without a maximum.
Retry_NoMaximum(d, c) ==
  /\ Running(d)
  /\ supervisor[d][c] = "waiting"
  /\ restarts[d][c] < MaxRestarts
  /\ Supervise(d, c, "start")
  /\ UNCHANGED <<stage, pidFile, restarts, writer, status, stateFile, crashes, overlapped, late,
                 orderly>>

\* The backoff is over, also when the token is cancelled at that moment.
Retry(d, c) ==
  /\ Running(d)
  /\ supervisor[d][c] = "waiting"
  /\ Supervise(d, c, "start")
  /\ UNCHANGED <<stage, pidFile, restarts, writer, status, stateFile, crashes, overlapped, late,
                 orderly>>

\* The cancelled token wins the select!: a running component is dropped where it awaits.
LeaveComponent(d, c) ==
  /\ Cancelled(d)
  /\ supervisor[d][c] \in {"start", "running", "waiting"}
  /\ Supervise(d, c, "over")
  /\ UNCHANGED <<stage, pidFile, restarts, writer, status, stateFile, crashes, overlapped, late,
                 orderly>>

\* The component is polled and does not come to an await ...
Hold(d, c) ==
  /\ Running(d)
  /\ supervisor[d][c] = "running"
  /\ Supervise(d, c, "holding")
  /\ UNCHANGED <<stage, pidFile, restarts, writer, status, stateFile, crashes, overlapped, late,
                 orderly>>

\* ... until it does after all.  A runtime that is being dropped drops the task there.
ReachAwait(d, c) ==
  /\ Running(d) \/ stage[d] = "dropping"
  /\ supervisor[d][c] = "holding"
  /\ Supervise(d, c, IF Running(d) THEN "running" ELSE "over")
  /\ UNCHANGED <<stage, pidFile, restarts, writer, status, stateFile, crashes, overlapped, late,
                 orderly>>

-----------------------------------------------------------------------------
(* spawn_state_writer                                                      *)

Flush(d) ==
  /\ Running(d)
  /\ writer[d] = "running"
  /\ stateFile' = [by |-> d, status |-> status[d]]
  /\ writer' \in {writer} \cup (IF Cancelled(d) THEN {[writer EXCEPT ![d] = "over"]} ELSE {})
  /\ UNCHANGED <<stage, pidFile, supervisor, restarts, status, crashes, overlapped, late, orderly>>

-----------------------------------------------------------------------------
(* run, from the signal on.                                                *)

\* Mutant: the health is marked at the end of the drain only.
Announce_Later(d) ==
  /\ stage[d] = "up"
  /\ Goto(d, "told")
  /\ UNCHANGED <<pidFile, supervisor, restarts, writer, status, stateFile, crashes, overlapped,
                 late, orderly>>

Announce(d) ==
  /\ stage[d] = "up"
  /\ Goto(d, "told")
  /\ status' = [status EXCEPT ![d] = "error"]
  /\ UNCHANGED <<pidFile, supervisor, restarts, writer, stateFile, crashes, overlapped, late,
                 orderly>>

\* Mutant: the PID file is removed before the tasks have ended.
CancelToken_Releases(d) ==
  /\ stage[d] = "told"
  /\ Goto(d, "draining")
  /\ pidFile' = Nobody
  /\ UNCHANGED <<supervisor, restarts, writer, status, stateFile, crashes, overlapped, late,
                 orderly>>

CancelToken(d) ==
  /\ stage[d] = "told"
  /\ Goto(d, "draining")
  /\ UNCHANGED <<pidFile, supervisor, restarts, writer, status, stateFile, crashes, overlapped,
                 late, orderly>>

Drained(d) == writer[d] = "over" /\ \A c \in Components : supervisor[d][c] = "over"

\* Mutant: the drain has no timeout and waits for every component.
Exit_Drained(d) ==
  /\ stage[d] = "draining"
  /\ Drained(d)
  /\ Goto(d, "leaving")
  /\ orderly' = orderly \cup {d}
  /\ pidFile' = Nobody
  /\ UNCHANGED <<supervisor, restarts, writer, status, stateFile, crashes, overlapped, late>>

\* All tasks have ended or shutdown_drain_secs are over: run returns and its guard removes
\* the file, whoever's PID is in it.
Exit(d) ==
  /\ stage[d] = "draining"
  /\ Goto(d, "leaving")
  /\ orderly' = IF Drained(d) THEN orderly \cup {d} ELSE orderly
  /\ pidFile' = Nobody
  /\ UNCHANGED <<supervisor, restarts, writer, status, stateFile, crashes, overlapped, late>>

\* main returns the result of run, and the runtime is dropped: no task is polled again.
DropRuntime(d) ==
  /\ stage[d] = "leaving"
  /\ Goto(d, "dropping")
  /\ UNCHANGED <<pidFile, supervisor, restarts, writer, status, stateFile, crashes, overlapped,
                 late, orderly>>

\* The drop has waited for every task that was being polled, and the process ends.
ProcessEnds(d) ==
  /\ stage[d] = "dropping"
  /\ \A c \in Components : supervisor[d][c] # "holding"
  /\ Goto(d, "gone")
  /\ UNCHANGED <<pidFile, supervisor, restarts, writer, status, stateFile, crashes, overlapped,
                 late, orderly>>

Crash(d) ==
  /\ Alive(d)
  /\ crashes < MaxCrashes
  /\ crashes' = crashes + 1
  /\ Goto(d, "dead")
  /\ UNCHANGED <<pidFile, supervisor, restarts, writer, status, stateFile, overlapped, late, orderly>>

-----------------------------------------------------------------------------
Supervised(d, c) ==
  \/ Begin(d, c) \/ Return(d, c) \/ Retry(d, c) \/ LeaveComponent(d, c)
  \/ Hold(d, c) \/ ReachAwait(d, c)

Next ==
  \E d \in Daemons :
    \/ CheckPid(d) \/ WritePid(d) \/ Flush(d)
    \/ Announce(d) \/ CancelToken(d) \/ Exit(d)
    \/ DropRuntime(d) \/ ProcessEnds(d) \/ Crash(d)
    \/ \E c \in Components : Supervised(d, c)

Spec == Init /\ [][Next]_vars

(* The main thread goes on: its drain has a timeout, and the drop of the runtime waits for
   nothing but tasks that are being polled.  A supervisor that sleeps or starts its
   component is polled.  A component need not return, nor reach an await. *)
FairSpec ==
  /\ Spec
  /\ \A d \in Daemons :
       /\ WF_vars(CancelToken(d))
       /\ WF_vars(Exit(d))
       /\ WF_vars(DropRuntime(d))
       /\ WF_vars(ProcessEnds(d))
       /\ \A c \in Components : WF_vars(Begin(d, c)) /\ WF_vars(Retry(d, c))

-----------------------------------------------------------------------------
(* Daemons, files and supervisors stay within their types. *)
DaemonTypeOK ==
  /\ stage \in [Daemons -> {"off", "checked", "refused", "up", "told", "draining", "leaving",
                        "dropping", "gone", "dead"}]
  /\ pidFile \in Daemons \cup {Nobody}
  /\ supervisor \in [Daemons -> [Components -> {"none", "start", "running", "holding",
                                                  "waiting", "over"}]]
  /\ restarts \in [Daemons -> [Components -> 0 .. MaxRestarts]]
  /\ writer \in [Daemons -> {"none", "running", "over"}]
  /\ status \in [Daemons -> {"none", "ok", "error"}]
  /\ stateFile \in [by : Daemons \cup {Nobody}, status : {"none", "ok", "error"}]
  /\ \A d \in Daemons : Running(d) => status[d] # "none"
  /\ \A d \in Daemons, c \in Components : supervisor[d][c] = "over" => stage[d] \notin {"up", "told"}

(* One daemon serves at a time, across crashes and restarts, as long as no two are between
   the check and the write of the PID file: the file is kept until the drain is over and
   a dead process does not keep others out (PidFileGuard). *)
OneDaemon ==
  ~overlapped => \A d, e \in Daemons : Serving(d) /\ Serving(e) => d = e

(* After the shutdown a component begins at most once more, when its backoff ends at that
   moment; it is never restarted again (the check after the component has returned). *)
OneLateStart == \A d \in Daemons, c \in Components : late[d][c] <= 1

(* Of a daemon that has left in order, the state file says that it was shut down: the last
   snapshot is taken after the health was marked. *)
LastStateTold ==
  \A d \in Daemons : d \in orderly /\ stateFile.by = d => stateFile.status = "error"

(* A daemon that was told to stop leaves run, whatever its components do, and its process
   ends unless one of them never reaches an await again: the runtime's drop waits for it
   after the drain has given up and the PID file is gone (run, main). *)
ShutdownEnds ==
  \A d \in Daemons :
    /\ stage[d] = "told" ~> ~Serving(d)
    /\ \/ \E c \in Components : <>[](stage[d] = "dropping" /\ supervisor[d][c] = "holding")
       \/ stage[d] = "told" ~> stage[d] \in {"gone", "dead"}

(* A component that returns is started again while the daemon runs, however often it has
   been before. *)
ComponentsComeBack ==
  \A d \in Daemons, c \in Components :
    supervisor[d][c] = "waiting" ~> (supervisor[d][c] = "running" \/ stage[d] # "up")
=============================================================================
