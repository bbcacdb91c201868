---------------------------- MODULE DaemonProofs ----------------------------
(* Proofs about Daemon: its types, one daemon at a time, at most one late  *)
(* start of a component and a state file that tells of the shutdown, for   *)
(* any daemons, components and bounds.                                     *)
EXTENDS Daemon, TLAPS

(* Daemons, files and supervisors stay within their types. *)
THEOREM TypeCorrect == Spec => []DaemonTypeOK
<1>1. Init => DaemonTypeOK
  BY DaemonAssumption DEF Init, DaemonTypeOK, Running, Serving
<1>2. DaemonTypeOK /\ [Next]_vars => DaemonTypeOK'
  <2> SUFFICES ASSUME DaemonTypeOK, [Next]_vars PROVE DaemonTypeOK'
    OBVIOUS
  <2> USE DaemonAssumption DEF DaemonTypeOK, Running, Serving, Goto
  <2>1. ASSUME NEW d \in Daemons, CheckPid(d) PROVE DaemonTypeOK'
    <3>1. PICK s \in {"refused", "checked"} : stage' = [stage EXCEPT ![d] = s]
      BY <2>1 DEF CheckPid
    <3>2. UNCHANGED <<pidFile, supervisor, restarts, writer, status, stateFile>> /\ stage[d] = "off"
      BY <2>1 DEF CheckPid
    <3>3. stage' \in [Daemons -> {"off", "checked", "refused", "up", "told", "draining", "leaving",
                                "dropping", "gone", "dead"}]
      BY <3>1
    <3>4. \A x \in Daemons : stage'[x] \in {"up", "told"} => stage[x] \in {"up", "told"}
      BY <3>1, <3>2
    <3>5. \A x \in Daemons : Running(x)' => Running(x)
      BY <3>1, <3>2
    <3>6. QED  BY <3>2, <3>3, <3>4, <3>5
  <2>2. ASSUME NEW d \in Daemons, WritePid(d) PROVE DaemonTypeOK'
    BY <2>2 DEF WritePid
  <2>3. ASSUME NEW d \in Daemons, Flush(d) PROVE DaemonTypeOK'
    BY <2>3 DEF Flush
  <2>4. ASSUME NEW d \in Daemons, Announce(d) PROVE DaemonTypeOK'
    BY <2>4 DEF Announce
  <2>5. ASSUME NEW d \in Daemons, CancelToken(d) PROVE DaemonTypeOK'
    BY <2>5 DEF CancelToken
  <2>6. ASSUME NEW d \in Daemons, Exit(d) PROVE DaemonTypeOK'
    BY <2>6 DEF Exit
  <2>7. ASSUME NEW d \in Daemons, DropRuntime(d) \/ ProcessEnds(d) PROVE DaemonTypeOK'
    <3>1. PICK s \in {"dropping", "gone"} : stage' = [stage EXCEPT ![d] = s]
      BY <2>7 DEF DropRuntime, ProcessEnds
    <3>2. UNCHANGED <<pidFile, supervisor, restarts, writer, status, stateFile>>
      BY <2>7 DEF DropRuntime, ProcessEnds
    <3>3. stage' \in [Daemons -> {"off", "checked", "refused", "up", "told", "draining", "leaving",
                                "dropping", "gone", "dead"}]
      BY <3>1
    <3>4. /\ \A x \in Daemons : stage'[x] \in {"up", "told"} => stage[x] \in {"up", "told"}
          /\ \A x \in Daemons : Running(x)' => Running(x)
      BY <3>1
    <3>5. QED  BY <3>2, <3>3, <3>4
  <2>8. ASSUME NEW d \in Daemons, Crash(d) PROVE DaemonTypeOK'
    BY <2>8 DEF Crash
  <2>9. ASSUME NEW d \in Daemons, NEW c \in Components, Begin(d, c) PROVE DaemonTypeOK'
    BY <2>9 DEF Begin, Supervise
  <2>10. ASSUME NEW d \in Daemons, NEW c \in Components, Return(d, c) PROVE DaemonTypeOK'
    <3>1. CASE Cancelled(d)
      <4>1. /\ supervisor' = [supervisor EXCEPT ![d][c] = "over"]
            /\ UNCHANGED <<stage, pidFile, restarts, writer, status, stateFile>>
        BY <2>10, <3>1 DEF Return, Supervise
      <4>2. stage[d] \notin {"up", "told"}
        BY <3>1 DEF Cancelled
      <4>3. QED  BY <4>1, <4>2
    <3>2. CASE ~Cancelled(d)
      <4>1. restarts[d][c] + 1 \in 0 .. MaxRestarts
        BY <2>10, <3>2 DEF Return
      <4>2. /\ supervisor' = [supervisor EXCEPT ![d][c] = "waiting"]
            /\ restarts' = [restarts EXCEPT ![d][c] = restarts[d][c] + 1]
            /\ UNCHANGED <<stage, pidFile, writer, status, stateFile>>
        BY <2>10, <3>2 DEF Return, Supervise
      <4>3. QED  BY <4>1, <4>2
    <3>3. QED  BY <3>1, <3>2
  <2>11. ASSUME NEW d \in Daemons, NEW c \in Components, Retry(d, c) PROVE DaemonTypeOK'
    BY <2>11 DEF Retry, Supervise
  <2>12. ASSUME NEW d \in Daemons, NEW c \in Components, LeaveComponent(d, c)
         PROVE DaemonTypeOK'
    BY <2>12 DEF LeaveComponent, Supervise, Cancelled
  <2>13. ASSUME NEW d \in Daemons, NEW c \in Components, Hold(d, c) PROVE DaemonTypeOK'
    BY <2>13 DEF Hold, Supervise
  <2>14. ASSUME NEW d \in Daemons, NEW c \in Components, ReachAwait(d, c) PROVE DaemonTypeOK'
    <3>1. CASE Running(d)
      BY <2>14, <3>1 DEF ReachAwait, Supervise
    <3>2. CASE ~Running(d)
      BY <2>14, <3>2 DEF ReachAwait, Supervise
    <3>3. QED  BY <3>1, <3>2
  <2>15. CASE UNCHANGED vars
    BY <2>15 DEF vars
  <2>16. QED
    BY <2>1, <2>2, <2>3, <2>4, <2>5, <2>6, <2>7, <2>8, <2>9, <2>10, <2>11, <2>12, <2>13,
       <2>14, <2>15
    DEF Next, Supervised
<1>3. QED
  BY <1>1, <1>2, PTL DEF Spec

-----------------------------------------------------------------------------
(* Why one daemon serves at a time: the one that serves owns the file, so a *)
(* daemon that passes the check knows that nobody serves, and nobody can    *)
(* begin to before it has written its own PID unless two have passed.       *)
OwnerInv ==
  ~overlapped =>
    /\ \A d, e \in Daemons : Serving(d) /\ Serving(e) => d = e
    /\ \A d \in Daemons : Serving(d) => pidFile = d
    /\ \A d, e \in Daemons : stage[d] = "checked" /\ stage[e] = "checked" => d = e
    /\ \A d, e \in Daemons : stage[d] = "checked" => ~Serving(e)

(* A step that leaves the file alone and lets no daemon past the check nor  *)
(* serve that did not before keeps the owner.                               *)
LEMMA OwnerKept ==
  ASSUME OwnerInv, UNCHANGED <<pidFile, overlapped>>,
         \A d \in Daemons : (Serving(d))' => Serving(d),
         \A d \in Daemons : stage'[d] = "checked" => stage[d] = "checked"
  PROVE  OwnerInv'
  <1> QED  BY DEF OwnerInv

(* At most one daemon serves, unless two were between the check and the write of the PID
   file at the same time (PidFileGuard). *)
THEOREM OneDaemonInvariant == Spec => []OneDaemon
<1>1. Init => OwnerInv
  BY DEF Init, OwnerInv, Serving
<1>2. DaemonTypeOK /\ OwnerInv /\ [Next]_vars => OwnerInv'
  <2> SUFFICES ASSUME DaemonTypeOK, OwnerInv, [Next]_vars PROVE OwnerInv'
    OBVIOUS
  <2>0. stage \in [Daemons -> {"off", "checked", "refused", "up", "told", "draining",
                                "leaving", "dropping", "gone", "dead"}]
    BY DEF DaemonTypeOK
  <2>1. ASSUME NEW d \in Daemons, CheckPid(d) PROVE OwnerInv'
    <3>1. CASE pidFile # Nobody /\ Alive(pidFile)
      BY <2>0, <2>1, <3>1, OwnerKept DEF CheckPid, Goto, Serving
    <3>2. CASE ~(pidFile # Nobody /\ Alive(pidFile))
      <4>1. CASE overlapped'
        BY <4>1 DEF OwnerInv
      <4>2. CASE ~overlapped'
        <5>1. ~overlapped /\ \A e \in Daemons : stage[e] # "checked"
          BY <2>1, <3>2, <4>2 DEF CheckPid
        <5>2. \A e \in Daemons : ~Serving(e)
          BY <3>2, <5>1, DaemonAssumption DEF OwnerInv, Alive, Serving
        <5>3. stage' = [stage EXCEPT ![d] = "checked"]
          BY <2>1, <3>2 DEF CheckPid, Goto
        <5>4. QED
          BY <2>0, <5>1, <5>2, <5>3 DEF OwnerInv, Serving
      <4>3. QED  BY <4>1, <4>2
    <3>3. QED  BY <3>1, <3>2
  <2>2. ASSUME NEW d \in Daemons, WritePid(d) PROVE OwnerInv'
    BY <2>0, <2>2 DEF WritePid, Goto, OwnerInv, Serving
  <2>3. ASSUME NEW d \in Daemons, Exit(d) PROVE OwnerInv'
    BY <2>0, <2>3 DEF Exit, Goto, OwnerInv, Serving
  <2>4. ASSUME NEW d \in Daemons, Announce(d) \/ CancelToken(d) \/ DropRuntime(d)
                                  \/ ProcessEnds(d) \/ Crash(d)
        PROVE OwnerInv'
    BY <2>0, <2>4, OwnerKept
    DEF Announce, CancelToken, DropRuntime, ProcessEnds, Crash, Goto, Serving
  <2>5. ASSUME NEW d \in Daemons,
               Flush(d) \/ \E c \in Components : Supervised(d, c)
        PROVE OwnerInv'
    BY <2>5, OwnerKept
    DEF Flush, Supervised, Begin, Return, Retry, LeaveComponent, Hold, ReachAwait, Serving
  <2>6. CASE UNCHANGED vars
    BY <2>6, OwnerKept DEF vars, Serving
  <2>7. QED
    BY <2>1, <2>2, <2>3, <2>4, <2>5, <2>6 DEF Next
<1>3. OwnerInv => OneDaemon
  BY DEF OwnerInv, OneDaemon
<1>4. QED
  BY <1>1, <1>2, <1>3, TypeCorrect, PTL DEF Spec

-----------------------------------------------------------------------------
(* Why a component begins at most once more: after such a start it runs or  *)
(* its supervisor is over, and the check after the run lets it be over only.*)
LateInv ==
  \A d \in Daemons, c \in Components :
    /\ late[d][c] \in {0, 1}
    /\ stage[d] \in {"off", "checked", "refused", "up", "told"} => late[d][c] = 0
    /\ late[d][c] = 1 => supervisor[d][c] \in {"running", "holding", "over"}

(* The histories of late starts are functions. *)
LateType == late \in [Daemons -> [Components -> Nat]]

(* After the shutdown no component begins twice. *)
THEOREM OneLateStartInvariant == Spec => []OneLateStart
<1> DEFINE Inv == LateType /\ LateInv
<1>1. Init => Inv
  BY DEF Init, LateInv, LateType
<1>2. DaemonTypeOK /\ Inv /\ [Next]_vars => Inv'
  <2> SUFFICES ASSUME DaemonTypeOK, LateType, LateInv, [Next]_vars PROVE LateType' /\ LateInv'
    OBVIOUS
  <2>0. /\ stage \in [Daemons -> {"off", "checked", "refused", "up", "told", "draining",
                                   "leaving", "dropping", "gone", "dead"}]
        /\ supervisor \in [Daemons -> [Components ->
                             {"none", "start", "running", "holding", "waiting", "over"}]]
    BY DEF DaemonTypeOK
  <2> USE DEF LateInv, LateType, Goto
  <2>1. ASSUME NEW d \in Daemons, CheckPid(d) PROVE LateType' /\ LateInv'
    BY <2>0, <2>1 DEF CheckPid
  <2>2. ASSUME NEW d \in Daemons, WritePid(d) PROVE LateType' /\ LateInv'
    BY <2>0, <2>2 DEF WritePid
  <2>3. ASSUME NEW d \in Daemons, Announce(d) \/ CancelToken(d) \/ Exit(d) \/ DropRuntime(d)
                                  \/ ProcessEnds(d) \/ Crash(d)
        PROVE LateType' /\ LateInv'
    BY <2>0, <2>3 DEF Announce, CancelToken, Exit, DropRuntime, ProcessEnds, Crash
  <2>4. ASSUME NEW d \in Daemons, Flush(d) PROVE LateType' /\ LateInv'
    BY <2>0, <2>4 DEF Flush
  <2>5. ASSUME NEW d \in Daemons, NEW c \in Components, Begin(d, c) PROVE LateType' /\ LateInv'
    <3>1. late[d][c] = 0
      BY <2>0, <2>5 DEF Begin
    <3>2. CASE Cancelled(d)
      BY <2>0, <2>5, <3>1, <3>2 DEF Begin, Supervise, Cancelled
    <3>3. CASE ~Cancelled(d)
      BY <2>0, <2>5, <3>1, <3>3 DEF Begin, Supervise
    <3>4. QED  BY <3>2, <3>3
  <2>6. ASSUME NEW d \in Daemons, NEW c \in Components, Return(d, c) PROVE LateType' /\ LateInv'
    BY <2>0, <2>6 DEF Return, Supervise, Cancelled, Running, Serving
  <2>7. ASSUME NEW d \in Daemons, NEW c \in Components, Retry(d, c) PROVE LateType' /\ LateInv'
    BY <2>0, <2>7 DEF Retry, Supervise
  <2>8. ASSUME NEW d \in Daemons, NEW c \in Components, LeaveComponent(d, c)
        PROVE LateType' /\ LateInv'
    BY <2>0, <2>8 DEF LeaveComponent, Supervise
  <2>9. ASSUME NEW d \in Daemons, NEW c \in Components, Hold(d, c) \/ ReachAwait(d, c)
        PROVE LateType' /\ LateInv'
    <3>1. PICK s \in {"running", "holding", "over"} :
            supervisor' = [supervisor EXCEPT ![d][c] = s]
      BY <2>9 DEF Hold, ReachAwait, Supervise
    <3>2. UNCHANGED <<stage, late>>
      BY <2>9 DEF Hold, ReachAwait
    <3>3. QED  BY <2>0, <3>1, <3>2
  <2>10. CASE UNCHANGED vars
    BY <2>10 DEF vars
  <2>11. QED
    BY <2>1, <2>2, <2>3, <2>4, <2>5, <2>6, <2>7, <2>8, <2>9, <2>10 DEF Next, Supervised
<1>3. Inv => OneLateStart
  BY DEF LateInv, OneLateStart
<1>4. QED
  BY <1>1, <1>2, <1>3, TypeCorrect, PTL DEF Spec

-----------------------------------------------------------------------------
(* Why the last snapshot tells: the health is marked before the token is    *)
(* cancelled, and only a cancelled writer ends, with a snapshot.            *)
ToldInv ==
  \A d \in Daemons :
    /\ d \in orderly => writer[d] = "over"
    /\ writer[d] = "over" => stage[d] \in {"draining", "leaving", "dropping", "gone", "dead"}
    /\ stage[d] \in {"told", "draining", "leaving"} => status[d] = "error"
    /\ writer[d] = "over" /\ stateFile.by = d => stateFile.status = "error"

(* Of a daemon that has left in order, the state file says that it was shut down. *)
THEOREM LastStateToldInvariant == Spec => []LastStateTold
<1>1. Init => ToldInv
  BY DEF Init, ToldInv
<1>2. DaemonTypeOK /\ ToldInv /\ [Next]_vars => ToldInv'
  <2> SUFFICES ASSUME DaemonTypeOK, ToldInv, [Next]_vars PROVE ToldInv'
    OBVIOUS
  <2>0. /\ stage \in [Daemons -> {"off", "checked", "refused", "up", "told", "draining",
                                   "leaving", "dropping", "gone", "dead"}]
        /\ writer \in [Daemons -> {"none", "running", "over"}]
        /\ status \in [Daemons -> {"none", "ok", "error"}]
    BY DEF DaemonTypeOK
  <2> USE DEF ToldInv, Goto
  <2>1. ASSUME NEW d \in Daemons, CheckPid(d) PROVE ToldInv'
    BY <2>0, <2>1 DEF CheckPid
  <2>2. ASSUME NEW d \in Daemons, WritePid(d) PROVE ToldInv'
    BY <2>0, <2>2 DEF WritePid
  <2>3. ASSUME NEW d \in Daemons, Flush(d) PROVE ToldInv'
    <3>1. stateFile' = [by |-> d, status |-> status[d]]
      BY <2>3 DEF Flush
    <3>2. CASE writer' = writer
      BY <2>0, <2>3, <3>1, <3>2 DEF Flush
    <3>3. CASE Cancelled(d) /\ writer' = [writer EXCEPT ![d] = "over"]
      BY <2>0, <2>3, <3>1, <3>3 DEF Flush, Cancelled
    <3>4. QED  BY <2>3, <3>2, <3>3 DEF Flush
  <2>4. ASSUME NEW d \in Daemons, Announce(d) PROVE ToldInv'
    BY <2>0, <2>4 DEF Announce
  <2>5. ASSUME NEW d \in Daemons, CancelToken(d) PROVE ToldInv'
    BY <2>0, <2>5 DEF CancelToken
  <2>6. ASSUME NEW d \in Daemons, Exit(d) PROVE ToldInv'
    BY <2>0, <2>6 DEF Exit, Drained
  <2>7. ASSUME NEW d \in Daemons, DropRuntime(d) \/ ProcessEnds(d) \/ Crash(d) PROVE ToldInv'
    BY <2>0, <2>7 DEF DropRuntime, ProcessEnds, Crash
  <2>8. ASSUME NEW d \in Daemons, \E c \in Components : Supervised(d, c) PROVE ToldInv'
    BY <2>0, <2>8 DEF Supervised, Begin, Return, Retry, LeaveComponent, Hold, ReachAwait
  <2>9. CASE UNCHANGED vars
    BY <2>9 DEF vars
  <2>10. QED
    BY <2>1, <2>2, <2>3, <2>4, <2>5, <2>6, <2>7, <2>8, <2>9 DEF Next
<1>3. ToldInv => LastStateTold
  BY DEF ToldInv, LastStateTold
<1>4. QED
  BY <1>1, <1>2, <1>3, TypeCorrect, PTL DEF Spec
=============================================================================
