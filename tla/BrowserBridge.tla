---------------------------- MODULE BrowserBridge ----------------------------
(***************************************************************************)
(* The browser bridge (src/src/browser_bridge/mod.rs): tool calls and      *)
(* gateway requests queue commands for a browser, whose extension sends    *)
(* heartbeats, polls for commands, executes them and posts the results.    *)
(*                                                                         *)
(* Every field of the bridge has a parking_lot mutex of its own.  A call   *)
(* that takes one lock at a time is one action, heartbeat and pick_client, *)
(* which hold one lock while they take another, are two.  No command is    *)
(* ever removed from its queue (gc has no caller), so a command is its     *)
(* place in the queue of its client.  Payloads, tabs, the snapshot         *)
(* references and what a command does to the page are left out: one that   *)
(* failed may have acted on it, even twice, or may still do so.            *)
(***************************************************************************)
EXTENDS Naturals, Sequences, FiniteSets

CONSTANTS
  Clients,      \* extension instances
  Calls,        \* calls that want something done in a browser
  ToolCalls,    \* those of browser_ext, which may try several clients; the others are
                \* POST /api/browser/command
  MaxRestarts,  \* how often each browser may kill the worker of its extension
  Free,         \* the holder of a lock nobody holds
  NoCommand     \* what a call waits for before it has queued anything

ASSUME BridgeAssumption ==
  /\ ToolCalls \subseteq Calls
  /\ IsFiniteSet(Clients)
  /\ Clients \cap Calls = {}
  /\ MaxRestarts \in [Clients -> Nat]
  /\ Free \notin Clients \cup Calls

VARIABLES
  clientsLock,    \* who holds `clients` while waiting for another lock, or Free
  supportedLock,  \* who holds `supported_commands` while waiting for another lock
  active,         \* clients whose last heartbeat is younger than heartbeat_ttl_sec
  supported,      \* clients whose list of commands is stored
  queue,          \* the commands of each client, oldest first: [status, call]
  polls,          \* polls that have copied a queue and not marked it yet
  place,          \* what the worker of each extension is doing
  life,           \* how often it was restarted
  items,          \* commands it received and has not executed
  posts,          \* results on their way to the bridge
  callAt,         \* where each call is
  targets,        \* the clients it has still to try
  waitsFor,       \* the command it waits for: <<client, place in its queue>>
  executed,       \* history: the commands each client executed, oldest first
  confirmed       \* history: the commands whose execution the extension found a success

locks == <<clientsLock, supportedLock>>
extVars == <<place, life, items, posts, executed, confirmed>>
callVars == <<callAt, targets, waitsFor>>
vars == <<locks, active, supported, queue, polls, extVars, callVars>>

-----------------------------------------------------------------------------
Status == {"queued", "dispatched", "completed", "failed"}
Finished == {"completed", "failed"}
Commands == UNION {{<<e, i>> : i \in DOMAIN queue[e]} : e \in Clients}
StatusOf(c) == queue[c[1]][c[2]].status
CommandsOf(k) == {c \in Commands : queue[c[1]][c[2]].call = k}

\* The orders in which a call may try the clients of S.
Orders(S) == {s \in [1 .. Cardinality(S) -> S] : \A i, j \in DOMAIN s : s[i] = s[j] => i = j}
\* Places of a queue, oldest first: there is one such sequence.
OldestFirst(S) == {s \in Orders(S) : \A i, j \in DOMAIN s : i < j => s[i] < s[j]}

Init ==
  /\ clientsLock = Free
  /\ supportedLock = Free
  /\ active = {}
  /\ supported = {}
  /\ queue = [e \in Clients |-> << >>]
  /\ polls = {}
  /\ place = [e \in Clients |-> "idle"]
  /\ life = [e \in Clients |-> 0]
  /\ items = [e \in Clients |-> << >>]
  /\ posts = {}
  /\ callAt = [k \in Calls |-> "new"]
  /\ targets = [k \in Calls |-> << >>]
  /\ waitsFor = [k \in Calls |-> NoCommand]
  /\ executed = [e \in Clients |-> << >>]
  /\ confirmed = {}

-----------------------------------------------------------------------------
(* An extension: heartbeatAndPoll.                                         *)

\* heartbeat: the client is stored and `clients` stays locked ...
Heartbeat(e) ==
  /\ place[e] = "idle"
  /\ clientsLock = Free
  /\ clientsLock' = e
  /\ active' = active \cup {e}
  /\ place' = [place EXCEPT ![e] = "beating"]
  /\ UNCHANGED <<supportedLock, supported, queue, polls, life, items, posts,
                 executed, confirmed, callVars>>

\* ... until the list of its commands is stored as well.
HeartbeatStore(e) ==
  /\ clientsLock = e
  /\ supportedLock = Free
  /\ supported' = supported \cup {e}
  /\ clientsLock' = Free
  /\ place' = [place EXCEPT ![e] = IF @ = "beating" THEN "beaten" ELSE @]
  /\ UNCHANGED <<supportedLock, active, queue, polls, life, items, posts,
                 executed, confirmed, callVars>>

\* No heartbeat for heartbeat_ttl_sec, which is longer than a request takes.
Expire(e) ==
  /\ place[e] = "idle"
  /\ e \in active
  /\ active' = active \ {e}
  /\ UNCHANGED <<locks, supported, queue, polls, extVars, callVars>>

\* poll_commands copies the queue, if the client has one ...
Poll(e) ==
  /\ place[e] = "beaten"
  /\ IF queue[e] = << >>
     THEN place' = [place EXCEPT ![e] = "idle"] /\ UNCHANGED polls
     ELSE /\ place' = [place EXCEPT ![e] = "polling"]
          /\ polls' = polls \cup {[client |-> e, upto |-> Len(queue[e]), life |-> life[e]]}
  /\ UNCHANGED <<locks, active, supported, queue, life, items, posts,
                 executed, confirmed, callVars>>

Marked(q, upto) ==
  [i \in DOMAIN q |->
     IF i <= upto /\ q[i].status = "queued" THEN [q[i] EXCEPT !.status = "dispatched"]
                                            ELSE q[i]]

\* Mutant: whatever is not finished is handed out again.
Unfinished(q, upto) == {i \in 1 .. upto : q[i].status \notin Finished}

Fresh(q, upto) == {i \in 1 .. upto : q[i].status = "queued"}

\* ... and marks and returns what nobody polled before.  The response may be lost; that
\* of a poll whose worker is gone always is.
PollMark(p) ==
  LET e == p.client IN
  /\ polls' = polls \ {p}
  /\ queue' = [queue EXCEPT ![e] = Marked(@, p.upto)]
  /\ \/ /\ p.life = life[e]
        /\ \E commands \in OldestFirst(Fresh(queue[e], p.upto)) :
             /\ items' = [items EXCEPT ![e] = commands]
             /\ place' = [place EXCEPT ![e] = IF commands = << >> THEN "idle" ELSE "running"]
     \/ /\ p.life = life[e]
        /\ place' = [place EXCEPT ![e] = "idle"]
        /\ UNCHANGED items
     \/ /\ p.life # life[e]
        /\ UNCHANGED <<items, place>>
  /\ UNCHANGED <<locks, active, supported, life, posts, executed, confirmed, callVars>>

\* The next command, after the result of the one before was posted.  The extension finds
\* that it succeeded or failed; it says failed too when the page did not answer in time,
\* or not at all, although the page may have done what was asked.  The cache of results is
\* left out: it is for commands handed out again.
Execute(e, result) ==
  LET i == Head(items[e]) IN
  /\ place[e] = "running"
  /\ \A p \in posts : p.client = e => p.life # life[e]
  /\ items' = [items EXCEPT ![e] = Tail(@)]
  /\ place' = [place EXCEPT ![e] = IF Len(items[e]) = 1 THEN "idle" ELSE "running"]
  /\ executed' = [executed EXCEPT ![e] = Append(@, i)]
  /\ confirmed' = IF result = "ok" THEN confirmed \cup {<<e, i>>} ELSE confirmed
  /\ posts' = posts \cup {[client |-> e, place |-> i, result |-> result, life |-> life[e]]}
  /\ UNCHANGED <<locks, active, supported, queue, polls, life, callVars>>

\* The browser stops the worker; the requests it sent go on without it.
Restart(e) ==
  /\ life[e] < MaxRestarts[e]
  /\ life' = [life EXCEPT ![e] = @ + 1]
  /\ place' = [place EXCEPT ![e] = "idle"]
  /\ items' = [items EXCEPT ![e] = << >>]
  /\ UNCHANGED <<locks, active, supported, queue, polls, posts, executed, confirmed, callVars>>

\* complete_command, whatever the command's status.
Complete(p) ==
  /\ posts' = posts \ {p}
  /\ queue' = [queue EXCEPT ![p.client][p.place].status =
                 IF p.result = "ok" THEN "completed" ELSE "failed"]
  /\ UNCHANGED <<locks, active, supported, polls, place, life, items, executed,
                 confirmed, callVars>>

\* The post fails; it is not repeated.
LosePost(p) ==
  /\ posts' = posts \ {p}
  /\ UNCHANGED <<locks, active, supported, queue, polls, place, life, items,
                 executed, confirmed, callVars>>

-----------------------------------------------------------------------------
(* A call.                                                                 *)

CallTo(k, to) == callAt' = [callAt EXCEPT ![k] = to]

\* The caller named a client: it is taken if it is active.
Name(k) ==
  /\ callAt[k] = "new"
  /\ clientsLock = Free
  /\ \E e \in Clients :
       /\ targets' = [targets EXCEPT ![k] = IF e \in active THEN <<e>> ELSE << >>]
       /\ CallTo(k, IF e \in active THEN "enqueue" ELSE "refused")
  /\ UNCHANGED <<locks, active, supported, queue, polls, extVars, waitsFor>>

\* candidate_client_ids takes each lock on its own.  It prefers clients seen lately, and
\* those on a page of the right kind, but never ends up with none; of these it tries
\* those that support the command, the best first, and if there is none picks one.
Choose(k) ==
  /\ k \in ToolCalls
  /\ callAt[k] = "new"
  /\ clientsLock = Free
  /\ supportedLock = Free
  /\ \E selectable \in SUBSET active :
       /\ selectable = {} => active = {}
       /\ \/ /\ selectable \cap supported # {}
             /\ \E s \in Orders(selectable \cap supported) : targets' = [targets EXCEPT ![k] = s]
             /\ CallTo(k, "enqueue")
          \/ /\ selectable \cap supported = {}
             /\ CallTo(k, "pick")
             /\ UNCHANGED targets
  /\ UNCHANGED <<locks, active, supported, queue, polls, extVars, waitsFor>>

\* A gateway request that names no client.
Request(k) ==
  /\ k \in Calls \ ToolCalls
  /\ callAt[k] = "new"
  /\ CallTo(k, "pick")
  /\ UNCHANGED <<locks, active, supported, queue, polls, extVars, targets, waitsFor>>

\* pick_client locks `supported_commands` ...
PickLock(k) ==
  /\ callAt[k] \in {"pick", "pick_any"}
  /\ supportedLock = Free
  /\ supportedLock' = k
  /\ CallTo(k, IF callAt[k] = "pick" THEN "picking" ELSE "picking_any")
  /\ UNCHANGED <<clientsLock, active, supported, queue, polls, extVars, targets, waitsFor>>

\* ... and, with it held, `clients`.  A tool takes any client in the end.
PickFind(k) ==
  /\ callAt[k] \in {"picking", "picking_any"}
  /\ clientsLock = Free
  /\ supportedLock' = Free
  /\ LET found == IF callAt[k] = "picking" THEN active \cap supported ELSE active
     IN \/ /\ \E e \in found : targets' = [targets EXCEPT ![k] = <<e>>]
           /\ CallTo(k, "enqueue")
        \/ /\ found = {}
           /\ CallTo(k, IF k \in ToolCalls /\ callAt[k] = "picking" THEN "pick_any"
                                                                    ELSE "refused")
           /\ UNCHANGED targets
  /\ UNCHANGED <<clientsLock, active, supported, queue, polls, extVars, waitsFor>>

\* enqueue_command: into the map and then into the queue of the client.  A gateway request
\* need not wait for the result: it is told that its command is queued.
Enqueue(k) ==
  LET e == Head(targets[k]) IN
  /\ callAt[k] = "enqueue"
  /\ queue' = [queue EXCEPT ![e] = Append(@, [status |-> "queued", call |-> k])]
  /\ waitsFor' = [waitsFor EXCEPT ![k] = <<e, Len(queue[e]) + 1>>]
  /\ targets' = [targets EXCEPT ![k] = Tail(@)]
  /\ \/ CallTo(k, "waiting")
     \/ k \notin ToolCalls /\ CallTo(k, "queued")
  /\ UNCHANGED <<locks, active, supported, polls, extVars>>

Succeed(k) ==
  /\ callAt[k] = "waiting"
  /\ StatusOf(waitsFor[k]) = "completed"
  /\ CallTo(k, "succeeded")
  /\ targets' = [targets EXCEPT ![k] = << >>]
  /\ UNCHANGED <<locks, active, supported, queue, polls, extVars, waitsFor>>

\* should_retry_with_another_client: a tool goes on if the browser blocked the command.
Fail(k) ==
  /\ callAt[k] = "waiting"
  /\ StatusOf(waitsFor[k]) = "failed"
  /\ \/ /\ CallTo(k, "failed")
        /\ targets' = [targets EXCEPT ![k] = << >>]
     \/ /\ k \in ToolCalls
        /\ targets[k] # << >>
        /\ CallTo(k, "enqueue")
        /\ UNCHANGED targets
  /\ UNCHANGED <<locks, active, supported, queue, polls, extVars, waitsFor>>

\* Mutant: a command that was taken is waited for without end.
TimeOut_OnlyQueued(k) ==
  /\ callAt[k] = "waiting"
  /\ StatusOf(waitsFor[k]) = "queued"
  /\ CallTo(k, "timed_out")
  /\ targets' = [targets EXCEPT ![k] = << >>]
  /\ UNCHANGED <<locks, active, supported, queue, polls, extVars, waitsFor>>

\* Mutant: a tool that got no answer in time tries the next client.
TimeOut_TriesNext(k) ==
  /\ callAt[k] = "waiting"
  /\ StatusOf(waitsFor[k]) \notin Finished
  /\ CallTo(k, IF targets[k] # << >> THEN "enqueue" ELSE "timed_out")
  /\ UNCHANGED <<locks, active, supported, queue, polls, extVars, targets, waitsFor>>

\* wait_for_command gives up; the command stays where it is.  A tool reports the timeout,
\* the gateway that the command is queued.
TimeOut(k) ==
  /\ callAt[k] = "waiting"
  /\ StatusOf(waitsFor[k]) \notin Finished
  /\ CallTo(k, IF k \in ToolCalls THEN "timed_out" ELSE "queued")
  /\ targets' = [targets EXCEPT ![k] = << >>]
  /\ UNCHANGED <<locks, active, supported, queue, polls, extVars, waitsFor>>

-----------------------------------------------------------------------------
Extension(e) ==
  \/ Heartbeat(e) \/ HeartbeatStore(e) \/ Expire(e) \/ Poll(e) \/ Restart(e)
  \/ \E result \in {"ok", "failed"} : Execute(e, result)

Call(k) ==
  \/ Name(k) \/ Choose(k) \/ Request(k) \/ PickLock(k) \/ PickFind(k) \/ Enqueue(k)
  \/ Succeed(k) \/ Fail(k) \/ TimeOut(k)

Next ==
  \/ \E e \in Clients : Extension(e)
  \/ \E p \in polls : PollMark(p)
  \/ \E p \in posts : Complete(p) \/ LosePost(p)
  \/ \E k \in Calls : Call(k)

Spec == Init /\ [][Next]_vars

(* A request the gateway has begun goes on, every call is a task that is polled, and the
   mutexes hand over a contended lock in the end (SF).  Nothing is assumed of the
   extensions. *)
FairSpec ==
  /\ Spec
  /\ \A e \in Clients : WF_vars(HeartbeatStore(e))
  /\ \A k \in Calls : SF_vars(Call(k))

-----------------------------------------------------------------------------
(* Locks, queues and calls stay within their types. *)
BridgeTypeOK ==
  /\ clientsLock \in Clients \cup {Free}
  /\ supportedLock \in Calls \cup {Free}
  /\ active \subseteq Clients
  /\ supported \subseteq Clients
  /\ \A e \in Clients : \A i \in DOMAIN queue[e] :
       queue[e][i].status \in Status /\ queue[e][i].call \in Calls
  /\ \A p \in polls : p.client \in Clients /\ p.upto <= Len(queue[p.client])
  /\ place \in [Clients -> {"idle", "beating", "beaten", "polling", "running"}]
  /\ \A p \in posts : <<p.client, p.place>> \in Commands
  /\ \A k \in Calls : waitsFor[k] \in (Clients \X Nat) \cup {NoCommand}
  /\ confirmed \subseteq Commands

(* The bridge keeps the promise of CommandDelivery: although a browser may be killed
   with a poll under way, no command is executed twice, out of order or elsewhere. *)
Delivery == INSTANCE CommandDelivery WITH submitted <- [e \in Clients |-> Len(queue[e])]
DeliveredAtMostOnceInOrder == Delivery!Spec

(* A call is told how its commands ended.  After a success the command it waited for is
   the only one of its commands that was confirmed, and each of the others was executed
   and failed before it; after a failure all of them were executed and failed; a call
   that was refused queued none.  However it ends, at most one is ever confirmed.  What
   a failed command did to the page is not known. *)
AnswerIsTheResult ==
  \A k \in Calls :
    LET ran == {c \in CommandsOf(k) : \E j \in DOMAIN executed[c[1]] : executed[c[1]][j] = c[2]}
        done == CommandsOf(k) \cap confirmed
    IN /\ Cardinality(done) <= 1
       /\ callAt[k] = "succeeded" => done = {waitsFor[k]} /\ ran = CommandsOf(k)
       /\ callAt[k] = "failed" => done = {} /\ ran = CommandsOf(k)
       /\ callAt[k] = "refused" => CommandsOf(k) = {}

(* heartbeat holds `clients` and waits for `supported_commands` while pick_client holds
   `supported_commands` and waits for `clients`. *)
HoldEachOther == clientsLock # Free /\ supportedLock # Free

(* A call ends, with an answer, at its timeout or once its command is queued, unless a heartbeat and a call hold each
   other's lock: nothing else can stop one. *)
CallsEnd ==
  \A k \in Calls :
    callAt[k] = "enqueue" \/ callAt[k] = "pick" ~>
      \/ callAt[k] \in {"succeeded", "failed", "refused", "timed_out", "queued"}
      \/ HoldEachOther

(* "... timed out after {}s" (src/src/tools/browser_bridge_tool.rs:346): a call is never
   stopped for ever. *)
NeverHoldEachOther == ~HoldEachOther
=============================================================================
