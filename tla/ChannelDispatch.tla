-------------------------- MODULE ChannelDispatch --------------------------
(***************************************************************************)
(* The dispatch of incoming chat messages (src/src/channels/mod.rs):       *)
(* run_message_dispatch_loop takes a message and a permit and spawns a     *)
(* worker, which may interrupt the worker of an earlier message of the     *)
(* same sender and chat before process_channel_message lets the model      *)
(* answer.  Workers are tokio tasks: an action is what one of them does    *)
(* between two awaits or locks.                                            *)
(*                                                                         *)
(* Messages are numbered in the order in which they reach the loop.  What  *)
(* a message says, what the model and its tools do, drafts, reactions and  *)
(* typing indicators are left out.                                         *)
(***************************************************************************)
EXTENDS ChannelHistory, FiniteSets

CONSTANTS
  Messages,     \* how many messages ever arrive
  Chat,         \* the chat (reply target) of each message
  Sender,       \* its sender, the key of its history
  Interrupts,   \* the values of interrupt_on_new_message, which counts for telegram only
  MaxInFlight   \* permits of the dispatch loop

Message == 1 .. Messages
Senders == {Sender[m] : m \in Message}

ASSUME DispatchAssumption ==
  /\ Messages \in Nat
  /\ DOMAIN Chat = Message
  /\ DOMAIN Sender = Message
  /\ Interrupts \subseteq BOOLEAN
  /\ MaxInFlight \in Nat \ {0}

VARIABLES
  interrupt,   \* interrupt_enabled for the channel of the messages: never changes
  arrived,     \* messages the listeners have put into the queue
  received,    \* messages the loop has taken out of it
  pc,          \* where the worker of each message is
  inFlight,    \* in_flight_by_sender: the message registered for each scope, or None
  previous,    \* the message a worker found registered and waits for
  cancelled,   \* messages whose cancellation token is cancelled
  done,        \* messages whose InFlightTaskCompletion is done
  history,     \* conversation_histories
  hadPrior,    \* had_prior_history of each worker, until it has read
  prompt,      \* what the model is given to answer each message, while it is
  joined       \* history: messages that became turns between a worker's look at the
               \* history and its reading it

local == <<hadPrior, prompt, joined>>
vars == <<interrupt, arrived, received, pc, inFlight, previous, cancelled, done, history, local>>

-----------------------------------------------------------------------------
None == 0
Scope(m) == <<Chat[m], Sender[m]>>     \* interruption_scope_key
Scopes == {Scope(m) : m \in Message}

Place == {"new", "spawned", "cancel", "check", "checked", "waiting", "start", "look", "append",
          "read", "generate", "leave", "mark", "ended", "skipped", "interrupted"}
\* A worker between the start of its task and the release of its permit.
AtWork == Place \ {"new", "ended"}
\* In process_channel_message.
Processing == {"start", "look", "append", "read", "generate"}

Goto(m, place) == pc' = [pc EXCEPT ![m] = place]
Workers == {m \in Message : pc[m] \in AtWork}

Init ==
  /\ interrupt \in Interrupts
  /\ arrived = 0
  /\ received = 0
  /\ pc = [m \in Message |-> "new"]
  /\ inFlight = [s \in Scopes |-> None]
  /\ previous = [m \in Message |-> None]
  /\ cancelled = {}
  /\ done = {}
  /\ history = [s \in Senders |-> << >>]
  /\ hadPrior = [m \in Message |-> FALSE]
  /\ prompt = [m \in Message |-> << >>]
  /\ joined = [m \in Message |-> {}]

Arrive ==
  /\ arrived < Messages
  /\ arrived' = arrived + 1
  /\ UNCHANGED <<received, pc, inFlight, previous, cancelled, done, history, local>>

\* run_message_dispatch_loop: the next message, as soon as there is a permit for it.
Receive ==
  /\ received < arrived
  /\ Cardinality(Workers) < MaxInFlight
  /\ received' = received + 1
  /\ Goto(received + 1, "spawned")
  /\ UNCHANGED <<arrived, inFlight, previous, cancelled, done, history, local>>

-----------------------------------------------------------------------------
(* The worker around process_channel_message.                              *)

\* Mutant: the worker does not wait for the one it replaces.
Register_NoWait(m) ==
  /\ pc[m] = "spawned"
  /\ inFlight' = [inFlight EXCEPT ![Scope(m)] = m]
  /\ Goto(m, "start")
  /\ UNCHANGED <<arrived, received, previous, cancelled, done, history, local>>

\* Register the message and learn which one it replaces.
Register(m) ==
  /\ pc[m] = "spawned"
  /\ \/ /\ interrupt
        /\ inFlight' = [inFlight EXCEPT ![Scope(m)] = m]
        /\ previous' = [previous EXCEPT ![m] = inFlight[Scope(m)]]
        /\ Goto(m, IF inFlight[Scope(m)] = None THEN "start" ELSE "cancel")
     \/ /\ ~interrupt
        /\ Goto(m, "start")
        /\ UNCHANGED <<inFlight, previous>>
  /\ UNCHANGED <<arrived, received, cancelled, done, history, local>>

Cancel(m) ==
  /\ pc[m] = "cancel"
  /\ cancelled' = cancelled \cup {previous[m]}
  /\ Goto(m, "check")
  /\ UNCHANGED <<arrived, received, inFlight, previous, done, history, local>>

\* Mutant: the wait is over whatever the flag says.
CheckDone_NoWait(m) ==
  /\ pc[m] = "check"
  /\ Goto(m, "start")
  /\ UNCHANGED <<arrived, received, inFlight, previous, cancelled, done, history, local>>

\* InFlightTaskCompletion::wait, in two steps: read the flag ...
CheckDone(m) ==
  /\ pc[m] = "check"
  /\ Goto(m, IF previous[m] \in done THEN "start" ELSE "checked")
  /\ UNCHANGED <<arrived, received, inFlight, previous, cancelled, done, history, local>>

\* ... and, if it was not set, wait for a notification sent from now on.
AwaitDone(m) ==
  /\ pc[m] = "checked"
  /\ Goto(m, "waiting")
  /\ UNCHANGED <<arrived, received, inFlight, previous, cancelled, done, history, local>>

\* Mutant: the scope is freed whoever is registered for it.
Leave_Anyone(m) ==
  /\ pc[m] \in {"leave", "skipped", "interrupted"}
  /\ inFlight' = [inFlight EXCEPT ![Scope(m)] = None]
  /\ Goto(m, "mark")
  /\ UNCHANGED <<arrived, received, previous, cancelled, done, history, local>>

\* Mutant: only the registered worker gets past the cleanup.
Leave_OnlyRegistered(m) ==
  /\ pc[m] \in {"leave", "skipped", "interrupted"}
  /\ inFlight[Scope(m)] = m
  /\ inFlight' = [inFlight EXCEPT ![Scope(m)] = None]
  /\ Goto(m, "mark")
  /\ UNCHANGED <<arrived, received, previous, cancelled, done, history, local>>

\* process_channel_message has returned: free the scope, unless it is a newer worker's.
Leave(m) ==
  /\ pc[m] \in {"leave", "skipped", "interrupted"}
  /\ inFlight' = [inFlight EXCEPT ![Scope(m)] = IF @ = m THEN None ELSE @]
  /\ Goto(m, "mark")
  /\ UNCHANGED <<arrived, received, previous, cancelled, done, history, local>>

\* mark_done: notify_waiters wakes those that wait at this moment; the permit is freed.
MarkDone(m) ==
  /\ pc[m] = "mark"
  /\ done' = done \cup {m}
  /\ pc' = [w \in Message |-> IF w = m THEN "ended"
                              ELSE IF pc[w] = "waiting" /\ previous[w] = m THEN "start"
                              ELSE pc[w]]
  /\ UNCHANGED <<arrived, received, inFlight, previous, cancelled, history, local>>

-----------------------------------------------------------------------------
(* process_channel_message.                                                *)

\* A message whose token is cancelled already is given up; a hook or a runtime command
\* may take one; the provider may be missing; otherwise the model is to answer it.
Start(m) ==
  /\ pc[m] = "start"
  /\ \/ m \in cancelled /\ Goto(m, "skipped")
     \/ m \notin cancelled /\ Goto(m, "look")
     \/ m \notin cancelled /\ Goto(m, "leave")
  /\ UNCHANGED <<arrived, received, inFlight, previous, cancelled, done, history, local>>

\* The command /new forgets the conversation.
NewSession(m) ==
  /\ pc[m] = "start"
  /\ m \notin cancelled
  /\ history' = [history EXCEPT ![Sender[m]] = << >>]
  /\ Goto(m, "leave")
  /\ UNCHANGED <<arrived, received, inFlight, previous, cancelled, done, local>>

\* Has the conversation begun before?  That, the turn and the reading each take the lock.
Look(m) ==
  /\ pc[m] = "look"
  /\ hadPrior' = [hadPrior EXCEPT ![m] = history[Sender[m]] # << >>]
  /\ Goto(m, "append")
  /\ UNCHANGED <<arrived, received, inFlight, previous, cancelled, done, history, prompt, joined>>

\* The workers of its sender that m joins: they have looked and have not read.
Reading(m) == {w \in Message \ {m} : Sender[w] = Sender[m] /\ pc[w] \in {"append", "read"}}

\* The message becomes a turn before the model is asked.
AppendUserTurn(m) ==
  /\ pc[m] = "append"
  /\ history' = [history EXCEPT ![Sender[m]] = Appended(@, UserTurn(m))]
  /\ joined' = [w \in Message |-> IF w \in Reading(m) THEN joined[w] \cup {m} ELSE joined[w]]
  /\ Goto(m, "read")
  /\ UNCHANGED <<arrived, received, inFlight, previous, cancelled, done, hadPrior, prompt>>

\* The history is read, made ready for the model, and the model is called.
ReadHistory(m) ==
  /\ pc[m] = "read"
  /\ prompt' = [prompt EXCEPT ![m] = PromptOf(history[Sender[m]], m, hadPrior[m])]
  /\ hadPrior' = [hadPrior EXCEPT ![m] = FALSE]
  /\ joined' = [joined EXCEPT ![m] = {}]
  /\ Goto(m, "generate")
  /\ UNCHANGED <<arrived, received, inFlight, previous, cancelled, done, history>>

\* Mutant: an interrupted worker takes its turn back.
Interrupted_RollsBack(m) ==
  /\ pc[m] = "generate"
  /\ m \in cancelled
  /\ history' = [history EXCEPT ![Sender[m]] =
                   IF CanRollBack(@, m) THEN SubSeq(@, 1, Len(@) - 1) ELSE @]
  /\ Goto(m, "interrupted")
  /\ UNCHANGED <<arrived, received, inFlight, previous, cancelled, done>>

\* The cancellation wins the select, or reaches the tool loop.
Interrupted(m) ==
  /\ pc[m] = "generate"
  /\ m \in cancelled
  /\ Goto(m, "interrupted")
  /\ UNCHANGED <<arrived, received, inFlight, previous, cancelled, done, history>>

\* The model answered, or failed or timed out, which closes the turn with a note.
Answer(m) ==
  /\ pc[m] = "generate"
  /\ history' = [history EXCEPT ![Sender[m]] = Appended(@, AssistantTurn(m))]
  /\ Goto(m, "leave")
  /\ UNCHANGED <<arrived, received, inFlight, previous, cancelled, done>>

\* The answer is suppressed by a hook.
Suppress(m) ==
  /\ pc[m] = "generate"
  /\ Goto(m, "leave")
  /\ UNCHANGED <<arrived, received, inFlight, previous, cancelled, done, history>>

\* The context window is exceeded.
Overflow(m) ==
  /\ pc[m] = "generate"
  /\ history' = [history EXCEPT ![Sender[m]] = Compacted(@)]
  /\ Goto(m, "leave")
  /\ UNCHANGED <<arrived, received, inFlight, previous, cancelled, done>>

\* The provider cannot see images: take the turn back, or close it with a note.
NoVision(m) ==
  /\ pc[m] = "generate"
  /\ history' = [history EXCEPT ![Sender[m]] =
                   IF CanRollBack(@, m) THEN SubSeq(@, 1, Len(@) - 1)
                                        ELSE Appended(@, AssistantTurn(m))]
  /\ Goto(m, "leave")
  /\ UNCHANGED <<arrived, received, inFlight, previous, cancelled, done>>

Finish(m) ==
  /\ Interrupted(m) \/ Answer(m) \/ Suppress(m) \/ Overflow(m) \/ NoVision(m)
  /\ prompt' = [prompt EXCEPT ![m] = << >>]
  /\ UNCHANGED <<hadPrior, joined>>

Work(m) ==
  \/ Register(m) \/ Cancel(m) \/ CheckDone(m) \/ AwaitDone(m)
  \/ Start(m) \/ NewSession(m) \/ Look(m) \/ AppendUserTurn(m) \/ ReadHistory(m) \/ Finish(m)
  \/ Leave(m) \/ MarkDone(m)

Next ==
  /\ Arrive \/ Receive \/ \E m \in Message : Work(m)
  /\ UNCHANGED interrupt

Spec == Init /\ [][Next]_vars

(* The loop is polled and every worker is; a call of the model ends, at its timeout at
   the latest (timeout_budget_secs).                                                *)
FairSpec ==
  /\ Spec
  /\ WF_vars(Receive /\ UNCHANGED interrupt)
  /\ \A m \in Message : WF_vars(Work(m) /\ UNCHANGED interrupt)

-----------------------------------------------------------------------------
(* Workers, permits and registrations stay within their types: what has not been received
   has no worker, and what is done has ended. *)
DispatchTypeOK ==
  /\ arrived \in 0 .. Messages
  /\ received \in 0 .. arrived
  /\ pc \in [Message -> Place]
  /\ inFlight \in [Scopes -> Message \cup {None}]
  /\ previous \in [Message -> Message \cup {None}]
  /\ hadPrior \in [Message -> BOOLEAN]
  /\ DOMAIN prompt = Message
  /\ joined \in [Message -> SUBSET Message]
  /\ \A m \in Message : m > received => pc[m] = "new"
  /\ \A m \in done : m \in Message /\ pc[m] = "ended"

(* With interruption on, no two messages of one sender and chat are processed at once:
   the newer worker waits until the older one has left (completion.wait). *)
OneAtATime ==
  interrupt => \A m, n \in Message :
                 m # n /\ Scope(m) = Scope(n) => ~(pc[m] \in Processing /\ pc[n] \in Processing)

(* With interruption on, whatever is being processed can be interrupted by the next
   message: it is registered, or cancelled, or another one is about to cancel it. *)
Interruptible ==
  interrupt => \A m \in Message :
                 pc[m] \in Processing =>
                   \/ inFlight[Scope(m)] = m
                   \/ m \in cancelled
                   \/ \E n \in Message : pc[n] = "cancel" /\ previous[n] = m

(* With interruption on, no answer to a message comes after a newer user turn of the same
   history: the text an answer follows is the text it answers. *)
AnswersFollowTheirTurn ==
  interrupt => \A s \in Senders : \A i, j \in DOMAIN history[s] :
    (i < j /\ history[s][i].role = "user" /\ history[s][j].role = "assistant") =>
      \A k \in DOMAIN history[s] :
        (k < i /\ history[s][k].role = "user") => history[s][k].of # history[s][j].of

\* Every sender writes in one chat.
OneScope == \A m, n \in Message : Sender[m] = Sender[n] => Chat[m] = Chat[n]

(* What the model is given to answer a message alternates and, if the conversation had
   begun when its worker looked, has all the user said.  If not, the last turn is rewritten
   with the text of this message: what is lost is the text of messages that became turns
   in between.  With interruption on, and each sender in one chat, nothing is lost and the
   message to be answered is the last thing said (had_prior_history,
   normalize_cached_channel_turns). *)
Faithful(m) ==
  LET said == Said(history[Sender[m]], "user")
      kept == Said(prompt'[m], "user")
      last == prompt'[m][Len(prompt'[m])]
  IN  /\ Alternates(prompt'[m])
      /\ hadPrior[m] => kept = said
      /\ ToSet(said) \ ToSet(kept) \subseteq joined[m]
      /\ interrupt /\ OneScope =>
           kept = said /\ prompt'[m] # << >> /\ last.role = "user" /\ last.of[Len(last.of)] = m

PromptFaithful ==
  [][\A m \in Message : pc[m] = "read" /\ pc'[m] = "generate" => Faithful(m)]_vars

(* A message whose answer was interrupted is a user turn of its sender's history, for
   the next one to build on.  One given up before (Start) leaves no turn. *)
InterruptedTurnKept ==
  \A m \in Message :
    pc[m] = "interrupted" =>
      \E i \in DOMAIN history[Sender[m]] :
        history[Sender[m]][i].role = "user" /\ m \in ToSet(history[Sender[m]][i].of)

(* All messages that arrive are dealt with: their workers end and free their permits,
   unless a worker misses its notification (InFlightTaskCompletion::wait reads the flag
   before it registers) and waits for ever.  There is no other way to get stuck, and none
   without interruption. *)
MissedNotification == \E w \in Message : pc[w] = "waiting" /\ previous[w] \in done
EndsUnlessMissed ==
  <>[](\/ \A m \in Message : arrived >= m => pc[m] = "ended"
       \/ interrupt /\ MissedNotification)
=============================================================================
