------------------------------ MODULE AgentLoop ------------------------------
(***************************************************************************)
(* The interactive agent (run and run_tool_call_loop,                      *)
(* src/src/agent/loop_.rs): a conversation whose turns call the model, ask *)
(* the operator for approval of the tool calls it makes, execute them and  *)
(* hand the results back, until the model answers.                         *)
(*                                                                         *)
(* Texts, tool arguments and the system prompt, which is always first, are *)
(* left out: of a message the history keeps its role and which tool calls  *)
(* it makes or answers.  Messages with images are left out too.  Hooks,    *)
(* cancellation and progress reports are those of the channels, which pass *)
(* no approval manager (see ChannelDispatch).                              *)
(***************************************************************************)
EXTENDS Naturals, Sequences, FiniteSets

CONSTANTS
  Calls,          \* tool calls: a name with its arguments
  ToolOf,         \* the tool of each call
  Repeatable,     \* the calls allow_duplicate_tool_call lets through
  Unsliceable,    \* the calls whose arguments have a character across their 300th byte
  Responses,      \* the sequences of calls a response may hold
  AutoApprove,    \* auto_approve
  AlwaysAsk,      \* always_ask
  Turns,          \* how many lines the operator enters
  MaxIterations,  \* max_tool_iterations
  MaxHistory,     \* max_history_messages
  KeepRecent      \* COMPACTION_KEEP_RECENT_MESSAGES

Tools == {ToolOf[c] : c \in Calls}

ASSUME AgentAssumption ==
  /\ DOMAIN ToolOf = Calls
  /\ Repeatable \subseteq Calls
  /\ Unsliceable \subseteq Calls
  /\ Responses \subseteq Seq(Calls) \ {<< >>}
  /\ Turns \in Nat
  /\ MaxIterations \in Nat \ {0}
  /\ KeepRecent \in Nat \ {0}
  /\ MaxHistory \in Nat

VARIABLES
  turn,        \* lines entered
  history,     \* the conversation after the system prompt
  pc,          \* where the agent is
  iteration,   \* of the turn, from 1
  retried,     \* tool_parse_retry_used
  seen,        \* seen_tool_signatures
  native,      \* the provider returned the calls, and did not write them as text
  calls,       \* tool_calls of the response
  results,     \* ordered_results: what became of each call, or Pending
  todo,        \* executable_indices that have not been executed
  parallel,    \* allow_parallel_execution
  allowlist,   \* session_allowlist
  asked,       \* history: calls of the response the operator has approved
  always,      \* history: tools the operator has answered "always" for
  ran,         \* history: how often each call was executed in this turn
  spoken       \* history: messages of the conversation, counted

response == <<native, calls, results, todo, parallel, asked>>
session == <<allowlist, always>>
vars == <<turn, history, pc, iteration, retried, seen, response, session, ran, spoken>>

-----------------------------------------------------------------------------
Pending == "pending"

\* n is the number of calls of an assistant's message, or the call a tool's message has
\* the id of; of is the call whose result it holds.
Message(role, n, of) == [role |-> role, n |-> n, of |-> of]
Text(role) == Message(role, 0, 0)

Say(messages) ==
  /\ history' = history \o messages
  /\ spoken' = spoken + Len(messages)

Init ==
  /\ turn = 0
  /\ history = << >>
  /\ pc = "prompt"
  /\ iteration = 1
  /\ retried = FALSE
  /\ seen = {}
  /\ native = FALSE
  /\ calls = << >>
  /\ results = << >>
  /\ todo = {}
  /\ parallel = FALSE
  /\ allowlist = {}
  /\ asked = {}
  /\ always = {}
  /\ ran = [c \in Calls |-> 0]
  /\ spoken = 0

Enter ==
  /\ pc = "prompt"
  /\ turn < Turns
  /\ turn' = turn + 1
  /\ Say(<<Text("user")>>)
  /\ pc' = "model"
  /\ iteration' = 1
  /\ retried' = FALSE
  /\ seen' = {}
  /\ ran' = [c \in Calls |-> 0]
  /\ UNCHANGED <<response, session>>

\* "/clear"
Clear ==
  /\ pc = "prompt"
  /\ history # << >>
  /\ history' = << >>
  /\ spoken' = 0
  /\ UNCHANGED <<turn, pc, iteration, retried, seen, response, session, ran>>

\* The turn ends with an error: the loop reports it and reads the next line.
GiveUp == pc' = "prompt"

NextIteration ==
  IF iteration = MaxIterations
  THEN GiveUp /\ UNCHANGED iteration
  ELSE pc' = "model" /\ iteration' = iteration + 1

-----------------------------------------------------------------------------
(* The model.                                                              *)

ModelFails ==
  /\ pc = "model"
  /\ GiveUp
  /\ UNCHANGED <<turn, history, iteration, retried, seen, response, session, ran, spoken>>

\* No tool calls, or something that looks like one a second time.
ModelAnswers ==
  /\ pc = "model"
  /\ Say(<<Text("assistant")>>)
  /\ pc' = "compact"
  /\ UNCHANGED <<turn, iteration, retried, seen, response, session, ran>>

\* A call that cannot be parsed: once in a turn the model is told to repeat it.
ModelGarbles ==
  /\ pc = "model"
  /\ ~retried
  /\ retried' = TRUE
  /\ Say(<<Text("assistant"), Text("user")>>)
  /\ NextIteration
  /\ UNCHANGED <<turn, seen, response, session, ran>>

\* ApprovalManager::needs_approval under supervision; mutant: the allowlist comes first.
NeedsApproval_AllowlistFirst(tool) ==
  tool \notin allowlist /\ (tool \in AlwaysAsk \/ tool \notin AutoApprove)
NeedsApproval(tool) ==
  tool \in AlwaysAsk \/ tool \notin AutoApprove \cup allowlist

ModelCallsTools(response_calls, from_provider) ==
  /\ pc = "model"
  /\ native' = from_provider
  /\ calls' = response_calls
  /\ results' = [i \in DOMAIN response_calls |-> Pending]
  /\ todo' = {}
  /\ parallel' = \A i \in DOMAIN response_calls : ~NeedsApproval(ToolOf[response_calls[i]])
  /\ asked' = {}
  /\ pc' = "decide"
  /\ UNCHANGED <<turn, history, iteration, retried, seen, session, ran, spoken>>

-----------------------------------------------------------------------------
(* The calls of a response.                                                *)

\* The first call that is neither settled nor to be executed.
Undecided == {i \in DOMAIN calls : results[i] = Pending /\ i \notin todo}
IsNext(i) == i \in Undecided /\ \A k \in Undecided : i <= k

Settle(i, outcome) == results' = [results EXCEPT ![i] = outcome] /\ UNCHANGED todo

\* The operator says no.
Deny(i) ==
  /\ pc = "decide"
  /\ IsNext(i)
  /\ NeedsApproval(ToolOf[calls[i]])
  /\ Settle(i, "denied")
  /\ UNCHANGED <<turn, history, pc, iteration, retried, seen, native, calls, parallel, asked,
                 session, ran, spoken>>

\* Mutant: calls are compared within one response only.
Queue_ThisResponse(i) ==
  /\ IF calls[i] \notin Repeatable /\ \E k \in todo : calls[k] = calls[i]
     THEN Settle(i, "duplicate")
     ELSE todo' = todo \cup {i} /\ UNCHANGED results
  /\ UNCHANGED seen

\* A call is executed unless the turn has seen it before.
Queue(i) ==
  IF calls[i] \in seen /\ calls[i] \notin Repeatable
  THEN Settle(i, "duplicate") /\ UNCHANGED seen
  ELSE /\ todo' = todo \cup {i}
       /\ seen' = seen \cup ({calls[i]} \ Repeatable)
       /\ UNCHANGED results

\* No approval is needed, or the operator says yes, or always for this tool.
Pass(i, answer) ==
  LET tool == ToolOf[calls[i]] IN
  /\ pc = "decide"
  /\ IsNext(i)
  /\ (answer = "not asked") <=> ~NeedsApproval(tool)
  /\ asked' = IF answer = "not asked" THEN asked ELSE asked \cup {i}
  /\ allowlist' = IF answer = "always" THEN allowlist \cup {tool} ELSE allowlist
  /\ always' = IF answer = "always" THEN always \cup {tool} ELSE always
  /\ Queue(i)
  /\ UNCHANGED <<turn, history, pc, iteration, retried, native, calls, parallel, ran, spoken>>


DecisionsMade ==
  /\ pc = "decide"
  /\ Undecided = {}
  /\ pc' = "execute"
  /\ UNCHANGED <<turn, history, iteration, retried, seen, response, session, ran, spoken>>

\* execute_tools_parallel in any order, execute_tools_sequential in theirs.
Execute(i) ==
  /\ pc = "execute"
  /\ i \in todo
  /\ parallel \/ \A k \in todo : i <= k
  /\ calls[i] \notin Unsliceable
  /\ todo' = todo \ {i}
  /\ results' = [results EXCEPT ![i] = "ran"]
  /\ ran' = [ran EXCEPT ![calls[i]] = @ + 1]
  /\ UNCHANGED <<turn, history, pc, iteration, retried, seen, native, calls, parallel, asked,
                 session, spoken>>

\* execute_one_tool cuts the arguments it reports at a byte: inside a character that is a
\* panic, and the program is over.
Panic(i) ==
  /\ pc = "execute"
  /\ i \in todo
  /\ parallel \/ \A k \in todo : i <= k
  /\ calls[i] \in Unsliceable
  /\ pc' = "dead"
  /\ UNCHANGED <<turn, history, iteration, retried, seen, response, session, ran, spoken>>

\* The numbers of a set, in order.
InOrder(S) ==
  [k \in 1 .. Cardinality(S) |-> CHOOSE i \in S : Cardinality({j \in S : j <= i}) = k]

\* individual_results; mutant: those of executed calls come last.
Individual_AsTheyCome ==
  InOrder({i \in DOMAIN calls : results[i] \notin {Pending, "ran"}})
    \o InOrder({i \in DOMAIN calls : results[i] = "ran"})
Individual == InOrder({i \in DOMAIN calls : results[i] # Pending})

\* The call, followed by a message for each result or, for calls written as text, by one.
Exchange ==
  IF native
  THEN <<Message("assistant", Len(calls), 0)>>
         \o [k \in DOMAIN Individual |-> Message("tool", k, Individual[k])]
  ELSE <<Text("assistant"), Text("user")>>

Record ==
  /\ pc = "execute"
  /\ todo = {}
  /\ Say(Exchange)
  /\ NextIteration
  /\ UNCHANGED <<turn, retried, seen, response, session, ran>>

-----------------------------------------------------------------------------
(* After a turn that did not fail.                                         *)

\* Mutant: when the summary fails the messages are removed all the same.
Compacted_NoSummary(messages) ==
  IF Len(messages) <= MaxHistory \/ Len(messages) <= KeepRecent THEN messages
  ELSE SubSeq(messages, Len(messages) - KeepRecent + 1, Len(messages))

\* auto_compact_history: all but the most recent messages become a summary.
Compacted(messages) ==
  IF Len(messages) <= MaxHistory \/ Len(messages) <= KeepRecent THEN messages
  ELSE <<Text("summary")>> \o SubSeq(messages, Len(messages) - KeepRecent + 1, Len(messages))

\* trim_history
Trimmed(messages) ==
  IF Len(messages) <= MaxHistory THEN messages
  ELSE SubSeq(messages, Len(messages) - MaxHistory + 1, Len(messages))

Compact ==
  /\ pc = "compact"
  /\ history' = Trimmed(Compacted(history))
  /\ pc' = "prompt"
  /\ UNCHANGED <<turn, iteration, retried, seen, response, session, ran, spoken>>

-----------------------------------------------------------------------------
\* The steps of a turn.
Work ==
  \/ ModelFails \/ ModelAnswers \/ ModelGarbles
  \/ \E r \in Responses, from_provider \in BOOLEAN : ModelCallsTools(r, from_provider)
  \/ \E i \in DOMAIN calls :
       \/ Deny(i)
       \/ \E answer \in {"not asked", "yes", "always"} : Pass(i, answer)
       \/ Execute(i) \/ Panic(i)
  \/ DecisionsMade \/ Record \/ Compact

Next == Enter \/ Clear \/ Work

Spec == Init /\ [][Next]_vars

(* The program goes on by itself between its waits.  Nothing is assumed of what it waits
   for: run waits for the model, the operator and a tool without a time limit. *)
FairSpec ==
  Spec /\ WF_vars(\/ \E i \in DOMAIN calls : Pass(i, "not asked")
                  \/ DecisionsMade \/ Record \/ Compact)

AwaitsModel == pc = "model"
AwaitsOperator ==
  pc = "decide" /\ \E i \in DOMAIN calls : IsNext(i) /\ NeedsApproval(ToolOf[calls[i]])
AwaitsTool == pc = "execute" /\ todo # {}

-----------------------------------------------------------------------------
(* Properties.                                                             *)

(* The turn, the calls of a response and what became of them stay within their types; the
   messages themselves are what ResultsFollowCalls is about. *)
AgentTypeOK ==
  /\ turn \in 0 .. Turns
  /\ pc \in {"prompt", "model", "decide", "execute", "compact", "dead"}
  /\ iteration \in 1 .. MaxIterations
  /\ retried \in BOOLEAN /\ native \in BOOLEAN /\ parallel \in BOOLEAN
  /\ seen \subseteq Calls \ Repeatable
  /\ calls \in Seq(Calls)
  /\ DOMAIN results = DOMAIN calls
  /\ \A i \in DOMAIN results : results[i] \in {Pending, "denied", "duplicate", "ran"}
  /\ todo \subseteq DOMAIN calls
  /\ \A i \in todo : results[i] = Pending
  /\ pc \in {"prompt", "model", "compact"} => todo = {}
  /\ allowlist \subseteq Tools
  /\ asked \subseteq DOMAIN calls
  /\ ran \in [Calls -> Nat]

(* A tool that must always be asked for runs only in a call the operator approved, and any
   other that is not approved by configuration only then or after an "always": across the
   calls of a response, the iterations and the turns (needs_approval, record_decision). *)
ApprovalRespected ==
  \A i \in DOMAIN calls :
    LET tool == ToolOf[calls[i]] IN
    results[i] = "ran" =>
      /\ tool \in AlwaysAsk => i \in asked
      /\ tool \notin AutoApprove => i \in asked \/ tool \in always

(* No call is executed twice in a turn, in whatever response it is repeated, but for those
   that are let through (seen_tool_signatures). *)
NoRepeats == \A c \in Calls \ Repeatable : ran[c] <= 1

(* The model is shown the results of a message's calls right after it, one for each and
   each under the id of its own call.  Only a compaction cuts results off from their calls,
   and then they are the first messages after the summary. *)
ResultsFollowCalls ==
  /\ \A p \in DOMAIN history : \A k \in 1 .. history[p].n :
       history[p].role = "assistant" =>
         p + k \in DOMAIN history /\ history[p + k] = Message("tool", k, k)
  /\ \A q \in DOMAIN history :
       history[q].role = "tool" =>
         \/ \E p \in DOMAIN history : /\ history[p].role = "assistant"
                                     /\ p + history[q].n = q
                                     /\ history[q].n <= history[p].n
         \/ \A k \in 1 .. q : history[k].role \in {"summary", "tool"}

(* What has left the conversation is in a summary at its head, unless the limit leaves no
   room for one (auto_compact_history before trim_history). *)
NothingForgotten ==
  MaxHistory > KeepRecent =>
    Len(history) = spoken \/ (history # << >> /\ history[1].role = "summary")

=============================================================================
