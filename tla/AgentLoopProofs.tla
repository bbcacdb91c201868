--------------------------- MODULE AgentLoopProofs ---------------------------
(* Proofs about AgentLoop: no tool runs without the approval it needs, no   *)
(* call is executed twice in a turn, results follow their calls and nothing *)
(* of the conversation is forgotten, for any tools, calls, responses,       *)
(* configuration and numbers of turns and iterations.                       *)
EXTENDS AgentLoop, FiniteSetTheorems, TLAPS

(* The turn and the calls of a response stay within their types: what becomes of the calls
   is recorded for the calls of this response only. *)
THEOREM TypeCorrect == Spec => []AgentTypeOK
<1>1. Init => AgentTypeOK
  <2> SUFFICES ASSUME Init PROVE AgentTypeOK
    OBVIOUS
  <2>1. turn \in 0 .. Turns /\ iteration \in 1 .. MaxIterations
    BY AgentAssumption DEF Init
  <2>2. ran \in [Calls -> Nat]
    BY DEF Init
  <2>3. DOMAIN calls = {} /\ DOMAIN results = {} /\ calls \in Seq(Calls)
    BY DEF Init
  <2>4. retried \in BOOLEAN /\ native \in BOOLEAN /\ parallel \in BOOLEAN
    BY DEF Init
  <2>5. QED
    BY <2>1, <2>2, <2>3, <2>4 DEF Init, AgentTypeOK
<1>2. AgentTypeOK /\ [Next]_vars => AgentTypeOK'
  <2> SUFFICES ASSUME AgentTypeOK, [Next]_vars PROVE AgentTypeOK'
    OBVIOUS
  <2> USE AgentAssumption DEF AgentTypeOK
  <2>0. \A i \in DOMAIN calls : calls[i] \in Calls /\ ToolOf[calls[i]] \in Tools
    BY DEF Tools
  <2>1. CASE Enter \/ Clear \/ ModelFails \/ ModelAnswers \/ ModelGarbles
    <3>1. CASE Enter
      <4>1. ran' \in [Calls -> Nat]
        BY <3>1 DEF Enter
      <4>2. turn' \in 0 .. Turns /\ iteration' \in 1 .. MaxIterations
        BY <3>1 DEF Enter
      <4>3. QED  BY <3>1, <4>1, <4>2 DEF Enter, response, session
    <3>2. CASE Clear
      BY <3>2 DEF Clear, response, session
    <3>3. CASE ModelFails \/ ModelAnswers
      BY <3>3 DEF ModelFails, ModelAnswers, GiveUp, response, session
    <3>4. CASE ModelGarbles
      BY <3>4 DEF ModelGarbles, NextIteration, GiveUp, response, session
    <3>5. QED  BY <2>1, <3>1, <3>2, <3>3, <3>4
  <2>2. ASSUME NEW r \in Responses, NEW p \in BOOLEAN, ModelCallsTools(r, p) PROVE AgentTypeOK'
    <3>1. r \in Seq(Calls)
      OBVIOUS
    <3>2. parallel' \in BOOLEAN
      BY <2>2 DEF ModelCallsTools
    <3>3. QED
      BY <2>2, <3>1, <3>2 DEF ModelCallsTools, session
  <2>3. ASSUME NEW i \in DOMAIN calls, Deny(i) PROVE AgentTypeOK'
    BY <2>3 DEF Deny, Settle, IsNext, Undecided, session
  <2>4. ASSUME NEW i \in DOMAIN calls, NEW a \in {"not asked", "yes", "always"}, Pass(i, a)
        PROVE AgentTypeOK'
    <3>1. /\ UNCHANGED <<turn, pc, iteration, retried, native, calls, parallel, ran>>
          /\ pc = "decide"
          /\ results[i] = Pending /\ i \notin todo
          /\ asked' \subseteq asked \cup {i}
          /\ allowlist' \subseteq allowlist \cup {ToolOf[calls[i]]}
      BY <2>4 DEF Pass, IsNext, Undecided
    <3>2. CASE Settle(i, "duplicate") /\ UNCHANGED seen
      BY <2>0, <3>1, <3>2 DEF Settle
    <3>3. CASE /\ todo' = todo \cup {i}
               /\ seen' = seen \cup ({calls[i]} \ Repeatable)
               /\ UNCHANGED results
      <4>1. todo' \subseteq DOMAIN calls /\ seen' \subseteq Calls \ Repeatable
        BY <2>0, <3>3
      <4>2. \A k \in todo' : results'[k] = Pending
        BY <3>1, <3>3
      <4>3. asked' \subseteq DOMAIN calls /\ allowlist' \subseteq Tools
        BY <2>0, <3>1
      <4>4. QED  BY <3>1, <3>3, <4>1, <4>2, <4>3
    <3>4. QED  BY <2>4, <3>2, <3>3 DEF Pass, Queue
  <2>5. ASSUME NEW i \in DOMAIN calls, Execute(i) PROVE AgentTypeOK'
    <3>1. calls[i] \in Calls /\ ran' = [ran EXCEPT ![calls[i]] = ran[calls[i]] + 1]
      BY <2>0, <2>5 DEF Execute
    <3>2. ran' \in [Calls -> Nat]
      BY <3>1
    <3>3. QED
      BY <2>5, <3>2 DEF Execute, session
  <2>p. ASSUME NEW i \in DOMAIN calls, Panic(i) PROVE AgentTypeOK'
    BY <2>p DEF Panic, response, session
  <2>6. CASE DecisionsMade \/ Record \/ Compact
    BY <2>6 DEF DecisionsMade, Record, Compact, NextIteration, GiveUp, response, session
  <2>7. CASE UNCHANGED vars
    BY <2>7 DEF vars, response, session
  <2>8. QED
    BY <2>1, <2>2, <2>3, <2>4, <2>5, <2>6, <2>p, <2>7 DEF Next, Work
<1>3. QED
  BY <1>1, <1>2, PTL DEF Spec

-----------------------------------------------------------------------------
(* Why approvals hold: whatever waits to be executed has been approved      *)
(* already, and a tool enters the allowlist only with an "always".          *)
Approved(i) ==
  /\ ToolOf[calls[i]] \in AlwaysAsk => i \in asked
  /\ ToolOf[calls[i]] \notin AutoApprove => i \in asked \/ ToolOf[calls[i]] \in always

ApprovalInv ==
  /\ allowlist \subseteq always
  /\ \A i \in DOMAIN calls : i \in todo \/ results[i] = "ran" => Approved(i)

(* A tool that must always be asked for runs only in a call the operator approved, any other
   that is not approved by configuration only then or after an "always" (needs_approval,
   record_decision). *)
THEOREM ApprovalRespectedInvariant == Spec => []ApprovalRespected
<1>1. Init => ApprovalInv
  BY DEF Init, ApprovalInv
<1>2. AgentTypeOK /\ ApprovalInv /\ [Next]_vars => ApprovalInv'
  <2> SUFFICES ASSUME AgentTypeOK, ApprovalInv, [Next]_vars PROVE ApprovalInv'
    OBVIOUS
  <2> USE DEF ApprovalInv, Approved
  <2>1. CASE Enter \/ Clear \/ ModelFails \/ ModelAnswers \/ ModelGarbles
    BY <2>1 DEF Enter, Clear, ModelFails, ModelAnswers, ModelGarbles, response, session
  <2>2. ASSUME NEW r \in Responses, NEW p \in BOOLEAN, ModelCallsTools(r, p) PROVE ApprovalInv'
    BY <2>2 DEF ModelCallsTools, session, Pending
  <2>3. ASSUME NEW i \in DOMAIN calls, Deny(i) PROVE ApprovalInv'
    BY <2>3 DEF Deny, Settle, session, AgentTypeOK
  <2>4. ASSUME NEW i \in DOMAIN calls, NEW a \in {"not asked", "yes", "always"}, Pass(i, a)
        PROVE ApprovalInv'
    <3>1. /\ calls' = calls
          /\ asked \subseteq asked'
          /\ always \subseteq always'
          /\ allowlist' \subseteq always'
      BY <2>4 DEF Pass
    <3>2. \A k \in DOMAIN calls : k \in todo' \/ results'[k] = "ran" =>
            k = i \/ k \in todo \/ results[k] = "ran"
      BY <2>4 DEF Pass, Queue, Settle, AgentTypeOK
    <3>3. CASE a = "not asked"
      <4>1. ToolOf[calls[i]] \notin AlwaysAsk
        BY <2>4, <3>3 DEF Pass, NeedsApproval
      <4>2. ToolOf[calls[i]] \in AutoApprove \cup always'
        BY <2>4, <3>1, <3>3 DEF Pass, NeedsApproval
      <4>3. QED  BY <3>1, <3>2, <4>1, <4>2
    <3>4. CASE a # "not asked"
      <4>1. i \in asked'
        BY <2>4, <3>4 DEF Pass
      <4>2. QED  BY <3>1, <3>2, <4>1
    <3>5. QED  BY <3>3, <3>4
  <2>5. ASSUME NEW i \in DOMAIN calls, Execute(i) PROVE ApprovalInv'
    BY <2>5 DEF Execute, session, AgentTypeOK
  <2>p. ASSUME NEW i \in DOMAIN calls, Panic(i) PROVE ApprovalInv'
    BY <2>p DEF Panic, response, session
  <2>6. CASE DecisionsMade \/ Record \/ Compact
    BY <2>6 DEF DecisionsMade, Record, Compact, response, session
  <2>7. CASE UNCHANGED vars
    BY <2>7 DEF vars, response, session
  <2>8. QED
    BY <2>1, <2>2, <2>3, <2>4, <2>5, <2>6, <2>p, <2>7 DEF Next, Work
<1>3. ApprovalInv => ApprovalRespected
  BY DEF ApprovalInv, Approved, ApprovalRespected
<1>4. QED
  BY <1>1, <1>2, <1>3, TypeCorrect, PTL DEF Spec

-----------------------------------------------------------------------------
(* Why no call is repeated: what waits to be executed or has been is in the *)
(* set of signatures, so it is not queued again, in this response or later. *)
RepeatInv ==
  /\ ran \in [Calls -> Nat]
  /\ \A c \in Calls \ Repeatable :
       /\ ran[c] \in {0, 1}
       /\ ran[c] = 1 => c \in seen
  /\ \A i \in todo : calls[i] \notin Repeatable =>
       /\ calls[i] \in seen
       /\ ran[calls[i]] = 0
       /\ \A k \in todo : calls[k] = calls[i] => k = i

(* No call is executed twice in a turn but for those that are let through
   (seen_tool_signatures). *)
THEOREM NoRepeatsInvariant == Spec => []NoRepeats
<1>1. Init => RepeatInv
  BY DEF Init, RepeatInv
<1>2. AgentTypeOK /\ RepeatInv /\ [Next]_vars => RepeatInv'
  <2> SUFFICES ASSUME AgentTypeOK, RepeatInv, [Next]_vars PROVE RepeatInv'
    OBVIOUS
  <2>0. \A i \in DOMAIN calls : calls[i] \in Calls
    BY DEF AgentTypeOK
  <2> USE DEF RepeatInv
  <2>1. CASE Enter
    BY <2>1 DEF Enter, response, AgentTypeOK
  <2>2. CASE Clear \/ ModelFails \/ ModelAnswers \/ ModelGarbles
    BY <2>2 DEF Clear, ModelFails, ModelAnswers, ModelGarbles, response
  <2>3. ASSUME NEW r \in Responses, NEW p \in BOOLEAN, ModelCallsTools(r, p) PROVE RepeatInv'
    BY <2>3 DEF ModelCallsTools
  <2>4. ASSUME NEW i \in DOMAIN calls, Deny(i) PROVE RepeatInv'
    BY <2>4 DEF Deny, Settle
  <2>5. ASSUME NEW i \in DOMAIN calls, NEW a \in {"not asked", "yes", "always"}, Pass(i, a)
        PROVE RepeatInv'
    <3>1. calls' = calls /\ ran' = ran
      BY <2>5 DEF Pass
    <3>2. CASE calls[i] \in seen /\ calls[i] \notin Repeatable
      <4>1. todo' = todo /\ seen' = seen
        BY <2>5, <3>2 DEF Pass, Queue, Settle
      <4>2. QED  BY <3>1, <4>1
    <3>3. CASE ~(calls[i] \in seen /\ calls[i] \notin Repeatable)
      <4>1. todo' = todo \cup {i} /\ seen' = seen \cup ({calls[i]} \ Repeatable)
        BY <2>5, <3>3 DEF Pass, Queue
      <4>2. calls[i] \notin Repeatable =>
              /\ ran[calls[i]] = 0
              /\ \A k \in todo : calls[k] # calls[i]
        BY <2>0, <3>3
      <4>3. QED  BY <3>1, <4>1, <4>2
    <3>4. QED  BY <3>2, <3>3
  <2>6. ASSUME NEW i \in DOMAIN calls, Execute(i) PROVE RepeatInv'
    <3>1. /\ calls' = calls
          /\ seen' = seen
          /\ i \in todo
          /\ todo' = todo \ {i}
          /\ ran' = [ran EXCEPT ![calls[i]] = ran[calls[i]] + 1]
      BY <2>6 DEF Execute
    <3>2. calls[i] \in Calls
      BY <2>0
    <3>3. ran' \in [Calls -> Nat]
      BY <3>1, <3>2
    <3>4. \A c \in Calls \ Repeatable : ran'[c] \in {0, 1} /\ (ran'[c] = 1 => c \in seen')
      BY <3>1, <3>2
    <3>5. \A k \in todo' : calls[k] \notin Repeatable =>
            calls[k] \in seen' /\ ran'[calls[k]] = 0
      BY <2>0, <3>1, <3>2 DEF AgentTypeOK
    <3>6. QED  BY <3>1, <3>3, <3>4, <3>5
  <2>p. ASSUME NEW i \in DOMAIN calls, Panic(i) PROVE RepeatInv'
    BY <2>p DEF Panic, response
  <2>7. CASE DecisionsMade \/ Record \/ Compact
    BY <2>7 DEF DecisionsMade, Record, Compact, response
  <2>8. CASE UNCHANGED vars
    BY <2>8 DEF vars, response
  <2>9. QED
    BY <2>1, <2>2, <2>3, <2>4, <2>5, <2>6, <2>p, <2>7, <2>8 DEF Next, Work
<1>3. RepeatInv => NoRepeats
  BY DEF RepeatInv, NoRepeats
<1>4. QED
  BY <1>1, <1>2, <1>3, TypeCorrect, PTL DEF Spec

-----------------------------------------------------------------------------
(* The conversation.                                                       *)

Talk == [role : {"user", "assistant", "tool", "summary"}, n : Nat, of : Nat]

\* Each call of the message at p has its result right after it.
AnsweredFrom(h, p) ==
  \A k \in 1 .. h[p].n : p + k \in DOMAIN h /\ h[p + k] = Message("tool", k, k)

\* The result at q belongs to the message at p.
ResultOf(h, p, q) == h[p].role = "assistant" /\ p + h[q].n = q /\ h[q].n <= h[p].n

\* Nothing but results and a summary comes before q.
Cut(h, q) == \A k \in 1 .. q : h[k].role \in {"summary", "tool"}

\* What ResultsFollowCalls says of the history, of any sequence of messages ...
Follows(h) ==
  /\ \A p \in DOMAIN h : h[p].role = "assistant" => AnsweredFrom(h, p)
  /\ \A q \in DOMAIN h : h[q].role = "tool" => (\E p \in DOMAIN h : ResultOf(h, p, q)) \/ Cut(h, q)

\* ... and of one nothing was cut off.
Complete(h) ==
  /\ \A p \in DOMAIN h : h[p].role = "assistant" => AnsweredFrom(h, p)
  /\ \A q \in DOMAIN h : h[q].role = "tool" => \E p \in DOMAIN h : ResultOf(h, p, q)

\* The number of a message is a natural number.
LEMMA TalkNumbered ==
  ASSUME NEW h \in Seq(Talk), NEW i \in 1 .. Len(h)
  PROVE  h[i].n \in Nat
<1>1. h[i] \in Talk
  OBVIOUS
<1>2. QED  BY <1>1 DEF Talk

\* Places in a sequence that is put behind another.
LEMMA Shifted ==
  ASSUME NEW a \in Nat, NEW p \in Nat, NEW n \in Nat
  PROVE  (a + p) + n = a + (p + n)
  OBVIOUS

\* The results between a cut and the last result of a message are among its results.
LEMMA Between ==
  ASSUME NEW c \in Nat, NEW q \in Nat, NEW k \in 1 .. q, NEW p \in Nat, NEW of \in Nat,
         NEW n \in Nat, p <= c, p + of = c + q, of <= n
  PROVE  c + k - p \in 1 .. n /\ p + (c + k - p) = c + k
  OBVIOUS

\* A conversation stays in order when complete messages are added to it ...
LEMMA FollowsSay ==
  ASSUME NEW h \in Seq(Talk), NEW g \in Seq(Talk), Follows(h), Complete(g)
  PROVE  h \o g \in Seq(Talk) /\ Follows(h \o g)
<1> DEFINE a == Len(h)
           f == h \o g
<1>1. /\ f \in Seq(Talk) /\ a \in Nat /\ Len(g) \in Nat /\ Len(f) = a + Len(g)
      /\ \A i \in 1 .. a : f[i] = h[i]
      /\ \A i \in 1 .. Len(g) : f[a + i] = g[i]
      /\ DOMAIN h = 1 .. a /\ DOMAIN g = 1 .. Len(g) /\ DOMAIN f = 1 .. a + Len(g)
  OBVIOUS
<1>2. \A i \in 1 .. a : h[i].n \in Nat
  BY TalkNumbered
<1>3. \A i \in 1 .. Len(g) : g[i].n \in Nat
  BY TalkNumbered
<1> HIDE DEF a, f
<1>4. \A i \in DOMAIN f : i \in 1 .. a \/ (i - a \in 1 .. Len(g) /\ i = a + (i - a))
  BY <1>1
<1>5. ASSUME NEW p \in DOMAIN f, f[p].role = "assistant", NEW k \in 1 .. f[p].n
      PROVE  p + k \in DOMAIN f /\ f[p + k] = Message("tool", k, k)
  <2>1. CASE p \in 1 .. a
    <3>1. h[p].role = "assistant" /\ k \in 1 .. h[p].n
      BY <1>1, <1>5, <2>1
    <3>2. p + k \in 1 .. a /\ h[p + k] = Message("tool", k, k)
      BY <1>1, <2>1, <3>1 DEF Follows, AnsweredFrom
    <3>3. QED  BY <1>1, <3>2
  <2>2. CASE p \notin 1 .. a
    <3> DEFINE b == p - a
    <3>1. b \in 1 .. Len(g) /\ p = a + b
      BY <1>4, <2>2
    <3>2. f[p] = g[b]
      BY <1>1, <3>1
    <3> HIDE DEF b
    <3>3. b + k \in 1 .. Len(g) /\ g[b + k] = Message("tool", k, k)
      BY <1>1, <1>5, <3>1, <3>2 DEF Complete, AnsweredFrom
    <3>4. p + k = a + (b + k)
      BY <1>1, <1>3, <3>1, <3>2
    <3>5. QED  BY <1>1, <3>3, <3>4
  <2>3. QED  BY <2>1, <2>2
<1>6. ASSUME NEW q \in DOMAIN f, f[q].role = "tool"
      PROVE  (\E p \in DOMAIN f : ResultOf(f, p, q)) \/ Cut(f, q)
  <2>1. CASE q \in 1 .. a
    <3>1. (\E p \in DOMAIN h : ResultOf(h, p, q)) \/ Cut(h, q)
      BY <1>1, <1>6, <2>1 DEF Follows
    <3>2. ASSUME NEW p \in DOMAIN h, ResultOf(h, p, q) PROVE p \in DOMAIN f /\ ResultOf(f, p, q)
      BY <1>1, <2>1, <3>2 DEF ResultOf
    <3>3. Cut(h, q) => Cut(f, q)
      BY <1>1, <2>1 DEF Cut
    <3>4. QED  BY <3>1, <3>2, <3>3
  <2>2. CASE q \notin 1 .. a
    <3> DEFINE b == q - a
    <3>1. b \in 1 .. Len(g) /\ q = a + b
      BY <1>4, <2>2
    <3>2. f[q] = g[b]
      BY <1>1, <3>1
    <3> HIDE DEF b
    <3>3. PICK p \in 1 .. Len(g) : ResultOf(g, p, b)
      BY <1>1, <1>6, <3>1, <3>2 DEF Complete
    <3>4. a + p \in DOMAIN f /\ f[a + p] = g[p]
      BY <1>1
    <3>5. ResultOf(f, a + p, q)
      <4>1. p + g[b].n = b /\ g[p].role = "assistant" /\ g[b].n <= g[p].n
        BY <3>3 DEF ResultOf
      <4>2. (a + p) + g[b].n = a + b
        <5>1. a \in Nat /\ p \in Nat /\ b \in Nat /\ g[b].n \in Nat
          BY <1>1, <1>3, <3>1, <3>3
        <5>2. (a + p) + g[b].n = a + (p + g[b].n)
          BY <5>1, Shifted
        <5>3. QED  BY <4>1, <5>2
      <4>3. QED  BY <3>1, <3>2, <3>4, <4>1, <4>2 DEF ResultOf
    <3>6. QED  BY <3>4, <3>5
  <2>3. QED  BY <2>1, <2>2
<1>7. Follows(f)
  BY <1>5, <1>6 DEF Follows, AnsweredFrom
<1>8. QED  BY <1>1, <1>7 DEF f

\* ... when its oldest messages are cut off ...
LEMMA FollowsCut ==
  ASSUME NEW h \in Seq(Talk), Follows(h), NEW c \in Nat, c <= Len(h)
  PROVE  /\ SubSeq(h, c + 1, Len(h)) \in Seq(Talk)
         /\ Len(SubSeq(h, c + 1, Len(h))) = Len(h) - c
         /\ Follows(SubSeq(h, c + 1, Len(h)))
<1> DEFINE g == SubSeq(h, c + 1, Len(h))
<1>1. /\ g \in Seq(Talk) /\ Len(h) \in Nat /\ Len(g) = Len(h) - c
      /\ DOMAIN h = 1 .. Len(h) /\ DOMAIN g = 1 .. Len(h) - c
      /\ \A i \in 1 .. Len(h) - c : g[i] = h[c + i] /\ c + i \in 1 .. Len(h)
  OBVIOUS
<1>2. \A i \in 1 .. Len(h) : h[i].n \in Nat
  BY TalkNumbered
<1> HIDE DEF g
<1>3. ASSUME NEW p \in DOMAIN g, g[p].role = "assistant", NEW k \in 1 .. g[p].n
      PROVE  p + k \in DOMAIN g /\ g[p + k] = Message("tool", k, k)
  <2>1. c + p \in 1 .. Len(h) /\ g[p] = h[c + p] /\ g[p].n \in Nat
    BY <1>1, <1>2
  <2>2. (c + p) + k \in 1 .. Len(h) /\ h[(c + p) + k] = Message("tool", k, k)
    BY <1>1, <1>3, <2>1 DEF Follows, AnsweredFrom
  <2>3. p \in Nat /\ k \in Nat /\ (c + p) + k = c + (p + k)
    BY <1>1, <2>1
  <2>4. p + k \in 1 .. Len(h) - c
    BY <1>1, <2>2, <2>3
  <2>5. QED  BY <1>1, <2>2, <2>3, <2>4
<1>4. ASSUME NEW q \in DOMAIN g, g[q].role = "tool"
      PROVE  (\E p \in DOMAIN g : ResultOf(g, p, q)) \/ Cut(g, q)
  <2>1. c + q \in 1 .. Len(h) /\ g[q] = h[c + q] /\ g[q].n \in Nat /\ q \in 1 .. Len(h) - c
    BY <1>1, <1>2
  <2>2. (\E p \in DOMAIN h : ResultOf(h, p, c + q)) \/ Cut(h, c + q)
    BY <1>1, <1>4, <2>1 DEF Follows
  <2>3. CASE Cut(h, c + q)
    <3>1. \A k \in 1 .. q : k \in 1 .. Len(h) - c /\ c + k \in 1 .. c + q
      BY <1>1, <2>1
    <3>2. QED  BY <1>1, <2>3, <3>1 DEF Cut
  <2>4. ASSUME NEW p \in DOMAIN h, ResultOf(h, p, c + q), p > c
        PROVE  \E x \in DOMAIN g : ResultOf(g, x, q)
    <3> DEFINE x == p - c
    <3>1. x \in 1 .. Len(h) - c /\ c + x = p
      BY <1>1, <2>4
    <3>2. g[x] = h[p]
      BY <1>1, <3>1
    <3>3. x + g[q].n = q
      <4>1. p + h[c + q].n = c + q
        BY <2>4 DEF ResultOf
      <4>2. p \in Nat /\ q \in Nat /\ g[q].n \in Nat /\ p + g[q].n = c + q
        BY <1>1, <2>1, <4>1
      <4>3. QED  BY <4>2
    <3>4. ResultOf(g, x, q)
      BY <2>1, <2>4, <3>2, <3>3 DEF ResultOf
    <3>5. QED  BY <1>1, <3>1, <3>4
  <2>5. ASSUME NEW p \in DOMAIN h, ResultOf(h, p, c + q), p <= c
        PROVE  Cut(g, q)
    <3>1. /\ h[p].role = "assistant" /\ p + h[c + q].n = c + q /\ h[c + q].n <= h[p].n
          /\ p \in 1 .. Len(h) /\ h[p].n \in Nat /\ h[c + q].n \in Nat
      BY <1>1, <1>2, <2>1, <2>5 DEF ResultOf
    <3>2. ASSUME NEW k \in 1 .. q PROVE g[k].role = "tool"
      <4> DEFINE m == c + k - p
      <4>1. m \in 1 .. h[p].n /\ p + m = c + k /\ k \in 1 .. Len(h) - c
        <5>1. p \in Nat /\ q \in Nat /\ k \in 1 .. Len(h) - c
          BY <1>1, <2>1, <3>1
        <5>2. QED  BY <2>5, <3>1, <5>1, Between
      <4> HIDE DEF m
      <4>2. h[p + m] = Message("tool", m, m)
        BY <1>1, <3>1, <4>1 DEF Follows, AnsweredFrom
      <4>3. g[k] = Message("tool", m, m)
        BY <1>1, <4>1, <4>2
      <4>4. QED  BY <4>3 DEF Message
    <3>3. QED  BY <3>2 DEF Cut
  <2>6. QED
    <3>1. \A p \in DOMAIN h : p > c \/ p <= c
      BY <1>1
    <3>2. QED  BY <2>2, <2>3, <2>4, <2>5, <3>1
<1>5. Follows(g)
  BY <1>3, <1>4 DEF Follows, AnsweredFrom
<1>6. QED  BY <1>1, <1>5 DEF g

\* ... and when a summary takes their place.
LEMMA FollowsSummary ==
  ASSUME NEW h \in Seq(Talk), Follows(h)
  PROVE  /\ <<Text("summary")>> \o h \in Seq(Talk)
         /\ Len(<<Text("summary")>> \o h) = Len(h) + 1
         /\ (<<Text("summary")>> \o h)[1].role = "summary"
         /\ Follows(<<Text("summary")>> \o h)
<1> DEFINE s == Text("summary")
           f == <<s>> \o h
<1>1. s \in Talk /\ s.role = "summary"
  BY DEF Talk, Text, Message
<1> HIDE DEF s
<1>2. /\ f \in Seq(Talk) /\ Len(h) \in Nat /\ Len(f) = Len(h) + 1 /\ f[1] = s
      /\ DOMAIN h = 1 .. Len(h) /\ DOMAIN f = 1 .. Len(h) + 1
      /\ \A i \in 1 .. Len(h) : f[i + 1] = h[i]
  BY <1>1
<1>3. \A i \in 1 .. Len(h) : h[i].n \in Nat
  BY TalkNumbered
<1> HIDE DEF f
<1>4. ASSUME NEW p \in DOMAIN f, f[p].role = "assistant", NEW k \in 1 .. f[p].n
      PROVE  p + k \in DOMAIN f /\ f[p + k] = Message("tool", k, k)
  <2> DEFINE b == p - 1
  <2>1. b \in 1 .. Len(h) /\ p = b + 1
    BY <1>1, <1>2, <1>4
  <2>2. f[p] = h[b]
    BY <1>2, <2>1
  <2> HIDE DEF b
  <2>3. b + k \in 1 .. Len(h) /\ h[b + k] = Message("tool", k, k)
    BY <1>2, <1>4, <2>1, <2>2 DEF Follows, AnsweredFrom
  <2>4. p + k = (b + k) + 1
    BY <1>3, <2>1, <2>2
  <2>5. QED  BY <1>2, <2>3, <2>4
<1>5. ASSUME NEW q \in DOMAIN f, f[q].role = "tool"
      PROVE  (\E p \in DOMAIN f : ResultOf(f, p, q)) \/ Cut(f, q)
  <2> DEFINE b == q - 1
  <2>1. b \in 1 .. Len(h) /\ q = b + 1
    <3>1. q # 1
      BY <1>1, <1>2, <1>5
    <3>2. QED  BY <1>2, <3>1
  <2>2. f[q] = h[b]
    BY <1>2, <2>1
  <2> HIDE DEF b
  <2>3. (\E p \in DOMAIN h : ResultOf(h, p, b)) \/ Cut(h, b)
    BY <1>2, <1>5, <2>1, <2>2 DEF Follows
  <2>4. ASSUME NEW p \in 1 .. Len(h), ResultOf(h, p, b)
        PROVE  p + 1 \in DOMAIN f /\ ResultOf(f, p + 1, q)
    <3>1. p + 1 \in DOMAIN f /\ f[p + 1] = h[p]
      BY <1>2
    <3>2. p + h[b].n = b /\ p \in Nat /\ b \in Nat /\ h[b].n \in Nat
      BY <1>2, <1>3, <2>1, <2>4 DEF ResultOf
    <3>3. (p + 1) + f[q].n = q
      BY <2>1, <2>2, <3>2
    <3>4. QED  BY <2>2, <2>4, <3>1, <3>3 DEF ResultOf
  <2>5. Cut(h, b) => Cut(f, q)
    <3>1. \A k \in 1 .. q : k = 1 \/ (k - 1 \in 1 .. b /\ k = (k - 1) + 1)
      BY <1>2, <2>1
    <3>2. \A k \in 1 .. b : f[k + 1] = h[k]
      BY <1>2, <2>1
    <3>3. QED  BY <1>1, <1>2, <3>1, <3>2 DEF Cut
  <2>6. QED  BY <1>2, <2>3, <2>4, <2>5
<1>6. Follows(f)
  BY <1>4, <1>5 DEF Follows, AnsweredFrom
<1>7. QED  BY <1>1, <1>2, <1>6 DEF f, s

-----------------------------------------------------------------------------
\* The numbers of a full set are those from one up.
LEMMA InOrderOfAll ==
  ASSUME NEW n \in Nat
  PROVE  InOrder(1 .. n) = [k \in 1 .. n |-> k]
<1>1. Cardinality(1 .. n) = n
  BY FS_Interval
<1>2. ASSUME NEW i \in 1 .. n PROVE Cardinality({j \in 1 .. n : j <= i}) = i
  <2>1. {j \in 1 .. n : j <= i} = 1 .. i
    OBVIOUS
  <2>2. Cardinality(1 .. i) = i
    BY FS_Interval
  <2>3. QED  BY <2>1, <2>2
<1>3. ASSUME NEW k \in 1 .. n
      PROVE  (CHOOSE i \in 1 .. n : Cardinality({j \in 1 .. n : j <= i}) = k) = k
  BY <1>2
<1>4. QED  BY <1>1, <1>3 DEF InOrder

\* Once every call is settled there is a result for each.
LEMMA IndividualIsAll ==
  ASSUME calls \in Seq(Calls), \A i \in DOMAIN calls : results[i] # Pending
  PROVE  Individual = [k \in 1 .. Len(calls) |-> k]
<1>1. {i \in DOMAIN calls : results[i] # Pending} = 1 .. Len(calls) /\ Len(calls) \in Nat
  OBVIOUS
<1>2. QED  BY <1>1, InOrderOfAll DEF Individual

\* What is handed back to the model has a result for each call, under its number.
LEMMA ExchangeComplete ==
  ASSUME calls \in Seq(Calls), \A i \in DOMAIN calls : results[i] # Pending
  PROVE  Exchange \in Seq(Talk) /\ Complete(Exchange)
<1>1. CASE ~native
  <2>1. Exchange = <<Text("assistant"), Text("user")>>
    BY <1>1 DEF Exchange
  <2>2. Text("assistant") \in Talk /\ Text("user") \in Talk
    BY DEF Text, Message, Talk
  <2>3. /\ Exchange \in Seq(Talk) /\ DOMAIN Exchange = {1, 2}
        /\ Exchange[1] = Text("assistant") /\ Exchange[2] = Text("user")
    BY <2>1, <2>2
  <2>4. Exchange[1].n = 0 /\ Exchange[2].role = "user" /\ Exchange[1].role = "assistant"
    BY <2>3 DEF Text, Message
  <2>5. Complete(Exchange)
    BY <2>3, <2>4 DEF Complete, AnsweredFrom
  <2>6. QED  BY <2>3, <2>5
<1>2. CASE native
  <2> DEFINE m == Len(calls)
             first == Message("assistant", m, 0)
             rest == [k \in 1 .. m |-> Message("tool", k, k)]
  <2>1. m \in Nat
    OBVIOUS
  <2>2. Exchange = <<first>> \o rest
    <3>1. DOMAIN Individual = 1 .. m /\ \A k \in 1 .. m : Individual[k] = k
      BY IndividualIsAll
    <3>2. [k \in DOMAIN Individual |-> Message("tool", k, Individual[k])] = rest
      BY <3>1
    <3>3. QED  BY <1>2, <3>2 DEF Exchange
  <2>3. first \in Talk /\ \A k \in 1 .. m : Message("tool", k, k) \in Talk
    BY <2>1 DEF Message, Talk
  <2>4. rest \in Seq(Talk) /\ Len(rest) = m
    BY <2>1, <2>3
  <2>5. \A k \in 1 .. m : rest[k] = Message("tool", k, k)
    OBVIOUS
  <2>6. first.role = "assistant" /\ first.n = m
    BY DEF Message
  <2> HIDE DEF m, first, rest
  <2>7. /\ Exchange \in Seq(Talk) /\ DOMAIN Exchange = 1 .. m + 1
        /\ Exchange[1] = first
        /\ \A k \in 1 .. m : Exchange[1 + k] = Message("tool", k, k)
    BY <2>1, <2>2, <2>3, <2>4, <2>5
  <2>8. \A q \in DOMAIN Exchange : q = 1 \/ (q - 1 \in 1 .. m /\ q = 1 + (q - 1))
    BY <2>1, <2>7
  <2>9. ASSUME NEW q \in DOMAIN Exchange, q # 1
        PROVE  /\ Exchange[q].role = "tool" /\ Exchange[q].n = q - 1
               /\ q - 1 \in 1 .. m
    <3>1. Exchange[q] = Message("tool", q - 1, q - 1) /\ q - 1 \in 1 .. m
      BY <2>7, <2>8, <2>9
    <3>2. QED  BY <3>1 DEF Message
  <2>10. \A p \in DOMAIN Exchange : Exchange[p].role = "assistant" => AnsweredFrom(Exchange, p)
    <3>1. AnsweredFrom(Exchange, 1)
      BY <2>1, <2>6, <2>7 DEF AnsweredFrom
    <3>2. QED  BY <2>9, <3>1
  <2>11. \A q \in DOMAIN Exchange : Exchange[q].role = "tool" =>
           \E p \in DOMAIN Exchange : ResultOf(Exchange, p, q)
    <3>1. 1 \in DOMAIN Exchange /\ Exchange[1].role # "tool"
      BY <2>1, <2>6, <2>7
    <3>2. ASSUME NEW q \in DOMAIN Exchange, q # 1 PROVE ResultOf(Exchange, 1, q)
      <4>1. q \in Int /\ 1 + (q - 1) = q /\ q - 1 <= m
        BY <2>1, <2>7, <2>9, <3>2
      <4>2. QED  BY <2>6, <2>7, <2>9, <3>2, <4>1 DEF ResultOf
    <3>3. QED  BY <3>1, <3>2
  <2>12. QED  BY <2>7, <2>10, <2>11 DEF Complete
<1>3. QED  BY <1>1, <1>2

\* One message or two from the user or without calls leave nothing unanswered.
LEMMA PlainComplete ==
  ASSUME NEW a \in {"user", "assistant"}
  PROVE  /\ <<Text(a)>> \in Seq(Talk) /\ Complete(<<Text(a)>>)
         /\ <<Text("assistant"), Text("user")>> \in Seq(Talk)
         /\ Complete(<<Text("assistant"), Text("user")>>)
<1>1. /\ Text(a) \in Talk /\ Text(a).n = 0 /\ Text(a).role # "tool"
      /\ Text("assistant") \in Talk /\ Text("assistant").n = 0 /\ Text("assistant").role # "tool"
      /\ Text("user") \in Talk /\ Text("user").role = "user"
  BY DEF Text, Message, Talk
<1>2. <<Text(a)>> \in Seq(Talk) /\ Complete(<<Text(a)>>)
  <2> DEFINE t == Text(a)
  <2> HIDE DEF t
  <2>1. <<t>> \in Seq(Talk) /\ DOMAIN <<t>> = {1} /\ <<t>>[1] = t /\ t.n = 0 /\ t.role # "tool"
    BY <1>1 DEF t
  <2>2. Complete(<<t>>)
    BY <2>1 DEF Complete, AnsweredFrom
  <2>3. QED  BY <2>1, <2>2 DEF t
<1>3. /\ <<Text("assistant"), Text("user")>> \in Seq(Talk)
      /\ Complete(<<Text("assistant"), Text("user")>>)
  <2> DEFINE s == Text("assistant")
             t == Text("user")
             g == <<s, t>>
  <2> HIDE DEF s, t
  <2>1. /\ g \in Seq(Talk) /\ DOMAIN g = {1, 2} /\ g[1] = s /\ g[2] = t
        /\ s.n = 0 /\ s.role # "tool" /\ t.role = "user"
    BY <1>1 DEF s, t
  <2> HIDE DEF g
  <2>2. Complete(g)
    BY <2>1 DEF Complete, AnsweredFrom
  <2>3. QED  BY <2>1, <2>2 DEF s, t, g
<1>4. QED  BY <1>2, <1>3

(* Why the conversation stays in order: only complete messages are added to *)
(* it, and when results are handed back every call has one.  Why nothing is *)
(* forgotten: the messages spoken are all there until a summary heads them. *)
TalkInv ==
  /\ history \in Seq(Talk)
  /\ Follows(history)
  /\ pc = "execute" => \A i \in DOMAIN calls : results[i] = Pending => i \in todo
  /\ spoken \in Nat
  /\ NothingForgotten

\* Adding complete messages keeps the conversation in order.
LEMMA SayKeeps ==
  ASSUME TalkInv, NEW messages \in Seq(Talk), Complete(messages), Say(messages)
  PROVE  history' \in Seq(Talk) /\ Follows(history') /\ spoken' \in Nat /\ NothingForgotten'
<1>1. history' = history \o messages /\ spoken' = spoken + Len(messages)
  BY DEF Say
<1>2. history \in Seq(Talk) /\ spoken \in Nat
  BY DEF TalkInv
<1>3. history' \in Seq(Talk) /\ Follows(history')
  BY <1>1, <1>2, FollowsSay DEF TalkInv
<1>4. spoken' \in Nat /\ Len(history') = Len(history) + Len(messages)
  BY <1>1, <1>2
<1>5. history # << >> => history' # << >> /\ history'[1] = history[1]
  BY <1>1, <1>2
<1>6. Len(history) \in Nat /\ Len(messages) \in Nat
  BY <1>2
<1>7. NothingForgotten'
  BY <1>1, <1>2, <1>4, <1>5, <1>6 DEF TalkInv, NothingForgotten
<1>8. QED  BY <1>3, <1>4, <1>7

\* So does compacting and trimming it.
LEMMA CompactKeeps ==
  ASSUME TalkInv, history' = Trimmed(Compacted(history)), spoken' = spoken
  PROVE  history' \in Seq(Talk) /\ Follows(history') /\ NothingForgotten'
<1>1. history \in Seq(Talk) /\ Follows(history) /\ Len(history) \in Nat
  BY DEF TalkInv
<1>2. KeepRecent \in Nat \ {0} /\ MaxHistory \in Nat
  BY AgentAssumption
<1> DEFINE h == Compacted(history)
<1>3. CASE Len(history) <= MaxHistory \/ Len(history) <= KeepRecent
  <2>1. h = history
    BY <1>3 DEF Compacted
  <2>2. CASE Len(history) <= MaxHistory
    <3>1. history' = history
      BY <2>1, <2>2 DEF Trimmed
    <3>2. QED  BY <1>1, <3>1 DEF TalkInv, NothingForgotten
  <2>3. CASE ~(Len(history) <= MaxHistory)
    <3>1. history' = SubSeq(history, (Len(history) - MaxHistory) + 1, Len(history))
      BY <2>1, <2>3 DEF Trimmed
    <3>2. Len(history) - MaxHistory \in Nat /\ Len(history) - MaxHistory <= Len(history)
      BY <1>1, <1>2, <2>3
    <3>3. ~(MaxHistory > KeepRecent)
      BY <1>1, <1>2, <1>3, <2>3
    <3>4. QED  BY <1>1, <3>1, <3>2, <3>3, FollowsCut DEF NothingForgotten
  <2>4. QED  BY <2>2, <2>3
<1>4. CASE ~(Len(history) <= MaxHistory \/ Len(history) <= KeepRecent)
  <2> DEFINE g == SubSeq(history, (Len(history) - KeepRecent) + 1, Len(history))
  <2>1. Len(history) - KeepRecent \in Nat /\ Len(history) - KeepRecent <= Len(history)
    BY <1>1, <1>2, <1>4
  <2>2. g \in Seq(Talk) /\ Follows(g) /\ Len(g) = KeepRecent
    <3>1. g \in Seq(Talk) /\ Follows(g) /\ Len(g) = Len(history) - (Len(history) - KeepRecent)
      BY <1>1, <2>1, FollowsCut
    <3>2. QED  BY <1>1, <1>2, <3>1
  <2>3. h = <<Text("summary")>> \o g
    BY <1>4 DEF Compacted
  <2> HIDE DEF g
  <2>4. h \in Seq(Talk) /\ Follows(h) /\ Len(h) = KeepRecent + 1 /\ h[1].role = "summary"
    BY <2>2, <2>3, FollowsSummary
  <2>5. history' = Trimmed(h)
    OBVIOUS
  <2> HIDE DEF h
  <2>6. CASE Len(h) <= MaxHistory
    <3>1. history' = h /\ h # << >>
      BY <1>2, <2>4, <2>5, <2>6 DEF Trimmed
    <3>2. QED  BY <2>4, <3>1 DEF NothingForgotten
  <2>7. CASE ~(Len(h) <= MaxHistory)
    <3>1. history' = SubSeq(h, (Len(h) - MaxHistory) + 1, Len(h))
      BY <2>5, <2>7 DEF Trimmed
    <3>2. Len(h) - MaxHistory \in Nat /\ Len(h) - MaxHistory <= Len(h)
      BY <1>2, <2>4, <2>7
    <3>3. ~(MaxHistory > KeepRecent)
      BY <1>2, <2>4, <2>7
    <3>4. QED  BY <2>4, <3>1, <3>2, <3>3, FollowsCut DEF NothingForgotten
  <2>8. QED  BY <2>6, <2>7
<1>5. QED  BY <1>3, <1>4

\* The invariant of the conversation, along every run.
LEMMA AlwaysInOrder == Spec => []TalkInv
<1>1. Init => TalkInv
  <2> SUFFICES ASSUME Init PROVE TalkInv
    OBVIOUS
  <2>1. history = << >> /\ spoken = 0 /\ pc = "prompt" /\ history \in Seq(Talk)
    BY DEF Init
  <2>2. Follows(history)
    BY <2>1 DEF Follows
  <2>3. QED  BY <2>1, <2>2 DEF TalkInv, NothingForgotten
<1>2. AgentTypeOK /\ TalkInv /\ [Next]_vars => TalkInv'
  <2> SUFFICES ASSUME AgentTypeOK, TalkInv, [Next]_vars PROVE TalkInv'
    OBVIOUS
  <2>1. CASE Enter \/ ModelAnswers \/ ModelGarbles
    <3>1. PICK messages \in Seq(Talk) : Complete(messages) /\ Say(messages)
      <4>1. CASE Enter
        BY <4>1, PlainComplete DEF Enter
      <4>2. CASE ModelAnswers
        BY <4>2, PlainComplete DEF ModelAnswers
      <4>3. CASE ModelGarbles
        BY <4>3, PlainComplete DEF ModelGarbles
      <4>4. QED  BY <2>1, <4>1, <4>2, <4>3
    <3>2. pc' # "execute"
      BY <2>1 DEF Enter, ModelAnswers, ModelGarbles, NextIteration, GiveUp
    <3>3. QED  BY <3>1, <3>2, SayKeeps DEF TalkInv
  <2>2. CASE Clear
    <3>1. history' = << >> /\ spoken' = 0 /\ pc' = "prompt" /\ history' \in Seq(Talk)
      BY <2>2 DEF Clear
    <3>2. Follows(history')
      BY <3>1 DEF Follows
    <3>3. QED  BY <3>1, <3>2 DEF TalkInv, NothingForgotten
  <2>3. ASSUME UNCHANGED <<history, spoken>>,
               pc' = "execute" => \A i \in DOMAIN calls' : results'[i] = Pending => i \in todo'
        PROVE  TalkInv'
    BY <2>3 DEF TalkInv, NothingForgotten
  <2>4. CASE ModelFails \/ \E r \in Responses, p \in BOOLEAN : ModelCallsTools(r, p)
    BY <2>3, <2>4 DEF ModelFails, GiveUp, ModelCallsTools
  <2>5. CASE \E i \in DOMAIN calls : Deny(i) \/ \E a \in {"not asked", "yes", "always"} : Pass(i, a)
    BY <2>3, <2>5 DEF Deny, Pass
  <2>6. ASSUME NEW i \in DOMAIN calls, Execute(i) PROVE TalkInv'
    <3>1. /\ UNCHANGED <<history, spoken, calls, pc>> /\ pc = "execute"
          /\ todo' = todo \ {i} /\ results' = [results EXCEPT ![i] = "ran"]
      BY <2>6 DEF Execute
    <3>2. "ran" # Pending /\ i \in DOMAIN results
      BY DEF Pending, AgentTypeOK
    <3>3. \A k \in DOMAIN calls' : results'[k] = Pending => k \in todo'
      BY <3>1, <3>2 DEF TalkInv, AgentTypeOK
    <3>4. QED  BY <2>3, <3>1, <3>3
  <2>p. ASSUME NEW i \in DOMAIN calls, Panic(i) PROVE TalkInv'
    BY <2>p, <2>3 DEF Panic, response
  <2>7. CASE DecisionsMade
    <3>1. /\ UNCHANGED <<history, spoken, calls, results, todo>>
          /\ \A i \in DOMAIN calls : results[i] = Pending => i \in todo
      BY <2>7 DEF DecisionsMade, Undecided, response
    <3>2. QED  BY <2>3, <3>1
  <2>8. CASE Record
    <3>1. \A i \in DOMAIN calls : results[i] # Pending
      BY <2>8 DEF Record, TalkInv
    <3>2. calls \in Seq(Calls)
      BY DEF AgentTypeOK
    <3>3. Exchange \in Seq(Talk) /\ Complete(Exchange)
      BY <3>1, <3>2, ExchangeComplete
    <3>4. Say(Exchange) /\ pc' # "execute"
      BY <2>8 DEF Record, NextIteration, GiveUp
    <3>5. QED  BY <3>3, <3>4, SayKeeps DEF TalkInv
  <2>9. CASE Compact
    <3>1. history' = Trimmed(Compacted(history)) /\ spoken' = spoken /\ pc' = "prompt"
      BY <2>9 DEF Compact
    <3>2. QED  BY <3>1, CompactKeeps DEF TalkInv
  <2>10. CASE UNCHANGED vars
    <3>1. UNCHANGED <<history, spoken, calls, results, todo, pc>>
      BY <2>10 DEF vars, response
    <3>2. QED  BY <2>3, <3>1 DEF TalkInv
  <2>11. QED
    BY <2>1, <2>2, <2>4, <2>5, <2>6, <2>p, <2>7, <2>8, <2>9, <2>10 DEF Next, Work
<1>3. QED
  BY <1>1, <1>2, TypeCorrect, PTL DEF Spec

(* The model is shown the results of a message's calls right after it, each under the id of
   its own call, and only a compaction cuts results off from their calls (individual_results,
   auto_compact_history, trim_history). *)
THEOREM ResultsFollowCallsInvariant == Spec => []ResultsFollowCalls
<1>1. TalkInv => ResultsFollowCalls
  <2> SUFFICES ASSUME TalkInv PROVE ResultsFollowCalls
    OBVIOUS
  <2>1. Follows(history)
    BY DEF TalkInv
  <2>2. QED  BY <2>1 DEF Follows, AnsweredFrom, ResultOf, Cut, ResultsFollowCalls
<1>2. QED
  BY <1>1, AlwaysInOrder, PTL

(* What has left the conversation is in a summary at its head, unless the limit leaves no
   room for one (auto_compact_history before trim_history). *)
THEOREM NothingForgottenInvariant == Spec => []NothingForgotten
<1>1. TalkInv => NothingForgotten
  BY DEF TalkInv
<1>2. QED
  BY <1>1, AlwaysInOrder, PTL
=============================================================================
