------------------------ MODULE ChannelDispatchProofs ------------------------
(***************************************************************************)
(* Proofs about ChannelDispatch for any number of messages, chats, senders *)
(* and permits: with interruption on, the workers of one scope form a      *)
(* chain in which each waits for the one before it; what is handed to the  *)
(* model has all the user said; and, when each sender writes in one chat,  *)
(* every answer stays with the text it answers.                            *)
(***************************************************************************)
EXTENDS ChannelDispatch, WellFoundedInduction, TLAPS

\* A worker that waits for the one it replaces, and one that has the scope or will.
Waits == {"cancel", "check", "checked", "waiting"}
Busy == Waits \cup Processing \cup {"leave", "skipped", "interrupted"}

\* The busy workers of scope s in the order of their registrations: all but the first
\* wait for the one before, and the last one is registered.
Chain(q, s) ==
  /\ q \in Seq(Message)
  /\ \A i \in DOMAIN q : Scope(q[i]) = s /\ pc[q[i]] \in Busy
  /\ \A i, j \in DOMAIN q : q[i] = q[j] => i = j
  /\ \A m \in Message : Scope(m) = s /\ pc[m] \in Busy => \E i \in DOMAIN q : q[i] = m
  /\ \A i \in DOMAIN q : i > 1 => pc[q[i]] \in Waits /\ previous[q[i]] = q[i - 1]
  /\ inFlight[s] = IF q = << >> THEN None ELSE q[Len(q)]

Chained == \A s \in Scopes : \E q : Chain(q, s)

\* A worker that has passed its cancellation has cancelled the one it waits for.
CancelledFirst ==
  \A m \in Message : pc[m] \in {"check", "checked", "waiting"} => previous[m] \in cancelled

DispatchInv == DispatchTypeOK /\ CancelledFirst /\ (interrupt => Chained)

-----------------------------------------------------------------------------
\* The control state of workers, permits and registrations stays within its types.
LEMMA DispatchTypeStep == DispatchTypeOK /\ [Next]_vars => DispatchTypeOK'
<1> SUFFICES ASSUME DispatchTypeOK, [Next]_vars
             PROVE  DispatchTypeOK'
  OBVIOUS
<1> USE DispatchAssumption DEF DispatchTypeOK, Message, Place, Goto, local
<1>1. CASE Arrive
  BY <1>1 DEF Arrive
<1>2. CASE Receive
  BY <1>2 DEF Receive
<1>3. ASSUME NEW m \in Message, Register(m)
      PROVE  DispatchTypeOK'
  <2>1. Scope(m) \in Scopes /\ inFlight[Scope(m)] \in Message \cup {None} /\ m <= received
    BY <1>3 DEF Scopes, Register
  <2>2. PICK p \in {"start", "cancel"} : pc' = [pc EXCEPT ![m] = p]
    BY <1>3 DEF Register
  <2>3. /\ inFlight' \in {inFlight, [inFlight EXCEPT ![Scope(m)] = m]}
        /\ previous' \in {previous, [previous EXCEPT ![m] = inFlight[Scope(m)]]}
        /\ UNCHANGED <<arrived, received, done, local>> /\ pc[m] = "spawned"
    BY <1>3 DEF Register
  <2>4. /\ inFlight' \in [Scopes -> Message \cup {None}]
        /\ previous' \in [Message -> Message \cup {None}]
    <3>1. /\ inFlight \in [Scopes -> Message \cup {None}]
          /\ previous \in [Message -> Message \cup {None}]
      OBVIOUS
    <3> HIDE DEF DispatchTypeOK, Message, Place
    <3>2. QED  BY <2>1, <2>3, <3>1
  <2>5. pc' \in [Message -> Place] /\ \A x \in Message : x # m => pc'[x] = pc[x]
    BY <2>2
  <2>6. \A x \in Message : x > received' => pc'[x] = "new"
    BY <2>1, <2>3, <2>5
  <2>7. \A x \in done' : x \in Message /\ pc'[x] = "ended"
    BY <2>3, <2>5
  <2>8. QED
    BY <2>3, <2>4, <2>5, <2>6, <2>7
<1>4. ASSUME NEW m \in Message, Leave(m)
      PROVE  DispatchTypeOK'
  BY <1>4 DEF Leave, Scopes
<1>5. ASSUME NEW m \in Message, MarkDone(m)
      PROVE  DispatchTypeOK'
  BY <1>5 DEF MarkDone
<1>6. ASSUME NEW m \in Message,
             Cancel(m) \/ CheckDone(m) \/ AwaitDone(m) \/ Start(m) \/ NewSession(m)
      PROVE  DispatchTypeOK'
  BY <1>6 DEF Cancel, CheckDone, AwaitDone, Start, NewSession
<1>7. ASSUME NEW m \in Message, Finish(m)
      PROVE  DispatchTypeOK'
  BY <1>7 DEF Finish, Interrupted, Answer, Suppress, Overflow, NoVision
<1>8. ASSUME NEW m \in Message, AppendUserTurn(m)
      PROVE  DispatchTypeOK'
  <2>1. joined' \in [Message -> SUBSET Message]
    BY <1>8 DEF AppendUserTurn
  <2>2. QED  BY <1>8, <2>1 DEF AppendUserTurn
<1>9. ASSUME NEW m \in Message, Look(m)
      PROVE  DispatchTypeOK'
  BY <1>9 DEF Look
<1>10. ASSUME NEW m \in Message, ReadHistory(m)
      PROVE  DispatchTypeOK'
  <2>1. joined' \in [Message -> SUBSET Message] /\ hadPrior' \in [Message -> BOOLEAN]
        /\ DOMAIN prompt' = Message
    BY <1>10 DEF ReadHistory
  <2>2. /\ UNCHANGED <<arrived, received, inFlight, previous, done>>
        /\ pc' = [pc EXCEPT ![m] = "generate"] /\ pc[m] = "read"
    BY <1>10 DEF ReadHistory
  <2>3. QED  BY <2>1, <2>2
<1>11. CASE UNCHANGED vars
  BY <1>11 DEF vars
<1>12. QED
  BY <1>1, <1>2, <1>3, <1>4, <1>5, <1>6, <1>7, <1>8, <1>9, <1>10, <1>11 DEF Next, Work

\* A worker waits for its predecessor only after it has cancelled it.
LEMMA CancelledFirstStep ==
  DispatchTypeOK /\ CancelledFirst /\ [Next]_vars => CancelledFirst'
<1> SUFFICES ASSUME DispatchTypeOK, CancelledFirst, [Next]_vars
             PROVE  CancelledFirst'
  OBVIOUS
<1> USE DEF DispatchTypeOK, CancelledFirst, Goto
<1>1. CASE Arrive
  BY <1>1 DEF Arrive
<1>2. CASE Receive
  BY <1>2 DEF Receive
<1>3. ASSUME NEW m \in Message, Register(m)
      PROVE  CancelledFirst'
  BY <1>3 DEF Register
<1>4. ASSUME NEW m \in Message, Cancel(m)
      PROVE  CancelledFirst'
  BY <1>4 DEF Cancel
<1>5. ASSUME NEW m \in Message, CheckDone(m) \/ AwaitDone(m) \/ Leave(m)
      PROVE  CancelledFirst'
  BY <1>5 DEF CheckDone, AwaitDone, Leave
<1>6. ASSUME NEW m \in Message, MarkDone(m)
      PROVE  CancelledFirst'
  BY <1>6 DEF MarkDone
<1>7. ASSUME NEW m \in Message, Start(m) \/ NewSession(m) \/ Look(m) \/ AppendUserTurn(m)
                                \/ ReadHistory(m)
      PROVE  CancelledFirst'
  BY <1>7 DEF Start, NewSession, Look, AppendUserTurn, ReadHistory
<1>8. ASSUME NEW m \in Message, Finish(m)
      PROVE  CancelledFirst'
  BY <1>8 DEF Finish, Interrupted, Answer, Suppress, Overflow, NoVision
<1>9. CASE UNCHANGED vars
  BY <1>9 DEF vars
<1>10. QED
  BY <1>1, <1>2, <1>3, <1>4, <1>5, <1>6, <1>7, <1>8, <1>9 DEF Next, Work

-----------------------------------------------------------------------------
(* The chain of a scope.                                                   *)

\* A step keeps the chain of s if nobody in s becomes busy or idle and nobody stops
\* waiting for a busy worker.
Keeps(s) ==
  /\ inFlight'[s] = inFlight[s]
  /\ \A m \in Message : Scope(m) = s =>
       /\ pc[m] \in Busy <=> pc'[m] \in Busy
       /\ pc[m] \in Busy => previous'[m] = previous[m]
       /\ pc[m] \in Waits /\ pc'[m] \notin Waits =>
            \A n \in Message : pc[n] \in Busy => previous[m] # n

\* A step that leaves the busy workers of a scope in place leaves their chain.
LEMMA ChainKept ==
  ASSUME NEW s \in Scopes, NEW q, Chain(q, s), Keeps(s)
  PROVE  Chain(q, s)'
<1>0. q \in Seq(Message)
  BY DEF Chain
<1>1. \A i \in DOMAIN q : q[i] \in Message /\ Scope(q[i]) = s /\ pc[q[i]] \in Busy
  BY <1>0 DEF Chain
<1>2. \A i \in DOMAIN q : i > 1 => i - 1 \in DOMAIN q
  BY <1>0
<1>3. \A i \in DOMAIN q : i > 1 => pc'[q[i]] \in Waits /\ previous'[q[i]] = q[i - 1]
  BY <1>1, <1>2 DEF Chain, Keeps
<1>4. \A i \in DOMAIN q : Scope(q[i]) = s /\ pc'[q[i]] \in Busy
  BY <1>1 DEF Keeps
<1>5. \A m \in Message : Scope(m) = s /\ pc'[m] \in Busy => \E i \in DOMAIN q : q[i] = m
  BY DEF Chain, Keeps
<1>6. QED
  BY <1>3, <1>4, <1>5 DEF Chain, Keeps, Scope

\* Whoever no longer waits is the first of its chain.
LEMMA FirstOfChain ==
  ASSUME NEW s, NEW q, Chain(q, s), NEW m \in Message, Scope(m) = s,
         pc[m] \in Busy \ Waits
  PROVE  q # << >> /\ q[1] = m
<1>1. PICK i \in DOMAIN q : q[i] = m
  BY DEF Chain
<1>2. q \in Seq(Message) /\ ~(i > 1)
  BY <1>1 DEF Chain
<1>3. QED
  BY <1>1, <1>2

\* A registering worker is appended to the chain of its scope.
LEMMA RegisterChained ==
  ASSUME DispatchTypeOK, interrupt, Chained, NEW m \in Message, Register(m)
  PROVE  Chained'
<1>0. /\ pc[m] = "spawned" /\ pc[m] \notin Busy
      /\ inFlight' = [inFlight EXCEPT ![Scope(m)] = m]
      /\ previous' = [previous EXCEPT ![m] = inFlight[Scope(m)]]
      /\ pc' = [pc EXCEPT ![m] = IF inFlight[Scope(m)] = None THEN "start" ELSE "cancel"]
  BY DEF Register, Goto, Busy, Waits, Processing
<1>1. pc'[m] \in Busy /\ \A n \in Message \ {m} : pc'[n] = pc[n]
  BY <1>0 DEF DispatchTypeOK, Busy, Waits, Processing
<1>2. \A n \in Message \ {m} : previous'[n] = previous[n]
  BY <1>0 DEF DispatchTypeOK
<1> SUFFICES ASSUME NEW s \in Scopes
             PROVE  \E q : Chain(q, s)'
  BY DEF Chained, Scopes, Scope
<1>3. PICK q : Chain(q, s)
  BY DEF Chained
<1>4. q \in Seq(Message) /\ \A i \in DOMAIN q : q[i] # m
  BY <1>0, <1>3 DEF Chain
<1>5. CASE s # Scope(m)
  <2>1. Keeps(s)
    BY <1>0, <1>1, <1>2, <1>5 DEF Keeps, DispatchTypeOK
  <2>2. QED
    BY <1>3, <2>1, ChainKept
<1>6. CASE s = Scope(m)
  <2> DEFINE new == Append(q, m)
  <2>1. /\ new \in Seq(Message) /\ Len(new) = Len(q) + 1 /\ new # << >>
        /\ new[Len(new)] = m /\ DOMAIN new = 1 .. Len(q) + 1 /\ DOMAIN q = 1 .. Len(q)
        /\ \A i \in DOMAIN q : new[i] = q[i] /\ q[i] \in Message
        /\ Len(q) \in Nat
    BY <1>4
  <2> HIDE DEF new
  <2>2. \A i \in DOMAIN new : i # Len(new) => i \in DOMAIN q /\ new[i] = q[i]
    BY <2>1
  <2>3. \A i \in DOMAIN new : Scope(new[i]) = s /\ pc'[new[i]] \in Busy
    BY <1>1, <1>3, <1>4, <1>6, <2>1, <2>2 DEF Chain
  <2>4. \A i, j \in DOMAIN new : new[i] = new[j] => i = j
    BY <1>3, <1>4, <2>1, <2>2 DEF Chain
  <2>5. \A n \in Message : Scope(n) = s /\ pc'[n] \in Busy => \E i \in DOMAIN new : new[i] = n
    <3> SUFFICES ASSUME NEW n \in Message, Scope(n) = s, pc'[n] \in Busy
                 PROVE  \E i \in DOMAIN new : new[i] = n
      OBVIOUS
    <3>1. CASE n = m
      BY <2>1, <3>1
    <3>2. CASE n # m
      <4>1. PICK i \in DOMAIN q : q[i] = n
        BY <1>1, <1>3, <3>2 DEF Chain
      <4>2. i \in DOMAIN new /\ new[i] = n
        BY <2>1, <4>1
      <4>3. QED
        BY <4>2
    <3>3. QED
      BY <3>1, <3>2
  <2>6. \A i \in DOMAIN new :
          i > 1 => pc'[new[i]] \in Waits /\ previous'[new[i]] = new[i - 1]
    <3> SUFFICES ASSUME NEW i \in DOMAIN new, i > 1
                 PROVE  pc'[new[i]] \in Waits /\ previous'[new[i]] = new[i - 1]
      OBVIOUS
    <3>1. CASE i = Len(new)
      <4>1. q # << >> /\ i - 1 = Len(q) /\ i - 1 \in DOMAIN q
        BY <2>1, <3>1
      <4>2. inFlight[s] = q[Len(q)] /\ new[i - 1] = q[Len(q)] /\ q[Len(q)] \in Message
        BY <1>3, <2>1, <4>1 DEF Chain
      <4>3. inFlight[s] # None
        BY <4>2, DispatchAssumption DEF None, Message
      <4>4. QED
        BY <1>0, <1>6, <2>1, <3>1, <4>2, <4>3 DEF DispatchTypeOK, Waits
    <3>2. CASE i # Len(new)
      <4>1. i \in DOMAIN q /\ i - 1 \in DOMAIN q /\ new[i] = q[i] /\ new[i - 1] = q[i - 1]
        BY <2>1, <2>2, <3>2
      <4>2. q[i] \in Message \ {m}
        BY <1>4, <2>1, <4>1
      <4>3. QED
        BY <1>1, <1>2, <1>3, <4>1, <4>2 DEF Chain
    <3>3. QED
      BY <3>1, <3>2
  <2>7. inFlight'[s] = new[Len(new)]
    BY <1>0, <1>6, <2>1 DEF DispatchTypeOK
  <2>8. Chain(new, s)'
    BY <2>1, <2>3, <2>4, <2>5, <2>6, <2>7 DEF Chain, Scope
  <2>9. QED
    BY <2>8
<1>7. QED
  BY <1>5, <1>6

\* The worker that leaves is the first of its chain, and the next may go on.
LEMMA LeaveChained ==
  ASSUME DispatchTypeOK, Chained, NEW m \in Message, Leave(m)
  PROVE  Chained'
<1>0. /\ pc[m] \in Busy \ Waits
      /\ inFlight' = [inFlight EXCEPT ![Scope(m)] = IF @ = m THEN None ELSE @]
      /\ previous' = previous
      /\ pc' = [pc EXCEPT ![m] = "mark"]
  BY DEF Leave, Goto, Busy, Waits, Processing
<1>1. pc'[m] \notin Busy /\ \A n \in Message \ {m} : pc'[n] = pc[n]
  BY <1>0 DEF DispatchTypeOK, Busy, Waits, Processing
<1> SUFFICES ASSUME NEW s \in Scopes
             PROVE  \E q : Chain(q, s)'
  BY DEF Chained, Scopes, Scope
<1>2. PICK q : Chain(q, s)
  BY DEF Chained
<1>3. q \in Seq(Message)
  BY <1>2 DEF Chain
<1>4. CASE s # Scope(m)
  <2>1. Keeps(s)
    BY <1>0, <1>1, <1>4 DEF Keeps, DispatchTypeOK
  <2>2. QED
    BY <1>2, <2>1, ChainKept
<1>5. CASE s = Scope(m)
  <2> DEFINE rest == Tail(q)
  <2>1. q # << >> /\ q[1] = m
    BY <1>0, <1>2, <1>5, FirstOfChain
  <2>2. /\ rest \in Seq(Message) /\ Len(rest) = Len(q) - 1 /\ Len(q) \in Nat \ {0}
        /\ DOMAIN rest = 1 .. Len(q) - 1 /\ DOMAIN q = 1 .. Len(q)
        /\ \A i \in DOMAIN rest : i + 1 \in DOMAIN q /\ rest[i] = q[i + 1] /\ i + 1 # 1
    BY <1>3, <2>1
  <2> HIDE DEF rest
  <2>3. \A i \in DOMAIN rest : rest[i] \in Message \ {m} /\ pc'[rest[i]] = pc[rest[i]]
    <3> SUFFICES ASSUME NEW i \in DOMAIN rest
                 PROVE  rest[i] \in Message \ {m} /\ pc'[rest[i]] = pc[rest[i]]
      OBVIOUS
    <3>1. q[i + 1] # q[1] /\ q[i + 1] \in Message
      BY <1>2, <1>3, <2>2 DEF Chain
    <3>2. QED
      BY <1>1, <2>1, <2>2, <3>1
  <2>4. \A i \in DOMAIN rest : Scope(rest[i]) = s /\ pc'[rest[i]] \in Busy
    BY <1>2, <2>2, <2>3 DEF Chain
  <2>5. \A i, j \in DOMAIN rest : rest[i] = rest[j] => i = j
    <3> SUFFICES ASSUME NEW i \in DOMAIN rest, NEW j \in DOMAIN rest, rest[i] = rest[j]
                 PROVE  i = j
      OBVIOUS
    <3>1. i + 1 = j + 1
      BY <1>2, <2>2 DEF Chain
    <3>2. QED
      BY <2>2, <3>1
  <2>6. \A n \in Message : Scope(n) = s /\ pc'[n] \in Busy
                           => \E i \in DOMAIN rest : rest[i] = n
    <3> SUFFICES ASSUME NEW n \in Message, Scope(n) = s, pc'[n] \in Busy
                 PROVE  \E i \in DOMAIN rest : rest[i] = n
      OBVIOUS
    <3>1. n # m /\ pc[n] \in Busy
      BY <1>1
    <3>2. PICK i \in DOMAIN q : q[i] = n
      BY <1>2, <3>1 DEF Chain
    <3>3. i # 1 /\ i - 1 \in DOMAIN rest /\ (i - 1) + 1 = i
      BY <2>1, <2>2, <3>1, <3>2
    <3>4. rest[i - 1] = n
      BY <2>2, <3>2, <3>3
    <3>5. QED
      BY <3>3, <3>4
  <2>7. \A i \in DOMAIN rest :
          i > 1 => pc'[rest[i]] \in Waits /\ previous'[rest[i]] = rest[i - 1]
    <3> SUFFICES ASSUME NEW i \in DOMAIN rest, i > 1
                 PROVE  pc'[rest[i]] \in Waits /\ previous'[rest[i]] = rest[i - 1]
      OBVIOUS
    <3>1. i - 1 \in DOMAIN rest /\ i + 1 \in DOMAIN q /\ i + 1 > 1
          /\ (i + 1) - 1 = i /\ (i - 1) + 1 = i
      BY <2>2
    <3>2. pc[q[i + 1]] \in Waits /\ previous[q[i + 1]] = q[i]
      BY <1>2, <3>1 DEF Chain
    <3>3. rest[i] = q[i + 1] /\ rest[i - 1] = q[i]
      BY <2>2, <3>1
    <3>4. QED
      BY <1>0, <2>3, <3>2, <3>3
  <2>8. inFlight'[s] = IF rest = << >> THEN None ELSE rest[Len(rest)]
    <3>0. /\ inFlight[s] = q[Len(q)]
          /\ inFlight'[s] = IF inFlight[s] = m THEN None ELSE inFlight[s]
      BY <1>0, <1>2, <1>5, <2>1 DEF Chain, DispatchTypeOK
    <3>1. CASE Len(q) = 1
      BY <2>1, <2>2, <3>0, <3>1
    <3>2. CASE Len(q) # 1
      <4>1. Len(q) \in DOMAIN q /\ 1 \in DOMAIN q /\ Len(rest) \in DOMAIN rest
        BY <2>2, <3>2
      <4>2. q[Len(q)] # m
        BY <1>2, <2>1, <3>2, <4>1 DEF Chain
      <4>3. rest # << >> /\ rest[Len(rest)] = q[Len(q)]
        BY <2>2, <4>1
      <4>4. QED
        BY <3>0, <4>2, <4>3
    <3>3. QED
      BY <3>1, <3>2
  <2>9. Chain(rest, s)'
    BY <2>2, <2>4, <2>5, <2>6, <2>7, <2>8 DEF Chain, Scope
  <2>10. QED
    BY <2>9
<1>6. QED
  BY <1>4, <1>5

\* Every other step keeps every chain: nobody overtakes a worker that is not done.
LEMMA OthersKeep ==
  ASSUME DispatchTypeOK, [Next]_vars, NEW s \in Scopes,
         \A m \in Message : ~Leave(m) /\ ~(interrupt /\ Register(m)), interrupt
  PROVE  Keeps(s)
<1> USE DEF DispatchTypeOK, Keeps, Goto
<1>1. CASE Arrive
  BY <1>1 DEF Arrive
<1>2. CASE Receive
  <2>1. received + 1 \in Message /\ pc[received + 1] = "new"
    BY <1>2, DispatchAssumption DEF Receive, Message
  <2>2. QED
    BY <1>2, <2>1 DEF Receive, Busy, Waits, Processing
<1>3. ASSUME NEW m \in Message, Cancel(m) \/ AwaitDone(m)
      PROVE  Keeps(s)
  BY <1>3 DEF Cancel, AwaitDone, Busy, Waits
<1>4. ASSUME NEW m \in Message, CheckDone(m)
      PROVE  Keeps(s)
  BY <1>4 DEF CheckDone, Busy, Waits, Processing
<1>5. ASSUME NEW m \in Message, MarkDone(m)
      PROVE  Keeps(s)
  BY <1>5 DEF MarkDone, Busy, Waits, Processing
<1>6. ASSUME NEW m \in Message, Start(m) \/ NewSession(m) \/ Look(m) \/ AppendUserTurn(m)
                                \/ ReadHistory(m)
      PROVE  Keeps(s)
  BY <1>6 DEF Start, NewSession, Look, AppendUserTurn, ReadHistory, Busy, Waits, Processing
<1>7. ASSUME NEW m \in Message, Finish(m)
      PROVE  Keeps(s)
  BY <1>7 DEF Finish, Interrupted, Answer, Suppress, Overflow, NoVision, Busy, Waits, Processing
<1>8. CASE UNCHANGED vars
  BY <1>8 DEF vars
<1>9. QED
  BY <1>1, <1>2, <1>3, <1>4, <1>5, <1>6, <1>7, <1>8 DEF Next, Work

\* The three parts are inductive together.
LEMMA DispatchInvStep == DispatchInv /\ [Next]_vars => DispatchInv'
<1> SUFFICES ASSUME DispatchInv, [Next]_vars
             PROVE  DispatchInv'
  OBVIOUS
<1>1. DispatchTypeOK' /\ CancelledFirst'
  BY DispatchTypeStep, CancelledFirstStep DEF DispatchInv
<1>2. interrupt' = interrupt
  BY DEF Next, vars
<1>3. ASSUME interrupt
      PROVE  Chained'
  <2>1. ASSUME NEW m \in Message, Register(m)
        PROVE  Chained'
    BY <1>3, <2>1, RegisterChained DEF DispatchInv
  <2>2. ASSUME NEW m \in Message, Leave(m)
        PROVE  Chained'
    BY <1>3, <2>2, LeaveChained DEF DispatchInv
  <2>3. CASE \A m \in Message : ~Leave(m) /\ ~Register(m)
    <3>1. \A s \in Scopes : \E q : Chain(q, s)'
      BY <1>3, <2>3, OthersKeep, ChainKept DEF DispatchInv, Chained
    <3>2. QED
      BY <3>1 DEF Chained, Scopes, Scope
  <2>4. QED
    BY <2>1, <2>2, <2>3
<1>4. QED
  BY <1>1, <1>2, <1>3 DEF DispatchInv

\* The strengthening on which the theorems below rest.
LEMMA DispatchInvariant == Spec => []DispatchInv
<1>1. Init => DispatchInv
  <2> SUFFICES ASSUME Init
               PROVE  DispatchInv
    OBVIOUS
  <2>1. DispatchTypeOK
    BY DispatchAssumption DEF Init, DispatchTypeOK, Place, Message, Scopes
  <2>2. CancelledFirst
    BY DEF Init, CancelledFirst
  <2>3. \A s \in Scopes : Chain(<< >>, s)
    BY DEF Init, Chain, Busy, Waits, Processing
  <2>4. QED
    BY <2>1, <2>2, <2>3 DEF DispatchInv, Chained
<1>2. QED
  BY <1>1, DispatchInvStep, PTL DEF Spec

-----------------------------------------------------------------------------
\* Workers, permits and registrations stay within their types, for any messages.
THEOREM TypeCorrect == Spec => []DispatchTypeOK
<1>1. DispatchInv => DispatchTypeOK
  BY DEF DispatchInv
<1>2. QED
  BY <1>1, DispatchInvariant, PTL

\* However many messages of one sender and chat arrive, and in whatever order their
\* workers register, at most one of them is in process_channel_message.
THEOREM OneAtATimeInvariant == Spec => []OneAtATime
<1>1. DispatchInv => OneAtATime
  <2> SUFFICES ASSUME DispatchInv, interrupt, NEW m \in Message, NEW n \in Message,
                      Scope(m) = Scope(n), pc[m] \in Processing, pc[n] \in Processing
               PROVE  m = n
    BY DEF OneAtATime
  <2>1. PICK q : Chain(q, Scope(m))
    BY DEF DispatchInv, Chained, Scopes
  <2>2. pc[m] \in Busy \ Waits /\ pc[n] \in Busy \ Waits
    BY DEF Busy, Waits, Processing
  <2>3. QED
    BY <2>1, <2>2, FirstOfChain
<1>2. QED
  BY <1>1, DispatchInvariant, PTL

\* Whatever is being processed is the registered worker or has been, or is about to be,
\* cancelled by the one that replaced it.
THEOREM InterruptibleInvariant == Spec => []Interruptible
<1>1. DispatchInv => Interruptible
  <2> SUFFICES ASSUME DispatchInv, interrupt, NEW m \in Message, pc[m] \in Processing,
                      inFlight[Scope(m)] # m
               PROVE  \/ m \in cancelled
                      \/ \E n \in Message : pc[n] = "cancel" /\ previous[n] = m
    BY DEF Interruptible
  <2>1. PICK q : Chain(q, Scope(m))
    BY DEF DispatchInv, Chained, Scopes
  <2>2. q # << >> /\ q[1] = m
    BY <2>1, FirstOfChain DEF Busy, Waits, Processing
  <2>3. q \in Seq(Message) /\ inFlight[Scope(m)] = q[Len(q)]
    BY <2>1, <2>2 DEF Chain
  <2>4. 2 \in DOMAIN q /\ q[2] \in Message
    BY <2>2, <2>3
  <2>5. pc[q[2]] \in Waits /\ previous[q[2]] = m
    BY <2>1, <2>2, <2>4 DEF Chain
  <2>6. QED
    BY <2>4, <2>5 DEF DispatchInv, CancelledFirst, Waits
<1>2. QED
  BY <1>1, DispatchInvariant, PTL

-----------------------------------------------------------------------------
(* Histories.                                                              *)

Turn == [role : Role, of : Seq(Message)]

\* Induction, on a set.
LEMMA UpTo ==
  ASSUME NEW L \in Nat, NEW T \in SUBSET (0 .. L), 0 \in T,
         \A n \in 1 .. L : n - 1 \in T => n \in T
  PROVE  T = 0 .. L
<1> SUFFICES ASSUME (0 .. L) \ T # {}
             PROVE  FALSE
  OBVIOUS
<1> DEFINE R == (0 .. L) \ T
<1>1. R \in SUBSET Nat /\ R # {}
  OBVIOUS
<1> HIDE DEF R
<1>2. PICK x \in R : \A y \in R : <<y, x>> \notin OpToRel(<, Nat)
  BY <1>1, WFMin, NatLessThanWellFounded
<1>3. x \in 0 .. L /\ x \notin T /\ x # 0
  BY <1>2 DEF R
<1>4. x - 1 \notin R
  <2>1. x - 1 \in Nat /\ x \in Nat /\ x - 1 < x
    BY <1>3
  <2>2. <<x - 1, x>> \in OpToRel(<, Nat)
    BY <2>1 DEF OpToRel
  <2>3. QED  BY <1>2, <2>2
<1>5. QED
  BY <1>3, <1>4 DEF R

\* g is computed from base in L steps.
Computes(g, base, step, L) ==
  /\ g[0] = base
  /\ \A n \in 1 .. L : g[n] = step[<<g[n - 1], n>>]

\* What is computed step by step can be written down as the function of its steps.
LEMMA StepsExist ==
  ASSUME NEW S, NEW base \in S, NEW L \in Nat, NEW step \in [S \X (1 .. L) -> S]
  PROVE  \E g \in [0 .. L -> S] : Computes(g, base, step, L)
<1> USE DEF Computes
<1> DEFINE T == {k \in 0 .. L : \E g \in [0 .. k -> S] : Computes(g, base, step, k)}
<1>1. 0 \in T
  <2> DEFINE g == [n \in 0 .. 0 |-> base]
  <2>1. g \in [0 .. 0 -> S] /\ Computes(g, base, step, 0)
    OBVIOUS
  <2>2. 0 \in 0 .. L
    OBVIOUS
  <2> HIDE DEF g, Computes
  <2>3. QED  BY <2>1, <2>2
<1>2. ASSUME NEW n \in 1 .. L, n - 1 \in T PROVE n \in T
  <2>1. PICK g \in [0 .. n - 1 -> S] : Computes(g, base, step, n - 1)
    BY <1>2
  <2> DEFINE h == [k \in 0 .. n |-> IF k = n THEN step[<<g[n - 1], n>>] ELSE g[k]]
  <2>2. g[n - 1] \in S
    BY <2>1
  <2>3. step[<<g[n - 1], n>>] \in S
    BY <2>2
  <2>4. /\ h \in [0 .. n -> S] /\ h[n] = step[<<g[n - 1], n>>]
        /\ \A k \in 0 .. n - 1 : h[k] = g[k]
    BY <2>1, <2>3
  <2> HIDE DEF h
  <2>5. \A k \in 1 .. n - 1 : k - 1 \in 0 .. n - 1 /\ k \in 0 .. n - 1
    OBVIOUS
  <2>6. \A k \in 1 .. n : k = n \/ k \in 1 .. n - 1
    OBVIOUS
  <2>7. h[n - 1] = g[n - 1] /\ h[0] = g[0]
    BY <2>4
  <2>8. \A k \in 1 .. n : h[k] = step[<<h[k - 1], k>>]
    BY <2>1, <2>4, <2>5, <2>6, <2>7
  <2>9. QED  BY <2>1, <2>4, <2>7, <2>8
<1>3. T = 0 .. L
  <2> HIDE DEF T
  <2>1. T \in SUBSET (0 .. L)
    BY DEF T
  <2>2. QED  BY <1>1, <1>2, <2>1, UpTo
<1>4. L \in T
  <2> HIDE DEF T
  <2>1. QED  BY <1>3
<1>5. QED
  BY <1>4

-----------------------------------------------------------------------------
(* What one turn does to a normalised history.                             *)

\* R is S after the turn t: t is dropped, is a turn of its own, or is merged.
Dropped(S, t, R) == S = << >> /\ t.role = "assistant" /\ R = << >>
Added(S, t, R) ==
  /\ IF S = << >> THEN t.role = "user" ELSE t.role # S[Len(S)].role
  /\ Len(R) = Len(S) + 1 /\ R[Len(R)] = t
  /\ \A i \in 1 .. Len(S) : R[i] = S[i]
Merged(S, t, R) ==
  /\ S # << >> /\ t.role = S[Len(S)].role
  /\ Len(R) = Len(S)
  /\ R[Len(R)] = [role |-> t.role, of |-> S[Len(S)].of \o t.of]
  /\ \A i \in 1 .. Len(S) - 1 : R[i] = S[i]

\* Absorb does one of the three.
LEMMA AbsorbIs ==
  ASSUME NEW S \in Seq(Turn), NEW t \in Turn, NEW R, R = Absorb(S, t)
  PROVE  /\ R \in Seq(Turn)
         /\ Dropped(S, t, R) \/ Added(S, t, R) \/ Merged(S, t, R)
<1> USE DEF Dropped, Added, Merged
<1>0. t.role \in Role /\ t.of \in Seq(Message) /\ Len(S) \in Nat
  BY DEF Turn
<1>1. CASE S = << >>
  <2>1. CASE t.role = "user"
    <3>1. R = <<t>>
      BY <1>1, <2>1 DEF Absorb
    <3>2. R \in Seq(Turn) /\ Len(R) = 1 /\ R[1] = t
      BY <3>1
    <3>3. Len(S) = 0
      BY <1>1
    <3>4. QED  BY <1>1, <2>1, <3>2, <3>3
  <2>2. CASE t.role # "user"
    BY <1>0, <1>1, <2>2 DEF Absorb, Role
  <2>3. QED  BY <2>1, <2>2
<1>2. CASE S # << >> /\ t.role # S[Len(S)].role
  <2>1. R = Append(S, t)
    BY <1>2 DEF Absorb
  <2>2. R \in Seq(Turn) /\ Len(R) = Len(S) + 1 /\ R[Len(S) + 1] = t
        /\ \A i \in 1 .. Len(S) : R[i] = S[i]
    BY <1>0, <2>1
  <2>3. QED  BY <1>2, <2>2
<1>3. CASE S # << >> /\ t.role = S[Len(S)].role
  <2>1. R = [S EXCEPT ![Len(S)].of = @ \o t.of]
    BY <1>3 DEF Absorb
  <2>2. Len(S) \in 1 .. Len(S) /\ S[Len(S)] \in Turn
    BY <1>3
  <2> DEFINE u == [role |-> t.role, of |-> S[Len(S)].of \o t.of]
  <2>3. u \in Turn
    BY <1>0, <2>2 DEF Turn
  <2>4. [S[Len(S)] EXCEPT !.of = @ \o t.of] = u
    <3> DEFINE last == S[Len(S)]
    <3>1. last \in [role : Role, of : Seq(Message)] /\ last.role = t.role
      BY <1>3, <2>2 DEF Turn
    <3> HIDE DEF last
    <3> DEFINE both == last.of \o t.of
    <3> HIDE DEF both
    <3>2. [last EXCEPT !.of = both] = [role |-> t.role, of |-> both]
      BY <3>1
    <3>3. QED  BY <3>2 DEF last, both
  <2>5. R = [S EXCEPT ![Len(S)] = u]
    BY <2>1, <2>4
  <2> HIDE DEF u
  <2>6. R \in Seq(Turn) /\ Len(R) = Len(S) /\ R[Len(S)] = u
        /\ \A i \in 1 .. Len(S) - 1 : R[i] = S[i]
    BY <1>0, <2>2, <2>3, <2>5
  <2>7. QED  BY <1>3, <2>6 DEF u
<1>4. QED  BY <1>1, <1>2, <1>3

\* normalize_cached_channel_turns, turn by turn.
LEMMA NormalizedSteps ==
  ASSUME NEW turns \in Seq(Turn)
  PROVE  \E g \in [0 .. Len(turns) -> Seq(Turn)] :
           /\ g[0] = << >>
           /\ \A n \in 1 .. Len(turns) : g[n] = Absorb(g[n - 1], turns[n])
           /\ Normalized(turns) = g[Len(turns)]
<1> DEFINE L == Len(turns)
           D == Seq(Turn) \X (1 .. L)
           step == [p \in D |-> Absorb(p[1], turns[p[2]])]
           Steps == CHOOSE f : f = [n \in 0 .. Len(turns) |->
                                      IF n = 0 THEN << >> ELSE Absorb(f[n - 1], turns[n])]
<1>1. L \in Nat /\ << >> \in Seq(Turn)
  OBVIOUS
<1>2. step \in [Seq(Turn) \X (1 .. L) -> Seq(Turn)]
  <2>1. ASSUME NEW p \in D PROVE Absorb(p[1], turns[p[2]]) \in Seq(Turn)
    <3>1. p[1] \in Seq(Turn) /\ turns[p[2]] \in Turn
      OBVIOUS
    <3>2. QED  BY <3>1, AbsorbIs
  <2>2. QED  BY <2>1
<1>3. PICK g \in [0 .. L -> Seq(Turn)] : Computes(g, << >>, step, L)
  <2> HIDE DEF step, L
  <2>1. QED  BY <1>1, <1>2, StepsExist
<1>4. ASSUME NEW n \in 1 .. L PROVE g[n] = Absorb(g[n - 1], turns[n])
  <2>1. g[n - 1] \in Seq(Turn) /\ g[n] = step[<<g[n - 1], n>>]
    <3>1. n - 1 \in 0 .. L
      BY <1>1
    <3> HIDE DEF step
    <3>2. QED  BY <1>3, <3>1 DEF Computes
  <2>2. <<g[n - 1], n>> \in D
    BY <2>1
  <2>3. QED  BY <2>1, <2>2
<1>5. g = [n \in 0 .. Len(turns) |-> IF n = 0 THEN << >> ELSE Absorb(g[n - 1], turns[n])]
  <2>1. \A n \in 0 .. L : n = 0 \/ n \in 1 .. L
    BY <1>1
  <2>2. \A n \in 0 .. L : g[n] = IF n = 0 THEN << >> ELSE Absorb(g[n - 1], turns[n])
    BY <1>3, <1>4, <2>1 DEF Computes
  <2>3. QED  BY <1>3, <2>2
<1>6. Steps = [n \in 0 .. Len(turns) |-> IF n = 0 THEN << >> ELSE Absorb(Steps[n - 1], turns[n])]
  BY <1>5
<1>7. Normalized(turns) = Steps[Len(turns)]
  BY DEF Normalized
<1> HIDE DEF Steps, step
<1>8. /\ Steps[0] = << >>
      /\ \A n \in 1 .. L : Steps[n] = Absorb(Steps[n - 1], turns[n])
  <2>1. 0 \in 0 .. Len(turns) /\ \A n \in 1 .. L : n \in 0 .. Len(turns) /\ n # 0
    BY <1>1
  <2>2. QED  BY <1>6, <2>1
<1>9. \A n \in 0 .. L : Steps[n] = g[n]
  <2> DEFINE T == {n \in 0 .. L : Steps[n] = g[n]}
  <2>1. 0 \in T /\ T \in SUBSET (0 .. L)
    BY <1>1, <1>3, <1>8 DEF Computes
  <2>2. ASSUME NEW n \in 1 .. L, n - 1 \in T PROVE n \in T
    BY <1>4, <1>8, <2>2
  <2>3. T = 0 .. L
    <3> HIDE DEF T
    <3>1. QED  BY <1>1, <2>1, <2>2, UpTo
  <2>4. QED  BY <2>3
<1>10. Normalized(turns) = g[L]
  BY <1>1, <1>7, <1>9
<1>11. QED
  BY <1>3, <1>4, <1>10 DEF Computes

-----------------------------------------------------------------------------
(* The text of a history.                                                  *)

\* The text of a role after one more turn.
With(text, turn, role) == IF turn.role = role THEN text \o turn.of ELSE text

\* f[n] is the text of a role in the first n turns.
IsText(f, turns, role) ==
  /\ f[0] = << >>
  /\ \A n \in 1 .. Len(turns) : f[n] = With(f[n - 1], turns[n], role)

\* The text of a history, turn by turn.
LEMMA SaidSteps ==
  ASSUME NEW turns \in Seq(Turn), NEW role
  PROVE  \E g \in [0 .. Len(turns) -> Seq(Message)] :
           IsText(g, turns, role) /\ Said(turns, role) = g[Len(turns)]
<1> DEFINE L == Len(turns)
           D == Seq(Message) \X (1 .. L)
           step == [p \in D |-> With(p[1], turns[p[2]], role)]
           Steps == CHOOSE f : f = [n \in 0 .. Len(turns) |->
                                      IF n = 0 THEN << >>
                                      ELSE IF turns[n].role = role
                                           THEN f[n - 1] \o turns[n].of ELSE f[n - 1]]
<1>1. L \in Nat /\ << >> \in Seq(Message)
  OBVIOUS
<1>2. step \in [Seq(Message) \X (1 .. L) -> Seq(Message)]
  <2>1. ASSUME NEW p \in D PROVE With(p[1], turns[p[2]], role) \in Seq(Message)
    <3>1. p[1] \in Seq(Message) /\ turns[p[2]] \in Turn
      OBVIOUS
    <3>2. turns[p[2]].of \in Seq(Message)
      BY <3>1 DEF Turn
    <3>3. QED  BY <3>1, <3>2 DEF With
  <2>2. QED  BY <2>1
<1>3. PICK g \in [0 .. L -> Seq(Message)] : Computes(g, << >>, step, L)
  <2> HIDE DEF step, L
  <2>1. QED  BY <1>1, <1>2, StepsExist
<1>4. ASSUME NEW n \in 1 .. L PROVE g[n] = With(g[n - 1], turns[n], role)
  <2>1. g[n - 1] \in Seq(Message) /\ g[n] = step[<<g[n - 1], n>>]
    <3>1. n - 1 \in 0 .. L
      BY <1>1
    <3> HIDE DEF step
    <3>2. QED  BY <1>3, <3>1 DEF Computes
  <2>2. <<g[n - 1], n>> \in D
    BY <2>1
  <2>3. QED  BY <2>1, <2>2
<1>5. g = [n \in 0 .. Len(turns) |->
             IF n = 0 THEN << >>
             ELSE IF turns[n].role = role THEN g[n - 1] \o turns[n].of ELSE g[n - 1]]
  <2>1. \A n \in 0 .. L : n = 0 \/ n \in 1 .. L
    BY <1>1
  <2>2. \A n \in 0 .. L : g[n] = IF n = 0 THEN << >> ELSE With(g[n - 1], turns[n], role)
    BY <1>3, <1>4, <2>1 DEF Computes
  <2>3. QED  BY <1>3, <2>2 DEF With
<1>6. Steps = [n \in 0 .. Len(turns) |->
                 IF n = 0 THEN << >>
                 ELSE IF turns[n].role = role THEN Steps[n - 1] \o turns[n].of ELSE Steps[n - 1]]
  BY <1>5
<1>7. Said(turns, role) = Steps[Len(turns)]
  BY DEF Said
<1> HIDE DEF Steps, step
<1>8. /\ Steps[0] = << >>
      /\ \A n \in 1 .. L : Steps[n] = With(Steps[n - 1], turns[n], role)
  <2>1. 0 \in 0 .. Len(turns) /\ \A n \in 1 .. L : n \in 0 .. Len(turns) /\ n # 0
    BY <1>1
  <2>2. QED  BY <1>6, <2>1 DEF With
<1>9. \A n \in 0 .. L : Steps[n] = g[n]
  <2> DEFINE T == {n \in 0 .. L : Steps[n] = g[n]}
  <2>1. 0 \in T /\ T \in SUBSET (0 .. L)
    BY <1>1, <1>3, <1>8 DEF Computes
  <2>2. ASSUME NEW n \in 1 .. L, n - 1 \in T PROVE n \in T
    BY <1>4, <1>8, <2>2
  <2>3. T = 0 .. L
    <3> HIDE DEF T
    <3>1. QED  BY <1>1, <2>1, <2>2, UpTo
  <2>4. QED  BY <2>3
<1>10. Said(turns, role) = g[L]
  BY <1>1, <1>7, <1>9
<1>11. QED
  BY <1>3, <1>4, <1>10 DEF Computes, IsText

\* The first k turns are the same.
SameStart(A, B, k) ==
  /\ A \in Seq(Turn) /\ B \in Seq(Turn)
  /\ k \in Nat /\ k <= Len(A) /\ k <= Len(B)
  /\ \A i \in 1 .. k : B[i] = A[i]

\* Histories that begin with the same k turns begin with the same text.
LEMMA TextsAgree ==
  ASSUME NEW A, NEW B, NEW role, NEW k, SameStart(A, B, k),
         NEW f, NEW g, IsText(f, A, role), IsText(g, B, role)
  PROVE  f[k] = g[k]
<1> USE DEF IsText, SameStart
<1> DEFINE T == {n \in 0 .. k : f[n] = g[n]}
<1>1. 0 \in T /\ T \in SUBSET (0 .. k)
  OBVIOUS
<1>2. ASSUME NEW n \in 1 .. k, n - 1 \in T PROVE n \in T
  <2>1. n \in 1 .. Len(A) /\ n \in 1 .. Len(B)
    OBVIOUS
  <2>2. f[n - 1] = g[n - 1] /\ A[n] = B[n]
    BY <1>2
  <2>3. f[n] = g[n]
    BY <2>1, <2>2
  <2>4. QED  BY <2>3
<1>3. T = 0 .. k
  <2> HIDE DEF T
  <2>1. QED  BY <1>1, <1>2, UpTo
<1>4. k \in T
  <2> HIDE DEF T
  <2>1. QED  BY <1>3
<1>5. QED  BY <1>4

\* One more turn adds its text.
LEMMA SaidAppend ==
  ASSUME NEW S \in Seq(Turn), NEW R \in Seq(Turn), NEW role, Len(R) = Len(S) + 1,
         \A i \in 1 .. Len(S) : R[i] = S[i]
  PROVE  Said(R, role) = With(Said(S, role), R[Len(R)], role)
<1>0. Len(S) \in Nat /\ Len(R) \in 1 .. Len(R) /\ Len(R) - 1 = Len(S)
  OBVIOUS
<1>1. PICK f \in [0 .. Len(S) -> Seq(Message)] :
        IsText(f, S, role) /\ Said(S, role) = f[Len(S)]
  BY SaidSteps
<1>2. PICK g \in [0 .. Len(R) -> Seq(Message)] :
        IsText(g, R, role) /\ Said(R, role) = g[Len(R)]
  BY SaidSteps
<1>3. g[Len(S)] = f[Len(S)]
  <2>1. SameStart(S, R, Len(S))
    BY <1>0 DEF SameStart
  <2>2. QED  BY <1>1, <1>2, <2>1, TextsAgree
<1>4. QED
  BY <1>0, <1>1, <1>2, <1>3 DEF IsText

\* A turn that is merged into the last one adds its text, too.
LEMMA SaidMerge ==
  ASSUME NEW S \in Seq(Turn), NEW R \in Seq(Turn), NEW role, NEW t \in Turn, S # << >>,
         Len(R) = Len(S), \A i \in 1 .. Len(S) - 1 : R[i] = S[i],
         t.role = S[Len(S)].role,
         R[Len(R)] = [role |-> t.role, of |-> S[Len(S)].of \o t.of]
  PROVE  Said(R, role) = With(Said(S, role), t, role)
<1>0. Len(S) \in Nat /\ Len(S) \in 1 .. Len(S) /\ Len(S) - 1 \in Nat /\ Len(S) - 1 <= Len(S)
      /\ Len(S) - 1 \in 0 .. Len(S)
  OBVIOUS
<1>1. PICK f \in [0 .. Len(S) -> Seq(Message)] :
        IsText(f, S, role) /\ Said(S, role) = f[Len(S)]
  BY SaidSteps
<1>2. PICK g \in [0 .. Len(R) -> Seq(Message)] :
        IsText(g, R, role) /\ Said(R, role) = g[Len(R)]
  BY SaidSteps
<1>3. g[Len(S) - 1] = f[Len(S) - 1]
  <2> DEFINE k == Len(S) - 1
  <2>1. SameStart(S, R, k)
    BY <1>0 DEF SameStart
  <2> HIDE DEF k
  <2>2. IsText(f, S, role) /\ IsText(g, R, role)
    BY <1>1, <1>2
  <2>3. f[k] = g[k]
    BY ONLY <2>1, <2>2, TextsAgree
  <2>4. QED  BY <2>3 DEF k
<1>4. /\ Said(S, role) = With(f[Len(S) - 1], S[Len(S)], role)
      /\ Said(R, role) = With(f[Len(S) - 1], R[Len(S)], role)
  BY <1>0, <1>1, <1>2, <1>3 DEF IsText
<1>5. ASSUME NEW a \in Seq(Message), NEW b \in Seq(Message), NEW c \in Seq(Message)
      PROVE  (a \o b) \o c = a \o (b \o c)
  OBVIOUS
<1>6. f[Len(S) - 1] \in Seq(Message) /\ S[Len(S)].of \in Seq(Message) /\ t.of \in Seq(Message)
  <2>1. S[Len(S)] \in Turn
    BY <1>0
  <2>2. QED  BY <1>0, <1>1, <2>1 DEF Turn
<1>7. QED
  <2>1. CASE t.role = role
    <3>0. R[Len(S)].role = t.role /\ R[Len(S)].of = S[Len(S)].of \o t.of
      <4> DEFINE last == R[Len(R)]
                 both == S[Len(S)].of \o t.of
      <4>1. last = [role |-> t.role, of |-> both] /\ R[Len(S)] = last
        OBVIOUS
      <4> HIDE DEF both, last
      <4>2. last.role = t.role /\ last.of = both
        BY <4>1
      <4>3. QED  BY <4>1, <4>2 DEF both
    <3>1. Said(S, role) = f[Len(S) - 1] \o S[Len(S)].of
      BY <1>4, <2>1 DEF With
    <3>2. Said(R, role) = f[Len(S) - 1] \o (S[Len(S)].of \o t.of)
      BY <1>4, <2>1, <3>0 DEF With
    <3>3. (f[Len(S) - 1] \o S[Len(S)].of) \o t.of = f[Len(S) - 1] \o (S[Len(S)].of \o t.of)
      BY <1>5, <1>6
    <3>4. QED  BY <2>1, <3>1, <3>2, <3>3 DEF With
  <2>2. CASE t.role # role
    BY <1>4, <2>2 DEF With
  <2>3. QED  BY <2>1, <2>2

-----------------------------------------------------------------------------
(* What normalisation promises.                                            *)

\* An empty history has no text.
LEMMA NothingSaid ==
  ASSUME NEW role
  PROVE  Said(<< >>, role) = << >>
<1>1. << >> \in Seq(Turn) /\ Len(<< >>) = 0
  OBVIOUS
<1>2. PICK g \in [0 .. Len(<< >>) -> Seq(Message)] :
        IsText(g, << >>, role) /\ Said(<< >>, role) = g[Len(<< >>)]
  BY <1>1, SaidSteps
<1>3. QED
  BY <1>1, <1>2 DEF IsText

\* A turn that is absorbed leaves a history that alternates, and adds its text.
LEMMA AbsorbFaithful ==
  ASSUME NEW S \in Seq(Turn), NEW t \in Turn, Alternates(S)
  PROVE  /\ Alternates(Absorb(S, t))
         /\ Said(Absorb(S, t), "user") = With(Said(S, "user"), t, "user")
<1> DEFINE R == Absorb(S, t)
<1>0. t.role \in Role /\ Len(S) \in Nat
  BY DEF Turn
<1>1. R \in Seq(Turn)
  BY AbsorbIs
<1>2. CASE Dropped(S, t, R)
  BY <1>2, NothingSaid DEF With, Alternates, Dropped
<1>3. CASE Added(S, t, R)
  <2> USE DEF Added, Merged
  <2> HIDE DEF R
  <2>1. Said(R, "user") = With(Said(S, "user"), t, "user")
    <3>1. Said(R, "user") = With(Said(S, "user"), R[Len(R)], "user")
      BY <1>1, <1>3, SaidAppend
    <3>2. QED  BY <1>3, <3>1
  <2>2. Alternates(R)
    <3> SUFFICES ASSUME NEW i \in 1 .. Len(R)
                 PROVE  R[i].role = IF i % 2 = 1 THEN "user" ELSE "assistant"
      BY <1>1 DEF Alternates
    <3>1. CASE i = Len(R)
      <4>1. CASE S = << >>
        BY <1>3, <3>1, <4>1
      <4>2. CASE S # << >>
        <5>1. Len(S) \in DOMAIN S /\ i = Len(S) + 1
          BY <1>0, <1>3, <3>1, <4>2
        <5>2. S[Len(S)].role = IF Len(S) % 2 = 1 THEN "user" ELSE "assistant"
          BY <5>1 DEF Alternates
        <5>3. Len(S) % 2 = 1 <=> i % 2 # 1
          BY <1>0, <5>1
        <5>4. R[i].role = t.role /\ t.role # S[Len(S)].role
          BY <1>3, <3>1, <4>2
        <5>5. QED  BY <1>0, <5>2, <5>3, <5>4 DEF Role
      <4>3. QED  BY <4>1, <4>2
    <3>2. CASE i # Len(R)
      <4>1. i \in DOMAIN S /\ R[i] = S[i]
        BY <1>0, <1>3, <3>2
      <4>2. QED  BY <4>1 DEF Alternates
    <3>3. QED  BY <3>1, <3>2
  <2>3. QED  BY <2>1, <2>2 DEF R
<1>4. CASE Merged(S, t, R)
  <2> USE DEF Added, Merged
  <2> HIDE DEF R
  <2>1. Said(R, "user") = With(Said(S, "user"), t, "user")
    BY <1>1, <1>4, SaidMerge
  <2>2. Alternates(R)
    <3> SUFFICES ASSUME NEW i \in 1 .. Len(R)
                 PROVE  R[i].role = S[i].role /\ i \in DOMAIN S
      BY <1>1 DEF Alternates
    <3>1. i \in DOMAIN S
      BY <1>4
    <3>2. CASE i = Len(R)
      <4>1. R[i].role = t.role
        BY <1>4, <3>2
      <4>2. QED  BY <1>4, <3>1, <3>2, <4>1
    <3>3. CASE i # Len(R)
      BY <1>0, <1>4, <3>1, <3>3
    <3>4. QED  BY <3>1, <3>2, <3>3
  <2>3. QED  BY <2>1, <2>2 DEF R
<1>5. QED
  <2> HIDE DEF R
  <2>1. R = Absorb(S, t)
    BY DEF R
  <2>2. Dropped(S, t, R) \/ Added(S, t, R) \/ Merged(S, t, R)
    BY <2>1, AbsorbIs
  <2>3. QED  BY <1>2, <1>3, <1>4, <2>1, <2>2

\* Of any history of turns.
LEMMA NormalizedFaithful ==
  ASSUME NEW turns \in Seq(Turn)
  PROVE  /\ Normalized(turns) \in Seq(Turn)
         /\ Alternates(Normalized(turns))
         /\ Said(Normalized(turns), "user") = Said(turns, "user")
<1> DEFINE L == Len(turns)
<1>0. L \in Nat /\ L \in 0 .. L
  OBVIOUS
<1>1. PICK g \in [0 .. Len(turns) -> Seq(Turn)] :
           /\ g[0] = << >>
           /\ \A n \in 1 .. Len(turns) : g[n] = Absorb(g[n - 1], turns[n])
           /\ Normalized(turns) = g[Len(turns)]
  BY NormalizedSteps
<1>2. PICK h \in [0 .. Len(turns) -> Seq(Message)] :
        IsText(h, turns, "user") /\ Said(turns, "user") = h[Len(turns)]
  BY SaidSteps
<1> DEFINE T == {n \in 0 .. L : Alternates(g[n]) /\ Said(g[n], "user") = h[n]}
<1>3. 0 \in T /\ T \in SUBSET (0 .. L)
  BY <1>1, <1>2, NothingSaid DEF Alternates, IsText
<1>4. ASSUME NEW n \in 1 .. L, n - 1 \in T PROVE n \in T
  <2>1. g[n - 1] \in Seq(Turn) /\ turns[n] \in Turn /\ n \in 0 .. L
    BY <1>1
  <2>2. Alternates(g[n - 1]) /\ Said(g[n - 1], "user") = h[n - 1]
    BY <1>4
  <2>3. g[n] = Absorb(g[n - 1], turns[n])
    BY <1>1
  <2>4. Alternates(g[n]) /\ Said(g[n], "user") = With(h[n - 1], turns[n], "user")
    BY <2>1, <2>2, <2>3, AbsorbFaithful
  <2>5. QED  BY <1>2, <2>1, <2>4 DEF IsText
<1>5. T = 0 .. L
  <2> HIDE DEF T
  <2>1. QED  BY <1>0, <1>3, <1>4, UpTo
<1>6. L \in T
  <2> HIDE DEF T
  <2>1. QED  BY <1>0, <1>5
<1>7. QED  BY <1>0, <1>1, <1>2, <1>6

-----------------------------------------------------------------------------
(* What the cached histories are.                                          *)

\* Every sender has a history of turns.
HistoryType == history \in [Senders -> Seq(Turn)]

\* The turns of a message are turns, and its sender has a history.
LEMMA TurnTypes ==
  ASSUME NEW m \in Message
  PROVE  UserTurn(m) \in Turn /\ AssistantTurn(m) \in Turn /\ Sender[m] \in Senders
BY DEF UserTurn, AssistantTurn, Turn, Role, Senders

\* R is h without its first turns.
EndOf(R, h) ==
  \E d \in Nat : Len(R) + d = Len(h) /\ \A i \in 1 .. Len(R) : R[i] = h[i + d]

\* The newest turns are the end of the history.
LEMMA NewestIs ==
  ASSUME NEW h \in Seq(Turn), NEW n \in Nat \ {0}, NEW R, R = Newest(h, n)
  PROVE  R \in Seq(Turn) /\ (h # << >> => R # << >>) /\ EndOf(R, h)
<1> USE DEF EndOf
<1>1. CASE Len(h) <= n
  <2>1. R = h
    BY <1>1 DEF Newest
  <2>2. Len(R) + 0 = Len(h) /\ \A i \in 1 .. Len(R) : R[i] = h[i + 0]
    BY <2>1
  <2>3. QED  BY <2>1, <2>2
<1>2. CASE ~(Len(h) <= n)
  <2> DEFINE d == Len(h) - n
  <2>1. d \in Nat /\ Len(h) \in Nat /\ d < Len(h)
    BY <1>2
  <2>2. R = SubSeq(h, d + 1, Len(h))
    BY <1>2 DEF Newest
  <2> HIDE DEF d
  <2>3. /\ R \in Seq(Turn) /\ Len(R) = Len(h) - d
        /\ \A i \in 1 .. Len(h) - d : R[i] = h[i + d]
    <3>1. d + 1 \in Nat /\ Len(h) \in Nat /\ \A i \in (d + 1) .. Len(h) : h[i] \in Turn
      BY <2>1
    <3>2. Len(R) = Len(h) - d /\ \A i \in 1 .. Len(h) - d : R[i] = h[i + d]
      BY <2>1, <2>2
    <3>3. R \in Seq(Turn)
      BY <2>1, <2>2
    <3>4. QED  BY <3>2, <3>3
  <2>4. Len(R) + d = Len(h) /\ Len(R) # 0 /\ \A i \in 1 .. Len(R) : R[i] = h[i + d]
    BY <2>1, <2>3
  <2>5. R # << >>
    BY <2>4
  <2>6. QED  BY <2>1, <2>3, <2>4, <2>5
<1>3. QED  BY <1>1, <1>2

\* append_sender_turn leaves a history of turns ...
LEMMA AppendedType ==
  ASSUME NEW h \in Seq(Turn), NEW t \in Turn
  PROVE  Appended(h, t) \in Seq(Turn)
<1>1. Append(h, t) \in Seq(Turn)
  OBVIOUS
<1>2. QED  BY <1>1, NewestIs, HistoryAssumption DEF Appended

\* ... so does compact_sender_history ...
LEMMA CompactedType ==
  ASSUME NEW h \in Seq(Turn)
  PROVE  Compacted(h) \in Seq(Turn)
BY NewestIs, NormalizedFaithful, HistoryAssumption DEF Compacted

\* ... and rollback_orphan_user_turn, which leaves all turns but the last.
LEMMA ButLastType ==
  ASSUME NEW h \in Seq(Turn), h # << >>
  PROVE  /\ SubSeq(h, 1, Len(h) - 1) \in Seq(Turn)
         /\ Len(SubSeq(h, 1, Len(h) - 1)) = Len(h) - 1
         /\ \A i \in 1 .. Len(h) - 1 : SubSeq(h, 1, Len(h) - 1)[i] = h[i]
<1> DEFINE k == Len(h) - 1
           R == SubSeq(h, 1, k)
<1>1. k \in Nat /\ Len(h) = k + 1
  OBVIOUS
<1> HIDE DEF k
<1>2. \A i \in 1 .. k : h[i] \in Turn
  BY <1>1
<1>3. Len(R) = k /\ \A i \in 1 .. k : R[i] = h[i]
  BY <1>1
<1>4. R \in Seq(Turn)
  BY <1>1
<1>5. QED  BY <1>3, <1>4 DEF k

\* What each step does to the histories.
LEMMA HistoryCases ==
  ASSUME HistoryType, [Next]_vars
  PROVE  \/ UNCHANGED history
         \/ \E m \in Message :
              LET h == history[Sender[m]] IN
              \/ /\ AppendUserTurn(m)
                 /\ history' = [history EXCEPT ![Sender[m]] = Appended(h, UserTurn(m))]
              \/ /\ Answer(m)
                 /\ history' = [history EXCEPT ![Sender[m]] = Appended(h, AssistantTurn(m))]
              \/ /\ Overflow(m)
                 /\ history' = [history EXCEPT ![Sender[m]] = Compacted(h)]
              \/ /\ NoVision(m) /\ CanRollBack(h, m)
                 /\ history' = [history EXCEPT ![Sender[m]] = SubSeq(h, 1, Len(h) - 1)]
              \/ /\ NoVision(m) /\ ~CanRollBack(h, m)
                 /\ history' = [history EXCEPT ![Sender[m]] = Appended(h, AssistantTurn(m))]
              \/ /\ NewSession(m)
                 /\ history' = [history EXCEPT ![Sender[m]] = << >>]
<1>1. ASSUME NEW m \in Message,
             AppendUserTurn(m) \/ Answer(m) \/ Overflow(m) \/ NoVision(m) \/ NewSession(m)
      PROVE  LET h == history[Sender[m]] IN
              \/ /\ AppendUserTurn(m)
                 /\ history' = [history EXCEPT ![Sender[m]] = Appended(h, UserTurn(m))]
              \/ /\ Answer(m)
                 /\ history' = [history EXCEPT ![Sender[m]] = Appended(h, AssistantTurn(m))]
              \/ /\ Overflow(m)
                 /\ history' = [history EXCEPT ![Sender[m]] = Compacted(h)]
              \/ /\ NoVision(m) /\ CanRollBack(h, m)
                 /\ history' = [history EXCEPT ![Sender[m]] = SubSeq(h, 1, Len(h) - 1)]
              \/ /\ NoVision(m) /\ ~CanRollBack(h, m)
                 /\ history' = [history EXCEPT ![Sender[m]] = Appended(h, AssistantTurn(m))]
              \/ /\ NewSession(m)
                 /\ history' = [history EXCEPT ![Sender[m]] = << >>]
  <2>1. Sender[m] \in Senders
    BY TurnTypes
  <2>2. CASE AppendUserTurn(m)
    BY <2>1, <2>2 DEF AppendUserTurn, HistoryType
  <2>3. CASE Answer(m)
    BY <2>1, <2>3 DEF Answer, HistoryType
  <2>4. CASE Overflow(m)
    BY <2>1, <2>4 DEF Overflow, HistoryType
  <2>5. CASE NoVision(m)
    BY <2>1, <2>5 DEF NoVision, HistoryType
  <2>6. CASE NewSession(m)
    BY <2>1, <2>6 DEF NewSession, HistoryType
  <2>7. QED  BY <1>1, <2>2, <2>3, <2>4, <2>5, <2>6
<1>2. ASSUME NEW m \in Message, Work(m),
             ~(AppendUserTurn(m) \/ Answer(m) \/ Overflow(m) \/ NoVision(m) \/ NewSession(m))
      PROVE  UNCHANGED history
  BY <1>2 DEF Work, Finish, Register, Cancel, CheckDone, AwaitDone, Start, Look, ReadHistory,
              Interrupted, Suppress, Leave, MarkDone
<1>3. ASSUME Arrive \/ Receive \/ UNCHANGED vars PROVE UNCHANGED history
  BY <1>3 DEF Arrive, Receive, vars
<1>4. QED
  BY <1>1, <1>2, <1>3 DEF Next

\* No step makes anything else of a history.
LEMMA HistoryTypeStep == HistoryType /\ [Next]_vars => HistoryType'
<1> SUFFICES ASSUME HistoryType, [Next]_vars
             PROVE  HistoryType'
  OBVIOUS
<1>1. CASE UNCHANGED history
  BY <1>1 DEF HistoryType, Senders
<1>2. ASSUME NEW m \in Message, NEW new \in Seq(Turn),
             history' = [history EXCEPT ![Sender[m]] = new]
      PROVE  HistoryType'
  BY <1>2, TurnTypes DEF HistoryType, Senders
<1>3. ASSUME NEW m \in Message
      PROVE  LET h == history[Sender[m]] IN
             /\ Appended(h, UserTurn(m)) \in Seq(Turn)
             /\ Appended(h, AssistantTurn(m)) \in Seq(Turn)
             /\ Compacted(h) \in Seq(Turn)
             /\ CanRollBack(h, m) => SubSeq(h, 1, Len(h) - 1) \in Seq(Turn)
             /\ << >> \in Seq(Turn)
  <2>1. Sender[m] \in Senders /\ UserTurn(m) \in Turn /\ AssistantTurn(m) \in Turn
    BY TurnTypes
  <2>2. history[Sender[m]] \in Seq(Turn)
    BY <2>1 DEF HistoryType
  <2>3. << >> \in Seq(Turn)
    OBVIOUS
  <2>4. QED
    BY <2>1, <2>2, <2>3, AppendedType, CompactedType, ButLastType DEF CanRollBack
<1>4. QED
  BY <1>1, <1>2, <1>3, HistoryCases

\* The histories are sequences of turns, for any messages and senders.
LEMMA HistoryTypeInvariant == Spec => []HistoryType
<1>1. Init => HistoryType
  BY DEF Init, HistoryType
<1>2. QED
  BY <1>1, HistoryTypeStep, PTL DEF Spec

-----------------------------------------------------------------------------
(* The order of a conversation.                                            *)

\* The last message a turn has the text of.
LastOf(turn) == turn.of[Len(turn.of)]

\* Every answer follows the text it answers, or is the oldest turn left; no two user
\* turns end with the same message.
Ordered(h) ==
  /\ \A i \in DOMAIN h : h[i].role = "user" => h[i].of # << >>
  /\ \A i \in DOMAIN h : h[i].role = "assistant" /\ i > 1 =>
       h[i - 1].role = "user" /\ h[i].of = <<LastOf(h[i - 1])>>
  /\ \A i, j \in DOMAIN h :
       h[i].role = "user" /\ h[j].role = "user" /\ LastOf(h[i]) = LastOf(h[j]) => i = j

\* The user turns of R end with what user turns of h end with.
EndsWithin(R, h) ==
  \A i \in DOMAIN R : R[i].role = "user" =>
    \E k \in DOMAIN h : h[k].role = "user" /\ LastOf(h[k]) = LastOf(R[i])

\* A text ends with what was appended to it.
LEMMA LastOfBoth ==
  ASSUME NEW a \in Seq(Message), NEW b \in Seq(Message), b # << >>
  PROVE  a \o b # << >> /\ (a \o b)[Len(a \o b)] = b[Len(b)]
<1>1. Len(a) \in Nat /\ Len(b) \in Nat \ {0}
  OBVIOUS
<1>2. Len(a \o b) = Len(a) + Len(b)
  OBVIOUS
<1>3. (a \o b)[Len(a) + Len(b)] = b[Len(b)]
  BY <1>1
<1>4. QED
  BY <1>1, <1>2, <1>3

\* Trimming at either end keeps the order.
LEMMA OrderedPart ==
  ASSUME NEW h \in Seq(Turn), Ordered(h), NEW R \in Seq(Turn), NEW d \in Nat,
         Len(R) + d <= Len(h), \A i \in 1 .. Len(R) : R[i] = h[i + d]
  PROVE  Ordered(R) /\ EndsWithin(R, h)
<1>0. Len(R) \in Nat /\ Len(h) \in Nat /\ DOMAIN R = 1 .. Len(R) /\ DOMAIN h = 1 .. Len(h)
  OBVIOUS
<1>1. \A i \in DOMAIN R : i + d \in DOMAIN h /\ R[i] = h[i + d]
  BY <1>0
<1>2. EndsWithin(R, h)
  BY <1>1 DEF EndsWithin
<1>3. \A i \in DOMAIN R : R[i].role = "user" => R[i].of # << >>
  BY <1>1 DEF Ordered
<1>4. ASSUME NEW i \in DOMAIN R, R[i].role = "assistant", i > 1
      PROVE  R[i - 1].role = "user" /\ R[i].of = <<LastOf(R[i - 1])>>
  <2>1. i - 1 \in DOMAIN R /\ i + d > 1 /\ (i - 1) + d = (i + d) - 1
    BY <1>0, <1>4
  <2>2. R[i - 1] = h[(i + d) - 1] /\ R[i] = h[i + d] /\ i + d \in DOMAIN h
    BY <1>1, <2>1
  <2>3. QED  BY <1>4, <2>1, <2>2 DEF Ordered
<1>5. ASSUME NEW i \in DOMAIN R, NEW j \in DOMAIN R,
             R[i].role = "user", R[j].role = "user", LastOf(R[i]) = LastOf(R[j])
      PROVE  i = j
  <2>1. i + d = j + d
    BY <1>1, <1>5 DEF Ordered
  <2>2. QED  BY <1>0, <2>1
<1>6. QED
  BY <1>2, <1>3, <1>4, <1>5 DEF Ordered

\* Trimming to the newest turns ...
LEMMA OrderedNewest ==
  ASSUME NEW h \in Seq(Turn), Ordered(h), NEW n \in Nat \ {0}
  PROVE  Ordered(Newest(h, n)) /\ EndsWithin(Newest(h, n), h)
<1> DEFINE R == Newest(h, n)
<1>0. R = Newest(h, n)
  OBVIOUS
<1> HIDE DEF R
<1>1. R \in Seq(Turn)
  BY <1>0, NewestIs
<1>2. EndOf(R, h)
  BY <1>0, NewestIs
<1>3. PICK d \in Nat : Len(R) + d = Len(h) /\ \A i \in 1 .. Len(R) : R[i] = h[i + d]
  BY <1>2 DEF EndOf
<1>4. Len(R) + d <= Len(h)
  BY <1>3
<1>5. Ordered(R) /\ EndsWithin(R, h)
  BY <1>1, <1>3, <1>4, OrderedPart
<1>6. QED  BY <1>5 DEF R

\* ... and taking back the last one do.
LEMMA OrderedButLast ==
  ASSUME NEW h \in Seq(Turn), Ordered(h), h # << >>
  PROVE  LET R == SubSeq(h, 1, Len(h) - 1) IN Ordered(R) /\ EndsWithin(R, h)
<1> DEFINE R == SubSeq(h, 1, Len(h) - 1)
<1>1. R \in Seq(Turn) /\ Len(R) = Len(h) - 1 /\ \A i \in 1 .. Len(h) - 1 : R[i] = h[i]
  BY ButLastType
<1> HIDE DEF R
<1>2. Len(R) + 0 <= Len(h) /\ \A i \in 1 .. Len(R) : R[i] = h[i + 0]
  BY <1>1
<1>3. Ordered(R) /\ EndsWithin(R, h)
  BY <1>1, <1>2, OrderedPart
<1>4. QED  BY <1>3 DEF R

\* A message that no turn ends with yet may be asked.
LEMMA OrderedUser ==
  ASSUME NEW h \in Seq(Turn), Ordered(h), NEW m \in Message,
         \A i \in DOMAIN h : h[i].role = "user" => LastOf(h[i]) # m
  PROVE  Ordered(Append(h, UserTurn(m)))
<1> DEFINE R == Append(h, UserTurn(m))
<1>0. UserTurn(m) \in Turn
  BY TurnTypes
<1>1. /\ R \in Seq(Turn) /\ Len(R) = Len(h) + 1 /\ R[Len(h) + 1] = UserTurn(m)
      /\ \A i \in DOMAIN h : R[i] = h[i]
      /\ DOMAIN R = 1 .. Len(h) + 1 /\ DOMAIN h = 1 .. Len(h) /\ Len(h) \in Nat
  BY <1>0
<1> HIDE DEF R
<1>2. /\ R[Len(h) + 1].role = "user" /\ LastOf(R[Len(h) + 1]) = m
      /\ R[Len(h) + 1].of # << >>
  <2>1. UserTurn(m).role = "user" /\ UserTurn(m).of # << >> /\ LastOf(UserTurn(m)) = m
    BY DEF UserTurn, LastOf
  <2>2. QED  BY <1>1, <2>1
<1>3. \A i \in DOMAIN R : i = Len(h) + 1 \/ i \in DOMAIN h
  BY <1>1
<1>4. \A i \in DOMAIN R : R[i].role = "user" => R[i].of # << >>
  BY <1>1, <1>2, <1>3 DEF Ordered
<1>5. ASSUME NEW i \in DOMAIN R, R[i].role = "assistant", i > 1
      PROVE  R[i - 1].role = "user" /\ R[i].of = <<LastOf(R[i - 1])>>
  <2>1. i \in DOMAIN h /\ i - 1 \in DOMAIN h
    BY <1>1, <1>2, <1>3, <1>5
  <2>2. QED  BY <1>1, <1>5, <2>1 DEF Ordered
<1>6. ASSUME NEW i \in DOMAIN R, NEW j \in DOMAIN R,
             R[i].role = "user", R[j].role = "user", LastOf(R[i]) = LastOf(R[j])
      PROVE  i = j
  BY <1>1, <1>2, <1>3, <1>6 DEF Ordered
<1>7. Ordered(R)
  BY <1>4, <1>5, <1>6 DEF Ordered
<1>8. QED  BY <1>7 DEF R

\* A message may be answered while its turn is the last one.
LEMMA OrderedAssistant ==
  ASSUME NEW h \in Seq(Turn), Ordered(h), NEW m \in Message,
         h # << >>, h[Len(h)] = UserTurn(m)
  PROVE  Ordered(Append(h, AssistantTurn(m)))
<1> DEFINE R == Append(h, AssistantTurn(m))
<1>0. AssistantTurn(m) \in Turn
  BY TurnTypes
<1>1. /\ R \in Seq(Turn) /\ Len(R) = Len(h) + 1 /\ R[Len(h) + 1] = AssistantTurn(m)
      /\ \A i \in DOMAIN h : R[i] = h[i]
      /\ DOMAIN R = 1 .. Len(h) + 1 /\ DOMAIN h = 1 .. Len(h) /\ Len(h) \in Nat
      /\ Len(h) \in DOMAIN h
  BY <1>0
<1> HIDE DEF R
<1>2. R[Len(h) + 1].role = "assistant" /\ R[Len(h) + 1].of = <<m>>
  BY <1>1 DEF AssistantTurn
<1>3. R[Len(h)].role = "user" /\ LastOf(R[Len(h)]) = m
  <2>1. UserTurn(m).role = "user" /\ LastOf(UserTurn(m)) = m
    BY DEF UserTurn, LastOf
  <2>2. QED  BY <1>1, <2>1
<1>4. \A i \in DOMAIN R : i = Len(h) + 1 \/ i \in DOMAIN h
  BY <1>1
<1>5. \A i \in DOMAIN R : R[i].role = "user" => i \in DOMAIN h
  BY <1>2, <1>4
<1>6. \A i \in DOMAIN R : R[i].role = "user" => R[i].of # << >>
  BY <1>1, <1>5 DEF Ordered
<1>7. ASSUME NEW i \in DOMAIN R, R[i].role = "assistant", i > 1
      PROVE  R[i - 1].role = "user" /\ R[i].of = <<LastOf(R[i - 1])>>
  <2>1. CASE i = Len(h) + 1
    <3>1. i - 1 = Len(h)
      BY <1>1, <2>1
    <3>2. QED  BY <1>2, <1>3, <2>1, <3>1
  <2>2. CASE i \in DOMAIN h
    <3>1. i - 1 \in DOMAIN h
      BY <1>1, <1>7, <2>2
    <3>2. QED  BY <1>1, <1>7, <2>2, <3>1 DEF Ordered
  <2>3. QED  BY <1>4, <2>1, <2>2
<1>8. ASSUME NEW i \in DOMAIN R, NEW j \in DOMAIN R,
             R[i].role = "user", R[j].role = "user", LastOf(R[i]) = LastOf(R[j])
      PROVE  i = j
  BY <1>1, <1>5, <1>8 DEF Ordered
<1>9. Ordered(R)
  BY <1>6, <1>7, <1>8 DEF Ordered
<1>10. QED  BY <1>9 DEF R

-----------------------------------------------------------------------------
\* S is what the first n turns of an ordered history normalise to.
Follows(S, h, n) ==
  /\ Ordered(S)
  /\ \A i \in DOMAIN S : S[i].role = "user" =>
       \E k \in 1 .. n : h[k].role = "user" /\ LastOf(h[k]) = LastOf(S[i])
  /\ S # << >> => /\ n > 0
                  /\ S[Len(S)].role = h[n].role
                  /\ LastOf(S[Len(S)]) = LastOf(h[n])

\* A turn that is added to what has been normalised keeps the order ...
LEMMA FollowsAdded ==
  ASSUME NEW h \in Seq(Turn), Ordered(h), NEW n \in 1 .. Len(h), NEW S \in Seq(Turn),
         Follows(S, h, n - 1), NEW R \in Seq(Turn), Added(S, h[n], R)
  PROVE  Follows(R, h, n)
<1>0. /\ Len(S) \in Nat /\ Len(h) \in Nat /\ n \in DOMAIN h /\ n \in Nat /\ n - 1 \in Nat
      /\ DOMAIN R = 1 .. Len(S) + 1 /\ DOMAIN S = 1 .. Len(S)
      /\ DOMAIN h = 1 .. Len(h)
      /\ Len(R) = Len(S) + 1
  BY DEF Added
<1>1. /\ R[Len(S) + 1] = h[n]
      /\ \A i \in DOMAIN S : R[i] = S[i]
  BY <1>0 DEF Added
<1>2. \A i \in DOMAIN R : i = Len(S) + 1 \/ i \in DOMAIN S
  BY <1>0
<1>3. \A i \in DOMAIN S : S[i].role = "user" =>
        \E k \in 1 .. n - 1 : h[k].role = "user" /\ LastOf(h[k]) = LastOf(S[i])
  BY DEF Follows
<1>4. \A i \in DOMAIN S : S[i].role = "user" /\ h[n].role = "user" => LastOf(S[i]) # LastOf(h[n])
  <2> SUFFICES ASSUME NEW i \in DOMAIN S, S[i].role = "user", h[n].role = "user",
                      LastOf(S[i]) = LastOf(h[n])
               PROVE  FALSE
    OBVIOUS
  <2>1. PICK k \in 1 .. n - 1 : h[k].role = "user" /\ LastOf(h[k]) = LastOf(S[i])
    BY <1>3
  <2>2. k \in DOMAIN h /\ k # n
    BY <1>0
  <2>3. QED  BY <1>0, <2>1, <2>2 DEF Ordered
<1>5. \A i \in DOMAIN R : R[i].role = "user" => R[i].of # << >>
  BY <1>0, <1>1, <1>2 DEF Ordered, Follows
<1>6. ASSUME NEW i \in DOMAIN R, R[i].role = "assistant", i > 1
      PROVE  R[i - 1].role = "user" /\ R[i].of = <<LastOf(R[i - 1])>>
  <2>1. CASE i = Len(S) + 1
    <3>1. S # << >> /\ Len(S) \in DOMAIN S /\ i - 1 = Len(S)
      BY <1>0, <1>6, <2>1
    <3>2. n > 1 /\ S[Len(S)].role = h[n - 1].role /\ LastOf(S[Len(S)]) = LastOf(h[n - 1])
      BY <1>0, <3>1 DEF Follows
    <3>3. h[n].role = "assistant"
      BY <1>1, <1>6, <2>1
    <3>4. h[n - 1].role = "user" /\ h[n].of = <<LastOf(h[n - 1])>>
      BY <1>0, <3>2, <3>3 DEF Ordered
    <3>5. QED  BY <1>1, <2>1, <3>1, <3>2, <3>4
  <2>2. CASE i \in DOMAIN S
    <3>1. i - 1 \in DOMAIN S
      BY <1>0, <1>6, <2>2
    <3>2. QED  BY <1>1, <1>6, <2>2, <3>1 DEF Ordered, Follows
  <2>3. QED  BY <1>2, <2>1, <2>2
<1>7. ASSUME NEW i \in DOMAIN R, NEW j \in DOMAIN R,
             R[i].role = "user", R[j].role = "user", LastOf(R[i]) = LastOf(R[j])
      PROVE  i = j
  <2>1. CASE i \in DOMAIN S /\ j \in DOMAIN S
    BY <1>1, <1>7, <2>1 DEF Ordered, Follows
  <2>2. CASE i = Len(S) + 1 /\ j = Len(S) + 1
    BY <2>2
  <2>3. CASE i = Len(S) + 1 /\ j \in DOMAIN S
    BY <1>1, <1>4, <1>7, <2>3
  <2>4. CASE i \in DOMAIN S /\ j = Len(S) + 1
    BY <1>1, <1>4, <1>7, <2>4
  <2>5. QED  BY <1>2, <2>1, <2>2, <2>3, <2>4
<1>8. Ordered(R)
  BY <1>5, <1>6, <1>7 DEF Ordered
<1>9. \A i \in DOMAIN R : R[i].role = "user" =>
        \E k \in 1 .. n : h[k].role = "user" /\ LastOf(h[k]) = LastOf(R[i])
  <2> SUFFICES ASSUME NEW i \in DOMAIN R, R[i].role = "user"
               PROVE  \E k \in 1 .. n : h[k].role = "user" /\ LastOf(h[k]) = LastOf(R[i])
    OBVIOUS
  <2>1. CASE i = Len(S) + 1
    BY <1>0, <1>1, <2>1
  <2>2. CASE i \in DOMAIN S
    <3>1. PICK k \in 1 .. n - 1 : h[k].role = "user" /\ LastOf(h[k]) = LastOf(S[i])
      BY <1>1, <1>3, <2>2
    <3>2. k \in 1 .. n
      BY <1>0
    <3>3. QED  BY <1>1, <2>2, <3>1, <3>2
  <2>3. QED  BY <1>2, <2>1, <2>2
<1>10. n > 0 /\ R[Len(R)].role = h[n].role /\ LastOf(R[Len(R)]) = LastOf(h[n])
  BY <1>0, <1>1
<1>11. QED
  BY <1>8, <1>9, <1>10 DEF Follows

\* ... and one that is merged is a user turn, and keeps it, too.
LEMMA FollowsMerged ==
  ASSUME NEW h \in Seq(Turn), Ordered(h), NEW n \in 1 .. Len(h), NEW S \in Seq(Turn),
         Follows(S, h, n - 1), NEW R \in Seq(Turn), Merged(S, h[n], R)
  PROVE  Follows(R, h, n)
<1>0. /\ Len(S) \in Nat /\ Len(h) \in Nat /\ n \in DOMAIN h /\ n \in Nat /\ n - 1 \in Nat
      /\ DOMAIN R = DOMAIN S /\ DOMAIN S = 1 .. Len(S)
      /\ DOMAIN h = 1 .. Len(h)
      /\ Len(R) = Len(S) /\ Len(S) \in DOMAIN S /\ S # << >>
  BY DEF Merged
<1>1. /\ R[Len(S)] = [role |-> h[n].role, of |-> S[Len(S)].of \o h[n].of]
      /\ \A i \in 1 .. Len(S) - 1 : R[i] = S[i]
  BY <1>0 DEF Merged
<1>2. \A i \in DOMAIN R : i = Len(S) \/ (i \in 1 .. Len(S) - 1 /\ i \in DOMAIN S)
  BY <1>0
<1>3. n > 1 /\ S[Len(S)].role = h[n - 1].role /\ h[n].role = S[Len(S)].role
  BY <1>0 DEF Follows, Merged
<1>4. h[n].role = "user" /\ h[n].of # << >>
  <2>1. h[n].role \in Role
    <3>1. h[n] \in Turn
      BY <1>0
    <3>2. QED  BY <3>1 DEF Turn
  <2>2. h[n].role # "assistant"
    BY <1>0, <1>3 DEF Ordered
  <2>3. QED  BY <1>0, <2>1, <2>2 DEF Role, Ordered
<1>5. R[Len(S)].role = "user" /\ R[Len(S)].of # << >> /\ LastOf(R[Len(S)]) = LastOf(h[n])
  <2> DEFINE a == S[Len(S)].of
             b == h[n].of
             last == R[Len(S)]
  <2>1. S[Len(S)] \in Turn /\ h[n] \in Turn
    BY <1>0
  <2>2. a \in Seq(Message) /\ b \in Seq(Message) /\ b # << >>
    BY <1>4, <2>1 DEF Turn
  <2>3. last = [role |-> h[n].role, of |-> a \o b]
    BY <1>1
  <2> HIDE DEF a, b, last
  <2>4. a \o b # << >> /\ (a \o b)[Len(a \o b)] = b[Len(b)]
    BY <2>2, LastOfBoth
  <2>5. last.role = h[n].role /\ last.of = a \o b
    BY <2>3
  <2>6. LastOf(last) = b[Len(b)]
    BY <2>4, <2>5 DEF LastOf
  <2>7. QED  BY <1>4, <2>4, <2>5, <2>6 DEF b, last, LastOf
<1>6. \A i \in DOMAIN S : S[i].role = "user" =>
        \E k \in 1 .. n - 1 : h[k].role = "user" /\ LastOf(h[k]) = LastOf(S[i])
  BY DEF Follows
<1>7. \A i \in DOMAIN S : S[i].role = "user" => LastOf(S[i]) # LastOf(h[n])
  <2> SUFFICES ASSUME NEW i \in DOMAIN S, S[i].role = "user", LastOf(S[i]) = LastOf(h[n])
               PROVE  FALSE
    OBVIOUS
  <2>1. PICK k \in 1 .. n - 1 : h[k].role = "user" /\ LastOf(h[k]) = LastOf(S[i])
    BY <1>6
  <2>2. k \in DOMAIN h /\ k # n
    BY <1>0
  <2>3. QED  BY <1>0, <1>4, <2>1, <2>2 DEF Ordered
<1>8. \A i \in DOMAIN R : R[i].role = "user" => R[i].of # << >>
  BY <1>0, <1>1, <1>2, <1>5 DEF Ordered, Follows
<1>9. ASSUME NEW i \in DOMAIN R, R[i].role = "assistant", i > 1
      PROVE  R[i - 1].role = "user" /\ R[i].of = <<LastOf(R[i - 1])>>
  <2>1. i \in 1 .. Len(S) - 1 /\ i \in DOMAIN S
    BY <1>2, <1>5, <1>9
  <2>2. i - 1 \in 1 .. Len(S) - 1 /\ i - 1 \in DOMAIN S
    BY <1>0, <1>9, <2>1
  <2>3. QED  BY <1>1, <1>9, <2>1, <2>2 DEF Ordered, Follows
<1>10. ASSUME NEW i \in DOMAIN R, NEW j \in DOMAIN R,
              R[i].role = "user", R[j].role = "user", LastOf(R[i]) = LastOf(R[j])
       PROVE  i = j
  <2>1. CASE i \in 1 .. Len(S) - 1 /\ j \in 1 .. Len(S) - 1
    BY <1>0, <1>1, <1>10, <2>1 DEF Ordered, Follows
  <2>2. CASE i = Len(S) /\ j = Len(S)
    BY <2>2
  <2>3. CASE i = Len(S) /\ j \in 1 .. Len(S) - 1
    BY <1>0, <1>1, <1>5, <1>7, <1>10, <2>3
  <2>4. CASE i \in 1 .. Len(S) - 1 /\ j = Len(S)
    BY <1>0, <1>1, <1>5, <1>7, <1>10, <2>4
  <2>5. QED  BY <1>2, <2>1, <2>2, <2>3, <2>4
<1>11. Ordered(R)
  BY <1>8, <1>9, <1>10 DEF Ordered
<1>12. \A i \in DOMAIN R : R[i].role = "user" =>
         \E k \in 1 .. n : h[k].role = "user" /\ LastOf(h[k]) = LastOf(R[i])
  <2> SUFFICES ASSUME NEW i \in DOMAIN R, R[i].role = "user"
               PROVE  \E k \in 1 .. n : h[k].role = "user" /\ LastOf(h[k]) = LastOf(R[i])
    OBVIOUS
  <2>1. CASE i = Len(S)
    BY <1>0, <1>4, <1>5, <2>1
  <2>2. CASE i \in 1 .. Len(S) - 1
    <3>1. PICK k \in 1 .. n - 1 : h[k].role = "user" /\ LastOf(h[k]) = LastOf(S[i])
      BY <1>0, <1>1, <1>6, <2>2
    <3>2. k \in 1 .. n
      BY <1>0
    <3>3. QED  BY <1>1, <2>2, <3>1, <3>2
  <2>3. QED  BY <1>2, <2>1, <2>2
<1>13. n > 0 /\ R[Len(R)].role = h[n].role /\ LastOf(R[Len(R)]) = LastOf(h[n])
  BY <1>0, <1>4, <1>5
<1>14. QED
  BY <1>11, <1>12, <1>13 DEF Follows

\* What is merged by normalisation stays in order.
LEMMA OrderedNormalized ==
  ASSUME NEW h \in Seq(Turn), Ordered(h)
  PROVE  /\ Ordered(Normalized(h)) /\ EndsWithin(Normalized(h), h)
         /\ Follows(Normalized(h), h, Len(h))
<1> DEFINE L == Len(h)
<1>0. L \in Nat /\ L \in 0 .. L /\ DOMAIN h = 1 .. L
  OBVIOUS
<1>1. PICK g \in [0 .. Len(h) -> Seq(Turn)] :
           /\ g[0] = << >>
           /\ \A n \in 1 .. Len(h) : g[n] = Absorb(g[n - 1], h[n])
           /\ Normalized(h) = g[Len(h)]
  BY NormalizedSteps
<1> DEFINE T == {n \in 0 .. L : Follows(g[n], h, n)}
<1>2. 0 \in T /\ T \in SUBSET (0 .. L)
  BY <1>1 DEF Follows, Ordered
<1>3. ASSUME NEW n \in 1 .. L, n - 1 \in T PROVE n \in T
  <2> DEFINE S == g[n - 1]
             R == g[n]
  <2>1. S \in Seq(Turn) /\ R \in Seq(Turn) /\ h[n] \in Turn /\ n \in 0 .. L
    BY <1>1
  <2>2. Follows(S, h, n - 1)
    BY <1>3
  <2>3. R = Absorb(S, h[n])
    BY <1>1
  <2> HIDE DEF S, R
  <2>4. Dropped(S, h[n], R) \/ Added(S, h[n], R) \/ Merged(S, h[n], R)
    BY <2>1, <2>3, AbsorbIs
  <2>5. ASSUME Dropped(S, h[n], R) PROVE Follows(R, h, n)
    BY <2>5 DEF Dropped, Follows, Ordered
  <2>6. ASSUME Added(S, h[n], R) PROVE Follows(R, h, n)
    BY <2>1, <2>2, <2>6, FollowsAdded
  <2>7. ASSUME Merged(S, h[n], R) PROVE Follows(R, h, n)
    BY <2>1, <2>2, <2>7, FollowsMerged
  <2>8. Follows(R, h, n)
    BY <2>4, <2>5, <2>6, <2>7
  <2>9. QED  BY <2>1, <2>8 DEF R
<1>4. T = 0 .. L
  <2> HIDE DEF T
  <2>1. QED  BY <1>0, <1>2, <1>3, UpTo
<1>5. L \in T
  <2> HIDE DEF T
  <2>1. QED  BY <1>0, <1>4
<1>6. Follows(Normalized(h), h, L)
  BY <1>1, <1>5
<1>7. QED
  BY <1>0, <1>6 DEF Follows, EndsWithin

-----------------------------------------------------------------------------
(* Conversations, with interruption on.                                    *)

\* The workers whose message is no turn yet, and those whose message is the last turn.
Unasked == Waits \cup {"new", "spawned", "start", "look", "append"}
Talking == {"read", "generate", "interrupted"}

\* The last turn of h.
EndsWith(h, turn) == h # << >> /\ h[Len(h)] = turn

\* The histories are in order; their user turns end with messages of their sender that
\* have been asked; and the message a worker is answering, or gave up, is the last turn.
Conversed ==
  \A s \in Senders :
    /\ Ordered(history[s])
    /\ \A i \in DOMAIN history[s] : history[s][i].role = "user" =>
         /\ LastOf(history[s][i]) \in Message
         /\ Sender[LastOf(history[s][i])] = s
         /\ pc[LastOf(history[s][i])] \notin Unasked
    /\ \A m \in Message : Sender[m] = s /\ pc[m] \in Talking => EndsWith(history[s], UserTurn(m))

\* What holds instead without interruption.
NeverCancelled == cancelled = {} /\ \A m \in Message : pc[m] \notin {"cancel", "interrupted"}

TalkInv == IF interrupt THEN Conversed ELSE NeverCancelled

\* Two workers of one sender that do not wait are the same.
LEMMA OneTalker ==
  ASSUME OneScope, DispatchInv, interrupt, NEW m \in Message, NEW n \in Message,
         Sender[m] = Sender[n], pc[m] \in Busy \ Waits, pc[n] \in Busy \ Waits
  PROVE  m = n
<1>1. Scope(m) = Scope(n) /\ Scope(m) \in Scopes
  BY DEF OneScope, Scope, Scopes
<1>2. PICK q : Chain(q, Scope(m))
  BY <1>1 DEF DispatchInv, Chained
<1>3. QED
  BY <1>1, <1>2, FirstOfChain

\* A worker asks once, and is answered after that.
LEMMA Asked ==
  ASSUME DispatchTypeOK, [Next]_vars, NEW x \in Message
  PROVE  /\ pc[x] \notin Unasked => pc'[x] \notin Unasked
         /\ pc'[x] \in Talking => pc[x] \in Talking \/ AppendUserTurn(x)
<1> USE DEF DispatchTypeOK, Goto, Unasked, Talking, Waits
<1>1. CASE Arrive
  BY <1>1 DEF Arrive
<1>2. CASE Receive
  <2>1. received + 1 \in Message /\ pc[received + 1] = "new"
    BY <1>2, DispatchAssumption DEF Receive, Message
  <2>2. QED
    BY <1>2, <2>1 DEF Receive
<1>3. ASSUME NEW m \in Message, Register(m)
      PROVE  /\ pc[x] \notin Unasked => pc'[x] \notin Unasked
             /\ pc'[x] \in Talking => pc[x] \in Talking \/ AppendUserTurn(x)
  <2>1. PICK p \in {"start", "cancel"} : pc' = [pc EXCEPT ![m] = p] /\ pc[m] = "spawned"
    BY <1>3 DEF Register
  <2>2. QED  BY <2>1
<1>4. ASSUME NEW m \in Message, Cancel(m) \/ CheckDone(m) \/ AwaitDone(m) \/ Leave(m)
      PROVE  /\ pc[x] \notin Unasked => pc'[x] \notin Unasked
             /\ pc'[x] \in Talking => pc[x] \in Talking \/ AppendUserTurn(x)
  BY <1>4 DEF Cancel, CheckDone, AwaitDone, Leave
<1>5. ASSUME NEW m \in Message, MarkDone(m)
      PROVE  /\ pc[x] \notin Unasked => pc'[x] \notin Unasked
             /\ pc'[x] \in Talking => pc[x] \in Talking \/ AppendUserTurn(x)
  BY <1>5 DEF MarkDone
<1>6. ASSUME NEW m \in Message,
             Start(m) \/ NewSession(m) \/ Look(m) \/ ReadHistory(m) \/ Finish(m)
      PROVE  /\ pc[x] \notin Unasked => pc'[x] \notin Unasked
             /\ pc'[x] \in Talking => pc[x] \in Talking \/ AppendUserTurn(x)
  <2>1. PICK p \in Place : pc' = [pc EXCEPT ![m] = p]
    BY <1>6 DEF Start, NewSession, Look, ReadHistory, Finish, Interrupted, Answer, Suppress,
                Overflow, NoVision, Place
  <2>2. /\ pc[m] = "start" => p \in {"skipped", "look", "leave"}
        /\ pc[m] = "look" => p = "append"
        /\ pc[m] \notin {"start", "look"} => pc[m] \in {"read", "generate"}
                              /\ p \in {"generate", "interrupted", "leave"}
        /\ pc[m] \in {"start", "look", "read", "generate"}
    BY <1>6, <2>1 DEF Start, NewSession, Look, ReadHistory, Finish, Interrupted, Answer, Suppress,
                      Overflow, NoVision
  <2>3. QED
    BY <2>1, <2>2
<1>7. ASSUME NEW m \in Message, AppendUserTurn(m)
      PROVE  /\ pc[x] \notin Unasked => pc'[x] \notin Unasked
             /\ pc'[x] \in Talking => pc[x] \in Talking \/ AppendUserTurn(x)
  <2>1. pc' = [pc EXCEPT ![m] = "read"]
    BY <1>7 DEF AppendUserTurn
  <2>2. QED  BY <1>7, <2>1
<1>8. CASE UNCHANGED vars
  BY <1>8 DEF vars
<1>9. QED
  BY <1>1, <1>2, <1>3, <1>4, <1>5, <1>6, <1>7, <1>8 DEF Next, Work

\* A new history R of the sender of m, which m has to itself.
LEMMA Spoken ==
  ASSUME OneScope, DispatchInv, HistoryType, interrupt, Conversed, [Next]_vars,
         NEW m \in Message, pc[m] \in {"start", "append", "generate"}, NEW R \in Seq(Turn),
         history' = [history EXCEPT ![Sender[m]] = R],
         Ordered(R),
         \A i \in DOMAIN R : R[i].role = "user" =>
           LastOf(R[i]) = m \/ \E k \in DOMAIN history[Sender[m]] :
                                 /\ history[Sender[m]][k].role = "user"
                                 /\ LastOf(history[Sender[m]][k]) = LastOf(R[i]),
         pc'[m] \notin Unasked,
         pc'[m] \in Talking => EndsWith(R, UserTurn(m)),
         \A x \in Message : AppendUserTurn(x) => x = m
  PROVE  Conversed'
<1> SUFFICES ASSUME NEW s \in Senders
             PROVE  /\ Ordered(history'[s])
                    /\ \A i \in DOMAIN history'[s] : history'[s][i].role = "user" =>
                         /\ LastOf(history'[s][i]) \in Message
                         /\ Sender[LastOf(history'[s][i])] = s
                         /\ pc'[LastOf(history'[s][i])] \notin Unasked
                    /\ \A x \in Message : Sender[x] = s /\ pc'[x] \in Talking =>
                         EndsWith(history'[s], UserTurn(x))
  BY DEF Conversed, Senders
<1>0. Sender[m] \in Senders /\ DispatchTypeOK
  BY TurnTypes DEF DispatchInv
<1>1. \A x \in Message : pc[x] \notin Unasked => pc'[x] \notin Unasked
  BY <1>0, Asked
<1>2. \A x \in Message : x # m /\ pc'[x] \in Talking => pc[x] \in Talking
  BY <1>0, Asked
<1>3. pc[m] \in Busy \ Waits /\ \A x \in Message : pc[x] \in Talking => pc[x] \in Busy \ Waits
  BY DEF Busy, Waits, Processing, Talking
<1>4. \A x \in Message : x # m /\ pc'[x] \in Talking => Sender[x] # Sender[m]
  BY <1>2, <1>3, OneTalker
<1>5. CASE s = Sender[m]
  <2>1. history'[s] = R
    BY <1>0, <1>5 DEF HistoryType
  <2>2. ASSUME NEW i \in DOMAIN R, R[i].role = "user"
        PROVE  /\ LastOf(R[i]) \in Message /\ Sender[LastOf(R[i])] = s
               /\ pc'[LastOf(R[i])] \notin Unasked
    <3>1. CASE LastOf(R[i]) = m
      BY <1>5, <3>1
    <3>2. ASSUME NEW k \in DOMAIN history[s], history[s][k].role = "user",
                 LastOf(history[s][k]) = LastOf(R[i])
          PROVE  LastOf(R[i]) \in Message /\ Sender[LastOf(R[i])] = s
                 /\ pc'[LastOf(R[i])] \notin Unasked
      BY <1>1, <3>2 DEF Conversed
    <3>3. QED  BY <1>5, <2>2, <3>1, <3>2
  <2>3. \A x \in Message : Sender[x] = s /\ pc'[x] \in Talking => EndsWith(R, UserTurn(x))
    BY <1>4, <1>5
  <2>4. QED  BY <2>1, <2>2, <2>3
<1>6. CASE s # Sender[m]
  <2>1. history'[s] = history[s]
    BY <1>0, <1>6 DEF HistoryType
  <2>2. ASSUME NEW x \in Message, Sender[x] = s, pc'[x] \in Talking
        PROVE  EndsWith(history[s], UserTurn(x))
    <3>1. x # m
      BY <1>6, <2>2
    <3>2. pc[x] \in Talking
      BY <1>2, <2>2, <3>1
    <3>3. QED  BY <2>2, <3>2 DEF Conversed
  <2>3. \A i \in DOMAIN history[s] : history[s][i].role = "user" =>
          /\ LastOf(history[s][i]) \in Message
          /\ Sender[LastOf(history[s][i])] = s
          /\ pc'[LastOf(history[s][i])] \notin Unasked
    BY <1>1 DEF Conversed
  <2>4. Ordered(history[s])
    BY DEF Conversed
  <2>5. QED  BY <2>1, <2>2, <2>3, <2>4
<1>7. QED  BY <1>5, <1>6

-----------------------------------------------------------------------------
\* A message that is asked becomes the last turn.
LEMMA AppendSpoken ==
  ASSUME OneScope, DispatchInv, HistoryType, interrupt, Conversed, [Next]_vars,
         NEW m \in Message, AppendUserTurn(m)
  PROVE  Conversed'
<1> DEFINE h == history[Sender[m]]
           a == Append(h, UserTurn(m))
           R == Appended(h, UserTurn(m))
<1>0. Sender[m] \in Senders /\ UserTurn(m) \in Turn /\ pc[m] = "append" /\ DispatchTypeOK
  BY TurnTypes DEF AppendUserTurn, DispatchInv
<1>1. h \in Seq(Turn) /\ Ordered(h)
  BY <1>0 DEF HistoryType, Conversed
<1>2. pc' = [pc EXCEPT ![m] = "read"] /\ history' = [history EXCEPT ![Sender[m]] = R]
  BY DEF AppendUserTurn, Goto
<1>3. \A i \in DOMAIN h : h[i].role = "user" => LastOf(h[i]) # m
  BY <1>0 DEF Conversed, Unasked
<1>4. a \in Seq(Turn) /\ Ordered(a) /\ EndsWith(a, UserTurn(m))
  <2>1. a \in Seq(Turn) /\ a # << >> /\ a[Len(a)] = UserTurn(m)
    BY <1>0, <1>1
  <2>2. Ordered(a)
    BY <1>1, <1>3, OrderedUser
  <2>3. QED  BY <2>1, <2>2 DEF EndsWith
<1>5. \A i \in DOMAIN a : LastOf(a[i]) = m \/ (i \in DOMAIN h /\ a[i] = h[i])
  <2>1. LastOf(UserTurn(m)) = m
    BY DEF LastOf, UserTurn
  <2>2. \A i \in DOMAIN a : a[i] = UserTurn(m) \/ (i \in DOMAIN h /\ a[i] = h[i])
    BY <1>0, <1>1
  <2>3. QED  BY <2>1, <2>2
<1>6. R = Newest(a, MaxHistory) /\ MaxHistory \in Nat \ {0}
  BY HistoryAssumption DEF Appended
<1> HIDE DEF a, R, h
<1>7. R \in Seq(Turn) /\ Ordered(R) /\ EndsWithin(R, a)
  BY <1>4, <1>6, NewestIs, OrderedNewest
<1>8. EndsWith(R, UserTurn(m))
  <2>0. a \in Seq(Turn)
    BY <1>4
  <2>1. EndOf(R, a)
    BY <2>0, <1>6, NewestIs
  <2>2. R # << >>
    BY <1>4, <1>6, NewestIs DEF EndsWith
  <2>3. Len(R) \in 1 .. Len(R)
    BY <1>7, <2>2
  <2>4. QED  BY <1>4, <2>1, <2>2, <2>3 DEF EndsWith, EndOf
<1>9. ASSUME NEW i \in DOMAIN R, R[i].role = "user"
      PROVE  \/ LastOf(R[i]) = m
             \/ \E k \in DOMAIN h : h[k].role = "user" /\ LastOf(h[k]) = LastOf(R[i])
  <2>1. PICK k \in DOMAIN a : a[k].role = "user" /\ LastOf(a[k]) = LastOf(R[i])
    BY <1>7, <1>9 DEF EndsWithin
  <2>2. QED  BY <1>5, <2>1
<1>10. pc'[m] = "read"
  BY <1>0, <1>2 DEF DispatchTypeOK
<1>11. \A x \in Message : AppendUserTurn(x) => x = m
  BY <1>0, <1>2 DEF AppendUserTurn, Goto, DispatchTypeOK
<1>12. pc[m] \in {"start", "append", "generate"} /\ pc'[m] \notin Unasked
  BY <1>0, <1>10 DEF Unasked, Waits
<1>13. QED
  BY <1>2, <1>7, <1>8, <1>9, <1>11, <1>12, Spoken DEF h

\* What an answer, an overflow or a missing capability leaves of the history.
LEMMA AnswerSpoken ==
  ASSUME OneScope, DispatchInv, HistoryType, interrupt, Conversed, [Next]_vars,
         NEW m \in Message, pc[m] = "generate", pc' = [pc EXCEPT ![m] = "leave"],
         NEW R, history' = [history EXCEPT ![Sender[m]] = R],
         R \in {Appended(history[Sender[m]], AssistantTurn(m)), Compacted(history[Sender[m]]),
                SubSeq(history[Sender[m]], 1, Len(history[Sender[m]]) - 1)}
  PROVE  Conversed'
<1> DEFINE h == history[Sender[m]]
<1>0. Sender[m] \in Senders /\ AssistantTurn(m) \in Turn /\ DispatchTypeOK
  BY TurnTypes DEF DispatchInv
<1>1. h \in Seq(Turn) /\ Ordered(h) /\ h # << >> /\ h[Len(h)] = UserTurn(m)
  BY <1>0 DEF HistoryType, Conversed, EndsWith, Talking
<1> HIDE DEF h
<1>2. R \in {Appended(h, AssistantTurn(m)), Compacted(h), SubSeq(h, 1, Len(h) - 1)}
  BY DEF h
<1>3. R \in Seq(Turn) /\ Ordered(R) /\ EndsWithin(R, h)
  <2>1. CASE R = Appended(h, AssistantTurn(m))
    <3> DEFINE a == Append(h, AssistantTurn(m))
    <3>1. a \in Seq(Turn) /\ Ordered(a)
      BY <1>0, <1>1, OrderedAssistant
    <3>2. \A i \in DOMAIN a : a[i].role = "user" => i \in DOMAIN h /\ a[i] = h[i]
      <4>1. \A i \in DOMAIN a : a[i] = AssistantTurn(m) \/ (i \in DOMAIN h /\ a[i] = h[i])
        BY <1>0, <1>1
      <4>2. AssistantTurn(m).role # "user"
        BY DEF AssistantTurn
      <4>3. QED  BY <4>1, <4>2
    <3>3. R = Newest(a, MaxHistory) /\ MaxHistory \in Nat \ {0}
      BY <2>1, HistoryAssumption DEF Appended
    <3> HIDE DEF a
    <3>4. R \in Seq(Turn) /\ Ordered(R) /\ EndsWithin(R, a)
      BY <3>1, <3>3, NewestIs, OrderedNewest
    <3>5. ASSUME NEW i \in DOMAIN R, R[i].role = "user"
          PROVE  \E k \in DOMAIN h : h[k].role = "user" /\ LastOf(h[k]) = LastOf(R[i])
      <4>1. PICK k \in DOMAIN a : a[k].role = "user" /\ LastOf(a[k]) = LastOf(R[i])
        BY <3>4, <3>5 DEF EndsWithin
      <4>2. QED  BY <3>2, <4>1
    <3>6. QED  BY <3>4, <3>5 DEF EndsWithin
  <2>2. CASE R = Compacted(h)
    <3> DEFINE k == Newest(h, KeepTurns)
    <3>1. k = Newest(h, KeepTurns) /\ KeepTurns \in Nat \ {0} /\ R = Normalized(k)
      BY <2>2, HistoryAssumption DEF Compacted
    <3> HIDE DEF k
    <3>2. k \in Seq(Turn) /\ Ordered(k) /\ EndsWithin(k, h)
      BY <1>1, <3>1, NewestIs, OrderedNewest
    <3>3. R \in Seq(Turn) /\ Ordered(R) /\ EndsWithin(R, k)
      BY <3>1, <3>2, NormalizedFaithful, OrderedNormalized
    <3>4. EndsWithin(R, h)
      <4> SUFFICES ASSUME NEW i \in DOMAIN R, R[i].role = "user"
                   PROVE  \E j \in DOMAIN h : h[j].role = "user" /\ LastOf(h[j]) = LastOf(R[i])
        BY DEF EndsWithin
      <4>1. PICK j \in DOMAIN k : k[j].role = "user" /\ LastOf(k[j]) = LastOf(R[i])
        BY <3>3 DEF EndsWithin
      <4>2. QED  BY <3>2, <4>1 DEF EndsWithin
    <3>5. QED  BY <3>3, <3>4
  <2>3. CASE R = SubSeq(h, 1, Len(h) - 1)
    BY <1>1, <2>3, ButLastType, OrderedButLast
  <2>4. QED  BY <1>2, <2>1, <2>2, <2>3
<1>4. pc'[m] = "leave"
  BY <1>0 DEF DispatchTypeOK
<1>5. \A x \in Message : AppendUserTurn(x) => x = m
  BY <1>0, <1>4 DEF AppendUserTurn, Goto, DispatchTypeOK
<1>6. pc'[m] \notin Unasked /\ pc'[m] \notin Talking /\ pc[m] \in {"start", "append", "generate"}
  BY <1>4 DEF Unasked, Waits, Talking
<1>7. \A i \in DOMAIN R : R[i].role = "user" =>
         \E k \in DOMAIN history[Sender[m]] :
            /\ history[Sender[m]][k].role = "user"
            /\ LastOf(history[Sender[m]][k]) = LastOf(R[i])
  BY <1>3 DEF EndsWithin, h
<1>8. QED
  BY <1>3, <1>5, <1>6, <1>7, Spoken

\* With interruption on, the conversations stay in order.
LEMMA ConversedStep ==
  ASSUME OneScope, DispatchInv, HistoryType, interrupt, Conversed, [Next]_vars
  PROVE  Conversed'
<1>0. DispatchTypeOK
  BY DEF DispatchInv
<1>1. ASSUME NEW m \in Message, AppendUserTurn(m)
      PROVE  Conversed'
  BY <1>1, AppendSpoken
<1>2. CASE UNCHANGED history /\ \A m \in Message : ~AppendUserTurn(m)
  <2> SUFFICES ASSUME NEW s \in Senders
               PROVE  /\ Ordered(history[s])
                      /\ \A i \in DOMAIN history[s] : history[s][i].role = "user" =>
                           /\ LastOf(history[s][i]) \in Message
                           /\ Sender[LastOf(history[s][i])] = s
                           /\ pc'[LastOf(history[s][i])] \notin Unasked
                      /\ \A m \in Message : Sender[m] = s /\ pc'[m] \in Talking =>
                           EndsWith(history[s], UserTurn(m))
    BY <1>2 DEF Conversed, Senders
  <2>1. \A x \in Message : /\ pc[x] \notin Unasked => pc'[x] \notin Unasked
                           /\ pc'[x] \in Talking => pc[x] \in Talking
    BY <1>0, <1>2, Asked
  <2>2. QED  BY <2>1 DEF Conversed
<1>3. ASSUME NEW m \in Message, Answer(m) \/ Overflow(m) \/ NoVision(m),
             NEW R, history' = [history EXCEPT ![Sender[m]] = R],
             R \in {Appended(history[Sender[m]], AssistantTurn(m)),
                    Compacted(history[Sender[m]]),
                    SubSeq(history[Sender[m]], 1, Len(history[Sender[m]]) - 1)}
      PROVE  Conversed'
  <2>1. pc[m] = "generate" /\ pc' = [pc EXCEPT ![m] = "leave"]
    BY <1>3 DEF Answer, Overflow, NoVision, Goto
  <2>2. QED  BY <1>3, <2>1, AnswerSpoken
<1>4. ASSUME NEW m \in Message, NewSession(m), history' = [history EXCEPT ![Sender[m]] = << >>]
      PROVE  Conversed'
  <2>1. /\ pc[m] \in {"start", "append", "generate"} /\ pc' = [pc EXCEPT ![m] = "leave"]
        /\ pc[m] = "start"
    BY <1>4 DEF NewSession, Goto
  <2>2. << >> \in Seq(Turn) /\ Ordered(<< >>) /\ DOMAIN << >> = {}
    BY DEF Ordered
  <2>3. pc'[m] \notin Unasked /\ pc'[m] \notin Talking
    BY <1>0, <2>1 DEF Unasked, Waits, Talking, DispatchTypeOK
  <2>4. \A x \in Message : AppendUserTurn(x) => x = m
    BY <1>0, <2>1 DEF AppendUserTurn, Goto, DispatchTypeOK
  <2>5. QED  BY <1>4, <2>1, <2>2, <2>3, <2>4, Spoken
<1>5. QED
  BY <1>1, <1>2, <1>3, <1>4, HistoryCases

\* Without interruption, nothing is ever cancelled.
LEMMA NeverCancelledStep ==
  DispatchTypeOK /\ NeverCancelled /\ ~interrupt /\ [Next]_vars => NeverCancelled'
<1> SUFFICES ASSUME DispatchTypeOK, NeverCancelled, ~interrupt, [Next]_vars
             PROVE  NeverCancelled'
  OBVIOUS
<1> USE DEF DispatchTypeOK, NeverCancelled, Goto
<1>1. CASE Arrive
  BY <1>1 DEF Arrive
<1>2. CASE Receive
  BY <1>2 DEF Receive
<1>3. ASSUME NEW m \in Message, Register(m)
      PROVE  NeverCancelled'
  BY <1>3 DEF Register
<1>4. ASSUME NEW m \in Message, Cancel(m) \/ CheckDone(m) \/ AwaitDone(m) \/ Leave(m)
      PROVE  NeverCancelled'
  BY <1>4 DEF Cancel, CheckDone, AwaitDone, Leave
<1>5. ASSUME NEW m \in Message, MarkDone(m)
      PROVE  NeverCancelled'
  BY <1>5 DEF MarkDone
<1>6. ASSUME NEW m \in Message, Start(m) \/ NewSession(m) \/ Look(m) \/ AppendUserTurn(m)
                                \/ ReadHistory(m)
      PROVE  NeverCancelled'
  BY <1>6 DEF Start, NewSession, Look, AppendUserTurn, ReadHistory
<1>7. ASSUME NEW m \in Message, Finish(m)
      PROVE  NeverCancelled'
  BY <1>7 DEF Finish, Interrupted, Answer, Suppress, Overflow, NoVision
<1>8. CASE UNCHANGED vars
  BY <1>8 DEF vars
<1>9. QED
  BY <1>1, <1>2, <1>3, <1>4, <1>5, <1>6, <1>7, <1>8 DEF Next, Work

\* Both, along every run.
LEMMA TalkInvariant == Spec => [](OneScope => TalkInv)
<1>1. Init => TalkInv
  <2> SUFFICES ASSUME Init PROVE Conversed /\ NeverCancelled
    BY DEF TalkInv
  <2>1. Conversed
    BY DEF Init, Conversed, Ordered, Talking
  <2>2. NeverCancelled
    BY DEF Init, NeverCancelled
  <2>3. QED  BY <2>1, <2>2
<1>2. DispatchInv /\ HistoryType /\ (OneScope => TalkInv) /\ [Next]_vars => (OneScope => TalkInv)'
  <2> SUFFICES ASSUME DispatchInv, HistoryType, TalkInv, [Next]_vars, OneScope
               PROVE  TalkInv'
    BY DEF OneScope, Message
  <2>1. interrupt' = interrupt
    BY DEF Next, vars
  <2>2. CASE interrupt
    BY <2>1, <2>2, ConversedStep DEF TalkInv
  <2>3. CASE ~interrupt
    BY <2>1, <2>3, NeverCancelledStep DEF TalkInv, DispatchInv
  <2>4. QED  BY <2>2, <2>3
<1>3. QED
  BY <1>1, <1>2, DispatchInvariant, HistoryTypeInvariant, PTL DEF Spec

(* With interruption on, and each sender in one chat, the text an answer follows in a
   history is the text it answers, whatever is trimmed, compacted or interrupted. *)
THEOREM AnswersFollowTheirTurnInvariant ==
  ASSUME OneScope PROVE Spec => []AnswersFollowTheirTurn
<1>0. OneScope
  OBVIOUS
<1>1. HistoryType /\ TalkInv => AnswersFollowTheirTurn
  <2> SUFFICES ASSUME HistoryType, Conversed, NEW s \in Senders,
                      NEW i \in DOMAIN history[s], NEW j \in DOMAIN history[s],
                      i < j, history[s][i].role = "user", history[s][j].role = "assistant",
                      NEW k \in DOMAIN history[s], k < i, history[s][k].role = "user",
                      history[s][k].of = history[s][j].of
               PROVE  FALSE
    BY DEF AnswersFollowTheirTurn, TalkInv
  <2> DEFINE h == history[s]
  <2>1. h \in Seq(Turn) /\ Ordered(h)
    BY DEF HistoryType, Conversed
  <2> HIDE DEF h
  <2>2. /\ i \in DOMAIN h /\ j \in DOMAIN h /\ k \in DOMAIN h /\ k < i /\ i < j
        /\ h[k].role = "user" /\ h[j].role = "assistant" /\ h[k].of = h[j].of
    BY DEF h
  <2>3. j - 1 \in DOMAIN h /\ j > 1 /\ k # j - 1
    BY <2>1, <2>2
  <2>4. h[j - 1].role = "user" /\ h[j].of = <<LastOf(h[j - 1])>>
    BY <2>1, <2>2, <2>3 DEF Ordered
  <2>5. LastOf(h[k]) = LastOf(h[j - 1])
    <3>1. \A x : Len(<<x>>) = 1 /\ <<x>>[1] = x
      OBVIOUS
    <3>2. h[k].of = <<LastOf(h[j - 1])>>
      BY <2>2, <2>4
    <3>3. LastOf(h[k]) = h[k].of[Len(h[k].of)]
      BY DEF LastOf
    <3>4. QED  BY <3>1, <3>2, <3>3
  <2>6. QED
    BY <2>1, <2>2, <2>3, <2>4, <2>5 DEF Ordered
<1>2. HistoryType /\ (OneScope => TalkInv) => AnswersFollowTheirTurn
  BY <1>0, <1>1
<1>3. QED
  BY <1>2, TalkInvariant, HistoryTypeInvariant, PTL

(* A message whose answer was interrupted is, from then until its worker has left, the last
   turn of its sender's history: the next message is answered with it in view. *)
THEOREM InterruptedTurnKeptInvariant ==
  ASSUME OneScope PROVE Spec => []InterruptedTurnKept
<1>0. OneScope
  OBVIOUS
<1>1. HistoryType /\ TalkInv => InterruptedTurnKept
  <2> SUFFICES ASSUME HistoryType, TalkInv, NEW m \in Message, pc[m] = "interrupted"
               PROVE  \E i \in DOMAIN history[Sender[m]] :
                        /\ history[Sender[m]][i].role = "user"
                        /\ m \in ToSet(history[Sender[m]][i].of)
    BY DEF InterruptedTurnKept
  <2> DEFINE h == history[Sender[m]]
  <2>1. Sender[m] \in Senders
    BY TurnTypes
  <2>2. h \in Seq(Turn) /\ EndsWith(h, UserTurn(m))
    BY <2>1 DEF HistoryType, TalkInv, NeverCancelled, Conversed, Talking
  <2> HIDE DEF h
  <2>3. Len(h) \in DOMAIN h /\ h[Len(h)] = UserTurn(m)
    BY <2>2 DEF EndsWith
  <2>4. UserTurn(m).role = "user" /\ m \in ToSet(UserTurn(m).of)
    BY DEF UserTurn, ToSet
  <2>5. \E i \in DOMAIN h : h[i].role = "user" /\ m \in ToSet(h[i].of)
    BY <2>3, <2>4
  <2>6. QED  BY <2>5 DEF h
<1>2. HistoryType /\ (OneScope => TalkInv) => InterruptedTurnKept
  BY <1>0, <1>1
<1>3. QED
  BY <1>2, TalkInvariant, HistoryTypeInvariant, PTL

-----------------------------------------------------------------------------
(* What the model is given.                                                *)

\* What the user says in the first n turns of h.
WordsUpTo(h, n) ==
  {x \in Message : \E i \in 1 .. n : h[i].role = "user" /\ x \in ToSet(h[i].of)}
Words(h) == WordsUpTo(h, Len(h))

\* The members of a text of two parts.
LEMMA BothParts ==
  ASSUME NEW a \in Seq(Message), NEW b \in Seq(Message)
  PROVE  ToSet(a \o b) = ToSet(a) \cup ToSet(b)
<1>1. /\ Len(a) \in Nat /\ Len(b) \in Nat /\ Len(a \o b) = Len(a) + Len(b)
      /\ \A i \in 1 .. Len(a) : (a \o b)[i] = a[i]
      /\ \A i \in 1 .. Len(b) : (a \o b)[Len(a) + i] = b[i]
  OBVIOUS
<1>2. DOMAIN a = 1 .. Len(a) /\ DOMAIN b = 1 .. Len(b) /\ DOMAIN (a \o b) = 1 .. Len(a) + Len(b)
  OBVIOUS
<1> DEFINE c == a \o b
<1>3. /\ \A i \in DOMAIN a : i \in DOMAIN c /\ c[i] = a[i]
      /\ \A i \in DOMAIN b : Len(a) + i \in DOMAIN c /\ c[Len(a) + i] = b[i]
  BY <1>1, <1>2
<1>4. ASSUME NEW i \in DOMAIN c PROVE c[i] \in ToSet(a) \cup ToSet(b)
  <2>1. CASE i <= Len(a)
    BY <1>1, <1>2, <2>1 DEF ToSet
  <2>2. CASE ~(i <= Len(a))
    <3>1. i - Len(a) \in DOMAIN b /\ Len(a) + (i - Len(a)) = i
      BY <1>1, <1>2, <2>2
    <3>2. QED  BY <1>3, <3>1 DEF ToSet
  <2>3. QED  BY <2>1, <2>2
<1> HIDE DEF c
<1>5. ToSet(c) = ToSet(a) \cup ToSet(b)
  BY <1>3, <1>4 DEF ToSet
<1>6. QED  BY <1>5 DEF c

\* What is said is the text of the user turns.
LEMMA WordsSaid ==
  ASSUME NEW h \in Seq(Turn)
  PROVE  ToSet(Said(h, "user")) = Words(h)
<1> DEFINE L == Len(h)
<1>0. L \in Nat /\ L \in 0 .. L
  OBVIOUS
<1>1. PICK g \in [0 .. Len(h) -> Seq(Message)] :
        IsText(g, h, "user") /\ Said(h, "user") = g[Len(h)]
  BY SaidSteps
<1> DEFINE T == {n \in 0 .. L : ToSet(g[n]) = WordsUpTo(h, n)}
<1>2. 0 \in T /\ T \in SUBSET (0 .. L)
  <2>1. g[0] = << >> /\ 0 \in 0 .. L /\ 1 .. 0 = {}
    BY <1>1 DEF IsText
  <2>2. ToSet(<< >>) = {} /\ WordsUpTo(h, 0) = {}
    BY <2>1 DEF ToSet, WordsUpTo
  <2>3. QED  BY <2>1, <2>2
<1>3. ASSUME NEW n \in 1 .. L, n - 1 \in T PROVE n \in T
  <2>1. /\ n \in 0 .. L /\ n - 1 \in 0 .. L /\ h[n] \in Turn /\ g[n - 1] \in Seq(Message)
        /\ 1 .. n = (1 .. n - 1) \cup {n}
    <3>1. /\ n \in Nat /\ n \in 1 .. L /\ n \in 0 .. L /\ n - 1 \in 0 .. L
          /\ 1 .. n = (1 .. n - 1) \cup {n}
      BY ONLY <1>0, n \in 1 .. L
    <3>2. h[n] \in Turn
      BY ONLY <3>1, h \in Seq(Turn)
    <3>3. QED  BY ONLY <1>1, <3>1, <3>2
  <2>2. ToSet(g[n - 1]) = WordsUpTo(h, n - 1) /\ g[n] = With(g[n - 1], h[n], "user")
    BY <1>1, <1>3 DEF IsText
  <2>3. h[n].of \in Seq(Message) /\ ToSet(h[n].of) \subseteq Message
    BY <2>1 DEF Turn, ToSet
  <2>4. CASE h[n].role = "user"
    <3>1. ToSet(g[n]) = ToSet(g[n - 1]) \cup ToSet(h[n].of)
      BY <2>1, <2>2, <2>3, <2>4, BothParts DEF With
    <3>2. WordsUpTo(h, n) = WordsUpTo(h, n - 1) \cup ToSet(h[n].of)
      BY <2>1, <2>3, <2>4 DEF WordsUpTo
    <3>3. QED  BY <2>1, <2>2, <3>1, <3>2
  <2>5. CASE h[n].role # "user"
    <3>1. WordsUpTo(h, n) = WordsUpTo(h, n - 1)
      BY <2>1, <2>5 DEF WordsUpTo
    <3>2. QED  BY <2>1, <2>2, <2>5, <3>1 DEF With
  <2>6. QED  BY <2>4, <2>5
<1>4. T = 0 .. L
  <2> HIDE DEF T
  <2>1. QED  BY <1>0, <1>2, <1>3, UpTo
<1>5. L \in T
  <2> HIDE DEF T
  <2>1. QED  BY <1>0, <1>4
<1>6. QED  BY <1>1, <1>5 DEF Words

\* The end of a history has no other words ...
LEMMA WordsEnd ==
  ASSUME NEW h \in Seq(Turn), NEW R \in Seq(Turn), EndOf(R, h)
  PROVE  Words(R) \subseteq Words(h)
<1>1. PICK d \in Nat : Len(R) + d = Len(h) /\ \A i \in 1 .. Len(R) : R[i] = h[i + d]
  BY DEF EndOf
<1>2. \A i \in 1 .. Len(R) : i + d \in 1 .. Len(h) /\ R[i] = h[i + d]
  BY <1>1
<1>3. QED  BY <1>2 DEF Words, WordsUpTo

\* ... a new turn of the user adds its message, an answer adds nothing ...
LEMMA WordsAppended ==
  ASSUME NEW h \in Seq(Turn), NEW m \in Message
  PROVE  /\ Words(Appended(h, UserTurn(m))) \subseteq Words(h) \cup {m}
         /\ Words(Appended(h, AssistantTurn(m))) \subseteq Words(h)
<1>1. ASSUME NEW t \in Turn
      PROVE  /\ Words(Appended(h, t)) \subseteq Words(Append(h, t))
             /\ Append(h, t) \in Seq(Turn) /\ Len(Append(h, t)) = Len(h) + 1
             /\ Append(h, t)[Len(h) + 1] = t
             /\ \A i \in 1 .. Len(h) : Append(h, t)[i] = h[i]
             /\ 1 .. Len(h) + 1 = (1 .. Len(h)) \cup {Len(h) + 1}
  <2> DEFINE a == Append(h, t)
             R == Newest(a, MaxHistory)
  <2>1. /\ a \in Seq(Turn) /\ Len(a) = Len(h) + 1 /\ a[Len(h) + 1] = t
        /\ \A i \in 1 .. Len(h) : a[i] = h[i]
        /\ 1 .. Len(h) + 1 = (1 .. Len(h)) \cup {Len(h) + 1}
    OBVIOUS
  <2> HIDE DEF a
  <2>2. R \in Seq(Turn) /\ EndOf(R, a)
    BY <2>1, NewestIs, HistoryAssumption
  <2> HIDE DEF R
  <2>3. Words(R) \subseteq Words(a)
    BY <2>1, <2>2, WordsEnd
  <2>4. R = Appended(h, t)
    BY DEF R, a, Appended
  <2>5. QED  BY <2>1, <2>3, <2>4 DEF a
<1>2. UserTurn(m) \in Turn /\ AssistantTurn(m) \in Turn
  BY TurnTypes
<1>3. Words(Append(h, UserTurn(m))) \subseteq Words(h) \cup {m}
  <2>1. ToSet(UserTurn(m).of) \subseteq {m}
    BY DEF UserTurn, ToSet
  <2>2. QED  BY <1>1, <1>2, <2>1 DEF Words, WordsUpTo
<1>4. Words(Append(h, AssistantTurn(m))) \subseteq Words(h)
  <2>1. AssistantTurn(m).role # "user"
    BY DEF AssistantTurn
  <2>2. QED  BY <1>1, <1>2, <2>1 DEF Words, WordsUpTo
<1>5. QED  BY <1>1, <1>2, <1>3, <1>4

\* ... and compaction and taking back the last turn add nothing.
LEMMA WordsLess ==
  ASSUME NEW h \in Seq(Turn)
  PROVE  /\ Words(Normalized(h)) = Words(h)
         /\ Words(Compacted(h)) \subseteq Words(h)
         /\ h # << >> => Words(SubSeq(h, 1, Len(h) - 1)) \subseteq Words(h)
         /\ Words(<< >>) = {}
<1>1. ASSUME NEW k \in Seq(Turn) PROVE Words(Normalized(k)) = Words(k)
  BY WordsSaid, NormalizedFaithful
<1>2. Words(Compacted(h)) \subseteq Words(h)
  <2> DEFINE k == Newest(h, KeepTurns)
  <2>1. k \in Seq(Turn) /\ EndOf(k, h)
    BY NewestIs, HistoryAssumption
  <2> HIDE DEF k
  <2>2. Words(Normalized(k)) \subseteq Words(h)
    BY <1>1, <2>1, WordsEnd
  <2>3. QED  BY <2>2 DEF Compacted, k
<1>3. ASSUME h # << >> PROVE Words(SubSeq(h, 1, Len(h) - 1)) \subseteq Words(h)
  <2> DEFINE R == SubSeq(h, 1, Len(h) - 1)
  <2>1. R \in Seq(Turn) /\ Len(R) = Len(h) - 1 /\ \A i \in 1 .. Len(h) - 1 : R[i] = h[i]
    BY <1>3, ButLastType
  <2> HIDE DEF R
  <2>2. \A i \in 1 .. Len(R) : i \in 1 .. Len(h) /\ R[i] = h[i]
    BY <2>1
  <2>3. Words(R) \subseteq Words(h)
    BY <2>2 DEF Words, WordsUpTo
  <2>4. QED  BY <2>3 DEF R
<1>4. Words(<< >>) = {}
  <2>1. Len(<< >>) = 0 /\ 1 .. 0 = {}
    OBVIOUS
  <2>2. QED  BY <2>1 DEF Words, WordsUpTo
<1>5. QED  BY <1>1, <1>2, <1>3, <1>4

\* Whatever the history, what is given to the model alternates, and has lost nothing if
\* the conversation had begun, and not the message itself if it had not.
LEMMA PromptKeeps ==
  ASSUME NEW h \in Seq(Turn), NEW m \in Message, NEW prior \in BOOLEAN, NEW p,
         p = PromptOf(h, m, prior)
  PROVE  /\ Alternates(p)
         /\ prior => Said(p, "user") = Said(h, "user")
         /\ ToSet(Said(h, "user")) \ ToSet(Said(p, "user")) \subseteq
              IF prior THEN {} ELSE Words(h) \ {m}
<1> DEFINE r == Normalized(h)
<1>1. r \in Seq(Turn) /\ Alternates(r) /\ Said(r, "user") = Said(h, "user")
  BY NormalizedFaithful
<1>2. UserTurn(m) \in Turn /\ UserTurn(m).role = "user" /\ m \in ToSet(UserTurn(m).of)
  BY TurnTypes DEF UserTurn, ToSet
<1>3. p = IF prior THEN r ELSE Rewritten(r, m)
  BY DEF PromptOf
<1> HIDE DEF r
<1>4. CASE prior
  BY <1>1, <1>3, <1>4
<1>5. CASE ~prior
  <2>1. ASSUME p \in Seq(Turn), m \in Words(p)
        PROVE  ToSet(Said(h, "user")) \ ToSet(Said(p, "user")) \subseteq Words(h) \ {m}
    BY <2>1, WordsSaid
  <2>2. CASE r = << >>
    <3>1. p = <<UserTurn(m)>>
      BY <1>3, <1>5, <2>2 DEF Rewritten
    <3>2. p \in Seq(Turn) /\ Len(p) = 1 /\ p[1] = UserTurn(m) /\ DOMAIN p = {1}
      BY <1>2, <3>1
    <3>3. Alternates(p) /\ m \in Words(p)
      BY <1>2, <3>2 DEF Alternates, Words, WordsUpTo
    <3>4. QED  BY <1>5, <2>1, <3>2, <3>3
  <2>3. CASE r # << >> /\ r[Len(r)].role = "user"
    <3>1. p = [r EXCEPT ![Len(r)] = UserTurn(m)]
      BY <1>3, <1>5, <2>3 DEF Rewritten
    <3>2. /\ p \in Seq(Turn) /\ Len(p) = Len(r) /\ Len(r) \in 1 .. Len(p) /\ DOMAIN p = DOMAIN r
          /\ p[Len(r)] = UserTurn(m) /\ \A i \in DOMAIN r : i # Len(r) => p[i] = r[i]
      BY <1>1, <1>2, <2>3, <3>1
    <3>3. \A i \in DOMAIN r : p[i].role = r[i].role
      BY <1>2, <2>3, <3>2
    <3>4. Alternates(p)
      BY <1>1, <3>2, <3>3 DEF Alternates
    <3>5. m \in Words(p)
      BY <1>2, <3>2 DEF Words, WordsUpTo
    <3>6. QED  BY <1>5, <2>1, <3>2, <3>4, <3>5
  <2>4. CASE r # << >> /\ r[Len(r)].role # "user"
    <3>1. p = r
      BY <1>3, <1>5, <2>4 DEF Rewritten
    <3>2. QED  BY <1>1, <1>5, <3>1
  <2>5. QED  BY <2>2, <2>3, <2>4
<1>6. QED  BY <1>4, <1>5

\* The prompt of an ordered history that ends with the turn of m ends with it, too.
LEMMA PromptEnds ==
  ASSUME NEW h \in Seq(Turn), Ordered(h), NEW m \in Message, EndsWith(h, UserTurn(m))
  PROVE  LET r == Normalized(h) IN r # << >> /\ r[Len(r)].role = "user" /\ LastOf(r[Len(r)]) = m
<1> DEFINE r == Normalized(h)
<1>1. r \in Seq(Turn) /\ Follows(r, h, Len(h)) /\ Words(r) = Words(h)
  BY NormalizedFaithful, OrderedNormalized, WordsLess
<1> HIDE DEF r
<1>2. UserTurn(m).role = "user" /\ LastOf(UserTurn(m)) = m /\ m \in ToSet(UserTurn(m).of)
  BY DEF UserTurn, LastOf, ToSet
<1>3. Len(h) \in 1 .. Len(h) /\ h[Len(h)] = UserTurn(m)
  BY DEF EndsWith
<1>4. m \in Words(h)
  BY <1>2, <1>3 DEF Words, WordsUpTo
<1>5. r # << >>
  BY <1>1, <1>4, WordsLess
<1>6. r[Len(r)].role = "user" /\ LastOf(r[Len(r)]) = m
  BY <1>1, <1>2, <1>3, <1>5 DEF Follows
<1>7. QED  BY <1>5, <1>6 DEF r

\* The first message of a conversation is the whole prompt.
LEMMA FirstPrompt ==
  ASSUME NEW m \in Message
  PROVE  Normalized(<<UserTurn(m)>>) = <<UserTurn(m)>>
<1> DEFINE h == <<UserTurn(m)>>
<1>1. h \in Seq(Turn) /\ Len(h) = 1 /\ h[1] = UserTurn(m)
  BY TurnTypes
<1>2. UserTurn(m).role = "user"
  BY DEF UserTurn
<1> HIDE DEF h
<1>3. PICK g \in [0 .. Len(h) -> Seq(Turn)] :
           /\ g[0] = << >>
           /\ \A n \in 1 .. Len(h) : g[n] = Absorb(g[n - 1], h[n])
           /\ Normalized(h) = g[Len(h)]
  BY <1>1, NormalizedSteps
<1>4. Normalized(h) = Absorb(<< >>, UserTurn(m))
  <2>1. 1 \in 1 .. Len(h) /\ 1 - 1 = 0
    BY <1>1
  <2>2. g[1] = Absorb(g[1 - 1], h[1])
    BY <1>3, <2>1
  <2>3. QED  BY <1>1, <1>3, <2>1, <2>2
<1>5. Absorb(<< >>, UserTurn(m)) = <<UserTurn(m)>>
  BY <1>2 DEF Absorb
<1>6. QED  BY <1>4, <1>5 DEF h

-----------------------------------------------------------------------------
\* A worker that found no history and has not read yet: all that was said since has
\* joined it; with interruption on, nobody spoke but itself.
Alone(m) ==
  /\ Words(history[Sender[m]]) \subseteq joined[m] \cup {m}
  /\ interrupt /\ OneScope =>
       history[Sender[m]] = IF pc[m] = "append" THEN << >> ELSE <<UserTurn(m)>>
PriorInv == \A m \in Message : ~hadPrior[m] /\ pc[m] \in {"append", "read"} => Alone(m)

\* A worker comes there by looking, and stays until it has read.
LEMMA Looked ==
  ASSUME DispatchTypeOK, [Next]_vars, NEW x \in Message, pc'[x] \in {"append", "read"}
  PROVE  \/ Look(x)
         \/ /\ pc[x] \in {"append", "read"} /\ hadPrior'[x] = hadPrior[x]
            /\ joined[x] \subseteq joined'[x]
            /\ pc'[x] = pc[x] \/ AppendUserTurn(x)
<1> USE DEF DispatchTypeOK, Goto, local
<1>1. CASE Arrive
  BY <1>1 DEF Arrive
<1>2. CASE Receive
  BY <1>2 DEF Receive
<1>3. ASSUME NEW m \in Message, Register(m)
      PROVE  pc[x] = pc'[x] /\ UNCHANGED local
  <2>1. PICK p \in {"start", "cancel"} : pc' = [pc EXCEPT ![m] = p] /\ UNCHANGED local
    BY <1>3 DEF Register
  <2>2. QED  BY <2>1
<1>4. ASSUME NEW m \in Message,
             Cancel(m) \/ CheckDone(m) \/ AwaitDone(m) \/ Start(m) \/ NewSession(m)
      PROVE  pc[x] = pc'[x] /\ UNCHANGED local
  BY <1>4 DEF Cancel, CheckDone, AwaitDone, Start, NewSession
<1>5. ASSUME NEW m \in Message, Leave(m)
      PROVE  pc[x] = pc'[x] /\ hadPrior'[x] = hadPrior[x] /\ joined' = joined
  BY <1>5 DEF Leave
<1>6. ASSUME NEW m \in Message, MarkDone(m)
      PROVE  pc[x] = pc'[x] /\ UNCHANGED local
  BY <1>6 DEF MarkDone
<1>7. ASSUME NEW m \in Message, Look(m), ~Look(x)
      PROVE  pc[x] = pc'[x] /\ hadPrior'[x] = hadPrior[x] /\ joined' = joined
  BY <1>7 DEF Look
<1>8. ASSUME NEW m \in Message, AppendUserTurn(m)
      PROVE  /\ pc[x] = pc'[x] \/ AppendUserTurn(x)
             /\ pc[x] \in {"append", "read"} /\ hadPrior' = hadPrior
             /\ joined[x] \subseteq joined'[x]
  <2>1. joined'[x] = IF x \in Reading(m) THEN joined[x] \cup {m} ELSE joined[x]
    BY <1>8 DEF AppendUserTurn
  <2>2. pc' = [pc EXCEPT ![m] = "read"] /\ pc[m] = "append" /\ hadPrior' = hadPrior
    BY <1>8 DEF AppendUserTurn
  <2>3. x = m \/ pc'[x] = pc[x]
    BY <2>2
  <2>4. QED  BY <1>8, <2>1, <2>2, <2>3
<1>9. ASSUME NEW m \in Message, ReadHistory(m)
      PROVE  pc[x] = pc'[x] /\ hadPrior'[x] = hadPrior[x] /\ joined'[x] = joined[x]
  BY <1>9 DEF ReadHistory
<1>10. ASSUME NEW m \in Message, Finish(m)
      PROVE  pc[x] = pc'[x] /\ hadPrior' = hadPrior /\ joined' = joined
  BY <1>10 DEF Finish, Interrupted, Answer, Suppress, Overflow, NoVision
<1>11. CASE UNCHANGED vars
  BY <1>11 DEF vars
<1>12. QED
  BY <1>1, <1>2, <1>3, <1>4, <1>5, <1>6, <1>7, <1>8, <1>9, <1>10, <1>11 DEF Next, Work

\* What others say joins it, and with interruption on there are no others.
LEMMA AloneStep ==
  ASSUME DispatchInv, HistoryType, PriorInv, [Next]_vars,
         NEW x \in Message, ~hadPrior'[x], pc'[x] \in {"append", "read"}
  PROVE  Alone(x)'
<1> DEFINE h == history[Sender[x]]
           k == history'[Sender[x]]
<1>0. /\ DispatchTypeOK /\ Sender[x] \in Senders /\ h \in Seq(Turn)
      /\ interrupt' = interrupt
  BY TurnTypes DEF DispatchInv, HistoryType, Next, vars
<1>1. CASE Look(x)
  <2>1. k = h /\ h = << >> /\ pc'[x] = "append"
    BY <1>0, <1>1 DEF Look, Goto, DispatchTypeOK
  <2>2. Words(k) = {}
    BY <1>0, <2>1, WordsLess
  <2>3. QED  BY <2>1, <2>2 DEF Alone
<1>2. CASE ~Look(x)
  <2>1. /\ pc[x] \in {"append", "read"} /\ hadPrior'[x] = hadPrior[x]
        /\ joined[x] \subseteq joined'[x]
        /\ pc'[x] = pc[x] \/ AppendUserTurn(x)
    BY <1>0, <1>2, Looked
  <2>2. Words(h) \subseteq joined[x] \cup {x}
    BY <2>1 DEF PriorInv, Alone
  <2>3. interrupt /\ OneScope => h = IF pc[x] = "append" THEN << >> ELSE <<UserTurn(x)>>
    BY <2>1 DEF PriorInv, Alone
  <2>4. ASSUME k = h, pc'[x] = pc[x] PROVE Alone(x)'
    <3>1. Words(k) \subseteq joined'[x] \cup {x}
      BY <2>1, <2>2, <2>4
    <3>2. QED  BY <1>0, <2>3, <2>4, <3>1 DEF Alone
  <2>5. ASSUME NEW m \in Message, m # x, Sender[m] = Sender[x],
               pc[m] \in {"start", "append", "generate"}
        PROVE  ~(interrupt /\ OneScope)
    <3>1. pc[m] \in Busy \ Waits /\ pc[x] \in Busy \ Waits
      BY <2>1, <2>5 DEF Busy, Waits, Processing
    <3>2. QED  BY <2>5, <3>1, OneTalker
  <2>6. ASSUME NEW m \in Message, AppendUserTurn(m),
               history' = [history EXCEPT ![Sender[m]] = Appended(history[Sender[m]], UserTurn(m))]
        PROVE  Alone(x)'
    <3>1. pc[m] = "append" /\ pc' = [pc EXCEPT ![m] = "read"]
          /\ joined' = [w \in Message |->
                          IF w \in Reading(m) THEN joined[w] \cup {m} ELSE joined[w]]
      BY <2>6 DEF AppendUserTurn, Goto
    <3>2. pc'[m] = "read"
      BY <1>0, <3>1 DEF DispatchTypeOK
    <3>3. CASE Sender[m] # Sender[x]
      <4>1. k = h /\ m # x
        BY <1>0, <2>6, <3>3 DEF HistoryType
      <4>2. pc'[x] = pc[x]
        BY <1>0, <3>1, <4>1 DEF DispatchTypeOK
      <4>3. QED  BY <2>4, <4>1, <4>2
    <3>4. CASE Sender[m] = Sender[x]
      <4>1. k = Appended(h, UserTurn(m))
        BY <1>0, <2>6, <3>4 DEF HistoryType
      <4>2. Words(k) \subseteq Words(h) \cup {m}
        BY <1>0, <4>1, WordsAppended
      <4>3. CASE m = x
        <5>1. Words(k) \subseteq joined'[x] \cup {x}
          BY <2>1, <2>2, <4>2, <4>3
        <5>2. interrupt /\ OneScope => k = <<UserTurn(x)>>
          <6>1. Append(<< >>, UserTurn(x)) = <<UserTurn(x)>> /\ Len(<<UserTurn(x)>>) = 1
            OBVIOUS
          <6>2. Appended(<< >>, UserTurn(x)) = <<UserTurn(x)>>
            BY <6>1, HistoryAssumption DEF Appended, Newest
          <6>3. QED  BY <2>3, <3>1, <4>1, <4>3, <6>2
        <5>3. pc'[x] = "read"
          BY <3>2, <4>3
        <5>4. QED  BY <1>0, <5>1, <5>2, <5>3 DEF Alone
      <4>4. CASE m # x
        <5>1. x \in Reading(m)
          BY <2>1, <3>4, <4>4 DEF Reading
        <5>2. joined'[x] = joined[x] \cup {m}
          BY <3>1, <5>1
        <5>3. Words(k) \subseteq joined'[x] \cup {x}
          BY <2>2, <4>2, <5>2
        <5>4. ~(interrupt /\ OneScope)
          BY <2>5, <3>1, <3>4, <4>4
        <5>5. QED  BY <1>0, <5>3, <5>4 DEF Alone
      <4>5. QED  BY <4>3, <4>4
    <3>5. QED  BY <3>3, <3>4
  <2>7. ASSUME NEW m \in Message, pc[m] \in {"start", "generate"},
               pc' = [pc EXCEPT ![m] = "leave"],
               NEW R, Words(R) \subseteq Words(history[Sender[m]]),
               history' = [history EXCEPT ![Sender[m]] = R]
        PROVE  Alone(x)'
    <3>1. m # x /\ pc'[x] = pc[x]
      BY <1>0, <2>1, <2>7 DEF DispatchTypeOK
    <3>2. CASE Sender[m] # Sender[x]
      <4>1. k = h
        BY <1>0, <2>7, <3>2 DEF HistoryType
      <4>2. QED  BY <2>4, <3>1, <4>1
    <3>3. CASE Sender[m] = Sender[x]
      <4>1. k = R
        BY <1>0, <2>7, <3>3 DEF HistoryType
      <4>2. Words(k) \subseteq joined'[x] \cup {x}
        BY <2>1, <2>2, <2>7, <3>3, <4>1
      <4>3. ~(interrupt /\ OneScope)
        BY <2>5, <2>7, <3>1, <3>3
      <4>4. QED  BY <1>0, <4>2, <4>3 DEF Alone
    <3>4. QED  BY <3>2, <3>3
  <2>8. CASE UNCHANGED history /\ \A m \in Message : ~AppendUserTurn(m)
    BY <2>1, <2>4, <2>8
  <2>9. ASSUME NEW m \in Message,
               Answer(m) \/ Overflow(m) \/ NoVision(m) \/ NewSession(m)
        PROVE  pc[m] \in {"start", "generate"} /\ pc' = [pc EXCEPT ![m] = "leave"]
    BY <2>9 DEF Answer, Overflow, NoVision, NewSession, Goto
  <2>10. ASSUME NEW m \in Message
         PROVE  LET old == history[Sender[m]] IN
                /\ Words(Appended(old, AssistantTurn(m))) \subseteq Words(old)
                /\ Words(Compacted(old)) \subseteq Words(old)
                /\ CanRollBack(old, m) => Words(SubSeq(old, 1, Len(old) - 1)) \subseteq Words(old)
                /\ Words(<< >>) \subseteq Words(old)
    <3>1. history[Sender[m]] \in Seq(Turn)
      BY TurnTypes DEF HistoryType
    <3>2. QED  BY <3>1, WordsAppended, WordsLess DEF CanRollBack
  <2>11. ASSUME NEW m \in Message,
                Answer(m) \/ Overflow(m) \/ NoVision(m) \/ NewSession(m),
                NEW R, Words(R) \subseteq Words(history[Sender[m]]),
                history' = [history EXCEPT ![Sender[m]] = R]
         PROVE  Alone(x)'
    BY <2>7, <2>9, <2>11
  <2>12. ASSUME NEW m \in Message, AppendUserTurn(m) PROVE Alone(x)'
    BY <2>6, <2>12 DEF AppendUserTurn, HistoryType
  <2>13. CASE \A m \in Message : ~AppendUserTurn(m)
    <3> HIDE DEF h, k
    <3>1. CASE UNCHANGED history
      BY <2>8, <2>13, <3>1
    <3>2. CASE ~UNCHANGED history
      <4>1. PICK m \in Message :
              LET old == history[Sender[m]] IN
              \/ /\ Answer(m)
                 /\ history' = [history EXCEPT ![Sender[m]] = Appended(old, AssistantTurn(m))]
              \/ /\ Overflow(m)
                 /\ history' = [history EXCEPT ![Sender[m]] = Compacted(old)]
              \/ /\ NoVision(m) /\ CanRollBack(old, m)
                 /\ history' = [history EXCEPT ![Sender[m]] = SubSeq(old, 1, Len(old) - 1)]
              \/ /\ NoVision(m) /\ ~CanRollBack(old, m)
                 /\ history' = [history EXCEPT ![Sender[m]] = Appended(old, AssistantTurn(m))]
              \/ /\ NewSession(m)
                 /\ history' = [history EXCEPT ![Sender[m]] = << >>]
        BY <2>13, <3>2, HistoryCases
      <4>2. PICK R : /\ Words(R) \subseteq Words(history[Sender[m]])
                     /\ history' = [history EXCEPT ![Sender[m]] = R]
        BY <2>10, <4>1
      <4>3. Answer(m) \/ Overflow(m) \/ NoVision(m) \/ NewSession(m)
        BY <4>1
      <4>4. QED  BY <2>11, <4>2, <4>3
    <3>3. QED  BY <3>1, <3>2
  <2>14. QED  BY <2>12, <2>13
<1>3. QED  BY <1>1, <1>2

\* Along every run.
LEMMA PriorInvariant == Spec => []PriorInv
<1>1. Init => PriorInv
  BY DEF Init, PriorInv
<1>2. DispatchInv /\ HistoryType /\ PriorInv /\ [Next]_vars => PriorInv'
  <2> SUFFICES ASSUME DispatchInv, HistoryType, PriorInv, [Next]_vars
               PROVE  PriorInv'
    OBVIOUS
  <2>1. \A m \in Message : ~hadPrior'[m] /\ pc'[m] \in {"append", "read"} => Alone(m)'
    BY AloneStep
  <2>2. QED  BY <2>1 DEF PriorInv, Message
<1>3. QED
  BY <1>1, <1>2, DispatchInvariant, HistoryTypeInvariant, PTL DEF Spec

\* Only its own reading takes a worker from there to the model.
LEMMA ReadsItself ==
  ASSUME DispatchTypeOK, Next, NEW m \in Message, pc[m] = "read", pc'[m] = "generate"
  PROVE  ReadHistory(m)
<1> USE DEF DispatchTypeOK, Goto
<1>1. ASSUME NEW n \in Message, Register(n) PROVE FALSE
  <2>1. PICK p \in {"start", "cancel"} : pc' = [pc EXCEPT ![n] = p]
    BY <1>1 DEF Register
  <2>2. QED  BY <2>1
<1>2. ASSUME NEW n \in Message,
             Cancel(n) \/ CheckDone(n) \/ AwaitDone(n) \/ Leave(n) \/ MarkDone(n)
      PROVE  FALSE
  BY <1>2 DEF Cancel, CheckDone, AwaitDone, Leave, MarkDone
<1>3. ASSUME NEW n \in Message,
             Start(n) \/ NewSession(n) \/ Look(n) \/ AppendUserTurn(n) \/ Finish(n)
      PROVE  FALSE
  BY <1>3 DEF Start, NewSession, Look, AppendUserTurn, Finish, Interrupted, Answer, Suppress,
              Overflow, NoVision
<1>4. ASSUME NEW n \in Message, ReadHistory(n) PROVE n = m
  BY <1>4 DEF ReadHistory
<1>5. ASSUME Arrive \/ Receive PROVE FALSE
  BY <1>5 DEF Arrive, Receive
<1>6. QED
  BY <1>1, <1>2, <1>3, <1>4, <1>5 DEF Next, Work

(* What a worker gives the model alternates; it has all the user said if the conversation
   had begun when the worker looked, and with interruption and one chat a sender always,
   with the message to be answered at its end; otherwise it lacks at most what joined
   between the look and the reading (had_prior_history, normalize_cached_channel_turns). *)
THEOREM PromptFaithfulInvariant == Spec => PromptFaithful
<1>1. ASSUME DispatchInv, HistoryType, PriorInv, OneScope => TalkInv, Next,
             NEW m \in Message, pc[m] = "read", pc'[m] = "generate"
      PROVE  Faithful(m)
  <2> DEFINE h == history[Sender[m]]
             p == prompt'[m]
             prior == hadPrior[m]
  <2>0. DispatchTypeOK /\ Sender[m] \in Senders /\ h \in Seq(Turn) /\ prior \in BOOLEAN
    BY <1>1, TurnTypes DEF DispatchInv, HistoryType, DispatchTypeOK
  <2>1. ReadHistory(m)
    BY <1>1, <2>0, ReadsItself
  <2>2. prompt' = [prompt EXCEPT ![m] = PromptOf(h, m, prior)]
    BY <2>1 DEF ReadHistory
  <2>3. p = PromptOf(h, m, prior)
    BY <2>0, <2>2 DEF DispatchTypeOK
  <2> SUFFICES /\ Alternates(p)
               /\ prior => Said(p, "user") = Said(h, "user")
               /\ ToSet(Said(h, "user")) \ ToSet(Said(p, "user")) \subseteq joined[m]
               /\ interrupt /\ OneScope =>
                    /\ Said(p, "user") = Said(h, "user") /\ p # << >>
                    /\ p[Len(p)].role = "user" /\ LastOf(p[Len(p)]) = m
    BY DEF Faithful, LastOf
  <2> HIDE DEF p
  <2>4. ~prior => Alone(m)
    BY <1>1 DEF PriorInv
  <2>5. ~prior => Words(h) \subseteq joined[m] \cup {m}
    BY <2>4 DEF Alone
  <2>6. ~prior /\ interrupt /\ OneScope => h = <<UserTurn(m)>>
    BY <1>1, <2>4 DEF Alone
  <2>7. interrupt /\ OneScope => Ordered(h) /\ EndsWith(h, UserTurn(m))
    BY <1>1, <2>0 DEF TalkInv, Conversed, Talking
  <2> HIDE DEF h, prior
  <2>8. /\ Alternates(p)
        /\ prior => Said(p, "user") = Said(h, "user")
        /\ ToSet(Said(h, "user")) \ ToSet(Said(p, "user")) \subseteq
             IF prior THEN {} ELSE Words(h) \ {m}
    BY <2>0, <2>3, PromptKeeps
  <2>9. ToSet(Said(h, "user")) \ ToSet(Said(p, "user")) \subseteq joined[m]
    BY <2>0, <2>5, <2>8
  <2>10. ASSUME interrupt, OneScope PROVE p = Normalized(h)
    <3>1. CASE prior
      BY <2>3, <3>1 DEF PromptOf
    <3>2. CASE ~prior
      <4>1. h = <<UserTurn(m)>>
        BY <2>6, <2>10, <3>2
      <4>2. Normalized(h) = <<UserTurn(m)>>
        BY <4>1, FirstPrompt
      <4>3. p = Rewritten(<<UserTurn(m)>>, m)
        BY <2>3, <3>2, <4>2 DEF PromptOf
      <4>4. Rewritten(<<UserTurn(m)>>, m) = <<UserTurn(m)>>
        BY DEF Rewritten
      <4>5. QED  BY <4>2, <4>3, <4>4
    <3>3. QED  BY <2>0, <3>1, <3>2
  <2>11. ASSUME interrupt, OneScope
         PROVE  /\ Said(p, "user") = Said(h, "user") /\ p # << >>
                /\ p[Len(p)].role = "user" /\ LastOf(p[Len(p)]) = m
    <3>1. p = Normalized(h)
      BY <2>10, <2>11
    <3>2. Said(Normalized(h), "user") = Said(h, "user")
      BY <2>0, NormalizedFaithful
    <3>3. Ordered(h) /\ EndsWith(h, UserTurn(m))
      BY <2>7, <2>11
    <3>4. QED  BY <2>0, <3>1, <3>2, <3>3, PromptEnds
  <2>12. QED  BY <2>8, <2>9, <2>11
<1>2. DispatchInv /\ HistoryType /\ PriorInv /\ (OneScope => TalkInv) /\ [Next]_vars =>
        [\A m \in Message : pc[m] = "read" /\ pc'[m] = "generate" => Faithful(m)]_vars
  BY <1>1
<1>3. QED
  BY <1>2, DispatchInvariant, HistoryTypeInvariant, PriorInvariant, TalkInvariant, PTL
  DEF Spec, PromptFaithful
=============================================================================
