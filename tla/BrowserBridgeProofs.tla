------------------------ MODULE BrowserBridgeProofs ------------------------
(* Proof that the browser bridge keeps the promise of CommandDelivery, for  *)
(* any browsers, calls and restarts: no command is executed twice, out of   *)
(* order, or in a browser it was not queued for.                            *)
EXTENDS BrowserBridge, FiniteSetTheorems, SequenceTheorems, TLAPS

-----------------------------------------------------------------------------
(* Strictly increasing sequences of places.                                 *)
Increasing(s) == \A i, j \in DOMAIN s : i < j => s[i] < s[j]

(* A function on 1 .. n is a sequence. *)
LEMMA FunctionIsSeq ==
  ASSUME NEW S, NEW n \in Nat, NEW f \in [1 .. n -> S]
  PROVE  f \in Seq(S)
  BY SeqDef

(* What a poll returns is an increasing sequence of places of its set. *)
LEMMA OldestFirstIs ==
  ASSUME NEW n \in Nat, NEW S \in SUBSET (1 .. n), NEW s \in OldestFirst(S)
  PROVE  /\ s \in Seq(Nat)
         /\ \A i \in DOMAIN s : s[i] \in S
         /\ Increasing(s)
<1>1. IsFiniteSet(1 .. n)
  BY FS_Interval
<1>2. Cardinality(S) \in Nat
  BY <1>1, FS_Subset, FS_CardinalityType
<1>3. s \in [1 .. Cardinality(S) -> S]
  BY DEF OldestFirst, Orders
<1>4. s \in [1 .. Cardinality(S) -> Nat]
  <2>1. S \subseteq Nat
    OBVIOUS
  <2>2. QED  BY <1>3, <2>1, Zenon
<1>5. s \in Seq(Nat)
  BY <1>2, <1>4, FunctionIsSeq, Zenon
<1>6. Increasing(s)
  BY DEF OldestFirst, Increasing
<1>7. QED
  BY <1>3, <1>5, <1>6

(* A call that has candidates has a first one. *)
LEMMA OrdersNonEmpty ==
  ASSUME NEW S \in SUBSET Clients, S # {}, NEW s \in Orders(S)
  PROVE  s \in Seq(Clients) /\ s # << >>
<1>1. Cardinality(S) \in Nat \ {0}
  BY BridgeAssumption, FS_Subset, FS_CardinalityType, FS_EmptySet
<1>2. s \in [1 .. Cardinality(S) -> S]
  BY DEF Orders
<1>3. QED
  BY <1>1, <1>2

-----------------------------------------------------------------------------
(* What the queues, polls and results on their way look like.               *)
Command == [status : Status, call : Calls]
PollRecord == [client : Clients, upto : Nat, life : Nat]
PostRecord == [client : Clients, place : Nat, result : {"ok", "failed"}, life : Nat]

QueueType ==
  /\ queue \in [Clients -> Seq(Command)]
  /\ items \in [Clients -> Seq(Nat)]
  /\ executed \in [Clients -> Seq(Nat)]
  /\ life \in [Clients -> Nat]
  /\ place \in [Clients -> {"idle", "beating", "beaten", "polling", "running"}]
  /\ polls \subseteq PollRecord
  /\ posts \subseteq PostRecord
  /\ active \subseteq Clients
  /\ callAt \in [Calls -> {"new", "pick", "pick_any", "picking", "picking_any", "enqueue",
                            "waiting", "succeeded", "failed", "refused", "timed_out",
                            "queued"}]
  /\ targets \in [Calls -> Seq(Clients)]
  /\ \A k \in Calls : callAt[k] = "enqueue" => targets[k] # << >>
  /\ \A e \in Clients : place[e] = "running" => items[e] # << >>

\* Call k moves on to a place, with a list of targets to try.
CallAimed(k, to, s) ==
  /\ s \in Seq(Clients)
  /\ to \in {"enqueue", "refused", "pick"}
  /\ to = "enqueue" => s # << >>
  /\ callAt' = [callAt EXCEPT ![k] = to]
  /\ targets' = [targets EXCEPT ![k] = s]

\* A call that moves on keeps the types.
LEMMA OneCallAimed ==
  ASSUME QueueType, NEW k \in Calls, NEW to, NEW s, CallAimed(k, to, s),
         UNCHANGED <<active, queue, polls, posts, items, executed, life, place>>
  PROVE  QueueType'
<1>1. /\ s \in Seq(Clients) /\ to \in {"enqueue", "refused", "pick"}
      /\ to = "enqueue" => s # << >>
      /\ callAt' = [callAt EXCEPT ![k] = to]
      /\ targets' = [targets EXCEPT ![k] = s]
  BY DEF CallAimed
<1>2. callAt' \in [Calls -> {"new", "pick", "pick_any", "picking", "picking_any", "enqueue",
                            "waiting", "succeeded", "failed", "refused", "timed_out",
                            "queued"}]
  BY <1>1 DEF QueueType
<1>3. targets' \in [Calls -> Seq(Clients)]
  BY <1>1 DEF QueueType
<1>4. ASSUME NEW h \in Calls, callAt'[h] = "enqueue" PROVE targets'[h] # << >>
  <2>1. CASE h = k
    BY <1>1, <1>4, <2>1 DEF QueueType
  <2>2. CASE h # k
    BY <1>1, <1>4, <2>2 DEF QueueType
  <2>3. QED  BY <2>1, <2>2
<1>5. QED
  BY <1>2, <1>3, <1>4 DEF QueueType

(* Marking a queue: the commands that were polled are dispatched.           *)
LEMMA MarkedIs ==
  ASSUME NEW q \in Seq(Command), NEW upto \in Nat
  PROVE  /\ Marked(q, upto) \in Seq(Command)
         /\ Len(Marked(q, upto)) = Len(q)
         /\ \A i \in 1 .. Len(q) :
              Marked(q, upto)[i].status = "queued" <=> (q[i].status = "queued" /\ i > upto)
<1>1. \A c \in Command : /\ [c EXCEPT !.status = "dispatched"] \in Command
                         /\ [c EXCEPT !.status = "dispatched"].status = "dispatched"
  BY DEF Command, Status
<1>2. q \in [1 .. Len(q) -> Command] /\ Len(q) \in Nat /\ DOMAIN q = 1 .. Len(q)
  OBVIOUS
<1>3. Marked(q, upto) \in [1 .. Len(q) -> Command]
  BY <1>1, <1>2 DEF Marked
<1>4. Marked(q, upto) \in Seq(Command)
  BY <1>2, <1>3, FunctionIsSeq, Zenon
<1>5. DOMAIN Marked(q, upto) = 1 .. Len(q)
  BY <1>3
<1>6. Len(Marked(q, upto)) = Len(q)
  BY <1>2, <1>4, <1>5
<1>7. \A i \in 1 .. Len(q) :
        Marked(q, upto)[i].status = "queued" <=> (q[i].status = "queued" /\ i > upto)
  BY <1>1, <1>2 DEF Marked
<1>8. QED  BY <1>4, <1>6, <1>7

(* A command that was handed out, or whose result was.                      *)
Taken(e, i) == i \in 1 .. Len(queue[e]) /\ queue[e][i].status # "queued"

(* Why commands are executed in order: in every queue those not yet handed  *)
(* out come last, and what a browser holds comes after what it executed.    *)
DeliveryInv ==
  /\ \A e \in Clients : \A j \in 1 .. Len(queue[e]) : \A i \in 1 .. j :
       Taken(e, j) => Taken(e, i)
  /\ \A p \in polls : p.upto <= Len(queue[p.client])
  /\ \A p \in posts : Taken(p.client, p.place)
  /\ \A e \in Clients : \A i \in DOMAIN items[e] : Taken(e, items[e][i])
  /\ \A e \in Clients : \A j \in DOMAIN executed[e] : Taken(e, executed[e][j])
  /\ \A e \in Clients : Increasing(items[e])
  /\ \A e \in Clients : \A j \in DOMAIN executed[e], i \in DOMAIN items[e] :
       executed[e][j] < items[e][i]

-----------------------------------------------------------------------------
(* Queues, polls, results and calls stay within their types.                *)
LEMMA QueuesTyped == Spec => []QueueType
<1>1. Init => QueueType
  BY DEF Init, QueueType, Command, PollRecord, PostRecord
<1>2. QueueType /\ [Next]_vars => QueueType'
  <2> SUFFICES ASSUME QueueType, [Next]_vars PROVE QueueType'
    OBVIOUS
  <2> USE DEF QueueType
  <2>1. ASSUME NEW e \in Clients, Heartbeat(e) \/ HeartbeatStore(e) \/ Expire(e)
        PROVE QueueType'
    BY <2>1 DEF Heartbeat, HeartbeatStore, Expire, callVars, extVars
  <2>2. ASSUME NEW e \in Clients, Poll(e) PROVE QueueType'
    <3>1. [client |-> e, upto |-> Len(queue[e]), life |-> life[e]] \in PollRecord
      BY DEF PollRecord
    <3>2. polls' \subseteq PollRecord
      BY <2>2, <3>1 DEF Poll
    <3>3. \/ place' = [place EXCEPT ![e] = "idle"]
          \/ place' = [place EXCEPT ![e] = "polling"]
      BY <2>2 DEF Poll
    <3>4. QED
      BY <2>2, <3>2, <3>3 DEF Poll, callVars
  <2>3. ASSUME NEW e \in Clients, Restart(e) PROVE QueueType'
    BY <2>3 DEF Restart, callVars
  <2>4. ASSUME NEW e \in Clients, NEW result \in {"ok", "failed"}, Execute(e, result)
        PROVE QueueType'
    <3>1. items[e] \in Seq(Nat) /\ items[e] # << >>
      BY <2>4 DEF Execute
    <3>2. Head(items[e]) \in Nat /\ Tail(items[e]) \in Seq(Nat)
      BY <3>1
    <3>3. Len(items[e]) # 1 => Tail(items[e]) # << >>
      <4>1. Len(Tail(items[e])) = Len(items[e]) - 1
        BY <3>1
      <4>2. Len(items[e]) \in Nat \ {0}
        BY <3>1
      <4>3. Len(<< >>) = 0
        OBVIOUS
      <4>4. Tail(items[e]) = << >> => Len(Tail(items[e])) = 0
        BY <4>3, Zenon
      <4>5. QED  BY <4>1, <4>2, <4>4
    <3>4. executed' \in [Clients -> Seq(Nat)] /\ items' \in [Clients -> Seq(Nat)]
      BY <2>4, <3>2 DEF Execute
    <3>5. posts' \subseteq PostRecord
      BY <2>4, <3>2 DEF Execute, PostRecord
    <3>6. QED
      BY <2>4, <3>3, <3>4, <3>5 DEF Execute, callVars
  <2>5. ASSUME NEW p \in polls, PollMark(p) PROVE QueueType'
    <3> DEFINE e == p.client
    <3>1. e \in Clients /\ p.upto \in Nat
      BY DEF PollRecord
    <3>2. Marked(queue[e], p.upto) \in Seq(Command)
      BY <3>1, MarkedIs
    <3>3. queue' \in [Clients -> Seq(Command)]
      BY <2>5, <3>1, <3>2 DEF PollMark
    <3>4. CASE UNCHANGED items /\ (place' = place \/ place' = [place EXCEPT ![e] = "idle"])
      BY <2>5, <3>1, <3>3, <3>4 DEF PollMark, callVars
    <3>5. ASSUME NEW commands \in OldestFirst(Fresh(queue[e], p.upto)),
                 items' = [items EXCEPT ![e] = commands],
                 place' = [place EXCEPT ![e] = IF commands = << >> THEN "idle" ELSE "running"]
          PROVE QueueType'
      <4>1. commands \in Seq(Nat)
        BY <3>1, OldestFirstIs DEF Fresh
      <4>2. QED
        BY <2>5, <3>1, <3>3, <3>5, <4>1 DEF PollMark, callVars
    <3>6. QED  BY <2>5, <3>4, <3>5 DEF PollMark
  <2>6. ASSUME NEW p \in posts, Complete(p) PROVE QueueType'
    <3>1. p.client \in Clients
      BY DEF PostRecord
    <3>2. queue' = [queue EXCEPT ![p.client][p.place].status =
                      IF p.result = "ok" THEN "completed" ELSE "failed"]
      BY <2>6 DEF Complete
    <3>3. queue' \in [Clients -> Seq(Command)]
      <4> DEFINE q == queue[p.client]
                 result == IF p.result = "ok" THEN "completed" ELSE "failed"
                 new == [q EXCEPT ![p.place].status = result]
      <4>1. q \in Seq(Command)
        BY <3>1
      <4>2. \A c \in Command : [c EXCEPT !.status = result] \in Command
        BY DEF Command, Status
      <4>3. new \in [1 .. Len(q) -> Command]
        <5>1. q \in [1 .. Len(q) -> Command]
          BY <4>1
        <5>2. CASE p.place \notin 1 .. Len(q)
          BY <5>1, <5>2
        <5>3. CASE p.place \in 1 .. Len(q)
          <6>1. [q[p.place] EXCEPT !.status = result] \in Command
            BY <4>2, <5>1, <5>3
          <6>2. new = [q EXCEPT ![p.place] = [q[p.place] EXCEPT !.status = result]]
            BY <5>1, <5>3
          <6>3. QED  BY <5>1, <5>3, <6>1, <6>2
        <5>4. QED  BY <5>2, <5>3
      <4>4. Len(q) \in Nat
        BY <4>1
      <4>5. new \in Seq(Command)
        BY <4>3, <4>4, FunctionIsSeq, Zenon
      <4>6. queue' = [queue EXCEPT ![p.client] = new]
        BY <3>1, <3>2
      <4>7. QED  BY <3>1, <4>5, <4>6
    <3>4. QED
      BY <2>6, <3>3 DEF Complete, callVars
  <2>7. ASSUME NEW p \in posts, LosePost(p) PROVE QueueType'
    BY <2>7 DEF LosePost, callVars
  <2>8. ASSUME NEW k \in Calls, Choose(k) PROVE QueueType'
    <3>0. UNCHANGED <<active, queue, polls, posts, items, executed, life, place>>
      BY <2>8 DEF Choose, extVars
    <3>1. ASSUME NEW S \in SUBSET Clients, S # {},
                 \E s \in Orders(S) : targets' = [targets EXCEPT ![k] = s],
                 CallTo(k, "enqueue")
          PROVE  QueueType'
      <4>1. PICK s \in Orders(S) : targets' = [targets EXCEPT ![k] = s]
        BY <3>1
      <4>2. s \in Seq(Clients) /\ s # << >>
        BY <3>1, OrdersNonEmpty
      <4>3. CallAimed(k, "enqueue", s)
        BY <3>1, <4>1, <4>2 DEF CallAimed, CallTo
      <4>4. QED  BY <3>0, <4>3, OneCallAimed
    <3>2. CASE CallTo(k, "pick") /\ UNCHANGED targets
      <4>1. targets' = [targets EXCEPT ![k] = targets[k]] /\ targets[k] \in Seq(Clients)
        BY <3>2 DEF QueueType
      <4>2. CallAimed(k, "pick", targets[k])
        BY <3>2, <4>1 DEF CallAimed, CallTo
      <4>3. QED  BY <3>0, <4>2, OneCallAimed
    <3>3. PICK selectable \in SUBSET active :
            \/ /\ selectable \cap supported # {}
               /\ \E s \in Orders(selectable \cap supported) : targets' = [targets EXCEPT ![k] = s]
               /\ CallTo(k, "enqueue")
            \/ /\ selectable \cap supported = {}
               /\ CallTo(k, "pick")
               /\ UNCHANGED targets
      BY <2>8 DEF Choose
    <3>4. selectable \cap supported \in SUBSET Clients
      BY DEF QueueType
    <3>5. QED  BY <3>1, <3>2, <3>3, <3>4
  <2>9. ASSUME NEW k \in Calls, Request(k) \/ PickLock(k) PROVE QueueType'
    BY <2>9 DEF Request, PickLock, CallTo, extVars
  <2>10. ASSUME NEW k \in Calls, PickFind(k) PROVE QueueType'
    <3>1. CASE /\ \E e \in active : targets' = [targets EXCEPT ![k] = <<e>>]
               /\ CallTo(k, "enqueue")
      BY <2>10, <3>1 DEF PickFind, CallTo, extVars
    <3>2. CASE (CallTo(k, "pick_any") \/ CallTo(k, "refused")) /\ UNCHANGED targets
      BY <2>10, <3>2 DEF PickFind, CallTo, extVars
    <3>3. QED
      BY <2>10, <3>1, <3>2 DEF PickFind
  <2>11. ASSUME NEW k \in Calls, Enqueue(k) PROVE QueueType'
    <3>1. targets[k] \in Seq(Clients) /\ targets[k] # << >>
      BY <2>11 DEF Enqueue
    <3>2. Head(targets[k]) \in Clients /\ Tail(targets[k]) \in Seq(Clients)
      BY <3>1
    <3>3. queue' \in [Clients -> Seq(Command)]
      BY <2>11, <3>2 DEF Enqueue, Command, Status
    <3>4. QED
      BY <2>11, <3>2, <3>3 DEF Enqueue, CallTo, extVars
  <2>12. ASSUME NEW k \in Calls, Succeed(k) \/ Fail(k) \/ TimeOut(k) PROVE QueueType'
    <3>1. UNCHANGED <<queue, items, executed, life, place, polls, posts, active>>
      BY <2>12 DEF Succeed, Fail, TimeOut, extVars
    <3>2. CASE /\ \E to \in {"succeeded", "failed", "timed_out", "queued"} : CallTo(k, to)
               /\ targets' = [targets EXCEPT ![k] = << >>]
      BY <3>1, <3>2 DEF CallTo
    <3>3. CASE CallTo(k, "enqueue") /\ targets[k] # << >> /\ UNCHANGED targets
      BY <3>1, <3>3 DEF CallTo
    <3>4. QED
      BY <2>12, <3>2, <3>3 DEF Succeed, Fail, TimeOut
  <2>13. ASSUME NEW k \in Calls, Name(k) PROVE QueueType'
    <3>0. UNCHANGED <<active, queue, polls, posts, items, executed, life, place>>
      BY <2>13 DEF Name, extVars
    <3>1. PICK e \in Clients :
            /\ targets' = [targets EXCEPT ![k] = IF e \in active THEN <<e>> ELSE << >>]
            /\ CallTo(k, IF e \in active THEN "enqueue" ELSE "refused")
      BY <2>13 DEF Name
    <3>2. CASE e \in active
      <4>1. <<e>> \in Seq(Clients) /\ <<e>> # << >>
        OBVIOUS
      <4>2. CallAimed(k, "enqueue", <<e>>)
        BY <3>1, <3>2, <4>1 DEF CallAimed, CallTo
      <4>3. QED  BY <3>0, <4>2, OneCallAimed
    <3>3. CASE e \notin active
      <4>1. << >> \in Seq(Clients)
        OBVIOUS
      <4>2. CallAimed(k, "refused", << >>)
        BY <3>1, <3>3, <4>1 DEF CallAimed, CallTo
      <4>3. QED  BY <3>0, <4>2, OneCallAimed
    <3>4. QED  BY <3>2, <3>3
  <2>14. CASE UNCHANGED vars
    BY <2>14 DEF vars, callVars, extVars
  <2>15. QED
    BY <2>1, <2>2, <2>3, <2>4, <2>5, <2>6, <2>7, <2>8, <2>9, <2>10, <2>11, <2>12, <2>13, <2>14
    DEF Next, Extension, Call
<1>3. QED
  BY <1>1, <1>2, PTL DEF Spec

-----------------------------------------------------------------------------
(* Commands are handed out and executed in order.                           *)

(* A step that hands nothing out and executes nothing.                      *)
LEMMA NothingDelivered ==
  ASSUME DeliveryInv, UNCHANGED <<queue, executed>>,
         polls' \subseteq polls, posts' \subseteq posts,
         \A e \in Clients : items'[e] = items[e] \/ items'[e] = << >>
  PROVE  DeliveryInv'
<1>1. \A e, i : Taken(e, i)' <=> Taken(e, i)
  BY DEF Taken
<1>2. QED
  BY <1>1 DEF DeliveryInv, Increasing

(* What was handed out comes first in each queue, and what a browser holds after what it
   has executed, in every reachable state. *)
LEMMA Handed == Spec => []DeliveryInv
<1>1. Init => DeliveryInv
  BY DEF Init, DeliveryInv, Taken, Increasing
<1>2. QueueType /\ DeliveryInv /\ [Next]_vars => DeliveryInv'
  <2> SUFFICES ASSUME QueueType, DeliveryInv, [Next]_vars PROVE DeliveryInv'
    OBVIOUS
  <2>1. ASSUME NEW e \in Clients, Heartbeat(e) \/ HeartbeatStore(e) \/ Expire(e)
        PROVE DeliveryInv'
    BY <2>1, NothingDelivered DEF Heartbeat, HeartbeatStore, Expire, callVars, extVars
  <2>2. ASSUME NEW e \in Clients, Poll(e) PROVE DeliveryInv'
    <3>1. UNCHANGED <<queue, items, posts, executed>>
      BY <2>2 DEF Poll
    <3>2. \A p \in polls' : p \in polls \/ (p.client = e /\ p.upto = Len(queue[e]))
      BY <2>2 DEF Poll
    <3>3. \A p \in polls' : p.upto <= Len(queue[p.client])
      <4>1. Len(queue[e]) \in Nat
        BY DEF QueueType
      <4>2. QED  BY <3>2, <4>1 DEF DeliveryInv
    <3>4. \A x, i : Taken(x, i)' <=> Taken(x, i)
      BY <3>1 DEF Taken
    <3>5. QED
      BY <3>1, <3>3, <3>4 DEF DeliveryInv, Increasing
  <2>3. ASSUME NEW e \in Clients, Restart(e) PROVE DeliveryInv'
    <3>1. \A x \in Clients : items'[x] = items[x] \/ items'[x] = << >>
      BY <2>3 DEF Restart, QueueType
    <3>2. QED
      BY <2>3, <3>1, NothingDelivered DEF Restart
  <2>4. ASSUME NEW e \in Clients, NEW result \in {"ok", "failed"}, Execute(e, result)
        PROVE DeliveryInv'
    <3> DEFINE first == Head(items[e])
    <3>1. items[e] \in Seq(Nat) /\ items[e] # << >> /\ executed[e] \in Seq(Nat)
      BY <2>4 DEF Execute, QueueType
    <3>2. /\ items' = [items EXCEPT ![e] = Tail(items[e])]
          /\ executed' = [executed EXCEPT ![e] = Append(executed[e], first)]
          /\ UNCHANGED <<queue, polls>>
          /\ posts' = posts \cup {[client |-> e, place |-> first, result |-> result,
                                    life |-> life[e]]}
      BY <2>4 DEF Execute
    <3>3. \A x, i : Taken(x, i)' <=> Taken(x, i)
      BY <3>2 DEF Taken
    <3>4. first = items[e][1] /\ 1 \in DOMAIN items[e] /\ Taken(e, first)
      <4>1. first = items[e][1] /\ 1 \in DOMAIN items[e]
        BY <3>1
      <4>2. QED  BY <4>1 DEF DeliveryInv
    <3>5. /\ items'[e] = Tail(items[e])
          /\ executed'[e] = Append(executed[e], first)
          /\ \A x \in Clients : x # e => items'[x] = items[x] /\ executed'[x] = executed[x]
      BY <3>2 DEF QueueType
    <3>6. \A i \in DOMAIN items'[e] : i + 1 \in DOMAIN items[e] /\ 1 < i + 1
                                       /\ items'[e][i] = items[e][i + 1]
      BY <3>1, <3>5
    <3>7. \A j \in DOMAIN executed'[e] :
            \/ executed'[e][j] = first
            \/ j \in DOMAIN executed[e] /\ executed'[e][j] = executed[e][j]
      BY <3>1, <3>5
    <3>8. \A i \in DOMAIN items'[e] : first < items'[e][i]
      BY <3>4, <3>6 DEF DeliveryInv, Increasing
    <3>9. Increasing(items[e])' /\ \A x \in Clients : x # e => Increasing(items[x])'
      <4>1. \A i, j \in DOMAIN items'[e] : i < j => i + 1 < j + 1
        BY <3>1, <3>5
      <4>2. QED  BY <3>5, <3>6, <4>1 DEF DeliveryInv, Increasing
    <3>10. \A p \in posts' : Taken(p.client, p.place)
      BY <3>2, <3>4 DEF DeliveryInv
    <3>11. \A x \in Clients : \A i \in DOMAIN items'[x] : Taken(x, items'[x][i])
      <4>1. \A i \in DOMAIN items[e] : Taken(e, items[e][i])
        BY DEF DeliveryInv
      <4>2. \A i \in DOMAIN items'[e] : Taken(e, items'[e][i])
        BY <3>6, <4>1
      <4>3. ASSUME NEW x \in Clients, x # e, NEW i \in DOMAIN items'[x]
            PROVE  Taken(x, items'[x][i])
        <5>1. items'[x] = items[x]
          BY <3>5, <4>3
        <5>2. QED  BY <5>1 DEF DeliveryInv
      <4>4. QED  BY <4>2, <4>3
    <3>12. \A x \in Clients : \A j \in DOMAIN executed'[x] : Taken(x, executed'[x][j])
      BY <3>4, <3>5, <3>7 DEF DeliveryInv
    <3>13. \A x \in Clients : \A j \in DOMAIN executed'[x], i \in DOMAIN items'[x] :
             executed'[x][j] < items'[x][i]
      <4>1. \A j \in DOMAIN executed[e], i \in DOMAIN items[e] : executed[e][j] < items[e][i]
        BY DEF DeliveryInv
      <4>2. \A j \in DOMAIN executed'[e], i \in DOMAIN items'[e] :
              executed'[e][j] < items'[e][i]
        BY <3>6, <3>7, <3>8, <4>1
      <4>3. QED  BY <3>5, <4>2 DEF DeliveryInv
    <3>14. QED
      BY <3>2, <3>3, <3>9, <3>10, <3>11, <3>12, <3>13 DEF DeliveryInv
  <2>5. ASSUME NEW p \in polls, PollMark(p) PROVE DeliveryInv'
    <3> DEFINE e == p.client
    <3>1. e \in Clients /\ p.upto \in Nat /\ queue[e] \in Seq(Command)
          /\ Len(queue[e]) \in Nat /\ p.upto <= Len(queue[e])
      BY DEF QueueType, PollRecord, DeliveryInv
    <3>2. /\ queue' = [queue EXCEPT ![e] = Marked(queue[e], p.upto)]
          /\ polls' \subseteq polls
          /\ UNCHANGED <<posts, executed>>
      BY <2>5 DEF PollMark
    <3>3. /\ queue'[e] = Marked(queue[e], p.upto)
          /\ \A x \in Clients : x # e => queue'[x] = queue[x]
      BY <3>1, <3>2 DEF QueueType
    <3>4. \A x \in Clients : Len(queue'[x]) = Len(queue[x])
      BY <3>1, <3>3, MarkedIs
    <3>5. \A x \in Clients : \A i : Taken(x, i)' <=> Taken(x, i) \/ (x = e /\ i \in 1 .. p.upto)
      <4>1. \A i \in 1 .. Len(queue[e]) :
              queue'[e][i].status = "queued" <=> (queue[e][i].status = "queued" /\ i > p.upto)
        BY <3>1, <3>3, MarkedIs
      <4>2. \A i : Taken(e, i)' <=> Taken(e, i) \/ i \in 1 .. p.upto
        BY <3>1, <3>4, <4>1 DEF Taken
      <4>3. \A x \in Clients : \A i : x # e => (Taken(x, i)' <=> Taken(x, i))
        BY <3>3 DEF Taken
      <4>4. QED  BY <4>2, <4>3
    <3>6. items'[e] = items[e] \/ items'[e] \in OldestFirst(Fresh(queue[e], p.upto))
      BY <2>5, <3>1 DEF PollMark, QueueType
    <3>7. \A x \in Clients : x # e => items'[x] = items[x]
      BY <2>5, <3>1 DEF PollMark, QueueType
    <3>8. /\ \A x \in Clients : \A j \in 1 .. Len(queue'[x]) : \A i \in 1 .. j :
                Taken(x, j)' => Taken(x, i)'
          /\ \A r \in polls' : r.upto <= Len(queue'[r.client])
          /\ \A r \in posts' : Taken(r.client, r.place)'
          /\ \A x \in Clients : \A j \in DOMAIN executed'[x] : Taken(x, executed[x][j])'
      <4>1. \A x \in Clients : \A j \in 1 .. Len(queue'[x]) : \A i \in 1 .. j :
              Taken(x, j)' => Taken(x, i)'
        BY <3>1, <3>4, <3>5 DEF DeliveryInv
      <4>2. \A r \in polls' : r.upto <= Len(queue'[r.client])
        BY <3>2, <3>4 DEF DeliveryInv, QueueType, PollRecord
      <4>3. \A r \in posts' : Taken(r.client, r.place)'
        BY <3>2, <3>5 DEF DeliveryInv, QueueType, PostRecord
      <4>4. \A x \in Clients : \A j \in DOMAIN executed'[x] : Taken(x, executed[x][j])'
        BY <3>2, <3>5 DEF DeliveryInv
      <4>5. QED  BY <4>1, <4>2, <4>3, <4>4
    <3>9. CASE items'[e] = items[e]
      <4>1. \A x \in Clients : items'[x] = items[x]
        BY <3>7, <3>9
      <4>2. /\ \A x \in Clients : \A i \in DOMAIN items'[x] : Taken(x, items[x][i])'
            /\ \A x \in Clients : Increasing(items[x])'
            /\ \A x \in Clients : \A j \in DOMAIN executed'[x], i \in DOMAIN items'[x] :
                 executed'[x][j] < items'[x][i]
        BY <3>2, <3>5, <4>1 DEF DeliveryInv, Increasing
      <4>3. QED
        BY <3>8, <4>2 DEF DeliveryInv
    <3>10. CASE items'[e] \in OldestFirst(Fresh(queue[e], p.upto))
      <4>1. /\ Increasing(items'[e])
            /\ \A i \in DOMAIN items'[e] :
                 items'[e][i] \in 1 .. p.upto /\ ~Taken(e, items'[e][i])
        <5>1. Fresh(queue[e], p.upto) \in SUBSET (1 .. p.upto)
          BY DEF Fresh
        <5>2. /\ Increasing(items'[e])
              /\ \A i \in DOMAIN items'[e] : items'[e][i] \in Fresh(queue[e], p.upto)
          BY <3>1, <3>10, <5>1, OldestFirstIs
        <5>3. \A i \in Fresh(queue[e], p.upto) : i \in 1 .. p.upto /\ ~Taken(e, i)
          BY DEF Fresh, Taken
        <5>4. QED  BY <5>2, <5>3
      <4>2. \A j \in DOMAIN executed[e], i \in DOMAIN items'[e] :
              executed[e][j] < items'[e][i]
        BY <3>1, <4>1 DEF DeliveryInv, Taken
      <4>3. \A x \in Clients : \A i \in DOMAIN items'[x] : Taken(x, items[x][i])'
        BY <3>5, <3>7, <4>1 DEF DeliveryInv
      <4>4. \A x \in Clients : Increasing(items[x])'
        BY <3>7, <4>1 DEF DeliveryInv, Increasing
      <4>5. \A x \in Clients : \A j \in DOMAIN executed'[x], i \in DOMAIN items'[x] :
              executed'[x][j] < items'[x][i]
        BY <3>2, <3>7, <4>2 DEF DeliveryInv
      <4>6. QED
        BY <3>8, <4>3, <4>4, <4>5 DEF DeliveryInv
    <3>11. QED  BY <3>6, <3>9, <3>10
  <2>6. ASSUME NEW p \in posts, Complete(p) PROVE DeliveryInv'
    <3>1. p.client \in Clients /\ Taken(p.client, p.place)
          /\ queue[p.client] \in Seq(Command)
      BY DEF QueueType, PostRecord, DeliveryInv
    <3>2. /\ queue' = [queue EXCEPT ![p.client][p.place].status =
                        IF p.result = "ok" THEN "completed" ELSE "failed"]
          /\ posts' \subseteq posts
          /\ UNCHANGED <<polls, items, executed>>
      BY <2>6 DEF Complete
    <3>3. \A x \in Clients : Len(queue'[x]) = Len(queue[x])
      BY <3>1, <3>2 DEF QueueType
    <3>4. \A x \in Clients : \A i : Taken(x, i)' <=> Taken(x, i)
      BY <3>1, <3>2, <3>3 DEF Taken, QueueType, Command
    <3>5. \A x \in Clients : \A j \in 1 .. Len(queue'[x]) : \A i \in 1 .. j :
            Taken(x, j)' => Taken(x, i)'
      <4>1. ASSUME NEW x \in Clients, NEW j \in 1 .. Len(queue'[x]), NEW i \in 1 .. j,
                   Taken(x, j)
            PROVE  Taken(x, i)
        BY <3>3, <4>1 DEF DeliveryInv
      <4>2. QED  BY <3>4, <4>1
    <3>6. /\ \A b \in polls' : b.upto <= Len(queue'[b.client])
          /\ \A b \in posts' : Taken(b.client, b.place)'
      <4>1. /\ \A b \in polls : b.client \in Clients
            /\ \A b \in posts : b.client \in Clients
        BY DEF QueueType, PollRecord, PostRecord
      <4>2. QED  BY <3>2, <3>3, <3>4, <4>1 DEF DeliveryInv
    <3>7. /\ \A x \in Clients : \A i \in DOMAIN items'[x] : Taken(x, items[x][i])'
          /\ \A x \in Clients : \A j \in DOMAIN executed'[x] : Taken(x, executed[x][j])'
      BY <3>2, <3>4 DEF DeliveryInv
    <3>8. /\ \A x \in Clients : Increasing(items[x])'
          /\ \A x \in Clients : \A j \in DOMAIN executed'[x], i \in DOMAIN items'[x] :
               executed'[x][j] < items'[x][i]
      BY <3>2 DEF DeliveryInv, Increasing
    <3>9. QED  BY <3>5, <3>6, <3>7, <3>8 DEF DeliveryInv
  <2>7. ASSUME NEW p \in posts, LosePost(p) PROVE DeliveryInv'
    BY <2>7, NothingDelivered DEF LosePost
  <2>8. ASSUME NEW k \in Calls,
               Name(k) \/ Choose(k) \/ Request(k) \/ PickLock(k) \/ PickFind(k) \/ Succeed(k) \/ Fail(k)
                 \/ TimeOut(k)
        PROVE DeliveryInv'
    <3>1. UNCHANGED <<queue, polls, extVars>>
      BY <2>8 DEF Name, Choose, Request, PickLock, PickFind, Succeed, Fail, TimeOut
    <3>2. QED
      BY <3>1, NothingDelivered DEF extVars
  <2>9. ASSUME NEW k \in Calls, Enqueue(k) PROVE DeliveryInv'
    <3> DEFINE e == Head(targets[k])
    <3>1. e \in Clients /\ queue[e] \in Seq(Command)
      <4>1. targets[k] \in Seq(Clients) /\ targets[k] # << >>
        BY <2>9 DEF Enqueue, QueueType
      <4>2. e \in Clients
        BY <4>1
      <4>3. QED  BY <4>2 DEF QueueType
    <3>2. /\ queue' = [queue EXCEPT ![e] =
                         Append(queue[e], [status |-> "queued", call |-> k])]
          /\ UNCHANGED <<polls, posts, items, executed>>
      BY <2>9 DEF Enqueue, extVars
    <3>3. /\ queue'[e] = Append(queue[e], [status |-> "queued", call |-> k])
          /\ \A x \in Clients : x # e => queue'[x] = queue[x]
      BY <3>1, <3>2 DEF QueueType
    <3>4. /\ Len(queue[e]) \in Nat
          /\ Len(queue'[e]) = Len(queue[e]) + 1
      BY <3>1, <3>3
    <3>5. \A x \in Clients : \A i : Taken(x, i)' <=> Taken(x, i)
      <4>1. ASSUME NEW x \in Clients, x # e, NEW i PROVE Taken(x, i)' <=> Taken(x, i)
        BY <3>3, <4>1 DEF Taken
      <4>2. ASSUME NEW x \in Clients, x = e, NEW i PROVE Taken(x, i)' <=> Taken(x, i)
        <5>1. \A h \in 1 .. Len(queue[x]) : queue'[x][h] = queue[x][h]
          BY <3>1, <3>3, <4>2
        <5>2. queue'[x][Len(queue[x]) + 1].status = "queued"
          BY <3>1, <3>3, <4>2
        <5>3. i \in 1 .. Len(queue'[x]) <=> i \in 1 .. Len(queue[x]) \/ i = Len(queue[x]) + 1
          BY <3>4, <4>2
        <5>4. Len(queue[x]) + 1 \notin 1 .. Len(queue[x])
          BY <3>4, <4>2
        <5>5. QED  BY <5>1, <5>2, <5>3, <5>4 DEF Taken
      <4>3. QED  BY <4>1, <4>2
    <3>6. \A x \in Clients : \A j \in 1 .. Len(queue'[x]) : \A i \in 1 .. j :
            Taken(x, j) => Taken(x, i)
      BY <3>3, <3>4 DEF DeliveryInv, Taken
    <3>7. \A p \in polls : p.upto <= Len(queue'[p.client])
      <4>1. \A p \in polls : p.client \in Clients /\ p.upto \in Nat
                             /\ p.upto <= Len(queue[p.client])
        BY DEF DeliveryInv, QueueType, PollRecord
      <4>2. QED  BY <3>3, <3>4, <4>1
    <3>8. QED
      BY <3>2, <3>5, <3>6, <3>7 DEF DeliveryInv, Increasing, QueueType, PostRecord
  <2>10. CASE UNCHANGED vars
    BY <2>10, NothingDelivered DEF vars, extVars
  <2>11. QED
    BY <2>1, <2>2, <2>3, <2>4, <2>5, <2>6, <2>7, <2>8, <2>9, <2>10 DEF Next, Extension, Call
<1>3. QED
  BY <1>1, <1>2, QueuesTyped, PTL DEF Spec

-----------------------------------------------------------------------------
(* The bridge implements CommandDelivery: every step submits a command, executes one that
   comes after all that its browser has executed, or changes neither (enqueue_command,
   poll_commands, heartbeatAndPoll). *)
THEOREM BridgeImplementsDelivery == Spec => DeliveredAtMostOnceInOrder
<1> USE DEF Delivery!Init, Delivery!Next, Delivery!vars
<1>1. Init => Delivery!Init
  BY DEF Init
<1>2. QueueType /\ DeliveryInv /\ [Next]_vars => [Delivery!Next]_(Delivery!vars)
  <2> SUFFICES ASSUME QueueType, DeliveryInv, [Next]_vars
               PROVE  [Delivery!Next]_(Delivery!vars)
    OBVIOUS
  <2> DEFINE submitted == [e \in Clients |-> Len(queue[e])]
  <2>1. ASSUME UNCHANGED <<queue, executed>> PROVE UNCHANGED <<submitted, executed>>
    BY <2>1
  <2>2. ASSUME NEW e \in Clients,
               Heartbeat(e) \/ HeartbeatStore(e) \/ Expire(e) \/ Poll(e) \/ Restart(e)
        PROVE UNCHANGED <<submitted, executed>>
    BY <2>1, <2>2 DEF Heartbeat, HeartbeatStore, Expire, Poll, Restart, extVars
  <2>3. ASSUME NEW k \in Calls,
               Name(k) \/ Choose(k) \/ Request(k) \/ PickLock(k) \/ PickFind(k) \/ Succeed(k) \/ Fail(k)
                 \/ TimeOut(k)
        PROVE UNCHANGED <<submitted, executed>>
    BY <2>1, <2>3
    DEF Name, Choose, Request, PickLock, PickFind, Succeed, Fail, TimeOut, extVars
  <2>4. ASSUME NEW p \in posts, LosePost(p) PROVE UNCHANGED <<submitted, executed>>
    BY <2>1, <2>4 DEF LosePost
  <2>5. ASSUME NEW p \in posts, Complete(p) PROVE UNCHANGED <<submitted, executed>>
    <3>1. p.client \in Clients
      BY DEF QueueType, PostRecord
    <3>2. \A x \in Clients : Len(queue'[x]) = Len(queue[x])
      BY <2>5, <3>1 DEF Complete, QueueType
    <3>3. executed' = executed
      BY <2>5 DEF Complete
    <3>4. QED  BY <3>2, <3>3
  <2>6. ASSUME NEW p \in polls, PollMark(p) PROVE UNCHANGED <<submitted, executed>>
    <3>1. p.client \in Clients /\ p.upto \in Nat
      BY DEF QueueType, PollRecord
    <3>2. queue' = [queue EXCEPT ![p.client] = Marked(queue[p.client], p.upto)]
          /\ executed' = executed
      BY <2>6 DEF PollMark
    <3>3. \A x \in Clients : Len(queue'[x]) = Len(queue[x])
      <4>1. queue[p.client] \in Seq(Command)
        BY <3>1 DEF QueueType
      <4>2. Len(Marked(queue[p.client], p.upto)) = Len(queue[p.client])
        BY <3>1, <4>1, MarkedIs
      <4>3. QED  BY <3>1, <3>2, <4>2 DEF QueueType
    <3>4. QED  BY <3>2, <3>3
  <2>7. ASSUME NEW k \in Calls, Enqueue(k)
        PROVE  \E e \in Clients : Delivery!Submit(e)
    <3> DEFINE e == Head(targets[k])
    <3>1. e \in Clients
      <4>1. targets[k] \in Seq(Clients) /\ targets[k] # << >>
        BY <2>7 DEF Enqueue, QueueType
      <4>2. QED  BY <4>1
    <3>2. /\ queue' = [queue EXCEPT ![e] =
                         Append(queue[e], [status |-> "queued", call |-> k])]
          /\ executed' = executed
      BY <2>7 DEF Enqueue, extVars
    <3>3. queue[e] \in Seq(Command)
      BY <3>1 DEF QueueType
    <3>4. /\ Len(queue'[e]) = Len(queue[e]) + 1
          /\ \A x \in Clients : x # e => Len(queue'[x]) = Len(queue[x])
      BY <3>1, <3>2, <3>3 DEF QueueType
    <3>5. submitted' = [submitted EXCEPT ![e] = submitted[e] + 1]
      BY <3>1, <3>4
    <3>6. QED
      BY <3>1, <3>2, <3>5 DEF Delivery!Submit
  <2>8. ASSUME NEW e \in Clients, NEW result \in {"ok", "failed"}, Execute(e, result)
        PROVE  \E i \in 1 .. submitted[e] : Delivery!Execute(e, i)
    <3> DEFINE first == Head(items[e])
    <3>1. items[e] \in Seq(Nat) /\ items[e] # << >>
      BY <2>8 DEF Execute, QueueType
    <3>2. first = items[e][1] /\ 1 \in DOMAIN items[e]
      BY <3>1
    <3>3. first \in 1 .. Len(queue[e]) /\ \A j \in DOMAIN executed[e] : executed[e][j] < first
      BY <3>2 DEF DeliveryInv, Taken
    <3>4. first \in 1 .. submitted[e] /\ first <= submitted[e]
      <4>1. Len(queue[e]) \in Nat
        BY DEF QueueType
      <4>2. QED  BY <3>3, <4>1
    <3>5. executed' = [executed EXCEPT ![e] = Append(executed[e], first)]
          /\ UNCHANGED submitted
      BY <2>8 DEF Execute
    <3>6. QED
      BY <3>3, <3>4, <3>5 DEF Delivery!Execute
  <2>9. CASE UNCHANGED vars
    BY <2>1, <2>9 DEF vars, extVars
  <2>10. QED
    BY <2>2, <2>3, <2>4, <2>5, <2>6, <2>7, <2>8, <2>9 DEF Next, Extension, Call
<1>3. QED
  BY <1>1, <1>2, QueuesTyped, Handed, PTL
  DEF Spec, DeliveredAtMostOnceInOrder, Delivery!Spec
-----------------------------------------------------------------------------
(* Why the answer of a call is what happened: a command is executed once,   *)
(* so its one result decides for good, and a call queues another command    *)
(* only after the one before has failed.                                    *)
Ran(e, i) == \E j \in DOMAIN executed[e] : executed[e][j] = i
Is(e, i, status) == i \in 1 .. Len(queue[e]) /\ queue[e][i].status = status
Of(e, i, k) == i \in 1 .. Len(queue[e]) /\ queue[e][i].call = k

(* A result tells of one execution, and a finished command of its result.   *)
OutcomeInv ==
  /\ confirmed \subseteq Clients \X Nat
  /\ \A e \in Clients, i \in Nat : <<e, i>> \in confirmed => Ran(e, i)
  /\ \A p \in posts :
       /\ Ran(p.client, p.place)
       /\ p.result = "ok" <=> <<p.client, p.place>> \in confirmed
       /\ ~Is(p.client, p.place, "completed")
       /\ ~Is(p.client, p.place, "failed")
       /\ \A q \in posts : q.client = p.client /\ q.place = p.place => q = p
  /\ \A e \in Clients, i \in Nat :
       /\ Is(e, i, "completed") => <<e, i>> \in confirmed
       /\ Is(e, i, "failed") => <<e, i>> \notin confirmed /\ Ran(e, i)

(* Where a call is tells what became of its commands.                       *)
Unsent == {"new", "pick", "pick_any", "picking", "picking_any", "refused"}
Sent == {"waiting", "succeeded", "timed_out", "queued"}
CallTells(k) ==
  /\ callAt[k] \in Unsent => \A e \in Clients, i \in Nat : ~Of(e, i, k)
  /\ callAt[k] \in {"enqueue", "failed"} =>
       \A e \in Clients, i \in Nat : Of(e, i, k) => Is(e, i, "failed")
  /\ callAt[k] \in Sent =>
       /\ waitsFor[k] \in Clients \X Nat
       /\ Of(waitsFor[k][1], waitsFor[k][2], k)
       /\ \A e \in Clients, i \in Nat :
            Of(e, i, k) => Is(e, i, "failed") \/ waitsFor[k] = <<e, i>>
  /\ callAt[k] = "succeeded" => Is(waitsFor[k][1], waitsFor[k][2], "completed")

CallInv ==
  /\ waitsFor \in [Calls -> (Clients \X Nat) \cup {NoCommand}]
  /\ \A k \in Calls : CallTells(k)

(* A step that leaves queues, executions and confirmed alone and adds no result.            *)
LEMMA OutcomesKept ==
  ASSUME OutcomeInv, UNCHANGED <<queue, executed, confirmed>>, posts' \subseteq posts
  PROVE  OutcomeInv'
<1>1. \A e, i, status : Is(e, i, status)' <=> Is(e, i, status)
  BY DEF Is
<1>2. \A e, i : Ran(e, i)' <=> Ran(e, i)
  BY DEF Ran
<1>3. QED
  BY <1>1, <1>2 DEF OutcomeInv

(* A step that finishes no command leaves every outcome as it is.                         *)
LEMMA FinishedKept ==
  ASSUME QueueType, OutcomeInv, UNCHANGED <<posts, executed, confirmed>>,
         \A x \in Clients, i \in Nat :
           /\ Is(x, i, "completed")' <=> Is(x, i, "completed")
           /\ Is(x, i, "failed")' <=> Is(x, i, "failed")
  PROVE  OutcomeInv'
<1>1. \A x, i : Ran(x, i)' <=> Ran(x, i)
  BY DEF Ran
<1>2. \A q \in posts : q.client \in Clients /\ q.place \in Nat
  BY DEF QueueType, PostRecord
<1>3. confirmed' \subseteq Clients \X Nat
      /\ \A x \in Clients, i \in Nat : <<x, i>> \in confirmed' => Ran(x, i)'
  BY <1>1 DEF OutcomeInv
<1>4. \A p \in posts' :
        /\ Ran(p.client, p.place)'
        /\ p.result = "ok" <=> <<p.client, p.place>> \in confirmed'
        /\ ~Is(p.client, p.place, "completed")'
        /\ ~Is(p.client, p.place, "failed")'
        /\ \A q \in posts' : q.client = p.client /\ q.place = p.place => q = p
  <2> SUFFICES ASSUME NEW p \in posts
               PROVE  /\ Ran(p.client, p.place)'
                      /\ p.result = "ok" <=> <<p.client, p.place>> \in confirmed'
                      /\ ~Is(p.client, p.place, "completed")'
                      /\ ~Is(p.client, p.place, "failed")'
                      /\ \A q \in posts' : q.client = p.client /\ q.place = p.place => q = p
    OBVIOUS
  <2>1. p.client \in Clients /\ p.place \in Nat
    BY <1>2
  <2>2. QED  BY <1>1, <2>1 DEF OutcomeInv
<1>5. \A x \in Clients, i \in Nat :
        /\ Is(x, i, "completed")' => <<x, i>> \in confirmed'
        /\ Is(x, i, "failed")' => <<x, i>> \notin confirmed' /\ Ran(x, i)'
  BY <1>1 DEF OutcomeInv
<1>6. QED
  BY <1>3, <1>4, <1>5 DEF OutcomeInv

(* Marking a queue finishes no command and changes nobody's.                              *)
LEMMA MarkingFinishesNone ==
  ASSUME QueueType, NEW p \in polls, PollMark(p), NEW x \in Clients, NEW i
  PROVE  /\ \A status \in Finished : Is(x, i, status)' <=> Is(x, i, status)
         /\ \A k : Of(x, i, k)' <=> Of(x, i, k)
<1>1. p.client \in Clients /\ p.upto \in Nat /\ queue[p.client] \in Seq(Command)
  BY DEF QueueType, PollRecord
<1>2. queue' = [queue EXCEPT ![p.client] = Marked(queue[p.client], p.upto)]
  BY DEF PollMark
<1>3. CASE x # p.client
  <2>1. queue'[x] = queue[x]
    BY <1>2, <1>3 DEF QueueType
  <2>2. QED  BY <2>1 DEF Is, Of
<1>4. CASE x = p.client
  <2>1. queue'[x] = Marked(queue[x], p.upto) /\ queue[x] \in Seq(Command)
    BY <1>1, <1>2, <1>4 DEF QueueType
  <2>2. Len(queue'[x]) = Len(queue[x]) /\ Len(queue[x]) \in Nat
    BY <1>1, <2>1, MarkedIs
  <2>3. \A h \in 1 .. Len(queue[x]) :
          queue'[x][h] = IF h <= p.upto /\ queue[x][h].status = "queued"
                         THEN [queue[x][h] EXCEPT !.status = "dispatched"] ELSE queue[x][h]
    BY <2>1 DEF Marked
  <2>4. \A c \in Command : /\ [c EXCEPT !.status = "dispatched"].status = "dispatched"
                          /\ [c EXCEPT !.status = "dispatched"].call = c.call
    BY DEF Command
  <2>5. \A h \in 1 .. Len(queue[x]) : queue[x][h] \in Command
    BY <2>1
  <2>6. \A h \in 1 .. Len(queue[x]) :
          /\ queue'[x][h].call = queue[x][h].call
          /\ \A status \in Finished : queue'[x][h].status = status <=> queue[x][h].status = status
    BY <2>3, <2>4, <2>5 DEF Finished
  <2>7. QED  BY <2>2, <2>6 DEF Is, Of
<1>5. QED  BY <1>3, <1>4

(* A result finishes its own command only.                                                *)
LEMMA CompletionFinishesOne ==
  ASSUME QueueType, DeliveryInv, NEW p \in posts, Complete(p), NEW x \in Clients, NEW i
  PROVE  /\ \A status : <<x, i>> # <<p.client, p.place>> =>
                          (Is(x, i, status)' <=> Is(x, i, status))
         /\ x = p.client /\ i = p.place =>
              /\ Is(x, i, "completed")' <=> p.result = "ok"
              /\ Is(x, i, "failed")' <=> p.result # "ok"
         /\ \A k : Of(x, i, k)' <=> Of(x, i, k)
<1> DEFINE result == IF p.result = "ok" THEN "completed" ELSE "failed"
<1>1. p.client \in Clients /\ p.place \in 1 .. Len(queue[p.client])
      /\ queue[p.client] \in Seq(Command)
  BY DEF QueueType, PostRecord, DeliveryInv, Taken
<1>2. queue' = [queue EXCEPT ![p.client][p.place].status = result]
  BY DEF Complete
<1>3. CASE x # p.client
  <2>1. queue'[x] = queue[x]
    BY <1>2, <1>3 DEF QueueType
  <2>2. QED  BY <1>3, <2>1 DEF Is, Of
<1>4. CASE x = p.client
  <2>1. queue'[x] = [queue[x] EXCEPT ![p.place].status = result] /\ queue[x] \in Seq(Command)
    BY <1>1, <1>2, <1>4 DEF QueueType
  <2>2. Len(queue'[x]) = Len(queue[x])
    BY <2>1
  <2>3. \A h \in 1 .. Len(queue[x]) : h # p.place => queue'[x][h] = queue[x][h]
    BY <2>1
  <2>4. queue'[x][p.place] = [queue[x][p.place] EXCEPT !.status = result]
    BY <1>1, <1>4, <2>1
  <2>5. queue[x][p.place] \in Command
    BY <1>1, <1>4
  <2>6. /\ queue'[x][p.place].status = result
        /\ queue'[x][p.place].call = queue[x][p.place].call
    BY <2>4, <2>5 DEF Command
  <2>7. \A k : Of(x, i, k)' <=> Of(x, i, k)
    BY <2>2, <2>3, <2>6 DEF Of
  <2>8. i = p.place => /\ Is(x, i, "completed")' <=> p.result = "ok"
                       /\ Is(x, i, "failed")' <=> p.result # "ok"
    BY <1>1, <1>4, <2>2, <2>6 DEF Is
  <2>9. i # p.place => \A status : Is(x, i, status)' <=> Is(x, i, status)
    BY <2>2, <2>3 DEF Is
  <2>10. QED  BY <1>4, <2>7, <2>8, <2>9
<1>5. QED  BY <1>3, <1>4

(* A new command is queued, and its call's.                                               *)
LEMMA QueueingAddsOne ==
  ASSUME QueueType, NEW k \in Calls, Enqueue(k), NEW x \in Clients, NEW i \in Nat
  PROVE  LET e == Head(targets[k]) n == Len(queue[Head(targets[k])]) + 1 IN
         /\ e \in Clients /\ n \in Nat
         /\ waitsFor' = [waitsFor EXCEPT ![k] = <<e, n>>]
         /\ \A status \in Finished : Is(x, i, status)' <=> Is(x, i, status)
         /\ \A h : Of(x, i, h)' <=> Of(x, i, h) \/ (x = e /\ i = n /\ h = k)
<1> DEFINE e == Head(targets[k])
           n == Len(queue[e]) + 1
           new == [status |-> "queued", call |-> k]
<1>1. targets[k] \in Seq(Clients) /\ targets[k] # << >>
  BY DEF Enqueue, QueueType
<1>2. e \in Clients
  BY <1>1
<1>3. queue[e] \in Seq(Command) /\ Len(queue[e]) \in Nat
  BY <1>2 DEF QueueType
<1>4. queue' = [queue EXCEPT ![e] = Append(queue[e], new)]
      /\ waitsFor' = [waitsFor EXCEPT ![k] = <<e, n>>]
  BY DEF Enqueue
<1>5. CASE x # e
  <2>1. queue'[x] = queue[x]
    BY <1>4, <1>5 DEF QueueType
  <2>2. QED  BY <1>2, <1>3, <1>4, <1>5, <2>1 DEF Is, Of
<1>6. CASE x = e
  <2>1. queue'[x] = Append(queue[e], new)
    BY <1>2, <1>4, <1>6 DEF QueueType
  <2>2. Len(queue'[x]) = n /\ queue'[x][n] = new
    BY <1>3, <2>1
  <2>3. \A h \in 1 .. Len(queue[e]) : queue'[x][h] = queue[x][h]
    BY <1>3, <1>6, <2>1
  <2>4. \A status \in Finished : Is(x, i, status)' <=> Is(x, i, status)
    <3>1. ASSUME NEW status \in Finished, i = n PROVE Is(x, i, status)' <=> Is(x, i, status)
      <4>1. ~Is(x, n, status)
        BY <1>3, <1>6 DEF Is
      <4>2. queue'[x][n].status = "queued" /\ status # "queued"
        BY <2>2, <3>1 DEF Finished
      <4>3. QED  BY <3>1, <4>1, <4>2 DEF Is
    <3>2. ASSUME NEW status \in Finished, i \in 1 .. Len(queue[e])
          PROVE  Is(x, i, status)' <=> Is(x, i, status)
      <4>1. i \in 1 .. Len(queue'[x]) /\ queue'[x][i] = queue[x][i]
        BY <1>3, <2>2, <2>3, <3>2
      <4>2. QED  BY <1>6, <3>2, <4>1 DEF Is
    <3>3. i \in 1 .. Len(queue'[x]) => i \in 1 .. Len(queue[e]) \/ i = n
      BY <1>3, <2>2
    <3>4. ASSUME NEW status \in Finished, i \notin 1 .. Len(queue[e]), i # n
          PROVE  Is(x, i, status)' <=> Is(x, i, status)
      BY <1>6, <3>3, <3>4 DEF Is
    <3>5. QED  BY <3>1, <3>2, <3>4
  <2>5. \A h : Of(x, i, h)' <=> Of(x, i, h) \/ (i = n /\ h = k)
    <3>1. ASSUME NEW h, i = n PROVE ~Of(x, i, h) /\ (Of(x, i, h)' <=> h = k)
      <4>1. i \notin 1 .. Len(queue[e]) /\ i \in 1 .. Len(queue'[x])
        BY <1>3, <2>2, <3>1
      <4>2. queue'[x][i].call = k
        BY <2>2, <3>1
      <4>3. QED  BY <1>6, <4>1, <4>2 DEF Of
    <3>2. ASSUME NEW h, i \in 1 .. Len(queue[e]) PROVE i # n /\ (Of(x, i, h)' <=> Of(x, i, h))
      <4>1. i # n
        BY <1>3, <3>2
      <4>2. i \in 1 .. Len(queue'[x]) /\ queue'[x][i] = queue[x][i]
        BY <1>3, <2>2, <2>3, <3>2
      <4>3. QED  BY <1>6, <3>2, <4>1, <4>2 DEF Of
    <3>3. i \in 1 .. Len(queue'[x]) => i \in 1 .. Len(queue[e]) \/ i = n
      BY <1>3, <2>2
    <3>4. ASSUME NEW h, i \notin 1 .. Len(queue[e]), i # n
          PROVE  Of(x, i, h)' <=> Of(x, i, h)
      BY <1>6, <3>3, <3>4 DEF Of
    <3>5. QED  BY <3>1, <3>2, <3>4
  <2>6. QED  BY <1>2, <1>3, <1>4, <1>6, <2>4, <2>5
<1>7. QED  BY <1>5, <1>6

(* The result of a command tells whether it was executed with success.                    *)
LEMMA ResultsTell == Spec => []OutcomeInv
<1>1. Init => OutcomeInv
  BY DEF Init, OutcomeInv, Is, Ran
<1>2. QueueType /\ DeliveryInv /\ OutcomeInv /\ [Next]_vars => OutcomeInv'
  <2> SUFFICES ASSUME QueueType, DeliveryInv, OutcomeInv, [Next]_vars PROVE OutcomeInv'
    OBVIOUS
  <2>1. ASSUME NEW e \in Clients,
               Heartbeat(e) \/ HeartbeatStore(e) \/ Expire(e) \/ Poll(e) \/ Restart(e)
        PROVE OutcomeInv'
    BY <2>1, OutcomesKept DEF Heartbeat, HeartbeatStore, Expire, Poll, Restart, extVars
  <2>2. ASSUME NEW k \in Calls,
               Name(k) \/ Choose(k) \/ Request(k) \/ PickLock(k) \/ PickFind(k) \/ Succeed(k) \/ Fail(k)
                 \/ TimeOut(k)
        PROVE OutcomeInv'
    BY <2>2, OutcomesKept
    DEF Name, Choose, Request, PickLock, PickFind, Succeed, Fail, TimeOut, extVars
  <2>3. ASSUME NEW p \in posts, LosePost(p) PROVE OutcomeInv'
    BY <2>3, OutcomesKept DEF LosePost
  <2>4. ASSUME NEW e \in Clients, NEW result \in {"ok", "failed"}, Execute(e, result)
        PROVE OutcomeInv'
    <3> DEFINE first == Head(items[e])
               post == [client |-> e, place |-> first, result |-> result, life |-> life[e]]
    <3>1. items[e] \in Seq(Nat) /\ items[e] # << >> /\ executed[e] \in Seq(Nat)
      BY <2>4 DEF Execute, QueueType
    <3>2. /\ executed' = [executed EXCEPT ![e] = Append(executed[e], first)]
          /\ confirmed' = IF result = "ok" THEN confirmed \cup {<<e, first>>} ELSE confirmed
          /\ posts' = posts \cup {post}
          /\ queue' = queue
      BY <2>4 DEF Execute
    <3>3. first = items[e][1] /\ 1 \in DOMAIN items[e] /\ first \in Nat
      BY <3>1
    <3>4. ~Ran(e, first)
      BY <3>1, <3>3 DEF DeliveryInv, Ran
    <3>5. \A x \in Clients : \A i : Ran(x, i)' <=> Ran(x, i) \/ (x = e /\ i = first)
      <4>1. executed'[e] = Append(executed[e], first)
            /\ \A x \in Clients : x # e => executed'[x] = executed[x]
        BY <3>2 DEF QueueType
      <4>2. Len(executed[e]) \in Nat /\ DOMAIN executed[e] = 1 .. Len(executed[e])
            /\ DOMAIN executed'[e] = 1 .. Len(executed[e]) + 1
            /\ executed'[e][Len(executed[e]) + 1] = first
            /\ \A j \in DOMAIN executed[e] : executed'[e][j] = executed[e][j]
        BY <3>1, <4>1
      <4>3. \A i : Ran(e, i)' <=> Ran(e, i) \/ i = first
        BY <4>2 DEF Ran
      <4>4. \A x \in Clients : \A i : x # e => (Ran(x, i)' <=> Ran(x, i))
        BY <4>1 DEF Ran
      <4>5. QED  BY <4>3, <4>4
    <3>6. \A x, i, status : Is(x, i, status)' <=> Is(x, i, status)
      BY <3>2 DEF Is
    <3>7. <<e, first>> \notin confirmed /\ ~Is(e, first, "completed") /\ ~Is(e, first, "failed")
      BY <3>3, <3>4 DEF OutcomeInv
    <3>8. \A p \in posts : p.client \in Clients /\ p.place \in Nat
                           /\ ~(p.client = e /\ p.place = first)
      BY <3>4 DEF OutcomeInv, QueueType, PostRecord
    <3>9. \A x \in Clients, i \in Nat :
            <<x, i>> \in confirmed' <=>
              <<x, i>> \in confirmed \/ (result = "ok" /\ x = e /\ i = first)
      BY <3>2
    <3>10. post.client = e /\ post.place = first /\ post.result = result
      OBVIOUS
    <3>11. confirmed' \subseteq Clients \X Nat
      BY <3>2, <3>3 DEF OutcomeInv
    <3>12. \A x \in Clients, i \in Nat : <<x, i>> \in confirmed' => Ran(x, i)'
      BY <3>5, <3>9 DEF OutcomeInv
    <3>13. \A p \in posts' :
             /\ Ran(p.client, p.place)'
             /\ p.result = "ok" <=> <<p.client, p.place>> \in confirmed'
             /\ ~Is(p.client, p.place, "completed")'
             /\ ~Is(p.client, p.place, "failed")'
             /\ \A q \in posts' : q.client = p.client /\ q.place = p.place => q = p
      <4>1. ASSUME NEW p \in posts'
            PROVE  /\ Ran(p.client, p.place)'
                   /\ p.result = "ok" <=> <<p.client, p.place>> \in confirmed'
                   /\ ~Is(p.client, p.place, "completed")
                   /\ ~Is(p.client, p.place, "failed")
                   /\ \A q \in posts' : q.client = p.client /\ q.place = p.place => q = p
        <5>1. CASE p \in posts
          <6>1. p.client \in Clients /\ p.place \in Nat
                /\ ~(p.client = e /\ p.place = first)
            BY <3>8, <5>1
          <6>2. /\ Ran(p.client, p.place)
                /\ p.result = "ok" <=> <<p.client, p.place>> \in confirmed
                /\ ~Is(p.client, p.place, "completed")
                /\ ~Is(p.client, p.place, "failed")
                /\ \A q \in posts : q.client = p.client /\ q.place = p.place => q = p
            BY <5>1 DEF OutcomeInv
          <6>3. \A q \in posts' : q \in posts \/ (q.client = e /\ q.place = first)
            BY <3>2, <3>10
          <6>4. QED  BY <3>5, <3>9, <6>1, <6>2, <6>3
        <5>2. CASE p = post
          BY <3>2, <3>3, <3>5, <3>7, <3>8, <3>9, <3>10, <5>2
        <5>3. QED  BY <3>2, <5>1, <5>2
      <4>2. QED  BY <3>6, <4>1
    <3>14. \A x \in Clients, i \in Nat :
             /\ Is(x, i, "completed")' => <<x, i>> \in confirmed'
             /\ Is(x, i, "failed")' => <<x, i>> \notin confirmed' /\ Ran(x, i)'
      BY <3>5, <3>6, <3>7, <3>9 DEF OutcomeInv
    <3>15. QED
      BY <3>11, <3>12, <3>13, <3>14 DEF OutcomeInv
  <2>5. ASSUME NEW p \in posts, Complete(p) PROVE OutcomeInv'
    <3>1. posts' = posts \ {p} /\ UNCHANGED <<executed, confirmed>>
      BY <2>5 DEF Complete
    <3>2. \A x, i : Ran(x, i)' <=> Ran(x, i)
      BY <3>1 DEF Ran
    <3>3. \A q \in posts : q.client \in Clients /\ q.place \in Nat
      BY DEF QueueType, PostRecord
    <3>4. /\ p.result = "ok" <=> <<p.client, p.place>> \in confirmed
          /\ Ran(p.client, p.place)
          /\ \A q \in posts' : <<q.client, q.place>> # <<p.client, p.place>>
      BY <3>1 DEF OutcomeInv
    <3>5. \A q \in posts' : ~Is(q.client, q.place, "completed")'
                            /\ ~Is(q.client, q.place, "failed")'
      BY <2>5, <3>1, <3>3, <3>4, CompletionFinishesOne DEF OutcomeInv
    <3>6. \A x \in Clients, i \in Nat :
            /\ Is(x, i, "completed")' => <<x, i>> \in confirmed
            /\ Is(x, i, "failed")' => <<x, i>> \notin confirmed /\ Ran(x, i)
      <4>1. ASSUME NEW x \in Clients, NEW i \in Nat
            PROVE  /\ Is(x, i, "completed")' => <<x, i>> \in confirmed
                   /\ Is(x, i, "failed")' => <<x, i>> \notin confirmed /\ Ran(x, i)
        <5>1. CASE x = p.client /\ i = p.place
          BY <2>5, <3>4, <5>1, CompletionFinishesOne
        <5>2. CASE ~(x = p.client /\ i = p.place)
          BY <2>5, <5>2, CompletionFinishesOne DEF OutcomeInv
        <5>3. QED  BY <5>1, <5>2
      <4>2. QED  BY <4>1
    <3>7. QED
      BY <3>1, <3>2, <3>5, <3>6 DEF OutcomeInv
  <2>6. ASSUME NEW p \in polls, PollMark(p) PROVE OutcomeInv'
    <3>1. UNCHANGED <<posts, executed, confirmed>>
      BY <2>6 DEF PollMark
    <3>2. \A x \in Clients, i \in Nat :
            /\ Is(x, i, "completed")' <=> Is(x, i, "completed")
            /\ Is(x, i, "failed")' <=> Is(x, i, "failed")
      BY <2>6, MarkingFinishesNone DEF Finished
    <3>3. QED
      BY <3>1, <3>2, FinishedKept
  <2>7. ASSUME NEW k \in Calls, Enqueue(k) PROVE OutcomeInv'
    <3>1. UNCHANGED <<posts, executed, confirmed>>
      BY <2>7 DEF Enqueue, extVars
    <3>2. \A x \in Clients, i \in Nat :
            /\ Is(x, i, "completed")' <=> Is(x, i, "completed")
            /\ Is(x, i, "failed")' <=> Is(x, i, "failed")
      BY <2>7, QueueingAddsOne DEF Finished
    <3>3. QED
      BY <3>1, <3>2, FinishedKept
  <2>8. CASE UNCHANGED vars
    BY <2>8, OutcomesKept DEF vars, extVars
  <2>9. QED
    BY <2>1, <2>2, <2>3, <2>4, <2>5, <2>6, <2>7, <2>8 DEF Next, Extension, Call
<1>3. QED
  BY <1>1, <1>2, QueuesTyped, Handed, PTL DEF Spec

(* A step that leaves the queues and the waits alone and moves calls only between places  *)
(* that say the same of their commands.                                                   *)
LEMMA CallsKept ==
  ASSUME CallInv, UNCHANGED <<queue, waitsFor>>,
         \A k \in Calls :
           \/ callAt'[k] = callAt[k]
           \/ callAt[k] \in Unsent /\ callAt'[k] \in Unsent \cup {"enqueue"}
           \/ callAt[k] = "waiting" /\ callAt'[k] \in {"waiting", "timed_out", "queued"}
  PROVE  CallInv'
<1>1. \A e, i, k : Of(e, i, k)' <=> Of(e, i, k)
  BY DEF Of
<1>2. \A e, i, status : Is(e, i, status)' <=> Is(e, i, status)
  BY DEF Is
<1>3. ASSUME NEW k \in Calls PROVE CallTells(k)'
  <2>1. CallTells(k)
    BY DEF CallInv
  <2>2. CASE callAt'[k] = callAt[k]
    BY <1>1, <1>2, <2>1, <2>2 DEF CallTells
  <2>3. CASE callAt[k] \in Unsent /\ callAt'[k] \in Unsent \cup {"enqueue"}
    BY <1>1, <1>2, <2>1, <2>3 DEF CallTells, Unsent, Sent
  <2>4. CASE callAt[k] = "waiting" /\ callAt'[k] \in {"waiting", "timed_out", "queued"}
    BY <1>1, <1>2, <2>1, <2>4 DEF CallTells, Unsent, Sent
  <2>5. QED  BY <2>2, <2>3, <2>4
<1>4. QED  BY <1>3 DEF CallInv

(* A call that stays where it is, no command of which is lost or revived.                 *)
LEMMA CallStays ==
  ASSUME NEW k \in Calls, CallTells(k), callAt'[k] = callAt[k], waitsFor'[k] = waitsFor[k],
         \A x \in Clients, i \in Nat : Of(x, i, k)' <=> Of(x, i, k),
         \A x \in Clients, i \in Nat :
           /\ Is(x, i, "completed") => Is(x, i, "completed")'
           /\ Is(x, i, "failed") => Is(x, i, "failed")'
  PROVE  CallTells(k)'
<1>1. CASE callAt[k] \in Sent
  <2>1. PICK x \in Clients, i \in Nat : waitsFor[k] = <<x, i>>
    BY <1>1 DEF CallTells
  <2>2. Of(x, i, k) /\ (callAt[k] = "succeeded" => Is(x, i, "completed"))
    BY <1>1, <2>1 DEF CallTells
  <2>3. Of(x, i, k)' /\ (callAt'[k] = "succeeded" => Is(x, i, "completed")')
    BY <2>2
  <2>4. Of(waitsFor[k][1], waitsFor[k][2], k)'
    BY <2>1, <2>3 DEF Of
  <2>5. callAt'[k] = "succeeded" => Is(waitsFor[k][1], waitsFor[k][2], "completed")'
    BY <2>1, <2>3 DEF Is
  <2>6. \A e \in Clients, j \in Nat :
          Of(e, j, k)' => Is(e, j, "failed")' \/ waitsFor'[k] = <<e, j>>
    BY <1>1 DEF CallTells
  <2>7. QED
    BY <1>1, <2>4, <2>5, <2>6 DEF CallTells, Sent, Unsent
<1>2. CASE callAt[k] \notin Sent
  BY <1>2 DEF CallTells, Sent
<1>3. QED  BY <1>1, <1>2

(* What a call is told of its commands is what their results told.                        *)
LEMMA CallsTell == Spec => []CallInv
<1>1. Init => CallInv
  <2> SUFFICES ASSUME Init PROVE CallInv
    OBVIOUS
  <2>1. \A e \in Clients : Len(queue[e]) = 0
    BY DEF Init
  <2>2. \A e \in Clients, i \in Nat, k \in Calls : ~Of(e, i, k)
    BY <2>1 DEF Of
  <2>3. QED
    BY <2>2 DEF Init, CallInv, CallTells, Unsent, Sent
<1>2. QueueType /\ DeliveryInv /\ OutcomeInv /\ CallInv /\ [Next]_vars => CallInv'
  <2> SUFFICES ASSUME QueueType, DeliveryInv, OutcomeInv, CallInv, [Next]_vars PROVE CallInv'
    OBVIOUS
  <2>1. ASSUME NEW e \in Clients, Extension(e) PROVE CallInv'
    <3>1. UNCHANGED <<queue, waitsFor, callAt>>
      BY <2>1 DEF Extension, Heartbeat, HeartbeatStore, Expire, Poll, Restart, Execute,
                  callVars
    <3>2. QED
      BY <3>1, CallsKept
  <2>2. ASSUME NEW k \in Calls,
               Name(k) \/ Choose(k) \/ Request(k) \/ PickLock(k) \/ PickFind(k) \/ TimeOut(k)
        PROVE CallInv'
    <3>1. UNCHANGED <<queue, waitsFor>>
      BY <2>2 DEF Name, Choose, Request, PickLock, PickFind, TimeOut
    <3>2. \/ callAt[k] \in Unsent /\ callAt'[k] \in Unsent \cup {"enqueue"}
          \/ callAt[k] = "waiting" /\ callAt'[k] \in {"timed_out", "queued"}
      BY <2>2 DEF Name, Choose, Request, PickLock, PickFind, TimeOut, CallTo, Unsent, QueueType
    <3>3. \A h \in Calls : h # k => callAt'[h] = callAt[h]
      BY <2>2 DEF Name, Choose, Request, PickLock, PickFind, TimeOut, CallTo, QueueType
    <3>4. QED
      BY <3>1, <3>2, <3>3, CallsKept
  <2>3. ASSUME NEW k \in Calls, Succeed(k) \/ Fail(k) PROVE CallInv'
    <3>1. UNCHANGED <<queue, waitsFor>> /\ callAt[k] = "waiting"
      BY <2>3 DEF Succeed, Fail
    <3>2. /\ \A e, i, h : Of(e, i, h)' <=> Of(e, i, h)
          /\ \A e, i, status : Is(e, i, status)' <=> Is(e, i, status)
      BY <3>1 DEF Of, Is
    <3>3. \A h \in Calls : h # k => callAt'[h] = callAt[h]
      BY <2>3 DEF Succeed, Fail, CallTo, QueueType
    <3>4. /\ waitsFor[k] \in Clients \X Nat
          /\ Of(waitsFor[k][1], waitsFor[k][2], k)
          /\ \A e \in Clients, i \in Nat :
               Of(e, i, k) => Is(e, i, "failed") \/ waitsFor[k] = <<e, i>>
      BY <3>1 DEF CallInv, CallTells, Sent
    <3>5. CASE Succeed(k)
      <4>1. callAt'[k] = "succeeded"
        BY <3>5 DEF Succeed, CallTo, QueueType
      <4>2. Is(waitsFor[k][1], waitsFor[k][2], "completed")
        BY <3>4, <3>5 DEF Succeed, StatusOf, Of, Is
      <4>3. CallTells(k)'
        BY <3>1, <3>2, <3>4, <4>1, <4>2 DEF CallTells, Unsent, Sent
      <4>4. ASSUME NEW h \in Calls, h # k PROVE CallTells(h)'
        BY <3>1, <3>2, <3>3, <4>4 DEF CallInv, CallTells
      <4>5. QED
        BY <3>1, <4>3, <4>4 DEF CallInv
    <3>6. CASE Fail(k)
      <4>1. callAt'[k] \in {"failed", "enqueue"}
        BY <3>6 DEF Fail, CallTo, QueueType
      <4>2. Is(waitsFor[k][1], waitsFor[k][2], "failed")
        BY <3>4, <3>6 DEF Fail, StatusOf, Of, Is
      <4>3. \A e \in Clients, i \in Nat : Of(e, i, k) => Is(e, i, "failed")
        BY <3>4, <4>2
      <4>4. CallTells(k)'
        BY <3>2, <4>1, <4>3 DEF CallTells, Unsent, Sent
      <4>5. ASSUME NEW h \in Calls, h # k PROVE CallTells(h)'
        BY <3>1, <3>2, <3>3, <4>5 DEF CallInv, CallTells
      <4>6. QED
        BY <3>1, <4>4, <4>5 DEF CallInv
    <3>7. QED  BY <2>3, <3>5, <3>6
  <2>4. ASSUME NEW k \in Calls, Enqueue(k) PROVE CallInv'
    <3> DEFINE e == Head(targets[k])
               n == Len(queue[e]) + 1
    <3>1. /\ callAt[k] = "enqueue"
          /\ callAt'[k] \in {"waiting", "queued"}
          /\ \A h \in Calls : h # k => callAt'[h] = callAt[h]
      BY <2>4 DEF Enqueue, CallTo, QueueType
    <3>2. targets[k] \in Seq(Clients) /\ targets[k] # << >>
      BY <3>1 DEF QueueType
    <3>3. e \in Clients
      BY <3>2
    <3>4. n \in Nat
      BY <3>3 DEF QueueType
    <3>5. waitsFor' = [waitsFor EXCEPT ![k] = <<e, n>>]
      BY <2>4 DEF Enqueue
    <3>6. /\ waitsFor' \in [Calls -> (Clients \X Nat) \cup {NoCommand}]
          /\ waitsFor'[k] = <<e, n>>
          /\ \A h \in Calls : h # k => waitsFor'[h] = waitsFor[h]
      BY <3>3, <3>4, <3>5 DEF CallInv
    <3>7. \A x \in Clients, i \in Nat :
            /\ Is(x, i, "completed")' <=> Is(x, i, "completed")
            /\ Is(x, i, "failed")' <=> Is(x, i, "failed")
      BY <2>4, QueueingAddsOne DEF Finished
    <3>8. \A x \in Clients, i \in Nat, h \in Calls :
            Of(x, i, h)' <=> Of(x, i, h) \/ (x = e /\ i = n /\ h = k)
      BY <2>4, QueueingAddsOne
    <3>9. CallTells(k)'
      <4>1. \A x \in Clients, i \in Nat : Of(x, i, k) => Is(x, i, "failed")
        BY <3>1 DEF CallInv, CallTells
      <4>2. \A x \in Clients, i \in Nat :
              Of(x, i, k)' => Is(x, i, "failed")' \/ waitsFor'[k] = <<x, i>>
        BY <3>6, <3>7, <3>8, <4>1
      <4>3. PICK x \in Clients, i \in Nat : x = e /\ i = n
        BY <3>3, <3>4
      <4>4. Of(x, i, k)' /\ waitsFor'[k] = <<x, i>>
        BY <3>6, <3>8, <4>3
      <4>5. waitsFor'[k] \in Clients \X Nat /\ Of(waitsFor[k][1], waitsFor[k][2], k)'
        BY <4>4 DEF Of
      <4>6. QED
        BY <3>1, <4>2, <4>5 DEF CallTells, Unsent, Sent
    <3>10. ASSUME NEW h \in Calls, h # k PROVE CallTells(h)'
      <4>1. CallTells(h) /\ callAt'[h] = callAt[h] /\ waitsFor'[h] = waitsFor[h]
        BY <3>1, <3>6, <3>10 DEF CallInv
      <4>2. \A x \in Clients, i \in Nat : Of(x, i, h)' <=> Of(x, i, h)
        BY <3>8, <3>10
      <4>3. QED
        BY <3>7, <4>1, <4>2, CallStays
    <3>11. QED
      BY <3>6, <3>9, <3>10 DEF CallInv
  <2>5. ASSUME NEW p \in polls, PollMark(p) PROVE CallInv'
    <3>1. UNCHANGED <<callAt, waitsFor>>
      BY <2>5 DEF PollMark, callVars
    <3>2. \A x \in Clients, i \in Nat :
            /\ Is(x, i, "completed") => Is(x, i, "completed")'
            /\ Is(x, i, "failed") => Is(x, i, "failed")'
      BY <2>5, MarkingFinishesNone DEF Finished
    <3>3. \A x \in Clients, i \in Nat, k \in Calls : Of(x, i, k)' <=> Of(x, i, k)
      BY <2>5, MarkingFinishesNone
    <3>4. ASSUME NEW k \in Calls PROVE CallTells(k)'
      BY <3>1, <3>2, <3>3, CallStays DEF CallInv
    <3>5. QED
      BY <3>1, <3>4 DEF CallInv
  <2>6. ASSUME NEW p \in posts, Complete(p) PROVE CallInv'
    <3>1. UNCHANGED <<callAt, waitsFor>>
      BY <2>6 DEF Complete, callVars
    <3>2. ~Is(p.client, p.place, "completed") /\ ~Is(p.client, p.place, "failed")
      BY DEF OutcomeInv
    <3>3. \A x \in Clients, i \in Nat :
            /\ Is(x, i, "completed") => Is(x, i, "completed")'
            /\ Is(x, i, "failed") => Is(x, i, "failed")'
      <4>1. ASSUME NEW x \in Clients, NEW i \in Nat
            PROVE  /\ Is(x, i, "completed") => Is(x, i, "completed")'
                   /\ Is(x, i, "failed") => Is(x, i, "failed")'
        <5>1. CASE <<x, i>> = <<p.client, p.place>>
          BY <3>2, <5>1
        <5>2. CASE <<x, i>> # <<p.client, p.place>>
          BY <2>6, <5>2, CompletionFinishesOne
        <5>3. QED  BY <5>1, <5>2
      <4>2. QED  BY <4>1
    <3>4. \A x \in Clients, i \in Nat, k \in Calls : Of(x, i, k)' <=> Of(x, i, k)
      BY <2>6, CompletionFinishesOne
    <3>5. ASSUME NEW k \in Calls PROVE CallTells(k)'
      BY <3>1, <3>3, <3>4, CallStays DEF CallInv
    <3>6. QED
      BY <3>1, <3>5 DEF CallInv
  <2>7. CASE UNCHANGED vars \/ \E p \in posts : LosePost(p)
    <3>1. UNCHANGED <<queue, waitsFor, callAt>>
      BY <2>7 DEF vars, callVars, LosePost
    <3>2. QED
      BY <3>1, CallsKept
  <2>8. QED
    BY <2>1, <2>2, <2>3, <2>4, <2>5, <2>6, <2>7 DEF Next, Call
<1>3. QED
  BY <1>1, <1>2, QueuesTyped, Handed, ResultsTell, PTL DEF Spec

(* For all sets of extensions and calls, and however often the workers are restarted: a  *)
(* success was confirmed for the command waited for and for no other, after a failure    *)
(* every command of the call was executed and failed, and a refused call queued none     *)
(* (wait_for_command, complete_command and should_retry_with_another_client).            *)
THEOREM AnswerIsTheResultInvariant == Spec => []AnswerIsTheResult
<1>1. QueueType /\ OutcomeInv /\ CallInv => AnswerIsTheResult
  <2> SUFFICES ASSUME QueueType, OutcomeInv, CallInv, NEW k \in Calls
               PROVE  LET ran == {c \in CommandsOf(k) :
                                    \E j \in DOMAIN executed[c[1]] : executed[c[1]][j] = c[2]}
                          done == CommandsOf(k) \cap confirmed
                      IN /\ Cardinality(done) <= 1
                         /\ callAt[k] = "succeeded" => done = {waitsFor[k]} /\ ran = CommandsOf(k)
                         /\ callAt[k] = "failed" => done = {} /\ ran = CommandsOf(k)
                         /\ callAt[k] = "refused" => CommandsOf(k) = {}
    BY DEF AnswerIsTheResult
  <2> DEFINE done == CommandsOf(k) \cap confirmed
             ran == {c \in CommandsOf(k) :
                       \E j \in DOMAIN executed[c[1]] : executed[c[1]][j] = c[2]}
  <2>1. CallTells(k)
    BY DEF CallInv
  <2>2. \A c \in CommandsOf(k) : \E e \in Clients, i \in Nat : c = <<e, i>> /\ Of(e, i, k)
    <3> SUFFICES ASSUME NEW c \in CommandsOf(k)
                 PROVE  \E e \in Clients, i \in Nat : c = <<e, i>> /\ Of(e, i, k)
      OBVIOUS
    <3>1. PICK e \in Clients : \E i \in DOMAIN queue[e] : c = <<e, i>>
      BY DEF CommandsOf, Commands
    <3>2. PICK i \in DOMAIN queue[e] : c = <<e, i>>
      BY <3>1
    <3>3. DOMAIN queue[e] = 1 .. Len(queue[e])
      BY DEF QueueType
    <3>4. queue[e][i].call = k
      BY <3>2 DEF CommandsOf
    <3>5. QED  BY <3>2, <3>3, <3>4 DEF Of
  <2>3. \A e \in Clients, i \in Nat : <<e, i>> \in confirmed => ~Is(e, i, "failed")
    BY DEF OutcomeInv
  <2>4. ASSUME NEW c \in CommandsOf(k), NEW e \in Clients, NEW i \in Nat, c = <<e, i>>, Ran(e, i)
        PROVE  c \in ran
    BY <2>4 DEF Ran
  <2>5. CASE callAt[k] \in Sent
    <3>1. done \subseteq {waitsFor[k]}
      BY <2>1, <2>2, <2>3, <2>5 DEF CallTells
    <3>2. Cardinality(done) <= 1
      <4>1. IsFiniteSet({waitsFor[k]}) /\ Cardinality({waitsFor[k]}) = 1
        BY FS_Singleton
      <4>2. Cardinality(done) <= Cardinality({waitsFor[k]})
        BY <3>1, <4>1, FS_Subset
      <4>3. QED  BY <4>1, <4>2
    <3>3. ASSUME callAt[k] = "succeeded" PROVE waitsFor[k] \in done /\ ran = CommandsOf(k)
      <4>1. PICK e \in Clients, i \in Nat : waitsFor[k] = <<e, i>>
        BY <2>1, <2>5 DEF CallTells
      <4>2. Of(e, i, k) /\ Is(e, i, "completed")
        BY <2>1, <2>5, <3>3, <4>1 DEF CallTells
      <4>3. <<e, i>> \in confirmed /\ Ran(e, i)
        BY <4>2 DEF OutcomeInv
      <4>4. <<e, i>> \in CommandsOf(k)
        BY <4>2 DEF CommandsOf, Commands, Of, QueueType
      <4>5. ASSUME NEW c \in CommandsOf(k) PROVE c \in ran
        <5>1. PICK x \in Clients, n \in Nat : c = <<x, n>> /\ Of(x, n, k)
          BY <2>2
        <5>2. Is(x, n, "failed") \/ waitsFor[k] = <<x, n>>
          BY <2>1, <2>5, <5>1 DEF CallTells
        <5>3. Ran(x, n)
          BY <4>1, <4>3, <5>2 DEF OutcomeInv
        <5>4. QED  BY <2>4, <5>1, <5>3
      <4>6. QED  BY <4>1, <4>3, <4>4, <4>5
    <3>4. QED
      BY <2>5, <3>1, <3>2, <3>3 DEF Sent
  <2>6. CASE callAt[k] \in {"enqueue", "failed"}
    <3>1. \A e \in Clients, i \in Nat : Of(e, i, k) => Is(e, i, "failed")
      BY <2>1, <2>6 DEF CallTells
    <3>2. done = {}
      BY <2>2, <2>3, <3>1
    <3>3. ASSUME NEW c \in CommandsOf(k) PROVE c \in ran
      <4>1. PICK x \in Clients, n \in Nat : c = <<x, n>> /\ Of(x, n, k)
        BY <2>2
      <4>2. Ran(x, n)
        BY <3>1, <4>1 DEF OutcomeInv
      <4>3. QED  BY <2>4, <4>1, <4>2
    <3>4. ran = CommandsOf(k)
      BY <3>3
    <3>5. Cardinality(done) <= 1
      BY <3>2, FS_EmptySet
    <3>6. QED  BY <2>6, <3>2, <3>4, <3>5
  <2>7. CASE callAt[k] \in Unsent
    <3>1. CommandsOf(k) = {}
      BY <2>1, <2>2, <2>7 DEF CallTells
    <3>2. Cardinality(done) <= 1
      <4>1. done = {}
        BY <3>1
      <4>2. QED  BY <4>1, FS_EmptySet
    <3>3. QED  BY <2>7, <3>1, <3>2 DEF Unsent
  <2>8. callAt[k] \in Sent \cup {"enqueue", "failed"} \cup Unsent
    BY DEF QueueType, Sent, Unsent
  <2>9. QED  BY <2>5, <2>6, <2>7, <2>8
<1>2. QED
  BY <1>1, QueuesTyped, ResultsTell, CallsTell, PTL

-----------------------------------------------------------------------------
(* The locks are held by heartbeats and by calls, or by nobody.             *)
LocksInv ==
  /\ clientsLock \in Clients \cup {Free}
  /\ supportedLock \in Calls \cup {Free}
  /\ supported \subseteq Clients

(* Each lock is taken and released by its own kind of request.              *)
LEMMA LocksTyped == Spec => []LocksInv
<1>1. Init => LocksInv
  BY DEF Init, LocksInv
<1>2. LocksInv /\ [Next]_vars => LocksInv'
  <2> SUFFICES ASSUME LocksInv, [Next]_vars PROVE LocksInv'
    OBVIOUS
  <2> USE DEF LocksInv
  <2>1. ASSUME NEW e \in Clients, Extension(e) PROVE LocksInv'
    BY <2>1 DEF Extension, Heartbeat, HeartbeatStore, Expire, Poll, Restart, Execute, locks
  <2>2. ASSUME NEW k \in Calls, Call(k) PROVE LocksInv'
    BY <2>2 DEF Call, Name, Choose, Request, PickLock, PickFind, Enqueue, Succeed, Fail, TimeOut, locks
  <2>3. ASSUME NEW p \in polls, PollMark(p) PROVE LocksInv'
    BY <2>3 DEF PollMark, locks
  <2>4. ASSUME NEW p \in posts, Complete(p) \/ LosePost(p) PROVE LocksInv'
    BY <2>4 DEF Complete, LosePost, locks
  <2>5. CASE UNCHANGED vars
    BY <2>5 DEF vars, locks
  <2>6. QED
    BY <2>1, <2>2, <2>3, <2>4, <2>5 DEF Next
<1>3. QED
  BY <1>1, <1>2, PTL DEF Spec

(* Locks, queues and calls stay within their types: whatever a poll, a result or
   an effect names is a command of the queue it belongs to. *)
THEOREM TypeCorrect == Spec => []BridgeTypeOK
<1>1. QueueType /\ DeliveryInv /\ OutcomeInv /\ CallInv /\ LocksInv => BridgeTypeOK
  <2> SUFFICES ASSUME QueueType, DeliveryInv, OutcomeInv, CallInv, LocksInv PROVE BridgeTypeOK
    OBVIOUS
  <2>1. \A e \in Clients : DOMAIN queue[e] = 1 .. Len(queue[e]) /\ Len(queue[e]) \in Nat
    BY DEF QueueType
  <2>2. \A e \in Clients, i \in Nat : i \in 1 .. Len(queue[e]) => <<e, i>> \in Commands
    BY <2>1 DEF Commands
  <2>3. \A e \in Clients : \A i \in DOMAIN queue[e] :
          queue[e][i].status \in Status /\ queue[e][i].call \in Calls
    <3> SUFFICES ASSUME NEW e \in Clients, NEW i \in DOMAIN queue[e]
                 PROVE  queue[e][i].status \in Status /\ queue[e][i].call \in Calls
      OBVIOUS
    <3>1. queue[e] \in Seq(Command)
      BY DEF QueueType
    <3>2. queue[e][i] \in Command
      BY <2>1, <3>1
    <3>3. QED  BY <3>2 DEF Command
  <2>4. \A p \in polls : p.client \in Clients /\ p.upto <= Len(queue[p.client])
    BY DEF QueueType, PollRecord, DeliveryInv
  <2>5. \A p \in posts : <<p.client, p.place>> \in Commands
    BY <2>2 DEF QueueType, PostRecord, DeliveryInv, Taken
  <2>6. confirmed \subseteq Commands
    <3> SUFFICES ASSUME NEW c \in confirmed PROVE c \in Commands
      OBVIOUS
    <3>1. PICK e \in Clients, i \in Nat : c = <<e, i>>
      BY DEF OutcomeInv
    <3>2. PICK j \in DOMAIN executed[e] : executed[e][j] = i
      BY <3>1 DEF OutcomeInv, Ran
    <3>3. i \in 1 .. Len(queue[e])
      BY <3>1, <3>2 DEF DeliveryInv, Taken
    <3>4. QED  BY <2>2, <3>1, <3>3
  <2>7. ASSUME NEW k \in Calls PROVE waitsFor[k] \in (Clients \X Nat) \cup {NoCommand}
    BY DEF CallInv
  <2>8. QED
    BY <2>3, <2>4, <2>5, <2>6, <2>7 DEF BridgeTypeOK, QueueType, LocksInv
<1>2. QED
  BY <1>1, QueuesTyped, Handed, ResultsTell, CallsTell, LocksTyped, PTL
=============================================================================
