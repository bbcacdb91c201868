--------------------------- MODULE ModelCallProofs ---------------------------
(***************************************************************************)
(* Proofs about what a call of the model leaves behind: its cost, for any  *)
(* number of tasks, trackers, days and crashes - which lines of the shared *)
(* log can be lost, and how far the sums of a tracker can be from what the *)
(* log says (CostTracker); and, when it fails, that nothing was left to    *)
(* try, for any calls, providers and models (ReliableProvider).  The two   *)
(* modules share no state and no names.                                    *)
(***************************************************************************)
EXTENDS CostTracker, ReliableProvider, FiniteSetTheorems, TLAPS

\* Where a task can be in record_usage.
Place == {"idle", "stamped", "written", "synced", "unsynced", "recorded", "died"}

\* The types, with the sums left to Sums: cached days and stamps are never in the future.
CostTypeOK ==
  /\ today \in Day
  /\ log \in Seq(Tasks \cup {NewLine})
  /\ step \in [Tasks -> Place]
  /\ stamp \in [Tasks -> 0 .. today]
  /\ \A k \in Tasks : step[k] # "idle" => stamp[k] \in Day
  /\ storage \in [Trackers -> Tasks \cup {Free}]
  /\ cachedDay \in [Trackers -> 1 .. today]
  /\ session \in [Trackers -> SUBSET Tasks]
  /\ DOMAIN daily = Trackers /\ DOMAIN monthly = Trackers

\* The log holds the records of tasks that have come to writing them; a record without the
\* end of its line is its task's last step, and the tracker is locked until it has it.
LogInv ==
  /\ \A i \in DOMAIN log : log[i] # NewLine => step[log[i]] \notin {"idle", "stamped"}
  /\ \A k \in Tasks : step[k] \in {"written", "synced", "recorded"} => k \in Logged
  /\ log # << >> /\ log[Len(log)] # NewLine => step[log[Len(log)]] \in {"written", "died"}
  /\ \A k \in Tasks : step[k] \in {"written", "synced"} => storage[TrackerOf[k]] = k

\* Two records of one tracker on one line: the first is of a process that died.
Apart ==
  \A i \in DOMAIN log :
    (/\ i + 1 \in DOMAIN log /\ log[i] # NewLine /\ log[i + 1] # NewLine
     /\ TrackerOf[log[i]] = TrackerOf[log[i + 1]]) => step[log[i]] = "died"

-----------------------------------------------------------------------------
\* Tasks, locks, dates and sums stay within their types.
LEMMA CostTypeStep == CostTypeOK /\ [Next]_vars => CostTypeOK'
<1> SUFFICES ASSUME CostTypeOK, [Next]_vars
             PROVE  CostTypeOK'
  OBVIOUS
<1> USE CostAssumption DEF CostTypeOK, Day, Place
<1>1. CASE NextDay
  BY <1>1 DEF NextDay
<1>2. ASSUME NEW k \in Tasks, Stamp(k)
      PROVE  CostTypeOK'
  BY <1>2 DEF Stamp
<1>3. ASSUME NEW k \in Tasks, Write(k)
      PROVE  CostTypeOK'
  BY <1>3 DEF Write
<1>4. ASSUME NEW k \in Tasks, EndLine(k)
      PROVE  CostTypeOK'
  BY <1>4 DEF EndLine
<1>5. ASSUME NEW k \in Tasks, SyncFails(k)
      PROVE  CostTypeOK'
  BY <1>5 DEF SyncFails
<1>6. ASSUME NEW k \in Tasks, Count(k)
      PROVE  CostTypeOK'
  BY <1>6 DEF Count
<1>7. ASSUME NEW t \in Trackers, Summarise(t)
      PROVE  CostTypeOK'
  BY <1>7 DEF Summarise
<1>8. ASSUME NEW t \in Trackers, Crash(t)
      PROVE  CostTypeOK'
  BY <1>8 DEF Crash
<1>9. CASE UNCHANGED vars
  BY <1>9 DEF vars
<1>10. QED
  BY <1>1, <1>2, <1>3, <1>4, <1>5, <1>6, <1>7, <1>8, <1>9 DEF Next

-----------------------------------------------------------------------------
(* The log.                                                                *)

\* What is appended to the log is its last entry.
LEMMA LogAppend ==
  ASSUME CostTypeOK, NEW x \in Tasks \cup {NewLine}, log' = Append(log, x)
  PROVE  /\ Len(log') = Len(log) + 1 /\ Len(log) \in Nat
         /\ DOMAIN log' = 1 .. Len(log) + 1 /\ DOMAIN log = 1 .. Len(log)
         /\ log'[Len(log) + 1] = x
         /\ \A i \in DOMAIN log : log'[i] = log[i] /\ log[i] \in Tasks \cup {NewLine}
BY DEF CostTypeOK

\* Every step appends to the log only under the lock of its tracker, and every lock has its holder.
LEMMA LogStep ==
  CostTypeOK /\ CostTypeOK' /\ LogInv /\ [Next]_vars => LogInv'
<1> SUFFICES ASSUME CostTypeOK, CostTypeOK', LogInv, [Next]_vars
             PROVE  LogInv'
  OBVIOUS
<1>0. \A i \in DOMAIN log : log[i] # NewLine => log[i] \in Tasks
  BY DEF CostTypeOK
<1>00. Free \notin Tasks /\ NewLine \notin Tasks /\ TrackerOf \in [Tasks -> Trackers]
  BY CostAssumption
<1>1. ASSUME UNCHANGED <<log, step, storage>> PROVE LogInv'
  BY <1>1 DEF LogInv, Logged
<1>2. ASSUME NEW k \in Tasks, Stamp(k)
      PROVE  LogInv'
  <2>1. step[k] = "idle" /\ step' = [step EXCEPT ![k] = "stamped"] /\ UNCHANGED <<log, storage>>
    BY <1>2 DEF Stamp
  <2>2. \A x \in Tasks : x # k => step'[x] = step[x]
    BY <2>1 DEF CostTypeOK
  <2>3. step'[k] = "stamped"
    BY <2>1 DEF CostTypeOK
  <2>4. \A i \in DOMAIN log : log[i] # NewLine => log[i] # k
    BY <2>1 DEF LogInv
  <2>5. Len(log) \in DOMAIN log \/ log = << >>
    BY DEF CostTypeOK
  <2>6. QED  BY <1>0, <2>1, <2>2, <2>3, <2>4, <2>5 DEF LogInv, Logged
<1>3. ASSUME NEW k \in Tasks, Write(k)
      PROVE  LogInv'
  <2>1. /\ step[k] = "stamped" /\ storage[TrackerOf[k]] = Free
        /\ step' = [step EXCEPT ![k] = "written"] /\ log' = Append(log, k)
        /\ storage' = [storage EXCEPT ![TrackerOf[k]] = k]
    BY <1>3 DEF Write
  <2>2. step'[k] = "written" /\ \A x \in Tasks : x # k => step'[x] = step[x]
    BY <2>1 DEF CostTypeOK
  <2>3. /\ Len(log') = Len(log) + 1 /\ Len(log) \in Nat
        /\ DOMAIN log' = 1 .. Len(log) + 1 /\ DOMAIN log = 1 .. Len(log)
        /\ log'[Len(log) + 1] = k
        /\ \A i \in DOMAIN log : log'[i] = log[i]
    BY <2>1, LogAppend
  <2>4. \A i \in DOMAIN log' : log'[i] # NewLine => step'[log'[i]] \notin {"idle", "stamped"}
    BY <1>0, <2>2, <2>3 DEF LogInv
  <2>5. \A x \in Tasks : x \in Logged => x \in Logged'
    BY <2>3 DEF Logged
  <2>6. k \in Logged'
    BY <2>3 DEF Logged
  <2>7. \A x \in Tasks : step'[x] \in {"written", "synced", "recorded"} => x \in Logged'
    BY <2>2, <2>5, <2>6 DEF LogInv
  <2>8. \A x \in Tasks : step'[x] \in {"written", "synced"} => storage'[TrackerOf[x]] = x
    <3> SUFFICES ASSUME NEW x \in Tasks, step'[x] \in {"written", "synced"}
                 PROVE  storage'[TrackerOf[x]] = x
      OBVIOUS
    <3>1. TrackerOf[x] \in Trackers /\ TrackerOf[k] \in Trackers
      BY <1>00
    <3>2. CASE x = k
      BY <2>1, <3>1, <3>2 DEF CostTypeOK
    <3>3. CASE x # k
      <4>1. storage[TrackerOf[x]] = x
        BY <2>2, <3>3 DEF LogInv
      <4>2. TrackerOf[x] # TrackerOf[k]
        BY <1>00, <2>1, <4>1
      <4>3. QED  BY <2>1, <3>1, <4>1, <4>2 DEF CostTypeOK
    <3>4. QED  BY <3>2, <3>3
  <2>9. step'[log'[Len(log')]] \in {"written", "died"}
    BY <2>2, <2>3
  <2>10. QED  BY <2>4, <2>7, <2>8, <2>9 DEF LogInv
<1>4. ASSUME NEW k \in Tasks, EndLine(k)
      PROVE  LogInv'
  <2>1. /\ step[k] = "written" /\ storage' = storage
        /\ step' = [step EXCEPT ![k] = "synced"] /\ log' = Append(log, NewLine)
    BY <1>4 DEF EndLine
  <2>2. step'[k] = "synced" /\ \A x \in Tasks : x # k => step'[x] = step[x]
    BY <2>1 DEF CostTypeOK
  <2>3. /\ Len(log') = Len(log) + 1 /\ Len(log) \in Nat
        /\ DOMAIN log' = 1 .. Len(log) + 1 /\ DOMAIN log = 1 .. Len(log)
        /\ log'[Len(log) + 1] = NewLine
        /\ \A i \in DOMAIN log : log'[i] = log[i]
    BY <2>1, LogAppend
  <2>4. \A i \in DOMAIN log' : log'[i] # NewLine => step'[log'[i]] \notin {"idle", "stamped"}
    BY <1>0, <2>2, <2>3 DEF LogInv
  <2>5. \A x \in Tasks : x \in Logged => x \in Logged'
    BY <2>3 DEF Logged
  <2>6. \A x \in Tasks : step'[x] \in {"written", "synced", "recorded"} => x \in Logged'
    BY <2>1, <2>2, <2>5 DEF LogInv
  <2>7. \A x \in Tasks : step'[x] \in {"written", "synced"} => storage'[TrackerOf[x]] = x
    BY <2>1, <2>2 DEF LogInv
  <2>8. log'[Len(log')] = NewLine
    BY <2>3
  <2>9. QED  BY <2>4, <2>6, <2>7, <2>8 DEF LogInv
<1>5. ASSUME NEW k \in Tasks, SyncFails(k) \/ Count(k)
      PROVE  LogInv'
  <2>1. PICK p \in {"unsynced", "recorded"} : step' = [step EXCEPT ![k] = p]
    BY <1>5 DEF SyncFails, Count
  <2>2. /\ step[k] = "synced" /\ UNCHANGED log
        /\ storage' = [storage EXCEPT ![TrackerOf[k]] = Free]
    BY <1>5 DEF SyncFails, Count
  <2>3. step'[k] = p /\ \A x \in Tasks : x # k => step'[x] = step[x]
    BY <2>1 DEF CostTypeOK
  <2>4. log # << >> => Len(log) \in DOMAIN log
    BY DEF CostTypeOK
  <2>5. \A x \in Tasks : step'[x] \in {"written", "synced"} => storage'[TrackerOf[x]] = x
    <3> SUFFICES ASSUME NEW x \in Tasks, step'[x] \in {"written", "synced"}
                 PROVE  storage'[TrackerOf[x]] = x
      OBVIOUS
    <3>1. x # k /\ storage[TrackerOf[x]] = x /\ storage[TrackerOf[k]] = k
      BY <2>2, <2>3 DEF LogInv
    <3>2. TrackerOf[x] # TrackerOf[k] /\ TrackerOf[x] \in Trackers
      BY <1>00, <3>1
    <3>3. QED  BY <2>2, <3>1, <3>2 DEF CostTypeOK
  <2>6. log # << >> /\ log[Len(log)] # NewLine => log[Len(log)] # k
    BY <2>2, <2>4 DEF LogInv
  <2>7. QED  BY <1>0, <2>2, <2>3, <2>4, <2>5, <2>6 DEF LogInv, Logged
<1>6. ASSUME NEW t \in Trackers, Crash(t)
      PROVE  LogInv'
  <2>1. /\ UNCHANGED log
        /\ step' = [k \in Tasks |->
                      IF TrackerOf[k] = t /\ step[k] \in {"stamped", "written", "synced"}
                      THEN "died" ELSE step[k]]
        /\ storage' = [storage EXCEPT ![t] = Free]
    BY <1>6 DEF Crash
  <2>2. \A k \in Tasks : step'[k] = "died" \/ step'[k] = step[k]
    BY <2>1
  <2>3. \A k \in Tasks : step'[k] \in {"written", "synced"} => TrackerOf[k] # t /\ step'[k] = step[k]
    BY <2>1
  <2>4. \A k \in Tasks : step'[k] \in {"written", "synced"} => storage'[TrackerOf[k]] = k
    BY <1>00, <2>1, <2>3 DEF LogInv, CostTypeOK
  <2>5. log # << >> => Len(log) \in DOMAIN log
    BY DEF CostTypeOK
  <2>6. QED  BY <1>0, <2>1, <2>2, <2>4, <2>5 DEF LogInv, Logged
<1>7. CASE NextDay \/ (\E t \in Trackers : Summarise(t)) \/ UNCHANGED vars
  BY <1>1, <1>7 DEF NextDay, Summarise, vars
<1>8. QED
  BY <1>2, <1>3, <1>4, <1>5, <1>6, <1>7 DEF Next

\* The lock keeps the lines of one tracker apart; only a death leaves one without an end.
LEMMA ApartStep ==
  CostTypeOK /\ CostTypeOK' /\ LogInv /\ Apart /\ [Next]_vars => Apart'
<1> SUFFICES ASSUME CostTypeOK, CostTypeOK', LogInv, Apart, [Next]_vars
             PROVE  Apart'
  OBVIOUS
<1>0. \A i \in DOMAIN log : log[i] # NewLine => log[i] \in Tasks
  BY DEF CostTypeOK
<1>1. \A k \in Tasks : step[k] = "died" => step'[k] = "died"
  BY DEF CostTypeOK, Next, vars, NextDay, Stamp, Write, EndLine, SyncFails, Count, Summarise, Crash
<1>2. CASE UNCHANGED log
  BY <1>0, <1>1, <1>2 DEF Apart
<1>3. ASSUME NEW x \in Tasks \cup {NewLine}, log' = Append(log, x),
             x # NewLine => storage[TrackerOf[x]] = Free
      PROVE  Apart'
  <2>1. /\ Len(log') = Len(log) + 1 /\ Len(log) \in Nat
        /\ DOMAIN log' = 1 .. Len(log) + 1 /\ DOMAIN log = 1 .. Len(log)
        /\ log'[Len(log) + 1] = x
        /\ \A i \in DOMAIN log : log'[i] = log[i]
    BY <1>3, LogAppend
  <2> SUFFICES ASSUME NEW i \in DOMAIN log', i + 1 \in DOMAIN log', log'[i] # NewLine,
                      log'[i + 1] # NewLine, TrackerOf[log'[i]] = TrackerOf[log'[i + 1]]
               PROVE  step'[log'[i]] = "died"
    BY DEF Apart
  <2>2. i \in DOMAIN log /\ log'[i] = log[i] /\ log[i] \in Tasks
    BY <1>0, <2>1
  <2>3. CASE i = Len(log)
    <3>1. log'[i + 1] = x /\ x \in Tasks
      BY <1>3, <2>1, <2>3
    <3>2. storage[TrackerOf[log[i]]] = Free
      BY <1>3, <2>2, <3>1
    <3>3. step[log[i]] \in {"written", "died"}
      BY <2>2, <2>3 DEF LogInv
    <3>4. step[log[i]] # "written"
      BY <2>2, <3>2, CostAssumption DEF LogInv
    <3>5. QED  BY <1>1, <2>2, <3>3, <3>4
  <2>4. CASE i # Len(log)
    <3>1. i + 1 \in DOMAIN log /\ log'[i + 1] = log[i + 1]
      BY <2>1, <2>2, <2>4
    <3>2. QED  BY <1>1, <2>2, <3>1 DEF Apart
  <2>5. QED  BY <2>3, <2>4
<1>4. QED
  BY <1>2, <1>3, CostAssumption
     DEF Next, vars, NextDay, Stamp, Write, EndLine, SyncFails, Count, Summarise, Crash

\* The invariants of the log, along every run.
LEMMA LogInvariant == Spec => [](CostTypeOK /\ LogInv /\ Apart)
<1>1. Init => CostTypeOK /\ LogInv /\ Apart
  BY CostAssumption DEF Init, CostTypeOK, LogInv, Apart, Place, Day
<1>2. QED
  BY <1>1, CostTypeStep, LogStep, ApartStep, PTL DEF Spec

(* A record that was counted and cannot be read again shares its line with one of another
   tracker or of a process that died: the storage lock of record_usage keeps the lines of
   one tracker apart, however many trackers write to the log. *)
THEOREM LostOnlyTogetherInvariant == Spec => []LostOnlyTogether
<1>1. CostTypeOK /\ LogInv /\ Apart => LostOnlyTogether
  <2> SUFFICES ASSUME CostTypeOK, LogInv, Apart, NEW i \in DOMAIN log, log[i] # NewLine,
                      step[log[i]] = "recorded", log[i] \notin Readable(log)
               PROVE  \E j \in {i - 1, i + 1} \cap DOMAIN log :
                        /\ log[j] # NewLine
                        /\ TrackerOf[log[j]] # TrackerOf[log[i]] \/ step[log[j]] = "died"
    BY DEF LostOnlyTogether
  <2>1. DOMAIN log = 1 .. Len(log) /\ Len(log) \in Nat
    BY DEF CostTypeOK
  <2>2. \/ i # 1 /\ log[i - 1] # NewLine
        \/ i # Len(log) /\ log[i + 1] # NewLine
    BY DEF Readable
  <2>3. CASE i # 1 /\ log[i - 1] # NewLine
    <3>1. i - 1 \in DOMAIN log /\ (i - 1) + 1 = i
      BY <2>1, <2>3
    <3>2. TrackerOf[log[i - 1]] = TrackerOf[log[i]] => step[log[i - 1]] = "died"
      BY <2>3, <3>1 DEF Apart
    <3>3. QED  BY <2>3, <3>1, <3>2
  <2>4. CASE i # Len(log) /\ log[i + 1] # NewLine
    <3>1. i + 1 \in DOMAIN log
      BY <2>1, <2>4
    <3>2. TrackerOf[log[i]] # TrackerOf[log[i + 1]]
      BY <2>4, <3>1 DEF Apart
    <3>3. QED  BY <2>4, <3>1, <3>2
  <2>5. QED  BY <2>2, <2>3, <2>4
<1>2. QED
  BY <1>1, LogInvariant, PTL

-----------------------------------------------------------------------------
(* The sums.                                                               *)

\* The records of tracker t that are in the log and not in its sums yet.
InFlight(t) == {k \in Tasks : TrackerOf[k] = t /\ step[k] \in {"written", "synced"}}
Due(t) == Logged \ InFlight(t)

\* The sums of t count what it recorded and, but for one record, no more than is due.
Sums(t) ==
  LET day == cachedDay[t] IN
  /\ \A k \in session[t] : TrackerOf[k] = t /\ step[k] = "recorded" /\ stamp[k] <= day
  /\ daily[t] \in Nat /\ monthly[t] \in Nat
  /\ daily[t] >= Cardinality(OfDay(session[t], day))
  /\ monthly[t] >= daily[t]
  /\ daily[t] <= Cardinality(OfDay(Due(t), day)) + 1
  /\ monthly[t] <= Cardinality(OfMonth(Due(t), day)) + 1

\* The inductive invariant of SumsBounded.
SumsInv == \A t \in Trackers : Sums(t)

\* The records are finitely many.
LEMMA LoggedFinite == CostTypeOK => IsFiniteSet(Logged)
<1> SUFFICES ASSUME CostTypeOK PROVE IsFiniteSet(Logged)
  OBVIOUS
<1> DEFINE P == {i \in DOMAIN log : log[i] \in Tasks}
           f == [i \in P |-> log[i]]
<1>1. IsFiniteSet(P)
  <2>1. DOMAIN log = 1 .. Len(log) /\ Len(log) \in Nat
    BY DEF CostTypeOK
  <2>2. IsFiniteSet(1 .. Len(log))
    BY <2>1, FS_Interval
  <2>3. P \in SUBSET (1 .. Len(log))
    BY <2>1
  <2>4. QED  BY <2>2, <2>3, FS_Subset
<1>2. f \in Surjection(P, Logged)
  <2>1. f \in [P -> Logged]
    BY DEF Logged
  <2>2. \A k \in Logged : \E i \in P : f[i] = k
    BY DEF Logged
  <2>3. QED  BY <2>1, <2>2 DEF Surjection
<1> HIDE DEF P, f
<1>3. QED
  BY <1>1, <1>2, FS_Surjection

\* Sums over more records are not smaller.
LEMMA Fewer ==
  ASSUME NEW S, NEW T, IsFiniteSet(T), S \subseteq T
  PROVE  /\ IsFiniteSet(S) /\ Cardinality(S) \in Nat /\ Cardinality(T) \in Nat
         /\ Cardinality(S) <= Cardinality(T)
BY FS_Subset, FS_CardinalityType

\* So are the records due to be in the sums of a tracker.
LEMMA DueFinite ==
  ASSUME CostTypeOK, LogInv, NEW t \in Trackers, NEW day
  PROVE  /\ IsFiniteSet(Due(t)) /\ IsFiniteSet(OfDay(Due(t), day))
         /\ IsFiniteSet(OfMonth(Due(t), day))
         /\ Cardinality(OfDay(Due(t), day)) \in Nat /\ Cardinality(OfMonth(Due(t), day)) \in Nat
<1>1. IsFiniteSet(Logged)
  BY LoggedFinite
<1>2. Due(t) \subseteq Logged /\ OfDay(Due(t), day) \subseteq Logged
      /\ OfMonth(Due(t), day) \subseteq Logged
  BY DEF Due, OfDay, OfMonth
<1>3. QED
  BY <1>1, <1>2, Fewer

\* What can be read is in the log; what was recorded since the tracker was opened, too.
LEMMA ReadableIsLogged ==
  ASSUME CostTypeOK
  PROVE  Readable(log) \subseteq Logged
BY DEF CostTypeOK, Readable, Logged

\* Sums that were just rebuilt from the log, with at most the record being counted added.
LEMMA Rebuilt ==
  ASSUME CostTypeOK, NEW day, NEW d \in {0, 1}, NEW e \in {0, 1}, d <= e
  PROVE  LET readDay == Cardinality(OfDay(Readable(log), day))
             readMonth == Cardinality(OfMonth(Readable(log), day))
         IN  /\ readDay \in Nat /\ readMonth \in Nat
             /\ readMonth + e >= readDay + d
             /\ readDay + d <= Cardinality(OfDay(Logged, day)) + 1
             /\ readMonth + e <= Cardinality(OfMonth(Logged, day)) + 1
<1>1. IsFiniteSet(Logged) /\ Readable(log) \subseteq Logged
  BY LoggedFinite, ReadableIsLogged
<1>2. /\ OfDay(Readable(log), day) \subseteq OfDay(Logged, day)
      /\ OfMonth(Readable(log), day) \subseteq OfMonth(Logged, day)
      /\ OfDay(Logged, day) \subseteq Logged /\ OfMonth(Logged, day) \subseteq Logged
      /\ OfDay(Readable(log), day) \subseteq OfMonth(Readable(log), day)
  BY <1>1 DEF OfDay, OfMonth
<1>3. IsFiniteSet(OfDay(Logged, day)) /\ IsFiniteSet(OfMonth(Logged, day))
  BY <1>1, <1>2, Fewer
<1>4. /\ Cardinality(OfDay(Readable(log), day)) \in Nat
      /\ Cardinality(OfDay(Logged, day)) \in Nat
      /\ Cardinality(OfDay(Readable(log), day)) <= Cardinality(OfDay(Logged, day))
  BY <1>2, <1>3, Fewer
<1>5. /\ IsFiniteSet(OfMonth(Readable(log), day))
      /\ Cardinality(OfMonth(Readable(log), day)) \in Nat
      /\ Cardinality(OfMonth(Logged, day)) \in Nat
      /\ Cardinality(OfMonth(Readable(log), day)) <= Cardinality(OfMonth(Logged, day))
  BY <1>2, <1>3, Fewer
<1>6. Cardinality(OfDay(Readable(log), day)) <= Cardinality(OfMonth(Readable(log), day))
  BY <1>2, <1>5, Fewer
<1> HIDE DEF OfDay, OfMonth
<1>7. QED
  BY <1>4, <1>5, <1>6

\* A step that leaves the sums of t alone, and takes nothing away from what is due.
LEMMA Unaffected ==
  ASSUME CostTypeOK, CostTypeOK', LogInv, LogInv', NEW t \in Trackers, Sums(t),
         cachedDay'[t] = cachedDay[t], daily'[t] = daily[t], monthly'[t] = monthly[t],
         session'[t] = session[t],
         \A k \in Tasks : step[k] = "recorded" => step'[k] = "recorded",
         \A k \in Tasks : step[k] # "idle" => stamp'[k] = stamp[k],
         Due(t) \subseteq Due(t)'
  PROVE  Sums(t)'
<1> DEFINE day == cachedDay[t]
<1>1. \A k \in session[t] : k \in Tasks /\ step[k] = "recorded" /\ stamp'[k] = stamp[k]
  BY DEF Sums, CostTypeOK
<1>2. \A k \in Due(t) : k \in Tasks /\ stamp'[k] = stamp[k]
  <2> SUFFICES ASSUME NEW k \in Due(t)
               PROVE  k \in Tasks /\ step[k] # "idle"
    OBVIOUS
  <2>1. k \in Tasks
    BY DEF Due, Logged
  <2>2. PICK i \in DOMAIN log : log[i] = k
    BY DEF Due, Logged
  <2>3. QED  BY <2>1, <2>2, CostAssumption DEF LogInv
<1>3. OfDay(session[t], day)' = OfDay(session[t], day)
  BY <1>1 DEF OfDay
<1>4. OfDay(Due(t), day) \subseteq OfDay(Due(t), day)'
      /\ OfMonth(Due(t), day) \subseteq OfMonth(Due(t), day)'
  BY <1>2 DEF OfDay, OfMonth
<1>5. /\ IsFiniteSet(OfDay(Due(t), day)') /\ IsFiniteSet(OfMonth(Due(t), day)')
  <2>1. IsFiniteSet(Logged)'
    BY LoggedFinite, PTL
  <2>2. OfDay(Due(t), day)' \subseteq Logged' /\ OfMonth(Due(t), day)' \subseteq Logged'
    BY DEF OfDay, OfMonth, Due
  <2>3. QED  BY <2>1, <2>2, Fewer
<1>6. /\ Cardinality(OfDay(Due(t), day)) <= Cardinality(OfDay(Due(t), day)')
      /\ Cardinality(OfMonth(Due(t), day)) <= Cardinality(OfMonth(Due(t), day)')
      /\ Cardinality(OfDay(Due(t), day)) \in Nat /\ Cardinality(OfDay(Due(t), day)') \in Nat
      /\ Cardinality(OfMonth(Due(t), day)) \in Nat /\ Cardinality(OfMonth(Due(t), day)') \in Nat
  BY <1>4, <1>5, Fewer
<1>7. \A k \in session'[t] : TrackerOf[k] = t /\ step'[k] = "recorded" /\ stamp'[k] <= cachedDay'[t]
  BY <1>1 DEF Sums
<1>8. /\ daily'[t] >= Cardinality(OfDay(session[t], day)')
      /\ daily'[t] <= Cardinality(OfDay(Due(t), day)') + 1
      /\ monthly'[t] <= Cardinality(OfMonth(Due(t), day)') + 1
      /\ daily'[t] \in Nat /\ monthly'[t] \in Nat /\ monthly'[t] >= daily'[t]
  BY <1>3, <1>6 DEF Sums
<1>9. QED
  BY <1>7, <1>8 DEF Sums

-----------------------------------------------------------------------------
\* The sums and the session after a record is counted; d and e say whether it is of the
\* cached day and month.
LEMMA OneMore ==
  ASSUME NEW S, NEW T, IsFiniteSet(T), NEW k, k \notin S, NEW n \in Nat, NEW d \in {0, 1},
         NEW U, U = IF d = 1 THEN S \cup {k} ELSE S, U \subseteq T
  PROVE  /\ n <= Cardinality(S) + 1 => n + d <= Cardinality(T) + 1
         /\ n >= Cardinality(S) => n + d >= Cardinality(U)
<1>1. IsFiniteSet(S) /\ IsFiniteSet(U) /\ Cardinality(U) <= Cardinality(T)
      /\ Cardinality(S) \in Nat /\ Cardinality(U) \in Nat /\ Cardinality(T) \in Nat
  <2>1. S \subseteq T
    OBVIOUS
  <2>2. QED  BY <2>1, Fewer
<1>2. Cardinality(U) = Cardinality(S) + d
  <2>1. CASE d = 1
    <3>1. Cardinality(S \cup {k}) = Cardinality(S) + 1
      BY <1>1, FS_AddElement
    <3>2. QED  BY <2>1, <3>1
  <2>2. CASE d = 0
    BY <1>1, <2>2
  <2>3. QED  BY <2>1, <2>2
<1>3. QED
  BY <1>1, <1>2

\* record_usage counts the record it has written.
LEMMA CountSums ==
  ASSUME CostTypeOK, CostTypeOK', LogInv, LogInv', NEW k \in Tasks, Count(k),
         Sums(TrackerOf[k])
  PROVE  Sums(TrackerOf[k])'
<1> DEFINE t == TrackerOf[k]
           d == IF stamp[k] = today THEN 1 ELSE 0
           e == IF MonthOf[stamp[k]] = MonthOf[today] THEN 1 ELSE 0
<1>0. t \in Trackers /\ d \in {0, 1} /\ e \in {0, 1} /\ d <= e
      /\ TrackerOf \in [Tasks -> Trackers]
  BY CostAssumption
<1>1. /\ step[k] = "synced" /\ step' = [step EXCEPT ![k] = "recorded"]
      /\ UNCHANGED <<today, log, stamp>>
      /\ storage' = [storage EXCEPT ![t] = Free]
      /\ session' = [session EXCEPT ![t] = @ \cup {k}]
      /\ cachedDay' = [cachedDay EXCEPT ![t] = today]
      /\ daily'[t] = CurrentDaily(t) + d
      /\ monthly'[t] = CurrentMonthly(t) + e
  <2>1. /\ daily' = [daily EXCEPT ![t] = CurrentDaily(t) + d]
        /\ monthly' = [monthly EXCEPT ![t] = CurrentMonthly(t) + e]
    BY DEF Count
  <2>2. QED  BY <1>0, <2>1 DEF Count, CostTypeOK
<1>2. /\ cachedDay'[t] = today /\ session'[t] = session[t] \cup {k}
      /\ step'[k] = "recorded" /\ stamp[k] \in 0 .. today /\ today \in Nat
      /\ k \notin session[t] /\ storage'[t] = Free /\ storage[t] = k
  BY <1>0, <1>1 DEF CostTypeOK, Sums, LogInv, Day
<1>3. Logged' = Logged /\ Due(t)' = Logged /\ k \in Logged
  <2>1. Logged' = Logged
    BY <1>1 DEF Logged
  <2>2. Due(t)' = Logged'
    BY <1>2, CostAssumption DEF LogInv, Due, InFlight, Logged
  <2>3. QED  BY <1>1, <2>1, <2>2 DEF LogInv
<1>4. \A x \in session'[t] : TrackerOf[x] = t /\ step'[x] = "recorded" /\ stamp'[x] <= today
  BY <1>0, <1>1, <1>2 DEF Sums, CostTypeOK
<1>5. /\ OfDay(session[t], today)' = OfDay(session[t] \cup {k}, today)
      /\ OfDay(Due(t), today)' = OfDay(Logged, today)
      /\ OfMonth(Due(t), today)' = OfMonth(Logged, today)
  BY <1>1, <1>2, <1>3 DEF OfDay, OfMonth
<1>6. IsFiniteSet(Logged)
  BY LoggedFinite
<1> HIDE DEF t
<1>7. CASE cachedDay[t] = today
  <2>1. CurrentDaily(t) = daily[t] /\ CurrentMonthly(t) = monthly[t]
    BY <1>7 DEF CurrentDaily, CurrentMonthly
  <2>2. /\ daily[t] \in Nat /\ monthly[t] \in Nat /\ monthly[t] >= daily[t]
        /\ daily[t] >= Cardinality(OfDay(session[t], today))
        /\ daily[t] <= Cardinality(OfDay(Due(t), today)) + 1
        /\ monthly[t] <= Cardinality(OfMonth(Due(t), today)) + 1
    BY <1>7 DEF Sums, t
  <2>3. session[t] \subseteq Logged
    BY <1>0 DEF Sums, LogInv, CostTypeOK, t
  <2>4. daily[t] + d >= Cardinality(OfDay(session[t] \cup {k}, today))
    <3>1. k \notin OfDay(session[t], today)
      BY <1>2 DEF OfDay
    <3>2. OfDay(session[t] \cup {k}, today) =
            IF d = 1 THEN OfDay(session[t], today) \cup {k} ELSE OfDay(session[t], today)
      BY DEF OfDay
    <3>3. OfDay(session[t] \cup {k}, today) \subseteq Logged
      BY <1>3, <2>3 DEF OfDay
    <3> HIDE DEF d
    <3>4. QED  BY <1>0, <1>6, <2>2, <3>1, <3>2, <3>3, OneMore
  <2>5. Due(t) \subseteq Logged \ {k}
    BY <1>0, <1>1 DEF Due, InFlight, t
  <2>6. daily[t] + d <= Cardinality(OfDay(Logged, today)) + 1
    <3> DEFINE U == IF d = 1 THEN OfDay(Due(t), today) \cup {k} ELSE OfDay(Due(t), today)
    <3>1. k \notin OfDay(Due(t), today)
      BY <2>5 DEF OfDay
    <3>2. U \subseteq OfDay(Logged, today)
      BY <1>3, <2>5 DEF OfDay
    <3>3. IsFiniteSet(OfDay(Logged, today))
      <4>1. OfDay(Logged, today) \subseteq Logged
        BY DEF OfDay
      <4>2. QED  BY <1>6, <4>1, Fewer
    <3>4. U = IF d = 1 THEN OfDay(Due(t), today) \cup {k} ELSE OfDay(Due(t), today)
      OBVIOUS
    <3> HIDE DEF d, U
    <3>5. QED  BY <1>0, <2>2, <3>1, <3>2, <3>3, <3>4, OneMore
  <2>7. monthly[t] + e <= Cardinality(OfMonth(Logged, today)) + 1
    <3> DEFINE U == IF e = 1 THEN OfMonth(Due(t), today) \cup {k} ELSE OfMonth(Due(t), today)
    <3>1. k \notin OfMonth(Due(t), today)
      BY <2>5 DEF OfMonth
    <3>2. U \subseteq OfMonth(Logged, today)
      BY <1>3, <2>5 DEF OfMonth
    <3>3. IsFiniteSet(OfMonth(Logged, today))
      <4>1. OfMonth(Logged, today) \subseteq Logged
        BY DEF OfMonth
      <4>2. QED  BY <1>6, <4>1, Fewer
    <3>4. U = IF e = 1 THEN OfMonth(Due(t), today) \cup {k} ELSE OfMonth(Due(t), today)
      OBVIOUS
    <3> HIDE DEF e, U
    <3>5. QED  BY <1>0, <2>2, <3>1, <3>2, <3>3, <3>4, OneMore
  <2> HIDE DEF d, e
  <2>8. daily'[t] \in Nat /\ monthly'[t] \in Nat /\ monthly'[t] >= daily'[t]
    BY <1>0, <1>1, <2>1, <2>2 DEF t
  <2>9. QED
    BY <1>1, <1>2, <1>4, <1>5, <2>1, <2>4, <2>6, <2>7, <2>8 DEF Sums, t
<1>8. CASE cachedDay[t] # today
  <2>1. CurrentDaily(t) = Cardinality(OfDay(Readable(log), today))
        /\ CurrentMonthly(t) = Cardinality(OfMonth(Readable(log), today))
    BY <1>8 DEF CurrentDaily, CurrentMonthly
  <2>2. OfDay(session[t], today) = {}
    BY <1>0, <1>2, <1>8 DEF OfDay, Sums, CostTypeOK, t
  <2>3. Cardinality(OfDay(session[t] \cup {k}, today)) = d
    <3>1. OfDay(session[t] \cup {k}, today) = IF d = 1 THEN {k} ELSE {}
      BY <2>2 DEF OfDay
    <3>2. Cardinality({k}) = 1 /\ Cardinality({}) = 0
      BY FS_Singleton, FS_EmptySet
    <3>3. QED  BY <1>0, <3>1, <3>2
  <2> HIDE DEF d, e
  <2>4. LET readDay == Cardinality(OfDay(Readable(log), today))
            readMonth == Cardinality(OfMonth(Readable(log), today))
        IN  /\ readDay \in Nat /\ readMonth \in Nat
            /\ readMonth + e >= readDay + d
            /\ readDay + d <= Cardinality(OfDay(Logged, today)) + 1
            /\ readMonth + e <= Cardinality(OfMonth(Logged, today)) + 1
    BY <1>0, Rebuilt
  <2>5. /\ daily'[t] \in Nat /\ monthly'[t] \in Nat /\ monthly'[t] >= daily'[t]
        /\ daily'[t] >= Cardinality(OfDay(session[t] \cup {k}, today))
        /\ daily'[t] <= Cardinality(OfDay(Logged, today)) + 1
        /\ monthly'[t] <= Cardinality(OfMonth(Logged, today)) + 1
    BY <1>0, <1>1, <2>1, <2>3, <2>4 DEF t
  <2>6. QED
    BY <1>1, <1>2, <1>4, <1>5, <2>5 DEF Sums, t
<1>9. QED
  BY <1>7, <1>8

-----------------------------------------------------------------------------
\* A tracker that rolls over, or is opened again, takes its sums from the log.
LEMMA RebuiltSums ==
  ASSUME CostTypeOK, CostTypeOK', NEW t \in Trackers, UNCHANGED <<today, log, stamp>>,
         cachedDay'[t] = today,
         daily'[t] = Cardinality(OfDay(Readable(log), today)),
         monthly'[t] = Cardinality(OfMonth(Readable(log), today)),
         Due(t)' = Logged,
         \A k \in session'[t] : TrackerOf[k] = t /\ step'[k] = "recorded" /\ stamp[k] < today
  PROVE  Sums(t)'
<1>0. today \in Nat
  BY DEF CostTypeOK, Day
<1>1. /\ OfDay(Due(t), today)' = OfDay(Logged, today)
      /\ OfMonth(Due(t), today)' = OfMonth(Logged, today)
  BY DEF OfDay, OfMonth
<1>2. OfDay(session[t], today)' = {}
  <2> SUFFICES ASSUME NEW k \in session'[t], stamp[k] = today PROVE FALSE
    BY DEF OfDay
  <2>1. QED  BY <1>0
<1>3. Cardinality({}) = 0
  BY FS_EmptySet
<1>4. LET readDay == Cardinality(OfDay(Readable(log), today))
          readMonth == Cardinality(OfMonth(Readable(log), today))
      IN  /\ readDay \in Nat /\ readMonth \in Nat
          /\ readMonth + 0 >= readDay + 0
          /\ readDay + 0 <= Cardinality(OfDay(Logged, today)) + 1
          /\ readMonth + 0 <= Cardinality(OfMonth(Logged, today)) + 1
  BY Rebuilt
<1>5. /\ daily'[t] \in Nat /\ monthly'[t] \in Nat /\ monthly'[t] >= daily'[t]
      /\ daily'[t] >= 0
      /\ daily'[t] <= Cardinality(OfDay(Logged, today)) + 1
      /\ monthly'[t] <= Cardinality(OfMonth(Logged, today)) + 1
  BY <1>4
<1>6. \A k \in session'[t] : TrackerOf[k] = t /\ step'[k] = "recorded" /\ stamp'[k] <= today
  BY <1>0 DEF CostTypeOK
<1>7. QED
  BY <1>1, <1>2, <1>3, <1>5, <1>6 DEF Sums

\* What is recorded stays so, and a record keeps the time stamp it was given.
Recorded(k) == step[k] = "recorded"
Stamped(k) == step[k] # "idle"

\* No step takes either back.
LEMMA RecordsStand ==
  ASSUME CostTypeOK, [Next]_vars, NEW x \in Tasks
  PROVE  /\ Recorded(x) => Recorded(x)'
         /\ Stamped(x) => stamp'[x] = stamp[x]
<1> USE DEF Recorded, Stamped
<1>1. ASSUME NEW k \in Tasks, Stamp(k)
      PROVE  (Recorded(x) => Recorded(x)') /\ (Stamped(x) => stamp'[x] = stamp[x])
  BY <1>1 DEF Stamp, CostTypeOK
<1>2. ASSUME NEW k \in Tasks, NEW p \in Place, step[k] # "recorded",
             step' = [step EXCEPT ![k] = p], UNCHANGED stamp
      PROVE  (Recorded(x) => Recorded(x)') /\ (Stamped(x) => stamp'[x] = stamp[x])
  BY <1>2 DEF CostTypeOK
<1>3. ASSUME NEW k \in Tasks, Write(k) \/ EndLine(k) \/ SyncFails(k) \/ Count(k)
      PROVE  (Recorded(x) => Recorded(x)') /\ (Stamped(x) => stamp'[x] = stamp[x])
  <2>1. step[k] # "recorded" /\ UNCHANGED stamp
    BY <1>3 DEF Write, EndLine, SyncFails, Count
  <2>2. PICK p \in Place : step' = [step EXCEPT ![k] = p]
    BY <1>3 DEF Write, EndLine, SyncFails, Count, Place
  <2>3. QED  BY <1>2, <2>1, <2>2
<1>4. ASSUME NEW t \in Trackers, Crash(t)
      PROVE  (Recorded(x) => Recorded(x)') /\ (Stamped(x) => stamp'[x] = stamp[x])
  BY <1>4 DEF Crash
<1>5. CASE NextDay \/ (\E t \in Trackers : Summarise(t)) \/ UNCHANGED vars
  BY <1>5 DEF NextDay, Summarise, vars
<1>6. QED
  BY <1>1, <1>3, <1>4, <1>5 DEF Next

(* Every step keeps the sums, of the tracker that takes it and of the others. *)
LEMMA SumsStep ==
  CostTypeOK /\ CostTypeOK' /\ LogInv /\ LogInv' /\ SumsInv /\ [Next]_vars => SumsInv'
<1> SUFFICES ASSUME CostTypeOK, CostTypeOK', LogInv, LogInv', SumsInv, [Next]_vars,
                    NEW u \in Trackers
             PROVE  Sums(u)'
  BY DEF SumsInv
<1>0. Sums(u)
  BY DEF SumsInv
<1>1. \A x \in Tasks : /\ step[x] = "recorded" => step'[x] = "recorded"
                       /\ step[x] # "idle" => stamp'[x] = stamp[x]
  BY RecordsStand DEF Recorded, Stamped
<1>2. ASSUME UNCHANGED <<cachedDay, daily, monthly, session>>, Due(u) \subseteq Due(u)'
      PROVE  Sums(u)'
  BY <1>0, <1>1, <1>2, Unaffected
<1>3. CASE NextDay \/ UNCHANGED vars
  BY <1>2, <1>3 DEF NextDay, vars, Due, Logged, InFlight
<1>4. ASSUME NEW k \in Tasks, Stamp(k)
      PROVE  Sums(u)'
  <2>1. \A x \in Tasks : step'[x] \in {"written", "synced"} => step[x] \in {"written", "synced"}
    BY <1>4 DEF Stamp, CostTypeOK
  <2>2. Logged' = Logged
    BY <1>4 DEF Stamp, Logged
  <2>3. QED  BY <1>2, <1>4, <2>1, <2>2 DEF Stamp, Due, InFlight
<1>5. ASSUME NEW k \in Tasks, Write(k)
      PROVE  Sums(u)'
  <2>1. log' = Append(log, k) /\ step[k] = "stamped" /\ step' = [step EXCEPT ![k] = "written"]
    BY <1>5 DEF Write
  <2>2. Logged \subseteq Logged'
    BY <2>1, LogAppend DEF Logged
  <2>3. k \notin Logged
    BY <2>1, CostAssumption DEF Logged, LogInv
  <2>4. \A x \in Logged : step'[x] = step[x]
    BY <2>1, <2>3 DEF Logged, CostTypeOK
  <2>5. Due(u) \subseteq Due(u)'
    BY <2>2, <2>4 DEF Due, InFlight
  <2>6. QED  BY <1>2, <1>5, <2>5 DEF Write
<1>6. ASSUME NEW k \in Tasks, EndLine(k)
      PROVE  Sums(u)'
  <2>1. /\ log' = Append(log, NewLine) /\ step[k] = "written"
        /\ step' = [step EXCEPT ![k] = "synced"]
    BY <1>6 DEF EndLine
  <2>2. Logged \subseteq Logged'
    BY <2>1, LogAppend DEF Logged
  <2>3. \A x \in Tasks : step'[x] \in {"written", "synced"} => step[x] \in {"written", "synced"}
    BY <2>1 DEF CostTypeOK
  <2>4. Due(u) \subseteq Due(u)'
    BY <2>2, <2>3 DEF Due, InFlight
  <2>5. QED  BY <1>2, <1>6, <2>4 DEF EndLine
<1>7. ASSUME NEW k \in Tasks, SyncFails(k)
      PROVE  Sums(u)'
  <2>1. UNCHANGED log /\ step' = [step EXCEPT ![k] = "unsynced"]
    BY <1>7 DEF SyncFails
  <2>2. \A x \in Tasks : step'[x] \in {"written", "synced"} => step[x] \in {"written", "synced"}
    BY <2>1 DEF CostTypeOK
  <2>3. Due(u) \subseteq Due(u)'
    BY <2>1, <2>2 DEF Due, InFlight, Logged
  <2>4. QED  BY <1>2, <1>7, <2>3 DEF SyncFails
<1>8. ASSUME NEW k \in Tasks, Count(k)
      PROVE  Sums(u)'
  <2>1. CASE u = TrackerOf[k]
    BY <1>0, <1>8, <2>1, CountSums
  <2>2. CASE u # TrackerOf[k]
    <3>1. /\ cachedDay'[u] = cachedDay[u] /\ daily'[u] = daily[u] /\ monthly'[u] = monthly[u]
          /\ session'[u] = session[u]
      BY <1>8, <2>2 DEF Count, CostTypeOK
    <3>2. UNCHANGED log /\ step' = [step EXCEPT ![k] = "recorded"]
      BY <1>8 DEF Count
    <3>3. \A x \in Tasks : step'[x] \in {"written", "synced"} => step[x] \in {"written", "synced"}
      BY <3>2 DEF CostTypeOK
    <3>4. Due(u) \subseteq Due(u)'
      BY <3>2, <3>3 DEF Due, InFlight, Logged
    <3>5. QED  BY <1>0, <1>1, <3>1, <3>4, Unaffected
  <2>3. QED  BY <2>1, <2>2
<1>9. ASSUME NEW t \in Trackers, Summarise(t)
      PROVE  Sums(u)'
  <2>1. /\ storage[t] = Free /\ cachedDay[t] # today /\ cachedDay' = [cachedDay EXCEPT ![t] = today]
        /\ UNCHANGED <<today, log, stamp, step, session>>
        /\ daily' = [daily EXCEPT ![t] = CurrentDaily(t)]
        /\ monthly' = [monthly EXCEPT ![t] = CurrentMonthly(t)]
    BY <1>9 DEF Summarise
  <2>2. Due(u)' = Due(u)
    BY <2>1 DEF Due, InFlight, Logged
  <2>3. CASE u # t
    <3>1. cachedDay'[u] = cachedDay[u] /\ daily'[u] = daily[u] /\ monthly'[u] = monthly[u]
          /\ session'[u] = session[u]
      BY <2>1, <2>3 DEF CostTypeOK
    <3>2. QED  BY <1>0, <1>1, <2>2, <3>1, Unaffected
  <2>4. CASE u = t
    <3>1. Due(t)' = Logged
      BY <2>1, <2>2, <2>4, CostAssumption DEF LogInv, Due, InFlight
    <3>2. /\ cachedDay'[t] = today
          /\ daily'[t] = Cardinality(OfDay(Readable(log), today))
          /\ monthly'[t] = Cardinality(OfMonth(Readable(log), today))
      BY <2>1, <2>4 DEF CostTypeOK, CurrentDaily, CurrentMonthly
    <3>3. ASSUME NEW x \in session'[t]
          PROVE  TrackerOf[x] = t /\ step'[x] = "recorded" /\ stamp[x] < today
      <4>1. x \in Tasks /\ cachedDay[t] \in 1 .. today /\ today \in Nat /\ stamp[x] \in 0 .. today
        BY <2>1, <2>4 DEF CostTypeOK, Day
      <4>2. TrackerOf[x] = t /\ step[x] = "recorded" /\ stamp[x] <= cachedDay[t]
        BY <1>0, <2>1, <2>4 DEF Sums
      <4>3. QED  BY <2>1, <4>1, <4>2
    <3>4. QED  BY <2>1, <2>4, <3>1, <3>2, <3>3, RebuiltSums
  <2>5. QED  BY <2>3, <2>4
<1>10. ASSUME NEW t \in Trackers, Crash(t)
       PROVE  Sums(u)'
  <2>1. /\ UNCHANGED <<today, log, stamp>>
        /\ step' = [k \in Tasks |->
                      IF TrackerOf[k] = t /\ step[k] \in {"stamped", "written", "synced"}
                      THEN "died" ELSE step[k]]
        /\ cachedDay' = [cachedDay EXCEPT ![t] = today]
        /\ daily' = [daily EXCEPT ![t] = Cardinality(OfDay(Readable(log), today))]
        /\ monthly' = [monthly EXCEPT ![t] = Cardinality(OfMonth(Readable(log), today))]
        /\ session' = [session EXCEPT ![t] = {}]
    BY <1>10 DEF Crash
  <2>2. Logged' = Logged
    BY <2>1 DEF Logged
  <2>3. CASE u # t
    <3>1. cachedDay'[u] = cachedDay[u] /\ daily'[u] = daily[u] /\ monthly'[u] = monthly[u]
          /\ session'[u] = session[u]
      BY <2>1, <2>3 DEF CostTypeOK
    <3>2. \A x \in Tasks : step'[x] \in {"written", "synced"} => step[x] \in {"written", "synced"}
      BY <2>1
    <3>3. Due(u) \subseteq Due(u)'
      BY <2>2, <3>2 DEF Due, InFlight
    <3>4. QED  BY <1>0, <1>1, <3>1, <3>3, Unaffected
  <2>4. CASE u = t
    <3>1. \A x \in Tasks : TrackerOf[x] = t => step'[x] \notin {"written", "synced"}
      BY <2>1
    <3>2. Due(t)' = Logged
      BY <2>2, <3>1 DEF Due, InFlight
    <3>3. /\ cachedDay'[t] = today /\ session'[t] = {}
          /\ daily'[t] = Cardinality(OfDay(Readable(log), today))
          /\ monthly'[t] = Cardinality(OfMonth(Readable(log), today))
      BY <2>1 DEF CostTypeOK
    <3>4. QED  BY <2>1, <2>4, <3>2, <3>3, RebuiltSums
  <2>5. QED  BY <2>3, <2>4
<1>11. QED
  BY <1>3, <1>4, <1>5, <1>6, <1>7, <1>8, <1>9, <1>10 DEF Next

\* The bounds of the sums, along every run.
LEMMA SumsInvariant == Spec => []SumsInv
<1>1. Init => SumsInv
  <2> SUFFICES ASSUME Init, NEW t \in Trackers PROVE Sums(t)
    BY DEF SumsInv
  <2>1. OfDay({}, 1) = {} /\ session[t] = {} /\ cachedDay[t] = 1 /\ daily[t] = 0 /\ monthly[t] = 0
    BY DEF Init, OfDay
  <2>2. CostTypeOK /\ LogInv
    BY CostAssumption DEF Init, CostTypeOK, LogInv, Place, Day
  <2>3. /\ Cardinality(OfDay(Due(t), 1)) \in Nat /\ Cardinality(OfMonth(Due(t), 1)) \in Nat
        /\ Cardinality({}) = 0
    BY <2>2, DueFinite, FS_EmptySet
  <2>4. QED  BY <2>1, <2>3 DEF Sums
<1>2. QED
  BY <1>1, SumsStep, LogInvariant, PTL DEF Spec

(* Whatever trackers write to the log, roll over or die, and whenever: the sums of one have
   all it recorded since it was opened, and exceed what the log says by one record at most
   (record_usage, get_aggregated_costs and ensure_period_cache_current). *)
THEOREM SumsBoundedInvariant == Spec => []SumsBounded
<1>1. CostTypeOK /\ LogInv /\ SumsInv => SumsBounded
  <2> SUFFICES ASSUME CostTypeOK, LogInv, NEW t \in Trackers, Sums(t)
               PROVE  LET day == cachedDay[t] IN
                      /\ daily[t] >= Cardinality(OfDay(session[t], day))
                      /\ daily[t] <= Cardinality(OfDay(Logged, day)) + 1
                      /\ monthly[t] <= Cardinality(OfMonth(Logged, day)) + 1
                      /\ monthly[t] >= daily[t]
    BY DEF SumsBounded, SumsInv
  <2> DEFINE day == cachedDay[t]
  <2>1. OfDay(Due(t), day) \subseteq OfDay(Logged, day)
        /\ OfMonth(Due(t), day) \subseteq OfMonth(Logged, day)
        /\ OfDay(Logged, day) \subseteq Logged /\ OfMonth(Logged, day) \subseteq Logged
    BY DEF OfDay, OfMonth, Due
  <2>2. IsFiniteSet(OfDay(Logged, day)) /\ IsFiniteSet(OfMonth(Logged, day))
    BY <2>1, LoggedFinite, Fewer
  <2>3. /\ Cardinality(OfDay(Due(t), day)) <= Cardinality(OfDay(Logged, day))
        /\ Cardinality(OfMonth(Due(t), day)) <= Cardinality(OfMonth(Logged, day))
        /\ Cardinality(OfDay(Due(t), day)) \in Nat /\ Cardinality(OfDay(Logged, day)) \in Nat
        /\ Cardinality(OfMonth(Due(t), day)) \in Nat /\ Cardinality(OfMonth(Logged, day)) \in Nat
    BY <2>1, <2>2, Fewer
  <2>4. /\ daily[t] \in Nat /\ monthly[t] \in Nat
        /\ daily[t] >= Cardinality(OfDay(session[t], day))
        /\ monthly[t] >= daily[t]
        /\ daily[t] <= Cardinality(OfDay(Due(t), day)) + 1
        /\ monthly[t] <= Cardinality(OfMonth(Due(t), day)) + 1
    BY DEF Sums
  <2> HIDE DEF day
  <2>5. /\ daily[t] <= Cardinality(OfDay(Logged, day)) + 1
        /\ monthly[t] <= Cardinality(OfMonth(Logged, day)) + 1
    BY <2>3, <2>4
  <2>6. QED  BY <2>4, <2>5 DEF day
<1>2. QED
  BY <1>1, LogInvariant, SumsInvariant, PTL

-----------------------------------------------------------------------------
(* The providers.                                                          *)

\* No round makes more attempts than it has, none is over with attempts left, and a call
\* fails in its last round.
Exhausted ==
  /\ attempt \in [Calls -> 1 .. MaxRetries + 1]
  /\ missing = [c \in Calls |-> 0]
  /\ DOMAIN at = Calls /\ DOMAIN round = Calls
  /\ \A c \in Calls : at[c] = "failed" => round[c] = Rounds(c)

\* A round that ends leaves the call out of everything, or at the first attempt of another.
LEMMA NextRoundKeeps ==
  ASSUME MaxRetries \in Nat, Exhausted, NEW c \in Calls, at[c] # "failed",
         NextRound(c), UNCHANGED missing
  PROVE  Exhausted'
<1>1. CASE round[c] = Rounds(c)
  BY <1>1 DEF Exhausted, NextRound, Set, Rounds
<1>2. CASE round[c] # Rounds(c)
  BY <1>2 DEF Exhausted, NextRound, Set, Rounds
<1>3. QED
  BY <1>1, <1>2

\* A call that is where it was, or elsewhere without having failed.
LEMMA GoesOn ==
  ASSUME Exhausted, NEW c \in Calls, NEW p, p # "failed", at' = [at EXCEPT ![c] = p],
         UNCHANGED <<round, attempt, missing>>
  PROVE  Exhausted'
  BY DEF Exhausted, Rounds

\* Every step of every call, and every expiry, keeps the attempts in order.
LEMMA ExhaustedStep ==
  MaxRetries \in Nat /\ Exhausted /\ [CallNext]_callVars => Exhausted'
<1> SUFFICES ASSUME MaxRetries \in Nat, Exhausted, [CallNext]_callVars
             PROVE  Exhausted'
  OBVIOUS
<1>1. ASSUME UNCHANGED <<at, round, attempt, missing>>
      PROVE  Exhausted'
  BY <1>1 DEF Exhausted, Rounds
<1>2. ASSUME NEW c \in Calls, Begin(c)
      PROVE  Exhausted'
  BY <1>2, GoesOn DEF Begin, Set, shared
<1>3. ASSUME NEW c \in Calls, Skip(c)
      PROVE  Exhausted'
  BY <1>3, NextRoundKeeps DEF Skip
<1>4. ASSUME NEW c \in Calls, Try(c)
      PROVE  Exhausted'
  BY <1>4, GoesOn DEF Try, Set, shared
<1>5. ASSUME NEW c \in Calls, Answer(c)
      PROVE  Exhausted'
  BY <1>5, GoesOn DEF Answer, Set
<1>6. ASSUME NEW c \in Calls, Reject(c)
      PROVE  Exhausted'
  BY <1>6, NextRoundKeeps DEF Reject, EndRound
<1>7. ASSUME NEW c \in Calls, Overflow(c)
      PROVE  Exhausted'
  BY <1>7, GoesOn DEF Overflow, Set, shared
<1>8. ASSUME NEW c \in Calls, Cancel(c)
      PROVE  Exhausted'
  BY <1>8, GoesOn DEF Cancel, Set, shared
<1>9. ASSUME NEW c \in Calls, NEW limits \in 0 .. 1, Fail(c, limits)
      PROVE  Exhausted'
  <2>0. attempt[c] \in 1 .. MaxRetries + 1 /\ missing[c] = 0 /\ at[c] = "try"
    BY <1>9 DEF Exhausted, Fail
  <2>1. CASE attempt[c] > MaxRetries
    <3>1. attempt[c] = MaxRetries + 1
      BY <2>0, <2>1
    <3>2. missing' = [missing EXCEPT ![c] = missing[c] + MaxRetries + 1 - attempt[c]]
      BY <1>9, <2>1 DEF Fail, Set
    <3>3. missing[c] + MaxRetries + 1 - attempt[c] = 0
      BY <2>0, <3>1
    <3>4. UNCHANGED missing
      BY <2>0, <3>2, <3>3 DEF Exhausted
    <3>5. NextRound(c)
      BY <1>9, <2>1 DEF Fail, EndRound
    <3>6. QED  BY <2>0, <3>4, <3>5, NextRoundKeeps
  <2>2. CASE ~(attempt[c] > MaxRetries)
    <3>1. attempt' = [attempt EXCEPT ![c] = attempt[c] + 1] /\ UNCHANGED <<at, round, missing>>
      BY <1>9, <2>2 DEF Fail, Set
    <3>2. attempt[c] + 1 \in 1 .. MaxRetries + 1
      BY <2>0, <2>2
    <3>3. QED  BY <3>1, <3>2 DEF Exhausted, Rounds
  <2>3. QED  BY <2>1, <2>2
<1>10. CASE UNCHANGED callVars
  BY <1>1, <1>10 DEF callVars
<1>11. ASSUME NEW p, BreakerExpires(p) \/ CooldownExpires(p)
       PROVE  Exhausted'
  BY <1>1, <1>11 DEF BreakerExpires, CooldownExpires
<1>12. QED
  BY <1>2, <1>3, <1>4, <1>5, <1>6, <1>7, <1>8, <1>9, <1>10, <1>11 DEF CallNext, Step, EndAttempt

(* "All providers/models failed" is true: whatever breakers and cooldowns other calls leave,
   a call that failed went through every model and provider and made every attempt it had
   (chat_with_system, chat_with_history and their loops). *)
THEOREM FailedMeansExhaustedInvariant == CallSpec => []FailedMeansExhausted
<1>0. MaxRetries \in Nat
  BY ProviderAssumption
<1>1. CallInit => Exhausted
  BY <1>0 DEF CallInit, Exhausted
<1>2. Exhausted => FailedMeansExhausted
  BY DEF Exhausted, FailedMeansExhausted
<1>3. QED
  BY <1>0, <1>1, <1>2, ExhaustedStep, PTL DEF CallSpec
=============================================================================
