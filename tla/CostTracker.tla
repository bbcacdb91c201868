---------------------------- MODULE CostTracker ----------------------------
(***************************************************************************)
(* The cost trackers (src/src/cost/tracker.rs): the gateway, the channels  *)
(* and an agent each open one, and all append to one log.  A tracker keeps *)
(* the sums of the current day and month; they are rebuilt from the log    *)
(* when the date has changed.                                              *)
(*                                                                         *)
(* Every task records once and every record costs 1.  The log is a         *)
(* sequence of what was written: a record, or the end of its line, which   *)
(* writeln! writes separately.  Tokens and models are left out.            *)
(***************************************************************************)
EXTENDS Naturals, Sequences, FiniteSets

CONSTANTS
  Tasks,       \* tasks that record the cost of an answer
  Trackers,    \* the trackers on the log
  TrackerOf,   \* the tracker of each task
  Days,        \* how many days pass
  MonthOf,     \* the month of each day
  MaxCrashes,  \* how often a process dies
  Free,        \* the holder of a lock nobody holds
  NewLine      \* the end of a line of the log

ASSUME CostAssumption ==
  /\ TrackerOf \in [Tasks -> Trackers]
  /\ Days \in Nat \ {0}
  /\ DOMAIN MonthOf = 1 .. Days
  /\ MaxCrashes \in Nat
  /\ Free \notin Tasks
  /\ NewLine \notin Tasks

VARIABLES
  today,      \* the date
  log,        \* costs.jsonl
  step,       \* where each task is in record_usage
  stamp,      \* the day in the time stamp of its record, 0 before it has one
  storage,    \* the task that holds each tracker's storage lock, or Free
  cachedDay,  \* cached_day, which also gives the cached month
  daily,      \* daily_cost_usd
  monthly,    \* monthly_cost_usd
  session,    \* session_costs of each tracker
  crashes     \* processes that have died

vars == <<today, log, step, stamp, storage, cachedDay, daily, monthly, session, crashes>>

-----------------------------------------------------------------------------
Day == 1 .. Days

\* The records that are alone on a line: others are malformed and skipped.
Readable(file) ==
  {file[i] : i \in {j \in DOMAIN file : /\ file[j] # NewLine
                                        /\ j = 1 \/ file[j - 1] = NewLine
                                        /\ j = Len(file) \/ file[j + 1] = NewLine}}

OfDay(records, day) == {k \in records : stamp[k] = day}
OfMonth(records, day) == {k \in records : MonthOf[stamp[k]] = MonthOf[day]}

Init ==
  /\ today = 1
  /\ log = << >>
  /\ step = [k \in Tasks |-> "idle"]
  /\ stamp = [k \in Tasks |-> 0]
  /\ storage = [t \in Trackers |-> Free]
  /\ cachedDay = [t \in Trackers |-> 1]
  /\ daily = [t \in Trackers |-> 0]
  /\ monthly = [t \in Trackers |-> 0]
  /\ session = [t \in Trackers |-> {}]
  /\ crashes = 0

NextDay ==
  /\ today < Days
  /\ today' = today + 1
  /\ UNCHANGED <<log, step, stamp, storage, cachedDay, daily, monthly, session, crashes>>

\* CostRecord::new takes the time before the storage is locked.
Stamp(k) ==
  /\ step[k] = "idle"
  /\ stamp' = [stamp EXCEPT ![k] = today]
  /\ step' = [step EXCEPT ![k] = "stamped"]
  /\ UNCHANGED <<today, log, storage, cachedDay, daily, monthly, session, crashes>>

\* Mutant: the line is written before the storage is locked.
Write_Unlocked(k) ==
  /\ step[k] = "stamped"
  /\ log' = Append(log, k)
  /\ step' = [step EXCEPT ![k] = "written"]
  /\ UNCHANGED <<today, stamp, storage, cachedDay, daily, monthly, session, crashes>>

\* add_record: the record ...
Write(k) ==
  /\ step[k] = "stamped"
  /\ storage[TrackerOf[k]] = Free
  /\ storage' = [storage EXCEPT ![TrackerOf[k]] = k]
  /\ log' = Append(log, k)
  /\ step' = [step EXCEPT ![k] = "written"]
  /\ UNCHANGED <<today, stamp, cachedDay, daily, monthly, session, crashes>>

\* ... the end of its line ...
EndLine(k) ==
  /\ step[k] = "written"
  /\ log' = Append(log, NewLine)
  /\ step' = [step EXCEPT ![k] = "synced"]
  /\ UNCHANGED <<today, stamp, storage, cachedDay, daily, monthly, session, crashes>>

\* ... which may not reach the disk: record_usage fails and nothing is counted.
SyncFails(k) ==
  /\ step[k] = "synced"
  /\ step' = [step EXCEPT ![k] = "unsynced"]
  /\ storage' = [storage EXCEPT ![TrackerOf[k]] = Free]
  /\ UNCHANGED <<today, log, stamp, cachedDay, daily, monthly, session, crashes>>

\* ensure_period_cache_current: the sums of the cached period, those of today.
CurrentDaily(t) ==
  IF cachedDay[t] = today THEN daily[t] ELSE Cardinality(OfDay(Readable(log), today))
CurrentMonthly(t) ==
  IF cachedDay[t] = today THEN monthly[t] ELSE Cardinality(OfMonth(Readable(log), today))

\* Mutant: the sums are not rolled over when a record is added.
Count_NoRollOver(k) ==
  LET t == TrackerOf[k] IN
  /\ step[k] = "synced"
  /\ step' = [step EXCEPT ![k] = "recorded"]
  /\ storage' = [storage EXCEPT ![t] = Free]
  /\ daily' = [daily EXCEPT ![t] = @ + 1]
  /\ monthly' = [monthly EXCEPT ![t] = @ + 1]
  /\ session' = [session EXCEPT ![t] = @ \cup {k}]
  /\ UNCHANGED <<today, log, stamp, cachedDay, crashes>>

\* The record, which is in the log already, is added to the sums of the current period.
Count(k) ==
  LET t == TrackerOf[k] IN
  /\ step[k] = "synced"
  /\ step' = [step EXCEPT ![k] = "recorded"]
  /\ storage' = [storage EXCEPT ![t] = Free]
  /\ cachedDay' = [cachedDay EXCEPT ![t] = today]
  /\ daily' = [daily EXCEPT ![t] = CurrentDaily(t) + (IF stamp[k] = today THEN 1 ELSE 0)]
  /\ monthly' = [monthly EXCEPT ![t] =
       CurrentMonthly(t) + (IF MonthOf[stamp[k]] = MonthOf[today] THEN 1 ELSE 0)]
  /\ session' = [session EXCEPT ![t] = @ \cup {k}]
  /\ UNCHANGED <<today, log, stamp, crashes>>

\* get_aggregated_costs, for a summary or a check of the budget.
Summarise(t) ==
  /\ storage[t] = Free
  /\ cachedDay[t] # today
  /\ cachedDay' = [cachedDay EXCEPT ![t] = today]
  /\ daily' = [daily EXCEPT ![t] = CurrentDaily(t)]
  /\ monthly' = [monthly EXCEPT ![t] = CurrentMonthly(t)]
  /\ UNCHANGED <<today, log, step, stamp, storage, session, crashes>>

\* The process of a tracker dies, at any point of a write, and opens the log again.
Crash(t) ==
  /\ crashes < MaxCrashes
  /\ crashes' = crashes + 1
  /\ step' = [k \in Tasks |-> IF TrackerOf[k] = t /\ step[k] \in {"stamped", "written", "synced"}
                              THEN "died" ELSE step[k]]
  /\ storage' = [storage EXCEPT ![t] = Free]
  /\ cachedDay' = [cachedDay EXCEPT ![t] = today]
  /\ daily' = [daily EXCEPT ![t] = Cardinality(OfDay(Readable(log), today))]
  /\ monthly' = [monthly EXCEPT ![t] = Cardinality(OfMonth(Readable(log), today))]
  /\ session' = [session EXCEPT ![t] = {}]
  /\ UNCHANGED <<today, log, stamp>>

Next ==
  \/ NextDay
  \/ \E k \in Tasks : Stamp(k) \/ Write(k) \/ EndLine(k) \/ SyncFails(k) \/ Count(k)
  \/ \E t \in Trackers : Summarise(t) \/ Crash(t)

Spec == Init /\ [][Next]_vars

-----------------------------------------------------------------------------
Logged == {k \in Tasks : \E i \in DOMAIN log : log[i] = k}

(* A tracker's sums have everything it recorded since it was opened and belongs to the
   cached day, and nothing twice but for one record: the first after a roll-over, which
   the rebuild has read from the log already. *)
SumsBounded ==
  \A t \in Trackers :
    LET day == cachedDay[t] IN
    /\ daily[t] >= Cardinality(OfDay(session[t], day))
    /\ daily[t] <= Cardinality(OfDay(Logged, day)) + 1
    /\ monthly[t] <= Cardinality(OfMonth(Logged, day)) + 1
    /\ monthly[t] >= daily[t]

(* A record that was counted can be read again, unless its line was shared with a record
   of another tracker or of a process that died in between: the storage lock keeps the
   lines of one tracker apart. *)
LostOnlyTogether ==
  \A i \in DOMAIN log :
    (log[i] # NewLine /\ step[log[i]] = "recorded" /\ log[i] \notin Readable(log)) =>
      \E j \in {i - 1, i + 1} \cap DOMAIN log :
        log[j] # NewLine /\ (TrackerOf[log[j]] # TrackerOf[log[i]] \/ step[log[j]] = "died")
=============================================================================
