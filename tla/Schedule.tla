------------------------------- MODULE Schedule -------------------------------
(***************************************************************************)
(* The timing of the reads: the while loop of Collector.run() with its     *)
(* deadlines (collector.py), can_run(), dispatch() and missed() of         *)
(* RuntimeStats and the backoff that failure() sets (runtime/status.py).   *)
(* Collector.tla abstracts all of this to "a sensor may be due".           *)
(*                                                                         *)
(* clock is time.monotonic_ns() // 1_000_000, counted from the moment the  *)
(* deadlines were initialised; it may advance between any two steps.  Main *)
(* reads it once per pass, into now, and works with that value while the   *)
(* bus workers settle reads.  A worker whose read has raised reads it too, *)
(* into failedAt, before failure() takes the lock.  spc is where main is:  *)
(*   loop      the while condition                                         *)
(*   pass      the for loop over the sensors                               *)
(*   ask       about to call can_run() for the sensor visiting             *)
(*   dispatch  can_run() said yes, dispatch() not yet called               *)
(*   wait      in stop_event.wait(), which times out at wakeAt             *)
(*   left      the loop is left                                            *)
(* The sensors of a pass are visited in any order, which includes the      *)
(* order of the configuration.                                             *)
(***************************************************************************)
EXTENDS RuntimeStats

CONSTANTS Interval,     \* per sensor: interval_ms
          BackoffUnit,  \* the 1000 ms that failure() multiplies by
          BackoffCap,   \* the largest multiplier, 60 in failure()
          PollCap,      \* the longest wait of a pass, 100 ms
          MaxTime       \* bound: the clock stops here

ASSUME ScheduleAssumption ==
  /\ Interval \in [Sensors -> Nat \ {0}]
  /\ BackoffUnit \in Nat /\ BackoffCap \in Nat
  /\ PollCap \in Nat /\ MaxTime \in Nat

VARIABLES clock, spc, now, toVisit, visiting, wakeAt,
          due,           \* per sensor: deadlines
          missed,        \* per sensor: missed_deadlines
          consecutive,   \* per sensor: consecutive_failures
          backoffUntil,  \* per sensor: backoff_until_ms
          failedAt       \* per sensor: the now_ms of a failure() that has not
                         \* taken the lock yet, or None

mainScheduleVars == <<spc, now, toVisit, visiting, wakeAt, due>>
timingVars == <<missed, consecutive, backoffUntil, failedAt>>
scheduleVars == <<clock, mainScheduleVars, timingVars, statsVars>>

\* The part of the type invariant that the accounting needs.
CountersTypeOK ==
  /\ spc \in {"loop", "pass", "ask", "dispatch", "wait", "left"}
  /\ clock \in Nat /\ now \in Nat
  /\ toVisit \in SUBSET Sensors
  /\ visiting \in Sensors \cup {None}
  /\ spc \in {"ask", "dispatch"} => visiting \in Sensors \ toVisit
  /\ due \in [Sensors -> Nat]
  /\ missed \in [Sensors -> Nat]
  /\ pending \in [Sensors -> BOOLEAN]
  /\ successful \in [Sensors -> Nat]
  /\ failed \in [Sensors -> Nat]

\* Every variable has its type, and the sensor whose read is being decided
\* is one that this pass has taken up.
ScheduleTypeOK ==
  /\ CountersTypeOK
  /\ wakeAt \in Nat
  /\ consecutive \in [Sensors -> Nat]
  /\ backoffUntil \in [Sensors -> Nat]
  /\ failedAt \in [Sensors -> Nat \cup {None}]

ScheduleInit ==
  /\ StatsInit
  /\ clock = 0 /\ now = 0 /\ wakeAt = 0
  /\ spc = "loop" /\ toVisit = {} /\ visiting = None
  /\ due = [s \in Sensors |-> 0]
  /\ missed = [s \in Sensors |-> 0]
  /\ consecutive = [s \in Sensors |-> 0]
  /\ backoffUntil = [s \in Sensors |-> 0]
  /\ failedAt = [s \in Sensors |-> None]

-----------------------------------------------------------------------------
Tick ==
  /\ clock < MaxTime
  /\ clock' = clock + 1
  /\ UNCHANGED <<mainScheduleVars, timingVars, statsVars>>

\* The stop event is set: the loop ends.
LeaveLoop ==
  /\ spc = "loop"
  /\ spc' = "left"
  /\ UNCHANGED <<clock, now, toVisit, visiting, wakeAt, due, timingVars, statsVars>>

BeginPass ==
  /\ spc = "loop"
  /\ spc' = "pass"
  /\ now' = clock
  /\ toVisit' = Sensors
  /\ UNCHANGED <<clock, visiting, wakeAt, due, timingVars, statsVars>>

\* if now < deadline: continue
VisitNotDue(s) ==
  /\ spc = "pass" /\ s \in toVisit
  /\ now < due[s]
  /\ toVisit' = toVisit \ {s}
  /\ UNCHANGED <<clock, spc, now, visiting, wakeAt, due, timingVars, statsVars>>

\* Mutant: the period that is due now is not counted.
PeriodsElapsedBefore(s) == (now - due[s]) \div Interval[s]

\* Mutant: one period is handled per visit.
PeriodsOneAtATime(s) == 1

\* The periods that have come due since the last visit.
Periods(s) == (now - due[s]) \div Interval[s] + 1

\* Mutant: a visit counts every period it finds as missed.
VisitDueAllMissed(s) ==
  /\ spc = "pass" /\ s \in toVisit
  /\ now >= due[s]
  /\ due' = [due EXCEPT ![s] = @ + Periods(s) * Interval[s]]
  /\ missed' = [missed EXCEPT ![s] = IF Periods(s) > 1 THEN @ + Periods(s) ELSE @]
  /\ visiting' = s /\ spc' = "ask"
  /\ toVisit' = toVisit \ {s}
  /\ UNCHANGED <<clock, now, wakeAt, consecutive, backoffUntil, failedAt,
                 statsVars>>

\* The deadline moves past now; all but one of the periods are missed().
VisitDue(s) ==
  /\ spc = "pass" /\ s \in toVisit
  /\ now >= due[s]
  /\ due' = [due EXCEPT ![s] = @ + Periods(s) * Interval[s]]
  /\ missed' = [missed EXCEPT ![s] = @ + (Periods(s) - 1)]
  /\ visiting' = s /\ spc' = "ask"
  /\ toVisit' = toVisit \ {s}
  /\ UNCHANGED <<clock, now, wakeAt, consecutive, backoffUntil, failedAt,
                 statsVars>>

\* can_run() is false: the period is missed().
BackedOff ==
  /\ spc = "ask"
  /\ now < backoffUntil[visiting]
  /\ missed' = [missed EXCEPT ![visiting] = @ + 1]
  /\ spc' = "pass"
  /\ UNCHANGED <<clock, now, toVisit, visiting, wakeAt, due, consecutive,
                 backoffUntil, failedAt, statsVars>>

\* Mutant: can_run() is not asked.
MayRunAlways ==
  /\ spc = "ask"
  /\ spc' = "dispatch"
  /\ UNCHANGED <<clock, now, toVisit, visiting, wakeAt, due, timingVars, statsVars>>

MayRun ==
  /\ spc = "ask"
  /\ now >= backoffUntil[visiting]
  /\ spc' = "dispatch"
  /\ UNCHANGED <<clock, now, toVisit, visiting, wakeAt, due, timingVars, statsVars>>

\* dispatch() returns True and the task is put on the bus queue.
Dispatch ==
  /\ spc = "dispatch"
  /\ StatsDispatch(visiting)
  /\ spc' = "pass"
  /\ UNCHANGED <<clock, now, toVisit, visiting, wakeAt, due, timingVars>>

\* dispatch() returns False: the previous read is still pending.
StillPending ==
  /\ spc = "dispatch"
  /\ pending[visiting]
  /\ missed' = [missed EXCEPT ![visiting] = @ + 1]
  /\ spc' = "pass"
  /\ UNCHANGED <<clock, now, toVisit, visiting, wakeAt, due, consecutive,
                 backoffUntil, failedAt, statsVars>>

Lesser(a, b) == IF a < b THEN a ELSE b

IsNearest(d) == (\A s \in Sensors : d <= due[s])

\* The end of a pass: wait for the nearest deadline, at most PollCap.
BeginWait ==
  /\ spc = "pass" /\ toVisit = {}
  /\ \E nearest \in {due[s] : s \in Sensors} :
       /\ IsNearest(nearest)
       /\ wakeAt' = IF nearest < clock THEN clock
                   ELSE clock + Lesser(PollCap, nearest - clock)
  /\ spc' = "wait"
  /\ UNCHANGED <<clock, now, toVisit, visiting, due, timingVars, statsVars>>

\* The wait times out, or the stop event ends it.
WakeUp ==
  /\ spc = "wait" /\ clock >= wakeAt
  /\ spc' = "loop"
  /\ UNCHANGED <<clock, now, toVisit, visiting, wakeAt, due, timingVars, statsVars>>

-----------------------------------------------------------------------------
\* success(), called by the bus worker that holds the task.
ReadSucceeds(s) ==
  /\ pending[s] /\ failedAt[s] = None
  /\ StatsSuccess(s)
  /\ consecutive' = [consecutive EXCEPT ![s] = 0]
  /\ backoffUntil' = [backoffUntil EXCEPT ![s] = 0]
  /\ UNCHANGED <<clock, mainScheduleVars, missed, failedAt>>

\* The task raised: the worker reads the clock for its call of failure().
ReadRaises(s) ==
  /\ pending[s] /\ failedAt[s] = None
  /\ failedAt' = [failedAt EXCEPT ![s] = clock]
  /\ UNCHANGED <<clock, mainScheduleVars, missed, consecutive, backoffUntil, statsVars>>

\* The delay after n failures in a row: 1, 2, 4 ... units, at most the cap.
Delay(n) == Lesser(BackoffCap, 2^(n - 1)) * BackoffUnit

\* failure(): the window starts at the instant the worker read, which may be
\* long past when the worker was delayed on its way to the lock.
ReadFails(s) ==
  /\ pending[s] /\ failedAt[s] # None
  /\ StatsFailure(s)
  /\ consecutive' = [consecutive EXCEPT ![s] = @ + 1]
  /\ backoffUntil' = [backoffUntil EXCEPT ![s] = failedAt[s] + Delay(consecutive[s] + 1)]
  /\ failedAt' = [failedAt EXCEPT ![s] = None]
  /\ UNCHANGED <<clock, mainScheduleVars, missed>>

Visit == \E s \in Sensors : VisitNotDue(s) \/ VisitDue(s)
Settle == \E s \in Sensors : ReadSucceeds(s) \/ ReadRaises(s) \/ ReadFails(s)

ScheduleNext ==
  \/ Tick
  \/ LeaveLoop \/ BeginPass \/ Visit \/ BackedOff \/ MayRun
  \/ Dispatch \/ StillPending \/ BeginWait \/ WakeUp
  \/ Settle

ScheduleSpec == ScheduleInit /\ [][ScheduleNext]_scheduleVars

-----------------------------------------------------------------------------
AsNumber(b) == IF b THEN 1 ELSE 0

InVisit(s) == visiting = s /\ spc \in {"ask", "dispatch"}

\* The periods of s that the counters of the status file account for.
Accounted(s) ==
  successful[s] + failed[s] + missed[s] + AsNumber(pending[s]) + AsNumber(InVisit(s))

\* Every period the deadline has moved over ends in exactly one of the
\* counters successful_reads, failed_reads and missed_deadlines, or is the
\* read now pending or the one being decided: however late a pass runs,
\* however the workers race with it, no period is counted twice or forgotten.
PeriodAccounting == \A s \in Sensors : due[s] = Accounted(s) * Interval[s]

\* A visit leaves a sensor with a deadline in its future that is at most one
\* interval away: a late pass neither fires a burst of old periods nor skips
\* one that has not come yet.
DeadlinesAhead ==
  \A s \in Sensors :
    (spc \in {"pass", "ask", "dispatch", "wait"} /\ s \notin toVisit) =>
      now < due[s] /\ (due[s] <= now + Interval[s])

\* s is in an open backoff window, no read of it is pending, and main is not
\* between a can_run() that said yes for s and the dispatch() that follows.
Rests(s) ==
  /\ ~pending[s]
  /\ clock < backoffUntil[s]
  /\ ~(spc = "dispatch" /\ visiting = s)

\* can_run() and dispatch() are two lock sections, and both work with a clock
\* value read before the pass, failure() with one read before its lock.  All
\* the same a sensor at rest is left alone until its window is over: only a
\* main that was already past can_run() when failure() opened the window
\* sends a read into it.
RestsUntilWindowEnds ==
  [][\A s \in Sensors : Rests(s) =>
       \/ Rests(s)' /\ backoffUntil'[s] = backoffUntil[s]
       \/ clock' >= backoffUntil[s]]_scheduleVars

=============================================================================
