---------------------------- MODULE ScheduleProofs ----------------------------
(***************************************************************************)
(* Theorems about Schedule, for every set of sensors, every interval and   *)
(* every backoff.                                                          *)
(***************************************************************************)
EXTENDS Schedule, FiniteSetTheorems, TLAPS

\* The arithmetic of one visit: moving a deadline d that is not after n by
\* (n - d) \div i + 1 intervals puts it after n, by at most one interval.
LEMMA NextDeadline ==
  ASSUME NEW n \in Nat, NEW d \in Nat, n >= d, NEW i \in Nat \ {0}
  PROVE  /\ (n - d) \div i + 1 \in Nat \ {0}
         /\ d + ((n - d) \div i + 1) * i \in Nat
         /\ n < d + ((n - d) \div i + 1) * i
         /\ d + ((n - d) \div i + 1) * i <= n + i
<1> DEFINE q == (n - d) \div i
           r == (n - d) % i
<1>1. q \in Nat /\ r \in 0..(i - 1) /\ n - d = q * i + r
  OBVIOUS
<1> HIDE DEF q, r
<1>2. (q + 1) * i = q * i + i /\ q * i \in Nat
  BY <1>1
<1>3. q + 1 \in Nat \ {0}
  BY <1>1
<1>4. d + (q + 1) * i = n - r + i
  BY <1>1, <1>2
<1> QED BY <1>1, <1>2, <1>3, <1>4 DEF q

-----------------------------------------------------------------------------
(* Types. *)

\* A visit of a sensor that is due keeps deadlines and counters natural.
LEMMA VisitDueType ==
  ASSUME CountersTypeOK, NEW s \in Sensors, VisitDue(s)
  PROVE  CountersTypeOK'
<1>1. Interval[s] \in Nat \ {0} /\ now \in Nat /\ due[s] \in Nat /\ now >= due[s]
  BY ScheduleAssumption DEF ScheduleAssumption, CountersTypeOK, VisitDue
<1>2. /\ Periods(s) \in Nat \ {0}
      /\ due[s] + Periods(s) * Interval[s] \in Nat
  BY <1>1, NextDeadline DEF Periods
<1>3. missed' \in [Sensors -> Nat]
  BY <1>2 DEF CountersTypeOK, VisitDue
<1>4. due' \in [Sensors -> Nat]
  BY <1>2 DEF CountersTypeOK, VisitDue
<1> QED
  BY <1>3, <1>4 DEF CountersTypeOK, VisitDue, statsVars, sensorVars

\* Every step keeps the types of the schedule's counters.
LEMMA CountersStep ==
  ASSUME CountersTypeOK, [ScheduleNext]_scheduleVars
  PROVE  CountersTypeOK'
<1> USE StatsAssumption DEF StatsAssumption
<1>1. CASE Tick
  BY <1>1 DEF CountersTypeOK, Tick, mainScheduleVars, timingVars, statsVars, sensorVars
<1>2. CASE LeaveLoop
  BY <1>2 DEF CountersTypeOK, LeaveLoop, timingVars, statsVars, sensorVars
<1>3. CASE BeginPass
  BY <1>3 DEF CountersTypeOK, BeginPass, timingVars, statsVars, sensorVars
<1>4. ASSUME NEW s \in Sensors, VisitNotDue(s)
      PROVE  CountersTypeOK'
  BY <1>4 DEF CountersTypeOK, VisitNotDue, timingVars, statsVars, sensorVars
<1>5. ASSUME NEW s \in Sensors, VisitDue(s)
      PROVE  CountersTypeOK'
  BY <1>5, VisitDueType
<1>6. CASE BackedOff
  BY <1>6 DEF CountersTypeOK, BackedOff, statsVars, sensorVars
<1>7. CASE MayRun
  BY <1>7 DEF CountersTypeOK, MayRun, timingVars, statsVars, sensorVars
<1>8. CASE Dispatch
  BY <1>8 DEF CountersTypeOK, Dispatch, StatsDispatch, timingVars
<1>9. CASE StillPending
  BY <1>9 DEF CountersTypeOK, StillPending, statsVars, sensorVars
<1>10. CASE BeginWait
  BY <1>10 DEF CountersTypeOK, BeginWait, timingVars, statsVars, sensorVars
<1>11. CASE WakeUp
  BY <1>11 DEF CountersTypeOK, WakeUp, timingVars, statsVars, sensorVars
<1>12. ASSUME NEW s \in Sensors, ReadSucceeds(s)
       PROVE  CountersTypeOK'
  BY <1>12 DEF CountersTypeOK, ReadSucceeds, StatsSuccess, mainScheduleVars
<1>13. ASSUME NEW s \in Sensors, ReadFails(s)
       PROVE  CountersTypeOK'
  BY <1>13 DEF CountersTypeOK, ReadFails, StatsFailure, mainScheduleVars
<1>14. CASE (\E s \in Sensors : ReadRaises(s)) \/ UNCHANGED scheduleVars
  BY <1>14 DEF ReadRaises, CountersTypeOK, scheduleVars, mainScheduleVars, timingVars, statsVars,
               sensorVars
<1> QED
  BY <1>1, <1>2, <1>3, <1>4, <1>5, <1>6, <1>7, <1>8, <1>9, <1>10, <1>11, <1>12, <1>13,
     <1>14
  DEF ScheduleNext, Visit, Settle

-----------------------------------------------------------------------------
(* Accounting. *)

\* A step that moves a period of x from one counter to another, or leaves x
\* alone, keeps what is accounted for and the deadline.
LEMMA SameAccount ==
  ASSUME PeriodAccounting, NEW x \in Sensors, due'[x] = due[x],
         Accounted(x)' = Accounted(x)
  PROVE  (due[x] = Accounted(x) * Interval[x])'
BY DEF PeriodAccounting

\* A visit that finds p periods due moves the deadline by p intervals, counts
\* p - 1 of them as missed and takes up the last.
LEMMA VisitDueAccount ==
  ASSUME CountersTypeOK, PeriodAccounting, NEW s \in Sensors, VisitDue(s)
  PROVE  PeriodAccounting'
<1>1. /\ Interval[s] \in Nat \ {0} /\ now \in Nat /\ due[s] \in Nat /\ now >= due[s]
      /\ spc = "pass" /\ spc' = "ask" /\ visiting' = s
  BY ScheduleAssumption DEF ScheduleAssumption, CountersTypeOK, VisitDue
<1>2. Periods(s) \in Nat \ {0}
  BY <1>1, NextDeadline DEF Periods
<1>3. SUFFICES ASSUME NEW x \in Sensors
               PROVE  (due[x] = Accounted(x) * Interval[x])'
  BY DEF PeriodAccounting
<1>4. /\ successful'[x] = successful[x] /\ failed'[x] = failed[x]
      /\ pending'[x] = pending[x]
  BY DEF VisitDue, statsVars, sensorVars
<1>5. CASE x # s
  <2>1. due'[x] = due[x] /\ missed'[x] = missed[x]
    BY <1>5 DEF CountersTypeOK, VisitDue
  <2>2. AsNumber(InVisit(x))' = AsNumber(InVisit(x))
    BY <1>1, <1>5 DEF AsNumber, InVisit
  <2>3. AsNumber(pending[x])' = AsNumber(pending[x])
    BY <1>4 DEF AsNumber
  <2> QED BY <1>4, <2>1, <2>2, <2>3, SameAccount DEF Accounted
<1>6. CASE x = s
  <2>1. /\ due'[s] = due[s] + Periods(s) * Interval[s]
        /\ missed'[s] = missed[s] + (Periods(s) - 1)
    BY DEF CountersTypeOK, VisitDue
  <2>2. AsNumber(InVisit(s)) = 0 /\ AsNumber(InVisit(s))' = 1
    BY <1>1 DEF AsNumber, InVisit
  <2>3. AsNumber(pending[s])' = AsNumber(pending[s]) /\ AsNumber(pending[s]) \in Nat
    BY <1>4, <1>6 DEF AsNumber
  <2>4. successful[s] \in Nat /\ failed[s] \in Nat /\ missed[s] \in Nat
    BY DEF CountersTypeOK
  <2>5. Accounted(s)' = Accounted(s) + Periods(s) /\ Accounted(s) \in Nat
    BY <1>2, <1>4, <1>6, <2>1, <2>2, <2>3, <2>4 DEF Accounted
  <2>6. due[s] = Accounted(s) * Interval[s]
    BY DEF PeriodAccounting
  <2>7. due'[s] = (Accounted(s) + Periods(s)) * Interval[s]
    BY <1>1, <1>2, <2>1, <2>5, <2>6
  <2> QED BY <1>6, <2>5, <2>7
<1> QED BY <1>5, <1>6

\* A step that leaves the deadlines alone and moves the period of at most one
\* sensor from one counter to another.
LEMMA MovesPeriod ==
  ASSUME CountersTypeOK, PeriodAccounting, UNCHANGED due,
         \/ LeaveLoop \/ BeginPass \/ BackedOff \/ MayRun \/ Dispatch
         \/ StillPending \/ BeginWait \/ WakeUp \/ Tick
         \/ \E s \in Sensors : VisitNotDue(s) \/ ReadSucceeds(s) \/ ReadFails(s),
         NEW x \in Sensors
  PROVE  Accounted(x)' = Accounted(x)
<1>1. /\ successful[x] \in Nat /\ failed[x] \in Nat /\ missed[x] \in Nat
      /\ pending[x] \in BOOLEAN
  BY DEF CountersTypeOK
<1>2. CASE LeaveLoop \/ BeginPass \/ BeginWait \/ WakeUp \/ Tick \/ MayRun
  <2>1. UNCHANGED statsVars /\ UNCHANGED missed /\ InVisit(x)' = InVisit(x)
    BY <1>2 DEF LeaveLoop, BeginPass, BeginWait, WakeUp, Tick, MayRun, timingVars,
                mainScheduleVars, InVisit
  <2> QED BY <2>1 DEF Accounted, AsNumber, statsVars, sensorVars
<1>3. CASE \E s \in Sensors : VisitNotDue(s)
  <2>1. UNCHANGED statsVars /\ UNCHANGED missed /\ InVisit(x)' = InVisit(x)
    BY <1>3 DEF VisitNotDue, timingVars, InVisit
  <2> QED BY <2>1 DEF Accounted, AsNumber, statsVars, sensorVars
<1>4. CASE BackedOff \/ StillPending
  <2>1. UNCHANGED statsVars
    BY <1>4 DEF BackedOff, StillPending
  <2>2. CASE x = visiting
    <3>1. missed'[x] = missed[x] + 1
      BY <1>4, <2>2 DEF BackedOff, StillPending, CountersTypeOK
    <3>2. AsNumber(InVisit(x)) = 1 /\ AsNumber(InVisit(x))' = 0
      BY <1>4, <2>2 DEF BackedOff, StillPending, InVisit, AsNumber
    <3>3. AsNumber(pending[x])' = AsNumber(pending[x]) /\ AsNumber(pending[x]) \in Nat
      BY <2>1 DEF AsNumber, statsVars, sensorVars
    <3> QED BY <1>1, <2>1, <3>1, <3>2, <3>3 DEF Accounted, statsVars, sensorVars
  <2>3. CASE x # visiting
    <3>1. missed'[x] = missed[x] /\ InVisit(x)' = InVisit(x)
      BY <1>4, <2>3 DEF BackedOff, StillPending, CountersTypeOK, InVisit
    <3> QED BY <2>1, <3>1 DEF Accounted, AsNumber, statsVars, sensorVars
  <2> QED BY <2>2, <2>3
<1>5. CASE Dispatch
  <2>1. /\ successful'[x] = successful[x] /\ failed'[x] = failed[x]
        /\ missed'[x] = missed[x]
    BY <1>5 DEF Dispatch, StatsDispatch, timingVars
  <2>2. CASE x = visiting
    <3>1. ~pending[x] /\ pending'[x] = TRUE /\ InVisit(x) /\ ~InVisit(x)'
      BY <1>5, <2>2 DEF Dispatch, StatsDispatch, InVisit, CountersTypeOK
    <3>2. /\ AsNumber(pending[x]) = 0 /\ AsNumber(pending[x])' = 1
          /\ AsNumber(InVisit(x)) = 1 /\ AsNumber(InVisit(x))' = 0
      BY <3>1 DEF AsNumber
    <3> QED BY <1>1, <2>1, <3>2 DEF Accounted
  <2>3. CASE x # visiting
    <3>1. pending'[x] = pending[x] /\ InVisit(x)' = InVisit(x)
      BY <1>5, <2>3 DEF Dispatch, StatsDispatch, InVisit, CountersTypeOK
    <3> QED BY <2>1, <3>1 DEF Accounted, AsNumber
  <2> QED BY <2>2, <2>3
<1>6. ASSUME NEW s \in Sensors, ReadSucceeds(s) \/ ReadFails(s)
      PROVE  Accounted(x)' = Accounted(x)
  <2>1. missed'[x] = missed[x] /\ InVisit(x)' = InVisit(x)
    BY <1>6 DEF ReadSucceeds, ReadFails, mainScheduleVars, InVisit
  <2>2. CASE x = s
    <3>1. AsNumber(pending[x]) = 1 /\ AsNumber(pending[x])' = 0
      BY <1>6, <2>2 DEF ReadSucceeds, ReadFails, StatsSuccess, StatsFailure, AsNumber,
                        CountersTypeOK
    <3>2. successful'[x] + failed'[x] = successful[x] + failed[x] + 1
      BY <1>1, <1>6, <2>2 DEF ReadSucceeds, ReadFails, StatsSuccess, StatsFailure,
                              CountersTypeOK
    <3>3. successful'[x] \in Nat /\ failed'[x] \in Nat
      BY <1>1, <1>6, <2>2 DEF ReadSucceeds, ReadFails, StatsSuccess, StatsFailure,
                              CountersTypeOK
    <3>4. AsNumber(InVisit(x)) \in Nat /\ AsNumber(InVisit(x))' = AsNumber(InVisit(x))
      BY <2>1 DEF AsNumber
    <3> QED BY <1>1, <2>1, <3>1, <3>2, <3>3, <3>4 DEF Accounted
  <2>3. CASE x # s
    <3>1. /\ pending'[x] = pending[x]
          /\ successful'[x] = successful[x] /\ failed'[x] = failed[x]
      BY <1>6, <2>3 DEF ReadSucceeds, ReadFails, StatsSuccess, StatsFailure,
                        CountersTypeOK
    <3> QED BY <2>1, <3>1 DEF Accounted, AsNumber
  <2> QED BY <2>2, <2>3
<1> QED BY <1>2, <1>3, <1>4, <1>5, <1>6

\* Every step keeps the accounting.
LEMMA AccountingStep ==
  ASSUME CountersTypeOK, PeriodAccounting, [ScheduleNext]_scheduleVars
  PROVE  PeriodAccounting'
<1>1. CASE \E s \in Sensors : VisitDue(s)
  BY <1>1, VisitDueAccount
<1>2. CASE \/ LeaveLoop \/ BeginPass \/ BackedOff \/ MayRun \/ Dispatch
           \/ StillPending \/ BeginWait \/ WakeUp \/ Tick
           \/ \E s \in Sensors : VisitNotDue(s) \/ ReadSucceeds(s) \/ ReadFails(s)
  <2>1. UNCHANGED due
    BY <1>2 DEF LeaveLoop, BeginPass, BackedOff, MayRun, Dispatch, StillPending,
                BeginWait, WakeUp, Tick, VisitNotDue, ReadSucceeds, ReadFails,
                mainScheduleVars
  <2>2. \A x \in Sensors : Accounted(x)' = Accounted(x)
    BY <1>2, <2>1, MovesPeriod
  <2> QED BY <2>1, <2>2, SameAccount DEF PeriodAccounting
<1>3. CASE (\E s \in Sensors : ReadRaises(s)) \/ UNCHANGED scheduleVars
  BY <1>3 DEF ReadRaises, PeriodAccounting, Accounted, AsNumber, InVisit, scheduleVars,
              mainScheduleVars, timingVars, statsVars, sensorVars
<1> QED BY <1>1, <1>2, <1>3 DEF ScheduleNext, Visit, Settle

\* The initial state has the right types and nothing to account for.
LEMMA ScheduleStart == ScheduleInit => CountersTypeOK /\ PeriodAccounting
<1> SUFFICES ASSUME ScheduleInit PROVE CountersTypeOK /\ PeriodAccounting
  OBVIOUS
<1>1. CountersTypeOK
  BY DEF ScheduleInit, StatsInit, CountersTypeOK
<1>2. ASSUME NEW s \in Sensors PROVE due[s] = Accounted(s) * Interval[s]
  <2>1. Accounted(s) = 0 /\ due[s] = 0
    BY DEF ScheduleInit, StatsInit, Accounted, AsNumber, InVisit
  <2>2. Interval[s] \in Nat
    BY ScheduleAssumption DEF ScheduleAssumption
  <2> QED BY <2>1, <2>2
<1> QED BY <1>1, <1>2 DEF PeriodAccounting

\* However late the passes and however the workers race with main, every
\* period that a deadline moved over is in exactly one counter.
THEOREM PeriodsAccounted == ScheduleSpec => [](CountersTypeOK /\ PeriodAccounting)
<1>1. CountersTypeOK /\ PeriodAccounting /\ [ScheduleNext]_scheduleVars
        => (CountersTypeOK /\ PeriodAccounting)'
  BY CountersStep, AccountingStep
<1> QED BY <1>1, ScheduleStart, PTL DEF ScheduleSpec

-----------------------------------------------------------------------------
(* Deadlines. *)

\* The inductive form of DeadlinesAhead: now never passes the clock and no
\* deadline is more than an interval past now, visited or not.
DeadlineInv ==
  /\ now <= clock
  /\ \A s \in Sensors : due[s] <= now + Interval[s]
  /\ DeadlinesAhead

\* A visit that moves a deadline moves it into the next interval.
LEMMA VisitDueAhead ==
  ASSUME CountersTypeOK, DeadlineInv, NEW s \in Sensors, VisitDue(s)
  PROVE  DeadlineInv'
<1>1. /\ Interval[s] \in Nat \ {0} /\ now \in Nat /\ due[s] \in Nat /\ now >= due[s]
  BY ScheduleAssumption DEF ScheduleAssumption, CountersTypeOK, VisitDue
<1>2. /\ now < due[s] + Periods(s) * Interval[s]
      /\ due[s] + Periods(s) * Interval[s] <= now + Interval[s]
  BY <1>1, NextDeadline DEF Periods
<1>3. /\ UNCHANGED <<clock, now>> /\ spc = "pass"
      /\ due'[s] = due[s] + Periods(s) * Interval[s]
      /\ \A x \in Sensors \ {s} : due'[x] = due[x]
      /\ toVisit' = toVisit \ {s}
  BY DEF CountersTypeOK, VisitDue
<1>4. \A x \in Sensors : due'[x] <= now' + Interval[x]
  BY <1>2, <1>3 DEF DeadlineInv
<1>5. DeadlinesAhead'
  BY <1>2, <1>3 DEF DeadlineInv, DeadlinesAhead
<1> QED BY <1>3, <1>4, <1>5 DEF DeadlineInv

\* Every step keeps the deadlines ahead.
LEMMA DeadlineStep ==
  ASSUME CountersTypeOK, DeadlineInv, [ScheduleNext]_scheduleVars
  PROVE  DeadlineInv'
<1>1. CASE \E s \in Sensors : VisitDue(s)
  BY <1>1, VisitDueAhead
<1>2. CASE BeginPass
  <2>1. now' = clock /\ clock' = clock /\ due' = due /\ toVisit' = Sensors
    BY <1>2 DEF BeginPass
  <2>2. DeadlinesAhead'
    BY <2>1 DEF DeadlinesAhead
  <2>3. \A s \in Sensors : due[s] <= clock + Interval[s]
    BY ScheduleAssumption DEF ScheduleAssumption, CountersTypeOK, DeadlineInv
  <2> QED BY <2>1, <2>2, <2>3 DEF DeadlineInv, CountersTypeOK
<1>3. CASE \E s \in Sensors : VisitNotDue(s)
  BY <1>3 DEF VisitNotDue, DeadlineInv, DeadlinesAhead, CountersTypeOK
<1>4. CASE LeaveLoop \/ BackedOff \/ MayRun \/ Dispatch \/ StillPending \/ BeginWait \/ WakeUp
  BY <1>4 DEF LeaveLoop, BackedOff, MayRun, Dispatch, StillPending, BeginWait, WakeUp,
              DeadlineInv, DeadlinesAhead
<1>5. CASE Tick \/ (\E s \in Sensors : ReadSucceeds(s) \/ ReadRaises(s) \/ ReadFails(s))
            \/ UNCHANGED scheduleVars
  <2>1. UNCHANGED mainScheduleVars /\ clock' >= clock /\ clock' \in Nat
    BY <1>5 DEF Tick, ReadSucceeds, ReadRaises, ReadFails, scheduleVars, CountersTypeOK
  <2> QED BY <2>1 DEF mainScheduleVars, DeadlineInv, DeadlinesAhead, CountersTypeOK
<1> QED BY <1>1, <1>2, <1>3, <1>4, <1>5 DEF ScheduleNext, Visit, Settle

\* A sensor that a pass has visited is due again in the future, at most one
\* interval after the instant the pass works with.
THEOREM DeadlinesStayAhead == ScheduleSpec => []DeadlinesAhead
<1>1. ScheduleInit => DeadlineInv
  <2> SUFFICES ASSUME ScheduleInit PROVE DeadlineInv
    OBVIOUS
  <2>1. \A s \in Sensors : 0 <= 0 + Interval[s]
    BY ScheduleAssumption DEF ScheduleAssumption
  <2> QED BY <2>1 DEF ScheduleInit, DeadlineInv, DeadlinesAhead
<1>2. CountersTypeOK /\ DeadlineInv /\ [ScheduleNext]_scheduleVars => DeadlineInv'
  BY DeadlineStep
<1>3. ScheduleSpec => []CountersTypeOK
  BY PeriodsAccounted, PTL
<1>4. DeadlineInv => DeadlinesAhead
  BY DEF DeadlineInv
<1> QED BY <1>1, <1>2, <1>3, <1>4, PTL DEF ScheduleSpec

-----------------------------------------------------------------------------
(* Backoff. *)

\* A power of two is a natural number: it counts the subsets of an interval.
LEMMA PowerOfTwo ==
  ASSUME NEW n \in Nat
  PROVE  2^n \in Nat
<1>1. IsFiniteSet(1 .. n) /\ Cardinality(1 .. n) = n
  BY FS_Interval
<1>2. IsFiniteSet(SUBSET (1 .. n)) /\ Cardinality(SUBSET (1 .. n)) = 2^n
  BY <1>1, FS_SUBSET
<1> QED BY <1>2, FS_CardinalityType

\* A delay is a number of milliseconds that the cap bounds.
LEMMA DelayBounded ==
  ASSUME NEW n \in Nat
  PROVE  Delay(n + 1) \in 0 .. BackoffCap * BackoffUnit
<1> DEFINE m == Lesser(BackoffCap, 2^n)
<1>1. BackoffUnit \in Nat /\ BackoffCap \in Nat
  BY ScheduleAssumption DEF ScheduleAssumption
<1>2. m \in Nat /\ m <= BackoffCap
  BY <1>1, PowerOfTwo DEF Lesser
<1>3. Delay(n + 1) = m * BackoffUnit
  BY DEF Delay
<1> HIDE DEF m
<1>4. PICK d \in Nat : BackoffCap = m + d
  <2>1. BackoffCap - m \in Nat /\ BackoffCap = m + (BackoffCap - m)
    BY <1>1, <1>2
  <2> QED BY <2>1
<1>5. BackoffCap * BackoffUnit = m * BackoffUnit + d * BackoffUnit
  BY <1>1, <1>2, <1>4
<1>6. m * BackoffUnit \in Nat /\ d * BackoffUnit \in Nat
  BY <1>1, <1>2, <1>4
<1> QED BY <1>3, <1>5, <1>6

\* The wait of a pass ends at an instant that is not in the past.
LEMMA WaitType ==
  ASSUME ScheduleTypeOK, BeginWait
  PROVE  wakeAt' \in Nat
<1>1. PICK nearest \in {due[s] : s \in Sensors} :
        wakeAt' = IF nearest < clock THEN clock ELSE clock + Lesser(PollCap, nearest - clock)
  BY DEF BeginWait
<1>2. nearest \in Nat /\ clock \in Nat /\ PollCap \in Nat
  BY ScheduleAssumption DEF ScheduleAssumption, ScheduleTypeOK, CountersTypeOK
<1>3. CASE nearest < clock
  BY <1>1, <1>2, <1>3
<1>4. CASE nearest >= clock
  <2>1. nearest - clock \in Nat
    BY <1>2, <1>4
  <2>2. Lesser(PollCap, nearest - clock) \in Nat
    BY <1>2, <2>1 DEF Lesser
  <2> QED BY <1>1, <1>2, <1>4, <2>2
<1> QED BY <1>2, <1>3, <1>4

\* A failure opens a window of a bounded length at the instant it read.
LEMMA FailureOpensWindow ==
  ASSUME ScheduleTypeOK, NEW s \in Sensors, ReadFails(s)
  PROVE  /\ consecutive' \in [Sensors -> Nat] /\ backoffUntil' \in [Sensors -> Nat]
         /\ failedAt' \in [Sensors -> Nat \cup {None}]
         /\ failedAt[s] \in Nat
         /\ backoffUntil'[s] <= failedAt[s] + BackoffCap * BackoffUnit
<1> DEFINE n == consecutive[s]
<1>1. n \in Nat /\ failedAt[s] \in Nat
  BY DEF ScheduleTypeOK, ReadFails
<1>2. Delay(n + 1) \in 0 .. BackoffCap * BackoffUnit
  BY <1>1, DelayBounded
<1>3. BackoffCap * BackoffUnit \in Nat
  BY ScheduleAssumption DEF ScheduleAssumption
<1>4. /\ consecutive' = [consecutive EXCEPT ![s] = n + 1]
      /\ backoffUntil' = [backoffUntil EXCEPT ![s] = failedAt[s] + Delay(n + 1)]
      /\ failedAt' = [failedAt EXCEPT ![s] = None]
  BY DEF ReadFails
<1>5. backoffUntil'[s] = failedAt[s] + Delay(n + 1)
  BY <1>4 DEF ScheduleTypeOK
<1> HIDE DEF n
<1>6. failedAt[s] + Delay(n + 1) \in Nat
  BY <1>1, <1>2, <1>3
<1> QED BY <1>1, <1>2, <1>3, <1>4, <1>5, <1>6 DEF ScheduleTypeOK

\* Every step keeps the types.
LEMMA ScheduleTypeStep ==
  ASSUME ScheduleTypeOK, [ScheduleNext]_scheduleVars
  PROVE  ScheduleTypeOK'
<1>1. CountersTypeOK'
  BY CountersStep DEF ScheduleTypeOK
<1>2. CASE BeginWait
  BY <1>1, <1>2, WaitType DEF ScheduleTypeOK, BeginWait, timingVars
<1>3. ASSUME NEW s \in Sensors, ReadFails(s)
      PROVE  ScheduleTypeOK'
  BY <1>1, <1>3, FailureOpensWindow DEF ScheduleTypeOK, ReadFails, mainScheduleVars
<1>4. ASSUME NEW s \in Sensors, ReadSucceeds(s) \/ ReadRaises(s)
      PROVE  ScheduleTypeOK'
  BY <1>1, <1>4 DEF ScheduleTypeOK, CountersTypeOK, ReadSucceeds, ReadRaises, mainScheduleVars
<1>5. ASSUME UNCHANGED <<wakeAt, consecutive, backoffUntil, failedAt>>
      PROVE  ScheduleTypeOK'
  BY <1>1, <1>5 DEF ScheduleTypeOK
<1>6. CASE \/ Tick \/ LeaveLoop \/ BeginPass \/ Visit \/ BackedOff \/ MayRun \/ Dispatch
           \/ StillPending \/ WakeUp \/ UNCHANGED scheduleVars
  BY <1>5, <1>6
     DEF Tick, LeaveLoop, BeginPass, Visit, VisitDue, VisitNotDue, BackedOff, MayRun, Dispatch,
         StillPending, WakeUp, scheduleVars, mainScheduleVars, timingVars
<1> QED BY <1>2, <1>3, <1>4, <1>6 DEF ScheduleNext, Settle

\* Whatever main and a delayed worker hold of the clock is in the past.
ClocksRead ==
  /\ now <= clock
  /\ \A s \in Sensors : failedAt[s] # None => failedAt[s] <= clock

\* A backoff ends within the cap of the present.
BackoffBounded == \A s \in Sensors : backoffUntil[s] <= clock + BackoffCap * BackoffUnit

BackoffInv == ScheduleTypeOK /\ ClocksRead /\ BackoffBounded

LEMMA BackoffStep ==
  ASSUME BackoffInv, [ScheduleNext]_scheduleVars
  PROVE  BackoffInv'
<1>1. ScheduleTypeOK'
  BY ScheduleTypeStep DEF BackoffInv
<1>2. /\ clock \in Nat /\ now \in Nat /\ clock' \in Nat /\ BackoffCap * BackoffUnit \in Nat
      /\ backoffUntil \in [Sensors -> Nat]
      /\ failedAt \in [Sensors -> Nat \cup {None}]
  BY <1>1, ScheduleAssumption
     DEF ScheduleAssumption, BackoffInv, ScheduleTypeOK, CountersTypeOK
<1>3. ASSUME NEW s \in Sensors, ReadFails(s)
      PROVE  BackoffInv'
  <2>1. /\ UNCHANGED <<clock, now>>
        /\ failedAt' = [failedAt EXCEPT ![s] = None]
        /\ failedAt[s] # None
    BY <1>3 DEF ReadFails, mainScheduleVars
  <2>2. backoffUntil'[s] <= clock + BackoffCap * BackoffUnit
    <3>1. failedAt[s] \in Nat /\ backoffUntil'[s] <= failedAt[s] + BackoffCap * BackoffUnit
      BY <1>3, FailureOpensWindow DEF BackoffInv
    <3>2. failedAt[s] <= clock
      BY <2>1 DEF BackoffInv, ClocksRead
    <3>3. backoffUntil'[s] \in Nat
      BY <1>1 DEF ScheduleTypeOK
    <3> QED BY <1>2, <3>1, <3>2, <3>3
  <2>3. \A x \in Sensors \ {s} : backoffUntil'[x] = backoffUntil[x]
    BY <1>2, <1>3 DEF ReadFails
  <2>4. BackoffBounded'
    BY <2>1, <2>2, <2>3 DEF BackoffInv, BackoffBounded
  <2>5. ClocksRead'
    BY <1>2, <2>1 DEF BackoffInv, ClocksRead
  <2> QED BY <1>1, <2>4, <2>5 DEF BackoffInv
<1>4. ASSUME NEW s \in Sensors, ReadSucceeds(s)
      PROVE  BackoffInv'
  <2>1. /\ UNCHANGED <<clock, now, failedAt>>
        /\ backoffUntil' = [backoffUntil EXCEPT ![s] = 0]
    BY <1>4 DEF ReadSucceeds, mainScheduleVars
  <2>2. BackoffBounded'
    BY <1>2, <2>1 DEF BackoffInv, BackoffBounded
  <2> QED BY <1>1, <2>1, <2>2 DEF BackoffInv, ClocksRead
<1>5. ASSUME NEW s \in Sensors, ReadRaises(s)
      PROVE  BackoffInv'
  <2>1. /\ UNCHANGED <<clock, now, backoffUntil>>
        /\ failedAt' = [failedAt EXCEPT ![s] = clock]
    BY <1>5 DEF ReadRaises, mainScheduleVars
  <2>2. ClocksRead'
    BY <1>2, <2>1 DEF BackoffInv, ClocksRead
  <2> QED BY <1>1, <2>1, <2>2 DEF BackoffInv, BackoffBounded
<1>6. ASSUME UNCHANGED <<backoffUntil, failedAt>>, clock' >= clock, now' <= clock'
      PROVE  BackoffInv'
  <2>1. BackoffBounded'
    BY <1>2, <1>6 DEF BackoffInv, BackoffBounded
  <2>2. ClocksRead'
    BY <1>2, <1>6 DEF BackoffInv, ClocksRead
  <2> QED BY <1>1, <2>1, <2>2 DEF BackoffInv
<1>7. CASE Tick \/ UNCHANGED scheduleVars
  BY <1>2, <1>6, <1>7 DEF Tick, scheduleVars, mainScheduleVars, timingVars, BackoffInv, ClocksRead
<1>8. CASE BeginPass
  BY <1>2, <1>6, <1>8 DEF BeginPass, timingVars
<1>9. CASE \/ LeaveLoop \/ Visit \/ BackedOff \/ MayRun \/ Dispatch \/ StillPending
           \/ BeginWait \/ WakeUp
  <2>1. UNCHANGED <<clock, now, backoffUntil, failedAt>>
    BY <1>9 DEF LeaveLoop, Visit, VisitDue, VisitNotDue, BackedOff, MayRun, Dispatch, StillPending,
                BeginWait, WakeUp, timingVars
  <2> QED BY <1>2, <1>6, <2>1 DEF BackoffInv, ClocksRead
<1> QED BY <1>3, <1>4, <1>5, <1>7, <1>8, <1>9 DEF ScheduleNext, Settle

\* Whatever happens between a worker's reading of the clock and its call of
\* failure(), the window it opens ends within the cap of the present.
THEOREM BackoffCorrect == ScheduleSpec => []BackoffInv
<1>1. ScheduleInit => BackoffInv
  <2> SUFFICES ASSUME ScheduleInit PROVE BackoffInv
    OBVIOUS
  <2>1. CountersTypeOK
    BY ScheduleStart
  <2>2. BackoffCap * BackoffUnit \in Nat
    BY ScheduleAssumption DEF ScheduleAssumption
  <2> QED BY <2>1, <2>2 DEF ScheduleInit, BackoffInv, ScheduleTypeOK, ClocksRead, BackoffBounded
<1>2. BackoffInv /\ [ScheduleNext]_scheduleVars => BackoffInv'
  BY BackoffStep
<1> QED BY <1>1, <1>2, PTL DEF ScheduleSpec

\* Deadlines, counters, backoff windows and the end of a wait are natural
\* numbers of milliseconds, whatever power of two a run of failures reaches.
THEOREM ScheduleTypes == ScheduleSpec => []ScheduleTypeOK
BY BackoffCorrect, PTL DEF BackoffInv

\* A sensor at rest in its backoff window is left alone until the window is
\* over, whichever stale clock values main and the workers hold.
THEOREM BackoffIsRespected == ScheduleSpec => RestsUntilWindowEnds
<1>1. BackoffInv /\ [ScheduleNext]_scheduleVars
        => [\A s \in Sensors : Rests(s) =>
              \/ Rests(s)' /\ backoffUntil'[s] = backoffUntil[s]
              \/ clock' >= backoffUntil[s]]_scheduleVars
  <2> SUFFICES ASSUME BackoffInv, ScheduleNext, NEW s \in Sensors, Rests(s),
                      clock' < backoffUntil[s]
               PROVE  Rests(s)' /\ backoffUntil'[s] = backoffUntil[s]
    <3>1. clock' \in Nat /\ backoffUntil \in [Sensors -> Nat]
            => \A s \in Sensors : clock' < backoffUntil[s] \/ clock' >= backoffUntil[s]
      OBVIOUS
    <3>2. BackoffInv /\ [ScheduleNext]_scheduleVars
            => clock' \in Nat /\ backoffUntil \in [Sensors -> Nat]
      BY ScheduleTypeStep DEF BackoffInv, ScheduleTypeOK, CountersTypeOK
    <3> QED BY <3>1, <3>2
  <2>1. /\ clock \in Nat /\ now \in Nat /\ now <= clock
        /\ pending \in [Sensors -> BOOLEAN] /\ backoffUntil \in [Sensors -> Nat]
    BY DEF BackoffInv, ScheduleTypeOK, CountersTypeOK, ClocksRead
  <2>2. /\ ~pending[s] /\ clock < backoffUntil[s]
        /\ ~(spc = "dispatch" /\ visiting = s)
    BY DEF Rests
  <2>3. ASSUME NEW x \in Sensors, ReadSucceeds(x) \/ ReadRaises(x) \/ ReadFails(x)
        PROVE  Rests(s)' /\ backoffUntil'[s] = backoffUntil[s]
    <3>1. x # s
      BY <2>2, <2>3 DEF ReadSucceeds, ReadRaises, ReadFails
    <3>2. backoffUntil'[s] = backoffUntil[s] /\ pending'[s] = pending[s]
      BY <2>1, <2>3, <3>1
         DEF ReadSucceeds, ReadRaises, ReadFails, StatsSuccess, StatsFailure, statsVars, sensorVars
    <3>3. UNCHANGED <<clock, spc, visiting>>
      BY <2>3 DEF ReadSucceeds, ReadRaises, ReadFails, mainScheduleVars
    <3> QED BY <2>2, <3>2, <3>3 DEF Rests
  <2>4. CASE Dispatch
    <3>1. visiting # s
      BY <2>2, <2>4 DEF Dispatch
    <3>2. /\ pending'[s] = pending[s] /\ spc' = "pass"
          /\ UNCHANGED <<clock, backoffUntil>>
      BY <2>1, <2>4, <3>1 DEF Dispatch, StatsDispatch, timingVars
    <3> QED BY <2>2, <3>2 DEF Rests
  <2>5. CASE MayRun
    <3>1. visiting # s
      BY <2>1, <2>2, <2>5 DEF MayRun
    <3>2. UNCHANGED <<clock, visiting, pending, backoffUntil>>
      BY <2>5 DEF MayRun, timingVars, statsVars, sensorVars
    <3> QED BY <2>2, <3>1, <3>2 DEF Rests
  <2>6. CASE \/ Tick \/ LeaveLoop \/ BeginPass \/ Visit \/ BackedOff \/ StillPending
             \/ BeginWait \/ WakeUp
    <3>1. /\ UNCHANGED <<pending, backoffUntil>>
          /\ spc' # "dispatch" \/ UNCHANGED <<spc, visiting>>
      BY <2>6 DEF Tick, LeaveLoop, BeginPass, Visit, VisitDue, VisitNotDue, BackedOff,
                  StillPending, BeginWait, WakeUp, mainScheduleVars, timingVars, statsVars, sensorVars
    <3> QED BY <2>2, <3>1 DEF Rests
  <2> QED BY <2>3, <2>4, <2>5, <2>6 DEF ScheduleNext, Settle
<1> QED BY <1>1, BackoffCorrect, PTL DEF ScheduleSpec, RestsUntilWindowEnds

=============================================================================
