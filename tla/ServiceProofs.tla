----------------------------- MODULE ServiceProofs -----------------------------
(***************************************************************************)
(* The shutdown fits into TimeoutStopSec, for either number of five-second *)
(* periods that the configuration allows and any number of orders and      *)
(* faults.                                                                 *)
(*                                                                         *)
(* Two clocks run side by side once the process was asked to stop: timer,  *)
(* until the service manager kills it, and patience, until the joins give  *)
(* up.  timer starts above the whole timeout, patience never starts anew,  *)
(* and the clock does not pass the moment when patience is used up without *)
(* main leaving its joins: timer stays ahead.                              *)
(***************************************************************************)
EXTENDS Service, TLAPS

ClocksInv ==
  /\ patience \in 0 .. ShutdownTimeout
  /\ timer \in Nat
  /\ asked => unit = "stopping"
  /\ asked /\ ~hung => timer > patience

Commands == Validated \cup {"stop", "disable"}

\* SIGKILL has found no process that was not hanging, and what systemctl is called
\* with is an order.
ServiceInv == ClocksInv /\ ~killed /\ command \in Commands \cup {"none"}

\* The variables the invariant of the clocks reads.
clocks == <<patience, timer, asked, hung, unit>>

\* A start puts both clocks back (StartUnit).
LEMMA StartKeepsClocks ==
  ASSUME ClocksInv, NEW order, StartUnit(order)
  PROVE  ClocksInv'
  <1>1. patience' = 0 /\ timer' = 0 /\ asked' = FALSE /\ hung' = FALSE
    BY DEF StartUnit
  <1>2. patience' \in 0 .. ShutdownTimeout /\ timer' \in Nat
    BY <1>1, ServiceAssumption
  <1> QED BY <1>1, <1>2 DEF ClocksInv

\* So does every state of the unit without a shutdown in progress (UnitIs).
LEMMA StateKeepsClocks ==
  ASSUME ClocksInv, NEW state, UnitIs(state), timer' = 0 \/ timer' = RestartSec
  PROVE  ClocksInv'
  <1>1. patience' = 0 /\ asked' = FALSE /\ hung' = FALSE
    BY DEF UnitIs
  <1>2. patience' \in 0 .. ShutdownTimeout /\ timer' \in Nat
    BY <1>1, ServiceAssumption DEF RestartSec
  <1> QED BY <1>1, <1>2 DEF ClocksInv

\* The end of the process leads to one or the other (ProcessEnds).
LEMMA EndKeepsClocks ==
  ASSUME ClocksInv, NEW code, ProcessEnds(code)
  PROVE  ClocksInv'
  <1>1. CASE asked /\ next = "start"
    BY <1>1, StartKeepsClocks DEF ProcessEnds
  <1>2. CASE asked /\ next # "start"
    BY <1>2, StateKeepsClocks DEF ProcessEnds
  <1>3. CASE ~asked /\ code # 0
    BY <1>3, StateKeepsClocks DEF ProcessEnds
  <1>4. CASE ~asked /\ code = 0
    BY <1>4, StateKeepsClocks DEF ProcessEnds
  <1> QED BY <1>1, <1>2, <1>3, <1>4

\* SIGTERM starts the clock of the service manager above what main has left, and
\* a second one starts neither clock anew (Terminate).
LEMMA TerminateKeepsClocks ==
  ASSUME ClocksInv, NEW then, Terminate(then)
  PROVE  ClocksInv'
  <1>1. CASE unit = "loading" /\ then = "start"
    BY <1>1, StartKeepsClocks DEF Terminate
  <1>2. CASE unit = "loading" /\ then # "start"
    BY <1>2, StateKeepsClocks DEF Terminate
  <1>3. CASE unit # "loading"
    <2>1. unit' = "stopping" /\ asked' = TRUE
      BY <1>3 DEF Terminate
    <2>2. timer' = IF asked THEN timer ELSE 3
      BY <1>3 DEF Terminate, TimeoutStopSec
    <2>3. patience' = IF unit \in Serving THEN ShutdownTimeout ELSE patience
      BY <1>3 DEF Terminate
    <2>4. CASE asked
      <3>1. unit = "stopping" /\ unit \notin Serving
        BY <2>4 DEF ClocksInv, Serving
      <3>2. hung' = hung
        BY <1>3, <2>4 DEF Terminate
      <3> QED BY <2>1, <2>2, <2>3, <2>4, <3>1, <3>2 DEF ClocksInv
    <2>5. CASE ~asked
      <3>1. patience' \in 0 .. ShutdownTimeout
        BY <2>3, ServiceAssumption DEF ClocksInv
      <3>2. timer' = 3 /\ timer' > patience'
        BY <2>2, <2>5, <3>1, ServiceAssumption
      <3> QED BY <2>1, <3>1, <3>2 DEF ClocksInv
    <2> QED BY <2>4, <2>5 DEF ClocksInv
  <1> QED BY <1>1, <1>2, <1>3

\* What changes none of the clocks keeps the invariant.
LEMMA UnchangedClocks ==
  ASSUME ClocksInv, UNCHANGED clocks
  PROVE  ClocksInv'
  BY DEF ClocksInv, clocks

\* Nor does any order, given with a command or by hand, disturb them (Order).
LEMMA OrderKeepsClocks ==
  ASSUME ClocksInv, NEW verb, Order(verb),
         verb \in Commands
  PROVE  ClocksInv'
  <1>1. CASE Start
    <2>1. CASE unit \in {"off", "failed"}
      BY <1>1, <2>1, StartKeepsClocks DEF Start
    <2>2. CASE unit \notin {"off", "failed"}
      <3> UNCHANGED clocks
        BY <1>1, <2>2 DEF Start, clocks
      <3> QED BY UnchangedClocks
    <2> QED BY <2>1, <2>2
  <1>2. CASE Stop
    <2>1. CASE unit \in Running
      BY <1>2, <2>1, TerminateKeepsClocks DEF Stop, Running, Serving
    <2>2. CASE unit = "waiting"
      BY <1>2, <2>2, StateKeepsClocks DEF Stop, Running, Serving
    <2>3. CASE unit \notin Running /\ unit # "waiting"
      <3> UNCHANGED clocks
        BY <1>2, <2>3 DEF Stop, clocks
      <3> QED BY UnchangedClocks
    <2> QED BY <2>1, <2>2, <2>3
  <1>3. CASE Restart
    <2>1. CASE unit \in Running
      BY <1>3, <2>1, TerminateKeepsClocks DEF Restart
    <2>2. CASE unit \notin Running
      BY <1>3, <2>2, StartKeepsClocks DEF Restart
    <2> QED BY <2>1, <2>2
  <1> QED BY <1>1, <1>2, <1>3 DEF Order, Commands, Validated

\* The shutdown that main begins by itself starts its deadline only (ShutDown).
LEMMA ShutDownKeepsClocks ==
  ASSUME ClocksInv, unit \in Serving, ShutDown
  PROVE  ClocksInv'
  <1>1. ~asked
    BY DEF ClocksInv, Serving
  <1>2. patience' = ShutdownTimeout /\ UNCHANGED <<timer, asked, hung>>
    BY DEF ShutDown
  <1> QED BY <1>1, <1>2, ServiceAssumption DEF ClocksInv

\* While main waits for its joins both clocks go down together, and neither passes
\* the end of patience (Tick).
LEMMA TickKeepsClocks ==
  ASSUME ClocksInv, Tick
  PROVE  ClocksInv'
  <1>1. /\ timer' = IF timer > 0 THEN timer - 1 ELSE 0
        /\ patience' = IF patience > 0 THEN patience - 1 ELSE 0
        /\ UNCHANGED <<asked, hung, unit>>
    BY DEF Tick
  <1>2. timer' \in Nat /\ patience' \in 0 .. ShutdownTimeout
    BY <1>1, ServiceAssumption DEF ClocksInv
  <1>3. ASSUME asked, ~hung
        PROVE  timer' > patience'
    <2>1. patience > 0 /\ timer > patience
      BY <1>3, ServiceAssumption DEF Tick, ClocksInv
    <2> QED BY <1>1, <2>1, ServiceAssumption DEF ClocksInv
  <1> QED BY <1>1, <1>2, <1>3 DEF ClocksInv

\* SIGKILL comes when timer has run out, and then main hangs (Kill).
LEMMA KillFindsItHung ==
  ASSUME ServiceInv, Kill
  PROVE  ClocksInv' /\ ~killed'
  <1>1. ClocksInv'
    BY EndKeepsClocks DEF ServiceInv, Kill
  <1>2. ~(timer > patience)
    BY ServiceAssumption DEF ServiceInv, ClocksInv, Kill
  <1>3. hung
    BY <1>2 DEF ServiceInv, ClocksInv, Kill
  <1>4. ~killed'
    BY <1>3 DEF ServiceInv, Kill
  <1> QED BY <1>1, <1>4

\* Every step keeps the invariant.
LEMMA StepKeepsServiceInv ==
  ASSUME ServiceInv, [Next]_vars
  PROVE  ServiceInv'
  <1> USE DEF ServiceInv, Outside
  <1>1. ASSUME NEW verb \in Commands, NEW path, Give(verb, path)
        PROVE  ServiceInv'
    BY <1>1, UnchangedClocks DEF Give, Unordered, clocks
  <1>2. ASSUME NEW verb \in {"start", "stop"}, ByHand(verb)
        PROVE  ServiceInv'
    <2>1. Order(verb) /\ UNCHANGED <<command, killed>>
      BY <1>2 DEF ByHand
    <2>2. ClocksInv'
      BY <2>1, OrderKeepsClocks DEF Commands, Validated
    <2> QED BY <2>1, <2>2
  <1>3. CASE Systemctl
    <2>1. command \in Commands /\ command' = "none" /\ UNCHANGED killed
      BY <1>3 DEF Systemctl
    <2>2. CASE installedAs = SERVICE_NAME
      <3>1. PICK verb \in Commands : verb = command
        BY <2>1
      <3>2. Order(verb)
        BY <1>3, <2>2, <3>1 DEF Systemctl
      <3>3. ClocksInv'
        BY <3>2, OrderKeepsClocks
      <3> QED BY <2>1, <3>3
    <2>3. CASE installedAs # SERVICE_NAME
      BY <1>3, <2>1, <2>3, UnchangedClocks DEF Systemctl, Unordered, clocks
    <2> QED BY <2>2, <2>3
  <1>4. CASE Load
    BY <1>4, StateKeepsClocks DEF Load
  <1>5. CASE Refuse
    <2>1. PICK code : ProcessEnds(code)
      BY <1>5 DEF Refuse
    <2> QED BY <1>5, <2>1, EndKeepsClocks DEF Refuse
  <1>6. CASE OpenTransports
    BY <1>6, StateKeepsClocks DEF OpenTransports
  <1>7. CASE OpenFails \/ ThreadFails
    <2>1. unit \in Serving /\ ShutDown
      BY <1>7 DEF OpenFails, ThreadFails, Serving
    <2>2. ClocksInv'
      BY <2>1, ShutDownKeepsClocks
    <2> QED BY <2>1, <2>2 DEF ShutDown
  <1>8. CASE JoinReturns
    BY <1>8, UnchangedClocks DEF JoinReturns, clocks
  <1>9. CASE Exit
    <2>1. PICK code : ProcessEnds(code)
      BY <1>9 DEF Exit
    <2> QED BY <1>9, <2>1, EndKeepsClocks DEF Exit
  <1>10. CASE DatabaseFails
    <2>1. PICK code : ProcessEnds(code)
      BY <1>10 DEF DatabaseFails
    <2> QED BY <1>10, <2>1, EndKeepsClocks DEF DatabaseFails
  <1>11. CASE RestartDue
    BY <1>11, StartKeepsClocks DEF RestartDue
  <1>12. CASE Kill
    BY <1>12, KillFindsItHung DEF Kill
  <1>13. CASE Tick
    BY <1>13, TickKeepsClocks DEF Tick
  <1>14. CASE Disturb
    BY <1>14, UnchangedClocks DEF Disturb, Unordered, clocks
  <1>15. CASE Reboot
    <2>1. patience' = 0 /\ timer' = 0 /\ asked' = FALSE /\ command' = "none" /\ UNCHANGED killed
      BY <1>15 DEF Reboot
    <2>2. patience' \in 0 .. ShutdownTimeout /\ timer' \in Nat
      BY <2>1, ServiceAssumption
    <2> QED BY <2>1, <2>2 DEF ClocksInv
  <1>16. CASE LastWriteHangs
    BY <1>16 DEF LastWriteHangs, ClocksInv
  <1>17. CASE UNCHANGED vars
    BY <1>17, UnchangedClocks DEF vars, clocks
  <1> QED
    BY <1>1, <1>2, <1>3, <1>4, <1>5, <1>6, <1>7, <1>8, <1>9, <1>10, <1>11, <1>12, <1>13,
       <1>14, <1>15, <1>16, <1>17 DEF Next, Commands

\* A collector that was asked to stop is killed only if main hangs: the joins share
\* one deadline (Collector.run()) and TimeoutStopSec of the unit file is above it.
THEOREM ShutdownFits == Spec => []KilledOnlyWhenHung
  <1>1. Init => ServiceInv
    BY ServiceAssumption DEF Init, ServiceInv, ClocksInv
  <1>2. ServiceInv /\ [Next]_vars => ServiceInv'
    BY StepKeepsServiceInv
  <1>3. ServiceInv => KilledOnlyWhenHung
    BY DEF ServiceInv, KilledOnlyWhenHung
  <1> QED BY <1>1, <1>2, <1>3, PTL DEF Spec

-----------------------------------------------------------------------------
\* Starts that nobody ordered are RestartSec apart: each one after the first is
\* paid for with a tick of the clock, which is on the account before the start
\* is due.
PaidFor ==
  /\ age >= starts - 1
  /\ unit = "waiting" /\ timer = 0 => age >= starts
  /\ unit = "failed" => age >= StartLimitBurst

LimitInv ==
  /\ starts \in 0 .. StartLimitBurst
  /\ age \in 0 .. StartLimitIntervalSec + 1
  /\ ~ordered => PaidFor

\* A start that is due or ordered is counted, or refused (StartUnit).
LEMMA StartIsCounted ==
  ASSUME LimitInv, NEW order \in BOOLEAN, StartUnit(order),
         ~order => unit = "waiting" /\ timer = 0
  PROVE  LimitInv'
  <1> DEFINE fresh == starts = 0 \/ age > StartLimitIntervalSec
  <1>1. /\ starts' = IF fresh THEN 1 ELSE IF starts < StartLimitBurst THEN starts + 1 ELSE starts
        /\ age' = IF fresh THEN 0 ELSE age
        /\ unit' = IF fresh \/ starts < StartLimitBurst THEN "loading" ELSE "failed"
    BY DEF StartUnit
  <1>2. ordered' = ((~fresh /\ ordered) \/ order)
    BY DEF StartUnit
  <1>3. starts \in 0 .. 5 /\ age \in 0 .. 13
    BY DEF LimitInv, StartLimitBurst, StartLimitIntervalSec
  <1>4. starts' \in 0 .. 5 /\ age' \in 0 .. 13
    BY <1>1, <1>3 DEF StartLimitBurst
  <1>5. CASE fresh
    <2>1. starts' = 1 /\ age' = 0 /\ unit' = "loading"
      BY <1>1, <1>5
    <2>2. PaidFor'
      BY <2>1 DEF PaidFor
    <2> QED BY <1>4, <2>2 DEF LimitInv, StartLimitBurst, StartLimitIntervalSec
  <1>6. CASE ~fresh
    <2>1. ASSUME ~ordered'
          PROVE  PaidFor'
      <3>1. ~ordered /\ ~order
        BY <1>2, <1>6, <2>1
      <3>2. age >= starts
        BY <3>1 DEF LimitInv, PaidFor
      <3> QED BY <1>1, <1>3, <1>6, <3>2 DEF PaidFor, StartLimitBurst
    <2> QED BY <1>4, <2>1 DEF LimitInv, StartLimitBurst, StartLimitIntervalSec
  <1> QED BY <1>5, <1>6

\* A unit that is stopped, served or given a whole RestartSec owes nothing more.
LEMMA NothingIsCounted ==
  ASSUME LimitInv, UNCHANGED <<starts, age, ordered>>,
         \/ unit' = unit /\ timer' = timer
         \/ unit' \notin {"waiting", "failed"}
         \/ unit' = "waiting" /\ timer' = RestartSec
  PROVE  LimitInv'
  <1>1. PaidFor => PaidFor'
    BY DEF PaidFor, RestartSec
  <1> QED BY <1>1 DEF LimitInv

\* The ends of a process are starts that were ordered, or are not counted.
LEMMA EndIsCounted ==
  ASSUME LimitInv, NEW code, ProcessEnds(code)
  PROVE  LimitInv'
  <1>1. CASE asked /\ next = "start"
    BY <1>1, StartIsCounted DEF ProcessEnds
  <1>2. CASE ~(asked /\ next = "start")
    BY <1>2, NothingIsCounted DEF ProcessEnds, UnitIs
  <1> QED BY <1>1, <1>2

LEMMA TerminateIsCounted ==
  ASSUME LimitInv, NEW then, Terminate(then)
  PROVE  LimitInv'
  <1>1. CASE unit = "loading" /\ then = "start"
    BY <1>1, StartIsCounted DEF Terminate
  <1>2. CASE unit = "loading" /\ then # "start"
    BY <1>2, NothingIsCounted DEF Terminate, UnitIs
  <1>3. CASE unit # "loading"
    BY <1>3, NothingIsCounted DEF Terminate
  <1> QED BY <1>1, <1>2, <1>3

\* What somebody orders counts as an order.
LEMMA OrderIsCounted ==
  ASSUME LimitInv, NEW verb \in Commands, Order(verb)
  PROVE  LimitInv'
  <1>1. CASE Start
    <2>1. CASE unit \in {"off", "failed"}
      BY <1>1, <2>1, StartIsCounted DEF Start
    <2>2. CASE unit \notin {"off", "failed"}
      BY <1>1, <2>2, NothingIsCounted DEF Start
    <2> QED BY <2>1, <2>2
  <1>2. CASE Stop
    <2>1. CASE unit \in Running
      BY <1>2, <2>1, TerminateIsCounted DEF Stop, Running, Serving
    <2>2. CASE unit \notin Running
      BY <1>2, <2>2, NothingIsCounted DEF Stop, UnitIs
    <2> QED BY <2>1, <2>2
  <1>3. CASE Restart
    <2>1. CASE unit \in Running
      BY <1>3, <2>1, TerminateIsCounted DEF Restart
    <2>2. CASE unit \notin Running
      BY <1>3, <2>2, StartIsCounted DEF Restart
    <2> QED BY <2>1, <2>2
  <1> QED BY <1>1, <1>2, <1>3 DEF Order, Commands, Validated

\* A tick pays for the start that it makes due.
LEMMA TickPays ==
  ASSUME LimitInv, Tick
  PROVE  LimitInv'
  <1>1. /\ ~(unit = "waiting" /\ timer = 0)
        /\ age' = IF age > StartLimitIntervalSec THEN age ELSE age + 1
        /\ UNCHANGED <<unit, starts, ordered>>
    BY DEF Tick
  <1>2. starts \in 0 .. 5 /\ age \in 0 .. 13
    BY DEF LimitInv, StartLimitBurst, StartLimitIntervalSec
  <1>3. age' \in 0 .. 13
    BY <1>1, <1>2 DEF StartLimitIntervalSec
  <1>4. ASSUME PaidFor
        PROVE  PaidFor'
    <2>1. age' >= starts' /\ age' >= age
      BY <1>1, <1>2, <1>4 DEF PaidFor, StartLimitIntervalSec
    <2> QED BY <1>1, <1>2, <1>3, <1>4, <2>1 DEF PaidFor, StartLimitBurst
  <1> QED BY <1>1, <1>2, <1>3, <1>4 DEF LimitInv, StartLimitBurst, StartLimitIntervalSec

\* Every step keeps the account.
LEMMA LimitStep ==
  ASSUME ServiceInv, LimitInv, [Next]_vars
  PROVE  LimitInv'
  <1>1. ASSUME UNCHANGED <<unit, timer, starts, age, ordered>>
        PROVE  LimitInv'
    BY <1>1, NothingIsCounted
  <1>2. ASSUME NEW verb, NEW path, Give(verb, path)
        PROVE  LimitInv'
    BY <1>1, <1>2 DEF Give, Unordered
  <1>3. ASSUME NEW verb \in {"start", "stop"}, ByHand(verb)
        PROVE  LimitInv'
    BY <1>3, OrderIsCounted DEF ByHand, Commands, Validated
  <1>4. CASE Systemctl
    <2>1. CASE installedAs = SERVICE_NAME
      <3>1. command \in Commands /\ Order(command)
        BY <1>4, <2>1 DEF Systemctl, ServiceInv
      <3> QED BY <3>1, OrderIsCounted
    <2>2. CASE installedAs # SERVICE_NAME
      BY <1>1, <1>4, <2>2 DEF Systemctl, Unordered
    <2> QED BY <2>1, <2>2
  <1>5. CASE Load \/ OpenTransports
    BY <1>5, NothingIsCounted DEF Load, OpenTransports, UnitIs
  <1>6. CASE Refuse \/ Exit \/ DatabaseFails \/ Kill
    <2>1. PICK code : ProcessEnds(code)
      BY <1>6 DEF Refuse, Exit, DatabaseFails, Kill
    <2> QED BY <2>1, EndIsCounted
  <1>7. CASE OpenFails \/ ThreadFails
    BY <1>7, NothingIsCounted DEF OpenFails, ThreadFails, ShutDown
  <1>8. CASE JoinReturns \/ LastWriteHangs \/ Disturb \/ UNCHANGED vars
    BY <1>1, <1>8 DEF JoinReturns, LastWriteHangs, Disturb, Unordered, vars
  <1>9. CASE RestartDue
    BY <1>9, StartIsCounted DEF RestartDue
  <1>10. CASE Tick
    BY <1>10, TickPays
  <1>11. CASE Reboot
    <2>1. unit' # "waiting" /\ unit' # "failed"
      BY <1>11 DEF Reboot
    <2>2. (starts' = 0 \/ starts' = 1) /\ age' = 0
      BY <1>11 DEF Reboot
    <2>3. age' >= starts' - 1
      <3>1. CASE starts' = 0
        BY <2>2, <3>1
      <3>2. CASE starts' = 1
        BY <2>2, <3>2
      <3> QED BY <2>2, <3>1, <3>2
    <2>4. PaidFor'
      BY <2>1, <2>3 DEF PaidFor
    <2> QED BY <2>2, <2>4 DEF LimitInv, StartLimitBurst, StartLimitIntervalSec
  <1> QED
    BY <1>2, <1>3, <1>4, <1>5, <1>6, <1>7, <1>8, <1>9, <1>10, <1>11 DEF Next

\* A unit that has given up without an order to start has been failing for more
\* than four times RestartSec (StartLimitBurst of the unit file).
THEOREM OutagesAreSurvived == Spec => []SurvivesAShortOutage
  <1>1. Init => ServiceInv /\ LimitInv
    BY ServiceAssumption
       DEF Init, ServiceInv, ClocksInv, LimitInv, PaidFor, StartLimitBurst, StartLimitIntervalSec
  <1>2. ServiceInv /\ LimitInv /\ [Next]_vars => ServiceInv' /\ LimitInv'
    BY StepKeepsServiceInv, LimitStep
  <1>3. LimitInv => SurvivesAShortOutage
    BY DEF LimitInv, PaidFor, SurvivesAShortOutage, StartLimitBurst, StartLimitIntervalSec
  <1> QED BY <1>1, <1>2, <1>3, PTL DEF Spec

=============================================================================
