------------------------------- MODULE BusWorker -------------------------------
(***************************************************************************)
(* BusWorker of runtime/worker.py: one thread per bus that serves the read *)
(* tasks of the sensors on that bus in order.                              *)
(*                                                                         *)
(* wpc[b] is where the thread of bus b stands in run():                    *)
(*   open     transport.open()                                             *)
(*   loop     the while condition                                          *)
(*   get      tasks.get(timeout=0.1)                                       *)
(*   init     driver.initialize() when the driver is not initialized       *)
(*   read     one attempt of the retry loop                                *)
(*   submit   results.submit(), up to the put                              *)
(*   admitted results.submit(), the put is done and not counted            *)
(*   success  stats.success()                                              *)
(*   failure  the except branch: forget initialization, stats.failure()    *)
(*   cleanup  the finally block: driver.close(), transport.close()         *)
(*   dead     the thread has ended                                         *)
(* What the hardware answers is a choice of the environment; a call that   *)
(* blocks is a thread that takes no step.                                  *)
(***************************************************************************)
EXTENDS SampleQueue, StopEvent

CONSTANTS BusOf,        \* the bus each sensor is on
          Retries       \* retries of the bus

ASSUME WorkerAssumption ==
  /\ BusOf \in [Sensors -> Buses]
  /\ Retries \in Nat

VARIABLES tasks,        \* per bus: tasks put and not yet taken
          wpc,
          current,      \* per bus: the sensor of the task in hand
          attempt,      \* per bus: attempts already made for that task
          initialized,  \* the union of the workers' "initialized" sets
          workerError   \* per bus: worker.error is not None

workerVars == <<tasks, wpc, current, attempt, initialized, workerError>>

WorkerPC == {"open", "loop", "get", "init", "read", "submit", "admitted",
             "success", "failure", "cleanup", "dead"}

\* A task is in hand from the get() on until its read is settled.
Busy == {"init", "read", "submit", "admitted", "success", "failure"}

\* A task is the sensor to read, or None to end the worker.
Task == Sensors \cup {None}

WorkerTypeOK ==
  /\ tasks \in [Buses -> Seq(Task)]
  /\ wpc \in [Buses -> WorkerPC]
  /\ current \in [Buses -> Sensors \cup {None}]
  /\ \A b \in Buses : wpc[b] \in Busy => current[b] \in Sensors
  /\ attempt \in [Buses -> 0 .. Retries]
  /\ initialized \in SUBSET Sensors
  /\ workerError \in [Buses -> BOOLEAN]

WorkerInit ==
  /\ tasks = [b \in Buses |-> <<>>]
  /\ wpc = [b \in Buses |-> "open"]
  /\ current = [b \in Buses |-> None]
  /\ attempt = [b \in Buses |-> 0]
  /\ initialized = {}
  /\ workerError = [b \in Buses |-> FALSE]

At(b, label) == wpc[b] = label
Goto(b, label) == wpc' = [wpc EXCEPT ![b] = label]

\* The next sample of the sensor in hand: success() counts it afterwards.
NextSample(b) == <<current[b], successful[current[b]] + 1>>

-----------------------------------------------------------------------------
OpenTransport(b) ==
  /\ At(b, "open")
  /\ \/ Goto(b, "loop") /\ UNCHANGED workerError
     \/ Goto(b, "cleanup") /\ workerError' = [workerError EXCEPT ![b] = TRUE]
  /\ UNCHANGED <<tasks, current, attempt, initialized, queueVars, statsVars, stop>>

\* Mutant: the loop ends at the stop event, tasks or not.
ContinueUntilStop(b) == ~stop

\* while not stop_event.is_set() or not tasks.empty()
Continue(b) == ~stop \/ tasks[b] # <<>>

CheckLoop(b) ==
  /\ At(b, "loop")
  /\ Goto(b, IF Continue(b) THEN "get" ELSE "cleanup")
  /\ UNCHANGED <<tasks, current, attempt, initialized, workerError,
                 queueVars, statsVars, stop>>

GetTask(b) ==
  /\ At(b, "get")
  /\ tasks[b] # <<>>
  /\ tasks' = [tasks EXCEPT ![b] = Tail(@)]
  /\ current' = [current EXCEPT ![b] = Head(tasks[b])]
  /\ attempt' = [attempt EXCEPT ![b] = 0]
  /\ Goto(b, IF Head(tasks[b]) = None THEN "cleanup" ELSE "init")
  /\ UNCHANGED <<initialized, workerError, queueVars, statsVars, stop>>

GetTimesOut(b) ==
  /\ At(b, "get")
  /\ tasks[b] = <<>>
  /\ Goto(b, "loop")
  /\ UNCHANGED <<tasks, current, attempt, initialized, workerError,
                 queueVars, statsVars, stop>>

Initialize(b) ==
  /\ At(b, "init")
  /\ \/ /\ Goto(b, "read")
        /\ initialized' = initialized \cup {current[b]}
     \/ /\ current[b] \notin initialized
        /\ Goto(b, "failure")
        /\ UNCHANGED initialized
  /\ UNCHANGED <<tasks, current, attempt, workerError, queueVars, statsVars, stop>>

\* driver.read() returned: finite values for exactly the declared fields, or
\* values that run() rejects without another attempt.
ReadReturns(b) ==
  /\ At(b, "read")
  /\ Goto(b, "submit") \/ Goto(b, "failure")
  /\ UNCHANGED <<tasks, current, attempt, initialized, workerError,
                 queueVars, statsVars, stop>>

\* driver.read() raised: try again unless stopping or out of attempts.
ReadRaises(b) ==
  /\ At(b, "read")
  /\ \/ /\ attempt[b] < Retries /\ ~stop
        /\ attempt' = [attempt EXCEPT ![b] = @ + 1]
        /\ UNCHANGED wpc
     \/ /\ attempt[b] = Retries \/ stop
        /\ Goto(b, "failure")
        /\ UNCHANGED attempt
  /\ UNCHANGED <<tasks, current, initialized, workerError, queueVars, statsVars, stop>>

Submit(b) ==
  /\ At(b, "submit")
  /\ \/ Admit(b, NextSample(b)) /\ Goto(b, "admitted")
     \/ Refuse(NextSample(b)) /\ Goto(b, "success")
  /\ UNCHANGED <<tasks, current, attempt, initialized, workerError, stop>>

CountSample(b) ==
  /\ At(b, "admitted")
  /\ CountAdmitted(b)
  /\ Goto(b, "success")
  /\ UNCHANGED <<tasks, current, attempt, initialized, workerError, stop>>

RecordSuccess(b) ==
  /\ At(b, "success")
  /\ StatsSuccess(current[b])
  /\ current' = [current EXCEPT ![b] = None]
  /\ Goto(b, "loop")
  /\ UNCHANGED <<tasks, attempt, initialized, workerError, queueVars, stop>>

RecordFailure(b) ==
  /\ At(b, "failure")
  /\ initialized' = initialized \ {current[b]}
  /\ StatsFailure(current[b])
  /\ current' = [current EXCEPT ![b] = None]
  /\ Goto(b, "loop")
  /\ UNCHANGED <<tasks, attempt, workerError, queueVars, stop>>

\* driver.close() of every driver, then transport.close(): each may raise, which
\* is remembered and does not keep the others from being closed.
Cleanup(b) ==
  /\ At(b, "cleanup")
  /\ \/ workerError' = [workerError EXCEPT ![b] = TRUE] /\ UNCHANGED wpc
     \/ Goto(b, "dead") /\ UNCHANGED workerError
  /\ UNCHANGED <<tasks, current, attempt, initialized, queueVars, statsVars, stop>>

Worker(b) ==
  \/ OpenTransport(b) \/ CheckLoop(b) \/ GetTask(b) \/ GetTimesOut(b)
  \/ Initialize(b) \/ ReadReturns(b) \/ ReadRaises(b)
  \/ Submit(b) \/ CountSample(b)
  \/ RecordSuccess(b) \/ RecordFailure(b) \/ Cleanup(b)

=============================================================================
