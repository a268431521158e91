------------------------------- MODULE Collector -------------------------------
(***************************************************************************)
(* Collector.run() of collector.py: the main thread that schedules reads,  *)
(* watches the other threads and carries out the shutdown, composed with   *)
(* the bus workers, the database writer and the status writer it starts.   *)
(*                                                                         *)
(* cpc is where main stands in run(), all threads being started:           *)
(*   loop     the while condition (and the wait at the end of a pass)      *)
(*   round    the for loop over the sensors                                *)
(*   finally  the finally block: stop the threads, start the deadline      *)
(*   join     worker.join() for each worker                                *)
(*   close    results.close()                                              *)
(*   joinDB, joinStatus   the other two joins                              *)
(*   alive    the list of threads still alive                              *)
(*   errors   the list of errors                                           *)
(*   record   stats.shutdown()                                             *)
(*   final    the last write of the status file                            *)
(*   exit     run() is about to return or raise                            *)
(*   done     the process has exited, and with it the daemon threads       *)
(* Time is abstracted: a sensor may or may not be due or backed off, and   *)
(* the shutdown deadline passes at any moment after the finally block      *)
(* began.                                                                  *)
(***************************************************************************)
EXTENDS BusWorker, DatabaseWriter, StatusWriter, FiniteSets

CONSTANT MaxReads       \* bound: reads scheduled per sensor

ASSUME CollectorAssumption ==
  /\ MaxReads \in Nat
  /\ Buses \cap {"database-writer", "status-writer"} = {}

\* A configuration file lists its sensors and buses.
ASSUME FiniteAssumption == IsFiniteSet(Sensors) /\ IsFiniteSet(Buses)

VARIABLES cpc,
          round,        \* sensors this pass has not visited
          raised,       \* an exception is in flight when finally begins
          todo,         \* threads the current phase has not handled
          deadline,     \* shutdown_deadline has passed
          aliveSeen,    \* threads found alive
          errorsSeen,   \* threads found with an error
          writeFailed,  \* the final status write raised
          exitCode,     \* None, 0 or 1
          overran       \* history: some thread was still alive when its join gave up

mainVars == <<cpc, round, raised, todo, deadline, aliveSeen, errorsSeen,
              writeFailed, exitCode, overran>>
vars == <<stop, statsVars, queueVars, workerVars, writerVars, statusVars, mainVars>>

Threads == Buses \cup {"database-writer", "status-writer"}

\* None is no record and no exit code.
ASSUME RecordAssumption ==
  /\ None \notin ShutdownRecord(Threads) /\ None \notin Payload(Threads)
  /\ None \notin {0, 1}

MainPC == {"loop", "round", "finally", "join", "close", "joinDB", "joinStatus",
           "alive", "errors", "record", "final", "exit", "done"}

MainTypeOK ==
  /\ cpc \in MainPC
  /\ round \in SUBSET Sensors
  /\ raised \in BOOLEAN
  /\ todo \in SUBSET Threads
  /\ deadline \in BOOLEAN
  /\ aliveSeen \in SUBSET Threads
  /\ errorsSeen \in SUBSET Threads
  /\ writeFailed \in BOOLEAN
  /\ exitCode \in {None, 0, 1}
  /\ overran \in BOOLEAN

\* Every variable holds a value of its kind; the results queue never exceeds
\* collector.queue_size.
TypeOK ==
  /\ stop \in BOOLEAN
  /\ StatsTypeOK(Threads)
  /\ QueueTypeOK
  /\ WorkerTypeOK
  /\ WriterTypeOK
  /\ StatusTypeOK(Threads)
  /\ MainTypeOK

MainInit ==
  /\ cpc = "loop"
  /\ round = {} /\ todo = {}
  /\ raised = FALSE /\ deadline = FALSE /\ writeFailed = FALSE
  /\ aliveSeen = {} /\ errorsSeen = {} /\ overran = FALSE
  /\ exitCode = None

Init ==
  /\ StopInit /\ StatsInit /\ QueueInit
  /\ WorkerInit /\ WriterInit /\ StatusInit /\ MainInit

-----------------------------------------------------------------------------
(* thread.is_alive() and thread.error, as main sees them. *)

IsAlive(t) ==
  \/ t \in Buses /\ wpc[t] # "dead"
  \/ t = "database-writer" /\ dpc # "dead"
  \/ t = "status-writer" /\ spc # "dead"

HasError(t) ==
  \/ t \in Buses /\ workerError[t]
  \/ t = "database-writer" /\ writerError
  \/ t = "status-writer" /\ statusError

-----------------------------------------------------------------------------
(* The collection loop. *)

\* A SIGTERM, a SIGINT or a call of stop() arrives.
RequestStop ==
  /\ ~stop
  /\ SetStop
  /\ UNCHANGED <<statsVars, queueVars, workerVars, writerVars, statusVars, mainVars>>

CheckStop ==
  /\ cpc = "loop"
  /\ IF stop
     THEN cpc' = "finally" /\ UNCHANGED round
     ELSE cpc' = "round" /\ round' = Sensors
  /\ UNCHANGED <<raised, todo, deadline, aliveSeen, errorsSeen, writeFailed,
                 exitCode, overran, stop, statsVars, queueVars, workerVars,
                 writerVars, statusVars>>

\* The sensors are visited in the order of the configuration, any fixed order.
Visit(s) ==
  /\ s \in round
  /\ s = CHOOSE first \in round : TRUE
  /\ round' = round \ {s}

\* The sensor is not due, backs off, or still has a read pending.
SkipSensor(s) ==
  /\ cpc = "round"
  /\ Visit(s)
  /\ UNCHANGED <<cpc, raised, todo, deadline, aliveSeen, errorsSeen, writeFailed,
                 exitCode, overran, stop, statsVars, queueVars, workerVars,
                 writerVars, statusVars>>

\* The sensor is due: dispatch() marks it pending and its task is put.
DispatchRead(s) ==
  /\ cpc = "round"
  /\ Visit(s)
  /\ successful[s] + failed[s] < MaxReads
  /\ StatsDispatch(s)
  /\ tasks' = [tasks EXCEPT ![BusOf[s]] = Append(@, s)]
  /\ UNCHANGED <<cpc, raised, todo, deadline, aliveSeen, errorsSeen, writeFailed,
                 exitCode, overran, stop, queueVars, wpc, current, attempt,
                 initialized, workerError, writerVars, statusVars>>

\* At the end of a pass: a thread that failed ends the loop with an exception.
\* The error of the status writer is not looked at; it has set the stop event.
CheckThreads ==
  /\ cpc = "round" /\ round = {}
  /\ raised' = (writerError \/ \E b \in Buses : workerError[b])
  /\ cpc' = IF raised' THEN "finally" ELSE "loop"
  /\ UNCHANGED <<round, todo, deadline, aliveSeen, errorsSeen, writeFailed,
                 exitCode, overran, stop, statsVars, queueVars, workerVars,
                 writerVars, statusVars>>

-----------------------------------------------------------------------------
(* The finally block. *)

\* stop_event.set(), None to every worker, and the deadline starts.
BeginShutdown ==
  /\ cpc = "finally"
  /\ SetStop
  /\ tasks' = [b \in Buses |-> Append(tasks[b], None)]
  /\ todo' = Buses
  /\ cpc' = "join"
  /\ UNCHANGED <<round, raised, deadline, aliveSeen, errorsSeen, writeFailed,
                 exitCode, overran, statsVars, queueVars, wpc, current, attempt,
                 initialized, workerError, writerVars, statusVars>>

\* The order of [*workers, writer, status_writer]: is t the next to handle?
IsNext(t) ==
  /\ t \in todo
  /\ t = IF todo \cap Buses # {} THEN CHOOSE b \in todo \cap Buses : TRUE
         ELSE IF "database-writer" \in todo THEN "database-writer"
         ELSE "status-writer"

Joining == cpc \in {"join", "close", "joinDB", "joinStatus"}

DeadlinePasses ==
  /\ Joining
  /\ ~deadline
  /\ deadline' = TRUE
  /\ UNCHANGED <<cpc, round, raised, todo, aliveSeen, errorsSeen, writeFailed,
                 exitCode, overran, stop, statsVars, queueVars, workerVars,
                 writerVars, statusVars>>

\* thread.join(_remaining(shutdown_deadline)) returns.
Join(t) ==
  /\ ~IsAlive(t) \/ deadline
  /\ overran' = (overran \/ IsAlive(t))

JoinWorker(b) ==
  /\ cpc = "join" /\ IsNext(b)
  /\ Join(b)
  /\ todo' = todo \ {b}
  /\ cpc' = IF todo' = {} THEN "close" ELSE "join"
  /\ UNCHANGED <<round, raised, deadline, aliveSeen, errorsSeen, writeFailed,
                 exitCode, stop, statsVars, queueVars, workerVars, writerVars,
                 statusVars>>

CloseAdmission ==
  /\ cpc = "close"
  /\ Close
  /\ cpc' = "joinDB"
  /\ UNCHANGED <<round, raised, todo, deadline, aliveSeen, errorsSeen, writeFailed,
                 exitCode, overran, stop, workerVars, writerVars, statusVars>>

JoinWriters ==
  /\ \/ cpc = "joinDB" /\ Join("database-writer")
        /\ cpc' = "joinStatus" /\ UNCHANGED todo
     \/ cpc = "joinStatus" /\ Join("status-writer")
        /\ cpc' = "alive" /\ todo' = Threads
  /\ UNCHANGED <<round, raised, deadline, aliveSeen, errorsSeen, writeFailed,
                 exitCode, stop, statsVars, queueVars, workerVars, writerVars,
                 statusVars>>

\* alive = [thread.name for thread in threads if thread.is_alive()]
AssessAlive(t) ==
  /\ cpc = "alive" /\ IsNext(t)
  /\ aliveSeen' = IF IsAlive(t) THEN aliveSeen \cup {t} ELSE aliveSeen
  /\ IF todo = {t} THEN cpc' = "errors" /\ todo' = Threads
                   ELSE UNCHANGED cpc /\ todo' = todo \ {t}
  /\ UNCHANGED <<round, raised, deadline, errorsSeen, writeFailed, exitCode, overran,
                 stop, statsVars, queueVars, workerVars, writerVars, statusVars>>

\* Mutant: only the workers are asked for an error.
AssessErrorsOfWorkers(t) ==
  /\ cpc = "errors" /\ IsNext(t)
  /\ errorsSeen' = IF t \in Buses /\ HasError(t) THEN errorsSeen \cup {t} ELSE errorsSeen
  /\ todo' = todo \ {t}
  /\ cpc' = IF todo' = {} THEN "record" ELSE "errors"
  /\ UNCHANGED <<round, raised, deadline, aliveSeen, writeFailed, exitCode, overran,
                 stop, statsVars, queueVars, workerVars, writerVars, statusVars>>

\* errors = [... for thread in threads if thread.error is not None]
AssessErrors(t) ==
  /\ cpc = "errors" /\ IsNext(t)
  /\ errorsSeen' = IF HasError(t) THEN errorsSeen \cup {t} ELSE errorsSeen
  /\ todo' = todo \ {t}
  /\ cpc' = IF todo' = {} THEN "record" ELSE "errors"
  /\ UNCHANGED <<round, raised, deadline, aliveSeen, writeFailed, exitCode, overran,
                 stop, statsVars, queueVars, workerVars, writerVars, statusVars>>

RecordShutdown ==
  /\ cpc = "record"
  /\ StatsShutdown(aliveSeen, errorsSeen)
  /\ cpc' = "final"
  /\ UNCHANGED <<round, raised, todo, deadline, aliveSeen, errorsSeen, writeFailed,
                 exitCode, overran, stop, queueVars, workerVars, writerVars,
                 statusVars>>

\* Mutant: the last write happens even beside a running status writer.
FinalWriteAlways ==
  /\ cpc = "final"
  /\ \/ file' = Snapshot /\ UNCHANGED writeFailed
     \/ writeFailed' = TRUE /\ UNCHANGED file
  /\ cpc' = "exit"
  /\ UNCHANGED <<round, raised, todo, deadline, aliveSeen, errorsSeen, exitCode,
                 overran, stop, statsVars, queueVars, workerVars, writerVars,
                 writes, spc, payload, statusError>>

\* The last write, by main itself, unless the status writer is still running.  It
\* has no time limit: the fairness of main leaves it out (InLastWrite).
FinalWrite ==
  /\ cpc = "final"
  /\ \/ IsAlive("status-writer") /\ UNCHANGED <<file, writeFailed>>
     \/ ~IsAlive("status-writer") /\ file' = Snapshot /\ UNCHANGED writeFailed
     \/ ~IsAlive("status-writer") /\ writeFailed' = TRUE /\ UNCHANGED file
  /\ cpc' = "exit"
  /\ UNCHANGED <<round, raised, todo, deadline, aliveSeen, errorsSeen, exitCode,
                 overran, stop, statsVars, queueVars, workerVars, writerVars,
                 writes, spc, payload, statusError>>

\* Mutant: a failed last write is not an error.
ExitIgnoringWrite ==
  /\ cpc = "exit"
  /\ exitCode' = IF aliveSeen # {} \/ errorsSeen # {} \/ raised THEN 1 ELSE 0
  /\ cpc' = "done"
  /\ UNCHANGED <<round, raised, todo, deadline, aliveSeen, errorsSeen, writeFailed,
                 overran, stop, statsVars, queueVars, workerVars, writerVars,
                 statusVars>>

\* run() raises when there is an error to report or one is already in flight;
\* main() of commands.py turns that into exit code 1.
Exit ==
  /\ cpc = "exit"
  /\ exitCode' = IF aliveSeen # {} \/ errorsSeen # {} \/ writeFailed \/ raised
                 THEN 1 ELSE 0
  /\ cpc' = "done"
  /\ UNCHANGED <<round, raised, todo, deadline, aliveSeen, errorsSeen, writeFailed,
                 overran, stop, statsVars, queueVars, workerVars, writerVars,
                 statusVars>>

-----------------------------------------------------------------------------
Main ==
  \/ CheckStop \/ CheckThreads \/ BeginShutdown \/ CloseAdmission \/ JoinWriters
  \/ RecordShutdown \/ FinalWrite \/ Exit
  \/ \E s \in Sensors : SkipSensor(s) \/ DispatchRead(s)
  \/ \E b \in Buses : JoinWorker(b)
  \/ \E t \in Threads : AssessAlive(t) \/ AssessErrors(t)

\* The daemon threads run until the process exits.
Running == cpc # "done"

WorkerStep(b) ==
  Running /\ Worker(b) /\ UNCHANGED <<writerVars, statusVars, mainVars>>
WriterStep ==
  Running /\ DBWriter /\ UNCHANGED <<workerVars, statusVars, mainVars>>
StatusStep ==
  Running /\ Status /\ UNCHANGED <<queueVars, workerVars, writerVars, mainVars>>

Exited == cpc = "done" /\ UNCHANGED vars

Next ==
  \/ Main \/ DeadlinePasses
  \/ Running /\ RequestStop
  \/ \E b \in Buses : WorkerStep(b)
  \/ WriterStep
  \/ StatusStep
  \/ Exited

Spec == Init /\ [][Next]_vars

=============================================================================
