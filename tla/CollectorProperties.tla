-------------------------- MODULE CollectorProperties --------------------------
(***************************************************************************)
(* What makes the collector correct: no sample is lost, duplicated or      *)
(* reordered between the drivers and the database, the shutdown record     *)
(* and the exit code tell the truth, and a stop request ends the process.  *)
(***************************************************************************)
EXTENDS Collector, Functions

-----------------------------------------------------------------------------
(* Accounting. *)

AwaitingCount == IF admission = None THEN 0 ELSE 1

\* Every sample counted as accepted, or put and about to be counted, is in the
\* queue, in the writer's batch or counted as committed.
AcceptedIsHeld == accepted + AwaitingCount = committed + Len(batch) + Len(queue)

\* The database is ahead of the committed counter by the batch whose
\* transaction has just ended, and by nothing else.
CommittedIsStored ==
  Len(stored) = committed + (IF dpc = "count" THEN Len(batch) ELSE 0)

\* No sample is lost or duplicated between submit() and the database, whatever
\* the writer takes before its producer has counted it (SampleQueue.submit(),
\* DatabaseWriter._flush()).
SampleConservation == AcceptedIsHeld /\ CommittedIsStored

\* Every successful read is either accepted or counted as dropped, never both
\* and never neither (BusWorker.run(), SampleQueue.submit()).
ReadsAccounted ==
  SumFunction(successful) + Cardinality({b \in Buses : At(b, "success")})
    = accepted + SumFunction(dropped)

\* A sensor is pending exactly while its task is in the queue of its bus or in
\* the hands of that bus's worker, and never twice: nothing reads a sensor
\* again before its last read is settled, and no settled read leaves it pending
\* (RuntimeStats.dispatch(), BusWorker.run()).
TaskOwnership ==
  \A s \in Sensors :
    LET b == BusOf[s]
        queued == {i \in DOMAIN tasks[b] : tasks[b][i] = s}
    IN Cardinality(queued) + (IF current[b] = s THEN 1 ELSE 0)
         = IF pending[s] THEN 1 ELSE 0

\* A worker that leaves its loop after a stop leaves no task behind in its
\* queue: the sentinel is the last task, and the loop goes on while there are
\* tasks (BusWorker.run(), the finally block of Collector.run()).
LeavesNoTaskBehind ==
  [][\A b \in Buses :
       wpc[b] \in {"loop", "get"} /\ wpc'[b] = "cleanup" => tasks'[b] = <<>>]_vars

\* After close() nothing is admitted: "samples arriving after admission closes
\* are discarded" (README), and the queue only shrinks.
NoLateAdmission ==
  [][closed => /\ accepted' = accepted
               /\ queue' = queue \/ (queue # <<>> /\ queue' = Tail(queue))]_vars

-----------------------------------------------------------------------------
(* The shutdown record, the status file and the exit code. *)

\* A shutdown recorded as complete has stored every accepted sample, and left
\* none in the queue, in the batch or on its way in.
CompleteMeansStored ==
  shutdown # None /\ shutdown.complete =>
    /\ Len(stored) = accepted
    /\ queue = <<>> /\ batch = <<>> /\ admission = None

\* From the assessment on, the accepted samples that are not in the database
\* are at most the uncommitted samples the shutdown record shows: a thread
\* that overran the deadline may still store some, and can lose no others.
UncommittedBoundsLoss ==
  shutdown # None =>
    accepted - Len(stored) \in 0 .. shutdown.uncommitted

\* Exit code 0 means that every thread ended without an error, the errors
\* that came after the list of live threads was taken included.
SuccessMeansClean ==
  exitCode = 0 => \A t \in Threads : ~IsAlive(t) /\ ~HasError(t)

\* The exit code and the status file agree: the process succeeds exactly when
\* the file it leaves shows a complete shutdown.
FileAgreesWithExitCode ==
  cpc = "done" =>
    (exitCode = 0 <=> file # None /\ file.shutdown # None /\ file.shutdown.complete)

\* The status file never goes back in time: no published count, of the samples
\* or of the reads of a sensor, decreases and no published shutdown record is
\* replaced, although two threads write the file (StatusWriter.write(), the
\* is_alive() test before the final write).
StatusNeverRegresses ==
  [][file # None =>
       /\ file' # None
       /\ file.accepted <= file'.accepted
       /\ file.committed <= file'.committed
       /\ \A s \in Sensors :
            /\ file.successful[s] <= file'.successful[s]
            /\ file.failed[s] <= file'.failed[s]
            /\ file.dropped[s] <= file'.dropped[s]
       /\ file.shutdown # None => file'.shutdown = file.shutdown]_vars

\* "If a thread is still running at the deadline ... collection exits with an
\* error instead of reporting a successful shutdown" (README).
DeadlineMissIsReported == shutdown # None /\ overran => ~shutdown.complete

-----------------------------------------------------------------------------
(* Why it holds: the invariant that the proofs carry through the shutdown. *)

\* Admission is closed from results.close() on, and no submit() is under way.
AdmissionShut ==
  /\ closed <=> cpc \in {"joinDB", "joinStatus", "alive", "errors", "record",
                         "final", "exit", "done"}
  /\ closed => admission = None

\* The writer leaves its loop with an empty queue that stays empty, ends with an
\* empty batch or an error, and an error ends it.
WriterDrains ==
  /\ dpc = "empty" => closed
  /\ leaving => closed /\ queue = <<>> /\ dpc \in {"flush", "count", "close", "dead"}
  /\ dpc = "close" => leaving /\ batch = <<>>
  /\ dpc = "dead" => writerError \/ (leaving /\ batch = <<>>)
  /\ writerError => dpc = "dead"

\* What main has found out about the writer: a writer it does not hold for
\* alive is dead, and then the error it looks for is the final one.
WriterAssessed ==
  LET w == "database-writer" IN
  /\ cpc = "alive" => w \in todo \/ w \in aliveSeen \/ dpc = "dead"
  /\ cpc \in {"errors", "record", "final", "exit", "done"} =>
       w \in aliveSeen \/ dpc = "dead"
  /\ cpc = "errors" => w \in todo \/ w \in aliveSeen \cup errorsSeen \/ ~writerError
  /\ cpc \in {"record", "final", "exit", "done"} =>
       w \in aliveSeen \cup errorsSeen \/ ~writerError

\* The record is made once, from the two lists, and the samples it reports as
\* uncommitted are those not committed then.
RecordIsFrozen ==
  /\ shutdown # None <=> cpc \in {"final", "exit", "done"}
  /\ shutdown # None =>
       /\ shutdown.complete <=> aliveSeen = {} /\ errorsSeen = {}
       /\ shutdown.uncommitted >= accepted - committed

ShutdownInv == AdmissionShut /\ WriterDrains /\ WriterAssessed /\ RecordIsFrozen

-----------------------------------------------------------------------------
(* The collector implements SampleDelivery. *)

\* The samples on their way, the oldest first.
Pipeline == stored \o (IF dpc = "count" THEN <<>> ELSE batch) \o queue

Delivery ==
  INSTANCE SampleDelivery
    WITH Samples <- Sample, NotYet <- None,
         admitted <- Pipeline, durable <- stored, open <- ~closed,
         report <- IF shutdown = None THEN None ELSE shutdown.complete

\* The database receives every admitted sample at most once, in the order of
\* admission and batch by batch, and a complete shutdown leaves none out.
ImplementsDelivery == Delivery!Spec

-----------------------------------------------------------------------------
(* Progress. *)

\* Main itself writes the status file, a file-system call without a time limit.
InLastWrite == cpc = "final" /\ ~IsAlive("status-writer")

\* The main thread runs, but for its last write, its timed joins time out, and
\* a worker inside submit() releases the lock.  The hardware, the database and
\* the status file may block the threads that use them for ever.
MainFairness ==
  /\ WF_vars(Main /\ ~InLastWrite)
  /\ WF_vars(DeadlinePasses)
  /\ \A b \in Buses : WF_vars(WorkerStep(b) /\ At(b, "admitted"))

LiveSpec == Spec /\ MainFairness

\* No call blocks for ever, and a flush deadline passes sooner or later.
ThreadFairness ==
  /\ WF_vars(Main)
  /\ \A b \in Buses : WF_vars(WorkerStep(b))
  /\ WF_vars(WriterStep) /\ SF_vars(WriterStep /\ CheckFlush /\ dpc' = "flush")
  /\ WF_vars(StatusStep)

\* A stop request, or a failure of any thread, ends the process, even when
\* every other thread hangs.  The exception is main's own last write: it has no
\* time limit, and when the status writer slept at the stop and has ended, a
\* file system that hangs then keeps the process there for good
\* (Collector.run(), StatusWriter.write()).
StopEndsProcess ==
  stop \/ (\E t \in Threads : HasError(t)) ~> cpc = "done" \/ []InLastWrite

\* When no call hangs, every accepted sample is stored, unless the writer
\* reported an error or the shutdown was recorded as incomplete.
AcceptedIsSettled ==
  ThreadFairness =>
    \A n \in 1 .. MaxReads :
      accepted >= n ~>
        \/ Len(stored) >= n
        \/ writerError
        \/ shutdown # None /\ ~shutdown.complete

=============================================================================
