----------------------------- MODULE DatabaseWriter -----------------------------
(***************************************************************************)
(* DatabaseWriter of runtime/writer.py: the thread that moves samples from *)
(* the queue into a batch and the batch into the database.                 *)
(*                                                                         *)
(* dpc is where the thread stands in run():                                *)
(*   open     Database(...) is being opened (migration included)           *)
(*   get      results.get() with a timeout                                 *)
(*   drained  drained(): the read of _closed                               *)
(*   empty    drained(): the read of the queue                             *)
(*   check    the decision to flush                                        *)
(*   flush    _flush(): write_samples(), one transaction                   *)
(*   count    _flush(): stats.committed() and batch.clear()                *)
(*   close    Database.close(), the WAL checkpoint included                *)
(*   dead     the thread has ended                                         *)
(* Nothing puts None on the results queue, so the branch that takes it is  *)
(* unreachable and has no action.                                          *)
(***************************************************************************)
EXTENDS SampleQueue, StopEvent

CONSTANT BatchSize      \* collector.batch_size

ASSUME WriterAssumption == BatchSize \in Nat \ {0}

VARIABLES dpc,
          batch,        \* samples taken and not yet counted as committed
          leaving,      \* the thread has left its while loop
          stored,       \* the sample rows of the database, in insertion order
          writerError   \* writer.error is not None

writerVars == <<dpc, batch, leaving, stored, writerError>>

WriterPC == {"open", "get", "drained", "empty", "check", "flush", "count",
             "close", "dead"}

WriterTypeOK ==
  /\ dpc \in WriterPC
  /\ batch \in Seq(Sample)
  /\ leaving \in BOOLEAN
  /\ stored \in Seq(Sample)
  /\ writerError \in BOOLEAN

WriterInit ==
  /\ dpc = "open"
  /\ batch = <<>>
  /\ leaving = FALSE
  /\ stored = <<>>
  /\ writerError = FALSE

-----------------------------------------------------------------------------
OpenDatabase ==
  /\ dpc = "open"
  /\ dpc' = "get"
  /\ UNCHANGED <<batch, leaving, stored, writerError, queueVars, statsVars, stop>>

\* Opening, writing or closing raised: the error is kept, the stop event set.
\* A transaction that raised is rolled back.
WriterFails ==
  /\ \/ dpc \in {"open", "close"}
     \/ dpc = "flush" /\ batch # <<>>
  /\ writerError' = TRUE
  /\ SetStop
  /\ dpc' = "dead"
  /\ UNCHANGED <<batch, leaving, stored, queueVars, statsVars>>

WriterTake ==
  /\ dpc = "get"
  /\ Take
  /\ batch' = Append(batch, Head(queue))
  /\ dpc' = "check"
  /\ UNCHANGED <<leaving, stored, writerError, stop>>

WriterGetTimesOut ==
  /\ dpc = "get"
  /\ queue = <<>>
  /\ dpc' = "drained"
  /\ UNCHANGED <<batch, leaving, stored, writerError, queueVars, statsVars, stop>>

WriterReadsClosed ==
  /\ dpc = "drained"
  /\ dpc' = IF DrainedRead(TRUE) THEN "empty" ELSE "check"
  /\ UNCHANGED <<batch, leaving, stored, writerError, queueVars, statsVars, stop>>

WriterReadsEmpty ==
  /\ dpc = "empty"
  /\ leaving' = DrainedRead(FALSE)
  /\ dpc' = IF DrainedRead(FALSE) THEN "flush" ELSE "check"
  /\ UNCHANGED <<batch, stored, writerError, queueVars, statsVars, stop>>

\* Mutant: only a full batch is flushed.
CheckFlushWhenFull ==
  /\ dpc = "check"
  /\ dpc' = IF Len(batch) >= BatchSize THEN "flush" ELSE "get"
  /\ UNCHANGED <<batch, leaving, stored, writerError, queueVars, statsVars, stop>>

\* The flush deadline may or may not have passed.
CheckFlush ==
  /\ dpc = "check"
  /\ \/ batch # <<>> /\ dpc' = "flush"
     \/ Len(batch) < BatchSize /\ dpc' = "get"
  /\ UNCHANGED <<batch, leaving, stored, writerError, queueVars, statsVars, stop>>

\* _flush() of a batch that is not empty: the transaction commits.
WriteSamples ==
  /\ dpc = "flush" /\ batch # <<>>
  /\ stored' = stored \o batch
  /\ dpc' = "count"
  /\ UNCHANGED <<batch, leaving, writerError, queueVars, statsVars, stop>>

AfterFlush == IF leaving THEN "close" ELSE "get"

\* Mutant: batch.clear() is missing.
CountCommittedKeepingBatch ==
  /\ dpc = "count"
  /\ StatsCommitted(Len(batch))
  /\ dpc' = AfterFlush
  /\ UNCHANGED <<batch, leaving, stored, writerError, queueVars, stop>>

\* stats.committed(batch), then batch.clear().
CountCommitted ==
  /\ dpc = "count"
  /\ StatsCommitted(Len(batch))
  /\ batch' = <<>>
  /\ dpc' = AfterFlush
  /\ UNCHANGED <<leaving, stored, writerError, queueVars, stop>>

FlushNothing ==
  /\ dpc = "flush" /\ batch = <<>>
  /\ dpc' = AfterFlush
  /\ UNCHANGED <<batch, leaving, stored, writerError, queueVars, statsVars, stop>>

CloseDatabase ==
  /\ dpc = "close"
  /\ dpc' = "dead"
  /\ UNCHANGED <<batch, leaving, stored, writerError, queueVars, statsVars, stop>>

DBWriter ==
  \/ OpenDatabase \/ WriterFails \/ WriterTake \/ WriterGetTimesOut
  \/ WriterReadsClosed \/ WriterReadsEmpty \/ CheckFlush
  \/ WriteSamples \/ CountCommitted \/ FlushNothing \/ CloseDatabase

=============================================================================
