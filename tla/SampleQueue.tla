----------------------------- MODULE SampleQueue -----------------------------
(***************************************************************************)
(* SampleQueue of runtime/queue.py: the bounded queue between the bus      *)
(* workers and the database writer, with an admission lock that makes      *)
(* "check closed, put, count" indivisible with respect to close().         *)
(*                                                                         *)
(* submit() is two steps, because the writer may take a sample before its  *)
(* producer has counted it: the put (which keeps the admission lock) and   *)
(* the count (which releases it).  A refused sample never leaves the lock  *)
(* held in a state another thread can tell apart, so it is one step.       *)
(* drained() reads two flags one after the other and is two steps of the   *)
(* writer.                                                                 *)
(***************************************************************************)
EXTENDS RuntimeStats, Sequences

CONSTANTS Buses,        \* identifiers of the buses in use, one worker each
          QueueSize     \* collector.queue_size

ASSUME QueueAssumption ==
  /\ QueueSize \in Nat \ {0}
  /\ None \notin Buses

VARIABLES queue,        \* the samples put and not yet taken
          admission,    \* the worker holding _admission_lock inside submit()
          closed        \* _closed.is_set()

queueVars == <<queue, admission, closed>>

\* The n-th sample read from sensor s.
Sample == Sensors \X (Nat \ {0})

QueueTypeOK ==
  /\ queue \in Seq(Sample)
  /\ Len(queue) <= QueueSize
  /\ admission \in Buses \cup {None}
  /\ closed \in BOOLEAN

QueueInit == queue = <<>> /\ admission = None /\ closed = FALSE

-----------------------------------------------------------------------------
\* Mutant: one sample too many.
FullTooLate == Len(queue) > QueueSize

Full == Len(queue) >= QueueSize

\* Mutant: submit() without the test of _closed.
AdmitAfterClose(b, sample) ==
  /\ admission = None
  /\ ~Full
  /\ queue' = Append(queue, sample)
  /\ admission' = b
  /\ UNCHANGED <<closed, statsVars>>

\* submit(), the sample is put; the worker of bus b still holds the lock.
Admit(b, sample) ==
  /\ admission = None
  /\ ~closed /\ ~Full
  /\ queue' = Append(queue, sample)
  /\ admission' = b
  /\ UNCHANGED <<closed, statsVars>>

\* submit(), else branch: accepted() and the release of the lock.
CountAdmitted(b) ==
  /\ admission = b
  /\ StatsAccepted
  /\ admission' = None
  /\ UNCHANGED <<queue, closed>>

\* Mutant: a sample refused by a full queue is not counted.
RefuseSilently(sample) ==
  /\ admission = None
  /\ closed \/ Full
  /\ IF closed THEN StatsDropped(sample[1]) ELSE UNCHANGED statsVars
  /\ UNCHANGED queueVars

\* submit() after close() or on queue.Full.
Refuse(sample) ==
  /\ admission = None
  /\ closed \/ Full
  /\ StatsDropped(sample[1])
  /\ UNCHANGED queueVars

\* Mutant: close() without the lock.
CloseUnlocked ==
  /\ closed' = TRUE
  /\ UNCHANGED <<queue, admission, statsVars>>

\* close(): waits for the lock.
Close ==
  /\ admission = None
  /\ closed' = TRUE
  /\ UNCHANGED <<queue, admission, statsVars>>

\* get() of a queue that has a sample.
Take ==
  /\ queue # <<>>
  /\ queue' = Tail(queue)
  /\ UNCHANGED <<admission, closed, statsVars>>

\* Mutant: drained() reads the queue first.
DrainedReadSwapped(first) == IF first THEN queue = <<>> ELSE closed

\* The two reads of drained(), in the order Python evaluates them.
DrainedRead(first) == IF first THEN closed ELSE queue = <<>>

=============================================================================
