----------------------------- MODULE RuntimeStats -----------------------------
(***************************************************************************)
(* RuntimeStats of runtime/status.py: the counters every thread updates    *)
(* under one lock, so that each operation is one atomic step.              *)
(*                                                                         *)
(* The fields that only the schedule depends on (missed_deadlines,         *)
(* consecutive_failures, backoff_until_ms) and the timestamps are left to  *)
(* the module of the scheduler.  last_error is kept as a flag.             *)
(***************************************************************************)
EXTENDS Integers

CONSTANTS Sensors,      \* identifiers of the enabled sensors
          None          \* Python's None: no thread, no task, no record

ASSUME StatsAssumption == None \notin Sensors

VARIABLES accepted,     \* samples admitted to the results queue
          committed,    \* samples whose transaction is known to be committed
          pending,      \* per sensor: a read is scheduled and not settled
          successful,   \* per sensor: successful_reads
          failed,       \* per sensor: failed_reads
          dropped,      \* per sensor: dropped_samples
          lastError,    \* per sensor: last_error is not None
          shutdown      \* the record of shutdown(), or None

sensorVars == <<pending, successful, failed, dropped, lastError>>
statsVars == <<accepted, committed, sensorVars, shutdown>>

ShutdownRecord(threads) ==
  [complete : BOOLEAN, alive : SUBSET threads, errors : SUBSET threads,
   pending : SUBSET Sensors, uncommitted : Int]

StatsTypeOK(threads) ==
  /\ accepted \in Nat /\ committed \in Nat
  /\ pending \in [Sensors -> BOOLEAN]
  /\ successful \in [Sensors -> Nat]
  /\ failed \in [Sensors -> Nat]
  /\ dropped \in [Sensors -> Nat]
  /\ lastError \in [Sensors -> BOOLEAN]
  /\ shutdown \in ShutdownRecord(threads) \cup {None}

StatsInit ==
  /\ accepted = 0 /\ committed = 0
  /\ pending = [s \in Sensors |-> FALSE]
  /\ successful = [s \in Sensors |-> 0]
  /\ failed = [s \in Sensors |-> 0]
  /\ dropped = [s \in Sensors |-> 0]
  /\ lastError = [s \in Sensors |-> FALSE]
  /\ shutdown = None

-----------------------------------------------------------------------------
\* accepted(): one more sample in the results queue.
StatsAccepted ==
  /\ accepted' = accepted + 1
  /\ UNCHANGED <<committed, sensorVars, shutdown>>

\* Mutant: committed() counts transactions.
StatsCommittedOnce(n) ==
  /\ committed' = committed + 1
  /\ UNCHANGED <<accepted, sensorVars, shutdown>>

\* committed(samples): the transaction that holds n samples is durable.
StatsCommitted(n) ==
  /\ committed' = committed + n
  /\ UNCHANGED <<accepted, sensorVars, shutdown>>

\* Mutant: dispatch() without the test of pending.
StatsDispatchAgain(s) ==
  /\ pending' = [pending EXCEPT ![s] = TRUE]
  /\ UNCHANGED <<accepted, committed, successful, failed, dropped, lastError,
                 shutdown>>

\* dispatch(s) when it returns True; when a read is pending it only counts a
\* missed deadline, which this module leaves out.
StatsDispatch(s) ==
  /\ ~pending[s]
  /\ pending' = [pending EXCEPT ![s] = TRUE]
  /\ UNCHANGED <<accepted, committed, successful, failed, dropped, lastError,
                 shutdown>>

StatsSuccess(s) ==
  /\ pending' = [pending EXCEPT ![s] = FALSE]
  /\ successful' = [successful EXCEPT ![s] = @ + 1]
  /\ lastError' = [lastError EXCEPT ![s] = FALSE]
  /\ UNCHANGED <<accepted, committed, failed, dropped, shutdown>>

StatsFailure(s) ==
  /\ pending' = [pending EXCEPT ![s] = FALSE]
  /\ failed' = [failed EXCEPT ![s] = @ + 1]
  /\ lastError' = [lastError EXCEPT ![s] = TRUE]
  /\ UNCHANGED <<accepted, committed, successful, dropped, shutdown>>

StatsDropped(s) ==
  /\ dropped' = [dropped EXCEPT ![s] = @ + 1]
  /\ UNCHANGED <<accepted, committed, pending, successful, failed, lastError,
                 shutdown>>

\* shutdown(alive, errors): the assessment main records once at the end.  The
\* number of pending tasks is kept as the set of the sensors they belong to.
StatsShutdown(alive, errors) ==
  /\ shutdown' = [complete    |-> alive = {} /\ errors = {},
                  alive       |-> alive,
                  errors      |-> errors,
                  pending     |-> {s \in Sensors : pending[s]},
                  uncommitted |-> accepted - committed]
  /\ UNCHANGED <<accepted, committed, sensorVars>>

\* snapshot(): what the status file is written from.
Snapshot ==
  [accepted |-> accepted, committed |-> committed, shutdown |-> shutdown,
   successful |-> successful, failed |-> failed, dropped |-> dropped]

=============================================================================
