------------------------------ MODULE StatusWriter ------------------------------
(***************************************************************************)
(* StatusWriter of runtime/status.py: the thread that publishes a snapshot *)
(* of the statistics at each interval until the stop event is set.         *)
(* write() is two steps, the snapshot and the os.replace() that publishes  *)
(* it, because the counters move in between.  The size of the results      *)
(* queue that the payload also carries is left out.                        *)
(***************************************************************************)
EXTENDS RuntimeStats, StopEvent

CONSTANT MaxStatusWrites        \* bound: periodic writes of the status file

ASSUME StatusAssumption == MaxStatusWrites \in Nat

VARIABLES writes,       \* periodic writes begun so far
          spc,          \* "wait", "snapshot", "publish" or "dead"
          payload,      \* the snapshot write() is about to publish
          file,         \* the content of status.json, None before the first
          statusError   \* status_writer.error is not None

statusVars == <<writes, spc, payload, file, statusError>>

Payload(threads) ==
  [accepted : Nat, committed : Nat, shutdown : ShutdownRecord(threads) \cup {None},
   successful : [Sensors -> Nat], failed : [Sensors -> Nat], dropped : [Sensors -> Nat]]

StatusTypeOK(threads) ==
  /\ writes \in 0 .. MaxStatusWrites
  /\ spc \in {"wait", "snapshot", "publish", "dead"}
  /\ payload \in Payload(threads) \cup {None}
  /\ file \in Payload(threads) \cup {None}
  /\ statusError \in BOOLEAN

StatusInit ==
  /\ writes = 0
  /\ spc = "wait"
  /\ payload = None /\ file = None
  /\ statusError = FALSE

-----------------------------------------------------------------------------
\* stop_event.wait(interval) returned True: the thread ends.
StatusStops ==
  /\ spc = "wait"
  /\ stop
  /\ spc' = "dead"
  /\ UNCHANGED <<writes, payload, file, statusError, statsVars, stop>>

\* The interval passed without a stop: write() begins.
StatusWakes ==
  /\ spc = "wait"
  /\ ~stop
  /\ writes < MaxStatusWrites
  /\ writes' = writes + 1
  /\ spc' = "snapshot"
  /\ UNCHANGED <<payload, file, statusError, statsVars, stop>>

\* write() takes its snapshot.
StatusSnapshot ==
  /\ spc = "snapshot"
  /\ payload' = Snapshot
  /\ spc' = "publish"
  /\ UNCHANGED <<writes, file, statusError, statsVars, stop>>

\* write() replaces the file.
StatusPublish ==
  /\ spc = "publish"
  /\ file' = payload
  /\ payload' = None
  /\ spc' = "wait"
  /\ UNCHANGED <<writes, statusError, statsVars, stop>>

\* Mutant: the failing status writer leaves the stop event alone.
StatusFailsQuietly ==
  /\ spc \in {"snapshot", "publish"}
  /\ statusError' = TRUE
  /\ payload' = None
  /\ spc' = "dead"
  /\ UNCHANGED <<writes, file, stop, statsVars>>

\* write() raised: the error is kept and the stop event set.
StatusFails ==
  /\ spc \in {"snapshot", "publish"}
  /\ statusError' = TRUE
  /\ SetStop
  /\ payload' = None
  /\ spc' = "dead"
  /\ UNCHANGED <<writes, file, statsVars>>

Status ==
  \/ StatusStops \/ StatusWakes \/ StatusSnapshot
  \/ StatusPublish \/ StatusFails

=============================================================================
