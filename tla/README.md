# A verification development of sensorctl

sensorctl reads sensors on I2C, SPI, UART and mock buses at fixed intervals and
stores the samples in a SQLite database.  The program is small, but it is made of
one main thread, one thread per bus, two writer threads, signal handlers, a
database that survives crashes, a schema that is upgraded in place, chips that may
be slow or exchanged, and a service manager that starts it again.  This directory
holds TLA+ models of the parts whose correctness depends on the order of events,
the TLC runs that check them on small instances, and TLAPS proofs of every
safety property that these runs check.

Paths such as `collector.py` are relative to the repository's `src/` directory.

## The system

```
 main (Collector.run)  --ReadTask/None-->  task queue  -->  BusWorker (one per bus)
   |  can_run, dispatch, missed                               | submit   | success
   v                                                          v          v failure
 RuntimeStats  <-- accepted, dropped, committed --  SampleQueue       RuntimeStats
   |                                                          | get, drained
   | snapshot                                                 v
 StatusWriter --> status.json                     DatabaseWriter --> SQLite
       ^---------------- stop event: everybody looks at it, many set it
```

### Inventory

| Component | State it keeps | Operations | Hard behaviour | Correct when |
|---|---|---|---|---|
| Collection loop and shutdown, `collector.py` | deadlines, the phase of `run()`, lists of live threads and errors, the exit code | a pass over the sensors, checks for failed threads, the `finally` block: set the event, send `None`, join, close, join, join, assess, record, write, raise | joins share one deadline and race with the threads they wait for; an exception may already be in flight | complete means everything stored, exit code 0 means no thread failed or is left, a stop ends the process whatever thread is stuck |
| Schedule and backoff, `collector.py`, `runtime/status.py` | deadline, missed deadlines, failures in a row, end of backoff per sensor | `missed`, `can_run`, `dispatch`, `success`, `failure` | a late pass, a clock value used after it is stale, two lock sections | every period is counted once, deadlines stay within one interval |
| Stop event and signals, `collector.py`, `runtime/*.py` | the flag, the event's lock and its waiters | `stop`, `wait`, `set`, SIGTERM and SIGINT handlers | a handler runs on the main thread on top of `wait()` or `set()` | who sleeps on a set event is notified, every request is heeded, but for the handler that waits for itself |
| Results queue, `runtime/queue.py` | samples, admission lock, closed flag | `submit`, `close`, `get`, `drained` | put and count are two steps; `drained` reads twice | nothing is admitted after `close`, nothing is left behind |
| Bus worker, `runtime/worker.py` | task in hand, attempt, initialised drivers, error | `run` with open, get, initialise, read and retry, submit, settle, clean up | hardware that raises, lies or hangs; a stop between two attempts | every task is settled once, a failed driver is initialised again |
| Database writer, `runtime/writer.py` | batch, flush deadline, error | `run`, `_flush` | failure with samples in hand, stop while the queue fills | in order, once, whole batches |
| Statistics and status file, `runtime/status.py` | counters, shutdown record, the file | counters, `shutdown`, `snapshot`, `StatusWriter.write` | main and the status writer both write the file | the file never goes back, it agrees with the exit code |
| Registration and storage, `storage/database.py`, `storage/repositories` | sensor instances, fields, samples, measurements | `register_sensors`, `write_samples` | the process ends between two statements; configurations change and change back | samples are whole and belong to the configuration they were read with |
| Migration, `storage/migration.py`, `storage/migrations` | tables, version tables, index | `upgrade_database`: inspect, stamp, upgrade, validate, clean | statements that SQLite commits one by one, crashes between them | no row is lost, collection starts only on the current schema |
| SQLite connection and export, `storage/connection.py` | the file and its write-ahead log | commit, checkpoint, close, copy of the file | power loss, a kill that leaves the log behind | only a suffix is ever lost, an orderly stop makes the file complete |
| Configuration, `config.py`; registry, `hw/drivers/registry.py` | none | `load_config`, `_validate_collisions`, `prepare` | limits, two names for one device | what is accepted can be run |
| BMP280 driver, `hw/drivers/bmp280.py`; mock driver; transports, `hw` | calibration, counter, open or closed | `initialize`, `read`, `open`, `transfer`, `close` | readiness polling with a timeout, a chip that is reset, exchanged or shared | a value is the sensor's own, new, and compensated with the right calibration; every task ends |
| Commands and service, `commands.py`, `service.py`, `systemd` | the unit, its enablement, the start limit | `enable`, `disable`, `start`, `stop`, `restart`, `collect` | restarts, a file edited meanwhile, kill after a timeout | a file that is refused does not restart for ever, the last order holds, the shutdown is in time |
| Packaging, `makefile`, `3rdparty` | none | install, remove | not modelled | |

`PROJECT.json` lists the same components with their status, every hazard with the
line where it bites and the properties that cover it, and for every definition
the lines of source it stands for.

## The modules

| Module | Models | Uses |
|---|---|---|
| `StopEvent` | the stop event as an atomic latch | |
| `RuntimeStats` | the counters, one action per locked method | |
| `SampleQueue` | the results queue and its admission lock | `RuntimeStats` |
| `BusWorker` | the thread of each bus | `SampleQueue`, `StopEvent` |
| `DatabaseWriter` | the writer thread | `SampleQueue`, `StopEvent` |
| `StatusWriter` | the status thread and the file | `RuntimeStats`, `StopEvent` |
| `Collector` | main, composed with all of the above | the four thread modules |
| `CollectorProperties` | invariants, action properties, liveness, the refinement mapping | `Collector`, `SampleDelivery` |
| `SampleDelivery` | the abstract promise: one sequence, a durable prefix, an honest report | |
| `Schedule` | the timing of the loop, with a clock | `RuntimeStats` |
| `StopSignal` | the stop event opened up to lock-level steps, with signal handlers | |
| `SampleStore` | what is in the database and its log, over several starts and releases | |
| `Migration` | the schema upgrade, statement by statement | |
| `Configuration` | what validation accepts, as operators on the contents of a file | |
| `Devices` | from the file to the measurement: workers, drivers, chips | `Configuration` |
| `Service` | commands, the unit, the life of the process, a clock | |
| `MCCollector`, `MCSchedule`, `MCStopSignal`, `MCSampleStore`, `MCDevices` | instances for TLC | |
| `CollectorProofs`, `CollectorRefinement`, `ScheduleProofs`, `StopSignalProofs`, `SampleStoreProofs`, `MigrationProofs`, `DevicesProofs`, `ServiceProofs` | theorems and their proofs | the modules they are named after |

### How state and actions correspond to the code

*Collector.*  `cpc`, `wpc[b]`, `dpc` and `spc` say where the main thread, the
worker of bus `b`, the writer and the status thread stand in their `run()`; the
heads of the modules list the labels.  A step ends where another thread can tell
the difference: at the end of a lock section, at a read or write of the stop
event, at a queue operation, at a commit, at the `os.replace` of the status file.
So `submit()` is a put that keeps the admission lock and a count that releases it
(`Admit`, `CountAdmitted`), `drained()` is two reads (`WriterReadsClosed`,
`WriterReadsEmpty`), the lists `alive` and `errors` are built one thread at a time
(`AssessAlive`, `AssessErrors`), and a status write is a snapshot and a
publication.  A call of the hardware, the database or the file system is a choice
between returning and raising; a call that hangs is a thread that takes no step.
That includes main's own last write of the status file (`FinalWrite`), the one call
in its shutdown that has no time limit.
A sample is the pair of its sensor and its number, which is what is needed to see
it lost, duplicated or out of order; its values are left out.  Time is left out
too: a sensor may or may not be due, the flush deadline may or may not have
passed, and the shutdown deadline passes at any moment after `finally` began.
`overran` is a history variable that remembers a join that gave up.

The writer's branch for a `None` taken from the results queue is unreachable
(nothing puts it) and has no action.  The cleanup of a worker is any number of
errors followed by the end of the thread.

*Schedule.*  The clock counts milliseconds from the moment the deadlines were
initialised and may advance between any two steps.  `now` is the value main read
at the beginning of its pass.  A worker whose read has raised reads the clock
(`ReadRaises`, into `failedAt`) before `failure()` takes its lock (`ReadFails`), and
may be held up in between.  `VisitDue` is
the lines from the computation of the periods to the first `missed()`;
`BackedOff`, `MayRun`, `StillPending` and `Dispatch` are the outcomes of the two
lock sections that follow.

*StopSignal.*  A frame is a thread or a signal being handled.  `handling` is the
stack of handler frames on the main thread, and `Runs(f)` says that only the
topmost frame of main runs: this is how CPython runs Python-level handlers.
`holder` is the lock of the event's condition, which is not reentrant.  The
steps of `Event.wait` and `Event.set` are those of the standard library and are
marked external in the map: `set()` raises the flag (`SetFlag`), takes the waiters
off the list one by one (`NotifyOne`) and gives the lock back (`SetReturns`), and a
handler may run between any two of these.

*SampleStore.*  `main` is the database file, `wal` the contents after each
transaction that is only in the log, `work` what the open connection sees.  A
commit appends to the log; closing the last connection copies it into the file
and makes it durable.  An end of the process at any point throws `work` away, a
kill leaves the log, a power loss cuts it anywhere (`synchronous=NORMAL` does not
wait for it).  The configuration is a fingerprint per sensor, or disabled; a
fingerprint and the release determine the fields a driver declares.

*Configuration and Devices.*  `FileAccepted` is `load_config()` up to the
collisions, section by section; `DevicesAreDistinct` and `SensorsAreDistinct` are
`_validate_collisions()`; `DriverAccepted` is `prepare()`.  They are operators on a
file, a nest of functions, in which `Wrong` is a value of another type.  `Devices`
starts with a file, refuses or prepares it, gives its enabled sensors to one
worker per bus, and then runs `initialize()` and `read()` with one action per I2C
transfer.  A chip has a serial number, a measurement in progress and the result
it had last; a calibration is the serial number it was read from.  So the
properties can say of each value whose it is.  `swapped` and `disturbed` remember
what happened to a chip, for the exceptions the properties name.

*Service.*  `unit` is the state the service manager gives the unit, with the
phases of the process in it.  The clock counts five seconds at a time.  A command
is two steps, the validation and the call of `systemctl`, because the file may be
edited in between, or be another one than the unit loads.  A file that is refused is
refused within one unit of the clock; any other phase may last.  `joins` and `patience` are the joins of the `finally` block
and what is left of their common deadline.  `hung` is the deadlock of finding 2, or
a last write of the status file that never returns (`LastWriteHangs`).
A start is counted in the window of the start limit as systemd counts it: the
window begins with its first start.  The model installs the unit either as the
makefile does, where no command of the program reaches it (see *Differences*), or
under the name the commands use.

*Migration.*  A database is its tables with layout and rows, and its index.  The
scripts are the statements of the two revisions in order.  A statement that
changes rows opens a transaction, one that changes the schema does not, and is
committed at once when no transaction is open: this is what the `sqlite3` module
does.  Alembic ends its own transaction per migration, except when it is given a
connection that is already in one, which is the case unless a legacy revision was
stamped and committed before (`external`).

## The runs

| Run | Instance | Distinct states | Shows |
|---|---|---|---|
| `pipeline` | two sensors on one bus, queue of 1, batches of 2 | 640,722 | types; `TaskOwnership`: pending is exactly a task queued or in hand; `LeavesNoTaskBehind`; `CompleteMeansStored`; `UncommittedBoundsLoss`; `SuccessMeansClean`; the collector implements `SampleDelivery` |
| `two_buses` | two sensors on two buses that compete for a queue of 1 | 3,204,706 | `SampleConservation`, `ReadsAccounted`, `NoLateAdmission` |
| `process_end` | one read with one retry, batches of 2, one periodic status write, only main is sure to run | 647,144 | `FileAgreesWithExitCode`, `StatusNeverRegresses`, `StopEndsProcess`; `AcceptedIsSettled` where every thread runs |
| `deadline_report` | one read | violation | see Findings |
| `schedule` | intervals 1 and 2, backoff 1 then 2, time 0 to 5 | 2,397,001 | `PeriodAccounting`, `DeadlinesAhead`, `RestsUntilWindowEnds` |
| `store` | two sensors, two revisions, two releases, three starts, two samples, one power loss | 1,370,138 | `SamplesAttributed`, `SamplesWhole`, `RegisteredIsStorable`, `SettledIsInTheFile`, `HistoryOnlyGrows`, `BatchesAreAtomic` |
| `stop_signal` | two signals, any thread may fail | 29,664 | `NoLostWakeup`, `StopIsHeeded` |
| `stop_signal_lost` | one signal, no thread fails | violation | see Findings |
| `migration` | every kind of file, any two rows, two crashes | 87,922 | `RowsSurvive`, `DoneMeansCurrent`, `MigratedOrTorn` |
| `migration_torn` | one crash | violation | see Findings |
| `devices` | 787 files, two sensors, three buses, two chips and a foreign one, three tasks, one fault | 376,129 | `RunsAsValidated`, `ChipsSharedAcrossBusesOnly`, `CalibrationIsTheChips`, `MeasurementIsOwnAndNew`, `TasksEnd`; attempts are bounded (`DevicesTypeOK`) |
| `service` | two orders, two faults, ten seconds of shutdown timeout | 696,132 | `KilledOnlyWhenHung`, `SurvivesAShortOutage`, `RefusedFileEndsRestarts`, `LastOrderHolds` |

Every property of a passing run has a mutant in `PROJECT.json`: a plausible bug
put in place of one definition (the definitions named *Mutant* in the modules)
that makes the run fail.

### Bounds, and why they are enough

- *Two sensors, two buses.*  The races are between one producer and another over
  the admission lock and the last place of the queue, between a producer and the
  writer, and between main and each of them.  A third bus adds no new pair.  Two
  sensors on one bus add the order of a bus's tasks.
- *Queue of 1.*  A full queue is then reached by the second sample; a batch of 2
  takes more than one `get()`.
- *`MaxReads`* bounds the reads per sensor (1 or 2).  The proofs below do not
  depend on it: samples are counted without bound there.
- *`MaxStatusWrites`* bounds the periodic writes; one is enough to race with the
  shutdown and the final write.
- *`NoHardwareError`* in `two_buses` is a state constraint: it leaves out the
  behaviours in which a worker ends with an error, which `pipeline` has.
- *`MaxTime`* of 5 with intervals 1 and 2 lets a pass be late by several periods
  of either sensor and lets the backoff reach its cap of 2.
- *`MaxStarts` 3* is a configuration, another one and the first one restored;
  *`MaxBatch` 2* makes a half-written batch possible.  *`MaxPowerLoss` 1* cuts a
  log of any length at any place; a second loss finds the same kinds of files.
- *787 files* are six complete files (each type of bus, shared lines, aliases of a
  device, disabled sensors) and every change of one entry of them to a missing,
  wrong, limiting or just excessive value; 206 are accepted.  *`MaxTasks` 3* lets a
  sensor fail, be initialised again and be read while another shares its chip or
  its bus; *`MaxFaults` 1* in `devices` is one error, reset or exchange at any
  transfer, besides a chip that may stay busy for ever.
- *Two orders and two faults* in `service`: an order and its correction, an edit
  between validation and restart, a missing bus that comes back, a failed thread
  and a last write that hangs.  The start limit
  is reached without further faults when the bus is missing or the file refused.
  A shutdown of ten seconds is the longest the configuration allows.
- *`MaxCrashes` 2* is one crash in the first attempt and one while the next start
  repairs what it left.

Deadlock is checked in the `Collector` runs, where the finished process has a
step of its own (`Exited`), and in `service`, where the clock always ticks.  It is
not checked in the others, because those systems may stop: the schedule at its
last clock value, the store after its last start, the devices after a stop, a
migration that is done, and in `StopSignal` threads that are all through with the
event, or the deadlock that `StopIsHeeded` names.

### Fairness, and why the code justifies it

- `LiveSpec`: the main thread runs, the shutdown deadline passes, and a worker
  that has put its sample gets through the two statements left of `submit()`.
  Nothing is assumed of the hardware, the database or the file system.  Every
  wait of main is timed, except for two: the admission lock, whose holder makes
  no call that blocks, and main's own last write of the status file, once the
  status writer has ended.  That write is not fair: a file system that hangs
  there keeps the process from ending, and `StopEndsProcess` says so
  (`\/ []InLastWrite`).
- `AcceptedIsSettled` is an implication: its premise `ThreadFairness` adds that no
  call blocks for ever (weak fairness of each thread, main in its
  last write included) and that the flush deadline
  of a batch passes sooner or later (strong fairness of the choice to flush,
  because the writer visits that choice again and again).
- `SignalSpec`: every frame that can run does; a thread that finds the event's
  lock free again and again gets it (strong fairness: it is held for microseconds
  and waited for in the order of milliseconds).  Nobody has to fail, to call
  `stop()` or to send a signal.
- `MigrationSpec`: the process goes on, and is started again after a failure
  (`Restart=on-failure` in `systemd/sensorctl.service`).  The start limit of the
  unit is left to `Service`: it is an administrator's start if not the unit's.
- `Spec` of `Devices`: each worker takes its steps, because every transfer returns
  or raises and the readiness deadline passes.  Nothing is assumed of the chips,
  which may stay busy, and main need not give tasks or stop.
- `Spec` of `Service`: the process is scheduled, time passes, and the service
  manager restarts and kills when that is due.  No command has to be given or
  finished, no fault has to occur or to end.

## What is proved

TLAPS checks these for all values of the constants (any sensors, buses, sizes,
intervals, files, chips, rows, and any bound on crashes, faults and commands), from
the assumptions the modules name with `ASSUME`.  They are: sensors and buses are
finite sets, sizes, intervals and bounds are natural numbers, and positive where
the configuration says so; a bus is not named like one of the two writer threads;
`None`, `Wrong` and `Disabled` are none of the values they stand in for (`None` is
neither an exit code nor a path, `Wrong` neither a path nor a type of bus); there is a
BMP280, and the other chip is none; arrays in a file are indexed from 1 and their
sensors' names are in `SensorIds`; the shutdown takes one or two periods of five
seconds.  TLC evaluates each of them in the runs.

| Theorem | Module | States |
|---|---|---|
| `TypeCorrect` | `CollectorProofs` | `Spec => []TypeOK` |
| `NoSampleLost` | `CollectorProofs` | `Spec => []SampleConservation` |
| `ShutdownCorrect` | `CollectorProofs` | the inductive invariant of the shutdown |
| `CompleteShutdownIsLossless` | `CollectorProofs` | `Spec => []CompleteMeansStored` |
| `ReportedLossIsBound` | `CollectorProofs` | `Spec => []UncommittedBoundsLoss` |
| `AdmissionStaysClosed` | `CollectorProofs` | `Spec => NoLateAdmission` |
| `ReadsAreAccounted` | `CollectorProofs` | `Spec => []ReadsAccounted` |
| `TasksCorrect` | `CollectorProofs` | the inductive invariant of the task queues |
| `TasksAreOwned` | `CollectorProofs` | `Spec => []TaskOwnership` |
| `NoTaskIsLeft` | `CollectorProofs` | `Spec => LeavesNoTaskBehind` |
| `AssessmentCorrect` | `CollectorProofs` | the inductive invariant of the assessment of the threads |
| `ExitCodeIsHonest` | `CollectorProofs` | `Spec => []SuccessMeansClean` |
| `FileCorrect` | `CollectorProofs` | the inductive invariant of the status file |
| `StatusIsMonotone` | `CollectorProofs` | `Spec => StatusNeverRegresses` |
| `FileTellsTheExitCode` | `CollectorProofs` | `Spec => []FileAgreesWithExitCode` |
| `CollectorDelivers` | `CollectorRefinement` | `Spec => ImplementsDelivery` |
| `PeriodsAccounted` | `ScheduleProofs` | `ScheduleSpec => [](CountersTypeOK /\ PeriodAccounting)` |
| `DeadlinesStayAhead` | `ScheduleProofs` | `ScheduleSpec => []DeadlinesAhead` |
| `BackoffCorrect` | `ScheduleProofs` | the inductive invariant of the backoff |
| `ScheduleTypes` | `ScheduleProofs` | `ScheduleSpec => []ScheduleTypeOK` |
| `BackoffIsRespected` | `ScheduleProofs` | `ScheduleSpec => RestsUntilWindowEnds` |
| `SignalCorrect` | `StopSignalProofs` | the inductive invariant of the event's lock |
| `SignalTypes` | `StopSignalProofs` | `SignalSpec => []SignalTypeOK` |
| `NoWakeupIsLost` | `StopSignalProofs` | `SignalSpec => []NoLostWakeup` |
| `SelfWaitNeverEnds` | `StopSignalProofs` | the deadlock of finding 2 is for ever |
| `EventIsALatch` | `StopSignalProofs` | the event implements `StopEvent` |
| `StoreCorrect` | `SampleStoreProofs` | the inductive invariant of file, log and connection |
| `SamplesAreAttributed` | `SampleStoreProofs` | `StoreSpec => []SamplesAttributed` |
| `SamplesAreWhole` | `SampleStoreProofs` | `StoreSpec => []SamplesWhole` |
| `RegisteredSensorsAreStorable` | `SampleStoreProofs` | `StoreSpec => []RegisteredIsStorable` |
| `SettledStaysInTheFile` | `SampleStoreProofs` | `StoreSpec => []SettledIsInTheFile` |
| `HistoryGrows` | `SampleStoreProofs` | `StoreSpec => HistoryOnlyGrows` |
| `BatchesAreWritten` | `SampleStoreProofs` | `StoreSpec => BatchesAreAtomic` |
| `MigrationCorrect` | `MigrationProofs` | the inductive invariant of the schema upgrade |
| `RowsAreKept` | `MigrationProofs` | `MigrationSpec => []RowsSurvive` |
| `DoneIsCurrent` | `MigrationProofs` | `MigrationSpec => []DoneMeansCurrent` |
| `TornIsForGood` | `MigrationProofs` | the damage of finding 3 is for ever |
| `DevicesCorrect` | `DevicesProofs` | the inductive invariant of configuration, workers and chips |
| `DevicesAreTyped` | `DevicesProofs` | `Spec => []DevicesTypeOK` |
| `ValidatedFilesRun` | `DevicesProofs` | `Spec => []RunsAsValidated` |
| `ChipsAreSharedAcrossBuses` | `DevicesProofs` | `Spec => []ChipsSharedAcrossBusesOnly` |
| `CalibrationCorrect` | `DevicesProofs` | the inductive invariant of the calibration |
| `CalibrationMatches` | `DevicesProofs` | `Spec => CalibrationIsTheChips` |
| `MeasurementCorrect` | `DevicesProofs` | the inductive invariant of a measurement |
| `MeasurementsAreFresh` | `DevicesProofs` | `Spec => MeasurementIsOwnAndNew` |
| `ShutdownFits` | `ServiceProofs` | `Spec => []KilledOnlyWhenHung` |
| `OutagesAreSurvived` | `ServiceProofs` | `Spec => []SurvivesAShortOutage` |

*The argument for the pipeline.*  `SampleConservation` is inductive together with
the types: a sample put and not yet counted is counted on the producer's side by
the admission lock being held, a sample stored and not yet counted by the
writer's label.  `CompleteMeansStored` is not inductive.  `ShutdownInv` says why it
holds: admission is shut from `close()` on and nobody is inside `submit()` then;
therefore a writer that saw the queue closed and then empty will never see it
otherwise (`WriterDrains`; with the reads swapped this fails); whatever main notes
about the writer, first alive or not, then error or not, is final in the direction
that matters (`WriterAssessed`: a dead writer stays dead, and only a living one
gets an error); and the record is made once, from these notes (`RecordIsFrozen`).
A complete record then means a dead writer without error, which left its loop with
the queue and the batch empty.

*The reads.*  `ReadsAccounted` is inductive: a worker about to call `success()` has
been counted on the right-hand side and not yet on the left.  What has to be shown
is that one more for one sensor is one more in the sum (`SumOfOneMore`).
`SumFunction` is a fold, a recursive function on the subsets of a finite set; that
there is such a function (`SumsExist`) and what it computes follow by induction over
the sets the fold visits (`FoldInduction`, from a counterexample of least size).

*The tasks.*  A count of the tasks in a queue is no help in a proof.  `TaskInv` says
where they are: the tasks of a bus are pending sensors of that bus, no two the
same and none of them in the worker's hands; `None` is last, and is there only when
the `finally` block has begun; and each pending sensor has a task.  From
"no two the same", the set that `TaskOwnership` counts has at most one element.
`LeavesNoTaskBehind` follows because a worker goes to its cleanup either with an
empty queue or after `None`, which was the last thing put.

*The assessment.*  What main notes of a thread is looked at one thread at a time while
the others run.  `ThreadsAssessed` is the direction in which each note is final: not
alive remains not alive, and for those not noted as alive, no error remains no error,
because only a living thread gets one.  An exception in flight is due to a thread's
error (`raised`).  So exit code 0 means that all have ended and none has failed.

*The status file.*  `FileInOrder` orders three snapshots, the file, what the status
writer is about to publish and the present one (`Precedes`).  The periodic write and
the final one could overtake each other; they do not, because main writes only when
the status writer has ended.  `LastWrite` is what links the file to the exit code:
when main found it dead, the record is not in the file before main's own write, and
is there afterwards unless that write failed.

*The argument for the service.*  `KilledOnlyWhenHung` needs `ClocksInv`: as long as
main does not hang, the clock until SIGKILL is ahead of what is left of the common
deadline.  It starts ahead (`TimeoutStopSec` is longer than any timeout the
configuration allows, the assumption on `ShutdownTimeout`), a second stop starts
neither clock anew, and a tick that would pass the deadline is not taken before
main has left its joins.  So SIGKILL is due only when main hangs, on the event's lock
or in its last write.  The number of
commands and faults is arbitrary.  `SurvivesAShortOutage` needs an account
(`PaidFor`): unless a start was ordered in the window of the start limit, each start
after the first is paid for by a tick of `RestartSec`, and by one more when the next
is due.  The start that is refused is the sixth: five ticks, twenty-five seconds, are on the
account then.

*The refinement.*  The admitted samples of `SampleDelivery` are the rows stored, the
batch and the queue, in that order, with the batch left out while its rows are
already stored and not yet counted.  Taking a sample from the queue, counting
and clearing are stutters; a put is `Admit`, a transaction `Commit`, `close()`
`CloseAdmission`, `stats.shutdown()` `Report`, which needs `CompleteMeansStored`.

*The schedule.*  The deadline of a sensor equals its interval times the number of
periods accounted for.  Each action moves one unit between the counters, except
the visit of a due sensor, which adds the periods it finds to both sides.  For
`DeadlinesAhead` the lemma `NextDeadline` says that adding `(now - d) \div i + 1`
intervals to `d` leads past `now` and no more than `i` past it; the invariant
`DeadlineInv` adds that the sensors of a pass not yet visited have deadlines at most
one interval past the clock.  For the backoff, `ClocksRead` says that whatever main and a
worker hold of the clock is in the past.  So a pass that finds a window over by its own
clock value is right, though a pass may find one open that has ended since; a sensor at rest is
let through by `can_run()` only when its window is over, a window is moved only by
a failure, which needs a pending read, and the one way in that is left is a `dispatch()` whose
`can_run()` came before.  `BackoffBounded` says that no window ends later than the cap
from the present.  The length of a window has a power of two with a variable exponent,
about which no backend knows anything; that it is a natural number follows from the
number of subsets of a set.

*The stop event.*  Who is in a critical section holds the lock (`LockIsHeld`), and handlers
only call `set()`.  Handlers run on top of the frame that holds the lock only until they
ask for it: a holder on main is the frame that runs, or the topmost handler waits for it
(`HolderRuns`).  While the flag is up and somebody sleeps, the lock is with the `set()` that
is still to notify them (`NotifierHolds`), because enrolling and looking at the flag are one critical
section.  Together these are `NoLostWakeup`.  The deadlock of finding 2 cannot undo itself: the lock's holder is below the
handler on the stack of main, and runs again only when the handler returns
(`SelfWaitNeverEnds`).  `EventIsALatch` is what entitles `Collector` to take the event for
one atomic flag.

*The store.*  The file, the contents after each transaction in the log, and what the
connection sees are a chain in which each extends the one before (`FileInv`,
`WorkInv`), every member of it sound: rows refer to instances that exist, of their
own sensor and configuration, and have all their fields, except the row
whose measurements are still to be inserted.  A loss of power cuts the chain, a
checkpoint makes a later member of it the file.  That registered sensors can be
stored is about ids kept in memory: an instance's row is never changed.

*The migration.*  `Sound` is an invariant of both databases, on disk and as the
connection sees it: a table's rows are in its place or set aside, nothing else is in
either, and tables are set aside only under revision 0001.  A statement keeps
it only when it comes at its place in the script.  So the script is described by what
is left of it: `Remainder` says that these are the last statements of the
whole (`Statement(left)`), and `UpTo` what holds with so many left: which
tables have been copied, which set aside may be dropped, which revision is
recorded.  `UpgradeStatement` goes through the twenty-nine statements by kind.  Where a
transaction begins is irrelevant to the rows: it decides only which of two sound
databases is on disk.  For `TornIsForGood` it matters, and `CommitInv` says what is
committed and when: the statements of a revision up to its first `INSERT` one at a
time, and of those of 0002 the renaming of `measurement` first.  A torn file
therefore already has a table of the name that the first statement of the next upgrade
is to create or to rename to; it cannot be executed, and nothing is changed.

*The devices.*  `Prepared` says what is known of a configuration that `load_config()` and
`prepare()` have accepted, derived from the validation of each key; the types of
workers, drivers and chips follow from it.  For the calibration, a driver
believes what it has read at its own address, and this is the chip's unless it
was exchanged since (`Believed`); within `initialize()` the same holds of the half-read
one (`InStep`).  For the freshness of values, from the control write on the chip measures for
the task, or has its result, unless it was reset or another bus reaches it
(`MeasuresForTask`).

*Only model-checked.*  The liveness properties (`StopEndsProcess`, `AcceptedIsSettled`,
`StopIsHeeded`, `MigratedOrTorn`, `TasksEnd`, `RefusedFileEndsRestarts`, `LastOrderHolds`): they need fairness and
`ENABLED`, which are out of the prover's reach.  The findings are counterexamples, which
only TLC can give.  Every other property of the runs is proved.

## Findings

1. *A missed deadline may be reported as success* (`deadline_report`).  The README
   says that collection exits with an error "if a thread is still running at the
   deadline".  `run()` asks `is_alive()` after all joins and does not remember
   that a join gave up: a worker that was running at the deadline and ends before
   `collector.py:146` leaves no trace.  Accepted samples are still all stored
   (`CompleteMeansStored`).
2. *A signal can deadlock the collector* (`stop_signal_lost`).  The handler calls
   `Event.set()` on the main thread.  If the signal is handled while main itself
   holds the event's lock, in `Event.wait()` at the end of each pass or in
   `Event.set()` in the `finally` block, `set()` waits for its own thread.  In `set()` the flag
   may be up already and the waiters still asleep; they then go on at their timeouts.  systemd
   kills the process after `TimeoutStopSec`, and the samples in memory are lost.
   `StopIsHeeded` shows that this is the only way to lose a request, and
   `SelfWaitNeverEnds` proves that nothing the process does ends the wait.
3. *A crash during a migration can be permanent* (`migration_torn`).  The statements
   of a revision up to its first `INSERT` are committed one at a time, although
   `env.py` asks for transactional DDL.  A crash among them leaves a file on which
   every later start fails, which `TornIsForGood` proves.  No row is lost
   (`RowsSurvive`), and `MigratedOrTorn` shows that there is no other way to get stuck.

## What the models say about behaviour that is nowhere promised

These are consequences that the properties name as their exceptions, or that the
models contain and no property excludes.

- *One chip, two workers.*  Two buses may name one I2C device, or spell it
  `/dev/i2c-1` and `/dev/i2c-01`; addresses are compared per bus.  Two workers
  then start and fetch each other's measurements (`ChipsSharedAcrossBusesOnly`,
  the last exception of `MeasurementIsOwnAndNew`).
- *A stale calibration.*  A retry does not initialise again.  A chip exchanged
  between two tasks, or two attempts of one, is read with the calibration of the
  former one until a task fails (`CalibrationIsTheChips`).
- *A power-on value.*  A chip that is reset after the control write is ready at
  once and returns its reset value, which passes as a measurement
  (`MeasurementIsOwnAndNew`).
- *A release that adds a field.*  The fingerprint does not cover the fields, so
  the known instance lacks the new one, and every write fails with a `KeyError`
  (`FieldIsUnknown`, the exception of `RegisteredIsStorable`).
- *A kill leaves the log beside the file.*  Samples committed since the last
  checkpoint are then in the log alone, and a power loss may take them
  (`SettledIsInTheFile` says what is safe).
- *A file with every sensor disabled* is valid and cannot be collected from.
  `restart` with it stops a running collector for good
  (`RefusedFileEndsRestarts` says that the unit then gives up).
- *The start limit.*  A bus that is missing for more than twenty seconds, or less
  with orders in between, leaves the unit failed (`SurvivesAShortOutage`).
- *Another path, or an edit.*  `--config` or `SENSORCTL_CONFIG` of the shell makes
  `restart` validate a file that the unit does not load (`Give`); so does an edit
  between validation and start.  A running collector is then replaced by one that
  refuses its file.  Nothing in the code prevents it; `RefusedFileEndsRestarts` and
  `LastOrderHolds` say how it ends.
- *A last write that hangs.*  The write of the status file at the end of the shutdown
  has no time limit.  After an order to stop, SIGKILL ends the process; after a
  failure of the collector itself nothing does, and the unit stays up without
  collecting (`LastWriteHangs`, the exceptions of `StopEndsProcess` and
  `LastOrderHolds`).

### Differences between files of the repository

Nothing has to run to see these; the models take the side that is named.

- `service.py:7` names the unit `service`; the makefile installs
  `sensorctl.service`.  As installed, no command reaches it (`Service` has both).
- `commands.py:17` reads `/etc/sensorctl/toml` by default; the makefile and the
  README install and edit `/etc/sensorctl/sensorctl.toml`.
- `config.py:274` stores in `/var/lib/sensorctl/db`; the README copies
  `/var/lib/sensorctl/sensorctl.db`.
- The unit's `RuntimeDirectory` is removed when the unit stops, and with it the
  final status file that `FileAgreesWithExitCode` is about; it can be read only
  where the collector is run by hand.

## Not modelled, and why

- The conversion of timestamps in revision 0002, the BMP280 compensation, the
  length of its waits and the text of the status file are data the properties do
  not depend on; TLA+ has no floating-point numbers.
- SPI and UART transfers: no registered driver supports these buses, so no
  accepted configuration has a sensor on them and nothing calls them.
- Two processes on one database (a second `collect` beside the service), and the
  writer's wait for its lock.
- SQLite's own pages and locks: its transactions and its log are taken as
  documented.
- Exceptions that are not `Exception` (`SystemExit`, `KeyboardInterrupt` before the
  handlers are installed, running out of memory in a thread).
- The commands `validate`, `status` and `diagnose`, which change nothing, and the
  installation scripts but for their use of the unit.

## Plan

Done: the collector and its proofs, the schedule and its proofs, the stop signal,
the sample store with its log, the migration, the configuration, the drivers and
the service.  What is left to model is listed above with the reasons.

Proved: every invariant and every action property of the runs.  What could be added
is a proof of the safety that `StopEndsProcess` rests on: that main is never without
a next step in the `finally` block, unless it waits for a thread.
