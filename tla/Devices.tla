-------------------------------- MODULE Devices --------------------------------
(***************************************************************************)
(* From the configuration file to the measurement: a file is validated,    *)
(* Collector.run() hands its sensors to one BusWorker per bus, and the     *)
(* workers run the register protocol of drivers/bmp280.py on chips that    *)
(* share lines, are slow, are reset or are exchanged while they are in     *)
(* use.  The queue of a worker and what becomes of a sample are in         *)
(* BusWorker.tla; here a worker has a task as soon as main gives it one.   *)
(*                                                                         *)
(* pc is where the worker of a bus is, one value per I2C transfer:         *)
(*   closed    the transport is not open yet                               *)
(*   loop      waiting for a task                                          *)
(*   identify, settle, calibrate   initialize(): chip id, status,          *)
(*             calibration                                                 *)
(*   measure, convert, fetch       read(): control register, status, data  *)
(*   dead      the transport is closed                                     *)
(* A chip has a serial number (that tells it from others in its place;     *)
(* None: there is no chip), the sensor whose                               *)
(* measurement it is carrying out, and in its data registers the result it *)
(* had last: for whom (None: the value after a reset) and whether it is    *)
(* newer than the last write to the control register.  The arithmetic of   *)
(* the compensation is left out: a value is right when its calibration and *)
(* its raw data are.                                                       *)
(***************************************************************************)
EXTENDS Configuration

CONSTANTS Files,       \* contents of the configuration file
          SensorIds, BusIds,
          BMP280s,     \* serial numbers
          OtherChip,   \* a chip with another id
          MaxTasks,    \* bound: tasks given to the workers
          MaxFaults    \* bound: faults of the hardware

ASSUME DevicesAssumption ==
  /\ OtherChip \notin BMP280s /\ None \notin BMP280s \cup {OtherChip} \cup SensorIds
  /\ BMP280s # {}
  /\ MaxTasks \in Nat /\ MaxFaults \in Nat

\* The array of the sensors is a sequence, and SensorIds has the ids of all files.
ASSUME FilesAssumption ==
  \A f \in Files : Validates(f) =>
    /\ DOMAIN f["sensors"] \subseteq Nat \ {0}
    /\ \A n \in DOMAIN f["sensors"] : f["sensors"][n]["id"] \in SensorIds

VARIABLES file, phase, config,
          sensor,       \* enabled sensors: [bus, driver, at, retries]
          stop,
          pc, task, attempt,
          initialized,
          calibration,  \* BMP280Driver._calibration: the chip it was read from
          counter,      \* MockDriver._value, in steps
          chip,
          reads,        \* per sensor: values returned to the worker
          swapped,      \* history: sensors whose chip was exchanged since the last
                        \* failure of a task or the last identify
          disturbed,    \* history: sensors whose chip was reset or taken out since
                        \* their last measure
          tasks, faults \* bookkeeping of the bounds

fileVars == <<file, phase, config, sensor>>
workerVars == <<pc, task, attempt, initialized, calibration, counter, reads>>
vars == <<fileVars, stop, workerVars, chip, swapped, disturbed, tasks, faults>>

Places == {Opens[p] : p \in Paths} \X {118, 119}

Chip(serial) == [serial |-> serial, measures |-> None, result |-> None, new |-> FALSE]

Init ==
  /\ file \in Files
  /\ phase = "unread" /\ config = None /\ sensor = NoTable
  /\ stop = FALSE
  /\ pc = [b \in BusIds |-> "closed"]
  /\ task = [b \in BusIds |-> None] /\ attempt = [b \in BusIds |-> 0]
  /\ initialized = {} /\ calibration = [s \in SensorIds |-> None]
  /\ counter = [s \in SensorIds |-> 0] /\ reads = [s \in SensorIds |-> 0]
  /\ chip = [at \in Places |-> Chip(CHOOSE serial \in BMP280s : TRUE)]
  /\ swapped = {} /\ disturbed = {} /\ tasks = 0 /\ faults = 0

-----------------------------------------------------------------------------
(* main() of commands.py and Collector.run(), up to the workers. *)

Refuse ==
  /\ phase = "unread" /\ ~Validates(file)
  /\ phase' = "refused" /\ file' = None
  /\ UNCHANGED <<config, sensor, stop, workerVars, chip, swapped, disturbed, tasks, faults>>

Prepare ==
  /\ phase = "unread" /\ Validates(file)
  /\ phase' = "prepared" /\ config' = Load(file) /\ file' = None
  /\ UNCHANGED <<sensor, stop, workerVars, chip, swapped, disturbed, tasks, faults>>

EnabledSensors == {config.sensors[n] : n \in {n \in DOMAIN config.sensors :
                                                config.sensors[n].enabled}}

\* validate does not look for an enabled sensor, collect does.
NothingToCollect ==
  /\ phase = "prepared" /\ EnabledSensors = {}
  /\ phase' = "refused" /\ config' = None
  /\ UNCHANGED <<file, sensor, stop, workerVars, chip, swapped, disturbed, tasks, faults>>

\* Where a transport for the bus leads a driver with the address.
At(bus, address) == <<IF bus.type = "mock" THEN None ELSE Opens[bus.device], address>>

\* Each enabled sensor with its driver goes to the worker of its bus, which
\* gets the transport and the retries of the bus.
StartCollecting ==
  /\ phase = "prepared" /\ EnabledSensors # {}
  /\ phase' = "collecting" /\ config' = None
  /\ sensor' = [id \in {s.id : s \in EnabledSensors} |->
                  LET s == CHOOSE s \in EnabledSensors : s.id = id
                      bus == config.buses[s.bus]
                  IN [bus |-> s.bus, driver |-> s.driver,
                      at |-> At(bus, s.address), retries |-> bus.retries]]
  /\ UNCHANGED <<file, stop, workerVars, chip, swapped, disturbed, tasks, faults>>

HasWorker(b) == \E s \in DOMAIN sensor : sensor[s].bus = b

RequestStop ==
  /\ phase = "collecting" /\ ~stop
  /\ stop' = TRUE
  /\ UNCHANGED <<fileVars, workerVars, chip, swapped, disturbed, tasks, faults>>

-----------------------------------------------------------------------------
(* BusWorker.run() *)

\* transport.open(): the device may be missing, and a worker that fails ends
\* the collection.
OpenTransport(b) ==
  /\ pc[b] = "closed" /\ HasWorker(b)
  /\ \/ pc' = [pc EXCEPT ![b] = "loop"] /\ UNCHANGED stop
     \/ pc' = [pc EXCEPT ![b] = "dead"] /\ stop' = TRUE
  /\ UNCHANGED <<fileVars, task, attempt, initialized, calibration, counter, reads,
                 chip, swapped, disturbed, tasks, faults>>

\* Tasks that main has put are taken even after a stop, up to its last None.
TakeTask(b, s) ==
  /\ pc[b] = "loop" /\ tasks < MaxTasks
  /\ s \in DOMAIN sensor /\ sensor[s].bus = b
  /\ pc' = [pc EXCEPT ![b] = IF s \in initialized THEN "measure" ELSE "identify"]
  /\ task' = [task EXCEPT ![b] = s] /\ attempt' = [attempt EXCEPT ![b] = 0]
  /\ tasks' = tasks + 1
  /\ UNCHANGED <<fileVars, stop, initialized, calibration, counter, reads, chip,
                 swapped, disturbed, faults>>

\* transport.close() after the last task.
CloseTransport(b) ==
  /\ pc[b] = "loop" /\ stop
  /\ pc' = [pc EXCEPT ![b] = "dead"]
  /\ UNCHANGED <<fileVars, stop, task, attempt, initialized, calibration, counter, reads,
                 chip, swapped, disturbed, tasks, faults>>

Reading == {"measure", "convert", "fetch"}
Initializing == {"identify", "settle", "calibrate"}

\* Mutant: one attempt too many.
OneMoreAttempt(b, s) == attempt[b] <= sensor[s].retries

AttemptsLeft(b, s) == attempt[b] < sensor[s].retries

\* Mutant: a driver that failed counts as initialized.
StillInitialized(s) == initialized

Discarded(s) == initialized \ {s}

\* An exception in read() is retried, without a new initialize(); one in
\* initialize() or in the last attempt ends the task.
Retry(b, s) ==
  /\ pc[b] \in Reading /\ AttemptsLeft(b, s) /\ ~stop
  /\ attempt' = [attempt EXCEPT ![b] = @ + 1]
  /\ pc' = [pc EXCEPT ![b] = "measure"]
  /\ UNCHANGED <<task, initialized, swapped>>

FailTask(b, s) ==
  /\ ~(pc[b] \in Reading /\ AttemptsLeft(b, s) /\ ~stop)
  /\ initialized' = Discarded(s)
  /\ swapped' = swapped \ {s}
  /\ pc' = [pc EXCEPT ![b] = "loop"] /\ task' = [task EXCEPT ![b] = None]
  /\ UNCHANGED attempt

\* The value goes to the results queue.
Return(b, s) ==
  /\ reads' = [reads EXCEPT ![s] = @ + 1]
  /\ pc' = [pc EXCEPT ![b] = "loop"] /\ task' = [task EXCEPT ![b] = None]

-----------------------------------------------------------------------------
(* BMP280Driver; s is the sensor the worker of bus b is reading. *)

ChipOf(s) == chip[sensor[s].at]

Doing(b, s, step) ==
  /\ pc[b] = step /\ task[b] = s /\ sensor[s].driver = "bmp280"

Transfers(b, s, step, next) ==
  /\ Doing(b, s, step)
  /\ ChipOf(s).serial # None
  /\ pc' = [pc EXCEPT ![b] = next]

ReadChipId(b, s) ==
  /\ Transfers(b, s, "identify", "settle")
  /\ ChipOf(s).serial \in BMP280s
  /\ swapped' = swapped \ {s}
  /\ UNCHANGED <<fileVars, stop, task, attempt, initialized, calibration, counter, reads,
                 chip, disturbed, tasks, faults>>

\* Mutant: the status is not waited for.
ReadyAnyway(s) == TRUE

\* The busy bits of the status register.
Ready(s) == ChipOf(s).measures = None

WaitUntilReady(b, s) ==
  /\ \/ Transfers(b, s, "settle", "calibrate")
     \/ Transfers(b, s, "convert", "fetch")
  /\ Ready(s)
  /\ UNCHANGED <<fileVars, stop, task, attempt, initialized, calibration, counter, reads,
                 chip, swapped, disturbed, tasks, faults>>

ReadCalibration(b, s) ==
  /\ Transfers(b, s, "calibrate", "measure")
  /\ calibration' = [calibration EXCEPT ![s] = ChipOf(s).serial]
  /\ initialized' = initialized \cup {s}
  /\ UNCHANGED <<fileVars, stop, task, attempt, counter, reads, chip, swapped, disturbed,
                 tasks, faults>>

StartMeasurement(b, s) ==
  /\ Transfers(b, s, "measure", "convert")
  /\ chip' = [chip EXCEPT ![sensor[s].at].measures = s, ![sensor[s].at].new = FALSE]
  /\ disturbed' = disturbed \ {s}
  /\ UNCHANGED <<fileVars, stop, task, attempt, initialized, calibration, counter, reads,
                 swapped, tasks, faults>>

FetchData(b, s) ==
  /\ Doing(b, s, "fetch")
  /\ ChipOf(s).serial # None
  /\ Return(b, s)
  /\ UNCHANGED <<fileVars, stop, attempt, initialized, calibration, counter, chip,
                 swapped, disturbed, tasks, faults>>

\* Mutant: the status is polled for ever.
NeverLate(b, s) == FALSE

\* _READY_TIMEOUT_S has passed and the chip is still busy.
Late(b, s) == pc[b] \in {"settle", "convert"} /\ ChipOf(s).serial # None /\ ~Ready(s)

\* A transfer raises, the chip is not a BMP280, or it does not become ready.
DriverRaises(b, s) ==
  /\ task[b] = s /\ sensor[s].driver = "bmp280"
  /\ pc[b] \in Initializing \cup Reading
  /\ \/ ChipOf(s).serial = None /\ UNCHANGED faults
     \/ pc[b] = "identify" /\ ChipOf(s).serial = OtherChip /\ UNCHANGED faults
     \/ Late(b, s) /\ UNCHANGED faults
     \/ faults < MaxFaults /\ faults' = faults + 1
  /\ Retry(b, s) \/ FailTask(b, s)
  /\ UNCHANGED <<fileVars, stop, calibration, counter, reads, chip, disturbed, tasks>>

\* MockDriver: initialize() does nothing, read() counts.
MockSample(b, s) ==
  /\ task[b] = s /\ sensor[s].driver = "mock"
  /\ initialized' = initialized \cup {s}
  /\ counter' = [counter EXCEPT ![s] = @ + 1]
  /\ Return(b, s)
  /\ UNCHANGED <<fileVars, stop, attempt, calibration, chip, swapped, disturbed, tasks,
                 faults>>

-----------------------------------------------------------------------------
(* The hardware, as far as sensors use it. *)

UsedPlaces == {sensor[s].at : s \in {s \in DOMAIN sensor : sensor[s].driver = "bmp280"}}
Users(at) == {s \in DOMAIN sensor : sensor[s].at = at}

\* A chip finishes its measurement.
FinishMeasurement(at) ==
  /\ at \in UsedPlaces /\ chip[at].measures # None
  /\ chip' = [chip EXCEPT ![at].measures = None, ![at].result = chip[at].measures,
                          ![at].new = TRUE]
  /\ UNCHANGED <<fileVars, stop, workerVars, swapped, disturbed, tasks, faults>>

\* A drop of the supply resets a chip; it loses its measurement.
ResetChip(at) ==
  /\ at \in UsedPlaces /\ chip[at].serial # None /\ faults < MaxFaults
  /\ chip' = [chip EXCEPT ![at] = Chip(@.serial)]
  /\ disturbed' = disturbed \cup Users(at)
  /\ faults' = faults + 1
  /\ UNCHANGED <<fileVars, stop, workerVars, swapped, tasks>>

\* A chip is taken out, and some chip is put in.
Unplug(at) ==
  /\ at \in UsedPlaces /\ chip[at].serial # None /\ faults < MaxFaults
  /\ chip' = [chip EXCEPT ![at] = Chip(None)]
  /\ swapped' = swapped \cup Users(at) /\ disturbed' = disturbed \cup Users(at)
  /\ faults' = faults + 1
  /\ UNCHANGED <<fileVars, stop, workerVars, tasks>>

Plug(at, serial) ==
  /\ at \in UsedPlaces /\ chip[at].serial = None
  /\ chip' = [chip EXCEPT ![at] = Chip(serial)]
  /\ UNCHANGED <<fileVars, stop, workerVars, swapped, disturbed, tasks, faults>>

-----------------------------------------------------------------------------
DriverStep(b, s) ==
  \/ ReadChipId(b, s) \/ WaitUntilReady(b, s) \/ ReadCalibration(b, s)
  \/ StartMeasurement(b, s) \/ FetchData(b, s)
  \/ DriverRaises(b, s) \/ MockSample(b, s)

WorkerStep(b) ==
  \/ OpenTransport(b) \/ CloseTransport(b)
  \/ \E s \in SensorIds : TakeTask(b, s) \/ DriverStep(b, s)

Next ==
  \/ Refuse \/ Prepare \/ NothingToCollect \/ StartCollecting \/ RequestStop
  \/ \E b \in BusIds : WorkerStep(b)
  \/ \E at \in Places : \/ FinishMeasurement(at) \/ ResetChip(at) \/ Unplug(at)
                        \/ \E serial \in BMP280s \cup {OtherChip} : Plug(at, serial)

\* The workers run, every transfer returns or raises, and a deadline passes; a
\* chip may stay busy for ever.
Spec == Init /\ [][Next]_vars /\ \A b \in BusIds : WF_vars(WorkerStep(b))

-----------------------------------------------------------------------------
\* Types, and: a read is attempted at most retries + 1 times (BusWorker.run()).
DevicesTypeOK ==
  /\ DOMAIN sensor \subseteq SensorIds
  /\ \A b \in BusIds :
       /\ pc[b] \in {"closed", "loop", "dead"} \cup Initializing \cup Reading
       /\ (task[b] = None) = (pc[b] \in {"closed", "loop", "dead"})
       /\ task[b] # None => attempt[b] \in 0 .. sensor[task[b]].retries
  /\ calibration \in [SensorIds -> BMP280s \cup {None, OtherChip}]
  /\ \A at \in Places : chip[at].serial \in BMP280s \cup {None, OtherChip}

\* What load_config() and prepare() let through is what the rest of the
\* program relies on without looking again: a bounded results queue, a batch
\* and an interval above zero (the scheduler divides by it), at least one
\* attempt per read (else BusWorker asserts), a shutdown that fits in the
\* unit's TimeoutStopSec=15, and a bus that the driver can use and open.
RunsAsValidated ==
  phase = "prepared" =>
    /\ config.collector.queue_size > 0 /\ config.collector.batch_size > 0
    /\ config.collector.shutdown_timeout_s < 15
    /\ \A n \in DOMAIN config.sensors :
         LET s == config.sensors[n]
             bus == config.buses[s.bus]
         IN /\ s.interval > 0 /\ bus.retries >= 0
            /\ bus.type # "mock" => bus.device # None
            /\ s.driver = "bmp280" => bus.type = "i2c"

\* Two sensors are given the same chip only through two buses with one device:
\* addresses are compared per bus, not per device (_validate_collisions()).
ChipsSharedAcrossBusesOnly ==
  \A s, t \in DOMAIN sensor :
    s # t /\ sensor[s].driver = "bmp280" /\ sensor[s].at = sensor[t].at
      => sensor[s].bus # sensor[t].bus

Returns(s) == reads'[s] # reads[s] /\ sensor[s].driver = "bmp280"

\* A value is computed with the calibration of the chip that measured it,
\* unless the chip was exchanged after a task that did not fail: a task that
\* fails puts an end to whatever the driver believes of the chip
\* (BusWorker.run(), initialized.discard()).
CalibrationIsTheChips ==
  [][\A s \in SensorIds :
       Returns(s) => calibration[s] = ChipOf(s).serial \/ s \in swapped]_vars

\* A value was measured for this sensor, with its settings, and after this
\* attempt wrote the control register; unless the chip was reset or exchanged
\* between that write and the reading of the data, or has a second sensor on
\* another bus (BMP280Driver.read()).
MeasurementIsOwnAndNew ==
  [][\A s \in SensorIds :
       Returns(s) =>
         \/ ChipOf(s).result = s /\ ChipOf(s).new
         \/ s \in disturbed
         \/ \E t \in DOMAIN sensor \ {s} : sensor[t].at = sensor[s].at]_vars

\* Every task ends, although a chip may stay busy for ever
\* (BMP280Driver._wait_until_ready(), BusWorker.run()).
TasksEnd == \A b \in BusIds : task[b] # None ~> task[b] = None

=============================================================================
