----------------------------- MODULE DevicesProofs -----------------------------
(***************************************************************************)
(* Theorems about Devices, for every set of configuration files, sensors,  *)
(* buses and chips, and any number of tasks and faults.                    *)
(***************************************************************************)
EXTENDS Devices, TLAPS

-----------------------------------------------------------------------------
(* What validation leaves of a configuration. *)

\* A bus that BusAccepted() let through, as LoadBus() keeps it.
BusLoaded(bus) ==
  /\ bus.type \in {"mock", "i2c", "spi", "uart"}
  /\ bus.retries \in Nat
  /\ bus.type # "mock" => bus.device \in Paths

\* The loaded configuration after _prepare_config().
Prepared(c) ==
  /\ c.collector.queue_size \in Nat \ {0} /\ c.collector.batch_size \in Nat \ {0}
  /\ c.collector.shutdown_timeout_s \in 1 .. 10
  /\ \A n \in DOMAIN c.sensors :
       LET s == c.sensors[n]
           bus == c.buses[s.bus]
       IN /\ s.id \in SensorIds
          /\ s.interval \in Nat \ {0}
          /\ BusLoaded(bus)
          /\ s.driver = "bmp280" => bus.type = "i2c" /\ s.address \in {118, 119}
  /\ \A m, n \in DOMAIN c.sensors :
       /\ m # n
       /\ c.sensors[m].bus = c.sensors[n].bus /\ c.buses[c.sensors[n].bus].type = "i2c"
       => c.sensors[m].address # c.sensors[n].address

\* What _integer() of config.py accepts is a number that is not below the limit.
LEMMA IntegerAccepted ==
  ASSUME NEW table, NEW key, NEW default, NEW min \in Nat, NEW max,
         IsInteger(table, key, default, min, max)
  PROVE  Get(table, key, default) \in Nat /\ Get(table, key, default) >= min
BY DEF IsInteger

LEMMA CollectorIsLoaded ==
  ASSUME NEW raw, CollectorAccepted(raw)
  PROVE  /\ LoadCollector(raw).queue_size \in Nat \ {0}
         /\ LoadCollector(raw).batch_size \in Nat \ {0}
         /\ LoadCollector(raw).shutdown_timeout_s \in 1 .. 10
<1>1. /\ IsInteger(raw, "queue_size", 1000, 1, 1000000)
      /\ IsInteger(raw, "batch_size", 100, 1, 100000)
  BY SMT DEF CollectorAccepted, CollectorLimits, CollectorDefaults
<1>2. /\ LoadCollector(raw).queue_size = Get(raw, "queue_size", 1000)
      /\ LoadCollector(raw).batch_size = Get(raw, "batch_size", 100)
      /\ LoadCollector(raw).shutdown_timeout_s = Get(raw, "shutdown_timeout_s", 10)
  BY SMT DEF LoadCollector, CollectorDefaults
<1>3. Get(raw, "queue_size", 1000) \in Nat /\ Get(raw, "queue_size", 1000) >= 1
  BY <1>1, IntegerAccepted, SMT
<1>4. Get(raw, "batch_size", 100) \in Nat /\ Get(raw, "batch_size", 100) >= 1
  BY <1>1, IntegerAccepted, SMT
<1>5. Get(raw, "shutdown_timeout_s", 10) \in 1 .. 10
  <2>1. IsInteger(raw, "shutdown_timeout_s", 10, 1, 10)
    BY SMT DEF CollectorAccepted, CollectorLimits, CollectorDefaults
  <2> QED BY <2>1 DEF IsInteger
<1> QED BY <1>2, <1>3, <1>4, <1>5

LEMMA BusIsLoaded ==
  ASSUME NEW raw, BusAccepted(raw)
  PROVE  BusLoaded(LoadBus(raw))
<1> DEFINE bus == LoadBus(raw)
<1>1. /\ bus.type = raw["type"]
      /\ bus.device = Get(raw, "device", None)
      /\ bus.retries = Get(raw, "retries", IF raw["type"] = "mock" THEN 0 ELSE 2)
  BY DEF LoadBus
<1>2. Get(raw, "type", Wrong) \in DOMAIN BusKeys /\ DOMAIN raw \subseteq BusKeys[raw["type"]]
  BY SMT DEF BusAccepted
<1>3. /\ DOMAIN BusKeys = {"mock", "i2c", "spi", "uart"}
      /\ BusKeys["mock"] = {"type"}
  BY DEF BusKeys
<1>4. raw["type"] \in {"mock", "i2c", "spi", "uart"}
  BY <1>2, <1>3, PathAssumption DEF PathAssumption, Get
<1>5. CASE raw["type"] = "mock"
  <2>1. "retries" \notin DOMAIN raw
    BY <1>2, <1>3, <1>5
  <2>2. bus.retries = 0
    BY <1>1, <1>5, <2>1 DEF Get
  <2> QED BY <1>1, <1>5, <2>2 DEF BusLoaded
<1>6. CASE raw["type"] # "mock"
  <2>1. /\ DeviceAccepted(raw["type"], Get(raw, "device", Wrong))
        /\ IsInteger(raw, "retries", 2, 0, 100)
    BY <1>6, SMT DEF BusAccepted
  <2>2. Get(raw, "device", Wrong) \in Paths
    BY <2>1 DEF DeviceAccepted
  <2>3. bus.device \in Paths
    BY <1>1, <2>2, PathAssumption DEF PathAssumption, Get
  <2>4. Get(raw, "retries", 2) \in Nat
    BY <2>1, IntegerAccepted
  <2> QED BY <1>1, <1>4, <1>6, <2>3, <2>4 DEF BusLoaded
<1> QED BY <1>5, <1>6

\* A file that validates has sensors, each on a bus of the file that its driver
\* supports.
LEMMA SensorIsLoaded ==
  ASSUME NEW f \in Files, Validates(f), NEW n \in DOMAIN Load(f).sensors
  PROVE  LET c == Load(f)
             s == c.sensors[n]
             bus == c.buses[s.bus]
         IN /\ s.id \in SensorIds
            /\ s.interval \in Nat \ {0}
            /\ BusLoaded(bus)
            /\ s.driver = "bmp280" => bus.type = "i2c" /\ s.address \in {118, 119}
<1> DEFINE c == Load(f)
           s == c.sensors[n]
           bus == c.buses[s.bus]
           raw == f["sensors"][n]
           buses == Get(f, "buses", NoTable)
<1>1. /\ FileAccepted(f) /\ SensorsAreDistinct(c)
      /\ \A m \in DOMAIN c.sensors : DriverAccepted(c.sensors[m], c.buses[c.sensors[m].bus].type)
  BY DEF Validates
<1>2. /\ c.sensors = [m \in DOMAIN f["sensors"] |-> LoadSensor(f["sensors"][m])]
      /\ c.buses = [id \in DOMAIN buses |-> LoadBus(f["buses"][id])]
  BY DEF Load
<1>3. n \in DOMAIN f["sensors"] /\ s = LoadSensor(raw)
  BY <1>2
<1>4. /\ s.id = raw["id"] /\ s.interval = Get(raw, "interval_ms", 1000)
  BY <1>3 DEF LoadSensor
<1>5. s.id \in SensorIds
  BY <1>3, <1>4, FilesAssumption DEF FilesAssumption
<1>6. s.interval \in Nat \ {0}
  <2>1. SensorAccepted(raw)
    BY <1>1, <1>3 DEF FileAccepted
  <2>2. IsInteger(raw, "interval_ms", 1000, 10, 86400000)
    BY <2>1, SMT DEF SensorAccepted
  <2>3. Get(raw, "interval_ms", 1000) \in Nat /\ Get(raw, "interval_ms", 1000) >= 10
    BY <2>2, IntegerAccepted, SMT
  <2> QED BY <1>4, <2>3
<1>7. s.bus \in DOMAIN c.buses
  BY <1>1 DEF SensorsAreDistinct
<1>8. BusLoaded(bus)
  <2>1. bus = LoadBus(f["buses"][s.bus]) /\ s.bus \in DOMAIN buses
    BY <1>2, <1>7
  <2>2. BusAccepted(f["buses"][s.bus])
    BY <1>1, <2>1 DEF FileAccepted
  <2> QED BY <2>1, <2>2, BusIsLoaded
<1>9. s.driver = "bmp280" => bus.type = "i2c" /\ s.address \in {118, 119}
  <2>1. DriverAccepted(s, bus.type)
    BY <1>1
  <2> QED BY <2>1 DEF DriverAccepted, BMP280Accepts, Supports
<1> QED BY <1>5, <1>6, <1>8, <1>9

\* What _prepare_config() lets through is prepared.
LEMMA ValidatedIsPrepared ==
  ASSUME NEW f \in Files, Validates(f)
  PROVE  Prepared(Load(f))
<1> DEFINE c == Load(f)
<1>1. FileAccepted(f) /\ SensorsAreDistinct(c)
  BY DEF Validates
<1>2. DOMAIN c.sensors \subseteq Nat \ {0}
  BY FilesAssumption DEF FilesAssumption, Load
<1>3. /\ c.collector.queue_size \in Nat \ {0} /\ c.collector.batch_size \in Nat \ {0}
      /\ c.collector.shutdown_timeout_s \in 1 .. 10
  <2>1. c.collector = LoadCollector(Get(f, "collector", NoTable))
    BY DEF Load
  <2>2. CollectorAccepted(Get(f, "collector", NoTable))
    BY <1>1 DEF FileAccepted
  <2> QED BY <2>1, <2>2, CollectorIsLoaded
<1>4. ASSUME NEW n \in DOMAIN c.sensors, NEW m \in 1 .. n - 1,
             c.sensors[m].bus = c.sensors[n].bus, c.buses[c.sensors[n].bus].type = "i2c"
      PROVE  c.sensors[m].address # c.sensors[n].address
  BY <1>1, <1>4 DEF SensorsAreDistinct, MayShareBus
<1>5. ASSUME NEW m \in DOMAIN c.sensors, NEW n \in DOMAIN c.sensors, m # n,
             c.sensors[m].bus = c.sensors[n].bus, c.buses[c.sensors[n].bus].type = "i2c"
      PROVE  c.sensors[m].address # c.sensors[n].address
  <2>1. m \in 1 .. n - 1 \/ n \in 1 .. m - 1
    BY <1>2, <1>5
  <2> QED BY <1>4, <1>5, <2>1
<1> HIDE DEF c
<1>6. \A n \in DOMAIN c.sensors :
       LET s == c.sensors[n]
           bus == c.buses[s.bus]
       IN /\ s.id \in SensorIds
          /\ s.interval \in Nat \ {0}
          /\ BusLoaded(bus)
          /\ s.driver = "bmp280" => bus.type = "i2c" /\ s.address \in {118, 119}
  BY SensorIsLoaded DEF c
<1>7. Prepared(c)
  BY <1>3, <1>5, <1>6 DEF Prepared
<1> QED BY <1>7 DEF c

\* What is prepared is what the rest of the program relies on.
LEMMA PreparedRuns ==
  ASSUME Prepared(config)
  PROVE  RunsAsValidated
<1>1. /\ config.collector.queue_size > 0 /\ config.collector.batch_size > 0
      /\ config.collector.shutdown_timeout_s < 15
  BY DEF Prepared
<1>2. ASSUME NEW n \in DOMAIN config.sensors
      PROVE  LET s == config.sensors[n]
                 bus == config.buses[s.bus]
             IN /\ s.interval > 0 /\ bus.retries >= 0
                /\ bus.type # "mock" => bus.device # None
                /\ s.driver = "bmp280" => bus.type = "i2c"
  BY PathAssumption DEF PathAssumption, Prepared, BusLoaded
<1> QED BY <1>1, <1>2 DEF RunsAsValidated

-----------------------------------------------------------------------------
(* The invariant that the types rest on. *)

Serials == BMP280s \cup {None, OtherChip}
ChipType == [serial : Serials, measures : SensorIds \cup {None},
             result : SensorIds \cup {None}, new : BOOLEAN]
Idle == {"closed", "loop", "dead"}

\* The file becomes a configuration, and the configuration the sensors.
PhaseInv ==
  /\ phase = "unread" => file \in Files
  /\ phase = "prepared" => Prepared(config)
  /\ phase # "collecting" => sensor = NoTable

\* A sensor has a chip if its driver needs one, and attempts to read it.
SensorInv ==
  /\ \A s \in DOMAIN sensor :
       /\ s \in SensorIds /\ sensor[s].retries \in Nat
       /\ sensor[s].driver = "bmp280" => sensor[s].at \in Places
  /\ ChipsSharedAcrossBusesOnly

\* A worker reads sensors of its own bus, and nothing before main has started it.
WorkersInv ==
  /\ pc \in [BusIds -> Idle \cup Initializing \cup Reading]
  /\ task \in [BusIds -> SensorIds \cup {None}]
  /\ attempt \in [BusIds -> Nat]
  /\ initialized \in SUBSET SensorIds
  /\ calibration \in [SensorIds -> Serials]
  /\ reads \in [SensorIds -> Nat]
  /\ phase # "collecting" => initialized = {} /\ \A b \in BusIds : pc[b] = "closed"
  /\ \A b \in BusIds :
       /\ task[b] = None <=> pc[b] \in Idle
       /\ task[b] # None => /\ task[b] \in DOMAIN sensor /\ sensor[task[b]].bus = b
                            /\ attempt[b] <= sensor[task[b]].retries

ChipsInv == chip \in [Places -> ChipType]

TypeInv == PhaseInv /\ SensorInv /\ WorkersInv /\ ChipsInv

LEMMA TypeInvInit == Init => TypeInv
<1> SUFFICES ASSUME Init PROVE TypeInv
  OBVIOUS
<1>1. DOMAIN NoTable = {}
  BY DEF NoTable
<1>2. (CHOOSE serial \in BMP280s : TRUE) \in BMP280s
  BY DevicesAssumption DEF DevicesAssumption
<1>3. ChipsInv
  BY <1>2 DEF Init, ChipsInv, ChipType, Chip, Serials
<1>4. PhaseInv
  BY DEF Init, PhaseInv
<1>5. SensorInv
  BY <1>1 DEF Init, SensorInv, ChipsSharedAcrossBusesOnly
<1>6. WorkersInv
  BY DEF Init, WorkersInv, Serials, Idle
<1> QED BY <1>3, <1>4, <1>5, <1>6 DEF TypeInv

LEMMA TypesHold == TypeInv => DevicesTypeOK
<1> SUFFICES ASSUME TypeInv PROVE DevicesTypeOK
  OBVIOUS
<1>1. DOMAIN sensor \subseteq SensorIds
  BY DEF TypeInv, SensorInv
<1>2. ASSUME NEW b \in BusIds
      PROVE  /\ pc[b] \in {"closed", "loop", "dead"} \cup Initializing \cup Reading
             /\ (task[b] = None) = (pc[b] \in {"closed", "loop", "dead"})
             /\ task[b] # None => attempt[b] \in 0 .. sensor[task[b]].retries
  <2>1. task[b] # None => attempt[b] \in 0 .. sensor[task[b]].retries
    BY DEF TypeInv, WorkersInv, SensorInv
  <2> QED BY <2>1 DEF TypeInv, WorkersInv, Idle
<1>3. ASSUME NEW at \in Places
      PROVE  chip[at].serial \in BMP280s \cup {None, OtherChip}
  BY DEF TypeInv, ChipsInv, ChipType, Serials
<1> QED BY <1>1, <1>2, <1>3 DEF DevicesTypeOK, TypeInv, WorkersInv, Serials

\* Starting the collection makes sensors of what is prepared.
LEMMA StartMakesSensors ==
  ASSUME TypeInv, StartCollecting
  PROVE  SensorInv'
<1> DEFINE c == config
           Chosen(id) == CHOOSE s \in EnabledSensors : s.id = id
<1>1. Prepared(c)
  BY DEF StartCollecting, TypeInv, PhaseInv
<1>2. ASSUME NEW id \in DOMAIN sensor'
      PROVE  \E n \in DOMAIN c.sensors :
               /\ c.sensors[n].id = id
               /\ sensor'[id] = [bus |-> c.sensors[n].bus, driver |-> c.sensors[n].driver,
                                 at |-> At(c.buses[c.sensors[n].bus], c.sensors[n].address),
                                 retries |-> c.buses[c.sensors[n].bus].retries]
  <2>1. \E s \in EnabledSensors : s.id = id
    BY DEF StartCollecting
  <2>2. Chosen(id) \in EnabledSensors /\ Chosen(id).id = id
    BY <2>1
  <2>3. PICK n \in DOMAIN c.sensors : Chosen(id) = c.sensors[n]
    BY <2>2 DEF EnabledSensors
  <2>4. sensor'[id] = [bus |-> Chosen(id).bus, driver |-> Chosen(id).driver,
                       at |-> At(c.buses[Chosen(id).bus], Chosen(id).address),
                       retries |-> c.buses[Chosen(id).bus].retries]
    BY <1>2 DEF StartCollecting
  <2> HIDE DEF Chosen
  <2> QED BY <2>2, <2>3, <2>4
<1> HIDE DEF c
<1>3. ASSUME NEW id \in DOMAIN sensor'
      PROVE  /\ id \in SensorIds /\ sensor'[id].retries \in Nat
             /\ sensor'[id].driver = "bmp280" => sensor'[id].at \in Places
  <2>1. PICK n \in DOMAIN c.sensors :
          /\ c.sensors[n].id = id
          /\ sensor'[id] = [bus |-> c.sensors[n].bus, driver |-> c.sensors[n].driver,
                            at |-> At(c.buses[c.sensors[n].bus], c.sensors[n].address),
                            retries |-> c.buses[c.sensors[n].bus].retries]
    BY <1>2, <1>3
  <2>2. /\ c.sensors[n].id \in SensorIds
        /\ BusLoaded(c.buses[c.sensors[n].bus])
        /\ c.sensors[n].driver = "bmp280" =>
             c.buses[c.sensors[n].bus].type = "i2c" /\ c.sensors[n].address \in {118, 119}
    BY <1>1, <2>1 DEF Prepared
  <2>3. ASSUME c.sensors[n].driver = "bmp280"
        PROVE  At(c.buses[c.sensors[n].bus], c.sensors[n].address) \in Places
    BY <2>2, <2>3 DEF At, Places, BusLoaded
  <2> QED BY <2>1, <2>2, <2>3 DEF BusLoaded
<1>4. ASSUME NEW s \in DOMAIN sensor', NEW t \in DOMAIN sensor', s # t,
             sensor'[s].driver = "bmp280", sensor'[s].at = sensor'[t].at,
             sensor'[s].bus = sensor'[t].bus
      PROVE  FALSE
  <2>1. PICK n \in DOMAIN c.sensors :
          /\ c.sensors[n].id = s
          /\ sensor'[s] = [bus |-> c.sensors[n].bus, driver |-> c.sensors[n].driver,
                           at |-> At(c.buses[c.sensors[n].bus], c.sensors[n].address),
                           retries |-> c.buses[c.sensors[n].bus].retries]
    BY <1>2, <1>4
  <2>2. PICK m \in DOMAIN c.sensors :
          /\ c.sensors[m].id = t
          /\ sensor'[t] = [bus |-> c.sensors[m].bus, driver |-> c.sensors[m].driver,
                           at |-> At(c.buses[c.sensors[m].bus], c.sensors[m].address),
                           retries |-> c.buses[c.sensors[m].bus].retries]
    BY <1>2, <1>4
  <2>3. m # n /\ c.sensors[m].bus = c.sensors[n].bus
    BY <1>4, <2>1, <2>2
  <2>4. c.buses[c.sensors[n].bus].type = "i2c"
    BY <1>1, <1>4, <2>1 DEF Prepared
  <2>5. c.sensors[m].address = c.sensors[n].address
    BY <1>4, <2>1, <2>2 DEF At
  <2> QED BY <1>1, <2>3, <2>4, <2>5 DEF Prepared
<1> QED BY <1>3, <1>4 DEF SensorInv, ChipsSharedAcrossBusesOnly

\* Up to the start of the workers only the phase, the configuration and the
\* sensors change.
LEMMA PhaseStep ==
  ASSUME TypeInv, Refuse \/ Prepare \/ NothingToCollect \/ StartCollecting
  PROVE  TypeInv'
<1> USE DEF TypeInv
<1>1. /\ UNCHANGED <<workerVars, chip>>
      /\ phase \in {"unread", "prepared"}
      /\ sensor = NoTable
  BY DEF Refuse, Prepare, NothingToCollect, StartCollecting, PhaseInv
<1>2. ChipsInv'
  BY <1>1 DEF ChipsInv
<1>3. PhaseInv'
  BY <1>1, ValidatedIsPrepared
     DEF Refuse, Prepare, NothingToCollect, StartCollecting, PhaseInv
<1>4. SensorInv'
  <2>1. CASE StartCollecting
    BY <2>1, StartMakesSensors
  <2>2. CASE ~StartCollecting
    <3>1. sensor' = sensor
      BY <2>2 DEF Refuse, Prepare, NothingToCollect
    <3> QED BY <3>1 DEF SensorInv, ChipsSharedAcrossBusesOnly
  <2> QED BY <2>1, <2>2
<1>5. WorkersInv'
  <2>1. initialized = {} /\ \A b \in BusIds : pc[b] = "closed" /\ task[b] = None
    BY <1>1 DEF WorkersInv, Idle
  <2>2. UNCHANGED <<pc, task, attempt, initialized, calibration, reads>>
    BY <1>1 DEF workerVars
  <2> QED BY <2>1, <2>2 DEF WorkersInv
<1> QED BY <1>2, <1>3, <1>4, <1>5

\* What the file made stays as it is once the collection has begun.
LEMMA FileStays ==
  ASSUME TypeInv, UNCHANGED fileVars
  PROVE  PhaseInv' /\ SensorInv'
<1>1. UNCHANGED <<file, phase, config, sensor>>
  BY DEF fileVars
<1>2. PhaseInv'
  BY <1>1 DEF TypeInv, PhaseInv
<1>3. SensorInv'
  BY <1>1 DEF TypeInv, SensorInv, ChipsSharedAcrossBusesOnly
<1> QED BY <1>2, <1>3

\* The sensor of a worker's task is one of its bus.
LEMMA TaskHasSensor ==
  ASSUME TypeInv, NEW b \in BusIds, task[b] # None
  PROVE  /\ task[b] \in DOMAIN sensor /\ sensor[task[b]].bus = b
         /\ task[b] \in SensorIds /\ sensor[task[b]].retries \in Nat
         /\ attempt[b] \in Nat /\ attempt[b] <= sensor[task[b]].retries
         /\ phase = "collecting" /\ pc[b] \notin Idle
<1>1. /\ task[b] \in DOMAIN sensor /\ sensor[task[b]].bus = b
      /\ attempt[b] \in Nat /\ attempt[b] <= sensor[task[b]].retries
      /\ pc[b] \notin Idle
  BY DEF TypeInv, WorkersInv
<1>2. phase = "collecting"
  BY <1>1 DEF TypeInv, WorkersInv, Idle
<1> QED BY <1>1, <1>2 DEF TypeInv, SensorInv

\* A worker that moves to x, with the task t and at the attempt a.
LEMMA WorkerMoves ==
  ASSUME TypeInv, UNCHANGED fileVars, phase = "collecting",
         NEW b \in BusIds, NEW x \in Idle \cup Initializing \cup Reading,
         NEW t \in SensorIds \cup {None}, NEW a \in Nat,
         pc' = [pc EXCEPT ![b] = x], task' = [task EXCEPT ![b] = t],
         attempt' = [attempt EXCEPT ![b] = a],
         t = None <=> x \in Idle,
         t # None => t \in DOMAIN sensor /\ sensor[t].bus = b /\ a <= sensor[t].retries,
         initialized' \in SUBSET SensorIds, calibration' \in [SensorIds -> Serials],
         reads' \in [SensorIds -> Nat]
  PROVE  WorkersInv'
<1> USE DEF TypeInv
<1>1. UNCHANGED <<phase, sensor>>
  BY DEF fileVars
<1>2. /\ pc' \in [BusIds -> Idle \cup Initializing \cup Reading]
      /\ task' \in [BusIds -> SensorIds \cup {None}]
      /\ attempt' \in [BusIds -> Nat]
  BY DEF WorkersInv
<1>3. /\ pc'[b] = x /\ task'[b] = t /\ attempt'[b] = a
      /\ \A o \in BusIds \ {b} : pc'[o] = pc[o] /\ task'[o] = task[o] /\ attempt'[o] = attempt[o]
  BY DEF WorkersInv
<1>4. ASSUME NEW o \in BusIds
      PROVE  /\ task'[o] = None <=> pc'[o] \in Idle
             /\ task'[o] # None => /\ task'[o] \in DOMAIN sensor /\ sensor[task'[o]].bus = o
                                   /\ attempt'[o] <= sensor[task'[o]].retries
  <2>1. CASE o = b
    BY <1>3, <2>1
  <2>2. CASE o # b
    BY <1>3, <2>2 DEF WorkersInv
  <2> QED BY <2>1, <2>2
<1> QED BY <1>1, <1>2, <1>4 DEF WorkersInv

\* A worker that goes on with its task, or is done with it.
LEMMA WorkerGoesOn ==
  ASSUME TypeInv, UNCHANGED fileVars,
         NEW b \in BusIds, task[b] # None,
         NEW x \in Initializing \cup Reading \cup {"loop"},
         pc' = [pc EXCEPT ![b] = x],
         IF x = "loop" THEN task' = [task EXCEPT ![b] = None] ELSE UNCHANGED task,
         UNCHANGED attempt,
         initialized' \in SUBSET SensorIds, calibration' \in [SensorIds -> Serials],
         reads' \in [SensorIds -> Nat]
  PROVE  WorkersInv'
<1>1. /\ task[b] \in DOMAIN sensor /\ sensor[task[b]].bus = b
      /\ task[b] \in SensorIds /\ attempt[b] \in Nat
      /\ attempt[b] <= sensor[task[b]].retries /\ phase = "collecting"
  BY TaskHasSensor
<1>2. attempt' = [attempt EXCEPT ![b] = attempt[b]]
  BY DEF TypeInv, WorkersInv
<1>3. CASE x = "loop"
  <2>1. task' = [task EXCEPT ![b] = None] /\ x \in Idle
    BY <1>3 DEF Idle
  <2> QED BY <1>1, <1>2, <2>1, WorkerMoves
<1>4. CASE x # "loop"
  <2>1. task' = [task EXCEPT ![b] = task[b]]
    BY <1>4 DEF TypeInv, WorkersInv
  <2>2. x \notin Idle
    BY <1>4 DEF Idle, Initializing, Reading
  <2>3. /\ x \in Idle \cup Initializing \cup Reading /\ task[b] \in SensorIds \cup {None}
        /\ task[b] = None <=> x \in Idle
        /\ task[b] # None => /\ task[b] \in DOMAIN sensor /\ sensor[task[b]].bus = b
                             /\ attempt[b] <= sensor[task[b]].retries
    BY <1>1, <1>4, <2>2
  <2> QED BY <1>1, <1>2, <2>1, <2>3, WorkerMoves
<1> QED BY <1>3, <1>4

LEMMA BusWorkerTypes ==
  ASSUME TypeInv, NEW b \in BusIds,
         OpenTransport(b) \/ CloseTransport(b) \/ \E s \in SensorIds : TakeTask(b, s)
  PROVE  TypeInv'
<1>1. UNCHANGED fileVars /\ UNCHANGED <<calibration, reads, initialized, chip>>
  BY DEF OpenTransport, CloseTransport, TakeTask
<1>2. ChipsInv' /\ initialized' \in SUBSET SensorIds /\ calibration' \in [SensorIds -> Serials]
      /\ reads' \in [SensorIds -> Nat]
  BY <1>1 DEF TypeInv, ChipsInv, WorkersInv
<1>3. CASE OpenTransport(b) \/ CloseTransport(b)
  <2>1. PICK x \in {"loop", "dead"} : pc' = [pc EXCEPT ![b] = x]
    BY <1>3 DEF OpenTransport, CloseTransport
  <2>2. x \in Idle /\ task[b] = None /\ UNCHANGED <<task, attempt>>
    BY <1>3 DEF OpenTransport, CloseTransport, TypeInv, WorkersInv, Idle
  <2>3. phase = "collecting"
    <3>1. CASE OpenTransport(b)
      BY <3>1 DEF OpenTransport, HasWorker, TypeInv, PhaseInv, NoTable
    <3>2. CASE CloseTransport(b)
      BY <3>2 DEF CloseTransport, TypeInv, WorkersInv
    <3> QED BY <1>3, <3>1, <3>2
  <2>4. task' = [task EXCEPT ![b] = None] /\ attempt' = [attempt EXCEPT ![b] = attempt[b]]
        /\ attempt[b] \in Nat
    BY <2>2 DEF TypeInv, WorkersInv
  <2>5. WorkersInv'
    BY <1>1, <1>2, <2>1, <2>2, <2>3, <2>4, WorkerMoves
  <2> QED BY <1>1, <1>2, <2>5, FileStays DEF TypeInv
<1>4. ASSUME NEW s \in SensorIds, TakeTask(b, s)
      PROVE  TypeInv'
  <2>1. PICK x \in {"measure", "identify"} : pc' = [pc EXCEPT ![b] = x]
    BY <1>4 DEF TakeTask
  <2>2. x \in Initializing \cup Reading /\ x \notin Idle
    BY DEF Initializing, Reading, Idle
  <2>3. /\ s \in DOMAIN sensor /\ sensor[s].bus = b /\ 0 <= sensor[s].retries /\ s # None
        /\ task' = [task EXCEPT ![b] = s] /\ attempt' = [attempt EXCEPT ![b] = 0]
    BY <1>4, DevicesAssumption DEF DevicesAssumption, TakeTask, TypeInv, SensorInv
  <2>4. phase = "collecting"
    BY <1>4 DEF TakeTask, TypeInv, WorkersInv
  <2>5. WorkersInv'
    BY <1>1, <1>2, <2>1, <2>2, <2>3, <2>4, WorkerMoves
  <2> QED BY <1>1, <1>2, <2>5, FileStays DEF TypeInv
<1> QED BY <1>3, <1>4

\* The chip of a sensor that is being read is in its place.
LEMMA ChipInPlace ==
  ASSUME TypeInv, NEW s \in DOMAIN sensor, sensor[s].driver = "bmp280"
  PROVE  sensor[s].at \in Places /\ ChipOf(s) \in ChipType
<1>1. sensor[s].at \in Places
  BY DEF TypeInv, SensorInv
<1> QED BY <1>1 DEF TypeInv, ChipsInv, ChipOf

LEMMA DriverTypes ==
  ASSUME TypeInv, NEW b \in BusIds, NEW s \in SensorIds, DriverStep(b, s)
  PROVE  TypeInv'
<1>1. UNCHANGED fileVars /\ task[b] = s /\ task[b] # None /\ s \in DOMAIN sensor /\ sensor[s].bus = b
  <2>1. UNCHANGED fileVars /\ task[b] = s
    BY DEF DriverStep, ReadChipId, WaitUntilReady, ReadCalibration, StartMeasurement, FetchData,
           DriverRaises, MockSample, Transfers, Doing
  <2>2. s # None
    BY DevicesAssumption DEF DevicesAssumption
  <2> QED BY <2>1, <2>2, TaskHasSensor
<1>2. /\ initialized \in SUBSET SensorIds /\ calibration \in [SensorIds -> Serials]
      /\ reads \in [SensorIds -> Nat]
  BY DEF TypeInv, WorkersInv
<1>3. CASE ReadChipId(b, s) \/ WaitUntilReady(b, s)
  <2>1. UNCHANGED <<task, attempt, initialized, calibration, reads, chip>>
    BY <1>3 DEF ReadChipId, WaitUntilReady
  <2>2. PICK x \in {"settle", "calibrate", "fetch"} : pc' = [pc EXCEPT ![b] = x]
    BY <1>3 DEF ReadChipId, WaitUntilReady, Transfers
  <2>3. x \in Initializing \cup Reading \cup {"loop"} /\ x # "loop"
    BY DEF Initializing, Reading
  <2>4. WorkersInv'
    BY <1>1, <1>2, <2>1, <2>2, <2>3, WorkerGoesOn
  <2> QED BY <1>1, <2>1, <2>4, FileStays DEF TypeInv, ChipsInv
<1>4. CASE ReadCalibration(b, s)
  <2>1. /\ UNCHANGED <<task, attempt, reads, chip>>
        /\ pc' = [pc EXCEPT ![b] = "measure"] /\ initialized' = initialized \cup {s}
        /\ calibration' = [calibration EXCEPT ![s] = ChipOf(s).serial]
    BY <1>4 DEF ReadCalibration, Transfers
  <2>2. ChipOf(s).serial \in Serials
    BY <1>1, <1>4, ChipInPlace DEF ReadCalibration, Transfers, Doing, ChipType
  <2>3. initialized' \in SUBSET SensorIds /\ calibration' \in [SensorIds -> Serials]
    BY <1>2, <2>1, <2>2
  <2>4. "measure" \in Initializing \cup Reading \cup {"loop"}
    BY DEF Reading
  <2>5. WorkersInv'
    BY <1>1, <1>2, <2>1, <2>3, <2>4, WorkerGoesOn
  <2> QED BY <1>1, <2>1, <2>5, FileStays DEF TypeInv, ChipsInv
<1>5. CASE StartMeasurement(b, s)
  <2>1. /\ UNCHANGED <<task, attempt, initialized, calibration, reads>>
        /\ pc' = [pc EXCEPT ![b] = "convert"]
    BY <1>5 DEF StartMeasurement, Transfers
  <2>2. "convert" \in Initializing \cup Reading \cup {"loop"}
    BY DEF Reading
  <2>3. WorkersInv'
    BY <1>1, <1>2, <2>1, <2>2, WorkerGoesOn
  <2>4. sensor[s].at \in Places
    BY <1>1, <1>5, ChipInPlace DEF StartMeasurement, Transfers, Doing
  <2>5. ChipsInv'
    BY <1>5, <2>4 DEF StartMeasurement, TypeInv, ChipsInv, ChipType
  <2> QED BY <1>1, <2>3, <2>5, FileStays DEF TypeInv
<1>6. CASE FetchData(b, s) \/ MockSample(b, s)
  <2>1. /\ UNCHANGED <<attempt, calibration, chip>>
        /\ pc' = [pc EXCEPT ![b] = "loop"] /\ task' = [task EXCEPT ![b] = None]
        /\ reads' = [reads EXCEPT ![s] = @ + 1]
        /\ initialized' \in {initialized, initialized \cup {s}}
    BY <1>6 DEF FetchData, MockSample, Return
  <2>2. reads' \in [SensorIds -> Nat] /\ initialized' \in SUBSET SensorIds
    BY <1>2, <2>1
  <2>3. WorkersInv'
    BY <1>1, <1>2, <2>1, <2>2, WorkerGoesOn
  <2> QED BY <1>1, <2>1, <2>3, FileStays DEF TypeInv, ChipsInv
<1>7. CASE DriverRaises(b, s)
  <2>1. UNCHANGED <<calibration, reads, chip>>
    BY <1>7 DEF DriverRaises
  <2>2. CASE Retry(b, s)
    <3>1. /\ attempt' = [attempt EXCEPT ![b] = attempt[b] + 1]
          /\ pc' = [pc EXCEPT ![b] = "measure"]
          /\ UNCHANGED <<task, initialized>> /\ attempt[b] < sensor[s].retries
      BY <2>2 DEF Retry, AttemptsLeft
    <3>2. /\ attempt[b] \in Nat /\ sensor[s].retries \in Nat /\ phase = "collecting"
      BY <1>1, TaskHasSensor
    <3>3. PICK a \in Nat : attempt' = [attempt EXCEPT ![b] = a] /\ a <= sensor[s].retries
      <4>1. attempt[b] + 1 \in Nat /\ attempt[b] + 1 <= sensor[s].retries
        BY <3>1, <3>2
      <4>2. attempt' = [attempt EXCEPT ![b] = attempt[b] + 1]
        BY <3>1
      <4> QED BY <4>1, <4>2
    <3>4. task' = [task EXCEPT ![b] = s]
      BY <1>1, <3>1 DEF TypeInv, WorkersInv
    <3>5. /\ "measure" \in Idle \cup Initializing \cup Reading
          /\ s \in SensorIds \cup {None}
          /\ s = None <=> "measure" \in Idle
      BY <1>1 DEF Idle, Reading
    <3>6. WorkersInv'
      BY <1>1, <1>2, <2>1, <3>1, <3>2, <3>3, <3>4, <3>5, WorkerMoves
    <3> QED BY <1>1, <2>1, <3>6, FileStays DEF TypeInv, ChipsInv
  <2>3. CASE FailTask(b, s)
    <3>1. /\ UNCHANGED attempt /\ initialized' = initialized \ {s}
          /\ pc' = [pc EXCEPT ![b] = "loop"] /\ task' = [task EXCEPT ![b] = None]
      BY <2>3 DEF FailTask, Discarded
    <3>2. initialized' \in SUBSET SensorIds
      BY <1>2, <3>1
    <3>3. WorkersInv'
      BY <1>1, <1>2, <2>1, <3>1, <3>2, WorkerGoesOn
    <3> QED BY <1>1, <2>1, <3>3, FileStays DEF TypeInv, ChipsInv
  <2> QED BY <1>7, <2>2, <2>3 DEF DriverRaises
<1> QED BY <1>3, <1>4, <1>5, <1>6, <1>7 DEF DriverStep

Hardware == \E at \in Places : \/ FinishMeasurement(at) \/ ResetChip(at) \/ Unplug(at)
                               \/ \E serial \in BMP280s \cup {OtherChip} : Plug(at, serial)

LEMMA HardwareTypes ==
  ASSUME TypeInv, Hardware
  PROVE  TypeInv'
<1>1. UNCHANGED <<fileVars, workerVars>>
  BY DEF Hardware, FinishMeasurement, ResetChip, Unplug, Plug
<1>2. WorkersInv'
  BY <1>1 DEF fileVars, workerVars, TypeInv, WorkersInv
<1>3. PICK at \in Places : \/ FinishMeasurement(at) \/ ResetChip(at) \/ Unplug(at)
                           \/ \E serial \in BMP280s \cup {OtherChip} : Plug(at, serial)
  BY DEF Hardware
<1>4. PICK c \in ChipType : chip' = [chip EXCEPT ![at] = c]
  <2>1. chip \in [Places -> ChipType] /\ chip[at] \in ChipType
    BY DEF TypeInv, ChipsInv
  <2>2. CASE FinishMeasurement(at)
    <3>1. [chip[at] EXCEPT !.measures = None, !.result = chip[at].measures, !.new = TRUE] \in ChipType
      BY <2>1 DEF ChipType
    <3>2. chip' = [chip EXCEPT ![at] =
                     [chip[at] EXCEPT !.measures = None, !.result = chip[at].measures, !.new = TRUE]]
      BY <2>1, <2>2 DEF FinishMeasurement, ChipType
    <3> QED BY <3>1, <3>2
  <2>3. CASE ResetChip(at)
    <3>1. Chip(chip[at].serial) \in ChipType
      BY <2>1 DEF Chip, ChipType
    <3>2. chip' = [chip EXCEPT ![at] = Chip(chip[at].serial)]
      BY <2>3 DEF ResetChip
    <3> QED BY <3>1, <3>2
  <2>4. CASE Unplug(at)
    <3>1. Chip(None) \in ChipType
      BY DEF Chip, ChipType, Serials
    <3> QED BY <2>4, <3>1 DEF Unplug
  <2>5. ASSUME NEW serial \in BMP280s \cup {OtherChip}, Plug(at, serial)
        PROVE  \E c \in ChipType : chip' = [chip EXCEPT ![at] = c]
    <3>1. Chip(serial) \in ChipType
      BY DEF Chip, ChipType, Serials
    <3> QED BY <2>5, <3>1 DEF Plug
  <2> QED BY <1>3, <2>2, <2>3, <2>4, <2>5
<1>5. ChipsInv'
  BY <1>4 DEF TypeInv, ChipsInv
<1> QED BY <1>1, <1>2, <1>5, FileStays DEF TypeInv

LEMMA TypeStep ==
  ASSUME TypeInv, [Next]_vars
  PROVE  TypeInv'
<1>1. CASE Refuse \/ Prepare \/ NothingToCollect \/ StartCollecting
  BY <1>1, PhaseStep
<1>2. CASE RequestStop \/ UNCHANGED vars
  <2>1. UNCHANGED <<fileVars, workerVars, chip>>
    BY <1>2 DEF RequestStop, vars
  <2>2. WorkersInv' /\ ChipsInv'
    BY <2>1 DEF fileVars, workerVars, TypeInv, WorkersInv, ChipsInv
  <2> QED BY <2>1, <2>2, FileStays DEF TypeInv
<1>3. ASSUME NEW b \in BusIds, WorkerStep(b)
      PROVE  TypeInv'
  BY <1>3, BusWorkerTypes, DriverTypes DEF WorkerStep
<1>4. CASE Hardware
  BY <1>4, HardwareTypes
<1> QED BY <1>1, <1>2, <1>3, <1>4 DEF Next, Hardware

THEOREM DevicesCorrect == Spec => []TypeInv
<1>1. Init => TypeInv
  BY TypeInvInit
<1>2. TypeInv /\ [Next]_vars => TypeInv'
  BY TypeStep
<1> QED BY <1>1, <1>2, PTL DEF Spec

\* A worker is in the protocol exactly while it has a task, of a sensor that was
\* configured, and attempts a read at most retries + 1 times (BusWorker.run()).
THEOREM DevicesAreTyped == Spec => []DevicesTypeOK
<1>1. TypeInv => DevicesTypeOK
  BY TypesHold
<1> QED BY <1>1, DevicesCorrect, PTL

\* Whatever is in the configuration file, what load_config() and prepare() let
\* through has the bounds that the scheduler, the queue, the workers and the
\* unit file rely on.
THEOREM ValidatedFilesRun == Spec => []RunsAsValidated
<1>1. TypeInv => RunsAsValidated
  BY PreparedRuns DEF TypeInv, PhaseInv, RunsAsValidated
<1> QED BY <1>1, DevicesCorrect, PTL

\* Two sensors on one bus never get the same chip, whatever the file says
\* (_validate_collisions() of config.py).
THEOREM ChipsAreSharedAcrossBuses == Spec => []ChipsSharedAcrossBusesOnly
<1>1. TypeInv => ChipsSharedAcrossBusesOnly
  BY DEF TypeInv, SensorInv
<1> QED BY <1>1, DevicesCorrect, PTL

-----------------------------------------------------------------------------
(* Calibration. *)

HasChip(s) == s \in DOMAIN sensor /\ sensor[s].driver = "bmp280"

\* What a driver that is initialized believes of its chip was read from a chip,
\* and from the one that is there unless it was exchanged since.
Believed(s) ==
  HasChip(s) /\ s \in initialized =>
    calibration[s] # None /\ (calibration[s] = ChipOf(s).serial \/ s \in swapped)

\* A worker initializes a driver that is not, and reads with one that is.
InStep(b) ==
  HasChip(task[b]) =>
    /\ pc[b] \in Initializing => task[b] \notin initialized
    /\ pc[b] \in Reading => task[b] \in initialized

CalibrationInv == (\A s \in SensorIds : Believed(s)) /\ (\A b \in BusIds : InStep(b))

\* Two workers have no sensor in common.
LEMMA TasksDiffer ==
  ASSUME TypeInv, NEW b \in BusIds, NEW o \in BusIds, o # b, task[b] # None
  PROVE  task[o] # task[b]
BY TaskHasSensor

\* A step that leaves the drivers alone, exchanges no chip unnoticed and leaves
\* every task in step keeps the invariant.
LEMMA BeliefsStay ==
  ASSUME CalibrationInv, UNCHANGED <<sensor, initialized, calibration>>,
         NEW s \in SensorIds,
         HasChip(s) => (ChipOf(s).serial' = ChipOf(s).serial /\ (s \in swapped => s \in swapped'))
                       \/ s \in swapped'
  PROVE  Believed(s)'
BY DEF CalibrationInv, Believed, HasChip, ChipOf

LEMMA StepsStay ==
  ASSUME UNCHANGED <<sensor, initialized>>, NEW b \in BusIds, InStep(b),
         UNCHANGED <<pc, task>> \/ (pc'[b] = pc[b] /\ task'[b] = task[b])
  PROVE  InStep(b)'
BY DEF InStep, HasChip

\* No step of the hardware exchanges a chip without a trace.
LEMMA HardwareCalibration ==
  ASSUME TypeInv, CalibrationInv, Hardware
  PROVE  CalibrationInv'
<1>1. UNCHANGED <<sensor, initialized, calibration, pc, task>>
  BY DEF Hardware, FinishMeasurement, ResetChip, Unplug, Plug, fileVars, workerVars
<1>2. PICK at \in Places : \/ FinishMeasurement(at) \/ ResetChip(at) \/ Unplug(at)
                           \/ \E serial \in BMP280s \cup {OtherChip} : Plug(at, serial)
  BY DEF Hardware
<1>3. swapped \subseteq swapped' /\ \A p \in Places \ {at} : chip'[p] = chip[p]
  BY <1>2 DEF FinishMeasurement, ResetChip, Unplug, Plug, TypeInv, ChipsInv
<1>4. ASSUME NEW s \in SensorIds, HasChip(s)
      PROVE  Believed(s)'
  <2>1. sensor[s].at \in Places
    BY <1>4, ChipInPlace DEF HasChip
  <2>2. CASE sensor[s].at # at
    BY <1>1, <1>3, <2>1, <2>2, BeliefsStay DEF ChipOf
  <2>3. CASE sensor[s].at = at
    <3>1. CASE FinishMeasurement(at) \/ ResetChip(at)
      <4>1. chip'[at].serial = chip[at].serial
        BY <2>1, <2>3, <3>1 DEF FinishMeasurement, ResetChip, Chip, TypeInv, ChipsInv, ChipType
      <4> QED BY <1>1, <1>3, <2>3, <4>1, BeliefsStay DEF ChipOf
    <3>2. CASE Unplug(at)
      <4>1. s \in swapped'
        BY <1>4, <2>3, <3>2 DEF Unplug, Users, HasChip
      <4> QED BY <1>1, <4>1, BeliefsStay
    <3>3. ASSUME NEW serial \in BMP280s \cup {OtherChip}, Plug(at, serial)
          PROVE  Believed(s)'
      <4>1. ChipOf(s).serial = None /\ swapped' = swapped
        BY <2>3, <3>3 DEF Plug, ChipOf
      <4>2. s \in initialized => calibration[s] # None /\ s \in swapped
        BY <1>4, <4>1 DEF CalibrationInv, Believed
      <4> QED BY <1>1, <4>1, <4>2 DEF Believed, HasChip
    <3> QED BY <1>2, <3>1, <3>2, <3>3
  <2> QED BY <2>2, <2>3
<1>5. ASSUME NEW s \in SensorIds, ~HasChip(s)
      PROVE  Believed(s)'
  BY <1>1, <1>5 DEF Believed, HasChip
<1>6. ASSUME NEW b \in BusIds
      PROVE  InStep(b)'
  BY <1>1, StepsStay DEF CalibrationInv
<1> QED BY <1>4, <1>5, <1>6 DEF CalibrationInv

\* A worker that opens or closes its transport or takes a task.
LEMMA BusWorkerCalibration ==
  ASSUME TypeInv, CalibrationInv, NEW b \in BusIds,
         OpenTransport(b) \/ CloseTransport(b) \/ \E s \in SensorIds : TakeTask(b, s)
  PROVE  CalibrationInv'
<1>1. UNCHANGED <<sensor, initialized, calibration, chip, swapped>>
  BY DEF OpenTransport, CloseTransport, TakeTask, fileVars
<1>2. ASSUME NEW s \in SensorIds
      PROVE  Believed(s)'
  BY <1>1, BeliefsStay DEF ChipOf
<1>3. ASSUME NEW o \in BusIds, o # b
      PROVE  InStep(o)'
  <2>1. pc'[o] = pc[o] /\ task'[o] = task[o]
    BY <1>3 DEF OpenTransport, CloseTransport, TakeTask, TypeInv, WorkersInv
  <2> QED BY <1>1, <2>1, StepsStay DEF CalibrationInv
<1>4. InStep(b)'
  <2>1. CASE OpenTransport(b) \/ CloseTransport(b)
    <3>1. pc'[b] \notin Initializing \cup Reading
      BY <2>1 DEF OpenTransport, CloseTransport, TypeInv, WorkersInv, Initializing, Reading
    <3> QED BY <3>1 DEF InStep
  <2>2. ASSUME NEW s \in SensorIds, TakeTask(b, s)
        PROVE  InStep(b)'
    <3>1. /\ task'[b] = s
          /\ s \in initialized => pc'[b] = "measure"
          /\ s \notin initialized => pc'[b] = "identify"
      BY <2>2 DEF TakeTask, TypeInv, WorkersInv
    <3> QED BY <1>1, <3>1 DEF InStep, Initializing, Reading
  <2> QED BY <2>1, <2>2
<1> QED BY <1>2, <1>3, <1>4 DEF CalibrationInv

\* A step of a driver changes what is believed of its own chip only.
LEMMA DriverCalibration ==
  ASSUME TypeInv, CalibrationInv, NEW b \in BusIds, NEW s \in SensorIds, DriverStep(b, s)
  PROVE  CalibrationInv'
<1>1. UNCHANGED sensor /\ task[b] = s /\ task[b] # None /\ s \in DOMAIN sensor
  <2>1. UNCHANGED sensor /\ task[b] = s
    BY DEF DriverStep, ReadChipId, WaitUntilReady, ReadCalibration, StartMeasurement, FetchData,
           DriverRaises, MockSample, Transfers, Doing, fileVars
  <2>2. s # None
    BY DevicesAssumption DEF DevicesAssumption
  <2> QED BY <2>1, <2>2, TaskHasSensor
<1>2. /\ initialized \ {s} \subseteq initialized' /\ initialized' \subseteq initialized \cup {s}
      /\ swapped \ {s} \subseteq swapped'
      /\ \A t \in SensorIds \ {s} : calibration'[t] = calibration[t]
      /\ \A o \in BusIds \ {b} : pc'[o] = pc[o] /\ task'[o] = task[o]
  BY DEF DriverStep, ReadChipId, WaitUntilReady, ReadCalibration, StartMeasurement, FetchData,
         DriverRaises, MockSample, Transfers, Return, Retry, FailTask, Discarded, TypeInv, WorkersInv
<1>3. \A at \in Places : chip'[at].serial = chip[at].serial
  <2>1. CASE StartMeasurement(b, s)
    BY <2>1 DEF StartMeasurement, TypeInv, ChipsInv, ChipType
  <2>2. CASE ~StartMeasurement(b, s)
    <3>1. chip' = chip
      BY <2>2 DEF DriverStep, ReadChipId, WaitUntilReady, ReadCalibration, FetchData, DriverRaises,
                  MockSample
    <3> QED BY <3>1
  <2> QED BY <2>1, <2>2
<1>4. ASSUME NEW t \in SensorIds, t # s
      PROVE  Believed(t)'
  <2>1. HasChip(t) => ChipOf(t).serial' = ChipOf(t).serial
    BY <1>1, <1>3, ChipInPlace DEF HasChip, ChipOf
  <2> QED BY <1>1, <1>2, <1>4, <2>1 DEF CalibrationInv, Believed, HasChip
<1>5. ASSUME NEW o \in BusIds, o # b
      PROVE  InStep(o)'
  <2>1. task[o] # s
    BY <1>1, <1>5, TasksDiffer
  <2> QED BY <1>1, <1>2, <1>5, <2>1 DEF CalibrationInv, InStep, HasChip
<1>6. Believed(s)' /\ InStep(b)'
  <2>1. CASE ~HasChip(s)
    <3>1. task'[b] \in {s, None} \/ task'[b] = task[b]
      BY <1>1 DEF DriverStep, ReadChipId, WaitUntilReady, ReadCalibration, StartMeasurement, FetchData,
                  DriverRaises, MockSample, Return, Retry, FailTask, TypeInv, WorkersInv
    <3>2. None \notin DOMAIN sensor
      BY DevicesAssumption DEF DevicesAssumption, TypeInv, SensorInv
    <3> QED BY <1>1, <2>1, <3>1, <3>2 DEF Believed, InStep, HasChip
  <2>2. ASSUME HasChip(s)
        PROVE  /\ ChipOf(s).serial' = ChipOf(s).serial
               /\ pc[b] \in Initializing => s \notin initialized
               /\ pc[b] \in Reading => s \in initialized
    BY <1>1, <1>3, <2>2, ChipInPlace DEF HasChip, ChipOf, CalibrationInv, InStep
  <2>3. None \notin DOMAIN sensor
    BY DevicesAssumption DEF DevicesAssumption, TypeInv, SensorInv
  <2>4. CASE HasChip(s) /\ ReadChipId(b, s)
    <3>1. /\ UNCHANGED <<initialized, calibration, task>> /\ pc[b] = "identify"
          /\ pc'[b] = "settle"
      BY <2>4 DEF ReadChipId, Transfers, Doing, TypeInv, WorkersInv
    <3>2. s \notin initialized
      BY <2>2, <2>4, <3>1 DEF Initializing
    <3> QED BY <1>1, <3>1, <3>2 DEF Believed, InStep, Reading, Initializing
  <2>5. CASE HasChip(s) /\ WaitUntilReady(b, s)
    <3>1. /\ UNCHANGED <<initialized, calibration, task, swapped>>
          /\ \/ pc[b] = "settle" /\ pc'[b] = "calibrate"
             \/ pc[b] = "convert" /\ pc'[b] = "fetch"
      BY <2>5 DEF WaitUntilReady, Transfers, Doing, TypeInv, WorkersInv
    <3>2. Believed(s)'
      BY <1>1, <2>2, <2>5, <3>1, BeliefsStay
    <3> QED BY <1>1, <2>2, <2>5, <3>1, <3>2 DEF InStep, Initializing, Reading
  <2>6. CASE HasChip(s) /\ ReadCalibration(b, s)
    <3>1. /\ calibration'[s] = ChipOf(s).serial /\ ChipOf(s).serial # None /\ s \in initialized'
          /\ pc'[b] = "measure" /\ task'[b] = s
      BY <1>1, <2>6 DEF ReadCalibration, Transfers, Doing, TypeInv, WorkersInv
    <3> QED BY <2>2, <2>6, <3>1 DEF Believed, InStep, Initializing, Reading
  <2>7. CASE HasChip(s) /\ StartMeasurement(b, s)
    <3>1. /\ UNCHANGED <<initialized, calibration, task, swapped>>
          /\ pc[b] = "measure" /\ pc'[b] = "convert"
      BY <2>7 DEF StartMeasurement, Transfers, Doing, TypeInv, WorkersInv
    <3>2. Believed(s)'
      BY <1>1, <2>2, <2>7, <3>1, BeliefsStay
    <3> QED BY <1>1, <2>2, <2>7, <3>1, <3>2 DEF InStep, Initializing, Reading
  <2>8. CASE HasChip(s) /\ FetchData(b, s)
    <3>1. UNCHANGED <<initialized, calibration, swapped>> /\ task'[b] = None
      BY <2>8 DEF FetchData, Return, TypeInv, WorkersInv
    <3>2. Believed(s)'
      BY <1>1, <2>2, <2>8, <3>1, BeliefsStay
    <3> QED BY <1>1, <2>3, <3>1, <3>2 DEF InStep, HasChip
  <2>9. CASE HasChip(s) /\ DriverRaises(b, s)
    <3>1. CASE Retry(b, s)
      <4>1. /\ UNCHANGED <<initialized, calibration, task, swapped>>
            /\ pc[b] \in Reading /\ pc'[b] = "measure"
        BY <2>9, <3>1 DEF DriverRaises, Retry, TypeInv, WorkersInv
      <4>2. Believed(s)'
        BY <1>1, <2>2, <2>9, <4>1, BeliefsStay
      <4> QED BY <1>1, <2>2, <2>9, <4>1, <4>2 DEF InStep, Initializing, Reading
    <3>2. CASE FailTask(b, s)
      <4>1. s \notin initialized' /\ task'[b] = None
        BY <3>2 DEF FailTask, Discarded, TypeInv, WorkersInv
      <4> QED BY <1>1, <2>3, <4>1 DEF Believed, InStep, HasChip
    <3> QED BY <2>9, <3>1, <3>2 DEF DriverRaises
  <2>10. ASSUME HasChip(s), MockSample(b, s)
         PROVE  FALSE
    BY <2>10 DEF HasChip, MockSample
  <2> QED BY <2>1, <2>4, <2>5, <2>6, <2>7, <2>8, <2>9, <2>10 DEF DriverStep
<1> QED BY <1>4, <1>5, <1>6 DEF CalibrationInv

LEMMA CalibrationStep ==
  ASSUME TypeInv, CalibrationInv, [Next]_vars
  PROVE  CalibrationInv'
<1>1. CASE Refuse \/ Prepare \/ NothingToCollect \/ StartCollecting
  <2>1. /\ UNCHANGED <<pc, initialized>>
        /\ initialized = {} /\ \A b \in BusIds : pc[b] = "closed"
    BY <1>1 DEF Refuse, Prepare, NothingToCollect, StartCollecting, workerVars, TypeInv, WorkersInv
  <2> QED BY <2>1 DEF CalibrationInv, Believed, InStep, Initializing, Reading
<1>2. CASE RequestStop \/ UNCHANGED vars
  <2>1. UNCHANGED <<sensor, initialized, calibration, pc, task, chip, swapped>>
    BY <1>2 DEF RequestStop, vars, fileVars, workerVars
  <2> QED BY <2>1 DEF CalibrationInv, Believed, InStep, HasChip, ChipOf
<1>3. ASSUME NEW b \in BusIds, WorkerStep(b)
      PROVE  CalibrationInv'
  BY <1>3, BusWorkerCalibration, DriverCalibration DEF WorkerStep
<1>4. CASE Hardware
  BY <1>4, HardwareCalibration
<1> QED BY <1>1, <1>2, <1>3, <1>4 DEF Next, Hardware

THEOREM CalibrationCorrect == Spec => [](TypeInv /\ CalibrationInv)
<1>1. Init => TypeInv /\ CalibrationInv
  BY TypeInvInit DEF Init, CalibrationInv, Believed, InStep, Initializing, Reading
<1>2. TypeInv /\ CalibrationInv /\ [Next]_vars => (TypeInv /\ CalibrationInv)'
  BY TypeStep, CalibrationStep
<1> QED BY <1>1, <1>2, PTL DEF Spec

\* Only the step that fetches the data returns a value to the worker.
LEMMA ValueIsFetched ==
  ASSUME TypeInv, [Next]_vars, NEW s \in SensorIds, Returns(s)
  PROVE  \E b \in BusIds : FetchData(b, s)
<1>1. reads'[s] # reads[s] /\ sensor[s].driver = "bmp280" /\ reads \in [SensorIds -> Nat]
  BY DEF Returns, TypeInv, WorkersInv
<1>2. PICK b \in BusIds, t \in SensorIds : FetchData(b, t) \/ MockSample(b, t)
  BY <1>1 DEF Next, Refuse, Prepare, NothingToCollect, StartCollecting, RequestStop, WorkerStep,
              OpenTransport, CloseTransport, TakeTask, DriverStep, ReadChipId, WaitUntilReady,
              ReadCalibration, StartMeasurement, DriverRaises, FinishMeasurement, ResetChip, Unplug,
              Plug, workerVars, vars
<1>3. reads' = [reads EXCEPT ![t] = @ + 1]
  BY <1>2 DEF FetchData, MockSample, Return
<1>4. t = s
  BY <1>1, <1>3
<1> QED BY <1>1, <1>2, <1>4 DEF MockSample

\* A value is computed with the calibration of the chip that measured it, unless
\* the chip was exchanged after a task that did not fail.
THEOREM CalibrationMatches == Spec => CalibrationIsTheChips
<1>1. TypeInv /\ CalibrationInv /\ [Next]_vars
        => [\A s \in SensorIds :
              Returns(s) => calibration[s] = ChipOf(s).serial \/ s \in swapped]_vars
  <2> SUFFICES ASSUME TypeInv, CalibrationInv, [Next]_vars, NEW s \in SensorIds, Returns(s)
               PROVE  calibration[s] = ChipOf(s).serial \/ s \in swapped
    OBVIOUS
  <2>1. PICK b \in BusIds : FetchData(b, s)
    BY ValueIsFetched
  <2>2. pc[b] = "fetch" /\ task[b] = s /\ sensor[s].driver = "bmp280"
    BY <2>1 DEF FetchData, Doing
  <2>3. HasChip(s)
    BY <2>2, TaskHasSensor, DevicesAssumption DEF DevicesAssumption, HasChip
  <2> QED BY <2>2, <2>3 DEF CalibrationInv, InStep, Believed, Reading
<1> QED BY <1>1, CalibrationCorrect, PTL DEF Spec, CalibrationIsTheChips

-----------------------------------------------------------------------------
(* Measurements. *)

Alone(s) == \A t \in DOMAIN sensor \ {s} : sensor[t].at # sensor[s].at

Measuring(b) == HasChip(task[b]) /\ pc[b] \in {"convert", "fetch"}

\* The chip of a worker that waits for its measurement or for the data is still
\* carrying it out, or holds its result; unless somebody else had a hand in it.
MeasuresForTask(b) ==
  Measuring(b) /\ task[b] \notin disturbed /\ Alone(task[b]) =>
    /\ ChipOf(task[b]).serial # None
    /\ \/ pc[b] = "convert" /\ ChipOf(task[b]).measures = task[b]
       \/ /\ ChipOf(task[b]).measures = None
          /\ ChipOf(task[b]).result = task[b] /\ ChipOf(task[b]).new

MeasurementInv == \A b \in BusIds : MeasuresForTask(b)

\* A worker that stays where it is, while its chip does and nobody forgets that
\* it was exchanged or reset.
LEMMA MeasurementStays ==
  ASSUME MeasurementInv, NEW b \in BusIds, UNCHANGED sensor,
         pc'[b] = pc[b], task'[b] = task[b],
         Measuring(b) =>
           /\ task[b] \in disturbed => task[b] \in disturbed'
           /\ \/ ChipOf(task[b])' = ChipOf(task[b])
              \/ task[b] \in disturbed'
              \/ ~Alone(task[b])
  PROVE  MeasuresForTask(b)'
<1>1. /\ HasChip(task[b])' <=> HasChip(task[b])
      /\ Alone(task[b])' <=> Alone(task[b])
      /\ Measuring(b)' <=> Measuring(b)
  BY DEF HasChip, Alone, Measuring
<1>2. SUFFICES ASSUME Measuring(b), task[b] \notin disturbed', Alone(task[b])
               PROVE  MeasuresForTask(b)'
  BY <1>1 DEF MeasuresForTask
<1>3. ChipOf(task[b])' = ChipOf(task[b]) /\ task[b] \notin disturbed
  BY <1>2
<1> QED BY <1>2, <1>3 DEF MeasurementInv, MeasuresForTask

\* The hardware finishes measurements, and owns up to everything else it does.
LEMMA HardwareMeasurement ==
  ASSUME TypeInv, MeasurementInv, Hardware
  PROVE  MeasurementInv'
<1>1. UNCHANGED <<sensor, pc, task>>
  BY DEF Hardware, FinishMeasurement, ResetChip, Unplug, Plug, fileVars, workerVars
<1>2. PICK at \in Places : \/ FinishMeasurement(at) \/ ResetChip(at) \/ Unplug(at)
                           \/ \E serial \in BMP280s \cup {OtherChip} : Plug(at, serial)
  BY DEF Hardware
<1>3. /\ disturbed \subseteq disturbed'
      /\ \A p \in Places \ {at} : chip'[p] = chip[p]
  BY <1>2 DEF FinishMeasurement, ResetChip, Unplug, Plug, TypeInv, ChipsInv
<1>4. ASSUME NEW b \in BusIds
      PROVE  MeasuresForTask(b)'
  <2> DEFINE s == task[b]
  <2>1. CASE ~Measuring(b)
    BY <1>1, <2>1, MeasurementStays
  <2>2. CASE Measuring(b) /\ sensor[s].at # at
    <3>1. ChipOf(s)' = ChipOf(s)
      BY <1>1, <1>3, <2>2, ChipInPlace DEF Measuring, HasChip, ChipOf
    <3> QED BY <1>1, <1>3, <3>1, MeasurementStays
  <2>3. CASE Measuring(b) /\ sensor[s].at = at
    <3>1. s \in Users(at)
      BY <2>3 DEF Users, Measuring, HasChip
    <3>2. CASE ResetChip(at) \/ Unplug(at)
      <4>1. s \in disturbed'
        BY <3>1, <3>2 DEF ResetChip, Unplug
      <4> QED BY <1>1, <1>3, <4>1, MeasurementStays
    <3>3. CASE \E serial \in BMP280s \cup {OtherChip} : Plug(at, serial)
      <4>1. ChipOf(s).serial = None
        BY <2>3, <3>3 DEF Plug, ChipOf
      <4>2. s \in disturbed \/ ~Alone(s)
        BY <2>3, <4>1 DEF MeasurementInv, MeasuresForTask
      <4> QED BY <1>1, <1>3, <4>2, MeasurementStays
    <3>4. CASE FinishMeasurement(at)
      <4>1. /\ chip[at].measures # None
            /\ chip'[at].serial = chip[at].serial /\ chip'[at].measures = None
            /\ chip'[at].result = chip[at].measures /\ chip'[at].new
        BY <3>4 DEF FinishMeasurement, TypeInv, ChipsInv, ChipType
      <4>2. UNCHANGED disturbed
        BY <3>4 DEF FinishMeasurement
      <4> QED BY <1>1, <2>3, <4>1, <4>2
              DEF MeasurementInv, MeasuresForTask, Measuring, HasChip, Alone, ChipOf
    <3> QED BY <1>2, <3>2, <3>3, <3>4
  <2> QED BY <2>1, <2>2, <2>3
<1> QED BY <1>4 DEF MeasurementInv

\* A step of a driver touches no chip but its own, and its own only to start a
\* measurement.
LEMMA DriverMeasurement ==
  ASSUME TypeInv, MeasurementInv, NEW b \in BusIds, NEW s \in SensorIds, DriverStep(b, s)
  PROVE  MeasurementInv'
<1>1. UNCHANGED sensor /\ task[b] = s /\ task[b] # None /\ s \in DOMAIN sensor
  <2>1. UNCHANGED sensor /\ task[b] = s
    BY DEF DriverStep, ReadChipId, WaitUntilReady, ReadCalibration, StartMeasurement, FetchData,
           DriverRaises, MockSample, Transfers, Doing, fileVars
  <2>2. s # None
    BY DevicesAssumption DEF DevicesAssumption
  <2> QED BY <2>1, <2>2, TaskHasSensor
<1>2. /\ disturbed \ {s} \subseteq disturbed'
      /\ \A o \in BusIds \ {b} : pc'[o] = pc[o] /\ task'[o] = task[o]
  BY DEF DriverStep, ReadChipId, WaitUntilReady, ReadCalibration, StartMeasurement, FetchData,
         DriverRaises, MockSample, Transfers, Return, Retry, FailTask, TypeInv, WorkersInv
<1>3. \A at \in Places \ {sensor[s].at} : chip'[at] = chip[at]
  BY DEF DriverStep, ReadChipId, WaitUntilReady, ReadCalibration, StartMeasurement, FetchData,
         DriverRaises, MockSample, TypeInv, ChipsInv
<1>4. ASSUME NEW o \in BusIds, o # b
      PROVE  MeasuresForTask(o)'
  <2>1. task[o] # s
    BY <1>1, <1>4, TasksDiffer
  <2>2. Measuring(o) => ~Alone(task[o]) \/ ChipOf(task[o])' = ChipOf(task[o])
    BY <1>1, <1>2, <1>3, <1>4, <2>1, ChipInPlace DEF Measuring, HasChip, Alone, ChipOf
  <2> QED BY <1>1, <1>2, <1>4, <2>1, <2>2, MeasurementStays
<1>5. MeasuresForTask(b)'
  <2>1. CASE StartMeasurement(b, s)
    <3>1. /\ task'[b] = s /\ pc'[b] = "convert" /\ sensor[s].at \in Places
          /\ ChipOf(s).serial # None
      BY <1>1, <2>1, ChipInPlace
         DEF StartMeasurement, Transfers, Doing, TypeInv, WorkersInv
    <3>2. chip'[sensor[s].at].measures = s /\ chip'[sensor[s].at].serial = ChipOf(s).serial
      BY <2>1, <3>1 DEF StartMeasurement, TypeInv, ChipsInv, ChipType, ChipOf
    <3> QED BY <1>1, <3>1, <3>2 DEF MeasuresForTask, ChipOf
  <2>2. CASE WaitUntilReady(b, s)
    <3>1. UNCHANGED <<chip, disturbed, task>> /\ ChipOf(s).measures = None
      BY <2>2 DEF WaitUntilReady, Ready
    <3>2. \/ pc[b] = "convert" /\ pc'[b] = "fetch"
          \/ pc'[b] = "calibrate"
      BY <2>2 DEF WaitUntilReady, Transfers, Doing, TypeInv, WorkersInv
    <3>3. CASE pc[b] = "convert" /\ pc'[b] = "fetch"
      BY <1>1, <3>1, <3>3, DevicesAssumption
         DEF MeasurementInv, MeasuresForTask, Measuring, HasChip, Alone, ChipOf, DevicesAssumption
    <3>4. CASE pc'[b] = "calibrate"
      BY <3>4 DEF MeasuresForTask, Measuring
    <3> QED BY <3>2, <3>3, <3>4
  <2>3. CASE ~StartMeasurement(b, s) /\ ~WaitUntilReady(b, s)
    <3>1. pc'[b] \in {"settle", "measure", "loop"}
      BY <2>3 DEF DriverStep, ReadChipId, ReadCalibration, FetchData, DriverRaises, MockSample,
                  Transfers, Return, Retry, FailTask, TypeInv, WorkersInv
    <3> QED BY <3>1 DEF MeasuresForTask, Measuring
  <2> QED BY <2>1, <2>2, <2>3
<1> QED BY <1>4, <1>5 DEF MeasurementInv

LEMMA MeasurementStep ==
  ASSUME TypeInv, MeasurementInv, [Next]_vars
  PROVE  MeasurementInv'
<1>1. CASE Refuse \/ Prepare \/ NothingToCollect \/ StartCollecting
  <2>1. pc' = pc /\ \A b \in BusIds : pc[b] = "closed"
    BY <1>1 DEF Refuse, Prepare, NothingToCollect, StartCollecting, workerVars, TypeInv, WorkersInv
  <2> QED BY <2>1 DEF MeasurementInv, MeasuresForTask, Measuring
<1>2. CASE RequestStop \/ UNCHANGED vars
  <2>1. UNCHANGED <<sensor, pc, task, chip, disturbed>>
    BY <1>2 DEF RequestStop, vars, fileVars, workerVars
  <2> QED BY <2>1 DEF MeasurementInv, MeasuresForTask, Measuring, HasChip, Alone, ChipOf
<1>3. ASSUME NEW b \in BusIds,
             OpenTransport(b) \/ CloseTransport(b) \/ \E s \in SensorIds : TakeTask(b, s)
      PROVE  MeasurementInv'
  <2>1. UNCHANGED <<sensor, chip, disturbed>>
    BY <1>3 DEF OpenTransport, CloseTransport, TakeTask, fileVars
  <2>2. ASSUME NEW o \in BusIds, o # b
        PROVE  MeasuresForTask(o)'
    <3>1. pc'[o] = pc[o] /\ task'[o] = task[o]
      BY <1>3, <2>2 DEF OpenTransport, CloseTransport, TakeTask, TypeInv, WorkersInv
    <3> QED BY <2>1, <3>1, MeasurementStays DEF ChipOf
  <2>3. MeasuresForTask(b)'
    <3>1. pc'[b] \notin {"convert", "fetch"}
      BY <1>3 DEF OpenTransport, CloseTransport, TakeTask, TypeInv, WorkersInv
    <3> QED BY <3>1 DEF MeasuresForTask, Measuring
  <2> QED BY <2>2, <2>3 DEF MeasurementInv
<1>4. ASSUME NEW b \in BusIds, WorkerStep(b)
      PROVE  MeasurementInv'
  BY <1>3, <1>4, DriverMeasurement DEF WorkerStep
<1>5. CASE Hardware
  BY <1>5, HardwareMeasurement
<1> QED BY <1>1, <1>2, <1>4, <1>5 DEF Next, Hardware

THEOREM MeasurementCorrect == Spec => [](TypeInv /\ MeasurementInv)
<1>1. Init => TypeInv /\ MeasurementInv
  BY TypeInvInit DEF Init, MeasurementInv, MeasuresForTask, Measuring
<1>2. TypeInv /\ MeasurementInv /\ [Next]_vars => (TypeInv /\ MeasurementInv)'
  BY TypeStep, MeasurementStep
<1> QED BY <1>1, <1>2, PTL DEF Spec

\* A value was measured for its own sensor and after the attempt that returns it
\* asked for it, unless the chip was reset or exchanged in between or has a
\* second sensor on another bus.
THEOREM MeasurementsAreFresh == Spec => MeasurementIsOwnAndNew
<1>1. TypeInv /\ MeasurementInv /\ [Next]_vars
        => [\A s \in SensorIds :
              Returns(s) =>
                \/ ChipOf(s).result = s /\ ChipOf(s).new
                \/ s \in disturbed
                \/ \E t \in DOMAIN sensor \ {s} : sensor[t].at = sensor[s].at]_vars
  <2> SUFFICES ASSUME TypeInv, MeasurementInv, [Next]_vars, NEW s \in SensorIds, Returns(s),
                      s \notin disturbed,
                      ~\E t \in DOMAIN sensor \ {s} : sensor[t].at = sensor[s].at
               PROVE  ChipOf(s).result = s /\ ChipOf(s).new
    OBVIOUS
  <2>1. PICK b \in BusIds : FetchData(b, s)
    BY ValueIsFetched
  <2>2. pc[b] = "fetch" /\ task[b] = s /\ sensor[s].driver = "bmp280"
    BY <2>1 DEF FetchData, Doing
  <2>3. Measuring(b) /\ Alone(s)
    BY <2>2, TaskHasSensor, DevicesAssumption DEF DevicesAssumption, HasChip, Measuring, Alone
  <2> QED BY <2>2, <2>3 DEF MeasurementInv, MeasuresForTask
<1> QED BY <1>1, MeasurementCorrect, PTL DEF Spec, MeasurementIsOwnAndNew

=============================================================================
