----------------------------- MODULE Configuration -----------------------------
(***************************************************************************)
(* What "sensorctl validate" accepts: load_config() of config.py, then     *)
(* DriverRegistry.prepare() with the two drivers of the program.           *)
(*                                                                         *)
(* A table of the file is a function from its keys to what they are set    *)
(* to.  Wrong stands for a value of a type the key does not take, and for  *)
(* a file that cannot be read or parsed.  Texts are compared and otherwise *)
(* left alone, except the paths of devices: NameOf tells how the last part *)
(* of a path is built, Opens which device the transport opens for it, the  *)
(* number parsed from the name.  Two paths may open one device             *)
(* (/dev/i2c-1, /dev/i2c-01).                                              *)
(***************************************************************************)
EXTENDS Integers, Sequences, FiniteSets

CONSTANTS Wrong,
          None,      \* Python's None
          Paths,     \* pathlib paths, in the spelling of the file
          NameOf,    \* path -> "i2c", "spi", "other", or "outside" of /dev
          Opens      \* path -> device

ASSUME PathAssumption ==
  /\ NameOf \in [Paths -> {"i2c", "spi", "other", "outside"}]
  /\ DOMAIN Opens = Paths
  /\ Wrong \notin Paths \cup {"mock", "i2c", "spi", "uart"}
  /\ None \notin Paths

\* dict.get(), and a table's keys against those the program knows.
Get(table, key, default) == IF key \in DOMAIN table THEN table[key] ELSE default
IsTable(value, keys) == value # Wrong /\ DOMAIN value \subseteq keys
IsText(table, key) == Get(table, key, Wrong) \notin {Wrong, ""}

\* Mutant: the lower limit is off by one.
IsIntegerFromBelow(table, key, default, min, max) ==
  Get(table, key, default) \in min - 1 .. max

IsInteger(table, key, default, min, max) == Get(table, key, default) \in min .. max

NoTable == <<>>

-----------------------------------------------------------------------------
(* The sections of the file. *)

CollectorDefaults ==
  [queue_size |-> 1000, batch_size |-> 100, flush_interval_ms |-> 1000,
   status_interval_ms |-> 1000, shutdown_timeout_s |-> 10]

CollectorLimits ==
  [queue_size |-> <<1, 1000000>>, batch_size |-> <<1, 100000>>,
   flush_interval_ms |-> <<10, 60000>>, status_interval_ms |-> <<100, 60000>>,
   shutdown_timeout_s |-> <<1, 10>>]

CollectorAccepted(raw) ==
  /\ IsTable(raw, DOMAIN CollectorLimits)
  /\ \A key \in DOMAIN CollectorLimits :
       IsInteger(raw, key, CollectorDefaults[key],
                 CollectorLimits[key][1], CollectorLimits[key][2])

LoadCollector(raw) ==
  [key \in DOMAIN CollectorDefaults |-> Get(raw, key, CollectorDefaults[key])]

DatabaseAccepted(raw) ==
  /\ IsTable(raw, {"path"})
  /\ Get(raw, "path", "absolute") = "absolute"

BusKeys ==
  [mock |-> {"type"},
   i2c  |-> {"type", "device", "timeout_ms", "retries"},
   spi  |-> {"type", "device", "mode", "max_speed_hz", "timeout_ms", "retries"},
   uart |-> {"type", "device", "baud_rate", "timeout_ms", "retries"}]

\* A serial port may have any name under /dev.
DeviceAccepted(type, path) ==
  /\ path \in Paths
  /\ NameOf[path] # "outside"
  /\ type \in {"i2c", "spi"} => NameOf[path] = type

BusAccepted(raw) ==
  /\ raw # Wrong
  /\ Get(raw, "type", Wrong) \in DOMAIN BusKeys
  /\ DOMAIN raw \subseteq BusKeys[raw["type"]]
  /\ raw["type"] # "mock" =>
       /\ DeviceAccepted(raw["type"], Get(raw, "device", Wrong))
       /\ IsInteger(raw, "timeout_ms", 100, 1, 60000)
       /\ IsInteger(raw, "retries", 2, 0, 100)
  /\ raw["type"] = "spi" =>
       /\ IsInteger(raw, "mode", 0, 0, 3)
       /\ IsInteger(raw, "max_speed_hz", 1000000, 1, 125000000)
  /\ raw["type"] = "uart" => IsInteger(raw, "baud_rate", 9600, 1, 4000000)

\* What the program uses of a bus; a mock bus takes the defaults of BusConfig.
LoadBus(raw) ==
  [type    |-> raw["type"],
   device  |-> Get(raw, "device", None),
   retries |-> Get(raw, "retries", IF raw["type"] = "mock" THEN 0 ELSE 2)]

SensorKeys ==
  {"id", "driver", "bus", "address", "interval_ms", "location", "enabled", "options"}

SensorAccepted(raw) ==
  /\ IsTable(raw, SensorKeys)
  /\ \A key \in {"id", "driver", "bus", "location"} : IsText(raw, key)
  /\ Get(raw, "enabled", TRUE) \in BOOLEAN
  /\ "address" \in DOMAIN raw => raw["address"] \in 0 .. 127
  /\ Get(raw, "options", NoTable) # Wrong
  /\ IsInteger(raw, "interval_ms", 1000, 10, 86400000)

LoadSensor(raw) ==
  [id |-> raw["id"], driver |-> raw["driver"], bus |-> raw["bus"],
   enabled |-> Get(raw, "enabled", TRUE), address |-> Get(raw, "address", None),
   interval |-> Get(raw, "interval_ms", 1000),
   options |-> Get(raw, "options", NoTable)]

FileAccepted(file) ==
  /\ IsTable(file, {"version", "collector", "database", "buses", "sensors"})
  /\ Get(file, "version", Wrong) = 1
  /\ DatabaseAccepted(Get(file, "database", NoTable))
  /\ CollectorAccepted(Get(file, "collector", NoTable))
  /\ Get(file, "buses", NoTable) # Wrong
  /\ \A id \in DOMAIN Get(file, "buses", NoTable) : BusAccepted(file["buses"][id])
  /\ Get(file, "sensors", <<>>) \notin {Wrong, <<>>}
  /\ \A n \in DOMAIN file["sensors"] : SensorAccepted(file["sensors"][n])

Load(file) ==
  [collector |-> LoadCollector(Get(file, "collector", NoTable)),
   buses     |-> [id \in DOMAIN Get(file, "buses", NoTable) |-> LoadBus(file["buses"][id])],
   sensors   |-> [n \in DOMAIN file["sensors"] |-> LoadSensor(file["sensors"][n])]]

-----------------------------------------------------------------------------
(* _validate_collisions(): what may be used by one only.  c is a loaded    *)
(* configuration, m < n are positions of sensors in it.                    *)

Exclusive == {"spi", "uart"}

DevicesAreDistinct(c) ==
  \A a, b \in DOMAIN c.buses :
    /\ a # b /\ c.buses[a].type = c.buses[b].type /\ c.buses[a].type \in Exclusive
    => c.buses[a].device # c.buses[b].device

\* Mutant: addresses are not compared.
SharesBusUnchecked(c, m, n) == c.buses[c.sensors[n].bus].type \notin Exclusive

\* Two sensors may share a bus if it is not exclusive and their addresses on
\* it, if they have any, differ.
MayShareBus(c, m, n) ==
  CASE c.buses[c.sensors[n].bus].type = "i2c" -> c.sensors[m].address # c.sensors[n].address
    [] c.buses[c.sensors[n].bus].type \in Exclusive -> FALSE
    [] OTHER -> TRUE

SensorsAreDistinct(c) ==
  \A n \in DOMAIN c.sensors :
    LET sensor == c.sensors[n] IN
    /\ sensor.bus \in DOMAIN c.buses
    /\ (sensor.address # None) = (c.buses[sensor.bus].type = "i2c")
    /\ \A m \in 1 .. n - 1 :
         /\ c.sensors[m].id # sensor.id
         /\ c.sensors[m].bus = sensor.bus => MayShareBus(c, m, n)

-----------------------------------------------------------------------------
(* The registry and the drivers' own checks. *)

OversamplingCodes == {1, 2, 4, 8, 16}
Oversampling == {"temperature_oversampling", "pressure_oversampling"}

BMP280Accepts(sensor) ==
  /\ DOMAIN sensor.options \subseteq Oversampling
  /\ \A name \in Oversampling : Get(sensor.options, name, 1) \in OversamplingCodes
  /\ sensor.address \in {118, 119}  \* 0x76, 0x77

MockAccepts(sensor) ==
  /\ DOMAIN sensor.options \subseteq {"start", "step"}
  /\ \A name \in DOMAIN sensor.options : sensor.options[name] # Wrong

Supports(driver, type) ==
  \/ driver = "bmp280" /\ type = "i2c"
  \/ driver = "mock" /\ type = "mock"

DriverAccepted(sensor, type) ==
  /\ \/ sensor.driver = "bmp280" /\ BMP280Accepts(sensor)
     \/ sensor.driver = "mock" /\ MockAccepts(sensor)
  /\ Supports(sensor.driver, type)

\* _prepare_config() of commands.py raises no ConfigError.  Disabled sensors
\* are checked like the others.
Validates(file) ==
  /\ FileAccepted(file)
  /\ LET c == Load(file) IN
       /\ DevicesAreDistinct(c)
       /\ SensorsAreDistinct(c)
       /\ \A n \in DOMAIN c.sensors :
            DriverAccepted(c.sensors[n], c.buses[c.sensors[n].bus].type)

=============================================================================
