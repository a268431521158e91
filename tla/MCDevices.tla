------------------------------- MODULE MCDevices -------------------------------
(***************************************************************************)
(* Instances of Devices for TLC: well-formed files of four kinds, and each *)
(* of them with one entry changed.                                         *)
(***************************************************************************)
EXTENDS Devices, TLC

CONSTANTS i2c1, i2c01,        \* two paths of one I2C device
          spi0, spi1, tty, home,
          chipA, chipB

DevicePaths == {i2c1, i2c01, spi0, spi1, tty, home}
Names == (i2c1 :> "i2c") @@ (i2c01 :> "i2c") @@ (spi0 :> "spi") @@ (spi1 :> "spi")
         @@ (tty :> "other") @@ (home :> "outside")
OpenedDevice == [p \in DevicePaths |-> IF p = i2c01 THEN i2c1 ELSE p]

Bus(type, path) == [type |-> type, device |-> path, retries |-> 0]
MockBus == [type |-> "mock"]
Pressure(id, bus, address) ==
  [id |-> id, driver |-> "bmp280", bus |-> bus, address |-> address,
   location |-> "room", options |-> [pressure_oversampling |-> 16]]
Count(id, bus) ==
  [id |-> id, driver |-> "mock", bus |-> bus, location |-> "room", options |-> [start |-> 2]]

File(buses, sensors) == [version |-> 1, buses |-> buses, sensors |-> sensors]

\* Two chips on one bus; two buses with one device, under one name or two; a
\* chip beside a mock; and buses of the other types.
OneBus == File([main |-> [Bus("i2c", i2c1) EXCEPT !.retries = 1]],
               <<Pressure("one", "main", 118), Pressure("two", "main", 119)>>)
Alias(path) == File([main |-> Bus("i2c", i2c1), aux |-> Bus("i2c", path)],
                    <<Pressure("one", "main", 118), Pressure("two", "aux", 118)>>)
WithMock == File([main |-> [Bus("i2c", i2c1) EXCEPT !.retries = 1], aux |-> MockBus],
                 <<Pressure("one", "main", 118), Count("two", "aux")>>)
Others == File([main |-> Bus("spi", spi0), aux |-> MockBus, more |-> Bus("spi", spi1)],
               <<Count("one", "aux"), Count("two", "aux")>>)
Ports == File([main |-> Bus("uart", tty), aux |-> MockBus, more |-> Bus("uart", i2c1)],
              <<Count("one", "aux")>>)

\* A table with one entry set, or taken out.
Set(table, key, value) == (key :> value) @@ table
Unset(table, key) == [k \in DOMAIN table \ {key} |-> table[k]]

CollectorEdits ==
  {Set(NoTable, key, CollectorLimits[key][side] + n) :
     key \in DOMAIN CollectorLimits, side \in 1 .. 2, n \in -1 .. 1}
  \cup {[queue_size |-> Wrong], [queue |-> 1], Wrong}

BusEdits(bus) ==
  {Set(bus, "type", type) : type \in DOMAIN BusKeys \cup {"can", Wrong}}
  \cup {Set(bus, "device", path) : path \in DevicePaths \cup {Wrong}}
  \cup {Set(bus, "retries", n) : n \in {-1, 101, Wrong}}
  \cup {Set(bus, "timeout_ms", n) : n \in {0, 60001}}
  \cup {Set(bus, "mode", n) : n \in {3, 4}} \cup {Set(bus, "max_speed_hz", 0)}
  \cup {Set(bus, "baud_rate", n) : n \in {0, 4000000}}
  \cup {Unset(bus, key) : key \in DOMAIN bus} \cup {Wrong}

SensorEdits(raw) ==
  {Set(raw, "address", n) : n \in {0, 118, 119, 127, 128, Wrong}}
  \cup {Set(raw, "id", id) : id \in {"one", "", Wrong}}
  \cup {Set(raw, "bus", bus) : bus \in {"main", "aux", "more", "none"}}
  \cup {Set(raw, "driver", driver) : driver \in {"bmp280", "mock", "bme280"}}
  \cup {Set(raw, "options", options) : options \in
          {Wrong, [start |-> 1], [pressure_oversampling |-> 3], [step |-> Wrong],
           [temperature_oversampling |-> Wrong], NoTable}}
  \cup {Set(raw, "enabled", value) : value \in {FALSE, Wrong}}
  \cup {Set(raw, "interval_ms", n) : n \in {9, 10, 86400001}}
  \cup {Unset(raw, key) : key \in DOMAIN raw} \cup {Set(raw, "unit", "pa"), Wrong}

Edits(f) ==
  {Set(f, "collector", c) : c \in CollectorEdits}
  \cup {Set(f, "database", d) : d \in {[path |-> "relative"], [path |-> Wrong], Wrong, NoTable}}
  \cup {Set(f, "version", v) : v \in {2, Wrong}}
  \cup {Set(f, "sensors", v) : v \in {Wrong, <<>>, <<f.sensors[1]>>}}
  \cup {Set(f, "buses", v) : v \in {Wrong, NoTable}}
  \cup {Unset(f, key) : key \in DOMAIN f} \cup {Set(f, "units", "si"), Wrong}
  \cup {[f EXCEPT !.buses["main"] = bus] : bus \in BusEdits(f.buses["main"])}
  \cup UNION {{[f EXCEPT !.sensors[n] = raw] : raw \in SensorEdits(f.sensors[n])} :
                n \in DOMAIN f.sensors}

Bases == {OneBus, Alias(i2c1), Alias(i2c01), WithMock, Others, Ports}
AllFiles == Bases \cup UNION {Edits(f) : f \in Bases}

=============================================================================
