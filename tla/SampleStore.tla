------------------------------ MODULE SampleStore ------------------------------
(***************************************************************************)
(* What the database holds: register_sensors() and write_samples() of      *)
(* storage/repositories, inside the transactions of storage/database.py,   *)
(* over several starts of the collector with changing configurations and   *)
(* releases of the program, on a SQLite file with a write-ahead log.       *)
(*                                                                         *)
(* A sensor of the configuration is stored as an instance per revision of  *)
(* its configuration, told apart by a fingerprint; samples refer to the    *)
(* instance, measurements to a sample and to a field of the instance.  The *)
(* ids are positions in the sequence of rows (the tables only grow), the   *)
(* fields of an instance are part of its row.                              *)
(*                                                                         *)
(* main is the database file, wal the contents after each transaction that *)
(* is only in the log, work what the open connection sees.  mode is what   *)
(* the process is doing:                                                   *)
(*   off         no process                                                *)
(*   register    register_sensors(), one sensor at a time                  *)
(*   registered  about to close the connection that registered them        *)
(*   run         collecting                                                *)
(*   write       write_samples(), between two samples                      *)
(*   measure     write_samples(), the sample row is in, its measurements   *)
(*               are not                                                   *)
(* DatabaseWriter.tla takes a whole write_samples() for one step: that is  *)
(* BatchesAreAtomic below.                                                 *)
(***************************************************************************)
EXTENDS Integers, Sequences, SequencesExt

CONSTANTS Sensors,      \* ids of sensors in configurations
          Fingerprints, \* of a sensor and its bus in a configuration
          Releases,     \* of the program
          FieldsOf,     \* per release and fingerprint: what the driver declares
          Disabled,     \* in place of a fingerprint: the sensor is not enabled
          MaxStarts,    \* bound: starts of the collector
          MaxSamples,   \* bound: samples in the database
          MaxBatch,     \* bound: samples of one batch
          MaxPowerLoss  \* bound: power losses

ASSUME StoreAssumption ==
  /\ Disabled \notin Fingerprints
  /\ DOMAIN FieldsOf = Releases /\ \A r \in Releases : DOMAIN FieldsOf[r] = Fingerprints
  /\ {MaxStarts, MaxSamples, MaxBatch, MaxPowerLoss} \subseteq Nat

VARIABLES main, wal, work,
          mode,
          release,         \* the one installed
          config,          \* of the process: per sensor the fingerprint, or Disabled
          unregistered,    \* sensors register_sensors() has not come to
          stored,          \* its result: per sensor the instance and its fields
          batch,           \* the batch being written
          written,         \* how many of its samples have been inserted
          settled,         \* history: the samples when a connection was last closed
          starts, powerLosses  \* bookkeeping of the bounds

storeVars == <<main, wal, work, mode, release, config, unregistered, stored, batch,
               written, settled, starts, powerLosses>>
processVars == <<release, config, starts>>
fileVars == <<main, wal, settled, powerLosses>>

Configurations == [Sensors -> Fingerprints \cup {Disabled}]

Enabled(c) == {s \in Sensors : c[s] # Disabled}

NotConfigured == [s \in Sensors |-> Disabled]
NotStored == [s \in Sensors |-> [instance |-> 0, fields |-> {}]]

\* What a connection that opens the database finds.
Committed == IF wal = <<>> THEN main ELSE Last(wal)

StoreInit ==
  /\ main = [instances |-> <<>>, samples |-> <<>>]
  /\ wal = <<>> /\ work = main
  /\ mode = "off" /\ release \in Releases
  /\ config = NotConfigured /\ unregistered = {} /\ stored = NotStored
  /\ batch = <<>> /\ written = 0
  /\ settled = <<>> /\ starts = 0 /\ powerLosses = 0

-----------------------------------------------------------------------------
(* Transactions: "with connection" of database.py, and SQLite's log. *)

\* Mutant: each statement is a transaction of its own.
CommittedAtOnce == wal' = Append(wal, work') /\ UNCHANGED <<main, settled, powerLosses>>

\* A statement's effect stays with the connection until the transaction ends.
InTransaction == UNCHANGED fileVars

Commit == wal' = Append(wal, work) /\ UNCHANGED <<main, work, settled, powerLosses>>

\* Mutant: the log is left behind.
LeaveLog == UNCHANGED <<main, wal>>

\* The log is made durable and copied into the file.
Checkpoint == main' = Committed /\ wal' = <<>>

\* The connection is closed, in order or because of an exception: an open
\* transaction is undone, and the last connection to close checkpoints.
CloseConnection ==
  /\ Checkpoint
  /\ work' = Committed
  /\ settled' = Committed.samples
  /\ UNCHANGED powerLosses

\* The process is gone, and its memory with it.
EndProcess ==
  /\ mode' = "off"
  /\ config' = NotConfigured /\ unregistered' = {} /\ stored' = NotStored
  /\ batch' = <<>> /\ written' = 0
  /\ UNCHANGED <<release, starts>>

-----------------------------------------------------------------------------
\* The collector starts, after the installation of a release perhaps, with a
\* configuration that has an enabled sensor.
Start(r, c) ==
  /\ mode = "off" /\ starts < MaxStarts
  /\ Enabled(c) # {}
  /\ mode' = "register" /\ starts' = starts + 1
  /\ release' = r /\ config' = c /\ unregistered' = Enabled(c)
  /\ UNCHANGED <<fileVars, work, stored, batch, written>>

\* Mutant: the configuration fingerprint is not compared.
InstancesWithTheId(s) == {i \in DOMAIN work.instances : work.instances[i].sensor = s}

\* The row with the id and the fingerprint of sensor s, if there is one.
InstancesOf(s) ==
  {i \in DOMAIN work.instances :
     /\ work.instances[i].sensor = s
     /\ work.instances[i].fingerprint = config[s]}

Declared(s) == FieldsOf[release][config[s]]

\* The row of a sensor or revision that is new, with its fields.  by is history.
NewInstance(s) ==
  [sensor |-> s, fingerprint |-> config[s], fields |-> Declared(s), by |-> release]

\* Mutant: a changed sensor overwrites its former instance.
ReplaceInstance(s) ==
  LET former == InstancesWithTheId(s)
  IN IF former = {} THEN Append(work.instances, NewInstance(s))
     ELSE [work.instances EXCEPT ![CHOOSE i \in former : TRUE] = NewInstance(s)]

AddInstance(s) == Append(work.instances, NewInstance(s))

\* Mutant: the fields of an instance are not read back.
NoFieldRows(i) == {}

FieldRows(i) == work'.instances[i].fields

\* One round of register_sensors(): a known instance is used as it is, with the
\* fields it was registered with.
Register(s) ==
  /\ mode = "register" /\ s \in unregistered
  /\ \/ InstancesOf(s) # {} /\ UNCHANGED work
     \/ InstancesOf(s) = {} /\ work' = [work EXCEPT !.instances = AddInstance(s)]
  /\ LET i == IF InstancesOf(s) = {} THEN Len(work'.instances)
              ELSE CHOOSE n \in InstancesOf(s) : TRUE
     IN stored' = [stored EXCEPT ![s] = [instance |-> i, fields |-> FieldRows(i)]]
  /\ unregistered' = unregistered \ {s}
  /\ InTransaction
  /\ UNCHANGED <<processVars, mode, batch, written>>

\* The transaction of Database.register_sensors() commits, ...
CommitSensors ==
  /\ mode = "register" /\ unregistered = {}
  /\ Commit /\ mode' = "registered"
  /\ UNCHANGED <<processVars, unregistered, stored, batch, written>>

\* ... main closes its connection, and the writer thread opens another.
CloseRegistration ==
  /\ mode = "registered"
  /\ CloseConnection /\ mode' = "run"
  /\ UNCHANGED <<processVars, unregistered, stored, batch, written>>

\* The writer has a batch: samples of enabled sensors, read now.
BeginWrite(sensors) ==
  /\ mode = "run"
  /\ Len(work.samples) + Len(sensors) <= MaxSamples
  /\ batch' = sensors /\ written' = 0
  /\ mode' = "write"
  /\ UNCHANGED <<processVars, fileVars, work, unregistered, stored>>

\* The row of the next sample, before its measurements.  read is history: what
\* the sample was read with.
NewSample(s) ==
  [instance |-> stored[s].instance,
   read |-> [sensor |-> s, fingerprint |-> config[s], release |-> release],
   fields |-> {}]

InsertSample ==
  /\ mode = "write" /\ written < Len(batch)
  /\ work' = [work EXCEPT !.samples = Append(@, NewSample(batch[written + 1]))]
  /\ mode' = "measure"
  /\ InTransaction
  /\ UNCHANGED <<processVars, unregistered, stored, batch, written>>

\* Mutant: each sample of the batch has a transaction of its own.
InsertMeasurementsAndCommit ==
  LET s == batch[written + 1] IN
  /\ mode = "measure"
  /\ Declared(s) \subseteq stored[s].fields
  /\ work' = [work EXCEPT !.samples[Len(work.samples)].fields = Declared(s)]
  /\ written' = written + 1
  /\ mode' = "write"
  /\ CommittedAtOnce
  /\ UNCHANGED <<processVars, unregistered, stored, batch>>

\* The measurements of that sample: the fields the driver declares, as
\* BusWorker.run() checks, each with the id registered for it.
InsertMeasurements ==
  LET s == batch[written + 1] IN
  /\ mode = "measure"
  /\ Declared(s) \subseteq stored[s].fields
  /\ work' = [work EXCEPT !.samples[Len(work.samples)].fields = Declared(s)]
  /\ written' = written + 1
  /\ mode' = "write"
  /\ InTransaction
  /\ UNCHANGED <<processVars, unregistered, stored, batch>>

\* A field without an id is a KeyError: the batch is undone, the writer ends.
FieldIsUnknown ==
  /\ mode = "measure"
  /\ ~(Declared(batch[written + 1]) \subseteq stored[batch[written + 1]].fields)
  /\ CloseConnection /\ EndProcess

\* The transaction of Database.write_samples() commits.
CommitSamples ==
  /\ mode = "write" /\ written = Len(batch)
  /\ Commit /\ mode' = "run"
  /\ batch' = <<>> /\ written' = 0
  /\ UNCHANGED <<processVars, unregistered, stored>>

\* SQLite checkpoints by itself when a commit finds the log long enough.
AutoCheckpoint ==
  /\ mode = "run" /\ wal # <<>>
  /\ Checkpoint
  /\ UNCHANGED <<processVars, work, mode, unregistered, stored, batch, written,
                 settled, powerLosses>>

\* The collector stops in order, or an exception ends it.
Stop ==
  /\ mode # "off"
  /\ CloseConnection /\ EndProcess

\* The process is killed, or exits past a writer that overran the deadline:
\* the log stays beside the file.
Kill ==
  /\ mode # "off"
  /\ work' = Committed /\ EndProcess
  /\ UNCHANGED fileVars

\* The power fails.  With synchronous=NORMAL commits do not wait for the log
\* to be durable: any number of the last ones are gone.
PowerLoss(n) ==
  /\ powerLosses < MaxPowerLoss
  /\ wal' = SubSeq(wal, 1, n)
  /\ work' = (IF n = 0 THEN main ELSE wal[n])
  /\ EndProcess /\ powerLosses' = powerLosses + 1
  /\ UNCHANGED <<main, settled>>

Batches == UNION {[1 .. n -> Enabled(config)] : n \in 1 .. MaxBatch}

StoreNext ==
  \/ \E r \in Releases, c \in Configurations : Start(r, c)
  \/ \E s \in Sensors : Register(s)
  \/ CommitSensors \/ CloseRegistration
  \/ \E sensors \in Batches : BeginWrite(sensors)
  \/ InsertSample \/ InsertMeasurements \/ FieldIsUnknown \/ CommitSamples
  \/ AutoCheckpoint \/ Stop \/ Kill
  \/ \E n \in 0 .. Len(wal) : PowerLoss(n)

StoreSpec == StoreInit /\ [][StoreNext]_storeVars

-----------------------------------------------------------------------------
\* Every stored sample belongs to the instance that describes the sensor and
\* the configuration it was read with, whatever the configurations before and
\* since, one that is restored later included (register_sensors()).
SamplesAttributed ==
  \A n \in DOMAIN Committed.samples :
    LET row == Committed.samples[n]
        i == row.instance
    IN /\ Committed.instances[i].sensor = row.read.sensor
       /\ Committed.instances[i].fingerprint = row.read.fingerprint

\* No sample is stored without its measurements: it has all the fields that
\* its driver declared, whenever the process or the machine ends
\* (write_samples()).
SamplesWhole ==
  \A n \in DOMAIN Committed.samples :
    LET row == Committed.samples[n]
    IN row.fields = FieldsOf[row.read.release][row.read.fingerprint]

\* What register_sensors() remembers of the sensors it has come to is right
\* for the configuration in force, and offers every field that a read of the
\* sensor returns: a write fails for want of a field only if the instance was
\* registered by a release in which the driver declared other fields.
RegisteredIsStorable ==
  mode # "off" =>
    \A s \in Enabled(config) \ unregistered :
      LET row == work.instances[stored[s].instance] IN
      /\ row.sensor = s /\ row.fingerprint = config[s]
      /\ \/ Declared(s) \subseteq stored[s].fields
         \/ FieldsOf[row.by][config[s]] # Declared(s)

\* Nothing recorded is altered, and nothing committed is undone by a kill, a
\* failure or a restart: a start, a change of configuration or a write only
\* adds rows, and only a loss of power takes the last ones away.
HistoryOnlyGrows ==
  [][LET before == Committed
         after == Committed'
         grows(a, b) == IsPrefix(a.instances, b.instances) /\ IsPrefix(a.samples, b.samples)
     IN grows(before, after) \/ (powerLosses' # powerLosses /\ grows(after, before))]_storeVars

\* The samples of a batch enter the database together or not at all.
BatchesAreAtomic ==
  [][powerLosses' = powerLosses =>
       Len(Committed'.samples) - Len(Committed.samples) \in {0, Len(batch)}]_storeVars

\* What was in the database when a connection was last closed is in the
\* database file itself: no later kill or loss of power takes it away, and a
\* copy of the file after an orderly stop is complete ("Stop collection before
\* copying the database so the SQLite file and its WAL cannot be separated",
\* README).
SettledIsInTheFile == IsPrefix(settled, main.samples)

=============================================================================
