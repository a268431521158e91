-------------------------------- MODULE Service --------------------------------
(***************************************************************************)
(* The command line (commands.py, service.py), the unit file               *)
(* (systemd/sensorctl.service) and the process they start, stop and start  *)
(* again: which configuration file the process meets, how it ends, and     *)
(* what the service manager does then.                                     *)
(*                                                                         *)
(* Time passes in units of five seconds, RestartSec.  The service manager  *)
(* is modelled from how the unit file uses it: a failed process is started *)
(* again after RestartSec; every start counts, and a start beyond          *)
(* StartLimitBurst within StartLimitIntervalSec is refused and leaves the  *)
(* unit failed; a stop sends SIGTERM and, after TimeoutStopSec, SIGKILL.   *)
(* Inside the process only its life is kept: loading, opening, collecting, *)
(* and the three joins of the shutdown (the workers, the writer, the       *)
(* status writer), each as long as it likes within its deadline.           *)
(*                                                                         *)
(* A file is "good", "bad" (the validation refuses it: see Validates of    *)
(* the module Configuration) or "idle": valid, with every sensor disabled. *)
(* The makefile installs the unit as sensorctl; the commands name another  *)
(* unit and reach it only where it is installed, or linked, under that     *)
(* name.                                                                   *)
(***************************************************************************)
EXTENDS Naturals

CONSTANTS ShutdownTimeout,  \* shutdown_timeout_s of the file
          MaxCommands,      \* bound: commands given
          MaxFaults         \* bound: edits, outages, errors and reboots

ASSUME ServiceAssumption ==
  /\ ShutdownTimeout \in {1, 2}          \* up to 10 s (config.py)
  /\ MaxCommands \in Nat /\ MaxFaults \in Nat

SERVICE_NAME == "service"

\* Mutant: RestartSec is 15.
RestartTooRarely == 3

\* Mutant: RestartSec is missing from the unit file.
RestartAtOnce == 0

RestartSec == 1
StartLimitIntervalSec == 12
StartLimitBurst == 5
TimeoutStopSec == 3

VARIABLES installedAs,  \* the name the unit has
          file, device, \* the configuration file; whether the buses are there
          enabled,      \* the unit is started at boot
          command,      \* the command between its validation and systemctl, or "none"
          unit,         \* the state of the unit and of its process
          next,         \* what follows the stop in progress: "off" or "start"
          asked,        \* the service manager has sent SIGTERM
          hung,         \* main waits for ever: on the event's lock (StopSignal) or
                        \* in its last write (Collector)
          joins,        \* threads main has still to join
          patience,     \* what is left for the join in progress
          timer,        \* until the restart, or until SIGKILL
          starts, age,  \* starts counted against the limit, since when
          given, faults,\* bookkeeping of the bounds
          wanted,       \* history: the last order was to run
          ordered,      \* history: a counted start was an order
          killed        \* history: SIGKILL ended a process that did not hang

vars == <<installedAs, file, device, enabled, command, unit, next, asked, hung, joins,
          patience, timer, starts, age, given, faults, wanted, ordered, killed>>

Files == {"good", "bad", "idle"}
Serving == {"opening", "collecting"}
Running == Serving \cup {"loading", "stopping"}

-----------------------------------------------------------------------------
(* The service manager. *)

\* Starting the unit, unless it was started too often.
StartUnit(order) ==
  LET fresh == starts = 0 \/ age > StartLimitIntervalSec
  IN /\ starts' = IF fresh THEN 1 ELSE IF starts < StartLimitBurst THEN starts + 1 ELSE starts
     /\ age' = IF fresh THEN 0 ELSE age
     /\ ordered' = ((~fresh /\ ordered) \/ order)
     /\ unit' = IF fresh \/ starts < StartLimitBurst THEN "loading" ELSE "failed"
     /\ asked' = FALSE /\ hung' = FALSE /\ joins' = 0 /\ patience' = 0 /\ timer' = 0
     /\ next' = "off"

UnitIs(state) == /\ unit' = state /\ UNCHANGED <<starts, age, ordered>>
                 /\ asked' = FALSE /\ hung' = FALSE /\ joins' = 0 /\ patience' = 0
                 /\ next' = "off"

\* The process has ended with an exit code: an unwanted end other than 0 is
\* a failure (Restart=on-failure).
ProcessEnds(code) ==
  IF asked THEN IF next = "start" THEN StartUnit(TRUE) ELSE UnitIs("off") /\ timer' = 0
  ELSE IF code # 0 THEN UnitIs("waiting") /\ timer' = RestartSec
  ELSE UnitIs("off") /\ timer' = 0

\* SIGTERM.  Before Collector.run() has installed its handlers it ends the
\* process; main may also be interrupted while it holds the event's lock.
Terminate(then) ==
  IF unit = "loading" THEN IF then = "start" THEN StartUnit(TRUE) ELSE UnitIs("off") /\ timer' = 0
  ELSE /\ unit' = "stopping" /\ asked' = TRUE /\ next' = then
       /\ timer' = IF asked THEN timer ELSE TimeoutStopSec
       /\ hung' \in IF ~asked /\ (unit \in Serving \/ joins = 3) THEN BOOLEAN ELSE {hung}
       /\ IF unit \in Serving THEN joins' = 3 /\ patience' = ShutdownTimeout
                                 ELSE UNCHANGED <<joins, patience>>
       /\ UNCHANGED <<starts, age, ordered>>

\* A start while the process runs or waits to be started again does nothing; one
\* while it stops follows the stop.
Start ==
  /\ wanted' = TRUE
  /\ CASE unit \in {"off", "failed"} -> StartUnit(TRUE)
       [] unit = "stopping" /\ asked ->
            /\ next' = "start"
            /\ UNCHANGED <<unit, asked, hung, joins, patience, timer, starts, age, ordered>>
       [] OTHER -> UNCHANGED <<unit, next, asked, hung, joins, patience, timer, starts, age,
                               ordered>>

Stop ==
  /\ wanted' = FALSE
  /\ CASE unit \in Running -> Terminate("off")
       [] unit = "waiting" -> UnitIs("off") /\ timer' = 0
       [] OTHER -> UNCHANGED <<unit, next, asked, hung, joins, patience, timer, starts, age,
                               ordered>>

Restart ==
  /\ wanted' = TRUE
  /\ IF unit \in Running THEN Terminate("start") ELSE StartUnit(TRUE)

Order(verb) == CASE verb \in {"enable", "start"} -> Start
                 [] verb \in {"disable", "stop"} -> Stop
                 [] verb = "restart" -> Restart

Unordered == UNCHANGED <<unit, next, asked, hung, joins, patience, timer, starts, age, ordered,
                         wanted>>

-----------------------------------------------------------------------------
(* The commands: main() validates the file for enable, start and restart   *)
(* and then calls systemctl, as root only.  Anything else raises, and      *)
(* nothing has changed.  The path of the unit's process is the default;    *)
(* --config or the environment of the command may name another file.       *)

Validated == {"enable", "start", "restart"}

Give(verb, path) ==
  /\ command = "none" /\ given < MaxCommands /\ given' = given + 1
  /\ verb \in Validated /\ path = "default" => file # "bad"
  /\ command' = verb
  /\ Unordered
  /\ UNCHANGED <<installedAs, file, device, enabled, faults, killed>>

\* systemctl finds no unit of another name, and main() returns its exit code.
Systemctl ==
  /\ command # "none" /\ command' = "none"
  /\ IF installedAs = SERVICE_NAME
     THEN /\ Order(command)
          /\ enabled' = CASE command = "enable" -> TRUE
                          [] command = "disable" -> FALSE
                          [] OTHER -> enabled
     ELSE Unordered /\ UNCHANGED enabled
  /\ UNCHANGED <<installedAs, file, device, given, faults, killed>>

\* make, or an administrator who gives the unit its own name: nothing is validated.
ByHand(verb) ==
  /\ given < MaxCommands /\ given' = given + 1
  /\ Order(verb)
  /\ UNCHANGED <<installedAs, file, device, enabled, command, faults, killed>>

-----------------------------------------------------------------------------
(* The process: main() with the command collect. *)

\* Errors that main() turns into a message; any other leaves as a traceback,
\* with the same exit code.
Caught == {"ConfigError", "OSError", "RuntimeError"}

\* Mutant: an error that main() does not catch ends the process with 0.
ExitCodeWhenCaught(error) == IF error \in Caught THEN 1 ELSE 0

ExitCode(error) == IF error = "none" THEN 0 ELSE 1

Outside == UNCHANGED <<installedAs, file, device, enabled, command, given, faults, wanted, killed>>

\* The file is read, the database migrated, the sensors registered, the
\* handlers installed and the threads started.
Load ==
  /\ unit = "loading" /\ file = "good"
  /\ UnitIs("opening") /\ timer' = 0
  /\ Outside

\* The workers open their transports: a device that goes away later fails reads,
\* not the process.
OpenTransports ==
  /\ unit = "opening" /\ device
  /\ UnitIs("collecting") /\ timer' = 0
  /\ Outside

\* load_config() refuses the file, or run() finds no enabled sensor.
Refuse ==
  /\ unit = "loading" /\ file # "good"
  /\ ProcessEnds(ExitCode(IF file = "bad" THEN "ConfigError" ELSE "RuntimeError"))
  /\ Outside

\* The migration or register_sensors() raises an error of the database.
DatabaseFails ==
  /\ unit = "loading" /\ file = "good"
  /\ faults < MaxFaults /\ faults' = faults + 1
  /\ ProcessEnds(ExitCode("sqlite3.Error"))
  /\ UNCHANGED <<installedAs, file, device, enabled, command, given, wanted, killed>>

\* Main finds the error of a thread, raises, and shuts down by itself: a worker
\* has not opened its transport, or a thread has ended with an error.
ShutDown ==
  /\ unit' = "stopping" /\ joins' = 3 /\ patience' = ShutdownTimeout
  /\ UNCHANGED <<installedAs, file, device, enabled, command, next, asked, hung, timer, starts,
                 age, given, wanted, ordered, killed>>

OpenFails == unit = "opening" /\ ~device /\ ShutDown /\ UNCHANGED faults

ThreadFails ==
  /\ unit \in Serving /\ faults < MaxFaults /\ faults' = faults + 1
  /\ ShutDown

\* Mutant: each join has the whole timeout.
JoinReturnsAfresh ==
  /\ unit = "stopping" /\ ~hung /\ joins > 0
  /\ joins' = joins - 1 /\ patience' = ShutdownTimeout
  /\ UNCHANGED <<installedAs, file, device, enabled, command, unit, next, asked, hung, timer,
                 starts, age, given, faults, wanted, ordered, killed>>

\* A thread has ended or the deadline that all joins share has passed.
JoinReturns ==
  /\ unit = "stopping" /\ ~hung /\ joins > 0
  /\ joins' = joins - 1
  /\ UNCHANGED <<installedAs, file, device, enabled, command, unit, next, asked, hung, patience,
                 timer, starts, age, given, faults, wanted, ordered, killed>>

\* The last write of the status file, after the joins, has no time limit: the file
\* system hangs, and main with it.
LastWriteHangs ==
  /\ unit = "stopping" /\ ~hung /\ joins = 0
  /\ faults < MaxFaults /\ faults' = faults + 1
  /\ hung' = TRUE
  /\ UNCHANGED <<installedAs, file, device, enabled, command, unit, next, asked, joins, patience,
                 timer, starts, age, given, wanted, ordered, killed>>

\* The shutdown of a process that was not asked to stop reports the error.
Exit ==
  /\ unit = "stopping" /\ ~hung /\ joins = 0
  /\ \E error \in IF asked THEN {"none", "RuntimeError"} ELSE {"RuntimeError"} :
       ProcessEnds(ExitCode(error))
  /\ Outside

-----------------------------------------------------------------------------
(* The service manager and the machine. *)

RestartDue ==
  /\ unit = "waiting" /\ timer = 0
  /\ StartUnit(FALSE)
  /\ Outside

Kill ==
  /\ unit = "stopping" /\ asked /\ timer = 0
  /\ ProcessEnds(9) /\ killed' = (killed \/ ~hung)
  /\ UNCHANGED <<installedAs, file, device, enabled, command, given, faults, wanted>>

\* Five seconds, unless something is due.  A file is refused within them.
Tick ==
  /\ ~(unit = "loading" /\ file # "good")
  /\ ~(unit = "waiting" /\ timer = 0)
  /\ ~(unit = "stopping" /\ asked /\ timer = 0)
  /\ ~(unit = "stopping" /\ ~hung /\ (joins = 0 \/ patience = 0))
  /\ timer' = IF timer > 0 THEN timer - 1 ELSE 0
  /\ patience' = IF patience > 0 THEN patience - 1 ELSE 0
  /\ age' = IF age > StartLimitIntervalSec THEN age ELSE age + 1
  /\ UNCHANGED <<installedAs, file, device, enabled, command, unit, next, asked, hung, joins,
                 starts, given, faults, wanted, ordered, killed>>

\* Somebody edits the file, a bus goes or comes back.
Disturb ==
  /\ faults < MaxFaults /\ faults' = faults + 1
  /\ \/ file' \in Files \ {file} /\ UNCHANGED device
     \/ device' = ~device /\ UNCHANGED file
  /\ Unordered
  /\ UNCHANGED <<installedAs, enabled, command, given, killed>>

Reboot ==
  /\ faults < MaxFaults /\ faults' = faults + 1
  /\ unit' = IF enabled THEN "loading" ELSE "off"
  /\ wanted' = enabled /\ starts' = (IF enabled THEN 1 ELSE 0) /\ age' = 0
  /\ next' = "off" /\ asked' = FALSE /\ hung' = FALSE
  /\ joins' = 0 /\ patience' = 0 /\ timer' = 0
  /\ command' = "none" /\ ordered' = FALSE
  /\ UNCHANGED <<installedAs, file, device, enabled, given, killed>>

\* Installed, and not enabled: the file is the example, or edited already.
Init ==
  /\ installedAs \in {SERVICE_NAME, "sensorctl"}
  /\ file \in Files /\ device \in BOOLEAN
  /\ enabled = FALSE /\ command = "none"
  /\ unit = "off" /\ next = "off" /\ asked = FALSE /\ hung = FALSE
  /\ joins = 0 /\ patience = 0 /\ timer = 0 /\ starts = 0 /\ age = 0
  /\ given = 0 /\ faults = 0
  /\ wanted = FALSE /\ ordered = FALSE /\ killed = FALSE

Process == Load \/ Refuse \/ OpenTransports \/ OpenFails \/ JoinReturns \/ Exit

Next ==
  \/ \E verb \in Validated \cup {"stop", "disable"}, path \in {"default", "other"} :
       Give(verb, path)
  \/ \E verb \in {"start", "stop"} : ByHand(verb)
  \/ Systemctl
  \/ Load \/ Refuse \/ OpenTransports \/ OpenFails \/ JoinReturns \/ Exit
  \/ DatabaseFails \/ ThreadFails \/ LastWriteHangs
  \/ RestartDue \/ Kill \/ Tick \/ Disturb \/ Reboot

\* The process is scheduled, and the service manager and the clock go on.  Nobody
\* has to give a command or to finish one.
Spec ==
  /\ Init /\ [][Next]_vars
  /\ WF_vars(Process) /\ WF_vars(RestartDue) /\ WF_vars(Kill) /\ WF_vars(Tick)

-----------------------------------------------------------------------------
\* The shutdown fits into TimeoutStopSec: the joins share one deadline, so a
\* collector that was asked to stop is killed only if main hangs, on the event's
\* lock or in its last write, however many threads are stuck (the finally block
\* of Collector.run(), the unit file).
KilledOnlyWhenHung == ~killed

\* The unit gives up by itself only when failures have lasted for more than
\* twenty seconds: a bus that appears late in the boot or a short outage does
\* not end the collection for good (RestartSec and StartLimitBurst of the unit
\* file).  A start that somebody orders counts too, and shortens this.
SurvivesAShortOutage ==
  unit = "failed" /\ ~ordered => age > 4

\* A file that the process refuses does not make the service manager start it
\* for ever, whether the file was edited after the command had validated it, the
\* command was given another path, or no command was: five starts at RestartSec
\* fit into StartLimitIntervalSec, and the unit gives up (main() of commands.py,
\* the unit file).
RefusedFileEndsRestarts ==
  <>[](file # "good") => <>[](unit \notin {"loading", "waiting"})

\* The last order holds: whatever ended the process, an error of the database
\* that main() does not catch included, a collector that is wanted and can run
\* is running again before long, unless the unit has given up or main hangs in
\* the last write of a shutdown that nobody asked for, which nothing ends.  One
\* that was stopped stays so.
LastOrderHolds ==
  /\ <>[](wanted /\ file = "good" /\ device => unit \in {"collecting", "failed"} \/ hung)
  /\ <>[](~wanted => unit \in {"off", "failed"})

=============================================================================
