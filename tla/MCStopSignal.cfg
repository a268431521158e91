SPECIFICATION SignalSpec
CONSTANTS
  None = None
  sigterm = sigterm
  sigint = sigint
  Signals = {sigterm, sigint}
  Faulty = {"main", "status-writer", "database-writer"}
INVARIANTS
  SignalTypeOK
  NoLostWakeup
PROPERTIES
  StopIsHeeded
CHECK_DEADLOCK FALSE
