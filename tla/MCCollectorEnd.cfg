SPECIFICATION LiveSpec
CONSTANTS
  None = None
  s1 = s1
  s2 = s2
  b1 = b1
  b2 = b2
  Sensors = {s1}
  Buses = {b1}
  BusOf <- OneSensor
  QueueSize = 1
  BatchSize = 2
  Retries = 1
  MaxReads = 1
  MaxStatusWrites = 1
INVARIANTS
  FileAgreesWithExitCode
PROPERTIES
  StatusNeverRegresses
  StopEndsProcess
  AcceptedIsSettled
