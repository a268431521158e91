SPECIFICATION Spec
CONSTANTS
  None = None
  s1 = s1
  s2 = s2
  b1 = b1
  b2 = b2
  Sensors = {s1}
  Buses = {b1}
  BusOf <- OneSensor
  QueueSize = 1
  BatchSize = 1
  Retries = 0
  MaxReads = 1
  MaxStatusWrites = 0
INVARIANTS
  DeadlineMissIsReported
