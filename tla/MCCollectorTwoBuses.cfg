SPECIFICATION Spec
CONSTANTS
  None = None
  s1 = s1
  s2 = s2
  b1 = b1
  b2 = b2
  Sensors = {s1, s2}
  Buses = {b1, b2}
  BusOf <- TwoBuses
  QueueSize = 1
  BatchSize = 2
  Retries = 0
  MaxReads = 1
  MaxStatusWrites = 0
CONSTRAINT NoHardwareError
INVARIANTS
  SampleConservation
  ReadsAccounted
PROPERTIES
  NoLateAdmission
