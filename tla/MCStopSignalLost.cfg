SPECIFICATION SignalSpec
CONSTANTS
  None = None
  sigterm = sigterm
  sigint = sigint
  Signals = {sigterm}
  Faulty = {}
PROPERTIES
  SignalStopsCollection
CHECK_DEADLOCK FALSE
