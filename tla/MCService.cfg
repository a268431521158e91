CONSTANTS
  ShutdownTimeout = 2
  MaxCommands = 2
  MaxFaults = 2

SPECIFICATION Spec

INVARIANTS
  KilledOnlyWhenHung
  SurvivesAShortOutage

PROPERTIES
  RefusedFileEndsRestarts
  LastOrderHolds
