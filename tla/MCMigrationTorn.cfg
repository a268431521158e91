SPECIFICATION MigrationSpec
CONSTANTS
  Row = {"row"}
  MaxCrashes = 1
PROPERTIES
  MigrationCompletes
CHECK_DEADLOCK FALSE
