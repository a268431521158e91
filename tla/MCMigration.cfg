SPECIFICATION MigrationSpec
CONSTANTS
  Row = {"row", "other"}
  MaxCrashes = 2
INVARIANTS
  RowsSurvive
  DoneMeansCurrent
PROPERTIES
  MigratedOrTorn
CHECK_DEADLOCK FALSE
