SPECIFICATION ScheduleSpec
CONSTANTS
  None = None
  fast = fast
  slow = slow
  Sensors = {fast, slow}
  Interval <- Intervals
  BackoffUnit = 1
  BackoffCap = 2
  PollCap = 1
  MaxTime = 5
INVARIANTS
  ScheduleTypeOK
  PeriodAccounting
  DeadlinesAhead
PROPERTIES
  RestsUntilWindowEnds
CHECK_DEADLOCK FALSE
