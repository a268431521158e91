SPECIFICATION Spec
CONSTANTS
  Wrong = Wrong
  None = None
  i2c1 = i2c1
  i2c01 = i2c01
  spi0 = spi0
  spi1 = spi1
  tty = tty
  home = home
  chipA = chipA
  chipB = chipB
  OtherChip = OtherChip
  Paths <- DevicePaths
  NameOf <- Names
  Opens <- OpenedDevice
  Files <- AllFiles
  SensorIds = {"one", "two"}
  BusIds = {"main", "aux", "more"}
  BMP280s = {chipA, chipB}
  MaxTasks = 3
  MaxFaults = 1
INVARIANTS
  DevicesTypeOK
  RunsAsValidated
  ChipsSharedAcrossBusesOnly
PROPERTIES
  CalibrationIsTheChips
  MeasurementIsOwnAndNew
  TasksEnd
CHECK_DEADLOCK FALSE
