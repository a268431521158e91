SPECIFICATION StoreSpec
CONSTANTS
  Disabled = Disabled
  hall = hall
  roof = roof
  first = first
  second = second
  old = old
  new = new
  Sensors = {hall, roof}
  Fingerprints = {first, second}
  Releases = {old, new}
  FieldsOf <- Fields
  MaxStarts = 3
  MaxSamples = 2
  MaxBatch = 2
  MaxPowerLoss = 1
INVARIANTS
  SamplesAttributed
  SamplesWhole
  RegisteredIsStorable
  SettledIsInTheFile
PROPERTIES
  HistoryOnlyGrows
  BatchesAreAtomic
SYMMETRY Symmetry
CHECK_DEADLOCK FALSE
