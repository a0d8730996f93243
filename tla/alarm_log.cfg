SPECIFICATION Spec
CONSTANTS
  Modes <- MCModes
  MaxRecords = 2
  RecordLength = {2, 3}
  DefaultStringLength = 5
  QueueSize = 2
  Hours = 2
  MaxTime = 3
  MaxLog = 4
  MaxOpMods = 1
INVARIANTS
  RingSound
  BrowserFindsAll
  LossReported
  WindowShowsLog
CHECK_DEADLOCK FALSE
