SPECIFICATION Spec
CONSTANTS
  p1 = p1
  p2 = p2
  Alh <- TwoProcesses
  NoOne = NoOne
  Kinds <- AllKinds
  MaxDialogs = 1
  MaxMess = 2
  TimerBound = 2
INVARIANTS
  TypeOK
  OneMasterUntilReload
  StopLoggingEnds
PROPERTIES
  MessageReachesAll
  MasterTakeover
