SPECIFICATION Spec
CONSTANTS
  Chan <- OneChan
  Group <- MCGroup
  Anc <- OneAnc
  Walk <- OneWalk
  CaWalk <- OneCaWalk
  DefaultMask <- OneNoMask
  BEEPSEVR <- OneBeepSevr
  ALARM_NSEV = 3
  GlobalFlag = TRUE
  PassiveFlag = FALSE
  OperatorMasks <- DisableOrAck
  BeepMenu = {}
  Rights = {"rw", "r", "none"}
  AcktSetting = {0, 1}
  CountFloor = 0
  CounterBound = 2
INVARIANTS
  SeverityCountsExact
PROPERTIES
  GroupSevrPVFollows
