SPECIFICATION Spec
CONSTANTS
  Chan <- OneChan
  Group <- MCGroup
  Anc <- OneAnc
  Walk <- OneWalk
  CaWalk <- OneCaWalk
  DefaultMask <- OneNoMask
  BEEPSEVR <- OneBeepSevr
  ALARM_NSEV = 2
  GlobalFlag = FALSE
  PassiveFlag = FALSE
  OperatorMasks <- LocalMasks
  BeepMenu = {"silence", "system"}
  Rights = {"rw"}
  AcktSetting = {1}
  CountFloor = 0
  CounterBound = 1
INVARIANTS
  MaskCountsExact
  EventMatchesCancel
  UnackCountsExact
  BeepCountsExact
  GroupAckComplete
PROPERTIES
  NewAlarmEndsSilence
