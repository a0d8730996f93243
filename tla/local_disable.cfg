SPECIFICATION Spec
CONSTANTS
  Chan <- MCChan
  Group <- MCGroup
  Anc <- MCAnc
  Walk <- MCWalk
  CaWalk <- MCCaWalk
  DefaultMask <- BDisabled
  BEEPSEVR <- BBeeps2
  ALARM_NSEV = 2
  GlobalFlag = FALSE
  PassiveFlag = FALSE
  OperatorMasks <- DisableOnly
  BeepMenu = {}
  Rights = {"rw"}
  AcktSetting = {1}
  CountFloor = 0
  CounterBound = 2
INVARIANTS
  TypeOK
  SeverityCountsExact
PROPERTIES
  AlarmsStayLatched
  CallbackReturns
