SPECIFICATION Spec
CONSTANTS
  Chan <- MCChan
  Group <- MCGroup
  Anc <- MCAnc
  Walk <- MCWalk
  CaWalk <- MCCaWalk
  DefaultMask <- NoMask
  BEEPSEVR <- NoBeepSevr
  ALARM_NSEV = 3
  GlobalFlag = FALSE
  PassiveFlag = FALSE
  OperatorMasks <- Nothing
  BeepMenu = {"node", "system", "silence"}
  Rights = {}
  AcktSetting = {1}
  CountFloor = 0
  CounterBound = 2
INVARIANTS
  BeepSevCountsExact
