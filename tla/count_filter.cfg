SPECIFICATION Spec
CONSTANTS
  Chan <- MCChan
  Group <- MCGroup
  Anc <- MCAnc
  Walk <- MCWalk
  CaWalk <- MCCaWalk
  DefaultMask <- NoMask
  BEEPSEVR <- NoBeepSevr
  ALARM_NSEV = 2
  GlobalFlag = TRUE
  PassiveFlag = FALSE
  Watched = "c"
  FilterSetting <- Filters
  FilterMasks <- Masks
INVARIANTS
  TimerMatches
PROPERTIES
  AcknowledgementPasses
  FilterRegisters
