SPECIFICATION NoAckSpec
CONSTANTS
  Chan <- MCChan
  Group <- MCGroup
  Anc <- MCAnc
  DefaultMask <- MCDefaultMask
  MaskBit = {"Ack", "Log"}
  Hour = 3
  NoAckNode = {"c1", "c2", "sub", "top"}
  OtherMask = {{"Ack"}}
INVARIANTS
  NoAckLastsAnHour
  ToggleShowsTimer
PROPERTIES
  NoAckEnds
