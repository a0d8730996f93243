SPECIFICATION Spec
CONSTANTS
  Chan <- MCChan
  Group <- MCGroup
  Anc <- MCAnc
  DefaultMask <- MCDefaultMask
  MaskBit = {"Ack"}
  Hour = 1
  NoAckNode = {}
  OtherMask = {{}, {"Ack"}}
  ForceNode = {"top"}
  PvName = {"p1"}
  Value = {0, 1, 2}
  Slot = {"A"}
  Expression = {"sum"}
  Result <- MCResult
  Number <- MCNumber
  FromConfig <- MCFromConfig
  Edited <- MCEdited
INVARIANTS
  MasksFollow
  DialogShowsForcePV
