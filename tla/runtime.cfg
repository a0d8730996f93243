SPECIFICATION RuntimeSpec
CONSTANTS
  TimerId = {1, 2, 3, 4, 5}
  Sevr = {0, 1, 2}
  HistorySize = 3
  File <- MCFile
  Session <- MCSession
INVARIANTS
  TimersOwned
  HistoryShown
PROPERTIES
  AlarmsBlinkAndBeep
  HeartbeatBeats
