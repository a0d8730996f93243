----------------------------- MODULE MCAlarmLog -----------------------------
(***************************************************************************)
(* Two days of two hours each; records of two lengths.                     *)
(***************************************************************************)
EXTENDS AlarmLog

Options(dated, locked, readOnly, queues) ==
  [dated |-> dated, locked |-> locked, readOnly |-> readOnly, queues |-> queues]

Ring == Options(FALSE, FALSE, FALSE, {})
DatedRing == Options(TRUE, FALSE, FALSE, {})
DatedLog == Options(TRUE, TRUE, FALSE, {})
PrintedLog == Options(FALSE, TRUE, FALSE, {"printer"})
DatabaseLog == Options(FALSE, TRUE, FALSE, {"DB"})
ReadOnly == Options(FALSE, FALSE, TRUE, {})

MCModes == {Ring, DatedRing, DatedLog, PrintedLog, DatabaseLog, ReadOnly}
MCReadOnly == {ReadOnly}

=============================================================================
