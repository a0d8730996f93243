------------------------- MODULE AlarmRegistration -------------------------
(***************************************************************************)
(* What the alarm count filter promises for one channel (ALH.html, "Alarm  *)
(* Count Filter"): to register as an alarm, a channel must remain in alarm *)
(* for inputSeconds or enter the alarm state more than inputCount times    *)
(* within inputSeconds; the same holds for the way back to normal, unless  *)
(* inputCount is -1.  CountFilter implements it.                           *)
(***************************************************************************)
EXTENDS ReportHistory

CONSTANTS Severity     \* the severities, NO_ALARM = 0 and what counts as alarm

VARIABLES
  setting,    \* the filter of the channel: inputCount and inputSeconds
  seen,       \* an alarm state of the channel is known
  told,       \* the severity last reported, NO_ALARM = 0
  shown,      \* the severity the tree shows
  lasted,     \* seconds, up to inputSeconds, since told went in or out of alarm
  changes     \* how long ago it did so before, for the times within inputSeconds

vars == <<setting, seen, told, shown, lasted, changes>>

Earned(sevr, since, times) ==
  \/ setting.inputSeconds = 0
  \/ since >= setting.inputSeconds
  \/ setting.inputCount > 0 /\ Len(times) > 2 * setting.inputCount
  \/ setting.inputCount = -1 /\ sevr = 0

Init ==
  /\ setting \in [inputCount : Int, inputSeconds : Nat]
  /\ told = shown /\ lasted = 0 /\ changes = <<>>

\* in alarm a new severity is shown at once; in and out of alarm only if it is earned
Report(sevr) ==
  /\ told' = sevr /\ lasted' = Since(seen, told, lasted, sevr)
  /\ changes' = Changes(setting, seen, told, changes, sevr)
  /\ shown' \in {shown, sevr}
  /\ ~seen \/ (shown # 0 /\ sevr # 0) => shown' = sevr
  /\ seen /\ Crosses(shown, shown') => Earned(sevr, lasted', changes')
  /\ seen' \in BOOLEAN     \* a connection lost early leaves it unknown
  /\ UNCHANGED setting

Second ==
  /\ lasted' = Longer(setting, lasted) /\ changes' = Recent(setting, changes)
  /\ UNCHANGED <<setting, seen, told, shown>>

\* what is registered can be the unknown state of a connection lost early
Register ==
  /\ Earned(told, lasted, changes)
  /\ shown' = told /\ seen' \in BOOLEAN
  /\ UNCHANGED <<setting, told, lasted, changes>>

Next == (\E sevr \in Severity : Report(sevr)) \/ Second \/ Register

\* an alarm, or a return to normal, that lasts is shown in the end
Agree == (told = 0) = (shown = 0)

Spec == Init /\ [][Next]_vars /\ []<>Agree

=============================================================================
