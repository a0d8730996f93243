---------------------------- MODULE CountFilter ----------------------------
(***************************************************************************)
(* Channels with an alarm count filter: alNewAlarmFilter stands between    *)
(* the events of Channel Access and alNewAlarmProcess, with a timer and a  *)
(* ring of the times at which the channel went in or out of alarm.         *)
(*                                                                         *)
(* Time is discrete: a second passes in Tick, times are kept as ages, and  *)
(* a timer can be served late.                                             *)
(***************************************************************************)
EXTENDS AlarmOps, ReportHistory

CONSTANTS
  Watched,        \* the channel AlarmRegistration is about
  FilterSetting,  \* the $ALARMCOUNTFILTER lines: records of inputCount, inputSeconds
  FilterMasks     \* bound: the masks the operator gives a channel with a filter

VARIABLES
  chan, group, psetup,  \* the state of AlarmOps
  connected,            \* connected[c]: c has a Channel Access connection
  filter,               \* filter[c]: the COUNTFILTER of c
  told, lasted, changes \* observation: the severity last reported, and ReportHistory

vars == <<chan, group, psetup, connected, filter, told, lasted, changes>>
St == [chan |-> chan, group |-> group, psetup |-> psetup]

ASSUME FilterAssumption ==
  /\ Watched \in Chan
  /\ FilterSetting \subseteq [inputCount : Int, inputSeconds : Nat]
  /\ FilterMasks \subseteq SUBSET MaskBit

NoTimer == -1
NoTime == -1      \* a slot of alarmTimeHistory that is 0
FirstReport(s, c) == s.chan[c].curStat = "NO_ALARM" /\ s.chan[c].curSevr = ERROR_STATE

Ring(f) == 2 * f.inputCount
Slots(f) == 0 .. Ring(f) - 1

InitFilter(setting) ==
  [inputCount |-> setting.inputCount, inputSeconds |-> setting.inputSeconds,
   event |-> [stat |-> "NO_ALARM", sevr |-> ERROR_STATE, acks |-> 0, ackt |-> FALSE],
   timeout |-> NoTimer, countIndex |-> 0,
   alarmTimeHistory |-> [i \in 0 .. 2 * setting.inputCount - 1 |-> NoTime]]

InitChan ==
  [curSevr |-> ERROR_STATE, curStat |-> "NO_ALARM", unackSevr |-> NO_ALARM,
   beepSevr |-> 0, curMask |-> {}, evid |-> TRUE,
   caAlarmEvent |-> [stat |-> "NO_ALARM", sevr |-> 0, acks |-> 0, ackt |-> 0],
   sevrPV |-> 0]
InitGroup(g) ==
  LET None == [v \in AlarmSevr |-> 0]
      Under == Cardinality({c \in Chan : g \in Anc[c]})
  IN  [curSevr |-> NO_ALARM, curSev |-> [v \in Sevr |-> IF v = ERROR_STATE THEN Under ELSE 0],
       unackSevr |-> NO_ALARM, unackSev |-> None,
       unackBeepSevr |-> NO_ALARM, unackBeepSev |-> None, beepSevr |-> 0,
       highestBeepSevr |-> NO_ALARM, beepSev |-> None,
       mask |-> [b \in MaskBit |-> 0], sevrPV |-> 0]

Init ==
  /\ chan = [c \in Chan |-> InitChan]
  /\ group = [g \in Group |-> InitGroup(g)]
  /\ psetup = [silenceCurrent |-> FALSE, beepSevr |-> 1, newUnackBeepSevr |-> NO_ALARM]
  /\ connected = [c \in Chan |-> FALSE]
  /\ \E setting \in [Chan -> FilterSetting] :
       filter = [c \in Chan |-> InitFilter(setting[c])]
  /\ told = [c \in Chan |-> ERROR_STATE]
  /\ lasted = [c \in Chan |-> 0]
  /\ changes = [c \in Chan |-> <<>>]

Seen(c) == ~FirstReport(St, c)
Setting(c) == [inputCount |-> filter[c].inputCount, inputSeconds |-> filter[c].inputSeconds]

----------------------------------------------------------------------------
(* The filter.  A result pairs the state of the tree with the filter.      *)

Process(r, c, e) ==
  [r EXCEPT !.s = alNewAlarmProcess(r.s, c, e.stat, e.sevr, e.acks, e.ackt)]

StopTimeOut(r) == [r EXCEPT !.f.timeout = NoTimer]
AddTimeOut(r) ==
  IF r.f.timeout = NoTimer THEN [r EXCEPT !.f.timeout = r.f.inputSeconds] ELSE r

\* mutant: the ring keeps the old times
Cleared_KeepTimes(f) == [f EXCEPT !.countIndex = 0, !.timeout = NoTimer]

Cleared(f) ==
  [f EXCEPT !.countIndex = 0, !.alarmTimeHistory = [i \in DOMAIN @ |-> NoTime],
            !.timeout = NoTimer]
alAlarmFilterReset(r) == [r EXCEPT !.f = Cleared(@)]

\* mutant: the timer of an alarm that is gone goes on
StayNormal_KeepTimer(r, c, e) == IF e.acks = 0 THEN Process(r, c, e) ELSE r

\* normal is shown and reported
StayNormal(r, c, e) == StopTimeOut(IF e.acks = 0 THEN Process(r, c, e) ELSE r)

\* mutant: acknowledgements wait with the alarm
LeaveAlarm_HoldAck(r, c, e) ==
  IF r.f.inputCount # -1 THEN AddTimeOut(r) ELSE Process(alAlarmFilterReset(r), c, e)

\* an alarm is shown, normal reported: acknowledgements are processed, the alarm stays
LeaveAlarm(r, c, e) ==
  LET d == r.s.chan[c]
  IN  IF r.f.inputCount # -1
      THEN AddTimeOut(Process(r, c, [e EXCEPT !.stat = d.curStat, !.sevr = d.curSevr]))
      ELSE Process(alAlarmFilterReset(r), c, e)

\* the severity shown against the reported one
Level(r, c, e) ==
  LET shown == r.s.chan[c].curSevr # 0
  IN  CASE ~shown /\ e.sevr = 0 -> StayNormal(r, c, e)
        [] shown /\ e.sevr # 0 -> StopTimeOut(Process(r, c, e))
        [] ~shown /\ e.sevr # 0 -> AddTimeOut(r)
        [] shown /\ e.sevr = 0 -> LeaveAlarm(r, c, e)

\* a channel that goes in or out of alarm: too often within inputSeconds, or remembered
CountCheck(r, c, e, previous) ==
  LET i == r.f.countIndex
      age == r.f.alarmTimeHistory[i]
  IN  IF r.f.inputCount <= 0 \/ (previous = 0) = (e.sevr = 0) THEN r
      ELSE IF age # NoTime /\ age <= r.f.inputSeconds
      THEN Process(alAlarmFilterReset(r), c, e)
      ELSE [r EXCEPT !.f.alarmTimeHistory[i] = 0,
                     !.f.countIndex = IF i + 1 >= Ring(r.f) THEN 0 ELSE i + 1]

alNewAlarmFilter(s, f, c, e) ==
  LET r == [s |-> s, f |-> [f EXCEPT !.event = e]]
  IN  IF FirstReport(s, c) \/ f.inputSeconds = 0 THEN Process(r, c, e)
      ELSE CountCheck(Level(r, c, e), c, e, f.event.sevr)

----------------------------------------------------------------------------
Become(r, c) ==
  /\ chan' = r.s.chan /\ group' = r.s.group /\ psetup' = r.s.psetup
  /\ filter' = [filter EXCEPT ![c] = r.f]

\* alNewEvent for a channel with a filter; the history of reports goes on
NewEvent(c, e, acktCA) ==
  LET ackt == IF acktCA = -1 THEN On(St, c, "AckT") ELSE acktCA = 0
  IN  /\ Become(alNewAlarmFilter(St, filter[c], c,
                  [stat |-> e.stat, sevr |-> e.sevr, acks |-> e.acks, ackt |-> ackt]), c)
      /\ told' = [told EXCEPT ![c] = e.sevr]
      /\ lasted' = [lasted EXCEPT ![c] = Since(Seen(c), told[c], lasted[c], e.sevr)]
      /\ changes' = [changes EXCEPT ![c] = Changes(Setting(c), Seen(c), told[c], @, e.sevr)]

IocEvent ==
  {e \in [stat : {"NO_ALARM", "ALARM"}, sevr : 0 .. ALARM_NSEV - 1, acks : 0 .. ALARM_NSEV - 1] :
     /\ e.stat = "NO_ALARM" <=> e.sevr = 0
     /\ ~GlobalFlag => e.acks = 0}

CaAlarmEvent(c) ==
  /\ connected[c] /\ chan[c].evid
  /\ \E e \in IocEvent : NewEvent(c, e, 1)
  /\ UNCHANGED connected

ConnDown(c) ==
  /\ connected[c] /\ connected' = [connected EXCEPT ![c] = FALSE]
  /\ NewEvent(c, [stat |-> "NOT_CONNECTED", sevr |-> ERROR_STATE, acks |-> 0], -1)

\* alConnectEvent: the alarm saved before the disconnection is reported again
ConnUp(c) ==
  LET e == chan[c].caAlarmEvent
  IN  /\ ~connected[c] /\ connected' = [connected EXCEPT ![c] = TRUE]
      /\ IF FirstReport(St, c)
         THEN UNCHANGED <<chan, group, psetup, filter, told, lasted, changes>>
         ELSE NewEvent(c, e, e.ackt)

\* alarmCountFilter_callback
ServeTimer(c) ==
  /\ filter[c].timeout = 0
  /\ filter' = [filter EXCEPT ![c] = Cleared(@)]

FilterTimer(c) ==
  LET e == filter[c].event
      s == alNewAlarmProcess(St, c, e.stat, e.sevr, e.acks, e.ackt)
  IN  /\ ServeTimer(c)
      /\ chan' = s.chan /\ group' = s.group /\ psetup' = s.psetup
      /\ UNCHANGED <<connected, told, lasted, changes>>

\* mask callbacks, see AlarmHandler; they go past the filter
ChangeChanMask(c, mask) ==
  /\ Become([s |-> silenceCurrentReset(alChangeChanMask(St, c, mask)), f |-> filter[c]], c)
  /\ UNCHANGED <<connected, told, lasted, changes>>

Aged(f) ==
  [f EXCEPT !.timeout = IF @ > 0 THEN @ - 1 ELSE @,
            !.alarmTimeHistory = [i \in DOMAIN @ |->
               IF @[i] \in 0 .. f.inputSeconds THEN @[i] + 1 ELSE @[i]]]

Tick ==
  /\ filter' = [c \in Chan |-> Aged(filter[c])]
  /\ lasted' = [c \in Chan |-> Longer(Setting(c), lasted[c])]
  /\ changes' = [c \in Chan |-> Recent(Setting(c), changes[c])]
  /\ UNCHANGED <<chan, group, psetup, connected, told>>

Next ==
  \/ \E c \in Chan : CaAlarmEvent(c) \/ ConnDown(c) \/ ConnUp(c) \/ FilterTimer(c)
  \/ \E c \in Chan, mask \in FilterMasks : ChangeChanMask(c, mask)
  \/ Tick

(* The clock goes on, and the event loop serves a timer that ran out:      *)
(* ServeTimer is enabled when FilterTimer is and only FilterTimer does it. *)
Spec == Init /\ [][Next]_vars /\ WF_vars(Tick) /\ \A c \in Chan : WF_filter(ServeTimer(c))

----------------------------------------------------------------------------
(* Global mode: while the filter withholds the return of an alarm to      *)
(* normal, an acknowledgement from the IOC passes at once.                 *)
AcknowledgementPasses ==
  [][\A c \in Chan :
       /\ GlobalFlag /\ chan[c].curSevr # NO_ALARM
       /\ filter'[c].event # filter[c].event
       /\ On(St, c, "AckT") = ("AckT" \in chan'[c].curMask)
       => chan'[c].unackSevr = filter'[c].event.acks]_vars

(* The timer runs when, and only when, the filter withholds something,     *)
(* what is shown and what was last reported being on different sides of    *)
(* alarm: no timer outlives its reason and brings back an alarm that has   *)
(* gone, and none is missing, which would withhold an alarm for ever       *)
(* (alLib.c:579-594, 703-719).                                             *)
TimerMatches ==
  \A c \in Chan :
    filter[c].timeout # NoTimer <=> (chan[c].curSevr = 0) # (told[c] = 0)

(* ALH.html "Alarm Count Filter": what the tree shows of a channel follows *)
(* the reports as AlarmRegistration says.  A change in or out of alarm is  *)
(* shown only when it lasted or happened often enough, and an alarm that   *)
(* lasts is shown.                                                         *)
Shown ==
  INSTANCE AlarmRegistration
    WITH Severity <- Sevr, setting <- Setting(Watched), seen <- Seen(Watched),
         told <- told[Watched], shown <- chan[Watched].curSevr,
         lasted <- lasted[Watched], changes <- changes[Watched]
FilterRegisters == Shown!Spec

=============================================================================
