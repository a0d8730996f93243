--------------------------- MODULE RuntimeWindow ---------------------------
(***************************************************************************)
(* The runtime window of the Alarm Handler, its beeper, and the timers of  *)
(* the X toolkit that drive them: the lamp that blinks (axRunW.c), the     *)
(* update of the windows (alCA.c, alCaCommon.c), the end of a silence      *)
(* interval (axRunW.c), and the heartbeat of each configuration            *)
(* (heartbeat.c).  A timer runs once; whoever started it keeps its id to   *)
(* remove it, and an id is used again when its timer has run.  "File Open" *)
(* replaces the configuration under running timers.                        *)
(*                                                                         *)
(* Timers run in any order: of time only the order of events is kept.      *)
(* The tree of alarms is one channel, without masks (AlarmOps has the      *)
(* tree); the Current Alarm History window of current.c is included.       *)
(***************************************************************************)
EXTENDS Integers, FiniteSets

CONSTANTS
  TimerId,      \* bound: the ids of timers, numbers from 1
  Sevr,         \* the severities of alarms, with NO_ALARM
  HistorySize,  \* bound: the lines of the history window (10 in the code)
  File,         \* configuration files: [valid, beepSevr, heartbeat]
  Session       \* bound: what one session uses: [global, passive, history,
                \*        silence, silent, files, sevrs]

Silence == {"current", "interval", "forever", "severity"}

\* four timers are pending at most when another one is started; a file that is rejected can
\* leave one more (LeftBehind: while more than four ids are free)
ASSUME RuntimeConstants ==
  /\ TimerId \subseteq Nat \ {0} /\ TimerId # {}
  /\ \A a, b, c, d \in TimerId : \E i \in TimerId : i \notin {a, b, c, d}
  /\ HistorySize \in Nat \ {0}
  /\ Sevr \subseteq Nat /\ 0 \in Sevr
  /\ File \subseteq [valid : BOOLEAN, beepSevr : Sevr, heartbeat : BOOLEAN]
  /\ Session \subseteq [global : BOOLEAN, passive : BOOLEAN, history : BOOLEAN, silent : BOOLEAN,
                        silence : SUBSET Silence, files : SUBSET File, sevrs : SUBSET Sevr]
  /\ \A s \in Session : \E f \in s.files : f.valid

VARIABLES
  session,     \* chosen when the program starts
  xt,          \* the pending timers: xt[id] = [proc, of]
  timerId,     \* the ids of blinkTimeoutId, caTimeoutId and intervalId
  heartbeatPV, \* heartbeatPV[g] of the main groups, of which one is loaded
  main,        \* area->pmainGroup
  chan,        \* severity and unacknowledged severity of the channel
  psetup,      \* psetup of alh.h
  lamp,        \* blinkButton, and the static variables of blinking
  area,        \* managed, and modified of its main group
  beat,        \* observation: parity of the puts to heartbeat PVs
  history      \* the strings and the labels of the history window

timers == <<xt, timerId>>
vars == <<session, xt, timerId, heartbeatPV, main, chan, psetup, lamp, area, beat, history>>

NO_ALARM == 0
NoId == 0
MainGroup == {1, 2}
Line == 0 .. HistorySize - 1
Blank == -1

(***************************************************************************)
(* Timers of the toolkit.                                                  *)
(***************************************************************************)
XtAppAddTimeOut(x, id, proc, of) ==
  [i \in DOMAIN x \cup {id} |-> IF i = id THEN [proc |-> proc, of |-> of] ELSE x[i]]
XtRemoveTimeOut(x, id) == [i \in DOMAIN x \ {id} |-> x[i]]

\* the id the next timer gets
NewId(x) == CHOOSE i \in TimerId : i \notin DOMAIN x

\* the procedure of timer id is called; the id is free after it
RunsOut(id, proc, of) == id \in DOMAIN xt /\ xt[id] = [proc |-> proc, of |-> of]

(***************************************************************************)
(* Severities as the update takes them from the top group.                 *)
(***************************************************************************)
alHighestSystemSeverity(p, c) ==
  [p EXCEPT !.highestSevr = c.curSevr, !.highestUnackSevr = c.unackSevr,
            !.highestUnackBeepSevr = c.unackSevr]

(***************************************************************************)
(* The lamp and the beeper.                                                *)
(***************************************************************************)
Silenced(p) == p.silenceForever \/ p.silenceSelectedMinutes \/ p.silenceCurrent

Beeps == ~lamp.blinking2State /\ ~Silenced(psetup) /\ psetup.highestUnackBeepSevr >= psetup.beepSevr

\* mutant: the second phase is not left
Blinked_StaysInPhase ==
  LET highest == IF psetup.highestUnackSevr > 0 THEN psetup.highestUnackSevr ELSE psetup.highestSevr
  IN  IF lamp.blinking2State
      THEN [lamp EXCEPT !.color = IF psetup.highestUnackSevr > 0 THEN NO_ALARM ELSE @]
      ELSE IF psetup.highestSevr > 0 \/ psetup.highestUnackSevr > 0 \/ lamp.blinkPixel # NO_ALARM
      THEN [blinking2State |-> TRUE, blinkPixel |-> highest, color |-> highest]
      ELSE [lamp EXCEPT !.blinking2State = TRUE]

Blinked ==
  LET highest == IF psetup.highestUnackSevr > 0 THEN psetup.highestUnackSevr ELSE psetup.highestSevr
  IN  IF lamp.blinking2State
      THEN [lamp EXCEPT !.blinking2State = FALSE,
                        !.color = IF psetup.highestUnackSevr > 0 THEN NO_ALARM ELSE @]
      ELSE IF psetup.highestSevr > 0 \/ psetup.highestUnackSevr > 0 \/ lamp.blinkPixel # NO_ALARM
      THEN [blinking2State |-> TRUE, blinkPixel |-> highest, color |-> highest]
      ELSE [lamp EXCEPT !.blinking2State = TRUE]

blinking(id) ==
  /\ RunsOut(id, "blinking", 0)
  /\ lamp' = Blinked
  /\ LET x == XtRemoveTimeOut(xt, id) IN
       /\ xt' = XtAppAddTimeOut(x, NewId(x), "blinking", 0)
       /\ timerId' = [timerId EXCEPT !.blink = NewId(x)]
  /\ UNCHANGED <<session, heartbeatPV, main, chan, psetup, area, beat, history>>

\* mutant: the blinking that goes on is not ended
icon_update_Add(t) ==
  [t EXCEPT !.xt = XtAppAddTimeOut(t.xt, NewId(t.xt), "blinking", 0),
            !.timerId.blink = NewId(t.xt)]

\* the blinking that goes on is replaced; t = [xt, timerId, psetup] here and below
icon_update(t) ==
  LET x == XtRemoveTimeOut(t.xt, t.timerId.blink) IN
  [psetup |-> t.psetup, xt |-> XtAppAddTimeOut(x, NewId(x), "blinking", 0),
   timerId |-> [t.timerId EXCEPT !.blink = NewId(x)]]

(***************************************************************************)
(* Silence buttons.                                                        *)
(***************************************************************************)
silenceCurrentReset(p) == [p EXCEPT !.silenceCurrent = FALSE]

\* mutant: the timer is left to run out
silenceSelectedMinutes_callback_Leave(t) ==
  IF t.psetup.silenceSelectedMinutes
  THEN [t EXCEPT !.psetup.silenceSelectedMinutes = FALSE, !.timerId.interval = NoId]
  ELSE [psetup |-> [t.psetup EXCEPT !.silenceSelectedMinutes = TRUE],
        xt |-> XtAppAddTimeOut(t.xt, NewId(t.xt), "silenceSelectedMinutesReset", 0),
        timerId |-> [t.timerId EXCEPT !.interval = NewId(t.xt)]]

silenceSelectedMinutes_callback(t) ==
  IF t.psetup.silenceSelectedMinutes
  THEN [psetup |-> [t.psetup EXCEPT !.silenceSelectedMinutes = FALSE],
        xt |-> XtRemoveTimeOut(t.xt, t.timerId.interval),
        timerId |-> [t.timerId EXCEPT !.interval = NoId]]
  ELSE [psetup |-> [t.psetup EXCEPT !.silenceSelectedMinutes = TRUE],
        xt |-> XtAppAddTimeOut(t.xt, NewId(t.xt), "silenceSelectedMinutesReset", 0),
        timerId |-> [t.timerId EXCEPT !.interval = NewId(t.xt)]]

silenceSelectedMinutesReset(t) ==
  IF t.psetup.silenceSelectedMinutes THEN silenceSelectedMinutes_callback(t) ELSE t

Now == [xt |-> xt, timerId |-> timerId, psetup |-> psetup]
Becomes(t) == xt' = t.xt /\ timerId' = t.timerId /\ psetup' = t.psetup

\* the timer's own id is still that of a pending timer while its procedure runs
IntervalEnds(id) ==
  /\ RunsOut(id, "silenceSelectedMinutesReset", 0)
  /\ LET t == silenceSelectedMinutesReset(Now)
     IN  Becomes([t EXCEPT !.xt = XtRemoveTimeOut(@, id)])
  /\ UNCHANGED <<session, heartbeatPV, main, chan, lamp, area, beat, history>>

SilenceCurrentButton ==
  /\ "current" \in session.silence
  /\ psetup' = [psetup EXCEPT !.silenceCurrent = ~@]
  /\ UNCHANGED <<session, timers, heartbeatPV, main, chan, lamp, area, beat, history>>

SilenceIntervalButton ==
  /\ "interval" \in session.silence
  /\ Becomes(silenceSelectedMinutes_callback(Now))
  /\ UNCHANGED <<session, heartbeatPV, main, chan, lamp, area, beat, history>>

\* another "Silence Interval" of the Setup menu; the one already set changes nothing
SilenceIntervalMenu ==
  /\ "interval" \in session.silence
  /\ Becomes(silenceSelectedMinutesReset(Now))
  /\ UNCHANGED <<session, heartbeatPV, main, chan, lamp, area, beat, history>>

silenceForeverChangeState ==
  /\ "forever" \in session.silence
  /\ psetup' = [psetup EXCEPT !.silenceForever = ~@]
  /\ UNCHANGED <<session, timers, heartbeatPV, main, chan, lamp, area, beat, history>>

BeepSeverityMenu(sevr) ==
  /\ "severity" \in session.silence /\ sevr > NO_ALARM
  /\ psetup' = [psetup EXCEPT !.beepSevr = sevr]
  /\ UNCHANGED <<session, timers, heartbeatPV, main, chan, lamp, area, beat, history>>

(***************************************************************************)
(* The heartbeat of a main group, [chid, write, timerId], where chid is    *)
(* "up", "down" or None; t is the pair of it and xt.                       *)
(***************************************************************************)
None == "none"
Puts == session.global /\ ~session.passive
NoHeartbeat == [chid |-> None, write |-> FALSE, timerId |-> NoId]

alHeartbeatStop(t, g) == <<[t[1] EXCEPT !.timerId = NoId], XtRemoveTimeOut(t[2], t[1].timerId)>>

alHeartbeatStart(t, g) ==
  LET x == XtRemoveTimeOut(t[2], t[1].timerId) IN
  <<[t[1] EXCEPT !.timerId = NewId(x)], XtAppAddTimeOut(x, NewId(x), "heartbeat", g)>>

\* the event handlers of its connection and of its access rights
StartOrStop(t, g) ==
  IF t[1].chid = "up" /\ (t[1].write \/ ~Puts)
  THEN alHeartbeatStart(t, g)
  ELSE alHeartbeatStop(t, g)

\* mutant: the channel goes, its timer stays
alHeartbeatPVRemove_Leave(t, g) == <<NoHeartbeat, t[2]>>

alHeartbeatPVRemove(t, g) == <<NoHeartbeat, alHeartbeatStop(t, g)[2]>>

alCaPutHeartbeatValue(g) == beat' = IF Puts /\ heartbeatPV[g].chid = "up" THEN ~beat ELSE beat

\* mutant: one beat only
alHeartbeatTimerCallback_Once(id, g) ==
  /\ RunsOut(id, "heartbeat", g)
  /\ alCaPutHeartbeatValue(g)
  /\ xt' = XtRemoveTimeOut(xt, id) /\ UNCHANGED heartbeatPV
  /\ UNCHANGED <<session, timerId, main, chan, psetup, lamp, area, history>>

alHeartbeatTimerCallback(id, g) ==
  /\ RunsOut(id, "heartbeat", g)
  /\ LET x == XtRemoveTimeOut(xt, id) IN
       IF heartbeatPV[g].chid = None
       THEN xt' = x /\ UNCHANGED <<heartbeatPV, beat>>
       ELSE /\ alCaPutHeartbeatValue(g)
            /\ xt' = XtAppAddTimeOut(x, NewId(x), "heartbeat", g)
            /\ heartbeatPV' = [heartbeatPV EXCEPT ![g].timerId = NewId(x)]
  /\ UNCHANGED <<session, timerId, main, chan, psetup, lamp, area, history>>

\* the PV connects or disconnects, or its access rights change
HeartbeatEvent(chid, write) ==
  /\ heartbeatPV[main].chid # None /\ chid \in {"up", "down"}
  /\ chid = "down" => ~write
  /\ LET t == StartOrStop(<<[heartbeatPV[main] EXCEPT !.chid = chid, !.write = write], xt>>, main)
     IN  /\ heartbeatPV' = [heartbeatPV EXCEPT ![main] = t[1]]
         /\ xt' = t[2]
  /\ UNCHANGED <<session, timerId, main, chan, psetup, lamp, area, beat, history>>

(***************************************************************************)
(* The Current Alarm History window: a ring of strings and the labels that *)
(* show them, the oldest first.                                            *)
(***************************************************************************)
updateCurrentAlarmString(h, sevr) ==
  [h EXCEPT !.string[h.index] = sevr, !.index = (@ + 1) % HistorySize]

InOrder(h) == [i \in Line |-> h.string[(h.index + i) % HistorySize]]

updateCurrentAlarmWindow(h) ==
  IF h.shown THEN [h EXCEPT !.label = InOrder(h), !.dropped = FALSE] ELSE h

resetCurrentAlarmWindow(h) ==
  updateCurrentAlarmWindow([h EXCEPT !.string = [i \in Line |-> Blank], !.index = 0])

\* mutant: the labels wait for the next update
currentAlarmHistoryWindow_NoUpdate(h) == [h EXCEPT !.shown = ~@]

\* the menu item shows and hides it; so does its Close button
currentAlarmHistoryWindow(h) ==
  updateCurrentAlarmWindow([h EXCEPT !.shown = ~@])

HistoryMenu ==
  /\ session.history
  /\ history' = currentAlarmHistoryWindow(history)
  /\ UNCHANGED <<session, timers, heartbeatPV, main, chan, psetup, lamp, area, beat>>

(***************************************************************************)
(* The periodic update.                                                    *)
(***************************************************************************)
\* modified is cleared even when the update is not made; dropped observes that
alUpdateAreas ==
  /\ psetup' = alHighestSystemSeverity(psetup, chan)
  /\ area' = [area EXCEPT !.modified = FALSE]
  /\ history' = IF ~area.modified THEN history
                ELSE IF area.managed THEN updateCurrentAlarmWindow(history)
                ELSE [history EXCEPT !.dropped = @ \/ history.shown]

alCaUpdate(id) ==
  /\ RunsOut(id, "alCaUpdate", 0)
  /\ alUpdateAreas
  /\ LET x == XtRemoveTimeOut(xt, id) IN
       /\ xt' = XtAppAddTimeOut(x, NewId(x), "alCaUpdate", 0)
       /\ timerId' = [timerId EXCEPT !.ca = NewId(x)]
  /\ UNCHANGED <<session, heartbeatPV, main, chan, lamp, beat>>

(***************************************************************************)
(* The channel: an event with its severity and, in global mode, the        *)
(* severity to acknowledge of the IOC; and its acknowledgement.            *)
(***************************************************************************)
alNewEvent(sevr, acks) ==
  LET unack == IF session.global THEN acks
               ELSE IF sevr >= chan.unackSevr THEN sevr ELSE chan.unackSevr
      newUnack == IF unack = chan.unackSevr THEN NO_ALARM ELSE unack
  IN  /\ chan # [curSevr |-> sevr, unackSevr |-> unack]
      /\ session.global => acks >= sevr \/ acks = NO_ALARM
      /\ chan' = [curSevr |-> sevr, unackSevr |-> unack]
      /\ area' = [area EXCEPT !.modified = TRUE]
      /\ history' = IF session.history /\ sevr # chan.curSevr
                    THEN updateCurrentAlarmString(history, sevr) ELSE history
      /\ psetup' = IF sevr # chan.curSevr /\ newUnack >= psetup.beepSevr
                   THEN silenceCurrentReset(psetup) ELSE psetup
      /\ UNCHANGED <<session, timers, heartbeatPV, main, lamp, beat>>

ackChan ==
  /\ ~session.global /\ chan.unackSevr > NO_ALARM
  /\ chan' = [chan EXCEPT !.unackSevr = NO_ALARM]
  /\ area' = [area EXCEPT !.modified = TRUE]
  /\ UNCHANGED <<session, timers, heartbeatPV, main, psetup, lamp, history, beat>>

(***************************************************************************)
(* "File Open": its dialog, and the configuration it loads.                *)
(***************************************************************************)
MenuFileOpen ==
  /\ area.managed
  /\ area' = [area EXCEPT !.managed = FALSE]
  /\ UNCHANGED <<session, timers, heartbeatPV, main, chan, psetup, lamp, history, beat>>

fileCancelCallback ==
  /\ ~area.managed
  /\ area' = [area EXCEPT !.managed = TRUE]
  /\ UNCHANGED <<session, timers, heartbeatPV, main, chan, psetup, lamp, history, beat>>

\* the PV of $HEARTBEATPV is searched, and answers while alCaPend waits
alCaConnectHeartbeatPV(t, g, chid, write) ==
  StartOrStop(<<[t[1] EXCEPT !.chid = chid, !.write = write], t[2]>>, g)

\* the main group a file makes
Connected(g, file, chid, write, x) ==
  IF file.heartbeat THEN alCaConnectHeartbeatPV(<<NoHeartbeat, x>>, g, chid, write)
  ELSE <<NoHeartbeat, x>>

\* what is left of the configuration in the area
setupArea(x) == alHeartbeatPVRemove(<<heartbeatPV[main], x>>, main)

\* the runtime window starts again
createRuntimeWindow(t) ==
  icon_update(silenceSelectedMinutesReset([t EXCEPT !.psetup = silenceCurrentReset(@)]))

\* A file with a group.  Alarms of the new channel arrive before the main group has its area: the history does not show them, and one that would end
\* "Silence Current" is excluded (README, section 5).
setupConfig(file, chid, write, c) ==
  LET new == CHOOSE g \in MainGroup : g # main
      started == Connected(new, file, chid, write, xt)
      removed == setupArea(started[2])
      p == alHighestSystemSeverity([psetup EXCEPT !.beepSevr = file.beepSevr], c)
  IN  /\ ~area.managed /\ file.valid
      /\ psetup.silenceCurrent => c.unackSevr < file.beepSevr
      /\ heartbeatPV' = [heartbeatPV EXCEPT ![new] = started[1], ![main] = removed[1]]
      /\ main' = new /\ chan' = c
      /\ Becomes(createRuntimeWindow([xt |-> removed[2], timerId |-> timerId, psetup |-> p]))
      /\ lamp' = [lamp EXCEPT !.color = NO_ALARM]
      /\ area' = [managed |-> TRUE, modified |-> c # [curSevr |-> NO_ALARM, unackSevr |-> NO_ALARM]]
      /\ history' = resetCurrentAlarmWindow(history)
      /\ UNCHANGED <<session, beat>>

\* The main group is freed as it is, but the PV of its $HEARTBEATPV line was searched as soon as
\* the line was read: its timer goes on for a freed main group.  What comes of that is undefined
\* behaviour; here the memory keeps its contents until the next file gets it.
LeftBehind(file, chid, write) ==
  LET new == CHOOSE g \in MainGroup : g # main
      left == Connected(new, file, chid, write, xt)
  IN  /\ Cardinality(TimerId \ DOMAIN xt) > 4
      /\ heartbeatPV' = [heartbeatPV EXCEPT ![new] = left[1]] /\ xt' = left[2]

setupConfigFails(file, chid, write) ==
  /\ ~area.managed /\ ~file.valid
  /\ area' = [area EXCEPT !.managed = TRUE]
  /\ IF file.heartbeat THEN LeftBehind(file, chid, write) ELSE UNCHANGED <<heartbeatPV, xt>>
  /\ UNCHANGED <<session, timerId, main, chan, psetup, lamp, history, beat>>

FileOpened(file, chid, write, c) ==
  setupConfig(file, chid, write, c) \/ setupConfigFails(file, chid, write)

(***************************************************************************)
(* The program starts with a file, and -s sets silenceForever.             *)
(***************************************************************************)
Quiet == [curSevr |-> NO_ALARM, unackSevr |-> NO_ALARM]

Started(file, chid, write, silent) ==
  LET ca == NewId(<<>>)
      started == Connected(1, file, chid, write, XtAppAddTimeOut(<<>>, ca, "alCaUpdate", 0))
  IN  /\ file.valid
      /\ main = 1
      /\ heartbeatPV = [g \in MainGroup |-> IF g = 1 THEN started[1] ELSE NoHeartbeat]
      /\ timerId = [blink |-> NewId(started[2]), ca |-> ca, interval |-> NoId]
      /\ xt = XtAppAddTimeOut(started[2], NewId(started[2]), "blinking", 0)
      /\ psetup = [silenceForever |-> silent, silenceSelectedMinutes |-> FALSE,
                    silenceCurrent |-> FALSE, beepSevr |-> file.beepSevr, highestSevr |-> NO_ALARM,
                    highestUnackSevr |-> NO_ALARM, highestUnackBeepSevr |-> NO_ALARM]

RuntimeInit ==
  /\ session \in Session
  /\ \E file \in session.files, up, write \in BOOLEAN :
       /\ write => up
       /\ Started(file, IF up THEN "up" ELSE "down", write, session.silent)
  /\ chan = Quiet
  /\ lamp = [blinking2State |-> FALSE, blinkPixel |-> NO_ALARM, color |-> NO_ALARM]
  /\ area = [managed |-> TRUE, modified |-> FALSE]
  /\ beat = FALSE
  /\ history = [string |-> [i \in Line |-> Blank], index |-> 0, label |-> [i \in Line |-> Blank],
                shown |-> FALSE, dropped |-> FALSE]

Blinks == \E id \in DOMAIN xt : blinking(id)
Updates == \E id \in DOMAIN xt : alCaUpdate(id)
SilenceEnds == \E id \in DOMAIN xt : IntervalEnds(id)
HeartBeats(g) == \E id \in DOMAIN xt : alHeartbeatTimerCallback(id, g)

RuntimeNext ==
  \/ Blinks \/ Updates \/ SilenceEnds
  \/ \E g \in MainGroup : HeartBeats(g)
  \/ SilenceCurrentButton \/ SilenceIntervalButton \/ SilenceIntervalMenu
  \/ silenceForeverChangeState
  \/ \E sevr \in session.sevrs : BeepSeverityMenu(sevr)
  \/ \E chid \in {"up", "down"}, write \in BOOLEAN : HeartbeatEvent(chid, write)
  \/ HistoryMenu
  \/ \E sevr, acks \in session.sevrs : alNewEvent(sevr, acks)
  \/ ackChan
  \/ MenuFileOpen \/ fileCancelCallback
  \/ \E file \in session.files, chid \in {"up", "down"}, write \in BOOLEAN, sevr \in session.sevrs :
       FileOpened(file, chid, write, [curSevr |-> sevr, unackSevr |-> sevr])

\* the toolkit calls the procedure of every timer that has run out
RuntimeSpec ==
  /\ RuntimeInit /\ [][RuntimeNext]_vars
  /\ WF_vars(Blinks) /\ WF_vars(Updates) /\ WF_vars(SilenceEnds)
  /\ \A g \in MainGroup : WF_vars(HeartBeats(g))

(***************************************************************************)
(* Properties.                                                             *)
(***************************************************************************)
\* no file without a group names a heartbeat PV: its timer would be left behind
NoHeartbeatRejected == \A file \in File : file.heartbeat => file.valid

Running(g) == heartbeatPV[g].chid = "up" /\ (heartbeatPV[g].write \/ ~Puts)

\* What each part believes to be pending is what is pending, and nothing else is: one blinking,
\* one update, the end of a silence interval while there is one, and the heartbeat of the loaded
\* configuration while its PV can be written, unless a file was rejected that had a
\* $HEARTBEATPV line (NoHeartbeatRejected).  A timer left behind would go on for a freed main
\* group, blink twice, or end the next silence early; an id kept too long would remove another's
\* timer, for ids are used again (axRunW.c, heartbeat.c, axArea.c).
TimersOwned ==
  {[id |-> i, proc |-> xt[i].proc, of |-> xt[i].of] : i \in DOMAIN xt} =
    {[id |-> timerId.blink, proc |-> "blinking", of |-> 0],
     [id |-> timerId.ca, proc |-> "alCaUpdate", of |-> 0]}
    \cup {[id |-> i, proc |-> "silenceSelectedMinutesReset", of |-> 0] :
            i \in IF psetup.silenceSelectedMinutes THEN {timerId.interval} ELSE {}}
    \cup {[id |-> heartbeatPV[g].timerId, proc |-> "heartbeat", of |-> g] :
            g \in {h \in {main} : Running(h)}}

\* The history window shows the last alarms in their order, once they were updated, unless an
\* update came while the "File Open" dialog was up: alUpdateAreas then clears modified without
\* making it (current.c, alCaCommon.c:264-272).
HistoryShown ==
  history.shown /\ ~area.modified /\ ~history.dropped => history.label = InOrder(history)

Due == ~Silenced(psetup) /\ chan.unackSevr >= psetup.beepSevr
Beep == Beeps /\ Blinks

\* As long as an alarm of the beep severity is unacknowledged and no silence is set, it beeps
\* again and again, whatever the operator loads meanwhile, and it stops beeping when there is
\* none; the lamp shows the unacknowledged severity or, when all is acknowledged, the severity
\* (blinking and alCaUpdate, which run apart and see each other's state late, axRunW.c:327).
AlarmsBlinkAndBeep ==
  \A s \in Sevr :
    /\ <>[](chan.unackSevr = s /\ Due) => []<><<Beep>>_vars
    /\ <>[](chan.unackSevr = s /\ ~Due) => <>[][~Beep]_vars
    /\ <>[](chan.unackSevr = s /\ s > NO_ALARM) => []<>(lamp.color = s)
    /\ <>[](chan = [curSevr |-> s, unackSevr |-> NO_ALARM]) => []<>(lamp.color = s)

\* In active global mode a heartbeat PV that stays connected and writable is written again and
\* again, through reloads and changes of its rights (heartbeat.c, alCA.c:553, 650).
HeartbeatBeats ==
  \A g \in MainGroup :
    <>[](Puts /\ main = g /\ heartbeatPV[g].chid = "up" /\ heartbeatPV[g].write)
      => []<>beat /\ []<>~beat

=============================================================================
