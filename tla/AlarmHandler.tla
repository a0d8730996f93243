---------------------------- MODULE AlarmHandler ----------------------------
(***************************************************************************)
(* One running Alarm Handler: the tree of groups and channels, the events  *)
(* that Channel Access delivers, what the operator does from the windows   *)
(* (acknowledge, change masks, beep severities, silence).                  *)
(*                                                                         *)
(* The program has one thread.  A callback on one channel is one action.   *)
(* A callback on a group walks over the channels below it: it is one       *)
(* action a channel, and until it returns no other callback can start.     *)
(***************************************************************************)
EXTENDS AlarmOps

CONSTANTS
  OperatorMasks,  \* bound: the sets of mask bits the operator combines on a channel
  BeepMenu,       \* what the operator uses of: "node", "system" beep severity, "silence"
  Rights,         \* access rights an IOC grants: "rw", "r", "none"
  AcktSetting,    \* values of the ACKT field of the records
  CountFloor,     \* bound: reconnections counted before the tree is shown
  CounterBound    \* bound: masks change while severity counters are within it

VARIABLES
  chan, group, psetup,     \* the state of AlarmOps
  link,                    \* link[c]: "down" or the access rights of the connection
  toBeConnectedCount,      \* connections alCaPend still waits for
  running                  \* the callback in progress on a group

vars == <<chan, group, psetup, link, toBeConnectedCount, running>>
St == [chan |-> chan, group |-> group, psetup |-> psetup]

ASSUME OperatorAssumption ==
  /\ OperatorMasks \subseteq SUBSET MaskBit
  /\ BeepMenu \subseteq {"node", "system", "silence"}
  /\ Rights \subseteq {"rw", "r", "none"}
  /\ AcktSetting \subseteq {0, 1}
  /\ CountFloor \in Int /\ CounterBound \in Nat

Root == CHOOSE g \in Group : Anc[g] = {}

(* running.call is the C function, top the group it was called for, rest   *)
(* what it has still to visit.  "alCaPend": the configuration was read and *)
(* the program waits for connections; only Channel Access is served.       *)
GroupCall == {"alForceGroupMask", "alChangeGroupMask", "alResetGroupMask"}
Call == GroupCall \cup {"alCaPend", "alSetNotConnected", "ackGroup", "none"}
Running == [call : Call, top : Group, mask : SUBSET MaskBit, index : MaskBit,
            op : MaskOp, rest : Seq(Node)]

Idle == running.call = "none"
Serving == running.call \in {"none", "alCaPend"}    \* Channel Access callbacks run

Become(s) == chan' = s.chan /\ group' = s.group /\ psetup' = s.psetup

----------------------------------------------------------------------------
(* GetChannelLine, for every channel of the configuration file.            *)

InitSevr(c) ==
  IF DefaultMask[c] \cap {"Cancel", "Disable"} = {} THEN ERROR_STATE ELSE NO_ALARM

InitChan(c) ==
  [curSevr |-> InitSevr(c), curStat |-> "NO_ALARM", unackSevr |-> NO_ALARM,
   beepSevr |-> BEEPSEVR[c], curMask |-> DefaultMask[c],
   evid |-> "Cancel" \notin DefaultMask[c],
   caAlarmEvent |-> [stat |-> "NO_ALARM", sevr |-> 0, acks |-> 0, ackt |-> 0],
   sevrPV |-> 0]

InitGroup(g) ==
  LET Under == {c \in Chan : g \in Anc[c]}
  IN [curSevr |-> NO_ALARM,
      curSev |-> [v \in Sevr |-> Cardinality({c \in Under : InitSevr(c) = v})],
      unackSevr |-> NO_ALARM, unackSev |-> [v \in AlarmSevr |-> 0],
      unackBeepSevr |-> NO_ALARM, unackBeepSev |-> [v \in AlarmSevr |-> 0],
      beepSevr |-> BEEPSEVR[g], highestBeepSevr |-> NO_ALARM,
      beepSev |-> [v \in AlarmSevr |-> 0],
      mask |-> [b \in MaskBit |-> Cardinality({c \in Under : b \in DefaultMask[c]})],
      sevrPV |-> 0]

InitSetup ==
  [silenceCurrent |-> FALSE, beepSevr |-> 1, newUnackBeepSevr |-> NO_ALARM]

NoCall == [call |-> "none", top |-> Root, mask |-> {}, index |-> "Log",
           op |-> "OFF", rest |-> <<>>]

Init ==
  /\ chan = [c \in Chan |-> InitChan(c)]
  /\ group = [g \in Group |-> InitGroup(g)]
  /\ psetup = InitSetup
  /\ link = [c \in Chan |-> "down"]
  /\ toBeConnectedCount = Cardinality(Chan)
  /\ running = [NoCall EXCEPT !.call = "alCaPend"]

----------------------------------------------------------------------------
(* Channel Access callbacks.                                               *)

\* alCaNewAlarmEvent
AlarmEventOf(c, e) ==
  /\ Serving
  /\ link[c] \in {"rw", "r"} /\ chan[c].evid
  /\ Become(alNewEvent(St, c, e.stat, e.sevr, e.acks, e.ackt))
  /\ UNCHANGED <<link, toBeConnectedCount, running>>

\* what an IOC sends: ERROR_STATE is the Alarm Handler's own severity, and a record
\* whose transients need no acknowledgement has no older unacknowledged severity
IocEvent ==
  {e \in [stat : {"NO_ALARM", "ALARM"}, sevr : 0 .. ALARM_NSEV - 1,
          acks : 0 .. ALARM_NSEV - 1, ackt : AcktSetting] :
     /\ e.stat = "NO_ALARM" <=> e.sevr = 0
     /\ e.ackt = 0 => e.acks <= e.sevr
     /\ ~GlobalFlag => e.acks = 0}

CaAlarmEvent(c) == \E e \in IocEvent : AlarmEventOf(c, e)

\* the events of alCaChannelConnectionEvent and alCaChannelAccessRightsEvent
ErrorEvent(s, c, stat) == alNewEvent(s, c, stat, ERROR_STATE, 0, -1)
NeedsWrite == GlobalFlag /\ ~PassiveFlag

ConnUp(c, r) ==
  LET s == alConnectEvent(St, c)
  IN  /\ Serving /\ link[c] = "down"
      /\ \/ Idle /\ UNCHANGED toBeConnectedCount     \* not read again
         \/ /\ ~Idle /\ toBeConnectedCount > CountFloor
            /\ toBeConnectedCount' = toBeConnectedCount - 1
      /\ link' = [link EXCEPT ![c] = r]
      /\ Become(IF r = "none" THEN ErrorEvent(s, c, "NO_READ_ACCESS")
                ELSE IF r = "r" /\ NeedsWrite THEN ErrorEvent(s, c, "NO_WRITE_ACCESS")
                ELSE s)
      /\ UNCHANGED running

ConnDown(c) ==
  /\ Serving /\ link[c] # "down"
  /\ link' = [link EXCEPT ![c] = "down"]
  /\ Become(ErrorEvent(St, c, "NOT_CONNECTED"))
  /\ UNCHANGED <<toBeConnectedCount, running>>

AccessRightsEvent(c, r) ==
  LET s == IF r = "none" THEN ErrorEvent(St, c, "NO_READ_ACCESS") ELSE St
  IN  /\ Serving /\ link[c] \notin {"down", r}
      /\ link' = [link EXCEPT ![c] = r]
      /\ Become(IF r # "rw" /\ NeedsWrite THEN ErrorEvent(s, c, "NO_WRITE_ACCESS") ELSE s)
      /\ UNCHANGED <<toBeConnectedCount, running>>

\* mutant: the wait goes on until every channel is connected
EndPend_All ==
  /\ running.call = "alCaPend" /\ toBeConnectedCount <= 0
  /\ running' = NoCall
  /\ UNCHANGED <<chan, group, psetup, link, toBeConnectedCount>>

\* the wait for connections ends: all are there, or one second passed without any
EndPend ==
  /\ running.call = "alCaPend"
  /\ running' = IF toBeConnectedCount = 0 THEN NoCall
                ELSE [NoCall EXCEPT !.call = "alSetNotConnected", !.rest = CaWalk]
  /\ UNCHANGED <<chan, group, psetup, link, toBeConnectedCount>>

----------------------------------------------------------------------------
(* Operator callbacks on one channel.                                      *)

OnChannel(s) == Idle /\ Become(s) /\ UNCHANGED <<link, toBeConnectedCount, running>>

\* maskActivateCallback
ForceChanMask(c, b, op) == OnChannel(silenceCurrentReset(alForceChanMask(St, c, b, op)))

\* forceMaskApplyCallback and forceMaskResetCallback
ChangeChanMask(c, mask) == OnChannel(silenceCurrentReset(alChangeChanMask(St, c, mask)))
ResetChanMask(c) == OnChannel(silenceCurrentReset(alChangeChanMask(St, c, DefaultMask[c])))

\* ack_callback
AckChan(c) ==
  /\ ~PassiveFlag /\ chan[c].unackSevr # NO_ALARM
  /\ OnChannel(ackChan(St, c))

\* beepSevrChangeCallback
ChangeBeepSevr(n, sevr) ==
  OnChannel(IF n \in Chan THEN alSetBeepSevrChan(St, n, sevr)
            ELSE alSetBeepSevrGroup(St, n, sevr))

\* the ALH Beep Severity menu: MINOR, MAJOR or INVALID
SystemBeepSevr(sevr) == OnChannel([St EXCEPT !.psetup.beepSevr = sevr])

\* silenceCurrent_callback
ToggleSilenceCurrent ==
  OnChannel([St EXCEPT !.psetup.silenceCurrent = ~@])

----------------------------------------------------------------------------
(* Operator callbacks on a group.                                          *)

StartCall(call, g) ==
  /\ Idle
  /\ running' = [NoCall EXCEPT !.call = call, !.top = g, !.rest = Walk[g]]
  /\ UNCHANGED <<chan, group, psetup, link, toBeConnectedCount>>

ForceGroupMask(g, b, op) ==
  /\ Idle
  /\ running' = [NoCall EXCEPT !.call = "alForceGroupMask", !.top = g,
                               !.index = b, !.op = op, !.rest = Walk[g]]
  /\ UNCHANGED <<chan, group, psetup, link, toBeConnectedCount>>

ChangeGroupMask(g, mask) ==
  /\ Idle
  /\ running' = [NoCall EXCEPT !.call = "alChangeGroupMask", !.top = g,
                               !.mask = mask, !.rest = Walk[g]]
  /\ UNCHANGED <<chan, group, psetup, link, toBeConnectedCount>>

ResetGroupMask(g) == StartCall("alResetGroupMask", g)

AckGroup(g) ==
  /\ ~PassiveFlag /\ group[g].unackSevr # NO_ALARM
  /\ StartCall("ackGroup", g)

\* what the running callback does to the channel it has reached
Visit(s, c) ==
  CASE running.call = "alForceGroupMask" -> alForceChanMask(s, c, running.index, running.op)
    [] running.call = "alChangeGroupMask" -> alChangeChanMask(s, c, running.mask)
    [] running.call = "alResetGroupMask" -> alChangeChanMask(s, c, DefaultMask[c])
    [] running.call = "ackGroup" -> ackChan(s, c)
    [] running.call = "alSetNotConnected" ->
         IF link[c] = "down" THEN ErrorEvent(s, c, "NOT_CONNECTED") ELSE s
    [] OTHER -> s

\* mutant: a group without a current alarm is skipped
Skips_NoAlarm(n) == n \in Group /\ running.call = "ackGroup" /\ group[n].curSevr = NO_ALARM

\* ackGroup returns at once from a group without unacknowledged alarms
Skips(n) == n \in Group /\ running.call = "ackGroup" /\ group[n].unackSevr = NO_ALARM

\* the loop goes on with the node after the first of rest, or the callback returns
Advance ==
  LET n == Head(running.rest)
  IN  /\ ~Serving
      /\ running' = IF running.rest = <<>> THEN NoCall
                    ELSE [running EXCEPT
                           !.rest = IF Skips(n) THEN SubSeq(@, Len(Walk[n]) + 2, Len(@))
                                    ELSE Tail(@)]

CallbackStep ==
  /\ Advance
  /\ \/ /\ running.rest # <<>> /\ Head(running.rest) \in Chan
        /\ Become(Visit(St, Head(running.rest)))
     \/ /\ running.rest # <<>> /\ Head(running.rest) \in Group
        /\ UNCHANGED <<chan, group, psetup>>
     \/ /\ running.rest = <<>>
        /\ Become(IF running.call \in GroupCall THEN silenceCurrentReset(St) ELSE St)
  /\ UNCHANGED <<link, toBeConnectedCount>>

----------------------------------------------------------------------------
ChannelAccess ==
  \/ \E c \in Chan : CaAlarmEvent(c) \/ ConnDown(c)
  \/ \E c \in Chan, r \in Rights : ConnUp(c, r) \/ AccessRightsEvent(c, r)

CountersBounded ==
  \A g \in Group, v \in Sevr : group[g].curSev[v] \in -CounterBound .. CounterBound

OperatorBits == UNION OperatorMasks

\* neither the mask the channel has nor the one it gets leaves what is combined
Combined(c, mask) == (chan[c].curMask \cup mask) \cap OperatorBits \in OperatorMasks
CombinedReset(g) == \A c \in Chan : g \in Anc[c] => Combined(c, DefaultMask[c])
CombinedBelow(g, mask) == \A c \in Chan : g \in Anc[c] => Combined(c, mask)

MaskCallback ==
  /\ CountersBounded
  /\ \/ \E b \in OperatorBits, op \in MaskOp :
          \/ \E c \in Chan : Combined(c, {b}) /\ ForceChanMask(c, b, op)
          \/ \E g \in Group : CombinedBelow(g, {b}) /\ ForceGroupMask(g, b, op)
     \/ \E mask \in OperatorMasks :
          \/ \E c \in Chan : Combined(c, mask) /\ ChangeChanMask(c, mask)
          \/ \E g \in Group : CombinedBelow(g, mask) /\ ChangeGroupMask(g, mask)
     \/ \E c \in Chan : Combined(c, DefaultMask[c]) /\ ResetChanMask(c)
     \/ \E g \in Group : CombinedReset(g) /\ ResetGroupMask(g)

AckCallback ==
  \/ \E c \in Chan : AckChan(c)
  \/ \E g \in Group : AckGroup(g)

BeepCallback ==
  \/ /\ "node" \in BeepMenu
     /\ \E n \in Node, sevr \in AlarmSevr : ChangeBeepSevr(n, sevr)
  \/ /\ "system" \in BeepMenu
     /\ \E sevr \in 1 .. ALARM_NSEV - 1 : SystemBeepSevr(sevr)
  \/ "silence" \in BeepMenu /\ ToggleSilenceCurrent

Next ==
  \/ ChannelAccess \/ EndPend
  \/ MaskCallback \/ AckCallback \/ BeepCallback
  \/ CallbackStep

(* A callback that runs goes on until it returns (CallbackStep is the only *)
(* step that can do Advance), and the wait for connections ends.           *)
Fairness == WF_vars(EndPend) /\ WF_running(Advance)

Spec == Init /\ [][Next]_vars /\ Fairness

=============================================================================
