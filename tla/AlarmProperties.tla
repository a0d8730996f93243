-------------------------- MODULE AlarmProperties --------------------------
(***************************************************************************)
(* What must hold of a running Alarm Handler.                              *)
(***************************************************************************)
EXTENDS AlarmHandler

(* Every variable has its type: severities stay in the arrays' bounds.     *)
TypeOK ==
  /\ St \in State
  /\ link \in [Chan -> {"down", "rw", "r", "none"}]
  /\ toBeConnectedCount \in Int
  /\ running \in Running

(* alLib.h "no. of channels of masked types": the mask of a group counts   *)
(* the channels below it that have the bit set, whatever path changed it.  *)
MaskCountsExact ==
  \A g \in Group, b \in MaskBit :
    group[g].mask[b] = Cardinality({c \in ChannelsBelow(g) : b \in chan[c].curMask})

(* alLib.h "channels of different severity", the severity summary of a     *)
(* group line: each counter is the number of channels below that show this *)
(* severity; a disabled channel shows none.                                *)
Shown(c) == IF "Disable" \in chan[c].curMask THEN NO_ALARM ELSE chan[c].curSevr
CurCountsExact ==
  \A g \in Group, v \in Sevr :
    group[g].curSev[v] = Cardinality({c \in ChannelsBelow(g) : Shown(c) = v})

(* alLib.h "channels of unacknowledged sevr", and with it the colour of    *)
(* the group's acknowledge button: no unacknowledged alarm is forgotten or *)
(* counted twice.  Global mode keeps the IOC's severity of a channel whose *)
(* alarms are disabled or need no acknowledgement, outside the counters.   *)
Unack(c) ==
  IF GlobalFlag /\ chan[c].curMask \cap {"Disable", "Ack"} # {} THEN NO_ALARM
  ELSE chan[c].unackSevr
UnackCountsExact ==
  \A g \in Group :
    /\ \A v \in AlarmSevr :
         group[g].unackSev[v] = Cardinality({c \in ChannelsBelow(g) : Unack(c) = v})
    /\ \A c \in ChannelsBelow(g) : Unack(c) <= group[g].unackSevr
    /\ group[g].unackSevr \in {NO_ALARM} \cup {Unack(c) : c \in ChannelsBelow(g)}

(* Both summaries of the alarms below a group are exact.                   *)
SeverityCountsExact == CurCountsExact /\ UnackCountsExact

(* alLib.h "channels of unacknowledged sev >= beep sev": what decides on   *)
(* the beep counts a channel when its severity reaches the beep severity   *)
(* of the channel and of every group on the way.                           *)
BeepSeen(c, g) ==
  IF \A n \in {c} \cup Below(c, g) : BeepSevr(St, n) <= Unack(c) THEN Unack(c) ELSE NO_ALARM
BeepCountsExact ==
  \A g \in Group :
    LET Beeping == {c \in ChannelsBelow(g) : BeepSeen(c, g) >= group[g].beepSevr}
    IN  /\ \A v \in AlarmSevr :
             group[g].unackBeepSev[v] = Cardinality({c \in ChannelsBelow(g) : BeepSeen(c, g) = v})
        /\ \A c \in Beeping : BeepSeen(c, g) <= group[g].unackBeepSevr
        /\ group[g].unackBeepSevr \in {NO_ALARM} \cup {BeepSeen(c, g) : c \in Beeping}

(* alLib.h "channels of different beep severity": each counter is the      *)
(* number of groups and channels in the subtree with this beep severity.   *)
BeepSevCountsExact ==
  \A g \in Group, v \in AlarmSevr :
    group[g].beepSev[v] =
      Cardinality({n \in Node : (n = g \/ g \in Anc[n]) /\ BeepSevr(St, n) = v})

(* A channel that is cancelled receives no alarm events, any other does:   *)
(* the subscription follows the Cancel bit through every change.           *)
EventMatchesCancel ==
  \A c \in Chan : chan[c].evid <=> "Cancel" \notin chan[c].curMask

(* A transient alarm stays until it is acknowledged: in local mode no      *)
(* change of a channel's status or severity lowers the unacknowledged      *)
(* severity of a group, unless transients need no acknowledgement or masks *)
(* are changed.                                                            *)
AlarmsStayLatched ==
  [][(/\ \E c \in Chan : \/ chan'[c].curSevr # chan[c].curSevr
                         \/ chan'[c].curStat # chan[c].curStat
      /\ \A c \in Chan : chan'[c].curMask = chan[c].curMask)
     => \A g \in Group :
          (\A c \in ChannelsBelow(g) : "AckT" \notin chan[c].curMask)
          => group'[g].unackSevr >= group[g].unackSevr]_vars

(* ALH.html "turns off current alarm beeping until a new alarm occurs":    *)
(* whatever raises the severity the whole tree beeps for ends the silence, *)
(* a change of beep severities excepted.                                   *)
NewAlarmEndsSilence ==
  [][(/\ group'[Root].unackBeepSevr > group[Root].unackBeepSevr
      /\ group'[Root].unackBeepSevr >= psetup.beepSevr
      /\ \A c \in Chan : chan'[c].beepSevr = chan[c].beepSevr
      /\ \A g \in Group : group'[g].beepSevr = group[g].beepSevr)
     => ~psetup'.silenceCurrent]_vars

(* Acknowledging a group has the effect of acknowledging each channel in   *)
(* it: when ackGroup returns nothing below is left unacknowledged, though  *)
(* it skips every subgroup whose own counters are clear.                   *)
GroupAckComplete ==
  running.call = "ackGroup" /\ running.rest = <<>>
  => \A c \in ChannelsBelow(running.top) :
       (GlobalFlag /\ ~PassiveFlag) \/ chan[c].unackSevr = NO_ALARM

(* ALH.html "Whenever the group or channel severity changes, the new       *)
(* severity value is written to the severity process variable": so it is   *)
(* for a group, unless a channel below it is being disabled.               *)
GroupSevrPVFollows ==
  [][\A g \in Group :
       /\ GlobalFlag /\ ~PassiveFlag
       /\ \A c \in ChannelsBelow(g) :
            "Disable" \in chan'[c].curMask => "Disable" \in chan[c].curMask
       /\ group'[g].curSevr # group[g].curSevr
       => group'[g].sevrPV = group'[g].curSevr]_vars

(* No callback keeps the event loop for ever.                              *)
CallbackReturns == []<>Idle

=============================================================================
