------------------------------ MODULE AlarmOps ------------------------------
(***************************************************************************)
(* The group/channel tree of the Alarm Handler (alLib.h) and the           *)
(* operations of alLib.c on it.  The program is single threaded: every Xt  *)
(* or Channel Access callback runs to its end, so each C function is an    *)
(* operator that maps the state s before the call to the state after it.   *)
(*   s.chan[c]   the struct chanData of channel c                          *)
(*   s.group[g]  the struct groupData of group g                           *)
(*   s.psetup    the fields of the global psetup and of mainGroup in use   *)
(* Names are those of the C source.  Texts (names, values, log lines) and  *)
(* the flags that mark lines of the display for redrawing are left out.    *)
(***************************************************************************)
EXTENDS Integers, Sequences, FiniteSets

CONSTANTS
  Chan,          \* the channels of the configuration
  Group,         \* its groups
  Anc,           \* Anc[n]: the groups the loops "glink = glink->parent" visit from n
  Walk,          \* Walk[g]: what is below g, channels of a group before its subgroups
  CaWalk,        \* the channels in the order of nextGroupChannel: subgroups first
  DefaultMask,   \* DefaultMask[c]: the mask of c in the configuration file
  BEEPSEVR,      \* BEEPSEVR[n]: the $BEEPSEVR line of n, 0 when it has none
  ALARM_NSEV,    \* number of alarm severities of EPICS base (4 in alarm.h)
  GlobalFlag,    \* _global_flag: acknowledgement is kept in the IOC
  PassiveFlag    \* _passive_flag: nothing is written to the IOC

Node == Chan \cup Group
ChannelsBelow(g) == {c \in Chan : g \in Anc[c]}
MaskBit == {"Cancel", "Disable", "Ack", "AckT", "Log"}

NO_ALARM == 0

\* mutant: ERROR_STATE lies past the arrays
ERROR_STATE_Past == ALARM_NSEV + 1

ERROR_STATE == ALARM_NSEV

Sevr == 0 .. ALARM_NSEV
AlarmSevr == 1 .. ALARM_NSEV     \* MINOR, MAJOR, INVALID, ERROR

(* The alarm status of a record; "ALARM" stands for every real one.        *)
ErrorStat == {"NOT_CONNECTED", "NO_READ_ACCESS", "NO_WRITE_ACCESS"}
Stat == {"NO_ALARM", "ALARM"} \cup ErrorStat

ASSUME SevrAssumption == ALARM_NSEV \in Nat \ {0}
ASSUME FlagAssumption == GlobalFlag \in BOOLEAN /\ PassiveFlag \in BOOLEAN
ASSUME NodeAssumption ==
  /\ IsFiniteSet(Chan) /\ IsFiniteSet(Group)
  /\ Chan \cap Group = {}
  /\ DefaultMask \in [Chan -> SUBSET MaskBit]
  /\ BEEPSEVR \in [Node -> Sevr]
ASSUME TreeAssumption ==
  /\ Anc \in [Node -> SUBSET Group]
  /\ \A n \in Node : /\ n \notin Anc[n]
                     /\ \A g \in Anc[n] : Anc[g] \subseteq Anc[n]
                     /\ \A g, h \in Anc[n] : g = h \/ g \in Anc[h] \/ h \in Anc[g]
  /\ \A c \in Chan : Anc[c] # {}
  /\ \E g \in Group : Anc[g] = {}                 \* mainGroup
  /\ Walk \in [Group -> Seq(Node)]
  /\ CaWalk \in Seq(Chan)
\* the walk from g visits every channel below g and nothing else; the walk from a
\* group n below g is a part of it, that follows n at once
ASSUME WalkAssumption ==
  \A g \in Group :
    /\ \A i \in DOMAIN Walk[g] : g \in Anc[Walk[g][i]]
    /\ \A c \in Chan : g \in Anc[c] => \E i \in DOMAIN Walk[g] : Walk[g][i] = c
    /\ \A i \in DOMAIN Walk[g] : Walk[g][i] \in Group =>
         \A j \in DOMAIN Walk[Walk[g][i]] :
           i + j \in DOMAIN Walk[g] /\ Walk[g][i + j] = Walk[Walk[g][i]][j]

----------------------------------------------------------------------------
(* Counters of a group, one per severity.  unackSev[0], unackBeepSev[0]    *)
(* and beepSev[0] are counted by the code and never read: they are left    *)
(* out.                                                                    *)

\* n channels move from severity old to severity new
Shift(cnt, old, new, n) ==
  [v \in DOMAIN cnt |-> cnt[v] - (IF v = old THEN n ELSE 0)
                               + (IF v = new THEN n ELSE 0)]

\* the largest severity >= low that has a positive counter, else NO_ALARM
HighestFrom(cnt, low) ==
  LET Pos == {v \in AlarmSevr : v >= low /\ cnt[v] > 0}
  IN  IF Pos = {} THEN NO_ALARM ELSE CHOOSE v \in Pos : \A w \in Pos : w <= v

alHighestSeverity(cnt) == HighestFrom(cnt, 1)

alHighestBeepSeverity(cnt, beepSevr) == HighestFrom(cnt, beepSevr)

----------------------------------------------------------------------------
(* Types of the three parts of the state.                                  *)

Counters == [AlarmSevr -> Int]
AlarmEvent == [stat : Stat, sevr : Sevr, acks : Sevr, ackt : {0, 1}]
ChanData ==
  [curSevr : Sevr, curStat : Stat, unackSevr : Sevr, beepSevr : Sevr,
   curMask : SUBSET MaskBit, evid : BOOLEAN, caAlarmEvent : AlarmEvent,
   sevrPV : Int]
GroupData ==
  [curSevr : Sevr, curSev : [Sevr -> Int], unackSevr : Sevr, unackSev : Counters,
   unackBeepSevr : Sevr, unackBeepSev : Counters, beepSevr : Sevr,
   highestBeepSevr : Sevr, beepSev : Counters, mask : [MaskBit -> Int],
   sevrPV : Int]
Setup ==
  [silenceCurrent : BOOLEAN, beepSevr : Sevr, newUnackBeepSevr : Sevr]
State == [chan : [Chan -> ChanData], group : [Group -> GroupData], psetup : Setup]

On(s, c, b) == b \in s.chan[c].curMask
BeepSevr(s, n) == IF n \in Chan THEN s.chan[n].beepSevr ELSE s.group[n].beepSevr

silenceCurrentReset(s) == [s EXCEPT !.psetup.silenceCurrent = FALSE]

\* a new unacknowledged beep severity ends "silence current"
SilenceReset(s) ==
  IF s.psetup.newUnackBeepSevr >= s.psetup.beepSevr THEN silenceCurrentReset(s) ELSE s

\* what is in a severity PV after alCaPutSevrValue(chid, &new)
alCaPutSevrValue(old, new) == IF GlobalFlag /\ ~PassiveFlag THEN new ELSE old

----------------------------------------------------------------------------
(* Unacknowledged severities.                                              *)

\* mutant: the beep severity itself does not beep
BeepFilter_Above(s, sev, nodes) ==
  IF \A n \in nodes : sev > BeepSevr(s, n) THEN sev ELSE NO_ALARM

\* sev as the counters above nodes see it: 0 when a beep severity on the way is higher
BeepFilter(s, sev, nodes) ==
  IF \A n \in nodes : sev >= BeepSevr(s, n) THEN sev ELSE NO_ALARM

\* the groups on the way from n up to, and without, g
Below(n, g) == {h \in Anc[n] : g \in Anc[h]}

\* alSetUnackBeepSevGroup and alSetUnackBeepSevCountGroup, from the parent of n up
UnackBeepSevUp(s, n, newSevr, oldSevr, count) ==
  LET Up(g) ==
        LET gd == s.group[g]
            cnt == Shift(gd.unackBeepSev, BeepFilter(s, oldSevr, Below(n, g)),
                         BeepFilter(s, newSevr, Below(n, g)), count)
        IN  [gd EXCEPT !.unackBeepSev = cnt,
                       !.unackBeepSevr = alHighestBeepSeverity(cnt, gd.beepSevr)]
  IN [s EXCEPT
        !.group = [g \in Group |-> IF g \in Anc[n] THEN Up(g) ELSE s.group[g]],
        !.psetup.newUnackBeepSevr = BeepFilter(s, newSevr, Anc[n])]

\* from the parent of a channel up
alSetUnackSevGroup(s, c, newSevr, oldSevr) ==
  LET Up(g) ==
        LET gd == s.group[g]
            cnt == Shift(gd.unackSev, oldSevr, newSevr, 1)
        IN  [gd EXCEPT !.unackSev = cnt, !.unackSevr = alHighestSeverity(cnt)]
  IN [s EXCEPT
        !.group = [g \in Group |-> IF g \in Anc[c] THEN Up(g) ELSE s.group[g]]]

alSetUnackSevChan(s, c, newSevr) ==
  LET oldSevr == s.chan[c].unackSevr
      counted == alSetUnackSevGroup(s, c, newSevr, oldSevr)
      beep    == UnackBeepSevUp(counted, c, BeepFilter(s, newSevr, {c}),
                                BeepFilter(s, oldSevr, {c}), 1)
  IN  IF oldSevr = newSevr THEN s
      ELSE [beep EXCEPT !.chan[c].unackSevr = newSevr]

\* local acknowledgement; in global mode the IOC answers with a new event
ackChan(s, c) ==
  IF GlobalFlag /\ ~PassiveFlag THEN s ELSE alSetUnackSevChan(s, c, NO_ALARM)

----------------------------------------------------------------------------
(* Masks.                                                                  *)

\* mutant: the last channel of a masked type is not taken off
SetMaskBit_KeepLast(s, c, b, on) ==
  LET Up(g) ==
        LET gd == s.group[g]
        IN  IF on THEN [gd EXCEPT !.mask[b] = @ + 1]
            ELSE IF gd.mask[b] > 1 THEN [gd EXCEPT !.mask[b] = @ - 1]
            ELSE gd
  IN [s EXCEPT
        !.group = [g \in Group |-> IF g \in Anc[c] THEN Up(g) ELSE s.group[g]],
        !.chan[c].curMask = IF on THEN @ \cup {b} ELSE @ \ {b}]

\* alUpdateGroupMask(clink, b, on) and the assignment to curMask that follows it
SetMaskBit(s, c, b, on) ==
  LET Up(g) ==
        LET gd == s.group[g]
        IN  IF on THEN [gd EXCEPT !.mask[b] = @ + 1]
            ELSE IF gd.mask[b] > 0 THEN [gd EXCEPT !.mask[b] = @ - 1]
            ELSE gd                              \* errMsg "mask[%d] < 1"
  IN [s EXCEPT
        !.group = [g \in Group |-> IF g \in Anc[c] THEN Up(g) ELSE s.group[g]],
        !.chan[c].curMask = IF on THEN @ \cup {b} ELSE @ \ {b}]

\* newAckT has the sense of the mask: TRUE, transients need no acknowledgement
alSetAckTChan(s, c, newAckT) ==
  LET d == s.chan[c]
      lower == /\ ~newAckT
               /\ d.unackSevr > d.curSevr
               /\ ~GlobalFlag \/ d.curMask \cap {"Disable", "Ack"} = {}
      s1 == IF lower THEN alSetUnackSevChan(s, c, d.curSevr) ELSE s
  IN  IF newAckT = On(s, c, "AckT") THEN s ELSE SetMaskBit(s1, c, "AckT", newAckT)

----------------------------------------------------------------------------
(* Current severities.                                                     *)

\* mutant: the severity PV of a group receives the severity it had
CurSevUp_PutOld(s, c, newSevr, oldSevr, put) ==
  LET Up(g) ==
        LET gd  == s.group[g]
            cnt == Shift(gd.curSev, oldSevr, newSevr, 1)
            top == alHighestSeverity(cnt)
        IN  [gd EXCEPT !.curSev = cnt, !.curSevr = top,
                       !.sevrPV = IF put /\ top # gd.curSevr
                                  THEN alCaPutSevrValue(@, gd.curSevr) ELSE @]
  IN [s EXCEPT
        !.group = [g \in Group |-> IF g \in Anc[c] THEN Up(g) ELSE s.group[g]]]

\* curSev[] of all parent groups; put: the new severity also goes to the severity PVs
CurSevUp(s, c, newSevr, oldSevr, put) ==
  LET Up(g) ==
        LET gd  == s.group[g]
            cnt == Shift(gd.curSev, oldSevr, newSevr, 1)
            top == alHighestSeverity(cnt)
        IN  [gd EXCEPT !.curSev = cnt, !.curSevr = top,
                       !.sevrPV = IF put /\ top # gd.curSevr
                                  THEN alCaPutSevrValue(@, top) ELSE @]
  IN [s EXCEPT
        !.group = [g \in Group |-> IF g \in Anc[c] THEN Up(g) ELSE s.group[g]]]

\* local mode saves acks and ackt too, and never uses them: they are left out there
alSaveAlarmEvent(s, c) ==
  LET d == s.chan[c]
      e == [stat |-> d.curStat, sevr |-> d.curSevr, acks |-> d.unackSevr,
            ackt |-> IF On(s, c, "AckT") THEN 0 ELSE 1]
  IN [s EXCEPT !.chan[c].caAlarmEvent =
        IF GlobalFlag THEN e ELSE [e EXCEPT !.acks = 0, !.ackt = 0]]

\* global mode takes the acknowledgement state from the IOC
AdoptGlobal(s, c, acks, ackt) ==
  LET s1 == IF s.chan[c].unackSevr = acks THEN s
            ELSE IF s.chan[c].curMask \cap {"Disable", "Ack"} = {}
            THEN alSetUnackSevChan(s, c, acks)
            ELSE [s EXCEPT !.chan[c].unackSevr = acks]
  IN  alSetAckTChan(s1, c, ackt)

\* mutant: a lower severity replaces the unacknowledged one
Unacknowledge_NoLatch(s, c, sev) ==
  SilenceReset(IF GlobalFlag THEN s ELSE alSetUnackSevChan(s, c, sev))

\* the unacknowledged severity never falls, unless transients need no acknowledgement
Unacknowledge(s, c, sev) ==
  SilenceReset(IF ~GlobalFlag /\ (sev >= s.chan[c].unackSevr \/ On(s, c, "AckT"))
               THEN alSetUnackSevChan(s, c, sev) ELSE s)

\* the rest of alNewAlarmProcess, for an alarm that is not disabled and is a change
ProcessChange(s, c, stat, sev) ==
  LET prev == s.chan[c].curSevr
      s1 == [s EXCEPT
               !.chan[c].curStat = stat, !.chan[c].curSevr = sev,
               !.chan[c].sevrPV = IF sev # prev THEN alCaPutSevrValue(@, sev) ELSE @]
      s2 == CurSevUp(s1, c, sev, prev, TRUE)
  IN  IF On(s, c, "Ack") THEN s2 ELSE Unacknowledge(s2, c, sev)

\* mutant: a disabled channel is counted, if it was in alarm
ApplyAlarm_Disabled(s, c, stat, sev) ==
  IF s.chan[c].curStat = stat /\ s.chan[c].curSevr = sev THEN s
  ELSE IF On(s, c, "Disable") /\ s.chan[c].curSevr = NO_ALARM
  THEN [s EXCEPT !.chan[c].curStat = stat, !.chan[c].curSevr = sev]
  ELSE ProcessChange(s, c, stat, sev)

\* what follows the acknowledgement part of alNewAlarmProcess
ApplyAlarm(s, c, stat, sev) ==
  IF s.chan[c].curStat = stat /\ s.chan[c].curSevr = sev THEN s
  ELSE IF On(s, c, "Disable")
  THEN [s EXCEPT !.chan[c].curStat = stat, !.chan[c].curSevr = sev]
  ELSE ProcessChange(s, c, stat, sev)

alNewAlarmProcess(s, c, stat, sev, acks, ackt) ==
  LET s1 == IF stat = "NOT_CONNECTED" /\ sev = ERROR_STATE
            THEN alSaveAlarmEvent(s, c) ELSE s
      s2 == [s1 EXCEPT !.psetup.newUnackBeepSevr = NO_ALARM]
  IN  ApplyAlarm(IF GlobalFlag THEN AdoptGlobal(s2, c, acks, ackt) ELSE s2, c, stat, sev)

\* for a channel without alarm count filter; acktCA = -1: keep the mask, else opposite sense
alNewEvent(s, c, stat, sevr, acks, acktCA) ==
  alNewAlarmProcess(s, c, stat, sevr, acks,
                    IF acktCA = -1 THEN On(s, c, "AckT") ELSE acktCA = 0)

alConnectEvent(s, c) ==
  LET d == s.chan[c]
      e == d.caAlarmEvent
  IN  IF d.curStat = "NO_ALARM" /\ d.curSevr = ERROR_STATE THEN s
      ELSE alNewEvent(s, c, e.stat, e.sevr, e.acks, e.ackt)

----------------------------------------------------------------------------
(* alChangeChanMask, one operator for each bit of the mask, in this order. *)

\* the channel leaves its parents' severity counters; severity PVs are not written
Uncount(s, c) == CurSevUp(s, c, NO_ALARM, s.chan[c].curSevr, FALSE)

\* mutant: the channel keeps its severity and nothing looks new
Reprocess_Unchanged(s, c, unackSevr) ==
  LET d == s.chan[c]
  IN  alNewAlarmProcess([s EXCEPT !.chan[c].unackSevr = unackSevr],
                        c, d.curStat, d.curSevr, d.unackSevr, On(s, c, "AckT"))

\* the current alarm is processed again, from a channel that looks normal
Reprocess(s, c, unackSevr) ==
  LET d == s.chan[c]
  IN  alNewAlarmProcess([s EXCEPT !.chan[c].curSevr = NO_ALARM,
                                  !.chan[c].unackSevr = unackSevr],
                        c, d.curStat, d.curSevr, d.unackSevr, On(s, c, "AckT"))

\* unackSevr leaves the counters; global mode keeps the value the IOC has
UncountUnack(s, c) ==
  LET t == alSetUnackSevChan(s, c, NO_ALARM)
  IN  IF GlobalFlag THEN [t EXCEPT !.chan[c].unackSevr = s.chan[c].unackSevr] ELSE t

\* "Auto ack of transient alarms", for a channel that is back to normal
AutoAck(s, c) ==
  IF GlobalFlag /\ s.chan[c].unackSevr > NO_ALARM
  THEN [ackChan(s, c) EXCEPT !.chan[c].unackSevr = NO_ALARM]
  ELSE s

\* mutant: only a channel in alarm gives up its subscription
CancelOn_OnlyInAlarm(s, c) ==
  LET s2 == alSetUnackSevChan([s EXCEPT !.chan[c].evid = FALSE], c, NO_ALARM)
  IN  IF s.chan[c].curSevr = NO_ALARM THEN s
      ELSE [Uncount(s2, c) EXCEPT !.chan[c].curStat = "NO_ALARM",
                                  !.chan[c].curSevr = NO_ALARM]

\* mutant: unackSevr is cleared without the counters
CancelOn_Direct(s, c) ==
  LET s2 == [s EXCEPT !.chan[c].evid = FALSE, !.chan[c].unackSevr = NO_ALARM]
  IN  [Uncount(s2, c) EXCEPT !.chan[c].curStat = "NO_ALARM",
                             !.chan[c].curSevr = NO_ALARM]

CancelOn(s, c) ==
  LET d  == s.chan[c]
      s1 == [s EXCEPT !.chan[c].evid = FALSE]
      s2 == alSetUnackSevChan(s1, c, NO_ALARM)
  IN  IF On(s, c, "Disable") THEN s1
      ELSE IF d.curSevr = NO_ALARM THEN s2
      ELSE [Uncount(s2, c) EXCEPT !.chan[c].curStat = "NO_ALARM",
                                  !.chan[c].curSevr = NO_ALARM]

CancelOff(s, c) ==
  LET d == s.chan[c]
      again == ~On(s, c, "Disable") /\ d.curSevr > NO_ALARM
  IN  IF d.evid THEN s
      ELSE [(IF again THEN Reprocess(s, c, d.unackSevr) ELSE s) EXCEPT !.chan[c].evid = TRUE]

ChangeCancel(s, c, mask) ==
  LET new == "Cancel" \in mask
      s1  == SetMaskBit(s, c, "Cancel", new)
  IN  IF new = On(s, c, "Cancel") THEN s
      ELSE IF new THEN CancelOn(s1, c) ELSE CancelOff(s1, c)

DisableOn(s, c) ==
  LET s1 == UncountUnack(s, c)
      s2 == IF s.chan[c].curSevr > NO_ALARM THEN Uncount(s1, c) ELSE s1
  IN  [s2 EXCEPT !.chan[c].sevrPV = alCaPutSevrValue(@, -1)]

DisableOff(s, c) ==
  IF s.chan[c].curSevr > NO_ALARM THEN Reprocess(s, c, NO_ALARM) ELSE AutoAck(s, c)

ChangeDisable(s, c, mask) ==
  LET new == "Disable" \in mask
      s1  == SetMaskBit(s, c, "Disable", new)
  IN  IF new = On(s, c, "Disable") THEN s
      ELSE IF "Cancel" \in mask THEN s1
      ELSE IF new THEN DisableOn(s1, c) ELSE DisableOff(s1, c)

\* mutant: the severity kept from the IOC is taken for a counted one
AckOff_Counted(s, c) ==
  LET d == s.chan[c]
  IN  IF d.curSevr > NO_ALARM
      THEN SilenceReset(alSetUnackSevChan(s, c, IF GlobalFlag THEN d.unackSevr ELSE d.curSevr))
      ELSE AutoAck(s, c)

\* mutant: an alarm that needs acknowledgement again does not end "silence current"
AckOff_KeepSilence(s, c) ==
  LET d == s.chan[c]
      s1 == IF GlobalFlag
            THEN alSetUnackSevChan([s EXCEPT !.chan[c].unackSevr = NO_ALARM], c, d.unackSevr)
            ELSE alSetUnackSevChan(s, c, d.curSevr)
  IN  IF d.curSevr > NO_ALARM THEN s1 ELSE AutoAck(s, c)

AckOff(s, c) ==
  LET d == s.chan[c]
      s1 == IF GlobalFlag
            THEN alSetUnackSevChan([s EXCEPT !.chan[c].unackSevr = NO_ALARM], c, d.unackSevr)
            ELSE alSetUnackSevChan(s, c, d.curSevr)
  IN  IF d.curSevr > NO_ALARM THEN SilenceReset(s1) ELSE AutoAck(s, c)

ChangeAck(s, c, mask) ==
  LET new == "Ack" \in mask
      s1  == SetMaskBit(s, c, "Ack", new)
  IN  IF new = On(s, c, "Ack") THEN s
      ELSE IF new THEN UncountUnack(s1, c)
      ELSE IF mask \cap {"Cancel", "Disable"} = {} THEN AckOff(s1, c) ELSE s1

\* the AckT and Log bits only count; the put of AckT to the IOC is GlobalAck's
ChangePlain(s, c, b, mask) ==
  IF (b \in mask) = On(s, c, b) THEN s ELSE SetMaskBit(s, c, b, b \in mask)

alChangeChanMask(s, c, mask) ==
  ChangePlain(
    ChangePlain(
      ChangeAck(ChangeDisable(ChangeCancel(s, c, mask), c, mask), c, mask),
      c, "AckT", mask), c, "Log", mask)

\* index names one bit of the mask; op is one of OFF, ON and RESET
MaskOp == {"OFF", "ON", "RESET"}
alForceChanMask(s, c, index, op) ==
  LET cur == s.chan[c].curMask
      on  == op = "ON" \/ (op = "RESET" /\ index \in DefaultMask[c])
  IN  alChangeChanMask(s, c, IF on THEN cur \cup {index} ELSE cur \ {index})

----------------------------------------------------------------------------
(* Beep severities.                                                        *)

alSetBeepSevCount(s, nodes, newBeepSevr, oldBeepSevr) ==
  LET Up(g) ==
        LET cnt == Shift(s.group[g].beepSev, oldBeepSevr, newBeepSevr, 1)
        IN  [s.group[g] EXCEPT !.beepSev = cnt, !.highestBeepSevr = alHighestSeverity(cnt)]
  IN [s EXCEPT
        !.group = [g \in Group |-> IF g \in nodes THEN Up(g) ELSE s.group[g]]]

alSetBeepSevrChan(s, c, beepSevr) ==
  LET old == s.chan[c].beepSevr
      sev == s.chan[c].unackSevr
      osev == IF sev >= old THEN sev ELSE NO_ALARM
      nsev == IF sev >= beepSevr THEN sev ELSE NO_ALARM
      s1 == alSetBeepSevCount([s EXCEPT !.chan[c].beepSevr = beepSevr],
                              Anc[c], beepSevr, old)
  IN  IF old = beepSevr THEN s
      ELSE IF osev = nsev THEN s1
      ELSE UnackBeepSevUp(s1, c, nsev, osev, 1)

\* each severity between the old and the new limit moves at the groups above g,
\* by the number of unacknowledged channels below g
MoveBeepCounts(s, g, low, high, sign) ==
  LET Seen(h, v) == v >= low /\ v < high /\ BeepFilter(s, v, Below(g, h)) = v
      Up(h) ==
        LET gd == s.group[h]
            cnt == [v \in AlarmSevr |->
                      gd.unackBeepSev[v]
                      + (IF Seen(h, v) THEN sign * s.group[g].unackSev[v] ELSE 0)]
        IN  [gd EXCEPT !.unackBeepSev = cnt,
                       !.unackBeepSevr = alHighestBeepSeverity(cnt, gd.beepSevr)]
      last == IF sign = 1 THEN high - 1 ELSE NO_ALARM
  IN  IF Anc[g] = {} \/ high <= 1 THEN s
      ELSE [s EXCEPT
              !.group = [h \in Group |-> IF h \in Anc[g] THEN Up(h) ELSE s.group[h]],
              !.psetup.newUnackBeepSevr = BeepFilter(s, last, Anc[g])]

\* mutant: the group does not count itself
alSetBeepSevrGroup_NotSelf(s, g, beepSevr) ==
  alSetBeepSevCount([s EXCEPT !.group[g].beepSevr = beepSevr],
                    Anc[g], beepSevr, s.group[g].beepSevr)

alSetBeepSevrGroup(s, g, beepSevr) ==
  LET old == s.group[g].beepSevr
      s1 == alSetBeepSevCount([s EXCEPT !.group[g].beepSevr = beepSevr],
                              Anc[g] \cup {g}, beepSevr, old)
      s2 == [s1 EXCEPT !.group[g].unackBeepSevr =
               alHighestBeepSeverity(s1.group[g].unackBeepSev, beepSevr)]
  IN  IF old = beepSevr THEN s
      ELSE IF old < beepSevr THEN MoveBeepCounts(s2, g, old, beepSevr, -1)
      ELSE MoveBeepCounts(s2, g, beepSevr, old, 1)

=============================================================================
