------------------------- MODULE CountFilterProofs -------------------------
(***************************************************************************)
(* Proofs about the alarm count filter, for every tree, every mode, every  *)
(* set of filters and any number of channels.                              *)
(*                                                                         *)
(* The filter decides by the alarm a channel shows.  The first lemmas say  *)
(* what the functions of alLib.c do to it: alNewAlarmProcess shows what it *)
(* is told whatever the mask, and a change of the mask shows what was      *)
(* shown, unless it is Cancel.                                             *)
(***************************************************************************)
EXTENDS CountFilter, AlarmOpsProofs

----------------------------------------------------------------------------
(* The alarm of a channel through the functions of alLib.c.                *)

(* No channel but c changes, and c shows what it showed.                   *)
SameAlarm(s, t, c) ==
  /\ t \in State
  /\ \A e \in Chan \ {c} : t.chan[e] = s.chan[e]
  /\ t.chan[c].curStat = s.chan[c].curStat
  /\ t.chan[c].curSevr = s.chan[c].curSevr

(* c shows the alarm stat, sev; in global mode it has the acknowledgement  *)
(* of the IOC, unless the transient flag changed with it.                  *)
Shows(s, t, c, stat, sev, acks, ackt) ==
  /\ t \in State
  /\ \A e \in Chan \ {c} : t.chan[e] = s.chan[e]
  /\ t.chan[c].curStat = stat
  /\ t.chan[c].curSevr = sev
  /\ GlobalFlag => /\ On(t, c, "AckT") = ackt
                   /\ ackt = On(s, c, "AckT") => t.chan[c].unackSevr = acks

(* Bit b of the mask of c is set to on.                                    *)
BitBecomes(s, t, c, b, on) ==
  /\ t.chan[c].curMask = IF on THEN s.chan[c].curMask \cup {b} ELSE s.chan[c].curMask \ {b}
  /\ t.chan[c].unackSevr = s.chan[c].unackSevr

\* The alarm stays through one function after the other.
LEMMA SameAlarmComposes ==
  ASSUME NEW s, NEW t, NEW r, NEW c, SameAlarm(s, t, c), SameAlarm(t, r, c)
  PROVE  SameAlarm(s, r, c)
BY DEF SameAlarm

\* An early return.
LEMMA SameAlarmReflexive ==
  ASSUME NEW s \in State, NEW c PROVE SameAlarm(s, s, c)
BY DEF SameAlarm

\* An assignment to other fields of the channel.
LEMMA SameAlarmChan ==
  ASSUME NEW s \in State, NEW c \in Chan, NEW d \in ChanData, NEW t, t = [s EXCEPT !.chan[c] = d],
         d.curStat = s.chan[c].curStat, d.curSevr = s.chan[c].curSevr
  PROVE  SameAlarm(s, t, c) /\ t.chan[c] = d
<1>1. t \in State /\ t.chan[c] = d /\ \A e \in Chan \ {c} : t.chan[e] = s.chan[e]
  BY DEF State
<1> QED BY <1>1 DEF SameAlarm

\* alSetUnackSevChan changes one field of the channel.
LEMMA UnackSevChan ==
  ASSUME NEW s \in State, NEW c \in Chan, NEW v \in Sevr, NEW t, t = alSetUnackSevChan(s, c, v)
  PROVE  /\ SameAlarm(s, t, c)
         /\ t.chan[c].curMask = s.chan[c].curMask
         /\ t.chan[c].unackSevr = v
<1> DEFINE oldSevr == s.chan[c].unackSevr
           counted == alSetUnackSevGroup(s, c, v, oldSevr)
           beep == UnackBeepSevUp(counted, c, BeepFilter(s, v, {c}), BeepFilter(s, oldSevr, {c}), 1)
<1>1. t \in State
  BY alSetUnackSevChanPreserves DEF Preserves
<1>2. Moved(s, t, c, 0, 0, oldSevr, v) /\ Has(t, c, s.chan[c].curMask, s.chan[c].curSevr, v)
  BY alSetUnackSevChanEffect
<1>3. t.chan[c].curStat = s.chan[c].curStat
  <2>1. CASE oldSevr = v
    BY <2>1 DEF alSetUnackSevChan
  <2>2. CASE oldSevr # v
    <3>1. t = [beep EXCEPT !.chan[c].unackSevr = v]
      BY <2>2 DEF alSetUnackSevChan
    <3>2. counted.chan = s.chan /\ DOMAIN counted = DOMAIN s
      BY DEF alSetUnackSevGroup, State
    <3> HIDE DEF counted
    <3>3. beep.chan = s.chan /\ "chan" \in DOMAIN beep
      BY <3>2 DEF UnackBeepSevUp, State
    <3> HIDE DEF beep
    <3>4. t.chan = [s.chan EXCEPT ![c].unackSevr = v]
      BY <3>1, <3>3
    <3> QED BY <3>4 DEF State, ChanData
  <2> QED BY <2>1, <2>2
<1> QED BY <1>1, <1>2, <1>3 DEF SameAlarm, Moved, Frame, Has

\* A bit of the mask that changes.
LEMMA MaskBitChan ==
  ASSUME NEW s \in State, NEW c \in Chan, NEW b \in MaskBit, NEW on \in BOOLEAN,
         on # On(s, c, b), NEW t, t = SetMaskBit(s, c, b, on)
  PROVE  SameAlarm(s, t, c) /\ BitBecomes(s, t, c, b, on)
<1>1. /\ Moved(s, t, c, 0, 0, 0, 0)
      /\ Has(t, c, IF on THEN s.chan[c].curMask \cup {b} ELSE s.chan[c].curMask \ {b},
             s.chan[c].curSevr, s.chan[c].unackSevr)
  BY SetMaskBitMoves
<1>2. t.chan[c].curStat = s.chan[c].curStat
  <2>1. t.chan = [s.chan EXCEPT ![c].curMask = IF on THEN @ \cup {b} ELSE @ \ {b}]
    BY DEF SetMaskBit, State
  <2> QED BY <2>1 DEF State, ChanData
<1> QED BY <1>1, <1>2 DEF SameAlarm, BitBecomes, Moved, Frame, Has

\* alSetAckTChan.
LEMMA AckTChan ==
  ASSUME NEW s \in State, NEW c \in Chan, NEW newAckT \in BOOLEAN,
         NEW t, t = alSetAckTChan(s, c, newAckT)
  PROVE  /\ SameAlarm(s, t, c)
         /\ On(t, c, "AckT") = newAckT
         /\ newAckT = On(s, c, "AckT") => t = s
<1>1. CASE newAckT = On(s, c, "AckT")
  BY <1>1, SameAlarmReflexive DEF alSetAckTChan
<1>2. CASE newAckT # On(s, c, "AckT")
  <2> DEFINE d == s.chan[c]
             lower == /\ ~newAckT /\ d.unackSevr > d.curSevr
                      /\ ~GlobalFlag \/ d.curMask \cap {"Disable", "Ack"} = {}
  <2>1. PICK s1 : s1 = IF lower THEN alSetUnackSevChan(s, c, d.curSevr) ELSE s
    OBVIOUS
  <2>2. d.curSevr \in Sevr
    BY DEF State, ChanData
  <2>3. SameAlarm(s, s1, c) /\ s1.chan[c].curMask = s.chan[c].curMask
    <3>1. CASE lower
      <4> HIDE DEF lower
      <4> QED BY <2>1, <2>2, <3>1, UnackSevChan
    <3>2. CASE ~lower
      <4> HIDE DEF lower
      <4> QED BY <2>1, <3>2, SameAlarmReflexive
    <3> QED BY <3>1, <3>2
  <2>4. t = SetMaskBit(s1, c, "AckT", newAckT)
    BY <1>2, <2>1 DEF alSetAckTChan
  <2> HIDE DEF d, lower
  <2>5. s1 \in State /\ "AckT" \in MaskBit /\ newAckT # On(s1, c, "AckT")
    BY <1>2, <2>3 DEF SameAlarm, MaskBit, On
  <2>6. SameAlarm(s1, t, c) /\ BitBecomes(s1, t, c, "AckT", newAckT)
    BY <2>4, <2>5, MaskBitChan
  <2>7. SameAlarm(s, t, c)
    BY <2>3, <2>6, SameAlarmComposes
  <2>8. On(t, c, "AckT") = newAckT
    BY <2>6 DEF On, BitBecomes
  <2> QED BY <1>2, <2>7, <2>8
<1> QED BY <1>1, <1>2

\* AdoptGlobal.
LEMMA AdoptChan ==
  ASSUME NEW s \in State, NEW c \in Chan, NEW acks \in Sevr, NEW ackt \in BOOLEAN,
         NEW t, t = AdoptGlobal(s, c, acks, ackt)
  PROVE  /\ SameAlarm(s, t, c)
         /\ On(t, c, "AckT") = ackt
         /\ ackt = On(s, c, "AckT") => t.chan[c].unackSevr = acks
<1>1. PICK s1 : s1 = IF s.chan[c].unackSevr = acks THEN s
                     ELSE IF s.chan[c].curMask \cap {"Disable", "Ack"} = {}
                     THEN alSetUnackSevChan(s, c, acks)
                     ELSE [s EXCEPT !.chan[c].unackSevr = acks]
  OBVIOUS
<1>2. SameAlarm(s, s1, c) /\ s1.chan[c].curMask = s.chan[c].curMask /\ s1.chan[c].unackSevr = acks
  <2>1. CASE s.chan[c].unackSevr = acks
    BY <1>1, <2>1, SameAlarmReflexive
  <2>2. CASE s.chan[c].unackSevr # acks /\ s.chan[c].curMask \cap {"Disable", "Ack"} = {}
    BY <1>1, <2>2, UnackSevChan
  <2>3. CASE s.chan[c].unackSevr # acks /\ s.chan[c].curMask \cap {"Disable", "Ack"} # {}
    <3>1. PICK d : d = [s.chan[c] EXCEPT !.unackSevr = acks]
      OBVIOUS
    <3>2. /\ d \in ChanData /\ d.curStat = s.chan[c].curStat /\ d.curSevr = s.chan[c].curSevr
          /\ d.curMask = s.chan[c].curMask /\ d.unackSevr = acks
      BY <3>1 DEF State, ChanData
    <3>3. s1 = [s EXCEPT !.chan[c] = d]
      BY <1>1, <2>3, <3>1
    <3> QED BY <3>2, <3>3, SameAlarmChan
  <2> QED BY <2>1, <2>2, <2>3
<1>3. t = alSetAckTChan(s1, c, ackt)
  BY <1>1 DEF AdoptGlobal
<1>4. s1 \in State /\ On(s1, c, "AckT") = On(s, c, "AckT")
  BY <1>2 DEF SameAlarm, On
<1>5. /\ SameAlarm(s1, t, c) /\ On(t, c, "AckT") = ackt
      /\ ackt = On(s1, c, "AckT") => t = s1
  BY <1>3, <1>4, AckTChan
<1> QED BY <1>2, <1>4, <1>5, SameAlarmComposes

\* SilenceReset changes the setup only.
LEMMA SilenceChan ==
  ASSUME NEW s \in State, NEW c
  PROVE  /\ SameAlarm(s, SilenceReset(s), c) /\ SilenceReset(s).chan = s.chan
         /\ SameAlarm(s, silenceCurrentReset(s), c)
<1>1. SilenceReset(s) \in State /\ silenceCurrentReset(s) \in State
  BY DEF State, Setup, SilenceReset, silenceCurrentReset
<1>2. SilenceReset(s).chan = s.chan /\ silenceCurrentReset(s).chan = s.chan
  BY DEF State, SilenceReset, silenceCurrentReset
<1> QED BY <1>1, <1>2 DEF SameAlarm

\* Unacknowledge, which does nothing to the channel in global mode.
LEMMA UnacknowledgeChan ==
  ASSUME NEW s \in State, NEW c \in Chan, NEW sev \in Sevr, NEW t, t = Unacknowledge(s, c, sev)
  PROVE  /\ SameAlarm(s, t, c)
         /\ t.chan[c].curMask = s.chan[c].curMask
         /\ GlobalFlag => t.chan[c].unackSevr = s.chan[c].unackSevr
<1> DEFINE raised == ~GlobalFlag /\ (sev >= s.chan[c].unackSevr \/ On(s, c, "AckT"))
<1>1. PICK s1 : s1 = IF raised THEN alSetUnackSevChan(s, c, sev) ELSE s
  OBVIOUS
<1>2. /\ SameAlarm(s, s1, c) /\ s1.chan[c].curMask = s.chan[c].curMask
      /\ GlobalFlag => s1.chan[c].unackSevr = s.chan[c].unackSevr
  <2>1. CASE raised
    <3>1. s1 = alSetUnackSevChan(s, c, sev)
      BY <1>1, <2>1
    <3> QED BY <2>1, <3>1, UnackSevChan
  <2>2. CASE ~raised
    <3>1. s1 = s
      BY <1>1, <2>2
    <3> QED BY <3>1, SameAlarmReflexive
  <2> QED BY <2>1, <2>2
<1>3. t = SilenceReset(s1) /\ s1 \in State
  BY <1>1, <1>2 DEF Unacknowledge, SameAlarm
<1>4. SameAlarm(s1, t, c) /\ t.chan = s1.chan
  BY <1>3, SilenceChan
<1> QED BY <1>2, <1>4, SameAlarmComposes

(* c shows the alarm stat, sev, with its mask and, in global mode, its     *)
(* unacknowledged severity.                                                *)
Applied(s, t, c, stat, sev) ==
  /\ t \in State
  /\ \A e \in Chan \ {c} : t.chan[e] = s.chan[e]
  /\ t.chan[c].curStat = stat
  /\ t.chan[c].curSevr = sev
  /\ t.chan[c].curMask = s.chan[c].curMask
  /\ GlobalFlag => t.chan[c].unackSevr = s.chan[c].unackSevr

\* ProcessChange.
LEMMA ProcessChangeChan ==
  ASSUME NEW s \in State, NEW c \in Chan, NEW stat \in Stat, NEW sev \in Sevr,
         NEW t, t = ProcessChange(s, c, stat, sev)
  PROVE  Applied(s, t, c, stat, sev)
<1> DEFINE d == s.chan[c]
           pv == IF sev # d.curSevr THEN alCaPutSevrValue(d.sevrPV, sev) ELSE d.sevrPV
<1>1. PICK d1 : d1 = [d EXCEPT !.curStat = stat, !.curSevr = sev, !.sevrPV = pv]
  OBVIOUS
<1>2. PICK s1 : s1 = [s EXCEPT !.chan[c] = d1]
  OBVIOUS
<1>3. d \in ChanData /\ d.curSevr \in Sevr
  BY DEF State, ChanData
<1>4. pv \in Int
  BY <1>3, SevrAssumption DEF ChanData, alCaPutSevrValue, Sevr
<1> HIDE DEF pv
<1>5. /\ d1 \in ChanData /\ d1.curStat = stat /\ d1.curSevr = sev /\ d1.curMask = d.curMask
      /\ d1.unackSevr = d.unackSevr
  BY <1>1, <1>3, <1>4 DEF ChanData
<1>6. s1 \in State /\ s1.chan[c] = d1 /\ \A e \in Chan \ {c} : s1.chan[e] = s.chan[e]
  BY <1>2, <1>5 DEF State
<1>7. PICK s2 : s2 = CurSevUp(s1, c, sev, d.curSevr, TRUE)
  OBVIOUS
<1>8. s2 \in State /\ s2.chan = s1.chan
  <2>1. TRUE \in BOOLEAN
    OBVIOUS
  <2>2. /\ Moved(s1, s2, c, d.curSevr, sev, 0, 0)
        /\ s2.chan = s1.chan
    BY <1>3, <1>6, <1>7, <2>1, CurSevUpEffect
  <2> QED BY <2>2 DEF Moved, Frame
<1>9. t = IF On(s, c, "Ack") THEN s2 ELSE Unacknowledge(s2, c, sev)
  <2>1. s1 = [s EXCEPT !.chan[c].curStat = stat, !.chan[c].curSevr = sev,
                       !.chan[c].sevrPV = IF sev # d.curSevr THEN alCaPutSevrValue(@, sev) ELSE @]
    BY <1>1, <1>2 DEF State, ChanData, pv
  <2> QED BY <1>7, <2>1 DEF ProcessChange
<1>10. /\ SameAlarm(s2, t, c)
       /\ t.chan[c].curMask = s2.chan[c].curMask
       /\ GlobalFlag => t.chan[c].unackSevr = s2.chan[c].unackSevr
  <2>1. CASE On(s, c, "Ack")
    BY <1>8, <1>9, <2>1, SameAlarmReflexive
  <2>2. CASE ~On(s, c, "Ack")
    BY <1>8, <1>9, <2>2, UnacknowledgeChan
  <2> QED BY <2>1, <2>2
<1> QED BY <1>5, <1>6, <1>8, <1>10 DEF Applied, SameAlarm

\* ApplyAlarm.
LEMMA ApplyAlarmChan ==
  ASSUME NEW s \in State, NEW c \in Chan, NEW stat \in Stat, NEW sev \in Sevr,
         NEW t, t = ApplyAlarm(s, c, stat, sev)
  PROVE  Applied(s, t, c, stat, sev)
<1>1. CASE s.chan[c].curStat = stat /\ s.chan[c].curSevr = sev
  BY <1>1 DEF ApplyAlarm, Applied
<1>2. CASE ~(s.chan[c].curStat = stat /\ s.chan[c].curSevr = sev) /\ On(s, c, "Disable")
  <2>1. PICK d : d = [s.chan[c] EXCEPT !.curStat = stat, !.curSevr = sev]
    OBVIOUS
  <2>2. /\ d \in ChanData /\ d.curStat = stat /\ d.curSevr = sev
        /\ d.curMask = s.chan[c].curMask /\ d.unackSevr = s.chan[c].unackSevr
    BY <2>1 DEF State, ChanData
  <2>3. t = [s EXCEPT !.chan[c] = d]
    BY <1>2, <2>1 DEF ApplyAlarm, State
  <2>4. t \in State /\ t.chan[c] = d /\ \A e \in Chan \ {c} : t.chan[e] = s.chan[e]
    BY <2>2, <2>3 DEF State
  <2> QED BY <2>2, <2>4 DEF Applied
<1>3. CASE ~(s.chan[c].curStat = stat /\ s.chan[c].curSevr = sev) /\ ~On(s, c, "Disable")
  <2>1. t = ProcessChange(s, c, stat, sev)
    BY <1>3 DEF ApplyAlarm
  <2> QED BY <2>1, ProcessChangeChan
<1> QED BY <1>1, <1>2, <1>3

\* alNewAlarmProcess shows what it is told, whatever the mask of the channel.
LEMMA ProcessShows ==
  ASSUME NEW s \in State, NEW c \in Chan, NEW stat \in Stat, NEW sev \in Sevr,
         NEW acks \in Sevr, NEW ackt \in BOOLEAN,
         NEW t, t = alNewAlarmProcess(s, c, stat, sev, acks, ackt)
  PROVE  Shows(s, t, c, stat, sev, acks, ackt)
<1>1. PICK s1 : s1 = IF stat = "NOT_CONNECTED" /\ sev = ERROR_STATE
                     THEN alSaveAlarmEvent(s, c) ELSE s
  OBVIOUS
<1>2. /\ SameAlarm(s, s1, c) /\ s1.chan[c].curMask = s.chan[c].curMask
  <2>1. CASE stat = "NOT_CONNECTED" /\ sev = ERROR_STATE
    <3>1. s1 = alSaveAlarmEvent(s, c)
      BY <1>1, <2>1
    <3>2. s1 \in State
      BY <3>1, alSaveAlarmEventPreserves DEF Preserves
    <3>3. PICK e : s1.chan = [s.chan EXCEPT ![c].caAlarmEvent = e]
      <4> DEFINE d == s.chan[c]
                 e == [stat |-> d.curStat, sevr |-> d.curSevr, acks |-> d.unackSevr,
                       ackt |-> IF On(s, c, "AckT") THEN 0 ELSE 1]
                 f == IF GlobalFlag THEN e ELSE [e EXCEPT !.acks = 0, !.ackt = 0]
      <4>1. s1 = [s EXCEPT !.chan[c].caAlarmEvent = f]
        BY <3>1 DEF alSaveAlarmEvent
      <4> HIDE DEF f
      <4>2. s1.chan = [s.chan EXCEPT ![c].caAlarmEvent = f]
        BY <4>1 DEF State
      <4> QED BY <4>2
    <3> QED BY <3>2, <3>3 DEF SameAlarm, State, ChanData
  <2>2. CASE ~(stat = "NOT_CONNECTED" /\ sev = ERROR_STATE)
    BY <1>1, <2>2, SameAlarmReflexive
  <2> QED BY <2>1, <2>2
<1>3. s1 \in State
  BY <1>2 DEF SameAlarm
<1>4. PICK s2 : s2 = [s1 EXCEPT !.psetup.newUnackBeepSevr = NO_ALARM]
  OBVIOUS
<1>5. s2 \in State /\ s2.chan = s1.chan
  BY <1>3, <1>4, SevrBounds DEF State, Setup
<1>6. PICK s3 : s3 = IF GlobalFlag THEN AdoptGlobal(s2, c, acks, ackt) ELSE s2
  OBVIOUS
<1>7. /\ SameAlarm(s2, s3, c)
      /\ GlobalFlag => /\ On(s3, c, "AckT") = ackt
                       /\ ackt = On(s2, c, "AckT") => s3.chan[c].unackSevr = acks
  <2>1. CASE GlobalFlag
    <3>1. s3 = AdoptGlobal(s2, c, acks, ackt)
      BY <1>6, <2>1
    <3> QED BY <1>5, <3>1, AdoptChan
  <2>2. CASE ~GlobalFlag
    BY <1>5, <1>6, <2>2, SameAlarmReflexive
  <2> QED BY <2>1, <2>2
<1>8. t = ApplyAlarm(s3, c, stat, sev) /\ s3 \in State
  BY <1>1, <1>4, <1>6, <1>7 DEF alNewAlarmProcess, SameAlarm
<1>9. Applied(s3, t, c, stat, sev)
  BY <1>8, ApplyAlarmChan
<1>10. On(s2, c, "AckT") = On(s, c, "AckT") /\ On(t, c, "AckT") = On(s3, c, "AckT")
  BY <1>2, <1>5, <1>9 DEF On, Applied
<1> QED BY <1>2, <1>5, <1>7, <1>9, <1>10 DEF Shows, Applied, SameAlarm

\* An assignment of unackSevr.
LEMMA UnackChan ==
  ASSUME NEW s \in State, NEW c \in Chan, NEW u \in Sevr
  PROVE  SameAlarm(s, [s EXCEPT !.chan[c].unackSevr = u], c)
<1>1. PICK d : d = [s.chan[c] EXCEPT !.unackSevr = u]
  OBVIOUS
<1>2. d \in ChanData /\ d.curStat = s.chan[c].curStat /\ d.curSevr = s.chan[c].curSevr
  BY <1>1 DEF State, ChanData
<1>3. SameAlarm(s, [s EXCEPT !.chan[c] = d], c)
  BY <1>2, SameAlarmChan
<1> QED BY <1>1, <1>3

\* A put to the severity PV.
LEMMA PutChan ==
  ASSUME NEW s \in State, NEW c \in Chan, NEW p \in Int
  PROVE  SameAlarm(s, [s EXCEPT !.chan[c].sevrPV = p], c)
<1>1. PICK d : d = [s.chan[c] EXCEPT !.sevrPV = p]
  OBVIOUS
<1>2. d \in ChanData /\ d.curStat = s.chan[c].curStat /\ d.curSevr = s.chan[c].curSevr
  BY <1>1 DEF State, ChanData
<1>3. SameAlarm(s, [s EXCEPT !.chan[c] = d], c)
  BY <1>2, SameAlarmChan
<1> QED BY <1>1, <1>3

\* Uncount changes groups only.
LEMMA UncountChan ==
  ASSUME NEW s \in State, NEW c \in Chan PROVE SameAlarm(s, Uncount(s, c), c)
<1>1. Uncount(s, c) \in State
  BY UncountPreserves DEF Preserves
<1>2. Uncount(s, c).chan = s.chan
  BY DEF Uncount, CurSevUp, State
<1> QED BY <1>1, <1>2 DEF SameAlarm

\* UncountUnack.
LEMMA UncountUnackChan ==
  ASSUME NEW s \in State, NEW c \in Chan PROVE SameAlarm(s, UncountUnack(s, c), c)
<1>1. PICK t : t = alSetUnackSevChan(s, c, NO_ALARM)
  OBVIOUS
<1>2. SameAlarm(s, t, c)
  BY <1>1, SevrBounds, UnackSevChan
<1>3. t \in State /\ s.chan[c].unackSevr \in Sevr
  BY <1>2 DEF SameAlarm, State, ChanData
<1>4. SameAlarm(t, [t EXCEPT !.chan[c].unackSevr = s.chan[c].unackSevr], c)
  BY <1>3, UnackChan
<1>5. SameAlarm(s, [t EXCEPT !.chan[c].unackSevr = s.chan[c].unackSevr], c)
  BY <1>2, <1>4, SameAlarmComposes
<1>6. UncountUnack(s, c) = IF GlobalFlag THEN [t EXCEPT !.chan[c].unackSevr = s.chan[c].unackSevr]
                           ELSE t
  BY <1>1 DEF UncountUnack
<1> QED BY <1>2, <1>5, <1>6

\* AutoAck.
LEMMA AutoAckChan ==
  ASSUME NEW s \in State, NEW c \in Chan PROVE SameAlarm(s, AutoAck(s, c), c)
<1>1. PICK t : t = ackChan(s, c)
  OBVIOUS
<1>2. SameAlarm(s, t, c)
  <2>1. CASE GlobalFlag /\ ~PassiveFlag
    BY <1>1, <2>1, SameAlarmReflexive DEF ackChan
  <2>2. CASE ~(GlobalFlag /\ ~PassiveFlag)
    <3>1. t = alSetUnackSevChan(s, c, NO_ALARM)
      BY <1>1, <2>2 DEF ackChan
    <3> QED BY <3>1, SevrBounds, UnackSevChan
  <2> QED BY <2>1, <2>2
<1>3. t \in State
  BY <1>2 DEF SameAlarm
<1>4. SameAlarm(t, [t EXCEPT !.chan[c].unackSevr = NO_ALARM], c)
  BY <1>3, SevrBounds, UnackChan
<1>5. SameAlarm(s, [t EXCEPT !.chan[c].unackSevr = NO_ALARM], c)
  BY <1>2, <1>4, SameAlarmComposes
<1>6. SameAlarm(s, s, c)
  BY SameAlarmReflexive
<1>7. AutoAck(s, c) = IF GlobalFlag /\ s.chan[c].unackSevr > NO_ALARM
                      THEN [t EXCEPT !.chan[c].unackSevr = NO_ALARM] ELSE s
  BY <1>1 DEF AutoAck
<1> QED BY <1>5, <1>6, <1>7

\* Reprocess shows again what the channel showed.
LEMMA ReprocessChan ==
  ASSUME NEW s \in State, NEW c \in Chan, NEW u \in Sevr
  PROVE  SameAlarm(s, Reprocess(s, c, u), c)
<1>1. PICK d : d = s.chan[c]
  OBVIOUS
<1>2. PICK d1 : d1 = [d EXCEPT !.curSevr = NO_ALARM, !.unackSevr = u]
  OBVIOUS
<1>3. PICK s1 : s1 = [s EXCEPT !.chan[c] = d1]
  OBVIOUS
<1>4. /\ d.curStat \in Stat /\ d.curSevr \in Sevr /\ d.unackSevr \in Sevr
      /\ d1 \in ChanData
  BY <1>1, <1>2, SevrBounds DEF State, ChanData
<1>5. s1 \in State /\ \A e \in Chan \ {c} : s1.chan[e] = s.chan[e]
  BY <1>3, <1>4 DEF State
<1>6. PICK ackt \in BOOLEAN : ackt = On(s, c, "AckT")
  <2>1. On(s, c, "AckT") \in BOOLEAN
    BY DEF On
  <2> QED BY <2>1
<1>7. PICK t : t = alNewAlarmProcess(s1, c, d.curStat, d.curSevr, d.unackSevr, ackt)
  OBVIOUS
<1>8. Shows(s1, t, c, d.curStat, d.curSevr, d.unackSevr, ackt)
  BY <1>4, <1>5, <1>7, ProcessShows
<1>9. [s EXCEPT !.chan[c].curSevr = NO_ALARM, !.chan[c].unackSevr = u] = s1
  BY <1>1, <1>2, <1>3 DEF State, ChanData
<1>10. Reprocess(s, c, u) = t
  BY <1>1, <1>6, <1>7, <1>9 DEF Reprocess
<1> QED BY <1>1, <1>5, <1>8, <1>10 DEF Shows, SameAlarm

\* The Disable part of alChangeChanMask.
LEMMA ChangeDisableChan ==
  ASSUME NEW s \in State, NEW c \in Chan, NEW mask
  PROVE  SameAlarm(s, ChangeDisable(s, c, mask), c)
<1>1. PICK new \in BOOLEAN : new = ("Disable" \in mask)
  <2>1. ("Disable" \in mask) \in BOOLEAN
    OBVIOUS
  <2> QED BY <2>1
<1>2. CASE new = On(s, c, "Disable")
  BY <1>1, <1>2, SameAlarmReflexive DEF ChangeDisable
<1>3. CASE new # On(s, c, "Disable")
  <2>1. PICK s1 : s1 = SetMaskBit(s, c, "Disable", new)
    OBVIOUS
  <2>2. SameAlarm(s, s1, c)
    BY <1>3, <2>1, MaskBitChan DEF MaskBit
  <2> s1 \in State
    BY <2>2 DEF SameAlarm
  <2>3. SameAlarm(s1, DisableOn(s1, c), c)
    <3>1. PICK s2 : s2 = UncountUnack(s1, c)
      OBVIOUS
    <3>2. SameAlarm(s1, s2, c)
      BY <3>1, UncountUnackChan
    <3> s2 \in State
      BY <3>2 DEF SameAlarm
    <3>3. PICK s3 : s3 = IF s1.chan[c].curSevr > NO_ALARM THEN Uncount(s2, c) ELSE s2
      OBVIOUS
    <3>4. SameAlarm(s2, s3, c)
      BY <3>3, UncountChan, SameAlarmReflexive
    <3> s3 \in State
      BY <3>4 DEF SameAlarm
    <3>5. PICK p \in Int : p = alCaPutSevrValue(s3.chan[c].sevrPV, -1)
      <4>1. s3.chan[c] \in ChanData
        BY DEF State
      <4> QED BY <4>1 DEF ChanData, alCaPutSevrValue
    <3>6. SameAlarm(s3, [s3 EXCEPT !.chan[c].sevrPV = p], c)
      BY <3>5, PutChan
    <3>7. DisableOn(s1, c) = [s3 EXCEPT !.chan[c].sevrPV = p]
      BY <3>1, <3>3, <3>5 DEF DisableOn
    <3> QED BY <3>2, <3>4, <3>6, <3>7, SameAlarmComposes
  <2>4. SameAlarm(s1, DisableOff(s1, c), c)
    BY SevrBounds, ReprocessChan, AutoAckChan DEF DisableOff
  <2>5. ChangeDisable(s, c, mask) \in {s1, DisableOn(s1, c), DisableOff(s1, c)}
    BY <1>1, <1>3, <2>1 DEF ChangeDisable
  <2> QED BY <2>2, <2>3, <2>4, <2>5, SameAlarmComposes
<1> QED BY <1>2, <1>3

\* The Ack part of alChangeChanMask.
LEMMA ChangeAckChan ==
  ASSUME NEW s \in State, NEW c \in Chan, NEW mask
  PROVE  SameAlarm(s, ChangeAck(s, c, mask), c)
<1>1. PICK new \in BOOLEAN : new = ("Ack" \in mask)
  <2>1. ("Ack" \in mask) \in BOOLEAN
    OBVIOUS
  <2> QED BY <2>1
<1>2. CASE new = On(s, c, "Ack")
  BY <1>1, <1>2, SameAlarmReflexive DEF ChangeAck
<1>3. CASE new # On(s, c, "Ack")
  <2>1. PICK s1 : s1 = SetMaskBit(s, c, "Ack", new)
    OBVIOUS
  <2>2. SameAlarm(s, s1, c)
    BY <1>3, <2>1, MaskBitChan DEF MaskBit
  <2> s1 \in State
    BY <2>2 DEF SameAlarm
  <2>3. SameAlarm(s1, AckOff(s1, c), c)
    <3>1. PICK u, v : u = s1.chan[c].unackSevr /\ v = s1.chan[c].curSevr
      OBVIOUS
    <3>2. u \in Sevr /\ v \in Sevr
      BY <3>1 DEF State, ChanData
    <3>3. PICK z : z = [s1 EXCEPT !.chan[c].unackSevr = NO_ALARM]
      OBVIOUS
    <3>4. SameAlarm(s1, z, c)
      BY <3>3, SevrBounds, UnackChan
    <3> z \in State
      BY <3>4 DEF SameAlarm
    <3>5. PICK s2 : s2 = IF GlobalFlag THEN alSetUnackSevChan(z, c, u)
                         ELSE alSetUnackSevChan(s1, c, v)
      OBVIOUS
    <3>6. SameAlarm(s1, s2, c)
      <4>1. SameAlarm(z, alSetUnackSevChan(z, c, u), c) /\ SameAlarm(s1, alSetUnackSevChan(s1, c, v), c)
        BY <3>2, UnackSevChan
      <4> QED BY <3>4, <3>5, <4>1, SameAlarmComposes
    <3> s2 \in State
      BY <3>6 DEF SameAlarm
    <3>7. SameAlarm(s1, SilenceReset(s2), c)
      BY <3>6, SilenceChan, SameAlarmComposes
    <3>8. AckOff(s1, c) \in {SilenceReset(s2), AutoAck(s1, c)}
      BY <3>1, <3>3, <3>5 DEF AckOff
    <3> QED BY <3>7, <3>8, AutoAckChan
  <2>4. ChangeAck(s, c, mask) \in {s1, UncountUnack(s1, c), AckOff(s1, c)}
    BY <1>1, <1>3, <2>1 DEF ChangeAck
  <2> QED BY <2>2, <2>3, <2>4, UncountUnackChan, SameAlarmComposes
<1> QED BY <1>2, <1>3

\* The AckT and Log parts of alChangeChanMask.
LEMMA ChangePlainChan ==
  ASSUME NEW s \in State, NEW c \in Chan, NEW b \in {"AckT", "Log"}, NEW mask
  PROVE  SameAlarm(s, ChangePlain(s, c, b, mask), c)
<1>1. PICK new \in BOOLEAN : new = (b \in mask)
  <2>1. (b \in mask) \in BOOLEAN
    OBVIOUS
  <2> QED BY <2>1
<1>2. CASE new = On(s, c, b)
  BY <1>1, <1>2, SameAlarmReflexive DEF ChangePlain
<1>3. CASE new # On(s, c, b)
  <2>1. SameAlarm(s, SetMaskBit(s, c, b, new), c)
    BY <1>3, MaskBitChan DEF MaskBit
  <2> QED BY <1>1, <1>3, <2>1 DEF ChangePlain
<1> QED BY <1>2, <1>3

\* alChangeChanMask keeps the alarm of a channel that is not cancelled.
LEMMA MaskChan ==
  ASSUME NEW s \in State, NEW c \in Chan, NEW mask, "Cancel" \notin mask, ~On(s, c, "Cancel"),
         NEW t, t = alChangeChanMask(s, c, mask)
  PROVE  SameAlarm(s, t, c) /\ ~On(t, c, "Cancel")
<1>1. ChangeCancel(s, c, mask) = s
  BY DEF ChangeCancel, On
<1>2. PICK s2 : s2 = ChangeDisable(s, c, mask)
  OBVIOUS
<1>3. SameAlarm(s, s2, c) /\ Preserves(s, s2)
  BY <1>2, ChangeDisableChan, ChangeDisablePreserves
<1> s2 \in State
  BY <1>3 DEF SameAlarm
<1>4. PICK s3 : s3 = ChangeAck(s2, c, mask)
  OBVIOUS
<1>5. SameAlarm(s2, s3, c) /\ Preserves(s2, s3)
  BY <1>4, ChangeAckChan, ChangeAckPreserves
<1> s3 \in State
  BY <1>5 DEF SameAlarm
<1>6. PICK s4 : s4 = ChangePlain(s3, c, "AckT", mask)
  OBVIOUS
<1>7. SameAlarm(s3, s4, c) /\ Preserves(s3, s4)
  BY <1>6, ChangePlainChan, ChangePlainPreserves
<1> s4 \in State
  BY <1>7 DEF SameAlarm
<1>8. SameAlarm(s4, t, c) /\ Preserves(s4, t)
  <2>1. t = ChangePlain(s4, c, "Log", mask)
    BY <1>1, <1>2, <1>4, <1>6 DEF alChangeChanMask
  <2> QED BY <2>1, ChangePlainChan, ChangePlainPreserves
<1>9. SameAlarm(s, t, c)
  BY <1>3, <1>5, <1>7, <1>8, SameAlarmComposes
<1>10. Preserves(s, t)
  BY <1>3, <1>5, <1>7, <1>8, PreservesTransitive
<1> QED BY <1>9, <1>10 DEF Preserves, On

----------------------------------------------------------------------------
(* The inductive invariant.                                                *)

(* A cancelled channel gets no more events, and its filter still has the   *)
(* timer of the alarm before: the operator changes other bits.             *)
NoCancel == \A M \in FilterMasks : "Cancel" \notin M

Report == [stat : Stat, sevr : Sevr, acks : Sevr, ackt : BOOLEAN]

LastSlot(n) == IF n > 0 THEN 2 * n - 1 ELSE 0

(* The filter of a line with count n and S seconds.                        *)
FilterOf(n, S) ==
  [inputCount : {n}, inputSeconds : {S}, event : Report, timeout : NoTimer .. S,
   countIndex : 0 .. LastSlot(n),
   alarmTimeHistory : [0 .. 2 * n - 1 -> NoTime .. S + 1]]

(* s.chan[c] and f differ on whether there is an alarm when, and only      *)
(* when, a timer runs; a filter that filters nothing has none.             *)
TimerAgrees(s, f, c) ==
  /\ f.timeout # NoTimer <=> (s.chan[c].curSevr = 0) # (f.event.sevr = 0)
  /\ f.timeout # NoTimer => f.inputSeconds # 0 /\ ~FirstReport(s, c)

(* The slot written j crossings ago, in a ring of R with the next at i.    *)
Slot(i, R, j) == IF i >= j THEN i - j ELSE i - j + R

(* An age in a slot that still counts is in the history, at its place.     *)
RingIn(n, S, i, ring, ch) ==
  \A j \in 1 .. 2 * n :
    LET age == ring[Slot(i, 2 * n, j)]
    IN  age # NoTime /\ age <= S => j <= Len(ch) /\ ch[Len(ch) - j + 1] = age

(* The history: ages, the oldest first, none beyond S seconds.             *)
History(S, ch) ==
  /\ ch \in Seq(0 .. S)
  /\ \A i, j \in DOMAIN ch : i <= j => ch[j] <= ch[i]

FilterTypeOK ==
  /\ St \in State
  /\ connected \in [Chan -> BOOLEAN]
  /\ filter = [c \in Chan |-> filter[c]]
  /\ \A c \in Chan : filter[c] \in FilterOf(filter[c].inputCount, filter[c].inputSeconds)
  /\ \A c \in Chan : filter[c].inputCount \in Int /\ filter[c].inputSeconds \in Nat
  /\ told \in [Chan -> Sevr]
  /\ \A c \in Chan : filter[c].event.sevr = told[c]

NotCancelled == \A c \in Chan : ~On(St, c, "Cancel")
TimersAgree == \A c \in Chan : TimerAgrees(St, filter[c], c)

FilterInv == FilterTypeOK /\ NotCancelled /\ TimersAgree

----------------------------------------------------------------------------
(* The functions of the filter.                                            *)

Results(n, S) == [s : State, f : FilterOf(n, S)]

(* No other channel changes, and no channel is cancelled or subscribed.    *)
Only(s, t, c) ==
  /\ \A e \in Chan \ {c} : t.chan[e] = s.chan[e]
  /\ On(t, c, "Cancel") <=> On(s, c, "Cancel")

\* Process shows the report and leaves the filter alone.
LEMMA ProcessResult ==
  ASSUME NEW n \in Int, NEW S \in Nat, NEW r \in Results(n, S), NEW c \in Chan,
         NEW e \in Report, NEW q, q = Process(r, c, e)
  PROVE  /\ q \in Results(n, S) /\ q.f = r.f
         /\ Shows(r.s, q.s, c, e.stat, e.sevr, e.acks, e.ackt)
         /\ Only(r.s, q.s, c)
<1>1. PICK t : t = alNewAlarmProcess(r.s, c, e.stat, e.sevr, e.acks, e.ackt)
  OBVIOUS
<1>2. /\ r.s \in State /\ r.f \in FilterOf(n, S)
      /\ e.stat \in Stat /\ e.sevr \in Sevr /\ e.acks \in Sevr /\ e.ackt \in BOOLEAN
  BY DEF Results, Report
<1>3. Shows(r.s, t, c, e.stat, e.sevr, e.acks, e.ackt)
  BY <1>1, <1>2, ProcessShows
<1>4. Preserves(r.s, t)
  BY <1>1, <1>2, alNewAlarmProcessPreserves
<1>5. q = [r EXCEPT !.s = t]
  BY <1>1 DEF Process
<1>6. q.s = t /\ q.f = r.f /\ q \in Results(n, S)
  BY <1>2, <1>3, <1>5 DEF Results, Shows
<1> QED BY <1>3, <1>4, <1>6 DEF Shows, Only, Preserves, On

EmptyRing(n, f) == \A i \in 0 .. 2 * n - 1 : f.alarmTimeHistory[i] = NoTime

\* alAlarmFilterReset: no timer, an empty ring.
LEMMA ClearedFilter ==
  ASSUME NEW n \in Int, NEW S \in Nat, NEW f \in FilterOf(n, S)
  PROVE  /\ Cleared(f) \in FilterOf(n, S) /\ Cleared(f).event = f.event
         /\ Cleared(f).timeout = NoTimer /\ EmptyRing(n, Cleared(f))
<1>1. PICK h : h = [i \in DOMAIN f.alarmTimeHistory |-> NoTime]
  OBVIOUS
<1>2. h \in [0 .. 2 * n - 1 -> NoTime .. S + 1]
  BY <1>1 DEF FilterOf, NoTime
<1>3. Cleared(f) = [f EXCEPT !.countIndex = 0, !.alarmTimeHistory = h, !.timeout = NoTimer]
  BY <1>1 DEF Cleared, FilterOf
<1>4. 0 \in 0 .. LastSlot(n)
  BY DEF LastSlot
<1>5. PICK H, I, T : /\ H = [0 .. 2 * n - 1 -> NoTime .. S + 1] /\ I = 0 .. LastSlot(n)
                      /\ T = NoTimer .. S
  OBVIOUS
<1>6. f \in [inputCount : {n}, inputSeconds : {S}, event : Report, timeout : T,
             countIndex : I, alarmTimeHistory : H]
  BY <1>5 DEF FilterOf
<1>7. h \in H /\ 0 \in I /\ NoTimer \in T
  BY <1>2, <1>4, <1>5 DEF NoTimer
<1>8. Cleared(f) \in [inputCount : {n}, inputSeconds : {S}, event : Report, timeout : T,
                      countIndex : I, alarmTimeHistory : H]
  BY <1>3, <1>6, <1>7
<1>9. Cleared(f) \in FilterOf(n, S)
  BY <1>5, <1>8 DEF FilterOf
<1>10. /\ Cleared(f).alarmTimeHistory = h /\ Cleared(f).event = f.event
       /\ Cleared(f).timeout = NoTimer
  BY <1>3, <1>6
<1>11. \A i \in 0 .. 2 * n - 1 : h[i] = NoTime
  BY <1>1 DEF FilterOf
<1> QED BY <1>9, <1>10, <1>11 DEF EmptyRing

\* StopTimeOut, AddTimeOut and alAlarmFilterReset change the filter only.
LEMMA TimerResult ==
  ASSUME NEW n \in Int, NEW S \in Nat, NEW r \in Results(n, S)
  PROVE  /\ StopTimeOut(r) \in Results(n, S) /\ StopTimeOut(r).s = r.s
         /\ StopTimeOut(r).f = [r.f EXCEPT !.timeout = NoTimer]
         /\ AddTimeOut(r) \in Results(n, S) /\ AddTimeOut(r).s = r.s
         /\ AddTimeOut(r).f = IF r.f.timeout = NoTimer THEN [r.f EXCEPT !.timeout = S] ELSE r.f
         /\ alAlarmFilterReset(r) \in Results(n, S) /\ alAlarmFilterReset(r).s = r.s
         /\ alAlarmFilterReset(r).f = Cleared(r.f)
<1>1. PICK f : f = r.f
  OBVIOUS
<1>2. r.s \in State /\ f \in FilterOf(n, S) /\ f.inputSeconds = S
  BY <1>1 DEF Results, FilterOf
<1>3. /\ [f EXCEPT !.timeout = NoTimer] \in FilterOf(n, S)
      /\ [f EXCEPT !.timeout = S] \in FilterOf(n, S)
  BY <1>2 DEF FilterOf, NoTimer
<1>4. Cleared(f) \in FilterOf(n, S)
  BY <1>2, ClearedFilter
<1>5. r = [s |-> r.s, f |-> f]
  BY <1>1 DEF Results
<1>6. /\ StopTimeOut(r) = [s |-> r.s, f |-> [f EXCEPT !.timeout = NoTimer]]
      /\ AddTimeOut(r) = [s |-> r.s, f |-> IF f.timeout = NoTimer THEN [f EXCEPT !.timeout = S] ELSE f]
      /\ alAlarmFilterReset(r) = [s |-> r.s, f |-> Cleared(f)]
  BY <1>1, <1>2, <1>5 DEF StopTimeOut, AddTimeOut, alAlarmFilterReset
<1> QED BY <1>1, <1>2, <1>3, <1>4, <1>6 DEF Results

\* StopTimeOut alone.
LEMMA StopResult ==
  ASSUME NEW n \in Int, NEW S \in Nat, NEW r \in Results(n, S), NEW q, q = StopTimeOut(r)
  PROVE  q \in Results(n, S) /\ q.s = r.s /\ q.f = [r.f EXCEPT !.timeout = NoTimer]
BY TimerResult

\* AddTimeOut alone.
LEMMA AddResult ==
  ASSUME NEW n \in Int, NEW S \in Nat, NEW r \in Results(n, S), NEW q, q = AddTimeOut(r)
  PROVE  /\ q \in Results(n, S) /\ q.s = r.s
         /\ q.f = IF r.f.timeout = NoTimer THEN [r.f EXCEPT !.timeout = S] ELSE r.f
BY TimerResult

\* alAlarmFilterReset alone.
LEMMA ResetResult ==
  ASSUME NEW n \in Int, NEW S \in Nat, NEW r \in Results(n, S), NEW q, q = alAlarmFilterReset(r)
  PROVE  q \in Results(n, S) /\ q.s = r.s /\ q.f = Cleared(r.f)
BY TimerResult

(* What a step of the filter leaves of the timer: it runs on or starts.    *)
TimerStep(f, g) ==
  \/ g.timeout = NoTimer
  \/ g.timeout = f.timeout
  \/ f.timeout = NoTimer /\ g.timeout = f.inputSeconds

(* The alarm shown stays or is the reported one; earned: it may change     *)
(* between alarm and normal.                                               *)
ShownStep(s, t, c, sevr, earned) ==
  LET old == s.chan[c].curSevr  new == t.chan[c].curSevr
  IN  /\ new \in {old, sevr}
      /\ old # 0 /\ sevr # 0 => new = sevr
      /\ Crosses(old, new) => earned

(* While an alarm is shown, global mode takes over the acknowledgement.    *)
AckStep(s, t, c, e) ==
  GlobalFlag /\ s.chan[c].curSevr # 0 =>
    /\ On(t, c, "AckT") = e.ackt
    /\ e.ackt = On(s, c, "AckT") => t.chan[c].unackSevr = e.acks

(* The ring of f and the index into it are those of g.                     *)
SameRing(f, g) == g.countIndex = f.countIndex /\ g.alarmTimeHistory = f.alarmTimeHistory

\* The four cases of a report.
LEMMA LevelResult ==
  ASSUME NEW n \in Int, NEW S \in Nat, NEW r \in Results(n, S), NEW c \in Chan,
         NEW e \in Report, r.f.event = e, S # 0, ~FirstReport(r.s, c),
         NEW q, q = Level(r, c, e)
  PROVE  /\ q \in Results(n, S) /\ q.f.event = e
         /\ Only(r.s, q.s, c)
         /\ q.f.timeout # NoTimer <=> (q.s.chan[c].curSevr = 0) # (e.sevr = 0)
         /\ q.f.timeout # NoTimer => ~FirstReport(q.s, c)
         /\ TimerStep(r.f, q.f)
         /\ ShownStep(r.s, q.s, c, e.sevr, n = -1 /\ e.sevr = 0)
         /\ AckStep(r.s, q.s, c, e)
         /\ n > 0 => SameRing(r.f, q.f)
<1> DEFINE Good ==
             /\ q \in Results(n, S) /\ q.f.event = e
             /\ Only(r.s, q.s, c)
             /\ q.f.timeout # NoTimer <=> (q.s.chan[c].curSevr = 0) # (e.sevr = 0)
             /\ q.f.timeout # NoTimer => ~FirstReport(q.s, c)
             /\ TimerStep(r.f, q.f)
             /\ ShownStep(r.s, q.s, c, e.sevr, n = -1 /\ e.sevr = 0)
             /\ AckStep(r.s, q.s, c, e)
             /\ n > 0 => SameRing(r.f, q.f)
<1>1. PICK d : d = r.s.chan[c]
  OBVIOUS
<1>2. /\ r.s \in State /\ r.f \in FilterOf(n, S)
      /\ d.curSevr \in Sevr /\ d.curStat \in Stat
      /\ e.sevr \in Sevr /\ e.acks \in Sevr
  BY <1>1 DEF Results, Report, State, ChanData
<1>3. r.f.inputCount = n /\ r.f.inputSeconds = S /\ r.f.timeout \in NoTimer .. S
  BY <1>2 DEF FilterOf
<1>4. PICK x : x = Process(r, c, e)
  OBVIOUS
<1>5. /\ x \in Results(n, S) /\ x.f = r.f /\ Only(r.s, x.s, c)
      /\ Shows(r.s, x.s, c, e.stat, e.sevr, e.acks, e.ackt)
  BY <1>4, ProcessResult
<1>6. CASE d.curSevr = 0 /\ e.sevr = 0
  <2>1. q = StayNormal(r, c, e)
    BY <1>1, <1>6 DEF Level
  <2>2. PICK y : y = IF e.acks = 0 THEN x ELSE r
    OBVIOUS
  <2>3. /\ y \in Results(n, S) /\ y.f = r.f /\ Only(r.s, y.s, c)
        /\ y.s.chan[c].curSevr = 0
    BY <1>1, <1>5, <1>6, <2>2 DEF Only, Shows
  <2>4. q = StopTimeOut(y)
    BY <1>4, <2>1, <2>2 DEF StayNormal
  <2>5. /\ q \in Results(n, S) /\ q.s = y.s /\ q.f = [y.f EXCEPT !.timeout = NoTimer]
    BY <2>3, <2>4, StopResult
  <2>6. /\ q.f.event = e /\ q.f.timeout = NoTimer /\ SameRing(r.f, q.f)
    BY <1>2, <2>3, <2>5 DEF FilterOf, SameRing
  <2> QED
    BY <1>1, <1>6, <2>3, <2>5, <2>6 DEF TimerStep, ShownStep, AckStep, Crosses
<1>7. CASE d.curSevr # 0 /\ e.sevr # 0
  <2>1. q = StopTimeOut(x)
    BY <1>1, <1>4, <1>7 DEF Level
  <2>2. /\ q \in Results(n, S) /\ q.s = x.s /\ q.f = [x.f EXCEPT !.timeout = NoTimer]
    BY <1>5, <2>1, StopResult
  <2>3. /\ q.f.event = e /\ q.f.timeout = NoTimer /\ SameRing(r.f, q.f)
    BY <1>2, <1>5, <2>2 DEF FilterOf, SameRing
  <2>4. q.s.chan[c].curSevr = e.sevr /\ AckStep(r.s, q.s, c, e)
    BY <1>5, <2>2 DEF Shows, AckStep
  <2> QED
    BY <1>1, <1>5, <1>7, <2>2, <2>3, <2>4 DEF TimerStep, ShownStep, Crosses
<1>8. CASE d.curSevr = 0 /\ e.sevr # 0
  <2>1. q = AddTimeOut(r)
    BY <1>1, <1>8 DEF Level
  <2>2. /\ q \in Results(n, S) /\ q.s = r.s
        /\ q.f = IF r.f.timeout = NoTimer THEN [r.f EXCEPT !.timeout = S] ELSE r.f
    BY <2>1, AddResult
  <2>3. /\ q.f.event = e /\ q.f.timeout # NoTimer /\ SameRing(r.f, q.f) /\ TimerStep(r.f, q.f)
    BY <1>2, <1>3, <2>2 DEF FilterOf, SameRing, NoTimer, TimerStep
  <2> QED
    BY <1>1, <1>8, <2>2, <2>3 DEF ShownStep, AckStep, Crosses, Only
<1>9. CASE d.curSevr # 0 /\ e.sevr = 0 /\ n # -1
  <2>1. PICK k : k = [e EXCEPT !.stat = d.curStat, !.sevr = d.curSevr]
    OBVIOUS
  <2>2. /\ k \in Report /\ k.stat = d.curStat /\ k.sevr = d.curSevr
        /\ k.acks = e.acks /\ k.ackt = e.ackt
    BY <1>2, <2>1 DEF Report
  <2>3. PICK y : y = Process(r, c, k)
    OBVIOUS
  <2>4. /\ y \in Results(n, S) /\ y.f = r.f /\ Only(r.s, y.s, c)
        /\ Shows(r.s, y.s, c, k.stat, k.sevr, k.acks, k.ackt)
    BY <2>2, <2>3, ProcessResult
  <2>5. q = AddTimeOut(y)
    BY <1>1, <1>3, <1>9, <2>1, <2>3 DEF Level, LeaveAlarm
  <2>6. /\ q \in Results(n, S) /\ q.s = y.s
        /\ q.f = IF y.f.timeout = NoTimer THEN [y.f EXCEPT !.timeout = S] ELSE y.f
    BY <2>4, <2>5, AddResult
  <2>7. /\ q.f.event = e /\ q.f.timeout # NoTimer /\ SameRing(r.f, q.f) /\ TimerStep(r.f, q.f)
    BY <1>2, <1>3, <2>4, <2>6 DEF FilterOf, SameRing, NoTimer, TimerStep
  <2>8. q.s.chan[c].curSevr = d.curSevr /\ q.s.chan[c].curStat = d.curStat
    BY <2>2, <2>4, <2>6 DEF Shows
  <2>9. AckStep(r.s, q.s, c, e)
    BY <2>2, <2>4, <2>6 DEF Shows, AckStep
  <2>10. ~FirstReport(q.s, c)
    BY <1>1, <2>8 DEF FirstReport
  <2>11. ShownStep(r.s, q.s, c, e.sevr, n = -1 /\ e.sevr = 0)
    BY <1>1, <1>9, <2>8 DEF ShownStep, Crosses
  <2> QED
    BY <1>9, <2>4, <2>6, <2>7, <2>8, <2>9, <2>10, <2>11
<1>10. CASE d.curSevr # 0 /\ e.sevr = 0 /\ n = -1
  <2>1. PICK y : y = alAlarmFilterReset(r)
    OBVIOUS
  <2>2. y \in Results(n, S) /\ y.s = r.s /\ y.f = Cleared(r.f)
    BY <2>1, ResetResult
  <2>3. q = Process(y, c, e)
    BY <1>1, <1>3, <1>10, <2>1 DEF Level, LeaveAlarm
  <2>4. /\ q \in Results(n, S) /\ q.f = y.f /\ Only(y.s, q.s, c)
        /\ Shows(y.s, q.s, c, e.stat, e.sevr, e.acks, e.ackt)
    BY <2>2, <2>3, ProcessResult
  <2>5. q.f.event = e /\ q.f.timeout = NoTimer
    BY <1>2, <2>2, <2>4 DEF FilterOf, Cleared
  <2>6. q.s.chan[c].curSevr = 0 /\ AckStep(r.s, q.s, c, e)
    BY <1>10, <2>2, <2>4 DEF Shows, AckStep
  <2> QED
    BY <1>1, <1>10, <2>2, <2>4, <2>5, <2>6 DEF TimerStep, ShownStep, Crosses
<1>11. Good
  BY <1>6, <1>7, <1>8, <1>9, <1>10
<1> QED BY <1>11

(* The slot that is written next has an age that counts.                   *)
Full(n, S, f) == LET age == f.alarmTimeHistory[f.countIndex] IN age # NoTime /\ age <= S

(* A crossing is written into the ring, unless the ring is cleared.        *)
RingStep(n, f, g, crosses) ==
  \/ ~crosses /\ SameRing(f, g)
  \/ EmptyRing(n, g)
  \/ /\ crosses
     /\ g.alarmTimeHistory = [f.alarmTimeHistory EXCEPT ![f.countIndex] = 0]
     /\ g.countIndex = IF f.countIndex + 1 >= 2 * n THEN 0 ELSE f.countIndex + 1

(* The alarm shown after a report, in a channel whose alarm was sevr.      *)
TimerShows(s, f, c, sevr) ==
  /\ f.timeout # NoTimer <=> (s.chan[c].curSevr = 0) # (sevr = 0)
  /\ f.timeout # NoTimer => ~FirstReport(s, c)

\* CountCheck after Level.
LEMMA CountResult ==
  ASSUME NEW n \in Int, NEW S \in Nat, NEW r \in Results(n, S), NEW c \in Chan,
         NEW e \in Report, r.f.event = e, TimerShows(r.s, r.f, c, e.sevr),
         NEW previous \in Sevr, NEW q, q = CountCheck(r, c, e, previous)
  PROVE  /\ q \in Results(n, S) /\ q.f.event = e
         /\ Only(r.s, q.s, c)
         /\ TimerShows(q.s, q.f, c, e.sevr)
         /\ q.f.timeout \in {r.f.timeout, NoTimer}
         /\ \/ q.s = r.s
            \/ /\ Shows(r.s, q.s, c, e.stat, e.sevr, e.acks, e.ackt)
               /\ n > 0 /\ Crosses(previous, e.sevr) /\ Full(n, S, r.f)
         /\ n > 0 => RingStep(n, r.f, q.f, Crosses(previous, e.sevr))
<1>1. PICK f : f = r.f
  OBVIOUS
<1>2. /\ r.s \in State /\ f \in FilterOf(n, S) /\ f.inputCount = n /\ f.inputSeconds = S
      /\ r = [s |-> r.s, f |-> f]
  BY <1>1 DEF Results, FilterOf
<1>3. CASE n <= 0 \/ ~Crosses(previous, e.sevr)
  <2>1. q = r
    BY <1>1, <1>2, <1>3 DEF CountCheck, Crosses
  <2> QED
    BY <1>3, <2>1 DEF Only, RingStep, SameRing
<1>4. CASE n > 0 /\ Crosses(previous, e.sevr) /\ Full(n, S, f)
  <2>1. PICK y : y = alAlarmFilterReset(r)
    OBVIOUS
  <2>2. y \in Results(n, S) /\ y.s = r.s /\ y.f = Cleared(r.f)
    BY <2>1, ResetResult
  <2>3. q = Process(y, c, e)
    BY <1>1, <1>2, <1>4, <2>1 DEF CountCheck, Crosses, Full
  <2>4. /\ q \in Results(n, S) /\ q.f = y.f /\ Only(y.s, q.s, c)
        /\ Shows(y.s, q.s, c, e.stat, e.sevr, e.acks, e.ackt)
    BY <2>2, <2>3, ProcessResult
  <2>5. q.f.event = e /\ q.f.timeout = NoTimer /\ EmptyRing(n, q.f)
    BY <1>1, <1>2, <2>2, <2>4 DEF FilterOf, Cleared, EmptyRing
  <2>6. q.s.chan[c].curSevr = e.sevr
    BY <2>4 DEF Shows
  <2> QED
    BY <1>1, <1>4, <2>2, <2>4, <2>5, <2>6 DEF TimerShows, RingStep
<1>5. CASE n > 0 /\ Crosses(previous, e.sevr) /\ ~Full(n, S, f)
  <2>1. PICK i : i = f.countIndex
    OBVIOUS
  <2>2. PICK h : h = [f.alarmTimeHistory EXCEPT ![i] = 0]
    OBVIOUS
  <2>3. PICK k : k = IF i + 1 >= 2 * n THEN 0 ELSE i + 1
    OBVIOUS
  <2>4. PICK g : g = [f EXCEPT !.alarmTimeHistory = h, !.countIndex = k]
    OBVIOUS
  <2>5. i \in 0 .. 2 * n - 1 /\ f.alarmTimeHistory \in [0 .. 2 * n - 1 -> NoTime .. S + 1]
    BY <1>2, <1>5, <2>1 DEF FilterOf, LastSlot
  <2>6. k \in 0 .. LastSlot(n)
    BY <1>5, <2>3, <2>5 DEF LastSlot
  <2>7. h \in [0 .. 2 * n - 1 -> NoTime .. S + 1]
    BY <2>2, <2>5 DEF NoTime
  <2>8. q = [s |-> r.s, f |-> g]
    <3>1. q = [r EXCEPT !.f.alarmTimeHistory[i] = 0,
                        !.f.countIndex = IF i + 1 >= Ring(r.f) THEN 0 ELSE i + 1]
      BY <1>1, <1>2, <1>5, <2>1 DEF CountCheck, Crosses, Full
    <3>2. Ring(r.f) = 2 * n
      BY <1>1, <1>2 DEF Ring
    <3> QED BY <1>1, <1>2, <2>2, <2>3, <2>4, <3>1, <3>2 DEF FilterOf
  <2>9. g \in FilterOf(n, S)
    <3>1. PICK H, I : H = [0 .. 2 * n - 1 -> NoTime .. S + 1] /\ I = 0 .. LastSlot(n)
      OBVIOUS
    <3>2. f \in [inputCount : {n}, inputSeconds : {S}, event : Report, timeout : NoTimer .. S,
                 countIndex : I, alarmTimeHistory : H]
      BY <1>2, <3>1 DEF FilterOf
    <3>3. h \in H /\ k \in I
      BY <2>6, <2>7, <3>1
    <3>4. g \in [inputCount : {n}, inputSeconds : {S}, event : Report, timeout : NoTimer .. S,
                 countIndex : I, alarmTimeHistory : H]
      BY <2>4, <3>2, <3>3
    <3> QED BY <3>1, <3>4 DEF FilterOf
  <2>10. /\ g.event = f.event /\ g.timeout = f.timeout
         /\ g.alarmTimeHistory = h /\ g.countIndex = k
    BY <1>2, <2>4 DEF FilterOf
  <2>11. q \in Results(n, S) /\ q.s = r.s /\ q.f = g
    BY <1>2, <2>8, <2>9 DEF Results
  <2>12. RingStep(n, r.f, q.f, Crosses(previous, e.sevr))
    BY <1>1, <1>5, <2>1, <2>2, <2>3, <2>10, <2>11 DEF RingStep
  <2> QED
    BY <1>1, <2>10, <2>11, <2>12 DEF TimerShows, Only
<1>6. n > 0 \/ n <= 0
  OBVIOUS
<1>7. n <= 0 \/ ~Crosses(previous, e.sevr) \/ Full(n, S, f)
      \/ (n > 0 /\ Crosses(previous, e.sevr) /\ ~Full(n, S, f))
  BY <1>6
<1> QED BY <1>3, <1>4, <1>5, <1>6

(* The whole filter: from state s and filter f to r, by report e.          *)
FilterStep(n, S, s, f, c, e, r) ==
  /\ r \in Results(n, S) /\ r.f.event = e
  /\ Only(s, r.s, c)
  /\ TimerAgrees(r.s, r.f, c)
  /\ TimerStep(f, r.f)
  /\ IF FirstReport(s, c) \/ S = 0
     THEN /\ r.s.chan[c].curSevr = e.sevr
          /\ SameRing(f, r.f)
     ELSE /\ ShownStep(s, r.s, c, e.sevr,
                       \/ n = -1 /\ e.sevr = 0
                       \/ n > 0 /\ Crosses(f.event.sevr, e.sevr) /\ Full(n, S, f))
          /\ n > 0 => RingStep(n, f, r.f, Crosses(f.event.sevr, e.sevr))

(* Global mode: an acknowledgement passes while an alarm is shown.         *)
AckPasses(s, t, c, e) ==
  GlobalFlag /\ s.chan[c].curSevr # 0 /\ (On(s, c, "AckT") <=> On(t, c, "AckT"))
    => t.chan[c].unackSevr = e.acks

\* alNewAlarmFilter.
LEMMA FilterResult ==
  ASSUME NEW n \in Int, NEW S \in Nat, NEW s \in State, NEW f \in FilterOf(n, S),
         NEW c \in Chan, NEW e \in Report, NEW r, r = alNewAlarmFilter(s, f, c, e)
  PROVE  /\ r \in Results(n, S) /\ r.f.event = e
         /\ Only(s, r.s, c)
         /\ AckPasses(s, r.s, c, e)
         /\ TimerAgrees(s, f, c) => FilterStep(n, S, s, f, c, e, r)
<1>1. PICK g : g = [f EXCEPT !.event = e]
  OBVIOUS
<1>2. /\ g \in FilterOf(n, S) /\ g.event = e /\ g.timeout = f.timeout /\ g.inputSeconds = S
      /\ f.inputSeconds = S /\ g.countIndex = f.countIndex /\ f.event.sevr \in Sevr
      /\ g.alarmTimeHistory = f.alarmTimeHistory
  BY <1>1 DEF FilterOf, Report
<1>3. PICK x : x = [s |-> s, f |-> g]
  OBVIOUS
<1>4. x \in Results(n, S) /\ x.s = s /\ x.f = g
  BY <1>2, <1>3 DEF Results
<1>5. CASE FirstReport(s, c) \/ S = 0
  <2>1. r = Process(x, c, e)
    BY <1>1, <1>2, <1>3, <1>5 DEF alNewAlarmFilter
  <2>2. /\ r \in Results(n, S) /\ r.f = x.f /\ Only(x.s, r.s, c)
        /\ Shows(x.s, r.s, c, e.stat, e.sevr, e.acks, e.ackt)
    BY <1>4, <2>1, ProcessResult
  <2>3. TimerAgrees(s, f, c) => f.timeout = NoTimer
    BY <1>2, <1>5 DEF TimerAgrees
  <2>4. /\ TimerAgrees(s, f, c) => TimerAgrees(r.s, r.f, c) /\ TimerStep(f, r.f)
        /\ SameRing(f, r.f)
    BY <1>2, <1>4, <2>2, <2>3 DEF TimerAgrees, TimerStep, SameRing, Shows
  <2>5. AckPasses(s, r.s, c, e)
    <3> SUFFICES ASSUME GlobalFlag, On(s, c, "AckT") <=> On(r.s, c, "AckT")
                 PROVE  r.s.chan[c].unackSevr = e.acks
      BY DEF AckPasses
    <3>1. On(r.s, c, "AckT") = e.ackt
      BY <2>2 DEF Shows
    <3>2. e.ackt = On(s, c, "AckT")
      BY <3>1 DEF On
    <3> QED BY <1>4, <2>2, <3>2 DEF Shows
  <2>6. TimerAgrees(s, f, c) => FilterStep(n, S, s, f, c, e, r)
    BY <1>2, <1>4, <1>5, <2>2, <2>4 DEF FilterStep, Shows
  <2> QED BY <1>2, <1>4, <2>2, <2>5, <2>6
<1>6. CASE ~(FirstReport(s, c) \/ S = 0)
  <2>1. PICK y : y = Level(x, c, e)
    OBVIOUS
  <2>2. /\ y \in Results(n, S) /\ y.f.event = e
        /\ Only(x.s, y.s, c)
        /\ y.f.timeout # NoTimer <=> (y.s.chan[c].curSevr = 0) # (e.sevr = 0)
        /\ y.f.timeout # NoTimer => ~FirstReport(y.s, c)
        /\ TimerStep(x.f, y.f)
        /\ ShownStep(x.s, y.s, c, e.sevr, n = -1 /\ e.sevr = 0)
        /\ AckStep(x.s, y.s, c, e)
        /\ n > 0 => SameRing(x.f, y.f)
    BY <1>2, <1>4, <1>6, <2>1, LevelResult
  <2>3. r = CountCheck(y, c, e, f.event.sevr)
    BY <1>1, <1>2, <1>3, <1>6, <2>1 DEF alNewAlarmFilter
  <2>4. TimerShows(y.s, y.f, c, e.sevr)
    BY <2>2 DEF TimerShows
  <2>5. /\ r \in Results(n, S) /\ r.f.event = e
        /\ Only(y.s, r.s, c)
        /\ TimerShows(r.s, r.f, c, e.sevr)
        /\ r.f.timeout \in {y.f.timeout, NoTimer}
        /\ \/ r.s = y.s
           \/ /\ Shows(y.s, r.s, c, e.stat, e.sevr, e.acks, e.ackt)
              /\ n > 0 /\ Crosses(f.event.sevr, e.sevr) /\ Full(n, S, y.f)
        /\ n > 0 => RingStep(n, y.f, r.f, Crosses(f.event.sevr, e.sevr))
    BY <1>2, <2>2, <2>3, <2>4, CountResult
  <2>6. TimerAgrees(r.s, r.f, c)
    <3>1. r.f.inputSeconds = S
      BY <2>5 DEF Results, FilterOf
    <3> QED BY <1>6, <2>5, <3>1 DEF TimerAgrees, TimerShows
  <2>7. TimerStep(f, r.f)
    BY <1>2, <1>4, <2>2, <2>5 DEF TimerStep
  <2>8. Only(s, r.s, c)
    BY <1>4, <2>2, <2>5 DEF Only
  <2>9. n > 0 => SameRing(f, y.f)
    BY <1>2, <1>4, <2>2 DEF SameRing
  <2>10. n > 0 => RingStep(n, f, r.f, Crosses(f.event.sevr, e.sevr))
    BY <2>5, <2>9 DEF RingStep, SameRing
  <2>11. n > 0 => (Full(n, S, y.f) <=> Full(n, S, f))
    BY <2>9 DEF Full, SameRing
  <2>12. ShownStep(s, r.s, c, e.sevr,
                   \/ n = -1 /\ e.sevr = 0
                   \/ n > 0 /\ Crosses(f.event.sevr, e.sevr) /\ Full(n, S, f))
    <3>1. CASE r.s = y.s
      BY <1>4, <2>2, <3>1 DEF ShownStep
    <3>2. CASE r.s # y.s
      <4>1. r.s.chan[c].curSevr = e.sevr
        BY <2>5, <3>2 DEF Shows
      <4> QED BY <2>5, <2>11, <3>2, <4>1 DEF ShownStep
    <3> QED BY <3>1, <3>2
  <2>13. AckPasses(s, r.s, c, e)
    <3> SUFFICES ASSUME GlobalFlag, s.chan[c].curSevr # 0,
                        On(s, c, "AckT") <=> On(r.s, c, "AckT")
                 PROVE  r.s.chan[c].unackSevr = e.acks
      BY DEF AckPasses
    <3>1. On(y.s, c, "AckT") = e.ackt
      BY <1>4, <2>2 DEF AckStep
    <3>2. r.s # y.s => On(r.s, c, "AckT") = e.ackt
      BY <2>5 DEF Shows
    <3>3. e.ackt = On(s, c, "AckT")
      BY <3>1, <3>2 DEF On
    <3>4. y.s.chan[c].unackSevr = e.acks
      BY <1>4, <2>2, <3>3 DEF AckStep
    <3>5. r.s # y.s => r.s.chan[c].unackSevr = e.acks
      BY <2>5, <3>1 DEF Shows
    <3> QED BY <3>4, <3>5
  <2>14. FilterStep(n, S, s, f, c, e, r)
    BY <1>6, <2>5, <2>6, <2>7, <2>8, <2>10, <2>12 DEF FilterStep
  <2> QED BY <2>5, <2>8, <2>13, <2>14
<1> QED BY <1>5, <1>6

----------------------------------------------------------------------------
(* The steps of the specification.                                         *)

(* The step reports k of channel c to the filter, with result r.           *)
Reports(c, k, r) ==
  /\ r = alNewAlarmFilter(St, filter[c], c, k)
  /\ St' = r.s
  /\ filter' = [filter EXCEPT ![c] = r.f]
  /\ told' = [told EXCEPT ![c] = k.sevr]
  /\ lasted' = [lasted EXCEPT ![c] = Since(Seen(c), told[c], lasted[c], k.sevr)]
  /\ changes' = [changes EXCEPT ![c] = Changes(Setting(c), Seen(c), told[c], @, k.sevr)]

\* NewEvent reports what came from Channel Access.
LEMMA NewEventReports ==
  ASSUME FilterTypeOK, NEW c \in Chan, NEW e, e.stat \in Stat, e.sevr \in Sevr, e.acks \in Sevr,
         NEW acktCA, NewEvent(c, e, acktCA)
  PROVE  \E k \in Report : \E r : Reports(c, k, r)
<1>1. PICK ackt : ackt = IF acktCA = -1 THEN On(St, c, "AckT") ELSE acktCA = 0
  OBVIOUS
<1>2. ackt \in BOOLEAN
  <2>1. On(St, c, "AckT") \in BOOLEAN /\ (acktCA = 0) \in BOOLEAN
    BY DEF On
  <2> QED BY <1>1, <2>1
<1>3. PICK k : k = [stat |-> e.stat, sevr |-> e.sevr, acks |-> e.acks, ackt |-> ackt]
  OBVIOUS
<1>4. k \in Report /\ k.sevr = e.sevr
  BY <1>2, <1>3 DEF Report
<1>5. PICK r : r = alNewAlarmFilter(St, filter[c], c, k)
  OBVIOUS
<1>6. /\ chan' = r.s.chan /\ group' = r.s.group /\ psetup' = r.s.psetup
      /\ filter' = [filter EXCEPT ![c] = r.f]
      /\ told' = [told EXCEPT ![c] = e.sevr]
      /\ lasted' = [lasted EXCEPT ![c] = Since(Seen(c), told[c], lasted[c], e.sevr)]
      /\ changes' = [changes EXCEPT ![c] = Changes(Setting(c), Seen(c), told[c], @, e.sevr)]
  BY <1>1, <1>3, <1>5 DEF NewEvent, Become
<1>7. r.s \in State
  <2>1. PICK n, S : n = filter[c].inputCount /\ S = filter[c].inputSeconds
    OBVIOUS
  <2>2. St \in State /\ filter[c] \in FilterOf(n, S) /\ n \in Int /\ S \in Nat
    BY <2>1 DEF FilterTypeOK
  <2>3. r \in Results(n, S)
    BY <1>4, <1>5, <2>2, FilterResult
  <2> QED BY <2>3 DEF Results
<1>8. St' = r.s
  BY <1>6, <1>7 DEF St, State
<1> QED BY <1>4, <1>5, <1>6, <1>8 DEF Reports

\* Each event of Channel Access is such a report, or reports nothing.
LEMMA EventReports ==
  ASSUME FilterTypeOK, NEW c \in Chan, CaAlarmEvent(c) \/ ConnDown(c) \/ ConnUp(c)
  PROVE  /\ connected' \in [Chan -> BOOLEAN]
         /\ \/ \E k \in Report : \E r : Reports(c, k, r)
            \/ UNCHANGED <<chan, group, psetup, filter, told, lasted, changes>>
<1>1. CASE CaAlarmEvent(c)
  <2>1. PICK e \in IocEvent : NewEvent(c, e, 1)
    BY <1>1 DEF CaAlarmEvent
  <2>2. e.stat \in Stat /\ e.sevr \in Sevr /\ e.acks \in Sevr
    BY SevrAssumption DEF IocEvent, Stat, Sevr
  <2>3. connected' = connected
    BY <1>1 DEF CaAlarmEvent
  <2> QED BY <2>1, <2>2, <2>3, NewEventReports DEF FilterTypeOK
<1>2. CASE ConnDown(c)
  <2>1. PICK e : e = [stat |-> "NOT_CONNECTED", sevr |-> ERROR_STATE, acks |-> 0]
    OBVIOUS
  <2>2. e.stat \in Stat /\ e.sevr \in Sevr /\ e.acks \in Sevr
    BY <2>1, SevrBounds DEF Stat, ErrorStat, NO_ALARM
  <2>3. NewEvent(c, e, -1) /\ connected' = [connected EXCEPT ![c] = FALSE]
    BY <1>2, <2>1 DEF ConnDown
  <2>4. connected' \in [Chan -> BOOLEAN]
    BY <2>3 DEF FilterTypeOK
  <2> QED BY <2>2, <2>3, <2>4, NewEventReports
<1>3. CASE ConnUp(c)
  <2>1. PICK e : e = chan[c].caAlarmEvent
    OBVIOUS
  <2>2. e.stat \in Stat /\ e.sevr \in Sevr /\ e.acks \in Sevr
    <3>1. chan[c] \in ChanData
      BY DEF FilterTypeOK, St, State
    <3> QED BY <2>1, <3>1 DEF ChanData, AlarmEvent
  <2>3. connected' = [connected EXCEPT ![c] = TRUE]
    BY <1>3 DEF ConnUp
  <2>4. connected' \in [Chan -> BOOLEAN]
    BY <2>3 DEF FilterTypeOK
  <2>5. \/ UNCHANGED <<chan, group, psetup, filter, told, lasted, changes>>
        \/ NewEvent(c, e, e.ackt)
    BY <1>3, <2>1 DEF ConnUp
  <2> QED BY <2>2, <2>4, <2>5, NewEventReports
<1> QED BY <1>1, <1>2, <1>3

(* The timer of c is served: the report that waited is shown.              *)
Served(c) ==
  /\ filter[c].timeout = 0
  /\ filter' = [filter EXCEPT ![c] = Cleared(@)]
  /\ Shows(St, St', c, filter[c].event.stat, filter[c].event.sevr,
           filter[c].event.acks, filter[c].event.ackt)
  /\ Only(St, St', c)
  /\ UNCHANGED <<connected, told, lasted, changes>>

\* FilterTimer serves the timer.
LEMMA FilterTimerServes ==
  ASSUME FilterTypeOK, NEW c \in Chan, FilterTimer(c)
  PROVE  Served(c)
<1>1. PICK e : e = filter[c].event
  OBVIOUS
<1>2. PICK t : t = alNewAlarmProcess(St, c, e.stat, e.sevr, e.acks, e.ackt)
  OBVIOUS
<1>3. St \in State /\ e \in Report
  BY <1>1 DEF FilterTypeOK, FilterOf
<1>4. e.stat \in Stat /\ e.sevr \in Sevr /\ e.acks \in Sevr /\ e.ackt \in BOOLEAN
  BY <1>3 DEF Report
<1>5. Shows(St, t, c, e.stat, e.sevr, e.acks, e.ackt) /\ Preserves(St, t)
  BY <1>2, <1>3, <1>4, ProcessShows, alNewAlarmProcessPreserves
<1>6. chan' = t.chan /\ group' = t.group /\ psetup' = t.psetup
  BY <1>1, <1>2 DEF FilterTimer
<1>7. St' = t
  BY <1>5, <1>6 DEF Shows, St, State
<1>8. Only(St, St', c)
  BY <1>5, <1>7 DEF Only, Shows, Preserves, On
<1>9. /\ filter[c].timeout = 0 /\ filter' = [filter EXCEPT ![c] = Cleared(@)]
      /\ UNCHANGED <<connected, told, lasted, changes>>
  BY DEF FilterTimer, ServeTimer
<1> QED BY <1>1, <1>5, <1>7, <1>8, <1>9 DEF Served

\* The mask callback keeps what the channel shows.
LEMMA MaskCallback ==
  ASSUME FilterTypeOK, NEW c \in Chan, NEW mask \in FilterMasks, ChangeChanMask(c, mask)
  PROVE  /\ St' \in State
         /\ filter' = filter /\ UNCHANGED <<connected, told, lasted, changes>>
         /\ "Cancel" \notin mask /\ ~On(St, c, "Cancel") =>
              SameAlarm(St, St', c) /\ ~On(St', c, "Cancel")
<1>1. PICK s1 : s1 = alChangeChanMask(St, c, mask)
  OBVIOUS
<1>2. PICK t : t = silenceCurrentReset(s1)
  OBVIOUS
<1>3. St \in State /\ s1 \in State
  BY <1>1, alChangeChanMaskKeeps DEF FilterTypeOK, Keeps
<1>4. SameAlarm(s1, t, c) /\ t.chan = s1.chan
  BY <1>2, <1>3, SilenceChan DEF silenceCurrentReset, State
<1>5. chan' = t.chan /\ group' = t.group /\ psetup' = t.psetup
  BY <1>1, <1>2 DEF ChangeChanMask, Become
<1>6. St' = t
  BY <1>4, <1>5 DEF SameAlarm, St, State
<1>7. filter' = filter /\ UNCHANGED <<connected, told, lasted, changes>>
  <2>1. filter' = [filter EXCEPT ![c] = filter[c]]
    BY DEF ChangeChanMask, Become
  <2>2. filter' = filter
    BY <2>1 DEF FilterTypeOK
  <2> QED BY <2>2 DEF ChangeChanMask
<1>8. ASSUME "Cancel" \notin mask, ~On(St, c, "Cancel")
      PROVE  SameAlarm(St, t, c) /\ ~On(t, c, "Cancel")
  <2>1. SameAlarm(St, s1, c) /\ ~On(s1, c, "Cancel")
    BY <1>1, <1>3, <1>8, MaskChan
  <2>2. SameAlarm(St, t, c)
    BY <1>4, <2>1, SameAlarmComposes
  <2> QED BY <1>4, <2>1, <2>2 DEF On
<1> QED BY <1>4, <1>6, <1>7, <1>8 DEF SameAlarm

----------------------------------------------------------------------------
(* The ring of the filter and the history of the reports.                  *)

(* A crossing comes behind the history; of the ones before it the last     *)
(* 2 * n stay.                                                             *)
Pushed(n, ch, new) ==
  /\ Len(new) \in Nat \ {0} /\ new[Len(new)] = 0
  /\ \A j \in 1 .. 2 * n :
       j <= Len(ch) => j + 1 <= Len(new) /\ new[Len(new) - j] = ch[Len(ch) - j + 1]

\* Tail drops the oldest entry.
LEMMA TailKeeps ==
  ASSUME NEW S \in Nat, NEW ch \in Seq(0 .. S), Len(ch) > 0
  PROVE  /\ Tail(ch) \in Seq(0 .. S) /\ Len(Tail(ch)) = Len(ch) - 1
         /\ \A i \in 1 .. Len(ch) - 1 : Tail(ch)[i] = ch[i + 1]
<1>1. ch # <<>>
  OBVIOUS
<1> QED BY <1>1, HeadTailProperties

\* Changes at a crossing of a channel whose alarm is known.
LEMMA ChangesPushes ==
  ASSUME NEW n \in Int, NEW S \in Nat, NEW ch, History(S, ch), NEW setting, setting.inputCount = n,
         NEW old, NEW sevr, Crosses(old, sevr), NEW new, new = Changes(setting, TRUE, old, ch, sevr)
  PROVE  History(S, new) /\ (n > 0 => Pushed(n, ch, new))
<1>1. PICK all : all = Append(ch, 0)
  OBVIOUS
<1>2. ch \in Seq(0 .. S) /\ \A i, j \in 1 .. Len(ch) : i <= j => ch[j] <= ch[i]
  BY DEF History
<1> PICK L : L = Len(ch)
  OBVIOUS
<1>3. /\ all \in Seq(0 .. S) /\ Len(all) = L + 1 /\ all[L + 1] = 0
      /\ \A i \in 1 .. L : all[i] = ch[i]
      /\ DOMAIN all = 1 .. L + 1
  <2>1. ch \in Seq(0 .. S) /\ 0 \in 0 .. S
    BY <1>2
  <2> QED BY <1>1, <2>1, AppendProperties, LenProperties
<1>4. L \in Nat /\ \A i \in 1 .. L : ch[i] \in 0 .. S
  BY <1>2, LenProperties
<1>5. \A i, j \in 1 .. L + 1 : i <= j => all[j] <= all[i]
  <2> SUFFICES ASSUME NEW i \in 1 .. L + 1, NEW j \in 1 .. L + 1, i <= j
               PROVE  all[j] <= all[i]
    OBVIOUS
  <2>1. CASE j = L + 1
    <3>1. all[j] = 0 /\ (i = L + 1 \/ i \in 1 .. L)
      BY <1>3, <1>4, <2>1
    <3> QED BY <1>3, <1>4, <3>1
  <2>2. CASE j # L + 1
    <3>1. i \in 1 .. L /\ j \in 1 .. L
      BY <1>4, <2>2
    <3> QED BY <1>2, <1>3, <3>1
  <2> QED BY <2>1, <2>2
<1>6. new = IF Len(all) > Kept(setting) THEN Tail(all) ELSE all
  BY <1>1 DEF Changes
<1>7. CASE Len(all) > Kept(setting)
  <2>1. /\ new \in Seq(0 .. S) /\ Len(new) = L
        /\ \A i \in 1 .. L : new[i] = all[i + 1]
    <3>1. new = Tail(all)
      BY <1>6, <1>7
    <3>2. Len(all) > 0 /\ Len(all) - 1 = L
      BY <1>3, <1>4
    <3>3. /\ Tail(all) \in Seq(0 .. S) /\ Len(Tail(all)) = Len(all) - 1
          /\ \A i \in 1 .. Len(all) - 1 : Tail(all)[i] = all[i + 1]
      BY <1>3, <3>2, TailKeeps
    <3> QED BY <3>1, <3>2, <3>3
  <2>2. \A i, j \in 1 .. L : i <= j => new[j] <= new[i]
    <3> SUFFICES ASSUME NEW i \in 1 .. L, NEW j \in 1 .. L, i <= j PROVE new[j] <= new[i]
      OBVIOUS
    <3>1. i + 1 \in 1 .. L + 1 /\ j + 1 \in 1 .. L + 1 /\ i + 1 <= j + 1
      BY <1>4
    <3> QED BY <1>5, <2>1, <3>1
  <2>3. History(S, new)
    <3>1. DOMAIN new = 1 .. L
      BY <2>1, LenProperties
    <3> QED BY <2>1, <2>2, <3>1 DEF History
  <2>4. ASSUME n > 0 PROVE Pushed(n, ch, new)
    <3>1. Kept(setting) = 2 * n + 1
      BY <2>4 DEF Kept
    <3>2. L >= 2 * n + 1
      BY <1>3, <1>4, <1>7, <2>4, <3>1
    <3>3. new[L] = 0
      <4>1. L \in 1 .. L
        BY <1>4, <2>4, <3>2
      <4> QED BY <1>3, <2>1, <4>1
    <3>4. ASSUME NEW j \in 1 .. 2 * n
          PROVE  j + 1 <= L /\ new[L - j] = ch[L - j + 1]
      <4>1. j + 1 <= L /\ L - j \in 1 .. L /\ (L - j) + 1 \in 1 .. L
        BY <1>4, <2>4, <3>2
      <4> QED BY <1>3, <2>1, <4>1
    <3>5. L \in Nat \ {0}
      BY <1>4, <2>4, <3>2
    <3>6. Len(new) = L /\ Len(ch) = L
      BY <2>1
    <3>7. Len(new) \in Nat \ {0} /\ new[Len(new)] = 0
      BY <3>3, <3>5, <3>6
    <3>8. \A j \in 1 .. 2 * n :
            j + 1 <= Len(new) /\ new[Len(new) - j] = ch[Len(ch) - j + 1]
      BY <3>4, <3>6
    <3> QED BY <3>7, <3>8, Zenon DEF Pushed
  <2> QED BY <2>3, <2>4
<1>8. CASE ~(Len(all) > Kept(setting))
  <2>1. new = all
    BY <1>6, <1>8
  <2>2. History(S, new)
    <3>1. DOMAIN new = 1 .. L + 1
      BY <1>3, <2>1
    <3> QED BY <1>3, <1>5, <2>1, <3>1 DEF History
  <2>3. ASSUME n > 0 PROVE Pushed(n, ch, new)
    <3>1. ASSUME NEW j \in 1 .. 2 * n, j <= L
          PROVE  j + 1 <= L + 1 /\ new[(L + 1) - j] = ch[L - j + 1]
      <4>1. j + 1 <= L + 1 /\ (L - j) + 1 \in 1 .. L /\ (L + 1) - j = (L - j) + 1
        BY <1>4, <2>3, <3>1
      <4> QED BY <1>3, <2>1, <4>1
    <3>2. L + 1 \in Nat \ {0}
      BY <1>4
    <3>3. Len(new) = L + 1 /\ Len(ch) = L
      BY <1>3, <2>1
    <3>4. Len(new) \in Nat \ {0} /\ new[Len(new)] = 0
      BY <1>3, <2>1, <3>2, <3>3
    <3>5. \A j \in 1 .. 2 * n :
            j <= Len(ch) => j + 1 <= Len(new) /\ new[Len(new) - j] = ch[Len(ch) - j + 1]
      BY <3>1, <3>3
    <3> QED BY <3>4, <3>5, Zenon DEF Pushed
  <2> QED BY <2>2, <2>3
<1> QED BY <1>7, <1>8

\* A crossing written into the ring and into the history.
LEMMA RingPush ==
  ASSUME NEW n \in Int, n > 0, NEW S \in Nat, NEW i \in 0 .. 2 * n - 1,
         NEW ring \in [0 .. 2 * n - 1 -> NoTime .. S + 1], NEW ch, NEW new,
         RingIn(n, S, i, ring, ch), Pushed(n, ch, new),
         NEW k, k = IF i + 1 >= 2 * n THEN 0 ELSE i + 1,
         NEW h, h = [ring EXCEPT ![i] = 0]
  PROVE  RingIn(n, S, k, h, new)
<1> SUFFICES ASSUME NEW j \in 1 .. 2 * n,
                    h[Slot(k, 2 * n, j)] # NoTime, h[Slot(k, 2 * n, j)] <= S
             PROVE  j <= Len(new) /\ new[Len(new) - j + 1] = h[Slot(k, 2 * n, j)]
  BY DEF RingIn
<1>1. CASE j = 1
  <2>1. Slot(k, 2 * n, j) = i
    BY <1>1 DEF Slot
  <2>2. h[i] = 0
    OBVIOUS
  <2>3. new[Len(new) - 1 + 1] = new[Len(new)]
    BY DEF Pushed
  <2> QED BY <1>1, <2>1, <2>2, <2>3 DEF Pushed
<1>2. CASE j # 1
  <2>1. PICK m \in 1 .. 2 * n : m + 1 = j
    <3>1. j - 1 \in 1 .. 2 * n /\ (j - 1) + 1 = j
      BY <1>2
    <3> QED BY <3>1
  <2>2. Slot(k, 2 * n, j) = Slot(i, 2 * n, m) /\ Slot(i, 2 * n, m) \in 0 .. 2 * n - 1
        /\ Slot(i, 2 * n, m) # i
    BY <2>1 DEF Slot
  <2>3. PICK a : a = ring[Slot(i, 2 * n, m)]
    OBVIOUS
  <2>4. h[Slot(k, 2 * n, j)] = a
    BY <2>2, <2>3
  <2>5. m <= Len(ch) /\ ch[Len(ch) - m + 1] = a
    BY <2>3, <2>4 DEF RingIn
  <2>6. m + 1 <= Len(new) /\ new[Len(new) - m] = a
    BY <2>5 DEF Pushed
  <2>7. Len(new) - j + 1 = Len(new) - m
    <3>1. Len(new) \in Nat /\ m \in Int /\ j = m + 1
      BY <2>1 DEF Pushed
    <3> QED BY <3>1
  <2> QED BY <2>1, <2>4, <2>6, <2>7
<1> QED BY <1>1, <1>2

\* A ring in which nothing counts.
LEMMA RingEmpty ==
  ASSUME NEW n \in Int, NEW S \in Nat, NEW i, NEW ring, NEW ch,
         n > 0 => i \in 0 .. 2 * n - 1 /\ \A x \in 0 .. 2 * n - 1 : ring[x] = NoTime
  PROVE  RingIn(n, S, i, ring, ch)
<1> SUFFICES ASSUME NEW j \in 1 .. 2 * n PROVE ring[Slot(i, 2 * n, j)] = NoTime
  BY DEF RingIn
<1>1. n > 0
  OBVIOUS
<1>2. Slot(i, 2 * n, j) \in 0 .. 2 * n - 1
  BY <1>1 DEF Slot
<1> QED BY <1>1, <1>2

\* A set of places that goes from the first one to the last is an interval.
LEMMA PrefixInterval ==
  ASSUME NEW m \in Nat, NEW D, D \subseteq 1 .. m,
         \A i, j \in 1 .. m : i <= j /\ j \in D => i \in D
  PROVE  Cardinality(D) \in 0 .. m /\ D = 1 .. Cardinality(D)
<1> DEFINE T == {x \in Nat : x + 1 \notin D}
           R == OpToRel(<, Nat)
<1>1. T \subseteq Nat /\ T # {}
  <2>1. m \in T
    OBVIOUS
  <2> QED BY <2>1
<1>2. IsWellFoundedOn(R, Nat)
  BY NatLessThanWellFounded
<1>3. PICK x \in T : \A y \in T : <<y, x>> \notin R
  <2> HIDE DEF T, R
  <2> QED BY <1>1, <1>2, WFMin
<1>4. x \in Nat /\ x + 1 \notin D
  OBVIOUS
<1>5. \A y \in Nat : y < x => y + 1 \in D
  <2>1. \A p, q \in Nat : p < q => <<p, q>> \in R
    BY DEF OpToRel
  <2> QED BY <1>3, <1>4, <2>1
<1> HIDE DEF T, R
<1>6. ASSUME NEW i \in 1 .. x PROVE i \in D
  <2>1. i - 1 \in Nat /\ i - 1 < x /\ (i - 1) + 1 = i
    BY <1>4
  <2> QED BY <1>5, <2>1
<1>7. ASSUME NEW i \in D PROVE i \in 1 .. x
  <2>1. i \in 1 .. m
    OBVIOUS
  <2>2. ~(x + 1 <= i)
    <3> SUFFICES ASSUME x + 1 <= i PROVE FALSE
      OBVIOUS
    <3>1. x + 1 \in 1 .. m
      BY <1>4, <2>1
    <3> QED BY <1>4, <2>1, <3>1
  <2> QED BY <1>4, <2>1, <2>2
<1>8. D = 1 .. x
  BY <1>6, <1>7
<1>9. Cardinality(1 .. x) = x
  BY <1>4, FS_Interval
<1>10. x <= m
  <2> SUFFICES ASSUME x > m PROVE FALSE
    BY <1>4
  <2>1. x \in D
    BY <1>4, <1>8
  <2> QED BY <2>1
<1> QED BY <1>4, <1>8, <1>9, <1>10

\* A second makes the history older; what is too old leaves it at its head.
LEMMA RecentAges ==
  ASSUME NEW S \in Nat, NEW ch, History(S, ch), NEW setting, setting.inputSeconds = S,
         NEW new, new = Recent(setting, ch)
  PROVE  /\ History(S, new)
         /\ \A j \in Nat \ {0} : j <= Len(ch) /\ ch[Len(ch) - j + 1] < S
              => j <= Len(new) /\ new[Len(new) - j + 1] = ch[Len(ch) - j + 1] + 1
<1>1. PICK D : D = {i \in DOMAIN ch : ch[i] >= S}
  OBVIOUS
<1>2. PICK gone : gone = Cardinality(D)
  OBVIOUS
<1>3. /\ ch \in Seq(0 .. S) /\ Len(ch) \in Nat /\ DOMAIN ch = 1 .. Len(ch)
      /\ \A i \in 1 .. Len(ch) : ch[i] \in 0 .. S
      /\ \A i, j \in 1 .. Len(ch) : i <= j => ch[j] <= ch[i]
  BY DEF History
<1>4. D \subseteq 1 .. Len(ch) /\ \A i, j \in 1 .. Len(ch) : i <= j /\ j \in D => i \in D
  BY <1>1, <1>3
<1>5. gone \in 0 .. Len(ch) /\ D = 1 .. gone
  BY <1>2, <1>3, <1>4, PrefixInterval
<1>6. new = [i \in 1 .. Len(ch) - gone |-> ch[i + gone] + 1]
  BY <1>1, <1>2 DEF Recent
<1>7. ASSUME NEW i \in 1 .. Len(ch) - gone
      PROVE  i + gone \in 1 .. Len(ch) /\ ch[i + gone] + 1 \in 0 .. S
  <2>1. i + gone \in 1 .. Len(ch) /\ i + gone \notin D
    BY <1>3, <1>5
  <2> QED BY <1>1, <1>3, <2>1
<1>8. Len(ch) - gone \in Nat
  BY <1>3, <1>5
<1>9. new \in Seq(0 .. S) /\ Len(new) = Len(ch) - gone /\ DOMAIN new = 1 .. Len(ch) - gone
  <2>1. \A i \in 1 .. Len(ch) - gone : ch[i + gone] + 1 \in 0 .. S
    BY <1>7
  <2> QED BY <1>6, <1>8, <2>1, IsASeq
<1>10. History(S, new)
  <2>1. ASSUME NEW i \in 1 .. Len(ch) - gone, NEW j \in 1 .. Len(ch) - gone, i <= j
        PROVE  new[j] <= new[i]
    <3>1. i + gone \in 1 .. Len(ch) /\ j + gone \in 1 .. Len(ch) /\ i + gone <= j + gone
      BY <1>5, <1>7, <2>1
    <3>2. ch[j + gone] <= ch[i + gone] /\ ch[j + gone] \in Int /\ ch[i + gone] \in Int
      BY <1>3, <3>1
    <3> QED BY <1>6, <3>2
  <2> QED BY <1>9, <2>1 DEF History
<1>11. ASSUME NEW j \in Nat \ {0}, j <= Len(ch), ch[Len(ch) - j + 1] < S
       PROVE  j <= Len(new) /\ new[Len(new) - j + 1] = ch[Len(ch) - j + 1] + 1
  <2>1. PICK i : i = Len(ch) - j + 1
    OBVIOUS
  <2>2. i \in 1 .. Len(ch) /\ ch[i] \in 0 .. S
    BY <1>3, <1>11, <2>1
  <2>3. i \notin D
    BY <1>1, <1>11, <2>1, <2>2
  <2>4. i > gone
    BY <1>5, <2>2, <2>3
  <2>5. j <= Len(new) /\ Len(new) - j + 1 = i - gone /\ i - gone \in 1 .. Len(ch) - gone
        /\ (i - gone) + gone = i
    BY <1>3, <1>5, <1>9, <2>1, <2>2, <2>4
  <2>6. new[i - gone] = ch[i] + 1
    BY <1>6, <2>5
  <2> QED BY <2>1, <2>5, <2>6
<1> QED BY <1>10, <1>11

----------------------------------------------------------------------------
(* The types.                                                              *)

\* A second: a filter keeps its type, its report and the state of its timer.
LEMMA AgedFilter ==
  ASSUME NEW n \in Int, NEW S \in Nat, NEW f \in FilterOf(n, S)
  PROVE  /\ Aged(f) \in FilterOf(n, S) /\ Aged(f).event = f.event
         /\ Aged(f).timeout = IF f.timeout > 0 THEN f.timeout - 1 ELSE f.timeout
         /\ Aged(f).countIndex = f.countIndex
         /\ Aged(f).alarmTimeHistory = [i \in 0 .. 2 * n - 1 |->
              IF f.alarmTimeHistory[i] \in 0 .. S THEN f.alarmTimeHistory[i] + 1
              ELSE f.alarmTimeHistory[i]]
<1>1. PICK g : g = f.alarmTimeHistory
  OBVIOUS
<1>2. PICK h : h = [i \in 0 .. 2 * n - 1 |-> IF g[i] \in 0 .. S THEN g[i] + 1 ELSE g[i]]
  OBVIOUS
<1>3. PICK k : k = IF f.timeout > 0 THEN f.timeout - 1 ELSE f.timeout
  OBVIOUS
<1>4. g \in [0 .. 2 * n - 1 -> NoTime .. S + 1] /\ f.inputSeconds = S /\ f.timeout \in NoTimer .. S
  BY <1>1 DEF FilterOf
<1>5. h \in [0 .. 2 * n - 1 -> NoTime .. S + 1]
  <2>1. ASSUME NEW i \in 0 .. 2 * n - 1 PROVE h[i] \in NoTime .. S + 1
    <3>1. g[i] \in NoTime .. S + 1
      BY <1>4
    <3> QED BY <1>2, <3>1 DEF NoTime
  <2>2. h = [i \in 0 .. 2 * n - 1 |-> h[i]]
    BY <1>2
  <2> QED BY <2>1, <2>2
<1>6. k \in NoTimer .. S
  BY <1>3, <1>4 DEF NoTimer
<1>7. DOMAIN g = 0 .. 2 * n - 1
  BY <1>4
<1>8. PICK H, T : H = [0 .. 2 * n - 1 -> NoTime .. S + 1] /\ T = NoTimer .. S
  OBVIOUS
<1>9. f \in [inputCount : {n}, inputSeconds : {S}, event : Report, timeout : T,
             countIndex : 0 .. LastSlot(n), alarmTimeHistory : H]
  BY <1>8 DEF FilterOf
<1>10. Aged(f) = [f EXCEPT !.timeout = k, !.alarmTimeHistory = h]
  BY <1>1, <1>2, <1>3, <1>4, <1>7, <1>9 DEF Aged
<1>11. h \in H /\ k \in T
  BY <1>5, <1>6, <1>8
<1>12. Aged(f) \in [inputCount : {n}, inputSeconds : {S}, event : Report, timeout : T,
                    countIndex : 0 .. LastSlot(n), alarmTimeHistory : H]
  BY <1>9, <1>10, <1>11
<1>13. Aged(f) \in FilterOf(n, S)
  BY <1>8, <1>12 DEF FilterOf
<1>14. /\ Aged(f).event = f.event /\ Aged(f).timeout = k /\ Aged(f).countIndex = f.countIndex
       /\ Aged(f).alarmTimeHistory = h
  BY <1>9, <1>10
<1> QED BY <1>1, <1>2, <1>3, <1>13, <1>14

\* The type alone.
LEMMA AgedTyped ==
  ASSUME NEW n \in Int, NEW S \in Nat, NEW f \in FilterOf(n, S)
  PROVE  Aged(f) \in FilterOf(n, S) /\ Aged(f).event = f.event
<1>1. /\ Aged(f) \in FilterOf(n, S) /\ Aged(f).event = f.event
      /\ Aged(f).timeout = IF f.timeout > 0 THEN f.timeout - 1 ELSE f.timeout
      /\ Aged(f).countIndex = f.countIndex
      /\ Aged(f).alarmTimeHistory = [i \in 0 .. 2 * n - 1 |->
           IF f.alarmTimeHistory[i] \in 0 .. S THEN f.alarmTimeHistory[i] + 1
           ELSE f.alarmTimeHistory[i]]
  BY AgedFilter
<1> QED BY <1>1

(* What a step does to the filters: each keeps its line.                   *)
FiltersTyped ==
  /\ filter' = [c \in Chan |-> filter'[c]]
  /\ \A c \in Chan : /\ filter'[c].inputCount = filter[c].inputCount
                      /\ filter'[c].inputSeconds = filter[c].inputSeconds
                      /\ filter'[c] \in FilterOf(filter[c].inputCount, filter[c].inputSeconds)

\* The filter of one channel changes.
LEMMA OneFilter ==
  ASSUME FilterTypeOK, NEW c \in Chan, NEW g, filter' = [filter EXCEPT ![c] = g],
         g \in FilterOf(filter[c].inputCount, filter[c].inputSeconds)
  PROVE  FiltersTyped /\ filter'[c] = g /\ \A e \in Chan \ {c} : filter'[e] = filter[e]
<1>1. filter' = [e \in Chan |-> IF e = c THEN g ELSE filter[e]]
  BY DEF FilterTypeOK
<1>2. g.inputCount = filter[c].inputCount /\ g.inputSeconds = filter[c].inputSeconds
  BY DEF FilterOf
<1> QED BY <1>1, <1>2 DEF FiltersTyped, FilterTypeOK

\* The types in the initial state.
LEMMA InitTypes == Init => FilterTypeOK
<1> SUFFICES ASSUME Init PROVE FilterTypeOK
  OBVIOUS
<1>1. InitChan \in ChanData
  <2>1. [stat |-> "NO_ALARM", sevr |-> 0, acks |-> 0, ackt |-> 0] \in AlarmEvent
    BY SevrBounds DEF AlarmEvent, Stat, NO_ALARM
  <2> QED BY <2>1, SevrBounds DEF InitChan, ChanData, Stat, NO_ALARM
<1>2. ASSUME NEW g \in Group PROVE InitGroup(g) \in GroupData
  <2>1. PICK u : u = Cardinality({c \in Chan : g \in Anc[c]})
    OBVIOUS
  <2>2. u \in Int
    BY <2>1, NodeAssumption, FS_Subset, FS_CardinalityType
  <2>3. PICK cur : cur = [v \in Sevr |-> IF v = ERROR_STATE THEN u ELSE 0]
    OBVIOUS
  <2>4. PICK none : none = [v \in AlarmSevr |-> 0]
    OBVIOUS
  <2>5. PICK m : m = [b \in MaskBit |-> 0]
    OBVIOUS
  <2>6. cur \in [Sevr -> Int] /\ none \in Counters /\ m \in [MaskBit -> Int]
    BY <2>2, <2>3, <2>4, <2>5 DEF Counters
  <2>7. InitGroup(g) =
          [curSevr |-> NO_ALARM, curSev |-> cur, unackSevr |-> NO_ALARM, unackSev |-> none,
           unackBeepSevr |-> NO_ALARM, unackBeepSev |-> none, beepSevr |-> 0,
           highestBeepSevr |-> NO_ALARM, beepSev |-> none, mask |-> m, sevrPV |-> 0]
    BY <2>1, <2>3, <2>4, <2>5 DEF InitGroup
  <2>8. 0 \in Sevr /\ 0 \in Int
    BY SevrBounds DEF NO_ALARM
  <2> QED BY <2>6, <2>7, <2>8, SevrBounds DEF GroupData
<1>3. psetup \in Setup
  BY SevrAssumption, SevrBounds DEF Init, Setup, Sevr
<1>4. chan \in [Chan -> ChanData] /\ group \in [Group -> GroupData]
  BY <1>1, <1>2 DEF Init
<1>5. St \in State
  BY <1>3, <1>4 DEF St, State
<1>6. connected \in [Chan -> BOOLEAN] /\ told \in [Chan -> Sevr]
  BY SevrBounds DEF Init
<1>7. PICK setting \in [Chan -> FilterSetting] : filter = [c \in Chan |-> InitFilter(setting[c])]
  BY DEF Init
<1>8. ASSUME NEW c \in Chan
      PROVE  /\ filter[c].inputCount \in Int /\ filter[c].inputSeconds \in Nat
             /\ filter[c] \in FilterOf(filter[c].inputCount, filter[c].inputSeconds)
             /\ filter[c].event.sevr = told[c]
  <2>1. PICK n, S : n = setting[c].inputCount /\ S = setting[c].inputSeconds
    OBVIOUS
  <2>2. n \in Int /\ S \in Nat
    <3>1. setting[c] \in [inputCount : Int, inputSeconds : Nat]
      BY FilterAssumption
    <3> QED BY <2>1, <3>1
  <2>3. PICK h : h = [i \in 0 .. 2 * n - 1 |-> NoTime]
    OBVIOUS
  <2>4. PICK e : e = [stat |-> "NO_ALARM", sevr |-> ERROR_STATE, acks |-> 0, ackt |-> FALSE]
    OBVIOUS
  <2>5. h \in [0 .. 2 * n - 1 -> NoTime .. S + 1]
    BY <2>2, <2>3 DEF NoTime
  <2>6. e \in Report
    BY <2>4, SevrBounds DEF Report, Stat, NO_ALARM
  <2>7. 0 \in 0 .. LastSlot(n) /\ NoTimer \in NoTimer .. S
    BY <2>2 DEF LastSlot, NoTimer
  <2>8. filter[c] = [inputCount |-> n, inputSeconds |-> S, event |-> e, timeout |-> NoTimer,
                     countIndex |-> 0, alarmTimeHistory |-> h]
    BY <1>7, <2>1, <2>3, <2>4 DEF InitFilter
  <2>9. filter[c] \in FilterOf(n, S)
    BY <2>5, <2>6, <2>7, <2>8 DEF FilterOf
  <2>10. told[c] = ERROR_STATE
    BY DEF Init
  <2> QED BY <2>2, <2>4, <2>8, <2>9, <2>10
<1>9. filter = [c \in Chan |-> filter[c]]
  BY <1>7
<1> QED BY <1>5, <1>6, <1>8, <1>9 DEF FilterTypeOK

\* A report, a served timer, a change of the mask and a second.
LEMMA NextCases ==
  ASSUME FilterTypeOK, [Next]_vars
  PROVE  \/ /\ connected' \in [Chan -> BOOLEAN]
            /\ \E c \in Chan : \E k \in Report : \E r : Reports(c, k, r)
         \/ \E c \in Chan : Served(c)
         \/ \E c \in Chan, mask \in FilterMasks : ChangeChanMask(c, mask)
         \/ Tick
         \/ /\ connected' \in [Chan -> BOOLEAN]
            /\ UNCHANGED <<chan, group, psetup, filter, told, lasted, changes>>
<1>1. ASSUME NEW c \in Chan, CaAlarmEvent(c) \/ ConnDown(c) \/ ConnUp(c)
      PROVE  /\ connected' \in [Chan -> BOOLEAN]
             /\ \/ \E e \in Chan : \E k \in Report : \E r : Reports(e, k, r)
                \/ UNCHANGED <<chan, group, psetup, filter, told, lasted, changes>>
  BY <1>1, EventReports
<1>2. ASSUME NEW c \in Chan, FilterTimer(c) PROVE \E e \in Chan : Served(e)
  BY <1>2, FilterTimerServes
<1>3. CASE Next
  BY <1>1, <1>2, <1>3 DEF Next
<1>4. CASE UNCHANGED vars
  BY <1>4 DEF vars, FilterTypeOK
<1> QED BY <1>3, <1>4

\* Every step keeps the types, and the line of each filter.
LEMMA StepTypes ==
  ASSUME FilterTypeOK, [Next]_vars
  PROVE  FilterTypeOK' /\ FiltersTyped
<1>1. \A c \in Chan : filter[c].inputCount \in Int /\ filter[c].inputSeconds \in Nat
  BY DEF FilterTypeOK
<1>2. ASSUME St' \in State, connected' \in [Chan -> BOOLEAN], FiltersTyped,
             told' \in [Chan -> Sevr], \A c \in Chan : filter'[c].event.sevr = told'[c]
      PROVE  FilterTypeOK' /\ FiltersTyped
  BY <1>1, <1>2 DEF FilterTypeOK, FiltersTyped
<1>3. CASE /\ connected' \in [Chan -> BOOLEAN]
           /\ \E c \in Chan : \E k \in Report : \E r : Reports(c, k, r)
  <2>. PICK c \in Chan, k \in Report : \E r : Reports(c, k, r)
    BY <1>3
  <2>1. PICK r : Reports(c, k, r)
    OBVIOUS
  <2>2. PICK n, S : n = filter[c].inputCount /\ S = filter[c].inputSeconds
    OBVIOUS
  <2>3. St \in State /\ filter[c] \in FilterOf(n, S) /\ n \in Int /\ S \in Nat
    BY <1>1, <2>2 DEF FilterTypeOK
  <2>4. r \in Results(n, S) /\ r.f.event = k
    BY <2>1, <2>3, FilterResult DEF Reports
  <2>5. r.s \in State /\ r.f \in FilterOf(n, S) /\ k.sevr \in Sevr
    BY <2>4 DEF Results, Report
  <2>6. FiltersTyped /\ filter'[c] = r.f /\ \A e \in Chan \ {c} : filter'[e] = filter[e]
    BY <2>1, <2>2, <2>5, OneFilter DEF Reports
  <2>7. told' = [told EXCEPT ![c] = k.sevr] /\ St' = r.s
    BY <2>1 DEF Reports
  <2>8. told' \in [Chan -> Sevr] /\ \A e \in Chan : filter'[e].event.sevr = told'[e]
    BY <2>4, <2>5, <2>6, <2>7 DEF FilterTypeOK
  <2> QED BY <1>2, <1>3, <2>5, <2>6, <2>7, <2>8
<1>4. CASE \E c \in Chan : Served(c)
  <2>1. PICK c \in Chan : Served(c)
    BY <1>4
  <2>2. PICK n, S : n = filter[c].inputCount /\ S = filter[c].inputSeconds
    OBVIOUS
  <2>3. filter[c] \in FilterOf(n, S) /\ n \in Int /\ S \in Nat
    BY <1>1, <2>2 DEF FilterTypeOK
  <2>4. Cleared(filter[c]) \in FilterOf(n, S) /\ Cleared(filter[c]).event = filter[c].event
    BY <2>3, ClearedFilter
  <2>5. filter' = [filter EXCEPT ![c] = Cleared(filter[c])]
    BY <2>1 DEF Served
  <2>6. /\ FiltersTyped /\ filter'[c] = Cleared(filter[c])
        /\ \A e \in Chan \ {c} : filter'[e] = filter[e]
    BY <2>2, <2>4, <2>5, OneFilter
  <2>7. St' \in State /\ UNCHANGED <<connected, told>>
    BY <2>1 DEF Served, Shows
  <2>8. told' \in [Chan -> Sevr] /\ \A e \in Chan : filter'[e].event.sevr = told'[e]
    BY <2>4, <2>6, <2>7 DEF FilterTypeOK
  <2>9. connected' \in [Chan -> BOOLEAN]
    BY <2>7 DEF FilterTypeOK
  <2> QED BY <1>2, <2>6, <2>7, <2>8, <2>9
<1>5. CASE \E c \in Chan, mask \in FilterMasks : ChangeChanMask(c, mask)
  <2>1. St' \in State /\ filter' = filter /\ UNCHANGED <<connected, told>>
    BY <1>5, MaskCallback
  <2>2. FiltersTyped
    BY <2>1 DEF FilterTypeOK, FiltersTyped
  <2>3. /\ connected' \in [Chan -> BOOLEAN] /\ told' \in [Chan -> Sevr]
        /\ \A e \in Chan : filter'[e].event.sevr = told'[e]
    BY <2>1 DEF FilterTypeOK
  <2> QED BY <1>2, <2>1, <2>2, <2>3
<1>6. CASE Tick
  <2>1. filter' = [c \in Chan |-> Aged(filter[c])] /\ UNCHANGED <<chan, group, psetup, connected, told>>
    BY <1>6 DEF Tick
  <2>2. ASSUME NEW c \in Chan
        PROVE  /\ filter'[c].inputCount = filter[c].inputCount
               /\ filter'[c].inputSeconds = filter[c].inputSeconds
               /\ filter'[c] \in FilterOf(filter[c].inputCount, filter[c].inputSeconds)
               /\ filter'[c].event = filter[c].event
    <3>1. PICK n, S : n = filter[c].inputCount /\ S = filter[c].inputSeconds
      OBVIOUS
    <3>2. filter[c] \in FilterOf(n, S) /\ n \in Int /\ S \in Nat
      BY <1>1, <3>1 DEF FilterTypeOK
    <3>3. Aged(filter[c]) \in FilterOf(n, S) /\ Aged(filter[c]).event = filter[c].event
      BY <3>2, AgedTyped
    <3>4. filter'[c] = Aged(filter[c])
      BY <2>1
    <3> QED BY <3>1, <3>3, <3>4 DEF FilterOf
  <2>3. FiltersTyped
    BY <2>1, <2>2 DEF FiltersTyped
  <2>4. /\ St' \in State /\ connected' \in [Chan -> BOOLEAN] /\ told' \in [Chan -> Sevr]
        /\ \A e \in Chan : filter'[e].event.sevr = told'[e]
    BY <2>1, <2>2 DEF FilterTypeOK, St
  <2> QED BY <1>2, <2>3, <2>4
<1>7. CASE /\ connected' \in [Chan -> BOOLEAN]
           /\ UNCHANGED <<chan, group, psetup, filter, told, lasted, changes>>
  <2>1. FiltersTyped
    BY <1>7 DEF FilterTypeOK, FiltersTyped
  <2>2. /\ St' \in State /\ told' \in [Chan -> Sevr]
        /\ \A e \in Chan : filter'[e].event.sevr = told'[e]
    BY <1>7 DEF FilterTypeOK, St
  <2> QED BY <1>2, <1>7, <2>1, <2>2
<1> QED BY <1>3, <1>4, <1>5, <1>6, <1>7, NextCases

----------------------------------------------------------------------------
(* The timer and the acknowledgement.                                      *)

\* A channel that shows the same alarm, with the same filter.
LEMMA TimerAgreesSame ==
  ASSUME NEW s, NEW t, NEW f, NEW g, NEW c, TimerAgrees(s, f, c),
         t.chan[c].curSevr = s.chan[c].curSevr, t.chan[c].curStat = s.chan[c].curStat,
         g.event = f.event, g.inputSeconds = f.inputSeconds,
         g.timeout = NoTimer <=> f.timeout = NoTimer
  PROVE  TimerAgrees(t, g, c)
BY DEF TimerAgrees, FirstReport

\* The initial state has no timer and nothing withheld.
LEMMA InitFilterInv == Init => FilterInv
<1> SUFFICES ASSUME Init PROVE FilterInv
  OBVIOUS
<1>1. FilterTypeOK
  BY InitTypes
<1>2. \A c \in Chan : chan[c] = InitChan
  BY DEF Init
<1>3. NotCancelled
  BY <1>2 DEF NotCancelled, On, St, InitChan
<1>4. PICK setting \in [Chan -> FilterSetting] : filter = [c \in Chan |-> InitFilter(setting[c])]
  BY DEF Init
<1>5. ASSUME NEW c \in Chan PROVE TimerAgrees(St, filter[c], c)
  <2>1. filter[c].timeout = NoTimer /\ filter[c].event.sevr = ERROR_STATE
    BY <1>4 DEF InitFilter
  <2>2. St.chan[c].curSevr = ERROR_STATE
    BY <1>2 DEF St, InitChan
  <2> QED BY <2>1, <2>2 DEF TimerAgrees
<1> QED BY <1>1, <1>3, <1>5 DEF FilterInv, TimersAgree

\* One channel after a step, when it is the only one to change.
LEMMA OthersAgree ==
  ASSUME FilterInv, NEW c \in Chan, NEW t, t = St', Only(St, t, c),
         \A e \in Chan \ {c} : filter'[e] = filter[e]
  PROVE  /\ \A e \in Chan \ {c} : TimerAgrees(t, filter'[e], e)
         /\ \A e \in Chan : ~On(t, e, "Cancel")
<1>1. ASSUME NEW e \in Chan \ {c} PROVE TimerAgrees(t, filter'[e], e)
  <2>1. TimerAgrees(St, filter[e], e)
    BY DEF FilterInv, TimersAgree
  <2>2. t.chan[e] = St.chan[e] /\ filter'[e] = filter[e]
    BY DEF Only
  <2> QED BY <2>1, <2>2 DEF TimerAgrees, FirstReport
<1>2. ASSUME NEW e \in Chan PROVE ~On(t, e, "Cancel")
  <2>1. ~On(St, e, "Cancel")
    BY DEF FilterInv, NotCancelled
  <2> QED BY <2>1 DEF Only, On
<1> QED BY <1>1, <1>2

\* Every step keeps the invariant, when no channel is cancelled.
LEMMA StepFilterInv ==
  ASSUME NoCancel, FilterInv, [Next]_vars PROVE FilterInv'
<1>1. FilterTypeOK
  BY DEF FilterInv
<1>2. FilterTypeOK' /\ FiltersTyped
  BY <1>1, StepTypes
<1> PICK t : t = St'
  OBVIOUS
<1>3. ASSUME \A c \in Chan : TimerAgrees(t, filter'[c], c), \A c \in Chan : ~On(t, c, "Cancel")
      PROVE  FilterInv'
  BY <1>2, <1>3 DEF FilterInv, TimersAgree, NotCancelled
<1>4. CASE \E c \in Chan : \E k \in Report : \E r : Reports(c, k, r)
  <2>. PICK c \in Chan, k \in Report : \E r : Reports(c, k, r)
    BY <1>4
  <2>1. PICK r : Reports(c, k, r)
    OBVIOUS
  <2>2. PICK n, S : n = filter[c].inputCount /\ S = filter[c].inputSeconds
    OBVIOUS
  <2>3. St \in State /\ filter[c] \in FilterOf(n, S) /\ n \in Int /\ S \in Nat
    BY <1>1, <2>2 DEF FilterTypeOK
  <2>4. TimerAgrees(St, filter[c], c)
    BY DEF FilterInv, TimersAgree
  <2>5. FilterStep(n, S, St, filter[c], c, k, r)
    BY <2>1, <2>3, <2>4, FilterResult DEF Reports
  <2>6. r.s = t /\ r.f \in FilterOf(n, S) /\ filter' = [filter EXCEPT ![c] = r.f]
    BY <2>1, <2>5 DEF Reports, FilterStep, Results
  <2>7. filter'[c] = r.f /\ \A e \in Chan \ {c} : filter'[e] = filter[e]
    BY <1>1, <2>2, <2>6, OneFilter
  <2>8. TimerAgrees(t, filter'[c], c) /\ Only(St, t, c)
    BY <2>5, <2>6, <2>7 DEF FilterStep
  <2>9. /\ \A e \in Chan \ {c} : TimerAgrees(t, filter'[e], e)
        /\ \A e \in Chan : ~On(t, e, "Cancel")
    BY <2>7, <2>8, OthersAgree
  <2> QED BY <1>3, <2>8, <2>9
<1>5. CASE \E c \in Chan : Served(c)
  <2>1. PICK c \in Chan : Served(c)
    BY <1>5
  <2>2. PICK n, S : n = filter[c].inputCount /\ S = filter[c].inputSeconds
    OBVIOUS
  <2>3. filter[c] \in FilterOf(n, S) /\ n \in Int /\ S \in Nat
    BY <1>1, <2>2 DEF FilterTypeOK
  <2>4. /\ Cleared(filter[c]) \in FilterOf(n, S) /\ Cleared(filter[c]).event = filter[c].event
        /\ Cleared(filter[c]).timeout = NoTimer
    BY <2>3, ClearedFilter
  <2>5. filter' = [filter EXCEPT ![c] = Cleared(filter[c])]
    BY <2>1 DEF Served
  <2>6. filter'[c] = Cleared(filter[c]) /\ \A e \in Chan \ {c} : filter'[e] = filter[e]
    BY <1>1, <2>2, <2>4, <2>5, OneFilter
  <2>7. t.chan[c].curSevr = filter[c].event.sevr /\ Only(St, t, c)
    BY <2>1 DEF Served, Shows
  <2>8. TimerAgrees(t, filter'[c], c)
    BY <2>4, <2>6, <2>7 DEF TimerAgrees
  <2>9. /\ \A e \in Chan \ {c} : TimerAgrees(t, filter'[e], e)
        /\ \A e \in Chan : ~On(t, e, "Cancel")
    BY <2>6, <2>7, OthersAgree
  <2> QED BY <1>3, <2>8, <2>9
<1>6. CASE \E c \in Chan, mask \in FilterMasks : ChangeChanMask(c, mask)
  <2>1. PICK c \in Chan, mask \in FilterMasks : ChangeChanMask(c, mask)
    BY <1>6
  <2>2. "Cancel" \notin mask /\ ~On(St, c, "Cancel")
    BY DEF NoCancel, FilterInv, NotCancelled
  <2>3. filter' = filter /\ SameAlarm(St, t, c) /\ ~On(t, c, "Cancel")
    BY <1>1, <2>1, <2>2, MaskCallback
  <2>4. Only(St, t, c)
    BY <2>2, <2>3 DEF SameAlarm, Only
  <2>5. /\ \A e \in Chan \ {c} : TimerAgrees(t, filter'[e], e)
        /\ \A e \in Chan : ~On(t, e, "Cancel")
    BY <2>3, <2>4, OthersAgree
  <2>6. TimerAgrees(t, filter'[c], c)
    <3>1. TimerAgrees(St, filter[c], c)
      BY DEF FilterInv, TimersAgree
    <3> QED BY <2>3, <3>1 DEF SameAlarm, TimerAgrees, FirstReport
  <2> QED BY <1>3, <2>5, <2>6
<1>7. CASE Tick
  <2>1. filter' = [c \in Chan |-> Aged(filter[c])] /\ t = St
    BY <1>7 DEF Tick, St
  <2>2. ASSUME NEW c \in Chan PROVE TimerAgrees(t, filter'[c], c)
    <3>1. PICK f, g, n, S : f = filter[c] /\ g = filter'[c] /\ n = f.inputCount /\ S = f.inputSeconds
      OBVIOUS
    <3>2. f \in FilterOf(n, S) /\ n \in Int /\ S \in Nat /\ g = Aged(f) /\ f.timeout \in Int
      BY <1>1, <2>1, <3>1 DEF FilterTypeOK, FilterOf, NoTimer
    <3>3. /\ g.event = f.event /\ g.inputSeconds = f.inputSeconds
          /\ g.timeout = IF f.timeout > 0 THEN f.timeout - 1 ELSE f.timeout
      <4>1. Aged(f) \in FilterOf(n, S) /\ Aged(f).event = f.event
        BY <3>2, AgedTyped
      <4>2. Aged(f).timeout = IF f.timeout > 0 THEN f.timeout - 1 ELSE f.timeout
        BY <3>2 DEF Aged, FilterOf
      <4> QED BY <3>1, <3>2, <4>1, <4>2 DEF FilterOf
    <3>4. g.timeout = NoTimer <=> f.timeout = NoTimer
      BY <3>2, <3>3 DEF NoTimer
    <3>5. TimerAgrees(St, f, c)
      BY <3>1 DEF FilterInv, TimersAgree
    <3>6. TimerAgrees(t, g, c)
      BY <2>1, <3>3, <3>4, <3>5 DEF TimerAgrees
    <3> QED BY <3>1, <3>6
  <2>3. \A c \in Chan : ~On(t, c, "Cancel")
    BY <2>1 DEF FilterInv, NotCancelled
  <2> QED BY <1>3, <2>2, <2>3
<1>8. CASE UNCHANGED <<chan, group, psetup, filter, told, lasted, changes>>
  <2>1. t = St /\ filter' = filter
    BY <1>8 DEF St
  <2> QED BY <1>3, <2>1 DEF FilterInv, TimersAgree, NotCancelled
<1> QED BY <1>1, <1>4, <1>5, <1>6, <1>7, <1>8, NextCases

(* In every tree and mode, with every set of filters: the timer of a       *)
(* filter runs when, and only when, the filter withholds the change of an  *)
(* alarm, as long as no channel with a filter is cancelled.                *)
THEOREM TimersMatch == ASSUME NoCancel PROVE Spec => []TimerMatches
<1>1. FilterInv => TimerMatches
  BY DEF FilterInv, TimersAgree, TimerAgrees, FilterTypeOK, TimerMatches, St
<1>2. FilterInv /\ [Next]_vars => FilterInv'
  BY StepFilterInv
<1> QED BY InitFilterInv, <1>1, <1>2, PTL DEF Spec

\* A step that changes the report of a filter passes the acknowledgement.
LEMMA StepAcknowledges ==
  ASSUME FilterTypeOK, [Next]_vars, NEW c \in Chan, GlobalFlag, chan[c].curSevr # NO_ALARM,
         filter'[c].event # filter[c].event, On(St, c, "AckT") = ("AckT" \in chan'[c].curMask)
  PROVE  chan'[c].unackSevr = filter'[c].event.acks
<1>1. ASSUME NEW e \in Chan, NEW k \in Report, NEW r, Reports(e, k, r)
      PROVE  chan'[c].unackSevr = filter'[c].event.acks
  <2>1. PICK n, S : n = filter[e].inputCount /\ S = filter[e].inputSeconds
    OBVIOUS
  <2>2. St \in State /\ filter[e] \in FilterOf(n, S) /\ n \in Int /\ S \in Nat
    BY <2>1 DEF FilterTypeOK
  <2>3. r \in Results(n, S) /\ r.f.event = k /\ AckPasses(St, r.s, e, k)
    BY <1>1, <2>2, FilterResult DEF Reports
  <2>4. r.f \in FilterOf(n, S) /\ filter' = [filter EXCEPT ![e] = r.f]
    BY <1>1, <2>3 DEF Reports, Results
  <2>5. filter'[e] = r.f /\ \A x \in Chan \ {e} : filter'[x] = filter[x]
    BY <2>1, <2>4, OneFilter
  <2>6. c = e
    BY <2>5
  <2>7. r.s.chan[c] = chan'[c] /\ St.chan[c] = chan[c]
    BY <1>1 DEF Reports, St
  <2>8. On(St, c, "AckT") <=> On(r.s, c, "AckT")
    BY <2>7 DEF On
  <2>9. St.chan[c].curSevr # 0
    BY <2>7 DEF NO_ALARM
  <2> QED BY <2>3, <2>5, <2>6, <2>7, <2>8, <2>9 DEF AckPasses
<1>2. ASSUME NEW e \in Chan, Served(e) PROVE FALSE
  <2>1. PICK n, S : n = filter[e].inputCount /\ S = filter[e].inputSeconds
    OBVIOUS
  <2>2. filter[e] \in FilterOf(n, S) /\ n \in Int /\ S \in Nat
    BY <2>1 DEF FilterTypeOK
  <2>3. Cleared(filter[e]) \in FilterOf(n, S) /\ Cleared(filter[e]).event = filter[e].event
    BY <2>2, ClearedFilter
  <2>4. filter' = [filter EXCEPT ![e] = Cleared(filter[e])]
    BY <1>2 DEF Served
  <2>5. filter'[e] = Cleared(filter[e]) /\ \A x \in Chan \ {e} : filter'[x] = filter[x]
    BY <2>1, <2>3, <2>4, OneFilter
  <2> QED BY <2>3, <2>5
<1>3. CASE \E e \in Chan, mask \in FilterMasks : ChangeChanMask(e, mask)
  BY <1>3, MaskCallback
<1>4. CASE Tick
  <2>1. PICK n, S : n = filter[c].inputCount /\ S = filter[c].inputSeconds
    OBVIOUS
  <2>2. filter[c] \in FilterOf(n, S) /\ n \in Int /\ S \in Nat
    BY <2>1 DEF FilterTypeOK
  <2>3. Aged(filter[c]).event = filter[c].event
    BY <2>2, AgedTyped
  <2>4. filter'[c] = Aged(filter[c])
    BY <1>4 DEF Tick
  <2> QED BY <2>3, <2>4
<1> QED BY <1>1, <1>2, <1>3, <1>4, NextCases

(* In every tree, with every set of filters and masks: while the filter    *)
(* withholds the return of an alarm to normal, an acknowledgement from the *)
(* IOC passes at once, in the LeaveAlarm and CountCheck parts of           *)
(* alNewAlarmFilter.                                                       *)
THEOREM AcknowledgementsPass == Spec => AcknowledgementPasses
<1>1. FilterTypeOK /\ [Next]_vars => FilterTypeOK'
  BY StepTypes
<1>2. FilterTypeOK /\ [Next]_vars =>
        [\A c \in Chan :
           /\ GlobalFlag /\ chan[c].curSevr # NO_ALARM
           /\ filter'[c].event # filter[c].event
           /\ On(St, c, "AckT") = ("AckT" \in chan'[c].curMask)
           => chan'[c].unackSevr = filter'[c].event.acks]_vars
  BY StepAcknowledges
<1> QED BY InitTypes, <1>1, <1>2, PTL DEF Spec, AcknowledgementPasses

----------------------------------------------------------------------------
(* The history of a channel through the steps.                             *)

(* The history of one channel, as the filter f remembers it: a running     *)
(* timer runs out when the alarm has lasted, and the ring is part of the   *)
(* history.                                                                *)
Remembers(f, last, ch) ==
  LET n == f.inputCount  S == f.inputSeconds
  IN  /\ last \in Nat /\ last <= S
      /\ f.timeout # NoTimer => last + f.timeout >= S
      /\ History(S, ch)
      /\ S = 0 /\ n > 0 => EmptyRing(n, f)
      /\ n > 0 => RingIn(n, S, f.countIndex, f.alarmTimeHistory, ch)

\* A report that is no crossing, or of a channel not seen yet.
LEMMA HistoryStays ==
  ASSUME NEW n \in Int, NEW S \in Nat, NEW s, NEW f \in FilterOf(n, S), NEW c, NEW k, NEW r,
         NEW last, NEW ch, Remembers(f, last, ch), TimerAgrees(s, f, c), f.event.sevr \in Sevr,
         FilterStep(n, S, s, f, c, k, r), FirstReport(s, c) \/ ~Crosses(f.event.sevr, k.sevr)
  PROVE  Remembers(r.f, last, ch)
<1>1. f.inputCount = n /\ f.inputSeconds = S /\ f.timeout \in NoTimer .. S
  BY DEF FilterOf
<1>2. r.f \in FilterOf(n, S) /\ r.f.inputCount = n /\ r.f.inputSeconds = S
  BY DEF FilterStep, Results, FilterOf
<1>3. /\ last \in Nat /\ last <= S /\ History(S, ch)
      /\ f.timeout # NoTimer => last + f.timeout >= S
  BY <1>1 DEF Remembers
<1>4. r.f.timeout # NoTimer => last + r.f.timeout >= S
  BY <1>1, <1>3 DEF FilterStep, TimerStep
<1>5. n > 0 => SameRing(f, r.f) \/ EmptyRing(n, r.f)
  BY DEF FilterStep, RingStep
<1>6. S = 0 /\ n > 0 => EmptyRing(n, r.f)
  BY <1>1, <1>5 DEF Remembers, SameRing, EmptyRing
<1>7. ASSUME n > 0 PROVE RingIn(n, S, r.f.countIndex, r.f.alarmTimeHistory, ch)
  <2>1. CASE SameRing(f, r.f)
    BY <1>1, <1>7, <2>1 DEF Remembers, SameRing
  <2>2. CASE EmptyRing(n, r.f)
    <3>1. r.f.countIndex \in 0 .. 2 * n - 1
      BY <1>2, <1>7 DEF FilterOf, LastSlot
    <3> QED BY <2>2, <3>1, RingEmpty DEF EmptyRing
  <2> QED BY <1>5, <1>7, <2>1, <2>2
<1> QED BY <1>2, <1>3, <1>4, <1>6, <1>7 DEF Remembers

\* A crossing of a channel that was seen.
LEMMA HistoryCrosses ==
  ASSUME NEW n \in Int, NEW S \in Nat, NEW s, NEW f \in FilterOf(n, S), NEW c, NEW k, NEW r,
         NEW last, NEW ch, Remembers(f, last, ch), TimerAgrees(s, f, c),
         FilterStep(n, S, s, f, c, k, r), ~FirstReport(s, c), Crosses(f.event.sevr, k.sevr),
         NEW new, History(S, new), n > 0 => Pushed(n, ch, new)
  PROVE  Remembers(r.f, 0, new)
<1>1. f.inputCount = n /\ f.inputSeconds = S /\ f.timeout \in NoTimer .. S
  BY DEF FilterOf
<1>2. r.f \in FilterOf(n, S) /\ r.f.inputCount = n /\ r.f.inputSeconds = S /\ r.f.event = k
  BY DEF FilterStep, Results, FilterOf
<1>3. r.f.timeout # NoTimer => 0 + r.f.timeout >= S
  <2> SUFFICES ASSUME r.f.timeout # NoTimer PROVE r.f.timeout = S
    BY <1>2
  <2>1. S # 0
    BY <1>2 DEF FilterStep, TimerAgrees
  <2>2. (r.s.chan[c].curSevr = 0) # (k.sevr = 0)
    BY <1>2 DEF FilterStep, TimerAgrees
  <2>3. r.s.chan[c].curSevr = s.chan[c].curSevr
    BY <2>1, <2>2 DEF FilterStep, ShownStep
  <2>4. f.timeout = NoTimer
    <3>1. f.timeout # NoTimer => (s.chan[c].curSevr = 0) # (f.event.sevr = 0)
      BY DEF TimerAgrees
    <3> QED BY <2>2, <2>3, <3>1 DEF Crosses
  <2> QED BY <1>1, <2>4 DEF FilterStep, TimerStep
<1>4. S = 0 /\ n > 0 => EmptyRing(n, r.f)
  BY <1>1 DEF Remembers, SameRing, EmptyRing, FilterStep
<1>5. ASSUME n > 0 PROVE RingIn(n, S, r.f.countIndex, r.f.alarmTimeHistory, new)
  <2>1. r.f.countIndex \in 0 .. 2 * n - 1 /\ f.countIndex \in 0 .. 2 * n - 1
    BY <1>2, <1>5 DEF FilterOf, LastSlot
  <2>2. CASE EmptyRing(n, r.f)
    BY <2>1, <2>2, RingEmpty DEF EmptyRing
  <2>3. CASE ~EmptyRing(n, r.f)
    <3>1. S # 0
      BY <1>4, <1>5, <2>3
    <3>2. /\ r.f.alarmTimeHistory = [f.alarmTimeHistory EXCEPT ![f.countIndex] = 0]
          /\ r.f.countIndex = IF f.countIndex + 1 >= 2 * n THEN 0 ELSE f.countIndex + 1
      BY <1>5, <2>3, <3>1 DEF FilterStep, RingStep
    <3>3. RingIn(n, S, f.countIndex, f.alarmTimeHistory, ch)
      BY <1>1, <1>5 DEF Remembers
    <3>4. f.alarmTimeHistory \in [0 .. 2 * n - 1 -> NoTime .. S + 1]
      BY DEF FilterOf
    <3> QED BY <1>5, <2>1, <3>2, <3>3, <3>4, RingPush
  <2> QED BY <2>2, <2>3
<1> QED BY <1>2, <1>3, <1>4, <1>5 DEF Remembers

\* A second.
LEMMA HistoryAges ==
  ASSUME NEW n \in Int, NEW S \in Nat, NEW f \in FilterOf(n, S), NEW last, NEW ch,
         Remembers(f, last, ch), NEW setting, setting.inputSeconds = S
  PROVE  Remembers(Aged(f), Longer(setting, last), Recent(setting, ch))
<1>1. f.inputCount = n /\ f.inputSeconds = S /\ f.timeout \in NoTimer .. S
  BY DEF FilterOf
<1>2. PICK g : g = Aged(f)
  OBVIOUS
<1>3. /\ g \in FilterOf(n, S)
      /\ g.timeout = IF f.timeout > 0 THEN f.timeout - 1 ELSE f.timeout
      /\ g.countIndex = f.countIndex
      /\ g.alarmTimeHistory = [i \in 0 .. 2 * n - 1 |->
           IF f.alarmTimeHistory[i] \in 0 .. S THEN f.alarmTimeHistory[i] + 1
           ELSE f.alarmTimeHistory[i]]
  <2>1. /\ Aged(f) \in FilterOf(n, S) /\ Aged(f).event = f.event
        /\ Aged(f).timeout = IF f.timeout > 0 THEN f.timeout - 1 ELSE f.timeout
        /\ Aged(f).countIndex = f.countIndex
        /\ Aged(f).alarmTimeHistory = [i \in 0 .. 2 * n - 1 |->
             IF f.alarmTimeHistory[i] \in 0 .. S THEN f.alarmTimeHistory[i] + 1
             ELSE f.alarmTimeHistory[i]]
    BY AgedFilter
  <2> QED BY <1>2, <2>1
<1>4. g.inputCount = n /\ g.inputSeconds = S
  BY <1>3 DEF FilterOf
<1>5. PICK more : more = Longer(setting, last)
  OBVIOUS
<1>6. /\ last \in Nat /\ last <= S /\ History(S, ch)
      /\ f.timeout # NoTimer => last + f.timeout >= S
  BY <1>1 DEF Remembers
<1>7. /\ more \in Nat /\ more <= S
      /\ g.timeout # NoTimer => more + g.timeout >= S
  BY <1>1, <1>3, <1>5, <1>6 DEF Longer, NoTimer
<1>8. PICK new : new = Recent(setting, ch)
  OBVIOUS
<1>9. /\ History(S, new)
      /\ \A j \in Nat \ {0} : j <= Len(ch) /\ ch[Len(ch) - j + 1] < S
           => j <= Len(new) /\ new[Len(new) - j + 1] = ch[Len(ch) - j + 1] + 1
  BY <1>6, <1>8, RecentAges
<1>10. ASSUME n > 0
       PROVE  /\ S = 0 => EmptyRing(n, g)
              /\ RingIn(n, S, g.countIndex, g.alarmTimeHistory, new)
  <2>1. f.alarmTimeHistory \in [0 .. 2 * n - 1 -> NoTime .. S + 1] /\ f.countIndex \in 0 .. 2 * n - 1
    BY <1>10 DEF FilterOf, LastSlot
  <2>2. S = 0 => EmptyRing(n, g)
    <3> SUFFICES ASSUME S = 0, NEW i \in 0 .. 2 * n - 1 PROVE g.alarmTimeHistory[i] = NoTime
      BY DEF EmptyRing
    <3>1. f.alarmTimeHistory[i] = NoTime
      BY <1>1, <1>10 DEF Remembers, EmptyRing
    <3> QED BY <1>3, <3>1 DEF NoTime
  <2>3. ASSUME NEW j \in 1 .. 2 * n, NEW x, x = Slot(g.countIndex, 2 * n, j),
               g.alarmTimeHistory[x] # NoTime, g.alarmTimeHistory[x] <= S
        PROVE  j <= Len(new) /\ new[Len(new) - j + 1] = g.alarmTimeHistory[x]
    <3>1. x = Slot(f.countIndex, 2 * n, j) /\ x \in 0 .. 2 * n - 1
      <4>1. g.countIndex = f.countIndex /\ j \in 1 .. 2 * n
        BY <1>3
      <4> QED BY <1>10, <2>1, <2>3, <4>1 DEF Slot
    <3>2. PICK a : a = f.alarmTimeHistory[x]
      OBVIOUS
    <3>3. a \in NoTime .. S + 1 /\ g.alarmTimeHistory[x] = IF a \in 0 .. S THEN a + 1 ELSE a
      BY <1>3, <2>1, <3>1, <3>2
    <3>4. a # NoTime /\ a < S /\ g.alarmTimeHistory[x] = a + 1
      BY <2>3, <3>3 DEF NoTime
    <3>5. RingIn(n, S, f.countIndex, f.alarmTimeHistory, ch)
      BY <1>1, <1>10 DEF Remembers
    <3>6. a \in Int /\ a <= S
      BY <3>3, <3>4 DEF NoTime
    <3>7. j <= Len(ch) /\ ch[Len(ch) - j + 1] = a
      BY <3>1, <3>2, <3>4, <3>5, <3>6 DEF RingIn
    <3>8. j \in Nat \ {0}
      OBVIOUS
    <3> QED BY <1>9, <3>4, <3>7, <3>8
  <2>4. RingIn(n, S, g.countIndex, g.alarmTimeHistory, new)
    BY <2>3 DEF RingIn
  <2> QED BY <2>2, <2>4
<1>11. Remembers(g, more, new)
  BY <1>4, <1>7, <1>9, <1>10 DEF Remembers
<1> QED BY <1>2, <1>5, <1>8, <1>11

\* The timer is served.
LEMMA HistoryServed ==
  ASSUME NEW n \in Int, NEW S \in Nat, NEW f \in FilterOf(n, S), NEW last, NEW ch, Remembers(f, last, ch)
  PROVE  Remembers(Cleared(f), last, ch)
<1>1. PICK g : g = Cleared(f)
  OBVIOUS
<1>2. g \in FilterOf(n, S) /\ g.timeout = NoTimer /\ EmptyRing(n, g)
  BY <1>1, ClearedFilter
<1>3. f.inputSeconds = S /\ g.inputCount = n /\ g.inputSeconds = S
  BY <1>2 DEF FilterOf
<1>4. n > 0 => g.countIndex \in 0 .. 2 * n - 1
  BY <1>2 DEF FilterOf, LastSlot
<1>5. n > 0 => RingIn(n, S, g.countIndex, g.alarmTimeHistory, ch)
  BY <1>2, <1>4, RingEmpty DEF EmptyRing
<1>6. Remembers(g, last, ch)
  BY <1>2, <1>3, <1>5 DEF Remembers
<1> QED BY <1>1, <1>6

HistoryKept ==
  /\ lasted = [c \in Chan |-> lasted[c]] /\ changes = [c \in Chan |-> changes[c]]
  /\ \A c \in Chan : Remembers(filter[c], lasted[c], changes[c])

\* Nothing has been reported yet.
LEMMA InitHistory == Init => HistoryKept
<1> SUFFICES ASSUME Init PROVE HistoryKept
  OBVIOUS
<1>1. FilterTypeOK
  BY InitTypes
<1>2. lasted = [c \in Chan |-> 0] /\ changes = [c \in Chan |-> <<>>]
  BY DEF Init
<1>3. PICK setting \in [Chan -> FilterSetting] : filter = [c \in Chan |-> InitFilter(setting[c])]
  BY DEF Init
<1>4. ASSUME NEW c \in Chan PROVE Remembers(filter[c], 0, <<>>)
  <2>1. PICK f, n, S : f = filter[c] /\ n = f.inputCount /\ S = f.inputSeconds
    OBVIOUS
  <2>2. f \in FilterOf(n, S) /\ n \in Int /\ S \in Nat
    BY <1>1, <2>1 DEF FilterTypeOK
  <2>3. f.timeout = NoTimer /\ f.alarmTimeHistory = [i \in 0 .. 2 * n - 1 |-> NoTime]
    BY <1>3, <2>1 DEF InitFilter
  <2>4. EmptyRing(n, f)
    BY <2>3 DEF EmptyRing
  <2>5. n > 0 => f.countIndex \in 0 .. 2 * n - 1
    BY <2>2 DEF FilterOf, LastSlot
  <2>6. n > 0 => RingIn(n, S, f.countIndex, f.alarmTimeHistory, <<>>)
    BY <2>2, <2>4, <2>5, RingEmpty DEF EmptyRing
  <2>7. History(S, <<>>)
    BY <2>2 DEF History
  <2> QED BY <2>1, <2>2, <2>3, <2>4, <2>6, <2>7 DEF Remembers
<1> QED BY <1>2, <1>4 DEF HistoryKept

\* A report: the history of its channel goes on as AlarmRegistration says.
LEMMA ReportRemembers ==
  ASSUME FilterInv, HistoryKept, NEW c \in Chan, NEW k \in Report, NEW r, Reports(c, k, r)
  PROVE  Remembers(filter'[c], lasted'[c], changes'[c])
<1>1. PICK f, n, S : f = filter[c] /\ n = f.inputCount /\ S = f.inputSeconds
  OBVIOUS
<1>2. /\ St \in State /\ f \in FilterOf(n, S) /\ n \in Int /\ S \in Nat
      /\ f.event.sevr = told[c] /\ told[c] \in Sevr /\ TimerAgrees(St, f, c)
  BY <1>1 DEF FilterInv, FilterTypeOK, TimersAgree
<1>3. FilterStep(n, S, St, f, c, k, r)
  BY <1>1, <1>2, FilterResult DEF Reports
<1>4. PICK last, ch : last = lasted[c] /\ ch = changes[c]
  OBVIOUS
<1>5. Remembers(f, last, ch)
  BY <1>1, <1>4 DEF HistoryKept
<1>6. /\ filter'[c] = r.f
      /\ lasted'[c] = Since(Seen(c), told[c], last, k.sevr)
      /\ changes'[c] = Changes(Setting(c), Seen(c), told[c], ch, k.sevr)
  <2>1. /\ filter' = [filter EXCEPT ![c] = r.f]
        /\ lasted' = [lasted EXCEPT ![c] = Since(Seen(c), told[c], lasted[c], k.sevr)]
        /\ changes' = [changes EXCEPT ![c] = Changes(Setting(c), Seen(c), told[c], changes[c], k.sevr)]
    BY DEF Reports
  <2>2. c \in DOMAIN filter /\ c \in DOMAIN lasted /\ c \in DOMAIN changes
    BY DEF FilterInv, FilterTypeOK, HistoryKept
  <2> QED BY <1>4, <2>1, <2>2
<1>7. CASE FirstReport(St, c) \/ ~Crosses(told[c], k.sevr)
  <2>1. lasted'[c] = last /\ changes'[c] = ch
    BY <1>6, <1>7 DEF Since, Changes, Seen
  <2>2. Remembers(r.f, last, ch)
    BY <1>2, <1>3, <1>5, <1>7, HistoryStays
  <2> QED BY <1>6, <2>1, <2>2
<1>8. CASE ~FirstReport(St, c) /\ Crosses(told[c], k.sevr)
  <2>1. PICK setting, new : setting = Setting(c) /\ new = Changes(setting, TRUE, told[c], ch, k.sevr)
    OBVIOUS
  <2>2. lasted'[c] = 0 /\ changes'[c] = new
    BY <1>6, <1>8, <2>1 DEF Since, Changes, Seen
  <2>3. setting.inputCount = n /\ History(S, ch)
    BY <1>1, <1>5, <2>1 DEF Setting, Remembers
  <2>4. History(S, new) /\ (n > 0 => Pushed(n, ch, new))
    BY <1>2, <1>8, <2>1, <2>3, ChangesPushes
  <2>5. Remembers(r.f, 0, new)
    BY <1>2, <1>3, <1>5, <1>8, <2>4, HistoryCrosses
  <2> QED BY <1>6, <2>2, <2>5
<1> QED BY <1>7, <1>8

\* Every step keeps the history.
LEMMA StepHistory ==
  ASSUME NoCancel, FilterInv, HistoryKept, [Next]_vars PROVE HistoryKept'
<1>1. FilterTypeOK
  BY DEF FilterInv
<1>2. ASSUME NEW c \in Chan, NEW k \in Report, NEW r, Reports(c, k, r) PROVE HistoryKept'
  <2>1. Remembers(filter'[c], lasted'[c], changes'[c])
    BY <1>2, ReportRemembers
  <2>2. /\ filter' = [filter EXCEPT ![c] = r.f]
        /\ lasted' = [lasted EXCEPT ![c] = Since(Seen(c), told[c], lasted[c], k.sevr)]
        /\ changes' = [changes EXCEPT ![c] = Changes(Setting(c), Seen(c), told[c], changes[c], k.sevr)]
    BY <1>2 DEF Reports
  <2>3. \A e \in Chan \ {c} : /\ filter'[e] = filter[e] /\ lasted'[e] = lasted[e]
                             /\ changes'[e] = changes[e]
    BY <1>1, <2>2 DEF FilterTypeOK, HistoryKept
  <2>4. lasted' = [e \in Chan |-> lasted'[e]] /\ changes' = [e \in Chan |-> changes'[e]]
    BY <2>2 DEF HistoryKept
  <2> QED BY <2>1, <2>3, <2>4 DEF HistoryKept
<1>3. ASSUME NEW c \in Chan, Served(c) PROVE HistoryKept'
  <2>1. PICK f, n, S : f = filter[c] /\ n = f.inputCount /\ S = f.inputSeconds
    OBVIOUS
  <2>2. f \in FilterOf(n, S) /\ n \in Int /\ S \in Nat
    BY <1>1, <2>1 DEF FilterTypeOK
  <2>3. Remembers(Cleared(f), lasted[c], changes[c])
    BY <2>1, <2>2, HistoryServed DEF HistoryKept
  <2>4. filter' = [filter EXCEPT ![c] = Cleared(f)] /\ UNCHANGED <<lasted, changes>>
    BY <1>3, <2>1 DEF Served
  <2>5. filter'[c] = Cleared(f) /\ \A e \in Chan \ {c} : filter'[e] = filter[e]
    BY <1>1, <2>4 DEF FilterTypeOK
  <2> QED BY <2>3, <2>4, <2>5 DEF HistoryKept
<1>4. ASSUME NEW c \in Chan, NEW mask \in FilterMasks, ChangeChanMask(c, mask) PROVE HistoryKept'
  <2>1. filter' = filter /\ UNCHANGED <<lasted, changes>>
    BY <1>1, <1>4, MaskCallback
  <2> QED BY <2>1 DEF HistoryKept
<1>5. CASE Tick
  <2>1. /\ filter' = [c \in Chan |-> Aged(filter[c])]
        /\ lasted' = [c \in Chan |-> Longer(Setting(c), lasted[c])]
        /\ changes' = [c \in Chan |-> Recent(Setting(c), changes[c])]
    BY <1>5 DEF Tick
  <2>2. ASSUME NEW c \in Chan PROVE Remembers(filter'[c], lasted'[c], changes'[c])
    <3>1. PICK f, n, S, setting : /\ f = filter[c] /\ n = f.inputCount /\ S = f.inputSeconds
                                  /\ setting = Setting(c)
      OBVIOUS
    <3>2. f \in FilterOf(n, S) /\ n \in Int /\ S \in Nat /\ setting.inputSeconds = S
      BY <1>1, <3>1 DEF FilterTypeOK, Setting
    <3>3. Remembers(f, lasted[c], changes[c])
      BY <3>1 DEF HistoryKept
    <3>4. Remembers(Aged(f), Longer(setting, lasted[c]), Recent(setting, changes[c]))
      BY <3>2, <3>3, HistoryAges
    <3> QED BY <2>1, <3>1, <3>4
  <2>3. lasted' = [c \in Chan |-> lasted'[c]] /\ changes' = [c \in Chan |-> changes'[c]]
    BY <2>1
  <2> QED BY <2>2, <2>3 DEF HistoryKept
<1>6. CASE UNCHANGED <<chan, group, psetup, filter, told, lasted, changes>>
  BY <1>6 DEF HistoryKept
<1> QED BY <1>1, <1>2, <1>3, <1>4, <1>5, <1>6, NextCases

----------------------------------------------------------------------------
(* The filter implements AlarmRegistration.                                *)

\* The instance has its own copies of the operators on the history.
LEMMA SameOperators ==
  ASSUME NEW setting, NEW seen, NEW old, NEW last, NEW ch, NEW sevr
  PROVE  /\ Shown!Crosses(old, sevr) = Crosses(old, sevr)
         /\ Shown!Since(seen, old, last, sevr) = Since(seen, old, last, sevr)
         /\ Shown!Changes(setting, seen, old, ch, sevr) = Changes(setting, seen, old, ch, sevr)
         /\ Shown!Longer(setting, last) = Longer(setting, last)
         /\ Shown!Recent(setting, ch) = Recent(setting, ch)
<1>1. Shown!Crosses(old, sevr) = Crosses(old, sevr)
  BY DEF Shown!Crosses, Crosses
<1>2. Shown!Since(seen, old, last, sevr) = Since(seen, old, last, sevr)
  BY <1>1 DEF Shown!Since, Since
<1>3. Shown!Changes(setting, seen, old, ch, sevr) = Changes(setting, seen, old, ch, sevr)
  BY ZenonT(60) DEF Shown!Changes, Changes, Shown!Crosses, Crosses, Shown!Kept, Kept
<1>4. Shown!Longer(setting, last) = Longer(setting, last)
  BY DEF Shown!Longer, Longer
<1>5. Shown!Recent(setting, ch) = Recent(setting, ch)
  BY DEF Shown!Recent, Recent, Shown!Cardinality, Cardinality
<1> QED BY <1>1, <1>2, <1>3, <1>4, <1>5

\* The initial state.
LEMMA InitImplements == Init => Shown!Init
<1> SUFFICES ASSUME Init PROVE Shown!Init
  OBVIOUS
<1>1. Watched \in Chan
  BY FilterAssumption
<1>2. filter[Watched].inputCount \in Int /\ filter[Watched].inputSeconds \in Nat
  BY <1>1, InitTypes DEF FilterTypeOK
<1>3. told[Watched] = chan[Watched].curSevr /\ lasted[Watched] = 0 /\ changes[Watched] = <<>>
  BY <1>1 DEF Init, InitChan
<1> QED BY <1>2, <1>3 DEF Shown!Init, Setting

\* A report of the channel is a Report.
LEMMA ReportImplements ==
  ASSUME FilterInv, HistoryKept, NEW k \in Report, NEW r, Reports(Watched, k, r)
  PROVE  Shown!Report(k.sevr)
<1> PICK c : c = Watched
  OBVIOUS
<1>1. c \in Chan
  BY FilterAssumption
<1>2. PICK f, n, S : f = filter[c] /\ n = f.inputCount /\ S = f.inputSeconds
  OBVIOUS
<1>3. /\ St \in State /\ f \in FilterOf(n, S) /\ n \in Int /\ S \in Nat
      /\ f.event.sevr = told[c] /\ told[c] \in Sevr /\ TimerAgrees(St, f, c)
  BY <1>1, <1>2 DEF FilterInv, FilterTypeOK, TimersAgree
<1>4. FilterStep(n, S, St, f, c, k, r)
  BY <1>1, <1>2, <1>3, FilterResult DEF Reports
<1>5. PICK last, ch : last = lasted[c] /\ ch = changes[c]
  OBVIOUS
<1>6. /\ filter'[c] = r.f /\ told'[c] = k.sevr
      /\ lasted'[c] = Since(Seen(c), told[c], last, k.sevr)
      /\ changes'[c] = Changes(Setting(c), Seen(c), told[c], ch, k.sevr)
  <2>1. /\ filter' = [filter EXCEPT ![c] = r.f] /\ told' = [told EXCEPT ![c] = k.sevr]
        /\ lasted' = [lasted EXCEPT ![c] = Since(Seen(c), told[c], lasted[c], k.sevr)]
        /\ changes' = [changes EXCEPT ![c] = Changes(Setting(c), Seen(c), told[c], changes[c], k.sevr)]
    BY DEF Reports
  <2>2. c \in DOMAIN filter /\ c \in DOMAIN told /\ c \in DOMAIN lasted /\ c \in DOMAIN changes
    BY <1>1 DEF FilterInv, FilterTypeOK, HistoryKept
  <2> QED BY <1>5, <2>1, <2>2
<1>7. chan'[c] = r.s.chan[c] /\ St.chan[c] = chan[c]
  BY DEF Reports, St
<1>8. PICK old, new : old = chan[c].curSevr /\ new = chan'[c].curSevr
  OBVIOUS
<1>9. Setting(c)' = Setting(c)
  <2>1. r.f.inputCount = n /\ r.f.inputSeconds = S
    BY <1>4 DEF FilterStep, Results, FilterOf
  <2> QED BY <1>2, <1>6, <2>1 DEF Setting
<1>10. Seen(c)' \in BOOLEAN
  BY DEF Seen, FirstReport
<1>11. new \in {old, k.sevr}
  BY <1>4, <1>7, <1>8 DEF FilterStep, ShownStep
<1>12. ~Seen(c) \/ (old # 0 /\ k.sevr # 0) => new = k.sevr
  BY <1>4, <1>7, <1>8 DEF FilterStep, ShownStep, Seen
<1>13. ASSUME Seen(c), Crosses(old, new) PROVE Shown!Earned(k.sevr, lasted'[c], changes'[c])
  <2>1. Setting(c).inputSeconds = S /\ Setting(c).inputCount = n
    BY <1>2 DEF Setting
  <2>2. CASE S = 0 \/ (n = -1 /\ k.sevr = 0)
    BY <2>1, <2>2 DEF Shown!Earned
  <2>3. CASE ~(S = 0 \/ (n = -1 /\ k.sevr = 0))
    <3>1. n > 0 /\ Crosses(told[c], k.sevr) /\ Full(n, S, f)
      BY <1>3, <1>4, <1>7, <1>8, <1>13, <2>3 DEF FilterStep, ShownStep, Seen
    <3>2. Remembers(f, last, ch)
      BY <1>1, <1>2, <1>5 DEF HistoryKept
    <3>3. RingIn(n, S, f.countIndex, f.alarmTimeHistory, ch) /\ History(S, ch)
      BY <1>2, <3>1, <3>2 DEF Remembers
    <3>4. f.countIndex \in 0 .. 2 * n - 1
      BY <1>3, <3>1 DEF FilterOf, LastSlot
    <3>5. Slot(f.countIndex, 2 * n, 2 * n) = f.countIndex /\ 2 * n \in 1 .. 2 * n
      BY <1>3, <3>1, <3>4 DEF Slot
    <3>6. 2 * n <= Len(ch)
      BY <3>1, <3>3, <3>5 DEF RingIn, Full
    <3>7. PICK setting, times : /\ setting = Setting(c)
                                /\ times = Changes(setting, TRUE, told[c], ch, k.sevr)
      OBVIOUS
    <3>8. changes'[c] = times
      BY <1>6, <1>13, <3>7 DEF Changes
    <3>9. Pushed(n, ch, times)
      <4>1. setting.inputCount = n
        BY <2>1, <3>7
      <4> QED BY <1>3, <3>1, <3>3, <3>7, <4>1, ChangesPushes
    <3>10. 2 * n + 1 <= Len(times) /\ Len(times) \in Nat
      BY <3>5, <3>6, <3>9 DEF Pushed
    <3>11. Len(changes'[c]) > 2 * n
      BY <1>3, <3>8, <3>10
    <3> QED BY <2>1, <3>1, <3>11 DEF Shown!Earned
  <2> QED BY <2>2, <2>3
<1>14. /\ told'[c] = k.sevr
       /\ lasted'[c] = Shown!Since(Seen(c), told[c], lasted[c], k.sevr)
       /\ changes'[c] = Shown!Changes(Setting(c), Seen(c), told[c], changes[c], k.sevr)
  BY <1>5, <1>6, SameOperators
<1>15. Seen(c) /\ Shown!Crosses(old, new) => Shown!Earned(k.sevr, lasted'[c], changes'[c])
  BY <1>13, SameOperators
<1> QED BY <1>8, <1>9, <1>10, <1>11, <1>12, <1>14, <1>15 DEF Shown!Report

\* Every step is a step of AlarmRegistration or leaves its variables.
LEMMA StepImplements ==
  ASSUME NoCancel, FilterInv, HistoryKept, [Next]_vars PROVE [Shown!Next]_(Shown!vars)
<1> PICK c : c = Watched
  OBVIOUS
<1>1. c \in Chan /\ FilterTypeOK
  BY FilterAssumption DEF FilterInv
<1>2. ASSUME filter'[c].inputCount = filter[c].inputCount,
             filter'[c].inputSeconds = filter[c].inputSeconds,
             chan'[c].curSevr = chan[c].curSevr, chan'[c].curStat = chan[c].curStat,
             told'[c] = told[c], lasted'[c] = lasted[c], changes'[c] = changes[c]
      PROVE  UNCHANGED Shown!vars
  BY <1>2 DEF Shown!vars, Setting, Seen, FirstReport, St
<1>3. FiltersTyped
  BY <1>1, StepTypes
<1>4. filter'[c].inputCount = filter[c].inputCount /\ filter'[c].inputSeconds = filter[c].inputSeconds
  BY <1>1, <1>3 DEF FiltersTyped
<1>5. ASSUME NEW e \in Chan, NEW k \in Report, NEW r, Reports(e, k, r)
      PROVE  [Shown!Next]_(Shown!vars)
  <2>1. CASE e = c
    <3>1. Shown!Report(k.sevr) /\ k.sevr \in Sevr
      BY <1>5, <2>1, ReportImplements DEF Report
    <3> QED BY <3>1 DEF Shown!Next
  <2>2. CASE e # c
    <3>1. PICK n, S : n = filter[e].inputCount /\ S = filter[e].inputSeconds
      OBVIOUS
    <3>2. St \in State /\ filter[e] \in FilterOf(n, S) /\ n \in Int /\ S \in Nat
      BY <1>1, <3>1 DEF FilterTypeOK
    <3>3. Only(St, r.s, e)
      BY <1>5, <3>2, FilterResult DEF Reports
    <3>4. chan'[c] = chan[c]
      BY <1>1, <1>5, <2>2, <3>3 DEF Only, Reports, St
    <3>5. told'[c] = told[c] /\ lasted'[c] = lasted[c] /\ changes'[c] = changes[c]
      BY <1>1, <1>5, <2>2 DEF Reports, FilterTypeOK, HistoryKept
    <3> QED BY <1>2, <1>4, <3>4, <3>5
  <2> QED BY <2>1, <2>2
<1>6. ASSUME NEW e \in Chan, Served(e) PROVE [Shown!Next]_(Shown!vars)
  <2>1. told' = told /\ lasted' = lasted /\ changes' = changes /\ Only(St, St', e)
    BY <1>6 DEF Served
  <2>2. CASE e = c
    <3>1. PICK f, n, S : f = filter[c] /\ n = f.inputCount /\ S = f.inputSeconds
      OBVIOUS
    <3>2. f.timeout = 0 /\ f.event.sevr = told[c] /\ S \in Nat
      BY <1>1, <1>6, <2>2, <3>1 DEF Served, FilterTypeOK
    <3>3. Remembers(f, lasted[c], changes[c])
      BY <1>1, <3>1 DEF HistoryKept
    <3>4. lasted[c] >= S
      BY <3>1, <3>2, <3>3 DEF Remembers, NoTimer
    <3>5. Shown!Earned(told[c], lasted[c], changes[c])
      BY <3>1, <3>4 DEF Shown!Earned, Setting
    <3>6. chan'[c].curSevr = told[c] /\ chan'[c].curStat = f.event.stat
      BY <1>6, <2>2, <3>1, <3>2 DEF Served, Shows, St
    <3>7. Setting(c)' = Setting(c)
      BY <1>4 DEF Setting
    <3>8. Seen(c)' \in BOOLEAN
      BY DEF Seen, FirstReport
    <3> QED BY <2>1, <3>5, <3>6, <3>7, <3>8 DEF Shown!Next, Shown!Register
  <2>3. CASE e # c
    <3>1. chan'[c] = chan[c]
      BY <1>1, <2>1, <2>3 DEF Only, St
    <3> QED BY <1>2, <1>4, <2>1, <3>1
  <2> QED BY <2>2, <2>3
<1>7. ASSUME NEW e \in Chan, NEW mask \in FilterMasks, ChangeChanMask(e, mask)
      PROVE  [Shown!Next]_(Shown!vars)
  <2>1. "Cancel" \notin mask /\ ~On(St, e, "Cancel")
    BY DEF NoCancel, FilterInv, NotCancelled
  <2>2. UNCHANGED <<told, lasted, changes>> /\ SameAlarm(St, St', e)
    BY <1>1, <1>7, <2>1, MaskCallback
  <2>3. chan'[c].curSevr = chan[c].curSevr /\ chan'[c].curStat = chan[c].curStat
    BY <1>1, <2>2 DEF SameAlarm, St
  <2> QED BY <1>2, <1>4, <2>2, <2>3
<1>8. CASE Tick
  <2>1. /\ lasted'[c] = Longer(Setting(c), lasted[c])
        /\ changes'[c] = Recent(Setting(c), changes[c])
        /\ UNCHANGED <<chan, group, psetup, told>>
    BY <1>1, <1>8 DEF Tick
  <2>2. /\ lasted'[c] = Shown!Longer(Setting(c), lasted[c])
        /\ changes'[c] = Shown!Recent(Setting(c), changes[c])
    BY <2>1, SameOperators
  <2>3. Setting(c)' = Setting(c)
    BY <1>4 DEF Setting
  <2>4. Seen(c)' = Seen(c)
    BY <2>1 DEF Seen, FirstReport, St
  <2> QED BY <2>1, <2>2, <2>3, <2>4 DEF Shown!Next, Shown!Second
<1>9. CASE UNCHANGED <<chan, group, psetup, filter, told, lasted, changes>>
  BY <1>2, <1>9
<1> QED BY <1>1, <1>5, <1>6, <1>7, <1>8, <1>9, NextCases

(* In every tree and mode, with every set of filters and any number of     *)
(* other channels: what the tree shows of a channel follows its reports as *)
(* AlarmRegistration says, step by step, as long as no channel with a      *)
(* filter is cancelled.  That an alarm that lasts is shown in the end is   *)
(* left to TLC.                                                            *)
THEOREM FilterImplements ==
  ASSUME NoCancel PROVE Spec => Shown!Init /\ [][Shown!Next]_(Shown!vars)
<1>1. FilterInv /\ [Next]_vars => FilterInv'
  BY StepFilterInv
<1>2. FilterInv /\ HistoryKept /\ [Next]_vars => HistoryKept'
  BY StepHistory
<1>3. FilterInv /\ HistoryKept /\ [Next]_vars => [Shown!Next]_(Shown!vars)
  BY StepImplements
<1> QED BY InitFilterInv, InitHistory, InitImplements, <1>1, <1>2, <1>3, PTL DEF Spec

=============================================================================
