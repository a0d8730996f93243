--------------------------- MODULE AlarmOpsProofs ---------------------------
(***************************************************************************)
(* Lemmas about the functions of alLib.c (AlarmOps), for every tree of     *)
(* groups and channels and both modes: what each does to the types, the    *)
(* masks, the counters of the groups and the severities of the channels.   *)
(* Every C function is an operator from state to state; a lemma relates    *)
(* the state before with the state after, the relations compose, and the   *)
(* lemmas follow the call graph.                                           *)
(*                                                                         *)
(* Preserves: the result is a State, exact mask counters stay exact, and   *)
(* subscriptions and Cancel bits are untouched.  ChangeCancel alone breaks *)
(* the last part, and puts the subscription in step with the bit before it *)
(* returns.                                                                *)
(*                                                                         *)
(* Moved(s, t, c, x, y, u, w): c was counted above it with the current     *)
(* severity x and the unacknowledged severity u, and is now counted with y *)
(* and w.  The counters are exact before and after, when x and u are what  *)
(* c showed before and y and w are what it shows after (InStep, MaskStep). *)
(*                                                                         *)
(* Answers(s, t, g): a changed severity of g is put to its PV (global      *)
(* mode), and an alarm that makes the main group beep louder ends the      *)
(* silence (local mode).                                                   *)
(***************************************************************************)
EXTENDS AlarmOps, TLAPS, FiniteSetTheorems, SequenceTheorems, WellFoundedInduction

MaskExact(s) ==
  \A g \in Group, b \in MaskBit :
    s.group[g].mask[b] = Cardinality({c \in ChannelsBelow(g) : b \in s.chan[c].curMask})

EvidExact(s) == \A c \in Chan : s.chan[c].evid <=> "Cancel" \notin s.chan[c].curMask

Preserves(s, t) ==
  /\ t \in State
  /\ MaskExact(s) => MaskExact(t)
  /\ \A c \in Chan : /\ t.chan[c].evid = s.chan[c].evid
                     /\ "Cancel" \in t.chan[c].curMask <=> "Cancel" \in s.chan[c].curMask

(* t is s after bit b of the mask of c was set to on.                      *)
BitChanged(s, t, c, b, on) ==
  /\ t \in State
  /\ MaskExact(s) => MaskExact(t)
  /\ \A e \in Chan : t.chan[e].evid = s.chan[e].evid
  /\ \A e \in Chan \ {c} : t.chan[e].curMask = s.chan[e].curMask
  /\ t.chan[c].curMask = IF on THEN s.chan[c].curMask \cup {b} ELSE s.chan[c].curMask \ {b}

(* t is s after the subscription of c was set to v.                        *)
EvidSet(s, t, c, v) ==
  /\ t \in State
  /\ MaskExact(s) => MaskExact(t)
  /\ \A e \in Chan : /\ "Cancel" \in t.chan[e].curMask <=> "Cancel" \in s.chan[e].curMask
                     /\ t.chan[e].evid = IF e = c THEN v ELSE s.chan[e].evid

(* What a whole operation keeps: the inductive invariant of both theorems. *)
Keeps(s, t) ==
  /\ t \in State
  /\ MaskExact(s) => MaskExact(t)
  /\ EvidExact(s) => EvidExact(t)

----------------------------------------------------------------------------
(* The relation Preserves.                                                 *)

(* Every function may return early with the state it was given.            *)
LEMMA PreservesReflexive ==
  ASSUME NEW s \in State PROVE Preserves(s, s)
BY DEF Preserves

(* A function preserves what its calls, one after the other, preserve.     *)
LEMMA PreservesTransitive ==
  ASSUME NEW s, NEW t, NEW u, Preserves(s, t), Preserves(t, u)
  PROVE  Preserves(s, u)
BY DEF Preserves

(* What leaves masks, mask counters and subscriptions alone preserves.     *)
LEMMA PreservesSameMasks ==
  ASSUME NEW s \in State, NEW t \in State,
         \A c \in Chan : /\ t.chan[c].curMask = s.chan[c].curMask
                         /\ t.chan[c].evid = s.chan[c].evid,
         \A g \in Group : t.group[g].mask = s.group[g].mask
  PROVE  Preserves(s, t)
<1>1. ASSUME MaskExact(s), NEW g \in Group, NEW b \in MaskBit
      PROVE  t.group[g].mask[b] = Cardinality({c \in ChannelsBelow(g) : b \in t.chan[c].curMask})
  <2>1. {c \in ChannelsBelow(g) : b \in t.chan[c].curMask}
        = {c \in ChannelsBelow(g) : b \in s.chan[c].curMask}
    BY DEF ChannelsBelow
  <2> QED BY <1>1, <2>1 DEF MaskExact
<1> QED BY <1>1 DEF Preserves, MaskExact

(* Assignments to other fields of one channel.                             *)
LEMMA PreservesChan ==
  ASSUME NEW s \in State, NEW c \in Chan, NEW d \in ChanData,
         d.curMask = s.chan[c].curMask, d.evid = s.chan[c].evid
  PROVE  Preserves(s, [s EXCEPT !.chan[c] = d])
<1> DEFINE t == [s EXCEPT !.chan[c] = d]
<1>1. t \in State
  BY DEF State
<1>2. /\ \A e \in Chan : t.chan[e].curMask = s.chan[e].curMask /\ t.chan[e].evid = s.chan[e].evid
      /\ \A g \in Group : t.group[g].mask = s.group[g].mask
  BY DEF State
<1> HIDE DEF t
<1>3. Preserves(s, t)
  BY <1>1, <1>2, PreservesSameMasks
<1> QED BY <1>3 DEF t

(* Assignments to other fields of the groups.                              *)
LEMMA PreservesGroups ==
  ASSUME NEW s \in State, NEW f \in [Group -> GroupData],
         \A g \in Group : f[g].mask = s.group[g].mask
  PROVE  Preserves(s, [s EXCEPT !.group = f])
<1> DEFINE t == [s EXCEPT !.group = f]
<1>1. t \in State
  BY DEF State
<1>2. /\ \A e \in Chan : t.chan[e].curMask = s.chan[e].curMask /\ t.chan[e].evid = s.chan[e].evid
      /\ \A g \in Group : t.group[g].mask = s.group[g].mask
  BY DEF State
<1> HIDE DEF t
<1>3. Preserves(s, t)
  BY <1>1, <1>2, PreservesSameMasks
<1> QED BY <1>3 DEF t

(* Assignments to the setup.                                               *)
LEMMA PreservesSetup ==
  ASSUME NEW s \in State, NEW p \in Setup
  PROVE  Preserves(s, [s EXCEPT !.psetup = p])
<1> DEFINE t == [s EXCEPT !.psetup = p]
<1>1. t \in State
  BY DEF State
<1>2. /\ \A e \in Chan : t.chan[e].curMask = s.chan[e].curMask /\ t.chan[e].evid = s.chan[e].evid
      /\ \A g \in Group : t.group[g].mask = s.group[g].mask
  BY DEF State
<1> HIDE DEF t
<1>3. Preserves(s, t)
  BY <1>1, <1>2, PreservesSameMasks
<1> QED BY <1>3 DEF t

(* The assignment of unackSevr alone.                                      *)
LEMMA PreservesUnackSevr ==
  ASSUME NEW s \in State, NEW c \in Chan, NEW v \in Sevr
  PROVE  Preserves(s, [s EXCEPT !.chan[c].unackSevr = v])
<1> DEFINE d == [s.chan[c] EXCEPT !.unackSevr = v]
<1>1. d \in ChanData /\ d.curMask = s.chan[c].curMask /\ d.evid = s.chan[c].evid
  BY DEF State, ChanData
<1>2. Preserves(s, [s EXCEPT !.chan[c] = d])
  BY <1>1, PreservesChan
<1> QED BY <1>2

(* The assignment of the current status and severity.                      *)
LEMMA PreservesCurrent ==
  ASSUME NEW s \in State, NEW c \in Chan, NEW v \in Sevr, NEW stat \in Stat
  PROVE  Preserves(s, [s EXCEPT !.chan[c].curStat = stat, !.chan[c].curSevr = v])
<1> DEFINE d == [s.chan[c] EXCEPT !.curStat = stat, !.curSevr = v]
<1>1. d \in ChanData /\ d.curMask = s.chan[c].curMask /\ d.evid = s.chan[c].evid
  BY DEF State, ChanData
<1>2. Preserves(s, [s EXCEPT !.chan[c] = d])
  BY <1>1, PreservesChan
<1>3. [s EXCEPT !.chan[c].curStat = stat, !.chan[c].curSevr = v] = [s EXCEPT !.chan[c] = d]
  BY DEF State
<1> QED BY <1>2, <1>3

(* NO_ALARM and ERROR_STATE are severities.                                *)
LEMMA SevrBounds == NO_ALARM \in Sevr /\ ERROR_STATE \in Sevr
BY SevrAssumption DEF NO_ALARM, ERROR_STATE, Sevr

----------------------------------------------------------------------------
(* Counters.                                                               *)

(* A nonempty set of severities has a largest one: the CHOOSE of           *)
(* HighestFrom is the severity the loop of alHighestSeverity finds.        *)
LEMMA MaxExists ==
  ASSUME NEW T, T \subseteq AlarmSevr, T # {}
  PROVE  \E v \in T : \A w \in T : w <= v
<1> DEFINE S == {ALARM_NSEV - v : v \in T}
           R == OpToRel(<, Nat)
<1>1. S \subseteq Nat /\ S # {}
  <2>1. \A v \in AlarmSevr : ALARM_NSEV - v \in Nat
    BY SevrAssumption DEF AlarmSevr
  <2>2. PICK t \in T : TRUE
    OBVIOUS
  <2>3. ALARM_NSEV - t \in S
    OBVIOUS
  <2> QED BY <2>1, <2>3
<1>2. IsWellFoundedOn(R, Nat)
  BY NatLessThanWellFounded
<1>3. PICK x \in S : \A y \in S : <<y, x>> \notin R
  <2> HIDE DEF S, R
  <2> QED BY <1>1, <1>2, WFMin
<1>4. \A y \in S : x <= y
  <2>1. \A m, n \in Nat : m < n => <<m, n>> \in R
    BY DEF OpToRel
  <2>2. \A m, n \in Nat : ~ (m < n) => n <= m
    OBVIOUS
  <2> HIDE DEF R, S
  <2>3. ASSUME NEW y \in S PROVE x <= y
    <3>1. x \in Nat /\ y \in Nat
      BY <1>1
    <3>2. ~ (y < x)
      BY <1>3, <2>1, <3>1
    <3> QED BY <2>2, <3>1, <3>2
  <2> QED BY <2>3
<1>5. PICK v \in T : x = ALARM_NSEV - v
  OBVIOUS
<1>6. ASSUME NEW w \in T PROVE w <= v
  <2>1. x <= ALARM_NSEV - w
    BY <1>4
  <2>2. w \in Int /\ v \in Int /\ ALARM_NSEV \in Int
    BY SevrAssumption DEF AlarmSevr
  <2> QED BY <1>5, <2>1, <2>2
<1> QED BY <1>6

(* alHighestSeverity and alHighestBeepSeverity return a severity.          *)
LEMMA HighestFromType ==
  ASSUME NEW cnt, NEW low
  PROVE  HighestFrom(cnt, low) \in Sevr
<1> DEFINE Pos == {v \in AlarmSevr : v >= low /\ cnt[v] > 0}
<1>1. CASE Pos = {}
  BY <1>1, SevrAssumption DEF HighestFrom, NO_ALARM, Sevr
<1>2. CASE Pos # {}
  <2>1. \E v \in Pos : \A w \in Pos : w <= v
    BY <1>2, MaxExists
  <2>2. HighestFrom(cnt, low) \in Pos
    BY <1>2, <2>1 DEF HighestFrom
  <2> QED BY <2>2, SevrAssumption DEF AlarmSevr, Sevr
<1> QED BY <1>1, <1>2

(* Counters stay counters.                                                 *)
LEMMA ShiftType ==
  ASSUME NEW D, NEW cnt \in [D -> Int], NEW old, NEW new, NEW n \in Int
  PROVE  Shift(cnt, old, new, n) \in [D -> Int]
BY DEF Shift

(* A severity that does not pass the beep severities becomes NO_ALARM.     *)
LEMMA BeepFilterType ==
  ASSUME NEW s, NEW sev \in Sevr, NEW nodes
  PROVE  BeepFilter(s, sev, nodes) \in Sevr
BY SevrAssumption DEF BeepFilter, Sevr, NO_ALARM

(* alSetUnackSevGroup preserves.                                           *)
LEMMA alSetUnackSevGroupPreserves ==
  ASSUME NEW s \in State, NEW c \in Chan, NEW newSevr \in Sevr, NEW oldSevr \in Sevr
  PROVE  Preserves(s, alSetUnackSevGroup(s, c, newSevr, oldSevr))
<1> DEFINE gd(g) == s.group[g]
           cnt(g) == Shift(gd(g).unackSev, oldSevr, newSevr, 1)
           Up(g) == [gd(g) EXCEPT !.unackSev = cnt(g), !.unackSevr = alHighestSeverity(cnt(g))]
           F == [g \in Group |-> IF g \in Anc[c] THEN Up(g) ELSE s.group[g]]
<1>1. ASSUME NEW g \in Group PROVE Up(g) \in GroupData /\ Up(g).mask = s.group[g].mask
  <2>1. gd(g) \in GroupData
    BY DEF State
  <2>2. cnt(g) \in Counters
    BY <2>1, ShiftType DEF GroupData, Counters
  <2>3. alHighestSeverity(cnt(g)) \in Sevr
    BY HighestFromType DEF alHighestSeverity
  <2> QED BY <2>1, <2>2, <2>3 DEF GroupData
<1>2. \A g \in Group : F[g] \in GroupData /\ F[g].mask = s.group[g].mask
  BY <1>1 DEF State
<1> HIDE DEF Up
<1>3. F \in [Group -> GroupData]
  BY <1>2
<1>4. Preserves(s, [s EXCEPT !.group = F])
  BY <1>2, <1>3, PreservesGroups
<1> QED BY <1>4 DEF alSetUnackSevGroup, Up

(* UnackBeepSevUp preserves.                                               *)
LEMMA UnackBeepSevUpPreserves ==
  ASSUME NEW s \in State, NEW n, NEW newSevr \in Sevr, NEW oldSevr \in Sevr, NEW count \in Int
  PROVE  Preserves(s, UnackBeepSevUp(s, n, newSevr, oldSevr, count))
<1> DEFINE gd(g) == s.group[g]
           cnt(g) == Shift(gd(g).unackBeepSev, BeepFilter(s, oldSevr, Below(n, g)),
                           BeepFilter(s, newSevr, Below(n, g)), count)
           Up(g) == [gd(g) EXCEPT !.unackBeepSev = cnt(g),
                       !.unackBeepSevr = alHighestBeepSeverity(cnt(g), gd(g).beepSevr)]
           F == [g \in Group |-> IF g \in Anc[n] THEN Up(g) ELSE s.group[g]]
           t == [s EXCEPT !.group = F]
<1>1. ASSUME NEW g \in Group PROVE Up(g) \in GroupData /\ Up(g).mask = s.group[g].mask
  <2>1. gd(g) \in GroupData
    BY DEF State
  <2>2. cnt(g) \in Counters
    BY <2>1, ShiftType DEF GroupData, Counters
  <2>3. alHighestBeepSeverity(cnt(g), gd(g).beepSevr) \in Sevr
    BY HighestFromType DEF alHighestBeepSeverity
  <2> QED BY <2>1, <2>2, <2>3 DEF GroupData
<1> HIDE DEF Up
<1>2. \A g \in Group : F[g] \in GroupData /\ F[g].mask = s.group[g].mask
  BY <1>1 DEF State
<1>3. F \in [Group -> GroupData]
  BY <1>2
<1> HIDE DEF F
<1>4. Preserves(s, t)
  BY <1>2, <1>3, PreservesGroups
<1>5. BeepFilter(s, newSevr, Anc[n]) \in Sevr
  BY BeepFilterType
<1>6. Preserves(s, [s EXCEPT !.group = F,
                         !.psetup.newUnackBeepSevr = BeepFilter(s, newSevr, Anc[n])])
  <2> DEFINE p == [s.psetup EXCEPT !.newUnackBeepSevr = BeepFilter(s, newSevr, Anc[n])]
  <2>1. t \in State
    BY <1>4 DEF Preserves
  <2>2. p \in Setup
    BY <1>5 DEF State, Setup
  <2>3. Preserves(t, [t EXCEPT !.psetup = p])
    BY <2>1, <2>2, PreservesSetup
  <2>4. [t EXCEPT !.psetup = p]
        = [s EXCEPT !.group = F, !.psetup.newUnackBeepSevr = BeepFilter(s, newSevr, Anc[n])]
    BY DEF State
  <2> QED BY <1>4, <2>3, <2>4, PreservesTransitive
<1> QED BY <1>6 DEF UnackBeepSevUp, Up, F

(* alSetUnackSevChan preserves.                                            *)
LEMMA alSetUnackSevChanPreserves ==
  ASSUME NEW s \in State, NEW c \in Chan, NEW newSevr \in Sevr
  PROVE  Preserves(s, alSetUnackSevChan(s, c, newSevr))
<1> DEFINE oldSevr == s.chan[c].unackSevr
           counted == alSetUnackSevGroup(s, c, newSevr, oldSevr)
           beep == UnackBeepSevUp(counted, c, BeepFilter(s, newSevr, {c}),
                                  BeepFilter(s, oldSevr, {c}), 1)
<1>1. oldSevr \in Sevr
  BY DEF State, ChanData
<1>2. Preserves(s, counted)
  BY <1>1, alSetUnackSevGroupPreserves
<1>3. BeepFilter(s, newSevr, {c}) \in Sevr /\ BeepFilter(s, oldSevr, {c}) \in Sevr
  BY <1>1, BeepFilterType
<1> HIDE DEF oldSevr, counted
<1> counted \in State
  BY <1>2 DEF Preserves
<1>4. Preserves(counted, beep)
  BY <1>3, UnackBeepSevUpPreserves
<1> HIDE DEF beep
<1>5. Preserves(s, beep)
  BY <1>2, <1>4, PreservesTransitive
<1>6. Preserves(beep, [beep EXCEPT !.chan[c].unackSevr = newSevr])
  BY <1>5, PreservesUnackSevr DEF Preserves
<1>7. Preserves(s, [beep EXCEPT !.chan[c].unackSevr = newSevr])
  BY <1>5, <1>6, PreservesTransitive
<1>8. Preserves(s, s)
  BY PreservesReflexive
<1> QED BY <1>7, <1>8 DEF alSetUnackSevChan, beep, counted, oldSevr

(* Acknowledging leaves the mask of the channel alone.                     *)
LEMMA alSetUnackSevChanMask ==
  ASSUME NEW s \in State, NEW c \in Chan, NEW newSevr \in Sevr
  PROVE  alSetUnackSevChan(s, c, newSevr).chan[c].curMask = s.chan[c].curMask
<1> DEFINE oldSevr == s.chan[c].unackSevr
           counted == alSetUnackSevGroup(s, c, newSevr, oldSevr)
           beep == UnackBeepSevUp(counted, c, BeepFilter(s, newSevr, {c}),
                                  BeepFilter(s, oldSevr, {c}), 1)
<1>1. counted.chan = s.chan
  BY DEF alSetUnackSevGroup, State
<1>2. counted \in State
  BY alSetUnackSevGroupPreserves DEF Preserves, State, ChanData
<1> HIDE DEF counted
<1>3. beep.chan = s.chan
  BY <1>1, <1>2 DEF UnackBeepSevUp, State
<1>4. beep \in State
  <2>1. oldSevr \in Sevr
    BY DEF State, ChanData
  <2>2. BeepFilter(s, newSevr, {c}) \in Sevr /\ BeepFilter(s, oldSevr, {c}) \in Sevr
    BY <2>1, BeepFilterType
  <2>3. Preserves(counted, beep)
    BY <1>2, <2>2, UnackBeepSevUpPreserves
  <2> QED BY <2>3 DEF Preserves
<1> HIDE DEF beep
<1>5. [beep EXCEPT !.chan[c].unackSevr = newSevr].chan[c].curMask = s.chan[c].curMask
  BY <1>3, <1>4 DEF State, ChanData
<1> QED BY <1>5 DEF alSetUnackSevChan, beep, counted

(* SilenceReset preserves.                                                 *)
LEMMA SilenceResetPreserves ==
  ASSUME NEW s \in State
  PROVE  Preserves(s, SilenceReset(s)) /\ Preserves(s, silenceCurrentReset(s))
<1> DEFINE p == [s.psetup EXCEPT !.silenceCurrent = FALSE]
<1>1. p \in Setup
  BY DEF State, Setup
<1>2. Preserves(s, [s EXCEPT !.psetup = p])
  BY <1>1, PreservesSetup
<1>3. silenceCurrentReset(s) = [s EXCEPT !.psetup = p]
  BY DEF silenceCurrentReset
<1> QED BY <1>2, <1>3, PreservesReflexive DEF SilenceReset

(* ackChan preserves.                                                      *)
LEMMA ackChanPreserves ==
  ASSUME NEW s \in State, NEW c \in Chan
  PROVE  Preserves(s, ackChan(s, c))
<1>1. NO_ALARM \in Sevr
  BY SevrAssumption DEF NO_ALARM, Sevr
<1> QED BY <1>1, alSetUnackSevChanPreserves, PreservesReflexive DEF ackChan

(* CurSevUp preserves.                                                     *)
LEMMA CurSevUpPreserves ==
  ASSUME NEW s \in State, NEW c \in Chan, NEW newSevr \in Sevr, NEW oldSevr \in Sevr,
         NEW put \in BOOLEAN
  PROVE  Preserves(s, CurSevUp(s, c, newSevr, oldSevr, put))
<1> DEFINE gd(g) == s.group[g]
           cnt(g) == Shift(gd(g).curSev, oldSevr, newSevr, 1)
           top(g) == alHighestSeverity(cnt(g))
           pv(g) == IF put /\ top(g) # gd(g).curSevr
                    THEN alCaPutSevrValue(gd(g).sevrPV, top(g)) ELSE gd(g).sevrPV
           Up(g) == [gd(g) EXCEPT !.curSev = cnt(g), !.curSevr = top(g), !.sevrPV = pv(g)]
           F == [g \in Group |-> IF g \in Anc[c] THEN Up(g) ELSE s.group[g]]
<1>1. ASSUME NEW g \in Group PROVE Up(g) \in GroupData /\ Up(g).mask = s.group[g].mask
  <2>1. gd(g) \in GroupData
    BY DEF State
  <2>2. cnt(g) \in [Sevr -> Int]
    BY <2>1, ShiftType DEF GroupData
  <2>3. top(g) \in Sevr
    BY HighestFromType DEF alHighestSeverity
  <2>4. pv(g) \in Int
    BY <2>1, <2>3 DEF alCaPutSevrValue, GroupData, Sevr
  <2> HIDE DEF pv, top, cnt
  <2> QED BY <2>1, <2>2, <2>3, <2>4 DEF GroupData
<1> HIDE DEF Up
<1>2. \A g \in Group : F[g] \in GroupData /\ F[g].mask = s.group[g].mask
  BY <1>1 DEF State
<1>3. F \in [Group -> GroupData]
  BY <1>2
<1> HIDE DEF F
<1>4. Preserves(s, [s EXCEPT !.group = F])
  BY <1>2, <1>3, PreservesGroups
<1> QED BY <1>4 DEF CurSevUp, Up, F

(* alSaveAlarmEvent preserves.                                             *)
LEMMA alSaveAlarmEventPreserves ==
  ASSUME NEW s \in State, NEW c \in Chan
  PROVE  Preserves(s, alSaveAlarmEvent(s, c))
<1> DEFINE d == s.chan[c]
           e == [stat |-> d.curStat, sevr |-> d.curSevr, acks |-> d.unackSevr,
                 ackt |-> IF On(s, c, "AckT") THEN 0 ELSE 1]
           f == IF GlobalFlag THEN e ELSE [e EXCEPT !.acks = 0, !.ackt = 0]
           d2 == [d EXCEPT !.caAlarmEvent = f]
<1>1. d \in ChanData
  BY DEF State
<1>2. e \in AlarmEvent
  BY <1>1 DEF ChanData, AlarmEvent
<1>3. f \in AlarmEvent
  BY <1>2, SevrBounds DEF AlarmEvent, NO_ALARM
<1> HIDE DEF f
<1>4. d2 \in ChanData /\ d2.curMask = d.curMask /\ d2.evid = d.evid
  BY <1>1, <1>3 DEF ChanData
<1>5. Preserves(s, [s EXCEPT !.chan[c] = d2])
  BY <1>4, PreservesChan
<1> QED BY <1>5 DEF alSaveAlarmEvent, f

----------------------------------------------------------------------------
(* Masks.                                                                  *)

(* What SetMaskBit does to the masks, for a bit that really changes: the   *)
(* counters stay exact, since the guard "> 0" never stops a decrement.     *)
LEMMA SetMaskBitEffect ==
  ASSUME NEW s \in State, NEW c \in Chan, NEW b \in MaskBit, NEW on \in BOOLEAN,
         on # On(s, c, b), NEW t, t = SetMaskBit(s, c, b, on)
  PROVE  BitChanged(s, t, c, b, on)
<1> DEFINE gd(g) == s.group[g]
           Up(g) == IF on THEN [gd(g) EXCEPT !.mask[b] = @ + 1]
                    ELSE IF gd(g).mask[b] > 0 THEN [gd(g) EXCEPT !.mask[b] = @ - 1]
                    ELSE gd(g)
           F == [g \in Group |-> IF g \in Anc[c] THEN Up(g) ELSE s.group[g]]
           m == IF on THEN s.chan[c].curMask \cup {b} ELSE s.chan[c].curMask \ {b}
           C == [s.chan EXCEPT ![c].curMask = m]
<1>1. t = [s EXCEPT !.group = F, !.chan = C]
  BY DEF SetMaskBit, State
<1>2. ASSUME NEW g \in Group
      PROVE  /\ Up(g) \in GroupData
             /\ \A a \in MaskBit \ {b} : Up(g).mask[a] = gd(g).mask[a]
             /\ gd(g).mask[b] \in Int
             /\ Up(g).mask[b] = IF on THEN gd(g).mask[b] + 1
                                ELSE IF gd(g).mask[b] > 0 THEN gd(g).mask[b] - 1
                                ELSE gd(g).mask[b]
  <2>1. gd(g) \in GroupData
    BY DEF State
  <2>2. gd(g).mask \in [MaskBit -> Int]
    BY <2>1 DEF GroupData
  <2>3. \A k \in Int : LET n == [gd(g).mask EXCEPT ![b] = k]
                       IN  /\ [gd(g) EXCEPT !.mask = n] \in GroupData
                           /\ [gd(g) EXCEPT !.mask = n].mask = n
                           /\ n[b] = k /\ \A a \in MaskBit \ {b} : n[a] = gd(g).mask[a]
    BY <2>1, <2>2 DEF GroupData
  <2>4. gd(g).mask[b] \in Int
    BY <2>2
  <2>5. CASE on
    <3>1. gd(g).mask[b] + 1 \in Int
      BY <2>4
    <3>2. Up(g) = [gd(g) EXCEPT !.mask = [gd(g).mask EXCEPT ![b] = gd(g).mask[b] + 1]]
      BY <2>5
    <3> HIDE DEF gd, Up
    <3> QED BY <2>3, <2>4, <2>5, <3>1, <3>2
  <2>6. CASE ~on /\ gd(g).mask[b] > 0
    <3>1. gd(g).mask[b] - 1 \in Int
      BY <2>4
    <3>2. Up(g) = [gd(g) EXCEPT !.mask = [gd(g).mask EXCEPT ![b] = gd(g).mask[b] - 1]]
      BY <2>6
    <3> HIDE DEF gd, Up
    <3> QED BY <2>3, <2>4, <2>6, <3>1, <3>2
  <2>7. CASE ~on /\ ~(gd(g).mask[b] > 0)
    <3>1. Up(g) = gd(g)
      BY <2>7
    <3> HIDE DEF gd, Up
    <3> QED BY <2>1, <2>4, <2>7, <3>1
  <2> QED BY <2>5, <2>6, <2>7
<1>3. C \in [Chan -> ChanData]
  <2>1. m \in SUBSET MaskBit
    BY DEF State, ChanData
  <2> HIDE DEF m
  <2> QED BY <2>1 DEF State, ChanData
<1>4. /\ \A e \in Chan : C[e].evid = s.chan[e].evid
      /\ \A e \in Chan \ {c} : C[e].curMask = s.chan[e].curMask
      /\ C[c].curMask = m
  BY DEF State, ChanData
<1> HIDE DEF Up, C
<1>5. F \in [Group -> GroupData]
  BY <1>2 DEF State
<1>6. t \in State /\ t.group = F /\ t.chan = C
  BY <1>1, <1>3, <1>5 DEF State
<1>7. ASSUME MaskExact(s), NEW g \in Group, NEW a \in MaskBit
      PROVE  F[g].mask[a] = Cardinality({e \in ChannelsBelow(g) : a \in C[e].curMask})
  <2> DEFINE Old == {e \in ChannelsBelow(g) : a \in s.chan[e].curMask}
             New == {e \in ChannelsBelow(g) : a \in C[e].curMask}
  <2>1. gd(g).mask[a] = Cardinality(Old)
    BY <1>7 DEF MaskExact
  <2>2. IsFiniteSet(Old)
    BY NodeAssumption, FS_Subset DEF ChannelsBelow
  <2>3. CASE g \notin Anc[c]
    <3>1. New = Old
      BY <1>4, <2>3 DEF ChannelsBelow
    <3> QED BY <2>1, <2>3, <3>1
  <2>4. CASE g \in Anc[c] /\ a # b
    <3>1. New = Old
      BY <1>4, <2>4 DEF ChannelsBelow
    <3>2. F[g].mask[a] = gd(g).mask[a]
      BY <1>2, <2>4
    <3> QED BY <2>1, <3>1, <3>2
  <2>5. CASE g \in Anc[c] /\ a = b /\ on
    <3>1. New = Old \cup {c} /\ c \notin Old
      BY <1>4, <2>5 DEF ChannelsBelow, On
    <3>2. Cardinality(New) = Cardinality(Old) + 1
      BY <2>2, <3>1, FS_AddElement
    <3>3. F[g].mask[a] = gd(g).mask[a] + 1
      BY <1>2, <2>5
    <3> QED BY <2>1, <3>2, <3>3
  <2>6. CASE g \in Anc[c] /\ a = b /\ ~on
    <3>1. New = Old \ {c} /\ c \in Old
      BY <1>4, <2>6 DEF ChannelsBelow, On
    <3>2. Cardinality(Old \ {c}) = IF c \in Old THEN Cardinality(Old) - 1 ELSE Cardinality(Old)
      <4> HIDE DEF Old
      <4> QED BY <2>2, FS_RemoveElement, Zenon
    <3>3. Cardinality(New) = Cardinality(Old) - 1
      <4> HIDE DEF New, Old
      <4> QED BY <3>1, <3>2
    <3>4. Cardinality(Old) \in Nat /\ Cardinality(Old) # 0
      BY <2>2, <3>1, FS_CardinalityType, FS_EmptySet
    <3>5. F[g].mask[a] = gd(g).mask[a] - 1
      BY <1>2, <2>1, <2>6, <3>4
    <3> QED BY <2>1, <3>3, <3>5
  <2> QED BY <2>3, <2>4, <2>5, <2>6
<1>8. MaskExact(s) => MaskExact(t)
  BY <1>6, <1>7 DEF MaskExact
<1> QED BY <1>4, <1>6, <1>8 DEF BitChanged

(* A change of any bit but Cancel preserves.                               *)
LEMMA SetMaskBitPreserves ==
  ASSUME NEW s \in State, NEW c \in Chan, NEW b \in MaskBit \ {"Cancel"},
         NEW on \in BOOLEAN, on # On(s, c, b)
  PROVE  Preserves(s, SetMaskBit(s, c, b, on))
<1> SUFFICES ASSUME NEW t, t = SetMaskBit(s, c, b, on) PROVE Preserves(s, t)
  OBVIOUS
<1>1. b \in MaskBit /\ b # "Cancel"
  OBVIOUS
<1>2. BitChanged(s, t, c, b, on)
  BY <1>1, SetMaskBitEffect
<1> QED BY <1>1, <1>2 DEF BitChanged, Preserves

(* alSetAckTChan preserves.                                                *)
LEMMA alSetAckTChanPreserves ==
  ASSUME NEW s \in State, NEW c \in Chan, NEW newAckT \in BOOLEAN
  PROVE  Preserves(s, alSetAckTChan(s, c, newAckT))
<1> DEFINE d == s.chan[c]
           lower == /\ ~newAckT
                    /\ d.unackSevr > d.curSevr
                    /\ ~GlobalFlag \/ d.curMask \cap {"Disable", "Ack"} = {}
           s1 == IF lower THEN alSetUnackSevChan(s, c, d.curSevr) ELSE s
<1>1. CASE newAckT = On(s, c, "AckT")
  BY <1>1, PreservesReflexive DEF alSetAckTChan
<1>2. CASE newAckT # On(s, c, "AckT")
  <2>1. d.curSevr \in Sevr
    BY DEF State, ChanData
  <2>2. Preserves(s, alSetUnackSevChan(s, c, d.curSevr)) /\ Preserves(s, s)
    BY <2>1, alSetUnackSevChanPreserves, PreservesReflexive
  <2>3. Preserves(s, s1) /\ On(s1, c, "AckT") = On(s, c, "AckT")
    <3>1. On(alSetUnackSevChan(s, c, d.curSevr), c, "AckT") = On(s, c, "AckT")
      BY <2>1, alSetUnackSevChanMask DEF On
    <3> QED BY <2>2, <3>1
  <2> HIDE DEF s1
  <2> s1 \in State
    BY <2>3 DEF Preserves
  <2>4. Preserves(s1, SetMaskBit(s1, c, "AckT", newAckT))
    BY <1>2, <2>3, SetMaskBitPreserves DEF MaskBit
  <2>5. alSetAckTChan(s, c, newAckT) = SetMaskBit(s1, c, "AckT", newAckT)
    BY <1>2 DEF alSetAckTChan, s1
  <2> QED BY <2>3, <2>4, <2>5, PreservesTransitive
<1> QED BY <1>1, <1>2

(* The take-over of the IOC's acknowledgement preserves.                   *)
LEMMA AdoptGlobalPreserves ==
  ASSUME NEW s \in State, NEW c \in Chan, NEW acks \in Sevr, NEW ackt \in BOOLEAN
  PROVE  Preserves(s, AdoptGlobal(s, c, acks, ackt))
<1> DEFINE s1 == IF s.chan[c].unackSevr = acks THEN s
                 ELSE IF s.chan[c].curMask \cap {"Disable", "Ack"} = {}
                 THEN alSetUnackSevChan(s, c, acks)
                 ELSE [s EXCEPT !.chan[c].unackSevr = acks]
<1>1. Preserves(s, s1)
  BY PreservesReflexive, alSetUnackSevChanPreserves, PreservesUnackSevr
<1> HIDE DEF s1
<1> s1 \in State
  BY <1>1 DEF Preserves
<1>2. Preserves(s1, alSetAckTChan(s1, c, ackt))
  BY alSetAckTChanPreserves
<1>3. Preserves(s, alSetAckTChan(s1, c, ackt))
  BY <1>1, <1>2, PreservesTransitive
<1> QED BY <1>3 DEF AdoptGlobal, s1

(* Unacknowledge preserves.                                                *)
LEMMA UnacknowledgePreserves ==
  ASSUME NEW s \in State, NEW c \in Chan, NEW sev \in Sevr
  PROVE  Preserves(s, Unacknowledge(s, c, sev))
<1> DEFINE latch == ~GlobalFlag /\ (sev >= s.chan[c].unackSevr \/ On(s, c, "AckT"))
           s1 == IF latch THEN alSetUnackSevChan(s, c, sev) ELSE s
<1>1. Preserves(s, s1)
  BY alSetUnackSevChanPreserves, PreservesReflexive
<1> HIDE DEF s1
<1> s1 \in State
  BY <1>1 DEF Preserves
<1>2. Preserves(s, SilenceReset(s1))
  BY <1>1, SilenceResetPreserves, PreservesTransitive
<1> QED BY <1>2 DEF Unacknowledge, s1

(* ProcessChange preserves.                                                *)
LEMMA ProcessChangePreserves ==
  ASSUME NEW s \in State, NEW c \in Chan, NEW stat \in Stat, NEW sev \in Sevr
  PROVE  Preserves(s, ProcessChange(s, c, stat, sev))
<1> DEFINE d == s.chan[c]
           prev == d.curSevr
           pv == IF sev # prev THEN alCaPutSevrValue(d.sevrPV, sev) ELSE d.sevrPV
           d1 == [d EXCEPT !.curStat = stat, !.curSevr = sev, !.sevrPV = pv]
           s1 == [s EXCEPT !.chan[c] = d1]
           s2 == CurSevUp(s1, c, sev, prev, TRUE)
<1>1. d \in ChanData
  BY DEF State
<1>2. pv \in Int
  BY <1>1 DEF ChanData, alCaPutSevrValue, Sevr
<1> HIDE DEF pv
<1>3. d1 \in ChanData /\ d1.curMask = d.curMask /\ d1.evid = d.evid
  BY <1>1, <1>2 DEF ChanData
<1>4. Preserves(s, s1)
  BY <1>3, PreservesChan
<1>5. prev \in Sevr
  BY <1>1 DEF ChanData
<1>6. s1 = [s EXCEPT !.chan[c].curStat = stat, !.chan[c].curSevr = sev,
                     !.chan[c].sevrPV = IF sev # prev THEN alCaPutSevrValue(@, sev) ELSE @]
  BY DEF State, pv
<1> HIDE DEF s1
<1> s1 \in State
  BY <1>4 DEF Preserves
<1>7. Preserves(s, s2)
  BY <1>4, <1>5, CurSevUpPreserves, PreservesTransitive
<1> HIDE DEF s2
<1> s2 \in State
  BY <1>7 DEF Preserves
<1>8. Preserves(s, Unacknowledge(s2, c, sev))
  BY <1>7, UnacknowledgePreserves, PreservesTransitive
<1>9. ProcessChange(s, c, stat, sev) = IF On(s, c, "Ack") THEN s2 ELSE Unacknowledge(s2, c, sev)
  BY <1>6 DEF ProcessChange, s2
<1> QED BY <1>7, <1>8, <1>9

----------------------------------------------------------------------------
(* Alarm events.                                                           *)

(* ApplyAlarm preserves.                                                   *)
LEMMA ApplyAlarmPreserves ==
  ASSUME NEW s \in State, NEW c \in Chan, NEW stat \in Stat, NEW sev \in Sevr
  PROVE  Preserves(s, ApplyAlarm(s, c, stat, sev))
<1> DEFINE s1 == [s EXCEPT !.chan[c].curStat = stat, !.chan[c].curSevr = sev]
<1>1. Preserves(s, s1)
  BY PreservesCurrent
<1> HIDE DEF s1
<1>2. ApplyAlarm(s, c, stat, sev) =
        IF s.chan[c].curStat = stat /\ s.chan[c].curSevr = sev THEN s
        ELSE IF On(s, c, "Disable") THEN s1
        ELSE ProcessChange(s, c, stat, sev)
  BY DEF ApplyAlarm, s1
<1> QED BY <1>1, <1>2, ProcessChangePreserves, PreservesReflexive

(* alNewAlarmProcess preserves.                                            *)
LEMMA alNewAlarmProcessPreserves ==
  ASSUME NEW s \in State, NEW c \in Chan, NEW stat \in Stat, NEW sev \in Sevr,
         NEW acks \in Sevr, NEW ackt \in BOOLEAN
  PROVE  Preserves(s, alNewAlarmProcess(s, c, stat, sev, acks, ackt))
<1> DEFINE s1 == IF stat = "NOT_CONNECTED" /\ sev = ERROR_STATE
                 THEN alSaveAlarmEvent(s, c) ELSE s
           s2 == [s1 EXCEPT !.psetup.newUnackBeepSevr = NO_ALARM]
           s3 == IF GlobalFlag THEN AdoptGlobal(s2, c, acks, ackt) ELSE s2
<1>1. Preserves(s, s1)
  BY alSaveAlarmEventPreserves, PreservesReflexive
<1> HIDE DEF s1
<1> s1 \in State
  BY <1>1 DEF Preserves
<1>2. Preserves(s, s2)
  <2> DEFINE p == [s1.psetup EXCEPT !.newUnackBeepSevr = NO_ALARM]
  <2>1. p \in Setup
    BY SevrBounds DEF State, Setup
  <2>2. Preserves(s1, [s1 EXCEPT !.psetup = p])
    BY <2>1, PreservesSetup
  <2> QED BY <1>1, <2>2, PreservesTransitive
<1> HIDE DEF s2
<1> s2 \in State
  BY <1>2 DEF Preserves
<1>3. Preserves(s, s3)
  BY <1>2, AdoptGlobalPreserves, PreservesTransitive
<1> HIDE DEF s3
<1> s3 \in State
  BY <1>3 DEF Preserves
<1>4. Preserves(s, ApplyAlarm(s3, c, stat, sev))
  BY <1>3, ApplyAlarmPreserves, PreservesTransitive
<1> QED BY <1>4 DEF alNewAlarmProcess, s1, s2, s3

(* alNewEvent preserves.                                                   *)
LEMMA alNewEventPreserves ==
  ASSUME NEW s \in State, NEW c \in Chan, NEW stat \in Stat, NEW sevr \in Sevr,
         NEW acks \in Sevr, NEW acktCA \in Int
  PROVE  Preserves(s, alNewEvent(s, c, stat, sevr, acks, acktCA))
<1> DEFINE ackt == IF acktCA = -1 THEN On(s, c, "AckT") ELSE acktCA = 0
<1>1. ackt \in BOOLEAN
  <2>1. On(s, c, "AckT") \in BOOLEAN
    BY DEF On
  <2>2. CASE acktCA = -1
    BY <2>1, <2>2
  <2>3. CASE acktCA # -1
    BY <2>3
  <2> QED BY <2>2, <2>3
<1> HIDE DEF ackt
<1>2. Preserves(s, alNewAlarmProcess(s, c, stat, sevr, acks, ackt))
  BY <1>1, alNewAlarmProcessPreserves
<1> QED BY <1>2 DEF alNewEvent, ackt

(* alConnectEvent preserves.                                               *)
LEMMA alConnectEventPreserves ==
  ASSUME NEW s \in State, NEW c \in Chan
  PROVE  Preserves(s, alConnectEvent(s, c))
<1> DEFINE e == s.chan[c].caAlarmEvent
<1>1. e.stat \in Stat /\ e.sevr \in Sevr /\ e.acks \in Sevr /\ e.ackt \in Int
  BY DEF State, ChanData, AlarmEvent
<1> HIDE DEF e
<1>2. Preserves(s, alNewEvent(s, c, e.stat, e.sevr, e.acks, e.ackt))
  BY <1>1, alNewEventPreserves
<1> QED BY <1>2, PreservesReflexive DEF alConnectEvent, e

----------------------------------------------------------------------------
(* Changes of masks.                                                       *)

(* The severity of a channel leaves the counters.                          *)
LEMMA UncountPreserves ==
  ASSUME NEW s \in State, NEW c \in Chan
  PROVE  Preserves(s, Uncount(s, c))
<1>1. s.chan[c].curSevr \in Sevr
  BY DEF State, ChanData
<1> QED BY <1>1, SevrBounds, CurSevUpPreserves DEF Uncount

(* Processing the current alarm again preserves.                           *)
LEMMA ReprocessPreserves ==
  ASSUME NEW s \in State, NEW c \in Chan, NEW unackSevr \in Sevr
  PROVE  Preserves(s, Reprocess(s, c, unackSevr))
<1> DEFINE d == s.chan[c]
           d1 == [d EXCEPT !.curSevr = NO_ALARM, !.unackSevr = unackSevr]
           s1 == [s EXCEPT !.chan[c] = d1]
<1>1. d \in ChanData
  BY DEF State
<1>2. d1 \in ChanData /\ d1.curMask = d.curMask /\ d1.evid = d.evid
  BY <1>1, SevrBounds DEF ChanData
<1>3. Preserves(s, s1)
  BY <1>2, PreservesChan
<1>4. s1 = [s EXCEPT !.chan[c].curSevr = NO_ALARM, !.chan[c].unackSevr = unackSevr]
  BY DEF State
<1> HIDE DEF s1
<1> s1 \in State
  BY <1>3 DEF Preserves
<1>5. /\ d.curStat \in Stat /\ d.curSevr \in Sevr /\ d.unackSevr \in Sevr
      /\ On(s, c, "AckT") \in BOOLEAN
  BY <1>1 DEF ChanData, On
<1>6. Preserves(s1, alNewAlarmProcess(s1, c, d.curStat, d.curSevr, d.unackSevr, On(s, c, "AckT")))
  BY <1>5, alNewAlarmProcessPreserves
<1> QED BY <1>3, <1>4, <1>6, PreservesTransitive DEF Reprocess

(* The unacknowledged severity of a channel leaves the counters.           *)
LEMMA UncountUnackPreserves ==
  ASSUME NEW s \in State, NEW c \in Chan
  PROVE  Preserves(s, UncountUnack(s, c))
<1> DEFINE t == alSetUnackSevChan(s, c, NO_ALARM)
<1>1. Preserves(s, t)
  BY SevrBounds, alSetUnackSevChanPreserves
<1>2. s.chan[c].unackSevr \in Sevr
  BY DEF State, ChanData
<1> HIDE DEF t
<1>3. Preserves(t, [t EXCEPT !.chan[c].unackSevr = s.chan[c].unackSevr])
  BY <1>1, <1>2, PreservesUnackSevr DEF Preserves
<1> QED BY <1>1, <1>3, PreservesTransitive DEF UncountUnack, t

(* The automatic acknowledgement of a transient alarm preserves.           *)
LEMMA AutoAckPreserves ==
  ASSUME NEW s \in State, NEW c \in Chan
  PROVE  Preserves(s, AutoAck(s, c))
<1> DEFINE t == ackChan(s, c)
<1>1. Preserves(s, t)
  BY ackChanPreserves
<1> HIDE DEF t
<1>2. Preserves(t, [t EXCEPT !.chan[c].unackSevr = NO_ALARM])
  BY <1>1, SevrBounds, PreservesUnackSevr DEF Preserves
<1> QED BY <1>1, <1>2, PreservesTransitive, PreservesReflexive DEF AutoAck, t

(* The assignment to the subscription of one channel.                      *)
LEMMA SetEvid ==
  ASSUME NEW s \in State, NEW c \in Chan, NEW v \in BOOLEAN
  PROVE  EvidSet(s, [s EXCEPT !.chan[c].evid = v], c, v)
<1> DEFINE d == [s.chan[c] EXCEPT !.evid = v]
           C == [s.chan EXCEPT ![c] = d]
           t == [s EXCEPT !.chan = C]
<1>1. s.chan \in [Chan -> ChanData]
  BY DEF State
<1>2. d \in ChanData /\ d.curMask = s.chan[c].curMask /\ d.evid = v
  BY <1>1 DEF ChanData
<1> HIDE DEF d
<1>3. /\ C \in [Chan -> ChanData]
      /\ \A e \in Chan : /\ C[e].curMask = s.chan[e].curMask
                         /\ C[e].evid = IF e = c THEN v ELSE s.chan[e].evid
  BY <1>1, <1>2
<1> HIDE DEF C
<1>4. t \in State /\ t.chan = C /\ t.group = s.group
  BY <1>3 DEF State
<1>5. [s EXCEPT !.chan[c].evid = v] = t
  BY DEF C, d
<1> HIDE DEF t
<1>6. ASSUME MaskExact(s), NEW g \in Group, NEW b \in MaskBit
      PROVE  t.group[g].mask[b] = Cardinality({e \in ChannelsBelow(g) : b \in t.chan[e].curMask})
  <2>1. {e \in ChannelsBelow(g) : b \in t.chan[e].curMask}
        = {e \in ChannelsBelow(g) : b \in s.chan[e].curMask}
    BY <1>3, <1>4 DEF ChannelsBelow
  <2> QED BY <1>4, <1>6, <2>1 DEF MaskExact
<1>7. MaskExact(s) => MaskExact(t)
  BY <1>6 DEF MaskExact
<1> QED BY <1>3, <1>4, <1>5, <1>7 DEF EvidSet

(* Cancelling clears the subscription on every path through the code.      *)
LEMMA CancelOnEffect ==
  ASSUME NEW s \in State, NEW c \in Chan
  PROVE  EvidSet(s, CancelOn(s, c), c, FALSE)
<1> DEFINE s1 == [s EXCEPT !.chan[c].evid = FALSE]
           s2 == alSetUnackSevChan(s1, c, NO_ALARM)
           u  == Uncount(s2, c)
           s3 == [u EXCEPT !.chan[c].curStat = "NO_ALARM", !.chan[c].curSevr = NO_ALARM]
<1>1. EvidSet(s, s1, c, FALSE)
  BY SetEvid
<1> HIDE DEF s1
<1> s1 \in State
  BY <1>1 DEF EvidSet
<1>2. Preserves(s1, s2)
  BY SevrBounds, alSetUnackSevChanPreserves
<1> HIDE DEF s2
<1> s2 \in State
  BY <1>2 DEF Preserves
<1>3. Preserves(s1, u)
  BY <1>2, UncountPreserves, PreservesTransitive
<1> HIDE DEF u
<1> u \in State
  BY <1>3 DEF Preserves
<1>4. "NO_ALARM" \in Stat
  BY DEF Stat
<1>5. Preserves(s1, s3)
  BY <1>3, <1>4, SevrBounds, PreservesCurrent, PreservesTransitive
<1> HIDE DEF s3
<1>6. Preserves(s1, s1)
  BY PreservesReflexive
<1>7. Preserves(s1, CancelOn(s, c))
  BY <1>2, <1>5, <1>6 DEF CancelOn, s1, s2, s3, u
<1> HIDE DEF s1
<1> QED BY <1>1, <1>7 DEF EvidSet, Preserves

(* Taking Cancel off subscribes on every path through the code.            *)
LEMMA CancelOffEffect ==
  ASSUME NEW s \in State, NEW c \in Chan
  PROVE  EvidSet(s, CancelOff(s, c), c, TRUE)
<1> DEFINE d == s.chan[c]
           again == ~On(s, c, "Disable") /\ d.curSevr > NO_ALARM
           s1 == IF again THEN Reprocess(s, c, d.unackSevr) ELSE s
           s2 == [s1 EXCEPT !.chan[c].evid = TRUE]
<1>1. d.unackSevr \in Sevr /\ d.evid \in BOOLEAN
  BY DEF State, ChanData
<1>2. Preserves(s, s1)
  BY <1>1, ReprocessPreserves, PreservesReflexive
<1> HIDE DEF s1
<1> s1 \in State
  BY <1>2 DEF Preserves
<1>3. EvidSet(s1, s2, c, TRUE)
  BY SetEvid
<1> HIDE DEF s2
<1>4. EvidSet(s, s2, c, TRUE)
  BY <1>2, <1>3 DEF EvidSet, Preserves
<1>5. d.evid => EvidSet(s, s, c, TRUE)
  BY <1>1 DEF EvidSet
<1>6. CancelOff(s, c) = IF d.evid THEN s ELSE s2
  BY DEF CancelOff, s1, s2
<1> QED BY <1>4, <1>5, <1>6

(* What preserves also keeps, and what keeps can follow one another.       *)
LEMMA KeepsCombines ==
  ASSUME NEW s, NEW t, NEW u
  PROVE  /\ Preserves(s, t) => Keeps(s, t)
         /\ Keeps(s, t) /\ Keeps(t, u) => Keeps(s, u)
BY DEF Keeps, Preserves, EvidExact

(* The Cancel bit and the subscription change together.                    *)
LEMMA ChangeCancelKeeps ==
  ASSUME NEW s \in State, NEW c \in Chan, NEW mask
  PROVE  Keeps(s, ChangeCancel(s, c, mask))
<1> DEFINE new == "Cancel" \in mask
<1>1. CASE new = On(s, c, "Cancel")
  BY <1>1 DEF ChangeCancel, Keeps
<1>2. CASE new # On(s, c, "Cancel")
  <2> SUFFICES ASSUME NEW s1, s1 = SetMaskBit(s, c, "Cancel", new),
                      NEW t, t = IF new THEN CancelOn(s1, c) ELSE CancelOff(s1, c)
               PROVE  Keeps(s, t)
    BY <1>2 DEF ChangeCancel
  <2>1. new \in BOOLEAN /\ "Cancel" \in MaskBit
    BY DEF MaskBit
  <2>2. BitChanged(s, s1, c, "Cancel", new)
    BY <1>2, <2>1, SetMaskBitEffect
  <2> s1 \in State
    BY <2>2 DEF BitChanged
  <2>3. EvidSet(s1, t, c, ~new)
    <3>1. CASE new
      BY <3>1, CancelOnEffect
    <3>2. CASE ~new
      BY <3>2, CancelOffEffect
    <3> QED BY <3>1, <3>2
  <2> QED BY <2>2, <2>3 DEF BitChanged, EvidSet, Keeps, EvidExact
<1> QED BY <1>1, <1>2

(* A channel is disabled: it preserves.                                    *)
LEMMA DisableOnPreserves ==
  ASSUME NEW s \in State, NEW c \in Chan
  PROVE  Preserves(s, DisableOn(s, c))
<1> DEFINE s1 == UncountUnack(s, c)
           s2 == IF s.chan[c].curSevr > NO_ALARM THEN Uncount(s1, c) ELSE s1
           d  == [s2.chan[c] EXCEPT !.sevrPV = alCaPutSevrValue(s2.chan[c].sevrPV, -1)]
<1>1. Preserves(s, s1)
  BY UncountUnackPreserves
<1> HIDE DEF s1
<1> s1 \in State
  BY <1>1 DEF Preserves
<1>2. Preserves(s, s2)
  BY <1>1, UncountPreserves, PreservesTransitive
<1> HIDE DEF s2
<1> s2 \in State
  BY <1>2 DEF Preserves
<1>3. d \in ChanData /\ d.curMask = s2.chan[c].curMask /\ d.evid = s2.chan[c].evid
  <2>1. s2.chan[c] \in ChanData
    BY DEF State
  <2>2. alCaPutSevrValue(s2.chan[c].sevrPV, -1) \in Int
    BY <2>1 DEF ChanData, alCaPutSevrValue
  <2> QED BY <2>1, <2>2 DEF ChanData
<1>4. Preserves(s, [s2 EXCEPT !.chan[c] = d])
  BY <1>2, <1>3, PreservesChan, PreservesTransitive
<1> QED BY <1>4 DEF DisableOn, s1, s2

(* A channel is enabled again: it preserves.                               *)
LEMMA DisableOffPreserves ==
  ASSUME NEW s \in State, NEW c \in Chan
  PROVE  Preserves(s, DisableOff(s, c))
BY SevrBounds, ReprocessPreserves, AutoAckPreserves DEF DisableOff

(* The Disable part of alChangeChanMask preserves.                         *)
LEMMA ChangeDisablePreserves ==
  ASSUME NEW s \in State, NEW c \in Chan, NEW mask
  PROVE  Preserves(s, ChangeDisable(s, c, mask))
<1> DEFINE new == "Disable" \in mask
<1>1. CASE new = On(s, c, "Disable")
  BY <1>1, PreservesReflexive DEF ChangeDisable
<1>2. CASE new # On(s, c, "Disable")
  <2> SUFFICES ASSUME NEW s1, s1 = SetMaskBit(s, c, "Disable", new)
               PROVE  Preserves(s, IF "Cancel" \in mask THEN s1
                                   ELSE IF new THEN DisableOn(s1, c) ELSE DisableOff(s1, c))
    BY <1>2 DEF ChangeDisable
  <2>1. new \in BOOLEAN /\ "Disable" \in MaskBit \ {"Cancel"}
    BY DEF MaskBit
  <2>2. Preserves(s, s1)
    BY <1>2, <2>1, SetMaskBitPreserves
  <2> s1 \in State
    BY <2>2 DEF Preserves
  <2>3. Preserves(s, DisableOn(s1, c)) /\ Preserves(s, DisableOff(s1, c))
    BY <2>2, DisableOnPreserves, DisableOffPreserves, PreservesTransitive
  <2> QED BY <2>2, <2>3
<1> QED BY <1>1, <1>2

(* Alarms of a channel need acknowledgement again: it preserves.           *)
LEMMA AckOffPreserves ==
  ASSUME NEW s \in State, NEW c \in Chan
  PROVE  Preserves(s, AckOff(s, c))
<1> DEFINE d == s.chan[c]
           z == [s EXCEPT !.chan[c].unackSevr = NO_ALARM]
           s1 == IF GlobalFlag THEN alSetUnackSevChan(z, c, d.unackSevr)
                 ELSE alSetUnackSevChan(s, c, d.curSevr)
<1>1. d.unackSevr \in Sevr /\ d.curSevr \in Sevr
  BY DEF State, ChanData
<1>2. Preserves(s, z)
  BY SevrBounds, PreservesUnackSevr
<1> HIDE DEF z
<1> z \in State
  BY <1>2 DEF Preserves
<1>3. Preserves(s, s1)
  BY <1>1, <1>2, alSetUnackSevChanPreserves, PreservesTransitive
<1> HIDE DEF s1
<1> s1 \in State
  BY <1>3 DEF Preserves
<1>4. Preserves(s, SilenceReset(s1))
  BY <1>3, SilenceResetPreserves, PreservesTransitive
<1>5. Preserves(s, AutoAck(s, c))
  BY AutoAckPreserves
<1> QED BY <1>4, <1>5 DEF AckOff, s1, z

(* The Ack part of alChangeChanMask preserves.                             *)
LEMMA ChangeAckPreserves ==
  ASSUME NEW s \in State, NEW c \in Chan, NEW mask
  PROVE  Preserves(s, ChangeAck(s, c, mask))
<1> DEFINE new == "Ack" \in mask
<1>1. CASE new = On(s, c, "Ack")
  BY <1>1, PreservesReflexive DEF ChangeAck
<1>2. CASE new # On(s, c, "Ack")
  <2> SUFFICES ASSUME NEW s1, s1 = SetMaskBit(s, c, "Ack", new)
               PROVE  Preserves(s, IF new THEN UncountUnack(s1, c)
                                   ELSE IF mask \cap {"Cancel", "Disable"} = {}
                                   THEN AckOff(s1, c) ELSE s1)
    BY <1>2 DEF ChangeAck
  <2>1. new \in BOOLEAN /\ "Ack" \in MaskBit \ {"Cancel"}
    BY DEF MaskBit
  <2>2. Preserves(s, s1)
    BY <1>2, <2>1, SetMaskBitPreserves
  <2> s1 \in State
    BY <2>2 DEF Preserves
  <2>3. Preserves(s, UncountUnack(s1, c)) /\ Preserves(s, AckOff(s1, c))
    BY <2>2, UncountUnackPreserves, AckOffPreserves, PreservesTransitive
  <2> QED BY <2>2, <2>3
<1> QED BY <1>1, <1>2

(* The AckT and Log parts of alChangeChanMask preserve.                    *)
LEMMA ChangePlainPreserves ==
  ASSUME NEW s \in State, NEW c \in Chan, NEW b \in {"AckT", "Log"}, NEW mask
  PROVE  Preserves(s, ChangePlain(s, c, b, mask))
<1>1. CASE (b \in mask) = On(s, c, b)
  BY <1>1, PreservesReflexive DEF ChangePlain
<1>2. CASE (b \in mask) # On(s, c, b)
  <2>1. (b \in mask) \in BOOLEAN /\ b \in MaskBit \ {"Cancel"}
    BY DEF MaskBit
  <2>2. Preserves(s, SetMaskBit(s, c, b, b \in mask))
    BY <1>2, <2>1, SetMaskBitPreserves
  <2> QED BY <1>2, <2>2 DEF ChangePlain
<1> QED BY <1>1, <1>2

(* alChangeChanMask keeps the invariant.                                   *)
LEMMA alChangeChanMaskKeeps ==
  ASSUME NEW s \in State, NEW c \in Chan, NEW mask
  PROVE  Keeps(s, alChangeChanMask(s, c, mask))
<1> SUFFICES ASSUME NEW s1, s1 = ChangeCancel(s, c, mask),
                    NEW s2, s2 = ChangeDisable(s1, c, mask),
                    NEW s3, s3 = ChangeAck(s2, c, mask),
                    NEW s4, s4 = ChangePlain(s3, c, "AckT", mask),
                    NEW s5, s5 = ChangePlain(s4, c, "Log", mask)
             PROVE  Keeps(s, s5)
  BY DEF alChangeChanMask
<1>1. Keeps(s, s1)
  BY ChangeCancelKeeps
<1> s1 \in State
  BY <1>1 DEF Keeps
<1>2. Preserves(s1, s2)
  BY ChangeDisablePreserves
<1> s2 \in State
  BY <1>2 DEF Preserves
<1>3. Preserves(s2, s3)
  BY ChangeAckPreserves
<1> s3 \in State
  BY <1>3 DEF Preserves
<1>4. Preserves(s3, s4)
  BY ChangePlainPreserves
<1> s4 \in State
  BY <1>4 DEF Preserves
<1>5. Preserves(s4, s5)
  BY ChangePlainPreserves
<1>6. Preserves(s1, s5)
  BY <1>2, <1>3, <1>4, <1>5, PreservesTransitive
<1> QED BY <1>1, <1>6, KeepsCombines

(* alForceChanMask keeps the invariant.                                    *)
LEMMA alForceChanMaskKeeps ==
  ASSUME NEW s \in State, NEW c \in Chan, NEW index, NEW op
  PROVE  Keeps(s, alForceChanMask(s, c, index, op))
BY alChangeChanMaskKeeps DEF alForceChanMask

----------------------------------------------------------------------------
(* Changes of beep severities.                                             *)

(* alSetBeepSevCount preserves.                                            *)
LEMMA alSetBeepSevCountPreserves ==
  ASSUME NEW s \in State, NEW nodes, NEW newSevr, NEW oldSevr
  PROVE  Preserves(s, alSetBeepSevCount(s, nodes, newSevr, oldSevr))
<1> DEFINE gd(g) == s.group[g]
           cnt(g) == Shift(gd(g).beepSev, oldSevr, newSevr, 1)
           Up(g) == [gd(g) EXCEPT !.beepSev = cnt(g),
                                  !.highestBeepSevr = alHighestSeverity(cnt(g))]
           F == [g \in Group |-> IF g \in nodes THEN Up(g) ELSE s.group[g]]
<1>1. ASSUME NEW g \in Group PROVE Up(g) \in GroupData /\ Up(g).mask = s.group[g].mask
  <2>1. gd(g) \in GroupData
    BY DEF State
  <2>2. cnt(g) \in Counters
    BY <2>1, ShiftType DEF GroupData, Counters
  <2>3. alHighestSeverity(cnt(g)) \in Sevr
    BY HighestFromType DEF alHighestSeverity
  <2> QED BY <2>1, <2>2, <2>3 DEF GroupData
<1> HIDE DEF Up
<1>2. \A g \in Group : F[g] \in GroupData /\ F[g].mask = s.group[g].mask
  BY <1>1 DEF State
<1>3. F \in [Group -> GroupData]
  BY <1>2
<1> HIDE DEF F
<1>4. Preserves(s, [s EXCEPT !.group = F])
  BY <1>2, <1>3, PreservesGroups
<1> QED BY <1>4 DEF alSetBeepSevCount, Up, F

(* alSetBeepSevrChan preserves.                                            *)
LEMMA alSetBeepSevrChanPreserves ==
  ASSUME NEW s \in State, NEW c \in Chan, NEW beepSevr \in Sevr
  PROVE  Preserves(s, alSetBeepSevrChan(s, c, beepSevr))
<1> DEFINE old == s.chan[c].beepSevr
           sev == s.chan[c].unackSevr
           osev == IF sev >= old THEN sev ELSE NO_ALARM
           nsev == IF sev >= beepSevr THEN sev ELSE NO_ALARM
           d == [s.chan[c] EXCEPT !.beepSevr = beepSevr]
           s0 == [s EXCEPT !.chan[c] = d]
           s1 == alSetBeepSevCount(s0, Anc[c], beepSevr, old)
<1>1. s.chan[c] \in ChanData
  BY DEF State
<1>2. d \in ChanData /\ d.curMask = s.chan[c].curMask /\ d.evid = s.chan[c].evid
  BY <1>1 DEF ChanData
<1>3. Preserves(s, s0)
  BY <1>2, PreservesChan
<1>4. sev \in Sevr
  BY <1>1 DEF ChanData
<1>5. osev \in Sevr /\ nsev \in Sevr
  BY <1>4, SevrBounds
<1> HIDE DEF s0, old, osev, nsev
<1> s0 \in State
  BY <1>3 DEF Preserves
<1>6. Preserves(s, s1)
  BY <1>3, alSetBeepSevCountPreserves, PreservesTransitive
<1> HIDE DEF s1
<1> s1 \in State
  BY <1>6 DEF Preserves
<1>7. Preserves(s1, UnackBeepSevUp(s1, c, nsev, osev, 1))
  BY <1>5, UnackBeepSevUpPreserves
<1>8. Preserves(s, UnackBeepSevUp(s1, c, nsev, osev, 1))
  BY <1>6, <1>7, PreservesTransitive
<1> QED BY <1>6, <1>8, PreservesReflexive
        DEF alSetBeepSevrChan, s0, s1, old, osev, nsev

(* The loop over the severities between two limits preserves.              *)
LEMMA MoveBeepCountsPreserves ==
  ASSUME NEW s \in State, NEW g \in Group, NEW low \in Sevr, NEW high \in Sevr,
         NEW sign \in {1, -1}
  PROVE  Preserves(s, MoveBeepCounts(s, g, low, high, sign))
<1> DEFINE Seen(h, v) == v >= low /\ v < high /\ BeepFilter(s, v, Below(g, h)) = v
           gd(h) == s.group[h]
           cnt(h) == [v \in AlarmSevr |->
                        gd(h).unackBeepSev[v]
                        + (IF Seen(h, v) THEN sign * s.group[g].unackSev[v] ELSE 0)]
           Up(h) == [gd(h) EXCEPT !.unackBeepSev = cnt(h),
                       !.unackBeepSevr = alHighestBeepSeverity(cnt(h), gd(h).beepSevr)]
           last == IF sign = 1 THEN high - 1 ELSE NO_ALARM
           F == [h \in Group |-> IF h \in Anc[g] THEN Up(h) ELSE s.group[h]]
           t == [s EXCEPT !.group = F]
           p == [s.psetup EXCEPT !.newUnackBeepSevr = BeepFilter(s, last, Anc[g])]
<1>1. ASSUME NEW h \in Group PROVE Up(h) \in GroupData /\ Up(h).mask = s.group[h].mask
  <2>1. gd(h) \in GroupData /\ s.group[g] \in GroupData
    BY DEF State
  <2>2. ASSUME NEW v \in AlarmSevr
        PROVE  gd(h).unackBeepSev[v]
               + (IF Seen(h, v) THEN sign * s.group[g].unackSev[v] ELSE 0) \in Int
    <3>1. gd(h).unackBeepSev[v] \in Int /\ s.group[g].unackSev[v] \in Int
      BY <2>1 DEF GroupData, Counters
    <3>2. sign * s.group[g].unackSev[v] \in Int
      <4>1. sign = 1 \/ sign = -1
        OBVIOUS
      <4> QED BY <3>1, <4>1
    <3> HIDE DEF Seen, gd
    <3> QED BY <3>1, <3>2
  <2>3. cnt(h) \in Counters
    BY <2>2 DEF Counters
  <2>4. alHighestBeepSeverity(cnt(h), gd(h).beepSevr) \in Sevr
    BY HighestFromType DEF alHighestBeepSeverity
  <2> HIDE DEF cnt
  <2> QED BY <2>1, <2>3, <2>4 DEF GroupData
<1>2. CASE Anc[g] = {} \/ high <= 1
  BY <1>2, PreservesReflexive DEF MoveBeepCounts
<1>3. CASE ~(Anc[g] = {} \/ high <= 1)
  <2>1. last \in Sevr
    BY <1>3, SevrBounds, SevrAssumption DEF Sevr
  <2>2. BeepFilter(s, last, Anc[g]) \in Sevr
    BY <2>1, BeepFilterType
  <2> HIDE DEF Up, last
  <2>3. \A h \in Group : F[h] \in GroupData /\ F[h].mask = s.group[h].mask
    BY <1>1 DEF State
  <2>4. F \in [Group -> GroupData]
    BY <2>3
  <2> HIDE DEF F
  <2>5. Preserves(s, t)
    BY <2>3, <2>4, PreservesGroups
  <2>6. p \in Setup
    BY <2>2 DEF State, Setup
  <2> t \in State
    BY <2>5 DEF Preserves
  <2>7. Preserves(t, [t EXCEPT !.psetup = p])
    BY <2>6, PreservesSetup
  <2>8. MoveBeepCounts(s, g, low, high, sign) = [t EXCEPT !.psetup = p]
    BY <1>3 DEF MoveBeepCounts, State, F, Up, last
  <2> QED BY <2>5, <2>7, <2>8, PreservesTransitive
<1> QED BY <1>2, <1>3

(* alSetBeepSevrGroup preserves.                                           *)
LEMMA alSetBeepSevrGroupPreserves ==
  ASSUME NEW s \in State, NEW g \in Group, NEW beepSevr \in Sevr
  PROVE  Preserves(s, alSetBeepSevrGroup(s, g, beepSevr))
<1> DEFINE old == s.group[g].beepSevr
           F == [s.group EXCEPT ![g] = [s.group[g] EXCEPT !.beepSevr = beepSevr]]
           s0 == [s EXCEPT !.group = F]
           s1 == alSetBeepSevCount(s0, Anc[g] \cup {g}, beepSevr, old)
           top == alHighestBeepSeverity(s1.group[g].unackBeepSev, beepSevr)
           G == [s1.group EXCEPT ![g] = [s1.group[g] EXCEPT !.unackBeepSevr = top]]
           s2 == [s1 EXCEPT !.group = G]
<1>1. old \in Sevr
  BY DEF State, GroupData
<1>2. Preserves(s, s0)
  <2>1. /\ F \in [Group -> GroupData]
        /\ \A h \in Group : F[h].mask = s.group[h].mask
    BY DEF State, GroupData
  <2> QED BY <2>1, PreservesGroups
<1>3. s0 = [s EXCEPT !.group[g].beepSevr = beepSevr]
  OBVIOUS
<1> HIDE DEF s0
<1> s0 \in State
  BY <1>2 DEF Preserves
<1>4. Preserves(s, s1)
  BY <1>2, alSetBeepSevCountPreserves, PreservesTransitive
<1>5. top \in Sevr
  BY HighestFromType DEF alHighestBeepSeverity
<1> HIDE DEF s1, top
<1> s1 \in State
  BY <1>4 DEF Preserves
<1>6. Preserves(s, s2)
  <2>1. /\ G \in [Group -> GroupData]
        /\ \A h \in Group : G[h].mask = s1.group[h].mask
    <3> DEFINE d == [s1.group[g] EXCEPT !.unackBeepSevr = top]
    <3>1. s1.group \in [Group -> GroupData]
      BY DEF State
    <3>2. d \in GroupData /\ d.mask = s1.group[g].mask
      BY <1>5, <3>1 DEF GroupData
    <3> HIDE DEF d
    <3> QED BY <3>1, <3>2 DEF d
  <2>2. Preserves(s1, s2)
    BY <2>1, PreservesGroups
  <2> QED BY <1>4, <2>2, PreservesTransitive
<1>7. s2 = [s1 EXCEPT !.group[g].unackBeepSevr = top]
  OBVIOUS
<1> HIDE DEF s2, old
<1> s2 \in State
  BY <1>6 DEF Preserves
<1>8. /\ Preserves(s2, MoveBeepCounts(s2, g, old, beepSevr, -1))
      /\ Preserves(s2, MoveBeepCounts(s2, g, beepSevr, old, 1))
  BY <1>1, MoveBeepCountsPreserves
<1>9. /\ Preserves(s, MoveBeepCounts(s2, g, old, beepSevr, -1))
      /\ Preserves(s, MoveBeepCounts(s2, g, beepSevr, old, 1))
  BY <1>6, <1>8, PreservesTransitive
<1>10. alSetBeepSevrGroup(s, g, beepSevr) =
         IF old = beepSevr THEN s
         ELSE IF old < beepSevr THEN MoveBeepCounts(s2, g, old, beepSevr, -1)
         ELSE MoveBeepCounts(s2, g, beepSevr, old, 1)
  BY <1>3, <1>7 DEF alSetBeepSevrGroup, s1, top, old
<1> QED BY <1>9, <1>10, PreservesReflexive

----------------------------------------------------------------------------
(* How counters move.                                                      *)

\* what the beep counter of g sees of severity u at channel c
Heard(s, c, g, u) == BeepFilter(s, u, {c} \cup Below(c, g))

CurMoved(s, t, c, x, y) ==
  \A g \in Group :
    t.group[g].curSev = IF g \in Anc[c] THEN Shift(s.group[g].curSev, x, y, 1)
                        ELSE s.group[g].curSev

UnackMoved(s, t, c, u, w) ==
  \A g \in Group :
    /\ t.group[g].unackSev = IF g \in Anc[c] THEN Shift(s.group[g].unackSev, u, w, 1)
                             ELSE s.group[g].unackSev
    /\ t.group[g].unackBeepSev =
         IF g \in Anc[c]
         THEN Shift(s.group[g].unackBeepSev, Heard(s, c, g, u), Heard(s, c, g, w), 1)
         ELSE s.group[g].unackBeepSev

(* The severity of a group line is the highest its counters have.          *)
TopsExact(s) ==
  \A g \in Group :
    /\ s.group[g].unackSevr = alHighestSeverity(s.group[g].unackSev)
    /\ s.group[g].unackBeepSevr =
         alHighestBeepSeverity(s.group[g].unackBeepSev, s.group[g].beepSevr)

SameBeepSevr(s, t) ==
  /\ \A e \in Chan : t.chan[e].beepSevr = s.chan[e].beepSevr
  /\ \A g \in Group : /\ t.group[g].beepSevr = s.group[g].beepSevr
                      /\ t.group[g].beepSev = s.group[g].beepSev

(* No channel but c is touched, and no beep severity.                      *)
Frame(s, t, c) ==
  /\ t \in State
  /\ \A e \in Chan \ {c} : t.chan[e] = s.chan[e]
  /\ SameBeepSevr(s, t)
  /\ TopsExact(s) => TopsExact(t)

Moved(s, t, c, x, y, u, w) ==
  Frame(s, t, c) /\ CurMoved(s, t, c, x, y) /\ UnackMoved(s, t, c, u, w)

(* A counter moved twice has moved once.                                   *)
LEMMA ShiftComposes ==
  ASSUME NEW D, NEW cnt \in [D -> Int], NEW a, NEW b, NEW d
  PROVE  Shift(Shift(cnt, a, b, 1), b, d, 1) = Shift(cnt, a, d, 1)
<1> DEFINE l == Shift(Shift(cnt, a, b, 1), b, d, 1)
           m == Shift(cnt, a, b, 1)
           r == Shift(cnt, a, d, 1)
<1>1. m \in [D -> Int]
  BY ShiftType
<1>2. DOMAIN m = D /\ DOMAIN cnt = D
  BY <1>1
<1>3. \A v \in D : cnt[v] \in Int /\ m[v] = cnt[v] - (IF v = a THEN 1 ELSE 0) + (IF v = b THEN 1 ELSE 0)
  BY <1>2 DEF Shift
<1>4. \A v \in D : r[v] = cnt[v] - (IF v = a THEN 1 ELSE 0) + (IF v = d THEN 1 ELSE 0)
  BY <1>2 DEF Shift
<1>5. r = [v \in D |-> r[v]]
  BY <1>2 DEF Shift
<1> HIDE DEF m
<1>6. l = [v \in D |-> m[v] - (IF v = b THEN 1 ELSE 0) + (IF v = d THEN 1 ELSE 0)]
  BY <1>2 DEF Shift, m
<1> HIDE DEF r
<1>7. \A v \in D : m[v] - (IF v = b THEN 1 ELSE 0) + (IF v = d THEN 1 ELSE 0) = r[v]
  BY <1>3, <1>4
<1>8. l = [v \in D |-> r[v]]
  BY <1>6, <1>7
<1> QED BY <1>5, <1>8 DEF r, m

(* A counter that does not move.                                           *)
LEMMA ShiftNone ==
  ASSUME NEW D, NEW cnt \in [D -> Int], NEW a
  PROVE  Shift(cnt, a, a, 1) = cnt
BY DEF Shift

(* The beep counters depend on beep severities only.                       *)
LEMMA HeardSame ==
  ASSUME NEW s, NEW t, SameBeepSevr(s, t), NEW c \in Chan, NEW g, NEW u
  PROVE  Heard(t, c, g, u) = Heard(s, c, g, u)
<1>1. {c} \cup Below(c, g) \subseteq Node
  BY TreeAssumption DEF Below, Node
<1>2. \A n \in Node : BeepSevr(t, n) = BeepSevr(s, n)
  BY DEF SameBeepSevr, BeepSevr, Node
<1> QED BY <1>1, <1>2 DEF Heard, BeepFilter

(* What is counted is a channel's beep severity, then those of the groups. *)
LEMMA HeardInSteps ==
  ASSUME NEW s \in State, NEW c \in Chan, NEW g \in Group, NEW u \in Sevr
  PROVE  BeepFilter(s, BeepFilter(s, u, {c}), Below(c, g)) = Heard(s, c, g, u)
<1>1. \A n \in Below(c, g) : BeepSevr(s, n) \in Sevr
  <2>1. \A n \in Below(c, g) : n \in Group /\ n \notin Chan
    BY TreeAssumption, NodeAssumption DEF Below, Node
  <2> QED BY <2>1 DEF BeepSevr, State, GroupData
<1>2. CASE u >= BeepSevr(s, c)
  <2>1. BeepFilter(s, u, {c}) = u
    BY <1>2 DEF BeepFilter
  <2> QED BY <1>2, <2>1 DEF BeepFilter, Heard
<1>3. CASE ~(u >= BeepSevr(s, c))
  <2>1. BeepFilter(s, u, {c}) = NO_ALARM
    BY <1>3 DEF BeepFilter
  <2>2. BeepFilter(s, NO_ALARM, Below(c, g)) = NO_ALARM
    BY DEF BeepFilter
  <2>3. Heard(s, c, g, u) = NO_ALARM
    BY <1>3 DEF BeepFilter, Heard
  <2> QED BY <2>1, <2>2, <2>3
<1> QED BY <1>2, <1>3

(* What a function does is what its calls do, one after the other: to the  *)
(* current severities, to the unacknowledged ones, and to the rest.        *)
LEMMA CurMovedComposes ==
  ASSUME NEW s \in State, NEW t, NEW r, NEW c, NEW x, NEW y, NEW z,
         CurMoved(s, t, c, x, y), CurMoved(t, r, c, y, z)
  PROVE  CurMoved(s, r, c, x, z)
<1> SUFFICES ASSUME NEW g \in Group
             PROVE  r.group[g].curSev = IF g \in Anc[c] THEN Shift(s.group[g].curSev, x, z, 1)
                                        ELSE s.group[g].curSev
  BY DEF CurMoved
<1>1. s.group[g].curSev \in [Sevr -> Int]
  BY DEF State, GroupData
<1>2. Shift(Shift(s.group[g].curSev, x, y, 1), y, z, 1) = Shift(s.group[g].curSev, x, z, 1)
  BY <1>1, ShiftComposes
<1> QED BY <1>2 DEF CurMoved

\* Two moves of a channel's unacknowledged severity are one.
LEMMA UnackMovedComposes ==
  ASSUME NEW s \in State, NEW t, NEW r, NEW c \in Chan, NEW u, NEW w, NEW q,
         SameBeepSevr(s, t), UnackMoved(s, t, c, u, w), UnackMoved(t, r, c, w, q)
  PROVE  UnackMoved(s, r, c, u, q)
<1> SUFFICES ASSUME NEW g \in Group
             PROVE  /\ r.group[g].unackSev =
                         IF g \in Anc[c] THEN Shift(s.group[g].unackSev, u, q, 1)
                         ELSE s.group[g].unackSev
                    /\ r.group[g].unackBeepSev =
                         IF g \in Anc[c]
                         THEN Shift(s.group[g].unackBeepSev, Heard(s, c, g, u), Heard(s, c, g, q), 1)
                         ELSE s.group[g].unackBeepSev
  BY DEF UnackMoved
<1>1. /\ s.group[g].unackSev \in [AlarmSevr -> Int]
      /\ s.group[g].unackBeepSev \in [AlarmSevr -> Int]
  BY DEF State, GroupData, Counters
<1>2. Shift(Shift(s.group[g].unackSev, u, w, 1), w, q, 1) = Shift(s.group[g].unackSev, u, q, 1)
  BY <1>1, ShiftComposes
<1>3. Shift(Shift(s.group[g].unackBeepSev, Heard(s, c, g, u), Heard(s, c, g, w), 1),
            Heard(s, c, g, w), Heard(s, c, g, q), 1)
      = Shift(s.group[g].unackBeepSev, Heard(s, c, g, u), Heard(s, c, g, q), 1)
  BY <1>1, ShiftComposes
<1>4. Heard(t, c, g, w) = Heard(s, c, g, w) /\ Heard(t, c, g, q) = Heard(s, c, g, q)
  BY HeardSame
<1> QED BY <1>2, <1>3, <1>4 DEF UnackMoved

\* What two calls leave alone, both together do.
LEMMA FrameComposes ==
  ASSUME NEW s, NEW t, NEW r, NEW c, Frame(s, t, c), Frame(t, r, c)
  PROVE  Frame(s, r, c)
BY DEF Frame, SameBeepSevr

\* Two moves of a channel are one.
LEMMA MovedComposes ==
  ASSUME NEW s \in State, NEW t, NEW r, NEW c \in Chan, NEW x, NEW y, NEW z,
         NEW u, NEW w, NEW q, Moved(s, t, c, x, y, u, w), Moved(t, r, c, y, z, w, q)
  PROVE  Moved(s, r, c, x, z, u, q)
<1>1. /\ Frame(s, t, c) /\ CurMoved(s, t, c, x, y) /\ UnackMoved(s, t, c, u, w)
      /\ Frame(t, r, c) /\ CurMoved(t, r, c, y, z) /\ UnackMoved(t, r, c, w, q)
      /\ SameBeepSevr(s, t)
  BY DEF Moved, Frame
<1>2. Frame(s, r, c) /\ CurMoved(s, r, c, x, z) /\ UnackMoved(s, r, c, u, q)
  BY <1>1, FrameComposes, CurMovedComposes, UnackMovedComposes
<1> QED BY <1>2 DEF Moved

(* What leaves the counters alone moves nothing.                           *)
LEMMA MovedNothing ==
  ASSUME NEW s \in State, NEW t, NEW c \in Chan, Frame(s, t, c),
         \A g \in Group : /\ t.group[g].curSev = s.group[g].curSev
                          /\ t.group[g].unackSev = s.group[g].unackSev
                          /\ t.group[g].unackBeepSev = s.group[g].unackBeepSev,
         NEW x, NEW u
  PROVE  Moved(s, t, c, x, x, u, u)
<1>1. \A g \in Group : /\ s.group[g].curSev \in [Sevr -> Int]
                       /\ s.group[g].unackSev \in [AlarmSevr -> Int]
                       /\ s.group[g].unackBeepSev \in [AlarmSevr -> Int]
  BY DEF State, GroupData, Counters
<1>2. \A g \in Group : /\ Shift(s.group[g].curSev, x, x, 1) = s.group[g].curSev
                       /\ Shift(s.group[g].unackSev, u, u, 1) = s.group[g].unackSev
                       /\ Shift(s.group[g].unackBeepSev, Heard(s, c, g, u), Heard(s, c, g, u), 1)
                          = s.group[g].unackBeepSev
  BY <1>1, ShiftNone
<1> QED BY <1>2 DEF Moved, CurMoved, UnackMoved

(* An early return moves nothing.                                          *)
LEMMA MovedReflexive ==
  ASSUME NEW s \in State, NEW c \in Chan, NEW x, NEW u
  PROVE  Moved(s, s, c, x, x, u, u)
BY MovedNothing DEF Frame, SameBeepSevr

(* Assignments to fields of one channel move nothing.                      *)
LEMMA MovedChan ==
  ASSUME NEW s \in State, NEW c \in Chan, NEW d \in ChanData,
         d.beepSevr = s.chan[c].beepSevr, NEW x, NEW u
  PROVE  /\ Moved(s, [s EXCEPT !.chan[c] = d], c, x, x, u, u)
         /\ [s EXCEPT !.chan[c] = d].chan[c] = d
         /\ [s EXCEPT !.chan[c] = d].psetup = s.psetup
<1> DEFINE t == [s EXCEPT !.chan[c] = d]
<1>1. /\ t \in State /\ t.chan[c] = d /\ t.group = s.group /\ t.psetup = s.psetup
      /\ \A e \in Chan \ {c} : t.chan[e] = s.chan[e]
  BY DEF State
<1> HIDE DEF t
<1>2. Frame(s, t, c)
  BY <1>1 DEF Frame, SameBeepSevr, TopsExact
<1>3. Moved(s, t, c, x, x, u, u)
  BY <1>1, <1>2, MovedNothing
<1> QED BY <1>1, <1>3 DEF t

(* Assignments to the setup move nothing.                                  *)
LEMMA MovedSetup ==
  ASSUME NEW s \in State, NEW c \in Chan, NEW p \in Setup, NEW x, NEW u
  PROVE  /\ Moved(s, [s EXCEPT !.psetup = p], c, x, x, u, u)
         /\ [s EXCEPT !.psetup = p].chan = s.chan
<1> DEFINE t == [s EXCEPT !.psetup = p]
<1>1. t \in State /\ t.chan = s.chan /\ t.group = s.group
  BY DEF State
<1> HIDE DEF t
<1>2. Frame(s, t, c)
  BY <1>1 DEF Frame, SameBeepSevr, TopsExact
<1>3. Moved(s, t, c, x, x, u, u)
  BY <1>1, <1>2, MovedNothing
<1> QED BY <1>1, <1>3 DEF t

----------------------------------------------------------------------------
(* What the functions on groups do to the counters.                        *)

\* unackSev of the parents of c was moved, and nothing else changed
UnackUp(s, t, c, newSevr, oldSevr) ==
  /\ t \in State /\ t.chan = s.chan
  /\ \A g \in Group :
       /\ t.group[g].unackSev = IF g \in Anc[c]
                                THEN Shift(s.group[g].unackSev, oldSevr, newSevr, 1)
                                ELSE s.group[g].unackSev
       /\ t.group[g].unackSevr = IF g \in Anc[c]
                                 THEN alHighestSeverity(t.group[g].unackSev)
                                 ELSE s.group[g].unackSevr
       /\ t.group[g].curSev = s.group[g].curSev
       /\ t.group[g].unackBeepSev = s.group[g].unackBeepSev
       /\ t.group[g].unackBeepSevr = s.group[g].unackBeepSevr
       /\ t.group[g].beepSevr = s.group[g].beepSevr
       /\ t.group[g].beepSev = s.group[g].beepSev

\* unackBeepSev of the parents of c was moved, and nothing else changed
BeepUp(s, t, c, newSevr, oldSevr) ==
  /\ t \in State /\ t.chan = s.chan
  /\ \A g \in Group :
       /\ t.group[g].unackBeepSev =
            IF g \in Anc[c]
            THEN Shift(s.group[g].unackBeepSev, BeepFilter(s, oldSevr, Below(c, g)),
                       BeepFilter(s, newSevr, Below(c, g)), 1)
            ELSE s.group[g].unackBeepSev
       /\ t.group[g].unackBeepSevr =
            IF g \in Anc[c]
            THEN alHighestBeepSeverity(t.group[g].unackBeepSev, s.group[g].beepSevr)
            ELSE s.group[g].unackBeepSevr
       /\ t.group[g].curSev = s.group[g].curSev
       /\ t.group[g].unackSev = s.group[g].unackSev
       /\ t.group[g].unackSevr = s.group[g].unackSevr
       /\ t.group[g].beepSevr = s.group[g].beepSevr
       /\ t.group[g].beepSev = s.group[g].beepSev

(* The unacknowledged severity of a channel moves at all its parents.      *)
LEMMA alSetUnackSevGroupEffect ==
  ASSUME NEW s \in State, NEW c \in Chan, NEW newSevr \in Sevr, NEW oldSevr \in Sevr,
         NEW t, t = alSetUnackSevGroup(s, c, newSevr, oldSevr)
  PROVE  UnackUp(s, t, c, newSevr, oldSevr)
<1> DEFINE cnt(g) == Shift(s.group[g].unackSev, oldSevr, newSevr, 1)
           top(g) == alHighestSeverity(cnt(g))
           Up(g) == [s.group[g] EXCEPT !.unackSev = cnt(g), !.unackSevr = top(g)]
           F == [g \in Group |-> IF g \in Anc[c] THEN Up(g) ELSE s.group[g]]
<1>1. t \in State
  BY alSetUnackSevGroupPreserves DEF Preserves
<1>2. t = [s EXCEPT !.group = F]
  BY DEF alSetUnackSevGroup
<1>3. t.chan = s.chan /\ t.group = F
  <2> HIDE DEF F
  <2> QED BY <1>2 DEF State
<1>4. ASSUME NEW g \in Group
      PROVE  /\ Up(g).unackSev = cnt(g) /\ Up(g).unackSevr = top(g)
             /\ Up(g).curSev = s.group[g].curSev
             /\ Up(g).unackBeepSev = s.group[g].unackBeepSev
             /\ Up(g).unackBeepSevr = s.group[g].unackBeepSevr
             /\ Up(g).beepSevr = s.group[g].beepSevr
             /\ Up(g).beepSev = s.group[g].beepSev
  <2> HIDE DEF cnt, top
  <2>1. s.group[g] \in GroupData
    BY DEF State
  <2> QED BY <2>1 DEF GroupData
<1> HIDE DEF Up
<1>5. \A g \in Group : t.group[g] = IF g \in Anc[c] THEN Up(g) ELSE s.group[g]
  BY <1>3
<1> HIDE DEF F, cnt
<1>6. \A g \in Group : g \in Anc[c] => t.group[g].unackSevr = alHighestSeverity(t.group[g].unackSev)
  BY <1>4, <1>5
<1> QED BY <1>1, <1>3, <1>4, <1>5, <1>6 DEF cnt, UnackUp

(* The same for the beep severity it is heard with.                        *)
LEMMA UnackBeepSevUpEffect ==
  ASSUME NEW s \in State, NEW c \in Chan, NEW newSevr \in Sevr, NEW oldSevr \in Sevr,
         NEW t, t = UnackBeepSevUp(s, c, newSevr, oldSevr, 1)
  PROVE  BeepUp(s, t, c, newSevr, oldSevr)
<1> DEFINE cnt(g) == Shift(s.group[g].unackBeepSev, BeepFilter(s, oldSevr, Below(c, g)),
                           BeepFilter(s, newSevr, Below(c, g)), 1)
           top(g) == alHighestBeepSeverity(cnt(g), s.group[g].beepSevr)
           Up(g) == [s.group[g] EXCEPT !.unackBeepSev = cnt(g), !.unackBeepSevr = top(g)]
           F == [g \in Group |-> IF g \in Anc[c] THEN Up(g) ELSE s.group[g]]
           b == BeepFilter(s, newSevr, Anc[c])
<1>1. t \in State
  <2>1. Preserves(s, UnackBeepSevUp(s, c, newSevr, oldSevr, 1))
    BY UnackBeepSevUpPreserves
  <2> QED BY <2>1 DEF Preserves
<1>2. t = [s EXCEPT !.group = F, !.psetup.newUnackBeepSevr = b]
  BY DEF UnackBeepSevUp
<1>3. t.chan = s.chan /\ t.group = F
  <2> HIDE DEF F, b
  <2> QED BY <1>2 DEF State
<1>4. ASSUME NEW g \in Group
      PROVE  /\ Up(g).unackBeepSev = cnt(g) /\ Up(g).unackBeepSevr = top(g)
             /\ Up(g).curSev = s.group[g].curSev
             /\ Up(g).unackSev = s.group[g].unackSev
             /\ Up(g).unackSevr = s.group[g].unackSevr
             /\ Up(g).beepSevr = s.group[g].beepSevr
             /\ Up(g).beepSev = s.group[g].beepSev
  <2> HIDE DEF cnt, top
  <2>1. s.group[g] \in GroupData
    BY DEF State
  <2> QED BY <2>1 DEF GroupData
<1> HIDE DEF Up
<1>5. \A g \in Group : t.group[g] = IF g \in Anc[c] THEN Up(g) ELSE s.group[g]
  BY <1>3
<1> HIDE DEF F, cnt
<1>6. \A g \in Group : g \in Anc[c] => t.group[g].unackBeepSevr
                                       = alHighestBeepSeverity(t.group[g].unackBeepSev, s.group[g].beepSevr)
  BY <1>4, <1>5
<1> QED BY <1>1, <1>3, <1>4, <1>5, <1>6 DEF cnt, BeepUp

(* The current severity of a channel moves at all its parents.             *)
LEMMA CurSevUpEffect ==
  ASSUME NEW s \in State, NEW c \in Chan, NEW newSevr \in Sevr, NEW oldSevr \in Sevr,
         NEW put \in BOOLEAN, NEW u
  PROVE  /\ Moved(s, CurSevUp(s, c, newSevr, oldSevr, put), c, oldSevr, newSevr, u, u)
         /\ CurSevUp(s, c, newSevr, oldSevr, put).chan = s.chan
<1> SUFFICES ASSUME NEW t, t = CurSevUp(s, c, newSevr, oldSevr, put)
             PROVE  Moved(s, t, c, oldSevr, newSevr, u, u) /\ t.chan = s.chan
  OBVIOUS
<1> DEFINE cnt(g) == Shift(s.group[g].curSev, oldSevr, newSevr, 1)
           top(g) == alHighestSeverity(cnt(g))
           pv(g) == IF put /\ top(g) # s.group[g].curSevr
                    THEN alCaPutSevrValue(s.group[g].sevrPV, top(g)) ELSE s.group[g].sevrPV
           Up(g) == [s.group[g] EXCEPT !.curSev = cnt(g), !.curSevr = top(g), !.sevrPV = pv(g)]
           F == [g \in Group |-> IF g \in Anc[c] THEN Up(g) ELSE s.group[g]]
<1>1. t \in State
  BY CurSevUpPreserves DEF Preserves
<1>2. t = [s EXCEPT !.group = F]
  BY DEF CurSevUp
<1>3. t.chan = s.chan /\ t.group = F
  <2> HIDE DEF F
  <2> QED BY <1>2 DEF State
<1>4. ASSUME NEW g \in Group
      PROVE  /\ Up(g).curSev = cnt(g)
             /\ Up(g).unackSev = s.group[g].unackSev
             /\ Up(g).unackSevr = s.group[g].unackSevr
             /\ Up(g).unackBeepSev = s.group[g].unackBeepSev
             /\ Up(g).unackBeepSevr = s.group[g].unackBeepSevr
             /\ Up(g).beepSevr = s.group[g].beepSevr
             /\ Up(g).beepSev = s.group[g].beepSev
  <2> HIDE DEF cnt, top, pv
  <2>1. s.group[g] \in GroupData
    BY DEF State
  <2> QED BY <2>1 DEF GroupData
<1> HIDE DEF Up
<1>5. \A g \in Group : t.group[g] = IF g \in Anc[c] THEN Up(g) ELSE s.group[g]
  BY <1>3
<1> HIDE DEF F
<1>6. ASSUME NEW g \in Group
      PROVE  /\ t.group[g].curSev = IF g \in Anc[c] THEN cnt(g) ELSE s.group[g].curSev
             /\ t.group[g].unackSev = s.group[g].unackSev
             /\ t.group[g].unackSevr = s.group[g].unackSevr
             /\ t.group[g].unackBeepSev = s.group[g].unackBeepSev
             /\ t.group[g].unackBeepSevr = s.group[g].unackBeepSevr
             /\ t.group[g].beepSevr = s.group[g].beepSevr
             /\ t.group[g].beepSev = s.group[g].beepSev
  BY <1>4, <1>5
<1>7. Frame(s, t, c)
  BY <1>1, <1>3, <1>6 DEF Frame, SameBeepSevr, TopsExact
<1>8. CurMoved(s, t, c, oldSevr, newSevr)
  BY <1>6 DEF CurMoved
<1>9. UnackMoved(s, t, c, u, u)
  <2>1. \A g \in Group : /\ s.group[g].unackSev \in [AlarmSevr -> Int]
                         /\ s.group[g].unackBeepSev \in [AlarmSevr -> Int]
    BY DEF State, GroupData, Counters
  <2>2. \A g \in Group : /\ Shift(s.group[g].unackSev, u, u, 1) = s.group[g].unackSev
                         /\ Shift(s.group[g].unackBeepSev, Heard(s, c, g, u), Heard(s, c, g, u), 1)
                            = s.group[g].unackBeepSev
    BY <2>1, ShiftNone
  <2> QED BY <1>6, <2>2 DEF UnackMoved
<1> QED BY <1>3, <1>7, <1>8, <1>9 DEF Moved

----------------------------------------------------------------------------
(* What the functions on a channel do to it and to the counters.           *)

(* The fields of c the counters depend on.                                 *)
Has(t, c, mask, cur, unack) ==
  /\ t.chan[c].curMask = mask
  /\ t.chan[c].curSevr = cur
  /\ t.chan[c].unackSevr = unack

(* The unacknowledged severity of a channel and the counters change        *)
(* together.                                                               *)
LEMMA alSetUnackSevChanEffect ==
  ASSUME NEW s \in State, NEW c \in Chan, NEW newSevr \in Sevr,
         NEW t, t = alSetUnackSevChan(s, c, newSevr), NEW x
  PROVE  /\ Moved(s, t, c, x, x, s.chan[c].unackSevr, newSevr)
         /\ Has(t, c, s.chan[c].curMask, s.chan[c].curSevr, newSevr)
<1> DEFINE oldSevr == s.chan[c].unackSevr
           new == BeepFilter(s, newSevr, {c})
           old == BeepFilter(s, oldSevr, {c})
<1>1. oldSevr \in Sevr
  BY DEF State, ChanData
<1>2. CASE oldSevr = newSevr
  <2>1. t = s
    BY <1>2 DEF alSetUnackSevChan
  <2> QED BY <1>2, <2>1, MovedReflexive DEF Has
<1>3. CASE oldSevr # newSevr
  <2>1. PICK r : r = alSetUnackSevGroup(s, c, newSevr, oldSevr)
    OBVIOUS
  <2>2. PICK b : b = UnackBeepSevUp(r, c, new, old, 1)
    OBVIOUS
  <2>3. t = [b EXCEPT !.chan[c].unackSevr = newSevr]
    BY <1>3, <2>1, <2>2 DEF alSetUnackSevChan
  <2> HIDE DEF oldSevr
  <2>4. UnackUp(s, r, c, newSevr, oldSevr)
    BY <1>1, <2>1, alSetUnackSevGroupEffect
  <2>5. new \in Sevr /\ old \in Sevr
    BY <1>1, BeepFilterType
  <2> HIDE DEF new, old
  <2> r \in State
    BY <2>4 DEF UnackUp
  <2>6. BeepUp(r, b, c, new, old)
    BY <2>2, <2>5, UnackBeepSevUpEffect
  <2>7. /\ t \in State /\ t.group = b.group
        /\ \A e \in Chan \ {c} : t.chan[e] = b.chan[e]
        /\ t.chan[c].beepSevr = b.chan[c].beepSevr
        /\ Has(t, c, s.chan[c].curMask, s.chan[c].curSevr, newSevr)
    <3> DEFINE C == [s.chan EXCEPT ![c].unackSevr = newSevr]
    <3>1. b \in State /\ b.chan = s.chan
      BY <2>4, <2>6 DEF UnackUp, BeepUp
    <3>2. C \in [Chan -> ChanData]
      BY DEF State, ChanData
    <3>3. /\ \A e \in Chan \ {c} : C[e] = s.chan[e]
          /\ C[c].beepSevr = s.chan[c].beepSevr
          /\ C[c].curMask = s.chan[c].curMask
          /\ C[c].curSevr = s.chan[c].curSevr
          /\ C[c].unackSevr = newSevr
      BY DEF State, ChanData
    <3>4. t = [b EXCEPT !.chan = C]
      BY <2>3, <3>1
    <3> HIDE DEF C
    <3>5. t \in State /\ t.group = b.group /\ t.chan = C
      BY <3>1, <3>2, <3>4 DEF State
    <3> QED BY <3>1, <3>3, <3>5 DEF Has
  <2>8. SameBeepSevr(s, r) /\ SameBeepSevr(s, t)
    BY <2>4, <2>6, <2>7 DEF SameBeepSevr, UnackUp, BeepUp
  <2>9. ASSUME NEW g \in Group
        PROVE  /\ BeepFilter(r, old, Below(c, g)) = Heard(s, c, g, oldSevr)
               /\ BeepFilter(r, new, Below(c, g)) = Heard(s, c, g, newSevr)
    <3>1. /\ BeepFilter(r, old, Below(c, g)) = BeepFilter(s, old, Below(c, g))
          /\ BeepFilter(r, new, Below(c, g)) = BeepFilter(s, new, Below(c, g))
      <4>1. Below(c, g) \subseteq Node
        BY TreeAssumption DEF Below, Node
      <4>2. \A n \in Node : BeepSevr(r, n) = BeepSevr(s, n)
        BY <2>8 DEF SameBeepSevr, BeepSevr, Node
      <4> QED BY <4>1, <4>2 DEF BeepFilter
    <3>2. /\ BeepFilter(s, old, Below(c, g)) = Heard(s, c, g, oldSevr)
          /\ BeepFilter(s, new, Below(c, g)) = Heard(s, c, g, newSevr)
      BY <1>1, HeardInSteps DEF old, new
    <3> QED BY <3>1, <3>2
  <2>10. UnackMoved(s, t, c, oldSevr, newSevr)
    BY <2>4, <2>6, <2>7, <2>9 DEF UnackMoved, UnackUp, BeepUp
  <2>11. CurMoved(s, t, c, x, x)
    <3>1. \A g \in Group : s.group[g].curSev \in [Sevr -> Int]
      BY DEF State, GroupData
    <3>2. \A g \in Group : Shift(s.group[g].curSev, x, x, 1) = s.group[g].curSev
      BY <3>1, ShiftNone
    <3> QED BY <2>4, <2>6, <2>7, <3>2 DEF CurMoved, UnackUp, BeepUp
  <2>12. Frame(s, t, c)
    <3>1. TopsExact(s) => TopsExact(t)
      <4> SUFFICES ASSUME TopsExact(s), NEW g \in Group
                   PROVE  /\ t.group[g].unackSevr = alHighestSeverity(t.group[g].unackSev)
                          /\ t.group[g].unackBeepSevr =
                               alHighestBeepSeverity(t.group[g].unackBeepSev, t.group[g].beepSevr)
        BY DEF TopsExact
      <4>1. t.group[g].unackSevr = alHighestSeverity(t.group[g].unackSev)
        <5>1. CASE g \in Anc[c]
          BY <2>4, <2>6, <2>7, <5>1 DEF UnackUp, BeepUp
        <5>2. CASE g \notin Anc[c]
          BY <2>4, <2>6, <2>7, <5>2 DEF TopsExact, UnackUp, BeepUp
        <5> QED BY <5>1, <5>2
      <4>2. t.group[g].unackBeepSevr = alHighestBeepSeverity(t.group[g].unackBeepSev, t.group[g].beepSevr)
        <5>1. CASE g \in Anc[c]
          BY <2>4, <2>6, <2>7, <5>1 DEF UnackUp, BeepUp
        <5>2. CASE g \notin Anc[c]
          BY <2>4, <2>6, <2>7, <5>2 DEF TopsExact, UnackUp, BeepUp
        <5> QED BY <5>1, <5>2
      <4> QED BY <4>1, <4>2
    <3> QED BY <2>4, <2>6, <2>7, <2>8, <3>1 DEF Frame, UnackUp, BeepUp
  <2> QED BY <2>7, <2>10, <2>11, <2>12 DEF Moved, oldSevr
<1> QED BY <1>2, <1>3

(* A bit of the mask of a channel is set: no severity counter moves.       *)
LEMMA SetMaskBitMoves ==
  ASSUME NEW s \in State, NEW c \in Chan, NEW b \in MaskBit, NEW on \in BOOLEAN,
         on # On(s, c, b), NEW t, t = SetMaskBit(s, c, b, on), NEW x, NEW u
  PROVE  /\ Moved(s, t, c, x, x, u, u)
         /\ Has(t, c, IF on THEN s.chan[c].curMask \cup {b} ELSE s.chan[c].curMask \ {b},
                s.chan[c].curSevr, s.chan[c].unackSevr)
<1> DEFINE Up(g) == IF on THEN [s.group[g] EXCEPT !.mask[b] = @ + 1]
                    ELSE IF s.group[g].mask[b] > 0 THEN [s.group[g] EXCEPT !.mask[b] = @ - 1]
                    ELSE s.group[g]
           F == [g \in Group |-> IF g \in Anc[c] THEN Up(g) ELSE s.group[g]]
           m == IF on THEN s.chan[c].curMask \cup {b} ELSE s.chan[c].curMask \ {b}
           C == [s.chan EXCEPT ![c].curMask = m]
<1>1. t = [s EXCEPT !.group = F, !.chan = C]
  BY DEF SetMaskBit, State
<1>2. t \in State
  BY SetMaskBitEffect DEF BitChanged
<1>3. ASSUME NEW g \in Group
      PROVE  /\ Up(g).curSev = s.group[g].curSev
             /\ Up(g).unackSev = s.group[g].unackSev
             /\ Up(g).unackSevr = s.group[g].unackSevr
             /\ Up(g).unackBeepSev = s.group[g].unackBeepSev
             /\ Up(g).unackBeepSevr = s.group[g].unackBeepSevr
             /\ Up(g).beepSevr = s.group[g].beepSevr
             /\ Up(g).beepSev = s.group[g].beepSev
  <2>1. s.group[g] \in GroupData
    BY DEF State
  <2> QED BY <2>1 DEF GroupData
<1>4. /\ \A e \in Chan \ {c} : C[e] = s.chan[e]
      /\ C[c].beepSevr = s.chan[c].beepSevr
      /\ C[c].curMask = m
      /\ C[c].curSevr = s.chan[c].curSevr
      /\ C[c].unackSevr = s.chan[c].unackSevr
  <2> HIDE DEF m
  <2> QED BY DEF State, ChanData
<1> HIDE DEF C, Up
<1>5. t.group = F /\ t.chan = C
  BY <1>1 DEF State
<1>6. \A g \in Group : t.group[g] = IF g \in Anc[c] THEN Up(g) ELSE s.group[g]
  BY <1>5
<1> HIDE DEF F
<1>7. ASSUME NEW g \in Group
      PROVE  /\ t.group[g].curSev = s.group[g].curSev
             /\ t.group[g].unackSev = s.group[g].unackSev
             /\ t.group[g].unackSevr = s.group[g].unackSevr
             /\ t.group[g].unackBeepSev = s.group[g].unackBeepSev
             /\ t.group[g].unackBeepSevr = s.group[g].unackBeepSevr
             /\ t.group[g].beepSevr = s.group[g].beepSevr
             /\ t.group[g].beepSev = s.group[g].beepSev
  BY <1>3, <1>6
<1>8. Frame(s, t, c)
  BY <1>2, <1>4, <1>5, <1>7 DEF Frame, SameBeepSevr, TopsExact
<1>9. Moved(s, t, c, x, x, u, u)
  BY <1>7, <1>8, MovedNothing
<1> QED BY <1>4, <1>5, <1>9 DEF Has

----------------------------------------------------------------------------
(* Functions that leave the counters of a channel in step with it.         *)

\* what the counters should see of a channel: AlarmProperties' Shown and Unack of state s
ShownOf(s, c) == IF "Disable" \in s.chan[c].curMask THEN NO_ALARM ELSE s.chan[c].curSevr
UnackOf(s, c) ==
  IF GlobalFlag /\ s.chan[c].curMask \cap {"Disable", "Ack"} # {} THEN NO_ALARM
  ELSE s.chan[c].unackSevr

(* In local mode a disabled channel has nothing to acknowledge.            *)
Quiet(s, c) ==
  ~GlobalFlag /\ "Disable" \in s.chan[c].curMask => s.chan[c].unackSevr = NO_ALARM

InStep(s, t, c) ==
  /\ Moved(s, t, c, ShownOf(s, c), ShownOf(t, c), UnackOf(s, c), UnackOf(t, c))
  /\ t.chan[c].curMask \ {"AckT"} = s.chan[c].curMask \ {"AckT"}
  /\ Quiet(s, c) => Quiet(t, c)

(* The counters stay in step through one call after the other.             *)
LEMMA InStepComposes ==
  ASSUME NEW s \in State, NEW t, NEW r, NEW c \in Chan, InStep(s, t, c), InStep(t, r, c)
  PROVE  InStep(s, r, c)
<1>1. Moved(s, r, c, ShownOf(s, c), ShownOf(r, c), UnackOf(s, c), UnackOf(r, c))
  <2> HIDE DEF Moved
  <2> QED BY MovedComposes DEF InStep
<1> QED BY <1>1 DEF InStep

(* What moves nothing and leaves mask and severities alone.                *)
LEMMA InStepSame ==
  ASSUME NEW s \in State, NEW t, NEW c \in Chan,
         Moved(s, t, c, ShownOf(s, c), ShownOf(s, c), UnackOf(s, c), UnackOf(s, c)),
         Has(t, c, s.chan[c].curMask, s.chan[c].curSevr, s.chan[c].unackSevr)
  PROVE  InStep(s, t, c)
<1>1. ShownOf(t, c) = ShownOf(s, c) /\ UnackOf(t, c) = UnackOf(s, c)
  BY DEF ShownOf, UnackOf, Has
<1> QED BY <1>1 DEF InStep, Quiet, Has

(* An early return.                                                        *)
LEMMA InStepReflexive ==
  ASSUME NEW s \in State, NEW c \in Chan PROVE InStep(s, s, c)
BY InStepSame, MovedReflexive DEF Has

(* Assignments to other fields of a channel.                               *)
LEMMA InStepChan ==
  ASSUME NEW s \in State, NEW c \in Chan, NEW d \in ChanData,
         d.beepSevr = s.chan[c].beepSevr, d.curMask = s.chan[c].curMask,
         d.curSevr = s.chan[c].curSevr, d.unackSevr = s.chan[c].unackSevr
  PROVE  InStep(s, [s EXCEPT !.chan[c] = d], c)
<1> SUFFICES ASSUME NEW t, t = [s EXCEPT !.chan[c] = d] PROVE InStep(s, t, c)
  OBVIOUS
<1>1. t.chan[c] = d /\ Moved(s, t, c, ShownOf(s, c), ShownOf(s, c), UnackOf(s, c), UnackOf(s, c))
  BY MovedChan
<1> QED BY <1>1, InStepSame DEF Has

(* Assignments to the setup.                                               *)
LEMMA InStepSetup ==
  ASSUME NEW s \in State, NEW c \in Chan, NEW p \in Setup
  PROVE  InStep(s, [s EXCEPT !.psetup = p], c)
<1> SUFFICES ASSUME NEW t, t = [s EXCEPT !.psetup = p] PROVE InStep(s, t, c)
  OBVIOUS
<1>1. t.chan = s.chan /\ Moved(s, t, c, ShownOf(s, c), ShownOf(s, c), UnackOf(s, c), UnackOf(s, c))
  BY MovedSetup
<1> QED BY <1>1, InStepSame DEF Has

(* SilenceReset.                                                           *)
LEMMA SilenceResetInStep ==
  ASSUME NEW s \in State, NEW c \in Chan
  PROVE  InStep(s, SilenceReset(s), c) /\ InStep(s, silenceCurrentReset(s), c)
<1> DEFINE p == [s.psetup EXCEPT !.silenceCurrent = FALSE]
<1>1. p \in Setup
  BY DEF State, Setup
<1>2. InStep(s, [s EXCEPT !.psetup = p], c)
  BY <1>1, InStepSetup
<1>3. silenceCurrentReset(s) = [s EXCEPT !.psetup = p]
  BY DEF silenceCurrentReset
<1> QED BY <1>2, <1>3, InStepReflexive DEF SilenceReset

(* alSaveAlarmEvent.                                                       *)
LEMMA alSaveAlarmEventInStep ==
  ASSUME NEW s \in State, NEW c \in Chan
  PROVE  InStep(s, alSaveAlarmEvent(s, c), c)
<1> DEFINE d == s.chan[c]
           e == [stat |-> d.curStat, sevr |-> d.curSevr, acks |-> d.unackSevr,
                 ackt |-> IF On(s, c, "AckT") THEN 0 ELSE 1]
           f == IF GlobalFlag THEN e ELSE [e EXCEPT !.acks = 0, !.ackt = 0]
           d2 == [d EXCEPT !.caAlarmEvent = f]
<1>1. d \in ChanData
  BY DEF State
<1>2. e \in AlarmEvent
  BY <1>1 DEF ChanData, AlarmEvent
<1>3. f \in AlarmEvent
  BY <1>2, SevrBounds DEF AlarmEvent, NO_ALARM
<1> HIDE DEF f
<1>4. /\ d2 \in ChanData /\ d2.curMask = d.curMask /\ d2.beepSevr = d.beepSevr
      /\ d2.curSevr = d.curSevr /\ d2.unackSevr = d.unackSevr
  BY <1>1, <1>3 DEF ChanData
<1>5. InStep(s, [s EXCEPT !.chan[c] = d2], c)
  BY <1>4, InStepChan
<1> QED BY <1>5 DEF alSaveAlarmEvent, f

(* alSetUnackSevChan, for a channel whose severity is counted.             *)
LEMMA alSetUnackSevChanInStep ==
  ASSUME NEW s \in State, NEW c \in Chan, NEW newSevr \in Sevr,
         ~GlobalFlag \/ s.chan[c].curMask \cap {"Disable", "Ack"} = {},
         newSevr = NO_ALARM \/ GlobalFlag \/ ~On(s, c, "Disable")
  PROVE  InStep(s, alSetUnackSevChan(s, c, newSevr), c)
<1> SUFFICES ASSUME NEW t, t = alSetUnackSevChan(s, c, newSevr) PROVE InStep(s, t, c)
  OBVIOUS
<1>1. /\ Moved(s, t, c, ShownOf(s, c), ShownOf(s, c), s.chan[c].unackSevr, newSevr)
      /\ Has(t, c, s.chan[c].curMask, s.chan[c].curSevr, newSevr)
  BY alSetUnackSevChanEffect
<1>2. /\ UnackOf(s, c) = s.chan[c].unackSevr /\ UnackOf(t, c) = newSevr
      /\ ShownOf(t, c) = ShownOf(s, c)
  BY <1>1 DEF Has, UnackOf, ShownOf
<1>3. Moved(s, t, c, ShownOf(s, c), ShownOf(t, c), UnackOf(s, c), UnackOf(t, c))
  BY <1>1, <1>2
<1> QED BY <1>1, <1>3 DEF InStep, Has, Quiet, On

(* ackChan, for a channel whose severity is counted or kept by the IOC.    *)
LEMMA ackChanInStep ==
  ASSUME NEW s \in State, NEW c \in Chan,
         ~(GlobalFlag /\ PassiveFlag) \/ s.chan[c].curMask \cap {"Disable", "Ack"} = {}
  PROVE  InStep(s, ackChan(s, c), c)
<1>1. CASE GlobalFlag /\ ~PassiveFlag
  BY <1>1, InStepReflexive DEF ackChan
<1>2. CASE ~(GlobalFlag /\ ~PassiveFlag)
  <2>1. InStep(s, alSetUnackSevChan(s, c, NO_ALARM), c)
    BY <1>2, SevrBounds, FlagAssumption, alSetUnackSevChanInStep
  <2> QED BY <1>2, <2>1 DEF ackChan
<1> QED BY <1>1, <1>2

(* A bit that is not one of Disable and Ack is set.                        *)
LEMMA SetMaskBitInStep ==
  ASSUME NEW s \in State, NEW c \in Chan, NEW b \in MaskBit \ {"Disable", "Ack"},
         NEW on \in BOOLEAN, on # On(s, c, b), NEW t, t = SetMaskBit(s, c, b, on)
  PROVE  /\ Moved(s, t, c, ShownOf(s, c), ShownOf(t, c), UnackOf(s, c), UnackOf(t, c))
         /\ Has(t, c, IF on THEN s.chan[c].curMask \cup {b} ELSE s.chan[c].curMask \ {b},
                s.chan[c].curSevr, s.chan[c].unackSevr)
         /\ Quiet(s, c) => Quiet(t, c)
<1>1. /\ Moved(s, t, c, ShownOf(s, c), ShownOf(s, c), UnackOf(s, c), UnackOf(s, c))
      /\ Has(t, c, IF on THEN s.chan[c].curMask \cup {b} ELSE s.chan[c].curMask \ {b},
             s.chan[c].curSevr, s.chan[c].unackSevr)
  <2>1. b \in MaskBit
    OBVIOUS
  <2> QED BY <2>1, SetMaskBitMoves
<1>2. /\ "Disable" \in t.chan[c].curMask <=> "Disable" \in s.chan[c].curMask
      /\ t.chan[c].curMask \cap {"Disable", "Ack"} = s.chan[c].curMask \cap {"Disable", "Ack"}
  <2>1. b # "Disable" /\ b # "Ack"
    OBVIOUS
  <2> QED BY <1>1, <2>1 DEF Has
<1>3. ShownOf(t, c) = ShownOf(s, c) /\ UnackOf(t, c) = UnackOf(s, c)
  BY <1>1, <1>2 DEF Has, ShownOf, UnackOf
<1> QED BY <1>1, <1>2, <1>3 DEF Has, Quiet

(* alSetAckTChan, which the events of an IOC call.                         *)
LEMMA alSetAckTChanInStep ==
  ASSUME NEW s \in State, NEW c \in Chan, NEW newAckT \in BOOLEAN, GlobalFlag
  PROVE  InStep(s, alSetAckTChan(s, c, newAckT), c)
<1> DEFINE d == s.chan[c]
           lower == /\ ~newAckT
                    /\ d.unackSevr > d.curSevr
                    /\ ~GlobalFlag \/ d.curMask \cap {"Disable", "Ack"} = {}
           s1 == IF lower THEN alSetUnackSevChan(s, c, d.curSevr) ELSE s
<1>1. CASE newAckT = On(s, c, "AckT")
  BY <1>1, InStepReflexive DEF alSetAckTChan
<1>2. CASE newAckT # On(s, c, "AckT")
  <2> SUFFICES ASSUME NEW t, t = SetMaskBit(s1, c, "AckT", newAckT) PROVE InStep(s, t, c)
    BY <1>2 DEF alSetAckTChan
  <2>1. d.curSevr \in Sevr
    BY DEF State, ChanData
  <2>2. InStep(s, s1, c) /\ s1 \in State /\ On(s1, c, "AckT") = On(s, c, "AckT")
    <3>1. CASE lower
      <4>1. Preserves(s, s1)
        BY <2>1, <3>1, alSetUnackSevChanPreserves
      <4>2. InStep(s, alSetUnackSevChan(s, c, d.curSevr), c)
        BY <2>1, <3>1, alSetUnackSevChanInStep
      <4>3. On(alSetUnackSevChan(s, c, d.curSevr), c, "AckT") = On(s, c, "AckT")
        BY <2>1, alSetUnackSevChanMask DEF On
      <4> QED BY <3>1, <4>1, <4>2, <4>3 DEF Preserves
    <3>2. CASE ~lower
      BY <3>2, InStepReflexive
    <3> QED BY <3>1, <3>2
  <2> HIDE DEF s1
  <2>3. "AckT" \in MaskBit \ {"Disable", "Ack"}
    BY DEF MaskBit
  <2>4. newAckT # On(s1, c, "AckT")
    BY <1>2, <2>2
  <2>5. /\ Moved(s1, t, c, ShownOf(s1, c), ShownOf(t, c), UnackOf(s1, c), UnackOf(t, c))
        /\ Has(t, c, IF newAckT THEN s1.chan[c].curMask \cup {"AckT"}
                     ELSE s1.chan[c].curMask \ {"AckT"},
               s1.chan[c].curSevr, s1.chan[c].unackSevr)
        /\ Quiet(s1, c) => Quiet(t, c)
    BY <2>2, <2>3, <2>4, SetMaskBitInStep
  <2>6. InStep(s1, t, c)
    BY <2>5 DEF InStep, Has
  <2> QED BY <2>2, <2>6, InStepComposes
<1> QED BY <1>1, <1>2

(* The take-over of the IOC's acknowledgement.                             *)
LEMMA AdoptGlobalInStep ==
  ASSUME NEW s \in State, NEW c \in Chan, NEW acks \in Sevr, NEW ackt \in BOOLEAN, GlobalFlag
  PROVE  InStep(s, AdoptGlobal(s, c, acks, ackt), c)
<1> DEFINE s1 == IF s.chan[c].unackSevr = acks THEN s
                 ELSE IF s.chan[c].curMask \cap {"Disable", "Ack"} = {}
                 THEN alSetUnackSevChan(s, c, acks)
                 ELSE [s EXCEPT !.chan[c].unackSevr = acks]
<1>1. Preserves(s, s1)
  BY PreservesReflexive, alSetUnackSevChanPreserves, PreservesUnackSevr
<1>2. InStep(s, s1, c)
  <2>1. CASE s.chan[c].unackSevr = acks
    BY <2>1, InStepReflexive
  <2>2. CASE s.chan[c].unackSevr # acks /\ s.chan[c].curMask \cap {"Disable", "Ack"} = {}
    BY <2>2, alSetUnackSevChanInStep
  <2>3. CASE s.chan[c].unackSevr # acks /\ s.chan[c].curMask \cap {"Disable", "Ack"} # {}
    <3> DEFINE d == [s.chan[c] EXCEPT !.unackSevr = acks]
               t == [s EXCEPT !.chan[c] = d]
    <3>1. /\ d \in ChanData /\ d.beepSevr = s.chan[c].beepSevr /\ d.curMask = s.chan[c].curMask
          /\ d.curSevr = s.chan[c].curSevr
      BY DEF State, ChanData
    <3>2. s1 = t
      BY <2>3
    <3> HIDE DEF d, s1
    <3>3. /\ t.chan[c] = d
          /\ Moved(s, t, c, ShownOf(s, c), ShownOf(s, c), UnackOf(s, c), UnackOf(s, c))
      BY <3>1, MovedChan
    <3> HIDE DEF t
    <3>4. ShownOf(t, c) = ShownOf(s, c) /\ UnackOf(t, c) = UnackOf(s, c)
      BY <2>3, <3>1, <3>3 DEF ShownOf, UnackOf
    <3> QED BY <3>1, <3>2, <3>3, <3>4 DEF InStep, Quiet
  <2> QED BY <2>1, <2>2, <2>3
<1> HIDE DEF s1
<1> s1 \in State
  BY <1>1 DEF Preserves
<1>3. InStep(s1, alSetAckTChan(s1, c, ackt), c)
  BY alSetAckTChanInStep
<1>4. InStep(s, alSetAckTChan(s1, c, ackt), c)
  BY <1>2, <1>3, InStepComposes
<1> QED BY <1>4 DEF AdoptGlobal, s1

(* The latch of the unacknowledged severity.                               *)
LEMMA UnacknowledgeInStep ==
  ASSUME NEW s \in State, NEW c \in Chan, NEW sev \in Sevr, ~On(s, c, "Disable")
  PROVE  InStep(s, Unacknowledge(s, c, sev), c)
<1> DEFINE latch == ~GlobalFlag /\ (sev >= s.chan[c].unackSevr \/ On(s, c, "AckT"))
           s1 == IF latch THEN alSetUnackSevChan(s, c, sev) ELSE s
<1>1. Preserves(s, s1) /\ InStep(s, s1, c)
  <2>1. CASE latch
    BY <2>1, alSetUnackSevChanPreserves, alSetUnackSevChanInStep
  <2>2. CASE ~latch
    BY <2>2, PreservesReflexive, InStepReflexive
  <2> QED BY <2>1, <2>2
<1> HIDE DEF s1
<1> s1 \in State
  BY <1>1 DEF Preserves
<1>2. InStep(s, SilenceReset(s1), c)
  BY <1>1, SilenceResetInStep, InStepComposes
<1> QED BY <1>2 DEF Unacknowledge, s1

(* ProcessChange, for a channel that is not disabled.                      *)
LEMMA ProcessChangeInStep ==
  ASSUME NEW s \in State, NEW c \in Chan, NEW stat \in Stat, NEW sev \in Sevr,
         ~On(s, c, "Disable")
  PROVE  InStep(s, ProcessChange(s, c, stat, sev), c)
<1> DEFINE d == s.chan[c]
           prev == d.curSevr
           pv == IF sev # prev THEN alCaPutSevrValue(d.sevrPV, sev) ELSE d.sevrPV
           d1 == [d EXCEPT !.curStat = stat, !.curSevr = sev, !.sevrPV = pv]
           s1 == [s EXCEPT !.chan[c] = d1]
           s2 == CurSevUp(s1, c, sev, prev, TRUE)
<1>1. d \in ChanData /\ prev \in Sevr
  BY DEF State, ChanData
<1>2. pv \in Int
  BY <1>1 DEF ChanData, alCaPutSevrValue, Sevr
<1> HIDE DEF pv
<1>3. /\ d1 \in ChanData /\ d1.curMask = d.curMask /\ d1.beepSevr = d.beepSevr
      /\ d1.unackSevr = d.unackSevr /\ d1.curSevr = sev
  BY <1>1, <1>2 DEF ChanData
<1>4. s1 = [s EXCEPT !.chan[c].curStat = stat, !.chan[c].curSevr = sev,
                     !.chan[c].sevrPV = IF sev # prev THEN alCaPutSevrValue(@, sev) ELSE @]
  BY DEF State, pv
<1> HIDE DEF d1
<1>5. s1.chan[c] = d1 /\ Moved(s, s1, c, prev, prev, UnackOf(s, c), UnackOf(s, c))
  BY <1>3, MovedChan
<1> HIDE DEF s1
<1> s1 \in State
  BY <1>5 DEF Moved, Frame
<1>6. s2.chan = s1.chan /\ Moved(s1, s2, c, prev, sev, UnackOf(s, c), UnackOf(s, c))
  <2>1. TRUE \in BOOLEAN
    OBVIOUS
  <2> HIDE DEF prev
  <2> QED BY <1>1, <2>1, CurSevUpEffect
<1> HIDE DEF s2
<1>7. Moved(s, s2, c, prev, sev, UnackOf(s, c), UnackOf(s, c))
  BY <1>5, <1>6, MovedComposes
<1> s2 \in State
  BY <1>7 DEF Moved, Frame
<1>8. /\ Has(s2, c, d.curMask, sev, d.unackSevr)
      /\ prev = ShownOf(s, c) /\ sev = ShownOf(s2, c) /\ UnackOf(s2, c) = UnackOf(s, c)
  BY <1>3, <1>5, <1>6 DEF Has, ShownOf, UnackOf, On
<1>9. InStep(s, s2, c)
  <2>1. Moved(s, s2, c, ShownOf(s, c), ShownOf(s2, c), UnackOf(s, c), UnackOf(s2, c))
    BY <1>7, <1>8
  <2> QED BY <1>8, <2>1 DEF InStep, Has, Quiet
<1>10. InStep(s2, Unacknowledge(s2, c, sev), c)
  BY <1>8, UnacknowledgeInStep DEF Has, On
<1>11. InStep(s, Unacknowledge(s2, c, sev), c)
  BY <1>9, <1>10, InStepComposes
<1>12. ProcessChange(s, c, stat, sev) = IF On(s, c, "Ack") THEN s2 ELSE Unacknowledge(s2, c, sev)
  BY <1>4 DEF ProcessChange, s2
<1> QED BY <1>9, <1>11, <1>12

(* An alarm is applied: a disabled channel is not counted.                 *)
LEMMA ApplyAlarmInStep ==
  ASSUME NEW s \in State, NEW c \in Chan, NEW stat \in Stat, NEW sev \in Sevr
  PROVE  InStep(s, ApplyAlarm(s, c, stat, sev), c)
<1> DEFINE d == [s.chan[c] EXCEPT !.curStat = stat, !.curSevr = sev]
           t == [s EXCEPT !.chan[c] = d]
<1>1. CASE s.chan[c].curStat = stat /\ s.chan[c].curSevr = sev
  BY <1>1, InStepReflexive DEF ApplyAlarm
<1>2. CASE ~(s.chan[c].curStat = stat /\ s.chan[c].curSevr = sev) /\ On(s, c, "Disable")
  <2>1. /\ d \in ChanData /\ d.beepSevr = s.chan[c].beepSevr /\ d.curMask = s.chan[c].curMask
        /\ d.unackSevr = s.chan[c].unackSevr
    BY DEF State, ChanData
  <2>2. ApplyAlarm(s, c, stat, sev) = t
    BY <1>2 DEF ApplyAlarm, State
  <2> HIDE DEF d
  <2>3. t.chan[c] = d /\ Moved(s, t, c, ShownOf(s, c), ShownOf(s, c), UnackOf(s, c), UnackOf(s, c))
    BY <2>1, MovedChan
  <2> HIDE DEF t
  <2>4. ShownOf(t, c) = ShownOf(s, c) /\ UnackOf(t, c) = UnackOf(s, c)
    BY <1>2, <2>1, <2>3 DEF ShownOf, UnackOf, On
  <2>5. InStep(s, t, c)
    BY <2>1, <2>3, <2>4 DEF InStep, Quiet
  <2> QED BY <2>2, <2>5
<1>3. CASE ~(s.chan[c].curStat = stat /\ s.chan[c].curSevr = sev) /\ ~On(s, c, "Disable")
  <2>1. ApplyAlarm(s, c, stat, sev) = ProcessChange(s, c, stat, sev)
    BY <1>3 DEF ApplyAlarm
  <2> QED BY <1>3, <2>1, ProcessChangeInStep
<1> QED BY <1>1, <1>2, <1>3

(* alNewAlarmProcess.                                                      *)
LEMMA alNewAlarmProcessInStep ==
  ASSUME NEW s \in State, NEW c \in Chan, NEW stat \in Stat, NEW sev \in Sevr,
         NEW acks \in Sevr, NEW ackt \in BOOLEAN
  PROVE  InStep(s, alNewAlarmProcess(s, c, stat, sev, acks, ackt), c)
<1> DEFINE s1 == IF stat = "NOT_CONNECTED" /\ sev = ERROR_STATE
                 THEN alSaveAlarmEvent(s, c) ELSE s
           p  == [s1.psetup EXCEPT !.newUnackBeepSevr = NO_ALARM]
           s2 == [s1 EXCEPT !.psetup.newUnackBeepSevr = NO_ALARM]
           s3 == IF GlobalFlag THEN AdoptGlobal(s2, c, acks, ackt) ELSE s2
<1>1. Preserves(s, s1) /\ InStep(s, s1, c)
  BY alSaveAlarmEventPreserves, PreservesReflexive, alSaveAlarmEventInStep, InStepReflexive
<1> HIDE DEF s1
<1> s1 \in State
  BY <1>1 DEF Preserves
<1>2. InStep(s1, s2, c) /\ s2 \in State
  <2>1. p \in Setup
    BY SevrBounds DEF State, Setup
  <2>2. s2 = [s1 EXCEPT !.psetup = p]
    OBVIOUS
  <2> HIDE DEF p, s2
  <2>3. InStep(s1, s2, c)
    BY <2>1, <2>2, InStepSetup
  <2> QED BY <2>3 DEF InStep, Moved, Frame
<1>3. InStep(s, s2, c)
  BY <1>1, <1>2, InStepComposes
<1> HIDE DEF s2
<1>4. InStep(s2, s3, c)
  BY <1>2, AdoptGlobalInStep, InStepReflexive
<1>5. InStep(s, s3, c)
  BY <1>2, <1>3, <1>4, InStepComposes
<1> HIDE DEF s3
<1> s3 \in State
  BY <1>5 DEF InStep, Moved, Frame
<1>6. InStep(s3, ApplyAlarm(s3, c, stat, sev), c)
  BY ApplyAlarmInStep
<1>7. InStep(s, ApplyAlarm(s3, c, stat, sev), c)
  BY <1>5, <1>6, InStepComposes
<1> QED BY <1>7 DEF alNewAlarmProcess, s1, s2, s3

(* Every report of a channel leaves the counters in step, whatever its     *)
(* mask.                                                                   *)
LEMMA alNewEventInStep ==
  ASSUME NEW s \in State, NEW c \in Chan, NEW stat \in Stat, NEW sevr \in Sevr,
         NEW acks \in Sevr, NEW acktCA \in Int
  PROVE  InStep(s, alNewEvent(s, c, stat, sevr, acks, acktCA), c)
<1> DEFINE ackt == IF acktCA = -1 THEN On(s, c, "AckT") ELSE acktCA = 0
<1>1. ackt \in BOOLEAN
  <2>1. On(s, c, "AckT") \in BOOLEAN
    BY DEF On
  <2>2. CASE acktCA = -1
    BY <2>1, <2>2
  <2>3. CASE acktCA # -1
    BY <2>3
  <2> QED BY <2>2, <2>3
<1> HIDE DEF ackt
<1>2. InStep(s, alNewAlarmProcess(s, c, stat, sevr, acks, ackt), c)
  BY <1>1, alNewAlarmProcessInStep
<1> QED BY <1>2 DEF alNewEvent, ackt

(* So does the event that is processed again after a reconnection.         *)
LEMMA alConnectEventInStep ==
  ASSUME NEW s \in State, NEW c \in Chan
  PROVE  InStep(s, alConnectEvent(s, c), c)
<1> DEFINE e == s.chan[c].caAlarmEvent
<1>1. e.stat \in Stat /\ e.sevr \in Sevr /\ e.acks \in Sevr /\ e.ackt \in Int
  BY DEF State, ChanData, AlarmEvent
<1> HIDE DEF e
<1>2. InStep(s, alNewEvent(s, c, e.stat, e.sevr, e.acks, e.ackt), c)
  BY <1>1, alNewEventInStep
<1> QED BY <1>2, InStepReflexive DEF alConnectEvent, e

----------------------------------------------------------------------------
(* The parts of alChangeChanMask.                                          *)

(* SilenceReset moves nothing.                                             *)
LEMMA SilenceResetMoves ==
  ASSUME NEW s \in State, NEW c \in Chan, NEW x, NEW u
  PROVE  Moved(s, SilenceReset(s), c, x, x, u, u) /\ SilenceReset(s).chan = s.chan
<1> DEFINE p == [s.psetup EXCEPT !.silenceCurrent = FALSE]
<1>1. p \in Setup
  BY DEF State, Setup
<1>2. Moved(s, [s EXCEPT !.psetup = p], c, x, x, u, u) /\ [s EXCEPT !.psetup = p].chan = s.chan
  BY <1>1, MovedSetup
<1>3. silenceCurrentReset(s) = [s EXCEPT !.psetup = p]
  BY DEF silenceCurrentReset
<1> QED BY <1>2, <1>3, MovedReflexive DEF SilenceReset

(* The assignment of unackSevr alone moves nothing.                        *)
LEMMA UnackSevrMoves ==
  ASSUME NEW s \in State, NEW c \in Chan, NEW v \in Sevr, NEW x, NEW u,
         NEW t, t = [s EXCEPT !.chan[c].unackSevr = v]
  PROVE  /\ Moved(s, t, c, x, x, u, u)
         /\ Has(t, c, s.chan[c].curMask, s.chan[c].curSevr, v)
<1> DEFINE d == [s.chan[c] EXCEPT !.unackSevr = v]
<1>1. /\ d \in ChanData /\ d.beepSevr = s.chan[c].beepSevr /\ d.curMask = s.chan[c].curMask
      /\ d.curSevr = s.chan[c].curSevr /\ d.unackSevr = v
  BY DEF State, ChanData
<1>2. t = [s EXCEPT !.chan[c] = d]
  OBVIOUS
<1> HIDE DEF d
<1>3. /\ Moved(s, [s EXCEPT !.chan[c] = d], c, x, x, u, u)
      /\ [s EXCEPT !.chan[c] = d].chan[c] = d
  BY <1>1, MovedChan
<1>4. Moved(s, t, c, x, x, u, u) /\ t.chan[c] = d
  BY <1>2, <1>3, Zenon
<1> QED BY <1>1, <1>4 DEF Has

(* The current alarm is processed again, from a channel that looks normal  *)
(* and has v to acknowledge: the counters end in step if they see it so.   *)
LEMMA ReprocessMoves ==
  ASSUME NEW s \in State, NEW c \in Chan, NEW v \in Sevr, NEW t, t = Reprocess(s, c, v),
         v = NO_ALARM \/ GlobalFlag \/ ~On(s, c, "Disable")
  PROVE  /\ Moved(s, t, c, NO_ALARM, ShownOf(t, c),
                  IF GlobalFlag /\ s.chan[c].curMask \cap {"Disable", "Ack"} # {}
                  THEN NO_ALARM ELSE v, UnackOf(t, c))
         /\ t.chan[c].curMask \ {"AckT"} = s.chan[c].curMask \ {"AckT"}
         /\ Quiet(t, c)
<1> DEFINE d == s.chan[c]
           d1 == [d EXCEPT !.curSevr = NO_ALARM, !.unackSevr = v]
           u == IF GlobalFlag /\ s.chan[c].curMask \cap {"Disable", "Ack"} # {}
                THEN NO_ALARM ELSE v
<1>1. PICK s1 : s1 = [s EXCEPT !.chan[c] = d1]
  OBVIOUS
<1>2. s1 = [s EXCEPT !.chan[c].curSevr = NO_ALARM, !.chan[c].unackSevr = v]
  BY <1>1 DEF State
<1>3. t = alNewAlarmProcess(s1, c, d.curStat, d.curSevr, d.unackSevr, On(s, c, "AckT"))
  BY <1>2 DEF Reprocess
<1>4. /\ d1 \in ChanData /\ d1.curMask = d.curMask /\ d1.beepSevr = d.beepSevr
      /\ d1.curSevr = NO_ALARM /\ d1.unackSevr = v
  BY SevrBounds DEF State, ChanData
<1>5. /\ d.curStat \in Stat /\ d.curSevr \in Sevr /\ d.unackSevr \in Sevr
      /\ On(s, c, "AckT") \in BOOLEAN
  BY DEF State, ChanData, On
<1> HIDE DEF d1, u
<1>6. Moved(s, s1, c, NO_ALARM, NO_ALARM, u, u) /\ s1.chan[c] = d1
  BY <1>1, <1>4, MovedChan
<1> s1 \in State
  BY <1>6 DEF Moved, Frame
<1>7. InStep(s1, t, c)
  BY <1>3, <1>5, alNewAlarmProcessInStep
<1>8. ShownOf(s1, c) = NO_ALARM /\ UnackOf(s1, c) = u /\ Quiet(s1, c)
  BY <1>4, <1>6 DEF ShownOf, UnackOf, u, Quiet, On
<1>9. Moved(s1, t, c, NO_ALARM, ShownOf(t, c), u, UnackOf(t, c))
  BY <1>7, <1>8 DEF InStep
<1>10. Moved(s, t, c, NO_ALARM, ShownOf(t, c), u, UnackOf(t, c))
  BY <1>6, <1>9, MovedComposes
<1> QED BY <1>4, <1>6, <1>7, <1>8, <1>10 DEF InStep, u

(* The unacknowledged severity leaves the counters, and the channel too in *)
(* local mode.                                                             *)
LEMMA UncountUnackMoves ==
  ASSUME NEW s \in State, NEW c \in Chan, NEW t, t = UncountUnack(s, c), NEW x
  PROVE  /\ Moved(s, t, c, x, x, s.chan[c].unackSevr, NO_ALARM)
         /\ Has(t, c, s.chan[c].curMask, s.chan[c].curSevr,
                IF GlobalFlag THEN s.chan[c].unackSevr ELSE NO_ALARM)
<1> DEFINE v == s.chan[c].unackSevr
<1>1. PICK r : r = alSetUnackSevChan(s, c, NO_ALARM)
  OBVIOUS
<1>2. v \in Sevr
  BY DEF State, ChanData
<1>3. Moved(s, r, c, x, x, v, NO_ALARM) /\ Has(r, c, s.chan[c].curMask, s.chan[c].curSevr, NO_ALARM)
  BY <1>1, SevrBounds, alSetUnackSevChanEffect
<1> r \in State
  BY <1>3 DEF Moved, Frame
<1>4. CASE GlobalFlag
  <2>1. t = [r EXCEPT !.chan[c].unackSevr = v]
    BY <1>1, <1>4 DEF UncountUnack
  <2> HIDE DEF v
  <2>2. /\ Moved(r, t, c, x, x, NO_ALARM, NO_ALARM)
        /\ Has(t, c, r.chan[c].curMask, r.chan[c].curSevr, v)
    BY <1>2, <2>1, UnackSevrMoves
  <2>3. Moved(s, t, c, x, x, v, NO_ALARM)
    BY <1>3, <2>2, MovedComposes
  <2> QED BY <1>3, <1>4, <2>2, <2>3 DEF Has, v
<1>5. CASE ~GlobalFlag
  BY <1>1, <1>3, <1>5 DEF UncountUnack
<1> QED BY <1>4, <1>5

(* The automatic acknowledgement moves nothing, but in passive global mode.*)
LEMMA AutoAckMoves ==
  ASSUME NEW s \in State, NEW c \in Chan, NEW t, t = AutoAck(s, c), NEW x
  PROVE  /\ Frame(s, t, c) /\ CurMoved(s, t, c, x, x)
         /\ Has(t, c, s.chan[c].curMask, s.chan[c].curSevr,
                IF GlobalFlag THEN NO_ALARM ELSE s.chan[c].unackSevr)
         /\ ~(GlobalFlag /\ PassiveFlag) => \A u \in Sevr : UnackMoved(s, t, c, u, u)
<1> DEFINE v == s.chan[c].unackSevr
<1>1. v \in Sevr
  BY DEF State, ChanData
<1>2. CASE ~(GlobalFlag /\ v > NO_ALARM)
  <2>1. t = s /\ (GlobalFlag => v = NO_ALARM)
    BY <1>1, <1>2 DEF AutoAck, Sevr, NO_ALARM
  <2>2. \A u \in Sevr : Moved(s, s, c, x, x, u, u)
    BY MovedReflexive
  <2> QED BY <1>1, <2>1, <2>2 DEF Moved, Has
<1>3. CASE GlobalFlag /\ v > NO_ALARM
  <2>1. PICK r : r = ackChan(s, c)
    OBVIOUS
  <2>2. t = [r EXCEPT !.chan[c].unackSevr = NO_ALARM]
    BY <1>3, <2>1 DEF AutoAck
  <2>3. /\ Frame(s, r, c) /\ CurMoved(s, r, c, x, x)
        /\ r.chan[c].curMask = s.chan[c].curMask /\ r.chan[c].curSevr = s.chan[c].curSevr
        /\ ~PassiveFlag => r = s
    <3>1. CASE PassiveFlag
      <4>1. r = alSetUnackSevChan(s, c, NO_ALARM)
        BY <1>3, <2>1, <3>1 DEF ackChan
      <4>2. Moved(s, r, c, x, x, v, NO_ALARM) /\ Has(r, c, s.chan[c].curMask, s.chan[c].curSevr, NO_ALARM)
        BY <4>1, SevrBounds, alSetUnackSevChanEffect
      <4> QED BY <3>1, <4>2 DEF Moved, Has
    <3>2. CASE ~PassiveFlag
      <4>1. r = s
        BY <1>3, <2>1, <3>2 DEF ackChan
      <4>2. Moved(s, s, c, x, x, NO_ALARM, NO_ALARM)
        BY MovedReflexive
      <4> QED BY <4>1, <4>2 DEF Moved
    <3> QED BY <3>1, <3>2
  <2> r \in State
    BY <2>3 DEF Frame
  <2>4. ASSUME NEW u \in Sevr
        PROVE  /\ Moved(r, t, c, x, x, u, u)
               /\ Has(t, c, r.chan[c].curMask, r.chan[c].curSevr, NO_ALARM)
    BY <2>2, SevrBounds, UnackSevrMoves
  <2>5. /\ Frame(r, t, c) /\ CurMoved(r, t, c, x, x)
        /\ Has(t, c, r.chan[c].curMask, r.chan[c].curSevr, NO_ALARM)
    BY <2>4, SevrBounds DEF Moved
  <2>6. Frame(s, t, c) /\ CurMoved(s, t, c, x, x)
    BY <2>3, <2>5, FrameComposes, CurMovedComposes
  <2>7. ~PassiveFlag => \A u \in Sevr : UnackMoved(s, t, c, u, u)
    BY <2>3, <2>4 DEF Moved
  <2> QED BY <1>3, <2>3, <2>5, <2>6, <2>7 DEF Has
<1> QED BY <1>2, <1>3

(* Masks that the code can leave without losing count: a channel is not    *)
(* cancelled and disabled at the same time; in global mode not more than   *)
(* one of Cancel, Disable and Ack is set; in passive global mode, neither  *)
(* Disable nor Ack.                                                        *)
Weighs == {"Cancel", "Disable", "Ack"}
Apart(M) ==
  /\ ~({"Cancel", "Disable"} \subseteq M)
  /\ GlobalFlag => ~({"Cancel", "Ack"} \subseteq M) /\ ~({"Disable", "Ack"} \subseteq M)
  /\ GlobalFlag /\ PassiveFlag => M \cap {"Disable", "Ack"} = {}

(* A step of alChangeChanMask to mask, from s to t: the current severities *)
(* are counted if Cancel is not involved, the unacknowledged ones if the   *)
(* masks before and after are apart.                                       *)
MaskStep(s, t, c, mask) ==
  /\ Frame(s, t, c)
  /\ t.chan[c].curMask \cap Weighs \subseteq s.chan[c].curMask \cup mask
  /\ "Cancel" \notin s.chan[c].curMask \cup mask
     => CurMoved(s, t, c, ShownOf(s, c), ShownOf(t, c))
  /\ Apart(s.chan[c].curMask \cup mask) /\ Quiet(s, c)
     => UnackMoved(s, t, c, UnackOf(s, c), UnackOf(t, c)) /\ Quiet(t, c)

(* Fewer masks are apart too.                                              *)
LEMMA ApartSubset ==
  ASSUME NEW M, NEW L, L \cap Weighs \subseteq M, Apart(M)
  PROVE  Apart(L)
BY DEF Apart, Weighs

(* The steps of a change follow one another.                               *)
LEMMA MaskStepComposes ==
  ASSUME NEW s \in State, NEW t, NEW r, NEW c \in Chan, NEW mask,
         MaskStep(s, t, c, mask), MaskStep(t, r, c, mask)
  PROVE  MaskStep(s, r, c, mask)
<1>1. Frame(s, r, c) /\ SameBeepSevr(s, t)
  BY FrameComposes DEF MaskStep, Frame
<1>2. (t.chan[c].curMask \cup mask) \cap Weighs \subseteq s.chan[c].curMask \cup mask
  BY DEF MaskStep
<1>3. r.chan[c].curMask \cap Weighs \subseteq s.chan[c].curMask \cup mask
  BY <1>2 DEF MaskStep
<1>4. ASSUME "Cancel" \notin s.chan[c].curMask \cup mask
      PROVE  CurMoved(s, r, c, ShownOf(s, c), ShownOf(r, c))
  <2>1. "Cancel" \notin t.chan[c].curMask \cup mask
    BY <1>2, <1>4 DEF Weighs
  <2>2. CurMoved(s, t, c, ShownOf(s, c), ShownOf(t, c)) /\ CurMoved(t, r, c, ShownOf(t, c), ShownOf(r, c))
    BY <1>4, <2>1 DEF MaskStep
  <2> QED BY <2>2, CurMovedComposes
<1>5. ASSUME Apart(s.chan[c].curMask \cup mask), Quiet(s, c)
      PROVE  UnackMoved(s, r, c, UnackOf(s, c), UnackOf(r, c)) /\ Quiet(r, c)
  <2>1. Apart(t.chan[c].curMask \cup mask)
    BY <1>2, <1>5, ApartSubset
  <2>2. UnackMoved(s, t, c, UnackOf(s, c), UnackOf(t, c)) /\ Quiet(t, c)
    BY <1>5 DEF MaskStep
  <2>3. UnackMoved(t, r, c, UnackOf(t, c), UnackOf(r, c)) /\ Quiet(r, c)
    BY <2>1, <2>2 DEF MaskStep
  <2> QED BY <1>1, <2>2, <2>3, UnackMovedComposes
<1> QED BY <1>1, <1>3, <1>4, <1>5 DEF MaskStep

(* What is in step is a mask step, to any mask.                            *)
LEMMA InStepIsMaskStep ==
  ASSUME NEW s \in State, NEW t, NEW c \in Chan, InStep(s, t, c), NEW mask
  PROVE  MaskStep(s, t, c, mask)
<1>1. t.chan[c].curMask \cap Weighs \subseteq s.chan[c].curMask
  <2>1. t.chan[c].curMask \ {"AckT"} \subseteq s.chan[c].curMask
    BY DEF InStep
  <2> QED BY <2>1 DEF Weighs
<1> QED BY <1>1 DEF InStep, Moved, MaskStep

(* Cancelling gives back the unacknowledged severity.                      *)
LEMMA CancelOnMoves ==
  ASSUME NEW s \in State, NEW c \in Chan, NEW t, t = CancelOn(s, c)
  PROVE  /\ Frame(s, t, c) /\ t.chan[c].curMask = s.chan[c].curMask
         /\ UnackMoved(s, t, c, s.chan[c].unackSevr, t.chan[c].unackSevr)
<1> DEFINE d == s.chan[c]
           d1 == [d EXCEPT !.evid = FALSE]
           u == d.unackSevr
<1>1. PICK s1 : s1 = [s EXCEPT !.chan[c].evid = FALSE]
  OBVIOUS
<1>2. Moved(s, s1, c, NO_ALARM, NO_ALARM, u, u) /\ Has(s1, c, d.curMask, d.curSevr, u)
  <2>1. /\ d1 \in ChanData /\ d1.curMask = d.curMask /\ d1.beepSevr = d.beepSevr
        /\ d1.curSevr = d.curSevr /\ d1.unackSevr = u
    BY DEF State, ChanData
  <2>2. s1 = [s EXCEPT !.chan[c] = d1]
    BY <1>1
  <2> HIDE DEF d1
  <2>3. /\ Moved(s, [s EXCEPT !.chan[c] = d1], c, NO_ALARM, NO_ALARM, u, u)
        /\ [s EXCEPT !.chan[c] = d1].chan[c] = d1
    BY <2>1, MovedChan
  <2>4. Moved(s, s1, c, NO_ALARM, NO_ALARM, u, u) /\ s1.chan[c] = d1
    BY <2>2, <2>3, Zenon
  <2> QED BY <2>1, <2>4 DEF Has
<1> s1 \in State
  BY <1>2 DEF Moved, Frame
<1>3. PICK s2 : s2 = alSetUnackSevChan(s1, c, NO_ALARM)
  OBVIOUS
<1>4. /\ Moved(s1, s2, c, NO_ALARM, NO_ALARM, u, NO_ALARM)
      /\ Has(s2, c, d.curMask, d.curSevr, NO_ALARM)
  <2>1. /\ Moved(s1, s2, c, NO_ALARM, NO_ALARM, s1.chan[c].unackSevr, NO_ALARM)
        /\ Has(s2, c, s1.chan[c].curMask, s1.chan[c].curSevr, NO_ALARM)
    BY <1>3, SevrBounds, alSetUnackSevChanEffect
  <2> QED BY <1>2, <2>1 DEF Has
<1>5. Moved(s, s2, c, NO_ALARM, NO_ALARM, u, NO_ALARM)
  BY <1>2, <1>4, MovedComposes
<1> s2 \in State
  BY <1>4 DEF Moved, Frame
<1>6. PICK s3 : s3 = Uncount(s2, c)
  OBVIOUS
<1>7. Moved(s2, s3, c, d.curSevr, NO_ALARM, NO_ALARM, NO_ALARM) /\ s3.chan = s2.chan
  <2>1. s2.chan[c].curSevr = d.curSevr /\ s2.chan[c].curSevr \in Sevr /\ FALSE \in BOOLEAN
    BY <1>4 DEF Has, State, ChanData
  <2> QED BY <1>6, <2>1, SevrBounds, CurSevUpEffect DEF Uncount
<1> s3 \in State
  BY <1>7 DEF Moved, Frame
<1>8. PICK s4 : s4 = [s3 EXCEPT !.chan[c].curStat = "NO_ALARM", !.chan[c].curSevr = NO_ALARM]
  OBVIOUS
<1>9. /\ Moved(s3, s4, c, NO_ALARM, NO_ALARM, NO_ALARM, NO_ALARM)
      /\ Has(s4, c, d.curMask, NO_ALARM, NO_ALARM)
  <2> DEFINE d4 == [s3.chan[c] EXCEPT !.curStat = "NO_ALARM", !.curSevr = NO_ALARM]
  <2>1. /\ d4 \in ChanData /\ d4.curMask = s3.chan[c].curMask
        /\ d4.beepSevr = s3.chan[c].beepSevr
        /\ d4.curSevr = NO_ALARM /\ d4.unackSevr = s3.chan[c].unackSevr
    <3>1. "NO_ALARM" \in Stat
      BY DEF Stat
    <3> QED BY <3>1, SevrBounds DEF State, ChanData
  <2>2. s4 = [s3 EXCEPT !.chan[c] = d4]
    BY <1>8 DEF State
  <2> HIDE DEF d4
  <2>3. /\ Moved(s3, [s3 EXCEPT !.chan[c] = d4], c, NO_ALARM, NO_ALARM, NO_ALARM, NO_ALARM)
        /\ [s3 EXCEPT !.chan[c] = d4].chan[c] = d4
    BY <2>1, MovedChan
  <2>4. Moved(s3, s4, c, NO_ALARM, NO_ALARM, NO_ALARM, NO_ALARM) /\ s4.chan[c] = d4
    BY <2>2, <2>3, Zenon
  <2> QED BY <1>4, <1>7, <2>1, <2>4 DEF Has
<1>10. Frame(s, s4, c) /\ UnackMoved(s, s4, c, u, NO_ALARM)
  <2>1. Frame(s, s3, c) /\ UnackMoved(s, s3, c, u, NO_ALARM)
    <3>1. /\ Frame(s, s2, c) /\ Frame(s2, s3, c) /\ SameBeepSevr(s, s2)
          /\ UnackMoved(s, s2, c, u, NO_ALARM) /\ UnackMoved(s2, s3, c, NO_ALARM, NO_ALARM)
      BY <1>5, <1>7 DEF Moved, Frame
    <3> QED BY <3>1, FrameComposes, UnackMovedComposes
  <2>2. /\ Frame(s3, s4, c) /\ SameBeepSevr(s, s3) /\ UnackMoved(s3, s4, c, NO_ALARM, NO_ALARM)
    BY <1>9, <2>1 DEF Moved, Frame
  <2> QED BY <2>1, <2>2, FrameComposes, UnackMovedComposes
<1>11. t = IF On(s, c, "Disable") THEN s1 ELSE IF d.curSevr = NO_ALARM THEN s2 ELSE s4
  BY <1>1, <1>3, <1>6, <1>8 DEF CancelOn
<1>12. CASE t = s1
  BY <1>2, <1>12 DEF Moved, Has
<1>13. CASE t = s2
  BY <1>4, <1>5, <1>13 DEF Moved, Has
<1>14. CASE t = s4
  BY <1>9, <1>10, <1>14 DEF Moved, Has
<1> QED BY <1>11, <1>12, <1>13, <1>14

(* Taking Cancel off keeps the unacknowledged severity counted.            *)
LEMMA CancelOffMoves ==
  ASSUME NEW s \in State, NEW c \in Chan, NEW t, t = CancelOff(s, c)
  PROVE  /\ Frame(s, t, c) /\ t.chan[c].curMask \ {"AckT"} = s.chan[c].curMask \ {"AckT"}
         /\ UnackMoved(s, t, c, UnackOf(s, c), UnackOf(t, c))
         /\ Quiet(s, c) => Quiet(t, c)
<1> DEFINE d == s.chan[c]
           again == ~On(s, c, "Disable") /\ d.curSevr > NO_ALARM
<1>1. PICK s1 : s1 = IF again THEN Reprocess(s, c, d.unackSevr) ELSE s
  OBVIOUS
<1>2. /\ Frame(s, s1, c) /\ s1.chan[c].curMask \ {"AckT"} = d.curMask \ {"AckT"}
      /\ UnackMoved(s, s1, c, UnackOf(s, c), UnackOf(s1, c))
      /\ Quiet(s, c) => Quiet(s1, c)
  <2>1. CASE again
    <3>1. d.unackSevr \in Sevr
      BY DEF State, ChanData
    <3>2. /\ Moved(s, s1, c, NO_ALARM, ShownOf(s1, c),
                   IF GlobalFlag /\ s.chan[c].curMask \cap {"Disable", "Ack"} # {}
                   THEN NO_ALARM ELSE d.unackSevr, UnackOf(s1, c))
          /\ s1.chan[c].curMask \ {"AckT"} = s.chan[c].curMask \ {"AckT"}
          /\ Quiet(s1, c)
      BY <1>1, <2>1, <3>1, ReprocessMoves
    <3> QED BY <3>2 DEF Moved, UnackOf
  <2>2. CASE ~again
    BY <1>1, <2>2, InStepReflexive DEF InStep, Moved
  <2> QED BY <2>1, <2>2
<1> s1 \in State
  BY <1>2 DEF Frame
<1>3. PICK s2 : s2 = [s1 EXCEPT !.chan[c].evid = TRUE]
  OBVIOUS
<1>4. InStep(s1, s2, c)
  <2> DEFINE d1 == [s1.chan[c] EXCEPT !.evid = TRUE]
  <2>1. /\ d1 \in ChanData /\ d1.curMask = s1.chan[c].curMask
        /\ d1.beepSevr = s1.chan[c].beepSevr
        /\ d1.curSevr = s1.chan[c].curSevr /\ d1.unackSevr = s1.chan[c].unackSevr
    BY DEF State, ChanData
  <2>2. s2 = [s1 EXCEPT !.chan[c] = d1]
    BY <1>3
  <2> HIDE DEF d1
  <2>3. InStep(s1, [s1 EXCEPT !.chan[c] = d1], c)
    BY <2>1, InStepChan
  <2> QED BY <2>2, <2>3, Zenon
<1>5. Frame(s, s2, c) /\ UnackMoved(s, s2, c, UnackOf(s, c), UnackOf(s2, c))
  <2>1. /\ Frame(s1, s2, c) /\ SameBeepSevr(s, s1)
        /\ UnackMoved(s1, s2, c, UnackOf(s1, c), UnackOf(s2, c))
    BY <1>2, <1>4 DEF InStep, Moved, Frame
  <2> QED BY <1>2, <2>1, FrameComposes, UnackMovedComposes
<1>6. t = IF d.evid THEN s ELSE s2
  BY <1>1, <1>3 DEF CancelOff
<1>7. CASE t = s
  BY <1>7, InStepReflexive DEF InStep, Moved
<1>8. CASE t = s2
  BY <1>2, <1>4, <1>5, <1>8 DEF InStep
<1> QED BY <1>6, <1>7, <1>8

(* The Cancel part.                                                        *)
LEMMA ChangeCancelSteps ==
  ASSUME NEW s \in State, NEW c \in Chan, NEW mask
  PROVE  MaskStep(s, ChangeCancel(s, c, mask), c, mask)
<1> DEFINE new == "Cancel" \in mask
<1>1. CASE new = On(s, c, "Cancel")
  BY <1>1, InStepReflexive, InStepIsMaskStep DEF ChangeCancel
<1>2. CASE new # On(s, c, "Cancel")
  <2> SUFFICES ASSUME NEW s1, s1 = SetMaskBit(s, c, "Cancel", new),
                      NEW t, t = IF new THEN CancelOn(s1, c) ELSE CancelOff(s1, c)
               PROVE  MaskStep(s, t, c, mask)
    BY <1>2 DEF ChangeCancel
  <2> DEFINE m1 == IF new THEN s.chan[c].curMask \cup {"Cancel"} ELSE s.chan[c].curMask \ {"Cancel"}
  <2>1. new \in BOOLEAN /\ "Cancel" \in MaskBit \ {"Disable", "Ack"}
    BY DEF MaskBit
  <2>2. /\ Moved(s, s1, c, ShownOf(s, c), ShownOf(s1, c), UnackOf(s, c), UnackOf(s1, c))
        /\ Has(s1, c, m1, s.chan[c].curSevr, s.chan[c].unackSevr)
        /\ Quiet(s, c) => Quiet(s1, c)
    <3> HIDE DEF new
    <3> QED BY <1>2, <2>1, SetMaskBitInStep
  <2> s1 \in State
    BY <2>2 DEF Moved, Frame
  <2>3. "Cancel" \in s.chan[c].curMask \cup mask
    BY <1>2 DEF On
  <2>4. CASE new
    <3>1. /\ Frame(s1, t, c) /\ t.chan[c].curMask = s1.chan[c].curMask
          /\ UnackMoved(s1, t, c, s1.chan[c].unackSevr, t.chan[c].unackSevr)
      BY <2>4, CancelOnMoves
    <3>2. Frame(s, t, c) /\ t.chan[c].curMask \cap Weighs \subseteq s.chan[c].curMask \cup mask
      BY <2>2, <2>4, <3>1, FrameComposes DEF Moved, Has
    <3>3. ASSUME Apart(s.chan[c].curMask \cup mask)
          PROVE  UnackMoved(s, t, c, UnackOf(s, c), UnackOf(t, c)) /\ Quiet(t, c)
      <4>1. /\ "Disable" \notin t.chan[c].curMask
            /\ GlobalFlag => "Ack" \notin t.chan[c].curMask
        BY <2>2, <2>4, <3>1, <3>3 DEF Apart, Has
      <4>2. UnackOf(s1, c) = s1.chan[c].unackSevr /\ UnackOf(t, c) = t.chan[c].unackSevr
        BY <3>1, <4>1 DEF UnackOf
      <4>3. /\ UnackMoved(s, s1, c, UnackOf(s, c), UnackOf(s1, c)) /\ SameBeepSevr(s, s1)
            /\ UnackMoved(s1, t, c, UnackOf(s1, c), UnackOf(t, c))
        BY <2>2, <3>1, <4>2 DEF Moved, Frame
      <4>4. UnackMoved(s, t, c, UnackOf(s, c), UnackOf(t, c))
        BY <4>3, UnackMovedComposes
      <4> QED BY <4>1, <4>4 DEF Quiet
    <3> QED BY <2>3, <3>2, <3>3 DEF MaskStep
  <2>5. CASE ~new
    <3>1. /\ Frame(s1, t, c) /\ t.chan[c].curMask \ {"AckT"} = s1.chan[c].curMask \ {"AckT"}
          /\ UnackMoved(s1, t, c, UnackOf(s1, c), UnackOf(t, c))
          /\ Quiet(s1, c) => Quiet(t, c)
      BY <2>5, CancelOffMoves
    <3>2. Frame(s, t, c)
      BY <2>2, <3>1, FrameComposes DEF Moved
    <3>3. t.chan[c].curMask \cap Weighs \subseteq s.chan[c].curMask \cup mask
      <4>1. t.chan[c].curMask \ {"AckT"} = m1 \ {"AckT"}
        BY <2>2, <3>1 DEF Has
      <4> QED BY <2>5, <4>1 DEF Weighs
    <3>4. /\ UnackMoved(s, s1, c, UnackOf(s, c), UnackOf(s1, c)) /\ SameBeepSevr(s, s1)
      BY <2>2 DEF Moved, Frame
    <3>5. UnackMoved(s, t, c, UnackOf(s, c), UnackOf(t, c))
      BY <3>1, <3>4, UnackMovedComposes
    <3> QED BY <2>2, <2>3, <3>1, <3>2, <3>3, <3>5 DEF MaskStep
  <2> QED BY <2>4, <2>5
<1> QED BY <1>1, <1>2

(* A channel without Disable that gets it: it leaves the counters.         *)
LEMMA DisableOnMoves ==
  ASSUME NEW s \in State, NEW c \in Chan, NEW t, t = DisableOn(s, c)
  PROVE  /\ Moved(s, t, c, s.chan[c].curSevr, NO_ALARM, s.chan[c].unackSevr, NO_ALARM)
         /\ Has(t, c, s.chan[c].curMask, s.chan[c].curSevr,
                IF GlobalFlag THEN s.chan[c].unackSevr ELSE NO_ALARM)
<1> DEFINE d == s.chan[c]
           u == d.unackSevr
           v == IF GlobalFlag THEN u ELSE NO_ALARM
<1>1. PICK s1 : s1 = UncountUnack(s, c)
  OBVIOUS
<1>2. Moved(s, s1, c, d.curSevr, d.curSevr, u, NO_ALARM) /\ Has(s1, c, d.curMask, d.curSevr, v)
  BY <1>1, UncountUnackMoves
<1> s1 \in State
  BY <1>2 DEF Moved, Frame
<1>3. PICK s2 : s2 = IF d.curSevr > NO_ALARM THEN Uncount(s1, c) ELSE s1
  OBVIOUS
<1>4. Moved(s1, s2, c, d.curSevr, NO_ALARM, NO_ALARM, NO_ALARM) /\ s2.chan = s1.chan
  <2>1. CASE d.curSevr > NO_ALARM
    <3>1. s1.chan[c].curSevr = d.curSevr /\ s1.chan[c].curSevr \in Sevr /\ FALSE \in BOOLEAN
      BY <1>2 DEF Has, State, ChanData
    <3> QED BY <1>3, <2>1, <3>1, SevrBounds, CurSevUpEffect DEF Uncount
  <2>2. CASE ~(d.curSevr > NO_ALARM)
    <3>1. d.curSevr = NO_ALARM
      <4>1. d.curSevr \in Sevr
        BY DEF State, ChanData
      <4> QED BY <2>2, <4>1, SevrAssumption DEF Sevr, NO_ALARM
    <3>2. Moved(s1, s1, c, NO_ALARM, NO_ALARM, NO_ALARM, NO_ALARM)
      BY MovedReflexive
    <3> QED BY <1>3, <2>2, <3>1, <3>2
  <2> QED BY <2>1, <2>2
<1> s2 \in State
  BY <1>4 DEF Moved, Frame
<1>5. Moved(s, s2, c, d.curSevr, NO_ALARM, u, NO_ALARM)
  BY <1>2, <1>4, MovedComposes
<1> DEFINE d2 == [s2.chan[c] EXCEPT !.sevrPV = alCaPutSevrValue(s2.chan[c].sevrPV, -1)]
<1>6. /\ d2 \in ChanData /\ d2.curMask = s2.chan[c].curMask
      /\ d2.beepSevr = s2.chan[c].beepSevr
      /\ d2.curSevr = s2.chan[c].curSevr /\ d2.unackSevr = s2.chan[c].unackSevr
  <2>1. s2.chan[c] \in ChanData
    BY DEF State
  <2>2. alCaPutSevrValue(s2.chan[c].sevrPV, -1) \in Int
    BY <2>1 DEF ChanData, alCaPutSevrValue
  <2> QED BY <2>1, <2>2 DEF ChanData
<1>7. t = [s2 EXCEPT !.chan[c] = d2]
  BY <1>1, <1>3 DEF DisableOn
<1> HIDE DEF d2
<1>8. /\ Moved(s2, [s2 EXCEPT !.chan[c] = d2], c, NO_ALARM, NO_ALARM, NO_ALARM, NO_ALARM)
      /\ [s2 EXCEPT !.chan[c] = d2].chan[c] = d2
  BY <1>6, MovedChan
<1>9. Moved(s2, t, c, NO_ALARM, NO_ALARM, NO_ALARM, NO_ALARM) /\ t.chan[c] = d2
  BY <1>7, <1>8, Zenon
<1>10. Moved(s, t, c, d.curSevr, NO_ALARM, u, NO_ALARM)
  BY <1>5, <1>9, MovedComposes
<1> QED BY <1>2, <1>4, <1>6, <1>9, <1>10 DEF Has

(* The Disable part, and the bit it leaves.                                *)
LEMMA ChangeDisableSteps ==
  ASSUME NEW s \in State, NEW c \in Chan, NEW mask
  PROVE  /\ MaskStep(s, ChangeDisable(s, c, mask), c, mask)
         /\ On(ChangeDisable(s, c, mask), c, "Disable") = ("Disable" \in mask)
<1> DEFINE new == "Disable" \in mask
<1>1. CASE new = On(s, c, "Disable")
  BY <1>1, InStepReflexive, InStepIsMaskStep DEF ChangeDisable
<1>2. CASE new # On(s, c, "Disable")
  <2> SUFFICES ASSUME NEW s1, s1 = SetMaskBit(s, c, "Disable", new),
                      NEW t, t = IF "Cancel" \in mask THEN s1
                                 ELSE IF new THEN DisableOn(s1, c) ELSE DisableOff(s1, c)
               PROVE  MaskStep(s, t, c, mask) /\ On(t, c, "Disable") = new
    BY <1>2 DEF ChangeDisable
  <2> DEFINE d == s.chan[c]
             u == d.unackSevr
             m1 == IF new THEN d.curMask \cup {"Disable"} ELSE d.curMask \ {"Disable"}
  <2>1. new \in BOOLEAN /\ "Disable" \in MaskBit
    BY DEF MaskBit
  <2>2. ASSUME NEW x, NEW w
        PROVE  Moved(s, s1, c, x, x, w, w) /\ Has(s1, c, m1, d.curSevr, u)
    BY <1>2, <2>1, SetMaskBitMoves
  <2> s1 \in State
    BY <2>2 DEF Moved, Frame
  <2>3. m1 \cap Weighs \subseteq d.curMask \cup mask /\ ("Disable" \in m1) = new
    OBVIOUS
  <2>4. d.curSevr \in Sevr /\ u \in Sevr
    BY DEF State, ChanData
  <2>5. CASE "Cancel" \in mask
    <3>1. ~Apart(d.curMask \cup mask)
      BY <1>2, <2>5 DEF Apart, On
    <3> QED BY <2>2, <2>3, <2>5, <3>1 DEF MaskStep, Moved, Has, On
  <2>6. CASE "Cancel" \notin mask /\ new
    <3>1. /\ Moved(s1, t, c, s1.chan[c].curSevr, NO_ALARM, s1.chan[c].unackSevr, NO_ALARM)
          /\ Has(t, c, s1.chan[c].curMask, s1.chan[c].curSevr,
                 IF GlobalFlag THEN s1.chan[c].unackSevr ELSE NO_ALARM)
      BY <2>6, DisableOnMoves
    <3>2. Moved(s1, t, c, d.curSevr, NO_ALARM, u, NO_ALARM)
          /\ Has(t, c, m1, d.curSevr, IF GlobalFlag THEN u ELSE NO_ALARM)
      BY <2>2, <3>1 DEF Has
    <3>3. Moved(s, t, c, d.curSevr, NO_ALARM, u, NO_ALARM)
      BY <2>2, <3>2, MovedComposes
    <3>4. /\ ShownOf(s, c) = d.curSevr /\ ShownOf(t, c) = NO_ALARM /\ UnackOf(t, c) = NO_ALARM
          /\ Quiet(t, c)
      BY <1>2, <2>3, <2>6, <3>2 DEF ShownOf, UnackOf, Has, On, Quiet
    <3>5. Apart(d.curMask \cup mask) => UnackOf(s, c) = u
      BY <1>2, <2>6 DEF Apart, UnackOf, On
    <3> QED BY <2>3, <3>2, <3>3, <3>4, <3>5 DEF MaskStep, Moved, Has, On
  <2>7. CASE "Cancel" \notin mask /\ ~new
    <3>1. ShownOf(s, c) = NO_ALARM /\ (Quiet(s, c) => UnackOf(s, c) = NO_ALARM)
      BY <1>2, <2>7 DEF ShownOf, UnackOf, Quiet, On
    <3>2. CASE d.curSevr > NO_ALARM
      <4>1. t = Reprocess(s1, c, NO_ALARM)
        BY <2>2, <2>7, <3>2 DEF DisableOff, Has
      <4>2. /\ Moved(s1, t, c, NO_ALARM, ShownOf(t, c),
                     IF GlobalFlag /\ s1.chan[c].curMask \cap {"Disable", "Ack"} # {}
                     THEN NO_ALARM ELSE NO_ALARM, UnackOf(t, c))
            /\ t.chan[c].curMask \ {"AckT"} = s1.chan[c].curMask \ {"AckT"}
            /\ Quiet(t, c)
        BY <4>1, SevrBounds, ReprocessMoves
      <4>3. Moved(s1, t, c, NO_ALARM, ShownOf(t, c), NO_ALARM, UnackOf(t, c))
        BY <4>2
      <4>4. Moved(s, t, c, NO_ALARM, ShownOf(t, c), NO_ALARM, UnackOf(t, c))
        BY <2>2, <4>3, MovedComposes
      <4>5. /\ t.chan[c].curMask \cap Weighs \subseteq d.curMask \cup mask
            /\ On(t, c, "Disable") = new
        <5>1. t.chan[c].curMask \ {"AckT"} = m1 \ {"AckT"}
          BY <2>2, <4>2 DEF Has
        <5> QED BY <2>3, <2>7, <5>1 DEF Weighs, On
      <4> QED BY <3>1, <4>2, <4>4, <4>5 DEF MaskStep, Moved
    <3>3. CASE ~(d.curSevr > NO_ALARM)
      <4>1. d.curSevr = NO_ALARM
        BY <2>4, <3>3, SevrAssumption DEF Sevr, NO_ALARM
      <4>2. t = AutoAck(s1, c)
        BY <2>2, <2>7, <3>3 DEF DisableOff, Has
      <4>3. /\ Frame(s1, t, c) /\ CurMoved(s1, t, c, NO_ALARM, NO_ALARM)
            /\ Has(t, c, s1.chan[c].curMask, s1.chan[c].curSevr,
                   IF GlobalFlag THEN NO_ALARM ELSE s1.chan[c].unackSevr)
            /\ ~(GlobalFlag /\ PassiveFlag) => \A w \in Sevr : UnackMoved(s1, t, c, w, w)
        BY <4>2, AutoAckMoves
      <4>4. Has(t, c, m1, NO_ALARM, IF GlobalFlag THEN NO_ALARM ELSE u)
        BY <2>2, <4>1, <4>3 DEF Has
      <4>5. Frame(s, t, c) /\ CurMoved(s, t, c, NO_ALARM, NO_ALARM)
        BY <2>2, <4>3, FrameComposes, CurMovedComposes DEF Moved
      <4>6. ShownOf(t, c) = NO_ALARM
        BY <4>4 DEF ShownOf, Has
      <4>7. ASSUME Apart(d.curMask \cup mask), Quiet(s, c)
            PROVE  UnackMoved(s, t, c, UnackOf(s, c), UnackOf(t, c)) /\ Quiet(t, c)
        <5>1. ~(GlobalFlag /\ PassiveFlag)
          BY <1>2, <2>7, <4>7 DEF Apart, On
        <5>2. UnackMoved(s, s1, c, NO_ALARM, NO_ALARM) /\ SameBeepSevr(s, s1)
          BY <2>2 DEF Moved, Frame
        <5>3. UnackMoved(s1, t, c, NO_ALARM, NO_ALARM)
          BY <4>3, <5>1, SevrBounds
        <5>4. UnackMoved(s, t, c, NO_ALARM, NO_ALARM)
          BY <5>2, <5>3, UnackMovedComposes
        <5>5. UnackOf(t, c) = NO_ALARM
          BY <1>2, <2>7, <4>4, <4>7 DEF UnackOf, Has, Quiet, On
        <5> QED BY <2>3, <2>7, <3>1, <4>4, <4>7, <5>4, <5>5 DEF Quiet, Has
      <4> QED BY <2>3, <3>1, <4>4, <4>5, <4>6, <4>7 DEF MaskStep, Has, On
    <3> QED BY <3>2, <3>3
  <2> QED BY <2>5, <2>6, <2>7
<1> QED BY <1>1, <1>2

(* Alarms that need acknowledgement again are counted again: in global     *)
(* mode with the severity the IOC kept, which was not counted.             *)
LEMMA AckOffMoves ==
  ASSUME NEW s \in State, NEW c \in Chan, NEW t, t = AckOff(s, c), NEW x
  PROVE  /\ Frame(s, t, c) /\ CurMoved(s, t, c, x, x)
         /\ t.chan[c].curMask = s.chan[c].curMask /\ t.chan[c].curSevr = s.chan[c].curSevr
         /\ ~(GlobalFlag /\ PassiveFlag)
            => UnackMoved(s, t, c, IF GlobalFlag THEN NO_ALARM ELSE s.chan[c].unackSevr,
                          t.chan[c].unackSevr)
<1> DEFINE d == s.chan[c]
           u == d.unackSevr
           v == IF GlobalFlag THEN NO_ALARM ELSE u
<1>1. d.curSevr \in Sevr /\ u \in Sevr
  BY DEF State, ChanData
<1>2. CASE ~(d.curSevr > NO_ALARM)
  <2>1. t = AutoAck(s, c)
    BY <1>2 DEF AckOff
  <2>2. /\ Frame(s, t, c) /\ CurMoved(s, t, c, x, x)
        /\ Has(t, c, d.curMask, d.curSevr, v)
        /\ ~(GlobalFlag /\ PassiveFlag) => \A w \in Sevr : UnackMoved(s, t, c, w, w)
    BY <2>1, AutoAckMoves
  <2>3. v \in Sevr
    BY <1>1, SevrBounds
  <2> QED BY <2>2, <2>3 DEF Has
<1>3. CASE d.curSevr > NO_ALARM
  <2>1. PICK s1 : s1 = IF GlobalFlag
                       THEN alSetUnackSevChan([s EXCEPT !.chan[c].unackSevr = NO_ALARM], c, u)
                       ELSE alSetUnackSevChan(s, c, d.curSevr)
    OBVIOUS
  <2>2. Moved(s, s1, c, x, x, v, s1.chan[c].unackSevr)
        /\ s1.chan[c].curMask = d.curMask /\ s1.chan[c].curSevr = d.curSevr
    <3>1. CASE GlobalFlag
      <4>1. PICK z : z = [s EXCEPT !.chan[c].unackSevr = NO_ALARM]
        OBVIOUS
      <4>2. Moved(s, z, c, x, x, NO_ALARM, NO_ALARM) /\ Has(z, c, d.curMask, d.curSevr, NO_ALARM)
        BY <4>1, SevrBounds, UnackSevrMoves
      <4> z \in State
        BY <4>2 DEF Moved, Frame
      <4>3. s1 = alSetUnackSevChan(z, c, u)
        BY <2>1, <3>1, <4>1
      <4>4. /\ Moved(z, s1, c, x, x, z.chan[c].unackSevr, u)
            /\ Has(s1, c, z.chan[c].curMask, z.chan[c].curSevr, u)
        BY <1>1, <4>3, alSetUnackSevChanEffect
      <4>5. Moved(z, s1, c, x, x, NO_ALARM, u) /\ Has(s1, c, d.curMask, d.curSevr, u)
        BY <4>2, <4>4 DEF Has
      <4>6. Moved(s, s1, c, x, x, NO_ALARM, u)
        BY <4>2, <4>5, MovedComposes
      <4> QED BY <3>1, <4>5, <4>6 DEF Has
    <3>2. CASE ~GlobalFlag
      <4>1. s1 = alSetUnackSevChan(s, c, d.curSevr)
        BY <2>1, <3>2
      <4>2. /\ Moved(s, s1, c, x, x, u, d.curSevr)
            /\ Has(s1, c, d.curMask, d.curSevr, d.curSevr)
        BY <1>1, <4>1, alSetUnackSevChanEffect
      <4> QED BY <3>2, <4>2 DEF Has
    <3> QED BY <3>1, <3>2
  <2> s1 \in State
    BY <2>2 DEF Moved, Frame
  <2>3. t = SilenceReset(s1)
    BY <1>3, <2>1 DEF AckOff
  <2>4. ASSUME NEW w PROVE Moved(s1, t, c, x, x, w, w) /\ t.chan = s1.chan
    BY <2>3, SilenceResetMoves
  <2>5. Moved(s, t, c, x, x, v, t.chan[c].unackSevr)
    BY <2>2, <2>4, MovedComposes
  <2> QED BY <2>2, <2>4, <2>5 DEF Moved
<1> QED BY <1>2, <1>3

(* The Ack part, for a channel whose Disable bit is that of mask already.  *)
LEMMA ChangeAckSteps ==
  ASSUME NEW s \in State, NEW c \in Chan, NEW mask,
         On(s, c, "Disable") = ("Disable" \in mask)
  PROVE  MaskStep(s, ChangeAck(s, c, mask), c, mask)
<1> DEFINE new == "Ack" \in mask
<1>1. CASE new = On(s, c, "Ack")
  BY <1>1, InStepReflexive, InStepIsMaskStep DEF ChangeAck
<1>2. CASE new # On(s, c, "Ack")
  <2> SUFFICES ASSUME NEW s1, s1 = SetMaskBit(s, c, "Ack", new),
                      NEW t, t = IF new THEN UncountUnack(s1, c)
                                 ELSE IF mask \cap {"Cancel", "Disable"} = {}
                                 THEN AckOff(s1, c) ELSE s1
               PROVE  MaskStep(s, t, c, mask)
    BY <1>2 DEF ChangeAck
  <2> DEFINE d == s.chan[c]
             u == d.unackSevr
             m1 == IF new THEN d.curMask \cup {"Ack"} ELSE d.curMask \ {"Ack"}
  <2>1. new \in BOOLEAN /\ "Ack" \in MaskBit
    BY DEF MaskBit
  <2>2. ASSUME NEW x, NEW w
        PROVE  Moved(s, s1, c, x, x, w, w) /\ Has(s1, c, m1, d.curSevr, u)
    BY <1>2, <2>1, SetMaskBitMoves
  <2> s1 \in State
    BY <2>2 DEF Moved, Frame
  <2>3. m1 \cap Weighs \subseteq d.curMask \cup mask /\ ("Disable" \in m1) = ("Disable" \in d.curMask)
    OBVIOUS
  <2>4. CASE new
    <3>1. /\ Moved(s1, t, c, ShownOf(s, c), ShownOf(s, c), s1.chan[c].unackSevr, NO_ALARM)
          /\ Has(t, c, s1.chan[c].curMask, s1.chan[c].curSevr,
                 IF GlobalFlag THEN s1.chan[c].unackSevr ELSE NO_ALARM)
      BY <2>4, UncountUnackMoves
    <3>2. /\ Moved(s1, t, c, ShownOf(s, c), ShownOf(s, c), u, NO_ALARM)
          /\ Has(t, c, m1, d.curSevr, IF GlobalFlag THEN u ELSE NO_ALARM)
      BY <2>2, <3>1 DEF Has
    <3>3. Moved(s, t, c, ShownOf(s, c), ShownOf(s, c), u, NO_ALARM)
      BY <2>2, <3>2, MovedComposes
    <3>4. /\ ShownOf(t, c) = ShownOf(s, c) /\ UnackOf(t, c) = NO_ALARM /\ Quiet(t, c)
      BY <2>3, <2>4, <3>2 DEF ShownOf, UnackOf, Has, Quiet
    <3>5. Apart(d.curMask \cup mask) => UnackOf(s, c) = u
      BY <1>2, <2>4 DEF Apart, UnackOf, On
    <3> QED BY <2>3, <3>2, <3>3, <3>4, <3>5 DEF MaskStep, Moved, Has
  <2>5. CASE ~new /\ mask \cap {"Cancel", "Disable"} = {}
    <3>1. t = AckOff(s1, c)
      BY <2>5
    <3>2. /\ Frame(s1, t, c) /\ CurMoved(s1, t, c, ShownOf(s, c), ShownOf(s, c))
          /\ t.chan[c].curMask = s1.chan[c].curMask /\ t.chan[c].curSevr = s1.chan[c].curSevr
          /\ ~(GlobalFlag /\ PassiveFlag)
             => UnackMoved(s1, t, c, IF GlobalFlag THEN NO_ALARM ELSE s1.chan[c].unackSevr,
                           t.chan[c].unackSevr)
      BY <3>1, AckOffMoves
    <3>3. t.chan[c].curMask = m1 /\ t.chan[c].curSevr = d.curSevr /\ s1.chan[c].unackSevr = u
      BY <2>2, <3>2 DEF Has
    <3>4. Frame(s, t, c) /\ CurMoved(s, t, c, ShownOf(s, c), ShownOf(s, c))
      BY <2>2, <3>2, FrameComposes, CurMovedComposes DEF Moved
    <3>5. ShownOf(t, c) = ShownOf(s, c)
      BY <2>3, <3>3 DEF ShownOf
    <3>6. "Disable" \notin d.curMask /\ "Disable" \notin m1 /\ "Ack" \notin m1 /\ "Ack" \in d.curMask
      BY <1>2, <2>5 DEF On
    <3>7. /\ UnackOf(s, c) = IF GlobalFlag THEN NO_ALARM ELSE u
          /\ UnackOf(t, c) = t.chan[c].unackSevr /\ Quiet(t, c)
      BY <3>3, <3>6 DEF UnackOf, Quiet
    <3>8. ASSUME Apart(d.curMask \cup mask)
          PROVE  UnackMoved(s, t, c, UnackOf(s, c), UnackOf(t, c))
      <4>1. ~(GlobalFlag /\ PassiveFlag)
        BY <3>6, <3>8 DEF Apart
      <4>2. UnackMoved(s1, t, c, UnackOf(s, c), UnackOf(t, c))
        BY <3>2, <3>3, <3>7, <4>1
      <4>3. UnackMoved(s, s1, c, UnackOf(s, c), UnackOf(s, c)) /\ SameBeepSevr(s, s1)
        BY <2>2 DEF Moved, Frame
      <4> QED BY <4>2, <4>3, UnackMovedComposes
    <3> QED BY <2>3, <3>3, <3>4, <3>5, <3>7, <3>8 DEF MaskStep
  <2>6. CASE ~new /\ mask \cap {"Cancel", "Disable"} # {}
    <3>1. t = s1
      BY <2>6
    <3>2. Apart(d.curMask \cup mask) => ~GlobalFlag
      BY <1>2, <2>6 DEF Apart, On
    <3>3. ShownOf(t, c) = ShownOf(s, c) /\ (~GlobalFlag => UnackOf(t, c) = UnackOf(s, c))
      BY <2>2, <2>3, <3>1 DEF ShownOf, UnackOf, Has
    <3>4. Quiet(s, c) => Quiet(t, c)
      BY <2>2, <2>3, <3>1 DEF Quiet, Has
    <3> QED BY <2>2, <2>3, <3>1, <3>2, <3>3, <3>4 DEF MaskStep, Moved, Has
  <2> QED BY <2>4, <2>5, <2>6
<1> QED BY <1>1, <1>2

(* The AckT and Log parts.                                                 *)
LEMMA ChangePlainSteps ==
  ASSUME NEW s \in State, NEW c \in Chan, NEW b \in {"AckT", "Log"}, NEW mask
  PROVE  MaskStep(s, ChangePlain(s, c, b, mask), c, mask)
<1> DEFINE new == b \in mask
<1>1. CASE new = On(s, c, b)
  BY <1>1, InStepReflexive, InStepIsMaskStep DEF ChangePlain
<1>2. CASE new # On(s, c, b)
  <2> SUFFICES ASSUME NEW t, t = SetMaskBit(s, c, b, new) PROVE MaskStep(s, t, c, mask)
    BY <1>2 DEF ChangePlain
  <2>1. new \in BOOLEAN /\ b \in MaskBit \ {"Disable", "Ack"}
    BY DEF MaskBit
  <2>2. /\ Moved(s, t, c, ShownOf(s, c), ShownOf(t, c), UnackOf(s, c), UnackOf(t, c))
        /\ Has(t, c, IF new THEN s.chan[c].curMask \cup {b} ELSE s.chan[c].curMask \ {b},
               s.chan[c].curSevr, s.chan[c].unackSevr)
        /\ Quiet(s, c) => Quiet(t, c)
    <3> HIDE DEF new
    <3> QED BY <1>2, <2>1, SetMaskBitInStep
  <2>3. t.chan[c].curMask \cap Weighs \subseteq s.chan[c].curMask \cup mask
    BY <2>2 DEF Has
  <2> QED BY <2>2, <2>3 DEF MaskStep, Moved
<1> QED BY <1>1, <1>2

(* alChangeChanMask is one mask step.                                      *)
LEMMA alChangeChanMaskSteps ==
  ASSUME NEW s \in State, NEW c \in Chan, NEW mask
  PROVE  MaskStep(s, alChangeChanMask(s, c, mask), c, mask)
<1> SUFFICES ASSUME NEW s1, s1 = ChangeCancel(s, c, mask),
                    NEW s2, s2 = ChangeDisable(s1, c, mask),
                    NEW s3, s3 = ChangeAck(s2, c, mask),
                    NEW s4, s4 = ChangePlain(s3, c, "AckT", mask),
                    NEW s5, s5 = ChangePlain(s4, c, "Log", mask)
             PROVE  MaskStep(s, s5, c, mask)
  BY DEF alChangeChanMask
<1>1. MaskStep(s, s1, c, mask)
  BY ChangeCancelSteps
<1> s1 \in State
  BY <1>1 DEF MaskStep, Frame
<1>2. MaskStep(s1, s2, c, mask) /\ On(s2, c, "Disable") = ("Disable" \in mask)
  BY ChangeDisableSteps
<1> s2 \in State
  BY <1>2 DEF MaskStep, Frame
<1>3. MaskStep(s2, s3, c, mask)
  BY <1>2, ChangeAckSteps
<1> s3 \in State
  BY <1>3 DEF MaskStep, Frame
<1>4. MaskStep(s3, s4, c, mask)
  BY ChangePlainSteps
<1> s4 \in State
  BY <1>4 DEF MaskStep, Frame
<1>5. MaskStep(s4, s5, c, mask)
  BY ChangePlainSteps
<1>6. MaskStep(s3, s5, c, mask)
  BY <1>4, <1>5, MaskStepComposes
<1>7. MaskStep(s1, s3, c, mask)
  BY <1>2, <1>3, MaskStepComposes
<1>8. MaskStep(s1, s5, c, mask)
  BY <1>6, <1>7, MaskStepComposes
<1> QED BY <1>1, <1>8, MaskStepComposes

(* The bits alForceChanMask can leave set: those there were, and index.    *)
LEMMA alForceChanMaskSteps ==
  ASSUME NEW s \in State, NEW c \in Chan, NEW index, NEW op
  PROVE  MaskStep(s, alForceChanMask(s, c, index, op), c, {index})
<1> DEFINE cur == s.chan[c].curMask
           on  == op = "ON" \/ (op = "RESET" /\ index \in DefaultMask[c])
           mask == IF on THEN cur \cup {index} ELSE cur \ {index}
<1> SUFFICES ASSUME NEW t, t = alChangeChanMask(s, c, mask) PROVE MaskStep(s, t, c, {index})
  BY DEF alForceChanMask
<1>1. MaskStep(s, t, c, mask)
  BY alChangeChanMaskSteps
<1>2. cur \cup mask \subseteq cur \cup {index}
  OBVIOUS
<1>3. Apart(cur \cup {index}) => Apart(cur \cup mask)
  BY <1>2, ApartSubset
<1> HIDE DEF mask
<1> QED BY <1>1, <1>2, <1>3 DEF MaskStep

----------------------------------------------------------------------------
(* Counters that move with what they count stay exact.                     *)

CurExact(s) ==
  \A g \in Group, v \in Sevr :
    s.group[g].curSev[v] = Cardinality({c \in ChannelsBelow(g) : ShownOf(s, c) = v})
UnackExact(s) ==
  \A g \in Group, v \in AlarmSevr :
    s.group[g].unackSev[v] = Cardinality({c \in ChannelsBelow(g) : UnackOf(s, c) = v})
BeepExact(s) ==
  \A g \in Group, v \in AlarmSevr :
    s.group[g].unackBeepSev[v] =
      Cardinality({c \in ChannelsBelow(g) : Heard(s, c, g, UnackOf(s, c)) = v})

(* Counter v is the number of members of S that f maps to v.               *)
Counts(cnt, D, S, f) ==
  cnt \in [D -> Int] /\ \A v \in D : cnt[v] = Cardinality({e \in S : f[e] = v})

(* One member of S changes from f[c] to h[c]: so does the counter.         *)
LEMMA CountShift ==
  ASSUME NEW S, IsFiniteSet(S), NEW f, NEW h, NEW c \in S,
         \A e \in S \ {c} : h[e] = f[e],
         NEW D, NEW cnt, Counts(cnt, D, S, f)
  PROVE  Counts(Shift(cnt, f[c], h[c], 1), D, S, h)
<1>0. cnt \in [D -> Int] /\ \A v \in D : cnt[v] = Cardinality({e \in S : f[e] = v})
  BY DEF Counts
<1> SUFFICES ASSUME NEW v \in D
             PROVE  Shift(cnt, f[c], h[c], 1)[v] = Cardinality({e \in S : h[e] = v})
  BY <1>0, ShiftType DEF Counts
<1> DEFINE R == {e \in S \ {c} : f[e] = v}
<1>1. IsFiniteSet(R) /\ Cardinality(R) \in Nat /\ c \notin R
  <2>1. R \subseteq S
    OBVIOUS
  <2> QED BY <2>1, FS_Subset, FS_CardinalityType
<1>2. Cardinality(R \cup {c}) = Cardinality(R) + 1
  BY <1>1, FS_AddElement
<1>3. {e \in S : f[e] = v} = IF f[c] = v THEN R \cup {c} ELSE R
  OBVIOUS
<1>4. {e \in S : h[e] = v} = IF h[c] = v THEN R \cup {c} ELSE R
  OBVIOUS
<1>5. cnt[v] = Cardinality(R) + (IF f[c] = v THEN 1 ELSE 0)
  <2> HIDE DEF R
  <2> QED BY <1>0, <1>1, <1>2, <1>3
<1>6. Cardinality({e \in S : h[e] = v}) = Cardinality(R) + (IF h[c] = v THEN 1 ELSE 0)
  <2> HIDE DEF R
  <2> QED BY <1>1, <1>2, <1>4
<1>7. Shift(cnt, f[c], h[c], 1)[v]
      = cnt[v] - (IF v = f[c] THEN 1 ELSE 0) + (IF v = h[c] THEN 1 ELSE 0)
  BY <1>0 DEF Shift
<1> HIDE DEF R
<1> QED BY <1>0, <1>1, <1>5, <1>6, <1>7

(* The channels below a group are finitely many.                           *)
LEMMA BelowFinite ==
  ASSUME NEW g \in Group
  PROVE  IsFiniteSet(ChannelsBelow(g)) /\ ChannelsBelow(g) \subseteq Chan
<1>1. ChannelsBelow(g) \subseteq Chan
  BY DEF ChannelsBelow
<1> QED BY <1>1, NodeAssumption, FS_Subset

(* The counters of the current severities.                                 *)
LEMMA CurExactMoves ==
  ASSUME NEW s \in State, NEW t, NEW c \in Chan, Frame(s, t, c), CurExact(s),
         CurMoved(s, t, c, ShownOf(s, c), ShownOf(t, c))
  PROVE  CurExact(t)
<1> SUFFICES ASSUME NEW g \in Group, NEW v \in Sevr
             PROVE  t.group[g].curSev[v]
                    = Cardinality({e \in ChannelsBelow(g) : ShownOf(t, e) = v})
  BY DEF CurExact
<1> DEFINE S == ChannelsBelow(g)
           f == [e \in Chan |-> ShownOf(s, e)]
           h == [e \in Chan |-> ShownOf(t, e)]
           cnt == s.group[g].curSev
<1>1. IsFiniteSet(S) /\ S \subseteq Chan /\ (c \in S <=> g \in Anc[c])
  BY BelowFinite DEF ChannelsBelow
<1>2. \A e \in Chan \ {c} : h[e] = f[e]
  BY DEF Frame, ShownOf
<1>3. cnt \in [Sevr -> Int]
  BY DEF State, GroupData
<1>4. \A w \in Sevr : {e \in S : ShownOf(s, e) = w} = {e \in S : f[e] = w}
  BY <1>1
<1>5. {e \in S : ShownOf(t, e) = v} = {e \in S : h[e] = v}
  BY <1>1
<1>6. f[c] = ShownOf(s, c) /\ h[c] = ShownOf(t, c)
  OBVIOUS
<1>7. Counts(cnt, Sevr, S, f)
  BY <1>3, <1>4 DEF CurExact, Counts
<1> HIDE DEF f, h, S, cnt
<1>8. CASE c \in S
  <2> \A e \in S \ {c} : h[e] = f[e]
    BY <1>1, <1>2
  <2>1. Counts(Shift(cnt, f[c], h[c], 1), Sevr, S, h)
    BY <1>1, <1>7, <1>8, CountShift
  <2>2. t.group[g].curSev = Shift(cnt, f[c], h[c], 1)
    BY <1>1, <1>6, <1>8 DEF CurMoved, cnt
  <2> QED BY <1>5, <2>1, <2>2 DEF S, Counts
<1>9. CASE c \notin S
  <2>1. {e \in S : h[e] = v} = {e \in S : f[e] = v}
    BY <1>1, <1>2, <1>9
  <2>2. t.group[g].curSev = cnt
    BY <1>1, <1>9 DEF CurMoved, cnt
  <2> QED BY <1>5, <1>7, <2>1, <2>2 DEF S, Counts
<1> QED BY <1>8, <1>9

(* The counters of the unacknowledged severities.                          *)
LEMMA UnackExactMoves ==
  ASSUME NEW s \in State, NEW t, NEW c \in Chan, Frame(s, t, c), UnackExact(s),
         UnackMoved(s, t, c, UnackOf(s, c), UnackOf(t, c))
  PROVE  UnackExact(t)
<1> SUFFICES ASSUME NEW g \in Group, NEW v \in AlarmSevr
             PROVE  t.group[g].unackSev[v]
                    = Cardinality({e \in ChannelsBelow(g) : UnackOf(t, e) = v})
  BY DEF UnackExact
<1> DEFINE S == ChannelsBelow(g)
           f == [e \in Chan |-> UnackOf(s, e)]
           h == [e \in Chan |-> UnackOf(t, e)]
           cnt == s.group[g].unackSev
<1>1. IsFiniteSet(S) /\ S \subseteq Chan /\ (c \in S <=> g \in Anc[c])
  BY BelowFinite DEF ChannelsBelow
<1>2. \A e \in Chan \ {c} : h[e] = f[e]
  BY DEF Frame, UnackOf
<1>3. cnt \in [AlarmSevr -> Int]
  BY DEF State, GroupData, Counters
<1>4. \A w \in AlarmSevr : {e \in S : UnackOf(s, e) = w} = {e \in S : f[e] = w}
  BY <1>1
<1>5. {e \in S : UnackOf(t, e) = v} = {e \in S : h[e] = v}
  BY <1>1
<1>6. f[c] = UnackOf(s, c) /\ h[c] = UnackOf(t, c)
  OBVIOUS
<1>7. Counts(cnt, AlarmSevr, S, f)
  BY <1>3, <1>4 DEF UnackExact, Counts
<1> HIDE DEF f, h, S, cnt
<1>8. CASE c \in S
  <2> \A e \in S \ {c} : h[e] = f[e]
    BY <1>1, <1>2
  <2>1. Counts(Shift(cnt, f[c], h[c], 1), AlarmSevr, S, h)
    BY <1>1, <1>7, <1>8, CountShift
  <2>2. t.group[g].unackSev = Shift(cnt, f[c], h[c], 1)
    BY <1>1, <1>6, <1>8 DEF UnackMoved, cnt
  <2> QED BY <1>5, <2>1, <2>2 DEF S, Counts
<1>9. CASE c \notin S
  <2>1. {e \in S : h[e] = v} = {e \in S : f[e] = v}
    BY <1>1, <1>2, <1>9
  <2>2. t.group[g].unackSev = cnt
    BY <1>1, <1>9 DEF UnackMoved, cnt
  <2> QED BY <1>5, <1>7, <2>1, <2>2 DEF S, Counts
<1> QED BY <1>8, <1>9

(* The counters of what beeps.                                             *)
LEMMA BeepExactMoves ==
  ASSUME NEW s \in State, NEW t, NEW c \in Chan, Frame(s, t, c), BeepExact(s),
         UnackMoved(s, t, c, UnackOf(s, c), UnackOf(t, c))
  PROVE  BeepExact(t)
<1> SUFFICES ASSUME NEW g \in Group, NEW v \in AlarmSevr
             PROVE  t.group[g].unackBeepSev[v]
                    = Cardinality({e \in ChannelsBelow(g) : Heard(t, e, g, UnackOf(t, e)) = v})
  BY DEF BeepExact
<1> DEFINE S == ChannelsBelow(g)
           f == [e \in Chan |-> Heard(s, e, g, UnackOf(s, e))]
           h == [e \in Chan |-> Heard(s, e, g, UnackOf(t, e))]
           cnt == s.group[g].unackBeepSev
<1>1. IsFiniteSet(S) /\ S \subseteq Chan /\ (c \in S <=> g \in Anc[c])
  BY BelowFinite DEF ChannelsBelow
<1>2. \A e \in Chan \ {c} : h[e] = f[e]
  BY DEF Frame, UnackOf
<1>3. cnt \in [AlarmSevr -> Int]
  BY DEF State, GroupData, Counters
<1>4. \A w \in AlarmSevr : {e \in S : Heard(s, e, g, UnackOf(s, e)) = w} = {e \in S : f[e] = w}
  BY <1>1
<1>5. {e \in S : Heard(t, e, g, UnackOf(t, e)) = v} = {e \in S : h[e] = v}
  <2>1. \A e \in Chan : Heard(t, e, g, UnackOf(t, e)) = Heard(s, e, g, UnackOf(t, e))
    BY HeardSame DEF Frame
  <2> QED BY <1>1, <2>1
<1>6. f[c] = Heard(s, c, g, UnackOf(s, c)) /\ h[c] = Heard(s, c, g, UnackOf(t, c))
  OBVIOUS
<1>7. Counts(cnt, AlarmSevr, S, f)
  BY <1>3, <1>4 DEF BeepExact, Counts
<1> HIDE DEF f, h, S, cnt
<1>8. CASE c \in S
  <2> \A e \in S \ {c} : h[e] = f[e]
    BY <1>1, <1>2
  <2>1. Counts(Shift(cnt, f[c], h[c], 1), AlarmSevr, S, h)
    BY <1>1, <1>7, <1>8, CountShift
  <2>2. t.group[g].unackBeepSev = Shift(cnt, f[c], h[c], 1)
    BY <1>1, <1>6, <1>8 DEF UnackMoved, cnt
  <2> QED BY <1>5, <2>1, <2>2 DEF S, Counts
<1>9. CASE c \notin S
  <2>1. {e \in S : h[e] = v} = {e \in S : f[e] = v}
    BY <1>1, <1>2, <1>9
  <2>2. t.group[g].unackBeepSev = cnt
    BY <1>1, <1>9 DEF UnackMoved, cnt
  <2> QED BY <1>5, <1>7, <2>1, <2>2 DEF S, Counts
<1> QED BY <1>8, <1>9

----------------------------------------------------------------------------
(* The highest severity of counters.                                       *)

(* alHighestSeverity and alHighestBeepSeverity return a severity that is   *)
(* counted, and no counted one is higher.                                  *)
LEMMA HighestFromMax ==
  ASSUME NEW cnt, NEW low
  PROVE  /\ \A v \in AlarmSevr : v >= low /\ cnt[v] > 0 => v <= HighestFrom(cnt, low)
         /\ \/ HighestFrom(cnt, low) = NO_ALARM
            \/ /\ HighestFrom(cnt, low) \in AlarmSevr
               /\ HighestFrom(cnt, low) >= low
               /\ cnt[HighestFrom(cnt, low)] > 0
<1> DEFINE Pos == {v \in AlarmSevr : v >= low /\ cnt[v] > 0}
<1>1. CASE Pos = {}
  BY <1>1 DEF HighestFrom
<1>2. CASE Pos # {}
  <2>1. \E v \in Pos : \A w \in Pos : w <= v
    BY <1>2, MaxExists
  <2>2. HighestFrom(cnt, low) \in Pos /\ \A w \in Pos : w <= HighestFrom(cnt, low)
    BY <1>2, <2>1 DEF HighestFrom
  <2> QED BY <2>2
<1> QED BY <1>1, <1>2

(* With exact counters, the unacknowledged severity of a group is that of  *)
(* the worst channel below it.                                             *)
LEMMA UnackTop ==
  ASSUME NEW s \in State, UnackExact(s), TopsExact(s), NEW g \in Group
  PROVE  /\ \A c \in ChannelsBelow(g) : UnackOf(s, c) <= s.group[g].unackSevr
         /\ s.group[g].unackSevr \in {NO_ALARM} \cup {UnackOf(s, c) : c \in ChannelsBelow(g)}
<1> DEFINE cnt == s.group[g].unackSev
           top == s.group[g].unackSevr
           At(v) == {c \in ChannelsBelow(g) : UnackOf(s, c) = v}
<1>1. top = HighestFrom(cnt, 1)
  BY DEF TopsExact, alHighestSeverity
<1>2. /\ \A v \in AlarmSevr : v >= 1 /\ cnt[v] > 0 => v <= top
      /\ top = NO_ALARM \/ (top \in AlarmSevr /\ cnt[top] > 0)
  <2> HIDE DEF top, cnt
  <2> QED BY <1>1, HighestFromMax
<1>3. \A v \in AlarmSevr : /\ cnt[v] = Cardinality(At(v)) /\ IsFiniteSet(At(v))
                           /\ Cardinality(At(v)) \in Nat
                           /\ Cardinality(At(v)) = 0 <=> At(v) = {}
  <2>1. \A v \in AlarmSevr : cnt[v] = Cardinality(At(v))
    BY DEF UnackExact
  <2>2. \A v \in AlarmSevr : IsFiniteSet(At(v))
    BY BelowFinite, FS_Subset
  <2> QED BY <2>1, <2>2, FS_CardinalityType, FS_EmptySet
<1>4. top \in Sevr
  BY DEF State, GroupData
<1>5. ASSUME NEW c \in ChannelsBelow(g) PROVE UnackOf(s, c) <= top
  <2>1. c \in Chan
    BY DEF ChannelsBelow
  <2>2. UnackOf(s, c) \in Sevr
    BY <2>1, SevrBounds DEF UnackOf, State, ChanData
  <2>3. CASE UnackOf(s, c) = NO_ALARM
    BY <1>4, <2>3, SevrAssumption DEF NO_ALARM, Sevr
  <2>4. CASE UnackOf(s, c) # NO_ALARM
    <3> DEFINE v == UnackOf(s, c)
    <3>1. v \in AlarmSevr /\ v >= 1
      BY <2>2, <2>4, SevrAssumption DEF NO_ALARM, Sevr, AlarmSevr
    <3>2. At(v) # {}
      OBVIOUS
    <3>3. cnt[v] > 0
      <4> HIDE DEF v, At, cnt
      <4> QED BY <1>3, <3>1, <3>2
    <3> QED BY <1>2, <3>1, <3>3
  <2> QED BY <2>3, <2>4
<1>6. ASSUME top # NO_ALARM PROVE \E c \in ChannelsBelow(g) : UnackOf(s, c) = top
  <2>1. top \in AlarmSevr /\ cnt[top] > 0
    BY <1>2, <1>6
  <2>2. At(top) # {}
    <3> HIDE DEF At, cnt, top
    <3> QED BY <1>3, <2>1
  <2> QED BY <2>2
<1> QED BY <1>5, <1>6

(* The same for the severity it beeps with.                                *)
LEMMA BeepTopExact ==
  ASSUME NEW s \in State, BeepExact(s), TopsExact(s), NEW g \in Group
  PROVE  /\ \A c \in ChannelsBelow(g) :
              Heard(s, c, g, UnackOf(s, c)) >= s.group[g].beepSevr
              => Heard(s, c, g, UnackOf(s, c)) <= s.group[g].unackBeepSevr
         /\ \/ s.group[g].unackBeepSevr = NO_ALARM
            \/ \E c \in ChannelsBelow(g) :
                 /\ s.group[g].unackBeepSevr = Heard(s, c, g, UnackOf(s, c))
                 /\ Heard(s, c, g, UnackOf(s, c)) >= s.group[g].beepSevr
<1> DEFINE cnt == s.group[g].unackBeepSev
           low == s.group[g].beepSevr
           top == s.group[g].unackBeepSevr
           Seen(c) == Heard(s, c, g, UnackOf(s, c))
           At(v) == {c \in ChannelsBelow(g) : Seen(c) = v}
<1>1. top = HighestFrom(cnt, low)
  BY DEF TopsExact, alHighestBeepSeverity
<1>2. /\ \A v \in AlarmSevr : v >= low /\ cnt[v] > 0 => v <= top
      /\ top = NO_ALARM \/ (top \in AlarmSevr /\ top >= low /\ cnt[top] > 0)
  <2> HIDE DEF top, cnt, low
  <2> QED BY <1>1, HighestFromMax
<1>3. \A v \in AlarmSevr : /\ cnt[v] = Cardinality(At(v)) /\ IsFiniteSet(At(v))
                           /\ Cardinality(At(v)) \in Nat
                           /\ Cardinality(At(v)) = 0 <=> At(v) = {}
  <2>1. \A v \in AlarmSevr : cnt[v] = Cardinality(At(v))
    BY DEF BeepExact
  <2>2. \A v \in AlarmSevr : IsFiniteSet(At(v))
    BY BelowFinite, FS_Subset
  <2> QED BY <2>1, <2>2, FS_CardinalityType, FS_EmptySet
<1>4. top \in Sevr /\ low \in Sevr
  BY DEF State, GroupData
<1>5. ASSUME NEW c \in ChannelsBelow(g), Seen(c) >= low PROVE Seen(c) <= top
  <2>1. c \in Chan
    BY DEF ChannelsBelow
  <2>2. UnackOf(s, c) \in Sevr
    BY <2>1, SevrBounds DEF UnackOf, State, ChanData
  <2>3. Seen(c) \in Sevr
    BY <2>2, BeepFilterType DEF Heard
  <2>4. CASE Seen(c) = NO_ALARM
    BY <1>4, <2>4, SevrAssumption DEF NO_ALARM, Sevr
  <2>5. CASE Seen(c) # NO_ALARM
    <3> DEFINE v == Seen(c)
    <3>1. v \in AlarmSevr
      BY <2>3, <2>5, SevrAssumption DEF NO_ALARM, Sevr, AlarmSevr
    <3>2. At(v) # {}
      OBVIOUS
    <3>3. cnt[v] > 0
      <4> HIDE DEF v, At, cnt
      <4> QED BY <1>3, <3>1, <3>2
    <3> QED BY <1>2, <1>5, <3>1, <3>3
  <2> QED BY <2>4, <2>5
<1>6. ASSUME top # NO_ALARM
      PROVE  \E c \in ChannelsBelow(g) : top = Seen(c) /\ Seen(c) >= low
  <2>1. top \in AlarmSevr /\ top >= low /\ cnt[top] > 0
    BY <1>2, <1>6
  <2>2. At(top) # {}
    <3> HIDE DEF At, cnt, top
    <3> QED BY <1>3, <2>1
  <2>3. PICK c \in ChannelsBelow(g) : Seen(c) = top
    BY <2>2
  <2> QED BY <2>1, <2>3
<1> QED BY <1>5, <1>6

----------------------------------------------------------------------------
(* Changes of beep severities.                                             *)

\* what no change of a beep severity touches
Steady(s, t) ==
  /\ t \in State
  /\ \A e \in Chan : /\ t.chan[e].curMask = s.chan[e].curMask
                     /\ t.chan[e].curStat = s.chan[e].curStat
                     /\ t.chan[e].curSevr = s.chan[e].curSevr
                     /\ t.chan[e].unackSevr = s.chan[e].unackSevr
  /\ \A h \in Group : /\ t.group[h].curSev = s.group[h].curSev
                      /\ t.group[h].unackSev = s.group[h].unackSev
                      /\ t.group[h].unackSevr = s.group[h].unackSevr

BeepTop(s, h) ==
  s.group[h].unackBeepSevr = alHighestBeepSeverity(s.group[h].unackBeepSev, s.group[h].beepSevr)

\* the unacknowledged beep severities changed, and no beep severity
BeepAlone(s, t) ==
  /\ Steady(s, t)
  /\ \A n \in Node : BeepSevr(t, n) = BeepSevr(s, n)
  /\ \A h \in Group : /\ t.group[h].beepSev = s.group[h].beepSev
                      /\ BeepTop(s, h) => BeepTop(t, h)

\* n has the beep severity new, and the groups around it count it
BeepSevrSet(s, t, n, new) ==
  /\ Steady(s, t)
  /\ \A m \in Node : BeepSevr(t, m) = IF m = n THEN new ELSE BeepSevr(s, m)
  /\ \A h \in Group :
       t.group[h].beepSev = IF h = n \/ h \in Anc[n]
                            THEN Shift(s.group[h].beepSev, BeepSevr(s, n), new, 1)
                            ELSE s.group[h].beepSev
  /\ TopsExact(s) => TopsExact(t)

(* The two predicates, one after the other.                                *)
LEMMA BeepSevrSetThen ==
  ASSUME NEW s, NEW t, NEW r, NEW n, NEW new, BeepSevrSet(s, t, n, new), BeepAlone(t, r)
  PROVE  BeepSevrSet(s, r, n, new)
<1>1. Steady(s, r)
  BY DEF BeepSevrSet, BeepAlone, Steady
<1>2. TopsExact(t) => TopsExact(r)
  BY DEF BeepAlone, Steady, TopsExact, BeepTop
<1> QED BY <1>1, <1>2 DEF BeepSevrSet, BeepAlone

(* UnackBeepSevUp changes unacknowledged beep severities only.             *)
LEMMA BeepUpAlone ==
  ASSUME NEW s \in State, NEW t, NEW c \in Chan, NEW u, NEW w, BeepUp(s, t, c, u, w)
  PROVE  BeepAlone(s, t)
<1>1. Steady(s, t)
  BY DEF BeepUp, Steady
<1>2. \A n \in Node : BeepSevr(t, n) = BeepSevr(s, n)
  BY DEF BeepUp, BeepSevr, Node
<1>3. ASSUME NEW h \in Group, BeepTop(s, h) PROVE BeepTop(t, h)
  <2>1. CASE h \in Anc[c]
    BY <2>1 DEF BeepUp, BeepTop
  <2>2. CASE h \notin Anc[c]
    BY <1>3, <2>2 DEF BeepUp, BeepTop
  <2> QED BY <2>1, <2>2
<1> QED BY <1>1, <1>2, <1>3 DEF BeepUp, BeepAlone

(* So does the loop of alSetBeepSevrGroup over the severities.             *)
LEMMA MoveBeepCountsAlone ==
  ASSUME NEW s \in State, NEW g \in Group, NEW low \in Sevr, NEW high \in Sevr,
         NEW sign \in {1, -1}
  PROVE  BeepAlone(s, MoveBeepCounts(s, g, low, high, sign))
<1> DEFINE Seen(h, v) == v >= low /\ v < high /\ BeepFilter(s, v, Below(g, h)) = v
           cnt(h) == [v \in AlarmSevr |->
                        s.group[h].unackBeepSev[v]
                        + (IF Seen(h, v) THEN sign * s.group[g].unackSev[v] ELSE 0)]
           top(h) == alHighestBeepSeverity(cnt(h), s.group[h].beepSevr)
           Up(h) == [s.group[h] EXCEPT !.unackBeepSev = cnt(h), !.unackBeepSevr = top(h)]
           last == IF sign = 1 THEN high - 1 ELSE NO_ALARM
           F == [h \in Group |-> IF h \in Anc[g] THEN Up(h) ELSE s.group[h]]
           b == BeepFilter(s, last, Anc[g])
<1>1. CASE Anc[g] = {} \/ high <= 1
  BY <1>1 DEF MoveBeepCounts, BeepAlone, Steady
<1>2. CASE ~(Anc[g] = {} \/ high <= 1)
  <2>1. PICK t : t = MoveBeepCounts(s, g, low, high, sign)
    OBVIOUS
  <2>2. t \in State
    <3>1. Preserves(s, MoveBeepCounts(s, g, low, high, sign))
      BY MoveBeepCountsPreserves
    <3> QED BY <2>1, <3>1 DEF Preserves
  <2>3. t = [s EXCEPT !.group = F, !.psetup.newUnackBeepSevr = b]
    BY <1>2, <2>1 DEF MoveBeepCounts
  <2>4. t.chan = s.chan /\ t.group = F
    <3> HIDE DEF F, b
    <3> QED BY <2>3 DEF State
  <2>5. ASSUME NEW h \in Group
        PROVE  /\ Up(h).unackBeepSev = cnt(h) /\ Up(h).unackBeepSevr = top(h)
               /\ Up(h).curSev = s.group[h].curSev
               /\ Up(h).unackSev = s.group[h].unackSev
               /\ Up(h).unackSevr = s.group[h].unackSevr
               /\ Up(h).beepSevr = s.group[h].beepSevr
               /\ Up(h).beepSev = s.group[h].beepSev
    <3> HIDE DEF cnt, top
    <3>1. s.group[h] \in GroupData
      BY DEF State
    <3> QED BY <3>1 DEF GroupData
  <2> HIDE DEF Up
  <2>6. \A h \in Group : t.group[h] = IF h \in Anc[g] THEN Up(h) ELSE s.group[h]
    BY <2>4
  <2> HIDE DEF F, cnt
  <2>7. ASSUME NEW h \in Group, BeepTop(s, h) PROVE BeepTop(t, h)
    <3>1. CASE h \in Anc[g]
      BY <2>5, <2>6, <3>1 DEF BeepTop
    <3>2. CASE h \notin Anc[g]
      BY <2>6, <2>7, <3>2 DEF BeepTop
    <3> QED BY <3>1, <3>2
  <2>8. \A n \in Node : BeepSevr(t, n) = BeepSevr(s, n)
    BY <2>4, <2>5, <2>6 DEF BeepSevr, Node
  <2>9. Steady(s, t)
    BY <2>2, <2>4, <2>5, <2>6 DEF Steady
  <2> QED BY <2>1, <2>5, <2>6, <2>7, <2>8, <2>9 DEF BeepAlone
<1> QED BY <1>1, <1>2

\* beepSev of the groups in nodes was moved, and nothing else the other counters need
BeepSevUp(s, t, nodes, new, old) ==
  /\ t \in State /\ t.chan = s.chan /\ t.psetup = s.psetup
  /\ \A h \in Group :
       /\ t.group[h].beepSev = IF h \in nodes THEN Shift(s.group[h].beepSev, old, new, 1)
                               ELSE s.group[h].beepSev
       /\ t.group[h].curSev = s.group[h].curSev
       /\ t.group[h].unackSev = s.group[h].unackSev
       /\ t.group[h].unackSevr = s.group[h].unackSevr
       /\ t.group[h].unackBeepSev = s.group[h].unackBeepSev
       /\ t.group[h].unackBeepSevr = s.group[h].unackBeepSevr
       /\ t.group[h].beepSevr = s.group[h].beepSevr

(* alSetBeepSevCount.                                                      *)
LEMMA alSetBeepSevCountEffect ==
  ASSUME NEW s \in State, NEW nodes, NEW new, NEW old,
         NEW t, t = alSetBeepSevCount(s, nodes, new, old)
  PROVE  BeepSevUp(s, t, nodes, new, old)
<1> DEFINE cnt(h) == Shift(s.group[h].beepSev, old, new, 1)
           top(h) == alHighestSeverity(cnt(h))
           Up(h) == [s.group[h] EXCEPT !.beepSev = cnt(h), !.highestBeepSevr = top(h)]
           F == [h \in Group |-> IF h \in nodes THEN Up(h) ELSE s.group[h]]
<1>1. t \in State
  BY alSetBeepSevCountPreserves DEF Preserves
<1>2. t = [s EXCEPT !.group = F]
  BY DEF alSetBeepSevCount
<1>3. t.chan = s.chan /\ t.group = F /\ t.psetup = s.psetup
  <2> HIDE DEF F
  <2> QED BY <1>2 DEF State
<1>4. ASSUME NEW h \in Group
      PROVE  /\ Up(h).beepSev = cnt(h)
             /\ Up(h).curSev = s.group[h].curSev
             /\ Up(h).unackSev = s.group[h].unackSev
             /\ Up(h).unackSevr = s.group[h].unackSevr
             /\ Up(h).unackBeepSev = s.group[h].unackBeepSev
             /\ Up(h).unackBeepSevr = s.group[h].unackBeepSevr
             /\ Up(h).beepSevr = s.group[h].beepSevr
  <2> HIDE DEF cnt, top
  <2>1. s.group[h] \in GroupData
    BY DEF State
  <2> QED BY <2>1 DEF GroupData
<1> HIDE DEF Up
<1>5. \A h \in Group : t.group[h] = IF h \in nodes THEN Up(h) ELSE s.group[h]
  BY <1>3
<1> HIDE DEF F
<1> QED BY <1>1, <1>3, <1>4, <1>5 DEF BeepSevUp

(* alSetBeepSevrChan sets one beep severity, and counts it.                *)
LEMMA alSetBeepSevrChanSets ==
  ASSUME NEW s \in State, NEW c \in Chan, NEW beepSevr \in Sevr,
         NEW t, t = alSetBeepSevrChan(s, c, beepSevr)
  PROVE  BeepSevrSet(s, t, c, beepSevr)
<1> DEFINE old == s.chan[c].beepSevr
           sev == s.chan[c].unackSevr
           osev == IF sev >= old THEN sev ELSE NO_ALARM
           nsev == IF sev >= beepSevr THEN sev ELSE NO_ALARM
           d == [s.chan[c] EXCEPT !.beepSevr = beepSevr]
<1> PICK s0 : s0 = [s EXCEPT !.chan[c] = d]
  OBVIOUS
<1> PICK s1 : s1 = alSetBeepSevCount(s0, Anc[c], beepSevr, old)
  OBVIOUS
<1>0. c \in Node /\ c \notin Group /\ BeepSevr(s, c) = old /\ Anc[c] \subseteq Group
  BY NodeAssumption, TreeAssumption DEF Node, BeepSevr
<1>1. s.chan[c] \in ChanData /\ sev \in Sevr
  BY DEF State, ChanData
<1>2. /\ d \in ChanData /\ d.beepSevr = beepSevr /\ d.curMask = s.chan[c].curMask
      /\ d.curStat = s.chan[c].curStat /\ d.curSevr = s.chan[c].curSevr
      /\ d.unackSevr = s.chan[c].unackSevr
  BY <1>1 DEF ChanData
<1>3. osev \in Sevr /\ nsev \in Sevr
  BY <1>1, SevrBounds
<1>4. t = IF old = beepSevr THEN s
          ELSE IF osev = nsev THEN s1 ELSE UnackBeepSevUp(s1, c, nsev, osev, 1)
  BY DEF alSetBeepSevrChan
<1> HIDE DEF d, osev, nsev
<1>5. /\ s0 \in State /\ s0.group = s.group /\ s0.chan[c] = d
      /\ \A e \in Chan \ {c} : s0.chan[e] = s.chan[e]
  BY <1>2 DEF State
<1>6. BeepSevUp(s0, s1, Anc[c], beepSevr, old)
  BY <1>5, alSetBeepSevCountEffect
<1>7. BeepSevrSet(s, s1, c, beepSevr)
  <2>0. /\ \A e \in Chan \ {c} : s1.chan[e] = s.chan[e]
        /\ s1.chan[c] = d
        /\ \A h \in Group : s1.group[h].beepSevr = s.group[h].beepSevr
    BY <1>5, <1>6 DEF BeepSevUp
  <2>1. Steady(s, s1)
    <3>1. \A e \in Chan : /\ s1.chan[e].curMask = s.chan[e].curMask
                          /\ s1.chan[e].curStat = s.chan[e].curStat
                          /\ s1.chan[e].curSevr = s.chan[e].curSevr
                          /\ s1.chan[e].unackSevr = s.chan[e].unackSevr
      BY <1>2, <2>0
    <3>2. \A h \in Group : /\ s1.group[h].curSev = s.group[h].curSev
                           /\ s1.group[h].unackSev = s.group[h].unackSev
                           /\ s1.group[h].unackSevr = s.group[h].unackSevr
      BY <1>5, <1>6 DEF BeepSevUp
    <3>3. s1 \in State
      BY <1>6 DEF BeepSevUp
    <3> QED BY <3>1, <3>2, <3>3 DEF Steady
  <2>2. ASSUME NEW m \in Node
        PROVE  BeepSevr(s1, m) = IF m = c THEN beepSevr ELSE BeepSevr(s, m)
    <3>1. CASE m = c
      BY <1>2, <2>0, <3>1 DEF BeepSevr
    <3>2. CASE m # c
      BY <2>0, <3>2 DEF BeepSevr, Node
    <3> QED BY <3>1, <3>2
  <2>3. TopsExact(s) => TopsExact(s1)
    BY <1>5, <1>6 DEF BeepSevUp, TopsExact
  <2>4. \A h \in Group : s1.group[h].beepSev =
          IF h = c \/ h \in Anc[c] THEN Shift(s.group[h].beepSev, BeepSevr(s, c), beepSevr, 1)
          ELSE s.group[h].beepSev
    BY <1>0, <1>5, <1>6 DEF BeepSevUp
  <2> QED BY <2>1, <2>2, <2>3, <2>4 DEF BeepSevrSet
<1> s1 \in State
  BY <1>6 DEF BeepSevUp
<1>8. BeepAlone(s1, UnackBeepSevUp(s1, c, nsev, osev, 1))
  BY <1>3, UnackBeepSevUpEffect, BeepUpAlone
<1>9. BeepSevrSet(s, UnackBeepSevUp(s1, c, nsev, osev, 1), c, beepSevr)
  BY <1>7, <1>8, BeepSevrSetThen
<1>10. old = beepSevr => BeepSevrSet(s, s, c, beepSevr)
  <2>1. \A h \in Group : s.group[h].beepSev \in [AlarmSevr -> Int]
    BY DEF State, GroupData, Counters
  <2>2. \A h \in Group : Shift(s.group[h].beepSev, old, old, 1) = s.group[h].beepSev
    BY <2>1, ShiftNone
  <2> QED BY <1>0, <2>2 DEF BeepSevrSet, Steady
<1> QED BY <1>4, <1>7, <1>9, <1>10

\* the counters of group h that a change of its beep severity leaves alone
SameCounters(s, t, h) ==
  /\ t.group[h].curSev = s.group[h].curSev
  /\ t.group[h].unackSev = s.group[h].unackSev
  /\ t.group[h].unackSevr = s.group[h].unackSevr
  /\ t.group[h].unackBeepSev = s.group[h].unackBeepSev

\* the two severities of a group that alSetBeepSevrGroup assigns
GroupSet(s, t, g, new, top) ==
  /\ t \in State /\ t.chan = s.chan
  /\ \A h \in Group : SameCounters(s, t, h) /\ t.group[h].beepSev = s.group[h].beepSev
  /\ \A h \in Group \ {g} : /\ t.group[h].beepSevr = s.group[h].beepSevr
                            /\ t.group[h].unackBeepSevr = s.group[h].unackBeepSevr
  /\ t.group[g].beepSevr = new
  /\ t.group[g].unackBeepSevr = top

(* The assignment of the fields of one group.                              *)
LEMMA GroupAssigned ==
  ASSUME NEW s \in State, NEW g \in Group, NEW d \in GroupData,
         d.curSev = s.group[g].curSev, d.unackSev = s.group[g].unackSev,
         d.unackSevr = s.group[g].unackSevr, d.unackBeepSev = s.group[g].unackBeepSev,
         d.beepSev = s.group[g].beepSev
  PROVE  GroupSet(s, [s EXCEPT !.group[g] = d], g, d.beepSevr, d.unackBeepSevr)
<1>1. PICK t : t = [s EXCEPT !.group[g] = d]
  OBVIOUS
<1>2. /\ t \in State /\ t.chan = s.chan /\ t.group[g] = d
      /\ \A h \in Group \ {g} : t.group[h] = s.group[h]
  BY <1>1 DEF State
<1>3. GroupSet(s, t, g, d.beepSevr, d.unackBeepSevr)
  BY <1>2 DEF GroupSet, SameCounters
<1> QED BY <1>1, <1>3, Zenon

(* The assignment of the beep severity of a group.                         *)
LEMMA GroupBeepSevrAssigned ==
  ASSUME NEW s \in State, NEW g \in Group, NEW new \in Sevr
  PROVE  GroupSet(s, [s EXCEPT !.group[g].beepSevr = new], g, new, s.group[g].unackBeepSevr)
<1> DEFINE d == [s.group[g] EXCEPT !.beepSevr = new]
<1>1. s.group[g] \in GroupData
  BY DEF State
<1>2. /\ d \in GroupData /\ d.beepSevr = new
      /\ d.curSev = s.group[g].curSev /\ d.unackSev = s.group[g].unackSev
      /\ d.unackSevr = s.group[g].unackSevr /\ d.unackBeepSev = s.group[g].unackBeepSev
      /\ d.unackBeepSevr = s.group[g].unackBeepSevr /\ d.beepSev = s.group[g].beepSev
  BY <1>1 DEF GroupData
<1>3. [s EXCEPT !.group[g].beepSevr = new] = [s EXCEPT !.group[g] = d]
  OBVIOUS
<1> HIDE DEF d
<1>4. GroupSet(s, [s EXCEPT !.group[g] = d], g, d.beepSevr, d.unackBeepSevr)
  BY <1>2, GroupAssigned
<1>5. GroupSet(s, [s EXCEPT !.group[g] = d], g, new, s.group[g].unackBeepSevr)
  BY <1>2, <1>4, Zenon
<1> QED BY <1>3, <1>5, Zenon

(* The assignment of its unacknowledged beep severity.                     *)
LEMMA GroupTopAssigned ==
  ASSUME NEW s \in State, NEW g \in Group, NEW top \in Sevr
  PROVE  GroupSet(s, [s EXCEPT !.group[g].unackBeepSevr = top], g, s.group[g].beepSevr, top)
<1> DEFINE d == [s.group[g] EXCEPT !.unackBeepSevr = top]
<1>1. s.group[g] \in GroupData
  BY DEF State
<1>2. /\ d \in GroupData /\ d.beepSevr = s.group[g].beepSevr
      /\ d.curSev = s.group[g].curSev /\ d.unackSev = s.group[g].unackSev
      /\ d.unackSevr = s.group[g].unackSevr /\ d.unackBeepSev = s.group[g].unackBeepSev
      /\ d.unackBeepSevr = top /\ d.beepSev = s.group[g].beepSev
  BY <1>1 DEF GroupData
<1>3. [s EXCEPT !.group[g].unackBeepSevr = top] = [s EXCEPT !.group[g] = d]
  OBVIOUS
<1> HIDE DEF d
<1>4. GroupSet(s, [s EXCEPT !.group[g] = d], g, d.beepSevr, d.unackBeepSevr)
  BY <1>2, GroupAssigned
<1>5. GroupSet(s, [s EXCEPT !.group[g] = d], g, s.group[g].beepSevr, top)
  BY <1>2, <1>4, Zenon
<1> QED BY <1>3, <1>5, Zenon

(* The first part of alSetBeepSevrGroup sets one beep severity.            *)
LEMMA GroupSetSets ==
  ASSUME NEW s \in State, NEW g \in Group, NEW new \in Sevr, NEW s0, NEW s1, NEW s2,
         GroupSet(s, s0, g, new, s.group[g].unackBeepSevr),
         BeepSevUp(s0, s1, Anc[g] \cup {g}, new, s.group[g].beepSevr),
         GroupSet(s1, s2, g, s1.group[g].beepSevr,
                  alHighestBeepSeverity(s1.group[g].unackBeepSev, new))
  PROVE  BeepSevrSet(s, s2, g, new)
<1>1. s2 \in State /\ s2.chan = s.chan
  BY DEF GroupSet, BeepSevUp
<1>2. ASSUME NEW h \in Group PROVE SameCounters(s, s2, h)
  BY DEF GroupSet, BeepSevUp, SameCounters
<1>3. ASSUME NEW h \in Group \ {g}
      PROVE  /\ s2.group[h].beepSevr = s.group[h].beepSevr
             /\ s2.group[h].unackBeepSevr = s.group[h].unackBeepSevr
  BY DEF GroupSet, BeepSevUp
<1>4. s2.group[g].beepSevr = new
  BY DEF GroupSet, BeepSevUp
<1>5. s2.group[g].unackBeepSevr = alHighestBeepSeverity(s2.group[g].unackBeepSev, new)
  BY DEF GroupSet, SameCounters
<1>6. ASSUME NEW h \in Group
      PROVE  s2.group[h].beepSev = IF h = g \/ h \in Anc[g]
                                   THEN Shift(s.group[h].beepSev, s.group[g].beepSevr, new, 1)
                                   ELSE s.group[h].beepSev
  <2>1. s2.group[h].beepSev = s1.group[h].beepSev /\ s0.group[h].beepSev = s.group[h].beepSev
    BY DEF GroupSet
  <2>2. s1.group[h].beepSev = IF h \in Anc[g] \cup {g}
                              THEN Shift(s0.group[h].beepSev, s.group[g].beepSevr, new, 1)
                              ELSE s0.group[h].beepSev
    BY DEF BeepSevUp
  <2> QED BY <2>1, <2>2
<1>7. Steady(s, s2)
  BY <1>1, <1>2 DEF Steady, SameCounters
<1>8. ASSUME NEW m \in Node
      PROVE  BeepSevr(s2, m) = IF m = g THEN new ELSE BeepSevr(s, m)
  <2>1. CASE m \in Chan
    BY <1>1, <2>1, NodeAssumption DEF BeepSevr
  <2>2. CASE m = g
    BY <1>4, <2>2, NodeAssumption DEF BeepSevr
  <2>3. CASE m \notin Chan /\ m # g
    BY <1>3, <2>3 DEF BeepSevr, Node
  <2> QED BY <2>1, <2>2, <2>3
<1>9. ASSUME TopsExact(s), NEW h \in Group
      PROVE  /\ s2.group[h].unackSevr = alHighestSeverity(s2.group[h].unackSev)
             /\ s2.group[h].unackBeepSevr =
                  alHighestBeepSeverity(s2.group[h].unackBeepSev, s2.group[h].beepSevr)
  <2>1. s2.group[h].unackSevr = alHighestSeverity(s2.group[h].unackSev)
    BY <1>2, <1>9 DEF TopsExact, SameCounters
  <2>2. CASE h = g
    BY <1>4, <1>5, <2>1, <2>2
  <2>3. CASE h # g
    <3>1. /\ s2.group[h].unackBeepSevr = s.group[h].unackBeepSevr
          /\ s2.group[h].unackBeepSev = s.group[h].unackBeepSev
          /\ s2.group[h].beepSevr = s.group[h].beepSevr
      BY <1>2, <1>3, <2>3 DEF SameCounters
    <3> QED BY <1>9, <2>1, <3>1 DEF TopsExact
  <2> QED BY <2>2, <2>3
<1>10. TopsExact(s) => TopsExact(s2)
  BY <1>9 DEF TopsExact
<1>11. BeepSevr(s, g) = s.group[g].beepSevr
  BY NodeAssumption DEF BeepSevr
<1> QED BY <1>6, <1>7, <1>8, <1>10, <1>11 DEF BeepSevrSet

(* alSetBeepSevrGroup sets one beep severity, and counts it.               *)
LEMMA alSetBeepSevrGroupSets ==
  ASSUME NEW s \in State, NEW g \in Group, NEW beepSevr \in Sevr,
         NEW t, t = alSetBeepSevrGroup(s, g, beepSevr)
  PROVE  BeepSevrSet(s, t, g, beepSevr)
<1> DEFINE old == s.group[g].beepSevr
<1>1. PICK s0 : s0 = [s EXCEPT !.group[g].beepSevr = beepSevr]
  OBVIOUS
<1>2. PICK s1 : s1 = alSetBeepSevCount(s0, Anc[g] \cup {g}, beepSevr, old)
  OBVIOUS
<1> DEFINE top == alHighestBeepSeverity(s1.group[g].unackBeepSev, beepSevr)
<1>3. PICK s2 : s2 = [s1 EXCEPT !.group[g].unackBeepSevr = top]
  OBVIOUS
<1>4. t = IF old = beepSevr THEN s
          ELSE IF old < beepSevr THEN MoveBeepCounts(s2, g, old, beepSevr, -1)
          ELSE MoveBeepCounts(s2, g, beepSevr, old, 1)
  BY <1>1, <1>2, <1>3 DEF alSetBeepSevrGroup
<1>5. old \in Sevr
  BY DEF State, GroupData
<1>6. top \in Sevr
  BY HighestFromType DEF alHighestBeepSeverity
<1> HIDE DEF top
<1>7. GroupSet(s, s0, g, beepSevr, s.group[g].unackBeepSevr)
  <2>1. GroupSet(s, [s EXCEPT !.group[g].beepSevr = beepSevr], g, beepSevr,
                 s.group[g].unackBeepSevr)
    BY GroupBeepSevrAssigned
  <2> QED BY <1>1, <2>1, Zenon
<1>8. BeepSevUp(s0, s1, Anc[g] \cup {g}, beepSevr, old)
  <2>1. s0 \in State
    BY <1>7 DEF GroupSet
  <2> QED BY <1>2, <2>1, alSetBeepSevCountEffect
<1>9. GroupSet(s1, s2, g, s1.group[g].beepSevr, top)
  <2>1. s1 \in State
    BY <1>8 DEF BeepSevUp
  <2>2. GroupSet(s1, [s1 EXCEPT !.group[g].unackBeepSevr = top], g, s1.group[g].beepSevr, top)
    BY <1>6, <2>1, GroupTopAssigned
  <2> QED BY <1>3, <2>2, Zenon
<1>10. BeepSevrSet(s, s2, g, beepSevr)
  BY <1>7, <1>8, <1>9, GroupSetSets DEF top
<1>11. s2 \in State
  BY <1>9 DEF GroupSet
<1>12. BeepAlone(s2, MoveBeepCounts(s2, g, old, beepSevr, -1))
  BY <1>5, <1>11, MoveBeepCountsAlone
<1>13. BeepAlone(s2, MoveBeepCounts(s2, g, beepSevr, old, 1))
  BY <1>5, <1>11, MoveBeepCountsAlone
<1> HIDE DEF old
<1>14. BeepSevrSet(s, MoveBeepCounts(s2, g, old, beepSevr, -1), g, beepSevr)
  BY <1>10, <1>12, BeepSevrSetThen
<1>15. BeepSevrSet(s, MoveBeepCounts(s2, g, beepSevr, old, 1), g, beepSevr)
  BY <1>10, <1>13, BeepSevrSetThen
<1>16. old = beepSevr => BeepSevrSet(s, s, g, beepSevr)
  <2>1. \A h \in Group : s.group[h].beepSev \in [AlarmSevr -> Int]
    BY DEF State, GroupData, Counters
  <2>2. \A h \in Group : Shift(s.group[h].beepSev, old, old, 1) = s.group[h].beepSev
    BY <2>1, ShiftNone
  <2>3. BeepSevr(s, g) = old
    BY NodeAssumption DEF BeepSevr, old
  <2> QED BY <2>2, <2>3 DEF BeepSevrSet, Steady
<1> QED BY <1>4, <1>14, <1>15, <1>16

(* The counters of the beep severities.                                    *)
BeepSevExact(s) ==
  \A g \in Group, v \in AlarmSevr :
    s.group[g].beepSev[v] =
      Cardinality({n \in Node : (n = g \/ g \in Anc[n]) /\ BeepSevr(s, n) = v})

\* Setting the beep severity of a node keeps the counts of beep severities.
LEMMA BeepSevExactSet ==
  ASSUME NEW s \in State, NEW t, NEW n \in Node, NEW new, BeepSevrSet(s, t, n, new),
         BeepSevExact(s)
  PROVE  BeepSevExact(t)
<1> SUFFICES ASSUME NEW g \in Group, NEW v \in AlarmSevr
             PROVE  t.group[g].beepSev[v]
                    = Cardinality({m \in Node : (m = g \/ g \in Anc[m]) /\ BeepSevr(t, m) = v})
  BY DEF BeepSevExact
<1> DEFINE S == {m \in Node : m = g \/ g \in Anc[m]}
           f == [m \in Node |-> BeepSevr(s, m)]
           h == [m \in Node |-> BeepSevr(t, m)]
           cnt == s.group[g].beepSev
<1>1. IsFiniteSet(S) /\ S \subseteq Node /\ (n \in S <=> g = n \/ g \in Anc[n])
  <2>1. IsFiniteSet(Node)
    BY NodeAssumption, FS_Union DEF Node
  <2>2. S \subseteq Node
    OBVIOUS
  <2>3. IsFiniteSet(S)
    BY <2>1, <2>2, FS_Subset
  <2> QED BY <2>2, <2>3
<1>2. \A m \in S \ {n} : h[m] = f[m]
  BY DEF BeepSevrSet
<1>3. cnt \in [AlarmSevr -> Int]
  BY DEF State, GroupData, Counters
<1>4. \A w \in AlarmSevr : {m \in Node : (m = g \/ g \in Anc[m]) /\ BeepSevr(s, m) = w}
                           = {m \in S : f[m] = w}
  OBVIOUS
<1>5. {m \in Node : (m = g \/ g \in Anc[m]) /\ BeepSevr(t, m) = v} = {m \in S : h[m] = v}
  OBVIOUS
<1>6. f[n] = BeepSevr(s, n) /\ h[n] = new
  BY DEF BeepSevrSet
<1>7. Counts(cnt, AlarmSevr, S, f)
  BY <1>3, <1>4 DEF BeepSevExact, Counts
<1> HIDE DEF f, h, S, cnt
<1>8. CASE n \in S
  <2>1. Counts(Shift(cnt, f[n], h[n], 1), AlarmSevr, S, h)
    BY <1>1, <1>2, <1>7, <1>8, CountShift
  <2>2. t.group[g].beepSev = Shift(cnt, f[n], h[n], 1)
    BY <1>1, <1>6, <1>8 DEF BeepSevrSet, cnt
  <2> QED BY <1>5, <2>1, <2>2 DEF Counts
<1>9. CASE n \notin S
  <2>1. {m \in S : h[m] = v} = {m \in S : f[m] = v}
    BY <1>1, <1>2, <1>9
  <2>2. t.group[g].beepSev = cnt
    BY <1>1, <1>9 DEF BeepSevrSet, cnt
  <2> QED BY <1>5, <1>7, <2>1, <2>2 DEF Counts
<1> QED BY <1>8, <1>9

----------------------------------------------------------------------------
(* A mask change that leaves the mask as it is changes nothing else.       *)

\* bit b of c is set to what mask has, other bits than AckT stay
BitSet(s, t, c, b, mask) ==
  /\ t \in State
  /\ t.chan[c].curMask \ {b, "AckT"} = s.chan[c].curMask \ {b, "AckT"}
  /\ b \in t.chan[c].curMask <=> b \in mask

(* The Cancel part of alChangeChanMask sets the Cancel bit.                *)
LEMMA ChangeCancelBit ==
  ASSUME NEW s \in State, NEW c \in Chan, NEW mask
  PROVE  BitSet(s, ChangeCancel(s, c, mask), c, "Cancel", mask)
<1> DEFINE new == "Cancel" \in mask
<1>1. CASE new = On(s, c, "Cancel")
  BY <1>1 DEF ChangeCancel, BitSet, On
<1>2. CASE new # On(s, c, "Cancel")
  <2> SUFFICES ASSUME NEW s1, s1 = SetMaskBit(s, c, "Cancel", new),
                      NEW t, t = IF new THEN CancelOn(s1, c) ELSE CancelOff(s1, c)
               PROVE  BitSet(s, t, c, "Cancel", mask)
    BY <1>2 DEF ChangeCancel
  <2> DEFINE m == s.chan[c].curMask
             m1 == IF new THEN m \cup {"Cancel"} ELSE m \ {"Cancel"}
  <2>1. new \in BOOLEAN /\ "Cancel" \in MaskBit
    BY DEF MaskBit
  <2>2. s1 \in State /\ s1.chan[c].curMask = m1
    <3>1. BitChanged(s, s1, c, "Cancel", new)
      BY <1>2, <2>1, SetMaskBitEffect
    <3> QED BY <3>1 DEF BitChanged
  <2>3. t \in State /\ t.chan[c].curMask \ {"AckT"} = m1 \ {"AckT"}
    <3>1. CASE new
      BY <2>2, <3>1, CancelOnMoves DEF Frame
    <3>2. CASE ~new
      BY <2>2, <3>2, CancelOffMoves DEF Frame
    <3> QED BY <3>1, <3>2
  <2> QED BY <2>3 DEF BitSet
<1> QED BY <1>1, <1>2

(* The Disable part.                                                       *)
LEMMA ChangeDisableBit ==
  ASSUME NEW s \in State, NEW c \in Chan, NEW mask
  PROVE  BitSet(s, ChangeDisable(s, c, mask), c, "Disable", mask)
<1> DEFINE new == "Disable" \in mask
<1>1. CASE new = On(s, c, "Disable")
  BY <1>1 DEF ChangeDisable, BitSet, On
<1>2. CASE new # On(s, c, "Disable")
  <2> SUFFICES ASSUME NEW s1, s1 = SetMaskBit(s, c, "Disable", new),
                      NEW t, t = IF "Cancel" \in mask THEN s1
                                 ELSE IF new THEN DisableOn(s1, c) ELSE DisableOff(s1, c)
               PROVE  BitSet(s, t, c, "Disable", mask)
    BY <1>2 DEF ChangeDisable
  <2> DEFINE m == s.chan[c].curMask
             m1 == IF new THEN m \cup {"Disable"} ELSE m \ {"Disable"}
  <2>1. new \in BOOLEAN /\ "Disable" \in MaskBit
    BY DEF MaskBit
  <2>2. s1 \in State /\ s1.chan[c].curMask = m1
    <3>1. BitChanged(s, s1, c, "Disable", new)
      BY <1>2, <2>1, SetMaskBitEffect
    <3> QED BY <3>1 DEF BitChanged
  <2>3. t \in State /\ t.chan[c].curMask \ {"AckT"} = m1 \ {"AckT"}
    <3>1. CASE t = s1
      BY <2>2, <3>1
    <3>2. CASE t = DisableOn(s1, c)
      BY <2>2, <3>2, DisableOnMoves DEF Moved, Frame, Has
    <3>3. CASE t = Reprocess(s1, c, NO_ALARM)
      BY <2>2, <3>3, SevrBounds, ReprocessMoves DEF Moved, Frame
    <3>4. CASE t = AutoAck(s1, c)
      BY <2>2, <3>4, AutoAckMoves DEF Frame, Has
    <3> QED BY <3>1, <3>2, <3>3, <3>4 DEF DisableOff
  <2> QED BY <2>3 DEF BitSet
<1> QED BY <1>1, <1>2

(* The Ack part.                                                           *)
LEMMA ChangeAckBit ==
  ASSUME NEW s \in State, NEW c \in Chan, NEW mask
  PROVE  BitSet(s, ChangeAck(s, c, mask), c, "Ack", mask)
<1> DEFINE new == "Ack" \in mask
<1>1. CASE new = On(s, c, "Ack")
  BY <1>1 DEF ChangeAck, BitSet, On
<1>2. CASE new # On(s, c, "Ack")
  <2> SUFFICES ASSUME NEW s1, s1 = SetMaskBit(s, c, "Ack", new),
                      NEW t, t = IF new THEN UncountUnack(s1, c)
                                 ELSE IF mask \cap {"Cancel", "Disable"} = {} THEN AckOff(s1, c)
                                 ELSE s1
               PROVE  BitSet(s, t, c, "Ack", mask)
    BY <1>2 DEF ChangeAck
  <2> DEFINE m == s.chan[c].curMask
             m1 == IF new THEN m \cup {"Ack"} ELSE m \ {"Ack"}
  <2>1. new \in BOOLEAN /\ "Ack" \in MaskBit
    BY DEF MaskBit
  <2>2. s1 \in State /\ s1.chan[c].curMask = m1
    <3>1. BitChanged(s, s1, c, "Ack", new)
      BY <1>2, <2>1, SetMaskBitEffect
    <3> QED BY <3>1 DEF BitChanged
  <2>3. t \in State /\ t.chan[c].curMask = m1
    <3>1. CASE t = s1
      BY <2>2, <3>1
    <3>2. CASE t = UncountUnack(s1, c)
      BY <2>2, <3>2, UncountUnackMoves DEF Moved, Frame, Has
    <3>3. CASE t = AckOff(s1, c)
      BY <2>2, <3>3, AckOffMoves DEF Frame
    <3> QED BY <3>1, <3>2, <3>3
  <2> QED BY <2>3 DEF BitSet
<1> QED BY <1>1, <1>2

(* The bits that only count.                                               *)
LEMMA ChangePlainBit ==
  ASSUME NEW s \in State, NEW c \in Chan, NEW b \in {"AckT", "Log"}, NEW mask
  PROVE  LET t == ChangePlain(s, c, b, mask)
         IN  /\ t \in State
             /\ t.chan[c].curMask \ {b} = s.chan[c].curMask \ {b}
             /\ b \in t.chan[c].curMask <=> b \in mask
<1> DEFINE new == b \in mask
<1>1. CASE new = On(s, c, b)
  BY <1>1 DEF ChangePlain, On
<1>2. CASE new # On(s, c, b)
  <2>1. new \in BOOLEAN /\ b \in MaskBit
    BY DEF MaskBit
  <2> PICK t : t = SetMaskBit(s, c, b, new)
    OBVIOUS
  <2>2. /\ t \in State
        /\ t.chan[c].curMask = IF new THEN s.chan[c].curMask \cup {b} ELSE s.chan[c].curMask \ {b}
    <3>1. BitChanged(s, t, c, b, new)
      BY <1>2, <2>1, SetMaskBitEffect
    <3> QED BY <3>1 DEF BitChanged
  <2>3. ChangePlain(s, c, b, mask) = t
    BY <1>2 DEF ChangePlain
  <2> QED BY <2>2, <2>3
<1> QED BY <1>1, <1>2

(* alChangeChanMask gives the channel the mask, so it returns the state it *)
(* was given when the channel already has it.                              *)
LEMMA alChangeChanMaskSame ==
  ASSUME NEW s \in State, NEW c \in Chan, NEW mask,
         alChangeChanMask(s, c, mask).chan[c].curMask = s.chan[c].curMask
  PROVE  alChangeChanMask(s, c, mask) = s
<1> DEFINE m == s.chan[c].curMask
<1>1. PICK s1 : s1 = ChangeCancel(s, c, mask)
  OBVIOUS
<1>2. PICK s2 : s2 = ChangeDisable(s1, c, mask)
  OBVIOUS
<1>3. PICK s3 : s3 = ChangeAck(s2, c, mask)
  OBVIOUS
<1>4. PICK s4 : s4 = ChangePlain(s3, c, "AckT", mask)
  OBVIOUS
<1>5. PICK s5 : s5 = ChangePlain(s4, c, "Log", mask)
  OBVIOUS
<1>6. s5 = alChangeChanMask(s, c, mask)
  BY <1>1, <1>2, <1>3, <1>4, <1>5 DEF alChangeChanMask
<1>7. BitSet(s, s1, c, "Cancel", mask)
  BY <1>1, ChangeCancelBit
<1>8. BitSet(s1, s2, c, "Disable", mask)
  BY <1>2, <1>7, ChangeDisableBit DEF BitSet
<1>9. BitSet(s2, s3, c, "Ack", mask)
  BY <1>3, <1>8, ChangeAckBit DEF BitSet
<1>10. /\ s4 \in State /\ s4.chan[c].curMask \ {"AckT"} = s3.chan[c].curMask \ {"AckT"}
       /\ "AckT" \in s4.chan[c].curMask <=> "AckT" \in mask
  BY <1>4, <1>9, ChangePlainBit DEF BitSet
<1>11. /\ s5.chan[c].curMask \ {"Log"} = s4.chan[c].curMask \ {"Log"}
       /\ "Log" \in s5.chan[c].curMask <=> "Log" \in mask
  BY <1>5, <1>10, ChangePlainBit
<1>12. s5.chan[c].curMask = m
  BY <1>6
<1>13. /\ "Cancel" \in m <=> "Cancel" \in mask
       /\ "Disable" \in m <=> "Disable" \in mask
       /\ "Ack" \in m <=> "Ack" \in mask
       /\ "AckT" \in m <=> "AckT" \in mask
       /\ "Log" \in m <=> "Log" \in mask
  BY <1>7, <1>8, <1>9, <1>10, <1>11, <1>12 DEF BitSet
<1>14. s1 = s
  BY <1>1, <1>13 DEF ChangeCancel, On
<1>15. s2 = s
  BY <1>2, <1>13, <1>14 DEF ChangeDisable, On
<1>16. s3 = s
  BY <1>3, <1>13, <1>15 DEF ChangeAck, On
<1>17. s4 = s
  BY <1>4, <1>13, <1>16 DEF ChangePlain, On
<1>18. s5 = s
  BY <1>5, <1>13, <1>17 DEF ChangePlain, On
<1> QED BY <1>6, <1>18

----------------------------------------------------------------------------
(* An alarm that is not acknowledged stays.                                *)

\* no mask changes, and what is unacknowledged stays so unless AckT is set
Latched(s, t) ==
  /\ t \in State
  /\ \A e \in Chan : /\ t.chan[e].curMask = s.chan[e].curMask
                     /\ "AckT" \notin s.chan[e].curMask
                        => t.chan[e].unackSevr >= s.chan[e].unackSevr

(* Early returns, and one function after the other.                        *)
LEMMA LatchedComposes ==
  ASSUME NEW s \in State
  PROVE  /\ Latched(s, s)
         /\ \A t, r : Latched(s, t) /\ Latched(t, r) => Latched(s, r)
<1>1. \A u \in State : \A e \in Chan : u.chan[e].unackSevr \in Int
  BY SevrAssumption DEF State, ChanData, Sevr
<1>2. Latched(s, s)
  BY <1>1 DEF Latched
<1>3. ASSUME NEW t, NEW r, Latched(s, t), Latched(t, r) PROVE Latched(s, r)
  <2> SUFFICES ASSUME NEW e \in Chan, "AckT" \notin s.chan[e].curMask
               PROVE  r.chan[e].unackSevr >= s.chan[e].unackSevr
    BY <1>3 DEF Latched
  <2>1. t.chan[e].unackSevr >= s.chan[e].unackSevr /\ r.chan[e].unackSevr >= t.chan[e].unackSevr
    BY <1>3 DEF Latched
  <2>2. t \in State /\ r \in State
    BY <1>3 DEF Latched
  <2>3. s.chan[e].unackSevr \in Int /\ t.chan[e].unackSevr \in Int /\ r.chan[e].unackSevr \in Int
    BY <1>1, <2>2
  <2> QED BY <2>1, <2>3
<1> QED BY <1>2, <1>3

(* What leaves masks and unacknowledged severities alone.                  *)
LEMMA LatchedSame ==
  ASSUME NEW s \in State, NEW t \in State,
         \A e \in Chan : /\ t.chan[e].curMask = s.chan[e].curMask
                         /\ t.chan[e].unackSevr = s.chan[e].unackSevr
  PROVE  Latched(s, t)
<1>1. \A e \in Chan : s.chan[e].unackSevr \in Int
  BY SevrAssumption DEF State, ChanData, Sevr
<1> QED BY <1>1 DEF Latched

(* A new alarm replaces a lower one that is not acknowledged, never a      *)
(* higher one.                                                             *)
LEMMA UnacknowledgeLatched ==
  ASSUME NEW s \in State, NEW c \in Chan, NEW sev \in Sevr
  PROVE  Latched(s, Unacknowledge(s, c, sev))
<1> DEFINE raise == ~GlobalFlag /\ (sev >= s.chan[c].unackSevr \/ On(s, c, "AckT"))
<1>1. PICK u : u = IF raise THEN alSetUnackSevChan(s, c, sev) ELSE s
  OBVIOUS
<1>2. Latched(s, u)
  <2>1. CASE raise
    <3>1. /\ Moved(s, u, c, NO_ALARM, NO_ALARM, s.chan[c].unackSevr, sev)
          /\ Has(u, c, s.chan[c].curMask, s.chan[c].curSevr, sev)
      BY <1>1, <2>1, alSetUnackSevChanEffect
    <3>2. u \in State /\ \A e \in Chan \ {c} : u.chan[e] = s.chan[e]
      BY <3>1 DEF Moved, Frame
    <3>3. \A e \in Chan : s.chan[e].unackSevr \in Int
      BY SevrAssumption DEF State, ChanData, Sevr
    <3>4. u.chan[c].curMask = s.chan[c].curMask /\ u.chan[c].unackSevr = sev
      BY <3>1 DEF Has
    <3>5. "AckT" \notin s.chan[c].curMask => sev >= s.chan[c].unackSevr
      BY <2>1 DEF On
    <3> QED BY <3>2, <3>3, <3>4, <3>5 DEF Latched
  <2>2. CASE ~raise
    BY <1>1, <2>2, LatchedComposes
  <2> QED BY <2>1, <2>2
<1>3. Latched(u, SilenceReset(u))
  <2>1. u \in State
    BY <1>2 DEF Latched
  <2>2. /\ Moved(u, SilenceReset(u), c, NO_ALARM, NO_ALARM, NO_ALARM, NO_ALARM)
        /\ SilenceReset(u).chan = u.chan
    BY <2>1, SilenceResetMoves
  <2>3. SilenceReset(u) \in State
    BY <2>2 DEF Moved, Frame
  <2> QED BY <2>1, <2>2, <2>3, LatchedSame
<1>4. Latched(s, SilenceReset(u))
  BY <1>2, <1>3, LatchedComposes
<1> QED BY <1>1, <1>4 DEF Unacknowledge

(* A change of a channel that is not disabled.                             *)
LEMMA ProcessChangeLatched ==
  ASSUME NEW s \in State, NEW c \in Chan, NEW stat \in Stat, NEW sev \in Sevr
  PROVE  Latched(s, ProcessChange(s, c, stat, sev))
<1> DEFINE d == s.chan[c]
           prev == d.curSevr
           pv == IF sev # prev THEN alCaPutSevrValue(d.sevrPV, sev) ELSE d.sevrPV
           d1 == [d EXCEPT !.curStat = stat, !.curSevr = sev, !.sevrPV = pv]
           s1 == [s EXCEPT !.chan[c] = d1]
           s2 == CurSevUp(s1, c, sev, prev, TRUE)
<1>1. d \in ChanData /\ prev \in Sevr
  BY DEF State, ChanData
<1>2. pv \in Int
  BY <1>1 DEF ChanData, alCaPutSevrValue, Sevr
<1> HIDE DEF pv
<1>3. /\ d1 \in ChanData /\ d1.curMask = d.curMask /\ d1.beepSevr = d.beepSevr
      /\ d1.unackSevr = d.unackSevr
  BY <1>1, <1>2 DEF ChanData
<1>4. s1 = [s EXCEPT !.chan[c].curStat = stat, !.chan[c].curSevr = sev,
                     !.chan[c].sevrPV = IF sev # prev THEN alCaPutSevrValue(@, sev) ELSE @]
  BY DEF State, pv
<1> HIDE DEF d1
<1>5. s1.chan[c] = d1 /\ Moved(s, s1, c, prev, prev, NO_ALARM, NO_ALARM)
  BY <1>3, MovedChan
<1> HIDE DEF s1
<1>6. s1 \in State /\ \A e \in Chan \ {c} : s1.chan[e] = s.chan[e]
  BY <1>5 DEF Moved, Frame
<1>7. s2 \in State /\ s2.chan = s1.chan
  <2>1. TRUE \in BOOLEAN
    OBVIOUS
  <2> HIDE DEF prev
  <2>2. Moved(s1, s2, c, prev, sev, NO_ALARM, NO_ALARM) /\ s2.chan = s1.chan
    BY <1>1, <1>6, <2>1, CurSevUpEffect
  <2> QED BY <2>2 DEF Moved, Frame
<1> HIDE DEF s2
<1>8. Latched(s, s2)
  <2>1. \A e \in Chan : /\ s2.chan[e].curMask = s.chan[e].curMask
                        /\ s2.chan[e].unackSevr = s.chan[e].unackSevr
    BY <1>3, <1>5, <1>6, <1>7
  <2> QED BY <1>7, <2>1, LatchedSame
<1>9. Latched(s, Unacknowledge(s2, c, sev))
  BY <1>7, <1>8, UnacknowledgeLatched, LatchedComposes
<1>10. ProcessChange(s, c, stat, sev) = IF On(s, c, "Ack") THEN s2 ELSE Unacknowledge(s2, c, sev)
  BY <1>4 DEF ProcessChange, s2
<1> QED BY <1>8, <1>9, <1>10

(* Any alarm, of any channel.                                              *)
LEMMA ApplyAlarmLatched ==
  ASSUME NEW s \in State, NEW c \in Chan, NEW stat \in Stat, NEW sev \in Sevr
  PROVE  Latched(s, ApplyAlarm(s, c, stat, sev))
<1> DEFINE d == [s.chan[c] EXCEPT !.curStat = stat, !.curSevr = sev]
           t == [s EXCEPT !.chan[c] = d]
<1>1. Latched(s, t)
  <2>1. /\ d \in ChanData /\ d.beepSevr = s.chan[c].beepSevr /\ d.curMask = s.chan[c].curMask
        /\ d.unackSevr = s.chan[c].unackSevr
    BY DEF State, ChanData
  <2> HIDE DEF d
  <2>2. t.chan[c] = d /\ Moved(s, t, c, NO_ALARM, NO_ALARM, NO_ALARM, NO_ALARM)
    BY <2>1, MovedChan
  <2>3. t \in State /\ \A e \in Chan \ {c} : t.chan[e] = s.chan[e]
    BY <2>2 DEF Moved, Frame
  <2>4. \A e \in Chan : /\ t.chan[e].curMask = s.chan[e].curMask
                        /\ t.chan[e].unackSevr = s.chan[e].unackSevr
    BY <2>1, <2>2, <2>3
  <2> HIDE DEF t
  <2> QED BY <2>3, <2>4, LatchedSame
<1>2. t = [s EXCEPT !.chan[c].curStat = stat, !.chan[c].curSevr = sev]
  BY DEF State
<1> HIDE DEF t
<1>3. Latched(s, s) /\ Latched(s, ProcessChange(s, c, stat, sev))
  BY LatchedComposes, ProcessChangeLatched
<1> QED BY <1>1, <1>2, <1>3 DEF ApplyAlarm

(* In local mode no event lowers what is to be acknowledged.               *)
LEMMA alNewEventLatched ==
  ASSUME NEW s \in State, NEW c \in Chan, NEW stat \in Stat, NEW sevr \in Sevr,
         NEW acks, NEW acktCA, ~GlobalFlag
  PROVE  Latched(s, alNewEvent(s, c, stat, sevr, acks, acktCA))
<1>1. PICK s1 : s1 = IF stat = "NOT_CONNECTED" /\ sevr = ERROR_STATE
                     THEN alSaveAlarmEvent(s, c) ELSE s
  OBVIOUS
<1>2. s1 \in State /\ \A e \in Chan : /\ s1.chan[e].curMask = s.chan[e].curMask
                                      /\ s1.chan[e].unackSevr = s.chan[e].unackSevr
  <2>1. CASE s1 = s
    BY <2>1
  <2>2. CASE s1 = alSaveAlarmEvent(s, c)
    <3>1. s1 \in State
      BY <2>2, alSaveAlarmEventPreserves DEF Preserves
    <3>2. \E f : s1 = [s EXCEPT !.chan[c].caAlarmEvent = f]
      BY <2>2 DEF alSaveAlarmEvent
    <3>3. PICK f : s1 = [s EXCEPT !.chan[c].caAlarmEvent = f]
      BY <3>2
    <3> QED BY <3>1, <3>3 DEF State, ChanData
  <2> QED BY <1>1, <2>1, <2>2
<1>3. PICK s2 : s2 = [s1 EXCEPT !.psetup.newUnackBeepSevr = NO_ALARM]
  OBVIOUS
<1>4. s2 \in State /\ s2.chan = s1.chan
  <2>1. [s1.psetup EXCEPT !.newUnackBeepSevr = NO_ALARM] \in Setup
    BY <1>2, SevrBounds DEF State, Setup
  <2> QED BY <1>2, <1>3, <2>1 DEF State
<1>5. Latched(s, s2)
  BY <1>2, <1>4, LatchedSame
<1>6. Latched(s2, ApplyAlarm(s2, c, stat, sevr))
  BY <1>4, ApplyAlarmLatched
<1>7. Latched(s, ApplyAlarm(s2, c, stat, sevr))
  BY <1>5, <1>6, LatchedComposes
<1>8. alNewEvent(s, c, stat, sevr, acks, acktCA) = ApplyAlarm(s2, c, stat, sevr)
  BY <1>1, <1>3 DEF alNewEvent, alNewAlarmProcess
<1> QED BY <1>7, <1>8

----------------------------------------------------------------------------
(* What is told to the outside: the severity PV of a group, and the beep.  *)

\* the severity PV of g has the severity of g, or both are as they were
PVFollows(s, t, g) ==
  \/ t.group[g].sevrPV = t.group[g].curSevr
  \/ t.group[g].curSevr = s.group[g].curSevr /\ t.group[g].sevrPV = s.group[g].sevrPV

\* the beep severities that matter for g are as they were
SameLimits(s, t, g) ==
  /\ t.psetup.beepSevr = s.psetup.beepSevr
  /\ t.group[g].beepSevr = s.group[g].beepSevr

\* something new below g is loud enough to beep
Louder(s, t, g) ==
  /\ t.group[g].unackBeepSevr > s.group[g].unackBeepSevr
  /\ t.group[g].unackBeepSevr >= s.psetup.beepSevr

\* what gets louder ends the silence, and nothing starts it
EndsSilence(s, t, g) ==
  /\ SameLimits(s, t, g)
  /\ BeepTop(s, g) => /\ BeepTop(t, g)
                      /\ Louder(s, t, g) => ~t.psetup.silenceCurrent
  /\ t.psetup.silenceCurrent => s.psetup.silenceCurrent

\* in global mode the PV of g follows; in local mode the main group ends the silence
Answers(s, t, g) ==
  /\ t \in State
  /\ GlobalFlag /\ ~PassiveFlag => PVFollows(s, t, g)
  /\ ~GlobalFlag /\ Anc[g] = {} => EndsSilence(s, t, g)

(* Severities are numbers.                                                 *)
LEMMA LoudTypes ==
  ASSUME NEW s \in State, NEW g \in Group
  PROVE  /\ s.group[g].unackBeepSevr \in Int /\ s.psetup.beepSevr \in Int
         /\ s.group[g].beepSevr \in Sevr /\ s.group[g].unackBeepSev \in Counters
<1>1. s.group[g] \in GroupData /\ s.psetup \in Setup
  BY DEF State
<1>2. Sevr \subseteq Int
  BY SevrAssumption DEF Sevr
<1>3. s.group[g].unackBeepSevr \in Sevr /\ s.group[g].beepSevr \in Sevr /\ s.group[g].unackBeepSev \in Counters
  BY <1>1 DEF GroupData
<1>4. s.psetup.beepSevr \in Sevr
  BY <1>1 DEF Setup
<1> QED BY <1>2, <1>3, <1>4

(* Early returns, and one function after the other.                        *)
LEMMA AnswersComposes ==
  ASSUME NEW s \in State, NEW g \in Group
  PROVE  /\ Answers(s, s, g)
         /\ \A t, r : Answers(s, t, g) /\ Answers(t, r, g) => Answers(s, r, g)
<1>1. Answers(s, s, g)
  <2>1. ~Louder(s, s, g)
    BY LoudTypes DEF Louder
  <2> QED BY <2>1 DEF Answers, PVFollows, EndsSilence, SameLimits
<1>2. ASSUME NEW t, NEW r, Answers(s, t, g), Answers(t, r, g) PROVE Answers(s, r, g)
  <2>1. t \in State /\ r \in State
    BY <1>2 DEF Answers
  <2>2. ASSUME GlobalFlag, ~PassiveFlag PROVE PVFollows(s, r, g)
    BY <1>2, <2>2 DEF Answers, PVFollows
  <2>3. ASSUME ~GlobalFlag, Anc[g] = {} PROVE EndsSilence(s, r, g)
    <3>1. EndsSilence(s, t, g) /\ EndsSilence(t, r, g)
      BY <1>2, <2>3 DEF Answers
    <3>2. SameLimits(s, r, g) /\ (r.psetup.silenceCurrent => s.psetup.silenceCurrent)
      BY <3>1 DEF EndsSilence, SameLimits
    <3>3. ASSUME BeepTop(s, g) PROVE BeepTop(r, g) /\ (Louder(s, r, g) => ~r.psetup.silenceCurrent)
      <4>1. BeepTop(t, g) /\ BeepTop(r, g)
        BY <3>1, <3>3 DEF EndsSilence
      <4>2. /\ Louder(s, t, g) => ~t.psetup.silenceCurrent
            /\ Louder(t, r, g) => ~r.psetup.silenceCurrent
            /\ r.psetup.silenceCurrent => t.psetup.silenceCurrent
        BY <3>1, <3>3, <4>1 DEF EndsSilence
      <4>3. Louder(s, r, g) => Louder(s, t, g) \/ Louder(t, r, g)
        <5>1. /\ s.group[g].unackBeepSevr \in Int /\ s.psetup.beepSevr \in Int
              /\ t.group[g].unackBeepSevr \in Int /\ r.group[g].unackBeepSevr \in Int
          BY <2>1, LoudTypes
        <5>2. t.psetup.beepSevr = s.psetup.beepSevr
          BY <3>1 DEF EndsSilence, SameLimits
        <5> QED BY <5>1, <5>2 DEF Louder
      <4> QED BY <4>1, <4>2, <4>3
    <3> QED BY <3>2, <3>3 DEF EndsSilence
  <2> QED BY <2>1, <2>2, <2>3 DEF Answers
<1> QED BY <1>1, <1>2

\* what the outside sees of g is as it was
Unheard(s, t, g) ==
  /\ t \in State
  /\ t.group[g].curSevr = s.group[g].curSevr
  /\ t.group[g].sevrPV = s.group[g].sevrPV
  /\ t.group[g].unackBeepSev = s.group[g].unackBeepSev
  /\ t.group[g].unackBeepSevr = s.group[g].unackBeepSevr
  /\ SameLimits(s, t, g)
  /\ t.psetup.silenceCurrent => s.psetup.silenceCurrent

(* Such a change needs no answer.                                          *)
LEMMA UnheardAnswers ==
  ASSUME NEW s \in State, NEW g \in Group, NEW t, Unheard(s, t, g)
  PROVE  Answers(s, t, g)
<1>1. ~Louder(s, t, g)
  BY LoudTypes DEF Louder, Unheard
<1>2. BeepTop(s, g) => BeepTop(t, g)
  BY DEF BeepTop, Unheard, SameLimits
<1> QED BY <1>1, <1>2 DEF Answers, PVFollows, EndsSilence, Unheard

(* A function that touches channels only is such a change.                 *)
LEMMA ChanUnheard ==
  ASSUME NEW s \in State, NEW g \in Group, NEW t \in State,
         t.group = s.group, t.psetup = s.psetup
  PROVE  Answers(s, t, g)
BY UnheardAnswers DEF Unheard, SameLimits

(* Turning the silence off is answer enough.                               *)
LEMMA ResetAnswers ==
  ASSUME NEW s \in State, NEW g \in Group
  PROVE  Answers(s, silenceCurrentReset(s), g) /\ Answers(s, SilenceReset(s), g)
<1>1. PICK t : t = silenceCurrentReset(s)
  OBVIOUS
<1>2. t \in State
  BY <1>1, SilenceResetPreserves DEF Preserves
<1>3. /\ t.group = s.group /\ t.psetup.beepSevr = s.psetup.beepSevr
      /\ ~t.psetup.silenceCurrent
  BY <1>1 DEF silenceCurrentReset, State, Setup
<1>4. Answers(s, t, g)
  BY <1>2, <1>3, UnheardAnswers DEF Unheard, SameLimits
<1> QED BY <1>1, <1>4, AnswersComposes DEF SilenceReset

(* The counter that makes the highest one rise is the one that grew.       *)
LEMMA ShiftRaises ==
  ASSUME NEW cnt \in Counters, NEW low \in Sevr, NEW old, NEW new,
         HighestFrom(Shift(cnt, old, new, 1), low) > HighestFrom(cnt, low)
  PROVE  /\ HighestFrom(Shift(cnt, old, new, 1), low) = new
         /\ new \in AlarmSevr /\ new >= low
<1> PICK m : m = Shift(cnt, old, new, 1)
  OBVIOUS
<1> PICK v : v = HighestFrom(m, low)
  OBVIOUS
<1> PICK w : w = HighestFrom(cnt, low)
  OBVIOUS
<1>1. v \in Sevr /\ w \in Sevr
  BY HighestFromType
<1>2. v \in Int /\ w \in Int /\ v >= 0 /\ w >= 0
  BY <1>1, SevrAssumption DEF Sevr
<1>3. v # NO_ALARM
  BY <1>2 DEF NO_ALARM
<1>4. v \in AlarmSevr /\ v >= low /\ m[v] > 0
  BY <1>3, HighestFromMax
<1>5. ~(cnt[v] > 0)
  <2>1. v >= low /\ cnt[v] > 0 => v <= w
    BY <1>4, HighestFromMax
  <2> QED BY <1>2, <1>4, <2>1
<1>6. m[v] = cnt[v] - (IF v = old THEN 1 ELSE 0) + (IF v = new THEN 1 ELSE 0)
  BY <1>4 DEF Shift, Counters
<1>7. cnt[v] \in Int
  BY <1>4 DEF Counters
<1>8. v = new
  BY <1>4, <1>5, <1>6, <1>7
<1> QED BY <1>4, <1>8

(* What the functions on groups leave alone.                               *)
LEMMA GroupFunctionsKeep ==
  ASSUME NEW s \in State, NEW c \in Chan, NEW newSevr \in Sevr, NEW oldSevr \in Sevr,
         NEW g \in Group
  PROVE  /\ LET t == alSetUnackSevGroup(s, c, newSevr, oldSevr)
            IN  /\ t.group[g].curSevr = s.group[g].curSevr
                /\ t.group[g].sevrPV = s.group[g].sevrPV
                /\ t.psetup = s.psetup
         /\ LET t == UnackBeepSevUp(s, c, newSevr, oldSevr, 1)
            IN  /\ t.group[g].curSevr = s.group[g].curSevr
                /\ t.group[g].sevrPV = s.group[g].sevrPV
                /\ t.psetup.beepSevr = s.psetup.beepSevr
                /\ t.psetup.silenceCurrent = s.psetup.silenceCurrent
                /\ t.psetup.newUnackBeepSevr = BeepFilter(s, newSevr, Anc[c])
<1>1. s.group[g] \in GroupData /\ s.psetup \in Setup
  BY DEF State
<1>2. ASSUME NEW t, t = alSetUnackSevGroup(s, c, newSevr, oldSevr)
      PROVE  /\ t.group[g].curSevr = s.group[g].curSevr
             /\ t.group[g].sevrPV = s.group[g].sevrPV
             /\ t.psetup = s.psetup
  <2> DEFINE Up(h) == [s.group[h] EXCEPT
                         !.unackSev = Shift(s.group[h].unackSev, oldSevr, newSevr, 1),
                         !.unackSevr = alHighestSeverity(Shift(s.group[h].unackSev, oldSevr, newSevr, 1))]
             F == [h \in Group |-> IF h \in Anc[c] THEN Up(h) ELSE s.group[h]]
  <2>1. t = [s EXCEPT !.group = F]
    BY <1>2 DEF alSetUnackSevGroup
  <2>2. Up(g).curSevr = s.group[g].curSevr /\ Up(g).sevrPV = s.group[g].sevrPV
    BY <1>1 DEF GroupData
  <2> HIDE DEF Up
  <2>3. F[g].curSevr = s.group[g].curSevr /\ F[g].sevrPV = s.group[g].sevrPV
    BY <2>2
  <2> HIDE DEF F
  <2> QED BY <2>1, <2>3 DEF State
<1>3. ASSUME NEW t, t = UnackBeepSevUp(s, c, newSevr, oldSevr, 1)
      PROVE  /\ t.group[g].curSevr = s.group[g].curSevr
             /\ t.group[g].sevrPV = s.group[g].sevrPV
             /\ t.psetup.beepSevr = s.psetup.beepSevr
             /\ t.psetup.silenceCurrent = s.psetup.silenceCurrent
             /\ t.psetup.newUnackBeepSevr = BeepFilter(s, newSevr, Anc[c])
  <2> DEFINE cnt(h) == Shift(s.group[h].unackBeepSev, BeepFilter(s, oldSevr, Below(c, h)),
                             BeepFilter(s, newSevr, Below(c, h)), 1)
             Up(h) == [s.group[h] EXCEPT
                         !.unackBeepSev = cnt(h),
                         !.unackBeepSevr = alHighestBeepSeverity(cnt(h), s.group[h].beepSevr)]
             F == [h \in Group |-> IF h \in Anc[c] THEN Up(h) ELSE s.group[h]]
             b == BeepFilter(s, newSevr, Anc[c])
  <2>1. t = [s EXCEPT !.group = F, !.psetup.newUnackBeepSevr = b]
    BY <1>3 DEF UnackBeepSevUp
  <2>2. Up(g).curSevr = s.group[g].curSevr /\ Up(g).sevrPV = s.group[g].sevrPV
    <3> HIDE DEF cnt
    <3> QED BY <1>1 DEF GroupData
  <2> HIDE DEF Up
  <2>3. F[g].curSevr = s.group[g].curSevr /\ F[g].sevrPV = s.group[g].sevrPV
    BY <2>2
  <2> HIDE DEF F, b
  <2>4. t.group = F /\ t.psetup = [s.psetup EXCEPT !.newUnackBeepSevr = b]
    BY <2>1 DEF State
  <2>5. /\ t.psetup.beepSevr = s.psetup.beepSevr
        /\ t.psetup.silenceCurrent = s.psetup.silenceCurrent
        /\ t.psetup.newUnackBeepSevr = b
    BY <1>1, <2>4 DEF Setup
  <2> QED BY <2>3, <2>4, <2>5 DEF b
<1> QED BY <1>2, <1>3

\* the unacknowledged severity of a channel was set to newSevr; when that is loud,
\* newUnackBeepSevr says so
UnackSet(s, t, newSevr, g) ==
  /\ t \in State
  /\ t.group[g].curSevr = s.group[g].curSevr
  /\ t.group[g].sevrPV = s.group[g].sevrPV
  /\ SameLimits(s, t, g)
  /\ t.psetup.silenceCurrent = s.psetup.silenceCurrent
  /\ BeepTop(s, g) =>
       /\ BeepTop(t, g)
       /\ t.group[g].unackBeepSevr > s.group[g].unackBeepSevr =>
            newSevr # NO_ALARM /\ t.group[g].unackBeepSevr = t.psetup.newUnackBeepSevr

(* A channel that beeps at the main group passes all beep severities on    *)
(* the way, which is what newUnackBeepSevr is about.                       *)
LEMMA BeepUpRaises ==
  ASSUME NEW s \in State, NEW c \in Chan, NEW newSevr \in Sevr, NEW oldSevr \in Sevr,
         NEW t, t = UnackBeepSevUp(s, c, newSevr, oldSevr, 1),
         NEW g \in Group, Anc[g] = {}, BeepTop(s, g),
         t.group[g].unackBeepSevr > s.group[g].unackBeepSevr
  PROVE  newSevr # NO_ALARM /\ t.group[g].unackBeepSevr = t.psetup.newUnackBeepSevr
<1> DEFINE old == BeepFilter(s, oldSevr, Below(c, g))
           new == BeepFilter(s, newSevr, Below(c, g))
<1>1. BeepUp(s, t, c, newSevr, oldSevr)
  BY UnackBeepSevUpEffect
<1>2. /\ s.group[g].unackBeepSevr \in Int
      /\ s.group[g].beepSevr \in Sevr /\ s.group[g].unackBeepSev \in Counters
  BY LoudTypes
<1>3. g \in Anc[c]
  <2>1. g \notin Anc[c] => t.group[g].unackBeepSevr = s.group[g].unackBeepSevr
    BY <1>1 DEF BeepUp
  <2> QED BY <1>2, <2>1
<1>4. t.group[g].unackBeepSevr
      = HighestFrom(Shift(s.group[g].unackBeepSev, old, new, 1), s.group[g].beepSevr)
  BY <1>1, <1>3 DEF BeepUp, alHighestBeepSeverity
<1>5. s.group[g].unackBeepSevr = HighestFrom(s.group[g].unackBeepSev, s.group[g].beepSevr)
  BY DEF BeepTop, alHighestBeepSeverity
<1> HIDE DEF old, new
<1>6. /\ t.group[g].unackBeepSevr = new
      /\ new \in AlarmSevr /\ new >= s.group[g].beepSevr
  BY <1>2, <1>4, <1>5, ShiftRaises
<1>7. new # NO_ALARM
  BY <1>6, SevrAssumption DEF AlarmSevr, NO_ALARM
<1>8. new = newSevr /\ \A n \in Below(c, g) : newSevr >= BeepSevr(s, n)
  BY <1>7 DEF new, BeepFilter
<1>9. BeepSevr(s, g) = s.group[g].beepSevr
  BY NodeAssumption DEF BeepSevr
<1>10. ASSUME NEW n \in Anc[c] PROVE newSevr >= BeepSevr(s, n)
  <2>1. n = g \/ n \in Anc[g] \/ g \in Anc[n]
    BY <1>3, TreeAssumption DEF Node
  <2>2. n = g \/ n \in Below(c, g)
    BY <2>1 DEF Below
  <2> QED BY <1>6, <1>8, <1>9, <2>2
<1>11. t.psetup.newUnackBeepSevr = newSevr
  BY <1>10, GroupFunctionsKeep DEF BeepFilter
<1> QED BY <1>6, <1>7, <1>8, <1>11

(* alSetUnackSevChan sets the unacknowledged severity.                     *)
LEMMA alSetUnackSevChanSets ==
  ASSUME NEW s \in State, NEW c \in Chan, NEW newSevr \in Sevr,
         NEW g \in Group, Anc[g] = {} \/ GlobalFlag
  PROVE  \/ alSetUnackSevChan(s, c, newSevr) = s
         \/ LET t == alSetUnackSevChan(s, c, newSevr)
            IN  /\ UnackSet(s, t, newSevr, g) \/ GlobalFlag
                /\ t \in State
                /\ t.group[g].curSevr = s.group[g].curSevr
                /\ t.group[g].sevrPV = s.group[g].sevrPV
<1> DEFINE oldSevr == s.chan[c].unackSevr
<1> SUFFICES ASSUME oldSevr # newSevr,
                    NEW t, t = alSetUnackSevChan(s, c, newSevr)
             PROVE  /\ UnackSet(s, t, newSevr, g) \/ GlobalFlag
                    /\ t \in State
                    /\ t.group[g].curSevr = s.group[g].curSevr
                    /\ t.group[g].sevrPV = s.group[g].sevrPV
  BY DEF alSetUnackSevChan
<1>1. oldSevr \in Sevr /\ BeepFilter(s, newSevr, {c}) \in Sevr /\ BeepFilter(s, oldSevr, {c}) \in Sevr
  <2>1. oldSevr \in Sevr
    BY DEF State, ChanData
  <2> QED BY <2>1, BeepFilterType
<1>2. PICK s1 : s1 = alSetUnackSevGroup(s, c, newSevr, oldSevr)
  OBVIOUS
<1>3. PICK s2 : s2 = UnackBeepSevUp(s1, c, BeepFilter(s, newSevr, {c}),
                                    BeepFilter(s, oldSevr, {c}), 1)
  OBVIOUS
<1>4. t = [s2 EXCEPT !.chan[c].unackSevr = newSevr]
  BY <1>2, <1>3 DEF alSetUnackSevChan
<1>5. UnackUp(s, s1, c, newSevr, oldSevr)
  BY <1>1, <1>2, alSetUnackSevGroupEffect
<1>6. s1 \in State
  BY <1>5 DEF UnackUp
<1>7. BeepUp(s1, s2, c, BeepFilter(s, newSevr, {c}), BeepFilter(s, oldSevr, {c}))
  BY <1>1, <1>3, <1>6, UnackBeepSevUpEffect
<1>8. /\ s1.group[g].curSevr = s.group[g].curSevr /\ s1.group[g].sevrPV = s.group[g].sevrPV
      /\ s1.psetup = s.psetup
  <2> HIDE DEF oldSevr
  <2> QED BY <1>1, <1>2, GroupFunctionsKeep
<1>9. /\ s2.group[g].curSevr = s1.group[g].curSevr /\ s2.group[g].sevrPV = s1.group[g].sevrPV
      /\ s2.psetup.beepSevr = s1.psetup.beepSevr
      /\ s2.psetup.silenceCurrent = s1.psetup.silenceCurrent
  <2> HIDE DEF oldSevr
  <2> QED BY <1>1, <1>3, <1>6, GroupFunctionsKeep
<1>10. t \in State
  <2>1. Preserves(s, alSetUnackSevChan(s, c, newSevr))
    BY alSetUnackSevChanPreserves
  <2> QED BY <2>1 DEF Preserves
<1>11. t.group = s2.group /\ t.psetup = s2.psetup
  BY <1>4
<1>12. /\ s1.group[g].unackBeepSev = s.group[g].unackBeepSev
       /\ s1.group[g].unackBeepSevr = s.group[g].unackBeepSevr
       /\ s1.group[g].beepSevr = s.group[g].beepSevr
       /\ s2.group[g].beepSevr = s1.group[g].beepSevr
  BY <1>5, <1>7 DEF UnackUp, BeepUp
<1>13. ASSUME BeepTop(s, g), Anc[g] = {}
       PROVE  /\ BeepTop(t, g)
              /\ t.group[g].unackBeepSevr > s.group[g].unackBeepSevr =>
                   newSevr # NO_ALARM /\ t.group[g].unackBeepSevr = t.psetup.newUnackBeepSevr
  <2>1. BeepTop(s1, g)
    BY <1>12, <1>13 DEF BeepTop
  <2>2. BeepTop(s2, g)
    <3>1. BeepAlone(s1, s2)
      <4> HIDE DEF oldSevr
      <4> QED BY <1>6, <1>7, BeepUpAlone
    <3> QED BY <2>1, <3>1 DEF BeepAlone
  <2>3. BeepTop(t, g)
    BY <1>11, <2>2 DEF BeepTop
  <2>4. ASSUME s2.group[g].unackBeepSevr > s1.group[g].unackBeepSevr
        PROVE  /\ BeepFilter(s, newSevr, {c}) # NO_ALARM
               /\ s2.group[g].unackBeepSevr = s2.psetup.newUnackBeepSevr
    BY <1>1, <1>3, <1>6, <1>13, <2>1, <2>4, BeepUpRaises
  <2>5. BeepFilter(s, newSevr, {c}) # NO_ALARM => newSevr # NO_ALARM
    BY DEF BeepFilter
  <2> QED BY <1>11, <1>12, <2>3, <2>4, <2>5
<1>14. /\ t.group[g].curSevr = s.group[g].curSevr /\ t.group[g].sevrPV = s.group[g].sevrPV
       /\ SameLimits(s, t, g) /\ t.psetup.silenceCurrent = s.psetup.silenceCurrent
  BY <1>8, <1>9, <1>11, <1>12 DEF SameLimits
<1> QED BY <1>10, <1>13, <1>14 DEF UnackSet

(* An acknowledgement is not loud; in global mode silence is not at stake. *)
LEMMA alSetUnackSevChanAnswers ==
  ASSUME NEW s \in State, NEW c \in Chan, NEW newSevr \in Sevr, NEW g \in Group,
         GlobalFlag \/ newSevr = NO_ALARM
  PROVE  Answers(s, alSetUnackSevChan(s, c, newSevr), g)
<1> PICK t : t = alSetUnackSevChan(s, c, newSevr)
  OBVIOUS
<1>1. t \in State
  <2>1. Preserves(s, alSetUnackSevChan(s, c, newSevr))
    BY alSetUnackSevChanPreserves
  <2> QED BY <2>1 DEF Preserves
<1>2. CASE t = s
  BY <1>2, AnswersComposes
<1>3. CASE t # s
  <2>1. GlobalFlag => PVFollows(s, t, g)
    BY <1>3, alSetUnackSevChanSets DEF PVFollows
  <2>2. ASSUME ~GlobalFlag, Anc[g] = {} PROVE EndsSilence(s, t, g)
    <3>1. UnackSet(s, t, newSevr, g)
      BY <1>3, <2>2, alSetUnackSevChanSets
    <3> QED BY <2>2, <3>1 DEF UnackSet, EndsSilence, Louder
  <2> QED BY <1>1, <2>1, <2>2 DEF Answers
<1> QED BY <1>2, <1>3

(* A new alarm is answered as soon as silence is reset.                    *)
LEMMA SilenceAfterUnack ==
  ASSUME NEW s \in State, NEW c \in Chan, NEW newSevr \in Sevr, NEW g \in Group
  PROVE  Answers(s, SilenceReset(alSetUnackSevChan(s, c, newSevr)), g)
<1> PICK t : t = alSetUnackSevChan(s, c, newSevr)
  OBVIOUS
<1>1. t \in State
  <2>1. Preserves(s, alSetUnackSevChan(s, c, newSevr))
    BY alSetUnackSevChanPreserves
  <2> QED BY <2>1 DEF Preserves
<1>2. Answers(t, SilenceReset(t), g)
  BY <1>1, ResetAnswers
<1>3. CASE t = s
  BY <1>2, <1>3
<1>4. CASE GlobalFlag
  BY <1>2, <1>4, alSetUnackSevChanAnswers, AnswersComposes
<1>5. CASE t # s /\ ~GlobalFlag /\ Anc[g] = {}
  <2> PICK r : r = SilenceReset(t)
    OBVIOUS
  <2>1. UnackSet(s, t, newSevr, g)
    BY <1>5, alSetUnackSevChanSets
  <2>2. /\ r \in State /\ r.group = t.group /\ r.psetup.beepSevr = t.psetup.beepSevr
        /\ t.psetup.newUnackBeepSevr >= t.psetup.beepSevr => ~r.psetup.silenceCurrent
        /\ r.psetup.silenceCurrent => t.psetup.silenceCurrent
    <3>1. r \in State
      BY <1>1, SilenceResetPreserves DEF Preserves
    <3> QED BY <1>1, <3>1 DEF SilenceReset, silenceCurrentReset, State, Setup
  <2>3. BeepTop(s, g) => BeepTop(r, g)
    BY <2>1, <2>2 DEF UnackSet, BeepTop
  <2>4. SameLimits(s, r, g)
    BY <2>1, <2>2 DEF UnackSet, SameLimits
  <2>5. BeepTop(s, g) /\ Louder(s, r, g) => ~r.psetup.silenceCurrent
    BY <2>1, <2>2 DEF UnackSet, Louder, SameLimits
  <2>6. r.psetup.silenceCurrent => s.psetup.silenceCurrent
    BY <2>1, <2>2 DEF UnackSet
  <2>7. EndsSilence(s, r, g)
    BY <2>3, <2>4, <2>5, <2>6 DEF EndsSilence
  <2> QED BY <1>5, <2>2, <2>7 DEF Answers
<1>6. CASE ~GlobalFlag /\ Anc[g] # {}
  BY <1>2, <1>6 DEF Answers
<1> QED BY <1>3, <1>4, <1>5, <1>6

(* A changed severity of a group is put to its PV, unless a mask changes.  *)
LEMMA CurSevUpAnswers ==
  ASSUME NEW s \in State, NEW c \in Chan, NEW newSevr \in Sevr, NEW oldSevr \in Sevr,
         NEW put \in BOOLEAN, NEW g \in Group, put \/ g \notin Anc[c] \/ ~GlobalFlag
  PROVE  Answers(s, CurSevUp(s, c, newSevr, oldSevr, put), g)
<1> DEFINE cnt(h) == Shift(s.group[h].curSev, oldSevr, newSevr, 1)
           top(h) == alHighestSeverity(cnt(h))
           pv(h) == IF put /\ top(h) # s.group[h].curSevr
                    THEN alCaPutSevrValue(s.group[h].sevrPV, top(h)) ELSE s.group[h].sevrPV
           Up(h) == [s.group[h] EXCEPT !.curSev = cnt(h), !.curSevr = top(h), !.sevrPV = pv(h)]
           F == [h \in Group |-> IF h \in Anc[c] THEN Up(h) ELSE s.group[h]]
<1> PICK t : t = CurSevUp(s, c, newSevr, oldSevr, put)
  OBVIOUS
<1>1. t \in State
  <2>1. Preserves(s, CurSevUp(s, c, newSevr, oldSevr, put))
    BY CurSevUpPreserves
  <2> QED BY <2>1 DEF Preserves
<1>2. t = [s EXCEPT !.group = F]
  BY DEF CurSevUp
<1>3. t.psetup = s.psetup /\ t.group = F
  <2> HIDE DEF F
  <2> QED BY <1>2 DEF State
<1>4. /\ Up(g).curSevr = top(g) /\ Up(g).sevrPV = pv(g)
      /\ Up(g).unackBeepSev = s.group[g].unackBeepSev
      /\ Up(g).unackBeepSevr = s.group[g].unackBeepSevr
      /\ Up(g).beepSevr = s.group[g].beepSevr
  <2> HIDE DEF top, pv, cnt
  <2>1. s.group[g] \in GroupData
    BY DEF State
  <2> QED BY <2>1 DEF GroupData
<1> HIDE DEF Up
<1>5. t.group[g] = IF g \in Anc[c] THEN Up(g) ELSE s.group[g]
  BY <1>3
<1> HIDE DEF F, top, cnt
<1>6. CASE g \notin Anc[c]
  BY <1>1, <1>3, <1>5, <1>6, UnheardAnswers DEF Unheard, SameLimits
<1>7. CASE g \in Anc[c]
  <2>1. GlobalFlag /\ ~PassiveFlag => PVFollows(s, t, g)
    BY <1>4, <1>5, <1>7 DEF PVFollows, alCaPutSevrValue
  <2>2. EndsSilence(s, t, g)
    <3>1. ~Louder(s, t, g)
      BY <1>4, <1>5, <1>7, LoudTypes DEF Louder
    <3> QED BY <1>3, <1>4, <1>5, <1>7, <3>1 DEF EndsSilence, SameLimits, BeepTop
  <2> QED BY <1>1, <2>1, <2>2 DEF Answers
<1> QED BY <1>6, <1>7

(* Mask counters are nothing one sees or hears.                            *)
LEMMA SetMaskBitAnswers ==
  ASSUME NEW s \in State, NEW c \in Chan, NEW b \in MaskBit, NEW on \in BOOLEAN,
         on # On(s, c, b), NEW g \in Group
  PROVE  Answers(s, SetMaskBit(s, c, b, on), g)
<1> DEFINE Up(h) == IF on THEN [s.group[h] EXCEPT !.mask[b] = @ + 1]
                    ELSE IF s.group[h].mask[b] > 0 THEN [s.group[h] EXCEPT !.mask[b] = @ - 1]
                    ELSE s.group[h]
           F == [h \in Group |-> IF h \in Anc[c] THEN Up(h) ELSE s.group[h]]
           m == IF on THEN s.chan[c].curMask \cup {b} ELSE s.chan[c].curMask \ {b}
<1> PICK t : t = SetMaskBit(s, c, b, on)
  OBVIOUS
<1>1. t \in State
  BY SetMaskBitEffect DEF BitChanged
<1>2. t = [s EXCEPT !.group = F, !.chan[c].curMask = m]
  BY DEF SetMaskBit
<1> HIDE DEF m
<1>3. t.psetup = s.psetup /\ t.group = F
  <2> HIDE DEF F
  <2> QED BY <1>2 DEF State
<1>4. /\ Up(g).curSevr = s.group[g].curSevr /\ Up(g).sevrPV = s.group[g].sevrPV
      /\ Up(g).unackBeepSev = s.group[g].unackBeepSev
      /\ Up(g).unackBeepSevr = s.group[g].unackBeepSevr
      /\ Up(g).beepSevr = s.group[g].beepSevr
  <2>1. s.group[g] \in GroupData
    BY DEF State
  <2> QED BY <2>1 DEF GroupData
<1> HIDE DEF Up
<1>5. t.group[g] = IF g \in Anc[c] THEN Up(g) ELSE s.group[g]
  BY <1>3
<1> HIDE DEF F
<1> QED BY <1>1, <1>3, <1>4, <1>5, UnheardAnswers DEF Unheard, SameLimits

(* What global mode takes from the IOC.                                    *)
LEMMA alSetAckTChanAnswers ==
  ASSUME NEW s \in State, NEW c \in Chan, NEW newAckT \in BOOLEAN, NEW g \in Group, GlobalFlag
  PROVE  Answers(s, alSetAckTChan(s, c, newAckT), g)
<1> DEFINE d == s.chan[c]
           lower == /\ ~newAckT
                    /\ d.unackSevr > d.curSevr
                    /\ ~GlobalFlag \/ d.curMask \cap {"Disable", "Ack"} = {}
<1>1. PICK s1 : s1 = IF lower THEN alSetUnackSevChan(s, c, d.curSevr) ELSE s
  OBVIOUS
<1>2. d.curSevr \in Sevr
  BY DEF State, ChanData
<1>3. Answers(s, s1, g)
  <2>1. Answers(s, alSetUnackSevChan(s, c, d.curSevr), g)
    <3> HIDE DEF d
    <3> QED BY <1>2, alSetUnackSevChanAnswers
  <2> QED BY <1>1, <2>1, AnswersComposes
<1>4. s1 \in State /\ s1.chan[c].curMask = d.curMask
  <2>1. alSetUnackSevChan(s, c, d.curSevr).chan[c].curMask = d.curMask
    BY <1>2, alSetUnackSevChanMask
  <2> QED BY <1>1, <1>3, <2>1 DEF Answers
<1>5. newAckT # On(s, c, "AckT") => Answers(s1, SetMaskBit(s1, c, "AckT", newAckT), g)
  BY <1>4, SetMaskBitAnswers DEF MaskBit, On
<1>6. newAckT # On(s, c, "AckT") => Answers(s, SetMaskBit(s1, c, "AckT", newAckT), g)
  BY <1>3, <1>5, AnswersComposes
<1>7. alSetAckTChan(s, c, newAckT)
      = IF newAckT = On(s, c, "AckT") THEN s ELSE SetMaskBit(s1, c, "AckT", newAckT)
  BY <1>1 DEF alSetAckTChan
<1> QED BY <1>6, <1>7, AnswersComposes

(* A severity of a channel that is set without its groups.                 *)
LEMMA UnackSevrAnswers ==
  ASSUME NEW s \in State, NEW c \in Chan, NEW v \in Sevr, NEW g \in Group
  PROVE  Answers(s, [s EXCEPT !.chan[c].unackSevr = v], g)
<1> PICK t : t = [s EXCEPT !.chan[c].unackSevr = v]
  OBVIOUS
<1>1. t \in State
  BY PreservesUnackSevr DEF Preserves
<1>2. t.group = s.group /\ t.psetup = s.psetup
  BY DEF State
<1> QED BY <1>1, <1>2, ChanUnheard

(* The alarm of the channel alone is no change of a group.                 *)
LEMMA CurrentAnswers ==
  ASSUME NEW s \in State, NEW c \in Chan, NEW v \in Sevr, NEW stat \in Stat, NEW g \in Group
  PROVE  Answers(s, [s EXCEPT !.chan[c].curStat = stat, !.chan[c].curSevr = v], g)
<1> PICK t : t = [s EXCEPT !.chan[c].curStat = stat, !.chan[c].curSevr = v]
  OBVIOUS
<1>1. t \in State
  BY PreservesCurrent DEF Preserves
<1>2. t.group = s.group /\ t.psetup = s.psetup
  BY DEF State
<1> QED BY <1>1, <1>2, ChanUnheard

(* The ACKS and ACKT fields are taken over in global mode only.            *)
LEMMA AdoptGlobalAnswers ==
  ASSUME NEW s \in State, NEW c \in Chan, NEW acks \in Sevr, NEW ackt \in BOOLEAN,
         NEW g \in Group, GlobalFlag
  PROVE  Answers(s, AdoptGlobal(s, c, acks, ackt), g)
<1>1. PICK s1 : s1 = IF s.chan[c].unackSevr = acks THEN s
                     ELSE IF s.chan[c].curMask \cap {"Disable", "Ack"} = {}
                     THEN alSetUnackSevChan(s, c, acks)
                     ELSE [s EXCEPT !.chan[c].unackSevr = acks]
  OBVIOUS
<1>2. Answers(s, s1, g)
  <2>1. Answers(s, alSetUnackSevChan(s, c, acks), g)
    BY alSetUnackSevChanAnswers
  <2>2. Answers(s, [s EXCEPT !.chan[c].unackSevr = acks], g)
    BY UnackSevrAnswers
  <2> QED BY <1>1, <2>1, <2>2, AnswersComposes
<1>3. Answers(s1, alSetAckTChan(s1, c, ackt), g)
  BY <1>2, alSetAckTChanAnswers DEF Answers
<1>4. Answers(s, alSetAckTChan(s1, c, ackt), g)
  BY <1>2, <1>3, AnswersComposes
<1> QED BY <1>1, <1>4 DEF AdoptGlobal

(* A new alarm.                                                            *)
LEMMA UnacknowledgeAnswers ==
  ASSUME NEW s \in State, NEW c \in Chan, NEW sev \in Sevr, NEW g \in Group
  PROVE  Answers(s, Unacknowledge(s, c, sev), g)
<1>1. Answers(s, SilenceReset(alSetUnackSevChan(s, c, sev)), g)
  BY SilenceAfterUnack
<1>2. Answers(s, SilenceReset(s), g)
  BY ResetAnswers
<1> QED BY <1>1, <1>2 DEF Unacknowledge

(* A new alarm that is shown answers: each of its parts does.              *)
LEMMA ProcessChangeAnswers ==
  ASSUME NEW s \in State, NEW c \in Chan, NEW stat \in Stat, NEW sev \in Sevr, NEW g \in Group
  PROVE  Answers(s, ProcessChange(s, c, stat, sev), g)
<1> DEFINE d == s.chan[c]
           prev == d.curSevr
           pv == IF sev # prev THEN alCaPutSevrValue(d.sevrPV, sev) ELSE d.sevrPV
           d1 == [d EXCEPT !.curStat = stat, !.curSevr = sev, !.sevrPV = pv]
<1>1. d \in ChanData /\ prev \in Sevr
  BY DEF State, ChanData
<1>2. pv \in Int
  BY <1>1 DEF ChanData, alCaPutSevrValue, Sevr
<1> HIDE DEF pv
<1>3. d1 \in ChanData
  BY <1>1, <1>2 DEF ChanData
<1>4. PICK s1 : s1 = [s EXCEPT !.chan[c].curStat = stat, !.chan[c].curSevr = sev,
                               !.chan[c].sevrPV = IF sev # prev THEN alCaPutSevrValue(@, sev) ELSE @]
  OBVIOUS
<1>5. s1 = [s EXCEPT !.chan[c] = d1]
  BY <1>4 DEF State, pv
<1> HIDE DEF d1
<1>6. s1 \in State /\ s1.group = s.group /\ s1.psetup = s.psetup
  BY <1>3, <1>5 DEF State
<1>7. Answers(s, s1, g)
  BY <1>6, ChanUnheard
<1> HIDE DEF prev
<1>8. PICK s2 : s2 = CurSevUp(s1, c, sev, prev, TRUE)
  OBVIOUS
<1>9. Answers(s1, s2, g)
  BY <1>1, <1>6, <1>8, CurSevUpAnswers
<1>10. Answers(s, s2, g)
  BY <1>7, <1>9, AnswersComposes
<1>11. Answers(s2, Unacknowledge(s2, c, sev), g)
  BY <1>10, UnacknowledgeAnswers DEF Answers
<1>12. Answers(s, Unacknowledge(s2, c, sev), g)
  BY <1>10, <1>11, AnswersComposes
<1>13. ProcessChange(s, c, stat, sev) = IF On(s, c, "Ack") THEN s2 ELSE Unacknowledge(s2, c, sev)
  BY <1>4, <1>8 DEF ProcessChange, prev
<1> QED BY <1>10, <1>12, <1>13

(* A disabled channel changes no group.                                    *)
LEMMA ApplyAlarmAnswers ==
  ASSUME NEW s \in State, NEW c \in Chan, NEW stat \in Stat, NEW sev \in Sevr, NEW g \in Group
  PROVE  Answers(s, ApplyAlarm(s, c, stat, sev), g)
BY CurrentAnswers, ProcessChangeAnswers, AnswersComposes DEF ApplyAlarm

(* The whole handling of an alarm.                                         *)
LEMMA alNewAlarmProcessAnswers ==
  ASSUME NEW s \in State, NEW c \in Chan, NEW stat \in Stat, NEW sev \in Sevr,
         NEW acks \in Sevr, NEW ackt \in BOOLEAN, NEW g \in Group
  PROVE  Answers(s, alNewAlarmProcess(s, c, stat, sev, acks, ackt), g)
<1>1. PICK s1 : s1 = IF stat = "NOT_CONNECTED" /\ sev = ERROR_STATE
                     THEN alSaveAlarmEvent(s, c) ELSE s
  OBVIOUS
<1>2. Answers(s, s1, g)
  <2>1. Answers(s, alSaveAlarmEvent(s, c), g)
    <3> PICK t : t = alSaveAlarmEvent(s, c)
      OBVIOUS
    <3>1. t \in State
      BY alSaveAlarmEventPreserves DEF Preserves
    <3>2. t.group = s.group /\ t.psetup = s.psetup
      BY DEF alSaveAlarmEvent, State
    <3> QED BY <3>1, <3>2, ChanUnheard
  <2> QED BY <1>1, <2>1, AnswersComposes
<1>3. PICK s2 : s2 = [s1 EXCEPT !.psetup.newUnackBeepSevr = NO_ALARM]
  OBVIOUS
<1>4. Answers(s1, s2, g)
  <2>1. s1 \in State
    BY <1>2 DEF Answers
  <2>2. [s1.psetup EXCEPT !.newUnackBeepSevr = NO_ALARM] \in Setup
    BY <2>1, SevrBounds DEF State, Setup
  <2>3. s2 \in State /\ s2.group = s1.group
    BY <1>3, <2>1, <2>2 DEF State
  <2>4. /\ s2.psetup.beepSevr = s1.psetup.beepSevr
        /\ s2.psetup.silenceCurrent = s1.psetup.silenceCurrent
    BY <1>3, <2>1 DEF State, Setup
  <2> QED BY <2>1, <2>3, <2>4, UnheardAnswers DEF Unheard, SameLimits
<1>5. Answers(s, s2, g)
  BY <1>2, <1>4, AnswersComposes
<1>6. PICK s3 : s3 = IF GlobalFlag THEN AdoptGlobal(s2, c, acks, ackt) ELSE s2
  OBVIOUS
<1>7. Answers(s, s3, g)
  <2>1. GlobalFlag => Answers(s2, AdoptGlobal(s2, c, acks, ackt), g)
    BY <1>5, AdoptGlobalAnswers DEF Answers
  <2>2. GlobalFlag => Answers(s, AdoptGlobal(s2, c, acks, ackt), g)
    BY <1>5, <2>1, AnswersComposes
  <2> QED BY <1>5, <1>6, <2>2
<1>8. Answers(s3, ApplyAlarm(s3, c, stat, sev), g)
  BY <1>7, ApplyAlarmAnswers DEF Answers
<1>9. Answers(s, ApplyAlarm(s3, c, stat, sev), g)
  BY <1>7, <1>8, AnswersComposes
<1> QED BY <1>1, <1>3, <1>6, <1>9 DEF alNewAlarmProcess

(* An event from the IOC.                                                  *)
LEMMA alNewEventAnswers ==
  ASSUME NEW s \in State, NEW c \in Chan, NEW stat \in Stat, NEW sevr \in Sevr,
         NEW acks \in Sevr, NEW acktCA \in Int, NEW g \in Group
  PROVE  Answers(s, alNewEvent(s, c, stat, sevr, acks, acktCA), g)
<1>1. PICK ackt : ackt = IF acktCA = -1 THEN On(s, c, "AckT") ELSE acktCA = 0
  OBVIOUS
<1>2. ackt \in BOOLEAN
  <2>1. On(s, c, "AckT") \in BOOLEAN
    BY DEF On
  <2>2. (acktCA = 0) \in BOOLEAN
    OBVIOUS
  <2> QED BY <1>1, <2>1, <2>2
<1> QED BY <1>1, <1>2, alNewAlarmProcessAnswers DEF alNewEvent

(* A connection brings the saved alarm back.                               *)
LEMMA alConnectEventAnswers ==
  ASSUME NEW s \in State, NEW c \in Chan, NEW g \in Group
  PROVE  Answers(s, alConnectEvent(s, c), g)
<1> DEFINE e == s.chan[c].caAlarmEvent
<1>1. e.stat \in Stat /\ e.sevr \in Sevr /\ e.acks \in Sevr /\ e.ackt \in Int
  BY DEF State, ChanData, AlarmEvent
<1> HIDE DEF e
<1>2. Answers(s, alNewEvent(s, c, e.stat, e.sevr, e.acks, e.ackt), g)
  BY <1>1, alNewEventAnswers
<1> QED BY <1>2, AnswersComposes DEF alConnectEvent, e

(* The parts of alChangeChanMask.                                          *)
LEMMA ackChanAnswers ==
  ASSUME NEW s \in State, NEW c \in Chan, NEW g \in Group
  PROVE  Answers(s, ackChan(s, c), g)
BY SevrBounds, alSetUnackSevChanAnswers, AnswersComposes DEF ackChan

(* Uncount puts no severity to the PVs of the groups above c.              *)
LEMMA UncountAnswers ==
  ASSUME NEW s \in State, NEW c \in Chan, NEW g \in Group, g \notin Anc[c] \/ ~GlobalFlag
  PROVE  Answers(s, Uncount(s, c), g)
<1>1. s.chan[c].curSevr \in Sevr /\ NO_ALARM \in Sevr /\ FALSE \in BOOLEAN
  BY SevrBounds DEF State, ChanData
<1> QED BY <1>1, CurSevUpAnswers DEF Uncount

(* The alarm of a channel that is counted again is a new one.              *)
LEMMA ReprocessAnswers ==
  ASSUME NEW s \in State, NEW c \in Chan, NEW unackSevr \in Sevr, NEW g \in Group
  PROVE  Answers(s, Reprocess(s, c, unackSevr), g)
<1> DEFINE d == s.chan[c]
           d1 == [d EXCEPT !.curSevr = NO_ALARM, !.unackSevr = unackSevr]
<1>1. /\ d \in ChanData /\ d.curStat \in Stat /\ d.curSevr \in Sevr /\ d.unackSevr \in Sevr
      /\ On(s, c, "AckT") \in BOOLEAN
  BY DEF State, ChanData, On
<1>2. d1 \in ChanData
  BY <1>1, SevrBounds DEF ChanData
<1>3. PICK s1 : s1 = [s EXCEPT !.chan[c].curSevr = NO_ALARM, !.chan[c].unackSevr = unackSevr]
  OBVIOUS
<1>4. s1 = [s EXCEPT !.chan[c] = d1]
  BY <1>3 DEF State
<1> HIDE DEF d1
<1>5. s1 \in State /\ s1.group = s.group /\ s1.psetup = s.psetup
  BY <1>2, <1>4 DEF State
<1>6. Answers(s, s1, g)
  BY <1>5, ChanUnheard
<1> HIDE DEF d
<1>7. PICK t : t = alNewAlarmProcess(s1, c, d.curStat, d.curSevr, d.unackSevr, On(s, c, "AckT"))
  OBVIOUS
<1>8. Answers(s1, t, g)
  BY <1>1, <1>5, <1>7, alNewAlarmProcessAnswers
<1>9. Answers(s, t, g)
  BY <1>6, <1>8, AnswersComposes
<1>10. Reprocess(s, c, unackSevr) = t
  BY <1>3, <1>7 DEF Reprocess, d
<1> QED BY <1>9, <1>10

(* An unacknowledged severity that is taken out is not louder.             *)
LEMMA UncountUnackAnswers ==
  ASSUME NEW s \in State, NEW c \in Chan, NEW g \in Group
  PROVE  Answers(s, UncountUnack(s, c), g)
<1>1. PICK t : t = alSetUnackSevChan(s, c, NO_ALARM)
  OBVIOUS
<1>2. Answers(s, t, g)
  BY <1>1, SevrBounds, alSetUnackSevChanAnswers
<1>3. s.chan[c].unackSevr \in Sevr
  BY DEF State, ChanData
<1>4. Answers(t, [t EXCEPT !.chan[c].unackSevr = s.chan[c].unackSevr], g)
  <2>1. t \in State
    BY <1>2 DEF Answers
  <2> QED BY <1>3, <2>1, UnackSevrAnswers
<1>5. Answers(s, [t EXCEPT !.chan[c].unackSevr = s.chan[c].unackSevr], g)
  BY <1>2, <1>4, AnswersComposes
<1> QED BY <1>1, <1>2, <1>5 DEF UncountUnack

(* Nor is one that is acknowledged by itself.                              *)
LEMMA AutoAckAnswers ==
  ASSUME NEW s \in State, NEW c \in Chan, NEW g \in Group
  PROVE  Answers(s, AutoAck(s, c), g)
<1>1. PICK t : t = ackChan(s, c)
  OBVIOUS
<1>2. Answers(s, t, g)
  BY <1>1, ackChanAnswers
<1>3. Answers(t, [t EXCEPT !.chan[c].unackSevr = NO_ALARM], g)
  BY <1>2, SevrBounds, UnackSevrAnswers DEF Answers
<1>4. Answers(s, [t EXCEPT !.chan[c].unackSevr = NO_ALARM], g)
  BY <1>2, <1>3, AnswersComposes
<1> QED BY <1>1, <1>4, AnswersComposes DEF AutoAck

(* A subscription is no change of a group.                                 *)
LEMMA EvidAnswers ==
  ASSUME NEW s \in State, NEW c \in Chan, NEW v \in BOOLEAN, NEW g \in Group
  PROVE  Answers(s, [s EXCEPT !.chan[c].evid = v], g)
<1> PICK t : t = [s EXCEPT !.chan[c].evid = v]
  OBVIOUS
<1>1. t \in State
  BY SetEvid DEF EvidSet
<1>2. t.group = s.group /\ t.psetup = s.psetup
  BY DEF State
<1> QED BY <1>1, <1>2, ChanUnheard

(* Cancel and Disable take a channel out; only the groups above it see.    *)
LEMMA CancelOnAnswers ==
  ASSUME NEW s \in State, NEW c \in Chan, NEW g \in Group, g \notin Anc[c] \/ ~GlobalFlag
  PROVE  Answers(s, CancelOn(s, c), g)
<1>1. PICK s1 : s1 = [s EXCEPT !.chan[c].evid = FALSE]
  OBVIOUS
<1>2. PICK s2 : s2 = alSetUnackSevChan(s1, c, NO_ALARM)
  OBVIOUS
<1>3. PICK s3 : s3 = Uncount(s2, c)
  OBVIOUS
<1>4. PICK s4 : s4 = [s3 EXCEPT !.chan[c].curStat = "NO_ALARM", !.chan[c].curSevr = NO_ALARM]
  OBVIOUS
<1>5. Answers(s, s1, g)
  BY <1>1, EvidAnswers
<1>6. Answers(s1, s2, g)
  BY <1>2, <1>5, SevrBounds, alSetUnackSevChanAnswers DEF Answers
<1>7. Answers(s2, s3, g)
  BY <1>3, <1>6, UncountAnswers DEF Answers
<1>8. Answers(s3, s4, g)
  <2>1. s3 \in State /\ "NO_ALARM" \in Stat
    BY <1>7 DEF Answers, Stat
  <2> QED BY <1>4, <2>1, SevrBounds, CurrentAnswers
<1>9. Answers(s, s2, g)
  BY <1>5, <1>6, AnswersComposes
<1>10. Answers(s, s3, g)
  BY <1>7, <1>9, AnswersComposes
<1>11. Answers(s, s4, g)
  BY <1>8, <1>10, AnswersComposes
<1>12. CancelOn(s, c) \in {s1, s2, s4}
  BY <1>1, <1>2, <1>3, <1>4 DEF CancelOn
<1> QED BY <1>5, <1>9, <1>11, <1>12

(* A channel that is no longer cancelled raises its alarm again.           *)
LEMMA CancelOffAnswers ==
  ASSUME NEW s \in State, NEW c \in Chan, NEW g \in Group
  PROVE  Answers(s, CancelOff(s, c), g)
<1> DEFINE d == s.chan[c]
           again == ~On(s, c, "Disable") /\ d.curSevr > NO_ALARM
<1>1. PICK s1 : s1 = IF again THEN Reprocess(s, c, d.unackSevr) ELSE s
  OBVIOUS
<1>2. d.unackSevr \in Sevr
  BY DEF State, ChanData
<1> HIDE DEF d
<1>3. Answers(s, s1, g)
  BY <1>1, <1>2, ReprocessAnswers, AnswersComposes
<1>4. PICK s2 : s2 = [s1 EXCEPT !.chan[c].evid = TRUE]
  OBVIOUS
<1>5. Answers(s1, s2, g)
  BY <1>3, <1>4, EvidAnswers DEF Answers
<1>6. Answers(s, s2, g)
  BY <1>3, <1>5, AnswersComposes
<1>7. CancelOff(s, c) \in {s, s2}
  BY <1>1, <1>4 DEF CancelOff, d
<1> QED BY <1>6, <1>7, AnswersComposes

(* A channel that is disabled.                                             *)
LEMMA DisableOnAnswers ==
  ASSUME NEW s \in State, NEW c \in Chan, NEW g \in Group, g \notin Anc[c] \/ ~GlobalFlag
  PROVE  Answers(s, DisableOn(s, c), g)
<1>1. PICK s1 : s1 = UncountUnack(s, c)
  OBVIOUS
<1>2. PICK s2 : s2 = IF s.chan[c].curSevr > NO_ALARM THEN Uncount(s1, c) ELSE s1
  OBVIOUS
<1>3. Answers(s, s1, g)
  BY <1>1, UncountUnackAnswers
<1>4. Answers(s1, s2, g)
  <2>1. s1 \in State
    BY <1>3 DEF Answers
  <2> QED BY <1>2, <2>1, UncountAnswers, AnswersComposes
<1>5. Answers(s, s2, g)
  BY <1>3, <1>4, AnswersComposes
<1>6. PICK t : t = DisableOn(s, c)
  OBVIOUS
<1>7. t = [s2 EXCEPT !.chan[c].sevrPV = alCaPutSevrValue(@, -1)]
  BY <1>1, <1>2, <1>6 DEF DisableOn
<1>8. Answers(s2, t, g)
  <2>1. s2 \in State
    BY <1>5 DEF Answers
  <2>2. t \in State
    BY <1>6, DisableOnPreserves DEF Preserves
  <2>3. t.group = s2.group /\ t.psetup = s2.psetup
    BY <1>7, <2>1 DEF State
  <2> QED BY <2>1, <2>2, <2>3, ChanUnheard
<1> QED BY <1>5, <1>6, <1>8, AnswersComposes

(* A channel that is no longer disabled raises its alarm again.            *)
LEMMA DisableOffAnswers ==
  ASSUME NEW s \in State, NEW c \in Chan, NEW g \in Group
  PROVE  Answers(s, DisableOff(s, c), g)
BY SevrBounds, ReprocessAnswers, AutoAckAnswers DEF DisableOff

(* A channel that needs acknowledgement again ends the silence.            *)
LEMMA AckOffAnswers ==
  ASSUME NEW s \in State, NEW c \in Chan, NEW g \in Group
  PROVE  Answers(s, AckOff(s, c), g)
<1> DEFINE d == s.chan[c]
<1>1. d.unackSevr \in Sevr /\ d.curSevr \in Sevr
  BY DEF State, ChanData
<1> HIDE DEF d
<1>2. PICK z : z = [s EXCEPT !.chan[c].unackSevr = NO_ALARM]
  OBVIOUS
<1>3. Answers(s, z, g)
  BY <1>2, SevrBounds, UnackSevrAnswers
<1>4. Answers(z, SilenceReset(alSetUnackSevChan(z, c, d.unackSevr)), g)
  BY <1>1, <1>3, SilenceAfterUnack DEF Answers
<1>5. Answers(s, SilenceReset(alSetUnackSevChan(z, c, d.unackSevr)), g)
  BY <1>3, <1>4, AnswersComposes
<1>6. Answers(s, SilenceReset(alSetUnackSevChan(s, c, d.curSevr)), g)
  BY <1>1, SilenceAfterUnack
<1>7. AckOff(s, c) \in {SilenceReset(alSetUnackSevChan(z, c, d.unackSevr)),
                        SilenceReset(alSetUnackSevChan(s, c, d.curSevr)), AutoAck(s, c)}
  BY <1>2 DEF AckOff, d
<1> QED BY <1>5, <1>6, <1>7, AutoAckAnswers

\* in global mode the groups above c learn nothing of a channel that is taken out
Spares(c, g, cur, mask) ==
  GlobalFlag /\ g \in Anc[c] => mask \cap {"Cancel", "Disable"} \subseteq cur

(* One bit after the other: Cancel.                                        *)
LEMMA ChangeCancelAnswers ==
  ASSUME NEW s \in State, NEW c \in Chan, NEW mask, NEW g \in Group,
         Spares(c, g, s.chan[c].curMask, mask)
  PROVE  Answers(s, ChangeCancel(s, c, mask), g)
<1> DEFINE new == "Cancel" \in mask
<1>1. CASE new = On(s, c, "Cancel")
  BY <1>1, AnswersComposes DEF ChangeCancel
<1>2. CASE new # On(s, c, "Cancel")
  <2>1. PICK s1 : s1 = SetMaskBit(s, c, "Cancel", new)
    OBVIOUS
  <2>2. new \in BOOLEAN /\ "Cancel" \in MaskBit
    BY DEF MaskBit
  <2>3. Answers(s, s1, g)
    BY <1>2, <2>1, <2>2, SetMaskBitAnswers
  <2>4. s1 \in State
    BY <2>3 DEF Answers
  <2>5. CASE new
    <3>1. g \notin Anc[c] \/ ~GlobalFlag
      BY <1>2, <2>5 DEF Spares, On
    <3>2. Answers(s1, CancelOn(s1, c), g)
      BY <2>4, <3>1, CancelOnAnswers
    <3> QED BY <1>2, <2>1, <2>3, <2>5, <3>2, AnswersComposes DEF ChangeCancel
  <2>6. CASE ~new
    <3>1. Answers(s1, CancelOff(s1, c), g)
      BY <2>4, CancelOffAnswers
    <3> QED BY <1>2, <2>1, <2>3, <2>6, <3>1, AnswersComposes DEF ChangeCancel
  <2> QED BY <2>5, <2>6
<1> QED BY <1>1, <1>2

(* Disable.                                                                *)
LEMMA ChangeDisableAnswers ==
  ASSUME NEW s \in State, NEW c \in Chan, NEW mask, NEW g \in Group,
         Spares(c, g, s.chan[c].curMask, mask \cap {"Disable"})
  PROVE  Answers(s, ChangeDisable(s, c, mask), g)
<1> DEFINE new == "Disable" \in mask
<1>1. CASE new = On(s, c, "Disable")
  BY <1>1, AnswersComposes DEF ChangeDisable
<1>2. CASE new # On(s, c, "Disable")
  <2>1. PICK s1 : s1 = SetMaskBit(s, c, "Disable", new)
    OBVIOUS
  <2>2. new \in BOOLEAN /\ "Disable" \in MaskBit
    BY DEF MaskBit
  <2>3. Answers(s, s1, g)
    BY <1>2, <2>1, <2>2, SetMaskBitAnswers
  <2>4. s1 \in State
    BY <2>3 DEF Answers
  <2>5. new => Answers(s1, DisableOn(s1, c), g)
    <3>1. new => g \notin Anc[c] \/ ~GlobalFlag
      BY <1>2 DEF Spares, On
    <3> QED BY <2>4, <3>1, DisableOnAnswers
  <2>6. Answers(s1, DisableOff(s1, c), g)
    BY <2>4, DisableOffAnswers
  <2>7. ChangeDisable(s, c, mask) = IF "Cancel" \in mask THEN s1
                                    ELSE IF new THEN DisableOn(s1, c) ELSE DisableOff(s1, c)
    BY <1>2, <2>1 DEF ChangeDisable
  <2> QED BY <2>3, <2>5, <2>6, <2>7, AnswersComposes
<1> QED BY <1>1, <1>2

(* Ack.                                                                    *)
LEMMA ChangeAckAnswers ==
  ASSUME NEW s \in State, NEW c \in Chan, NEW mask, NEW g \in Group
  PROVE  Answers(s, ChangeAck(s, c, mask), g)
<1> DEFINE new == "Ack" \in mask
<1>1. CASE new = On(s, c, "Ack")
  BY <1>1, AnswersComposes DEF ChangeAck
<1>2. CASE new # On(s, c, "Ack")
  <2>1. PICK s1 : s1 = SetMaskBit(s, c, "Ack", new)
    OBVIOUS
  <2>2. new \in BOOLEAN /\ "Ack" \in MaskBit
    BY DEF MaskBit
  <2>3. Answers(s, s1, g)
    BY <1>2, <2>1, <2>2, SetMaskBitAnswers
  <2>4. s1 \in State
    BY <2>3 DEF Answers
  <2>5. Answers(s1, UncountUnack(s1, c), g) /\ Answers(s1, AckOff(s1, c), g)
    BY <2>4, UncountUnackAnswers, AckOffAnswers
  <2>6. Answers(s, UncountUnack(s1, c), g) /\ Answers(s, AckOff(s1, c), g)
    BY <2>3, <2>5, AnswersComposes
  <2>7. ChangeAck(s, c, mask) \in {s1, UncountUnack(s1, c), AckOff(s1, c)}
    BY <1>2, <2>1 DEF ChangeAck
  <2> QED BY <2>3, <2>6, <2>7
<1> QED BY <1>1, <1>2

(* AckT and Log.                                                           *)
LEMMA ChangePlainAnswers ==
  ASSUME NEW s \in State, NEW c \in Chan, NEW b \in {"AckT", "Log"}, NEW mask, NEW g \in Group
  PROVE  Answers(s, ChangePlain(s, c, b, mask), g)
<1>1. (b \in mask) \in BOOLEAN /\ b \in MaskBit
  BY DEF MaskBit
<1>2. (b \in mask) # On(s, c, b) => Answers(s, SetMaskBit(s, c, b, b \in mask), g)
  BY <1>1, SetMaskBitAnswers
<1> QED BY <1>2, AnswersComposes DEF ChangePlain

(* A change of mask answers, except above a channel it takes out.          *)
LEMMA alChangeChanMaskAnswers ==
  ASSUME NEW s \in State, NEW c \in Chan, NEW mask, NEW g \in Group,
         Spares(c, g, s.chan[c].curMask, mask)
  PROVE  Answers(s, alChangeChanMask(s, c, mask), g)
<1>1. PICK s1 : s1 = ChangeCancel(s, c, mask)
  OBVIOUS
<1>2. PICK s2 : s2 = ChangeDisable(s1, c, mask)
  OBVIOUS
<1>3. PICK s3 : s3 = ChangeAck(s2, c, mask)
  OBVIOUS
<1>4. PICK s4 : s4 = ChangePlain(s3, c, "AckT", mask)
  OBVIOUS
<1>5. PICK s5 : s5 = ChangePlain(s4, c, "Log", mask)
  OBVIOUS
<1>6. s5 = alChangeChanMask(s, c, mask)
  BY <1>1, <1>2, <1>3, <1>4, <1>5 DEF alChangeChanMask
<1>7. Answers(s, s1, g)
  BY <1>1, ChangeCancelAnswers
<1>8. Answers(s1, s2, g)
  <2>1. BitSet(s, s1, c, "Cancel", mask)
    BY <1>1, ChangeCancelBit
  <2>2. "Disable" \in s1.chan[c].curMask <=> "Disable" \in s.chan[c].curMask
    BY <2>1 DEF BitSet
  <2>3. Spares(c, g, s1.chan[c].curMask, mask \cap {"Disable"})
    BY <2>2 DEF Spares
  <2> QED BY <1>2, <1>7, <2>3, ChangeDisableAnswers DEF Answers
<1>9. Answers(s, s2, g)
  BY <1>7, <1>8, AnswersComposes
<1>10. Answers(s2, s3, g)
  BY <1>3, <1>9, ChangeAckAnswers DEF Answers
<1>11. Answers(s, s3, g)
  BY <1>9, <1>10, AnswersComposes
<1>12. Answers(s3, s4, g)
  BY <1>4, <1>11, ChangePlainAnswers DEF Answers
<1>13. Answers(s, s4, g)
  BY <1>11, <1>12, AnswersComposes
<1>14. Answers(s4, s5, g)
  BY <1>5, <1>13, ChangePlainAnswers DEF Answers
<1>15. Answers(s, s5, g)
  BY <1>13, <1>14, AnswersComposes
<1> QED BY <1>6, <1>15

(* It sets the Disable bit that the mask has.                              *)
LEMMA alChangeChanMaskDisable ==
  ASSUME NEW s \in State, NEW c \in Chan, NEW mask, "Disable" \in mask
  PROVE  "Disable" \in alChangeChanMask(s, c, mask).chan[c].curMask
<1>1. PICK s1 : s1 = ChangeCancel(s, c, mask)
  OBVIOUS
<1>2. PICK s2 : s2 = ChangeDisable(s1, c, mask)
  OBVIOUS
<1>3. PICK s3 : s3 = ChangeAck(s2, c, mask)
  OBVIOUS
<1>4. PICK s4 : s4 = ChangePlain(s3, c, "AckT", mask)
  OBVIOUS
<1>5. PICK s5 : s5 = ChangePlain(s4, c, "Log", mask)
  OBVIOUS
<1>6. s5 = alChangeChanMask(s, c, mask)
  BY <1>1, <1>2, <1>3, <1>4, <1>5 DEF alChangeChanMask
<1>7. s1 \in State
  BY <1>1, ChangeCancelBit DEF BitSet
<1>8. BitSet(s1, s2, c, "Disable", mask)
  BY <1>2, <1>7, ChangeDisableBit
<1>9. BitSet(s2, s3, c, "Ack", mask)
  BY <1>3, <1>8, ChangeAckBit DEF BitSet
<1>10. s4 \in State /\ s4.chan[c].curMask \ {"AckT"} = s3.chan[c].curMask \ {"AckT"}
  BY <1>4, <1>9, ChangePlainBit DEF BitSet
<1>11. s5.chan[c].curMask \ {"Log"} = s4.chan[c].curMask \ {"Log"}
  BY <1>5, <1>10, ChangePlainBit
<1>12. "Disable" \in s2.chan[c].curMask
  BY <1>8 DEF BitSet
<1>13. "Disable" \in s3.chan[c].curMask
  BY <1>9, <1>12 DEF BitSet
<1> QED BY <1>6, <1>10, <1>11, <1>13

(* alSetBeepSevCount leaves the severities of the groups alone.            *)
LEMMA BeepSevCountKeepsCur ==
  ASSUME NEW s \in State, NEW nodes, NEW newSevr, NEW oldSevr, NEW h \in Group
  PROVE  alSetBeepSevCount(s, nodes, newSevr, oldSevr).group[h].curSevr = s.group[h].curSevr
<1> DEFINE cnt(g) == Shift(s.group[g].beepSev, oldSevr, newSevr, 1)
           Up(g) == [s.group[g] EXCEPT !.beepSev = cnt(g),
                                       !.highestBeepSevr = alHighestSeverity(cnt(g))]
           F == [g \in Group |-> IF g \in nodes THEN Up(g) ELSE s.group[g]]
<1>1. alSetBeepSevCount(s, nodes, newSevr, oldSevr) = [s EXCEPT !.group = F]
  BY DEF alSetBeepSevCount
<1>2. Up(h).curSevr = s.group[h].curSevr
  <2> HIDE DEF cnt
  <2>1. s.group[h] \in GroupData
    BY DEF State
  <2> QED BY <2>1 DEF GroupData
<1> HIDE DEF Up
<1>3. F[h].curSevr = s.group[h].curSevr
  BY <1>2
<1> HIDE DEF F
<1> QED BY <1>1, <1>3 DEF State

(* So does the loop over the severities.                                   *)
LEMMA MoveBeepCountsKeepsCur ==
  ASSUME NEW s \in State, NEW g \in Group, NEW low, NEW high, NEW sign, NEW h \in Group
  PROVE  MoveBeepCounts(s, g, low, high, sign).group[h].curSevr = s.group[h].curSevr
<1> DEFINE Seen(k, v) == v >= low /\ v < high /\ BeepFilter(s, v, Below(g, k)) = v
           cnt(k) == [v \in AlarmSevr |->
                        s.group[k].unackBeepSev[v]
                        + (IF Seen(k, v) THEN sign * s.group[g].unackSev[v] ELSE 0)]
           Up(k) == [s.group[k] EXCEPT
                       !.unackBeepSev = cnt(k),
                       !.unackBeepSevr = alHighestBeepSeverity(cnt(k), s.group[k].beepSevr)]
           last == IF sign = 1 THEN high - 1 ELSE NO_ALARM
           F == [k \in Group |-> IF k \in Anc[g] THEN Up(k) ELSE s.group[k]]
           b == BeepFilter(s, last, Anc[g])
<1>1. CASE Anc[g] = {} \/ high <= 1
  BY <1>1 DEF MoveBeepCounts
<1>2. CASE ~(Anc[g] = {} \/ high <= 1)
  <2>1. MoveBeepCounts(s, g, low, high, sign) = [s EXCEPT !.group = F, !.psetup.newUnackBeepSevr = b]
    BY <1>2 DEF MoveBeepCounts
  <2>2. Up(h).curSevr = s.group[h].curSevr
    <3> HIDE DEF cnt
    <3>1. s.group[h] \in GroupData
      BY DEF State
    <3> QED BY <3>1 DEF GroupData
  <2> HIDE DEF Up
  <2>3. F[h].curSevr = s.group[h].curSevr
    BY <2>2
  <2> HIDE DEF F, b
  <2> QED BY <2>1, <2>3 DEF State
<1> QED BY <1>1, <1>2

(* No change of a beep severity changes a severity; one that changes       *)
(* nothing returns at once.                                                *)
LEMMA BeepSevrKeepsCur ==
  ASSUME NEW s \in State, NEW beepSevr \in Sevr, NEW h \in Group
  PROVE  /\ \A c \in Chan :
              /\ alSetBeepSevrChan(s, c, beepSevr).group[h].curSevr = s.group[h].curSevr
              /\ BeepSevr(s, c) = beepSevr => alSetBeepSevrChan(s, c, beepSevr) = s
         /\ \A g \in Group :
              /\ alSetBeepSevrGroup(s, g, beepSevr).group[h].curSevr = s.group[h].curSevr
              /\ BeepSevr(s, g) = beepSevr => alSetBeepSevrGroup(s, g, beepSevr) = s
<1>1. ASSUME NEW c \in Chan
      PROVE  /\ alSetBeepSevrChan(s, c, beepSevr).group[h].curSevr = s.group[h].curSevr
             /\ BeepSevr(s, c) = beepSevr => alSetBeepSevrChan(s, c, beepSevr) = s
  <2> DEFINE old == s.chan[c].beepSevr
             sev == s.chan[c].unackSevr
  <2>1. PICK osev : osev = IF sev >= old THEN sev ELSE NO_ALARM
    OBVIOUS
  <2>2. PICK nsev : nsev = IF sev >= beepSevr THEN sev ELSE NO_ALARM
    OBVIOUS
  <2>3. old \in Sevr /\ osev \in Sevr /\ nsev \in Sevr
    BY <2>1, <2>2, SevrBounds DEF State, ChanData
  <2>4. PICK s0 : s0 = [s EXCEPT !.chan[c].beepSevr = beepSevr]
    OBVIOUS
  <2>5. s0 \in State /\ s0.group = s.group
    <3>1. [s.chan[c] EXCEPT !.beepSevr = beepSevr] \in ChanData
      BY DEF State, ChanData
    <3> QED BY <2>4, <3>1 DEF State
  <2> HIDE DEF old, sev
  <2>6. PICK s1 : s1 = alSetBeepSevCount(s0, Anc[c], beepSevr, old)
    OBVIOUS
  <2>7. s1 \in State /\ s1.group[h].curSevr = s.group[h].curSevr
    <3>1. s1.group[h].curSevr = s0.group[h].curSevr
      BY <2>5, <2>6, BeepSevCountKeepsCur
    <3>2. s1 \in State
      BY <2>5, <2>6, alSetBeepSevCountPreserves DEF Preserves
    <3> QED BY <2>5, <3>1, <3>2
  <2>8. UnackBeepSevUp(s1, c, nsev, osev, 1).group[h].curSevr = s.group[h].curSevr
    <3>1. UnackBeepSevUp(s1, c, nsev, osev, 1).group[h].curSevr = s1.group[h].curSevr
      BY <2>3, <2>7, GroupFunctionsKeep
    <3> QED BY <2>7, <3>1
  <2>9. alSetBeepSevrChan(s, c, beepSevr)
        = IF old = beepSevr THEN s ELSE IF osev = nsev THEN s1
          ELSE UnackBeepSevUp(s1, c, nsev, osev, 1)
    BY <2>1, <2>2, <2>4, <2>6 DEF alSetBeepSevrChan, old, sev
  <2>10. BeepSevr(s, c) = old
    BY DEF BeepSevr, old
  <2> QED BY <2>7, <2>8, <2>9, <2>10
<1>2. ASSUME NEW g \in Group
      PROVE  /\ alSetBeepSevrGroup(s, g, beepSevr).group[h].curSevr = s.group[h].curSevr
             /\ BeepSevr(s, g) = beepSevr => alSetBeepSevrGroup(s, g, beepSevr) = s
  <2> DEFINE old == s.group[g].beepSevr
  <2>1. PICK s0 : s0 = [s EXCEPT !.group[g].beepSevr = beepSevr]
    OBVIOUS
  <2>2. PICK s1 : s1 = alSetBeepSevCount(s0, Anc[g] \cup {g}, beepSevr, old)
    OBVIOUS
  <2> DEFINE top == alHighestBeepSeverity(s1.group[g].unackBeepSev, beepSevr)
  <2>3. PICK s2 : s2 = [s1 EXCEPT !.group[g].unackBeepSevr = top]
    OBVIOUS
  <2>4. alSetBeepSevrGroup(s, g, beepSevr)
        = IF old = beepSevr THEN s
          ELSE IF old < beepSevr THEN MoveBeepCounts(s2, g, old, beepSevr, -1)
          ELSE MoveBeepCounts(s2, g, beepSevr, old, 1)
    BY <2>1, <2>2, <2>3 DEF alSetBeepSevrGroup
  <2>5. s0 \in State /\ s0.group[h].curSevr = s.group[h].curSevr
    <3>1. s0 \in State
      BY <2>1, GroupBeepSevrAssigned DEF GroupSet
    <3>2. s.group \in [Group -> GroupData]
      BY DEF State
    <3>3. s0.group = [s.group EXCEPT ![g] = [s.group[g] EXCEPT !.beepSevr = beepSevr]]
      BY <2>1 DEF State
    <3> QED BY <3>1, <3>2, <3>3 DEF GroupData
  <2> HIDE DEF old
  <2>6. s1 \in State /\ s1.group[h].curSevr = s0.group[h].curSevr
    BY <2>2, <2>5, BeepSevCountKeepsCur, alSetBeepSevCountPreserves DEF Preserves
  <2>7. s2 \in State /\ s2.group[h].curSevr = s1.group[h].curSevr
    <3>1. top \in Sevr
      BY HighestFromType DEF alHighestBeepSeverity
    <3> HIDE DEF top
    <3>2. s2 \in State
      BY <2>3, <2>6, <3>1, GroupTopAssigned DEF GroupSet
    <3>3. s1.group \in [Group -> GroupData]
      BY <2>6 DEF State
    <3>4. s2.group = [s1.group EXCEPT ![g] = [s1.group[g] EXCEPT !.unackBeepSevr = top]]
      BY <2>3, <2>6 DEF State
    <3> QED BY <3>2, <3>3, <3>4 DEF GroupData
  <2> HIDE DEF top
  <2>8. /\ MoveBeepCounts(s2, g, old, beepSevr, -1).group[h].curSevr = s2.group[h].curSevr
        /\ MoveBeepCounts(s2, g, beepSevr, old, 1).group[h].curSevr = s2.group[h].curSevr
    BY <2>7, MoveBeepCountsKeepsCur
  <2>9. BeepSevr(s, g) = old
    BY NodeAssumption DEF BeepSevr, old
  <2> QED BY <2>4, <2>5, <2>6, <2>7, <2>8, <2>9
<1> QED BY <1>1, <1>2

=============================================================================
