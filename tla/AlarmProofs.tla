---------------------------- MODULE AlarmProofs ----------------------------
(***************************************************************************)
(* Theorems about one running Alarm Handler, for every tree of groups and  *)
(* channels, every configuration and both modes, from what AlarmOpsProofs  *)
(* says of each function: types, masks and subscriptions (IInv); the       *)
(* counters of severities and beep severities (CurInv, UnackInv, BeepInv,  *)
(* BeepSevInv); acknowledging a group (AckInv); alarms that latch; what a  *)
(* step tells the outside, by severity PVs and the end of the silence.     *)
(***************************************************************************)
EXTENDS AlarmProperties, AlarmOpsProofs

----------------------------------------------------------------------------
(* The events of connection and access rights callbacks preserve.          *)
LEMMA ErrorEventPreserves ==
  ASSUME NEW s \in State, NEW c \in Chan, NEW stat \in ErrorStat
  PROVE  Preserves(s, ErrorEvent(s, c, stat))
<1>1. stat \in Stat
  BY DEF Stat
<1>2. 0 \in Sevr /\ ERROR_STATE \in Sevr
  BY SevrBounds DEF NO_ALARM
<1> QED BY <1>1, <1>2, alNewEventPreserves DEF ErrorEvent

(* And the events of connection and access rights callbacks.               *)
LEMMA ErrorEventInStep ==
  ASSUME NEW s \in State, NEW c \in Chan, NEW stat \in ErrorStat
  PROVE  InStep(s, ErrorEvent(s, c, stat), c)
<1>1. stat \in Stat
  BY DEF Stat
<1>2. 0 \in Sevr /\ ERROR_STATE \in Sevr
  BY SevrBounds DEF NO_ALARM
<1> QED BY <1>1, <1>2, alNewEventInStep DEF ErrorEvent

----------------------------------------------------------------------------
(* The specification.                                                      *)

IInv == TypeOK /\ MaskCountsExact /\ EventMatchesCancel

(* No call is in progress; the main group exists.                          *)
LEMMA NoCallType == NoCall \in Running
<1>1. Root \in Group
  BY TreeAssumption DEF Root
<1>2. <<>> \in Seq(Node)
  OBVIOUS
<1> QED BY <1>1, <1>2 DEF NoCall, Running, Call, GroupCall, MaskBit, MaskOp

(* The configuration file is read into a state of the right type, with     *)
(* counted masks and a subscription for every channel not cancelled.       *)
LEMMA InitIInv == Init => IInv
<1> SUFFICES ASSUME Init PROVE IInv
  OBVIOUS
<1> USE DEF Init
<1>1. ASSUME NEW c \in Chan PROVE InitChan(c) \in ChanData
  <2>1. DefaultMask[c] \in SUBSET MaskBit /\ BEEPSEVR[c] \in Sevr
    BY NodeAssumption DEF Node
  <2>2. [stat |-> "NO_ALARM", sevr |-> 0, acks |-> 0, ackt |-> 0] \in AlarmEvent
    BY SevrBounds DEF AlarmEvent, Stat, NO_ALARM
  <2>3. InitSevr(c) \in Sevr
    BY SevrBounds DEF InitSevr
  <2> QED BY <2>1, <2>2, <2>3, SevrBounds DEF InitChan, ChanData, Stat
<1>2. ASSUME NEW g \in Group PROVE InitGroup(g) \in GroupData
  <2> DEFINE Under == {c \in Chan : g \in Anc[c]}
             cur == [v \in Sevr |-> Cardinality({c \in Under : InitSevr(c) = v})]
             mask == [b \in MaskBit |-> Cardinality({c \in Under : b \in DefaultMask[c]})]
             zero == [v \in AlarmSevr |-> 0]
  <2>1. \A S \in SUBSET Under : Cardinality(S) \in Int
    BY NodeAssumption, FS_Subset, FS_CardinalityType
  <2>2. cur \in [Sevr -> Int]
    BY <2>1
  <2>3. mask \in [MaskBit -> Int]
    BY <2>1
  <2>4. zero \in Counters
    BY DEF Counters
  <2>5. BEEPSEVR[g] \in Sevr
    BY NodeAssumption DEF Node
  <2>6. InitGroup(g) =
          [curSevr |-> NO_ALARM, curSev |-> cur, unackSevr |-> NO_ALARM, unackSev |-> zero,
           unackBeepSevr |-> NO_ALARM, unackBeepSev |-> zero, beepSevr |-> BEEPSEVR[g],
           highestBeepSevr |-> NO_ALARM, beepSev |-> zero, mask |-> mask, sevrPV |-> 0]
    BY DEF InitGroup
  <2> HIDE DEF cur, mask, zero, Init
  <2> QED BY <2>2, <2>3, <2>4, <2>5, <2>6, SevrBounds DEF GroupData
<1>3. InitSetup \in Setup
  BY SevrBounds, SevrAssumption DEF InitSetup, Setup, Sevr
<1>4. St \in State
  BY <1>1, <1>2, <1>3 DEF St, State
<1>5. running \in Running
  BY NoCallType DEF Running, Call
<1>6. toBeConnectedCount \in Int
  BY NodeAssumption, FS_CardinalityType
<1>7. TypeOK
  BY <1>4, <1>5, <1>6 DEF TypeOK
<1>8. MaskCountsExact
  <2> SUFFICES ASSUME NEW g \in Group, NEW b \in MaskBit
               PROVE  group[g].mask[b] = Cardinality({c \in ChannelsBelow(g) : b \in chan[c].curMask})
    BY DEF MaskCountsExact
  <2>1. {c \in ChannelsBelow(g) : b \in chan[c].curMask}
        = {c \in {d \in Chan : g \in Anc[d]} : b \in DefaultMask[c]}
    BY DEF ChannelsBelow, InitChan
  <2> QED BY <2>1 DEF InitGroup
<1>9. EventMatchesCancel
  BY DEF EventMatchesCancel, InitChan
<1> QED BY <1>7, <1>8, <1>9 DEF IInv

Links == [Chan -> {"down", "rw", "r", "none"}]

(* A step that takes the tree to t, where the operation keeps the          *)
(* invariant, keeps the invariant of the specification.                    *)
LEMMA BecomeKeeps ==
  ASSUME IInv, NEW t, Keeps(St, t), Become(t),
         link' \in Links, toBeConnectedCount' \in Int, running' \in Running
  PROVE  IInv'
<1>1. St' = t
  BY DEF St, Become, Keeps, State
<1>2. MaskExact(St) /\ EvidExact(St)
  BY DEF IInv, MaskCountsExact, EventMatchesCancel, MaskExact, EvidExact, St
<1>3. t \in State /\ MaskExact(t) /\ EvidExact(t)
  BY <1>2 DEF Keeps
<1>4. St' \in State
  BY <1>1, <1>3
<1>5. TypeOK'
  BY <1>4 DEF TypeOK, Links
<1>6. MaskCountsExact'
  BY <1>3 DEF MaskCountsExact, MaskExact, Become
<1>7. EventMatchesCancel'
  BY <1>3 DEF EventMatchesCancel, EvidExact, Become
<1> QED BY <1>5, <1>6, <1>7 DEF IInv

(* The same for an operator callback on one channel.                       *)
LEMMA OnChannelKeeps ==
  ASSUME IInv, NEW t, Keeps(St, t), OnChannel(t)
  PROVE  IInv'
BY BecomeKeeps DEF OnChannel, IInv, TypeOK, Links

(* The start of a callback on a group changes only running.                *)
LEMMA StartKeeps ==
  ASSUME IInv, running' \in Running,
         UNCHANGED <<chan, group, psetup, link, toBeConnectedCount>>
  PROVE  IInv'
<1>1. St' = St
  BY DEF St
<1>2. TypeOK'
  BY <1>1 DEF IInv, TypeOK
<1> QED BY <1>2 DEF IInv, MaskCountsExact, EventMatchesCancel

(* Channel Access callbacks keep the invariant.                            *)
LEMMA ChannelAccessKeeps ==
  ASSUME IInv, ChannelAccess
  PROVE  IInv'
<1>1. St \in State /\ link \in Links /\ toBeConnectedCount \in Int /\ running \in Running
  BY DEF IInv, TypeOK, Links
<1>2. ASSUME NEW c \in Chan, CaAlarmEvent(c) PROVE IInv'
  <2>1. PICK e \in IocEvent : AlarmEventOf(c, e)
    BY <1>2 DEF CaAlarmEvent
  <2>2. e.stat \in Stat /\ e.sevr \in Sevr /\ e.acks \in Sevr /\ e.ackt \in Int
    <3>1. e \in [stat : {"NO_ALARM", "ALARM"}, sevr : 0 .. ALARM_NSEV - 1,
                 acks : 0 .. ALARM_NSEV - 1, ackt : AcktSetting]
      BY DEF IocEvent
    <3>2. 0 .. ALARM_NSEV - 1 \subseteq Sevr
      BY SevrAssumption DEF Sevr
    <3>3. AcktSetting \subseteq Int
      BY OperatorAssumption
    <3> QED BY <3>1, <3>2, <3>3 DEF Stat
  <2>3. Keeps(St, alNewEvent(St, c, e.stat, e.sevr, e.acks, e.ackt))
    BY <1>1, <2>2, alNewEventPreserves, KeepsCombines
  <2> QED BY <1>1, <2>1, <2>3, BecomeKeeps DEF AlarmEventOf
<1>3. ASSUME NEW c \in Chan, ConnDown(c) PROVE IInv'
  <2>1. Keeps(St, ErrorEvent(St, c, "NOT_CONNECTED"))
    BY <1>1, ErrorEventPreserves, KeepsCombines DEF ErrorStat
  <2>2. link' \in Links
    BY <1>1, <1>3 DEF ConnDown, Links
  <2> QED BY <1>1, <1>3, <2>1, <2>2, BecomeKeeps DEF ConnDown
<1>4. ASSUME NEW c \in Chan, NEW r \in Rights, ConnUp(c, r) PROVE IInv'
  <2> DEFINE s == alConnectEvent(St, c)
             t == IF r = "none" THEN ErrorEvent(s, c, "NO_READ_ACCESS")
                  ELSE IF r = "r" /\ NeedsWrite THEN ErrorEvent(s, c, "NO_WRITE_ACCESS")
                  ELSE s
  <2>1. Preserves(St, s)
    BY <1>1, alConnectEventPreserves
  <2>2. Become(t)
    BY <1>4 DEF ConnUp
  <2> HIDE DEF s
  <2> s \in State
    BY <2>1 DEF Preserves
  <2>3. Keeps(St, t)
    BY <2>1, ErrorEventPreserves, PreservesTransitive, KeepsCombines DEF ErrorStat
  <2> HIDE DEF t
  <2>4. link' \in Links
    BY <1>1, <1>4, OperatorAssumption DEF ConnUp, Links
  <2>5. toBeConnectedCount' \in Int /\ running' \in Running
    BY <1>1, <1>4 DEF ConnUp
  <2> QED BY <2>2, <2>3, <2>4, <2>5, BecomeKeeps
<1>5. ASSUME NEW c \in Chan, NEW r \in Rights, AccessRightsEvent(c, r) PROVE IInv'
  <2> DEFINE s == IF r = "none" THEN ErrorEvent(St, c, "NO_READ_ACCESS") ELSE St
             t == IF r # "rw" /\ NeedsWrite THEN ErrorEvent(s, c, "NO_WRITE_ACCESS") ELSE s
  <2>1. Preserves(St, s)
    BY <1>1, ErrorEventPreserves, PreservesReflexive DEF ErrorStat
  <2>2. Become(t)
    BY <1>5 DEF AccessRightsEvent
  <2> HIDE DEF s
  <2> s \in State
    BY <2>1 DEF Preserves
  <2>3. Keeps(St, t)
    BY <2>1, ErrorEventPreserves, PreservesTransitive, KeepsCombines DEF ErrorStat
  <2> HIDE DEF t
  <2>4. link' \in Links
    BY <1>1, <1>5, OperatorAssumption DEF AccessRightsEvent, Links
  <2>5. toBeConnectedCount' \in Int /\ running' \in Running
    BY <1>1, <1>5 DEF AccessRightsEvent
  <2> QED BY <2>2, <2>3, <2>4, <2>5, BecomeKeeps
<1> QED BY <1>2, <1>3, <1>4, <1>5 DEF ChannelAccess

(* The operator's callbacks on masks keep the invariant.                   *)
LEMMA MaskCallbackKeeps ==
  ASSUME IInv, MaskCallback
  PROVE  IInv'
<1>1. St \in State
  BY DEF IInv, TypeOK
<1>2. ASSUME NEW u, Keeps(St, u) PROVE Keeps(St, silenceCurrentReset(u))
  <2>1. u \in State
    BY <1>2 DEF Keeps
  <2>2. Keeps(u, silenceCurrentReset(u))
    BY <2>1, SilenceResetPreserves, KeepsCombines
  <2> QED BY <1>2, <2>2, KeepsCombines
<1>3. ASSUME NEW c \in Chan, NEW b, NEW op, ForceChanMask(c, b, op) PROVE IInv'
  <2>1. Keeps(St, silenceCurrentReset(alForceChanMask(St, c, b, op)))
    BY <1>1, <1>2, alForceChanMaskKeeps
  <2> QED BY <1>3, <2>1, OnChannelKeeps DEF ForceChanMask
<1>4. ASSUME NEW c \in Chan, NEW mask, ChangeChanMask(c, mask) PROVE IInv'
  <2>1. Keeps(St, silenceCurrentReset(alChangeChanMask(St, c, mask)))
    BY <1>1, <1>2, alChangeChanMaskKeeps
  <2> QED BY <1>4, <2>1, OnChannelKeeps DEF ChangeChanMask
<1>5. ASSUME NEW c \in Chan, ResetChanMask(c) PROVE IInv'
  <2>1. Keeps(St, silenceCurrentReset(alChangeChanMask(St, c, DefaultMask[c])))
    BY <1>1, <1>2, alChangeChanMaskKeeps
  <2> QED BY <1>5, <2>1, OnChannelKeeps DEF ResetChanMask
<1>6. ASSUME NEW g \in Group, NEW b \in OperatorBits, NEW op \in MaskOp, ForceGroupMask(g, b, op)
      PROVE  IInv'
  <2>1. b \in MaskBit /\ Walk[g] \in Seq(Node)
    BY OperatorAssumption, TreeAssumption DEF OperatorBits
  <2>2. running' \in Running
    BY <1>6, <2>1, NoCallType DEF ForceGroupMask, Running, Call, GroupCall
  <2> QED BY <1>6, <2>2, StartKeeps DEF ForceGroupMask
<1>7. ASSUME NEW g \in Group, NEW mask \in OperatorMasks, ChangeGroupMask(g, mask)
      PROVE  IInv'
  <2>1. mask \in SUBSET MaskBit /\ Walk[g] \in Seq(Node)
    BY OperatorAssumption, TreeAssumption
  <2>2. running' \in Running
    BY <1>7, <2>1, NoCallType DEF ChangeGroupMask, Running, Call, GroupCall
  <2> QED BY <1>7, <2>2, StartKeeps DEF ChangeGroupMask
<1>8. ASSUME NEW g \in Group, ResetGroupMask(g) PROVE IInv'
  <2>1. Walk[g] \in Seq(Node)
    BY TreeAssumption
  <2>2. running' \in Running
    BY <1>8, <2>1, NoCallType DEF ResetGroupMask, StartCall, Running, Call, GroupCall
  <2> QED BY <1>8, <2>2, StartKeeps DEF ResetGroupMask, StartCall
<1> QED BY <1>3, <1>4, <1>5, <1>6, <1>7, <1>8 DEF MaskCallback

(* Acknowledgements and beep severities keep the invariant.                *)
LEMMA AckBeepCallbackKeeps ==
  ASSUME IInv, AckCallback \/ BeepCallback
  PROVE  IInv'
<1>1. St \in State
  BY DEF IInv, TypeOK
<1>2. ASSUME NEW c \in Chan, AckChan(c) PROVE IInv'
  <2>1. Keeps(St, ackChan(St, c))
    BY <1>1, ackChanPreserves, KeepsCombines
  <2> QED BY <1>2, <2>1, OnChannelKeeps DEF AckChan
<1>3. ASSUME NEW g \in Group, AckGroup(g) PROVE IInv'
  <2>1. Walk[g] \in Seq(Node)
    BY TreeAssumption
  <2>2. running' \in Running
    BY <1>3, <2>1, NoCallType DEF AckGroup, StartCall, Running, Call, GroupCall
  <2> QED BY <1>3, <2>2, StartKeeps DEF AckGroup, StartCall
<1>4. ASSUME NEW n \in Node, NEW sevr \in AlarmSevr, ChangeBeepSevr(n, sevr) PROVE IInv'
  <2>1. sevr \in Sevr
    BY SevrAssumption DEF AlarmSevr, Sevr
  <2>2. CASE n \in Chan
    <3>1. Keeps(St, alSetBeepSevrChan(St, n, sevr))
      BY <1>1, <2>1, <2>2, alSetBeepSevrChanPreserves, KeepsCombines
    <3> QED BY <1>4, <2>2, <3>1, OnChannelKeeps DEF ChangeBeepSevr
  <2>3. CASE n \notin Chan
    <3>1. n \in Group
      BY <2>3 DEF Node
    <3>2. Keeps(St, alSetBeepSevrGroup(St, n, sevr))
      BY <1>1, <2>1, <3>1, alSetBeepSevrGroupPreserves, KeepsCombines
    <3> QED BY <1>4, <2>3, <3>2, OnChannelKeeps DEF ChangeBeepSevr
  <2> QED BY <2>2, <2>3
<1>5. ASSUME NEW sevr \in 1 .. ALARM_NSEV - 1, SystemBeepSevr(sevr) PROVE IInv'
  <2> DEFINE p == [psetup EXCEPT !.beepSevr = sevr]
  <2>1. p \in Setup
    BY <1>1, SevrAssumption DEF St, State, Setup, Sevr
  <2>2. Keeps(St, [St EXCEPT !.psetup = p])
    BY <1>1, <2>1, PreservesSetup, KeepsCombines
  <2>3. [St EXCEPT !.psetup = p] = [St EXCEPT !.psetup.beepSevr = sevr]
    BY DEF St
  <2> QED BY <1>5, <2>2, <2>3, OnChannelKeeps DEF SystemBeepSevr
<1>6. ASSUME ToggleSilenceCurrent PROVE IInv'
  <2> DEFINE p == [psetup EXCEPT !.silenceCurrent = ~@]
  <2>1. p \in Setup
    BY <1>1 DEF St, State, Setup
  <2>2. Keeps(St, [St EXCEPT !.psetup = p])
    BY <1>1, <2>1, PreservesSetup, KeepsCombines
  <2>3. [St EXCEPT !.psetup = p] = [St EXCEPT !.psetup.silenceCurrent = ~@]
    BY DEF St
  <2> QED BY <1>6, <2>2, <2>3, OnChannelKeeps DEF ToggleSilenceCurrent
<1> QED BY <1>2, <1>3, <1>4, <1>5, <1>6 DEF AckCallback, BeepCallback

(* Advancing a callback on a group leaves running well formed.             *)
LEMMA AdvanceType ==
  ASSUME running \in Running, Advance
  PROVE  running' \in Running
<1> DEFINE rest == running.rest
           n == Head(rest)
           next == IF Skips(n) THEN SubSeq(rest, Len(Walk[n]) + 2, Len(rest)) ELSE Tail(rest)
<1>1. CASE rest = <<>>
  BY <1>1, NoCallType DEF Advance
<1>2. CASE rest # <<>>
  <2>1. rest \in Seq(Node)
    BY DEF Running
  <2>2. Tail(rest) \in Seq(Node)
    BY <1>2, <2>1
  <2>3. ASSUME Skips(n) PROVE SubSeq(rest, Len(Walk[n]) + 2, Len(rest)) \in Seq(Node)
    <3>1. n \in Group
      BY <2>3 DEF Skips
    <3>2. Walk[n] \in Seq(Node)
      BY <3>1, TreeAssumption
    <3>3. Len(Walk[n]) \in Nat
      BY <3>2
    <3>4. ASSUME NEW m \in Nat, m >= 1 PROVE SubSeq(rest, m, Len(rest)) \in Seq(Node)
      BY <2>1, <3>4, SubSeqProperties
    <3> QED BY <3>3, <3>4
  <2>4. next \in Seq(Node)
    BY <2>2, <2>3
  <2>5. running' = [running EXCEPT !.rest = next]
    BY <1>2 DEF Advance
  <2> HIDE DEF next
  <2> QED BY <2>4, <2>5 DEF Running
<1> QED BY <1>1, <1>2

(* A step of a callback on a group keeps the invariant.                    *)
LEMMA CallbackStepKeeps ==
  ASSUME IInv, CallbackStep
  PROVE  IInv'
<1>1. St \in State /\ link \in Links /\ toBeConnectedCount \in Int /\ running \in Running
  BY DEF IInv, TypeOK, Links
<1>2. running' \in Running
  BY <1>1, AdvanceType DEF CallbackStep
<1>3. link' \in Links /\ toBeConnectedCount' \in Int
  BY <1>1 DEF CallbackStep
<1>4. Keeps(St, St)
  BY <1>1, PreservesReflexive, KeepsCombines
<1>5. ASSUME NEW c \in Chan, Become(Visit(St, c)) PROVE IInv'
  <2>1. /\ Keeps(St, alForceChanMask(St, c, running.index, running.op))
        /\ Keeps(St, alChangeChanMask(St, c, running.mask))
        /\ Keeps(St, alChangeChanMask(St, c, DefaultMask[c]))
        /\ Keeps(St, ackChan(St, c))
        /\ Keeps(St, ErrorEvent(St, c, "NOT_CONNECTED"))
    BY <1>1, alForceChanMaskKeeps, alChangeChanMaskKeeps, ackChanPreserves,
       ErrorEventPreserves, KeepsCombines DEF ErrorStat
  <2>2. Keeps(St, Visit(St, c))
    BY <1>4, <2>1 DEF Visit
  <2> QED BY <1>2, <1>3, <1>5, <2>2, BecomeKeeps
<1>6. ASSUME UNCHANGED <<chan, group, psetup>> PROVE IInv'
  BY <1>2, <1>6, StartKeeps DEF CallbackStep
<1>7. ASSUME Become(IF running.call \in GroupCall THEN silenceCurrentReset(St) ELSE St)
      PROVE  IInv'
  <2>1. Keeps(St, silenceCurrentReset(St))
    BY <1>1, SilenceResetPreserves, KeepsCombines
  <2>2. Keeps(St, IF running.call \in GroupCall THEN silenceCurrentReset(St) ELSE St)
    BY <1>4, <2>1
  <2> QED BY <1>2, <1>3, <1>7, <2>2, BecomeKeeps
<1> QED BY <1>5, <1>6, <1>7 DEF CallbackStep

(* The end of the wait for connections keeps the invariant.                *)
LEMMA EndPendKeeps ==
  ASSUME IInv, EndPend
  PROVE  IInv'
<1>1. CaWalk \in Seq(Node)
  BY TreeAssumption DEF Node
<1>2. running' \in Running
  BY <1>1, NoCallType DEF EndPend, Running, Call
<1> QED BY <1>2, StartKeeps DEF EndPend

(* IInv is inductive.                                                      *)
LEMMA StepIInv == IInv /\ [Next]_vars => IInv'
<1> SUFFICES ASSUME IInv, [Next]_vars PROVE IInv'
  OBVIOUS
<1>1. CASE Next
  BY <1>1, ChannelAccessKeeps, EndPendKeeps, MaskCallbackKeeps, AckBeepCallbackKeeps,
     CallbackStepKeeps DEF Next
<1>2. CASE UNCHANGED vars
  <2>1. St' = St
    BY <1>2 DEF vars, St
  <2> QED BY <1>2, <2>1
       DEF vars, IInv, TypeOK, MaskCountsExact, EventMatchesCancel
<1> QED BY <1>1, <1>2

(* In every tree, configuration and mode, every variable keeps its type.   *)
THEOREM TypeCorrect == Spec => []TypeOK
<1>1. IInv => TypeOK
  BY DEF IInv
<1> QED BY InitIInv, StepIInv, <1>1, PTL DEF Spec

(* In every tree, configuration and mode, the mask counters of a group are *)
(* the numbers of channels below it with the bits set: the guard of        *)
(* alUpdateGroupMask that refuses to count below 0 never hides an error.   *)
THEOREM MasksCounted == Spec => []MaskCountsExact
<1>1. IInv => MaskCountsExact
  BY DEF IInv
<1> QED BY InitIInv, StepIInv, <1>1, PTL DEF Spec

(* In every tree, configuration and mode, a channel is subscribed to       *)
(* alarms exactly while it is not cancelled.                               *)
THEOREM SubscriptionFollowsCancel == Spec => []EventMatchesCancel
<1>1. IInv => EventMatchesCancel
  BY DEF IInv
<1> QED BY InitIInv, StepIInv, <1>1, PTL DEF Spec


----------------------------------------------------------------------------
(* The masks a channel can get.                                            *)

\* M has no more of the bits that weigh than the operator may combine on c
Allowed(c, M) ==
  \E L \in OperatorMasks : M \cap Weighs \subseteq (DefaultMask[c] \ OperatorBits) \cup L

Within(c, M) == M \cap Weighs \subseteq DefaultMask[c] \cup OperatorBits

MasksWithin(s) == \A c \in Chan : Within(c, s.chan[c].curMask)

\* what the callback r on a group adds to the mask of c, at most
Aim(r, c) ==
  IF r.call = "alForceGroupMask" THEN {r.index}
  ELSE IF r.call = "alChangeGroupMask" THEN r.mask ELSE DefaultMask[c]

(* The callback r that is in progress in state s visits channels below its *)
(* group, whose masks it may change.                                       *)
CallSafe(s, r) ==
  /\ r.call \in GroupCall =>
       \A c \in ChannelsBelow(r.top) : Allowed(c, s.chan[c].curMask \cup Aim(r, c))
  /\ r.call \in GroupCall \cup {"ackGroup"} =>
       \A i \in DOMAIN r.rest : r.top \in Anc[r.rest[i]]
  /\ r.call = "ackGroup" => ~PassiveFlag

WalkInv == MasksWithin(St) /\ CallSafe(St, running)

(* What a step of the program does to the tree.                            *)
TreeStep(s, t) ==
  \/ \E c \in Chan : InStep(s, t, c)
  \/ \E c \in Chan : \E mask \in SUBSET MaskBit :
       MaskStep(s, t, c, mask) /\ Allowed(c, s.chan[c].curMask \cup mask)
  \/ "node" \in BeepMenu /\ \E n \in Node : \E new \in Sevr : BeepSevrSet(s, t, n, new)
  \/ t \in State /\ t.chan = s.chan /\ t.group = s.group

(* A mask step leaves the masks allowed that were.                         *)
LEMMA MaskStepAllowed ==
  ASSUME NEW s, NEW t, NEW c \in Chan, NEW mask, MaskStep(s, t, c, mask),
         Allowed(c, s.chan[c].curMask \cup mask)
  PROVE  Allowed(c, t.chan[c].curMask \cup mask) /\ Within(c, t.chan[c].curMask)
<1>1. PICK L \in OperatorMasks :
        (s.chan[c].curMask \cup mask) \cap Weighs \subseteq (DefaultMask[c] \ OperatorBits) \cup L
  BY DEF Allowed
<1>2. t.chan[c].curMask \cap Weighs \subseteq s.chan[c].curMask \cup mask
  BY DEF MaskStep
<1>3. (t.chan[c].curMask \cup mask) \cap Weighs \subseteq (DefaultMask[c] \ OperatorBits) \cup L
  BY <1>1, <1>2
<1>4. L \subseteq OperatorBits
  BY DEF OperatorBits
<1> QED BY <1>3, <1>4 DEF Allowed, Within

(* An event changes no bit that weighs.                                    *)
LEMMA InStepWeighs ==
  ASSUME NEW s, NEW t, NEW c \in Chan, InStep(s, t, c)
  PROVE  t.chan[c].curMask \cap Weighs = s.chan[c].curMask \cap Weighs
<1>1. t.chan[c].curMask \ {"AckT"} = s.chan[c].curMask \ {"AckT"}
  BY DEF InStep
<1>2. "AckT" \notin Weighs
  BY DEF Weighs
<1> QED BY <1>1, <1>2

(* Masks stay within bounds.                                               *)
LEMMA TreeStepMasks ==
  ASSUME NEW s, NEW t, TreeStep(s, t), MasksWithin(s)
  PROVE  MasksWithin(t) /\ t \in State
<1>1. ASSUME NEW c \in Chan, InStep(s, t, c) PROVE MasksWithin(t) /\ t \in State
  <2>1. Frame(s, t, c)
    BY <1>1 DEF InStep, Moved
  <2>2. t.chan[c].curMask \cap Weighs = s.chan[c].curMask \cap Weighs
    BY <1>1, InStepWeighs
  <2> QED BY <2>1, <2>2 DEF MasksWithin, Within, Frame
<1>2. ASSUME NEW c \in Chan, NEW mask, MaskStep(s, t, c, mask),
             Allowed(c, s.chan[c].curMask \cup mask)
      PROVE  MasksWithin(t) /\ t \in State
  <2>1. Frame(s, t, c)
    BY <1>2 DEF MaskStep
  <2>2. Within(c, t.chan[c].curMask)
    BY <1>2, MaskStepAllowed
  <2> QED BY <2>1, <2>2 DEF MasksWithin, Frame
<1>3. ASSUME NEW n \in Node, NEW new, BeepSevrSet(s, t, n, new)
      PROVE  MasksWithin(t) /\ t \in State
  BY <1>3 DEF BeepSevrSet, Steady, MasksWithin
<1>4. ASSUME t \in State /\ t.chan = s.chan PROVE MasksWithin(t) /\ t \in State
  BY <1>4 DEF MasksWithin
<1> QED BY <1>1, <1>2, <1>3, <1>4 DEF TreeStep

(* The guards of the operator's callbacks.                                 *)
LEMMA CombinedAllowed ==
  ASSUME MasksWithin(St), NEW c \in Chan, NEW mask, Combined(c, mask),
         mask \subseteq DefaultMask[c] \cup OperatorBits
  PROVE  Allowed(c, chan[c].curMask \cup mask)
<1> DEFINE L == (chan[c].curMask \cup mask) \cap OperatorBits
<1>1. L \in OperatorMasks
  BY DEF Combined
<1>2. chan[c].curMask \cap Weighs \subseteq DefaultMask[c] \cup OperatorBits
  BY DEF MasksWithin, Within, St
<1>3. (chan[c].curMask \cup mask) \cap Weighs \subseteq (DefaultMask[c] \ OperatorBits) \cup L
  BY <1>2
<1> QED BY <1>1, <1>3 DEF Allowed

(* A step that takes the tree to t.                                        *)
LEMMA BecomeSteps ==
  ASSUME WalkInv, NEW t, Become(t), TreeStep(St, t), CallSafe(t, running')
  PROVE  TreeStep(St, St') /\ WalkInv'
<1>1. MasksWithin(t) /\ t \in State
  BY TreeStepMasks DEF WalkInv
<1>2. St' = t
  BY <1>1 DEF St, Become, State
<1> QED BY <1>1, <1>2 DEF WalkInv

(* No callback on a group is in progress.                                  *)
LEMMA CallSafeServing ==
  ASSUME NEW s, NEW r, r.call \notin GroupCall \cup {"ackGroup"}
  PROVE  CallSafe(s, r)
BY DEF CallSafe

(* Channel Access callbacks.                                               *)
LEMMA ChannelAccessSteps ==
  ASSUME IInv, WalkInv, ChannelAccess
  PROVE  TreeStep(St, St') /\ WalkInv'
<1>1. St \in State
  BY DEF IInv, TypeOK
<1>2. ASSUME NEW c \in Chan, NEW t, InStep(St, t, c), Become(t), Serving, UNCHANGED running
      PROVE  TreeStep(St, St') /\ WalkInv'
  <2>1. CallSafe(t, running')
    BY <1>2, CallSafeServing DEF Serving, GroupCall
  <2>2. TreeStep(St, t)
    BY <1>2 DEF TreeStep
  <2> QED BY <1>2, <2>1, <2>2, BecomeSteps
<1>3. ASSUME NEW c \in Chan, CaAlarmEvent(c) PROVE TreeStep(St, St') /\ WalkInv'
  <2>1. PICK e \in IocEvent : AlarmEventOf(c, e)
    BY <1>3 DEF CaAlarmEvent
  <2>2. e.stat \in Stat /\ e.sevr \in Sevr /\ e.acks \in Sevr /\ e.ackt \in Int
    <3>1. e \in [stat : {"NO_ALARM", "ALARM"}, sevr : 0 .. ALARM_NSEV - 1,
                 acks : 0 .. ALARM_NSEV - 1, ackt : AcktSetting]
      BY DEF IocEvent
    <3>2. 0 .. ALARM_NSEV - 1 \subseteq Sevr
      BY SevrAssumption DEF Sevr
    <3>3. AcktSetting \subseteq Int
      BY OperatorAssumption
    <3> QED BY <3>1, <3>2, <3>3 DEF Stat
  <2>3. InStep(St, alNewEvent(St, c, e.stat, e.sevr, e.acks, e.ackt), c)
    BY <1>1, <2>2, alNewEventInStep
  <2> QED BY <1>2, <2>1, <2>3 DEF AlarmEventOf
<1>4. ASSUME NEW c \in Chan, ConnDown(c) PROVE TreeStep(St, St') /\ WalkInv'
  <2>1. InStep(St, ErrorEvent(St, c, "NOT_CONNECTED"), c)
    BY <1>1, ErrorEventInStep DEF ErrorStat
  <2> QED BY <1>2, <1>4, <2>1 DEF ConnDown
<1>5. ASSUME NEW c \in Chan, NEW r \in Rights, ConnUp(c, r) PROVE TreeStep(St, St') /\ WalkInv'
  <2> DEFINE s == alConnectEvent(St, c)
             t == IF r = "none" THEN ErrorEvent(s, c, "NO_READ_ACCESS")
                  ELSE IF r = "r" /\ NeedsWrite THEN ErrorEvent(s, c, "NO_WRITE_ACCESS")
                  ELSE s
  <2>1. InStep(St, s, c)
    BY <1>1, alConnectEventInStep
  <2>2. Become(t)
    BY <1>5 DEF ConnUp
  <2> HIDE DEF s
  <2> s \in State
    BY <2>1 DEF InStep, Moved, Frame
  <2>3. InStep(St, t, c)
    BY <1>1, <2>1, ErrorEventInStep, InStepComposes DEF ErrorStat
  <2> HIDE DEF t
  <2> QED BY <1>2, <1>5, <2>2, <2>3 DEF ConnUp
<1>6. ASSUME NEW c \in Chan, NEW r \in Rights, AccessRightsEvent(c, r)
      PROVE  TreeStep(St, St') /\ WalkInv'
  <2> DEFINE s == IF r = "none" THEN ErrorEvent(St, c, "NO_READ_ACCESS") ELSE St
             t == IF r # "rw" /\ NeedsWrite THEN ErrorEvent(s, c, "NO_WRITE_ACCESS") ELSE s
  <2>1. InStep(St, s, c)
    BY <1>1, ErrorEventInStep, InStepReflexive DEF ErrorStat
  <2>2. Become(t)
    BY <1>6 DEF AccessRightsEvent
  <2> HIDE DEF s
  <2> s \in State
    BY <2>1 DEF InStep, Moved, Frame
  <2>3. InStep(St, t, c)
    BY <1>1, <2>1, ErrorEventInStep, InStepComposes DEF ErrorStat
  <2> HIDE DEF t
  <2> QED BY <1>2, <1>6, <2>2, <2>3 DEF AccessRightsEvent
<1> QED BY <1>3, <1>4, <1>5, <1>6 DEF ChannelAccess

(* A step that leaves the tree alone.                                      *)
LEMMA StillSteps ==
  ASSUME IInv, WalkInv, UNCHANGED <<chan, group, psetup>>, CallSafe(St, running')
  PROVE  TreeStep(St, St') /\ WalkInv'
<1>1. St \in State
  BY DEF IInv, TypeOK
<1>2. TreeStep(St, St)
  BY <1>1 DEF TreeStep
<1>3. Become(St)
  BY DEF Become, St
<1> QED BY <1>2, <1>3, BecomeSteps

(* The mask callbacks on one channel.                                      *)
LEMMA MaskChanSteps ==
  ASSUME IInv, WalkInv, NEW c \in Chan, NEW mask \in SUBSET MaskBit, NEW u,
         MaskStep(St, u, c, mask), Combined(c, mask),
         mask \subseteq DefaultMask[c] \cup OperatorBits, OnChannel(silenceCurrentReset(u))
  PROVE  TreeStep(St, St') /\ WalkInv'
<1>1. St \in State
  BY DEF IInv, TypeOK
<1>2. u \in State
  BY DEF MaskStep, Frame
<1> PICK t : t = silenceCurrentReset(u)
  OBVIOUS
<1>3. MaskStep(u, t, c, mask)
  BY <1>2, SilenceResetInStep, InStepIsMaskStep
<1>4. MaskStep(St, t, c, mask)
  BY <1>1, <1>3, MaskStepComposes
<1>5. Allowed(c, St.chan[c].curMask \cup mask)
  BY CombinedAllowed DEF WalkInv, St
<1>6. TreeStep(St, t)
  BY <1>4, <1>5 DEF TreeStep
<1>7. CallSafe(t, running')
  BY CallSafeServing DEF OnChannel, Idle, GroupCall
<1>8. Become(t)
  BY DEF OnChannel
<1> QED BY <1>6, <1>7, <1>8, BecomeSteps

(* The start of a callback on a group.                                     *)
LEMMA StartCallSafe ==
  ASSUME NEW s, NEW r, r.top \in Group, r.rest = Walk[r.top],
         r.call = "ackGroup" => ~PassiveFlag,
         r.call \in GroupCall =>
           \A c \in ChannelsBelow(r.top) : Allowed(c, s.chan[c].curMask \cup Aim(r, c))
  PROVE  CallSafe(s, r)
<1>1. \A i \in DOMAIN Walk[r.top] : r.top \in Anc[Walk[r.top][i]]
  BY WalkAssumption
<1> QED BY <1>1 DEF CallSafe

(* The operator's callbacks on masks.                                      *)
LEMMA MaskCallbackSteps ==
  ASSUME IInv, WalkInv, MaskCallback
  PROVE  TreeStep(St, St') /\ WalkInv'
<1>1. St \in State /\ MasksWithin(St)
  BY DEF IInv, TypeOK, WalkInv
<1>2. \A c \in Chan : DefaultMask[c] \in SUBSET MaskBit
  BY NodeAssumption
<1>3. ASSUME NEW b \in OperatorBits
      PROVE  {b} \in SUBSET MaskBit /\ \A c \in Chan : {b} \subseteq DefaultMask[c] \cup OperatorBits
  BY OperatorAssumption DEF OperatorBits
<1>4. ASSUME NEW mask \in OperatorMasks
      PROVE  /\ mask \in SUBSET MaskBit
             /\ \A c \in Chan : mask \subseteq DefaultMask[c] \cup OperatorBits
  BY OperatorAssumption DEF OperatorBits
<1>5. ASSUME NEW b \in OperatorBits, NEW op, NEW c \in Chan, Combined(c, {b}), ForceChanMask(c, b, op)
      PROVE  TreeStep(St, St') /\ WalkInv'
  <2>1. MaskStep(St, alForceChanMask(St, c, b, op), c, {b})
    BY <1>1, alForceChanMaskSteps
  <2> QED BY <1>3, <1>5, <2>1, MaskChanSteps DEF ForceChanMask
<1>6. ASSUME NEW mask \in OperatorMasks, NEW c \in Chan, Combined(c, mask), ChangeChanMask(c, mask)
      PROVE  TreeStep(St, St') /\ WalkInv'
  <2>1. MaskStep(St, alChangeChanMask(St, c, mask), c, mask)
    BY <1>1, alChangeChanMaskSteps
  <2> QED BY <1>4, <1>6, <2>1, MaskChanSteps DEF ChangeChanMask
<1>7. ASSUME NEW c \in Chan, Combined(c, DefaultMask[c]), ResetChanMask(c)
      PROVE  TreeStep(St, St') /\ WalkInv'
  <2>1. MaskStep(St, alChangeChanMask(St, c, DefaultMask[c]), c, DefaultMask[c])
    BY <1>1, alChangeChanMaskSteps
  <2>2. DefaultMask[c] \subseteq DefaultMask[c] \cup OperatorBits
    OBVIOUS
  <2> QED BY <1>2, <1>7, <2>1, <2>2, MaskChanSteps DEF ResetChanMask
<1>8. ASSUME NEW g \in Group, NEW b \in OperatorBits, NEW op, CombinedBelow(g, {b}),
             ForceGroupMask(g, b, op)
      PROVE  TreeStep(St, St') /\ WalkInv'
  <2>1. /\ running'.call = "alForceGroupMask" /\ running'.top = g /\ running'.index = b
        /\ running'.rest = Walk[g]
    BY <1>8 DEF ForceGroupMask, NoCall
  <2>2. \A c \in ChannelsBelow(g) : Allowed(c, chan[c].curMask \cup {b})
    <3>1. ASSUME NEW c \in Chan, g \in Anc[c] PROVE Allowed(c, chan[c].curMask \cup {b})
      <4>1. Combined(c, {b})
        BY <1>8, <3>1 DEF CombinedBelow
      <4> QED BY <1>1, <1>3, <4>1, CombinedAllowed
    <3> QED BY <3>1 DEF ChannelsBelow
  <2>3. CallSafe(St, running')
    <3>1. \A c : Aim(running', c) = {b}
      BY <2>1 DEF Aim
    <3> QED BY <2>1, <2>2, <3>1, StartCallSafe DEF St
  <2> QED BY <1>8, <2>3, StillSteps DEF ForceGroupMask
<1>9. ASSUME NEW g \in Group, NEW mask \in OperatorMasks, CombinedBelow(g, mask),
             ChangeGroupMask(g, mask)
      PROVE  TreeStep(St, St') /\ WalkInv'
  <2>1. /\ running'.call = "alChangeGroupMask" /\ running'.top = g /\ running'.mask = mask
        /\ running'.rest = Walk[g]
    BY <1>9 DEF ChangeGroupMask, NoCall
  <2>2. \A c \in ChannelsBelow(g) : Allowed(c, chan[c].curMask \cup mask)
    <3>1. ASSUME NEW c \in Chan, g \in Anc[c] PROVE Allowed(c, chan[c].curMask \cup mask)
      <4>1. Combined(c, mask)
        BY <1>9, <3>1 DEF CombinedBelow
      <4> QED BY <1>1, <1>4, <4>1, CombinedAllowed
    <3> QED BY <3>1 DEF ChannelsBelow
  <2>3. CallSafe(St, running')
    <3>1. \A c : Aim(running', c) = mask
      BY <2>1 DEF Aim
    <3> QED BY <2>1, <2>2, <3>1, StartCallSafe DEF St
  <2> QED BY <1>9, <2>3, StillSteps DEF ChangeGroupMask
<1>10. ASSUME NEW g \in Group, CombinedReset(g), ResetGroupMask(g)
       PROVE  TreeStep(St, St') /\ WalkInv'
  <2>1. running'.call = "alResetGroupMask" /\ running'.top = g /\ running'.rest = Walk[g]
    BY <1>10 DEF ResetGroupMask, StartCall, NoCall
  <2>2. \A c \in ChannelsBelow(g) : Allowed(c, chan[c].curMask \cup DefaultMask[c])
    <3>1. ASSUME NEW c \in Chan, g \in Anc[c] PROVE Allowed(c, chan[c].curMask \cup DefaultMask[c])
      <4>1. Combined(c, DefaultMask[c])
        BY <1>10, <3>1 DEF CombinedReset
      <4>2. DefaultMask[c] \subseteq DefaultMask[c] \cup OperatorBits
        OBVIOUS
      <4> QED BY <1>1, <4>1, <4>2, CombinedAllowed
    <3> QED BY <3>1 DEF ChannelsBelow
  <2>3. CallSafe(St, running')
    <3>1. \A c : Aim(running', c) = DefaultMask[c]
      BY <2>1 DEF Aim
    <3> QED BY <2>1, <2>2, <3>1, StartCallSafe DEF St
  <2> QED BY <1>10, <2>3, StillSteps DEF ResetGroupMask, StartCall
<1> QED BY <1>5, <1>6, <1>7, <1>8, <1>9, <1>10 DEF MaskCallback

(* Acknowledgements and beep severities.                                   *)
LEMMA AckBeepSteps ==
  ASSUME IInv, WalkInv, AckCallback \/ BeepCallback
  PROVE  TreeStep(St, St') /\ WalkInv'
<1>1. St \in State
  BY DEF IInv, TypeOK
<1>2. ASSUME NEW t, TreeStep(St, t), OnChannel(t) PROVE TreeStep(St, St') /\ WalkInv'
  <2>1. CallSafe(t, running') /\ Become(t)
    BY <1>2, CallSafeServing DEF OnChannel, Idle, GroupCall
  <2> QED BY <1>2, <2>1, BecomeSteps
<1>3. ASSUME NEW c \in Chan, AckChan(c) PROVE TreeStep(St, St') /\ WalkInv'
  <2>1. InStep(St, ackChan(St, c), c)
    BY <1>1, <1>3, ackChanInStep DEF AckChan
  <2>2. TreeStep(St, ackChan(St, c))
    BY <2>1 DEF TreeStep
  <2> QED BY <1>2, <1>3, <2>2 DEF AckChan
<1>4. ASSUME NEW g \in Group, AckGroup(g) PROVE TreeStep(St, St') /\ WalkInv'
  <2>1. /\ running'.call = "ackGroup" /\ running'.top = g /\ running'.rest = Walk[g]
        /\ ~PassiveFlag
    BY <1>4 DEF AckGroup, StartCall, NoCall
  <2>2. CallSafe(St, running')
    BY <2>1, StartCallSafe DEF GroupCall
  <2> QED BY <1>4, <2>2, StillSteps DEF AckGroup, StartCall
<1>5. ASSUME "node" \in BeepMenu, NEW n \in Node, NEW sevr \in AlarmSevr, ChangeBeepSevr(n, sevr)
      PROVE  TreeStep(St, St') /\ WalkInv'
  <2>1. sevr \in Sevr
    BY SevrAssumption DEF AlarmSevr, Sevr
  <2> DEFINE t == IF n \in Chan THEN alSetBeepSevrChan(St, n, sevr)
                  ELSE alSetBeepSevrGroup(St, n, sevr)
  <2>2. BeepSevrSet(St, t, n, sevr)
    BY <1>1, <2>1, alSetBeepSevrChanSets, alSetBeepSevrGroupSets DEF Node
  <2>3. OnChannel(t)
    BY <1>5 DEF ChangeBeepSevr
  <2> HIDE DEF t
  <2>4. TreeStep(St, t)
    BY <1>5, <2>1, <2>2 DEF TreeStep
  <2> QED BY <1>2, <2>3, <2>4
<1>6. ASSUME NEW p \in Setup, OnChannel([St EXCEPT !.psetup = p]) PROVE TreeStep(St, St') /\ WalkInv'
  <2> PICK t : t = [St EXCEPT !.psetup = p]
    OBVIOUS
  <2>1. t \in State /\ t.chan = St.chan /\ t.group = St.group
    BY <1>1 DEF State
  <2>2. TreeStep(St, t)
    BY <2>1 DEF TreeStep
  <2> QED BY <1>2, <1>6, <2>2
<1>7. ASSUME NEW sevr \in 1 .. ALARM_NSEV - 1, SystemBeepSevr(sevr)
      PROVE  TreeStep(St, St') /\ WalkInv'
  <2> DEFINE p == [psetup EXCEPT !.beepSevr = sevr]
  <2>1. p \in Setup
    BY <1>1, SevrAssumption DEF St, State, Setup, Sevr
  <2>2. [St EXCEPT !.psetup = p] = [St EXCEPT !.psetup.beepSevr = sevr]
    BY DEF St
  <2> QED BY <1>6, <1>7, <2>1, <2>2 DEF SystemBeepSevr
<1>8. ASSUME ToggleSilenceCurrent PROVE TreeStep(St, St') /\ WalkInv'
  <2> DEFINE p == [psetup EXCEPT !.silenceCurrent = ~@]
  <2>1. p \in Setup
    BY <1>1 DEF St, State, Setup
  <2>2. [St EXCEPT !.psetup = p] = [St EXCEPT !.psetup.silenceCurrent = ~@]
    BY DEF St
  <2> QED BY <1>6, <1>8, <2>1, <2>2 DEF ToggleSilenceCurrent
<1> QED BY <1>3, <1>4, <1>5, <1>7, <1>8 DEF AckCallback, BeepCallback

(* A sequence without its first k elements.                                *)
Suffix(n, r, k) ==
  /\ \A i \in DOMAIN n : i + k \in DOMAIN r /\ n[i] = r[i + k]
  /\ \A j \in DOMAIN r : j > k => j - k \in DOMAIN n

(* SubSeq takes the first k elements away.                                 *)
LEMMA SuffixOf ==
  ASSUME NEW r \in Seq(Node), NEW k \in Nat \ {0}, NEW n,
         n = SubSeq(r, k + 1, Len(r))
  PROVE  Suffix(n, r, k)
<1> PICK m : m = k + 1
  OBVIOUS
<1>1. m \in Int /\ m >= 1 /\ Len(r) \in Nat /\ DOMAIN r = 1 .. Len(r)
  OBVIOUS
<1>2. \A i \in m .. Len(r) : r[i] \in Node
  BY <1>1
<1>3. n = SubSeq(r, m, Len(r))
  OBVIOUS
<1>4. /\ n \in Seq(Node)
      /\ Len(n) = IF m <= Len(r) THEN Len(r) - m + 1 ELSE 0
      /\ \A i \in 1 .. Len(r) - m + 1 : n[i] = r[m + i - 1]
  BY <1>1, <1>2, <1>3, SubSeqProperties
<1>5. DOMAIN n = 1 .. Len(n) /\ Len(n) \in Nat
  BY <1>4
<1> PICK a \in Nat : a = Len(r)
  BY <1>1
<1> PICK d \in Nat : d = Len(n)
  BY <1>5
<1>6. d = IF k + 1 <= a THEN a - k ELSE 0
  <2>1. d = IF m <= a THEN a - m + 1 ELSE 0
    BY <1>4
  <2> QED BY <2>1
<1>7. ASSUME NEW i \in DOMAIN n PROVE i + k \in DOMAIN r /\ n[i] = r[i + k]
  <2>1. i \in 1 .. d
    BY <1>5
  <2>2. i \in Int /\ i + k \in 1 .. a /\ i \in 1 .. a - m + 1 /\ m + i - 1 = i + k
    BY <1>6, <2>1
  <2>3. n[i] = r[m + i - 1]
    BY <1>4, <2>2
  <2> QED BY <1>1, <2>2, <2>3
<1>8. ASSUME NEW j \in DOMAIN r, j > k PROVE j - k \in DOMAIN n
  <2>1. j \in 1 .. a
    BY <1>1
  <2>2. j - k \in 1 .. d
    BY <1>6, <1>8, <2>1
  <2> QED BY <1>5, <2>2
<1> QED BY <1>7, <1>8 DEF Suffix

(* What the walk has still to visit: one node less, or a whole subgroup.   *)
LEMMA AdvanceRest ==
  ASSUME running \in Running, Advance, running.rest # <<>>,
         NEW k, k = IF Skips(Head(running.rest)) THEN Len(Walk[Head(running.rest)]) + 1 ELSE 1
  PROVE  /\ running'.call = running.call /\ running'.top = running.top
         /\ running'.mask = running.mask /\ running'.index = running.index
         /\ running'.op = running.op
         /\ k \in Nat \ {0}
         /\ \A i \in DOMAIN running'.rest :
              i + k \in DOMAIN running.rest /\ running'.rest[i] = running.rest[i + k]
         /\ \A j \in DOMAIN running.rest : j > k => j - k \in DOMAIN running'.rest
<1> PICK n : n = Head(running.rest)
  OBVIOUS
<1>1. running.rest \in Seq(Node)
  BY DEF Running
<1>2. running' = [running EXCEPT !.rest = IF Skips(n) THEN SubSeq(running.rest, Len(Walk[n]) + 2, Len(running.rest))
                                          ELSE Tail(running.rest)]
  BY DEF Advance
<1>3. /\ running'.rest = IF Skips(n) THEN SubSeq(running.rest, Len(Walk[n]) + 2, Len(running.rest))
                         ELSE Tail(running.rest)
      /\ running'.call = running.call /\ running'.top = running.top
      /\ running'.mask = running.mask /\ running'.index = running.index
      /\ running'.op = running.op
  BY <1>2 DEF Running
<1>4. k \in Nat \ {0} /\ (Skips(n) => k + 1 = Len(Walk[n]) + 2) /\ (~Skips(n) => k = 1)
  <2>1. CASE Skips(n)
    <3>1. Walk[n] \in Seq(Node)
      BY <2>1, TreeAssumption DEF Skips
    <3>2. Len(Walk[n]) \in Nat
      BY <3>1
    <3> QED BY <2>1, <3>2
  <2>2. CASE ~Skips(n)
    BY <2>2
  <2> QED BY <2>1, <2>2
<1>5. Tail(running.rest) = SubSeq(running.rest, 2, Len(running.rest))
  BY <1>1, TailIsSubSeq
<1>6. running'.rest = SubSeq(running.rest, k + 1, Len(running.rest))
  <2>1. CASE Skips(n)
    BY <1>3, <1>4, <2>1
  <2>2. CASE ~Skips(n)
    <3>1. k + 1 = 2
      BY <1>4, <2>2
    <3> QED BY <1>3, <1>5, <2>2, <3>1
  <2> QED BY <2>1, <2>2
<1>7. /\ \A i \in DOMAIN running'.rest :
           i + k \in DOMAIN running.rest /\ running'.rest[i] = running.rest[i + k]
      /\ \A j \in DOMAIN running.rest : j > k => j - k \in DOMAIN running'.rest
  <2> PICK r \in Seq(Node) : r = running.rest
    BY <1>1
  <2> PICK x : x = running'.rest
    OBVIOUS
  <2>1. x = SubSeq(r, k + 1, Len(r))
    BY <1>6
  <2>2. k \in Nat \ {0}
    BY <1>4
  <2>3. Suffix(x, r, k)
    BY <2>1, <2>2, SuffixOf, Zenon
  <2> QED BY <2>3 DEF Suffix
<1> QED BY <1>3, <1>4, <1>7

(* The walk stays below its group.                                         *)
LEMMA AdvanceSafe ==
  ASSUME running \in Running, Advance, NEW s, CallSafe(s, running)
  PROVE  CallSafe(s, running')
<1>1. CASE running.rest = <<>>
  BY <1>1, CallSafeServing DEF Advance, NoCall, GroupCall
<1>2. CASE running.rest # <<>>
  <2> PICK k : k = IF Skips(Head(running.rest)) THEN Len(Walk[Head(running.rest)]) + 1 ELSE 1
    OBVIOUS
  <2>1. /\ running'.call = running.call /\ running'.top = running.top
        /\ running'.mask = running.mask /\ running'.index = running.index
        /\ \A i \in DOMAIN running'.rest :
             i + k \in DOMAIN running.rest /\ running'.rest[i] = running.rest[i + k]
    BY <1>2, AdvanceRest
  <2>2. \A c : Aim(running', c) = Aim(running, c)
    BY <2>1 DEF Aim
  <2> QED BY <2>1, <2>2 DEF CallSafe
<1> QED BY <1>1, <1>2

(* A step of a callback on a group.                                        *)
LEMMA CallbackStepSteps ==
  ASSUME IInv, WalkInv, CallbackStep
  PROVE  TreeStep(St, St') /\ WalkInv'
<1>1. /\ St \in State /\ running \in Running /\ Advance /\ CallSafe(St, running)
      /\ running.call \in GroupCall \cup {"alSetNotConnected", "ackGroup"}
  BY DEF IInv, TypeOK, WalkInv, CallbackStep, Advance, Running, Call, Serving
<1>2. CallSafe(St, running')
  BY <1>1, AdvanceSafe
<1>3. ASSUME NEW c \in Chan, running.rest # <<>>, c = Head(running.rest), Become(Visit(St, c))
      PROVE  TreeStep(St, St') /\ WalkInv'
  <2>1. /\ running'.call = running.call /\ running'.top = running.top
        /\ \A e : Aim(running', e) = Aim(running, e)
    <3> PICK k : k = IF Skips(Head(running.rest)) THEN Len(Walk[Head(running.rest)]) + 1 ELSE 1
      OBVIOUS
    <3>1. /\ running'.call = running.call /\ running'.top = running.top
          /\ running'.mask = running.mask /\ running'.index = running.index
      BY <1>1, <1>3, AdvanceRest
    <3> QED BY <3>1 DEF Aim
  <2>2. CASE running.call \in GroupCall
    <3> PICK t : t = Visit(St, c)
      OBVIOUS
    <3> DEFINE mask == Aim(running, c)
    <3>1. MaskStep(St, t, c, mask)
      <4>1. /\ MaskStep(St, alForceChanMask(St, c, running.index, running.op), c, {running.index})
            /\ MaskStep(St, alChangeChanMask(St, c, running.mask), c, running.mask)
            /\ MaskStep(St, alChangeChanMask(St, c, DefaultMask[c]), c, DefaultMask[c])
        BY <1>1, alForceChanMaskSteps, alChangeChanMaskSteps
      <4> QED BY <2>2, <4>1 DEF Visit, Aim, GroupCall
    <3>2. mask \in SUBSET MaskBit
      BY <1>1, NodeAssumption DEF Aim, Running
    <3>3. c \in ChannelsBelow(running.top)
      <4>1. running.rest \in Seq(Node)
        BY <1>1 DEF Running
      <4>2. 1 \in DOMAIN running.rest /\ running.rest[1] = c
        BY <1>3, <4>1
      <4> QED BY <1>1, <2>2, <4>2 DEF CallSafe, ChannelsBelow
    <3>4. Allowed(c, St.chan[c].curMask \cup mask)
      BY <1>1, <2>2, <3>3 DEF CallSafe
    <3>5. TreeStep(St, t)
      BY <3>1, <3>2, <3>4 DEF TreeStep
    <3>6. CallSafe(t, running')
      <4>1. ASSUME NEW e \in ChannelsBelow(running.top)
            PROVE  Allowed(e, t.chan[e].curMask \cup Aim(running, e))
        <5>1. CASE e = c
          BY <3>1, <3>4, <5>1, MaskStepAllowed
        <5>2. CASE e # c
          <6>1. t.chan[e] = St.chan[e]
            BY <3>1, <5>2 DEF MaskStep, Frame, ChannelsBelow
          <6> QED BY <1>1, <2>2, <6>1 DEF CallSafe
        <5> QED BY <5>1, <5>2
      <4> QED BY <1>2, <2>1, <2>2, <4>1 DEF CallSafe
    <3> QED BY <1>3, <3>5, <3>6, BecomeSteps
  <2>3. CASE running.call \notin GroupCall
    <3> PICK t : t = Visit(St, c)
      OBVIOUS
    <3>1. InStep(St, t, c)
      <4>1. InStep(St, ErrorEvent(St, c, "NOT_CONNECTED"), c) /\ InStep(St, St, c)
        BY <1>1, ErrorEventInStep, InStepReflexive DEF ErrorStat
      <4>2. running.call = "ackGroup" => InStep(St, ackChan(St, c), c)
        BY <1>1, ackChanInStep DEF CallSafe
      <4> QED BY <1>1, <2>3, <4>1, <4>2 DEF Visit, GroupCall
    <3>2. TreeStep(St, t)
      BY <3>1 DEF TreeStep
    <3>3. CallSafe(t, running')
      BY <1>2, <2>1, <2>3 DEF CallSafe
    <3> QED BY <1>3, <3>2, <3>3, BecomeSteps
  <2> QED BY <2>2, <2>3
<1>4. ASSUME UNCHANGED <<chan, group, psetup>> PROVE TreeStep(St, St') /\ WalkInv'
  BY <1>2, <1>4, StillSteps
<1>5. ASSUME running.rest = <<>>,
             Become(IF running.call \in GroupCall THEN silenceCurrentReset(St) ELSE St)
      PROVE  TreeStep(St, St') /\ WalkInv'
  <2> PICK t : t = IF running.call \in GroupCall THEN silenceCurrentReset(St) ELSE St
    OBVIOUS
  <2>1. t \in State /\ t.chan = St.chan /\ t.group = St.group
    BY <1>1 DEF State, Setup, silenceCurrentReset
  <2>2. TreeStep(St, t)
    BY <2>1 DEF TreeStep
  <2>3. CallSafe(t, running')
    BY <1>1, <1>5, CallSafeServing DEF Advance, NoCall, GroupCall
  <2> QED BY <1>5, <2>2, <2>3, BecomeSteps
<1> QED BY <1>3, <1>4, <1>5 DEF CallbackStep

(* The end of the wait for connections.                                    *)
LEMMA EndPendSteps ==
  ASSUME IInv, WalkInv, EndPend
  PROVE  TreeStep(St, St') /\ WalkInv'
<1>1. running'.call \in {"none", "alSetNotConnected"}
  BY DEF EndPend, NoCall
<1>2. CallSafe(St, running')
  BY <1>1, CallSafeServing DEF GroupCall
<1> QED BY <1>2, StillSteps DEF EndPend

(* Every step of the program is a step of the tree.                        *)
LEMMA NextSteps ==
  ASSUME IInv, WalkInv, [Next]_vars
  PROVE  TreeStep(St, St') /\ WalkInv'
<1>1. CASE Next
  BY <1>1, ChannelAccessSteps, EndPendSteps, MaskCallbackSteps, AckBeepSteps,
     CallbackStepSteps DEF Next
<1>2. CASE UNCHANGED vars
  <2>1. CallSafe(St, running') /\ UNCHANGED <<chan, group, psetup>>
    BY <1>2 DEF vars, WalkInv
  <2> QED BY <2>1, StillSteps
<1> QED BY <1>1, <1>2

(* The program starts so.                                                  *)
LEMMA InitWalkInv == Init => WalkInv
<1> SUFFICES ASSUME Init PROVE WalkInv
  OBVIOUS
<1>1. running.call = "alCaPend"
  BY DEF Init, NoCall
<1>2. CallSafe(St, running)
  BY <1>1, CallSafeServing DEF GroupCall
<1>3. MasksWithin(St)
  BY DEF Init, InitChan, MasksWithin, Within, St
<1> QED BY <1>2, <1>3 DEF WalkInv

----------------------------------------------------------------------------
(* The invariants of the counters.                                         *)

\* the operator never combines Cancel with what is left of the default masks
NeverCancelled ==
  \A c \in Chan, L \in OperatorMasks : "Cancel" \notin (DefaultMask[c] \ OperatorBits) \cup L

\* what the operator combines is apart
MasksApart ==
  \A c \in Chan, L \in OperatorMasks : Apart((DefaultMask[c] \ OperatorBits) \cup L)

(* The counters of the unacknowledged severities, with what they rest on.  *)
UnackGood(s) ==
  /\ UnackExact(s) /\ TopsExact(s)
  /\ \A c \in Chan : Quiet(s, c)

(* Under these two assumptions, so are the masks a channel is given.       *)
LEMMA AllowedMasks ==
  ASSUME NEW c \in Chan, NEW M, Allowed(c, M)
  PROVE  /\ NeverCancelled => "Cancel" \notin M
         /\ MasksApart => Apart(M)
<1>1. PICK L \in OperatorMasks : M \cap Weighs \subseteq (DefaultMask[c] \ OperatorBits) \cup L
  BY DEF Allowed
<1>2. NeverCancelled => "Cancel" \notin M
  BY <1>1 DEF NeverCancelled, Weighs
<1>3. ASSUME MasksApart PROVE Apart(M)
  <2> PICK B : B = (DefaultMask[c] \ OperatorBits) \cup L
    OBVIOUS
  <2>1. Apart(B)
    BY <1>3 DEF MasksApart
  <2>2. M \cap Weighs \subseteq B
    BY <1>1
  <2> QED BY <2>1, <2>2, ApartSubset
<1> QED BY <1>2, <1>3

(* No step of the program loses count of the current severities.           *)
LEMMA TreeStepCur ==
  ASSUME NEW s \in State, NEW t, TreeStep(s, t), CurExact(s), NeverCancelled
  PROVE  CurExact(t)
<1>1. ASSUME NEW c \in Chan, InStep(s, t, c) PROVE CurExact(t)
  <2>1. Frame(s, t, c) /\ CurMoved(s, t, c, ShownOf(s, c), ShownOf(t, c))
    BY <1>1 DEF InStep, Moved
  <2> QED BY <2>1, CurExactMoves
<1>2. ASSUME NEW c \in Chan, NEW mask, MaskStep(s, t, c, mask),
             Allowed(c, s.chan[c].curMask \cup mask)
      PROVE  CurExact(t)
  <2>1. "Cancel" \notin s.chan[c].curMask \cup mask
    BY <1>2, AllowedMasks
  <2>2. Frame(s, t, c) /\ CurMoved(s, t, c, ShownOf(s, c), ShownOf(t, c))
    BY <1>2, <2>1 DEF MaskStep
  <2> QED BY <2>2, CurExactMoves
<1>3. ASSUME NEW n \in Node, NEW new, BeepSevrSet(s, t, n, new) PROVE CurExact(t)
  <2>1. \A c \in Chan : ShownOf(t, c) = ShownOf(s, c)
    BY <1>3 DEF BeepSevrSet, Steady, ShownOf
  <2>2. \A g \in Group : t.group[g].curSev = s.group[g].curSev
    BY <1>3 DEF BeepSevrSet, Steady
  <2> QED BY <2>1, <2>2 DEF CurExact, ChannelsBelow
<1>4. ASSUME t.chan = s.chan, t.group = s.group PROVE CurExact(t)
  BY <1>4 DEF CurExact, ShownOf
<1> QED BY <1>1, <1>2, <1>3, <1>4 DEF TreeStep

(* A channel that moves leaves the others as quiet as they were.           *)
LEMMA QuietMoves ==
  ASSUME NEW s, NEW t, NEW c \in Chan, Frame(s, t, c), Quiet(t, c),
         \A e \in Chan : Quiet(s, e)
  PROVE  \A e \in Chan : Quiet(t, e)
BY DEF Frame, Quiet

(* Nor of the unacknowledged ones.                                         *)
LEMMA TreeStepUnack ==
  ASSUME NEW s \in State, NEW t, TreeStep(s, t), UnackGood(s), MasksApart
  PROVE  UnackGood(t)
<1>1. ASSUME NEW c \in Chan, Frame(s, t, c), Quiet(t, c),
             UnackMoved(s, t, c, UnackOf(s, c), UnackOf(t, c))
      PROVE  UnackGood(t)
  <2>1. UnackExact(t)
    BY <1>1, UnackExactMoves DEF UnackGood
  <2>2. TopsExact(t)
    BY <1>1 DEF UnackGood, Frame
  <2>3. \A e \in Chan : Quiet(t, e)
    BY <1>1, QuietMoves DEF UnackGood
  <2> QED BY <2>1, <2>2, <2>3 DEF UnackGood
<1>2. ASSUME NEW c \in Chan, InStep(s, t, c) PROVE UnackGood(t)
  BY <1>1, <1>2 DEF InStep, Moved, UnackGood
<1>3. ASSUME NEW c \in Chan, NEW mask, MaskStep(s, t, c, mask),
             Allowed(c, s.chan[c].curMask \cup mask)
      PROVE  UnackGood(t)
  <2>1. Apart(s.chan[c].curMask \cup mask)
    BY <1>3, AllowedMasks
  <2> QED BY <1>1, <1>3, <2>1 DEF MaskStep, UnackGood
<1>4. ASSUME NEW n \in Node, NEW new, BeepSevrSet(s, t, n, new) PROVE UnackGood(t)
  <2>1. \A c \in Chan : UnackOf(t, c) = UnackOf(s, c) /\ (Quiet(s, c) => Quiet(t, c))
    BY <1>4 DEF BeepSevrSet, Steady, UnackOf, Quiet
  <2>2. \A g \in Group : t.group[g].unackSev = s.group[g].unackSev
    BY <1>4 DEF BeepSevrSet, Steady
  <2>3. UnackExact(t)
    BY <2>1, <2>2 DEF UnackGood, UnackExact, ChannelsBelow
  <2> QED BY <1>4, <2>1, <2>3 DEF UnackGood, BeepSevrSet
<1>5. ASSUME t.chan = s.chan, t.group = s.group PROVE UnackGood(t)
  <2>1. UnackExact(t)
    BY <1>5 DEF UnackGood, UnackExact, UnackOf
  <2>2. TopsExact(t)
    BY <1>5 DEF UnackGood, TopsExact
  <2>3. \A c \in Chan : Quiet(t, c)
    BY <1>5 DEF UnackGood, Quiet
  <2> QED BY <2>1, <2>2, <2>3 DEF UnackGood
<1> QED BY <1>2, <1>3, <1>4, <1>5 DEF TreeStep

(* Nor of what beeps, as long as no beep severity changes.                 *)
LEMMA TreeStepBeep ==
  ASSUME NEW s \in State, NEW t, TreeStep(s, t), UnackGood(s), BeepExact(s),
         MasksApart, "node" \notin BeepMenu
  PROVE  BeepExact(t)
<1>1. ASSUME NEW c \in Chan, InStep(s, t, c) PROVE BeepExact(t)
  BY <1>1, BeepExactMoves DEF InStep, Moved
<1>2. ASSUME NEW c \in Chan, NEW mask, MaskStep(s, t, c, mask),
             Allowed(c, s.chan[c].curMask \cup mask)
      PROVE  BeepExact(t)
  <2>1. Apart(s.chan[c].curMask \cup mask)
    BY <1>2, AllowedMasks
  <2>2. Frame(s, t, c) /\ UnackMoved(s, t, c, UnackOf(s, c), UnackOf(t, c))
    BY <1>2, <2>1 DEF MaskStep, UnackGood
  <2> QED BY <2>2, BeepExactMoves
<1>3. ASSUME t.chan = s.chan, t.group = s.group PROVE BeepExact(t)
  BY <1>3 DEF BeepExact, UnackOf, Heard, BeepFilter, BeepSevr
<1> QED BY <1>1, <1>2, <1>3 DEF TreeStep

(* Nor of the beep severities.                                             *)
LEMMA TreeStepBeepSev ==
  ASSUME NEW s \in State, NEW t, TreeStep(s, t), BeepSevExact(s)
  PROVE  BeepSevExact(t)
<1>1. ASSUME SameBeepSevr(s, t) PROVE BeepSevExact(t)
  <2>1. \A n \in Node : BeepSevr(t, n) = BeepSevr(s, n)
    BY <1>1 DEF SameBeepSevr, BeepSevr, Node
  <2>2. \A g \in Group : t.group[g].beepSev = s.group[g].beepSev
    BY <1>1 DEF SameBeepSevr
  <2> QED BY <2>1, <2>2 DEF BeepSevExact
<1>2. ASSUME NEW c \in Chan, InStep(s, t, c) PROVE BeepSevExact(t)
  BY <1>1, <1>2 DEF InStep, Moved, Frame
<1>3. ASSUME NEW c \in Chan, NEW mask, MaskStep(s, t, c, mask) PROVE BeepSevExact(t)
  BY <1>1, <1>3 DEF MaskStep, Frame
<1>4. ASSUME t.chan = s.chan, t.group = s.group PROVE BeepSevExact(t)
  BY <1>1, <1>4 DEF SameBeepSevr
<1> QED BY <1>2, <1>3, <1>4, BeepSevExactSet DEF TreeStep

----------------------------------------------------------------------------
(* The summaries of the severities are exact.                              *)

\* no configuration line sets a beep severity
NoBeepSevrLine == \A n \in Node : BEEPSEVR[n] = NO_ALARM

(* The highest severity of counters that count nothing.                    *)
LEMMA HighestOfNone ==
  ASSUME NEW low
  PROVE  HighestFrom([v \in AlarmSevr |-> 0], low) = NO_ALARM
<1>1. {v \in AlarmSevr : v >= low /\ [w \in AlarmSevr |-> 0][v] > 0} = {}
  OBVIOUS
<1> QED BY <1>1 DEF HighestFrom

(* Reading the configuration file leaves exact counters.                   *)
LEMMA InitCounts ==
  ASSUME Init
  PROVE  /\ CurExact(St) /\ UnackGood(St) /\ BeepExact(St)
         /\ NoBeepSevrLine => BeepSevExact(St)
<1> DEFINE zero == [v \in AlarmSevr |-> 0]
<1>1. /\ \A c \in Chan : /\ St.chan[c].curSevr = InitSevr(c) /\ St.chan[c].unackSevr = NO_ALARM
                         /\ St.chan[c].curMask = DefaultMask[c]
                         /\ St.chan[c].beepSevr = BEEPSEVR[c]
      /\ \A g \in Group :
           /\ St.group[g].curSev = [v \in Sevr |->
                Cardinality({c \in ChannelsBelow(g) : InitSevr(c) = v})]
           /\ St.group[g].unackSev = zero /\ St.group[g].unackSevr = NO_ALARM
           /\ St.group[g].unackBeepSev = zero /\ St.group[g].unackBeepSevr = NO_ALARM
           /\ St.group[g].beepSev = zero /\ St.group[g].beepSevr = BEEPSEVR[g]
  BY DEF Init, InitChan, InitGroup, St, ChannelsBelow
<1> HIDE DEF zero
<1>2. \A v \in AlarmSevr : zero[v] = 0 /\ v # NO_ALARM
  BY SevrAssumption DEF zero, AlarmSevr, NO_ALARM
<1>3. \A g \in Group : ChannelsBelow(g) \subseteq Chan
  BY DEF ChannelsBelow
<1>4. CurExact(St)
  <2>1. \A c \in Chan : ShownOf(St, c) = InitSevr(c)
    BY <1>1 DEF ShownOf, InitSevr
  <2>2. \A g \in Group, v \in Sevr : {c \in ChannelsBelow(g) : InitSevr(c) = v}
                                     = {c \in ChannelsBelow(g) : ShownOf(St, c) = v}
    BY <1>3, <2>1
  <2>3. \A g \in Group, v \in Sevr :
          St.group[g].curSev[v] = Cardinality({c \in ChannelsBelow(g) : InitSevr(c) = v})
    BY <1>1
  <2>4. ASSUME NEW g \in Group, NEW v \in Sevr
        PROVE  St.group[g].curSev[v] = Cardinality({c \in ChannelsBelow(g) : ShownOf(St, c) = v})
    BY <2>2, <2>3, Zenon
  <2> QED BY <2>4, Zenon DEF CurExact
<1>5. \A c \in Chan : UnackOf(St, c) = NO_ALARM
  BY <1>1 DEF UnackOf
<1>6. UnackExact(St)
  <2>1. \A g \in Group, v \in AlarmSevr : {c \in ChannelsBelow(g) : UnackOf(St, c) = v} = {}
    BY <1>2, <1>3, <1>5
  <2> QED BY <1>1, <1>2, <2>1, FS_EmptySet DEF UnackExact
<1>7. BeepExact(St)
  <2>1. \A g \in Group, c \in Chan : Heard(St, c, g, NO_ALARM) = NO_ALARM
    BY DEF Heard, BeepFilter
  <2>2. \A g \in Group, v \in AlarmSevr :
          {c \in ChannelsBelow(g) : Heard(St, c, g, UnackOf(St, c)) = v} = {}
    BY <1>2, <1>3, <1>5, <2>1
  <2> QED BY <1>1, <1>2, <2>2, FS_EmptySet DEF BeepExact
<1>8. TopsExact(St)
  <2>1. \A low : HighestFrom(zero, low) = NO_ALARM
    BY HighestOfNone DEF zero
  <2> QED BY <1>1, <2>1 DEF TopsExact, alHighestSeverity, alHighestBeepSeverity
<1>9. \A c \in Chan : Quiet(St, c)
  BY <1>1 DEF Quiet
<1>10. ASSUME NoBeepSevrLine PROVE BeepSevExact(St)
  <2>1. \A n \in Node : BeepSevr(St, n) = NO_ALARM
    BY <1>1, <1>10 DEF NoBeepSevrLine, BeepSevr, Node
  <2>2. \A g \in Group, v \in AlarmSevr :
          {n \in Node : (n = g \/ g \in Anc[n]) /\ BeepSevr(St, n) = v} = {}
    BY <1>2, <2>1
  <2> QED BY <1>1, <1>2, <2>2, FS_EmptySet DEF BeepSevExact
<1> QED BY <1>4, <1>6, <1>7, <1>8, <1>9, <1>10 DEF UnackGood

(* What the program keeps, whatever the masks.                             *)
TreeInv == IInv /\ WalkInv

(* TreeInv is inductive, and every step is a step of the tree.             *)
LEMMA TreeInvSteps ==
  /\ Init => TreeInv
  /\ TreeInv /\ [Next]_vars => TreeInv' /\ TreeStep(St, St') /\ St \in State
<1>1. Init => TreeInv
  BY InitIInv, InitWalkInv DEF TreeInv
<1>2. ASSUME TreeInv, [Next]_vars PROVE TreeInv' /\ TreeStep(St, St') /\ St \in State
  BY <1>2, StepIInv, NextSteps DEF TreeInv, IInv, TypeOK
<1> QED BY <1>1, <1>2

CurInv == TreeInv /\ CurExact(St)
UnackInv == TreeInv /\ UnackGood(St)
BeepInv == UnackInv /\ BeepExact(St)
BeepSevInv == TreeInv /\ BeepSevExact(St)

(* CurInv is inductive.                                                    *)
LEMMA CurInvInductive ==
  ASSUME NeverCancelled
  PROVE  (Init => CurInv) /\ (CurInv /\ [Next]_vars => CurInv')
<1>1. Init => CurInv
  BY TreeInvSteps, InitCounts DEF CurInv
<1>2. ASSUME CurInv, [Next]_vars PROVE CurInv'
  <2>1. TreeInv' /\ TreeStep(St, St') /\ St \in State
    BY <1>2, TreeInvSteps DEF CurInv
  <2>2. CurExact(St')
    BY <1>2, <2>1, TreeStepCur DEF CurInv
  <2> QED BY <2>1, <2>2 DEF CurInv
<1> QED BY <1>1, <1>2

(* UnackInv is inductive.                                                  *)
LEMMA UnackInvInductive ==
  ASSUME MasksApart
  PROVE  (Init => UnackInv) /\ (UnackInv /\ [Next]_vars => UnackInv')
<1>1. Init => UnackInv
  BY TreeInvSteps, InitCounts DEF UnackInv
<1>2. ASSUME UnackInv, [Next]_vars PROVE UnackInv'
  <2>1. TreeInv' /\ TreeStep(St, St') /\ St \in State
    BY <1>2, TreeInvSteps DEF UnackInv
  <2>2. UnackGood(St')
    BY <1>2, <2>1, TreeStepUnack DEF UnackInv
  <2> QED BY <2>1, <2>2 DEF UnackInv
<1> QED BY <1>1, <1>2

(* BeepInv is inductive.                                                   *)
LEMMA BeepInvInductive ==
  ASSUME MasksApart, "node" \notin BeepMenu
  PROVE  (Init => BeepInv) /\ (BeepInv /\ [Next]_vars => BeepInv')
<1>1. Init => BeepInv
  BY UnackInvInductive, InitCounts DEF BeepInv
<1>2. ASSUME BeepInv, [Next]_vars PROVE BeepInv'
  <2>1. UnackInv' /\ UnackGood(St)
    BY <1>2, UnackInvInductive DEF BeepInv, UnackInv
  <2>2. TreeStep(St, St') /\ St \in State
    BY <1>2, TreeInvSteps DEF BeepInv, UnackInv
  <2>3. BeepExact(St')
    BY <1>2, <2>1, <2>2, TreeStepBeep DEF BeepInv
  <2> QED BY <2>1, <2>3 DEF BeepInv
<1> QED BY <1>1, <1>2

(* BeepSevInv is inductive.                                                *)
LEMMA BeepSevInvInductive ==
  ASSUME NoBeepSevrLine
  PROVE  (Init => BeepSevInv) /\ (BeepSevInv /\ [Next]_vars => BeepSevInv')
<1>1. Init => BeepSevInv
  BY TreeInvSteps, InitCounts DEF BeepSevInv
<1>2. ASSUME BeepSevInv, [Next]_vars PROVE BeepSevInv'
  <2>1. TreeInv' /\ TreeStep(St, St') /\ St \in State
    BY <1>2, TreeInvSteps DEF BeepSevInv
  <2>2. BeepSevExact(St')
    BY <1>2, <2>1, TreeStepBeepSev DEF BeepSevInv
  <2> QED BY <2>1, <2>2 DEF BeepSevInv
<1> QED BY <1>1, <1>2

(* UnackGood says more than UnackCountsExact.                              *)
LEMMA UnackGoodCounts == UnackInv => UnackCountsExact
<1> SUFFICES ASSUME UnackInv PROVE UnackCountsExact
  OBVIOUS
<1>1. St \in State /\ UnackExact(St) /\ TopsExact(St)
  BY DEF UnackInv, TreeInv, IInv, TypeOK, UnackGood
<1>2. \A c \in Chan : Unack(c) = UnackOf(St, c)
  BY DEF Unack, UnackOf, St
<1> SUFFICES ASSUME NEW g \in Group
             PROVE  /\ \A v \in AlarmSevr :
                         group[g].unackSev[v] = Cardinality({c \in ChannelsBelow(g) : Unack(c) = v})
                    /\ \A c \in ChannelsBelow(g) : Unack(c) <= group[g].unackSevr
                    /\ group[g].unackSevr \in {NO_ALARM} \cup {Unack(c) : c \in ChannelsBelow(g)}
  BY DEF UnackCountsExact
<1>3. \A c \in ChannelsBelow(g) : c \in Chan
  BY DEF ChannelsBelow
<1>4. \A v \in AlarmSevr : {c \in ChannelsBelow(g) : Unack(c) = v}
                           = {c \in ChannelsBelow(g) : UnackOf(St, c) = v}
  BY <1>2, <1>3
<1>5. \A v \in AlarmSevr :
        group[g].unackSev[v] = Cardinality({c \in ChannelsBelow(g) : UnackOf(St, c) = v})
  BY <1>1 DEF UnackExact, St
<1>6. /\ \A c \in ChannelsBelow(g) : UnackOf(St, c) <= group[g].unackSevr
      /\ group[g].unackSevr \in {NO_ALARM} \cup {UnackOf(St, c) : c \in ChannelsBelow(g)}
  BY <1>1, UnackTop DEF St
<1>7. {Unack(c) : c \in ChannelsBelow(g)} = {UnackOf(St, c) : c \in ChannelsBelow(g)}
  BY <1>2, <1>3
<1> QED BY <1>2, <1>3, <1>4, <1>5, <1>6, <1>7

(* BeepExact and TopsExact say what BeepCountsExact says.                  *)
LEMMA BeepGoodCounts == BeepInv => BeepCountsExact
<1> SUFFICES ASSUME BeepInv PROVE BeepCountsExact
  OBVIOUS
<1>1. St \in State /\ BeepExact(St) /\ TopsExact(St)
  BY DEF BeepInv, UnackInv, TreeInv, IInv, TypeOK, UnackGood
<1> SUFFICES ASSUME NEW g \in Group, NEW B,
                    B = {c \in ChannelsBelow(g) : BeepSeen(c, g) >= group[g].beepSevr}
             PROVE  /\ \A v \in AlarmSevr :
                         group[g].unackBeepSev[v]
                         = Cardinality({c \in ChannelsBelow(g) : BeepSeen(c, g) = v})
                    /\ \A c \in B : BeepSeen(c, g) <= group[g].unackBeepSevr
                    /\ group[g].unackBeepSevr \in {NO_ALARM} \cup {BeepSeen(c, g) : c \in B}
  BY DEF BeepCountsExact
<1>2. \A c \in ChannelsBelow(g) : BeepSeen(c, g) = Heard(St, c, g, UnackOf(St, c))
  <2> SUFFICES ASSUME NEW c \in ChannelsBelow(g)
               PROVE  BeepSeen(c, g) = Heard(St, c, g, UnackOf(St, c))
    OBVIOUS
  <2>1. Unack(c) = UnackOf(St, c) /\ c \in Chan
    BY DEF Unack, UnackOf, St, ChannelsBelow
  <2>2. UnackOf(St, c) \in Int
    BY <1>1, <2>1, SevrAssumption DEF UnackOf, State, ChanData, Sevr, NO_ALARM
  <2>3. \A n \in {c} \cup Below(c, g) : BeepSevr(St, n) \in Int
    <3>1. Below(c, g) \subseteq Group
      BY <2>1, TreeAssumption DEF Below, Node
    <3>2. \A n \in Chan : St.chan[n].beepSevr \in Sevr
      BY <1>1 DEF State, ChanData
    <3>3. \A n \in Group : St.group[n].beepSevr \in Sevr
      BY <1>1 DEF State, GroupData
    <3>4. \A n \in {c} \cup Below(c, g) : BeepSevr(St, n) \in Sevr
      BY <2>1, <3>1, <3>2, <3>3 DEF BeepSevr
    <3> QED BY <3>4, SevrAssumption DEF Sevr
  <2>4. \A n \in {c} \cup Below(c, g) :
          BeepSevr(St, n) <= UnackOf(St, c) <=> UnackOf(St, c) >= BeepSevr(St, n)
    BY <2>2, <2>3
  <2> QED BY <2>1, <2>4 DEF BeepSeen, Heard, BeepFilter
<1>3. \A v \in AlarmSevr : {c \in ChannelsBelow(g) : BeepSeen(c, g) = v}
                           = {c \in ChannelsBelow(g) : Heard(St, c, g, UnackOf(St, c)) = v}
  BY <1>2
<1>4. \A v \in AlarmSevr : group[g].unackBeepSev[v]
        = Cardinality({c \in ChannelsBelow(g) : Heard(St, c, g, UnackOf(St, c)) = v})
  BY <1>1 DEF BeepExact, St
<1>5. /\ \A c \in ChannelsBelow(g) :
           BeepSeen(c, g) >= group[g].beepSevr => BeepSeen(c, g) <= group[g].unackBeepSevr
      /\ \/ group[g].unackBeepSevr = NO_ALARM
         \/ \E c \in ChannelsBelow(g) :
              group[g].unackBeepSevr = BeepSeen(c, g) /\ BeepSeen(c, g) >= group[g].beepSevr
  BY <1>1, <1>2, BeepTopExact DEF St
<1> QED BY <1>3, <1>4, <1>5

(* In every tree, configuration and mode, if the operator never cancels a  *)
(* channel: the severity summary of a group counts every channel below it, *)
(* once, with the severity it shows.                                       *)
THEOREM CurCounted ==
  ASSUME NeverCancelled
  PROVE  Spec => []CurCountsExact
<1>1. CurInv => CurCountsExact
  <2> SUFFICES ASSUME CurInv, NEW g \in Group, NEW v \in Sevr
               PROVE  group[g].curSev[v] = Cardinality({c \in ChannelsBelow(g) : Shown(c) = v})
    BY DEF CurCountsExact
  <2>1. \A c \in Chan : Shown(c) = ShownOf(St, c)
    BY DEF Shown, ShownOf, St
  <2>2. {c \in ChannelsBelow(g) : Shown(c) = v} = {c \in ChannelsBelow(g) : ShownOf(St, c) = v}
    BY <2>1 DEF ChannelsBelow
  <2>3. group[g].curSev[v] = Cardinality({c \in ChannelsBelow(g) : ShownOf(St, c) = v})
    BY DEF CurInv, CurExact, St
  <2> QED BY <2>2, <2>3
<1>2. (Init => CurInv) /\ (CurInv /\ [Next]_vars => CurInv')
  BY CurInvInductive
<1> QED BY <1>1, <1>2, PTL DEF Spec

(* In every tree, configuration and mode, if masks are combined as the     *)
(* code can count them: no unacknowledged alarm is forgotten or counted    *)
(* twice by a group, and the severity of its acknowledge button is that of *)
(* the worst channel below.                                                *)
THEOREM UnackCounted ==
  ASSUME MasksApart
  PROVE  Spec => []UnackCountsExact
<1>1. (Init => UnackInv) /\ (UnackInv /\ [Next]_vars => UnackInv')
  BY UnackInvInductive
<1> QED BY <1>1, UnackGoodCounts, PTL DEF Spec

(* Both summaries at once.                                                 *)
THEOREM SeveritiesCounted ==
  ASSUME NeverCancelled, MasksApart
  PROVE  Spec => []SeverityCountsExact
<1>1. CurCountsExact /\ UnackCountsExact => SeverityCountsExact
  BY DEF SeverityCountsExact
<1>2. (Spec => []CurCountsExact) /\ (Spec => []UnackCountsExact)
  BY CurCounted, UnackCounted
<1> QED BY <1>1, <1>2, PTL

(* In every tree, with any beep severities in the configuration file: what *)
(* a group beeps for is the worst alarm below it that reaches the beep     *)
(* severities on its way, as long as the operator changes none of them.    *)
THEOREM BeepCounted ==
  ASSUME MasksApart, "node" \notin BeepMenu
  PROVE  Spec => []BeepCountsExact
<1>1. (Init => BeepInv) /\ (BeepInv /\ [Next]_vars => BeepInv')
  BY BeepInvInductive
<1> QED BY <1>1, BeepGoodCounts, PTL DEF Spec

(* In every tree and for every sequence of changes of beep severities, a   *)
(* group counts the beep severities in its subtree, if the configuration   *)
(* file sets none.                                                         *)
THEOREM BeepSevCounted ==
  ASSUME NoBeepSevrLine
  PROVE  Spec => []BeepSevCountsExact
<1>1. BeepSevInv => BeepSevCountsExact
  BY DEF BeepSevInv, BeepSevExact, BeepSevCountsExact, St
<1>2. (Init => BeepSevInv) /\ (BeepSevInv /\ [Next]_vars => BeepSevInv')
  BY BeepSevInvInductive
<1> QED BY <1>1, <1>2, PTL DEF Spec

----------------------------------------------------------------------------
(* The acknowledgement of a group.                                         *)

(* In local mode, a channel below the group is acknowledged or still to be *)
(* visited; what is still to be visited is the end of the walk.            *)
AckPending ==
  running.call = "ackGroup" /\ ~GlobalFlag =>
    /\ \E k \in Nat : \A i \in DOMAIN running.rest :
         /\ i + k \in DOMAIN Walk[running.top]
         /\ running.rest[i] = Walk[running.top][i + k]
    /\ \A c \in ChannelsBelow(running.top) :
         \/ chan[c].unackSevr = NO_ALARM
         \/ \E j \in DOMAIN running.rest : running.rest[j] = c

(* In local mode a channel without an unacknowledged severity to count has *)
(* none.                                                                   *)
LEMMA LocalUnack ==
  ASSUME NEW s, NEW c, ~GlobalFlag
  PROVE  UnackOf(s, c) = s.chan[c].unackSevr
BY DEF UnackOf

(* ackGroup may skip a subgroup whose own severity is clear: so are the    *)
(* channels below.                                                         *)
LEMMA SkippedIsClear ==
  ASSUME UnackInv, ~GlobalFlag, NEW g \in Group, Skips(g), NEW c \in ChannelsBelow(g)
  PROVE  chan[c].unackSevr = NO_ALARM
<1>1. St \in State /\ UnackExact(St) /\ TopsExact(St)
  BY DEF UnackInv, TreeInv, IInv, TypeOK, UnackGood
<1>2. UnackOf(St, c) <= St.group[g].unackSevr
  BY <1>1, UnackTop
<1>3. UnackOf(St, c) = chan[c].unackSevr /\ St.group[g].unackSevr = NO_ALARM
  BY LocalUnack DEF Skips, St
<1>4. chan[c].unackSevr \in Nat
  BY <1>1, SevrAssumption DEF ChannelsBelow, St, State, ChanData, Sevr
<1> QED BY <1>2, <1>3, <1>4 DEF NO_ALARM

(* What a step of ackGroup does to the channels: it acknowledges the one   *)
(* it has reached.                                                         *)
LEMMA AckVisit ==
  ASSUME IInv, CallbackStep, running.call = "ackGroup", ~GlobalFlag,
         running.rest # <<>>, NEW c \in Chan
  PROVE  /\ c = Head(running.rest) => chan'[c].unackSevr = NO_ALARM
         /\ c # Head(running.rest) => chan'[c].unackSevr = chan[c].unackSevr
<1>1. St \in State /\ running.rest \in Seq(Node)
  BY DEF IInv, TypeOK, Running
<1>2. CASE Head(running.rest) \in Group
  <2>1. Head(running.rest) \notin Chan
    BY <1>2, NodeAssumption
  <2>2. UNCHANGED chan
    BY <2>1 DEF CallbackStep
  <2> QED BY <2>1, <2>2
<1>3. CASE Head(running.rest) \in Chan
  <2> PICK h \in Chan : h = Head(running.rest)
    BY <1>3
  <2> PICK t : t = alSetUnackSevChan(St, h, NO_ALARM)
    OBVIOUS
  <2>1. Visit(St, h) = t
    BY FlagAssumption DEF Visit, ackChan
  <2>2. h \notin Group
    BY NodeAssumption
  <2>3. chan' = t.chan
    BY <2>1, <2>2 DEF CallbackStep, Become
  <2>4. Moved(St, t, h, NO_ALARM, NO_ALARM, St.chan[h].unackSevr, NO_ALARM)
        /\ Has(t, h, St.chan[h].curMask, St.chan[h].curSevr, NO_ALARM)
    BY <1>1, SevrBounds, alSetUnackSevChanEffect
  <2>5. t.chan[h].unackSevr = NO_ALARM /\ \A e \in Chan \ {h} : t.chan[e] = St.chan[e]
    BY <2>4 DEF Has, Moved, Frame
  <2> QED BY <2>3, <2>5 DEF St
<1>4. Head(running.rest) \in Node
  BY <1>1
<1> QED BY <1>2, <1>3, <1>4 DEF Node

(* A step of the walk keeps AckPending.                                    *)
LEMMA AckWalkSteps ==
  ASSUME UnackInv, AckPending, CallbackStep, running.call = "ackGroup", ~GlobalFlag,
         running.rest # <<>>
  PROVE  AckPending'
<1>1. IInv /\ running \in Running /\ running.rest \in Seq(Node) /\ Advance
      /\ running.top \in Group
  BY DEF UnackInv, TreeInv, IInv, TypeOK, Running, CallbackStep
<1> PICK n : n = Head(running.rest)
  OBVIOUS
<1> PICK k : k = IF Skips(Head(running.rest)) THEN Len(Walk[Head(running.rest)]) + 1 ELSE 1
  OBVIOUS
<1>2. /\ running'.call = running.call /\ running'.top = running.top
      /\ k \in Nat \ {0}
      /\ \A i \in DOMAIN running'.rest :
           i + k \in DOMAIN running.rest /\ running'.rest[i] = running.rest[i + k]
      /\ \A j \in DOMAIN running.rest : j > k => j - k \in DOMAIN running'.rest
  BY <1>1, AdvanceRest
<1>3. PICK m \in Nat : \A i \in DOMAIN running.rest :
         /\ i + m \in DOMAIN Walk[running.top]
         /\ running.rest[i] = Walk[running.top][i + m]
  BY DEF AckPending
<1>4. /\ DOMAIN running.rest \subseteq Nat \ {0} /\ 1 \in DOMAIN running.rest /\ running.rest[1] = n
      /\ n \in Node
  BY <1>1
<1>5. \E l \in Nat : \A i \in DOMAIN running'.rest :
         /\ i + l \in DOMAIN Walk[running.top]
         /\ running'.rest[i] = Walk[running.top][i + l]
  <2>1. DOMAIN running'.rest \subseteq Int
    <3>1. running' \in Running
      BY <1>1, AdvanceType
    <3>2. running'.rest \in Seq(Node)
      BY <3>1 DEF Running
    <3> QED BY <3>2
  <2>2. k + m \in Nat /\ \A i \in Int : (i + k) + m = i + (k + m)
    BY <1>2
  <2>3. \A i \in DOMAIN running'.rest :
          /\ i + (k + m) \in DOMAIN Walk[running.top]
          /\ running'.rest[i] = Walk[running.top][i + (k + m)]
    BY <1>2, <1>3, <2>1, <2>2
  <2> QED BY <2>2, <2>3
<1>6. ASSUME NEW c \in ChannelsBelow(running.top), chan'[c].unackSevr # NO_ALARM
      PROVE  \E j \in DOMAIN running'.rest : running'.rest[j] = c
  <2>1. c \in Chan
    BY DEF ChannelsBelow
  <2>2. c # n /\ chan[c].unackSevr # NO_ALARM
    BY <1>1, <1>6, <2>1, AckVisit
  <2>3. PICK j \in DOMAIN running.rest : running.rest[j] = c
    BY <2>2 DEF AckPending
  <2>4. j # 1 /\ j \in Nat
    BY <1>4, <2>2, <2>3
  <2>5. j > k
    <3>1. CASE ~Skips(n)
      BY <1>4, <2>4, <3>1
    <3>2. CASE Skips(n)
      <4>1. n \in Group /\ Walk[n] \in Seq(Node) /\ k = Len(Walk[n]) + 1
        BY <3>2, TreeAssumption DEF Skips
      <4>2. SUFFICES ASSUME j <= k PROVE FALSE
        BY <1>2, <2>4
      <4>3. j - 1 \in DOMAIN Walk[n]
        BY <1>4, <2>4, <4>1, <4>2
      <4>4. 1 + m \in DOMAIN Walk[running.top] /\ Walk[running.top][1 + m] = n
        BY <1>3, <1>4
      <4>5. Walk[running.top][(1 + m) + (j - 1)] = Walk[n][j - 1]
        BY <1>1, <4>1, <4>3, <4>4, WalkAssumption
      <4>6. (1 + m) + (j - 1) = j + m
        BY <2>4
      <4>7. Walk[n][j - 1] = c
        BY <1>3, <2>3, <4>5, <4>6
      <4>8. n \in Anc[c]
        BY <4>1, <4>3, <4>7, WalkAssumption
      <4>9. c \in ChannelsBelow(n)
        BY <2>1, <4>8 DEF ChannelsBelow
      <4> QED BY <2>2, <3>2, <4>1, <4>9, SkippedIsClear
    <3> QED BY <3>1, <3>2
  <2>6. j - k \in DOMAIN running'.rest /\ (j - k) + k = j
    BY <1>2, <2>4, <2>5
  <2>7. running'.rest[j - k] = c
    BY <1>2, <2>3, <2>6
  <2> QED BY <2>6, <2>7
<1> QED BY <1>2, <1>5, <1>6 DEF AckPending

AckInv == UnackInv /\ AckPending

(* AckInv is inductive.                                                    *)
LEMMA AckInvInductive ==
  ASSUME MasksApart
  PROVE  (Init => AckInv) /\ (AckInv /\ [Next]_vars => AckInv')
<1>1. Init => AckInv
  <2>1. Init => AckPending
    BY DEF Init, NoCall, AckPending
  <2> QED BY <2>1, UnackInvInductive DEF AckInv
<1>2. ASSUME AckInv, [Next]_vars PROVE AckInv'
  <2>1. UnackInv' /\ UnackInv /\ AckPending
    BY <1>2, UnackInvInductive DEF AckInv
  <2> SUFFICES AckPending'
    BY <2>1 DEF AckInv
  <2>2. ASSUME running'.call # "ackGroup" PROVE AckPending'
    BY <2>2 DEF AckPending
  <2>3. CASE ChannelAccess \/ EndPend
    <3>1. CASE ChannelAccess
      <4>1. Serving /\ UNCHANGED running
        BY <3>1 DEF ChannelAccess, CaAlarmEvent, AlarmEventOf, ConnUp, ConnDown, AccessRightsEvent
      <4> QED BY <2>2, <4>1 DEF Serving
    <3>2. CASE EndPend
      <4>1. running'.call # "ackGroup"
        BY <3>2 DEF EndPend, NoCall
      <4> QED BY <2>2, <4>1
    <3> QED BY <2>3, <3>1, <3>2
  <2>4. CASE MaskCallback
    <3>1. running'.call # "ackGroup"
      BY <2>4 DEF MaskCallback, ForceChanMask, ChangeChanMask, ResetChanMask, OnChannel, Idle,
                  ForceGroupMask, ChangeGroupMask, ResetGroupMask, StartCall, NoCall
    <3> QED BY <2>2, <3>1
  <2>5. CASE BeepCallback
    <3>1. running'.call # "ackGroup"
      BY <2>5 DEF BeepCallback, ChangeBeepSevr, SystemBeepSevr, ToggleSilenceCurrent, OnChannel, Idle
    <3> QED BY <2>2, <3>1
  <2>6. CASE AckCallback
    <3>1. ASSUME NEW c \in Chan, AckChan(c) PROVE AckPending'
      BY <2>2, <3>1 DEF AckChan, OnChannel, Idle
    <3>2. ASSUME NEW g \in Group, AckGroup(g) PROVE AckPending'
      <4>1. running'.call = "ackGroup" /\ running'.top = g /\ running'.rest = Walk[g]
        BY <3>2 DEF AckGroup, StartCall, NoCall
      <4>2. Walk[g] \in Seq(Node)
        BY TreeAssumption
      <4>3. \A i \in DOMAIN Walk[g] : i + 0 \in DOMAIN Walk[g] /\ Walk[g][i] = Walk[g][i + 0]
        BY <4>2
      <4>4. \A c \in ChannelsBelow(g) : \E j \in DOMAIN Walk[g] : Walk[g][j] = c
        BY WalkAssumption DEF ChannelsBelow
      <4> QED BY <4>1, <4>3, <4>4 DEF AckPending
    <3> QED BY <2>6, <3>1, <3>2 DEF AckCallback
  <2>7. CASE CallbackStep
    <3>1. CASE running.rest = <<>>
      <4>1. running'.call # "ackGroup"
        BY <2>7, <3>1 DEF CallbackStep, Advance, NoCall
      <4> QED BY <2>2, <4>1
    <3>2. CASE running.rest # <<>>
      <4>1. running \in Running
        BY <2>1 DEF UnackInv, TreeInv, IInv, TypeOK
      <4>2. running'.call = running.call
        <5> PICK k : k = IF Skips(Head(running.rest)) THEN Len(Walk[Head(running.rest)]) + 1 ELSE 1
          OBVIOUS
        <5> QED BY <2>7, <3>2, <4>1, AdvanceRest DEF CallbackStep
      <4>3. CASE running.call = "ackGroup" /\ ~GlobalFlag
        BY <2>1, <2>7, <3>2, <4>3, AckWalkSteps
      <4>4. CASE ~(running.call = "ackGroup" /\ ~GlobalFlag)
        BY <4>2, <4>4 DEF AckPending
      <4> QED BY <4>3, <4>4
    <3> QED BY <3>1, <3>2
  <2>8. CASE UNCHANGED vars
    BY <2>1, <2>8 DEF vars, AckPending
  <2> QED BY <1>2, <2>1, <2>3, <2>4, <2>5, <2>6, <2>7, <2>8 DEF Next
<1> QED BY <1>1, <1>2

(* In every tree and from every group: when ackGroup returns, no channel   *)
(* below the group is left unacknowledged, whatever subgroups it skipped.  *)
THEOREM GroupAcknowledged ==
  ASSUME MasksApart
  PROVE  Spec => []GroupAckComplete
<1>1. AckInv => GroupAckComplete
  <2> SUFFICES ASSUME AckInv, running.call = "ackGroup", running.rest = <<>>,
                      NEW c \in ChannelsBelow(running.top), ~(GlobalFlag /\ ~PassiveFlag)
               PROVE  chan[c].unackSevr = NO_ALARM
    BY DEF GroupAckComplete
  <2>1. ~GlobalFlag
    BY FlagAssumption DEF AckInv, UnackInv, TreeInv, WalkInv, CallSafe
  <2>2. DOMAIN running.rest = {}
    OBVIOUS
  <2> QED BY <2>1, <2>2 DEF AckInv, AckPending
<1>2. (Init => AckInv) /\ (AckInv /\ [Next]_vars => AckInv')
  BY AckInvInductive
<1> QED BY <1>1, <1>2, PTL DEF Spec

(* Nor do connections and access rights.                                   *)
LEMMA EventsLatched ==
  ASSUME NEW s \in State, NEW c \in Chan, ~GlobalFlag
  PROVE  /\ Latched(s, alConnectEvent(s, c))
         /\ \A stat \in ErrorStat : Latched(s, ErrorEvent(s, c, stat))
<1>1. ASSUME NEW stat \in ErrorStat PROVE Latched(s, ErrorEvent(s, c, stat))
  <2>1. stat \in Stat /\ ERROR_STATE \in Sevr
    BY SevrBounds DEF Stat
  <2> QED BY <2>1, alNewEventLatched DEF ErrorEvent
<1>2. Latched(s, alConnectEvent(s, c))
  <2> DEFINE e == s.chan[c].caAlarmEvent
  <2>1. e.stat \in Stat /\ e.sevr \in Sevr
    BY DEF State, ChanData, AlarmEvent
  <2> HIDE DEF e
  <2>2. Latched(s, alNewEvent(s, c, e.stat, e.sevr, e.acks, e.ackt))
    BY <2>1, alNewEventLatched
  <2> QED BY <2>2, LatchedComposes DEF alConnectEvent, e
<1> QED BY <1>1, <1>2

----------------------------------------------------------------------------
(* Steps that change the alarm of a channel and no mask are events.        *)

ChanStep(a, b) ==
  \/ \E e \in Chan : b[e].curMask # a[e].curMask
  \/ \A e \in Chan : b[e].curSevr = a[e].curSevr /\ b[e].curStat = a[e].curStat
  \/ \A e \in Chan : "AckT" \notin a[e].curMask => b[e].unackSevr >= a[e].unackSevr

(* A mask change of a channel that leaves its mask as it was.              *)
LEMMA MaskChanStep ==
  ASSUME NEW s \in State, NEW c \in Chan
  PROVE  /\ \A mask : ChanStep(s.chan, alChangeChanMask(s, c, mask).chan)
         /\ \A b, op : ChanStep(s.chan, alForceChanMask(s, c, b, op).chan)
<1>1. ASSUME NEW mask PROVE ChanStep(s.chan, alChangeChanMask(s, c, mask).chan)
  <2>1. PICK t : t = alChangeChanMask(s, c, mask)
    OBVIOUS
  <2>2. t.chan[c].curMask = s.chan[c].curMask => t = s
    BY <2>1, alChangeChanMaskSame
  <2>3. ChanStep(s.chan, t.chan)
    BY <2>2 DEF ChanStep
  <2> QED BY <2>1, <2>3
<1> QED BY <1>1 DEF alForceChanMask

(* silenceCurrentReset touches no channel.                                 *)
LEMMA ResetChan ==
  ASSUME NEW s PROVE silenceCurrentReset(s).chan = s.chan
BY DEF silenceCurrentReset

(* An acknowledgement leaves the alarm as it is.                           *)
LEMMA ackChanStep ==
  ASSUME NEW s \in State, NEW c \in Chan
  PROVE  ChanStep(s.chan, ackChan(s, c).chan)
<1>1. PICK t : t = alSetUnackSevChan(s, c, NO_ALARM)
  OBVIOUS
<1>2. \A e \in Chan : t.chan[e].curSevr = s.chan[e].curSevr /\ t.chan[e].curStat = s.chan[e].curStat
  <2> DEFINE oldSevr == s.chan[c].unackSevr
             s1 == alSetUnackSevGroup(s, c, NO_ALARM, oldSevr)
             s2 == UnackBeepSevUp(s1, c, BeepFilter(s, NO_ALARM, {c}),
                                  BeepFilter(s, oldSevr, {c}), 1)
  <2>1. t = s \/ t = [s2 EXCEPT !.chan[c].unackSevr = NO_ALARM]
    BY <1>1 DEF alSetUnackSevChan
  <2>2. s1 \in State /\ s1.chan = s.chan
    <3>1. oldSevr \in Sevr
      BY DEF State, ChanData
    <3>2. s1 \in State
      BY <3>1, SevrBounds, alSetUnackSevGroupPreserves DEF Preserves
    <3> QED BY <3>2 DEF alSetUnackSevGroup, State
  <2>3. s2.chan = s.chan
    BY <2>2 DEF UnackBeepSevUp, State
  <2> HIDE DEF s2
  <2>4. CASE t = s
    BY <2>4
  <2>5. CASE t = [s2 EXCEPT !.chan[c].unackSevr = NO_ALARM]
    <3>1. t.chan = [s.chan EXCEPT ![c].unackSevr = NO_ALARM]
      BY <2>3, <2>5
    <3>2. \A e \in Chan : s.chan[e] \in ChanData
      BY DEF State
    <3> QED BY <3>1, <3>2 DEF ChanData, State
  <2> QED BY <2>1, <2>4, <2>5
<1> QED BY <1>1, <1>2 DEF ackChan, ChanStep

(* An event is a step that latches.                                        *)
LEMMA LatchedChanStep ==
  ASSUME NEW s, NEW t, Latched(s, t) PROVE ChanStep(s.chan, t.chan)
BY DEF Latched, ChanStep

(* Channel Access callbacks.                                               *)
LEMMA ChannelAccessChan ==
  ASSUME IInv, ~GlobalFlag, ChannelAccess
  PROVE  ChanStep(chan, chan')
<1>1. St \in State /\ St.chan = chan
  BY DEF IInv, TypeOK, St
<1>2. ASSUME NEW t, Latched(St, t), Become(t) PROVE ChanStep(chan, chan')
  <2>1. chan' = t.chan
    BY <1>2 DEF Become
  <2> QED BY <1>1, <1>2, <2>1, LatchedChanStep
<1>3. ASSUME NEW c \in Chan, CaAlarmEvent(c) PROVE ChanStep(chan, chan')
  <2>1. PICK e \in IocEvent : AlarmEventOf(c, e)
    BY <1>3 DEF CaAlarmEvent
  <2>2. e.stat \in Stat /\ e.sevr \in Sevr
    <3>1. e.stat \in {"NO_ALARM", "ALARM"} /\ e.sevr \in 0 .. ALARM_NSEV - 1
      BY DEF IocEvent
    <3> QED BY <3>1, SevrAssumption DEF Stat, Sevr
  <2>3. Latched(St, alNewEvent(St, c, e.stat, e.sevr, e.acks, e.ackt))
    BY <1>1, <2>2, alNewEventLatched
  <2> QED BY <1>2, <2>1, <2>3 DEF AlarmEventOf
<1>4. ASSUME NEW c \in Chan, ConnDown(c) PROVE ChanStep(chan, chan')
  <2>1. Latched(St, ErrorEvent(St, c, "NOT_CONNECTED"))
    BY <1>1, EventsLatched DEF ErrorStat
  <2> QED BY <1>2, <1>4, <2>1 DEF ConnDown
<1>5. ASSUME NEW c \in Chan, NEW r \in Rights, ConnUp(c, r) PROVE ChanStep(chan, chan')
  <2> DEFINE s == alConnectEvent(St, c)
             t == IF r = "none" THEN ErrorEvent(s, c, "NO_READ_ACCESS")
                  ELSE IF r = "r" /\ NeedsWrite THEN ErrorEvent(s, c, "NO_WRITE_ACCESS")
                  ELSE s
  <2>1. Latched(St, s)
    BY <1>1, EventsLatched
  <2>2. Become(t)
    BY <1>5 DEF ConnUp
  <2> HIDE DEF s
  <2>3. /\ Latched(s, ErrorEvent(s, c, "NO_READ_ACCESS"))
        /\ Latched(s, ErrorEvent(s, c, "NO_WRITE_ACCESS"))
    <3>1. s \in State
      BY <2>1 DEF Latched
    <3> QED BY <3>1, EventsLatched DEF ErrorStat
  <2>4. Latched(St, t)
    BY <1>1, <2>1, <2>3, LatchedComposes
  <2> HIDE DEF t
  <2> QED BY <1>2, <2>2, <2>4
<1>6. ASSUME NEW c \in Chan, NEW r \in Rights, AccessRightsEvent(c, r)
      PROVE  ChanStep(chan, chan')
  <2> DEFINE s == IF r = "none" THEN ErrorEvent(St, c, "NO_READ_ACCESS") ELSE St
             t == IF r # "rw" /\ NeedsWrite THEN ErrorEvent(s, c, "NO_WRITE_ACCESS") ELSE s
  <2>1. Latched(St, s)
    BY <1>1, EventsLatched, LatchedComposes DEF ErrorStat
  <2>2. Become(t)
    BY <1>6 DEF AccessRightsEvent
  <2> HIDE DEF s
  <2>3. Latched(s, ErrorEvent(s, c, "NO_WRITE_ACCESS"))
    <3>1. s \in State
      BY <2>1 DEF Latched
    <3> QED BY <3>1, EventsLatched DEF ErrorStat
  <2>4. Latched(St, t)
    BY <1>1, <2>1, <2>3, LatchedComposes
  <2> HIDE DEF t
  <2> QED BY <1>2, <2>2, <2>4
<1> QED BY <1>3, <1>4, <1>5, <1>6 DEF ChannelAccess

(* A step that leaves the channels alone.                                  *)
LEMMA StillChan == chan' = chan => ChanStep(chan, chan')
BY DEF ChanStep

(* The operator's callbacks.                                               *)
LEMMA OperatorChan ==
  ASSUME IInv, MaskCallback \/ AckCallback \/ BeepCallback
  PROVE  ChanStep(chan, chan')
<1>1. St \in State /\ St.chan = chan
  BY DEF IInv, TypeOK, St
<1>2. ASSUME NEW u, ChanStep(chan, u.chan), OnChannel(silenceCurrentReset(u)) \/ OnChannel(u)
      PROVE  ChanStep(chan, chan')
  <2>1. chan' = u.chan
    BY <1>2, ResetChan DEF OnChannel, Become
  <2> QED BY <1>2, <2>1
<1>3. CASE MaskCallback
  <2>1. ASSUME NEW c \in Chan, NEW b, NEW op, ForceChanMask(c, b, op) PROVE ChanStep(chan, chan')
    <3>1. ChanStep(chan, alForceChanMask(St, c, b, op).chan)
      BY <1>1, MaskChanStep
    <3> QED BY <1>2, <2>1, <3>1 DEF ForceChanMask
  <2>2. ASSUME NEW c \in Chan, NEW mask, ChangeChanMask(c, mask) PROVE ChanStep(chan, chan')
    <3>1. ChanStep(chan, alChangeChanMask(St, c, mask).chan)
      BY <1>1, MaskChanStep
    <3> QED BY <1>2, <2>2, <3>1 DEF ChangeChanMask
  <2>3. ASSUME NEW c \in Chan, ResetChanMask(c) PROVE ChanStep(chan, chan')
    <3>1. ChanStep(chan, alChangeChanMask(St, c, DefaultMask[c]).chan)
      BY <1>1, MaskChanStep
    <3> QED BY <1>2, <2>3, <3>1 DEF ResetChanMask
  <2>4. ASSUME NEW g, NEW b, NEW op, ForceGroupMask(g, b, op) PROVE ChanStep(chan, chan')
    BY <2>4, StillChan DEF ForceGroupMask
  <2>5. ASSUME NEW g, NEW mask, ChangeGroupMask(g, mask) \/ ResetGroupMask(g)
        PROVE  ChanStep(chan, chan')
    BY <2>5, StillChan DEF ChangeGroupMask, ResetGroupMask, StartCall
  <2> QED BY <1>3, <2>1, <2>2, <2>3, <2>4, <2>5 DEF MaskCallback
<1>4. CASE AckCallback
  <2>1. ASSUME NEW c \in Chan, AckChan(c) PROVE ChanStep(chan, chan')
    <3>1. ChanStep(chan, ackChan(St, c).chan)
      BY <1>1, ackChanStep
    <3> QED BY <1>2, <2>1, <3>1 DEF AckChan
  <2>2. ASSUME NEW g, AckGroup(g) PROVE ChanStep(chan, chan')
    BY <2>2, StillChan DEF AckGroup, StartCall
  <2> QED BY <1>4, <2>1, <2>2 DEF AckCallback
<1>5. CASE BeepCallback
  <2>1. ASSUME NEW n \in Node, NEW sevr \in AlarmSevr, ChangeBeepSevr(n, sevr)
        PROVE  ChanStep(chan, chan')
    <3> DEFINE t == IF n \in Chan THEN alSetBeepSevrChan(St, n, sevr)
                    ELSE alSetBeepSevrGroup(St, n, sevr)
    <3>1. sevr \in Sevr
      BY SevrAssumption DEF AlarmSevr, Sevr
    <3>2. BeepSevrSet(St, t, n, sevr)
      BY <1>1, <3>1, alSetBeepSevrChanSets, alSetBeepSevrGroupSets DEF Node
    <3>3. OnChannel(t)
      BY <2>1 DEF ChangeBeepSevr
    <3> HIDE DEF t
    <3>4. ChanStep(chan, t.chan)
      BY <1>1, <3>2 DEF BeepSevrSet, Steady, ChanStep
    <3> QED BY <1>2, <3>3, <3>4
  <2>2. ASSUME NEW sevr, SystemBeepSevr(sevr) PROVE ChanStep(chan, chan')
    <3>1. [St EXCEPT !.psetup.beepSevr = sevr].chan = chan
      BY DEF St
    <3> QED BY <2>2, <3>1, StillChan DEF SystemBeepSevr, OnChannel, Become
  <2>3. ASSUME ToggleSilenceCurrent PROVE ChanStep(chan, chan')
    <3>1. [St EXCEPT !.psetup.silenceCurrent = ~@].chan = chan
      BY DEF St
    <3> QED BY <2>3, <3>1, StillChan DEF ToggleSilenceCurrent, OnChannel, Become
  <2> QED BY <1>5, <2>1, <2>2, <2>3 DEF BeepCallback
<1> QED BY <1>3, <1>4, <1>5

(* A step of a callback on a group.                                        *)
LEMMA CallbackStepChan ==
  ASSUME IInv, ~GlobalFlag, CallbackStep
  PROVE  ChanStep(chan, chan')
<1>1. St \in State /\ St.chan = chan
  BY DEF IInv, TypeOK, St
<1>2. ASSUME NEW c \in Chan, Become(Visit(St, c)) PROVE ChanStep(chan, chan')
  <2>1. /\ ChanStep(chan, alForceChanMask(St, c, running.index, running.op).chan)
        /\ ChanStep(chan, alChangeChanMask(St, c, running.mask).chan)
        /\ ChanStep(chan, alChangeChanMask(St, c, DefaultMask[c]).chan)
    BY <1>1, MaskChanStep
  <2>2. ChanStep(chan, ackChan(St, c).chan)
    BY <1>1, ackChanStep
  <2>3. ChanStep(chan, ErrorEvent(St, c, "NOT_CONNECTED").chan)
    <3>1. Latched(St, ErrorEvent(St, c, "NOT_CONNECTED"))
      BY <1>1, EventsLatched DEF ErrorStat
    <3> QED BY <1>1, <3>1, LatchedChanStep
  <2>4. ChanStep(chan, St.chan)
    BY <1>1 DEF ChanStep
  <2>5. ChanStep(chan, Visit(St, c).chan)
    BY <2>1, <2>2, <2>3, <2>4 DEF Visit
  <2> QED BY <1>2, <2>5 DEF Become
<1>3. ASSUME Become(IF running.call \in GroupCall THEN silenceCurrentReset(St) ELSE St)
      PROVE  ChanStep(chan, chan')
  BY <1>1, <1>3, ResetChan, StillChan DEF Become
<1> QED BY <1>2, <1>3, StillChan DEF CallbackStep

(* Every step of the program.                                              *)
LEMMA NextChan ==
  ASSUME IInv, ~GlobalFlag, [Next]_vars
  PROVE  ChanStep(chan, chan')
<1>1. CASE Next
  <2>1. CASE EndPend
    BY <2>1, StillChan DEF EndPend
  <2> QED BY <1>1, <2>1, ChannelAccessChan, OperatorChan, CallbackStepChan DEF Next
<1>2. CASE UNCHANGED vars
  BY <1>2, StillChan DEF vars
<1> QED BY <1>1, <1>2

(* In local mode, in every tree: an event never takes an unacknowledged    *)
(* alarm off the line of a group whose transients need acknowledgement,    *)
(* whatever other channels below it do.                                    *)
THEOREM AlarmsLatched ==
  ASSUME ~GlobalFlag, MasksApart
  PROVE  Spec => AlarmsStayLatched
<1>1. ASSUME UnackInv, UnackInv', [Next]_vars
      PROVE  (/\ \E c \in Chan : \/ chan'[c].curSevr # chan[c].curSevr
                                 \/ chan'[c].curStat # chan[c].curStat
              /\ \A c \in Chan : chan'[c].curMask = chan[c].curMask)
             => \A g \in Group :
                  (\A c \in ChannelsBelow(g) : "AckT" \notin chan[c].curMask)
                  => group'[g].unackSevr >= group[g].unackSevr
  <2> SUFFICES ASSUME \E c \in Chan : \/ chan'[c].curSevr # chan[c].curSevr
                                      \/ chan'[c].curStat # chan[c].curStat,
                      \A c \in Chan : chan'[c].curMask = chan[c].curMask,
                      NEW g \in Group,
                      \A c \in ChannelsBelow(g) : "AckT" \notin chan[c].curMask
               PROVE  group'[g].unackSevr >= group[g].unackSevr
    OBVIOUS
  <2>1. ChanStep(chan, chan')
    BY <1>1, NextChan DEF UnackInv, TreeInv
  <2>2. \A c \in ChannelsBelow(g) : c \in Chan /\ chan'[c].unackSevr >= chan[c].unackSevr
    BY <2>1 DEF ChanStep, ChannelsBelow
  <2>3. St \in State /\ UnackExact(St) /\ TopsExact(St)
    BY <1>1 DEF UnackInv, TreeInv, IInv, TypeOK, UnackGood
  <2>4. St' \in State /\ UnackExact(St') /\ TopsExact(St')
    BY <1>1 DEF UnackInv, TreeInv, IInv, TypeOK, UnackGood
  <2>5. /\ \A c : UnackOf(St, c) = chan[c].unackSevr /\ UnackOf(St', c) = chan'[c].unackSevr
        /\ St.group[g].unackSevr = group[g].unackSevr
        /\ St'.group[g].unackSevr = group'[g].unackSevr
    BY LocalUnack DEF St
  <2>6. group[g].unackSevr \in {NO_ALARM} \cup {chan[c].unackSevr : c \in ChannelsBelow(g)}
    BY <2>3, <2>5, UnackTop
  <2>7. \A c \in ChannelsBelow(g) : chan'[c].unackSevr <= group'[g].unackSevr
    BY <2>4, <2>5, UnackTop
  <2>8. /\ group[g].unackSevr \in Nat /\ group'[g].unackSevr \in Nat
        /\ \A c \in ChannelsBelow(g) : chan[c].unackSevr \in Nat /\ chan'[c].unackSevr \in Nat
    <3>1. Sevr \subseteq Nat
      BY SevrAssumption DEF Sevr
    <3>2. ASSUME NEW s \in State
          PROVE  s.group[g].unackSevr \in Sevr /\ \A c \in Chan : s.chan[c].unackSevr \in Sevr
      <4>1. s.group[g] \in GroupData /\ \A c \in Chan : s.chan[c] \in ChanData
        BY DEF State
      <4> QED BY <4>1 DEF GroupData, ChanData
    <3>3. St \in State /\ St' \in State
      BY <2>2, <2>3, <2>4
    <3>4. /\ St.group[g].unackSevr \in Nat /\ St'.group[g].unackSevr \in Nat
          /\ \A c \in Chan : St.chan[c].unackSevr \in Nat /\ St'.chan[c].unackSevr \in Nat
      BY <3>1, <3>2, <3>3
    <3> QED BY <3>4 DEF St, ChannelsBelow
  <2>9. CASE group[g].unackSevr = NO_ALARM
    BY <2>8, <2>9 DEF NO_ALARM
  <2>10. CASE \E c \in ChannelsBelow(g) : group[g].unackSevr = chan[c].unackSevr
    <3>1. PICK c \in ChannelsBelow(g) : group[g].unackSevr = chan[c].unackSevr
      BY <2>10
    <3> QED BY <2>2, <2>7, <2>8, <3>1
  <2> QED BY <2>6, <2>9, <2>10
<1>2. UnackInv /\ UnackInv' /\ [Next]_vars =>
        [(/\ \E c \in Chan : \/ chan'[c].curSevr # chan[c].curSevr
                             \/ chan'[c].curStat # chan[c].curStat
          /\ \A c \in Chan : chan'[c].curMask = chan[c].curMask)
         => \A g \in Group :
              (\A c \in ChannelsBelow(g) : "AckT" \notin chan[c].curMask)
              => group'[g].unackSevr >= group[g].unackSevr]_vars
  BY <1>1
<1>3. (Init => UnackInv) /\ (UnackInv /\ [Next]_vars => UnackInv')
  BY UnackInvInductive
<1> QED BY <1>2, <1>3, PTL DEF Spec, AlarmsStayLatched

----------------------------------------------------------------------------
(* Every step of the program tells the outside what it changes.            *)

\* no channel below g is disabled that was not
NoneDisabled(s, t, g) ==
  \A c \in ChannelsBelow(g) : "Disable" \in t.chan[c].curMask => "Disable" \in s.chan[c].curMask

SameBeepSevrs(s, t) == \A n \in Node : BeepSevr(t, n) = BeepSevr(s, n)

\* what the two properties ask of a step, for group g
Heeds(s, t, g) ==
  /\ t \in State
  /\ GlobalFlag /\ ~PassiveFlag /\ NoneDisabled(s, t, g) =>
       \/ t.group[g].curSevr = s.group[g].curSevr
       \/ t.group[g].sevrPV = t.group[g].curSevr
  /\ ~GlobalFlag /\ Anc[g] = {} /\ BeepTop(s, g) /\ SameBeepSevrs(s, t) /\ Louder(s, t, g) =>
       ~t.psetup.silenceCurrent

(* A function that answers does; so does one that leaves the groups alone. *)
LEMMA AnswersHeeds ==
  ASSUME NEW s \in State, NEW t, NEW g \in Group
  PROVE  /\ Answers(s, t, g) => Heeds(s, t, g)
         /\ t \in State /\ t.group = s.group => Heeds(s, t, g)
<1>1. Answers(s, t, g) => Heeds(s, t, g)
  BY DEF Answers, Heeds, PVFollows, EndsSilence
<1>2. ASSUME t \in State, t.group = s.group PROVE Heeds(s, t, g)
  <2>1. ~Louder(s, t, g)
    BY <1>2, LoudTypes DEF Louder
  <2> QED BY <1>2, <2>1 DEF Heeds
<1> QED BY <1>1, <1>2

(* A mask without Cancel may be given to a channel.                        *)
LEMMA MaskHeeds ==
  ASSUME NEW s \in State, NEW c \in Chan, NEW mask, NEW g \in Group,
         ~GlobalFlag \/ "Cancel" \notin mask
  PROVE  /\ Heeds(s, alChangeChanMask(s, c, mask), g)
         /\ Heeds(s, silenceCurrentReset(alChangeChanMask(s, c, mask)), g)
<1>1. PICK t : t = alChangeChanMask(s, c, mask)
  OBVIOUS
<1>2. t \in State
  BY <1>1, alChangeChanMaskSteps DEF MaskStep, Frame
<1>3. PICK r : r = silenceCurrentReset(t)
  OBVIOUS
<1>4. r \in State /\ r.group = t.group /\ r.chan = t.chan /\ ~r.psetup.silenceCurrent
  BY <1>2, <1>3, SilenceResetPreserves DEF Preserves, silenceCurrentReset, State, Setup
<1>5. "Disable" \in mask => "Disable" \in t.chan[c].curMask
  BY <1>1, alChangeChanMaskDisable
<1>6. CASE Spares(c, g, s.chan[c].curMask, mask)
  <2>1. Answers(s, t, g)
    BY <1>1, <1>6, alChangeChanMaskAnswers
  <2>2. Answers(s, r, g)
    <3>1. Answers(t, r, g)
      BY <1>2, <1>3, ResetAnswers
    <3> QED BY <2>1, <3>1, AnswersComposes
  <2> QED BY <1>1, <1>3, <2>1, <2>2, AnswersHeeds
<1>7. CASE ~Spares(c, g, s.chan[c].curMask, mask)
  <2>1. GlobalFlag /\ g \in Anc[c] /\ "Disable" \in mask /\ "Disable" \notin s.chan[c].curMask
    BY <1>7 DEF Spares
  <2>2. c \in ChannelsBelow(g)
    BY <2>1 DEF ChannelsBelow
  <2>3. ~NoneDisabled(s, t, g) /\ ~NoneDisabled(s, r, g)
    BY <1>4, <1>5, <2>1, <2>2 DEF NoneDisabled
  <2> QED BY <1>1, <1>2, <1>3, <1>4, <2>1, <2>3 DEF Heeds
<1> QED BY <1>6, <1>7

(* So may a bit other than Cancel be set or cleared.                       *)
LEMMA ForceHeeds ==
  ASSUME NEW s \in State, NEW c \in Chan, NEW b, NEW op, NEW g \in Group,
         ~GlobalFlag \/ "Cancel" \notin s.chan[c].curMask \cup {b}
  PROVE  /\ Heeds(s, alForceChanMask(s, c, b, op), g)
         /\ Heeds(s, silenceCurrentReset(alForceChanMask(s, c, b, op)), g)
<1>1. PICK cur : cur = s.chan[c].curMask
  OBVIOUS
<1>2. PICK mask : /\ mask \in {cur \cup {b}, cur \ {b}}
                  /\ alForceChanMask(s, c, b, op) = alChangeChanMask(s, c, mask)
  BY <1>1 DEF alForceChanMask
<1>3. ~GlobalFlag \/ "Cancel" \notin mask
  BY <1>1, <1>2
<1> QED BY <1>2, <1>3, MaskHeeds

(* A change of a beep severity is heeded by its own counters.              *)
LEMMA BeepHeeds ==
  ASSUME NEW s \in State, NEW n \in Node, NEW sevr \in Sevr, NEW g \in Group
  PROVE  Heeds(s, IF n \in Chan THEN alSetBeepSevrChan(s, n, sevr)
                  ELSE alSetBeepSevrGroup(s, n, sevr), g)
<1>1. PICK t : t = IF n \in Chan THEN alSetBeepSevrChan(s, n, sevr)
                   ELSE alSetBeepSevrGroup(s, n, sevr)
  OBVIOUS
<1>2. BeepSevrSet(s, t, n, sevr)
  BY <1>1, alSetBeepSevrChanSets, alSetBeepSevrGroupSets DEF Node
<1>3. /\ t.group[g].curSevr = s.group[g].curSevr
      /\ BeepSevr(s, n) = sevr => t = s
  BY <1>1, BeepSevrKeepsCur DEF Node
<1>4. t \in State /\ BeepSevr(t, n) = sevr
  BY <1>2 DEF BeepSevrSet, Steady
<1>5. CASE t = s
  BY <1>1, <1>4, <1>5, AnswersHeeds
<1>6. CASE t # s
  <2>1. ~SameBeepSevrs(s, t)
    BY <1>3, <1>4, <1>6 DEF SameBeepSevrs
  <2> QED BY <1>1, <1>3, <1>4, <2>1 DEF Heeds
<1> QED BY <1>5, <1>6

(* The events of connections and access rights answer.                     *)
LEMMA ErrorEventAnswers ==
  ASSUME NEW s \in State, NEW c \in Chan, NEW stat \in ErrorStat, NEW g \in Group
  PROVE  Answers(s, ErrorEvent(s, c, stat), g)
<1>1. stat \in Stat /\ ERROR_STATE \in Sevr /\ 0 \in Sevr /\ -1 \in Int
  BY SevrBounds DEF Stat, NO_ALARM
<1> QED BY <1>1, alNewEventAnswers DEF ErrorEvent

\* the step that is being taken, for every group
HeedsStep == \A g \in Group : Heeds(St, St', g)

(* A step that takes the tree to t.                                        *)
LEMMA BecomeHeeds ==
  ASSUME NEW t, Become(t), \A g \in Group : Heeds(St, t, g), St \in State
  PROVE  HeedsStep
<1>1. PICK g \in Group : Anc[g] = {}
  BY TreeAssumption
<1>2. t \in State
  BY <1>1 DEF Heeds
<1>3. St' = t
  BY <1>2 DEF St, Become, State
<1> QED BY <1>3 DEF HeedsStep

(* A step that leaves the tree alone.                                      *)
LEMMA StillHeeds ==
  ASSUME St \in State, UNCHANGED <<chan, group, psetup>>
  PROVE  HeedsStep
<1>1. St' = St
  BY DEF St
<1> QED BY <1>1, AnswersHeeds DEF HeedsStep

(* Channel Access callbacks.                                               *)
LEMMA ChannelAccessHeeds ==
  ASSUME IInv, ChannelAccess
  PROVE  HeedsStep
<1>1. St \in State
  BY DEF IInv, TypeOK
<1>2. ASSUME NEW t, \A g \in Group : Answers(St, t, g), Become(t) PROVE HeedsStep
  BY <1>1, <1>2, AnswersHeeds, BecomeHeeds
<1>3. ASSUME NEW c \in Chan, CaAlarmEvent(c) PROVE HeedsStep
  <2>1. PICK e \in IocEvent : AlarmEventOf(c, e)
    BY <1>3 DEF CaAlarmEvent
  <2>2. e.stat \in Stat /\ e.sevr \in Sevr /\ e.acks \in Sevr /\ e.ackt \in Int
    <3>1. /\ e.stat \in {"NO_ALARM", "ALARM"} /\ e.sevr \in 0 .. ALARM_NSEV - 1
          /\ e.acks \in 0 .. ALARM_NSEV - 1 /\ e.ackt \in AcktSetting
      BY DEF IocEvent
    <3>2. e.ackt \in Int
      <4>1. e.ackt \in {0, 1}
        BY <3>1, OperatorAssumption
      <4> QED BY <4>1
    <3>3. e.sevr \in Sevr /\ e.acks \in Sevr
      BY <3>1, SevrAssumption DEF Sevr
    <3>4. e.stat \in Stat
      BY <3>1 DEF Stat
    <3> QED BY <3>2, <3>3, <3>4
  <2>3. \A g \in Group : Answers(St, alNewEvent(St, c, e.stat, e.sevr, e.acks, e.ackt), g)
    BY <1>1, <2>2, alNewEventAnswers
  <2> QED BY <1>2, <2>1, <2>3 DEF AlarmEventOf
<1>4. ASSUME NEW c \in Chan, ConnDown(c) PROVE HeedsStep
  <2>1. \A g \in Group : Answers(St, ErrorEvent(St, c, "NOT_CONNECTED"), g)
    BY <1>1, ErrorEventAnswers DEF ErrorStat
  <2> QED BY <1>2, <1>4, <2>1 DEF ConnDown
<1>5. ASSUME NEW c \in Chan, NEW r \in Rights, ConnUp(c, r) PROVE HeedsStep
  <2> DEFINE s == alConnectEvent(St, c)
             t == IF r = "none" THEN ErrorEvent(s, c, "NO_READ_ACCESS")
                  ELSE IF r = "r" /\ NeedsWrite THEN ErrorEvent(s, c, "NO_WRITE_ACCESS")
                  ELSE s
  <2>1. Become(t)
    BY <1>5 DEF ConnUp
  <2>2. ASSUME NEW g \in Group PROVE Answers(St, t, g)
    <3>1. Answers(St, s, g)
      BY <1>1, alConnectEventAnswers
    <3> HIDE DEF s
    <3>2. Answers(s, ErrorEvent(s, c, "NO_READ_ACCESS"), g)
          /\ Answers(s, ErrorEvent(s, c, "NO_WRITE_ACCESS"), g)
      <4>1. s \in State
        BY <3>1 DEF Answers
      <4> QED BY <4>1, ErrorEventAnswers DEF ErrorStat
    <3> QED BY <1>1, <3>1, <3>2, AnswersComposes
  <2> HIDE DEF t
  <2> QED BY <1>2, <2>1, <2>2
<1>6. ASSUME NEW c \in Chan, NEW r \in Rights, AccessRightsEvent(c, r) PROVE HeedsStep
  <2> DEFINE s == IF r = "none" THEN ErrorEvent(St, c, "NO_READ_ACCESS") ELSE St
             t == IF r # "rw" /\ NeedsWrite THEN ErrorEvent(s, c, "NO_WRITE_ACCESS") ELSE s
  <2>1. Become(t)
    BY <1>6 DEF AccessRightsEvent
  <2>2. ASSUME NEW g \in Group PROVE Answers(St, t, g)
    <3>1. Answers(St, s, g)
      BY <1>1, ErrorEventAnswers, AnswersComposes DEF ErrorStat
    <3> HIDE DEF s
    <3>2. Answers(s, ErrorEvent(s, c, "NO_WRITE_ACCESS"), g)
      <4>1. s \in State
        BY <3>1 DEF Answers
      <4> QED BY <4>1, ErrorEventAnswers DEF ErrorStat
    <3> QED BY <1>1, <3>1, <3>2, AnswersComposes
  <2> HIDE DEF t
  <2> QED BY <1>2, <2>1, <2>2
<1> QED BY <1>3, <1>4, <1>5, <1>6 DEF ChannelAccess

(* The operator's callbacks.                                               *)
LEMMA OperatorHeeds ==
  ASSUME IInv, WalkInv, ~GlobalFlag \/ NeverCancelled,
         MaskCallback \/ AckCallback \/ BeepCallback
  PROVE  HeedsStep
<1>1. St \in State /\ MasksWithin(St)
  BY DEF IInv, TypeOK, WalkInv
<1>2. ASSUME NEW t, \A g \in Group : Heeds(St, t, g), OnChannel(t) PROVE HeedsStep
  BY <1>1, <1>2, BecomeHeeds DEF OnChannel
<1>3. ASSUME NEW c \in Chan, NEW mask, Combined(c, mask),
             mask \subseteq DefaultMask[c] \cup OperatorBits
      PROVE  ~GlobalFlag \/ "Cancel" \notin St.chan[c].curMask \cup mask
  <2>1. Allowed(c, chan[c].curMask \cup mask)
    BY <1>1, <1>3, CombinedAllowed
  <2> QED BY <2>1, AllowedMasks DEF St
<1>4. CASE MaskCallback
  <2>1. ASSUME NEW b \in OperatorBits, NEW op, NEW c \in Chan, Combined(c, {b}),
               ForceChanMask(c, b, op)
        PROVE  HeedsStep
    <3>1. ~GlobalFlag \/ "Cancel" \notin St.chan[c].curMask \cup {b}
      BY <1>3, <2>1
    <3>2. \A g \in Group : Heeds(St, silenceCurrentReset(alForceChanMask(St, c, b, op)), g)
      BY <1>1, <3>1, ForceHeeds
    <3> QED BY <1>2, <2>1, <3>2 DEF ForceChanMask
  <2>2. ASSUME NEW mask, NEW c \in Chan, Combined(c, mask),
               mask \subseteq DefaultMask[c] \cup OperatorBits,
               OnChannel(silenceCurrentReset(alChangeChanMask(St, c, mask)))
        PROVE  HeedsStep
    <3>1. ~GlobalFlag \/ "Cancel" \notin mask
      BY <1>3, <2>2
    <3>2. \A g \in Group : Heeds(St, silenceCurrentReset(alChangeChanMask(St, c, mask)), g)
      BY <1>1, <3>1, MaskHeeds
    <3> QED BY <1>2, <2>2, <3>2
  <2>3. ASSUME NEW mask \in OperatorMasks, NEW c \in Chan, Combined(c, mask),
               ChangeChanMask(c, mask)
        PROVE  HeedsStep
    <3>1. mask \subseteq DefaultMask[c] \cup OperatorBits
      BY DEF OperatorBits
    <3> QED BY <2>2, <2>3, <3>1 DEF ChangeChanMask
  <2>4. ASSUME NEW c \in Chan, Combined(c, DefaultMask[c]), ResetChanMask(c) PROVE HeedsStep
    <3>1. DefaultMask[c] \subseteq DefaultMask[c] \cup OperatorBits
      OBVIOUS
    <3> QED BY <2>2, <2>4, <3>1 DEF ResetChanMask
  <2>5. ASSUME NEW g, NEW b, NEW op, NEW mask,
               ForceGroupMask(g, b, op) \/ ChangeGroupMask(g, mask) \/ ResetGroupMask(g)
        PROVE  HeedsStep
    BY <1>1, <2>5, StillHeeds DEF ForceGroupMask, ChangeGroupMask, ResetGroupMask, StartCall
  <2>6. \A g, b, op : ForceGroupMask(g, b, op) => HeedsStep
    BY <2>5
  <2>7. \A g, mask : ChangeGroupMask(g, mask) => HeedsStep
    BY <2>5
  <2>8. \A g : ResetGroupMask(g) => HeedsStep
    BY <2>5
  <2> QED BY <1>4, <2>1, <2>3, <2>4, <2>6, <2>7, <2>8 DEF MaskCallback
<1>5. CASE AckCallback
  <2>1. ASSUME NEW c \in Chan, AckChan(c) PROVE HeedsStep
    <3>1. \A g \in Group : Heeds(St, ackChan(St, c), g)
      BY <1>1, ackChanAnswers, AnswersHeeds
    <3> QED BY <1>2, <2>1, <3>1 DEF AckChan
  <2>2. ASSUME NEW g, AckGroup(g) PROVE HeedsStep
    BY <1>1, <2>2, StillHeeds DEF AckGroup, StartCall
  <2> QED BY <1>5, <2>1, <2>2 DEF AckCallback
<1>6. CASE BeepCallback
  <2>1. ASSUME NEW n \in Node, NEW sevr \in AlarmSevr, ChangeBeepSevr(n, sevr) PROVE HeedsStep
    <3>1. sevr \in Sevr
      BY SevrAssumption DEF AlarmSevr, Sevr
    <3> DEFINE t == IF n \in Chan THEN alSetBeepSevrChan(St, n, sevr)
                    ELSE alSetBeepSevrGroup(St, n, sevr)
    <3>2. \A g \in Group : Heeds(St, t, g)
      BY <1>1, <3>1, BeepHeeds
    <3>3. OnChannel(t)
      BY <2>1 DEF ChangeBeepSevr
    <3> HIDE DEF t
    <3> QED BY <1>2, <3>2, <3>3
  <2>2. ASSUME NEW p \in Setup, OnChannel([St EXCEPT !.psetup = p]) PROVE HeedsStep
    <3> PICK t : t = [St EXCEPT !.psetup = p]
      OBVIOUS
    <3>1. t \in State /\ t.group = St.group
      BY <1>1 DEF State
    <3>2. \A g \in Group : Heeds(St, t, g)
      BY <1>1, <3>1, AnswersHeeds
    <3> QED BY <1>2, <2>2, <3>2
  <2>3. ASSUME NEW sevr \in 1 .. ALARM_NSEV - 1, SystemBeepSevr(sevr) PROVE HeedsStep
    <3> DEFINE p == [psetup EXCEPT !.beepSevr = sevr]
    <3>1. p \in Setup
      BY <1>1, SevrAssumption DEF St, State, Setup, Sevr
    <3>2. [St EXCEPT !.psetup = p] = [St EXCEPT !.psetup.beepSevr = sevr]
      BY DEF St
    <3> QED BY <2>2, <2>3, <3>1, <3>2 DEF SystemBeepSevr
  <2>4. ASSUME ToggleSilenceCurrent PROVE HeedsStep
    <3> DEFINE p == [psetup EXCEPT !.silenceCurrent = ~@]
    <3>1. p \in Setup
      BY <1>1 DEF St, State, Setup
    <3>2. [St EXCEPT !.psetup = p] = [St EXCEPT !.psetup.silenceCurrent = ~@]
      BY DEF St
    <3> QED BY <2>2, <2>4, <3>1, <3>2 DEF ToggleSilenceCurrent
  <2> QED BY <1>6, <2>1, <2>3, <2>4 DEF BeepCallback
<1> QED BY <1>4, <1>5, <1>6

(* A step of a callback on a group.                                        *)
LEMMA CallbackStepHeeds ==
  ASSUME IInv, WalkInv, ~GlobalFlag \/ NeverCancelled, CallbackStep
  PROVE  HeedsStep
<1>1. /\ St \in State /\ running \in Running /\ CallSafe(St, running)
      /\ running.call \in GroupCall \cup {"alSetNotConnected", "ackGroup"}
  BY DEF IInv, TypeOK, WalkInv, CallbackStep, Advance, Running, Call, Serving
<1>2. ASSUME NEW c \in Chan, running.rest # <<>>, c = Head(running.rest), Become(Visit(St, c))
      PROVE  HeedsStep
  <2>1. CASE running.call \in GroupCall
    <3>1. c \in ChannelsBelow(running.top)
      <4>1. running.rest \in Seq(Node)
        BY <1>1 DEF Running
      <4>2. 1 \in DOMAIN running.rest /\ running.rest[1] = c
        BY <1>2, <4>1
      <4> QED BY <1>1, <2>1, <4>2 DEF CallSafe, ChannelsBelow
    <3>2. ~GlobalFlag \/ "Cancel" \notin St.chan[c].curMask \cup Aim(running, c)
      BY <1>1, <2>1, <3>1, AllowedMasks DEF CallSafe
    <3>3. ASSUME NEW g \in Group PROVE Heeds(St, Visit(St, c), g)
      <4>1. CASE running.call = "alForceGroupMask"
        <5>1. Heeds(St, alForceChanMask(St, c, running.index, running.op), g)
          BY <1>1, <3>2, <4>1, ForceHeeds DEF Aim
        <5> QED BY <4>1, <5>1 DEF Visit
      <4>2. CASE running.call = "alChangeGroupMask"
        <5>1. Heeds(St, alChangeChanMask(St, c, running.mask), g)
          BY <1>1, <3>2, <4>2, MaskHeeds DEF Aim
        <5> QED BY <4>2, <5>1 DEF Visit
      <4>3. CASE running.call = "alResetGroupMask"
        <5>1. Heeds(St, alChangeChanMask(St, c, DefaultMask[c]), g)
          BY <1>1, <3>2, <4>3, MaskHeeds DEF Aim
        <5> QED BY <4>3, <5>1 DEF Visit
      <4> QED BY <2>1, <4>1, <4>2, <4>3 DEF GroupCall
    <3> QED BY <1>1, <1>2, <3>3, BecomeHeeds
  <2>2. CASE running.call \notin GroupCall
    <3>1. ASSUME NEW g \in Group PROVE Heeds(St, Visit(St, c), g)
      <4>1. /\ Answers(St, ErrorEvent(St, c, "NOT_CONNECTED"), g)
            /\ Answers(St, ackChan(St, c), g) /\ Answers(St, St, g)
        BY <1>1, ErrorEventAnswers, ackChanAnswers, AnswersComposes DEF ErrorStat
      <4>2. Answers(St, Visit(St, c), g)
        BY <1>1, <2>2, <4>1 DEF Visit, GroupCall
      <4> QED BY <1>1, <4>2, AnswersHeeds
    <3> QED BY <1>1, <1>2, <3>1, BecomeHeeds
  <2> QED BY <2>1, <2>2
<1>3. ASSUME UNCHANGED <<chan, group, psetup>> PROVE HeedsStep
  BY <1>1, <1>3, StillHeeds
<1>4. ASSUME Become(IF running.call \in GroupCall THEN silenceCurrentReset(St) ELSE St)
      PROVE  HeedsStep
  <2> PICK t : t = IF running.call \in GroupCall THEN silenceCurrentReset(St) ELSE St
    OBVIOUS
  <2>1. \A g \in Group : Heeds(St, t, g)
    BY <1>1, ResetAnswers, AnswersComposes, AnswersHeeds
  <2> QED BY <1>1, <1>4, <2>1, BecomeHeeds
<1> QED BY <1>2, <1>3, <1>4 DEF CallbackStep

(* Every step of the program.                                              *)
LEMMA NextHeeds ==
  ASSUME TreeInv, ~GlobalFlag \/ NeverCancelled, [Next]_vars
  PROVE  HeedsStep
<1>1. IInv /\ WalkInv /\ St \in State
  BY DEF TreeInv, IInv, TypeOK
<1>2. CASE Next
  <2>1. CASE EndPend
    BY <1>1, <2>1, StillHeeds DEF EndPend
  <2> QED BY <1>1, <1>2, <2>1, ChannelAccessHeeds, OperatorHeeds, CallbackStepHeeds DEF Next
<1>3. CASE UNCHANGED vars
  BY <1>1, <1>3, StillHeeds DEF vars
<1> QED BY <1>2, <1>3

(* Whatever the masks, the highest unacknowledged severities are those of  *)
(* the counters.                                                           *)
TopsInv == TreeInv /\ TopsExact(St)

(* TopsInv is inductive.                                                   *)
LEMMA TopsInvInductive == (Init => TopsInv) /\ (TopsInv /\ [Next]_vars => TopsInv')
<1>1. Init => TopsInv
  BY TreeInvSteps, InitCounts DEF TopsInv, UnackGood
<1>2. ASSUME TopsInv, [Next]_vars PROVE TopsInv'
  <2>1. TreeInv' /\ TreeStep(St, St') /\ St \in State
    BY <1>2, TreeInvSteps DEF TopsInv
  <2>2. ASSUME NEW c \in Chan, Frame(St, St', c) PROVE TopsExact(St')
    BY <1>2, <2>2 DEF TopsInv, Frame
  <2>3. ASSUME St'.group = St.group PROVE TopsExact(St')
    BY <1>2, <2>3 DEF TopsInv, TopsExact
  <2>4. ASSUME NEW n, NEW new, BeepSevrSet(St, St', n, new) PROVE TopsExact(St')
    BY <1>2, <2>4 DEF TopsInv, BeepSevrSet
  <2>5. TopsExact(St')
    BY <2>1, <2>2, <2>3, <2>4 DEF TreeStep, InStep, Moved, MaskStep
  <2> QED BY <2>1, <2>5 DEF TopsInv
<1> QED BY <1>1, <1>2

(* In global mode, in every tree whose channels are never cancelled: when  *)
(* the severity of a group changes, so does its severity PV, unless a      *)
(* channel below is being disabled.                                        *)
THEOREM GroupPVsFollow ==
  ASSUME NeverCancelled
  PROVE  Spec => GroupSevrPVFollows
<1>1. ASSUME TreeInv, [Next]_vars
      PROVE  \A g \in Group :
               /\ GlobalFlag /\ ~PassiveFlag
               /\ \A c \in ChannelsBelow(g) :
                    "Disable" \in chan'[c].curMask => "Disable" \in chan[c].curMask
               /\ group'[g].curSevr # group[g].curSevr
               => group'[g].sevrPV = group'[g].curSevr
  <2>1. HeedsStep
    BY <1>1, NextHeeds
  <2> QED BY <2>1 DEF HeedsStep, Heeds, NoneDisabled, St
<1>2. TreeInv /\ [Next]_vars =>
        [\A g \in Group :
           /\ GlobalFlag /\ ~PassiveFlag
           /\ \A c \in ChannelsBelow(g) :
                "Disable" \in chan'[c].curMask => "Disable" \in chan[c].curMask
           /\ group'[g].curSevr # group[g].curSevr
           => group'[g].sevrPV = group'[g].curSevr]_vars
  BY <1>1
<1>3. (Init => TreeInv) /\ (TreeInv /\ [Next]_vars => TreeInv')
  BY TreeInvSteps
<1> QED BY <1>2, <1>3, PTL DEF Spec, GroupSevrPVFollows

(* In local mode, in every tree and for all masks: a step that makes the   *)
(* main group louder, and changes no beep severity, ends the silence.      *)
THEOREM AlarmEndsSilence ==
  ASSUME ~GlobalFlag
  PROVE  Spec => NewAlarmEndsSilence
<1>1. ASSUME TopsInv, [Next]_vars
      PROVE  (/\ group'[Root].unackBeepSevr > group[Root].unackBeepSevr
              /\ group'[Root].unackBeepSevr >= psetup.beepSevr
              /\ \A c \in Chan : chan'[c].beepSevr = chan[c].beepSevr
              /\ \A g \in Group : group'[g].beepSevr = group[g].beepSevr)
             => ~psetup'.silenceCurrent
  <2>1. Root \in Group /\ Anc[Root] = {}
    BY TreeAssumption DEF Root
  <2>2. HeedsStep
    BY <1>1, NextHeeds DEF TopsInv
  <2>3. BeepTop(St, Root)
    BY <1>1, <2>1 DEF TopsInv, TopsExact, BeepTop
  <2>4. (/\ \A c \in Chan : chan'[c].beepSevr = chan[c].beepSevr
         /\ \A g \in Group : group'[g].beepSevr = group[g].beepSevr)
        => SameBeepSevrs(St, St')
    BY DEF SameBeepSevrs, BeepSevr, Node, St
  <2> QED BY <2>1, <2>2, <2>3, <2>4 DEF HeedsStep, Heeds, Louder, St
<1>2. TopsInv /\ [Next]_vars =>
        [(/\ group'[Root].unackBeepSevr > group[Root].unackBeepSevr
          /\ group'[Root].unackBeepSevr >= psetup.beepSevr
          /\ \A c \in Chan : chan'[c].beepSevr = chan[c].beepSevr
          /\ \A g \in Group : group'[g].beepSevr = group[g].beepSevr)
         => ~psetup'.silenceCurrent]_vars
  BY <1>1
<1>3. (Init => TopsInv) /\ (TopsInv /\ [Next]_vars => TopsInv')
  BY TopsInvInductive
<1> QED BY <1>2, <1>3, PTL DEF Spec, NewAlarmEndsSilence

=============================================================================
