------------------------------- MODULE NoAck -------------------------------
(***************************************************************************)
(* noAck.c: "NoAck for one hour".  The operator sets the Ack mask of a     *)
(* channel, or of all channels below a group, and a timer of that node     *)
(* resets it.  Timers of groups and of channels below them run side by     *)
(* side, and other callbacks change the same masks meanwhile.              *)
(*                                                                         *)
(* Of the tree only the masks are kept: what a mask does to the alarm of   *)
(* its channel is in AlarmOps (alChangeChanMask ends in curMask = mask,    *)
(* and masks change in no other way).  An hour is Hour ticks of a clock.   *)
(***************************************************************************)
EXTENDS Integers, FiniteSets

CONSTANTS
  Chan, Group,   \* the channels and the groups of the tree
  Anc,           \* Anc[n]: the groups above n
  DefaultMask,   \* DefaultMask[c]: the mask of c in the configuration file
  MaskBit,       \* the bits of a mask, of "Cancel", "Disable", "Ack", "AckT", "Log"
  Hour,          \* the time a NoAck timer runs
  NoAckNode,     \* bound: the nodes for which the operator asks for NoAck
  OtherMask      \* bound: the masks the operator makes up in the force mask window

VARIABLES
  curMask,       \* curMask[c]
  noAckTimerId,  \* noAckTimerId[n]: the time its timer has still to run, or NoTimer
  selectionLink, \* the node selected in the windows
  noAckDialog,   \* the dialog: managed, the toggle and the toggle in the menu
  noAckSince     \* observation: time since the operator set NoAck for c, or Never

NoAckVars == <<curMask, noAckTimerId, selectionLink, noAckDialog, noAckSince>>

Node == Chan \cup Group
NoTimer == -1
Never == -1

ASSUME NoAckNodes ==
  /\ IsFiniteSet(Chan) /\ IsFiniteSet(Group) /\ Chan \cap Group = {}
  /\ Anc \in [Node -> SUBSET Group]
  /\ \A n \in Node : /\ n \notin Anc[n]
                     /\ \A g \in Anc[n] : Anc[g] \subseteq Anc[n]
                     /\ \A g, h \in Anc[n] : g = h \/ g \in Anc[h] \/ h \in Anc[g]
ASSUME NoAckMasks ==
  /\ "Ack" \in MaskBit
  /\ DefaultMask \in [Chan -> SUBSET MaskBit] /\ OtherMask \subseteq SUBSET MaskBit
  /\ Hour \in Nat \ {0} /\ NoAckNode \subseteq Node

Path(n) == Anc[n] \cup {n}                   \* n and the groups above it
Subtree(n) == {m \in Node : n \in Path(m)}   \* n and what is below it
ChansOf(n) == Chan \cap Subtree(n)

NoAckTypeOK ==
  /\ curMask \in [Chan -> SUBSET MaskBit]
  /\ noAckTimerId \in [Node -> {NoTimer} \cup 0 .. Hour]
  /\ selectionLink \in Node
  /\ noAckDialog \in [managed : BOOLEAN, toggle : BOOLEAN, menuButton : BOOLEAN]
  /\ noAckSince \in [Chan -> {Never} \cup 0 .. Hour + 1]

NoAckInit ==
  /\ curMask = DefaultMask
  /\ noAckTimerId = [n \in Node |-> NoTimer]
  /\ selectionLink \in {g \in Group : Anc[g] = {}}
  /\ noAckDialog = [managed |-> FALSE, toggle |-> FALSE, menuButton |-> FALSE]
  /\ noAckSince = [c \in Chan |-> Never]

----------------------------------------------------------------------------
(* The dialog shows the selected node.  Every callback that changes what   *)
(* it shows ends in axUpdateDialogs.                                       *)

\* noAckUpdateDialogWidgets, for the selection and the timers after the callback
ToggleOf(link, timers) == timers[link] # NoTimer

\* noAckUpdateDialog
UpdatedNoAck(link, timers) ==
  IF noAckDialog.managed THEN [noAckDialog EXCEPT !.toggle = ToggleOf(link, timers)]
  ELSE noAckDialog

\* noAckShowDialog: the menu item opens the dialog, or dismisses it
NoAckShowDialog ==
  /\ ~noAckDialog.managed /\ NoAckNode # {}
  /\ noAckDialog' = [managed |-> TRUE, menuButton |-> TRUE,
                     toggle |-> ToggleOf(selectionLink, noAckTimerId)]
  /\ UNCHANGED <<curMask, noAckTimerId, selectionLink, noAckSince>>

NoAckDismiss ==
  /\ noAckDialog.managed
  /\ noAckDialog' = [noAckDialog EXCEPT !.managed = FALSE, !.menuButton = FALSE]
  /\ UNCHANGED <<curMask, noAckTimerId, selectionLink, noAckSince>>

\* a click on another name: markSelection, axUpdateDialogs
NoAckSelect(n) ==
  /\ selectionLink # n /\ selectionLink' = n
  /\ noAckDialog' = UpdatedNoAck(n, noAckTimerId)
  /\ UNCHANGED <<curMask, noAckTimerId, noAckSince>>

----------------------------------------------------------------------------
(* Timers and masks.                                                       *)

\* mutant: only the timer of the group itself is removed
alRemoveNoAck1HrTimer_Own(n, timers) == [timers EXCEPT ![n] = NoTimer]

\* alRemoveNoAck1HrTimerChan and ...Group: no timer at n and below is left
alRemoveNoAck1HrTimer(n, timers) ==
  [m \in Node |-> IF m \in Subtree(n) THEN NoTimer ELSE timers[m]]

\* the channels alResetNoAckGroup(n) reaches: it leaves out nodes with a timer of their own
ResetBy(n, timers) ==
  {c \in ChansOf(n) : \A m \in Path(c) \cap Subtree(n) : timers[m] = NoTimer}

\* alResetNoAckChan, for each channel of S
ResetAck(S) ==
  curMask' = [c \in Chan |-> IF c \in S
                             THEN (curMask[c] \ {"Ack"}) \cup (DefaultMask[c] \cap {"Ack"})
                             ELSE curMask[c]]

\* alForceChanMask and alForceGroupMask(n, ALARMACK, 1)
ForceAck(n) ==
  curMask' = [c \in Chan |-> IF c \in ChansOf(n) THEN curMask[c] \cup {"Ack"} ELSE curMask[c]]

Since(S, t) == noAckSince' = [c \in Chan |-> IF c \in S THEN t ELSE noAckSince[c]]

\* mutant: the timer is started before the timers below are removed
ActivateOn_RemoveLast ==
  LET timers == alRemoveNoAck1HrTimer(selectionLink, [noAckTimerId EXCEPT ![selectionLink] = Hour])
  IN  /\ noAckDialog.managed /\ ~noAckDialog.toggle /\ selectionLink \in NoAckNode
      /\ ForceAck(selectionLink)
      /\ Since(ChansOf(selectionLink), 0)
      /\ noAckTimerId' = timers
      /\ noAckDialog' = [noAckDialog EXCEPT !.toggle = ToggleOf(selectionLink, timers)]
      /\ UNCHANGED selectionLink

\* noAckActivateCallback for a toggle that goes on
ActivateOn ==
  LET timers == [alRemoveNoAck1HrTimer(selectionLink, noAckTimerId)
                   EXCEPT ![selectionLink] = Hour]
  IN  /\ noAckDialog.managed /\ ~noAckDialog.toggle /\ selectionLink \in NoAckNode
      /\ ForceAck(selectionLink)
      /\ Since(ChansOf(selectionLink), 0)
      /\ noAckTimerId' = timers
      /\ noAckDialog' = [noAckDialog EXCEPT !.toggle = ToggleOf(selectionLink, timers)]
      /\ UNCHANGED selectionLink

\* and for one that goes off
ActivateOff ==
  LET timers == [noAckTimerId EXCEPT ![selectionLink] = NoTimer]
      reset == ResetBy(selectionLink, timers)
  IN  /\ noAckDialog.managed /\ noAckDialog.toggle
      /\ ResetAck(reset)
      /\ Since(reset, Never)
      /\ noAckTimerId' = timers
      /\ noAckDialog' = [noAckDialog EXCEPT !.toggle = ToggleOf(selectionLink, timers)]
      /\ UNCHANGED selectionLink

\* noAckOneHourTimerChanCallback and ...GroupCallback
Expire(n) == noAckTimerId[n] = 0 /\ noAckTimerId' = [noAckTimerId EXCEPT ![n] = NoTimer]
TimeOut(n) ==
  LET timers == [noAckTimerId EXCEPT ![n] = NoTimer]
      reset == ResetBy(n, timers)
  IN  /\ Expire(n)
      /\ ResetAck(reset)
      /\ Since({c \in reset : noAckSince[c] = Hour}, Never)
      /\ noAckDialog' = UpdatedNoAck(selectionLink, timers)
      /\ UNCHANGED selectionLink

(* The mask windows give masks to the channels below the selected node.    *)

\* mutant: the NoAck dialog is not updated
ChangeMask_Shown(mask, timers, ended) ==
  /\ curMask' = [c \in Chan |-> IF c \in ChansOf(selectionLink) THEN mask[c] ELSE curMask[c]]
  /\ noAckTimerId' = timers
  /\ Since(ended, Never)
  /\ UNCHANGED <<selectionLink, noAckDialog>>

\* the masks are changed and the windows updated
ChangeMask(mask, timers, ended) ==
  /\ curMask' = [c \in Chan |-> IF c \in ChansOf(selectionLink) THEN mask[c] ELSE curMask[c]]
  /\ noAckTimerId' = timers
  /\ Since(ended, Never)
  /\ noAckDialog' = UpdatedNoAck(selectionLink, timers)
  /\ UNCHANGED selectionLink

\* a NoAck of the node and below is over: what runs on are the timers of groups above
ChangeMaskNoTimers(mask) ==
  ChangeMask(mask, alRemoveNoAck1HrTimer(selectionLink, noAckTimerId), ChansOf(selectionLink))

\* forceMaskApplyCallback and forceMaskResetCallback
ForceMaskApply(mask) == ChangeMaskNoTimers([c \in Chan |-> mask])
ForceMaskReset == ChangeMaskNoTimers(DefaultMask)

\* maskActivateCallback: one bit goes on or off; the timers go only with the Ack bit
MaskActivate(bit, on) ==
  LET mask == [c \in Chan |-> IF on THEN curMask[c] \cup {bit} ELSE curMask[c] \ {bit}]
  IN  IF bit = "Ack" THEN ChangeMaskNoTimers(mask) ELSE ChangeMask(mask, noAckTimerId, {})

MaskWindows ==
  \/ \E mask \in OtherMask : ForceMaskApply(mask)
  \/ ForceMaskReset
  \/ \E bit \in MaskBit, on \in BOOLEAN : MaskActivate(bit, on)

(* Timers that are due run before the clock goes on: XtAppAddTimeOut keeps *)
(* them in the order of their times, a tick is longer than any callback.   *)
Clock ==
  /\ \A n \in Node : noAckTimerId[n] # 0
  /\ noAckTimerId' = [n \in Node |-> IF noAckTimerId[n] = NoTimer THEN NoTimer
                                     ELSE noAckTimerId[n] - 1]
  /\ noAckSince' = [c \in Chan |-> IF noAckSince[c] \in {Never, Hour + 1} THEN noAckSince[c]
                                   ELSE noAckSince[c] + 1]
Tick == Clock /\ UNCHANGED <<curMask, selectionLink, noAckDialog>>

NoAckOperator ==
  \/ NoAckShowDialog \/ NoAckDismiss \/ ActivateOn \/ ActivateOff
  \/ \E n \in Node : NoAckSelect(n)

NoAckNext ==
  \/ NoAckOperator
  \/ Tick
  \/ \E n \in Node : TimeOut(n)
  \/ MaskWindows

(* The clock goes on and the event loop serves each timer: Tick and        *)
(* TimeOut are enabled when Clock and Expire are, only Tick does Clock,    *)
(* and what else does Expire removes the timer that is due.                *)
NoAckFairness ==
  WF_<<noAckTimerId, noAckSince>>(Clock) /\ \A n \in Node : WF_noAckTimerId(Expire(n))

NoAckSpec == NoAckInit /\ [][NoAckNext]_NoAckVars /\ NoAckFairness

----------------------------------------------------------------------------
\* the timers over c that no timer nearer to c hides
Nearest(c) ==
  {n \in Path(c) : /\ noAckTimerId[n] # NoTimer
                   /\ \A m \in Path(c) : n \in Anc[m] => noAckTimerId[m] = NoTimer}

(* An Ack mask that NoAck set, and nobody changed since, has a timer that  *)
(* ends it one hour after it was set: no timer of another node ends it     *)
(* earlier, and none is missing.                                           *)
NoAckLastsAnHour ==
  \A c \in Chan : noAckSince[c] # Never =>
     /\ "Ack" \in curMask[c]
     /\ Nearest(c) # {}
     /\ \A n \in Nearest(c) : noAckTimerId[n] + noAckSince[c] = Hour

(* The toggle of the dialog says whether the selected node has a timer:    *)
(* pressing it starts the timer that is not there, or stops the one that   *)
(* is (noAckActivateCallback acts on the new state of the toggle).         *)
ToggleShowsTimer ==
  noAckDialog.managed => noAckDialog.toggle = (noAckTimerId[selectionLink] # NoTimer)

(* No channel stays without acknowledgement: NoAck ends, or the operator   *)
(* asked for another hour.                                                 *)
NoAckEnds == \A c \in Chan : noAckSince[c] = 1 ~> noAckSince[c] \in {Never, 0}

=============================================================================
