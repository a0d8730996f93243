--------------------------- MODULE ForcePVProofs ---------------------------
(***************************************************************************)
(* Proofs about the NoAck timers, and about the force PVs and their        *)
(* dialog, for every tree, every configuration, all values and             *)
(* expressions, and whatever the operator makes of the fields.             *)
(***************************************************************************)
EXTENDS ForcePV, TLAPS

----------------------------------------------------------------------------
(* The NoAck timers, for every tree, every length of the hour and every    *)
(* configuration.                                                          *)

(* NoAckLastsAnHour is inductive once the variables have their types: a    *)
(* timer that is due is the nearest one of the channels it resets.         *)
NoAckInv == NoAckTypeOK /\ NoAckLastsAnHour /\ ToggleShowsTimer

(* What NoAckLastsAnHour says of one channel, for given timers.            *)
NearestOf(c, timers) ==
  {n \in Path(c) : /\ timers[n] # NoTimer
                   /\ \A m \in Path(c) : n \in Anc[m] => timers[m] = NoTimer}
Lasts(c, mask, timers, since) ==
  since # Never =>
    /\ "Ack" \in mask
    /\ NearestOf(c, timers) # {}
    /\ \A n \in NearestOf(c, timers) : timers[n] + since = Hour

----------------------------------------------------------------------------
(* The tree.                                                               *)

\* The path of a node to the root begins with the node.
LEMMA PathType ==
  ASSUME NEW n \in Node
  PROVE  Path(n) \subseteq Node /\ n \in Path(n)
BY NoAckNodes DEF Path, Node

(* Two nodes above a channel lie one above the other.                      *)
LEMMA PathChain ==
  ASSUME NEW c \in Node, NEW s \in Path(c), NEW m \in Path(c)
  PROVE  m \in Subtree(s) \/ m \in Anc[s]
BY NoAckNodes, PathType DEF Path, Subtree, Node

(* What is below a node of the path of c is below by its own path.         *)
LEMMA PathUp ==
  ASSUME NEW c \in Node, NEW m \in Path(c), NEW s \in Path(m)
  PROVE  s \in Path(c)
BY NoAckNodes, PathType DEF Path, Node

(* A path through s holds s, and only then nodes below s.                  *)
LEMMA OutsideSubtree ==
  ASSUME NEW c \in Node, NEW s \in Node, c \notin Subtree(s)
  PROVE  Path(c) \cap Subtree(s) = {}
<1> SUFFICES ASSUME NEW m \in Path(c), m \in Subtree(s) PROVE FALSE
  OBVIOUS
<1>1. s \in Path(m)
  BY DEF Subtree
<1>2. s \in Path(c)
  BY <1>1, PathUp
<1> QED BY <1>2 DEF Subtree

----------------------------------------------------------------------------
(* The timers over a channel after each change of timers.                  *)

(* Timers elsewhere do not matter.                                         *)
LEMMA NearestLocal ==
  ASSUME NEW c \in Node, NEW t, NEW u, \A n \in Path(c) : t[n] = u[n]
  PROVE  NearestOf(c, t) = NearestOf(c, u)
BY DEF NearestOf

(* A timer started at s, with none below, is the nearest.                  *)
LEMMA NearestStarted ==
  ASSUME NEW c \in Node, NEW s \in Path(c), NEW t,
         t[s] # NoTimer, \A m \in Path(c) \cap Subtree(s) : m # s => t[m] = NoTimer
  PROVE  NearestOf(c, t) = {s}
<1>1. s \in Node
  BY PathType
<1>2. \A m \in Path(c) : s \in Anc[m] => m \in Subtree(s) /\ m # s
  BY <1>1, NoAckNodes, PathType DEF Subtree, Path
<1>3. s \in NearestOf(c, t)
  BY <1>2 DEF NearestOf
<1>4. ASSUME NEW n \in NearestOf(c, t), n # s PROVE FALSE
  <2>1. n \in Path(c) /\ t[n] # NoTimer /\ (n \in Anc[s] => t[s] = NoTimer)
    BY <1>4 DEF NearestOf
  <2>2. n \in Subtree(s) \/ n \in Anc[s]
    BY <2>1, PathChain
  <2> QED BY <2>1, <2>2, <1>4
<1> QED BY <1>3, <1>4

(* The end of the timer of s leaves the nearest timer of a channel that    *)
(* has one below s.                                                        *)
LEMMA NearestStays ==
  ASSUME NEW c \in Node, NEW s \in Path(c), NEW t \in [Node -> Int],
         NEW k \in Path(c) \cap Subtree(s), k # s, t[k] # NoTimer
  PROVE  NearestOf(c, [t EXCEPT ![s] = NoTimer]) = NearestOf(c, t)
<1> DEFINE u == [t EXCEPT ![s] = NoTimer]
<1>1. Path(c) \subseteq Node
  BY PathType
<1>2. \A n \in Path(c) : u[n] = IF n = s THEN NoTimer ELSE t[n]
  BY <1>1
<1>3. s \in Anc[k]
  BY DEF Subtree, Path
<1>4. s \notin NearestOf(c, t) /\ s \notin NearestOf(c, u)
  BY <1>2, <1>3 DEF NearestOf
<1>5. ASSUME NEW n \in Path(c), n # s
      PROVE  n \in NearestOf(c, u) <=> n \in NearestOf(c, t)
  <2>1. u[n] = t[n]
    BY <1>2, <1>5
  <2>2. CASE n \in Anc[s]
    <3>1. n \in Anc[k]
      BY <1>1, <1>3, <2>2, NoAckNodes
    <3>2. u[k] # NoTimer
      BY <1>2
    <3> QED BY <3>1, <3>2 DEF NearestOf
  <2>3. CASE n \notin Anc[s]
    <3> HIDE DEF u
    <3> QED BY <1>2, <2>1, <2>3 DEF NearestOf
  <2> QED BY <2>2, <2>3
<1> QED BY <1>4, <1>5 DEF NearestOf

----------------------------------------------------------------------------
(* Each action, channel by channel.                                        *)

NoAckLasts ==
  \A c \in Chan : Lasts(c, curMask[c], noAckTimerId, noAckSince[c])

\* NoAckLastsAnHour, as a statement about each channel's values.
LEMMA LastsAnHour == NoAckLastsAnHour <=> NoAckLasts
BY DEF NoAckLastsAnHour, NoAckLasts, Lasts, Nearest, NearestOf

\* At the start there is no timer.
LEMMA NoAckInitInv == NoAckInit => NoAckInv
<1> SUFFICES ASSUME NoAckInit PROVE NoAckInv
  OBVIOUS
<1>1. NoAckTypeOK
  BY NoAckMasks DEF NoAckInit, NoAckTypeOK, Node
<1> QED BY <1>1 DEF NoAckInit, NoAckInv, NoAckLastsAnHour, ToggleShowsTimer

(* Types of the functions that the actions build.                          *)
LEMMA TimersType ==
  ASSUME NEW n \in Node, NEW timers \in [Node -> {NoTimer} \cup 0 .. Hour]
  PROVE  /\ [timers EXCEPT ![n] = NoTimer] \in [Node -> {NoTimer} \cup 0 .. Hour]
         /\ [timers EXCEPT ![n] = Hour] \in [Node -> {NoTimer} \cup 0 .. Hour]
         /\ alRemoveNoAck1HrTimer(n, timers) \in [Node -> {NoTimer} \cup 0 .. Hour]
BY NoAckMasks DEF alRemoveNoAck1HrTimer

\* Resetting the Ack bit gives masks.
LEMMA ResetAckType ==
  ASSUME NoAckTypeOK, NEW S, ResetAck(S)
  PROVE  curMask' \in [Chan -> SUBSET MaskBit]
BY NoAckMasks DEF NoAckTypeOK, ResetAck

\* The age of a NoAck stays in its range.
LEMMA SinceType ==
  ASSUME NoAckTypeOK, NEW S, NEW t \in {Never} \cup 0 .. Hour + 1, Since(S, t)
  PROVE  noAckSince' \in [Chan -> {Never} \cup 0 .. Hour + 1]
BY DEF NoAckTypeOK, Since

(* The dialog of ToggleShowsTimer after a callback.                        *)
LEMMA UpdatedToggle ==
  ASSUME NoAckTypeOK, NEW n \in Node, NEW timers
  PROVE  /\ UpdatedNoAck(n, timers) \in [managed : BOOLEAN, toggle : BOOLEAN, menuButton : BOOLEAN]
         /\ UpdatedNoAck(n, timers).managed
              => UpdatedNoAck(n, timers).toggle = (timers[n] # NoTimer)
BY DEF NoAckTypeOK, UpdatedNoAck, ToggleOf

(* Opening and closing the dialog, and selecting another node.             *)
LEMMA DialogKeeps ==
  ASSUME NoAckInv, NoAckShowDialog \/ NoAckDismiss \/ \E n \in Node : NoAckSelect(n)
  PROVE  NoAckInv'
<1>1. UNCHANGED <<curMask, noAckTimerId, noAckSince>>
  BY DEF NoAckShowDialog, NoAckDismiss, NoAckSelect
<1>2. NoAckLastsAnHour'
  BY <1>1 DEF NoAckInv, NoAckLastsAnHour, Nearest
<1>3. CASE NoAckShowDialog
  BY <1>1, <1>2, <1>3
  DEF NoAckInv, NoAckTypeOK, NoAckShowDialog, ToggleShowsTimer, ToggleOf
<1>4. CASE NoAckDismiss
  BY <1>1, <1>2, <1>4 DEF NoAckInv, NoAckTypeOK, NoAckDismiss, ToggleShowsTimer
<1>5. ASSUME NEW n \in Node, NoAckSelect(n) PROVE NoAckInv'
  <2>1. /\ selectionLink' = n
        /\ noAckDialog' = UpdatedNoAck(n, noAckTimerId)
    BY <1>5 DEF NoAckSelect
  <2>2. /\ noAckDialog' \in [managed : BOOLEAN, toggle : BOOLEAN, menuButton : BOOLEAN]
        /\ noAckDialog'.managed => noAckDialog'.toggle = (noAckTimerId[n] # NoTimer)
    BY <2>1, UpdatedToggle DEF NoAckInv
  <2> QED BY <1>1, <1>2, <2>1, <2>2 DEF NoAckInv, NoAckTypeOK, ToggleShowsTimer
<1> QED BY <1>3, <1>4, <1>5

(* The toggle goes on: the timer of the selected node is the nearest of    *)
(* all channels below it, and others keep theirs.                          *)
LEMMA ActivateOnKeeps ==
  ASSUME NoAckInv, ActivateOn
  PROVE  NoAckInv'
<1> DEFINE s == selectionLink
           timers == [alRemoveNoAck1HrTimer(s, noAckTimerId) EXCEPT ![s] = Hour]
<1>1. s \in Node /\ Hour \in Nat \ {0}
  BY NoAckMasks DEF NoAckInv, NoAckTypeOK
<1>2. /\ noAckTimerId' = timers
      /\ ForceAck(s)
      /\ Since(ChansOf(s), 0)
      /\ noAckDialog' = [noAckDialog EXCEPT !.toggle = ToggleOf(s, timers)]
      /\ UNCHANGED selectionLink
  BY DEF ActivateOn
<1>3. \A n \in Node : timers[n] = IF n = s THEN Hour
                                  ELSE IF n \in Subtree(s) THEN NoTimer ELSE noAckTimerId[n]
  BY <1>1 DEF alRemoveNoAck1HrTimer
<1>4. NoAckTypeOK'
  <2>1. timers \in [Node -> {NoTimer} \cup 0 .. Hour]
    BY <1>1, TimersType DEF NoAckInv, NoAckTypeOK
  <2>2. curMask' \in [Chan -> SUBSET MaskBit]
    BY <1>2, NoAckMasks DEF ForceAck, NoAckInv, NoAckTypeOK
  <2>3. noAckSince' \in [Chan -> {Never} \cup 0 .. Hour + 1]
    BY <1>1, <1>2, SinceType DEF NoAckInv
  <2> QED BY <1>2, <2>1, <2>2, <2>3 DEF NoAckInv, NoAckTypeOK, ToggleOf
<1>5. ASSUME NEW c \in Chan PROVE Lasts(c, curMask'[c], timers, noAckSince'[c])
  <2>1. Path(c) \subseteq Node /\ c \in Node
    BY PathType DEF Node
  <2>2. CASE c \in Subtree(s)
    <3>1. s \in Path(c)
      BY <2>2 DEF Subtree
    <3>2. NearestOf(c, timers) = {s}
      <4> HIDE DEF timers
      <4> QED BY <1>1, <1>3, <2>1, <3>1, NearestStarted DEF NoTimer
    <3>3. "Ack" \in curMask'[c] /\ noAckSince'[c] = 0
      BY <1>2, <2>2 DEF ForceAck, Since, ChansOf
    <3> HIDE DEF timers
    <3> QED BY <1>1, <1>3, <3>2, <3>3 DEF Lasts
  <2>3. CASE c \notin Subtree(s)
    <3>1. \A n \in Path(c) : timers[n] = noAckTimerId[n]
      <4>1. s \in Subtree(s)
        BY <1>1, PathType DEF Subtree
      <4> HIDE DEF timers
      <4> QED BY <1>1, <1>3, <2>1, <2>3, <4>1, OutsideSubtree
    <3>2. NearestOf(c, timers) = NearestOf(c, noAckTimerId)
      BY <2>1, <3>1, NearestLocal
    <3>3. curMask'[c] = curMask[c] /\ noAckSince'[c] = noAckSince[c]
      BY <1>2, <2>3 DEF ForceAck, Since, ChansOf
    <3>4. Lasts(c, curMask[c], noAckTimerId, noAckSince[c])
      BY LastsAnHour DEF NoAckInv, NoAckLasts
    <3>5. \A n \in NearestOf(c, timers) : timers[n] = noAckTimerId[n]
      BY <3>1 DEF NearestOf
    <3> HIDE DEF timers
    <3> QED BY <3>2, <3>3, <3>4, <3>5 DEF Lasts
  <2> QED BY <2>2, <2>3
<1>6. NoAckLastsAnHour'
  BY <1>2, <1>5 DEF NoAckLastsAnHour, Lasts, Nearest, NearestOf
<1>7. ToggleShowsTimer'
  BY <1>2 DEF NoAckInv, NoAckTypeOK, ToggleShowsTimer, ToggleOf
<1> QED BY <1>4, <1>6, <1>7 DEF NoAckInv

(* The timer of s ends, by the operator or by itself: the channels it      *)
(* resets have no running hour left, and for all others another timer goes *)
(* on.                                                                     *)
LEMMA TimerEnds ==
  ASSUME NoAckTypeOK, NoAckLasts, NEW s \in Node, NEW timers, NEW T,
         timers = [noAckTimerId EXCEPT ![s] = NoTimer],
         T \subseteq ResetBy(s, timers),
         \A c \in ResetBy(s, timers) : c \in T \/ noAckSince[c] = Never,
         ResetAck(ResetBy(s, timers)), Since(T, Never)
  PROVE  \A c \in Chan : Lasts(c, curMask'[c], timers, noAckSince'[c])
<1> DEFINE reset == ResetBy(s, timers)
<1>1. \A n \in Node : timers[n] = IF n = s THEN NoTimer ELSE noAckTimerId[n]
  BY DEF NoAckTypeOK
<1> SUFFICES ASSUME NEW c \in Chan PROVE Lasts(c, curMask'[c], timers, noAckSince'[c])
  OBVIOUS
<1>2. Path(c) \subseteq Node /\ c \in Node
  BY PathType DEF Node
<1>3. CASE c \in reset
  <2>1. noAckSince'[c] = Never
    BY <1>3 DEF Since
  <2> QED BY <2>1 DEF Lasts
<1>4. ASSUME c \notin reset, NearestOf(c, timers) = NearestOf(c, noAckTimerId)
      PROVE  Lasts(c, curMask'[c], timers, noAckSince'[c])
  <2>1. curMask'[c] = curMask[c] /\ noAckSince'[c] = noAckSince[c]
    BY <1>4 DEF ResetAck, Since
  <2>2. Lasts(c, curMask[c], noAckTimerId, noAckSince[c])
    BY DEF NoAckLasts
  <2>3. \A n \in NearestOf(c, timers) : timers[n] = noAckTimerId[n]
    BY <1>1, <1>2 DEF NearestOf
  <2> QED BY <1>4, <2>1, <2>2, <2>3 DEF Lasts
<1>5. CASE c \in ChansOf(s) /\ c \notin reset
  <2>1. PICK k \in Path(c) \cap Subtree(s) : timers[k] # NoTimer
    BY <1>5 DEF ResetBy
  <2>2. k # s /\ noAckTimerId[k] # NoTimer
    BY <1>1, <1>2, <2>1
  <2>3. s \in Path(c)
    BY <1>5 DEF ChansOf, Subtree
  <2>4. noAckTimerId \in [Node -> Int]
    BY NoAckMasks DEF NoAckTypeOK, NoTimer
  <2>5. NearestOf(c, timers) = NearestOf(c, noAckTimerId)
    BY <1>2, <2>2, <2>3, <2>4, NearestStays
  <2> QED BY <1>4, <1>5, <2>5
<1>6. CASE c \notin ChansOf(s)
  <2>1. c \notin Subtree(s) /\ c \notin reset
    BY <1>6 DEF ChansOf, ResetBy
  <2>2. s \in Subtree(s)
    BY PathType DEF Subtree
  <2>3. \A n \in Path(c) : timers[n] = noAckTimerId[n]
    BY <1>1, <1>2, <2>1, <2>2, OutsideSubtree
  <2>4. NearestOf(c, timers) = NearestOf(c, noAckTimerId)
    BY <1>2, <2>3, NearestLocal
  <2> QED BY <1>4, <2>1, <2>4
<1> QED BY <1>3, <1>5, <1>6

(* The toggle goes off: the timer of the selected node ends early.         *)
LEMMA ActivateOffKeeps ==
  ASSUME NoAckInv, ActivateOff
  PROVE  NoAckInv'
<1> DEFINE s == selectionLink
           timers == [noAckTimerId EXCEPT ![s] = NoTimer]
           reset == ResetBy(s, timers)
<1>1. s \in Node /\ NoAckTypeOK
  BY DEF NoAckInv, NoAckTypeOK
<1>2. /\ noAckTimerId' = timers
      /\ ResetAck(reset)
      /\ Since(reset, Never)
      /\ noAckDialog' = [noAckDialog EXCEPT !.toggle = ToggleOf(s, timers)]
      /\ UNCHANGED selectionLink
  BY DEF ActivateOff
<1>3. timers \in [Node -> {NoTimer} \cup 0 .. Hour]
  BY <1>1, TimersType DEF NoAckTypeOK
<1>4. NoAckLasts
  BY LastsAnHour DEF NoAckInv
<1>5. \A c \in Chan : Lasts(c, curMask'[c], timers, noAckSince'[c])
  BY <1>1, <1>2, <1>4, TimerEnds
<1>6. NoAckTypeOK'
  <2>1. curMask' \in [Chan -> SUBSET MaskBit] /\ noAckSince' \in [Chan -> {Never} \cup 0 .. Hour + 1]
    BY <1>1, <1>2, ResetAckType, SinceType
  <2> HIDE DEF timers, reset
  <2> QED BY <1>1, <1>2, <1>3, <2>1 DEF NoAckTypeOK, ToggleOf
<1>7. NoAckLastsAnHour'
  BY <1>2, <1>5 DEF NoAckLastsAnHour, Lasts, Nearest, NearestOf
<1>8. ToggleShowsTimer'
  BY <1>1, <1>2 DEF NoAckTypeOK, ToggleShowsTimer, ToggleOf
<1> QED BY <1>6, <1>7, <1>8 DEF NoAckInv

(* A timer that is due: it is the nearest one of the channels it resets,   *)
(* so their hour is over.                                                  *)
LEMMA TimeOutKeeps ==
  ASSUME NoAckInv, NEW n \in Node, TimeOut(n)
  PROVE  NoAckInv'
<1> DEFINE timers == [noAckTimerId EXCEPT ![n] = NoTimer]
           reset == ResetBy(n, timers)
           T == {c \in reset : noAckSince[c] = Hour}
<1>1. NoAckTypeOK /\ NoAckLasts /\ Hour \in Nat \ {0}
  BY LastsAnHour, NoAckMasks DEF NoAckInv
<1>2. /\ noAckTimerId[n] = 0
      /\ noAckTimerId' = timers
      /\ ResetAck(reset)
      /\ Since(T, Never)
      /\ noAckDialog' = UpdatedNoAck(selectionLink, timers)
      /\ UNCHANGED selectionLink
  BY DEF TimeOut, Expire
<1>3. timers \in [Node -> {NoTimer} \cup 0 .. Hour]
  BY <1>1, TimersType DEF NoAckTypeOK
<1>4. ASSUME NEW c \in reset PROVE c \in T \/ noAckSince[c] = Never
  <2>1. c \in Chan /\ c \in Node /\ n \in Path(c)
    BY DEF ResetBy, ChansOf, Subtree, Node
  <2>2. \A m \in Path(c) \cap Subtree(n) : m # n => noAckTimerId[m] = NoTimer
    BY <1>1, <2>1, PathType DEF ResetBy, NoAckTypeOK
  <2>3. NearestOf(c, noAckTimerId) = {n}
    BY <1>2, <2>1, <2>2, NearestStarted DEF NoTimer
  <2>4. Lasts(c, curMask[c], noAckTimerId, noAckSince[c])
    BY <1>1, <2>1 DEF NoAckLasts
  <2>5. noAckSince[c] \in Int
    BY <1>1, <2>1 DEF NoAckTypeOK, Never
  <2> QED BY <1>1, <1>2, <2>3, <2>4, <2>5 DEF Lasts
<1>5. \A c \in Chan : Lasts(c, curMask'[c], timers, noAckSince'[c])
  <2>1. T \subseteq reset /\ \A c \in reset : c \in T \/ noAckSince[c] = Never
    BY <1>4
  <2> HIDE DEF T
  <2> QED BY <1>1, <1>2, <2>1, TimerEnds
<1>6. NoAckTypeOK' /\ ToggleShowsTimer'
  <2>1. curMask' \in [Chan -> SUBSET MaskBit] /\ noAckSince' \in [Chan -> {Never} \cup 0 .. Hour + 1]
    BY <1>1, <1>2, ResetAckType, SinceType
  <2>2. selectionLink \in Node
    BY <1>1 DEF NoAckTypeOK
  <2>3. /\ noAckDialog' \in [managed : BOOLEAN, toggle : BOOLEAN, menuButton : BOOLEAN]
        /\ noAckDialog'.managed => noAckDialog'.toggle = (timers[selectionLink] # NoTimer)
    BY <1>1, <1>2, <2>2, UpdatedToggle
  <2> HIDE DEF timers, reset, T
  <2> QED BY <1>2, <1>3, <2>1, <2>2, <2>3 DEF NoAckTypeOK, ToggleShowsTimer
<1>7. NoAckLastsAnHour'
  BY <1>2, <1>5 DEF NoAckLastsAnHour, Lasts, Nearest, NearestOf
<1> QED BY <1>6, <1>7 DEF NoAckInv

(* Masks from the operator: the timers of the node and below are removed   *)
(* and what they were started for is over, or the Ack bits stay and all    *)
(* timers run on.                                                          *)
LEMMA ChangeMaskKeeps ==
  ASSUME NoAckInv, NEW mask \in [Chan -> SUBSET MaskBit], NEW timers, NEW ended,
         ChangeMask(mask, timers, ended),
         \/ /\ timers = alRemoveNoAck1HrTimer(selectionLink, noAckTimerId)
            /\ ended = ChansOf(selectionLink)
         \/ /\ timers = noAckTimerId /\ ended = {}
            /\ \A c \in Chan : "Ack" \in curMask[c] => "Ack" \in mask[c]
  PROVE  NoAckInv'
<1> DEFINE s == selectionLink
<1>1. s \in Node /\ NoAckTypeOK /\ NoAckLasts
  BY LastsAnHour DEF NoAckInv, NoAckTypeOK
<1>2. /\ curMask' = [c \in Chan |-> IF c \in ChansOf(s) THEN mask[c] ELSE curMask[c]]
      /\ noAckTimerId' = timers
      /\ Since(ended, Never)
      /\ noAckDialog' = UpdatedNoAck(s, timers)
      /\ UNCHANGED selectionLink
  BY DEF ChangeMask
<1>3. NoAckTypeOK' /\ ToggleShowsTimer'
  <2>1. curMask' \in [Chan -> SUBSET MaskBit]
    BY <1>1, <1>2 DEF NoAckTypeOK
  <2>2. timers \in [Node -> {NoTimer} \cup 0 .. Hour]
    BY <1>1, TimersType DEF NoAckTypeOK
  <2>3. noAckSince' \in [Chan -> {Never} \cup 0 .. Hour + 1]
    BY <1>1, <1>2, SinceType
  <2>4. /\ noAckDialog' \in [managed : BOOLEAN, toggle : BOOLEAN, menuButton : BOOLEAN]
        /\ noAckDialog'.managed => noAckDialog'.toggle = (timers[s] # NoTimer)
    BY <1>1, <1>2, UpdatedToggle
  <2> QED BY <1>1, <1>2, <2>1, <2>2, <2>3, <2>4 DEF NoAckTypeOK, ToggleShowsTimer
<1>4. ASSUME NEW c \in Chan PROVE Lasts(c, curMask'[c], timers, noAckSince'[c])
  <2>1. Path(c) \subseteq Node /\ c \in Node
    BY PathType DEF Node
  <2>2. Lasts(c, curMask[c], noAckTimerId, noAckSince[c])
    BY <1>1 DEF NoAckLasts
  <2>3. CASE c \in ended
    BY <1>2, <2>3 DEF Since, Lasts
  <2>4. CASE timers = noAckTimerId /\ ended = {} /\ ("Ack" \in curMask[c] => "Ack" \in mask[c])
    <3>1. noAckSince'[c] = noAckSince[c] /\ ("Ack" \in curMask[c] => "Ack" \in curMask'[c])
      BY <1>2, <2>4 DEF Since
    <3> QED BY <2>2, <2>4, <3>1 DEF Lasts
  <2>5. CASE /\ timers = alRemoveNoAck1HrTimer(s, noAckTimerId) /\ ended = ChansOf(s)
             /\ c \notin ended
    <3>1. c \notin Subtree(s)
      BY <2>5 DEF ChansOf
    <3>2. \A n \in Path(c) : timers[n] = noAckTimerId[n]
      BY <1>1, <2>1, <2>5, <3>1, OutsideSubtree DEF alRemoveNoAck1HrTimer
    <3>3. NearestOf(c, timers) = NearestOf(c, noAckTimerId)
      BY <2>1, <3>2, NearestLocal
    <3>4. curMask'[c] = curMask[c] /\ noAckSince'[c] = noAckSince[c]
      BY <1>2, <2>5 DEF Since
    <3>5. \A n \in NearestOf(c, timers) : timers[n] = noAckTimerId[n]
      BY <3>2 DEF NearestOf
    <3> QED BY <2>2, <3>3, <3>4, <3>5 DEF Lasts
  <2> QED BY <2>3, <2>4, <2>5
<1>5. NoAckLastsAnHour'
  BY <1>2, <1>4 DEF NoAckLastsAnHour, Lasts, Nearest, NearestOf
<1> QED BY <1>3, <1>5 DEF NoAckInv

(* The force mask window and the mask window.                              *)
LEMMA MaskWindowsKeep ==
  ASSUME NoAckInv, MaskWindows
  PROVE  NoAckInv'
<1>1. curMask \in [Chan -> SUBSET MaskBit]
  BY DEF NoAckInv, NoAckTypeOK
<1>2. ASSUME NEW mask \in [Chan -> SUBSET MaskBit], ChangeMaskNoTimers(mask) PROVE NoAckInv'
  <2> DEFINE timers == alRemoveNoAck1HrTimer(selectionLink, noAckTimerId)
             ended == ChansOf(selectionLink)
  <2>1. ChangeMask(mask, timers, ended)
    BY <1>2 DEF ChangeMaskNoTimers
  <2>2. timers = alRemoveNoAck1HrTimer(selectionLink, noAckTimerId) /\ ended = ChansOf(selectionLink)
    OBVIOUS
  <2> HIDE DEF timers, ended
  <2> QED BY <2>1, <2>2, ChangeMaskKeeps
<1>3. ASSUME NEW mask \in OtherMask, ForceMaskApply(mask) PROVE NoAckInv'
  <2>1. [c \in Chan |-> mask] \in [Chan -> SUBSET MaskBit]
    BY NoAckMasks
  <2> QED BY <1>2, <1>3, <2>1 DEF ForceMaskApply
<1>4. CASE ForceMaskReset
  BY <1>2, <1>4, NoAckMasks DEF ForceMaskReset
<1>5. ASSUME NEW bit \in MaskBit, NEW on \in BOOLEAN, MaskActivate(bit, on) PROVE NoAckInv'
  <2>1. PICK mask : mask = [c \in Chan |-> IF on THEN curMask[c] \cup {bit} ELSE curMask[c] \ {bit}]
    OBVIOUS
  <2>2. mask \in [Chan -> SUBSET MaskBit]
    BY <1>1, <2>1
  <2>3. CASE bit = "Ack"
    <3>1. ChangeMaskNoTimers(mask)
      BY <1>5, <2>1, <2>3 DEF MaskActivate
    <3> QED BY <1>2, <2>2, <3>1
  <2>4. CASE bit # "Ack"
    <3>1. ChangeMask(mask, noAckTimerId, {})
      BY <1>5, <2>1, <2>4 DEF MaskActivate
    <3>2. \A c \in Chan : "Ack" \in curMask[c] => "Ack" \in mask[c]
      BY <1>1, <2>1, <2>4
    <3> QED BY <2>2, <3>1, <3>2, ChangeMaskKeeps
  <2> QED BY <2>3, <2>4
<1> QED BY <1>3, <1>4, <1>5 DEF MaskWindows

(* The clock: what a timer has still to run and the time since the         *)
(* operator set it change together.                                        *)
LEMMA TickKeeps ==
  ASSUME NoAckInv, Tick
  PROVE  NoAckInv'
<1>1. NoAckTypeOK /\ NoAckLasts /\ Hour \in Nat \ {0}
  BY LastsAnHour, NoAckMasks DEF NoAckInv
<1>2. /\ \A n \in Node : noAckTimerId[n] # 0
      /\ noAckTimerId' \in [Node -> {NoTimer} \cup 0 .. Hour]
      /\ \A n \in Node : noAckTimerId'[n] = IF noAckTimerId[n] = NoTimer THEN NoTimer
                                             ELSE noAckTimerId[n] - 1
      /\ UNCHANGED <<curMask, selectionLink, noAckDialog>>
  BY <1>1 DEF Tick, Clock, NoAckTypeOK, NoTimer
<1>3. \A n \in Node : noAckTimerId'[n] = NoTimer <=> noAckTimerId[n] = NoTimer
  BY <1>1, <1>2 DEF NoAckTypeOK, NoTimer
<1>4. NoAckTypeOK'
  BY <1>1, <1>2 DEF Tick, Clock, NoAckTypeOK, Never
<1>5. ASSUME NEW c \in Chan PROVE Lasts(c, curMask'[c], noAckTimerId', noAckSince'[c])
  <2>1. Path(c) \subseteq Node /\ c \in Node
    BY PathType DEF Node
  <2>2. NearestOf(c, noAckTimerId') = NearestOf(c, noAckTimerId)
    BY <1>3, <2>1 DEF NearestOf
  <2>3. Lasts(c, curMask[c], noAckTimerId, noAckSince[c])
    BY <1>1 DEF NoAckLasts
  <2>4. CASE noAckSince[c] = Never
    BY <2>4 DEF Tick, Clock, Lasts
  <2>5. CASE noAckSince[c] # Never
    <3>1. PICK n \in NearestOf(c, noAckTimerId) : noAckTimerId[n] + noAckSince[c] = Hour
      BY <2>3, <2>5 DEF Lasts
    <3>2. n \in Node /\ noAckTimerId[n] # NoTimer
      BY <2>1, <3>1 DEF NearestOf
    <3>3. noAckSince[c] \in Int /\ noAckTimerId[n] \in Nat
      BY <1>1, <3>2 DEF NoAckTypeOK, Never, NoTimer
    <3>4. noAckSince[c] # Hour + 1
      BY <1>1, <3>1, <3>3
    <3>5. noAckSince'[c] = noAckSince[c] + 1
      BY <2>5, <3>4 DEF Tick, Clock
    <3>6. ASSUME NEW m \in NearestOf(c, noAckTimerId)
          PROVE  noAckTimerId'[m] + noAckSince'[c] = Hour
      <4>1. m \in Node /\ noAckTimerId[m] # NoTimer /\ noAckTimerId[m] + noAckSince[c] = Hour
        BY <2>1, <2>3, <2>5 DEF NearestOf, Lasts
      <4>2. noAckTimerId[m] \in Int
        BY <1>1, <4>1 DEF NoAckTypeOK, NoTimer
      <4> QED BY <1>1, <1>2, <3>3, <3>5, <4>1, <4>2
    <3> QED BY <1>2, <2>2, <2>3, <2>5, <3>6 DEF Lasts
  <2> QED BY <2>4, <2>5
<1>6. NoAckLastsAnHour'
  BY <1>5 DEF NoAckLastsAnHour, Lasts, Nearest, NearestOf
<1>7. ToggleShowsTimer'
  <2>1. selectionLink \in Node
    BY <1>1 DEF NoAckTypeOK
  <2> QED BY <1>2, <1>3, <2>1 DEF NoAckInv, ToggleShowsTimer
<1> QED BY <1>4, <1>6, <1>7 DEF NoAckInv

----------------------------------------------------------------------------
\* Each callback and the clock keep the invariant.
LEMMA NoAckNextInv == NoAckInv /\ [NoAckNext]_NoAckVars => NoAckInv'
<1> SUFFICES ASSUME NoAckInv, [NoAckNext]_NoAckVars PROVE NoAckInv'
  OBVIOUS
<1>1. CASE NoAckOperator
  BY <1>1, DialogKeeps, ActivateOnKeeps, ActivateOffKeeps DEF NoAckOperator
<1>2. CASE Tick
  BY <1>2, TickKeeps
<1>3. CASE \E n \in Node : TimeOut(n)
  BY <1>3, TimeOutKeeps
<1>4. CASE MaskWindows
  BY <1>4, MaskWindowsKeep
<1>5. CASE UNCHANGED NoAckVars
  BY <1>5 DEF NoAckVars, NoAckInv, NoAckTypeOK, NoAckLastsAnHour, ToggleShowsTimer, Nearest
<1> QED BY <1>1, <1>2, <1>3, <1>4, <1>5 DEF NoAckNext

\* The invariant holds always.
LEMMA NoAckInvariant == NoAckSpec => []NoAckInv
<1> QED BY NoAckInitInv, NoAckNextInv, PTL DEF NoAckSpec

(* The masks, the timers and the dialog keep their types: no timer runs    *)
(* longer than an hour (noAck.c).                                          *)
THEOREM NoAckTypes == NoAckSpec => []NoAckTypeOK
<1>1. NoAckInv => NoAckTypeOK
  BY DEF NoAckInv
<1> QED BY <1>1, NoAckInvariant, PTL

(* NoAck lasts an hour on every tree, whatever timers of other nodes are   *)
(* started, stopped or run out meanwhile (noAckActivateCallback, the two   *)
(* timer callbacks and alResetNoAckGroup).                                 *)
THEOREM NoAckHour == NoAckSpec => []NoAckLastsAnHour
<1>1. NoAckInv => NoAckLastsAnHour
  BY DEF NoAckInv
<1> QED BY <1>1, NoAckInvariant, PTL

(* The toggle of the NoAck dialog always shows whether the selected node   *)
(* has a timer (noAckUpdateDialogWidgets).                                 *)
THEOREM NoAckToggle == NoAckSpec => []ToggleShowsTimer
<1>1. NoAckInv => ToggleShowsTimer
  BY DEF NoAckInv
<1> QED BY <1>1, NoAckInvariant, PTL

----------------------------------------------------------------------------
(* The force PVs and their dialog.                                         *)

Chids == {"none", "down", "up", "on"}

Struct ==
  [exists : {TRUE}, name : PvName \cup {"CALC", None}, disabled : BOOLEAN,
   forceMask : SUBSET MaskBit, forceValue : Value, resetValue : Value,
   currentValue : Nat \cup {Unknown}, chid : Chids, hasCalc : BOOLEAN,
   expression : Expression \cup {None, Bad}, rpbuf : {"none", "good", "freed"},
   slot : [Slot -> PvName \cup DOMAIN Number \cup {None}],
   value : [Slot -> Value \cup {Unknown}], slotChid : [Slot -> Chids]]

ForcePVTypeOK ==
  /\ forcePV \in [ForceNode -> Struct \cup {NoForcePV}]
  /\ forcePVDialog \in [managed : BOOLEAN, fields : Fields]
  /\ told \in [ForceNode -> Value \cup {Unknown}]
  /\ touched \in [ForceNode -> SUBSET Chan]

(* A node that is loaded with a calculation starts with the current value  *)
(* 0 (alConfig.c:511 leaves what calloc gave): if 0 forces the mask, the   *)
(* first result 0 is no change and forces nothing.                         *)
ZeroForcesNothing ==
  \A n \in ForceNode : FromConfig[n].name = "CALC" => ReadForceValue(FromConfig[n]) # 0

(* The masks are those of the current value, whether or not the PV is      *)
(* settled: what MasksFollow says of a value the node took notice of.      *)
Follows(n, f, masks, others) ==
  LET Have(mask) == \A c \in ChansOf(n) \ others : masks[c] = mask[c]
  IN  /\ ZeroForcesNothing
      /\ f.exists /\ ~f.disabled /\ f.currentValue # Unknown
      /\ f.name = "CALC" \/ f.rpbuf = "none"
      /\ f.name = "CALC" \/ f.chid # "none"
      => /\ f.currentValue = f.forceValue => Have([c \in Chan |-> f.forceMask])
         /\ /\ f.currentValue # f.forceValue
            /\ f.forceValue = f.resetValue \/ f.currentValue = f.resetValue
            => Have(DefaultMask)

AllFollow == \A n \in ForceNode : Follows(n, forcePV[n], curMask, touched[n])

(* A channel that is "on" has delivered the value the node was told.       *)
ToldKnown == \A n \in ForceNode : forcePV[n].exists /\ forcePV[n].chid = "on" => told[n] # Unknown

ForcePVInv == NoAckInv /\ ForcePVTypeOK /\ AllFollow /\ ToldKnown /\ DialogShowsForcePV

----------------------------------------------------------------------------
(* What the helpers give.                                                  *)

\* A node with a force PV stands for channels of the tree.
LEMMA ForceNodes ==
  ASSUME NEW n \in ForceNode
  PROVE  n \in Node /\ ChansOf(n) \subseteq Chan
BY ForcePVConstants DEF ChansOf

\* What the dialog shows of a structure, or of none, are fields one can edit.
LEMMA ShowType ==
  ASSUME NEW f \in Struct \cup {NoForcePV}
  PROVE  Show(f) \in Fields
<1>1. CASE f = NoForcePV
  BY <1>1 DEF Show, NoForcePV, Empty, Fields
<1>2. CASE f \in Struct
  BY <1>2 DEF Show, Struct, Fields
<1> QED BY <1>1, <1>2

\* The same, for whatever is selected.
LEMMA ShowOf ==
  ASSUME NEW link, NEW structs \in [ForceNode -> Struct \cup {NoForcePV}]
  PROVE  Show(ForcePVOf(link, structs)) \in Fields
BY ShowType DEF ForcePVOf

(* Nothing the dialog shows of a node changes with its value, its          *)
(* connections and its slots' values.                                      *)
SameFields(f, g) ==
  /\ f.exists /\ g.exists
  /\ g.name = f.name /\ g.disabled = f.disabled /\ g.forceMask = f.forceMask
  /\ g.forceValue = f.forceValue /\ g.resetValue = f.resetValue
  /\ g.expression = f.expression /\ g.slot = f.slot

\* A change of a structure that leaves its fields alone leaves the dialog as it is.
LEMMA ShowSame ==
  ASSUME ForcePVTypeOK, NEW n \in ForceNode, NEW g,
         SameFields(forcePV[n], g), forcePV' = [forcePV EXCEPT ![n] = g], NEW link
  PROVE  Show(ForcePVOf(link, forcePV')) = Show(ForcePVOf(link, forcePV))
<1>1. forcePV'[n] = g /\ \A m \in ForceNode : m # n => forcePV'[m] = forcePV[m]
  BY DEF ForcePVTypeOK
<1>2. Show(g) = Show(forcePV[n])
  BY DEF SameFields, Show
<1>3. CASE link \notin ForceNode
  BY <1>3 DEF ForcePVOf
<1>4. CASE link = n
  BY <1>1, <1>2, <1>4 DEF ForcePVOf
<1>5. CASE link \in ForceNode /\ link # n
  BY <1>1, <1>5 DEF ForcePVOf
<1> QED BY <1>3, <1>4, <1>5

\* A calculation with all its values gives natural numbers.
LEMMA ResultType ==
  ASSUME NEW f \in Struct, Computes(f)
  PROVE  Results(f) \subseteq Nat
<1>1. f.value \in [Slot -> Value]
  BY DEF Struct, Computes
<1>2. CASE f.rpbuf = "freed"
  BY <1>2, ForcePVConstants DEF Results
<1>3. CASE f.rpbuf # "freed" /\ f.expression \in Expression
  BY <1>1, <1>3, ForcePVConstants DEF Results
<1>4. CASE f.rpbuf # "freed" /\ f.expression \notin Expression
  BY <1>4 DEF Results
<1> QED BY <1>2, <1>3, <1>4

----------------------------------------------------------------------------
(* A new value or result of a node: the struct gets no more than a current *)
(* value, the masks follow it, and NoAck ends where masks change.          *)

Outcome(n, f) ==
  /\ \E value \in Nat \cup {Unknown} :
        forcePV' = [forcePV EXCEPT ![n] = [f EXCEPT !.currentValue = value]]
  /\ curMask' \in [Chan -> SUBSET MaskBit]
  /\ touched' \in [ForceNode -> SUBSET Chan]
  /\ noAckSince' \in [Chan -> {Never} \cup 0 .. Hour + 1]
  /\ \A c \in Chan : noAckSince'[c] = Never
                        \/ (curMask'[c] = curMask[c] /\ noAckSince'[c] = noAckSince[c])
  /\ AllFollow'

\* Without a change of masks, the masks still follow.
LEMMA KeepOutcome ==
  ASSUME NoAckTypeOK, ForcePVTypeOK, AllFollow, NEW n \in ForceNode, NEW f \in Struct,
         Follows(n, f, curMask, touched[n]), Keep(n, f)
  PROVE  Outcome(n, f)
<1>1. f = [f EXCEPT !.currentValue = f.currentValue] /\ f.currentValue \in Nat \cup {Unknown}
  BY DEF Struct
<1>2. /\ forcePV' = [forcePV EXCEPT ![n] = f]
      /\ UNCHANGED <<curMask, touched, noAckSince>>
  BY DEF Keep
<1>3. AllFollow'
  <2>1. forcePV'[n] = f /\ \A m \in ForceNode : m # n => forcePV'[m] = forcePV[m]
    BY <1>2 DEF ForcePVTypeOK
  <2>2. \A m \in ForceNode : Follows(m, forcePV'[m], curMask, touched[m])
    BY <2>1 DEF AllFollow
  <2> QED BY <1>2, <2>2 DEF AllFollow
<1>4. forcePV' = [forcePV EXCEPT ![n] = [f EXCEPT !.currentValue = f.currentValue]]
  BY <1>1, <1>2
<1> QED BY <1>1, <1>2, <1>3, <1>4 DEF Outcome, NoAckTypeOK, ForcePVTypeOK

(* Nodes that did not act leave out the channels whose masks changed.      *)
LEMMA OthersFollow ==
  ASSUME NEW m, NEW f, NEW others, NEW masks, NEW masks1,
         Follows(m, f, masks, others)
  PROVE  Follows(m, f, masks1, others \cup {c \in ChansOf(m) : masks1[c] # masks[c]})
BY DEF Follows

\* A value that counts: what forces or resets the masks makes them follow it.
LEMMA ActOutcome ==
  ASSUME NoAckTypeOK, ForcePVTypeOK, AllFollow, NEW n \in ForceNode, NEW f \in Struct,
         NEW value \in Nat \cup {Unknown},
         Follows(n, f, curMask, touched[n]), Act(n, f, value)
  PROVE  Outcome(n, f)
<1> DEFINE acts == Forces(f, value) \/ Resets(f, value)
           g == [f EXCEPT !.currentValue = value]
<1>1. /\ forcePV' = [forcePV EXCEPT ![n] = g]
      /\ curMask' = [c \in Chan |->
           IF c \notin ChansOf(n) \/ ~acts THEN curMask[c]
           ELSE IF Forces(f, value) THEN f.forceMask ELSE DefaultMask[c]]
      /\ Touch(IF acts THEN {n} ELSE {})
      /\ IF acts THEN Since(ChansOf(n), Never) ELSE UNCHANGED noAckSince
  BY DEF Act
<1>2. curMask' \in [Chan -> SUBSET MaskBit]
  BY <1>1, NoAckMasks DEF NoAckTypeOK, Struct
<1>3. noAckSince' \in [Chan -> {Never} \cup 0 .. Hour + 1]
  BY <1>1, SinceType DEF NoAckTypeOK
<1>4. \A c \in Chan : noAckSince'[c] = Never
                        \/ (curMask'[c] = curMask[c] /\ noAckSince'[c] = noAckSince[c])
  <2> SUFFICES ASSUME NEW c \in Chan
               PROVE  noAckSince'[c] = Never
                      \/ (curMask'[c] = curMask[c] /\ noAckSince'[c] = noAckSince[c])
    OBVIOUS
  <2>1. curMask'[c] = IF c \notin ChansOf(n) \/ ~acts THEN curMask[c]
                      ELSE IF Forces(f, value) THEN f.forceMask ELSE DefaultMask[c]
    BY <1>1
  <2>2. CASE acts
    BY <1>1, <2>1, <2>2 DEF Since
  <2>3. CASE ~acts
    BY <1>1, <2>1, <2>3
  <2> QED BY <2>2, <2>3
<1>5. touched' = [m \in ForceNode |->
                    IF m = n /\ acts THEN {}
                    ELSE touched[m] \cup {c \in ChansOf(m) : curMask'[c] # curMask[c]}]
  BY <1>1 DEF Touch
<1>6. touched' \in [ForceNode -> SUBSET Chan]
  BY <1>5, ForceNodes DEF ForcePVTypeOK
<1>7. forcePV'[n] = g /\ \A m \in ForceNode : m # n => forcePV'[m] = forcePV[m]
  BY <1>1 DEF ForcePVTypeOK
<1>8. ASSUME NEW m \in ForceNode, m # n
      PROVE  Follows(m, forcePV'[m], curMask', touched'[m])
  <2>1. touched'[m] = touched[m] \cup {c \in ChansOf(m) : curMask'[c] # curMask[c]}
    BY <1>5, <1>8
  <2>2. Follows(m, forcePV[m], curMask, touched[m])
    BY DEF AllFollow
  <2> QED BY <1>7, <1>8, <2>1, <2>2, OthersFollow
<1>9. Follows(n, g, curMask', touched'[n])
  <2>1. /\ g.exists = f.exists /\ g.disabled = f.disabled /\ g.name = f.name
        /\ g.rpbuf = f.rpbuf /\ g.chid = f.chid /\ g.forceValue = f.forceValue /\ g.resetValue = f.resetValue
        /\ g.forceMask = f.forceMask /\ g.currentValue = value
    BY DEF Struct
  <2>2. ChansOf(n) \subseteq Chan
    BY ForceNodes
  <2>3. CASE Forces(f, value)
    <3>1. value = f.forceValue /\ \A c \in ChansOf(n) : curMask'[c] = f.forceMask
      BY <1>1, <2>2, <2>3 DEF Forces
    <3> HIDE DEF g
    <3> QED BY <2>1, <2>2, <3>1 DEF Follows
  <2>4. CASE ~Forces(f, value) /\ Resets(f, value)
    <3>1. value # f.forceValue /\ \A c \in ChansOf(n) : curMask'[c] = DefaultMask[c]
      BY <1>1, <2>2, <2>4 DEF Resets
    <3> HIDE DEF g
    <3> QED BY <2>1, <2>2, <3>1 DEF Follows
  <2>5. CASE ~acts
    <3>1. curMask' = curMask
      BY <1>1, <2>5 DEF NoAckTypeOK
    <3>2. touched'[n] = touched[n]
      BY <1>5, <2>5, <3>1
    <3>3. SUFFICES ASSUME ~f.disabled, value # Unknown PROVE Follows(n, g, curMask, touched[n])
      <4> HIDE DEF g
      <4> QED BY <2>1, <3>1, <3>2 DEF Follows
    <3>4. value # f.forceValue
      BY <2>5, <3>3 DEF Forces
    <3>5. CASE f.forceValue = f.resetValue
      <4>1. f.currentValue # Unknown /\ f.currentValue # f.forceValue
        BY <2>5, <3>3, <3>4, <3>5 DEF Resets
      <4> HIDE DEF g
      <4> QED BY <2>1, <3>3, <3>4, <3>5, <4>1 DEF Follows
    <3>6. CASE f.forceValue # f.resetValue
      <4>1. value # f.resetValue
        BY <2>5, <3>3, <3>4, <3>6 DEF Resets
      <4> HIDE DEF g
      <4> QED BY <2>1, <3>4, <3>6, <4>1 DEF Follows
    <3> QED BY <3>5, <3>6
  <2> QED BY <2>3, <2>4, <2>5
<1>10. AllFollow'
  BY <1>7, <1>8, <1>9 DEF AllFollow
<1> HIDE DEF g
<1>11. \E v \in Nat \cup {Unknown} : forcePV' = [forcePV EXCEPT ![n] = [f EXCEPT !.currentValue = v]]
  BY <1>1 DEF g
<1> QED BY <1>2, <1>3, <1>4, <1>6, <1>10, <1>11 DEF Outcome

\* forcePVNewValueEvent for a value that came, new or not (force.c:1173-1240).
LEMMA NewValueOutcome ==
  ASSUME NoAckTypeOK, ForcePVTypeOK, AllFollow, NEW n \in ForceNode, NEW f \in Struct,
         NEW value \in Nat \cup {Unknown},
         Follows(n, f, curMask, touched[n]), forcePVNewValueEvent(n, f, value)
  PROVE  Outcome(n, f)
<1>1. Keep(n, f) \/ Act(n, f, value)
  BY DEF forcePVNewValueEvent
<1> QED BY <1>1, KeepOutcome, ActOutcome

\* The same for the result of the calculation (forcePVCalcPerform, force.c:1265-1340).
LEMMA CalcOutcome ==
  ASSUME NoAckTypeOK, ForcePVTypeOK, AllFollow, NEW n \in ForceNode, NEW f \in Struct,
         NEW changed \in BOOLEAN,
         Follows(n, f, curMask, touched[n]), forcePVCalcPerform(n, f, changed)
  PROVE  Outcome(n, f)
<1>1. CASE Keep(n, f)
  BY <1>1, KeepOutcome
<1>2. ASSUME NEW value \in Results(f), Computes(f), Act(n, f, value)
      PROVE  Outcome(n, f)
  <2>1. value \in Nat
    BY <1>2, ResultType
  <2> QED BY <1>2, <2>1, ActOutcome
<1>3. ASSUME NEW value \in Results(f), Computes(f), f.name # "CALC",
             Keep(n, [f EXCEPT !.currentValue = value])
      PROVE  Outcome(n, f)
  <2> DEFINE g == [f EXCEPT !.currentValue = value]
  <2>1. value \in Nat
    BY <1>3, ResultType
  <2>2. g \in Struct
    BY <2>1 DEF Struct
  <2>3. g.rpbuf # "none" /\ g.name # "CALC"
    BY <1>3 DEF Struct, Computes
  <2>4. Follows(n, g, curMask, touched[n])
    <3> HIDE DEF g
    <3> QED BY <2>3 DEF Follows
  <2>5. Outcome(n, g)
    <3> HIDE DEF g
    <3>1. Keep(n, g)
      BY <1>3 DEF g
    <3> QED BY <2>2, <2>4, <3>1, KeepOutcome
  <2>6. \A v : [g EXCEPT !.currentValue = v] = [f EXCEPT !.currentValue = v]
    BY DEF Struct
  <2> HIDE DEF g
  <2> QED BY <2>5, <2>6 DEF Outcome
<1> QED BY <1>1, <1>2, <1>3 DEF forcePVCalcPerform

----------------------------------------------------------------------------
(* What an outcome means for the invariant.                                *)

\* What a force PV does to masks keeps the hour of NoAck: it takes the masks it
\* sets out of the hands of the timers.
LEMMA OutcomeNoAck ==
  ASSUME NoAckInv, NEW n, NEW f, Outcome(n, f),
         UNCHANGED <<noAckTimerId, selectionLink, noAckDialog>>
  PROVE  NoAckInv'
<1>1. /\ curMask' \in [Chan -> SUBSET MaskBit]
      /\ noAckSince' \in [Chan -> {Never} \cup 0 .. Hour + 1]
      /\ \A c \in Chan : noAckSince'[c] = Never
                            \/ (curMask'[c] = curMask[c] /\ noAckSince'[c] = noAckSince[c])
  BY DEF Outcome
<1>2. NoAckTypeOK' /\ ToggleShowsTimer'
  BY <1>1 DEF NoAckInv, NoAckTypeOK, ToggleShowsTimer
<1>3. ASSUME NEW c \in Chan PROVE Lasts(c, curMask'[c], noAckTimerId, noAckSince'[c])
  <2>1. Lasts(c, curMask[c], noAckTimerId, noAckSince[c])
    BY LastsAnHour DEF NoAckInv, NoAckLasts
  <2> QED BY <1>1, <2>1 DEF Lasts
<1>4. NoAckLastsAnHour'
  BY <1>3 DEF NoAckLastsAnHour, Lasts, Nearest, NearestOf
<1> QED BY <1>2, <1>4 DEF NoAckInv

(* The struct after an outcome differs from f in its current value.        *)
LEMMA OutcomeStruct ==
  ASSUME ForcePVTypeOK, NEW n \in ForceNode, NEW f \in Struct, Outcome(n, f)
  PROVE  \E g \in Struct :
           /\ SameFields(f, g) /\ g.chid = f.chid
           /\ forcePV' = [forcePV EXCEPT ![n] = g]
           /\ forcePV' \in [ForceNode -> Struct \cup {NoForcePV}]
<1>1. PICK value \in Nat \cup {Unknown} :
        forcePV' = [forcePV EXCEPT ![n] = [f EXCEPT !.currentValue = value]]
  BY DEF Outcome
<1> DEFINE g == [f EXCEPT !.currentValue = value]
<1>2. g \in Struct
  BY DEF Struct
<1>3. SameFields(f, g) /\ g.chid = f.chid
  BY DEF SameFields, Struct
<1> HIDE DEF g
<1>4. forcePV' = [forcePV EXCEPT ![n] = g]
  BY <1>1 DEF g
<1>5. forcePV' \in [ForceNode -> Struct \cup {NoForcePV}]
  BY <1>2, <1>4 DEF ForcePVTypeOK
<1> QED BY <1>2, <1>3, <1>4, <1>5

(* An event that leaves the dialog alone: its fields are still right.      *)
LEMMA EventKeeps ==
  ASSUME ForcePVInv, NEW n \in ForceNode, NEW f \in Struct,
         SameFields(forcePV[n], f), Outcome(n, f), UNCHANGED Others,
         told' \in [ForceNode -> Value \cup {Unknown}],
         \A m \in ForceNode : m # n => told'[m] = told[m],
         f.chid = "on" => told'[n] # Unknown
  PROVE  ForcePVInv'
<1>1. ForcePVTypeOK
  BY DEF ForcePVInv
<1>2. PICK g \in Struct :
        /\ SameFields(f, g) /\ g.chid = f.chid
        /\ forcePV' = [forcePV EXCEPT ![n] = g]
        /\ forcePV' \in [ForceNode -> Struct \cup {NoForcePV}]
  BY <1>1, OutcomeStruct
<1>3. NoAckInv'
  BY OutcomeNoAck DEF ForcePVInv, Others
<1>4. ForcePVTypeOK'
  BY <1>1, <1>2 DEF ForcePVTypeOK, Others, Outcome
<1>5. AllFollow'
  BY DEF Outcome
<1>6. ToldKnown'
  <2>1. forcePV'[n] = g /\ \A m \in ForceNode : m # n => forcePV'[m] = forcePV[m]
    BY <1>1, <1>2 DEF ForcePVTypeOK
  <2> QED BY <1>2, <2>1 DEF ForcePVInv, ToldKnown
<1>7. DialogShowsForcePV'
  <2>1. SameFields(forcePV[n], g)
    BY <1>2 DEF SameFields
  <2>2. Show(ForcePVOf(selectionLink, forcePV')) = Show(ForcePVOf(selectionLink, forcePV))
    BY <1>1, <1>2, <2>1, ShowSame
  <2> QED BY <2>2 DEF ForcePVInv, DialogShowsForcePV, Others
<1> QED BY <1>3, <1>4, <1>5, <1>6, <1>7 DEF ForcePVInv

----------------------------------------------------------------------------
(* Each action.                                                            *)

(* Connections and values do not matter to Follows.                        *)
LEMMA FollowsSame ==
  ASSUME NEW n, NEW f, NEW g, NEW masks, NEW others, Follows(n, f, masks, others),
         SameFields(f, g), g.currentValue = f.currentValue, g.rpbuf = f.rpbuf,
         f.chid = "none" => g.chid = "none"
  PROVE  Follows(n, g, masks, others)
BY DEF Follows, SameFields

\* What the invariant says of a node that has a structure.
LEMMA StructOf ==
  ASSUME ForcePVInv, NEW n \in ForceNode, forcePV[n].exists
  PROVE  /\ forcePV[n] \in Struct
         /\ Follows(n, forcePV[n], curMask, touched[n])
         /\ forcePV[n].chid = "on" => told[n] # Unknown
<1>1. forcePV[n] # NoForcePV
  BY DEF NoForcePV
<1> QED BY <1>1 DEF ForcePVInv, ForcePVTypeOK, AllFollow, ToldKnown

\* A PV that connects or disconnects keeps the invariant.
LEMMA ConnectionKeeps ==
  ASSUME ForcePVInv, NEW n \in ForceNode, Connection(n)
  PROVE  ForcePVInv'
<1>1. forcePV[n].exists /\ forcePV[n] \in Struct /\ Follows(n, forcePV[n], curMask, touched[n])
  BY StructOf DEF Connection
<1>2. UNCHANGED Others /\ told' = told
  BY DEF Connection
<1>3. ASSUME NEW g \in Struct, Keep(n, g), SameFields(forcePV[n], g),
             g.currentValue = forcePV[n].currentValue, g.rpbuf = forcePV[n].rpbuf,
             g.chid = "on" => forcePV[n].chid = "on", forcePV[n].chid = "none" => g.chid = "none"
      PROVE  ForcePVInv'
  <2>1. Follows(n, g, curMask, touched[n])
    BY <1>1, <1>3, FollowsSame
  <2>2. Outcome(n, g)
    BY <1>3, <2>1, KeepOutcome DEF ForcePVInv, NoAckInv
  <2>3. g.chid = "on" => told'[n] # Unknown
    BY <1>1, <1>2, <1>3, StructOf
  <2> QED BY <1>2, <1>3, <2>2, <2>3, EventKeeps DEF ForcePVInv, ForcePVTypeOK
<1>4. ASSUME NEW state \in {"up", "down"}, forcePV[n].chid # "none",
             Keep(n, [forcePV[n] EXCEPT !.chid = state])
      PROVE  ForcePVInv'
  <2> DEFINE g == [forcePV[n] EXCEPT !.chid = state]
  <2>1. /\ g \in Struct /\ SameFields(forcePV[n], g) /\ g.chid # "on"
        /\ g.currentValue = forcePV[n].currentValue /\ g.rpbuf = forcePV[n].rpbuf
    BY <1>1 DEF Struct, SameFields, Chids
  <2> HIDE DEF g
  <2>2. Keep(n, g)
    BY <1>4 DEF g
  <2> QED BY <1>3, <1>4, <2>1, <2>2
<1>5. ASSUME NEW state \in {"up", "down"}, NEW i \in Slot,
             Keep(n, [forcePV[n] EXCEPT !.slotChid[i] = state])
      PROVE  ForcePVInv'
  <2> DEFINE g == [forcePV[n] EXCEPT !.slotChid[i] = state]
  <2>1. /\ g \in Struct /\ SameFields(forcePV[n], g) /\ g.chid = forcePV[n].chid
        /\ g.currentValue = forcePV[n].currentValue /\ g.rpbuf = forcePV[n].rpbuf
    BY <1>1 DEF Struct, SameFields, Chids
  <2> HIDE DEF g
  <2>2. Keep(n, g)
    BY <1>5 DEF g
  <2> QED BY <1>3, <2>1, <2>2
<1> QED BY <1>4, <1>5 DEF Connection, IsConnected

(* A value of the PV: it is the one the node is told.                      *)
LEMMA ValueEventKeeps ==
  ASSUME ForcePVInv, NEW n \in ForceNode, NEW value \in Value, ValueEvent(n, value)
  PROVE  ForcePVInv'
<1> DEFINE f == [forcePV[n] EXCEPT !.chid = "on"]
<1>1. forcePV[n].exists /\ forcePV[n] \in Struct /\ Follows(n, forcePV[n], curMask, touched[n])
  BY StructOf DEF ValueEvent
<1>2. /\ f \in Struct /\ SameFields(forcePV[n], f)
      /\ f.currentValue = forcePV[n].currentValue /\ f.rpbuf = forcePV[n].rpbuf
  BY <1>1 DEF Struct, SameFields, Chids
<1>3. forcePVNewValueEvent(n, f, value) /\ told' = [told EXCEPT ![n] = value] /\ UNCHANGED Others
  BY DEF ValueEvent
<1>4. value \in Nat /\ value # Unknown
  BY ForcePVConstants DEF Unknown
<1> HIDE DEF f
<1>5. Follows(n, f, curMask, touched[n])
  <2>1. forcePV[n].chid # "none"
    BY DEF ValueEvent, IsConnected
  <2> QED BY <1>1, <1>2, <2>1, FollowsSame
<1>6. Outcome(n, f)
  BY <1>2, <1>3, <1>4, <1>5, NewValueOutcome DEF ForcePVInv, NoAckInv
<1>7. /\ told' \in [ForceNode -> Value \cup {Unknown}]
      /\ told'[n] # Unknown /\ \A m \in ForceNode : m # n => told'[m] = told[m]
  BY <1>3, <1>4 DEF ForcePVInv, ForcePVTypeOK
<1> QED BY <1>2, <1>3, <1>6, <1>7, EventKeeps

(* A value of a slot.                                                      *)
LEMMA CalcValueEventKeeps ==
  ASSUME ForcePVInv, NEW n \in ForceNode, NEW i \in Slot, NEW value \in Value,
         CalcValueEvent(n, i, value)
  PROVE  ForcePVInv'
<1> DEFINE f == [forcePV[n] EXCEPT !.slotChid[i] = "on"]
           g == [f EXCEPT !.value[i] = value]
<1>1. forcePV[n].exists /\ forcePV[n] \in Struct /\ Follows(n, forcePV[n], curMask, touched[n])
  BY StructOf DEF CalcValueEvent
<1>2. /\ f \in Struct /\ SameFields(forcePV[n], f) /\ f.chid = forcePV[n].chid
      /\ f.currentValue = forcePV[n].currentValue /\ f.rpbuf = forcePV[n].rpbuf
  BY <1>1 DEF Struct, SameFields, Chids
<1>3. /\ UNCHANGED Others /\ told' = told
      /\ Keep(n, f) \/ forcePVCalcPerform(n, g, FALSE)
  BY DEF CalcValueEvent
<1> HIDE DEF f
<1>4. /\ g \in Struct /\ SameFields(forcePV[n], g) /\ g.chid = forcePV[n].chid
      /\ g.currentValue = forcePV[n].currentValue /\ g.rpbuf = forcePV[n].rpbuf
  BY <1>2 DEF Struct, SameFields
<1> HIDE DEF g
<1>5. Follows(n, f, curMask, touched[n]) /\ Follows(n, g, curMask, touched[n])
  BY <1>1, <1>2, <1>4, FollowsSame
<1>6. forcePV[n].chid = "on" => told'[n] # Unknown
  BY <1>1, <1>3, StructOf
<1>7. CASE Keep(n, f)
  <2>1. Outcome(n, f)
    BY <1>2, <1>5, <1>7, KeepOutcome DEF ForcePVInv, NoAckInv
  <2> QED BY <1>2, <1>3, <1>6, <2>1, EventKeeps DEF ForcePVInv, ForcePVTypeOK
<1>8. CASE forcePVCalcPerform(n, g, FALSE)
  <2>1. Outcome(n, g)
    BY <1>4, <1>5, <1>8, CalcOutcome DEF ForcePVInv, NoAckInv
  <2> QED BY <1>3, <1>4, <1>6, <2>1, EventKeeps DEF ForcePVInv, ForcePVTypeOK
<1> QED BY <1>3, <1>7, <1>8

(* What forcePVUpdateFields makes of the struct and the fields.            *)
LEMMA RenamedType ==
  ASSUME NEW f \in Struct, NEW name \in PvName \cup {"CALC", None}
  PROVE  /\ Renamed(f, name) \in Struct
         /\ Renamed(f, name).chid = "on" => name = f.name /\ f.chid = "on"
<1>1. CASE name = f.name
  BY <1>1 DEF Renamed
<1>2. CASE name # f.name
  <2> DEFINE current == IF NeedsPv(name) THEN Unknown ELSE f.currentValue
  <2>1. Renamed(f, name) = [f EXCEPT !.name = name, !.chid = Chid(name), !.currentValue = current]
    BY <1>2 DEF Renamed
  <2>2. current \in Nat \cup {Unknown} /\ Chid(name) \in Chids /\ Chid(name) # "on"
    BY DEF Struct, Chid, Chids
  <2> HIDE DEF current
  <2> QED BY <2>1, <2>2 DEF Struct
<1> QED BY <1>1, <1>2

\* A new expression leaves a structure and its PV.
LEMMA ReexpressedType ==
  ASSUME NEW f \in Struct, NEW expression \in Expression \cup {None, Bad}
  PROVE  /\ Reexpressed(f, expression) \in Struct
         /\ Reexpressed(f, expression).chid = f.chid
<1>1. CASE expression = None
  BY <1>1 DEF Reexpressed, Struct
<1>2. CASE expression # None /\ expression = f.expression
  BY <1>2 DEF Reexpressed
<1>3. CASE expression # None /\ expression # f.expression
  <2> DEFINE rpbuf == IF expression \in Expression THEN "good"
                      ELSE IF f.expression # None /\ f.rpbuf # "none" THEN "freed" ELSE f.rpbuf
  <2>1. Reexpressed(f, expression) =
          [f EXCEPT !.hasCalc = TRUE, !.expression = expression, !.rpbuf = rpbuf]
    BY <1>3 DEF Reexpressed
  <2>2. rpbuf \in {"none", "good", "freed"}
    BY DEF Struct
  <2> HIDE DEF rpbuf
  <2> QED BY <2>1, <2>2 DEF Struct
<1> QED BY <1>1, <1>2, <1>3

\* New slots leave a structure and its PV.
LEMMA ReslottedType ==
  ASSUME NEW f \in Struct, NEW slot \in [Slot -> PvName \cup DOMAIN Number \cup {None}]
  PROVE  Reslotted(f, slot) \in Struct /\ Reslotted(f, slot).chid = f.chid
<1> DEFINE hasCalc == f.hasCalc \/ \E i \in Slot : slot[i] # None
           value == [i \in Slot |-> IF slot[i] = f.slot[i] THEN f.value[i]
                                    ELSE IF slot[i] \in DOMAIN Number THEN Number[slot[i]]
                                    ELSE Unknown]
           slotChid == [i \in Slot |-> IF slot[i] = f.slot[i] THEN f.slotChid[i]
                                       ELSE Chid(slot[i])]
<1>1. value \in [Slot -> Value \cup {Unknown}]
  BY ForcePVConstants DEF Struct
<1>2. slotChid \in [Slot -> Chids]
  BY DEF Struct, Chid, Chids
<1>3. hasCalc \in BOOLEAN
  BY DEF Struct
<1>4. Reslotted(f, slot) = [f EXCEPT !.hasCalc = hasCalc, !.slot = slot, !.value = value,
                                     !.slotChid = slotChid]
  BY DEF Reslotted
<1> HIDE DEF hasCalc, value, slotChid
<1> QED BY <1>1, <1>2, <1>3, <1>4 DEF Struct

\* The structure that the dialog allocates.
LEMMA NewStruct == NewForcePV \in Struct
<1>1. 0 \in Value
  BY ForcePVConstants
<1> QED BY <1>1 DEF NewForcePV, Struct, Chids

\* The values the dialog reads from its text fields.
LEMMA ReadType ==
  ASSUME NEW fields \in Fields
  PROVE  ReadForceValue(fields) \in Value /\ ReadResetValue(fields) \in Value
<1>1. 0 \in Value /\ 1 \in Value
  BY ForcePVConstants
<1>2. ReadForceValue(fields) \in Value
  <2>1. fields.forceValue \in Value \cup {Blank}
    BY DEF Fields
  <2> QED BY <1>1, <2>1 DEF ReadForceValue
<1>3. CASE fields.resetValue \in {Blank, NE}
  BY <1>1, <1>2, <1>3 DEF ReadResetValue, Blank, NE
<1>4. CASE fields.resetValue \notin {Blank, NE}
  BY <1>2, <1>4 DEF ReadResetValue, Fields
<1> QED BY <1>2, <1>3, <1>4

(* Apply: what it finds in the end is a new value, or it waits for one.    *)
LEMMA ApplyKeeps ==
  ASSUME ForcePVInv, NEW n \in ForceNode, NEW fields \in Edited(forcePVDialog.fields),
         Apply(n, fields)
  PROVE  ForcePVInv'
<1> DEFINE f0 == IF forcePV[n].exists THEN forcePV[n] ELSE NewForcePV
           f1 == [f0 EXCEPT !.forceValue = ReadForceValue(fields),
                            !.resetValue = ReadResetValue(fields),
                            !.forceMask = fields.forceMask, !.disabled = fields.disabled]
           f2 == Reslotted(Reexpressed(Renamed(f1, fields.name), fields.expression), fields.slot)
           f3 == [f2 EXCEPT !.currentValue = Unknown]
<1>1. ForcePVTypeOK /\ NoAckTypeOK /\ AllFollow
  BY DEF ForcePVInv, NoAckInv
<1>2. fields \in Fields
  BY <1>1, ForcePVConstants DEF ForcePVTypeOK
<1>3. /\ fields.name \in PvName \cup {"CALC", None} /\ fields.disabled \in BOOLEAN
      /\ fields.forceMask \in SUBSET MaskBit
      /\ fields.expression \in Expression \cup {None, Bad}
      /\ fields.slot \in [Slot -> PvName \cup DOMAIN Number \cup {None}]
  BY <1>2 DEF Fields
<1>4. f0 \in Struct
  BY NewStruct, StructOf
<1>5. f0.chid = "on" => forcePV[n].exists /\ f0 = forcePV[n]
  BY DEF NewForcePV
<1> HIDE DEF f0
<1>6. f1 \in Struct /\ f1.name = f0.name /\ f1.chid = f0.chid
  BY <1>2, <1>3, <1>4, ReadType DEF Struct
<1> HIDE DEF f1
<1>7. /\ f2 \in Struct
      /\ f2.chid = "on" => fields.name = f1.name /\ f1.chid = "on"
  BY <1>3, <1>6, RenamedType, ReexpressedType, ReslottedType
<1>8. /\ IF f2.name = "CALC" THEN forcePVCalcPerform(n, f3, TRUE)
         ELSE forcePVNewValueEvent(n, f3, f2.currentValue)
      /\ n = selectionLink /\ forcePVDialog.managed
      /\ told' = IF forcePV[n].exists /\ fields.name = forcePV[n].name THEN told
                 ELSE [told EXCEPT ![n] = Unknown]
      /\ forcePVDialog' = UpdatedForcePV(n, forcePV')
      /\ UNCHANGED <<noAckTimerId, selectionLink, noAckDialog>>
  BY DEF Apply, forcePVUpdateFields, f0, f1
<1> HIDE DEF f2
<1>9. /\ f3 \in Struct /\ f3.currentValue = Unknown /\ f3.chid = f2.chid
      /\ f2.currentValue \in Nat \cup {Unknown}
  BY <1>7 DEF Struct
<1> HIDE DEF f3
<1>10. Follows(n, f3, curMask, touched[n])
  BY <1>9 DEF Follows
<1>11. Outcome(n, f3)
  BY <1>1, <1>8, <1>9, <1>10, CalcOutcome, NewValueOutcome
<1>12. PICK g \in Struct :
         /\ SameFields(f3, g) /\ g.chid = f3.chid
         /\ forcePV' = [forcePV EXCEPT ![n] = g]
         /\ forcePV' \in [ForceNode -> Struct \cup {NoForcePV}]
  BY <1>1, <1>9, <1>11, OutcomeStruct
<1>13. NoAckInv'
  BY <1>8, <1>11, OutcomeNoAck DEF ForcePVInv
<1>14. /\ forcePVDialog' \in [managed : BOOLEAN, fields : Fields]
       /\ forcePVDialog'.fields = Show(ForcePVOf(n, forcePV'))
  <2>1. forcePVDialog' = [forcePVDialog EXCEPT !.fields = Show(ForcePVOf(n, forcePV'))]
    BY <1>8 DEF UpdatedForcePV
  <2>2. Show(ForcePVOf(n, forcePV')) \in Fields
    BY <1>12, ShowOf
  <2> QED BY <1>1, <2>1, <2>2 DEF ForcePVTypeOK
<1>15. told' \in [ForceNode -> Value \cup {Unknown}]
  BY <1>1, <1>8 DEF ForcePVTypeOK
<1>16. ForcePVTypeOK'
  BY <1>11, <1>12, <1>14, <1>15 DEF ForcePVTypeOK, Outcome
<1>17. ToldKnown'
  <2>1. forcePV'[n] = g /\ \A m \in ForceNode : m # n => forcePV'[m] = forcePV[m]
    BY <1>1, <1>12 DEF ForcePVTypeOK
  <2>2. \A m \in ForceNode : m # n => told'[m] = told[m]
    BY <1>1, <1>8 DEF ForcePVTypeOK
  <2>3. g.chid = "on" => told'[n] # Unknown
    <3> SUFFICES ASSUME g.chid = "on" PROVE told'[n] # Unknown
      OBVIOUS
    <3>1. forcePV[n].exists /\ f0 = forcePV[n] /\ f0.chid = "on" /\ fields.name = f0.name
      BY <1>5, <1>6, <1>7, <1>9, <1>12
    <3>2. told'[n] = told[n]
      BY <1>8, <3>1
    <3> QED BY <3>1, <3>2, StructOf
  <2> QED BY <2>1, <2>2, <2>3 DEF ForcePVInv, ToldKnown
<1>18. DialogShowsForcePV'
  BY <1>8, <1>14 DEF DialogShowsForcePV
<1> QED BY <1>11, <1>13, <1>16, <1>17, <1>18 DEF ForcePVInv, Outcome

\* Opening the dialog keeps the invariant.
LEMMA ShowDialogKeeps ==
  ASSUME ForcePVInv, ForcePVShowDialog
  PROVE  ForcePVInv'
<1>1. /\ UNCHANGED <<NoAckVars, forcePV, told, touched>>
      /\ forcePVDialog' =
           IF forcePVDialog.managed THEN [forcePVDialog EXCEPT !.managed = FALSE]
           ELSE [managed |-> TRUE, fields |-> Show(ForcePVOf(selectionLink, forcePV))]
  BY DEF ForcePVShowDialog
<1>2. NoAckInv'
  BY <1>1, NoAckNextInv DEF ForcePVInv
<1>3. /\ forcePVDialog' \in [managed : BOOLEAN, fields : Fields]
      /\ forcePVDialog'.managed
           => forcePVDialog'.fields = Show(ForcePVOf(selectionLink, forcePV))
  <2>1. Show(ForcePVOf(selectionLink, forcePV)) \in Fields
    BY ShowOf DEF ForcePVInv, ForcePVTypeOK
  <2> QED BY <1>1, <2>1 DEF ForcePVInv, ForcePVTypeOK
<1>4. ForcePVTypeOK' /\ AllFollow' /\ ToldKnown' /\ DialogShowsForcePV'
  BY <1>1, <1>3
  DEF ForcePVInv, ForcePVTypeOK, AllFollow, ToldKnown, DialogShowsForcePV, NoAckVars
<1> QED BY <1>2, <1>4 DEF ForcePVInv

(* Any change of masks by another callback is a change by others.          *)
LEMMA NoAckActionKeeps ==
  ASSUME ForcePVInv, NoAckStep
  PROVE  ForcePVInv'
<1>1. /\ forcePVDialog' = UpdatedForcePV(selectionLink', forcePV)
      /\ Touch({}) /\ UNCHANGED <<forcePV, told>>
  BY DEF NoAckStep
<1>2. NoAckInv'
  BY NoAckNextInv DEF ForcePVInv, NoAckStep
<1>3. ForcePVTypeOK
  BY DEF ForcePVInv
<1>4. touched' = [m \in ForceNode |->
                    touched[m] \cup {c \in ChansOf(m) : curMask'[c] # curMask[c]}]
  BY <1>1 DEF Touch
<1>5. AllFollow'
  <2>1. ASSUME NEW m \in ForceNode PROVE Follows(m, forcePV[m], curMask', touched'[m])
    <3>1. Follows(m, forcePV[m], curMask, touched[m])
      BY DEF ForcePVInv, AllFollow
    <3>2. touched'[m] = touched[m] \cup {c \in ChansOf(m) : curMask'[c] # curMask[c]}
      BY <1>4
    <3> QED BY <3>1, <3>2, OthersFollow
  <2> QED BY <1>1, <2>1 DEF AllFollow
<1>6. /\ forcePVDialog' \in [managed : BOOLEAN, fields : Fields]
      /\ forcePVDialog'.managed
           => forcePVDialog'.fields = Show(ForcePVOf(selectionLink', forcePV))
  <2>1. Show(ForcePVOf(selectionLink', forcePV)) \in Fields
    BY <1>3, ShowOf DEF ForcePVTypeOK
  <2> QED BY <1>1, <1>3, <2>1 DEF ForcePVTypeOK, UpdatedForcePV
<1>7. touched' \in [ForceNode -> SUBSET Chan]
  BY <1>3, <1>4, ForceNodes DEF ForcePVTypeOK
<1>8. ForcePVTypeOK' /\ ToldKnown' /\ DialogShowsForcePV'
  BY <1>1, <1>3, <1>6, <1>7 DEF ForcePVInv, ForcePVTypeOK, ToldKnown, DialogShowsForcePV
<1> QED BY <1>2, <1>5, <1>8 DEF ForcePVInv

\* What a structure has after the configuration file was read (alConfig.c:496-560).
LEMMA ReadForcePVStruct ==
  ASSUME NEW n \in ForceNode
  PROVE  /\ ReadForcePV(FromConfig[n]) \in Struct \cup {NoForcePV}
         /\ ReadForcePV(FromConfig[n]).exists =>
              /\ ReadForcePV(FromConfig[n]).chid = Chid(FromConfig[n].name)
              /\ ReadForcePV(FromConfig[n]).name = FromConfig[n].name
              /\ ReadForcePV(FromConfig[n]).forceValue = ReadForceValue(FromConfig[n])
              /\ ReadForcePV(FromConfig[n]).currentValue
                   = IF NeedsPv(FromConfig[n].name) THEN Unknown ELSE 0
<1> DEFINE fields == FromConfig[n]
           num(i) == IF fields.slot[i] \in DOMAIN Number THEN Number[fields.slot[i]] ELSE 0
           value == [i \in Slot |-> IF fields.slot[i] = None THEN 0
                                     ELSE IF num(i) # 0 THEN num(i) ELSE Unknown]
           slotChid == [i \in Slot |-> Chid(fields.slot[i])]
           hasCalc == fields.expression # None \/ \E i \in Slot : fields.slot[i] # None
           rpbuf == IF fields.expression = None THEN "none" ELSE "good"
           current == IF NeedsPv(fields.name) THEN Unknown ELSE 0
<1>1. CASE fields = Empty
  BY <1>1 DEF ReadForcePV, NoForcePV
<1>2. CASE fields # Empty
  <2>1. ReadForcePV(fields) =
          [NewForcePV EXCEPT
              !.name = fields.name, !.forceMask = fields.forceMask,
              !.forceValue = ReadForceValue(fields), !.resetValue = ReadResetValue(fields),
              !.currentValue = current, !.chid = Chid(fields.name), !.hasCalc = hasCalc,
              !.expression = fields.expression, !.rpbuf = rpbuf, !.slot = fields.slot,
              !.value = value, !.slotChid = slotChid]
    BY <1>2 DEF ReadForcePV
  <2>10. NewForcePV =
          [exists |-> TRUE, name |-> None, disabled |-> FALSE, forceMask |-> {},
           forceValue |-> 0, resetValue |-> 0, currentValue |-> 0, chid |-> "none",
           hasCalc |-> FALSE, expression |-> None, rpbuf |-> "none",
           slot |-> [i \in Slot |-> None], value |-> [i \in Slot |-> 0],
           slotChid |-> [i \in Slot |-> "none"]]
    BY DEF NewForcePV
  <2>11. ReadForcePV(fields) =
          [exists |-> TRUE, name |-> fields.name, disabled |-> FALSE,
           forceMask |-> fields.forceMask, forceValue |-> ReadForceValue(fields),
           resetValue |-> ReadResetValue(fields), currentValue |-> current,
           chid |-> Chid(fields.name), hasCalc |-> hasCalc, expression |-> fields.expression,
           rpbuf |-> rpbuf, slot |-> fields.slot, value |-> value, slotChid |-> slotChid]
    <3> HIDE DEF value, slotChid, hasCalc, rpbuf, current, fields
    <3> QED BY <2>1, <2>10
  <2>2. fields \in Fields /\ 0 \in Value
    BY ForcePVConstants
  <2>3. value \in [Slot -> Value \cup {Unknown}]
    BY <2>2, ForcePVConstants
  <2>4. /\ slotChid \in [Slot -> Chids] /\ hasCalc \in BOOLEAN
        /\ rpbuf \in {"none", "good"} /\ current \in Nat \cup {Unknown}
        /\ Chid(fields.name) \in Chids
    BY DEF Chid, Chids
  <2>5. ReadForceValue(fields) \in Value /\ ReadResetValue(fields) \in Value
    BY <2>2, ReadType
  <2>6. /\ fields.name \in PvName \cup {"CALC", None} /\ fields.forceMask \in SUBSET MaskBit
        /\ fields.expression \in Expression \cup {None, Bad}
        /\ fields.slot \in [Slot -> PvName \cup DOMAIN Number \cup {None}]
    BY <2>2 DEF Fields
  <2> HIDE DEF value, slotChid, hasCalc, rpbuf, current, fields
  <2>7. /\ ReadForcePV(fields) \in Struct
        /\ ReadForcePV(fields).chid = Chid(fields.name)
        /\ ReadForcePV(fields).name = fields.name
        /\ ReadForcePV(fields).forceValue = ReadForceValue(fields)
        /\ ReadForcePV(fields).currentValue = current
    BY <2>3, <2>4, <2>5, <2>6, <2>11 DEF Struct
  <2> QED BY <2>7 DEF current, fields
<1> QED BY <1>1, <1>2

\* A loaded configuration satisfies the invariant.
LEMMA ForcePVInitInv == Init => ForcePVInv
<1> SUFFICES ASSUME Init PROVE ForcePVInv
  OBVIOUS
<1>1. /\ NoAckInit
      /\ forcePV = [n \in ForceNode |-> ReadForcePV(FromConfig[n])]
      /\ forcePVDialog = [managed |-> FALSE, fields |-> Empty]
      /\ told = [n \in ForceNode |-> Unknown]
      /\ touched = [n \in ForceNode |-> {}]
  BY DEF Init
<1>2. NoAckInv
  BY <1>1, NoAckInitInv
<1>3. ForcePVTypeOK
  <2>1. Empty \in Fields
    BY DEF Empty, Fields
  <2> QED BY <1>1, <2>1, ReadForcePVStruct DEF ForcePVTypeOK
<1>4. ToldKnown
  BY <1>1, ReadForcePVStruct DEF ToldKnown, Chid
<1>5. AllFollow
  <2> SUFFICES ASSUME ZeroForcesNothing, NEW n \in ForceNode,
                      forcePV[n].exists, forcePV[n].currentValue # Unknown,
                      forcePV[n].name = "CALC" \/ forcePV[n].chid # "none"
               PROVE  Follows(n, forcePV[n], curMask, touched[n])
    BY DEF AllFollow, Follows
  <2>1. forcePV[n] = ReadForcePV(FromConfig[n])
    BY <1>1
  <2>2. /\ forcePV[n].name = FromConfig[n].name /\ forcePV[n].name = "CALC"
        /\ forcePV[n].forceValue = ReadForceValue(FromConfig[n])
        /\ forcePV[n].currentValue = 0 /\ ~NeedsPv(FromConfig[n].name)
    BY <2>1, ReadForcePVStruct DEF Chid
  <2>4. forcePV[n].forceValue # 0
    BY <2>2 DEF ZeroForcesNothing
  <2>5. \A c \in ChansOf(n) : curMask[c] = DefaultMask[c]
    BY <1>1 DEF NoAckInit
  <2> QED BY <2>2, <2>4, <2>5 DEF Follows
<1>6. DialogShowsForcePV
  BY <1>1 DEF DialogShowsForcePV
<1> QED BY <1>2, <1>3, <1>4, <1>5, <1>6 DEF ForcePVInv

\* Each event and each callback keeps the invariant.
LEMMA ForcePVNextInv == ForcePVInv /\ [Next]_vars => ForcePVInv'
<1> SUFFICES ASSUME ForcePVInv, [Next]_vars PROVE ForcePVInv'
  OBVIOUS
<1>1. CASE NoAckStep
  BY <1>1, NoAckActionKeeps
<1>2. CASE ForcePVShowDialog
  BY <1>2, ShowDialogKeeps
<1>3. ASSUME NEW n \in ForceNode, Connection(n) PROVE ForcePVInv'
  BY <1>3, ConnectionKeeps
<1>4. ASSUME NEW n \in ForceNode, NEW value \in Value, ValueEvent(n, value) PROVE ForcePVInv'
  BY <1>4, ValueEventKeeps
<1>5. ASSUME NEW n \in ForceNode, NEW value \in Value, NEW i \in Slot, CalcValueEvent(n, i, value)
      PROVE  ForcePVInv'
  BY <1>5, CalcValueEventKeeps
<1>6. ASSUME NEW n \in ForceNode, NEW fields \in Edited(forcePVDialog.fields), Apply(n, fields)
      PROVE  ForcePVInv'
  BY <1>6, ApplyKeeps
<1>7. CASE UNCHANGED vars
  <2>1. NoAckInv'
    BY <1>7, NoAckNextInv DEF vars, ForcePVInv
  <2> QED BY <1>7, <2>1
      DEF vars, ForcePVVars, NoAckVars, ForcePVInv, ForcePVTypeOK, AllFollow, ToldKnown,
          DialogShowsForcePV
<1> QED BY <1>1, <1>2, <1>3, <1>4, <1>5, <1>6, <1>7 DEF Next

(* What the invariant says of a settled PV.                                *)
LEMMA FollowsMeansMasks == ForcePVInv /\ ZeroForcesNothing => MasksFollow
<1> SUFFICES ASSUME ForcePVInv, ZeroForcesNothing, NEW n \in ForceNode, Settled(n),
                    ValueOf(n) = forcePV[n].currentValue,
                    forcePV[n].name = "CALC" \/ forcePV[n].rpbuf = "none"
             PROVE  LET f == forcePV[n]
                        Have(mask) == \A c \in ChansOf(n) \ touched[n] : curMask[c] = mask[c]
                    IN  /\ ValueOf(n) = f.forceValue => Have([c \in Chan |-> f.forceMask])
                        /\ ValueOf(n) # f.forceValue
                              /\ (f.forceValue = f.resetValue \/ ValueOf(n) = f.resetValue)
                             => Have(DefaultMask)
  BY DEF MasksFollow
<1> DEFINE f == forcePV[n]
<1>1. /\ f \in Struct /\ Follows(n, f, curMask, touched[n])
      /\ f.chid = "on" => told[n] # Unknown
  BY StructOf DEF Settled
<1>2. f.exists /\ ~f.disabled
  BY DEF Settled
<1>3. ValueOf(n) # Unknown /\ (f.name = "CALC" \/ f.chid # "none")
  <2>1. CASE f.name = "CALC"
    <3>1. Computes(f) /\ f.rpbuf = "good"
      BY <2>1 DEF Settled
    <3>2. Results(f) \subseteq Nat /\ Results(f) # {}
      BY <1>1, <3>1, ResultType DEF Results
    <3>3. ValueOf(n) \in Nat
      BY <2>1, <3>2 DEF ValueOf
    <3> QED BY <2>1, <3>3 DEF Unknown
  <2>2. CASE f.name # "CALC"
    BY <1>1, <2>2 DEF Settled, ValueOf
  <2> QED BY <2>1, <2>2
<1> QED BY <1>1, <1>2, <1>3 DEF Follows

----------------------------------------------------------------------------
\* The invariant holds always.
LEMMA ForcePVInvariant == Spec => []ForcePVInv
<1> QED BY ForcePVInitInv, ForcePVNextInv, PTL DEF Spec

(* The masks follow the force PV, in whatever order values, connections    *)
(* and edits come and whatever else changes masks, for every node that     *)
(* was not loaded with a calculation that forces at 0                      *)
(* (forcePVNewValueEvent, forcePVCalcPerform and forcePVUpdateFields).     *)
THEOREM ForcePVMasks ==
  ASSUME ZeroForcesNothing
  PROVE  Spec => []MasksFollow
<1>1. ForcePVInv => MasksFollow
  BY FollowsMeansMasks
<1> QED BY <1>1, ForcePVInvariant, PTL

(* The fields of the dialog are those of the selected node                 *)
(* (forcePVUpdateDialogWidgets, axUpdateDialogs).                          *)
THEOREM ForcePVDialog == Spec => []DialogShowsForcePV
<1>1. ForcePVInv => DialogShowsForcePV
  BY DEF ForcePVInv
<1> QED BY <1>1, ForcePVInvariant, PTL

(* NoAck lasts an hour beside force PVs as well: they end it only for the  *)
(* channels whose masks they set.                                          *)
THEOREM ForcePVKeepsNoAck == Spec => []NoAckLastsAnHour
<1>1. ForcePVInv => NoAckLastsAnHour
  BY DEF ForcePVInv, NoAckInv
<1> QED BY <1>1, ForcePVInvariant, PTL
=============================================================================
