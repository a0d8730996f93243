------------------------------ MODULE ForcePV ------------------------------
(***************************************************************************)
(* force.c: a process variable, or an expression over process variables,   *)
(* that gives the channels of a node its force mask or their default       *)
(* masks, and the dialog in which the operator changes it.  The NoAck      *)
(* timers and the mask windows of NoAck change the same masks.             *)
(***************************************************************************)
EXTENDS NoAck

CONSTANTS
  ForceNode,     \* the nodes that have a force PV or get one
  PvName,        \* names of process variables
  Value,         \* their values; -999 is not among them
  Slot,          \* the arguments of an expression, NO_OF_CALC_PVS of them
  Expression,    \* the expressions that postfix() understands
  Result,        \* Result[x]: what calcPerform makes of x for the values of the slots
  Number,        \* Number[x]: what atof makes of x, for names that are numbers
  FromConfig,    \* FromConfig[n]: what the $FORCEPV lines of n say
  Edited(_)      \* bound: what the operator makes of the fields of the dialog

VARIABLES
  forcePV,       \* forcePV[n]: the struct, or NoForcePV
  forcePVDialog, \* the dialog: managed, and the fields it shows
  told,          \* observation: the value the PV of n last had
  touched        \* observation: channels whose masks changed since n set them

ForcePVVars == <<forcePV, forcePVDialog, told, touched>>
vars == <<NoAckVars, ForcePVVars>>

Unknown == -999
None == "none"       \* a null pointer, an empty text field
Blank == -1          \* an empty field for a value
NE == -2             \* "NE" in the field for the reset value
Bad == "bad"         \* an expression postfix() does not understand

\* the fields of the dialog, and of the lines of the configuration file
Fields ==
  [name : PvName \cup {"CALC", None}, disabled : BOOLEAN, forceMask : SUBSET MaskBit,
   forceValue : Value \cup {Blank}, resetValue : Value \cup {Blank, NE},
   expression : Expression \cup {None, Bad}, slot : [Slot -> PvName \cup DOMAIN Number \cup {None}]]
Empty ==
  [name |-> None, disabled |-> FALSE, forceMask |-> {}, forceValue |-> Blank,
   resetValue |-> Blank, expression |-> None, slot |-> [i \in Slot |-> None]]

ASSUME ForcePVConstants ==
  /\ ForceNode \subseteq Node /\ IsFiniteSet(Slot)
  /\ {0, 1} \subseteq Value /\ Value \subseteq Nat /\ Number \in [DOMAIN Number -> Value]
  /\ {None, Bad} \cap Expression = {} /\ None \notin PvName \cup DOMAIN Number
  /\ Result \in [Expression -> [[Slot -> Value] -> Nat]]
  /\ FromConfig \in [ForceNode -> Fields]
  /\ \A fields \in Fields : Edited(fields) \subseteq Fields

----------------------------------------------------------------------------
(* The struct.  A channel of Channel Access is "none", "down", "up" while  *)
(* its first value is still to come, or "on".  rpbuf is "none", "good", or *)
(* "freed": forcePVUpdateFields frees it and leaves the pointer.           *)

NoForcePV == [exists |-> FALSE]
NewForcePV ==
  [exists |-> TRUE, name |-> None, disabled |-> FALSE, forceMask |-> {},
   forceValue |-> 0, resetValue |-> 0, currentValue |-> 0, chid |-> "none",
   hasCalc |-> FALSE, expression |-> None, rpbuf |-> "none",
   slot |-> [i \in Slot |-> None], value |-> [i \in Slot |-> 0],
   slotChid |-> [i \in Slot |-> "none"]]

IsConnected(chid) == chid \in {"up", "on"}
NeedsPv(name) == name \in PvName
Chid(name) == IF NeedsPv(name) THEN "down" ELSE "none"

\* the values calcPerform can give: 0 for an expression it fails on
Results(f) ==
  CASE f.rpbuf = "freed" -> Value
    [] f.rpbuf # "freed" /\ f.expression \in Expression -> {Result[f.expression][f.value]}
    [] OTHER -> {0}

\* forcePVCalcPerform goes on: no PV is disconnected, no value is unknown
Computes(f) ==
  /\ f.hasCalc /\ f.rpbuf # "none"
  /\ \A i \in Slot : f.slotChid[i] # "down" /\ f.value[i] # Unknown

Forces(f, value) == ~f.disabled /\ value = f.forceValue

\* with "NE" the reset value is the force value
Resets(f, value) ==
  /\ ~f.disabled /\ value # f.forceValue
  /\ \/ f.forceValue = f.resetValue /\ f.currentValue \in {Unknown, f.forceValue}
     \/ f.forceValue # f.resetValue /\ value = f.resetValue

Touch(keep) ==
  touched' = [m \in ForceNode |->
                IF m \in keep THEN {}
                ELSE touched[m] \cup {c \in ChansOf(m) : curMask'[c] # curMask[c]}]

\* the value counts: alChangeGroupMask, alResetGroupMask or their like for a channel
Act(n, f, value) ==
  LET acts == Forces(f, value) \/ Resets(f, value)
  IN  /\ forcePV' = [forcePV EXCEPT ![n] = [f EXCEPT !.currentValue = value]]
      /\ curMask' = [c \in Chan |->
           IF c \notin ChansOf(n) \/ ~acts THEN curMask[c]
           ELSE IF Forces(f, value) THEN f.forceMask ELSE DefaultMask[c]]
      /\ Touch(IF acts THEN {n} ELSE {})
      /\ IF acts THEN Since(ChansOf(n), Never) ELSE UNCHANGED noAckSince

Keep(n, f) ==
  /\ forcePV' = [forcePV EXCEPT ![n] = f]
  /\ UNCHANGED <<curMask, touched, noAckSince>>

\* forcePVNewValueEvent
forcePVNewValueEvent(n, f, value) ==
  IF ~IsConnected(f.chid) \/ (~f.disabled /\ f.currentValue = value)
  THEN Keep(n, f) ELSE Act(n, f, value)

\* forcePVCalcPerform; the value becomes current even if the name is not "CALC"
forcePVCalcPerform(n, f, changed) ==
  \/ ~Computes(f) /\ Keep(n, f)
  \/ /\ Computes(f)
     /\ \E value \in Results(f) :
          IF value = f.currentValue /\ ~changed THEN Keep(n, f)
          ELSE IF f.name = "CALC" THEN Act(n, f, value)
          ELSE Keep(n, [f EXCEPT !.currentValue = value])

----------------------------------------------------------------------------
(* Channel Access.                                                         *)

Others == <<noAckTimerId, selectionLink, noAckDialog, forcePVDialog>>

\* a connection comes or goes; nothing is done about it
Connection(n) ==
  LET f == forcePV[n]
  IN  /\ f.exists
      /\ \/ f.chid = "down" /\ Keep(n, [f EXCEPT !.chid = "up"])
         \/ IsConnected(f.chid) /\ Keep(n, [f EXCEPT !.chid = "down"])
         \/ \E i \in Slot :
              \/ f.slotChid[i] = "down" /\ Keep(n, [f EXCEPT !.slotChid[i] = "up"])
              \/ IsConnected(f.slotChid[i]) /\ Keep(n, [f EXCEPT !.slotChid[i] = "down"])
      /\ UNCHANGED <<Others, told>>

\* alForcePVValueEvent
ValueEvent(n, value) ==
  /\ forcePV[n].exists /\ IsConnected(forcePV[n].chid)
  /\ forcePVNewValueEvent(n, [forcePV[n] EXCEPT !.chid = "on"], value)
  /\ told' = [told EXCEPT ![n] = value]
  /\ UNCHANGED Others

\* alForcePVCalcNewValueEvent
CalcValueEvent(n, i, value) ==
  LET f == [forcePV[n] EXCEPT !.slotChid[i] = "on"]
  IN  /\ forcePV[n].exists /\ IsConnected(forcePV[n].slotChid[i])
      /\ IF f.value[i] = value THEN Keep(n, f)
         ELSE forcePVCalcPerform(n, [f EXCEPT !.value[i] = value], FALSE)
      /\ UNCHANGED <<Others, told>>

----------------------------------------------------------------------------
(* The dialog.                                                             *)

\* forcePVUpdateDialogWidgets: what the fields show of f
Show(f) ==
  IF ~f.exists THEN Empty
  ELSE [name |-> f.name, disabled |-> f.disabled, forceMask |-> f.forceMask,
        forceValue |-> f.forceValue,
        resetValue |-> IF f.resetValue = f.forceValue THEN NE ELSE f.resetValue,
        expression |-> f.expression, slot |-> f.slot]

ForcePVOf(n, structs) == IF n \in ForceNode THEN structs[n] ELSE NoForcePV

\* mutant: the fields stay when the selected node has no force PV
UpdatedForcePV_Stay(link, structs) ==
  IF forcePVDialog.managed /\ ForcePVOf(link, structs).exists
  THEN [forcePVDialog EXCEPT !.fields = Show(ForcePVOf(link, structs))]
  ELSE forcePVDialog

\* forcePVUpdateDialog, as part of axUpdateDialogs
UpdatedForcePV(link, structs) ==
  IF forcePVDialog.managed
  THEN [forcePVDialog EXCEPT !.fields = Show(ForcePVOf(link, structs))]
  ELSE forcePVDialog

\* forcePVShowDialog opens the dialog, or dismisses it
ForcePVShowDialog ==
  /\ forcePVDialog' =
       IF forcePVDialog.managed THEN [forcePVDialog EXCEPT !.managed = FALSE]
       ELSE [managed |-> TRUE, fields |-> Show(ForcePVOf(selectionLink, forcePV))]
  /\ UNCHANGED <<NoAckVars, forcePV, told, touched>>

\* the values forcePVApplyCallback reads from the fields
ReadForceValue(fields) == IF fields.forceValue = Blank THEN 1 ELSE fields.forceValue
ReadResetValue(fields) ==
  CASE fields.resetValue = Blank -> 0
    [] fields.resetValue = NE -> ReadForceValue(fields)
    [] OTHER -> fields.resetValue

\* forcePVUpdateFields, the PV: another name gives up the old channel
Renamed(f, name) ==
  IF name = f.name THEN f
  ELSE [f EXCEPT !.name = name, !.chid = Chid(name),
                 !.currentValue = IF NeedsPv(name) THEN Unknown ELSE @]

\* the expression: the converted old one is freed, and replaced only by a good one
Reexpressed(f, expression) ==
  CASE expression = None ->
         IF f.hasCalc THEN [f EXCEPT !.expression = None, !.rpbuf = "none"] ELSE f
    [] expression # None /\ expression = f.expression -> f
    [] OTHER ->
         [f EXCEPT !.hasCalc = TRUE, !.expression = expression,
                   !.rpbuf = IF expression \in Expression THEN "good"
                             ELSE IF f.expression # None /\ @ # "none" THEN "freed" ELSE @]

\* the slots: a name that is taken out leaves its value unknown
Reslotted(f, slot) ==
  LET Value1(i) == IF slot[i] \in DOMAIN Number THEN Number[slot[i]] ELSE Unknown
  IN  [f EXCEPT
         !.hasCalc = @ \/ \E i \in Slot : slot[i] # None,
         !.slot = slot,
         !.value = [i \in Slot |-> IF slot[i] = f.slot[i] THEN f.value[i] ELSE Value1(i)],
         !.slotChid = [i \in Slot |-> IF slot[i] = f.slot[i] THEN f.slotChid[i]
                                      ELSE Chid(slot[i])]]

\* mutant: the fields are stored and the masks wait for the next value
forcePVUpdateFields_Wait(n, fields) ==
  LET f0 == IF forcePV[n].exists THEN forcePV[n] ELSE NewForcePV
      f1 == [f0 EXCEPT !.forceValue = ReadForceValue(fields),
                       !.resetValue = ReadResetValue(fields),
                       !.forceMask = fields.forceMask, !.disabled = fields.disabled]
  IN  Keep(n, Reslotted(Reexpressed(Renamed(f1, fields.name), fields.expression), fields.slot))

\* forcePVUpdateFields; what it finds in the end is a new value
forcePVUpdateFields(n, fields) ==
  LET f0 == IF forcePV[n].exists THEN forcePV[n] ELSE NewForcePV
      f1 == [f0 EXCEPT !.forceValue = ReadForceValue(fields),
                       !.resetValue = ReadResetValue(fields),
                       !.forceMask = fields.forceMask, !.disabled = fields.disabled]
      f2 == Reslotted(Reexpressed(Renamed(f1, fields.name), fields.expression), fields.slot)
      f3 == [f2 EXCEPT !.currentValue = Unknown]
  IN  IF f2.name = "CALC" THEN forcePVCalcPerform(n, f3, TRUE)
      ELSE forcePVNewValueEvent(n, f3, f2.currentValue)

\* forcePVApplyCallback, after the operator changed some fields
Apply(n, fields) ==
  /\ n = selectionLink /\ forcePVDialog.managed
  /\ forcePVUpdateFields(n, fields)
  /\ told' = IF forcePV[n].exists /\ fields.name = forcePV[n].name THEN told
             ELSE [told EXCEPT ![n] = Unknown]
  /\ forcePVDialog' = UpdatedForcePV(n, forcePV')
  /\ UNCHANGED <<noAckTimerId, selectionLink, noAckDialog>>

----------------------------------------------------------------------------
(* A $FORCEPV line, with the $FORCEPV_CALC lines that follow it: a number  *)
(* 0 is taken for the name of a PV, and too short a name to connect.       *)
ReadForcePV(fields) ==
  LET Num(i) == IF fields.slot[i] \in DOMAIN Number THEN Number[fields.slot[i]] ELSE 0
  IN  IF fields = Empty THEN NoForcePV
      ELSE [NewForcePV EXCEPT
              !.name = fields.name, !.forceMask = fields.forceMask,
              !.forceValue = ReadForceValue(fields), !.resetValue = ReadResetValue(fields),
              !.currentValue = IF NeedsPv(fields.name) THEN Unknown ELSE 0,
              !.chid = Chid(fields.name),
              !.hasCalc = fields.expression # None \/ \E i \in Slot : fields.slot[i] # None,
              !.expression = fields.expression,
              !.rpbuf = IF fields.expression = None THEN "none" ELSE "good",
              !.slot = fields.slot,
              !.value = [i \in Slot |-> IF fields.slot[i] = None THEN 0
                                        ELSE IF Num(i) # 0 THEN Num(i) ELSE Unknown],
              !.slotChid = [i \in Slot |-> Chid(fields.slot[i])]]

Init ==
  /\ NoAckInit
  /\ forcePV = [n \in ForceNode |-> ReadForcePV(FromConfig[n])]
  /\ forcePVDialog = [managed |-> FALSE, fields |-> Empty]
  /\ told = [n \in ForceNode |-> Unknown]
  /\ touched = [n \in ForceNode |-> {}]

\* what NoAck does; its callbacks end in axUpdateDialogs as well
NoAckStep ==
  /\ NoAckNext
  /\ forcePVDialog' = UpdatedForcePV(selectionLink', forcePV)
  /\ Touch({})
  /\ UNCHANGED <<forcePV, told>>

Next ==
  \/ NoAckStep
  \/ ForcePVShowDialog
  \/ \E n \in ForceNode :
       \/ Connection(n)
       \/ \E value \in Value :
            \/ ValueEvent(n, value)
            \/ \E i \in Slot : CalcValueEvent(n, i, value)
       \/ \E fields \in Edited(forcePVDialog.fields) : Apply(n, fields)

Spec == Init /\ [][Next]_vars

----------------------------------------------------------------------------
(* The value a force PV has, when Channel Access has delivered all of it.  *)
Settled(n) ==
  LET f == forcePV[n]
  IN  /\ f.exists /\ ~f.disabled
      /\ IF f.name = "CALC"
         THEN f.rpbuf = "good" /\ Computes(f) /\ \A i \in Slot : f.slotChid[i] # "up"
         ELSE f.chid = "on"

ValueOf(n) ==
  IF forcePV[n].name = "CALC" THEN CHOOSE v \in Results(forcePV[n]) : TRUE ELSE told[n]

(* ALH.html "Force Process Variable": the masks follow the force PV.  At   *)
(* the force value each channel below has the force mask, at the reset     *)
(* value (with NE: at any other) its default mask, unless something else   *)
(* changed its mask since: whatever the operator edited in between, and in *)
(* whatever order values and connections came.  The value is one the node  *)
(* took notice of: the events it drops (force.c:1256, 1277, 1339) leave an *)
(* older one in currentValue.                                              *)
MasksFollow ==
  \A n \in ForceNode :
    LET f == forcePV[n]
        v == ValueOf(n)
        Have(mask) == \A c \in ChansOf(n) \ touched[n] : curMask[c] = mask[c]
    IN  Settled(n) /\ v = f.currentValue /\ (f.name = "CALC" \/ f.rpbuf = "none") =>
          /\ v = f.forceValue => Have([c \in Chan |-> f.forceMask])
          /\ v # f.forceValue /\ (f.forceValue = f.resetValue \/ v = f.resetValue)
               => Have(DefaultMask)

(* The fields of the dialog are those of the selected node, so that Apply  *)
(* never writes to a node what it read from another.                       *)
DialogShowsForcePV ==
  forcePVDialog.managed => forcePVDialog.fields = Show(ForcePVOf(selectionLink, forcePV))

=============================================================================
