------------------------------ MODULE TreeEdit ------------------------------
(***************************************************************************)
(* An area of the program.  As the alarm handler (ALH) its windows follow  *)
(* alarms, as AlarmWindows has it; as the configuration tool (ACT) the     *)
(* operator edits the tree they show: Cut, Copy, Paste, Insert, Clear,     *)
(* Open and the Apply button of the property window (awAct.c, awEdit.c,    *)
(* property.c).  A link that is allocated is fresh; one that nothing       *)
(* points to any more can be allocated again.                              *)
(***************************************************************************)
EXTENDS AlarmWindows, ConfigFile

CONSTANTS
  Programs,        \* what the area can be: "ALH", "ACT"
  OpenFiles,       \* the files the operator of ACT opens
  Sheet(_),        \* what the operator can make of the fields of the property window
  LostLines,       \* whether a link in view may be edited while its line pointers are lost
  EditRows,        \* the lines the windows of ACT have room for
  MaxLinks,        \* bound: links are inserted while the tree has less
  MaxEdits(_)      \* bound: so many edits are made, for the links of the tree

VARIABLES
  programId, data, clip,
  edits    \* how many edits there were

editVars == <<windowsVars, programId, data, clip, edits>>

NoData == NewData("")

\* what an operation works on: the tree, what is kept of each link, the windows, the links in use
Area == [t |-> tree, data |-> data, v |-> view, used |-> {}]

\* the links something points to
Pointers(v) ==
  UNION {{v.win[w].sel, v.win[w].parentLink} \cup Range(v.win[w].lines) : w \in {TW, GW}}
  \cup {v.sel}
InUse(s, c) == UNION {Below(s.t, n) : n \in ({Top, c} \cup Pointers(s.v)) \ {NULL}}

\* the others are as calloc gives them
FreedView(v, used) ==
  [v EXCEPT !.viewCount = [n \in Link |-> IF n \in used THEN v.viewCount[n] ELSE 1],
            !.treeSym = [g \in GroupId |-> IF g \in used THEN v.treeSym[g] ELSE <<>>],
            !.line = [w \in {TW, GW} |->
                        [n \in Link |-> IF n \in used THEN v.line[w][n] ELSE 0]]]
FreedArea(s, used) ==
  [t |-> FreedTree(s.t, used), data |-> [n \in Link |-> IF n \in used THEN s.data[n] ELSE NoData],
   v |-> FreedView(s.v, used), used |-> used]
Free0(s, c) == FreedArea(s, InUse(s, c))

\* alCreateGroup, alCreateChannel
Create(s, n, d) ==
  [s EXCEPT !.used = @ \cup {n}, !.data[n] = d, !.v.viewCount[n] = 1]

----------------------------------------------------------------------------
(* alCopyGroup, alCopyChan: fresh links.  The masks and the pointer to the *)
(* acknowledge PV are not copied.  alForcePVCopy copies the new, empty     *)
(* name and expression into the old ones.                                  *)

Erased(s) == IF s = <<>> THEN <<>> ELSE <<"">>
WithoutForcePV(d) == [d EXCEPT !.opt["FORCEPV"] = Erased(@), !.opt["FORCEPV_CALC"] = Erased(@)]
CopiedData(d) == [WithoutForcePV(d) EXCEPT !.mask = "-----", !.opt["ACKPV"] = <<>>]

FreshLink(s, n) ==
  AnyOf((IF n \in GroupId THEN GroupId ELSE ChanId) \ s.used)

\* a copy is the area with the copy in it, and its link
RECURSIVE CopyLink(_, _), CopyInto(_, _, _)
CopyNode(s, n, m) ==
  [Create(s, m, CopiedData(s.data[n])) EXCEPT
     !.data[n] = WithoutForcePV(@), !.v.viewCount[m] = s.v.viewCount[n],
     !.v.treeSym = IF n \in GroupId THEN [@ EXCEPT ![m] = s.v.treeSym[n]] ELSE @]
CopyInto(s, m, ns) ==
  IF ns = <<>> THEN s
  ELSE LET c == CopyLink(s, Head(ns))
       IN CopyInto([c.s EXCEPT !.t = alAdd(@, m, c.n)], m, Tail(ns))
CopyContents(s, n, m) ==
  [s |-> IF n \in ChanId THEN s ELSE CopyInto(s, m, Chans(s.t, n) \o SubGroups(s.t, n)), n |-> m]
CopyLink(s, n) == CopyContents(CopyNode(s, n, FreshLink(s, n)), n, FreshLink(s, n))

\* there are links for a copy of what S has
RoomFor(s, S) ==
  /\ Cardinality(S \cap GroupId) <= Cardinality(GroupId \ s.used)
  /\ Cardinality(S \cap ChanId) <= Cardinality(ChanId \ s.used)

\* mutant: the clipboard keeps the link itself
editClipboardSet_Link(s, n) == [s |-> s, n |-> n]

\* the copy that goes into the clipboard; the old clipboard is deleted
editClipboardSet(s, n) == CopyLink(Free0(s, NULL), n)
editClipboardGet(s, c) == CopyLink(Free0(s, c), c)

----------------------------------------------------------------------------
(* editCutLink.                                                            *)

\* the groups above n lose its lines, and so does the tree window
Counted(t, v, n) == Config(v, TW, v.viewCount[Root(t, n)])
TreeLess(t, v, n) == Counted(t, AddAbove(t, v, n, -v.viewCount[n]), n)

\* the group window is to show g from where it is
GroupShown(t, e, v, g) ==
  LET v1 == alViewAdjustGroupW(t, e, [v EXCEPT !.win[GW].parentLink = g], g)
  IN Config(v1, GW, GroupLines(t, v1, g))

\* the selection of the tree window is cut: its parent becomes the selection, if it has a line
CutTreeSelection(t, e, v, n, parent) ==
  LET v1 == alViewAdjustTreeW(alRemove(t, n), e, TreeLess(t, v, n), parent, "NOCHANGE")
      v2 == redraw(alRemove(t, n), e, v1, TW, Row(v1, TW, parent))
      v3 == GroupShown(alRemove(t, n), e, v2, parent)
  IN IF v1.line[TW][parent] = 0 THEN v3
     ELSE nameTreeW(alRemove(t, n), e, v3, v1.line[TW][parent])

\* the selection of the group window is cut: the tree window's becomes the selection
EmptyLines(v, w, i, k) ==
  [v EXCEPT !.win[w].lines = [j \in DOMAIN v.win[w].lines |->
                                IF j \in i .. i + k - 1 THEN NULL ELSE v.win[w].lines[j]]]
TreeCut(t, v, n) ==
  IF v.line[TW][n] = 0 THEN v
  ELSE TreeLess(t, EmptyLines(v, TW, v.line[TW][n], v.viewCount[n]), n)
GroupCut(v, n) ==
  [EmptyLines(v, GW, v.line[GW][n], 1) EXCEPT !.win[GW].config = @ - 1,
     !.win[GW].sel = NULL, !.sel = v.win[TW].sel]
CutGroupSelection(t, e, v, n, parent) ==
  LET v1 == alViewAdjustTreeW(alRemove(t, n), e, GroupCut(TreeCut(t, v, n), n), parent, "NOCHANGE")
      v2 == IF v.line[TW][n] = 0 THEN v1 ELSE redraw(alRemove(t, n), e, v1, TW, Row(v1, TW, parent))
  IN redraw(alRemove(t, n), e, v2, GW, v.line[GW][n] - 1)

editCutLink(s, e, n) ==
  [s EXCEPT !.t = alRemove(@, n),
            !.v = IF n = @.win[TW].sel THEN CutTreeSelection(s.t, e, @, n, s.t.parent[n])
                  ELSE CutGroupSelection(s.t, e, @, n, s.t.parent[n])]

----------------------------------------------------------------------------
(* editPasteLink, awViewNewGroup, awViewNewChan.                           *)

\* the group window goes on by a line if the selection is at its end
Follow(v) ==
  IF v.win[GW].sel # NULL /\ v.line[GW][v.win[GW].sel] - 1 = v.win[GW].rows
  THEN [v EXCEPT !.win[GW].offset = @ + 1] ELSE v
OneMore(t, e, v) == redraw(t, e, Follow([v EXCEPT !.win[GW].config = @ + 1]), GW, 0)

NewInTree(t, e, v, n, parent) ==
  LET v1 == AddAbove(t, v, n, v.viewCount[n])
      v2 == alViewAdjustTreeW(t, e, [v1 EXCEPT !.win[TW].config = @ + v.viewCount[n]],
                              parent, "NOCHANGE")
  IN IF v.viewCount[parent] <= 1 THEN v ELSE redraw(t, e, v2, TW, Row(v2, TW, parent))
awViewNewGroup(t, e, v, n, parent) ==
  IF parent = v.win[GW].parentLink THEN OneMore(t, e, NewInTree(t, e, v, n, parent))
  ELSE NewInTree(t, e, v, n, parent)

\* it goes in front of the selection if that is of its kind and not the tree window's
SameKind(n, m) == (n \in GroupId) = (m \in GroupId)
Sibling(v, n) ==
  IF v.sel \in {v.win[TW].sel, NULL} THEN NULL ELSE IF SameKind(v.sel, n) THEN v.sel ELSE NULL
Shown1(t, e, v, n, parent) ==
  IF n \in GroupId THEN awViewNewGroup(t, e, v, n, parent) ELSE OneMore(t, e, v)
Placed(s, t, e, n) == [s EXCEPT !.t = t, !.v = Shown1(t, e, @, n, s.v.win[TW].sel)]
editPasteLink(s, e, n) ==
  Placed(s, alPrecede(s.t, s.v.win[TW].sel, Sibling(s.v, n), n), e, n)

----------------------------------------------------------------------------
(* The property window: what it shows of a link, and what Apply makes of   *)
(* its fields.                                                             *)

MinorAtLeast(beep) == IF beep > 1 THEN beep ELSE 1

\* propUpdateDialogWidgets: an empty field for what is not there
ShownData(d) ==
  [d EXCEPT !.beep = MinorAtLeast(@),
            !.opt["FORCEPV_CALC"] = IF @ = <<>> THEN <<"">> ELSE @]

\* propApplyCallback: the seconds of the count filter are read from the field of the count, and
\* there is always a force PV afterwards, with or without a name
Text(s) == IF s = <<"">> THEN <<>> ELSE s
Twice(s) == IF s = <<>> THEN s ELSE <<<<s[1][1], s[1][1]>>>>
ApplyData(x) ==
  [x EXCEPT !.opt["FORCEPV"] = Text(@), !.opt["ALARMCOUNTFILTER"] = Twice(@)]

----------------------------------------------------------------------------
(* The operator's steps.  Bounds: an edit is made to a selection whose     *)
(* groups are open and, unless LostLines, while the lines it needs are     *)
(* pointed to; a click and its timer are one step.                         *)

EditFrame == UNCHANGED <<programId, curSevr, unackSevr, viewFilter, click>>
MoreEdits == edits < MaxEdits(Cardinality(Below(tree, Top)))
Edit(s, c) ==
  LET f == Free0(s, c)
  IN /\ MoreEdits /\ edits' = edits + 1
     /\ tree' = f.t /\ data' = f.data /\ view' = f.v /\ clip' = c
     /\ EditFrame
Look(v) == view' = v /\ UNCHANGED <<tree, data, clip, edits>> /\ EditFrame

Points(n) == \A w \in {TW, GW} : (view.line[w][n] # 0) = (n \in Range(DrawnLines(w)))
Reached(S) == Allowed(view.win[TW].sel) /\ (LostLines \/ \A n \in S \ {NULL} : Points(n))

CutSelection ==
  /\ view.sel # NULL
  /\ tree.parent[view.sel] # NULL
  /\ Reached({view.sel, tree.parent[view.sel]})
  /\ RoomFor(Free0(Area, NULL), Below(tree, view.sel))
  /\ LET c == editClipboardSet(Area, view.sel) IN Edit(editCutLink(c.s, Now, view.sel), c.n)

CopySelection ==
  /\ view.sel # NULL
  /\ RoomFor(Free0(Area, NULL), Below(tree, view.sel))
  /\ LET c == editClipboardSet(Area, view.sel) IN Edit(c.s, c.n)

\* the link is pasted into the selection of the tree window
Room(n) == Cardinality(Below(tree, Top)) + n <= MaxLinks
Pasting == view.sel # NULL /\ view.win[TW].sel # NULL /\ Reached({view.win[GW].sel})

Paste ==
  /\ Pasting /\ clip # NULL
  /\ Room(Cardinality(Below(tree, clip)))
  /\ RoomFor(Free0(Area, clip), Below(tree, clip))
  /\ LET c == editClipboardGet(Area, clip) IN Edit(editPasteLink(c.s, Now, c.n), clip)

Insert(n, name) ==
  /\ Pasting /\ Room(1)
  /\ Edit(editPasteLink(Create(Free0(Area, clip), n, NewData(name)), Now, n), clip)
InsertGroup ==
  /\ GroupId \ InUse(Area, clip) # {}
  /\ Insert(AnyOf(GroupId \ InUse(Area, clip)), "Unnamed_Group")
InsertChannel ==
  /\ ChanId \ InUse(Area, clip) # {}
  /\ Insert(AnyOf(ChanId \ InUse(Area, clip)), "Unnamed_Channel")

\* the window of a group has no mask, no count filter and no status commands
HasFields(n, x) ==
  n \in GroupId => x.mask = NewData("").mask /\ \A tag \in ChanTag : x.opt[tag] = <<>>
PropertiesApplied ==
  /\ view.sel # NULL
  /\ \E x \in {y \in Sheet(ShownData(data[view.sel])) : HasFields(view.sel, y)} :
       data' = [data EXCEPT ![view.sel] = ApplyData(x)]
  /\ MoreEdits /\ edits' = edits + 1
  /\ UNCHANGED <<tree, view, clip>> /\ EditFrame

\* setupConfig: the windows are set up for the tree that is read; nothing warns of changes that
\* are not saved, because area->changed is never set
Kept(c) == FreedArea(Area, IF c = NULL THEN {} ELSE Below(tree, c))
SetUp(s, c) == Edit([s EXCEPT !.v = createConfigDisplay(s.t, Now, @, Top)], c)
Clear == SetUp(Create(Kept(clip), Top, NewData("Unnamed_Group")), clip)
ReadInto(s, file) == alGetConfig(NothingRead(s.t, s.data, s.used), Files[file])
NewArea == [t |-> NoTree, data |-> [n \in Link |-> NoData], used |-> {}]
Open ==
  \E file \in {f \in OpenFiles : RoomFor(Kept(clip), ReadInto(NewArea, f).used)} :
    LET s == Kept(clip) rd == ReadInto(s, file)
    IN /\ rd.p1stgroup # NULL
       /\ SetUp([t |-> rd.t, data |-> rd.data, v |-> s.v, used |-> rd.used], clip)

\* clicks on names and arrows, and the View menu
SelectTree == \E i \in LineNos(TW) : Look(nameTreeW(tree, Now, view, i))
SelectGroup ==
  \E i \in LineNos(GW) :
    \/ Look(singleClickNameGroupW(view, i))
    \/ Link0(view, GW, i) \in GroupId /\ Look(doubleClickNameGroupW(tree, Now, view, i))
ArrowTree ==
  \E i \in LineNos(TW) :
    /\ tree.first[<<Link0(view, TW, i), SUB>>] # NULL
    /\ Look(displayNewViewTree(tree, Now, view, Link0(view, TW, i), "EXPANDCOLLAPSE1"))
ExpandAll == Look(displayNewViewTree(tree, Now, view, Top, "EXPAND"))

ActNext ==
  \/ CutSelection \/ CopySelection \/ Paste \/ InsertGroup \/ InsertChannel
  \/ PropertiesApplied \/ Clear \/ Open
  \/ SelectTree \/ SelectGroup \/ ArrowTree \/ ExpandAll

\* at the start the file named on the command line is read into a new area (axArea.c)
AlhInit == programId = "ALH" /\ Init /\ data = [n \in Link |-> NoData] /\ clip = NULL
ActInit ==
  /\ programId = "ACT" /\ clip = NULL
  /\ curSevr = [c \in ChanId |-> 0] /\ unackSevr = [c \in ChanId |-> 0]
  /\ viewFilter = "all" /\ click = [k \in Kind |-> NoClick]
  /\ \E file \in OpenFiles :
       LET rd == ReadInto(NewArea, file)
       IN /\ tree = rd.t /\ data = rd.data
          /\ view = createConfigDisplay(rd.t, Now, NoView(EditRows), Top)

EditInit == programId \in Programs /\ edits = 0 /\ (AlhInit \/ ActInit)
EditNext ==
  \/ programId = "ALH" /\ Next /\ UNCHANGED <<programId, data, clip, edits>>
  \/ programId = "ACT" /\ ActNext
EditSpec == EditInit /\ [][EditNext]_editVars

----------------------------------------------------------------------------
(* Properties.                                                             *)

\* A configuration that is saved and read again is what it was, but for what a file does not keep
\* (alWriteConfig, alGetConfig): if no group has the name of a group above it and every force PV
\* has a name.
RECURSIVE SavedValue(_)
SavedValue(v) ==
  [d |-> Saved(v.d),
   chans |-> [i \in 1 .. Len(v.chans) |-> SavedValue(v.chans[i])],
   subs |-> [i \in 1 .. Len(v.subs) |-> SavedValue(v.subs[i])]]
Savable(d) == ~Unnamed(d) /\ d.opt["FORCEPV"] # <<"">>
Distinct(n) == \A g \in Above(tree, n) : data[g].name # data[n].name
ReadBack == alGetConfig(NothingRead(NoTree, [n \in Link |-> NoData], {}), alWriteConfig(2, tree, data))
ReadsBack(rd) ==
  /\ Value(rd.t, rd.data, rd.p1stgroup) = SavedValue(Value(tree, data, Top))
  /\ rd.beepSevr = 2
SavedReadsBack ==
  /\ programId = "ACT"
  /\ \A n \in Below(tree, Top) : Savable(data[n]) /\ (n \in GroupId => Distinct(n))
  => ReadsBack(ReadBack)

=============================================================================
