---------------------------- MODULE TreeWindows ----------------------------
(***************************************************************************)
(* The two windows of an area: alView.c, awView.c, axSubW.c.  The tree     *)
(* window shows the groups that are open, one to a line; the group window  *)
(* shows what is in the selected group.  A group counts the lines it and   *)
(* its open subgroups take (viewCount), a line points to its link and the  *)
(* link to its line in each window, and a redraw moves both.               *)
(*                                                                         *)
(* Lines are numbered from 1, and 0 stands for a NULL line pointer.  The   *)
(* operators take the tree t, the severities and the filter e, and what    *)
(* the windows keep, v; they return what the windows keep afterwards.      *)
(***************************************************************************)
EXTENDS TreeOps, SequencesExt

TW == "treeWindow"
GW == "groupWindow"

\* alFilterAll, alFilterAlarmsOnly, alFilterUnackAlarmsOnly, for what n and all below it have
Shown(viewFilter, curSevr, unackSevr) ==
  CASE viewFilter = "all" -> 1
    [] viewFilter = "active" -> IF curSevr > 0 \/ unackSevr > 0 THEN 1 ELSE 0
    [] viewFilter = "unack" -> IF unackSevr > 0 THEN 1 ELSE 0

----------------------------------------------------------------------------
(* alView.c: the lines of the tree and how many they are.                  *)

Depth(s, sym) == [s EXCEPT ![Len(s)] = sym]

RECURSIVE treeView(_, _, _, _, _, _)

\* EXPANDCOLLAPSE1 closes a group that is open
Closes(command, old) == command = "EXPANDCOLLAPSE1" /\ old > 1

\* the subgroups gs of g are adjusted one after the other, and g takes their lines
RECURSIVE SubViews(_, _, _, _, _, _, _)
SubViews(t, e, v, g, gs, command, treeSym) ==
  IF gs = <<>> THEN v
  ELSE LET v1 == treeView(t, e, v, Head(gs), command, treeSym)
       IN SubViews(t, e,
                   IF command = "NOCHANGE" THEN v1
                   ELSE [v1 EXCEPT !.viewCount[g] = @ + v1.viewCount[Head(gs)]],
                   g, Tail(gs), command, treeSym)

Continue(v, g, treeSym, later) ==
  (IF treeSym = <<>> THEN <<>> ELSE Depth(treeSym, IF later THEN "continue" ELSE "blank"))
  \o (IF v.viewCount[g] # 0 THEN <<"blank">> ELSE <<>>)

Subviewed(t, e, v, g, command, treeSym, old, later) ==
  IF \/ command = "COLLAPSE"
     \/ command = "NOCHANGE" /\ v.viewCount[g] = 1
     \/ Closes(command, old)
  THEN v
  ELSE SubViews(t, e, v, g, SubGroups(t, g),
                IF command = "EXPANDCOLLAPSE1" THEN "COLLAPSE" ELSE command,
                Continue(v, g, treeSym, later))

treeView(t, e, v, g, command, treeSym) ==
  LET later == \E i \in 1 .. Len(After(t, g)) :
                 IF command = "NOCHANGE" THEN v.viewCount[After(t, g)[i]] > 0
                 ELSE e.filter[After(t, g)[i]] > 0
  IN Subviewed(t, e,
               [v EXCEPT !.viewCount[g] = IF command = "NOCHANGE" THEN @ ELSE e.filter[g],
                         !.treeSym[g] = IF treeSym = <<>> THEN @
                                        ELSE Depth(treeSym, IF later THEN "middle" ELSE "end")],
               g, command, treeSym, v.viewCount[g], later)

\* mutant: only the parent takes it
AddAbove_Parent(t, v, g, diff) ==
  IF t.parent[g] = NULL THEN v ELSE [v EXCEPT !.viewCount[t.parent[g]] = @ + diff]

\* the groups above g take what g has gained or lost
RECURSIVE AddAbove(_, _, _, _)
AddAbove(t, v, g, diff) ==
  IF t.parent[g] = NULL THEN v
  ELSE AddAbove(t, [v EXCEPT !.viewCount[t.parent[g]] = @ + diff], t.parent[g], diff)

Adjusted(t, v, v1, g) == AddAbove(t, v1, g, v1.viewCount[g] - v.viewCount[g])

alViewAdjustTreeW(t, e, v, g, command) ==
  Adjusted(t, v, treeView(t, e, v, g, command, v.treeSym[g]), g)

Root(t, g) == IF t.parent[g] = NULL THEN g
              ELSE CHOOSE r \in Above(t, g) : t.parent[r] = NULL

RECURSIVE Filtered(_, _, _)
Filtered(e, v, s) ==
  IF s = <<>> THEN v
  ELSE Filtered(e, [v EXCEPT !.viewCount[Head(s)] = e.filter[Head(s)]], Tail(s))

\* the group window is to show g: the lines it takes are counted as they are shown
alViewAdjustGroupW(t, e, v, g) ==
  Filtered(e, v, (IF v.viewCount[g] <= 1 THEN SubGroups(t, g) ELSE <<>>) \o Chans(t, g))

InView(v, s) == SelectSeq(s, LAMBDA n : v.viewCount[n] # 0)
Lines(t, v, g) == InView(v, SubGroups(t, g) \o Chans(t, g))
GroupLines(t, v, g) == IF g = NULL THEN 0 ELSE Len(Lines(t, v, g))

Opt(s) == IF s = <<>> THEN NULL ELSE s[1]

RECURSIVE NextAbove(_, _, _)
NextAbove(t, v, g) ==
  IF g = NULL THEN NULL
  ELSE IF InView(v, After(t, g)) # <<>> THEN InView(v, After(t, g))[1]
  ELSE NextAbove(t, v, t.parent[g])

alViewNextTreeW(t, v, g) ==
  IF v.viewCount[g] > 1 THEN Opt(InView(v, SubGroups(t, g))) ELSE NextAbove(t, v, g)

alViewNextGroupW(t, v, n) ==
  LET after == InView(v, After(t, n)) IN
  IF after # <<>> \/ n \in ChanId THEN Opt(after)
  ELSE Opt(InView(v, Chans(t, t.parent[n])))

\* the next group in the tree, whether it is in view or not
RECURSIVE NextSibling(_, _)
NextSibling(t, g) ==
  IF g = NULL THEN NULL
  ELSE IF t.next[g] # NULL THEN t.next[g] ELSE NextSibling(t, t.parent[g])

RECURSIVE NthTree(_, _, _, _, _)
NthTree(t, v, g, n, count) ==
  IF g = NULL THEN NULL
  ELSE IF count >= n THEN IF count = n THEN g ELSE NULL
  ELSE IF count + v.viewCount[g] > n
       THEN NthTree(t, v, t.first[<<g, SUB>>], n, count + 1)
       ELSE NthTree(t, v, NextSibling(t, g), n, count + v.viewCount[g])

alViewNthTreeW(t, v, g, n) ==
  IF g = NULL THEN NULL
  ELSE IF v.viewCount[g] = 0 \/ n > v.viewCount[g] THEN NULL
  ELSE NthTree(t, v, g, n, 0)

alViewNthGroupW(t, v, g, n) ==
  IF g = NULL THEN NULL
  ELSE IF n < Len(Lines(t, v, g)) THEN Lines(t, v, g)[n + 1] ELSE NULL

MaxOf(S) == CHOOSE x \in S \cup {0} : \A y \in S \cup {0} : y <= x

\* the highest severity of the channels in g itself
OwnSevr(t, e, g) == MaxOf({e.sevr[c] : c \in {Chans(t, g)[i] : i \in 1 .. Len(Chans(t, g))}})

RECURSIVE MaxSevrTree(_, _, _, _, _, _, _)
MaxSevrTree(t, e, v, g, n, count, sevr) ==
  IF count >= n \/ g = NULL THEN sevr
  ELSE IF count + v.viewCount[g] > n
       THEN MaxSevrTree(t, e, v, t.first[<<g, SUB>>], n, count + 1,
                        MaxOf({sevr, OwnSevr(t, e, g)}))
       ELSE MaxSevrTree(t, e, v, NextSibling(t, g), n, count + v.viewCount[g],
                        IF v.viewCount[g] # 0 THEN MaxOf({sevr, e.sevr[g]}) ELSE sevr)

alViewMaxSevrNTreeW(t, e, v, g, n) ==
  IF n <= 0 THEN 0
  ELSE IF g = NULL THEN -1
  ELSE IF v.viewCount[g] = 0 THEN -1
  ELSE MaxSevrTree(t, e, v, g, n, 0, 0)

alViewMaxSevrNGroupW(t, e, v, n0, n) ==
  IF n <= 0 \/ n0 = NULL THEN 0
  ELSE LET rest == IF n0 \in GroupId
                   THEN <<n0>> \o After(t, n0) \o Chans(t, t.parent[n0])
                   ELSE <<n0>> \o After(t, n0)
           inView == InView(v, rest)
       IN MaxOf({e.sevr[inView[i]] : i \in {j \in 1 .. Len(inView) : j <= n}})

----------------------------------------------------------------------------
(* axSubW.c and awView.c: drawing.                                         *)

Nth(t, v, w, n) == IF w = TW THEN alViewNthTreeW(t, v, v.win[w].parentLink, n)
                   ELSE alViewNthGroupW(t, v, v.win[w].parentLink, n)
Next1(t, v, w, n) == IF w = TW THEN alViewNextTreeW(t, v, n) ELSE alViewNextGroupW(t, v, n)
MaxSevrN(t, e, v, w, n0, n) ==
  IF w = TW THEN alViewMaxSevrNTreeW(t, e, v, n0, n) ELSE alViewMaxSevrNGroupW(t, e, v, n0, n)

initSevrAbove(t, e, v, w) ==
  IF ~v.win[w].bar THEN v
  ELSE [v EXCEPT !.win[w].above = MaxSevrN(t, e, v, w, Nth(t, v, w, 0), v.win[w].offset)]

\* mutant: the lines scrolled out at the top are not taken off
BelowCount_NoOffset(W) == W.config - W.rows

BelowCount(W) == W.config - W.offset - W.rows
initSevrBelow(t, e, v, w, link) ==
  LET sevr == MaxSevrN(t, e, v, w, link, BelowCount(v.win[w])) IN
  IF ~v.win[w].bar \/ sevr < 0 THEN v ELSE [v EXCEPT !.win[w].below = sevr]

\* the scroll bar is there when the lines do not fit
adjustScrollBar(v, w) == [v EXCEPT !.win[w].bar = v.win[w].config > v.win[w].rows]

\* what is drawn from link on, in line row + 1, row + 2, ...
RECURSIVE Drawn(_, _, _, _, _)
Drawn(t, v, w, link, row) ==
  IF link = NULL THEN <<>>
  ELSE IF row + 1 >= v.win[w].rows \/ row + 1 >= v.win[w].config THEN <<link>>
  ELSE <<link>> \o Drawn(t, v, w, Next1(t, v, w, link), row + 1)

\* the link line i showed no longer points to it, unless it is drawn in a line before
Released(at, lines, i) ==
  IF i > Len(lines) THEN at
  ELSE IF lines[i] = NULL THEN at
  ELSE IF at[lines[i]] >= i THEN [at EXCEPT ![lines[i]] = 0] ELSE at

\* the rest of the lines show nothing
RECURSIVE Cleared(_, _, _)
Cleared(at, lines, i) ==
  IF i > Len(lines) THEN [line |-> at, lines |-> lines]
  ELSE Cleared(IF lines[i] = NULL THEN at ELSE [at EXCEPT ![lines[i]] = 0],
               [lines EXCEPT ![i] = NULL], i + 1)

RECURSIVE DrawLines(_, _, _, _)
DrawLines(at, lines, i, links) ==
  IF links = <<>> THEN Cleared(at, lines, i)
  ELSE DrawLines([Released(at, lines, i) EXCEPT ![Head(links)] = i],
                 IF i > Len(lines) THEN Append(lines, Head(links))
                 ELSE [lines EXCEPT ![i] = Head(links)],
                 i + 1, Tail(links))

Redrawn(v, w, d) == [v EXCEPT !.line[w] = d.line, !.win[w].lines = d.lines]

SevrBelow(t, e, v, w, links, row) ==
  IF /\ links # <<>>
     /\ row + Len(links) >= v.win[w].rows \/ row + Len(links) >= v.win[w].config
  THEN initSevrBelow(t, e, v, w, Next1(t, v, w, links[Len(links)])) ELSE v

RedrawFrom(t, e, v, w, row) ==
  LET links == Drawn(t, v, w, Nth(t, v, w, v.win[w].offset + row), row) IN
  SevrBelow(t, e,
            adjustScrollBar(
              Redrawn(initSevrAbove(t, e, v, w), w,
                      DrawLines(v.line[w], v.win[w].lines, row + 1, links)), w),
            w, links, row)

\* mutant: an offset too far is left as it is
TooFar_Never(W) == FALSE

TooFar(W) == W.offset > 0 /\ W.offset + W.rows > W.config

redraw(t, e, v, w, row) ==
  IF TooFar(v.win[w])
  THEN RedrawFrom(t, e, [v EXCEPT !.win[w].offset = MaxOf({v.win[w].config - v.win[w].rows})],
                  w, 0)
  ELSE RedrawFrom(t, e, v, w, IF row <= Len(v.win[w].lines) THEN row ELSE Len(v.win[w].lines))

\* the line of n in window w, as a row to redraw from
Row(v, w, n) == IF v.line[w][n] = 0 THEN 0 ELSE v.line[w][n] - 1

Config(v, w, n) == [v EXCEPT !.win[w].config = n]

\* displayNewViewTree, and nothing if no group is given
Displayed(t, e, v, g) ==
  redraw(t, e, Config(v, TW, v.viewCount[Root(t, g)]), TW, Row(v, TW, g))
displayNewViewTree(t, e, v, g, command) ==
  Displayed(t, e, alViewAdjustTreeW(t, e, v, g, command), g)

\* the group window is to show the contents of g from the first line on
GroupWindowOf(t, e, v, g) ==
  [v EXCEPT !.win[GW].parentLink = g, !.win[GW].config = GroupLines(t, v, g),
            !.win[GW].offset = 0]
ShowGroup(t, e, v, g) ==
  redraw(t, e, GroupWindowOf(t, e, IF g = NULL THEN v ELSE alViewAdjustGroupW(t, e, v, g), g),
         GW, 0)

\* markSelection
Select(v, w, n) == [v EXCEPT !.win[w].sel = n, !.sel = n]

----------------------------------------------------------------------------
(* Callbacks of the windows.                                               *)

Link0(v, w, i) == v.win[w].lines[i]

\* nameTreeW_callback
nameTreeW(t, e, v, i) ==
  Select(ShowGroup(t, e, Select(v, GW, NULL), Link0(v, TW, i)), TW, Link0(v, TW, i))

\* the groups above the parent of n are open
GrandparentsOpen(t, v, n) == \A g \in Above(t, t.parent[n]) : v.viewCount[g] > 1

OpenParent(t, e, v, n) ==
  IF v.viewCount[t.parent[n]] <= 1
  THEN displayNewViewTree(t, e, v, t.parent[n], "EXPANDCOLLAPSE1") ELSE v

\* singleClickArrowGroupW, doubleClickArrowGroupW
singleClickArrowGroupW(t, e, v, g) ==
  IF GrandparentsOpen(t, v, g)
  THEN displayNewViewTree(t, e, OpenParent(t, e, v, g), g, "EXPANDCOLLAPSE1") ELSE v
doubleClickArrowGroupW(t, e, v, g) ==
  displayNewViewTree(t, e, singleClickArrowGroupW(t, e, v, g), g, "EXPAND")

\* singleClickNameGroupW: line i as it is now
singleClickNameGroupW(v, i) == Select(v, GW, Link0(v, GW, i))

\* doubleClickNameGroupW: the group of line i becomes the selection of the tree window
doubleClickNameGroupW(t, e, v, i) ==
  LET n == Link0(v, GW, i)
      v1 == IF GrandparentsOpen(t, v, n) THEN OpenParent(t, e, v, n) ELSE v
  IN IF n \in ChanId THEN Select(v, GW, n)
     ELSE [ShowGroup(t, e, Select(v1, GW, NULL), n) EXCEPT !.win[TW].sel = n, !.sel = n]

\* initializeLines
RECURSIVE Emptied(_, _)
Emptied(lines, i) ==
  IF i > Len(lines) THEN lines ELSE Emptied([lines EXCEPT ![i] = NULL], i + 1)

\* initializeSubWindow: the links of the lines go on pointing to them
initializeSubWindow(v, w) ==
  [v EXCEPT !.win[w] = [@ EXCEPT !.offset = 0, !.sel = NULL, !.parentLink = NULL, !.config = 0,
                                 !.lines = Emptied(@, 1)]]

\* defaultTreeSelection: the first line of the tree window
defaultTreeSelection(t, e, v) ==
  IF v.win[TW].lines = <<>> THEN v
  ELSE ShowGroup(t, e, Select(v, TW, Link0(v, TW, 1)), Link0(v, TW, 1))

\* createConfigDisplay
ConfigDisplay(t, e, v, top) ==
  defaultTreeSelection(t, e,
    redraw(t, e, GroupWindowOf(t, e, alViewAdjustGroupW(t, e,
                   [Config(v, TW, v.viewCount[top]) EXCEPT !.win[TW].parentLink = top], top), top),
           TW, 0))
createConfigDisplay(t, e, v, top) ==
  ConfigDisplay(t, e,
    alViewAdjustTreeW(t, e,
      [initializeSubWindow(initializeSubWindow(v, TW), GW) EXCEPT !.viewCount[top] = 0],
      top, "EXPANDCOLLAPSE1"), top)

\* scrollBarMovedCallback
scrollBarMoved(t, e, v, w, value) ==
  redraw(t, e, [v EXCEPT !.win[w].offset = value], w, 0)

\* exposeResizeCallback
exposeResize(t, e, v, w, rows) == redraw(t, e, [v EXCEPT !.win[w].rows = rows], w, 0)

----------------------------------------------------------------------------
(* A channel of severity 0 comes into alarm: awViewAddNewAlarm.            *)

\* the walk up from g: what is found on the way, and the counts that grow
RECURSIVE AlarmPath(_, _, _, _)
AlarmPath(t, v, g, p) ==
  IF g = NULL THEN [v |-> v, p |-> p]
  ELSE LET count == v.viewCount[g]
           p1 == IF count > 1 /\ p.prevViewCount = 0
                 THEN [p EXCEPT !.viewParent = g, !.addViewLink = p.prevLink,
                                !.newLineTree = @ \/ p.prevLink # NULL]
                 ELSE IF count = 1
                 THEN [p EXCEPT !.viewParent = g, !.addViewLink = p.prevLink,
                                !.newLineTree = FALSE]
                 ELSE p
       IN AlarmPath(t, IF p1.newLineTree THEN [v EXCEPT !.viewCount[g] = @ + 1] ELSE v,
                    t.parent[g],
                    [p1 EXCEPT !.prevLink = g, !.prevViewCount = count])

\* nothing on the way is in view: the top group gets a line
Found(p) ==
  IF p.viewParent = NULL \/ p.prevViewCount = 0
  THEN [p EXCEPT !.addViewLink = p.prevLink, !.viewParent = p.prevLink, !.newLineTree = TRUE]
  ELSE p

InViewNow(v, n) == IF n = NULL THEN v ELSE [v EXCEPT !.viewCount[n] = 1]

NewLineTree(t, e, v, p) ==
  IF ~p.newLineTree THEN v
  ELSE alViewAdjustTreeW(t, e,
         [InViewNow(v, p.addViewLink) EXCEPT !.win[TW].modified = TRUE, !.win[TW].config = @ + 1],
         p.viewParent, "NOCHANGE")

NewLineGroup(v, p) ==
  IF v.win[GW].parentLink \in {NULL, p.viewParent}
  THEN [InViewNow(v, p.addViewLink) EXCEPT !.win[GW].modified = TRUE, !.win[GW].config = @ + 1]
  ELSE v

AddNewAlarm(t, e, v, p) == NewLineGroup(NewLineTree(t, e, v, p), p)
awViewAddNewAlarm(t, e, v, c, prevCount, count) ==
  IF prevCount > 0 \/ count = 0 THEN v
  ELSE LET a == AlarmPath(t, v, t.parent[c],
                          [viewParent |-> NULL, addViewLink |-> NULL, newLineTree |-> FALSE,
                           prevLink |-> NULL, prevViewCount |-> 1])
       IN AddNewAlarm(t, e, a.v, Found(a.p))

\* invokeSubWindowUpdate: what a line shows is brought up to date, and the indicators
LastLink(lines) == Opt(Reverse(SelectSeq(lines, LAMBDA n : n # NULL)))
UpdateBelow(t, e, v, w, last) ==
  IF last = NULL THEN v
  ELSE IF Next1(t, v, w, last) = NULL THEN v
  ELSE initSevrBelow(t, e, v, w, Next1(t, v, w, last))
invokeSubWindowUpdate(t, e, v, w) ==
  IF v.win[w].modified THEN [redraw(t, e, v, w, 0) EXCEPT !.win[w].modified = FALSE]
  ELSE initSevrAbove(t, e, UpdateBelow(t, e, v, w, LastLink(v.win[w].lines)), w)

alUpdateAreas(t, e, v) == invokeSubWindowUpdate(t, e, invokeSubWindowUpdate(t, e, v, TW), GW)

=============================================================================
