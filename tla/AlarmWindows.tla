---------------------------- MODULE AlarmWindows ----------------------------
(***************************************************************************)
(* The main window of the alarm handler: the operator clicks on names and  *)
(* arrows, uses the View and Setup menus, scrolls and resizes, while       *)
(* alarms come and go.  Clicks are counted: a press on a name or an arrow  *)
(* starts a timer, and acts when the timer runs out (a single click) or at *)
(* once if it is the second one (a double click).                          *)
(***************************************************************************)
EXTENDS TreeWindows, TreeLists

CONSTANTS
  Config0,          \* the links of the configuration file, <<parent, link>>
  InitFilters,      \* the display filters of the option -filter
  HiddenCommands,   \* whether commands are given to groups that are not in view
  \* bounds, given the display filter: the filters selected in the Setup menu, the lines the
  \* windows are given room for (the fewest first), the channels whose alarms come and go, and
  \* the links whose names and arrows are clicked on
  Filters(_), RowCounts(_), AlarmChan(_), Names(_), Arrows(_),
  MaxConfig,        \* bound: alarms come while the windows count at most so many lines
  MaxTimers         \* bound: a first click is counted while fewer timers of clicks run

VARIABLES
  curSevr, unackSevr,  \* of each channel, 0 or 1
  viewFilter,          \* area->viewFilter
  view,                \* what the windows keep
  click                \* the clicks being counted, of each kind

windowsVars == <<tree, curSevr, unackSevr, viewFilter, view, click>>

Highest(sevr, n) ==
  IF \E c \in ChanId : sevr[c] > 0 /\ (c = n \/ n \in Above(tree, c)) THEN 1 ELSE 0

\* what the filters and the indicators see of the channels
Env(flt, cur, unack) ==
  [sevr |-> [n \in Link |-> Highest(cur, n)],
   filter |-> [n \in Link |-> Shown(flt, Highest(cur, n), Highest(unack, n))]]
Now == Env(viewFilter, curSevr, unackSevr)

Window(rows) ==
  [parentLink |-> NULL, offset |-> 0, config |-> 0, rows |-> rows, lines |-> <<>>,
           sel |-> NULL, modified |-> FALSE, bar |-> FALSE, above |-> 0, below |-> 0]
NoView(rows) ==
  [viewCount |-> [n \in Link |-> IF n \in ChanId THEN 1 ELSE 0],
   treeSym |-> [g \in GroupId |-> <<>>],
   line |-> [w \in {TW, GW} |-> [n \in Link |-> 0]],
   win |-> [w \in {TW, GW} |-> Window(rows)], sel |-> NULL]

Kind == {"arrowTreeW", "arrowGroupW", "nameGroupW"}
NoClick == [clicks |-> 0, data |-> NULL, timers |-> 0]

\* alReadConfig adds every group and channel to its parent
RECURSIVE ReadConfig(_, _)
ReadConfig(t, s) == IF s = <<>> THEN t ELSE ReadConfig(alAdd(t, s[1][1], s[1][2]), Tail(s))

Init ==
  /\ tree = ReadConfig(NoTree, Config0)
  /\ curSevr = [c \in ChanId |-> 0] /\ unackSevr = [c \in ChanId |-> 0]
  /\ viewFilter \in InitFilters
  /\ view = createConfigDisplay(tree, Env(viewFilter, curSevr, unackSevr), NoView(Min(RowCounts(viewFilter))),
                                Top)
  /\ click = [k \in Kind |-> NoClick]

----------------------------------------------------------------------------
(* Clicks.  Bounds: one kind of click is counted at a time and, unless     *)
(* HiddenCommands, nothing else is done while an arrow is clicked.         *)

Counting(k) == click[k].clicks > 0 \/ click[k].timers > 0
Idle == \A k \in Kind : ~Counting(k)
Free == HiddenCommands \/ (~Counting("arrowTreeW") /\ ~Counting("arrowGroupW"))
Allowed(n) == HiddenCommands \/ \A g \in Above(tree, n) : view.viewCount[g] > 1

Single(k, d) ==
  CASE k = "arrowTreeW" -> displayNewViewTree(tree, Now, view, d, "EXPANDCOLLAPSE1")
    [] k = "arrowGroupW" -> singleClickArrowGroupW(tree, Now, view, d)
    [] k = "nameGroupW" -> singleClickNameGroupW(view, d)
Double(k, d) ==
  CASE k = "arrowTreeW" -> displayNewViewTree(tree, Now, view, d, "EXPAND")
    [] k = "arrowGroupW" -> doubleClickArrowGroupW(tree, Now, view, d)
    [] k = "nameGroupW" -> doubleClickNameGroupW(tree, Now, view, d)

\* the callback of the button: the second press acts on what it is pressed on, and leaves the
\* timer of the first running; all timers of a kind share the data of the last first press
Press(k, d) ==
  /\ \A j \in Kind \ {k} : ~Counting(j)
  /\ \/ /\ click[k].clicks = 0 /\ click[k].timers < MaxTimers
        /\ click' = [click EXCEPT ![k] = [clicks |-> 1, data |-> d, timers |-> @.timers + 1]]
        /\ view' = view
     \/ /\ click[k].clicks = 1
        /\ click' = [click EXCEPT ![k].clicks = 0]
        /\ view' = Double(k, d)
  /\ UNCHANGED <<tree, curSevr, unackSevr, viewFilter>>

\* the timer of a first press, which may end the count of a later one; a name whose line shows no group any more leaves the count
Leaves(k, d) == k = "nameGroupW" /\ Link0(view, GW, d) \notin GroupId
Fired(c) ==
  [clicks |-> 0, timers |-> c.timers - 1, data |-> IF c.timers = 1 THEN NULL ELSE c.data]
TimerFires(k) ==
  /\ click[k].timers > 0
  /\ IF Leaves(k, click[k].data)
     THEN /\ view' = Select(view, GW, Link0(view, GW, click[k].data))
          /\ click' = [click EXCEPT ![k].timers = @ - 1]
     ELSE /\ view' = IF click[k].clicks = 1 THEN Single(k, click[k].data) ELSE view
          /\ click' = [click EXCEPT ![k] = Fired(@)]
  /\ UNCHANGED <<tree, curSevr, unackSevr, viewFilter>>

LineNos(w) == {i \in 1 .. Len(view.win[w].lines) : view.win[w].lines[i] # NULL}
HasArrow(g) == g \in GroupId \cap Arrows(viewFilter) /\ tree.first[<<g, SUB>>] # NULL

ArrowTreeW ==
  \E i \in LineNos(TW) :
    /\ HasArrow(Link0(view, TW, i)) /\ Allowed(Link0(view, TW, i))
    /\ Press("arrowTreeW", Link0(view, TW, i))
ArrowGroupW ==
  \E i \in LineNos(GW) :
    /\ HasArrow(Link0(view, GW, i)) /\ Allowed(Link0(view, GW, i))
    /\ Press("arrowGroupW", Link0(view, GW, i))
NameGroupW ==
  \E i \in LineNos(GW) :
    /\ Free /\ Link0(view, GW, i) \in Names(viewFilter)
    /\ \/ Link0(view, GW, i) \in GroupId /\ Press("nameGroupW", i)
       \/ /\ Link0(view, GW, i) \in ChanId
          /\ view' = Select(view, GW, Link0(view, GW, i))
          /\ UNCHANGED <<tree, curSevr, unackSevr, viewFilter, click>>

Do(v) == view' = v /\ UNCHANGED <<tree, curSevr, unackSevr, viewFilter, click>>

NameTreeW ==
  \E i \in LineNos(TW) :
    Free /\ Link0(view, TW, i) \in Names(viewFilter) /\ Do(nameTreeW(tree, Now, view, i))

\* the View menu: Expand One Level, Expand Branch, Collapse Branch, Expand All
ViewMenu ==
  \/ /\ Free /\ view.win[TW].sel # NULL /\ Allowed(view.win[TW].sel)
     /\ \E command \in {"EXPANDCOLLAPSE1", "EXPAND", "COLLAPSE"} :
          Do(displayNewViewTree(tree, Now, view, view.win[TW].sel, command))
  \/ Free /\ Do(displayNewViewTree(tree, Now, view, Top, "EXPAND"))

Scroll ==
  \E w \in {TW, GW} :
    /\ Free /\ view.win[w].bar
    /\ \E value \in 0 .. view.win[w].config - view.win[w].rows :
         value # view.win[w].offset /\ Do(scrollBarMoved(tree, Now, view, w, value))

Resize ==
  \E w \in {TW, GW}, rows \in RowCounts(viewFilter) : Free /\ Do(exposeResize(tree, Now, view, w, rows))

\* the Setup menu: Display Filter
SetFilter ==
  /\ Free
  /\ \E f \in Filters(viewFilter) :
       /\ viewFilter' = f
       /\ view' = createConfigDisplay(tree, Env(f, curSevr, unackSevr), view, Top)
  /\ UNCHANGED <<tree, curSevr, unackSevr, click>>

----------------------------------------------------------------------------
(* Alarms: what alNewAlarm does to the windows in local mode, and the      *)
(* update of the windows after the events of a poll.                       *)

\* the counts of the groups take the new severity before the window is told, and the
\* unacknowledged one only after
AlarmView(c, cur) ==
  awViewAddNewAlarm(tree, Env(viewFilter, cur, unackSevr),
    [view EXCEPT !.viewCount[c] = Shown(viewFilter, cur[c], unackSevr[c])], c,
    Shown(viewFilter, curSevr[c], unackSevr[c]), Shown(viewFilter, cur[c], unackSevr[c]))

NewAlarm(c) ==
  /\ Free /\ \A w \in {TW, GW} : view.win[w].config <= MaxConfig
  /\ curSevr' = [curSevr EXCEPT ![c] = 1 - @]
  /\ unackSevr' = [unackSevr EXCEPT ![c] = IF curSevr'[c] = 1 THEN 1 ELSE @]
  /\ view' = alUpdateAreas(tree, Env(viewFilter, curSevr', unackSevr'), AlarmView(c, curSevr'))
  /\ UNCHANGED <<tree, viewFilter, click>>

\* the operator acknowledges; the windows follow with the next update
Acknowledge(c) ==
  /\ Free /\ unackSevr[c] = 1
  /\ unackSevr' = [unackSevr EXCEPT ![c] = 0]
  /\ view' = alUpdateAreas(tree, Env(viewFilter, curSevr, unackSevr'), view)
  /\ UNCHANGED <<tree, curSevr, viewFilter, click>>

Next ==
  \/ ArrowTreeW \/ ArrowGroupW \/ NameGroupW \/ \E k \in Kind : TimerFires(k)
  \/ NameTreeW \/ ViewMenu \/ Scroll \/ Resize \/ SetFilter
  \/ \E c \in AlarmChan(viewFilter) : NewAlarm(c) \/ Acknowledge(c)

Spec == Init /\ [][Next]_windowsVars

----------------------------------------------------------------------------
(* Properties.                                                             *)

\* the lines g takes: itself and, if it is open, what its subgroups take
RECURSIVE LinesOf(_)
LinesOf(g) ==
  <<g>> \o IF view.viewCount[g] <= 1 THEN <<>>
           ELSE FlattenSeq([i \in 1 .. Len(SubGroups(tree, g)) |->
                  IF view.viewCount[SubGroups(tree, g)[i]] = 0 THEN <<>>
                  ELSE LinesOf(SubGroups(tree, g)[i])])
TreeLines == IF view.viewCount[Top] = 0 THEN <<>> ELSE LinesOf(Top)
ShownGroupLines ==
  IF view.win[GW].parentLink = NULL THEN <<>>
  ELSE Lines(tree, view, view.win[GW].parentLink)

\* the part of s a window has room for
Slice(s, W) == SubSeq(s, W.offset + 1, IF W.offset + W.rows < Len(s) THEN W.offset + W.rows ELSE Len(s))
Cut(s, n) == SubSeq(s, 1, Min({n, Len(s)}))
DrawnLines(w) == SelectSeq(Cut(view.win[w].lines, view.win[w].rows), LAMBDA n : n # NULL)

\* Each group in view counts exactly the lines it takes (GLINK.viewCount, alView.c).
CountsExact(s) ==
  /\ \A i \in 1 .. Len(s) : view.viewCount[s[i]] = Len(LinesOf(s[i]))
  /\ view.win[TW].config = Len(s)
ViewCountsExact == CountsExact(TreeLines)

\* The windows show what is in view from their first line on, nothing twice, and are full if
\* there is enough to show (redraw).
Fills(w, s) ==
  /\ DrawnLines(w) = Slice(s, view.win[w])
  /\ view.win[w].offset = 0 \/ Len(DrawnLines(w)) = view.win[w].rows
WindowsShowTree == viewFilter = "all" => Fills(TW, TreeLines) /\ Fills(GW, ShownGroupLines)

\* The indicators of a scroll bar show the highest severity of the lines out of sight.
HiddenSevr(w, s, S) ==
  MaxOf({IF w = TW /\ view.viewCount[s[i]] > 1 THEN OwnSevr(tree, Now, s[i])
         ELSE Now.sevr[s[i]] : i \in S})
IndicatorOf(w, s) ==
  view.win[w].bar =>
    /\ view.win[w].above = HiddenSevr(w, s, {i \in 1 .. Len(s) : i <= view.win[w].offset})
    /\ view.win[w].below = HiddenSevr(w, s, {i \in 1 .. Len(s) :
                                               i > view.win[w].offset + view.win[w].rows})
IndicatorsExact ==
  viewFilter = "all" => IndicatorOf(TW, TreeLines) /\ IndicatorOf(GW, ShownGroupLines)

\* The lines drawn beside a group tell where the tree goes on (treeView).
RECURSIVE SymOf(_)
LaterInView(g) == \E i \in 1 .. Len(After(tree, g)) : view.viewCount[After(tree, g)[i]] > 0
SymOf(g) ==
  IF g = Top THEN <<>>
  ELSE (IF tree.parent[g] = Top THEN <<>>
        ELSE [SymOf(tree.parent[g]) EXCEPT ![Len(SymOf(tree.parent[g]))] =
                IF LaterInView(tree.parent[g]) THEN "continue" ELSE "blank"])
       \o <<IF LaterInView(g) THEN "middle" ELSE "end">>
TreeSymsExact == \A g \in {TreeLines[i] : i \in DOMAIN TreeLines} : view.treeSym[g] = SymOf(g)

\* What the tree window knows of each group in view: how many lines it takes, and the symbols
\* that connect its line to those above and below (alView.c, after any sequence of clicks).
ViewExact == ViewCountsExact /\ TreeSymsExact

=============================================================================
