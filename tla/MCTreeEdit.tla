----------------------------- MODULE MCTreeEdit -----------------------------
(***************************************************************************)
(* The windows of both programs.  The tree of the alarm handler: "top"     *)
(* holds the groups "A" and "D", "A" the group "C" and the channel "a",    *)
(* "C" the group "E", "E" the channel "e" and "D" nothing.  The            *)
(* configuration tool opens two files.                                     *)
(***************************************************************************)
EXTENDS TreeEdit

SmallConfig == <<<<"top", "A">>, <<"top", "D">>, <<"A", "C">>, <<"C", "E">>,
                 <<"A", "a">>, <<"E", "e">>>>
MCFilters(f) == IF f = "all" THEN {} ELSE {f}
MCRowCounts(f) == IF f = "all" THEN {2, 3} ELSE {5}
OneAlarm(f) == {"e"}
MCNames(f) == IF f = "all" THEN {"A", "C"} ELSE {}
MCArrows(f) == IF f = "all" THEN {"A", "C"} ELSE {"A"}

GroupLine(parent, name) == [key |-> "GROUP", parent |-> parent, name |-> name]
ChanLine(parent, name, mask) ==
  [key |-> "CHANNEL", parent |-> parent, name |-> name, mask |-> mask]
Option(key, val) == [key |-> key, val |-> val]
Include(parent, file) == [key |-> "INCLUDE", parent |-> parent, file |-> file]

\* two groups, one in the other, and a channel with a force PV
Small == <<GroupLine("NULL", "P"), GroupLine("P", "Unnamed_Group"),
           ChanLine("Unnamed_Group", "Unnamed_Channel", "-D---"), Option("FORCEPV", "f")>>
\* every kind of line, with lines that fail or count once only
Whole ==
  <<Option("ALIAS", "lost"), Option("BEEPSEVERITY", 3), Option("HEARTBEATPV", "hb"),
    GroupLine("NULL", "P"), Option("BEEPSEVR", 1), Option("ALARMCOUNTFILTER", <<3, 5>>),
    Option("GUIDANCE", "g1"), Option("GUIDANCE", "g2"),
    Include("P", "part"),
    Option("ALIAS", "p"), GroupLine("nowhere", "R"), Option("COMMAND", "go"),
    GroupLine("P", "S"), Option("SEVRCOMMAND", "UP_ALARM a"), Option("SEVRCOMMAND", "DOWN_ANY b"),
    ChanLine("P", "y", "--A--"), Option("ALARMCOUNTFILTER", <<3, 5>>),
    Option("ALARMCOUNTFILTER", <<4, 4>>), Option("STATCOMMAND", "HIHI c"), Option("BEEPSEVR", 2),
    Option("FORCEPV", "CALC"), Option("FORCEPV_CALC", "A+B"), Option("SEVRPV", "s"),
    Option("LOCATION", "http"), Option("ACKPV", "ack")>>
Part == <<GroupLine("NULL", "Q"), GroupLine("Q", "T"), ChanLine("nowhere", "z", "-----"),
          ChanLine("Q", "x", "-----")>>
MCFiles == [file \in {"small", "whole", "part"} |->
              CASE file = "small" -> Small [] file = "whole" -> Whole [] file = "part" -> Part]

MCMaxEdits(links) == IF links > 4 THEN 1 ELSE 3
MCSheet(x) == IF x.mask = "-D---" THEN {[x EXCEPT !.name = "N", !.mask = "-----"]} ELSE {}

Kind0(n) == IF n \in GroupId THEN "subs" ELSE "chans"
ClipValue == IF clip = NULL THEN <<>> ELSE <<<<Kind0(clip), Value(tree, data, clip)>>>>
FileValue(file) ==
  LET rd == alGetConfig(NothingRead(NoTree, [n \in Link |-> NoData], {}), Files[file])
  IN Value(rd.t, rd.data, rd.p1stgroup)
Leaf(name) == [d |-> NewData(name), chans |-> <<>>, subs |-> <<>>]
MCDocuments ==
  {FileValue(file) : file \in OpenFiles} \cup {Leaf("Unnamed_Group")}
  \cup {Value(ReadConfig(NoTree, Config0), [n \in Link |-> NoData], Top)}
MCNewNodes == {<<"subs", Leaf("Unnamed_Group")>>, <<"chans", Leaf("Unnamed_Channel")>>}
MCSheets(d, l) == {ApplyData(x) : x \in Sheet(ShownData(d))}
Editing == INSTANCE TreeEditing WITH
  doc <- Value(tree, data, Top), clip <- ClipValue, Documents <- MCDocuments,
  NewNodes <- MCNewNodes, Copied <- CopiedData, Left <- WithoutForcePV, SheetsOf <- MCSheets

\* Every step of the configuration tool on the links is an edit of the tree as a value, and the
\* clipboard is not changed by edits of the tree nor the other way round (TreeEditing; awEdit.c,
\* alLib.c), except that Copy erases the names and expressions of the force PVs it copies, in the
\* original as well: alForcePVCopy (force.c:921) exchanges the arguments of strcpy.
EditsTree ==
  /\ Editing!EditingInit
  /\ [][programId = "ALH" \/ Editing!EditingNext]_(Editing!editingVars)

=============================================================================
