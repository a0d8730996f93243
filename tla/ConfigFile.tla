----------------------------- MODULE ConfigFile ------------------------------
(***************************************************************************)
(* The configuration file: how alConfig.c reads its lines into the alarm   *)
(* tree and writes the tree back.  A line is a record with a key; the name *)
(* of the parent on a GROUP or CHANNEL line is looked for from the group   *)
(* read last upwards.  What a group or channel keeps of its lines is       *)
(* [name, mask, beep, opt]: opt gives, for the tag of each kind of         *)
(* optional line, the sequence of what is kept of them.                    *)
(***************************************************************************)
EXTENDS TreeOps, SequencesExt

CONSTANT Files  \* what the files that can be read hold: for a name, a sequence of lines

\* only the first line of these counts
FirstTag == {"FORCEPV", "SEVRPV", "COMMAND", "ALIAS", "ALARMCOUNTFILTER", "LOCATION"}
\* only the last one
LastTag == {"FORCEPV_CALC", "ACKPV"}
\* every one; LOCATION and GUIDANCE are the two forms of $GUIDANCE
ListTag == {"SEVRCOMMAND", "STATCOMMAND", "GUIDANCE"}
Tag == FirstTag \cup LastTag \cup ListTag
ChanTag == {"ALARMCOUNTFILTER", "STATCOMMAND"}

\* alCreateGroup, alCreateChannel
NewData(name) == [name |-> name, mask |-> "-----", beep |-> 0, opt |-> [tag \in Tag |-> <<>>]]

\* alAllocMainGroup: nothing is read, and some links are in use
NothingRead(t, data, used) ==
  [t |-> t, data |-> data, used |-> used,
   p1stgroup |-> NULL, beepSevr |-> 1, heartbeat |-> <<>>, crashed |-> FALSE,
   glink |-> NULL, clink |-> NULL, gclink |-> NULL, context |-> "NONE"]

\* mutant: the parent is the group read last or the one above it
Parent_OneUp(rd, g, name) ==
  IF g = NULL THEN NULL
  ELSE IF rd.data[g].name = name THEN g
  ELSE IF rd.t.parent[g] = NULL THEN NULL
  ELSE IF rd.data[rd.t.parent[g]].name = name THEN rd.t.parent[g] ELSE NULL

\* g, or the nearest group above it, of that name
RECURSIVE Parent(_, _, _)
Parent(rd, g, name) ==
  IF g = NULL THEN NULL
  ELSE IF rd.data[g].name = name THEN g ELSE Parent(rd, rd.t.parent[g], name)

AnyOf(S) == CHOOSE n \in S : TRUE
Created(rd, n, d) == [rd EXCEPT !.used = @ \cup {n}, !.data[n] = d]

----------------------------------------------------------------------------
(* Reading: one operator for each kind of line.                            *)

MainLink(rd) == IF Top \notin rd.used THEN Top ELSE AnyOf(GroupId \ rd.used)

\* the first group is the main group; the second one without a parent goes below the last one
AddGroup(rd, parent, g, name) ==
  [Created(rd, g, NewData(name)) EXCEPT !.t = alAdd(@, parent, g), !.glink = g]
GetGroupLine(rd, l) ==
  IF l.parent = "NULL" /\ rd.p1stgroup = NULL
  THEN [Created(rd, MainLink(rd), NewData(l.name)) EXCEPT !.p1stgroup = MainLink(rd),
                                                          !.glink = MainLink(rd)]
  ELSE IF l.parent = "NULL"
  THEN IF rd.glink = NULL THEN [rd EXCEPT !.crashed = TRUE]
       ELSE AddGroup(rd, rd.glink, AnyOf(GroupId \ rd.used), l.name)
  ELSE IF Parent(rd, rd.glink, l.parent) = NULL THEN rd
  ELSE AddGroup(rd, Parent(rd, rd.glink, l.parent), AnyOf(GroupId \ rd.used), l.name)

AddChan(rd, parent, c, l) ==
  [Created(rd, c, [NewData(l.name) EXCEPT !.mask = l.mask])
     EXCEPT !.t = alAdd(@, parent, c), !.glink = parent, !.clink = c]
GetChannelLine(rd, l) ==
  IF Parent(rd, rd.glink, l.parent) = NULL THEN rd
  ELSE AddChan(rd, Parent(rd, rd.glink, l.parent), AnyOf(ChanId \ rd.used), l)

\* what is kept of the lines of a tag with one more
WithOption(old, l, context) ==
  IF l.key \in ChanTag /\ context # "CHANNEL" THEN old
  ELSE CASE l.key \in ListTag -> Append(old, l.val)
         [] l.key \in LastTag -> <<l.val>>
         [] OTHER -> IF old = <<>> THEN <<l.val>> ELSE old

GetOptionalLine(rd, l) ==
  CASE l.key = "BEEPSEVERITY" -> [rd EXCEPT !.beepSevr = l.val]
    [] l.key = "HEARTBEATPV" -> [rd EXCEPT !.heartbeat = IF @ = <<>> THEN <<l.val>> ELSE @]
    [] l.key = "BEEPSEVR" -> IF rd.gclink = NULL THEN rd
                             ELSE [rd EXCEPT !.data[rd.gclink].beep = l.val]
    [] l.key \in Tag -> IF rd.gclink = NULL THEN rd
                        ELSE [rd EXCEPT !.data[rd.gclink].opt[l.key] = WithOption(@, l, rd.context)]

RECURSIVE alGetConfig(_, _)

\* the file is read as if the parent were the main group; if there is none, the main group is lost
Included(rd, r, parent) ==
  [r EXCEPT !.p1stgroup = IF @ = NULL THEN NULL ELSE rd.p1stgroup,
            !.glink = IF r.p1stgroup = NULL THEN rd.glink ELSE parent,
            !.clink = rd.clink]
IncludeIn(rd, parent, file) ==
  Included(rd, alGetConfig([rd EXCEPT !.p1stgroup = parent, !.glink = parent, !.clink = NULL,
                                      !.gclink = NULL, !.context = "NONE"], Files[file]), parent)
GetIncludeLine(rd, l) ==
  IF l.parent = "NULL"
  THEN IF rd.p1stgroup # NULL THEN rd ELSE IncludeIn(rd, NULL, l.file)
  ELSE IncludeIn(rd, Parent(rd, rd.glink, l.parent), l.file)

\* the options that follow a line are for the group or channel read last, even if it failed
ForGroup(rd) == [rd EXCEPT !.context = "GROUP", !.gclink = rd.glink]
ForChan(rd) == [rd EXCEPT !.context = "CHANNEL", !.gclink = rd.clink]
GetLine(rd, l) ==
  CASE l.key = "GROUP" -> ForGroup(GetGroupLine(rd, l))
    [] l.key = "CHANNEL" -> ForChan(GetChannelLine(rd, l))
    [] l.key = "INCLUDE" -> ForGroup(GetIncludeLine(rd, l))
    [] OTHER -> GetOptionalLine(rd, l)
alGetConfig(rd, lines) ==
  IF lines = <<>> \/ rd.crashed THEN rd ELSE alGetConfig(GetLine(rd, Head(lines)), Tail(lines))

----------------------------------------------------------------------------
(* Writing.                                                                *)

\* a force PV is there if its name or its expression is; without a name it cannot be written
HasForcePV(d) == d.opt["FORCEPV"] # <<>> \/ d.opt["FORCEPV_CALC"] # <<>>
Unnamed(d) == HasForcePV(d) /\ d.opt["FORCEPV"] = <<>>

WrittenTags == <<"FORCEPV", "FORCEPV_CALC", "SEVRPV", "COMMAND", "ALIAS", "ALARMCOUNTFILTER",
                 "SEVRCOMMAND", "STATCOMMAND", "LOCATION", "GUIDANCE">>
Written(d, tag) ==
  IF tag = "FORCEPV_CALC" /\ d.opt["FORCEPV"] # <<"CALC">> THEN <<>> ELSE d.opt[tag]
OptionLines(d, tag) ==
  [i \in 1 .. Len(Written(d, tag)) |-> [key |-> tag, val |-> Written(d, tag)[i]]]
DataLines(d) ==
  (IF d.beep > 1 THEN <<[key |-> "BEEPSEVR", val |-> d.beep]>> ELSE <<>>)
  \o FlattenSeq([i \in DOMAIN WrittenTags |-> OptionLines(d, WrittenTags[i])])

RECURSIVE alWriteGroupConfig(_, _, _)
ChanLines(data, g, c) ==
  <<[key |-> "CHANNEL", parent |-> data[g].name, name |-> data[c].name, mask |-> data[c].mask]>>
  \o DataLines(data[c])
alWriteGroupConfig(t, data, g) ==
  <<[key |-> "GROUP", name |-> data[g].name,
     parent |-> IF t.parent[g] = NULL THEN "NULL" ELSE data[t.parent[g]].name]>>
  \o DataLines(data[g])
  \o FlattenSeq([i \in 1 .. Len(Chans(t, g)) |-> ChanLines(data, g, Chans(t, g)[i])])
  \o FlattenSeq([i \in 1 .. Len(SubGroups(t, g)) |->
                   alWriteGroupConfig(t, data, SubGroups(t, g)[i])])

alWriteConfig(beepSevr, t, data) ==
  (IF beepSevr > 1 THEN <<[key |-> "BEEPSEVERITY", val |-> beepSevr]>> ELSE <<>>)
  \o alWriteGroupConfig(t, data, Top)

----------------------------------------------------------------------------
(* A tree as a value, without its links.                                   *)

RECURSIVE Value(_, _, _), Values(_, _, _)
Values(t, data, ns) ==
  IF ns = <<>> THEN <<>> ELSE <<Value(t, data, Head(ns))>> \o Values(t, data, Tail(ns))
Value(t, data, n) ==
  [d |-> data[n],
   chans |-> IF n \in ChanId THEN <<>> ELSE Values(t, data, Chans(t, n)),
   subs |-> IF n \in ChanId THEN <<>> ELSE Values(t, data, SubGroups(t, n))]

\* what of a group or channel a file keeps
Saved(d) ==
  [d EXCEPT !.beep = IF @ > 1 THEN @ ELSE 0,
            !.opt = [tag \in Tag |-> IF tag = "ACKPV" THEN <<>> ELSE Written(d, tag)]]

\* the links below and including n
RECURSIVE Below(_, _)
Below(t, n) ==
  {n} \cup IF n \in ChanId THEN {}
           ELSE UNION {Below(t, m) : m \in Range(Chans(t, n) \o SubGroups(t, n))}

=============================================================================
