# A verification model of the EPICS Alarm Handler (ALH)

This directory models the Alarm Handler in TLA+, checks small instances of it with
TLC, and proves the most important of its properties for instances of every size
with TLAPS. Lines are those of the source files (`alLib.c:845`); names of actions
and fields are those of the C code.

## 1. The system

ALH shows a tree of alarm *groups* and *channels*. Channel Access (CA) reports the
alarm severity of each channel; each group shows how many channels below it have
each severity, whether something below it is unacknowledged, and beeps. Operators
acknowledge, and mask channels (Cancel, Disable, no Ack, no AckT, no Log). The
program has one thread: an Xt event loop calls callbacks of widgets, of timers and
of file descriptors of CA. Several processes run with the same configuration and
share files, and in *global mode* (`-global`) they share the acknowledgement state
that the IOC keeps.

| Component | State it keeps | Operations | Interacts through | What is hard | What makes it correct |
|---|---|---|---|---|---|
| Alarm tree (`alLib.c`, `mask.c`, `showmask.c`, `acknowledge.c`, `beepSevr.c`) | per channel: current and unacknowledged severity, mask, subscription, saved alarm; per group: counters `curSev[]`, `unackSev[]`, `unackBeepSev[]`, `beepSev[]`, `mask[]` | new event, acknowledge, change mask of a channel or group, change beep severity, silence | called by CA callbacks, windows, timers, force PVs | counters are changed by increments along many paths; masks combine | counters equal what a recount gives; transient alarms stay; group operations are complete |
| Channel Access (`alCA.c`, `alCaCommon.c`, `axArea.c`) | connection and rights of each channel, `toBeConnectedCount` | alarm, connection and rights events; wait for connections; `alSetNotConnected` | calls `alNewEvent`, `alConnectEvent` | events at any time, also during the wait | an unconnected channel is reported; a reconnected one shows its alarm |
| Locking and messages (`file.c`, `awAlh.c`) | lock file of the log, message lock and file, `masterFlag`, `amIsender`, `notsave`, timers | test for master, send and read messages, reload, quit | files and `lockf()` between processes | processes die at any step, reload, timers pile up | one master, a master again, every message read, logging resumes |
| Acknowledgement in the IOC (`alCaCommon.c`) | ACKS and ACKT of each record | `ca_put`, events | network | several operators, late answers | nothing is acknowledged that nobody saw |
| Alarm count filter (`alLib.c`) | latest event, timer, ring of times | event, timer | between CA and the tree | timer against event | an alarm that stays is shown after its time; one that flickers is shown after the count |
| No-Ack timers (`noAck.c`), force PVs (`force.c`) | timer per node; last value, force and reset value, calculation | start, expire, cancel; value events | mask operations of the tree | timers of parent and child, operator in between, disconnection | every temporary mask ends |
| Logs (`alLog.c`, `scroll.c`, `browser.c`, `current.c`) | ring offset, dated file name, lost count, last ten alarms | append, wrap, switch day, queue | files, message queue | limits and dates | nothing is lost but what the ring overwrites |
| Heartbeat (`heartbeat.c`) | timer id | start, stop, tick | CA access rights | timer against rights | beats if and only if it can write |
| Commands (`process.c`, `alConfig.c`) | lists of commands | run on a severity or status | called by the tree | only the master runs some | each change runs its commands once |
| Configuration files (`alConfig.c`, `property.c`) | - | read, write | builds the tree | include files, errors | written and read again it is the same tree |
| Editing (`awEdit.c`, `awAct.c`, `sllLib.c`) | clipboard, lists of nodes | cut, copy, paste, insert, clear, apply | the tree and its views | kept pointers, counts by increments | each edit is an edit of the tree, lists stay linked |
| Windows (`alView.c`, `awView.c`, `line.c`, `axSubW.c`, `alFilter.c`) | `viewCount`, symbols, lines, filter | open, close, redraw | tree | counts by increments | lines shown are those of the open groups |
| Runtime window (`axRunW.c`) | silence flags and their timer, blinking | silence, beep | tree | timers, several areas | silence ends |
| Not core | dialogs, help, browser, printing program, sound drivers, database and CMLOG calls, CDEV variant | | | | |

`PROJECT.json` lists all of them with what is modelled, and under `hazards` what can
go wrong in each, at its line, with the properties that would show it.

## 2. The modules

| Module | Content |
|---|---|
| `AlarmOps` | the tree and each function of `alLib.c` as an operator from the state before the call to the state after it |
| `AlarmHandler` | one running program: CA events, operator callbacks, group callbacks step by step |
| `AlarmProperties` | what must hold of it |
| `MCAlarmHandler` | two small trees and sets of masks for TLC |
| `AlarmOpsProofs` | lemmas on the operators of `AlarmOps`: what each function does to masks, counters, types |
| `AlarmProofs` | inductive invariants and theorems about `AlarmHandler` |
| `CountFilter` | the alarm count filter between CA and `AlarmOps`, its timer and ring of times; the refinement mapping |
| `ReportHistory` | how long a channel's last report has lasted and when those before it came, as an observer notes it |
| `AlarmRegistration` | abstract: what the filter promises of one channel, in terms of that history |
| `MCCountFilter` | a channel with each kind of filter |
| `CountFilterProofs` | invariants of the filter, and that each of its steps is one of `AlarmRegistration` |
| `NoAck`, `MCNoAck` | "NoAck for one hour": timers of groups and channels, the dialog |
| `ForcePV`, `MCForcePV` | force PVs and CALC expressions, their dialog, over `NoAck` |
| `ForcePVProofs` | inductive invariants and theorems about `NoAck`, and over them about `ForcePV` |
| `AlarmLog`, `MCAlarmLog` | alarm log file, its window and browser, message queues |
| `AlarmLogProofs` | lemmas on the operators of `AlarmLog`, inductive invariant and theorems |
| `RuntimeWindow`, `MCRuntimeWindow` | lamp, beeper, silence, heartbeat, alarm history, File Open, and the timers of Xt |
| `RuntimeWindowProofs` | inductive invariant and theorems about `RuntimeWindow` |
| `TreeOps` | the linked lists of the tree (`sllLib.c`) and the calls of `alLib.c` that change them |
| `TreeLists` | any program that makes these calls: what each may be given, and that the lists stay exact |
| `SiblingOrder` | abstract: what the lists promise, the order of the groups and channels of each group |
| `TreeListsProofs` | what each call makes of a list of any length, inductive invariant, and that `TreeLists` implements `SiblingOrder` |
| `TreeWindows` | the functions of the tree and group windows as operators |
| `AlarmWindows` | the windows of the Alarm Handler, with clicks, menus and alarms |
| `ConfigFile` | reading and writing configuration files as operators |
| `TreeEdit` | one area as Alarm Handler or as configuration tool (ACT) with its edits |
| `TreeEditing` | abstract: what an edit does to the tree as a value |
| `MCTreeEdit` | trees, files and edits for TLC; the refinement mapping |
| `LockBroadcast` | several processes, their lock files and messages, with its properties |
| `MCLockBroadcast` | two processes for TLC |
| `LockBroadcastProofs` | inductive invariant and theorems about `LockBroadcast` |

`CountFilter` EXTENDS `AlarmOps` and `ReportHistory`; `ForcePV` EXTENDS `NoAck`; `TreeEdit` EXTENDS
`AlarmWindows` (over `TreeLists` and `TreeWindows`, both over `TreeOps`) and `ConfigFile`.

### 2.1 AlarmOps and AlarmHandler

A callback runs to its end before the next starts, so a C function is an operator
`f(s, ...)` on a record `s` of the channels, groups and globals, and a callback on
one channel is one action. A loop from a node to the root is one definition over
`Anc[n]`, the set of groups above `n`; the intermediate state is visible to nobody.
A callback on a *group* visits the channels below it one by one
(`alForceGroupMask`, `alChangeGroupMask`, `alResetGroupMask`, `ackGroup`,
`alSetNotConnected`); it is one action a visit (`CallbackStep`), with `running` for
the C stack, and nothing else can start in between. `ackGroup` skips a subgroup whose
`unackSevr` is clear *when it reaches it*, which is why the steps are kept apart.

| Model | Code |
|---|---|
| `chan[c]`, `group[g]`, `psetup` | `struct chanData`, `struct groupData` (`alLib.h:97-166`), `psetup` and the `mainGroup` fields |
| `link[c]`, `toBeConnectedCount` | CA connection and access rights; `alCA.c:31` |
| `running.call = "alCaPend"` | the wait of `setupConfig` (`axArea.c:205-212`): only CA is served |
| `CaAlarmEvent`, `ConnUp`, `ConnDown`, `AccessRightsEvent` | `alCaNewAlarmEvent`, `alCaChannelConnectionEvent`, `alCaChannelAccessRightsEvent` |
| `ForceChanMask`, `ChangeChanMask`, `ResetChanMask` and the `Group` ones | the callbacks of `mask.c` and `showmask.c` |
| `AckChan`, `AckGroup` | `ack_callback` |
| `ChangeBeepSevr`, `SystemBeepSevr`, `ToggleSilenceCurrent` | `beepSevr.c`, `awAlh.c`, `axRunW.c` |

Abstractions: severities are `0..ALARM_NSEV` (the last is ERROR), all real alarm
statuses are one value `"ALARM"`; texts, log lines, display lines and
the flags that mark them are left out, also `unackSev[0]`, `unackBeepSev[0]` and
`beepSev[0]`, which nobody reads. In global mode an operator's acknowledgement is a
put to the IOC that changes nothing here; the IOC answers with an event, and *every*
event an IOC can send is enumerated at any time (`IocEvent`), so whatever the IOC
answers is covered. Severity PVs are taken to be connected, the count filter is off
(`CountFilter` has it), and the configuration does not change.

### 2.2 LockBroadcast

Each process has the phase of its load of the configuration (`setupConfig`,
lock file, message file) as separate actions, because other processes run in
between, then the event loop, where a timer or a dialog callback is one action.
`Crash` can happen at any step; the kernel releases the locks. A `lockf()` lock is
given up when the process closes any descriptor of that file, which the
`fopen`/`fclose` at the start of a load does (`Release`).

`lockFileBase` is empty during the first load (`file.c:1229-1232` sets it after it),
so the lock file has two names; this is in the model because it is in the code.
Timers are counters of pending `XtAppAddTimeOut` calls, since a reload starts them
again without removing the old ones.

Time is in one place: a message is erased 60 s after it was written
(`awAlh.c:147`), and each process polls every 2 s (`file.c:116`). Each pending
erasure therefore holds the set of processes that were waiting for events when the
message was written, and it can only happen when each of these has polled, begun a
load or died. A process in a load promises nothing. Message ids are times in
seconds; the model takes them to grow.

### 2.3 CountFilter and AlarmRegistration

`alNewAlarmFilter` (`alLib.c:661-761`) decides for each event whether to call
`alNewAlarmProcess` now, to start a timer, or both. Its four cases (what is shown
against what is reported) are the operators `StayNormal`, `LeaveAlarm` and the two
others of `Level`; `CountCheck` is the ring of `2 * inputCount` times. `FilterTimer` is
the timer's callback, which processes the *latest* event. Times are ages that `Tick`
moves, and a timer is served at some moment after it ran out. `told`, `lasted` and
`changes` are no variables of the program: they note the reports as they come
(`ReportHistory`) and no action reads them. `AlarmRegistration` says, without timer or ring,
when a report may be shown (it lasted, or the channel changed often enough) and that in
the end one that stays is shown. `Shown` maps the filter of one channel, `Watched`, to it,
and `FilterRegisters` is `Shown!Spec`.

### 2.4 NoAck and ForcePV

`NoAck` keeps of the tree only the masks: what a mask does to an alarm is in
`AlarmOps`. `ActivateOn`, `ActivateOff` (`noAckActivateCallback`) and `TimeOut` (the timers' callbacks)
act on a node and all channels below it; `Clock` is an hour in `Hour` ticks. The mask windows
(`MaskWindows`: `ForceMaskApply`, `ForceMaskReset`, `MaskActivate`) act on the selected node: they remove the timers
at it and below (`alRemoveNoAck1HrTimer...`, `showmask.c:556`, `569`, `606`, `619`; in `mask.c:368`, `377` only with the Ack bit),
change the masks and end in `axUpdateDialogs`. Timers of groups above run on. Force PVs
change masks and leave all timers (`force.c:1173-1241`), which is in `ForcePV` only. `ForcePV` adds for each node with a force PV the
fields of its structure, the connection of its PV and of the PVs in the slots A-F of
its CALC expression (`Expression`, with any function `Result` from values to values), the
events of these (`ValueEvent`, `CalcValueEvent`,
`Connection`), and the dialog, of which `Apply` changes one field at a time. `rpbuf`
says whether the compiled expression exists or was freed and is used all the same.

### 2.5 AlarmLog

A file is a sequence of bytes, each marked with its record, so that a record that is
partly overwritten shows. `Switched` is the change to the file of another day,
`Wraps`, `Printed` and `Advanced` the ring, `write2MQ` a queue and its lost count, all
called from `Put` as in `filePrintf`. The ring works with `-L` too: `file.c:1049` clears
`commandLine.alarmLogFileMaxRecords`, which nothing reads afterwards, and `filePrintf` goes by the global
`alarmLogFileMaxRecords` (2000, or `-m`). In a file that is appended to, the place after a record is the end of the file, so
a full ring is rewound and truncated to the length it has, and the length of the file is taken for
that of a record; `Wraps`, `Truncated` and `Advanced` do the same. With `-O` the database's
queue gets alarms and the typed lines of the other log (`OpModMessage`), which share the lost count; `opMods` notes
how many, so that the messages of a queue can be numbered (`Next2MQ`). The program can be started with each meaningful
combination of `-T`, `-L`, `-D`, `-m`, `-P` and `-O` (`Modes`). `BecomeMaster`,
`StopLogging` and `NotsaveProc` stand for what `LockBroadcast` does to the flags that
decide whether a record is written.

### 2.6 Windows, configuration tool, files

`TreeOps`, `TreeWindows` and `ConfigFile` are operators, one for each C function, over a
record of pointers (lists, lines, selection). `AlarmWindows` has the callbacks. A click
on a name or an arrow starts a timer and acts when it runs out, or at once if it was
the second (`Press`, `TimerFires`); alarms come while it is pending. `TreeEdit` has the
same windows for ACT: `CutSelection`, `CopySelection`, `Paste`, `InsertGroup`,
`InsertChannel`, `PropertiesApplied`, `Clear`, `Open`. Links are allocated from
a small set; a link is fresh when nothing points to it, neither tree nor clipboard nor
windows (`InUse`). The property window gives its fields as `ShownData`, the operator makes
something of them (`Sheet`), and `ApplyData` is what Apply keeps.

`ConfigFile` reads a sequence of lines, each already split into words, with the
"current" group and channel, the search for a line's parent, the rule for lines that
count once, and INCLUDE; `alWriteConfig` gives the lines that are saved.

`TreeLists` is the life of the lists alone. Every change of a list in the program, by reading a
file, copying, cutting, pasting, inserting or deleting, is one of four calls: `AddFresh`
(`alAddGroup`, `alAddChan`), `PrecedeFresh` (`alPrecedeGroup`, `alPrecedeChan`), `RemoveAny` (`alRemove...`)
and `DeleteUnused` (`alDelete...`); it makes them in any order. What a caller has to keep to is in
`Fresh`: the link that is added has just been created. `sllPrecede` at the end of a list does not clear the
new node's `next` (`sllLib.c:84-118`), and a node that was removed keeps its `next`, so a removed link
pasted again would lead a list into another one; `editPasteLink` pastes a copy. An edit of
`TreeEdit` makes several of these calls in one step, so its steps are not steps of `TreeLists`.
`SiblingOrder` says without pointers what the calls are for: a sequence for each list, to which one is added or in
which one is inserted, from which one is removed, and a group that is deleted takes its lists with it. `Siblings`
(what the walks along the pointers give) maps `TreeLists` to it.

`TreeEditing` is the abstract specification of the edits: the tree and the clipboard are
*values*; an edit removes, inserts, copies or replaces one node's value, and what is
done to the tree never changes the clipboard. `EditsTree` states that each step of
`TreeEdit` is such an edit or none.

### 2.7 RuntimeWindow

Timers are the pending ones of Xt: an id to a procedure, ids being used again (Xt gives a new
timer any id that is free), and each part keeps the id of its own (`blinkTimeoutId`, `caTimeoutId`, `intervalId`, the
heartbeat's). Any pending timer may run next. The tree is one channel whose severities go to
`psetup` at each update. "File Open" has a step when its dialog comes up
(`area.managed` goes) and one when a file is loaded (`setupConfig`), in which the heartbeat
of the new file may be connected and alarms of the new file may have come, or the file is
rejected (`setupConfigFails`, where `LeftBehind` is the heartbeat that such a file may have started); `main` alternates between two main groups.

## 3. What is checked

Passing runs (deadlock is checked except in `alarm_log`, whose days and records are bounded):

| Run | Instance | Shows |
|---|---|---|
| `local_disable` | local mode, group `top` with channel `a` and group `sub` with channel `b`, `b` disabled in the configuration and with a beep severity; severities NO_ALARM, MINOR, ERROR | `TypeOK`, `SeverityCountsExact`, `AlarmsStayLatched`; callbacks return (`CallbackReturns`) |
| `local_masks` | local mode, channel `b` in `sub` in `top`; all combinations of Disable, Ack, AckT, and of Cancel and Ack, silence, system beep severity | `MaskCountsExact`, `EventMatchesCancel`, `UnackCountsExact`, `BeepCountsExact`, `GroupAckComplete`, `NewAlarmEndsSilence` |
| `global_masks` | global mode, same tree, one severity more; rights come and go; ACKT 0 and 1; Disable or Ack | `SeverityCountsExact`, `GroupSevrPVFollows` |
| `beep_severity` | beep severities of all nodes, four levels | `BeepSevCountsExact` |
| `lock_broadcast` | two processes, one dialog each, two messages | `TypeOK`, `OneMasterUntilReload`, `StopLoggingEnds`, `MessageReachesAll`, `MasterTakeover` |
| `count_filter` | global mode, a channel with one of five filters, disabled or not | `FilterRegisters` (refinement, with liveness): what is shown is what `AlarmRegistration` allows and requires; `TimerMatches`: a timer runs exactly while something is withheld; `AcknowledgementPasses`: the filter holds no acknowledgement back |
| `no_ack` | a group with a channel (Ack in its configuration) and a subgroup with one; timers of all four nodes; mask windows for any of them | `NoAckLastsAnHour` whatever timers lie over each other and whichever of them a mask window removes, `ToggleShowsTimer`, `NoAckEnds` |
| `force_pv` | a group with a CALC of one slot, which the operator may make a plain PV; values 0, 1, 2; edits of one field | `MasksFollow`: the masks are those the value asks for; `DialogShowsForcePV`: Apply never writes the fields of one node to another |
| `alarm_log` | ring, dated ring, dated log, log with the printer's queue, log with the database's, read-only; two days of two hours, four records of two lengths, an operator line | `RingSound` (without `-L`: records whole and in order, undated file bounded), `BrowserFindsAll`, `LossReported`, `WindowShowsLog` |
| `windows` | ALH with five groups and two channels, display filters "all" and "active"; ACT with two files (one with every kind of line and an INCLUDE) | `ViewExact` (line counts and tree symbols), `WindowsShowTree`, `IndicatorsExact`, `ListsExact`, `SavedReadsBack`, `EditsTree` (refinement) |
| `runtime` | five kinds of sessions: local and global with silences, heartbeat active and passive, history window; files with other beep severity, with a heartbeat, without a group | `TimersOwned`, `HistoryShown`, `AlarmsBlinkAndBeep`, `HeartbeatBeats` (liveness through reloads) |

Run that TLC must find violated, a disagreement of the code with its own
documentation (`findings` in `PROJECT.json` quotes it):

| Run | What the code does |
|---|---|
| `read_only_log` | A process started with `-D` empties the log that another one writes: `ftell()` of the file it opened for reading is 0 after its first message, which becomes the length of a record (`alLog.c:539`); with the second one the ring counts as full and `truncateFile` empties the file (`alLog.c:526-528`). |

Every property of a passing run has a *mutant*: an operator beside the definition it
changes (marked "mutant" in the modules) with a plausible bug, for which TLC finds
the property violated.

### Bounds

- `ALARM_NSEV` 2 or 3 in place of 4: the code compares severities and indexes
  arrays; one real severity and ERROR give lower/higher/equal, a second one also
  gives a step between real alarms.
- Tree: two channels at different depth (`local_disable`, `beep_severity`) separate
  counters of siblings and levels. Runs with more masks have one channel two groups
  deep: the counters are sums of the channels' contributions, and what masks do to one
  channel's contribution does not depend on other channels.
- `OperatorMasks`: which bits are combined on a channel. With all five bits one run
  would not end; combinations left out are named below.
- `CounterBound`: masks change only while the severity counters are within it. It
  cuts off counters that drift where a divergence below applies (a cancelled
  channel), never correct ones: the sets of these runs keep counters in
  `0..Cardinality(Chan)`.
- `CountFloor`: how far below zero `toBeConnectedCount` is followed; 0 shows all
  that depends on it, since the code only tests for `> 0` and `= 0`.
- `MaxDialogs`, `MaxMess`, `TimerBound`: dialogs open at once, messages ever
  written, and how many message timers there may be for another file to be opened.
  Two messages and two timers show an old timer meeting a new message.
- `count_filter`: one channel, because filters of channels share nothing; periods of 0, 1
  and 2 s; counts -1, 0, 1, 2. A ring of two and of four slots wraps. Ages above the
  period are one value.
- `no_ack`: `Hour` is 3 ticks, so that three timers can be of different age at one time.
- `no_ack`: masks of the bits Ack and Log, one with timers and one without, forced to {Ack} or reset; what a mask
  window does to timers and dialog does not depend on other bits.
- `force_pv`: one node with a force PV. Nodes do not interact but through masks, which
  the mask windows change at any time. `MCEdited` lists the edits.
- `alarm_log`: `MaxRecords` 2 with lengths 2 and 3, so that a ring wraps in the middle of a
  longer record. `MaxLog` 4, `MaxTime` 3: a wrap, midnight, and records dated before it.
  `Modes` chooses one command line for a behaviour. `MaxOpMods` 1: operator lines that go to the database, of which
  one among four alarms fills the queue of two at any place. `-m 0` switches the ring off and is
  not modelled.
- `windows`, ALH: windows of 2 or 3 lines for "all" (more lines than room), of 5 for "active";
  one filter for a behaviour (`MCFilters`). One channel raises alarms, deepest in
  the tree. Kinds of clicks are counted one at a time; `MaxTimers` 2 timers of clicks may be
  pending, so that a press after a double click starts one beside the older one, which ends its count early. `MaxConfig` keeps alarms from adding
  lines without end where a divergence of section 5 makes them. `HiddenCommands`
  FALSE: no commands on groups in a collapsed branch (section 5). `WindowsShowTree` and
  `IndicatorsExact` are about the filter "all".
- `windows`, ACT: `MaxEdits` 3 edits in a row for trees of up to four links, 1 for the large file;
  `MaxLinks` for insertions; `EditRows` 8, room for the whole tree; `MCSheet` one change
  in the property window. `LostLines` FALSE: nodes whose line pointer was lost are not edited
  (section 5).
- `runtime`: five timer ids, one more than can be pending in a correct program; no file that is rejected has a
  heartbeat (`NoHeartbeatRejected`, see section 5); a history of
  3 lines for 10. `MCSession` limits what one session uses, since silences, heartbeat and
  history do not read each other's state.

### Fairness

- `WF_vars(EndPend)`: the wait loop ends when everything is connected or when one
  second brought no change of the count, and the count only falls
  (`axArea.c:205-212`).
- `WF_running(Advance)`: a callback that was called goes on to its end; the program
  has no other thread that could run instead. `Advance` is the part of
  `CallbackStep` that changes `running`, so one is taken if and only if the other is.
- `WF_vars(Load(p))`: a load, once begun, goes on.
- `WF_vars(LockTimer(p))`: the event loop runs expired timers. Both are void for a
  process that is dead.

- `CountFilter`: `WF_vars(Tick)` and, for each channel, the timer's callback: the clock goes on
  and Xt runs what is due. `NoAckFairness` is the same for the hour timers.
- `RuntimeSpec`: `Blinks`, `Updates`, `SilenceEnds`, `HeartBeats`: each pending timer runs at
  some time, in no given order.

No fairness is assumed of operators, of Channel Access or of the network. A liveness
property says what follows *if* the operator or the IOC leaves a state alone
(`<>[]` in the premises of `RuntimeWindow`).

## 4. What is proved

TLAPS checks these for every value of the constants that satisfies the `ASSUME`s of the
modules (`SevrAssumption`, `NodeAssumption`, `TreeAssumption`, `WalkAssumption` and `FilterAssumption` of
the alarm tree, `NoAckNodes`, `NoAckMasks`, `ForcePVConstants`, `AlarmLogConstants`, `RuntimeConstants`, `TreeLinks`,
those of `LockBroadcast`):
any finite tree (`Anc` is a strict order that is total above each node and has a root),
any configuration, local and global mode, any bounds; any set of processes. TLC evaluates each of
them in the runs.

| Theorem | States | If |
|---|---|---|
| `AlarmProofs!TypeCorrect` | `TypeOK`: every index into the severity arrays is in range | |
| `AlarmProofs!MasksCounted` | `MaskCountsExact` | |
| `AlarmProofs!SubscriptionFollowsCancel` | `EventMatchesCancel` | |
| `AlarmProofs!CurCounted` | `CurCountsExact`, a part of `SeverityCountsExact` | `NeverCancelled` |
| `AlarmProofs!UnackCounted` | `UnackCountsExact` | `MasksApart` |
| `AlarmProofs!SeveritiesCounted` | `SeverityCountsExact` | both |
| `AlarmProofs!BeepCounted` | `BeepCountsExact` | `MasksApart`, no beep severity of a node is changed |
| `AlarmProofs!BeepSevCounted` | `BeepSevCountsExact` | `NoBeepSevrLine` |
| `AlarmProofs!GroupAcknowledged` | `GroupAckComplete` | `MasksApart` |
| `AlarmProofs!AlarmsLatched` | `AlarmsStayLatched` (an action property) | local mode, `MasksApart` |
| `AlarmProofs!GroupPVsFollow` | `GroupSevrPVFollows` (an action property) | `NeverCancelled` |
| `AlarmProofs!AlarmEndsSilence` | `NewAlarmEndsSilence` (an action property) | local mode |
| `CountFilterProofs!TimersMatch` | `TimerMatches` | `NoCancel` |
| `CountFilterProofs!AcknowledgementsPass` | `AcknowledgementPasses` (an action property) | |
| `CountFilterProofs!FilterImplements` | `Shown!Init /\ [][Shown!Next]_(Shown!vars)`: the safety part of `FilterRegisters` | `NoCancel` |
| `ForcePVProofs!NoAckTypes`, `NoAckHour`, `NoAckToggle` | `NoAckTypeOK`, `NoAckLastsAnHour`, `ToggleShowsTimer` | |
| `ForcePVProofs!ForcePVMasks` | `MasksFollow` | `ZeroForcesNothing` (inside the invariant) |
| `ForcePVProofs!ForcePVDialog`, `ForcePVKeepsNoAck` | `DialogShowsForcePV`; `NoAckLastsAnHour` of the composed system | |
| `AlarmLogProofs!RingStaysSound`, `BrowserComplete`, `WindowFollowsLog`, `LossesReported` | `RingSound`, `BrowserFindsAll`, `WindowShowsLog`, `LossReported` | |
| `RuntimeWindowProofs!RuntimeTypes`, `RuntimeTimers`, `RuntimeHistory` | `RuntimeTypeOK`, `TimersOwned`, `HistoryShown` | `NoHeartbeatRejected` |
| `TreeListsProofs!AddExact`, `PrecedeExact`, `RemoveExact`, `FreeExact` | what `alAdd...`, `alPrecede...`, `alRemove...`, `alDelete...` make of the sequence of nodes on each list | added: on no list and pointing to none; removed: any link; deleted: nothing on a list that stays |
| `TreeListsProofs!CallsKeepLists` | `ListsExact`, of `ListsSpec` | |
| `TreeListsProofs!ListsKeepOrder` | `Order!Spec` of `ListsSpec`: it implements `SiblingOrder` | |
| `LockBroadcastProofs!LockTypeCorrect`, `OneMasterProved`, `StopLoggingProved` | `TypeOK`, `OneMasterUntilReload`, `StopLoggingEnds` | |
| `LockBroadcastProofs!MessagesReachAll` | `MessageReachesAll` (an action property) | `MaxDialogs <= 1` |

The hypotheses are about constants, are met by the runs that check the same property, and each stands for a
divergence described in section 5: `NeverCancelled` and `NoCancel` (no set of masks of the operator or
the configuration has Cancel: `alLib.c:1299` counts a cancelled channel again), `MasksApart` (no channel gets
two masks that the code gives back twice: `alLib.c:1316-1376`), `NoBeepSevrLine` (`alConfig.c:478`),
`"node" \notin BeepMenu` (`alLib.c:1650`), `MaxDialogs <= 1` (cancelling one of two dialogs
gives up the lock of both: `awAlh.c:1335-1339`), `NoHeartbeatRejected` (every file with a `$HEARTBEATPV` line
has a group: `alConfig.c:455-457`, `axArea.c:282-283`).

*AlarmOpsProofs and AlarmProofs.* `IInv == TypeOK /\ MaskCountsExact /\ EventMatchesCancel`
is inductive. Mask counts need the subscription and type parts: the code takes from a
group's count only `IF gd.mask[b] > 0`, which is the right decision because the count is
exact and the channel is in it (`SetMaskBitEffect`). For each C function there is a lemma that it
*preserves* masks, counts, subscriptions and types, or, for the functions that change masks, that it
*keeps* the invariant; the lemmas follow the call graph.

The severity counters are not inductive by themselves, because `alChangeChanMask` lets them go
wrong between the change of a bit and the end of the call. The argument is local: `Moved` says that
a function takes a channel out of one counter of each group above it and puts it into another, and
`InStep` that what the channel itself shows moved the same way; a counter that was exact stays so
(a set that loses and gains a member). `MaskStep` composes the five bits of the mask; what a
disabled or unacknowledgeable channel contributes (`Quiet`, `Apart`) decides whether the function
that runs takes the contribution back once or twice. `CurInv`, `UnackInv` and
`BeepInv` add the exactness of one family of counters to `IInv`, `BeepInv` with
what is heard at each group (`BeepSeen`), which is also the fold of the beep severities on the way. `BeepSevInv`
is `TreeInv` with the counters of beep severities.

`GroupAcknowledged` needs to know what a group callback in the middle of its walk still has to do
(`WalkInv`, `AckInv`): each channel below the group that is unacknowledged is in the part of the walk to come,
also when the walk skips a whole subgroup, because a subgroup whose own `unackSevr` is clear has only
acknowledged channels below it, by `UnackInv`. `WalkAssumption` says that the walk of the C code visits
a group's nodes in one piece. `AlarmsLatched` uses `UnackInv` before and after the step.

`GroupPVsFollow` and `AlarmEndsSilence` are about one step, but a step is a call of many functions, each of
which may raise a counter and leave it to a later one to tell. `Answers(s, t, g)` is what composes along
the call graph: `g`'s severity PV is up to date or neither it nor the severity changed, and what made the main
group louder has ended the silence. The second part rests on one invariant only, `TopsInv` (the highest unacknowledged
severities are those of the counters, whatever the counters hold): when the main group gets louder, the counter
that grew is that of the severity just counted, so `newUnackBeepSevr`, by which the code decides on the silence, is the main group's
(`ShiftRaises`, `BeepUpRaises`). No exact counter is needed, therefore neither `MasksApart` nor a restriction of beep severities.
Cancelling a channel takes it out of the groups above without a put to their PVs (`Uncount`), hence `NeverCancelled`.

*CountFilterProofs.* `FilterInv == FilterTypeOK /\ NotCancelled /\ TimersAgree` is inductive. A lemma
(`FilterResult`) gives the outcome of `alNewAlarmFilter` case by case (`FilterStep`), and `alNewAlarmProcess` and
the mask callbacks are used through what they do to the severity shown (`Shows`, `SameAlarm`). For the refinement,
`HistoryKept` relates the filter to the history: `lasted` plus what is left on the timer is at least
`inputSeconds`, and the times in the ring, from its oldest slot on, are the last entries of `changes`
(`RingIn`). A ring whose oldest time is within the period is then full of times within it, and with the
event itself these are more than `2 * inputCount`: the change is *earned*. A timer that runs out has
`lasted >= inputSeconds`. The step of a report, of a timer, of a mask, of the clock is each
shown to be a step of `AlarmRegistration` or to leave its variables alone (`StepImplements`). While doing so a
gap showed: a report that was saved from a connection lost before the first event can be what a timer
brings back, so `Register` leaves it open whether the state of the channel is known.

*ForcePVProofs.* `NoAckInv == NoAckTypeOK /\ NoAckLastsAnHour /\ ToggleShowsTimer` is inductive: a timer
that is due is the *nearest* of the channels that it resets, since the activation of a group's timer
removes those below it and a timer of a group above skips nothing it owns. A mask window removes timers
at its node and below together with the claim of these channels (`ChangeMaskKeeps`, `MaskWindowsKeep`): no channel elsewhere
has one of them for its nearest. `NearestOf` says what it
means for arbitrary timers, before and after each loop of the callbacks.

`ForcePVInv` is `NoAckInv` with types, `AllFollow`, `ToldKnown` and the dialog. `MasksFollow`
is not inductive: it speaks of settled nodes only. `Follows` says the same of every
node whose value it has taken notice of, except for channels touched by somebody else since, and
`ToldKnown` that a connected PV has delivered the value it was told.

*AlarmLogProofs.* `LogInv` has one part for each property (`RingInv`, `DatedInv`, `WindowInv`, `QueueInv`), types,
and `FileInv`: a process with the lock appends, and without `-T` there is one file. `RecordsInOrder` looks at one
file; that it stays true when a record is written needs that each byte belongs to a record of the log
(`Whole`), since the next record is later than all of these. The bound on the ring needs that an
empty position means an empty file, and that afterwards the length taken for a record is at most the longest
(`BoundInv`, for files that are not appended to): then `offset < stringLength * MaxRecords` leaves place for one record more. `WindowInv` says
where the next record goes in the window: at the position of the ring, or one behind it when the
window was opened on an empty file, where the toolkit puts it at the end; with `-L` the whole file is compared, and a
wrap must leave it as it is, since the ring's place is then the end of the file. `QueueInv` says that
`lostCount` is what is missing since the last record that was sent, of alarms and, in the database's queue, operator lines. A lemma on what `Put` does to
the file (`PutStep`), the window (`WindowPut`) and the queue (`Written`) stands between these and the code.

*RuntimeWindowProofs.* `TimersOwned` counts; its inductive form `Owns` names: each of five kinds of timers
(blinking, update, end of silence, the heartbeats of two main groups) has at most one pending id, the one its owner
keeps, and nothing else is pending. Starting a kind that has none, or serving or removing its timer, keeps
that, although ids are used again. `HistoryShown` is inductive with the types.

*TreeListsProofs.* A list is what the pointers lead to: `Walk` follows them for as many steps as there are links,
as a recursive function of the number of steps left. `WalkAlong` says that if a sequence of different
links has each one's successor as its `next`, and NULL after its last, the walk finds exactly that sequence;
it is proved by the least number of steps with which a walk would not see what is left of the sequence. After that no lemma
looks at `Walk`: `Holds(t, l, s)` says what the fields of a list and of its nodes have to be
for `s` to be on it, and a call is proved to lead from a tree where `Holds` is true of the old sequence to one
where it is true of the new one (`AddedHolds`, `PrecededHolds`, `RemovedHolds`), with all other lists as they were
(`AddedOthers`, ...), since a link is on one list at most (`OneList`). `Linked` (types, and `Holds` of every list) is inductive.
`ListsExact` alone is not: it does not say that a node is on one list only, and a link added behind a last
node that two lists share would be on both and counted by one. Since each call is proved to make one sequence
of another, the refinement is what is left to say: each call is a step of `SiblingOrder`, or a stutter when the link to be
removed is on no list or the one to insert before is not there (`AddOrdered`, `PrecedeOrdered`, `RemoveOrdered`,
`DeleteOrdered`).

*LockBroadcastProofs.* "One master" is not inductive: a process in its first load
might be about to lock another file than a running master. `LInv` adds `HoldsLock`:
a process that never reloaded only knows the name `".LOCK"`, and when it is master
it holds that lock. Two such masters would hold the same lock, and a lock has one
holder. `StopLoggingEnds` is inductive with `TypeOK`. For `MessageReachesAll`, `SenderInv` says that who types
a message or has sent one holds the lock of the messages, that a sender has one unlock pending, and that
the poll timers this one waits for are those of everybody still due. Only the holder of the lock changes
the file, so it is the sender, and by then nobody is due. A case for each disjunct of
`Next` shows that it neither adds an unlock nor moves a poll timer behind it (`Moved`).

Only model-checked:

- Liveness (`CallbackReturns`, `MasterTakeover`, `NoAckEnds`, `AlarmsBlinkAndBeep`,
  `HeartbeatBeats`, and the `[]<>Agree` of `FilterRegisters`), which is out of the prover's reach.
- What recursive operators compute: `TreeWindows`, `AlarmWindows`, `ConfigFile`, `TreeEdit` and
  `TreeEditing` follow trees of any depth with `RECURSIVE` operators and hold no theorems. `ViewExact`,
  `WindowsShowTree`, `IndicatorsExact`, `SavedReadsBack` and `EditsTree` are therefore checked only.
- `ListsExact` of `TreeEdit` itself: the theorem is about any sequence of calls; that an edit is such a
  sequence, on links that are fresh, follows from reading the definitions (`CopyInto`, `editPasteLink`,
  `editCutLink`, `Free0`, `AddGroup`, `AddChan`), and TLC checks `ListsExact` of the edits in `windows`.

## 5. Where the properties stop

These combinations are left out of the passing runs, because a property does not hold
of the code there and no document of the repository decides which of the two is
meant:

- Disable and Ack together in global mode, and Disable with Cancel in local mode:
  `unackSev` of the parents is taken or given back twice (`alLib.c:1316-1321`,
  `1346-1350`, `1371-1376`).
- In global mode `alSetAckTChan` lowers the local unacknowledged severity before the
  IOC says so (`alLib.c:1692-1697`).
- Group severity PVs are not written when masks change (`alLib.c:1265-1270`,
  `1332-1336`): `GroupSevrPVFollows` excepts disabling.
- Passive global mode: when an alarm goes and transients need no acknowledgement, the
  channel acknowledges itself (`AutoAck`, `ackChan`), and with Disable or Ack set the groups give back a
  severity they did not count (`alLib.c:1346-1376`). `global_masks` is active mode.
- The beep severity of a group changed while alarms below are unacknowledged moves
  `unackBeepSev` of its parents by all channels, also by those a subgroup's own
  limit keeps out (`alLib.c:1650-1657`): `BeepCountsExact` is checked with fixed
  beep severities of nodes.
- `$BEEPSEVR` lines are not counted in `beepSev` (`alConfig.c:478-489`): `BEEPSEVR`
  is 0 in `beep_severity`.
- Two message dialogs in one process: cancelling one gives up the lock of the other
  (`awAlh.c:1335-1339`); `MaxDialogs` is 1. A reload by the sender gives it up too
  (`file.c:660`): `MessageReachesAll` is about processes that did not reload.
- A second "do not save" message is ended by the timer of the first
  (`file.c:1334-1348`): `StopLoggingEnds` asks only that some timer is left.

Things of the same kind, found while modelling and kept out of the passing runs, by part:

*Alarm tree and Channel Access*

- A cancelled channel that connects or disconnects is counted (`alConnectEvent` and
  `alNewEvent` do not test Cancel), and switching Cancel off counts it again
  (`alLib.c:1299`): masks change only while counters are within `CounterBound`.
- In global mode a raised unacknowledged severity with unchanged alarm returns early, and
  does not end "silence current" (`alLib.c:843`).
- A channel that disconnects and connects during the wait for connections is counted
  for one that never did (`alCA.c:571`, `alCaCommon.c:127`): that one is not reported.
- NOT_CONNECTED reported twice is saved as the alarm, and shown after reconnection
  (`alLib.c:811`).

*Locking*

- `lockFileBase` is empty at the first load, and another name is locked after a reload.
  The process keeps `masterFlag` without a test (`file.c:612`, `1229-1232`, `1244`), so two
  processes can be master; `OneMasterUntilReload` ends there. ALH.html:634-636 speaks of one.

*Count filter, NoAck, force PVs*

- The timer of a channel that is cancelled goes on and shows its alarm: Cancel is not
  among `FilterMasks`.
- A CALC node read from a file starts with the value 0 (`alConfig.c:511` gives the unknown
  value -999 to the node of a PV only, the structure is zeroed), and a result that equals the current value is
  dropped (`force.c:1285`): with the force value 0 the first result 0 does not force the masks. The theorem
  on `MasksFollow` has the hypothesis `ZeroForcesNothing`.
- Mask windows remove the NoAck timers at their node and below, but not those of groups above, and force PVs
  remove none: such a timer resets the Ack bit at the end of its hour also if the operator or a force PV
  set it meanwhile. `NoAckLastsAnHour` is about Ack bits that nobody touched since NoAck set them.
- A force PV drops events with its `currentValue` (`force.c:1256`, `1277`, `1339`):
  when the operator edits masks or values, the masks wait for the next other value.
  -999 is the mark of an unknown value, also for a PV that has it. A name taken from a slot
  leaves the value -999 there, which stops the calculation (`force.c:1144`); a constant 0 in
  `$FORCEPV_CALC_x` is taken for a name; the compiled expression is freed and kept (`force.c:1078`).

*Alarm log*

- `fileSetup` sets `tm_day_old` for a file of any kind (`file.c:486`): after a load in
  the new day, records go on to the old day's file (`misdated`).
- A dated ring without `-L` that is opened again is written from position 0. The length of a record is that
  of the first one. `-D -T` creates the files of the days.
- With `-L` the limit of `-m` stays in force (`file.c:1049` clears a copy) and does not limit the file: a full ring is
  rewound and cut to the length it has, what is written next is appended all the same, and the
  length of the whole file counts as that of a record from then on (`alLog.c:523-540`). ALH.html:656-660 says that
  new records overwrite the old ones. `RingSound` is about files written without `-L`.
- `write2MQ` counts one message too many as lost, the one that got through; the report itself may
  be lost; printer and database share the count (`LossReported` is for one queue).
- The text of the window may outgrow its buffer (`scroll.c:537`).

*Windows*

- A link whose line moves up can lose its pointer to the line (`awView.c:585-606`);
  cutting it leaves its lines. `initializeSubWindow` leaves pointers that are stale.
- A command on a group whose ancestor is collapsed changes the ancestor's counts
  (`alView.c:61-85`).
- "Unacknowledged Alarms Only" never adds a line for a new alarm. With "Active Alarms
  Only" the group window counts lines twice and a new alarm can hide others
  (`awView.c:691`; ALH.html:1558-1560). `alViewNthTreeW` may return a group that is filtered out.
- The timer of a click on a name returns early when its line shows no group any
  more, and leaves the count of clicks at 1 (`Leaves`): the next single click is a double one.

*Configuration tool*

- `area->changed` is never set, so the warnings "Latest configuration changes have not
  been saved" (`awAct.c:240`, `310`, `353`) never appear; the model has no such guard.
- Apply gives every node a force PV; one without a name stops Save with a NULL pointer
  (`alConfig.c:828`, `900`) after the file was emptied. `SavedReadsBack` excepts it,
  and groups with the name of a group above them, which read back elsewhere.
- Not written: `$HEARTBEATPV`, `$ACKPV`, INCLUDE lines, a `$BEEPSEVR` of MINOR. An INCLUDE
  with an unknown parent loses the main group. The property window takes the seconds of the filter
  from its count field (`property.c:1456`). A copy loses its masks; a cut leaves the mask
  counters of its parents; `alForcePVCopy` has source and destination of `strcpy` exchanged
  (`force.c:921-955`), so that the copy has no names and Copy
  erases those of the original. `TreeEditing` states it (`Left`: what copying leaves of what was copied), and the
  channel of one file has a force PV and is copied; without it `EditsTree` fails at the first Copy.
- Cutting a selected group in a collapsed branch makes the count of its parent wrong.
  "Insert File" pastes the old main group below the selection (`awEdit.c:363-381`).

*Runtime window*

- Alarms that arrive while the Open dialog is up lose their update: `alUpdateAreas` clears
  `modified` of an area that is not managed (`alCaCommon.c:264-272`). `HistoryShown`
  excepts it; ALH.html:1458-1463 says the window is continuously updated.
- "Silence Current" set, and the file that is opened has an alarm of the beep severity
  while it connects: `silenceCurrentReset` is called with the area that the main group
  does not have yet, and the program ends (`alLib.c:960`, `axRunW.c:380-389`; `awView.c:658-660`
  alone tests for it). The guard of `setupConfig` excludes it.
- A file with `$HEARTBEATPV` and no group: its PV is connected when the line is read (`alConfig.c:455-457`), the file is then
  rejected and the main group freed with its heartbeat pending (`axArea.c:282-283`). The model does that
  (`LeftBehind`), up to the freed memory, which keeps its contents. With such a file in `MCFile` TLC finds `TimersOwned`
  violated in three states (start, "File Open", file rejected), so none is in it, and the theorems have the hypothesis
  `NoHeartbeatRejected`.
- With `-m` there is no runtime window, no blinking, and so no beep.

## 6. The plan

Done: the core, the count filter with its abstract specification, NoAck and force PVs,
logs, windows, files and editing with theirs, the runtime window; proofs of the safety properties of all but
the windows and files. Left, in this order:

1. `GlobalAck`: an IOC and several Alarm Handlers in global mode over delayed puts and
   events. Abstract specification: the record's acknowledgement as one variable,
   acknowledged only at a severity some operator saw.
2. Proofs: the edits of `TreeEdit` as sequences of the calls of `TreeLists`, and the windows, in a form without recursion.
3. `LockBroadcast` composed with `AlarmLog`: the master that writes changes between two records.
4. `$SEVRPV` links that come and go; "Insert File".

### Not modelled

- *Acknowledgement in the IOC*: see the plan. What an IOC's event does here is in `AlarmOps`.
- *Commands on events* (`process.c`): they start other processes and keep no state; how
  their lines are read and written is in `ConfigFile`.
- *Undo*: its menu item is commented out ("UNDO DOES NOT WORK YET", `awAct.c:132`).
- *CDEV* (`alCaCdev.cc`): another library below the same calls, not built by default.
- *Database and CMLOG* (`alh_DB.c`): formatting and calls of external libraries.
- *Printer process*: a separate program, from a queue to a socket, without other state.
- *Dialogs, help, product description*: creation and layout of widgets.
- *Sound*: device drivers. *Main program*: reads the options and enters the event loop.
