------------------------------ MODULE AlarmLog ------------------------------
(***************************************************************************)
(* alLog.c, the parts of file.c and scroll.c that work on the alarm log:   *)
(* filePrintf writes each record to a file that is a ring of records, or   *)
(* one file per day, or appended to by the process that holds the lock;    *)
(* it shows the record in the log window and sends it to the message       *)
(* queues of the printer and of the database.                              *)
(*                                                                         *)
(* A file is a sequence of bytes <<i, k>>: byte k of record i, where log   *)
(* is the sequence of all records written.  Records have a length, which   *)
(* depends on the message.  Time is counted in steps, Hours to a day.      *)
(***************************************************************************)
EXTENDS Integers, Sequences, FiniteSets, FiniteSetsExt

CONSTANTS
  Modes,               \* command lines: records with the fields dated (-T), locked (-L),
                       \* readOnly (-D) and queues (of -P and -O)
  MaxRecords,          \* alarmLogFileMaxRecords: 2000 or -m, with -L as well (not -m 0)
  RecordLength,        \* the lengths a record can have
  DefaultStringLength, \* the length of a record before the first one is written
  QueueSize,           \* messages that fit in a queue
  Hours,               \* length of a day
  MaxTime, MaxLog,     \* bounds: the last hour, and the number of records
  MaxOpMods            \* bound: the lines of the other log that go to the database

VARIABLES
  mode,      \* the command line
  now,       \* the time of day
  disk,      \* disk[d]: the bytes of the file of day d; undated files are disk[0]
  fl,        \* the open file and the variables of filePrintf
  masterFlag, notsave,
  window,    \* the "Alarm Log File Window"
  mq,        \* the queues and the static variables of write2MQ
  log,       \* observation: the records written
  opMods,    \* observation: the lines of the other log that went to the database
  misdated   \* observation: the date of the open file was not tm_day_old

logVars == <<mode, now, disk, fl, masterFlag, notsave, window, mq, log, opMods,
             misdated>>

Day(t) == t \div Hours
Days == 0 .. Day(MaxTime)
Hole == <<0, 0>>
Bytes(i, len) == [k \in 1 .. len |-> <<i, k>>]
Queues == {"printer", "DB"}

ASSUME AlarmLogConstants ==
  /\ Modes \subseteq [dated : BOOLEAN, locked : BOOLEAN, readOnly : BOOLEAN,
                     queues : SUBSET Queues]
  /\ \A m \in Modes : m.queues # {} => m.locked    \* "use -P together with -L"
  /\ {MaxRecords, DefaultStringLength, QueueSize, Hours} \subseteq Nat \ {0}
  /\ IsFiniteSet(RecordLength) /\ RecordLength \subseteq Nat \ {0} /\ RecordLength # {}
  /\ {MaxTime, MaxLog, MaxOpMods} \subseteq Nat

\* fopen() of the alarm log at the start, or when the operator selects it
Opened(name, day) ==
  [name |-> name, tmDay |-> day, append |-> mode.dated \/ mode.locked,
   offset |-> 0, stringLength |-> DefaultStringLength]

Init ==
  /\ mode \in Modes
  /\ now = 0
  /\ disk = [d \in Days |-> <<>>]
  /\ fl = Opened(0, 0)
  /\ masterFlag \in {FALSE, mode.locked} /\ notsave = FALSE
  /\ window = [open |-> FALSE, text |-> <<>>, used |-> 0, stale |-> FALSE]
  /\ mq = [sent |-> [q \in Queues |-> <<>>], got |-> [q \in Queues |-> 0],
           lostFlag |-> FALSE, lostCount |-> 0]
  /\ log = <<>> /\ opMods = 0 /\ misdated = FALSE

----------------------------------------------------------------------------
(* The file.                                                               *)

Switched_LaterOnly(f, t) ==
  IF mode.dated /\ Day(t) > f.tmDay
  THEN [f EXCEPT !.name = Day(t), !.tmDay = Day(t), !.append = mode.locked, !.offset = 0]
  ELSE f

\* The date changed: the file of that day becomes the open one, from its start
Switched(f, t) ==
  IF mode.dated /\ Day(t) # f.tmDay
  THEN [f EXCEPT !.name = Day(t), !.tmDay = Day(t), !.append = mode.locked, !.offset = 0]
  ELSE f

\* The ring is full.  A file that is appended to has its length as offset, and the length
\* of the first record written at offset 0, with all before it, as that of a record.
Wraps(f) == f.offset >= f.stringLength * MaxRecords

\* truncateFile
Truncated(content, size) == SubSeq(content, 1, Min({size, Len(content)}))

Overwritten(content, at, bytes) ==
  [i \in 1 .. Max({Len(content), at + Len(bytes)}) |->
     IF i \in at + 1 .. at + Len(bytes) THEN bytes[i - at]
     ELSE IF i <= Len(content) THEN content[i] ELSE Hole]

\* A file opened for reading stays as it is when it is written to
Printed(content, f, bytes) ==
  IF mode.readOnly THEN content
  ELSE Overwritten(content, IF f.append THEN Len(content) ELSE f.offset, bytes)

\* ftell() after the record was written
Tell(content, f, len) ==
  IF mode.readOnly THEN f.offset
  ELSE IF f.append THEN Len(content) + len ELSE f.offset + len

Advanced_FixedLength(f, tell) ==
  [f EXCEPT !.offset = f.offset + f.stringLength,
            !.stringLength = IF f.offset = 0 THEN tell ELSE @]

Advanced(f, tell) ==
  [f EXCEPT !.offset = tell, !.stringLength = IF f.offset = 0 THEN tell ELSE @]

----------------------------------------------------------------------------
(* The window.                                                             *)

Inserted(text, at, bytes) ==
  LET p == Min({at, Len(text)})
  IN SubSeq(text, 1, p) \o bytes \o SubSeq(text, p + 1, Len(text))

\* updateAlarmLog
Updated(w, bytes) ==
  IF ~w.open THEN w
  ELSE [w EXCEPT !.text = Inserted(w.text, w.used, bytes), !.used = @ + Len(bytes)]

\* observation: from here on the window and the file differ
Outdated(w, cond) == IF w.open THEN [w EXCEPT !.stale = @ \/ cond] ELSE w

UsedLength_Size(content, f) == Len(content) + 1

\* where fileViewWindow puts the records to come
UsedLength(content, f) == IF f.offset # 0 THEN f.offset ELSE Len(content) + 1

\* fileViewWindow: the menu item opens the window, or closes it
AlarmLogWindow ==
  /\ window' = IF window.open
               THEN [open |-> FALSE, text |-> <<>>, used |-> 0, stale |-> FALSE]
               ELSE [open |-> TRUE, text |-> disk[fl.name], stale |-> FALSE,
                     used |-> UsedLength(disk[fl.name], fl)]
  /\ UNCHANGED <<mode, now, disk, fl, masterFlag, notsave, mq, log, opMods, misdated>>

----------------------------------------------------------------------------
(* The message queues.                                                     *)

Full(m, q) == Len(m.sent[q]) - m.got[q] >= QueueSize

\* a message that was sent, and whether the queue is full after it
Sent(m, q, kind, n) ==
  LET s == [m EXCEPT !.sent[q] = Append(@, [kind |-> kind, n |-> n, full |-> FALSE])]
  IN [s EXCEPT !.sent[q][Len(s.sent[q])].full = Full(s, q)]

\* the report of lost messages, which may find the queue full itself
Reported(m, q) ==
  LET r == [m EXCEPT !.lostFlag = FALSE, !.lostCount = 0]
  IN IF Full(r, q) THEN r ELSE Sent(r, q, "lost", m.lostCount + 1)

\* the first message of those lost is not counted when it sets the flag
write2MQ_FirstUncounted(m, q, i) ==
  IF Full(m, q) THEN [m EXCEPT !.lostFlag = TRUE, !.lostCount = IF m.lostFlag THEN @ + 1 ELSE 0]
  ELSE LET s == Sent(m, q, "record", i) IN IF s.lostFlag THEN Reported(s, q) ELSE s

write2MQ(m, q, i) ==
  IF Full(m, q) THEN [m EXCEPT !.lostFlag = TRUE, !.lostCount = @ + 1]
  ELSE LET s == Sent(m, q, "record", i) IN IF s.lostFlag THEN Reported(s, q) ELSE s

\* printer.c, or the process that writes to the database, takes a message
Receive(q) ==
  /\ mq.got[q] < Len(mq.sent[q])
  /\ mq' = [mq EXCEPT !.got[q] = @ + 1]
  /\ UNCHANGED <<mode, now, disk, fl, masterFlag, notsave, window, log, opMods, misdated>>

\* the number of the next message for a queue
Next2MQ(q) == Len(log) + (IF q = "DB" THEN opMods ELSE 0) + 1

\* an alarm goes to the printer first, then to the database
Queued(m) ==
  LET p == IF "printer" \in mode.queues THEN write2MQ(m, "printer", Next2MQ("printer")) ELSE m
  IN IF "DB" \in mode.queues THEN write2MQ(p, "DB", Next2MQ("DB")) ELSE p

----------------------------------------------------------------------------
(* filePrintf.                                                             *)

\* filePrintf for ALARM_FILE, the file f being open: a record of length len at time t
Put(f, t, len) ==
  LET wraps   == Wraps(f)
      i       == Len(log) + 1
      content == IF wraps THEN Truncated(disk[f.name], f.offset) ELSE disk[f.name]
      g       == IF wraps THEN [f EXCEPT !.offset = 0] ELSE f
  IN /\ disk' = [disk EXCEPT ![f.name] = Printed(content, g, Bytes(i, len))]
     /\ fl' = Advanced(g, Tell(content, g, len))
     /\ window' = Outdated(Updated(window, Bytes(i, len)),
                             (wraps /\ ~f.append) \/ f.name # fl.name)
     /\ mq' = Queued(mq)
     /\ log' = Append(log, [time |-> t, len |-> len])
     /\ misdated' = (misdated \/ (mode.dated /\ f.name # f.tmDay))
     /\ UNCHANGED opMods

Saving == ~(mode.locked /\ ~masterFlag) /\ ~notsave

\* alLogAlarmMessage: the record of an alarm, or of an alarm the count filter held back
AlarmRecord(t, len) ==
  /\ Len(log) < MaxLog /\ t \in {now - 1, now} /\ t >= 0
  /\ Saving
  /\ Put(Switched(fl, t), t, len)
  /\ UNCHANGED <<mode, now, masterFlag, notsave>>

\* alLogOpModMessage: a line of the other log, which goes with the alarm log to a new day.
\* Acknowledgements and changes of masks (typeOfRecord is not 0) go to the database too,
\* whoever saves the alarms.
OpModMessage(typed) ==
  LET sends == typed /\ "DB" \in mode.queues
  IN /\ sends => opMods < MaxOpMods
     /\ fl' = Switched(fl, now)
     /\ window' = Outdated(window, fl'.name # fl.name)
     /\ mq' = IF sends THEN write2MQ(mq, "DB", Next2MQ("DB")) ELSE mq
     /\ opMods' = IF sends THEN opMods + 1 ELSE opMods
     /\ UNCHANGED <<mode, now, disk, masterFlag, notsave, log, misdated>>

\* fileSetup for the configuration: loading, saving or a reload message
FileSetup ==
  /\ fl' = [fl EXCEPT !.tmDay = Day(now)]
  /\ UNCHANGED <<mode, now, disk, masterFlag, notsave, window, mq, log, opMods, misdated>>

\* fileSetup for the alarm log: the operator selects the file again
SelectAlarmLog ==
  LET name == IF mode.dated THEN Day(now) ELSE 0
  IN /\ disk' = [disk EXCEPT ![name] =
                   IF mode.dated \/ mode.locked \/ mode.readOnly THEN @ ELSE <<>>]
     /\ fl' = [Opened(name, Day(now)) EXCEPT !.stringLength = fl.stringLength]
     /\ window' = Outdated(window, TRUE)
     /\ UNCHANGED <<mode, now, masterFlag, notsave, mq, log, opMods, misdated>>

\* masterTesting takes the lock; another master never had to stop writing in this model
BecomeMaster ==
  /\ mode.locked /\ ~masterFlag
  /\ masterFlag' = TRUE
  /\ UNCHANGED <<mode, now, disk, fl, notsave, window, mq, log, opMods, misdated>>

\* broadcastMessTesting: "not save" is logged first
StopLogging(len) ==
  /\ mode.locked /\ ~notsave /\ Len(log) < MaxLog
  /\ IF Saving THEN Put(Switched(fl, now), now, len)
     ELSE UNCHANGED <<disk, fl, window, mq, log, opMods, misdated>>
  /\ notsave' = TRUE
  /\ UNCHANGED <<mode, now, masterFlag>>

\* notsaveProc
NotsaveProc(len) ==
  /\ notsave /\ Len(log) < MaxLog
  /\ IF masterFlag THEN Put(Switched(fl, now), now, len)
     ELSE UNCHANGED <<disk, fl, window, mq, log, opMods, misdated>>
  /\ notsave' = FALSE
  /\ UNCHANGED <<mode, now, masterFlag>>

\* With -D, and with -L before this process has the lock, another one writes the same file
OtherRecord(len) ==
  /\ mode.readOnly \/ (mode.locked /\ ~masterFlag /\ ~mode.dated)
  /\ disk[0] = <<>> /\ ~window.open
  /\ disk' = [disk EXCEPT ![0] = @ \o [k \in 1 .. len |-> <<MaxLog + 1, k>>]]
  /\ window' = Outdated(window, TRUE)
  /\ UNCHANGED <<mode, now, fl, masterFlag, notsave, mq, log, opMods, misdated>>

\* time matters for dated files only
Tick ==
  /\ mode.dated /\ now < MaxTime
  /\ now' = now + 1
  /\ UNCHANGED <<mode, disk, fl, masterFlag, notsave, window, mq, log, opMods, misdated>>

Next ==
  \/ \E len \in RecordLength : \/ \E t \in 0 .. MaxTime : AlarmRecord(t, len)
                               \/ StopLogging(len) \/ NotsaveProc(len) \/ OtherRecord(len)
  \/ \E typed \in BOOLEAN : OpModMessage(typed)
  \/ FileSetup \/ SelectAlarmLog
  \/ AlarmLogWindow
  \/ BecomeMaster
  \/ \E q \in Queues : Receive(q)
  \/ Tick

Spec == Init /\ [][Next]_logVars

----------------------------------------------------------------------------
(* The browser: showSelectedCallback looks for records between two times.  *)

\* the records that start in a file
RecordsOf(content) == {b[1] : b \in {content[i] : i \in {j \in DOMAIN content : content[j][2] = 1}}}

\* the hours of an end of the interval are forgotten if there is no file of its day
From(t) == IF disk[Day(t)] # <<>> THEN t ELSE Day(t) * Hours
To(t) == IF disk[Day(t)] # <<>> THEN t ELSE Day(t) * Hours + Hours - 1

Selected(from, to) ==
  {i \in UNION {RecordsOf(disk[d]) : d \in Day(from) .. Day(to)} :
     log[i].time >= From(from) /\ log[i].time <= To(to)}

----------------------------------------------------------------------------
(* Properties.                                                             *)

\* filePrintf: in a file that is not appended to, the bytes before the place of the next
\* record are whole records in the order they were written, although records of
\* different lengths overwrite each other.  (A dated ring that the operator selects
\* again is appended to, and its old records may have been cut.)
RecordsInOrder ==
  ~mode.readOnly /\ ~fl.append =>
    /\ fl.offset <= Len(disk[fl.name])
    /\ \A n \in 1 .. fl.offset :
      LET b == disk[fl.name][n]
      IN /\ b # Hole
         /\ n = 1 => b[2] = 1
         /\ n < fl.offset => LET c == disk[fl.name][n + 1]
                             IN \/ c = <<b[1], b[2] + 1>>
                                \/ b[2] = log[b[1]].len /\ c[2] = 1 /\ c[1] > b[1]
         /\ n = fl.offset => b[2] = log[b[1]].len

\* filePrintf: the ring keeps the undated file below the records asked for with -m,
\* each as long as the longest one, and one more.  Not with -L: what is appended makes the
\* file grow, as the ring wraps at the end of it and cuts nothing.
RingBounded ==
  ~mode.dated /\ ~mode.locked =>
    Len(disk[0]) < (MaxRecords + 1) * Max(RecordLength)

\* filePrintf: the ring of the log, in order and bounded.
RingSound == RecordsInOrder /\ RingBounded

\* filePrintf and showSelectedCallback: with -T and -L, but not -D, the browser finds every
\* record of the interval asked for, those of alarms held back over midnight included, as
\* long as no other file was set up between midnight and the first record of the day.
\* (The ring rewinds and truncates these files too; it must not cut what was appended.)
BrowserFindsAll ==
  mode.dated /\ mode.locked /\ ~mode.readOnly /\ ~misdated =>
    \A from, to \in 0 .. MaxTime :
      from <= to => Selected(from, to) = {i \in DOMAIN log : log[i].time \in from .. to}

\* write2MQ: when messages were lost, the next one that gets through is followed by a
\* report of how many (itself included), unless it took the last place of the queue.
LossReported ==
  \A q \in mode.queues : mode.queues = {q} =>
    \A i, j \in DOMAIN mq.sent[q] :
      LET records == {k \in 1 .. j : mq.sent[q][k].kind = "record"}
          gap     == mq.sent[q][j].n - mq.sent[q][i].n - 1
      IN /\ i < j /\ {i, j} \subseteq records /\ gap > 0
         /\ \A k \in records : k <= i \/ k = j
         => \/ mq.sent[q][j].full
            \/ j < Len(mq.sent[q]) /\ mq.sent[q][j + 1].kind = "lost" /\ mq.sent[q][j + 1].n = gap + 1

\* updateLog and filePrintf: what an open log window shows is the file (all of it with -L,
\* else up to the place of the next record), although filePrintf's offset is its place for
\* the next one, until a ring that is overwritten wraps or another file is opened.  (Not with
\* -T alone, when a file that is opened again is overwritten and the window is not.)
WindowShowsLog ==
  window.open /\ ~window.stale /\ ~mode.readOnly /\ (mode.dated => mode.locked) =>
    LET size == IF fl.append THEN Len(disk[fl.name]) ELSE fl.offset
    IN SubSeq(window.text, 1, size) = SubSeq(disk[fl.name], 1, size)

\* -D "does not allow them to overwrite the alarm log files" (documentation/ALH.html)
ReadOnlyKeepsLog ==
  [][mode.readOnly => \A d \in Days : Len(disk'[d]) >= Len(disk[d])]_logVars

=============================================================================
