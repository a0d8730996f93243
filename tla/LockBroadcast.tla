--------------------------- MODULE LockBroadcast ---------------------------
(***************************************************************************)
(* Several Alarm Handlers with one configuration, each run with -L (only   *)
(* the master writes the alarm log) and -B (messages to the other          *)
(* operators).  What they share is files: two names of the lock file of    *)
(* the master, the lock file of the messages, and the file that holds the  *)
(* message.  lockf() locks belong to a process: closing any descriptor of  *)
(* a file gives up the process's lock on it.                               *)
(*                                                                         *)
(* A process has one thread, so a timer or a callback is one action.  The  *)
(* load of a configuration takes seconds and works on the files in steps,  *)
(* and other processes run between them: it is one action a step.          *)
(***************************************************************************)
EXTENDS Integers, Sequences, FiniteSets

CONSTANTS
  Alh,          \* the processes
  NoOne,        \* holder of a free lock
  Kinds,        \* what is sent: "text", "notsave" (no logging for minutes), "reload"
  MaxDialogs,   \* bound: message dialogs an operator opens at once
  MaxMess,      \* bound: messages written
  TimerBound    \* bound: files are opened while a process has fewer message timers

ASSUME NoOneAssumption == NoOne \notin Alh
ASSUME KindAssumption == Kinds \subseteq {"text", "notsave", "reload"}
ASSUME BoundAssumption == MaxDialogs \in Nat /\ MaxMess \in Nat /\ TimerBound \in Nat

VARIABLES
  proc,     \* proc[p]: the globals of process p and its pending Xt timers
  lock,     \* lock[f]: who holds the lock on file f
  info,     \* the content of <config>.MESS
  lastID,   \* the time of the last message
  due       \* history: who was idle when info was written and has not read it

vars == <<proc, lock, info, lastID, due>>

(* lockFileBase is empty while fileSetupInit loads the configuration for   *)
(* the first time, and set after that.                                     *)
LockFile == {".LOCK", "base.LOCK"}
MESSLOCK == "MESSLOCK"
Locks == [LockFile \cup {MESSLOCK} -> Alh \cup {NoOne}]

Empty == [id |-> 0, kind |-> "text", from |-> NoOne]
Message == [id : Nat, kind : {"text", "notsave", "reload"}, from : Alh \cup {NoOne}]

(* phase: what fileSetup(FILE_CONFIG) has still to do, or the event loop.  *)
(* unlockTimers: for each pending messBroadcastFileUnlock the processes    *)
(* whose 2 s poll comes before its 60 s are over.                          *)
Phase == {"dead", "setupConfig", "lockFile", "messFile", "idle"}
Proc ==
  [phase : Phase, lockFileBase : {"", "base"}, lockFile : LockFile,
   masterFlag : BOOLEAN, lockTimers : Nat,
   amIsender : BOOLEAN, dialogs : Nat, unlockTimers : Seq(SUBSET Alh),
   messID : Nat, messTimers : Nat, notsave : BOOLEAN, notsaveTimers : Nat,
   reloaded : BOOLEAN]     \* history: it loaded a configuration again

Fresh ==
  [phase |-> "dead", lockFileBase |-> "", lockFile |-> ".LOCK",
   masterFlag |-> FALSE, lockTimers |-> 0,
   amIsender |-> FALSE, dialogs |-> 0, unlockTimers |-> <<>>,
   messID |-> 0, messTimers |-> 0, notsave |-> FALSE, notsaveTimers |-> 0,
   reloaded |-> FALSE]

Idle(p) == proc[p].phase = "idle"
IdleProcs == {q \in Alh : Idle(q)}

Init ==
  /\ proc = [p \in Alh |-> Fresh]
  /\ lock = [f \in LockFile \cup {MESSLOCK} |-> NoOne]
  /\ info = Empty
  /\ lastID = 0
  /\ due = {}

Release(l, p, files) ==
  [f \in DOMAIN l |-> IF f \in files /\ l[f] = p THEN NoOne ELSE l[f]]

\* p is r now, and no pending unlock waits for a poll of p
BecomeAnd(p, r) ==
  proc' = [q \in Alh |->
             LET s == IF q = p THEN r ELSE proc[q]
             IN  [s EXCEPT !.unlockTimers = [i \in DOMAIN @ |-> @[i] \ {p}]]]
Become(p, r) == proc' = [proc EXCEPT ![p] = r]

----------------------------------------------------------------------------
(* The master.                                                             *)

\* mutant: the lock is not tested
masterTesting_Always(p, r, l) ==
  IF r.masterFlag THEN [r |-> r, l |-> l]
  ELSE [r |-> [r EXCEPT !.masterFlag = TRUE, !.lockTimers = @ + 1], l |-> l]

\* mutant: a slave does not test again
masterTesting_Once(p, r, l) ==
  LET free == l[r.lockFile] \in {NoOne, p}
  IN  IF r.masterFlag THEN [r |-> r, l |-> l]
      ELSE [r |-> [r EXCEPT !.masterFlag = free, !.lockTimers = IF free THEN @ + 1 ELSE @],
            l |-> IF free THEN [l EXCEPT ![r.lockFile] = p] ELSE l]

\* the process is r and the locks are l, before and after
masterTesting(p, r, l) ==
  LET free == l[r.lockFile] \in {NoOne, p}
  IN  IF r.masterFlag THEN [r |-> r, l |-> l]
      ELSE [r |-> [r EXCEPT !.masterFlag = free, !.lockTimers = @ + 1],
            l |-> IF free THEN [l EXCEPT ![r.lockFile] = p] ELSE l]

LockTimer(p) ==
  LET t == masterTesting(p, [proc[p] EXCEPT !.lockTimers = @ - 1], lock)
  IN  /\ Idle(p) /\ proc[p].lockTimers > 0
      /\ Become(p, t.r) /\ lock' = t.l
      /\ UNCHANGED <<info, lastID, due>>

----------------------------------------------------------------------------
(* Messages, the receiving side.                                           *)

\* mutant: no timer ends "not save"
Obey_NoTimer(r, kind) ==
  CASE kind = "reload" -> [r EXCEPT !.phase = "setupConfig", !.reloaded = TRUE]
    [] kind = "notsave" -> [r EXCEPT !.phase = "idle", !.notsave = TRUE]
    [] OTHER -> [r EXCEPT !.phase = "idle"]

\* what a new message makes of the process that reads it
Obey(r, kind) ==
  CASE kind = "reload" -> [r EXCEPT !.phase = "setupConfig", !.reloaded = TRUE]
    [] kind = "notsave" -> [r EXCEPT !.phase = "idle", !.notsave = TRUE,
                                     !.notsaveTimers = @ + 1]
    [] OTHER -> [r EXCEPT !.phase = "idle"]

\* after fileSetup returns the program waits for events; its lock file name is set
broadcastMessTesting(p, r) ==
  LET new == info # Empty /\ info.id # r.messID
      s   == [r EXCEPT !.messTimers = @ + 1]
      t   == IF new THEN Obey([s EXCEPT !.messID = info.id], info.kind)
             ELSE [s EXCEPT !.phase = "idle"]
  IN  /\ BecomeAnd(p, IF t.phase = "idle" THEN [t EXCEPT !.lockFileBase = "base"] ELSE t)
      /\ due' = due \ {p}
      /\ UNCHANGED <<info, lastID>>

MessTimer(p) ==
  /\ Idle(p) /\ proc[p].messTimers > 0
  /\ broadcastMessTesting(p, [proc[p] EXCEPT !.messTimers = @ - 1])
  /\ UNCHANGED lock

notsaveProc(p) ==
  /\ Idle(p) /\ proc[p].notsaveTimers > 0
  /\ Become(p, [proc[p] EXCEPT !.notsave = FALSE, !.notsaveTimers = @ - 1])
  /\ UNCHANGED <<lock, info, lastID, due>>

----------------------------------------------------------------------------
(* fileSetup(FILE_CONFIG).                                                 *)

Start(p) ==
  /\ proc[p].phase = "dead"
  /\ Become(p, [Fresh EXCEPT !.phase = "setupConfig"])
  /\ UNCHANGED <<lock, info, lastID, due>>

\* fileSetupCallback: the operator opens a configuration
OpenFile(p) ==
  /\ Idle(p) /\ proc[p].messTimers < TimerBound
  /\ BecomeAnd(p, [proc[p] EXCEPT !.phase = "setupConfig", !.reloaded = TRUE])
  /\ due' = due \ {p}
  /\ UNCHANGED <<lock, info, lastID>>

SetupConfig(p) ==
  /\ proc[p].phase = "setupConfig"
  /\ Become(p, [proc[p] EXCEPT !.phase = "lockFile"])
  /\ UNCHANGED <<lock, info, lastID, due>>

\* "if(_lock_flag)": fopen and fclose give up a lock, open does not take it back
LockSetup(p) ==
  LET f == IF proc[p].lockFileBase = "" THEN ".LOCK" ELSE "base.LOCK"
      t == masterTesting(p, [proc[p] EXCEPT !.phase = "messFile", !.lockFile = f],
                         Release(lock, p, {f}))
  IN  /\ proc[p].phase = "lockFile"
      /\ Become(p, t.r) /\ lock' = t.l
      /\ UNCHANGED <<info, lastID, due>>

\* "if(_message_broadcast_flag)"
MessSetup(p) ==
  /\ proc[p].phase = "messFile"
  /\ lock' = Release(lock, p, {MESSLOCK})
  /\ broadcastMessTesting(p, proc[p])

----------------------------------------------------------------------------
(* Messages, the sending side.                                             *)

\* mutant: the lock of the messages is not tested
messBroadcast_NoLock(p) ==
  /\ Idle(p) /\ ~proc[p].amIsender
  /\ proc[p].dialogs < MaxDialogs
  /\ Become(p, [proc[p] EXCEPT !.dialogs = @ + 1])
  /\ lock' = [lock EXCEPT ![MESSLOCK] = p]
  /\ UNCHANGED <<info, lastID, due>>

\* the dialog opens if no other operator types or sends a message
messBroadcast(p) ==
  /\ Idle(p) /\ ~proc[p].amIsender
  /\ lock[MESSLOCK] \in {NoOne, p} /\ proc[p].dialogs < MaxDialogs
  /\ Become(p, [proc[p] EXCEPT !.dialogs = @ + 1])
  /\ lock' = [lock EXCEPT ![MESSLOCK] = p]
  /\ UNCHANGED <<info, lastID, due>>

\* mutant: a dialog is cancelled once more after it is gone
cancelMessBroadcast_Twice(p) ==
  /\ Idle(p)
  /\ Become(p, [proc[p] EXCEPT !.dialogs = @ - 1])
  /\ lock' = Release(lock, p, {MESSLOCK})
  /\ UNCHANGED <<info, lastID, due>>

cancelMessBroadcast(p) ==
  /\ Idle(p) /\ proc[p].dialogs > 0
  /\ Become(p, [proc[p] EXCEPT !.dialogs = @ - 1])
  /\ lock' = Release(lock, p, {MESSLOCK})
  /\ UNCHANGED <<info, lastID, due>>

writeMessBroadcast(p, kind) ==
  /\ Idle(p) /\ proc[p].dialogs > 0 /\ lastID < MaxMess
  /\ lastID' = lastID + 1
  /\ info' = [id |-> lastID + 1, kind |-> kind, from |-> p]
  /\ Become(p, [proc[p] EXCEPT !.dialogs = @ - 1, !.amIsender = TRUE,
                               !.unlockTimers = Append(@, IdleProcs)])
  /\ due' = IdleProcs
  /\ UNCHANGED lock

\* "Wrong format", "time so big!!!": the file has been truncated when it is found out
WrongFormat(p) ==
  /\ Idle(p) /\ proc[p].dialogs > 0
  /\ Become(p, [proc[p] EXCEPT !.dialogs = @ - 1])
  /\ info' = Empty /\ due' = {}
  /\ lock' = Release(lock, p, {MESSLOCK})
  /\ UNCHANGED lastID

messBroadcastFileUnlock(p) ==
  /\ Idle(p) /\ proc[p].unlockTimers # <<>> /\ Head(proc[p].unlockTimers) = {}
  /\ Become(p, [proc[p] EXCEPT !.amIsender = FALSE, !.unlockTimers = Tail(@)])
  /\ info' = Empty /\ due' = {}
  /\ lock' = Release(lock, p, {MESSLOCK})
  /\ UNCHANGED lastID

----------------------------------------------------------------------------
(* The end of a process.  The kernel releases its locks; what it wrote     *)
(* stays.                                                                  *)

End(p) ==
  /\ BecomeAnd(p, Fresh)
  /\ lock' = Release(lock, p, DOMAIN lock)
  /\ due' = IF info.from = p THEN {} ELSE due \ {p}
  /\ UNCHANGED <<info, lastID>>

exit_quit(p) == Idle(p) /\ ~proc[p].amIsender /\ End(p)
Crash(p) == proc[p].phase # "dead" /\ End(p)

----------------------------------------------------------------------------
Load(p) == SetupConfig(p) \/ LockSetup(p) \/ MessSetup(p)
Timer(p) == LockTimer(p) \/ MessTimer(p) \/ notsaveProc(p) \/ messBroadcastFileUnlock(p)
Operator(p) ==
  \/ Start(p) \/ OpenFile(p) \/ exit_quit(p)
  \/ messBroadcast(p) \/ cancelMessBroadcast(p) \/ WrongFormat(p)
  \/ \E kind \in Kinds : writeMessBroadcast(p, kind)

Next == \E p \in Alh : Load(p) \/ Timer(p) \/ Operator(p) \/ Crash(p)

(* A load that has begun ends, and the event loop runs every timer.        *)
Fairness == \A p \in Alh : WF_vars(Load(p)) /\ WF_vars(LockTimer(p))

Spec == Init /\ [][Next]_vars /\ Fairness

----------------------------------------------------------------------------
(* Every variable has its type; no pending timer, dialog or unlock of      *)
(* fileSetup, awAlh.c and the Xt timers is counted below zero.             *)
TypeOK ==
  /\ proc \in [Alh -> Proc]
  /\ lock \in Locks
  /\ info \in Message
  /\ lastID \in Nat
  /\ due \subseteq Alh

(* ALH.html, Locking System: "only one of multiple Alarm Handlers with     *)
(* enabled log writing has access to the log".  It holds of processes that *)
(* never loaded a configuration again: they are not both master.           *)
OneMasterUntilReload ==
  \A p, q \in Alh :
    /\ proc[p].masterFlag /\ ~proc[p].reloaded
    /\ proc[q].masterFlag /\ ~proc[q].reloaded
    => p = q

(* ALH.html, Locking System: "If the master process dies, another Alarm    *)
(* Handler will seamlessly take over logging": as long as one goes on      *)
(* running there is a master again and again, however many others die.     *)
MasterTakeover ==
  \A p \in Alh : <>[]Idle(p) => []<>(\E q \in Alh : proc[q].masterFlag)

(* A message is not erased or replaced before every process that was       *)
(* waiting for events when it was written, and still is, has read it;      *)
(* except when its sender died.  Reloads give up the lock of a message.    *)
MessageReachesAll ==
  [][(info # Empty /\ info' # info /\ \A p \in Alh : ~proc[p].reloaded) => due = {}]_vars

(* A process that does not save the alarm log has a timer pending that     *)
(* makes it save again.                                                    *)
StopLoggingEnds ==
  \A p \in Alh : proc[p].notsave => proc[p].notsaveTimers > 0

=============================================================================
