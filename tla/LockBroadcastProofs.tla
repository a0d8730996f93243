------------------------ MODULE LockBroadcastProofs ------------------------
(***************************************************************************)
(* Proofs about the master of several Alarm Handlers, for every set of     *)
(* processes and all bounds.                                               *)
(***************************************************************************)
EXTENDS LockBroadcast, TLAPS, SequenceTheorems

(* Why two processes that never loaded a configuration again are not both  *)
(* master: such a process knows one lock file only, it becomes master by   *)
(* taking the lock on it, and it does not touch the file again.            *)
HoldsLock ==
  \A p \in Alh :
    ~proc[p].reloaded =>
      /\ proc[p].lockFile = ".LOCK"
      /\ proc[p].masterFlag => lock[".LOCK"] = p
      /\ proc[p].phase \in {"setupConfig", "lockFile"}
         => ~proc[p].masterFlag /\ proc[p].lockFileBase = ""

LInv == TypeOK /\ HoldsLock

(* r has what s has of the fields the invariant is about.                  *)
Alike(r, s) ==
  /\ r.phase = s.phase
  /\ r.reloaded = s.reloaded
  /\ r.masterFlag = s.masterFlag
  /\ r.lockFile = s.lockFile
  /\ r.lockFileBase = s.lockFileBase

(* What the invariant says of process p when it is r and the locks are l.  *)
Holds(p, r, l) ==
  ~r.reloaded =>
    /\ r.lockFile = ".LOCK"
    /\ r.masterFlag => l[".LOCK"] = p
    /\ r.phase \in {"setupConfig", "lockFile"} => ~r.masterFlag /\ r.lockFileBase = ""

----------------------------------------------------------------------------
(* A process that ended or never began has the initial globals.            *)
LEMMA FreshType == Fresh \in Proc
BY DEF Fresh, Proc, Phase, LockFile

(* The kernel gives up locks of one process only.                          *)
LEMMA ReleaseType ==
  ASSUME NEW l \in Locks, NEW p \in Alh, NEW files
  PROVE  /\ Release(l, p, files) \in Locks
         /\ \A q \in Alh : q # p /\ l[".LOCK"] = q => Release(l, p, files)[".LOCK"] = q
         /\ ".LOCK" \notin files => Release(l, p, files)[".LOCK"] = l[".LOCK"]
BY NoOneAssumption DEF Release, Locks, LockFile

(* Taking a process out of the sets of a sequence of pending unlocks.      *)
LEMMA PolledType ==
  ASSUME NEW s \in Seq(SUBSET Alh), NEW p
  PROVE  [i \in DOMAIN s |-> s[i] \ {p}] \in Seq(SUBSET Alh)
<1>1. /\ Len(s) \in Nat
      /\ DOMAIN s = 1 .. Len(s)
      /\ \A i \in 1 .. Len(s) : s[i] \in SUBSET Alh
  BY LenProperties, ElementOfSeq
<1>2. \A i \in 1 .. Len(s) : s[i] \ {p} \in SUBSET Alh
  BY <1>1
<1>3. [i \in 1 .. Len(s) |-> s[i] \ {p}] \in Seq(SUBSET Alh)
  BY <1>1, <1>2, IsASeq
<1> QED BY <1>1, <1>3

(* A change of one process alone.                                          *)
LEMMA BecomeType ==
  ASSUME TypeOK, NEW p \in Alh, NEW r \in Proc, Become(p, r)
  PROVE  /\ proc' \in [Alh -> Proc]
         /\ Alike(proc'[p], r)
         /\ \A q \in Alh \ {p} : Alike(proc'[q], proc[q])
BY DEF TypeOK, Become, Alike

(* A change of one process that takes it out of all pending unlocks.       *)
LEMMA BecomeAndType ==
  ASSUME TypeOK, NEW p \in Alh, NEW r \in Proc, BecomeAnd(p, r)
  PROVE  /\ proc' \in [Alh -> Proc]
         /\ Alike(proc'[p], r)
         /\ \A q \in Alh \ {p} : Alike(proc'[q], proc[q])
<1> DEFINE old(q) == IF q = p THEN r ELSE proc[q]
           polled(q) == [i \in DOMAIN old(q).unlockTimers |-> old(q).unlockTimers[i] \ {p}]
           new(q) == [old(q) EXCEPT !.unlockTimers = polled(q)]
<1>1. \A q \in Alh : old(q) \in Proc
  BY DEF TypeOK
<1>2. \A q \in Alh : polled(q) \in Seq(SUBSET Alh)
  <2>1. SUFFICES ASSUME NEW q \in Alh PROVE polled(q) \in Seq(SUBSET Alh)
    OBVIOUS
  <2>2. old(q).unlockTimers \in Seq(SUBSET Alh)
    BY <1>1 DEF Proc
  <2> HIDE DEF old
  <2> QED BY <2>2, PolledType
<1>3. proc' = [q \in Alh |-> new(q)]
  BY DEF BecomeAnd
<1> HIDE DEF old, polled
<1>4. \A q \in Alh : new(q) \in Proc /\ Alike(new(q), old(q))
  BY <1>1, <1>2 DEF Proc, Alike
<1> HIDE DEF new
<1> QED BY <1>3, <1>4 DEF old

(* What a step has to establish when it changes process p and leaves       *)
(* other processes' part in the invariant alone.                           *)
LEMMA HoldsLockStep ==
  ASSUME HoldsLock, NEW p \in Alh, NEW r, Holds(p, r, lock'), Alike(proc'[p], r),
         \A q \in Alh \ {p} : Alike(proc'[q], proc[q]),
         \A q \in Alh \ {p} : lock[".LOCK"] = q => lock'[".LOCK"] = q
  PROVE  HoldsLock'
<1>1. \A q \in Alh : Holds(q, proc[q], lock)
  BY DEF HoldsLock, Holds
<1>2. \A q \in Alh \ {p} : Holds(q, proc'[q], lock')
  BY <1>1 DEF Holds, Alike
<1>3. Holds(p, proc'[p], lock')
  BY DEF Holds, Alike
<1>4. \A q \in Alh : Holds(q, proc'[q], lock')
  BY <1>2, <1>3
<1> QED BY <1>4 DEF HoldsLock, Holds

(* The test for the lock takes a free lock, and does nothing as master.    *)
LEMMA masterTestingType ==
  ASSUME NEW p \in Alh, NEW r \in Proc, NEW l \in Locks
  PROVE  LET t == masterTesting(p, r, l)
         IN  /\ t.r \in Proc /\ t.l \in Locks
             /\ t.r.phase = r.phase /\ t.r.reloaded = r.reloaded
             /\ t.r.lockFile = r.lockFile /\ t.r.lockFileBase = r.lockFileBase
             /\ t.r.masterFlag => r.masterFlag \/ t.l[r.lockFile] = p
             /\ r.masterFlag => t.l = l
             /\ \A q \in Alh \ {p}, f \in LockFile : l[f] = q => t.l[f] = q
<1> DEFINE t == masterTesting(p, r, l)
           free == l[r.lockFile] \in {NoOne, p}
<1>1. r.lockFile \in LockFile /\ r.masterFlag \in BOOLEAN /\ r.lockTimers \in Nat
  BY DEF Proc
<1>2. CASE r.masterFlag
  <2>1. t = [r |-> r, l |-> l]
    BY <1>2 DEF masterTesting
  <2> QED BY <1>2, <2>1
<1>3. CASE ~r.masterFlag
  <2> DEFINE n == [r EXCEPT !.masterFlag = free, !.lockTimers = @ + 1]
             m == IF free THEN [l EXCEPT ![r.lockFile] = p] ELSE l
  <2>1. t = [r |-> n, l |-> m]
    BY <1>3 DEF masterTesting
  <2>2. /\ n \in Proc /\ n.phase = r.phase /\ n.reloaded = r.reloaded
        /\ n.lockFile = r.lockFile /\ n.lockFileBase = r.lockFileBase
        /\ n.masterFlag = free
    <3>1. r.lockTimers + 1 \in Nat /\ free \in BOOLEAN
      BY <1>1
    <3> HIDE DEF free
    <3> QED BY <3>1 DEF Proc
  <2>3. m \in Locks
    BY <1>1 DEF Locks
  <2>4. free => m[r.lockFile] = p
    BY <1>1 DEF Locks
  <2>5. \A q \in Alh \ {p}, f \in LockFile : l[f] = q => m[f] = q
    BY <1>1, NoOneAssumption DEF Locks
  <2> HIDE DEF n, m, free
  <2> QED BY <1>3, <2>1, <2>2, <2>3, <2>4, <2>5
<1> QED BY <1>2, <1>3 DEF Proc

(* A message changes what a process does next, and "not save".             *)
LEMMA ObeyType ==
  ASSUME NEW r \in Proc, NEW kind
  PROVE  /\ Obey(r, kind) \in Proc
         /\ Obey(r, kind).masterFlag = r.masterFlag
         /\ Obey(r, kind).lockFile = r.lockFile
         /\ Obey(r, kind).phase # "idle" => Obey(r, kind).reloaded
         /\ Obey(r, kind).phase = "idle" => Obey(r, kind).reloaded = r.reloaded
<1>1. r.notsaveTimers \in Nat
  BY DEF Proc
<1>2. r.notsaveTimers + 1 \in Nat
  BY <1>1
<1>3. {"setupConfig", "idle"} \subseteq Phase
  BY DEF Phase
<1> QED BY <1>2, <1>3 DEF Obey, Proc

(* The poll for messages keeps the invariant.                              *)
LEMMA broadcastMessTestingKeeps ==
  ASSUME LInv, NEW p \in Alh, NEW r \in Proc, broadcastMessTesting(p, r),
         lock' \in Locks, lock'[".LOCK"] = lock[".LOCK"],
         r.lockFile = proc[p].lockFile, r.masterFlag = proc[p].masterFlag,
         r.reloaded = proc[p].reloaded
  PROVE  LInv'
<1> DEFINE new == info # Empty /\ info.id # r.messID
           s == [r EXCEPT !.messTimers = @ + 1]
           o == [s EXCEPT !.messID = info.id]
           t == IF new THEN Obey(o, info.kind) ELSE [s EXCEPT !.phase = "idle"]
           u == IF t.phase = "idle" THEN [t EXCEPT !.lockFileBase = "base"] ELSE t
<1>1. /\ s \in Proc /\ s.masterFlag = r.masterFlag /\ s.lockFile = r.lockFile
      /\ s.reloaded = r.reloaded
  <2>1. r.messTimers \in Nat
    BY DEF Proc
  <2>2. r.messTimers + 1 \in Nat
    BY <2>1
  <2> QED BY <2>2 DEF Proc
<1>2. /\ o \in Proc /\ o.masterFlag = r.masterFlag /\ o.lockFile = r.lockFile
      /\ o.reloaded = r.reloaded
  <2>1. info.id \in Nat
    BY DEF LInv, TypeOK, Message
  <2> HIDE DEF s
  <2> QED BY <1>1, <2>1 DEF Proc
<1> HIDE DEF new, s, o
<1>3. /\ t \in Proc /\ t.masterFlag = r.masterFlag /\ t.lockFile = r.lockFile
      /\ t.phase # "idle" => t.reloaded
      /\ t.phase = "idle" => t.reloaded = r.reloaded
  <2>1. CASE new
    BY <1>2, <2>1, ObeyType
  <2>2. CASE ~new
    <3>1. "idle" \in Phase
      BY DEF Phase
    <3> QED BY <1>1, <2>2, <3>1 DEF Proc
  <2> QED BY <2>1, <2>2
<1> HIDE DEF t
<1>4. /\ u \in Proc /\ u.masterFlag = r.masterFlag /\ u.lockFile = r.lockFile
      /\ u.reloaded = t.reloaded /\ u.phase = t.phase
  BY <1>3 DEF Proc
<1> HIDE DEF u
<1>5. BecomeAnd(p, u) /\ due' = due \ {p} /\ UNCHANGED <<info, lastID>>
  BY DEF broadcastMessTesting, new, s, o, t, u
<1>6. TypeOK'
  BY <1>4, <1>5, BecomeAndType DEF LInv, TypeOK
<1>7. HoldsLock'
  <2>1. Holds(p, u, lock')
    <3>1. Holds(p, proc[p], lock)
      BY DEF LInv, HoldsLock, Holds
    <3>2. ~t.reloaded => t.phase = "idle"
      BY <1>3
    <3> QED BY <1>3, <1>4, <3>1, <3>2 DEF Holds
  <2>2. Alike(proc'[p], u) /\ \A q \in Alh \ {p} : Alike(proc'[q], proc[q])
    BY <1>4, <1>5, BecomeAndType DEF LInv
  <2> QED BY <2>1, <2>2, HoldsLockStep DEF LInv
<1> QED BY <1>6, <1>7 DEF LInv

(* Steps after which masters, locks on lock files and phases are as they   *)
(* were.                                                                   *)
LEMMA SameMasterKeeps ==
  ASSUME LInv, NEW p \in Alh, NEW r \in Proc, Become(p, r),
         r.phase = proc[p].phase, r.reloaded = proc[p].reloaded,
         r.masterFlag = proc[p].masterFlag, r.lockFile = proc[p].lockFile,
         r.lockFileBase = proc[p].lockFileBase,
         lock' \in Locks, lock'[".LOCK"] = lock[".LOCK"],
         info' \in Message, lastID' \in Nat, due' \subseteq Alh
  PROVE  LInv'
<1>1. TypeOK'
  BY BecomeType DEF LInv, TypeOK
<1>2. HoldsLock'
  <2>1. Holds(p, r, lock')
    BY DEF LInv, HoldsLock, Holds
  <2>2. Alike(proc'[p], r) /\ \A q \in Alh \ {p} : Alike(proc'[q], proc[q])
    BY BecomeType DEF LInv
  <2> QED BY <2>1, <2>2, HoldsLockStep DEF LInv
<1> QED BY <1>1, <1>2 DEF LInv

----------------------------------------------------------------------------
(* One lemma for each part of the next-state relation.                     *)

(* The load of a configuration.                                            *)
LEMMA LoadKeeps ==
  ASSUME LInv, NEW p \in Alh, Load(p)
  PROVE  LInv'
<1>1. proc[p] \in Proc /\ lock \in Locks
  BY DEF LInv, TypeOK
<1>2. CASE SetupConfig(p)
  <2> DEFINE r == [proc[p] EXCEPT !.phase = "lockFile"]
  <2>1. /\ r \in Proc /\ r.phase = "lockFile" /\ r.reloaded = proc[p].reloaded
        /\ r.masterFlag = proc[p].masterFlag /\ r.lockFile = proc[p].lockFile
        /\ r.lockFileBase = proc[p].lockFileBase
    BY <1>1 DEF Proc, Phase
  <2>2. /\ Become(p, r) /\ UNCHANGED <<lock, info, lastID, due>>
        /\ proc[p].phase = "setupConfig"
    BY <1>2 DEF SetupConfig
  <2> HIDE DEF r
  <2>3. TypeOK'
    BY <2>1, <2>2, BecomeType DEF LInv, TypeOK
  <2>4. HoldsLock'
    <3>1. Holds(p, r, lock')
      BY <2>1, <2>2 DEF LInv, HoldsLock, Holds
    <3>2. Alike(proc'[p], r) /\ \A q \in Alh \ {p} : Alike(proc'[q], proc[q])
      BY <2>1, <2>2, BecomeType DEF LInv
    <3> QED BY <2>2, <3>1, <3>2, HoldsLockStep DEF LInv
  <2> QED BY <2>3, <2>4 DEF LInv
<1>3. CASE LockSetup(p)
  <2> DEFINE f == IF proc[p].lockFileBase = "" THEN ".LOCK" ELSE "base.LOCK"
             r == [proc[p] EXCEPT !.phase = "messFile", !.lockFile = f]
             l == Release(lock, p, {f})
             t == masterTesting(p, r, l)
  <2>1. /\ f \in LockFile
        /\ proc[p].lockFileBase = "" => f = ".LOCK"
    BY DEF LockFile
  <2>2. Become(p, t.r) /\ lock' = t.l /\ UNCHANGED <<info, lastID, due>>
    BY <1>3 DEF LockSetup
  <2>3. proc[p].phase = "lockFile"
    BY <1>3 DEF LockSetup
  <2> HIDE DEF f
  <2>4. /\ r \in Proc /\ r.phase = "messFile" /\ r.reloaded = proc[p].reloaded
        /\ r.masterFlag = proc[p].masterFlag /\ r.lockFile = f
    BY <1>1, <2>1 DEF Proc, Phase
  <2>5. l \in Locks /\ \A q \in Alh \ {p} : lock[".LOCK"] = q => l[".LOCK"] = q
    BY <1>1, ReleaseType
  <2> HIDE DEF r, l
  <2>6. /\ t.r \in Proc /\ t.l \in Locks
        /\ t.r.phase = "messFile" /\ t.r.reloaded = proc[p].reloaded /\ t.r.lockFile = f
        /\ t.r.masterFlag => proc[p].masterFlag \/ t.l[f] = p
        /\ \A q \in Alh \ {p} : l[".LOCK"] = q => t.l[".LOCK"] = q
    BY <2>4, <2>5, masterTestingType DEF LockFile
  <2> HIDE DEF t
  <2>7. TypeOK'
    BY <2>2, <2>6, BecomeType DEF LInv, TypeOK
  <2>8. HoldsLock'
    <3>1. ~proc[p].reloaded => /\ f = ".LOCK"
                               /\ t.r.masterFlag => t.l[".LOCK"] = p
      BY <2>1, <2>3, <2>6 DEF LInv, HoldsLock
    <3>2. Holds(p, t.r, lock')
      BY <2>2, <2>6, <3>1 DEF Holds
    <3>3. Alike(proc'[p], t.r) /\ \A q \in Alh \ {p} : Alike(proc'[q], proc[q])
      BY <2>2, <2>6, BecomeType DEF LInv
    <3> QED BY <2>2, <2>5, <2>6, <3>2, <3>3, HoldsLockStep DEF LInv
  <2> QED BY <2>7, <2>8 DEF LInv
<1>4. CASE MessSetup(p)
  <2>1. lock' \in Locks /\ lock'[".LOCK"] = lock[".LOCK"]
    BY <1>1, <1>4, ReleaseType DEF MessSetup, MESSLOCK
  <2>2. broadcastMessTesting(p, proc[p])
    BY <1>4 DEF MessSetup
  <2> QED BY <1>1, <2>1, <2>2, broadcastMessTestingKeeps
<1> QED BY <1>2, <1>3, <1>4 DEF Load

(* The timers.                                                             *)
LEMMA TimerKeeps ==
  ASSUME LInv, NEW p \in Alh, Timer(p)
  PROVE  LInv'
<1>1. /\ proc[p] \in Proc /\ lock \in Locks /\ info \in Message /\ lastID \in Nat
      /\ due \subseteq Alh
  BY DEF LInv, TypeOK
<1>2. CASE LockTimer(p)
  <2> DEFINE r == [proc[p] EXCEPT !.lockTimers = @ - 1]
             t == masterTesting(p, r, lock)
  <2>1. Become(p, t.r) /\ lock' = t.l /\ UNCHANGED <<info, lastID, due>>
    BY <1>2 DEF LockTimer
  <2>2. /\ r \in Proc /\ r.phase = proc[p].phase /\ r.reloaded = proc[p].reloaded
        /\ r.masterFlag = proc[p].masterFlag /\ r.lockFile = proc[p].lockFile
        /\ r.lockFileBase = proc[p].lockFileBase /\ r.phase = "idle"
    <3>1. proc[p].lockTimers \in Nat /\ proc[p].lockTimers > 0 /\ proc[p].phase = "idle"
      BY <1>1, <1>2 DEF LockTimer, Idle, Proc
    <3>2. proc[p].lockTimers - 1 \in Nat
      BY <3>1
    <3> QED BY <1>1, <3>1, <3>2 DEF Proc
  <2> HIDE DEF r
  <2>3. /\ t.r \in Proc /\ t.l \in Locks
        /\ t.r.phase = "idle" /\ t.r.reloaded = proc[p].reloaded
        /\ t.r.lockFile = proc[p].lockFile
        /\ t.r.masterFlag => proc[p].masterFlag \/ t.l[proc[p].lockFile] = p
        /\ proc[p].masterFlag => t.l = lock
        /\ \A q \in Alh \ {p} : lock[".LOCK"] = q => t.l[".LOCK"] = q
    BY <1>1, <2>2, masterTestingType DEF LockFile
  <2> HIDE DEF t
  <2>4. TypeOK'
    BY <2>1, <2>3, BecomeType DEF LInv, TypeOK
  <2>5. HoldsLock'
    <3>1. ~proc[p].reloaded => /\ proc[p].lockFile = ".LOCK"
                               /\ t.r.masterFlag => t.l[".LOCK"] = p
      BY <2>3 DEF LInv, HoldsLock
    <3>2. Holds(p, t.r, lock')
      BY <2>1, <2>3, <3>1 DEF Holds
    <3>3. Alike(proc'[p], t.r) /\ \A q \in Alh \ {p} : Alike(proc'[q], proc[q])
      BY <2>1, <2>3, BecomeType DEF LInv
    <3> QED BY <2>1, <2>3, <3>2, <3>3, HoldsLockStep DEF LInv
  <2> QED BY <2>4, <2>5 DEF LInv
<1>3. CASE MessTimer(p)
  <2> DEFINE r == [proc[p] EXCEPT !.messTimers = @ - 1]
  <2>1. proc[p].messTimers \in Nat /\ proc[p].messTimers > 0
    BY <1>1, <1>3 DEF MessTimer, Proc
  <2>2. proc[p].messTimers - 1 \in Nat
    BY <2>1
  <2>3. /\ r \in Proc /\ r.reloaded = proc[p].reloaded
        /\ r.masterFlag = proc[p].masterFlag /\ r.lockFile = proc[p].lockFile
    BY <1>1, <2>2 DEF Proc
  <2>4. broadcastMessTesting(p, r) /\ lock' = lock
    BY <1>3 DEF MessTimer
  <2> HIDE DEF r
  <2> QED BY <1>1, <2>3, <2>4, broadcastMessTestingKeeps
<1>4. CASE notsaveProc(p)
  <2> DEFINE r == [proc[p] EXCEPT !.notsave = FALSE, !.notsaveTimers = @ - 1]
  <2>1. proc[p].notsaveTimers \in Nat /\ proc[p].notsaveTimers > 0
    BY <1>1, <1>4 DEF notsaveProc, Proc
  <2>2. proc[p].notsaveTimers - 1 \in Nat
    BY <2>1
  <2>3. /\ r \in Proc /\ r.phase = proc[p].phase /\ r.reloaded = proc[p].reloaded
        /\ r.masterFlag = proc[p].masterFlag /\ r.lockFile = proc[p].lockFile
        /\ r.lockFileBase = proc[p].lockFileBase
    BY <1>1, <2>2 DEF Proc
  <2>4. Become(p, r) /\ UNCHANGED <<lock, info, lastID, due>>
    BY <1>4 DEF notsaveProc
  <2> HIDE DEF r
  <2> QED BY <1>1, <2>3, <2>4, SameMasterKeeps
<1>5. CASE messBroadcastFileUnlock(p)
  <2> DEFINE r == [proc[p] EXCEPT !.amIsender = FALSE, !.unlockTimers = Tail(@)]
  <2>1. proc[p].unlockTimers \in Seq(SUBSET Alh) /\ proc[p].unlockTimers # <<>>
    BY <1>1, <1>5 DEF messBroadcastFileUnlock, Proc
  <2>2. Tail(proc[p].unlockTimers) \in Seq(SUBSET Alh)
    BY <2>1
  <2>3. /\ r \in Proc /\ r.phase = proc[p].phase /\ r.reloaded = proc[p].reloaded
        /\ r.masterFlag = proc[p].masterFlag /\ r.lockFile = proc[p].lockFile
        /\ r.lockFileBase = proc[p].lockFileBase
    BY <1>1, <2>2 DEF Proc
  <2>4. /\ Become(p, r) /\ info' = Empty /\ due' = {} /\ lastID' = lastID
        /\ lock' = Release(lock, p, {MESSLOCK})
    BY <1>5 DEF messBroadcastFileUnlock
  <2>5. lock' \in Locks /\ lock'[".LOCK"] = lock[".LOCK"] /\ Empty \in Message
    BY <1>1, <2>4, ReleaseType DEF MESSLOCK, Empty, Message
  <2> HIDE DEF r
  <2> QED BY <1>1, <2>3, <2>4, <2>5, SameMasterKeeps
<1> QED BY <1>2, <1>3, <1>4, <1>5 DEF Timer

(* The end of a process, with or without notice.                           *)
LEMMA EndKeeps ==
  ASSUME LInv, NEW p \in Alh, End(p)
  PROVE  LInv'
<1>1. BecomeAnd(p, Fresh) /\ lock' = Release(lock, p, DOMAIN lock) /\ UNCHANGED <<info, lastID>>
  BY DEF End
<1>2. due' \subseteq Alh
  BY DEF End, LInv, TypeOK
<1>3. lock' \in Locks /\ \A q \in Alh \ {p} : lock[".LOCK"] = q => lock'[".LOCK"] = q
  BY <1>1, ReleaseType DEF LInv, TypeOK
<1>4. /\ Fresh.lockFile = ".LOCK" /\ ~Fresh.masterFlag /\ Fresh.phase = "dead"
  BY DEF Fresh
<1>5. TypeOK'
  BY <1>1, <1>2, <1>3, FreshType, BecomeAndType DEF LInv, TypeOK
<1>6. HoldsLock'
  <2>1. Holds(p, Fresh, lock')
    BY <1>4 DEF Holds
  <2>2. Alike(proc'[p], Fresh) /\ \A q \in Alh \ {p} : Alike(proc'[q], proc[q])
    BY <1>1, FreshType, BecomeAndType DEF LInv
  <2> QED BY <1>3, <2>1, <2>2, HoldsLockStep DEF LInv
<1> QED BY <1>5, <1>6 DEF LInv

(* What an operator does.                                                  *)
LEMMA OperatorKeeps ==
  ASSUME LInv, NEW p \in Alh, Operator(p)
  PROVE  LInv'
<1>1. /\ proc[p] \in Proc /\ lock \in Locks /\ info \in Message /\ lastID \in Nat
      /\ due \subseteq Alh
  BY DEF LInv, TypeOK
<1>2. Release(lock, p, {MESSLOCK}) \in Locks
      /\ Release(lock, p, {MESSLOCK})[".LOCK"] = lock[".LOCK"]
  BY <1>1, ReleaseType DEF MESSLOCK
<1>3. IdleProcs \in SUBSET Alh
  BY DEF IdleProcs
<1>4. CASE Start(p)
  <2> DEFINE r == [Fresh EXCEPT !.phase = "setupConfig"]
  <2>1. /\ r \in Proc /\ r.lockFile = ".LOCK" /\ ~r.masterFlag /\ r.lockFileBase = ""
    <3>1. /\ Fresh \in Proc /\ Fresh.lockFile = ".LOCK" /\ ~Fresh.masterFlag
          /\ Fresh.lockFileBase = "" /\ "setupConfig" \in Phase
      BY FreshType DEF Fresh, Phase
    <3> QED BY <3>1 DEF Proc
  <2>2. Become(p, r) /\ UNCHANGED <<lock, info, lastID, due>>
    BY <1>4 DEF Start
  <2> HIDE DEF r
  <2>3. TypeOK'
    BY <2>1, <2>2, BecomeType DEF LInv, TypeOK
  <2>4. HoldsLock'
    <3>1. Holds(p, r, lock')
      BY <2>1 DEF Holds
    <3>2. Alike(proc'[p], r) /\ \A q \in Alh \ {p} : Alike(proc'[q], proc[q])
      BY <2>1, <2>2, BecomeType DEF LInv
    <3> QED BY <2>2, <3>1, <3>2, HoldsLockStep DEF LInv
  <2> QED BY <2>3, <2>4 DEF LInv
<1>5. CASE OpenFile(p)
  <2> DEFINE r == [proc[p] EXCEPT !.phase = "setupConfig", !.reloaded = TRUE]
  <2>1. r \in Proc /\ r.reloaded
    BY <1>1 DEF Proc, Phase
  <2>2. BecomeAnd(p, r) /\ due' = due \ {p} /\ UNCHANGED <<lock, info, lastID>>
    BY <1>5 DEF OpenFile
  <2> HIDE DEF r
  <2>3. TypeOK'
    BY <2>1, <2>2, BecomeAndType DEF LInv, TypeOK
  <2>4. HoldsLock'
    <3>1. Holds(p, r, lock')
      BY <2>1 DEF Holds
    <3>2. Alike(proc'[p], r) /\ \A q \in Alh \ {p} : Alike(proc'[q], proc[q])
      BY <2>1, <2>2, BecomeAndType DEF LInv
    <3> QED BY <2>2, <3>1, <3>2, HoldsLockStep DEF LInv
  <2> QED BY <2>3, <2>4 DEF LInv
<1>6. CASE exit_quit(p)
  BY <1>6, EndKeeps DEF exit_quit
<1>7. CASE messBroadcast(p)
  <2> DEFINE r == [proc[p] EXCEPT !.dialogs = @ + 1]
  <2>1. proc[p].dialogs + 1 \in Nat
    <3>1. proc[p].dialogs \in Nat
      BY <1>1 DEF Proc
    <3> QED BY <3>1
  <2>2. /\ r \in Proc /\ r.phase = proc[p].phase /\ r.reloaded = proc[p].reloaded
        /\ r.masterFlag = proc[p].masterFlag /\ r.lockFile = proc[p].lockFile
        /\ r.lockFileBase = proc[p].lockFileBase
    BY <1>1, <2>1 DEF Proc
  <2>3. /\ Become(p, r) /\ UNCHANGED <<info, lastID, due>>
        /\ lock' = [lock EXCEPT ![MESSLOCK] = p]
    BY <1>7 DEF messBroadcast
  <2>4. lock' \in Locks /\ lock'[".LOCK"] = lock[".LOCK"]
    BY <1>1, <2>3 DEF Locks, LockFile, MESSLOCK
  <2> HIDE DEF r
  <2> QED BY <1>1, <2>2, <2>3, <2>4, SameMasterKeeps
<1>8. ASSUME Idle(p), proc[p].dialogs > 0, Become(p, [proc[p] EXCEPT !.dialogs = @ - 1]),
             lock' = Release(lock, p, {MESSLOCK}),
             info' \in Message, lastID' = lastID, due' \subseteq Alh
      PROVE  LInv'
  <2> DEFINE r == [proc[p] EXCEPT !.dialogs = @ - 1]
  <2>1. proc[p].dialogs - 1 \in Nat
    <3>1. proc[p].dialogs \in Nat
      BY <1>1 DEF Proc
    <3> QED BY <1>8, <3>1
  <2>2. /\ r \in Proc /\ r.phase = proc[p].phase /\ r.reloaded = proc[p].reloaded
        /\ r.masterFlag = proc[p].masterFlag /\ r.lockFile = proc[p].lockFile
        /\ r.lockFileBase = proc[p].lockFileBase
    BY <1>1, <2>1 DEF Proc
  <2>3. Become(p, r)
    BY <1>8
  <2> HIDE DEF r
  <2> QED BY <1>1, <1>2, <1>8, <2>2, <2>3, SameMasterKeeps
<1>9. CASE cancelMessBroadcast(p)
  BY <1>1, <1>8, <1>9 DEF cancelMessBroadcast
<1>10. CASE WrongFormat(p)
  <2>1. Empty \in Message
    BY DEF Empty, Message
  <2> QED BY <1>8, <1>10, <2>1 DEF WrongFormat
<1>11. CASE \E kind \in Kinds : writeMessBroadcast(p, kind)
  <2>1. PICK kind \in Kinds : writeMessBroadcast(p, kind)
    BY <1>11
  <2> DEFINE r == [proc[p] EXCEPT !.dialogs = @ - 1, !.amIsender = TRUE,
                                  !.unlockTimers = Append(@, IdleProcs)]
  <2>2. proc[p].dialogs - 1 \in Nat
    <3>1. proc[p].dialogs \in Nat
      BY <1>1 DEF Proc
    <3>2. proc[p].dialogs > 0
      BY <2>1 DEF writeMessBroadcast
    <3> QED BY <3>1, <3>2
  <2>3. Append(proc[p].unlockTimers, IdleProcs) \in Seq(SUBSET Alh)
    <3>1. proc[p].unlockTimers \in Seq(SUBSET Alh)
      BY <1>1 DEF Proc
    <3> QED BY <1>3, <3>1, AppendProperties
  <2>4. /\ r \in Proc /\ r.phase = proc[p].phase /\ r.reloaded = proc[p].reloaded
        /\ r.masterFlag = proc[p].masterFlag /\ r.lockFile = proc[p].lockFile
        /\ r.lockFileBase = proc[p].lockFileBase
    BY <1>1, <2>2, <2>3 DEF Proc
  <2>5. /\ Become(p, r) /\ due' = IdleProcs /\ lock' = lock /\ lastID' = lastID + 1
        /\ info' = [id |-> lastID + 1, kind |-> kind, from |-> p]
    BY <2>1 DEF writeMessBroadcast
  <2>6. info' \in Message /\ lastID' \in Nat
    BY <1>1, <2>5, KindAssumption DEF Message
  <2> HIDE DEF r
  <2> QED BY <1>1, <1>3, <2>4, <2>5, <2>6, SameMasterKeeps
<1> QED BY <1>4, <1>5, <1>6, <1>7, <1>9, <1>10, <1>11 DEF Operator

----------------------------------------------------------------------------
\* Before the first process starts, nobody is master and no lock is held.
LEMMA InitLInv == Init => LInv
<1> SUFFICES ASSUME Init PROVE LInv
  OBVIOUS
<1>1. proc \in [Alh -> Proc]
  BY FreshType DEF Init
<1>2. lock \in Locks /\ info \in Message /\ lastID \in Nat /\ due \subseteq Alh
  BY DEF Init, Locks, Empty, Message
<1>3. HoldsLock
  BY DEF Init, HoldsLock, Fresh
<1> QED BY <1>1, <1>2, <1>3 DEF LInv, TypeOK

\* Each step of a process, of its timers and of a crash keeps LInv.
LEMMA StepLInv == LInv /\ [Next]_vars => LInv'
<1> SUFFICES ASSUME LInv, [Next]_vars PROVE LInv'
  OBVIOUS
<1>1. CASE Next
  <2>1. PICK p \in Alh : Load(p) \/ Timer(p) \/ Operator(p) \/ Crash(p)
    BY <1>1 DEF Next
  <2>2. CASE Load(p)
    BY <2>2, LoadKeeps
  <2>3. CASE Timer(p)
    BY <2>3, TimerKeeps
  <2>4. CASE Operator(p)
    BY <2>4, OperatorKeeps
  <2>5. CASE Crash(p)
    BY <2>5, EndKeeps DEF Crash
  <2> QED BY <2>1, <2>2, <2>3, <2>4, <2>5
<1>2. CASE UNCHANGED vars
  BY <1>2 DEF vars, LInv, TypeOK, HoldsLock
<1> QED BY <1>1, <1>2

(* The globals of every process and what the files hold are of their       *)
(* types; in particular no pending timer is counted below zero.            *)
THEOREM LockTypeCorrect == Spec => []TypeOK
<1>1. LInv => TypeOK
  BY DEF LInv
<1> QED BY <1>1, InitLInv, StepLInv, PTL DEF Spec

(* masterTesting never makes masters of two processes that have loaded     *)
(* their configuration once, whichever processes start, end, die or load   *)
(* again around them.                                                      *)
THEOREM OneMasterProved == Spec => []OneMasterUntilReload
<1>1. LInv => OneMasterUntilReload
  BY DEF LInv, HoldsLock, OneMasterUntilReload
<1> QED BY <1>1, InitLInv, StepLInv, PTL DEF Spec

----------------------------------------------------------------------------
(* "Not save" and its timers.                                              *)

(* No step but notsaveProc takes a timer, and it saves again.              *)
LEMMA StepStops == LInv /\ StopLoggingEnds /\ [Next]_vars => StopLoggingEnds'
<1> SUFFICES ASSUME LInv, StopLoggingEnds, [Next]_vars PROVE StopLoggingEnds'
  OBVIOUS
<1> DEFINE Ends(r) == r.notsave => r.notsaveTimers > 0
<1>1. \A q \in Alh : proc[q] \in Proc /\ Ends(proc[q])
  BY DEF LInv, TypeOK, StopLoggingEnds
<1>2. ASSUME NEW p \in Alh, NEW r, Ends(r), Become(p, r)
      PROVE  StopLoggingEnds'
  BY <1>1, <1>2 DEF Become, LInv, TypeOK, StopLoggingEnds
<1>3. ASSUME NEW p \in Alh, NEW r \in Proc, Ends(r), BecomeAnd(p, r)
      PROVE  StopLoggingEnds'
  <2> DEFINE old(q) == IF q = p THEN r ELSE proc[q]
             polled(q) == [i \in DOMAIN old(q).unlockTimers |-> old(q).unlockTimers[i] \ {p}]
             new(q) == [old(q) EXCEPT !.unlockTimers = polled(q)]
  <2>1. \A q \in Alh : old(q) \in Proc /\ Ends(old(q))
    BY <1>1, <1>3
  <2>2. proc' = [q \in Alh |-> new(q)]
    BY <1>3 DEF BecomeAnd
  <2> HIDE DEF old, polled
  <2>3. \A q \in Alh : Ends(new(q))
    BY <2>1 DEF Proc
  <2> HIDE DEF new
  <2> QED BY <2>2, <2>3 DEF StopLoggingEnds
<1>4. ASSUME NEW p \in Alh, NEW r \in Proc, Ends(r), broadcastMessTesting(p, r)
      PROVE  StopLoggingEnds'
  <2> DEFINE new == info # Empty /\ info.id # r.messID
             s == [r EXCEPT !.messTimers = @ + 1]
             o == [s EXCEPT !.messID = info.id]
             t == IF new THEN Obey(o, info.kind) ELSE [s EXCEPT !.phase = "idle"]
             u == IF t.phase = "idle" THEN [t EXCEPT !.lockFileBase = "base"] ELSE t
  <2>1. r.messTimers + 1 \in Nat /\ info.id \in Nat /\ "idle" \in Phase
    <3>1. r.messTimers \in Nat
      BY DEF Proc
    <3> QED BY <3>1 DEF Phase, LInv, TypeOK, Message
  <2>2. s \in Proc /\ Ends(s) /\ o \in Proc /\ Ends(o)
    BY <1>4, <2>1 DEF Proc
  <2>3. Ends(Obey(o, info.kind)) /\ Obey(o, info.kind) \in Proc
    <3> HIDE DEF o
    <3>1. o.notsaveTimers \in Nat
      BY <2>2 DEF Proc
    <3>2. o.notsaveTimers + 1 > 0
      BY <3>1
    <3>3. Ends(Obey(o, info.kind))
      BY <2>2, <3>2 DEF Obey, Proc
    <3> QED BY <2>2, <3>3, ObeyType
  <2> HIDE DEF new, o
  <2>4. t \in Proc /\ Ends(t)
    BY <2>1, <2>2, <2>3 DEF Proc
  <2> HIDE DEF t
  <2>5. u \in Proc /\ Ends(u)
    BY <2>4 DEF Proc
  <2>6. BecomeAnd(p, u)
    BY <1>4 DEF broadcastMessTesting, new, o, t
  <2> HIDE DEF u
  <2> QED BY <1>3, <2>5, <2>6
<1>5. CASE Next
  <2>1. PICK p \in Alh : Load(p) \/ Timer(p) \/ Operator(p) \/ Crash(p)
    BY <1>5 DEF Next
  <2>2. CASE SetupConfig(p)
    <3>1. Ends([proc[p] EXCEPT !.phase = "lockFile"])
      BY <1>1 DEF Proc
    <3> QED BY <1>2, <2>2, <3>1 DEF SetupConfig
  <2>3. CASE LockSetup(p)
    <3> DEFINE f == IF proc[p].lockFileBase = "" THEN ".LOCK" ELSE "base.LOCK"
               r == [proc[p] EXCEPT !.phase = "messFile", !.lockFile = f]
               t == masterTesting(p, r, Release(lock, p, {f}))
    <3>1. r \in Proc /\ Ends(r)
      BY <1>1 DEF Proc, Phase, LockFile
    <3>2. Become(p, t.r)
      BY <2>3 DEF LockSetup
    <3> HIDE DEF r
    <3>3. Ends(t.r)
      BY <3>1 DEF masterTesting, Proc
    <3> HIDE DEF t
    <3> QED BY <1>2, <3>2, <3>3
  <2>4. CASE MessSetup(p)
    BY <1>1, <1>4, <2>4 DEF MessSetup
  <2>5. CASE LockTimer(p)
    <3> DEFINE r == [proc[p] EXCEPT !.lockTimers = @ - 1]
               t == masterTesting(p, r, lock)
    <3>1. Ends(r) /\ DOMAIN r = DOMAIN proc[p]
      BY <1>1 DEF Proc
    <3>2. Become(p, t.r)
      BY <2>5 DEF LockTimer
    <3>3. Ends(t.r)
      BY <1>1 DEF masterTesting, Proc
    <3> HIDE DEF t
    <3> QED BY <1>2, <3>2, <3>3
  <2>6. CASE MessTimer(p)
    <3> DEFINE r == [proc[p] EXCEPT !.messTimers = @ - 1]
    <3>1. proc[p].messTimers \in Nat /\ proc[p].messTimers > 0
      BY <1>1, <2>6 DEF MessTimer, Proc
    <3>2. proc[p].messTimers - 1 \in Nat
      BY <3>1
    <3>3. r \in Proc /\ Ends(r)
      BY <1>1, <3>2 DEF Proc
    <3>4. broadcastMessTesting(p, r)
      BY <2>6 DEF MessTimer
    <3> HIDE DEF r
    <3> QED BY <1>4, <3>3, <3>4
  <2>7. CASE notsaveProc(p)
    <3>1. Ends([proc[p] EXCEPT !.notsave = FALSE, !.notsaveTimers = @ - 1])
      BY <1>1 DEF Proc
    <3> QED BY <1>2, <2>7, <3>1 DEF notsaveProc
  <2>8. CASE messBroadcastFileUnlock(p)
    <3>1. Ends([proc[p] EXCEPT !.amIsender = FALSE, !.unlockTimers = Tail(@)])
      BY <1>1 DEF Proc
    <3> QED BY <1>2, <2>8, <3>1 DEF messBroadcastFileUnlock
  <2>9. CASE Start(p)
    <3>1. Ends([Fresh EXCEPT !.phase = "setupConfig"])
      BY DEF Fresh
    <3> QED BY <1>2, <2>9, <3>1 DEF Start
  <2>10. CASE OpenFile(p)
    <3> DEFINE r == [proc[p] EXCEPT !.phase = "setupConfig", !.reloaded = TRUE]
    <3>1. r \in Proc /\ Ends(r)
      BY <1>1 DEF Proc, Phase
    <3>2. BecomeAnd(p, r)
      BY <2>10 DEF OpenFile
    <3> HIDE DEF r
    <3> QED BY <1>3, <3>1, <3>2
  <2>11. CASE exit_quit(p) \/ Crash(p)
    <3>1. BecomeAnd(p, Fresh)
      BY <2>11 DEF exit_quit, Crash, End
    <3>2. Ends(Fresh)
      BY DEF Fresh
    <3> QED BY <1>3, <3>1, <3>2, FreshType
  <2>12. CASE messBroadcast(p)
    <3>1. Ends([proc[p] EXCEPT !.dialogs = @ + 1])
      BY <1>1 DEF Proc
    <3> QED BY <1>2, <2>12, <3>1 DEF messBroadcast
  <2>13. CASE cancelMessBroadcast(p) \/ WrongFormat(p)
    <3>1. Ends([proc[p] EXCEPT !.dialogs = @ - 1])
      BY <1>1 DEF Proc
    <3> QED BY <1>2, <2>13, <3>1 DEF cancelMessBroadcast, WrongFormat
  <2>14. CASE \E kind \in Kinds : writeMessBroadcast(p, kind)
    <3>1. Ends([proc[p] EXCEPT !.dialogs = @ - 1, !.amIsender = TRUE,
                               !.unlockTimers = Append(@, IdleProcs)])
      BY <1>1 DEF Proc
    <3> QED BY <1>2, <2>14, <3>1 DEF writeMessBroadcast
  <2> QED BY <2>1, <2>2, <2>3, <2>4, <2>5, <2>6, <2>7, <2>8, <2>9, <2>10, <2>11, <2>12,
             <2>13, <2>14 DEF Load, Timer, Operator
<1>6. CASE UNCHANGED vars
  BY <1>6 DEF vars, StopLoggingEnds
<1> QED BY <1>5, <1>6

(* A "not save" message cannot stop the alarm log for good: whatever comes *)
(* in its way, the process has a timer left that makes it save again.      *)
THEOREM StopLoggingProved == Spec => []StopLoggingEnds
<1>1. Init => StopLoggingEnds
  <2>1. ~Fresh.notsave
    BY DEF Fresh
  <2> QED BY <2>1 DEF Init, StopLoggingEnds
<1> QED BY <1>1, InitLInv, StepLInv, StepStops, PTL DEF Spec

----------------------------------------------------------------------------
(* A message and its sender, where an operator has one dialog at a time.   *)

(* What holds of the dialogs and messages of process p when it is r and    *)
(* the locks are l: while it never loaded a configuration again, what it   *)
(* types or has sent has the lock of the messages.                         *)
Sends(p, r, l) ==
  /\ r.phase = "dead" => ~r.reloaded
  /\ ~r.reloaded =>
       /\ r.dialogs <= 1
       /\ r.dialogs > 0 \/ r.amIsender => l[MESSLOCK] = p /\ r.phase = "idle"
       /\ r.dialogs > 0 => ~r.amIsender
       /\ r.amIsender => Len(r.unlockTimers) = 1
       /\ ~r.amIsender => Len(r.unlockTimers) = 0

AllSend == \A p \in Alh : Sends(p, proc[p], lock)

(* A message that somebody waiting for events has not read has a sender    *)
(* whose timer waits for their polls.                                      *)
SenderWaits ==
  info # Empty /\ due # {} =>
    /\ info.from \in Alh
    /\ ~proc[info.from].reloaded =>
         /\ proc[info.from].amIsender
         /\ due \subseteq proc[info.from].unlockTimers[1]

SenderInv == AllSend /\ SenderWaits

(* r sends what s sends, and its pending unlock waits for the polls that   *)
(* the one of s waits for, but those of gone.                              *)
SendsAs(r, s, gone) ==
  /\ r.phase = s.phase /\ r.reloaded = s.reloaded
  /\ r.dialogs = s.dialogs /\ r.amIsender = s.amIsender
  /\ Len(r.unlockTimers) = Len(s.unlockTimers)
  /\ Len(s.unlockTimers) > 0 => s.unlockTimers[1] \ gone \subseteq r.unlockTimers[1]

(* A step of p that makes it r.                                            *)
Moved(p, r, gone) ==
  /\ SendsAs(proc'[p], r, gone)
  /\ \A q \in Alh \ {p} : SendsAs(proc'[q], proc[q], gone)

(* Others keep the lock of the messages.                                   *)
MessLockKept(p) == \A q \in Alh \ {p} : lock[MESSLOCK] = q => lock'[MESSLOCK] = q

(* What was a message of p has its timer in r.                             *)
TimerStays(p, r) ==
  info.from = p /\ due' # {} /\ ~r.reloaded /\ proc[p].phase # "dead" =>
    /\ ~proc[p].reloaded
    /\ r.amIsender = proc[p].amIsender
    /\ r.unlockTimers = proc[p].unlockTimers

LEMMA BecomeMoves ==
  ASSUME TypeOK, NEW p \in Alh, NEW r \in Proc, Become(p, r)
  PROVE  Moved(p, r, {})
BY DEF TypeOK, Become, Moved, SendsAs

LEMMA PolledSends ==
  ASSUME NEW s \in Seq(SUBSET Alh), NEW p
  PROVE  LET t == [i \in DOMAIN s |-> s[i] \ {p}]
         IN  /\ Len(t) = Len(s)
             /\ Len(s) > 0 => s[1] \ {p} \subseteq t[1]
<1> DEFINE t == [i \in DOMAIN s |-> s[i] \ {p}]
<1>1. Len(s) \in Nat /\ DOMAIN s = 1 .. Len(s)
  BY LenProperties
<1>2. t \in Seq(SUBSET Alh) /\ DOMAIN t = 1 .. Len(s)
  BY <1>1, PolledType
<1>3. Len(t) \in Nat /\ DOMAIN t = 1 .. Len(t)
  BY <1>2, LenProperties
<1>4. Len(t) = Len(s)
  <2> HIDE DEF t
  <2> QED BY <1>1, <1>2, <1>3
<1>5. Len(s) > 0 => t[1] = s[1] \ {p}
  BY <1>1
<1> QED BY <1>4, <1>5

LEMMA BecomeAndMoves ==
  ASSUME TypeOK, NEW p \in Alh, NEW r \in Proc, BecomeAnd(p, r)
  PROVE  Moved(p, r, {p})
<1> DEFINE old(q) == IF q = p THEN r ELSE proc[q]
           polled(q) == [i \in DOMAIN old(q).unlockTimers |-> old(q).unlockTimers[i] \ {p}]
           new(q) == [old(q) EXCEPT !.unlockTimers = polled(q)]
<1>1. \A q \in Alh : old(q) \in Proc
  BY DEF TypeOK
<1>2. ASSUME NEW q \in Alh
      PROVE  /\ Len(polled(q)) = Len(old(q).unlockTimers)
             /\ Len(old(q).unlockTimers) > 0 =>
                  old(q).unlockTimers[1] \ {p} \subseteq polled(q)[1]
  <2>1. old(q).unlockTimers \in Seq(SUBSET Alh)
    BY <1>1 DEF Proc
  <2> HIDE DEF old
  <2> QED BY <2>1, PolledSends
<1>3. proc' = [q \in Alh |-> new(q)]
  BY DEF BecomeAnd
<1> HIDE DEF old, polled
<1>4. \A q \in Alh : SendsAs(new(q), old(q), {p})
  BY <1>1, <1>2 DEF Proc, SendsAs
<1> HIDE DEF new
<1> QED BY <1>3, <1>4 DEF old, Moved

(* What a step of p has to establish for the senders ...                   *)
LEMMA AllSendStep ==
  ASSUME AllSend, NEW p \in Alh, NEW r, NEW gone, Moved(p, r, gone),
         Sends(p, r, lock'), MessLockKept(p)
  PROVE  AllSend'
<1>1. \A q \in Alh \ {p} : Sends(q, proc'[q], lock')
  BY DEF AllSend, Sends, Moved, SendsAs, MessLockKept
<1>2. Sends(p, proc'[p], lock')
  BY DEF Sends, Moved, SendsAs
<1>3. \A q \in Alh : Sends(q, proc'[q], lock')
  BY <1>1, <1>2
<1> QED BY <1>3 DEF AllSend, Sends

(* ... and, when the message stays, for its sender.                        *)
LEMMA SenderStep ==
  ASSUME SenderInv, NEW p \in Alh, NEW r, NEW gone, Moved(p, r, gone),
         Sends(p, r, lock'), MessLockKept(p),
         info' = info, due' \subseteq due \ gone, TimerStays(p, r)
  PROVE  SenderInv'
<1>1. AllSend'
  BY AllSendStep DEF SenderInv
<1>2. SenderWaits'
  <2> SUFFICES ASSUME info # Empty, due' # {}
               PROVE  /\ info.from \in Alh
                      /\ ~proc'[info.from].reloaded =>
                           /\ proc'[info.from].amIsender
                           /\ due' \subseteq proc'[info.from].unlockTimers[1]
    BY DEF SenderWaits
  <2>1. due # {}
    OBVIOUS
  <2>2. /\ info.from \in Alh
        /\ ~proc[info.from].reloaded =>
             /\ proc[info.from].amIsender
             /\ due \subseteq proc[info.from].unlockTimers[1]
    BY <2>1 DEF SenderInv, SenderWaits
  <2>3. PICK s \in Alh : s = info.from
    BY <2>2
  <2>4. Sends(s, proc[s], lock)
    BY <2>3 DEF SenderInv, AllSend
  <2>5. ~proc[s].reloaded => Len(proc[s].unlockTimers) = 1 /\ proc[s].phase # "dead"
    BY <2>2, <2>3, <2>4 DEF Sends
  <2>6. CASE s # p
    <3>1. SendsAs(proc'[s], proc[s], gone)
      BY <2>6 DEF Moved
    <3> QED BY <2>2, <2>3, <2>5, <3>1 DEF SendsAs
  <2>7. CASE s = p
    <3>1. SendsAs(proc'[p], r, gone)
      BY DEF Moved
    <3>2. proc[p].phase # "dead"
      BY <2>4, <2>5, <2>7 DEF Sends
    <3>3. ~r.reloaded => /\ ~proc[p].reloaded
                         /\ r.amIsender = proc[p].amIsender
                         /\ r.unlockTimers = proc[p].unlockTimers
      BY <2>3, <2>7, <3>2 DEF TimerStays
    <3>4. ~r.reloaded => /\ r.amIsender /\ due \subseteq r.unlockTimers[1]
                         /\ Len(r.unlockTimers) = 1
      BY <2>2, <2>3, <2>5, <2>7, <3>3
    <3> QED BY <2>3, <2>7, <3>1, <3>4 DEF SendsAs
  <2> QED BY <2>6, <2>7
<1> QED BY <1>1, <1>2 DEF SenderInv

\* A lock that p gives up was not another process's.
LEMMA ReleaseMess ==
  ASSUME NEW l \in Locks, NEW p \in Alh, NEW files
  PROVE  /\ \A q \in Alh \ {p} : l[MESSLOCK] = q => Release(l, p, files)[MESSLOCK] = q
         /\ MESSLOCK \notin files => Release(l, p, files)[MESSLOCK] = l[MESSLOCK]
BY NoOneAssumption DEF Release, Locks, LockFile, MESSLOCK

\* Testing for the master has nothing to do with messages.
LEMMA masterTestingSends ==
  ASSUME NEW p \in Alh, NEW r \in Proc, NEW l \in Locks
  PROVE  LET t == masterTesting(p, r, l)
         IN  /\ t.r.dialogs = r.dialogs /\ t.r.amIsender = r.amIsender
             /\ t.r.unlockTimers = r.unlockTimers
             /\ t.l[MESSLOCK] = l[MESSLOCK]
<1>1. r.lockFile \in LockFile
  BY DEF Proc
<1>2. r.lockFile # MESSLOCK
  BY <1>1 DEF LockFile, MESSLOCK
<1> QED BY <1>1, <1>2 DEF masterTesting, Proc, Locks

\* Nor has what a message makes of its reader to do with his own messages.
LEMMA ObeySends ==
  ASSUME NEW r \in Proc, NEW kind
  PROVE  /\ Obey(r, kind).dialogs = r.dialogs
         /\ Obey(r, kind).amIsender = r.amIsender
         /\ Obey(r, kind).unlockTimers = r.unlockTimers
         /\ Obey(r, kind).phase # "dead"
BY DEF Obey, Proc

(* The poll leaves dialogs and timers as they are; a process that does not *)
(* load again waits for events.                                            *)
LEMMA broadcastMessTestingSends ==
  ASSUME LInv, SenderInv, NEW p \in Alh, NEW r \in Proc, broadcastMessTesting(p, r),
         MessLockKept(p),
         r.reloaded = proc[p].reloaded, r.dialogs = proc[p].dialogs,
         r.amIsender = proc[p].amIsender, r.unlockTimers = proc[p].unlockTimers,
         ~r.reloaded /\ (r.dialogs > 0 \/ r.amIsender) => lock'[MESSLOCK] = p
  PROVE  SenderInv'
<1> DEFINE new == info # Empty /\ info.id # r.messID
           s == [r EXCEPT !.messTimers = @ + 1]
           o == [s EXCEPT !.messID = info.id]
           t == IF new THEN Obey(o, info.kind) ELSE [s EXCEPT !.phase = "idle"]
           u == IF t.phase = "idle" THEN [t EXCEPT !.lockFileBase = "base"] ELSE t
           Same(x) == /\ x.dialogs = r.dialogs /\ x.amIsender = r.amIsender
                      /\ x.unlockTimers = r.unlockTimers
<1>1. s \in Proc /\ Same(s) /\ s.reloaded = r.reloaded
  <2>1. r.messTimers \in Nat
    BY DEF Proc
  <2>2. r.messTimers + 1 \in Nat
    BY <2>1
  <2> QED BY <2>2 DEF Proc
<1>2. o \in Proc /\ Same(o) /\ o.reloaded = r.reloaded
  <2>1. info.id \in Nat
    BY DEF LInv, TypeOK, Message
  <2> HIDE DEF s
  <2> QED BY <1>1, <2>1 DEF Proc
<1> HIDE DEF new, s, o
<1>3. /\ t \in Proc /\ Same(t) /\ t.phase # "dead"
      /\ t.phase # "idle" => t.reloaded
      /\ t.phase = "idle" => t.reloaded = r.reloaded
  <2>1. CASE new
    BY <1>2, <2>1, ObeyType, ObeySends
  <2>2. CASE ~new
    <3>1. "idle" \in Phase
      BY DEF Phase
    <3> QED BY <1>1, <2>2, <3>1 DEF Proc
  <2> QED BY <2>1, <2>2
<1> HIDE DEF t
<1>4. u \in Proc /\ Same(u) /\ u.reloaded = t.reloaded /\ u.phase = t.phase
  BY <1>3 DEF Proc
<1> HIDE DEF u
<1>5. BecomeAnd(p, u) /\ due' = due \ {p} /\ info' = info
  BY DEF broadcastMessTesting, new, s, o, t, u
<1>6. Moved(p, u, {p})
  BY <1>4, <1>5, BecomeAndMoves DEF LInv
<1>7. Sends(p, proc[p], lock)
  BY DEF SenderInv, AllSend
<1>8. ~u.reloaded => u.phase = "idle" /\ ~r.reloaded
  BY <1>3, <1>4
<1>9. Sends(p, u, lock')
  BY <1>3, <1>4, <1>7, <1>8 DEF Sends
<1>10. TimerStays(p, u)
  BY <1>4, <1>8 DEF TimerStays
<1> QED BY <1>5, <1>6, <1>9, <1>10, SenderStep

(* The load of a configuration: while it lasts, a process that never       *)
(* loaded one before has no dialog and no message.                         *)
LEMMA LoadSends ==
  ASSUME LInv, SenderInv, NEW p \in Alh, Load(p)
  PROVE  SenderInv'
<1>1. proc[p] \in Proc /\ lock \in Locks /\ Sends(p, proc[p], lock)
  BY DEF LInv, TypeOK, SenderInv, AllSend
<1>2. CASE SetupConfig(p)
  <2> DEFINE r == [proc[p] EXCEPT !.phase = "lockFile"]
  <2>1. /\ r \in Proc /\ r.phase = "lockFile" /\ r.reloaded = proc[p].reloaded
        /\ r.dialogs = proc[p].dialogs /\ r.amIsender = proc[p].amIsender
        /\ r.unlockTimers = proc[p].unlockTimers
    BY <1>1 DEF Proc, Phase
  <2>2. /\ Become(p, r) /\ UNCHANGED <<lock, info, due>>
        /\ proc[p].phase = "setupConfig"
    BY <1>2 DEF SetupConfig
  <2> HIDE DEF r
  <2>3. Moved(p, r, {})
    BY <2>1, <2>2, BecomeMoves DEF LInv
  <2>4. Sends(p, r, lock') /\ MessLockKept(p) /\ TimerStays(p, r)
    BY <1>1, <2>1, <2>2 DEF Sends, MessLockKept, TimerStays
  <2> QED BY <2>2, <2>3, <2>4, SenderStep
<1>3. CASE LockSetup(p)
  <2> DEFINE f == IF proc[p].lockFileBase = "" THEN ".LOCK" ELSE "base.LOCK"
             r == [proc[p] EXCEPT !.phase = "messFile", !.lockFile = f]
             l == Release(lock, p, {f})
             t == masterTesting(p, r, l)
  <2>1. f \in LockFile /\ f # MESSLOCK
    BY DEF LockFile, MESSLOCK
  <2>2. /\ Become(p, t.r) /\ lock' = t.l /\ UNCHANGED <<info, due>>
        /\ proc[p].phase = "lockFile"
    BY <1>3 DEF LockSetup
  <2> HIDE DEF f
  <2>3. /\ r \in Proc /\ r.phase = "messFile" /\ r.reloaded = proc[p].reloaded
        /\ r.dialogs = proc[p].dialogs /\ r.amIsender = proc[p].amIsender
        /\ r.unlockTimers = proc[p].unlockTimers
    BY <1>1, <2>1 DEF Proc, Phase
  <2>4. l \in Locks /\ l[MESSLOCK] = lock[MESSLOCK]
    BY <1>1, <2>1, ReleaseType, ReleaseMess
  <2> HIDE DEF r, l
  <2>5. /\ t.r \in Proc /\ t.r.phase = "messFile" /\ t.r.reloaded = proc[p].reloaded
        /\ t.r.dialogs = proc[p].dialogs /\ t.r.amIsender = proc[p].amIsender
        /\ t.r.unlockTimers = proc[p].unlockTimers
        /\ t.l[MESSLOCK] = lock[MESSLOCK]
    BY <2>3, <2>4, masterTestingType, masterTestingSends
  <2> HIDE DEF t
  <2>6. Moved(p, t.r, {})
    BY <2>2, <2>5, BecomeMoves DEF LInv
  <2>7. Sends(p, t.r, lock') /\ MessLockKept(p) /\ TimerStays(p, t.r)
    BY <1>1, <2>2, <2>5 DEF Sends, MessLockKept, TimerStays
  <2> QED BY <2>2, <2>6, <2>7, SenderStep
<1>4. CASE MessSetup(p)
  <2>1. /\ lock' = Release(lock, p, {MESSLOCK}) /\ broadcastMessTesting(p, proc[p])
        /\ proc[p].phase = "messFile"
    BY <1>4 DEF MessSetup
  <2>2. MessLockKept(p)
    BY <1>1, <2>1, ReleaseMess DEF MessLockKept
  <2>3. ~proc[p].reloaded => ~(proc[p].dialogs > 0 \/ proc[p].amIsender)
    BY <1>1, <2>1 DEF Sends
  <2> QED BY <1>1, <2>1, <2>2, <2>3, broadcastMessTestingSends
<1> QED BY <1>2, <1>3, <1>4 DEF Load

(* The timers.  A sender's unlock finds its message's only timer.          *)
LEMMA TimerSends ==
  ASSUME LInv, SenderInv, NEW p \in Alh, Timer(p)
  PROVE  SenderInv'
<1>1. proc[p] \in Proc /\ lock \in Locks /\ Sends(p, proc[p], lock)
  BY DEF LInv, TypeOK, SenderInv, AllSend
<1>2. CASE LockTimer(p)
  <2> DEFINE r == [proc[p] EXCEPT !.lockTimers = @ - 1]
             t == masterTesting(p, r, lock)
  <2>1. /\ Become(p, t.r) /\ lock' = t.l /\ UNCHANGED <<info, due>>
        /\ proc[p].phase = "idle" /\ proc[p].lockTimers > 0
    BY <1>2 DEF LockTimer, Idle
  <2>2. proc[p].lockTimers - 1 \in Nat
    <3>1. proc[p].lockTimers \in Nat
      BY <1>1 DEF Proc
    <3> QED BY <2>1, <3>1
  <2>3. /\ r \in Proc /\ r.phase = "idle" /\ r.reloaded = proc[p].reloaded
        /\ r.dialogs = proc[p].dialogs /\ r.amIsender = proc[p].amIsender
        /\ r.unlockTimers = proc[p].unlockTimers
    BY <1>1, <2>1, <2>2 DEF Proc
  <2> HIDE DEF r
  <2>4. /\ t.r \in Proc /\ t.r.phase = "idle" /\ t.r.reloaded = proc[p].reloaded
        /\ t.r.dialogs = proc[p].dialogs /\ t.r.amIsender = proc[p].amIsender
        /\ t.r.unlockTimers = proc[p].unlockTimers
        /\ t.l[MESSLOCK] = lock[MESSLOCK]
    BY <1>1, <2>3, masterTestingType, masterTestingSends
  <2> HIDE DEF t
  <2>5. Moved(p, t.r, {})
    BY <2>1, <2>4, BecomeMoves DEF LInv
  <2>6. Sends(p, t.r, lock') /\ MessLockKept(p) /\ TimerStays(p, t.r)
    BY <1>1, <2>1, <2>4 DEF Sends, MessLockKept, TimerStays
  <2> QED BY <2>1, <2>5, <2>6, SenderStep
<1>3. CASE MessTimer(p)
  <2> DEFINE r == [proc[p] EXCEPT !.messTimers = @ - 1]
  <2>1. /\ broadcastMessTesting(p, r) /\ lock' = lock
        /\ proc[p].phase = "idle" /\ proc[p].messTimers > 0
    BY <1>3 DEF MessTimer, Idle
  <2>2. proc[p].messTimers - 1 \in Nat
    <3>1. proc[p].messTimers \in Nat
      BY <1>1 DEF Proc
    <3> QED BY <2>1, <3>1
  <2>3. /\ r \in Proc /\ r.reloaded = proc[p].reloaded
        /\ r.dialogs = proc[p].dialogs /\ r.amIsender = proc[p].amIsender
        /\ r.unlockTimers = proc[p].unlockTimers
    BY <1>1, <2>2 DEF Proc
  <2> HIDE DEF r
  <2>4. MessLockKept(p) /\ (~r.reloaded /\ (r.dialogs > 0 \/ r.amIsender) => lock'[MESSLOCK] = p)
    BY <1>1, <2>1, <2>3 DEF MessLockKept, Sends
  <2> QED BY <2>1, <2>3, <2>4, broadcastMessTestingSends
<1>4. CASE notsaveProc(p)
  <2> DEFINE r == [proc[p] EXCEPT !.notsave = FALSE, !.notsaveTimers = @ - 1]
  <2>1. /\ Become(p, r) /\ UNCHANGED <<lock, info, due>> /\ proc[p].notsaveTimers > 0
    BY <1>4 DEF notsaveProc
  <2>2. proc[p].notsaveTimers - 1 \in Nat
    <3>1. proc[p].notsaveTimers \in Nat
      BY <1>1 DEF Proc
    <3> QED BY <2>1, <3>1
  <2>3. /\ r \in Proc /\ r.phase = proc[p].phase /\ r.reloaded = proc[p].reloaded
        /\ r.dialogs = proc[p].dialogs /\ r.amIsender = proc[p].amIsender
        /\ r.unlockTimers = proc[p].unlockTimers
    BY <1>1, <2>2 DEF Proc
  <2> HIDE DEF r
  <2>4. Moved(p, r, {})
    BY <2>1, <2>3, BecomeMoves DEF LInv
  <2>5. Sends(p, r, lock') /\ MessLockKept(p) /\ TimerStays(p, r)
    BY <1>1, <2>1, <2>3 DEF Sends, MessLockKept, TimerStays
  <2> QED BY <2>1, <2>4, <2>5, SenderStep
<1>5. CASE messBroadcastFileUnlock(p)
  <2> DEFINE r == [proc[p] EXCEPT !.amIsender = FALSE, !.unlockTimers = Tail(@)]
  <2>1. /\ Become(p, r) /\ info' = Empty /\ due' = {}
        /\ lock' = Release(lock, p, {MESSLOCK})
        /\ proc[p].phase = "idle" /\ proc[p].unlockTimers # <<>>
    BY <1>5 DEF messBroadcastFileUnlock, Idle
  <2>2. proc[p].unlockTimers \in Seq(SUBSET Alh)
    BY <1>1 DEF Proc
  <2>3. /\ Len(proc[p].unlockTimers) \in Nat /\ Len(proc[p].unlockTimers) > 0
        /\ Tail(proc[p].unlockTimers) \in Seq(SUBSET Alh)
        /\ Len(Tail(proc[p].unlockTimers)) = Len(proc[p].unlockTimers) - 1
    BY <2>1, <2>2, HeadTailProperties, EmptySeq, LenProperties
  <2>4. /\ r \in Proc /\ r.phase = "idle" /\ r.reloaded = proc[p].reloaded
        /\ r.dialogs = proc[p].dialogs /\ r.amIsender = FALSE
        /\ r.unlockTimers = Tail(proc[p].unlockTimers)
    BY <1>1, <2>1, <2>3 DEF Proc
  <2> HIDE DEF r
  <2>5. Moved(p, r, {})
    BY <2>1, <2>4, BecomeMoves DEF LInv
  <2>6. Sends(p, r, lock')
    <3>1. r.dialogs \in Nat /\ r.unlockTimers \in Seq(SUBSET Alh)
      BY <2>4 DEF Proc
    <3>2. ~proc[p].reloaded => proc[p].amIsender /\ ~(proc[p].dialogs > 0)
                               /\ Len(proc[p].unlockTimers) = 1
      BY <1>1, <2>3 DEF Sends
    <3>3. ~proc[p].reloaded => Len(r.unlockTimers) = 0
      BY <2>3, <2>4, <3>2
    <3> QED BY <2>4, <3>1, <3>2, <3>3 DEF Sends
  <2>7. MessLockKept(p)
    BY <1>1, <2>1, ReleaseMess DEF MessLockKept
  <2> QED BY <2>1, <2>5, <2>6, <2>7, AllSendStep DEF SenderInv, SenderWaits
<1> QED BY <1>2, <1>3, <1>4, <1>5 DEF Timer

\* A process that ends leaves no message behind that it has to wait for.
LEMMA EndSends ==
  ASSUME LInv, SenderInv, NEW p \in Alh, End(p)
  PROVE  SenderInv'
<1>1. /\ BecomeAnd(p, Fresh) /\ lock' = Release(lock, p, DOMAIN lock) /\ info' = info
      /\ due' \subseteq due \ {p}
      /\ info.from = p => due' = {}
  BY DEF End
<1>2. Moved(p, Fresh, {p})
  BY <1>1, FreshType, BecomeAndMoves DEF LInv
<1>3. Sends(p, Fresh, lock')
  BY DEF Sends, Fresh
<1>4. MessLockKept(p)
  BY <1>1, ReleaseMess DEF MessLockKept, LInv, TypeOK
<1>5. TimerStays(p, Fresh)
  BY <1>1 DEF TimerStays
<1> QED BY <1>1, <1>2, <1>3, <1>4, <1>5, SenderStep

(* What an operator does: with one dialog at a time, whoever types holds   *)
(* the lock of the messages and has no message out.                        *)
LEMMA OperatorSends ==
  ASSUME MaxDialogs <= 1, LInv, SenderInv, NEW p \in Alh, Operator(p)
  PROVE  SenderInv'
<1>1. proc[p] \in Proc /\ lock \in Locks /\ Sends(p, proc[p], lock)
  BY DEF LInv, TypeOK, SenderInv, AllSend
<1>2. proc[p].dialogs \in Nat /\ proc[p].unlockTimers \in Seq(SUBSET Alh)
  BY <1>1 DEF Proc
<1>3. CASE Start(p)
  <2> DEFINE r == [Fresh EXCEPT !.phase = "setupConfig"]
  <2>1. Become(p, r) /\ UNCHANGED <<lock, info, due>> /\ proc[p].phase = "dead"
    BY <1>3 DEF Start
  <2>2. /\ r \in Proc /\ r.phase = "setupConfig" /\ r.dialogs = 0 /\ ~r.amIsender
        /\ r.unlockTimers = <<>>
    <3>1. /\ Fresh \in Proc /\ Fresh.dialogs = 0 /\ ~Fresh.amIsender
          /\ Fresh.unlockTimers = <<>> /\ "setupConfig" \in Phase
      BY FreshType DEF Fresh, Phase
    <3> QED BY <3>1 DEF Proc
  <2> HIDE DEF r
  <2>3. Moved(p, r, {})
    BY <2>1, <2>2, BecomeMoves DEF LInv
  <2>4. Sends(p, r, lock') /\ MessLockKept(p) /\ TimerStays(p, r)
    BY <2>1, <2>2 DEF Sends, MessLockKept, TimerStays
  <2> QED BY <2>1, <2>3, <2>4, SenderStep
<1>4. CASE OpenFile(p)
  <2> DEFINE r == [proc[p] EXCEPT !.phase = "setupConfig", !.reloaded = TRUE]
  <2>1. BecomeAnd(p, r) /\ due' = due \ {p} /\ UNCHANGED <<lock, info>>
    BY <1>4 DEF OpenFile
  <2>2. r \in Proc /\ r.phase = "setupConfig" /\ r.reloaded
    BY <1>1 DEF Proc, Phase
  <2> HIDE DEF r
  <2>3. Moved(p, r, {p})
    BY <2>1, <2>2, BecomeAndMoves DEF LInv
  <2>4. Sends(p, r, lock') /\ MessLockKept(p) /\ TimerStays(p, r)
    BY <2>1, <2>2 DEF Sends, MessLockKept, TimerStays
  <2> QED BY <2>1, <2>3, <2>4, SenderStep
<1>5. CASE exit_quit(p)
  BY <1>5, EndSends DEF exit_quit
<1>6. CASE messBroadcast(p)
  <2> DEFINE r == [proc[p] EXCEPT !.dialogs = @ + 1]
  <2>1. /\ Become(p, r) /\ lock' = [lock EXCEPT ![MESSLOCK] = p] /\ UNCHANGED <<info, due>>
        /\ proc[p].phase = "idle" /\ ~proc[p].amIsender
        /\ lock[MESSLOCK] \in {NoOne, p} /\ proc[p].dialogs < MaxDialogs
    BY <1>6 DEF messBroadcast, Idle
  <2>2. proc[p].dialogs + 1 \in Nat /\ proc[p].dialogs + 1 <= 1
    BY <1>2, <2>1, BoundAssumption
  <2>3. /\ r \in Proc /\ r.phase = "idle" /\ r.reloaded = proc[p].reloaded
        /\ r.dialogs <= 1 /\ r.amIsender = proc[p].amIsender
        /\ r.unlockTimers = proc[p].unlockTimers
    BY <1>1, <2>1, <2>2 DEF Proc
  <2> HIDE DEF r
  <2>4. Moved(p, r, {})
    BY <2>1, <2>3, BecomeMoves DEF LInv
  <2>5. lock'[MESSLOCK] = p /\ MessLockKept(p)
    BY <1>1, <2>1, NoOneAssumption DEF MessLockKept, Locks
  <2>6. Sends(p, r, lock') /\ TimerStays(p, r)
    BY <1>1, <2>1, <2>3, <2>5 DEF Sends, TimerStays
  <2> QED BY <2>1, <2>4, <2>5, <2>6, SenderStep
<1>7. ASSUME Idle(p), proc[p].dialogs > 0, Become(p, [proc[p] EXCEPT !.dialogs = @ - 1]),
             lock' = Release(lock, p, {MESSLOCK})
      PROVE  \E r \in Proc : /\ Moved(p, r, {}) /\ Sends(p, r, lock')
                             /\ TimerStays(p, r) /\ MessLockKept(p)
  <2> DEFINE r == [proc[p] EXCEPT !.dialogs = @ - 1]
  <2>1. proc[p].dialogs - 1 \in Nat
    BY <1>2, <1>7
  <2>2. /\ r \in Proc /\ r.phase = "idle" /\ r.reloaded = proc[p].reloaded
        /\ r.dialogs = proc[p].dialogs - 1 /\ r.amIsender = proc[p].amIsender
        /\ r.unlockTimers = proc[p].unlockTimers
    BY <1>1, <1>7, <2>1 DEF Proc, Idle
  <2>3. Become(p, r)
    BY <1>7
  <2> HIDE DEF r
  <2>4. Moved(p, r, {})
    BY <2>2, <2>3, BecomeMoves DEF LInv
  <2>5. ~proc[p].reloaded => proc[p].dialogs = 1 /\ ~proc[p].amIsender
    BY <1>1, <1>2, <1>7 DEF Sends
  <2>6. ~proc[p].reloaded => r.dialogs = 0
    BY <2>2, <2>5
  <2>7. Sends(p, r, lock') /\ TimerStays(p, r)
    BY <1>1, <2>2, <2>5, <2>6 DEF Sends, TimerStays
  <2>8. MessLockKept(p)
    BY <1>1, <1>7, ReleaseMess DEF MessLockKept
  <2> QED BY <2>2, <2>4, <2>7, <2>8
<1>8. CASE cancelMessBroadcast(p)
  <2>1. PICK r \in Proc : /\ Moved(p, r, {}) /\ Sends(p, r, lock')
                          /\ TimerStays(p, r) /\ MessLockKept(p)
    BY <1>7, <1>8 DEF cancelMessBroadcast
  <2>2. info' = info /\ due' = due
    BY <1>8 DEF cancelMessBroadcast
  <2> QED BY <2>1, <2>2, SenderStep
<1>9. CASE WrongFormat(p)
  <2>1. PICK r \in Proc : /\ Moved(p, r, {}) /\ Sends(p, r, lock')
                          /\ TimerStays(p, r) /\ MessLockKept(p)
    BY <1>7, <1>9 DEF WrongFormat
  <2>2. due' = {}
    BY <1>9 DEF WrongFormat
  <2> QED BY <2>1, <2>2, AllSendStep DEF SenderInv, SenderWaits
<1>10. CASE \E kind \in Kinds : writeMessBroadcast(p, kind)
  <2> DEFINE sent == Append(proc[p].unlockTimers, IdleProcs)
             r == [proc[p] EXCEPT !.dialogs = @ - 1, !.amIsender = TRUE,
                                  !.unlockTimers = Append(@, IdleProcs)]
  <2>1. /\ Become(p, r) /\ lock' = lock /\ due' = IdleProcs /\ info'.from = p
        /\ proc[p].phase = "idle" /\ proc[p].dialogs > 0
    BY <1>10 DEF writeMessBroadcast, Idle
  <2>2. proc[p].dialogs - 1 \in Nat
    BY <1>2, <2>1
  <2>3. /\ sent \in Seq(SUBSET Alh) /\ Len(sent) = Len(proc[p].unlockTimers) + 1
        /\ sent[Len(proc[p].unlockTimers) + 1] = IdleProcs
    <3>1. IdleProcs \in SUBSET Alh
      BY DEF IdleProcs
    <3> QED BY <1>2, <3>1, AppendProperties
  <2>4. /\ r \in Proc /\ r.phase = "idle" /\ r.reloaded = proc[p].reloaded
        /\ r.dialogs = proc[p].dialogs - 1 /\ r.amIsender /\ r.unlockTimers = sent
    BY <1>1, <2>1, <2>2, <2>3 DEF Proc
  <2> HIDE DEF r, sent
  <2>5. Moved(p, r, {})
    BY <2>1, <2>4, BecomeMoves DEF LInv
  <2>6. ~proc[p].reloaded => /\ proc[p].dialogs = 1 /\ lock[MESSLOCK] = p
                             /\ Len(proc[p].unlockTimers) = 0
    BY <1>1, <1>2, <2>1 DEF Sends
  <2>7. ~proc[p].reloaded => r.dialogs = 0 /\ Len(sent) = 1 /\ sent[1] = IdleProcs
    BY <2>3, <2>4, <2>6
  <2>8. Sends(p, r, lock') /\ MessLockKept(p)
    BY <2>1, <2>4, <2>6, <2>7 DEF Sends, MessLockKept
  <2>9. SenderWaits'
    <3>1. SendsAs(proc'[p], r, {})
      BY <2>5 DEF Moved
    <3>2. ~proc'[p].reloaded => proc'[p].amIsender /\ due' \subseteq proc'[p].unlockTimers[1]
      BY <2>1, <2>4, <2>7, <3>1 DEF SendsAs
    <3>3. info'.from \in Alh /\ proc'[info'.from] = proc'[p]
      BY <2>1
    <3> QED BY <3>2, <3>3 DEF SenderWaits
  <2> QED BY <2>5, <2>8, <2>9, AllSendStep DEF SenderInv
<1> QED BY <1>3, <1>4, <1>5, <1>6, <1>8, <1>9, <1>10 DEF Operator

\* Before the first process starts there is no message.
LEMMA InitSender == Init => SenderInv
<1>1. /\ Fresh.dialogs = 0 /\ ~Fresh.amIsender /\ ~Fresh.reloaded
      /\ Fresh.unlockTimers = <<>>
  BY DEF Fresh
<1> QED BY <1>1 DEF Init, SenderInv, AllSend, Sends, SenderWaits

\* Each step of a process, of its timers and of a crash keeps SenderInv.
LEMMA StepSender ==
  ASSUME MaxDialogs <= 1
  PROVE  LInv /\ SenderInv /\ [Next]_vars => SenderInv'
<1> SUFFICES ASSUME LInv, SenderInv, [Next]_vars PROVE SenderInv'
  OBVIOUS
<1>1. CASE Next
  <2>1. PICK p \in Alh : Load(p) \/ Timer(p) \/ Operator(p) \/ Crash(p)
    BY <1>1 DEF Next
  <2>2. CASE Load(p)
    BY <2>2, LoadSends
  <2>3. CASE Timer(p)
    BY <2>3, TimerSends
  <2>4. CASE Operator(p)
    BY <2>4, OperatorSends
  <2>5. CASE Crash(p)
    BY <2>5, EndSends DEF Crash
  <2> QED BY <2>1, <2>2, <2>3, <2>4, <2>5
<1>2. CASE UNCHANGED vars
  BY <1>2 DEF vars, SenderInv, AllSend, Sends, SenderWaits
<1> QED BY <1>1, <1>2

\* Only a dialog that sends or fails and the sender's timer change info.
LEMMA InfoChanges ==
  ASSUME [Next]_vars, info' # info
  PROVE  \E p \in Alh :
           \/ proc[p].dialogs > 0
           \/ proc[p].unlockTimers # <<>> /\ Head(proc[p].unlockTimers) = {}
<1>1. PICK p \in Alh : Load(p) \/ Timer(p) \/ Operator(p) \/ Crash(p)
  BY DEF Next, vars
<1>2. ~Load(p) /\ ~Crash(p)
  BY DEF Load, SetupConfig, LockSetup, MessSetup, broadcastMessTesting, Crash, End
<1>3. Timer(p) => messBroadcastFileUnlock(p)
  BY DEF Timer, LockTimer, MessTimer, broadcastMessTesting, notsaveProc
<1>4. Operator(p) => WrongFormat(p) \/ \E kind \in Kinds : writeMessBroadcast(p, kind)
  BY DEF Operator, Start, OpenFile, exit_quit, End, messBroadcast, cancelMessBroadcast
<1> QED BY <1>1, <1>2, <1>3, <1>4
        DEF messBroadcastFileUnlock, WrongFormat, writeMessBroadcast

(* A process that changes info is the only one that may: it is the sender  *)
(* of the message that is there, whose timer waited for every poll.        *)
LEMMA StepReachesAll ==
  ASSUME LInv, SenderInv, [Next]_vars,
         info # Empty, info' # info, \A p \in Alh : ~proc[p].reloaded
  PROVE  due = {}
<1> SUFFICES ASSUME due # {} PROVE FALSE
  OBVIOUS
<1>1. PICK p \in Alh :
        \/ proc[p].dialogs > 0
        \/ proc[p].unlockTimers # <<>> /\ Head(proc[p].unlockTimers) = {}
  BY InfoChanges
<1>2. PICK s \in Alh : s = info.from /\ proc[s].amIsender
                       /\ due \subseteq proc[s].unlockTimers[1]
  BY DEF SenderInv, SenderWaits
<1>3. Sends(s, proc[s], lock) /\ Sends(p, proc[p], lock) /\ proc[p] \in Proc
  BY DEF SenderInv, AllSend, LInv, TypeOK
<1>4. lock[MESSLOCK] = s /\ ~(proc[s].dialogs > 0)
  BY <1>2, <1>3 DEF Sends
<1>5. CASE proc[p].dialogs > 0
  <2>1. lock[MESSLOCK] = p
    BY <1>3, <1>5 DEF Sends
  <2> QED BY <1>4, <1>5, <2>1
<1>6. CASE proc[p].unlockTimers # <<>> /\ Head(proc[p].unlockTimers) = {}
  <2>1. /\ Len(proc[p].unlockTimers) # 0
        /\ Head(proc[p].unlockTimers) = proc[p].unlockTimers[1]
    <3>1. proc[p].unlockTimers \in Seq(SUBSET Alh)
      BY <1>3 DEF Proc
    <3>2. Len(proc[p].unlockTimers) # 0
      BY <1>6, <3>1, EmptySeq
    <3>3. Head(proc[p].unlockTimers) = proc[p].unlockTimers[1]
      BY <1>6, <3>1
    <3> QED BY <3>2, <3>3
  <2>2. proc[p].amIsender
    BY <1>3, <2>1 DEF Sends
  <2>3. lock[MESSLOCK] = p
    BY <1>3, <2>2 DEF Sends
  <2> QED BY <1>2, <1>4, <1>6, <2>1, <2>3
<1> QED BY <1>1, <1>5, <1>6

(* As long as nobody loads a configuration again and operators have one    *)
(* message dialog at a time, a message stays until every process that      *)
(* waited for events when it was written has read it, has died, or lost    *)
(* the sender.  With two dialogs it need not (TwoDialogs).                 *)
THEOREM MessagesReachAll == ASSUME MaxDialogs <= 1 PROVE Spec => MessageReachesAll
<1>1. LInv /\ SenderInv /\ [Next]_vars
      => [(info # Empty /\ info' # info /\ \A p \in Alh : ~proc[p].reloaded) => due = {}]_vars
  BY StepReachesAll
<1>2. LInv /\ SenderInv /\ [Next]_vars => SenderInv'
  BY StepSender
<1> QED BY <1>1, <1>2, InitLInv, StepLInv, InitSender, PTL DEF Spec, MessageReachesAll

=============================================================================
