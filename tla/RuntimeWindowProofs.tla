------------------------ MODULE RuntimeWindowProofs ------------------------
(***************************************************************************)
(* Proofs about the runtime window: who owns which timer of the toolkit,   *)
(* and what the history window shows, for all files, sessions, severities  *)
(* and any number of ids above four.                                       *)
(***************************************************************************)
EXTENDS RuntimeWindow, TLAPS

Id == TimerId \cup {NoId}
Heartbeat == [chid : {None, "up", "down"}, write : BOOLEAN, timerId : Id]
Setup ==
  [silenceForever : BOOLEAN, silenceSelectedMinutes : BOOLEAN, silenceCurrent : BOOLEAN,
   beepSevr : Sevr, highestSevr : Sevr, highestUnackSevr : Sevr, highestUnackBeepSevr : Sevr]
Ring == [Line -> Sevr \cup {Blank}]

RuntimeTypeOK ==
  /\ session \in Session
  /\ timerId \in [blink : Id, ca : Id, interval : Id]
  /\ heartbeatPV \in [MainGroup -> Heartbeat]
  /\ main \in MainGroup
  /\ chan \in [curSevr : Sevr, unackSevr : Sevr]
  /\ psetup \in Setup
  /\ lamp \in [blinking2State : BOOLEAN, blinkPixel : Sevr, color : Sevr]
  /\ area \in [managed : BOOLEAN, modified : BOOLEAN]
  /\ beat \in BOOLEAN
  /\ history \in [string : Ring, index : Line, label : Ring, shown : BOOLEAN, dropped : BOOLEAN]

----------------------------------------------------------------------------
(* The timers of the program: five kinds, each with one id at most.        *)

Blinking == <<"blinking", 0>>
Updating == <<"alCaUpdate", 0>>
Ending == <<"silenceSelectedMinutesReset", 0>>
HeartbeatOf(g) == <<"heartbeat", g>>
Kind == {Blinking, Updating, Ending, HeartbeatOf(1), HeartbeatOf(2)}

\* the kinds own the pending timers: id[k] is the timer of k, or NoId
Owns(x, id) ==
  /\ id \in [Kind -> Id]
  /\ x = [i \in DOMAIN x |-> x[i]]
  /\ DOMAIN x = {id[k] : k \in Kind} \ {NoId}
  /\ \A k \in Kind : id[k] # NoId => x[id[k]] = [proc |-> k[1], of |-> k[2]]

IdsOf(t, h) ==
  [k \in Kind |-> IF k = Blinking THEN t.blink
                  ELSE IF k = Updating THEN t.ca
                  ELSE IF k = Ending THEN t.interval ELSE h[k[2]].timerId]

TimersInv ==
  /\ Owns(xt, IdsOf(timerId, heartbeatPV))
  /\ timerId.blink # NoId /\ timerId.ca # NoId
  /\ psetup.silenceSelectedMinutes <=> timerId.interval # NoId
  /\ \A g \in MainGroup : heartbeatPV[g].timerId # NoId <=> g = main /\ Running(g)

----------------------------------------------------------------------------
(* Starting and removing a timer.                                          *)

\* Timers of two kinds differ in procedure or argument.
LEMMA KindsDiffer ==
  ASSUME NEW k \in Kind, NEW j \in Kind, k # j
  PROVE  [proc |-> k[1], of |-> k[2]] # [proc |-> j[1], of |-> j[2]]
BY DEF Kind, Blinking, Updating, Ending, HeartbeatOf

\* No timer has the id 0 that stands for "none".
LEMMA NoIdFree == NoId \notin TimerId
BY RuntimeConstants DEF NoId

(* Two kinds never share a timer.                                          *)
LEMMA OwnersDiffer ==
  ASSUME NEW x, NEW id, Owns(x, id), NEW k \in Kind, NEW j \in Kind, k # j, id[k] = id[j]
  PROVE  id[k] = NoId
<1> SUFFICES ASSUME id[k] # NoId PROVE FALSE
  OBVIOUS
<1>1. /\ x[id[k]] = [proc |-> k[1], of |-> k[2]]
      /\ x[id[j]] = [proc |-> j[1], of |-> j[2]]
  BY DEF Owns
<1> QED BY <1>1, KindsDiffer

\* XtRemoveTimeOut with the id a part keeps removes the timer of that part.
LEMMA Removed ==
  ASSUME NEW x, NEW id, Owns(x, id), NEW k \in Kind
  PROVE  Owns(XtRemoveTimeOut(x, id[k]), [id EXCEPT ![k] = NoId])
<1> DEFINE y == XtRemoveTimeOut(x, id[k])
           new == [id EXCEPT ![k] = NoId]
<1>1. new \in [Kind -> Id] /\ new[k] = NoId /\ \A j \in Kind : j # k => new[j] = id[j]
  BY DEF Owns, Id
<1>2. /\ DOMAIN y = DOMAIN x \ {id[k]} /\ y = [i \in DOMAIN y |-> y[i]]
      /\ \A i \in DOMAIN y : y[i] = x[i]
  BY DEF XtRemoveTimeOut
<1>3. \A j \in Kind : j # k /\ id[j] # NoId => id[j] # id[k]
  BY OwnersDiffer
<1> HIDE DEF y, new
<1>4. DOMAIN y = {new[j] : j \in Kind} \ {NoId}
  BY <1>1, <1>2, <1>3 DEF Owns
<1>5. ASSUME NEW j \in Kind, new[j] # NoId PROVE y[new[j]] = [proc |-> j[1], of |-> j[2]]
  <2>1. j # k /\ new[j] = id[j] /\ new[j] \in DOMAIN y
    BY <1>1, <1>4, <1>5
  <2>2. x[id[j]] = [proc |-> j[1], of |-> j[2]]
    BY <1>5, <2>1 DEF Owns
  <2> QED BY <1>2, <2>1, <2>2
<1> QED BY <1>1, <1>2, <1>4, <1>5 DEF Owns, y, new

(* Five kinds, one of them without a timer: an id is free.                 *)
LEMMA IdFree ==
  ASSUME NEW x, NEW id, Owns(x, id), NEW k \in Kind, id[k] = NoId
  PROVE  NewId(x) \in TimerId /\ NewId(x) \notin DOMAIN x
<1>1. PICK a, b, c, d \in Kind : Kind = {a, b, c, d, k}
  BY DEF Kind
<1>2. DOMAIN x \subseteq {id[a], id[b], id[c], id[d]}
  BY <1>1 DEF Owns
<1>3. \E i \in TimerId : i \notin {id[a], id[b], id[c], id[d]}
  <2>1. PICK e \in TimerId : TRUE
    BY RuntimeConstants
  <2> DEFINE T(j) == IF id[j] \in TimerId THEN id[j] ELSE e
  <2>2. \E i \in TimerId : i \notin {T(a), T(b), T(c), T(d)}
    BY <2>1, RuntimeConstants
  <2> QED BY <2>2
<1>4. \E i \in TimerId : i \notin DOMAIN x
  BY <1>2, <1>3
<1> QED BY <1>4 DEF NewId

\* XtAppAddTimeOut, whichever free id the toolkit gives out.
LEMMA Added ==
  ASSUME NEW x, NEW id, Owns(x, id), NEW k \in Kind, id[k] = NoId
  PROVE  /\ NewId(x) \in TimerId
         /\ Owns(XtAppAddTimeOut(x, NewId(x), k[1], k[2]), [id EXCEPT ![k] = NewId(x)])
<1> DEFINE n == NewId(x)
           y == XtAppAddTimeOut(x, n, k[1], k[2])
           new == [id EXCEPT ![k] = n]
<1>1. n \in TimerId /\ n \notin DOMAIN x /\ n # NoId
  BY IdFree, NoIdFree
<1>2. new \in [Kind -> Id] /\ new[k] = n /\ \A j \in Kind : j # k => new[j] = id[j]
  BY <1>1 DEF Owns, Id
<1>3. /\ DOMAIN y = DOMAIN x \cup {n} /\ y = [i \in DOMAIN y |-> y[i]]
      /\ \A i \in DOMAIN x : i # n => y[i] = x[i]
      /\ y[n] = [proc |-> k[1], of |-> k[2]]
  BY DEF XtAppAddTimeOut
<1> HIDE DEF n, y, new
<1>4. DOMAIN y = {new[j] : j \in Kind} \ {NoId}
  BY <1>1, <1>2, <1>3 DEF Owns
<1>5. ASSUME NEW j \in Kind, new[j] # NoId PROVE y[new[j]] = [proc |-> j[1], of |-> j[2]]
  <2>1. CASE j = k
    BY <1>2, <1>3, <2>1
  <2>2. CASE j # k
    <3>1. new[j] = id[j] /\ id[j] \in DOMAIN x
      BY <1>2, <1>5, <2>2 DEF Owns
    <3>2. x[id[j]] = [proc |-> j[1], of |-> j[2]]
      BY <1>5, <3>1 DEF Owns
    <3> QED BY <1>1, <1>3, <3>1, <3>2
  <2> QED BY <2>1, <2>2
<1>6. Owns(y, new)
  BY <1>2, <1>3, <1>4, <1>5 DEF Owns
<1> QED BY <1>1, <1>6 DEF n, y, new

(* A timer of kind k that runs out is the one that k owns.                 *)
LEMMA OwnRunsOut ==
  ASSUME NEW id, Owns(xt, id), NEW k \in Kind, NEW i, RunsOut(i, k[1], k[2])
  PROVE  i = id[k] /\ id[k] # NoId
<1>1. i \in DOMAIN xt /\ xt[i] = [proc |-> k[1], of |-> k[2]]
  BY DEF RunsOut
<1>2. PICK j \in Kind : i = id[j] /\ id[j] # NoId
  BY <1>1 DEF Owns
<1>3. xt[i] = [proc |-> j[1], of |-> j[2]]
  BY <1>2 DEF Owns
<1> QED BY <1>1, <1>2, <1>3, KindsDiffer

----------------------------------------------------------------------------
(* The helpers of the timers, for the ids that go with them.               *)

\* The five kinds of timers.
LEMMA KindsIn ==
  /\ Blinking \in Kind /\ Updating \in Kind /\ Ending \in Kind
  /\ \A g \in MainGroup : HeartbeatOf(g) \in Kind
BY DEF Kind, MainGroup

\* The id of each kind, and where the program keeps it.
LEMMA IdsOfValues ==
  ASSUME NEW t, NEW h
  PROVE  /\ IdsOf(t, h)[Blinking] = t.blink /\ IdsOf(t, h)[Updating] = t.ca
         /\ IdsOf(t, h)[Ending] = t.interval
         /\ \A g \in MainGroup : IdsOf(t, h)[HeartbeatOf(g)] = h[g].timerId
BY DEF IdsOf, Kind, Blinking, Updating, Ending, HeartbeatOf, MainGroup

IdTypes(t, h) ==
  /\ t \in [blink : Id, ca : Id, interval : Id]
  /\ h \in [MainGroup -> Heartbeat]

\* Each is an id or none.
LEMMA IdsOfType ==
  ASSUME NEW t, NEW h, IdTypes(t, h)
  PROVE  IdsOf(t, h) \in [Kind -> Id]
<1>1. ASSUME NEW k \in Kind PROVE IdsOf(t, h)[k] \in Id
  <2>1. CASE k \in {Blinking, Updating, Ending}
    BY <2>1, IdsOfValues DEF IdTypes
  <2>2. CASE k = HeartbeatOf(1)
    BY <2>2, IdsOfValues DEF IdTypes, Heartbeat, MainGroup
  <2>3. CASE k = HeartbeatOf(2)
    BY <2>3, IdsOfValues DEF IdTypes, Heartbeat, MainGroup
  <2> QED BY <2>1, <2>2, <2>3 DEF Kind
<1>2. IdsOf(t, h) = [k \in Kind |-> IdsOf(t, h)[k]]
  BY DEF IdsOf
<1> QED BY <1>1, <1>2

(* One kind gets another id.                                               *)
LEMMA ChangedIds ==
  ASSUME NEW t, NEW h, NEW t1, NEW h1, IdTypes(t, h), IdTypes(t1, h1),
         NEW k \in Kind, NEW i \in Id,
         IdsOf(t1, h1)[k] = i,
         \A j \in Kind : j # k => IdsOf(t1, h1)[j] = IdsOf(t, h)[j]
  PROVE  IdsOf(t1, h1) = [IdsOf(t, h) EXCEPT ![k] = i]
<1> DEFINE F == IdsOf(t1, h1)
           G == IdsOf(t, h)
<1>1. F \in [Kind -> Id] /\ G \in [Kind -> Id]
  BY IdsOfType
<1> HIDE DEF F, G
<1>2. [G EXCEPT ![k] = i] \in [Kind -> Id]
  BY <1>1
<1>3. \A j \in Kind : F[j] = [G EXCEPT ![k] = i][j]
  BY <1>1 DEF F, G
<1>4. F = [G EXCEPT ![k] = i]
  BY <1>1, <1>2, <1>3
<1> QED BY <1>4 DEF F, G

\* A change of one id leaves those of the other kinds.
LEMMA OtherKinds ==
  ASSUME NEW t, NEW h, NEW t1, NEW h1, NEW k \in Kind,
         k # Blinking => t1.blink = t.blink, k # Updating => t1.ca = t.ca,
         k # Ending => t1.interval = t.interval,
         \A g \in MainGroup : k # HeartbeatOf(g) => h1[g].timerId = h[g].timerId
  PROVE  \A j \in Kind : j # k => IdsOf(t1, h1)[j] = IdsOf(t, h)[j]
<1> SUFFICES ASSUME NEW j \in Kind, j # k PROVE IdsOf(t1, h1)[j] = IdsOf(t, h)[j]
  OBVIOUS
<1>1. CASE j \in {Blinking, Updating, Ending}
  BY <1>1, IdsOfValues
<1>2. ASSUME NEW g \in MainGroup, j = HeartbeatOf(g) PROVE IdsOf(t1, h1)[j] = IdsOf(t, h)[j]
  BY <1>2, IdsOfValues
<1>3. j \in {Blinking, Updating, Ending} \/ \E g \in MainGroup : j = HeartbeatOf(g)
  BY DEF Kind, MainGroup
<1> QED BY <1>1, <1>2, <1>3

\* Assigning blinkTimeoutId.
LEMMA BlinkIds ==
  ASSUME NEW t, NEW h, IdTypes(t, h), NEW i \in Id
  PROVE  IdsOf([t EXCEPT !.blink = i], h) = [IdsOf(t, h) EXCEPT ![Blinking] = i]
<1> DEFINE t1 == [t EXCEPT !.blink = i]
<1>1. t1.blink = i /\ t1.ca = t.ca /\ t1.interval = t.interval /\ IdTypes(t1, h)
  BY DEF IdTypes
<1> HIDE DEF t1
<1>2. IdsOf(t1, h) = [IdsOf(t, h) EXCEPT ![Blinking] = i]
  BY <1>1, IdsOfValues, KindsIn, OtherKinds, ChangedIds
<1> QED BY <1>2 DEF t1

\* Assigning caTimeoutId.
LEMMA CaIds ==
  ASSUME NEW t, NEW h, IdTypes(t, h), NEW i \in Id
  PROVE  IdsOf([t EXCEPT !.ca = i], h) = [IdsOf(t, h) EXCEPT ![Updating] = i]
<1> DEFINE t1 == [t EXCEPT !.ca = i]
<1>1. t1.ca = i /\ t1.blink = t.blink /\ t1.interval = t.interval /\ IdTypes(t1, h)
  BY DEF IdTypes
<1> HIDE DEF t1
<1>2. IdsOf(t1, h) = [IdsOf(t, h) EXCEPT ![Updating] = i]
  BY <1>1, IdsOfValues, KindsIn, OtherKinds, ChangedIds
<1> QED BY <1>2 DEF t1

\* Assigning intervalId of the silence.
LEMMA IntervalIds ==
  ASSUME NEW t, NEW h, IdTypes(t, h), NEW i \in Id
  PROVE  IdsOf([t EXCEPT !.interval = i], h) = [IdsOf(t, h) EXCEPT ![Ending] = i]
<1> DEFINE t1 == [t EXCEPT !.interval = i]
<1>1. t1.interval = i /\ t1.blink = t.blink /\ t1.ca = t.ca /\ IdTypes(t1, h)
  BY DEF IdTypes
<1> HIDE DEF t1
<1>2. IdsOf(t1, h) = [IdsOf(t, h) EXCEPT ![Ending] = i]
  BY <1>1, IdsOfValues, KindsIn, OtherKinds, ChangedIds
<1> QED BY <1>2 DEF t1

\* Assigning the id of a main group's heartbeat.
LEMMA HeartbeatIds ==
  ASSUME NEW t, NEW h, NEW h1, IdTypes(t, h), IdTypes(t, h1), NEW g \in MainGroup,
         \A j \in MainGroup : j # g => h1[j] = h[j]
  PROVE  IdsOf(t, h1) = [IdsOf(t, h) EXCEPT ![HeartbeatOf(g)] = h1[g].timerId]
<1>1. h1[g].timerId \in Id
  BY DEF IdTypes, Heartbeat
<1>2. IdsOf(t, h1)[HeartbeatOf(g)] = h1[g].timerId
  BY IdsOfValues
<1> QED BY <1>1, <1>2, KindsIn, OtherKinds, ChangedIds

----------------------------------------------------------------------------
(* What the procedures of the timers do with the ids.                      *)

\* A part that removes its timer and starts it again has one timer.
LEMMA Restarted ==
  ASSUME NEW x, NEW id, Owns(x, id), NEW k \in Kind, NEW y, y = XtRemoveTimeOut(x, id[k])
  PROVE  /\ NewId(y) \in TimerId
         /\ Owns(XtAppAddTimeOut(y, NewId(y), k[1], k[2]), [id EXCEPT ![k] = NewId(y)])
<1> DEFINE none == [id EXCEPT ![k] = NoId]
           n == NewId(y)
<1>1. Owns(y, none)
  BY Removed
<1>2. id \in [Kind -> Id]
  BY DEF Owns
<1>3. none[k] = NoId
  BY <1>2
<1>4. n \in TimerId /\ Owns(XtAppAddTimeOut(y, n, k[1], k[2]), [none EXCEPT ![k] = n])
  BY <1>1, <1>3, Added
<1>5. [none EXCEPT ![k] = n] = [id EXCEPT ![k] = n]
  BY <1>2
<1> QED BY <1>4, <1>5

(* The state of the timers that the silence and the lamp work on.          *)
Sound(t, h) ==
  /\ t = [xt |-> t.xt, timerId |-> t.timerId, psetup |-> t.psetup]
  /\ IdTypes(t.timerId, h) /\ Owns(t.xt, IdsOf(t.timerId, h))
  /\ t.timerId.blink # NoId /\ t.timerId.ca # NoId
  /\ t.psetup \in Setup
  /\ t.psetup.silenceSelectedMinutes <=> t.timerId.interval # NoId

\* icon_update starts the blinking again, and leaves the silence alone.
LEMMA IconUpdateSound ==
  ASSUME NEW t, NEW h, Sound(t, h)
  PROVE  Sound(icon_update(t), h) /\ icon_update(t).psetup = t.psetup
<1> DEFINE x == XtRemoveTimeOut(t.xt, t.timerId.blink)
           n == NewId(x)
           ids == [t.timerId EXCEPT !.blink = n]
           y == XtAppAddTimeOut(x, n, "blinking", 0)
           u == [xt |-> y, timerId |-> ids, psetup |-> t.psetup]
<1>1. IdsOf(t.timerId, h)[Blinking] = t.timerId.blink /\ Blinking \in Kind
  BY IdsOfValues, KindsIn
<1>2. n \in TimerId /\ Owns(y, [IdsOf(t.timerId, h) EXCEPT ![Blinking] = n])
  <2>1. Blinking[1] = "blinking" /\ Blinking[2] = 0
    BY DEF Blinking
  <2> QED BY <1>1, <2>1, Restarted DEF Sound
<1>3. icon_update(t) = u
  BY DEF icon_update
<1> HIDE DEF x, n, y
<1>4. Owns(y, IdsOf(ids, h)) /\ n # NoId
  BY <1>2, BlinkIds, NoIdFree DEF Sound, Id
<1>5. IdTypes(ids, h) /\ ids.blink = n /\ ids.ca = t.timerId.ca
      /\ ids.interval = t.timerId.interval
  BY <1>2 DEF Sound, IdTypes, Id
<1> HIDE DEF ids
<1>6. Sound(u, h)
  BY <1>4, <1>5 DEF Sound
<1> QED BY <1>3, <1>6

(* "Silence for ... Minutes" starts its timer, and removes it.             *)
LEMMA CallbackSound ==
  ASSUME NEW t, NEW h, Sound(t, h)
  PROVE  /\ Sound(silenceSelectedMinutes_callback(t), h)
         /\ t.psetup.silenceSelectedMinutes =>
              silenceSelectedMinutes_callback(t).xt = XtRemoveTimeOut(t.xt, t.timerId.interval)
<1> DEFINE silenced == t.psetup.silenceSelectedMinutes
           id == IdsOf(t.timerId, h)
<1>1. id[Ending] = t.timerId.interval /\ Ending \in Kind /\ Owns(t.xt, id)
      /\ Ending[1] = "silenceSelectedMinutesReset" /\ Ending[2] = 0
  BY IdsOfValues, KindsIn DEF Sound, Ending
<1>2. CASE silenced
  <2> DEFINE ids == [t.timerId EXCEPT !.interval = NoId]
             p == [t.psetup EXCEPT !.silenceSelectedMinutes = FALSE]
             x == XtRemoveTimeOut(t.xt, t.timerId.interval)
  <2>1. silenceSelectedMinutes_callback(t) = [psetup |-> p, xt |-> x, timerId |-> ids]
    BY <1>2 DEF silenceSelectedMinutes_callback
  <2>2. Owns(x, [id EXCEPT ![Ending] = NoId])
    BY <1>1, Removed
  <2>3. Owns(x, IdsOf(ids, h))
    BY <2>2, IntervalIds DEF Sound, Id
  <2>4. /\ IdTypes(ids, h) /\ ids.blink = t.timerId.blink /\ ids.ca = t.timerId.ca
        /\ ids.interval = NoId
    BY DEF Sound, IdTypes, Id
  <2>5. p \in Setup /\ ~p.silenceSelectedMinutes
    BY DEF Sound, Setup
  <2> HIDE DEF ids, p, x
  <2>6. Sound([psetup |-> p, xt |-> x, timerId |-> ids], h)
    BY <2>3, <2>4, <2>5 DEF Sound
  <2> QED BY <2>1, <2>6 DEF x
<1>3. CASE ~silenced
  <2> DEFINE n == NewId(t.xt)
             ids == [t.timerId EXCEPT !.interval = n]
             p == [t.psetup EXCEPT !.silenceSelectedMinutes = TRUE]
             x == XtAppAddTimeOut(t.xt, n, "silenceSelectedMinutesReset", 0)
  <2>1. silenceSelectedMinutes_callback(t) = [psetup |-> p, xt |-> x, timerId |-> ids]
    BY <1>3 DEF silenceSelectedMinutes_callback
  <2>2. id[Ending] = NoId
    BY <1>1, <1>3 DEF Sound
  <2>3. n \in TimerId /\ Owns(x, [id EXCEPT ![Ending] = n])
    BY <1>1, <2>2, Added
  <2> HIDE DEF n, x
  <2>4. Owns(x, IdsOf(ids, h)) /\ n # NoId
    BY <2>3, IntervalIds, NoIdFree DEF Sound, Id
  <2>5. /\ IdTypes(ids, h) /\ ids.blink = t.timerId.blink /\ ids.ca = t.timerId.ca
        /\ ids.interval = n
    BY <2>3 DEF Sound, IdTypes, Id
  <2>6. p \in Setup /\ p.silenceSelectedMinutes
    BY DEF Sound, Setup
  <2> HIDE DEF ids, p
  <2>7. Sound([psetup |-> p, xt |-> x, timerId |-> ids], h)
    BY <2>4, <2>5, <2>6 DEF Sound
  <2> QED BY <1>3, <2>1, <2>7
<1> QED BY <1>2, <1>3

\* silenceSelectedMinutesReset ends the silence and its timer.
LEMMA ResetSound ==
  ASSUME NEW t, NEW h, Sound(t, h)
  PROVE  Sound(silenceSelectedMinutesReset(t), h)
BY CallbackSound DEF silenceSelectedMinutesReset

(* A heartbeat has a timer as long as its PV can be written.               *)
HeartbeatOwns(r, id, g, b) ==
  /\ r[1] \in Heartbeat /\ r[1].chid = b.chid /\ r[1].write = b.write
  /\ Owns(r[2], [id EXCEPT ![HeartbeatOf(g)] = r[1].timerId])
  /\ r[1].timerId # NoId <=> b.chid = "up" /\ (b.write \/ ~Puts)

\* The heartbeat starts or stops as connection and rights say (heartbeat.c).
LEMMA StartOrStopOwns ==
  ASSUME NEW x, NEW id, Owns(x, id), NEW g \in MainGroup, NEW b \in Heartbeat,
         id[HeartbeatOf(g)] = b.timerId
  PROVE  HeartbeatOwns(StartOrStop(<<b, x>>, g), id, g, b)
<1> DEFINE k == HeartbeatOf(g)
           y == XtRemoveTimeOut(x, b.timerId)
           n == NewId(y)
           on == [b EXCEPT !.timerId = n]
           off == [b EXCEPT !.timerId = NoId]
<1>1. k \in Kind /\ k[1] = "heartbeat" /\ k[2] = g
  BY KindsIn DEF HeartbeatOf
<1>2. n \in TimerId /\ Owns(XtAppAddTimeOut(y, n, "heartbeat", g), [id EXCEPT ![k] = n])
  BY <1>1, Restarted
<1>3. Owns(y, [id EXCEPT ![k] = NoId])
  BY <1>1, Removed
<1> HIDE DEF k, n, y
<1>4. on \in Heartbeat /\ on.chid = b.chid /\ on.write = b.write /\ on.timerId = n /\ n # NoId
  BY <1>2, NoIdFree DEF Heartbeat, Id
<1>5. off \in Heartbeat /\ off.chid = b.chid /\ off.write = b.write /\ off.timerId = NoId
  BY DEF Heartbeat, Id
<1>6. CASE b.chid = "up" /\ (b.write \/ ~Puts)
  <2>1. StartOrStop(<<b, x>>, g) = <<on, XtAppAddTimeOut(y, n, "heartbeat", g)>>
    BY <1>6 DEF StartOrStop, alHeartbeatStart, n, y
  <2> DEFINE rec == on
             z == XtAppAddTimeOut(y, n, "heartbeat", g)
  <2> HIDE DEF rec, z
  <2>2. Owns(z, [id EXCEPT ![k] = rec.timerId])
    BY <1>2, <1>4 DEF rec, z
  <2>3. rec \in Heartbeat /\ rec.chid = b.chid /\ rec.write = b.write /\ rec.timerId # NoId
    BY <1>4 DEF rec
  <2>4. HeartbeatOwns(<<rec, z>>, id, g, b)
    BY <1>6, <2>2, <2>3 DEF HeartbeatOwns, k
  <2> QED BY <2>1, <2>4 DEF rec, z
<1>7. CASE ~(b.chid = "up" /\ (b.write \/ ~Puts))
  <2>1. StartOrStop(<<b, x>>, g) = <<off, y>>
    BY <1>7 DEF StartOrStop, alHeartbeatStop, y
  <2> DEFINE rec == off
  <2> HIDE DEF rec
  <2>2. Owns(y, [id EXCEPT ![k] = rec.timerId])
    BY <1>3, <1>5 DEF rec
  <2>3. rec \in Heartbeat /\ rec.chid = b.chid /\ rec.write = b.write /\ rec.timerId = NoId
    BY <1>5 DEF rec
  <2>4. HeartbeatOwns(<<rec, y>>, id, g, b)
    BY <1>7, <2>2, <2>3 DEF HeartbeatOwns, k
  <2> QED BY <2>1, <2>4 DEF rec
<1> QED BY <1>6, <1>7

----------------------------------------------------------------------------
(* The history window.                                                     *)

History == [string : Ring, index : Line, label : Ring, shown : BOOLEAN, dropped : BOOLEAN]

Shown(h, modified) == h.shown /\ ~modified /\ ~h.dropped => h.label = InOrder(h)

\* The index of the ring stays in it.
LEMMA NextLine ==
  ASSUME NEW i \in Nat
  PROVE  i % HistorySize \in Line
<1>1. HistorySize \in Nat \ {0}
  BY RuntimeConstants
<1> QED BY <1>1 DEF Line

\* The lines in the order they came are as many as the ring has.
LEMMA InOrderType ==
  ASSUME NEW h \in History
  PROVE  InOrder(h) \in Ring
<1>1. h.string \in [Line -> Sevr \cup {Blank}] /\ h.index \in Nat
  BY RuntimeConstants DEF History, Ring, Line
<1>2. \A i \in Line : h.index + i \in Nat
  BY <1>1, RuntimeConstants DEF Line
<1>3. \A i \in Line : (h.index + i) % HistorySize \in Line
  BY <1>2, NextLine
<1> QED BY <1>1, <1>3 DEF InOrder, Ring

\* An update makes the window show the ring.
LEMMA WindowUpdated ==
  ASSUME NEW h \in History
  PROVE  /\ updateCurrentAlarmWindow(h) \in History
         /\ \A modified \in BOOLEAN : Shown(updateCurrentAlarmWindow(h), modified)
<1> DEFINE u == [h EXCEPT !.label = InOrder(h), !.dropped = FALSE]
<1>1. CASE h.shown
  <2>1. updateCurrentAlarmWindow(h) = u
    BY <1>1 DEF updateCurrentAlarmWindow
  <2>2. u \in History /\ u.label = InOrder(h) /\ u.string = h.string /\ u.index = h.index
    BY InOrderType DEF History
  <2>3. InOrder(u) = InOrder(h)
    BY <2>2 DEF InOrder
  <2> HIDE DEF u
  <2> QED BY <2>1, <2>2, <2>3 DEF Shown
<1>2. CASE ~h.shown
  BY <1>2 DEF updateCurrentAlarmWindow, Shown
<1> QED BY <1>1, <1>2

\* An alarm enters the ring.
LEMMA StringAdded ==
  ASSUME NEW h \in History, NEW sevr \in Sevr
  PROVE  updateCurrentAlarmString(h, sevr) \in History
<1> DEFINE string == [h.string EXCEPT ![h.index] = sevr]
           index == (h.index + 1) % HistorySize
<1>1. string \in Ring
  BY DEF History, Ring
<1>2. index \in Line
  <2>1. h.index + 1 \in Nat
    BY RuntimeConstants DEF History, Line
  <2> QED BY <2>1, NextLine
<1>3. updateCurrentAlarmString(h, sevr) = [h EXCEPT !.string = string, !.index = index]
  BY DEF updateCurrentAlarmString, History
<1> HIDE DEF string, index
<1> QED BY <1>1, <1>2, <1>3 DEF History

\* Opening the window shows the ring.
LEMMA HistoryToggled ==
  ASSUME NEW h \in History
  PROVE  /\ currentAlarmHistoryWindow(h) \in History
         /\ \A modified \in BOOLEAN : Shown(currentAlarmHistoryWindow(h), modified)
<1> DEFINE u == [h EXCEPT !.shown = ~h.shown]
<1>1. u \in History
  BY DEF History
<1> HIDE DEF u
<1>2. currentAlarmHistoryWindow(h) = updateCurrentAlarmWindow(u)
  BY DEF currentAlarmHistoryWindow, u
<1> QED BY <1>1, <1>2, WindowUpdated

\* Loading another file empties ring and window.
LEMMA HistoryReset ==
  ASSUME NEW h \in History
  PROVE  /\ resetCurrentAlarmWindow(h) \in History
         /\ \A modified \in BOOLEAN : Shown(resetCurrentAlarmWindow(h), modified)
<1> DEFINE string == [i \in Line |-> Blank]
           u == [h EXCEPT !.string = string, !.index = 0]
<1>1. string \in Ring /\ 0 \in Line
  BY RuntimeConstants DEF Ring, Line
<1> HIDE DEF string
<1>2. u \in History
  BY <1>1 DEF History
<1>3. resetCurrentAlarmWindow(h) = updateCurrentAlarmWindow(u)
  BY DEF resetCurrentAlarmWindow, string
<1> HIDE DEF u
<1> QED BY <1>2, <1>3, WindowUpdated

\* An update that comes while the area is not managed is remembered as dropped.
LEMMA HistoryDropped ==
  ASSUME NEW h \in History, NEW u, u = [h EXCEPT !.dropped = @ \/ h.shown]
  PROVE  u \in History /\ \A modified \in BOOLEAN : Shown(u, modified)
<1>1. u \in History /\ u.shown = h.shown /\ u.dropped = (h.dropped \/ h.shown)
  BY DEF History
<1> QED BY <1>1 DEF Shown

----------------------------------------------------------------------------
(* The invariant, and what an action has to keep.                          *)

RuntimeInv == RuntimeTypeOK /\ TimersInv /\ HistoryShown

\* The invariant says that timers and silence are sound now.
LEMMA NowSound ==
  ASSUME RuntimeInv
  PROVE  Sound(Now, heartbeatPV)
BY DEF RuntimeInv, RuntimeTypeOK, TimersInv, Sound, Now, IdTypes

RestTypeOK ==
  /\ session \in Session /\ main \in MainGroup
  /\ chan \in [curSevr : Sevr, unackSevr : Sevr] /\ psetup \in Setup
  /\ lamp \in [blinking2State : BOOLEAN, blinkPixel : Sevr, color : Sevr]
  /\ area \in [managed : BOOLEAN, modified : BOOLEAN]
  /\ beat \in BOOLEAN /\ history \in History

\* The type invariant is that of the ids and that of the rest.
LEMMA TypesTogether == RuntimeTypeOK <=> RestTypeOK /\ IdTypes(timerId, heartbeatPV)
BY DEF RuntimeTypeOK, RestTypeOK, IdTypes, History

\* HistoryShown as a statement about a history and a flag.
LEMMA HistoryShownIs == HistoryShown <=> Shown(history, area.modified)
BY DEF HistoryShown, Shown

\* The invariant taken apart.
LEMMA InvParts ==
  ASSUME RuntimeInv
  PROVE  RestTypeOK /\ IdTypes(timerId, heartbeatPV) /\ Shown(history, area.modified)
BY TypesTogether, HistoryShownIs DEF RuntimeInv

\* The invariant of the next state from its parts.
LEMMA InvTogether ==
  ASSUME RestTypeOK', Shown(history, area.modified)', NEW t, Becomes(t), Sound(t, heartbeatPV'),
         \A g \in MainGroup : heartbeatPV'[g].timerId # NoId <=> g = main' /\ Running(g)'
  PROVE  RuntimeInv'
<1>1. xt' = t.xt /\ timerId' = t.timerId /\ psetup' = t.psetup
  BY DEF Becomes
<1>2. TimersInv' /\ IdTypes(timerId', heartbeatPV')
  BY <1>1 DEF Sound, TimersInv
<1>3. RuntimeTypeOK'
  BY <1>2 DEF RuntimeTypeOK, RestTypeOK, IdTypes, History
<1>4. HistoryShown'
  BY DEF HistoryShown, Shown
<1> QED BY <1>2, <1>3, <1>4 DEF RuntimeInv

(* Actions that start and stop no timer.                                   *)
LEMMA QuietKeeps ==
  ASSUME RuntimeInv, UNCHANGED <<session, timers, heartbeatPV, main>>,
         RestTypeOK', Shown(history, area.modified)',
         psetup'.silenceSelectedMinutes = psetup.silenceSelectedMinutes
  PROVE  RuntimeInv'
<1>1. TimersInv'
  BY DEF RuntimeInv, TimersInv, timers, Running, Puts
<1>2. RuntimeTypeOK'
  BY DEF RuntimeInv, RuntimeTypeOK, RestTypeOK, timers, History
<1>3. HistoryShown'
  BY DEF HistoryShown, Shown
<1> QED BY <1>1, <1>2, <1>3 DEF RuntimeInv

----------------------------------------------------------------------------
(* Each action.                                                            *)

(* The buttons and menus of silences without a timer, and the beep         *)
(* severity.                                                               *)
LEMMA SetupKeeps ==
  ASSUME RuntimeInv,
         \/ SilenceCurrentButton \/ silenceForeverChangeState
         \/ \E sevr \in session.sevrs : BeepSeverityMenu(sevr)
  PROVE  RuntimeInv'
<1>1. RestTypeOK /\ Shown(history, area.modified)
  BY InvParts
<1>2. UNCHANGED <<session, timers, heartbeatPV, main, chan, lamp, area, beat, history>>
  BY DEF SilenceCurrentButton, silenceForeverChangeState, BeepSeverityMenu
<1>3. psetup' \in Setup /\ psetup'.silenceSelectedMinutes = psetup.silenceSelectedMinutes
  <2>1. psetup \in Setup
    BY <1>1 DEF RestTypeOK
  <2>2. CASE SilenceCurrentButton
    BY <2>1, <2>2 DEF SilenceCurrentButton, Setup
  <2>3. CASE silenceForeverChangeState
    BY <2>1, <2>3 DEF silenceForeverChangeState, Setup
  <2>4. ASSUME NEW sevr \in session.sevrs, BeepSeverityMenu(sevr)
        PROVE  psetup' \in Setup /\ psetup'.silenceSelectedMinutes = psetup.silenceSelectedMinutes
    <3>1. sevr \in Sevr
      BY <1>1, RuntimeConstants DEF RestTypeOK
    <3> QED BY <2>1, <2>4, <3>1 DEF BeepSeverityMenu, Setup
  <2> QED BY <2>2, <2>3, <2>4
<1>4. RestTypeOK'
  BY <1>1, <1>2, <1>3 DEF RestTypeOK
<1>5. Shown(history, area.modified)'
  BY <1>1, <1>2 DEF Shown, InOrder
<1> QED BY <1>2, <1>3, <1>4, <1>5, QuietKeeps

(* The channel, the history menu and the "File Open" dialog.               *)
LEMMA AlarmKeeps ==
  ASSUME RuntimeInv, NEW sevr \in session.sevrs, NEW acks \in session.sevrs, alNewEvent(sevr, acks)
  PROVE  RuntimeInv'
<1>1. RestTypeOK
  BY InvParts
<1>2. sevr \in Sevr /\ acks \in Sevr
  BY <1>1, RuntimeConstants DEF RestTypeOK
<1>3. /\ UNCHANGED <<session, timers, heartbeatPV, main, lamp, beat>>
      /\ area' = [area EXCEPT !.modified = TRUE]
      /\ history' \in {history, updateCurrentAlarmString(history, sevr)}
      /\ psetup' \in {psetup, silenceCurrentReset(psetup)}
      /\ chan'.curSevr = sevr /\ chan'.unackSevr \in {sevr, acks, chan.unackSevr}
      /\ chan' = [curSevr |-> sevr, unackSevr |-> chan'.unackSevr]
  BY DEF alNewEvent
<1>4. /\ psetup' \in Setup /\ psetup'.silenceSelectedMinutes = psetup.silenceSelectedMinutes
  BY <1>1, <1>3 DEF RestTypeOK, Setup, silenceCurrentReset
<1>5. history' \in History
  BY <1>1, <1>2, <1>3, StringAdded DEF RestTypeOK
<1>6. /\ area' \in [managed : BOOLEAN, modified : BOOLEAN] /\ area'.modified
      /\ chan' \in [curSevr : Sevr, unackSevr : Sevr]
  BY <1>1, <1>2, <1>3 DEF RestTypeOK
<1>7. RestTypeOK'
  BY <1>1, <1>3, <1>4, <1>5, <1>6 DEF RestTypeOK
<1>8. Shown(history, area.modified)'
  BY <1>6 DEF Shown
<1> QED BY <1>3, <1>4, <1>7, <1>8, QuietKeeps

\* A file without a group that is chosen in the dialog and has no heartbeat.
FileRejected ==
  \E file \in session.files, chid \in {"up", "down"}, write \in BOOLEAN :
    ~file.heartbeat /\ setupConfigFails(file, chid, write)

\* The callbacks that touch no timer keep the invariant.
LEMMA WindowsKeep ==
  ASSUME RuntimeInv,
         ackChan \/ HistoryMenu \/ MenuFileOpen \/ fileCancelCallback
         \/ FileRejected
  PROVE  RuntimeInv'
<1>1. RestTypeOK /\ Shown(history, area.modified)
  BY InvParts
<1>2. UNCHANGED <<session, timers, heartbeatPV, main, psetup, lamp, beat>>
  BY DEF ackChan, HistoryMenu, MenuFileOpen, fileCancelCallback, FileRejected, setupConfigFails, timers
<1>3. CASE ackChan
  <2>1. /\ area' \in [managed : BOOLEAN, modified : BOOLEAN] /\ area'.modified
        /\ chan' \in [curSevr : Sevr, unackSevr : Sevr] /\ history' = history
    BY <1>1, <1>3, RuntimeConstants DEF ackChan, RestTypeOK, NO_ALARM
  <2>2. RestTypeOK'
    BY <1>1, <1>2, <2>1 DEF RestTypeOK
  <2>3. Shown(history, area.modified)'
    BY <2>1 DEF Shown
  <2> QED BY <1>2, <2>2, <2>3, QuietKeeps
<1>4. CASE HistoryMenu
  <2>1. history' = currentAlarmHistoryWindow(history) /\ UNCHANGED <<area, chan>>
    BY <1>4 DEF HistoryMenu
  <2>2. RestTypeOK'
    BY <1>1, <1>2, <2>1, HistoryToggled DEF RestTypeOK
  <2>3. Shown(history', area.modified)
    BY <1>1, <2>1, HistoryToggled DEF RestTypeOK
  <2>4. Shown(history, area.modified)'
    BY <2>1, <2>3 DEF Shown, InOrder
  <2> QED BY <1>2, <2>2, <2>4, QuietKeeps
<1>5. CASE MenuFileOpen \/ fileCancelCallback \/ FileRejected
  <2>1. /\ area' \in [managed : BOOLEAN, modified : BOOLEAN]
        /\ area'.modified = area.modified /\ UNCHANGED <<chan, history>>
    BY <1>1, <1>5 DEF MenuFileOpen, fileCancelCallback, FileRejected, setupConfigFails, RestTypeOK
  <2>2. RestTypeOK'
    BY <1>1, <1>2, <2>1 DEF RestTypeOK
  <2>3. Shown(history, area.modified)'
    BY <1>1, <2>1 DEF Shown, InOrder
  <2> QED BY <1>2, <2>2, <2>3, QuietKeeps
<1> QED BY <1>3, <1>4, <1>5

(* A timer that runs out and starts itself again.                          *)
LEMMA RunsAgain ==
  ASSUME NEW id, Owns(xt, id), NEW k \in Kind, NEW i, RunsOut(i, k[1], k[2]),
         NEW x, x = XtRemoveTimeOut(xt, i)
  PROVE  /\ NewId(x) \in TimerId
         /\ Owns(XtAppAddTimeOut(x, NewId(x), k[1], k[2]), [id EXCEPT ![k] = NewId(x)])
<1>1. i = id[k]
  BY OwnRunsOut
<1>2. x = XtRemoveTimeOut(xt, id[k])
  BY <1>1
<1> QED BY <1>2, Restarted

\* The lamp after a blink.
LEMMA BlinkedType ==
  ASSUME RestTypeOK
  PROVE  Blinked \in [blinking2State : BOOLEAN, blinkPixel : Sevr, color : Sevr]
<1>1. NO_ALARM \in Sevr
  BY RuntimeConstants DEF NO_ALARM
<1> DEFINE highest == IF psetup.highestUnackSevr > 0 THEN psetup.highestUnackSevr
                      ELSE psetup.highestSevr
<1>2. highest \in Sevr
  BY DEF RestTypeOK, Setup
<1> QED BY <1>1, <1>2 DEF RestTypeOK, Blinked

\* A blink keeps the invariant.
LEMMA BlinkingKeeps ==
  ASSUME RuntimeInv, NEW i, blinking(i)
  PROVE  RuntimeInv'
<1> DEFINE x == XtRemoveTimeOut(xt, i)
           n == NewId(x)
           y == XtAppAddTimeOut(x, n, "blinking", 0)
           t == [timerId EXCEPT !.blink = n]
           id == IdsOf(timerId, heartbeatPV)
           u == [xt |-> y, timerId |-> t, psetup |-> psetup]
<1>1. /\ RunsOut(i, "blinking", 0) /\ lamp' = Blinked /\ xt' = y /\ timerId' = t
      /\ UNCHANGED <<session, heartbeatPV, main, chan, psetup, area, beat, history>>
  BY DEF blinking
<1>2. RestTypeOK /\ Shown(history, area.modified) /\ Sound(Now, heartbeatPV)
  BY InvParts, NowSound
<1>3. Owns(xt, id) /\ IdTypes(timerId, heartbeatPV)
  BY <1>2 DEF Sound, Now
<1>4. n \in TimerId /\ Owns(y, [id EXCEPT ![Blinking] = n])
  <2>1. Blinking \in Kind /\ Blinking[1] = "blinking" /\ Blinking[2] = 0
    BY KindsIn DEF Blinking
  <2> QED BY <1>1, <1>3, <2>1, RunsAgain
<1> HIDE DEF x, n, y
<1>5. Owns(y, IdsOf(t, heartbeatPV)) /\ n # NoId
  BY <1>3, <1>4, BlinkIds, NoIdFree DEF Id
<1>6. IdTypes(t, heartbeatPV) /\ t.blink = n /\ t.ca = timerId.ca /\ t.interval = timerId.interval
  BY <1>3, <1>4 DEF IdTypes, Id
<1> HIDE DEF t
<1>7. Sound(u, heartbeatPV)
  BY <1>2, <1>5, <1>6 DEF Sound, Now
<1>8. Becomes(u)
  BY <1>1 DEF Becomes
<1>9. RestTypeOK'
  BY <1>1, <1>2, BlinkedType DEF RestTypeOK
<1>10. Shown(history, area.modified)'
  BY <1>1, <1>2 DEF Shown, InOrder
<1>11. \A g \in MainGroup : heartbeatPV'[g].timerId # NoId <=> g = main' /\ Running(g)'
  BY <1>1 DEF RuntimeInv, TimersInv, Running, Puts
<1>12. Sound(u, heartbeatPV')
  BY <1>1, <1>7
<1> HIDE DEF u
<1> QED BY <1>8, <1>9, <1>10, <1>11, <1>12, InvTogether

\* The periodic update keeps the invariant.
LEMMA UpdateKeeps ==
  ASSUME RuntimeInv, NEW i, alCaUpdate(i)
  PROVE  RuntimeInv'
<1> DEFINE x == XtRemoveTimeOut(xt, i)
           n == NewId(x)
           y == XtAppAddTimeOut(x, n, "alCaUpdate", 0)
           t == [timerId EXCEPT !.ca = n]
           id == IdsOf(timerId, heartbeatPV)
           p == alHighestSystemSeverity(psetup, chan)
           u == [xt |-> y, timerId |-> t, psetup |-> p]
<1>1. /\ RunsOut(i, "alCaUpdate", 0) /\ xt' = y /\ timerId' = t
      /\ psetup' = p /\ area' = [area EXCEPT !.modified = FALSE]
      /\ ~area.modified => history' = history
      /\ area.modified /\ area.managed => history' = updateCurrentAlarmWindow(history)
      /\ area.modified /\ ~area.managed =>
           history' = [history EXCEPT !.dropped = @ \/ history.shown]
      /\ UNCHANGED <<session, heartbeatPV, main, chan, lamp, beat>>
  <2>1. alUpdateAreas
    BY DEF alCaUpdate
  <2>2. ~area.modified => history' = history
    BY <2>1 DEF alUpdateAreas
  <2>3. area.modified /\ area.managed => history' = updateCurrentAlarmWindow(history)
    BY <2>1 DEF alUpdateAreas
  <2>4. area.modified /\ ~area.managed => history' = [history EXCEPT !.dropped = @ \/ history.shown]
    BY <2>1 DEF alUpdateAreas
  <2> QED BY <2>1, <2>2, <2>3, <2>4 DEF alCaUpdate, alUpdateAreas
<1>2. RestTypeOK /\ Shown(history, area.modified) /\ Sound(Now, heartbeatPV)
  BY InvParts, NowSound
<1>3. Owns(xt, id) /\ IdTypes(timerId, heartbeatPV)
  BY <1>2 DEF Sound, Now
<1>4. n \in TimerId /\ Owns(y, [id EXCEPT ![Updating] = n])
  <2>1. Updating \in Kind /\ Updating[1] = "alCaUpdate" /\ Updating[2] = 0
    BY KindsIn DEF Updating
  <2> QED BY <1>1, <1>3, <2>1, RunsAgain
<1> HIDE DEF x, n, y
<1>5. Owns(y, IdsOf(t, heartbeatPV)) /\ n # NoId
  BY <1>3, <1>4, CaIds, NoIdFree DEF Id
<1>6. IdTypes(t, heartbeatPV) /\ t.ca = n /\ t.blink = timerId.blink /\ t.interval = timerId.interval
  BY <1>3, <1>4 DEF IdTypes, Id
<1> HIDE DEF t
<1>7. p \in Setup /\ p.silenceSelectedMinutes = psetup.silenceSelectedMinutes
  BY <1>2 DEF RestTypeOK, Setup, alHighestSystemSeverity
<1> HIDE DEF p
<1>8. Sound(u, heartbeatPV)
  BY <1>2, <1>5, <1>6, <1>7 DEF Sound, Now
<1>9. Becomes(u)
  BY <1>1 DEF Becomes
<1>10. area' \in [managed : BOOLEAN, modified : BOOLEAN] /\ ~area'.modified
  BY <1>1, <1>2 DEF RestTypeOK
<1>11. history' \in History /\ Shown(history', FALSE)
  <2>1. history \in History /\ area.modified \in BOOLEAN /\ area.managed \in BOOLEAN
    BY <1>2 DEF RestTypeOK
  <2>2. CASE ~area.modified
    <3>1. history' = history
      BY <1>1, <2>2
    <3> QED BY <1>2, <2>1, <2>2, <3>1 DEF Shown
  <2>3. CASE area.managed /\ area.modified
    <3>1. history' = updateCurrentAlarmWindow(history)
      BY <1>1, <2>3
    <3> QED BY <2>1, <3>1, WindowUpdated
  <2>4. CASE ~area.managed /\ area.modified
    <3>1. history' = [history EXCEPT !.dropped = @ \/ history.shown]
      BY <1>1, <2>4
    <3> QED BY <2>1, <3>1, HistoryDropped
  <2> QED BY <2>1, <2>2, <2>3, <2>4
<1>12. RestTypeOK'
  BY <1>1, <1>2, <1>7, <1>10, <1>11 DEF RestTypeOK
<1>13. Shown(history, area.modified)'
  BY <1>10, <1>11 DEF Shown, InOrder
<1>14. \A g \in MainGroup : heartbeatPV'[g].timerId # NoId <=> g = main' /\ Running(g)'
  BY <1>1 DEF RuntimeInv, TimersInv, Running, Puts
<1>15. Sound(u, heartbeatPV')
  BY <1>1, <1>8
<1> HIDE DEF u
<1> QED BY <1>9, <1>12, <1>13, <1>14, <1>15, InvTogether

(* The buttons of "Silence for ... Minutes" and the end of its time: its   *)
(* own timer is removed once more, and is no longer there.                 *)
LEMMA SilenceKeeps ==
  ASSUME RuntimeInv, NEW t, Sound(t, heartbeatPV), Becomes(t),
         UNCHANGED <<session, heartbeatPV, main, chan, lamp, area, beat, history>>
  PROVE  RuntimeInv'
<1>1. RestTypeOK /\ Shown(history, area.modified)
  BY InvParts
<1>2. RestTypeOK'
  BY <1>1 DEF RestTypeOK, Sound, Becomes
<1>3. Shown(history, area.modified)'
  BY <1>1 DEF Shown, InOrder
<1>4. \A g \in MainGroup : heartbeatPV'[g].timerId # NoId <=> g = main' /\ Running(g)'
  BY DEF RuntimeInv, TimersInv, Running, Puts
<1>5. Sound(t, heartbeatPV')
  OBVIOUS
<1> QED BY <1>2, <1>3, <1>4, <1>5, InvTogether

\* The buttons of "silence for an interval" keep the invariant.
LEMMA SilenceButtonsKeep ==
  ASSUME RuntimeInv, SilenceIntervalButton \/ SilenceIntervalMenu
  PROVE  RuntimeInv'
<1>1. Sound(Now, heartbeatPV)
  BY NowSound
<1>2. CASE SilenceIntervalButton
  BY <1>1, <1>2, CallbackSound, SilenceKeeps DEF SilenceIntervalButton
<1>3. CASE SilenceIntervalMenu
  BY <1>1, <1>3, ResetSound, SilenceKeeps DEF SilenceIntervalMenu
<1> QED BY <1>2, <1>3

\* The end of the interval keeps the invariant.
LEMMA IntervalEndsKeeps ==
  ASSUME RuntimeInv, NEW i, IntervalEnds(i)
  PROVE  RuntimeInv'
<1> DEFINE t == silenceSelectedMinutesReset(Now)
           x == XtRemoveTimeOut(t.xt, i)
           u == [t EXCEPT !.xt = x]
<1>1. /\ RunsOut(i, "silenceSelectedMinutesReset", 0) /\ Becomes(u)
      /\ UNCHANGED <<session, heartbeatPV, main, chan, lamp, area, beat, history>>
  BY DEF IntervalEnds
<1>2. Sound(Now, heartbeatPV)
  BY NowSound
<1>3. i = timerId.interval /\ timerId.interval # NoId
  <2>1. Ending \in Kind /\ Ending[1] = "silenceSelectedMinutesReset" /\ Ending[2] = 0
    BY KindsIn DEF Ending
  <2>2. Owns(xt, IdsOf(timerId, heartbeatPV))
    BY <1>2 DEF Sound, Now
  <2>3. i = IdsOf(timerId, heartbeatPV)[Ending] /\ IdsOf(timerId, heartbeatPV)[Ending] # NoId
    BY <1>1, <2>1, <2>2, OwnRunsOut
  <2> QED BY <2>3, IdsOfValues
<1>4. psetup.silenceSelectedMinutes
  BY <1>2, <1>3 DEF Sound, Now
<1>5. Sound(t, heartbeatPV) /\ t.xt = XtRemoveTimeOut(xt, i)
  BY <1>2, <1>3, <1>4, CallbackSound DEF silenceSelectedMinutesReset, Now
<1> HIDE DEF t
<1>6. x = t.xt
  BY <1>5 DEF XtRemoveTimeOut
<1>7. u = t
  BY <1>5, <1>6 DEF Sound
<1> QED BY <1>1, <1>5, <1>7, SilenceKeeps

(* The heartbeats: only that of the loaded configuration runs out, its PV  *)
(* is still there, and it goes on.                                         *)
LEMMA HeartbeatsOwned ==
  ASSUME RuntimeInv
  PROVE  /\ IdTypes(timerId, heartbeatPV) /\ Owns(xt, IdsOf(timerId, heartbeatPV))
         /\ \A g \in MainGroup :
              /\ heartbeatPV[g] \in Heartbeat
              /\ IdsOf(timerId, heartbeatPV)[HeartbeatOf(g)] = heartbeatPV[g].timerId
BY InvParts, IdsOfValues DEF IdTypes, RuntimeInv, TimersInv

(* The heartbeat b of the group g, and the timers x, are what an action    *)
(* leaves.                                                                 *)
LEMMA HeartbeatChanged ==
  ASSUME RuntimeInv, NEW g \in MainGroup, g = main, NEW b \in Heartbeat, NEW x,
         Owns(x, [IdsOf(timerId, heartbeatPV) EXCEPT ![HeartbeatOf(g)] = b.timerId]),
         b.timerId # NoId <=> b.chid = "up" /\ (b.write \/ ~Puts),
         xt' = x, heartbeatPV' = [heartbeatPV EXCEPT ![g] = b], beat' \in BOOLEAN,
         UNCHANGED <<session, timerId, main, chan, psetup, lamp, area, history>>
  PROVE  RuntimeInv'
<1> DEFINE h == [heartbeatPV EXCEPT ![g] = b]
           t == [xt |-> x, timerId |-> timerId, psetup |-> psetup]
<1>1. RestTypeOK /\ Shown(history, area.modified) /\ Sound(Now, heartbeatPV)
  BY InvParts, NowSound
<1>2. IdTypes(timerId, heartbeatPV)
  BY InvParts
<1>3. /\ IdTypes(timerId, h) /\ h[g] = b
      /\ \A j \in MainGroup : j # g => h[j] = heartbeatPV[j]
  BY <1>2 DEF IdTypes
<1> HIDE DEF h
<1>4. Owns(x, IdsOf(timerId, h))
  BY <1>2, <1>3, HeartbeatIds
<1>5. Sound(t, h)
  BY <1>1, <1>3, <1>4 DEF Sound, Now
<1>6. Becomes(t) /\ heartbeatPV' = h
  BY DEF Becomes, h
<1>7. RestTypeOK'
  BY <1>1 DEF RestTypeOK
<1>8. Shown(history, area.modified)'
  BY <1>1 DEF Shown, InOrder
<1>9. \A j \in MainGroup : heartbeatPV[j].timerId # NoId <=> j = main /\ Running(j)
  BY DEF RuntimeInv, TimersInv
<1>10. ASSUME NEW j \in MainGroup
       PROVE  heartbeatPV'[j].timerId # NoId <=> j = main' /\ Running(j)'
  <2>1. CASE j = g
    BY <1>3, <1>6, <2>1 DEF Running, Puts
  <2>2. CASE j # g
    BY <1>3, <1>6, <1>9, <2>2
  <2> QED BY <2>1, <2>2
<1>11. Sound(t, heartbeatPV')
  BY <1>5, <1>6
<1> HIDE DEF t
<1> QED BY <1>6, <1>7, <1>8, <1>10, <1>11, InvTogether

\* A heartbeat keeps the invariant.
LEMMA HeartBeatsKeeps ==
  ASSUME RuntimeInv, NEW g \in MainGroup, NEW i, alHeartbeatTimerCallback(i, g)
  PROVE  RuntimeInv'
<1> DEFINE x == XtRemoveTimeOut(xt, i)
           n == NewId(x)
           y == XtAppAddTimeOut(x, n, "heartbeat", g)
           id == IdsOf(timerId, heartbeatPV)
           b == [heartbeatPV[g] EXCEPT !.timerId = n]
<1>1. Owns(xt, id) /\ heartbeatPV[g] \in Heartbeat /\ id[HeartbeatOf(g)] = heartbeatPV[g].timerId
  BY HeartbeatsOwned
<1>2. RunsOut(i, "heartbeat", g)
  BY DEF alHeartbeatTimerCallback
<1>3. HeartbeatOf(g) \in Kind /\ HeartbeatOf(g)[1] = "heartbeat" /\ HeartbeatOf(g)[2] = g
  BY KindsIn DEF HeartbeatOf
<1>4. heartbeatPV[g].timerId # NoId
  BY <1>1, <1>2, <1>3, OwnRunsOut
<1>5. g = main /\ Running(g)
  BY <1>4 DEF RuntimeInv, TimersInv
<1>6. heartbeatPV[g].chid # None
  BY <1>5 DEF Running, None
<1>7. n \in TimerId /\ Owns(y, [id EXCEPT ![HeartbeatOf(g)] = n])
  BY <1>1, <1>2, <1>3, RunsAgain
<1>8. /\ alCaPutHeartbeatValue(g) /\ xt' = y
      /\ heartbeatPV' = [heartbeatPV EXCEPT ![g].timerId = n]
      /\ UNCHANGED <<session, timerId, main, chan, psetup, lamp, area, history>>
  BY <1>6 DEF alHeartbeatTimerCallback
<1> HIDE DEF x, n, y
<1>9. beat' \in BOOLEAN
  BY <1>8, InvParts DEF alCaPutHeartbeatValue, RestTypeOK
<1>10. /\ b \in Heartbeat /\ b.timerId = n /\ b.timerId # NoId
       /\ b.chid = "up" /\ (b.write \/ ~Puts)
  BY <1>1, <1>5, <1>7, NoIdFree DEF Heartbeat, Id, Running
<1>11. heartbeatPV' = [heartbeatPV EXCEPT ![g] = b]
  BY <1>8
<1> HIDE DEF b
<1>12. Owns(y, [id EXCEPT ![HeartbeatOf(g)] = b.timerId])
  BY <1>7, <1>10
<1> QED BY <1>5, <1>8, <1>9, <1>10, <1>11, <1>12, HeartbeatChanged

\* A change of the heartbeat's connection or rights keeps the invariant.
LEMMA HeartbeatEventKeeps ==
  ASSUME RuntimeInv, NEW chid \in {"up", "down"}, NEW write \in BOOLEAN, HeartbeatEvent(chid, write)
  PROVE  RuntimeInv'
<1> DEFINE id == IdsOf(timerId, heartbeatPV)
           b == [heartbeatPV[main] EXCEPT !.chid = chid, !.write = write]
           r == StartOrStop(<<b, xt>>, main)
<1>1. main \in MainGroup /\ beat \in BOOLEAN
  BY InvParts DEF RestTypeOK
<1>2. /\ Owns(xt, id) /\ heartbeatPV[main] \in Heartbeat
      /\ id[HeartbeatOf(main)] = heartbeatPV[main].timerId
  BY <1>1, HeartbeatsOwned
<1>3. b \in Heartbeat /\ b.timerId = heartbeatPV[main].timerId
  BY <1>2 DEF Heartbeat
<1>4. /\ heartbeatPV' = [heartbeatPV EXCEPT ![main] = r[1]] /\ xt' = r[2]
      /\ UNCHANGED <<session, timerId, main, chan, psetup, lamp, area, beat, history>>
  BY DEF HeartbeatEvent
<1> HIDE DEF b
<1>5. HeartbeatOwns(r, id, main, b)
  BY <1>1, <1>2, <1>3, StartOrStopOwns
<1> HIDE DEF r
<1>6. /\ r[1] \in Heartbeat /\ Owns(r[2], [id EXCEPT ![HeartbeatOf(main)] = r[1].timerId])
      /\ r[1].timerId # NoId <=> r[1].chid = "up" /\ (r[1].write \/ ~Puts)
  BY <1>5 DEF HeartbeatOwns
<1> QED BY <1>1, <1>4, <1>6, HeartbeatChanged

----------------------------------------------------------------------------
(* "File Open": the heartbeat of the new configuration may start, that of  *)
(* the old one ends, and the runtime window starts again.                  *)

(* r is the heartbeat that the group g gets, and the timers with it.       *)
Beating(r, id, g) ==
  /\ r[1] \in Heartbeat /\ Owns(r[2], [id EXCEPT ![HeartbeatOf(g)] = r[1].timerId])
  /\ r[1].timerId # NoId <=> r[1].chid = "up" /\ (r[1].write \/ ~Puts)

\* A main group without $HEARTBEATPV has no timer.
LEMMA NoHeartbeatType ==
  /\ NoHeartbeat \in Heartbeat /\ NoHeartbeat.timerId = NoId /\ NoHeartbeat.chid = None
  /\ None # "up"
BY DEF NoHeartbeat, Heartbeat, Id, NoId, None

\* The heartbeat of a new file beats if its PV is connected.
LEMMA ConnectedBeats ==
  ASSUME NEW x, NEW id, Owns(x, id), NEW g \in MainGroup, id[HeartbeatOf(g)] = NoId,
         NEW file \in File, NEW chid \in {"up", "down"}, NEW write \in BOOLEAN
  PROVE  Beating(Connected(g, file, chid, write, x), id, g)
<1> DEFINE b == [NoHeartbeat EXCEPT !.chid = chid, !.write = write]
           r == StartOrStop(<<b, x>>, g)
<1>1. b \in Heartbeat /\ b.timerId = NoId
  BY DEF NoHeartbeat, Heartbeat, Id
<1>2. Connected(g, file, chid, write, x) = IF file.heartbeat THEN r ELSE <<NoHeartbeat, x>>
  BY DEF Connected, alCaConnectHeartbeatPV
<1> HIDE DEF b
<1>3. HeartbeatOwns(r, id, g, b)
  BY <1>1, StartOrStopOwns
<1> HIDE DEF r
<1>4. Beating(r, id, g)
  BY <1>3 DEF HeartbeatOwns, Beating
<1>5. [id EXCEPT ![HeartbeatOf(g)] = NoId] = id
  BY DEF Owns
<1>6. Beating(<<NoHeartbeat, x>>, id, g)
  <2> DEFINE none == NoHeartbeat
             two == <<none, x>>
  <2>1. none \in Heartbeat /\ none.timerId = NoId /\ none.chid # "up"
    BY NoHeartbeatType
  <2> HIDE DEF none
  <2>2. two[1] = none /\ two[2] = x
    OBVIOUS
  <2> HIDE DEF two
  <2>3. Owns(two[2], [id EXCEPT ![HeartbeatOf(g)] = two[1].timerId])
    BY <1>5, <2>1, <2>2
  <2>4. Beating(two, id, g)
    BY <2>1, <2>2, <2>3 DEF Beating
  <2> QED BY <2>4 DEF two, none
<1> QED BY <1>2, <1>4, <1>6

\* createRuntimeWindow starts the timers of blinking and of updates anew.
LEMMA WindowCreated ==
  ASSUME NEW t, NEW h, Sound(t, h)
  PROVE  Sound(createRuntimeWindow(t), h)
<1> DEFINE p == silenceCurrentReset(t.psetup)
           u == [t EXCEPT !.psetup = p]
<1>1. p \in Setup /\ p.silenceSelectedMinutes = t.psetup.silenceSelectedMinutes
  BY DEF Sound, Setup, silenceCurrentReset
<1>2. createRuntimeWindow(t) = icon_update(silenceSelectedMinutesReset(u))
  BY DEF createRuntimeWindow, Sound
<1> HIDE DEF p
<1>3. u = [xt |-> t.xt, timerId |-> t.timerId, psetup |-> p]
  BY DEF Sound
<1>4. Sound(u, h)
  BY <1>1, <1>3 DEF Sound
<1> HIDE DEF u
<1> QED BY <1>2, <1>4, ResetSound, IconUpdateSound

(* The timers and the heartbeats after the old configuration is gone.      *)
LEMMA Replaced ==
  ASSUME RuntimeInv, NEW new \in MainGroup, new # main, NEW r,
         Beating(r, IdsOf(timerId, heartbeatPV), new), NEW h,
         IdTypes(timerId, h), h[new] = r[1], h[main] = NoHeartbeat
  PROVE  Owns(XtRemoveTimeOut(r[2], heartbeatPV[main].timerId), IdsOf(timerId, h))
<1> DEFINE id == IdsOf(timerId, heartbeatPV)
           h1 == [heartbeatPV EXCEPT ![new] = r[1]]
           id1 == IdsOf(timerId, h1)
<1>1. main \in MainGroup
  BY InvParts DEF RestTypeOK
<1>2. IdTypes(timerId, heartbeatPV)
  BY HeartbeatsOwned
<1>3. r[1] \in Heartbeat /\ Owns(r[2], [id EXCEPT ![HeartbeatOf(new)] = r[1].timerId])
  BY DEF Beating
<1>4. /\ IdTypes(timerId, h1) /\ h1[new] = r[1]
      /\ \A j \in MainGroup : j # new => h1[j] = heartbeatPV[j]
  BY <1>2, <1>3 DEF IdTypes
<1>5. \A j \in MainGroup : j # main => h[j] = h1[j]
  BY <1>1, <1>4 DEF MainGroup
<1> HIDE DEF h1
<1>6. Owns(r[2], id1)
  <2>1. id1 = [id EXCEPT ![HeartbeatOf(new)] = h1[new].timerId]
    BY <1>2, <1>4, HeartbeatIds
  <2> HIDE DEF id1, id
  <2> QED BY <1>3, <1>4, <2>1
<1>7. id1[HeartbeatOf(main)] = heartbeatPV[main].timerId /\ HeartbeatOf(main) \in Kind
  BY <1>1, <1>4, IdsOfValues, KindsIn
<1> HIDE DEF id1
<1>8. Owns(XtRemoveTimeOut(r[2], heartbeatPV[main].timerId), [id1 EXCEPT ![HeartbeatOf(main)] = NoId])
  <2>1. Owns(XtRemoveTimeOut(r[2], id1[HeartbeatOf(main)]), [id1 EXCEPT ![HeartbeatOf(main)] = NoId])
    BY <1>6, <1>7, Removed
  <2> QED BY <1>7, <2>1
<1>9. IdsOf(timerId, h) = [id1 EXCEPT ![HeartbeatOf(main)] = h[main].timerId]
  BY <1>1, <1>4, <1>5, HeartbeatIds DEF id1
<1>10. h[main].timerId = NoId
  BY NoHeartbeatType
<1> QED BY <1>8, <1>9, <1>10

\* Loading another file keeps the invariant: the old heartbeat's timer is removed.
LEMMA SetupConfigKeeps ==
  ASSUME RuntimeInv, NEW file \in session.files, NEW chid \in {"up", "down"},
         NEW write \in BOOLEAN, NEW sevr \in session.sevrs,
         setupConfig(file, chid, write, [curSevr |-> sevr, unackSevr |-> sevr])
  PROVE  RuntimeInv'
<1> DEFINE c == [curSevr |-> sevr, unackSevr |-> sevr]
           id == IdsOf(timerId, heartbeatPV)
           new == CHOOSE g \in MainGroup : g # main
           started == Connected(new, file, chid, write, xt)
           x == XtRemoveTimeOut(started[2], heartbeatPV[main].timerId)
           p == alHighestSystemSeverity([psetup EXCEPT !.beepSevr = file.beepSevr], c)
           h == [heartbeatPV EXCEPT ![new] = started[1], ![main] = NoHeartbeat]
           t == [xt |-> x, timerId |-> timerId, psetup |-> p]
           u == createRuntimeWindow(t)
<1>1. RestTypeOK /\ IdTypes(timerId, heartbeatPV) /\ Sound(Now, heartbeatPV)
  BY InvParts, NowSound
<1>2. file \in File /\ sevr \in Sevr /\ NO_ALARM \in Sevr
  BY <1>1, RuntimeConstants DEF RestTypeOK, NO_ALARM
<1>3. new \in MainGroup /\ new # main /\ \A g \in MainGroup : g = new \/ g = main
  BY <1>1 DEF RestTypeOK, MainGroup
<1>4. /\ heartbeatPV' = h /\ main' = new /\ chan' = c /\ Becomes(u)
      /\ lamp' = [lamp EXCEPT !.color = NO_ALARM]
      /\ area' = [managed |-> TRUE, modified |-> c # [curSevr |-> NO_ALARM, unackSevr |-> NO_ALARM]]
      /\ history' = resetCurrentAlarmWindow(history)
      /\ UNCHANGED <<session, beat>>
  <2>1. setupArea(started[2]) = <<NoHeartbeat, x>>
    BY DEF setupArea, alHeartbeatPVRemove, alHeartbeatStop
  <2> DEFINE removed == setupArea(started[2])
  <2>2. removed[1] = NoHeartbeat /\ removed[2] = x
    BY <2>1
  <2>3. /\ heartbeatPV' = [heartbeatPV EXCEPT ![new] = started[1], ![main] = removed[1]]
        /\ main' = new /\ chan' = c
        /\ Becomes(createRuntimeWindow([xt |-> removed[2], timerId |-> timerId, psetup |-> p]))
        /\ lamp' = [lamp EXCEPT !.color = NO_ALARM]
        /\ area' = [managed |-> TRUE, modified |-> c # [curSevr |-> NO_ALARM, unackSevr |-> NO_ALARM]]
        /\ history' = resetCurrentAlarmWindow(history)
        /\ UNCHANGED <<session, beat>>
    BY DEF setupConfig
  <2> HIDE DEF removed, new, started, x, p, c
  <2> QED BY <2>2, <2>3
<1>5. p \in Setup /\ p.silenceSelectedMinutes = psetup.silenceSelectedMinutes
  <2>1. file.beepSevr \in Sevr
    BY <1>2, RuntimeConstants
  <2> QED BY <1>1, <1>2, <2>1 DEF RestTypeOK, Setup, alHighestSystemSeverity
<1> HIDE DEF new
<1>6. Beating(started, id, new)
  <2>1. heartbeatPV[new].timerId = NoId
    BY <1>3 DEF RuntimeInv, TimersInv
  <2>2. Owns(xt, id) /\ id[HeartbeatOf(new)] = NoId
    BY <1>3, <2>1, HeartbeatsOwned
  <2> QED BY <1>2, <1>3, <2>2, ConnectedBeats
<1> HIDE DEF started
<1>7. IdTypes(timerId, h) /\ h[new] = started[1] /\ h[main] = NoHeartbeat
  BY <1>1, <1>3, <1>6, NoHeartbeatType DEF IdTypes, RestTypeOK, Beating
<1> HIDE DEF h
<1>8. Owns(x, IdsOf(timerId, h))
  BY <1>3, <1>6, <1>7, Replaced
<1> HIDE DEF x, p
<1>9. Sound(t, h)
  BY <1>1, <1>5, <1>7, <1>8 DEF Sound, Now
<1> HIDE DEF t
<1>10. Sound(u, h)
  BY <1>9, WindowCreated
<1>11. history' \in History /\ Shown(history', area'.modified)
  BY <1>1, <1>4, HistoryReset DEF RestTypeOK
<1>12. RestTypeOK'
  <2>1. u.psetup \in Setup
    BY <1>10 DEF Sound
  <2>2. psetup' \in Setup
    BY <1>4, <2>1 DEF Becomes
  <2>3. /\ chan' \in [curSevr : Sevr, unackSevr : Sevr]
        /\ lamp' \in [blinking2State : BOOLEAN, blinkPixel : Sevr, color : Sevr]
        /\ area' \in [managed : BOOLEAN, modified : BOOLEAN]
    BY <1>1, <1>2, <1>4 DEF RestTypeOK
  <2>4. session' \in Session /\ beat' \in BOOLEAN /\ main' \in MainGroup
    BY <1>1, <1>3, <1>4 DEF RestTypeOK
  <2> QED BY <1>11, <2>2, <2>3, <2>4 DEF RestTypeOK
<1>13. Shown(history, area.modified)'
  BY <1>11 DEF Shown, InOrder
<1>14. ASSUME NEW g \in MainGroup
       PROVE  heartbeatPV'[g].timerId # NoId <=> g = main' /\ Running(g)'
  <2>1. Puts' = Puts
    BY <1>4 DEF Puts
  <2>2. CASE g = new
    BY <1>4, <1>6, <1>7, <2>1, <2>2 DEF Beating, Running
  <2>3. CASE g = main
    BY <1>3, <1>4, <1>7, <2>3, NoHeartbeatType
  <2> QED BY <1>3, <2>2, <2>3
<1>15. Sound(u, heartbeatPV')
  BY <1>4, <1>10
<1> HIDE DEF u
<1> QED BY <1>4, <1>12, <1>13, <1>14, <1>15, InvTogether

----------------------------------------------------------------------------
(* The program starts: one update, one blinking, and the heartbeat if its  *)
(* PV answers.                                                             *)
LEMMA NothingPending == Owns(<<>>, [k \in Kind |-> NoId])
<1> DEFINE id == [k \in Kind |-> NoId]
<1>1. id \in [Kind -> Id] /\ \A k \in Kind : id[k] = NoId
  BY DEF Id
<1>2. DOMAIN <<>> = {} /\ <<>> = [i \in DOMAIN <<>> |-> <<>>[i]]
  OBVIOUS
<1> HIDE DEF id
<1>3. {id[k] : k \in Kind} \ {NoId} = {}
  BY <1>1
<1> QED BY <1>1, <1>2, <1>3 DEF Owns, id

\* A program that has just started satisfies the invariant.
LEMMA StartedInv ==
  ASSUME NEW file \in File, NEW chid \in {"up", "down"}, NEW write \in BOOLEAN,
         NEW silent \in BOOLEAN, Started(file, chid, write, silent),
         session \in Session, beat = FALSE, chan = Quiet,
         lamp = [blinking2State |-> FALSE, blinkPixel |-> NO_ALARM, color |-> NO_ALARM],
         area = [managed |-> TRUE, modified |-> FALSE],
         history = [string |-> [i \in Line |-> Blank], index |-> 0,
                    label |-> [i \in Line |-> Blank], shown |-> FALSE, dropped |-> FALSE]
  PROVE  RuntimeInv
<1> DEFINE ca == NewId(<<>>)
           x == XtAppAddTimeOut(<<>>, ca, "alCaUpdate", 0)
           r == Connected(1, file, chid, write, x)
           n == NewId(r[2])
           y == XtAppAddTimeOut(r[2], n, "blinking", 0)
           h == [g \in MainGroup |-> IF g = 1 THEN r[1] ELSE NoHeartbeat]
           t == [blink |-> n, ca |-> ca, interval |-> NoId]
           id0 == [k \in Kind |-> NoId]
           id1 == [id0 EXCEPT ![Updating] = ca]
           id2 == [id1 EXCEPT ![HeartbeatOf(1)] = r[1].timerId]
           id3 == [id2 EXCEPT ![Blinking] = n]
<1>1. /\ main = 1 /\ heartbeatPV = h /\ timerId = t /\ xt = y
      /\ psetup = [silenceForever |-> silent, silenceSelectedMinutes |-> FALSE,
                   silenceCurrent |-> FALSE, beepSevr |-> file.beepSevr, highestSevr |-> NO_ALARM,
                   highestUnackSevr |-> NO_ALARM, highestUnackBeepSevr |-> NO_ALARM]
  BY DEF Started
<1>2. /\ Blinking \in Kind /\ Blinking[1] = "blinking" /\ Blinking[2] = 0
      /\ Updating \in Kind /\ Updating[1] = "alCaUpdate" /\ Updating[2] = 0
      /\ HeartbeatOf(1) \in Kind /\ Ending \in Kind /\ HeartbeatOf(2) \in Kind
      /\ Blinking # Updating /\ Blinking # Ending /\ Updating # Ending
      /\ HeartbeatOf(1) \notin {Blinking, Updating, Ending, HeartbeatOf(2)}
      /\ HeartbeatOf(2) \notin {Blinking, Updating, Ending}
      /\ Kind = {Blinking, Updating, Ending, HeartbeatOf(1), HeartbeatOf(2)}
  BY DEF Kind, Blinking, Updating, Ending, HeartbeatOf
<1>3. 1 \in MainGroup /\ 2 \in MainGroup /\ MainGroup = {1, 2}
  BY DEF MainGroup
<1>4. Owns(<<>>, id0) /\ id0[Updating] = NoId
  BY <1>2, NothingPending
<1>5. ca \in TimerId /\ Owns(x, id1)
  BY <1>2, <1>4, Added
<1> HIDE DEF ca, x
<1>6. id1[HeartbeatOf(1)] = NoId /\ id1[Blinking] = NoId /\ id1[Updating] = ca
      /\ id1[Ending] = NoId /\ id1[HeartbeatOf(2)] = NoId /\ id1 \in [Kind -> Id]
  BY <1>2, <1>5 DEF Id
<1> HIDE DEF id1
<1>7. Beating(r, id1, 1)
  BY <1>3, <1>5, <1>6, ConnectedBeats
<1> HIDE DEF r
<1>8. r[1] \in Heartbeat /\ Owns(r[2], id2)
  BY <1>7 DEF Beating
<1>9. id2[HeartbeatOf(1)] = r[1].timerId /\ id2[Blinking] = NoId /\ id2[Updating] = ca
      /\ id2[Ending] = NoId /\ id2[HeartbeatOf(2)] = NoId
  BY <1>2, <1>6
<1> HIDE DEF id2
<1>10. n \in TimerId /\ Owns(y, id3)
  BY <1>2, <1>8, <1>9, Added
<1> HIDE DEF n, y
<1>11. id3[HeartbeatOf(1)] = r[1].timerId /\ id3[Blinking] = n /\ id3[Updating] = ca
       /\ id3[Ending] = NoId /\ id3[HeartbeatOf(2)] = NoId /\ id3 \in [Kind -> Id]
  <2>1. id2 \in [Kind -> Id]
    BY <1>8 DEF Owns
  <2> QED BY <1>2, <1>9, <1>10, <2>1 DEF Id
<1> HIDE DEF id3
<1>12. h[1] = r[1] /\ h[2] = NoHeartbeat /\ h \in [MainGroup -> Heartbeat]
  BY <1>3, <1>8, NoHeartbeatType
<1>13. t.blink = n /\ t.ca = ca /\ t.interval = NoId /\ IdTypes(t, h) /\ n # NoId /\ ca # NoId
  BY <1>5, <1>10, <1>12, NoIdFree DEF IdTypes, Id
<1> HIDE DEF t, h
<1>14. IdsOf(t, h) = id3
  <2>1. IdsOf(t, h) \in [Kind -> Id]
    BY <1>13, IdsOfType
  <2>2. \A k \in {Blinking, Updating, Ending} : IdsOf(t, h)[k] = id3[k]
    BY <1>11, <1>13, IdsOfValues
  <2>3. \A g \in MainGroup : IdsOf(t, h)[HeartbeatOf(g)] = h[g].timerId
    BY IdsOfValues
  <2>4. /\ IdsOf(t, h)[HeartbeatOf(1)] = id3[HeartbeatOf(1)]
        /\ IdsOf(t, h)[HeartbeatOf(2)] = id3[HeartbeatOf(2)]
    BY <1>3, <1>11, <1>12, <2>3, NoHeartbeatType
  <2>5. \A k \in Kind : IdsOf(t, h)[k] = id3[k]
    BY <1>2, <2>2, <2>4
  <2> QED BY <1>11, <2>1, <2>5
<1>15. TimersInv
  <2>1. Owns(xt, IdsOf(timerId, heartbeatPV))
    BY <1>1, <1>10, <1>14
  <2>2. timerId.blink # NoId /\ timerId.ca # NoId /\ timerId.interval = NoId
    BY <1>1, <1>13
  <2>3. ~psetup.silenceSelectedMinutes
    BY <1>1
  <2>4. heartbeatPV[1].timerId # NoId <=> 1 = main /\ Running(1)
    BY <1>1, <1>7, <1>12 DEF Beating, Running
  <2>5. heartbeatPV[2].timerId = NoId /\ main # 2
    BY <1>1, <1>12, NoHeartbeatType
  <2>6. \A g \in MainGroup : heartbeatPV[g].timerId # NoId <=> g = main /\ Running(g)
    BY <1>3, <2>4, <2>5
  <2> QED BY <2>1, <2>2, <2>3, <2>6 DEF TimersInv
<1>16. NO_ALARM \in Sevr /\ file.beepSevr \in Sevr
  BY RuntimeConstants DEF NO_ALARM
<1>17. psetup \in Setup
  BY <1>1, <1>16 DEF Setup
<1>18. history \in History
  <2>1. [i \in Line |-> Blank] \in Ring /\ 0 \in Line
    BY RuntimeConstants DEF Ring, Line
  <2> QED BY <2>1 DEF History
<1>19. RestTypeOK
  BY <1>1, <1>3, <1>16, <1>17, <1>18 DEF RestTypeOK, Quiet
<1>20. RuntimeTypeOK
  BY <1>1, <1>13, <1>19, TypesTogether
<1>21. HistoryShown
  BY DEF HistoryShown
<1> QED BY <1>15, <1>20, <1>21 DEF RuntimeInv

\* The initial states satisfy the invariant.
LEMMA RuntimeInitInv ==
  ASSUME RuntimeInit
  PROVE  RuntimeInv
<1>1. PICK file \in session.files, up \in BOOLEAN, write \in BOOLEAN :
        Started(file, IF up THEN "up" ELSE "down", write, session.silent)
  BY DEF RuntimeInit
<1>2. session \in Session
  BY DEF RuntimeInit
<1>3. file \in File /\ session.silent \in BOOLEAN
  BY <1>1, <1>2, RuntimeConstants
<1>4. PICK chid \in {"up", "down"} : chid = IF up THEN "up" ELSE "down"
  OBVIOUS
<1>5. Started(file, chid, write, session.silent)
  BY <1>1, <1>4
<1> QED BY <1>2, <1>3, <1>5, StartedInv DEF RuntimeInit

\* Each step keeps the invariant.
LEMMA RuntimeNextInv ==
  ASSUME NoHeartbeatRejected, RuntimeInv, [RuntimeNext]_vars
  PROVE  RuntimeInv'
<1>1. CASE Blinks
  BY <1>1, BlinkingKeeps DEF Blinks
<1>2. CASE Updates
  BY <1>2, UpdateKeeps DEF Updates
<1>3. CASE SilenceEnds
  BY <1>3, IntervalEndsKeeps DEF SilenceEnds
<1>4. ASSUME NEW g \in MainGroup, HeartBeats(g) PROVE RuntimeInv'
  BY <1>4, HeartBeatsKeeps DEF HeartBeats
<1>5. CASE SilenceIntervalButton \/ SilenceIntervalMenu
  BY <1>5, SilenceButtonsKeep
<1>6. CASE SilenceCurrentButton \/ silenceForeverChangeState
           \/ \E sevr \in session.sevrs : BeepSeverityMenu(sevr)
  BY <1>6, SetupKeeps
<1>7. ASSUME NEW chid \in {"up", "down"}, NEW write \in BOOLEAN, HeartbeatEvent(chid, write)
      PROVE  RuntimeInv'
  BY <1>7, HeartbeatEventKeeps
<1>8. ASSUME NEW sevr \in session.sevrs, NEW acks \in session.sevrs, alNewEvent(sevr, acks)
      PROVE  RuntimeInv'
  BY <1>8, AlarmKeeps
<1>9. CASE ackChan \/ HistoryMenu \/ MenuFileOpen \/ fileCancelCallback
  BY <1>9, WindowsKeep
<1>10. ASSUME NEW file \in session.files, NEW chid \in {"up", "down"}, NEW write \in BOOLEAN,
              NEW sevr \in session.sevrs,
              FileOpened(file, chid, write, [curSevr |-> sevr, unackSevr |-> sevr])
       PROVE  RuntimeInv'
  <2>1. CASE setupConfig(file, chid, write, [curSevr |-> sevr, unackSevr |-> sevr])
    BY <2>1, SetupConfigKeeps
  <2>2. CASE setupConfigFails(file, chid, write)
    <3>1. file \in File /\ ~file.valid
      BY <2>2, InvParts, RuntimeConstants DEF RestTypeOK, setupConfigFails
    <3>2. FileRejected
      BY <2>2, <3>1 DEF FileRejected, NoHeartbeatRejected
    <3> QED BY <3>2, WindowsKeep
  <2> QED BY <1>10, <2>1, <2>2 DEF FileOpened
<1>11. CASE UNCHANGED vars
  <2>1. RestTypeOK /\ Shown(history, area.modified)
    BY InvParts
  <2>2. UNCHANGED <<session, timers, heartbeatPV, main, chan, psetup, lamp, area, beat, history>>
    BY <1>11 DEF vars, timers
  <2>3. RestTypeOK' /\ Shown(history, area.modified)'
    BY <2>1, <2>2 DEF RestTypeOK, Shown, InOrder
  <2> QED BY <2>2, <2>3, QuietKeeps
<1> QED BY <1>1, <1>2, <1>3, <1>4, <1>5, <1>6, <1>7, <1>8, <1>9, <1>10, <1>11 DEF RuntimeNext

\* The invariant holds always.
LEMMA RuntimeInvAlways ==
  ASSUME NoHeartbeatRejected
  PROVE  RuntimeSpec => []RuntimeInv
<1>1. RuntimeInit => RuntimeInv
  BY RuntimeInitInv
<1>2. RuntimeInv /\ [RuntimeNext]_vars => RuntimeInv'
  BY RuntimeNextInv
<1> QED BY <1>1, <1>2, PTL DEF RuntimeSpec

----------------------------------------------------------------------------
(* The theorems.                                                           *)

(* Every variable of the runtime window stays within its type: the ring of *)
(* the history window is never indexed outside its lines, and an id that   *)
(* is kept is an id of the toolkit or none.  No file that is rejected      *)
(* names a heartbeat PV.                                                   *)
THEOREM RuntimeTypes ==
  ASSUME NoHeartbeatRejected
  PROVE  RuntimeSpec => []RuntimeTypeOK
<1>1. RuntimeInv => RuntimeTypeOK
  BY DEF RuntimeInv
<1> QED BY <1>1, RuntimeInvAlways, PTL

(* The pending timers are exactly those the program believes to be         *)
(* pending: no "File Open", silence button, connection or timer that runs  *)
(* out leaves one behind or keeps the id of another, however the toolkit   *)
(* gives ids out (axRunW.c, heartbeat.c, axArea.c, alCA.c).  Only a file   *)
(* that names a heartbeat PV and is rejected does, and is left out here:   *)
(* alConfig.c:455 connects the PV before axArea.c:283 frees its group.     *)
THEOREM RuntimeTimers ==
  ASSUME NoHeartbeatRejected
  PROVE  RuntimeSpec => []TimersOwned
<1>1. ASSUME RuntimeInv PROVE TimersOwned
  <2> DEFINE id == IdsOf(timerId, heartbeatPV)
             Pending == {[id |-> i, proc |-> xt[i].proc, of |-> xt[i].of] : i \in DOMAIN xt}
             Entry(k) == [id |-> id[k], proc |-> k[1], of |-> k[2]]
  <2>1. Owns(xt, id) /\ main \in MainGroup
    BY <1>1 DEF RuntimeInv, TimersInv, RuntimeTypeOK
  <2>2. Pending = {Entry(k) : k \in {j \in Kind : id[j] # NoId}}
    <3>1. ASSUME NEW k \in Kind, id[k] # NoId
          PROVE  id[k] \in DOMAIN xt /\ xt[id[k]].proc = k[1] /\ xt[id[k]].of = k[2]
      <4> HIDE DEF id
      <4>1. xt[id[k]] = [proc |-> k[1], of |-> k[2]]
        BY <2>1, <3>1 DEF Owns
      <4>2. id[k] \in DOMAIN xt
        BY <2>1, <3>1 DEF Owns
      <4> QED BY <4>1, <4>2
    <3>2. ASSUME NEW i \in DOMAIN xt PROVE \E k \in Kind : id[k] # NoId /\ i = id[k]
      BY <2>1, <3>2 DEF Owns
    <3> HIDE DEF id
    <3> QED BY <3>1, <3>2
  <2>3. /\ id[Blinking] = timerId.blink /\ id[Updating] = timerId.ca /\ id[Ending] = timerId.interval
        /\ \A g \in MainGroup : id[HeartbeatOf(g)] = heartbeatPV[g].timerId
    BY IdsOfValues
  <2>4. /\ timerId.blink # NoId /\ timerId.ca # NoId
        /\ psetup.silenceSelectedMinutes <=> timerId.interval # NoId
        /\ \A g \in MainGroup : heartbeatPV[g].timerId # NoId <=> g = main /\ Running(g)
    BY <1>1 DEF RuntimeInv, TimersInv
  <2> DEFINE B == [id |-> timerId.blink, proc |-> "blinking", of |-> 0]
             U == [id |-> timerId.ca, proc |-> "alCaUpdate", of |-> 0]
             E == [id |-> timerId.interval, proc |-> "silenceSelectedMinutesReset", of |-> 0]
             H(g) == [id |-> heartbeatPV[g].timerId, proc |-> "heartbeat", of |-> g]
  <2>5. /\ Entry(Blinking) = B /\ Entry(Updating) = U /\ Entry(Ending) = E
        /\ \A g \in MainGroup : Entry(HeartbeatOf(g)) = H(g)
    BY <2>3 DEF Blinking, Updating, Ending, HeartbeatOf
  <2>6. \A k : k \in Kind <=> k \in {Blinking, Updating, Ending} \/ \E g \in MainGroup : k = HeartbeatOf(g)
    BY DEF Kind, MainGroup
  <2> HIDE DEF id, Entry, Pending, B, U, E, H
  <2>7. Pending = {B, U} \cup {E : i \in {j \in {1} : psetup.silenceSelectedMinutes}}
                  \cup {H(g) : g \in {j \in {main} : Running(j)}}
    BY <2>1, <2>2, <2>3, <2>4, <2>5, <2>6
  <2>8. {E : i \in {j \in {1} : psetup.silenceSelectedMinutes}} =
          {[id |-> i, proc |-> "silenceSelectedMinutesReset", of |-> 0] :
             i \in IF psetup.silenceSelectedMinutes THEN {timerId.interval} ELSE {}}
    BY DEF E
  <2> QED BY <2>7, <2>8 DEF TimersOwned, Pending, B, U, H
<1> QED BY <1>1, RuntimeInvAlways, PTL

(* The Current Alarm History window shows the last alarms in order when no *)
(* update is due or was dropped (current.c, alUpdateAreas of alCaCommon.c),*)
(* for every number of lines, if no file that is rejected names a          *)
(* heartbeat PV.                                                           *)
THEOREM RuntimeHistory ==
  ASSUME NoHeartbeatRejected
  PROVE  RuntimeSpec => []HistoryShown
<1>1. RuntimeInv => HistoryShown
  BY DEF RuntimeInv
<1> QED BY <1>1, RuntimeInvAlways, PTL

=============================================================================
