--------------------------- MODULE AlarmLogProofs ---------------------------
(***************************************************************************)
(* Theorems about AlarmLog: the ring of records stays in order and below   *)
(* its size, an open window shows the file, the browser finds what was     *)
(* written, and lost messages are reported, for every limit, length of     *)
(* records, length of a day and set of command lines.                      *)
(***************************************************************************)
EXTENDS AlarmLog, TLAPS, SequenceTheorems, WellFoundedInduction

Byte == Nat \X Nat
Message == [kind : {"record", "lost"}, n : Nat, full : BOOLEAN]
Record == [time : 0 .. MaxTime, len : RecordLength]
File == [name : Days, tmDay : Days, append : BOOLEAN, offset : Nat, stringLength : Nat]
Window == [open : BOOLEAN, text : Seq(Byte), used : Nat, stale : BOOLEAN]
Mq == [sent : [Queues -> Seq(Message)], got : [Queues -> Nat],
       lostFlag : BOOLEAN, lostCount : Nat]

LogTypeOK ==
  /\ mode \in Modes /\ now \in 0 .. MaxTime
  /\ disk \in [Days -> Seq(Byte)] /\ fl \in File
  /\ masterFlag \in BOOLEAN /\ notsave \in BOOLEAN
  /\ window \in Window /\ mq \in Mq
  /\ log \in Seq(Record) /\ opMods \in Nat /\ misdated \in BOOLEAN

----------------------------------------------------------------------------
(* The inductive invariants.                                               *)

\* the first size bytes of a file are whole records in the order they were written
Whole(content, size, records) ==
  /\ size <= Len(content)
  /\ \A n \in 1 .. size :
    LET b == content[n]
    IN /\ b[1] \in DOMAIN records
       /\ n = 1 => b[2] = 1
       /\ n < size => LET c == content[n + 1]
                      IN \/ c = <<b[1], b[2] + 1>>
                         \/ b[2] = records[b[1]].len /\ c[2] = 1 /\ c[1] > b[1]
       /\ n = size => b[2] = records[b[1]].len

\* with the lock a file is appended to, and what is appended ends at the offset
FileInv ==
  /\ mode.locked => fl.append
  /\ ~mode.dated => fl.name = 0
  /\ ~mode.readOnly => fl.stringLength > 0
  /\ ~mode.readOnly /\ fl.append => fl.offset \in {0, Len(disk[fl.name])}

\* an undated ring starts empty, and then its records are at most as long as the longest
BoundInv ==
  LET longest == Max(RecordLength)
  IN IF mode.readOnly THEN Len(disk[0]) <= longest
     ELSE /\ ~fl.append
          /\ Len(disk[0]) < (MaxRecords + 1) * longest
          /\ IF fl.offset = 0 THEN disk[0] = <<>> ELSE fl.stringLength <= longest

RingInv ==
  /\ ~mode.readOnly /\ ~fl.append => Whole(disk[fl.name], fl.offset, log)
  /\ ~mode.dated /\ ~mode.locked => BoundInv

\* the file of a day holds the records of that day
DatedInv ==
  mode.dated /\ mode.locked /\ ~mode.readOnly /\ ~misdated =>
    \A d \in Days : RecordsOf(disk[d]) = {i \in DOMAIN log : Day(log[i].time) = d}

\* an open window has the bytes of the file, and the next record goes behind them
WindowInv ==
  window.open /\ ~window.stale /\ ~mode.readOnly /\ (mode.dated => mode.locked) =>
    IF mode.locked
    THEN window.text = disk[fl.name] /\ window.used >= Len(window.text)
    ELSE /\ fl.offset <= Len(window.text)
         /\ \A n \in 1 .. fl.offset : window.text[n] = disk[fl.name][n]
         /\ \/ window.used = fl.offset
            \/ window.used = fl.offset + 1 /\ Len(window.text) = fl.offset

\* the messages lost since the last record that was sent are counted
QueueInv ==
  \A q \in mode.queues : mode.queues = {q} =>
    LET sent == mq.sent[q]
    IN /\ mq.lostFlag <=> mq.lostCount > 0
       /\ \A j \in DOMAIN sent :
            /\ sent[j].kind = "record"
            /\ \A k \in j + 1 .. Len(sent) : sent[k].kind # "record"
            => sent[j].n + mq.lostCount + 1 = Next2MQ(q)

LogInv == LogTypeOK /\ FileInv /\ RingInv /\ DatedInv /\ WindowInv /\ QueueInv /\ LossReported

----------------------------------------------------------------------------
(* Numbers.                                                                *)

\* The smaller of two numbers.
LEMMA MinOfTwo ==
  ASSUME NEW a \in Int, NEW b \in Int
  PROVE  Min({a, b}) = IF a <= b THEN a ELSE b
<1>1. \E x \in {a, b} : \A y \in {a, b} : x =< y
  OBVIOUS
<1>2. Min({a, b}) \in {a, b} /\ \A y \in {a, b} : Min({a, b}) =< y
  BY <1>1 DEF Min
<1> QED BY <1>2

\* The larger of two numbers.
LEMMA MaxOfTwo ==
  ASSUME NEW a \in Int, NEW b \in Int
  PROVE  Max({a, b}) = IF a >= b THEN a ELSE b
<1>1. \E x \in {a, b} : \A y \in {a, b} : x >= y
  OBVIOUS
<1>2. Max({a, b}) \in {a, b} /\ \A y \in {a, b} : Max({a, b}) >= y
  BY <1>1 DEF Max
<1> QED BY <1>2

\* A time lies within its day.
LEMMA DayBounds ==
  ASSUME NEW t \in Nat
  PROVE  Day(t) \in Nat /\ Day(t) * Hours <= t /\ t < Day(t) * Hours + Hours
<1>1. Hours \in Nat /\ Hours > 0
  BY AlarmLogConstants
<1> QED BY <1>1 DEF Day

\* Days are in the order of their times.
LEMMA DayMonotone ==
  ASSUME NEW s \in Nat, NEW t \in Nat, s <= t
  PROVE  Day(s) <= Day(t)
<1>1. Hours \in Nat /\ Hours > 0
  BY AlarmLogConstants
<1>2. PICK d, e : d = Day(s) /\ e = Day(t)
  OBVIOUS
<1>3. /\ d \in Nat /\ e \in Nat
      /\ d * Hours <= s /\ t < e * Hours + Hours
  BY <1>2, DayBounds
<1>4. ASSUME e < d PROVE FALSE
  <2>1. e + 1 <= d
    BY <1>3, <1>4
  <2>2. (e + 1) * Hours <= d * Hours
    BY <1>1, <1>3, <2>1
  <2>3. (e + 1) * Hours = e * Hours + Hours
    BY <1>1, <1>3
  <2> QED BY <1>1, <1>3, <2>2, <2>3
<1> QED BY <1>2, <1>3, <1>4

\* Every time of a run is in one of its days.
LEMMA DayTyped ==
  ASSUME NEW t \in 0 .. MaxTime
  PROVE  Day(t) \in Days
<1>1. MaxTime \in Nat
  BY AlarmLogConstants
<1> QED BY <1>1, DayBounds, DayMonotone DEF Days

\* A set of numbers has a smallest one.
LEMMA SmallestOf ==
  ASSUME NEW T, T \subseteq Nat, T # {}
  PROVE  \E m \in T : \A k \in T : m <= k
<1> DEFINE R == OpToRel(<, Nat)
<1>1. IsWellFoundedOn(R, Nat)
  BY NatLessThanWellFounded
<1>2. PICK m \in T : \A k \in T : <<k, m>> \notin R
  <2> HIDE DEF R
  <2> QED BY <1>1, WFMin
<1>3. \A k, n \in Nat : k < n => <<k, n>> \in R
  BY DEF OpToRel
<1> HIDE DEF R
<1>4. ASSUME NEW k \in T PROVE m <= k
  <2>1. ~(k < m)
    BY <1>2, <1>3
  <2> QED BY <2>1
<1> QED BY <1>4

\* A finite set of numbers is bounded.
LEMMA FiniteIsBounded ==
  ASSUME NEW S, S \subseteq Nat, IsFiniteSet(S)
  PROVE  \E b \in Nat : \A x \in S : x <= b
<1>1. PICK seq \in Seq(S) : \A x \in S : \E n \in 1 .. Len(seq) : seq[n] = x
  BY DEF IsFiniteSet
<1> DEFINE Bounds(b, n) == \A i \in 1 .. n : seq[i] <= b
           T == {n \in Nat : n <= Len(seq) /\ ~ \E b \in Nat : Bounds(b, n)}
<1>2. Len(seq) \in Nat /\ \A i \in 1 .. Len(seq) : seq[i] \in Nat
  BY <1>1, LenProperties, ElementOfSeq
<1>3. CASE T = {}
  <2>1. Len(seq) \notin T
    BY <1>3
  <2>2. PICK b \in Nat : Bounds(b, Len(seq))
    BY <1>2, <2>1
  <2> QED BY <1>1, <2>2
<1>4. CASE T # {}
  <2>1. T \subseteq Nat
    OBVIOUS
  <2> HIDE DEF T
  <2>2. PICK m \in T : \A k \in T : m <= k
    BY <1>4, <2>1, SmallestOf
  <2>3. m \in Nat /\ m <= Len(seq) /\ ~ \E b \in Nat : Bounds(b, m)
    BY DEF T
  <2>4. m # 0
    <3>1. 0 \in Nat /\ Bounds(0, 0)
      OBVIOUS
    <3> QED BY <2>3, <3>1
  <2>5. m - 1 \in Nat /\ m - 1 <= Len(seq) /\ ~(m <= m - 1)
    BY <1>2, <2>3, <2>4
  <2>6. m - 1 \notin T
    BY <2>2, <2>5
  <2>7. PICK b \in Nat : Bounds(b, m - 1)
    BY <2>5, <2>6 DEF T
  <2>8. m \in 1 .. Len(seq) /\ seq[m] \in Nat
    BY <1>2, <2>3, <2>4
  <2>9. PICK a : a = IF seq[m] <= b THEN b ELSE seq[m]
    OBVIOUS
  <2>10. a \in Nat /\ b <= a /\ seq[m] <= a
    BY <2>8, <2>9
  <2>11. ASSUME NEW i \in 1 .. m PROVE seq[i] <= a
    <3>1. i = m \/ i \in 1 .. m - 1
      BY <2>3, <2>4
    <3>2. i \in 1 .. Len(seq)
      BY <2>8
    <3> QED BY <1>2, <2>7, <2>10, <3>1, <3>2
  <2> QED BY <2>3, <2>10, <2>11
<1> QED BY <1>3, <1>4

\* The longest record.
LEMMA LongestRecord ==
  /\ Max(RecordLength) \in Nat \ {0}
  /\ \A len \in RecordLength : len <= Max(RecordLength)
<1>1. IsFiniteSet(RecordLength) /\ RecordLength # {} /\ RecordLength \subseteq Nat \ {0}
  BY AlarmLogConstants
<1>2. PICK b \in Nat : \A x \in RecordLength : x <= b
  BY <1>1, FiniteIsBounded
<1>3. PICK T : T = {b - x : x \in RecordLength}
  OBVIOUS
<1>4. T \subseteq Nat /\ T # {}
  <2>1. \A x \in RecordLength : b - x \in Nat
    BY <1>1, <1>2
  <2> QED BY <1>1, <1>3, <2>1
<1>5. PICK m \in T : \A k \in T : m <= k
  BY <1>4, SmallestOf
<1>6. PICK x \in RecordLength : m = b - x
  BY <1>3, <1>5
<1>7. \A y \in RecordLength : x >= y
  <2> TAKE y \in RecordLength
  <2>1. b - x <= b - y
    BY <1>3, <1>5, <1>6
  <2> QED BY <1>1, <1>2, <2>1
<1>8. Max(RecordLength) \in RecordLength /\ \A y \in RecordLength : Max(RecordLength) >= y
  BY <1>7 DEF Max
<1> QED BY <1>1, <1>8

----------------------------------------------------------------------------
(* Bytes and files.                                                        *)

\* The bytes of a record.
LEMMA BytesOf ==
  ASSUME NEW i \in Nat, NEW len \in Nat
  PROVE  /\ Bytes(i, len) \in Seq(Byte) /\ Len(Bytes(i, len)) = len
         /\ \A k \in 1 .. len : Bytes(i, len)[k] = <<i, k>>
<1>1. \A k \in 1 .. len : <<i, k>> \in Byte
  BY DEF Byte
<1>2. Bytes(i, len) \in [1 .. len -> Byte]
  BY <1>1 DEF Bytes
<1>3. Bytes(i, len) \in Seq(Byte)
  BY <1>2, SeqDef
<1> QED BY <1>2, <1>3 DEF Bytes

\* truncateFile keeps the bytes before the place where the file is cut.
LEMMA TruncatedFile ==
  ASSUME NEW content \in Seq(Byte), NEW size \in Nat
  PROVE  /\ Truncated(content, size) \in Seq(Byte)
         /\ Len(Truncated(content, size)) = IF size <= Len(content) THEN size ELSE Len(content)
         /\ \A n \in 1 .. Len(Truncated(content, size)) : Truncated(content, size)[n] = content[n]
<1>1. PICK m : m = Min({size, Len(content)})
  OBVIOUS
<1>2. m = IF size <= Len(content) THEN size ELSE Len(content)
  BY <1>1, MinOfTwo
<1>3. Truncated(content, size) = SubSeq(content, 1, m)
  BY <1>1 DEF Truncated
<1>4. m \in Nat /\ m <= Len(content)
  BY <1>2
<1> QED BY <1>2, <1>3, <1>4, SubSeqProperties

\* fprintf replaces the bytes from the place of the record on, or adds them.
LEMMA OverwrittenFile ==
  ASSUME NEW content \in Seq(Byte), NEW at \in Nat, NEW bytes \in Seq(Byte)
  PROVE  LET new == Overwritten(content, at, bytes)
         IN  /\ new \in Seq(Byte)
             /\ Len(new) = IF Len(content) >= at + Len(bytes) THEN Len(content)
                           ELSE at + Len(bytes)
             /\ \A n \in 1 .. Len(new) :
                  new[n] = IF n \in at + 1 .. at + Len(bytes) THEN bytes[n - at]
                           ELSE IF n <= Len(content) THEN content[n] ELSE Hole
<1> DEFINE new == Overwritten(content, at, bytes)
           size == Max({Len(content), at + Len(bytes)})
           B(n) == IF n \in at + 1 .. at + Len(bytes) THEN bytes[n - at]
                   ELSE IF n <= Len(content) THEN content[n] ELSE Hole
<1>1. Len(content) \in Nat /\ Len(bytes) \in Nat
  BY LenProperties
<1>2. size = IF Len(content) >= at + Len(bytes) THEN Len(content) ELSE at + Len(bytes)
  BY <1>1, MaxOfTwo
<1>3. size \in Nat
  BY <1>1, <1>2
<1>4. ASSUME NEW n \in 1 .. size PROVE B(n) \in Byte
  <2>1. Hole \in Byte
    BY DEF Hole, Byte
  <2>2. CASE n \in at + 1 .. at + Len(bytes)
    <3>1. n - at \in 1 .. Len(bytes)
      BY <1>1, <2>2
    <3> QED BY <2>2, <3>1, ElementOfSeq
  <2>3. CASE n \notin at + 1 .. at + Len(bytes) /\ n <= Len(content)
    <3>1. n \in 1 .. Len(content)
      BY <1>1, <1>3, <2>3
    <3> QED BY <2>3, <3>1, ElementOfSeq
  <2>4. CASE n \notin at + 1 .. at + Len(bytes) /\ ~(n <= Len(content))
    BY <2>1, <2>4
  <2> QED BY <2>2, <2>3, <2>4
<1>5. new = [n \in 1 .. size |-> B(n)]
  BY DEF Overwritten
<1>6. new \in [1 .. size -> Byte]
  BY <1>4, <1>5
<1> HIDE DEF new, size, B
<1>7. new \in Seq(Byte) /\ Len(new) = size
  <2>1. new \in Seq(Byte)
    BY <1>3, <1>6, SeqDef
  <2>2. DOMAIN new = 1 .. size /\ DOMAIN new = 1 .. Len(new) /\ Len(new) \in Nat
    BY <1>6, <2>1, LenProperties
  <2> QED BY <1>3, <2>1, <2>2
<1>8. \A n \in 1 .. Len(new) : new[n] = B(n)
  BY <1>5, <1>7
<1> QED BY <1>2, <1>7, <1>8 DEF new, size, B

\* XmTextInsert keeps the text before the place of the record and puts the record behind it.
LEMMA InsertedText ==
  ASSUME NEW text \in Seq(Byte), NEW at \in Nat, NEW bytes \in Seq(Byte)
  PROVE  LET new == Inserted(text, at, bytes)
             p == IF at <= Len(text) THEN at ELSE Len(text)
         IN  /\ new \in Seq(Byte)
             /\ Len(new) = Len(text) + Len(bytes)
             /\ \A n \in 1 .. p + Len(bytes) : new[n] = IF n <= p THEN text[n] ELSE bytes[n - p]
             /\ p = Len(text) => new = text \o bytes
<1>1. Len(text) \in Nat /\ Len(bytes) \in Nat
  BY LenProperties
<1>2. PICK p : p = Min({at, Len(text)})
  OBVIOUS
<1>3. p = IF at <= Len(text) THEN at ELSE Len(text)
  BY <1>1, <1>2, MinOfTwo
<1>4. p \in Nat /\ p <= Len(text)
  BY <1>1, <1>3
<1>5. PICK a, b : a = SubSeq(text, 1, p) /\ b = SubSeq(text, p + 1, Len(text))
  OBVIOUS
<1>6. /\ a \in Seq(Byte) /\ Len(a) = p /\ \A n \in 1 .. p : a[n] = text[n]
      /\ b \in Seq(Byte) /\ Len(b) = Len(text) - p
  <2>1. a \in Seq(Byte) /\ Len(a) = p /\ \A n \in 1 .. p : a[n] = text[n]
    BY <1>1, <1>4, <1>5, SubSeqProperties
  <2>2. b \in Seq(Byte) /\ Len(b) = Len(text) - p
    BY <1>1, <1>4, <1>5, SubSeqProperties
  <2> QED BY <2>1, <2>2
<1>7. Inserted(text, at, bytes) = a \o bytes \o b
  BY <1>2, <1>5 DEF Inserted
<1>8. PICK ab : ab = a \o bytes
  OBVIOUS
<1>9. /\ ab \in Seq(Byte) /\ Len(ab) = p + Len(bytes)
      /\ \A n \in 1 .. Len(ab) : ab[n] = IF n <= p THEN a[n] ELSE bytes[n - p]
  <2>1. /\ ab \in Seq(Byte) /\ Len(ab) = Len(a) + Len(bytes)
        /\ \A n \in 1 .. Len(a) + Len(bytes) :
             ab[n] = IF n <= Len(a) THEN a[n] ELSE bytes[n - Len(a)]
    BY <1>6, <1>8, ConcatProperties
  <2> QED BY <1>6, <2>1
<1>10. PICK new : new = ab \o b
  OBVIOUS
<1>11. /\ new \in Seq(Byte) /\ Len(new) = Len(ab) + Len(b)
       /\ \A n \in 1 .. Len(new) : new[n] = IF n <= Len(ab) THEN ab[n] ELSE b[n - Len(ab)]
  <2>1. ab \in Seq(Byte) /\ b \in Seq(Byte)
    BY <1>6, <1>9
  <2>2. /\ ab \o b \in Seq(Byte) /\ Len(ab \o b) = Len(ab) + Len(b)
        /\ \A n \in 1 .. Len(ab) + Len(b) :
             (ab \o b)[n] = IF n <= Len(ab) THEN ab[n] ELSE b[n - Len(ab)]
    BY <2>1, ConcatProperties
  <2> QED BY <1>10, <2>2
<1>12. \A n \in 1 .. p + Len(bytes) : new[n] = IF n <= p THEN text[n] ELSE bytes[n - p]
  <2> TAKE n \in 1 .. p + Len(bytes)
  <2>1. n \in 1 .. Len(new) /\ n <= Len(ab) /\ n \in 1 .. Len(ab)
    BY <1>1, <1>4, <1>6, <1>9, <1>11
  <2>2. new[n] = ab[n] /\ ab[n] = IF n <= p THEN a[n] ELSE bytes[n - p]
    BY <1>9, <1>11, <2>1
  <2> QED BY <1>1, <1>4, <1>6, <2>2
<1>13. p = Len(text) => new = text \o bytes
  <2> HAVE p = Len(text)
  <2>1. b = <<>>
    BY <1>6, EmptySeq
  <2>2. a = text
    BY <1>6, SeqEqual
  <2>3. new = ab
    BY <1>9, <1>10, <2>1, ConcatEmptySeq
  <2> QED BY <1>8, <2>2, <2>3
<1>14. Len(new) = Len(text) + Len(bytes)
  BY <1>1, <1>4, <1>6, <1>9, <1>11
<1> QED BY <1>3, <1>7, <1>8, <1>10, <1>11, <1>12, <1>13, <1>14

----------------------------------------------------------------------------
(* filePrintf, the file.                                                   *)

\* The file that is open when a record of time t is written.
LEMMA SwitchedFile ==
  ASSUME NEW f \in File, NEW t \in 0 .. MaxTime, mode \in Modes
  PROVE  /\ Switched(f, t) \in File
         /\ IF mode.dated /\ Day(t) # f.tmDay
            THEN /\ Switched(f, t).name = Day(t) /\ Switched(f, t).tmDay = Day(t)
                 /\ Switched(f, t).append = mode.locked /\ Switched(f, t).offset = 0
            ELSE Switched(f, t) = f
<1>1. Day(t) \in Days /\ mode.locked \in BOOLEAN
  BY DayTyped, AlarmLogConstants
<1> QED BY <1>1 DEF Switched, File

\* new is content with record i of length len written at its place
Covers(content, at, i, len, new) ==
  /\ Len(new) = IF Len(content) >= at + len THEN Len(content) ELSE at + len
  /\ \A n \in 1 .. Len(new) :
       new[n] = IF n \in at + 1 .. at + len THEN <<i, n - at>>
                ELSE IF n <= Len(content) THEN content[n] ELSE Hole

\* what Put does to the file: content is cut to g, which is where the record goes
PutStep(f, len, content, g, at, new) ==
  /\ Wraps(f) => /\ g = [f EXCEPT !.offset = 0]
                 /\ Len(content) = IF f.offset <= Len(disk[f.name]) THEN f.offset
                                   ELSE Len(disk[f.name])
  /\ ~Wraps(f) => g = f /\ content = disk[f.name]
  /\ f.offset >= Len(disk[f.name]) => content = disk[f.name]
  /\ at = IF f.append THEN Len(content) ELSE g.offset
  /\ mode.readOnly => new = content
  /\ ~mode.readOnly => Covers(content, at, Len(log) + 1, len, new)
  /\ disk' = [disk EXCEPT ![f.name] = new]
  /\ fl' \in File /\ fl'.name = f.name /\ fl'.tmDay = f.tmDay /\ fl'.append = f.append
  /\ fl'.offset = IF mode.readOnly THEN g.offset ELSE at + len
  /\ fl'.stringLength = IF g.offset = 0 THEN fl'.offset ELSE f.stringLength

\* filePrintf writes the record at one place of the file that is open.
LEMMA PutFile ==
  ASSUME LogTypeOK, NEW f \in File, NEW t, NEW len \in RecordLength, Put(f, t, len)
  PROVE  \E content, new \in Seq(Byte) : \E g \in File, at \in Nat :
           PutStep(f, len, content, g, at, new)
<1>1. len \in Nat \ {0} /\ mode \in Modes /\ mode.readOnly \in BOOLEAN
  BY AlarmLogConstants DEF LogTypeOK
<1>2. f.name \in Days /\ f.offset \in Nat /\ f.append \in BOOLEAN /\ f.stringLength \in Nat
  BY DEF File
<1>3. disk[f.name] \in Seq(Byte) /\ Len(disk[f.name]) \in Nat /\ Len(log) \in Nat
  BY <1>2, LenProperties DEF LogTypeOK
<1>4. PICK content, g :
        /\ content = IF Wraps(f) THEN Truncated(disk[f.name], f.offset) ELSE disk[f.name]
        /\ g = IF Wraps(f) THEN [f EXCEPT !.offset = 0] ELSE f
  OBVIOUS
<1>5. /\ content \in Seq(Byte)
      /\ Wraps(f) => Len(content) = IF f.offset <= Len(disk[f.name]) THEN f.offset
                                    ELSE Len(disk[f.name])
      /\ f.offset >= Len(disk[f.name]) => content = disk[f.name]
  <2>1. CASE Wraps(f)
    <3>1. content = Truncated(disk[f.name], f.offset)
      BY <1>4, <2>1
    <3>2. /\ content \in Seq(Byte)
          /\ Len(content) = IF f.offset <= Len(disk[f.name]) THEN f.offset ELSE Len(disk[f.name])
          /\ \A n \in 1 .. Len(content) : content[n] = disk[f.name][n]
      BY <1>2, <1>3, <3>1, TruncatedFile
    <3>3. ASSUME f.offset >= Len(disk[f.name]) PROVE content = disk[f.name]
      <4>1. Len(content) = Len(disk[f.name])
        BY <1>2, <1>3, <3>2, <3>3
      <4> QED BY <1>3, <3>2, <4>1, SeqEqual
    <3> QED BY <3>2, <3>3
  <2>2. CASE ~Wraps(f)
    BY <1>3, <1>4, <2>2
  <2> QED BY <2>1, <2>2
<1>6. /\ g \in File /\ g.name = f.name /\ g.tmDay = f.tmDay /\ g.append = f.append
      /\ g.stringLength = f.stringLength /\ g.offset \in Nat
  BY <1>2, <1>4 DEF File
<1>7. Len(content) \in Nat
  BY <1>5, LenProperties
<1>8. PICK at \in Nat : at = IF f.append THEN Len(content) ELSE g.offset
  BY <1>6, <1>7
<1>9. PICK bytes : bytes = Bytes(Len(log) + 1, len)
  OBVIOUS
<1>10. /\ bytes \in Seq(Byte) /\ Len(bytes) = len
       /\ \A k \in 1 .. len : bytes[k] = <<Len(log) + 1, k>>
  <2>1. Len(log) + 1 \in Nat /\ len \in Nat
    BY <1>1, <1>3
  <2> QED BY <1>9, <2>1, BytesOf
<1>11. PICK new : new = Printed(content, g, bytes)
  OBVIOUS
<1>12. mode.readOnly => new = content
  BY <1>11 DEF Printed
<1>13. ~mode.readOnly => new = Overwritten(content, at, bytes)
  BY <1>6, <1>8, <1>11 DEF Printed
<1>14. new \in Seq(Byte)
  BY <1>5, <1>10, <1>12, <1>13, OverwrittenFile
<1>15. ASSUME ~mode.readOnly PROVE Covers(content, at, Len(log) + 1, len, new)
  <2>1. /\ Len(new) = IF Len(content) >= at + len THEN Len(content) ELSE at + len
        /\ \A n \in 1 .. Len(new) :
             new[n] = IF n \in at + 1 .. at + len THEN bytes[n - at]
                      ELSE IF n <= Len(content) THEN content[n] ELSE Hole
    <3>1. /\ Len(new) = IF Len(content) >= at + Len(bytes) THEN Len(content)
                          ELSE at + Len(bytes)
          /\ \A n \in 1 .. Len(new) :
               new[n] = IF n \in at + 1 .. at + Len(bytes) THEN bytes[n - at]
                        ELSE IF n <= Len(content) THEN content[n] ELSE Hole
      <4>1. content \in Seq(Byte) /\ bytes \in Seq(Byte) /\ new = Overwritten(content, at, bytes)
        BY <1>5, <1>10, <1>13, <1>15
      <4> QED BY <4>1, OverwrittenFile
    <3>2. Len(bytes) = len
      BY <1>10
    <3> QED BY <3>1, <3>2
  <2>2. \A n \in at + 1 .. at + len : n - at \in 1 .. len
    BY <1>1
  <2> QED BY <1>10, <2>1, <2>2 DEF Covers
<1>16. PICK tell : tell = Tell(content, g, len)
  OBVIOUS
<1>17. tell \in Nat /\ tell = IF mode.readOnly THEN g.offset ELSE at + len
  BY <1>1, <1>6, <1>7, <1>8, <1>16 DEF Tell
<1>18. disk' = [disk EXCEPT ![f.name] = new] /\ fl' = Advanced(g, tell)
  BY <1>4, <1>9, <1>11, <1>16 DEF Put
<1>19. /\ fl' \in File /\ fl'.name = f.name /\ fl'.tmDay = f.tmDay /\ fl'.append = f.append
       /\ fl'.offset = tell
       /\ fl'.stringLength = IF g.offset = 0 THEN tell ELSE f.stringLength
  <2>1. fl' = [g EXCEPT !.offset = tell, !.stringLength = IF g.offset = 0 THEN tell ELSE @]
    BY <1>18 DEF Advanced
  <2> QED BY <1>6, <1>17, <2>1 DEF File
<1>20. PutStep(f, len, content, g, at, new)
  BY <1>4, <1>5, <1>8, <1>12, <1>15, <1>17, <1>18, <1>19 DEF PutStep
<1> QED BY <1>5, <1>6, <1>14, <1>20

----------------------------------------------------------------------------
(* updateAlarmLog and write2MQ.                                            *)

\* The window after a record is written.
LEMMA WindowPut ==
  ASSUME LogTypeOK, NEW f \in File, NEW t, NEW len \in RecordLength, Put(f, t, len)
  PROVE  /\ window' \in Window
         /\ ~window.open => window' = window
         /\ window.open =>
              /\ window'.text = Inserted(window.text, window.used, Bytes(Len(log) + 1, len))
              /\ window'.used = window.used + len
              /\ window'.stale = (window.stale \/ (Wraps(f) /\ ~f.append) \/ f.name # fl.name)
<1>1. len \in Nat /\ Len(log) + 1 \in Nat
  BY AlarmLogConstants, LenProperties DEF LogTypeOK
<1>2. PICK bytes : bytes = Bytes(Len(log) + 1, len)
  OBVIOUS
<1>3. bytes \in Seq(Byte) /\ Len(bytes) = len
  BY <1>1, <1>2, BytesOf
<1>4. PICK cond \in BOOLEAN : cond = ((Wraps(f) /\ ~f.append) \/ f.name # fl.name)
  <2>1. ((Wraps(f) /\ ~f.append) \/ f.name # fl.name) \in BOOLEAN
    OBVIOUS
  <2> QED BY <2>1
<1>5. window' = Outdated(Updated(window, bytes), cond)
  BY <1>2, <1>4 DEF Put
<1>6. /\ window.open \in BOOLEAN /\ window.text \in Seq(Byte) /\ window.used \in Nat
      /\ window.stale \in BOOLEAN /\ window \in Window
  BY DEF LogTypeOK, Window
<1>7. CASE ~window.open
  BY <1>5, <1>6, <1>7 DEF Updated, Outdated
<1>8. CASE window.open
  <2>1. PICK text : text = Inserted(window.text, window.used, bytes)
    OBVIOUS
  <2>2. text \in Seq(Byte)
    BY <1>3, <1>6, <2>1, InsertedText
  <2>3. PICK w : w = Updated(window, bytes)
    OBVIOUS
  <2>4. w = [window EXCEPT !.text = text, !.used = @ + len]
    BY <1>3, <1>8, <2>1, <2>3 DEF Updated
  <2>5. w \in Window /\ w.open /\ w.text = text /\ w.used = window.used + len
        /\ w.stale = window.stale
    <3>1. window.used + len \in Nat
      BY <1>1, <1>6
    <3>2. w \in Window /\ w.open = window.open /\ w.text = text /\ w.used = window.used + len
          /\ w.stale = window.stale
      BY <1>6, <2>2, <2>4, <3>1 DEF Window
    <3> QED BY <1>6, <1>8, <3>2
  <2>6. window' = [w EXCEPT !.stale = @ \/ cond]
    BY <1>5, <2>3, <2>5 DEF Outdated
  <2>7. /\ window' \in Window /\ window'.text = text /\ window'.used = w.used
        /\ window'.stale = (window.stale \/ cond)
    BY <1>4, <1>6, <2>5, <2>6 DEF Window
  <2> QED BY <1>2, <1>4, <1>8, <2>1, <2>5, <2>7
<1> QED BY <1>6, <1>7, <1>8

\* the last place of queue q was taken
LastPlace(m, q) == Len(m.sent[q]) + 1 - m.got[q] >= QueueSize

\* seq is sent with message msg behind it
Followed(sent, msg, seq) ==
  /\ Len(seq) = Len(sent) + 1
  /\ \A k \in 1 .. Len(sent) : seq[k] = sent[k]
  /\ seq[Len(sent) + 1] = msg

\* What is sent is the last message of the queue.
LEMMA SentMessage ==
  ASSUME NEW m \in Mq, NEW q \in Queues, NEW kind \in {"record", "lost"}, NEW n \in Nat
  PROVE  LET s == Sent(m, q, kind, n)
         IN  /\ s \in Mq /\ s.got = m.got /\ s.lostFlag = m.lostFlag /\ s.lostCount = m.lostCount
             /\ Followed(m.sent[q], [kind |-> kind, n |-> n, full |-> LastPlace(m, q)], s.sent[q])
             /\ Full(s, q) <=> LastPlace(m, q)
<1>1. PICK r : r = [kind |-> kind, n |-> n, full |-> FALSE]
  OBVIOUS
<1>2. PICK s : s = [m EXCEPT !.sent[q] = Append(@, r)]
  OBVIOUS
<1>3. PICK last : last = LastPlace(m, q)
  OBVIOUS
<1>4. r \in Message /\ last \in BOOLEAN
  BY <1>1, <1>3 DEF Message, LastPlace
<1>5. PICK old : old = m.sent[q]
  OBVIOUS
<1>6. /\ m.sent \in [Queues -> Seq(Message)] /\ m.got \in [Queues -> Nat] /\ old \in Seq(Message)
      /\ Len(old) \in Nat /\ m.got[q] \in Nat
  BY <1>5, LenProperties DEF Mq
<1>7. PICK seq : seq = Append(old, r)
  OBVIOUS
<1>8. /\ seq \in Seq(Message) /\ Len(seq) = Len(old) + 1 /\ seq[Len(old) + 1] = r
      /\ \A k \in 1 .. Len(old) : seq[k] = old[k]
      /\ DOMAIN seq = 1 .. Len(old) + 1
  BY <1>4, <1>6, <1>7, AppendProperties, LenProperties
<1>9. s = [m EXCEPT !.sent = [m.sent EXCEPT ![q] = seq]]
  BY <1>2, <1>5, <1>7
<1>10. /\ s.sent = [m.sent EXCEPT ![q] = seq] /\ s.got = m.got
       /\ s.lostFlag = m.lostFlag /\ s.lostCount = m.lostCount
       /\ s.sent[q] = seq
  BY <1>6, <1>9 DEF Mq
<1>11. Full(s, q) <=> last
  <2>1. Full(s, q) <=> Len(old) + 1 - m.got[q] >= QueueSize
    <3>1. Len(s.sent[q]) = Len(old) + 1 /\ s.got[q] = m.got[q]
      BY <1>6, <1>8, <1>10
    <3> QED BY <1>6, <3>1, AlarmLogConstants DEF Full
  <2>2. last <=> Len(old) + 1 - m.got[q] >= QueueSize
    BY <1>3, <1>5 DEF LastPlace
  <2> QED BY <2>1, <2>2
<1>12. PICK u : u = [seq EXCEPT ![Len(old) + 1] = [r EXCEPT !.full = Full(s, q)]]
  OBVIOUS
<1>13. [r EXCEPT !.full = Full(s, q)] = [kind |-> kind, n |-> n, full |-> last]
  <2>1. Full(s, q) = last
    BY <1>4, <1>11 DEF Full
  <2> QED BY <1>1, <2>1
<1>14. [kind |-> kind, n |-> n, full |-> last] \in Message
  BY <1>4 DEF Message
<1>15. u \in Seq(Message) /\ Len(u) = Len(old) + 1
  <2>1. Len(old) + 1 \in 1 .. Len(seq)
    BY <1>6, <1>8
  <2> QED BY <1>8, <1>12, <1>13, <1>14, <2>1, ExceptSeq
<1>16. Followed(old, [kind |-> kind, n |-> n, full |-> last], u)
  <2>1. u[Len(old) + 1] = [kind |-> kind, n |-> n, full |-> last]
    BY <1>6, <1>8, <1>12, <1>13
  <2>2. \A k \in 1 .. Len(old) : u[k] = old[k]
    BY <1>6, <1>8, <1>12
  <2>3. PICK msg : msg = [kind |-> kind, n |-> n, full |-> last]
    OBVIOUS
  <2>4. Followed(old, msg, u)
    <3>1. u[Len(old) + 1] = msg
      BY <2>1, <2>3
    <3>2. Len(u) = Len(old) + 1
      BY <1>15
    <3> QED BY <2>2, <3>1, <3>2 DEF Followed
  <2> QED BY <2>3, <2>4
<1>17. PICK z : z = Sent(m, q, kind, n)
  OBVIOUS
<1>18. z = [s EXCEPT !.sent = [s.sent EXCEPT ![q] = u]]
  <2>1. z = [s EXCEPT !.sent[q][Len(s.sent[q])].full = Full(s, q)]
    BY <1>1, <1>2, <1>17 DEF Sent
  <2>2. PICK L : L = Len(s.sent[q])
    OBVIOUS
  <2>3. z = [s EXCEPT !.sent = [s.sent EXCEPT ![q] =
              [s.sent[q] EXCEPT ![L] = [s.sent[q][L] EXCEPT !.full = Full(s, q)]]]]
    BY <2>1, <2>2
  <2>4. s.sent[q] = seq /\ L = Len(old) + 1 /\ seq[L] = r
    BY <1>8, <1>10, <2>2
  <2>5. u = [s.sent[q] EXCEPT ![L] = [s.sent[q][L] EXCEPT !.full = Full(s, q)]]
    BY <1>12, <2>4
  <2> QED BY <2>3, <2>5
<1>19. /\ z.sent = [m.sent EXCEPT ![q] = u] /\ z.got = m.got
       /\ z.lostFlag = m.lostFlag /\ z.lostCount = m.lostCount /\ z.sent[q] = u
       /\ z \in Mq
  BY <1>6, <1>9, <1>10, <1>15, <1>18 DEF Mq
<1>20. Full(z, q) <=> last
  <2>1. Full(z, q) <=> Len(old) + 1 - m.got[q] >= QueueSize
    <3>1. Len(z.sent[q]) = Len(old) + 1 /\ z.got[q] = m.got[q]
      BY <1>6, <1>15, <1>19
    <3> QED BY <1>6, <3>1, AlarmLogConstants DEF Full
  <2>2. last <=> Len(old) + 1 - m.got[q] >= QueueSize
    BY <1>3, <1>5 DEF LastPlace
  <2> QED BY <2>1, <2>2
<1> QED BY <1>3, <1>5, <1>16, <1>17, <1>19, <1>20

\* what write2MQ makes of m when message i comes for queue q
Written(m, q, i, w) ==
  /\ w.got = m.got
  /\ Full(m, q) => w.sent[q] = m.sent[q] /\ w.lostFlag /\ w.lostCount = m.lostCount + 1
  /\ ~Full(m, q) =>
       LET J   == Len(m.sent[q]) + 1
           msg == [kind |-> "record", n |-> i, full |-> LastPlace(m, q)]
       IN /\ \A k \in 1 .. Len(m.sent[q]) : w.sent[q][k] = m.sent[q][k]
          /\ w.sent[q][J] = msg
          /\ ~m.lostFlag => Len(w.sent[q]) = J /\ w.lostFlag = FALSE /\ w.lostCount = m.lostCount
          /\ m.lostFlag =>
               /\ w.lostFlag = FALSE /\ w.lostCount = 0
               /\ \/ msg.full /\ Len(w.sent[q]) = J
                  \/ /\ Len(w.sent[q]) = J + 1
                     /\ w.sent[q][J + 1].kind = "lost"
                     /\ w.sent[q][J + 1].n = m.lostCount + 1

\* A message that finds the queue full is counted; another one is sent, and reports those.
LEMMA write2MQSends ==
  ASSUME NEW m \in Mq, NEW q \in Queues, NEW i \in Nat
  PROVE  write2MQ(m, q, i) \in Mq /\ Written(m, q, i, write2MQ(m, q, i))
<1>1. /\ m.sent \in [Queues -> Seq(Message)] /\ m.got \in [Queues -> Nat] /\ m.lostFlag \in BOOLEAN
      /\ m.lostCount \in Nat /\ m.sent[q] \in Seq(Message) /\ Len(m.sent[q]) \in Nat
  BY LenProperties DEF Mq
<1>2. CASE Full(m, q)
  <2>1. write2MQ(m, q, i) = [m EXCEPT !.lostFlag = TRUE, !.lostCount = @ + 1]
    BY <1>2 DEF write2MQ
  <2>2. /\ write2MQ(m, q, i) \in Mq /\ write2MQ(m, q, i).got = m.got
        /\ write2MQ(m, q, i).sent = m.sent /\ write2MQ(m, q, i).lostFlag = TRUE
        /\ write2MQ(m, q, i).lostCount = m.lostCount + 1
    <3>1. PICK c \in Nat : c = m.lostCount + 1
      BY <1>1
    <3>2. PICK v : v = [m EXCEPT !.lostFlag = TRUE]
      OBVIOUS
    <3>3. v \in Mq /\ v.got = m.got /\ v.sent = m.sent /\ v.lostFlag = TRUE
      BY <3>2 DEF Mq
    <3>4. write2MQ(m, q, i) = [v EXCEPT !.lostCount = c]
      BY <1>1, <2>1, <3>1, <3>2
    <3> QED BY <3>1, <3>3, <3>4 DEF Mq
  <2> QED BY <1>2, <2>2 DEF Written
<1>3. CASE ~Full(m, q)
  <2>1. PICK s : s = Sent(m, q, "record", i)
    OBVIOUS
  <2>2. /\ s \in Mq /\ s.got = m.got /\ s.lostFlag = m.lostFlag /\ s.lostCount = m.lostCount
        /\ Followed(m.sent[q], [kind |-> "record", n |-> i, full |-> LastPlace(m, q)], s.sent[q])
        /\ Full(s, q) <=> LastPlace(m, q)
    BY <2>1, SentMessage
  <2>3. CASE ~m.lostFlag
    <3>1. write2MQ(m, q, i) = s
      BY <1>3, <2>1, <2>2, <2>3 DEF write2MQ
    <3> QED BY <1>1, <1>3, <2>2, <2>3, <3>1 DEF Written, Followed
  <2>4. CASE m.lostFlag
    <3>1. write2MQ(m, q, i) = Reported(s, q)
      BY <1>3, <2>1, <2>2, <2>4 DEF write2MQ
    <3>2. PICK r : r = [s EXCEPT !.lostFlag = FALSE, !.lostCount = 0]
      OBVIOUS
    <3>3. /\ r \in Mq /\ r.sent = s.sent /\ r.got = s.got
          /\ r.lostFlag = FALSE /\ r.lostCount = 0
      BY <2>2, <3>2 DEF Mq
    <3>4. Full(r, q) <=> LastPlace(m, q)
      BY <2>2, <3>3 DEF Full
    <3>5. CASE Full(r, q)
      <4>1. Reported(s, q) = r
        BY <3>2, <3>5 DEF Reported
      <4> QED BY <1>1, <1>3, <2>2, <2>4, <3>1, <3>3, <3>4, <3>5, <4>1 DEF Written, Followed
    <3>6. CASE ~Full(r, q)
      <4>1. PICK z : z = Sent(r, q, "lost", s.lostCount + 1)
        OBVIOUS
      <4>2. s.lostCount + 1 \in Nat
        BY <1>1, <2>2
      <4>3. /\ z \in Mq /\ z.got = r.got /\ z.lostFlag = r.lostFlag /\ z.lostCount = r.lostCount
            /\ Followed(r.sent[q], [kind |-> "lost", n |-> s.lostCount + 1,
                                    full |-> LastPlace(r, q)], z.sent[q])
        BY <3>3, <4>1, <4>2, SentMessage
      <4>4. Reported(s, q) = z
        BY <3>2, <3>6, <4>1 DEF Reported
      <4>5. /\ Len(s.sent[q]) = Len(m.sent[q]) + 1
            /\ \A k \in 1 .. Len(m.sent[q]) : s.sent[q][k] = m.sent[q][k]
            /\ s.sent[q][Len(m.sent[q]) + 1] =
                 [kind |-> "record", n |-> i, full |-> LastPlace(m, q)]
        BY <2>2 DEF Followed
      <4>6. /\ Len(z.sent[q]) = Len(m.sent[q]) + 2
            /\ \A k \in 1 .. Len(m.sent[q]) + 1 : z.sent[q][k] = s.sent[q][k]
            /\ z.sent[q][Len(m.sent[q]) + 2].kind = "lost"
            /\ z.sent[q][Len(m.sent[q]) + 2].n = m.lostCount + 1
        <5>1. r.sent[q] = s.sent[q]
          BY <3>3
        <5>2. /\ Len(z.sent[q]) = Len(s.sent[q]) + 1
              /\ \A k \in 1 .. Len(s.sent[q]) : z.sent[q][k] = s.sent[q][k]
              /\ z.sent[q][Len(s.sent[q]) + 1].kind = "lost"
              /\ z.sent[q][Len(s.sent[q]) + 1].n = s.lostCount + 1
          BY <4>3, <5>1 DEF Followed
        <5>3. Len(s.sent[q]) = Len(m.sent[q]) + 1 /\ s.lostCount = m.lostCount
              /\ Len(s.sent[q]) + 1 = Len(m.sent[q]) + 2
          BY <1>1, <2>2, <4>5
        <5> QED BY <5>2, <5>3
      <4>7. \A k \in 1 .. Len(m.sent[q]) : z.sent[q][k] = m.sent[q][k]
        BY <1>1, <4>5, <4>6
      <4>8. z.sent[q][Len(m.sent[q]) + 1] =
              [kind |-> "record", n |-> i, full |-> LastPlace(m, q)]
        <5>1. Len(m.sent[q]) + 1 \in 1 .. Len(m.sent[q]) + 1
          BY <1>1
        <5> QED BY <4>5, <4>6, <5>1
      <4>9. z.got = m.got /\ z.lostFlag = FALSE /\ z.lostCount = 0
        BY <2>2, <3>3, <4>3
      <4>10. Len(m.sent[q]) + 2 = Len(m.sent[q]) + 1 + 1
        BY <1>1
      <4>11. Written(m, q, i, z)
        BY <1>3, <2>4, <4>6, <4>7, <4>8, <4>9, <4>10 DEF Written
      <4> QED BY <3>1, <4>3, <4>4, <4>11
    <3> QED BY <3>5, <3>6
  <2> QED BY <1>1, <2>3, <2>4
<1> QED BY <1>2, <1>3

\* The messages of a queue are numbered from 1 on.
LEMMA NumberedMessages ==
  ASSUME log \in Seq(Record), opMods \in Nat, NEW q \in Queues
  PROVE  \E size \in Nat : Next2MQ(q) = size + 1 /\ Next2MQ(q) \in Nat
<1>1. Len(log) \in Nat
  BY LenProperties
<1>2. PICK size \in Nat : size = Len(log) + (IF q = "DB" THEN opMods ELSE 0)
  BY <1>1
<1>3. Next2MQ(q) = size + 1 /\ size + 1 \in Nat
  BY <1>2 DEF Next2MQ
<1> QED BY <1>3

\* The queues after a record is written.
LEMMA QueuedMessages ==
  ASSUME NEW m \in Mq, mode \in Modes, log \in Seq(Record), opMods \in Nat
  PROVE  /\ Queued(m) \in Mq
         /\ \A q \in Queues : mode.queues = {q} => Written(m, q, Next2MQ(q), Queued(m))
<1>1. mode.queues \subseteq Queues /\ Queues = {"printer", "DB"}
  BY AlarmLogConstants DEF Queues
<1> Next2MQ("printer") \in Nat /\ Next2MQ("DB") \in Nat
  BY <1>1, NumberedMessages
<1>2. PICK p : p = IF "printer" \in mode.queues THEN write2MQ(m, "printer", Next2MQ("printer")) ELSE m
  OBVIOUS
<1>3. p \in Mq
  BY <1>1, <1>2, write2MQSends
<1>4. Queued(m) = IF "DB" \in mode.queues THEN write2MQ(p, "DB", Next2MQ("DB")) ELSE p
  BY <1>2 DEF Queued
<1>5. Queued(m) \in Mq
  BY <1>1, <1>3, <1>4, write2MQSends
<1>6. CASE mode.queues = {"printer"}
  BY <1>1, <1>2, <1>4, <1>6, write2MQSends
<1>7. CASE mode.queues = {"DB"}
  BY <1>1, <1>2, <1>4, <1>7, write2MQSends
<1>8. \A q \in Queues : mode.queues = {q} => mode.queues = {"printer"} \/ mode.queues = {"DB"}
  BY <1>1
<1>9. \A q \in Queues : mode.queues = {q} => Written(m, q, Next2MQ(q), Queued(m))
  BY <1>1, <1>2, <1>4, <1>8, write2MQSends
<1> QED BY <1>5, <1>9

----------------------------------------------------------------------------
(* The steps, and the types.                                               *)

\* a step that writes a record
RecordPut(t, len) ==
  /\ Put(Switched(fl, t), t, len)
  /\ mode' = mode /\ now' = now /\ masterFlag' \in BOOLEAN /\ notsave' \in BOOLEAN

\* a step that only changes who writes
Flags ==
  /\ UNCHANGED <<mode, now, disk, fl, window, mq, log, opMods, misdated>>
  /\ masterFlag' \in BOOLEAN /\ notsave' \in BOOLEAN

\* a line of the other log
OpModStep == \E typed \in BOOLEAN : OpModMessage(typed)

\* Every step writes a record, or only changes who writes, or is one of the others.
LEMMA StepCases ==
  ASSUME LogTypeOK, [Next]_logVars
  PROVE  \/ \E t \in 0 .. MaxTime, len \in RecordLength : RecordPut(t, len)
         \/ Flags
         \/ \E len \in RecordLength : OtherRecord(len)
         \/ OpModStep \/ FileSetup \/ SelectAlarmLog \/ AlarmLogWindow
         \/ \E q \in Queues : Receive(q)
         \/ Tick
<1>1. now \in 0 .. MaxTime /\ masterFlag \in BOOLEAN /\ notsave \in BOOLEAN
  BY DEF LogTypeOK
<1>2. CASE UNCHANGED logVars
  BY <1>1, <1>2 DEF Flags, logVars
<1>3. ASSUME NEW len \in RecordLength, NEW t \in 0 .. MaxTime, AlarmRecord(t, len)
      PROVE  RecordPut(t, len)
  BY <1>1, <1>3 DEF AlarmRecord, RecordPut
<1>4. ASSUME NEW len \in RecordLength, StopLogging(len)
      PROVE  RecordPut(now, len) \/ Flags
  BY <1>1, <1>4 DEF StopLogging, RecordPut, Flags
<1>5. ASSUME NEW len \in RecordLength, NotsaveProc(len)
      PROVE  RecordPut(now, len) \/ Flags
  BY <1>1, <1>5 DEF NotsaveProc, RecordPut, Flags
<1>6. CASE BecomeMaster
  BY <1>1, <1>6 DEF BecomeMaster, Flags
<1> QED BY <1>1, <1>2, <1>3, <1>4, <1>5, <1>6 DEF Next, OpModStep

\* What a window that is said to differ from the file keeps.
LEMMA OutdatedWindow ==
  ASSUME NEW w \in Window, NEW cond \in BOOLEAN
  PROVE  /\ Outdated(w, cond) \in Window
         /\ Outdated(w, cond).open = w.open /\ Outdated(w, cond).text = w.text
         /\ Outdated(w, cond).used = w.used
         /\ w.open => Outdated(w, cond).stale = (w.stale \/ cond)
<1>1. CASE w.open
  <2>1. Outdated(w, cond) = [w EXCEPT !.stale = @ \/ cond]
    BY <1>1 DEF Outdated
  <2> QED BY <2>1 DEF Window
<1>2. CASE ~w.open
  BY <1>2 DEF Outdated
<1> QED BY <1>1, <1>2

\* The constants are numbers, and there is a first day.
LEMMA Constants ==
  /\ MaxTime \in Nat /\ DefaultStringLength \in Nat /\ MaxRecords \in Nat \ {0} /\ QueueSize \in Nat \ {0}
  /\ RecordLength \subseteq Nat \ {0}
  /\ 0 \in Days
<1>1. MaxTime \in Nat
  BY AlarmLogConstants
<1>2. 0 \in Days
  BY <1>1, DayBounds DEF Days
<1> QED BY <1>1, <1>2, AlarmLogConstants

\* A ring does not wrap at its start.
LEMMA ShortOffset ==
  ASSUME NEW f, f.offset = 0, f.stringLength \in Nat, f.stringLength > 0
  PROVE  ~Wraps(f)
<1>1. MaxRecords \in Nat /\ MaxRecords > 0
  BY Constants
<1>2. PICK limit : limit = f.stringLength * MaxRecords
  OBVIOUS
<1>3. limit \in Nat /\ limit > 0
  BY <1>1, <1>2
<1>4. Wraps(f) <=> f.offset >= limit
  BY <1>2 DEF Wraps
<1> QED BY <1>3, <1>4

\* What a record changes besides the file.
LEMMA RecordKept ==
  ASSUME LogTypeOK, NEW t \in 0 .. MaxTime, NEW len \in RecordLength, RecordPut(t, len)
  PROVE  LogTypeOK'
<1>1. /\ mode \in Modes /\ fl \in File /\ log \in Seq(Record) /\ misdated \in BOOLEAN
      /\ disk \in [Days -> Seq(Byte)] /\ mq \in Mq /\ now \in 0 .. MaxTime /\ opMods \in Nat
  BY DEF LogTypeOK
<1>2. PICK f : f = Switched(fl, t)
  OBVIOUS
<1>3. f \in File
  BY <1>1, <1>2, SwitchedFile
<1>4. Put(f, t, len)
  BY <1>2 DEF RecordPut
<1>5. PICK content \in Seq(Byte), new \in Seq(Byte) : \E g \in File, at \in Nat :
        PutStep(f, len, content, g, at, new)
  BY <1>3, <1>4, PutFile
<1>6. disk' = [disk EXCEPT ![f.name] = new] /\ fl' \in File
  BY <1>5 DEF PutStep
<1>7. disk' \in [Days -> Seq(Byte)]
  BY <1>1, <1>6
<1>8. window' \in Window
  BY <1>3, <1>4, WindowPut
<1>9. mq' \in Mq
  <2>1. mq' = Queued(mq)
    BY <1>4 DEF Put
  <2> QED BY <1>1, <2>1, QueuedMessages
<1>10. log' \in Seq(Record)
  <2>1. log' = Append(log, [time |-> t, len |-> len]) /\ [time |-> t, len |-> len] \in Record
    BY <1>4 DEF Put, Record
  <2> QED BY <1>1, <2>1, AppendProperties
<1>11. misdated' \in BOOLEAN /\ opMods' \in Nat
  BY <1>1, <1>4 DEF Put
<1> QED BY <1>1, <1>6, <1>7, <1>8, <1>9, <1>10, <1>11 DEF LogTypeOK, RecordPut

\* The file that is open after the operator selected the alarm log again.
LEMMA SelectedLog ==
  ASSUME LogTypeOK, SelectAlarmLog
  PROVE  \E name \in Days :
           /\ name = IF mode.dated THEN Day(now) ELSE 0
           /\ disk' = [disk EXCEPT ![name] =
                         IF mode.dated \/ mode.locked \/ mode.readOnly THEN @ ELSE <<>>]
           /\ fl' \in File /\ fl'.name = name /\ fl'.append = (mode.dated \/ mode.locked)
           /\ fl'.offset = 0 /\ fl'.stringLength = fl.stringLength
<1>1. Day(now) \in Days /\ 0 \in Days /\ mode.dated \in BOOLEAN /\ mode.locked \in BOOLEAN
  BY DayTyped, Constants, AlarmLogConstants DEF LogTypeOK
<1>2. PICK name \in Days : name = IF mode.dated THEN Day(now) ELSE 0
  BY <1>1
<1>3. fl' = [Opened(name, Day(now)) EXCEPT !.stringLength = fl.stringLength]
  BY <1>2 DEF SelectAlarmLog
<1>4. PICK a \in BOOLEAN : a = (mode.dated \/ mode.locked)
  <2>1. (mode.dated \/ mode.locked) \in BOOLEAN
    OBVIOUS
  <2> QED BY <2>1
<1>5. fl' = [name |-> name, tmDay |-> Day(now), append |-> a, offset |-> 0,
             stringLength |-> fl.stringLength]
  BY <1>3, <1>4 DEF Opened
<1>6. fl.stringLength \in Nat
  BY DEF LogTypeOK, File
<1>7. /\ fl' \in File /\ fl'.name = name /\ fl'.append = (mode.dated \/ mode.locked)
      /\ fl'.offset = 0 /\ fl'.stringLength = fl.stringLength
  BY <1>1, <1>4, <1>5, <1>6 DEF File
<1> QED BY <1>2, <1>7 DEF SelectAlarmLog

\* The variables have their types at the start.
LEMMA InitTyped ==
  Init => LogTypeOK
<1> HAVE Init
<1>1. mode \in Modes /\ mode.dated \in BOOLEAN /\ mode.locked \in BOOLEAN
  BY AlarmLogConstants DEF Init
<1>2. fl \in File
  <2>1. (mode.dated \/ mode.locked) \in BOOLEAN
    OBVIOUS
  <2>2. fl = [name |-> 0, tmDay |-> 0, append |-> mode.dated \/ mode.locked,
              offset |-> 0, stringLength |-> DefaultStringLength]
    BY DEF Init, Opened
  <2> QED BY <2>1, <2>2, Constants DEF File
<1>3. <<>> \in Seq(Byte) /\ <<>> \in Seq(Record) /\ <<>> \in Seq(Message)
  BY EmptySeq
<1>4. disk \in [Days -> Seq(Byte)] /\ log \in Seq(Record)
  BY <1>3 DEF Init
<1>5. window \in Window
  BY <1>3 DEF Init, Window
<1>6. mq \in Mq
  BY <1>3 DEF Init, Mq
<1>7. now \in 0 .. MaxTime /\ masterFlag \in BOOLEAN /\ notsave \in BOOLEAN /\ misdated \in BOOLEAN
      /\ opMods \in Nat
  <2>1. now = 0 /\ masterFlag \in {FALSE, mode.locked} /\ notsave = FALSE /\ misdated = FALSE
        /\ opMods = 0
    BY DEF Init
  <2>2. now \in 0 .. MaxTime
    BY <2>1, Constants
  <2>3. masterFlag \in BOOLEAN
    BY <1>1, <2>1
  <2> QED BY <2>1, <2>2, <2>3
<1> QED BY <1>1, <1>2, <1>4, <1>5, <1>6, <1>7 DEF LogTypeOK

\* Every step keeps the types.
LEMMA TypesKept ==
  ASSUME LogTypeOK, [Next]_logVars
  PROVE  LogTypeOK'
<1>1. /\ mode \in Modes /\ fl \in File /\ log \in Seq(Record) /\ misdated \in BOOLEAN
      /\ disk \in [Days -> Seq(Byte)] /\ mq \in Mq /\ now \in 0 .. MaxTime /\ window \in Window
      /\ masterFlag \in BOOLEAN /\ notsave \in BOOLEAN /\ opMods \in Nat
  BY DEF LogTypeOK
<1>2. CASE Flags
  BY <1>1, <1>2 DEF Flags, LogTypeOK
<1>3. ASSUME NEW len \in RecordLength, OtherRecord(len) PROVE LogTypeOK'
  <2>1. PICK more : more = [k \in 1 .. len |-> <<MaxLog + 1, k>>]
    OBVIOUS
  <2>2. more \in Seq(Byte)
    <3>1. MaxLog + 1 \in Nat /\ len \in Nat
      BY AlarmLogConstants
    <3>2. \A k \in 1 .. len : <<MaxLog + 1, k>> \in Byte
      BY <3>1 DEF Byte
    <3>3. more \in [1 .. len -> Byte]
      BY <2>1, <3>2
    <3> QED BY <3>1, <3>3, SeqDef
  <2>3. disk[0] \o more \in Seq(Byte)
    BY <1>1, <2>2, Constants, ConcatProperties
  <2>4. disk' = [disk EXCEPT ![0] = disk[0] \o more]
    BY <1>3, <2>1 DEF OtherRecord
  <2>5. disk' \in [Days -> Seq(Byte)]
    BY <1>1, <2>3, <2>4
  <2>6. window' \in Window
    BY <1>1, <1>3, OutdatedWindow DEF OtherRecord
  <2> QED BY <1>1, <1>3, <2>5, <2>6 DEF OtherRecord, LogTypeOK
<1>4. CASE OpModStep
  <2>1. fl' \in File
    BY <1>1, <1>4, SwitchedFile DEF OpModStep, OpModMessage
  <2>2. window' \in Window
    <3>1. PICK cond \in BOOLEAN : cond = (fl'.name # fl.name)
      <4>1. (fl'.name # fl.name) \in BOOLEAN
        OBVIOUS
      <4> QED BY <4>1
    <3>2. window' = Outdated(window, cond)
      BY <1>4, <3>1 DEF OpModStep, OpModMessage
    <3> QED BY <1>1, <3>2, OutdatedWindow
  <2>3. mq' \in Mq /\ opMods' \in Nat
    <3>1. "DB" \in Queues /\ Next2MQ("DB") \in Nat
      BY <1>1, NumberedMessages DEF Queues
    <3>2. write2MQ(mq, "DB", Next2MQ("DB")) \in Mq
      BY <1>1, <3>1, write2MQSends
    <3> QED BY <1>1, <1>4, <3>2 DEF OpModStep, OpModMessage
  <2> QED BY <1>1, <1>4, <2>1, <2>2, <2>3 DEF OpModStep, OpModMessage, LogTypeOK
<1>5. CASE FileSetup
  <2>1. Day(now) \in Days
    BY <1>1, DayTyped
  <2>2. fl' \in File
    BY <1>1, <1>5, <2>1 DEF FileSetup, File
  <2> QED BY <1>1, <1>5, <2>2 DEF FileSetup, LogTypeOK
<1>6. CASE SelectAlarmLog
  <2>1. PICK name \in Days :
          /\ disk' = [disk EXCEPT ![name] =
                        IF mode.dated \/ mode.locked \/ mode.readOnly THEN @ ELSE <<>>]
          /\ fl' \in File
    BY <1>6, SelectedLog
  <2>2. <<>> \in Seq(Byte)
    BY EmptySeq
  <2>3. disk' \in [Days -> Seq(Byte)]
    BY <1>1, <2>1, <2>2
  <2>4. window' \in Window
    BY <1>1, <1>6, OutdatedWindow DEF SelectAlarmLog
  <2> QED BY <1>1, <1>6, <2>1, <2>3, <2>4 DEF SelectAlarmLog, LogTypeOK
<1>7. CASE AlarmLogWindow
  <2>1. <<>> \in Seq(Byte) /\ disk[fl.name] \in Seq(Byte) /\ fl.offset \in Nat
    BY <1>1, EmptySeq DEF File
  <2>2. UsedLength(disk[fl.name], fl) \in Nat
    BY <2>1, LenProperties DEF UsedLength
  <2>3. window' \in Window
    BY <1>7, <2>1, <2>2 DEF AlarmLogWindow, Window
  <2> QED BY <1>1, <1>7, <2>3 DEF AlarmLogWindow, LogTypeOK
<1>8. ASSUME NEW q \in Queues, Receive(q) PROVE LogTypeOK'
  <2>1. mq' = [mq EXCEPT !.got[q] = @ + 1]
    BY <1>8 DEF Receive
  <2>2. mq' \in Mq
    <3>1. mq.got \in [Queues -> Nat] /\ mq.got[q] + 1 \in Nat
      BY <1>1 DEF Mq
    <3>2. PICK got : got = [mq.got EXCEPT ![q] = mq.got[q] + 1]
      OBVIOUS
    <3>3. got \in [Queues -> Nat]
      BY <3>1, <3>2
    <3>4. mq' = [mq EXCEPT !.got = got]
      BY <2>1, <3>2
    <3> QED BY <1>1, <3>3, <3>4 DEF Mq
  <2> QED BY <1>1, <1>8, <2>2 DEF Receive, LogTypeOK
<1>9. CASE Tick
  <2>1. now' \in 0 .. MaxTime
    BY <1>1, <1>9, Constants DEF Tick
  <2> QED BY <1>1, <1>9, <2>1 DEF Tick, LogTypeOK
<1> QED BY <1>2, <1>3, <1>4, <1>5, <1>6, <1>7, <1>8, <1>9, StepCases, RecordKept

----------------------------------------------------------------------------
(* The ring.                                                               *)

\* A process with the lock appends, and without -T there is one file.
LEMMA FileInvKept ==
  ASSUME LogTypeOK, FileInv, [Next]_logVars
  PROVE  FileInv'
<1>1. /\ mode \in Modes /\ fl \in File /\ now \in 0 .. MaxTime
      /\ mode.dated \in BOOLEAN /\ mode.locked \in BOOLEAN
  BY AlarmLogConstants DEF LogTypeOK
<1>2. CASE Flags
  BY <1>2 DEF Flags, FileInv
<1>3. ASSUME NEW t \in 0 .. MaxTime, NEW len \in RecordLength, RecordPut(t, len)
      PROVE  FileInv'
  <2>1. PICK f : f = Switched(fl, t)
    OBVIOUS
  <2>2. /\ f \in File
        /\ mode.locked => f.append
        /\ ~mode.dated => f.name = 0
    BY <1>1, <2>1, SwitchedFile DEF FileInv
  <2>3. Put(f, t, len) /\ mode' = mode
    BY <1>3, <2>1 DEF RecordPut
  <2>4. PICK content \in Seq(Byte), new \in Seq(Byte), g \in File, at \in Nat :
          PutStep(f, len, content, g, at, new)
    BY <2>2, <2>3, PutFile
  <2>5. fl'.name = f.name /\ fl'.append = f.append
    BY <2>4 DEF PutStep
  <2>6. ASSUME ~mode.readOnly
        PROVE  /\ fl'.stringLength > 0
               /\ f.append => fl'.offset = Len(disk'[fl'.name])
    <3>1. /\ f.stringLength > 0 /\ f.stringLength \in Nat /\ len \in Nat /\ len > 0
          /\ f.name \in Days
      <4>1. f.stringLength = fl.stringLength
        BY <1>1, <2>1 DEF Switched, File
      <4> QED BY <2>2, <2>6, <4>1, Constants DEF FileInv, File
    <3>2. /\ disk' = [disk EXCEPT ![f.name] = new] /\ fl'.offset = at + len
          /\ Covers(content, at, Len(log) + 1, len, new)
          /\ fl'.stringLength = IF g.offset = 0 THEN fl'.offset ELSE f.stringLength
          /\ f.append => at = Len(content)
      BY <2>4, <2>6 DEF PutStep
    <3>3. Len(content) \in Nat
      BY LenProperties
    <3>4. f.append => Len(new) = at + len
      BY <3>1, <3>2, <3>3 DEF Covers
    <3>5. disk'[fl'.name] = new
      BY <1>1, <2>5, <3>1, <3>2 DEF LogTypeOK
    <3> QED BY <3>1, <3>2, <3>4, <3>5
  <2> QED BY <1>1, <2>2, <2>3, <2>5, <2>6 DEF FileInv
<1>4. CASE OpModStep
  <2>1. fl' = Switched(fl, now) /\ mode' = mode /\ disk' = disk
    BY <1>4 DEF OpModStep, OpModMessage
  <2>2. fl'.stringLength = fl.stringLength
    BY <1>1, <2>1 DEF Switched, File
  <2> QED BY <1>1, <2>1, <2>2, SwitchedFile DEF FileInv
<1>5. CASE FileSetup
  BY <1>1, <1>5 DEF FileSetup, FileInv, File
<1>6. CASE SelectAlarmLog
  <2>1. mode' = mode
    BY <1>6 DEF SelectAlarmLog
  <2> QED BY <1>1, <1>6, <2>1, SelectedLog DEF FileInv
<1>7. ASSUME NEW len \in RecordLength, OtherRecord(len) PROVE FileInv'
  <2>1. UNCHANGED <<mode, fl>> /\ (~mode.readOnly => ~mode.dated) /\ disk[0] = <<>>
    BY <1>7 DEF OtherRecord
  <2>2. ~mode.readOnly /\ fl.append => fl.offset = 0
    BY <2>1, EmptySeq DEF FileInv
  <2> QED BY <2>1, <2>2 DEF FileInv
<1>8. CASE AlarmLogWindow
  BY <1>8 DEF AlarmLogWindow, FileInv
<1>9. ASSUME NEW q \in Queues, Receive(q) PROVE FileInv'
  BY <1>9 DEF Receive, FileInv
<1>10. CASE Tick
  BY <1>10 DEF Tick, FileInv
<1> QED BY <1>2, <1>3, <1>4, <1>5, <1>6, <1>7, <1>8, <1>9, <1>10, StepCases

\* A record behind whole records makes whole records.
LEMMA WholeAfterRecord ==
  ASSUME NEW records \in Seq(Record), NEW record \in Record, NEW content, NEW new,
         NEW at \in Nat, Whole(content, at, records), Len(content) \in Nat, Len(new) \in Nat,
         Covers(content, at, Len(records) + 1, record.len, new)
  PROVE  Whole(new, at + record.len, Append(records, record))
<1>1. PICK i, len, more :
        i = Len(records) + 1 /\ len = record.len /\ more = Append(records, record)
  OBVIOUS
<1>2. /\ len \in Nat \ {0} /\ i \in Nat /\ Len(records) \in Nat
      /\ DOMAIN records = 1 .. Len(records) /\ DOMAIN more = 1 .. i /\ more[i] = record
      /\ \A k \in 1 .. Len(records) : more[k] = records[k]
  BY <1>1, Constants, AppendProperties, LenProperties DEF Record
<1>3. /\ Len(new) = IF Len(content) >= at + len THEN Len(content) ELSE at + len
      /\ \A n \in 1 .. Len(new) :
           new[n] = IF n \in at + 1 .. at + len THEN <<i, n - at>>
                    ELSE IF n <= Len(content) THEN content[n] ELSE Hole
  BY <1>1 DEF Covers
<1>4. at <= Len(content) /\ at + len <= Len(new)
  BY <1>2, <1>3 DEF Whole
<1>5. ASSUME NEW n \in 1 .. at
      PROVE  /\ new[n] = content[n] /\ content[n][1] \in 1 .. Len(records)
             /\ more[content[n][1]] = records[content[n][1]]
  <2>1. n \in 1 .. Len(new) /\ n \notin at + 1 .. at + len /\ n <= Len(content)
    BY <1>2, <1>4
  <2>2. content[n][1] \in 1 .. Len(records)
    BY <1>2 DEF Whole
  <2> QED BY <1>2, <1>3, <2>1, <2>2
<1>6. ASSUME NEW n \in at + 1 .. at + len
      PROVE  new[n] = <<i, n - at>>
  <2>1. n \in 1 .. Len(new)
    BY <1>2, <1>4
  <2> QED BY <1>3, <2>1
<1>7. ASSUME NEW n \in 1 .. at + len
      PROVE  LET b == new[n]
             IN /\ b[1] \in DOMAIN more
                /\ n = 1 => b[2] = 1
                /\ n < at + len => LET c == new[n + 1]
                                   IN \/ c = <<b[1], b[2] + 1>>
                                      \/ b[2] = more[b[1]].len /\ c[2] = 1 /\ c[1] > b[1]
                /\ n = at + len => b[2] = more[b[1]].len
  <2>1. CASE n \in at + 1 .. at + len
    <3>1. new[n] = <<i, n - at>> /\ i \in DOMAIN more /\ (n = 1 => n - at = 1)
      <4>1. i \in 1 .. i /\ (n = 1 => n - at = 1)
        BY <1>1, <1>2, <2>1
      <4> QED BY <1>2, <1>6, <2>1, <4>1
    <3>2. n < at + len => new[n + 1] = <<i, (n - at) + 1>>
      <4> HAVE n < at + len
      <4>1. n + 1 \in at + 1 .. at + len /\ (n + 1) - at = (n - at) + 1
        BY <1>2, <2>1
      <4> QED BY <1>6, <4>1
    <3>3. n = at + len => n - at = more[i].len
      BY <1>1, <1>2
    <3> QED BY <3>1, <3>2, <3>3
  <2>2. CASE n \in 1 .. at
    <3>1. /\ new[n] = content[n] /\ content[n][1] \in 1 .. Len(records)
          /\ more[content[n][1]] = records[content[n][1]]
      BY <1>5, <2>2
    <3>2. content[n][1] \in DOMAIN more
      <4>1. content[n][1] \in 1 .. i
        BY <1>1, <1>2, <3>1
      <4> QED BY <1>2, <4>1
    <3>3. n = 1 => content[n][2] = 1
      BY <2>2 DEF Whole
    <3>4. ~(n = at + len) /\ n < at + len
      BY <1>2, <2>2
    <3>5. CASE n < at
      <4>1. n + 1 \in 1 .. at
        BY <2>2, <3>5
      <4>2. new[n + 1] = content[n + 1]
        BY <1>5, <4>1
      <4>3. \/ content[n + 1] = <<content[n][1], content[n][2] + 1>>
            \/ /\ content[n][2] = records[content[n][1]].len /\ content[n + 1][2] = 1
               /\ content[n + 1][1] > content[n][1]
        BY <2>2, <3>5 DEF Whole
      <4> QED BY <3>1, <3>2, <3>3, <3>4, <4>2, <4>3
    <3>6. CASE n = at
      <4>1. n + 1 \in at + 1 .. at + len /\ (n + 1) - at = 1
        BY <1>2, <3>6
      <4>2. new[n + 1] = <<i, 1>>
        BY <1>6, <4>1
      <4>3. content[n][2] = records[content[n][1]].len
        BY <2>2, <3>6 DEF Whole
      <4>4. i > content[n][1]
        BY <1>1, <1>2, <3>1
      <4> QED BY <3>1, <3>2, <3>3, <3>4, <4>2, <4>3, <4>4
    <3>7. n < at \/ n = at
      BY <2>2
    <3> QED BY <3>5, <3>6, <3>7
  <2>3. n \in at + 1 .. at + len \/ n \in 1 .. at
    BY <1>2
  <2> QED BY <2>1, <2>2, <2>3
<1> QED BY <1>1, <1>4, <1>7 DEF Whole

\* A ring that is not full has place for a record of any length below the bound.
LEMMA PlaceInRing ==
  ASSUME NEW size \in Nat, NEW longest \in Nat, NEW offset \in Nat, NEW len \in Nat,
         size <= longest, len <= longest, offset < size * MaxRecords
  PROVE  offset + len < (MaxRecords + 1) * longest
<1>1. MaxRecords \in Nat /\ MaxRecords > 0
  BY Constants
<1>2. size * MaxRecords <= longest * MaxRecords
  BY <1>1
<1>3. (MaxRecords + 1) * longest = longest * MaxRecords + longest
  BY <1>1
<1>4. longest * MaxRecords \in Nat /\ size * MaxRecords \in Nat
  BY <1>1
<1> QED BY <1>2, <1>3, <1>4

\* One record is always below the bound of the ring.
LEMMA OneRecordFits ==
  ASSUME NEW len \in Nat, len <= Max(RecordLength)
  PROVE  len < (MaxRecords + 1) * Max(RecordLength)
<1>1. MaxRecords \in Nat /\ MaxRecords > 0 /\ Max(RecordLength) \in Nat /\ Max(RecordLength) > 0
  BY Constants, LongestRecord
<1>2. (MaxRecords + 1) * Max(RecordLength) = MaxRecords * Max(RecordLength) + Max(RecordLength)
  BY <1>1
<1>3. MaxRecords * Max(RecordLength) >= Max(RecordLength)
  BY <1>1
<1> QED BY <1>1, <1>2, <1>3

\* A record keeps the ring.
LEMMA RingInvAfterRecord ==
  ASSUME LogTypeOK, FileInv, RingInv, NEW t \in 0 .. MaxTime, NEW len \in RecordLength,
         RecordPut(t, len)
  PROVE  /\ ~mode.readOnly /\ ~fl'.append => Whole(disk'[fl'.name], fl'.offset, log')
         /\ ~mode.dated /\ ~mode.locked => BoundInv'
<1>1. /\ mode \in Modes /\ fl \in File /\ log \in Seq(Record) /\ disk \in [Days -> Seq(Byte)]
      /\ mode.dated \in BOOLEAN /\ mode.locked \in BOOLEAN /\ mode.readOnly \in BOOLEAN
      /\ len \in Nat \ {0}
  BY Constants, AlarmLogConstants DEF LogTypeOK
<1>2. PICK f : f = Switched(fl, t)
  OBVIOUS
<1>3. /\ f \in File /\ f.name \in Days /\ f.offset \in Nat
      /\ IF mode.dated /\ Day(t) # fl.tmDay THEN f.offset = 0 ELSE f = fl
  BY <1>1, <1>2, SwitchedFile DEF File
<1>4. Put(f, t, len) /\ mode' = mode
  BY <1>2, <1>3 DEF RecordPut
<1>5. PICK content \in Seq(Byte), new \in Seq(Byte), g \in File, at \in Nat :
        PutStep(f, len, content, g, at, new)
  BY <1>3, <1>4, PutFile
<1>6. disk'[f.name] = new /\ fl'.name = f.name /\ fl'.append = f.append
  BY <1>1, <1>3, <1>5 DEF PutStep
<1>7. /\ Len(content) \in Nat /\ Len(new) \in Nat
      /\ disk[f.name] \in Seq(Byte) /\ Len(disk[f.name]) \in Nat
  BY <1>1, <1>3, LenProperties
<1>8. PICK record : record = [time |-> t, len |-> len]
  OBVIOUS
<1>9. record \in Record /\ record.len = len /\ log' = Append(log, record)
  BY <1>4, <1>8 DEF Put, Record
<1>10. ASSUME ~mode.readOnly, ~fl'.append
       PROVE  Whole(disk'[fl'.name], fl'.offset, log')
  <2>1. ~f.append
    BY <1>6, <1>10
  <2>2. at = g.offset /\ Covers(content, at, Len(log) + 1, len, new) /\ fl'.offset = at + len
    BY <1>5, <1>10, <2>1 DEF PutStep
  <2>3. Whole(content, at, log)
    <3>1. CASE at = 0
      BY <1>7, <3>1 DEF Whole
    <3>2. CASE at # 0
      <4>1. ~Wraps(f)
        BY <1>3, <1>5, <2>2, <3>2 DEF PutStep, File
      <4>2. g = f /\ content = disk[f.name]
        BY <1>5, <4>1 DEF PutStep
      <4>3. f = fl
        BY <1>3, <2>2, <3>2, <4>2
      <4> QED BY <1>10, <2>1, <2>2, <4>2, <4>3 DEF RingInv
    <3> QED BY <3>1, <3>2
  <2>4. Whole(new, at + record.len, Append(log, record))
    BY <1>1, <1>7, <1>9, <2>2, <2>3, WholeAfterRecord
  <2> QED BY <1>6, <1>9, <2>2, <2>4
<1>11. ASSUME ~mode.dated, ~mode.locked
       PROVE  BoundInv'
  <2>1. f = fl /\ fl.name = 0 /\ BoundInv
    BY <1>3, <1>11 DEF FileInv, RingInv
  <2>2. PICK longest : longest = Max(RecordLength)
    OBVIOUS
  <2>3. longest \in Nat /\ len <= longest
    BY <2>2, LongestRecord
  <2>4. Len(content) <= Len(disk[0])
    BY <1>3, <1>5, <1>7, <2>1 DEF PutStep
  <2>5. CASE mode.readOnly
    <3>1. new = content
      BY <1>5, <2>5 DEF PutStep
    <3>2. Len(disk'[0]) <= longest
      BY <1>6, <1>7, <2>1, <2>2, <2>3, <2>4, <2>5, <3>1 DEF BoundInv
    <3> QED BY <1>4, <2>2, <2>5, <3>2 DEF BoundInv
  <2>6. CASE ~mode.readOnly
    <3>1. /\ ~f.append /\ Len(disk[0]) < (MaxRecords + 1) * longest
          /\ IF f.offset = 0 THEN disk[0] = <<>> ELSE f.stringLength <= longest
      BY <2>1, <2>2, <2>6 DEF BoundInv
    <3>2. /\ at = g.offset /\ Covers(content, at, Len(log) + 1, len, new)
          /\ fl'.offset = at + len
          /\ fl'.stringLength = IF g.offset = 0 THEN at + len ELSE f.stringLength
      <4>1. at = g.offset /\ Covers(content, at, Len(log) + 1, len, new)
            /\ fl'.offset = at + len
        BY <1>5, <2>6, <3>1 DEF PutStep
      <4>2. fl'.stringLength = IF g.offset = 0 THEN fl'.offset ELSE f.stringLength
        BY <1>5 DEF PutStep
      <4> QED BY <4>1, <4>2
    <3>3. Len(new) = IF Len(content) >= at + len THEN Len(content) ELSE at + len
      BY <3>2 DEF Covers
    <3>4. at + len < (MaxRecords + 1) * longest
      <4>1. CASE at = 0
        BY <1>1, <2>2, <2>3, <4>1, OneRecordFits
      <4>2. CASE at # 0
        <5>1. ~Wraps(f) /\ g = f
          BY <1>3, <1>5, <3>2, <4>2 DEF PutStep, File
        <5>2. f.stringLength \in Nat /\ MaxRecords \in Nat
          BY <1>3, Constants DEF File
        <5>3. PICK limit : limit = f.stringLength * MaxRecords
          OBVIOUS
        <5>4. limit \in Nat /\ ~(f.offset >= limit)
          BY <5>1, <5>2, <5>3 DEF Wraps
        <5>5. f.offset < f.stringLength * MaxRecords
          BY <1>3, <5>3, <5>4
        <5>6. f.stringLength <= longest /\ f.offset = at
          BY <3>1, <3>2, <4>2, <5>1
        <5> QED BY <1>1, <2>3, <5>2, <5>5, <5>6, PlaceInRing
      <4> QED BY <4>1, <4>2
    <3>5. Len(new) < (MaxRecords + 1) * longest
      <4>1. PICK bound : bound = (MaxRecords + 1) * longest
        OBVIOUS
      <4>2. bound \in Nat
        BY <2>3, <4>1, Constants
      <4> QED BY <1>1, <1>7, <2>4, <2>1, <3>1, <3>3, <3>4, <4>1, <4>2
    <3>6. fl'.offset # 0
      BY <1>1, <3>2
    <3>7. fl'.stringLength <= longest
      <4>1. CASE g.offset = 0
        BY <1>1, <2>3, <3>2, <4>1
      <4>2. CASE g.offset # 0
        <5>1. g = f
          BY <1>3, <1>5, <4>2 DEF PutStep, File
        <5> QED BY <3>1, <3>2, <4>2, <5>1
      <4> QED BY <4>1, <4>2
    <3>8. disk'[0] = new /\ ~fl'.append
      BY <1>6, <2>1, <3>1
    <3> QED BY <1>4, <2>2, <2>6, <3>5, <3>6, <3>7, <3>8 DEF BoundInv
  <2> QED BY <2>5, <2>6
<1> QED BY <1>10, <1>11

\* Every step keeps the ring.
LEMMA RingInvKept ==
  ASSUME LogTypeOK, FileInv, RingInv, [Next]_logVars
  PROVE  RingInv'
<1>1. /\ mode \in Modes /\ fl \in File /\ now \in 0 .. MaxTime /\ disk \in [Days -> Seq(Byte)]
      /\ mode.dated \in BOOLEAN /\ mode.locked \in BOOLEAN /\ mode.readOnly \in BOOLEAN
  BY AlarmLogConstants DEF LogTypeOK
<1>2. CASE Flags
  BY <1>2 DEF Flags, RingInv, BoundInv
<1>3. ASSUME NEW t \in 0 .. MaxTime, NEW len \in RecordLength, RecordPut(t, len)
      PROVE  RingInv'
  <2>1. mode' = mode
    BY <1>3 DEF RecordPut
  <2> QED BY <1>3, <2>1, RingInvAfterRecord DEF RingInv
<1>4. CASE OpModStep
  <2>1. /\ fl' = Switched(fl, now) /\ UNCHANGED <<mode, disk, log>>
    BY <1>4 DEF OpModStep, OpModMessage
  <2>2. CASE mode.dated /\ Day(now) # fl.tmDay
    <3>1. fl'.offset = 0 /\ fl'.name \in Days
      BY <1>1, <2>1, <2>2, SwitchedFile DEF File
    <3>2. Len(disk'[fl'.name]) \in Nat
      BY <1>1, <2>1, <3>1, LenProperties
    <3>3. Whole(disk'[fl'.name], fl'.offset, log')
      BY <3>1, <3>2 DEF Whole
    <3> QED BY <2>1, <2>2, <3>3 DEF RingInv
  <2>3. CASE ~(mode.dated /\ Day(now) # fl.tmDay)
    <3>1. fl' = fl
      BY <1>1, <2>1, <2>3, SwitchedFile
    <3> QED BY <2>1, <3>1 DEF RingInv, BoundInv
  <2> QED BY <2>2, <2>3
<1>5. CASE FileSetup
  <2>1. fl'.name = fl.name /\ fl'.append = fl.append /\ fl'.offset = fl.offset
        /\ fl'.stringLength = fl.stringLength /\ UNCHANGED <<mode, disk, log>>
    BY <1>1, <1>5 DEF FileSetup, File
  <2> QED BY <2>1 DEF RingInv, BoundInv
<1>6. CASE SelectAlarmLog
  <2>1. UNCHANGED <<mode, log>>
    BY <1>6 DEF SelectAlarmLog
  <2>2. PICK name \in Days :
           /\ name = IF mode.dated THEN Day(now) ELSE 0
           /\ disk' = [disk EXCEPT ![name] =
                         IF mode.dated \/ mode.locked \/ mode.readOnly THEN @ ELSE <<>>]
           /\ fl' \in File /\ fl'.name = name /\ fl'.append = (mode.dated \/ mode.locked)
           /\ fl'.offset = 0 /\ fl'.stringLength = fl.stringLength
    BY <1>6, SelectedLog
  <2>3. disk' \in [Days -> Seq(Byte)] /\ Len(disk'[name]) \in Nat
    <3>1. <<>> \in Seq(Byte)
      BY EmptySeq
    <3>2. disk' \in [Days -> Seq(Byte)]
      BY <1>1, <2>2, <3>1
    <3> QED BY <3>2, LenProperties
  <2>4. Whole(disk'[fl'.name], fl'.offset, log')
    BY <2>2, <2>3 DEF Whole
  <2>5. ASSUME ~mode.dated, ~mode.locked PROVE BoundInv'
    <3>1. BoundInv /\ name = 0
      BY <1>1, <2>2, <2>5 DEF RingInv
    <3>2. CASE mode.readOnly
      <4>1. disk'[0] = disk[0]
        BY <1>1, <2>2, <3>1, <3>2
      <4> QED BY <2>1, <3>1, <3>2, <4>1 DEF BoundInv
    <3>3. CASE ~mode.readOnly
      <4>1. disk'[0] = <<>> /\ ~fl'.append
        BY <1>1, <2>2, <2>5, <3>1, <3>3
      <4>2. Len(disk'[0]) = 0 /\ 0 <= Max(RecordLength)
        BY <4>1, LongestRecord
      <4>3. 0 < (MaxRecords + 1) * Max(RecordLength)
        BY <4>2, OneRecordFits
      <4> QED BY <2>1, <2>2, <3>3, <4>1, <4>2, <4>3 DEF BoundInv
    <3> QED BY <3>2, <3>3
  <2> QED BY <2>1, <2>4, <2>5 DEF RingInv
<1>7. ASSUME NEW len \in RecordLength, OtherRecord(len) PROVE RingInv'
  <2>1. /\ UNCHANGED <<mode, fl, log>> /\ disk[0] = <<>>
        /\ mode.readOnly \/ mode.locked
    BY <1>7 DEF OtherRecord
  <2>2. PICK more : more = [k \in 1 .. len |-> <<MaxLog + 1, k>>]
    OBVIOUS
  <2>3. disk' = [disk EXCEPT ![0] = disk[0] \o more]
    BY <1>7, <2>2 DEF OtherRecord
  <2>4. more \in Seq(Nat \X Nat) /\ Len(more) = len /\ len \in Nat
    <3>1. MaxLog + 1 \in Nat /\ len \in Nat
      BY AlarmLogConstants
    <3>2. \A k \in 1 .. len : <<MaxLog + 1, k>> \in Nat \X Nat
      BY <3>1
    <3>3. more \in [1 .. len -> Nat \X Nat]
      BY <2>2, <3>2
    <3>4. more \in Seq(Nat \X Nat)
      BY <3>1, <3>3, SeqDef
    <3> QED BY <2>2, <3>1, <3>4
  <2>5. disk'[0] = more
    <3>1. disk[0] \o more = more
      BY <2>1, <2>4, ConcatEmptySeq
    <3> QED BY <1>1, <2>3, <3>1, Constants
  <2>6. Len(disk'[0]) <= Max(RecordLength)
    BY <2>4, <2>5, LongestRecord
  <2> QED BY <2>1, <2>6 DEF RingInv, BoundInv, FileInv
<1>8. CASE AlarmLogWindow
  BY <1>8 DEF AlarmLogWindow, RingInv, BoundInv
<1>9. ASSUME NEW q \in Queues, Receive(q) PROVE RingInv'
  BY <1>9 DEF Receive, RingInv, BoundInv
<1>10. CASE Tick
  BY <1>10 DEF Tick, RingInv, BoundInv
<1> QED BY <1>2, <1>3, <1>4, <1>5, <1>6, <1>7, <1>8, <1>9, <1>10, StepCases

\* The invariant is what RingSound asks for.
LEMMA RingInvSound ==
  ASSUME LogTypeOK, FileInv, RingInv
  PROVE  RingSound
<1>1. log \in Seq(Record) /\ fl \in File /\ disk \in [Days -> Seq(Byte)] /\ mode.readOnly \in BOOLEAN
  BY AlarmLogConstants DEF LogTypeOK
<1>2. DOMAIN log = 1 .. Len(log) /\ Len(log) \in Nat
  BY <1>1, LenProperties
<1>3. RecordsInOrder
  <2>1. ASSUME ~mode.readOnly, ~fl.append,
               NEW n \in 1 .. fl.offset
        PROVE  disk[fl.name][n] # Hole
    <3>1. disk[fl.name][n][1] \in 1 .. Len(log)
      BY <1>2, <2>1 DEF RingInv, Whole
    <3> QED BY <1>2, <3>1 DEF Hole
  <2> QED BY <2>1 DEF RecordsInOrder, RingInv, Whole
<1>4. RingBounded
  <2>1. ASSUME ~mode.dated, ~mode.locked
        PROVE  Len(disk[0]) < (MaxRecords + 1) * Max(RecordLength)
    <3>1. BoundInv /\ Len(disk[0]) \in Nat
      BY <1>1, <2>1, Constants, LenProperties DEF RingInv
    <3> QED BY <1>1, <3>1, OneRecordFits DEF BoundInv
  <2> QED BY <2>1 DEF RingBounded
<1> QED BY <1>3, <1>4 DEF RingSound

----------------------------------------------------------------------------
(* The files of the days, and the browser.                                 *)

\* A record appended to a file is one more record that starts in it.
LEMMA RecordsAppended ==
  ASSUME NEW content \in Seq(Byte), NEW new \in Seq(Byte), NEW i \in Nat, NEW len \in Nat \ {0},
         Covers(content, Len(content), i, len, new)
  PROVE  RecordsOf(new) = RecordsOf(content) \cup {i}
<1>1. PICK size \in Nat : size = Len(content)
  BY LenProperties
<1>2. /\ Len(new) = size + len /\ DOMAIN new = 1 .. size + len /\ DOMAIN content = 1 .. size
      /\ \A n \in 1 .. size : new[n] = content[n]
      /\ \A n \in size + 1 .. size + len : new[n] = <<i, n - size>>
  <2>1. /\ Len(new) = IF size >= size + len THEN size ELSE size + len
        /\ \A n \in 1 .. Len(new) :
             new[n] = IF n \in size + 1 .. size + len THEN <<i, n - size>>
                      ELSE IF n <= size THEN content[n] ELSE Hole
    BY <1>1 DEF Covers
  <2>2. Len(new) = size + len
    BY <2>1
  <2>3. \A n \in 1 .. size : n \in 1 .. Len(new) /\ n \notin size + 1 .. size + len /\ n <= size
    BY <2>2
  <2>4. \A n \in size + 1 .. size + len : n \in 1 .. Len(new)
    BY <2>2
  <2>5. \A n \in 1 .. size : new[n] = content[n]
    BY <2>1, <2>3
  <2>6. \A n \in size + 1 .. size + len : new[n] = <<i, n - size>>
    BY <2>1, <2>4
  <2> QED BY <1>1, <2>2, <2>5, <2>6, LenProperties
<1>3. ASSUME NEW x \in RecordsOf(content) PROVE x \in RecordsOf(new)
  <2>1. PICK n \in 1 .. size : content[n][2] = 1 /\ x = content[n][1]
    BY <1>2, <1>3 DEF RecordsOf
  <2>2. n \in DOMAIN new /\ new[n][2] = 1 /\ x = new[n][1]
    BY <1>2, <2>1
  <2> QED BY <2>2 DEF RecordsOf
<1>4. i \in RecordsOf(new)
  <2>1. size + 1 \in size + 1 .. size + len /\ (size + 1) - size = 1 /\ size + 1 \in 1 .. size + len
    OBVIOUS
  <2>2. size + 1 \in DOMAIN new /\ new[size + 1] = <<i, 1>>
    BY <1>2, <2>1
  <2>3. new[size + 1][2] = 1 /\ new[size + 1][1] = i
    BY <2>2
  <2> QED BY <2>2, <2>3 DEF RecordsOf
<1>5. ASSUME NEW x \in RecordsOf(new) PROVE x \in RecordsOf(content) \cup {i}
  <2>1. PICK n \in 1 .. size + len : new[n][2] = 1 /\ x = new[n][1]
    BY <1>2, <1>5 DEF RecordsOf
  <2>2. CASE n \in 1 .. size
    <3>1. n \in DOMAIN content /\ content[n][2] = 1 /\ x = content[n][1]
      BY <1>2, <2>1, <2>2
    <3> QED BY <3>1 DEF RecordsOf
  <2>3. CASE n \in size + 1 .. size + len
    BY <1>2, <2>1, <2>3
  <2>4. n \in 1 .. size \/ n \in size + 1 .. size + len
    OBVIOUS
  <2> QED BY <2>2, <2>3, <2>4
<1> QED BY <1>3, <1>4, <1>5

\* Every step keeps the records of each day in the file of that day.
LEMMA DatedInvKept ==
  ASSUME LogTypeOK, FileInv, DatedInv, [Next]_logVars
  PROVE  DatedInv'
<1>1. /\ mode \in Modes /\ fl \in File /\ log \in Seq(Record) /\ disk \in [Days -> Seq(Byte)]
      /\ mode.dated \in BOOLEAN /\ mode.locked \in BOOLEAN /\ mode.readOnly \in BOOLEAN
  BY AlarmLogConstants DEF LogTypeOK
<1>2. CASE UNCHANGED <<mode, disk, log, misdated>>
  BY <1>2 DEF DatedInv
<1>3. ASSUME NEW t \in 0 .. MaxTime, NEW len \in RecordLength, RecordPut(t, len)
      PROVE  DatedInv'
  <2> SUFFICES ASSUME mode'.dated, mode'.locked, ~mode'.readOnly, ~misdated', NEW d \in Days
               PROVE  RecordsOf(disk'[d]) = {i \in DOMAIN log' : Day(log'[i].time) = d}
    BY DEF DatedInv
  <2>1. PICK f : f = Switched(fl, t)
    OBVIOUS
  <2>2. /\ f \in File /\ f.name \in Days
        /\ IF mode.dated /\ Day(t) # fl.tmDay THEN f.name = Day(t) /\ f.tmDay = Day(t) /\ f.append = mode.locked
           ELSE f = fl
    BY <1>1, <2>1, SwitchedFile DEF File
  <2>3. Put(f, t, len) /\ mode' = mode
    BY <1>3, <2>1 DEF RecordPut
  <2>4. ~misdated /\ f.name = f.tmDay
    BY <2>3 DEF Put
  <2>5. f.name = Day(t) /\ f.append
    BY <2>2, <2>3, <2>4 DEF FileInv
  <2>6. PICK content \in Seq(Byte), new \in Seq(Byte), g \in File, at \in Nat :
          PutStep(f, len, content, g, at, new)
    BY <2>2, <2>3, PutFile
  <2>7. content = disk[f.name]
    <3>1. f.offset = 0 \/ f.offset = Len(disk[f.name])
      <4>1. CASE mode.dated /\ Day(t) # fl.tmDay
        BY <1>1, <2>1, <4>1, SwitchedFile
      <4>2. CASE f = fl
        BY <2>3, <2>5, <4>2 DEF FileInv
      <4> QED BY <2>2, <4>1, <4>2
    <3>2. f.stringLength = fl.stringLength
      BY <1>1, <2>1 DEF Switched, File
    <3>3. f.offset = 0 => ~Wraps(f)
      <4>1. f.stringLength \in Nat /\ f.stringLength > 0
        BY <1>1, <2>3, <3>2 DEF FileInv, File
      <4> QED BY <4>1, ShortOffset
    <3>4. Len(disk[f.name]) \in Nat
      BY <1>1, <2>2, LenProperties
    <3> QED BY <2>6, <3>1, <3>3, <3>4 DEF PutStep
  <2>8. content = disk[f.name] /\ at = Len(content) /\ Covers(content, at, Len(log) + 1, len, new)
        /\ disk' = [disk EXCEPT ![f.name] = new]
    BY <2>3, <2>5, <2>6, <2>7 DEF PutStep
  <2>9. /\ Len(log) \in Nat /\ DOMAIN log = 1 .. Len(log)
        /\ DOMAIN log' = 1 .. Len(log) + 1 /\ log'[Len(log) + 1].time = t
        /\ \A i \in 1 .. Len(log) : log'[i] = log[i]
    <3>1. log' = Append(log, [time |-> t, len |-> len]) /\ [time |-> t, len |-> len] \in Record
      BY <2>3 DEF Put, Record
    <3> QED BY <1>1, <3>1, AppendProperties, LenProperties
  <2>10. RecordsOf(disk[d]) = {i \in DOMAIN log : Day(log[i].time) = d}
    BY <2>3, <2>4 DEF DatedInv
  <2>11. CASE d = Day(t)
    <3>1. RecordsOf(disk'[d]) = RecordsOf(disk[d]) \cup {Len(log) + 1}
      <4>1. len \in Nat \ {0} /\ Len(log) + 1 \in Nat
        BY <2>9, Constants
      <4>2. RecordsOf(new) = RecordsOf(content) \cup {Len(log) + 1}
        BY <2>8, <4>1, RecordsAppended
      <4> QED BY <1>1, <2>5, <2>8, <2>11, <4>2
    <3>2. DOMAIN log' = DOMAIN log \cup {Len(log) + 1} /\ Len(log) + 1 \notin DOMAIN log
      BY <2>9
    <3> QED BY <2>9, <2>10, <2>11, <3>1, <3>2
  <2>12. CASE d # Day(t)
    <3>1. disk'[d] = disk[d]
      BY <1>1, <2>5, <2>8, <2>12
    <3>2. DOMAIN log' = DOMAIN log \cup {Len(log) + 1} /\ Len(log) + 1 \notin DOMAIN log
      BY <2>9
    <3> QED BY <2>9, <2>10, <2>12, <3>1, <3>2
  <2> QED BY <2>11, <2>12
<1>4. CASE SelectAlarmLog
  <2>1. UNCHANGED <<mode, log, misdated>>
    BY <1>4 DEF SelectAlarmLog
  <2>2. mode.dated => disk' = disk
    BY <1>1, <1>4, SelectedLog
  <2> QED BY <2>1, <2>2 DEF DatedInv
<1>5. ASSUME NEW len \in RecordLength, OtherRecord(len) PROVE DatedInv'
  BY <1>5 DEF OtherRecord, DatedInv
<1>6. CASE OpModStep
  BY <1>2, <1>6 DEF OpModStep, OpModMessage
<1>7. CASE FileSetup
  BY <1>2, <1>7 DEF FileSetup
<1>8. CASE AlarmLogWindow
  BY <1>2, <1>8 DEF AlarmLogWindow
<1>9. ASSUME NEW q \in Queues, Receive(q) PROVE DatedInv'
  BY <1>2, <1>9 DEF Receive
<1>10. CASE Tick
  BY <1>2, <1>10 DEF Tick
<1>11. CASE Flags
  BY <1>2, <1>11 DEF Flags
<1> QED BY <1>3, <1>4, <1>5, <1>6, <1>7, <1>8, <1>9, <1>10, <1>11, StepCases

\* With the records of each day in its file, the browser finds those of the interval.
LEMMA BrowserSearch ==
  ASSUME LogTypeOK, DatedInv
  PROVE  BrowserFindsAll
<1> SUFFICES ASSUME mode.dated, mode.locked, ~mode.readOnly, ~misdated,
                    NEW from \in 0 .. MaxTime, NEW to \in 0 .. MaxTime, from <= to
             PROVE  Selected(from, to) = {i \in DOMAIN log : log[i].time \in from .. to}
  BY DEF BrowserFindsAll
<1>1. \A d \in Days : RecordsOf(disk[d]) = {i \in DOMAIN log : Day(log[i].time) = d}
  BY DEF DatedInv
<1>2. /\ Day(from) \in Days /\ Day(to) \in Days /\ from \in Nat /\ to \in Nat /\ Hours \in Nat
      /\ Days \subseteq Nat /\ MaxTime \in Nat
      /\ \A d \in Day(from) .. Day(to) : d \in Days
  <2>1. MaxTime \in Nat /\ Hours \in Nat
    BY AlarmLogConstants
  <2>2. Day(MaxTime) \in Nat
    BY <2>1, DayBounds
  <2>3. Day(from) \in Days /\ Day(to) \in Days
    BY DayTyped
  <2>4. Days = 0 .. Day(MaxTime)
    BY DEF Days
  <2> QED BY <2>1, <2>2, <2>3, <2>4
<1>3. ASSUME NEW i \in DOMAIN log
      PROVE  log[i].time \in 0 .. MaxTime /\ Day(log[i].time) \in Days
  <2>1. log[i] \in Record
    BY LenProperties, ElementOfSeq DEF LogTypeOK
  <2> QED BY <2>1, DayTyped DEF Record
<1>4. RecordsOf(<<>>) = {}
  BY EmptySeq DEF RecordsOf
<1>5. PICK days : days = UNION {RecordsOf(disk[d]) : d \in Day(from) .. Day(to)}
  OBVIOUS
<1>6. days = {i \in DOMAIN log : Day(log[i].time) \in Day(from) .. Day(to)}
  <2>1. ASSUME NEW i \in days PROVE i \in DOMAIN log /\ Day(log[i].time) \in Day(from) .. Day(to)
    <3>1. PICK d \in Day(from) .. Day(to) : i \in RecordsOf(disk[d])
      BY <1>5, <2>1
    <3> QED BY <1>1, <1>2, <3>1
  <2>2. ASSUME NEW i \in DOMAIN log, Day(log[i].time) \in Day(from) .. Day(to) PROVE i \in days
    <3>1. i \in RecordsOf(disk[Day(log[i].time)])
      BY <1>1, <1>3, <2>2
    <3> QED BY <1>5, <2>2, <3>1
  <2> QED BY <2>1, <2>2
<1>7. ASSUME NEW i \in DOMAIN log, log[i].time \in from .. to
      PROVE  i \in days /\ log[i].time >= From(from) /\ log[i].time <= To(to)
  <2>1. PICK time \in Nat : time = log[i].time /\ from <= time /\ time <= to /\ Day(time) \in Days
    BY <1>2, <1>3, <1>7
  <2>2. Day(from) <= Day(time) /\ Day(time) <= Day(to)
    BY <1>2, <2>1, DayMonotone
  <2>3. i \in days
    <3>1. Day(time) \in Nat /\ Day(from) \in Nat /\ Day(to) \in Nat
      BY <1>2, <2>1, DayBounds
    <3>2. Day(time) \in Day(from) .. Day(to)
      BY <2>2, <3>1
    <3> QED BY <1>6, <1>7, <2>1, <3>2
  <2>4. Day(from) * Hours <= from /\ to < Day(to) * Hours + Hours
    BY <1>2, DayBounds
  <2>5. PICK a, b : a = Day(from) * Hours /\ b = Day(to) * Hours
    OBVIOUS
  <2>6. a \in Nat /\ b \in Nat /\ a <= from /\ to < b + Hours
    <3>1. Day(from) \in Nat /\ Day(to) \in Nat /\ Hours \in Nat
      BY <1>2, DayBounds
    <3>2. Day(from) * Hours \in Nat /\ Day(to) * Hours \in Nat
      BY <3>1
    <3> QED BY <2>4, <2>5, <3>2
  <2>7. From(from) = IF disk[Day(from)] # <<>> THEN from ELSE a
    BY <2>5 DEF From
  <2>8. To(to) = IF disk[Day(to)] # <<>> THEN to ELSE b + Hours - 1
    BY <2>5 DEF To
  <2>9. time >= From(from) /\ time <= To(to)
    BY <1>2, <2>1, <2>6, <2>7, <2>8
  <2> QED BY <2>1, <2>3, <2>9
<1>8. ASSUME NEW i \in days, log[i].time >= From(from), log[i].time <= To(to)
      PROVE  i \in DOMAIN log /\ log[i].time \in from .. to
  <2>1. i \in DOMAIN log /\ Day(log[i].time) \in Day(from) .. Day(to)
    BY <1>6
  <2>2. PICK time \in Nat : time = log[i].time /\ Day(time) \in Days
    BY <1>3, <1>2, <2>1
  <2>3. Day(time) \in Day(from) .. Day(to) /\ i \in RecordsOf(disk[Day(time)])
    BY <1>1, <2>1, <2>2
  <2>4. from <= time
    <3>1. CASE disk[Day(from)] # <<>>
      BY <1>8, <2>2, <3>1 DEF From
    <3>2. CASE disk[Day(from)] = <<>>
      <4>1. Day(time) # Day(from)
        BY <1>4, <2>3, <3>2
      <4>2. ASSUME time <= from PROVE FALSE
        <5>1. Day(time) <= Day(from)
          BY <1>2, <2>2, <4>2, DayMonotone
        <5>2. Day(time) \in Nat /\ Day(from) \in Nat /\ Day(from) <= Day(time)
          BY <2>2, <2>3, DayBounds
        <5>3. Day(time) = Day(from)
          BY <5>1, <5>2
        <5> QED BY <4>1, <5>3
      <4> QED BY <1>2, <2>2, <4>2
    <3> QED BY <3>1, <3>2
  <2>5. time <= to
    <3>1. CASE disk[Day(to)] # <<>>
      BY <1>8, <2>2, <3>1 DEF To
    <3>2. CASE disk[Day(to)] = <<>>
      <4>1. Day(time) # Day(to)
        BY <1>4, <2>3, <3>2
      <4>2. ASSUME to <= time PROVE FALSE
        <5>1. Day(to) <= Day(time)
          BY <1>2, <2>2, <4>2, DayMonotone
        <5>2. Day(time) \in Nat /\ Day(to) \in Nat /\ Day(time) <= Day(to)
          BY <2>2, <2>3, DayBounds
        <5>3. Day(time) = Day(to)
          BY <5>1, <5>2
        <5> QED BY <4>1, <5>3
      <4> QED BY <1>2, <2>2, <4>2
    <3> QED BY <3>1, <3>2
  <2> QED BY <1>2, <2>1, <2>2, <2>4, <2>5
<1>9. Selected(from, to) = {i \in days : log[i].time >= From(from) /\ log[i].time <= To(to)}
  BY <1>5 DEF Selected
<1> QED BY <1>7, <1>8, <1>9

----------------------------------------------------------------------------
(* The window.                                                             *)

\* A record written at the end of a file is appended to it.
LEMMA CoversAppended ==
  ASSUME NEW content \in Seq(Byte), NEW new \in Seq(Byte), NEW i \in Nat, NEW len \in Nat,
         Covers(content, Len(content), i, len, new)
  PROVE  new = content \o Bytes(i, len)
<1>1. PICK bytes \in Seq(Byte) :
        bytes = Bytes(i, len) /\ Len(bytes) = len /\ \A k \in 1 .. len : bytes[k] = <<i, k>>
  BY BytesOf
<1>2. PICK size \in Nat : size = Len(content)
  BY LenProperties
<1>3. /\ Len(new) = size + len
      /\ \A n \in 1 .. Len(new) :
           new[n] = IF n \in size + 1 .. size + len THEN <<i, n - size>>
                    ELSE IF n <= size THEN content[n] ELSE Hole
  <2>1. /\ Len(new) = IF size >= size + len THEN size ELSE size + len
        /\ \A n \in 1 .. Len(new) :
             new[n] = IF n \in size + 1 .. size + len THEN <<i, n - size>>
                      ELSE IF n <= size THEN content[n] ELSE Hole
    BY <1>2 DEF Covers
  <2> QED BY <2>1
<1>4. PICK both : both = content \o bytes
  OBVIOUS
<1>5. /\ both \in Seq(Byte) /\ Len(both) = size + len
      /\ \A n \in 1 .. size + len :
           both[n] = IF n <= size THEN content[n] ELSE bytes[n - size]
  <2>1. /\ content \o bytes \in Seq(Byte) /\ Len(content \o bytes) = Len(content) + Len(bytes)
        /\ \A n \in 1 .. Len(content) + Len(bytes) :
             (content \o bytes)[n] = IF n <= Len(content) THEN content[n]
                                     ELSE bytes[n - Len(content)]
    BY ConcatProperties
  <2> QED BY <1>1, <1>2, <1>4, <2>1
<1>6. ASSUME NEW n \in 1 .. size + len PROVE new[n] = both[n]
  <2>1. CASE n <= size
    <3>1. n \in 1 .. Len(new) /\ n \notin size + 1 .. size + len
      BY <1>3, <2>1
    <3> QED BY <1>3, <1>5, <2>1, <3>1
  <2>2. CASE ~(n <= size)
    <3>1. n \in 1 .. Len(new) /\ n \in size + 1 .. size + len /\ n - size \in 1 .. len
      BY <1>3, <2>2
    <3>2. new[n] = <<i, n - size>>
      BY <1>3, <3>1
    <3>3. both[n] = bytes[n - size] /\ bytes[n - size] = <<i, n - size>>
      BY <1>1, <1>5, <2>2, <3>1
    <3> QED BY <3>2, <3>3
  <2> QED BY <2>1, <2>2
<1> QED BY <1>1, <1>3, <1>4, <1>5, <1>6, SeqEqual

\* A record keeps what the window shows.
LEMMA WindowAfterRecord ==
  ASSUME LogTypeOK, FileInv, RingInv, WindowInv,
         NEW t \in 0 .. MaxTime, NEW len \in RecordLength, RecordPut(t, len)
  PROVE  WindowInv'
<1> SUFFICES ASSUME window'.open, ~window'.stale, ~mode'.readOnly, mode'.dated => mode'.locked
             PROVE  IF mode'.locked
                    THEN window'.text = disk'[fl'.name] /\ window'.used >= Len(window'.text)
                    ELSE /\ fl'.offset <= Len(window'.text)
                         /\ \A n \in 1 .. fl'.offset : window'.text[n] = disk'[fl'.name][n]
                         /\ \/ window'.used = fl'.offset
                            \/ window'.used = fl'.offset + 1 /\ Len(window'.text) = fl'.offset
  BY DEF WindowInv
<1>1. /\ mode \in Modes /\ fl \in File /\ log \in Seq(Record) /\ disk \in [Days -> Seq(Byte)]
      /\ mode.dated \in BOOLEAN /\ mode.locked \in BOOLEAN /\ mode.readOnly \in BOOLEAN
      /\ len \in Nat \ {0} /\ window \in Window /\ mode' = mode
  BY Constants, AlarmLogConstants DEF LogTypeOK, RecordPut
<1>2. PICK f : f = Switched(fl, t)
  OBVIOUS
<1>3. /\ f \in File /\ f.name \in Days /\ f.offset \in Nat
      /\ IF mode.dated /\ Day(t) # fl.tmDay THEN f.append = mode.locked ELSE f = fl
  BY <1>1, <1>2, SwitchedFile DEF File
<1>4. Put(f, t, len)
  BY <1>2 DEF RecordPut
<1>5. /\ window.open /\ ~window.stale /\ ~(Wraps(f) /\ ~f.append) /\ f.name = fl.name
      /\ window'.text = Inserted(window.text, window.used, Bytes(Len(log) + 1, len))
      /\ window'.used = window.used + len
  BY <1>3, <1>4, WindowPut
<1>6. PICK content \in Seq(Byte), new \in Seq(Byte), g \in File, at \in Nat :
        PutStep(f, len, content, g, at, new)
  BY <1>3, <1>4, PutFile
<1>7. /\ content = disk[fl.name] /\ at = (IF f.append THEN Len(content) ELSE f.offset)
      /\ ~f.append => g = f
      /\ Covers(content, at, Len(log) + 1, len, new)
      /\ disk'[fl'.name] = new
  <2>1. CASE ~Wraps(f)
    BY <1>1, <1>3, <1>5, <1>6, <2>1 DEF PutStep
  <2>2. CASE Wraps(f)
    <3>1. f.append
      BY <1>5, <2>2
    <3>2. f.stringLength = fl.stringLength
      BY <1>1, <1>2 DEF Switched, File
    <3>3. f.offset # 0
      BY <1>1, <2>2, <3>2, ShortOffset DEF FileInv, File
    <3>4. f = fl
      BY <1>1, <1>2, <3>3, SwitchedFile
    <3>5. f.offset = Len(disk[f.name])
      BY <1>1, <3>1, <3>3, <3>4 DEF FileInv
    <3>6. content = disk[fl.name]
      BY <1>3, <1>6, <3>4, <3>5 DEF PutStep
    <3> QED BY <1>1, <1>3, <1>5, <1>6, <3>1, <3>6 DEF PutStep
  <2> QED BY <2>1, <2>2
<1>8. PICK bytes \in Seq(Byte) :
        /\ bytes = Bytes(Len(log) + 1, len) /\ Len(bytes) = len
        /\ \A k \in 1 .. len : bytes[k] = <<Len(log) + 1, k>>
  <2>1. Len(log) + 1 \in Nat /\ len \in Nat
    BY <1>1, LenProperties
  <2> QED BY <2>1, BytesOf
<1>9. PICK text \in Seq(Byte), used \in Nat : text = window.text /\ used = window.used
  BY <1>1 DEF Window
<1>10. Len(text) \in Nat /\ Len(content) \in Nat /\ Len(new) \in Nat /\ Len(log) + 1 \in Nat
  BY <1>1, LenProperties
<1>11. LET p == IF used <= Len(text) THEN used ELSE Len(text)
       IN  /\ window'.text \in Seq(Byte)
           /\ Len(window'.text) = Len(text) + len
           /\ \A n \in 1 .. p + len :
                window'.text[n] = IF n <= p THEN text[n] ELSE bytes[n - p]
           /\ p = Len(text) => window'.text = text \o bytes
  <2>1. window'.text = Inserted(text, used, bytes)
    BY <1>5, <1>8, <1>9
  <2>2. PICK inserted : inserted = Inserted(text, used, bytes)
    OBVIOUS
  <2>3. LET p == IF used <= Len(text) THEN used ELSE Len(text)
        IN  /\ inserted \in Seq(Byte)
            /\ Len(inserted) = Len(text) + Len(bytes)
            /\ \A n \in 1 .. p + Len(bytes) :
                 inserted[n] = IF n <= p THEN text[n] ELSE bytes[n - p]
            /\ p = Len(text) => inserted = text \o bytes
    BY <2>2, InsertedText
  <2> QED BY <1>8, <2>1, <2>2, <2>3
<1>12. CASE mode.locked
  <2>1. text = content /\ used >= Len(text) /\ f.append
    BY <1>1, <1>3, <1>5, <1>7, <1>9, <1>12 DEF WindowInv, FileInv
  <2>2. window'.text = text \o bytes
    BY <1>10, <1>11, <2>1
  <2>3. new = content \o bytes
    <3>1. Covers(content, Len(content), Len(log) + 1, len, new) /\ len \in Nat
      BY <1>1, <1>7, <2>1
    <3>2. PICK i \in Nat : i = Len(log) + 1
      BY <1>10
    <3>3. new = content \o Bytes(i, len)
      BY <3>1, <3>2, CoversAppended
    <3> QED BY <1>8, <3>2, <3>3
  <2>4. window'.used >= Len(window'.text)
    <3>1. window'.used = used + len /\ Len(window'.text) = Len(text) + len
      BY <1>5, <1>9, <1>11
    <3> QED BY <1>1, <1>10, <2>1, <3>1
  <2> QED BY <1>1, <1>7, <1>12, <2>1, <2>2, <2>3, <2>4
<1>13. CASE ~mode.locked
  <2>1. ~mode.dated /\ f = fl
    BY <1>1, <1>3, <1>13
  <2>2. ~f.append /\ fl.offset <= Len(content)
    <3>1. ~fl.append
      BY <1>1, <1>13, <2>1 DEF RingInv, BoundInv
    <3> QED BY <1>1, <1>7, <2>1, <3>1 DEF RingInv, Whole
  <2>3. at = fl.offset /\ fl'.offset = at + len
    BY <1>1, <1>6, <1>7, <2>1, <2>2 DEF PutStep
  <2>4. /\ at <= Len(text)
        /\ \A n \in 1 .. at : text[n] = content[n]
        /\ \/ used = at
           \/ used = at + 1 /\ Len(text) = at
    <3>1. /\ fl.offset <= Len(window.text)
          /\ \A n \in 1 .. fl.offset : window.text[n] = disk[fl.name][n]
          /\ \/ window.used = fl.offset
             \/ window.used = fl.offset + 1 /\ Len(window.text) = fl.offset
      BY <1>1, <1>5, <1>13, <2>1 DEF WindowInv
    <3> QED BY <1>7, <1>9, <2>3, <3>1
  <2>5. (IF used <= Len(text) THEN used ELSE Len(text)) = at
    BY <1>10, <2>4
  <2>6. \A n \in 1 .. at + len : window'.text[n] = IF n <= at THEN text[n] ELSE bytes[n - at]
    BY <1>11, <2>5
  <2>7. ASSUME NEW n \in 1 .. at + len PROVE window'.text[n] = new[n]
    <3>1. n \in 1 .. Len(new)
      BY <1>1, <1>7, <1>10 DEF Covers
    <3>2. CASE n <= at
      <4>1. n \notin at + 1 .. at + len /\ n <= Len(content) /\ n \in 1 .. at
        BY <1>10, <2>2, <2>3, <3>2
      <4>2. new[n] = content[n]
        BY <1>7, <3>1, <4>1 DEF Covers
      <4> QED BY <2>4, <2>6, <3>2, <4>1, <4>2
    <3>3. CASE ~(n <= at)
      <4>1. n \in at + 1 .. at + len /\ n - at \in 1 .. len
        BY <1>1, <3>3
      <4>2. new[n] = <<Len(log) + 1, n - at>>
        BY <1>7, <3>1, <4>1 DEF Covers
      <4> QED BY <1>8, <2>6, <3>3, <4>1, <4>2
    <3> QED BY <3>2, <3>3
  <2>8. at + len <= Len(window'.text)
    BY <1>1, <1>10, <1>11, <2>4
  <2>9. \/ window'.used = at + len
        \/ window'.used = (at + len) + 1 /\ Len(window'.text) = at + len
    <3>1. window'.used = used + len /\ Len(window'.text) = Len(text) + len
      BY <1>5, <1>9, <1>11
    <3> QED BY <1>1, <1>10, <2>4, <3>1
  <2> QED BY <1>1, <1>7, <1>13, <2>3, <2>7, <2>8, <2>9
<1> QED BY <1>1, <1>12, <1>13

\* Every step keeps what the window shows.
LEMMA WindowInvKept ==
  ASSUME LogTypeOK, FileInv, RingInv, WindowInv, [Next]_logVars
  PROVE  WindowInv'
<1>1. /\ mode \in Modes /\ fl \in File /\ window \in Window /\ disk \in [Days -> Seq(Byte)]
      /\ mode.dated \in BOOLEAN /\ mode.locked \in BOOLEAN /\ mode.readOnly \in BOOLEAN
      /\ now \in 0 .. MaxTime
  BY AlarmLogConstants DEF LogTypeOK
<1>2. CASE UNCHANGED <<mode, disk, fl, window>>
  BY <1>2 DEF WindowInv
<1>3. CASE OpModStep
  <2>1. fl' = Switched(fl, now) /\ UNCHANGED <<mode, disk>>
        /\ window' = Outdated(window, fl'.name # fl.name)
    BY <1>3 DEF OpModStep, OpModMessage
  <2>2. PICK cond \in BOOLEAN : cond = (fl'.name # fl.name)
    <3>1. (fl'.name # fl.name) \in BOOLEAN
      OBVIOUS
    <3> QED BY <3>1
  <2>3. /\ window'.open = window.open /\ window'.text = window.text /\ window'.used = window.used
        /\ window.open => window'.stale = (window.stale \/ cond)
    BY <1>1, <2>1, <2>2, OutdatedWindow
  <2>4. ~mode.dated => fl' = fl
    BY <1>1, <2>1, SwitchedFile
  <2>5. ASSUME window'.open, ~window'.stale, ~mode.readOnly, mode.dated => mode.locked
        PROVE  /\ window.open /\ ~window.stale /\ fl'.name = fl.name
               /\ ~mode.locked => fl' = fl
    BY <1>1, <2>2, <2>3, <2>4, <2>5
  <2> QED BY <2>1, <2>3, <2>5 DEF WindowInv
<1>4. CASE FileSetup
  <2>1. fl'.name = fl.name /\ fl'.offset = fl.offset /\ UNCHANGED <<mode, disk, window>>
    BY <1>1, <1>4 DEF FileSetup, File
  <2> QED BY <2>1 DEF WindowInv
<1>5. CASE SelectAlarmLog
  <2>1. window' = Outdated(window, TRUE)
    BY <1>5 DEF SelectAlarmLog
  <2>2. window'.open = window.open /\ (window.open => window'.stale = (window.stale \/ TRUE))
    BY <1>1, <2>1, OutdatedWindow
  <2> QED BY <2>2 DEF WindowInv
<1>6. ASSUME NEW len \in RecordLength, OtherRecord(len) PROVE WindowInv'
  <2>1. window' = Outdated(window, TRUE) /\ ~window.open
    BY <1>6 DEF OtherRecord
  <2>2. ~window'.open
    BY <2>1 DEF Outdated
  <2> QED BY <2>2 DEF WindowInv
<1>7. CASE AlarmLogWindow
  <2>1. UNCHANGED <<mode, disk, fl>>
    BY <1>7 DEF AlarmLogWindow
  <2>2. CASE window.open
    <3>1. ~window'.open
      BY <1>7, <2>2 DEF AlarmLogWindow
    <3> QED BY <3>1 DEF WindowInv
  <2>3. CASE ~window.open
    <3>1. PICK content : content = disk[fl.name]
      OBVIOUS
    <3>2. window'.text = content /\ window'.used = UsedLength(content, fl)
      BY <1>7, <2>3, <3>1 DEF AlarmLogWindow
    <3>3. fl.offset \in Nat /\ content \in Seq(Byte) /\ Len(content) \in Nat
      BY <1>1, <3>1, LenProperties DEF File
    <3>4. CASE mode.locked /\ ~mode.readOnly
      <4>1. fl.offset = 0 \/ fl.offset = Len(content)
        BY <3>1, <3>4 DEF FileInv
      <4>2. window'.used >= Len(content)
        BY <3>2, <3>3, <4>1 DEF UsedLength
      <4> QED BY <2>1, <3>1, <3>2, <3>4, <4>2 DEF WindowInv
    <3>5. CASE ~mode.locked /\ ~mode.readOnly /\ (mode.dated => mode.locked)
      <4>1. ~mode.dated /\ fl.name = 0
        BY <1>1, <3>5 DEF FileInv
      <4>2. BoundInv /\ ~fl.append
        BY <3>5, <4>1 DEF RingInv, BoundInv
      <4>3. fl.offset <= Len(content)
        BY <3>1, <3>5, <4>1, <4>2 DEF RingInv, Whole
      <4>4. CASE fl.offset = 0
        <5>1. Len(content) = 0
          BY <3>1, <3>5, <4>1, <4>2, <4>4, EmptySeq DEF BoundInv
        <5>2. window'.used = 0 + 1
          BY <3>2, <4>4, <5>1 DEF UsedLength
        <5> QED BY <2>1, <3>1, <3>2, <3>5, <4>4, <5>1, <5>2 DEF WindowInv
      <4>5. CASE fl.offset # 0
        <5>1. window'.used = fl.offset
          BY <3>2, <4>5 DEF UsedLength
        <5> QED BY <2>1, <3>1, <3>2, <3>5, <4>3, <5>1 DEF WindowInv
      <4> QED BY <4>4, <4>5
    <3>6. CASE mode.readOnly \/ ~(mode.dated => mode.locked)
      BY <2>1, <3>6 DEF WindowInv
    <3> QED BY <3>4, <3>5, <3>6
  <2> QED BY <2>2, <2>3
<1>8. ASSUME NEW q \in Queues, Receive(q) PROVE WindowInv'
  BY <1>2, <1>8 DEF Receive
<1>9. CASE Tick
  BY <1>2, <1>9 DEF Tick
<1>10. CASE Flags
  BY <1>2, <1>10 DEF Flags
<1> QED BY <1>3, <1>4, <1>5, <1>6, <1>7, <1>8, <1>9, <1>10, StepCases, WindowAfterRecord

\* The invariant is what WindowShowsLog asks for.
LEMMA WindowInvShows ==
  ASSUME LogTypeOK, RingInv, FileInv, WindowInv
  PROVE  WindowShowsLog
<1> SUFFICES ASSUME window.open, ~window.stale, ~mode.readOnly, mode.dated => mode.locked
             PROVE  LET size == IF fl.append THEN Len(disk[fl.name]) ELSE fl.offset
                    IN SubSeq(window.text, 1, size) = SubSeq(disk[fl.name], 1, size)
  BY DEF WindowShowsLog
<1>1. /\ fl \in File /\ window \in Window /\ disk \in [Days -> Seq(Byte)] /\ mode \in Modes
      /\ mode.locked \in BOOLEAN
  BY AlarmLogConstants DEF LogTypeOK
<1>2. CASE mode.locked
  <2>1. window.text = disk[fl.name] /\ fl.append
    BY <1>2 DEF WindowInv, FileInv
  <2> QED BY <2>1
<1>3. CASE ~mode.locked
  <2>1. ~mode.dated
    BY <1>3
  <2>9. ~fl.append
    BY <1>3, <2>1 DEF RingInv, BoundInv
  <2>2. PICK text \in Seq(Byte), content \in Seq(Byte), size \in Nat :
          text = window.text /\ content = disk[fl.name] /\ size = fl.offset
    BY <1>1 DEF Window, File
  <2>3. size <= Len(text) /\ \A n \in 1 .. size : text[n] = content[n]
    BY <1>3, <2>2 DEF WindowInv
  <2>4. size <= Len(content)
    BY <2>2, <2>9 DEF RingInv, Whole
  <2>5. PICK a, b : a = SubSeq(text, 1, size) /\ b = SubSeq(content, 1, size)
    OBVIOUS
  <2>6. a \in Seq(Byte) /\ Len(a) = size /\ \A n \in 1 .. size : a[n] = text[n]
    BY <2>3, <2>5, SubSeqProperties
  <2>7. b \in Seq(Byte) /\ Len(b) = size /\ \A n \in 1 .. size : b[n] = content[n]
    BY <2>4, <2>5, SubSeqProperties
  <2>8. a = b
    BY <2>3, <2>6, <2>7, SeqEqual
  <2> QED BY <2>2, <2>5, <2>8, <2>9
<1> QED BY <1>1, <1>2, <1>3

----------------------------------------------------------------------------
(* The queue.                                                              *)

\* What LossReported says of the records i and j of queue q.
LossBetween(sent, i, j) ==
  LET records == {k \in 1 .. j : sent[k].kind = "record"}
      gap     == sent[j].n - sent[i].n - 1
  IN /\ i < j /\ {i, j} \subseteq records /\ gap > 0
     /\ \A k \in records : k <= i \/ k = j
     => \/ sent[j].full
        \/ j < Len(sent) /\ sent[j + 1].kind = "lost" /\ sent[j + 1].n = gap + 1

\* A message of the queue keeps what was reported, and the count of those lost.
LEMMA QueueAfterRecord ==
  ASSUME NEW m \in Mq, NEW w \in Mq, NEW q \in Queues, NEW size \in Nat,
         Written(m, q, size + 1, w),
         m.lostFlag <=> m.lostCount > 0,
         \A j \in DOMAIN m.sent[q] :
           /\ m.sent[q][j].kind = "record"
           /\ \A k \in j + 1 .. Len(m.sent[q]) : m.sent[q][k].kind # "record"
           => m.sent[q][j].n + m.lostCount = size,
         \A i, j \in DOMAIN m.sent[q] : LossBetween(m.sent[q], i, j)
  PROVE  /\ w.lostFlag <=> w.lostCount > 0
         /\ \A j \in DOMAIN w.sent[q] :
              /\ w.sent[q][j].kind = "record"
              /\ \A k \in j + 1 .. Len(w.sent[q]) : w.sent[q][k].kind # "record"
              => w.sent[q][j].n + w.lostCount = size + 1
         /\ \A i, j \in DOMAIN w.sent[q] : LossBetween(w.sent[q], i, j)
<1>1. PICK old, sent, count, J :
        old = m.sent[q] /\ sent = w.sent[q] /\ count = m.lostCount /\ J = Len(m.sent[q]) + 1
  OBVIOUS
<1>2. /\ old \in Seq(Message) /\ sent \in Seq(Message) /\ count \in Nat
      /\ m.lostFlag \in BOOLEAN /\ w.lostFlag \in BOOLEAN
  BY <1>1 DEF Mq
<1>3. /\ Len(old) \in Nat /\ Len(sent) \in Nat /\ DOMAIN old = 1 .. Len(old)
      /\ DOMAIN sent = 1 .. Len(sent) /\ J = Len(old) + 1 /\ J \in Nat
      /\ \A k \in 1 .. Len(old) : old[k] \in Message
  BY <1>1, <1>2, LenProperties, ElementOfSeq
<1>4. ASSUME NEW j \in DOMAIN old, old[j].kind = "record",
             \A k \in j + 1 .. Len(old) : old[k].kind # "record"
      PROVE  old[j].n + count = size
  BY <1>1, <1>4
<1>5. \A i, j \in DOMAIN old : LossBetween(old, i, j)
  BY <1>1
<1>6. CASE Full(m, q)
  <2>1. sent = old /\ w.lostFlag /\ w.lostCount = count + 1
    BY <1>1, <1>6 DEF Written
  <2>2. ASSUME NEW j \in DOMAIN sent, sent[j].kind = "record",
               \A k \in j + 1 .. Len(sent) : sent[k].kind # "record"
        PROVE  sent[j].n + w.lostCount = size + 1
    <3>1. old[j].n + count = size /\ old[j].n \in Nat
      BY <1>3, <1>4, <2>1, <2>2 DEF Message
    <3> QED BY <1>2, <2>1, <3>1
  <2>3. w.lostFlag <=> w.lostCount > 0
    BY <1>2, <2>1
  <2>4. \A i, j \in DOMAIN sent : LossBetween(sent, i, j)
    BY <1>5, <2>1
  <2> QED BY <1>1, <2>2, <2>3, <2>4
<1>7. CASE ~Full(m, q)
  <2>1. PICK msg : msg = [kind |-> "record", n |-> size + 1, full |-> LastPlace(m, q)]
    OBVIOUS
  <2>2. /\ \A k \in 1 .. Len(old) : sent[k] = old[k]
        /\ sent[J] = msg
        /\ ~m.lostFlag => Len(sent) = J /\ w.lostFlag = FALSE /\ w.lostCount = count
        /\ m.lostFlag =>
             /\ w.lostFlag = FALSE /\ w.lostCount = 0
             /\ \/ msg.full /\ Len(sent) = J
                \/ Len(sent) = J + 1 /\ sent[J + 1].kind = "lost" /\ sent[J + 1].n = count + 1
    BY <1>1, <1>7, <2>1 DEF Written
  <2>3. /\ w.lostFlag = FALSE /\ w.lostCount = 0
        /\ Len(sent) \in {J, J + 1}
        /\ Len(sent) = J + 1 => sent[J + 1].kind = "lost" /\ sent[J + 1].n = count + 1
        /\ sent[J].kind = "record" /\ sent[J].n = size + 1
        /\ count > 0 => msg.full \/ Len(sent) = J + 1
    <3>1. J # J + 1
      BY <1>3
    <3>2. sent[J].kind = "record" /\ sent[J].n = size + 1
      BY <2>1, <2>2
    <3>3. CASE m.lostFlag
      <4>1. w.lostFlag = FALSE /\ w.lostCount = 0
        BY <2>2, <3>3
      <4>2. CASE msg.full /\ Len(sent) = J
        BY <3>1, <3>2, <4>1, <4>2
      <4>3. CASE Len(sent) = J + 1 /\ sent[J + 1].kind = "lost" /\ sent[J + 1].n = count + 1
        BY <3>2, <4>1, <4>3
      <4> QED BY <2>2, <3>3, <4>2, <4>3
    <3>4. CASE ~m.lostFlag
      <4>1. count = 0 /\ ~(count > 0)
        BY <1>1, <1>2, <3>4
      <4>2. Len(sent) = J /\ w.lostFlag = FALSE /\ w.lostCount = 0
        BY <2>2, <3>4, <4>1
      <4> QED BY <3>1, <3>2, <4>1, <4>2
    <3> QED BY <3>3, <3>4
  <2> PICK a \in Nat, b \in Nat : a = Len(old) /\ b = Len(sent)
    BY <1>3
  <2>8. J = a + 1 /\ (b = a + 1 \/ b = a + 2)
    <3>1. J = a + 1 /\ (b = J \/ b = J + 1)
      BY <1>3, <2>3
    <3> QED BY <3>1
  <2>4. ASSUME NEW j \in DOMAIN sent, sent[j].kind = "record"
        PROVE  j \in 1 .. Len(old) \/ j = J
    <3>1. j \in 1 .. b
      BY <1>3
    <3>2. j \in 1 .. a \/ j = J \/ (j = J + 1 /\ b = J + 1)
      BY <2>8, <3>1
    <3> QED BY <2>3, <2>4, <3>2
  <2>5. ASSUME NEW j \in DOMAIN sent, sent[j].kind = "record",
               \A k \in j + 1 .. Len(sent) : sent[k].kind # "record"
        PROVE  sent[j].n + w.lostCount = size + 1
    <3>1. j \notin 1 .. Len(old)
      <4>1. j \in 1 .. Len(old) => J \in j + 1 .. Len(sent)
        <5>1. j \in 1 .. a => J \in j + 1 .. b
          BY <2>8
        <5> QED BY <5>1
      <4> QED BY <2>3, <2>5, <4>1
    <3>2. j = J
      BY <2>4, <2>5, <3>1
    <3> QED BY <2>3, <3>2
  <2>6. ASSUME NEW i \in DOMAIN sent, NEW j \in DOMAIN sent
        PROVE  LossBetween(sent, i, j)
    <3>1. PICK records : records = {k \in 1 .. j : sent[k].kind = "record"}
      OBVIOUS
    <3> SUFFICES ASSUME i < j, {i, j} \subseteq records, sent[j].n - sent[i].n - 1 > 0,
                        \A k \in records : k <= i \/ k = j
                 PROVE  \/ sent[j].full
                        \/ /\ j < Len(sent) /\ sent[j + 1].kind = "lost"
                           /\ sent[j + 1].n = sent[j].n - sent[i].n - 1 + 1
      BY <3>1 DEF LossBetween
    <3>2. sent[i].kind = "record" /\ sent[j].kind = "record"
      BY <3>1
    <3>3. CASE j \in 1 .. Len(old)
      <4>1. i \in 1 .. Len(old) /\ sent[i] = old[i] /\ sent[j] = old[j]
        <5>1. i \in 1 .. Len(sent)
          BY <1>3
        <5>2. i \in 1 .. Len(old)
          BY <1>3, <3>3, <5>1
        <5> QED BY <2>2, <3>3, <5>2
      <4>2. ASSUME NEW k \in 1 .. j PROVE sent[k] = old[k]
        <5>1. k \in 1 .. Len(old)
          BY <1>3, <3>3
        <5> QED BY <2>2, <5>1
      <4>3. records = {k \in 1 .. j : old[k].kind = "record"}
        BY <3>1, <4>2
      <4>4. LossBetween(old, i, j)
        BY <1>3, <1>5, <3>3, <4>1
      <4>5. \/ old[j].full
            \/ /\ j < Len(old) /\ old[j + 1].kind = "lost"
               /\ old[j + 1].n = old[j].n - old[i].n - 1 + 1
        BY <4>1, <4>3, <4>4 DEF LossBetween
      <4>6. j < Len(old) => j < Len(sent) /\ sent[j + 1] = old[j + 1]
        <5>1. j < Len(old) => j + 1 \in 1 .. Len(old) /\ j < Len(sent)
          <6>1. j \in 1 .. a
            BY <3>3
          <6>2. j < a => j + 1 \in 1 .. a /\ j < b
            BY <2>8, <6>1
          <6> QED BY <6>2
        <5> QED BY <2>2, <5>1
      <4> QED BY <4>1, <4>5, <4>6
    <3>4. CASE j = J
      <4>1. i \in 1 .. Len(old) /\ sent[i] = old[i]
        <5>1. i \in 1 .. Len(old)
          BY <1>3, <3>4
        <5> QED BY <2>2, <5>1
      <4>2. ASSUME NEW k \in i + 1 .. Len(old), old[k].kind = "record" PROVE FALSE
        <5>1. k \in 1 .. Len(old) /\ k \in 1 .. j /\ k # j /\ ~(k <= i)
          BY <1>3, <3>4, <4>1
        <5>2. k \in records
          BY <2>2, <3>1, <4>2, <5>1
        <5> QED BY <5>1, <5>2
      <4>3. old[i].n + count = size
        BY <1>3, <1>4, <3>2, <4>1, <4>2
      <4>4. old[i].n \in Nat
        BY <1>3, <4>1 DEF Message
      <4>5. sent[j].n = size + 1 /\ sent[j].n - sent[i].n - 1 = count
        BY <1>2, <2>3, <3>4, <4>1, <4>3, <4>4
      <4>6. msg.full \/ Len(sent) = J + 1
        BY <2>3, <4>5
      <4>7. CASE msg.full
        BY <2>2, <3>4, <4>7
      <4>8. CASE Len(sent) = J + 1
        BY <1>2, <1>3, <2>3, <3>4, <4>5, <4>8
      <4> QED BY <4>6, <4>7, <4>8
    <3> QED BY <2>4, <3>2, <3>3, <3>4
  <2>7. w.lostFlag <=> w.lostCount > 0
    BY <2>3
  <2> QED BY <1>1, <2>5, <2>6, <2>7
<1> QED BY <1>6, <1>7

\* The same, of the queue that is used.
QueueLosses == \A q \in mode.queues : mode.queues = {q} =>
                 \A i, j \in DOMAIN mq.sent[q] : LossBetween(mq.sent[q], i, j)

\* a message was given to the queue in use
MessageSent(q) == mq' \in Mq /\ Written(mq, q, Next2MQ(q), mq') /\ Next2MQ(q)' = Next2MQ(q) + 1

\* A message for the queue in use keeps the count of those lost.
LEMMA SentKeepsCount ==
  ASSUME LogTypeOK, QueueInv, QueueLosses, mode' = mode,
         \A q \in mode.queues : mode.queues = {q} => MessageSent(q)
  PROVE  QueueInv' /\ QueueLosses'
<1>1. mode \in Modes /\ mq \in Mq /\ log \in Seq(Record) /\ opMods \in Nat /\ mode.queues \subseteq Queues
  BY AlarmLogConstants DEF LogTypeOK
<1>2. ASSUME NEW q \in mode.queues, mode.queues = {q}
      PROVE  /\ mq'.lostFlag <=> mq'.lostCount > 0
             /\ \A j \in DOMAIN mq'.sent[q] :
                  /\ mq'.sent[q][j].kind = "record"
                  /\ \A k \in j + 1 .. Len(mq'.sent[q]) : mq'.sent[q][k].kind # "record"
                  => mq'.sent[q][j].n + mq'.lostCount + 1 = Next2MQ(q)'
             /\ \A i, j \in DOMAIN mq'.sent[q] : LossBetween(mq'.sent[q], i, j)
  <2>1. PICK size \in Nat : Next2MQ(q) = size + 1
    BY <1>1, NumberedMessages
  <2>2. mq' \in Mq /\ Written(mq, q, size + 1, mq') /\ Next2MQ(q)' = size + 1 + 1
    BY <1>2, <2>1 DEF MessageSent
  <2>3. /\ mq.lostFlag <=> mq.lostCount > 0
        /\ \A j \in DOMAIN mq.sent[q] :
             /\ mq.sent[q][j].kind = "record"
             /\ \A k \in j + 1 .. Len(mq.sent[q]) : mq.sent[q][k].kind # "record"
             => mq.sent[q][j].n + mq.lostCount = size
    <3>1. mq.lostFlag <=> mq.lostCount > 0
      BY <1>2 DEF QueueInv
    <3>2. ASSUME NEW j \in DOMAIN mq.sent[q], mq.sent[q][j].kind = "record",
                 \A k \in j + 1 .. Len(mq.sent[q]) : mq.sent[q][k].kind # "record"
          PROVE  mq.sent[q][j].n + mq.lostCount = size
      <4>1. mq.sent[q][j].n + mq.lostCount + 1 = size + 1
        BY <1>2, <2>1, <3>2 DEF QueueInv
      <4>2. mq.sent[q][j].n \in Nat /\ mq.lostCount \in Nat
        <5>1. mq.sent[q] \in Seq(Message) /\ mq.lostCount \in Nat
          BY <1>1 DEF Mq
        <5>2. mq.sent[q][j] \in Message
          BY <3>2, <5>1, LenProperties, ElementOfSeq
        <5> QED BY <5>1, <5>2 DEF Message
      <4> QED BY <4>1, <4>2
    <3> QED BY <3>1, <3>2
  <2>4. \A i, j \in DOMAIN mq.sent[q] : LossBetween(mq.sent[q], i, j)
    BY <1>2 DEF QueueLosses
  <2>5. /\ mq'.lostFlag <=> mq'.lostCount > 0
        /\ \A j \in DOMAIN mq'.sent[q] :
             /\ mq'.sent[q][j].kind = "record"
             /\ \A k \in j + 1 .. Len(mq'.sent[q]) : mq'.sent[q][k].kind # "record"
             => mq'.sent[q][j].n + mq'.lostCount = size + 1
        /\ \A i, j \in DOMAIN mq'.sent[q] : LossBetween(mq'.sent[q], i, j)
    BY <1>1, <2>2, <2>3, <2>4, QueueAfterRecord
  <2>6. ASSUME NEW j \in DOMAIN mq'.sent[q], mq'.sent[q][j].kind = "record",
               \A k \in j + 1 .. Len(mq'.sent[q]) : mq'.sent[q][k].kind # "record"
        PROVE  mq'.sent[q][j].n + mq'.lostCount + 1 = Next2MQ(q)'
    BY <2>2, <2>5, <2>6
  <2> QED BY <2>5, <2>6
<1>3. QueueLosses'
  BY <1>2 DEF QueueLosses
<1> QED BY <1>2, <1>3 DEF QueueInv

\* Every step keeps the count of the messages lost since the last that was sent.
LEMMA QueueInvKept ==
  ASSUME LogTypeOK, QueueInv, QueueLosses, [Next]_logVars
  PROVE  QueueInv' /\ QueueLosses'
<1>1. /\ mode \in Modes /\ mq \in Mq /\ log \in Seq(Record) /\ opMods \in Nat
      /\ mode.queues \subseteq Queues
  BY AlarmLogConstants DEF LogTypeOK
<1>2. CASE UNCHANGED <<mode, mq, log, opMods>>
  BY <1>2 DEF QueueInv, QueueLosses, Next2MQ
<1>3. ASSUME NEW t \in 0 .. MaxTime, NEW len \in RecordLength, RecordPut(t, len)
      PROVE  QueueInv' /\ QueueLosses'
  <2>1. /\ mode' = mode /\ mq' = Queued(mq) /\ opMods' = opMods
        /\ log' = Append(log, [time |-> t, len |-> len]) /\ [time |-> t, len |-> len] \in Record
    BY <1>3 DEF RecordPut, Put, Record
  <2>2. Len(log) \in Nat /\ Len(log') = Len(log) + 1
    BY <1>1, <2>1, LenProperties, AppendProperties
  <2>3. ASSUME NEW q \in mode.queues, mode.queues = {q} PROVE MessageSent(q)
    <3>1. mq' \in Mq /\ Written(mq, q, Next2MQ(q), mq')
      BY <1>1, <2>1, <2>3, QueuedMessages
    <3>2. Next2MQ(q)' = Next2MQ(q) + 1
      BY <1>1, <2>1, <2>2 DEF Next2MQ
    <3> QED BY <3>1, <3>2 DEF MessageSent
  <2> QED BY <2>1, <2>3, SentKeepsCount
<1>4. ASSUME NEW r \in Queues, Receive(r) PROVE QueueInv' /\ QueueLosses'
  <2>1. UNCHANGED <<mode, log, opMods>> /\ mq' = [mq EXCEPT !.got[r] = @ + 1]
    BY <1>4 DEF Receive
  <2>2. mq'.sent = mq.sent /\ mq'.lostFlag = mq.lostFlag /\ mq'.lostCount = mq.lostCount
    BY <1>1, <2>1 DEF Mq
  <2> QED BY <2>1, <2>2 DEF QueueInv, QueueLosses, Next2MQ
<1>5. CASE SelectAlarmLog
  BY <1>2, <1>5 DEF SelectAlarmLog
<1>6. ASSUME NEW len \in RecordLength, OtherRecord(len) PROVE QueueInv' /\ QueueLosses'
  BY <1>2, <1>6 DEF OtherRecord
<1>7. ASSUME NEW typed \in BOOLEAN, OpModMessage(typed) PROVE QueueInv' /\ QueueLosses'
  <2>1. mode' = mode /\ log' = log
    BY <1>7 DEF OpModMessage
  <2>2. CASE typed /\ "DB" \in mode.queues
    <3>1. mq' = write2MQ(mq, "DB", Next2MQ("DB")) /\ opMods' = opMods + 1
      BY <1>7, <2>2 DEF OpModMessage
    <3>2. ASSUME NEW q \in mode.queues, mode.queues = {q} PROVE MessageSent(q)
      <4>1. q = "DB" /\ q \in Queues
        BY <1>1, <2>2, <3>2
      <4>2. mq' \in Mq /\ Written(mq, q, Next2MQ(q), mq')
        BY <1>1, <3>1, <4>1, NumberedMessages, write2MQSends
      <4>3. Next2MQ(q)' = Next2MQ(q) + 1
        <5>1. Len(log) \in Nat
          BY <1>1, LenProperties
        <5> QED BY <1>1, <2>1, <3>1, <4>1, <5>1 DEF Next2MQ
      <4> QED BY <4>2, <4>3 DEF MessageSent
    <3> QED BY <2>1, <3>2, SentKeepsCount
  <2>3. CASE ~(typed /\ "DB" \in mode.queues)
    <3>1. mq' = mq /\ opMods' = opMods
      BY <1>7, <2>3 DEF OpModMessage
    <3> QED BY <1>2, <2>1, <3>1
  <2> QED BY <2>2, <2>3
<1>8. CASE FileSetup
  BY <1>2, <1>8 DEF FileSetup
<1>9. CASE AlarmLogWindow
  BY <1>2, <1>9 DEF AlarmLogWindow
<1>10. CASE Tick
  BY <1>2, <1>10 DEF Tick
<1>11. CASE Flags
  BY <1>2, <1>11 DEF Flags
<1> QED BY <1>3, <1>4, <1>5, <1>6, <1>7, <1>8, <1>9, <1>10, <1>11, StepCases DEF OpModStep

\* The losses of the queue in use are what LossReported is about.
LEMMA QueueLossesReported ==
  ASSUME QueueLosses
  PROVE  LossReported
BY DEF QueueLosses, LossReported, LossBetween

----------------------------------------------------------------------------
(* The theorems.                                                           *)

\* The invariant holds at the start.
LEMMA InitInv ==
  Init => LogInv
<1> HAVE Init
<1>1. LogTypeOK
  BY InitTyped
<1>2. /\ fl = [name |-> 0, tmDay |-> 0, append |-> mode.dated \/ mode.locked,
               offset |-> 0, stringLength |-> DefaultStringLength]
      /\ disk = [d \in Days |-> <<>>] /\ log = <<>> /\ opMods = 0 /\ misdated = FALSE
      /\ window = [open |-> FALSE, text |-> <<>>, used |-> 0, stale |-> FALSE]
      /\ mq = [sent |-> [q \in Queues |-> <<>>], got |-> [q \in Queues |-> 0],
               lostFlag |-> FALSE, lostCount |-> 0]
  BY DEF Init, Opened
<1>3. /\ mode \in Modes /\ mode.dated \in BOOLEAN /\ mode.locked \in BOOLEAN
      /\ mode.readOnly \in BOOLEAN /\ mode.queues \subseteq Queues
  BY <1>1, AlarmLogConstants DEF LogTypeOK
<1>4. FileInv
  <2>1. DefaultStringLength > 0
    BY AlarmLogConstants
  <2> QED BY <1>2, <2>1 DEF FileInv
<1>5. RingInv
  <2>1. disk[0] = <<>> /\ Len(disk[0]) = 0 /\ Len(disk[fl.name]) = 0 /\ fl.offset = 0
    BY <1>2, Constants, EmptySeq
  <2>2. Whole(disk[fl.name], fl.offset, log)
    BY <2>1 DEF Whole
  <2>3. ASSUME ~mode.dated, ~mode.locked PROVE BoundInv
    <3>2. ~fl.append
      BY <1>2, <2>3
    <3>3. 0 <= Max(RecordLength) /\ 0 < (MaxRecords + 1) * Max(RecordLength)
      BY LongestRecord, OneRecordFits
    <3> QED BY <2>1, <3>2, <3>3 DEF BoundInv
  <2> QED BY <2>2, <2>3 DEF RingInv
<1>6. DatedInv
  <2>1. \A d \in Days : disk[d] = <<>>
    BY <1>2
  <2>2. RecordsOf(<<>>) = {} /\ DOMAIN log = {}
    BY <1>2, EmptySeq DEF RecordsOf
  <2> QED BY <2>1, <2>2 DEF DatedInv
<1>7. WindowInv
  BY <1>2 DEF WindowInv
<1>8. QueueInv /\ LossReported
  <2>1. mq.lostFlag = FALSE /\ mq.lostCount = 0
    BY <1>2
  <2>2. \A q \in mode.queues : DOMAIN mq.sent[q] = {}
    BY <1>2, <1>3, EmptySeq
  <2> QED BY <2>1, <2>2 DEF QueueInv, LossReported
<1> QED BY <1>1, <1>4, <1>5, <1>6, <1>7, <1>8 DEF LogInv

\* Every step keeps the invariant.
LEMMA StepInv ==
  LogInv /\ [Next]_logVars => LogInv'
<1> HAVE LogInv /\ [Next]_logVars
<1>1. /\ LogTypeOK /\ FileInv /\ RingInv /\ DatedInv /\ WindowInv /\ QueueInv /\ LossReported
  BY DEF LogInv
<1>2. QueueLosses
  BY <1>1 DEF LossReported, QueueLosses, LossBetween
<1>3. LogTypeOK' /\ FileInv' /\ RingInv' /\ DatedInv' /\ WindowInv'
  BY <1>1, TypesKept, FileInvKept, RingInvKept, DatedInvKept, WindowInvKept
<1>4. QueueInv' /\ QueueLosses'
  BY <1>1, <1>2, QueueInvKept
<1>5. LossReported'
  BY <1>4 DEF QueueLosses, LossReported, LossBetween
<1> QED BY <1>3, <1>4, <1>5 DEF LogInv

\* The inductive invariant of filePrintf, the log window and the message queues.
THEOREM LogInvariant == Spec => []LogInv
<1>1. Init => LogInv
  BY InitInv
<1>2. LogInv /\ [Next]_logVars => LogInv'
  BY StepInv
<1> QED BY <1>1, <1>2, PTL DEF Spec

\* filePrintf: before the place of the next record the ring holds whole records, in the
\* order they were written, whatever their lengths, and without -L the undated file stays
\* below its size.
THEOREM RingStaysSound == Spec => []RingSound
<1>1. LogInv => RingSound
  BY RingInvSound DEF LogInv
<1> QED BY <1>1, LogInvariant, PTL

\* showSelectedCallback: with a file for each day and the lock, every record of the
\* interval is found, unless another file was set up over midnight.
THEOREM BrowserComplete == Spec => []BrowserFindsAll
<1>1. LogInv => BrowserFindsAll
  BY BrowserSearch DEF LogInv
<1> QED BY <1>1, LogInvariant, PTL

\* updateLog: an open log window shows the file until it wraps or another is opened.
THEOREM WindowFollowsLog == Spec => []WindowShowsLog
<1>1. LogInv => WindowShowsLog
  BY WindowInvShows DEF LogInv
<1> QED BY <1>1, LogInvariant, PTL

\* write2MQ: messages lost by a full queue are reported when there is place again, except
\* by a message that takes the last one.  Alarms and operator lines share the database's queue.
THEOREM LossesReported == Spec => []LossReported
<1>1. LogInv => LossReported
  BY DEF LogInv
<1> QED BY <1>1, LogInvariant, PTL

=============================================================================
