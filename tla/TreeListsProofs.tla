--------------------------- MODULE TreeListsProofs ---------------------------
(***************************************************************************)
(* Proofs about the linked lists of the alarm tree, for any number of      *)
(* groups and channels and lists of any length: what each call of          *)
(* sllLib.c and alLib.c makes of the sequence of the nodes of a list, and  *)
(* that no sequence of calls leaves a list whose fields disagree.          *)
(***************************************************************************)
EXTENDS TreeLists, TLAPS, FiniteSetTheorems, SequenceTheorems, WellFoundedInduction

Ptr == Link \cup {NULL}
TreeRecord ==
  [first : [List -> Ptr], last : [List -> Ptr], count : [List -> Nat],
   next : [Link -> Ptr], parent : [Link -> GroupId \cup {NULL}]]

(* s is what the pointers p give from n on, each node once.                *)
Along(p, n, s) ==
  /\ s \in Seq(Link)
  /\ \A i, j \in 1 .. Len(s) : s[i] = s[j] => i = j
  /\ n = IF Len(s) = 0 THEN NULL ELSE s[1]
  /\ \A i \in 1 .. Len(s) : p[s[i]] = IF i = Len(s) THEN NULL ELSE s[i + 1]

(* All that the fields of l and of its nodes say is that s is on l.        *)
Holds(t, l, s) ==
  /\ Along(t.next, t.first[l], s)
  /\ t.count[l] = Len(s)
  /\ Len(s) > 0 => t.last[l] = s[Len(s)]
  /\ \A i \in 1 .. Len(s) : t.parent[s[i]] = l[1] /\ ListOf(l[1], s[i]) = l

(* The inductive invariant.                                                *)
Linked(t) == t \in TreeRecord /\ \A l \in List : Holds(t, l, Items(t, l))

----------------------------------------------------------------------------
(* Walking along pointers.                                                 *)

(* A set of numbers has a least one.                                       *)
LEMMA Least ==
  ASSUME NEW S \in SUBSET Nat, S # {}
  PROVE  \E k \in S : \A j \in S : k <= j
<1> DEFINE R == OpToRel(<, Nat)
<1>1. IsWellFoundedOn(R, Nat)
  BY NatLessThanWellFounded
<1>2. PICK k \in S : \A j \in S : <<j, k>> \notin R
  <2> HIDE DEF R
  <2> QED BY <1>1, WFMin
<1>3. \A i, j \in Nat : i < j => <<i, j>> \in R
  BY DEF OpToRel
<1>4. ASSUME NEW j \in S PROVE k <= j
  <2> HIDE DEF R
  <2>1. k \in Nat /\ j \in Nat
    OBVIOUS
  <2>2. ~ (j < k)
    BY <1>2, <1>3, <2>1
  <2> QED BY <2>1, <2>2
<1> QED BY <1>4

Steps(p, g) ==
  g = [k \in 0 .. Cardinality(Link) |->
         [m \in Link \cup {NULL} |->
            IF k = 0 \/ m = NULL THEN <<>> ELSE <<m>> \o g[k - 1][p[m]]]]

(* The links are finitely many.                                            *)
LEMMA LinkFinite == IsFiniteSet(Link) /\ Cardinality(Link) \in Nat
BY TreeLinks, FS_Union, FS_CardinalityType DEF Link

(* A walk is defined by its steps.                                         *)
LEMMA WalkSteps ==
  ASSUME NEW p, NEW n
  PROVE  Walk(p, n) = (CHOOSE g : Steps(p, g))[Cardinality(Link)][n]
BY Zenon DEF Walk, Steps

(* A sequence of different links is no longer than there are links.        *)
LEMMA NoLonger ==
  ASSUME NEW s \in Seq(Link), \A i, j \in 1 .. Len(s) : s[i] = s[j] => i = j
  PROVE  Len(s) <= Cardinality(Link)
<1>1. s \in Injection(1 .. Len(s), Link)
  BY DEF Injection, IsInjective
<1>2. Cardinality(1 .. Len(s)) <= Cardinality(Link)
  BY <1>1, LinkFinite, FS_Injection
<1>3. Cardinality(1 .. Len(s)) = Len(s)
  BY FS_Interval
<1> QED BY <1>2, <1>3

(* The first k steps can be taken.                                         *)
StepsTo(p, k, g) ==
  /\ g \in [0 .. k -> [Ptr -> Seq(Link)]]
  /\ \A j \in 0 .. k : \A m \in Ptr :
       g[j][m] = IF j = 0 \/ m = NULL THEN <<>> ELSE <<m>> \o g[j - 1][p[m]]

LEMMA StepsMore ==
  ASSUME NEW p \in [Link -> Ptr], NEW k \in Nat, NEW g, StepsTo(p, k, g)
  PROVE  \E h : StepsTo(p, k + 1, h)
<1> DEFINE new == [m \in Ptr |-> IF m = NULL THEN <<>> ELSE <<m>> \o g[k][p[m]]]
           h == [j \in 0 .. k + 1 |-> IF j = k + 1 THEN new ELSE g[j]]
<1>1. new \in [Ptr -> Seq(Link)]
  <2>1. SUFFICES ASSUME NEW m \in Ptr PROVE new[m] \in Seq(Link)
    OBVIOUS
  <2>2. CASE m = NULL
    BY <2>2
  <2>3. CASE m # NULL
    <3>1. m \in Link /\ p[m] \in Ptr
      BY <2>3 DEF Ptr
    <3>2. g[k][p[m]] \in Seq(Link)
      BY <3>1 DEF StepsTo
    <3>3. <<m>> \o g[k][p[m]] \in Seq(Link)
      BY <3>1, <3>2
    <3> QED BY <2>3, <3>3
  <2> QED BY <2>2, <2>3
<1>2. h \in [0 .. k + 1 -> [Ptr -> Seq(Link)]]
  BY <1>1 DEF StepsTo
<1>3. ASSUME NEW j \in 0 .. k + 1, NEW m \in Ptr
      PROVE  h[j][m] = IF j = 0 \/ m = NULL THEN <<>> ELSE <<m>> \o h[j - 1][p[m]]
  <2>1. CASE j = k + 1
    <3>1. h[j - 1] = g[k] /\ h[j] = new
      BY <2>1
    <3> QED BY <2>1, <3>1
  <2>2. CASE j # k + 1
    <3>1. h[j] = g[j] /\ j \in 0 .. k
      BY <2>2
    <3>2. j # 0 => h[j - 1] = g[j - 1]
      BY <2>2
    <3> QED BY <3>1, <3>2 DEF StepsTo
  <2> QED BY <2>1, <2>2
<1>4. StepsTo(p, k + 1, h)
  BY <1>2, <1>3 DEF StepsTo
<1> QED BY <1>4

LEMMA StepsExist ==
  ASSUME NEW p \in [Link -> Ptr], NEW N \in Nat
  PROVE  \E g : StepsTo(p, N, g)
<1> DEFINE Missing == {k \in Nat : ~\E g : StepsTo(p, k, g)}
<1>1. SUFFICES ASSUME Missing # {} PROVE FALSE
  OBVIOUS
<1>2. PICK k \in Missing : \A j \in Missing : k <= j
  <2>1. Missing \in SUBSET Nat
    OBVIOUS
  <2> HIDE DEF Missing
  <2> QED BY <1>1, <2>1, Least
<1>3. k # 0
  <2> DEFINE g == [j \in 0 .. 0 |-> [m \in Ptr |-> <<>>]]
  <2>1. StepsTo(p, 0, g)
    BY DEF StepsTo
  <2> QED BY <2>1
<1>4. k - 1 \in Nat /\ k - 1 \notin Missing
  <2>1. k \in Nat /\ k - 1 \in Nat /\ ~ (k <= k - 1)
    BY <1>3
  <2> HIDE DEF Missing
  <2> QED BY <1>2, <2>1
<1>5. PICK g : StepsTo(p, k - 1, g)
  BY <1>4
<1>6. \E h : StepsTo(p, k, h)
  BY <1>4, <1>5, StepsMore
<1> QED BY <1>6

(* So a walk is what the steps give.                                       *)
LEMMA WalkBySteps ==
  ASSUME NEW p \in [Link -> Ptr], NEW n \in Ptr
  PROVE  \E g : StepsTo(p, Cardinality(Link), g) /\ Walk(p, n) = g[Cardinality(Link)][n]
<1>1. PICK N : N = Cardinality(Link)
  OBVIOUS
<1>2. N \in Nat
  BY <1>1, LinkFinite
<1>3. PICK h : StepsTo(p, N, h)
  BY <1>2, StepsExist
<1>4. Steps(p, h)
  <2>1. h = [k \in 0 .. N |-> h[k]]
    BY <1>3 DEF StepsTo
  <2>2. ASSUME NEW k \in 0 .. N
        PROVE  h[k] = [m \in Ptr |-> IF k = 0 \/ m = NULL THEN <<>> ELSE <<m>> \o h[k - 1][p[m]]]
    <3>1. h[k] \in [Ptr -> Seq(Link)]
      BY <1>3 DEF StepsTo
    <3>2. h[k] = [m \in Ptr |-> h[k][m]]
      BY <3>1
    <3>3. \A m \in Ptr : h[k][m] = IF k = 0 \/ m = NULL THEN <<>> ELSE <<m>> \o h[k - 1][p[m]]
      BY <1>3 DEF StepsTo
    <3> QED BY <3>2, <3>3
  <2> QED BY <1>1, <2>1, <2>2 DEF Steps, Ptr
<1> DEFINE g == CHOOSE g : Steps(p, g)
<1>5. Steps(p, g)
  BY <1>4
<1>6. Walk(p, n) = g[N][n]
  BY <1>1, WalkSteps
<1> HIDE DEF g
<1>7. \A k \in 0 .. N : g[k] = [m \in Ptr |-> IF k = 0 \/ m = NULL THEN <<>> ELSE <<m>> \o g[k - 1][p[m]]]
  BY <1>1, <1>5 DEF Steps, Ptr
<1>8. \A k \in 0 .. N : \A m \in Ptr :
        g[k][m] = IF k = 0 \/ m = NULL THEN <<>> ELSE <<m>> \o g[k - 1][p[m]]
  BY <1>7
<1>9. \A k \in 0 .. N : g[k] = h[k]
  <2> DEFINE Bad == {k \in 0 .. N : g[k] # h[k]}
  <2>1. SUFFICES ASSUME Bad # {} PROVE FALSE
    OBVIOUS
  <2>2. PICK k \in Bad : \A j \in Bad : k <= j
    <3>1. Bad \in SUBSET Nat
      OBVIOUS
    <3> HIDE DEF Bad
    <3> QED BY <2>1, <3>1, Least
  <2>3. k \in 0 .. N /\ g[k] # h[k]
    OBVIOUS
  <2>4. k # 0 => g[k - 1] = h[k - 1]
    <3>1. SUFFICES ASSUME k # 0, g[k - 1] # h[k - 1] PROVE FALSE
      OBVIOUS
    <3>2. k - 1 \in Bad /\ ~ (k <= k - 1)
      BY <1>2, <2>3, <3>1
    <3> QED BY <2>2, <3>2
  <2>5. \A m \in Ptr : g[k][m] = h[k][m]
    <3>1. SUFFICES ASSUME NEW m \in Ptr PROVE g[k][m] = h[k][m]
      OBVIOUS
    <3>2. h[k][m] = IF k = 0 \/ m = NULL THEN <<>> ELSE <<m>> \o h[k - 1][p[m]]
      BY <1>3, <2>3 DEF StepsTo
    <3> QED BY <1>8, <2>3, <2>4, <3>2
  <2>6. g[k] = [m \in Ptr |-> g[k][m]] /\ h[k] = [m \in Ptr |-> h[k][m]]
    BY <1>3, <1>7, <2>3 DEF StepsTo
  <2> QED BY <2>3, <2>5, <2>6
<1>10. N \in 0 .. N
  BY <1>2
<1> QED BY <1>1, <1>3, <1>6, <1>9, <1>10

(* A walk along s gives s.                                                 *)
LEMMA WalkAlong ==
  ASSUME NEW p \in [Link -> Ptr], NEW n \in Ptr, NEW s, Along(p, n, s)
  PROVE  Walk(p, n) = s
<1>1. PICK N : N = Cardinality(Link)
  OBVIOUS
<1>2. PICK L : L = Len(s)
  OBVIOUS
<1>3. N \in Nat /\ L \in Nat /\ L <= N /\ s \in Seq(Link)
  BY <1>1, <1>2, LinkFinite, NoLonger DEF Along
<1>4. PICK g : StepsTo(p, N, g) /\ Walk(p, n) = g[N][n]
  BY <1>1, WalkBySteps
<1> DEFINE node(i) == IF i > L THEN NULL ELSE s[i]
           rest(i) == SubSeq(s, i, L)
           Good(k) == \A i \in 1 .. L + 1 : L - i < k => g[k][node(i)] = rest(i)
(* With k steps left, what is left of s is seen if it is no longer.        *)
<1>5. \A k \in 0 .. N : Good(k)
  <2> DEFINE Bad == {k \in 0 .. N : ~Good(k)}
  <2>1. SUFFICES ASSUME Bad # {} PROVE FALSE
    OBVIOUS
  <2>2. PICK k \in Bad : \A j \in Bad : k <= j
    <3>1. Bad \in SUBSET Nat
      OBVIOUS
    <3> HIDE DEF Bad
    <3> QED BY <2>1, <3>1, Least
  <2>3. k \in 0 .. N
    OBVIOUS
  <2>4. PICK i \in 1 .. L + 1 : L - i < k /\ g[k][node(i)] # rest(i)
    OBVIOUS
  <2>5. CASE i = L + 1
    <3>1. node(i) = NULL /\ rest(i) = <<>>
      BY <1>3, <2>5, SubSeqEmpty
    <3>2. NULL \in Ptr
      BY DEF Ptr
    <3>3. g[k][NULL] = <<>>
      BY <1>4, <2>3, <3>2 DEF StepsTo
    <3> QED BY <2>4, <3>1, <3>3
  <2>6. CASE i # L + 1
    <3>1. i \in 1 .. L /\ k # 0 /\ k - 1 \in 0 .. N /\ i + 1 \in 1 .. L + 1 /\ L - (i + 1) < k - 1
      <4>1. i \in 1 .. L /\ i \in Int /\ k \in Int /\ k >= 0 /\ k <= N
        BY <1>3, <2>3, <2>6
      <4>2. L - i < k
        BY <2>4
      <4> HIDE DEF Good
      <4> QED BY <1>3, <4>1, <4>2
    <3>2. node(i) = s[i] /\ s[i] \in Link /\ s[i] \in Ptr /\ s[i] # NULL
      BY <1>2, <1>3, <3>1, TreeLinks DEF Ptr
    <3>3. p[s[i]] = node(i + 1)
      <4>1. p[s[i]] = IF i = L THEN NULL ELSE s[i + 1]
        BY <1>2, <3>1 DEF Along
      <4>2. i = L <=> i + 1 > L
        BY <1>3, <3>1
      <4> QED BY <4>1, <4>2
    <3>4. Good(k - 1)
      <4>1. SUFFICES ASSUME ~Good(k - 1) PROVE FALSE
        OBVIOUS
      <4>2. k - 1 \in Bad
        <5> HIDE DEF Good
        <5> QED BY <3>1, <4>1
      <4>3. ~ (k <= k - 1)
        BY <1>3, <2>3
      <4> HIDE DEF Bad
      <4> QED BY <2>2, <4>2, <4>3
    <3>5. g[k - 1][node(i + 1)] = rest(i + 1)
      BY <3>1, <3>4
    <3>6. g[k][s[i]] = <<s[i]>> \o g[k - 1][p[s[i]]]
      BY <1>4, <2>3, <3>1, <3>2 DEF StepsTo
    <3>7. <<s[i]>> \o rest(i + 1) = rest(i)
      BY <1>2, <1>3, <3>1, SubSeqRecursiveFirst
    <3> QED BY <2>4, <3>2, <3>3, <3>5, <3>6, <3>7
  <2> QED BY <2>5, <2>6
<1>6. g[N][node(1)] = rest(1)
  <2>1. N \in 0 .. N /\ 1 \in 1 .. L + 1 /\ L - 1 < N
    BY <1>3
  <2>2. Good(N)
    BY <1>5, <2>1
  <2> QED BY <2>1, <2>2
<1>7. node(1) = n
  BY <1>2, <1>3 DEF Along
<1>8. rest(1) = s
  BY <1>2, <1>3, SubSeqFull
<1> QED BY <1>4, <1>6, <1>7, <1>8

----------------------------------------------------------------------------
(* Trees.                                                                  *)

(* What is on a list is found on it.                                       *)
LEMMA HoldsItems ==
  ASSUME NEW t \in TreeRecord, NEW l \in List, NEW s, Holds(t, l, s)
  PROVE  Items(t, l) = s
<1>1. t.next \in [Link -> Ptr] /\ t.first[l] \in Ptr
  BY DEF TreeRecord
<1> QED BY <1>1, WalkAlong DEF Items, Holds

(* So a tree is linked if some sequences are on its lists.                 *)
LEMMA LinkedBy ==
  ASSUME NEW t \in TreeRecord, NEW c, \A l \in List : Holds(t, l, c[l])
  PROVE  Linked(t) /\ \A l \in List : Items(t, l) = c[l]
<1>1. \A l \in List : Items(t, l) = c[l]
  BY HoldsItems
<1> QED BY <1>1 DEF Linked

(* The list of a link, and no link is on another list than its own.        *)
LEMMA ListOfLink ==
  ASSUME NEW g \in GroupId, NEW n \in Link
  PROVE  ListOf(g, n) \in List /\ ListOf(g, n)[1] = g /\ ListOf(ListOf(g, n)[1], n) = ListOf(g, n)
BY DEF ListOf, List

LEMMA OneList ==
  ASSUME NEW t, NEW l, NEW m, NEW s, NEW r, Holds(t, l, s), Holds(t, m, r),
         NEW i \in 1 .. Len(s), NEW j \in 1 .. Len(r), s[i] = r[j]
  PROVE  l = m
<1>1. t.parent[s[i]] = l[1] /\ ListOf(l[1], s[i]) = l
  BY DEF Holds
<1>2. t.parent[r[j]] = m[1] /\ ListOf(m[1], r[j]) = m
  BY DEF Holds
<1> QED BY <1>1, <1>2

(* A list stays as it is if its fields and those of its nodes do.          *)
LEMMA HoldsStill ==
  ASSUME NEW t, NEW u, NEW l, NEW s, Holds(t, l, s),
         u.first[l] = t.first[l], u.last[l] = t.last[l], u.count[l] = t.count[l],
         \A i \in 1 .. Len(s) : u.next[s[i]] = t.next[s[i]] /\ u.parent[s[i]] = t.parent[s[i]]
  PROVE  Holds(u, l, s)
BY DEF Holds, Along

----------------------------------------------------------------------------
(* Adding at the end.                                                      *)

(* The fields after sllAdd.                                                *)
Added(t, l, n, u) ==
  /\ u.first = [t.first EXCEPT ![l] = IF t.count[l] > 0 THEN @ ELSE n]
  /\ u.last = [t.last EXCEPT ![l] = n]
  /\ u.count = [t.count EXCEPT ![l] = @ + 1]
  /\ u.next = IF t.count[l] > 0 THEN [[t.next EXCEPT ![t.last[l]] = n] EXCEPT ![n] = NULL]
              ELSE [t.next EXCEPT ![n] = NULL]

LEMMA AddFields ==
  ASSUME NEW t \in TreeRecord, NEW g \in GroupId, NEW n \in Link
  PROVE  /\ alAdd(t, g, n) \in TreeRecord
         /\ Added(t, ListOf(g, n), n, alAdd(t, g, n))
         /\ alAdd(t, g, n).parent = [t.parent EXCEPT ![n] = g]
<1>1. PICK l \in List : l = ListOf(g, n)
  BY ListOfLink
<1>2. PICK v : v = sllAdd(t, l, n)
  OBVIOUS
<1>3. v \in TreeRecord /\ Added(t, l, n, v) /\ v.parent = t.parent
  <2>1. v.first = [t.first EXCEPT ![l] = IF t.count[l] > 0 THEN @ ELSE n]
    BY <1>2 DEF sllAdd, TreeRecord
  <2>2. v.last = [t.last EXCEPT ![l] = n]
    BY <1>2 DEF sllAdd, TreeRecord
  <2>3. v.count = [t.count EXCEPT ![l] = @ + 1]
    BY <1>2 DEF sllAdd, TreeRecord
  <2>4. v.next = IF t.count[l] > 0 THEN [[t.next EXCEPT ![t.last[l]] = n] EXCEPT ![n] = NULL]
                 ELSE [t.next EXCEPT ![n] = NULL]
    BY <1>2 DEF sllAdd, TreeRecord
  <2>5. v.parent = t.parent
    BY <1>2 DEF sllAdd, TreeRecord
  <2>6. v = [first |-> v.first, last |-> v.last, count |-> v.count, next |-> v.next,
             parent |-> v.parent]
    BY <1>2 DEF sllAdd, TreeRecord
  <2>7. v.first \in [List -> Ptr] /\ v.last \in [List -> Ptr] /\ v.count \in [List -> Nat]
        /\ v.next \in [Link -> Ptr] /\ v.parent \in [Link -> GroupId \cup {NULL}]
    BY <2>1, <2>2, <2>3, <2>4, <2>5 DEF TreeRecord, Ptr
  <2> QED BY <2>1, <2>2, <2>3, <2>4, <2>5, <2>6, <2>7 DEF TreeRecord, Added
<1>4. alAdd(t, g, n) = [v EXCEPT !.parent[n] = g]
  BY <1>1, <1>2 DEF alAdd
<1>5. PICK u : u = alAdd(t, g, n)
  OBVIOUS
<1>6. u \in TreeRecord /\ u.parent = [v.parent EXCEPT ![n] = g]
  BY <1>3, <1>4, <1>5 DEF TreeRecord
<1>7. u.first = v.first /\ u.last = v.last /\ u.count = v.count /\ u.next = v.next
  BY <1>3, <1>4, <1>5 DEF TreeRecord
<1> QED BY <1>1, <1>3, <1>5, <1>6, <1>7 DEF Added

(* A node that is on no list is added at the end of l, which holds it then.*)
LEMMA AddedHolds ==
  ASSUME NEW t \in TreeRecord, NEW l \in List, NEW n \in Link, NEW s, Holds(t, l, s),
         \A i \in 1 .. Len(s) : s[i] # n,
         NEW u, Added(t, l, n, u), u.parent = [t.parent EXCEPT ![n] = l[1]], ListOf(l[1], n) = l
  PROVE  Holds(u, l, Append(s, n))
<1>1. PICK L : L = Len(s)
  OBVIOUS
<1>2. s \in Seq(Link) /\ L \in Nat /\ \A i \in 1 .. L : s[i] \in Link
  BY <1>1 DEF Holds, Along
<1>3. PICK r : r = Append(s, n)
  OBVIOUS
<1>4. r \in Seq(Link) /\ Len(r) = L + 1 /\ r[L + 1] = n /\ \A i \in 1 .. L : r[i] = s[i]
  BY <1>1, <1>2, <1>3
<1>5. t.count[l] = L /\ (L > 0 => t.last[l] = s[L])
  BY <1>1 DEF Holds
<1>6. \A i, j \in 1 .. L + 1 : r[i] = r[j] => i = j
  <2>1. \A i, j \in 1 .. L : s[i] = s[j] => i = j
    BY <1>1 DEF Holds, Along
  <2> QED BY <1>1, <1>2, <1>4, <2>1
<1>7. u.first[l] = r[1]
  <2>1. u.first[l] = IF t.count[l] > 0 THEN t.first[l] ELSE n
    BY DEF Added, TreeRecord
  <2>2. t.first[l] = IF L = 0 THEN NULL ELSE s[1]
    BY <1>1 DEF Holds, Along
  <2> QED BY <1>2, <1>4, <1>5, <2>1, <2>2
<1>8. \A i \in 1 .. L + 1 : u.next[r[i]] = IF i = L + 1 THEN NULL ELSE r[i + 1]
  <2>1. SUFFICES ASSUME NEW i \in 1 .. L + 1
                 PROVE  u.next[r[i]] = IF i = L + 1 THEN NULL ELSE r[i + 1]
    OBVIOUS
  <2>2. CASE i = L + 1
    <3>1. r[i] = n
      BY <1>4, <2>2
    <3>2. u.next[n] = NULL
      BY DEF Added, TreeRecord
    <3> QED BY <2>2, <3>1, <3>2
  <2>3. CASE i # L + 1
    <3>1. i \in 1 .. L /\ L > 0 /\ s[i] # n /\ s[i] \in Link /\ r[i] = s[i]
      BY <1>1, <1>2, <1>4, <2>3
    <3>2. u.next[s[i]] = IF s[i] = s[L] THEN n ELSE t.next[s[i]]
      BY <1>2, <1>5, <3>1 DEF Added, TreeRecord
    <3>3. s[i] = s[L] <=> i = L
      BY <1>1, <1>2, <3>1 DEF Holds, Along
    <3>4. t.next[s[i]] = IF i = L THEN NULL ELSE s[i + 1]
      BY <1>1, <3>1 DEF Holds, Along
    <3>5. CASE i = L
      BY <1>2, <1>4, <3>1, <3>2, <3>3, <3>5
    <3>6. CASE i # L
      <4>1. i + 1 \in 1 .. L
        BY <1>2, <3>1, <3>6
      <4> QED BY <1>4, <2>3, <3>1, <3>2, <3>3, <3>4, <3>6, <4>1
    <3> QED BY <3>5, <3>6
  <2> QED BY <2>2, <2>3
<1>9. u.count[l] = L + 1 /\ u.last[l] = n
  BY <1>5 DEF Added, TreeRecord
<1>10. \A i \in 1 .. L + 1 : u.parent[r[i]] = l[1] /\ ListOf(l[1], r[i]) = l
  <2>1. SUFFICES ASSUME NEW i \in 1 .. L + 1 PROVE u.parent[r[i]] = l[1] /\ ListOf(l[1], r[i]) = l
    OBVIOUS
  <2>2. CASE i = L + 1
    BY <1>4, <2>2 DEF TreeRecord
  <2>3. CASE i # L + 1
    <3>1. i \in 1 .. L /\ s[i] # n /\ s[i] \in Link /\ r[i] = s[i]
      BY <1>1, <1>2, <1>4, <2>3
    <3>2. t.parent[s[i]] = l[1] /\ ListOf(l[1], s[i]) = l
      BY <1>1, <3>1 DEF Holds
    <3> QED BY <3>1, <3>2 DEF TreeRecord
  <2> QED BY <2>2, <2>3
<1>11. Along(u.next, u.first[l], r)
  <2>1. L + 1 # 0
    BY <1>2
  <2> QED BY <1>4, <1>6, <1>7, <1>8, <2>1 DEF Along
<1>12. Holds(u, l, r)
  BY <1>4, <1>9, <1>10, <1>11 DEF Holds
<1> QED BY <1>3, <1>12

(* The other lists keep what they hold.                                    *)
LEMMA AddedOthers ==
  ASSUME NEW t \in TreeRecord, NEW l \in List, NEW n \in Link, NEW s, Holds(t, l, s),
         NEW u, Added(t, l, n, u), u.parent = [t.parent EXCEPT ![n] = l[1]],
         NEW m \in List, m # l, NEW r, Holds(t, m, r), \A i \in 1 .. Len(r) : r[i] # n
  PROVE  Holds(u, m, r)
<1>1. r \in Seq(Link) /\ \A i \in 1 .. Len(r) : r[i] \in Link
  BY DEF Holds, Along
<1>2. u.first[m] = t.first[m] /\ u.last[m] = t.last[m] /\ u.count[m] = t.count[m]
  BY DEF Added, TreeRecord
<1>3. ASSUME NEW i \in 1 .. Len(r)
      PROVE  u.next[r[i]] = t.next[r[i]] /\ u.parent[r[i]] = t.parent[r[i]]
  <2>1. r[i] \in Link /\ r[i] # n
    BY <1>1
  <2>2. t.count[l] > 0 => r[i] # t.last[l]
    <3>1. s \in Seq(Link) /\ t.count[l] = Len(s) /\ (Len(s) > 0 => t.last[l] = s[Len(s)])
      BY DEF Holds, Along
    <3>2. SUFFICES ASSUME Len(s) > 0, r[i] = s[Len(s)] PROVE FALSE
      BY <3>1
    <3>3. Len(s) \in 1 .. Len(s)
      BY <3>1, <3>2
    <3> QED BY <3>2, <3>3, OneList
  <2>3. u.next[r[i]] = t.next[r[i]]
    BY <2>1, <2>2 DEF Added, TreeRecord
  <2> QED BY <2>1, <2>3 DEF TreeRecord
<1> QED BY <1>2, <1>3, HoldsStill

(* No list has the link n on it.                                           *)
OnNone(t, n) == \A l \in List : \A i \in 1 .. Len(Items(t, l)) : Items(t, l)[i] # n

(* alAddGroup and alAddChan put a link that is on no list at the end of    *)
(* its list, and leave every other list as it is.                          *)
THEOREM AddExact ==
  ASSUME NEW t, Linked(t), NEW g \in GroupId, NEW n \in Link, OnNone(t, n)
  PROVE  /\ Linked(alAdd(t, g, n))
         /\ \A l \in List : Items(alAdd(t, g, n), l) =
                              IF l = ListOf(g, n) THEN Append(Items(t, l), n) ELSE Items(t, l)
<1>1. PICK u : u = alAdd(t, g, n)
  OBVIOUS
<1>2. PICK k \in List : k = ListOf(g, n) /\ k[1] = g /\ ListOf(k[1], n) = k
  BY ListOfLink
<1>3. t \in TreeRecord /\ \A l \in List : Holds(t, l, Items(t, l))
  BY DEF Linked
<1>4. u \in TreeRecord /\ Added(t, k, n, u) /\ u.parent = [t.parent EXCEPT ![n] = k[1]]
  BY <1>1, <1>2, <1>3, AddFields
<1> DEFINE c == [l \in List |-> IF l = k THEN Append(Items(t, l), n) ELSE Items(t, l)]
<1>5. ASSUME NEW l \in List PROVE Holds(u, l, c[l])
  <2>1. \A i \in 1 .. Len(Items(t, l)) : Items(t, l)[i] # n
    BY DEF OnNone
  <2>2. CASE l = k
    <3>1. Holds(u, k, Append(Items(t, k), n))
      BY <1>2, <1>3, <1>4, <2>1, <2>2, AddedHolds
    <3> QED BY <2>2, <3>1
  <2>3. CASE l # k
    <3>1. Holds(u, l, Items(t, l))
      BY <1>3, <1>4, <2>1, <2>3, AddedOthers
    <3> QED BY <2>3, <3>1
  <2> QED BY <2>2, <2>3
<1>6. \A l \in List : c[l] = IF l = ListOf(g, n) THEN Append(Items(t, l), n) ELSE Items(t, l)
  BY <1>2
<1> HIDE DEF c
<1>7. Linked(u) /\ \A l \in List : Items(u, l) = c[l]
  BY <1>4, <1>5, LinkedBy
<1> QED BY <1>1, <1>6, <1>7

----------------------------------------------------------------------------
(* Searching a list.                                                       *)

(* OnList finds what is on the list.                                       *)
LEMMA OnListIff ==
  ASSUME NEW t, NEW l, NEW n
  PROVE  OnList(t, l, n) <=> \E i \in 1 .. Len(Items(t, l)) : Items(t, l)[i] = n
BY DEF OnList

PrevIn(s, n) ==
  IF \E i \in 1 .. Len(s) - 1 : s[i + 1] = n
  THEN CHOOSE p \in Link : \E i \in 1 .. Len(s) - 1 : s[i] = p /\ s[i + 1] = n
  ELSE NULL

(* Prev finds the node before it.                                          *)
LEMMA PrevIs ==
  ASSUME NEW t \in TreeRecord, NEW l \in List, NEW s, Holds(t, l, s), NEW i \in 1 .. Len(s)
  PROVE  Prev(t, l, s[i]) = IF i = 1 THEN NULL ELSE s[i - 1]
<1>1. Items(t, l) = s
  BY HoldsItems
<1>2. s \in Seq(Link) /\ Len(s) \in Nat /\ \A j \in 1 .. Len(s) : s[j] \in Link
  BY DEF Holds, Along
<1>3. \A j, k \in 1 .. Len(s) : s[j] = s[k] => j = k
  BY DEF Holds, Along
<1>4. \A j \in 1 .. Len(s) - 1 : s[j + 1] = s[i] => j = i - 1
  <2>1. SUFFICES ASSUME NEW j \in 1 .. Len(s) - 1, s[j + 1] = s[i] PROVE j = i - 1
    OBVIOUS
  <2>2. j + 1 \in 1 .. Len(s)
    BY <1>2
  <2>3. j + 1 = i
    BY <1>3, <2>1, <2>2
  <2> QED BY <2>3
<1>5. CASE i = 1
  <2>1. ~\E j \in 1 .. Len(s) - 1 : s[j + 1] = s[i]
    BY <1>2, <1>4, <1>5
  <2> QED BY <1>1, <1>5, <2>1 DEF Prev
<1>6. CASE i # 1
  <2>1. i - 1 \in 1 .. Len(s) - 1 /\ i - 1 + 1 = i /\ i - 1 \in 1 .. Len(s)
    BY <1>2, <1>6
  <2>2. \E j \in 1 .. Len(s) - 1 : s[j + 1] = s[i]
    BY <2>1
  <2>3. \A p \in Link : (\E j \in 1 .. Len(s) - 1 : s[j] = p /\ s[j + 1] = s[i]) <=> p = s[i - 1]
    BY <1>4, <2>1
  <2>4. s[i - 1] \in Link
    BY <1>2, <2>1
  <2>5. (CHOOSE p \in Link : \E j \in 1 .. Len(s) - 1 : s[j] = p /\ s[j + 1] = s[i]) = s[i - 1]
    BY <2>3, <2>4
  <2>6. Prev(t, l, s[i]) = PrevIn(s, s[i])
    <3>1. Prev(t, l, s[i]) = PrevIn(Items(t, l), s[i])
      BY DEF Prev, PrevIn
    <3> QED BY <1>1, <3>1
  <2> QED BY <1>6, <2>2, <2>5, <2>6 DEF PrevIn
<1> QED BY <1>5, <1>6

----------------------------------------------------------------------------
(* Removing.                                                               *)

RemovedAt(s, i) == [j \in 1 .. Len(s) - 1 |-> IF j < i THEN s[j] ELSE s[j + 1]]

(* The fields after sllRemove of the node at place i of what l holds.      *)
Removed(t, l, s, i, u) ==
  /\ u.first = [t.first EXCEPT ![l] = IF i = 1 THEN t.next[s[i]] ELSE @]
  /\ u.next = IF i = 1 THEN t.next ELSE [t.next EXCEPT ![s[i - 1]] = t.next[s[i]]]
  /\ u.last = [t.last EXCEPT ![l] = IF s[i] # t.last[l] THEN @ ELSE IF i = 1 THEN s[i] ELSE s[i - 1]]
  /\ u.count = [t.count EXCEPT ![l] = @ - 1]
  /\ u.parent = t.parent

LEMMA RemoveFields ==
  ASSUME NEW t \in TreeRecord, NEW l \in List, NEW s, Holds(t, l, s), NEW i \in 1 .. Len(s)
  PROVE  /\ sllRemove(t, l, s[i]) \in TreeRecord
         /\ Removed(t, l, s, i, sllRemove(t, l, s[i]))
<1>1. Items(t, l) = s
  BY HoldsItems
<1>2. s \in Seq(Link) /\ Len(s) \in Nat /\ t.count[l] = Len(s) /\ \A j \in 1 .. Len(s) : s[j] \in Link
  BY DEF Holds, Along
<1>3. OnList(t, l, s[i])
  BY <1>1 DEF OnList
<1>4. PICK q : q = Prev(t, l, s[i])
  OBVIOUS
<1>5. q = (IF i = 1 THEN NULL ELSE s[i - 1]) /\ s[i] \in Link /\ (q = NULL <=> i = 1)
      /\ (i # 1 => s[i - 1] \in Link)
  <2>1. q = IF i = 1 THEN NULL ELSE s[i - 1]
    BY <1>4, PrevIs
  <2>2. i # 1 => s[i - 1] \in Link /\ s[i - 1] # NULL
    BY <1>2, TreeLinks
  <2> QED BY <1>2, <2>1, <2>2
<1>6. PICK u : u = sllRemove(t, l, s[i])
  OBVIOUS
<1>7. u = [t EXCEPT !.first[l] = IF q = NULL THEN t.next[s[i]] ELSE @,
                    !.next = IF q = NULL THEN @ ELSE [@ EXCEPT ![q] = t.next[s[i]]],
                    !.last[l] = IF s[i] # t.last[l] THEN @ ELSE IF q = NULL THEN s[i] ELSE q,
                    !.count[l] = @ - 1]
  BY <1>3, <1>4, <1>6 DEF sllRemove
<1>8. /\ u.first = [t.first EXCEPT ![l] = IF q = NULL THEN t.next[s[i]] ELSE @]
      /\ u.next = IF q = NULL THEN t.next ELSE [t.next EXCEPT ![q] = t.next[s[i]]]
      /\ u.last = [t.last EXCEPT ![l] = IF s[i] # t.last[l] THEN @ ELSE IF q = NULL THEN s[i] ELSE q]
      /\ u.count = [t.count EXCEPT ![l] = @ - 1]
      /\ u.parent = t.parent
      /\ u = [first |-> u.first, last |-> u.last, count |-> u.count, next |-> u.next,
              parent |-> u.parent]
  BY <1>7 DEF TreeRecord
<1>9. Removed(t, l, s, i, u)
  BY <1>5, <1>8 DEF Removed
<1>10. t.count[l] - 1 \in Nat
  BY <1>2
<1>11. u.first \in [List -> Ptr] /\ u.last \in [List -> Ptr] /\ u.count \in [List -> Nat]
       /\ u.next \in [Link -> Ptr] /\ u.parent \in [Link -> GroupId \cup {NULL}]
  <2>1. t.next[s[i]] \in Ptr /\ s[i] \in Ptr /\ (i # 1 => s[i - 1] \in Ptr)
    BY <1>5 DEF TreeRecord, Ptr
  <2>2. u.first \in [List -> Ptr]
    BY <1>9, <2>1 DEF TreeRecord, Removed
  <2>3. u.last \in [List -> Ptr]
    BY <1>9, <2>1 DEF TreeRecord, Removed
  <2>4. u.count \in [List -> Nat]
    BY <1>9, <1>10 DEF TreeRecord, Removed
  <2>5. u.next \in [Link -> Ptr]
    <3>1. t.next \in [Link -> Ptr]
      BY DEF TreeRecord
    <3>2. u.next = IF i = 1 THEN t.next ELSE [t.next EXCEPT ![s[i - 1]] = t.next[s[i]]]
      BY <1>9 DEF Removed
    <3> QED BY <2>1, <3>1, <3>2
  <2>6. u.parent \in [Link -> GroupId \cup {NULL}]
    BY <1>9 DEF TreeRecord, Removed
  <2> QED BY <2>2, <2>3, <2>4, <2>5, <2>6
<1>12. u \in TreeRecord
  BY <1>8, <1>11 DEF TreeRecord
<1> QED BY <1>6, <1>9, <1>12

(* The list holds the others in their order.                               *)
LEMMA RemovedHolds ==
  ASSUME NEW t \in TreeRecord, NEW l \in List, NEW s, Holds(t, l, s), NEW i \in 1 .. Len(s),
         NEW u, Removed(t, l, s, i, u)
  PROVE  Holds(u, l, RemovedAt(s, i))
<1>1. PICK L : L = Len(s)
  OBVIOUS
<1>2. s \in Seq(Link) /\ L \in Nat /\ L > 0 /\ \A j \in 1 .. L : s[j] \in Link
  BY <1>1 DEF Holds, Along
<1>3. PICK r : r = RemovedAt(s, i)
  OBVIOUS
<1>4. r \in Seq(Link) /\ Len(r) = L - 1 /\ \A j \in 1 .. L - 1 : r[j] = IF j < i THEN s[j] ELSE s[j + 1]
  <2>1. L - 1 \in Nat
    BY <1>2
  <2>2. \A j \in 1 .. L - 1 : (IF j < i THEN s[j] ELSE s[j + 1]) \in Link
    BY <1>1, <1>2
  <2> QED BY <1>1, <1>3, <2>1, <2>2 DEF RemovedAt
<1>5. \A j, k \in 1 .. L : s[j] = s[k] => j = k
  BY <1>1 DEF Holds, Along
<1>6. \A j \in 1 .. L : t.next[s[j]] = IF j = L THEN NULL ELSE s[j + 1]
  BY <1>1 DEF Holds, Along
<1>7. \A j, k \in 1 .. L - 1 : r[j] = r[k] => j = k
  <2>1. SUFFICES ASSUME NEW j \in 1 .. L - 1, NEW k \in 1 .. L - 1, r[j] = r[k] PROVE j = k
    OBVIOUS
  <2> DEFINE at(m) == IF m < i THEN m ELSE m + 1
  <2>2. at(j) \in 1 .. L /\ at(k) \in 1 .. L /\ r[j] = s[at(j)] /\ r[k] = s[at(k)]
    BY <1>1, <1>2, <1>4
  <2>3. at(j) = at(k)
    BY <1>5, <2>1, <2>2
  <2> QED BY <2>3
<1>8. u.first[l] = IF L - 1 = 0 THEN NULL ELSE r[1]
  <2>1. u.first[l] = IF i = 1 THEN t.next[s[i]] ELSE t.first[l]
    BY DEF Removed, TreeRecord
  <2>2. t.first[l] = s[1]
    BY <1>1, <1>2 DEF Holds, Along
  <2>3. CASE i = 1
    BY <1>1, <1>2, <1>4, <1>6, <2>1, <2>3
  <2>4. CASE i # 1
    BY <1>1, <1>2, <1>4, <2>1, <2>2, <2>4
  <2> QED BY <2>3, <2>4
<1>9. \A j \in 1 .. L - 1 : u.next[r[j]] = IF j = L - 1 THEN NULL ELSE r[j + 1]
  <2>1. SUFFICES ASSUME NEW j \in 1 .. L - 1
                 PROVE  u.next[r[j]] = IF j = L - 1 THEN NULL ELSE r[j + 1]
    OBVIOUS
  <2>2. PICK k \in 1 .. L : k = (IF j < i THEN j ELSE j + 1) /\ r[j] = s[k] /\ s[k] \in Link
    BY <1>1, <1>2, <1>4
  <2>3. u.next[s[k]] = IF i # 1 /\ s[k] = s[i - 1] THEN t.next[s[i]] ELSE t.next[s[k]]
    BY <2>2 DEF Removed, TreeRecord
  <2>4. i # 1 => (s[k] = s[i - 1] <=> k = i - 1)
    BY <1>1, <1>2, <1>5, <2>2
  <2>5. CASE k = i - 1
    <3>1. j = i - 1 /\ i # 1
      BY <1>1, <1>2, <2>2, <2>5
    <3>2. u.next[r[j]] = t.next[s[i]]
      BY <2>2, <2>3, <2>4, <2>5, <3>1
    <3>3. t.next[s[i]] = IF i = L THEN NULL ELSE s[i + 1]
      BY <1>1, <1>6
    <3>4. i # L => r[j + 1] = s[i + 1] /\ j # L - 1
      BY <1>1, <1>2, <1>4, <3>1
    <3>5. i = L <=> j = L - 1
      BY <1>1, <1>2, <3>1
    <3> QED BY <3>2, <3>3, <3>4, <3>5
  <2>6. CASE k # i - 1
    <3>1. u.next[r[j]] = IF k = L THEN NULL ELSE s[k + 1]
      BY <1>6, <2>2, <2>3, <2>4, <2>6
    <3>2. k = L <=> j = L - 1
      BY <1>1, <1>2, <2>2, <2>6
    <3>3. j # L - 1 => j + 1 \in 1 .. L - 1 /\ r[j + 1] = s[k + 1]
      <4>1. SUFFICES ASSUME j # L - 1 PROVE j + 1 \in 1 .. L - 1 /\ r[j + 1] = s[k + 1]
        OBVIOUS
      <4>2. j + 1 \in 1 .. L - 1
        BY <1>2, <4>1
      <4>3. r[j + 1] = IF j + 1 < i THEN s[j + 1] ELSE s[j + 1 + 1]
        BY <1>4, <4>2
      <4>4. k + 1 = IF j + 1 < i THEN j + 1 ELSE j + 1 + 1
        BY <1>1, <1>2, <2>2, <2>6
      <4> QED BY <4>2, <4>3, <4>4
    <3> QED BY <3>1, <3>2, <3>3
  <2> QED BY <2>5, <2>6
<1>10. u.count[l] = L - 1
  BY <1>1 DEF Removed, TreeRecord, Holds
<1>11. L - 1 > 0 => u.last[l] = r[L - 1]
  <2>1. SUFFICES ASSUME L - 1 > 0 PROVE u.last[l] = r[L - 1]
    OBVIOUS
  <2>2. t.last[l] = s[L]
    BY <1>1, <1>2 DEF Holds
  <2>3. s[i] # s[L] <=> i # L
    BY <1>1, <1>2, <1>5
  <2>4. u.last[l] = IF i # L THEN s[L] ELSE IF i = 1 THEN s[i] ELSE s[i - 1]
    BY <2>2, <2>3 DEF Removed, TreeRecord
  <2>5. r[L - 1] = IF L - 1 < i THEN s[L - 1] ELSE s[L]
    BY <1>2, <1>4, <2>1
  <2>6. L - 1 < i <=> i = L
    BY <1>1, <1>2
  <2> QED BY <1>2, <2>1, <2>4, <2>5, <2>6
<1>12. \A j \in 1 .. L - 1 : u.parent[r[j]] = l[1] /\ ListOf(l[1], r[j]) = l
  <2>1. SUFFICES ASSUME NEW j \in 1 .. L - 1 PROVE u.parent[r[j]] = l[1] /\ ListOf(l[1], r[j]) = l
    OBVIOUS
  <2>2. PICK k \in 1 .. L : r[j] = s[k]
    BY <1>1, <1>2, <1>4
  <2> QED BY <1>1, <2>2 DEF Removed, Holds
<1>13. Along(u.next, u.first[l], r)
  BY <1>4, <1>7, <1>8, <1>9 DEF Along
<1>14. Holds(u, l, r)
  BY <1>4, <1>10, <1>11, <1>12, <1>13 DEF Holds
<1> QED BY <1>3, <1>14

LEMMA RemovedOthers ==
  ASSUME NEW t \in TreeRecord, NEW l \in List, NEW s, Holds(t, l, s), NEW i \in 1 .. Len(s),
         NEW u, Removed(t, l, s, i, u), NEW m \in List, m # l, NEW r, Holds(t, m, r)
  PROVE  Holds(u, m, r)
<1>1. r \in Seq(Link) /\ \A j \in 1 .. Len(r) : r[j] \in Link
  BY DEF Holds, Along
<1>2. u.first[m] = t.first[m] /\ u.last[m] = t.last[m] /\ u.count[m] = t.count[m]
  BY DEF Removed, TreeRecord
<1>3. ASSUME NEW j \in 1 .. Len(r)
      PROVE  u.next[r[j]] = t.next[r[j]] /\ u.parent[r[j]] = t.parent[r[j]]
  <2>1. r[j] \in Link
    BY <1>1
  <2>2. i # 1 => r[j] # s[i - 1]
    <3>1. SUFFICES ASSUME i # 1, r[j] = s[i - 1] PROVE FALSE
      OBVIOUS
    <3>2. s \in Seq(Link)
      BY DEF Holds, Along
    <3>3. i - 1 \in 1 .. Len(s)
      BY <3>1, <3>2
    <3> QED BY <3>1, <3>3, OneList
  <2> QED BY <2>1, <2>2 DEF Removed, TreeRecord
<1> QED BY <1>2, <1>3, HoldsStill

(* alRemoveGroup and alRemoveChan take a link out of the list it is on,    *)
(* wherever it is there, and do nothing to one that is on none.            *)
THEOREM RemoveExact ==
  ASSUME NEW t, Linked(t), NEW n \in Link
  PROVE  /\ Linked(alRemove(t, n))
         /\ \A l \in List : \A i \in 1 .. Len(Items(t, l)) :
              Items(t, l)[i] = n => Items(alRemove(t, n), l) = RemovedAt(Items(t, l), i)
         /\ \A l \in List : (\A i \in 1 .. Len(Items(t, l)) : Items(t, l)[i] # n) =>
              Items(alRemove(t, n), l) = Items(t, l)
<1>1. t \in TreeRecord /\ \A l \in List : Holds(t, l, Items(t, l))
  BY DEF Linked
<1>2. CASE OnNone(t, n)
  <2>1. alRemove(t, n) = t
    <3>1. CASE t.parent[n] = NULL
      BY <3>1 DEF alRemove
    <3>2. CASE t.parent[n] # NULL
      <4>1. t.parent[n] \in GroupId
        BY <1>1, <3>2 DEF TreeRecord
      <4>2. ListOf(t.parent[n], n) \in List
        BY <4>1, ListOfLink
      <4>3. ~OnList(t, ListOf(t.parent[n], n), n)
        BY <1>2, <4>2 DEF OnList, OnNone
      <4> QED BY <3>2, <4>3 DEF alRemove, sllRemove
    <3> QED BY <3>1, <3>2
  <2>2. \A l \in List : \A i \in 1 .. Len(Items(t, l)) : Items(t, l)[i] # n
    BY <1>2 DEF OnNone
  <2> QED BY <2>1, <2>2
<1>3. CASE ~OnNone(t, n)
  <2> PICK k \in List : \E i \in 1 .. Len(Items(t, k)) : Items(t, k)[i] = n
    BY <1>3 DEF OnNone
  <2>1. PICK i \in 1 .. Len(Items(t, k)) : Items(t, k)[i] = n
    OBVIOUS
  <2>2. PICK s : s = Items(t, k)
    OBVIOUS
  <2>3. Holds(t, k, s) /\ i \in 1 .. Len(s) /\ s[i] = n
    BY <1>1, <2>1, <2>2
  <2>4. t.parent[n] = k[1] /\ ListOf(k[1], n) = k
    BY <2>3 DEF Holds
  <2>5. k[1] # NULL
    <3>1. k[1] \in GroupId
      BY DEF List
    <3> QED BY <3>1, TreeLinks DEF Link
  <2>6. PICK u : u = alRemove(t, n)
    OBVIOUS
  <2>7. u = sllRemove(t, k, s[i])
    BY <2>3, <2>4, <2>5, <2>6 DEF alRemove
  <2>8. u \in TreeRecord /\ Removed(t, k, s, i, u)
    BY <1>1, <2>3, <2>7, RemoveFields
  <2> DEFINE c == [l \in List |-> IF l = k THEN RemovedAt(s, i) ELSE Items(t, l)]
  <2>9. ASSUME NEW l \in List PROVE Holds(u, l, c[l])
    <3>1. CASE l = k
      <4>1. Holds(u, k, RemovedAt(s, i))
        BY <1>1, <2>3, <2>8, RemovedHolds
      <4> QED BY <3>1, <4>1
    <3>2. CASE l # k
      <4>1. Holds(u, l, Items(t, l))
        BY <1>1, <2>3, <2>8, <3>2, RemovedOthers
      <4> QED BY <3>2, <4>1
    <3> QED BY <3>1, <3>2
  <2>10. c[k] = RemovedAt(s, i) /\ \A l \in List : l # k => c[l] = Items(t, l)
    OBVIOUS
  <2> HIDE DEF c
  <2>11. Linked(u) /\ \A l \in List : Items(u, l) = c[l]
    BY <2>8, <2>9, LinkedBy
  <2>12. ASSUME NEW l \in List, NEW j \in 1 .. Len(Items(t, l)), Items(t, l)[j] = n
         PROVE  Items(u, l) = RemovedAt(Items(t, l), j)
    <3>1. l = k
      <4>1. Holds(t, l, Items(t, l))
        BY <1>1
      <4> QED BY <2>3, <2>12, <4>1, OneList
    <3>2. j = i
      BY <2>2, <2>3, <2>12, <3>1 DEF Holds, Along
    <3> QED BY <2>2, <2>10, <2>11, <3>1, <3>2
  <2>13. ASSUME NEW l \in List, \A j \in 1 .. Len(Items(t, l)) : Items(t, l)[j] # n
         PROVE  Items(u, l) = Items(t, l)
    <3>1. l # k
      BY <2>1, <2>13
    <3> QED BY <2>10, <2>11, <3>1
  <2> QED BY <2>6, <2>11, <2>12, <2>13
<1> QED BY <1>2, <1>3

----------------------------------------------------------------------------
(* Inserting.                                                              *)

InsertedAt(s, i, n) ==
  [j \in 1 .. Len(s) + 1 |-> IF j < i THEN s[j] ELSE IF j = i THEN n ELSE s[j - 1]]

(* The fields after sllPrecede of n before the node at place i.            *)
Preceded(t, l, s, i, n, u) ==
  /\ u.first = [t.first EXCEPT ![l] = IF i = 1 THEN n ELSE @]
  /\ u.next = IF i = 1 THEN [t.next EXCEPT ![n] = s[i]]
              ELSE [[t.next EXCEPT ![n] = s[i]] EXCEPT ![s[i - 1]] = n]
  /\ u.last = t.last
  /\ u.count = [t.count EXCEPT ![l] = @ + 1]

LEMMA PrecedeFields ==
  ASSUME NEW t \in TreeRecord, NEW l \in List, NEW s, Holds(t, l, s), NEW i \in 1 .. Len(s),
         NEW n \in Link
  PROVE  /\ sllPrecede(t, l, s[i], n) \in TreeRecord
         /\ Preceded(t, l, s, i, n, sllPrecede(t, l, s[i], n))
         /\ sllPrecede(t, l, s[i], n).parent = t.parent
<1>1. Items(t, l) = s
  BY HoldsItems
<1>2. s \in Seq(Link) /\ Len(s) \in Nat /\ t.count[l] = Len(s) /\ \A j \in 1 .. Len(s) : s[j] \in Link
  BY DEF Holds, Along
<1>3. OnList(t, l, s[i])
  BY <1>1 DEF OnList
<1>4. PICK q : q = Prev(t, l, s[i])
  OBVIOUS
<1>5. q = (IF i = 1 THEN NULL ELSE s[i - 1]) /\ s[i] \in Link /\ (q = NULL <=> i = 1)
      /\ (i # 1 => s[i - 1] \in Link) /\ s[i] # NULL
  <2>1. q = IF i = 1 THEN NULL ELSE s[i - 1]
    BY <1>4, PrevIs
  <2>2. i # 1 => s[i - 1] \in Link /\ s[i - 1] # NULL
    BY <1>2, TreeLinks
  <2> QED BY <1>2, <2>1, <2>2, TreeLinks
<1>6. PICK u : u = sllPrecede(t, l, s[i], n)
  OBVIOUS
<1>7. u = [t EXCEPT !.next = IF q = NULL THEN [@ EXCEPT ![n] = s[i]]
                             ELSE [@ EXCEPT ![n] = s[i], ![q] = n],
                    !.first[l] = IF q = NULL THEN n ELSE @,
                    !.count[l] = @ + 1]
  BY <1>3, <1>4, <1>5, <1>6 DEF sllPrecede
<1>8. /\ u.first = [t.first EXCEPT ![l] = IF q = NULL THEN n ELSE @]
      /\ u.next = IF q = NULL THEN [t.next EXCEPT ![n] = s[i]]
                  ELSE [[t.next EXCEPT ![n] = s[i]] EXCEPT ![q] = n]
      /\ u.last = t.last
      /\ u.count = [t.count EXCEPT ![l] = @ + 1]
      /\ u.parent = t.parent
      /\ u = [first |-> u.first, last |-> u.last, count |-> u.count, next |-> u.next,
              parent |-> u.parent]
  BY <1>7 DEF TreeRecord
<1>9. Preceded(t, l, s, i, n, u)
  BY <1>5, <1>8 DEF Preceded
<1>10. n \in Ptr /\ s[i] \in Ptr
  BY <1>5 DEF Ptr
<1>11. u.first \in [List -> Ptr]
  BY <1>8, <1>10 DEF TreeRecord
<1>12. u.last \in [List -> Ptr] /\ u.parent \in [Link -> GroupId \cup {NULL}]
  BY <1>8 DEF TreeRecord
<1>13. u.count \in [List -> Nat]
  BY <1>8 DEF TreeRecord
<1>14. u.next \in [Link -> Ptr]
  <2>1. t.next \in [Link -> Ptr]
    BY DEF TreeRecord
  <2>2. [t.next EXCEPT ![n] = s[i]] \in [Link -> Ptr]
    BY <1>10, <2>1
  <2> QED BY <1>8, <1>10, <2>2
<1>15. u \in TreeRecord
  BY <1>8, <1>11, <1>12, <1>13, <1>14 DEF TreeRecord
<1> QED BY <1>6, <1>8, <1>9, <1>15

(* The list holds n before that node.                                      *)
LEMMA PrecededHolds ==
  ASSUME NEW t \in TreeRecord, NEW l \in List, NEW s, Holds(t, l, s), NEW i \in 1 .. Len(s),
         NEW n \in Link, \A j \in 1 .. Len(s) : s[j] # n,
         NEW u, Preceded(t, l, s, i, n, u), u.parent = [t.parent EXCEPT ![n] = l[1]],
         ListOf(l[1], n) = l
  PROVE  Holds(u, l, InsertedAt(s, i, n))
<1>1. PICK L : L = Len(s)
  OBVIOUS
<1>2. s \in Seq(Link) /\ L \in Nat /\ L > 0 /\ \A j \in 1 .. L : s[j] \in Link /\ s[j] # n
  BY <1>1 DEF Holds, Along
<1>3. PICK r : r = InsertedAt(s, i, n)
  OBVIOUS
<1>4. /\ r \in Seq(Link) /\ Len(r) = L + 1
      /\ \A j \in 1 .. L + 1 : r[j] = IF j < i THEN s[j] ELSE IF j = i THEN n ELSE s[j - 1]
  <2>1. L + 1 \in Nat
    BY <1>2
  <2>2. \A j \in 1 .. L + 1 : (IF j < i THEN s[j] ELSE IF j = i THEN n ELSE s[j - 1]) \in Link
    BY <1>1, <1>2
  <2> QED BY <1>1, <1>3, <2>1, <2>2 DEF InsertedAt
<1>5. \A j, k \in 1 .. L : s[j] = s[k] => j = k
  BY <1>1 DEF Holds, Along
<1>6. \A j \in 1 .. L : t.next[s[j]] = IF j = L THEN NULL ELSE s[j + 1]
  BY <1>1 DEF Holds, Along
(* The place of the node that is at place j of r.                          *)
<1>7. \A j \in 1 .. L + 1 : j # i =>
        \E k \in 1 .. L : k = (IF j < i THEN j ELSE j - 1) /\ r[j] = s[k] /\ r[j] # n /\ s[k] \in Link
  <2>1. SUFFICES ASSUME NEW j \in 1 .. L + 1, j # i
                 PROVE \E k \in 1 .. L : k = (IF j < i THEN j ELSE j - 1) /\ r[j] = s[k] /\ r[j] # n /\ s[k] \in Link
    OBVIOUS
  <2>2. (IF j < i THEN j ELSE j - 1) \in 1 .. L
    BY <1>1, <1>2, <2>1
  <2>3. r[j] = s[IF j < i THEN j ELSE j - 1]
    BY <1>4, <2>1
  <2> QED BY <1>2, <2>2, <2>3
<1>8. \A j, k \in 1 .. L + 1 : r[j] = r[k] => j = k
  <2>1. SUFFICES ASSUME NEW j \in 1 .. L + 1, NEW k \in 1 .. L + 1, r[j] = r[k] PROVE j = k
    OBVIOUS
  <2>2. r[i] = n
    BY <1>1, <1>2, <1>4
  <2>3. CASE j = i \/ k = i
    BY <1>7, <2>1, <2>2, <2>3
  <2>4. CASE j # i /\ k # i
    <3>1. PICK a \in 1 .. L : a = (IF j < i THEN j ELSE j - 1) /\ r[j] = s[a]
      BY <1>7, <2>4
    <3>2. PICK b \in 1 .. L : b = (IF k < i THEN k ELSE k - 1) /\ r[k] = s[b]
      BY <1>7, <2>4
    <3>3. a = b
      BY <1>5, <2>1, <3>1, <3>2
    <3> QED BY <1>1, <1>2, <2>4, <3>1, <3>2, <3>3
  <2> QED BY <2>3, <2>4
<1>9. u.first[l] = r[1]
  <2>1. u.first[l] = IF i = 1 THEN n ELSE t.first[l]
    BY DEF Preceded, TreeRecord
  <2>2. t.first[l] = s[1]
    BY <1>1, <1>2 DEF Holds, Along
  <2>3. r[1] = IF i = 1 THEN n ELSE s[1]
    BY <1>1, <1>2, <1>4
  <2> QED BY <2>1, <2>2, <2>3
<1>10. t.next \in [Link -> Ptr] /\ s[i] \in Link /\ (i # 1 => s[i - 1] \in Link /\ s[i - 1] # n)
  BY <1>1, <1>2 DEF TreeRecord
<1>11. \A m \in Link : u.next[m] = IF i # 1 /\ m = s[i - 1] THEN n
                                  ELSE IF m = n THEN s[i] ELSE t.next[m]
  BY <1>10 DEF Preceded
<1>12. \A j \in 1 .. L + 1 : u.next[r[j]] = IF j = L + 1 THEN NULL ELSE r[j + 1]
  <2>1. SUFFICES ASSUME NEW j \in 1 .. L + 1
                 PROVE  u.next[r[j]] = IF j = L + 1 THEN NULL ELSE r[j + 1]
    OBVIOUS
  <2>2. CASE j = i
    <3>1. r[j] = n /\ j # L + 1 /\ j + 1 \in 1 .. L + 1
      BY <1>1, <1>2, <1>4, <2>2
    <3>2. r[j + 1] = s[i]
      BY <1>1, <1>2, <1>4, <2>2, <3>1
    <3> QED BY <1>10, <1>11, <3>1, <3>2
  <2>3. CASE j # i
    <3>1. PICK k \in 1 .. L : k = (IF j < i THEN j ELSE j - 1) /\ r[j] = s[k] /\ r[j] # n /\ s[k] \in Link
      BY <1>7, <2>3
    <3>2. i # 1 => (s[k] = s[i - 1] <=> k = i - 1)
      BY <1>1, <1>2, <1>5
    <3>3. CASE k = i - 1
      <4>1. i # 1 /\ j = i - 1 /\ j # L + 1 /\ j + 1 = i /\ j + 1 \in 1 .. L + 1
        BY <1>1, <1>2, <2>3, <3>1, <3>3
      <4>2. u.next[r[j]] = n
        BY <1>11, <3>1, <3>2, <3>3, <4>1
      <4>3. r[j + 1] = n
        BY <1>4, <4>1
      <4> QED BY <4>1, <4>2, <4>3
    <3>4. CASE k # i - 1
      <4>1. u.next[r[j]] = IF k = L THEN NULL ELSE s[k + 1]
        BY <1>6, <1>11, <3>1, <3>2, <3>4
      <4>2. k = L <=> j = L + 1
        BY <1>1, <1>2, <2>3, <3>1, <3>4
      <4>3. j # L + 1 => r[j + 1] = s[k + 1]
        <5>1. SUFFICES ASSUME j # L + 1 PROVE r[j + 1] = s[k + 1]
          OBVIOUS
        <5>2. j + 1 \in 1 .. L + 1
          BY <1>2, <5>1
        <5>3. r[j + 1] = IF j + 1 < i THEN s[j + 1] ELSE IF j + 1 = i THEN n ELSE s[j + 1 - 1]
          BY <1>4, <5>2
        <5>4. j + 1 # i
          BY <1>1, <1>2, <2>3, <3>1, <3>4
        <5>5. k + 1 = IF j + 1 < i THEN j + 1 ELSE j + 1 - 1
          BY <1>1, <1>2, <2>3, <3>1, <5>4
        <5> QED BY <5>3, <5>4, <5>5
      <4> QED BY <4>1, <4>2, <4>3
    <3> QED BY <3>3, <3>4
  <2> QED BY <2>2, <2>3
<1>13. u.count[l] = L + 1 /\ u.last[l] = r[L + 1]
  <2>1. t.count[l] = L /\ t.last[l] = s[L]
    BY <1>1, <1>2 DEF Holds
  <2>2. r[L + 1] = s[L]
    BY <1>1, <1>2, <1>4
  <2> QED BY <2>1, <2>2 DEF Preceded, TreeRecord
<1>14. \A j \in 1 .. L + 1 : u.parent[r[j]] = l[1] /\ ListOf(l[1], r[j]) = l
  <2>1. SUFFICES ASSUME NEW j \in 1 .. L + 1 PROVE u.parent[r[j]] = l[1] /\ ListOf(l[1], r[j]) = l
    OBVIOUS
  <2>2. CASE j = i
    <3>1. r[j] = n
      BY <1>4, <2>2
    <3> QED BY <3>1 DEF TreeRecord
  <2>3. CASE j # i
    <3>1. PICK k \in 1 .. L : r[j] = s[k] /\ r[j] # n /\ s[k] \in Link
      BY <1>7, <2>3
    <3>2. t.parent[s[k]] = l[1] /\ ListOf(l[1], s[k]) = l
      BY <1>1, <3>1 DEF Holds
    <3> QED BY <3>1, <3>2 DEF TreeRecord
  <2> QED BY <2>2, <2>3
<1>15. L + 1 # 0
  BY <1>2
<1>16. Along(u.next, u.first[l], r)
  BY <1>4, <1>8, <1>9, <1>12, <1>15 DEF Along
<1>17. Holds(u, l, r)
  BY <1>4, <1>13, <1>14, <1>16 DEF Holds
<1> QED BY <1>3, <1>17

LEMMA PrecededOthers ==
  ASSUME NEW t \in TreeRecord, NEW l \in List, NEW s, Holds(t, l, s), NEW i \in 1 .. Len(s),
         NEW n \in Link, NEW u, Preceded(t, l, s, i, n, u), u.parent = [t.parent EXCEPT ![n] = l[1]],
         NEW m \in List, m # l, NEW r, Holds(t, m, r), \A j \in 1 .. Len(r) : r[j] # n
  PROVE  Holds(u, m, r)
<1>1. r \in Seq(Link) /\ \A j \in 1 .. Len(r) : r[j] \in Link
  BY DEF Holds, Along
<1>2. u.first[m] = t.first[m] /\ u.last[m] = t.last[m] /\ u.count[m] = t.count[m]
  BY DEF Preceded, TreeRecord
<1>3. ASSUME NEW j \in 1 .. Len(r)
      PROVE  u.next[r[j]] = t.next[r[j]] /\ u.parent[r[j]] = t.parent[r[j]]
  <2>1. r[j] \in Link /\ r[j] # n
    BY <1>1
  <2>2. i # 1 => r[j] # s[i - 1]
    <3>1. SUFFICES ASSUME i # 1, r[j] = s[i - 1] PROVE FALSE
      OBVIOUS
    <3>2. s \in Seq(Link)
      BY DEF Holds, Along
    <3>3. i - 1 \in 1 .. Len(s)
      BY <3>1, <3>2
    <3> QED BY <3>1, <3>3, OneList
  <2>3. u.next[r[j]] = t.next[r[j]]
    BY <2>1, <2>2 DEF Preceded, TreeRecord
  <2> QED BY <2>1, <2>3 DEF TreeRecord
<1> QED BY <1>2, <1>3, HoldsStill

(* alPrecede gives the link its group as parent in any case.               *)
LEMMA PrecedeParent ==
  ASSUME NEW t \in TreeRecord, NEW g \in GroupId, NEW n \in Link, NEW x, NEW v,
         v = sllPrecede(t, ListOf(g, n), x, n), v \in TreeRecord, v.parent = t.parent
  PROVE  /\ alPrecede(t, g, x, n) \in TreeRecord
         /\ alPrecede(t, g, x, n).parent = [t.parent EXCEPT ![n] = g]
         /\ alPrecede(t, g, x, n).first = v.first /\ alPrecede(t, g, x, n).last = v.last
         /\ alPrecede(t, g, x, n).count = v.count /\ alPrecede(t, g, x, n).next = v.next
<1>1. PICK u : u = alPrecede(t, g, x, n)
  OBVIOUS
<1>2. u = [v EXCEPT !.parent[n] = g]
  BY <1>1 DEF alPrecede
<1>3. u.parent = [t.parent EXCEPT ![n] = g]
  BY <1>2 DEF TreeRecord
<1>4. u.first = v.first /\ u.last = v.last /\ u.count = v.count /\ u.next = v.next
  BY <1>2 DEF TreeRecord
<1>5. u \in TreeRecord
  BY <1>2 DEF TreeRecord
<1> QED BY <1>1, <1>3, <1>4, <1>5

(* Before no node: sllPrecede does not clear next, so it leaves the fields *)
(* sllAdd does if the new link points nowhere.                             *)
LEMMA PrecedeAtEnd ==
  ASSUME NEW t \in TreeRecord, NEW l \in List, NEW s, Holds(t, l, s), NEW n \in Link,
         \A i \in 1 .. Len(s) : s[i] # n, t.next[n] = NULL
  PROVE  /\ sllPrecede(t, l, NULL, n) \in TreeRecord
         /\ Added(t, l, n, sllPrecede(t, l, NULL, n))
         /\ sllPrecede(t, l, NULL, n).parent = t.parent
<1>1. s \in Seq(Link) /\ t.count[l] = Len(s) /\ Len(s) \in Nat
  BY DEF Holds, Along
<1>2. t.count[l] > 0 => t.last[l] \in Link /\ t.last[l] # n
  <2>1. SUFFICES ASSUME t.count[l] > 0 PROVE t.last[l] \in Link /\ t.last[l] # n
    OBVIOUS
  <2>2. t.last[l] = s[Len(s)] /\ Len(s) \in 1 .. Len(s)
    BY <1>1, <2>1 DEF Holds
  <2> QED BY <1>1, <2>2
<1>3. PICK v : v = sllPrecede(t, l, NULL, n)
  OBVIOUS
<1>4. /\ v.first = [t.first EXCEPT ![l] = IF t.count[l] = 0 THEN n ELSE @]
      /\ v.next = IF t.count[l] = 0 THEN t.next ELSE [t.next EXCEPT ![t.last[l]] = n]
      /\ v.last = [t.last EXCEPT ![l] = n]
      /\ v.count = [t.count EXCEPT ![l] = @ + 1]
      /\ v.parent = t.parent
      /\ v = [first |-> v.first, last |-> v.last, count |-> v.count, next |-> v.next,
              parent |-> v.parent]
  BY <1>3 DEF sllPrecede, TreeRecord
<1>5. t.next \in [Link -> Ptr] /\ n \in Ptr
  BY DEF TreeRecord, Ptr
<1>6. t.count[l] > 0 <=> t.count[l] # 0
  BY <1>1
<1>7. v.next = IF t.count[l] > 0 THEN [[t.next EXCEPT ![t.last[l]] = n] EXCEPT ![n] = NULL]
               ELSE [t.next EXCEPT ![n] = NULL]
  BY <1>2, <1>4, <1>5, <1>6
<1>8. Added(t, l, n, v)
  BY <1>4, <1>6, <1>7 DEF Added
<1>9. v.next \in [Link -> Ptr]
  BY <1>4, <1>5
<1>10. v.first \in [List -> Ptr] /\ v.last \in [List -> Ptr] /\ v.count \in [List -> Nat]
  BY <1>4, <1>5 DEF TreeRecord
<1>11. v \in TreeRecord
  <2>1. v.parent \in [Link -> GroupId \cup {NULL}]
    BY <1>4 DEF TreeRecord
  <2> QED BY <1>4, <1>9, <1>10, <2>1 DEF TreeRecord
<1> QED BY <1>3, <1>4, <1>8, <1>11

(* What alPrecede makes of the sequence on the list of the link.           *)
PrecedeItems(s, x, n, r) ==
  /\ x = NULL => r = Append(s, n)
  /\ \A i \in 1 .. Len(s) : s[i] = x => r = InsertedAt(s, i, n)
  /\ x # NULL /\ (\A i \in 1 .. Len(s) : s[i] # x) => r = s

(* alPrecedeGroup and alPrecedeChan put a link that has just been created  *)
(* in front of a link of the list, at the end if none is given, and nowhere*)
(* if that is not on the list; they leave every other list as it is.       *)
THEOREM PrecedeExact ==
  ASSUME NEW t, Linked(t), NEW g \in GroupId, NEW n \in Link, OnNone(t, n), t.next[n] = NULL,
         NEW x \in Link \cup {NULL}
  PROVE  /\ Linked(alPrecede(t, g, x, n))
         /\ \A l \in List :
              IF l = ListOf(g, n) THEN PrecedeItems(Items(t, l), x, n, Items(alPrecede(t, g, x, n), l))
              ELSE Items(alPrecede(t, g, x, n), l) = Items(t, l)
<1>1. PICK u : u = alPrecede(t, g, x, n)
  OBVIOUS
<1>2. PICK k \in List : k = ListOf(g, n) /\ k[1] = g /\ ListOf(k[1], n) = k
  BY ListOfLink
<1>3. t \in TreeRecord /\ \A l \in List : Holds(t, l, Items(t, l))
  BY DEF Linked
<1>4. \A l \in List : \A i \in 1 .. Len(Items(t, l)) : Items(t, l)[i] # n
  BY DEF OnNone
<1>5. PICK s : s = Items(t, k)
  OBVIOUS
<1>6. Holds(t, k, s) /\ \A i \in 1 .. Len(s) : s[i] # n
  BY <1>3, <1>4, <1>5
<1>7. \A i \in 1 .. Len(s) : s[i] # NULL /\ \A j \in 1 .. Len(s) : s[i] = s[j] => i = j
  <2>1. s \in Seq(Link)
    BY <1>6 DEF Holds, Along
  <2> QED BY <1>6, <2>1, TreeLinks DEF Holds, Along
<1> DEFINE c(r) == [l \in List |-> IF l = k THEN r ELSE Items(t, l)]
(* It is enough to know what is on the list of the link.                   *)
<1>8. ASSUME NEW r, u \in TreeRecord, Holds(u, k, r), PrecedeItems(s, x, n, r),
             \A l \in List : l # k => Holds(u, l, Items(t, l))
      PROVE  /\ Linked(u)
             /\ \A l \in List : IF l = k THEN PrecedeItems(Items(t, l), x, n, Items(u, l))
                                ELSE Items(u, l) = Items(t, l)
  <2>1. \A l \in List : Holds(u, l, c(r)[l])
    BY <1>8
  <2>2. c(r)[k] = r /\ \A l \in List : l # k => c(r)[l] = Items(t, l)
    OBVIOUS
  <2> HIDE DEF c
  <2>3. Linked(u) /\ \A l \in List : Items(u, l) = c(r)[l]
    BY <1>8, <2>1, LinkedBy
  <2>4. PrecedeItems(Items(t, k), x, n, Items(u, k))
    BY <1>5, <1>8, <2>2, <2>3
  <2> QED BY <2>2, <2>3, <2>4
<1>9. CASE x = NULL
  <2>1. PICK v : v = sllPrecede(t, k, x, n)
    OBVIOUS
  <2>2. v \in TreeRecord /\ Added(t, k, n, v) /\ v.parent = t.parent
    BY <1>3, <1>6, <1>9, <2>1, PrecedeAtEnd
  <2>3. u \in TreeRecord /\ u.parent = [t.parent EXCEPT ![n] = k[1]]
        /\ u.first = v.first /\ u.last = v.last /\ u.count = v.count /\ u.next = v.next
    BY <1>1, <1>2, <1>3, <2>1, <2>2, PrecedeParent
  <2>4. Added(t, k, n, u)
    BY <2>2, <2>3 DEF Added
  <2>5. Holds(u, k, Append(s, n))
    BY <1>2, <1>3, <1>6, <2>3, <2>4, AddedHolds
  <2>6. \A l \in List : l # k => Holds(u, l, Items(t, l))
    BY <1>3, <1>4, <1>6, <2>3, <2>4, AddedOthers
  <2>7. PrecedeItems(s, x, n, Append(s, n))
    BY <1>7, <1>9 DEF PrecedeItems
  <2> QED BY <1>1, <1>2, <1>8, <2>3, <2>5, <2>6, <2>7
<1>10. ASSUME NEW i \in 1 .. Len(s), s[i] = x
       PROVE  /\ Linked(u)
              /\ \A l \in List : IF l = k THEN PrecedeItems(Items(t, l), x, n, Items(u, l))
                                 ELSE Items(u, l) = Items(t, l)
  <2>1. PICK v : v = sllPrecede(t, k, x, n)
    OBVIOUS
  <2>2. v \in TreeRecord /\ Preceded(t, k, s, i, n, v) /\ v.parent = t.parent
    BY <1>3, <1>6, <1>10, <2>1, PrecedeFields
  <2>3. u \in TreeRecord /\ u.parent = [t.parent EXCEPT ![n] = k[1]]
        /\ u.first = v.first /\ u.last = v.last /\ u.count = v.count /\ u.next = v.next
    BY <1>1, <1>2, <1>3, <2>1, <2>2, PrecedeParent
  <2>4. Preceded(t, k, s, i, n, u)
    BY <2>2, <2>3 DEF Preceded
  <2>5. Holds(u, k, InsertedAt(s, i, n))
    BY <1>2, <1>3, <1>6, <2>3, <2>4, PrecededHolds
  <2>6. \A l \in List : l # k => Holds(u, l, Items(t, l))
    BY <1>3, <1>4, <1>6, <2>3, <2>4, PrecededOthers
  <2>7. PrecedeItems(s, x, n, InsertedAt(s, i, n))
    BY <1>7, <1>10 DEF PrecedeItems
  <2> QED BY <1>8, <2>3, <2>5, <2>6, <2>7
<1>11. CASE x # NULL /\ \A i \in 1 .. Len(s) : s[i] # x
  <2>1. PICK v : v = sllPrecede(t, k, x, n)
    OBVIOUS
  <2>2. v = t
    <3>1. ~OnList(t, k, x)
      BY <1>5, <1>11 DEF OnList
    <3> QED BY <1>11, <2>1, <3>1 DEF sllPrecede
  <2>3. u \in TreeRecord /\ u.parent = [t.parent EXCEPT ![n] = k[1]]
        /\ u.first = t.first /\ u.last = t.last /\ u.count = t.count /\ u.next = t.next
    <3>1. v = sllPrecede(t, ListOf(g, n), x, n) /\ v \in TreeRecord /\ v.parent = t.parent
      BY <1>2, <1>3, <2>1, <2>2
    <3>2. u \in TreeRecord /\ u.parent = [t.parent EXCEPT ![n] = g]
          /\ u.first = v.first /\ u.last = v.last /\ u.count = v.count /\ u.next = v.next
      BY <1>1, <1>3, <3>1, PrecedeParent
    <3> QED BY <1>2, <2>2, <3>2
  <2>4. ASSUME NEW l \in List PROVE Holds(u, l, Items(t, l))
    <3>1. Holds(t, l, Items(t, l)) /\ \A i \in 1 .. Len(Items(t, l)) : Items(t, l)[i] # n
      BY <1>3, <1>4
    <3>2. \A i \in 1 .. Len(Items(t, l)) : Items(t, l)[i] \in Link
      BY <3>1 DEF Holds, Along
    <3>3. \A i \in 1 .. Len(Items(t, l)) : u.parent[Items(t, l)[i]] = t.parent[Items(t, l)[i]]
      BY <1>3, <2>3, <3>1, <3>2 DEF TreeRecord
    <3> QED BY <2>3, <3>1, <3>3, HoldsStill
  <2>5. PrecedeItems(s, x, n, s)
    BY <1>11 DEF PrecedeItems
  <2>6. Holds(u, k, s)
    BY <1>5, <2>4
  <2> QED BY <1>1, <1>2, <1>8, <2>3, <2>4, <2>5, <2>6
<1> QED BY <1>1, <1>2, <1>9, <1>10, <1>11

----------------------------------------------------------------------------
(* Deleting, and any sequence of calls.                                    *)

(* What is deleted takes nothing from the lists that stay.                 *)
THEOREM FreeExact ==
  ASSUME NEW t, Linked(t), NEW used \in SUBSET Link,
         \A l \in List : l[1] \in used => \A i \in 1 .. Len(Items(t, l)) : Items(t, l)[i] \in used
  PROVE  /\ Linked(FreedTree(t, used))
         /\ \A l \in List : Items(FreedTree(t, used), l) =
                              IF l[1] \in used THEN Items(t, l) ELSE <<>>
<1>1. PICK u : u = FreedTree(t, used)
  OBVIOUS
<1>2. t \in TreeRecord /\ \A l \in List : Holds(t, l, Items(t, l))
  BY DEF Linked
<1>3. u \in TreeRecord
  <2>1. u.first \in [List -> Ptr] /\ u.last \in [List -> Ptr] /\ u.count \in [List -> Nat]
    BY <1>1, <1>2 DEF FreedTree, TreeRecord, Ptr
  <2>2. u.next \in [Link -> Ptr] /\ u.parent \in [Link -> GroupId \cup {NULL}]
    BY <1>1, <1>2 DEF FreedTree, TreeRecord, Ptr
  <2> QED BY <1>1, <2>1, <2>2 DEF FreedTree, TreeRecord
<1> DEFINE c == [l \in List |-> IF l[1] \in used THEN Items(t, l) ELSE <<>>]
<1>4. ASSUME NEW l \in List PROVE Holds(u, l, c[l])
  <2>1. CASE l[1] \in used
    <3>1. u.first[l] = t.first[l] /\ u.last[l] = t.last[l] /\ u.count[l] = t.count[l]
      BY <1>1, <2>1 DEF FreedTree
    <3>2. \A i \in 1 .. Len(Items(t, l)) : Items(t, l)[i] \in used
      BY <2>1
    <3>3. \A n \in used : u.next[n] = t.next[n] /\ u.parent[n] = t.parent[n]
      BY <1>1 DEF FreedTree
    <3>4. Holds(u, l, Items(t, l))
      BY <1>2, <3>1, <3>2, <3>3, HoldsStill
    <3> QED BY <2>1, <3>4
  <2>2. CASE l[1] \notin used
    <3>1. u.first[l] = NULL /\ u.count[l] = 0
      BY <1>1, <2>2 DEF FreedTree
    <3>2. <<>> \in Seq(Link) /\ Len(<<>>) = 0
      OBVIOUS
    <3>3. Holds(u, l, <<>>)
      BY <3>1, <3>2 DEF Holds, Along
    <3> QED BY <2>2, <3>3
  <2> QED BY <2>1, <2>2
<1>5. \A l \in List : c[l] = IF l[1] \in used THEN Items(t, l) ELSE <<>>
  OBVIOUS
<1> HIDE DEF c
<1>6. Linked(u) /\ \A l \in List : Items(u, l) = c[l]
  BY <1>3, <1>4, LinkedBy
<1> QED BY <1>1, <1>5, <1>6

(* Links that are just there are on empty lists.                           *)
LEMMA NoTreeEmpty == Linked(NoTree) /\ \A l \in List : Items(NoTree, l) = <<>>
<1>1. NoTree \in TreeRecord
  BY DEF NoTree, TreeRecord, Ptr
<1> DEFINE c == [l \in List |-> <<>>]
<1>2. ASSUME NEW l \in List PROVE Holds(NoTree, l, c[l])
  <2>1. NoTree.first[l] = NULL /\ NoTree.count[l] = 0
    BY DEF NoTree
  <2>2. <<>> \in Seq(Link) /\ Len(<<>>) = 0 /\ c[l] = <<>>
    OBVIOUS
  <2> QED BY <2>1, <2>2 DEF Holds, Along
<1>3. \A l \in List : c[l] = <<>>
  OBVIOUS
<1> HIDE DEF c
<1> QED BY <1>1, <1>2, <1>3, LinkedBy

(* So they make a sound tree.                                              *)
LEMMA NoTreeLinked == Linked(NoTree)
BY NoTreeEmpty

(* What is fresh is on no list.                                            *)
LEMMA FreshOnNone ==
  ASSUME NEW n \in Fresh
  PROVE  n \in Link /\ tree.next[n] = NULL /\ OnNone(tree, n)
BY DEF Fresh, NodesOf, OnNone

LEMMA ListsStep ==
  ASSUME Linked(tree), [ListsNext]_tree
  PROVE  Linked(tree')
<1>1. CASE AddFresh
  BY <1>1, AddExact, FreshOnNone DEF AddFresh
<1>2. CASE PrecedeFresh
  BY <1>2, PrecedeExact, FreshOnNone DEF PrecedeFresh
<1>3. CASE RemoveAny
  BY <1>3, RemoveExact DEF RemoveAny
<1>4. CASE DeleteUnused
  <2>1. PICK used \in SUBSET Link :
          /\ \A l \in List : l[1] \in used => NodesOf(l) \subseteq used
          /\ tree' = FreedTree(tree, used)
    BY <1>4 DEF DeleteUnused
  <2>2. \A l \in List : l[1] \in used => \A i \in 1 .. Len(Items(tree, l)) : Items(tree, l)[i] \in used
    BY <2>1 DEF NodesOf
  <2> QED BY <2>1, <2>2, FreeExact
<1>5. CASE UNCHANGED tree
  BY <1>5
<1> QED BY <1>1, <1>2, <1>3, <1>4, <1>5 DEF ListsNext

LEMMA LinkedExact == Linked(tree) => ListsExact
<1>1. SUFFICES ASSUME Linked(tree), NEW l \in List PROVE ListExact(l)
  BY DEF ListsExact
<1>2. Holds(tree, l, Items(tree, l))
  BY <1>1 DEF Linked
<1>3. PICK s : s = Items(tree, l)
  OBVIOUS
<1>4. s \in Seq(Link) /\ tree.count[l] = Len(s) /\ (Len(s) > 0 => tree.last[l] = s[Len(s)])
      /\ \A i \in 1 .. Len(s) : tree.parent[s[i]] = l[1]
  BY <1>2, <1>3 DEF Holds, Along
<1> QED BY <1>3, <1>4 DEF ListExact, NodesOf

(* Whatever is added, inserted, removed and deleted in whatever order, the *)
(* count and the last node of every list are those of the nodes found on   *)
(* it, and their parent is its group (sllLib.c, alLib.c).                  *)
THEOREM CallsKeepLists == ListsSpec => []ListsExact
<1>1. ListsInit => Linked(tree)
  BY NoTreeLinked DEF ListsInit
<1>2. Linked(tree) /\ [ListsNext]_tree => Linked(tree)'
  BY ListsStep
<1> QED BY <1>1, <1>2, LinkedExact, PTL DEF ListsSpec

----------------------------------------------------------------------------
(* The lists implement SiblingOrder.                                       *)

(* Inserting, by what is before and behind.                                *)
LEMMA InsertedSeq ==
  ASSUME NEW s \in Seq(Link), NEW i \in 1 .. Len(s), NEW n \in Link
  PROVE  InsertedAt(s, i, n) = SubSeq(s, 1, i - 1) \o <<n>> \o SubSeq(s, i, Len(s))
<1>1. PICK a : a = SubSeq(s, 1, i - 1)
  OBVIOUS
<1>2. PICK b : b = SubSeq(s, i, Len(s))
  OBVIOUS
<1>3. a \in Seq(Link) /\ Len(a) = i - 1 /\ \A j \in 1 .. i - 1 : a[j] = s[j]
  BY <1>1
<1>4. b \in Seq(Link) /\ Len(b) = Len(s) - i + 1 /\ \A j \in 1 .. Len(s) - i + 1 : b[j] = s[i + j - 1]
  BY <1>2
<1>5. PICK c : c = a \o <<n>>
  OBVIOUS
<1>6. c \in Seq(Link) /\ Len(c) = i /\ c[i] = n /\ \A j \in 1 .. i - 1 : c[j] = s[j]
  <2>1. <<n>> \in Seq(Link) /\ Len(<<n>>) = 1 /\ <<n>>[1] = n
    OBVIOUS
  <2>2. /\ a \o <<n>> \in Seq(Link) /\ Len(a \o <<n>>) = Len(a) + Len(<<n>>)
        /\ \A j \in 1 .. Len(a) + Len(<<n>>) :
             (a \o <<n>>)[j] = IF j <= Len(a) THEN a[j] ELSE <<n>>[j - Len(a)]
    BY <1>3, <2>1, ConcatProperties
  <2>3. PICK e : e = <<n>>
    OBVIOUS
  <2>4. e \in Seq(Link) /\ Len(e) = 1 /\ e[1] = n
    BY <2>1, <2>3
  <2>5. c \in Seq(Link) /\ Len(c) = i /\ \A j \in 1 .. i : c[j] = IF j <= i - 1 THEN a[j] ELSE e[j - (i - 1)]
    BY <1>3, <1>5, <2>2, <2>3, <2>4
  <2>6. i \in 1 .. i /\ ~ (i <= i - 1) /\ i - (i - 1) = 1
    OBVIOUS
  <2>7. \A j \in 1 .. i - 1 : j \in 1 .. i /\ j <= i - 1
    OBVIOUS
  <2> QED BY <1>3, <2>4, <2>5, <2>6, <2>7
<1>7. PICK d : d = c \o b
  OBVIOUS
<1>8. d \in Seq(Link) /\ Len(d) = Len(s) + 1
      /\ \A j \in 1 .. Len(s) + 1 : d[j] = IF j <= i THEN c[j] ELSE b[j - i]
  <2>1. /\ c \o b \in Seq(Link) /\ Len(c \o b) = Len(c) + Len(b)
        /\ \A j \in 1 .. Len(c) + Len(b) :
             (c \o b)[j] = IF j <= Len(c) THEN c[j] ELSE b[j - Len(c)]
    BY <1>4, <1>6, ConcatProperties
  <2>2. Len(c) = i /\ Len(c) + Len(b) = Len(s) + 1
    BY <1>4, <1>6
  <2> QED BY <1>7, <2>1, <2>2
<1>9. \A j \in 1 .. Len(s) + 1 : d[j] = IF j < i THEN s[j] ELSE IF j = i THEN n ELSE s[j - 1]
  <2>1. SUFFICES ASSUME NEW j \in 1 .. Len(s) + 1
                 PROVE  d[j] = IF j < i THEN s[j] ELSE IF j = i THEN n ELSE s[j - 1]
    OBVIOUS
  <2>2. CASE j < i
    BY <1>6, <1>8, <2>2
  <2>3. CASE j = i
    BY <1>6, <1>8, <2>3
  <2>4. CASE j > i
    <3>1. j - i \in 1 .. Len(s) - i + 1 /\ i + (j - i) - 1 = j - 1
      BY <2>4
    <3>2. b[j - i] = s[j - 1]
      BY <1>4, <3>1
    <3> QED BY <1>8, <2>4, <3>2
  <2> QED BY <2>2, <2>3, <2>4
<1>10. d = [j \in 1 .. Len(s) + 1 |-> d[j]]
  BY <1>8
<1> QED BY <1>1, <1>2, <1>5, <1>7, <1>9, <1>10 DEF InsertedAt

(* Removing, by what is before and behind.                                 *)
LEMMA RemovedSeq ==
  ASSUME NEW s \in Seq(Link), NEW i \in 1 .. Len(s)
  PROVE  RemovedAt(s, i) = SubSeq(s, 1, i - 1) \o SubSeq(s, i + 1, Len(s))
<1>1. PICK a : a = SubSeq(s, 1, i - 1)
  OBVIOUS
<1>2. PICK b : b = SubSeq(s, i + 1, Len(s))
  OBVIOUS
<1>3. a \in Seq(Link) /\ Len(a) = i - 1 /\ \A j \in 1 .. i - 1 : a[j] = s[j]
  BY <1>1
<1>4. b \in Seq(Link) /\ Len(b) = Len(s) - i /\ \A j \in 1 .. Len(s) - i : b[j] = s[i + j]
  BY <1>2
<1>5. PICK d : d = a \o b
  OBVIOUS
<1>6. d \in Seq(Link) /\ Len(d) = Len(s) - 1
      /\ \A j \in 1 .. Len(s) - 1 : d[j] = IF j <= i - 1 THEN a[j] ELSE b[j - (i - 1)]
  <2>1. /\ a \o b \in Seq(Link) /\ Len(a \o b) = Len(a) + Len(b)
        /\ \A j \in 1 .. Len(a) + Len(b) :
             (a \o b)[j] = IF j <= Len(a) THEN a[j] ELSE b[j - Len(a)]
    BY <1>3, <1>4, ConcatProperties
  <2>2. Len(a) = i - 1 /\ Len(a) + Len(b) = Len(s) - 1
    BY <1>3, <1>4
  <2> QED BY <1>5, <2>1, <2>2
<1>7. \A j \in 1 .. Len(s) - 1 : d[j] = IF j < i THEN s[j] ELSE s[j + 1]
  <2>1. SUFFICES ASSUME NEW j \in 1 .. Len(s) - 1 PROVE d[j] = IF j < i THEN s[j] ELSE s[j + 1]
    OBVIOUS
  <2>2. CASE j < i
    BY <1>3, <1>6, <2>2
  <2>3. CASE j >= i
    <3>1. j - (i - 1) \in 1 .. Len(s) - i /\ i + (j - (i - 1)) = j + 1
      BY <2>3
    <3>2. b[j - (i - 1)] = s[j + 1]
      BY <1>4, <3>1
    <3> QED BY <1>6, <2>3, <3>2
  <2> QED BY <2>2, <2>3
<1>8. d = [j \in 1 .. Len(s) - 1 |-> d[j]]
  BY <1>6
<1> QED BY <1>1, <1>2, <1>5, <1>7, <1>8 DEF RemovedAt

(* The names of SiblingOrder for the lists.                                *)
LEMMA OrderNames ==
  /\ Order!Lists = List
  /\ \A g, n : Order!ListFor(g, n) = ListOf(g, n)
  /\ \A l \in List : Siblings[l] = Items(tree, l) /\ Siblings'[l] = Items(tree', l)
  /\ Siblings = [l \in List |-> Siblings[l]] /\ Siblings' = [l \in List |-> Siblings'[l]]
BY DEF Order!Lists, Order!ListFor, List, ListOf, SUB, CHAN, Siblings

(* A link on no list is new there.                                         *)
LEMMA NewThere ==
  ASSUME NEW n, OnNone(tree, n)
  PROVE  Order!New(n)
BY OrderNames DEF OnNone, Order!New, Order!On

(* The items of a list of a sound tree.                                    *)
LEMMA ItemsType ==
  ASSUME Linked(tree), NEW l \in List
  PROVE  Items(tree, l) \in Seq(Link)
BY DEF Linked, Holds, Along

(* Changing one list of the order.                                         *)
LEMMA OneChanges ==
  ASSUME NEW k \in List, NEW r, Items(tree', k) = r,
         \A l \in List : l # k => Items(tree', l) = Items(tree, l)
  PROVE  Siblings' = [Siblings EXCEPT ![k] = r]
<1>1. [Siblings EXCEPT ![k] = r] = [l \in List |-> IF l = k THEN r ELSE Items(tree, l)]
  BY DEF Siblings
<1>2. Siblings' = [l \in List |-> Items(tree', l)]
  BY DEF Siblings
<1> QED BY <1>1, <1>2

LEMMA AddOrdered ==
  ASSUME Linked(tree), AddFresh
  PROVE  Order!Add
<1>1. PICK g \in GroupId, n \in Fresh : tree' = alAdd(tree, g, n)
  BY DEF AddFresh
<1>2. n \in Link /\ OnNone(tree, n)
  BY FreshOnNone
<1>3. ListOf(g, n) \in List
  BY <1>2, ListOfLink
<1>4. \A l \in List : Items(tree', l) =
        IF l = ListOf(g, n) THEN Append(Items(tree, l), n) ELSE Items(tree, l)
  BY <1>1, <1>2, AddExact
<1>5. Siblings' = [Siblings EXCEPT ![ListOf(g, n)] = Append(Items(tree, ListOf(g, n)), n)]
  BY <1>3, <1>4, OneChanges
<1>6. Siblings' = [Siblings EXCEPT ![Order!ListFor(g, n)] = Append(@, n)]
  BY <1>3, <1>5, OrderNames
<1> QED BY <1>2, <1>6, NewThere DEF Order!Add, Link

(* In front of a link of the list, at its end, or nowhere.                 *)
LEMMA PrecedeOrdered ==
  ASSUME Linked(tree), PrecedeFresh
  PROVE  Order!Add \/ Order!Insert \/ UNCHANGED Siblings
<1>1. PICK g \in GroupId, x \in Link \cup {NULL}, n \in Fresh : tree' = alPrecede(tree, g, x, n)
  BY DEF PrecedeFresh
<1>2. n \in Link /\ OnNone(tree, n) /\ tree.next[n] = NULL
  BY FreshOnNone
<1>3. PICK k \in List : k = ListOf(g, n) /\ k = Order!ListFor(g, n)
  BY <1>2, ListOfLink, OrderNames
<1>4. PICK s : s = Items(tree, k)
  OBVIOUS
<1>5. s \in Seq(Link) /\ Siblings[k] = s
  BY <1>4, ItemsType, OrderNames
<1>6. \A l \in List :
        IF l = k THEN PrecedeItems(Items(tree, l), x, n, Items(tree', l))
        ELSE Items(tree', l) = Items(tree, l)
  BY <1>1, <1>2, <1>3, PrecedeExact
<1>7. PrecedeItems(s, x, n, Items(tree', k))
  BY <1>4, <1>6
<1>8. CASE x = NULL
  <2>1. Items(tree', k) = Append(s, n)
    BY <1>7, <1>8 DEF PrecedeItems
  <2>2. Siblings' = [Siblings EXCEPT ![k] = Append(s, n)]
    BY <1>6, <2>1, OneChanges
  <2>3. Siblings' = [Siblings EXCEPT ![Order!ListFor(g, n)] = Append(@, n)]
    BY <1>3, <1>5, <2>2
  <2> QED BY <1>2, <2>3, NewThere DEF Order!Add, Link
<1>9. CASE \E i \in 1 .. Len(s) : s[i] = x
  <2>1. PICK i \in 1 .. Len(s) : s[i] = x
    BY <1>9
  <2>2. Items(tree', k) = InsertedAt(s, i, n)
    BY <1>7, <2>1 DEF PrecedeItems
  <2>3. Items(tree', k) = SubSeq(s, 1, i - 1) \o <<n>> \o SubSeq(s, i, Len(s))
    BY <1>2, <1>5, <2>2, InsertedSeq
  <2>4. Siblings' = [Siblings EXCEPT ![k] = SubSeq(s, 1, i - 1) \o <<n>> \o SubSeq(s, i, Len(s))]
    BY <1>6, <2>3, OneChanges
  <2>5. i \in 1 .. Len(Siblings[Order!ListFor(g, n)])
        /\ Siblings' = [Siblings EXCEPT ![Order!ListFor(g, n)] =
                          SubSeq(@, 1, i - 1) \o <<n>> \o SubSeq(@, i, Len(@))]
    BY <1>3, <1>5, <2>4
  <2> QED BY <1>2, <2>5, NewThere DEF Order!Insert, Link
<1>10. CASE x # NULL /\ \A i \in 1 .. Len(s) : s[i] # x
  <2>1. Items(tree', k) = s
    BY <1>7, <1>10 DEF PrecedeItems
  <2>2. \A l \in List : Siblings'[l] = Siblings[l]
    BY <1>4, <1>6, <2>1, OrderNames
  <2> QED BY <2>2, OrderNames
<1> QED BY <1>8, <1>9, <1>10

LEMMA RemoveOrdered ==
  ASSUME Linked(tree), RemoveAny
  PROVE  Order!Remove \/ UNCHANGED Siblings
<1>1. PICK n \in Link : tree' = alRemove(tree, n)
  BY DEF RemoveAny
<1>2. CASE OnNone(tree, n)
  <2>1. \A l \in List : Items(tree', l) = Items(tree, l)
    BY <1>1, <1>2, RemoveExact DEF OnNone
  <2>2. \A l \in List : Siblings'[l] = Siblings[l]
    BY <2>1, OrderNames
  <2> QED BY <2>2, OrderNames
<1>3. CASE ~OnNone(tree, n)
  <2>1. PICK k \in List : \E i \in 1 .. Len(Items(tree, k)) : Items(tree, k)[i] = n
    BY <1>3 DEF OnNone
  <2>2. PICK i \in 1 .. Len(Items(tree, k)) : Items(tree, k)[i] = n
    BY <2>1
  <2>3. PICK s : s = Items(tree, k)
    OBVIOUS
  <2>4. s \in Seq(Link) /\ Siblings[k] = s
    BY <2>3, ItemsType, OrderNames
  <2>5. Items(tree', k) = RemovedAt(s, i)
    BY <1>1, <2>2, <2>3, RemoveExact
  <2>6. Items(tree', k) = SubSeq(s, 1, i - 1) \o SubSeq(s, i + 1, Len(s))
    BY <2>2, <2>3, <2>4, <2>5, RemovedSeq
  <2>7. ASSUME NEW l \in List, l # k PROVE Items(tree', l) = Items(tree, l)
    <3>1. ASSUME NEW j \in 1 .. Len(Items(tree, l)), Items(tree, l)[j] = n PROVE FALSE
      <4>1. Holds(tree, l, Items(tree, l)) /\ Holds(tree, k, Items(tree, k))
        BY DEF Linked
      <4> QED BY <2>2, <2>7, <3>1, <4>1, OneList
    <3> QED BY <1>1, <3>1, RemoveExact
  <2>8. Siblings' = [Siblings EXCEPT ![k] = SubSeq(s, 1, i - 1) \o SubSeq(s, i + 1, Len(s))]
    BY <2>6, <2>7, OneChanges
  <2>9. i \in 1 .. Len(Siblings[k])
        /\ Siblings' = [Siblings EXCEPT ![k] = SubSeq(@, 1, i - 1) \o SubSeq(@, i + 1, Len(@))]
    BY <2>2, <2>3, <2>4, <2>8
  <2> QED BY <2>9, OrderNames DEF Order!Remove
<1> QED BY <1>2, <1>3

LEMMA DeleteOrdered ==
  ASSUME Linked(tree), DeleteUnused
  PROVE  Order!Delete
<1>1. PICK used \in SUBSET Link :
        /\ \A l \in List : l[1] \in used => NodesOf(l) \subseteq used
        /\ tree' = FreedTree(tree, used)
  BY DEF DeleteUnused
<1>2. \A l \in List : l[1] \in used => \A i \in 1 .. Len(Items(tree, l)) : Items(tree, l)[i] \in used
  BY <1>1 DEF NodesOf
<1>3. \A l \in List : Items(tree', l) = IF l[1] \in used THEN Items(tree, l) ELSE <<>>
  BY <1>1, <1>2, FreeExact
<1>4. PICK kept \in SUBSET GroupId : kept = used \cap GroupId
  OBVIOUS
<1>5. \A l \in List : l[1] \in GroupId
  BY DEF List
<1>6. Siblings' = [l \in List |-> IF l[1] \in kept THEN Siblings[l] ELSE <<>>]
  <2>1. \A l \in List : Siblings'[l] = IF l[1] \in kept THEN Siblings[l] ELSE <<>>
    BY <1>3, <1>4, <1>5, OrderNames
  <2> QED BY <2>1, OrderNames
<1>7. \A l \in List, g \in GroupId : l[1] \in kept /\ Order!On(g, l) => g \in kept
  BY <1>2, <1>4, OrderNames DEF Order!On
<1> QED BY <1>6, <1>7, OrderNames DEF Order!Delete

(* Each call makes of the order of the groups and channels what its name   *)
(* says, or leaves it: the pointers of sllLib.c and alLib.c implement      *)
(* SiblingOrder.                                                           *)
THEOREM ListsKeepOrder == ListsSpec => Order!Spec
<1>1. ListsInit => Linked(tree)
  BY NoTreeLinked DEF ListsInit
<1>2. ListsInit => Order!Init
  <2>1. SUFFICES ASSUME ListsInit PROVE Order!Init
    OBVIOUS
  <2>2. tree = NoTree
    BY <2>1 DEF ListsInit
  <2>3. \A l \in List : Items(tree, l) = <<>>
    BY <2>2, NoTreeEmpty
  <2>4. Siblings = [l \in List |-> <<>>]
    BY <2>3 DEF Siblings
  <2> QED BY <2>4, OrderNames DEF Order!Init
<1>3. Linked(tree) /\ [ListsNext]_tree => Linked(tree)'
  BY ListsStep
<1>4. Linked(tree) /\ [ListsNext]_tree => [Order!Next]_Siblings
  <2>1. SUFFICES ASSUME Linked(tree), [ListsNext]_tree
                 PROVE  Order!Add \/ Order!Insert \/ Order!Remove \/ Order!Delete \/ UNCHANGED Siblings
    BY DEF Order!Next
  <2>2. CASE UNCHANGED tree
    BY <2>2 DEF Siblings
  <2> QED BY <2>1, <2>2, AddOrdered, PrecedeOrdered, RemoveOrdered, DeleteOrdered DEF ListsNext
<1> QED BY <1>1, <1>2, <1>3, <1>4, PTL DEF ListsSpec, Order!Spec

=============================================================================
