------------------------------ MODULE TreeOps -------------------------------
(***************************************************************************)
(* The alarm tree as the program links it: single linked lists (sllLib.c), *)
(* and the links of groups and channels that alLib.c puts on them.  A tree *)
(* t is a record of pointers: for the two lists of a group g, <<g, SUB>>   *)
(* and <<g, CHAN>>, their fields first, last and count, and for a node its *)
(* next and its parent.                                                    *)
(***************************************************************************)
EXTENDS Integers, Sequences, FiniteSets

CONSTANTS
  GroupId, ChanId,   \* what links can be allocated: groups and channels
  NULL,              \* no link
  Top                \* the link of the main group

Link == GroupId \cup ChanId
SUB == "subGroupList"
CHAN == "chanList"
List == GroupId \X {SUB, CHAN}

ASSUME TreeLinks ==
  /\ GroupId \cap ChanId = {} /\ NULL \notin Link /\ Top \in GroupId
  /\ IsFiniteSet(GroupId) /\ IsFiniteSet(ChanId)

\* links that are on no list
NoTree ==
  [first |-> [l \in List |-> NULL], last |-> [l \in List |-> NULL],
   count |-> [l \in List |-> 0],
   next |-> [n \in Link |-> NULL], parent |-> [n \in Link |-> NULL]]

----------------------------------------------------------------------------
(* sllLib.c                                                                *)

sllAdd(t, l, new) ==
  [t EXCEPT !.next = IF t.count[l] > 0 THEN [@ EXCEPT ![t.last[l]] = new, ![new] = NULL]
                     ELSE [@ EXCEPT ![new] = NULL],
            !.first[l] = IF t.count[l] > 0 THEN @ ELSE new,
            !.last[l] = new,
            !.count[l] = @ + 1]

\* n and what follows it by the pointers p, until there is none: the nodes of at most k steps
Walk(p, n) ==
  LET steps[k \in 0 .. Cardinality(Link)] ==
        [m \in Link \cup {NULL} |->
           IF k = 0 \/ m = NULL THEN <<>> ELSE <<m>> \o steps[k - 1][p[m]]]
  IN steps[Cardinality(Link)][n]

Items(t, l) == Walk(t.next, t.first[l])
After(t, n) == Walk(t.next, t.next[n])

\* the node before n on the list, or NULL
Prev(t, l, n) ==
  IF \E i \in 1 .. Len(Items(t, l)) - 1 : Items(t, l)[i + 1] = n
  THEN CHOOSE p \in Link : \E i \in 1 .. Len(Items(t, l)) - 1 :
                             Items(t, l)[i] = p /\ Items(t, l)[i + 1] = n
  ELSE NULL

OnList(t, l, n) == \E i \in 1 .. Len(Items(t, l)) : Items(t, l)[i] = n

\* insert new before next, at the end if next is NULL; not at all if next is not there
sllPrecede(t, l, next, new) ==
  IF next = NULL
  THEN [t EXCEPT !.next = IF t.count[l] = 0 THEN @ ELSE [@ EXCEPT ![t.last[l]] = new],
                 !.first[l] = IF t.count[l] = 0 THEN new ELSE @,
                 !.last[l] = new,
                 !.count[l] = @ + 1]
  ELSE IF ~OnList(t, l, next) THEN t
  ELSE LET prev == Prev(t, l, next) IN
       [t EXCEPT !.next = IF prev = NULL THEN [@ EXCEPT ![new] = next]
                          ELSE [@ EXCEPT ![new] = next, ![prev] = new],
                 !.first[l] = IF prev = NULL THEN new ELSE @,
                 !.count[l] = @ + 1]

\* mutant: the last node of the list is not moved back
sllRemove_KeepLast(t, l, node) ==
  IF ~OnList(t, l, node) THEN t
  ELSE LET prev == Prev(t, l, node) IN
       [t EXCEPT !.first[l] = IF prev = NULL THEN t.next[node] ELSE @,
                 !.next = IF prev = NULL THEN @ ELSE [@ EXCEPT ![prev] = t.next[node]],
                 !.count[l] = @ - 1]

\* the node keeps its next; the last node of an emptied list is the removed one
sllRemove(t, l, node) ==
  IF ~OnList(t, l, node) THEN t
  ELSE LET prev == Prev(t, l, node) IN
       [t EXCEPT !.first[l] = IF prev = NULL THEN t.next[node] ELSE @,
                 !.next = IF prev = NULL THEN @ ELSE [@ EXCEPT ![prev] = t.next[node]],
                 !.last[l] = IF node # t.last[l] THEN @ ELSE IF prev = NULL THEN node ELSE prev,
                 !.count[l] = @ - 1]

----------------------------------------------------------------------------
(* alLib.c                                                                 *)

ListOf(parent, n) == <<parent, IF n \in GroupId THEN SUB ELSE CHAN>>

\* alAddGroup, alAddChan
alAdd(t, parent, n) == [sllAdd(t, ListOf(parent, n), n) EXCEPT !.parent[n] = parent]

\* alPrecedeGroup, alPrecedeChan
alPrecede(t, parent, sibling, n) ==
  [sllPrecede(t, ListOf(parent, n), sibling, n) EXCEPT !.parent[n] = parent]

\* alRemoveGroup, alRemoveChan: the link keeps its parent
alRemove(t, n) ==
  IF t.parent[n] = NULL THEN t ELSE sllRemove(t, ListOf(t.parent[n], n), n)

\* alDeleteGroup, alDeleteChan: links that are not used any more are as calloc gives them
FreedTree(t, used) ==
  [first |-> [l \in List |-> IF l[1] \in used THEN t.first[l] ELSE NULL],
   last |-> [l \in List |-> IF l[1] \in used THEN t.last[l] ELSE NULL],
   count |-> [l \in List |-> IF l[1] \in used THEN t.count[l] ELSE 0],
   next |-> [n \in Link |-> IF n \in used THEN t.next[n] ELSE NULL],
   parent |-> [n \in Link |-> IF n \in used THEN t.parent[n] ELSE NULL]]

SubGroups(t, g) == Items(t, <<g, SUB>>)
Chans(t, g) == Items(t, <<g, CHAN>>)

Above(t, n) ==
  LET up == Walk(t.parent, t.parent[n]) IN {up[i] : i \in 1 .. Len(up)}

=============================================================================
