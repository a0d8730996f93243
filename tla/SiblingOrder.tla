---------------------------- MODULE SiblingOrder -----------------------------
(***************************************************************************)
(* What the lists of the alarm tree promise, without pointers: the groups  *)
(* and the channels of a group have an order, a new one is put at the end  *)
(* or in front of another one, one is taken out, and the others stay where *)
(* they are.  TreeLists implements it.                                     *)
(***************************************************************************)
EXTENDS Integers, Sequences

CONSTANTS GroupId, ChanId

VARIABLE siblings   \* of each group, its groups and its channels in their order

Lists == GroupId \X {"subGroupList", "chanList"}
ListFor(g, n) == <<g, IF n \in GroupId THEN "subGroupList" ELSE "chanList">>

On(n, l) == \E i \in 1 .. Len(siblings[l]) : siblings[l][i] = n
New(n) == \A l \in Lists : ~On(n, l)

Init == siblings = [l \in Lists |-> <<>>]

Add ==
  \E g \in GroupId, n \in GroupId \cup ChanId :
    New(n) /\ siblings' = [siblings EXCEPT ![ListFor(g, n)] = Append(@, n)]

Insert ==
  \E g \in GroupId, n \in GroupId \cup ChanId :
    /\ New(n)
    /\ \E i \in 1 .. Len(siblings[ListFor(g, n)]) :
         siblings' = [siblings EXCEPT ![ListFor(g, n)] =
                        SubSeq(@, 1, i - 1) \o <<n>> \o SubSeq(@, i, Len(@))]

Remove ==
  \E l \in Lists : \E i \in 1 .. Len(siblings[l]) :
    siblings' = [siblings EXCEPT ![l] = SubSeq(@, 1, i - 1) \o SubSeq(@, i + 1, Len(@))]

\* groups go with all their lists, and never from a list of a group that stays
Delete ==
  \E kept \in SUBSET GroupId :
    /\ \A l \in Lists, g \in GroupId : l[1] \in kept /\ On(g, l) => g \in kept
    /\ siblings' = [l \in Lists |-> IF l[1] \in kept THEN siblings[l] ELSE <<>>]

Next == Add \/ Insert \/ Remove \/ Delete

Spec == Init /\ [][Next]_siblings

=============================================================================
