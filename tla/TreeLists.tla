----------------------------- MODULE TreeLists ------------------------------
(***************************************************************************)
(* The lists of the alarm tree, whoever changes them: a program reads a    *)
(* configuration, copies, pastes, inserts and cuts links by calls of       *)
(* alLib.c on links that it has just created, and deletes what it has      *)
(* removed.                                                                *)
(***************************************************************************)
EXTENDS TreeOps

VARIABLE tree   \* the links, as TreeOps has them

NodesOf(l) == {Items(tree, l)[i] : i \in 1 .. Len(Items(tree, l))}

\* a link that is created is on no list and points to no other
Fresh == {n \in Link : tree.next[n] = NULL /\ \A l \in List : n \notin NodesOf(l)}

AddFresh == \E parent \in GroupId, n \in Fresh : tree' = alAdd(tree, parent, n)
PrecedeFresh ==
  \E parent \in GroupId, sibling \in Link \cup {NULL}, n \in Fresh :
    tree' = alPrecede(tree, parent, sibling, n)
RemoveAny == \E n \in Link : tree' = alRemove(tree, n)

\* what is below a link that stays in use stays in use
DeleteUnused ==
  \E used \in SUBSET Link :
    /\ \A l \in List : l[1] \in used => NodesOf(l) \subseteq used
    /\ tree' = FreedTree(tree, used)

ListsInit == tree = NoTree
ListsNext == AddFresh \/ PrecedeFresh \/ RemoveAny \/ DeleteUnused
ListsSpec == ListsInit /\ [][ListsNext]_tree

\* what the pointers make of it: the order of the groups and channels of each group
Siblings == [l \in List |-> Items(tree, l)]
Order == INSTANCE SiblingOrder WITH siblings <- Siblings

----------------------------------------------------------------------------
(* Properties.                                                             *)

\* The count and the last node of a list are those of the nodes one finds on it, and a node on a
\* list of a group has the group as its parent: in the tree and in the clipboard, whatever has
\* been cut, copied and pasted (sllLib.c, editCutLink, editPasteLink).
ListExact(l) ==
  /\ tree.count[l] = Len(Items(tree, l))
  /\ tree.count[l] > 0 => tree.last[l] = Items(tree, l)[tree.count[l]]
  /\ \A n \in NodesOf(l) : tree.parent[n] = l[1]
ListsExact == \A l \in List : ListExact(l)

=============================================================================
