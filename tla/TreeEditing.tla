---------------------------- MODULE TreeEditing -----------------------------
(***************************************************************************)
(* What the configuration tool promises of an edit, told of the alarm tree *)
(* as a value: a group or channel is [d, chans, subs], its properties and  *)
(* the sequences of what is in it.  The clipboard holds a value of its own:*)
(* no later edit of the tree changes it, and no paste changes the tree     *)
(* elsewhere.  The promise that a copy changes nothing has an exception:   *)
(* what Left says a copy leaves of the properties it is made from.         *)
(***************************************************************************)
EXTENDS Integers, Sequences

CONSTANTS
  Documents,       \* the trees a file or an empty window gives
  NewNodes,        \* what Insert Group and Insert Channel put in, <<list, value>>
  Copied(_),       \* the properties a copy has of what it is made from
  Left(_),         \* the properties that are left where a copy was made
  SheetsOf(_, _)   \* the properties the property window can give a node, of a list

VARIABLES doc, clip   \* the tree, and the clipboard: <<>> or << <<list, value>> >>

editingVars == <<doc, clip>>

ListName == {"chans", "subs"}

\* a node is reached by the steps <<list, index>> from the main group
RECURSIVE Paths(_)
Paths(v) ==
  {<<>>} \cup UNION {{<<<<l, i>>>> \o p : p \in Paths(v[l][i])} :
                     <<l, i>> \in {x \in ListName \X (1 .. Len(v.chans \o v.subs)) :
                                     x[2] <= Len(v[x[1]])}}
RECURSIVE At(_, _)
At(v, p) == IF p = <<>> THEN v ELSE At(v[p[1][1]][p[1][2]], Tail(p))

\* v with w in the place of what p leads to
RECURSIVE Replaced(_, _, _)
Replaced(v, p, w) ==
  IF p = <<>> THEN w
  ELSE [v EXCEPT ![p[1][1]][p[1][2]] = Replaced(@, Tail(p), w)]

Front1(s) == SubSeq(s, 1, Len(s) - 1)
ListAt(p) == IF p = <<>> THEN "subs" ELSE p[Len(p)][1]

RemovedAt(s, i) == SubSeq(s, 1, i - 1) \o SubSeq(s, i + 1, Len(s))
InsertedAt(s, i, x) == SubSeq(s, 1, i - 1) \o <<x>> \o SubSeq(s, i, Len(s))

Removed(v, p) ==
  LET parent == At(v, Front1(p)) l == p[Len(p)][1] i == p[Len(p)][2]
  IN Replaced(v, Front1(p), [parent EXCEPT ![l] = RemovedAt(@, i)])
Inserted(v, p, l, i, x) ==
  Replaced(v, p, [At(v, p) EXCEPT ![l] = InsertedAt(@, i, x)])

\* v with F of its properties and of those of all that is in it
RECURSIVE Everywhere(_, _)
Everywhere(F(_), v) ==
  [d |-> F(v.d),
   chans |-> [i \in 1 .. Len(v.chans) |-> Everywhere(F, v.chans[i])],
   subs |-> [i \in 1 .. Len(v.subs) |-> Everywhere(F, v.subs[i])]]
CopyOf(v) == Everywhere(Copied, v)
CopiedAt(p) == <<<<ListAt(p), CopyOf(At(doc, p))>>>>

----------------------------------------------------------------------------
Cut == \E p \in Paths(doc) \ {<<>>} : doc' = Removed(doc, p) /\ clip' = CopiedAt(p)
Copy ==
  \E p \in Paths(doc) :
    clip' = CopiedAt(p) /\ doc' = Replaced(doc, p, Everywhere(Left, At(doc, p)))

\* Paste and Insert put a copy of the clipboard, or a new node, somewhere into a group
Put ==
  /\ \E x \in NewNodes \cup {clip[i] : i \in DOMAIN clip} :
       \E p \in {q \in Paths(doc) : ListAt(q) = "subs"} :
         \E i \in 1 .. Len(At(doc, p)[x[1]]) + 1 : doc' = Inserted(doc, p, x[1], i, x[2])
  /\ clip' = clip

Apply ==
  /\ \E p \in Paths(doc) : \E d \in SheetsOf(At(doc, p).d, ListAt(p)) :
       doc' = Replaced(doc, p, [At(doc, p) EXCEPT !.d = d])
  /\ clip' = clip

\* Clear and Open
Load == doc' \in Documents /\ clip' = clip

EditingInit == doc \in Documents /\ clip = <<>>
EditingNext == Load \/ Copy \/ Apply \/ Cut \/ Put
EditingSpec == EditingInit /\ [][EditingNext]_editingVars

=============================================================================
