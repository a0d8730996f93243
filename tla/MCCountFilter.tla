--------------------------- MODULE MCCountFilter ---------------------------
(***************************************************************************)
(* One channel in one group, with each kind of count filter.               *)
(***************************************************************************)
EXTENDS CountFilter

MCChan == {"c"}
MCGroup == {"top"}
MCAnc == [n \in MCChan \cup MCGroup |-> IF n = "c" THEN {"top"} ELSE {}]
MCWalk == [g \in MCGroup |-> <<"c">>]
MCCaWalk == <<"c">>
NoMask == [c \in MCChan |-> {}]
NoBeepSevr == [n \in MCChan \cup MCGroup |-> 0]

\* no count, a count of one and of two, no filter back to normal, no seconds
Filters ==
  {[inputCount |-> n, inputSeconds |-> 2] : n \in {-1, 0, 1}}
  \cup {[inputCount |-> 2, inputSeconds |-> 1], [inputCount |-> 1, inputSeconds |-> 0]}
Masks == SUBSET {"Disable"}

=============================================================================
