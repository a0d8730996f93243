----------------------------- MODULE MCForcePV -----------------------------
(***************************************************************************)
(* A group with a force PV, and a channel below it that has one too.       *)
(***************************************************************************)
EXTENDS ForcePV, FiniteSetsExt

MCChan == {"c"}
MCGroup == {"top"}
MCAnc == [n \in MCChan \cup MCGroup |-> IF n = "c" THEN {"top"} ELSE {}]
MCDefaultMask == [c \in MCChan |-> {}]
MCResult == [x \in {"sum"} |->
               [v \in [Slot -> Value] |-> MapThenSumSet(LAMBDA i : v[i], Slot)]]
MCNumber == [x \in {"1"} |-> 1]

\* the group has a calculation of two PVs, the channel a PV with NE
Line(n) ==
  [name |-> IF n = "top" THEN "CALC" ELSE "p1", disabled |-> FALSE, forceMask |-> {"Ack"},
   forceValue |-> 1, resetValue |-> IF n = "top" THEN 0 ELSE -2,
   expression |-> IF n = "top" THEN "sum" ELSE "none",
   slot |-> [i \in Slot |-> IF n = "top" THEN "p1" ELSE "none"]]
MCFromConfig == [n \in ForceNode |-> Line(n)]

\* one field at a time
MCEdited(f) ==
  {[f EXCEPT !.disabled = ~@]}
  \cup {[f EXCEPT !.name = x] : x \in {"p1", "CALC"}}
  \cup {[f EXCEPT !.resetValue = v] : v \in {0, -2}}
  \cup {[f EXCEPT !.expression = x] : x \in {"sum", "bad"}}
  \cup {[f EXCEPT !.slot["A"] = x] : x \in {"p1", "1", "none"}}

=============================================================================
