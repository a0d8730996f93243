--------------------------- MODULE ReportHistory ---------------------------
(***************************************************************************)
(* The history of the reports of one channel, as an observer keeps it: for *)
(* how long the last one has been in or out of alarm, and the ages of the  *)
(* changes before it, the oldest first.  setting is the filter of the      *)
(* channel; until seen, no alarm state of it is known.                     *)
(***************************************************************************)
EXTENDS Integers, Sequences, FiniteSets

Crosses(old, new) == (old = 0) # (new = 0)

\* after a report of severity sevr
Since(seen, told, lasted, sevr) == IF seen /\ Crosses(told, sevr) THEN 0 ELSE lasted

\* the changes that can count are the last 2 * inputCount + 1
Kept(setting) == IF setting.inputCount > 0 THEN 2 * setting.inputCount + 1 ELSE 0
Changes(setting, seen, told, changes, sevr) ==
  LET all == Append(changes, 0)
  IN  IF ~seen \/ ~Crosses(told, sevr) THEN changes
      ELSE IF Len(all) > Kept(setting) THEN Tail(all) ELSE all

\* after a second
Longer(setting, lasted) == IF lasted < setting.inputSeconds THEN lasted + 1 ELSE lasted
Recent(setting, changes) ==
  LET gone == Cardinality({i \in DOMAIN changes : changes[i] >= setting.inputSeconds})
  IN  [i \in 1 .. Len(changes) - gone |-> changes[i + gone] + 1]

=============================================================================
