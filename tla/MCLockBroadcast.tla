-------------------------- MODULE MCLockBroadcast --------------------------
(***************************************************************************)
(* Two Alarm Handlers and a few messages, for TLC.                         *)
(***************************************************************************)
EXTENDS LockBroadcast

CONSTANTS p1, p2     \* model values

TwoProcesses == {p1, p2}
AllKinds == {"text", "notsave", "reload"}

=============================================================================
