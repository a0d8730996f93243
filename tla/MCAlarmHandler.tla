--------------------------- MODULE MCAlarmHandler ---------------------------
(***************************************************************************)
(* A small tree for TLC: the group "top" holds the channel "a" and the     *)
(* group "sub", which holds the channel "b".                               *)
(***************************************************************************)
EXTENDS AlarmProperties

MCChan == {"a", "b"}
MCGroup == {"top", "sub"}
MCAnc == [n \in MCChan \cup MCGroup |->
            CASE n = "top" -> {} [] n = "b" -> {"sub", "top"} [] OTHER -> {"top"}]
MCWalk == [g \in MCGroup |-> IF g = "top" THEN <<"a", "sub", "b">> ELSE <<"b">>]
MCCaWalk == <<"b", "a">>

\* every mask bit is clear in the configuration file
NoMask == [c \in MCChan |-> {}]
\* b is disabled in the configuration file
BDisabled == [c \in MCChan |-> IF c = "b" THEN {"Disable"} ELSE {}]

NoBeepSevr == [n \in MCChan \cup MCGroup |-> 0]
\* b beeps from severity 2 on
BBeeps2 == [n \in MCChan \cup MCGroup |-> IF n = "b" THEN 2 ELSE 0]

\* the same tree with the channel "b" alone
OneChan == {"b"}
OneAnc == [n \in OneChan \cup MCGroup |->
             CASE n = "top" -> {} [] n = "b" -> {"sub", "top"} [] OTHER -> {"top"}]
OneWalk == [g \in MCGroup |-> IF g = "top" THEN <<"sub", "b">> ELSE <<"b">>]
OneCaWalk == <<"b">>
OneNoMask == [c \in OneChan |-> {}]
OneBeepSevr == [n \in OneChan \cup MCGroup |-> IF n = "b" THEN 2 ELSE 0]

\* what the operator combines on a channel
Nothing == {{}}
DisableOnly == SUBSET {"Disable"}
CancelOnly == SUBSET {"Cancel"}
LocalMasks == SUBSET {"Disable", "Ack", "AckT"} \cup SUBSET {"Cancel", "Ack"}
DisableOrAck == {{}, {"Disable"}, {"Ack"}}

=============================================================================
