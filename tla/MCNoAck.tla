------------------------------ MODULE MCNoAck ------------------------------
(***************************************************************************)
(* A group with a channel and a subgroup with another.                    *)
(***************************************************************************)
EXTENDS NoAck

MCChan == {"c1", "c2"}
MCGroup == {"top", "sub"}
MCAnc == [n \in MCChan \cup MCGroup |->
            CASE n = "top" -> {} [] n \in {"sub", "c1"} -> {"top"} [] OTHER -> {"top", "sub"}]
\* one channel has Ack in its mask already
MCDefaultMask == [c \in MCChan |-> IF c = "c1" THEN {"Ack"} ELSE {}]

=============================================================================
