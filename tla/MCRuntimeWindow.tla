--------------------------- MODULE MCRuntimeWindow --------------------------
(***************************************************************************)
(* Sessions of three kinds: alarms and silence; heartbeats of files that   *)
(* replace each other; and the history window while files are opened.      *)
(***************************************************************************)
EXTENDS RuntimeWindow

Plain == [valid |-> TRUE, beepSevr |-> 1, heartbeat |-> FALSE]
Major == [Plain EXCEPT !.beepSevr = 2]
Beating == [Plain EXCEPT !.heartbeat = TRUE]
Empty == [Plain EXCEPT !.valid = FALSE]
MCFile == {Plain, Major, Beating, Empty}

Local == [global |-> FALSE, passive |-> FALSE, silent |-> FALSE, silence |-> {"current", "interval"},
          history |-> FALSE, files |-> {Plain, Major}, sevrs |-> {0, 1, 2}]
Global == [Local EXCEPT !.global = TRUE, !.silent = TRUE, !.silence = {"current", "forever", "severity"}]
Heart == [Global EXCEPT !.silence = {}, !.sevrs = {0, 1}, !.files = {Plain, Beating}]
History == [Local EXCEPT !.silence = {}, !.history = TRUE, !.sevrs = {0, 1}, !.files = {Plain, Empty}]
MCSession == {Local, Global, Heart, [Heart EXCEPT !.passive = TRUE], History}

=============================================================================
