--------------------------- MODULE MCATCommandFSM ---------------------------
(* A quick, a slow and a data command, an unknown text and the empty line; and *)
(* what the editing of the buffer promises to a user.                          *)
EXTENDS ATCommandFSM

Cmds == {"quick", "slow", "data"}
SlowCmds == {"slow"}
DataCmds == {"data"}
Texts == [quick |-> <<"a", "q">>, slow |-> <<"a", "s">>, data |-> <<"a", "d">>]
TwoBytes == <<"p", "p">>
HostLines == {Texts[c] : c \in Cmds} \cup {<<"q">>, <<>>}
Alphabet == {"a", "q", "s", "d", "p"}

(* What the driver may deliver next, with backspaces among it. *)
Chunks == UNION {[1..n -> {"a", CR, Del}] : n \in 1..3}

(* A user who types one key at a time, or whose chunks hold at most one backspace     *)
(* once two symbols or more are in the buffer, gets what a line discipline gives: the *)
(* loop of on_input_received is right there, on every buffer the machine comes to; and *)
(* whatever else it makes of a chunk are keys, with all else typed.                   *)
EditIsTyped ==
    /\ TypeOK
    /\ \A c \in Chunks :
          Len(c) = 1 \/ (Len(buffer) > 1 /\ Cardinality({i \in DOMAIN c : c[i] = Del}) <= 1)
          => Edit(buffer, c) = Typed(buffer, c)
=============================================================================
