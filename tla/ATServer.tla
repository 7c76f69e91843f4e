------------------------------- MODULE ATServer -------------------------------
(***************************************************************************)
(* What the AT interface promises to a host that waits for its answers: it *)
(* takes a line, runs the command of that line once, and answers once.     *)
(***************************************************************************)
EXTENDS Integers, Sequences

CONSTANTS Commands, NoCommand, Empty

VARIABLES lines,    \* what the lines of the host name: a command, nothing known, nothing
          ran,      \* what has been run, or found unknown
          replies   \* how many answers have been given

vars == <<lines, ran, replies>>

Init == lines = <<>> /\ ran = <<>> /\ replies = 0

Take ==
    /\ replies = Len(lines)
    /\ \E c \in Commands \cup {NoCommand, Empty} : lines' = Append(lines, c)
    /\ UNCHANGED <<ran, replies>>

Run ==
    /\ Len(ran) < Len(lines)
    /\ ran' = Append(ran, lines[Len(ran) + 1])
    /\ replies' \in {replies, replies + 1}     \* the answer may come at once
    /\ UNCHANGED lines

Reply ==
    /\ replies < Len(ran)
    /\ replies' = replies + 1
    /\ UNCHANGED <<lines, ran>>

Next == Take \/ Run \/ Reply
Spec == Init /\ [][Next]_vars
FairSpec == Spec /\ WF_vars(Run) /\ WF_vars(Reply)
=============================================================================
