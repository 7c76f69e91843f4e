------------------------------- MODULE LineEdit -------------------------------
(***************************************************************************)
(* The command buffer of the AT interface and its backspace handling       *)
(* (at_interface/fsm.py, on_input_received): the code's loop, and the line *)
(* discipline a user at a terminal expects.                                *)
(***************************************************************************)
EXTENDS Integers, Sequences, SequencesExt

CONSTANT Symbols     \* what the host can send, without the backspace
Del == "DEL"         \* \x7f
CR  == "CR"

Keys == Symbols \cup {Del, CR}

(* The position of the first backspace: find, counted from 1. *)
FirstDel(b) ==
    CHOOSE i \in 1..Len(b) : b[i] = Del /\ \A j \in 1..(i - 1) : b[j] # Del

(* Mutant of Round: what follows the backspace is always dropped. *)
RoundDropsRest(b, length) ==
    IF Del \notin ToSet(b) THEN b
    ELSE IF length <= 1 THEN <<>> ELSE SubSeq(b, 1, FirstDel(b) - 2)

(* One round of the loop: the first backspace goes with the symbol before it.  The  *)
(* length that is compared is the one before the chunk was appended: with at most    *)
(* one symbol everything is dropped, and with the backspace at the last old position *)
(* so is everything after it.  A round moves the first backspace back by one place   *)
(* at most, so it comes by that position before it could be at the first one, where  *)
(* the code would slice up to -1.                                                    *)
Round(b, length) ==
    LET i == FirstDel(b)
    IN  IF Del \notin ToSet(b) THEN b
        ELSE IF length <= 1 THEN <<>>
        ELSE SubSeq(b, 1, i - 2) \o (IF i # length THEN SubSeq(b, i + 1, Len(b)) ELSE <<>>)

(* on_input_received: the chunk is appended, and there are rounds as long as there is *)
(* a backspace; each takes one, so as many as there are symbols are enough.           *)
Edit(buffer, chunk) ==
    LET all == buffer \o chunk
        rounds[n \in 0..Len(all)] ==
          [b \in Seq(Keys) |-> IF n = 0 THEN b ELSE rounds[n - 1][Round(b, Len(buffer))]]
    IN  rounds[Len(all)][all]

(* A line discipline: each backspace removes the symbol before it, if any. *)
Pressed(b, key) ==
    IF key # Del THEN Append(b, key) ELSE IF b = <<>> THEN <<>> ELSE Front(b)

Typed(buffer, chunk) ==
    LET after[k \in 0..Len(chunk)] == IF k = 0 THEN buffer ELSE Pressed(after[k - 1], chunk[k])
    IN  after[Len(chunk)]
=============================================================================
