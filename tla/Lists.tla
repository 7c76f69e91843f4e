-------------------------------- MODULE Lists --------------------------------
(* What several parts of the program do with their lists. *)
EXTENDS Integers, Sequences

(* The elements of s that are in keep, in their order: [x for x in s if ...]. *)
Filtered(s, keep) ==
    LET upto[n \in 0 .. Len(s)] ==
            IF n = 0 THEN <<>>
            ELSE IF s[n] \in keep THEN Append(upto[n - 1], s[n]) ELSE upto[n - 1]
    IN  upto[Len(s)]
=============================================================================
