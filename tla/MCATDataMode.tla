---------------------------- MODULE MCATDataMode ----------------------------
(* Instances of ATDataMode: every command sequence on one service or two. *)
EXTENDS ATDataMode
=============================================================================
