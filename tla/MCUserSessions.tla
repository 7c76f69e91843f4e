--------------------------- MODULE MCUserSessions ---------------------------
(* Two clients that are alike, the default user and one more. *)
EXTENDS UserSessions, TLC

ClientSymmetry == Permutations(Clients)
=============================================================================
