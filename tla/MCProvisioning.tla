--------------------------- MODULE MCProvisioning ---------------------------
(* Instances of Provisioning: one client that does one thing after the other, *)
(* or two that do not know of each other.                                      *)
EXTENDS Provisioning
=============================================================================
