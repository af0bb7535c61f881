--------------------------- MODULE MCGroupPolicy ---------------------------
(* Instances of GroupPolicy for TLC. *)
EXTENDS GroupPolicy
=============================================================================
