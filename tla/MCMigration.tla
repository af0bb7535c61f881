----------------------------- MODULE MCMigration -----------------------------
(* Small instances of Migration for TLC. *)
EXTENDS Migration

CONSTANTS a, b, c

\* c alone exceeds a segment.
MCSizeOf == [m \in Ids \cup {NewId} |-> IF m = c THEN 3 ELSE 1]
=============================================================================
