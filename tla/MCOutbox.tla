------------------------------ MODULE MCOutbox ------------------------------
(* Small instances of Outbox for TLC. *)
EXTENDS OutboxInvariant

CONSTANTS a, b, c

\* c fits behind no other message: in a segment of two it is an oversized singleton.
MCSizeOf == [i \in Ids |-> IF i = c THEN 3 ELSE 1]

\* Which system calls may fail, from run to run.
RepairedFaults == IoCalls \ UnrepairedFaults
DamageFaults   == RepairedFaults \cup {"damage"}
=============================================================================
