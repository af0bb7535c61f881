------------------------------ MODULE MCRelay ------------------------------
(* Instances of Relay for TLC. *)
EXTENDS Relay, TLC

CONSTANTS m1, m2, w1, w2

\* Messages and worker threads are interchangeable.
Interchangeable == Permutations({m1, m2}) \cup Permutations({w1, w2})
=============================================================================
