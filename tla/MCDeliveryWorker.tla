-------------------------- MODULE MCDeliveryWorker --------------------------
(* Instances of DeliveryWorker for TLC. *)
EXTENDS DeliveryWorker, TLC

CONSTANTS m1, m2

MCIds == {m1, m2}

\* The messages are interchangeable.
Messages == Permutations(MCIds)
=============================================================================
