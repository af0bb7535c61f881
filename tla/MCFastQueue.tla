---------------------------- MODULE MCFastQueue ----------------------------
(***************************************************************************)
(* Instances of FastQueue: three or four messages of two sizes.            *)
(***************************************************************************)
EXTENDS FastQueue

CONSTANTS a, b, c, d

Sizes == [m \in Ids |-> IF m = b THEN 2 ELSE 1]
=============================================================================
