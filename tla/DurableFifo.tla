----------------------------- MODULE DurableFifo -----------------------------
(***************************************************************************)
(* What the Outbox promises its owner, without files: a FIFO of numbered   *)
(* messages that survives crashes.  A crash may lose messages that were    *)
(* not promised yet and may bring back removals that were not retired yet, *)
(* and nothing else.                                                       *)
(***************************************************************************)
EXTENDS Integers

VARIABLES
    up,        \* the queue is in service
    issued,    \* messages handed to the queue so far; they are 1 .. issued
    queue,     \* the messages listed, oldest first; empty when not up
    promised,  \* messages reported as durable
    released,  \* messages the owner has removed
    retired    \* removals reported as durable

vars == <<up, issued, queue, promised, released, retired>>

IsOldest(n, S) == n \in S /\ \A m \in S : n <= m

Init == /\ up = FALSE /\ issued = 0 /\ queue = {}
        /\ promised = {} /\ released = {} /\ retired = {}

\* The owner hands over messages; the outcome is still open.
Issue == /\ up /\ issued' \in Nat /\ issued' > issued
         /\ UNCHANGED <<up, queue, promised, released, retired>>

\* Messages join at the end, in the order in which they were handed over.
Append == /\ up
          /\ queue \subseteq queue' /\ queue' \subseteq 1 .. issued
          /\ \A m \in queue, n \in queue' \ queue : m < n
          /\ promised' \in {promised, promised \cup queue'}
          /\ UNCHANGED <<up, issued, released, retired>>

\* Everything listed is durable.
Promise == /\ up /\ promised' = promised \cup queue
           /\ UNCHANGED <<up, issued, queue, released, retired>>

\* The owner removes the head; it may stay listed until its removal is durable.
Remove == /\ up
          /\ \E n \in queue :
                /\ IsOldest(n, queue)
                /\ released' = released \cup {n}
                /\ queue' \in {queue, queue \ {n}}
          /\ UNCHANGED <<up, issued, promised, retired>>

\* The removals are durable, and none of them is listed any more.
Retire == /\ up
          /\ queue' = queue \/ \E n \in queue \cap released :
                                  IsOldest(n, queue) /\ queue' = queue \ {n}
          /\ retired' = retired \cup (released \ queue')
          /\ UNCHANGED <<up, issued, promised, released>>

Crash == /\ up' = FALSE /\ queue' = {}
         /\ UNCHANGED <<issued, promised, released, retired>>

\* A restart lists every promised message but the removed ones, no message whose
\* removal was retired, and of the others what happened to survive.
Recover == /\ ~ up /\ up' = TRUE
           /\ promised \ released \subseteq queue'
           /\ queue' \subseteq (1 .. issued) \ retired
           /\ promised' = promised \cup queue'
           /\ released' = released \ queue'
           /\ UNCHANGED <<issued, retired>>

Next == Issue \/ Append \/ Promise \/ Remove \/ Retire \/ Crash \/ Recover

Spec == Init /\ [][Next]_vars
=============================================================================
