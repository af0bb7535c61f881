------------------------------ MODULE Delivery ------------------------------
(***************************************************************************)
(* What Sender and Relay together promise an application, without threads, *)
(* connections or retries: messages reach the destination in the order in  *)
(* which publish() accepted them, each at least once, and one is reported  *)
(* as completed only when it is there.  Only a crash of the Sender loses   *)
(* messages, and then the newest ones.                                     *)
(***************************************************************************)
EXTENDS Integers, Sequences, SequencesExt

CONSTANTS Ids, Durable   \* Durable: the Sender is in DurableMode

VARIABLES
    order,      \* the messages publish() accepted, oldest first
    delivered,  \* messages the destination broker has accepted
    completed,  \* messages reported as delivered
    lost        \* messages a crash took from a Sender that is not durable

vars == <<order, delivered, completed, lost>>

Init == order = <<>> /\ delivered = {} /\ completed = {} /\ lost = {}

\* All messages in front of the i-th are in S.
Behind(i, S) == \A j \in 1 .. i - 1 : order[j] \in S

Accept(m) ==
    /\ m \notin ToSet(order) /\ order' = Append(order, m)
    /\ UNCHANGED <<delivered, completed, lost>>

Deliver(i) ==
    /\ Behind(i, delivered \cup lost) /\ delivered' = delivered \cup {order[i]}
    /\ UNCHANGED <<order, completed, lost>>

Complete(i) ==
    /\ order[i] \in delivered \ lost /\ Behind(i, completed \cup lost)
    /\ completed' = completed \cup {order[i]}
    /\ UNCHANGED <<order, delivered, lost>>

\* A crash keeps the first n accepted messages.
Lose(n) ==
    /\ ~ Durable
    /\ lost' = lost \cup ({order[i] : i \in n + 1 .. Len(order)} \ completed)
    /\ UNCHANGED <<order, delivered, completed>>

Next ==
    \/ \E m \in Ids : Accept(m)
    \/ \E i \in DOMAIN order : Deliver(i) \/ Complete(i)
    \/ \E n \in 0 .. Len(order) : Lose(n)

Spec == Init /\ [][Next]_vars
=============================================================================
