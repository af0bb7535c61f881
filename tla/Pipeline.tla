------------------------------ MODULE Pipeline ------------------------------
(***************************************************************************)
(* A Sender and a Relay at work: the steps of DeliveryWorker and of Relay  *)
(* over the brokers they share, with no stand-in for either.  What the     *)
(* Sender hands to the source broker is what the Relay takes in, what the  *)
(* Relay acknowledges is what the Sender's callback reads.  On top of the  *)
(* two, either process may die at any point and be started again: the      *)
(* Relay forgets everything, the Sender all but what its Outbox recovers.  *)
(***************************************************************************)
EXTENDS Integers, Sequences, FiniteSets, SequencesExt

CONSTANTS
    Ids, NoMessage,
    Durable,            \* the Sender is in DurableMode
    Workers, MaxQueue,  \* of the Relay
    MaxSetbacks,        \* bound: lost connections and failed reads and writes
    MaxCrashes,         \* bound: crashes
    MaxTrouble          \* bound: the two together

ASSUME PipelineAssumption ==
    /\ NoMessage \notin Ids /\ "none" \notin Workers /\ MaxQueue \in Nat \ {0}
    /\ Durable \in BOOLEAN
    /\ MaxSetbacks \in Nat /\ MaxCrashes \in Nat /\ MaxTrouble \in Nat

VARIABLES
    \* the Sender (see DeliveryWorker)
    expected, matched, interrupted, event,
    pending, publishers, wakeup, stopEvent, wpc, item, status, signalled, lpc, started,
    loop, link, npc, connected, ready, waiter, target, completed, told, cut,
    \* the Relay (see Relay)
    running, accepting, relayStop, relayWorker, tasks, relayPc, task, apc, spc, joining,
    intake, source, dest, relayReady, calm,
    \* between and behind them
    handed,      \* messages at the source broker for the Relay
    acks,        \* DeliveryAcks at the source broker for the Sender
    delivered,   \* messages the destination broker has accepted
    \* history
    order, lost, crashes, setbacks

tracker == <<expected, matched, interrupted, event>>
sender == <<tracker, pending, publishers, wakeup, stopEvent, wpc, item, status, signalled,
            lpc, started, loop, link, npc, connected, ready, waiter, target, completed,
            told, cut>>
relay == <<running, accepting, relayStop, relayWorker, tasks, relayPc, task, apc, spc,
           joining, intake, source, dest, relayReady, calm>>
brokers == <<handed, acks, delivered>>
history == <<order, lost, crashes>>
vars == <<sender, relay, brokers, history, setbacks>>

S == INSTANCE DeliveryWorker

R == INSTANCE Relay WITH
        Concurrent <- FALSE, SlowJoins <- FALSE,
        stopEvent <- relayStop, worker <- relayWorker, wpc <- relayPc, ipc <- intake,
        ready <- relayReady,
        inbound <- handed, accepted <- delivered, acked <- acks
-----------------------------------------------------------------------------
(* The Sender.                                                             *)

Bounded == setbacks' + crashes' <= MaxTrouble

SenderFrame == UNCHANGED <<relay, history>> /\ Bounded

\* The steps of the Sender's threads but publish(); nobody stops it or waits here.
SenderStep ==
    /\ \/ S!WorkerStep \/ S!Start
       \/ S!OnConnect \/ S!OnSubscribe \/ S!CallbackWakes
       \/ S!MarkDisconnected \/ S!DisconnectInterrupts \/ S!LinkBreaks
       \/ \E m \in Ids : S!PublishReturns(m) \/ S!OnMessage(m)
    /\ SenderFrame

Accept(m) ==
    /\ m \notin ToSet(order) /\ S!Publish(m) /\ order' = Append(order, m)
    /\ UNCHANGED <<relay, lost, crashes>>

\* The source broker keeps a DeliveryAck for nobody.
AckDropped(m) ==
    /\ ~ ready /\ m \in acks /\ acks' = acks \ {m}
    /\ UNCHANGED <<sender, handed, delivered, setbacks>> /\ SenderFrame
-----------------------------------------------------------------------------
(* The Relay.                                                              *)

RelayFrame == UNCHANGED <<sender, history>> /\ Bounded

\* The steps of the Relay's threads; nobody stops it here.
RelayStep ==
    /\ \/ \E w \in Workers : R!WorkerStep(w)
       \/ \E m \in Ids : R!OnSourceMessage(m)
       \/ R!Enqueue
       \/ R!OnSourceConnect \/ R!OnSourceSubscribe \/ R!OnSourceDisconnect \/ R!SourceBreaks
       \/ R!OnDestinationConnect \/ R!OnDestinationDisconnect \/ R!DestinationBreaks
       \/ R!StartBegins \/ R!StartConnects
    /\ RelayFrame

\* The source broker keeps a message for nobody.
MessageDropped(m) ==
    /\ ~ relayReady /\ m \in handed /\ handed' = handed \ {m}
    /\ UNCHANGED <<relay, acks, delivered, setbacks>> /\ RelayFrame
-----------------------------------------------------------------------------
(* Crashes.                                                                *)

Crash == /\ crashes < MaxCrashes /\ crashes + setbacks < MaxTrouble
         /\ crashes' = crashes + 1

\* The Relay's process dies with its queue.
RelayCrashes ==
    /\ Crash /\ running
    /\ running' = FALSE /\ accepting' = FALSE /\ relayStop' = FALSE /\ relayWorker' = "none"
    /\ tasks' = <<>> /\ relayPc' = [w \in Workers |-> "dead"]
    /\ task' = [w \in Workers |-> NoMessage]
    /\ apc' = "idle" /\ spc' = "idle" /\ joining' = "none" /\ intake' = NoMessage
    /\ source' = R!Down /\ dest' = R!Down /\ relayReady' = FALSE
    /\ UNCHANGED <<sender, brokers, calm, setbacks, order, lost>>

\* The messages in front of the FIFO's head.
Passed == IF pending = <<>> THEN Len(order)
          ELSE CHOOSE i \in 0 .. Len(order) - 1 : order[i + 1] = Head(pending)

\* The accepted messages behind the i-th, up to the n-th, without those an earlier crash
\* took.
Kept(i, n) ==
    LET kept[k \in 0 .. Len(order)] ==
            IF k <= i THEN <<>>
            ELSE IF order[k] \in lost THEN kept[k - 1] ELSE Append(kept[k - 1], order[k])
    IN  kept[n]

\* What an Outbox may hold after a crash (DurableFifo): in DurableMode what it held
\* before, otherwise the newest messages may be missing and completed ones be back.
Recovered(i, n) ==
    /\ i \in 0 .. Passed /\ n \in 0 .. Len(order)
    /\ Durable => i = Passed /\ n = Len(order)
    /\ pending' = Kept(i, n)
    /\ lost' = lost \cup ({order[j] : j \in n + 1 .. Len(order)} \ completed)

\* The Sender's process dies.
SenderCrashes ==
    /\ Crash /\ started
    /\ \E i, n \in 0 .. Len(order) : Recovered(i, n)
    /\ expected' = NoMessage /\ matched' = FALSE /\ interrupted' = FALSE /\ event' = FALSE
    /\ publishers' = {} /\ wakeup' = FALSE /\ stopEvent' = FALSE
    /\ wpc' = "dead" /\ item' = NoMessage /\ status' = "NONE" /\ signalled' = FALSE
    /\ lpc' = "idle" /\ started' = FALSE /\ loop' = FALSE /\ link' = FALSE /\ npc' = "idle"
    /\ connected' = FALSE /\ ready' = FALSE /\ waiter' = "none" /\ target' = NoMessage
    /\ told' = FALSE /\ cut' = FALSE
    /\ UNCHANGED <<relay, brokers, completed, setbacks, order>>
-----------------------------------------------------------------------------
Init == S!Init /\ R!Init /\ order = <<>> /\ lost = {} /\ crashes = 0

Next ==
    \/ SenderStep \/ RelayStep
    \/ \E m \in Ids : Accept(m) \/ AckDropped(m) \/ MessageDropped(m)
    \/ RelayCrashes \/ SenderCrashes

Spec == Init /\ [][Next]_vars

\* The threads run, timers fire, Paho reconnects, brokers pass on what they hold, and a
\* process that died is started again.
Fairness ==
    /\ WF_vars(S!WorkerStep /\ SenderFrame)
    /\ WF_vars((S!Start \/ S!OnConnect \/ S!OnSubscribe \/ S!CallbackWakes
                  \/ S!DisconnectInterrupts \/ (connected /\ S!MarkDisconnected)) /\ SenderFrame)
    /\ WF_vars((\E m \in Ids : S!OnMessage(m)) /\ SenderFrame)
    /\ WF_vars((\E w \in Workers : R!WorkerStep(w)) /\ RelayFrame)
    /\ WF_vars(((\E m \in Ids : R!OnSourceMessage(m)) \/ R!Enqueue) /\ RelayFrame)
    /\ WF_vars((R!OnSourceConnect \/ R!OnSourceSubscribe \/ R!OnSourceDisconnect) /\ RelayFrame)
    /\ WF_vars((R!OnDestinationConnect \/ R!OnDestinationDisconnect) /\ RelayFrame)
    /\ WF_vars((R!StartBegins \/ R!StartConnects) /\ RelayFrame)

FairSpec == Spec /\ Fairness
-----------------------------------------------------------------------------
(* Properties.                                                             *)

\* Order, at least one delivery, no completion without delivery: the promise of the two
\* processes together holds through every crash, loss, duplicate and retry.
Promise == INSTANCE Delivery
ImplementsDelivery == Promise!Spec

\* The messages the Relay holds and has not delivered, and the ACKs it still owes.
InHand(pcs) == {task[w] : w \in {v \in Workers : relayPc[v] \in pcs}}
Held == ToSet(tasks) \cup {intake} \cup InHand({"got", "publish"})
Owed == InHand({"confirmed", "ack"})

\* Seen from the Sender, brokers and Relay do nothing but what DeliveryWorker assumes of
\* its outside, a crash of the Relay included: what is proved of DeliveryWorker holds here
\* between two crashes of the Sender.  (The count of setbacks is not the Sender's.)
View == INSTANCE DeliveryWorker WITH
            handed <- (handed \cup Held) \ {NoMessage}, acks <- acks \cup Owed
ImplementsWorker ==
    [][View!Next \/ SenderCrashes]_<<sender, View!outside>>

\* A message is on its way through the Relay, or its DeliveryAck on the way back.
UnderWay(m) == m \in handed \cup Held \cup Owed \cup acks

\* From some point on live connections lose nothing and answers beat the timeouts.
NetworkHeals ==
    <>[][/\ ~ (link /\ S!PubackTimesOut)
         /\ ~ (~ event /\ UnderWay(item) /\ S!EventWakes)
         /\ \A w \in Workers :
               /\ ~ (dest.link /\ R!DestinationFails(w))
               /\ ~ (source.link /\ R!SendAck(w) /\ task[w] \notin acks')]_vars

\* Retry never gives up: once the network heals and the processes stay up, every message
\* the Sender still has is delivered and completed, whatever was dropped by a full Relay
\* queue, lost with a crashed Relay or forgotten with an ACK before.
EventuallyCompleted ==
    NetworkHeals => \A m \in Ids : m \in ToSet(order) ~> m \in completed \cup lost
=============================================================================
