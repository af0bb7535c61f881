--------------------------- MODULE DeliveryWorker ---------------------------
(***************************************************************************)
(* The delivery state machine of src/reliomq/sender.py: the worker thread, *)
(* the callbacks of the network thread, publish(), wait_for_delivery() and *)
(* start()/stop(), each at the grain of its locks.  Brokers and Relay are  *)
(* the environment: they may lose a message or its acknowledgement, answer *)
(* late or answer twice.  Where a message is stored is the subject of      *)
(* FastQueue and Outbox; here a completion may fail and nothing else.      *)
(***************************************************************************)
EXTENDS AckTracker, Integers, Sequences, FiniteSets, SequencesExt

CONSTANT MaxSetbacks   \* bound: lost or failed connections, failed starts, storage errors, slow joins

ASSUME SetbackAssumption == MaxSetbacks \in Nat

VARIABLES
    pending,    \* _pending
    publishers, \* publish() calls between the append and _wakeup.set()
    wakeup,     \* _wakeup
    stopEvent,  \* _stop_event
    \* the delivery worker
    wpc, item, status, signalled,
    \* start() and stop(), under _lifecycle_lock
    lpc, started,
    \* the network thread and Paho
    loop,       \* the network loop runs
    link,       \* Paho's is_connected()
    npc,        \* the callback in progress
    connected,  \* _connected
    ready,      \* _ack_subscription_ready
    \* one call of wait_for_delivery
    waiter, target,
    \* brokers and Relay
    handed,     \* messages published to the source broker and not yet relayed
    acks,       \* DeliveryAcks on their way to the Sender
    \* history
    delivered,  \* messages the destination broker accepted
    completed,  \* messages removed from the FIFO
    told,       \* match() reported an ACK to the network thread in this attempt
    cut,        \* interrupt() was called in this attempt
    setbacks

worker  == <<wpc, item, status, signalled>>
network == <<loop, link, npc, connected, ready>>
wait    == <<waiter, target>>
outside == <<handed, acks, delivered>>
attempt == <<told, cut>>
vars == <<tracker, pending, publishers, wakeup, stopEvent, worker, lpc, started,
          network, wait, outside, completed, attempt, setbacks>>

Setback == setbacks < MaxSetbacks /\ setbacks' = setbacks + 1

WorkerPCs == {"dead", "top", "pick", "ready", "begin", "stopcheck", "publish", "puback",
              "wait", "settle", "unpublished", "unacked", "complete", "notify", "end",
              "decide", "sleep"}
Statuses == {"NONE", "STOPPED", "EMPTY", "NOT_READY", "RETRY", "STORE_ERROR", "DELIVERED"}
-----------------------------------------------------------------------------
(* The delivery worker: _delivery_worker and _process_oldest_once.         *)

ConnectionReady == connected /\ ready /\ link

Goto(from, to) == wpc = from /\ wpc' = to

\* What the worker's steps leave alone.
WorkerFrame == UNCHANGED <<publishers, stopEvent, lpc, started, network>>

Top ==
    /\ wpc = "top"
    /\ wpc' = IF stopEvent THEN "dead" ELSE "pick"
    /\ wakeup' = (stopEvent /\ wakeup) /\ status' = "NONE"
    /\ WorkerFrame
    /\ UNCHANGED <<tracker, pending, item, signalled, wait, outside, completed,
                   attempt, setbacks>>

\* Mutant: an empty FIFO is attempted like any other.
PickNothing ==
    /\ wpc = "pick" /\ ~ stopEvent
    /\ item' = IF pending = <<>> THEN NoMessage ELSE Head(pending)
    /\ wpc' = "ready" /\ UNCHANGED <<status, setbacks>>
    /\ WorkerFrame
    /\ UNCHANGED <<tracker, pending, wakeup, signalled, wait, outside, completed, attempt>>

Pick ==
    /\ wpc = "pick"
    /\ \/ /\ stopEvent \/ pending = <<>>
          /\ status' = IF stopEvent THEN "STOPPED" ELSE "EMPTY"
          /\ wpc' = "decide" /\ UNCHANGED <<item, setbacks>>
       \/ /\ ~ stopEvent /\ pending # <<>>
          /\ item' = Head(pending) /\ wpc' = "ready" /\ UNCHANGED <<status, setbacks>>
       \* Reading the envelope raises: the file cannot be read, or a spill dropped
       \* the encoded bytes between the two reads of item._encoded.
       \/ /\ ~ stopEvent /\ pending # <<>> /\ Setback
          /\ status' = "RETRY" /\ wpc' = "decide" /\ UNCHANGED item
    /\ WorkerFrame
    /\ UNCHANGED <<tracker, pending, wakeup, signalled, wait, outside, completed, attempt>>

CheckReady ==
    /\ wpc = "ready"
    /\ \/ ConnectionReady /\ wpc' = "begin" /\ UNCHANGED <<item, status>>
       \/ /\ ~ ConnectionReady
          /\ wpc' = "decide" /\ status' = "NOT_READY" /\ item' = NoMessage
    /\ WorkerFrame
    /\ UNCHANGED <<tracker, pending, wakeup, signalled, wait, outside, completed,
                   attempt, setbacks>>

BeginAttempt ==
    /\ Goto("begin", "stopcheck") /\ Begin(item)
    /\ WorkerFrame
    /\ UNCHANGED <<pending, wakeup, item, status, signalled, wait, outside, completed,
                   attempt, setbacks>>

\* Mutant: stop() is not looked at once the expectation is registered.
StopCheckDropped ==
    /\ Goto("stopcheck", "publish")
    /\ WorkerFrame
    /\ UNCHANGED <<tracker, pending, wakeup, item, status, signalled, wait, outside, completed,
                   attempt, setbacks>>

StopCheck ==
    /\ wpc = "stopcheck"
    /\ \/ stopEvent /\ wpc' = "end" /\ status' = "STOPPED"
       \/ ~ stopEvent /\ wpc' = "publish" /\ UNCHANGED status
    /\ WorkerFrame
    /\ UNCHANGED <<tracker, pending, wakeup, item, signalled, wait, outside, completed,
                   attempt, setbacks>>

\* confirmed_publish: hand the message to Paho ...
PublishAttempt ==
    /\ wpc = "publish"
    /\ \/ link /\ wpc' = "puback" /\ handed' = handed \cup {item}
       \* Paho reports that it is not connected, and may send the message later.
       \/ /\ ~ link /\ wpc' = "unpublished"
          /\ handed' \in {handed, handed \cup {item}}
    /\ WorkerFrame
    /\ UNCHANGED <<tracker, pending, wakeup, item, status, signalled, wait, acks, delivered,
                   completed, attempt, setbacks>>

\* ... and wait for its PUBACK, ...
PubackArrives ==
    /\ link /\ Goto("puback", "wait")
    /\ WorkerFrame
    /\ UNCHANGED <<tracker, pending, wakeup, item, status, signalled, wait, outside, completed,
                   attempt, setbacks>>

\* ... which may not come in time.
PubackTimesOut ==
    /\ Goto("puback", "unpublished")
    /\ WorkerFrame
    /\ UNCHANGED <<tracker, pending, wakeup, item, status, signalled, wait, outside, completed,
                   attempt, setbacks>>

\* The event of AckTracker.wait is set, or delivery_ack_timeout passes.
EventWakes ==
    /\ Goto("wait", "settle")
    /\ signalled' = event
    /\ WorkerFrame
    /\ UNCHANGED <<tracker, pending, wakeup, item, status, wait, outside, completed, attempt,
                   setbacks>>

Settle ==
    /\ wpc = "settle"
    /\ wpc' = IF Confirmed(signalled) THEN "complete" ELSE "unacked"
    /\ SettleWait(signalled) /\ signalled' = FALSE
    /\ WorkerFrame
    /\ UNCHANGED <<pending, wakeup, item, status, wait, outside, completed, attempt,
                   setbacks>>

\* No PUBACK or no DeliveryAck; a FastMode message is promoted here.
AttemptFails ==
    /\ wpc \in {"unpublished", "unacked"}
    /\ wpc' = "end"
    /\ \/ stopEvent /\ status' = "STOPPED" /\ UNCHANGED setbacks
       \/ ~ stopEvent /\ status' = "RETRY" /\ UNCHANGED setbacks
       \/ ~ stopEvent /\ status' = "STORE_ERROR" /\ Setback
    /\ WorkerFrame
    /\ UNCHANGED <<tracker, pending, wakeup, item, signalled, wait, outside, completed, attempt>>

\* Mutant: a completion does not respect the stop boundary.
CompleteIgnoresStop ==
    /\ wpc = "complete"
    /\ pending' = Tail(pending) /\ completed' = completed \cup {item}
    /\ status' = "DELIVERED" /\ wpc' = "notify" /\ UNCHANGED setbacks
    /\ WorkerFrame
    /\ UNCHANGED <<tracker, wakeup, item, signalled, wait, outside, attempt>>

\* _complete_item, under _commit_lock.
Complete ==
    /\ wpc = "complete"
    /\ \/ /\ stopEvent
          /\ status' = "STOPPED" /\ wpc' = "end" /\ UNCHANGED <<pending, completed, setbacks>>
       \/ /\ ~ stopEvent
          /\ pending' = Tail(pending) /\ completed' = completed \cup {item}
          /\ status' = "DELIVERED" /\ wpc' = "notify" /\ UNCHANGED setbacks
       \* The Outbox raises.
       \/ /\ ~ stopEvent /\ Setback
          /\ status' = "STORE_ERROR" /\ wpc' = "end" /\ UNCHANGED <<pending, completed>>
       \* Reading the envelope raises, before the lock is taken.
       \/ /\ Setback
          /\ status' = "RETRY" /\ wpc' = "end" /\ UNCHANGED <<pending, completed>>
    /\ WorkerFrame
    /\ UNCHANGED <<tracker, wakeup, item, signalled, wait, outside, attempt>>

\* notify_all() wakes a blocked wait_for_delivery, which checks again.
Notify == /\ waiter' = IF waiter = "blocked" THEN "check" ELSE waiter
          /\ UNCHANGED target

NotifyWaiters ==
    /\ Goto("notify", "end") /\ Notify
    /\ WorkerFrame
    /\ UNCHANGED <<tracker, pending, wakeup, item, status, signalled, outside, completed,
                   attempt, setbacks>>

\* Mutant: the expectation outlives a failed attempt.
EndForgotten ==
    /\ Goto("end", "decide")
    /\ WorkerFrame
    /\ UNCHANGED <<tracker, pending, wakeup, item, status, signalled, wait, outside, completed,
                   attempt, setbacks>>

EndAttempt ==
    /\ Goto("end", "decide") /\ End
    /\ item' = NoMessage /\ told' = FALSE /\ cut' = FALSE
    /\ WorkerFrame
    /\ UNCHANGED <<pending, wakeup, status, signalled, wait, outside, completed, setbacks>>

Decide ==
    /\ wpc = "decide"
    /\ wpc' = IF status = "DELIVERED" THEN "top"
              ELSE IF status = "STOPPED" \/ stopEvent THEN "dead" ELSE "sleep"
    /\ WorkerFrame
    /\ UNCHANGED <<tracker, pending, wakeup, item, status, signalled, wait, outside, completed,
                   attempt, setbacks>>

\* Mutant: the worker sleeps until somebody wakes it.
WakeUpSignalled ==
    /\ wakeup /\ Goto("sleep", "top")
    /\ WorkerFrame
    /\ UNCHANGED <<tracker, pending, wakeup, item, status, signalled, wait, outside, completed,
                   attempt, setbacks>>

\* _wakeup.wait(timeout=retry_interval).
WakeUp ==
    /\ Goto("sleep", "top")
    /\ WorkerFrame
    /\ UNCHANGED <<tracker, pending, wakeup, item, status, signalled, wait, outside, completed,
                   attempt, setbacks>>

WorkerStep ==
    \/ Top \/ Pick \/ CheckReady \/ BeginAttempt \/ StopCheck \/ PublishAttempt
    \/ PubackArrives \/ PubackTimesOut \/ EventWakes \/ Settle \/ AttemptFails
    \/ Complete \/ NotifyWaiters \/ EndAttempt \/ Decide \/ WakeUp
-----------------------------------------------------------------------------
(* Application threads.                                                    *)

\* publish() appends under the queue lock ...
Publish(m) ==
    /\ m \notin ToSet(pending) \cup completed
    /\ pending' = Append(pending, m) /\ publishers' = publishers \cup {m}
    /\ UNCHANGED <<tracker, wakeup, stopEvent, worker, lpc, started, network, wait, outside,
                   completed, attempt, setbacks>>

\* ... and wakes the worker after it.
PublishReturns(m) ==
    /\ m \in publishers
    /\ wakeup' = TRUE /\ publishers' = publishers \ {m}
    /\ UNCHANGED <<tracker, pending, stopEvent, worker, lpc, started, network, wait, outside,
                   completed, attempt, setbacks>>

\* wait_for_delivery(m) without a timeout.
WaitForDelivery(m) ==
    /\ waiter \in {"none", "true", "false"} /\ m \in ToSet(pending)
    /\ waiter' = "check" /\ target' = m
    /\ UNCHANGED <<tracker, pending, publishers, wakeup, stopEvent, worker, lpc, started,
                   network, outside, completed, attempt, setbacks>>

\* The predicate is evaluated and the wait entered under the condition's lock.
WaiterChecks ==
    /\ waiter = "check"
    /\ waiter' = IF target \notin ToSet(pending) THEN "true"
                 ELSE IF stopEvent THEN "false" ELSE "blocked"
    /\ UNCHANGED <<tracker, pending, publishers, wakeup, stopEvent, worker, lpc, started,
                   network, target, outside, completed, attempt, setbacks>>
-----------------------------------------------------------------------------
(* start() and stop().                                                     *)

MayStart == lpc = "idle" /\ ~ started /\ wpc = "dead"

Start ==
    /\ MayStart
    /\ stopEvent' = FALSE /\ connected' = FALSE /\ ready' = FALSE
    /\ loop' = TRUE /\ started' = TRUE /\ wpc' = "top" /\ wakeup' = TRUE
    /\ UNCHANGED <<tracker, pending, publishers, item, status, signalled, lpc, link, npc,
                   wait, outside, completed, attempt, setbacks>>

\* connect_async or loop_start reports an error.
StartFails ==
    /\ MayStart /\ Setback
    /\ stopEvent' = FALSE /\ connected' = FALSE /\ ready' = FALSE
    /\ UNCHANGED <<tracker, pending, publishers, wakeup, worker, lpc, started, loop, link, npc,
                   wait, outside, completed, attempt>>

StopBegins ==
    /\ lpc = "idle" /\ (started \/ wpc # "dead")
    /\ stopEvent' = TRUE /\ lpc' = "interrupt"
    /\ UNCHANGED <<tracker, pending, publishers, wakeup, worker, started, network, wait,
                   outside, completed, attempt, setbacks>>

StopInterrupts ==
    /\ lpc = "interrupt" /\ lpc' = "notify"
    /\ Interrupt /\ cut' = (expected # NoMessage) /\ wakeup' = TRUE
    /\ UNCHANGED <<pending, publishers, stopEvent, worker, started, network, wait, outside,
                   completed, told, setbacks>>

\* The waiters are notified, and Paho disconnects.
StopNotifies ==
    /\ lpc = "notify" /\ lpc' = "join"
    /\ Notify /\ link' = FALSE
    /\ UNCHANGED <<tracker, pending, publishers, wakeup, stopEvent, worker, started, loop, npc,
                   connected, ready, outside, completed, attempt, setbacks>>

\* The worker ends, or the join times out.
StopJoins ==
    /\ lpc = "join" /\ lpc' = "finish"
    /\ \/ wpc = "dead" /\ UNCHANGED setbacks
       \/ wpc # "dead" /\ Setback
    /\ UNCHANGED <<tracker, pending, publishers, wakeup, stopEvent, worker, started, network,
                   wait, outside, completed, attempt>>

\* loop_stop() joins the network thread.
StopFinishes ==
    /\ lpc = "finish" /\ lpc' = "idle"
    /\ npc = "idle"
    /\ loop' = FALSE /\ started' = FALSE /\ connected' = FALSE /\ ready' = FALSE
    /\ UNCHANGED <<tracker, pending, publishers, wakeup, stopEvent, worker, link, npc, wait,
                   outside, completed, attempt, setbacks>>

StopStep == StopInterrupts \/ StopNotifies \/ StopJoins \/ StopFinishes
-----------------------------------------------------------------------------
(* The network thread.                                                     *)

NetworkFrame == UNCHANGED <<pending, publishers, stopEvent, worker, lpc, started, wait,
                            completed>>

OnConnect ==
    /\ loop /\ npc = "idle" /\ ~ link /\ ~ connected /\ lpc \in {"idle", "interrupt", "notify"}
    /\ link' = TRUE /\ connected' = TRUE /\ ready' = FALSE /\ npc' = "wake"
    /\ NetworkFrame
    /\ UNCHANGED <<tracker, wakeup, loop, outside, attempt, setbacks>>

\* The SUBACK of the DeliveryAck subscription.
OnSubscribe ==
    /\ loop /\ npc = "idle" /\ link /\ connected /\ ~ ready
    /\ ready' = TRUE /\ npc' = "wake"
    /\ NetworkFrame
    /\ UNCHANGED <<tracker, wakeup, loop, link, connected, outside, attempt, setbacks>>

\* The last step of both callbacks.
CallbackWakes ==
    /\ npc = "wake" /\ npc' = "idle" /\ wakeup' = TRUE
    /\ NetworkFrame
    /\ UNCHANGED <<tracker, loop, link, connected, ready, outside, attempt, setbacks>>

LinkBreaks ==
    /\ link /\ Setback /\ link' = FALSE
    /\ NetworkFrame
    /\ UNCHANGED <<tracker, wakeup, loop, npc, connected, ready, outside, attempt>>

\* _mark_disconnected up to the interrupt, after a lost or a failed connection.
MarkDisconnected ==
    /\ loop /\ npc = "idle" /\ ~ link
    /\ \/ connected /\ UNCHANGED setbacks
       \/ ~ connected /\ Setback
    /\ connected' = FALSE /\ ready' = FALSE /\ npc' = "interrupt"
    /\ NetworkFrame
    /\ UNCHANGED <<tracker, wakeup, loop, link, outside, attempt>>

DisconnectInterrupts ==
    /\ npc = "interrupt" /\ npc' = "idle"
    /\ Interrupt /\ cut' = (expected # NoMessage) /\ wakeup' = TRUE
    /\ NetworkFrame
    /\ UNCHANGED <<loop, link, connected, ready, outside, told, setbacks>>

\* A DeliveryAck arrives; the broker may deliver it again.
OnMessage(m) ==
    /\ loop /\ npc = "idle" /\ link /\ m \in acks
    /\ Match(m) /\ told' = (told \/ Matches(m))
    /\ acks' \in {acks, acks \ {m}}
    /\ NetworkFrame
    /\ UNCHANGED <<wakeup, network, handed, delivered, cut, setbacks>>
-----------------------------------------------------------------------------
(* Brokers and Relay, as far as the Sender can tell (Pipeline shows that   *)
(* the Relay's own steps are such steps).                                  *)

OutsideFrame == UNCHANGED <<tracker, pending, publishers, wakeup, stopEvent, worker, lpc,
                            started, network, wait, completed, attempt, setbacks>>

\* The destination accepts a message, or another copy of it, and its DeliveryAck is on
\* its way or not.
RelayDelivers(m) ==
    /\ m \in handed /\ handed' \in {handed, handed \ {m}}
    /\ delivered' = delivered \cup {m} /\ acks' \in {acks, acks \cup {m}}
    /\ OutsideFrame

\* Messages and DeliveryAcks are lost, all at once when the Relay dies.
OutsideLoses ==
    /\ handed' \in SUBSET handed /\ acks' \in SUBSET acks
    /\ OutsideFrame /\ UNCHANGED delivered
-----------------------------------------------------------------------------
Init ==
    /\ TrackerInit
    /\ pending = <<>> /\ publishers = {} /\ wakeup = FALSE /\ stopEvent = FALSE
    /\ wpc = "dead" /\ item = NoMessage /\ status = "NONE" /\ signalled = FALSE
    /\ lpc = "idle" /\ started = FALSE
    /\ loop = FALSE /\ link = FALSE /\ npc = "idle" /\ connected = FALSE /\ ready = FALSE
    /\ waiter = "none" /\ target = NoMessage
    /\ handed = {} /\ acks = {} /\ delivered = {}
    /\ completed = {} /\ told = FALSE /\ cut = FALSE /\ setbacks = 0

Next ==
    \/ WorkerStep
    \/ \E m \in Ids : Publish(m) \/ PublishReturns(m) \/ WaitForDelivery(m)
    \/ WaiterChecks
    \/ Start \/ StartFails \/ StopBegins \/ StopStep
    \/ OnConnect \/ OnSubscribe \/ CallbackWakes
    \/ LinkBreaks \/ MarkDisconnected \/ DisconnectInterrupts
    \/ \E m \in Ids : OnMessage(m) \/ RelayDelivers(m)
    \/ OutsideLoses

Spec == Init /\ [][Next]_vars
-----------------------------------------------------------------------------
TypeOK ==
    /\ TrackerTypeOK
    /\ pending \in Seq(Ids) /\ publishers \subseteq Ids
    /\ wakeup \in BOOLEAN /\ stopEvent \in BOOLEAN
    /\ wpc \in WorkerPCs /\ item \in Ids \cup {NoMessage} /\ status \in Statuses
    /\ signalled \in BOOLEAN
    /\ lpc \in {"idle", "interrupt", "notify", "join", "finish"} /\ started \in BOOLEAN
    /\ loop \in BOOLEAN /\ link \in BOOLEAN /\ npc \in {"idle", "interrupt", "wake"}
    /\ connected \in BOOLEAN /\ ready \in BOOLEAN
    /\ waiter \in {"none", "check", "blocked", "true", "false"}
    /\ target \in Ids \cup {NoMessage}
    /\ handed \subseteq Ids /\ acks \subseteq Ids
    /\ delivered \subseteq Ids /\ completed \subseteq Ids
    /\ told \in BOOLEAN /\ cut \in BOOLEAN /\ setbacks \in 0 .. MaxSetbacks

\* A message leaves the FIFO, and wait_for_delivery returns True for it, only after the
\* destination broker accepted that very message: late, duplicate and foreign
\* DeliveryAcks of earlier attempts never complete it (AckTracker.match, _complete_item).
AckedOnly ==
    /\ completed \subseteq delivered
    /\ waiter = "true" => target \in delivered

\* Once stop() has drawn its boundary under _commit_lock no message is removed until a
\* restart, though an ACK may already have been matched (sender.py:405, _complete_item).
NoCompletionAfterStop == [][stopEvent => completed' = completed]_vars

InAttempt == {"stopcheck", "publish", "puback", "wait", "settle", "unpublished", "unacked",
              "complete"}

\* An attempt finds the tracker free, so that begin() never raises, and from then on
\* the head of the FIFO, the attempt and the expectation are one message, whatever
\* failed, stopped or restarted before (_process_oldest_once, start).
AttemptExclusive ==
    /\ wpc = "begin" => expected = NoMessage
    /\ wpc \in InAttempt => pending # <<>> /\ item = Head(pending) /\ expected = item

\* An ACK that match() reported as matching is not given up by a timeout: only a
\* disconnect or a stop may void it (the boundary inside AckTracker.wait).
AckHonoured == wpc = "unacked" => ~ told \/ cut

\* stop() never has to sit out delivery_ack_timeout: a worker that waits for a
\* DeliveryAck after stop()'s interrupt is awake, also when the interrupt came before
\* begin() had cleared the event (begin, the second check of _stop_event).
StopNotBlocked == wpc = "wait" /\ stopEvent /\ lpc # "interrupt" => event

\* A worker sleeps through retry_interval only when it has to: if its wake-up is not
\* set, the reason it went to sleep for still holds, or its publisher or the callback that
\* made the connection ready is on the way to set it (_wakeup is cleared before the state
\* is read and set after it was changed).
NoLostWakeup ==
    wpc = "sleep" /\ ~ wakeup =>
        /\ status = "EMPTY" => ToSet(pending) \subseteq publishers
        /\ status = "NOT_READY" => ~ ConnectionReady \/ npc = "wake"

\* A wait_for_delivery without a timeout is never left blocked: its message is still
\* pending in a running Sender, or somebody is about to notify it.
NoLostNotify ==
    waiter = "blocked" =>
        /\ target \in ToSet(pending) \/ wpc = "notify"
        /\ stopEvent => lpc \in {"interrupt", "notify"}

\* No thread waits for a signal that was already given: not the worker that stop()
\* interrupts, not the worker that goes to sleep, not wait_for_delivery.
NoLostSignal == StopNotBlocked /\ NoLostWakeup /\ NoLostNotify
=============================================================================
