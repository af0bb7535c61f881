------------------------------- MODULE Relay -------------------------------
(***************************************************************************)
(* The Relay of src/reliomq/relay.py: the source client's thread takes     *)
(* messages in, a worker publishes each one to the destination broker and  *)
(* only then a DeliveryAck to the source; start() and stop() hand over the *)
(* bounded volatile queue.  Both brokers are the environment.              *)
(***************************************************************************)
EXTENDS Integers, Sequences, FiniteSets, SequencesExt

CONSTANTS
    Ids, NoMessage,
    Workers,        \* names for worker threads; a dead one's is reused
    MaxQueue,       \* max_queue_size
    Concurrent,     \* start() and stop() may be called from two threads at once
    SlowJoins,      \* a worker may outlast stop()'s patience
    MaxSetbacks     \* bound: lost connections, failed starts, slow joins

ASSUME RelayAssumption ==
    /\ NoMessage \notin Ids /\ "none" \notin Workers /\ MaxQueue \in Nat \ {0}
    /\ Concurrent \in BOOLEAN /\ SlowJoins \in BOOLEAN /\ MaxSetbacks \in Nat

VARIABLES
    running, accepting, stopEvent, worker,   \* worker: _worker, or None
    tasks,                                   \* _tasks
    wpc, task,                               \* each worker thread: where it is, its envelope
    apc,                                     \* a start() in progress
    spc, joining,                            \* the stop() in progress and the worker it joins
    ipc,                                     \* _on_source_message after decoding
    source, dest,     \* the clients: [loop, link, connected]
    ready,            \* _source_subscription_ready
    inbound,          \* messages at the source broker for the Relay
    accepted,         \* history: messages the destination broker accepted
    acked,            \* DeliveryAcks the source broker may have accepted
    calm,             \* history: no lifecycle call overlapped another, no join timed out
    setbacks

threads == <<wpc, task>>
life    == <<running, accepting, stopEvent, worker, apc, spc, joining, calm>>
clients == <<source, dest, ready>>
brokers == <<inbound, accepted, acked>>
vars == <<threads, life, tasks, ipc, clients, brokers, setbacks>>

None == "none"
Setback == setbacks < MaxSetbacks /\ setbacks' = setbacks + 1

Down == [loop |-> FALSE, link |-> FALSE, connected |-> FALSE]

\* _client_is_connected.
Connected(client) == client.connected /\ client.link
-----------------------------------------------------------------------------
(* _worker_main and _forward_once.                                         *)

WorkerFrame == UNCHANGED <<life, ipc, clients, inbound, setbacks>>

Goto(w, from, to) == wpc[w] = from /\ wpc' = [wpc EXCEPT ![w] = to]

\* The loop's test and the next envelope; an empty queue is polled again.
TakeTask(w) ==
    /\ wpc[w] = "poll"
    /\ \/ /\ stopEvent /\ wpc' = [wpc EXCEPT ![w] = "dead"]
          /\ UNCHANGED <<task, tasks>>
       \/ /\ ~ stopEvent /\ tasks # <<>>
          /\ task' = [task EXCEPT ![w] = Head(tasks)] /\ tasks' = Tail(tasks)
          /\ wpc' = [wpc EXCEPT ![w] = "got"]
    /\ WorkerFrame /\ UNCHANGED <<accepted, acked>>

\* A stop or a missing destination abandons the envelope.
CheckDestination(w) ==
    /\ wpc[w] = "got"
    /\ \/ /\ stopEvent \/ ~ Connected(dest)
          /\ wpc' = [wpc EXCEPT ![w] = "poll"] /\ task' = [task EXCEPT ![w] = NoMessage]
       \/ /\ ~ stopEvent /\ Connected(dest)
          /\ wpc' = [wpc EXCEPT ![w] = "publish"] /\ UNCHANGED task
    /\ WorkerFrame /\ UNCHANGED <<tasks, accepted, acked>>

\* Mutant: the DeliveryAck does not depend on the PUBACK.
DestinationIgnored(w) ==
    /\ Goto(w, "publish", "confirmed")
    /\ accepted' \in {accepted, accepted \cup {task[w]}}
    /\ WorkerFrame /\ UNCHANGED <<task, tasks, acked>>

\* confirmed_publish to the destination: its PUBACK arrives ...
DestinationConfirms(w) ==
    /\ dest.link /\ Goto(w, "publish", "confirmed")
    /\ accepted' = accepted \cup {task[w]}
    /\ WorkerFrame /\ UNCHANGED <<task, tasks, acked>>

\* ... or not, though the broker may have the message.
DestinationFails(w) ==
    /\ Goto(w, "publish", "poll") /\ task' = [task EXCEPT ![w] = NoMessage]
    /\ accepted' \in {accepted, accepted \cup {task[w]}}
    /\ WorkerFrame /\ UNCHANGED <<tasks, acked>>

CheckSource(w) ==
    /\ wpc[w] = "confirmed"
    /\ \/ /\ Connected(source)
          /\ wpc' = [wpc EXCEPT ![w] = "ack"] /\ UNCHANGED task
       \/ /\ ~ Connected(source)
          /\ wpc' = [wpc EXCEPT ![w] = "poll"] /\ task' = [task EXCEPT ![w] = NoMessage]
    /\ WorkerFrame /\ UNCHANGED <<tasks, accepted, acked>>

\* confirmed_publish of the DeliveryAck; unconfirmed, it may have been sent or not.
SendAck(w) ==
    /\ Goto(w, "ack", "poll") /\ task' = [task EXCEPT ![w] = NoMessage]
    /\ acked' \in {acked, acked \cup {task[w]}}
    /\ WorkerFrame /\ UNCHANGED <<tasks, accepted>>

WorkerStep(w) ==
    \/ TakeTask(w) \/ CheckDestination(w) \/ DestinationConfirms(w) \/ DestinationFails(w)
    \/ CheckSource(w) \/ SendAck(w)
-----------------------------------------------------------------------------
(* The source client's thread.                                             *)

SourceFrame == UNCHANGED <<threads, life, dest, accepted, acked>>

\* _on_source_message: the early tests and the decoding ...
OnSourceMessage(m) ==
    /\ ipc = NoMessage /\ source.loop /\ source.link /\ m \in inbound
    /\ inbound' = inbound \ {m}
    /\ ipc' = IF accepting /\ ready THEN m ELSE NoMessage
    /\ SourceFrame /\ UNCHANGED <<tasks, source, ready, setbacks>>

\* Mutant: the queue is not bounded.
MayEnqueueMore == accepting /\ ready

\* Mutant: the acceptance is not tested again under the lock.
MayEnqueueAnyway == Len(tasks) < MaxQueue

\* ... and the tests under the intake lock; a full queue drops the message.
MayEnqueue == accepting /\ ready /\ Len(tasks) < MaxQueue

Enqueue ==
    /\ ipc # NoMessage /\ ipc' = NoMessage
    /\ tasks' = IF MayEnqueue THEN Append(tasks, ipc) ELSE tasks
    /\ SourceFrame /\ UNCHANGED <<source, ready, inbound, setbacks>>

OnSourceConnect ==
    /\ ipc = NoMessage /\ source.loop /\ ~ source.link /\ ~ source.connected
    /\ source' = [source EXCEPT !.link = TRUE, !.connected = TRUE] /\ ready' = FALSE
    /\ SourceFrame /\ UNCHANGED <<tasks, ipc, inbound, setbacks>>

\* The SUBACK of the source subscription, asked for only while accepting.
OnSourceSubscribe ==
    /\ ipc = NoMessage /\ source.loop /\ source.link /\ source.connected /\ ~ ready
    /\ ready' = TRUE
    /\ SourceFrame /\ UNCHANGED <<tasks, ipc, source, inbound, setbacks>>

OnSourceDisconnect ==
    /\ ipc = NoMessage /\ source.loop /\ ~ source.link /\ source.connected
    /\ source' = [source EXCEPT !.connected = FALSE] /\ ready' = FALSE
    /\ SourceFrame /\ UNCHANGED <<tasks, ipc, inbound, setbacks>>

SourceBreaks ==
    /\ source.link /\ Setback /\ source' = [source EXCEPT !.link = FALSE]
    /\ SourceFrame /\ UNCHANGED <<tasks, ipc, ready, inbound>>
-----------------------------------------------------------------------------
(* The destination client's thread.                                        *)

DestFrame == UNCHANGED <<threads, life, tasks, ipc, source, ready, brokers>>

OnDestinationConnect ==
    /\ dest.loop /\ ~ dest.link /\ ~ dest.connected
    /\ dest' = [dest EXCEPT !.link = TRUE, !.connected = TRUE]
    /\ DestFrame /\ UNCHANGED setbacks

OnDestinationDisconnect ==
    /\ dest.loop /\ ~ dest.link /\ dest.connected
    /\ dest' = [dest EXCEPT !.connected = FALSE]
    /\ DestFrame /\ UNCHANGED setbacks

DestinationBreaks ==
    /\ dest.link /\ Setback /\ dest' = [dest EXCEPT !.link = FALSE]
    /\ DestFrame

\* A Sender's message reaches the source broker, again and again.
Arrive(m) ==
    /\ m \notin inbound /\ inbound' = inbound \cup {m}
    /\ UNCHANGED <<threads, life, tasks, ipc, clients, accepted, acked, setbacks>>
-----------------------------------------------------------------------------
(* start().                                                                *)

LifeFrame == UNCHANGED <<ipc, brokers>>

MayCall == Concurrent \/ (apc = "idle" /\ spc = "idle")

Dead(w) == wpc[w] = "dead"

StartBegins ==
    /\ MayCall /\ apc = "idle" /\ ~ running
    /\ running' = TRUE /\ stopEvent' = FALSE /\ accepting' = TRUE
    /\ \E w \in Workers : /\ Dead(w) /\ worker' = w
                          /\ wpc' = [wpc EXCEPT ![w] = "poll"]
    /\ apc' = "destination"
    /\ calm' = (calm /\ spc = "idle")
    /\ LifeFrame /\ UNCHANGED <<task, tasks, spc, joining, clients, setbacks>>

StartConnects ==
    \/ /\ apc = "destination" /\ apc' = "source"
       /\ dest' = [dest EXCEPT !.loop = TRUE]
       /\ LifeFrame
       /\ UNCHANGED <<threads, tasks, running, accepting, stopEvent, worker, spc, joining,
                      calm, source, ready, setbacks>>
    \/ /\ apc = "source" /\ apc' = "idle"
       /\ source' = [source EXCEPT !.loop = TRUE]
       /\ LifeFrame
       /\ UNCHANGED <<threads, tasks, running, accepting, stopEvent, worker, spc, joining,
                      calm, dest, ready, setbacks>>

(* stop().  A second caller finds _running cleared and returns; two calls   *)
(* past that test at once, with a start() between them, are not modelled.  *)

StopSignals ==
    /\ running' = FALSE /\ accepting' = FALSE /\ ready' = FALSE /\ stopEvent' = TRUE
    /\ joining' = worker /\ spc' = "join"
    /\ LifeFrame /\ UNCHANGED <<threads, tasks, worker, source, dest>>

StopBegins ==
    /\ MayCall /\ running /\ spc = "idle"
    /\ calm' = (calm /\ apc = "idle")
    /\ StopSignals /\ UNCHANGED <<apc, setbacks>>

\* start() cannot connect and stops what it started, unless a stop() did so meanwhile.
StartFails ==
    /\ apc \in {"destination", "source"} /\ Setback /\ apc' = "idle"
    /\ UNCHANGED calm
    /\ \/ running /\ spc = "idle" /\ StopSignals
       \/ /\ ~ running /\ LifeFrame
          /\ UNCHANGED <<threads, tasks, running, accepting, stopEvent, worker, spc, joining,
                         clients>>

\* Mutant: stop() does not wait for the worker.
JoinSkipped == UNCHANGED <<calm, setbacks>>

\* The worker has ended, or the join times out: the worker hangs in a publish, or a
\* start() has cleared the stop it was to notice.
JoinReturns ==
    \/ joining = None /\ UNCHANGED <<calm, setbacks>>
    \/ joining # None /\ (Dead(joining) \/ ~ stopEvent) /\ UNCHANGED <<calm, setbacks>>
    \/ /\ joining # None /\ stopEvent /\ SlowJoins /\ wpc[joining] \in {"publish", "ack"}
       /\ Setback /\ calm' = FALSE

StopJoins ==
    /\ spc = "join" /\ spc' = "drain"
    /\ JoinReturns
    /\ LifeFrame
    /\ UNCHANGED <<threads, tasks, running, accepting, stopEvent, worker, apc, joining, clients>>

StopDrains ==
    /\ spc = "drain" /\ spc' = "disconnect" /\ tasks' = <<>>
    /\ LifeFrame
    /\ UNCHANGED <<threads, running, accepting, stopEvent, worker, apc, joining, calm,
                   clients, setbacks>>

\* disconnect() and loop_stop(), which joins the network thread, first of the source ...
StopDisconnects ==
    \/ /\ spc = "disconnect" /\ ipc = NoMessage /\ spc' = "disconnect_destination"
       /\ source' = [source EXCEPT !.loop = FALSE, !.link = FALSE]
       /\ LifeFrame
       /\ UNCHANGED <<threads, tasks, running, accepting, stopEvent, worker, apc, joining,
                      calm, dest, ready, setbacks>>
    \* ... then of the destination client.
    \/ /\ spc = "disconnect_destination" /\ spc' = "rejoin"
       /\ dest' = [dest EXCEPT !.loop = FALSE, !.link = FALSE]
       /\ LifeFrame
       /\ UNCHANGED <<threads, tasks, running, accepting, stopEvent, worker, apc, joining,
                      calm, source, ready, setbacks>>

StopFinishes ==
    /\ spc = "rejoin" /\ spc' = "idle"
    /\ JoinReturns
    /\ source' = [source EXCEPT !.connected = FALSE]
    /\ dest' = [dest EXCEPT !.connected = FALSE] /\ ready' = FALSE
    /\ worker' = None /\ joining' = None
    /\ LifeFrame /\ UNCHANGED <<threads, tasks, running, accepting, stopEvent, apc>>

StopStep == StopJoins \/ StopDrains \/ StopDisconnects \/ StopFinishes
-----------------------------------------------------------------------------
Init ==
    /\ running = FALSE /\ accepting = FALSE /\ stopEvent = FALSE /\ worker = None
    /\ tasks = <<>> /\ wpc = [w \in Workers |-> "dead"] /\ task = [w \in Workers |-> NoMessage]
    /\ apc = "idle" /\ spc = "idle" /\ joining = None /\ ipc = NoMessage
    /\ source = Down /\ dest = Down /\ ready = FALSE
    /\ inbound = {} /\ accepted = {} /\ acked = {} /\ calm = TRUE /\ setbacks = 0

Next ==
    \/ \E w \in Workers : WorkerStep(w)
    \/ \E m \in Ids : OnSourceMessage(m) \/ Arrive(m)
    \/ Enqueue \/ OnSourceConnect \/ OnSourceSubscribe \/ OnSourceDisconnect \/ SourceBreaks
    \/ OnDestinationConnect \/ OnDestinationDisconnect \/ DestinationBreaks
    \/ StartBegins \/ StartConnects \/ StartFails \/ StopBegins \/ StopStep

Spec == Init /\ [][Next]_vars
-----------------------------------------------------------------------------
TypeOK ==
    /\ running \in BOOLEAN /\ accepting \in BOOLEAN /\ stopEvent \in BOOLEAN
    /\ worker \in Workers \cup {None} /\ joining \in Workers \cup {None}
    /\ tasks \in Seq(Ids) /\ Len(tasks) <= MaxQueue
    /\ wpc \in [Workers -> {"dead", "poll", "got", "publish", "confirmed", "ack"}]
    /\ task \in [Workers -> Ids \cup {NoMessage}]
    /\ apc \in {"idle", "destination", "source"}
    /\ spc \in {"idle", "join", "drain", "disconnect", "disconnect_destination", "rejoin"}
    /\ ipc \in Ids \cup {NoMessage}
    /\ source \in [loop : BOOLEAN, link : BOOLEAN, connected : BOOLEAN]
    /\ dest \in [loop : BOOLEAN, link : BOOLEAN, connected : BOOLEAN]
    /\ ready \in BOOLEAN
    /\ inbound \subseteq Ids /\ accepted \subseteq Ids /\ acked \subseteq Ids
    /\ calm \in BOOLEAN /\ setbacks \in 0 .. MaxSetbacks

\* The Relay's one promise to Senders: no DeliveryAck leaves it for a message the
\* destination broker has not accepted, whatever timeouts, disconnects, overlapping
\* lifecycle calls and even a second worker do (_forward_once).
AckTruthful == acked \subseteq accepted

\* One worker serializes all destination publishes (relay.py, class docstring), through
\* any sequence of starts, failed starts and stops in which no stop had to give up on a
\* worker and no lifecycle call overlapped another.
OneWorker == calm => \A v, w \in Workers : ~ Dead(v) /\ ~ Dead(w) => v = w

\* Nothing is left of a Relay whose stop() has returned: no worker, no network loop, no
\* readiness, and an empty queue though a callback may have begun to decode a message
\* before the stop (the intake lock of _on_source_message and stop).
StopQuiesces ==
    ~ running /\ spc = "idle" =>
        /\ \A w \in Workers : Dead(w)
        /\ ~ source.loop /\ ~ dest.loop /\ ~ ready
        /\ tasks = <<>> /\ ipc = NoMessage

\* A Relay that has started and is not being stopped runs: its worker exists and both
\* network loops serve it.
RunningServes ==
    running /\ apc = "idle" /\ spc = "idle" =>
        /\ worker # None /\ ~ stopEvent /\ ~ Dead(worker)
        /\ source.loop /\ dest.loop

\* "Repeated lifecycle calls are safe, and a stopped relay can be started again with an
\* empty volatile task queue" (relay.py, class docstring): is_running tells the truth
\* either way, as long as no stop had to give up on a worker and no lifecycle call
\* overlapped another.
LifecycleHonest == calm => StopQuiesces /\ RunningServes
=============================================================================
