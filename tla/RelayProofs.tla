---------------------------- MODULE RelayProofs ----------------------------
(***************************************************************************)
(* The Relay acknowledges only what the destination has accepted, and its  *)
(* queue stays within max_queue_size: for every number of messages and of  *)
(* workers, for lifecycle calls that overlap and for joins that time out.  *)
(***************************************************************************)
EXTENDS Relay, TLAPS

\* The threads and the queue they share.
Shapes ==
    /\ wpc \in [Workers -> {"dead", "poll", "got", "publish", "confirmed", "ack"}]
    /\ task \in [Workers -> Ids \cup {NoMessage}]
    /\ ipc \in Ids \cup {NoMessage}
    /\ tasks \in Seq(Ids) /\ Len(tasks) <= MaxQueue

\* A worker past the destination's PUBACK holds a message that the destination has.
Confirmation == \A w \in Workers : wpc[w] \in {"confirmed", "ack"} => task[w] \in accepted

RInv == Shapes /\ Confirmation /\ AckTruthful
-----------------------------------------------------------------------------
\* A new Relay satisfies the invariant.
LEMMA InitInv == Init => RInv
<1> SUFFICES ASSUME Init PROVE RInv
  OBVIOUS
<1>1. <<>> \in Seq(Ids) /\ Len(<<>>) = 0
  OBVIOUS
<1>2. tasks \in Seq(Ids) /\ Len(tasks) <= MaxQueue
  BY <1>1, RelayAssumption DEF Init
<1> QED BY <1>2 DEF Init, RInv, Shapes, Confirmation, AckTruthful

\* A step of a worker preserves the invariant (_worker_main, _forward_once).
LEMMA WorkerInv == ASSUME RInv, NEW w \in Workers, WorkerStep(w) PROVE RInv'
<1> USE DEF RInv, Shapes, Confirmation, AckTruthful, WorkerFrame, Goto
<1>1. CASE TakeTask(w)
  <2>1. CASE stopEvent /\ wpc' = [wpc EXCEPT ![w] = "dead"] /\ UNCHANGED <<task, tasks>>
    BY <1>1, <2>1 DEF TakeTask
  <2>2. CASE /\ tasks # <<>> /\ tasks' = Tail(tasks)
             /\ task' = [task EXCEPT ![w] = Head(tasks)] /\ wpc' = [wpc EXCEPT ![w] =
                 "got"]
    <3>1. /\ Head(tasks) \in Ids /\ Tail(tasks) \in Seq(Ids)
          /\ Len(Tail(tasks)) = Len(tasks) - 1
      BY <2>2
    <3>2. tasks' \in Seq(Ids) /\ Len(tasks') <= MaxQueue
      BY <2>2, <3>1, RelayAssumption
    <3>3. Confirmation' /\ AckTruthful'
      BY <1>1, <2>2 DEF TakeTask
    <3> QED BY <1>1, <2>2, <3>1, <3>2, <3>3 DEF TakeTask
  <2> QED BY <1>1, <2>1, <2>2 DEF TakeTask
<1>2. CASE CheckDestination(w)
  BY <1>2 DEF CheckDestination
<1>3. CASE DestinationConfirms(w)
  BY <1>3 DEF DestinationConfirms
<1>4. CASE DestinationFails(w)
  BY <1>4 DEF DestinationFails
<1>5. CASE CheckSource(w)
  BY <1>5 DEF CheckSource
<1>6. CASE SendAck(w)
  BY <1>6 DEF SendAck
<1> QED BY <1>1, <1>2, <1>3, <1>4, <1>5, <1>6 DEF WorkerStep

\* The callbacks of both clients preserve the invariant; only Enqueue touches the queue.
LEMMA ClientInv ==
    ASSUME RInv,
           \/ \E m \in Ids : OnSourceMessage(m) \/ Arrive(m)
           \/ Enqueue \/ OnSourceConnect \/ OnSourceSubscribe \/ OnSourceDisconnect
           \/ SourceBreaks \/ OnDestinationConnect \/ OnDestinationDisconnect
           \/ DestinationBreaks
    PROVE  RInv'
<1> USE DEF RInv, Shapes, Confirmation, AckTruthful, SourceFrame, DestFrame, threads,
    brokers
<1>1. ASSUME NEW m \in Ids, OnSourceMessage(m) PROVE RInv'
  BY <1>1 DEF OnSourceMessage
<1>2. ASSUME NEW m \in Ids, Arrive(m) PROVE RInv'
  BY <1>2 DEF Arrive
<1>3. CASE Enqueue
  <2>1. ipc \in Ids
    BY <1>3 DEF Enqueue
  <2>2. Append(tasks, ipc) \in Seq(Ids) /\ Len(Append(tasks, ipc)) = Len(tasks) + 1
    BY <2>1
  <2>3. tasks' \in Seq(Ids) /\ Len(tasks') <= MaxQueue
    BY <1>3, <2>2, RelayAssumption DEF Enqueue, MayEnqueue
  <2> QED BY <1>3, <2>3 DEF Enqueue
<1>4. CASE OnSourceConnect \/ OnSourceSubscribe \/ OnSourceDisconnect \/ SourceBreaks
  BY <1>4 DEF OnSourceConnect, OnSourceSubscribe, OnSourceDisconnect, SourceBreaks
<1>5. CASE OnDestinationConnect \/ OnDestinationDisconnect \/ DestinationBreaks
  BY <1>5 DEF OnDestinationConnect, OnDestinationDisconnect, DestinationBreaks
<1> QED BY <1>1, <1>2, <1>3, <1>4, <1>5

\* start(), stop() and their overlaps preserve the invariant.
LEMMA LifecycleInv ==
    ASSUME RInv, StartBegins \/ StartConnects \/ StartFails \/ StopBegins \/ StopStep
    PROVE  RInv'
<1> USE DEF RInv, Shapes, Confirmation, AckTruthful, LifeFrame, threads, brokers
<1>1. CASE StartBegins
  BY <1>1 DEF StartBegins, Dead
<1>2. CASE StartConnects
  BY <1>2 DEF StartConnects
<1>3. CASE StartFails
  BY <1>3 DEF StartFails, StopSignals
<1>4. CASE StopBegins
  BY <1>4 DEF StopBegins, StopSignals
<1>5. CASE StopJoins
  BY <1>5 DEF StopJoins
<1>6. CASE StopDrains
  <2>1. <<>> \in Seq(Ids) /\ Len(<<>>) = 0
    OBVIOUS
  <2>2. tasks' \in Seq(Ids) /\ Len(tasks') <= MaxQueue
    BY <1>6, <2>1, RelayAssumption DEF StopDrains
  <2> QED BY <1>6, <2>2 DEF StopDrains
<1>7. CASE StopDisconnects
  BY <1>7 DEF StopDisconnects
<1>8. CASE StopFinishes
  BY <1>8 DEF StopFinishes
<1> QED BY <1>1, <1>2, <1>3, <1>4, <1>5, <1>6, <1>7, <1>8 DEF StopStep

\* The invariant holds in every reachable state.
THEOREM Invariance == Spec => []RInv
<1>1. ASSUME RInv, [Next]_vars PROVE RInv'
  <2>1. CASE UNCHANGED vars
    BY <1>1, <2>1 DEF RInv, Shapes, Confirmation, AckTruthful, vars, threads, brokers
  <2> QED BY <1>1, <2>1, WorkerInv, ClientInv, LifecycleInv DEF Next
<1> QED BY InitInv, <1>1, PTL DEF Spec

\* AckTruthful: no DeliveryAck leaves the Relay for a message the destination has not
\* accepted, though stop() and start() overlap or two workers run (_forward_once).
THEOREM AcksAreTrue == Spec => []AckTruthful
<1>1. RInv => AckTruthful
  BY DEF RInv
<1> QED BY <1>1, Invariance, PTL

\* The volatile queue never holds more than max_queue_size messages (the intake lock of
\* _on_source_message).
THEOREM QueueBounded == Spec => [](Len(tasks) <= MaxQueue)
<1>1. RInv => Len(tasks) <= MaxQueue
  BY DEF RInv, Shapes
<1> QED BY <1>1, Invariance, PTL
-----------------------------------------------------------------------------
(* The lifecycle, as long as calls do not overlap and joins do not time out. *)

ClientStates == [loop : BOOLEAN, link : BOOLEAN, connected : BOOLEAN]
Clients == source \in ClientStates /\ dest \in ClientStates

\* What a stopped Relay is.
AtRest ==
    /\ tasks = <<>> /\ ipc = NoMessage
    /\ ~ source.loop /\ ~ dest.loop /\ ~ ready
    /\ \A w \in Workers : Dead(w)

\* Which worker lives and what start() and stop() have done so far.
Lifecycle ==
    /\ \A w \in Workers : ~ Dead(w) => w = worker
    /\ apc # "idle" => running
    /\ running => /\ spc = "idle" /\ ~ stopEvent
                  /\ worker \in Workers /\ ~ Dead(worker)
                  /\ apc # "destination" => dest.loop
                  /\ apc = "idle" => source.loop
    /\ ~ running => ~ accepting
    /\ spc # "idle" => ~ running /\ stopEvent /\ joining = worker /\ worker \in Workers
    /\ spc \in {"drain", "disconnect", "disconnect_destination", "rejoin"} => Dead(worker)
    /\ spc \in {"disconnect", "disconnect_destination", "rejoin"} => tasks = <<>>
    /\ spc \in {"disconnect_destination", "rejoin"} => ipc = NoMessage /\ ~ source.loop
    /\ spc = "rejoin" => ~ dest.loop
    /\ ~ running /\ spc = "idle" => AtRest

CInv == RInv /\ Clients /\ (calm => Lifecycle)

\* Every step leaves each client with its three flags.
LEMMA ClientsInv == ASSUME Clients, [Next]_vars PROVE Clients'
<1> USE DEF Clients, ClientStates, WorkerFrame, SourceFrame, DestFrame, life, clients
<1>1. ASSUME NEW w \in Workers, WorkerStep(w) PROVE Clients'
  BY <1>1, Zenon DEF WorkerStep, TakeTask, CheckDestination, DestinationConfirms,
      DestinationFails, CheckSource, SendAck
<1>2. ASSUME NEW m \in Ids, OnSourceMessage(m) \/ Arrive(m) PROVE Clients'
  BY <1>2, Zenon DEF OnSourceMessage, Arrive
<1>3. CASE Enqueue
  BY <1>3, Zenon DEF Enqueue
<1>4. CASE OnSourceConnect
  BY <1>4, Zenon DEF OnSourceConnect
<1>5. CASE OnSourceSubscribe
  BY <1>5, Zenon DEF OnSourceSubscribe
<1>6. CASE OnSourceDisconnect
  BY <1>6, Zenon DEF OnSourceDisconnect
<1>7. CASE SourceBreaks
  BY <1>7, Zenon DEF SourceBreaks
<1>8. CASE OnDestinationConnect
  BY <1>8, Zenon DEF OnDestinationConnect
<1>9. CASE OnDestinationDisconnect
  BY <1>9, Zenon DEF OnDestinationDisconnect
<1>10. CASE DestinationBreaks
  BY <1>10, Zenon DEF DestinationBreaks
<1>11. CASE StartBegins
  BY <1>11, Zenon DEF StartBegins
<1>12. CASE StartConnects
  BY <1>12, Zenon DEF StartConnects
<1>13. CASE StartFails
  BY <1>13, Zenon DEF StartFails, StopSignals
<1>14. CASE StopBegins
  BY <1>14, Zenon DEF StopBegins, StopSignals
<1>15. CASE StopJoins
  BY <1>15, Zenon DEF StopJoins
<1>16. CASE StopDrains
  BY <1>16, Zenon DEF StopDrains
<1>17. CASE StopDisconnects
  BY <1>17, Zenon DEF StopDisconnects
<1>18. CASE StopFinishes
  BY <1>18, Zenon DEF StopFinishes
<1>19. CASE UNCHANGED vars
  BY <1>19, Zenon DEF vars
<1> QED BY <1>1, <1>2, <1>3, <1>4, <1>5, <1>6, <1>7, <1>8, <1>9, <1>10, <1>11, <1>12,
      <1>13, <1>14, <1>15, <1>16, <1>17, <1>18, <1>19 DEF Next, StopStep

\* Every step preserves Lifecycle as long as the history stays calm.
LEMMA CalmStep == ASSUME CInv, calm, calm', [Next]_vars PROVE Lifecycle'
<1> USE RelayAssumption
    DEF CInv, RInv, Shapes, Clients, ClientStates, Lifecycle, AtRest, Dead, None, life,
        clients,
        threads, LifeFrame
<1>0. Clients'
  BY ClientsInv
<1>1. ASSUME NEW w \in Workers, TakeTask(w) PROVE Lifecycle'
  BY <1>0, <1>1 DEF TakeTask, Goto, WorkerFrame
<1>2. ASSUME NEW w \in Workers, CheckDestination(w) PROVE Lifecycle'
  BY <1>0, <1>2 DEF CheckDestination, Goto, WorkerFrame
<1>3. ASSUME NEW w \in Workers, DestinationConfirms(w) PROVE Lifecycle'
  BY <1>0, <1>3 DEF DestinationConfirms, Goto, WorkerFrame
<1>4. ASSUME NEW w \in Workers, DestinationFails(w) PROVE Lifecycle'
  BY <1>0, <1>4 DEF DestinationFails, Goto, WorkerFrame
<1>5. ASSUME NEW w \in Workers, CheckSource(w) PROVE Lifecycle'
  BY <1>0, <1>5 DEF CheckSource, Goto, WorkerFrame
<1>6. ASSUME NEW w \in Workers, SendAck(w) PROVE Lifecycle'
  BY <1>0, <1>6 DEF SendAck, Goto, WorkerFrame
<1>7. ASSUME NEW m \in Ids, OnSourceMessage(m) PROVE Lifecycle'
  BY <1>0, <1>7 DEF OnSourceMessage, SourceFrame
<1>8. ASSUME NEW m \in Ids, Arrive(m) PROVE Lifecycle'
  BY <1>0, <1>8 DEF Arrive, SourceFrame
<1>9. CASE Enqueue
  BY <1>0, <1>9 DEF Enqueue, MayEnqueue, SourceFrame
<1>10. CASE OnSourceConnect
  BY <1>0, <1>10 DEF OnSourceConnect, SourceFrame
<1>11. CASE OnSourceSubscribe
  BY <1>0, <1>11 DEF OnSourceSubscribe, SourceFrame
<1>12. CASE OnSourceDisconnect
  BY <1>0, <1>12 DEF OnSourceDisconnect, SourceFrame
<1>13. CASE SourceBreaks
  BY <1>0, <1>13 DEF SourceBreaks, SourceFrame
<1>14. CASE OnDestinationConnect
  BY <1>0, <1>14 DEF OnDestinationConnect, DestFrame
<1>15. CASE OnDestinationDisconnect
  BY <1>0, <1>15 DEF OnDestinationDisconnect, DestFrame
<1>16. CASE DestinationBreaks
  BY <1>0, <1>16 DEF DestinationBreaks, DestFrame
<1>17. CASE StartBegins
  BY <1>0, <1>17 DEF StartBegins
<1>18. CASE StartConnects
  BY <1>0, <1>18 DEF StartConnects
<1>19. CASE StartFails
  BY <1>0, <1>19 DEF StartFails, StopSignals
<1>20. CASE StopBegins
  BY <1>0, <1>20 DEF StopBegins, StopSignals
<1>21. CASE StopJoins
  BY <1>0, <1>21 DEF StopJoins, JoinReturns
<1>22. CASE StopDrains
  BY <1>0, <1>22 DEF StopDrains
<1>23. CASE StopDisconnects
  <2>1. CASE spc = "disconnect"
    <3>1. /\ spc' = "disconnect_destination" /\ ipc = NoMessage
          /\ source' = [source EXCEPT !.loop = FALSE, !.link = FALSE]
          /\ UNCHANGED <<threads, tasks, running, accepting, stopEvent, worker, apc, joining,
                         calm, dest, ready, ipc>>
      BY <1>23, <2>1 DEF StopDisconnects, LifeFrame
    <3> QED BY <1>0, <2>1, <3>1
  <2>2. CASE spc = "disconnect_destination"
    <3>1. /\ spc' = "rejoin" /\ dest' = [dest EXCEPT !.loop = FALSE, !.link = FALSE]
          /\ UNCHANGED <<threads, tasks, running, accepting, stopEvent, worker, apc, joining,
                         calm, source, ready, ipc>>
      BY <1>23, <2>2 DEF StopDisconnects, LifeFrame
    <3>2. ~ dest'.loop
      BY <3>1
    <3> QED BY <1>0, <2>2, <3>1, <3>2
  <2> QED BY <1>23, <2>1, <2>2 DEF StopDisconnects
<1>24. CASE StopFinishes
  BY <1>0, <1>24 DEF StopFinishes, JoinReturns
<1>25. CASE UNCHANGED vars
  BY <1>0, <1>25 DEF vars
<1> QED BY <1>1, <1>2, <1>3, <1>4, <1>5, <1>6, <1>7, <1>8, <1>9, <1>10, <1>11, <1>12,
      <1>13, <1>14, <1>15, <1>16, <1>17, <1>18, <1>19, <1>20, <1>21, <1>22, <1>23,
      <1>24, <1>25 DEF Next, WorkerStep, StopStep

\* A calm history is calm before its last step too: nothing sets calm again.
LEMMA CalmBefore == ASSUME [Next]_vars, calm' PROVE calm
  BY DEF Next, vars, life, threads, clients, WorkerStep, TakeTask, CheckDestination,
      DestinationConfirms,
     DestinationFails, CheckSource, SendAck, WorkerFrame, OnSourceMessage, Arrive,
         Enqueue,
     OnSourceConnect, OnSourceSubscribe, OnSourceDisconnect, SourceBreaks, SourceFrame,
     OnDestinationConnect, OnDestinationDisconnect, DestinationBreaks, DestFrame,
         StartBegins,
     StartConnects, StartFails, StopBegins, StopSignals, StopStep, StopJoins, StopDrains,
     StopDisconnects, StopFinishes, JoinReturns

\* The lifecycle invariant holds in every reachable state.
THEOREM CalmInvariance == Spec => []CInv
<1>1. ASSUME Init PROVE CInv
  <2>1. Clients
    BY <1>1, Zenon DEF Init, Down, Clients, ClientStates
  <2>2. Lifecycle
    BY <1>1, RelayAssumption DEF Init, Down, Lifecycle, AtRest, Dead, None
  <2> QED BY <1>1, <2>1, <2>2, InitInv DEF CInv
<1>2. ASSUME RInv, CInv, [Next]_vars, RInv' PROVE CInv'
  <2>1. Clients'
    BY <1>2, ClientsInv DEF CInv
  <2>2. ASSUME calm' PROVE Lifecycle'
    BY <1>2, <2>2, CalmBefore, CalmStep
  <2> QED BY <1>2, <2>1, <2>2 DEF CInv
<1> QED BY <1>1, <1>2, Invariance, PTL DEF Spec

\* OneWorker: destination publishes are serialized as long as no stop gave up on a worker
\* and no lifecycle call overlapped another (start, stop).
THEOREM WorkersSerialized == Spec => []OneWorker
<1>1. CInv => OneWorker
  BY DEF CInv, Lifecycle, OneWorker
<1> QED BY <1>1, CalmInvariance, PTL

\* LifecycleHonest: a Relay that says it is running has its worker and both network loops;
\* a stop() that returned, after a failed start too, has left no worker, no loop, no
\* readiness and no message behind, and no callback about to enqueue one.
THEOREM RunningIsHonest == Spec => []LifecycleHonest
<1>1. CInv => LifecycleHonest
  BY RelayAssumption
  DEF CInv, Lifecycle, AtRest, LifecycleHonest, StopQuiesces, RunningServes, None
<1> QED BY <1>1, CalmInvariance, PTL
-----------------------------------------------------------------------------
(* Type correctness.                                                       *)

Flags == /\ running \in BOOLEAN /\ accepting \in BOOLEAN /\ stopEvent \in BOOLEAN
         /\ ready \in BOOLEAN /\ calm \in BOOLEAN

\* A worker with an envelope in hand has a message.
InHand == \A w \in Workers : wpc[w] \in {"got", "publish", "confirmed", "ack"} => task[w] \in Ids

Ranges ==
    /\ worker \in Workers \cup {None} /\ joining \in Workers \cup {None}
    /\ apc \in {"idle", "destination", "source"}
    /\ spc \in {"idle", "join", "drain", "disconnect", "disconnect_destination", "rejoin"}
    /\ inbound \subseteq Ids /\ accepted \subseteq Ids /\ acked \subseteq Ids
    /\ setbacks \in 0 .. MaxSetbacks
    /\ InHand

\* Every step leaves the flags Boolean.
LEMMA FlagsInv == ASSUME Flags, [Next]_vars PROVE Flags'
<1> USE DEF Flags, life, clients, threads
<1>1. ASSUME NEW w \in Workers, TakeTask(w) PROVE Flags'
  BY <1>1, Zenon DEF TakeTask, WorkerFrame
<1>2. ASSUME NEW w \in Workers, CheckDestination(w) PROVE Flags'
  BY <1>2, Zenon DEF CheckDestination, WorkerFrame
<1>3. ASSUME NEW w \in Workers, DestinationConfirms(w) PROVE Flags'
  BY <1>3, Zenon DEF DestinationConfirms, WorkerFrame, Goto
<1>4. ASSUME NEW w \in Workers, DestinationFails(w) PROVE Flags'
  BY <1>4, Zenon DEF DestinationFails, WorkerFrame, Goto
<1>5. ASSUME NEW w \in Workers, CheckSource(w) PROVE Flags'
  BY <1>5, Zenon DEF CheckSource, WorkerFrame
<1>6. ASSUME NEW w \in Workers, SendAck(w) PROVE Flags'
  BY <1>6, Zenon DEF SendAck, WorkerFrame, Goto
<1>7. ASSUME NEW m \in Ids, OnSourceMessage(m) PROVE Flags'
  BY <1>7, Zenon DEF OnSourceMessage, SourceFrame
<1>8. ASSUME NEW m \in Ids, Arrive(m) PROVE Flags'
  BY <1>8, Zenon DEF Arrive
<1>9. CASE Enqueue
  BY <1>9, Zenon DEF Enqueue, SourceFrame
<1>10. CASE OnSourceConnect
  BY <1>10, Zenon DEF OnSourceConnect, SourceFrame
<1>11. CASE OnSourceSubscribe
  BY <1>11, Zenon DEF OnSourceSubscribe, SourceFrame
<1>12. CASE OnSourceDisconnect
  BY <1>12, Zenon DEF OnSourceDisconnect, SourceFrame
<1>13. CASE SourceBreaks
  BY <1>13, Zenon DEF SourceBreaks, SourceFrame, Setback
<1>14. CASE OnDestinationConnect
  BY <1>14, Zenon DEF OnDestinationConnect, DestFrame
<1>15. CASE OnDestinationDisconnect
  BY <1>15, Zenon DEF OnDestinationDisconnect, DestFrame
<1>16. CASE DestinationBreaks
  BY <1>16, Zenon DEF DestinationBreaks, DestFrame, Setback
<1>17. CASE StartBegins
  BY <1>17, Zenon DEF StartBegins, LifeFrame
<1>18. CASE StartConnects
  BY <1>18, Zenon DEF StartConnects, LifeFrame
<1>19. CASE StartFails
  BY <1>19, Zenon DEF StartFails, LifeFrame, StopSignals, Setback
<1>20. CASE StopBegins
  BY <1>20, Zenon DEF StopBegins, LifeFrame, StopSignals
<1>21. CASE StopJoins
  BY <1>21, Zenon DEF StopJoins, LifeFrame, JoinReturns, Setback
<1>22. CASE StopDrains
  BY <1>22, Zenon DEF StopDrains, LifeFrame
<1>23. CASE StopDisconnects
  BY <1>23, Zenon DEF StopDisconnects, LifeFrame
<1>24. CASE StopFinishes
  BY <1>24, Zenon DEF StopFinishes, LifeFrame, JoinReturns, Setback
<1>25. CASE UNCHANGED vars
  BY <1>25, Zenon DEF vars
<1> QED
  BY <1>1, <1>2, <1>3, <1>4, <1>5, <1>6, <1>7, <1>8, <1>9, <1>10, <1>11, <1>12, <1>13,
     <1>14, <1>15, <1>16, <1>17, <1>18, <1>19, <1>20, <1>21, <1>22, <1>23, <1>24, <1>25
     DEF Next, WorkerStep, StopStep

\* Every step leaves the other variables in their ranges.
LEMMA RangesInv == ASSUME RInv, Ranges, [Next]_vars PROVE Ranges'
<1> USE RelayAssumption DEF RInv, Shapes, Ranges, InHand, life, clients, threads, brokers, None
<1>1. ASSUME NEW w \in Workers, TakeTask(w) PROVE Ranges'
  BY <1>1 DEF TakeTask, WorkerFrame
<1>2. ASSUME NEW w \in Workers, CheckDestination(w) PROVE Ranges'
  BY <1>2 DEF CheckDestination, WorkerFrame
<1>3. ASSUME NEW w \in Workers, DestinationConfirms(w) PROVE Ranges'
  BY <1>3 DEF DestinationConfirms, WorkerFrame, Goto
<1>4. ASSUME NEW w \in Workers, DestinationFails(w) PROVE Ranges'
  BY <1>4 DEF DestinationFails, WorkerFrame, Goto
<1>5. ASSUME NEW w \in Workers, CheckSource(w) PROVE Ranges'
  BY <1>5 DEF CheckSource, WorkerFrame
<1>6. ASSUME NEW w \in Workers, SendAck(w) PROVE Ranges'
  BY <1>6 DEF SendAck, WorkerFrame, Goto
<1>7. ASSUME NEW m \in Ids, OnSourceMessage(m) PROVE Ranges'
  BY <1>7 DEF OnSourceMessage, SourceFrame
<1>8. ASSUME NEW m \in Ids, Arrive(m) PROVE Ranges'
  BY <1>8 DEF Arrive
<1>9. CASE Enqueue
  BY <1>9 DEF Enqueue, SourceFrame
<1>10. CASE OnSourceConnect
  BY <1>10 DEF OnSourceConnect, SourceFrame
<1>11. CASE OnSourceSubscribe
  BY <1>11 DEF OnSourceSubscribe, SourceFrame
<1>12. CASE OnSourceDisconnect
  BY <1>12 DEF OnSourceDisconnect, SourceFrame
<1>13. CASE SourceBreaks
  BY <1>13 DEF SourceBreaks, SourceFrame, Setback
<1>14. CASE OnDestinationConnect
  BY <1>14 DEF OnDestinationConnect, DestFrame
<1>15. CASE OnDestinationDisconnect
  BY <1>15 DEF OnDestinationDisconnect, DestFrame
<1>16. CASE DestinationBreaks
  BY <1>16 DEF DestinationBreaks, DestFrame, Setback
<1>17. CASE StartBegins
  BY <1>17 DEF StartBegins, LifeFrame
<1>18. CASE StartConnects
  BY <1>18 DEF StartConnects, LifeFrame
<1>19. CASE StartFails
  BY <1>19 DEF StartFails, LifeFrame, StopSignals, Setback
<1>20. CASE StopBegins
  BY <1>20 DEF StopBegins, LifeFrame, StopSignals
<1>21. CASE StopJoins
  BY <1>21 DEF StopJoins, LifeFrame, JoinReturns, Setback
<1>22. CASE StopDrains
  BY <1>22 DEF StopDrains, LifeFrame
<1>23. CASE StopDisconnects
  BY <1>23 DEF StopDisconnects, LifeFrame
<1>24. CASE StopFinishes
  BY <1>24 DEF StopFinishes, LifeFrame, JoinReturns, Setback
<1>25. CASE UNCHANGED vars
  BY <1>25 DEF vars
<1> QED
  BY <1>1, <1>2, <1>3, <1>4, <1>5, <1>6, <1>7, <1>8, <1>9, <1>10, <1>11, <1>12, <1>13,
     <1>14, <1>15, <1>16, <1>17, <1>18, <1>19, <1>20, <1>21, <1>22, <1>23, <1>24, <1>25
     DEF Next, WorkerStep, StopStep

\* TypeOK: the variables of the Relay stay in their ranges; no worker forwards or
\* acknowledges anything but a message, though lifecycle calls overlap.
THEOREM TypeCorrect == Spec => []TypeOK
<1> DEFINE TInv == Clients /\ Flags /\ Ranges
<1>1. ASSUME Init PROVE TInv
  <2>1. Clients /\ Flags
    BY <1>1, Zenon DEF Init, Down, Clients, ClientStates, Flags
  <2>2. Ranges
    BY <1>1, RelayAssumption DEF Init, Ranges, InHand, None
  <2> QED BY <2>1, <2>2
<1>2. ASSUME RInv, TInv, [Next]_vars PROVE TInv'
  BY <1>2, ClientsInv, FlagsInv, RangesInv
<1>3. RInv /\ TInv => TypeOK
  BY DEF RInv, Shapes, Clients, ClientStates, Flags, Ranges, TypeOK
<1> QED BY <1>1, <1>2, <1>3, Invariance, PTL DEF Spec
=============================================================================
