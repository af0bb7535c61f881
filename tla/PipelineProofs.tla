--------------------------- MODULE PipelineProofs ---------------------------
(***************************************************************************)
(* Proofs about Sender and Relay together, for every set of messages, any  *)
(* number of Relay workers, losses and crashes: to the Sender, brokers and *)
(* Relay are what DeliveryWorker assumes of its outside, and the two       *)
(* processes implement Delivery, the promise to the application.           *)
(***************************************************************************)
EXTENDS Pipeline, SequenceTheorems, WellFoundedInduction, TLAPS

\* The messages between the Sender and the destination, and the ACKs on the way back.
OnTheWay == (handed \cup Held) \ {NoMessage}
Claims   == acks \cup Owed

\* The Relay's workers and its queue hold messages.
RelayInv ==
    /\ tasks \in Seq(Ids) /\ intake \in Ids \cup {NoMessage}
    /\ relayPc \in [Workers -> {"dead", "poll", "got", "publish", "confirmed", "ack"}]
    /\ task \in [Workers -> Ids \cup {NoMessage}]
    /\ \A w \in Workers :
          relayPc[w] \in {"got", "publish", "confirmed", "ack"} => task[w] \in Ids

\* The FIFO is a part of the accepted order, without gaps but for what was completed or
\* lost.
Distinct == \A i, j \in 1 .. Len(order) : order[i] = order[j] => i = j
LostAccepted == \A m \in lost : \E i \in 1 .. Len(order) : order[i] = m
PendingAccepted ==
    \A k \in 1 .. Len(pending) :
        pending[k] \notin lost /\ \E i \in 1 .. Len(order) : order[i] = pending[k]
Sorted(p, o) ==
    \A k, l \in 1 .. Len(p), i, j \in 1 .. Len(o) :
        k < l /\ o[i] = p[k] /\ o[j] = p[l] => i < j
PendingSorted == Sorted(pending, order)
NoGaps ==
    \A j \in 1 .. Len(order) :
        order[j] \in completed \cup lost \/ \E k \in 1 .. Len(pending) : pending[k] = order[j]

QueueInv ==
    /\ order \in Seq(Ids) /\ pending \in Seq(Ids)
    /\ Distinct /\ LostAccepted /\ PendingAccepted /\ PendingSorted /\ NoGaps

\* The worker's attempt is on the head of the FIFO.
AttemptInv ==
    /\ wpc \in {"ready", "begin"} \cup S!InAttempt => pending # <<>> /\ item = Head(pending)
    /\ wpc \in S!InAttempt => expected = item
    /\ wpc \notin S!InAttempt \cup {"notify", "end"} => expected = NoMessage

\* Every acknowledgement goes back to a delivery.
EvidenceInv ==
    /\ Claims \subseteq delivered /\ completed \subseteq delivered
    /\ matched => expected \in delivered
    /\ wpc = "complete" => matched

\* Whatever may still reach the destination comes behind nothing that has not.
OrderInv ==
    \A m \in OnTheWay : \E i \in 1 .. Len(order) :
        order[i] = m /\ Promise!Behind(i, delivered \cup lost)

PInv == RelayInv /\ QueueInv /\ AttemptInv /\ EvidenceInv /\ OrderInv
-----------------------------------------------------------------------------
(* Induction and recursion over positions, in terms of sets and functions. *)

LEMMA SetInduction ==
    ASSUME NEW Z, 0 \in Z, \A n \in Nat : n \in Z => n + 1 \in Z
    PROVE  Nat \subseteq Z
<1> SUFFICES ASSUME Nat \ Z # {}
             PROVE  FALSE
  OBVIOUS
<1> DEFINE T == Nat \ Z
<1>1. PICK t \in T : \A u \in T : ~ (<<u, t>> \in OpToRel(<, Nat))
  <2>1. T \subseteq Nat /\ T # {}
    OBVIOUS
  <2> QED
    BY <2>1, NatLessThanWellFounded, WFMin
<1>2. \A u \in T : ~ (u < t)
  BY <1>1, Zenon DEF OpToRel
<1>3. t \in Nat /\ t # 0
  OBVIOUS
<1>4. t - 1 \in Nat /\ t - 1 < t
  BY <1>3
<1>5. t - 1 \in Z
  BY <1>2, <1>4
<1>6. (t - 1) + 1 \in Z
  BY <1>4, <1>5
<1> QED
  BY <1>3, <1>6

\* f starts with x0 and follows Step up to N.
Solves(f, N, X, x0, Step) ==
    /\ f \in [0 .. N -> X] /\ f[0] = x0
    /\ \A k \in 1 .. N : f[k] = Step[k][f[k - 1]]

Steps(N, X) == [1 .. N -> [X -> X]]

LEMMA RecursionExists ==
    ASSUME NEW N \in Nat, NEW X, NEW x0 \in X, NEW Step \in Steps(N, X)
    PROVE  \E f : Solves(f, N, X, x0, Step)
<1> DEFINE Good(f, n) == f[0] = x0 /\ \A k \in 1 .. n : f[k] = Step[k][f[k - 1]]
           Z == {n \in Nat : n <= N => \E f \in [0 .. n -> X] : Good(f, n)}
<1>1. 0 \in Z
  <2> DEFINE f == [k \in 0 .. 0 |-> x0]
  <2>1. f \in [0 .. 0 -> X] /\ f[0] = x0
    OBVIOUS
  <2>2. \A k \in 1 .. 0 : FALSE
    OBVIOUS
  <2>3. Good(f, 0)
    BY <2>1, <2>2, Zenon
  <2> HIDE DEF f, Good
  <2> QED
    BY <2>1, <2>3
<1>2. \A n \in Nat : n \in Z => n + 1 \in Z
  <2> TAKE n \in Nat
  <2> HAVE n \in Z
  <2>0. n + 1 \in Nat
    OBVIOUS
  <2> SUFFICES ASSUME n + 1 <= N
               PROVE  \E f \in [0 .. n + 1 -> X] : Good(f, n + 1)
    BY <2>0, Zenon
  <2>1. n <= N /\ n + 1 \in 1 .. N
    OBVIOUS
  <2>2. PICK g \in [0 .. n -> X] : Good(g, n)
    BY <2>1
  <2> DEFINE v == Step[n + 1][g[n]]
             f == [k \in 0 .. n + 1 |-> IF k = n + 1 THEN v ELSE g[k]]
  <2>3. v \in X
    <3>1. n \in 0 .. n
      OBVIOUS
    <3>2. g[n] \in X
      BY <3>1
    <3>3. Step[n + 1] \in [X -> X]
      BY <2>1 DEF Steps
    <3> QED
      BY <3>2, <3>3
  <2>4. \A k \in 0 .. n : f[k] = g[k]
    OBVIOUS
  <2>5. f[n + 1] = v
    OBVIOUS
  <2>6. f \in [0 .. n + 1 -> X]
    <3> HIDE DEF v
    <3> QED
      BY <2>3
  <2> HIDE DEF f
  <2>7. \A k \in 1 .. n + 1 : f[k] = Step[k][f[k - 1]]
    <3> TAKE k \in 1 .. n + 1
    <3>1. k - 1 \in 0 .. n
      OBVIOUS
    <3>2. CASE k = n + 1
      BY <2>4, <2>5, <3>1, <3>2
    <3>3. CASE k # n + 1
      <4>1. k \in 1 .. n /\ k \in 0 .. n
        BY <3>3
      <4> QED
        BY <2>2, <2>4, <3>1, <4>1
    <3> QED
      BY <3>2, <3>3
  <2>8. f[0] = x0
    BY <2>2, <2>4
  <2> QED
    BY <2>6, <2>7, <2>8
<1>3. N \in Z
  <2> HIDE DEF Z
  <2> QED
    BY <1>1, <1>2, SetInduction
<1>4. PICK f \in [0 .. N -> X] : Good(f, N)
  BY <1>3
<1> QED
  BY <1>4 DEF Solves
-----------------------------------------------------------------------------
(* Sequences as sets.                                                      *)

LEMMA AppendSet ==
    ASSUME NEW s \in Seq(Ids), NEW m \in Ids
    PROVE  /\ Append(s, m) \in Seq(Ids) /\ Append(s, m) # <<>>
           /\ s # <<>> => Head(Append(s, m)) = Head(s)
           /\ ToSet(Append(s, m)) = ToSet(s) \cup {m}
<1>1. /\ Append(s, m) \in Seq(Ids) /\ Append(s, m) # <<>>
      /\ s # <<>> => Head(Append(s, m)) = Head(s)
  OBVIOUS
<1>2. /\ Len(Append(s, m)) = Len(s) + 1 /\ Append(s, m)[Len(s) + 1] = m
      /\ \A i \in 1 .. Len(s) : Append(s, m)[i] = s[i]
  OBVIOUS
<1>3. ToSet(Append(s, m)) \subseteq ToSet(s) \cup {m}
  <2> SUFFICES ASSUME NEW i \in 1 .. Len(s) + 1
               PROVE  Append(s, m)[i] \in ToSet(s) \cup {m}
    BY <1>1, <1>2 DEF ToSet
  <2>1. CASE i = Len(s) + 1
    BY <1>2, <2>1
  <2>2. CASE i \in 1 .. Len(s)
    BY <1>2, <2>2 DEF ToSet
  <2> QED BY <2>1, <2>2
<1>4. ToSet(s) \cup {m} \subseteq ToSet(Append(s, m))
  <2>1. ASSUME NEW i \in 1 .. Len(s) PROVE s[i] \in ToSet(Append(s, m))
    <3>1. i \in 1 .. Len(Append(s, m)) /\ Append(s, m)[i] = s[i]
      BY <1>2
    <3> QED BY <1>1, <3>1 DEF ToSet
  <2>2. m \in ToSet(Append(s, m))
    <3>1. Len(s) + 1 \in 1 .. Len(Append(s, m))
      BY <1>2
    <3> QED BY <1>1, <1>2, <3>1 DEF ToSet
  <2> QED BY <2>1, <2>2 DEF ToSet
<1> QED BY <1>1, <1>3, <1>4

LEMMA TailSet ==
    ASSUME NEW s \in Seq(Ids), s # <<>>
    PROVE  /\ Tail(s) \in Seq(Ids) /\ Head(s) \in Ids
           /\ ToSet(s) = ToSet(Tail(s)) \cup {Head(s)}
<1>1. Tail(s) \in Seq(Ids) /\ Head(s) \in Ids
  OBVIOUS
<1>2. ToSet(s) \subseteq ToSet(Tail(s)) \cup {Head(s)}
  <2> SUFFICES ASSUME NEW i \in 1 .. Len(s)
               PROVE  s[i] \in ToSet(Tail(s)) \cup {Head(s)}
    BY DEF ToSet
  <2>1. CASE i = 1
    BY <2>1
  <2>2. CASE i # 1
    <3>1. i - 1 \in DOMAIN Tail(s) /\ Tail(s)[i - 1] = s[i]
      BY <2>2
    <3>2. Tail(s)[i - 1] \in ToSet(Tail(s))
      BY <3>1, Zenon DEF ToSet
    <3> QED BY <3>1, <3>2
  <2> QED BY <2>1, <2>2
<1>3. ToSet(Tail(s)) \cup {Head(s)} \subseteq ToSet(s)
  <2>1. Head(s) \in ToSet(s)
    BY DEF ToSet
  <2>2. ASSUME NEW i \in 1 .. Len(Tail(s)) PROVE Tail(s)[i] \in ToSet(s)
    <3>1. i + 1 \in 1 .. Len(s) /\ Tail(s)[i] = s[i + 1]
      OBVIOUS
    <3> QED BY <3>1 DEF ToSet
  <2> QED BY <2>1, <2>2 DEF ToSet
<1> QED BY <1>1, <1>2, <1>3
-----------------------------------------------------------------------------
(* The Relay's steps, as the Sender sees them.                             *)

\* What the Relay may do between the brokers: nothing, lose, or deliver one message.
Loses == OnTheWay' \subseteq OnTheWay /\ Claims' \subseteq Claims /\ delivered' = delivered

Delivers(m) ==
    /\ m \in Ids /\ m \in OnTheWay /\ delivered' = delivered \cup {m}
    /\ OnTheWay' \in {OnTheWay, OnTheWay \ {m}} /\ Claims' \in {Claims, Claims \cup {m}}

\* The next envelope goes from the queue to the worker, and stays on its way.
LEMMA TakeTaskMoves ==
    ASSUME RelayInv, NEW w \in Workers, R!TakeTask(w), RelayFrame
    PROVE  RelayInv' /\ UNCHANGED setbacks /\ Loses
<1> USE DEF RelayFrame, sender, history, RelayInv, R!TakeTask, R!WorkerFrame, R!life,
            R!clients
<1>1. UNCHANGED <<handed, intake, acks, delivered, setbacks>>
  OBVIOUS
<1>2. CASE /\ relayStop /\ relayPc' = [relayPc EXCEPT ![w] = "dead"]
           /\ UNCHANGED <<task, tasks>>
  BY <1>1, <1>2 DEF Loses, OnTheWay, Claims, Held, Owed, InHand
<1>3. CASE /\ tasks # <<>> /\ task' = [task EXCEPT ![w] = Head(tasks)] /\ tasks' = Tail(tasks)
           /\ relayPc' = [relayPc EXCEPT ![w] = "got"]
  <2>1. /\ Tail(tasks) \in Seq(Ids) /\ Head(tasks) \in Ids
        /\ ToSet(tasks) = ToSet(Tail(tasks)) \cup {Head(tasks)}
    BY <1>3, TailSet
  <2> QED
    BY <1>1, <1>3, <2>1 DEF Loses, OnTheWay, Claims, Held, Owed, InHand
<1> QED
  BY <1>2, <1>3

LEMMA WorkerMoves ==
    ASSUME RelayInv, NEW w \in Workers, R!WorkerStep(w), RelayFrame
    PROVE  RelayInv' /\ UNCHANGED setbacks /\ (Loses \/ \E m \in Ids : Delivers(m))
<1> USE DEF RelayFrame, sender, history, RelayInv, R!WorkerFrame, R!life, R!clients,
            R!Goto, OnTheWay, Claims, Held, Owed, InHand
<1>1. CASE R!TakeTask(w)
  BY <1>1, TakeTaskMoves
<1>2. CASE R!CheckDestination(w)
  BY <1>2 DEF R!CheckDestination, Loses
<1>3. CASE R!DestinationConfirms(w)
  <2>1. Delivers(task[w])
    BY <1>3, PipelineAssumption DEF R!DestinationConfirms, Delivers
  <2>2. RelayInv' /\ UNCHANGED setbacks
    BY <1>3 DEF R!DestinationConfirms
  <2> QED
    BY <2>1, <2>2 DEF Delivers
<1>4. CASE R!DestinationFails(w)
  <2>1. CASE delivered' = delivered
    BY <1>4, <2>1 DEF R!DestinationFails, Loses
  <2>2. CASE delivered' = delivered \cup {task[w]}
    <3>1. Delivers(task[w])
      BY <1>4, <2>2, PipelineAssumption DEF R!DestinationFails, Delivers
    <3>2. RelayInv' /\ UNCHANGED setbacks
      BY <1>4 DEF R!DestinationFails
    <3> QED
      BY <3>1, <3>2 DEF Delivers
  <2> QED
    BY <1>4, <2>1, <2>2 DEF R!DestinationFails
<1>5. CASE R!CheckSource(w)
  BY <1>5 DEF R!CheckSource, Loses
<1>6. CASE R!SendAck(w)
  BY <1>6 DEF R!SendAck, Loses
<1> QED
  BY <1>1, <1>2, <1>3, <1>4, <1>5, <1>6 DEF R!WorkerStep

\* A message taken in goes to the callback and then to the queue, or is dropped.
LEMMA IntakeMoves ==
    ASSUME RelayInv, RelayFrame, (\E m \in Ids : R!OnSourceMessage(m)) \/ R!Enqueue
    PROVE  RelayInv' /\ UNCHANGED setbacks /\ Loses
<1> USE DEF RelayFrame, sender, history, RelayInv, R!SourceFrame, R!threads, R!life
<1>1. ASSUME NEW m \in Ids, R!OnSourceMessage(m)
      PROVE  RelayInv' /\ UNCHANGED setbacks /\ Loses
  BY <1>1 DEF R!OnSourceMessage, Loses, OnTheWay, Claims, Held, Owed, InHand
<1>2. CASE R!Enqueue
  <2>1. ASSUME intake \in Ids
        PROVE  Append(tasks, intake) \in Seq(Ids)
               /\ ToSet(Append(tasks, intake)) = ToSet(tasks) \cup {intake}
    BY <2>1, AppendSet
  <2> QED
    BY <1>2, <2>1 DEF R!Enqueue, Loses, OnTheWay, Claims, Held, Owed, InHand
<1> QED
  BY <1>1, <1>2

\* Connecting, disconnecting and starting move no message.
LEMMA QuietMoves ==
    ASSUME RelayInv, RelayFrame,
           \/ R!OnSourceConnect \/ R!OnSourceSubscribe \/ R!OnSourceDisconnect \/ R!SourceBreaks
           \/ R!OnDestinationConnect \/ R!OnDestinationDisconnect \/ R!DestinationBreaks
           \/ R!StartBegins \/ R!StartConnects
    PROVE  RelayInv' /\ UNCHANGED <<OnTheWay, Claims, delivered>>
<1> USE DEF RelayFrame, sender, history, RelayInv, R!SourceFrame, R!DestFrame, R!LifeFrame,
            R!threads, R!life, R!clients, R!brokers
<1>1. CASE R!StartBegins
  BY <1>1 DEF R!StartBegins, R!Dead, OnTheWay, Claims, Held, Owed, InHand
<1>2. CASE ~ R!StartBegins
  <2>1. UNCHANGED <<tasks, relayPc, task, intake, handed, acks, delivered>>
    BY <1>2 DEF R!OnSourceConnect, R!OnSourceSubscribe, R!OnSourceDisconnect, R!SourceBreaks,
                R!OnDestinationConnect, R!OnDestinationDisconnect, R!DestinationBreaks,
                R!StartConnects
  <2> QED
    BY <2>1 DEF OnTheWay, Claims, Held, Owed, InHand
<1> QED
  BY <1>1, <1>2

LEMMA RelayMoves ==
    ASSUME RelayInv, RelayStep
    PROVE  /\ RelayInv' /\ UNCHANGED <<sender, history>>
           /\ \/ UNCHANGED <<OnTheWay, Claims, delivered>>
              \/ UNCHANGED setbacks /\ (Loses \/ \E m \in Ids : Delivers(m))
<1>1. RelayFrame /\ UNCHANGED <<sender, history>>
  BY DEF RelayStep, RelayFrame
<1> QED
  BY <1>1, WorkerMoves, IntakeMoves, QuietMoves DEF RelayStep

\* The source broker drops a message that has no subscriber, the Relay dies.
LEMMA DropMoves ==
    ASSUME RelayInv, RelayCrashes \/ \E m \in Ids : MessageDropped(m)
    PROVE  RelayInv' /\ UNCHANGED <<sender, order, lost, setbacks>> /\ Loses
<1>1. CASE RelayCrashes
  <2>1. ToSet(<<>>) = {} /\ <<>> \in Seq(Ids)
    BY DEF ToSet
  <2> QED
    BY <1>1, <2>1 DEF RelayCrashes, RelayInv, Loses, OnTheWay, Claims, Held, Owed, InHand,
                      brokers
<1>2. ASSUME NEW m \in Ids, MessageDropped(m)
      PROVE  RelayInv' /\ UNCHANGED <<sender, order, lost, setbacks>> /\ Loses
  BY <1>2 DEF MessageDropped, RelayFrame, RelayInv, Loses, OnTheWay, Claims, Held, Owed,
              InHand, relay, history
<1> QED
  BY <1>1, <1>2
-----------------------------------------------------------------------------
(* The Sender's steps: brokers and Relay as its outside.                   *)

\* As long as the Relay does not move, neither does what it holds.
LEMMA RelayStill ==
    ASSUME UNCHANGED relay PROVE UNCHANGED <<Held, Owed>> /\ (RelayInv => RelayInv')
  BY DEF relay, Held, Owed, InHand, RelayInv

\* The worker publishes a message, as far as the brokers can tell.
LEMMA PublishView ==
    ASSUME PInv, S!PublishAttempt, UNCHANGED relay PROVE View!PublishAttempt
<1>1. item \in Ids
  BY TailSet DEF PInv, AttemptInv, QueueInv, S!PublishAttempt, S!InAttempt
<1>2. UNCHANGED <<Held, Owed>> /\ item # NoMessage
  BY <1>1, RelayStill, PipelineAssumption
<1> QED
  BY <1>2 DEF S!PublishAttempt, View!PublishAttempt, S!WorkerFrame, View!WorkerFrame,
              S!network, View!network, S!tracker, View!tracker, S!wait, View!wait,
              S!attempt, View!attempt

\* The steps of the Sender's threads are steps of DeliveryWorker with the Relay outside.
LEMMA SenderView ==
    ASSUME PInv, SenderStep PROVE View!Next
<1>1. UNCHANGED relay /\ UNCHANGED <<Held, Owed>>
  BY RelayStill DEF SenderStep, SenderFrame
<1> USE DEF S!WorkerFrame, View!WorkerFrame, S!network, View!network, S!tracker,
            View!tracker, S!wait, View!wait, S!attempt, View!attempt, S!outside, View!outside,
            S!worker, View!worker, S!NetworkFrame, View!NetworkFrame, S!Goto, View!Goto
<1>2. ASSUME S!WorkerStep PROVE View!WorkerStep
  <2>1. ASSUME S!Top PROVE View!Top
    BY <1>1, <2>1 DEF S!Top, View!Top
  <2>2. ASSUME S!Pick PROVE View!Pick
    BY <1>1, <2>2 DEF S!Pick, View!Pick, S!Setback, View!Setback
  <2>3. ASSUME S!CheckReady PROVE View!CheckReady
    BY <1>1, <2>3 DEF S!CheckReady, View!CheckReady, S!ConnectionReady, View!ConnectionReady
  <2>4. ASSUME S!BeginAttempt PROVE View!BeginAttempt
    BY <1>1, <2>4 DEF S!BeginAttempt, View!BeginAttempt, S!Begin, View!Begin
  <2>5. ASSUME S!StopCheck PROVE View!StopCheck
    BY <1>1, <2>5 DEF S!StopCheck, View!StopCheck
  <2>6. ASSUME S!PublishAttempt PROVE View!PublishAttempt
    BY <1>1, <2>6, PublishView
  <2>7. ASSUME S!PubackArrives PROVE View!PubackArrives
    BY <1>1, <2>7 DEF S!PubackArrives, View!PubackArrives
  <2>8. ASSUME S!PubackTimesOut PROVE View!PubackTimesOut
    BY <1>1, <2>8 DEF S!PubackTimesOut, View!PubackTimesOut
  <2>9. ASSUME S!EventWakes PROVE View!EventWakes
    BY <1>1, <2>9 DEF S!EventWakes, View!EventWakes
  <2>10. ASSUME S!Settle PROVE View!Settle
    BY <1>1, <2>10 DEF S!Settle, View!Settle, S!Confirmed, View!Confirmed, S!SettleWait,
                       View!SettleWait
  <2>11. ASSUME S!AttemptFails PROVE View!AttemptFails
    BY <1>1, <2>11 DEF S!AttemptFails, View!AttemptFails, S!Setback, View!Setback
  <2>12. ASSUME S!Complete PROVE View!Complete
    BY <1>1, <2>12 DEF S!Complete, View!Complete, S!Setback, View!Setback
  <2>13. ASSUME S!NotifyWaiters PROVE View!NotifyWaiters
    BY <1>1, <2>13 DEF S!NotifyWaiters, View!NotifyWaiters, S!Notify, View!Notify
  <2>14. ASSUME S!EndAttempt PROVE View!EndAttempt
    BY <1>1, <2>14 DEF S!EndAttempt, View!EndAttempt, S!End, View!End
  <2>15. ASSUME S!Decide PROVE View!Decide
    BY <1>1, <2>15 DEF S!Decide, View!Decide
  <2>16. ASSUME S!WakeUp PROVE View!WakeUp
    BY <1>1, <2>16 DEF S!WakeUp, View!WakeUp
  <2> QED
    BY <1>2, <2>1, <2>2, <2>3, <2>4, <2>5, <2>6, <2>7, <2>8, <2>9, <2>10, <2>11, <2>12,
       <2>13, <2>14, <2>15, <2>16, Zenon DEF S!WorkerStep, View!WorkerStep
<1>3. ASSUME S!Start PROVE View!Start
  BY <1>1, <1>3 DEF S!Start, View!Start, S!MayStart, View!MayStart
<1>4. ASSUME S!OnConnect PROVE View!OnConnect
  BY <1>1, <1>4 DEF S!OnConnect, View!OnConnect
<1>5. ASSUME S!OnSubscribe PROVE View!OnSubscribe
  BY <1>1, <1>5 DEF S!OnSubscribe, View!OnSubscribe
<1>11. ASSUME S!CallbackWakes PROVE View!CallbackWakes
  BY <1>1, <1>11 DEF S!CallbackWakes, View!CallbackWakes
<1>6. ASSUME S!MarkDisconnected PROVE View!MarkDisconnected
  BY <1>1, <1>6 DEF S!MarkDisconnected, View!MarkDisconnected, S!Setback, View!Setback
<1>7. ASSUME S!DisconnectInterrupts PROVE View!DisconnectInterrupts
  BY <1>1, <1>7 DEF S!DisconnectInterrupts, View!DisconnectInterrupts, S!Interrupt,
                    View!Interrupt
<1>8. ASSUME S!LinkBreaks PROVE View!LinkBreaks
  BY <1>1, <1>8 DEF S!LinkBreaks, View!LinkBreaks, S!Setback, View!Setback
<1>9. ASSUME NEW m \in Ids, S!PublishReturns(m) PROVE View!PublishReturns(m)
  BY <1>1, <1>9 DEF S!PublishReturns, View!PublishReturns
<1>10. ASSUME NEW m \in Ids, S!OnMessage(m) PROVE View!OnMessage(m)
  BY <1>1, <1>10 DEF S!OnMessage, View!OnMessage, S!Match, View!Match, S!Matches, View!Matches
<1> QED
  BY <1>2, <1>3, <1>4, <1>5, <1>6, <1>7, <1>8, <1>9, <1>10, <1>11, Zenon
     DEF SenderStep, View!Next

\* A loss or a delivery of the Relay is one of DeliveryWorker's outside.
LEMMA OutsideView ==
    ASSUME UNCHANGED <<sender, setbacks>>, Loses \/ \E m \in Ids : Delivers(m)
    PROVE  View!Next
<1>1. View!OutsideFrame
  BY DEF View!OutsideFrame, sender, tracker, View!tracker, View!worker, View!network,
         View!wait, View!attempt
<1>2. CASE Loses
  <2>1. View!OutsideLoses
    BY <1>1, <1>2 DEF View!OutsideLoses, Loses, OnTheWay, Claims
  <2> QED
    BY <2>1, Zenon DEF View!Next
<1>3. ASSUME NEW m \in Ids, Delivers(m) PROVE View!Next
  <2>1. View!RelayDelivers(m)
    BY <1>1, <1>3 DEF View!RelayDelivers, Delivers, OnTheWay, Claims
  <2> QED
    BY <2>1, Zenon DEF View!Next
<1> QED
  BY <1>2, <1>3

\* An ACK for a Sender that is not subscribed is dropped.
LEMMA AckDroppedMoves ==
    ASSUME NEW m \in Ids, AckDropped(m)
    PROVE  UNCHANGED <<sender, setbacks, relay, history, OnTheWay>> /\ Loses
<1>1. UNCHANGED <<sender, setbacks, relay, history, handed, delivered>> /\ acks' = acks \ {m}
  BY DEF AckDropped, SenderFrame
<1>2. UNCHANGED <<Held, Owed>>
  BY <1>1, RelayStill
<1> QED
  BY <1>1, <1>2 DEF Loses, OnTheWay, Claims

\* publish() appends to the FIFO, and to the order of acceptance.
LEMMA AcceptView ==
    ASSUME NEW m \in Ids, Accept(m)
    PROVE  View!Next /\ UNCHANGED <<OnTheWay, Claims, delivered>>
<1>1. UNCHANGED <<Held, Owed, handed, acks, delivered>>
  BY RelayStill DEF Accept, S!Publish, S!outside
<1>2. View!Publish(m)
  BY <1>1 DEF Accept, S!Publish, View!Publish, S!tracker, View!tracker, S!worker,
              View!worker, S!network, View!network, S!wait, View!wait, S!outside, View!outside,
              S!attempt, View!attempt, S!ToSet, View!ToSet
<1> QED
  BY <1>1, <1>2, Zenon DEF View!Next, OnTheWay, Claims

LEMMA ViewStep ==
    ASSUME PInv, [Next]_vars
    PROVE  [View!Next \/ SenderCrashes]_<<sender, View!outside>>
<1>0. View!outside = <<OnTheWay, Claims, delivered>>
  BY Zenon DEF View!outside, OnTheWay, Claims
<1>1. CASE SenderStep
  BY <1>1, SenderView
<1>2. CASE RelayStep
  <2>1. /\ UNCHANGED <<sender, history>>
        /\ \/ UNCHANGED <<OnTheWay, Claims, delivered>>
           \/ UNCHANGED setbacks /\ (Loses \/ \E m \in Ids : Delivers(m))
    BY <1>2, RelayMoves DEF PInv
  <2>2. CASE UNCHANGED <<OnTheWay, Claims, delivered>>
    BY <1>0, <2>1, <2>2 DEF View!outside, OnTheWay, Claims
  <2>3. CASE UNCHANGED setbacks /\ (Loses \/ \E m \in Ids : Delivers(m))
    BY <2>1, <2>3, OutsideView
  <2> QED
    BY <2>1, <2>2, <2>3
<1>3. ASSUME NEW m \in Ids, Accept(m) PROVE View!Next
  BY <1>3, AcceptView
<1>4. ASSUME NEW m \in Ids, AckDropped(m) PROVE View!Next
  BY <1>4, AckDroppedMoves, OutsideView
<1>5. ASSUME NEW m \in Ids, MessageDropped(m) PROVE View!Next
  BY <1>5, DropMoves, OutsideView DEF PInv
<1>6. CASE RelayCrashes
  BY <1>6, DropMoves, OutsideView DEF PInv
<1>7. CASE UNCHANGED vars
  BY <1>7 DEF vars, View!outside, relay, brokers, Held, Owed, InHand
<1> QED
  BY <1>1, <1>2, <1>3, <1>4, <1>5, <1>6, <1>7 DEF Next
-----------------------------------------------------------------------------
(* The FIFO and the order of acceptance.                                   *)

\* In front of the FIFO's head there are only completed and lost messages.
LEMMA HeadBehind ==
    ASSUME QueueInv, pending # <<>>
    PROVE  /\ Head(pending) \in Ids /\ Head(pending) \notin lost
           /\ \E i \in 1 .. Len(order) :
                 order[i] = Head(pending) /\ Promise!Behind(i, completed \cup lost)
<1>1. 1 \in 1 .. Len(pending) /\ Head(pending) = pending[1] /\ Head(pending) \in Ids
  BY DEF QueueInv
<1>2. PICK i \in 1 .. Len(order) : order[i] = pending[1]
  BY <1>1 DEF QueueInv, PendingAccepted
<1>3. ASSUME NEW j \in 1 .. i - 1 PROVE order[j] \in completed \cup lost
  <2>1. j \in 1 .. Len(order) /\ j < i
    BY <1>2 DEF QueueInv
  <2>2. ASSUME NEW k \in 1 .. Len(pending), pending[k] = order[j] PROVE FALSE
    <3>1. CASE k = 1
      BY <1>2, <2>1, <2>2, <3>1 DEF QueueInv, Distinct
    <3>2. CASE k # 1
      <4>1. 1 < k
        BY <3>2
      <4>2. i < j
        BY <1>1, <1>2, <2>1, <2>2, <4>1 DEF QueueInv, PendingSorted, Sorted
      <4> QED
        BY <1>2, <2>1, <4>2
    <3> QED
      BY <3>1, <3>2
  <2> QED
    BY <2>1, <2>2 DEF QueueInv, NoGaps
<1>4. Promise!Behind(i, completed \cup lost)
  BY <1>3 DEF Promise!Behind
<1> QED
  BY <1>1, <1>2, <1>4 DEF QueueInv, PendingAccepted

LEMMA QueueStill ==
    ASSUME QueueInv, UNCHANGED <<order, pending, completed, lost>> PROVE QueueInv'
<1>1. /\ UNCHANGED order /\ UNCHANGED pending /\ UNCHANGED completed /\ UNCHANGED lost
  OBVIOUS
<1>2. Distinct'
  BY <1>1 DEF QueueInv, Distinct
<1>3. LostAccepted'
  BY <1>1 DEF QueueInv, LostAccepted
<1>4. PendingAccepted'
  BY <1>1 DEF QueueInv, PendingAccepted
<1>5. PendingSorted'
  BY <1>1 DEF QueueInv, PendingSorted
<1>6. NoGaps'
  BY <1>1 DEF QueueInv, NoGaps
<1> QED
  BY <1>1, <1>2, <1>3, <1>4, <1>5, <1>6 DEF QueueInv

\* A completion takes the head.
LEMMA CompleteQueue ==
    ASSUME QueueInv, pending # <<>>, pending' = Tail(pending),
           completed' = completed \cup {Head(pending)}, UNCHANGED <<order, lost>>
    PROVE  QueueInv'
<1> DEFINE n == Len(pending)
<1>1. /\ n \in Nat \ {0} /\ Tail(pending) \in Seq(Ids) /\ Len(Tail(pending)) = n - 1
      /\ \A k \in 1 .. n - 1 : Tail(pending)[k] = pending[k + 1]
      /\ Head(pending) = pending[1]
  BY DEF QueueInv
<1>2. \A k \in 1 .. n - 1 : k + 1 \in 1 .. n
  BY <1>1
<1> HIDE DEF n
<1>3. order' \in Seq(Ids) /\ pending' \in Seq(Ids) /\ Len(pending') = n - 1
  BY <1>1 DEF QueueInv
<1>4. \A k \in 1 .. n - 1 : /\ pending'[k] \notin lost
                            /\ \E i \in 1 .. Len(order) : order[i] = pending'[k]
  BY <1>1, <1>2 DEF QueueInv, PendingAccepted, n
<1>5. \A k, l \in 1 .. n - 1, i, j \in 1 .. Len(order) :
          k < l /\ order[i] = pending'[k] /\ order[j] = pending'[l] => i < j
  <2> TAKE k, l \in 1 .. n - 1, i, j \in 1 .. Len(order)
  <2> HAVE k < l /\ order[i] = pending'[k] /\ order[j] = pending'[l]
  <2>1. /\ k + 1 \in 1 .. n /\ l + 1 \in 1 .. n /\ k + 1 < l + 1
        /\ order[i] = pending[k + 1] /\ order[j] = pending[l + 1]
    BY <1>1, <1>2
  <2> QED
    BY <2>1 DEF QueueInv, PendingSorted, Sorted, n
<1>6. ASSUME NEW j \in 1 .. Len(order)
      PROVE  \/ order[j] \in completed' \cup lost
             \/ \E k \in 1 .. n - 1 : pending'[k] = order[j]
  <2>1. CASE order[j] \in completed \cup lost
    BY <2>1
  <2>2. ASSUME NEW k \in 1 .. n, pending[k] = order[j]
        PROVE  \/ order[j] \in completed' \cup lost
               \/ \E l \in 1 .. n - 1 : pending'[l] = order[j]
    <3>1. CASE k = 1
      BY <1>1, <2>2, <3>1
    <3>2. CASE k # 1
      <4>1. k - 1 \in 1 .. n - 1 /\ (k - 1) + 1 = k
        BY <1>1, <3>2
      <4>2. pending'[k - 1] = pending[k]
        BY <1>1, <4>1
      <4> QED
        BY <2>2, <4>1, <4>2
    <3> QED
      BY <3>1, <3>2
  <2> QED
    BY <2>1, <2>2 DEF QueueInv, NoGaps, n
<1> QED
  <2>1. Distinct' /\ LostAccepted'
    BY DEF QueueInv, Distinct, LostAccepted
  <2>2. PendingAccepted'
    BY <1>3, <1>4 DEF PendingAccepted
  <2>3. PendingSorted'
    BY <1>3, <1>5 DEF PendingSorted, Sorted
  <2>4. NoGaps'
    BY <1>3, <1>6 DEF NoGaps
  <2> QED
    BY <1>3, <2>1, <2>2, <2>3, <2>4 DEF QueueInv

LEMMA SortedAppend ==
    ASSUME NEW p \in Seq(Ids), NEW o \in Seq(Ids), NEW m \in Ids, Sorted(p, o),
           \A k \in 1 .. Len(p) : p[k] # m, \A i \in 1 .. Len(o) : o[i] # m
    PROVE  Sorted(Append(p, m), Append(o, m))
<1> DEFINE P == Append(p, m)
           O == Append(o, m)
<1>1. /\ Len(p) \in Nat /\ Len(o) \in Nat /\ Len(O) = Len(o) + 1 /\ Len(P) = Len(p) + 1
      /\ O[Len(o) + 1] = m /\ P[Len(p) + 1] = m
      /\ \A i \in 1 .. Len(o) : O[i] = o[i]
      /\ \A k \in 1 .. Len(p) : P[k] = p[k]
  OBVIOUS
<1> HIDE DEF P, O
<1>2. SUFFICES ASSUME NEW k \in 1 .. Len(P), NEW l \in 1 .. Len(P),
                      NEW i \in 1 .. Len(O), NEW j \in 1 .. Len(O),
                      k < l, O[i] = P[k], O[j] = P[l]
               PROVE  i < j
  BY Zenon DEF Sorted, P, O
<1>3. k \in 1 .. Len(p)
  BY <1>1, <1>2
<1>4. i \in 1 .. Len(o)
  BY <1>1, <1>2, <1>3
<1>5. CASE l = Len(p) + 1
  <2>1. j = Len(o) + 1
    BY <1>1, <1>2, <1>5
  <2> QED
    BY <1>1, <1>4, <2>1
<1>6. CASE l # Len(p) + 1
  <2>1. l \in 1 .. Len(p)
    BY <1>1, <1>6
  <2>2. j \in 1 .. Len(o)
    BY <1>1, <1>2, <2>1
  <2> QED
    BY <1>1, <1>2, <1>3, <1>4, <2>1, <2>2 DEF Sorted
<1> QED
  BY <1>5, <1>6

\* publish() adds to the end of both.
LEMMA AcceptQueue ==
    ASSUME QueueInv, NEW m \in Ids, m \notin ToSet(order), pending' = Append(pending, m),
           order' = Append(order, m), UNCHANGED <<completed, lost>>
    PROVE  /\ QueueInv' /\ Len(order') = Len(order) + 1
           /\ \A i \in 1 .. Len(order) : order'[i] = order[i]
<1> DEFINE n == Len(pending)
           o == Len(order)
<1>1. /\ n \in Nat /\ o \in Nat /\ order' \in Seq(Ids) /\ pending' \in Seq(Ids)
      /\ Len(order') = o + 1 /\ Len(pending') = n + 1
      /\ order'[o + 1] = m /\ pending'[n + 1] = m
      /\ \A i \in 1 .. o : order'[i] = order[i]
      /\ \A k \in 1 .. n : pending'[k] = pending[k]
  BY DEF QueueInv
<1>2. \A i \in 1 .. o : order[i] # m
  BY DEF ToSet, QueueInv
<1>3. (\A i \in 1 .. o : i \in 1 .. o + 1 /\ i < o + 1) /\ o + 1 \in 1 .. o + 1
  BY <1>1
<1>4. \A i \in 1 .. o + 1 : i = o + 1 \/ i \in 1 .. o
  BY <1>1
<1>5. (\A k \in 1 .. n : k \in 1 .. n + 1) /\ n + 1 \in 1 .. n + 1
      /\ \A k \in 1 .. n + 1 : k = n + 1 \/ k \in 1 .. n
  BY <1>1
<1>6. (\A k \in 1 .. n : pending[k] # m) /\ m \notin lost
  BY <1>2 DEF QueueInv, LostAccepted, PendingAccepted
<1> HIDE DEF n, o
<1>7. \A i, j \in 1 .. o + 1 : order'[i] = order'[j] => i = j
  BY <1>1, <1>2, <1>4 DEF QueueInv, Distinct, o
<1>8. \A x \in lost : \E i \in 1 .. o + 1 : order'[i] = x
  BY <1>1, <1>3 DEF QueueInv, LostAccepted, o
<1>9. \A k \in 1 .. n + 1 : pending'[k] \notin lost /\ \E i \in 1 .. o + 1 : order'[i] = pending'[k]
  BY <1>1, <1>3, <1>5, <1>6 DEF QueueInv, PendingAccepted, o, n
<1>10. PendingSorted'
  <2>1. Sorted(Append(pending, m), Append(order, m))
    BY <1>2, <1>6, SortedAppend DEF QueueInv, PendingSorted, n, o
  <2> QED
    BY <2>1, Zenon DEF PendingSorted
<1>11. \A j \in 1 .. o + 1 : \/ order'[j] \in completed \cup lost
                             \/ \E k \in 1 .. n + 1 : pending'[k] = order'[j]
  BY <1>1, <1>4, <1>5 DEF QueueInv, NoGaps, o, n
<1>12. QueueInv'
  <2>1. Distinct'
    BY <1>1, <1>7 DEF Distinct
  <2>2. LostAccepted'
    BY <1>1, <1>8 DEF LostAccepted
  <2>3. PendingAccepted'
    BY <1>1, <1>9 DEF PendingAccepted
  <2>4. NoGaps'
    BY <1>1, <1>11 DEF NoGaps
  <2> QED
    BY <1>1, <1>10, <2>1, <2>2, <2>3, <2>4 DEF QueueInv
<1> QED
  BY <1>1, <1>12 DEF o
-----------------------------------------------------------------------------
(* What a crashed Sender recovers.                                         *)

LEMMA KeptDef ==
    ASSUME order \in Seq(Ids), NEW i \in Nat
    PROVE  \E g : /\ g \in [0 .. Len(order) -> Seq(Ids)]
                  /\ \A k \in 0 .. Len(order) :
                        g[k] = IF k <= i THEN <<>>
                               ELSE IF order[k] \in lost THEN g[k - 1]
                               ELSE Append(g[k - 1], order[k])
                  /\ \A n \in 0 .. Len(order) : Kept(i, n) = g[n]
<1> DEFINE List(g) == [k \in 0 .. Len(order) |->
                          IF k <= i THEN <<>>
                          ELSE IF order[k] \in lost THEN g[k - 1]
                          ELSE Append(g[k - 1], order[k])]
           Step == [k \in 1 .. Len(order) |-> [x \in Seq(Ids) |->
                       IF k <= i THEN <<>>
                       ELSE IF order[k] \in lost THEN x ELSE Append(x, order[k])]]
<1>1. Len(order) \in Nat /\ <<>> \in Seq(Ids) /\ \A k \in 1 .. Len(order) : order[k] \in Ids
  BY LenProperties, ElementOfSeq
<1>2. Step \in Steps(Len(order), Seq(Ids))
  <2>1. \A k \in 1 .. Len(order), x \in Seq(Ids) :
            (IF k <= i THEN <<>>
             ELSE IF order[k] \in lost THEN x ELSE Append(x, order[k])) \in Seq(Ids)
    BY <1>1, AppendProperties
  <2> QED
    BY <2>1, Zenon DEF Steps
<1>3. PICK f : Solves(f, Len(order), Seq(Ids), <<>>, Step)
  <2> HIDE DEF Step
  <2> QED
    BY <1>1, <1>2, RecursionExists, Zenon
<1>4. \A k \in 0 .. Len(order) :
          f[k] = IF k <= i THEN <<>>
                 ELSE IF order[k] \in lost THEN f[k - 1] ELSE Append(f[k - 1], order[k])
  <2> TAKE k \in 0 .. Len(order)
  <2>1. CASE k = 0
    BY <1>3, <2>1 DEF Solves
  <2>2. CASE k # 0
    <3>1. k \in 1 .. Len(order) /\ k - 1 \in 0 .. Len(order)
      BY <1>1, <2>2
    <3>2. f[k - 1] \in Seq(Ids)
      BY <1>3, <3>1 DEF Solves
    <3>3. f[k] = Step[k][f[k - 1]]
      BY <1>3, <3>1 DEF Solves
    <3> QED
      BY <2>2, <3>1, <3>2, <3>3
  <2> QED
    BY <2>1, <2>2
<1> HIDE DEF Step
<1>5. f = List(f)
  BY <1>3, <1>4 DEF Solves
<1> DEFINE g == CHOOSE h : h = List(h)
<1>6. g = List(g)
  <2> HIDE DEF List
  <2> QED
    BY <1>5, Zenon
<1>7. \A n \in 0 .. Len(order) : Kept(i, n) = g[n]
  BY Zenon DEF Kept
<1> HIDE DEF g
<1>8. \A k \in 0 .. Len(order) :
          g[k] = IF k <= i THEN <<>>
                 ELSE IF order[k] \in lost THEN g[k - 1] ELSE Append(g[k - 1], order[k])
  BY <1>6
<1>9. g \in [0 .. Len(order) -> Seq(Ids)]
  <2> DEFINE T == {k \in Nat : k <= Len(order) => g[k] \in Seq(Ids)}
  <2>1. 0 \in T
    <3>1. 0 \in 0 .. Len(order) /\ 0 <= i
      BY <1>1
    <3>2. g[0] = <<>>
      BY <1>8, <3>1
    <3> QED
      BY <1>1, <3>2
  <2>2. ASSUME NEW k \in Nat, k \in T PROVE k + 1 \in T
    <3> SUFFICES ASSUME k + 1 <= Len(order) PROVE g[k + 1] \in Seq(Ids)
      OBVIOUS
    <3>1. k + 1 \in 0 .. Len(order) /\ k + 1 \in 1 .. Len(order) /\ (k + 1) - 1 = k
          /\ g[k] \in Seq(Ids)
      BY <1>1, <2>2
    <3>2. Append(g[k], order[k + 1]) \in Seq(Ids)
      BY <1>1, <3>1, AppendProperties
    <3> QED
      BY <1>1, <1>8, <3>1, <3>2
  <2> HIDE DEF T
  <2>3. Nat \subseteq T
    BY <2>1, <2>2, SetInduction
  <2>4. \A k \in 0 .. Len(order) : g[k] \in Seq(Ids)
    BY <1>1, <2>3 DEF T
  <2> QED
    BY <1>6, <2>4
<1> QED
  BY <1>7, <1>8, <1>9

\* A recovered FIFO is what lies between its ends, less what was lost before.
KeptOf(q, i, n) ==
    /\ \A x \in 1 .. Len(q) : \E j \in i + 1 .. n : q[x] = order[j] /\ order[j] \notin lost
    /\ \A j \in i + 1 .. n : order[j] \in lost \/ \E x \in 1 .. Len(q) : q[x] = order[j]

LEMMA KeptStep ==
    ASSUME order \in Seq(Ids), Distinct, NEW i \in Nat, NEW k \in 1 .. Len(order), i < k,
           NEW q \in Seq(Ids), KeptOf(q, i, k - 1), Sorted(q, order), order[k] \notin lost
    PROVE  /\ KeptOf(Append(q, order[k]), i, k) /\ Sorted(Append(q, order[k]), order)
<1> DEFINE Q == Append(q, order[k])
<1>1. /\ Len(q) \in Nat /\ Len(Q) = Len(q) + 1 /\ Q[Len(q) + 1] = order[k]
      /\ \A x \in 1 .. Len(q) : Q[x] = q[x]
  BY ElementOfSeq
<1>2. Len(order) \in Nat /\ k \in i + 1 .. k
      /\ \A j \in i + 1 .. k - 1 : j \in 1 .. Len(order) /\ j < k /\ j \in i + 1 .. k
  BY LenProperties
<1> HIDE DEF Q
<1>3. \A x \in 1 .. Len(Q) : x \in 1 .. Len(q) \/ x = Len(q) + 1
  BY <1>1
<1>4. \A x \in 1 .. Len(Q) : \E j \in i + 1 .. k : Q[x] = order[j] /\ order[j] \notin lost
  BY <1>1, <1>2, <1>3 DEF KeptOf
<1>5. \A j \in i + 1 .. k : order[j] \in lost \/ \E x \in 1 .. Len(Q) : Q[x] = order[j]
  <2> TAKE j \in i + 1 .. k
  <2>1. CASE j = k
    BY <1>1, <2>1
  <2>2. CASE j # k
    <3>1. j \in i + 1 .. k - 1
      BY <2>2
    <3>2. order[j] \in lost \/ \E x \in 1 .. Len(q) : q[x] = order[j]
      BY <3>1 DEF KeptOf
    <3>3. \A x \in 1 .. Len(q) : x \in 1 .. Len(Q)
      BY <1>1
    <3> QED
      BY <1>1, <3>2, <3>3
  <2> QED
    BY <2>1, <2>2
<1>6. ASSUME NEW x \in 1 .. Len(Q), NEW y \in 1 .. Len(Q), NEW a \in 1 .. Len(order),
             NEW b \in 1 .. Len(order), x < y, order[a] = Q[x], order[b] = Q[y]
      PROVE  a < b
  <2>1. x \in 1 .. Len(q)
    BY <1>1, <1>6
  <2>2. CASE y = Len(q) + 1
    <3>1. b = k
      BY <1>1, <1>6, <2>2 DEF Distinct
    <3>2. PICK j \in i + 1 .. k - 1 : q[x] = order[j]
      BY <2>1 DEF KeptOf
    <3>3. a = j
      BY <1>1, <1>2, <1>6, <2>1, <3>2 DEF Distinct
    <3> QED
      BY <1>2, <3>1, <3>2, <3>3
  <2>3. CASE y # Len(q) + 1
    BY <1>1, <1>3, <1>6, <2>1, <2>3 DEF Sorted
  <2> QED
    BY <2>2, <2>3
<1>7. Sorted(Q, order)
  BY <1>6, Zenon DEF Sorted
<1>8. KeptOf(Q, i, k)
  BY <1>4, <1>5, Zenon DEF KeptOf
<1> QED
  BY <1>7, <1>8, Zenon DEF Q

LEMMA KeptFacts ==
    ASSUME order \in Seq(Ids), Distinct, NEW i \in 0 .. Len(order), NEW n \in 0 .. Len(order)
    PROVE  /\ Kept(i, n) \in Seq(Ids) /\ KeptOf(Kept(i, n), i, n)
           /\ Sorted(Kept(i, n), order)
<1>1. Len(order) \in Nat /\ i \in Nat
  BY LenProperties
<1>2. PICK g : /\ g \in [0 .. Len(order) -> Seq(Ids)]
               /\ \A k \in 0 .. Len(order) :
                     g[k] = IF k <= i THEN <<>>
                            ELSE IF order[k] \in lost THEN g[k - 1]
                            ELSE Append(g[k - 1], order[k])
               /\ \A k \in 0 .. Len(order) : Kept(i, k) = g[k]
  BY <1>1, KeptDef, Zenon
<1> DEFINE Good(k) == KeptOf(g[k], i, k) /\ Sorted(g[k], order)
           T == {k \in Nat : k <= Len(order) => Good(k)}
<1>3. ASSUME NEW k \in 0 .. Len(order), k <= i PROVE Good(k)
  <2>1. g[k] = <<>> /\ Len(<<>>) = 0
    BY <1>2, <1>3
  <2>2. \A j \in i + 1 .. k : FALSE
    BY <1>1, <1>3
  <2>3. \A x \in 1 .. 0 : FALSE
    OBVIOUS
  <2> QED
    BY <2>1, <2>2, <2>3 DEF KeptOf, Sorted
<1>4. 0 \in T
  <2>1. 0 \in 0 .. Len(order) /\ 0 <= i
    BY <1>1
  <2>2. Good(0)
    BY <1>3, <2>1
  <2> QED
    BY <2>2
<1>5. ASSUME NEW k \in Nat, k \in T PROVE k + 1 \in T
  <2> SUFFICES ASSUME k + 1 <= Len(order) PROVE Good(k + 1)
    OBVIOUS
  <2>1. /\ k \in 0 .. Len(order) /\ k + 1 \in 0 .. Len(order) /\ k + 1 \in 1 .. Len(order)
        /\ (k + 1) - 1 = k
    BY <1>1
  <2>2. Good(k) /\ g[k] \in Seq(Ids)
    <3>1. k <= Len(order)
      BY <2>1
    <3>2. Good(k)
      <4> HIDE DEF Good
      <4> QED
        BY <1>5, <3>1
    <3>3. g[k] \in Seq(Ids)
      BY <1>2, <2>1
    <3> QED
      BY <3>2, <3>3
  <2>3. CASE k + 1 <= i
    BY <1>3, <2>1, <2>3
  <2>4. CASE ~ (k + 1 <= i) /\ order[k + 1] \in lost
    <3>1. g[k + 1] = g[k]
      BY <1>2, <2>1, <2>4
    <3>2. KeptOf(g[k], i, k) /\ Sorted(g[k], order)
      BY <2>2
    <3>3. \A j \in i + 1 .. k + 1 : j \in i + 1 .. k \/ j = k + 1
      BY <1>1
    <3>4. \A j \in i + 1 .. k : j \in i + 1 .. k + 1
      BY <1>1
    <3>5. KeptOf(g[k], i, k + 1)
      BY <2>4, <3>2, <3>3, <3>4 DEF KeptOf
    <3> QED
      BY <3>1, <3>2, <3>5
  <2>5. CASE ~ (k + 1 <= i) /\ order[k + 1] \notin lost
    <3>1. g[k + 1] = Append(g[k], order[k + 1])
      BY <1>2, <2>1, <2>5
    <3>2. KeptOf(g[k], i, (k + 1) - 1) /\ Sorted(g[k], order) /\ i < k + 1
      BY <1>1, <2>1, <2>2, <2>5
    <3> QED
      BY <1>1, <2>1, <2>2, <2>5, <3>1, <3>2, KeptStep
  <2> QED
    BY <2>3, <2>4, <2>5
<1> HIDE DEF T
<1>6. Nat \subseteq T
  BY <1>4, <1>5, SetInduction
<1>7. Good(n)
  BY <1>1, <1>6 DEF T
<1> QED
  BY <1>2, <1>7

\* In front of the FIFO there are only completed and lost messages.
LEMMA PassedFacts ==
    ASSUME QueueInv
    PROVE  /\ Passed \in 0 .. Len(order)
           /\ \A j \in 1 .. Passed : order[j] \in completed \cup lost
<1>1. order \in Seq(Ids) /\ pending \in Seq(Ids) /\ Len(order) \in Nat
  BY LenProperties DEF QueueInv
<1>2. CASE pending = <<>>
  <2>1. Passed = Len(order) /\ Passed \in 0 .. Len(order)
    BY <1>1, <1>2 DEF Passed
  <2>2. \A k \in 1 .. Len(pending) : FALSE
    BY <1>2
  <2>3. NoGaps
    BY DEF QueueInv
  <2> QED
    BY <2>1, <2>2, <2>3 DEF NoGaps
<1>3. CASE pending # <<>>
  <2>1. PICK i \in 1 .. Len(order) :
            order[i] = Head(pending) /\ Promise!Behind(i, completed \cup lost)
    BY <1>3, HeadBehind
  <2>2. i - 1 \in 0 .. Len(order) - 1 /\ order[(i - 1) + 1] = Head(pending)
    BY <1>1, <2>1
  <2> DEFINE P(k) == order[k + 1] = Head(pending)
             c == CHOOSE k \in 0 .. Len(order) - 1 : P(k)
  <2>3. Passed = c
    BY <1>3, Zenon DEF Passed
  <2>4. c \in 0 .. Len(order) - 1 /\ P(c)
    <3>1. P(i - 1)
      BY <2>2
    <3> HIDE DEF P
    <3> QED
      BY <2>2, <3>1
  <2>5. Passed \in 0 .. Len(order) - 1 /\ order[Passed + 1] = Head(pending)
    BY <2>3, <2>4
  <2>6. Passed + 1 \in 1 .. Len(order)
    BY <1>1, <2>5
  <2>7. Passed + 1 = i
    BY <2>1, <2>5, <2>6 DEF QueueInv, Distinct
  <2>8. Passed \in 0 .. Len(order) /\ i - 1 = Passed
    BY <1>1, <2>1, <2>5, <2>7
  <2> QED
    BY <2>1, <2>8 DEF Promise!Behind
<1> QED
  BY <1>2, <1>3

\* A crash keeps the invariants of the queue: whatever it does not hold any more was
\* completed or is lost.
LEMMA RecoverQueue ==
    ASSUME QueueInv, NEW i \in 0 .. Len(order), NEW n \in 0 .. Len(order), Recovered(i, n),
           UNCHANGED <<order, completed>>
    PROVE  QueueInv' /\ lost \subseteq lost'
<1> DEFINE q == Kept(i, n)
           gone == {order[j] : j \in n + 1 .. Len(order)} \ completed
<1>1. order \in Seq(Ids) /\ Distinct /\ LostAccepted /\ Len(order) \in Nat
  BY LenProperties DEF QueueInv
<1>2. q \in Seq(Ids) /\ KeptOf(q, i, n) /\ Sorted(q, order)
  BY <1>1, KeptFacts
<1>3. pending' = q /\ lost' = lost \cup gone /\ i \in 0 .. Passed
  BY DEF Recovered
<1>4. \A j \in 1 .. i : order[j] \in completed \cup lost
  <2>1. \A j \in 1 .. i : j \in 1 .. Passed
    BY <1>1, <1>3, PassedFacts
  <2> QED
    BY <2>1, PassedFacts
<1> HIDE DEF q
<1>5. \A j \in i + 1 .. n : j \in 1 .. Len(order) /\ j <= n
  BY <1>1
<1>6. ASSUME NEW x \in 1 .. Len(q)
      PROVE  q[x] \notin lost \cup gone /\ \E j \in 1 .. Len(order) : order[j] = q[x]
  <2>1. PICK j \in i + 1 .. n : q[x] = order[j] /\ order[j] \notin lost
    BY <1>2 DEF KeptOf
  <2>2. ASSUME NEW k \in n + 1 .. Len(order) PROVE order[k] # q[x]
    <3>1. k \in 1 .. Len(order) /\ k # j
      BY <1>1, <1>5
    <3> QED
      BY <1>1, <1>5, <2>1, <3>1 DEF Distinct
  <2> QED
    BY <1>5, <2>1, <2>2
<1>7. ASSUME NEW j \in 1 .. Len(order)
      PROVE  order[j] \in completed \cup (lost \cup gone) \/ \E x \in 1 .. Len(q) : q[x] = order[j]
  <2>1. CASE j \in 1 .. i
    BY <1>4, <2>1
  <2>2. CASE j \in i + 1 .. n
    BY <1>2, <2>2 DEF KeptOf
  <2>3. CASE j \in n + 1 .. Len(order)
    BY <2>3
  <2>4. j \in 1 .. i \/ j \in i + 1 .. n \/ j \in n + 1 .. Len(order)
    BY <1>1
  <2> QED
    BY <2>1, <2>2, <2>3, <2>4
<1>8. \A m \in gone : \E j \in 1 .. Len(order) : order[j] = m
  <2>1. \A j \in n + 1 .. Len(order) : j \in 1 .. Len(order)
    BY <1>1
  <2> QED
    BY <2>1
<1> HIDE DEF gone
<1>9. LostAccepted'
  BY <1>1, <1>3, <1>8 DEF LostAccepted
<1>10. PendingAccepted'
  BY <1>3, <1>6 DEF PendingAccepted
<1>11. NoGaps'
  BY <1>3, <1>7 DEF NoGaps
<1>12. PendingSorted' /\ Distinct'
  <2>1. Distinct'
    BY <1>1 DEF Distinct
  <2>2. Sorted(pending', order')
    BY <1>2, <1>3
  <2> QED
    BY <2>1, <2>2, Zenon DEF PendingSorted
<1> QED
  BY <1>1, <1>2, <1>3, <1>9, <1>10, <1>11, <1>12 DEF QueueInv
-----------------------------------------------------------------------------
(* The Sender's steps and the invariant.                                   *)

\* What a step of the Sender's threads does to the FIFO and to what the brokers hold: it
\* may complete the head, which was delivered, and hand the head to the source broker.
Completes ==
    /\ pending # <<>> /\ Head(pending) \in delivered
    /\ pending' = Tail(pending) /\ completed' = completed \cup {Head(pending)}

Hands ==
    \/ handed' = handed
    \/ pending # <<>> /\ handed' = handed \cup {Head(pending)} /\ UNCHANGED <<pending, completed>>

LEMMA SenderMoves ==
    ASSUME PInv, SenderStep
    PROVE  /\ UNCHANGED <<relay, history, delivered>>
           /\ UNCHANGED <<pending, completed>> \/ Completes
           /\ acks' \subseteq acks /\ Hands
<1> USE DEF S!WorkerFrame, S!network, S!tracker, S!wait, S!attempt, S!outside, S!worker,
            S!NetworkFrame, S!Goto
<1>1. UNCHANGED <<relay, history>>
  BY DEF SenderStep, SenderFrame
<1>2. AttemptInv /\ EvidenceInv
  BY DEF PInv
<1>3. CASE S!PublishAttempt
  BY <1>1, <1>2, <1>3 DEF AttemptInv, S!InAttempt, S!PublishAttempt, Hands
<1>4. CASE S!Complete
  <2>1. /\ wpc = "complete" /\ UNCHANGED <<handed, acks, delivered>>
        /\ \/ UNCHANGED <<pending, completed>>
           \/ pending' = Tail(pending) /\ completed' = completed \cup {item}
    BY <1>4 DEF S!Complete
  <2>2. pending # <<>> /\ item = Head(pending) /\ item \in delivered
    BY <1>2, <2>1 DEF AttemptInv, EvidenceInv, S!InAttempt
  <2> QED
    BY <1>1, <2>1, <2>2 DEF Completes, Hands
<1>5. ASSUME NEW m \in Ids, S!OnMessage(m)
      PROVE  UNCHANGED <<delivered, pending, completed, handed>> /\ acks' \subseteq acks
  BY <1>5 DEF S!OnMessage
<1>6. ASSUME NEW m \in Ids, S!PublishReturns(m)
      PROVE  UNCHANGED <<delivered, pending, completed, handed, acks>>
  BY <1>6 DEF S!PublishReturns
<1>7. CASE \/ S!Start \/ S!OnConnect \/ S!OnSubscribe \/ S!CallbackWakes
           \/ S!MarkDisconnected \/ S!DisconnectInterrupts \/ S!LinkBreaks
  <2>1. UNCHANGED <<delivered, pending, completed, handed, acks>>
    BY <1>7 DEF S!Start, S!OnConnect, S!OnSubscribe, S!CallbackWakes, S!MarkDisconnected,
                S!DisconnectInterrupts, S!LinkBreaks
  <2> QED
    BY <1>1, <2>1 DEF Hands
<1>8. CASE S!WorkerStep /\ ~ S!PublishAttempt /\ ~ S!Complete
  <2>1. UNCHANGED <<delivered, pending, completed, handed, acks>>
    BY <1>8 DEF S!WorkerStep, S!Top, S!Pick, S!CheckReady, S!BeginAttempt, S!StopCheck,
                S!PubackArrives, S!PubackTimesOut, S!EventWakes, S!Settle, S!AttemptFails,
                S!NotifyWaiters, S!EndAttempt, S!Decide, S!WakeUp
  <2> QED
    BY <1>1, <2>1 DEF Hands
<1> QED
  BY <1>1, <1>3, <1>4, <1>5, <1>6, <1>7, <1>8 DEF SenderStep, Hands

\* The worker's attempt, the tracker and the head of the FIFO.
LEMMA SenderAttempt ==
    ASSUME PInv, SenderStep PROVE AttemptInv'
<1> USE DEF S!WorkerFrame, S!network, S!tracker, S!wait, S!attempt, S!outside, S!worker,
            S!NetworkFrame, S!Goto, S!InAttempt, AttemptInv
<1>1. AttemptInv
  BY DEF PInv
<1>2. CASE S!WorkerStep
  <2>1. CASE S!Top
    BY <1>1, <2>1 DEF S!Top
  <2>2. CASE S!Pick
    BY <1>1, <2>2 DEF S!Pick
  <2>3. CASE S!CheckReady
    BY <1>1, <2>3 DEF S!CheckReady
  <2>4. CASE S!BeginAttempt
    BY <1>1, <2>4 DEF S!BeginAttempt, S!Begin
  <2>5. CASE S!StopCheck
    BY <1>1, <2>5 DEF S!StopCheck
  <2>6. CASE S!PublishAttempt
    BY <1>1, <2>6 DEF S!PublishAttempt
  <2>7. CASE S!PubackArrives
    BY <1>1, <2>7 DEF S!PubackArrives
  <2>8. CASE S!PubackTimesOut
    BY <1>1, <2>8 DEF S!PubackTimesOut
  <2>9. CASE S!EventWakes
    BY <1>1, <2>9 DEF S!EventWakes
  <2>10. CASE S!Settle
    BY <1>1, <2>10 DEF S!Settle, S!SettleWait
  <2>11. CASE S!AttemptFails
    BY <1>1, <2>11 DEF S!AttemptFails
  <2>12. CASE S!Complete
    BY <1>1, <2>12 DEF S!Complete
  <2>13. CASE S!NotifyWaiters
    BY <1>1, <2>13 DEF S!NotifyWaiters
  <2>14. CASE S!EndAttempt
    BY <1>1, <2>14 DEF S!EndAttempt, S!End
  <2>15. CASE S!Decide
    BY <1>1, <2>15 DEF S!Decide
  <2>16. CASE S!WakeUp
    BY <1>1, <2>16 DEF S!WakeUp
  <2> QED
    BY <1>2, <2>1, <2>2, <2>3, <2>4, <2>5, <2>6, <2>7, <2>8, <2>9, <2>10, <2>11, <2>12,
       <2>13, <2>14, <2>15, <2>16, Zenon DEF S!WorkerStep
<1>3. CASE S!Start
  BY <1>1, <1>3 DEF S!Start, S!MayStart
<1>4. CASE \/ S!OnConnect \/ S!OnSubscribe \/ S!CallbackWakes \/ S!MarkDisconnected
           \/ S!DisconnectInterrupts \/ S!LinkBreaks \/ \E m \in Ids : S!PublishReturns(m) \/ S!OnMessage(m)
  <2>1. UNCHANGED <<wpc, pending, item, expected>>
    BY <1>4 DEF S!OnConnect, S!OnSubscribe, S!CallbackWakes, S!MarkDisconnected,
                S!DisconnectInterrupts,
                S!Interrupt, S!LinkBreaks, S!PublishReturns, S!OnMessage, S!Match
  <2> QED
    BY <1>1, <2>1
<1> QED
  BY <1>2, <1>3, <1>4 DEF SenderStep

\* A match is of an ACK that came back, and only a match completes.
LEMMA SenderMatched ==
    ASSUME PInv, SenderStep
    PROVE  (matched' => expected' \in delivered) /\ (wpc' = "complete" => matched')
<1> USE DEF S!WorkerFrame, S!network, S!tracker, S!wait, S!attempt, S!outside, S!worker,
            S!NetworkFrame, S!Goto
<1>1. /\ matched => expected \in delivered
      /\ wpc = "complete" => matched
      /\ acks \subseteq delivered
  BY Zenon DEF PInv, EvidenceInv, Claims
<1>2. CASE S!BeginAttempt \/ S!EndAttempt
  BY <1>2 DEF S!BeginAttempt, S!Begin, S!EndAttempt, S!End
<1>3. CASE S!Settle
  <2>1. UNCHANGED <<expected, matched>>
    BY <1>3 DEF S!Settle, S!SettleWait
  <2>2. wpc' = "complete" => matched
    BY <1>3 DEF S!Settle, S!Confirmed
  <2> QED
    BY <1>1, <2>1, <2>2
<1>4. CASE /\ S!WorkerStep /\ ~ (S!BeginAttempt \/ S!EndAttempt \/ S!Settle)
  <2>1. UNCHANGED <<expected, matched>>
    BY <1>4 DEF S!WorkerStep, S!Top, S!Pick, S!CheckReady, S!StopCheck, S!PublishAttempt,
                S!PubackArrives, S!PubackTimesOut, S!EventWakes, S!AttemptFails, S!Complete,
                S!NotifyWaiters, S!Decide, S!WakeUp
  <2>2. wpc' # "complete"
    BY <1>4 DEF S!WorkerStep, S!Top, S!Pick, S!CheckReady, S!StopCheck, S!PublishAttempt,
                S!PubackArrives, S!PubackTimesOut, S!EventWakes, S!AttemptFails, S!Complete,
                S!NotifyWaiters, S!Decide, S!WakeUp
  <2> QED
    BY <1>1, <2>1, <2>2
<1>5. CASE S!Start
  <2>1. UNCHANGED <<expected, matched>> /\ wpc' = "top"
    BY <1>5 DEF S!Start
  <2> QED
    BY <1>1, <2>1
<1>6. CASE \/ S!OnConnect \/ S!OnSubscribe \/ S!CallbackWakes \/ S!MarkDisconnected
           \/ S!DisconnectInterrupts \/ S!LinkBreaks \/ \E m \in Ids : S!PublishReturns(m)
  <2>1. UNCHANGED <<expected, matched, wpc>>
    BY <1>6 DEF S!OnConnect, S!OnSubscribe, S!CallbackWakes, S!MarkDisconnected,
                S!DisconnectInterrupts,
                S!Interrupt, S!LinkBreaks, S!PublishReturns
  <2> QED
    BY <1>1, <2>1
<1>7. ASSUME NEW m \in Ids, S!OnMessage(m)
      PROVE  (matched' => expected' \in delivered) /\ (wpc' = "complete" => matched')
  <2>1. m \in delivered /\ UNCHANGED <<expected, wpc>> /\ matched' = (matched \/ S!Matches(m))
    BY <1>1, <1>7, Zenon DEF S!OnMessage, S!Match
  <2>2. S!Matches(m) => expected = m
    BY Zenon DEF S!Matches
  <2>3. matched' => matched \/ S!Matches(m)
    BY <2>1, Zenon
  <2>4. matched => matched'
    BY <2>1, Zenon
  <2>5. matched' => expected' \in delivered
    BY <1>1, <2>1, <2>2, <2>3, Zenon
  <2> QED
    BY <1>1, <2>1, <2>4, <2>5, Zenon
<1> QED
  BY <1>2, <1>3, <1>4, <1>5, <1>6, <1>7, Zenon DEF SenderStep

\* What may still reach the destination only gets less, or more of it is there.
LEMMA OrderKept ==
    ASSUME order \in Seq(Ids), OrderInv, OnTheWay' \subseteq OnTheWay,
           delivered \subseteq delivered', lost \subseteq lost',
           order' \in Seq(Ids), Len(order) <= Len(order'),
           \A i \in 1 .. Len(order) : order'[i] = order[i]
    PROVE  OrderInv'
<1> SUFFICES ASSUME NEW m \in OnTheWay'
             PROVE  \E i \in 1 .. Len(order') :
                        order'[i] = m /\ \A j \in 1 .. i - 1 : order'[j] \in delivered' \cup lost'
  BY Zenon DEF OrderInv, Promise!Behind
<1>1. PICK i \in 1 .. Len(order) :
          order[i] = m /\ \A j \in 1 .. i - 1 : order[j] \in delivered \cup lost
  BY Zenon DEF OrderInv, Promise!Behind
<1>2. Len(order) \in Nat /\ Len(order') \in Nat
  BY LenProperties
<1>3. i \in 1 .. Len(order') /\ \A j \in 1 .. i - 1 : j \in 1 .. Len(order)
  BY <1>2
<1> QED
  BY <1>1, <1>3

LEMMA SenderInv ==
    ASSUME PInv, SenderStep PROVE PInv'
<1>1. RelayInv /\ QueueInv /\ AttemptInv /\ EvidenceInv /\ OrderInv
  BY DEF PInv
<1>2. /\ UNCHANGED <<relay, order, lost, delivered>>
      /\ UNCHANGED <<pending, completed>> \/ Completes
      /\ acks' \subseteq acks /\ Hands
  BY SenderMoves DEF history
<1>3. UNCHANGED <<Held, Owed>> /\ RelayInv'
  BY <1>1, <1>2, RelayStill
<1>4. QueueInv'
  <2>1. CASE UNCHANGED <<pending, completed>>
    BY <1>1, <1>2, <2>1, QueueStill
  <2>2. CASE Completes
    BY <1>1, <1>2, <2>2, CompleteQueue DEF Completes
  <2> QED
    BY <1>2, <2>1, <2>2
<1>5. EvidenceInv'
  <2>1. Claims' \subseteq delivered'
    BY <1>1, <1>2, <1>3 DEF EvidenceInv, Claims
  <2>2. completed' \subseteq delivered'
    BY <1>1, <1>2 DEF EvidenceInv, Completes
  <2>3. (matched' => expected' \in delivered') /\ (wpc' = "complete" => matched')
    BY <1>2, SenderMatched, Zenon
  <2> QED
    BY <2>1, <2>2, <2>3, Zenon DEF EvidenceInv
<1>6. OrderInv'
  <2>0. order \in Seq(Ids) /\ completed \subseteq delivered /\ Len(order) \in Nat
    BY <1>1, LenProperties DEF QueueInv, EvidenceInv
  <2>1. CASE handed' = handed
    <3>1. OnTheWay' \subseteq OnTheWay /\ Len(order) <= Len(order')
      BY <1>2, <1>3, <2>0, <2>1 DEF OnTheWay
    <3> QED
      BY <1>1, <1>2, <2>0, <3>1, OrderKept
  <2>2. CASE pending # <<>> /\ handed' = handed \cup {Head(pending)}
    <3>1. OnTheWay' \subseteq OnTheWay \cup {Head(pending)}
      BY <1>3, <2>2 DEF OnTheWay
    <3>2. ASSUME NEW m \in OnTheWay'
          PROVE  \E i \in 1 .. Len(order) :
                    order[i] = m /\ \A j \in 1 .. i - 1 : order[j] \in delivered \cup lost
      <4>1. CASE m \in OnTheWay
        BY <1>1, <4>1, Zenon DEF OrderInv, Promise!Behind
      <4>2. CASE m = Head(pending)
        <5>1. PICK i \in 1 .. Len(order) :
                  order[i] = m /\ \A j \in 1 .. i - 1 : order[j] \in completed \cup lost
          BY <1>1, <2>2, <4>2, HeadBehind, Zenon DEF Promise!Behind
        <5> QED
          BY <2>0, <5>1
      <4> QED
        BY <3>1, <4>1, <4>2
    <3> QED
      BY <1>2, <3>2 DEF OrderInv, Promise!Behind
  <2> QED
    BY <1>2, <2>1, <2>2 DEF Hands
<1>7. AttemptInv'
  BY SenderAttempt
<1> QED
  BY <1>3, <1>4, <1>5, <1>6, <1>7 DEF PInv

\* Whatever the brokers and the Relay do leaves the Sender where it was.
LEMMA OutsideInv ==
    ASSUME PInv, RelayInv', UNCHANGED <<sender, order, lost>>,
           \/ UNCHANGED <<OnTheWay, Claims, delivered>>
           \/ Loses
           \/ \E m \in Ids : Delivers(m)
    PROVE  PInv'
<1>1. RelayInv /\ QueueInv /\ AttemptInv /\ EvidenceInv /\ OrderInv
  BY DEF PInv
<1>2. /\ UNCHANGED <<pending, completed, wpc, item>> /\ UNCHANGED <<expected, matched>>
      /\ UNCHANGED <<order, lost>>
  BY DEF sender, tracker
<1>3. /\ OnTheWay' \subseteq OnTheWay /\ delivered \subseteq delivered'
      /\ Claims' \subseteq Claims \cup delivered'
  BY DEF Loses, Delivers
<1>4. QueueInv'
  BY <1>1, <1>2, QueueStill
<1>5. AttemptInv'
  BY <1>1, <1>2 DEF AttemptInv
<1>6. EvidenceInv'
  <2>1. Claims' \subseteq delivered' /\ completed' \subseteq delivered'
    BY <1>1, <1>2, <1>3 DEF EvidenceInv
  <2>2. (matched' => expected' \in delivered') /\ (wpc' = "complete" => matched')
    BY <1>1, <1>2, <1>3 DEF EvidenceInv
  <2> QED
    BY <2>1, <2>2, Zenon DEF EvidenceInv
<1>7. OrderInv'
  <2>1. order \in Seq(Ids) /\ Len(order) <= Len(order')
    BY <1>1, <1>2, LenProperties DEF QueueInv
  <2> QED
    BY <1>1, <1>2, <1>3, <2>1, OrderKept
<1> QED
  BY <1>4, <1>5, <1>6, <1>7 DEF PInv

LEMMA AcceptInv ==
    ASSUME PInv, NEW m \in Ids, Accept(m) PROVE PInv'
<1>1. RelayInv /\ QueueInv /\ AttemptInv /\ EvidenceInv /\ OrderInv
  BY DEF PInv
<1>2. /\ m \notin ToSet(order) /\ pending' = Append(pending, m) /\ order' = Append(order, m)
      /\ UNCHANGED <<completed, lost, delivered, wpc, item, expected, matched>>
      /\ UNCHANGED relay
  BY DEF Accept, S!Publish, S!tracker, S!worker, S!outside
<1>3. /\ QueueInv' /\ Len(order') = Len(order) + 1
      /\ \A i \in 1 .. Len(order) : order'[i] = order[i]
  BY <1>1, <1>2, AcceptQueue
<1>4. UNCHANGED <<OnTheWay, Claims>> /\ RelayInv'
  BY <1>1, <1>2, AcceptView, RelayStill
<1>5. AttemptInv'
  <2>1. pending' # <<>> /\ (pending # <<>> => Head(pending') = Head(pending))
    BY <1>1, <1>2, AppendSet DEF QueueInv
  <2> QED
    BY <1>1, <1>2, <2>1 DEF AttemptInv
<1>6. EvidenceInv'
  BY <1>1, <1>2, <1>4 DEF EvidenceInv
<1>7. OrderInv'
  <2>1. order \in Seq(Ids) /\ order' \in Seq(Ids) /\ Len(order) <= Len(order')
    BY <1>1, <1>3, LenProperties DEF QueueInv
  <2> QED
    BY <1>1, <1>2, <1>3, <1>4, <2>1, OrderKept
<1> QED
  BY <1>3, <1>4, <1>5, <1>6, <1>7 DEF PInv

LEMMA CrashInv ==
    ASSUME PInv, SenderCrashes PROVE PInv'
<1>1. RelayInv /\ QueueInv /\ EvidenceInv /\ OrderInv
  BY DEF PInv
<1>2. /\ UNCHANGED <<handed, acks, delivered, completed, order>> /\ UNCHANGED relay
      /\ wpc' = "dead" /\ expected' = NoMessage /\ matched' = FALSE
  BY DEF SenderCrashes, brokers
<1>3. QueueInv' /\ lost \subseteq lost'
  <2>1. PICK i, n \in 0 .. Len(order) : Recovered(i, n)
    BY Zenon DEF SenderCrashes
  <2> QED
    BY <1>1, <1>2, <2>1, RecoverQueue
<1>4. UNCHANGED <<Held, Owed>> /\ RelayInv'
  BY <1>1, <1>2, RelayStill
<1>5. UNCHANGED <<OnTheWay, Claims>>
  BY <1>2, <1>4 DEF OnTheWay, Claims
<1>6. AttemptInv'
  BY <1>2 DEF AttemptInv, S!InAttempt
<1>7. EvidenceInv'
  BY <1>1, <1>2, <1>5 DEF EvidenceInv
<1>8. OrderInv'
  <2>1. order \in Seq(Ids) /\ Len(order) <= Len(order')
    BY <1>1, <1>2, LenProperties DEF QueueInv
  <2> QED
    BY <1>1, <1>2, <1>3, <1>5, <2>1, OrderKept
<1> QED
  BY <1>3, <1>4, <1>6, <1>7, <1>8 DEF PInv

LEMMA InitInv == Init => PInv
<1> SUFFICES ASSUME Init PROVE PInv
  OBVIOUS
<1>1. /\ pending = <<>> /\ order = <<>> /\ lost = {} /\ completed = {} /\ delivered = {}
      /\ handed = {} /\ acks = {} /\ wpc = "dead" /\ expected = NoMessage /\ matched = FALSE
  BY DEF Init, S!Init, S!TrackerInit
<1>2. tasks = <<>> /\ relayPc = [w \in Workers |-> "dead"] /\ intake = NoMessage
      /\ task = [w \in Workers |-> NoMessage]
  BY DEF Init, R!Init
<1>3. ToSet(<<>>) = {} /\ <<>> \in Seq(Ids) /\ Len(<<>>) = 0 /\ \A k \in 1 .. 0 : FALSE
  BY DEF ToSet
<1>4. RelayInv
  BY <1>2, <1>3 DEF RelayInv
<1>5. OnTheWay = {} /\ Claims = {}
  BY <1>1, <1>2, <1>3 DEF OnTheWay, Claims, Held, Owed, InHand
<1>6. QueueInv
  BY <1>1, <1>3 DEF QueueInv, Distinct, LostAccepted, PendingAccepted, PendingSorted, Sorted,
                    NoGaps
<1>7. AttemptInv /\ EvidenceInv /\ OrderInv
  BY <1>1, <1>5 DEF AttemptInv, S!InAttempt, EvidenceInv, OrderInv
<1> QED
  BY <1>4, <1>6, <1>7 DEF PInv

LEMMA StepInv == PInv /\ [Next]_vars => PInv'
<1> SUFFICES ASSUME PInv, [Next]_vars PROVE PInv'
  OBVIOUS
<1>1. CASE SenderStep
  BY <1>1, SenderInv
<1>2. CASE RelayStep
  <2>1. /\ RelayInv' /\ UNCHANGED <<sender, order, lost>>
        /\ \/ UNCHANGED <<OnTheWay, Claims, delivered>>
           \/ Loses \/ \E m \in Ids : Delivers(m)
    BY <1>2, RelayMoves DEF PInv, history
  <2> QED
    BY <2>1, OutsideInv
<1>3. ASSUME NEW m \in Ids, Accept(m) PROVE PInv'
  BY <1>3, AcceptInv
<1>4. ASSUME NEW m \in Ids, AckDropped(m) PROVE PInv'
  <2>1. UNCHANGED <<sender, order, lost, relay>> /\ Loses
    BY <1>4, AckDroppedMoves DEF history
  <2>2. RelayInv'
    BY <2>1, RelayStill DEF PInv
  <2> QED
    BY <2>1, <2>2, OutsideInv
<1>5. CASE RelayCrashes \/ \E m \in Ids : MessageDropped(m)
  <2>1. RelayInv' /\ UNCHANGED <<sender, order, lost>> /\ Loses
    BY <1>5, DropMoves DEF PInv
  <2> QED
    BY <2>1, OutsideInv
<1>6. CASE SenderCrashes
  BY <1>6, CrashInv
<1>7. CASE UNCHANGED vars
  <2>1. UNCHANGED <<sender, order, lost, delivered>> /\ UNCHANGED <<handed, acks>> /\ UNCHANGED relay
    BY <1>7 DEF vars, history, brokers
  <2>2. UNCHANGED <<Held, Owed>> /\ RelayInv'
    BY <2>1, RelayStill DEF PInv
  <2>3. UNCHANGED <<OnTheWay, Claims, delivered>>
    BY <2>1, <2>2 DEF OnTheWay, Claims
  <2> QED
    BY <2>1, <2>2, <2>3, OutsideInv
<1> QED
  BY <1>1, <1>2, <1>3, <1>4, <1>5, <1>6, <1>7 DEF Next

\* Through every crash and loss the FIFO stays the tail of the accepted order less what
\* was lost, the worker works on its head, every acknowledgement goes back to a delivery,
\* and nothing is on its way that could overtake (sender.py, relay.py).
THEOREM Invariance == Spec => []PInv
<1>1. Init => PInv
  BY InitInv
<1>2. PInv /\ [Next]_vars => PInv'
  BY StepInv
<1> QED
  BY <1>1, <1>2, PTL DEF Spec

\* To the Sender, brokers and Relay together do nothing but what DeliveryWorker assumes of
\* its outside, for any number of Relay workers, any queue size and any number of crashes
\* of the Relay.
THEOREM WorkerImplemented == Spec => ImplementsWorker
<1>1. PInv /\ [Next]_vars => [View!Next \/ SenderCrashes]_<<sender, View!outside>>
  BY ViewStep
<1> QED
  BY <1>1, Invariance, PTL DEF Spec, ImplementsWorker
-----------------------------------------------------------------------------
(* The promise to the application.                                         *)

\* A delivery of the Relay is a delivery in order.
LEMMA PromiseDeliver ==
    ASSUME PInv, UNCHANGED <<completed, order, lost>>, NEW m \in Ids, Delivers(m)
    PROVE  Promise!Next
<1>1. PICK i \in 1 .. Len(order) : order[i] = m /\ Promise!Behind(i, delivered \cup lost)
  BY Zenon DEF PInv, OrderInv, Delivers
<1>2. Promise!Deliver(i)
  BY <1>1, Zenon DEF Promise!Deliver, Delivers
<1>3. i \in DOMAIN order
  BY <1>1 DEF PInv, QueueInv
<1> QED
  BY <1>2, <1>3, Zenon DEF Promise!Next

\* A completion is that of a delivered message, behind completed ones.
LEMMA PromiseComplete ==
    ASSUME PInv, UNCHANGED <<delivered, order, lost>>, Completes
    PROVE  Promise!Next
<1>1. /\ pending # <<>> /\ Head(pending) \in delivered
      /\ completed' = completed \cup {Head(pending)}
  BY DEF Completes
<1>2. PICK i \in 1 .. Len(order) :
          /\ order[i] = Head(pending) /\ Promise!Behind(i, completed \cup lost)
          /\ Head(pending) \notin lost
  BY <1>1, HeadBehind DEF PInv
<1>3. order[i] \in delivered \ lost /\ completed' = completed \cup {order[i]}
  BY <1>1, <1>2
<1>4. Promise!Complete(i)
  BY <1>2, <1>3, Zenon DEF Promise!Complete
<1>5. i \in DOMAIN order
  BY <1>2 DEF PInv, QueueInv
<1> QED
  BY <1>4, <1>5, Zenon DEF Promise!Next

\* A crash of the Sender loses nothing in DurableMode, and the newest messages otherwise.
LEMMA PromiseCrash ==
    ASSUME PInv, SenderCrashes PROVE [Promise!Next]_Promise!vars
<1>1. PICK i, n \in 0 .. Len(order) : Recovered(i, n)
  BY Zenon DEF SenderCrashes
<1>2. UNCHANGED <<delivered, completed, order>>
  BY DEF SenderCrashes, brokers
<1>3. lost' = lost \cup ({order[j] : j \in n + 1 .. Len(order)} \ completed)
  BY <1>1, Zenon DEF Recovered
<1>4. CASE Durable
  <2>1. n = Len(order) /\ Len(order) \in Nat
    BY <1>1, <1>4, LenProperties DEF Recovered, PInv, QueueInv
  <2>2. \A j \in n + 1 .. Len(order) : FALSE
    BY <2>1
  <2>3. lost' = lost
    BY <1>3, <2>2
  <2> QED
    BY <1>2, <2>3 DEF Promise!vars
<1>5. CASE ~ Durable
  <2>1. Promise!Lose(n)
    BY <1>2, <1>3, <1>5, Zenon DEF Promise!Lose
  <2> QED
    BY <1>1, <2>1, Zenon DEF Promise!Next
<1> QED
  BY <1>4, <1>5

LEMMA PromiseStep ==
    ASSUME PInv, [Next]_vars PROVE [Promise!Next]_Promise!vars
<1> USE DEF Promise!vars
<1>1. CASE SenderStep
  <2>1. /\ UNCHANGED <<order, lost, delivered>>
        /\ UNCHANGED <<pending, completed>> \/ Completes
    BY <1>1, SenderMoves DEF history
  <2> QED
    BY <2>1, PromiseComplete
<1>2. CASE RelayStep
  <2>1. /\ UNCHANGED <<sender, history>>
        /\ \/ UNCHANGED <<OnTheWay, Claims, delivered>>
           \/ Loses \/ \E m \in Ids : Delivers(m)
    BY <1>2, RelayMoves DEF PInv
  <2>2. UNCHANGED <<completed, order, lost>>
    BY <2>1 DEF sender, history
  <2> QED
    BY <2>1, <2>2, PromiseDeliver DEF Loses
<1>3. ASSUME NEW m \in Ids, Accept(m) PROVE Promise!Next
  <2>1. /\ m \notin ToSet(order) /\ order' = Append(order, m)
        /\ UNCHANGED <<delivered, completed, lost>>
    BY <1>3 DEF Accept, S!Publish, S!outside
  <2>2. Promise!Accept(m)
    BY <2>1, Zenon DEF Promise!Accept, Promise!ToSet, ToSet
  <2> QED
    BY <2>2, Zenon DEF Promise!Next
<1>4. ASSUME NEW m \in Ids, AckDropped(m) PROVE UNCHANGED Promise!vars
  BY <1>4 DEF AckDropped, SenderFrame, sender, history
<1>5. ASSUME NEW m \in Ids, MessageDropped(m) PROVE UNCHANGED Promise!vars
  BY <1>5 DEF MessageDropped, RelayFrame, sender, history
<1>6. CASE RelayCrashes
  BY <1>6 DEF RelayCrashes, sender, brokers
<1>7. CASE SenderCrashes
  BY <1>7, PromiseCrash
<1>8. CASE UNCHANGED vars
  BY <1>8 DEF vars, sender, brokers, history
<1> QED
  BY <1>1, <1>2, <1>3, <1>4, <1>5, <1>6, <1>7, <1>8 DEF Next

\* Sender and Relay together keep the promise of Delivery: messages reach the destination
\* in the order publish() accepted them, none is completed that is not there, and only a
\* crash of a Sender that is not durable loses any, through every interleaving, loss,
\* duplicate, retry and crash of either process.
THEOREM DeliveryImplemented == Spec => ImplementsDelivery
<1>1. Init => Promise!Init
  BY DEF Init, S!Init, Promise!Init
<1>2. PInv /\ [Next]_vars => [Promise!Next]_Promise!vars
  BY PromiseStep
<1> QED
  BY <1>1, <1>2, Invariance, PTL DEF Spec, ImplementsDelivery, Promise!Spec
=============================================================================
