------------------------ MODULE DeliveryWorkerProofs ------------------------
(***************************************************************************)
(* What DeliveryWorker guarantees for every set of messages and every      *)
(* number of setbacks.  The safety properties do not hold inductively one  *)
(* by one: they rest on what the tracker holds at each point of an attempt *)
(* (Tracking), on where an acknowledgement comes from (Evidence), and on   *)
(* what each waiting thread may still expect (Signals).                    *)
(***************************************************************************)
EXTENDS DeliveryWorker, TLAPS

\* An attempt is on the head of the FIFO; between attempts nothing is expected.
Tracking ==
    /\ wpc \in {"ready", "begin"} \cup InAttempt => pending # <<>> /\ item = Head(pending)
    /\ wpc \in InAttempt => expected = item
    /\ wpc \notin InAttempt \cup {"notify", "end"} => expected = NoMessage

\* Every acknowledgement goes back to a delivery, and a waiter is told of a removal.
Evidence ==
    /\ acks \subseteq delivered /\ completed \subseteq delivered
    /\ matched => expected \in delivered
    /\ wpc = "complete" => matched
    /\ waiter \in {"check", "blocked"} => target \in ToSet(pending) \cup completed
    /\ waiter = "true" => target \in completed

\* The event is set for a reason, and a reported acknowledgement stays unless cut off.
Verdict ==
    /\ event => matched \/ interrupted
    /\ wpc = "settle" /\ signalled => matched \/ interrupted
    /\ wpc = "unacked" => interrupted
    /\ expected = NoMessage => ~ told
    /\ told /\ ~ cut => matched /\ ~ interrupted

\* Nobody sleeps on a signal that was already given.
Signals ==
    /\ wpc \in {"publish", "puback", "wait"} /\ stopEvent /\ lpc # "interrupt" => event
    /\ NoLostNotify
    /\ wpc \in {"decide", "sleep"} /\ ~ wakeup =>
           /\ status = "EMPTY" => ToSet(pending) \subseteq publishers
           /\ status = "NOT_READY" => ~ ConnectionReady \/ npc = "wake"
    /\ wpc \in {"notify", "end"} => status \notin {"EMPTY", "NOT_READY"}

\* The Boolean part of TypeOK.
Flags ==
    /\ matched \in BOOLEAN /\ interrupted \in BOOLEAN /\ event \in BOOLEAN
    /\ wakeup \in BOOLEAN /\ stopEvent \in BOOLEAN /\ signalled \in BOOLEAN
    /\ started \in BOOLEAN /\ loop \in BOOLEAN /\ link \in BOOLEAN
    /\ connected \in BOOLEAN /\ ready \in BOOLEAN /\ told \in BOOLEAN /\ cut \in BOOLEAN

WInv == TypeOK /\ Tracking /\ Evidence /\ Verdict /\ Signals
-----------------------------------------------------------------------------
(* The FIFO as a set.                                                      *)

\* publish() adds one message to the FIFO (Publish).
LEMMA AppendSet ==
    ASSUME NEW s \in Seq(Ids), NEW m \in Ids
    PROVE  /\ Append(s, m) \in Seq(Ids) /\ Append(s, m) # <<>>
           /\ s # <<>> => Head(Append(s, m)) = Head(s)
           /\ ToSet(Append(s, m)) = ToSet(s) \cup {m}
<1>1. /\ Append(s, m) \in Seq(Ids) /\ Append(s, m) # <<>>
      /\ s # <<>> => Head(Append(s, m)) = Head(s)
  OBVIOUS
<1>2. /\ Len(Append(s, m)) = Len(s) + 1 /\ Append(s, m)[Len(s) + 1] = m
      /\ \A i \in 1 .. Len(s) : Append(s, m)[i] = s[i]
  OBVIOUS
<1>3. ToSet(Append(s, m)) \subseteq ToSet(s) \cup {m}
  <2> SUFFICES ASSUME NEW i \in 1 .. Len(s) + 1
               PROVE  Append(s, m)[i] \in ToSet(s) \cup {m}
    BY <1>1, <1>2 DEF ToSet
  <2>1. CASE i = Len(s) + 1
    BY <1>2, <2>1
  <2>2. CASE i \in 1 .. Len(s)
    BY <1>2, <2>2 DEF ToSet
  <2> QED BY <2>1, <2>2
<1>4. ToSet(s) \cup {m} \subseteq ToSet(Append(s, m))
  <2>1. ASSUME NEW i \in 1 .. Len(s) PROVE s[i] \in ToSet(Append(s, m))
    <3>1. i \in 1 .. Len(Append(s, m)) /\ Append(s, m)[i] = s[i]
      BY <1>2
    <3> QED BY <1>1, <3>1 DEF ToSet
  <2>2. m \in ToSet(Append(s, m))
    <3>1. Len(s) + 1 \in 1 .. Len(Append(s, m))
      BY <1>2
    <3> QED BY <1>1, <1>2, <3>1 DEF ToSet
  <2> QED BY <2>1, <2>2 DEF ToSet
<1> QED BY <1>1, <1>3, <1>4

\* _complete_item takes the head from the FIFO and nothing else (Complete).
LEMMA TailSet ==
    ASSUME NEW s \in Seq(Ids), s # <<>>
    PROVE  /\ Tail(s) \in Seq(Ids) /\ Head(s) \in Ids
           /\ ToSet(s) = ToSet(Tail(s)) \cup {Head(s)}
<1>1. Tail(s) \in Seq(Ids) /\ Head(s) \in Ids
  OBVIOUS
<1>2. ToSet(s) \subseteq ToSet(Tail(s)) \cup {Head(s)}
  <2> SUFFICES ASSUME NEW i \in 1 .. Len(s)
               PROVE  s[i] \in ToSet(Tail(s)) \cup {Head(s)}
    BY DEF ToSet
  <2>1. CASE i = 1
    BY <2>1
  <2>2. CASE i # 1
    <3>1. i - 1 \in DOMAIN Tail(s) /\ Tail(s)[i - 1] = s[i]
      BY <2>2
    <3>2. Tail(s)[i - 1] \in ToSet(Tail(s))
      BY <3>1, Zenon DEF ToSet
    <3> QED BY <3>1, <3>2
  <2> QED BY <2>1, <2>2
<1>3. ToSet(Tail(s)) \cup {Head(s)} \subseteq ToSet(s)
  <2>1. Head(s) \in ToSet(s)
    BY DEF ToSet
  <2>2. ASSUME NEW i \in 1 .. Len(Tail(s)) PROVE Tail(s)[i] \in ToSet(s)
    <3>1. i + 1 \in 1 .. Len(s) /\ Tail(s)[i] = s[i + 1]
      OBVIOUS
    <3> QED BY <3>1 DEF ToSet
  <2> QED BY <2>1, <2>2 DEF ToSet
<1> QED BY <1>1, <1>2, <1>3
-----------------------------------------------------------------------------
(* Every state satisfies the invariant.                                    *)

\* A new Sender satisfies the invariant.
LEMMA InitInv == Init => WInv
<1> SUFFICES ASSUME Init PROVE WInv
  OBVIOUS
<1>1. ToSet(<<>>) = {} /\ <<>> \in Seq(Ids)
  BY DEF ToSet
<1>2. Flags
  BY Zenon DEF Init, TrackerInit, Flags
<1> QED BY <1>1, <1>2, NoMessageAssumption, SetbackAssumption
    DEF Init, TrackerInit, Flags, WInv, TypeOK, TrackerTypeOK, Tracking, Evidence,
        Verdict, Signals, NoLostNotify, InAttempt, WorkerPCs, Statuses, ConnectionReady

\* Every step keeps the flags Boolean.
LEMMA FlagsInv == ASSUME WInv, [Next]_vars PROVE Flags'
<1>0. Flags
  BY DEF WInv, TypeOK, TrackerTypeOK, Flags
<1> USE DEF Flags, tracker, worker, network, wait, outside, attempt
<1>1. CASE Top
  BY <1>0, <1>1, ZenonT(60) DEF Top, WorkerFrame
<1>2. CASE Pick
  BY <1>0, <1>2, ZenonT(60) DEF Pick, Setback, WorkerFrame
<1>3. CASE CheckReady
  BY <1>0, <1>3, ZenonT(60) DEF CheckReady, WorkerFrame
<1>4. CASE BeginAttempt
  BY <1>0, <1>4, ZenonT(60) DEF BeginAttempt, Goto, Begin, WorkerFrame
<1>5. CASE StopCheck
  BY <1>0, <1>5, ZenonT(60) DEF StopCheck, WorkerFrame
<1>6. CASE PublishAttempt
  BY <1>0, <1>6, ZenonT(60) DEF PublishAttempt, WorkerFrame
<1>7. CASE PubackArrives
  BY <1>0, <1>7, ZenonT(60) DEF PubackArrives, Goto, WorkerFrame
<1>8. CASE PubackTimesOut
  BY <1>0, <1>8, ZenonT(60) DEF PubackTimesOut, Goto, WorkerFrame
<1>9. CASE EventWakes
  BY <1>0, <1>9, ZenonT(60) DEF EventWakes, Goto, WorkerFrame
<1>10. CASE Settle
  BY <1>0, <1>10, ZenonT(60) DEF Settle, Confirmed, SettleWait, WorkerFrame
<1>11. CASE AttemptFails
  BY <1>0, <1>11, ZenonT(60) DEF AttemptFails, Setback, WorkerFrame
<1>12. CASE Complete
  BY <1>0, <1>12, ZenonT(60) DEF Complete, Setback, WorkerFrame
<1>13. CASE NotifyWaiters
  BY <1>0, <1>13, ZenonT(60) DEF NotifyWaiters, Goto, Notify, WorkerFrame
<1>14. CASE EndAttempt
  BY <1>0, <1>14, ZenonT(60) DEF EndAttempt, Goto, End, WorkerFrame
<1>15. CASE Decide
  BY <1>0, <1>15, ZenonT(60) DEF Decide, WorkerFrame
<1>16. CASE WakeUp
  BY <1>0, <1>16, ZenonT(60) DEF WakeUp, Goto, WorkerFrame
<1>17. CASE Start
  BY <1>0, <1>17, ZenonT(60) DEF Start, MayStart
<1>18. CASE StartFails
  BY <1>0, <1>18, ZenonT(60) DEF StartFails, MayStart, Setback
<1>19. CASE StopBegins
  BY <1>0, <1>19, ZenonT(60) DEF StopBegins
<1>20. CASE StopInterrupts
  BY <1>0, <1>20, ZenonT(60) DEF StopInterrupts, Interrupt
<1>21. CASE StopNotifies
  BY <1>0, <1>21, ZenonT(60) DEF StopNotifies, Notify
<1>22. CASE StopJoins
  BY <1>0, <1>22, ZenonT(60) DEF StopJoins, Setback
<1>23. CASE StopFinishes
  BY <1>0, <1>23, ZenonT(60) DEF StopFinishes
<1>24. CASE OnConnect
  BY <1>0, <1>24, ZenonT(60) DEF OnConnect, NetworkFrame
<1>25. CASE OnSubscribe
  BY <1>0, <1>25, ZenonT(60) DEF OnSubscribe, NetworkFrame
<1>26. CASE LinkBreaks
  BY <1>0, <1>26, ZenonT(60) DEF LinkBreaks, Setback, NetworkFrame
<1>27. CASE MarkDisconnected
  BY <1>0, <1>27, ZenonT(60) DEF MarkDisconnected, Setback, NetworkFrame
<1>28. CASE DisconnectInterrupts
  BY <1>0, <1>28, ZenonT(60) DEF DisconnectInterrupts, Interrupt, NetworkFrame
<1>29. CASE WaiterChecks
  BY <1>0, <1>29, ZenonT(60) DEF WaiterChecks
<1>30. ASSUME NEW m \in Ids, Publish(m) PROVE Flags'
  <2>1. UNCHANGED <<matched, interrupted, event, stopEvent, signalled, started, loop,
                    link, connected, ready, told, cut>> /\ wakeup' = wakeup
    BY <1>30, SMT DEF Publish
  <2> QED
    BY <1>0, <2>1, ZenonT(60)
<1>31. ASSUME NEW m \in Ids, PublishReturns(m) PROVE Flags'
  <2>1. UNCHANGED <<matched, interrupted, event, stopEvent, signalled, started, loop,
                    link, connected, ready, told, cut>> /\ wakeup' = TRUE
    BY <1>31, SMT DEF PublishReturns
  <2> QED
    BY <1>0, <2>1, ZenonT(60)
<1>32. ASSUME NEW m \in Ids, WaitForDelivery(m) PROVE Flags'
  <2>1. UNCHANGED <<matched, interrupted, event, wakeup, stopEvent, signalled, started, loop,
                    link, connected, ready, told, cut>>
    BY <1>32, SMT DEF WaitForDelivery
  <2> QED
    BY <1>0, <2>1, ZenonT(60)
<1>33. ASSUME NEW m \in Ids, OnMessage(m) PROVE Flags'
  BY <1>0, <1>33, ZenonT(60) DEF OnMessage, Match, Matches, Setback, NetworkFrame
<1>34. ASSUME NEW m \in Ids, RelayDelivers(m) PROVE Flags'
  BY <1>0, <1>34, ZenonT(60) DEF RelayDelivers, OutsideFrame
<1>35. CASE OutsideLoses
  BY <1>0, <1>35, ZenonT(60) DEF OutsideLoses, OutsideFrame
<1>36. CASE CallbackWakes
  BY <1>0, <1>36, ZenonT(60) DEF CallbackWakes, NetworkFrame
<1>37. CASE UNCHANGED vars
  BY <1>0, <1>37, ZenonT(60) DEF vars
<1> QED BY <1>1, <1>2, <1>3, <1>4, <1>5, <1>6, <1>7, <1>8, <1>9, <1>10, <1>11, <1>12,
      <1>13, <1>14, <1>15, <1>16, <1>17, <1>18, <1>19, <1>20, <1>21, <1>22, <1>23,
      <1>24, <1>25, <1>26, <1>27, <1>28, <1>29, <1>30, <1>31, <1>32, <1>33, <1>34,
      <1>35, <1>36, <1>37 DEF Next, WorkerStep, StopStep

\* A step of the delivery worker preserves the invariant.
LEMMA WorkerInv == ASSUME WInv, WorkerStep PROVE WInv'
<1>0. Flags'
  BY FlagsInv DEF Next, WorkerStep, StopStep
<1> USE SetbackAssumption, NoMessageAssumption
    DEF WInv, Flags, TypeOK, TrackerTypeOK, Tracking, Evidence, Verdict, Signals,
        NoLostNotify, InAttempt, WorkerPCs, Statuses, ConnectionReady, tracker, worker,
        network, wait, outside, attempt
<1>1. CASE Top
  BY <1>0, <1>1 DEF Top, WorkerFrame
<1>2. CASE Pick
  <2>1. pending # <<>> => Head(pending) \in Ids
    BY TailSet
  <2>2. ToSet(<<>>) = {}
    BY DEF ToSet
  <2> QED BY <1>0, <1>2, <2>1, <2>2 DEF Pick, Setback, WorkerFrame
<1>3. CASE CheckReady
  BY <1>0, <1>3 DEF CheckReady, WorkerFrame
<1>4. CASE BeginAttempt
  BY <1>0, <1>4 DEF BeginAttempt, Goto, Begin, WorkerFrame
<1>5. CASE StopCheck
  BY <1>0, <1>5 DEF StopCheck, WorkerFrame
<1>6. CASE PublishAttempt
  BY <1>0, <1>6 DEF PublishAttempt, WorkerFrame
<1>7. CASE PubackArrives
  BY <1>0, <1>7 DEF PubackArrives, Goto, WorkerFrame
<1>8. CASE PubackTimesOut
  BY <1>0, <1>8 DEF PubackTimesOut, Goto, WorkerFrame
<1>9. CASE EventWakes
  BY <1>0, <1>9 DEF EventWakes, Goto, WorkerFrame
<1>10. CASE Settle
  <2>1. TypeOK'
    BY <1>0, <1>10 DEF Settle, Confirmed, SettleWait, WorkerFrame
  <2>2. Tracking'
    BY <1>0, <1>10 DEF Settle, Confirmed, SettleWait, WorkerFrame
  <2>3. Evidence'
    BY <1>0, <1>10 DEF Settle, Confirmed, SettleWait, WorkerFrame
  <2>4. Verdict'
    BY <1>0, <1>10 DEF Settle, Confirmed, SettleWait, WorkerFrame
  <2>5. Signals'
    BY <1>0, <1>10 DEF Settle, Confirmed, SettleWait, WorkerFrame
  <2> QED BY <2>1, <2>2, <2>3, <2>4, <2>5
<1>11. CASE AttemptFails
  BY <1>0, <1>11 DEF AttemptFails, Setback, WorkerFrame
<1>12. CASE Complete
  <2>1. pending # <<>> => Tail(pending) \in Seq(Ids) /\ Head(pending) \in Ids
                        /\ ToSet(pending) = ToSet(Tail(pending)) \cup {Head(pending)}
    BY TailSet
  <2>2. TypeOK'
    BY <1>0, <1>12, <2>1 DEF Complete, Setback, WorkerFrame
  <2>3. Tracking'
    BY <1>0, <1>12, <2>1 DEF Complete, Setback, WorkerFrame
  <2>4. Evidence'
    BY <1>0, <1>12, <2>1 DEF Complete, Setback, WorkerFrame
  <2>5. Verdict'
    BY <1>0, <1>12, <2>1 DEF Complete, Setback, WorkerFrame
  <2>6. Signals'
    BY <1>0, <1>12, <2>1 DEF Complete, Setback, WorkerFrame
  <2> QED BY <2>2, <2>3, <2>4, <2>5, <2>6
<1>13. CASE NotifyWaiters
  BY <1>0, <1>13 DEF NotifyWaiters, Goto, Notify, WorkerFrame
<1>14. CASE EndAttempt
  BY <1>0, <1>14 DEF EndAttempt, Goto, End, WorkerFrame
<1>15. CASE Decide
  BY <1>0, <1>15 DEF Decide, WorkerFrame
<1>16. CASE WakeUp
  BY <1>0, <1>16 DEF WakeUp, Goto, WorkerFrame
<1> QED BY <1>1, <1>2, <1>3, <1>4, <1>5, <1>6, <1>7, <1>8, <1>9, <1>10, <1>11, <1>12,
    <1>13, <1>14, <1>15, <1>16 DEF WorkerStep

\* A step of start() or stop() preserves the invariant.
LEMMA LifecycleInv == ASSUME WInv, Start \/ StartFails \/ StopBegins \/ StopStep PROVE
    WInv'
<1>0. Flags'
  BY FlagsInv DEF Next, WorkerStep, StopStep
<1> USE SetbackAssumption, NoMessageAssumption
    DEF WInv, Flags, TypeOK, TrackerTypeOK, Tracking, Evidence, Verdict, Signals,
        NoLostNotify, InAttempt, WorkerPCs, Statuses, ConnectionReady, tracker, worker,
        network, wait, outside, attempt
<1>1. CASE Start
  BY <1>0, <1>1 DEF Start, MayStart
<1>2. CASE StartFails
  BY <1>0, <1>2 DEF StartFails, MayStart, Setback
<1>3. CASE StopBegins
  BY <1>0, <1>3 DEF StopBegins
<1>4. CASE StopInterrupts
  BY <1>0, <1>4 DEF StopInterrupts, Interrupt
<1>5. CASE StopNotifies
  BY <1>0, <1>5 DEF StopNotifies, Notify
<1>6. CASE StopJoins
  BY <1>0, <1>6 DEF StopJoins, Setback
<1>7. CASE StopFinishes
  BY <1>0, <1>7 DEF StopFinishes
<1> QED BY <1>1, <1>2, <1>3, <1>4, <1>5, <1>6, <1>7 DEF StopStep

\* A step of the network thread preserves the invariant.
LEMMA NetworkInv == ASSUME WInv, OnConnect \/ OnSubscribe \/ CallbackWakes \/ LinkBreaks \/
    MarkDisconnected \/ DisconnectInterrupts PROVE WInv'
<1>0. Flags'
  BY FlagsInv DEF Next, WorkerStep, StopStep
<1> USE SetbackAssumption, NoMessageAssumption
    DEF WInv, Flags, TypeOK, TrackerTypeOK, Tracking, Evidence, Verdict, Signals,
        NoLostNotify, InAttempt, WorkerPCs, Statuses, ConnectionReady, tracker, worker,
        network, wait, outside, attempt
<1>1. CASE OnConnect
  BY <1>0, <1>1 DEF OnConnect, NetworkFrame
<1>2. CASE OnSubscribe
  BY <1>0, <1>2 DEF OnSubscribe, NetworkFrame
<1>3. CASE LinkBreaks
  BY <1>0, <1>3 DEF LinkBreaks, Setback, NetworkFrame
<1>4. CASE MarkDisconnected
  BY <1>0, <1>4 DEF MarkDisconnected, Setback, NetworkFrame
<1>5. CASE DisconnectInterrupts
  BY <1>0, <1>5 DEF DisconnectInterrupts, Interrupt, NetworkFrame
<1>6. CASE CallbackWakes
  BY <1>0, <1>6 DEF CallbackWakes, NetworkFrame
<1> QED BY <1>1, <1>2, <1>3, <1>4, <1>5, <1>6

\* A step of an application thread preserves the invariant.
LEMMA ApplicationInv == ASSUME WInv, NEW m \in Ids, Publish(m) \/ PublishReturns(m) \/
    WaitForDelivery(m) PROVE WInv'
<1>0. Flags'
  BY FlagsInv DEF Next, WorkerStep, StopStep
<1> USE SetbackAssumption, NoMessageAssumption
    DEF WInv, Flags, TypeOK, TrackerTypeOK, Tracking, Evidence, Verdict, Signals,
        NoLostNotify, InAttempt, WorkerPCs, Statuses, ConnectionReady, tracker, worker,
        network, wait, outside, attempt
<1>1. CASE Publish(m)
  <2>1. /\ Append(pending, m) \in Seq(Ids) /\ Append(pending, m) # <<>>
        /\ pending # <<>> => Head(Append(pending, m)) = Head(pending)
        /\ ToSet(Append(pending, m)) = ToSet(pending) \cup {m}
    BY AppendSet
  <2> QED BY <1>0, <1>1, <2>1 DEF Publish
<1>2. CASE PublishReturns(m)
  BY <1>0, <1>2 DEF PublishReturns
<1>3. CASE WaitForDelivery(m)
  BY <1>0, <1>3 DEF WaitForDelivery
<1> QED BY <1>1, <1>2, <1>3

\* An arriving DeliveryAck, or a delivery by brokers and Relay preserves the invariant.
LEMMA OutsideInv == ASSUME WInv, NEW m \in Ids, OnMessage(m) \/ RelayDelivers(m) PROVE WInv'
<1>0. Flags'
  BY FlagsInv DEF Next, WorkerStep, StopStep
<1> USE SetbackAssumption, NoMessageAssumption
    DEF WInv, Flags, TypeOK, TrackerTypeOK, Tracking, Evidence, Verdict, Signals,
        NoLostNotify, InAttempt, WorkerPCs, Statuses, ConnectionReady, tracker, worker,
        network, wait, outside, attempt
<1>1. CASE OnMessage(m)
  BY <1>0, <1>1 DEF OnMessage, Match, Matches, Setback, OutsideFrame, NetworkFrame
<1>2. CASE RelayDelivers(m)
  BY <1>0, <1>2 DEF RelayDelivers, OutsideFrame, NetworkFrame
<1> QED BY <1>1, <1>2

\* wait_for_delivery's check, a loss outside and a step that changes nothing preserve the
\* invariant.
LEMMA WaiterInv == ASSUME WInv, WaiterChecks \/ OutsideLoses \/ UNCHANGED vars PROVE WInv'
<1>0. Flags'
  BY FlagsInv DEF Next
<1> USE DEF WInv, Flags, TypeOK, TrackerTypeOK, Tracking, Evidence, Verdict, Signals,
        NoLostNotify, InAttempt, WorkerPCs, Statuses, ConnectionReady, tracker, worker,
        network, wait, outside, attempt
<1>1. CASE WaiterChecks
  BY <1>0, <1>1 DEF WaiterChecks
<1>2. CASE OutsideLoses
  BY <1>0, <1>2 DEF OutsideLoses, OutsideFrame
<1>3. CASE UNCHANGED vars
  BY <1>3 DEF vars
<1> QED BY <1>1, <1>2, <1>3

\* The invariant holds in every reachable state of the Sender's delivery machinery.
THEOREM Invariance == Spec => []WInv
<1>1. ASSUME WInv, [Next]_vars PROVE WInv'
  BY <1>1, WorkerInv, LifecycleInv, NetworkInv, ApplicationInv, OutsideInv, WaiterInv
      DEF Next
<1> QED BY InitInv, <1>1, PTL DEF Spec

\* The variables of the delivery machinery keep their types, for every set of messages.
THEOREM TypeCorrect == Spec => []TypeOK
<1>1. WInv => TypeOK
  BY DEF WInv
<1> QED BY <1>1, Invariance, PTL

\* AckedOnly: no message is removed, and no wait_for_delivery returns True, before the
\* destination accepted that message (AckTracker.match, _complete_item).
THEOREM RemovedOnlyAcked == Spec => []AckedOnly
<1>1. WInv => AckedOnly
  BY DEF WInv, Evidence, AckedOnly
<1> QED BY <1>1, Invariance, PTL

\* AttemptExclusive: begin() never raises, and an attempt stays on the head of the FIFO
\* with the tracker to itself (_process_oldest_once, start).
THEOREM OneAttempt == Spec => []AttemptExclusive
<1>1. WInv => AttemptExclusive
  BY DEF WInv, Tracking, AttemptExclusive, InAttempt
<1> QED BY <1>1, Invariance, PTL

\* AckHonoured: an ACK reported as matching is not lost to the timeout it races with
\* (AckTracker.wait).
THEOREM AckNotDropped == Spec => []AckHonoured
<1>1. WInv => AckHonoured
  BY DEF WInv, Verdict, AckHonoured
<1> QED BY <1>1, Invariance, PTL

\* NoLostSignal: after stop()'s interrupt no worker sits out delivery_ack_timeout (the
\* second look at _stop_event), no worker sleeps on a reason that has gone (_wakeup is
\* cleared before the state is read), and no wait_for_delivery is left blocked.
THEOREM SignalsNotLost == Spec => []NoLostSignal
<1>1. WInv => NoLostSignal
  BY DEF WInv, Signals, NoLostSignal, StopNotBlocked, NoLostWakeup, NoLostNotify
<1> QED BY <1>1, Invariance, PTL

\* NoCompletionAfterStop: the only step that removes a message looks at _stop_event under
\* _commit_lock (_complete_item).
THEOREM StopBoundary == Spec => NoCompletionAfterStop
<1>1. ASSUME [Next]_vars PROVE [stopEvent => completed' = completed]_vars
  BY <1>1
  DEF Next, WorkerStep, StopStep, Top, Pick, CheckReady, BeginAttempt, StopCheck,
         PublishAttempt, PubackArrives, PubackTimesOut, EventWakes, Settle,
         AttemptFails, Complete, NotifyWaiters, EndAttempt, Decide, WakeUp, Start,
         StartFails, StopBegins, StopInterrupts, StopNotifies, StopJoins,
         StopFinishes, OnConnect, OnSubscribe, CallbackWakes, LinkBreaks, MarkDisconnected,
         DisconnectInterrupts, Publish, PublishReturns, WaitForDelivery, WaiterChecks,
         OnMessage, RelayDelivers, OutsideLoses, WorkerFrame, NetworkFrame,
         OutsideFrame, vars
<1> QED BY <1>1, PTL DEF Spec, NoCompletionAfterStop
=============================================================================
