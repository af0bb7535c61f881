------------------------- MODULE SubscriptionProofs -------------------------
(***************************************************************************)
(* Proofs that a client's trust in its subscription is justified, however  *)
(* many packet identifiers are in use and however often the connection is  *)
(* lost: for both roles of Subscription.                                   *)
(***************************************************************************)
EXTENDS Subscription, WellFoundedInduction, TLAPS

\* The network thread asks only at the end of _on_connect, when its callback is over.
CallbackInv == npc # "idle" => call["network"] = "idle"

\* A grant under way, or just taken from a SUBACK, is one of the connection that is up:
\* losing the connection takes the SUBACKs along with the subscription.
GrantInv ==
    /\ \A a \in subacks : a.ok => subscribed
    /\ npc = "granted" /\ link => subscribed
    /\ npc = "connected" => ~ ready

\* TypeOK in two parts, the flags and the rest.
Flags == /\ connected \in BOOLEAN /\ ready \in BOOLEAN /\ due \in BOOLEAN
         /\ link \in BOOLEAN /\ subscribed \in BOOLEAN /\ backlog \in BOOLEAN
         /\ (role = "relay" => ~ backlog)
Ranges ==
    /\ role \in {"sender", "relay"}
    /\ mid \in {None, Sentinel} \cup 1 .. MaxMid
    /\ call \in [Threads -> {"idle", "asking", "locking", "subscribe", "returned", "raised",
                            "attempt"}]
    /\ got \in [Threads -> 0 .. MaxMid]
    /\ npc \in {"idle", "connected", "disconnected", "granted", "refused"}
    /\ asked \subseteq 1 .. MaxMid /\ subacks \subseteq Answers
    /\ setbacks \in 0 .. MaxSetbacks
    /\ mid = Sentinel => \E t \in Threads : call[t] \in {"subscribe", "returned", "raised"}

Inv == Flags /\ Ranges /\ CallbackInv /\ GrantInv /\ ReadyMeansSubscribed
-----------------------------------------------------------------------------
\* The least free packet identifier is a free one.
LEMMA LeastFree == FreeMids # {} => Min(FreeMids) \in 1 .. MaxMid
<1> SUFFICES ASSUME FreeMids # {} PROVE Min(FreeMids) \in 1 .. MaxMid
  OBVIOUS
<1>1. FreeMids \subseteq 1 .. MaxMid /\ FreeMids \subseteq Nat
  BY DEF FreeMids
<1>2. PICK x \in FreeMids : \A y \in FreeMids : ~ (<<y, x>> \in OpToRel(<, Nat))
  BY <1>1, NatLessThanWellFounded, WFMin
<1>3. \A y \in FreeMids : ~ (y < x)
  BY <1>1, <1>2, Zenon DEF OpToRel
<1>4. \A y \in FreeMids : x <= y
  BY <1>1, <1>3
<1>5. Min(FreeMids) \in FreeMids
  BY <1>4 DEF Min
<1> QED
  BY <1>1, <1>5

LEMMA InvInit == Init => Inv
<1> SUFFICES ASSUME Init PROVE Inv
  OBVIOUS
<1>1. Flags
  BY Zenon DEF Init, Flags
<1>2. Ranges
  BY BoundAssumption DEF Init, Ranges, Threads, None, Sentinel
<1>3. CallbackInv /\ GrantInv /\ ReadyMeansSubscribed
  BY DEF Init, CallbackInv, GrantInv, ReadyMeansSubscribed
<1> QED
  BY <1>1, <1>2, <1>3 DEF Inv

LEMMA InvStep == Inv /\ [Next]_vars => Inv'
<1> SUFFICES ASSUME Inv, [Next]_vars PROVE Inv'
  OBVIOUS
<1> USE BoundAssumption DEF Inv, CallbackInv, GrantInv, ReadyMeansSubscribed, Threads,
                            None, Sentinel, owner, shared, broker
<1>1. ASSUME NEW t \in Threads, Asks(t) PROVE Inv'
  <2>a. Flags'
    BY <1>1, Zenon DEF Asks, Flags
  <2>b. Ranges'
    BY <1>1 DEF Asks, Ranges
  <2>c. CallbackInv' /\ GrantInv'
    BY <1>1 DEF Asks, Flags, Ranges
  <2>d. ReadyMeansSubscribed'
    BY <1>1 DEF Asks, Flags, Ranges
  <2> QED
    BY <2>a, <2>b, <2>c, <2>d
<1>2. ASSUME NEW t \in Threads, Request(t) PROVE Inv'
  <2>a. Flags'
    BY <1>2, Zenon DEF Request, Flags
  <2>b. Ranges'
    BY <1>2 DEF Request, Ranges
  <2>c. CallbackInv' /\ GrantInv'
    BY <1>2 DEF Request, Flags, Ranges
  <2>d. ReadyMeansSubscribed'
    BY <1>2 DEF Request, Flags, Ranges
  <2> QED
    BY <2>a, <2>b, <2>c, <2>d
<1>3. ASSUME NEW t \in Threads, Subscribe(t) PROVE Inv'
  <2>1. FreeMids # {} => Min(FreeMids) \in 1 .. MaxMid
    BY LeastFree
  <2>a. Flags'
    BY <1>3, <2>1, Zenon DEF Subscribe, Setback, Flags
  <2>2. /\ asked' \subseteq 1 .. MaxMid /\ got' \in [Threads -> 0 .. MaxMid]
        /\ setbacks' \in 0 .. MaxSetbacks
    <3>1. ASSUME NEW m \in 1 .. MaxMid, asked' = asked \cup {m},
                 got' = [got EXCEPT ![t] = m], setbacks' = setbacks
          PROVE  /\ asked' \subseteq 1 .. MaxMid /\ got' \in [Threads -> 0 .. MaxMid]
                 /\ setbacks' \in 0 .. MaxSetbacks
      <4>1. m \in 0 .. MaxMid
        OBVIOUS
      <4>2. got' \in [Threads -> 0 .. MaxMid]
        BY <3>1, <4>1 DEF Ranges
      <4> QED
        BY <3>1, <4>2 DEF Ranges
    <3>2. CASE asked' = asked /\ got' = [got EXCEPT ![t] = None] /\ setbacks' = setbacks
      BY <3>2 DEF Ranges
    <3>3. CASE asked' = asked /\ got' = got /\ Setback
      BY <3>3 DEF Setback, Ranges
    <3> QED
      BY <1>3, <2>1, <3>1, <3>2, <3>3 DEF Subscribe
  <2>3. /\ call' = [call EXCEPT ![t] = "returned"] \/ call' = [call EXCEPT ![t] = "raised"]
        /\ UNCHANGED <<role, mid, npc, subacks>>
    BY <1>3 DEF Subscribe
  <2>b. Ranges'
    BY <2>2, <2>3 DEF Ranges
  <2>c. CallbackInv' /\ GrantInv'
    BY <1>3 DEF Subscribe, Setback, Flags, Ranges
  <2>d. ReadyMeansSubscribed'
    BY <1>3 DEF Subscribe, Setback, Flags, Ranges
  <2> QED
    BY <2>a, <2>b, <2>c, <2>d
<1>4. ASSUME NEW t \in Threads, Returned(t) PROVE Inv'
  <2>a. Flags'
    BY <1>4, Zenon DEF Returned, Flags
  <2>b. Ranges'
    BY <1>4 DEF Returned, Ranges
  <2>c. CallbackInv' /\ GrantInv'
    BY <1>4 DEF Returned, Flags, Ranges
  <2>d. ReadyMeansSubscribed'
    BY <1>4 DEF Returned, Flags, Ranges
  <2> QED
    BY <2>a, <2>b, <2>c, <2>d
<1>5. CASE WorkerAsks
  <2>a. Flags'
    BY <1>5, Zenon DEF WorkerAsks, Flags
  <2>b. Ranges'
    BY <1>5 DEF WorkerAsks, Ranges
  <2>c. CallbackInv' /\ GrantInv'
    BY <1>5 DEF WorkerAsks, Flags, Ranges
  <2>d. ReadyMeansSubscribed'
    BY <1>5 DEF WorkerAsks, Flags, Ranges
  <2> QED
    BY <2>a, <2>b, <2>c, <2>d
<1>6. CASE RetryDue
  <2>a. Flags'
    BY <1>6, Zenon DEF RetryDue, Flags
  <2>b. Ranges'
    BY <1>6 DEF RetryDue, Ranges
  <2>c. CallbackInv' /\ GrantInv'
    BY <1>6 DEF RetryDue, Flags, Ranges
  <2>d. ReadyMeansSubscribed'
    BY <1>6 DEF RetryDue, Flags, Ranges
  <2> QED
    BY <2>a, <2>b, <2>c, <2>d
<1>7. CASE OnConnect
  <2>a. Flags'
    BY <1>7, Zenon DEF OnConnect, NetworkIdle, Flags
  <2>b. Ranges'
    BY <1>7 DEF OnConnect, NetworkIdle, Ranges
  <2>c. CallbackInv' /\ GrantInv'
    BY <1>7 DEF OnConnect, NetworkIdle, Flags, Ranges
  <2>d. ReadyMeansSubscribed'
    BY <1>7 DEF OnConnect, NetworkIdle, Flags, Ranges
  <2> QED
    BY <2>a, <2>b, <2>c, <2>d
<1>8. CASE ConnectResets
  <2>a. Flags'
    BY <1>8, Zenon DEF ConnectResets, Flags
  <2>b. Ranges'
    BY <1>8 DEF ConnectResets, Ranges
  <2>c. CallbackInv' /\ GrantInv'
    BY <1>8 DEF ConnectResets, Flags, Ranges
  <2>d. ReadyMeansSubscribed'
    BY <1>8 DEF ConnectResets, Flags, Ranges
  <2> QED
    BY <2>a, <2>b, <2>c, <2>d
<1>9. CASE LinkBreaks
  <2>a. Flags'
    BY <1>9, Zenon DEF LinkBreaks, Setback, Flags
  <2>b. Ranges'
    BY <1>9 DEF LinkBreaks, Setback, Ranges
  <2>c. CallbackInv' /\ GrantInv'
    BY <1>9 DEF LinkBreaks, Setback, Flags, Ranges
  <2>d. ReadyMeansSubscribed'
    BY <1>9 DEF LinkBreaks, Setback, Flags, Ranges
  <2> QED
    BY <2>a, <2>b, <2>c, <2>d
<1>10. CASE MarkDisconnected
  <2>a. Flags'
    BY <1>10, Zenon DEF MarkDisconnected, Setback, NetworkIdle, Flags
  <2>b. Ranges'
    BY <1>10 DEF MarkDisconnected, Setback, NetworkIdle, Ranges
  <2>c. CallbackInv' /\ GrantInv'
    BY <1>10 DEF MarkDisconnected, Setback, NetworkIdle, Flags, Ranges
  <2>d. ReadyMeansSubscribed'
    BY <1>10 DEF MarkDisconnected, Setback, NetworkIdle, Flags, Ranges
  <2> QED
    BY <2>a, <2>b, <2>c, <2>d
<1>11. CASE DisconnectResets
  <2>a. Flags'
    BY <1>11, Zenon DEF DisconnectResets, Flags
  <2>b. Ranges'
    BY <1>11 DEF DisconnectResets, Ranges
  <2>c. CallbackInv' /\ GrantInv'
    BY <1>11 DEF DisconnectResets, Flags, Ranges
  <2>d. ReadyMeansSubscribed'
    BY <1>11 DEF DisconnectResets, Flags, Ranges
  <2> QED
    BY <2>a, <2>b, <2>c, <2>d
<1>12. CASE SubackApplied
  <2>a. Flags'
    BY <1>12, Zenon DEF SubackApplied, Flags
  <2>b. Ranges'
    BY <1>12 DEF SubackApplied, Ranges
  <2>c. CallbackInv' /\ GrantInv'
    BY <1>12 DEF SubackApplied, Flags, Ranges
  <2>d. ReadyMeansSubscribed'
    BY <1>12 DEF SubackApplied, Flags, Ranges
  <2> QED
    BY <2>a, <2>b, <2>c, <2>d
<1>13. ASSUME NEW a \in subacks, OnSubscribe(a) PROVE Inv'
  <2>a. Flags'
    BY <1>13, Zenon DEF OnSubscribe, Grants, Flags
  <2>c. Ranges'
    BY <1>13 DEF OnSubscribe, Grants, Ranges
  <2>b. CallbackInv' /\ GrantInv' /\ ReadyMeansSubscribed'
    BY <1>13 DEF OnSubscribe, Grants, NetworkIdle, Flags, Ranges
  <2> QED
    BY <2>a, <2>b, <2>c
<1>14. ASSUME NEW m \in asked, BrokerAnswers(m) PROVE Inv'
  <2>1. m \in 1 .. MaxMid
    BY DEF Ranges
  <2>2. [mid |-> m, ok |-> TRUE] \in Answers /\ [mid |-> m, ok |-> FALSE] \in Answers
    BY <2>1 DEF Answers
  <2>a. Flags'
    BY <1>14, Zenon DEF BrokerAnswers, Flags
  <2>3. subacks' \subseteq Answers
    BY <1>14, <2>2 DEF BrokerAnswers, Ranges
  <2>4. /\ asked' \subseteq asked /\ setbacks' \in 0 .. MaxSetbacks
        /\ UNCHANGED <<role, mid, call, got, npc>>
    BY <1>14 DEF BrokerAnswers, Setback, Ranges
  <2>c. Ranges'
    BY <2>3, <2>4 DEF Ranges
  <2>b. CallbackInv' /\ GrantInv' /\ ReadyMeansSubscribed'
    BY <1>14 DEF BrokerAnswers, Setback, Flags, Ranges
  <2> QED
    BY <2>a, <2>b, <2>c
<1>15. CASE Publish
  <2>a. Flags'
    BY <1>15, Zenon DEF Publish, Flags
  <2>b. Ranges'
    BY <1>15 DEF Publish, Ranges
  <2>c. CallbackInv' /\ GrantInv'
    BY <1>15 DEF Publish, Flags, Ranges
  <2>d. ReadyMeansSubscribed'
    BY <1>15 DEF Publish, Flags, Ranges
  <2> QED
    BY <2>a, <2>b, <2>c, <2>d
<1>16. CASE AttemptBegins
  <2>a. Flags'
    BY <1>16, Zenon DEF AttemptBegins, Flags
  <2>b. Ranges'
    BY <1>16 DEF AttemptBegins, Ranges
  <2>c. CallbackInv' /\ GrantInv'
    BY <1>16 DEF AttemptBegins, Flags, Ranges
  <2>d. ReadyMeansSubscribed'
    BY <1>16 DEF AttemptBegins, Flags, Ranges
  <2> QED
    BY <2>a, <2>b, <2>c, <2>d
<1>17. CASE AttemptEnds
  <2>a. Flags'
    BY <1>17, Zenon DEF AttemptEnds, Flags
  <2>b. Ranges'
    BY <1>17 DEF AttemptEnds, Ranges
  <2>c. CallbackInv' /\ GrantInv'
    BY <1>17 DEF AttemptEnds, Flags, Ranges
  <2>d. ReadyMeansSubscribed'
    BY <1>17 DEF AttemptEnds, Flags, Ranges
  <2> QED
    BY <2>a, <2>b, <2>c, <2>d
<1>18. CASE UNCHANGED vars
  BY <1>18, Zenon DEF vars, Flags, Ranges
<1> QED
  BY <1>1, <1>2, <1>3, <1>4, <1>5, <1>6, <1>7, <1>8, <1>9, <1>10, <1>11, <1>12, <1>13,
     <1>14, <1>15, <1>16, <1>17, <1>18 DEF Next

\* The variables of Subscription stay in their ranges, and the sentinel that matches any
\* SUBACK is in place only while a call of subscribe() is under way.
THEOREM TypeCorrect == Spec => []TypeOK
<1>1. Inv => TypeOK
  BY DEF Inv, Flags, Ranges, TypeOK
<1> QED
  BY <1>1, InvInit, InvStep, PTL DEF Spec

\* Ready on a live connection means subscribed on that connection (_on_subscribe).
THEOREM ReadyCorrect == Spec => []ReadyMeansSubscribed
<1>1. Inv => ReadyMeansSubscribed
  BY DEF Inv
<1> QED
  BY <1>1, InvInit, InvStep, PTL DEF Spec
=============================================================================
