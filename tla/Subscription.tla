---------------------------- MODULE Subscription ----------------------------
(***************************************************************************)
(* How a client comes to trust its MQTT subscription: the DeliveryAck      *)
(* subscription of src/reliomq/sender.py and the source subscription of    *)
(* relay.py, which differ in when they set and clear what.  The network    *)
(* thread asks in _on_connect, the worker asks again while it is not       *)
(* ready, a Sender's only when it has a message to deliver; each call of   *)
(* subscribe() runs outside the lock and may return late, into another     *)
(* connection.  The client is in service: stop() ends all of this.         *)
(***************************************************************************)
EXTENDS Integers, FiniteSets, FiniteSetsExt

CONSTANTS
    MaxMid,         \* bound: packet identifiers in use at a time
    MaxSetbacks     \* bound: lost connections, rejections and exceptions

ASSUME BoundAssumption == MaxMid \in Nat /\ MaxSetbacks \in Nat

VARIABLES
    role,        \* whose subscription it is: "sender" or "relay"
    connected,   \* _connected
    ready,       \* _ack_subscription_ready
    mid,         \* _subscription_mid, 0 for None
    due,         \* _next_subscription_attempt is not in the future
    backlog,     \* the Sender's _pending is not empty
    call,        \* each thread's _request_ack_subscription: where it is
    got,         \* each thread's result of subscribe(), 0 when it was not sent
    npc,         \* the network thread's callback
    link,        \* Paho is connected
    asked,       \* SUBSCRIBEs of this connection, not answered yet
    subacks,     \* SUBACKs of this connection, not handled yet: [mid, ok]
    subscribed,  \* the broker granted the subscription in this connection
    setbacks

owner  == <<role, backlog>>
shared == <<connected, ready, mid, due>>
broker == <<link, asked, subacks, subscribed>>
vars == <<owner, shared, call, got, npc, broker, setbacks>>

Threads == {"network", "worker"}
None == 0
Sentinel == -1
Answers == [mid : 1 .. MaxMid, ok : BOOLEAN]

Setback == setbacks < MaxSetbacks /\ setbacks' = setbacks + 1
-----------------------------------------------------------------------------
(* _request_ack_subscription and _request_source_subscription.            *)

\* Before the lock is taken ...
Asks(t) ==
    /\ call[t] = "asking"
    /\ call' = [call EXCEPT ![t] = IF connected /\ ~ ready THEN "locking" ELSE "idle"]
    /\ UNCHANGED <<owner, shared, got, npc, broker, setbacks>>

\* Mutant: a request that has no answer yet is never repeated.
WantedOnce == ~ ready /\ due /\ mid = None

\* ... and under it.
Wanted == ~ ready /\ due

Request(t) ==
    /\ call[t] = "locking"
    /\ \/ /\ Wanted
          /\ mid' = Sentinel /\ due' = FALSE /\ call' = [call EXCEPT ![t] = "subscribe"]
       \/ /\ ~ Wanted
          /\ call' = [call EXCEPT ![t] = "idle"] /\ UNCHANGED <<mid, due>>
    /\ UNCHANGED <<owner, connected, ready, got, npc, broker, setbacks>>

\* The packet identifiers that are not in use.
FreeMids == (1 .. MaxMid) \ (asked \cup {a.mid : a \in subacks} \cup {mid}
                                  \cup {got[t] : t \in Threads})

\* subscribe(): sent, refused by Paho without a connection, or raising.
Subscribe(t) ==
    /\ call[t] = "subscribe"
    /\ \/ /\ link /\ FreeMids # {}
          /\ LET m == Min(FreeMids)
             IN  asked' = asked \cup {m} /\ got' = [got EXCEPT ![t] = m]
          /\ call' = [call EXCEPT ![t] = "returned"] /\ UNCHANGED setbacks
       \/ /\ ~ link
          /\ got' = [got EXCEPT ![t] = None]
          /\ call' = [call EXCEPT ![t] = "returned"] /\ UNCHANGED <<asked, setbacks>>
       \/ /\ Setback
          /\ call' = [call EXCEPT ![t] = "raised"] /\ UNCHANGED <<asked, got>>
    /\ UNCHANGED <<owner, shared, npc, link, subacks, subscribed>>

\* Mutant: an exception leaves the sentinel behind.
ReturnedRaised(t) ==
    /\ call[t] = "raised"
    /\ call' = [call EXCEPT ![t] = "idle"] /\ got' = [got EXCEPT ![t] = None]
    /\ UNCHANGED <<owner, shared, npc, broker, setbacks>>

Returned(t) ==
    /\ call[t] \in {"returned", "raised"}
    /\ call' = [call EXCEPT ![t] = "idle"] /\ got' = [got EXCEPT ![t] = None]
    /\ \/ /\ call[t] = "raised"
          /\ mid' = None /\ UNCHANGED ready
       \/ /\ call[t] = "returned" /\ got[t] = None
          /\ mid' = None /\ ready' = (role = "relay" /\ ready)
       \/ /\ call[t] = "returned" /\ got[t] # None
          /\ mid' = (IF mid = Sentinel THEN got[t] ELSE mid) /\ UNCHANGED ready
    /\ UNCHANGED <<owner, connected, due, npc, broker, setbacks>>

\* The Sender's worker has a message and finds the connection not ready.
SenderAsks == role = "sender" /\ backlog /\ ~ (connected /\ ready /\ link)

\* The Relay's looks at the subscription alone.
RelayAsks == role = "relay" /\ connected /\ ~ ready /\ due

WorkerAsks ==
    /\ call["worker"] = "idle" /\ (SenderAsks \/ RelayAsks)
    /\ call' = [call EXCEPT !["worker"] = "asking"]
    /\ UNCHANGED <<owner, shared, got, npc, broker, setbacks>>

\* publish(), where the Sender had nothing to deliver.
Publish ==
    /\ role = "sender" /\ ~ backlog /\ backlog' = TRUE
    /\ UNCHANGED <<role, shared, call, got, npc, broker, setbacks>>

\* On a ready connection the Sender's worker makes an attempt instead of asking ...
AttemptBegins ==
    /\ call["worker"] = "idle" /\ backlog /\ connected /\ ready /\ link
    /\ call' = [call EXCEPT !["worker"] = "attempt"]
    /\ UNCHANGED <<owner, shared, got, npc, broker, setbacks>>

\* ... which may deliver the last message it has.
AttemptEnds ==
    /\ role = "sender" /\ call["worker"] = "attempt"
    /\ call' = [call EXCEPT !["worker"] = "idle"] /\ backlog' \in BOOLEAN
    /\ UNCHANGED <<role, shared, got, npc, broker, setbacks>>

\* retry_interval passes; the bound leaves an identifier to each thread.
RetryDue ==
    /\ ~ due /\ due' = TRUE /\ Cardinality(FreeMids) > 2
    /\ UNCHANGED <<owner, connected, ready, mid, call, got, npc, broker, setbacks>>
-----------------------------------------------------------------------------
(* The network thread.                                                     *)

NetworkIdle == npc = "idle" /\ call["network"] = "idle"

OnConnect ==
    /\ NetworkIdle /\ ~ link /\ ~ connected
    /\ link' = TRUE /\ ready' = FALSE /\ npc' = "connected"
    /\ \/ role = "sender" /\ connected' = TRUE /\ UNCHANGED <<mid, due>>
       \/ role = "relay" /\ mid' = None /\ due' = TRUE /\ UNCHANGED connected
    /\ UNCHANGED <<owner, call, got, asked, subacks, subscribed, setbacks>>

ConnectResets ==
    /\ npc = "connected" /\ npc' = "idle"
    /\ call' = [call EXCEPT !["network"] = "asking"]
    /\ \/ role = "sender" /\ mid' = None /\ due' = TRUE /\ UNCHANGED connected
       \/ role = "relay" /\ connected' = TRUE /\ UNCHANGED <<mid, due>>
    /\ UNCHANGED <<owner, ready, got, broker, setbacks>>

\* The connection and what was under way on it are gone.
LinkBreaks ==
    /\ link /\ Setback
    /\ link' = FALSE /\ asked' = {} /\ subacks' = {} /\ subscribed' = FALSE
    /\ UNCHANGED <<owner, shared, call, got, npc>>

\* _mark_disconnected and _on_source_disconnect, after a lost connection or a failed
\* attempt at one.
MarkDisconnected ==
    /\ NetworkIdle /\ ~ link
    /\ \/ connected /\ UNCHANGED setbacks
       \/ ~ connected /\ Setback
    /\ connected' = FALSE /\ ready' = FALSE /\ npc' = "disconnected"
    /\ UNCHANGED <<owner, mid, due, call, got, broker>>

DisconnectResets ==
    /\ npc = "disconnected" /\ npc' = "idle"
    /\ mid' = None /\ due' = TRUE
    /\ UNCHANGED <<owner, connected, ready, call, got, broker, setbacks>>

\* Mutant: any SUBACK is taken for the grant.
GrantsAny(ok) == connected

Grants(ok) == ok /\ connected

OnSubscribe(a) ==
    /\ NetworkIdle /\ link /\ a \in subacks /\ subacks' = subacks \ {a}
    /\ \/ /\ mid \notin {Sentinel, a.mid}
          /\ UNCHANGED <<mid, ready, due, npc>>
       \/ /\ mid \in {Sentinel, a.mid}
          /\ mid' = None /\ due' = Grants(a.ok)
          /\ \/ role = "sender" /\ ready' = Grants(a.ok) /\ UNCHANGED npc
             \/ /\ role = "relay" /\ UNCHANGED ready
                /\ npc' = IF Grants(a.ok) THEN "granted" ELSE "refused"
    /\ UNCHANGED <<owner, connected, call, got, link, asked, subscribed, setbacks>>

\* The Relay releases the lock first.
SubackApplied ==
    /\ npc \in {"granted", "refused"} /\ npc' = "idle" /\ ready' = (npc = "granted")
    /\ UNCHANGED <<owner, connected, mid, due, call, got, broker, setbacks>>

\* The broker grants or rejects a SUBSCRIBE.
BrokerAnswers(m) ==
    /\ m \in asked /\ asked' = asked \ {m}
    /\ \/ /\ subacks' = subacks \cup {[mid |-> m, ok |-> TRUE]} /\ subscribed' = TRUE
          /\ UNCHANGED setbacks
       \/ /\ subacks' = subacks \cup {[mid |-> m, ok |-> FALSE]} /\ UNCHANGED subscribed
          /\ Setback
    /\ UNCHANGED <<owner, shared, call, got, npc, link>>
-----------------------------------------------------------------------------
Init ==
    /\ role \in {"sender", "relay"}
    /\ connected = FALSE /\ ready = FALSE /\ mid = None /\ due = TRUE /\ backlog = FALSE
    /\ call = [t \in Threads |-> "idle"] /\ got = [t \in Threads |-> None] /\ npc = "idle"
    /\ link = FALSE /\ asked = {} /\ subacks = {} /\ subscribed = FALSE
    /\ setbacks = 0

Next ==
    \/ \E t \in Threads : Asks(t) \/ Request(t) \/ Subscribe(t) \/ Returned(t)
    \/ WorkerAsks \/ Publish \/ AttemptBegins \/ AttemptEnds \/ RetryDue
    \/ OnConnect \/ ConnectResets \/ LinkBreaks \/ MarkDisconnected \/ DisconnectResets
    \/ SubackApplied
    \/ \E a \in subacks : OnSubscribe(a)
    \/ \E m \in asked : BrokerAnswers(m)

Spec == Init /\ [][Next]_vars

\* The threads run, Paho reconnects, the broker answers, every attempt ends by its timeouts
\* and the worker comes back every retry_interval; nobody has to publish.
FairSpec ==
    /\ Spec
    /\ \A t \in Threads : WF_vars(Asks(t) \/ Request(t)) /\ WF_vars(Subscribe(t)) /\ WF_vars(Returned(t))
    /\ WF_vars(WorkerAsks) /\ WF_vars(AttemptEnds) /\ WF_vars(RetryDue)
    /\ WF_vars(OnConnect \/ ConnectResets \/ MarkDisconnected \/ DisconnectResets
                  \/ SubackApplied)
    /\ WF_vars(\E a \in subacks : OnSubscribe(a)) /\ WF_vars(\E m \in asked : BrokerAnswers(m))
-----------------------------------------------------------------------------
TypeOK ==
    /\ role \in {"sender", "relay"}
    /\ connected \in BOOLEAN /\ ready \in BOOLEAN /\ due \in BOOLEAN
    /\ mid \in {None, Sentinel} \cup 1 .. MaxMid
    /\ backlog \in BOOLEAN /\ (role = "relay" => ~ backlog)
    /\ call \in [Threads -> {"idle", "asking", "locking", "subscribe", "returned", "raised",
                            "attempt"}]
    /\ got \in [Threads -> 0 .. MaxMid]
    /\ npc \in {"idle", "connected", "disconnected", "granted", "refused"}
    /\ link \in BOOLEAN /\ asked \subseteq 1 .. MaxMid /\ subscribed \in BOOLEAN
    /\ subacks \subseteq Answers
    /\ setbacks \in 0 .. MaxSetbacks
    \* The sentinel matches any SUBACK: it stands only while a call that set it runs.
    /\ mid = Sentinel => \E t \in Threads : call[t] \in {"subscribe", "returned", "raised"}

\* A client that calls itself ready on a live connection is subscribed on that very
\* connection, though calls of an earlier connection return into it and their packet
\* identifiers get mixed up (_on_subscribe, _mark_disconnected, _on_connect).
ReadyMeansSubscribed == ready /\ connected /\ link => subscribed

\* From some point on SUBACKs come back before the next request is due.
BrokerPrompt == <>[][RetryDue => asked = {} /\ subacks = {}]_vars

\* The Relay's worker always looks after the subscription, a Sender's only when it has a
\* message: an idle Sender that was rejected stays so until the next publish().
MustServe == role = "relay" \/ backlog

\* Whatever SUBACKs were ignored as stale and whatever a late call overwrote, on a
\* connection that stays up a client that has something to do eventually is ready and
\* stays so.
EventuallyReady == <>[]link /\ BrokerPrompt => <>[](MustServe => ready)
=============================================================================
