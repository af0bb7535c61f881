----------------------------- MODULE AckTracker -----------------------------
(***************************************************************************)
(* The acknowledgement tracker of src/reliomq/ack.py: the one expectation  *)
(* of the delivery worker, met by a callback of the network thread or cut  *)
(* off by a disconnect, a stop or a timeout.  Each operation holds the     *)
(* tracker's lock and is one step; wait() is two, because the event is     *)
(* awaited before the lock is taken.                                       *)
(***************************************************************************)
CONSTANTS Ids, NoMessage

ASSUME NoMessageAssumption == NoMessage \notin Ids

VARIABLES
    expected,     \* _expected_message_id
    matched,      \* _matched
    interrupted,  \* _interrupted
    event         \* _event is set

tracker == <<expected, matched, interrupted, event>>

TrackerInit == /\ expected = NoMessage /\ matched = FALSE
               /\ interrupted = FALSE /\ event = FALSE

TrackerTypeOK == /\ expected \in Ids \cup {NoMessage} /\ matched \in BOOLEAN
                 /\ interrupted \in BOOLEAN /\ event \in BOOLEAN
-----------------------------------------------------------------------------
\* begin() raises when an expectation is active.
Begin(m) ==
    /\ expected = NoMessage
    /\ expected' = m /\ matched' = FALSE /\ interrupted' = FALSE /\ event' = FALSE

\* Mutant: the identifier is not compared.
MatchesAny(m) == expected # NoMessage /\ ~ interrupted

Matches(m) == expected = m /\ ~ interrupted

Match(m) ==
    /\ matched' = (matched \/ Matches(m)) /\ event' = (event \/ Matches(m))
    /\ UNCHANGED <<expected, interrupted>>

\* Mutant: a wait that was not signalled does not look at the ACK again.
ConfirmedBySignal(signalled) == signalled /\ matched /\ ~ interrupted

\* The verdict of wait() ...
Confirmed(signalled) == matched /\ ~ interrupted

\* ... which closes the expectation when the event did not come in time.
SettleWait(signalled) ==
    /\ interrupted' = (interrupted \/ (~ signalled /\ ~ matched))
    /\ UNCHANGED <<expected, matched, event>>

Interrupt ==
    /\ interrupted' = TRUE /\ event' = TRUE
    /\ UNCHANGED <<expected, matched>>

End == expected' = NoMessage /\ matched' = FALSE /\ interrupted' = FALSE /\ event' = FALSE
=============================================================================
