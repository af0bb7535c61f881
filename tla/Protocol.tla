------------------------------ MODULE Protocol ------------------------------
(***************************************************************************)
(* The message envelope of src/reliomq/protocol.py and the one-file journal*)
(* that older versions kept (the legacy part of src/reliomq/outbox.py), as *)
(* parsed JSON: text that is not strict JSON, a value that is no object,   *)
(* or an object with its fields.                                           *)
(***************************************************************************)
CONSTANTS
    Ids,      \* identifiers that validate_message_id accepts
    Null,     \* JSON null
    NewId     \* an identifier made up by new_message_id

ASSUME IdAssumption == Null \notin Ids /\ NewId \notin Ids /\ Null # NewId

Invalid == [kind |-> "invalid"]
Scalar == [kind |-> "scalar"]
Object(f) == [kind |-> "object", fields |-> f]

Has(value, key) == value.kind = "object" /\ key \in DOMAIN value.fields

RequireSchema(value, keys) == value.kind = "object" /\ DOMAIN value.fields = keys
-----------------------------------------------------------------------------
(* The envelope.  Topic and payload matter only as valid or not.           *)

EncodeMessage(id) ==
    Object([version |-> 1, event_id |-> id, topic |-> "valid", payload |-> "valid"])

\* A null identifier counts as one that was not given.
ResolveMessageId(id) == IF id = Null THEN NewId ELSE id

ValidateMessage(e) ==
    /\ e.topic = "valid" /\ e.payload = "valid" /\ e.version = 1
    /\ ResolveMessageId(e.event_id) \in Ids \cup {NewId}

IsMessage(value) ==
    /\ RequireSchema(value, {"version", "event_id", "topic", "payload"})
    /\ ValidateMessage(value.fields)

DecodeMessage(value) == ResolveMessageId(value.fields.event_id)
-----------------------------------------------------------------------------
(* The journal's lines.                                                    *)

EncodeEnqueue(id) ==
    Object([journal_version |-> 1, op |-> "enqueue", envelope |-> EncodeMessage(id)])

EncodeAck(id) == Object([journal_version |-> 1, op |-> "ack", message_id |-> id])

Corrupt == [op |-> "corrupt"]
Record(op, id) == [op |-> op, id |-> id]

IsEnqueue(value) ==
    /\ RequireSchema(value, {"journal_version", "op", "envelope"})
    /\ value.fields.journal_version = 1 /\ value.fields.op = "enqueue"
    /\ IsMessage(value.fields.envelope)

IsAck(value) ==
    /\ RequireSchema(value, {"journal_version", "op", "message_id"})
    /\ value.fields.journal_version = 1 /\ value.fields.op = "ack"
    /\ value.fields.message_id \in Ids

\* A line without the journal's own keys is an envelope by itself; whatever fits no
\* schema is corrupt.
DecodeLegacyRecord(value) ==
    CASE IsMessage(value) -> Record("enqueue", DecodeMessage(value))
      [] IsEnqueue(value) -> Record("enqueue", DecodeMessage(value.fields.envelope))
      [] IsAck(value)     -> Record("ack", value.fields.message_id)
      [] OTHER            -> Corrupt
=============================================================================
