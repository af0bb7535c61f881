--------------------------- MODULE MigrationProofs ---------------------------
(***************************************************************************)
(* Proofs about the migration of a legacy journal, for journals of any     *)
(* length, any number of damaged lines and of interruptions, and segments  *)
(* of any size: the types and limits, and that no message is discarded or  *)
(* comes back.                                                             *)
(***************************************************************************)
EXTENDS Migration, SequenceTheorems, WellFoundedInduction, TLAPS

\* The entries an older version writes, and what may become of them.
Legacy == {EncodeMessage(m) : m \in Ids} \cup {EncodeEnqueue(m) : m \in Ids}
            \cup {EncodeAck(m) : m \in Ids}
Entries == Legacy \cup UNION {DamagedForms(entry) : entry \in Legacy}

\* What line i is read as.
Enqueues(i, m) == DecodeLegacyRecord(journal[i]) = Record("enqueue", m)
Acks(i, m)     == DecodeLegacyRecord(journal[i]) = Record("ack", m)

Positions == 1 .. Len(journal)

\* The journal's lines are as written, or damaged.
LinesInv ==
    /\ journal \in Seq(Entries)
    /\ \A i \in Positions :
          journal[i] \in Legacy \/ DecodeLegacyRecord(journal[i]) \in {Corrupt, Renamed}

\* A message is enqueued in one line and acknowledged in a later one.
OnceInv ==
    \A i, j \in Positions, m \in Messages :
        /\ Enqueues(i, m) /\ Enqueues(j, m) => i = j
        /\ Acks(i, m) /\ Acks(j, m) => i = j
        /\ Enqueues(i, m) /\ Acks(j, m) => i < j
        /\ Enqueues(i, m) => m = NewId \/ m \in issued \ damaged
        /\ Acks(i, m) => m \in issued \ ToSet(owed)

\* What is owed has its line unless that is damaged, in the order of the FIFO; what is not
\* owed has its acknowledgement, or is in doubt.
OwedInv ==
    /\ \A m \in ToSet(owed) \ damaged : \E i \in Positions : Enqueues(i, m)
    /\ \A k, l \in 1 .. Len(owed), i, j \in Positions :
          k < l /\ Enqueues(i, owed[k]) /\ Enqueues(j, owed[l]) => i < j
    /\ \A i \in Positions, m \in Ids :
          Enqueues(i, m) => m \in ToSet(owed) \cup doubtful \/ \E l \in Positions : Acks(l, m)

\* An acknowledgement that is not in doubt stands behind those of all messages before its
\* own, none of them in doubt, and behind no line that lost its identifier.
DoubtInv ==
    /\ \A i, j, k \in Positions, m, x \in Ids :
          /\ Enqueues(i, m) /\ Enqueues(j, x) /\ Acks(k, x) /\ i < j
             => x \in doubtful \/ \E l \in 1 .. k - 1 : Acks(l, m)
          /\ Acks(j, m) /\ Acks(k, x) /\ j < k /\ m \in doubtful => x \in doubtful
    /\ \A i, k \in Positions, x \in Ids :
          Enqueues(i, NewId) /\ Acks(k, x) /\ i < k => x \in doubtful
    /\ \A i \in Positions : Enqueues(i, NewId) => damaged # {}
    /\ damages = 0 => damaged = {} /\ doubtful = {}

JournalInv == LinesInv /\ OnceInv /\ OwedInv /\ DoubtInv

\* The queue q that n lines replay to.
ReplayInv(q, n) ==
    /\ n \in 0 .. Len(journal) /\ q \in Seq(Messages)
    /\ \A k \in 1 .. Len(q) : \E i \in 1 .. n : Enqueues(i, q[k])
    /\ \A k, l \in 1 .. Len(q), i, j \in Positions :
          k < l /\ Enqueues(i, q[k]) /\ Enqueues(j, q[l]) => i < j
    /\ \A k \in 1 .. Len(q), l \in 1 .. n : Acks(l, q[k]) => q[k] \in doubtful
    /\ \A i \in 1 .. n, m \in Messages :
          Enqueues(i, m) => m \in ToSet(q) \/ \E l \in 1 .. n : Acks(l, m)

\* A queue that discards and brings back nothing.
Excused == IF damaged = {} THEN {} ELSE {NewId}

Keeps(q) ==
    /\ ToSet(q) \cap ToSet(owed) = ToSet(owed) \ damaged
    /\ \A k, l \in 1 .. Len(q), x, y \in 1 .. Len(owed) :
          k < l /\ q[k] = owed[x] /\ q[l] = owed[y] => x < y

Faithful(q) ==
    /\ q \in Seq(Messages)
    /\ \A k, l \in 1 .. Len(q) : q[k] = q[l] => k = l
    /\ ToSet(q) \cap completed = {} /\ ToSet(q) \subseteq issued \cup {NewId}
    /\ ToSet(q) \subseteq ToSet(owed) \cup doubtful \cup Excused
    /\ Keeps(q)

\* What was accepted.
HistoryInv ==
    /\ owed \in Seq(Ids) /\ \A k, l \in 1 .. Len(owed) : owed[k] = owed[l] => k = l
    /\ ToSet(owed) \subseteq issued /\ issued \subseteq Ids
    /\ completed \subseteq issued \cup {NewId}
    /\ damaged \subseteq issued /\ doubtful \subseteq Ids
    /\ damages \in 0 .. MaxDamages /\ setbacks \in 0 .. MaxSetbacks

\* A segment within its limits.
Fits(segment) ==
    /\ Len(segment) <= SegmentMaxRecords
    /\ Len(segment) > 1 => Bytes(segment) <= SegmentMaxBytes

Segments(d) ==
    /\ d.segments \in Seq(Seq(Messages))
    /\ \A i \in 1 .. Len(d.segments) :
          Fits(d.segments[i]) /\ (d.segments[i] = <<>> => Len(d.segments) = 1)

\* Before its checkpoint is written, with it, and with its entries on disk.
Fresh(ss)    == [format |-> TRUE, segments |-> ss, checkpoint |-> FALSE, synced |-> FALSE,
                 appended |-> <<>>, removed |-> 0]
Complete(ss) == [format |-> TRUE, segments |-> ss, checkpoint |-> TRUE, synced |-> FALSE,
                 appended |-> <<>>, removed |-> 0]
Ready(ss)    == [format |-> TRUE, segments |-> ss, checkpoint |-> TRUE, synced |-> TRUE,
                 appended |-> <<>>, removed |-> 0]

Installed(ss, a, r) == [format |-> TRUE, segments |-> ss, checkpoint |-> TRUE, synced |-> TRUE,
                        appended |-> a, removed |-> r]

\* The directory in place.
Solid(d) ==
    /\ d = Installed(d.segments, d.appended, d.removed)
    /\ Segments(d) /\ d.segments # <<>> /\ d.appended \in Seq(Ids)
    /\ d.removed \in Nat /\ d.removed <= Len(Records(d))

\* The stages of the constructor.
Idle == line = 0 /\ plan = <<>> /\ frames = <<>> /\ build = EmptyDirectory

Done == line = 0 /\ plan = <<>> /\ frames = <<>> /\ build.segments # <<>>
        /\ Faithful(FlattenSeq(build.segments))

StageInv ==
    /\ pc \in {"old", "closed", "parent", "load", "barrier", "up"} => Idle
    /\ pc = "replay" => /\ frames = <<>> /\ build = EmptyDirectory /\ retained
                        /\ ReplayInv(plan, line)
    /\ pc = "format" => line = 0 /\ frames = <<>> /\ build = EmptyDirectory /\ Faithful(plan)
    /\ pc = "segment" =>
          /\ line = 0 /\ build = Fresh(build.segments) /\ Segments(build)
          /\ plan \in Seq(Messages) /\ frames \in Seq(Messages) /\ Fits(frames)
          /\ Faithful(FlattenSeq(build.segments) \o frames \o plan)
          /\ \A i \in 1 .. Len(build.segments) : build.segments[i] # <<>>
          /\ build.segments # <<>> => frames # <<>> \/ plan # <<>>
    /\ pc = "checkpoint" => build = Fresh(build.segments) /\ Segments(build) /\ Done
    /\ pc = "fsync" => build = Complete(build.segments) /\ Segments(build) /\ Done
    /\ pc = "rename" => build = Ready(build.segments) /\ Segments(build) /\ Done

\* The directory in place, and the time before it is in place for good.
PlaceInv ==
    /\ pc \in {"old", "replay", "format", "segment", "checkpoint", "fsync", "rename"}
         => place = "none"
    /\ pc \in {"parent", "load", "barrier", "up"} => place # "none"
    /\ place = "none" => storage = EmptyDirectory /\ ~ (settled /\ rooted)
    /\ place # "none" => Solid(storage) /\ Faithful(Contents(storage))
    /\ pc \in {"barrier", "up"} => pending = Contents(storage)
    /\ pc \notin {"barrier", "up"} => pending = <<>>
    /\ pc = "up" => settled /\ rooted
    /\ ~ (settled /\ rooted) => JournalInv /\ completed = {}
    /\ (~ retained => journal = <<>>) /\ (pc = "old" => retained)

TypesInv ==
    /\ retained \in BOOLEAN /\ settled \in BOOLEAN /\ rooted \in BOOLEAN
    /\ pc \in {"old", "closed", "replay", "format", "segment", "checkpoint", "fsync", "rename",
              "parent", "load", "barrier", "up"}
    /\ place \in {"none", "path", "sidecar"}

MInv == TypesInv /\ HistoryInv /\ StageInv /\ PlaceInv
-----------------------------------------------------------------------------
(* What a line is read as.                                                 *)

LEMMA RecordsDiffer ==
    /\ \A m, x : Record("enqueue", m) # Record("ack", x)
    /\ \A m : Record("enqueue", m) # Corrupt /\ Record("ack", m) # Corrupt
    /\ \A m, x : Record("enqueue", m) = Record("enqueue", x) => m = x
    /\ \A m, x : Record("ack", m) = Record("ack", x) => m = x
    /\ \A op, m : Record(op, m).op = op /\ Record(op, m).id = m
    /\ Corrupt.op = "corrupt"
  BY DEF Record, Corrupt

LEMMA DecodeKinds ==
    ASSUME NEW value
    PROVE  LET r == DecodeLegacyRecord(value)
           IN  \/ r = Corrupt
               \/ \E m \in Messages : r = Record("enqueue", m)
               \/ \E m \in Ids : r = Record("ack", m)
<1>1. IsMessage(value) => DecodeMessage(value) \in Messages
  BY Zenon DEF IsMessage, ValidateMessage, DecodeMessage, Messages
<1>2. IsEnqueue(value) => DecodeMessage(value.fields.envelope) \in Messages
  BY Zenon DEF IsEnqueue, IsMessage, ValidateMessage, DecodeMessage, Messages
<1>3. IsAck(value) => value.fields.message_id \in Ids
  BY Zenon DEF IsAck
<1>4. \/ IsMessage(value) /\ DecodeLegacyRecord(value) = Record("enqueue", DecodeMessage(value))
      \/ IsEnqueue(value)
         /\ DecodeLegacyRecord(value) = Record("enqueue", DecodeMessage(value.fields.envelope))
      \/ IsAck(value) /\ DecodeLegacyRecord(value) = Record("ack", value.fields.message_id)
      \/ DecodeLegacyRecord(value) = Corrupt
  BY DEF DecodeLegacyRecord
<1> QED
  BY <1>1, <1>2, <1>3, <1>4

LEMMA DecodeCases ==
    ASSUME NEW value
    PROVE  /\ IsMessage(value) /\ ~ IsEnqueue(value) /\ ~ IsAck(value)
              => DecodeLegacyRecord(value) = Record("enqueue", DecodeMessage(value))
           /\ ~ IsMessage(value) /\ IsEnqueue(value) /\ ~ IsAck(value)
              => DecodeLegacyRecord(value)
                    = Record("enqueue", DecodeMessage(value.fields.envelope))
           /\ ~ IsMessage(value) /\ ~ IsEnqueue(value) /\ IsAck(value)
              => DecodeLegacyRecord(value) = Record("ack", value.fields.message_id)
           /\ ~ IsMessage(value) /\ ~ IsEnqueue(value) /\ ~ IsAck(value)
              => DecodeLegacyRecord(value) = Corrupt
  BY DEF DecodeLegacyRecord

LEMMA KeysDiffer ==
    /\ {"version", "event_id", "topic", "payload"} # {"journal_version", "op", "envelope"}
    /\ {"version", "event_id", "topic", "payload"} # {"journal_version", "op", "message_id"}
    /\ {"journal_version", "op", "envelope"} # {"journal_version", "op", "message_id"}
<1>1. "version" \notin {"journal_version", "op", "envelope"}
      /\ "version" \notin {"journal_version", "op", "message_id"}
      /\ "envelope" \notin {"journal_version", "op", "message_id"}
  OBVIOUS
<1> QED
  BY <1>1

LEMMA DecodeMessageEntry ==
    ASSUME NEW f, DOMAIN f = {"version", "event_id", "topic", "payload"}
    PROVE  /\ ValidateMessage(f) => DecodeLegacyRecord(Object(f))
                                     = Record("enqueue", ResolveMessageId(f.event_id))
           /\ ~ ValidateMessage(f) => DecodeLegacyRecord(Object(f)) = Corrupt
<1>1. Object(f).kind = "object" /\ Object(f).fields = f
  BY DEF Object
<1>2. ~ IsEnqueue(Object(f)) /\ ~ IsAck(Object(f))
  BY <1>1, KeysDiffer DEF IsEnqueue, IsAck, RequireSchema
<1>3. IsMessage(Object(f)) <=> ValidateMessage(f)
  BY <1>1 DEF IsMessage, RequireSchema
<1> QED
  BY <1>1, <1>2, <1>3, DecodeCases DEF DecodeMessage

LEMMA DecodeEnqueueEntry ==
    ASSUME NEW f, DOMAIN f = {"journal_version", "op", "envelope"}
    PROVE  LET valid == f.journal_version = 1 /\ f.op = "enqueue" /\ IsMessage(f.envelope)
           IN  /\ valid => DecodeLegacyRecord(Object(f))
                             = Record("enqueue", DecodeMessage(f.envelope))
               /\ ~ valid => DecodeLegacyRecord(Object(f)) = Corrupt
<1>1. Object(f).kind = "object" /\ Object(f).fields = f
  BY DEF Object
<1>2. ~ IsMessage(Object(f)) /\ ~ IsAck(Object(f))
  BY <1>1, KeysDiffer DEF IsMessage, IsAck, RequireSchema
<1>3. IsEnqueue(Object(f))
        <=> f.journal_version = 1 /\ f.op = "enqueue" /\ IsMessage(f.envelope)
  BY <1>1 DEF IsEnqueue, RequireSchema
<1> QED
  BY <1>1, <1>2, <1>3, DecodeCases

LEMMA DecodeAckEntry ==
    ASSUME NEW f, DOMAIN f = {"journal_version", "op", "message_id"}
    PROVE  LET valid == f.journal_version = 1 /\ f.op = "ack" /\ f.message_id \in Ids
           IN  /\ valid => DecodeLegacyRecord(Object(f)) = Record("ack", f.message_id)
               /\ ~ valid => DecodeLegacyRecord(Object(f)) = Corrupt
<1>1. Object(f).kind = "object" /\ Object(f).fields = f
  BY DEF Object
<1>2. ~ IsMessage(Object(f)) /\ ~ IsEnqueue(Object(f))
  BY <1>1, KeysDiffer DEF IsMessage, IsEnqueue, RequireSchema
<1>3. IsAck(Object(f))
        <=> f.journal_version = 1 /\ f.op = "ack" /\ f.message_id \in Ids
  BY <1>1 DEF IsAck, RequireSchema
<1> QED
  BY <1>1, <1>2, <1>3, DecodeCases

LEMMA DecodeWritten ==
    ASSUME NEW m \in Ids
    PROVE  /\ IsMessage(EncodeMessage(m)) /\ DecodeMessage(EncodeMessage(m)) = m
           /\ DecodeLegacyRecord(EncodeMessage(m)) = Record("enqueue", m)
           /\ DecodeLegacyRecord(EncodeEnqueue(m)) = Record("enqueue", m)
           /\ DecodeLegacyRecord(EncodeAck(m)) = Record("ack", m)
<1> DEFINE f == [version |-> 1, event_id |-> m, topic |-> "valid", payload |-> "valid"]
           g == [journal_version |-> 1, op |-> "enqueue", envelope |-> EncodeMessage(m)]
           h == [journal_version |-> 1, op |-> "ack", message_id |-> m]
<1>1. /\ EncodeMessage(m) = Object(f) /\ EncodeEnqueue(m) = Object(g) /\ EncodeAck(m) = Object(h)
  BY DEF EncodeMessage, EncodeEnqueue, EncodeAck
<1>2. /\ DOMAIN f = {"version", "event_id", "topic", "payload"}
      /\ f.version = 1 /\ f.event_id = m /\ f.topic = "valid" /\ f.payload = "valid"
  OBVIOUS
<1>3. /\ DOMAIN g = {"journal_version", "op", "envelope"}
      /\ g.journal_version = 1 /\ g.op = "enqueue" /\ g.envelope = EncodeMessage(m)
  OBVIOUS
<1>4. /\ DOMAIN h = {"journal_version", "op", "message_id"}
      /\ h.journal_version = 1 /\ h.op = "ack" /\ h.message_id = m
  OBVIOUS
<1> HIDE DEF f, g, h
<1>5. ResolveMessageId(f.event_id) = m /\ ValidateMessage(f)
  BY <1>2, IdAssumption DEF ResolveMessageId, ValidateMessage
<1>6. IsMessage(EncodeMessage(m)) /\ DecodeMessage(EncodeMessage(m)) = m
  BY <1>1, <1>2, <1>5 DEF IsMessage, RequireSchema, Object, DecodeMessage
<1>7. DecodeLegacyRecord(EncodeMessage(m)) = Record("enqueue", m)
  BY <1>1, <1>2, <1>5, DecodeMessageEntry
<1>8. DecodeLegacyRecord(EncodeEnqueue(m)) = Record("enqueue", m)
  BY <1>1, <1>3, <1>6, DecodeEnqueueEntry
<1>9. DecodeLegacyRecord(EncodeAck(m)) = Record("ack", m)
  BY <1>1, <1>4, DecodeAckEntry
<1> QED
  BY <1>6, <1>7, <1>8, <1>9

\* A damaged line is skipped, or an envelope that gets a new identifier.
LEMMA DecodeNothing ==
    DecodeLegacyRecord(Invalid) = Corrupt /\ DecodeLegacyRecord(Scalar) = Corrupt
<1>1. Invalid.kind # "object" /\ Scalar.kind # "object"
  BY DEF Invalid, Scalar
<1>2. ~ IsMessage(Invalid) /\ ~ IsEnqueue(Invalid) /\ ~ IsAck(Invalid)
  BY <1>1 DEF IsMessage, IsEnqueue, IsAck, RequireSchema
<1>3. ~ IsMessage(Scalar) /\ ~ IsEnqueue(Scalar) /\ ~ IsAck(Scalar)
  BY <1>1 DEF IsMessage, IsEnqueue, IsAck, RequireSchema
<1> QED
  BY <1>2, <1>3, DecodeCases

LEMMA WithKey ==
    ASSUME NEW f, NEW key, NEW value, NEW form \in With(Object(f), key, value)
    PROVE  key \in DOMAIN f /\ form = Object([f EXCEPT ![key] = value])
<1>1. Object(f).kind = "object" /\ Object(f).fields = f
  BY DEF Object
<1> QED
  BY <1>1 DEF With, Has

Spoils(key, value) ==
    <<key, value>> \in {<<"journal_version", 2>>, <<"op", "other">>, <<"envelope", Scalar>>,
                        <<"message_id", Null>>, <<"version", 2>>, <<"topic", "invalid">>,
                        <<"payload", "invalid">>, <<"event_id", Null>>}

LEMMA DamagedForm ==
    ASSUME NEW f, NEW form \in FlatForms(Object(f))
    PROVE  \/ form \in {Invalid, Scalar}
           \/ \E key \in DOMAIN f : \E value :
                 form = Object([f EXCEPT ![key] = value]) /\ Spoils(key, value)
<1> DEFINE Goal == \E key \in DOMAIN f : \E value :
                      form = Object([f EXCEPT ![key] = value]) /\ Spoils(key, value)
<1>1. ASSUME NEW key, NEW value, form \in With(Object(f), key, value), Spoils(key, value)
      PROVE  Goal
  <2>1. key \in DOMAIN f /\ form = Object([f EXCEPT ![key] = value])
    BY <1>1, WithKey
  <2>2. \E v : form = Object([f EXCEPT ![key] = v]) /\ Spoils(key, v)
    BY <1>1, <2>1
  <2> QED
    BY <2>1, <2>2
<1>2. /\ Spoils("journal_version", 2) /\ Spoils("op", "other") /\ Spoils("envelope", Scalar)
      /\ Spoils("message_id", Null) /\ Spoils("version", 2) /\ Spoils("topic", "invalid")
      /\ Spoils("payload", "invalid") /\ Spoils("event_id", Null)
  BY Zenon DEF Spoils
<1> HIDE DEF Goal
<1>3. form \in {Invalid, Scalar} \/ Goal
  BY <1>1, <1>2, Zenon DEF FlatForms
<1> QED
  BY <1>3, Zenon DEF Goal

LEMMA DecodeFlat ==
    ASSUME NEW entry \in Legacy, NEW form \in FlatForms(entry)
    PROVE  \/ DecodeLegacyRecord(form) = Corrupt
           \/ /\ DecodeLegacyRecord(form) = Renamed
              /\ \E m \in Ids : DecodeLegacyRecord(entry) = Record("enqueue", m)
<1>1. ASSUME NEW m \in Ids, entry = EncodeMessage(m)
      PROVE  DecodeLegacyRecord(form) \in {Corrupt, Renamed}
  <2> DEFINE f == [version |-> 1, event_id |-> m, topic |-> "valid", payload |-> "valid"]
  <2>1. entry = Object(f) /\ DOMAIN f = {"version", "event_id", "topic", "payload"}
    BY <1>1 DEF EncodeMessage
  <2> HIDE DEF f
  <2>2. CASE form \in {Invalid, Scalar}
    BY <2>2, DecodeNothing
  <2>3. ASSUME NEW key \in DOMAIN f, NEW value, form = Object([f EXCEPT ![key] = value]),
               \/ key = "version" /\ value = 2
               \/ key = "topic" /\ value = "invalid"
               \/ key = "payload" /\ value = "invalid"
               \/ key = "event_id" /\ value = Null
        PROVE  DecodeLegacyRecord(form) \in {Corrupt, Renamed}
    <3> DEFINE g == [f EXCEPT ![key] = value]
    <3>1. DOMAIN g = {"version", "event_id", "topic", "payload"}
      BY <2>1
    <3>2. g[key] = value
      BY <2>3
    <3> HIDE DEF g
    <3>3. CASE key = "event_id"
      <4>1. ResolveMessageId(g.event_id) = NewId
        BY <2>3, <3>2, <3>3 DEF ResolveMessageId
      <4> QED
        BY <2>3, <3>1, <4>1, DecodeMessageEntry DEF Renamed, g
    <3>4. CASE key # "event_id"
      <4>1. ~ ValidateMessage(g)
        BY <2>3, <3>2, <3>4 DEF ValidateMessage
      <4> QED
        BY <2>3, <3>1, <4>1, DecodeMessageEntry DEF g
    <3> QED
      BY <3>3, <3>4
  <2>4. "journal_version" \notin DOMAIN f /\ "op" \notin DOMAIN f /\ "envelope" \notin DOMAIN f
        /\ "message_id" \notin DOMAIN f
    BY <2>1
  <2>5. CASE form \notin {Invalid, Scalar}
    <3>1. PICK key \in DOMAIN f : \E value :
              form = Object([f EXCEPT ![key] = value]) /\ Spoils(key, value)
      BY <2>1, <2>5, DamagedForm, Zenon
    <3> QED
      BY <2>3, <2>4, <3>1 DEF Spoils
  <2> QED
    BY <2>2, <2>5
<1>2. ASSUME NEW m \in Ids, entry = EncodeEnqueue(m)
      PROVE  DecodeLegacyRecord(form) = Corrupt
  <2> DEFINE f == [journal_version |-> 1, op |-> "enqueue", envelope |-> EncodeMessage(m)]
  <2>1. entry = Object(f) /\ DOMAIN f = {"journal_version", "op", "envelope"}
    BY <1>2 DEF EncodeEnqueue
  <2> HIDE DEF f
  <2>2. CASE form \in {Invalid, Scalar}
    BY <2>2, DecodeNothing
  <2>3. ASSUME NEW key \in DOMAIN f, NEW value, form = Object([f EXCEPT ![key] = value]),
               \/ key = "journal_version" /\ value = 2
               \/ key = "op" /\ value = "other"
               \/ key = "envelope" /\ value = Scalar
        PROVE  DecodeLegacyRecord(form) = Corrupt
    <3> DEFINE g == [f EXCEPT ![key] = value]
    <3>1. DOMAIN g = {"journal_version", "op", "envelope"} /\ g[key] = value
      BY <2>1, <2>3
    <3> HIDE DEF g
    <3>2. ~ IsMessage(Scalar)
      BY DEF IsMessage, RequireSchema, Scalar
    <3>3. ~ (g.journal_version = 1 /\ g.op = "enqueue" /\ IsMessage(g.envelope))
      BY <2>3, <3>1, <3>2
    <3> QED
      BY <2>3, <3>1, <3>3, DecodeEnqueueEntry DEF g
  <2>4. /\ "version" \notin DOMAIN f /\ "topic" \notin DOMAIN f /\ "payload" \notin DOMAIN f
        /\ "message_id" \notin DOMAIN f /\ "event_id" \notin DOMAIN f
    BY <2>1
  <2>5. CASE form \notin {Invalid, Scalar}
    <3>1. PICK key \in DOMAIN f : \E value :
              form = Object([f EXCEPT ![key] = value]) /\ Spoils(key, value)
      BY <2>1, <2>5, DamagedForm, Zenon
    <3> QED
      BY <2>3, <2>4, <3>1 DEF Spoils
  <2> QED
    BY <2>2, <2>5
<1>3. ASSUME NEW m \in Ids, entry = EncodeAck(m)
      PROVE  DecodeLegacyRecord(form) = Corrupt
  <2> DEFINE f == [journal_version |-> 1, op |-> "ack", message_id |-> m]
  <2>1. entry = Object(f) /\ DOMAIN f = {"journal_version", "op", "message_id"}
    BY <1>3 DEF EncodeAck
  <2> HIDE DEF f
  <2>2. CASE form \in {Invalid, Scalar}
    BY <2>2, DecodeNothing
  <2>3. ASSUME NEW key \in DOMAIN f, NEW value, form = Object([f EXCEPT ![key] = value]),
               \/ key = "journal_version" /\ value = 2
               \/ key = "op" /\ value = "other"
               \/ key = "message_id" /\ value = Null
        PROVE  DecodeLegacyRecord(form) = Corrupt
    <3> DEFINE g == [f EXCEPT ![key] = value]
    <3>1. DOMAIN g = {"journal_version", "op", "message_id"} /\ g[key] = value
      BY <2>1, <2>3
    <3> HIDE DEF g
    <3>2. ~ (g.journal_version = 1 /\ g.op = "ack" /\ g.message_id \in Ids)
      BY <2>3, <3>1, IdAssumption
    <3> QED
      BY <2>3, <3>1, <3>2, DecodeAckEntry DEF g
  <2>4. /\ "version" \notin DOMAIN f /\ "topic" \notin DOMAIN f /\ "payload" \notin DOMAIN f
        /\ "envelope" \notin DOMAIN f /\ "event_id" \notin DOMAIN f
    BY <2>1
  <2>5. CASE form \notin {Invalid, Scalar}
    <3>1. PICK key \in DOMAIN f : \E value :
              form = Object([f EXCEPT ![key] = value]) /\ Spoils(key, value)
      BY <2>1, <2>5, DamagedForm, Zenon
    <3> QED
      BY <2>3, <2>4, <3>1 DEF Spoils
  <2> QED
    BY <2>2, <2>5
<1> QED
  BY <1>1, <1>2, <1>3, DecodeWritten DEF Legacy

\* The same of an envelope damaged inside its record.
LEMMA DecodeDamaged ==
    ASSUME NEW entry \in Legacy, NEW form \in DamagedForms(entry)
    PROVE  \/ DecodeLegacyRecord(form) = Corrupt
           \/ /\ DecodeLegacyRecord(form) = Renamed
              /\ \E m \in Ids : DecodeLegacyRecord(entry) = Record("enqueue", m)
<1>1. CASE form \in FlatForms(entry)
  BY <1>1, DecodeFlat, Zenon
<1>2. CASE form \notin FlatForms(entry)
  <2>1. /\ Has(entry, "envelope")
        /\ \E e \in FlatForms(entry.fields.envelope) : form \in With(entry, "envelope", e)
    BY <1>2, Zenon DEF DamagedForms
  <2>2. PICK e \in FlatForms(entry.fields.envelope) : form \in With(entry, "envelope", e)
    BY <2>1, Zenon
  <2>3. PICK m \in Ids : entry = EncodeEnqueue(m)
    <3>1. ASSUME NEW m \in Ids
          PROVE  ~ Has(EncodeMessage(m), "envelope") /\ ~ Has(EncodeAck(m), "envelope")
      BY DEF Has, EncodeMessage, EncodeAck, Object
    <3> QED
      BY <2>1, <3>1 DEF Legacy
  <2> DEFINE f == [journal_version |-> 1, op |-> "enqueue", envelope |-> EncodeMessage(m)]
             g == [f EXCEPT !["envelope"] = e]
  <2>4. entry = Object(f) /\ entry.fields = f /\ f.envelope = EncodeMessage(m)
    BY <2>3 DEF EncodeEnqueue, Object
  <2>5. /\ DOMAIN g = {"journal_version", "op", "envelope"}
        /\ g.journal_version = 1 /\ g.op = "enqueue" /\ g.envelope = e
    OBVIOUS
  <2> HIDE DEF f
  <2>6. form = Object(g)
    BY <2>2, <2>4, WithKey
  <2> HIDE DEF g
  <2>7. DecodeLegacyRecord(e) \in {Corrupt, Renamed}
    <3>1. e \in FlatForms(EncodeMessage(m)) /\ EncodeMessage(m) \in Legacy
      BY <2>2, <2>4, Zenon DEF Legacy
    <3> QED
      BY <3>1, DecodeFlat, Zenon
  <2>8. DecodeLegacyRecord(entry) = Record("enqueue", m)
    BY <2>3, DecodeWritten
  <2>9. CASE IsMessage(e)
    <3>1. DecodeLegacyRecord(e) = Record("enqueue", DecodeMessage(e))
      <4>1. ~ IsEnqueue(e) /\ ~ IsAck(e)
        BY <2>9, KeysDiffer DEF IsMessage, IsEnqueue, IsAck, RequireSchema
      <4> QED
        BY <2>9, <4>1, DecodeCases
    <3>2. DecodeMessage(e) = NewId
      BY <2>7, <3>1 DEF Corrupt, Renamed, Record
    <3>3. DecodeLegacyRecord(form) = Renamed
      BY <2>5, <2>6, <2>9, <3>2, DecodeEnqueueEntry DEF Renamed
    <3> QED
      BY <2>8, <3>3
  <2>10. CASE ~ IsMessage(e)
    BY <2>5, <2>6, <2>10, DecodeEnqueueEntry
  <2> QED
    BY <2>9, <2>10
<1> QED
  BY <1>1, <1>2
-----------------------------------------------------------------------------
(* Sequences as sets.                                                      *)

LEMMA SetOf ==
    ASSUME NEW S, NEW s \in Seq(S)
    PROVE  /\ Len(s) \in Nat /\ DOMAIN s = 1 .. Len(s) /\ ToSet(s) \subseteq S
           /\ \A m : m \in ToSet(s) <=> \E k \in 1 .. Len(s) : s[k] = m
<1>1. Len(s) \in Nat /\ DOMAIN s = 1 .. Len(s) /\ \A k \in 1 .. Len(s) : s[k] \in S
  BY LenProperties, ElementOfSeq
<1> QED
  BY <1>1 DEF ToSet

LEMMA AppendSet ==
    ASSUME NEW S, NEW s \in Seq(S), NEW m \in S
    PROVE  /\ Append(s, m) \in Seq(S) /\ Append(s, m) # <<>>
           /\ s # <<>> => Head(Append(s, m)) = Head(s)
           /\ ToSet(Append(s, m)) = ToSet(s) \cup {m}
<1>0. s # <<>> => Head(Append(s, m)) = Head(s)
  BY HeadTailAppend
<1>1. /\ Append(s, m) \in Seq(S) /\ Append(s, m) # <<>>
      /\ s # <<>> => Head(Append(s, m)) = Head(s)
  BY <1>0, AppendProperties
<1>2. /\ Len(Append(s, m)) = Len(s) + 1 /\ Append(s, m)[Len(s) + 1] = m
      /\ \A i \in 1 .. Len(s) : Append(s, m)[i] = s[i]
  BY AppendProperties
<1>3. ToSet(Append(s, m)) \subseteq ToSet(s) \cup {m}
  <2> SUFFICES ASSUME NEW i \in 1 .. Len(s) + 1
               PROVE  Append(s, m)[i] \in ToSet(s) \cup {m}
    BY <1>1, <1>2 DEF ToSet
  <2>1. CASE i = Len(s) + 1
    BY <1>2, <2>1
  <2>2. CASE i \in 1 .. Len(s)
    BY <1>2, <2>2 DEF ToSet
  <2> QED BY <2>1, <2>2
<1>4. ToSet(s) \cup {m} \subseteq ToSet(Append(s, m))
  <2>1. ASSUME NEW i \in 1 .. Len(s) PROVE s[i] \in ToSet(Append(s, m))
    <3>1. i \in 1 .. Len(Append(s, m)) /\ Append(s, m)[i] = s[i]
      BY <1>2
    <3> QED BY <1>1, <3>1 DEF ToSet
  <2>2. m \in ToSet(Append(s, m))
    <3>1. Len(s) + 1 \in 1 .. Len(Append(s, m))
      BY <1>2
    <3> QED BY <1>1, <1>2, <3>1 DEF ToSet
  <2> QED BY <2>1, <2>2 DEF ToSet
<1> QED BY <1>1, <1>3, <1>4

LEMMA TailSet ==
    ASSUME NEW S, NEW s \in Seq(S), s # <<>>
    PROVE  /\ Tail(s) \in Seq(S) /\ Head(s) \in S
           /\ ToSet(s) = ToSet(Tail(s)) \cup {Head(s)}
<1>1. Tail(s) \in Seq(S) /\ Head(s) \in S
  OBVIOUS
<1>2. ToSet(s) \subseteq ToSet(Tail(s)) \cup {Head(s)}
  <2> SUFFICES ASSUME NEW i \in 1 .. Len(s)
               PROVE  s[i] \in ToSet(Tail(s)) \cup {Head(s)}
    BY DEF ToSet
  <2>1. CASE i = 1
    BY <2>1
  <2>2. CASE i # 1
    <3>1. i - 1 \in DOMAIN Tail(s) /\ Tail(s)[i - 1] = s[i]
      BY <2>2
    <3>2. Tail(s)[i - 1] \in ToSet(Tail(s))
      BY <3>1, Zenon DEF ToSet
    <3> QED BY <3>1, <3>2
  <2> QED BY <2>1, <2>2
<1>3. ToSet(Tail(s)) \cup {Head(s)} \subseteq ToSet(s)
  <2>1. Head(s) \in ToSet(s)
    BY DEF ToSet
  <2>2. ASSUME NEW i \in 1 .. Len(Tail(s)) PROVE Tail(s)[i] \in ToSet(s)
    <3>1. i + 1 \in 1 .. Len(s) /\ Tail(s)[i] = s[i + 1]
      OBVIOUS
    <3> QED BY <3>1 DEF ToSet
  <2> QED BY <2>1, <2>2 DEF ToSet
<1> QED BY <1>1, <1>2, <1>3
-----------------------------------------------------------------------------
(* Replaying the journal.                                                  *)

LEMMA LineOne ==
    /\ \A i, m, x : Enqueues(i, m) /\ Enqueues(i, x) => m = x
    /\ \A i, m, x : Acks(i, m) /\ Acks(i, x) => m = x
    /\ \A i, m, x : ~ (Enqueues(i, m) /\ Acks(i, x))
  BY RecordsDiffer DEF Enqueues, Acks

LEMMA LineKinds ==
    ASSUME NEW i
    PROVE  \/ DecodeLegacyRecord(journal[i]) = Corrupt
           \/ \E m \in Messages : Enqueues(i, m)
           \/ \E m \in Ids : Acks(i, m)
  BY DecodeKinds DEF Enqueues, Acks

LEMMA CorruptLine ==
    ASSUME NEW i, DecodeLegacyRecord(journal[i]) = Corrupt
    PROVE  \A m : ~ Enqueues(i, m) /\ ~ Acks(i, m)
  BY RecordsDiffer DEF Enqueues, Acks

LEMMA ReplayedCases ==
    ASSUME NEW q, NEW m
    PROVE  /\ Replayed(q, Corrupt) = q
           /\ m \notin ToSet(q) => Replayed(q, Record("enqueue", m)) = Append(q, m)
           /\ q # <<>> /\ m = Head(q) => Replayed(q, Record("ack", m)) = Tail(q)
           /\ ~ (q # <<>> /\ m = Head(q)) => Replayed(q, Record("ack", m)) = q
  BY RecordsDiffer DEF Replayed

\* A line that leaves the queue alone.
LEMMA ReplaySkips ==
    ASSUME NEW q, NEW n, ReplayInv(q, n), n + 1 \in Positions, LinesInv,
           \A m \in Messages : Enqueues(n + 1, m) => FALSE,
           \A k \in 1 .. Len(q) : Acks(n + 1, q[k]) => q[k] \in doubtful
    PROVE  ReplayInv(q, n + 1)
<1>1. Len(journal) \in Nat /\ n \in Nat
  BY LenProperties DEF LinesInv, ReplayInv
<1>2. /\ n + 1 \in 0 .. Len(journal) /\ \A i \in 1 .. n : i \in 1 .. n + 1
      /\ \A i \in 1 .. n + 1 : i \in 1 .. n \/ i = n + 1
  BY <1>1 DEF Positions
<1> QED
  BY <1>2 DEF ReplayInv

\* An enqueue is added at the end.
LEMMA ReplayAdds ==
    ASSUME NEW q, NEW n, ReplayInv(q, n), n + 1 \in Positions, JournalInv,
           NEW m \in Messages, Enqueues(n + 1, m)
    PROVE  m \notin ToSet(q) /\ ReplayInv(Append(q, m), n + 1)
<1> DEFINE Q == Append(q, m)
<1>1. Len(journal) \in Nat /\ n \in Nat /\ q \in Seq(Messages) /\ Len(q) \in Nat
  BY LenProperties DEF JournalInv, LinesInv, ReplayInv
<1>2. /\ n + 1 \in 0 .. Len(journal) /\ n + 1 \in 1 .. n + 1
      /\ \A i \in 1 .. n : i \in 1 .. n + 1 /\ i \in Positions /\ i # n + 1 /\ i < n + 1
      /\ \A i \in 1 .. n + 1 : i \in 1 .. n \/ i = n + 1
  BY <1>1 DEF Positions
<1>3. /\ Q \in Seq(Messages) /\ Len(Q) = Len(q) + 1 /\ Q[Len(q) + 1] = m
      /\ \A k \in 1 .. Len(q) : Q[k] = q[k]
      /\ ToSet(Q) = ToSet(q) \cup {m}
  BY <1>1, AppendSet
<1> HIDE DEF Q
<1>4. \A k \in 1 .. Len(Q) : k \in 1 .. Len(q) \/ k = Len(q) + 1
  BY <1>1, <1>3
<1>5. \A i, j \in Positions, x \in Messages : Enqueues(i, x) /\ Enqueues(j, x) => i = j
  BY DEF JournalInv, OnceInv
<1>6. \A i, j \in Positions, x \in Messages : Enqueues(i, x) /\ Acks(j, x) => i < j
  BY DEF JournalInv, OnceInv
<1>7. \A k \in 1 .. Len(q) : /\ q[k] \in Messages
                             /\ \E i \in 1 .. n : Enqueues(i, q[k])
  BY <1>1, ElementOfSeq DEF ReplayInv
<1>8. \A k \in 1 .. Len(q) : q[k] # m
  BY <1>2, <1>5, <1>7
<1>9. m \notin ToSet(q)
  BY <1>1, <1>8, SetOf
<1>10. \A k \in 1 .. Len(Q) : \E i \in 1 .. n + 1 : Enqueues(i, Q[k])
  BY <1>2, <1>3, <1>4, <1>7
<1>11. ASSUME NEW k \in 1 .. Len(Q), NEW l \in 1 .. Len(Q), NEW i \in Positions,
              NEW j \in Positions, k < l, Enqueues(i, Q[k]), Enqueues(j, Q[l])
       PROVE  i < j
  <2>1. k \in 1 .. Len(q) /\ Q[k] = q[k]
    BY <1>1, <1>3, <1>4, <1>11
  <2>2. CASE l \in 1 .. Len(q)
    <3>1. Enqueues(i, q[k]) /\ Enqueues(j, q[l])
      BY <1>3, <1>11, <2>1, <2>2
    <3> QED
      BY <1>11, <2>1, <2>2, <3>1 DEF ReplayInv
  <2>3. CASE l = Len(q) + 1
    <3>1. j = n + 1
      BY <1>3, <1>5, <1>11, <2>3
    <3>2. PICK a \in 1 .. n : Enqueues(a, q[k])
      BY <1>7, <2>1
    <3>3. i = a
      BY <1>2, <1>5, <1>7, <1>11, <2>1, <3>2
    <3> QED
      BY <1>2, <3>1, <3>3
  <2> QED
    BY <1>4, <2>2, <2>3
<1>12. ASSUME NEW k \in 1 .. Len(Q), NEW l \in 1 .. n + 1, Acks(l, Q[k])
       PROVE  Q[k] \in doubtful
  <2>1. CASE k = Len(q) + 1
    <3>1. n + 1 < l
      BY <1>2, <1>3, <1>6, <1>12, <2>1
    <3> QED
      BY <1>1, <3>1
  <2>2. CASE k \in 1 .. Len(q)
    <3>1. l # n + 1
      BY <1>12, LineOne
    <3>2. l \in 1 .. n /\ Acks(l, q[k])
      BY <1>2, <1>3, <1>12, <2>2, <3>1
    <3> QED
      BY <1>3, <2>2, <3>2 DEF ReplayInv
  <2> QED
    BY <1>4, <2>1, <2>2
<1>13. ASSUME NEW i \in 1 .. n + 1, NEW x \in Messages, Enqueues(i, x)
       PROVE  x \in ToSet(Q) \/ \E l \in 1 .. n + 1 : Acks(l, x)
  <2>1. CASE i = n + 1
    BY <1>3, <1>13, <2>1, LineOne
  <2>2. CASE i \in 1 .. n
    <3>1. x \in ToSet(q) \/ \E l \in 1 .. n : Acks(l, x)
      BY <1>13, <2>2 DEF ReplayInv
    <3> QED
      BY <1>2, <1>3, <3>1
  <2> QED
    BY <1>2, <2>1, <2>2
<1>14. ReplayInv(Q, n + 1)
  BY <1>2, <1>3, <1>10, <1>11, <1>12, <1>13 DEF ReplayInv
<1> QED
  BY <1>9, <1>14 DEF Q

\* An acknowledgement of the head takes it.
LEMMA ReplayTakes ==
    ASSUME NEW q, NEW n, ReplayInv(q, n), n + 1 \in Positions, JournalInv,
           q # <<>>, Acks(n + 1, Head(q))
    PROVE  ReplayInv(Tail(q), n + 1)
<1> DEFINE Q == Tail(q)
<1>1. Len(journal) \in Nat /\ n \in Nat /\ q \in Seq(Messages) /\ Len(q) \in Nat \ {0}
  BY LenProperties, EmptySeq DEF JournalInv, LinesInv, ReplayInv
<1>2. /\ n + 1 \in 0 .. Len(journal) /\ n + 1 \in 1 .. n + 1
      /\ \A i \in 1 .. n : i \in 1 .. n + 1 /\ i \in Positions
      /\ \A i \in 1 .. n + 1 : i \in 1 .. n \/ i = n + 1
  BY <1>1 DEF Positions
<1>3. /\ Q \in Seq(Messages) /\ Len(Q) = Len(q) - 1 /\ Head(q) = q[1] /\ 1 \in 1 .. Len(q)
      /\ \A k \in 1 .. Len(q) - 1 : Q[k] = q[k + 1]
      /\ ToSet(q) = ToSet(Q) \cup {Head(q)}
  BY <1>1, TailSet, HeadTailProperties
<1> HIDE DEF Q
<1>4. \A k \in 1 .. Len(Q) : /\ k + 1 \in 1 .. Len(q) /\ k \in 1 .. Len(q) - 1
                             /\ 1 < k + 1
  BY <1>1, <1>3
<1>5. \A k \in 1 .. Len(q) : \E i \in 1 .. n : Enqueues(i, q[k])
  BY DEF ReplayInv
<1>6. \A k, l \in 1 .. Len(q), i, j \in Positions :
          k < l /\ Enqueues(i, q[k]) /\ Enqueues(j, q[l]) => i < j
  BY DEF ReplayInv
<1>7. \A k \in 1 .. Len(Q) : Q[k] # Head(q)
  <2> SUFFICES ASSUME NEW k \in 1 .. Len(Q), Q[k] = q[1] PROVE FALSE
    BY <1>3
  <2>1. PICK i \in 1 .. n : Enqueues(i, q[1])
    BY <1>3, <1>5
  <2>2. i < i
    BY <1>2, <1>3, <1>4, <1>6, <2>1
  <2> QED
    BY <1>1, <2>2
<1>8. \A k \in 1 .. Len(Q) : \E i \in 1 .. n + 1 : Enqueues(i, Q[k])
  BY <1>2, <1>3, <1>4, <1>5
<1>9. ASSUME NEW k \in 1 .. Len(Q), NEW l \in 1 .. Len(Q), NEW i \in Positions,
             NEW j \in Positions, k < l, Enqueues(i, Q[k]), Enqueues(j, Q[l])
      PROVE  i < j
  <2>1. Enqueues(i, q[k + 1]) /\ Enqueues(j, q[l + 1]) /\ k + 1 < l + 1
    BY <1>3, <1>4, <1>9
  <2> QED
    BY <1>4, <1>6, <2>1
<1>10. ASSUME NEW k \in 1 .. Len(Q), NEW l \in 1 .. n + 1, Acks(l, Q[k])
       PROVE  Q[k] \in doubtful
  <2>1. l # n + 1
    BY <1>7, <1>10, LineOne
  <2>2. l \in 1 .. n /\ Acks(l, q[k + 1]) /\ Q[k] = q[k + 1]
    BY <1>2, <1>3, <1>4, <1>10, <2>1
  <2> QED
    BY <1>4, <2>2 DEF ReplayInv
<1>11. ASSUME NEW i \in 1 .. n + 1, NEW x \in Messages, Enqueues(i, x)
       PROVE  x \in ToSet(Q) \/ \E l \in 1 .. n + 1 : Acks(l, x)
  <2>1. i # n + 1
    BY <1>11, LineOne
  <2>2. x \in ToSet(q) \/ \E l \in 1 .. n : Acks(l, x)
    BY <1>2, <1>11, <2>1 DEF ReplayInv
  <2> QED
    BY <1>2, <1>3, <2>2
<1>12. ReplayInv(Q, n + 1)
  BY <1>2, <1>3, <1>8, <1>9, <1>10, <1>11 DEF ReplayInv
<1> QED
  BY <1>12 DEF Q

\* An acknowledgement of another message is in doubt.
LEMMA ReplayDoubts ==
    ASSUME NEW q, NEW n, ReplayInv(q, n), n + 1 \in Positions, JournalInv,
           NEW x \in Ids, Acks(n + 1, x), ~ (q # <<>> /\ x = Head(q)),
           NEW k \in 1 .. Len(q), q[k] = x
    PROVE  x \in doubtful
<1>1. /\ Len(journal) \in Nat /\ n \in Nat /\ q \in Seq(Messages) /\ Len(q) \in Nat
      /\ q # <<>> /\ Head(q) = q[1] /\ 1 \in 1 .. Len(q) /\ q[1] \in Messages
  BY LenProperties DEF JournalInv, LinesInv, ReplayInv
<1>2. /\ \A i \in 1 .. n : i \in Positions /\ i < n + 1 /\ i \in 1 .. (n + 1) - 1
      /\ \A i \in 1 .. (n + 1) - 1 : i \in 1 .. n
  BY <1>1 DEF Positions
<1>3. k # 1 /\ 1 < k
  BY <1>1
<1>4. PICK i \in 1 .. n : Enqueues(i, q[1])
  BY <1>1 DEF ReplayInv
<1>5. PICK j \in 1 .. n : Enqueues(j, x)
  BY DEF ReplayInv
<1>6. i < j
  BY <1>1, <1>2, <1>3, <1>4, <1>5 DEF ReplayInv
<1>7. CASE q[1] = NewId
  BY <1>2, <1>4, <1>7 DEF JournalInv, DoubtInv
<1>8. CASE q[1] \in Ids
  <2>1. \/ x \in doubtful
        \/ \E l \in 1 .. (n + 1) - 1 : Acks(l, q[1])
    BY <1>2, <1>4, <1>5, <1>6, <1>8 DEF JournalInv, DoubtInv
  <2>2. ASSUME NEW l \in 1 .. n, Acks(l, q[1]) PROVE x \in doubtful
    <3>1. q[1] \in doubtful
      BY <1>1, <2>2 DEF ReplayInv
    <3> QED
      BY <1>2, <1>8, <2>2, <3>1 DEF JournalInv, DoubtInv
  <2> QED
    BY <1>2, <2>1, <2>2
<1> QED
  BY <1>1, <1>7, <1>8 DEF Messages

LEMMA ReplayStep ==
    ASSUME NEW q, NEW n, ReplayInv(q, n), n < Len(journal), JournalInv
    PROVE  ReplayInv(Replayed(q, DecodeLegacyRecord(journal[n + 1])), n + 1)
<1>1. n + 1 \in Positions /\ LinesInv
  BY LenProperties DEF JournalInv, LinesInv, ReplayInv, Positions
<1>2. CASE DecodeLegacyRecord(journal[n + 1]) = Corrupt
  <2>1. \A m : ~ Enqueues(n + 1, m) /\ ~ Acks(n + 1, m)
    BY <1>2, CorruptLine, Zenon
  <2>2. ReplayInv(q, n + 1)
    BY <1>1, <2>1, ReplaySkips
  <2> QED
    BY <1>2, <2>2, ReplayedCases
<1>3. ASSUME NEW m \in Messages, Enqueues(n + 1, m)
      PROVE  ReplayInv(Replayed(q, DecodeLegacyRecord(journal[n + 1])), n + 1)
  <2>1. m \notin ToSet(q) /\ ReplayInv(Append(q, m), n + 1)
    BY <1>1, <1>3, ReplayAdds
  <2>2. Replayed(q, DecodeLegacyRecord(journal[n + 1])) = Append(q, m)
    BY <1>3, <2>1, ReplayedCases DEF Enqueues
  <2> QED
    BY <2>1, <2>2
<1>4. ASSUME NEW x \in Ids, Acks(n + 1, x)
      PROVE  ReplayInv(Replayed(q, DecodeLegacyRecord(journal[n + 1])), n + 1)
  <2>1. CASE q # <<>> /\ x = Head(q)
    <3>1. ReplayInv(Tail(q), n + 1)
      BY <1>1, <1>4, <2>1, ReplayTakes
    <3>2. Replayed(q, DecodeLegacyRecord(journal[n + 1])) = Tail(q)
      BY <1>4, <2>1, ReplayedCases DEF Acks
    <3> QED
      BY <3>1, <3>2
  <2>2. CASE ~ (q # <<>> /\ x = Head(q))
    <3>1. \A k \in 1 .. Len(q) : Acks(n + 1, q[k]) => q[k] \in doubtful
      <4> TAKE k \in 1 .. Len(q)
      <4> HAVE Acks(n + 1, q[k])
      <4>1. q[k] = x
        BY <1>4, LineOne
      <4> QED
        BY <1>1, <1>4, <2>2, <4>1, ReplayDoubts
    <3>2. \A m \in Messages : Enqueues(n + 1, m) => FALSE
      BY <1>4, LineOne
    <3>3. ReplayInv(q, n + 1)
      BY <1>1, <3>1, <3>2, ReplaySkips
    <3>4. Replayed(q, DecodeLegacyRecord(journal[n + 1])) = q
      BY <1>4, <2>2, ReplayedCases DEF Acks
    <3> QED
      BY <3>3, <3>4
  <2> QED
    BY <2>1, <2>2
<1> QED
  BY <1>2, <1>3, <1>4, LineKinds

\* The whole journal replays to a queue that discards and brings back nothing.
LEMMA ReplayEnd ==
    ASSUME NEW q, ReplayInv(q, Len(journal)), JournalInv, HistoryInv, completed = {}
    PROVE  Faithful(q)
<1>1. /\ q \in Seq(Messages) /\ Len(q) \in Nat /\ owed \in Seq(Ids) /\ Len(owed) \in Nat
      /\ \A k \in 1 .. Len(q) : q[k] \in Messages
      /\ \A x \in 1 .. Len(owed) : owed[x] \in Ids
  BY LenProperties, ElementOfSeq DEF ReplayInv, HistoryInv
<1>2. /\ \A m : m \in ToSet(q) <=> \E k \in 1 .. Len(q) : q[k] = m
      /\ \A m : m \in ToSet(owed) <=> \E x \in 1 .. Len(owed) : owed[x] = m
      /\ ToSet(q) \subseteq Messages /\ ToSet(owed) \subseteq Ids
  BY <1>1, SetOf
<1>3. Len(journal) \in Nat /\ Positions = 1 .. Len(journal)
  BY LenProperties DEF JournalInv, LinesInv, Positions
<1>4. \A k \in 1 .. Len(q) : \E i \in Positions : Enqueues(i, q[k])
  BY DEF ReplayInv, Positions
<1>5. \A k, l \in 1 .. Len(q), i, j \in Positions :
          k < l /\ Enqueues(i, q[k]) /\ Enqueues(j, q[l]) => i < j
  BY DEF ReplayInv
<1>6. \A k \in 1 .. Len(q), l \in Positions : Acks(l, q[k]) => q[k] \in doubtful
  BY DEF ReplayInv, Positions
<1>7. \A i \in Positions, m \in Messages :
          Enqueues(i, m) => m \in ToSet(q) \/ \E l \in Positions : Acks(l, m)
  BY DEF ReplayInv, Positions
<1>8. \A i, j \in Positions, m \in Messages :
          /\ Enqueues(i, m) /\ Enqueues(j, m) => i = j
          /\ Enqueues(i, m) => m = NewId \/ m \in issued \ damaged
          /\ Acks(i, m) => m \in issued \ ToSet(owed)
  BY DEF JournalInv, OnceInv
<1>9. /\ \A m \in ToSet(owed) \ damaged : \E i \in Positions : Enqueues(i, m)
      /\ \A k, l \in 1 .. Len(owed), i, j \in Positions :
            k < l /\ Enqueues(i, owed[k]) /\ Enqueues(j, owed[l]) => i < j
      /\ \A i \in Positions, m \in Ids :
            Enqueues(i, m) => m \in ToSet(owed) \cup doubtful \/ \E l \in Positions : Acks(l, m)
  BY DEF JournalInv, OwedInv
<1>10. \A i \in Positions : Enqueues(i, NewId) => damaged # {}
  BY DEF JournalInv, DoubtInv
<1>11. \A k, l \in 1 .. Len(q) : q[k] = q[l] => k = l
  <2> SUFFICES ASSUME NEW k \in 1 .. Len(q), NEW l \in 1 .. Len(q), q[k] = q[l], k < l
               PROVE  FALSE
    BY <1>1
  <2>1. PICK i \in Positions : Enqueues(i, q[k])
    BY <1>4
  <2>2. i < i
    BY <1>5, <2>1
  <2> QED
    BY <1>3, <2>2
<1>12. \A m \in ToSet(q) : \E i \in Positions : Enqueues(i, m)
  BY <1>2, <1>4
<1>13. ToSet(q) \subseteq issued \cup {NewId}
  BY <1>2, <1>8, <1>12
<1>14. \A m \in ToSet(q), l \in Positions : Acks(l, m) => m \in doubtful
  BY <1>2, <1>6
<1>15. ASSUME NEW m \in ToSet(q) PROVE m \in ToSet(owed) \cup doubtful \cup Excused
  <2>1. PICK i \in Positions : Enqueues(i, m)
    BY <1>12
  <2>2. CASE m = NewId
    BY <1>10, <2>1, <2>2 DEF Excused
  <2>3. CASE m \in Ids
    BY <1>9, <1>14, <2>1, <2>3
  <2> QED
    BY <1>2, <2>2, <2>3 DEF Messages
<1>16. ToSet(q) \cap ToSet(owed) = ToSet(owed) \ damaged
  <2>1. ASSUME NEW m \in ToSet(owed), m \notin damaged PROVE m \in ToSet(q)
    <3>1. PICK i \in Positions : Enqueues(i, m)
      BY <1>9, <2>1
    <3>2. m \in Messages
      BY <1>2 DEF Messages
    <3> QED
      BY <1>7, <1>8, <2>1, <3>1, <3>2
  <2>2. ASSUME NEW m \in ToSet(owed), m \in ToSet(q) PROVE m \notin damaged
    <3>1. m # NewId
      BY <1>2, IdAssumption
    <3> QED
      BY <1>2, <1>8, <1>12, <2>2, <3>1
  <2> QED
    BY <2>1, <2>2
<1>17. ASSUME NEW k \in 1 .. Len(q), NEW l \in 1 .. Len(q), NEW x \in 1 .. Len(owed),
              NEW y \in 1 .. Len(owed), k < l, q[k] = owed[x], q[l] = owed[y]
       PROVE  x < y
  <2>1. PICK i \in Positions : Enqueues(i, q[k])
    BY <1>4
  <2>2. PICK j \in Positions : Enqueues(j, q[l])
    BY <1>4
  <2>3. i < j
    BY <1>5, <1>17, <2>1, <2>2
  <2>4. x # y
    BY <1>11, <1>17
  <2>5. ~ (y < x)
    <3> SUFFICES ASSUME y < x PROVE FALSE
      OBVIOUS
    <3>1. j < i
      BY <1>9, <1>17, <2>1, <2>2
    <3> QED
      BY <1>3, <2>3, <3>1
  <2> QED
    BY <1>1, <2>4, <2>5
<1>18. Keeps(q)
  BY <1>16, <1>17 DEF Keeps
<1> QED
  BY <1>1, <1>11, <1>13, <1>15, <1>18 DEF Faithful
-----------------------------------------------------------------------------
(* The older version writes its journal.                                   *)

\* The journal has a new last line n.
Grows(n) ==
    /\ n \in Nat /\ Positions' = Positions \cup {n}
    /\ \A i \in Positions : i \in Nat /\ i < n /\ i \in 1 .. n - 1
    /\ \A i \in Positions : \A x : /\ Enqueues(i, x)' <=> Enqueues(i, x)
                                   /\ Acks(i, x)' <=> Acks(i, x)

LEMMA JournalGrows ==
    ASSUME LinesInv, NEW entry \in Legacy, journal' = Append(journal, entry)
    PROVE  /\ LinesInv' /\ Grows(Len(journal) + 1)
           /\ journal'[Len(journal) + 1] = entry
<1> DEFINE n == Len(journal) + 1
<1>1. entry \in Entries /\ journal \in Seq(Entries) /\ Len(journal) \in Nat
  BY LenProperties DEF Entries, LinesInv
<1>2. /\ journal' \in Seq(Entries) /\ Len(journal') = n /\ journal'[n] = entry
      /\ \A i \in 1 .. Len(journal) : journal'[i] = journal[i]
  BY <1>1, AppendProperties
<1>3. /\ n \in Nat /\ Positions' = Positions \cup {n}
      /\ \A i \in Positions : i \in Nat /\ i < n /\ i \in 1 .. n - 1
  BY <1>1, <1>2 DEF Positions
<1>4. \A i \in Positions : journal'[i] = journal[i]
  BY <1>2 DEF Positions
<1> HIDE DEF n
<1>5. \A i \in Positions : \A x : /\ Enqueues(i, x)' <=> Enqueues(i, x)
                                  /\ Acks(i, x)' <=> Acks(i, x)
  BY <1>4 DEF Enqueues, Acks
<1>6. \A i \in Positions' :
         journal'[i] \in Legacy \/ DecodeLegacyRecord(journal'[i]) \in {Corrupt, Renamed}
  BY <1>2, <1>3, <1>4 DEF LinesInv
<1>7. LinesInv'
  BY <1>2, <1>6, Zenon DEF LinesInv, Legacy, Entries, Corrupt, Renamed
<1>8. Grows(n)
  BY <1>3, <1>5, Zenon DEF Grows
<1> QED
  BY <1>2, <1>7, <1>8 DEF n

LEMMA NextLineOne ==
    /\ \A i, m, x : Enqueues(i, m)' /\ Enqueues(i, x)' => m = x
    /\ \A i, m, x : Acks(i, m)' /\ Acks(i, x)' => m = x
    /\ \A i, m, x : ~ (Enqueues(i, m)' /\ Acks(i, x)')
  BY RecordsDiffer DEF Enqueues, Acks

\* What is added to the end of the FIFO.
Adds(s, t, m) ==
    /\ t \in Seq(Ids) /\ Len(s) \in Nat /\ Len(t) = Len(s) + 1 /\ t[Len(s) + 1] = m
    /\ \A k \in 1 .. Len(s) : t[k] = s[k]
    /\ ToSet(t) = ToSet(s) \cup {m}

LEMMA EnqueueJournal ==
    ASSUME OnceInv, OwedInv, DoubtInv, HistoryInv, NEW n, Grows(n), NEW m \in Ids,
           Enqueues(n, m)', m \notin issued, issued' = issued \cup {m}, Adds(owed, owed', m),
           UNCHANGED <<damaged, doubtful, damages>>
    PROVE  OnceInv' /\ OwedInv' /\ DoubtInv'
<1>1. /\ n \in Nat /\ Positions' = Positions \cup {n}
      /\ \A i \in Positions : i \in Nat /\ i < n
  BY DEF Grows
<1>2. \A i \in Positions : \A x : /\ Enqueues(i, x)' <=> Enqueues(i, x)
                                  /\ Acks(i, x)' <=> Acks(i, x)
  BY DEF Grows
<1>3. \A x : Enqueues(n, x)' <=> x = m
  BY NextLineOne
<1>4. \A x : ~ Acks(n, x)'
  BY NextLineOne
<1>5. /\ m \notin damaged /\ m \notin ToSet(owed) /\ m # NewId /\ m \in Messages
      /\ damaged \subseteq Ids
  BY IdAssumption DEF HistoryInv, Messages
<1>6. \A i \in Positions, x \in Messages :
          /\ Enqueues(i, x) => x # m
          /\ Acks(i, x) => x # m
  BY <1>5 DEF OnceInv
<1>7. OnceInv'
  <2> SUFFICES ASSUME NEW i \in Positions', NEW j \in Positions', NEW x \in Messages
               PROVE  /\ Enqueues(i, x)' /\ Enqueues(j, x)' => i = j
                      /\ Acks(i, x)' /\ Acks(j, x)' => i = j
                      /\ Enqueues(i, x)' /\ Acks(j, x)' => i < j
                      /\ Enqueues(i, x)' => x = NewId \/ x \in issued' \ damaged'
                      /\ Acks(i, x)' => x \in issued' \ ToSet(owed')
    BY DEF OnceInv, Messages
  <2>1. i \in Positions \/ i = n
    BY <1>1
  <2>2. j \in Positions \/ j = n
    BY <1>1
  <2>3. Enqueues(i, x)' /\ Enqueues(j, x)' => i = j
    BY <1>2, <1>3, <1>6, <2>1, <2>2 DEF OnceInv
  <2>4. Acks(i, x)' /\ Acks(j, x)' => i = j
    BY <1>2, <1>4, <2>1, <2>2 DEF OnceInv
  <2>5. Enqueues(i, x)' /\ Acks(j, x)' => i < j
    BY <1>2, <1>3, <1>4, <1>6, <2>1, <2>2 DEF OnceInv
  <2>6. Enqueues(i, x)' => x = NewId \/ x \in issued' \ damaged'
    BY <1>2, <1>3, <1>5, <2>1 DEF OnceInv
  <2>7. Acks(i, x)' => x \in issued' \ ToSet(owed')
    BY <1>2, <1>4, <1>6, <2>1 DEF OnceInv, Adds
  <2> QED
    BY <2>3, <2>4, <2>5, <2>6, <2>7
<1>8. OwedInv'
  <2>1. \A x \in ToSet(owed') \ damaged' : \E i \in Positions' : Enqueues(i, x)'
    <3> TAKE x \in ToSet(owed') \ damaged'
    <3>1. CASE x = m
      BY <1>1, <1>3, <3>1
    <3>2. CASE x \in ToSet(owed) \ damaged
      BY <1>1, <1>2, <3>2 DEF OwedInv
    <3> QED
      BY <3>1, <3>2 DEF Adds
  <2>2. ASSUME NEW k \in 1 .. Len(owed'), NEW l \in 1 .. Len(owed'), NEW i \in Positions',
               NEW j \in Positions', k < l, Enqueues(i, owed[k])', Enqueues(j, owed[l])'
        PROVE  i < j
    <3>1. /\ k \in 1 .. Len(owed) /\ owed'[k] = owed[k]
          /\ l \in 1 .. Len(owed) \/ l = Len(owed) + 1
      BY <2>2 DEF Adds
    <3>2. PICK y : y = owed'[k] /\ Enqueues(i, y)'
      BY <2>2 DEF Enqueues
    <3>3. PICK z : z = owed'[l] /\ Enqueues(j, z)'
      BY <2>2 DEF Enqueues
    <3>4. owed[k] \in ToSet(owed)
      BY <3>1, SetOf DEF HistoryInv
    <3>5. i # n
      BY <1>3, <1>5, <3>1, <3>2, <3>4
    <3>6. i \in Positions /\ Enqueues(i, owed[k])
      BY <1>1, <1>2, <3>1, <3>2, <3>5
    <3>7. CASE l \in 1 .. Len(owed)
      <4>1. owed'[l] = owed[l]
        BY <3>7 DEF Adds
      <4>2. owed[l] \in ToSet(owed)
        BY <3>7, SetOf DEF HistoryInv
      <4>3. j # n
        BY <1>3, <1>5, <3>3, <4>1, <4>2
      <4>4. j \in Positions /\ Enqueues(j, owed[l])
        BY <1>1, <1>2, <3>3, <4>1, <4>3
      <4> QED
        BY <2>2, <3>1, <3>6, <3>7, <4>4 DEF OwedInv
    <3>8. CASE l = Len(owed) + 1
      <4>1. owed'[l] = m
        BY <3>8 DEF Adds
      <4>2. j = n
        BY <1>1, <1>2, <1>5, <1>6, <3>3, <4>1
      <4> QED
        BY <1>1, <3>6, <4>2
    <3> QED
      BY <3>1, <3>7, <3>8
  <2>3. ASSUME NEW i \in Positions', NEW x \in Ids, Enqueues(i, x)'
        PROVE  x \in ToSet(owed') \cup doubtful' \/ \E l \in Positions' : Acks(l, x)'
    <3>1. CASE i = n
      BY <1>3, <2>3, <3>1 DEF Adds
    <3>2. CASE i \in Positions
      <4>1. x \in ToSet(owed) \cup doubtful \/ \E l \in Positions : Acks(l, x)
        BY <1>2, <2>3, <3>2 DEF OwedInv
      <4> QED
        BY <1>1, <1>2, <4>1 DEF Adds
    <3> QED
      BY <1>1, <3>1, <3>2
  <2> QED
    BY <2>1, <2>2, <2>3 DEF OwedInv
<1>9. DoubtInv'
  <2>1. ASSUME NEW i \in Positions', NEW j \in Positions', NEW k \in Positions', NEW y \in Ids,
               NEW x \in Ids
        PROVE  /\ Enqueues(i, y)' /\ Enqueues(j, x)' /\ Acks(k, x)' /\ i < j
                  => x \in doubtful' \/ \E l \in 1 .. k - 1 : Acks(l, y)'
               /\ Acks(j, y)' /\ Acks(k, x)' /\ j < k /\ y \in doubtful' => x \in doubtful'
    <3>0. x \in Messages /\ y \in Messages
      BY DEF Messages
    <3>1. Acks(k, x)' => k \in Positions /\ Acks(k, x) /\ x # m
      BY <1>1, <1>2, <1>4, <1>6, <3>0
    <3>2. Acks(j, y)' => j \in Positions /\ Acks(j, y)
      BY <1>1, <1>2, <1>4
    <3>3. Enqueues(j, x)' /\ x # m => j \in Positions /\ Enqueues(j, x)
      BY <1>1, <1>2, <1>3
    <3>4. j \in Positions /\ i < j /\ Enqueues(i, y)' => i \in Positions /\ Enqueues(i, y)
      BY <1>1, <1>2
    <3>5. k \in Positions => \A l \in 1 .. k - 1 : l \in Positions
      BY LenProperties DEF Positions
    <3>6. ASSUME Enqueues(i, y)', Enqueues(j, x)', Acks(k, x)', i < j
          PROVE  x \in doubtful' \/ \E l \in 1 .. k - 1 : Acks(l, y)'
      <4>1. x \in doubtful \/ \E l \in 1 .. k - 1 : Acks(l, y)
        BY <3>1, <3>3, <3>4, <3>6 DEF DoubtInv
      <4> QED
        BY <1>2, <3>1, <3>5, <3>6, <4>1
    <3>7. ASSUME Acks(j, y)', Acks(k, x)', j < k, y \in doubtful' PROVE x \in doubtful'
      BY <3>1, <3>2, <3>7 DEF DoubtInv
    <3> QED
      BY <3>6, <3>7
  <2>2. ASSUME NEW i \in Positions', NEW k \in Positions', NEW x \in Ids,
               Enqueues(i, NewId)', Acks(k, x)', i < k
        PROVE  x \in doubtful'
    <3>1. i \in Positions /\ k \in Positions /\ Enqueues(i, NewId) /\ Acks(k, x)
      BY <1>1, <1>2, <1>3, <1>4, <1>5, <2>2
    <3> QED
      BY <2>2, <3>1 DEF DoubtInv
  <2>3. \A i \in Positions' : Enqueues(i, NewId)' => damaged' # {}
    BY <1>1, <1>2, <1>3, <1>5 DEF DoubtInv
  <2>4. damages' = 0 => damaged' = {} /\ doubtful' = {}
    BY DEF DoubtInv
  <2> QED
    BY <2>1, <2>2, <2>3, <2>4 DEF DoubtInv
<1> QED
  BY <1>7, <1>8, <1>9

\* What the head of the FIFO leaves behind.
Takes(s, t, m) ==
    /\ t \in Seq(Ids) /\ Len(s) \in Nat \ {0} /\ Len(t) = Len(s) - 1 /\ s[1] = m
    /\ \A k \in 1 .. Len(t) : t[k] = s[k + 1]
    /\ ToSet(s) = ToSet(t) \cup {m} /\ m \notin ToSet(t)

LEMMA AckJournal ==
    ASSUME OnceInv, OwedInv, DoubtInv, HistoryInv, NEW n, Grows(n), NEW m \in Ids,
           Acks(n, m)', damages = 0, Takes(owed, owed', m),
           UNCHANGED <<issued, damaged, doubtful, damages>>
    PROVE  OnceInv' /\ OwedInv' /\ DoubtInv'
<1>1. /\ n \in Nat /\ Positions' = Positions \cup {n}
      /\ \A i \in Positions : i \in Nat /\ i < n /\ i \in 1 .. n - 1
  BY DEF Grows
<1>2. \A i \in Positions : \A x : /\ Enqueues(i, x)' <=> Enqueues(i, x)
                                  /\ Acks(i, x)' <=> Acks(i, x)
  BY DEF Grows
<1>3. \A x : Acks(n, x)' <=> x = m
  BY NextLineOne
<1>4. \A x : ~ Enqueues(n, x)'
  BY NextLineOne
<1>5. /\ m \in ToSet(owed) /\ m # NewId /\ m \in Messages /\ m \in issued
      /\ ToSet(owed') \subseteq ToSet(owed) /\ damaged = {} /\ doubtful = {}
  BY IdAssumption DEF HistoryInv, Messages, Takes, DoubtInv
<1>6. \A i \in Positions : ~ Acks(i, m) /\ ~ Enqueues(i, NewId)
  BY <1>5 DEF OnceInv, DoubtInv
<1>7. OnceInv'
  <2> SUFFICES ASSUME NEW i \in Positions', NEW j \in Positions', NEW x \in Messages
               PROVE  /\ Enqueues(i, x)' /\ Enqueues(j, x)' => i = j
                      /\ Acks(i, x)' /\ Acks(j, x)' => i = j
                      /\ Enqueues(i, x)' /\ Acks(j, x)' => i < j
                      /\ Enqueues(i, x)' => x = NewId \/ x \in issued' \ damaged'
                      /\ Acks(i, x)' => x \in issued' \ ToSet(owed')
    BY DEF OnceInv, Messages
  <2>1. i \in Positions \/ i = n
    BY <1>1
  <2>2. j \in Positions \/ j = n
    BY <1>1
  <2>3. Enqueues(i, x)' /\ Enqueues(j, x)' => i = j
    BY <1>2, <1>4, <2>1, <2>2 DEF OnceInv
  <2>4. Acks(i, x)' /\ Acks(j, x)' => i = j
    BY <1>2, <1>3, <1>6, <2>1, <2>2 DEF OnceInv
  <2>5. Enqueues(i, x)' /\ Acks(j, x)' => i < j
    BY <1>1, <1>2, <1>4, <2>1, <2>2 DEF OnceInv
  <2>6. Enqueues(i, x)' => x = NewId \/ x \in issued' \ damaged'
    BY <1>2, <1>4, <2>1 DEF OnceInv
  <2>7. Acks(i, x)' => x \in issued' \ ToSet(owed')
    <3>1. CASE i = n
      BY <1>3, <1>5, <3>1 DEF Takes
    <3>2. CASE i \in Positions
      BY <1>2, <1>5, <3>2 DEF OnceInv
    <3> QED
      BY <2>1, <3>1, <3>2
  <2> QED
    BY <2>3, <2>4, <2>5, <2>6, <2>7
<1>8. OwedInv'
  <2>1. \A x \in ToSet(owed') \ damaged' : \E i \in Positions' : Enqueues(i, x)'
    BY <1>1, <1>2, <1>5 DEF OwedInv
  <2>2. ASSUME NEW k \in 1 .. Len(owed'), NEW l \in 1 .. Len(owed'), NEW i \in Positions',
               NEW j \in Positions', k < l, Enqueues(i, owed[k])', Enqueues(j, owed[l])'
        PROVE  i < j
    <3>1. /\ k + 1 \in 1 .. Len(owed) /\ owed'[k] = owed[k + 1]
          /\ l + 1 \in 1 .. Len(owed) /\ owed'[l] = owed[l + 1] /\ k + 1 < l + 1
      BY <2>2 DEF Takes
    <3>2. PICK y : y = owed'[k] /\ Enqueues(i, y)'
      BY <2>2 DEF Enqueues
    <3>3. PICK z : z = owed'[l] /\ Enqueues(j, z)'
      BY <2>2 DEF Enqueues
    <3>4. /\ i \in Positions /\ Enqueues(i, owed[k + 1])
          /\ j \in Positions /\ Enqueues(j, owed[l + 1])
      BY <1>1, <1>2, <1>4, <3>1, <3>2, <3>3
    <3> QED
      BY <3>1, <3>4 DEF OwedInv
  <2>3. ASSUME NEW i \in Positions', NEW x \in Ids, Enqueues(i, x)'
        PROVE  x \in ToSet(owed') \cup doubtful' \/ \E l \in Positions' : Acks(l, x)'
    <3>1. i \in Positions /\ Enqueues(i, x)
      BY <1>1, <1>2, <1>4, <2>3
    <3>2. x \in ToSet(owed) \cup doubtful \/ \E l \in Positions : Acks(l, x)
      BY <3>1 DEF OwedInv
    <3>3. CASE x = m
      BY <1>1, <1>3, <3>3
    <3>4. CASE x # m
      BY <1>1, <1>2, <3>2, <3>4 DEF Takes
    <3> QED
      BY <3>3, <3>4
  <2> QED
    BY <2>1, <2>2, <2>3 DEF OwedInv
<1>9. DoubtInv'
  <2>1. ASSUME NEW i \in Positions', NEW j \in Positions', NEW k \in Positions', NEW y \in Ids,
               NEW x \in Ids, Enqueues(i, y)', Enqueues(j, x)', Acks(k, x)', i < j
        PROVE  x \in doubtful' \/ \E l \in 1 .. k - 1 : Acks(l, y)'
    <3>1. i \in Positions /\ Enqueues(i, y) /\ j \in Positions /\ Enqueues(j, x)
      BY <1>1, <1>2, <1>4, <2>1
    <3>2. CASE k \in Positions
      <4>1. Acks(k, x)
        BY <1>2, <2>1, <3>2
      <4>2. x \in doubtful \/ \E l \in 1 .. k - 1 : Acks(l, y)
        BY <2>1, <3>1, <3>2, <4>1 DEF DoubtInv
      <4>3. \A l \in 1 .. k - 1 : l \in Positions
        BY <3>2, LenProperties DEF Positions
      <4> QED
        BY <1>2, <4>2, <4>3
    <3>3. CASE k = n
      <4>1. x = m
        BY <1>3, <2>1, <3>3
      <4>2. y \notin ToSet(owed)
        <5> SUFFICES ASSUME y \in ToSet(owed) PROVE FALSE
          OBVIOUS
        <5>1. PICK a \in 1 .. Len(owed) : owed[a] = y
          BY SetOf DEF HistoryInv
        <5>2. /\ 1 \in 1 .. Len(owed) /\ owed[1] = m
          BY DEF Takes
        <5>3. a # 1
          <6>1. i # j
            BY <1>1, <2>1, <3>1
          <6> QED
            BY <3>1, <4>1, <5>1, <5>2, <6>1 DEF OnceInv, Messages
        <5>4. 1 < a
          BY <5>3 DEF Takes
        <5>5. j < i
          BY <3>1, <4>1, <5>1, <5>2, <5>4 DEF OwedInv
        <5> QED
          BY <1>1, <2>1, <3>1, <5>5
      <4>3. PICK l \in Positions : Acks(l, y)
        BY <1>5, <3>1, <4>2 DEF OwedInv
      <4>4. l \in 1 .. k - 1 /\ Acks(l, y)'
        BY <1>1, <1>2, <3>3, <4>3
      <4> QED
        BY <4>4
    <3> QED
      BY <1>1, <3>2, <3>3
  <2>2. \A i, k \in Positions', x \in Ids :
            Enqueues(i, NewId)' /\ Acks(k, x)' /\ i < k => x \in doubtful'
    BY <1>1, <1>2, <1>4, <1>6
  <2>3. \A i \in Positions' : Enqueues(i, NewId)' => damaged' # {}
    BY <1>1, <1>2, <1>4, <1>6
  <2>4. doubtful' = {} /\ damaged' = {}
    BY <1>5
  <2> QED
    BY <2>1, <2>2, <2>3, <2>4 DEF DoubtInv
<1> QED
  BY <1>7, <1>8, <1>9

\* The identifiers acknowledged from line p on, and what the damage of line p changes.
LEMMA AckedFromLines ==
    ASSUME NEW p \in Positions, LinesInv, NEW x
    PROVE  x \in AckedFrom(p) <=> \E j \in Positions : p <= j /\ Acks(j, x)
<1>1. /\ Len(journal) \in Nat /\ p \in Nat
      /\ \A j : j \in p .. Len(journal) <=> j \in Positions /\ p <= j
  BY LenProperties DEF LinesInv, Positions
<1>2. \A j : DecodeLegacyRecord(journal[j]).op = "ack"
             => Acks(j, DecodeLegacyRecord(journal[j]).id)
  BY LineKinds, RecordsDiffer DEF Enqueues, Acks
<1>3. \A j : Acks(j, x) => /\ DecodeLegacyRecord(journal[j]).op = "ack"
                           /\ DecodeLegacyRecord(journal[j]).id = x
  BY RecordsDiffer DEF Acks
<1> QED
  BY <1>1, <1>2, <1>3 DEF AckedFrom

LaterAcks(p) == {x \in Ids : \E j \in Positions : p <= j /\ Acks(j, x)}

Spoilt(p) ==
    /\ p \in Positions /\ Positions' = Positions
    /\ \A i \in Positions \ {p} : \A x : /\ Enqueues(i, x)' <=> Enqueues(i, x)
                                         /\ Acks(i, x)' <=> Acks(i, x)
    /\ \A x : (Enqueues(p, x)' => x = NewId) /\ ~ Acks(p, x)'
    /\ Enqueues(p, NewId)' => /\ \A i \in Positions : ~ Enqueues(i, NewId)
                              /\ \E m \in Ids : Enqueues(p, m)
    /\ \A m : Enqueues(p, m) => m \in Ids
    /\ damaged' = damaged \cup {m \in Ids : Enqueues(p, m)}
    /\ \/ doubtful' = doubtful \cup LaterAcks(p)
       \/ doubtful' = doubtful /\ ~ Enqueues(p, NewId)' /\ \A x : ~ Acks(p, x)

LEMMA DamageJournal ==
    ASSUME OnceInv, OwedInv, DoubtInv, HistoryInv, NEW p, Spoilt(p), damages' # 0,
           UNCHANGED <<issued, owed>>, Len(journal) \in Nat
    PROVE  OnceInv' /\ OwedInv' /\ DoubtInv'
<1>1. p \in Positions /\ Positions' = Positions /\ \A i \in Positions : i \in Nat
  BY DEF Spoilt, Positions
<1>2. \A i \in Positions \ {p} : \A x : /\ Enqueues(i, x)' <=> Enqueues(i, x)
                                        /\ Acks(i, x)' <=> Acks(i, x)
  BY DEF Spoilt
<1>3. \A x : (Enqueues(p, x)' => x = NewId) /\ ~ Acks(p, x)'
  BY DEF Spoilt
<1>4. Enqueues(p, NewId)' => /\ \A i \in Positions : ~ Enqueues(i, NewId)
                             /\ \E m \in Ids : Enqueues(p, m)
  BY DEF Spoilt
<1>5. /\ damaged' = damaged \cup {m \in Ids : Enqueues(p, m)}
      /\ doubtful \subseteq doubtful'
      /\ doubtful' = doubtful \cup LaterAcks(p) \/ doubtful' = doubtful
      /\ Enqueues(p, NewId)' \/ (\E x : Acks(p, x)) => LaterAcks(p) \subseteq doubtful'
  BY DEF Spoilt
<1>6. \A i \in Positions, x \in Ids : Enqueues(i, x)' => Enqueues(i, x) /\ i # p
  BY <1>2, <1>3, IdAssumption
<1>7. \A i \in Positions : \A x : Acks(i, x)' => Acks(i, x) /\ i # p
  BY <1>2, <1>3
<1>8. \A i \in Positions : Enqueues(i, NewId)' => Enqueues(i, NewId) \/ i = p
  BY <1>2
<1>9. OnceInv'
  <2> SUFFICES ASSUME NEW i \in Positions, NEW j \in Positions, NEW x \in Messages
               PROVE  /\ Enqueues(i, x)' /\ Enqueues(j, x)' => i = j
                      /\ Acks(i, x)' /\ Acks(j, x)' => i = j
                      /\ Enqueues(i, x)' /\ Acks(j, x)' => i < j
                      /\ Enqueues(i, x)' => x = NewId \/ x \in issued' \ damaged'
                      /\ Acks(i, x)' => x \in issued' \ ToSet(owed')
    BY <1>1 DEF OnceInv, Messages
  <2>1. CASE x \in Ids
    <3>1. Enqueues(i, x)' => x \notin {m \in Ids : Enqueues(p, m)}
      BY <1>1, <1>6, <2>1 DEF OnceInv
    <3>2. Enqueues(i, x)' => Enqueues(i, x)
      BY <1>6, <2>1
    <3>3. Enqueues(j, x)' => Enqueues(j, x)
      BY <1>6, <2>1
    <3>4. (Acks(i, x)' => Acks(i, x)) /\ (Acks(j, x)' => Acks(j, x))
      BY <1>7
    <3>5. Enqueues(i, x) => x \in issued \ damaged
      BY <2>1, IdAssumption DEF OnceInv
    <3>6. Enqueues(i, x)' => x \in issued' \ damaged'
      BY <1>5, <3>1, <3>2, <3>5
    <3> QED
      BY <3>2, <3>3, <3>4, <3>6 DEF OnceInv
  <2>2. CASE x = NewId
    <3>1. \A k \in Positions : ~ Acks(k, x)'
      BY <1>7, <2>2, IdAssumption DEF OnceInv, HistoryInv, Messages
    <3>2. Enqueues(i, x)' /\ Enqueues(j, x)' => i = j
      BY <1>4, <1>8, <2>2 DEF OnceInv
    <3> QED
      BY <2>2, <3>1, <3>2
  <2> QED
    BY <2>1, <2>2 DEF Messages
<1>10. OwedInv'
  <2>1. ASSUME NEW x \in ToSet(owed'), x \notin damaged' PROVE \E i \in Positions' : Enqueues(i, x)'
    <3>1. x \in Ids /\ x \in ToSet(owed) \ damaged
      BY <1>5, <2>1 DEF HistoryInv
    <3>2. PICK i \in Positions : Enqueues(i, x)
      BY <3>1 DEF OwedInv
    <3>3. i # p
      BY <1>5, <2>1, <3>1, <3>2
    <3> QED
      BY <1>1, <1>2, <3>2, <3>3
  <2>2. ASSUME NEW k \in 1 .. Len(owed'), NEW l \in 1 .. Len(owed'), NEW i \in Positions',
               NEW j \in Positions', k < l, Enqueues(i, owed[k])', Enqueues(j, owed[l])'
        PROVE  i < j
    <3>1. owed[k] \in Ids /\ owed[l] \in Ids
      BY ElementOfSeq DEF HistoryInv
    <3>2. PICK y : y = owed[k] /\ Enqueues(i, y)'
      BY <2>2 DEF Enqueues
    <3>3. PICK z : z = owed[l] /\ Enqueues(j, z)'
      BY <2>2 DEF Enqueues
    <3>4. Enqueues(i, owed[k]) /\ Enqueues(j, owed[l])
      BY <1>1, <1>6, <3>1, <3>2, <3>3
    <3> QED
      BY <1>1, <2>2, <3>4 DEF OwedInv
  <2>3. ASSUME NEW i \in Positions', NEW x \in Ids, Enqueues(i, x)'
        PROVE  x \in ToSet(owed') \cup doubtful' \/ \E l \in Positions' : Acks(l, x)'
    <3>1. Enqueues(i, x)
      BY <1>1, <1>6, <2>3
    <3>2. x \in ToSet(owed) \cup doubtful \/ \E l \in Positions : Acks(l, x)
      BY <1>1, <3>1 DEF OwedInv
    <3>3. ASSUME NEW l \in Positions, Acks(l, x), l = p PROVE x \in doubtful'
      BY <1>1, <1>5, <3>3 DEF LaterAcks
    <3> QED
      BY <1>1, <1>2, <1>5, <3>2, <3>3
  <2> QED
    BY <2>1, <2>2, <2>3 DEF OwedInv
<1>11. DoubtInv'
  <2>1. ASSUME NEW i \in Positions', NEW j \in Positions', NEW k \in Positions', NEW y \in Ids,
               NEW x \in Ids, Enqueues(i, y)', Enqueues(j, x)', Acks(k, x)', i < j
        PROVE  x \in doubtful' \/ \E l \in 1 .. k - 1 : Acks(l, y)'
    <3>1. Enqueues(i, y) /\ Enqueues(j, x) /\ Acks(k, x)
      BY <1>1, <1>6, <1>7, <2>1
    <3>2. x \in doubtful \/ \E l \in 1 .. k - 1 : Acks(l, y)
      BY <1>1, <2>1, <3>1 DEF DoubtInv
    <3>3. ASSUME NEW l \in 1 .. k - 1, Acks(l, y)
          PROVE  x \in doubtful' \/ Acks(l, y)'
      <4>1. l \in Positions /\ l <= k
        BY <1>1 DEF Positions
      <4>2. CASE l = p
        <5>1. x \in LaterAcks(p)
          BY <1>1, <3>1, <4>1, <4>2 DEF LaterAcks
        <5> QED
          BY <1>5, <3>3, <4>2, <5>1
      <4>3. CASE l # p
        BY <1>2, <3>3, <4>1, <4>3
      <4> QED
        BY <4>2, <4>3
    <3> QED
      BY <1>5, <3>2, <3>3
  <2>2. ASSUME NEW j \in Positions', NEW k \in Positions', NEW y \in Ids, NEW x \in Ids,
               Acks(j, y)', Acks(k, x)', j < k, y \in doubtful'
        PROVE  x \in doubtful'
    <3>1. Acks(j, y) /\ Acks(k, x)
      BY <1>1, <1>7, <2>2
    <3>2. CASE y \in doubtful
      BY <1>1, <1>5, <2>2, <3>1, <3>2 DEF DoubtInv
    <3>3. CASE y \notin doubtful
      <4>1. doubtful' = doubtful \cup LaterAcks(p) /\ y \in LaterAcks(p)
        BY <1>5, <2>2, <3>3
      <4>2. PICK l \in Positions : p <= l /\ Acks(l, y)
        BY <4>1 DEF LaterAcks
      <4>3. l = j
        BY <1>1, <3>1, <4>2 DEF OnceInv, Messages
      <4>4. p <= k
        BY <1>1, <2>2, <4>2, <4>3
      <4> QED
        BY <1>1, <3>1, <4>1, <4>4 DEF LaterAcks
    <3> QED
      BY <3>2, <3>3
  <2>3. ASSUME NEW i \in Positions', NEW k \in Positions', NEW x \in Ids,
               Enqueues(i, NewId)', Acks(k, x)', i < k
        PROVE  x \in doubtful'
    <3>1. Acks(k, x)
      BY <1>1, <1>7, <2>3
    <3>2. CASE i = p
      <4>1. x \in LaterAcks(p)
        BY <1>1, <2>3, <3>1, <3>2 DEF LaterAcks
      <4> QED
        BY <1>5, <2>3, <3>2, <4>1
    <3>3. CASE i # p
      BY <1>1, <1>2, <1>5, <2>3, <3>1, <3>3 DEF DoubtInv
    <3> QED
      BY <3>2, <3>3
  <2>4. ASSUME NEW i \in Positions', Enqueues(i, NewId)' PROVE damaged' # {}
    <3>1. CASE i = p
      BY <1>4, <1>5, <2>4, <3>1
    <3>2. CASE i # p
      BY <1>1, <1>2, <1>5, <2>4, <3>2 DEF DoubtInv
    <3> QED
      BY <3>1, <3>2
  <2> QED
    BY <2>1, <2>2, <2>3, <2>4 DEF DoubtInv
<1> QED
  BY <1>9, <1>10, <1>11
-----------------------------------------------------------------------------
(* Induction and recursion over positions, in terms of sets and functions. *)

LEMMA SetInduction ==
    ASSUME NEW S, 0 \in S, \A n \in Nat : n \in S => n + 1 \in S
    PROVE  Nat \subseteq S
<1> SUFFICES ASSUME Nat \ S # {}
             PROVE  FALSE
  OBVIOUS
<1> DEFINE T == Nat \ S
<1>1. PICK t \in T : \A u \in T : ~ (<<u, t>> \in OpToRel(<, Nat))
  <2>1. T \subseteq Nat /\ T # {}
    OBVIOUS
  <2> QED
    BY <2>1, NatLessThanWellFounded, WFMin
<1>2. \A u \in T : ~ (u < t)
  BY <1>1, Zenon DEF OpToRel
<1>3. t \in Nat /\ t # 0
  OBVIOUS
<1>4. t - 1 \in Nat /\ t - 1 < t
  BY <1>3
<1>5. t - 1 \in S
  BY <1>2, <1>4
<1>6. (t - 1) + 1 \in S
  BY <1>4, <1>5
<1> QED
  BY <1>3, <1>6

\* f starts with x0 and follows Step up to N.
Solves(f, N, X, x0, Step) ==
    /\ f \in [0 .. N -> X] /\ f[0] = x0
    /\ \A k \in 1 .. N : f[k] = Step[k][f[k - 1]]

Steps(N, X) == [1 .. N -> [X -> X]]

LEMMA RecursionExists ==
    ASSUME NEW N \in Nat, NEW X, NEW x0 \in X, NEW Step \in Steps(N, X)
    PROVE  \E f : Solves(f, N, X, x0, Step)
<1> DEFINE Good(f, n) == f[0] = x0 /\ \A k \in 1 .. n : f[k] = Step[k][f[k - 1]]
           S == {n \in Nat : n <= N => \E f \in [0 .. n -> X] : Good(f, n)}
<1>1. 0 \in S
  <2> DEFINE f == [k \in 0 .. 0 |-> x0]
  <2>1. f \in [0 .. 0 -> X] /\ f[0] = x0
    OBVIOUS
  <2>2. \A k \in 1 .. 0 : FALSE
    OBVIOUS
  <2>3. Good(f, 0)
    BY <2>1, <2>2, Zenon
  <2> HIDE DEF f, Good
  <2> QED
    BY <2>1, <2>3
<1>2. \A n \in Nat : n \in S => n + 1 \in S
  <2> TAKE n \in Nat
  <2> HAVE n \in S
  <2>0. n + 1 \in Nat
    OBVIOUS
  <2> SUFFICES ASSUME n + 1 <= N
               PROVE  \E f \in [0 .. n + 1 -> X] : Good(f, n + 1)
    BY <2>0, Zenon
  <2>1. n <= N /\ n + 1 \in 1 .. N
    OBVIOUS
  <2>2. PICK g \in [0 .. n -> X] : Good(g, n)
    BY <2>1
  <2> DEFINE v == Step[n + 1][g[n]]
             f == [k \in 0 .. n + 1 |-> IF k = n + 1 THEN v ELSE g[k]]
  <2>3. v \in X
    <3>1. n \in 0 .. n
      OBVIOUS
    <3>2. g[n] \in X
      BY <3>1
    <3>3. Step[n + 1] \in [X -> X]
      BY <2>1 DEF Steps
    <3> QED
      BY <3>2, <3>3
  <2>4. \A k \in 0 .. n : f[k] = g[k]
    OBVIOUS
  <2>5. f[n + 1] = v
    OBVIOUS
  <2>6. f \in [0 .. n + 1 -> X]
    <3> HIDE DEF v
    <3> QED
      BY <2>3
  <2> HIDE DEF f
  <2>7. \A k \in 1 .. n + 1 : f[k] = Step[k][f[k - 1]]
    <3> TAKE k \in 1 .. n + 1
    <3>1. k - 1 \in 0 .. n
      OBVIOUS
    <3>2. CASE k = n + 1
      BY <2>4, <2>5, <3>1, <3>2
    <3>3. CASE k # n + 1
      <4>1. k \in 1 .. n /\ k \in 0 .. n
        BY <3>3
      <4> QED
        BY <2>2, <2>4, <3>1, <4>1
    <3> QED
      BY <3>2, <3>3
  <2>8. f[0] = x0
    BY <2>2, <2>4
  <2> QED
    BY <2>6, <2>7, <2>8
<1>3. N \in S
  <2> HIDE DEF S
  <2> QED
    BY <1>1, <1>2, SetInduction
<1>4. PICK f \in [0 .. N -> X] : Good(f, N)
  BY <1>3
<1> QED
  BY <1>4 DEF Solves

LEMMA SolutionGrows ==
    ASSUME NEW N \in Nat, NEW X, NEW x0, NEW P, NEW Q, NEW f, NEW g,
           Solves(f, N, X, x0, P), Solves(g, N + 1, X, x0, Q), \A k \in 1 .. N : P[k] = Q[k]
    PROVE  f[N] \in X /\ g[N + 1] = Q[N + 1][f[N]]
<1> DEFINE S == {n \in Nat : n <= N => f[n] = g[n]}
<1>1. 0 \in S
  BY DEF Solves
<1>2. ASSUME NEW n \in Nat, n \in S PROVE n + 1 \in S
  <2> SUFFICES ASSUME n + 1 <= N PROVE f[n + 1] = g[n + 1]
    OBVIOUS
  <2>1. n + 1 \in 1 .. N /\ n + 1 \in 1 .. N + 1 /\ (n + 1) - 1 = n /\ f[n] = g[n]
    BY <1>2
  <2>2. f[n + 1] = P[n + 1][f[n]]
    BY <2>1 DEF Solves
  <2>3. g[n + 1] = Q[n + 1][g[n]]
    BY <2>1 DEF Solves
  <2> QED
    BY <2>1, <2>2, <2>3
<1> HIDE DEF S
<1>3. Nat \subseteq S
  BY <1>1, <1>2, SetInduction
<1>4. f[N] = g[N]
  BY <1>3 DEF S
<1>5. N + 1 \in 1 .. N + 1 /\ (N + 1) - 1 = N /\ N \in 0 .. N
  OBVIOUS
<1>6. g[N + 1] = Q[N + 1][g[N]]
  BY <1>5 DEF Solves
<1>7. f[N] \in X
  BY <1>5 DEF Solves
<1> QED
  BY <1>4, <1>6, <1>7
-----------------------------------------------------------------------------
(* The bytes of a segment.                                                 *)

BytesStep(s) == [k \in 1 .. Len(s) |-> [x \in Nat |-> x + SizeOf[s[k]]]]

LEMMA BytesDef ==
    ASSUME NEW s \in Seq(Messages)
    PROVE  \E f : Solves(f, Len(s), Nat, 0, BytesStep(s)) /\ Bytes(s) = f[Len(s)]
<1> DEFINE Sums(g) == [n \in 0 .. Len(s) |-> IF n = 0 THEN 0 ELSE g[n - 1] + SizeOf[s[n]]]
<1>1. Len(s) \in Nat /\ \A k \in 1 .. Len(s) : SizeOf[s[k]] \in Nat
  BY LenProperties, ElementOfSeq, MigrationAssumption DEF Messages
<1>2. BytesStep(s) \in Steps(Len(s), Nat)
  <2>1. \A k \in 1 .. Len(s), x \in Nat : x + SizeOf[s[k]] \in Nat
    BY <1>1
  <2> QED
    BY <2>1, Zenon DEF Steps, BytesStep
<1>3. PICK f : Solves(f, Len(s), Nat, 0, BytesStep(s))
  <2>1. 0 \in Nat
    OBVIOUS
  <2> QED
    BY <1>1, <1>2, <2>1, RecursionExists, Zenon
<1>4. ASSUME NEW n \in 0 .. Len(s)
      PROVE  f[n] = IF n = 0 THEN 0 ELSE f[n - 1] + SizeOf[s[n]]
  <2>1. CASE n = 0
    BY <1>3, <2>1 DEF Solves
  <2>2. CASE n # 0
    <3>1. n \in 1 .. Len(s) /\ n - 1 \in 0 .. Len(s)
      BY <1>1, <2>2
    <3>2. f[n - 1] \in Nat /\ f[n] = BytesStep(s)[n][f[n - 1]]
      BY <1>3, <3>1 DEF Solves
    <3> QED
      BY <2>2, <3>1, <3>2 DEF BytesStep
  <2> QED
    BY <2>1, <2>2
<1>5. f = Sums(f)
  BY <1>3, <1>4 DEF Solves
<1> DEFINE g == CHOOSE h : h = Sums(h)
<1>6. g = Sums(g)
  <2> HIDE DEF Sums
  <2> QED
    BY <1>5, Zenon
<1>7. Bytes(s) = g[Len(s)]
  BY Zenon DEF Bytes
<1> HIDE DEF g
<1>8. \A n \in 0 .. Len(s) : g[n] = IF n = 0 THEN 0 ELSE g[n - 1] + SizeOf[s[n]]
  BY <1>6
<1> DEFINE T == {n \in Nat : n <= Len(s) => g[n] = f[n]}
<1>9. 0 \in T
  BY <1>1, <1>4, <1>8
<1>10. ASSUME NEW n \in Nat, n \in T PROVE n + 1 \in T
  <2> SUFFICES ASSUME n + 1 <= Len(s) PROVE g[n + 1] = f[n + 1]
    OBVIOUS
  <2>1. n + 1 \in 0 .. Len(s) /\ n + 1 # 0 /\ (n + 1) - 1 = n /\ g[n] = f[n]
    BY <1>1, <1>10
  <2> QED
    BY <1>4, <1>8, <2>1
<1> HIDE DEF T
<1>11. Nat \subseteq T
  BY <1>9, <1>10, SetInduction
<1>12. g[Len(s)] = f[Len(s)]
  BY <1>1, <1>11 DEF T
<1> QED
  BY <1>3, <1>7, <1>12

LEMMA BytesEmpty == Bytes(<<>>) = 0
<1>1. <<>> \in Seq(Messages) /\ Len(<<>>) = 0
  OBVIOUS
<1>2. PICK f : Solves(f, Len(<<>>), Nat, 0, BytesStep(<<>>)) /\ Bytes(<<>>) = f[Len(<<>>)]
  BY <1>1, BytesDef
<1> QED
  BY <1>1, <1>2 DEF Solves

LEMMA BytesAppend ==
    ASSUME NEW s \in Seq(Messages), NEW m \in Messages
    PROVE  Bytes(s) \in Nat /\ Bytes(Append(s, m)) = Bytes(s) + SizeOf[m]
<1> DEFINE t == Append(s, m)
<1>1. /\ t \in Seq(Messages) /\ Len(t) = Len(s) + 1 /\ t[Len(s) + 1] = m /\ Len(s) \in Nat
      /\ \A k \in 1 .. Len(s) : t[k] = s[k]
  BY AppendProperties, LenProperties
<1> HIDE DEF t
<1>2. PICK f : Solves(f, Len(s), Nat, 0, BytesStep(s)) /\ Bytes(s) = f[Len(s)]
  BY BytesDef
<1>3. PICK g : Solves(g, Len(t), Nat, 0, BytesStep(t)) /\ Bytes(t) = g[Len(t)]
  BY <1>1, BytesDef
<1>4. \A k \in 1 .. Len(s) : BytesStep(s)[k] = BytesStep(t)[k]
  BY <1>1 DEF BytesStep
<1>5. f[Len(s)] \in Nat /\ g[Len(s) + 1] = BytesStep(t)[Len(s) + 1][f[Len(s)]]
  BY <1>1, <1>2, <1>3, <1>4, SolutionGrows
<1>6. BytesStep(t)[Len(s) + 1][f[Len(s)]] = f[Len(s)] + SizeOf[m]
  BY <1>1, <1>5 DEF BytesStep
<1> QED
  BY <1>1, <1>2, <1>3, <1>5, <1>6 DEF t
-----------------------------------------------------------------------------
(* The records of a directory's segments.                                  *)

FlattenStep(ss) == [k \in 1 .. Len(ss) |-> [x \in Seq(Messages) |-> x \o ss[k]]]

LEMMA FlattenDef ==
    ASSUME NEW ss \in Seq(Seq(Messages))
    PROVE  \E f : /\ Solves(f, Len(ss), Seq(Messages), <<>>, FlattenStep(ss))
                  /\ FlattenSeq(ss) = f[Len(ss)]
<1> DEFINE Joins(g) == [n \in 1 .. Len(ss) |-> IF n = 1 THEN ss[n] ELSE g[n - 1] \o ss[n]]
<1>1. Len(ss) \in Nat /\ \A k \in 1 .. Len(ss) : ss[k] \in Seq(Messages)
  BY LenProperties, ElementOfSeq
<1>2. FlattenStep(ss) \in Steps(Len(ss), Seq(Messages))
  <2>1. \A k \in 1 .. Len(ss), x \in Seq(Messages) : x \o ss[k] \in Seq(Messages)
    BY <1>1, ConcatProperties
  <2> QED
    BY <2>1, Zenon DEF Steps, FlattenStep
<1>3. PICK f : Solves(f, Len(ss), Seq(Messages), <<>>, FlattenStep(ss))
  <2>1. <<>> \in Seq(Messages)
    OBVIOUS
  <2> QED
    BY <1>1, <1>2, <2>1, RecursionExists, Zenon
<1>4. ASSUME NEW n \in 1 .. Len(ss)
      PROVE  f[n] = IF n = 1 THEN ss[n] ELSE f[n - 1] \o ss[n]
  <2>1. n - 1 \in 0 .. Len(ss)
    BY <1>1
  <2>2. f[n - 1] \in Seq(Messages) /\ f[n] = FlattenStep(ss)[n][f[n - 1]]
    BY <1>3, <2>1 DEF Solves
  <2>3. f[n] = f[n - 1] \o ss[n]
    BY <2>2 DEF FlattenStep
  <2>4. CASE n = 1
    <3>1. f[n - 1] = <<>>
      BY <1>3, <2>4 DEF Solves
    <3> QED
      BY <1>1, <2>3, <2>4, <3>1, ConcatEmptySeq
  <2> QED
    BY <2>3, <2>4
<1> DEFINE e == [n \in 1 .. Len(ss) |-> f[n]]
<1>5. e = Joins(e)
  <2>1. \A n \in 1 .. Len(ss) : n # 1 => n - 1 \in 1 .. Len(ss)
    BY <1>1
  <2> QED
    BY <1>4, <2>1
<1> DEFINE g == CHOOSE h : h = Joins(h)
<1>6. g = Joins(g)
  <2> HIDE DEF Joins, e
  <2> QED
    BY <1>5, Zenon
<1>7. CASE Len(ss) = 0
  <2>1. FlattenSeq(ss) = <<>>
    BY <1>7, EmptySeq DEF FlattenSeq
  <2> QED
    BY <1>3, <1>7, <2>1 DEF Solves
<1>8. CASE Len(ss) # 0
  <2>1. FlattenSeq(ss) = g[Len(ss)]
    BY <1>8, Zenon DEF FlattenSeq
  <2> HIDE DEF g
  <2>2. \A n \in 1 .. Len(ss) : g[n] = IF n = 1 THEN ss[n] ELSE g[n - 1] \o ss[n]
    BY <1>6
  <2> DEFINE T == {n \in Nat : n + 1 <= Len(ss) => g[n + 1] = f[n + 1]}
  <2>3. 0 \in T
    <3>1. 1 \in 1 .. Len(ss) /\ 0 + 1 = 1
      BY <1>1, <1>8
    <3> QED
      BY <1>4, <2>2, <3>1
  <2>4. ASSUME NEW n \in Nat, n \in T PROVE n + 1 \in T
    <3> SUFFICES ASSUME (n + 1) + 1 <= Len(ss) PROVE g[(n + 1) + 1] = f[(n + 1) + 1]
      OBVIOUS
    <3>1. /\ (n + 1) + 1 \in 1 .. Len(ss) /\ (n + 1) + 1 # 1 /\ ((n + 1) + 1) - 1 = n + 1
          /\ g[n + 1] = f[n + 1]
      BY <1>1, <2>4
    <3> QED
      BY <1>4, <2>2, <3>1
  <2> HIDE DEF T
  <2>5. Nat \subseteq T
    BY <2>3, <2>4, SetInduction
  <2>6. Len(ss) - 1 \in Nat /\ (Len(ss) - 1) + 1 = Len(ss)
    BY <1>1, <1>8
  <2>7. g[Len(ss)] = f[Len(ss)]
    <3>1. \A n \in Nat : n + 1 <= Len(ss) => g[n + 1] = f[n + 1]
      BY <2>5, Zenon DEF T
    <3>2. (Len(ss) - 1) + 1 <= Len(ss)
      BY <1>1, <2>6
    <3> QED
      BY <2>6, <3>1, <3>2, Zenon
  <2> QED
    BY <1>3, <2>1, <2>7
<1> QED
  BY <1>7, <1>8

LEMMA FlattenEmpty == FlattenSeq(<<>>) = <<>>
<1>1. <<>> \in Seq(Seq(Messages)) /\ Len(<<>>) = 0
  OBVIOUS
<1>2. PICK f : /\ Solves(f, Len(<<>>), Seq(Messages), <<>>, FlattenStep(<<>>))
               /\ FlattenSeq(<<>>) = f[Len(<<>>)]
  BY <1>1, FlattenDef
<1> QED
  BY <1>1, <1>2 DEF Solves

LEMMA FlattenAppend ==
    ASSUME NEW ss \in Seq(Seq(Messages)), NEW s \in Seq(Messages)
    PROVE  /\ FlattenSeq(ss) \in Seq(Messages)
           /\ FlattenSeq(Append(ss, s)) = FlattenSeq(ss) \o s
<1> DEFINE tt == Append(ss, s)
<1>1. /\ tt \in Seq(Seq(Messages)) /\ Len(tt) = Len(ss) + 1 /\ tt[Len(ss) + 1] = s
      /\ Len(ss) \in Nat /\ \A k \in 1 .. Len(ss) : tt[k] = ss[k]
  BY AppendProperties, LenProperties
<1> HIDE DEF tt
<1>2. PICK f : /\ Solves(f, Len(ss), Seq(Messages), <<>>, FlattenStep(ss))
               /\ FlattenSeq(ss) = f[Len(ss)]
  BY FlattenDef
<1>3. PICK g : /\ Solves(g, Len(tt), Seq(Messages), <<>>, FlattenStep(tt))
               /\ FlattenSeq(tt) = g[Len(tt)]
  BY <1>1, FlattenDef
<1>4. \A k \in 1 .. Len(ss) : FlattenStep(ss)[k] = FlattenStep(tt)[k]
  <2> TAKE k \in 1 .. Len(ss)
  <2>1. k \in 1 .. Len(tt) /\ tt[k] = ss[k]
    BY <1>1
  <2> QED
    BY <2>1, Zenon DEF FlattenStep
<1>5. /\ f[Len(ss)] \in Seq(Messages)
      /\ g[Len(ss) + 1] = FlattenStep(tt)[Len(ss) + 1][f[Len(ss)]]
  BY <1>1, <1>2, <1>3, <1>4, SolutionGrows
<1>6. FlattenStep(tt)[Len(ss) + 1][f[Len(ss)]] = f[Len(ss)] \o s
  <2>1. Len(ss) + 1 \in 1 .. Len(tt)
    BY <1>1
  <2> QED
    BY <1>1, <1>5, <2>1, Zenon DEF FlattenStep
<1> QED
  BY <1>1, <1>2, <1>3, <1>5, <1>6 DEF tt
-----------------------------------------------------------------------------
(* The older version's steps.                                              *)

LEMMA AddsAppend ==
    ASSUME NEW s \in Seq(Ids), NEW m \in Ids
    PROVE  Adds(s, Append(s, m), m)
  BY AppendSet, AppendProperties, LenProperties DEF Adds

LEMMA TakesTail ==
    ASSUME NEW s \in Seq(Ids), s # <<>>, \A k, l \in 1 .. Len(s) : s[k] = s[l] => k = l
    PROVE  Takes(s, Tail(s), Head(s))
<1>1. /\ Tail(s) \in Seq(Ids) /\ Len(s) \in Nat \ {0} /\ Len(Tail(s)) = Len(s) - 1
      /\ s[1] = Head(s) /\ \A k \in 1 .. Len(Tail(s)) : Tail(s)[k] = s[k + 1]
  BY EmptySeq, HeadTailProperties
<1>2. ToSet(s) = ToSet(Tail(s)) \cup {Head(s)}
  BY TailSet
<1>3. Head(s) \notin ToSet(Tail(s))
  <2>0. \A m : m \in ToSet(Tail(s)) <=> \E k \in 1 .. Len(Tail(s)) : Tail(s)[k] = m
    BY <1>1, SetOf, Zenon
  <2> SUFFICES ASSUME NEW k \in 1 .. Len(Tail(s)), Tail(s)[k] = Head(s) PROVE FALSE
    BY <2>0, Zenon
  <2>1. k + 1 \in 1 .. Len(s) /\ 1 \in 1 .. Len(s) /\ k + 1 # 1 /\ s[k + 1] = s[1]
    BY <1>1
  <2> QED
    BY <2>1
<1> QED
  BY <1>1, <1>2, <1>3 DEF Takes

LEMMA OldStep ==
    ASSUME MInv, OldFrame, HistoryInv', JournalInv'
    PROVE  MInv'
<1>1. pc = "old" /\ pc' = "old" /\ place' = place /\ storage' = storage /\ settled' = settled
      /\ rooted' = rooted /\ retained' = retained /\ pending' = pending
      /\ completed' = completed
  BY DEF OldFrame, tree
<1>2. line' = line /\ plan' = plan /\ frames' = frames /\ build' = build
  BY DEF OldFrame, install
<1>3. TypesInv'
  BY <1>1, Zenon DEF MInv, TypesInv
<1>4. StageInv'
  <2>1. Idle
    BY <1>1 DEF MInv, StageInv
  <2>2. Idle'
    BY <1>2, <2>1 DEF Idle
  <2> QED
    BY <1>1, <2>2 DEF StageInv
<1>5. PlaceInv'
  <2>1. /\ place = "none" /\ storage = EmptyDirectory /\ ~ (settled /\ rooted)
        /\ pending = <<>> /\ retained /\ completed = {}
    BY <1>1 DEF MInv, PlaceInv
  <2> QED
    BY <1>1, <2>1 DEF PlaceInv, EmptyDirectory
<1> QED
  BY <1>3, <1>4, <1>5 DEF MInv

LEMMA LegacyEnqueueInv ==
    ASSUME MInv, NEW m \in Ids, LegacyEnqueue(m)
    PROVE  MInv'
<1>1. OldFrame /\ HistoryInv /\ JournalInv
  <2>1. pc = "old" /\ place = "none"
    BY DEF LegacyEnqueue, OldFrame, MInv, PlaceInv
  <2> QED
    BY <2>1 DEF LegacyEnqueue, MInv, PlaceInv
<1>2. /\ m \notin issued /\ issued' = issued \cup {m} /\ owed' = Append(owed, m)
      /\ UNCHANGED <<damaged, doubtful, damages, completed, setbacks>>
  BY DEF LegacyEnqueue, OldFrame
<1>3. Adds(owed, owed', m)
  BY <1>1, <1>2, AddsAppend DEF HistoryInv
<1>4. PICK entry \in Lines(m) : journal' = Append(journal, entry)
  BY DEF LegacyEnqueue
<1>5. entry \in Legacy /\ DecodeLegacyRecord(entry) = Record("enqueue", m)
  BY <1>4, DecodeWritten DEF Lines, Legacy
<1>6. /\ LinesInv' /\ Grows(Len(journal) + 1) /\ journal'[Len(journal) + 1] = entry
  BY <1>1, <1>4, <1>5, JournalGrows DEF JournalInv
<1>10. PICK n : n = Len(journal) + 1
  OBVIOUS
<1>7. Enqueues(n, m)'
  <2>1. DecodeLegacyRecord(journal'[n]) = Record("enqueue", m)
    BY <1>5, <1>6, <1>10
  <2> QED
    BY <2>1, Zenon DEF Enqueues
<1>8. OnceInv' /\ OwedInv' /\ DoubtInv'
  <2>1. Grows(n)
    BY <1>6, <1>10
  <2> QED
    BY <1>1, <1>2, <1>3, <1>7, <2>1, EnqueueJournal DEF JournalInv
<1>9. HistoryInv'
  <2>1. m \notin ToSet(owed)
    BY <1>1, <1>2 DEF HistoryInv
  <2>2. \A k \in 1 .. Len(owed) : owed[k] # m
    BY <1>1, <2>1, SetOf DEF HistoryInv
  <2>3. \A k, l \in 1 .. Len(owed') : owed'[k] = owed'[l] => k = l
    BY <1>1, <1>3, <2>2 DEF HistoryInv, Adds
  <2>4. owed' \in Seq(Ids) /\ ToSet(owed') \subseteq issued' /\ issued' \subseteq Ids
    BY <1>1, <1>2, <1>3 DEF HistoryInv, Adds
  <2> QED
    BY <1>1, <1>2, <2>3, <2>4 DEF HistoryInv
<1> QED
  BY <1>1, <1>6, <1>8, <1>9, OldStep DEF JournalInv

LEMMA LegacyAckInv ==
    ASSUME MInv, LegacyAck
    PROVE  MInv'
<1>1. OldFrame /\ HistoryInv /\ JournalInv
  <2>1. pc = "old" /\ place = "none"
    BY DEF LegacyAck, OldFrame, MInv, PlaceInv
  <2> QED
    BY <2>1 DEF LegacyAck, MInv, PlaceInv
<1>0. PICK m : m = Head(owed)
  OBVIOUS
<1>2. /\ owed # <<>> /\ owed' = Tail(owed) /\ damages = 0
      /\ UNCHANGED <<issued, damaged, doubtful, damages, completed, setbacks>>
  BY DEF LegacyAck, OldFrame
<1>3. m \in Ids /\ Takes(owed, owed', m)
  BY <1>1, <1>2, <1>0, TakesTail, HeadTailProperties DEF HistoryInv
<1>4. journal' = Append(journal, EncodeAck(m))
  BY <1>0 DEF LegacyAck
<1>5. EncodeAck(m) \in Legacy /\ DecodeLegacyRecord(EncodeAck(m)) = Record("ack", m)
  BY <1>3, DecodeWritten DEF Legacy
<1>6. /\ LinesInv' /\ Grows(Len(journal) + 1) /\ journal'[Len(journal) + 1] = EncodeAck(m)
  BY <1>1, <1>4, <1>5, JournalGrows DEF JournalInv
<1>10. PICK n : n = Len(journal) + 1
  OBVIOUS
<1>7. Acks(n, m)'
  <2>1. DecodeLegacyRecord(journal'[n]) = Record("ack", m)
    BY <1>5, <1>6, <1>10
  <2> QED
    BY <2>1, Zenon DEF Acks
<1>8. OnceInv' /\ OwedInv' /\ DoubtInv'
  <2>1. Grows(n)
    BY <1>6, <1>10
  <2> QED
    BY <1>1, <1>2, <1>3, <1>7, <2>1, AckJournal DEF JournalInv
<1>9. HistoryInv'
  <2>1. \A k, l \in 1 .. Len(owed') : owed'[k] = owed'[l] => k = l
    BY <1>1, <1>3 DEF HistoryInv, Takes
  <2>2. owed' \in Seq(Ids) /\ ToSet(owed') \subseteq issued'
    BY <1>1, <1>2, <1>3 DEF HistoryInv, Takes
  <2> QED
    BY <1>1, <1>2, <2>1, <2>2 DEF HistoryInv
<1> QED
  BY <1>1, <1>6, <1>8, <1>9, OldStep DEF JournalInv

LEMMA DamageSpoils ==
    ASSUME LinesInv, NEW p \in Positions, Damage(p)
    PROVE  LinesInv' /\ Spoilt(p)
<1> DEFINE before == DecodeLegacyRecord(journal[p])
<1>1. PICK form \in DamagedForms(journal[p]) :
          /\ DecodeLegacyRecord(form) = Renamed
                => \A j \in 1 .. Len(journal) : DecodeLegacyRecord(journal[j]) # Renamed
          /\ journal' = [journal EXCEPT ![p] = form]
          /\ damaged' = damaged \cup (IF before.op = "enqueue" THEN {before.id} ELSE {})
          /\ doubtful' = doubtful \cup (IF before.op = "ack" \/ DecodeLegacyRecord(form) # Corrupt
                                        THEN AckedFrom(p) ELSE {})
  BY Zenon DEF Damage
<1>2. journal[p] \in Legacy /\ before \notin {Corrupt, Renamed}
  BY DEF Damage, LinesInv
<1>3. form \in Entries
  BY <1>1, <1>2 DEF Entries
<1>4. /\ journal \in Seq(Entries) /\ p \in 1 .. Len(journal) /\ Len(journal) \in Nat
  BY LenProperties DEF LinesInv, Positions
<1>5. /\ journal' \in Seq(Entries) /\ Len(journal') = Len(journal)
      /\ \A j \in 1 .. Len(journal) : journal'[j] = IF j = p THEN form ELSE journal[j]
  BY <1>1, <1>3, <1>4, ExceptSeq
<1>6. Positions' = Positions
  BY <1>5 DEF Positions
<1>7. \/ DecodeLegacyRecord(form) = Corrupt
      \/ /\ DecodeLegacyRecord(form) = Renamed
         /\ \E m \in Ids : before = Record("enqueue", m)
  BY <1>1, <1>2, DecodeDamaged
<1>8. LinesInv'
  <2>1. ASSUME NEW i \in Positions
        PROVE  journal'[i] \in Legacy \/ DecodeLegacyRecord(journal'[i]) \in {Corrupt, Renamed}
    BY <1>5, <1>7 DEF LinesInv, Positions
  <2> QED
    BY <1>5, <1>6, <2>1 DEF LinesInv
<1>9. \A i \in Positions \ {p} : \A x : /\ Enqueues(i, x)' <=> Enqueues(i, x)
                                        /\ Acks(i, x)' <=> Acks(i, x)
  BY <1>5 DEF Enqueues, Acks, Positions
<1>10. journal'[p] = form
  BY <1>4, <1>5
<1>11. \A x : (Enqueues(p, x)' => x = NewId) /\ ~ Acks(p, x)'
  BY <1>7, <1>10, RecordsDiffer DEF Enqueues, Acks, Renamed
<1>12. ASSUME Enqueues(p, NewId)'
       PROVE  /\ \A i \in Positions : ~ Enqueues(i, NewId)
              /\ \E m \in Ids : Enqueues(p, m)
  <2>1. DecodeLegacyRecord(form) = Renamed
    BY <1>10, <1>12 DEF Enqueues, Renamed
  <2>2. DecodeLegacyRecord(form) # Corrupt
    BY <2>1, RecordsDiffer DEF Renamed
  <2> QED
    BY <1>1, <1>7, <2>1, <2>2 DEF Enqueues, Renamed, Positions
<1>13. \A m : Enqueues(p, m) => m \in Ids
  BY <1>2, DecodeKinds, RecordsDiffer DEF Enqueues, Renamed, Messages
<1>14. damaged' = damaged \cup {m \in Ids : Enqueues(p, m)}
  <2>1. CASE \E m \in Ids : Enqueues(p, m)
    <3>1. PICK m \in Ids : Enqueues(p, m)
      BY <2>1
    <3>2. before.op = "enqueue" /\ before.id = m
      BY <3>1, RecordsDiffer DEF Enqueues
    <3>3. {y \in Ids : Enqueues(p, y)} = {m}
      BY <3>1, LineOne
    <3> QED
      BY <1>1, <3>2, <3>3
  <2>2. CASE ~ \E m \in Ids : Enqueues(p, m)
    <3>1. before.op # "enqueue"
      BY <1>2, <1>13, <2>2, LineKinds, RecordsDiffer DEF Acks
    <3>2. {m \in Ids : Enqueues(p, m)} = {}
      BY <2>2
    <3> QED
      BY <1>1, <3>1, <3>2
  <2> QED
    BY <2>1, <2>2
<1>15. AckedFrom(p) = LaterAcks(p)
  <2>1. \A x : (\E j \in Positions : p <= j /\ Acks(j, x)) => x \in Ids
    BY LineKinds, LineOne, CorruptLine
  <2> QED
    BY <2>1, AckedFromLines DEF LaterAcks
<1>16. \/ doubtful' = doubtful \cup LaterAcks(p)
       \/ doubtful' = doubtful /\ ~ Enqueues(p, NewId)' /\ \A x : ~ Acks(p, x)
  <2>1. CASE before.op = "ack" \/ DecodeLegacyRecord(form) # Corrupt
    BY <1>1, <1>15, <2>1
  <2>2. CASE ~ (before.op = "ack" \/ DecodeLegacyRecord(form) # Corrupt)
    <3>1. doubtful' = doubtful
      BY <1>1, <2>2
    <3>2. ~ Enqueues(p, NewId)'
      BY <1>10, <2>2, RecordsDiffer DEF Enqueues
    <3>3. \A x : ~ Acks(p, x)
      BY <2>2, RecordsDiffer DEF Acks
    <3> QED
      BY <3>1, <3>2, <3>3
  <2> QED
    BY <2>1, <2>2
<1> QED
  BY <1>6, <1>8, <1>9, <1>11, <1>12, <1>13, <1>14, <1>16 DEF Spoilt

LEMMA DamageInv ==
    ASSUME MInv, NEW p \in Positions, Damage(p)
    PROVE  MInv'
<1>1. OldFrame /\ HistoryInv /\ JournalInv
  <2>1. pc = "old" /\ place = "none"
    BY DEF Damage, OldFrame, MInv, PlaceInv
  <2> QED
    BY <2>1 DEF Damage, MInv, PlaceInv
<1>2. LinesInv' /\ Spoilt(p)
  BY <1>1, DamageSpoils DEF JournalInv
<1>3. /\ issued' = issued /\ owed' = owed /\ completed' = completed /\ setbacks' = setbacks
      /\ damages' = damages + 1 /\ damages < MaxDamages
  BY DEF Damage, OldFrame
<1>4. damages' \in 0 .. MaxDamages /\ damages' # 0
  BY <1>1, <1>3, MigrationAssumption DEF HistoryInv
<1>5. OnceInv' /\ OwedInv' /\ DoubtInv'
  <2>1. Len(journal) \in Nat
    BY <1>1, LenProperties DEF JournalInv, LinesInv
  <2> QED
    BY <1>1, <1>2, <1>3, <1>4, <2>1, DamageJournal DEF JournalInv
<1>6. damaged' \subseteq issued
  <2>1. \A m \in Ids : Enqueues(p, m) => m \in issued
    BY <1>1, IdAssumption DEF JournalInv, OnceInv, Messages
  <2> QED
    BY <1>1, <1>2, <2>1 DEF Spoilt, HistoryInv
<1>7. doubtful' \subseteq Ids
  BY <1>1, <1>2 DEF Spoilt, LaterAcks, HistoryInv
<1>8. HistoryInv'
  BY <1>1, <1>3, <1>4, <1>6, <1>7 DEF HistoryInv
<1> QED
  BY <1>1, <1>2, <1>5, <1>8, OldStep DEF JournalInv
-----------------------------------------------------------------------------
(* The constructor leaves the journal and the history alone.               *)

LEMMA Still ==
    ASSUME OpenFrame
    PROVE  /\ HistoryInv /\ setbacks' \in 0 .. MaxSetbacks => HistoryInv'
           /\ JournalInv => JournalInv'
           /\ \A q : Faithful(q)' <=> Faithful(q)
           /\ \A q, n : ReplayInv(q, n)' <=> ReplayInv(q, n)
           /\ retained' = retained /\ journal' = journal /\ completed' = completed
<1>1. /\ retained' = retained /\ journal' = journal /\ issued' = issued /\ owed' = owed
      /\ completed' = completed /\ damaged' = damaged /\ doubtful' = doubtful
      /\ damages' = damages
  BY DEF OpenFrame, files, history
<1>2. HistoryInv /\ setbacks' \in 0 .. MaxSetbacks => HistoryInv'
  BY <1>1 DEF HistoryInv
<1>3. Positions' = Positions /\ \A i, m : /\ Enqueues(i, m)' <=> Enqueues(i, m)
                                          /\ Acks(i, m)' <=> Acks(i, m)
  BY <1>1 DEF Positions, Enqueues, Acks
<1>4. JournalInv => JournalInv'
  <2>1. LinesInv => LinesInv'
    BY <1>1, <1>3 DEF LinesInv
  <2>2. OnceInv => OnceInv'
    BY <1>1, <1>3 DEF OnceInv
  <2>3. OwedInv => OwedInv'
    BY <1>1 DEF OwedInv, Positions, Enqueues, Acks
  <2>4. DoubtInv => DoubtInv'
    BY <1>1, <1>3 DEF DoubtInv
  <2> QED
    BY <2>1, <2>2, <2>3, <2>4 DEF JournalInv
<1>5. ASSUME NEW q PROVE Faithful(q)' <=> Faithful(q)
  <2>1. (Keeps(q)' <=> Keeps(q)) /\ Excused' = Excused
    BY <1>1 DEF Keeps, Excused
  <2> QED
    BY <1>1, <2>1 DEF Faithful
<1>6. ASSUME NEW q, NEW n PROVE ReplayInv(q, n)' <=> ReplayInv(q, n)
  BY <1>1, Zenon DEF ReplayInv, Enqueues, Acks, Positions
<1> QED
  BY <1>1, <1>2, <1>4, <1>5, <1>6

LEMMA NextFaithful ==
    ASSUME NEW q, Faithful(q)'
    PROVE  /\ q = plan' => Faithful(plan)'
           /\ q = FlattenSeq(build'.segments) => Faithful(FlattenSeq(build.segments))'
           /\ q = FlattenSeq(build'.segments) \o frames' \o plan'
                => Faithful(FlattenSeq(build.segments) \o frames \o plan)'
           /\ q = Contents(storage)' => Faithful(Contents(storage))'
<1>1. q = plan' => Faithful(plan)'
  BY Zenon DEF Faithful, Keeps
<1>2. q = FlattenSeq(build'.segments) => Faithful(FlattenSeq(build.segments))'
  BY Zenon DEF Faithful, Keeps
<1>3. q = FlattenSeq(build'.segments) \o frames' \o plan'
        => Faithful(FlattenSeq(build.segments) \o frames \o plan)'
  BY Zenon DEF Faithful, Keeps
<1>4. q = Contents(storage)' => Faithful(Contents(storage))'
  BY Zenon DEF Faithful, Keeps
<1> QED
  BY <1>1, <1>2, <1>3, <1>4

LEMMA NextReplay ==
    ASSUME NEW q, NEW n, ReplayInv(q, n)', q = plan', n = line'
    PROVE  ReplayInv(plan, line)'
  BY Zenon DEF ReplayInv, Enqueues, Acks
-----------------------------------------------------------------------------
(* The steps of the constructor.                                           *)

\* Until the rename nothing is in place.
LEMMA BuildStep ==
    ASSUME MInv, OpenFrame, UNCHANGED <<tree, pending, setbacks>>, place = "none",
           pc \notin {"barrier", "up"}, StageInv',
           pc' \in {"replay", "format", "segment", "checkpoint", "fsync", "rename"}
    PROVE  MInv'
<1>1. place' = place /\ storage' = storage /\ settled' = settled /\ rooted' = rooted
      /\ pending' = pending /\ setbacks' = setbacks
  BY DEF tree
<1>2. /\ retained' = retained /\ journal' = journal /\ completed' = completed
      /\ HistoryInv' /\ (JournalInv => JournalInv')
  BY <1>1, Still DEF MInv, HistoryInv
<1>3. TypesInv'
  <2>1. pc' \in {"old", "closed", "replay", "format", "segment", "checkpoint", "fsync", "rename",
                 "parent", "load", "barrier", "up"}
    OBVIOUS
  <2> QED
    BY <1>1, <1>2, <2>1, Zenon DEF MInv, TypesInv
<1>4. PlaceInv'
  <2>1. /\ storage = EmptyDirectory /\ ~ (settled /\ rooted) /\ pending = <<>>
        /\ JournalInv /\ completed = {} /\ (~ retained => journal = <<>>)
    BY DEF MInv, PlaceInv
  <2>2. JournalInv' /\ storage' = EmptyDirectory'
    BY <1>1, <1>2, <2>1 DEF EmptyDirectory
  <2>3. pc' \notin {"parent", "load", "barrier", "up"} /\ pc' # "old"
    OBVIOUS
  <2> QED
    BY <1>1, <1>2, <2>1, <2>2, <2>3 DEF PlaceInv
<1> QED
  BY <1>2, <1>3, <1>4 DEF MInv

LEMMA ReplayStart ==
    ASSUME JournalInv
    PROVE  ReplayInv(<<>>, 0)
<1>1. <<>> \in Seq(Messages) /\ Len(<<>>) = 0 /\ 0 \in 0 .. Len(journal)
  BY LenProperties DEF JournalInv, LinesInv
<1>2. \A k \in 1 .. 0 : FALSE
  OBVIOUS
<1> QED
  BY <1>1, <1>2 DEF ReplayInv

LEMMA ResolveInv ==
    ASSUME MInv, Resolve
    PROVE  MInv'
<1>1. /\ pc \in {"old", "closed"} /\ OpenFrame /\ UNCHANGED <<install, tree, pending, setbacks>>
      /\ pc' = IF place # "none" THEN "load" ELSE IF retained THEN "replay" ELSE "format"
  BY DEF Resolve, MustInstall
<1>2. Idle
  BY <1>1 DEF MInv, StageInv
<1>3. /\ line' = 0 /\ plan' = <<>> /\ frames' = <<>> /\ build' = EmptyDirectory
      /\ build' = build
  BY <1>1, <1>2 DEF install, Idle
<1>4. CASE place = "none"
  <2>1. JournalInv /\ completed = {} /\ (~ retained => journal = <<>>) /\ HistoryInv
    BY <1>4 DEF MInv, PlaceInv
  <2>2. retained' = retained
    BY <1>1, Still
  <2>3. CASE retained
    <3>1. pc' = "replay"
      BY <1>1, <1>4, <2>3
    <3>2. ReplayInv(plan, line)'
      BY <1>1, <1>3, <2>1, ReplayStart, Still, NextReplay
    <3>3. StageInv'
      BY <1>3, <2>2, <2>3, <3>1, <3>2 DEF StageInv, EmptyDirectory
    <3> QED
      BY <1>1, <1>4, <3>1, <3>3, BuildStep
  <2>4. CASE ~ retained
    <3>1. pc' = "format"
      BY <1>1, <1>4, <2>4
    <3>2. Faithful(<<>>)
      <4>1. Len(journal) = 0
        BY <2>1, <2>4
      <4> QED
        BY <2>1, <4>1, ReplayStart, ReplayEnd
    <3>3. Faithful(plan)'
      BY <1>1, <1>3, <3>2, Still, NextFaithful
    <3>4. StageInv'
      BY <1>3, <3>1, <3>3 DEF StageInv, EmptyDirectory
    <3> QED
      BY <1>1, <1>4, <3>1, <3>4, BuildStep
  <2> QED
    BY <2>3, <2>4
<1>5. CASE place # "none"
  <2>1. pc' = "load"
    BY <1>1, <1>5
  <2>2. /\ place' = place /\ storage' = storage /\ settled' = settled /\ rooted' = rooted
        /\ pending' = pending /\ setbacks' = setbacks
    BY <1>1 DEF tree
  <2>3. /\ retained' = retained /\ journal' = journal /\ completed' = completed
        /\ HistoryInv' /\ (JournalInv => JournalInv')
    BY <1>1, <2>2, Still DEF MInv, HistoryInv
  <2>4. TypesInv'
    BY <2>1, <2>2, <2>3, Zenon DEF MInv, TypesInv
  <2>5. StageInv'
    BY <1>3, <2>1 DEF StageInv, Idle, EmptyDirectory
  <2>6. PlaceInv'
    <3>1. /\ Solid(storage) /\ Faithful(Contents(storage)) /\ pending = <<>>
          /\ ~ (settled /\ rooted) => JournalInv /\ completed = {}
          /\ ~ retained => journal = <<>>
      BY <1>1, <1>5 DEF MInv, PlaceInv
    <3>2. Solid(storage)' /\ Contents(storage)' = Contents(storage)
      BY <2>2, <3>1
    <3>3. Faithful(Contents(storage))'
      BY <1>1, <3>1, <3>2, Still, NextFaithful
    <3> QED
      BY <1>5, <2>1, <2>2, <2>3, <3>1, <3>2, <3>3 DEF PlaceInv
  <2> QED
    BY <2>3, <2>4, <2>5, <2>6 DEF MInv
<1> QED
  BY <1>4, <1>5

LEMMA ReplayLineInv ==
    ASSUME MInv, ReplayLine
    PROVE  MInv'
<1>1. /\ pc = "replay" /\ OpenFrame /\ UNCHANGED <<tree, pending, setbacks>>
      /\ frames' = frames /\ build' = build
  BY DEF ReplayLine
<1>2. /\ place = "none" /\ frames = <<>> /\ build = EmptyDirectory /\ retained
      /\ ReplayInv(plan, line) /\ JournalInv /\ completed = {} /\ HistoryInv
  BY <1>1 DEF MInv, StageInv, PlaceInv
<1>3. retained' = retained /\ EmptyDirectory' = EmptyDirectory
  BY <1>1, Still DEF EmptyDirectory
<1>4. CASE /\ line < Len(journal) /\ line' = line + 1 /\ UNCHANGED pc
           /\ plan' = Replayed(plan, DecodeLegacyRecord(journal[line + 1]))
  <2>1. ReplayInv(plan', line')
    BY <1>2, <1>4, ReplayStep
  <2>2. PICK q, n : q = plan' /\ n = line' /\ ReplayInv(q, n)
    BY <2>1
  <2>3. ReplayInv(plan, line)'
    BY <1>1, <2>2, Still, NextReplay
  <2>4. StageInv'
    BY <1>1, <1>2, <1>3, <1>4, <2>3 DEF StageInv
  <2> QED
    BY <1>1, <1>2, <1>4, <2>4, BuildStep
<1>5. CASE line = Len(journal) /\ line' = 0 /\ pc' = "format" /\ UNCHANGED plan
  <2>1. Faithful(plan)
    BY <1>2, <1>5, ReplayEnd
  <2>2. PICK q : q = plan' /\ Faithful(q)
    BY <1>5, <2>1
  <2>3. Faithful(plan)'
    BY <1>1, <2>2, Still, NextFaithful
  <2>4. StageInv'
    BY <1>1, <1>2, <1>3, <1>5, <2>3 DEF StageInv
  <2> QED
    BY <1>1, <1>2, <1>5, <2>4, BuildStep
<1> QED
  BY <1>4, <1>5 DEF ReplayLine

\* What the steps make of the directory that is built.
AddSegment(d, segment) == [d EXCEPT !.segments = Append(@, segment)]
AddCheckpoint(d)       == [d EXCEPT !.checkpoint = TRUE]
SyncEntries(d)         == [d EXCEPT !.synced = TRUE]

LEMMA NewDirectories ==
    ASSUME NEW ss, NEW segment
    PROVE  /\ Fresh(ss).segments = ss /\ Complete(ss).segments = ss /\ Ready(ss).segments = ss
           /\ AddSegment(Fresh(ss), segment) = Fresh(Append(ss, segment))
           /\ AddCheckpoint(Fresh(ss)) = Complete(ss)
           /\ SyncEntries(Complete(ss)) = Ready(ss)
<1>1. PICK v : v = Append(ss, segment)
  OBVIOUS
<1>2. Fresh(ss).segments = ss /\ Complete(ss).segments = ss /\ Ready(ss).segments = ss
  BY DEF Fresh, Complete, Ready
<1>3. PICK t, n, a, r : t = TRUE /\ n = FALSE /\ a = <<>> /\ r = 0
  OBVIOUS
<1>4. \A x : /\ Fresh(x) = [format |-> t, segments |-> x, checkpoint |-> n, synced |-> n,
                             appended |-> a, removed |-> r]
             /\ Complete(x) = [format |-> t, segments |-> x, checkpoint |-> t, synced |-> n,
                                appended |-> a, removed |-> r]
             /\ Ready(x) = [format |-> t, segments |-> x, checkpoint |-> t, synced |-> t,
                             appended |-> a, removed |-> r]
  BY <1>3, Zenon DEF Fresh, Complete, Ready
<1>5. [Fresh(ss) EXCEPT !.segments = v] = Fresh(v)
  BY <1>4
<1>6. [Fresh(ss) EXCEPT !.checkpoint = t] = Complete(ss)
  BY <1>4
<1>7. [Complete(ss) EXCEPT !.synced = t] = Ready(ss)
  BY <1>4
<1> QED
  BY <1>1, <1>2, <1>3, <1>5, <1>6, <1>7, Zenon DEF AddSegment, AddCheckpoint, SyncEntries

LEMMA WriteFormatInv ==
    ASSUME MInv, WriteFormat
    PROVE  MInv'
<1>1. /\ pc = "format" /\ pc' = "segment" /\ build' = [build EXCEPT !.format = TRUE]
      /\ OpenFrame /\ UNCHANGED <<tree, pending, setbacks>>
      /\ line' = line /\ plan' = plan /\ frames' = frames
  BY DEF WriteFormat, Goto
<1>2. /\ place = "none" /\ line = 0 /\ frames = <<>> /\ build = EmptyDirectory /\ Faithful(plan)
  BY <1>1 DEF MInv, StageInv, PlaceInv
<1>3. build' = Fresh(<<>>)
  BY <1>1, <1>2 DEF EmptyDirectory, Fresh
<1>4. build'.segments = <<>> /\ <<>> \in Seq(Seq(Messages)) /\ <<>> \in Seq(Messages)
      /\ \A i \in 1 .. Len(build'.segments) : FALSE
  <2>1. build'.segments = <<>>
    BY <1>3 DEF Fresh
  <2> QED
    BY <2>1
<1>5. build' = Fresh(build'.segments) /\ Segments(build')
  BY <1>3, <1>4 DEF Segments
<1>6. Fits(<<>>)
  BY MigrationAssumption DEF Fits
<1>7. plan \in Seq(Messages)
  BY <1>2 DEF Faithful
<1>8. FlattenSeq(build'.segments) \o frames' \o plan' = plan
  <2>1. <<>> \o <<>> = <<>> /\ <<>> \o plan = plan
    BY <1>4, <1>7, ConcatEmptySeq
  <2> QED
    BY <1>1, <1>2, <1>4, <2>1, FlattenEmpty
<1>9. Faithful(FlattenSeq(build.segments) \o frames \o plan)'
  <2>1. PICK q : q = plan /\ Faithful(q)
    BY <1>2
  <2> QED
    BY <1>1, <1>8, <2>1, Still, NextFaithful
<1>10. StageInv'
  BY <1>1, <1>2, <1>4, <1>5, <1>6, <1>7, <1>9 DEF StageInv
<1> QED
  BY <1>1, <1>2, <1>10, BuildStep

LEMMA MoveHead ==
    ASSUME NEW a \in Seq(Messages), NEW b \in Seq(Messages), NEW c \in Seq(Messages), c # <<>>
    PROVE  a \o Append(b, Head(c)) \o Tail(c) = a \o b \o c
<1>1. Head(c) \in Messages /\ Tail(c) \in Seq(Messages) /\ <<Head(c)>> \in Seq(Messages)
  BY HeadTailProperties
<1>2. Append(b, Head(c)) = b \o <<Head(c)>> /\ c = <<Head(c)>> \o Tail(c)
  <2>1. Append(b, Head(c)) = b \o <<Head(c)>>
    BY <1>1, AppendIsConcat
  <2>2. c = <<Head(c)>> \o Tail(c)
    OBVIOUS
  <2> QED
    BY <2>1, <2>2
<1>3. a \o (b \o <<Head(c)>>) = (a \o b) \o <<Head(c)>> /\ a \o b \in Seq(Messages)
  BY <1>1, ConcatAssociative, ConcatProperties
<1>4. ((a \o b) \o <<Head(c)>>) \o Tail(c) = (a \o b) \o (<<Head(c)>> \o Tail(c))
  BY <1>1, <1>3, ConcatAssociative
<1> QED
  BY <1>2, <1>3, <1>4, Zenon

LEMMA AddFrameInv ==
    ASSUME MInv, AddFrame
    PROVE  MInv'
<1>1. /\ pc = "segment" /\ pc' = "segment" /\ plan # <<>> /\ ~ IsFull(Head(plan))
      /\ frames' = Append(frames, Head(plan)) /\ plan' = Tail(plan)
      /\ OpenFrame /\ UNCHANGED <<tree, pending, setbacks>> /\ line' = line /\ build' = build
  BY DEF AddFrame
<1>2. /\ place = "none" /\ line = 0 /\ build = Fresh(build.segments) /\ Segments(build)
      /\ plan \in Seq(Messages)
      /\ frames \in Seq(Messages) /\ Fits(frames)
      /\ Faithful(FlattenSeq(build.segments) \o frames \o plan)
      /\ \A i \in 1 .. Len(build.segments) : build.segments[i] # <<>>
  BY <1>1 DEF MInv, StageInv, PlaceInv
<1>3. /\ Head(plan) \in Messages /\ plan' \in Seq(Messages) /\ frames' \in Seq(Messages)
      /\ frames' # <<>> /\ Len(frames') = Len(frames) + 1 /\ Len(frames) \in Nat
  BY <1>1, <1>2, HeadTailProperties, AppendProperties, LenProperties
<1>4. Bytes(frames) \in Nat /\ Bytes(frames') = Bytes(frames) + SizeOf[Head(plan)]
      /\ SizeOf[Head(plan)] \in Nat
  BY <1>1, <1>2, <1>3, BytesAppend, MigrationAssumption DEF Messages
<1>5. Fits(frames')
  <2>1. CASE frames = <<>>
    BY <1>3, <2>1, MigrationAssumption DEF Fits
  <2>2. CASE frames # <<>>
    <3>1. ~ (Len(frames) >= SegmentMaxRecords)
          /\ ~ (Bytes(frames) + SizeOf[Head(plan)] > SegmentMaxBytes)
      BY <1>1, <2>2 DEF IsFull
    <3> QED
      BY <1>3, <1>4, <3>1, MigrationAssumption DEF Fits
  <2> QED
    BY <2>1, <2>2
<1>6. FlattenSeq(build.segments) \in Seq(Messages)
  BY <1>2, <1>3, FlattenAppend DEF Segments
<1>7. FlattenSeq(build'.segments) \o frames' \o plan'
        = FlattenSeq(build.segments) \o frames \o plan
  <2>1. FlattenSeq(build.segments) \o Append(frames, Head(plan)) \o Tail(plan)
          = FlattenSeq(build.segments) \o frames \o plan
    <3>1. /\ FlattenSeq(build.segments) \in Seq(Messages) /\ frames \in Seq(Messages)
          /\ plan \in Seq(Messages) /\ plan # <<>>
      BY <1>1, <1>2, <1>6
    <3> QED
      BY <3>1, MoveHead, Zenon
  <2>2. build' = build /\ frames' = Append(frames, Head(plan)) /\ plan' = Tail(plan)
    BY <1>1
  <2> QED
    BY <2>1, <2>2, Zenon
<1>8. Faithful(FlattenSeq(build.segments) \o frames \o plan)'
  <2>1. PICK q : q = FlattenSeq(build.segments) \o frames \o plan /\ Faithful(q)
    BY <1>2
  <2> QED
    BY <1>1, <1>7, <2>1, Still, NextFaithful
<1>9. StageInv'
  BY <1>1, <1>2, <1>3, <1>5, <1>8 DEF StageInv
<1> QED
  BY <1>1, <1>2, <1>9, BuildStep

LEMMA WriteSegmentInv ==
    ASSUME MInv, WriteSegment
    PROVE  MInv'
<1>1. /\ pc = "segment" /\ frames' = <<>>
      /\ build' = [build EXCEPT !.segments = Append(@, frames)]
      /\ OpenFrame /\ UNCHANGED <<tree, pending, setbacks>> /\ line' = line /\ plan' = plan
      /\ \/ plan # <<>> /\ IsFull(Head(plan)) /\ pc' = pc
         \/ plan = <<>> /\ pc' = "checkpoint"
  BY DEF WriteSegment
<1>2. /\ place = "none" /\ line = 0 /\ build = Fresh(build.segments) /\ Segments(build)
      /\ plan \in Seq(Messages)
      /\ frames \in Seq(Messages) /\ Fits(frames)
      /\ Faithful(FlattenSeq(build.segments) \o frames \o plan)
      /\ \A i \in 1 .. Len(build.segments) : build.segments[i] # <<>>
      /\ build.segments # <<>> => frames # <<>> \/ plan # <<>>
  BY <1>1 DEF MInv, StageInv, PlaceInv
<1> DEFINE ss == Append(build.segments, frames)
<1>3. build' = Fresh(ss)
  <2>1. build' = AddSegment(build, frames)
    BY <1>1 DEF AddSegment
  <2>2. build = Fresh(build.segments)
    BY <1>2
  <2>3. AddSegment(Fresh(build.segments), frames) = Fresh(ss)
    BY NewDirectories, Zenon
  <2> QED
    BY <2>1, <2>2, <2>3, Zenon
<1>4. build'.segments = ss
  BY <1>3, NewDirectories, Zenon
<1>5. build.segments \in Seq(Seq(Messages))
      /\ \A i \in 1 .. Len(build.segments) : Fits(build.segments[i])
  BY <1>2 DEF Segments
<1>6. /\ ss \in Seq(Seq(Messages)) /\ ss # <<>> /\ Len(build.segments) \in Nat
      /\ Len(ss) = Len(build.segments) + 1 /\ ss[Len(build.segments) + 1] = frames
      /\ \A i \in 1 .. Len(build.segments) : ss[i] = build.segments[i]
  BY <1>2, <1>5, AppendProperties, LenProperties
<1>7. /\ FlattenSeq(build.segments) \in Seq(Messages)
      /\ FlattenSeq(ss) = FlattenSeq(build.segments) \o frames
  BY <1>2, <1>5, FlattenAppend
<1> HIDE DEF ss
<1>8. ASSUME NEW i \in 1 .. Len(ss)
      PROVE  Fits(ss[i]) /\ (ss[i] = <<>> => i = Len(ss) /\ frames = <<>>)
  <2>1. i \in 1 .. Len(build.segments) \/ i = Len(build.segments) + 1
    BY <1>6
  <2>2. CASE i \in 1 .. Len(build.segments)
    <3>1. ss[i] = build.segments[i]
      BY <1>6, <2>2
    <3> QED
      BY <1>2, <1>5, <2>2, <3>1
  <2>3. CASE i = Len(build.segments) + 1
    BY <1>2, <1>6, <2>3
  <2> QED
    BY <2>1, <2>2, <2>3
<1>9. FlattenSeq(ss) \in Seq(Messages)
  BY <1>2, <1>7, ConcatProperties
<1>10. <<>> \in Seq(Messages) /\ Fits(<<>>)
  BY MigrationAssumption DEF Fits
<1>11. CASE plan # <<>> /\ IsFull(Head(plan)) /\ pc' = pc
  <2>1. frames # <<>>
    BY <1>11 DEF IsFull
  <2>2. build' = Fresh(build'.segments) /\ Segments(build')
    BY <1>3, <1>4, <1>6, <1>8, <2>1 DEF Segments
  <2>3. FlattenSeq(build'.segments) \o frames' \o plan'
          = FlattenSeq(build.segments) \o frames \o plan
    BY <1>1, <1>4, <1>7, <1>9, ConcatEmptySeq
  <2>4. Faithful(FlattenSeq(build.segments) \o frames \o plan)'
    <3>1. PICK q : q = FlattenSeq(build.segments) \o frames \o plan /\ Faithful(q)
      BY <1>2
    <3> QED
      BY <1>1, <2>3, <3>1, Still, NextFaithful
  <2>5. \A i \in 1 .. Len(build'.segments) : build'.segments[i] # <<>>
    BY <1>4, <1>8, <2>1
  <2>6. StageInv'
    BY <1>1, <1>2, <1>10, <1>11, <2>2, <2>4, <2>5 DEF StageInv
  <2> QED
    BY <1>1, <1>2, <1>11, <2>6, BuildStep
<1>12. CASE plan = <<>> /\ pc' = "checkpoint"
  <2>1. frames = <<>> => Len(ss) = 1
    <3>1. frames = <<>> => build.segments = <<>>
      BY <1>2, <1>12
    <3> QED
      BY <1>6, <3>1
  <2>2. build' = Fresh(build'.segments) /\ Segments(build')
    BY <1>3, <1>4, <1>6, <1>8, <2>1 DEF Segments
  <2>3. FlattenSeq(build'.segments) = FlattenSeq(build.segments) \o frames \o plan
    BY <1>4, <1>7, <1>9, <1>12, ConcatEmptySeq
  <2>4. Faithful(FlattenSeq(build.segments))'
    <3>1. PICK q : q = FlattenSeq(build.segments) \o frames \o plan /\ Faithful(q)
      BY <1>2
    <3> QED
      BY <1>1, <2>3, <3>1, Still, NextFaithful
  <2>5. Done'
    BY <1>1, <1>2, <1>4, <1>6, <1>12, <2>4 DEF Done
  <2>6. StageInv'
    BY <1>12, <2>2, <2>5 DEF StageInv
  <2> QED
    BY <1>1, <1>2, <1>12, <2>6, BuildStep
<1> QED
  BY <1>1, <1>11, <1>12

LEMMA WriteCheckpointInv ==
    ASSUME MInv, WriteCheckpoint
    PROVE  MInv'
<1>1. /\ pc = "checkpoint" /\ pc' = "fsync" /\ build' = AddCheckpoint(build)
      /\ OpenFrame /\ UNCHANGED <<tree, pending, setbacks>>
      /\ line' = line /\ plan' = plan /\ frames' = frames
  BY DEF WriteCheckpoint, Goto, AddCheckpoint
<1>2. /\ place = "none" /\ build = Fresh(build.segments) /\ Segments(build) /\ Done
  BY <1>1 DEF MInv, StageInv, PlaceInv
<1>3. build' = Complete(build.segments)
  BY <1>1, <1>2, NewDirectories, Zenon
<1>4. build'.segments = build.segments
  BY <1>3, NewDirectories, Zenon
<1>5. build' = Complete(build'.segments) /\ Segments(build')
  BY <1>2, <1>3, <1>4 DEF Segments
<1>6. Faithful(FlattenSeq(build.segments))'
  <2>1. PICK q : q = FlattenSeq(build.segments) /\ Faithful(q)
    BY <1>2 DEF Done
  <2> QED
    BY <1>1, <1>4, <2>1, Still, NextFaithful
<1>7. Done'
  BY <1>1, <1>2, <1>4, <1>6 DEF Done
<1>8. StageInv'
  BY <1>1, <1>5, <1>7 DEF StageInv
<1> QED
  BY <1>1, <1>2, <1>8, BuildStep

LEMMA SyncBuildInv ==
    ASSUME MInv, SyncBuild
    PROVE  MInv'
<1>1. /\ pc = "fsync" /\ pc' = "rename" /\ build' = SyncEntries(build)
      /\ OpenFrame /\ UNCHANGED <<tree, pending, setbacks>>
      /\ line' = line /\ plan' = plan /\ frames' = frames
  BY DEF SyncBuild, Goto, SyncEntries
<1>2. /\ place = "none" /\ build = Complete(build.segments) /\ Segments(build) /\ Done
  BY <1>1 DEF MInv, StageInv, PlaceInv
<1>3. build' = Ready(build.segments)
  BY <1>1, <1>2, NewDirectories, Zenon
<1>4. build'.segments = build.segments
  BY <1>3, NewDirectories, Zenon
<1>5. build' = Ready(build'.segments) /\ Segments(build')
  BY <1>2, <1>3, <1>4 DEF Segments
<1>6. Faithful(FlattenSeq(build.segments))'
  <2>1. PICK q : q = FlattenSeq(build.segments) /\ Faithful(q)
    BY <1>2 DEF Done
  <2> QED
    BY <1>1, <1>4, <2>1, Still, NextFaithful
<1>7. Done'
  BY <1>1, <1>2, <1>4, <1>6 DEF Done
<1>8. StageInv'
  BY <1>1, <1>5, <1>7 DEF StageInv
<1> QED
  BY <1>1, <1>2, <1>8, BuildStep

LEMMA SolidFlags ==
    ASSUME NEW d, Solid(d)
    PROVE  d.format = TRUE /\ d.checkpoint = TRUE /\ d.synced = TRUE
<1>1. PICK ss, a, r : d = Installed(ss, a, r)
  BY DEF Solid
<1> QED
  BY <1>1 DEF Installed

LEMMA ReadyContents ==
    ASSUME NEW d, d = Ready(d.segments), Segments(d), d.segments # <<>>
    PROVE  Solid(d) /\ Contents(d) = FlattenSeq(d.segments)
<1>1. PICK ss : ss = d.segments /\ ss \in Seq(Seq(Messages)) /\ d = Installed(ss, <<>>, 0)
  BY DEF Ready, Installed, Segments
<1>2. d.appended = <<>> /\ d.removed = 0 /\ d.checkpoint = TRUE
  <2>1. d = Installed(ss, <<>>, 0)
    BY <1>1
  <2> QED
    BY <2>1 DEF Installed
<1>3. FlattenSeq(ss) \in Seq(Messages) /\ <<>> \in Seq(Messages)
  BY <1>1, FlattenAppend, EmptySeq
<1>4. Records(d) = FlattenSeq(ss)
  BY <1>1, <1>2, <1>3, ConcatEmptySeq DEF Records
<1>5. Len(FlattenSeq(ss)) \in Nat
  BY <1>3, LenProperties
<1>6. Contents(d) = SubSeq(FlattenSeq(ss), 1, Len(FlattenSeq(ss)))
  BY <1>2, <1>4 DEF Contents
<1>7. Contents(d) = FlattenSeq(ss)
  BY <1>3, <1>6, SubSeqFull
<1>8. /\ d.removed \in Nat /\ d.removed <= Len(Records(d)) /\ d.appended \in Seq(Ids)
  BY <1>2, <1>4, <1>5
<1>9. d = Installed(d.segments, d.appended, d.removed)
  BY <1>1, <1>2
<1> QED
  BY <1>1, <1>7, <1>8, <1>9 DEF Solid

LEMMA RenameInv ==
    ASSUME MInv, Rename
    PROVE  MInv'
<1>1. /\ pc = "rename" /\ pc' = "parent" /\ storage' = build /\ build' = EmptyDirectory
      /\ settled' = FALSE /\ place' = IF retained THEN "sidecar" ELSE "path"
      /\ OpenFrame /\ line' = line /\ plan' = plan /\ frames' = frames
      /\ rooted' = rooted /\ pending' = pending /\ setbacks' = setbacks
  BY DEF Rename, Goto
<1>2. /\ place = "none" /\ build = Ready(build.segments) /\ Segments(build) /\ Done
      /\ pending = <<>> /\ JournalInv /\ completed = {} /\ (~ retained => journal = <<>>)
  BY <1>1 DEF MInv, StageInv, PlaceInv
<1>3. /\ line = 0 /\ plan = <<>> /\ frames = <<>> /\ build.segments # <<>>
      /\ Faithful(FlattenSeq(build.segments))
  BY <1>2 DEF Done
<1>4. Solid(build) /\ Contents(build) = FlattenSeq(build.segments)
  BY <1>2, <1>3, ReadyContents
<1>5. /\ retained' = retained /\ journal' = journal /\ completed' = completed
      /\ HistoryInv' /\ JournalInv'
  BY <1>1, <1>2, Still DEF MInv, HistoryInv
<1>6. TypesInv'
  BY <1>1, <1>5, Zenon DEF MInv, TypesInv
<1>7. StageInv'
  BY <1>1, <1>3 DEF StageInv, Idle, EmptyDirectory
<1>8. Solid(storage') /\ Contents(storage') = FlattenSeq(build.segments)
  BY <1>1, <1>4
<1>9. Faithful(Contents(storage))'
  <2>1. PICK q : q = FlattenSeq(build.segments) /\ Faithful(q)
    BY <1>3
  <2> QED
    BY <1>1, <1>8, <2>1, Still, NextFaithful
<1>10. PlaceInv'
  BY <1>1, <1>2, <1>5, <1>8, <1>9 DEF PlaceInv
<1> QED
  BY <1>5, <1>6, <1>7, <1>10 DEF MInv

\* From the rename on the directory stays as it is.
LEMMA PlacedStep ==
    ASSUME MInv, OpenFrame, UNCHANGED <<install, place, storage, setbacks>>, place # "none",
           pc \in {"parent", "load", "barrier"}, pc' \in {"load", "barrier", "up"},
           settled' \in BOOLEAN, rooted' \in BOOLEAN, settled => settled', rooted => rooted',
           pc' = "load" => pending' = <<>>,
           pc' \in {"barrier", "up"} => pending' = Contents(storage),
           pc' = "up" => settled' /\ rooted'
    PROVE  MInv'
<1>1. /\ place' = place /\ storage' = storage /\ setbacks' = setbacks
      /\ line' = line /\ plan' = plan /\ frames' = frames /\ build' = build
  BY DEF install
<1>2. /\ retained' = retained /\ journal' = journal /\ completed' = completed
      /\ HistoryInv' /\ (JournalInv => JournalInv')
  BY <1>1, Still DEF MInv, HistoryInv
<1>3. TypesInv'
  <2>1. pc' \in {"old", "closed", "replay", "format", "segment", "checkpoint", "fsync", "rename",
                 "parent", "load", "barrier", "up"}
    OBVIOUS
  <2> QED
    BY <1>1, <1>2, <2>1, Zenon DEF MInv, TypesInv
<1>4. Idle
  BY DEF MInv, StageInv
<1>5. StageInv'
  BY <1>1, <1>4 DEF StageInv, Idle, EmptyDirectory
<1>6. /\ Solid(storage) /\ Faithful(Contents(storage))
      /\ ~ (settled /\ rooted) => JournalInv /\ completed = {}
      /\ ~ retained => journal = <<>>
  BY DEF MInv, PlaceInv
<1>7. Solid(storage') /\ Contents(storage)' = Contents(storage)
  BY <1>1, <1>6
<1>8. Faithful(Contents(storage))'
  <2>1. PICK q : q = Contents(storage) /\ Faithful(q)
    BY <1>6
  <2> QED
    BY <1>7, <2>1, Still, NextFaithful
<1>9. PlaceInv'
  BY <1>1, <1>2, <1>6, <1>7, <1>8 DEF PlaceInv
<1> QED
  BY <1>2, <1>3, <1>5, <1>9 DEF MInv

LEMMA SyncParentInv ==
    ASSUME MInv, SyncParent
    PROVE  MInv'
<1>1. /\ pc = "parent" /\ pc' = "load" /\ settled' = TRUE /\ OpenFrame
      /\ UNCHANGED <<install, place, storage, setbacks>>
      /\ rooted' = rooted /\ pending' = pending
  BY DEF SyncParent, Goto
<1>2. place # "none" /\ pending = <<>> /\ rooted' \in BOOLEAN /\ settled' \in BOOLEAN
  BY <1>1 DEF MInv, PlaceInv, TypesInv
<1> QED
  BY <1>1, <1>2, PlacedStep

LEMMA LoadInv ==
    ASSUME MInv, Load
    PROVE  MInv'
<1>1. place # "none" /\ Solid(storage)
  BY DEF Load, MInv, PlaceInv
<1>2. Readable(storage)
  BY <1>1, SolidFlags DEF Solid, Readable
<1>3. /\ pc = "load" /\ pc' = "barrier" /\ pending' = Contents(storage) /\ OpenFrame
      /\ UNCHANGED <<install, place, storage, setbacks>>
      /\ settled' = settled /\ rooted' = rooted
  BY <1>2 DEF Load, tree
<1>4. settled' \in BOOLEAN /\ rooted' \in BOOLEAN
  BY <1>3 DEF MInv, TypesInv
<1> QED
  BY <1>1, <1>3, <1>4, PlacedStep

LEMMA BarrierInv ==
    ASSUME MInv, Barrier
    PROVE  MInv'
<1>1. /\ pc = "barrier" /\ pc' = "up" /\ settled' = TRUE /\ rooted' = TRUE /\ OpenFrame
      /\ UNCHANGED <<install, place, storage, setbacks>> /\ pending' = pending
  <2>1. /\ pc = "barrier" /\ storage' = [storage EXCEPT !.synced = TRUE]
        /\ pc' = "up" /\ settled' = TRUE /\ rooted' = TRUE /\ OpenFrame
        /\ UNCHANGED <<install, place, setbacks>> /\ pending' = pending
    BY DEF Barrier, Goto
  <2>2. Solid(storage)
    BY <2>1 DEF MInv, PlaceInv
  <2>3. [storage EXCEPT !.synced = TRUE] = storage
    BY <2>2 DEF Solid, Installed
  <2> QED
    BY <2>1, <2>3
<1>2. place # "none" /\ pending = Contents(storage) /\ rooted' \in BOOLEAN /\ settled' \in BOOLEAN
  BY <1>1 DEF MInv, PlaceInv
<1> QED
  BY <1>1, <1>2, PlacedStep
-----------------------------------------------------------------------------
(* The process ends, fails or loses power.                                 *)

LEMMA ClosedStep ==
    ASSUME MInv, Closed, setbacks' \in 0 .. MaxSetbacks, UNCHANGED <<settled, rooted>>,
           \/ place' = place /\ storage' = storage
           \/ place' = "none" /\ storage' = EmptyDirectory /\ ~ (settled /\ rooted)
    PROVE  MInv'
<1>1. /\ pc' = "closed" /\ line' = 0 /\ plan' = <<>> /\ frames' = <<>>
      /\ build' = EmptyDirectory /\ pending' = <<>> /\ OpenFrame
  BY DEF Closed
<1>2. /\ retained' = retained /\ journal' = journal /\ completed' = completed
      /\ HistoryInv' /\ (JournalInv => JournalInv')
  BY <1>1, Still DEF MInv
<1>3. TypesInv'
  BY <1>1, <1>2, Zenon DEF MInv, TypesInv
<1>4. StageInv'
  BY <1>1 DEF StageInv, Idle, EmptyDirectory
<1>5. /\ place # "none" => Solid(storage) /\ Faithful(Contents(storage))
      /\ place = "none" => storage = EmptyDirectory /\ ~ (settled /\ rooted)
      /\ ~ (settled /\ rooted) => JournalInv /\ completed = {}
      /\ ~ retained => journal = <<>>
  BY DEF MInv, PlaceInv
<1>6. place' = "none" => storage' = EmptyDirectory /\ ~ (settled /\ rooted)
  BY <1>5
<1>7. ASSUME place' # "none" PROVE Solid(storage') /\ Faithful(Contents(storage))'
  <2>1. place # "none" /\ storage' = storage
    BY <1>7
  <2>2. PICK q : q = Contents(storage) /\ Faithful(q)
    BY <1>5, <2>1
  <2>3. Contents(storage)' = Contents(storage)
    BY <2>1
  <2>4. Faithful(Contents(storage))'
    BY <1>1, <2>2, <2>3, Still, NextFaithful
  <2> QED
    BY <1>5, <2>1, <2>4
<1>8. PlaceInv'
  <2>1. EmptyDirectory' = EmptyDirectory
    BY DEF EmptyDirectory
  <2>2. pc' \notin {"old", "replay", "format", "segment", "checkpoint", "fsync", "rename",
                    "parent", "load", "barrier", "up"}
    BY <1>1
  <2> QED
    BY <1>1, <1>2, <1>5, <1>6, <1>7, <2>1, <2>2 DEF PlaceInv
<1> QED
  BY <1>2, <1>3, <1>4, <1>8 DEF MInv

LEMMA CloseInv ==
    ASSUME MInv, Close
    PROVE  MInv'
<1>1. Closed /\ UNCHANGED <<settled, rooted>> /\ place' = place /\ storage' = storage
      /\ setbacks' = setbacks
  BY DEF Close, tree
<1>2. setbacks' \in 0 .. MaxSetbacks
  BY <1>1 DEF MInv, HistoryInv
<1> QED
  BY <1>1, <1>2, ClosedStep

LEMMA SetbackStep ==
    ASSUME HistoryInv, Setback
    PROVE  setbacks' \in 0 .. MaxSetbacks
  BY MigrationAssumption DEF HistoryInv, Setback

LEMMA FailsInv ==
    ASSUME MInv, Fails
    PROVE  MInv'
<1>1. Closed /\ UNCHANGED <<settled, rooted>> /\ place' = place /\ storage' = storage
      /\ Setback
  BY DEF Fails, tree
<1>2. setbacks' \in 0 .. MaxSetbacks
  BY <1>1, SetbackStep DEF MInv
<1> QED
  BY <1>1, <1>2, ClosedStep

\* What was synced stays as it is, and of nothing nothing can be lost.
LEMMA NothingLost ==
    ASSUME LoseEntries, storage = EmptyDirectory \/ Solid(storage)
    PROVE  storage' = storage
<1>1. CASE Solid(storage)
  <2>1. storage.synced
    BY <1>1, SolidFlags, Zenon
  <2> QED
    BY <2>1, Zenon DEF LoseEntries
<1>2. CASE storage = EmptyDirectory
  <2>1. /\ ~ storage.synced /\ storage.segments = <<>>
        /\ storage.format = FALSE /\ storage.checkpoint = FALSE
    BY <1>2 DEF EmptyDirectory
  <2>2. PICK f \in {FALSE, storage.format}, c \in {FALSE, storage.checkpoint},
             n \in 0 .. Len(storage.segments) :
            storage' = [storage EXCEPT !.format = f, !.checkpoint = c,
                                       !.segments = SubSeq(@, 1, n)]
    <3>1. ~ storage.synced
      BY <2>1
    <3> QED
      BY <3>1, Zenon DEF LoseEntries
  <2>3. n = 0 /\ f = storage.format /\ c = storage.checkpoint
    <3>1. n = 0
      BY <2>1
    <3>2. f = storage.format /\ c = storage.checkpoint
      BY <2>1, Zenon
    <3> QED
      BY <3>1, <3>2
  <2>4. SubSeq(storage.segments, 1, n) = storage.segments
    BY <2>1, <2>3, SubSeqEmpty
  <2>5. storage' = [storage EXCEPT !.format = storage.format,
                                   !.checkpoint = storage.checkpoint,
                                   !.segments = storage.segments]
    BY <2>2, <2>3, <2>4, Zenon
  <2> QED
    BY <1>2, <2>5 DEF EmptyDirectory
<1> QED
  BY <1>1, <1>2

LEMMA PowerLossInv ==
    ASSUME MInv, PowerLoss
    PROVE  MInv'
<1>1. /\ Closed /\ Setback
      /\ \/ LoseEntries /\ UNCHANGED <<place, settled, rooted>>
         \/ /\ place # "none" /\ ~ (settled /\ rooted)
            /\ place' = "none" /\ storage' = EmptyDirectory /\ UNCHANGED <<settled, rooted>>
  BY DEF PowerLoss
<1>2. setbacks' \in 0 .. MaxSetbacks
  BY <1>1, SetbackStep DEF MInv
<1>3. CASE LoseEntries /\ UNCHANGED <<place, settled, rooted>>
  <2>1. storage = EmptyDirectory \/ Solid(storage)
    BY DEF MInv, PlaceInv
  <2>2. storage' = storage
    BY <1>3, <2>1, NothingLost
  <2> QED
    BY <1>1, <1>2, <1>3, <2>2, ClosedStep
<1>4. CASE /\ place # "none" /\ ~ (settled /\ rooted)
           /\ place' = "none" /\ storage' = EmptyDirectory /\ UNCHANGED <<settled, rooted>>
  BY <1>1, <1>2, <1>4, ClosedStep
<1> QED
  BY <1>1, <1>3, <1>4
-----------------------------------------------------------------------------
(* In service.                                                             *)

AddRecord(d, m) == [d EXCEPT !.appended = Append(@, m)]
TakeRecord(d)   == [d EXCEPT !.removed = @ + 1, !.checkpoint = TRUE]

LEMMA InstalledSteps ==
    \A ss, a, r, m :
           /\ Installed(ss, a, r).segments = ss /\ Installed(ss, a, r).appended = a
           /\ Installed(ss, a, r).removed = r
           /\ AddRecord(Installed(ss, a, r), m) = Installed(ss, Append(a, m), r)
           /\ TakeRecord(Installed(ss, a, r)) = Installed(ss, a, r + 1)
<1> TAKE ss, a, r, m
<1> DEFINE d == Installed(ss, a, r)
<1>1. PICK t, v, w : t = TRUE /\ v = Append(a, m) /\ w = r + 1
  OBVIOUS
<1>2. \A x, y : Installed(ss, x, y) = [format |-> t, segments |-> ss, checkpoint |-> t,
                                       synced |-> t, appended |-> x, removed |-> y]
  BY <1>1, Zenon DEF Installed
<1>3. d.segments = ss /\ d.appended = a /\ d.removed = r
  BY <1>2
<1>4. [d EXCEPT !.appended = v] = Installed(ss, v, r)
  BY <1>2
<1>5. [d EXCEPT !.removed = w, !.checkpoint = t] = Installed(ss, a, w)
  <2>1. PICK e : e = [format |-> t, segments |-> ss, checkpoint |-> t, synced |-> t,
                      appended |-> a, removed |-> r]
    OBVIOUS
  <2>2. [e EXCEPT !.removed = w, !.checkpoint = t]
          = [format |-> t, segments |-> ss, checkpoint |-> t, synced |-> t, appended |-> a,
             removed |-> w]
    <3>1. PICK g : g = [e EXCEPT !.removed = w, !.checkpoint = t]
      OBVIOUS
    <3>2. /\ DOMAIN g = {"format", "segments", "checkpoint", "synced", "appended", "removed"}
          /\ g.format = t /\ g.segments = ss /\ g.checkpoint = t /\ g.synced = t
          /\ g.appended = a /\ g.removed = w
      BY <2>1, <3>1
    <3>3. g = [k \in DOMAIN g |-> g[k]]
      BY <3>1
    <3>4. g = [format |-> t, segments |-> ss, checkpoint |-> t, synced |-> t, appended |-> a,
               removed |-> w]
      BY ONLY <3>2, <3>3
    <3> QED
      BY <3>1, <3>4
  <2>3. d = e
    BY <1>2, <2>1
  <2> QED
    BY <1>2, <2>2, <2>3, Zenon
<1> HIDE DEF d
<1>6. AddRecord(d, m) = Installed(ss, v, r) /\ TakeRecord(d) = Installed(ss, a, w)
  BY <1>1, <1>3, <1>4, <1>5, Zenon DEF AddRecord, TakeRecord
<1> QED
  BY <1>1, <1>3, <1>6, Zenon DEF d

LEMMA InstalledFields ==
    \A ss, a, r : /\ Installed(ss, a, r).segments = ss /\ Installed(ss, a, r).appended = a
                  /\ Installed(ss, a, r).removed = r
  BY InstalledSteps

LEMMA InstalledAdd ==
    \A ss, a, r, m : AddRecord(Installed(ss, a, r), m) = Installed(ss, Append(a, m), r)
  BY InstalledSteps

LEMMA InstalledTake ==
    \A ss, a, r : TakeRecord(Installed(ss, a, r)) = Installed(ss, a, r + 1)
  BY InstalledSteps

LEMMA SubSeqAppend ==
    ASSUME NEW s \in Seq(Messages), NEW m \in Messages, NEW r \in 0 .. Len(s)
    PROVE  SubSeq(Append(s, m), r + 1, Len(s) + 1) = Append(SubSeq(s, r + 1, Len(s)), m)
<1> DEFINE t == Append(s, m)
           u == SubSeq(s, r + 1, Len(s))
           v == SubSeq(t, r + 1, Len(s) + 1)
           w == Append(u, m)
<1>1. /\ t \in Seq(Messages) /\ Len(t) = Len(s) + 1 /\ t[Len(s) + 1] = m /\ Len(s) \in Nat
      /\ \A k \in 1 .. Len(s) : t[k] = s[k]
      /\ \A k \in 1 .. Len(s) : s[k] \in Messages
  BY AppendProperties, LenProperties, ElementOfSeq
<1> HIDE DEF t
<1>2. \A k \in 1 .. Len(s) + 1 : t[k] \in Messages
  BY <1>1, ElementOfSeq
<1>3. r \in Nat /\ r <= Len(s) /\ r + 1 \in Int /\ Len(s) + 1 \in Int /\ Len(s) \in Int
  BY <1>1
<1>4. /\ u \in Seq(Messages) /\ Len(u) = Len(s) - r
      /\ \A i \in 1 .. Len(s) - r : u[i] = s[r + i]
  <2>1. \A i \in r + 1 .. Len(s) : s[i] \in Messages
    BY <1>1, <1>3
  <2>2. /\ u \in Seq(Messages) /\ Len(u) = IF r + 1 <= Len(s) THEN Len(s) - (r + 1) + 1 ELSE 0
        /\ \A i \in 1 .. Len(s) - (r + 1) + 1 : u[i] = s[(r + 1) + i - 1]
    BY <1>3, <2>1, SubSeqProperties
  <2> HIDE DEF u
  <2>3. Len(u) = Len(s) - r
    BY <1>1, <1>3, <2>2
  <2>4. ASSUME NEW i \in 1 .. Len(s) - r PROVE u[i] = s[r + i]
    <3>1. i \in 1 .. Len(s) - (r + 1) + 1 /\ (r + 1) + i - 1 = r + i
      BY <1>1, <1>3
    <3> QED
      BY <2>2, <3>1
  <2> QED
    BY <2>2, <2>3, <2>4
<1>5. /\ v \in Seq(Messages) /\ Len(v) = Len(s) + 1 - r
      /\ \A i \in 1 .. Len(s) + 1 - r : v[i] = t[r + i]
  <2>1. \A i \in r + 1 .. Len(s) + 1 : t[i] \in Messages
    BY <1>2, <1>3
  <2>2. /\ v \in Seq(Messages)
        /\ Len(v) = IF r + 1 <= Len(s) + 1 THEN (Len(s) + 1) - (r + 1) + 1 ELSE 0
        /\ \A i \in 1 .. (Len(s) + 1) - (r + 1) + 1 : v[i] = t[(r + 1) + i - 1]
    BY <1>3, <2>1, SubSeqProperties
  <2> HIDE DEF v
  <2>3. Len(v) = Len(s) + 1 - r
    BY <1>1, <1>3, <2>2
  <2>4. ASSUME NEW i \in 1 .. Len(s) + 1 - r PROVE v[i] = t[r + i]
    <3>1. i \in 1 .. (Len(s) + 1) - (r + 1) + 1 /\ (r + 1) + i - 1 = r + i
      BY <1>1, <1>3
    <3> QED
      BY <2>2, <3>1
  <2> QED
    BY <2>2, <2>3, <2>4
<1> HIDE DEF u, v
<1>6. /\ w \in Seq(Messages) /\ Len(w) = Len(u) + 1 /\ w[Len(u) + 1] = m
      /\ \A i \in 1 .. Len(u) : w[i] = u[i]
  BY <1>4, AppendProperties
<1> HIDE DEF w
<1>7. Len(v) = Len(w)
  BY <1>1, <1>3, <1>4, <1>5, <1>6
<1>8. ASSUME NEW i \in 1 .. Len(v) PROVE v[i] = w[i]
  <2>1. CASE i = Len(u) + 1
    <3>1. i \in 1 .. Len(s) + 1 - r /\ r + i = Len(s) + 1
      BY <1>1, <1>3, <1>4, <1>5, <2>1
    <3> QED
      BY <1>1, <1>5, <1>6, <2>1, <3>1
  <2>2. CASE i # Len(u) + 1
    <3>1. /\ i \in 1 .. Len(u) /\ i \in 1 .. Len(s) - r /\ i \in 1 .. Len(s) + 1 - r
          /\ r + i \in 1 .. Len(s)
      BY <1>1, <1>3, <1>4, <1>5, <2>2
    <3> QED
      BY <1>1, <1>4, <1>5, <1>6, <3>1
  <2> QED
    BY <2>1, <2>2
<1>9. v = w
  BY <1>5, <1>6, <1>7, <1>8, SeqEqual
<1> QED
  BY <1>9 DEF t, u, v, w

\* The records of the directory in place, and what is left of them.
LEMMA SolidRecords ==
    ASSUME NEW d, Solid(d)
    PROVE  /\ Records(d) \in Seq(Messages) /\ Len(Records(d)) \in Nat
           /\ d.removed \in 0 .. Len(Records(d))
           /\ Contents(d) = SubSeq(Records(d), d.removed + 1, Len(Records(d)))
<1>1. d.segments \in Seq(Seq(Messages)) /\ d.appended \in Seq(Ids)
      /\ d.removed \in Nat /\ d.removed <= Len(Records(d))
  BY DEF Solid, Segments
<1>2. d.appended \in Seq(Messages)
  BY <1>1, SeqMonotonic DEF Messages
<1>3. FlattenSeq(d.segments) \in Seq(Messages)
  BY <1>1, FlattenAppend, EmptySeq
<1>4. Records(d) \in Seq(Messages)
  BY <1>2, <1>3, ConcatProperties DEF Records
<1>5. Len(Records(d)) \in Nat
  BY <1>4, LenProperties
<1>6. Contents(d) = SubSeq(Records(d), d.removed + 1, Len(Records(d)))
  BY SolidFlags, Zenon DEF Contents
<1> QED
  BY <1>1, <1>4, <1>5, <1>6

LEMMA SolidAppend ==
    ASSUME NEW d, Solid(d), NEW m \in Ids
    PROVE  Solid(AddRecord(d, m)) /\ Contents(AddRecord(d, m)) = Append(Contents(d), m)
<1>1. PICK ss, a, r : ss = d.segments /\ a = d.appended /\ r = d.removed
  OBVIOUS
<1>2. d = Installed(ss, a, r)
  BY <1>1 DEF Solid
<1>3. PICK e : e = AddRecord(d, m)
  OBVIOUS
<1>4. e = Installed(ss, Append(a, m), r)
  <2>1. AddRecord(Installed(ss, a, r), m) = Installed(ss, Append(a, m), r)
    BY InstalledAdd
  <2> QED
    BY <1>2, <1>3, <2>1, Zenon
<1>5. e.segments = ss /\ e.appended = Append(a, m) /\ e.removed = r
  <2>1. PICK b : b = Append(a, m)
    OBVIOUS
  <2>2. /\ Installed(ss, b, r).segments = ss /\ Installed(ss, b, r).appended = b
        /\ Installed(ss, b, r).removed = r
    BY InstalledFields
  <2> QED
    BY <1>4, <2>1, <2>2, Zenon
<1>6. m \in Messages /\ ss \in Seq(Seq(Messages)) /\ a \in Seq(Ids) /\ a \in Seq(Messages)
  BY <1>1, SeqMonotonic DEF Solid, Segments, Messages
<1>7. FlattenSeq(ss) \in Seq(Messages)
  BY <1>6, FlattenAppend, EmptySeq
<1>8. Append(a, m) \in Seq(Ids) /\ Append(a, m) = a \o <<m>> /\ <<m>> \in Seq(Messages)
  BY <1>6, AppendProperties, AppendIsConcat
<1> DEFINE R == Records(d)
<1>9. R \in Seq(Messages) /\ Len(R) \in Nat /\ r \in 0 .. Len(R)
      /\ Contents(d) = SubSeq(R, r + 1, Len(R))
  BY <1>1, SolidRecords
<1>10. R = FlattenSeq(ss) \o a
  BY <1>1 DEF Records
<1>11. Records(e) = Append(R, m)
  <2>1. Records(e) = FlattenSeq(ss) \o (a \o <<m>>)
    BY <1>5, <1>8, Zenon DEF Records
  <2>2. FlattenSeq(ss) \o (a \o <<m>>) = (FlattenSeq(ss) \o a) \o <<m>>
    BY <1>6, <1>7, <1>8, ConcatAssociative
  <2> HIDE DEF R
  <2>3. Append(R, m) = R \o <<m>>
    BY <1>6, <1>9, AppendIsConcat
  <2> QED
    BY <1>10, <2>1, <2>2, <2>3, Zenon
<1> HIDE DEF R
<1>12. Len(Records(e)) = Len(R) + 1
  BY <1>6, <1>9, <1>11, AppendProperties
<1>13. Solid(e)
  <2>1. Segments(e) /\ e.segments # <<>>
    BY <1>1, <1>5 DEF Solid, Segments
  <2>2. e.removed \in Nat /\ e.removed <= Len(Records(e))
    BY <1>5, <1>9, <1>12
  <2>3. e = Installed(e.segments, e.appended, e.removed) /\ e.appended \in Seq(Ids)
    BY <1>4, <1>5, <1>8, Zenon
  <2> QED
    BY <2>1, <2>2, <2>3 DEF Solid
<1>14. Contents(e) = SubSeq(Append(R, m), r + 1, Len(R) + 1)
  BY <1>5, <1>11, <1>12, <1>13, SolidRecords
<1>15. Contents(e) = Append(Contents(d), m)
  BY <1>6, <1>9, <1>14, SubSeqAppend
<1> QED
  BY <1>3, <1>13, <1>15

LEMMA SolidTake ==
    ASSUME NEW d, Solid(d), Contents(d) # <<>>
    PROVE  Solid(TakeRecord(d)) /\ Contents(TakeRecord(d)) = Tail(Contents(d))
<1>1. PICK ss, a, r : ss = d.segments /\ a = d.appended /\ r = d.removed
  OBVIOUS
<1>2. d = Installed(ss, a, r)
  BY <1>1 DEF Solid
<1>3. PICK e : e = TakeRecord(d)
  OBVIOUS
<1>4. e = Installed(ss, a, r + 1)
  <2>1. TakeRecord(Installed(ss, a, r)) = Installed(ss, a, r + 1)
    BY InstalledTake
  <2> QED
    BY <1>2, <1>3, <2>1, Zenon
<1>5. e.segments = ss /\ e.appended = a /\ e.removed = r + 1
  <2>1. PICK n : n = r + 1
    OBVIOUS
  <2>2. /\ Installed(ss, a, n).segments = ss /\ Installed(ss, a, n).appended = a
        /\ Installed(ss, a, n).removed = n
    BY InstalledFields
  <2> QED
    BY <1>4, <2>1, <2>2, Zenon
<1>6. Records(e) = Records(d)
  BY <1>1, <1>5, Zenon DEF Records
<1>7. PICK R : R = Records(d)
  OBVIOUS
<1>8. R \in Seq(Messages) /\ Len(R) \in Nat /\ r \in 0 .. Len(R)
      /\ Contents(d) = SubSeq(R, r + 1, Len(R))
  BY <1>1, <1>7, SolidRecords
<1>9. r < Len(R)
  <2> SUFFICES ASSUME ~ (r < Len(R)) PROVE FALSE
    OBVIOUS
  <2>1. Len(R) < r + 1 /\ r + 1 \in Int /\ Len(R) \in Int
    BY <1>8
  <2>2. SubSeq(R, r + 1, Len(R)) = <<>>
    BY <2>1, SubSeqEmpty
  <2> QED
    BY <1>8, <2>2
<1>10. Solid(e)
  <2>1. Segments(e) /\ e.segments # <<>> /\ e.appended \in Seq(Ids)
    BY <1>1, <1>5 DEF Solid, Segments
  <2>2. e.removed \in Nat /\ e.removed <= Len(Records(e))
    BY <1>5, <1>6, <1>7, <1>8, <1>9
  <2>3. e = Installed(e.segments, e.appended, e.removed)
    BY <1>4, <1>5, Zenon
  <2> QED
    BY <2>1, <2>2, <2>3 DEF Solid
<1>11. Contents(e) = SubSeq(R, (r + 1) + 1, Len(R))
  BY <1>5, <1>6, <1>7, <1>10, SolidRecords
<1>12. r + 1 \in 1 .. Len(R) /\ Len(R) \in r + 1 .. Len(R)
  BY <1>8, <1>9
<1>13. Tail(SubSeq(R, r + 1, Len(R))) = SubSeq(R, (r + 1) + 1, Len(R))
  BY <1>8, <1>12, HeadTailOfSubSeq
<1> QED
  BY <1>3, <1>8, <1>10, <1>11, <1>13

\* The queue grows at its end and shrinks at its head; of the messages owed any may go.
Longer(q, t, m) ==
    /\ Len(q) \in Nat /\ Len(t) = Len(q) + 1 /\ t[Len(q) + 1] = m
    /\ \A k \in 1 .. Len(q) : t[k] = q[k]
    /\ t \in Seq(Messages) /\ ToSet(t) = ToSet(q) \cup {m}

Shorter(q, t, m) ==
    /\ Len(q) \in Nat \ {0} /\ Len(t) = Len(q) - 1 /\ q[1] = m
    /\ \A k \in 1 .. Len(t) : t[k] = q[k + 1]
    /\ t \in Seq(Messages) /\ ToSet(q) = ToSet(t) \cup {m}

Keeping(s, t, e) ==
    /\ e \in [1 .. Len(t) -> 1 .. Len(s)]
    /\ \A x \in 1 .. Len(t) : t[x] = s[e[x]]
    /\ \A x, y \in 1 .. Len(t) : (e[x] < e[y] <=> x < y) /\ (e[x] = e[y] => x = y)

Drops(s, t, m) ==
    /\ t \in Seq(Ids) /\ ToSet(t) = ToSet(s) \ {m}
    /\ \E e : Keeping(s, t, e)

LEMMA FaithfulLonger ==
    ASSUME HistoryInv, NEW q, Faithful(q), NEW t, NEW m \in Ids, Longer(q, t, m),
           m \notin issued, issued' = issued \cup {m}, Adds(owed, owed', m),
           UNCHANGED <<completed, damaged, doubtful>>
    PROVE  Faithful(t)'
<1>1. /\ q \in Seq(Messages) /\ (\A k, l \in 1 .. Len(q) : q[k] = q[l] => k = l)
      /\ ToSet(q) \cap completed = {} /\ ToSet(q) \subseteq issued \cup {NewId}
      /\ ToSet(q) \subseteq ToSet(owed) \cup doubtful \cup Excused
      /\ ToSet(q) \cap ToSet(owed) = ToSet(owed) \ damaged
      /\ \A k, l \in 1 .. Len(q), x, y \in 1 .. Len(owed) :
            k < l /\ q[k] = owed[x] /\ q[l] = owed[y] => x < y
  BY DEF Faithful, Keeps
<1>2. /\ owed \in Seq(Ids) /\ ToSet(owed) \subseteq issued /\ damaged \subseteq issued
      /\ completed \subseteq issued \cup {NewId}
  BY DEF HistoryInv
<1>3. m # NewId /\ m \notin ToSet(q) /\ m \notin ToSet(owed) /\ m \notin completed
      /\ m \notin damaged
  BY <1>1, <1>2, IdAssumption
<1>4. (\A k \in 1 .. Len(q) : q[k] # m) /\ (\A k \in 1 .. Len(owed) : owed[k] # m)
  BY <1>1, <1>2, <1>3, SetOf
<1>5. /\ Len(q) \in Nat /\ Len(t) = Len(q) + 1 /\ t[Len(q) + 1] = m
      /\ (\A k \in 1 .. Len(q) : t[k] = q[k])
      /\ t \in Seq(Messages) /\ ToSet(t) = ToSet(q) \cup {m}
  BY DEF Longer
<1>6. /\ owed' \in Seq(Ids) /\ Len(owed) \in Nat /\ Len(owed') = Len(owed) + 1
      /\ owed'[Len(owed) + 1] = m /\ (\A k \in 1 .. Len(owed) : owed'[k] = owed[k])
      /\ ToSet(owed') = ToSet(owed) \cup {m}
  BY DEF Adds
<1>7. \A k \in 1 .. Len(t) : k \in 1 .. Len(q) \/ k = Len(q) + 1
  BY <1>5
<1>8. \A k \in 1 .. Len(owed') : k \in 1 .. Len(owed) \/ k = Len(owed) + 1
  BY <1>6
<1>9. \A k, l \in 1 .. Len(t) : t[k] = t[l] => k = l
  BY <1>1, <1>4, <1>5, <1>7
<1>10. Excused' = Excused
  BY DEF Excused
<1>11. ToSet(t) \cap ToSet(owed') = ToSet(owed') \ damaged'
  BY <1>1, <1>3, <1>5, <1>6
<1>12. ASSUME NEW k \in 1 .. Len(t), NEW l \in 1 .. Len(t), NEW x \in 1 .. Len(owed'),
              NEW y \in 1 .. Len(owed'), k < l, t[k] = owed'[x], t[l] = owed'[y]
       PROVE  x < y
  <2>1. k \in 1 .. Len(q)
    BY <1>5, <1>7, <1>12
  <2>2. t[k] = q[k] /\ q[k] # m
    BY <1>4, <1>5, <2>1
  <2>3. x \in 1 .. Len(owed)
    BY <1>6, <1>8, <1>12, <2>2
  <2>4. CASE y = Len(owed) + 1
    BY <1>6, <2>3, <2>4
  <2>5. CASE y \in 1 .. Len(owed)
    <3>1. owed'[y] = owed[y] /\ owed[y] # m /\ owed'[x] = owed[x]
      BY <1>4, <1>6, <2>3, <2>5
    <3>2. l \in 1 .. Len(q)
      BY <1>5, <1>7, <1>12, <3>1
    <3>3. q[k] = owed[x] /\ q[l] = owed[y]
      BY <1>5, <1>12, <2>2, <3>1, <3>2
    <3> QED
      BY <1>1, <1>12, <2>1, <2>3, <2>5, <3>2, <3>3
  <2> QED
    BY <1>8, <2>4, <2>5
<1>13. Keeps(t)'
  BY <1>11, <1>12 DEF Keeps
<1>14. ToSet(t) \cap completed' = {} /\ ToSet(t) \subseteq issued' \cup {NewId}
       /\ ToSet(t) \subseteq ToSet(owed') \cup doubtful' \cup Excused'
  BY <1>1, <1>3, <1>5, <1>6, <1>10
<1> QED
  BY <1>5, <1>9, <1>13, <1>14 DEF Faithful

LEMMA FaithfulShorter ==
    ASSUME HistoryInv, NEW q, Faithful(q), NEW t, NEW m, Shorter(q, t, m),
           completed' = completed \cup {m}, Drops(owed, owed', m),
           UNCHANGED <<issued, damaged, doubtful>>
    PROVE  Faithful(t)' /\ m \in issued \cup {NewId}
<1>1. /\ q \in Seq(Messages) /\ (\A k, l \in 1 .. Len(q) : q[k] = q[l] => k = l)
      /\ ToSet(q) \cap completed = {} /\ ToSet(q) \subseteq issued \cup {NewId}
      /\ ToSet(q) \subseteq ToSet(owed) \cup doubtful \cup Excused
      /\ ToSet(q) \cap ToSet(owed) = ToSet(owed) \ damaged
      /\ \A k, l \in 1 .. Len(q), x, y \in 1 .. Len(owed) :
            k < l /\ q[k] = owed[x] /\ q[l] = owed[y] => x < y
  BY DEF Faithful, Keeps
<1>2. /\ Len(q) \in Nat \ {0} /\ Len(t) = Len(q) - 1 /\ q[1] = m
      /\ (\A k \in 1 .. Len(t) : t[k] = q[k + 1])
      /\ t \in Seq(Messages) /\ ToSet(q) = ToSet(t) \cup {m}
  BY DEF Shorter
<1>3. \A k \in 1 .. Len(t) : k + 1 \in 1 .. Len(q) /\ k + 1 # 1 /\ 1 \in 1 .. Len(q)
  BY <1>2
<1>4. \A k \in 1 .. Len(t) : t[k] # m
  BY <1>1, <1>2, <1>3
<1>5. m \notin ToSet(t)
  BY <1>2, <1>4, SetOf
<1>6. PICK e : Keeping(owed, owed', e)
  BY DEF Drops
<1>7. owed' \in Seq(Ids) /\ ToSet(owed') = ToSet(owed) \ {m}
  BY DEF Drops
<1>8. /\ e \in [1 .. Len(owed') -> 1 .. Len(owed)]
      /\ (\A x \in 1 .. Len(owed') : owed'[x] = owed[e[x]])
      /\ \A x, y \in 1 .. Len(owed') : e[x] < e[y] => x < y
  BY <1>6 DEF Keeping
<1>9. \A k, l \in 1 .. Len(t) : t[k] = t[l] => k = l
  <2> SUFFICES ASSUME NEW k \in 1 .. Len(t), NEW l \in 1 .. Len(t), t[k] = t[l] PROVE k = l
    OBVIOUS
  <2>1. k + 1 = l + 1
    BY <1>1, <1>2, <1>3
  <2> QED
    BY <2>1
<1>10. Excused' = Excused
  BY DEF Excused
<1>11. ToSet(t) \cap ToSet(owed') = ToSet(owed') \ damaged'
  BY <1>1, <1>2, <1>5, <1>7
<1>12. ASSUME NEW k \in 1 .. Len(t), NEW l \in 1 .. Len(t), NEW x \in 1 .. Len(owed'),
              NEW y \in 1 .. Len(owed'), k < l, t[k] = owed'[x], t[l] = owed'[y]
       PROVE  x < y
  <2>1. k + 1 < l + 1 /\ q[k + 1] = owed[e[x]] /\ q[l + 1] = owed[e[y]]
    BY <1>2, <1>8, <1>12
  <2>2. e[x] \in 1 .. Len(owed) /\ e[y] \in 1 .. Len(owed)
    BY <1>8
  <2>3. e[x] < e[y]
    <3>1. \A i, j \in 1 .. Len(q), v, w \in 1 .. Len(owed) :
             i < j /\ q[i] = owed[v] /\ q[j] = owed[w] => v < w
      BY <1>1, Zenon
    <3>2. PICK i, j, v, w : i = k + 1 /\ j = l + 1 /\ v = e[x] /\ w = e[y]
      OBVIOUS
    <3>3. i \in 1 .. Len(q) /\ j \in 1 .. Len(q)
      BY <1>3, <3>2, Zenon
    <3>4. /\ v \in 1 .. Len(owed) /\ w \in 1 .. Len(owed) /\ i < j
          /\ q[i] = owed[v] /\ q[j] = owed[w]
      BY <2>1, <2>2, <3>2, Zenon
    <3>5. v < w
      BY ONLY <3>1, <3>3, <3>4, Zenon
    <3> QED
      BY <3>2, <3>5
  <2> QED
    BY <1>8, <2>3
<1>13. Keeps(t)'
  BY <1>11, <1>12 DEF Keeps
<1>14. ToSet(t) \cap completed' = {} /\ ToSet(t) \subseteq issued' \cup {NewId}
       /\ ToSet(t) \subseteq ToSet(owed') \cup doubtful' \cup Excused'
  BY <1>1, <1>2, <1>5, <1>7, <1>10
<1> QED
  BY <1>1, <1>2, <1>9, <1>13, <1>14 DEF Faithful

LEMMA DropsNone ==
    ASSUME NEW s \in Seq(Ids), NEW m, m \notin ToSet(s)
    PROVE  Drops(s, s, m)
<1> DEFINE e == [x \in 1 .. Len(s) |-> x]
<1>1. Len(s) \in Nat
  BY LenProperties
<1>2. e \in [1 .. Len(s) -> 1 .. Len(s)] /\ \A x \in 1 .. Len(s) : e[x] = x
  OBVIOUS
<1> HIDE DEF e
<1>3. Keeping(s, s, e)
  BY <1>1, <1>2 DEF Keeping
<1>4. ToSet(s) = ToSet(s) \ {m}
  OBVIOUS
<1> QED
  BY <1>3, <1>4, Zenon DEF Drops

LEMMA RemoveAtParts ==
    ASSUME NEW s \in Seq(Ids), NEW i \in 1 .. Len(s)
    PROVE  LET t == RemoveAt(s, i)
           IN  /\ t \in Seq(Ids) /\ Len(t) = Len(s) - 1
               /\ \A x \in 1 .. Len(t) : t[x] = IF x < i THEN s[x] ELSE s[x + 1]
<1> DEFINE a == SubSeq(s, 1, i - 1)
           b == SubSeq(s, i + 1, Len(s))
           t == RemoveAt(s, i)
<1>1. /\ Len(s) \in Nat /\ i \in Nat /\ 1 <= i /\ i <= Len(s) /\ 1 \in Int /\ i - 1 \in Int
      /\ i + 1 \in Int /\ Len(s) \in Int
      /\ \A k \in 1 .. Len(s) : s[k] \in Ids
  BY LenProperties, ElementOfSeq
<1>2. a \in Seq(Ids) /\ Len(a) = i - 1 /\ \A k \in 1 .. i - 1 : a[k] = s[k]
  <2>1. \A k \in 1 .. i - 1 : s[k] \in Ids
    BY <1>1
  <2>2. /\ a \in Seq(Ids) /\ Len(a) = IF 1 <= i - 1 THEN (i - 1) - 1 + 1 ELSE 0
        /\ \A k \in 1 .. (i - 1) - 1 + 1 : a[k] = s[1 + k - 1]
    BY <1>1, <2>1, SubSeqProperties
  <2> HIDE DEF a
  <2>3. Len(a) = i - 1
    BY <1>1, <2>2
  <2>4. ASSUME NEW k \in 1 .. i - 1 PROVE a[k] = s[k]
    <3>1. k \in 1 .. (i - 1) - 1 + 1 /\ 1 + k - 1 = k
      BY <1>1
    <3> QED
      BY <2>2, <3>1
  <2> QED
    BY <2>2, <2>3, <2>4
<1>3. b \in Seq(Ids) /\ Len(b) = Len(s) - i /\ \A k \in 1 .. Len(s) - i : b[k] = s[i + k]
  <2>1. \A k \in i + 1 .. Len(s) : s[k] \in Ids
    BY <1>1
  <2>2. /\ b \in Seq(Ids) /\ Len(b) = IF i + 1 <= Len(s) THEN Len(s) - (i + 1) + 1 ELSE 0
        /\ \A k \in 1 .. Len(s) - (i + 1) + 1 : b[k] = s[(i + 1) + k - 1]
    BY <1>1, <2>1, SubSeqProperties
  <2> HIDE DEF b
  <2>3. Len(b) = Len(s) - i
    BY <1>1, <2>2
  <2>4. ASSUME NEW k \in 1 .. Len(s) - i PROVE b[k] = s[i + k]
    <3>1. k \in 1 .. Len(s) - (i + 1) + 1 /\ (i + 1) + k - 1 = i + k
      BY <1>1
    <3> QED
      BY <2>2, <3>1
  <2> QED
    BY <2>2, <2>3, <2>4
<1>4. t = a \o b
  BY Zenon DEF RemoveAt
<1> HIDE DEF a, b, t
<1>5. /\ t \in Seq(Ids) /\ Len(t) = Len(a) + Len(b)
      /\ \A x \in 1 .. Len(a) + Len(b) : t[x] = IF x <= Len(a) THEN a[x] ELSE b[x - Len(a)]
  BY <1>2, <1>3, <1>4, ConcatProperties
<1>6. Len(t) = Len(s) - 1
  BY <1>1, <1>2, <1>3, <1>5
<1>7. ASSUME NEW x \in 1 .. Len(t) PROVE t[x] = IF x < i THEN s[x] ELSE s[x + 1]
  <2>1. CASE x < i
    <3>1. x \in 1 .. Len(a) + Len(b) /\ x <= Len(a) /\ x \in 1 .. i - 1
      BY <1>1, <1>2, <1>5, <2>1
    <3> QED
      BY <1>2, <1>5, <2>1, <3>1
  <2>2. CASE ~ (x < i)
    <3>1. /\ x \in 1 .. Len(a) + Len(b) /\ ~ (x <= Len(a)) /\ x - Len(a) \in 1 .. Len(s) - i
          /\ i + (x - Len(a)) = x + 1
      BY <1>1, <1>2, <1>3, <1>5, <1>6, <2>2
    <3>2. t[x] = b[x - Len(a)] /\ b[x - Len(a)] = s[i + (x - Len(a))]
      BY <1>3, <1>5, <3>1
    <3> QED
      BY <2>2, <3>1, <3>2
  <2> QED
    BY <2>1, <2>2
<1> QED
  BY <1>5, <1>6, <1>7 DEF t

LEMMA DropsOne ==
    ASSUME NEW s \in Seq(Ids), NEW i \in 1 .. Len(s),
           \A k, l \in 1 .. Len(s) : s[k] = s[l] => k = l
    PROVE  Drops(s, RemoveAt(s, i), s[i])
<1>1. PICK t, m : t = RemoveAt(s, i) /\ m = s[i]
  OBVIOUS
<1>2. /\ t \in Seq(Ids) /\ Len(t) = Len(s) - 1
      /\ \A x \in 1 .. Len(t) : t[x] = IF x < i THEN s[x] ELSE s[x + 1]
  BY <1>1, RemoveAtParts
<1> DEFINE e == [x \in 1 .. Len(t) |-> IF x < i THEN x ELSE x + 1]
<1>3. Len(s) \in Nat /\ i \in Nat /\ 1 <= i /\ i <= Len(s) /\ Len(t) \in Nat
  BY <1>2, LenProperties
<1>4. \A x \in 1 .. Len(t) : e[x] = IF x < i THEN x ELSE x + 1
  OBVIOUS
<1>5. e \in [1 .. Len(t) -> 1 .. Len(s)]
  <2>1. \A x \in 1 .. Len(t) : (IF x < i THEN x ELSE x + 1) \in 1 .. Len(s)
    BY <1>2, <1>3
  <2> QED
    BY <2>1
<1> HIDE DEF e
<1>6. \A x \in 1 .. Len(t) : t[x] = s[e[x]]
  BY <1>2, <1>4
<1>7. \A x, y \in 1 .. Len(t) : (e[x] < e[y] <=> x < y) /\ (e[x] = e[y] => x = y)
  BY <1>3, <1>4
<1>8. Keeping(s, t, e)
  BY <1>5, <1>6, <1>7 DEF Keeping
<1>9. \A x \in 1 .. Len(t) : e[x] # i
  BY <1>3, <1>4
<1>10. \A k \in 1 .. Len(s) : k # i => \E x \in 1 .. Len(t) : e[x] = k
  <2> SUFFICES ASSUME NEW k \in 1 .. Len(s), k # i PROVE \E x \in 1 .. Len(t) : e[x] = k
    OBVIOUS
  <2>1. CASE k < i
    <3>1. k \in 1 .. Len(t) /\ e[k] = k
      BY <1>2, <1>3, <1>4, <2>1
    <3> QED
      BY <3>1
  <2>2. CASE ~ (k < i)
    <3>1. k - 1 \in 1 .. Len(t) /\ ~ (k - 1 < i) /\ (k - 1) + 1 = k
      BY <1>2, <1>3, <2>2
    <3>2. e[k - 1] = k
      BY <1>4, <3>1
    <3> QED
      BY <3>1, <3>2
  <2> QED
    BY <2>1, <2>2
<1>11. \A x : x \in ToSet(s) <=> \E k \in 1 .. Len(s) : s[k] = x
  BY SetOf
<1>12. \A x : x \in ToSet(t) <=> \E k \in 1 .. Len(t) : t[k] = x
  BY <1>2, SetOf
<1>13. ASSUME NEW x PROVE x \in ToSet(t) <=> x \in ToSet(s) /\ x # m
  <2>1. ASSUME x \in ToSet(t) PROVE x \in ToSet(s) /\ x # m
    <3>1. PICK k \in 1 .. Len(t) : t[k] = x
      BY <1>12, <2>1
    <3>2. e[k] \in 1 .. Len(s) /\ s[e[k]] = x /\ e[k] # i
      BY <1>5, <1>6, <1>9, <3>1
    <3> QED
      BY <1>1, <1>11, <3>2
  <2>2. ASSUME x \in ToSet(s), x # m PROVE x \in ToSet(t)
    <3>1. PICK k \in 1 .. Len(s) : s[k] = x
      BY <1>11, <2>2
    <3>2. PICK y \in 1 .. Len(t) : e[y] = k
      BY <1>1, <1>10, <2>2, <3>1
    <3> QED
      BY <1>6, <1>12, <3>1, <3>2
  <2> QED
    BY <2>1, <2>2
<1>14. Drops(s, t, m)
  <2>1. ToSet(t) = ToSet(s) \ {m}
    BY <1>13
  <2> QED
    BY <1>2, <1>8, <2>1, Zenon DEF Drops
<1> QED
  BY <1>1, <1>14

\* In service the directory and the queue change together.
LEMMA UpStep ==
    ASSUME MInv, pc = "up", UNCHANGED <<pc, install, place, settled, rooted>>,
           retained' \in BOOLEAN, ~ retained' => journal' = <<>>,
           HistoryInv', Solid(storage'), NEW q, q = Contents(storage'), q = pending', Faithful(q)'
    PROVE  MInv'
<1>1. /\ pc' = "up" /\ place' = place /\ settled' = settled /\ rooted' = rooted
      /\ line' = line /\ plan' = plan /\ frames' = frames /\ build' = build
  BY DEF install
<1>2. TypesInv'
  BY <1>1, Zenon DEF MInv, TypesInv
<1>3. Idle /\ place # "none" /\ settled /\ rooted
  BY DEF MInv, StageInv, PlaceInv
<1>4. StageInv'
  BY <1>1, <1>3 DEF StageInv, Idle, EmptyDirectory
<1>5. Faithful(Contents(storage))'
  BY NextFaithful
<1>6. PlaceInv'
  BY <1>1, <1>3, <1>5 DEF PlaceInv
<1> QED
  BY <1>2, <1>4, <1>6 DEF MInv

LEMMA UpFacts ==
    ASSUME MInv, pc = "up"
    PROVE  /\ Solid(storage) /\ pending = Contents(storage) /\ Faithful(pending) /\ HistoryInv
           /\ retained \in BOOLEAN /\ (~ retained => journal = <<>>)
<1>1. place # "none" /\ pending = Contents(storage)
  BY DEF MInv, PlaceInv
<1>2. Solid(storage) /\ Faithful(Contents(storage)) /\ (~ retained => journal = <<>>)
  BY <1>1 DEF MInv, PlaceInv
<1> QED
  BY <1>1, <1>2 DEF MInv, TypesInv

LEMMA AppendMessageInv ==
    ASSUME MInv, NEW m \in Ids, AppendMessage(m)
    PROVE  MInv'
<1>1. /\ pc = "up" /\ m \notin issued /\ issued' = issued \cup {m}
      /\ storage' = AddRecord(storage, m)
      /\ pending' = Append(pending, m) /\ owed' = Append(owed, m)
      /\ UNCHANGED <<pc, install, place, settled, rooted>>
      /\ UNCHANGED <<completed, damaged, doubtful>>
      /\ damages' = damages /\ setbacks' = setbacks
      /\ retained' = retained /\ journal' = journal
  BY DEF AppendMessage, AddRecord, files
<1>2. /\ Solid(storage) /\ pending = Contents(storage) /\ Faithful(pending) /\ HistoryInv
      /\ retained \in BOOLEAN /\ (~ retained => journal = <<>>)
  BY <1>1, UpFacts
<1>3. Solid(storage') /\ Contents(storage') = Append(pending, m)
  BY <1>1, <1>2, SolidAppend
<1>4. PICK p, q : p = pending /\ q = Append(pending, m)
  OBVIOUS
<1>5. p \in Seq(Messages) /\ m \in Messages
  BY <1>2, <1>4 DEF Faithful, Messages
<1>6. Longer(p, q, m)
  BY <1>4, <1>5, AppendSet, AppendProperties, LenProperties DEF Longer
<1>7. Adds(owed, owed', m)
  BY <1>1, <1>2, AddsAppend DEF HistoryInv
<1>8. Faithful(p)
  BY <1>2, <1>4
<1>9. Faithful(q)'
  BY <1>1, <1>2, <1>6, <1>7, <1>8, FaithfulLonger
<1>10. HistoryInv'
  <2>1. m \notin ToSet(owed)
    BY <1>1, <1>2 DEF HistoryInv
  <2>2. \A k \in 1 .. Len(owed) : owed[k] # m
    BY <1>2, <2>1, SetOf DEF HistoryInv
  <2>3. \A k, l \in 1 .. Len(owed') : owed'[k] = owed'[l] => k = l
    BY <1>2, <1>7, <2>2 DEF HistoryInv, Adds
  <2>4. owed' \in Seq(Ids) /\ ToSet(owed') \subseteq issued' /\ issued' \subseteq Ids
    BY <1>1, <1>2, <1>7 DEF HistoryInv, Adds
  <2>5. completed' \subseteq issued' \cup {NewId} /\ damaged' \subseteq issued'
        /\ doubtful' \subseteq Ids
    BY <1>1, <1>2 DEF HistoryInv
  <2>6. damages' \in 0 .. MaxDamages /\ setbacks' \in 0 .. MaxSetbacks
    BY <1>1, <1>2 DEF HistoryInv
  <2> QED
    BY <2>3, <2>4, <2>5, <2>6 DEF HistoryInv
<1>11. q = Contents(storage') /\ q = pending'
  BY <1>1, <1>3, <1>4
<1>12. retained' \in BOOLEAN /\ (~ retained' => journal' = <<>>)
  BY <1>1, <1>2
<1> QED
  BY <1>1, <1>3, <1>9, <1>10, <1>11, <1>12, UpStep

LEMMA RemoveOldestInv ==
    ASSUME MInv, RemoveOldest
    PROVE  MInv'
<1>1. /\ pc = "up" /\ pending # <<>> /\ storage' = TakeRecord(storage)
      /\ pending' = Tail(pending) /\ completed' = completed \cup {Head(pending)}
      /\ \/ Head(pending) \notin ToSet(owed) /\ owed' = owed
         \/ \E i \in DOMAIN owed : owed[i] = Head(pending) /\ owed' = RemoveAt(owed, i)
      /\ UNCHANGED <<pc, install, place, settled, rooted>>
      /\ UNCHANGED <<issued, damaged, doubtful>>
      /\ damages' = damages /\ setbacks' = setbacks
      /\ retained' = retained /\ journal' = journal
  BY DEF RemoveOldest, TakeRecord, files
<1>2. /\ Solid(storage) /\ pending = Contents(storage) /\ Faithful(pending) /\ HistoryInv
      /\ retained \in BOOLEAN /\ (~ retained => journal = <<>>)
  BY <1>1, UpFacts
<1>3. Solid(storage') /\ Contents(storage') = Tail(pending)
  BY <1>1, <1>2, SolidTake
<1>4. PICK p, q, m : p = pending /\ q = Tail(pending) /\ m = Head(pending)
  OBVIOUS
<1>5. p \in Seq(Messages) /\ p # <<>> /\ q = Tail(p) /\ m = Head(p)
  BY <1>1, <1>2, <1>4 DEF Faithful
<1>6. Shorter(p, q, m)
  <2>1. /\ Len(p) \in Nat \ {0} /\ Len(Tail(p)) = Len(p) - 1 /\ p[1] = Head(p)
        /\ \A k \in 1 .. Len(Tail(p)) : Tail(p)[k] = p[k + 1]
    BY <1>5, EmptySeq, HeadTailProperties
  <2>2. Tail(p) \in Seq(Messages) /\ ToSet(p) = ToSet(Tail(p)) \cup {Head(p)}
    BY <1>5, TailSet
  <2> QED
    BY <1>5, <2>1, <2>2 DEF Shorter
<1>7. Drops(owed, owed', m)
  <2>1. owed \in Seq(Ids) /\ (\A k, l \in 1 .. Len(owed) : owed[k] = owed[l] => k = l)
        /\ DOMAIN owed = 1 .. Len(owed)
    BY <1>2, LenProperties DEF HistoryInv
  <2>2. CASE Head(pending) \notin ToSet(owed) /\ owed' = owed
    BY <1>4, <2>1, <2>2, DropsNone
  <2>3. CASE \E i \in DOMAIN owed : owed[i] = Head(pending) /\ owed' = RemoveAt(owed, i)
    <3>1. PICK i \in 1 .. Len(owed) : owed[i] = m /\ owed' = RemoveAt(owed, i)
      BY <1>4, <2>1, <2>3
    <3>2. Drops(owed, RemoveAt(owed, i), owed[i])
      BY <2>1, DropsOne
    <3> QED
      BY <3>1, <3>2
  <2> QED
    BY <1>1, <2>2, <2>3
<1>8. Faithful(p) /\ completed' = completed \cup {m}
  BY <1>1, <1>2, <1>4
<1>9. Faithful(q)' /\ m \in issued \cup {NewId}
  BY <1>1, <1>2, <1>6, <1>7, <1>8, FaithfulShorter
<1>10. HistoryInv'
  <2>1. owed' \in Seq(Ids) /\ ToSet(owed') = ToSet(owed) \ {m}
    BY <1>7 DEF Drops
  <2>2. PICK e : Keeping(owed, owed', e)
    BY <1>7 DEF Drops
  <2>3. \A k, l \in 1 .. Len(owed') : owed'[k] = owed'[l] => k = l
    <3> SUFFICES ASSUME NEW k \in 1 .. Len(owed'), NEW l \in 1 .. Len(owed'),
                        owed'[k] = owed'[l]
                 PROVE  k = l
      OBVIOUS
    <3>1. e[k] \in 1 .. Len(owed) /\ e[l] \in 1 .. Len(owed) /\ owed[e[k]] = owed[e[l]]
      BY <2>2 DEF Keeping
    <3>2. e[k] = e[l]
      BY <1>2, <3>1 DEF HistoryInv
    <3> QED
      BY <2>2, <3>2 DEF Keeping
  <2>4. ToSet(owed') \subseteq issued' /\ issued' \subseteq Ids /\ damaged' \subseteq issued'
        /\ doubtful' \subseteq Ids
    BY <1>1, <1>2, <2>1 DEF HistoryInv
  <2>5. completed' \subseteq issued' \cup {NewId}
    BY <1>1, <1>2, <1>8, <1>9 DEF HistoryInv
  <2>6. damages' \in 0 .. MaxDamages /\ setbacks' \in 0 .. MaxSetbacks
    BY <1>1, <1>2 DEF HistoryInv
  <2> QED
    BY <2>1, <2>3, <2>4, <2>5, <2>6 DEF HistoryInv
<1>11. q = Contents(storage') /\ q = pending'
  BY <1>1, <1>3, <1>4
<1>12. retained' \in BOOLEAN /\ (~ retained' => journal' = <<>>)
  BY <1>1, <1>2
<1> QED
  BY <1>1, <1>3, <1>9, <1>10, <1>11, <1>12, UpStep

LEMMA RemoveJournalInv ==
    ASSUME MInv, RemoveJournal
    PROVE  MInv'
<1>1. /\ pc = "up" /\ retained' = FALSE /\ journal' = <<>>
      /\ UNCHANGED <<pc, install, place, settled, rooted>> /\ storage' = storage
      /\ pending' = pending /\ issued' = issued /\ owed' = owed /\ completed' = completed
      /\ damaged' = damaged /\ doubtful' = doubtful
      /\ damages' = damages /\ setbacks' = setbacks
  BY DEF RemoveJournal, tree, history
<1>2. Solid(storage) /\ pending = Contents(storage) /\ Faithful(pending) /\ HistoryInv
  BY <1>1, UpFacts
<1>3. HistoryInv'
  BY <1>1, <1>2 DEF HistoryInv
<1>4. PICK q : q = pending
  OBVIOUS
<1>5. Faithful(q)
  BY <1>2, <1>4
<1>6. Faithful(q)'
  <2>1. Keeps(q)' /\ Excused' = Excused
    BY <1>1, <1>5 DEF Faithful, Keeps, Excused
  <2> QED
    BY <1>1, <1>5, <2>1 DEF Faithful
<1>7. q = Contents(storage') /\ q = pending' /\ Solid(storage') /\ retained' \in BOOLEAN
  BY <1>1, <1>2, <1>4
<1> QED
  BY <1>1, <1>3, <1>6, <1>7, UpStep

LEMMA StutterInv ==
    ASSUME MInv, UNCHANGED vars
    PROVE  MInv'
<1>1. /\ pc' = pc /\ line' = line /\ plan' = plan /\ frames' = frames /\ build' = build
      /\ place' = place /\ storage' = storage /\ settled' = settled /\ rooted' = rooted
      /\ pending' = pending /\ setbacks' = setbacks /\ OpenFrame
  BY DEF vars, install, tree, files, history, OpenFrame
<1>2. /\ retained' = retained /\ journal' = journal /\ completed' = completed
      /\ HistoryInv' /\ (JournalInv => JournalInv')
  BY <1>1, Still DEF MInv, HistoryInv
<1>3. TypesInv'
  BY <1>1, <1>2, Zenon DEF MInv, TypesInv
<1>4. StageInv'
  <2>1. (Idle => Idle') /\ EmptyDirectory' = EmptyDirectory
    BY <1>1 DEF Idle, EmptyDirectory
  <2>2. ReplayInv(plan, line) => ReplayInv(plan, line)'
    BY <1>1, Still, NextReplay
  <2>3. Faithful(plan) => Faithful(plan)'
    BY <1>1, Still, NextFaithful
  <2>4. Faithful(FlattenSeq(build.segments) \o frames \o plan)
          => Faithful(FlattenSeq(build.segments) \o frames \o plan)'
    BY <1>1, Still, NextFaithful
  <2>5. Done => Done'
    <3>1. Faithful(FlattenSeq(build.segments)) => Faithful(FlattenSeq(build.segments))'
      BY <1>1, Still, NextFaithful
    <3> QED
      BY <1>1, <3>1 DEF Done
  <2>6. /\ pc' \in {"old", "closed", "parent", "load", "barrier", "up"} => Idle'
        /\ pc' = "replay" => /\ frames' = <<>> /\ build' = EmptyDirectory' /\ retained'
                             /\ ReplayInv(plan, line)'
        /\ pc' = "format" => /\ line' = 0 /\ frames' = <<>> /\ build' = EmptyDirectory'
                             /\ Faithful(plan)'
    BY <1>1, <1>2, <2>1, <2>2, <2>3 DEF MInv, StageInv
  <2>7. Segments(build)' <=> Segments(build)
    BY <1>1
  <2>8. /\ pc' = "checkpoint" => build' = Fresh(build'.segments) /\ Segments(build)' /\ Done'
        /\ pc' = "fsync" => build' = Complete(build'.segments) /\ Segments(build)' /\ Done'
        /\ pc' = "rename" => build' = Ready(build'.segments) /\ Segments(build)' /\ Done'
    BY <1>1, <2>5, <2>7 DEF MInv, StageInv
  <2>9. ASSUME pc' = "segment"
        PROVE  /\ line' = 0 /\ build' = Fresh(build'.segments) /\ Segments(build)'
               /\ plan' \in Seq(Messages) /\ frames' \in Seq(Messages) /\ Fits(frames)'
               /\ Faithful(FlattenSeq(build.segments) \o frames \o plan)'
               /\ \A i \in 1 .. Len(build'.segments) : build'.segments[i] # <<>>
               /\ build'.segments # <<>> => frames' # <<>> \/ plan' # <<>>
    BY <1>1, <2>4, <2>7, <2>9 DEF MInv, StageInv
  <2> QED
    BY <2>6, <2>8, <2>9, Zenon DEF StageInv
<1>5. PlaceInv'
  <2>1. Solid(storage)' <=> Solid(storage)
    BY <1>1
  <2>2. Contents(storage)' = Contents(storage)
    BY <1>1
  <2>3. Faithful(Contents(storage)) => Faithful(Contents(storage))'
    BY <1>1, <2>2, Still, NextFaithful
  <2>4. EmptyDirectory' = EmptyDirectory
    BY DEF EmptyDirectory
  <2> QED
    BY <1>1, <1>2, <2>1, <2>2, <2>3, <2>4 DEF MInv, PlaceInv
<1> QED
  BY <1>2, <1>3, <1>4, <1>5 DEF MInv
-----------------------------------------------------------------------------
(* The invariant.                                                          *)

LEMMA EmptySet == ToSet(<<>>) = {}
<1>1. PICK s : s = <<>>
  OBVIOUS
<1>2. s \in Seq({}) /\ Len(s) = 0
  BY <1>1
<1>3. \A m : m \in ToSet(s) <=> \E k \in 1 .. Len(s) : s[k] = m
  BY <1>2, SetOf
<1>4. ToSet(s) = {}
  BY <1>2, <1>3
<1> QED
  BY <1>1, <1>4

LEMMA EmptyJournal ==
    ASSUME journal = <<>>, owed = <<>>, damaged = {}, doubtful = {}
    PROVE  JournalInv
<1>1. Len(journal) = 0 /\ Len(owed) = 0 /\ ToSet(owed) = {} /\ journal \in Seq(Entries)
  <2>1. <<>> \in Seq(Entries) /\ Len(<<>>) = 0
    OBVIOUS
  <2>2. ToSet(<<>>) = {}
    BY EmptySet
  <2> QED
    BY <2>1, <2>2
<1>2. Positions = {}
  BY <1>1 DEF Positions
<1>3. LinesInv /\ OnceInv /\ DoubtInv
  BY <1>1, <1>2 DEF LinesInv, OnceInv, DoubtInv
<1>4. OwedInv
  BY <1>1, <1>2 DEF OwedInv
<1> QED
  BY <1>3, <1>4 DEF JournalInv

LEMMA InitInv == Init => MInv
<1> SUFFICES ASSUME Init PROVE MInv
  OBVIOUS
<1>1. /\ \/ retained = TRUE /\ pc = "old" /\ rooted = TRUE
         \/ retained = FALSE /\ pc = "closed" /\ rooted = FALSE
      /\ journal = <<>> /\ Idle /\ place = "none" /\ storage = EmptyDirectory
      /\ settled = FALSE /\ pending = <<>> /\ issued = {} /\ owed = <<>> /\ completed = {}
      /\ damaged = {} /\ doubtful = {} /\ damages = 0 /\ setbacks = 0
  BY Zenon DEF Init, Idle
<1>2. TypesInv
  BY <1>1, Zenon DEF TypesInv
<1>3. HistoryInv
  <2>1. <<>> \in Seq(Ids) /\ Len(<<>>) = 0
    OBVIOUS
  <2>2. ToSet(<<>>) = {}
    BY EmptySet
  <2> QED
    BY <1>1, <2>1, <2>2, MigrationAssumption DEF HistoryInv
<1>4. StageInv
  BY <1>1 DEF StageInv
<1>5. PlaceInv
  BY <1>1, EmptyJournal DEF PlaceInv
<1> QED
  BY <1>2, <1>3, <1>4, <1>5 DEF MInv

\* The inductive invariant: while the directory in place may still be lost, the journal
\* tells what is owed, and at every stage of _read_legacy_pending and
\* _install_storage_atomically what has been read, packed and installed so far is a queue
\* from which nothing is missing and in which nothing is back.
THEOREM Invariance == Spec => []MInv
<1>1. Init => MInv
  BY InitInv
<1>2. ASSUME MInv, [Next]_vars PROVE MInv'
  <2>1. ASSUME NEW m \in Ids, LegacyEnqueue(m) PROVE MInv'
    BY <1>2, <2>1, LegacyEnqueueInv
  <2>2. ASSUME NEW m \in Ids, AppendMessage(m) PROVE MInv'
    BY <1>2, <2>2, AppendMessageInv
  <2>3. CASE LegacyAck
    BY <1>2, <2>3, LegacyAckInv
  <2>4. ASSUME NEW i \in 1 .. Len(journal), Damage(i) PROVE MInv'
    BY <1>2, <2>4, DamageInv DEF Positions
  <2>5. CASE Resolve
    BY <1>2, <2>5, ResolveInv
  <2>6. CASE ReplayLine
    BY <1>2, <2>6, ReplayLineInv
  <2>7. CASE WriteFormat
    BY <1>2, <2>7, WriteFormatInv
  <2>8. CASE AddFrame
    BY <1>2, <2>8, AddFrameInv
  <2>9. CASE WriteSegment
    BY <1>2, <2>9, WriteSegmentInv
  <2>10. CASE WriteCheckpoint
    BY <1>2, <2>10, WriteCheckpointInv
  <2>11. CASE SyncBuild
    BY <1>2, <2>11, SyncBuildInv
  <2>12. CASE Rename
    BY <1>2, <2>12, RenameInv
  <2>13. CASE SyncParent
    BY <1>2, <2>13, SyncParentInv
  <2>14. CASE Load
    BY <1>2, <2>14, LoadInv
  <2>15. CASE Barrier
    BY <1>2, <2>15, BarrierInv
  <2>16. CASE Close
    BY <1>2, <2>16, CloseInv
  <2>17. CASE Fails
    BY <1>2, <2>17, FailsInv
  <2>18. CASE PowerLoss
    BY <1>2, <2>18, PowerLossInv
  <2>19. CASE RemoveOldest
    BY <1>2, <2>19, RemoveOldestInv
  <2>20. CASE RemoveJournal
    BY <1>2, <2>20, RemoveJournalInv
  <2>21. CASE UNCHANGED vars
    BY <1>2, <2>21, StutterInv
  <2> QED
    BY <1>2, <2>1, <2>2, <2>3, <2>4, <2>5, <2>6, <2>7, <2>8, <2>9, <2>10, <2>11, <2>12, <2>13,
       <2>14, <2>15, <2>16, <2>17, <2>18, <2>19, <2>20, <2>21, Zenon DEF Next, OpenStep
<1> QED
  BY <1>1, <1>2, PTL DEF Spec
-----------------------------------------------------------------------------
(* What it says about the queue.                                           *)

\* A directory with its fields and no record removed that is not there.
LEMMA DirectoryType ==
    ASSUME NEW f \in BOOLEAN, NEW ss \in Seq(Seq(Messages)), NEW c \in BOOLEAN, NEW s \in BOOLEAN,
           NEW a \in Seq(Ids), NEW r \in Nat,
           NEW d, d = [format |-> f, segments |-> ss, checkpoint |-> c, synced |-> s,
                       appended |-> a, removed |-> r],
           r <= Len(Records(d))
    PROVE  d \in Directories
<1>1. d \in [format : BOOLEAN, segments : Seq(Seq(Messages)), checkpoint : BOOLEAN,
             synced : BOOLEAN, appended : Seq(Ids), removed : Nat]
  OBVIOUS
<1>2. d.removed = r
  OBVIOUS
<1> QED
  BY <1>1, <1>2, Zenon DEF Directories

\* A directory nothing was appended to or removed from yet.
LEMMA NewDirectoryType ==
    ASSUME NEW f \in BOOLEAN, NEW ss \in Seq(Seq(Messages)), NEW c \in BOOLEAN, NEW s \in BOOLEAN,
           NEW a, a = <<>>, NEW r, r = 0,
           NEW d, d = [format |-> f, segments |-> ss, checkpoint |-> c, synced |-> s,
                       appended |-> a, removed |-> r]
    PROVE  d \in Directories
<1>1. a \in Seq(Ids) /\ a \in Seq(Messages) /\ r \in Nat
  OBVIOUS
<1>2. d.segments = ss /\ d.appended = a
  OBVIOUS
<1>3. FlattenSeq(ss) \in Seq(Messages)
  BY FlattenAppend, EmptySeq
<1>4. Records(d) \in Seq(Messages)
  BY <1>1, <1>2, <1>3, ConcatProperties DEF Records
<1>5. r <= Len(Records(d))
  BY <1>4, LenProperties
<1> QED
  BY <1>1, <1>5, DirectoryType

LEMMA EmptyType == EmptyDirectory \in Directories
<1> DEFINE New(f, ss, a, r) == [format |-> f, segments |-> ss, checkpoint |-> f, synced |-> f,
                                appended |-> a, removed |-> r]
<1>1. PICK n, a, r : n = FALSE /\ a = <<>> /\ r = 0
  OBVIOUS
<1>2. n \in BOOLEAN
  BY <1>1
<1>3. ASSUME NEW ss \in Seq(Seq(Messages)) PROVE New(n, ss, a, r) \in Directories
  BY <1>1, <1>2, NewDirectoryType
<1>4. EmptyDirectory = New(n, a, a, r)
  BY <1>1, Zenon DEF EmptyDirectory
<1>5. a \in Seq(Seq(Messages))
  BY <1>1
<1> HIDE DEF New
<1> QED
  BY <1>3, <1>4, <1>5, Zenon

LEMMA BuildTypes ==
    ASSUME NEW ss \in Seq(Seq(Messages))
    PROVE  Fresh(ss) \in Directories /\ Complete(ss) \in Directories /\ Ready(ss) \in Directories
<1>1. PICK t, n, a, r : t = TRUE /\ n = FALSE /\ a = <<>> /\ r = 0
  OBVIOUS
<1>2. t \in BOOLEAN /\ n \in BOOLEAN
  BY <1>1, Zenon
<1>3. Fresh(ss) = [format |-> t, segments |-> ss, checkpoint |-> n, synced |-> n,
                   appended |-> a, removed |-> r]
  BY <1>1, Zenon DEF Fresh
<1>4. Complete(ss) = [format |-> t, segments |-> ss, checkpoint |-> t, synced |-> n,
                      appended |-> a, removed |-> r]
  BY <1>1, Zenon DEF Complete
<1>5. Ready(ss) = [format |-> t, segments |-> ss, checkpoint |-> t, synced |-> t,
                   appended |-> a, removed |-> r]
  BY <1>1, Zenon DEF Ready
<1>6. Fresh(ss) \in Directories
  BY <1>1, <1>2, <1>3, NewDirectoryType
<1>7. Complete(ss) \in Directories
  BY <1>1, <1>2, <1>4, NewDirectoryType
<1>8. Ready(ss) \in Directories
  BY <1>1, <1>2, <1>5, NewDirectoryType
<1> QED
  BY <1>6, <1>7, <1>8

LEMMA StorageType ==
    ASSUME NEW d, Solid(d)
    PROVE  d \in Directories
<1>1. PICK ss, a, r : ss = d.segments /\ a = d.appended /\ r = d.removed
  OBVIOUS
<1>2. PICK t : t = TRUE
  OBVIOUS
<1>3. d = [format |-> t, segments |-> ss, checkpoint |-> t, synced |-> t, appended |-> a,
           removed |-> r]
  BY <1>1, <1>2, Zenon DEF Solid, Installed
<1>4. t \in BOOLEAN
  BY <1>2, Zenon
<1>5. /\ ss \in Seq(Seq(Messages)) /\ a \in Seq(Ids) /\ r \in Nat /\ r <= Len(Records(d))
  BY <1>1 DEF Solid, Segments
<1> QED
  BY <1>3, <1>4, <1>5, DirectoryType, Zenon

Limits(d) ==
    \A i \in DOMAIN d.segments :
        LET segment == d.segments[i]
        IN  /\ segment = <<>> => Len(d.segments) = 1
            /\ Len(segment) <= SegmentMaxRecords
            /\ Len(segment) > 1 => Bytes(segment) <= SegmentMaxBytes

LEMMA InvTypes == MInv => TypeOK
<1> SUFFICES ASSUME MInv PROVE TypeOK
  OBVIOUS
<1> USE DEF MInv
<1>1. <<>> \in Seq(Messages) /\ 0 \in Nat
  OBVIOUS
<1>2. /\ line \in Nat /\ plan \in Seq(Messages) /\ frames \in Seq(Messages)
      /\ build \in Directories
  <2>1. CASE pc \in {"old", "closed", "parent", "load", "barrier", "up"}
    <3>1. Idle
      BY <2>1 DEF StageInv
    <3> QED
      BY <3>1, <1>1, EmptyType DEF Idle
  <2>2. CASE pc = "replay"
    <3>1. frames = <<>> /\ build = EmptyDirectory /\ ReplayInv(plan, line)
      BY <2>2 DEF StageInv
    <3>2. Len(journal) \in Nat
      <4>1. JournalInv
        BY <2>2 DEF PlaceInv
      <4> QED
        BY <4>1, LenProperties DEF JournalInv, LinesInv
    <3> QED
      BY <3>1, <3>2, <1>1, EmptyType DEF ReplayInv
  <2>3. CASE pc = "format"
    <3>1. line = 0 /\ frames = <<>> /\ build = EmptyDirectory /\ Faithful(plan)
      BY <2>3 DEF StageInv
    <3> QED
      BY <3>1, <1>1, EmptyType DEF Faithful
  <2>4. CASE pc = "segment"
    <3>1. /\ line = 0 /\ build = Fresh(build.segments) /\ Segments(build)
          /\ plan \in Seq(Messages) /\ frames \in Seq(Messages)
      BY <2>4 DEF StageInv
    <3>2. build \in Directories
      BY <3>1, BuildTypes, Zenon DEF Segments
    <3> QED
      BY <3>1, <3>2
  <2>5. CASE pc \in {"checkpoint", "fsync", "rename"}
    <3>1. /\ \/ build = Fresh(build.segments) \/ build = Complete(build.segments)
             \/ build = Ready(build.segments)
          /\ Segments(build) /\ line = 0 /\ plan = <<>> /\ frames = <<>>
      BY <2>5 DEF StageInv, Done
    <3>2. build \in Directories
      BY <3>1, BuildTypes, Zenon DEF Segments
    <3> QED
      BY <3>1, <3>2, <1>1
  <2> QED
    BY <2>1, <2>2, <2>3, <2>4, <2>5 DEF TypesInv
<1>3. storage \in Directories /\ Limits(storage)
  <2>1. CASE place = "none"
    <3>1. storage = EmptyDirectory
      BY <2>1 DEF PlaceInv
    <3>2. DOMAIN storage.segments = {}
      BY <3>1 DEF EmptyDirectory
    <3>3. storage \in Directories
      BY <3>1, <1>1, EmptyType
    <3> QED
      BY <3>2, <3>3 DEF Limits
  <2>2. CASE place # "none"
    <3>1. Solid(storage)
      BY <2>2 DEF PlaceInv
    <3>2. DOMAIN storage.segments = 1 .. Len(storage.segments)
      BY <3>1, LenProperties DEF Solid, Segments
    <3>3. Limits(storage)
      BY <3>1, <3>2, Zenon DEF Limits, Solid, Segments, Fits
    <3> QED
      BY <3>1, <3>3, StorageType
  <2> QED
    BY <2>1, <2>2
<1>4. pending \in Seq(Messages)
  <2>1. CASE pc \in {"barrier", "up"}
    <3>1. pending = Contents(storage) /\ Faithful(Contents(storage))
      BY <2>1 DEF PlaceInv
    <3> QED
      BY <3>1 DEF Faithful
  <2>2. CASE pc \notin {"barrier", "up"}
    BY <2>2, <1>1 DEF PlaceInv
  <2> QED
    BY <2>1, <2>2
<1>5. /\ owed \in Seq(Ids) /\ issued \subseteq Ids /\ completed \subseteq Messages
      /\ damaged \subseteq Ids /\ doubtful \subseteq Ids
      /\ damages \in 0 .. MaxDamages /\ setbacks \in 0 .. MaxSetbacks
  BY DEF HistoryInv, Messages
<1> QED
  BY <1>2, <1>3, <1>4, <1>5, Zenon DEF TypeOK, TypesInv, Limits

\* The types, and the segments that _build_storage_directory packs keep to their limits:
\* whatever the journal holds, none but a lone message exceeds segment_max_bytes, none has
\* more than segment_max_records, and none is empty unless the queue is.
THEOREM TypeCorrect == Spec => []TypeOK
  BY Invariance, InvTypes, PTL

\* Whatever failed or was cut off in _resolve_or_create_storage before, and however the
\* journal was damaged, an Outbox that has opened holds every message that was accepted and
\* not completed, in its order, but for those whose own line in the journal is damaged.
THEOREM MigrationKeepsAll == Spec => []NothingDiscarded
<1>1. MInv => NothingDiscarded
  <2> SUFFICES ASSUME MInv, pc = "up"
               PROVE  /\ ToSet(pending) \cap ToSet(owed) = ToSet(owed) \ damaged
                      /\ \A k, l \in DOMAIN pending, x, y \in DOMAIN owed :
                            k < l /\ pending[k] = owed[x] /\ pending[l] = owed[y] => x < y
    BY DEF NothingDiscarded
  <2>1. Faithful(pending) /\ HistoryInv
    BY UpFacts
  <2>2. DOMAIN pending = 1 .. Len(pending) /\ DOMAIN owed = 1 .. Len(owed)
    BY <2>1, LenProperties DEF Faithful, HistoryInv
  <2> QED
    BY <2>1, <2>2 DEF Faithful, Keeps
<1> QED
  BY <1>1, Invariance, PTL

\* An Outbox that has opened holds no message completed since the migration, for the
\* directory beside the journal is looked for first, and of those the older version
\* completed only the ones whose acknowledgement was damaged or stands behind a damaged one.
THEOREM MigrationRevivesNone == Spec => []NothingReplayed
<1>1. MInv => NothingReplayed
  <2> SUFFICES ASSUME MInv, pc = "up"
               PROVE  /\ ToSet(pending) \cap completed = {}
                      /\ ToSet(pending) \subseteq ToSet(owed) \cup doubtful
                                              \cup (IF damaged = {} THEN {} ELSE {NewId})
    BY DEF NothingReplayed
  <2>1. Faithful(pending)
    BY UpFacts
  <2> QED
    BY <2>1 DEF Faithful, Excused
<1> QED
  BY <1>1, Invariance, PTL
=============================================================================
