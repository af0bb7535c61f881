------------------------------ MODULE Migration ------------------------------
(***************************************************************************)
(* Opening an Outbox for the first time (src/reliomq/outbox.py): the one-  *)
(* file journal of an older version is replayed, packed into segments and  *)
(* installed as a directory beside it with one rename; without a journal   *)
(* an empty directory is installed at the path itself.  Any system call    *)
(* may fail, the process may be killed and the power may go at any step.   *)
(* Once in service the queue is as durable as Outbox shows; here an append *)
(* or a removal is one step.                                               *)
(***************************************************************************)
EXTENDS Protocol, Integers, Sequences, SequencesExt

CONSTANTS
    SizeOf,                           \* bytes of a message's frame
    SegmentMaxBytes,                  \* segment_max_bytes less the header
    SegmentMaxRecords,
    MaxDamages, MaxSetbacks           \* bounds: damaged lines; faults and crashes

ASSUME MigrationAssumption ==
    /\ SizeOf \in [Ids \cup {NewId} -> Nat \ {0}]
    /\ SegmentMaxBytes \in Nat \ {0} /\ SegmentMaxRecords \in Nat \ {0}
    /\ MaxDamages \in Nat /\ MaxSetbacks \in Nat

VARIABLES
    retained,     \* the journal's file exists
    journal,      \* its lines
    pc,           \* where the constructor is; "old" while an older version runs
    line, plan,   \* lines replayed, and the messages that remain of them
    frames,       \* the segment being filled
    build,        \* the temporary directory
    place,        \* where the installed directory is seen: "none", "path" or "sidecar"
    storage,      \* the installed directory
    settled,      \* its name is on disk
    rooted,       \* the names of the directories above are on disk
    pending,      \* _pending
    \* history
    issued,       \* messages ever accepted
    owed,         \* accepted and not completed, in order
    completed,    \* completed in service of the new version
    damaged,      \* messages whose line in the journal was damaged
    doubtful,     \* messages acknowledged in or behind a damaged line
    damages, setbacks

files == <<retained, journal>>
install == <<line, plan, frames, build>>
tree == <<place, storage, settled, rooted>>
history == <<issued, owed, completed, damaged, doubtful>>
vars == <<files, pc, install, tree, pending, history, damages, setbacks>>

Setback == setbacks < MaxSetbacks /\ setbacks' = setbacks + 1

EmptyDirectory == [format |-> FALSE, segments |-> <<>>, checkpoint |-> FALSE,
                   synced |-> FALSE, appended |-> <<>>, removed |-> 0]

Goto(from, to) == pc = from /\ pc' = to
-----------------------------------------------------------------------------
(* An older version at work: the envelope-only journal first, then the one *)
(* with acknowledgements.  At the end lines may be torn or damaged.        *)

OldFrame == pc = "old" /\ UNCHANGED <<retained, pc, install, tree, pending, completed, setbacks>>

Lines(m) == IF \A i \in 1 .. Len(journal) : IsMessage(journal[i])
            THEN {EncodeMessage(m), EncodeEnqueue(m)} ELSE {EncodeEnqueue(m)}

LegacyEnqueue(m) ==
    /\ OldFrame /\ damages = 0 /\ m \notin issued /\ issued' = issued \cup {m}
    /\ \E entry \in Lines(m) : journal' = Append(journal, entry)
    /\ owed' = Append(owed, m) /\ UNCHANGED <<damaged, doubtful, damages>>

LegacyAck ==
    /\ OldFrame /\ damages = 0 /\ owed # <<>>
    /\ journal' = Append(journal, EncodeAck(Head(owed)))
    /\ owed' = Tail(owed) /\ UNCHANGED <<issued, damaged, doubtful, damages>>

\* What may become of a line and still be seen: broken text, another program's value, a
\* record of another version or operation, a field that is not valid.
With(entry, key, value) ==
    IF Has(entry, key) THEN {Object([entry.fields EXCEPT ![key] = value])} ELSE {}

FlatForms(entry) ==
    {Invalid, Scalar} \cup With(entry, "journal_version", 2) \cup With(entry, "op", "other")
      \cup With(entry, "envelope", Scalar) \cup With(entry, "message_id", Null)
      \cup With(entry, "version", 2) \cup With(entry, "topic", "invalid")
      \cup With(entry, "payload", "invalid") \cup With(entry, "event_id", Null)

\* The envelope inside a record may be damaged just as one that is a line by itself.
DamagedForms(entry) ==
    FlatForms(entry) \cup
        (IF ~ Has(entry, "envelope") THEN {}
         ELSE UNION {With(entry, "envelope", e) : e \in FlatForms(entry.fields.envelope)})

\* The messages acknowledged from line i on.
AckedFrom(i) ==
    {DecodeLegacyRecord(journal[j]).id :
        j \in {k \in i .. Len(journal) : DecodeLegacyRecord(journal[k]).op = "ack"}}

Renamed == Record("enqueue", NewId)

\* A line is damaged once.  NewId stands for a fresh identifier, so one line at most gets it.
Damage(i) ==
    /\ OldFrame /\ damages < MaxDamages /\ damages' = damages + 1
    /\ DecodeLegacyRecord(journal[i]) \notin {Corrupt, Renamed}
    /\ \E form \in DamagedForms(journal[i]) :
          LET before == DecodeLegacyRecord(journal[i])
              after == DecodeLegacyRecord(form)
          IN  /\ after = Renamed => \A j \in 1 .. Len(journal) :
                                       DecodeLegacyRecord(journal[j]) # Renamed
              /\ journal' = [journal EXCEPT ![i] = form]
              /\ damaged' = damaged \cup (IF before.op = "enqueue" THEN {before.id} ELSE {})
              \* An envelope that lost its identifier gets one no acknowledgement names.
              /\ doubtful' = doubtful \cup (IF before.op = "ack" \/ after # Corrupt
                                          THEN AckedFrom(i) ELSE {})
    /\ UNCHANGED <<issued, owed>>
-----------------------------------------------------------------------------
OpenFrame == UNCHANGED <<files, history, damages>>

(* _resolve_or_create_storage.                                             *)

\* Mutant: the journal is looked at before the directory beside it.
JournalFirst == place = "none" \/ retained

MustInstall == place = "none"

Resolve ==
    /\ pc \in {"old", "closed"}
    /\ pc' = IF ~ MustInstall THEN "load" ELSE IF retained THEN "replay" ELSE "format"
    /\ OpenFrame /\ UNCHANGED <<install, tree, pending, setbacks>>

(* _read_legacy_pending, line by line.                                     *)

Replayed(queue, record) ==
    CASE record.op = "enqueue" /\ record.id \notin ToSet(queue) -> Append(queue, record.id)
      [] record.op = "ack" /\ queue # <<>> /\ record.id = Head(queue) -> Tail(queue)
      [] OTHER -> queue

ReplayLine ==
    /\ pc = "replay"
    /\ \/ /\ line < Len(journal) /\ line' = line + 1 /\ UNCHANGED pc
          /\ plan' = Replayed(plan, DecodeLegacyRecord(journal[line + 1]))
       \/ line = Len(journal) /\ line' = 0 /\ pc' = "format" /\ UNCHANGED plan
    /\ OpenFrame /\ UNCHANGED <<frames, build, tree, pending, setbacks>>

(* _install_storage_atomically and _build_storage_directory: each file of  *)
(* the temporary directory is written and synced.                          *)

WriteFormat ==
    /\ Goto("format", "segment") /\ build' = [build EXCEPT !.format = TRUE]
    /\ OpenFrame /\ UNCHANGED <<line, plan, frames, tree, pending, setbacks>>

Bytes(records) ==
    LET size[n \in 0 .. Len(records)] == IF n = 0 THEN 0 ELSE size[n - 1] + SizeOf[records[n]]
    IN  size[Len(records)]

\* Mutant: the record to be added is not counted.
IsFullLate(m) ==
    /\ frames # <<>>
    /\ Len(frames) >= SegmentMaxRecords \/ Bytes(frames) >= SegmentMaxBytes

IsFull(m) ==
    /\ frames # <<>>
    /\ Len(frames) >= SegmentMaxRecords \/ Bytes(frames) + SizeOf[m] > SegmentMaxBytes

AddFrame ==
    /\ pc = "segment" /\ plan # <<>> /\ ~ IsFull(Head(plan))
    /\ frames' = Append(frames, Head(plan)) /\ plan' = Tail(plan)
    /\ OpenFrame /\ UNCHANGED <<line, pc, build, tree, pending, setbacks>>

\* A full segment, or the last one, which may be empty.
WriteSegment ==
    /\ pc = "segment"
    /\ \/ plan # <<>> /\ IsFull(Head(plan)) /\ UNCHANGED pc
       \/ plan = <<>> /\ pc' = "checkpoint"
    /\ build' = [build EXCEPT !.segments = Append(@, frames)] /\ frames' = <<>>
    /\ OpenFrame /\ UNCHANGED <<line, plan, tree, pending, setbacks>>

WriteCheckpoint ==
    /\ Goto("checkpoint", "fsync") /\ build' = [build EXCEPT !.checkpoint = TRUE]
    /\ OpenFrame /\ UNCHANGED <<line, plan, frames, tree, pending, setbacks>>

\* Mutant: the directory's entries are not synced before it gets its name.
SyncSkipped ==
    /\ Goto("fsync", "rename") /\ UNCHANGED build
    /\ OpenFrame /\ UNCHANGED <<line, plan, frames, tree, pending, setbacks>>

SyncBuild ==
    /\ Goto("fsync", "rename") /\ build' = [build EXCEPT !.synced = TRUE]
    /\ OpenFrame /\ UNCHANGED <<line, plan, frames, tree, pending, setbacks>>

Rename ==
    /\ Goto("rename", "parent")
    /\ storage' = build /\ build' = EmptyDirectory /\ settled' = FALSE
    /\ place' = IF retained THEN "sidecar" ELSE "path"
    /\ OpenFrame /\ UNCHANGED <<line, plan, frames, rooted, pending, setbacks>>

SyncParent ==
    /\ Goto("parent", "load") /\ settled' = TRUE
    /\ OpenFrame /\ UNCHANGED <<install, place, storage, rooted, pending, setbacks>>

\* _load_segmented_storage: no format file or no segment is an error, no checkpoint brings
\* everything back.
Readable(d) == d.format /\ d.segments # <<>>

Records(d) == FlattenSeq(d.segments) \o d.appended

Contents(d) ==
    LET all == Records(d)
    IN  SubSeq(all, (IF d.checkpoint THEN d.removed ELSE 0) + 1, Len(all))

Load ==
    /\ pc = "load"
    /\ pc' = IF Readable(storage) THEN "barrier" ELSE "closed"
    /\ pending' = IF Readable(storage) THEN Contents(storage) ELSE <<>>
    /\ OpenFrame /\ UNCHANGED <<install, tree, setbacks>>

\* Mutant: a directory that was found is trusted to be on disk.
BarrierSkipped ==
    /\ Goto("barrier", "up")
    /\ OpenFrame /\ UNCHANGED <<install, tree, pending, setbacks>>

\* The directory, entries included, and all directories above it are synced before the queue
\* is in service.
Barrier ==
    /\ Goto("barrier", "up") /\ settled' = TRUE /\ rooted' = TRUE
    /\ storage' = [storage EXCEPT !.synced = TRUE]
    /\ OpenFrame /\ UNCHANGED <<install, place, pending, setbacks>>

OpenStep ==
    \/ Resolve \/ ReplayLine \/ WriteFormat \/ AddFrame \/ WriteSegment \/ WriteCheckpoint
    \/ SyncBuild \/ Rename \/ SyncParent \/ Load \/ Barrier

Closed == /\ pc' = "closed" /\ line' = 0 /\ plan' = <<>> /\ frames' = <<>>
          /\ build' = EmptyDirectory /\ pending' = <<>> /\ OpenFrame

\* The process ends.
Close == pc = "up" /\ Closed /\ UNCHANGED <<tree, setbacks>>

\* A system call fails and the constructor raises, or the process is killed: what was
\* renamed stays, the temporary directory is nobody's.
Fails ==
    /\ pc \notin {"old", "closed"} /\ Setback /\ Closed
    /\ UNCHANGED tree

\* Each entry that was not synced may be missing (of the segments, the last ones).
LoseEntries ==
    \/ storage.synced /\ UNCHANGED storage
    \/ /\ ~ storage.synced
       /\ \E f \in {FALSE, storage.format}, c \in {FALSE, storage.checkpoint},
             n \in 0 .. Len(storage.segments) :
             storage' = [storage EXCEPT !.format = f, !.checkpoint = c,
                                        !.segments = SubSeq(@, 1, n)]

PowerLoss ==
    /\ pc # "old" /\ Setback /\ Closed
    /\ \/ LoseEntries /\ UNCHANGED <<place, settled, rooted>>
       \/ /\ place # "none" /\ ~ (settled /\ rooted)
          /\ place' = "none" /\ storage' = EmptyDirectory /\ UNCHANGED <<settled, rooted>>
-----------------------------------------------------------------------------
(* In service.                                                             *)

AppendMessage(m) ==
    /\ pc = "up" /\ m \notin issued /\ issued' = issued \cup {m}
    /\ storage' = [storage EXCEPT !.appended = Append(@, m)]
    /\ pending' = Append(pending, m) /\ owed' = Append(owed, m)
    /\ UNCHANGED <<files, pc, install, place, settled, rooted, completed, damaged, doubtful,
                   damages, setbacks>>

RemoveOldest ==
    /\ pc = "up" /\ pending # <<>>
    /\ storage' = [storage EXCEPT !.removed = @ + 1, !.checkpoint = TRUE]
    /\ pending' = Tail(pending) /\ completed' = completed \cup {Head(pending)}
    /\ \/ Head(pending) \notin ToSet(owed) /\ UNCHANGED owed
       \/ \E i \in DOMAIN owed : owed[i] = Head(pending) /\ owed' = RemoveAt(owed, i)
    /\ UNCHANGED <<files, pc, install, place, settled, rooted, issued, damaged, doubtful,
                   damages, setbacks>>

\* The operator clears the old journal away once the queue has opened.
RemoveJournal ==
    /\ pc = "up" /\ retained /\ retained' = FALSE /\ journal' = <<>>
    /\ UNCHANGED <<pc, install, tree, pending, history, damages, setbacks>>
-----------------------------------------------------------------------------
Init ==
    /\ \/ retained = TRUE /\ pc = "old" /\ rooted = TRUE
       \/ retained = FALSE /\ pc = "closed" /\ rooted = FALSE
    /\ journal = <<>> /\ line = 0 /\ plan = <<>> /\ frames = <<>> /\ build = EmptyDirectory
    /\ place = "none" /\ storage = EmptyDirectory /\ settled = FALSE /\ pending = <<>>
    /\ issued = {} /\ owed = <<>> /\ completed = {} /\ damaged = {} /\ doubtful = {}
    /\ damages = 0 /\ setbacks = 0

Next ==
    \/ \E m \in Ids : LegacyEnqueue(m) \/ AppendMessage(m)
    \/ LegacyAck \/ \E i \in 1 .. Len(journal) : Damage(i)
    \/ OpenStep \/ Close \/ Fails \/ PowerLoss
    \/ RemoveOldest \/ RemoveJournal

Spec == Init /\ [][Next]_vars

\* The application opens its queue until that succeeds; system calls do not fail for ever.
FairSpec == Spec /\ WF_vars(OpenStep)
-----------------------------------------------------------------------------
Messages == Ids \cup {NewId}

Directories ==
    {d \in [format : BOOLEAN, segments : Seq(Seq(Messages)), checkpoint : BOOLEAN,
            synced : BOOLEAN, appended : Seq(Ids), removed : Nat] :
        d.removed <= Len(Records(d))}

\* Types, and the segments of an installed directory keep to their limits: only a message
\* that is too large by itself exceeds them, and it stands alone.
TypeOK ==
    /\ retained \in BOOLEAN /\ settled \in BOOLEAN /\ rooted \in BOOLEAN
    /\ pc \in {"old", "closed", "replay", "format", "segment", "checkpoint", "fsync", "rename",
              "parent", "load", "barrier", "up"}
    /\ place \in {"none", "path", "sidecar"}
    /\ line \in Nat /\ plan \in Seq(Messages) /\ frames \in Seq(Messages)
    /\ build \in Directories /\ storage \in Directories
    /\ pending \in Seq(Messages) /\ owed \in Seq(Ids)
    /\ issued \subseteq Ids /\ completed \subseteq Messages
    /\ damaged \subseteq Ids /\ doubtful \subseteq Ids
    /\ damages \in 0 .. MaxDamages /\ setbacks \in 0 .. MaxSetbacks
    /\ \A i \in DOMAIN storage.segments :
          LET segment == storage.segments[i]
          IN  /\ segment = <<>> => Len(storage.segments) = 1
              /\ Len(segment) <= SegmentMaxRecords
              /\ Len(segment) > 1 => Bytes(segment) <= SegmentMaxBytes

\* "Interrupted migration [is] retryable without silently discarding queued messages"
\* (README): whatever was interrupted before, the queue in service has every message that
\* was accepted and not completed, in its old order, but for those whose own line is damaged.
NothingDiscarded ==
    pc = "up" =>
        /\ ToSet(pending) \cap ToSet(owed) = ToSet(owed) \ damaged
        /\ \A k, l \in DOMAIN pending, x, y \in DOMAIN owed :
              k < l /\ pending[k] = owed[x] /\ pending[l] = owed[y] => x < y

\* "The sidecar is authoritative on later opens" (README): no message completed since the
\* migration comes back from the journal, and of those completed before it only the ones
\* whose acknowledgement was damaged or stands behind a damaged one.
NothingReplayed ==
    pc = "up" => /\ ToSet(pending) \cap completed = {}
                 /\ ToSet(pending) \subseteq ToSet(owed) \cup doubtful
                                              \cup (IF damaged = {} THEN {} ELSE {NewId})

\* Whatever an interrupted installation left behind, the queue opens again.
EventuallyOpen == []<>(pc = "up")
=============================================================================
