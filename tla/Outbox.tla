------------------------------- MODULE Outbox -------------------------------
(***************************************************************************)
(* The segmented persistent FIFO of src/reliomq/outbox.py, down to the     *)
(* system calls it makes on its directory.  Every public operation runs    *)
(* under one lock, so at most one call is in progress; what can interleave *)
(* with its steps is an OSError raised by a system call, the death of the  *)
(* process, and a power loss.                                              *)
(*                                                                         *)
(* A frame is one record handed to write(); frame n is the n-th of them,   *)
(* log[n] says which message it carries and into which segment it went.    *)
(* Files hold sets of frames (in a segment the order of the bytes is the   *)
(* order of the numbers), and a (segment_id, byte_offset) cursor is the    *)
(* segment together with the frames that lie before the offset.            *)
(***************************************************************************)
EXTENDS Integers, Sequences, FiniteSets, FiniteSetsExt

CONSTANTS
    Ids,                \* message identifiers
    SizeOf,             \* length of the framed record of a message
    SegmentMaxBytes,    \* segment_max_bytes less the segment header
    SegmentMaxRecords,  \* segment_max_records
    MaxSegmentId,       \* _MAX_SEGMENT_ID
    MaxFrames,          \* bound: records ever handed to write()
    MaxBatch,           \* bound: messages of one append_many
    Faults              \* the system calls that may raise OSError

IoCalls == {"fsync", "append", "rollback", "replace", "ckpt_barrier", "install",
            "rotate_barrier", "unlink", "clean_barrier", "open_barrier", "damage"}

ASSUME SizeAssumption == SizeOf \in [Ids -> Nat \ {0}]
ASSUME LimitAssumption == /\ SegmentMaxBytes \in Int
                          /\ SegmentMaxRecords \in Nat \ {0}
ASSUME SegmentIdAssumption == MaxSegmentId \in Nat \ {0}
ASSUME BoundAssumption == MaxFrames \in Nat /\ MaxBatch \in Nat
ASSUME FaultAssumption == Faults \subseteq IoCalls

SegIds == 1 .. MaxSegmentId
Frames == 1 .. MaxFrames

VARIABLES
    \* The directory.  What a power loss must keep is synced, stableDir and
    \* stableCkpt; the rest of disk, dir and ckpt is in the operating system.
    log,          \* every frame ever handed to write(): its message and segment
    disk,         \* the complete frames the files hold
    synced,       \* those that an fsync has covered
    torn,         \* segments whose file ends in an incomplete frame
    dir,          \* segments with a directory entry
    stableDir,    \* segments the last directory fsync covered
    ckpt,         \* cursor in checkpoint.json
    stableCkpt,   \* cursor that the last directory fsync covered
    \* The Outbox object.
    segs,         \* _segments
    indexed,      \* frames counted in the segments' byte_size and record_count
    pending,      \* _pending and _pending_by_id; the deque order is the frame order
    completed,    \* _volatile_completed_ids
    cursor,       \* _checkpoint_cursor
    needsRewrite, \* _checkpoint_needs_rewrite
    dirty,        \* _data_sync_pending
    \* The call in progress.
    pc, op, batch, sync,
    \* History, only for the properties.
    promised,     \* frames a successful call reported as durable
    released,     \* frames the owner has removed (their message was acknowledged)
    retired       \* removed frames whose removal was reported as durable

files   == <<log, disk, synced, torn, dir, stableDir, ckpt, stableCkpt>>
object  == <<segs, indexed, pending, completed, cursor, needsRewrite, dirty>>
control == <<pc, op, batch, sync>>
history == <<promised, released, retired>>
vars    == <<files, object, control, history>>

Cursors == [seg : 0 .. MaxSegmentId, before : SUBSET Frames]
Origin  == [seg |-> 1, before |-> {}]
Damaged == [seg |-> 0, before |-> {}]

PCs == {"closed", "refused", "open_sync", "open_barrier", "idle", "sync",
        "ckpt_sync", "persist", "ckpt_barrier", "clean", "clean_barrier",
        "append", "written", "rotate_sync", "install", "rotate_barrier"}
Ops == {"none", "sync", "append", "checkpoint", "remove"}
-----------------------------------------------------------------------------
SegOf(n)    == log[n].seg
In(S, s)    == {n \in S : SegOf(n) = s}
IdsOf(S)    == {log[n].id : n \in S}
Bytes(S)    == MapThenSumSet(LAMBDA n : SizeOf[log[n].id], S)
Active      == Max(segs)
Ready       == pc \notin {"closed", "refused", "open_sync", "open_barrier"}
BatchIds    == {batch[i] : i \in DOMAIN batch}

\* Bytes written to the active segment that _pending does not list yet.
Inflight == IF pc = "written" THEN In(disk, Active) \ indexed ELSE {}

\* In every segment, keep is a prefix of S.
IsPrefixOf(keep, S) ==
    /\ keep \subseteq S
    /\ \A m \in S, n \in keep : SegOf(m) = SegOf(n) /\ m < n => m \in keep

\* The frames at or after a cursor.
Past(c) == {n \in DOMAIN log : \/ SegOf(n) > c.seg
                               \/ SegOf(n) = c.seg /\ n \notin c.before}

\* Mutant: the newest entry is popped instead of the oldest.
BehindPopsNewest(S) == {n \in S : \E m \in S : m > n}

\* Everything but the head of a FIFO of frames.
Behind(S) == {n \in S : \E m \in S : m < n}

\* The cursor in front of the frames that are to stay: the start of the first
\* of them or, when none stays, the end of the active segment.
CursorAt(rest) ==
    IF rest = {}
    THEN [seg |-> Active, before |-> In(indexed, Active)]
    ELSE LET head == Min(rest)
         IN  [seg |-> SegOf(head),
              before |-> {n \in In(indexed, SegOf(head)) : n < head}]

\* What a checkpoint of the call in progress leaves in the FIFO, and its cursor.
Remaining == IF op = "remove" THEN Behind(pending) ELSE pending
Target    == CursorAt(Remaining)

WouldRotate(id) ==
    LET inActive == In(indexed, Active)
    IN  /\ inActive # {}
        /\ \/ Cardinality(inActive) >= SegmentMaxRecords
           \/ Bytes(inActive) + SizeOf[id] > SegmentMaxBytes

\* The first k messages of the batch fit behind what the active segment holds.
Fits(k) ==
    LET inActive == In(indexed, Active)
    IN  /\ Cardinality(inActive) + k <= SegmentMaxRecords
        /\ Bytes(inActive) +
             MapThenSumSet(LAMBDA i : SizeOf[batch[i]], 1 .. k) <= SegmentMaxBytes

\* The next chunk is the longest prefix of the batch that fits, and one message
\* where not even one does (a segment of its own for an oversized message).
IsChunk(k) == /\ k = 1 \/ Fits(k)
              /\ \A j \in (k + 1) .. Len(batch) : ~ Fits(j)

\* fsync of the storage directory.
DirBarrier == stableDir' = dir /\ stableCkpt' = ckpt

Return == /\ pc' = "idle" /\ op' = "none"
          /\ batch' = <<>> /\ sync' = FALSE

Call(o, at) == /\ pc = "idle" /\ pc' = at /\ op' = o
               /\ UNCHANGED <<files, object, promised, retired>>

\* The object is gone with its process, or its constructor has raised.
Gone == /\ segs' = {} /\ indexed' = {} /\ pending' = {} /\ completed' = {}
        /\ cursor' = Origin /\ needsRewrite' = FALSE /\ dirty' = FALSE
        /\ op' = "none" /\ batch' = <<>> /\ sync' = FALSE
-----------------------------------------------------------------------------
(* Public operations: the call, up to its first system call.               *)

\* Mutant: a completed identifier is reused without a checkpoint.
ReusesUnchecked(new) == FALSE

\* A message of the batch was removed since the last checkpoint.
ReusesCompleted(new) == {new[i] : i \in DOMAIN new} \cap completed # {}

\* append and append_many.  new is what the deduplication leaves of the
\* arguments (unique_new): distinct messages, none of them pending.
AppendMany(new, s) ==
    /\ Call("append", IF ReusesCompleted(new) THEN "ckpt_sync" ELSE "append")
    /\ {new[i] : i \in DOMAIN new} \cap IdsOf(pending) = {}
    /\ Len(log) + Len(new) <= MaxFrames
    /\ batch' = new /\ sync' = s
    /\ UNCHANGED released

\* sync, and append_many(sync=True) when nothing of the batch is new.
Sync ==
    /\ Call("sync", "sync")
    /\ UNCHANGED <<batch, sync, released>>

\* checkpoint and compact.
Checkpoint ==
    /\ Call("checkpoint", "ckpt_sync")
    /\ UNCHANGED <<batch, sync, released>>

\* remove_oldest(sync=True) of the head.
RemoveOldest ==
    /\ pending # {}
    /\ Call("remove", "ckpt_sync")
    /\ released' = released \cup {Min(pending)}
    /\ UNCHANGED <<batch, sync>>

\* remove_oldest(sync=False) of the head makes no system call.
RemoveOldestVolatile ==
    /\ pc = "idle" /\ pending # {}
    /\ pending' = Behind(pending)
    /\ completed' = completed \cup {log[Min(pending)].id}
    /\ released' = released \cup {Min(pending)}
    /\ UNCHANGED <<files, segs, indexed, cursor, needsRewrite, dirty, control,
                   promised, retired>>
-----------------------------------------------------------------------------
(* Data sync, checkpoint and cleanup.                                      *)

SyncDataLocked == /\ synced' = IF dirty THEN synced \cup In(disk, Active) ELSE synced
                  /\ dirty' = FALSE
                  /\ UNCHANGED <<log, disk, torn, dir, stableDir, ckpt, stableCkpt,
                                 segs, indexed, pending, completed, cursor,
                                 needsRewrite, released, retired>>

\* The whole of sync().
SyncReturns ==
    /\ pc = "sync" /\ SyncDataLocked /\ Return
    /\ promised' = promised \cup pending

\* _sync_data_locked as the first step of a checkpoint, a rotation, an open.
AfterSync == [ckpt_sync |-> "persist", rotate_sync |-> "install",
              open_sync |-> "open_barrier"]

SyncData ==
    /\ pc \in DOMAIN AfterSync /\ SyncDataLocked
    /\ pc' = AfterSync[pc]
    /\ UNCHANGED <<op, batch, sync, promised>>

\* The checkpoint is safe: the FIFO and the cursor may advance.
Settle ==
    /\ pc' = "clean"
    /\ cursor' = Target /\ pending' = Remaining /\ completed' = {}
    /\ retired' = retired \cup (released \ Remaining)
    /\ UNCHANGED <<log, disk, synced, torn, dir, ckpt, segs, indexed, dirty,
                   op, batch, sync, promised, released>>

\* Mutant: a cursor that moves inside its segment is not written.
MustPersistSegment == op = "remove" \/ Target.seg # cursor.seg \/ needsRewrite

\* checkpoint() skips the file when it already holds the cursor.
MustPersist == op = "remove" \/ Target # cursor \/ needsRewrite

SkipCheckpoint ==
    /\ pc = "persist" /\ ~ MustPersist /\ Settle
    /\ UNCHANGED <<stableDir, stableCkpt, needsRewrite>>

\* _persist_checkpoint_locked up to os.replace ...
ReplaceCheckpoint ==
    /\ pc = "persist" /\ MustPersist
    /\ ckpt' = Target /\ pc' = "ckpt_barrier"
    /\ UNCHANGED <<log, disk, synced, torn, dir, stableDir, stableCkpt, object,
                   op, batch, sync, history>>

\* ... and its directory fsync.
CheckpointBarrier ==
    /\ pc = "ckpt_barrier" /\ DirBarrier /\ Settle
    /\ needsRewrite' = FALSE

\* append_many goes on once it may reuse an identifier ...
ReuseAllowed ==
    /\ op = "append" /\ pc' = "append"
    /\ UNCHANGED <<op, batch, sync, promised>>

\* ... every other call that checkpointed is over.
CheckpointReturns ==
    /\ op # "append" /\ Return
    /\ promised' = IF op = "checkpoint" THEN promised \cup pending ELSE promised

Finish == ReuseAllowed \/ CheckpointReturns

\* Mutant: the segment that the cursor points into is deleted as well.
RemovableThroughCursor == {s \in segs : s <= cursor.seg /\ s < Active}

Removable == {s \in segs : s < cursor.seg /\ s < Active}

\* _cleanup_completed_segments_locked: any unlink may fail and is skipped.
Cleanup ==
    /\ pc = "clean"
    /\ \E unlinked \in SUBSET Removable :
          /\ "unlink" \in Faults \/ unlinked = Removable
          /\ dir' = dir \ unlinked /\ segs' = segs \ unlinked
          /\ IF unlinked = {}
             THEN Finish
             ELSE pc' = "clean_barrier" /\ UNCHANGED <<op, batch, sync, promised>>
    /\ UNCHANGED <<log, disk, synced, torn, stableDir, ckpt, stableCkpt, indexed,
                   pending, completed, cursor, needsRewrite, dirty, released, retired>>

\* The directory fsync after a cleanup; its failure is only logged.
CleanupBarrier ==
    /\ pc = "clean_barrier"
    /\ \/ DirBarrier
       \/ "clean_barrier" \in Faults /\ UNCHANGED <<stableDir, stableCkpt>>
    /\ Finish
    /\ UNCHANGED <<log, disk, synced, torn, dir, ckpt, object, released, retired>>
-----------------------------------------------------------------------------
(* The loop of _append_many_locked.                                        *)

StartRotation ==
    /\ pc = "append" /\ WouldRotate(batch[1])
    /\ pc' = "rotate_sync"
    /\ UNCHANGED <<files, object, op, batch, sync, history>>

\* The file was not left by this object as its index says.
SizeMismatch == In(disk, Active) # In(indexed, Active) \/ Active \in torn

RefuseWrite ==
    /\ pc = "append" /\ ~ WouldRotate(batch[1]) /\ SizeMismatch
    /\ Return
    /\ UNCHANGED <<files, object, history>>

\* write() and flush() of one chunk.
WriteChunk ==
    /\ pc = "append" /\ ~ WouldRotate(batch[1]) /\ ~ SizeMismatch
    /\ \E k \in 1 .. Len(batch) :
          /\ IsChunk(k)
          /\ log' = log \o [i \in 1 .. k |-> [id |-> batch[i], seg |-> Active]]
          /\ disk' = disk \cup ((Len(log) + 1) .. (Len(log) + k))
          /\ batch' = SubSeq(batch, k + 1, Len(batch))
    /\ pc' = "written"
    /\ UNCHANGED <<synced, torn, dir, stableDir, ckpt, stableCkpt, object, op, sync,
                   history>>

\* A chunk is fsynced when the caller asks for it or when more chunks follow,
\* and indexed; after the last one the call returns.
ChunkSync == sync \/ batch # <<>>

IndexChunk ==
    /\ pc = "written"
    /\ synced' = IF ChunkSync THEN synced \cup In(disk, Active) ELSE synced
    /\ indexed' = indexed \cup Inflight
    /\ pending' = pending \cup Inflight
    /\ dirty' = ~ ChunkSync
    /\ \/ /\ batch # <<>> /\ pc' = "rotate_sync"
          /\ UNCHANGED <<op, batch, sync, promised>>
       \/ /\ batch = <<>> /\ Return
          /\ promised' = IF sync THEN promised \cup pending' ELSE promised
    /\ UNCHANGED <<log, disk, torn, dir, stableDir, ckpt, stableCkpt, segs,
                   completed, cursor, needsRewrite, released, retired>>

\* The write or its fsync raises: the file is truncated to its old length,
\* unless that fails too.
AppendFails ==
    /\ pc = "written" /\ "append" \in Faults
    /\ \/ disk' = disk \ Inflight /\ UNCHANGED torn
       \/ /\ "rollback" \in Faults
          /\ \E keep \in SUBSET Inflight, cut \in BOOLEAN :
                /\ IsPrefixOf(keep, Inflight)
                /\ disk' = (disk \ Inflight) \cup keep
                /\ cut => keep # Inflight
                /\ torn' = IF cut THEN torn \cup {Active} ELSE torn
    /\ Return
    /\ UNCHANGED <<log, synced, dir, stableDir, ckpt, stableCkpt, object, history>>

\* Mutant: the end of the identifier space is not checked.
NextSegmentUnbounded == Active + 1 \notin dir

NextSegmentFree == Active + 1 \in SegIds /\ Active + 1 \notin dir

\* _rotate_locked up to os.replace of the new segment ...
InstallSegment ==
    /\ pc = "install" /\ NextSegmentFree
    /\ dir' = dir \cup {Active + 1} /\ pc' = "rotate_barrier"
    /\ UNCHANGED <<log, disk, synced, torn, stableDir, ckpt, stableCkpt, object,
                   op, batch, sync, history>>

\* Mutant: a refused rotation is tried again instead of raising.
RotationRetried ==
    /\ pc = "install" /\ ~ NextSegmentFree
    /\ pc' = "append"
    /\ UNCHANGED <<files, object, op, batch, sync, history>>

RotationRefused ==
    /\ pc = "install" /\ ~ NextSegmentFree
    /\ Return
    /\ UNCHANGED <<files, object, history>>

\* Mutant: the new segment is not put in use.
RegisterNothing ==
    /\ pc = "rotate_barrier" /\ DirBarrier /\ pc' = "append"
    /\ UNCHANGED <<log, disk, synced, torn, dir, ckpt, object, op, batch, sync, history>>

\* ... and its directory fsync, after which the segment is in use.
RegisterSegment ==
    /\ pc = "rotate_barrier" /\ DirBarrier
    /\ segs' = segs \cup {Active + 1} /\ pc' = "append"
    /\ UNCHANGED <<log, disk, synced, torn, dir, ckpt, indexed, pending, completed,
                   cursor, needsRewrite, dirty, op, batch, sync, history>>
-----------------------------------------------------------------------------
(* Failures.                                                               *)

\* The system call a step is about to make raises OSError; the public operation
\* raises OutboxError and leaves behind what its earlier steps did.
IoCall == [sync |-> "fsync", ckpt_sync |-> "fsync", rotate_sync |-> "fsync",
           persist |-> "replace", ckpt_barrier |-> "ckpt_barrier",
           install |-> "install", rotate_barrier |-> "rotate_barrier"]

CallRaises ==
    /\ pc \in DOMAIN IoCall /\ IoCall[pc] \in Faults
    /\ IoCall[pc] = "fsync" => dirty
    /\ pc = "persist" => MustPersist
    /\ Return
    /\ UNCHANGED <<files, object, history>>

OpenRaises ==
    /\ \/ pc = "open_sync" /\ dirty /\ "fsync" \in Faults
       \/ pc = "open_barrier" /\ "open_barrier" \in Faults
    /\ pc' = "closed" /\ Gone
    /\ UNCHANGED <<files, history>>

\* The process ends, in a call or between two.  What it wrote survives; of the
\* chunk it was writing, any prefix.
Kill ==
    /\ pc \notin {"closed", "refused"}
    /\ \E keep \in SUBSET Inflight, cut \in BOOLEAN :
          /\ IsPrefixOf(keep, Inflight)
          /\ cut => keep # Inflight
          /\ disk' = (disk \ Inflight) \cup keep
          /\ torn' = IF cut THEN torn \cup {Active} ELSE torn
    /\ pc' = "closed" /\ Gone
    /\ UNCHANGED <<log, synced, dir, stableDir, ckpt, stableCkpt, history>>

\* The machine loses power.  A file keeps what was fsynced and some prefix of
\* the rest, perhaps cut inside a frame; each change of the directory since its
\* last fsync is kept or undone.  Until then a new storage directory (stableDir
\* is empty) has either been renamed into place or not.
PowerLoss ==
    /\ pc # "refused"
    /\ \E keep \in SUBSET (disk \ synced) :
          /\ IsPrefixOf(synced \cup keep, disk)
          /\ disk' = synced \cup keep
          /\ synced' = synced \cup keep
          /\ \E cut \in SUBSET {SegOf(n) : n \in disk \ (synced \cup keep)} :
                torn' = torn \cup cut
    /\ dir' \in SUBSET (dir \cup stableDir)
    /\ dir \cap stableDir \subseteq dir'
    /\ stableDir = {} => dir' \in {{}, dir}
    /\ stableDir' = dir'
    /\ ckpt' \in {ckpt, stableCkpt}
    /\ stableCkpt' = ckpt'
    /\ pc' = "closed" /\ Gone
    /\ UNCHANGED <<log, history>>

\* checkpoint.json is lost or unreadable while no process owns the queue.
DamageCheckpoint ==
    /\ pc = "closed" /\ "damage" \in Faults /\ dir # {}
    /\ ckpt' = Damaged /\ stableCkpt' = Damaged
    /\ retired' = {}
    /\ UNCHANGED <<log, disk, synced, torn, dir, stableDir, object, control,
                   promised, released>>
-----------------------------------------------------------------------------
(* Opening.                                                                *)

\* _resolve_or_create_storage of a new path: the directory, with one empty
\* segment and a checkpoint in front of it, is built aside and renamed.
CreateStorage ==
    /\ pc = "closed" /\ dir = {}
    /\ dir' = {1} /\ ckpt' = Origin /\ stableCkpt' = Origin
    /\ UNCHANGED <<log, disk, synced, torn, stableDir, object, control, history>>

\* The checkpoint names a record boundary of a surviving segment.
IsBoundary(c) == c.seg \in dir /\ IsPrefixOf(c.before, In(disk, c.seg))

\* Where replay starts: at the checkpoint, or at the earliest surviving record.
ReplayFrom == IF IsBoundary(ckpt) THEN ckpt ELSE [seg |-> Min(dir), before |-> {}]

\* The records that _scan_segment finds, segment by segment, and those of them that replay.
Scanned == {n \in disk : SegOf(n) \in dir}

Replayed == Scanned \cap Past(ReplayFrom)

\* Only the active segment may end in an incomplete frame.
TornClosed == \E s \in torn \cap dir : s # Max(dir)

\* That tail is cut off, which syncs the records in front of it.
RepairTail ==
    /\ torn' = IF TornClosed THEN torn ELSE torn \ {Max(dir)}
    /\ synced' = IF Max(dir) \in torn /\ ~ TornClosed
                 THEN synced \cup In(disk, Max(dir)) ELSE synced

\* Reasons for which _load_segmented_storage raises.
Unreadable ==
    \/ TornClosed
    \/ \E s \in ReplayFrom.seg .. Max(dir) : s \notin dir
    \/ \E m, n \in Replayed : m # n /\ log[m].id = log[n].id

\* Mutant: recovered records count as synced.
RecoveredClean == FALSE

\* A restart may recover records that never left the cache of the system.
RecoveredDirty == In(disk, Max(dir)) # {}

\* _load_segmented_storage: scan, repair the torn tail, choose the head, index.
Load ==
    /\ pc = "closed" /\ dir # {} /\ RepairTail
    /\ \/ /\ Unreadable
          /\ pc' = "refused"
          /\ UNCHANGED object
       \/ /\ ~ Unreadable
          /\ pc' = "open_sync"
          /\ segs' = dir
          /\ indexed' = Scanned
          /\ pending' = Replayed
          /\ cursor' = ReplayFrom
          /\ needsRewrite' = ~ IsBoundary(ckpt)
          /\ completed' = {}
          /\ dirty' = RecoveredDirty
    /\ UNCHANGED <<log, disk, dir, stableDir, ckpt, stableCkpt, op, batch, sync, history>>

\* The directory barrier of __init__, after which the queue is in service.
OpenBarrier ==
    /\ pc = "open_barrier" /\ DirBarrier
    /\ pc' = "idle"
    /\ promised' = promised \cup pending
    /\ released' = released \ pending
    /\ UNCHANGED <<log, disk, synced, torn, dir, ckpt, object, op, batch, sync, retired>>
-----------------------------------------------------------------------------
Init ==
    /\ log = <<>> /\ disk = {} /\ synced = {} /\ torn = {}
    /\ dir = {} /\ stableDir = {} /\ ckpt = Origin /\ stableCkpt = Origin
    /\ segs = {} /\ indexed = {} /\ pending = {} /\ completed = {}
    /\ cursor = Origin /\ needsRewrite = FALSE /\ dirty = FALSE
    /\ pc = "closed" /\ op = "none" /\ batch = <<>> /\ sync = FALSE
    /\ promised = {} /\ released = {} /\ retired = {}

\* Distinct, non-empty batches of at most MaxBatch messages.
Batches == {b \in UNION {[1 .. k -> Ids] : k \in 1 .. MaxBatch} :
               \A i, j \in DOMAIN b : b[i] = b[j] => i = j}

\* A step of the call in progress.
Step ==
    \/ SyncReturns \/ SyncData \/ SkipCheckpoint \/ ReplaceCheckpoint
    \/ CheckpointBarrier \/ Cleanup \/ CleanupBarrier
    \/ StartRotation \/ RefuseWrite \/ WriteChunk \/ IndexChunk \/ AppendFails
    \/ InstallSegment \/ RotationRefused \/ RegisterSegment
    \/ CallRaises \/ OpenRaises \/ OpenBarrier

Next ==
    \/ \E b \in Batches, s \in BOOLEAN : AppendMany(b, s)
    \/ Sync \/ Checkpoint \/ RemoveOldest \/ RemoveOldestVolatile
    \/ Step
    \/ Kill \/ PowerLoss \/ DamageCheckpoint \/ CreateStorage \/ Load

Spec == Init /\ [][Next]_vars
FairSpec == Spec /\ WF_vars(Step)
-----------------------------------------------------------------------------
(* Properties.                                                             *)

\* The ranges of the variables.
TypeOK ==
    /\ log \in Seq([id : Ids, seg : SegIds]) /\ Len(log) <= MaxFrames
    /\ disk \subseteq DOMAIN log /\ synced \subseteq DOMAIN log
    /\ indexed \subseteq DOMAIN log /\ pending \subseteq DOMAIN log
    /\ torn \subseteq SegIds /\ dir \subseteq SegIds /\ stableDir \subseteq SegIds
    /\ segs \subseteq SegIds
    /\ ckpt \in Cursors /\ stableCkpt \in Cursors /\ cursor \in Cursors
    /\ completed \subseteq Ids
    /\ needsRewrite \in BOOLEAN /\ dirty \in BOOLEAN /\ sync \in BOOLEAN
    /\ pc \in PCs /\ op \in Ops
    /\ batch \in Seq(Ids) /\ Len(log) + Len(batch) <= MaxFrames
    /\ promised \subseteq DOMAIN log /\ released \subseteq DOMAIN log
    /\ retired \subseteq DOMAIN log

\* A message that a call reported durable (append with sync, sync, checkpoint, or
\* a completed open that listed it) and that the owner has not removed is in the
\* queue whenever the queue is in service, whatever crashes came between.
NoLoss == Ready => promised \ released \subseteq pending

\* A removal that remove_oldest(sync=True) or checkpoint() reported is final: no
\* restart brings the message back.
NoResurrection == Ready => retired \cap pending = {}

\* No sequence of calls, failed system calls and crashes leaves a directory that
\* _load_segmented_storage refuses to open.
Reopenable == pc # "refused"

\* Every entry of the index can be read: its segment is there and holds it.
Readable == Ready => \A n \in pending : n \in disk /\ SegOf(n) \in dir

\* Only the highest numbered segment is appended to; older ones are immutable.
ClosedSegmentsImmutable ==
    [][\A s \in dir : s < Max(dir) => {n \in disk' : log'[n].seg = s} \subseteq disk]_vars

\* The files implement the durable FIFO that the rest of the system relies on.
Fifo == INSTANCE DurableFifo WITH
            up <- Ready, issued <- Len(log), queue <- IF Ready THEN pending ELSE {}
ImplementsFifo == Fifo!Spec

\* Every call returns or raises, a batch that spans many segments included.
CallReturns == op # "none" ~> op = "none"
=============================================================================
