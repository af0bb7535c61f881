---------------------------- MODULE GroupPolicy ----------------------------
(***************************************************************************)
(* GroupMode of src/reliomq/persistence.py: appends and completions go to  *)
(* the Outbox at once, fsyncs and cursor checkpoints are batched by count, *)
(* bytes, interval and segment boundaries.  Every operation holds the      *)
(* policy's lock, so an operation is one step; it is built from the steps  *)
(* of its Outbox calls, each of which may fail.                            *)
(***************************************************************************)
EXTENDS Integers, Sequences, FiniteSets, FiniteSetsExt

CONSTANTS
    Sizes,            \* sizes of framed records
    SyncMessages, SyncBytes, AckMessages,  \* the count and byte triggers, 0 for None
    DataInterval, AckInterval,             \* whether the interval triggers are enabled
    SegmentRecords, SegmentBytes,          \* records and bytes a segment may hold
    MaxRecords,       \* bound: records appended
    MaxFaults         \* bound: failed calls and crashes

\* GroupMode accepts any choice of triggers that has one for data and one for ACKs.
ValidGroupMode ==
    /\ SyncMessages \in Nat /\ SyncBytes \in Nat /\ DataInterval \in BOOLEAN
    /\ AckMessages \in Nat /\ AckInterval \in BOOLEAN
    /\ SyncMessages # 0 \/ SyncBytes # 0 \/ DataInterval
    /\ AckMessages # 0 \/ AckInterval

ASSUME TriggerAssumption ==
    /\ ValidGroupMode
    /\ SegmentRecords \in Nat \ {0} /\ SegmentBytes \in Nat /\ Sizes \subseteq 1 .. SegmentBytes
    /\ MaxRecords \in Nat /\ MaxFaults \in Nat

VARIABLES
    policy,  \* the policy's counters, timers and clock comparisons
    disk,    \* the Outbox: its records and how far they are synced, completed, checkpointed
    faults,
    last     \* history: how the last flush() ended, "none" when work followed a clean one

vars == <<policy, disk, faults, last>>

(* policy: unsynced, bytes, acked   the counters                           *)
(*         dataTimer, ackTimer      a timer is armed; callbacks of an      *)
(*                                  older generation do nothing            *)
(*         dataLate, ackLate        the interval since the last sync or    *)
(*                                  checkpoint has passed                  *)
(*         dataFailed, ackFailed    history: the last attempt failed, or   *)
(*                                  the append that closed a segment did   *)
(* disk:   log                      where the records end, in order: the   *)
(*                                  bytes up to and with each of them      *)
(*         synced, removed, ckpt    records covered by an fsync, completed *)
(*                                  in RAM, completed on disk              *)
(*         starts                   first records of the segments' files   *)
(*         faults                   failures within the operation          *)
Fresh == [unsynced |-> 0, bytes |-> 0, acked |-> 0, dataTimer |-> FALSE, ackTimer |-> FALSE,
          dataLate |-> FALSE, ackLate |-> FALSE, dataFailed |-> FALSE, ackFailed |-> FALSE]
-----------------------------------------------------------------------------
(* The Outbox as the policy uses it.                                       *)

Active(d) == Max(d.starts)

\* The byte at which the n-th record ends.
End(d, n) == IF n = 0 THEN 0 ELSE d.log[n]

\* The segment of a cursor; past the last record it is the active one.
SegmentOf(d, cursor) == IF cursor = Len(d.log) THEN Active(d)
                        ELSE Max({s \in d.starts \cup {0} : s <= cursor})

\* completed_closed_segment_pending.
ClosedSegmentPending(d) == \E s \in d.starts : s < SegmentOf(d, d.removed)

\* _cleanup_completed_segments_locked, which leaves a file it cannot unlink.
Cleaned(d) ==
    LET done == {s \in d.starts : s < SegmentOf(d, d.ckpt)}
    IN  {[d EXCEPT !.starts = @ \ done]}
            \cup (IF done = {} THEN {} ELSE {[d EXCEPT !.faults = @ + 1]})

\* Each result of sync() and of checkpoint(): a state and whether the call raised.
OutboxSync(d) ==
    {[disk |-> [d EXCEPT !.synced = Len(d.log)], raised |-> FALSE]}
        \cup IF d.synced = Len(d.log) THEN {}
             ELSE {[disk |-> [d EXCEPT !.faults = @ + 1], raised |-> TRUE]}

\* Mutant: the cursor is stored without syncing the data before it.
CheckpointUnsynced(d) ==
    {[disk |-> c, raised |-> FALSE] : c \in Cleaned([d EXCEPT !.ckpt = d.removed])}

OutboxCheckpoint(d) ==
    UNION {IF r.raised THEN {r}
           ELSE {[disk |-> c, raised |-> FALSE] : c \in Cleaned([r.disk EXCEPT !.ckpt = d.removed])}
                    \cup (IF d.ckpt = d.removed THEN {}
                          ELSE {[disk |-> [r.disk EXCEPT !.faults = @ + 1], raised |-> TRUE]})
           : r \in OutboxSync(d)}

\* append(sync=False) of one record.  An ID whose completion is not checkpointed yet
\* is checkpointed first (reuse); a segment without room is rotated, which syncs it.
Full(d, size) ==
    \/ Len(d.log) - Active(d) >= SegmentRecords
    \/ Len(d.log) > Active(d) /\ End(d, Len(d.log)) - End(d, Active(d)) + size > SegmentBytes

Rotate(d) ==
    {[disk |-> IF s.raised THEN s.disk ELSE [s.disk EXCEPT !.starts = @ \cup {Len(d.log)}],
      raised |-> s.raised] : s \in OutboxSync(d)}
        \* The new file cannot be created.
        \cup {[disk |-> [d EXCEPT !.synced = Len(d.log), !.faults = @ + 1], raised |-> TRUE]}

Then(results, Op(_)) == UNION {IF r.raised THEN {r} ELSE Op(r.disk) : r \in results}

Write(d, size) == {[disk |-> [d EXCEPT !.log = Append(@, End(d, Len(@)) + size)], raised |-> FALSE],
                   [disk |-> [d EXCEPT !.faults = @ + 1], raised |-> TRUE]}

OutboxAppend(d, size, reuse) ==
    LET Prepared == IF reuse THEN OutboxCheckpoint(d) ELSE {[disk |-> d, raised |-> FALSE]}
        MakeRoom(e) == IF Full(e, size) THEN Rotate(e) ELSE {[disk |-> e, raised |-> FALSE]}
        WriteIt(e) == Write(e, size)
    IN  Then(Then(Prepared, MakeRoom), WriteIt)
-----------------------------------------------------------------------------
(* Timers, syncs and checkpoints of the policy.                            *)

ArmData(p) == [p EXCEPT !.dataTimer = @ \/ (DataInterval /\ p.unsynced > 0)]
ArmAck(p)  == [p EXCEPT !.ackTimer = @ \/ (AckInterval /\ p.acked > 0)]

\* The counters after a data boundary and after an ACK boundary.
DataClean(p) == [p EXCEPT !.unsynced = 0, !.bytes = 0, !.dataTimer = FALSE, !.dataLate = FALSE,
                          !.dataFailed = FALSE]
AckClean(p) == [p EXCEPT !.acked = 0, !.ackTimer = FALSE, !.ackLate = FALSE, !.ackFailed = FALSE]

\* _sync_group_data_locked with its errors suppressed: a failure arms the retry.
SyncGroup(s) ==
    LET p == [s.policy EXCEPT !.dataTimer = FALSE]
    IN  IF p.unsynced = 0 THEN {[policy |-> p, disk |-> s.disk, raised |-> FALSE]}
        ELSE {[policy |-> IF r.raised THEN ArmData([p EXCEPT !.dataFailed = TRUE])
                          ELSE DataClean(p),
               disk |-> r.disk, raised |-> r.raised] : r \in OutboxSync(s.disk)}

\* Mutant: the failed checkpoint is left to the next completion.
CheckpointGroupNoRetry(s) ==
    LET p == [s.policy EXCEPT !.ackTimer = FALSE]
    IN  IF p.acked = 0 THEN {[policy |-> p, disk |-> s.disk, raised |-> FALSE]}
        ELSE {[policy |-> IF r.raised THEN [p EXCEPT !.ackFailed = TRUE]
                          ELSE DataClean(AckClean(p)),
               disk |-> r.disk, raised |-> r.raised] : r \in OutboxCheckpoint(s.disk)}

\* _checkpoint_group_locked: a checkpoint is a data boundary too.
CheckpointGroup(s) ==
    LET p == [s.policy EXCEPT !.ackTimer = FALSE]
    IN  IF p.acked = 0 THEN {[policy |-> p, disk |-> s.disk, raised |-> FALSE]}
        ELSE {[policy |-> IF r.raised THEN ArmAck([p EXCEPT !.ackFailed = TRUE])
                          ELSE DataClean(AckClean(p)),
               disk |-> r.disk, raised |-> r.raised] : r \in OutboxCheckpoint(s.disk)}

Reached(count, trigger) == trigger # 0 /\ count >= trigger

DataDue(p) == \/ Reached(p.unsynced, SyncMessages) \/ Reached(p.bytes, SyncBytes)
              \/ DataInterval /\ p.dataLate

AckDue(p, d) == \/ Reached(p.acked, AckMessages) \/ (AckInterval /\ p.ackLate)
                \/ ClosedSegmentPending(d)

\* Mutant: the record is counted before the boundary of its append is noticed.
CountedEarly(p, size, dataMoved, ackMoved) ==
    LET q == [p EXCEPT !.unsynced = @ + 1, !.bytes = @ + size]
        a == IF dataMoved THEN DataClean(q) ELSE q
    IN  IF ackMoved THEN AckClean(a) ELSE a

\* A rotation or a reused ID has synced what was appended before this record.
Counted(p, size, dataMoved, ackMoved) ==
    LET q == IF dataMoved THEN DataClean(p) ELSE p
        a == IF ackMoved THEN AckClean(q) ELSE q
    IN  [a EXCEPT !.unsynced = @ + 1, !.bytes = @ + size]

\* Mutant: a rotation that closes a consumed segment goes unnoticed.
AfterAppendData(p, d) ==
    LET s == [policy |-> p, disk |-> d]
    IN  IF DataDue(p) THEN SyncGroup(s) ELSE {[policy |-> ArmData(p), disk |-> d, raised |-> FALSE]}

\* What the policy does about an accepted record.
AfterAppend(p, d) ==
    LET s == [policy |-> p, disk |-> d]
    IN  UNION {IF ClosedSegmentPending(t.disk) THEN CheckpointGroup(t) ELSE {t} :
               t \in IF DataDue(p) THEN SyncGroup(s)
                     ELSE {[policy |-> ArmData(p), disk |-> d, raised |-> FALSE]}}
-----------------------------------------------------------------------------
(* The operations.                                                         *)

\* The operation ends in s.
Ends(s) ==
    /\ faults + s.disk.faults <= MaxFaults
    /\ faults' = faults + s.disk.faults
    /\ policy' = s.policy /\ disk' = [s.disk EXCEPT !.faults = 0]

\* _append_group: an error of the Outbox is raised with the counters as they were.
AppendGroup(size, reuse) ==
    /\ Len(disk.log) < MaxRecords
    /\ reuse => disk.removed > disk.ckpt
    /\ \E r \in OutboxAppend(disk, size, reuse) :
          \/ /\ r.raised
             /\ Ends([policy |-> [policy EXCEPT !.ackFailed = @ \/ r.disk.starts # disk.starts],
                      disk |-> r.disk])
          \/ /\ ~ r.raised
             /\ LET dataMoved == r.disk.synced # disk.synced
                    ackMoved == r.disk.ckpt # disk.ckpt
                IN  \E s \in AfterAppend(Counted(policy, size, dataMoved, ackMoved), r.disk) :
                        Ends(s)
    /\ last' = IF last = "clean" THEN "none" ELSE last

\* complete: the head's DeliveryAck arrived.
CompleteGroup ==
    /\ disk.removed < Len(disk.log)
    /\ LET d == [disk EXCEPT !.removed = @ + 1]
           p == [policy EXCEPT !.acked = @ + 1]
       IN  \E s \in IF AckDue(p, d) THEN CheckpointGroup([policy |-> p, disk |-> d])
                    ELSE {[policy |-> ArmAck(p), disk |-> d]} : Ends(s)
    /\ last' = IF last = "clean" THEN "none" ELSE last

DataTimer ==
    /\ policy.dataTimer
    /\ \E s \in SyncGroup([policy |-> policy, disk |-> disk]) : Ends(s)
    /\ UNCHANGED last

AckTimer ==
    /\ policy.ackTimer
    /\ \E s \in CheckpointGroup([policy |-> policy, disk |-> disk]) : Ends(s)
    /\ UNCHANGED last

\* What flush() leaves of a step that raised: no timer.
Unarmed(s) == [s EXCEPT !.policy.dataTimer = FALSE, !.policy.ackTimer = FALSE]

\* Mutant: flush() takes a data sync for all there is to do.
FlushResultsDataOnly(s) == SyncGroup(Unarmed(s))

FlushResults(s) == UNION {IF t.raised THEN {t} ELSE CheckpointGroup(t) : t \in SyncGroup(Unarmed(s))}

\* flush, called by stop(): both timers are cancelled first and stay so on an error.
Flush ==
    \E s \in FlushResults([policy |-> policy, disk |-> disk]) :
        /\ Ends(IF s.raised THEN Unarmed(s) ELSE s)
        /\ last' = IF s.raised THEN "raised" ELSE "clean"

\* The intervals pass.
DataIntervalPasses ==
    /\ ~ policy.dataLate /\ policy' = [policy EXCEPT !.dataLate = TRUE]
    /\ UNCHANGED <<disk, faults, last>>

AckIntervalPasses ==
    /\ ~ policy.ackLate /\ policy' = [policy EXCEPT !.ackLate = TRUE]
    /\ UNCHANGED <<disk, faults, last>>

\* The power fails, or the process dies and nothing is lost; the Outbox is opened again,
\* which syncs the records it finds.
Crash ==
    /\ faults < MaxFaults /\ faults' = faults + 1
    /\ \E n \in disk.synced .. Len(disk.log) :
          disk' = [disk EXCEPT !.log = SubSeq(@, 1, n), !.synced = n, !.removed = disk.ckpt]
    /\ policy' = Fresh /\ last' = "none"

Init ==
    /\ policy = Fresh /\ faults = 0 /\ last = "none"
    /\ disk = [log |-> <<>>, synced |-> 0, removed |-> 0, ckpt |-> 0, starts |-> {0}, faults |-> 0]

Next ==
    \/ \E size \in Sizes, reuse \in BOOLEAN : AppendGroup(size, reuse)
    \/ CompleteGroup \/ DataTimer \/ AckTimer \/ Flush
    \/ DataIntervalPasses \/ AckIntervalPasses \/ Crash

Spec == Init /\ [][Next]_vars

\* Timers fire.
FairSpec == Spec /\ WF_vars(DataTimer) /\ WF_vars(AckTimer)
-----------------------------------------------------------------------------
Policies == [unsynced : Nat, bytes : Nat, acked : Nat, dataTimer : BOOLEAN,
             ackTimer : BOOLEAN, dataLate : BOOLEAN, ackLate : BOOLEAN,
             dataFailed : BOOLEAN, ackFailed : BOOLEAN]

Disks == [log : Seq(Nat), synced : Nat, removed : Nat, ckpt : Nat, starts : SUBSET Nat,
          faults : Nat]

\* Records are synced and completed in order, the checkpoint is behind both; every segment
\* was opened behind synced records, and the one of the checkpoint is still there.
Sound(d) ==
    /\ d \in Disks
    /\ d.ckpt <= d.removed /\ d.removed <= Len(d.log)
    /\ d.ckpt <= d.synced /\ d.synced <= Len(d.log)
    /\ \A s \in d.starts : s <= d.synced
    /\ \E s \in d.starts : s <= d.ckpt

TypeOK ==
    /\ policy \in Policies /\ Sound(disk)
    /\ faults \in 0 .. MaxFaults /\ last \in {"none", "clean", "raised"}

BytesBetween(d, from, to) == End(d, to) - End(d, from)

\* The counters never understate what a crash can cost: the records it can lose, their
\* bytes, and the completed records it can bring back (_append_group resets them only
\* for boundaries the Outbox has really crossed).
LossCovered ==
    /\ Len(disk.log) - disk.synced <= policy.unsynced
    /\ BytesBetween(disk, disk.synced, Len(disk.log)) <= policy.bytes
    /\ disk.removed - disk.ckpt <= policy.acked

\* The windows are as the mode promises unless storage fails: between operations fewer
\* than sync_messages records and sync_bytes bytes can be lost, fewer than
\* ack_checkpoint_messages can be replayed (each where it is set), and none of a fully consumed closed segment,
\* however the segment came to be closed (README, GroupMode).
WindowBounded ==
    /\ \/ policy.dataFailed
       \/ /\ ~ Reached(Len(disk.log) - disk.synced, SyncMessages)
          /\ ~ Reached(BytesBetween(disk, disk.synced, Len(disk.log)), SyncBytes)
    /\ \/ policy.ackFailed
       \/ /\ ~ Reached(disk.removed - disk.ckpt, AckMessages)
          /\ SegmentOf(disk, disk.removed) = SegmentOf(disk, disk.ckpt)

\* A stop() that did not raise leaves nothing a crash could lose or replay.
CleanFlush == last = "clean" => disk.synced = Len(disk.log) /\ disk.ckpt = disk.removed

\* With its interval enabled every appended record is eventually synced and every
\* completion checkpointed, though syncs fail: unless a crash comes first, or a flush()
\* raised to its caller.
EventuallyStable ==
    \A n \in 1 .. MaxRecords :
        /\ Len(disk.log) = n ~> disk.synced >= n \/ Len(disk.log) < n \/ last = "raised"
        /\ disk.removed = n ~> disk.ckpt >= n \/ disk.removed < n \/ last = "raised"
=============================================================================
