---------------------------- MODULE OutboxProofs ----------------------------
(***************************************************************************)
(* Proofs that Outbox keeps its promises for every set of messages, every  *)
(* pair of segment limits and every number of appends and crashes: for all *)
(* faults, types and that what is listed can be read; as long as no failed *)
(* append stays unrepaired and no rotation is left half done, that it      *)
(* keeps what it promised, brings back nothing it retired and can always   *)
(* be opened again; and that every step of the files is a step of the      *)
(* DurableFifo or leaves it alone.                                         *)
(***************************************************************************)
EXTENDS OutboxInvariant, SequenceTheorems, WellFoundedInduction, TLAPS

-----------------------------------------------------------------------------
(* Least and greatest elements.                                            *)

LEMMA MinExists ==
    ASSUME NEW S, S \subseteq Nat, S # {}
    PROVE  Min(S) \in S /\ \A y \in S : Min(S) <= y
<1>1. PICK x \in S : \A y \in S : ~ (<<y, x>> \in OpToRel(<, Nat))
  BY NatLessThanWellFounded, WFMin
<1>2. \A y \in S : ~ (y < x)
  BY <1>1, Zenon DEF OpToRel
<1>3. \A y \in S : x <= y
  BY <1>2
<1> QED
  BY <1>3 DEF Min

LEMMA MaxExists ==
    ASSUME NEW N \in Nat, NEW S, S \subseteq 1 .. N, S # {}
    PROVE  Max(S) \in S /\ \A y \in S : y <= Max(S)
<1> DEFINE T == {N - x : x \in S}
<1>1. T \subseteq Nat /\ T # {}
  <2>1. \A x \in S : x \in Int /\ 1 <= x /\ x <= N
    OBVIOUS
  <2>2. \A x \in S : N - x \in Nat
    BY <2>1
  <2> QED
    BY <2>2
<1>2. PICK t \in T : \A u \in T : t <= u
  BY <1>1, MinExists
<1>3. PICK x \in S : t = N - x
  OBVIOUS
<1>4. \A y \in S : x >= y
  <2> TAKE y \in S
  <2>1. t <= N - y
    BY <1>2
  <2> QED
    BY <2>1, <1>3
<1>5. \A y \in S : Max(S) >= y /\ Max(S) \in S
  BY <1>4 DEF Max
<1> QED
  BY <1>5
-----------------------------------------------------------------------------
(* Type correctness, for any set of faults.                                *)

TypeInv == /\ TypeOK
           /\ Loaded => segs # {}
           /\ pc = "rotate_barrier" => Active + 1 \in SegIds

LEMMA DirExtrema ==
    ASSUME dir \subseteq SegIds, dir # {}
    PROVE  /\ Min(dir) \in dir /\ \A s \in dir : Min(dir) <= s
           /\ Max(dir) \in dir /\ \A s \in dir : s <= Max(dir)
<1>1. dir \subseteq Nat
  BY DEF SegIds
<1> QED
  BY <1>1, MinExists, MaxExists, SegmentIdAssumption DEF SegIds

\* The active segment is the highest of the object's segments.
LEMMA ActiveIsHighest ==
    ASSUME segs \subseteq SegIds, segs # {}
    PROVE  /\ Active \in segs /\ Active \in SegIds
           /\ \A s \in segs : s <= Active
<1> QED
  BY MaxExists, SegmentIdAssumption DEF Active, SegIds

Records == [id : Ids, seg : SegIds]

\* The log is a sequence of records.
LEMMA LogShape ==
    ASSUME TypeOK
    PROVE  /\ Len(log) \in Nat /\ DOMAIN log = 1 .. Len(log)
           /\ DOMAIN log \subseteq Frames /\ DOMAIN log \subseteq Nat
           /\ \A n \in DOMAIN log : /\ log[n] \in Records
                                   /\ SegOf(n) \in SegIds /\ log[n].id \in Ids
<1>1. log \in Seq(Records) /\ Len(log) <= MaxFrames
  BY DEF TypeOK, Records
<1>2. Len(log) \in Nat /\ DOMAIN log = 1 .. Len(log) /\ log \in [1 .. Len(log) -> Records]
  BY <1>1, LenProperties
<1>3. \A n \in DOMAIN log : log[n] \in Records
  BY <1>2
<1> QED
  BY <1>1, <1>2, <1>3, BoundAssumption DEF Records, Frames, SegOf

\* What a write appends to the log and takes from the batch.
LEMMA WriteShape ==
    ASSUME TypeOK, segs # {}, WriteChunk
    PROVE  \E k \in 1 .. Len(batch) :
              /\ log' \in Seq(Records) /\ Len(log') = Len(log) + k
              /\ DOMAIN log' = 1 .. (Len(log) + k)
              /\ \A n \in DOMAIN log : log'[n] = log[n]
              /\ \A n \in (Len(log) + 1) .. (Len(log) + k) :
                    log'[n] = [id |-> batch[n - Len(log)], seg |-> Active]
              /\ disk' = disk \cup ((Len(log) + 1) .. (Len(log) + k))
              /\ batch' \in Seq(Ids) /\ Len(batch') = Len(batch) - k
              /\ \A i \in 1 .. Len(batch') : batch'[i] = batch[k + i]
<1>1. PICK k \in 1 .. Len(batch) :
         /\ log' = log \o [i \in 1 .. k |-> [id |-> batch[i], seg |-> Active]]
         /\ disk' = disk \cup ((Len(log) + 1) .. (Len(log) + k))
         /\ batch' = SubSeq(batch, k + 1, Len(batch))
  BY DEF WriteChunk
<1> DEFINE new == [i \in 1 .. k |-> [id |-> batch[i], seg |-> Active]]
<1>2. /\ Len(batch) \in Nat /\ batch \in Seq(Ids)
      /\ \A i \in 1 .. Len(batch) : batch[i] \in Ids
  BY LenProperties, ElementOfSeq DEF TypeOK
<1>3. Active \in SegIds
  BY ActiveIsHighest DEF TypeOK
<1>4. new \in Seq(Records) /\ Len(new) = k
  <2>1. new \in [1 .. k -> Records]
    BY <1>2, <1>3 DEF Records
  <2>2. new \in Seq(Records)
    BY <2>1, SeqDef
  <2> HIDE DEF new
  <2>3. DOMAIN new = 1 .. k /\ DOMAIN new = 1 .. Len(new) /\ Len(new) \in Nat
    BY <2>1, <2>2, LenProperties
  <2> QED
    BY <2>2, <2>3
<1>5. log \in Seq(Records) /\ Len(log) \in Nat /\ DOMAIN log = 1 .. Len(log)
  BY LogShape DEF TypeOK, Records
<1>6. /\ log' \in Seq(Records) /\ Len(log') = Len(log) + k
      /\ \A i \in 1 .. Len(log) + k :
            log'[i] = IF i <= Len(log) THEN log[i] ELSE new[i - Len(log)]
  <2> HIDE DEF new
  <2>1. log' = log \o new
    BY <1>1 DEF new
  <2> QED
    BY <2>1, <1>4, <1>5, ConcatProperties
<1>7. DOMAIN log' = 1 .. (Len(log) + k)
  BY <1>6, LenProperties
<1>8. \A n \in DOMAIN log : log'[n] = log[n]
  <2> TAKE n \in DOMAIN log
  <2>1. n \in 1 .. Len(log) + k /\ n <= Len(log)
    BY <1>5
  <2> QED
    BY <2>1, <1>6
<1>9. \A n \in (Len(log) + 1) .. (Len(log) + k) :
         log'[n] = [id |-> batch[n - Len(log)], seg |-> Active]
  <2> TAKE n \in (Len(log) + 1) .. (Len(log) + k)
  <2>1. n \in 1 .. Len(log) + k /\ ~ (n <= Len(log)) /\ n - Len(log) \in 1 .. k
    BY <1>5
  <2> QED
    BY <2>1, <1>6
<1>10. /\ batch' \in Seq(Ids) /\ Len(batch') = Len(batch) - k
       /\ \A i \in 1 .. Len(batch') : batch'[i] = batch[k + i]
  <2>1. \A i \in (k + 1) .. Len(batch) : batch[i] \in Ids
    BY <1>2
  <2>2. k + 1 \in Int /\ Len(batch) \in Int
    BY <1>2
  <2>3. /\ batch' \in Seq(Ids)
        /\ Len(batch') = IF k + 1 <= Len(batch) THEN Len(batch) - (k + 1) + 1 ELSE 0
        /\ \A i \in 1 .. Len(batch) - (k + 1) + 1 : batch'[i] = batch[k + 1 + i - 1]
    BY <1>1, <2>1, <2>2, SubSeqProperties
  <2> QED
    BY <2>3, <1>2
<1> QED
  BY <1>1, <1>6, <1>7, <1>8, <1>9, <1>10

\* The head of the queue is its oldest frame.
LEMMA OldestExists ==
    ASSUME TypeOK, NEW S, S \subseteq DOMAIN log, S # {}
    PROVE  /\ Min(S) \in S /\ Min(S) \in DOMAIN log /\ Min(S) \in Nat
           /\ \A n \in S : Min(S) <= n
<1> QED
  BY LogShape, MinExists

\* Cursors that a call computes are cursors.
LEMMA CursorAtType ==
    ASSUME TypeOK, segs # {}, NEW S, S \subseteq pending
    PROVE  CursorAt(S) \in Cursors /\ CursorAt(S).seg \in SegIds
<1>0. \A n \in DOMAIN log : n \in Frames /\ SegOf(n) \in SegIds
  BY LogShape
<1>1. CASE S = {}
  <2>1. In(indexed, Active) \subseteq Frames
    BY <1>0 DEF In, TypeOK
  <2>2. Active \in SegIds
    BY ActiveIsHighest DEF TypeOK
  <2> QED
    BY <1>1, <2>1, <2>2, SegmentIdAssumption DEF CursorAt, Cursors, SegIds
<1>2. CASE S # {}
  <2>1. S \subseteq DOMAIN log
    BY DEF TypeOK
  <2>2. Min(S) \in DOMAIN log
    BY <1>2, <2>1, OldestExists
  <2>3. SegOf(Min(S)) \in SegIds
    BY <2>2, <1>0
  <2>4. {n \in In(indexed, SegOf(Min(S))) : n < Min(S)} \subseteq Frames
    BY <1>0 DEF In, TypeOK
  <2> QED
    BY <1>2, <2>3, <2>4, SegmentIdAssumption DEF CursorAt, Cursors, SegIds
<1> QED
  BY <1>1, <1>2

LEMMA EmptyBatch == \A q : q = <<>> => q \in Seq(Ids) /\ Len(q) = 0
  BY EmptySeq, Zenon

\* One step keeps the types, whichever system calls may fail.
LEMMA TypeStep == TypeInv /\ [Next]_vars => TypeInv'
<1> SUFFICES ASSUME TypeInv, [Next]_vars PROVE TypeInv'
  OBVIOUS
<1> USE DEF TypeInv, Loaded
<1>0. TypeOK
  OBVIOUS
<1>a. segs # {} => /\ Active \in segs /\ Active \in SegIds
                   /\ \A s \in segs : s <= Active
  BY <1>0, ActiveIsHighest DEF TypeOK
<1>b. /\ Len(log) \in Nat /\ DOMAIN log = 1 .. Len(log) /\ Len(batch) \in Nat
      /\ MaxFrames \in Nat
  BY <1>0, LogShape, LenProperties, BoundAssumption DEF TypeOK
<1>c. pending # {} => Min(pending) \in pending
  BY <1>0, OldestExists DEF TypeOK
<1>d. Remaining \subseteq pending
  BY DEF Remaining, Behind
<1>e. segs # {} => Target \in Cursors
  BY <1>0, <1>d, CursorAtType DEF Target
<1>f. ASSUME Return
      PROVE  /\ pc' = "idle" /\ op' \in Ops /\ sync' \in BOOLEAN
             /\ batch' \in Seq(Ids) /\ Len(batch') = 0
  BY <1>f, EmptyBatch DEF Return, Ops
<1>1. ASSUME NEW new \in Batches, NEW s \in BOOLEAN, AppendMany(new, s) PROVE TypeInv'
  <2>1. new \in Seq(Ids)
    <3>1. PICK k \in 1 .. MaxBatch : new \in [1 .. k -> Ids]
      BY DEF Batches
    <3>2. k \in Nat
      BY BoundAssumption
    <3> QED
      BY <3>1, <3>2, SeqDef
  <2> QED
    BY <1>1, <2>1, <1>b DEF AppendMany, ReusesCompleted, Call, TypeOK, files, object, PCs, Ops, Active
<1>2. CASE Sync
  BY <1>2, <1>b DEF Sync, TypeOK, PCs, Ops, Active, Call, files, object
<1>3. CASE Checkpoint
  BY <1>3, <1>b DEF Checkpoint, TypeOK, PCs, Ops, Active, Call, files, object
<1>4. CASE RemoveOldest
  BY <1>4, <1>b, <1>c DEF RemoveOldest, TypeOK, PCs, Ops, Active, Call, files, object
<1>5. CASE RemoveOldestVolatile
  <2>1. log[Min(pending)].id \in Ids
    BY <1>0, <1>5, <1>c, LogShape DEF RemoveOldestVolatile, TypeOK
  <2> QED
    BY <2>1, <1>5, <1>b, <1>c DEF RemoveOldestVolatile, TypeOK, PCs, Ops, Active, Behind, files, control
<1>6. CASE SyncReturns
  <2>1. synced' \subseteq DOMAIN log /\ dirty' \in BOOLEAN /\ promised' \subseteq DOMAIN log
    BY <1>6 DEF SyncReturns, SyncDataLocked, In, TypeOK
  <2>2. UNCHANGED <<log, disk, torn, dir, stableDir, ckpt, stableCkpt, segs, indexed,
                    pending, completed, cursor, needsRewrite, released, retired>>
    BY <1>6 DEF SyncReturns, SyncDataLocked
  <2>3. Return /\ segs # {}
    BY <1>6 DEF SyncReturns
  <2> QED
    BY <2>1, <2>2, <2>3, <1>b, <1>f DEF TypeOK, PCs
<1>7. CASE SyncData
  <2>1. In(disk, Active) \subseteq disk
    BY DEF In
  <2>2. pc' \in {"persist", "install", "open_barrier"} /\ Loaded
    BY <1>7 DEF SyncData, AfterSync
  <2> QED
    BY <1>7, <2>1, <2>2, <1>b DEF SyncData, TypeOK, PCs, SyncDataLocked
<1>8. CASE SkipCheckpoint
  BY <1>8, <1>b, <1>d, <1>e DEF SkipCheckpoint, TypeOK, PCs, Ops, Active, Settle
<1>9. CASE ReplaceCheckpoint
  BY <1>9, <1>b, <1>e DEF ReplaceCheckpoint, TypeOK, PCs, Ops, Active, object, history
<1>10. CASE CheckpointBarrier
  BY <1>10, <1>b, <1>d, <1>e DEF CheckpointBarrier, TypeOK, PCs, Ops, Active, Settle, DirBarrier
<1>11. CASE Cleanup
  <2>1. PICK unlinked \in SUBSET Removable :
           /\ dir' = dir \ unlinked /\ segs' = segs \ unlinked
           /\ IF unlinked = {} THEN Finish
              ELSE pc' = "clean_barrier" /\ UNCHANGED <<op, batch, sync, promised>>
    BY <1>11 DEF Cleanup
  <2>2. segs # {} /\ Active \in segs /\ ~ (Active < Active)
    BY <1>11, <1>a, SegmentIdAssumption DEF Cleanup, SegIds
  <2>3. segs' # {}
    BY <2>1, <2>2 DEF Removable
  <2>4. pc' \in {"clean_barrier", "append", "idle"} /\ Len(batch') <= Len(batch)
        /\ batch' \in Seq(Ids) /\ op' \in Ops /\ sync' \in BOOLEAN
        /\ promised' \subseteq DOMAIN log /\ Len(batch') \in Nat
    BY <2>1, <1>b, <1>f DEF Finish, ReuseAllowed, CheckpointReturns, TypeOK
  <2> QED
    BY <1>11, <1>b, <2>1, <2>3, <2>4 DEF Cleanup, TypeOK, PCs
<1>12. CASE CleanupBarrier
  <2>1. pc' \in {"append", "idle"} /\ Len(batch') <= Len(batch)
        /\ batch' \in Seq(Ids) /\ op' \in Ops /\ sync' \in BOOLEAN
        /\ promised' \subseteq DOMAIN log /\ Len(batch') \in Nat
    BY <1>12, <1>b, <1>f DEF CleanupBarrier, Finish, ReuseAllowed, CheckpointReturns, TypeOK
  <2> QED
    BY <1>12, <1>b, <2>1 DEF CleanupBarrier, DirBarrier, TypeOK, PCs, object
<1>13. CASE StartRotation
  BY <1>13, <1>b DEF StartRotation, TypeOK, PCs, Ops, Active, files, object, history
<1>14. CASE RefuseWrite
  BY <1>14, <1>b, <1>f DEF RefuseWrite, TypeOK, PCs, files, object, history
<1>15. CASE WriteChunk
  <2>0. segs # {}
    BY <1>15 DEF WriteChunk
  <2>1. PICK k \in 1 .. Len(batch) :
              /\ log' \in Seq(Records) /\ Len(log') = Len(log) + k
              /\ DOMAIN log' = 1 .. (Len(log) + k)
              /\ disk' = disk \cup ((Len(log) + 1) .. (Len(log) + k))
              /\ batch' \in Seq(Ids) /\ Len(batch') = Len(batch) - k
    BY <1>0, <1>15, <2>0, WriteShape
  <2>2. DOMAIN log \subseteq DOMAIN log'
    BY <2>1, <1>b
  <2>3. disk' \subseteq DOMAIN log'
    BY <2>1, <2>2, <1>b DEF TypeOK
  <2>4. Len(log') <= MaxFrames /\ Len(log') + Len(batch') <= MaxFrames
    BY <2>1, <1>b, BoundAssumption DEF TypeOK
  <2> QED
    BY <1>15, <2>0, <2>1, <2>2, <2>3, <2>4 DEF WriteChunk, TypeOK, PCs, object, history, Records
<1>16. CASE IndexChunk
  <2>1. Inflight \subseteq DOMAIN log /\ In(disk, Active) \subseteq disk
    BY DEF Inflight, In, TypeOK
  <2> QED
    BY <1>16, <1>b, <1>f, <2>1 DEF IndexChunk, ChunkSync, TypeOK, PCs, Ops
<1>17. CASE AppendFails
  <2>1. Inflight \subseteq DOMAIN log
    BY DEF Inflight, In, TypeOK
  <2>2. Active \in SegIds
    BY <1>17, <1>a DEF AppendFails
  <2> QED
    BY <1>17, <1>b, <1>f, <2>1, <2>2 DEF AppendFails, TypeOK, PCs, object, history
<1>18. CASE InstallSegment
  BY <1>18, <1>b DEF InstallSegment, NextSegmentFree, TypeOK, PCs, Ops, Active, object, history
<1>19. CASE RotationRefused
  BY <1>19, <1>b, <1>f DEF RotationRefused, TypeOK, PCs, files, object, history
<1>20. CASE RegisterSegment
  <2>1. Active + 1 \in SegIds
    BY <1>20 DEF RegisterSegment
  <2> QED
    BY <1>20, <1>b, <2>1 DEF RegisterSegment, DirBarrier, TypeOK, PCs, Ops, history
<1>21. CASE CallRaises
  BY <1>21, <1>b, <1>f DEF CallRaises, IoCall, TypeOK, PCs, files, object, history
<1>22. ASSUME Gone PROVE /\ segs' = {} /\ indexed' = {} /\ pending' = {} /\ completed' = {}
                         /\ cursor' \in Cursors /\ needsRewrite' \in BOOLEAN
                         /\ dirty' \in BOOLEAN /\ sync' \in BOOLEAN /\ op' \in Ops
                         /\ batch' \in Seq(Ids) /\ Len(batch') = 0
  <2>1. batch' \in Seq(Ids) /\ Len(batch') = 0
    BY <1>22, EmptyBatch, Zenon DEF Gone
  <2>2. cursor' \in Cursors
    BY <1>22, SegmentIdAssumption DEF Gone, Origin, Cursors
  <2> QED
    BY <1>22, <2>1, <2>2, Zenon DEF Gone, Ops
<1>23. CASE OpenRaises
  BY <1>23, <1>22, <1>b DEF OpenRaises, TypeOK, PCs, files, history
<1>24. CASE Kill
  <2>1. PICK keep \in SUBSET Inflight, cut \in BOOLEAN :
           /\ cut => keep # Inflight
           /\ disk' = (disk \ Inflight) \cup keep
           /\ torn' = IF cut THEN torn \cup {Active} ELSE torn
    BY <1>24 DEF Kill
  <2>2. Inflight \subseteq DOMAIN log
    BY DEF Inflight, In, TypeOK
  <2>3. Active \in SegIds
    BY <1>24, <1>a DEF Kill
  <2>4. disk' \subseteq DOMAIN log /\ torn' \subseteq SegIds
    BY <2>1, <2>2, <2>3 DEF TypeOK
  <2> QED
    BY <1>24, <1>22, <1>b, <2>4 DEF Kill, TypeOK, PCs, history
<1>25. CASE PowerLoss
  <2>1. PICK keep \in SUBSET (disk \ synced) :
          /\ disk' = synced \cup keep /\ synced' = synced \cup keep
          /\ \E cut \in SUBSET {SegOf(n) : n \in disk \ (synced \cup keep)} :
                torn' = torn \cup cut
    BY <1>25 DEF PowerLoss
  <2>2. \A n \in disk : SegOf(n) \in SegIds
    BY <1>0, LogShape DEF TypeOK
  <2>3. torn' \subseteq SegIds
    BY <2>1, <2>2 DEF TypeOK
  <2>4. disk' \subseteq DOMAIN log /\ synced' \subseteq DOMAIN log
    BY <2>1 DEF TypeOK
  <2>5. /\ dir' \subseteq SegIds /\ stableDir' \subseteq SegIds
        /\ ckpt' \in Cursors /\ stableCkpt' \in Cursors
    BY <1>25 DEF PowerLoss, TypeOK
  <2>6. /\ log' = log /\ promised' = promised /\ released' = released
        /\ retired' = retired /\ pc' = "closed" /\ Gone
    BY <1>25 DEF PowerLoss, history
  <2> QED
    BY <1>22, <1>b, <2>3, <2>4, <2>5, <2>6 DEF TypeOK, PCs
<1>26. CASE DamageCheckpoint
  BY <1>26, <1>b, SegmentIdAssumption
     DEF DamageCheckpoint, Damaged, Cursors, TypeOK, PCs, Ops, Active, object, control
<1>27. CASE CreateStorage
  <2>1. 1 \in SegIds /\ Origin \in Cursors
    BY SegmentIdAssumption DEF SegIds, Origin, Cursors
  <2> QED
    BY <1>27, <1>b, <2>1 DEF CreateStorage, TypeOK, PCs, Ops, Active, object, control, history
<1>28. CASE Load
  <2>1. In(disk, Max(dir)) \subseteq disk /\ Scanned \subseteq disk /\ Replayed \subseteq disk
    BY DEF In, Replayed, Scanned
  <2>2. Min(dir) \in SegIds
    BY <1>28, DirExtrema DEF Load, RepairTail, TypeOK
  <2>3. ReplayFrom \in Cursors
    BY <2>2, SegmentIdAssumption DEF ReplayFrom, Cursors, SegIds, TypeOK
  <2>4. CASE pc' = "refused"
    BY <1>28, <2>4, <2>1, <1>b DEF Load, RepairTail, TypeOK, PCs, object, history
  <2>5. CASE pc' = "open_sync"
    <3>1. /\ segs' = dir /\ indexed' = Scanned
          /\ pending' = Replayed /\ cursor' = ReplayFrom /\ completed' = {}
          /\ needsRewrite' = ~ IsBoundary(ckpt) /\ dirty' = RecoveredDirty
      BY <1>28, <2>5 DEF Load
    <3>2. needsRewrite' \in BOOLEAN /\ dirty' \in BOOLEAN
      BY <3>1 DEF RecoveredDirty
    <3>3. indexed' \subseteq DOMAIN log /\ pending' \subseteq DOMAIN log
      BY <3>1, <2>1 DEF TypeOK
    <3> HIDE DEF TypeInv
    <3>4. TypeOK'
      BY <1>28, <1>0, <2>1, <2>3, <2>5, <3>1, <3>2, <3>3, <1>b DEF Load, RepairTail, TypeOK, PCs, history
    <3> QED
      BY <1>28, <3>4, <3>1, <2>5 DEF TypeInv, Load, RepairTail
  <2> QED
    BY <1>28, <2>4, <2>5 DEF Load, RepairTail
<1>29. CASE OpenBarrier
  BY <1>29, <1>b DEF OpenBarrier, DirBarrier, TypeOK, PCs, Ops, Active, object
<1>30. CASE UNCHANGED vars
  BY <1>30, <1>b DEF vars, files, object, control, history, TypeOK, Active
<1> QED
  BY <1>1, <1>2, <1>3, <1>4, <1>5, <1>6, <1>7, <1>8, <1>9, <1>10, <1>11, <1>12, <1>13,
     <1>14, <1>15, <1>16, <1>17, <1>18, <1>19, <1>20, <1>21, <1>23, <1>24, <1>25, <1>26,
     <1>27, <1>28, <1>29, <1>30 DEF Next, Step

LEMMA TypeInit == Init => TypeInv
<1> SUFFICES ASSUME Init PROVE TypeInv
  OBVIOUS
<1>1. /\ log \in Seq([id : Ids, seg : SegIds]) /\ Len(log) = 0
      /\ batch \in Seq(Ids) /\ Len(batch) = 0
  <2>1. log = <<>> /\ batch = <<>>
    BY DEF Init
  <2> QED
    BY <2>1, EmptySeq, Zenon
<1>2. Origin \in Cursors
  BY SegmentIdAssumption DEF Origin, Cursors
<1>3. TypeOK
  <2>1. /\ disk = {} /\ synced = {} /\ torn = {} /\ dir = {} /\ stableDir = {}
        /\ ckpt = Origin /\ stableCkpt = Origin /\ cursor = Origin
        /\ segs = {} /\ indexed = {} /\ pending = {} /\ completed = {}
        /\ needsRewrite \in BOOLEAN /\ dirty \in BOOLEAN /\ sync \in BOOLEAN
        /\ pc \in PCs /\ op \in Ops
        /\ promised = {} /\ released = {} /\ retired = {}
    BY DEF Init, PCs, Ops
  <2> QED
    BY <1>1, <1>2, <2>1, BoundAssumption DEF TypeOK
<1> QED
  BY <1>3 DEF Init, TypeInv, Loaded

\* The variables of Outbox stay in their ranges: in particular segment numbers
\* stay within the identifier space and a batch within the frames left for it.
THEOREM TypeCorrect == Spec => []TypeOK
<1>1. TypeInv => TypeOK
  BY DEF TypeInv
<1> QED
  BY <1>1, TypeInit, TypeStep, PTL DEF Spec
-----------------------------------------------------------------------------
(* Promises.                                                               *)

FilesInv  == FreshInv /\ OrderInv /\ SyncInv /\ CkptInv
Repaired  == Faults \cap UnrepairedFaults = {}

\* Every segment and frame number is a natural number.
LEMMA Shape ==
    ASSUME TypeInv
    PROVE  /\ Len(log) \in Nat /\ DOMAIN log = 1 .. Len(log) /\ DOMAIN log \subseteq Nat
           /\ \A n \in DOMAIN log : log[n].seg \in SegIds /\ log[n].seg \in Nat
           /\ SegIds \subseteq Nat
           /\ ckpt.seg \in Nat /\ stableCkpt.seg \in Nat /\ cursor.seg \in Nat
           /\ Loaded => /\ Active \in segs /\ Active \in Nat
                        /\ \A s \in segs : s <= Active
<1>1. SegIds \subseteq Nat
  BY DEF SegIds
<1>2. \A c \in Cursors : c.seg \in Nat
  BY SegmentIdAssumption DEF Cursors
<1>3. Loaded => segs \subseteq SegIds /\ segs # {}
  BY DEF TypeInv, TypeOK
<1> QED
  BY <1>1, <1>2, <1>3, LogShape, ActiveIsHighest DEF TypeInv, TypeOK, SegOf
-----------------------------------------------------------------------------
(* Reading what is listed, for any set of faults.                          *)

\* After a step, too, the active segment is the highest one.
LEMMA ActiveNext ==
    ASSUME TypeInv', Loaded'
    PROVE  Active' \in segs' /\ Active' \in Nat /\ \A s \in segs' : s <= Active'
<1>1. segs' \subseteq 1 .. MaxSegmentId /\ segs' # {}
  BY DEF TypeInv, TypeOK, SegIds
<1>2. Max(segs') \in segs' /\ \A s \in segs' : s <= Max(segs')
  BY <1>1, MaxExists, SegmentIdAssumption
<1>3. Active' = Max(segs')
  BY DEF Active
<1>4. segs' \subseteq Nat
  BY <1>1
<1> QED
  BY <1>2, <1>3, <1>4

LEMMA AscendingStays ==
    ASSUME AscendingInv, UNCHANGED log, Firm \subseteq Firm'
    PROVE  AscendingInv'
  BY DEF AscendingInv, SegOf

\* The object is gone: the order of the records is all there is to say.
LEMMA ReadGone ==
    ASSUME ReadInv, UNCHANGED log, Firm \subseteq Firm', pc' = "closed"
    PROVE  ReadInv'
<1>1. AscendingInv'
  BY AscendingStays DEF ReadInv
<1> QED
  BY <1>1 DEF ReadInv, Loaded

\* A step that changes neither the object's segments nor its cursor, and lists nothing new.
LEMMA ReadSteady ==
    ASSUME TypeInv, ReadInv, Loaded, UNCHANGED <<log, segs, cursor>>,
           dir \subseteq dir', Firm \subseteq Firm',
           indexed \subseteq indexed', pending' \subseteq pending, pending' \subseteq disk',
           Ready' => Active \in stableDir',
           pc' = "rotate_barrier" => Active + 1 \in dir'
    PROVE  ReadInv'
<1>1. AscendingInv'
  BY AscendingStays DEF ReadInv
<1>2. Active' = Active
  BY DEF Active
<1>3. KnownInv'
  <2>1. segs' \subseteq dir' /\ cursor'.seg <= Active'
    BY <1>2 DEF ReadInv, KnownInv
  <2>2. \A n \in DOMAIN log' : SegOf(n)' <= Active'
    BY <1>2 DEF ReadInv, KnownInv, SegOf
  <2> QED
    BY <1>2, <2>1, <2>2 DEF KnownInv, SegOf
<1>4. ListedInv'
  BY DEF ReadInv, ListedInv, SegOf
<1> QED
  BY <1>1, <1>3, <1>4 DEF ReadInv

\* A chunk that is not indexed yet is not listed either.
LEMMA ListedStays ==
    ASSUME ReadInv, Loaded
    PROVE  pending \subseteq disk /\ pending \cap Inflight = {}
  BY DEF ReadInv, ListedInv, Inflight

\* A directory barrier makes every entry firm.
LEMMA BarrierFirm ==
    ASSUME DirBarrier, UNCHANGED dir
    PROVE  Firm \subseteq Firm' /\ stableDir' = dir
  BY DEF DirBarrier, Firm

\* Between two opens nothing but a barrier touches the entries.
LEMMA ReadCalls ==
    ASSUME TypeInv, ReadInv,
           \/ \E b \in Batches, s \in BOOLEAN : AppendMany(b, s)
           \/ Sync \/ Checkpoint \/ RemoveOldest \/ RemoveOldestVolatile
           \/ SyncReturns \/ SyncData \/ ReplaceCheckpoint \/ CleanupBarrier
           \/ StartRotation \/ RefuseWrite \/ RotationRefused \/ AppendFails
           \/ InstallSegment \/ CallRaises \/ OpenBarrier
    PROVE  ReadInv'
<1>1. Loaded
  BY DEF Loaded, AppendMany, Sync, Checkpoint, RemoveOldest, RemoveOldestVolatile, Call,
     SyncReturns, SyncData, ReplaceCheckpoint, CleanupBarrier, StartRotation, RefuseWrite,
     RotationRefused, AppendFails, InstallSegment, CallRaises, OpenBarrier, AfterSync, IoCall
<1>2. /\ pending \subseteq disk /\ pending \cap Inflight = {} /\ segs \subseteq dir
      /\ Active \in dir /\ (Ready => Active \in stableDir)
  BY <1>1, ListedStays, ActiveIsHighest DEF ReadInv, KnownInv, TypeInv, TypeOK
<1>3. CASE \/ \E b \in Batches, s \in BOOLEAN : AppendMany(b, s)
           \/ Sync \/ Checkpoint \/ RemoveOldest
  <2>1. /\ UNCHANGED <<files, object>> /\ Ready
        /\ pc' \in {"ckpt_sync", "append", "sync"}
    BY <1>3 DEF AppendMany, Sync, Checkpoint, RemoveOldest, Call, Ready, ReusesCompleted
  <2> QED
    BY <1>1, <1>2, <2>1, ReadSteady DEF files, object, Firm
<1>4. CASE RemoveOldestVolatile
  <2>1. /\ UNCHANGED <<files, segs, indexed, cursor>> /\ Ready
        /\ pending' \subseteq pending /\ pc' = "idle"
    BY <1>4 DEF RemoveOldestVolatile, Behind, Ready, control
  <2> QED
    BY <1>1, <1>2, <2>1, ReadSteady DEF files, Firm
<1>5. CASE SyncReturns \/ SyncData
  <2>1. /\ UNCHANGED <<log, disk, dir, stableDir, segs, indexed, pending, cursor>>
        /\ pc' # "rotate_barrier" /\ (Ready' => Ready)
    BY <1>5 DEF SyncReturns, SyncData, SyncDataLocked, Return, Ready, AfterSync
  <2> QED
    BY <1>1, <1>2, <2>1, ReadSteady DEF Firm
<1>6. CASE \/ ReplaceCheckpoint \/ StartRotation \/ RefuseWrite \/ RotationRefused
           \/ CallRaises
  <2>1. /\ UNCHANGED <<log, disk, dir, stableDir, segs, indexed, pending, cursor>>
        /\ pc' # "rotate_barrier" /\ Ready
    BY <1>6 DEF ReplaceCheckpoint, StartRotation, RefuseWrite, RotationRefused, CallRaises,
       Return, Ready, IoCall, files, object
  <2> QED
    BY <1>1, <1>2, <2>1, ReadSteady DEF Firm
<1>7. CASE AppendFails
  <2>1. /\ UNCHANGED <<log, dir, stableDir, segs, indexed, pending, cursor>>
        /\ disk \ Inflight \subseteq disk' /\ pc' # "rotate_barrier" /\ Ready
    BY <1>7 DEF AppendFails, Return, Ready, object
  <2> QED
    BY <1>1, <1>2, <2>1, ReadSteady DEF Firm
<1>8. CASE InstallSegment
  <2>1. /\ UNCHANGED <<log, disk, stableDir, segs, indexed, pending, cursor>>
        /\ dir' = dir \cup {Active + 1} /\ Ready
    BY <1>8 DEF InstallSegment, Ready, object
  <2> QED
    BY <1>1, <1>2, <2>1, ReadSteady DEF Firm
<1>9. CASE CleanupBarrier
  <2>1. /\ UNCHANGED <<log, disk, dir, segs, indexed, pending, cursor>>
        /\ pc' # "rotate_barrier" /\ Ready /\ (DirBarrier \/ UNCHANGED stableDir)
    BY <1>9 DEF CleanupBarrier, Finish, ReuseAllowed, CheckpointReturns, Return, Ready, object
  <2>2. Firm \subseteq Firm' /\ Active \in stableDir'
    BY <1>2, <2>1, BarrierFirm DEF Firm
  <2> QED
    BY <1>1, <1>2, <2>1, <2>2, ReadSteady
<1>10. CASE OpenBarrier
  <2>1. /\ UNCHANGED <<log, disk, dir, segs, indexed, pending, cursor>>
        /\ pc' = "idle" /\ DirBarrier
    BY <1>10 DEF OpenBarrier, object
  <2>2. Firm \subseteq Firm' /\ Active \in stableDir'
    BY <1>2, <2>1, BarrierFirm
  <2> QED
    BY <1>1, <1>2, <2>1, <2>2, ReadSteady
<1> QED
  BY <1>3, <1>4, <1>5, <1>6, <1>7, <1>8, <1>9, <1>10

\* The cursor a checkpoint stores is in front of all that stays listed.
LEMMA TargetReads ==
    ASSUME TypeInv, ReadInv, Loaded
    PROVE  /\ Target.seg <= Active
           /\ \A n \in Remaining : Target.seg <= SegOf(n)
<1>1. /\ Remaining \subseteq pending /\ Remaining \subseteq DOMAIN log
      /\ DOMAIN log \subseteq Nat
  BY Shape DEF Remaining, Behind, TypeInv, TypeOK
<1>2. Active \in Nat /\ \A n \in DOMAIN log : SegOf(n) \in Nat /\ SegOf(n) <= Active
  BY Shape DEF ReadInv, KnownInv, SegOf
<1>3. CASE Remaining = {}
  BY <1>2, <1>3 DEF Target, CursorAt
<1>4. CASE Remaining # {}
  <2>1. Min(Remaining) \in Remaining /\ \A n \in Remaining : Min(Remaining) <= n
    BY <1>1, <1>4, MinExists
  <2>2. Target.seg = SegOf(Min(Remaining))
    BY <1>4 DEF Target, CursorAt
  <2>3. \A n \in Remaining : SegOf(Min(Remaining)) <= SegOf(n)
    <3> TAKE n \in Remaining
    <3>1. CASE n = Min(Remaining)
      BY <1>1, <1>2, <3>1
    <3>2. CASE Min(Remaining) < n
      BY <1>1, <2>1, <3>2 DEF ReadInv, AscendingInv
    <3> QED
      BY <1>1, <2>1, <3>1, <3>2
  <2> QED
    BY <1>1, <1>2, <2>1, <2>2, <2>3
<1> QED
  BY <1>3, <1>4

LEMMA ReadSettles ==
    ASSUME TypeInv, ReadInv, SkipCheckpoint \/ CheckpointBarrier
    PROVE  ReadInv'
<1>1. /\ Ready /\ Loaded /\ pc' = "clean" /\ cursor' = Target /\ pending' = Remaining
      /\ UNCHANGED <<log, disk, dir, segs, indexed>> /\ (DirBarrier \/ UNCHANGED stableDir)
  BY DEF SkipCheckpoint, CheckpointBarrier, Settle, Ready, Loaded
<1>2. segs \subseteq dir /\ Active \in dir /\ Active \in stableDir
  BY <1>1, ActiveIsHighest DEF ReadInv, KnownInv, TypeInv, TypeOK
<1>3. Firm \subseteq Firm' /\ Active \in stableDir'
  BY <1>1, <1>2, BarrierFirm DEF Firm
<1>4. AscendingInv'
  BY <1>1, <1>3, AscendingStays DEF ReadInv
<1>5. Active' = Active
  BY <1>1 DEF Active
<1>6. KnownInv'
  BY <1>1, <1>2, <1>3, <1>5, TargetReads DEF ReadInv, KnownInv, SegOf
<1>7. ListedInv'
  BY <1>1, TargetReads DEF ReadInv, ListedInv, SegOf, Remaining, Behind
<1> QED
  BY <1>4, <1>6, <1>7 DEF ReadInv

\* Cleanup deletes no segment that something listed is in, and not the active one.
LEMMA ReadCleanup ==
    ASSUME TypeInv, TypeInv', ReadInv, Cleanup
    PROVE  ReadInv'
<1>1. PICK unlinked \in SUBSET Removable :
         /\ dir' = dir \ unlinked /\ segs' = segs \ unlinked
         /\ UNCHANGED <<log, disk, stableDir, indexed, pending, cursor>>
         /\ Ready /\ Loaded /\ Loaded' /\ pc' # "rotate_barrier"
  BY DEF Cleanup, Finish, ReuseAllowed, CheckpointReturns, Return, Ready, Loaded
<1>2. /\ Active \in segs /\ Active \in Nat /\ \A s \in segs : s <= Active
      /\ cursor.seg \in Nat /\ segs \subseteq Nat
      /\ \A n \in DOMAIN log : SegOf(n) \in Nat /\ SegOf(n) <= Active
      /\ segs \subseteq dir /\ Active \in stableDir /\ cursor.seg <= Active
  BY <1>1, Shape DEF ReadInv, KnownInv, SegOf, TypeInv, TypeOK
<1>3. \A s \in unlinked : s < cursor.seg /\ s < Active
  BY <1>1 DEF Removable
<1>4. Active \in segs' /\ segs' \subseteq dir'
  <2>1. Active \notin unlinked
    BY <1>2, <1>3
  <2> QED
    BY <1>1, <1>2, <2>1
<1>5. Active' = Active
  <2>1. /\ Active' \in segs' /\ Active' \in Nat /\ Active <= Active'
    BY <1>1, <1>4, ActiveNext
  <2>2. Active' <= Active
    BY <1>1, <1>2, <2>1
  <2> QED
    BY <1>2, <2>1, <2>2
<1>6. AscendingInv'
  <2>1. Active \in Firm'
    BY <1>1, <1>2, <1>4 DEF Firm
  <2> QED
    BY <1>1, <1>2, <2>1 DEF ReadInv, AscendingInv, SegOf
<1>7. KnownInv'
  BY <1>1, <1>2, <1>4, <1>5 DEF KnownInv, SegOf
<1>8. ListedInv'
  <2> SUFFICES ASSUME NEW n \in pending
               PROVE  n \in indexed /\ n \in disk /\ SegOf(n) \in segs' /\ cursor.seg <= SegOf(n)
    BY <1>1 DEF ListedInv, SegOf
  <2>1. n \in indexed /\ n \in disk /\ SegOf(n) \in segs /\ cursor.seg <= SegOf(n)
    BY <1>1 DEF ReadInv, ListedInv
  <2>2. SegOf(n) \in Nat
    BY <1>2, <2>1
  <2>3. SegOf(n) \notin unlinked
    BY <1>2, <1>3, <2>1, <2>2
  <2> QED
    BY <1>1, <2>1, <2>3
<1> QED
  BY <1>6, <1>7, <1>8 DEF ReadInv

\* A write goes to the active segment, which is above all records.
LEMMA ReadWrite ==
    ASSUME TypeInv, ReadInv, WriteChunk
    PROVE  ReadInv'
<1>1. /\ Ready /\ Loaded /\ Ready' /\ pc' # "rotate_barrier"
      /\ UNCHANGED <<dir, stableDir, segs, indexed, pending, cursor>>
  BY DEF WriteChunk, Ready, Loaded, object
<1>2. PICK k \in 1 .. Len(batch) :
         /\ DOMAIN log' = 1 .. (Len(log) + k)
         /\ \A n \in DOMAIN log : log'[n] = log[n]
         /\ \A n \in (Len(log) + 1) .. (Len(log) + k) :
               log'[n] = [id |-> batch[n - Len(log)], seg |-> Active]
         /\ disk' = disk \cup ((Len(log) + 1) .. (Len(log) + k))
  BY <1>1, WriteShape DEF TypeInv
<1>3. /\ Len(log) \in Nat /\ DOMAIN log = 1 .. Len(log) /\ Active \in Nat /\ k \in Nat
      /\ Active \in segs /\ segs \subseteq dir /\ Active \in stableDir
      /\ \A n \in DOMAIN log : log[n].seg \in Nat /\ log[n].seg <= Active
      /\ pending \subseteq DOMAIN log
  BY <1>1, Shape, LenProperties DEF ReadInv, KnownInv, SegOf, TypeInv, TypeOK
<1>4. \A n \in DOMAIN log' :
         \/ n \in DOMAIN log /\ log'[n] = log[n]
         \/ n > Len(log) /\ log'[n].seg = Active
  <2> TAKE n \in DOMAIN log'
  <2>1. CASE n \in DOMAIN log
    BY <1>2, <2>1
  <2>2. CASE n \notin DOMAIN log
    <3>1. n \in (Len(log) + 1) .. (Len(log) + k) /\ n > Len(log)
      BY <1>2, <1>3, <2>2
    <3>2. log'[n] = [id |-> batch[n - Len(log)], seg |-> Active]
      BY <1>2, <3>1
    <3> QED
      BY <3>1, <3>2
  <2> QED
    BY <2>1, <2>2
<1>5. \A n \in DOMAIN log' : log'[n].seg <= Active
  BY <1>3, <1>4
<1>6. AscendingInv'
  <2>1. Active \in Firm'
    BY <1>1, <1>3 DEF Firm
  <2>2. \A n \in DOMAIN log' : \E s \in Firm' : log'[n].seg <= s
    BY <1>5, <2>1
  <2>3. ASSUME NEW m \in DOMAIN log', NEW n \in DOMAIN log', m < n
        PROVE  log'[m].seg <= log'[n].seg
    <3>1. CASE n \in DOMAIN log
      <4>1. m \in DOMAIN log
        BY <1>2, <1>3, <2>3, <3>1
      <4>2. log[m].seg <= log[n].seg
        BY <2>3, <3>1, <4>1 DEF ReadInv, AscendingInv, SegOf
      <4> QED
        BY <1>2, <3>1, <4>1, <4>2
    <3>2. CASE n \notin DOMAIN log
      BY <1>4, <1>5, <3>2
    <3> QED
      BY <3>1, <3>2
  <2> QED
    BY <2>2, <2>3 DEF AscendingInv, SegOf
<1>7. KnownInv'
  <2>1. Active' = Active
    BY <1>1 DEF Active
  <2> QED
    BY <1>1, <1>3, <1>5, <2>1 DEF ReadInv, KnownInv, SegOf
<1>8. ListedInv'
  BY <1>1, <1>2, <1>3 DEF ReadInv, ListedInv, SegOf
<1> QED
  BY <1>6, <1>7, <1>8 DEF ReadInv

\* What has been written to the active segment is listed.
LEMMA ReadIndex ==
    ASSUME TypeInv, ReadInv, IndexChunk
    PROVE  ReadInv'
<1>1. /\ Ready /\ Loaded /\ pc' # "rotate_barrier"
      /\ indexed' = indexed \cup Inflight /\ pending' = pending \cup Inflight
      /\ UNCHANGED <<log, disk, dir, stableDir, segs, cursor>>
  BY DEF IndexChunk, Return, Ready, Loaded
<1>2. /\ Active \in segs /\ segs \subseteq dir /\ Active \in stableDir
      /\ cursor.seg <= Active
  BY <1>1, Shape DEF ReadInv, KnownInv
<1>3. \A n \in Inflight : n \in disk /\ SegOf(n) = Active
  BY DEF Inflight, In
<1>4. AscendingInv'
  BY <1>1, AscendingStays DEF ReadInv, Firm
<1>5. Active' = Active
  BY <1>1 DEF Active
<1>6. KnownInv'
  BY <1>1, <1>2, <1>5 DEF ReadInv, KnownInv, SegOf
<1>7. ListedInv'
  BY <1>1, <1>2, <1>3 DEF ReadInv, ListedInv, SegOf
<1> QED
  BY <1>4, <1>6, <1>7 DEF ReadInv

\* The new segment is there and above all others.
LEMMA ReadRegister ==
    ASSUME TypeInv, TypeInv', ReadInv, RegisterSegment
    PROVE  ReadInv'
<1>1. /\ Ready /\ Loaded /\ Loaded' /\ pc' = "append" /\ pc = "rotate_barrier"
      /\ segs' = segs \cup {Active + 1} /\ DirBarrier
      /\ UNCHANGED <<log, disk, dir, indexed, pending, cursor>>
  BY DEF RegisterSegment, Ready, Loaded
<1>2. /\ Active \in Nat /\ \A s \in segs : s <= Active
      /\ segs \subseteq dir /\ Active + 1 \in dir /\ cursor.seg \in Nat
      /\ cursor.seg <= Active
      /\ \A n \in DOMAIN log : SegOf(n) \in Nat /\ SegOf(n) <= Active
  BY <1>1, Shape DEF ReadInv, KnownInv, SegOf
<1>3. Active' = Active + 1
  <2>1. Active' \in segs' /\ \A s \in segs' : s <= Active'
    BY <1>1, ActiveNext
  <2>2. Active' \in Nat
    BY <1>1, ActiveNext
  <2> QED
    BY <1>1, <1>2, <2>1, <2>2
<1>4. Firm \subseteq Firm' /\ stableDir' = dir
  BY <1>1, BarrierFirm
<1>5. AscendingInv'
  BY <1>1, <1>4, AscendingStays DEF ReadInv
<1>6. KnownInv'
  BY <1>1, <1>2, <1>3, <1>4 DEF KnownInv, SegOf
<1>7. ListedInv'
  BY <1>1 DEF ReadInv, ListedInv, SegOf
<1> QED
  BY <1>5, <1>6, <1>7 DEF ReadInv

\* The directory appears with nothing in it.
LEMMA ReadCreate ==
    ASSUME ReadInv, CreateStorage
    PROVE  ReadInv'
<1>1. pc = "closed" /\ pc' = "closed" /\ dir = {} /\ UNCHANGED log
  BY DEF CreateStorage, control
<1>2. Firm \subseteq Firm'
  BY <1>1 DEF Firm
<1> QED
  BY <1>1, <1>2, ReadGone

\* An open indexes what is there and starts at a segment that is there.
LEMMA ReadLoad ==
    ASSUME TypeInv, TypeInv', ReadInv, Load
    PROVE  ReadInv'
<1>1. pc = "closed" /\ dir # {} /\ UNCHANGED <<log, disk, dir, stableDir>>
  BY DEF Load
<1>2. AscendingInv'
  BY <1>1, AscendingStays DEF ReadInv, Firm
<1>3. CASE pc' = "refused"
  BY <1>2, <1>3 DEF ReadInv, Loaded
<1>4. CASE pc' # "refused"
  <2>1. /\ pc' = "open_sync" /\ segs' = dir /\ indexed' = Scanned /\ pending' = Replayed
        /\ cursor' = ReplayFrom
    BY <1>4 DEF Load
  <2>2. /\ Min(dir) \in dir /\ Max(dir) \in dir /\ \A s \in dir : s <= Max(dir)
    BY <1>1, DirExtrema DEF TypeInv, TypeOK
  <2>3. Active' = Max(dir)
    BY <2>1 DEF Active
  <2>4. ReplayFrom.seg \in dir
    BY <2>2 DEF ReplayFrom, IsBoundary
  <2>5. \A n \in DOMAIN log : SegOf(n) <= Max(dir)
    <3> TAKE n \in DOMAIN log
    <3>1. PICK s \in Firm : SegOf(n) <= s
      BY DEF ReadInv, AscendingInv
    <3>2. s \in dir /\ s <= Max(dir)
      BY <2>2, <3>1 DEF Firm
    <3>3. s \in Nat /\ Max(dir) \in Nat /\ SegOf(n) \in Nat
      BY <2>2, <3>2, Shape DEF TypeInv, TypeOK, SegOf
    <3> QED
      BY <3>1, <3>2, <3>3
  <2>6. KnownInv'
    <3>1. ~ Ready' /\ pc' # "rotate_barrier"
      BY <2>1 DEF Ready
    <3>2. \A n \in DOMAIN log' : SegOf(n)' <= Active'
      BY <1>1, <2>3, <2>5 DEF SegOf
    <3> QED
      BY <1>1, <2>1, <2>2, <2>3, <2>4, <3>1, <3>2 DEF KnownInv
  <2>7. ListedInv'
    <3> SUFFICES ASSUME NEW n \in Replayed
                 PROVE  n \in Scanned /\ n \in disk /\ SegOf(n) \in dir /\ ReplayFrom.seg <= SegOf(n)
      BY <1>1, <2>1 DEF ListedInv, SegOf
    <3>1. n \in Scanned /\ n \in Past(ReplayFrom)
      BY DEF Replayed
    <3>2. n \in disk /\ SegOf(n) \in dir
      BY <3>1 DEF Scanned
    <3>3. ReplayFrom.seg \in Nat /\ SegOf(n) \in Nat
      BY <2>4, <3>2, Shape DEF TypeInv, TypeOK
    <3>4. SegOf(n) > ReplayFrom.seg \/ SegOf(n) = ReplayFrom.seg
      BY <3>1 DEF Past
    <3> QED
      BY <3>1, <3>2, <3>3, <3>4
  <2> QED
    BY <1>2, <2>6, <2>7 DEF ReadInv
<1> QED
  BY <1>3, <1>4

LEMMA ReadInit == Init => ReadInv
<1> SUFFICES ASSUME Init PROVE ReadInv
  OBVIOUS
<1>1. DOMAIN log = {} /\ ~ Loaded
  BY DEF Init, Loaded
<1> QED
  BY <1>1 DEF ReadInv, AscendingInv

LEMMA ReadStep ==
    ASSUME TypeInv, TypeInv', ReadInv, [Next]_vars
    PROVE  ReadInv'
<1>1. CASE Kill \/ OpenRaises \/ PowerLoss \/ DamageCheckpoint
  <2>1. pc' = "closed" /\ UNCHANGED log
    BY <1>1 DEF Kill, OpenRaises, PowerLoss, DamageCheckpoint, files, control
  <2>2. Firm \subseteq Firm'
    BY <1>1 DEF Kill, OpenRaises, PowerLoss, DamageCheckpoint, files, Firm
  <2> QED
    BY <2>1, <2>2, ReadGone
<1>2. CASE UNCHANGED vars
  <2>1. Active' = Active /\ Ready' = Ready /\ Loaded' = Loaded
    BY <1>2 DEF vars, object, control, Active, Ready, Loaded
  <2>2. AscendingInv'
    BY <1>2, AscendingStays DEF ReadInv, vars, files, Firm
  <2>3. Loaded => KnownInv' /\ ListedInv'
    BY <1>2, <2>1 DEF ReadInv, vars, files, object, control, KnownInv, ListedInv, SegOf
  <2> QED
    BY <2>1, <2>2, <2>3 DEF ReadInv
<1> QED
  BY <1>1, <1>2, ReadCalls, ReadSettles, ReadCleanup, ReadWrite, ReadIndex, ReadRegister,
     ReadCreate, ReadLoad DEF Next, Step

\* Every listed record is in a segment that exists, and its file holds it: whatever fails,
\* a rollback, the directory sync of a rotation and the checkpoint file included.
THEOREM ReadableCorrect == Spec => []Readable
<1>1. Init => TypeInv /\ ReadInv
  BY TypeInit, ReadInit
<1>2. TypeInv /\ ReadInv /\ [Next]_vars => (TypeInv /\ ReadInv)'
  BY TypeStep, ReadStep
<1>3. ReadInv => Readable
  <2> SUFFICES ASSUME ReadInv, Ready, NEW n \in pending PROVE n \in disk /\ SegOf(n) \in dir
    BY DEF Readable
  <2>1. Loaded
    BY DEF Ready, Loaded
  <2> QED
    BY <2>1 DEF ReadInv, KnownInv, ListedInv
<1> QED
  BY <1>1, <1>2, <1>3, PTL DEF Spec
-----------------------------------------------------------------------------
(* Steps that change nothing but the call in progress.                     *)

Returning == {"idle", "sync", "ckpt_sync", "append", "rotate_sync"}

LEMMA ControlStep ==
    ASSUME IInv, TypeInv', Ready, pc # "rotate_barrier",
           UNCHANGED <<files, object, promised, retired>>, released \subseteq released',
           Inflight = {}, pc' \in Returning, CallInv', QuietInv'
    PROVE  IInv'
<1>0. Loaded /\ Loaded' /\ Ready' /\ Inflight' = {} /\ ~ Cleaning'
  BY DEF Ready, Loaded, Returning, Inflight, Cleaning
<1>1. FreshInv' /\ OrderInv' /\ SyncInv'
  BY DEF IInv, files, FreshInv, OrderInv, SyncInv, SegOf, Firm, Possible, IsPrefixOf
<1>2. CkptInv'
  BY DEF IInv, files, CkptInv, HeadInv, Heads, Firm, Possible, IsPrefixOf, In, Past, Live, SegOf
<1>3. SegsInv'
  BY <1>0 DEF IInv, files, object, SegsInv, Active, Returning, Ready
<1>4. IndexInv'
  BY <1>0 DEF IInv, files, object, IndexInv, SegOf, Returning
<1>5. PendingInv'
  BY <1>0 DEF IInv, files, object, PendingInv, Past, Live, SegOf
<1>6. CursorInv'
  BY <1>0 DEF IInv, files, object, CursorInv, Past, Live, SegOf, Heads, Returning
<1>7. NoLoss' /\ NoResurrection' /\ Reopenable'
  BY <1>0 DEF IInv, object, NoLoss, NoResurrection, Reopenable, Ready
<1> QED
  BY <1>0, <1>1, <1>2, <1>3, <1>4, <1>5, <1>6, <1>7 DEF IInv, TypeInv

\* The head of a FIFO that is not empty.
LEMMA HeadFacts ==
    ASSUME TypeInv, pending # {}
    PROVE  /\ Min(pending) \in pending /\ \A n \in pending : Min(pending) <= n
           /\ Behind(pending) = pending \ {Min(pending)}
<1>1. pending \subseteq DOMAIN log /\ pending \subseteq Nat
  BY Shape DEF TypeInv, TypeOK
<1>2. Min(pending) \in pending /\ \A n \in pending : Min(pending) <= n
  BY <1>1, MinExists
<1>3. \A n \in pending : n # Min(pending) => Min(pending) < n
  BY <1>1, <1>2
<1>4. \A n \in pending, m \in pending : m < n => n # Min(pending)
  BY <1>1, <1>2
<1> QED
  BY <1>2, <1>3, <1>4 DEF Behind

\* What a call may still do when it begins or stops here.
LEMMA CallSteps ==
    ASSUME IInv, TypeInv, TypeInv',
           \/ \E b \in Batches, s \in BOOLEAN : AppendMany(b, s)
           \/ Sync \/ Checkpoint \/ RemoveOldest
           \/ StartRotation \/ RefuseWrite \/ RotationRefused \/ CallRaises,
           Repaired
    PROVE  IInv'
<1> USE DEF Returning
<1>1. ASSUME NEW b \in Batches, NEW s \in BOOLEAN, AppendMany(b, s) PROVE IInv'
  <2>1. /\ pc = "idle" /\ pc' \in {"ckpt_sync", "append"} /\ op' = "append" /\ batch' = b
        /\ UNCHANGED <<files, object, promised, retired>> /\ released' = released
    BY <1>1 DEF AppendMany, Call
  <2>2. Ready /\ Inflight = {} /\ Inflight' = {}
    BY <2>1 DEF Ready, Inflight
  <2>3. b # <<>> /\ \A i, j \in DOMAIN b : b[i] = b[j] => i = j
    <3>1. PICK k \in 1 .. MaxBatch : b \in [1 .. k -> Ids]
      BY DEF Batches
    <3>2. 1 \in DOMAIN b
      BY <3>1, BoundAssumption
    <3>3. b # <<>>
      BY <3>2
    <3> QED
      BY <3>3 DEF Batches
  <2>4. BatchIds' \cap IdsOf(pending)' = {}
    BY <1>1, <2>1 DEF AppendMany, BatchIds, IdsOf, object, files
  <2>5. pc' = "append" => BatchIds' \cap completed' = {}
    BY <1>1, <2>1 DEF AppendMany, Call, BatchIds, ReusesCompleted, object
  <2>6. IdsOf(Inflight)' = {}
    BY <2>2 DEF IdsOf
  <2>7. CallInv' /\ QuietInv'
    BY <2>1, <2>3, <2>4, <2>5, <2>6 DEF CallInv, QuietInv, Appending, Persisting, Cleaning
  <2> QED
    BY <2>1, <2>2, <2>7, ControlStep
<1>2. CASE Sync
  <2>1. /\ pc = "idle" /\ pc' = "sync" /\ op' = "sync"
        /\ UNCHANGED <<files, object, promised, retired>> /\ released' = released
        /\ batch' = batch
    BY <1>2 DEF Sync, Call
  <2>2. Ready /\ Loaded /\ Inflight = {} /\ Inflight' = {}
    BY <2>1 DEF Ready, Loaded, Inflight
  <2>3. CallInv' /\ QuietInv'
    BY <2>1, <2>2 DEF IInv, CallInv, QuietInv, Appending, Persisting, Cleaning, BatchIds,
       IdsOf, files, object
  <2> QED
    BY <2>1, <2>2, <2>3, ControlStep
<1>8. CASE Checkpoint
  <2>1. /\ pc = "idle" /\ pc' = "ckpt_sync" /\ op' = "checkpoint"
        /\ UNCHANGED <<files, object, promised, retired>> /\ released' = released
        /\ batch' = batch
    BY <1>8 DEF Checkpoint, Call
  <2>2. Ready /\ Loaded /\ Inflight = {} /\ Inflight' = {}
    BY <2>1 DEF Ready, Loaded, Inflight
  <2>3. CallInv' /\ QuietInv'
    BY <2>1, <2>2 DEF IInv, CallInv, QuietInv, Appending, Persisting, Cleaning, BatchIds,
       IdsOf, files, object
  <2> QED
    BY <2>1, <2>2, <2>3, ControlStep
<1>3. CASE RemoveOldest
  <2>1. /\ pc = "idle" /\ pc' = "ckpt_sync" /\ op' = "remove"
        /\ UNCHANGED <<files, object, promised, retired>>
        /\ released' = released \cup {Min(pending)} /\ pending # {}
        /\ batch' = batch
    BY <1>3 DEF RemoveOldest, Call
  <2>2. Ready /\ Loaded /\ Inflight = {} /\ Inflight' = {}
    BY <2>1 DEF Ready, Loaded, Inflight
  <2>3. CallInv' /\ QuietInv'
    BY <2>1, <2>2 DEF IInv, CallInv, QuietInv, Appending, Persisting, Cleaning, BatchIds,
       IdsOf, files, object
  <2> QED
    BY <2>1, <2>2, <2>3, ControlStep
<1>4. CASE StartRotation
  <2>1. /\ pc = "append" /\ pc' = "rotate_sync"
        /\ UNCHANGED <<files, object, promised, retired, op, batch>> /\ released' = released
    BY <1>4 DEF StartRotation, history
  <2>2. Ready /\ Loaded /\ Inflight = {} /\ Inflight' = {}
    BY <2>1 DEF Ready, Loaded, Inflight
  <2>3. CallInv' /\ QuietInv'
    BY <2>1, <2>2 DEF IInv, CallInv, QuietInv, Appending, Persisting, Cleaning, BatchIds,
       IdsOf, files, object
  <2> QED
    BY <2>1, <2>2, <2>3, ControlStep
<1>5. ASSUME Return, UNCHANGED <<files, object, history>>, Ready,
             pc \notin {"rotate_barrier", "written"}
      PROVE  IInv'
  <2>1. Inflight = {}
    BY <1>5 DEF Inflight
  <2>2. CallInv' /\ QuietInv'
    BY <1>5 DEF Return, CallInv, QuietInv, Appending, Persisting, Cleaning, BatchIds
  <2> QED
    BY <1>5, <2>1, <2>2, ControlStep DEF history, Return
<1>6. CASE RefuseWrite \/ RotationRefused
  BY <1>5, <1>6 DEF RefuseWrite, RotationRefused, Ready
<1>7. CASE CallRaises
  <2>1. "rotate_barrier" \notin Faults
    BY DEF Repaired, UnrepairedFaults
  <2> QED
    BY <1>5, <1>7, <2>1 DEF CallRaises, IoCall, Ready
<1> QED
  BY <1>1, <1>2, <1>3, <1>4, <1>6, <1>7, <1>8
-----------------------------------------------------------------------------
(* Removal in memory and data sync.                                        *)

LEMMA VolatileRemoval ==
    ASSUME IInv, TypeInv, TypeInv', RemoveOldestVolatile PROVE IInv'
<1>1. /\ pc = "idle" /\ pc' = "idle" /\ pending # {} /\ op' = op /\ batch' = batch
      /\ pending' = Behind(pending)
      /\ completed' = completed \cup {log[Min(pending)].id}
      /\ released' = released \cup {Min(pending)}
      /\ UNCHANGED <<log, disk, synced, torn, dir, stableDir, ckpt, stableCkpt, segs,
                     indexed, cursor, needsRewrite, dirty, promised, retired>>
  BY DEF RemoveOldestVolatile, files, control
<1>2. /\ Min(pending) \in pending /\ \A n \in pending : Min(pending) <= n
      /\ Behind(pending) = pending \ {Min(pending)}
  BY <1>1, HeadFacts
<1>3. Loaded /\ Loaded' /\ Ready /\ Ready' /\ Inflight = {} /\ Inflight' = {}
  BY <1>1 DEF Ready, Loaded, Inflight
<1>4. FreshInv' /\ OrderInv' /\ SyncInv'
  BY <1>1 DEF IInv, FreshInv, OrderInv, SyncInv, SegOf, Firm, Possible, IsPrefixOf
<1>5. CkptInv'
  BY <1>1 DEF IInv, CkptInv, HeadInv, Heads, Firm, Possible, IsPrefixOf, In, Past, Live, SegOf
<1>6. SegsInv'
  BY <1>1, <1>3 DEF IInv, SegsInv, Active, Ready
<1>7. IndexInv'
  BY <1>1, <1>3 DEF IInv, IndexInv, SegOf, Cleaning
<1>8. PendingInv'
  <2>1. \A n \in pending' : n \in indexed' /\ SegOf(n)' \in segs' /\ n \in Past(cursor)'
    BY <1>1, <1>2, <1>3 DEF IInv, PendingInv, Past, SegOf
  <2>2. \A m \in pending', n \in indexed' : m < n => n \in pending'
    <3> SUFFICES ASSUME NEW m \in pending', NEW n \in indexed', m < n PROVE n \in pending'
      OBVIOUS
    <3>1. m \in pending /\ Min(pending) <= m /\ n \in pending
      BY <1>1, <1>2, <1>3 DEF IInv, PendingInv
    <3>2. Min(pending) \in Nat /\ m \in Nat /\ n \in Nat
      BY <3>1, <1>2, Shape DEF TypeInv, TypeOK
    <3>3. n # Min(pending)
      BY <3>1, <3>2
    <3> QED
      BY <1>1, <1>2, <3>1, <3>3
  <2>3. \A n \in Live(cursor)' : n \in pending' \/ log'[n].id \in completed' \/ n \in Inflight'
    BY <1>1, <1>2, <1>3 DEF IInv, PendingInv, Past, Live, SegOf
  <2>4. \A m, n \in Live(cursor)' : log'[m].id = log'[n].id => m = n
    BY <1>1, <1>3 DEF IInv, PendingInv, Past, Live, SegOf
  <2> QED
    BY <2>1, <2>2, <2>3, <2>4 DEF PendingInv
<1>9. CursorInv'
  BY <1>1, <1>2, <1>3 DEF IInv, CursorInv, Past, Live, SegOf, Heads
<1>10. CallInv' /\ QuietInv'
  <2>1. batch = <<>>
    BY <1>1 DEF IInv, QuietInv
  <2>2. BatchIds' = {}
    BY <1>1, <2>1 DEF BatchIds
  <2> QED
    BY <1>1, <2>1, <2>2 DEF IInv, CallInv, QuietInv, Appending, Persisting, Cleaning
<1>11. NoLoss' /\ NoResurrection' /\ Reopenable'
  BY <1>1, <1>2, <1>3 DEF IInv, NoLoss, NoResurrection, Reopenable
<1> QED
  BY <1>3, <1>4, <1>5, <1>6, <1>7, <1>8, <1>9, <1>10, <1>11 DEF IInv, TypeInv

\* What no fsync has covered is in the active segment.
LEMMA UnsyncedActive ==
    ASSUME IInv, TypeInv, Loaded, pc # "rotate_barrier"
    PROVE  \A n \in disk \ synced : SegOf(n) = Active
<1> SUFFICES ASSUME NEW n \in disk \ synced PROVE SegOf(n) = Active
  OBVIOUS
<1>1. n \in DOMAIN log /\ SegOf(n) \in Nat /\ Active \in segs /\ Active \in Nat
      /\ \A s \in segs : s <= Active /\ s \in Nat
  BY Shape DEF TypeInv, TypeOK, SegOf
<1>2. dir = segs
  BY DEF IInv, SegsInv
<1>3. PICK s \in Firm : SegOf(n) <= s
  BY <1>1 DEF IInv, OrderInv
<1>4. SegOf(n) <= Active
  BY <1>1, <1>2, <1>3 DEF Firm
<1>5. Active <= SegOf(n)
  BY <1>1, <1>2 DEF IInv, SyncInv, Possible
<1> QED
  BY <1>1, <1>4, <1>5

\* _sync_data_locked covers everything that is in the files.
LEMMA DataSync ==
    ASSUME IInv, TypeInv, TypeInv', Loaded, SyncDataLocked, Inflight = {}, Inflight' = {},
           pc # "rotate_barrier"
    PROVE  disk' = disk /\ disk \subseteq synced' /\ synced \subseteq synced'
           /\ OrderInv' /\ FreshInv' /\ SyncInv'
<1>1. disk' = disk /\ synced \subseteq synced' /\ synced' \subseteq disk \cup synced
      /\ UNCHANGED <<log, torn, dir, stableDir, ckpt, stableCkpt>>
  BY DEF SyncDataLocked, In
<1>2. disk \subseteq synced'
  <2>1. CASE ~ dirty
    BY <2>1 DEF IInv, IndexInv, SyncDataLocked
  <2>2. CASE dirty
    <3>1. In(disk, Active) \subseteq synced'
      BY <2>2 DEF SyncDataLocked
    <3> QED
      BY <3>1, <1>1, UnsyncedActive DEF In
  <2> QED
    BY <2>1, <2>2
<1>3. OrderInv' /\ FreshInv'
  BY <1>1 DEF IInv, FreshInv, OrderInv, SegOf, Firm
<1>4. SyncInv'
  <2>1. synced \subseteq disk
    BY DEF IInv, SyncInv, IsPrefixOf
  <2>2. synced' = disk'
    BY <1>1, <1>2, <2>1
  <2>3. IsPrefixOf(synced, disk)'
    BY <2>2 DEF IsPrefixOf
  <2> QED
    BY <1>1, <2>2, <2>3 DEF IInv, SyncInv, Possible
<1> QED
  BY <1>1, <1>2, <1>3, <1>4

\* A data sync, and what sync() reports after it.
LEMMA SyncSteps ==
    ASSUME IInv, TypeInv, TypeInv', SyncReturns \/ SyncData PROVE IInv'
<1>1. /\ SyncDataLocked /\ pc \in {"sync", "ckpt_sync", "rotate_sync", "open_sync"}
      /\ UNCHANGED <<log, disk, torn, dir, stableDir, ckpt, stableCkpt, segs, indexed,
                     pending, completed, cursor, needsRewrite, released, retired>>
      /\ dirty' = FALSE
  BY DEF SyncReturns, SyncData, SyncDataLocked, AfterSync
<1>2. /\ pc = "sync" => /\ pc' = "idle" /\ op' = "none" /\ batch' = <<>>
                        /\ promised' = promised \cup pending
      /\ pc # "sync" => op' = op /\ batch' = batch /\ promised' = promised
      /\ pc = "ckpt_sync" => pc' = "persist"
      /\ pc = "rotate_sync" => pc' = "install"
      /\ pc = "open_sync" => pc' = "open_barrier"
  BY DEF SyncReturns, SyncData, Return, AfterSync
<1>3. Loaded /\ Loaded' /\ (Ready <=> Ready') /\ Inflight = {} /\ Inflight' = {}
  BY <1>1, <1>2 DEF Ready, Loaded, Inflight
<1>4. /\ disk \subseteq synced' /\ synced \subseteq synced'
      /\ OrderInv' /\ FreshInv' /\ SyncInv'
  BY <1>1, <1>3, DataSync
<1>5. CkptInv'
  <2> SUFFICES ASSUME NEW c \in Heads' PROVE HeadInv(c)'
    BY DEF CkptInv
  <2>1. c \in Heads
    BY <1>1 DEF Heads
  <2>2. /\ stableDir' # {} => c.seg \in Firm'
        /\ c.before \subseteq synced' /\ IsPrefixOf(c.before, In(disk, c.seg))'
        /\ \A s \in Possible', t \in SegIds : c.seg <= t /\ t < s => t \in Firm'
        /\ \A n \in retired' : n \notin Live(c)'
        /\ \A m, n \in Live(c)' : log'[m].id = log'[n].id => m = n
    BY <1>1, <1>4, <2>1
       DEF IInv, CkptInv, HeadInv, Firm, Possible, IsPrefixOf, In, Past, Live, SegOf
  <2>3. \A n \in promised' \ released' : n \in synced' /\ n \in Past(c)'
    <3> SUFFICES ASSUME NEW n \in promised' \ released' PROVE n \in synced' /\ n \in Past(c)'
      OBVIOUS
    <3>1. CASE n \in promised
      BY <1>1, <1>4, <2>1, <3>1 DEF IInv, CkptInv, HeadInv, Past, SegOf
    <3>2. CASE n \notin promised
      <4>1. n \in pending \ released /\ Ready
        BY <1>1, <1>2, <3>2 DEF Ready
      <4>2. n \in disk
        BY <1>3, <4>1 DEF IInv, PendingInv, IndexInv
      <4>3. n \in Past(c)
        BY <1>3, <2>1, <4>1 DEF IInv, CursorInv
      <4> QED
        BY <1>1, <1>4, <4>2, <4>3 DEF Past, SegOf
    <3> QED
      BY <3>1, <3>2
  <2> QED
    BY <2>2, <2>3 DEF HeadInv
<1>6. SegsInv'
  BY <1>1, <1>2, <1>3 DEF IInv, SegsInv, Active
<1>7. IndexInv'
  <2>1. /\ \A n \in indexed' : n \in disk'
        /\ \A n \in disk' : SegOf(n)' \in segs' => n \in indexed' \/ n \in Inflight'
    BY <1>1, <1>3 DEF IInv, IndexInv, SegOf
  <2> QED
    BY <1>1, <1>3, <1>4, <2>1 DEF IndexInv
<1>8. PendingInv'
  BY <1>1, <1>3 DEF IInv, PendingInv, Past, Live, SegOf
<1>9. CursorInv'
  BY <1>1, <1>2, <1>3, <1>4 DEF IInv, CursorInv, Past, Live, SegOf, Heads
<1>10. CallInv'
  <2>1. CASE pc = "sync"
    BY <1>2, <2>1 DEF CallInv, Appending, Persisting, Cleaning, BatchIds
  <2>2. CASE pc # "sync"
    BY <1>1, <1>2, <1>3, <2>2
       DEF IInv, CallInv, Appending, Persisting, Cleaning, BatchIds, IdsOf
  <2> QED
    BY <2>1, <2>2
<1>11. QuietInv'
  BY <1>1, <1>2 DEF IInv, QuietInv
<1>12. NoLoss' /\ NoResurrection' /\ Reopenable'
  BY <1>1, <1>2, <1>3 DEF IInv, NoLoss, NoResurrection, Reopenable, Ready
<1> QED
  BY <1>3, <1>4, <1>5, <1>6, <1>7, <1>8, <1>9, <1>10, <1>11, <1>12 DEF IInv, TypeInv
-----------------------------------------------------------------------------
(* Checkpoints.                                                            *)

\* Frames of the segments from the cursor on are indexed.
LEMMA LiveIndexed ==
    ASSUME IInv, TypeInv, Ready, pc # "rotate_barrier", Inflight = {},
           NEW n \in disk, cursor.seg <= SegOf(n)
    PROVE  n \in indexed /\ SegOf(n) \in segs /\ SegOf(n) <= Active
<1>0. Loaded
  BY DEF Ready, Loaded
<1>1. /\ n \in DOMAIN log /\ SegOf(n) \in SegIds /\ SegOf(n) \in Nat
      /\ Active \in segs /\ Active \in Nat /\ \A s \in segs : s <= Active
  BY <1>0, Shape DEF TypeInv, TypeOK, SegOf
<1>2. dir = segs
  BY <1>0 DEF IInv, SegsInv
<1>3. PICK s \in Firm : SegOf(n) <= s
  BY <1>1 DEF IInv, OrderInv
<1>4. s \in segs /\ s \in Nat
  BY <1>2, <1>3, Shape DEF Firm, TypeInv, TypeOK
<1>5. SegOf(n) \in segs
  <2>1. SegOf(n) = s \/ SegOf(n) < s
    BY <1>1, <1>3, <1>4
  <2> QED
    BY <1>0, <1>1, <1>4, <2>1 DEF IInv, SegsInv
<1> QED
  BY <1>0, <1>1, <1>5 DEF IInv, IndexInv

\* The cursor that a checkpoint computes lies right in front of what is to stay.
LEMMA TargetFacts ==
    ASSUME IInv, TypeInv, Ready, pc # "rotate_barrier", Inflight = {}
    PROVE  /\ Target.seg \in segs /\ cursor.seg <= Target.seg
           /\ Target.before \subseteq indexed
           /\ IsPrefixOf(Target.before, In(disk, Target.seg))
           /\ Remaining \subseteq pending
           /\ Live(Target) = Remaining
           /\ Remaining \subseteq Past(Target)
<1>0. Loaded
  BY DEF Ready, Loaded
<1>1. /\ DOMAIN log \subseteq Nat /\ \A n \in DOMAIN log : SegOf(n) \in Nat
      /\ Active \in segs /\ Active \in Nat /\ \A s \in segs : s <= Active
      /\ cursor.seg \in Nat
  BY <1>0, Shape DEF SegOf
<1>2. /\ indexed \subseteq disk /\ disk \subseteq DOMAIN log
      /\ pending \subseteq indexed
      /\ \A n \in pending : SegOf(n) \in segs /\ n \in Past(cursor)
      /\ \A m \in pending, n \in indexed : m < n => n \in pending
  BY <1>0 DEF IInv, IndexInv, PendingInv, TypeInv, TypeOK
<1>3. \A m, n \in DOMAIN log : m < n => SegOf(m) <= SegOf(n)
  BY DEF IInv, OrderInv
<1>4. cursor.seg <= Active
  <2>1. cursor.seg <= ckpt.seg /\ stableDir # {} /\ dir = segs
    BY <1>0, <1>1 DEF IInv, CursorInv, Heads, SegsInv
  <2>2. ckpt.seg \in segs
    BY <2>1 DEF IInv, CkptInv, HeadInv, Heads, Firm
  <2>3. ckpt.seg \in Nat
    BY Shape
  <2> QED
    BY <2>1, <2>2, <2>3, <1>1
<1>5. Remaining \subseteq pending
  BY DEF Remaining, Behind
<1>6. \A m \in Remaining, n \in pending : m <= n => n \in Remaining
  <2> SUFFICES ASSUME NEW m \in Remaining, NEW n \in pending, m <= n PROVE n \in Remaining
    OBVIOUS
  <2>1. CASE op = "remove"
    <3>1. PICK l \in pending : l < m
      BY <2>1 DEF Remaining, Behind
    <3>2. l \in Nat /\ m \in Nat /\ n \in Nat
      BY <1>1, <1>2, <1>5
    <3>3. l < n
      BY <3>1, <3>2
    <3> QED
      BY <2>1, <3>3 DEF Remaining, Behind
  <2>2. CASE op # "remove"
    BY <2>2 DEF Remaining
  <2> QED
    BY <2>1, <2>2
<1>7. CASE Remaining = {}
  <2>1. Target = [seg |-> Active, before |-> In(indexed, Active)]
    BY <1>7 DEF Target, CursorAt
  <2>2. Target.seg = Active /\ Target.before = In(indexed, Active)
    BY <2>1
  <2>3. \A n \in disk : SegOf(n) = Active => n \in indexed
    BY <1>1, <1>4, LiveIndexed
  <2>4. \A n \in disk : ~ (SegOf(n) > Active)
    <3> SUFFICES ASSUME NEW n \in disk, SegOf(n) > Active PROVE FALSE
      OBVIOUS
    <3>1. cursor.seg <= SegOf(n)
      BY <1>1, <1>2, <1>4
    <3>2. SegOf(n) <= Active
      BY <3>1, LiveIndexed
    <3> QED
      BY <3>2, <1>1, <1>2
  <2>5. IsPrefixOf(Target.before, In(disk, Target.seg))
    BY <2>2, <2>3, <1>2 DEF IsPrefixOf, In
  <2>6. Live(Target) = {}
    BY <2>2, <2>3, <2>4 DEF Live, Past, In
  <2> QED
    BY <1>1, <1>4, <1>5, <1>7, <2>2, <2>5, <2>6 DEF In
<1>8. CASE Remaining # {}
  <2> DEFINE head == Min(Remaining)
  <2>1. Target = [seg |-> SegOf(head), before |-> {n \in In(indexed, SegOf(head)) : n < head}]
    BY <1>8 DEF Target, CursorAt
  <2>2. head \in Remaining /\ \A n \in Remaining : head <= n
    BY <1>1, <1>2, <1>5, <1>8, MinExists
  <2> HIDE DEF head
  <2>3. /\ Target.seg = SegOf(head)
        /\ \A n : n \in Target.before <=> n \in indexed /\ SegOf(n) = SegOf(head) /\ n < head
    BY <2>1 DEF In
  <2>4. head \in pending /\ head \in DOMAIN log /\ SegOf(head) \in segs
    BY <1>2, <1>5, <2>2
  <2>5. cursor.seg <= SegOf(head)
    BY <1>1, <1>2, <2>4 DEF Past
  <2>6. IsPrefixOf(Target.before, In(disk, Target.seg))
    <3>1. \A m \in disk : SegOf(m) = SegOf(head) => m \in indexed
      BY <2>5, LiveIndexed
    <3>2. \A m \in disk, n \in Target.before : SegOf(m) = SegOf(head) /\ m < n => m \in Target.before
      <4> SUFFICES ASSUME NEW m \in disk, NEW n \in Target.before, SegOf(m) = SegOf(head), m < n
                   PROVE  m \in Target.before
        OBVIOUS
      <4>1. m \in Nat /\ n \in Nat /\ head \in Nat /\ n < head
        BY <1>1, <1>2, <2>3, <2>4
      <4> QED
        BY <2>3, <3>1, <4>1
    <3> QED
      BY <1>2, <2>3, <3>2 DEF IsPrefixOf, In
  <2>7. \A n \in Remaining : n \in Past(Target)
    <3> SUFFICES ASSUME NEW n \in Remaining PROVE n \in Past(Target)
      OBVIOUS
    <3>1. n \in DOMAIN log /\ n \in Nat /\ head \in Nat /\ head <= n
      BY <1>1, <1>2, <1>5, <2>2, <2>4
    <3>2. SegOf(head) <= SegOf(n)
      <4>1. CASE n = head
        BY <1>1, <2>4, <4>1
      <4>2. CASE n # head
        BY <1>3, <2>4, <3>1, <4>2
      <4> QED
        BY <4>1, <4>2
    <3>3. SegOf(head) \in Nat /\ SegOf(n) \in Nat
      BY <1>1, <2>4, <3>1
    <3>4. \/ SegOf(n) > SegOf(head)
          \/ SegOf(n) = SegOf(head) /\ n \notin Target.before
      BY <2>3, <3>1, <3>2, <3>3
    <3> QED
      BY <2>3, <3>1, <3>4 DEF Past
  <2>8. \A n \in Live(Target) : n \in Remaining
    <3> SUFFICES ASSUME NEW n \in Live(Target) PROVE n \in Remaining
      OBVIOUS
    <3>1. /\ n \in disk /\ n \in DOMAIN log
          /\ \/ SegOf(n) > SegOf(head)
             \/ SegOf(n) = SegOf(head) /\ n \notin Target.before
      <4>1. n \in disk /\ n \in Past(Target)
        BY DEF Live
      <4>2. Target.seg = SegOf(head)
        BY <2>3
      <4>3. n \in DOMAIN log /\ SegOf(n) \in Nat /\ SegOf(head) \in Nat
        BY <1>1, <1>2, <2>4, <4>1
      <4> QED
        BY <4>1, <4>2, <4>3 DEF Past
    <3>2. /\ n \in Nat /\ head \in Nat /\ SegOf(n) \in Nat /\ SegOf(head) \in Nat
          /\ cursor.seg <= SegOf(n)
      BY <1>1, <2>4, <2>5, <3>1
    <3>3. n \in indexed
      BY <3>1, <3>2, LiveIndexed
    <3>4. head <= n
      <4>1. CASE SegOf(n) = SegOf(head)
        BY <2>3, <3>1, <3>2, <3>3, <4>1
      <4>2. CASE SegOf(n) > SegOf(head)
        <5>1. ~ (n < head)
          BY <1>3, <2>4, <3>1, <3>2, <4>2
        <5> QED
          BY <3>2, <5>1
      <4> QED
        BY <3>1, <4>1, <4>2
    <3>5. n \in pending
      <4>1. n = head \/ head < n
        BY <3>2, <3>4
      <4> QED
        BY <1>2, <2>4, <3>3, <4>1
    <3> QED
      BY <1>6, <2>2, <3>4, <3>5
  <2>9. Live(Target) = Remaining
    BY <1>2, <1>5, <2>7, <2>8 DEF Live
  <2> QED
    BY <1>5, <2>3, <2>4, <2>5, <2>6, <2>7, <2>9
<1> QED
  BY <1>7, <1>8

\* With everything synced, the new cursor may replace the checkpoint file at any time.
LEMMA TargetHead ==
    ASSUME IInv, TypeInv, Ready, pc # "rotate_barrier", Inflight = {}, ~ dirty,
           op = "remove" => pending # {} /\ Min(pending) \in released
    PROVE  /\ HeadInv(Target)
           /\ \A n \in pending \ released : n \in Past(Target)
           /\ pending \ released \subseteq Remaining
           /\ Live(Target) \subseteq Live(cursor)
<1>0. Loaded
  BY DEF Ready, Loaded
<1>1. /\ Target.seg \in segs /\ cursor.seg <= Target.seg
      /\ Target.before \subseteq indexed
      /\ IsPrefixOf(Target.before, In(disk, Target.seg))
      /\ Remaining \subseteq pending
      /\ Live(Target) = Remaining
      /\ Remaining \subseteq Past(Target)
  BY TargetFacts
<1>2. /\ indexed \subseteq disk /\ disk \subseteq synced /\ dir = segs /\ segs \subseteq stableDir
      /\ pending \subseteq indexed /\ \A n \in pending : n \in Past(cursor)
      /\ \A s \in stableDir : s <= Active
  BY <1>0 DEF IInv, IndexInv, SegsInv, PendingInv
<1>3. pending \ released \subseteq Remaining
  <2>1. CASE op = "remove"
    BY <2>1, HeadFacts DEF Remaining
  <2>2. CASE op # "remove"
    BY <2>2 DEF Remaining
  <2> QED
    BY <2>1, <2>2
<1>4. Live(Target) \subseteq Live(cursor)
  BY <1>1, <1>2 DEF Live
<1>5. \A s \in Possible, t \in SegIds : Target.seg <= t /\ t < s => t \in Firm
  <2> SUFFICES ASSUME NEW s \in Possible, NEW t \in SegIds, Target.seg <= t, t < s
               PROVE  t \in Firm
    OBVIOUS
  <2>1. /\ s \in Nat /\ t \in Nat /\ Target.seg \in Nat /\ cursor.seg \in Nat
        /\ Active \in segs /\ Active \in Nat /\ \A x \in segs : x <= Active
    BY <1>0, <1>1, Shape DEF Possible, TypeInv, TypeOK
  <2>2. s <= Active
    BY <1>2, <2>1 DEF Possible
  <2>3. cursor.seg <= t /\ t < Active
    BY <1>1, <2>1, <2>2
  <2>4. t \in segs
    BY <1>0, <2>1, <2>3 DEF IInv, SegsInv
  <2> QED
    BY <1>2, <2>4 DEF Firm
<1>6. \A n \in promised \ released : n \in synced /\ n \in Past(Target)
  BY <1>1, <1>2, <1>3 DEF IInv, NoLoss
<1>7. \A n \in retired : n \notin Live(Target)
  BY <1>1 DEF IInv, NoResurrection
<1>8. \A m, n \in Live(Target) : log[m].id = log[n].id => m = n
  BY <1>0, <1>4 DEF IInv, PendingInv
<1>9. Target.seg \in Firm /\ Target.before \subseteq synced
  BY <1>1, <1>2 DEF Firm
<1> QED
  BY <1>1, <1>3, <1>4, <1>5, <1>6, <1>7, <1>8, <1>9 DEF HeadInv

\* os.replace of the checkpoint file.
LEMMA ReplaceStep ==
    ASSUME IInv, TypeInv, TypeInv', ReplaceCheckpoint PROVE IInv'
<1>1. /\ pc = "persist" /\ pc' = "ckpt_barrier" /\ ckpt' = Target
      /\ UNCHANGED <<log, disk, synced, torn, dir, stableDir, stableCkpt, segs, indexed,
                     pending, completed, cursor, needsRewrite, dirty, op, batch,
                     promised, released, retired>>
  BY DEF ReplaceCheckpoint, object, history
<1>2. Loaded /\ Loaded' /\ Ready /\ Ready' /\ Inflight = {} /\ Inflight' = {}
  BY <1>1 DEF Ready, Loaded, Inflight
<1>3. /\ ~ dirty /\ (op = "remove" => pending # {} /\ Min(pending) \in released)
  BY <1>1, <1>2 DEF IInv, IndexInv, CallInv, Persisting
<1>4. PICK tg : tg = Target
  OBVIOUS
<1>5. /\ HeadInv(tg) /\ Live(tg) \subseteq Live(cursor) /\ cursor.seg <= tg.seg
      /\ \A n \in pending \ released : n \in Past(tg)
      /\ tg.seg \in segs
  BY <1>1, <1>2, <1>3, <1>4, TargetHead, TargetFacts
<1>6. OrderInv' /\ SyncInv' /\ FreshInv'
  <2>1. stableDir # {}
    BY <1>2, <1>5 DEF IInv, SegsInv
  <2> QED
    BY <1>1, <2>1 DEF IInv, FreshInv, OrderInv, SyncInv, SegOf, Firm, Possible, IsPrefixOf
<1>7. CkptInv'
  <2> SUFFICES ASSUME NEW c \in Heads' PROVE HeadInv(c)'
    BY DEF CkptInv
  <2>1. HeadInv(c)
    BY <1>1, <1>4, <1>5 DEF IInv, CkptInv, Heads
  <2> QED
    BY <1>1, <2>1 DEF HeadInv, Firm, Possible, IsPrefixOf, In, Past, Live, SegOf
<1>8. SegsInv' /\ IndexInv' /\ PendingInv'
  BY <1>1, <1>2, <1>3
     DEF IInv, SegsInv, Active, IndexInv, SegOf, PendingInv, Past, Live
<1>9. CursorInv'
  <2>1. Target' = Target
    BY <1>1 DEF Target, CursorAt, Remaining, Behind, Active, In, SegOf
  <2> QED
    BY <1>1, <1>2, <1>4, <1>5, <2>1 DEF IInv, CursorInv, Past, Live, SegOf, Heads
<1>10. CallInv' /\ QuietInv'
  BY <1>1, <1>2 DEF IInv, CallInv, QuietInv, Appending, Persisting, Cleaning, BatchIds, IdsOf
<1>11. NoLoss' /\ NoResurrection' /\ Reopenable'
  BY <1>1, <1>2 DEF IInv, NoLoss, NoResurrection, Reopenable
<1> QED
  BY <1>2, <1>6, <1>7, <1>8, <1>9, <1>10, <1>11 DEF IInv, TypeInv

\* The checkpoint is safe: FIFO and cursor advance, whether the file was written or not.
LEMMA SettleSteps ==
    ASSUME IInv, TypeInv, TypeInv', SkipCheckpoint \/ CheckpointBarrier PROVE IInv'
<1>1. /\ pc \in {"persist", "ckpt_barrier"} /\ pc' = "clean"
      /\ cursor' = Target /\ pending' = Remaining /\ completed' = {}
      /\ retired' = retired \cup (released \ Remaining)
      /\ UNCHANGED <<log, disk, synced, torn, dir, ckpt, segs, indexed, dirty,
                     op, batch, promised, released>>
  BY DEF SkipCheckpoint, CheckpointBarrier, Settle
<1>2. Loaded /\ Loaded' /\ Ready /\ Ready' /\ Inflight = {} /\ Inflight' = {}
  BY <1>1 DEF Ready, Loaded, Inflight
<1>3. /\ ~ dirty /\ (op = "remove" => pending # {} /\ Min(pending) \in released)
      /\ ~ needsRewrite
  BY <1>1, <1>2 DEF IInv, IndexInv, CallInv, CursorInv, Persisting
<1>4. PICK tg : tg = Target
  OBVIOUS
<1>5. /\ HeadInv(tg) /\ Live(tg) \subseteq Live(cursor) /\ cursor.seg <= tg.seg
      /\ \A n \in pending \ released : n \in Past(tg)
      /\ pending \ released \subseteq Remaining
      /\ tg.seg \in segs /\ tg.before \subseteq indexed
      /\ Remaining \subseteq pending /\ Live(tg) = Remaining /\ Remaining \subseteq Past(tg)
  BY <1>1, <1>2, <1>3, <1>4, TargetHead, TargetFacts
<1>6. /\ dir = segs /\ segs # {} /\ segs \subseteq stableDir /\ torn = {}
      /\ \A s \in stableDir : s <= Active
  BY <1>1, <1>2 DEF IInv, SegsInv
<1>7. /\ needsRewrite' = FALSE
      /\ \/ stableDir' = stableDir /\ stableCkpt' = stableCkpt /\ tg = cursor
         \/ stableDir' = dir /\ stableCkpt' = ckpt /\ ckpt = tg
  BY <1>1, <1>2, <1>3, <1>4
     DEF SkipCheckpoint, CheckpointBarrier, DirBarrier, MustPersist, IInv, CursorInv
<1>8. \A c \in Heads' : /\ c \in Heads /\ tg.seg <= c.seg /\ Live(c) \subseteq Live(tg)
                        /\ \A n \in pending \ released : n \in Past(c)
  <2>1. CASE stableCkpt' = stableCkpt /\ tg = cursor
    BY <1>1, <1>2, <2>1 DEF IInv, CursorInv, Heads
  <2>2. CASE stableCkpt' = ckpt /\ ckpt = tg
    <3>1. tg.seg \in Nat
      BY <2>2, Shape
    <3> QED
      BY <1>1, <1>5, <2>2, <3>1 DEF Heads
  <2> QED
    BY <1>7, <2>1, <2>2
<1>9. /\ stableDir' # {} /\ segs \subseteq stableDir' /\ stableDir' \subseteq stableDir
      /\ Firm \subseteq Firm' /\ Possible' \subseteq Possible
  BY <1>1, <1>6, <1>7 DEF Firm, Possible
<1>10. FreshInv' /\ OrderInv' /\ SyncInv'
  <2>1. OrderInv'
    BY <1>1, <1>6, <1>9 DEF IInv, OrderInv, SegOf
  <2> QED
    BY <1>1, <1>6, <1>9, <2>1 DEF IInv, FreshInv, SyncInv, SegOf, IsPrefixOf
<1>11. CkptInv'
  <2> SUFFICES ASSUME NEW c \in Heads' PROVE HeadInv(c)'
    BY DEF CkptInv
  <2>1. HeadInv(c)
    BY <1>8 DEF IInv, CkptInv
  <2>2. \A n \in retired' : n \notin Live(c)'
    <3>1. \A n \in retired' : n \notin Live(c)
      BY <1>1, <1>5, <1>8, <2>1 DEF HeadInv
    <3> QED
      BY <1>1, <3>1 DEF Live, Past, SegOf
  <2>3. /\ stableDir' # {} => c.seg \in Firm'
        /\ \A s \in Possible', t \in SegIds : c.seg <= t /\ t < s => t \in Firm'
    BY <1>6, <1>9, <2>1 DEF HeadInv
  <2>4. /\ c.before \subseteq synced' /\ IsPrefixOf(c.before, In(disk, c.seg))'
        /\ \A n \in promised' \ released' : n \in synced' /\ n \in Past(c)'
        /\ \A m, n \in Live(c)' : log'[m].id = log'[n].id => m = n
    BY <1>1, <2>1 DEF HeadInv, IsPrefixOf, In, Past, Live, SegOf
  <2> QED
    BY <2>2, <2>3, <2>4 DEF HeadInv
<1>12. SegsInv'
  <2>1. \A s \in segs, t \in SegIds : tg.seg <= t /\ t < s => t \in segs
    <3> SUFFICES ASSUME NEW s \in segs, NEW t \in SegIds, tg.seg <= t, t < s PROVE t \in segs
      OBVIOUS
    <3>1. tg.seg \in Nat /\ t \in Nat /\ cursor.seg \in Nat
      BY <1>5, Shape DEF TypeInv, TypeOK
    <3>2. cursor.seg <= t
      BY <1>5, <3>1
    <3> QED
      BY <1>2, <3>2 DEF IInv, SegsInv
  <2> QED
    BY <1>1, <1>2, <1>4, <1>6, <1>9, <2>1 DEF SegsInv, Active
<1>13. IndexInv'
  <2>1. disk \subseteq synced
    BY <1>2, <1>3 DEF IInv, IndexInv
  <2> QED
    BY <1>1, <1>2, <1>3, <2>1 DEF IInv, IndexInv, SegOf
<1>14. PendingInv'
  <2>1. \A n \in pending' : n \in indexed' /\ SegOf(n)' \in segs' /\ n \in Past(cursor)'
    <3>1. \A n \in Remaining : n \in indexed /\ SegOf(n) \in segs /\ n \in Past(tg)
      BY <1>2, <1>5 DEF IInv, PendingInv
    <3> QED
      BY <1>1, <1>4, <3>1 DEF Past, SegOf
  <2>2. \A m \in pending', n \in indexed' : m < n => n \in pending'
    <3> SUFFICES ASSUME NEW m \in Remaining, NEW n \in indexed, m < n PROVE n \in Remaining
      BY <1>1
    <3>1. m \in pending /\ n \in pending
      BY <1>2, <1>5 DEF IInv, PendingInv
    <3> QED
      BY <3>1 DEF Remaining, Behind
  <2>3. Live(cursor)' = pending'
    BY <1>1, <1>4, <1>5 DEF Live, Past, SegOf
  <2>4. \A m, n \in Live(cursor)' : log'[m].id = log'[n].id => m = n
    <3>1. \A m, n \in pending : log[m].id = log[n].id => m = n
      BY <1>2 DEF IInv, PendingInv, IndexInv, Live
    <3> QED
      BY <1>1, <1>5, <2>3, <3>1
  <2> QED
    BY <2>1, <2>2, <2>3, <2>4 DEF PendingInv
<1>15. CursorInv'
  <2>1. tg.before \subseteq synced /\ tg.seg \in SegIds
    BY <1>5 DEF HeadInv, TypeInv, TypeOK
  <2>2. \A c \in Heads' : /\ cursor'.seg <= c.seg /\ Live(c)' \subseteq Live(cursor)'
                          /\ \A n \in pending' \ released' : n \in Past(c)'
    BY <1>1, <1>4, <1>5, <1>8 DEF Live, Past, SegOf
  <2> QED
    BY <1>1, <1>2, <1>4, <1>7, <2>1, <2>2 DEF CursorInv
<1>16. CallInv' /\ QuietInv'
  <2>1. CallInv
    BY <1>2 DEF IInv
  <2>2. IdsOf(pending)' \subseteq IdsOf(pending)
    BY <1>1, <1>5 DEF IdsOf
  <2>3. BatchIds' = BatchIds
    BY <1>1 DEF BatchIds
  <2>4. Persisting /\ ~ Appending' /\ ~ Persisting'
    BY <1>1 DEF Persisting, Appending
  <2>5. CallInv'
    BY <1>1, <2>1, <2>2, <2>3, <2>4 DEF CallInv
  <2> QED
    BY <1>1, <2>5 DEF IInv, QuietInv
<1>17. NoLoss' /\ NoResurrection' /\ Reopenable'
  BY <1>1, <1>2, <1>5 DEF IInv, NoLoss, NoResurrection, Reopenable
<1> QED
  BY <1>2, <1>10, <1>11, <1>12, <1>13, <1>14, <1>15, <1>16, <1>17 DEF IInv, TypeInv
-----------------------------------------------------------------------------
(* Cleanup.                                                                *)

\* With everything synced, what is listed and not removed may be promised.
LEMMA MayPromise ==
    ASSUME IInv, TypeInv, Ready, ~ dirty, Inflight = {}
    PROVE  \A n \in pending \ released :
              n \in synced /\ \A c \in Heads : n \in Past(c)
<1>1. Loaded
  BY DEF Ready, Loaded
<1> QED
  BY <1>1 DEF IInv, IndexInv, PendingInv, CursorInv

\* Segments behind the cursor are deleted, and the deletion is made durable or not.
LEMMA CleanupSteps ==
    ASSUME IInv, TypeInv, TypeInv', Cleanup \/ CleanupBarrier PROVE IInv'
<1>1. /\ pc \in {"clean", "clean_barrier"}
      /\ UNCHANGED <<log, disk, synced, torn, ckpt, indexed, pending, completed, cursor,
                     needsRewrite, dirty, released, retired>>
  BY DEF Cleanup, CleanupBarrier, object
<1>2. Loaded /\ Ready /\ Inflight = {} /\ Cleaning
  BY <1>1 DEF Ready, Loaded, Inflight, Cleaning
<1>3. /\ ~ dirty /\ completed = {}
      /\ (op = "append" => batch # <<>>) /\ op \in {"append", "checkpoint", "remove"}
      /\ dir = segs /\ segs # {} /\ segs \subseteq stableDir /\ torn = {}
      /\ \A s \in stableDir : s <= Active
  BY <1>1, <1>2 DEF IInv, IndexInv, CallInv, SegsInv
<1>4. PICK gone \in SUBSET Removable :
         /\ dir' = dir \ gone /\ segs' = segs \ gone
         /\ \/ stableDir' = stableDir /\ stableCkpt' = stableCkpt
            \/ stableDir' = dir /\ stableCkpt' = ckpt /\ gone = {}
  <2>1. CASE Cleanup
    BY <2>1 DEF Cleanup
  <2>2. CASE CleanupBarrier
    <3>1. segs' = segs /\ dir' = dir
      BY <2>2 DEF CleanupBarrier, object
    <3>2. \/ stableDir' = stableDir /\ stableCkpt' = stableCkpt
          \/ stableDir' = dir /\ stableCkpt' = ckpt
      BY <2>2 DEF CleanupBarrier, DirBarrier
    <3> WITNESS {} \in SUBSET Removable
    <3> QED
      BY <3>1, <3>2
  <2> QED
    BY <2>1, <2>2
<1>5. \/ pc' = "append" /\ op = "append" /\ op' = op /\ batch' = batch /\ promised' = promised
      \/ pc' = "clean_barrier" /\ op' = op /\ batch' = batch /\ promised' = promised
      \/ /\ pc' = "idle" /\ op' = "none" /\ batch' = <<>>
         /\ promised' \in {promised, promised \cup pending}
  <2>1. CASE Finish
    BY <2>1 DEF Finish, ReuseAllowed, CheckpointReturns, Return
  <2>2. CASE ~ Finish
    BY <2>2 DEF Cleanup, CleanupBarrier
  <2> QED
    BY <2>1, <2>2
<1>6. Loaded' /\ Ready' /\ Inflight' = {} /\ pc' # "rotate_barrier" /\ ~ Persisting'
  BY <1>5 DEF Ready, Loaded, Inflight, Persisting
<1>7. /\ \A s \in gone : s \in segs /\ s < cursor.seg /\ s < Active
      /\ Active \in segs' /\ Active' = Active
  <2>1. /\ Active \in segs /\ Active \in Nat /\ \A s \in segs : s <= Active
        /\ \A s \in segs' : s <= Active'
        /\ Active' \in segs' /\ Active' \in Nat
    <3>1. segs' \subseteq 1 .. MaxSegmentId /\ segs' # {}
      BY <1>6 DEF TypeInv, TypeOK, SegIds
    <3>2. Active' = Max(segs')
      BY DEF Active
    <3>3. Active' \in segs' /\ \A s \in segs' : s <= Active'
      BY <3>1, <3>2, MaxExists, SegmentIdAssumption
    <3>4. Active' \in Nat
      BY <3>1, <3>3, SegmentIdAssumption
    <3>5. Active \in segs /\ Active \in Nat /\ \A s \in segs : s <= Active
      BY <1>2, Shape
    <3> QED
      BY <3>3, <3>4, <3>5
  <2>2. \A s \in gone : s \in segs /\ s < cursor.seg /\ s < Active
    BY <1>4 DEF Removable
  <2>3. Active \in segs'
    BY <1>4, <2>1, <2>2
  <2> QED
    BY <1>4, <2>1, <2>2, <2>3
<1>8. /\ segs' \subseteq stableDir' /\ stableDir' \subseteq stableDir /\ stableDir' # {}
      /\ Possible' \subseteq Possible /\ Heads' \subseteq Heads
      /\ Active \in Firm'
      /\ \A s \in Firm : s <= Active
  BY <1>1, <1>3, <1>4, <1>7 DEF Possible, Heads, Firm
<1>9. \A s \in Firm : cursor.seg <= s => s \in Firm'
  <2> SUFFICES ASSUME NEW s \in Firm, cursor.seg <= s PROVE s \in Firm'
    OBVIOUS
  <2>1. s \in Nat /\ cursor.seg \in Nat
    BY Shape DEF Firm, TypeInv, TypeOK
  <2>2. s \notin gone
    BY <1>7, <2>1
  <2> QED
    BY <1>3, <1>4, <2>2 DEF Firm
<1>10. FreshInv' /\ SyncInv'
  BY <1>1, <1>3, <1>8 DEF IInv, FreshInv, SyncInv, SegOf, IsPrefixOf
<1>11. OrderInv'
  <2>1. \A n \in DOMAIN log : SegOf(n) <= Active
    <3> SUFFICES ASSUME NEW n \in DOMAIN log PROVE SegOf(n) <= Active
      OBVIOUS
    <3>1. PICK s \in Firm : SegOf(n) <= s
      BY DEF IInv, OrderInv
    <3>2. SegOf(n) \in Nat /\ s \in Nat /\ Active \in Nat
      BY <1>2, Shape DEF SegOf, Firm, TypeInv, TypeOK
    <3> QED
      BY <1>8, <3>1, <3>2
  <2>2. \A s \in stableDir' : \E t \in dir' : s <= t
    BY <1>3, <1>4, <1>7, <1>8
  <2> QED
    BY <1>1, <1>3, <1>8, <2>1, <2>2 DEF IInv, OrderInv, SegOf
<1>12. CkptInv'
  <2> SUFFICES ASSUME NEW c \in Heads' PROVE HeadInv(c)'
    BY DEF CkptInv
  <2>1. HeadInv(c) /\ c \in Heads /\ c \in Cursors /\ c.seg \in Nat
    BY <1>8, Shape DEF IInv, CkptInv, Heads, TypeInv, TypeOK
  <2>2. cursor.seg <= c.seg
    BY <1>2, <2>1 DEF IInv, CursorInv
  <2>3. c.seg \in Firm'
    BY <1>3, <1>9, <2>1, <2>2 DEF HeadInv
  <2>4. \A s \in Possible', t \in SegIds : c.seg <= t /\ t < s => t \in Firm'
    <3> SUFFICES ASSUME NEW s \in Possible', NEW t \in SegIds, c.seg <= t, t < s
                 PROVE  t \in Firm'
      OBVIOUS
    <3>1. t \in Firm
      BY <1>8, <2>1 DEF HeadInv
    <3>2. cursor.seg \in Nat /\ t \in Nat
      BY Shape
    <3>3. cursor.seg <= t
      BY <2>1, <2>2, <3>2
    <3> QED
      BY <1>9, <3>1, <3>3
  <2>5. \A n \in promised' \ released' : n \in synced' /\ n \in Past(c)'
    <3> SUFFICES ASSUME NEW n \in promised' \ released PROVE n \in synced /\ n \in Past(c)
      BY <1>1 DEF Past, SegOf
    <3>1. CASE n \in promised
      BY <2>1, <3>1 DEF HeadInv
    <3>2. CASE n \in pending
      BY <1>2, <1>3, <2>1, <3>2, MayPromise
    <3> QED
      BY <1>5, <3>1, <3>2
  <2>6. /\ c.before \subseteq synced' /\ IsPrefixOf(c.before, In(disk, c.seg))'
        /\ \A n \in retired' : n \notin Live(c)'
        /\ \A m, n \in Live(c)' : log'[m].id = log'[n].id => m = n
    BY <1>1, <2>1 DEF HeadInv, IsPrefixOf, In, Past, Live, SegOf
  <2> QED
    BY <2>3, <2>4, <2>5, <2>6 DEF HeadInv
<1>13. SegsInv'
  <2>1. \A s \in segs', t \in SegIds : cursor.seg <= t /\ t < s => t \in segs'
    <3> SUFFICES ASSUME NEW s \in segs', NEW t \in SegIds, cursor.seg <= t, t < s
                 PROVE  t \in segs'
      OBVIOUS
    <3>1. t \in segs
      BY <1>2, <1>4 DEF IInv, SegsInv
    <3>2. t \in Nat /\ cursor.seg \in Nat
      BY Shape
    <3>3. t \notin gone
      BY <1>7, <3>2
    <3> QED
      BY <1>4, <3>1, <3>3
  <2> QED
    BY <1>1, <1>3, <1>4, <1>6, <1>7, <1>8, <2>1 DEF SegsInv
<1>14. IndexInv'
  <2>1. disk \subseteq synced /\ segs' \subseteq segs
    BY <1>2, <1>3, <1>4 DEF IInv, IndexInv
  <2> QED
    BY <1>1, <1>2, <1>3, <1>6, <2>1 DEF IInv, IndexInv, SegOf
<1>15. PendingInv'
  <2>1. \A n \in pending : SegOf(n) \in segs'
    <3> SUFFICES ASSUME NEW n \in pending PROVE SegOf(n) \in segs'
      OBVIOUS
    <3>1. SegOf(n) \in segs /\ n \in Past(cursor)
      BY <1>2 DEF IInv, PendingInv
    <3>2. SegOf(n) \in Nat /\ cursor.seg \in Nat
      BY Shape DEF TypeInv, TypeOK, SegOf
    <3>3. SegOf(n) \notin gone
      BY <1>7, <3>1, <3>2 DEF Past
    <3> QED
      BY <1>4, <3>1, <3>3
  <2> QED
    BY <1>1, <1>2, <1>6, <2>1 DEF IInv, PendingInv, Past, Live, SegOf
<1>16. CursorInv'
  <2>1. pc' # "ckpt_barrier"
    BY <1>5
  <2> QED
    BY <1>1, <1>2, <1>6, <1>8, <2>1 DEF IInv, CursorInv, Past, Live, SegOf
<1>17. CallInv' /\ QuietInv'
  <2>1. CallInv
    BY <1>2 DEF IInv
  <2>2. CASE pc' = "idle"
    BY <1>5, <2>2 DEF CallInv, QuietInv, Appending, Persisting, Cleaning, BatchIds
  <2>3. CASE pc' # "idle"
    <3>1. batch' = batch /\ op' = op /\ (pc' = "append" => op = "append")
          /\ pc' \in {"append", "clean_barrier"}
      BY <1>5, <2>3
    <3>2. IdsOf(pending)' = IdsOf(pending) /\ BatchIds' = BatchIds /\ IdsOf(Inflight)' = {}
      BY <1>1, <1>6, <3>1 DEF IdsOf, BatchIds
    <3> QED
      BY <1>1, <1>3, <1>6, <2>1, <3>1, <3>2
         DEF IInv, CallInv, QuietInv, Appending, Cleaning
  <2> QED
    BY <2>2, <2>3
<1>18. NoLoss' /\ NoResurrection' /\ Reopenable'
  BY <1>1, <1>2, <1>5, <1>6 DEF IInv, NoLoss, NoResurrection, Reopenable
<1> QED
  BY <1>6, <1>10, <1>11, <1>12, <1>13, <1>14, <1>15, <1>16, <1>17, <1>18 DEF IInv, TypeInv
-----------------------------------------------------------------------------
(* The append loop.                                                        *)

\* While a call appends, no frame in the files carries a message of the batch, except
\* removed ones that the cursor has passed.
LEMMA BatchIsNew ==
    ASSUME IInv, TypeInv, Appending, Inflight = {}, Ready,
           NEW c \in Heads \cup {cursor}, NEW n \in Live(c)
    PROVE  log[n].id \notin BatchIds
<1>0. Loaded
  BY DEF Ready, Loaded
<1>1. n \in Live(cursor)
  BY <1>0 DEF IInv, CursorInv
<1>2. n \in pending \/ log[n].id \in completed
  BY <1>0, <1>1 DEF IInv, PendingInv
<1>3. BatchIds \cap IdsOf(pending) = {} /\ BatchIds \cap completed = {}
  BY <1>0 DEF IInv, CallInv
<1> QED
  BY <1>2, <1>3 DEF IdsOf

\* write() of a chunk behind everything that is in the files.
LEMMA WriteStep ==
    ASSUME IInv, TypeInv, TypeInv', WriteChunk PROVE IInv'
<1>1. /\ pc = "append" /\ pc' = "written" /\ ~ SizeMismatch
      /\ UNCHANGED <<synced, torn, dir, stableDir, ckpt, stableCkpt, segs, indexed, pending,
                     completed, cursor, needsRewrite, dirty, op, promised, released, retired>>
  BY DEF WriteChunk, object, history
<1>2. Loaded /\ Loaded' /\ Ready /\ Ready' /\ Inflight = {} /\ Appending /\ Appending'
  BY <1>1 DEF Ready, Loaded, Inflight, Appending
<1>3. PICK k \in 1 .. Len(batch) :
         /\ Len(log') = Len(log) + k
         /\ DOMAIN log' = 1 .. (Len(log) + k)
         /\ \A n \in DOMAIN log : log'[n] = log[n]
         /\ \A n \in (Len(log) + 1) .. (Len(log) + k) :
               log'[n] = [id |-> batch[n - Len(log)], seg |-> Active]
         /\ disk' = disk \cup ((Len(log) + 1) .. (Len(log) + k))
         /\ batch' \in Seq(Ids) /\ Len(batch') = Len(batch) - k
         /\ \A i \in 1 .. Len(batch') : batch'[i] = batch[k + i]
  BY <1>2, WriteShape DEF TypeInv
<1> DEFINE new == (Len(log) + 1) .. (Len(log) + k)
<1>4. /\ Len(log) \in Nat /\ DOMAIN log = 1 .. Len(log) /\ DOMAIN log \subseteq Nat
      /\ \A n \in DOMAIN log : log[n].seg \in Nat
      /\ Active \in segs /\ Active \in Nat /\ \A s \in segs : s <= Active
      /\ cursor.seg \in Nat /\ Len(batch) \in Nat /\ k \in Nat
      /\ DOMAIN batch = 1 .. Len(batch)
  BY <1>2, Shape, LenProperties DEF TypeInv, TypeOK
<1>5. /\ dir = segs /\ segs \subseteq stableDir /\ torn = {}
      /\ \A s \in stableDir : s <= Active
  BY <1>1, <1>2 DEF IInv, SegsInv
<1>6. /\ DOMAIN log' = DOMAIN log \cup new /\ DOMAIN log \cap new = {}
      /\ \A m \in DOMAIN log, n \in new : m < n
      /\ new \subseteq Nat /\ disk' = disk \cup new
  BY <1>3, <1>4
<1>7. \A n \in new : log'[n].seg = Active /\ log'[n].id \in BatchIds
  <2> SUFFICES ASSUME NEW n \in new PROVE log'[n].seg = Active /\ log'[n].id \in BatchIds
    OBVIOUS
  <2>1. log'[n] = [id |-> batch[n - Len(log)], seg |-> Active]
    BY <1>3
  <2>2. n - Len(log) \in DOMAIN batch
    BY <1>4
  <2> QED
    BY <2>1, <2>2 DEF BatchIds
<1>8. \A m, n \in new : log'[m].id = log'[n].id => m = n
  <2> SUFFICES ASSUME NEW m \in new, NEW n \in new, log'[m].id = log'[n].id PROVE m = n
    OBVIOUS
  <2>1. batch[m - Len(log)] = batch[n - Len(log)]
    <3>1. /\ log'[m] = [id |-> batch[m - Len(log)], seg |-> Active]
          /\ log'[n] = [id |-> batch[n - Len(log)], seg |-> Active]
      BY <1>3
    <3> QED
      BY <3>1
  <2>2. m - Len(log) \in DOMAIN batch /\ n - Len(log) \in DOMAIN batch
    BY <1>4
  <2>3. m - Len(log) = n - Len(log)
    BY <1>2, <2>1, <2>2 DEF IInv, CallInv
  <2> QED
    BY <1>4, <2>3
<1>9. \A n \in DOMAIN log : SegOf(n) <= Active
  <2> SUFFICES ASSUME NEW n \in DOMAIN log PROVE SegOf(n) <= Active
    OBVIOUS
  <2>1. PICK s \in Firm : SegOf(n) <= s
    BY DEF IInv, OrderInv
  <2>2. s \in segs /\ s \in Nat /\ SegOf(n) \in Nat
    BY <1>4, <1>5, Shape DEF Firm, SegOf, TypeInv, TypeOK
  <2> QED
    BY <1>4, <2>1, <2>2
<1>10. disk \subseteq DOMAIN log /\ synced \subseteq disk /\ synced \subseteq DOMAIN log
       /\ indexed \subseteq DOMAIN log /\ pending \subseteq DOMAIN log
       /\ promised \subseteq DOMAIN log /\ released \subseteq DOMAIN log
       /\ retired \subseteq DOMAIN log
  BY DEF IInv, SyncInv, IsPrefixOf, TypeInv, TypeOK
<1>11. \A n \in DOMAIN log : SegOf(n)' = SegOf(n) /\ log'[n].id = log[n].id
  BY <1>3 DEF SegOf
<1>12. \A n \in new : SegOf(n)' = Active
  BY <1>7 DEF SegOf
<1> HIDE DEF new
<1>13. FreshInv'
  BY <1>1, <1>4, <1>5 DEF FreshInv
<1>14. OrderInv'
  <2>1. \A m, n \in DOMAIN log' : m < n => SegOf(m)' <= SegOf(n)'
    <3> SUFFICES ASSUME NEW m \in DOMAIN log', NEW n \in DOMAIN log', m < n
                 PROVE  SegOf(m)' <= SegOf(n)'
      OBVIOUS
    <3>1. CASE m \in DOMAIN log /\ n \in DOMAIN log
      BY <1>11, <3>1 DEF IInv, OrderInv
    <3>2. CASE m \in DOMAIN log /\ n \in new
      BY <1>9, <1>11, <1>12, <3>2
    <3>3. CASE m \in new /\ n \in DOMAIN log
      <4>1. n < m
        BY <1>6, <3>3
      <4>2. m \in Nat /\ n \in Nat
        BY <1>4, <1>6, <3>3
      <4> QED
        BY <4>1, <4>2
    <3>4. CASE m \in new /\ n \in new
      BY <1>4, <1>12, <3>4
    <3> QED
      BY <1>6, <3>1, <3>2, <3>3, <3>4
  <2>2. \A n \in DOMAIN log' : \E s \in Firm' : SegOf(n)' <= s
    <3>1. Active \in Firm'
      BY <1>1, <1>4, <1>5 DEF Firm
    <3> QED
      BY <1>4, <1>6, <1>9, <1>11, <1>12, <3>1
  <2> QED
    BY <1>1, <1>5, <2>1, <2>2 DEF IInv, OrderInv
<1>15. SyncInv'
  <2>1. IsPrefixOf(synced, disk)'
    <3> SUFFICES ASSUME NEW m \in disk', NEW n \in synced, SegOf(m)' = SegOf(n)', m < n
                 PROVE  m \in synced
      BY <1>1, <1>6, <1>10 DEF IsPrefixOf
    <3>1. m \notin new
      <4> SUFFICES ASSUME m \in new PROVE FALSE
        OBVIOUS
      <4>1. n < m /\ m \in Nat /\ n \in Nat
        BY <1>4, <1>6, <1>10
      <4> QED
        BY <4>1
    <3> QED
      BY <1>6, <1>10, <1>11, <3>1 DEF IInv, SyncInv, IsPrefixOf
  <2>2. \A n \in disk' \ synced', s \in Possible' : s <= SegOf(n)'
    <3> SUFFICES ASSUME NEW n \in disk' \ synced, NEW s \in Possible PROVE s <= SegOf(n)'
      BY <1>1 DEF Possible
    <3>1. CASE n \in disk
      BY <1>10, <1>11, <3>1 DEF IInv, SyncInv
    <3>2. CASE n \in new
      BY <1>4, <1>5, <1>12, <3>2 DEF Possible
    <3> QED
      BY <1>6, <3>1, <3>2
  <2> QED
    BY <1>1, <1>5, <2>1, <2>2 DEF SyncInv
<1>16. ASSUME NEW c \in Heads \cup {cursor}
       PROVE  /\ \A n \in DOMAIN log : n \in Past(c)' <=> n \in Past(c)
              /\ \A n \in DOMAIN log : n \in Live(c)' <=> n \in Live(c)
              /\ \A m, n \in Live(c)' : log'[m].id = log'[n].id => m = n
  <2>1. \A n \in DOMAIN log : n \in Past(c)' <=> n \in Past(c)
    BY <1>6, <1>11 DEF Past
  <2>2. \A n \in DOMAIN log : n \in Live(c)' <=> n \in Live(c)
    BY <1>6, <2>1 DEF Live
  <2>3. \A n \in Live(c)' : n \in Live(c) \/ n \in new
    BY <1>6, <1>10, <2>2 DEF Live
  <2>4. \A n \in Live(c) : n \in DOMAIN log /\ log[n].id \notin BatchIds
    BY <1>2, <1>10, BatchIsNew DEF Live
  <2>5. \A m, n \in Live(c) : log[m].id = log[n].id => m = n
    BY <1>2 DEF IInv, CkptInv, HeadInv, PendingInv
  <2> QED
    BY <1>7, <1>8, <1>11, <2>1, <2>2, <2>3, <2>4, <2>5
<1>17. CkptInv'
  <2> SUFFICES ASSUME NEW c \in Heads PROVE HeadInv(c)'
    BY <1>1 DEF CkptInv, Heads
  <2>1. HeadInv(c)
    BY DEF IInv, CkptInv
  <2>2. IsPrefixOf(c.before, In(disk, c.seg))'
    <3>1. c.before \subseteq synced /\ IsPrefixOf(c.before, In(disk, c.seg))
      BY <2>1 DEF HeadInv
    <3>2. \A n \in c.before : n \in disk /\ n \in DOMAIN log /\ SegOf(n) = c.seg
      BY <1>10, <3>1 DEF IsPrefixOf, In
    <3>3. \A m \in disk', n \in c.before :
             SegOf(m)' = c.seg /\ m < n => m \in c.before
      <4> SUFFICES ASSUME NEW m \in disk', NEW n \in c.before, SegOf(m)' = c.seg, m < n
                   PROVE  m \in c.before
        OBVIOUS
      <4>1. m \notin new
        <5> SUFFICES ASSUME m \in new PROVE FALSE
          OBVIOUS
        <5>1. n < m /\ m \in Nat /\ n \in Nat
          BY <1>4, <1>6, <3>2
        <5> QED
          BY <5>1
      <4>2. m \in disk /\ SegOf(m) = c.seg
        BY <1>6, <1>10, <1>11, <4>1
      <4> QED
        BY <3>1, <3>2, <4>2 DEF IsPrefixOf, In
    <3> QED
      BY <1>6, <1>11, <3>2, <3>3 DEF IsPrefixOf, In
  <2> QED
    BY <1>1, <1>10, <1>16, <2>1, <2>2 DEF HeadInv, Firm, Possible
<1>18. SegsInv'
  BY <1>1, <1>2 DEF IInv, SegsInv, Active
<1>19. Inflight' = new
  <2>1. Inflight' = {n \in disk' : SegOf(n)' = Active} \ indexed
    BY <1>1 DEF Inflight, In, Active
  <2>2. \A n \in disk : SegOf(n) = Active => n \in indexed
    BY <1>1 DEF SizeMismatch, In
  <2> QED
    BY <1>6, <1>10, <1>11, <1>12, <2>1, <2>2
<1>20. IndexInv'
  <2>1. \A n \in disk' : SegOf(n)' \in segs' => n \in indexed' \/ n \in Inflight'
    BY <1>1, <1>2, <1>6, <1>10, <1>11, <1>19 DEF IInv, IndexInv
  <2>2. Inflight' \cap (promised' \cup released' \cup retired' \cup synced') = {}
    BY <1>1, <1>6, <1>10, <1>19
  <2>3. ~ dirty' => disk' \ synced' \subseteq Inflight'
    BY <1>1, <1>2, <1>6, <1>19 DEF IInv, IndexInv
  <2>4. \A n \in indexed' : n \in disk'
    BY <1>1, <1>2, <1>6 DEF IInv, IndexInv
  <2> QED
    BY <1>1, <1>6, <1>10, <1>19, <2>1, <2>2, <2>3, <2>4 DEF IndexInv, Cleaning
<1>21. PendingInv'
  <2>1. \A n \in pending' : n \in indexed' /\ SegOf(n)' \in segs' /\ n \in Past(cursor)'
    <3>1. \A n \in pending : n \in indexed /\ SegOf(n) \in segs /\ n \in Past(cursor)
      BY <1>2 DEF IInv, PendingInv
    <3> QED
      BY <1>1, <1>10, <1>11, <1>16, <3>1 DEF Past
  <2>2. \A m \in pending', n \in indexed' : m < n => n \in pending'
    BY <1>1, <1>2 DEF IInv, PendingInv
  <2>3. \A n \in Live(cursor)' :
           n \in pending' \/ log'[n].id \in completed' \/ n \in Inflight'
    <3> SUFFICES ASSUME NEW n \in Live(cursor)', n \notin new
                 PROVE  n \in pending \/ log'[n].id \in completed
      BY <1>1, <1>19
    <3>1. n \in disk /\ n \in DOMAIN log
      BY <1>6, <1>10 DEF Live
    <3>2. n \in Live(cursor)
      BY <1>1, <1>16, <3>1 DEF Live, Past
    <3> QED
      BY <1>2, <1>11, <3>1, <3>2 DEF IInv, PendingInv
  <2>4. \A m, n \in Live(cursor)' : log'[m].id = log'[n].id => m = n
    BY <1>1, <1>16 DEF Live, Past
  <2> QED
    BY <2>1, <2>2, <2>3, <2>4 DEF PendingInv
<1>22. CursorInv'
  <2>1. ASSUME NEW c \in Heads
        PROVE  /\ cursor.seg <= c.seg
               /\ \A n \in pending \ released : n \in Past(c)'
               /\ \A n \in disk' : n \in Past(c)' => n \in Past(cursor)'
    <3>1. /\ cursor.seg <= c.seg /\ Live(c) \subseteq Live(cursor)
          /\ \A n \in pending \ released : n \in Past(c)
      BY <1>2 DEF IInv, CursorInv
    <3>2. \A n \in disk : n \in Past(c)' => n \in Past(cursor)'
      <4> SUFFICES ASSUME NEW n \in disk, n \in Past(c)' PROVE n \in Past(cursor)'
        OBVIOUS
      <4>1. n \in Live(c)
        BY <1>10, <1>16 DEF Live
      <4>2. n \in Past(cursor)
        BY <3>1, <4>1 DEF Live
      <4> QED
        BY <1>1, <1>10, <1>16, <4>2 DEF Past
    <3>3. \A n \in new : n \in Past(c)' => n \in Past(cursor)'
      <4> SUFFICES ASSUME NEW n \in new, n \in Past(c)' PROVE n \in Past(cursor)'
        OBVIOUS
      <4>1. n \in DOMAIN log' /\ SegOf(n)' = Active /\ n \notin synced
        BY <1>6, <1>10, <1>12
      <4>2. c.seg <= Active /\ c.seg \in Nat
        BY <1>4, <4>1, Shape DEF Past, Heads
      <4>3. cursor.seg <= Active
        BY <1>4, <3>1, <4>2
      <4>4. n \notin cursor.before
        BY <1>2, <4>1 DEF IInv, CursorInv
      <4>5. Active > cursor.seg \/ Active = cursor.seg
        BY <1>4, <4>3
      <4> QED
        BY <1>1, <4>1, <4>4, <4>5 DEF Past
    <3> QED
      BY <1>6, <1>10, <1>16, <3>1, <3>2, <3>3
  <2> QED
    BY <1>1, <1>2, <2>1 DEF IInv, CursorInv, Live, Heads
<1>23. CallInv' /\ QuietInv'
  <2>1. DOMAIN batch' = 1 .. Len(batch') /\ Len(batch') = Len(batch) - k
    BY <1>3, LenProperties
  <2>2. \A i \in DOMAIN batch' : k + i \in DOMAIN batch /\ batch'[i] = batch[k + i] /\ i \in Nat
    <3> SUFFICES ASSUME NEW i \in 1 .. Len(batch')
                 PROVE  k + i \in 1 .. Len(batch) /\ batch'[i] = batch[k + i] /\ i \in Nat
      BY <1>4, <2>1
    <3>1. i \in Nat /\ 1 <= i /\ i <= Len(batch) - k
      BY <1>4, <2>1
    <3>2. batch'[i] = batch[k + i]
      BY <1>3
    <3> QED
      BY <1>4, <3>1, <3>2
  <2>3. CallInv
    BY <1>2 DEF IInv
  <2>4. \A i, j \in DOMAIN batch' : batch'[i] = batch'[j] => i = j
    <3> SUFFICES ASSUME NEW i \in DOMAIN batch', NEW j \in DOMAIN batch', batch'[i] = batch'[j]
                 PROVE  i = j
      OBVIOUS
    <3>1. k + i = k + j
      BY <2>2, <2>3 DEF CallInv
    <3> QED
      BY <1>4, <2>2, <3>1
  <2>5. BatchIds' \subseteq BatchIds
    BY <2>2 DEF BatchIds
  <2>6. IdsOf(pending)' = IdsOf(pending)
    BY <1>1, <1>10, <1>11 DEF IdsOf
  <2>7. BatchIds' \cap IdsOf(Inflight)' = {}
    <3> SUFFICES ASSUME NEW i \in DOMAIN batch', NEW n \in new, batch'[i] = log'[n].id PROVE FALSE
      BY <1>19 DEF BatchIds, IdsOf
    <3>1. log'[n].id = batch[n - Len(log)] /\ n - Len(log) \in DOMAIN batch /\ n - Len(log) <= k
      <4>1. log'[n] = [id |-> batch[n - Len(log)], seg |-> Active]
        BY <1>3 DEF new
      <4>2. n - Len(log) \in 1 .. Len(batch) /\ n - Len(log) <= k
        BY <1>4 DEF new
      <4> QED
        BY <1>4, <4>1, <4>2
    <3>2. k + i = n - Len(log)
      BY <2>2, <2>3, <3>1 DEF CallInv
    <3>3. i >= 1 /\ i \in Nat
      BY <2>1, <2>2
    <3> QED
      BY <1>4, <3>1, <3>2, <3>3
  <2>8. op = "append"
    BY <1>2, <2>3 DEF CallInv
  <2> QED
    BY <1>1, <1>2, <2>3, <2>4, <2>5, <2>6, <2>7, <2>8
       DEF CallInv, QuietInv, Persisting, Cleaning
<1>24. NoLoss' /\ NoResurrection' /\ Reopenable'
  BY <1>1, <1>2 DEF IInv, NoLoss, NoResurrection, Reopenable
<1> QED
  BY <1>2, <1>13, <1>14, <1>15, <1>17, <1>18, <1>20, <1>21, <1>22, <1>23, <1>24
     DEF IInv, TypeInv

\* What is being written lies behind every cursor.
LEMMA InflightPast ==
    ASSUME IInv, TypeInv, pc = "written"
    PROVE  /\ Inflight \subseteq disk /\ Inflight \cap synced = {}
           /\ \A n \in Inflight : SegOf(n) = Active
           /\ \A n \in Inflight, c \in Heads \cup {cursor} : n \in Past(c)
<1>0. Loaded /\ Ready
  BY DEF Loaded, Ready
<1>1. /\ Inflight \subseteq disk /\ \A n \in Inflight : SegOf(n) = Active
      /\ Inflight \cap synced = {} /\ disk \subseteq DOMAIN log
  BY <1>0 DEF Inflight, In, IInv, IndexInv, TypeInv, TypeOK
<1>2. /\ Active \in Nat /\ \A s \in segs : s <= Active
      /\ dir = segs /\ segs \subseteq stableDir /\ segs # {}
  BY <1>0, Shape DEF IInv, SegsInv
<1>3. ASSUME NEW c \in Heads \cup {cursor}
      PROVE  c.seg \in Nat /\ c.seg <= Active /\ c.before \subseteq synced
  <2>1. c.seg \in Nat /\ cursor.seg \in Nat
    BY Shape DEF Heads
  <2>2. \A h \in Heads : h.seg \in segs /\ h.before \subseteq synced /\ cursor.seg <= h.seg
                         /\ h.seg \in Nat
    BY <1>0, <1>2, Shape DEF IInv, CkptInv, HeadInv, CursorInv, Firm, Heads
  <2>3. cursor.before \subseteq synced
    BY <1>0 DEF IInv, CursorInv
  <2>4. PICK h \in Heads : TRUE
    BY DEF Heads
  <2>5. cursor.seg <= h.seg /\ h.seg <= Active /\ h.seg \in Nat
    BY <1>2, <2>2
  <2>6. cursor.seg <= Active
    BY <1>2, <2>1, <2>5
  <2> QED
    BY <1>2, <2>1, <2>2, <2>3, <2>6
<1>4. ASSUME NEW n \in Inflight, NEW c \in Heads \cup {cursor} PROVE n \in Past(c)
  <2>1. n \in DOMAIN log /\ SegOf(n) = Active /\ n \notin c.before
    BY <1>1, <1>3
  <2>2. Active > c.seg \/ Active = c.seg
    BY <1>2, <1>3
  <2> QED
    BY <2>1, <2>2 DEF Past
<1> QED
  BY <1>1, <1>4

\* The chunk is synced or not, indexed, and reported when it was the last.
LEMMA IndexStep ==
    ASSUME IInv, TypeInv, TypeInv', IndexChunk PROVE IInv'
<1>1. /\ pc = "written" /\ indexed' = indexed \cup Inflight
      /\ pending' = pending \cup Inflight
      /\ UNCHANGED <<log, disk, torn, dir, stableDir, ckpt, stableCkpt, segs,
                     completed, cursor, needsRewrite, released, retired>>
  BY DEF IndexChunk
<1>2. \/ /\ batch # <<>> /\ pc' = "rotate_sync" /\ op' = op /\ batch' = batch
         /\ promised' = promised
      \/ /\ pc' = "idle" /\ op' = "none" /\ batch' = <<>>
         /\ promised' = promised \/ (ChunkSync /\ promised' = promised \cup pending')
  BY DEF IndexChunk, Return, ChunkSync
<1>3. Loaded /\ Loaded' /\ Ready /\ Ready' /\ Inflight' = {} /\ Appending
  BY <1>1, <1>2 DEF Ready, Loaded, Inflight, Appending
<1>4. /\ Inflight \subseteq disk /\ Inflight \cap synced = {}
      /\ \A n \in Inflight : SegOf(n) = Active
      /\ \A n \in Inflight, c \in Heads \cup {cursor} : n \in Past(c)
  BY <1>1, InflightPast
<1>5. synced \subseteq disk /\ disk \subseteq DOMAIN log /\ indexed \subseteq disk
  BY <1>3 DEF IInv, SyncInv, IsPrefixOf, IndexInv, TypeInv, TypeOK
<1>6. \/ ChunkSync /\ synced' = disk /\ dirty' = FALSE
      \/ ~ ChunkSync /\ synced' = synced /\ dirty' = TRUE
  <2>1. CASE ChunkSync
    <3>1. synced' = synced \cup In(disk, Active) /\ dirty' = FALSE
      BY <2>1 DEF IndexChunk
    <3>2. disk \subseteq synced'
      BY <1>1, <1>3, <3>1, UnsyncedActive DEF In
    <3> QED
      BY <1>5, <2>1, <3>1, <3>2 DEF In
  <2>2. CASE ~ ChunkSync
    BY <2>2 DEF IndexChunk
  <2> QED
    BY <2>1, <2>2
<1>7. synced \subseteq synced' /\ synced' \subseteq disk
  BY <1>5, <1>6
<1>8. FreshInv' /\ OrderInv'
  BY <1>1 DEF IInv, FreshInv, OrderInv, SegOf, Firm
<1>9. SyncInv'
  <2>1. IsPrefixOf(synced, disk)'
    BY <1>1, <1>6 DEF IInv, SyncInv, IsPrefixOf, SegOf
  <2> QED
    BY <1>1, <1>7, <2>1 DEF IInv, SyncInv, Possible, SegOf
<1>10. \A n \in pending' \ released, c \in Heads : n \in Past(c)
  BY <1>1, <1>3, <1>4 DEF IInv, CursorInv
<1>11. CkptInv'
  <2> SUFFICES ASSUME NEW c \in Heads PROVE HeadInv(c)'
    BY <1>1 DEF CkptInv, Heads
  <2>1. HeadInv(c)
    BY DEF IInv, CkptInv
  <2>2. \A n \in promised' \ released' : n \in synced' /\ n \in Past(c)'
    <3> SUFFICES ASSUME NEW n \in promised' \ released PROVE n \in synced' /\ n \in Past(c)
      BY <1>1 DEF Past, SegOf
    <3>1. CASE n \in promised
      BY <1>7, <2>1, <3>1 DEF HeadInv
    <3>2. CASE n \notin promised
      <4>1. n \in pending' /\ ChunkSync
        BY <1>2, <3>2
      <4>2. n \in disk
        BY <1>1, <1>3, <1>4, <1>5, <4>1 DEF IInv, PendingInv
      <4> QED
        BY <1>6, <1>10, <4>1, <4>2
    <3> QED
      BY <3>1, <3>2
  <2>3. /\ stableDir' # {} => c.seg \in Firm'
        /\ c.before \subseteq synced' /\ IsPrefixOf(c.before, In(disk, c.seg))'
        /\ \A s \in Possible', t \in SegIds : c.seg <= t /\ t < s => t \in Firm'
        /\ \A n \in retired' : n \notin Live(c)'
        /\ \A m, n \in Live(c)' : log'[m].id = log'[n].id => m = n
    BY <1>1, <1>7, <2>1 DEF HeadInv, Firm, Possible, IsPrefixOf, In, Past, Live, SegOf
  <2> QED
    BY <2>2, <2>3 DEF HeadInv
<1>12. SegsInv'
  BY <1>1, <1>2, <1>3 DEF IInv, SegsInv, Active
<1>13. IndexInv'
  <2>1. /\ \A n \in indexed' : n \in disk'
        /\ \A n \in disk' : SegOf(n)' \in segs' => n \in indexed' \/ n \in Inflight'
    BY <1>1, <1>3, <1>4 DEF IInv, IndexInv, SegOf
  <2>2. ~ dirty' => disk' \ synced' \subseteq Inflight'
    BY <1>1, <1>6
  <2> QED
    BY <1>2, <1>3, <2>1, <2>2 DEF IndexInv, Cleaning
<1>14. PendingInv'
  <2>1. \A n \in pending' : n \in indexed' /\ SegOf(n)' \in segs' /\ n \in Past(cursor)'
    <3>1. Active \in segs
      BY <1>3, Shape
    <3> QED
      BY <1>1, <1>3, <1>4, <3>1 DEF IInv, PendingInv, Past, SegOf
  <2>2. \A m \in pending', n \in indexed' : m < n => n \in pending'
    <3> SUFFICES ASSUME NEW m \in pending', NEW n \in indexed, m < n PROVE n \in pending'
      BY <1>1
    <3>1. CASE m \in pending
      BY <1>1, <1>3, <3>1 DEF IInv, PendingInv
    <3>2. CASE m \in Inflight
      <4>1. n < m
        BY <1>3, <3>2 DEF IInv, IndexInv
      <4>2. m \in Nat /\ n \in Nat
        BY <1>4, <1>5, <3>2, Shape
      <4> QED
        BY <4>1, <4>2
    <3> QED
      BY <1>1, <3>1, <3>2
  <2>3. \A n \in Live(cursor)' : n \in pending' \/ log'[n].id \in completed' \/ n \in Inflight'
    BY <1>1, <1>3 DEF IInv, PendingInv, Live, Past, SegOf
  <2>4. \A m, n \in Live(cursor)' : log'[m].id = log'[n].id => m = n
    BY <1>1, <1>3 DEF IInv, PendingInv, Live, Past, SegOf
  <2> QED
    BY <2>1, <2>2, <2>3, <2>4 DEF PendingInv
<1>15. CursorInv'
  <2>1. pc' # "ckpt_barrier"
    BY <1>2
  <2>2. \A c \in Heads' : /\ cursor'.seg <= c.seg /\ Live(c)' \subseteq Live(cursor)'
                          /\ \A n \in pending' \ released' : n \in Past(c)'
    BY <1>1, <1>3, <1>10 DEF IInv, CursorInv, Heads, Past, Live, SegOf
  <2> QED
    BY <1>1, <1>3, <1>7, <2>1, <2>2 DEF IInv, CursorInv
<1>16. CallInv' /\ QuietInv'
  <2>1. CallInv
    BY <1>3 DEF IInv
  <2>2. CASE pc' = "idle"
    BY <1>2, <2>2 DEF CallInv, QuietInv, Appending, Persisting, Cleaning, BatchIds
  <2>3. CASE pc' # "idle"
    <3>1. batch # <<>> /\ pc' = "rotate_sync" /\ op' = op /\ batch' = batch
      BY <1>2, <2>3
    <3>2. BatchIds' \cap IdsOf(pending)' = {}
      <4>1. BatchIds' = BatchIds /\ IdsOf(pending)' = IdsOf(pending) \cup IdsOf(Inflight)
        BY <1>1, <3>1 DEF BatchIds, IdsOf
      <4> QED
        BY <1>3, <2>1, <4>1 DEF CallInv
    <3>3. BatchIds' \cap (completed' \cup IdsOf(Inflight)') = {}
      <4>1. BatchIds' = BatchIds /\ IdsOf(Inflight)' = {}
        BY <1>3, <3>1 DEF BatchIds, IdsOf
      <4> QED
        BY <1>1, <1>3, <2>1, <4>1 DEF CallInv
    <3> QED
      BY <1>3, <2>1, <3>1, <3>2, <3>3 DEF CallInv, QuietInv, Appending, Persisting, Cleaning
  <2> QED
    BY <2>2, <2>3
<1>17. NoLoss' /\ NoResurrection' /\ Reopenable'
  <2>1. Inflight \cap retired = {}
    BY <1>3 DEF IInv, IndexInv
  <2> QED
    BY <1>1, <1>2, <1>3, <2>1 DEF IInv, NoLoss, NoResurrection, Reopenable
<1> QED
  BY <1>3, <1>8, <1>9, <1>11, <1>12, <1>13, <1>14, <1>15, <1>16, <1>17 DEF IInv, TypeInv

\* Losing unsynced frames of the chunk being written, whether or not its last frame is
\* cut in two, leaves the files in order.
LEMMA LostTail ==
    ASSUME IInv, TypeInv, disk' \subseteq disk, synced \subseteq disk',
           UNCHANGED <<log, synced, dir, stableDir, ckpt, stableCkpt,
                       promised, released, retired>>,
           torn' = torn \/ (pc = "written" /\ torn' = torn \cup {Active})
    PROVE  FilesInv'
<1>1. pc = "written" => /\ Active \in Firm /\ stableDir # {}
                        /\ \A s \in Possible : s <= Active
  <2> SUFFICES ASSUME pc = "written" PROVE Active \in Firm /\ stableDir # {}
                                           /\ \A s \in Possible : s <= Active
    OBVIOUS
  <2>1. Loaded /\ Ready
    BY DEF Loaded, Ready
  <2>2. /\ Active \in segs /\ \A s \in segs : s <= Active
        /\ dir = segs /\ segs \subseteq stableDir /\ \A s \in stableDir : s <= Active
    BY <2>1, Shape DEF IInv, SegsInv
  <2> QED
    BY <2>2 DEF Firm, Possible
<1>2. Firm' = Firm /\ Possible' = Possible /\ Heads' = Heads
  BY DEF Firm, Possible, Heads
<1>3. FreshInv'
  BY <1>1 DEF IInv, FreshInv
<1>4. OrderInv'
  <2>1. \A t \in torn' : \E s \in Firm : t <= s
    <3>1. pc = "written" => Active \in Nat
      BY Shape DEF Loaded
    <3> QED
      BY <1>1, <3>1 DEF IInv, OrderInv
  <2> QED
    BY <1>2, <2>1 DEF IInv, OrderInv, SegOf
<1>5. SyncInv'
  <2>1. IsPrefixOf(synced, disk)'
    BY DEF IInv, SyncInv, IsPrefixOf, SegOf
  <2>2. \A t \in torn', s \in Possible : s <= t
    BY <1>1 DEF IInv, SyncInv
  <2> QED
    BY <1>2, <2>1, <2>2 DEF IInv, SyncInv, SegOf
<1>6. CkptInv'
  <2> SUFFICES ASSUME NEW c \in Heads PROVE HeadInv(c)'
    BY <1>2 DEF CkptInv
  <2>1. HeadInv(c)
    BY DEF IInv, CkptInv
  <2>2. IsPrefixOf(c.before, In(disk, c.seg))'
    BY <2>1 DEF HeadInv, IsPrefixOf, In, SegOf
  <2>3. Live(c)' \subseteq Live(c) /\ Past(c)' = Past(c)
    BY DEF Live, Past, SegOf
  <2> QED
    BY <1>2, <2>1, <2>2, <2>3 DEF HeadInv
<1> QED
  BY <1>3, <1>4, <1>5, <1>6 DEF FilesInv

\* A failed append that is rolled back.
LEMMA RollbackStep ==
    ASSUME IInv, TypeInv, TypeInv', AppendFails, Repaired PROVE IInv'
<1>0. "rollback" \notin Faults
  BY DEF Repaired, UnrepairedFaults
<1>1. /\ pc = "written" /\ disk' = disk \ Inflight
      /\ pc' = "idle" /\ op' = "none" /\ batch' = <<>>
      /\ UNCHANGED <<log, synced, torn, dir, stableDir, ckpt, stableCkpt, segs, indexed,
                     pending, completed, cursor, needsRewrite, dirty,
                     promised, released, retired>>
  BY <1>0 DEF AppendFails, Return, object, history
<1>2. Loaded /\ Loaded' /\ Ready /\ Ready' /\ Inflight' = {}
  BY <1>1 DEF Ready, Loaded, Inflight
<1>3. Inflight \cap synced = {} /\ synced \subseteq disk /\ Inflight \cap indexed = {}
  BY <1>1, <1>2 DEF IInv, IndexInv, SyncInv, IsPrefixOf, Inflight
<1>4. FilesInv'
  BY <1>1, <1>3, LostTail
<1>5. SegsInv'
  BY <1>1, <1>2 DEF IInv, SegsInv, Active
<1>6. IndexInv'
  BY <1>1, <1>2, <1>3 DEF IInv, IndexInv, SegOf, Cleaning
<1>8. PendingInv'
  <2>1. \A n \in pending' : n \in indexed' /\ SegOf(n)' \in segs' /\ n \in Past(cursor)'
    BY <1>1, <1>2 DEF IInv, PendingInv, Past, SegOf
  <2>2. \A n \in Live(cursor)' : n \in pending \/ log[n].id \in completed
    BY <1>1, <1>2 DEF IInv, PendingInv, Live, Past, SegOf
  <2>3. \A m, n \in Live(cursor)' : log[m].id = log[n].id => m = n
    BY <1>1, <1>2 DEF IInv, PendingInv, Live, Past, SegOf
  <2>4. \A m \in pending', n \in indexed' : m < n => n \in pending'
    BY <1>1, <1>2 DEF IInv, PendingInv
  <2> QED
    BY <1>1, <2>1, <2>2, <2>3, <2>4 DEF PendingInv
<1>9. CursorInv'
  <2>1. \A c \in Heads' : /\ cursor'.seg <= c.seg /\ Live(c)' \subseteq Live(cursor)'
                          /\ \A n \in pending' \ released' : n \in Past(c)'
    BY <1>1, <1>2 DEF IInv, CursorInv, Heads, Past, Live, SegOf
  <2> QED
    BY <1>1, <1>2, <2>1 DEF IInv, CursorInv
<1>10. CallInv' /\ QuietInv'
  BY <1>1 DEF CallInv, QuietInv, Appending, Persisting, Cleaning, BatchIds
<1>11. NoLoss' /\ NoResurrection' /\ Reopenable'
  BY <1>1, <1>2 DEF IInv, NoLoss, NoResurrection, Reopenable
<1> QED
  BY <1>2, <1>4, <1>5, <1>6, <1>8, <1>9, <1>10, <1>11 DEF IInv, TypeInv, FilesInv
-----------------------------------------------------------------------------
(* Rotation.                                                               *)

\* A rotation reaches the directory with everything synced and every entry durable.
LEMMA RotationFacts ==
    ASSUME IInv, TypeInv, pc \in {"install", "rotate_barrier"}
    PROVE  /\ Loaded /\ Ready /\ Inflight = {} /\ Appending /\ op = "append" /\ batch # <<>>
           /\ ~ dirty /\ disk \subseteq synced /\ torn = {}
           /\ segs # {} /\ segs \subseteq stableDir /\ \A s \in stableDir : s <= Active
           /\ Active \in segs /\ Active \in Nat /\ \A s \in segs : s <= Active
           /\ Active + 1 \notin stableDir /\ Active + 1 \notin segs
           /\ \A n \in DOMAIN log : SegOf(n) \in Nat /\ SegOf(n) <= Active
<1>1. Loaded /\ Ready /\ Inflight = {} /\ Appending
  BY DEF Loaded, Ready, Inflight, Appending
<1>2. /\ segs # {} /\ segs \subseteq stableDir /\ \A s \in stableDir : s <= Active
      /\ ~ dirty /\ disk \subseteq synced /\ torn = {} /\ op = "append" /\ batch # <<>>
  BY <1>1 DEF IInv, SegsInv, IndexInv, CallInv
<1>3. Active \in segs /\ Active \in Nat /\ \A s \in segs : s <= Active
  BY <1>1, Shape
<1>4. Active + 1 \notin stableDir
  <2>1. ~ (Active + 1 <= Active)
    BY <1>3
  <2> QED
    BY <1>2, <2>1
<1>5. \A n \in DOMAIN log : SegOf(n) \in Nat /\ SegOf(n) <= Active
  <2> SUFFICES ASSUME NEW n \in DOMAIN log PROVE SegOf(n) \in Nat /\ SegOf(n) <= Active
    OBVIOUS
  <2>1. PICK s \in Firm : SegOf(n) <= s
    BY DEF IInv, OrderInv
  <2>2. s \in Nat /\ s <= Active /\ SegOf(n) \in Nat
    BY <1>2, Shape DEF Firm, TypeInv, TypeOK, SegOf
  <2> QED
    BY <1>3, <2>1, <2>2
<1> QED
  BY <1>1, <1>2, <1>3, <1>4, <1>5

\* The new segment appears in the directory.
LEMMA InstallStep ==
    ASSUME IInv, TypeInv, TypeInv', InstallSegment PROVE IInv'
<1>1. /\ pc = "install" /\ pc' = "rotate_barrier" /\ dir' = dir \cup {Active + 1}
      /\ UNCHANGED <<log, disk, synced, torn, stableDir, ckpt, stableCkpt, segs, indexed,
                     pending, completed, cursor, needsRewrite, dirty, op, batch,
                     promised, released, retired>>
  BY DEF InstallSegment, object, history
<1>2. /\ Loaded /\ Ready /\ Inflight = {} /\ Appending /\ op = "append" /\ batch # <<>>
      /\ ~ dirty /\ disk \subseteq synced /\ torn = {}
      /\ segs # {} /\ segs \subseteq stableDir /\ \A s \in stableDir : s <= Active
      /\ Active \in segs /\ Active \in Nat /\ \A s \in segs : s <= Active
      /\ Active + 1 \notin stableDir
  BY <1>1, RotationFacts
<1>3. Loaded' /\ Ready' /\ Inflight' = {} /\ Active' = Active /\ Appending'
      /\ ~ Persisting' /\ ~ Cleaning'
  BY <1>1 DEF Ready, Loaded, Inflight, Active, Appending, Persisting, Cleaning
<1>4. dir = segs
  BY <1>1, <1>2 DEF IInv, SegsInv
<1>5. Firm' = Firm /\ Possible' = Possible \cup {Active + 1} /\ Heads' = Heads
  BY <1>1, <1>2 DEF Firm, Possible, Heads
<1>6. FreshInv' /\ OrderInv'
  BY <1>1, <1>2, <1>5 DEF IInv, FreshInv, OrderInv, SegOf
<1>7. SyncInv'
  BY <1>1, <1>2 DEF IInv, SyncInv, IsPrefixOf, SegOf
<1>8. CkptInv'
  <2> SUFFICES ASSUME NEW c \in Heads PROVE HeadInv(c)'
    BY <1>5 DEF CkptInv
  <2>1. HeadInv(c)
    BY DEF IInv, CkptInv
  <2>2. \A s \in Possible', t \in SegIds : c.seg <= t /\ t < s => t \in Firm'
    <3> SUFFICES ASSUME NEW s \in Possible', NEW t \in SegIds, c.seg <= t, t < s
                 PROVE  t \in Firm
      BY <1>5
    <3>1. CASE s \in Possible
      BY <2>1, <3>1 DEF HeadInv
    <3>2. CASE s = Active + 1
      <4>1. t \in Nat
        BY Shape
      <4>2. t = Active \/ t < Active
        BY <1>2, <3>2, <4>1
      <4>3. Active \in Firm /\ Active \in Possible
        BY <1>2, <1>4 DEF Firm, Possible
      <4> QED
        BY <2>1, <4>2, <4>3 DEF HeadInv
    <3> QED
      BY <1>5, <3>1, <3>2
  <2> QED
    BY <1>1, <1>5, <2>1, <2>2 DEF HeadInv, IsPrefixOf, In, Past, Live, SegOf
<1>9. SegsInv'
  BY <1>1, <1>2, <1>3, <1>4 DEF IInv, SegsInv
<1>10. IndexInv' /\ PendingInv'
  BY <1>1, <1>2, <1>3 DEF IInv, IndexInv, PendingInv, Past, Live, SegOf
<1>11. CursorInv'
  BY <1>1, <1>2, <1>3, <1>5 DEF IInv, CursorInv, Past, Live, SegOf
<1>12. CallInv' /\ QuietInv'
  BY <1>1, <1>2, <1>3 DEF IInv, CallInv, QuietInv, BatchIds, IdsOf
<1>13. NoLoss' /\ NoResurrection' /\ Reopenable'
  BY <1>1, <1>2, <1>3 DEF IInv, NoLoss, NoResurrection, Reopenable
<1> QED
  BY <1>3, <1>6, <1>7, <1>8, <1>9, <1>10, <1>11, <1>12, <1>13 DEF IInv, TypeInv

\* The directory is synced and the new segment is in use.
LEMMA RegisterStep ==
    ASSUME IInv, TypeInv, TypeInv', RegisterSegment PROVE IInv'
<1>1. /\ pc = "rotate_barrier" /\ pc' = "append" /\ segs' = segs \cup {Active + 1}
      /\ stableDir' = dir /\ stableCkpt' = ckpt
      /\ UNCHANGED <<log, disk, synced, torn, dir, ckpt, indexed, pending, completed,
                     cursor, needsRewrite, dirty, op, batch, promised, released, retired>>
  BY DEF RegisterSegment, DirBarrier, history
<1>2. /\ Loaded /\ Ready /\ Inflight = {} /\ Appending /\ op = "append" /\ batch # <<>>
      /\ ~ dirty /\ disk \subseteq synced /\ torn = {}
      /\ segs # {} /\ segs \subseteq stableDir /\ \A s \in stableDir : s <= Active
      /\ Active \in segs /\ Active \in Nat /\ \A s \in segs : s <= Active
      /\ \A n \in DOMAIN log : SegOf(n) \in Nat /\ SegOf(n) <= Active
  BY <1>1, RotationFacts
<1>3. Loaded' /\ Ready' /\ Inflight' = {} /\ Appending' /\ ~ Persisting' /\ ~ Cleaning'
  BY <1>1 DEF Ready, Loaded, Inflight, Appending, Persisting, Cleaning
<1>4. dir = segs \cup {Active + 1}
  BY <1>1, <1>2 DEF IInv, SegsInv
<1>5. Active' \in segs' /\ \A s \in segs' : s <= Active'
  <2>1. segs' \subseteq 1 .. MaxSegmentId /\ segs' # {}
    BY <1>1, <1>2 DEF TypeInv, TypeOK, SegIds
  <2> QED
    BY <2>1, MaxExists, SegmentIdAssumption DEF Active
<1>6. Firm \subseteq Firm' /\ Possible' \subseteq Possible /\ Heads' \subseteq Heads
      /\ stableDir' # {} /\ Firm' = dir
  BY <1>1, <1>4 DEF Firm, Possible, Heads
<1>7. FreshInv' /\ SyncInv'
  BY <1>1, <1>2, <1>6 DEF IInv, FreshInv, SyncInv, SegOf, IsPrefixOf
<1>8. OrderInv'
  <2>1. \A s \in stableDir' : \E t \in dir' : s <= t
    <3>1. \A s \in dir : s \in Nat
      BY Shape DEF TypeInv, TypeOK
    <3>2. \A s \in dir : s <= s
      BY <3>1
    <3> QED
      BY <1>1, <3>2
  <2> QED
    BY <1>1, <1>2, <1>6, <2>1 DEF IInv, OrderInv, SegOf
<1>9. CkptInv'
  <2> SUFFICES ASSUME NEW c \in Heads' PROVE HeadInv(c)'
    BY DEF CkptInv
  <2>1. HeadInv(c) /\ stableDir # {}
    BY <1>2, <1>6 DEF IInv, CkptInv
  <2>2. /\ c.seg \in Firm'
        /\ \A s \in Possible', t \in SegIds : c.seg <= t /\ t < s => t \in Firm'
    BY <1>6, <2>1 DEF HeadInv
  <2> QED
    BY <1>1, <2>1, <2>2 DEF HeadInv, IsPrefixOf, In, Past, Live, SegOf
<1>10. SegsInv'
  <2>1. \A s \in segs', t \in SegIds : cursor.seg <= t /\ t < s => t \in segs'
    <3> SUFFICES ASSUME NEW s \in segs', NEW t \in SegIds, cursor.seg <= t, t < s
                 PROVE  t \in segs'
      OBVIOUS
    <3>1. CASE s \in segs
      BY <1>1, <1>2, <3>1 DEF IInv, SegsInv
    <3>2. CASE s = Active + 1
      <4>1. t \in Nat
        BY Shape
      <4>2. t = Active \/ t < Active
        BY <1>2, <3>2, <4>1
      <4> QED
        BY <1>1, <1>2, <4>2 DEF IInv, SegsInv
    <3> QED
      BY <1>1, <3>1, <3>2
  <2> QED
    BY <1>1, <1>2, <1>3, <1>4, <1>5, <2>1 DEF SegsInv
<1>11. IndexInv'
  <2>1. \A n \in disk' : SegOf(n)' \in segs' => n \in indexed' \/ n \in Inflight'
    <3> SUFFICES ASSUME NEW n \in disk, SegOf(n) \in segs \cup {Active + 1} PROVE n \in indexed
      BY <1>1 DEF SegOf
    <3>1. n \in DOMAIN log
      BY DEF TypeInv, TypeOK
    <3>2. SegOf(n) # Active + 1
      BY <1>2, <3>1
    <3> QED
      BY <1>2, <3>2 DEF IInv, IndexInv
  <2> QED
    BY <1>1, <1>2, <1>3, <2>1 DEF IInv, IndexInv
<1>12. PendingInv'
  BY <1>1, <1>2, <1>3 DEF IInv, PendingInv, Past, Live, SegOf
<1>13. CursorInv'
  <2>1. pc' # "ckpt_barrier"
    BY <1>1
  <2> QED
    BY <1>1, <1>2, <1>3, <1>6, <2>1 DEF IInv, CursorInv, Past, Live, SegOf
<1>14. CallInv' /\ QuietInv'
  BY <1>1, <1>2, <1>3 DEF IInv, CallInv, QuietInv, BatchIds, IdsOf
<1>15. NoLoss' /\ NoResurrection' /\ Reopenable'
  BY <1>1, <1>2, <1>3 DEF IInv, NoLoss, NoResurrection, Reopenable
<1> QED
  BY <1>3, <1>7, <1>8, <1>9, <1>10, <1>11, <1>12, <1>13, <1>14, <1>15 DEF IInv, TypeInv
-----------------------------------------------------------------------------
(* Crashes.                                                                *)

\* After a crash only the files count.
LEMMA GoneStep ==
    ASSUME TypeInv', FilesInv', Gone, pc' = "closed"
    PROVE  IInv'
<1>1. ~ Loaded' /\ ~ Ready' /\ op' = "none" /\ batch' = <<>>
  BY DEF Loaded, Ready, Gone
<1> QED
  BY <1>1 DEF IInv, TypeInv, FilesInv, Reopenable, NoLoss, NoResurrection, QuietInv

\* A constructor that raises, and the death of the process.
LEMMA KillSteps ==
    ASSUME IInv, TypeInv, TypeInv', OpenRaises \/ Kill PROVE IInv'
<1>0. synced \subseteq disk /\ (Loaded => Inflight \cap synced = {})
  BY DEF IInv, SyncInv, IsPrefixOf, IndexInv
<1>1. CASE OpenRaises
  <2>1. Gone /\ pc' = "closed" /\ UNCHANGED <<files, history>>
    BY <1>1 DEF OpenRaises
  <2>2. FilesInv'
    BY <1>0, <2>1, LostTail DEF files, history
  <2> QED
    BY <2>1, <2>2, GoneStep
<1>2. CASE Kill
  <2>1. PICK keep \in SUBSET Inflight, cut \in BOOLEAN :
           /\ cut => keep # Inflight
           /\ disk' = (disk \ Inflight) \cup keep
           /\ torn' = IF cut THEN torn \cup {Active} ELSE torn
    BY <1>2 DEF Kill
  <2>2. /\ Loaded /\ pc' = "closed" /\ Gone
        /\ UNCHANGED <<log, synced, dir, stableDir, ckpt, stableCkpt,
                       promised, released, retired>>
    BY <1>2 DEF Kill, Loaded, history
  <2>3. Inflight \subseteq disk /\ (pc # "written" => Inflight = {})
    BY DEF Inflight, In
  <2>4. disk' \subseteq disk /\ synced \subseteq disk'
    BY <1>0, <2>1, <2>2, <2>3
  <2>5. torn' = torn \/ (pc = "written" /\ torn' = torn \cup {Active})
    BY <2>1, <2>3
  <2>6. FilesInv'
    BY <2>2, <2>4, <2>5, LostTail
  <2> QED
    BY <2>2, <2>6, GoneStep
<1> QED
  BY <1>1, <1>2

\* A power loss.
LEMMA PowerLossStep ==
    ASSUME IInv, TypeInv, TypeInv', PowerLoss PROVE IInv'
<1>1. PICK keep \in SUBSET (disk \ synced) :
         /\ disk' = synced \cup keep /\ synced' = synced \cup keep
         /\ \E cut \in SUBSET {SegOf(n) : n \in disk \ (synced \cup keep)} :
               torn' = torn \cup cut
  BY DEF PowerLoss
<1>2. PICK cut \in SUBSET {SegOf(n) : n \in disk \ (synced \cup keep)} : torn' = torn \cup cut
  BY <1>1
<1>3. /\ dir' \subseteq Possible /\ Firm \subseteq dir'
      /\ stableDir = {} => dir' \in {{}, dir}
      /\ stableDir' = dir' /\ ckpt' \in Heads /\ stableCkpt' = ckpt'
      /\ pc' = "closed" /\ Gone
      /\ UNCHANGED <<log, promised, released, retired>>
  BY DEF PowerLoss, Possible, Firm, Heads, history
<1>4. synced \subseteq disk /\ disk' \subseteq disk /\ synced \subseteq disk' /\ synced' = disk'
      /\ disk \subseteq DOMAIN log
  BY <1>1 DEF IInv, SyncInv, IsPrefixOf, TypeInv, TypeOK
<1>5. Firm' = dir' /\ Possible' = dir' /\ Heads' = {ckpt'}
  BY <1>3 DEF Firm, Possible, Heads
<1>6. \A t \in torn' : t \in torn \/ \E n \in disk \ synced : t = SegOf(n)
  BY <1>2
<1>7. stableDir # {} => \A c \in Heads : c.seg \in Firm
  BY DEF IInv, CkptInv, HeadInv
<1>8. FreshInv'
  <2> SUFFICES ASSUME dir' = {}
               PROVE  log = <<>> /\ torn' = {} /\ ckpt' = Origin /\ stableCkpt' = Origin
    BY <1>3 DEF FreshInv
  <2>1. stableDir = {}
    <3>1. ckpt \in Heads
      BY DEF Heads
    <3> QED
      BY <1>3, <1>7, <3>1
  <2>2. log = <<>> /\ torn = {} /\ ckpt = Origin /\ stableCkpt = Origin
    BY <2>1 DEF IInv, FreshInv
  <2>3. disk = {}
    BY <1>4, <2>2
  <2> QED
    BY <1>3, <1>6, <2>2, <2>3 DEF Heads
<1>9. OrderInv'
  <2>1. \A n \in DOMAIN log : \E s \in dir' : SegOf(n) <= s
    BY <1>3 DEF IInv, OrderInv
  <2>2. \A t \in torn' : \E s \in dir' : t <= s
    BY <1>3, <1>4, <1>6, <2>1 DEF IInv, OrderInv
  <2>3. \A s \in dir' : s <= s
    <3>1. \A s \in dir' : s \in Nat
      BY Shape DEF TypeInv, TypeOK
    <3> QED
      BY <3>1
  <2> QED
    BY <1>3, <1>5, <2>1, <2>2, <2>3 DEF IInv, OrderInv, SegOf
<1>10. SyncInv'
  <2>1. \A t \in torn', s \in dir' : s <= t
    BY <1>3, <1>6 DEF IInv, SyncInv
  <2>2. IsPrefixOf(synced, disk)'
    BY <1>4 DEF IsPrefixOf
  <2> QED
    BY <1>4, <1>5, <2>1, <2>2 DEF SyncInv
<1>11. CkptInv'
  <2> SUFFICES ASSUME NEW c \in Heads' PROVE HeadInv(c)'
    BY DEF CkptInv
  <2>1. c \in Heads /\ HeadInv(c)
    BY <1>3, <1>5 DEF IInv, CkptInv
  <2>2. dir' # {} => c.seg \in dir'
    <3>1. CASE stableDir # {}
      BY <1>3, <1>7, <2>1, <3>1
    <3>2. CASE stableDir = {}
      <4>1. dir \subseteq {1} /\ c = Origin
        BY <2>1, <3>2 DEF IInv, FreshInv, Heads
      <4> QED
        BY <1>3, <3>2, <4>1 DEF Origin
    <3> QED
      BY <3>1, <3>2
  <2>3. IsPrefixOf(c.before, In(disk, c.seg))'
    <3>1. c.before \subseteq synced /\ IsPrefixOf(c.before, In(disk, c.seg))
      BY <2>1 DEF HeadInv
    <3> QED
      BY <1>3, <1>4, <3>1 DEF IsPrefixOf, In, SegOf
  <2>4. Live(c)' \subseteq Live(c) /\ Past(c)' = Past(c)
    BY <1>3, <1>4 DEF Live, Past, SegOf
  <2>5. \A s \in Possible', t \in SegIds : c.seg <= t /\ t < s => t \in Firm'
    BY <1>3, <1>5, <2>1 DEF HeadInv
  <2> QED
    BY <1>3, <1>4, <1>5, <2>1, <2>2, <2>3, <2>4, <2>5 DEF HeadInv
<1> QED
  BY <1>3, <1>8, <1>9, <1>10, <1>11, GoneStep DEF FilesInv
-----------------------------------------------------------------------------
(* Opening.                                                                *)

\* A new directory is renamed into place.
LEMMA CreateStep ==
    ASSUME IInv, TypeInv, TypeInv', CreateStorage PROVE IInv'
<1>1. /\ pc = "closed" /\ dir = {} /\ dir' = {1} /\ ckpt' = Origin /\ stableCkpt' = Origin
      /\ UNCHANGED <<log, disk, synced, torn, stableDir, object, pc, op, batch,
                     promised, released, retired>>
  BY DEF CreateStorage, control, history
<1>2. stableDir = {}
  BY <1>1 DEF IInv, OrderInv
<1>3. log = <<>> /\ torn = {}
  BY <1>2 DEF IInv, FreshInv
<1>4. DOMAIN log = {} /\ disk = {} /\ synced = {} /\ promised = {} /\ retired = {}
  BY <1>3 DEF TypeInv, TypeOK
<1>5. FreshInv' /\ OrderInv' /\ SyncInv'
  BY <1>1, <1>2, <1>3, <1>4 DEF FreshInv, OrderInv, SyncInv, IsPrefixOf
<1>6. CkptInv'
  <2> SUFFICES HeadInv(Origin)'
    BY <1>1 DEF CkptInv, Heads
  <2>1. \A s \in Possible', t \in SegIds : ~ (1 <= t /\ t < s)
    <3>1. Possible' = {1}
      BY <1>1, <1>2 DEF Possible
    <3>2. \A t \in SegIds : ~ (1 <= t /\ t < 1)
      BY Shape
    <3> QED
      BY <3>1, <3>2
  <2> QED
    BY <1>1, <1>2, <1>4, <2>1 DEF HeadInv, Origin, IsPrefixOf, In, Live
<1>7. ~ Loaded' /\ ~ Ready'
  BY <1>1 DEF Loaded, Ready
<1> QED
  BY <1>1, <1>5, <1>6, <1>7
     DEF IInv, TypeInv, Reopenable, NoLoss, NoResurrection, QuietInv

\* What opening the directory finds.
LEMMA OpenFacts ==
    ASSUME IInv, TypeInv, dir # {}
    PROVE  /\ Max(dir) \in dir /\ Max(dir) \in Nat /\ \A s \in dir : s <= Max(dir)
           /\ ckpt.seg \in dir /\ ckpt.seg \in SegIds /\ ckpt.seg \in Nat
           /\ \A t \in torn : t = Max(dir)
           /\ \A n \in disk \ synced : SegOf(n) = Max(dir)
           /\ \A n \in disk : ckpt.seg <= SegOf(n) => SegOf(n) \in dir
<1>1. Max(dir) \in dir /\ Max(dir) \in Nat /\ \A s \in dir : s <= Max(dir) /\ s \in Nat
  BY DirExtrema, Shape DEF TypeInv, TypeOK
<1>2. HeadInv(ckpt)
  BY DEF IInv, CkptInv, Heads
<1>3. ckpt.seg \in dir
  <2>1. CASE stableDir # {}
    BY <1>2, <2>1 DEF HeadInv, Firm
  <2>2. CASE stableDir = {}
    BY <2>2 DEF IInv, FreshInv, Origin
  <2> QED
    BY <2>1, <2>2
<1>4. ckpt.seg \in SegIds /\ ckpt.seg \in Nat
  BY <1>3, Shape DEF TypeInv, TypeOK
<1>5. \A t \in torn : t = Max(dir)
  <2> SUFFICES ASSUME NEW t \in torn PROVE t = Max(dir)
    OBVIOUS
  <2>1. PICK s \in dir : t <= s
    BY DEF IInv, OrderInv, Firm
  <2>2. Max(dir) <= t
    BY <1>1 DEF IInv, SyncInv, Possible
  <2>3. t \in Nat
    BY Shape DEF TypeInv, TypeOK
  <2> QED
    BY <1>1, <2>1, <2>2, <2>3
<1>6. \A n \in disk : SegOf(n) \in Nat /\ SegOf(n) \in SegIds /\ \E s \in Firm : SegOf(n) <= s
  BY Shape DEF IInv, OrderInv, TypeInv, TypeOK, SegOf
<1>7. \A n \in disk \ synced : SegOf(n) = Max(dir)
  <2> SUFFICES ASSUME NEW n \in disk \ synced PROVE SegOf(n) = Max(dir)
    OBVIOUS
  <2>1. PICK s \in dir : SegOf(n) <= s
    BY <1>6 DEF Firm
  <2>2. Max(dir) <= SegOf(n)
    BY <1>1 DEF IInv, SyncInv, Possible
  <2> QED
    BY <1>1, <1>6, <2>1, <2>2
<1>8. \A n \in disk : ckpt.seg <= SegOf(n) => SegOf(n) \in dir
  <2> SUFFICES ASSUME NEW n \in disk, ckpt.seg <= SegOf(n) PROVE SegOf(n) \in dir
    OBVIOUS
  <2>1. PICK s \in Firm : SegOf(n) <= s
    BY <1>6
  <2>2. s \in dir /\ s \in Possible /\ s \in Nat
    BY <1>1, <2>1 DEF Firm, Possible
  <2>3. SegOf(n) = s \/ SegOf(n) < s
    BY <1>6, <2>1, <2>2
  <2> QED
    BY <1>2, <1>6, <2>2, <2>3 DEF HeadInv, Firm
<1> QED
  BY <1>1, <1>3, <1>4, <1>5, <1>7, <1>8

\* _load_segmented_storage never refuses these files, and replays what is live.
LEMMA LoadFacts ==
    ASSUME IInv, TypeInv, dir # {}
    PROVE  /\ IsBoundary(ckpt) /\ ReplayFrom = ckpt /\ ~ TornClosed /\ ~ Unreadable
           /\ Replayed = Live(ckpt)
<1>1. /\ Max(dir) \in dir /\ Max(dir) \in Nat /\ \A s \in dir : s <= Max(dir)
      /\ ckpt.seg \in dir /\ ckpt.seg \in SegIds /\ ckpt.seg \in Nat
      /\ \A t \in torn : t = Max(dir)
      /\ \A n \in disk : ckpt.seg <= SegOf(n) => SegOf(n) \in dir
  BY OpenFacts
<1>2. HeadInv(ckpt)
  BY DEF IInv, CkptInv, Heads
<1>3. IsBoundary(ckpt) /\ ReplayFrom = ckpt
  BY <1>1, <1>2 DEF HeadInv, IsBoundary, ReplayFrom
<1>4. ~ TornClosed
  BY <1>1 DEF TornClosed
<1>5. Replayed = Live(ckpt)
  <2>1. \A n \in Live(ckpt) : n \in disk /\ ckpt.seg <= SegOf(n)
    <3> SUFFICES ASSUME NEW n \in Live(ckpt) PROVE n \in disk /\ ckpt.seg <= SegOf(n)
      OBVIOUS
    <3>1. n \in disk /\ SegOf(n) \in Nat
      BY Shape DEF Live, TypeInv, TypeOK, SegOf
    <3> QED
      BY <1>1, <3>1 DEF Live, Past
  <2> QED
    BY <1>1, <1>3, <2>1 DEF Replayed, Scanned, Live
<1>6. \A s \in ckpt.seg .. Max(dir) : s \in dir
  <2> SUFFICES ASSUME NEW s \in ckpt.seg .. Max(dir) PROVE s \in dir
    OBVIOUS
  <2>1. /\ s \in Nat /\ ckpt.seg <= s /\ s <= Max(dir)
        /\ s = Max(dir) \/ s < Max(dir)
    BY <1>1
  <2>2. s \in SegIds
    <3>1. Max(dir) <= MaxSegmentId /\ 1 <= ckpt.seg
      BY <1>1 DEF SegIds, TypeInv, TypeOK
    <3> QED
      BY <1>1, <2>1, <3>1, SegmentIdAssumption DEF SegIds
  <2>3. CASE s < Max(dir)
    BY <1>1, <1>2, <2>1, <2>2, <2>3 DEF HeadInv, Possible, Firm
  <2> QED
    BY <1>1, <2>1, <2>3
<1>7. \A m, n \in Replayed : log[m].id = log[n].id => m = n
  BY <1>2, <1>5 DEF HeadInv
<1>8. ~ Unreadable
  BY <1>3, <1>4, <1>6, <1>7 DEF Unreadable
<1> QED
  BY <1>3, <1>4, <1>5, <1>8

\* The index is rebuilt from the files.
LEMMA LoadStep ==
    ASSUME IInv, TypeInv, TypeInv', Load PROVE IInv'
<1>1. /\ pc = "closed" /\ dir # {} /\ RepairTail
      /\ UNCHANGED <<log, disk, dir, stableDir, ckpt, stableCkpt, op, batch,
                     promised, released, retired>>
  BY DEF Load, history
<1>2. /\ IsBoundary(ckpt) /\ ReplayFrom = ckpt /\ ~ TornClosed /\ ~ Unreadable
      /\ Replayed = Live(ckpt)
  BY <1>1, LoadFacts
<1>3. /\ Max(dir) \in dir /\ Max(dir) \in Nat /\ \A s \in dir : s <= Max(dir)
      /\ ckpt.seg \in dir /\ ckpt.seg \in SegIds /\ ckpt.seg \in Nat
      /\ \A t \in torn : t = Max(dir)
      /\ \A n \in disk \ synced : SegOf(n) = Max(dir)
      /\ \A n \in disk : ckpt.seg <= SegOf(n) => SegOf(n) \in dir
  BY <1>1, OpenFacts
<1>4. /\ pc' = "open_sync" /\ segs' = dir /\ indexed' = Scanned /\ pending' = Live(ckpt)
      /\ cursor' = ckpt /\ needsRewrite' = FALSE /\ completed' = {}
      /\ dirty' = RecoveredDirty
  BY <1>2 DEF Load
<1>5. /\ torn' = {} /\ synced \subseteq synced' /\ synced' \subseteq disk
      /\ synced' = synced \/ synced' = synced \cup In(disk, Max(dir))
  <2>1. torn' = torn \ {Max(dir)}
    BY <1>1, <1>2 DEF RepairTail
  <2>2. synced' = synced \/ synced' = synced \cup In(disk, Max(dir))
    BY <1>1 DEF RepairTail
  <2>3. synced \subseteq disk /\ In(disk, Max(dir)) \subseteq disk
    BY DEF IInv, SyncInv, IsPrefixOf, In
  <2> QED
    BY <1>3, <2>1, <2>2, <2>3
<1>6. Loaded' /\ ~ Ready' /\ Inflight' = {} /\ ~ Appending' /\ ~ Persisting' /\ ~ Cleaning'
  BY <1>4 DEF Loaded, Ready, Inflight, Appending, Persisting, Cleaning
<1>7. Firm' = Firm /\ Possible' = Possible /\ Heads' = Heads
  BY <1>1 DEF Firm, Possible, Heads
<1>8. FreshInv' /\ OrderInv'
  BY <1>1, <1>5, <1>7 DEF IInv, FreshInv, OrderInv, SegOf
<1>9. SyncInv'
  <2>1. IsPrefixOf(synced, disk)'
    <3>1. CASE synced' = synced
      BY <1>1, <3>1 DEF IInv, SyncInv, IsPrefixOf, SegOf
    <3>2. CASE synced' = synced \cup In(disk, Max(dir))
      BY <1>1, <1>5, <3>2 DEF IInv, SyncInv, IsPrefixOf, SegOf, In
    <3> QED
      BY <1>5, <3>1, <3>2
  <2> QED
    BY <1>1, <1>5, <1>7, <2>1 DEF IInv, SyncInv, SegOf
<1>10. CkptInv'
  <2> SUFFICES ASSUME NEW c \in Heads PROVE HeadInv(c)'
    BY <1>7 DEF CkptInv
  <2>1. HeadInv(c)
    BY DEF IInv, CkptInv
  <2> QED
    BY <1>1, <1>5, <1>7, <2>1 DEF HeadInv, IsPrefixOf, In, Past, Live, SegOf
<1>11. HeadInv(ckpt)
  BY DEF IInv, CkptInv, Heads
<1>12. SegsInv'
  <2>1. \A s \in dir, t \in SegIds : ckpt.seg <= t /\ t < s => t \in dir
    BY <1>11 DEF HeadInv, Possible, Firm
  <2> QED
    BY <1>1, <1>4, <1>5, <1>6, <2>1 DEF SegsInv
<1>13. IndexInv'
  <2>1. ~ RecoveredDirty => disk \subseteq synced
    BY <1>3 DEF RecoveredDirty, In
  <2>2. /\ \A n \in indexed' : n \in disk'
        /\ \A n \in disk' : SegOf(n)' \in segs' => n \in indexed' \/ n \in Inflight'
    BY <1>1, <1>4 DEF Scanned, SegOf
  <2>3. ~ dirty' => disk' \ synced' \subseteq Inflight'
    BY <1>1, <1>4, <1>5, <2>1
  <2> QED
    BY <1>4, <1>6, <2>2, <2>3 DEF IndexInv
<1>14. PendingInv'
  <2>1. \A n \in Live(ckpt) : n \in Scanned /\ SegOf(n) \in dir /\ n \in Past(ckpt)
    BY <1>2 DEF Replayed, Scanned, Live
  <2>2. \A m \in Live(ckpt), n \in Scanned : m < n => n \in Live(ckpt)
    <3> SUFFICES ASSUME NEW m \in Live(ckpt), NEW n \in Scanned, m < n PROVE n \in Past(ckpt)
      BY DEF Scanned, Live
    <3>1. /\ m \in disk /\ n \in disk /\ m \in DOMAIN log /\ n \in DOMAIN log
          /\ SegOf(m) \in Nat /\ SegOf(n) \in Nat
      BY Shape DEF Live, Scanned, TypeInv, TypeOK, SegOf
    <3>2. SegOf(m) <= SegOf(n)
      BY <3>1 DEF IInv, OrderInv
    <3>3. \/ SegOf(m) > ckpt.seg
          \/ SegOf(m) = ckpt.seg /\ m \notin ckpt.before
      BY DEF Live, Past
    <3>4. SegOf(m) = ckpt.seg /\ SegOf(n) = ckpt.seg /\ n \in ckpt.before => m \in ckpt.before
      BY <1>11, <3>1 DEF HeadInv, IsPrefixOf, In
    <3>5. \/ SegOf(n) > ckpt.seg
          \/ SegOf(n) = ckpt.seg /\ n \notin ckpt.before
      BY <1>3, <3>1, <3>2, <3>3, <3>4
    <3> QED
      BY <3>1, <3>5 DEF Past
  <2>3. Live(cursor)' = Live(ckpt) /\ Past(cursor)' = Past(ckpt)
    BY <1>1, <1>4 DEF Live, Past, SegOf
  <2>4. \A m, n \in Live(ckpt) : log[m].id = log[n].id => m = n
    BY <1>11 DEF HeadInv
  <2> QED
    BY <1>1, <1>4, <2>1, <2>2, <2>3, <2>4 DEF PendingInv, SegOf
<1>15. CursorInv'
  <2>1. Live(cursor)' = Live(ckpt)
    BY <1>1, <1>4 DEF Live, Past, SegOf
  <2>2. ckpt.before \subseteq synced'
    BY <1>5, <1>11 DEF HeadInv
  <2> QED
    BY <1>1, <1>3, <1>4, <1>6, <2>1, <2>2 DEF CursorInv
<1>16. CallInv' /\ QuietInv'
  <2>1. op' = "none" /\ batch' = <<>>
    BY <1>1 DEF IInv, QuietInv
  <2> QED
    BY <1>6, <2>1 DEF CallInv, QuietInv, BatchIds
<1>17. NoLoss' /\ NoResurrection' /\ Reopenable'
  BY <1>4, <1>6 DEF NoLoss, NoResurrection, Reopenable
<1> QED
  BY <1>6, <1>8, <1>9, <1>10, <1>12, <1>13, <1>14, <1>15, <1>16, <1>17 DEF IInv, TypeInv

\* The directory barrier of the open, after which the queue is in service.
LEMMA OpenStep ==
    ASSUME IInv, TypeInv, TypeInv', OpenBarrier PROVE IInv'
<1>1. /\ pc = "open_barrier" /\ pc' = "idle" /\ stableDir' = dir /\ stableCkpt' = ckpt
      /\ promised' = promised \cup pending /\ released' = released \ pending
      /\ UNCHANGED <<log, disk, synced, torn, dir, ckpt, segs, indexed, pending, completed,
                     cursor, needsRewrite, dirty, op, batch, retired>>
  BY DEF OpenBarrier, DirBarrier, object
<1>2. Loaded /\ ~ Ready /\ Inflight = {} /\ Loaded' /\ Ready' /\ Inflight' = {}
      /\ ~ Appending' /\ ~ Persisting' /\ ~ Cleaning'
  BY <1>1 DEF Loaded, Ready, Inflight, Appending, Persisting, Cleaning
<1>3. /\ dir = segs /\ segs # {} /\ torn = {} /\ ~ dirty /\ disk \subseteq synced
      /\ cursor = ckpt /\ pending = Live(ckpt) /\ completed = {}
  BY <1>1, <1>2 DEF IInv, SegsInv, IndexInv, CursorInv
<1>4. /\ ckpt.seg \in dir /\ ckpt.seg \in Nat
      /\ Active \in segs /\ Active \in Nat /\ \A s \in segs : s <= Active /\ s \in Nat
      /\ synced \subseteq disk
  BY <1>2, <1>3, OpenFacts, Shape DEF TypeInv, TypeOK, IInv, SyncInv, IsPrefixOf
<1>5. Firm' = dir /\ Possible' = dir /\ Firm \subseteq dir /\ dir \subseteq Possible
      /\ Heads' = {ckpt} /\ Active' = Active
  BY <1>1 DEF Firm, Possible, Heads, Active
<1>6. FreshInv' /\ OrderInv' /\ SyncInv'
  <2>1. \A s \in stableDir' : \E t \in dir' : s <= t
    <3>1. \A s \in dir : s <= s
      <4>1. \A s \in dir : s \in Nat
        BY Shape DEF TypeInv, TypeOK
      <4> QED
        BY <4>1
    <3> QED
      BY <1>1, <3>1
  <2>2. OrderInv'
    BY <1>1, <1>3, <1>5, <2>1 DEF IInv, OrderInv, SegOf
  <2> QED
    BY <1>1, <1>3, <1>5, <2>2 DEF IInv, FreshInv, SyncInv, IsPrefixOf, SegOf
<1>7. HeadInv(ckpt)
  BY DEF IInv, CkptInv, Heads
<1>8. \A n \in promised' \ released' : n \in pending /\ n \in synced /\ n \in Past(ckpt)
  <2> SUFFICES ASSUME NEW n \in promised' \ released'
               PROVE  n \in pending /\ n \in synced /\ n \in Past(ckpt)
    OBVIOUS
  <2>1. CASE n \in pending
    BY <1>3, <2>1 DEF Live
  <2>2. CASE n \notin pending
    BY <1>1, <1>3, <1>4, <1>7, <2>2 DEF HeadInv, Live
  <2> QED
    BY <2>1, <2>2
<1>9. CkptInv'
  <2> SUFFICES ASSUME NEW c, c = ckpt PROVE HeadInv(c)'
    BY <1>5 DEF CkptInv
  <2>1. HeadInv(c)
    BY <1>7
  <2>2. \A n \in promised' \ released' : n \in synced' /\ n \in Past(c)'
    BY <1>1, <1>8 DEF Past, SegOf
  <2>3. c.seg \in Firm' /\ \A s \in Possible', t \in SegIds : c.seg <= t /\ t < s => t \in Firm'
    BY <1>4, <1>5, <2>1 DEF HeadInv
  <2>4. /\ c.before \subseteq synced' /\ IsPrefixOf(c.before, In(disk, c.seg))'
        /\ \A n \in retired' : n \notin Live(c)'
        /\ \A m, n \in Live(c)' : log'[m].id = log'[n].id => m = n
    BY <1>1, <2>1 DEF HeadInv, IsPrefixOf, In, Past, Live, SegOf
  <2> QED
    BY <2>2, <2>3, <2>4 DEF HeadInv
<1>10. SegsInv'
  BY <1>1, <1>2, <1>3, <1>4, <1>5 DEF IInv, SegsInv
<1>11. IndexInv'
  BY <1>1, <1>2, <1>3 DEF IInv, IndexInv, SegOf
<1>12. PendingInv'
  BY <1>1, <1>2 DEF IInv, PendingInv, Past, Live, SegOf
<1>13. CursorInv'
  <2>1. pc' # "ckpt_barrier"
    BY <1>1
  <2>2. \A n \in pending' \ released' : n \in Past(ckpt)'
    BY <1>1, <1>2, <1>3 DEF Live, Past, SegOf
  <2>3. ckpt.seg <= ckpt.seg
    BY <1>4
  <2> QED
    BY <1>1, <1>2, <1>3, <1>5, <2>1, <2>2, <2>3 DEF IInv, CursorInv
<1>14. CallInv' /\ QuietInv'
  <2>1. op' = "none" /\ batch' = <<>>
    BY <1>1 DEF IInv, QuietInv
  <2> QED
    BY <1>2, <2>1 DEF CallInv, QuietInv, BatchIds
<1>15. NoLoss' /\ NoResurrection' /\ Reopenable'
  <2>1. \A n \in retired : n \notin pending
    BY <1>3, <1>7 DEF HeadInv
  <2> QED
    BY <1>1, <1>8, <2>1 DEF NoLoss, NoResurrection, Reopenable
<1> QED
  BY <1>2, <1>6, <1>9, <1>10, <1>11, <1>12, <1>13, <1>14, <1>15 DEF IInv, TypeInv
-----------------------------------------------------------------------------
(* The theorems.                                                           *)

LEMMA InvInit == Init => IInv
<1> SUFFICES ASSUME Init PROVE IInv
  OBVIOUS
<1>1. TypeOK
  BY TypeInit DEF TypeInv
<1>2. /\ log = <<>> /\ disk = {} /\ synced = {} /\ torn = {} /\ dir = {} /\ stableDir = {}
      /\ ckpt = Origin /\ stableCkpt = Origin /\ pc = "closed" /\ op = "none"
      /\ batch = <<>> /\ promised = {} /\ retired = {}
  BY DEF Init
<1>3. DOMAIN log = {} /\ ~ Loaded /\ ~ Ready
  BY <1>2 DEF Loaded, Ready
<1>4. FreshInv /\ OrderInv /\ SyncInv
  BY <1>2, <1>3 DEF FreshInv, OrderInv, SyncInv, IsPrefixOf
<1>5. CkptInv
  BY <1>2, <1>3
     DEF CkptInv, HeadInv, Heads, Origin, Possible, IsPrefixOf, In, Live
<1> QED
  BY <1>1, <1>2, <1>3, <1>4, <1>5
     DEF IInv, Reopenable, NoLoss, NoResurrection, QuietInv

LEMMA InvStep ==
    ASSUME IInv, TypeInv, [Next]_vars, Repaired PROVE IInv' /\ TypeInv'
<1>0. TypeInv'
  BY TypeStep
<1>1. CASE UNCHANGED vars
  <2> USE <1>1 DEF vars, files, object, control, history
  <2>1. FreshInv' /\ OrderInv' /\ SyncInv'
    BY DEF IInv, FreshInv, OrderInv, SyncInv, SegOf, Firm, Possible, IsPrefixOf
  <2>2. CkptInv'
    BY DEF IInv, CkptInv, HeadInv, Heads, Firm, Possible, IsPrefixOf, In, Past, Live, SegOf
  <2>3. Inflight' = Inflight /\ Active' = Active /\ Loaded' = Loaded /\ Ready' = Ready
        /\ Target' = Target /\ Appending' = Appending /\ Persisting' = Persisting
        /\ Cleaning' = Cleaning
    BY DEF Inflight, Active, Loaded, Ready, In, SegOf, Target, CursorAt, Remaining, Behind,
       Appending, Persisting, Cleaning
  <2>4. Loaded => SegsInv' /\ IndexInv' /\ PendingInv'
    BY <2>3 DEF IInv, SegsInv, IndexInv, SegOf, PendingInv, Past, Live
  <2>5. Loaded => CursorInv' /\ CallInv'
    BY <2>3 DEF IInv, CursorInv, CallInv, Past, Live, SegOf, Heads, BatchIds, IdsOf
  <2>6. QuietInv' /\ NoLoss' /\ NoResurrection' /\ Reopenable'
    BY <2>3 DEF IInv, QuietInv, NoLoss, NoResurrection, Reopenable
  <2> QED
    BY <1>0, <2>1, <2>2, <2>3, <2>4, <2>5, <2>6 DEF IInv, TypeInv
<1>2. ~ DamageCheckpoint
  BY DEF DamageCheckpoint, Repaired, UnrepairedFaults
<1> QED
  BY <1>0, <1>1, <1>2, CallSteps, VolatileRemoval, SyncSteps, ReplaceStep, SettleSteps,
     CleanupSteps, WriteStep, IndexStep, RollbackStep, InstallStep, RegisterStep, KillSteps,
     PowerLossStep, CreateStep, LoadStep, OpenStep DEF Next, Step

\* The inductive invariant holds in every behaviour in which no rollback, no directory
\* sync of a rotation and no checkpoint file is lost.
THEOREM InvariantCorrect == ASSUME Repaired PROVE Spec => []IInv
<1>1. Init => IInv /\ TypeInv
  BY InvInit, TypeInit
<1>2. IInv /\ TypeInv /\ [Next]_vars => (IInv /\ TypeInv)'
  BY InvStep
<1> QED
  BY <1>1, <1>2, PTL DEF Spec

\* What append, sync, checkpoint or open reported as durable is listed until it is
\* removed, whatever crashes and failed calls come between.
THEOREM NoLossCorrect == ASSUME Repaired PROVE Spec => []NoLoss
<1>1. IInv => NoLoss
  BY DEF IInv
<1> QED
  BY <1>1, InvariantCorrect, PTL

\* A removal that was reported as durable is never undone by a restart.
THEOREM NoResurrectionCorrect == ASSUME Repaired PROVE Spec => []NoResurrection
<1>1. IInv => NoResurrection
  BY DEF IInv
<1> QED
  BY <1>1, InvariantCorrect, PTL

\* _load_segmented_storage never meets a directory that it refuses.
THEOREM ReopenableCorrect == ASSUME Repaired PROVE Spec => []Reopenable
<1>1. IInv => Reopenable
  BY DEF IInv
<1> QED
  BY <1>1, InvariantCorrect, PTL

-----------------------------------------------------------------------------
(* Steps of the files and of the DurableFifo.                              *)

\* What ClosedSegmentsImmutable says of one step.
ImmutableStep ==
    \A s \in dir : s < Max(dir) => {n \in disk' : log'[n].seg = s} \subseteq disk

\* Nothing but a write adds to the files.
LEMMA OnlyWritesGrow ==
    ASSUME IInv, [Next]_vars, ~ WriteChunk PROVE disk' \subseteq disk
<1>1. CASE PowerLoss
  BY <1>1 DEF PowerLoss, IInv, SyncInv, IsPrefixOf
<1>2. CASE Kill
  BY <1>2 DEF Kill, Inflight, In
<1>3. CASE AppendFails
  BY <1>3 DEF AppendFails, Inflight, In
<1>4. CASE \/ \E b \in Batches, s \in BOOLEAN : AppendMany(b, s)
           \/ Sync \/ Checkpoint \/ RemoveOldest \/ RemoveOldestVolatile
           \/ DamageCheckpoint \/ CreateStorage \/ Load
  BY <1>4 DEF AppendMany, Sync, Checkpoint, RemoveOldest, RemoveOldestVolatile, Call, files,
     DamageCheckpoint, CreateStorage, Load
<1>5. CASE SyncReturns \/ SyncData
  BY <1>5 DEF SyncReturns, SyncData, SyncDataLocked
<1>6. CASE \/ SkipCheckpoint \/ ReplaceCheckpoint \/ CheckpointBarrier
           \/ Cleanup \/ CleanupBarrier
  BY <1>6 DEF SkipCheckpoint, ReplaceCheckpoint, CheckpointBarrier, Settle, Cleanup,
     CleanupBarrier
<1>7. CASE \/ StartRotation \/ RefuseWrite \/ IndexChunk \/ InstallSegment
           \/ RotationRefused \/ RegisterSegment
  BY <1>7 DEF StartRotation, RefuseWrite, IndexChunk, InstallSegment, RotationRefused,
     RegisterSegment, files
<1>8. CASE CallRaises \/ OpenRaises \/ OpenBarrier \/ UNCHANGED vars
  BY <1>8 DEF CallRaises, OpenRaises, OpenBarrier, vars, files
<1> QED
  BY <1>1, <1>2, <1>3, <1>4, <1>5, <1>6, <1>7, <1>8 DEF Next, Step

LEMMA ImmutableEachStep ==
    ASSUME IInv, TypeInv, [Next]_vars PROVE ImmutableStep
<1>1. CASE ~ WriteChunk
  BY <1>1, OnlyWritesGrow DEF ImmutableStep
<1>2. CASE WriteChunk
  <2>1. pc = "append" /\ Loaded /\ Ready
    BY <1>2 DEF WriteChunk, Loaded, Ready
  <2>2. dir = segs /\ segs # {} /\ Active = Max(dir)
    BY <2>1 DEF IInv, SegsInv, Active
  <2>3. PICK k \in 1 .. Len(batch) :
           /\ disk' = disk \cup ((Len(log) + 1) .. (Len(log) + k))
           /\ \A n \in (Len(log) + 1) .. (Len(log) + k) :
                 log'[n] = [id |-> batch[n - Len(log)], seg |-> Active]
    BY <1>2, <2>2, WriteShape DEF TypeInv
  <2> SUFFICES ASSUME NEW s \in dir, s < Max(dir), NEW n \in disk', log'[n].seg = s
               PROVE  n \in disk
    BY DEF ImmutableStep
  <2>4. Active \in Nat
    BY <2>1, Shape
  <2>5. s # Active
    BY <2>2, <2>4
  <2>6. \A m \in (Len(log) + 1) .. (Len(log) + k) : log'[m].seg = Active
    <3> TAKE m \in (Len(log) + 1) .. (Len(log) + k)
    <3>1. log'[m] = [id |-> batch[m - Len(log)], seg |-> Active]
      BY <2>3
    <3> QED
      BY <3>1
  <2> QED
    BY <2>3, <2>5, <2>6
<1> QED
  BY <1>1, <1>2

\* Only the highest numbered segment is written to, whatever fails or crashes, as long as no
\* failed append stays unrepaired and no rotation is left half done.
THEOREM ClosedSegmentsStay == ASSUME Repaired PROVE Spec => ClosedSegmentsImmutable
<1>1. Init => IInv /\ TypeInv
  BY InvInit, TypeInit
<1>2. IInv /\ TypeInv /\ [Next]_vars => (IInv /\ TypeInv)' /\ ImmutableStep
  BY InvStep, ImmutableEachStep
<1>3. ImmutableStep =>
        \A s \in dir : s < Max(dir) => {n \in disk' : log'[n].seg = s} \subseteq disk
  BY DEF ImmutableStep
<1> QED
  BY <1>1, <1>2, <1>3, PTL DEF Spec, ClosedSegmentsImmutable
-----------------------------------------------------------------------------
(* The Outbox implements the DurableFifo.                                  *)

LEMMA FifoInit == Init => Fifo!Init
<1> SUFFICES ASSUME Init PROVE Fifo!Init
  OBVIOUS
<1>1. ~ Ready /\ promised = {} /\ released = {} /\ retired = {} /\ log = <<>>
  BY DEF Init, Ready
<1>2. Len(log) = 0
  BY <1>1, EmptySeq
<1> QED
  BY <1>1, <1>2 DEF Fifo!Init

\* Steps that the owner of the queue cannot tell from doing nothing.
LEMMA FifoStutter ==
    ASSUME log' = log, UNCHANGED <<promised, released, retired>>,
           Ready' <=> Ready, Ready => pending' = pending
    PROVE  UNCHANGED Fifo!vars
  BY DEF Fifo!vars

LEMMA FifoStep ==
    ASSUME IInv, TypeInv, [Next]_vars, Repaired PROVE [Fifo!Next]_(Fifo!vars)
<1>0. /\ Len(log) \in Nat /\ DOMAIN log = 1 .. Len(log) /\ pending \subseteq 1 .. Len(log)
      /\ pending \subseteq Nat
  BY Shape DEF TypeInv, TypeOK
<1>1. CASE \E b \in Batches, s \in BOOLEAN : AppendMany(b, s)
  BY <1>1, FifoStutter DEF AppendMany, Call, Ready, files, object
<1>2. CASE Sync \/ Checkpoint
  BY <1>2, FifoStutter DEF Sync, Checkpoint, Call, Ready, files, object
<1>3. CASE StartRotation \/ RefuseWrite \/ RotationRefused \/ CallRaises
  BY <1>3, FifoStutter
     DEF StartRotation, RefuseWrite, RotationRefused, CallRaises, IoCall, Return, Ready,
         files, object, history
<1>4. CASE SyncData
  BY <1>4, FifoStutter DEF SyncData, SyncDataLocked, AfterSync, Ready
<1>5. CASE ReplaceCheckpoint \/ InstallSegment \/ RegisterSegment
  BY <1>5, FifoStutter DEF ReplaceCheckpoint, InstallSegment, RegisterSegment, Ready,
     object, history
<1>6. CASE AppendFails
  BY <1>6, FifoStutter DEF AppendFails, Return, Ready, object, history
<1>7. CASE CreateStorage \/ Load \/ OpenRaises
  BY <1>7, FifoStutter DEF CreateStorage, Load, OpenRaises, Ready, object, control, history,
     files
<1>8. CASE UNCHANGED vars
  BY <1>8, FifoStutter DEF vars, files, object, control, history, Ready
<1>9. ASSUME pending # {}, Ready, Ready', log' = log,
             released' = released \cup {Min(pending)}, UNCHANGED <<promised, retired>>,
             pending' = pending \/ pending' = Behind(pending)
      PROVE  Fifo!Next
  <2>1. /\ Min(pending) \in pending /\ \A n \in pending : Min(pending) <= n
        /\ Behind(pending) = pending \ {Min(pending)}
    BY <1>9, HeadFacts
  <2>2. Fifo!Remove
    BY <1>9, <2>1 DEF Fifo!Remove, Fifo!IsOldest
  <2> QED
    BY <2>2 DEF Fifo!Next
<1>10. CASE RemoveOldest \/ RemoveOldestVolatile
  BY <1>9, <1>10
     DEF RemoveOldest, RemoveOldestVolatile, Call, Ready, files, object, control
<1>11. ASSUME Ready, Ready', pending' = pending, log' = log,
              promised' = promised \cup pending, UNCHANGED <<released, retired>>
       PROVE  Fifo!Next
  BY <1>11 DEF Fifo!Next, Fifo!Promise
<1>12. CASE SyncReturns
  BY <1>11, <1>12 DEF SyncReturns, SyncDataLocked, Return, Ready
<1>13. CASE Cleanup \/ CleanupBarrier
  <2>1. /\ Ready /\ pending' = pending /\ log' = log /\ UNCHANGED <<released, retired>>
    BY <1>13 DEF Cleanup, CleanupBarrier, Ready, object
  <2>2. Ready' /\ promised' \in {promised, promised \cup pending}
    <3>1. CASE Finish
      BY <3>1 DEF Finish, ReuseAllowed, CheckpointReturns, Return, Ready
    <3>2. CASE ~ Finish
      BY <1>13, <3>2 DEF Cleanup, CleanupBarrier, Ready
    <3> QED
      BY <3>1, <3>2
  <2>3. CASE promised' = promised
    BY <2>1, <2>2, <2>3, FifoStutter
  <2>4. CASE promised' = promised \cup pending
    BY <1>11, <2>1, <2>2, <2>4
  <2> QED
    BY <2>2, <2>3, <2>4
<1>14. CASE SkipCheckpoint \/ CheckpointBarrier
  <2>1. /\ pc \in {"persist", "ckpt_barrier"} /\ pc' = "clean" /\ pending' = Remaining
        /\ retired' = retired \cup (released \ Remaining)
        /\ UNCHANGED <<log, promised, released>>
    BY <1>14 DEF SkipCheckpoint, CheckpointBarrier, Settle
  <2>2. Ready /\ Ready' /\ Loaded
    BY <2>1 DEF Ready, Loaded
  <2>3. Remaining = pending \/ \E n \in pending \cap released :
                                  /\ \A m \in pending : n <= m
                                  /\ Remaining = pending \ {n}
    <3>1. CASE op = "remove"
      <4>1. pending # {} /\ Min(pending) \in released
        BY <2>1, <2>2, <3>1 DEF IInv, CallInv, Persisting
      <4> QED
        BY <3>1, <4>1, HeadFacts DEF Remaining
    <3>2. CASE op # "remove"
      BY <3>2 DEF Remaining
    <3> QED
      BY <3>1, <3>2
  <2>4. Fifo!Retire
    BY <2>1, <2>2, <2>3 DEF Fifo!Retire, Fifo!IsOldest
  <2> QED
    BY <2>4 DEF Fifo!Next
<1>15. CASE WriteChunk
  <2>1. /\ Ready /\ Ready' /\ Loaded /\ pending' = pending
        /\ UNCHANGED <<promised, released, retired>>
    BY <1>15 DEF WriteChunk, Ready, Loaded, object, history
  <2>2. PICK k \in 1 .. Len(batch) : Len(log') = Len(log) + k
    BY <1>15, <2>1, WriteShape DEF TypeInv
  <2>3. Len(batch) \in Nat
    BY LenProperties DEF TypeInv, TypeOK
  <2>4. Len(log') \in Nat /\ Len(log') > Len(log)
    BY <1>0, <2>2, <2>3
  <2>5. Fifo!Issue
    BY <2>1, <2>4 DEF Fifo!Issue
  <2> QED
    BY <2>5 DEF Fifo!Next
<1>16. CASE IndexChunk
  <2>1. /\ Ready /\ Ready' /\ Loaded /\ pending' = pending \cup Inflight
        /\ UNCHANGED <<log, released, retired>>
        /\ promised' \in {promised, promised \cup pending'}
    BY <1>16 DEF IndexChunk, Return, Ready, Loaded
  <2>2. Inflight \subseteq 1 .. Len(log)
    BY <1>0 DEF Inflight, In, TypeInv, TypeOK
  <2>3. \A m \in pending, n \in Inflight : m < n
    BY <2>1 DEF IInv, IndexInv, PendingInv
  <2>4. Fifo!Append
    BY <1>0, <2>1, <2>2, <2>3 DEF Fifo!Append
  <2> QED
    BY <2>4 DEF Fifo!Next
<1>17. CASE Kill \/ PowerLoss
  <2>1. ~ Ready' /\ UNCHANGED <<log, promised, released, retired>>
    BY <1>17 DEF Kill, PowerLoss, Ready, history
  <2>2. Fifo!Crash
    BY <2>1 DEF Fifo!Crash
  <2> QED
    BY <2>2 DEF Fifo!Next
<1>18. CASE OpenBarrier
  <2>1. /\ ~ Ready /\ Ready' /\ Loaded /\ pc = "open_barrier" /\ pending' = pending
        /\ promised' = promised \cup pending /\ released' = released \ pending
        /\ UNCHANGED <<log, retired>>
    BY <1>18 DEF OpenBarrier, Ready, Loaded, object
  <2>2. pending = Live(ckpt) /\ HeadInv(ckpt) /\ synced \subseteq disk
    BY <2>1 DEF IInv, CursorInv, CkptInv, Heads, SyncInv, IsPrefixOf
  <2>3. promised \ released \subseteq pending /\ pending \cap retired = {}
    BY <2>2 DEF HeadInv, Live
  <2>4. Fifo!Recover
    BY <1>0, <2>1, <2>3 DEF Fifo!Recover
  <2> QED
    BY <2>4 DEF Fifo!Next
<1>19. ~ DamageCheckpoint
  BY DEF DamageCheckpoint, Repaired, UnrepairedFaults
<1> QED
  BY <1>1, <1>2, <1>3, <1>4, <1>5, <1>6, <1>7, <1>8, <1>10, <1>12, <1>13, <1>14, <1>15,
     <1>16, <1>17, <1>18, <1>19 DEF Next, Step

\* The segment files, their fsyncs and the checkpoint file implement the durable FIFO: a
\* crash loses nothing promised and brings back nothing retired.
THEOREM FifoRefined == ASSUME Repaired PROVE Spec => ImplementsFifo
<1>1. Init => IInv /\ TypeInv /\ Fifo!Init
  BY InvInit, TypeInit, FifoInit
<1>2. IInv /\ TypeInv /\ [Next]_vars => (IInv /\ TypeInv)' /\ [Fifo!Next]_(Fifo!vars)
  BY InvStep, FifoStep
<1> QED
  BY <1>1, <1>2, PTL DEF Spec, ImplementsFifo, Fifo!Spec
=============================================================================
