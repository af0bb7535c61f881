-------------------------- MODULE GroupPolicyProofs --------------------------
(***************************************************************************)
(* Proofs about GroupMode, for every choice of triggers, any number of     *)
(* records and any failures: its counters cover what a crash can cost, its *)
(* windows are as small as promised unless storage failed, and a flush     *)
(* that does not raise leaves nothing to lose.                             *)
(***************************************************************************)
EXTENDS GroupPolicy, SequenceTheorems, WellFoundedInduction, TLAPS

\* The greatest element of a bounded set.
LEMMA MaxExists ==
    ASSUME NEW N \in Nat, NEW S, S \subseteq 0 .. N, S # {}
    PROVE  Max(S) \in S /\ \A y \in S : y <= Max(S)
<1> DEFINE T == {N - x : x \in S}
<1>1. T \subseteq Nat /\ T # {}
  <2>1. \A x \in S : x \in Int /\ 0 <= x /\ x <= N
    OBVIOUS
  <2>2. \A x \in S : N - x \in Nat
    BY <2>1
  <2> QED
    BY <2>2
<1>2. PICK t \in T : \A u \in T : ~ (<<u, t>> \in OpToRel(<, Nat))
  BY <1>1, NatLessThanWellFounded, WFMin
<1>3. \A u \in T : ~ (u < t)
  BY <1>1, <1>2, Zenon DEF OpToRel
<1>4. PICK x \in S : t = N - x
  OBVIOUS
<1>5. \A y \in S : x >= y
  <2> TAKE y \in S
  <2>1. ~ (N - y < t)
    BY <1>3
  <2> QED
    BY <2>1, <1>4
<1>6. \A y \in S : Max(S) >= y /\ Max(S) \in S
  BY <1>5 DEF Max
<1> QED
  BY <1>6
-----------------------------------------------------------------------------
(* The Outbox calls.                                                       *)

\* The fields of a sound disk.
LEMMA DiskShape ==
    ASSUME NEW d, Sound(d)
    PROVE  /\ d.log \in Seq(Nat) /\ Len(d.log) \in Nat
           /\ d.synced \in Nat /\ d.removed \in Nat /\ d.ckpt \in Nat /\ d.faults \in Nat
           /\ d.starts \subseteq 0 .. Len(d.log) /\ d.starts # {} /\ d.starts \subseteq Nat
<1>1. /\ d.log \in Seq(Nat) /\ d.synced \in Nat /\ d.removed \in Nat /\ d.ckpt \in Nat
      /\ d.faults \in Nat /\ d.starts \subseteq Nat
  BY DEF Sound, Disks
<1>2. Len(d.log) \in Nat
  BY <1>1, LenProperties
<1>3. \A s \in d.starts : s <= d.synced /\ d.synced <= Len(d.log)
  BY DEF Sound
<1>4. \A s \in d.starts : s \in 0 .. Len(d.log)
  BY <1>1, <1>2, <1>3
<1> QED
  BY <1>1, <1>2, <1>4 DEF Sound

\* The segment of a position is the last one that starts at or before it.
LEMMA SegmentFacts ==
    ASSUME NEW d, Sound(d), NEW c \in Nat, d.ckpt <= c, c <= Len(d.log)
    PROVE  /\ SegmentOf(d, c) \in d.starts /\ SegmentOf(d, c) <= c
           /\ \A s \in d.starts : s <= c => s <= SegmentOf(d, c)
<1>1. /\ d.starts \subseteq 0 .. Len(d.log) /\ Len(d.log) \in Nat /\ d.ckpt \in Nat
      /\ d.starts # {} /\ d.starts \subseteq Nat
  BY DiskShape
<1>2. CASE c = Len(d.log)
  <2>1. SegmentOf(d, c) = Max(d.starts)
    BY <1>2 DEF SegmentOf, Active
  <2>2. Max(d.starts) \in d.starts /\ \A s \in d.starts : s <= Max(d.starts)
    BY <1>1, MaxExists
  <2>3. Max(d.starts) <= c
    BY <1>1, <1>2, <2>2
  <2> QED
    BY <2>1, <2>2, <2>3
<1>3. CASE c # Len(d.log)
  <2> DEFINE S == {s \in d.starts \cup {0} : s <= c}
  <2>1. SegmentOf(d, c) = Max(S)
    BY <1>3 DEF SegmentOf
  <2>2. S \subseteq 0 .. c /\ S # {}
    BY <1>1
  <2>3. Max(S) \in S /\ \A s \in S : s <= Max(S)
    BY <2>2, MaxExists
  <2>4. PICK s0 \in d.starts : s0 <= d.ckpt
    BY DEF Sound
  <2>5. s0 \in S /\ s0 \in Nat
    BY <1>1, <2>4
  <2>6. s0 <= Max(S) /\ Max(S) \in Nat /\ Max(S) <= c
    BY <1>1, <2>2, <2>3, <2>5
  <2>7. Max(S) \in d.starts
    <3>1. CASE Max(S) = 0
      BY <2>5, <2>6, <2>4, <3>1
    <3>2. CASE Max(S) # 0
      BY <2>3, <3>2
    <3> QED
      BY <3>1, <3>2
  <2> QED
    BY <2>1, <2>3, <2>6, <2>7
<1> QED
  BY <1>2, <1>3

LEMMA SyncResult ==
    ASSUME NEW d, Sound(d), NEW r \in OutboxSync(d)
    PROVE  /\ Sound(r.disk) /\ r.raised \in BOOLEAN
           /\ r.disk.log = d.log /\ r.disk.removed = d.removed /\ r.disk.ckpt = d.ckpt
           /\ r.disk.starts = d.starts
           /\ r.raised => r.disk.synced = d.synced
           /\ ~ r.raised => r.disk.synced = Len(d.log)
<1>1. /\ d.log \in Seq(Nat) /\ Len(d.log) \in Nat
      /\ d.synced \in Nat /\ d.removed \in Nat /\ d.ckpt \in Nat /\ d.faults \in Nat
      /\ d.starts \subseteq 0 .. Len(d.log) /\ d.starts # {} /\ d \in Disks
  BY DiskShape DEF Sound
<1>2. CASE r = [disk |-> [d EXCEPT !.synced = Len(d.log)], raised |-> FALSE]
  <2>1. r.disk = [d EXCEPT !.synced = Len(d.log)] /\ r.raised = FALSE
    BY <1>2
  <2>2. /\ r.disk \in Disks /\ r.disk.synced = Len(d.log) /\ r.disk.log = d.log
        /\ r.disk.removed = d.removed /\ r.disk.ckpt = d.ckpt /\ r.disk.starts = d.starts
    BY <1>1, <2>1 DEF Disks
  <2>3. Sound(r.disk)
    BY <1>1, <2>2 DEF Sound
  <2> QED
    BY <2>1, <2>2, <2>3
<1>3. CASE r = [disk |-> [d EXCEPT !.faults = @ + 1], raised |-> TRUE]
  <2>1. r.disk = [d EXCEPT !.faults = @ + 1] /\ r.raised = TRUE
    BY <1>3
  <2>2. /\ r.disk \in Disks /\ r.disk.synced = d.synced /\ r.disk.log = d.log
        /\ r.disk.removed = d.removed /\ r.disk.ckpt = d.ckpt /\ r.disk.starts = d.starts
    BY <1>1, <2>1 DEF Disks
  <2>3. Sound(r.disk)
    BY <1>1, <2>2 DEF Sound
  <2> QED
    BY <2>1, <2>2, <2>3
<1> QED
  BY <1>2, <1>3 DEF OutboxSync

\* Unlinking consumed segments keeps the one of the checkpoint.
LEMMA CleanedResult ==
    ASSUME NEW d, Sound(d), NEW c \in Cleaned(d)
    PROVE  /\ Sound(c) /\ c.log = d.log /\ c.synced = d.synced /\ c.removed = d.removed
           /\ c.ckpt = d.ckpt /\ c.starts \subseteq d.starts
<1> DEFINE done == {s \in d.starts : s < SegmentOf(d, d.ckpt)}
<1>1. /\ d.log \in Seq(Nat) /\ Len(d.log) \in Nat
      /\ d.synced \in Nat /\ d.removed \in Nat /\ d.ckpt \in Nat /\ d.faults \in Nat
      /\ d.starts \subseteq Nat /\ d \in Disks /\ d.ckpt <= Len(d.log)
  BY DiskShape DEF Sound
<1>2. SegmentOf(d, d.ckpt) \in d.starts /\ SegmentOf(d, d.ckpt) <= d.ckpt
  BY <1>1, SegmentFacts
<1>3. CASE c = [d EXCEPT !.starts = @ \ done]
  <2>1. /\ c \in Disks /\ c.log = d.log /\ c.synced = d.synced /\ c.removed = d.removed
        /\ c.ckpt = d.ckpt /\ c.starts = d.starts \ done
    <3>1. d.starts \ done \subseteq Nat
      BY <1>1
    <3> HIDE DEF done
    <3> QED
      BY <1>1, <1>3, <3>1 DEF Disks
  <2>2. SegmentOf(d, d.ckpt) \in Nat
    BY <1>1, <1>2
  <2>3. SegmentOf(d, d.ckpt) \in c.starts
    BY <1>2, <2>1, <2>2
  <2>4. \E s \in c.starts : s <= c.ckpt
    BY <1>2, <2>1, <2>3
  <2> QED
    BY <2>1, <2>4 DEF Sound
<1>4. CASE c = [d EXCEPT !.faults = @ + 1]
  <2> HIDE DEF done
  <2>1. /\ c \in Disks /\ c.log = d.log /\ c.synced = d.synced /\ c.removed = d.removed
        /\ c.ckpt = d.ckpt /\ c.starts = d.starts
    <3>1. d.faults + 1 \in Nat /\ d \in Disks
      BY <1>1
    <3> QED
      BY <3>1, <1>4 DEF Disks
  <2> QED
    BY <2>1 DEF Sound
<1>5. \/ c = [d EXCEPT !.starts = @ \ done]
      \/ c = [d EXCEPT !.faults = @ + 1]
  BY Zenon DEF Cleaned
<1> QED
  BY <1>3, <1>4, <1>5

\* checkpoint() syncs, then stores the cursor, then cleans up; it raises before the cursor
\* moves or not at all.
LEMMA CheckpointResult ==
    ASSUME NEW d, Sound(d), NEW r \in OutboxCheckpoint(d)
    PROVE  /\ Sound(r.disk) /\ r.raised \in BOOLEAN
           /\ r.disk.log = d.log /\ r.disk.removed = d.removed
           /\ r.disk.synced \in {d.synced, Len(d.log)}
           /\ r.raised => r.disk.ckpt = d.ckpt /\ r.disk.starts = d.starts
           /\ ~ r.raised => r.disk.synced = Len(d.log) /\ r.disk.ckpt = d.removed
<1>1. PICK y \in OutboxSync(d) :
          r \in IF y.raised THEN {y}
                ELSE {[disk |-> c, raised |-> FALSE] : c \in Cleaned([y.disk EXCEPT !.ckpt = d.removed])}
                    \cup (IF d.ckpt = d.removed THEN {}
                          ELSE {[disk |-> [y.disk EXCEPT !.faults = @ + 1], raised |-> TRUE]})
  BY Zenon DEF OutboxCheckpoint
<1>2. /\ Sound(y.disk) /\ y.raised \in BOOLEAN
      /\ y.disk.log = d.log /\ y.disk.removed = d.removed /\ y.disk.ckpt = d.ckpt
      /\ y.disk.starts = d.starts
      /\ y.raised => y.disk.synced = d.synced
      /\ ~ y.raised => y.disk.synced = Len(d.log)
  BY SyncResult, Zenon
<1>3. CASE y.raised
  <2>1. r = y
    BY <1>1, <1>3
  <2> QED
    BY <1>2, <1>3, <2>1, Zenon
<1>4. ASSUME ~ y.raised,
             NEW c \in Cleaned([y.disk EXCEPT !.ckpt = d.removed]),
             r = [disk |-> c, raised |-> FALSE]
      PROVE  /\ Sound(r.disk) /\ r.raised = FALSE
             /\ r.disk.log = d.log /\ r.disk.removed = d.removed
             /\ r.disk.synced = Len(d.log) /\ r.disk.ckpt = d.removed
  <2> DEFINE e == [y.disk EXCEPT !.ckpt = d.removed]
  <2>1. /\ d.removed \in Nat /\ d.ckpt \in Nat /\ d.ckpt <= d.removed
        /\ d.removed <= Len(d.log) /\ d.starts \subseteq Nat /\ Len(d.log) \in Nat
    BY DiskShape DEF Sound
  <2>2. /\ e \in Disks /\ e.log = d.log /\ e.synced = Len(d.log) /\ e.removed = d.removed
        /\ e.ckpt = d.removed /\ e.starts = d.starts
    BY <1>2, <1>4, <2>1 DEF Sound, Disks
  <2>3. \A s \in d.starts : s <= Len(d.log)
    BY <1>2, <1>4 DEF Sound
  <2>4. \E s \in d.starts : s <= d.removed
    <3>1. PICK s \in d.starts : s <= d.ckpt
      BY DEF Sound
    <3> QED
      BY <2>1, <3>1
  <2>5. Sound(e)
    BY <2>1, <2>2, <2>3, <2>4 DEF Sound
  <2>6. r.disk = c /\ r.raised = FALSE
    BY <1>4
  <2>7. /\ Sound(c) /\ c.log = e.log /\ c.synced = e.synced /\ c.removed = e.removed
        /\ c.ckpt = e.ckpt
    BY <1>4, <2>5, CleanedResult, Zenon
  <2> QED
    BY <2>2, <2>6, <2>7, Zenon
<1>5. ASSUME ~ y.raised,
             r = [disk |-> [y.disk EXCEPT !.faults = @ + 1], raised |-> TRUE]
      PROVE  /\ Sound(r.disk) /\ r.raised = TRUE
             /\ r.disk.log = d.log /\ r.disk.removed = d.removed
             /\ r.disk.synced = Len(d.log) /\ r.disk.ckpt = d.ckpt /\ r.disk.starts = d.starts
  <2>1. r.disk = [y.disk EXCEPT !.faults = @ + 1] /\ r.raised = TRUE
    BY <1>5
  <2>2. y.disk \in Disks /\ y.disk.faults \in Nat
    BY <1>2 DEF Sound, Disks
  <2>3. /\ r.disk \in Disks /\ r.disk.log = y.disk.log /\ r.disk.removed = y.disk.removed
        /\ r.disk.synced = y.disk.synced /\ r.disk.ckpt = y.disk.ckpt
        /\ r.disk.starts = y.disk.starts
    BY <2>1, <2>2 DEF Disks
  <2>4. Sound(r.disk)
    BY <1>2, <2>3 DEF Sound
  <2> QED
    BY <1>2, <1>5, <2>1, <2>3, <2>4, Zenon
<1>6. CASE ~ y.raised
  <2>1. \/ \E c \in Cleaned([y.disk EXCEPT !.ckpt = d.removed]) : r = [disk |-> c, raised |-> FALSE]
        \/ r = [disk |-> [y.disk EXCEPT !.faults = @ + 1], raised |-> TRUE]
    BY <1>1, <1>6, Zenon
  <2>2. CASE \E c \in Cleaned([y.disk EXCEPT !.ckpt = d.removed]) : r = [disk |-> c, raised |-> FALSE]
    <3>1. /\ Sound(r.disk) /\ r.raised = FALSE
          /\ r.disk.log = d.log /\ r.disk.removed = d.removed
          /\ r.disk.synced = Len(d.log) /\ r.disk.ckpt = d.removed
      BY <1>4, <1>6, <2>2, Zenon
    <3> QED
      BY <3>1, Zenon
  <2>3. CASE r = [disk |-> [y.disk EXCEPT !.faults = @ + 1], raised |-> TRUE]
    <3>1. /\ Sound(r.disk) /\ r.raised = TRUE
          /\ r.disk.log = d.log /\ r.disk.removed = d.removed
          /\ r.disk.synced = Len(d.log) /\ r.disk.ckpt = d.ckpt /\ r.disk.starts = d.starts
      BY <1>5, <1>6, <2>3, Zenon
    <3> QED
      BY <3>1, Zenon
  <2> QED
    BY <2>1, <2>2, <2>3
<1> QED
  BY <1>2, <1>3, <1>6, Zenon

\* e is d with its boundaries moved as a sync and a checkpoint move them.
Moved(d, e) ==
    /\ Sound(e) /\ e.log = d.log /\ e.removed = d.removed
    /\ e.synced \in {d.synced, Len(d.log)} /\ e.ckpt \in {d.ckpt, d.removed}

LEMMA RotateResult ==
    ASSUME NEW d, Sound(d), NEW r \in Rotate(d)
    PROVE  Moved(d, r.disk) /\ r.raised \in BOOLEAN
<1>1. /\ d.log \in Seq(Nat) /\ Len(d.log) \in Nat
      /\ d.synced \in Nat /\ d.removed \in Nat /\ d.ckpt \in Nat /\ d.faults \in Nat
      /\ d.starts \subseteq Nat /\ d \in Disks
  BY DiskShape DEF Sound
<1>2. ASSUME NEW s \in OutboxSync(d),
             r = [disk |-> IF s.raised THEN s.disk
                           ELSE [s.disk EXCEPT !.starts = @ \cup {Len(d.log)}],
                  raised |-> s.raised]
      PROVE  Moved(d, r.disk) /\ r.raised \in BOOLEAN
  <2>1. /\ Sound(s.disk) /\ s.raised \in BOOLEAN
        /\ s.disk.log = d.log /\ s.disk.removed = d.removed /\ s.disk.ckpt = d.ckpt
        /\ s.disk.starts = d.starts
        /\ s.raised => s.disk.synced = d.synced
        /\ ~ s.raised => s.disk.synced = Len(d.log)
    BY SyncResult, Zenon
  <2>2. r.raised = s.raised
    BY <1>2
  <2>3. CASE s.raised
    <3>1. r.disk = s.disk
      BY <1>2, <2>3
    <3> QED
      BY <2>1, <2>2, <2>3, <3>1, Zenon DEF Moved
  <2>4. CASE ~ s.raised
    <3>1. r.disk = [s.disk EXCEPT !.starts = @ \cup {Len(d.log)}]
      BY <1>2, <2>4
    <3>2. s.disk \in Disks /\ s.disk.starts \cup {Len(d.log)} \subseteq Nat
      BY <1>1, <2>1 DEF Sound
    <3>3. /\ r.disk \in Disks /\ r.disk.log = d.log /\ r.disk.removed = d.removed
          /\ r.disk.ckpt = d.ckpt /\ r.disk.synced = Len(d.log)
          /\ r.disk.starts = d.starts \cup {Len(d.log)}
      BY <2>1, <2>4, <3>1, <3>2 DEF Disks
    <3>4. \A x \in d.starts : x <= Len(d.log)
      BY <2>1, <2>4 DEF Sound
    <3>5. Sound(r.disk)
      BY <1>1, <3>3, <3>4 DEF Sound
    <3> QED
      BY <2>1, <2>2, <3>3, <3>5, Zenon DEF Moved
  <2> QED
    BY <2>3, <2>4
<1>3. CASE r = [disk |-> [d EXCEPT !.synced = Len(d.log), !.faults = @ + 1], raised |-> TRUE]
  <2>1. r.disk = [d EXCEPT !.synced = Len(d.log), !.faults = @ + 1] /\ r.raised = TRUE
    BY <1>3
  <2>2. d.faults + 1 \in Nat
    BY <1>1
  <2>3. /\ r.disk \in Disks /\ r.disk.synced = Len(d.log) /\ r.disk.log = d.log
        /\ r.disk.removed = d.removed /\ r.disk.ckpt = d.ckpt /\ r.disk.starts = d.starts
    BY <1>1, <2>1, <2>2 DEF Disks
  <2>4. \A x \in d.starts : x <= Len(d.log)
    BY <1>1 DEF Sound
  <2>5. Sound(r.disk)
    BY <1>1, <2>3, <2>4 DEF Sound
  <2> QED
    BY <2>1, <2>3, <2>5, Zenon DEF Moved
<1>4. \/ \E s \in OutboxSync(d) :
            r = [disk |-> IF s.raised THEN s.disk
                          ELSE [s.disk EXCEPT !.starts = @ \cup {Len(d.log)}],
                 raised |-> s.raised]
      \/ r = [disk |-> [d EXCEPT !.synced = Len(d.log), !.faults = @ + 1], raised |-> TRUE]
  BY Zenon DEF Rotate
<1> QED
  BY <1>2, <1>3, <1>4, Zenon

LEMMA MovedTwice ==
    ASSUME NEW d, NEW e, NEW f, Moved(d, e), Moved(e, f)
    PROVE  Moved(d, f)
  BY Zenon DEF Moved

\* append(sync=False): whatever it syncs, checkpoints or rotates first, it adds the record
\* or raises.
LEMMA AppendResult ==
    ASSUME NEW d, Sound(d), NEW size \in Nat, NEW reuse \in BOOLEAN,
           NEW r \in OutboxAppend(d, size, reuse)
    PROVE  /\ r.raised \in BOOLEAN
           /\ r.raised => Moved(d, r.disk)
           /\ ~ r.raised => /\ Sound(r.disk) /\ r.disk.removed = d.removed
                            /\ r.disk.log = Append(d.log, End(d, Len(d.log)) + size)
                            /\ r.disk.synced \in {d.synced, Len(d.log)}
                            /\ r.disk.ckpt \in {d.ckpt, d.removed}
<1> DEFINE Prepared == IF reuse THEN OutboxCheckpoint(d) ELSE {[disk |-> d, raised |-> FALSE]}
           MakeRoom(e) == IF Full(e, size) THEN Rotate(e) ELSE {[disk |-> e, raised |-> FALSE]}
           Roomy == UNION {IF q.raised THEN {q} ELSE MakeRoom(q.disk) : q \in Prepared}
<1>1. OutboxAppend(d, size, reuse)
        = UNION {IF q.raised THEN {q} ELSE Write(q.disk, size) : q \in Roomy}
  BY Zenon DEF OutboxAppend, Then
<1>2. \A q \in Prepared : Moved(d, q.disk) /\ q.raised \in BOOLEAN
  <2> TAKE q \in Prepared
  <2>1. CASE reuse
    <3>1. q \in OutboxCheckpoint(d)
      BY <2>1
    <3> QED
      BY <3>1, CheckpointResult, Zenon DEF Moved
  <2>2. CASE ~ reuse
    <3>1. q = [disk |-> d, raised |-> FALSE]
      BY <2>2
    <3>2. q.disk = d /\ q.raised = FALSE
      BY <3>1
    <3> QED
      BY <3>2, Zenon DEF Moved
  <2> QED
    BY <2>1, <2>2
<1>3. \A q \in Roomy : Moved(d, q.disk) /\ q.raised \in BOOLEAN
  <2> TAKE q \in Roomy
  <2>1. PICK x \in Prepared : q \in IF x.raised THEN {x} ELSE MakeRoom(x.disk)
    BY Zenon
  <2>2. Moved(d, x.disk) /\ x.raised \in BOOLEAN
    BY <1>2
  <2>3. CASE x.raised
    BY <2>1, <2>2, <2>3, Zenon
  <2>4. CASE ~ x.raised /\ Full(x.disk, size)
    <3>1. q \in Rotate(x.disk)
      BY <2>1, <2>4, Zenon
    <3>2. Sound(x.disk)
      BY <2>2 DEF Moved
    <3>3. Moved(x.disk, q.disk) /\ q.raised \in BOOLEAN
      BY <3>1, <3>2, RotateResult, Zenon
    <3> QED
      BY <2>2, <3>3, MovedTwice, Zenon
  <2>5. CASE ~ x.raised /\ ~ Full(x.disk, size)
    <3>1. q = [disk |-> x.disk, raised |-> FALSE]
      BY <2>1, <2>5, Zenon
    <3>2. q.disk = x.disk /\ q.raised = FALSE
      BY <3>1
    <3> QED
      BY <2>2, <3>2, Zenon
  <2> QED
    BY <2>2, <2>3, <2>4, <2>5
<1> HIDE DEF Roomy
<1>4. PICK q \in Roomy : r \in IF q.raised THEN {q} ELSE Write(q.disk, size)
  BY <1>1, Zenon
<1>5. Moved(d, q.disk) /\ q.raised \in BOOLEAN
  BY <1>3
<1>6. CASE q.raised
  <2>1. r = q
    BY <1>4, <1>6, Zenon
  <2> QED
    BY <1>5, <1>6, <2>1, Zenon
<1> DEFINE e == q.disk
<1>7. /\ Sound(e) /\ e.log = d.log /\ e.removed = d.removed
      /\ e.synced \in {d.synced, Len(d.log)} /\ e.ckpt \in {d.ckpt, d.removed}
  BY <1>5 DEF Moved
<1>8. /\ e.log \in Seq(Nat) /\ Len(e.log) \in Nat
      /\ e.synced \in Nat /\ e.removed \in Nat /\ e.ckpt \in Nat /\ e.faults \in Nat
      /\ e.starts \subseteq Nat /\ e \in Disks
  <2> HIDE DEF e
  <2> QED
    BY <1>7, DiskShape DEF Sound
<1> HIDE DEF e
<1>9. CASE r = [disk |-> [e EXCEPT !.log = Append(@, End(e, Len(@)) + size)], raised |-> FALSE]
  <2>1. r.disk = [e EXCEPT !.log = Append(e.log, End(e, Len(e.log)) + size)] /\ r.raised = FALSE
    BY <1>9
  <2>2. End(e, Len(e.log)) + size \in Nat
    BY <1>8 DEF End
  <2>3. /\ Append(e.log, End(e, Len(e.log)) + size) \in Seq(Nat)
        /\ Len(Append(e.log, End(e, Len(e.log)) + size)) = Len(e.log) + 1
    BY <1>8, <2>2, AppendProperties
  <2>4. /\ r.disk \in Disks /\ r.disk.log = Append(e.log, End(e, Len(e.log)) + size)
        /\ r.disk.synced = e.synced /\ r.disk.removed = e.removed /\ r.disk.ckpt = e.ckpt
        /\ r.disk.starts = e.starts
    <3> DEFINE l == Append(e.log, End(e, Len(e.log)) + size)
    <3>1. l \in Seq(Nat) /\ r.disk = [e EXCEPT !.log = l]
      BY <2>1, <2>3
    <3> HIDE DEF l
    <3>2. /\ r.disk \in Disks /\ r.disk.log = l
          /\ r.disk.synced = e.synced /\ r.disk.removed = e.removed /\ r.disk.ckpt = e.ckpt
          /\ r.disk.starts = e.starts
      BY <1>8, <3>1 DEF Disks
    <3> QED
      BY <3>2 DEF l
  <2>5. Len(r.disk.log) = Len(e.log) + 1
    BY <2>3, <2>4
  <2>6. /\ r.disk.removed <= Len(r.disk.log) /\ r.disk.synced <= Len(r.disk.log)
    BY <1>7, <1>8, <2>4, <2>5 DEF Sound
  <2>7. Sound(r.disk)
    BY <1>7, <2>4, <2>6 DEF Sound
  <2>8. End(e, Len(e.log)) = End(d, Len(d.log))
    BY <1>7 DEF End
  <2>9. r.disk.log = Append(d.log, End(d, Len(d.log)) + size)
    BY <1>7, <2>4, <2>8
  <2> QED
    BY <1>7, <2>1, <2>4, <2>7, <2>9, Zenon
<1>10. CASE r = [disk |-> [e EXCEPT !.faults = @ + 1], raised |-> TRUE]
  <2>1. r.disk = [e EXCEPT !.faults = @ + 1] /\ r.raised = TRUE
    BY <1>10
  <2>2. e.faults + 1 \in Nat /\ e \in Disks
    BY <1>8
  <2>3. /\ r.disk \in Disks /\ r.disk.log = e.log /\ r.disk.removed = e.removed
        /\ r.disk.synced = e.synced /\ r.disk.ckpt = e.ckpt /\ r.disk.starts = e.starts
    BY <2>1, <2>2 DEF Disks
  <2>4. Sound(r.disk)
    BY <1>7, <2>3 DEF Sound
  <2> QED
    BY <1>7, <2>1, <2>3, <2>4, Zenon DEF Moved
<1>11. CASE ~ q.raised
  <2>1. r \in Write(e, size)
    BY <1>4, <1>11, Zenon DEF e
  <2>2. \/ r = [disk |-> [e EXCEPT !.log = Append(@, End(e, Len(@)) + size)], raised |-> FALSE]
        \/ r = [disk |-> [e EXCEPT !.faults = @ + 1], raised |-> TRUE]
    BY <2>1, Zenon DEF Write
  <2> QED
    BY <1>9, <1>10, <2>2
<1> QED
  BY <1>5, <1>6, <1>11
-----------------------------------------------------------------------------
(* The policy's counters and flags.                                        *)

\* Two policies that differ in timers and clocks alone.
Alike(p, q) ==
    /\ q.unsynced = p.unsynced /\ q.bytes = p.bytes /\ q.acked = p.acked
    /\ q.dataFailed = p.dataFailed /\ q.ackFailed = p.ackFailed

LEMMA TimerSet ==
    ASSUME NEW p \in Policies, NEW b \in BOOLEAN
    PROVE  /\ [p EXCEPT !.dataTimer = b] \in Policies /\ Alike(p, [p EXCEPT !.dataTimer = b])
           /\ [p EXCEPT !.ackTimer = b] \in Policies /\ Alike(p, [p EXCEPT !.ackTimer = b])
           /\ [p EXCEPT !.dataLate = b] \in Policies /\ Alike(p, [p EXCEPT !.dataLate = b])
           /\ [p EXCEPT !.ackLate = b] \in Policies /\ Alike(p, [p EXCEPT !.ackLate = b])
  BY DEF Policies, Alike

LEMMA FailedSet ==
    ASSUME NEW p \in Policies, NEW b \in BOOLEAN
    PROVE  LET q == [p EXCEPT !.dataFailed = b]
               r == [p EXCEPT !.ackFailed = b]
           IN  /\ q \in Policies /\ r \in Policies /\ q.dataFailed = b /\ r.ackFailed = b
               /\ q.unsynced = p.unsynced /\ q.bytes = p.bytes /\ q.acked = p.acked
               /\ q.ackFailed = p.ackFailed
               /\ r.unsynced = p.unsynced /\ r.bytes = p.bytes /\ r.acked = p.acked
               /\ r.dataFailed = p.dataFailed
  BY DEF Policies

LEMMA CleanSet ==
    ASSUME NEW p \in Policies
    PROVE  /\ DataClean(p) \in Policies /\ DataClean(p).unsynced = 0 /\ DataClean(p).bytes = 0
           /\ DataClean(p).acked = p.acked /\ DataClean(p).ackFailed = p.ackFailed
           /\ AckClean(p) \in Policies /\ AckClean(p).acked = 0
           /\ AckClean(p).unsynced = p.unsynced /\ AckClean(p).bytes = p.bytes
           /\ AckClean(p).dataFailed = p.dataFailed
<1>1. 0 \in Nat /\ FALSE \in BOOLEAN
  BY Zenon
<1>2. ASSUME NEW z \in Nat, NEW b \in BOOLEAN
      PROVE  LET q == [p EXCEPT !.unsynced = z, !.bytes = z, !.dataTimer = b, !.dataLate = b,
                                !.dataFailed = b]
                 r == [p EXCEPT !.acked = z, !.ackTimer = b, !.ackLate = b, !.ackFailed = b]
             IN  /\ q \in Policies /\ q.unsynced = z /\ q.bytes = z /\ q.acked = p.acked
                 /\ q.ackFailed = p.ackFailed
                 /\ r \in Policies /\ r.acked = z /\ r.unsynced = p.unsynced
                 /\ r.bytes = p.bytes /\ r.dataFailed = p.dataFailed
  BY DEF Policies
<1> QED
  BY <1>1, <1>2, Zenon DEF DataClean, AckClean

LEMMA ArmSet ==
    ASSUME NEW p \in Policies
    PROVE  /\ ArmData(p) \in Policies /\ Alike(p, ArmData(p))
           /\ ArmAck(p) \in Policies /\ Alike(p, ArmAck(p))
<1>1. /\ (p.dataTimer \/ (DataInterval /\ p.unsynced > 0)) \in BOOLEAN
      /\ (p.ackTimer \/ (AckInterval /\ p.acked > 0)) \in BOOLEAN
  BY Zenon
<1> QED
  BY <1>1, TimerSet, Zenon DEF ArmData, ArmAck
-----------------------------------------------------------------------------
(* The invariant, of a policy and a disk.                                  *)

Covered(p, d) ==
    /\ Len(d.log) - d.synced <= p.unsynced
    /\ BytesBetween(d, d.synced, Len(d.log)) <= p.bytes
    /\ d.removed - d.ckpt <= p.acked

Consistent(p, d) == p \in Policies /\ Sound(d) /\ Covered(p, d)

DataBounded(p, d) ==
    \/ p.dataFailed
    \/ /\ ~ Reached(Len(d.log) - d.synced, SyncMessages)
       /\ ~ Reached(BytesBetween(d, d.synced, Len(d.log)), SyncBytes)

AckBounded(p, d) ==
    \/ p.ackFailed
    \/ /\ ~ Reached(d.removed - d.ckpt, AckMessages)
       /\ SegmentOf(d, d.removed) = SegmentOf(d, d.ckpt)

\* Nothing is left to sync; nothing is left to checkpoint.
LEMMA AllSynced ==
    ASSUME NEW d, Sound(d), d.synced = Len(d.log)
    PROVE  /\ Len(d.log) - d.synced = 0 /\ BytesBetween(d, d.synced, Len(d.log)) = 0
           /\ ~ Reached(Len(d.log) - d.synced, SyncMessages)
           /\ ~ Reached(BytesBetween(d, d.synced, Len(d.log)), SyncBytes)
<1>1. Len(d.log) - d.synced = 0
  BY DiskShape
<1>2. End(d, Len(d.log)) \in Nat
  BY DiskShape DEF End
<1>3. BytesBetween(d, d.synced, Len(d.log)) = 0
  BY <1>2 DEF BytesBetween
<1>4. ASSUME NEW trigger \in Nat
      PROVE  ~ Reached(0, trigger)
  BY DEF Reached
<1> QED
  BY <1>1, <1>3, <1>4, TriggerAssumption DEF ValidGroupMode

LEMMA AllCheckpointed ==
    ASSUME NEW d, Sound(d), d.ckpt = d.removed
    PROVE  /\ d.removed - d.ckpt = 0 /\ ~ Reached(d.removed - d.ckpt, AckMessages)
           /\ SegmentOf(d, d.removed) = SegmentOf(d, d.ckpt)
<1>1. d.removed - d.ckpt = 0
  BY DiskShape
<1> QED
  BY <1>1, TriggerAssumption DEF ValidGroupMode, Reached

\* The counters at zero mean there is nothing left.
LEMMA NothingCounted ==
    ASSUME NEW p, NEW d, Consistent(p, d)
    PROVE  /\ p.unsynced = 0 => d.synced = Len(d.log)
           /\ p.acked = 0 => d.ckpt = d.removed
<1>1. /\ Len(d.log) \in Nat /\ d.synced \in Nat /\ d.removed \in Nat /\ d.ckpt \in Nat
      /\ d.synced <= Len(d.log) /\ d.ckpt <= d.removed
  BY DiskShape DEF Consistent, Sound
<1> QED
  BY <1>1 DEF Consistent, Covered

\* Where no consumed closed segment is pending, removed and checkpointed positions are in
\* one segment.
LEMMA NoSegmentPending ==
    ASSUME NEW d, Sound(d), ~ ClosedSegmentPending(d)
    PROVE  SegmentOf(d, d.removed) = SegmentOf(d, d.ckpt)
<1>1. /\ d.removed \in Nat /\ d.ckpt \in Nat /\ d.ckpt <= d.removed /\ d.removed <= Len(d.log)
      /\ d.ckpt <= Len(d.log) /\ d.starts \subseteq Nat /\ Len(d.log) \in Nat
  BY DiskShape DEF Sound
<1>2. /\ SegmentOf(d, d.removed) \in d.starts
      /\ \A s \in d.starts : s <= d.removed => s <= SegmentOf(d, d.removed)
  BY <1>1, SegmentFacts
<1>3. SegmentOf(d, d.ckpt) \in d.starts /\ SegmentOf(d, d.ckpt) <= d.ckpt
  BY <1>1, SegmentFacts
<1>4. ~ (SegmentOf(d, d.ckpt) < SegmentOf(d, d.removed))
  BY <1>3 DEF ClosedSegmentPending
<1>5. SegmentOf(d, d.ckpt) \in Nat /\ SegmentOf(d, d.removed) \in Nat
  BY <1>1, <1>2, <1>3
<1>6. SegmentOf(d, d.ckpt) <= d.removed
  BY <1>1, <1>3, <1>5
<1>7. SegmentOf(d, d.ckpt) <= SegmentOf(d, d.removed)
  BY <1>2, <1>3, <1>6
<1> QED
  BY <1>4, <1>5, <1>7

\* The segments depend on the files and the number of records.
LEMMA SameSegments ==
    ASSUME NEW d, NEW e, e.starts = d.starts, e.log = d.log, NEW c
    PROVE  SegmentOf(e, c) = SegmentOf(d, c)
  BY DEF SegmentOf, Active

\* Moving the boundaries forward never takes the counters out of cover.
LEMMA MovedCovered ==
    ASSUME NEW p, NEW q, NEW d, NEW e, Consistent(p, d), Moved(d, e), q \in Policies,
           q.unsynced = p.unsynced, q.bytes = p.bytes, q.acked = p.acked
    PROVE  /\ Consistent(q, e)
           /\ DataBounded(p, d) /\ q.dataFailed = p.dataFailed => DataBounded(q, e)
<1>1. /\ Sound(e) /\ e.log = d.log /\ e.removed = d.removed
      /\ e.synced \in {d.synced, Len(d.log)} /\ e.ckpt \in {d.ckpt, d.removed}
  BY DEF Moved
<1>2. /\ p.unsynced \in Nat /\ p.bytes \in Nat /\ p.acked \in Nat
  BY DEF Consistent, Policies
<1>3. e.removed - e.ckpt <= q.acked
  <2>1. d.removed - d.ckpt <= p.acked /\ d.removed \in Nat
    BY DiskShape DEF Consistent, Covered
  <2> QED
    BY <1>1, <1>2, <2>1
<1>4. CASE e.synced = d.synced
  <2>1. BytesBetween(e, e.synced, Len(e.log)) = BytesBetween(d, d.synced, Len(d.log))
    BY <1>1, <1>4 DEF BytesBetween, End
  <2>2. Covered(q, e)
    BY <1>1, <1>3, <1>4, <2>1 DEF Consistent, Covered
  <2>3. DataBounded(p, d) /\ q.dataFailed = p.dataFailed => DataBounded(q, e)
    BY <1>1, <1>4, <2>1, Zenon DEF DataBounded
  <2> QED
    BY <1>1, <2>2, <2>3 DEF Consistent
<1>5. CASE e.synced = Len(e.log)
  <2>1. /\ Len(e.log) - e.synced = 0 /\ BytesBetween(e, e.synced, Len(e.log)) = 0
        /\ ~ Reached(Len(e.log) - e.synced, SyncMessages)
        /\ ~ Reached(BytesBetween(e, e.synced, Len(e.log)), SyncBytes)
    BY <1>1, <1>5, AllSynced
  <2>2. Covered(q, e)
    BY <1>2, <1>3, <2>1 DEF Covered
  <2>3. DataBounded(q, e)
    BY <2>1 DEF DataBounded
  <2> QED
    BY <1>1, <2>2, <2>3 DEF Consistent
<1> QED
  BY <1>1, <1>4, <1>5

LEMMA AckKept ==
    ASSUME NEW p, NEW q, NEW d, NEW e, AckBounded(p, d), q.ackFailed = p.ackFailed,
           e.log = d.log, e.removed = d.removed, e.ckpt = d.ckpt, e.starts = d.starts
    PROVE  AckBounded(q, e)
  BY SameSegments, Zenon DEF AckBounded

\* _sync_group_data_locked leaves no data window, or the failure noted.
LEMMA SyncGroupResult ==
    ASSUME NEW s, Consistent(s.policy, s.disk), NEW t \in SyncGroup(s)
    PROVE  /\ t.raised \in BOOLEAN /\ Moved(s.disk, t.disk)
           /\ Consistent(t.policy, t.disk) /\ DataBounded(t.policy, t.disk)
           /\ t.disk.ckpt = s.disk.ckpt /\ t.disk.starts = s.disk.starts
           /\ t.policy.ackFailed = s.policy.ackFailed
           /\ ~ t.raised => t.disk.synced = Len(t.disk.log)
<1> DEFINE p == [s.policy EXCEPT !.dataTimer = FALSE]
<1>1. s.policy \in Policies /\ Sound(s.disk) /\ Moved(s.disk, s.disk)
  BY Zenon DEF Consistent, Moved
<1>2. p \in Policies /\ Alike(s.policy, p)
  <2>1. FALSE \in BOOLEAN
    BY Zenon
  <2> QED
    BY <1>1, <2>1, TimerSet, Zenon
<1>3. Consistent(p, s.disk)
  BY <1>1, <1>2, MovedCovered, Zenon DEF Alike
<1> HIDE DEF p
<1>4. CASE p.unsynced = 0
  <2>1. t = [policy |-> p, disk |-> s.disk, raised |-> FALSE]
    BY <1>4, Zenon DEF SyncGroup, p
  <2>2. t.policy = p /\ t.disk = s.disk /\ t.raised = FALSE
    BY <2>1
  <2>3. s.disk.synced = Len(s.disk.log)
    BY <1>3, <1>4, NothingCounted
  <2>4. DataBounded(p, s.disk)
    BY <1>1, <2>3, AllSynced DEF DataBounded
  <2> QED
    BY <1>1, <1>2, <1>3, <2>2, <2>3, <2>4, Zenon DEF Alike
<1>5. CASE p.unsynced # 0
  <2>1. PICK r \in OutboxSync(s.disk) :
            t = [policy |-> IF r.raised THEN ArmData([p EXCEPT !.dataFailed = TRUE])
                            ELSE DataClean(p),
                 disk |-> r.disk, raised |-> r.raised]
    BY <1>5, Zenon DEF SyncGroup, p
  <2>2. /\ Sound(r.disk) /\ r.raised \in BOOLEAN
        /\ r.disk.log = s.disk.log /\ r.disk.removed = s.disk.removed
        /\ r.disk.ckpt = s.disk.ckpt /\ r.disk.starts = s.disk.starts
        /\ r.raised => r.disk.synced = s.disk.synced
        /\ ~ r.raised => r.disk.synced = Len(s.disk.log)
    BY <1>1, SyncResult, Zenon
  <2>3. Moved(s.disk, r.disk)
    BY <2>2, Zenon DEF Moved
  <2>4. t.disk = r.disk /\ t.raised = r.raised
    BY <2>1
  <2>5. CASE r.raised
    <3> DEFINE f == [p EXCEPT !.dataFailed = TRUE]
    <3>1. t.policy = ArmData(f)
      BY <2>1, <2>5
    <3>2. /\ f \in Policies /\ f.dataFailed = TRUE /\ f.unsynced = p.unsynced
          /\ f.bytes = p.bytes /\ f.acked = p.acked /\ f.ackFailed = p.ackFailed
      <4>1. TRUE \in BOOLEAN
        BY Zenon
      <4> QED
        BY <1>2, <4>1, FailedSet, Zenon
    <3> HIDE DEF f
    <3>3. ArmData(f) \in Policies /\ Alike(f, ArmData(f))
      BY <3>2, ArmSet, Zenon
    <3>4. Consistent(t.policy, t.disk)
      <4>1. /\ t.policy \in Policies /\ t.policy.unsynced = p.unsynced
            /\ t.policy.bytes = p.bytes /\ t.policy.acked = p.acked
        BY <3>1, <3>2, <3>3, Zenon DEF Alike
      <4>2. Moved(s.disk, t.disk)
        BY <2>3, <2>4
      <4> QED
        BY <1>3, <4>1, <4>2, MovedCovered, Zenon
    <3>5. DataBounded(t.policy, t.disk)
      BY <3>1, <3>2, <3>3, Zenon DEF Alike, DataBounded
    <3>6. t.policy.ackFailed = s.policy.ackFailed
      BY <1>2, <3>1, <3>2, <3>3, Zenon DEF Alike
    <3>7. t.raised /\ t.raised \in BOOLEAN
      <4>1. t.raised \in BOOLEAN
        BY <2>2, <2>4, Zenon
      <4>2. t.raised
        BY <2>4, <2>5
      <4> QED
        BY <4>1, <4>2
    <3>8. Moved(s.disk, t.disk) /\ t.disk.ckpt = s.disk.ckpt /\ t.disk.starts = s.disk.starts
      BY <2>2, <2>3, <2>4, Zenon
    <3> QED
      BY <3>4, <3>5, <3>6, <3>7, <3>8, Zenon
  <2>6. CASE ~ r.raised
    <3>1. t.policy = DataClean(p)
      BY <2>1, <2>6
    <3>2. /\ DataClean(p) \in Policies /\ DataClean(p).unsynced = 0 /\ DataClean(p).bytes = 0
          /\ DataClean(p).acked = p.acked /\ DataClean(p).ackFailed = p.ackFailed
      BY <1>2, CleanSet, Zenon
    <3>3. r.disk.synced = Len(r.disk.log)
      BY <2>2, <2>6, Zenon
    <3>4. /\ Len(r.disk.log) - r.disk.synced = 0
          /\ BytesBetween(r.disk, r.disk.synced, Len(r.disk.log)) = 0
          /\ ~ Reached(Len(r.disk.log) - r.disk.synced, SyncMessages)
          /\ ~ Reached(BytesBetween(r.disk, r.disk.synced, Len(r.disk.log)), SyncBytes)
      BY <2>2, <3>3, AllSynced
    <3>5. r.disk.removed - r.disk.ckpt <= p.acked
      BY <1>3, <2>2 DEF Consistent, Covered
    <3>6. Covered(DataClean(p), r.disk)
      BY <3>2, <3>4, <3>5 DEF Covered
    <3>7. Consistent(t.policy, t.disk)
      BY <2>2, <2>4, <3>1, <3>2, <3>6, Zenon DEF Consistent
    <3>8. DataBounded(t.policy, t.disk)
      BY <2>4, <3>4, Zenon DEF DataBounded
    <3>9. t.policy.ackFailed = s.policy.ackFailed
      BY <1>2, <3>1, <3>2, Zenon DEF Alike
    <3> QED
      BY <2>2, <2>3, <2>4, <3>3, <3>7, <3>8, <3>9, Zenon
  <2> QED
    BY <2>5, <2>6
<1> QED
  BY <1>4, <1>5

\* _checkpoint_group_locked leaves no replay window, or the failure noted.
LEMMA CheckpointGroupResult ==
    ASSUME NEW s, Consistent(s.policy, s.disk), NEW t \in CheckpointGroup(s)
    PROVE  /\ t.raised \in BOOLEAN /\ Moved(s.disk, t.disk)
           /\ Consistent(t.policy, t.disk) /\ AckBounded(t.policy, t.disk)
           /\ DataBounded(s.policy, s.disk) => DataBounded(t.policy, t.disk)
           /\ ~ t.raised => t.disk.ckpt = t.disk.removed
<1> DEFINE p == [s.policy EXCEPT !.ackTimer = FALSE]
<1>1. s.policy \in Policies /\ Sound(s.disk) /\ Moved(s.disk, s.disk)
  BY Zenon DEF Consistent, Moved
<1>2. p \in Policies /\ Alike(s.policy, p)
  <2>1. FALSE \in BOOLEAN
    BY Zenon
  <2> QED
    BY <1>1, <2>1, TimerSet, Zenon
<1>3. Consistent(p, s.disk) /\ (DataBounded(s.policy, s.disk) => DataBounded(p, s.disk))
  BY <1>1, <1>2, MovedCovered, Zenon DEF Alike
<1> HIDE DEF p
<1>4. CASE p.acked = 0
  <2>1. t = [policy |-> p, disk |-> s.disk, raised |-> FALSE]
    BY <1>4, Zenon DEF CheckpointGroup, p
  <2>2. t.policy = p /\ t.disk = s.disk /\ t.raised = FALSE
    BY <2>1
  <2>3. s.disk.ckpt = s.disk.removed
    BY <1>3, <1>4, NothingCounted
  <2>4. AckBounded(p, s.disk)
    BY <1>1, <2>3, AllCheckpointed DEF AckBounded
  <2> QED
    BY <1>1, <1>3, <2>2, <2>3, <2>4, Zenon
<1>5. CASE p.acked # 0
  <2>1. PICK r \in OutboxCheckpoint(s.disk) :
            t = [policy |-> IF r.raised THEN ArmAck([p EXCEPT !.ackFailed = TRUE])
                            ELSE DataClean(AckClean(p)),
                 disk |-> r.disk, raised |-> r.raised]
    BY <1>5, Zenon DEF CheckpointGroup, p
  <2>2. /\ Sound(r.disk) /\ r.raised \in BOOLEAN
        /\ r.disk.log = s.disk.log /\ r.disk.removed = s.disk.removed
        /\ r.disk.synced \in {s.disk.synced, Len(s.disk.log)}
        /\ r.raised => r.disk.ckpt = s.disk.ckpt /\ r.disk.starts = s.disk.starts
        /\ ~ r.raised => r.disk.synced = Len(s.disk.log) /\ r.disk.ckpt = s.disk.removed
    BY <1>1, CheckpointResult, Zenon
  <2>3. Moved(s.disk, r.disk)
    BY <2>2, Zenon DEF Moved
  <2>4. t.disk = r.disk /\ t.raised = r.raised
    BY <2>1
  <2>5. CASE r.raised
    <3> DEFINE f == [p EXCEPT !.ackFailed = TRUE]
    <3>1. t.policy = ArmAck(f)
      BY <2>1, <2>5
    <3>2. /\ f \in Policies /\ f.ackFailed = TRUE /\ f.unsynced = p.unsynced
          /\ f.bytes = p.bytes /\ f.acked = p.acked /\ f.dataFailed = p.dataFailed
      <4>1. TRUE \in BOOLEAN
        BY Zenon
      <4> QED
        BY <1>2, <4>1, FailedSet, Zenon
    <3> HIDE DEF f
    <3>3. ArmAck(f) \in Policies /\ Alike(f, ArmAck(f))
      BY <3>2, ArmSet, Zenon
    <3>4. /\ Consistent(t.policy, t.disk)
          /\ DataBounded(p, s.disk) => DataBounded(t.policy, t.disk)
      <4>1. /\ t.policy \in Policies /\ t.policy.unsynced = p.unsynced
            /\ t.policy.bytes = p.bytes /\ t.policy.acked = p.acked
            /\ t.policy.dataFailed = p.dataFailed
        BY <3>1, <3>2, <3>3, Zenon DEF Alike
      <4>2. Moved(s.disk, t.disk)
        BY <2>3, <2>4
      <4> QED
        BY <1>3, <4>1, <4>2, MovedCovered, Zenon
    <3>5. AckBounded(t.policy, t.disk)
      BY <3>1, <3>2, <3>3, Zenon DEF Alike, AckBounded
    <3>6. t.raised /\ t.raised \in BOOLEAN
      <4>1. t.raised \in BOOLEAN
        BY <2>2, <2>4, Zenon
      <4>2. t.raised
        BY <2>4, <2>5
      <4> QED
        BY <4>1, <4>2
    <3>7. Moved(s.disk, t.disk)
      BY <2>3, <2>4, Zenon
    <3> QED
      BY <1>3, <3>4, <3>5, <3>6, <3>7, Zenon
  <2>6. CASE ~ r.raised
    <3> DEFINE a == AckClean(p)
    <3>1. t.policy = DataClean(a)
      BY <2>1, <2>6
    <3>2. a \in Policies /\ a.acked = 0
      BY <1>2, CleanSet, Zenon
    <3> HIDE DEF a
    <3>3. /\ DataClean(a) \in Policies /\ DataClean(a).unsynced = 0 /\ DataClean(a).bytes = 0
          /\ DataClean(a).acked = 0
      BY <3>2, CleanSet, Zenon
    <3>4. r.disk.synced = Len(r.disk.log) /\ r.disk.ckpt = r.disk.removed
      BY <2>2, <2>6, Zenon
    <3>5. /\ Len(r.disk.log) - r.disk.synced = 0
          /\ BytesBetween(r.disk, r.disk.synced, Len(r.disk.log)) = 0
          /\ ~ Reached(Len(r.disk.log) - r.disk.synced, SyncMessages)
          /\ ~ Reached(BytesBetween(r.disk, r.disk.synced, Len(r.disk.log)), SyncBytes)
      BY <2>2, <3>4, AllSynced
    <3>6. /\ r.disk.removed - r.disk.ckpt = 0
          /\ ~ Reached(r.disk.removed - r.disk.ckpt, AckMessages)
          /\ SegmentOf(r.disk, r.disk.removed) = SegmentOf(r.disk, r.disk.ckpt)
      BY <2>2, <3>4, AllCheckpointed
    <3>7. Covered(DataClean(a), r.disk)
      BY <3>3, <3>5, <3>6 DEF Covered
    <3>8. Consistent(t.policy, t.disk)
      BY <2>2, <2>4, <3>1, <3>3, <3>7, Zenon DEF Consistent
    <3>9. DataBounded(t.policy, t.disk) /\ AckBounded(t.policy, t.disk)
      BY <2>4, <3>5, <3>6, Zenon DEF DataBounded, AckBounded
    <3> QED
      BY <2>2, <2>3, <2>4, <3>4, <3>8, <3>9, Zenon
  <2> QED
    BY <2>5, <2>6
<1> QED
  BY <1>4, <1>5

\* Below the counters' triggers the windows are below them too.
LEMMA NotDue ==
    ASSUME NEW p, NEW d, Consistent(p, d)
    PROVE  /\ ~ DataDue(p) => DataBounded(p, d)
           /\ ~ AckDue(p, d) => AckBounded(p, d)
<1>1. /\ Len(d.log) \in Nat /\ d.synced \in Nat /\ d.removed \in Nat /\ d.ckpt \in Nat
      /\ Sound(d) /\ p.unsynced \in Nat /\ p.bytes \in Nat /\ p.acked \in Nat
  BY DiskShape DEF Consistent, Policies
<1>2. /\ Len(d.log) - d.synced <= p.unsynced
      /\ BytesBetween(d, d.synced, Len(d.log)) <= p.bytes
      /\ d.removed - d.ckpt <= p.acked
  BY DEF Consistent, Covered
<1>3. ASSUME NEW m \in Int, NEW n \in Nat, NEW trigger \in Nat, m <= n, ~ Reached(n, trigger)
      PROVE  ~ Reached(m, trigger)
  BY <1>3 DEF Reached
<1>4. SyncMessages \in Nat /\ SyncBytes \in Nat /\ AckMessages \in Nat
  BY TriggerAssumption DEF ValidGroupMode
<1>5. BytesBetween(d, d.synced, Len(d.log)) \in Int
  <2>1. d.log \in Seq(Nat) /\ d.synced <= Len(d.log)
    BY DiskShape DEF Consistent, Sound
  <2>2. End(d, Len(d.log)) \in Nat /\ End(d, d.synced) \in Nat
    BY <1>1, <2>1 DEF End
  <2> QED
    BY <2>2 DEF BytesBetween
<1>6. Len(d.log) - d.synced \in Int /\ d.removed - d.ckpt \in Int
  BY <1>1
<1>7. ~ DataDue(p) => DataBounded(p, d)
  BY <1>1, <1>2, <1>3, <1>4, <1>5, <1>6, Zenon DEF DataDue, DataBounded
<1>8. ~ AckDue(p, d) => AckBounded(p, d)
  BY <1>1, <1>2, <1>3, <1>4, <1>6, NoSegmentPending, Zenon DEF AckDue, AckBounded
<1> QED
  BY <1>7, <1>8

\* The half of AckBounded that an append cannot break.
AckCountBounded(p, d) == p.ackFailed \/ ~ Reached(d.removed - d.ckpt, AckMessages)

\* The counters are reset for the boundaries the append crossed before the record was
\* written, and count the record.
LEMMA CountedResult ==
    ASSUME NEW p, NEW d, Consistent(p, d), NEW size \in Nat,
           NEW e, Sound(e), e.removed = d.removed,
           e.log = Append(d.log, End(d, Len(d.log)) + size),
           NEW dm \in BOOLEAN, NEW am \in BOOLEAN,
           dm => e.synced = Len(d.log), ~ dm => e.synced = d.synced,
           am => e.ckpt = d.removed, ~ am => e.ckpt = d.ckpt
    PROVE  /\ Consistent(Counted(p, size, dm, am), e)
           /\ AckCountBounded(p, d) => AckCountBounded(Counted(p, size, dm, am), e)
<1> DEFINE q == IF dm THEN DataClean(p) ELSE p
           a == IF am THEN AckClean(q) ELSE q
           c == [a EXCEPT !.unsynced = @ + 1, !.bytes = @ + size]
<1>1. /\ d.log \in Seq(Nat) /\ Len(d.log) \in Nat /\ d.synced \in Nat /\ d.removed \in Nat
      /\ d.ckpt \in Nat /\ d.synced <= Len(d.log) /\ p \in Policies
  BY DiskShape DEF Consistent, Sound
<1>2. End(d, Len(d.log)) \in Nat /\ End(d, d.synced) \in Nat
  BY <1>1 DEF End
<1>3. /\ Len(e.log) = Len(d.log) + 1
      /\ End(e, Len(e.log)) = End(d, Len(d.log)) + size
      /\ \A n \in 0 .. Len(d.log) : End(e, n) = End(d, n)
  <2>1. /\ Len(e.log) = Len(d.log) + 1
        /\ e.log[Len(d.log) + 1] = End(d, Len(d.log)) + size
        /\ \A n \in 1 .. Len(d.log) : e.log[n] = d.log[n]
    BY <1>1, <1>2, AppendProperties
  <2>2. End(e, Len(e.log)) = End(d, Len(d.log)) + size
    BY <1>1, <2>1 DEF End
  <2>3. \A n \in 0 .. Len(d.log) : End(e, n) = End(d, n)
    BY <1>1, <2>1 DEF End
  <2> QED
    BY <2>1, <2>2, <2>3
<1>4. /\ q \in Policies
      /\ dm => q.unsynced = 0 /\ q.bytes = 0
      /\ ~ dm => q.unsynced = p.unsynced /\ q.bytes = p.bytes
      /\ q.acked = p.acked /\ q.ackFailed = p.ackFailed
  BY <1>1, CleanSet, Zenon
<1> HIDE DEF q
<1>5. /\ a \in Policies /\ a.unsynced = q.unsynced /\ a.bytes = q.bytes
      /\ am => a.acked = 0
      /\ ~ am => a.acked = q.acked /\ a.ackFailed = q.ackFailed
  BY <1>4, CleanSet, Zenon
<1> HIDE DEF a
<1>6. /\ a.unsynced \in Nat /\ a.bytes \in Nat /\ a.unsynced + 1 \in Nat /\ a.bytes + size \in Nat
  BY <1>5 DEF Policies
<1>7. /\ c \in Policies /\ c.unsynced = a.unsynced + 1 /\ c.bytes = a.bytes + size
      /\ c.acked = a.acked /\ c.ackFailed = a.ackFailed
  BY <1>5, <1>6 DEF Policies
<1>8. Counted(p, size, dm, am) = c
  BY Zenon DEF Counted, a, q
<1> HIDE DEF c
<1>9. Len(e.log) - e.synced <= c.unsynced /\ BytesBetween(e, e.synced, Len(e.log)) <= c.bytes
  <2>1. CASE dm
    <3>1. e.synced = Len(d.log) /\ a.unsynced = 0 /\ a.bytes = 0
      BY <1>4, <1>5, <2>1
    <3>2. End(e, e.synced) = End(d, Len(d.log))
      BY <1>1, <1>3, <3>1
    <3> QED
      BY <1>1, <1>2, <1>3, <1>7, <3>1, <3>2 DEF BytesBetween
  <2>2. CASE ~ dm
    <3>1. e.synced = d.synced /\ a.unsynced = p.unsynced /\ a.bytes = p.bytes
      BY <1>4, <1>5, <2>2
    <3>2. End(e, e.synced) = End(d, d.synced)
      BY <1>1, <1>3, <3>1
    <3>3. /\ Len(d.log) - d.synced <= p.unsynced
          /\ End(d, Len(d.log)) - End(d, d.synced) <= p.bytes
      BY DEF Consistent, Covered, BytesBetween
    <3>4. Len(e.log) - e.synced <= c.unsynced
      BY <1>1, <1>3, <1>6, <1>7, <3>1, <3>3
    <3>5. End(e, Len(e.log)) - End(e, e.synced) <= c.bytes
      <4>1. p.bytes \in Nat /\ c.bytes = p.bytes + size
        BY <1>6, <1>7, <3>1
      <4> QED
        BY <1>2, <1>3, <3>2, <3>3, <4>1
    <3> QED
      BY <3>4, <3>5 DEF BytesBetween
  <2> QED
    BY <2>1, <2>2
<1>10. CASE am
  <2>1. e.ckpt = e.removed /\ c.acked = 0
    BY <1>5, <1>7, <1>10
  <2>2. e.removed - e.ckpt = 0 /\ ~ Reached(e.removed - e.ckpt, AckMessages)
    BY <2>1, AllCheckpointed
  <2>3. Covered(c, e)
    BY <1>9, <2>1, <2>2 DEF Covered
  <2> QED
    BY <1>7, <1>8, <2>2, <2>3, Zenon DEF Consistent, AckCountBounded
<1>11. CASE ~ am
  <2>1. e.ckpt = d.ckpt /\ c.acked = p.acked /\ c.ackFailed = p.ackFailed
    BY <1>4, <1>5, <1>7, <1>11, Zenon
  <2>2. d.removed - d.ckpt <= p.acked
    BY DEF Consistent, Covered
  <2>3. Covered(c, e)
    BY <1>9, <2>1, <2>2 DEF Covered
  <2> QED
    BY <1>7, <1>8, <2>1, <2>3, Zenon DEF Consistent, AckCountBounded
<1> QED
  BY <1>10, <1>11

LEMMA AfterAppendResult ==
    ASSUME NEW p, NEW d, Consistent(p, d), AckCountBounded(p, d), NEW s \in AfterAppend(p, d)
    PROVE  /\ Consistent(s.policy, s.disk)
           /\ DataBounded(s.policy, s.disk) /\ AckBounded(s.policy, s.disk)
<1> DEFINE s0 == [policy |-> p, disk |-> d]
           First == IF DataDue(p) THEN SyncGroup(s0)
                    ELSE {[policy |-> ArmData(p), disk |-> d, raised |-> FALSE]}
<1>1. PICK t \in First : s \in IF ClosedSegmentPending(t.disk) THEN CheckpointGroup(t) ELSE {t}
  BY Zenon DEF AfterAppend
<1>2. /\ Consistent(t.policy, t.disk) /\ DataBounded(t.policy, t.disk)
      /\ AckCountBounded(t.policy, t.disk)
  <2>1. CASE DataDue(p)
    <3>1. s0.policy = p /\ s0.disk = d
      OBVIOUS
    <3>2. t \in SyncGroup(s0)
      BY <2>1
    <3> HIDE DEF s0
    <3>3. /\ Moved(d, t.disk)
          /\ Consistent(t.policy, t.disk) /\ DataBounded(t.policy, t.disk)
          /\ t.disk.ckpt = d.ckpt /\ t.policy.ackFailed = p.ackFailed
      BY <3>1, <3>2, SyncGroupResult, Zenon
    <3>4. t.disk.removed = d.removed
      BY <3>3 DEF Moved
    <3> QED
      BY <3>3, <3>4, Zenon DEF AckCountBounded
  <2>2. CASE ~ DataDue(p)
    <3>1. t = [policy |-> ArmData(p), disk |-> d, raised |-> FALSE]
      BY <2>2
    <3>2. t.policy = ArmData(p) /\ t.disk = d
      BY <3>1
    <3>3. p \in Policies /\ Moved(d, d)
      BY Zenon DEF Consistent, Moved
    <3>4. ArmData(p) \in Policies /\ Alike(p, ArmData(p))
      BY <3>3, ArmSet, Zenon
    <3>5. DataBounded(p, d)
      BY <2>2, NotDue
    <3>6. Consistent(ArmData(p), d) /\ DataBounded(ArmData(p), d)
      BY <3>3, <3>4, <3>5, MovedCovered, Zenon DEF Alike
    <3> QED
      BY <3>2, <3>4, <3>6, Zenon DEF AckCountBounded, Alike
  <2> QED
    BY <2>1, <2>2
<1> HIDE DEF First, s0
<1>3. CASE ClosedSegmentPending(t.disk)
  <2>1. s \in CheckpointGroup(t)
    BY <1>1, <1>3
  <2> QED
    BY <1>2, <2>1, CheckpointGroupResult, Zenon
<1>4. CASE ~ ClosedSegmentPending(t.disk)
  <2>1. s = t
    BY <1>1, <1>4
  <2>2. SegmentOf(t.disk, t.disk.removed) = SegmentOf(t.disk, t.disk.ckpt)
    BY <1>2, <1>4, NoSegmentPending DEF Consistent
  <2>3. AckBounded(t.policy, t.disk)
    BY <1>2, <2>2, Zenon DEF AckBounded, AckCountBounded
  <2> QED
    BY <1>2, <2>1, <2>3
<1> QED
  BY <1>3, <1>4
-----------------------------------------------------------------------------
(* The operations.                                                         *)

\* The runs' invariants together are inductive.
Inv == TypeOK /\ LossCovered /\ WindowBounded /\ CleanFlush

LEMMA InvParts ==
    ASSUME TypeOK, LossCovered, WindowBounded
    PROVE  Consistent(policy, disk) /\ DataBounded(policy, disk) /\ AckBounded(policy, disk)
  BY Zenon DEF TypeOK, LossCovered, WindowBounded, Consistent, Covered, DataBounded, AckBounded

\* An operation that ends in a good state keeps the invariant.
LEMMA EndsWell ==
    ASSUME NEW s, Ends(s), faults \in 0 .. MaxFaults, Consistent(s.policy, s.disk),
           DataBounded(s.policy, s.disk), AckBounded(s.policy, s.disk)
    PROVE  /\ policy' \in Policies /\ Sound(disk') /\ faults' \in 0 .. MaxFaults
           /\ LossCovered' /\ WindowBounded'
           /\ disk'.log = s.disk.log /\ disk'.synced = s.disk.synced
           /\ disk'.removed = s.disk.removed /\ disk'.ckpt = s.disk.ckpt
<1>1. /\ s.policy \in Policies /\ Sound(s.disk) /\ s.disk \in Disks /\ s.disk.faults \in Nat
  BY DEF Consistent, Sound, Disks
<1>2. faults' \in 0 .. MaxFaults
  BY <1>1, TriggerAssumption DEF Ends
<1> DEFINE d == s.disk
           e == [d EXCEPT !.faults = 0]
<1>3. policy' = s.policy /\ disk' = e
  BY DEF Ends
<1>4. /\ e \in Disks /\ e.log = d.log /\ e.synced = d.synced /\ e.removed = d.removed
      /\ e.ckpt = d.ckpt /\ e.starts = d.starts
  <2>1. d \in Disks
    BY <1>1
  <2> HIDE DEF d
  <2> QED
    BY <2>1 DEF Disks
<1> HIDE DEF e
<1>5. Sound(e)
  BY <1>1, <1>4 DEF Sound
<1>6. Moved(d, e)
  BY <1>4, <1>5, Zenon DEF Moved
<1>7. Consistent(s.policy, e) /\ DataBounded(s.policy, e)
  BY <1>1, <1>6, MovedCovered
<1>8. AckBounded(s.policy, e)
  BY <1>4, AckKept
<1>9. LossCovered'
  BY <1>3, <1>7, Zenon DEF LossCovered, Consistent, Covered
<1>10. WindowBounded'
  BY <1>3, <1>7, <1>8, Zenon DEF WindowBounded, DataBounded, AckBounded
<1> QED
  BY <1>1, <1>2, <1>3, <1>4, <1>5, <1>9, <1>10, Zenon

LEMMA AppendKeeps ==
    ASSUME Inv, NEW size \in Sizes, NEW reuse \in BOOLEAN, AppendGroup(size, reuse)
    PROVE  Inv'
<1>1. /\ TypeOK /\ LossCovered /\ WindowBounded /\ faults \in 0 .. MaxFaults
      /\ policy \in Policies /\ Sound(disk) /\ last \in {"none", "clean", "raised"}
      /\ size \in Nat
  BY TriggerAssumption DEF Inv, TypeOK
<1>2. Consistent(policy, disk) /\ DataBounded(policy, disk) /\ AckBounded(policy, disk)
  BY <1>1, InvParts
<1>3. last' \in {"none", "raised"}
  BY <1>1 DEF AppendGroup
<1>4. PICK r \in OutboxAppend(disk, size, reuse) :
          \/ /\ r.raised
             /\ Ends([policy |-> [policy EXCEPT !.ackFailed = @ \/ r.disk.starts # disk.starts],
                      disk |-> r.disk])
          \/ /\ ~ r.raised
             /\ \E s \in AfterAppend(Counted(policy, size, r.disk.synced # disk.synced,
                                             r.disk.ckpt # disk.ckpt), r.disk) :
                    Ends(s)
  BY Zenon DEF AppendGroup
<1>5. /\ r.raised \in BOOLEAN
      /\ r.raised => Moved(disk, r.disk)
      /\ ~ r.raised => /\ Sound(r.disk) /\ r.disk.removed = disk.removed
                       /\ r.disk.log = Append(disk.log, End(disk, Len(disk.log)) + size)
                       /\ r.disk.synced \in {disk.synced, Len(disk.log)}
                       /\ r.disk.ckpt \in {disk.ckpt, disk.removed}
  BY <1>1, AppendResult, Zenon
<1>6. \E s : /\ Ends(s) /\ Consistent(s.policy, s.disk)
             /\ DataBounded(s.policy, s.disk) /\ AckBounded(s.policy, s.disk)
  <2>1. CASE r.raised
    <3> DEFINE b == policy.ackFailed \/ r.disk.starts # disk.starts
               q == [policy EXCEPT !.ackFailed = b]
               s == [policy |-> q, disk |-> r.disk]
    <3>1. /\ q \in Policies /\ q.ackFailed = b /\ q.unsynced = policy.unsynced
          /\ q.bytes = policy.bytes /\ q.acked = policy.acked
          /\ q.dataFailed = policy.dataFailed
      <4>1. b \in BOOLEAN
        BY Zenon
      <4> HIDE DEF b
      <4>2. q = [policy EXCEPT !.ackFailed = b]
        OBVIOUS
      <4> HIDE DEF q
      <4> QED
        BY <1>1, <4>1, <4>2, Zenon DEF Policies
    <3>2. Ends(s)
      BY <1>4, <2>1, Zenon
    <3>3. s.policy = q /\ s.disk = r.disk
      BY Zenon
    <3> HIDE DEF q
    <3>4. Moved(disk, r.disk)
      BY <1>5, <2>1
    <3>5. Consistent(q, r.disk) /\ DataBounded(q, r.disk)
      BY <1>2, <3>1, <3>4, MovedCovered, Zenon
    <3>6. AckBounded(q, r.disk)
      <4>1. CASE b
        BY <3>1, <4>1, Zenon DEF AckBounded
      <4>2. CASE ~ b /\ r.disk.ckpt = r.disk.removed
        BY <3>4, <4>2, AllCheckpointed DEF AckBounded, Moved
      <4>3. CASE ~ b /\ r.disk.ckpt = disk.ckpt
        <5>1. /\ r.disk.starts = disk.starts /\ r.disk.log = disk.log
              /\ r.disk.removed = disk.removed /\ ~ policy.ackFailed
          BY <3>4, <4>3 DEF Moved
        <5>2. ~ Reached(disk.removed - disk.ckpt, AckMessages)
              /\ SegmentOf(disk, disk.removed) = SegmentOf(disk, disk.ckpt)
          BY <1>2, <5>1 DEF AckBounded
        <5>3. \A c : SegmentOf(r.disk, c) = SegmentOf(disk, c)
          BY <5>1, SameSegments, Zenon
        <5> QED
          BY <4>3, <5>1, <5>2, <5>3, Zenon DEF AckBounded
      <4>4. r.disk.ckpt = disk.ckpt \/ r.disk.ckpt = r.disk.removed
        BY <3>4 DEF Moved
      <4> QED
        BY <4>1, <4>2, <4>3, <4>4
    <3> HIDE DEF s
    <3> QED
      BY <3>2, <3>3, <3>5, <3>6, Zenon
  <2>2. CASE ~ r.raised
    <3> DEFINE dm == r.disk.synced # disk.synced
               am == r.disk.ckpt # disk.ckpt
               c == Counted(policy, size, dm, am)
    <3>1. PICK s \in AfterAppend(c, r.disk) : Ends(s)
      BY <1>4, <2>2, Zenon
    <3>2. dm \in BOOLEAN /\ am \in BOOLEAN
      BY Zenon
    <3>3. /\ dm => r.disk.synced = Len(disk.log)
          /\ ~ dm => r.disk.synced = disk.synced
          /\ am => r.disk.ckpt = disk.removed
          /\ ~ am => r.disk.ckpt = disk.ckpt
      BY <1>5, <2>2
    <3>4. AckCountBounded(policy, disk)
      BY <1>2, Zenon DEF AckBounded, AckCountBounded
    <3>5. Consistent(c, r.disk) /\ AckCountBounded(c, r.disk)
      <4> HIDE DEF dm, am
      <4> QED
        BY <1>1, <1>2, <1>5, <2>2, <3>2, <3>3, <3>4, CountedResult, Zenon
    <3> HIDE DEF c
    <3>6. /\ Consistent(s.policy, s.disk)
          /\ DataBounded(s.policy, s.disk) /\ AckBounded(s.policy, s.disk)
      BY <3>1, <3>5, AfterAppendResult, Zenon
    <3> QED
      BY <3>1, <3>6
  <2> QED
    BY <1>5, <2>1, <2>2
<1>7. PICK s : /\ Ends(s) /\ Consistent(s.policy, s.disk)
               /\ DataBounded(s.policy, s.disk) /\ AckBounded(s.policy, s.disk)
  BY <1>6
<1>8. /\ policy' \in Policies /\ Sound(disk') /\ faults' \in 0 .. MaxFaults
      /\ LossCovered' /\ WindowBounded'
  BY <1>1, <1>7, EndsWell
<1>9. last' # "clean" /\ last' \in {"none", "clean", "raised"}
  BY <1>3
<1> QED
  BY <1>8, <1>9 DEF Inv, TypeOK, CleanFlush

LEMMA CompleteKeeps ==
    ASSUME Inv, CompleteGroup
    PROVE  Inv'
<1>1. /\ TypeOK /\ LossCovered /\ WindowBounded /\ faults \in 0 .. MaxFaults
      /\ policy \in Policies /\ Sound(disk) /\ last \in {"none", "clean", "raised"}
  BY DEF Inv, TypeOK
<1>2. Consistent(policy, disk) /\ DataBounded(policy, disk)
  BY <1>1, InvParts
<1>3. last' \in {"none", "raised"} /\ disk.removed < Len(disk.log)
  BY <1>1 DEF CompleteGroup
<1> DEFINE d == [disk EXCEPT !.removed = @ + 1]
           p == [policy EXCEPT !.acked = @ + 1]
           s0 == [policy |-> p, disk |-> d]
<1>4. PICK s \in IF AckDue(p, d) THEN CheckpointGroup(s0)
                 ELSE {[policy |-> ArmAck(p), disk |-> d]} : Ends(s)
  BY Zenon DEF CompleteGroup
<1>5. /\ disk.log \in Seq(Nat) /\ Len(disk.log) \in Nat /\ disk.synced \in Nat
      /\ disk.removed \in Nat /\ disk.ckpt \in Nat /\ disk.ckpt <= disk.removed
      /\ policy.acked \in Nat /\ disk \in Disks
  BY <1>1, DiskShape DEF Sound, Policies
<1>6. /\ d \in Disks /\ d.log = disk.log /\ d.synced = disk.synced /\ d.ckpt = disk.ckpt
      /\ d.starts = disk.starts /\ d.removed = disk.removed + 1
  <2>1. disk.removed + 1 \in Nat
    BY <1>5
  <2> QED
    BY <1>5, <2>1 DEF Disks
<1>7. /\ p \in Policies /\ p.acked = policy.acked + 1 /\ p.unsynced = policy.unsynced
      /\ p.bytes = policy.bytes /\ p.dataFailed = policy.dataFailed
  <2>1. policy.acked + 1 \in Nat
    BY <1>5
  <2> QED
    BY <1>1, <2>1 DEF Policies
<1>8. s0.policy = p /\ s0.disk = d
  BY Zenon
<1> HIDE DEF d, p, s0
<1>9. d.ckpt <= d.removed /\ d.removed <= Len(d.log)
  BY <1>3, <1>5, <1>6
<1>10. Sound(d)
  BY <1>1, <1>6, <1>9 DEF Sound
<1>11. BytesBetween(d, d.synced, Len(d.log)) = BytesBetween(disk, disk.synced, Len(disk.log))
  BY <1>6 DEF BytesBetween, End
<1>12. disk.removed - disk.ckpt <= policy.acked
  BY <1>2 DEF Consistent, Covered
<1>13. d.removed - d.ckpt <= p.acked
  BY <1>5, <1>6, <1>7, <1>12
<1>14. Covered(p, d)
  BY <1>2, <1>6, <1>7, <1>11, <1>13 DEF Consistent, Covered
<1>15. Consistent(p, d)
  BY <1>7, <1>10, <1>14 DEF Consistent
<1>16. DataBounded(p, d)
  BY <1>2, <1>6, <1>7, <1>11, Zenon DEF DataBounded
<1>17. /\ Consistent(s.policy, s.disk)
       /\ DataBounded(s.policy, s.disk) /\ AckBounded(s.policy, s.disk)
  <2>1. CASE AckDue(p, d)
    <3>1. s \in CheckpointGroup(s0)
      BY <1>4, <2>1
    <3> QED
      BY <1>8, <1>15, <1>16, <3>1, CheckpointGroupResult, Zenon
  <2>2. CASE ~ AckDue(p, d)
    <3>1. s = [policy |-> ArmAck(p), disk |-> d]
      BY <1>4, <2>2
    <3>2. s.policy = ArmAck(p) /\ s.disk = d
      BY <3>1
    <3>3. ArmAck(p) \in Policies /\ Alike(p, ArmAck(p))
      BY <1>7, ArmSet, Zenon
    <3>4. Moved(d, d)
      BY <1>10, Zenon DEF Moved
    <3>5. Consistent(ArmAck(p), d) /\ DataBounded(ArmAck(p), d)
      BY <1>15, <1>16, <3>3, <3>4, MovedCovered, Zenon DEF Alike
    <3>6. AckBounded(p, d)
      BY <1>15, <2>2, NotDue
    <3>7. AckBounded(ArmAck(p), d)
      BY <3>3, <3>6, AckKept, Zenon DEF Alike
    <3> QED
      BY <3>2, <3>5, <3>7
  <2> QED
    BY <2>1, <2>2
<1>18. /\ policy' \in Policies /\ Sound(disk') /\ faults' \in 0 .. MaxFaults
       /\ LossCovered' /\ WindowBounded'
  BY <1>1, <1>4, <1>17, EndsWell
<1>19. last' # "clean" /\ last' \in {"none", "clean", "raised"}
  BY <1>3
<1> QED
  BY <1>18, <1>19 DEF Inv, TypeOK, CleanFlush

\* What a sync or checkpoint moves forward stays forward.
LEMMA StaysClean ==
    ASSUME NEW d, NEW e, Moved(d, e), d.synced = Len(d.log), d.ckpt = d.removed
    PROVE  e.synced = Len(e.log) /\ e.ckpt = e.removed
  BY Zenon DEF Moved

LEMMA TimerKeeps ==
    ASSUME Inv, DataTimer \/ AckTimer
    PROVE  Inv'
<1>1. /\ TypeOK /\ LossCovered /\ WindowBounded /\ CleanFlush /\ faults \in 0 .. MaxFaults
      /\ policy \in Policies /\ Sound(disk) /\ last \in {"none", "clean", "raised"}
  BY DEF Inv, TypeOK
<1>2. Consistent(policy, disk) /\ DataBounded(policy, disk) /\ AckBounded(policy, disk)
  BY <1>1, InvParts
<1>3. last' = last
  BY DEF DataTimer, AckTimer
<1> DEFINE s0 == [policy |-> policy, disk |-> disk]
<1>4. s0.policy = policy /\ s0.disk = disk
  BY Zenon
<1>5. \E s : /\ Ends(s) /\ Moved(disk, s.disk) /\ Consistent(s.policy, s.disk)
             /\ DataBounded(s.policy, s.disk) /\ AckBounded(s.policy, s.disk)
  <2>1. CASE DataTimer
    <3>1. PICK s \in SyncGroup(s0) : Ends(s)
      BY <2>1, Zenon DEF DataTimer
    <3> HIDE DEF s0
    <3>2. /\ Moved(disk, s.disk) /\ Consistent(s.policy, s.disk) /\ DataBounded(s.policy, s.disk)
          /\ s.disk.ckpt = disk.ckpt /\ s.disk.starts = disk.starts
          /\ s.policy.ackFailed = policy.ackFailed
      BY <1>2, <1>4, <3>1, SyncGroupResult, Zenon
    <3>3. s.disk.log = disk.log /\ s.disk.removed = disk.removed
      BY <3>2 DEF Moved
    <3>4. AckBounded(s.policy, s.disk)
      BY <1>2, <3>2, <3>3, AckKept, Zenon
    <3> QED
      BY <3>1, <3>2, <3>4
  <2>2. CASE AckTimer
    <3>1. PICK s \in CheckpointGroup(s0) : Ends(s)
      BY <2>2, Zenon DEF AckTimer
    <3> HIDE DEF s0
    <3>2. /\ Moved(disk, s.disk) /\ Consistent(s.policy, s.disk)
          /\ DataBounded(s.policy, s.disk) /\ AckBounded(s.policy, s.disk)
      BY <1>2, <1>4, <3>1, CheckpointGroupResult, Zenon
    <3> QED
      BY <3>1, <3>2
  <2> QED
    BY <2>1, <2>2
<1>6. PICK s : /\ Ends(s) /\ Moved(disk, s.disk) /\ Consistent(s.policy, s.disk)
               /\ DataBounded(s.policy, s.disk) /\ AckBounded(s.policy, s.disk)
  BY <1>5
<1>7. /\ policy' \in Policies /\ Sound(disk') /\ faults' \in 0 .. MaxFaults
      /\ LossCovered' /\ WindowBounded'
      /\ disk'.log = s.disk.log /\ disk'.synced = s.disk.synced
      /\ disk'.removed = s.disk.removed /\ disk'.ckpt = s.disk.ckpt
  BY <1>1, <1>6, EndsWell
<1>8. CleanFlush'
  <2> SUFFICES ASSUME last' = "clean"
               PROVE  disk'.synced = Len(disk'.log) /\ disk'.ckpt = disk'.removed
    BY DEF CleanFlush
  <2>1. disk.synced = Len(disk.log) /\ disk.ckpt = disk.removed
    BY <1>1, <1>3 DEF CleanFlush
  <2>2. s.disk.synced = Len(s.disk.log) /\ s.disk.ckpt = s.disk.removed
    BY <1>6, <2>1, StaysClean
  <2> QED
    BY <1>7, <2>2
<1> QED
  BY <1>1, <1>3, <1>7, <1>8 DEF Inv, TypeOK

\* Cancelling both timers changes nothing else.
LEMMA UnarmedResult ==
    ASSUME NEW s, s.policy \in Policies,
           \/ s = [policy |-> s.policy, disk |-> s.disk]
           \/ s = [policy |-> s.policy, disk |-> s.disk, raised |-> s.raised]
    PROVE  /\ Unarmed(s).policy \in Policies /\ Alike(s.policy, Unarmed(s).policy)
           /\ Unarmed(s).disk = s.disk
<1>1. PICK p, d, x : p = s.policy /\ d = s.disk /\ x = s.raised
  OBVIOUS
<1> DEFINE q == [p EXCEPT !.dataTimer = FALSE]
           r == [q EXCEPT !.ackTimer = FALSE]
<1>2. q \in Policies /\ Alike(p, q)
  <2>1. FALSE \in BOOLEAN /\ p \in Policies
    BY <1>1, Zenon
  <2> QED
    BY <2>1, TimerSet, Zenon
<1>3. r \in Policies /\ Alike(q, r)
  <2>1. FALSE \in BOOLEAN
    BY Zenon
  <2> HIDE DEF q
  <2> QED
    BY <1>2, <2>1, TimerSet, Zenon
<1>4. Unarmed(s).policy = r /\ Unarmed(s).disk = d
  <2>1. CASE s = [policy |-> p, disk |-> d]
    BY <2>1 DEF Unarmed
  <2>2. CASE s = [policy |-> p, disk |-> d, raised |-> x]
    BY <2>2 DEF Unarmed
  <2> QED
    BY <1>1, <2>1, <2>2
<1>5. Alike(p, r)
  BY <1>2, <1>3, Zenon DEF Alike
<1> HIDE DEF q, r
<1> QED
  BY <1>1, <1>3, <1>4, <1>5

LEMMA GroupShape ==
    ASSUME NEW s, NEW t, t \in SyncGroup(s) \/ t \in CheckpointGroup(s)
    PROVE  t = [policy |-> t.policy, disk |-> t.disk, raised |-> t.raised]
<1>1. \E p, d, x : t = [policy |-> p, disk |-> d, raised |-> x]
  BY Zenon DEF SyncGroup, CheckpointGroup
<1>2. PICK p, d, x : t = [policy |-> p, disk |-> d, raised |-> x]
  BY <1>1
<1>3. t.policy = p /\ t.disk = d /\ t.raised = x
  BY <1>2
<1> QED
  BY <1>2, <1>3, Zenon

\* flush(): both halves are done, or it raised with the timers off.
LEMMA FlushKeeps ==
    ASSUME Inv, Flush
    PROVE  Inv'
<1>1. /\ TypeOK /\ LossCovered /\ WindowBounded /\ faults \in 0 .. MaxFaults
      /\ policy \in Policies /\ Sound(disk)
  BY DEF Inv, TypeOK
<1>2. Consistent(policy, disk) /\ DataBounded(policy, disk) /\ AckBounded(policy, disk)
  BY <1>1, InvParts
<1> DEFINE s0 == [policy |-> policy, disk |-> disk]
           u == Unarmed(s0)
<1>3. PICK s \in FlushResults(s0) :
          Ends(IF s.raised THEN Unarmed(s) ELSE s) /\ last' = IF s.raised THEN "raised" ELSE "clean"
  BY Zenon DEF Flush
<1>4. PICK t \in SyncGroup(u) : s \in IF t.raised THEN {t} ELSE CheckpointGroup(t)
  BY Zenon DEF FlushResults
<1>5. u.policy \in Policies /\ Alike(policy, u.policy) /\ u.disk = disk
  <2>1. s0.policy = policy /\ s0.disk = disk /\ s0 = [policy |-> s0.policy, disk |-> s0.disk]
    BY Zenon
  <2> HIDE DEF s0
  <2> QED
    BY <1>1, <2>1, UnarmedResult, Zenon
<1> HIDE DEF u
<1>6. Moved(disk, disk)
  BY <1>1, Zenon DEF Moved
<1>7. Consistent(u.policy, u.disk)
  BY <1>2, <1>5, <1>6, MovedCovered, Zenon DEF Alike
<1>8. AckBounded(u.policy, u.disk)
  BY <1>2, <1>5, AckKept, Zenon DEF Alike
<1>9. /\ t.raised \in BOOLEAN /\ Consistent(t.policy, t.disk) /\ DataBounded(t.policy, t.disk)
      /\ AckBounded(t.policy, t.disk)
      /\ ~ t.raised => t.disk.synced = Len(t.disk.log)
  <2>1. /\ t.raised \in BOOLEAN /\ Moved(u.disk, t.disk)
        /\ Consistent(t.policy, t.disk) /\ DataBounded(t.policy, t.disk)
        /\ t.disk.ckpt = u.disk.ckpt /\ t.disk.starts = u.disk.starts
        /\ t.policy.ackFailed = u.policy.ackFailed
        /\ ~ t.raised => t.disk.synced = Len(t.disk.log)
    BY <1>4, <1>7, SyncGroupResult, Zenon
  <2>2. t.disk.log = u.disk.log /\ t.disk.removed = u.disk.removed
    BY <2>1 DEF Moved
  <2>3. AckBounded(t.policy, t.disk)
    BY <1>8, <2>1, <2>2, AckKept, Zenon
  <2> QED
    BY <2>1, <2>3, Zenon
<1>10. /\ s.raised \in BOOLEAN /\ Consistent(s.policy, s.disk) /\ DataBounded(s.policy, s.disk)
       /\ AckBounded(s.policy, s.disk)
       /\ ~ s.raised => s.disk.synced = Len(s.disk.log) /\ s.disk.ckpt = s.disk.removed
       /\ s = [policy |-> s.policy, disk |-> s.disk, raised |-> s.raised]
  <2>1. CASE t.raised
    <3>1. s = t
      BY <1>4, <2>1
    <3>2. t = [policy |-> t.policy, disk |-> t.disk, raised |-> t.raised]
      BY <1>4, GroupShape, Zenon
    <3> QED
      BY <1>9, <2>1, <3>1, <3>2, Zenon
  <2>2. CASE ~ t.raised
    <3>1. s \in CheckpointGroup(t)
      BY <1>4, <2>2
    <3>2. /\ s.raised \in BOOLEAN /\ Moved(t.disk, s.disk)
          /\ Consistent(s.policy, s.disk) /\ DataBounded(s.policy, s.disk)
          /\ AckBounded(s.policy, s.disk)
          /\ ~ s.raised => s.disk.ckpt = s.disk.removed
      BY <1>9, <3>1, CheckpointGroupResult, Zenon
    <3>3. s.disk.synced = Len(s.disk.log)
      BY <1>9, <2>2, <3>2, Zenon DEF Moved
    <3>4. s = [policy |-> s.policy, disk |-> s.disk, raised |-> s.raised]
      BY <3>1, GroupShape, Zenon
    <3> QED
      BY <3>2, <3>3, <3>4, Zenon
  <2> QED
    BY <2>1, <2>2
<1>11. CASE s.raised
  <2>1. Ends(Unarmed(s)) /\ last' = "raised"
    BY <1>3, <1>11, Zenon
  <2>2. s.policy \in Policies
    BY <1>10 DEF Consistent
  <2>3. PICK v : v = Unarmed(s)
    OBVIOUS
  <2>4. v.policy \in Policies /\ Alike(s.policy, v.policy) /\ v.disk = s.disk
    BY <1>10, <2>2, <2>3, UnarmedResult, Zenon
  <2>5. Moved(s.disk, s.disk)
    BY <1>10, Zenon DEF Consistent, Moved
  <2>6. Consistent(v.policy, v.disk) /\ DataBounded(v.policy, v.disk)
    BY <1>10, <2>4, <2>5, MovedCovered, Zenon DEF Alike
  <2>7. AckBounded(v.policy, v.disk)
    BY <1>10, <2>4, AckKept, Zenon DEF Alike
  <2>8. /\ policy' \in Policies /\ Sound(disk') /\ faults' \in 0 .. MaxFaults
        /\ LossCovered' /\ WindowBounded'
    BY <1>1, <2>1, <2>3, <2>6, <2>7, EndsWell, Zenon
  <2> QED
    BY <2>1, <2>8 DEF Inv, TypeOK, CleanFlush
<1>12. CASE ~ s.raised
  <2>1. Ends(s) /\ last' = "clean"
    BY <1>3, <1>12, Zenon
  <2>2. /\ policy' \in Policies /\ Sound(disk') /\ faults' \in 0 .. MaxFaults
        /\ LossCovered' /\ WindowBounded'
        /\ disk'.log = s.disk.log /\ disk'.synced = s.disk.synced
        /\ disk'.removed = s.disk.removed /\ disk'.ckpt = s.disk.ckpt
    BY <1>1, <1>10, <2>1, EndsWell, Zenon
  <2>3. CleanFlush'
    BY <1>10, <1>12, <2>2, Zenon DEF CleanFlush
  <2> QED
    BY <2>1, <2>2, <2>3 DEF Inv, TypeOK
<1> QED
  BY <1>10, <1>11, <1>12

LEMMA IntervalKeeps ==
    ASSUME Inv, DataIntervalPasses \/ AckIntervalPasses
    PROVE  Inv'
<1>1. policy \in Policies /\ UNCHANGED <<disk, faults, last>>
  BY DEF Inv, TypeOK, DataIntervalPasses, AckIntervalPasses
<1>2. policy' \in Policies /\ Alike(policy, policy')
  <2>1. TRUE \in BOOLEAN
    BY Zenon
  <2>2. CASE policy' = [policy EXCEPT !.dataLate = TRUE]
    BY <1>1, <2>1, <2>2, TimerSet, Zenon
  <2>3. CASE policy' = [policy EXCEPT !.ackLate = TRUE]
    BY <1>1, <2>1, <2>3, TimerSet, Zenon
  <2> QED
    BY <2>2, <2>3 DEF DataIntervalPasses, AckIntervalPasses
<1>3. TypeOK'
  BY <1>1, <1>2 DEF Inv, TypeOK
<1>4. LossCovered'
  BY <1>1, <1>2 DEF Inv, LossCovered, Alike
<1>5. WindowBounded'
  BY <1>1, <1>2, Zenon DEF Inv, WindowBounded, Alike
<1>6. CleanFlush'
  BY <1>1 DEF Inv, CleanFlush
<1> QED
  BY <1>3, <1>4, <1>5, <1>6 DEF Inv

\* A fresh policy fits a disk that has nothing pending.
LEMMA FreshFits ==
    ASSUME NEW d, Sound(d), d.synced = Len(d.log), d.ckpt = d.removed
    PROVE  /\ Consistent(Fresh, d) /\ DataBounded(Fresh, d) /\ AckBounded(Fresh, d)
<1>1. Fresh \in Policies
  BY Zenon DEF Fresh, Policies
<1>2. Fresh.unsynced = 0 /\ Fresh.bytes = 0 /\ Fresh.acked = 0
  BY DEF Fresh
<1> QED
  BY <1>1, <1>2, AllSynced, AllCheckpointed DEF Consistent, Covered, DataBounded, AckBounded

LEMMA CrashKeeps ==
    ASSUME Inv, Crash
    PROVE  Inv'
<1>1. /\ faults \in 0 .. MaxFaults /\ Sound(disk) /\ disk \in Disks
  BY DEF Inv, TypeOK, Sound
<1>2. faults' \in 0 .. MaxFaults /\ policy' = Fresh /\ last' = "none"
  BY <1>1, TriggerAssumption DEF Crash
<1>3. PICK n \in disk.synced .. Len(disk.log) :
          disk' = [disk EXCEPT !.log = SubSeq(@, 1, n), !.synced = n, !.removed = disk.ckpt]
  BY DEF Crash
<1>4. /\ disk.log \in Seq(Nat) /\ Len(disk.log) \in Nat /\ disk.synced \in Nat
      /\ disk.ckpt \in Nat /\ disk.ckpt <= disk.synced /\ disk.synced <= Len(disk.log)
  BY <1>1, DiskShape DEF Sound
<1>5. n \in Nat /\ n <= Len(disk.log) /\ disk.synced <= n
  BY <1>4
<1>6. SubSeq(disk.log, 1, n) \in Seq(Nat) /\ Len(SubSeq(disk.log, 1, n)) = n
  BY <1>4, <1>5, SubSeqProperties
<1>7. /\ disk' \in Disks /\ disk'.log = SubSeq(disk.log, 1, n) /\ disk'.synced = n
      /\ disk'.removed = disk.ckpt /\ disk'.ckpt = disk.ckpt /\ disk'.starts = disk.starts
  <2>1. PICK l : l = SubSeq(disk.log, 1, n)
    OBVIOUS
  <2>2. l \in Seq(Nat) /\ disk' = [disk EXCEPT !.log = l, !.synced = n, !.removed = disk.ckpt]
    BY <1>3, <1>6, <2>1
  <2>3. /\ disk' \in Disks /\ disk'.log = l /\ disk'.synced = n
        /\ disk'.removed = disk.ckpt /\ disk'.ckpt = disk.ckpt /\ disk'.starts = disk.starts
    BY <1>1, <1>4, <1>5, <2>2 DEF Disks
  <2> QED
    BY <2>1, <2>3
<1>8. Sound(disk')
  <2>1. Len(disk'.log) = n /\ disk.ckpt <= n
    BY <1>4, <1>5, <1>6, <1>7
  <2>2. \A x \in disk.starts : x <= n
    <3> TAKE x \in disk.starts
    <3>1. x <= disk.synced /\ x \in Nat
      BY <1>1, DiskShape DEF Sound
    <3> QED
      BY <1>4, <1>5, <3>1
  <2>3. \E x \in disk.starts : x <= disk.ckpt
    BY <1>1 DEF Sound
  <2> QED
    BY <1>4, <1>5, <1>7, <2>1, <2>2, <2>3 DEF Sound
<1>9. disk'.synced = Len(disk'.log) /\ disk'.ckpt = disk'.removed
  BY <1>6, <1>7
<1>10. Consistent(Fresh, disk') /\ DataBounded(Fresh, disk') /\ AckBounded(Fresh, disk')
  BY <1>8, <1>9, FreshFits
<1>11. LossCovered' /\ WindowBounded' /\ policy' \in Policies
  BY <1>2, <1>10, Zenon DEF LossCovered, WindowBounded, Consistent, Covered, DataBounded, AckBounded
<1> QED
  BY <1>2, <1>8, <1>11 DEF Inv, TypeOK, CleanFlush
-----------------------------------------------------------------------------
\* The inductive invariant holds: every operation of the policy, with any of its calls
\* failing, and every crash keeps it.
THEOREM InvariantCorrect == Spec => []Inv
<1>1. Init => Inv
  <2> SUFFICES ASSUME Init PROVE Inv
    OBVIOUS
  <2>1. policy = Fresh /\ faults = 0 /\ last = "none"
    BY DEF Init
  <2>2. disk = [log |-> <<>>, synced |-> 0, removed |-> 0, ckpt |-> 0, starts |-> {0},
                faults |-> 0]
    BY DEF Init
  <2>3. /\ disk.log = <<>> /\ disk.synced = 0 /\ disk.removed = 0 /\ disk.ckpt = 0
        /\ disk.starts = {0} /\ disk.faults = 0
    BY <2>2
  <2>4. Len(disk.log) = 0 /\ disk.log \in Seq(Nat)
    BY <2>3
  <2>5. disk \in Disks
    BY <2>2, <2>4 DEF Disks
  <2>6. Sound(disk)
    BY <2>3, <2>4, <2>5 DEF Sound
  <2>7. disk.synced = Len(disk.log) /\ disk.ckpt = disk.removed
    BY <2>3, <2>4
  <2>8. Consistent(Fresh, disk) /\ DataBounded(Fresh, disk) /\ AckBounded(Fresh, disk)
    BY <2>6, <2>7, FreshFits
  <2>9. LossCovered /\ WindowBounded /\ policy \in Policies
    BY <2>1, <2>8, Zenon DEF LossCovered, WindowBounded, Consistent, Covered, DataBounded, AckBounded
  <2>10. faults \in 0 .. MaxFaults
    BY <2>1, TriggerAssumption
  <2> QED
    BY <2>1, <2>6, <2>9, <2>10 DEF Inv, TypeOK, CleanFlush
<1>2. Inv /\ [Next]_vars => Inv'
  <2> SUFFICES ASSUME Inv, [Next]_vars PROVE Inv'
    OBVIOUS
  <2>1. CASE \E size \in Sizes, reuse \in BOOLEAN : AppendGroup(size, reuse)
    BY <2>1, AppendKeeps
  <2>2. CASE CompleteGroup
    BY <2>2, CompleteKeeps
  <2>3. CASE DataTimer \/ AckTimer
    BY <2>3, TimerKeeps
  <2>4. CASE Flush
    BY <2>4, FlushKeeps
  <2>5. CASE DataIntervalPasses \/ AckIntervalPasses
    BY <2>5, IntervalKeeps
  <2>6. CASE Crash
    BY <2>6, CrashKeeps
  <2>7. CASE UNCHANGED vars
    BY <2>7, Zenon DEF vars, Inv, TypeOK, LossCovered, WindowBounded, CleanFlush
  <2> QED
    BY <2>1, <2>2, <2>3, <2>4, <2>5, <2>6, <2>7 DEF Next
<1> QED
  BY <1>1, <1>2, PTL DEF Spec

\* Records are synced, completed and checkpointed in order, and the segment of the
\* checkpoint is never unlinked.
THEOREM TypeCorrect == Spec => []TypeOK
<1>1. Inv => TypeOK
  BY DEF Inv
<1> QED
  BY <1>1, InvariantCorrect, PTL

\* GroupMode's counters never understate what a crash can lose or replay, whatever calls
\* of the Outbox fail and wherever a rotation or a reused ID moves its boundaries.
THEOREM LossCoveredCorrect == Spec => []LossCovered
<1>1. Inv => LossCovered
  BY DEF Inv
<1> QED
  BY <1>1, InvariantCorrect, PTL

\* GroupMode keeps the windows its triggers promise unless storage failed, for every
\* choice of triggers, record sizes and segment sizes.
THEOREM WindowCorrect == Spec => []WindowBounded
<1>1. Inv => WindowBounded
  BY DEF Inv
<1> QED
  BY <1>1, InvariantCorrect, PTL

\* A flush() that did not raise has synced every record and stored every completion.
THEOREM FlushCorrect == Spec => []CleanFlush
<1>1. Inv => CleanFlush
  BY DEF Inv
<1> QED
  BY <1>1, InvariantCorrect, PTL
=============================================================================
