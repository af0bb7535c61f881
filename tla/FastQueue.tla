----------------------------- MODULE FastQueue -----------------------------
(***************************************************************************)
(* The message queue of src/reliomq/sender.py in FastMode: a FIFO whose    *)
(* newest messages live in bounded RAM and whose older ones have been      *)
(* spilled, batch by batch, to the Outbox.                                 *)
(*                                                                         *)
(* Every operation runs under _queue_lock and is one action, however many  *)
(* batches it spills.  A spill may fail at any batch and leave a part of   *)
(* that batch in the Outbox.  Time is abstract: a deadline may be found to *)
(* have passed whenever the code looks at the clock.                       *)
(***************************************************************************)
EXTENDS Integers, Sequences, FiniteSets, FiniteSetsExt, SequencesExt

CONSTANTS
    Ids,                 \* message identifiers, each published once
    SizeOf,              \* encoded_size of a message
    RamMaxMessages,      \* ram_max_messages
    RamMaxBytes,         \* ram_max_bytes
    Watermark,           \* high_watermark in percent, 0 for None
    SpillBatchMessages,  \* spill_batch_messages
    SpillBatchBytes,     \* spill_batch_bytes
    MaxRamAge,           \* max_ram_age is not None
    DisconnectGrace,     \* disconnect_grace is not None
    MaxFailures          \* bound: Outbox failures and deaths of the process

ASSUME SizesAssumption == SizeOf \in [Ids -> Nat \ {0}]

\* What the constructor of FastMode accepts.
ValidFastMode ==
    /\ RamMaxMessages \in Nat \ {0} /\ RamMaxBytes \in Nat \ {0}
    /\ Watermark \in 0 .. 100
    /\ SpillBatchMessages \in Nat \ {0} /\ SpillBatchBytes \in Nat \ {0}
    /\ MaxRamAge \in BOOLEAN /\ DisconnectGrace \in BOOLEAN

ASSUME ModeAssumption == ValidFastMode
ASSUME FailureAssumption == MaxFailures \in Nat

VARIABLES
    pending,    \* _pending: the whole FIFO
    fast,       \* _fast_queue: what RAM owns
    ramBytes,   \* _fast_ram_bytes
    onDisk,     \* pending messages whose state is DISK_BACKED
    tried,      \* pending messages with spill_attempted
    timer,      \* _fast_timer is armed
    offline,    \* _disconnected_since is not None
    backoff,    \* _fast_retry_not_before was set and no spill succeeded since
    phase,      \* lifecycle: "down", "running", "stopping"
    stopEvent,  \* _stop_event
    stored,     \* what the Outbox lists, oldest first
    failures,   \* failures so far
    accepted,   \* history: messages publish() accepted, but for those a crash took
    completed,  \* history: messages that left the FIFO after their DeliveryAck
    stranded    \* history: stop() raised and nothing was scheduled since

queue == <<pending, fast, ramBytes, onDisk, tried, stored>>
life  == <<phase, stopEvent>>
vars  == <<queue, timer, offline, backoff, life, failures, accepted, completed, stranded>>
-----------------------------------------------------------------------------
(* The spill algorithm, on a queue q of which the first i are gone.        *)

\* The bytes of the first k messages, and of those from i to j.
BytesUpTo(q) ==
    LET sum[k \in 0 .. Len(q)] == IF k = 0 THEN 0 ELSE sum[k - 1] + SizeOf[q[k]]
    IN  sum

BytesOf(q, i, j) == BytesUpTo(q)[j] - BytesUpTo(q)[i - 1]

\* The last message of the next batch: at most spill_batch_messages, and at most
\* spill_batch_bytes unless the first message alone is larger.
BatchEnd(q, i, cap) ==
    Max({k \in (i + 1) .. Min({cap, i + SpillBatchMessages}) :
            k = i + 1 \/ BytesOf(q, i + 1, k) <= SpillBatchBytes})

\* The positions at which "while more: spill a batch" tests its condition; more is the
\* set of positions at which it is true.
Tested(q, from, cap, more) ==
    LET At[j \in from .. cap] ==
            \/ j = from
            \/ \E i \in from .. (j - 1) : At[i] /\ i \in more /\ BatchEnd(q, i, cap) = j
    IN  {j \in from .. cap : At[j]}

\* How such a loop can end: with its condition false, or by an OutboxError out of
\* a batch (up to tried) of which a part (up to kept) is in the Outbox.
Outcomes(q, from, cap, more) ==
    LET tests == Tested(q, from, cap, more)
    IN  {[done |-> j, tried |-> j, kept |-> j, failed |-> FALSE] :
            j \in tests \ more}
        \cup UNION {{[done |-> j, tried |-> BatchEnd(q, j, cap), kept |-> c, failed |-> TRUE] :
                        c \in j .. BatchEnd(q, j, cap)} :
                       j \in {i \in tests \cap more : failures < MaxFailures}}

First(q, n) == ToSet(SubSeq(q, 1, n))

\* The Outbox once it has the first n of q: append_many skips what it lists.
StoredAfter(q, n) ==
    LET listed[k \in 0 .. Len(q)] ==
            IF k = 0 THEN stored
            ELSE IF q[k] \in ToSet(stored) THEN listed[k - 1] ELSE Append(listed[k - 1], q[k])
    IN  listed[n]

\* Mutant: RAM gives up a batch that failed.
SpillForgets(q, ram, o) ==
    /\ fast' = SubSeq(q, o.tried + 1, Len(q))
    /\ ramBytes' = ram - BytesOf(q, 1, o.tried)
    /\ onDisk' = onDisk \cup First(q, o.tried)
    /\ tried' = tried \cup First(q, o.tried)
    /\ stored' = StoredAfter(q, o.kept)
    /\ failures' = IF o.failed THEN failures + 1 ELSE failures

\* Mutant: a batch that failed is not remembered as attempted.
SpillUnmarked(q, ram, o) ==
    /\ fast' = SubSeq(q, o.done + 1, Len(q))
    /\ ramBytes' = ram - BytesOf(q, 1, o.done)
    /\ onDisk' = onDisk \cup First(q, o.done)
    /\ tried' = tried \cup First(q, o.done)
    /\ stored' = StoredAfter(q, o.kept)
    /\ failures' = IF o.failed THEN failures + 1 ELSE failures

\* What the batches of an outcome do to the queue; ram is its size in bytes.
Spill(q, ram, o) ==
    /\ fast' = SubSeq(q, o.done + 1, Len(q))
    /\ ramBytes' = ram - BytesOf(q, 1, o.done)
    /\ onDisk' = onDisk \cup First(q, o.done)
    /\ tried' = tried \cup First(q, o.tried)
    /\ stored' = StoredAfter(q, o.kept)
    /\ failures' = IF o.failed THEN failures + 1 ELSE failures

\* A batch that succeeds clears the retry delay.
BackoffAfter(from, o) == backoff /\ o.done = from

Mark(limit) == Max({1, (limit * Watermark + 99) \div 100})

\* _fast_high_water_reached_locked once the first j messages are gone.
HighWater(q, ram, j) ==
    /\ Watermark # 0 /\ j < Len(q)
    /\ \/ Len(q) - j >= Mark(RamMaxMessages)
       \/ ram - BytesOf(q, 1, j) >= Mark(RamMaxBytes)

\* Mutant: only the message limit makes room.
NoRoomBytesIgnored(m, j) == Len(fast) - j + 1 > RamMaxMessages

\* The condition of the loop of _make_fast_room_locked.
NoRoom(m, j) ==
    \/ Len(fast) - j + 1 > RamMaxMessages
    \/ ramBytes - BytesOf(fast, 1, j) + SizeOf[m] > RamMaxBytes

\* Mutant: no timer while the retry delay runs.
ScheduleDropsRetry ==
    /\ timer' = (fast' # <<>> /\ ~ backoff' /\ (MaxRamAge \/ (offline' /\ DisconnectGrace)))
    /\ stranded' = FALSE

\* _schedule_fast_maintenance_locked.
Schedule ==
    /\ timer' = (fast' # <<>> /\ (MaxRamAge \/ (offline' /\ DisconnectGrace) \/ backoff'))
    /\ stranded' = FALSE
-----------------------------------------------------------------------------
(* publish()                                                               *)

\* Room is made, the message joins, and the high-water mark may spill again; a
\* failure of that second spill is only logged.
PublishFast(m) ==
    /\ m \notin accepted \cup completed /\ SizeOf[m] <= RamMaxBytes
    /\ \E room \in Outcomes(fast, 0, Len(fast), {j \in 0 .. Len(fast) : NoRoom(m, j)}) :
          /\ ~ room.failed
          /\ LET q == Append(fast, m)
                 ram == ramBytes + SizeOf[m]
             IN  \E o \in Outcomes(q, room.done, Len(q),
                                 {j \in 0 .. Len(q) : HighWater(q, ram, j)}) :
                    /\ Spill(q, ram, o)
                    /\ backoff' = (o.failed \/ BackoffAfter(0, o))
    /\ pending' = Append(pending, m)
    /\ accepted' = accepted \cup {m}
    /\ UNCHANGED <<offline, life, completed>>
    /\ Schedule

\* FastQueueFullError: the spill that should make room fails.
PublishFull(m) ==
    /\ m \notin accepted \cup completed /\ SizeOf[m] <= RamMaxBytes
    /\ \E room \in Outcomes(fast, 0, Len(fast), {j \in 0 .. Len(fast) : NoRoom(m, j)}) :
          /\ room.failed
          /\ Spill(fast, ramBytes, room)
          /\ backoff' = BackoffAfter(0, room)
    /\ UNCHANGED <<pending, timer, offline, life, accepted, completed, stranded>>
-----------------------------------------------------------------------------
(* Maintenance: the timer, and the worker while it is not connected.       *)

\* The first aged messages have reached max_ram_age; the spill of the rest, if
\* any, is due to the high-water mark.
SpillAged(aged) ==
    \E o \in Outcomes(fast, 0, aged, 0 .. (aged - 1)) :
        IF o.failed
        THEN Spill(fast, ramBytes, o) /\ backoff' = TRUE
        ELSE \E p \in Outcomes(fast, o.done, Len(fast),
                               {j \in 0 .. Len(fast) : HighWater(fast, ramBytes, j)}) :
                Spill(fast, ramBytes, p) /\ backoff' = p.failed

\* disconnect_grace has passed.
SpillDisconnected ==
    \E o \in Outcomes(fast, 0, Len(fast), 0 .. (Len(fast) - 1)) :
        Spill(fast, ramBytes, o) /\ backoff' = o.failed

\* _run_fast_maintenance_locked; nothing is spilled before the retry delay is over.
RunMaintenance(aged, disconnected) ==
    /\ IF backoff \/ fast = <<>>
       THEN UNCHANGED <<fast, ramBytes, onDisk, tried, stored, failures, backoff>>
       ELSE IF disconnected THEN SpillDisconnected ELSE SpillAged(aged)
    /\ UNCHANGED <<pending, offline, life, accepted, completed>>
    /\ Schedule

\* What the clock may say.
Aged == IF MaxRamAge THEN 0 .. Len(fast) ELSE {0}
GraceOver == IF offline /\ DisconnectGrace THEN BOOLEAN ELSE {FALSE}

TimerFires(aged) == timer /\ \E d \in GraceOver : RunMaintenance(aged, d)

\* The delivery worker is between start() and the end of its thread, which may
\* come later than the end of stop().
WorkerAlive == phase # "down" \/ stopEvent

\* The worker found the connection not ready, or an attempt was cut off.
WorkerMaintains(aged) ==
    /\ WorkerAlive /\ pending # <<>>
    /\ \E d \in GraceOver : RunMaintenance(aged, d)

RetryDelayPasses ==
    /\ backoff /\ backoff' = FALSE
    /\ UNCHANGED <<queue, timer, offline, life, failures, accepted, completed, stranded>>
-----------------------------------------------------------------------------
(* The delivery worker.                                                    *)

\* One batch from the head of RAM, or its failure.
OneBatch == Outcomes(fast, 0, BatchEnd(fast, 0, Len(fast)), {0})

\* _promote_fast_for_retry: no PUBACK, or no DeliveryAck in time.
Promote ==
    /\ WorkerAlive /\ pending # <<>> /\ Head(pending) \notin onDisk
    /\ UNCHANGED <<pending, offline, life, accepted, completed>>
    /\ \E o \in OneBatch :
          /\ Spill(fast, ramBytes, o)
          /\ backoff' = BackoffAfter(0, o)
          /\ IF o.failed THEN UNCHANGED <<timer, stranded>> ELSE Schedule

\* A DeliveryAck may complete the head.
MayComplete == phase = "running" /\ ~ stopEvent /\ pending # <<>>

\* The head leaves the FIFO.
Forget ==
    /\ pending' = Tail(pending)
    /\ completed' = completed \cup {Head(pending)}
    /\ UNCHANGED <<offline, life, accepted>>
    /\ Schedule

\* _complete_item of a message that never left RAM: popleft(), or remove() should it not
\* be the first there.
CompleteInRam ==
    /\ MayComplete /\ Head(pending) \notin onDisk \cup tried
    /\ fast' = IF fast # <<>> /\ Head(fast) = Head(pending) THEN Tail(fast)
               ELSE SelectSeq(fast, LAMBDA m : m # Head(pending))
    /\ ramBytes' = ramBytes - SizeOf[Head(pending)]
    /\ UNCHANGED <<onDisk, tried, stored, backoff, failures>>
    /\ Forget

\* A message that a failed spill may have left in the Outbox is spilled again, in
\* its batch, before the Outbox may remove it.
Reconcile == IF Head(pending) \in onDisk
             THEN {[done |-> 0, tried |-> 0, kept |-> 0, failed |-> FALSE]}
             ELSE OneBatch

\* Mutant: RAM accounting is reduced for a message on disk, too.
CompleteOnDiskTwice ==
    /\ MayComplete /\ Head(pending) \in onDisk
    /\ stored' = Tail(stored)
    /\ onDisk' = onDisk \ {Head(pending)} /\ tried' = tried \ {Head(pending)}
    /\ ramBytes' = ramBytes - SizeOf[Head(pending)]
    /\ UNCHANGED <<fast, backoff, failures>>
    /\ Forget

\* ... of a message that is, or may be, on disk.
CompleteOnDisk ==
    /\ MayComplete /\ Head(pending) \in onDisk \cup tried
    /\ \E o \in Reconcile :
          /\ ~ o.failed
          /\ fast' = SubSeq(fast, o.done + 1, Len(fast))
          /\ ramBytes' = ramBytes - BytesOf(fast, 1, o.done)
          /\ Head(StoredAfter(fast, o.kept)) = Head(pending)
          /\ stored' = Tail(StoredAfter(fast, o.kept))
          /\ onDisk' = (onDisk \cup First(fast, o.done)) \ {Head(pending)}
          /\ tried' = (tried \cup First(fast, o.done)) \ {Head(pending)}
          /\ backoff' = BackoffAfter(0, o)
    /\ Forget
    /\ UNCHANGED failures

\* The spill or the removal raises OutboxError: STORE_ERROR.
CompletionFails ==
    /\ MayComplete /\ Head(pending) \in onDisk \cup tried
    /\ failures < MaxFailures
    /\ \E o \in Reconcile :
          /\ Spill(fast, ramBytes, [o EXCEPT !.failed = TRUE])
          /\ backoff' = BackoffAfter(0, o)
    /\ UNCHANGED <<pending, timer, offline, life, accepted, completed, stranded>>
-----------------------------------------------------------------------------
(* Connection and lifecycle.                                               *)

OnConnect ==
    /\ phase # "down" /\ offline
    /\ offline' = FALSE /\ UNCHANGED <<queue, backoff>> /\ Schedule
    /\ UNCHANGED <<life, failures, accepted, completed>>

\* _mark_disconnected; nothing is noted once stop() has begun.
MarkDisconnected ==
    /\ phase # "down"
    /\ offline' = (offline \/ ~ stopEvent)
    /\ UNCHANGED <<queue, backoff>> /\ Schedule
    /\ UNCHANGED <<life, failures, accepted, completed>>

Start ==
    /\ phase = "down"
    /\ phase' = "running" /\ stopEvent' = FALSE /\ offline' = TRUE
    /\ UNCHANGED <<queue, backoff>> /\ Schedule
    /\ UNCHANGED <<failures, accepted, completed>>

\* stop() up to its boundary: from here on no DeliveryAck completes a message.
StopBegins ==
    /\ phase = "running"
    /\ phase' = "stopping" /\ stopEvent' = TRUE
    /\ UNCHANGED <<queue, timer, offline, backoff, failures, accepted, completed, stranded>>

\* Mutant: stop() spills a single batch.
StopSpillsOnce(j) == j = 0 /\ fast # <<>>

\* While RAM owns messages.
StopSpillsAll(j) == j < Len(fast)

\* The rest of stop(): everything in RAM is spilled, or stop() raises.
StopPersists ==
    /\ phase \in {"stopping", "down"} /\ (phase = "down" => fast # <<>>)
    /\ phase' = "down" /\ offline' = FALSE /\ timer' = FALSE
    /\ \E o \in Outcomes(fast, 0, Len(fast), {j \in 0 .. Len(fast) : StopSpillsAll(j)}) :
          /\ Spill(fast, ramBytes, o)
          /\ backoff' = BackoffAfter(0, o)
          /\ stranded' = o.failed
    /\ UNCHANGED <<pending, stopEvent, accepted, completed>>

\* The process dies and a new Sender recovers what the Outbox lists.
Kill ==
    /\ failures < MaxFailures /\ failures' = failures + 1
    /\ pending' = stored /\ onDisk' = ToSet(stored) /\ tried' = {}
    /\ fast' = <<>> /\ ramBytes' = 0
    /\ timer' = FALSE /\ offline' = FALSE /\ backoff' = FALSE
    /\ phase' = "down" /\ stopEvent' = FALSE
    /\ accepted' = accepted \ (ToSet(fast) \ ToSet(stored))
    /\ stranded' = FALSE
    /\ UNCHANGED <<stored, completed>>
-----------------------------------------------------------------------------
Init ==
    /\ pending = <<>> /\ fast = <<>> /\ ramBytes = 0 /\ onDisk = {} /\ tried = {}
    /\ stored = <<>> /\ timer = FALSE /\ offline = FALSE /\ backoff = FALSE
    /\ phase = "down" /\ stopEvent = FALSE /\ failures = 0
    /\ accepted = {} /\ completed = {} /\ stranded = FALSE

Next ==
    \/ \E m \in Ids : PublishFast(m) \/ PublishFull(m)
    \/ \E aged \in Aged : TimerFires(aged) \/ WorkerMaintains(aged)
    \/ RetryDelayPasses
    \/ Promote \/ CompleteInRam \/ CompleteOnDisk \/ CompletionFails
    \/ OnConnect \/ MarkDisconnected \/ Start \/ StopBegins \/ StopPersists
    \/ Kill

Spec == Init /\ [][Next]_vars

\* Timers fire, and a message in RAM reaches max_ram_age.
FairSpec == Spec /\ WF_vars(TimerFires(Len(fast))) /\ WF_vars(RetryDelayPasses)
-----------------------------------------------------------------------------
(* Properties.                                                             *)

\* The ranges of the variables.
TypeOK ==
    /\ pending \in Seq(Ids) /\ fast \in Seq(Ids) /\ stored \in Seq(Ids)
    /\ ramBytes \in Nat /\ failures \in 0 .. MaxFailures
    /\ onDisk \subseteq Ids /\ tried \subseteq Ids
    /\ timer \in BOOLEAN /\ offline \in BOOLEAN /\ backoff \in BOOLEAN
    /\ phase \in {"down", "running", "stopping"} /\ stopEvent \in BOOLEAN
    /\ accepted \subseteq Ids /\ completed \subseteq Ids /\ stranded \in BOOLEAN

\* One FIFO in two places: the disk-backed messages, then those in RAM.  The
\* Outbox lists a prefix of it, every disk-backed message included, and beyond
\* those only messages that are marked as attempted.
QueueShape ==
    LET backed == Len(pending) - Len(fast)
    IN  /\ pending = SubSeq(pending, 1, backed) \o fast
        /\ onDisk = First(pending, backed)
        /\ IsPrefix(stored, pending)
        /\ onDisk \subseteq ToSet(stored) /\ ToSet(stored) \subseteq onDisk \cup tried

\* Every accepted message is in the FIFO until its DeliveryAck, failed spills,
\* refused publishes and failed removals notwithstanding; a crash takes only
\* messages that were in RAM and not in the Outbox.  With QueueShape: a delivered
\* message is not left behind in the Outbox, where it would block every later removal.
NothingForgotten == accepted \ completed = ToSet(pending)

\* RAM holds at most ram_max_messages and ram_max_bytes, and the byte counter is
\* exact.
RamBounded ==
    /\ Len(fast) <= RamMaxMessages /\ ramBytes <= RamMaxBytes
    /\ ramBytes = BytesOf(fast, 1, Len(fast))

\* A stop() that does not raise leaves every pending message in the Outbox.
CleanStop ==
    [][phase = "stopping" /\ phase' = "down" /\ ~ stranded'
       => ToSet(pending') \subseteq ToSet(stored')]_vars

\* With max_ram_age set, every message leaves RAM, unless stop() raised.
RamAges == \A m \in Ids : m \in ToSet(fast) ~> m \notin ToSet(fast) \/ stranded

\* A message left in RAM above the high-water mark by a failed spill has a retry
\* scheduled (the comment in _spill_fast_high_water_locked).
RetryArmed == HighWater(fast, ramBytes, 0) => timer \/ stranded
=============================================================================
