# A TLA+ model of reliomq

reliomq delivers messages from an application, through an MQTT broker and an
optional relay, to a destination broker. A message stays pending at the sender
until an application-level `DeliveryAck` with its identifier comes back. This
project models the parts of the library whose correctness depends on order,
failure and concurrency, checks them with TLC on small instances, and proves
with TLAPS what can be proved for every instance.

## Inventory

| Component | State | Operations | What is hard |
|---|---|---|---|
| `Outbox` (`outbox.py`) | segment files, `checkpoint.json`, index of pending records, volatile removals, sync flag | append, sync, checkpoint, remove, cleanup, rotate, open | a crash or an `OSError` between any two system calls; recovery from what is left |
| `PersistencePolicy` (`persistence.py`) | counters of unsynced messages and unsaved removals, two timers | append, complete, flush, timer callbacks | timers racing calls, failed syncs, rotations that sync behind the policy's back |
| `AckTracker` (`ack.py`) | expected identifier, matched and interrupted flags, event | begin, match, wait, interrupt, end | late, duplicate and foreign acknowledgements; stop racing a wait |
| `Sender` (`sender.py`) | pending FIFO in RAM and on disk, RAM byte count, connection and subscription state, worker thread | publish, spill, deliver, complete, wait, start, stop, MQTT callbacks | publisher, worker, timer and callback threads share the queue |
| `Relay` (`relay.py`) | two connections, bounded task queue, worker thread | intake, forward, acknowledge, start, stop | acknowledging only after the destination confirmed; lifecycle races |
| MQTT helpers (`mqtt.py`) | none | confirmed publish, reason codes | timeouts racing a late PUBACK |
| Legacy journal migration (`outbox.py`) | journal file, temporary directory, installed directory | choose, replay, pack, rename, sync, load | corrupt records; a crash between any two steps, then another open |
| Wire protocol (`protocol.py`) | none | validation and encoding | what a corrupt or foreign record is taken for |
| Configuration, logging, aliases | none | validation | sequential and stateless |

How they interact: the application calls `Sender.publish`, which appends to the
queue (in RAM, or through `PersistencePolicy` to the `Outbox`). The sender's
worker takes the oldest message, registers its identifier with `AckTracker`,
publishes it and waits. MQTT callback threads feed `AckTracker.match`. A match
completes the message: `PersistencePolicy.complete` removes it from the `Outbox`.
The relay receives source messages on a callback thread, queues them, and its
worker publishes to the destination and then publishes the `DeliveryAck`. Either
process may die and start again; the Relay keeps nothing, the Sender what its
Outbox recovers.

What makes each part correct: the Outbox keeps what it reported durable, in
order, and can be opened again; the policy never understates what a crash can
lose; the tracker gives no verdict for the wrong message and drops none for the
right one; the Sender removes a message only for its own delivery, loses none,
stays within its RAM limits, and retries until it succeeds; the Relay never
acknowledges what the destination has not accepted; both together deliver what
was accepted at least once and in order; the first open of a queue takes over
what an older version left, however often it is interrupted.

## Modules

| Module | Models | State and actions |
|---|---|---|
| `Outbox` | the queue directory and the object that owns it | Files are sets of frames, a cursor is a segment with the frames before the offset. A call starts (`AppendMany`, `Checkpoint`, ...), then `pc` walks through fsync, rename, directory fsync and unlink as the code does: one action per stretch between two system calls. Any of them may raise (`Faults` says which), the process may be killed (`Kill`: what was written survives) and power may fail (`PowerLoss`: only what was fsynced survives for certain). `Load` is `_load_segmented_storage` and ends in `refused` where the code raises. |
| `DurableFifo` | what the Outbox promises | A FIFO in which a crash loses only what was not promised and brings back only what was not retired. `Outbox` implements it (`ImplementsFifo`). |
| `FastQueue` | the FIFO of a Sender in `FastMode` | Each call is one step, as all hold the queue lock. A spill loop is the set of its `Outcomes`: it ends with its condition false, or with an `OutboxError` out of a batch of which any part is in the Outbox. The clock is abstracted to what it may say (`Aged`, `GraceOver`, `RetryDelayPasses`). Byte counts are differences of prefix sums (`BytesUpTo`). |
| `AckTracker` | `ack.py` | One action per operation under its lock; `wait()` is two, because the event is awaited before the lock is taken. |
| `DeliveryWorker` | `_delivery_worker`, `_process_oldest_once`, `wait_for_delivery`, `start`, `stop`, connection callbacks | Extends `AckTracker`. The worker, the application threads, the lifecycle caller, the network thread and the outside world (brokers and Relay) interleave at the grain of the code's locks; a callback changes the connection or the readiness in one step and sets `_wakeup` in the next (`CallbackWakes`). An ACK that arrives may stay to arrive again, and the outside may lose what it holds at any time. |
| `GroupPolicy` | `persistence.py` in `GroupMode` | The Outbox is reduced to how far its records are synced, completed and checkpointed; the log is kept as the end offset of each record, which the byte limit of a segment needs too. |
| `Subscription` | the Sender's ACK subscription and the Relay's source subscription | Two threads ask; a `subscribe()` may return into a later connection; SUBACKs are matched by identifier or by the sentinel. `role` says whose subscription it is: the two clients set and clear their flags in different orders, and the Relay applies a SUBACK after releasing its lock. `backlog` says whether a Sender has a message to deliver, `call` whether its worker is at an attempt: it asks only with the one and without the other. |
| `Relay` | `relay.py` | The source callback (decode, then enqueue under the lock), workers, both clients, `start` and `stop` step by step. `calm` remembers whether lifecycle calls overlapped or a join timed out. |
| `Delivery` | what Sender and Relay promise the application | Messages are delivered in the order of acceptance, each at least once, completed only when delivered; only a crash of a Sender that is not in DurableMode loses messages, and then the newest. |
| `Pipeline` | a Sender and a Relay between their brokers | `DeliveryWorker` and `Relay` are instantiated over shared variables: what one hands to the source broker the other takes in, what the Relay acknowledges the Sender reads. On top, either process may crash and is started again. |
| `Protocol` | the envelope of `protocol.py` and the journal records of older versions | Operators over parsed JSON: schema, identifier, version, validity of topic and payload. A null identifier counts as missing, as in the code, and gets a new one. |
| `Migration` | the first opening of a queue | The journal is replayed line by line, packed into segments, installed by one rename; each step between two system calls is an action. Directories remember whether their entries and their names are on disk. After the barrier the queue is in service, reduced to one step per append and removal. `Damage` spoils a line of the old journal, or the envelope inside a record: each line once, and at most one envelope gets the fresh identifier `NewId`, which stands for one that no other line has. |
| `OutboxInvariant` | - | the inductive invariant of `Outbox` |
| `OutboxProofs`, `FastQueueProofs`, `GroupPolicyProofs`, `SubscriptionProofs`, `DeliveryWorkerProofs`, `RelayProofs`, `PipelineProofs`, `MigrationProofs` | - | theorems |
| `MC...` | - | instances for TLC |

`Outbox`, `FastQueue`, `GroupPolicy` and `DeliveryWorker` look at one queue from
four sides. `FastQueue` assumes of the Outbox that a failed batch leaves a prefix
of itself behind and that `append_many` skips what is listed; `GroupPolicy`
assumes what each sync and checkpoint covers; `DeliveryWorker` assumes only that a
completion may fail and then leaves the message pending. `Pipeline` recovers a
crashed Sender with what `DurableFifo` allows: in DurableMode the queue as it was,
otherwise without some of the newest messages and with some completed ones back.
That `DeliveryWorker`'s outside covers a real Relay is not assumed:
`ImplementsWorker` states it.

### File system assumptions

A successful fsync makes the content of the file durable; a rename is atomic and
becomes durable with the next fsync of the directory; until then a power loss
keeps or undoes each directory change independently. Unsynced data is lost from
the end of the file, possibly inside a record; it is not replaced by other bytes.
A truncate that succeeds is durable.

## Runs

| Run | Checks | Shows | States |
|---|---|---|---|
| `outbox_faults` | `IInv`, `Reopenable`, `NoResurrection`, `ClosedSegmentsImmutable`, `ImplementsFifo` | With every system call failing except a rollback or a rotation's directory fsync, and kills and power losses anywhere, the queue keeps its promises and opens again | 1.3 M |
| `outbox_damage` | `TypeOK`, `NoLoss`, `CallReturns` | Losing `checkpoint.json` loses no message; every call returns at the end of the segment identifiers | 242 k |
| `outbox_unrepaired` | `Readable` | What holds with every fault, failed rollbacks and rotation barriers included: whatever is listed can be read | 3.1 M |
| `migration_open` | `TypeOK`, `NothingDiscarded`, `NothingReplayed`, `EventuallyOpen` | An interrupted first open loses no queued message, brings back no completed one, and succeeds in the end | 879 k |
| `fastqueue_spill` | `TypeOK`, `QueueShape`, `NothingForgotten`, `RamBounded`, `CleanStop`, `RamAges` | RAM and disk are one FIFO through half-failed spills; RAM is bounded; messages age out of it | 46 k |
| `worker_attempt` | `TypeOK`, `AckedOnly`, `AttemptExclusive`, `AckHonoured`, `NoLostSignal`, `NoCompletionAfterStop` | No wrong, lost or late verdict, no lost signal | 3.2 M |
| `group_window` | `TypeOK`, `LossCovered`, `WindowBounded`, `CleanFlush`, `EventuallyStable` | Counters cover what a crash can lose or replay; work is eventually made durable | 78 k |
| `subscription_ready` | `TypeOK`, `ReadyMeansSubscribed`, `EventuallyReady` | Ready means subscribed on this connection, and an ignored SUBACK is made up for: for a Relay, and for a Sender that has a message to deliver | 210 k |
| `relay_lifecycle` | `TypeOK`, `AckTruthful`, `OneWorker`, `LifecycleHonest` | ACKs are true whatever overlaps; the lifecycle is sound when calls do not overlap | 1.4 M |
| `pipeline_order` | `ImplementsDelivery` | Order and completion of the whole system, through crashes, losses and duplicates | 1.8 M |
| `pipeline_liveness` | `ImplementsWorker`, `EventuallyCompleted` | The Relay is a legal outside of the Sender; a message the Sender still has is completed once the network heals | 286 k |
| `fastqueue_retry` | `RetryArmed` (violated) | the finding below | |

### Bounds

* Outbox: segments of two records and two bytes, messages of size one and one of
  three, so that a batch can fill a segment, span two and hold an oversized
  record; three records in all (`MaxFrames`), which is enough for a rotation with
  records on both sides, a completed prefix and a reused identifier; segment
  identifiers end at two or three, so that rotation meets its limit. The run with
  every fault has segments of three records and three bytes and messages of size
  one: a failed rotation leaves an object that goes on filling the old segment, and
  only with room for two more records is there a cursor inside what it adds there.
* FastQueue: four messages of two sizes, RAM for three, batches of two: spills
  take one or two batches, stop inside one, and meet both limits. Two failures.
* DeliveryWorker: two messages, so that an ACK can be for the other one; one
  setback (a lost or failed connection, a failed start, a storage error or a slow
  join). Losses, duplicates and
  timeouts are not counted and happen at will; for more setbacks there is the
  proof.
* Pipeline: the order run has two messages, taken as symmetric because nothing
  tells them apart, and one crash, no lost connection (what a crash does to a
  connection is there); the Sender is not in DurableMode, which allows more. The
  liveness run has one message and one crash or one lost connection (`MaxTrouble`
  bounds the two together); that every message gets its turn at the head is safety
  (`AttemptExclusive`). The Relay has a queue of one and one worker.
* Migration: three messages, one of them larger than a segment of two; one damaged
  line, which is enough to make all later acknowledgements out of order; two
  failures, so that an installation is interrupted, resumed and then hit by a
  power loss.
* GroupPolicy: four records of two sizes in segments of three records or four bytes,
  thresholds of three records (four bytes) and two failures. A segment can close by
  either limit, and a threshold be reached within one segment or across a rotation.
* Subscription: five packet identifiers and two setbacks: three connections; both
  roles in one run, a Sender with and without something to deliver. The client is in
  service: `stop()`, which ends the asking, is the subject of the other modules.
* Relay: one message that arrives again and again, a queue of one, two worker
  threads, two setbacks.

`CHECK_DEADLOCK FALSE` is set where the bounds let the system come to rest (all
messages used, no failures left), or where the queue refuses to open.

### Fairness

Weak fairness stands for threads that the scheduler runs and timers that fire:
the Outbox's steps between system calls; the FastMode timer; the policy's timers;
a `subscribe()` call that returns; in `Pipeline` both workers, the network threads
that Paho's loop reconnects, the brokers' passing on of what they hold, and the
restart of a process that died, which is the supervisor's part and without which
nothing can be promised. `Migration` supposes that the application opens its queue
again after a failure, and that failures end (their number is bounded). Fairness
is never assumed of `publish()`, `stop()` or other calls of the application. What
the network does is an assumption of the liveness properties themselves:
`EventuallyCompleted` supposes that from some point on live connections lose
nothing and answers come before the timeouts (`NetworkHeals`), `EventuallyReady`
that from some point on the link stays up and a SUBACK comes back before the next
request is due (`BrokerPrompt`).

What `EventuallyReady` does not promise: the worker of a Sender looks at its
subscription only when its FIFO is not empty (`sender.py:1265`), and apart from it
only a new connection asks. An idle Sender whose SUBACK was rejected or ignored is
therefore not asked for again on that connection until a message is published, and
nothing makes the application publish (`Publish` has no fairness). The property is
about a Relay, whose worker asks at every poll, and a Sender with a backlog
(`MustServe`). The worker is back from an attempt in bounded time, as each of its
waits has a timeout (`AttemptEnds` is fair).

## Proofs

Every theorem is about the specification TLC checks, with all constants left
open. The assumptions are those of the modules that declare the constants
(`NoMessage` is not an identifier, limits are natural numbers, thread names are
not `None`, what the constructors of the modes enforce), and one more for the
Outbox, given below. An invariant of several conjuncts is proved action by action,
and under each action conjunct by conjunct.

**`OutboxProofs`** proves `TypeOK` and `Readable` for every set of messages, limits and
faults. `Readable` follows from `ReadInv` (module `OutboxInvariant`): records go to
segments in ascending order and never above every entry that a power loss keeps
(`AscendingInv`), the object knows only segments that are there and writes to the
highest of all that hold records (`KnownInv`), and it lists nothing below its cursor
(`ListedInv`), so that cleanup deletes no segment a listed record is in.
It then proves `IInv` inductive, and from it
`NoLoss`, `NoResurrection` and `Reopenable`. None of them is inductive
alone: what the next open finds depends on files that no open has looked at yet. Of
the files, `IInv` says that the directory is as just created until its entry is
synced (`FreshInv`), that records are in the order of their segments (`OrderInv`),
that whatever is unsynced or torn is at the end of the last segment (`SyncInv`), and
that each checkpoint a crash could leave points into a chain without gaps, hides no
promised record and brings back no retired one (`CkptInv`). Of the object: the
segments it knows are those on disk (`SegsInv`), index, pending list and cursor agree with the files
(`IndexInv`, `PendingInv`, `CursorInv`), and what is true at each step inside a call
(`CallInv`) and between calls (`QuietInv`). The longest steps are `WriteStep` (a batch
of which any part may be on disk), `PowerLossStep` (any combination of surviving
tails and directory changes) and `LoadStep` (recovery).
All but `TypeOK` and `Readable` assume `Repaired`: no rollback, no directory fsync of a
rotation and no damage of the checkpoint among the faults; every other system call may
fail at any time. Without it they are false (see Findings), so it is not the proof's
weakness. That `NoLoss` survives damage alone is model-checked (`outbox_damage`).

With the same assumption it proves `ClosedSegmentsImmutable` and that `Outbox`
implements `DurableFifo`: each action is one of the abstract FIFO's or changes
neither the pending list nor what is promised and retired.

**`FastQueueProofs`** proves `TypeOK`, `QueueShape`, `NothingForgotten`,
`RamBounded` and `CleanStop`. `QueueShape` speaks of the sets and order of what is
in RAM and on disk; what a spill or a completion does to it depends on positions. The
inductive form (`Aligned`) therefore says for each position of the FIFO where its
message is, that no message occurs twice, and which ones a failed batch may have
left in the Outbox as well; `Core` adds the byte counter and `History` that accepted
less completed is what is queued. `BatchFacts` and `OutcomeFacts` say what a spill
loop can end in, `StoredIsPrefix` and `SpillAligned` what it makes of the queue,
`JoinAligned` and `HeadLeaves` what a publish and a completion do. `BytesUpTo` and
`StoredAfter` are recursive functions: the prover cannot instantiate an induction
theorem, so `SetInduction` states induction with a set in place of the
predicate (from the existence of a least element), and `RecursionExists` that a
recursion over positions has a solution.

**`GroupPolicyProofs`** proves `TypeOK`, `LossCovered`, `WindowBounded` and
`CleanFlush`, which are inductive together. The policy's calls are operators
from a policy and a disk to a policy and a disk; lemmas say for each Outbox call
what it covers (a sync, a rotation behind the policy's back, a checkpoint, each of
which may fail), for each policy call that the counters still cover it
(`Covered`) and that the windows are within the triggers or a failure is
recorded (`DataBounded`, `AckBounded`).

**`SubscriptionProofs`** proves `TypeOK` and `ReadyMeansSubscribed` for both roles and
any number of packet identifiers. A client becomes ready when it handles a SUBACK,
so the invariant says of SUBACKs under way that a grant belongs to the connection
that is up (`GrantInv`), and that the network thread does not ask while a callback of
its own is unfinished (`CallbackInv`).

**`DeliveryWorkerProofs`** proves all safety properties of `DeliveryWorker`, for
every set of messages and every number of setbacks, from one inductive invariant
`WInv`. `AckedOnly` is not inductive: that a removal follows a delivery rests on
where acknowledgements come from (`Evidence`: `acks` and a matched expectation go
back to a delivery), which rests on the tracker expecting exactly the message the
worker is at (`Tracking`). `AckHonoured` needs that the event is only set with a
verdict behind it (`Verdict`); the three parts of `NoLostSignal` need to be
strengthened to the program points at which the signal could be missed
(`Signals`). The proof has one step per action; `AppendSet` and `TailSet` reduce
the FIFO to the set it holds. `NoCompletionAfterStop` needs no invariant.

**`RelayProofs`** proves `AckTruthful` and the bound of the queue from `RInv` (a
worker past the PUBACK holds an accepted message), without any condition on the
lifecycle: overlapping calls and several workers included. `OneWorker` and
`LifecycleHonest` follow from `CInv`, which says what `start()` and `stop()` have
done at each of their steps in a calm history. `TypeOK` has its own invariant.

**`PipelineProofs`** proves `ImplementsWorker` and `ImplementsDelivery`, for every set
of messages, any number of Relay workers and any number of losses, duplicates and
crashes. All that the two processes have between them is reduced to two sets: the
messages that may still reach the destination (`OnTheWay`: with the source broker,
in the Relay's callback, queue or workers) and the acknowledgements that may still
reach the Sender (`Claims`). `RelayMoves` says that a step of the Relay changes them
in one of three ways: not at all, by losing something, or by delivering a message
that was on its way and owing its acknowledgement. With that each step of the
composition is a step of `DeliveryWorker` (`ViewStep`); the Sender's crash, which that
module does not have, is named in the property. What is proved of `DeliveryWorker`
therefore holds of a Sender with a real Relay, between two crashes of the Sender.
`ImplementsDelivery` rests on the invariant `PInv`: the FIFO is the accepted order
without what was completed or lost (`QueueInv`), the attempt is on its head
(`AttemptInv`), every acknowledgement goes back to a delivery (`EvidenceInv`), and
whatever is on its way comes behind nothing that the destination has not received
(`OrderInv`). A crash of the Sender is the hard step: `Kept` rebuilds the FIFO by
recursion over the accepted order, and `KeptFacts` says that the result has no gap
and nothing out of order (`RecoverQueue`).

**`MigrationProofs`** proves `TypeOK`, `NothingDiscarded` and `NothingReplayed`, for
journals of any length, any number of damaged lines and interruptions, messages and
segment limits of any size. The two statements speak of a queue in service; the
invariant `MInv` carries them through the constructor. As long as the directory in
place may be lost (`~ (settled /\ rooted)`), the next open reads the journal again, so
the journal must still tell the whole history (`JournalInv`): a message is enqueued in
one line and acknowledged in a later one (`OnceInv`), what is owed has its line in the
order of the FIFO (`OwedInv`), and an acknowledgement that is not in doubt stands
behind those of all earlier messages (`DoubtInv`), which is what makes the replay,
that honours an acknowledgement for the head only, honour it. `ReplayInv` says what
the first n lines replay to; it is inductive over `ReplayLine` (`ReplayStep`), and at
the last line its queue is `Faithful` (`ReplayEnd`): nothing owed is missing but what is
damaged, nothing completed is there but what is in doubt, in order. `StageInv` keeps
that of what is packed and still to be packed, `PlaceInv` of the installed directory.
`DecodeFlat` and `DecodeDamaged` say what each way of damaging a line, or the envelope
inside one, makes of it. `Bytes` and the
community modules' `FlattenSeq` are recursive functions; what they compute for a longer
sequence (`BytesAppend`, `FlattenAppend`) follows from `SetInduction` and
`RecursionExists`, as in `FastQueueProofs`.

Only model-checked:

* Liveness, because the prover has no fairness: `CallReturns`, `RamAges`,
  `EventuallyStable`, `EventuallyReady`, `EventuallyOpen`, `EventuallyCompleted`.
* `NoLoss` of an Outbox whose checkpoint may be damaged, as said above.

## Findings

*A retry of a high-water spill can be cancelled* (`fastqueue_retry`). Once its
time has passed, any other scheduling that runs before the timer's callback sees
no deadline and cancels the timer. With `max_ram_age=None` nothing retries.

Other disagreements met on the way, each reproducible by checking the statement
on the model:

* *A failed rollback can lock the queue.* An append fails, the truncate that
  should undo it fails too, and a larger message rotates away from the torn tail.
  A torn tail is repaired in the last segment only, so every later open raises
  (`outbox.py:1018`; `tests/test_spill_recovery.py:171`: "Fail closed until an
  explicit reopen reconciles the unknown tail"): `Reopenable` with `rollback`
  among the faults.
* *`Relay.start()` inside `Relay.stop()`.* `stop()` works on after it released the
  lifecycle lock; a `start()` in between is undone, and the Relay says it is
  running without network loops (`relay.py:673`; line 67: "Repeated lifecycle
  calls are safe"): `RunningServes` without `calm`.
* `Relay.stop()` forgets a worker that outlasts its joins, and the next `start()`
  runs a second one (`relay.py:723`; line 62: "One worker serializes all
  destination publishes"): `OneWorker` without `calm`.
* When the directory fsync of a rotation fails, the new segment stays and the
  object goes on appending to the old one (`outbox.py:571`; line 103: "older
  segments are immutable"): `ClosedSegmentsImmutable` with `rotate_barrier` among
  the faults. A record appended there without a sync is listed after a restart,
  which looks at the newest segment only: when that one is empty it syncs nothing
  (`outbox.py:160`).
* Hence *a durable removal can be undone*. With three records to a segment: f1 is
  stored, the rotation behind it fails in its directory fsync, f2 and f3 are
  appended without a sync to the old segment, the process is killed. The next one
  lists all three, f1 and f2 are removed and a checkpoint at the start of f3 succeeds;
  then the power fails and takes f2 and f3. The cursor is no boundary of a record any
  more, so the replay starts at the earliest segment (`outbox.py:844`) and f1, whose
  removal was durable, is pending again: `NoResurrection` with `rotate_barrier` among
  the faults. A failed rollback alone does the same when the records it leaves are
  rotated away from (`rollback`, four records). What is lost then may even be what a `sync()` of the
  second process reported stored, so `NoLoss` is false with either fault too
  (`outbox.py:160`; line 105: "durably checkpoints that cursor"; src/README.md:1467:
  `sync()` is to "force deferred segment writes to stable storage").
* With `checkpoint.json` gone, a completed identifier that was used again makes
  the replay refuse the queue (`outbox.py:888`; README: "replays surviving records
  conservatively"): `Reopenable` with `damage`.
* A record whose `event_id` is null is not invalid: `decode_message` passes the
  null on as "not supplied" and the envelope gets a new identifier
  (`protocol.py:247`; line 242: "A fresh ID is only generated when neither was
  supplied"). No acknowledgement names it; `NothingReplayed` has the exception.
* `publish()` accepts messages into RAM during and after `stop()`
  (`sender.py:554`; README: "intake stops immediately").
* A `stop()` that raises leaves messages in RAM without the age timer
  (`sender.py:453`); hence the exception in `RamAges`.

## Not modelled

* Two `Relay.stop()` calls past the lifecycle lock at once, which needs a `start()`
  between them: `stop()` is one thread of the model (`spc`), `start()` another (`apc`).
  In `Relay` the callback that follows a CONNACK is one step, and so is that of a
  SUBACK; what can happen inside them is the subject of `Subscription`.
* `GroupPolicy` takes a rotation to fail before the new segment is there; that of a
  failed directory fsync behind the rename is `Outbox`'s subject, with the consequence
  described under Findings.
* A completed identifier that is published again, in `DeliveryWorker` and what is built
  on it: the code looks only at what is pending (`sender.py:555`), the model refuses
  what was ever completed. "Explicit IDs must be globally unique" (src/README.md:385), and
  `AckedOnly` depends on it: a late `DeliveryAck` of the first use would complete the
  second. In `Outbox`, which handles a reused identifier, the case is modelled.
* `Migration`: the barrier over the directories above the queue is one step, though the
  code syncs them one by one: until the last one is synced the model lets all of them be
  lost.

* Validation of hosts, ports, topics and times (`config.py`), logging, deprecated
  names and the examples: stateless, sequential code. What the constructors of the
  modes enforce is an assumption of the modules (`ValidFastMode`,
  `ValidGroupMode`).
* Text and bytes: JSON syntax, the frames' magic numbers and checksums. Storage
  that returns other bytes than were written is outside the file system
  assumptions.
* `DeliveryEnvelope` and `DeliveryAck` on the wire: a malformed one is dropped by
  the callback, which the models contain as a loss.
* Argument checks and diagnostic accessors; `wait_for_delivery` with a timeout,
  which returns earlier and changes nothing.

## Plan

Every part named in the inventory but the stateless ones is modelled, and every safety
property, action property and refinement that a passing run checks is proved for all
values of the constants (of the Outbox, under `Repaired` but for `Readable`); liveness is model-checked.
What could come next:

1. A specification of the Outbox without `Repaired` that says which of its promises
   besides `Readable` survive a failed rollback or rotation barrier. It depends on
   whether the code keeps the behaviour described under Findings.
2. `Pipeline` over `Outbox` itself in place of the recovery that `DurableFifo` allows.
