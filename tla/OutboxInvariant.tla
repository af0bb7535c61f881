-------------------------- MODULE OutboxInvariant ---------------------------
(***************************************************************************)
(* The inductive invariant behind the safety theorems about Outbox, as     *)
(* long as no failed append stays unrepaired and no rotation is left half  *)
(* done, and the one behind the theorem that holds of all failures.  TLC   *)
(* checks the first on small instances, OutboxProofs proves both.          *)
(***************************************************************************)
EXTENDS Outbox

\* The failures after which the guarantees below do not hold.
UnrepairedFaults == {"rollback", "rotate_barrier", "damage"}

Loaded     == pc \notin {"closed", "refused"}
Appending  == pc \in {"append", "written", "rotate_sync", "install", "rotate_barrier"}
Persisting == pc \in {"ckpt_sync", "persist", "ckpt_barrier"}
Cleaning   == pc \in {"clean", "clean_barrier"}
Firm       == dir \cap stableDir   \* entries that a power loss keeps
Possible   == dir \cup stableDir   \* entries that may exist after one
Heads      == {ckpt, stableCkpt}   \* checkpoints that may be found after one
Live(c)    == {n \in disk : n \in Past(c)}

\* The files, at any time.
FreshInv ==
    stableDir = {} => /\ dir \subseteq {1} /\ log = <<>> /\ torn = {}
                      /\ ckpt = Origin /\ stableCkpt = Origin
OrderInv ==
    /\ \A m, n \in DOMAIN log : m < n => SegOf(m) <= SegOf(n)
    /\ \A n \in DOMAIN log : \E s \in Firm : SegOf(n) <= s
    /\ \A t \in torn : \E s \in Firm : t <= s
    /\ \A s \in stableDir : \E t \in dir : s <= t
SyncInv ==
    /\ IsPrefixOf(synced, disk)
    /\ \A n \in disk \ synced, s \in Possible : s <= SegOf(n)
    /\ \A t \in torn, s \in Possible : s <= t
HeadInv(c) ==
    /\ stableDir # {} => c.seg \in Firm
    /\ c.before \subseteq synced /\ IsPrefixOf(c.before, In(disk, c.seg))
    /\ \A s \in Possible, t \in SegIds : c.seg <= t /\ t < s => t \in Firm
    /\ \A n \in promised \ released : n \in synced /\ n \in Past(c)
    /\ \A n \in retired : n \notin Live(c)
    /\ \A m, n \in Live(c) : log[m].id = log[n].id => m = n
CkptInv == \A c \in Heads : HeadInv(c)

\* The object, as long as there is one.
SegsInv ==
    /\ segs # {} /\ torn = {}
    /\ dir = IF pc = "rotate_barrier" THEN segs \cup {Active + 1} ELSE segs
    /\ Ready => /\ segs \subseteq stableDir
                /\ \A s \in stableDir : s <= Active
    /\ \A s \in segs, t \in SegIds : cursor.seg <= t /\ t < s => t \in segs
IndexInv ==
    /\ \A n \in indexed : n \in disk
    /\ \A n \in disk : SegOf(n) \in segs =>
          n \in indexed \/ n \in Inflight
    /\ \A n \in Inflight, m \in indexed : m < n
    /\ Inflight \cap (promised \cup released \cup retired \cup synced) = {}
    /\ ~ dirty => disk \ synced \subseteq Inflight
    /\ \/ Cleaning
       \/ pc \in {"persist", "ckpt_barrier", "install", "rotate_barrier", "open_barrier"}
       => ~ dirty
PendingInv ==
    /\ \A n \in pending : n \in indexed /\ SegOf(n) \in segs /\ n \in Past(cursor)
    /\ \A m \in pending, n \in indexed : m < n => n \in pending
    /\ \A n \in Live(cursor) : n \in pending \/ log[n].id \in completed \/ n \in Inflight
    /\ \A m, n \in Live(cursor) : log[m].id = log[n].id => m = n
CursorInv ==
    /\ cursor.seg \in SegIds /\ cursor.before \subseteq synced
    /\ ~ needsRewrite
    /\ Ready => \A c \in Heads : /\ cursor.seg <= c.seg /\ Live(c) \subseteq Live(cursor)
                                 /\ \A n \in pending \ released : n \in Past(c)
    /\ ~ Ready => cursor = ckpt /\ pending = Live(cursor) /\ completed = {}
    /\ pc = "ckpt_barrier" => ckpt = Target
CallInv ==
    /\ \A i, j \in DOMAIN batch : batch[i] = batch[j] => i = j
    /\ BatchIds \cap IdsOf(pending) = {}
    /\ Appending => /\ op = "append"
                    /\ BatchIds \cap (completed \cup IdsOf(Inflight)) = {}
                    /\ pc # "written" => batch # <<>>
    /\ Cleaning => completed = {}
    /\ Persisting \/ Cleaning => op \in {"append", "checkpoint", "remove"}
    /\ Persisting \/ Cleaning => (op = "append" => batch # <<>>)
    /\ Persisting /\ op = "remove" => pending # {} /\ Min(pending) \in released

\* Between two calls.
QuietInv ==
    /\ pc \in {"closed", "open_sync", "open_barrier", "idle"} => op = "none"
    /\ op # "append" => batch = <<>>

IInv ==
    /\ TypeOK
    /\ Reopenable /\ NoLoss /\ NoResurrection
    /\ FreshInv /\ OrderInv /\ SyncInv /\ CkptInv /\ QuietInv
    /\ Loaded => SegsInv /\ IndexInv /\ PendingInv /\ CursorInv /\ CallInv
-----------------------------------------------------------------------------
(* What survives every failure: why whatever is listed can be read.        *)

\* Records go to segments in ascending order, none of them above every entry that stays.
AscendingInv ==
    /\ \A m, n \in DOMAIN log : m < n => SegOf(m) <= SegOf(n)
    /\ \A n \in DOMAIN log : \E s \in Firm : SegOf(n) <= s

\* The object knows no segment that is not there, and writes above all records.
KnownInv ==
    /\ segs \subseteq dir /\ cursor.seg <= Active
    /\ \A n \in DOMAIN log : SegOf(n) <= Active
    /\ Ready => Active \in stableDir
    /\ pc = "rotate_barrier" => Active + 1 \in dir

\* What it lists it has indexed, in a segment that no cleanup may delete.
ListedInv ==
    \A n \in pending : /\ n \in indexed /\ n \in disk
                       /\ SegOf(n) \in segs /\ cursor.seg <= SegOf(n)

ReadInv == AscendingInv /\ (Loaded => KnownInv /\ ListedInv)
=============================================================================
