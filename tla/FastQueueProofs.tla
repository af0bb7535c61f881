--------------------------- MODULE FastQueueProofs ---------------------------
(***************************************************************************)
(* Proofs about the FastMode queue, for every set of messages, their sizes *)
(* and the mode's limits: the FIFO in RAM and on disk stays one FIFO, no   *)
(* accepted message is forgotten, RAM stays within its limits with its     *)
(* byte counter exact, and a stop() that does not raise has spilled all.   *)
(***************************************************************************)
EXTENDS FastQueue, SequenceTheorems, WellFoundedInduction, TLAPS

-----------------------------------------------------------------------------
(* Induction and recursion over positions, in terms of sets and functions. *)

LEMMA SetInduction ==
    ASSUME NEW S, 0 \in S, \A n \in Nat : n \in S => n + 1 \in S
    PROVE  Nat \subseteq S
<1> SUFFICES ASSUME Nat \ S # {}
             PROVE  FALSE
  OBVIOUS
<1> DEFINE T == Nat \ S
<1>1. PICK t \in T : \A u \in T : ~ (<<u, t>> \in OpToRel(<, Nat))
  <2>1. T \subseteq Nat /\ T # {}
    OBVIOUS
  <2> QED
    BY <2>1, NatLessThanWellFounded, WFMin
<1>2. \A u \in T : ~ (u < t)
  BY <1>1, Zenon DEF OpToRel
<1>3. t \in Nat /\ t # 0
  OBVIOUS
<1>4. t - 1 \in Nat /\ t - 1 < t
  BY <1>3
<1>5. t - 1 \in S
  BY <1>2, <1>4
<1>6. (t - 1) + 1 \in S
  BY <1>4, <1>5
<1> QED
  BY <1>3, <1>6

\* f starts with x0 and follows Step up to N.
Solves(f, N, X, x0, Step) ==
    /\ f \in [0 .. N -> X] /\ f[0] = x0
    /\ \A k \in 1 .. N : f[k] = Step[k][f[k - 1]]

Steps(N, X) == [1 .. N -> [X -> X]]

LEMMA RecursionExists ==
    ASSUME NEW N \in Nat, NEW X, NEW x0 \in X, NEW Step \in Steps(N, X)
    PROVE  \E f : Solves(f, N, X, x0, Step)
<1> DEFINE Good(f, n) == f[0] = x0 /\ \A k \in 1 .. n : f[k] = Step[k][f[k - 1]]
           S == {n \in Nat : n <= N => \E f \in [0 .. n -> X] : Good(f, n)}
<1>1. 0 \in S
  <2> DEFINE f == [k \in 0 .. 0 |-> x0]
  <2>1. f \in [0 .. 0 -> X] /\ f[0] = x0
    OBVIOUS
  <2>2. \A k \in 1 .. 0 : FALSE
    OBVIOUS
  <2>3. Good(f, 0)
    BY <2>1, <2>2, Zenon
  <2> HIDE DEF f, Good
  <2> QED
    BY <2>1, <2>3
<1>2. \A n \in Nat : n \in S => n + 1 \in S
  <2> TAKE n \in Nat
  <2> HAVE n \in S
  <2>0. n + 1 \in Nat
    OBVIOUS
  <2> SUFFICES ASSUME n + 1 <= N
               PROVE  \E f \in [0 .. n + 1 -> X] : Good(f, n + 1)
    BY <2>0, Zenon
  <2>1. n <= N /\ n + 1 \in 1 .. N
    OBVIOUS
  <2>2. PICK g \in [0 .. n -> X] : Good(g, n)
    BY <2>1
  <2> DEFINE v == Step[n + 1][g[n]]
             f == [k \in 0 .. n + 1 |-> IF k = n + 1 THEN v ELSE g[k]]
  <2>3. v \in X
    <3>1. n \in 0 .. n
      OBVIOUS
    <3>2. g[n] \in X
      BY <3>1
    <3>3. Step[n + 1] \in [X -> X]
      BY <2>1 DEF Steps
    <3> QED
      BY <3>2, <3>3
  <2>4. \A k \in 0 .. n : f[k] = g[k]
    OBVIOUS
  <2>5. f[n + 1] = v
    OBVIOUS
  <2>6. f \in [0 .. n + 1 -> X]
    <3> HIDE DEF v
    <3> QED
      BY <2>3
  <2> HIDE DEF f
  <2>7. \A k \in 1 .. n + 1 : f[k] = Step[k][f[k - 1]]
    <3> TAKE k \in 1 .. n + 1
    <3>1. k - 1 \in 0 .. n
      OBVIOUS
    <3>2. CASE k = n + 1
      BY <2>4, <2>5, <3>1, <3>2
    <3>3. CASE k # n + 1
      <4>1. k \in 1 .. n /\ k \in 0 .. n
        BY <3>3
      <4> QED
        BY <2>2, <2>4, <3>1, <4>1
    <3> QED
      BY <3>2, <3>3
  <2>8. f[0] = x0
    BY <2>2, <2>4
  <2> QED
    BY <2>6, <2>7, <2>8
<1>3. N \in S
  <2> HIDE DEF S
  <2> QED
    BY <1>1, <1>2, SetInduction
<1>4. PICK f \in [0 .. N -> X] : Good(f, N)
  BY <1>3
<1> QED
  BY <1>4 DEF Solves
-----------------------------------------------------------------------------
(* Bytes of messages.                                                      *)

LEMMA SizeIsNat ==
    ASSUME NEW m \in Ids
    PROVE  SizeOf[m] \in Nat /\ SizeOf[m] > 0
  BY SizesAssumption

LEMMA BytesDef ==
    ASSUME NEW q \in Seq(Ids)
    PROVE  /\ BytesUpTo(q) = [k \in 0 .. Len(q) |->
                                 IF k = 0 THEN 0 ELSE BytesUpTo(q)[k - 1] + SizeOf[q[k]]]
<1> DEFINE Sum(f) == [k \in 0 .. Len(q) |-> IF k = 0 THEN 0 ELSE f[k - 1] + SizeOf[q[k]]]
           Step == [k \in 1 .. Len(q) |-> [x \in Nat |-> x + SizeOf[q[k]]]]
<1>1. Len(q) \in Nat
  BY LenProperties
<1>2. Step \in [1 .. Len(q) -> [Nat -> Nat]]
  <2>1. \A k \in 1 .. Len(q) : SizeOf[q[k]] \in Nat
    BY SizeIsNat
  <2>2. \A k \in 1 .. Len(q) : [x \in Nat |-> x + SizeOf[q[k]]] \in [Nat -> Nat]
    BY <2>1
  <2> QED
    BY <2>2, Zenon
<1>3. PICK f : Solves(f, Len(q), Nat, 0, Step)
  <2> HIDE DEF Step
  <2>1. 0 \in Nat /\ Step \in Steps(Len(q), Nat)
    BY <1>2 DEF Steps
  <2> QED
    BY <1>1, <2>1, RecursionExists, Zenon
<1>4. \A k \in 0 .. Len(q) : f[k] = IF k = 0 THEN 0 ELSE f[k - 1] + SizeOf[q[k]]
  <2> TAKE k \in 0 .. Len(q)
  <2>1. CASE k = 0
    BY <1>3, <2>1 DEF Solves
  <2>2. CASE k # 0
    <3>1. k \in 1 .. Len(q) /\ k - 1 \in 0 .. Len(q)
      BY <1>1, <2>2
    <3>2. f[k - 1] \in Nat
      BY <1>3, <3>1 DEF Solves
    <3> QED
      BY <1>3, <2>2, <3>1, <3>2 DEF Solves
  <2> QED
    BY <2>1, <2>2
<1>5. f = Sum(f)
  BY <1>3, <1>4 DEF Solves
<1> HIDE DEF Step
<1>6. \E g : g = Sum(g)
  BY <1>5
<1>7. BytesUpTo(q) = CHOOSE g : g = Sum(g)
  BY Zenon DEF BytesUpTo
<1>8. BytesUpTo(q) = Sum(BytesUpTo(q))
  <2> HIDE DEF Sum
  <2> QED
    BY <1>6, <1>7, Zenon
<1> QED
  BY <1>8, Zenon

LEMMA BytesFacts ==
    ASSUME NEW q \in Seq(Ids)
    PROVE  /\ BytesUpTo(q)[0] = 0
           /\ \A k \in 1 .. Len(q) : BytesUpTo(q)[k] = BytesUpTo(q)[k - 1] + SizeOf[q[k]]
           /\ \A k \in 0 .. Len(q) : BytesUpTo(q)[k] \in Nat
           /\ \A j, k \in 0 .. Len(q) : j <= k => BytesUpTo(q)[j] <= BytesUpTo(q)[k]
<1> DEFINE B == BytesUpTo(q)
<1>1. Len(q) \in Nat /\ \A k \in 1 .. Len(q) : SizeOf[q[k]] \in Nat
  BY LenProperties, SizeIsNat
<1>2. B = [k \in 0 .. Len(q) |-> IF k = 0 THEN 0 ELSE B[k - 1] + SizeOf[q[k]]]
  BY BytesDef
<1> HIDE DEF B
<1>3. B[0] = 0
  BY <1>1, <1>2
<1>4. \A k \in 1 .. Len(q) : B[k] = B[k - 1] + SizeOf[q[k]]
  BY <1>1, <1>2
<1>5. \A k \in 0 .. Len(q) : B[k] \in Nat
  <2> DEFINE S == {k \in Nat : k <= Len(q) => B[k] \in Nat}
  <2>1. 0 \in S
    BY <1>3
  <2>2. \A n \in Nat : n \in S => n + 1 \in S
    <3> TAKE n \in Nat
    <3> HAVE n \in S
    <3>1. n + 1 <= Len(q) => n + 1 \in 1 .. Len(q) /\ (n + 1) - 1 = n /\ n <= Len(q)
      BY <1>1
    <3> QED
      BY <1>1, <1>4, <3>1
  <2>3. Nat \subseteq S
    <3> HIDE DEF S
    <3> QED
      BY <2>1, <2>2, SetInduction
  <2> QED
    BY <1>1, <2>3
<1>6. \A j, k \in 0 .. Len(q) : j <= k => B[j] <= B[k]
  <2> TAKE j \in 0 .. Len(q)
  <2> DEFINE S == {k \in Nat : j <= k /\ k <= Len(q) => B[j] <= B[k]}
  <2>1. 0 \in S
    BY <1>5
  <2>2. \A n \in Nat : n \in S => n + 1 \in S
    <3> TAKE n \in Nat
    <3> HAVE n \in S
    <3> SUFFICES ASSUME j <= n + 1, n + 1 <= Len(q)
                 PROVE  B[j] <= B[n + 1]
      OBVIOUS
    <3>1. CASE j = n + 1
      BY <1>5, <3>1
    <3>2. CASE j # n + 1
      <4>1. n + 1 \in 1 .. Len(q) /\ (n + 1) - 1 = n /\ n \in 0 .. Len(q) /\ j <= n /\ n <= Len(q)
        BY <1>1, <3>2
      <4>2. B[j] <= B[n] /\ B[j] \in Nat /\ B[n] \in Nat
        BY <1>5, <4>1
      <4>3. B[n + 1] = B[n] + SizeOf[q[n + 1]] /\ SizeOf[q[n + 1]] \in Nat
        BY <1>1, <1>4, <4>1
      <4> QED
        BY <4>2, <4>3
    <3> QED
      BY <3>1, <3>2
  <2>3. Nat \subseteq S
    <3> HIDE DEF S
    <3> QED
      BY <2>1, <2>2, SetInduction
  <2> QED
    BY <1>1, <2>3
<1> QED
  BY <1>3, <1>4, <1>5, <1>6 DEF B

LEMMA BytesAppend ==
    ASSUME NEW q \in Seq(Ids), NEW m \in Ids
    PROVE  /\ \A k \in 0 .. Len(q) : BytesUpTo(Append(q, m))[k] = BytesUpTo(q)[k]
           /\ BytesUpTo(Append(q, m))[Len(q) + 1] = BytesUpTo(q)[Len(q)] + SizeOf[m]
<1> DEFINE a == Append(q, m)
           S == {k \in Nat : k <= Len(q) => BytesUpTo(a)[k] = BytesUpTo(q)[k]}
<1>1. /\ a \in Seq(Ids) /\ Len(a) = Len(q) + 1 /\ a[Len(q) + 1] = m /\ Len(q) \in Nat
      /\ \A k \in 1 .. Len(q) : a[k] = q[k]
  BY AppendProperties, LenProperties
<1> HIDE DEF a
<1>2. /\ BytesUpTo(a)[0] = 0
      /\ \A k \in 1 .. Len(a) : BytesUpTo(a)[k] = BytesUpTo(a)[k - 1] + SizeOf[a[k]]
  BY <1>1, BytesFacts
<1>3. /\ BytesUpTo(q)[0] = 0
      /\ \A k \in 1 .. Len(q) : BytesUpTo(q)[k] = BytesUpTo(q)[k - 1] + SizeOf[q[k]]
  BY BytesFacts
<1>4. 0 \in S
  BY <1>2, <1>3
<1>5. \A n \in Nat : n \in S => n + 1 \in S
  <2> TAKE n \in Nat
  <2> HAVE n \in S
  <2>1. n + 1 <= Len(q) => /\ n + 1 \in 1 .. Len(q) /\ n + 1 \in 1 .. Len(a)
                           /\ (n + 1) - 1 = n /\ n <= Len(q)
    BY <1>1
  <2> QED
    BY <1>1, <1>2, <1>3, <2>1
<1>6. Nat \subseteq S
  <2> HIDE DEF S
  <2> QED
    BY <1>4, <1>5, SetInduction
<1>7. \A k \in 0 .. Len(q) : BytesUpTo(a)[k] = BytesUpTo(q)[k]
  BY <1>1, <1>6
<1>8. BytesUpTo(a)[Len(q) + 1] = BytesUpTo(q)[Len(q)] + SizeOf[m]
  <2>1. Len(q) + 1 \in 1 .. Len(a) /\ (Len(q) + 1) - 1 = Len(q) /\ Len(q) \in 0 .. Len(q)
    BY <1>1
  <2> QED
    BY <1>1, <1>2, <1>7, <2>1
<1> QED
  BY <1>7, <1>8 DEF a

\* What is left of q once the first d are gone.
LEMMA Suffix ==
    ASSUME NEW q \in Seq(Ids), NEW d \in 0 .. Len(q)
    PROVE  /\ SubSeq(q, d + 1, Len(q)) \in Seq(Ids)
           /\ Len(SubSeq(q, d + 1, Len(q))) = Len(q) - d
           /\ \A k \in 1 .. (Len(q) - d) : SubSeq(q, d + 1, Len(q))[k] = q[d + k]
<1>1. Len(q) \in Nat /\ d \in Nat
  BY LenProperties
<1>2. \A i \in (d + 1) .. Len(q) : q[i] \in Ids
  BY <1>1, ElementOfSeq
<1> QED
  BY <1>1, <1>2, SubSeqProperties

LEMMA BytesSuffix ==
    ASSUME NEW q \in Seq(Ids), NEW d \in 0 .. Len(q)
    PROVE  \A k \in 0 .. (Len(q) - d) :
               BytesUpTo(SubSeq(q, d + 1, Len(q)))[k] = BytesUpTo(q)[d + k] - BytesUpTo(q)[d]
<1> DEFINE r == SubSeq(q, d + 1, Len(q))
           S == {k \in Nat : k <= Len(q) - d
                               => BytesUpTo(r)[k] = BytesUpTo(q)[d + k] - BytesUpTo(q)[d]}
<1>1. /\ r \in Seq(Ids) /\ Len(r) = Len(q) - d /\ Len(q) \in Nat /\ d \in Nat
      /\ \A k \in 1 .. (Len(q) - d) : r[k] = q[d + k]
  BY Suffix, LenProperties
<1> HIDE DEF r
<1>2. /\ BytesUpTo(r)[0] = 0
      /\ \A k \in 1 .. Len(r) : BytesUpTo(r)[k] = BytesUpTo(r)[k - 1] + SizeOf[r[k]]
  BY <1>1, BytesFacts
<1>3. /\ \A k \in 1 .. Len(q) : BytesUpTo(q)[k] = BytesUpTo(q)[k - 1] + SizeOf[q[k]]
      /\ \A k \in 0 .. Len(q) : BytesUpTo(q)[k] \in Nat
  BY BytesFacts
<1>4. 0 \in S
  BY <1>1, <1>2, <1>3
<1>5. \A n \in Nat : n \in S => n + 1 \in S
  <2> TAKE n \in Nat
  <2> HAVE n \in S
  <2> SUFFICES ASSUME n + 1 <= Len(q) - d
               PROVE  BytesUpTo(r)[n + 1] = BytesUpTo(q)[d + (n + 1)] - BytesUpTo(q)[d]
    OBVIOUS
  <2>1. /\ n + 1 \in 1 .. Len(r) /\ (n + 1) - 1 = n /\ n <= Len(q) - d
        /\ n + 1 \in 1 .. (Len(q) - d)
        /\ d + (n + 1) \in 1 .. Len(q) /\ (d + (n + 1)) - 1 = d + n /\ d + n \in 0 .. Len(q)
    BY <1>1
  <2>2. BytesUpTo(r)[n] = BytesUpTo(q)[d + n] - BytesUpTo(q)[d]
    BY <2>1
  <2>3. BytesUpTo(r)[n + 1] = BytesUpTo(r)[n] + SizeOf[r[n + 1]]
    BY <1>2, <2>1
  <2>4. BytesUpTo(q)[d + (n + 1)] = BytesUpTo(q)[d + n] + SizeOf[q[d + (n + 1)]]
    BY <1>3, <2>1
  <2>5. r[n + 1] = q[d + (n + 1)]
    BY <1>1, <2>1
  <2>6. SizeOf[q[d + (n + 1)]] \in Nat
    BY <2>1, SizeIsNat
  <2>7. BytesUpTo(q)[d + n] \in Nat /\ BytesUpTo(q)[d] \in Nat
    BY <1>1, <1>3, <2>1
  <2> QED
    BY <2>2, <2>3, <2>4, <2>5, <2>6, <2>7
<1>6. Nat \subseteq S
  <2> HIDE DEF S
  <2> QED
    BY <1>4, <1>5, SetInduction
<1> QED
  BY <1>1, <1>6 DEF r
-----------------------------------------------------------------------------
(* Batches and how a loop over them ends.                                  *)

LEMMA MaxExists ==
    ASSUME NEW N \in Nat, NEW S, S \subseteq 0 .. N, S # {}
    PROVE  Max(S) \in S
<1> DEFINE T == {N - x : x \in S}
<1>1. T \subseteq Nat /\ T # {}
  <2>1. \A x \in S : x \in Int /\ 0 <= x /\ x <= N
    OBVIOUS
  <2>2. \A x \in S : N - x \in Nat
    BY <2>1
  <2> QED
    BY <2>2
<1>2. PICK t \in T : \A u \in T : ~ (<<u, t>> \in OpToRel(<, Nat))
  BY <1>1, NatLessThanWellFounded, WFMin
<1>3. \A u \in T : ~ (u < t)
  BY <1>1, <1>2, Zenon DEF OpToRel
<1>4. PICK x \in S : t = N - x
  OBVIOUS
<1>5. \A y \in S : x >= y
  <2> TAKE y \in S
  <2>1. ~ (N - y < t)
    BY <1>3
  <2> QED
    BY <2>1, <1>4
<1> QED
  BY <1>5 DEF Max

\* A batch takes at least one message and none beyond the cap.
LEMMA BatchFacts ==
    ASSUME NEW q, NEW i \in Nat, NEW cap \in Nat, i < cap
    PROVE  BatchEnd(q, i, cap) \in (i + 1) .. cap
<1> DEFINE M == Min({cap, i + SpillBatchMessages})
           S == {k \in (i + 1) .. M : k = i + 1 \/ BytesOf(q, i + 1, k) <= SpillBatchBytes}
<1>1. SpillBatchMessages \in Nat /\ SpillBatchMessages > 0
  BY ModeAssumption DEF ValidFastMode
<1>2. M \in {cap, i + SpillBatchMessages} /\ M <= cap
  <2>1. CASE cap <= i + SpillBatchMessages
    BY <1>1, <2>1 DEF Min
  <2>2. CASE ~ (cap <= i + SpillBatchMessages)
    BY <1>1, <2>2 DEF Min
  <2> QED
    BY <2>1, <2>2
<1>3. M \in Nat /\ i + 1 <= M
  BY <1>1, <1>2
<1> HIDE DEF M
<1>4. S \subseteq 0 .. M /\ i + 1 \in S
  BY <1>3
<1>5. Max(S) \in S
  BY <1>3, <1>4, MaxExists
<1>6. BatchEnd(q, i, cap) = Max(S)
  BY DEF BatchEnd, M
<1> QED
  BY <1>2, <1>3, <1>5, <1>6

\* A loop of batches ends with its condition false or in a batch that failed.
LEMMA OutcomeFacts ==
    ASSUME NEW q, NEW from \in Nat, NEW cap \in Nat, from <= cap, NEW more, cap \notin more,
           NEW o \in Outcomes(q, from, cap, more)
    PROVE  /\ o = [done |-> o.done, tried |-> o.tried, kept |-> o.kept, failed |-> o.failed]
           /\ o.done \in from .. cap /\ o.kept \in o.done .. o.tried /\ o.tried \in o.done .. cap
           /\ o.failed \in BOOLEAN
           /\ o.failed => failures < MaxFailures
           /\ ~ o.failed => o.done \notin more /\ o.tried = o.done /\ o.kept = o.done
<1> DEFINE tests == Tested(q, from, cap, more)
<1>1. tests \subseteq from .. cap
  BY Zenon DEF Tested
<1> HIDE DEF tests
<1>2. ASSUME NEW j \in tests \ more,
             o = [done |-> j, tried |-> j, kept |-> j, failed |-> FALSE]
      PROVE  /\ o = [done |-> o.done, tried |-> o.tried, kept |-> o.kept, failed |-> o.failed]
             /\ o.done \in from .. cap /\ o.kept \in o.done .. o.tried
             /\ o.tried \in o.done .. cap /\ o.done \notin more /\ o.failed = FALSE
             /\ o.tried = o.done /\ o.kept = o.done
  <2>1. o.done = j /\ o.tried = j /\ o.kept = j /\ o.failed = FALSE
    BY <1>2
  <2>2. j \in from .. cap
    BY <1>1
  <2>3. o = [done |-> o.done, tried |-> o.tried, kept |-> o.kept, failed |-> o.failed]
    BY <1>2, <2>1, Zenon
  <2> QED
    BY <2>1, <2>2, <2>3
<1>3. ASSUME NEW j \in tests \cap more, failures < MaxFailures,
             NEW c \in j .. BatchEnd(q, j, cap),
             o = [done |-> j, tried |-> BatchEnd(q, j, cap), kept |-> c, failed |-> TRUE]
      PROVE  /\ o = [done |-> o.done, tried |-> o.tried, kept |-> o.kept, failed |-> o.failed]
             /\ o.done \in from .. cap /\ o.kept \in o.done .. o.tried
             /\ o.tried \in o.done .. cap /\ failures < MaxFailures /\ o.failed = TRUE
  <2>1. o.done = j /\ o.tried = BatchEnd(q, j, cap) /\ o.kept = c /\ o.failed = TRUE
    BY <1>3
  <2>2. j \in from .. cap /\ j # cap
    BY <1>1
  <2>3. j \in Nat /\ j < cap
    BY <2>2
  <2>4. BatchEnd(q, j, cap) \in (j + 1) .. cap
    BY <2>3, BatchFacts
  <2>5. o = [done |-> o.done, tried |-> o.tried, kept |-> o.kept, failed |-> o.failed]
    BY <1>3, <2>1, Zenon
  <2>6. BatchEnd(q, j, cap) \in j .. cap
    BY <2>3, <2>4
  <2> QED
    BY <1>3, <2>1, <2>2, <2>5, <2>6
<1>4. \/ \E j \in tests \ more : o = [done |-> j, tried |-> j, kept |-> j, failed |-> FALSE]
      \/ \E j \in tests \cap more :
            /\ failures < MaxFailures
            /\ \E c \in j .. BatchEnd(q, j, cap) :
                  o = [done |-> j, tried |-> BatchEnd(q, j, cap), kept |-> c, failed |-> TRUE]
  BY Zenon DEF Outcomes, tests
<1>5. CASE \E j \in tests \ more : o = [done |-> j, tried |-> j, kept |-> j, failed |-> FALSE]
  <2>1. /\ o = [done |-> o.done, tried |-> o.tried, kept |-> o.kept, failed |-> o.failed]
        /\ o.done \in from .. cap /\ o.kept \in o.done .. o.tried
        /\ o.tried \in o.done .. cap /\ o.done \notin more /\ o.failed = FALSE
        /\ o.tried = o.done /\ o.kept = o.done
    BY <1>2, <1>5, Zenon
  <2> QED
    BY <2>1, Zenon
<1>6. CASE \E j \in tests \cap more :
              /\ failures < MaxFailures
              /\ \E c \in j .. BatchEnd(q, j, cap) :
                    o = [done |-> j, tried |-> BatchEnd(q, j, cap), kept |-> c, failed |-> TRUE]
  <2>1. /\ o = [done |-> o.done, tried |-> o.tried, kept |-> o.kept, failed |-> o.failed]
        /\ o.done \in from .. cap /\ o.kept \in o.done .. o.tried
        /\ o.tried \in o.done .. cap /\ failures < MaxFailures /\ o.failed = TRUE
    BY <1>3, <1>6, Zenon
  <2> QED
    BY <2>1, Zenon
<1> QED
  BY <1>4, <1>5, <1>6
-----------------------------------------------------------------------------
(* One FIFO in two places.                                                 *)

\* QueueShape, position by position: of the FIFO p the messages behind the first
\* Len(p) - Len(f) are RAM's f, the Outbox lists the first Len(s), and the messages in both
\* places are marked.
Aligned(p, f, s, disk, marked) ==
    /\ p \in Seq(Ids) /\ f \in Seq(Ids) /\ s \in Seq(Ids)
    /\ \A i, j \in 1 .. Len(p) : p[i] = p[j] => i = j
    /\ Len(f) <= Len(p)
    /\ \A i \in 1 .. Len(f) : f[i] = p[Len(p) - Len(f) + i]
    /\ Len(s) <= Len(p) /\ Len(p) - Len(f) <= Len(s)
    /\ \A i \in 1 .. Len(s) : s[i] = p[i]
    /\ disk = {p[i] : i \in 1 .. (Len(p) - Len(f))}
    /\ \A i \in (Len(p) - Len(f) + 1) .. Len(s) : p[i] \in marked

LEMMA ToSetIs ==
    ASSUME NEW X, NEW s \in Seq(X)
    PROVE  ToSet(s) = {s[i] : i \in 1 .. Len(s)} /\ Len(s) \in Nat
  BY LenProperties DEF ToSet

LEMMA FirstIs ==
    ASSUME NEW q \in Seq(Ids), NEW n \in 0 .. Len(q)
    PROVE  First(q, n) = {q[i] : i \in 1 .. n}
<1> DEFINE s == SubSeq(q, 1, n)
<1>1. Len(q) \in Nat /\ \A i \in 1 .. n : q[i] \in Ids
  BY LenProperties, ElementOfSeq
<1>2. s \in Seq(Ids) /\ Len(s) = n /\ \A i \in 1 .. n : s[i] = q[i]
  BY <1>1, SubSeqProperties
<1> HIDE DEF s
<1>3. First(q, n) = {s[i] : i \in 1 .. n}
  BY <1>2, ToSetIs DEF First, s
<1> QED
  BY <1>2, <1>3

LEMMA ListedDef ==
    ASSUME stored \in Seq(Ids), NEW q \in Seq(Ids)
    PROVE  \E g : /\ g = [k \in 0 .. Len(q) |->
                              IF k = 0 THEN stored
                              ELSE IF q[k] \in ToSet(stored) THEN g[k - 1]
                              ELSE Append(g[k - 1], q[k])]
                  /\ \A n : StoredAfter(q, n) = g[n]
<1> DEFINE List(g) == [k \in 0 .. Len(q) |->
                          IF k = 0 THEN stored
                          ELSE IF q[k] \in ToSet(stored) THEN g[k - 1]
                          ELSE Append(g[k - 1], q[k])]
           Step == [k \in 1 .. Len(q) |-> [x \in Seq(Ids) |->
                       IF q[k] \in ToSet(stored) THEN x ELSE Append(x, q[k])]]
<1>1. Len(q) \in Nat /\ \A k \in 1 .. Len(q) : q[k] \in Ids
  BY LenProperties, ElementOfSeq
<1>2. Step \in Steps(Len(q), Seq(Ids))
  <2>1. \A k \in 1 .. Len(q), x \in Seq(Ids) :
            (IF q[k] \in ToSet(stored) THEN x ELSE Append(x, q[k])) \in Seq(Ids)
    BY <1>1, AppendProperties
  <2> QED
    BY <2>1, Zenon DEF Steps
<1>3. PICK f : Solves(f, Len(q), Seq(Ids), stored, Step)
  <2> HIDE DEF Step
  <2> QED
    BY <1>1, <1>2, RecursionExists, Zenon
<1>4. \A k \in 0 .. Len(q) :
          f[k] = IF k = 0 THEN stored
                 ELSE IF q[k] \in ToSet(stored) THEN f[k - 1] ELSE Append(f[k - 1], q[k])
  <2> TAKE k \in 0 .. Len(q)
  <2>1. CASE k = 0
    BY <1>3, <2>1 DEF Solves
  <2>2. CASE k # 0
    <3>1. k \in 1 .. Len(q) /\ k - 1 \in 0 .. Len(q)
      BY <1>1, <2>2
    <3>2. f[k - 1] \in Seq(Ids)
      BY <1>3, <3>1 DEF Solves
    <3>3. f[k] = Step[k][f[k - 1]]
      BY <1>3, <3>1 DEF Solves
    <3> QED
      BY <2>2, <3>1, <3>2, <3>3
  <2> QED
    BY <2>1, <2>2
<1> HIDE DEF Step
<1>5. f = List(f)
  BY <1>3, <1>4 DEF Solves
<1> DEFINE g == CHOOSE h : h = List(h)
<1>6. g = List(g)
  <2> HIDE DEF List
  <2> QED
    BY <1>5, Zenon
<1>7. \A n : StoredAfter(q, n) = g[n]
  BY Zenon DEF StoredAfter
<1> HIDE DEF g
<1> QED
  BY <1>6, <1>7, Zenon

Longer(x, y) == IF x <= y THEN y ELSE x

\* append_many of the first n of q leaves the Outbox with a prefix of the FIFO.
LEMMA StoredIsPrefix ==
    ASSUME NEW p, NEW q, Aligned(p, q, stored, onDisk, tried), NEW n \in 0 .. Len(q)
    PROVE  LET t == StoredAfter(q, n)
               b == Len(p) - Len(q)
           IN  /\ t \in Seq(Ids) /\ Len(t) <= Len(p)
               /\ Len(t) = Longer(b + n, Len(stored))
               /\ \A i \in 1 .. Len(t) : t[i] = p[i]
<1> DEFINE b == Len(p) - Len(q)
<1>1. /\ p \in Seq(Ids) /\ q \in Seq(Ids) /\ stored \in Seq(Ids)
      /\ \A i, j \in 1 .. Len(p) : p[i] = p[j] => i = j
      /\ Len(q) <= Len(p) /\ Len(stored) <= Len(p) /\ b <= Len(stored)
      /\ \A i \in 1 .. Len(q) : q[i] = p[b + i]
      /\ \A i \in 1 .. Len(stored) : stored[i] = p[i]
  BY DEF Aligned
<1>2. Len(p) \in Nat /\ Len(q) \in Nat /\ Len(stored) \in Nat /\ b \in Nat /\ b + Len(q) = Len(p)
  BY <1>1, LenProperties
<1>3. PICK g : /\ g = [k \in 0 .. Len(q) |->
                          IF k = 0 THEN stored
                          ELSE IF q[k] \in ToSet(stored) THEN g[k - 1]
                          ELSE Append(g[k - 1], q[k])]
               /\ \A x : StoredAfter(q, x) = g[x]
  BY <1>1, ListedDef, Zenon
<1> HIDE DEF b
<1>4. \A k \in 1 .. Len(q) : q[k] \in ToSet(stored) <=> b + k <= Len(stored)
  <2> TAKE k \in 1 .. Len(q)
  <2>1. q[k] = p[b + k] /\ b + k \in 1 .. Len(p)
    BY <1>1, <1>2
  <2>2. ToSet(stored) = {stored[i] : i \in 1 .. Len(stored)}
    BY <1>1, ToSetIs
  <2>3. ASSUME b + k <= Len(stored)
        PROVE  q[k] \in ToSet(stored)
    <3>1. b + k \in 1 .. Len(stored)
      BY <1>2, <2>3
    <3>2. q[k] = stored[b + k]
      BY <1>1, <2>1, <3>1
    <3> QED
      BY <2>2, <3>1, <3>2
  <2>4. ASSUME q[k] \in ToSet(stored)
        PROVE  b + k <= Len(stored)
    <3>1. PICK i \in 1 .. Len(stored) : q[k] = stored[i]
      BY <2>2, <2>4
    <3>2. i \in 1 .. Len(p) /\ p[i] = p[b + k]
      BY <1>1, <1>2, <2>1, <3>1
    <3>3. i = b + k
      BY <1>1, <2>1, <3>2
    <3> QED
      BY <1>2, <3>1, <3>3
  <2> QED
    BY <2>3, <2>4
<1> DEFINE Right(t, k) ==
               /\ t \in Seq(Ids)
               /\ Len(t) = (IF b + k <= Len(stored) THEN Len(stored) ELSE b + k)
               /\ \A i \in 1 .. Len(t) : t[i] = p[i]
           S == {k \in Nat : k <= Len(q) => Right(g[k], k)}
<1>5. 0 \in S
  <2>1. g[0] = stored
    BY <1>2, <1>3
  <2>2. b + 0 <= Len(stored)
    BY <1>1, <1>2 DEF b
  <2> QED
    BY <1>1, <2>1, <2>2
<1>6. \A k \in Nat : k \in S => k + 1 \in S
  <2> TAKE k \in Nat
  <2> HAVE k \in S
  <2> SUFFICES ASSUME k + 1 <= Len(q)
               PROVE  Right(g[k + 1], k + 1)
    OBVIOUS
  <2>1. /\ k <= Len(q) /\ k + 1 \in 1 .. Len(q) /\ k + 1 \in 0 .. Len(q) /\ (k + 1) - 1 = k
        /\ k + 1 # 0
    BY <1>2
  <2>2. Right(g[k], k)
    BY <2>1
  <2>3. g[k + 1] = IF q[k + 1] \in ToSet(stored) THEN g[k] ELSE Append(g[k], q[k + 1])
    <3> HIDE DEF Right
    <3> QED
      BY <1>3, <2>1
  <2>4. CASE b + (k + 1) <= Len(stored)
    <3>1. g[k + 1] = g[k] /\ b + k <= Len(stored)
      BY <1>2, <1>4, <2>1, <2>3, <2>4
    <3> QED
      BY <2>2, <2>4, <3>1
  <2>5. CASE ~ (b + (k + 1) <= Len(stored))
    <3>1. g[k + 1] = Append(g[k], q[k + 1])
      BY <1>4, <2>1, <2>3, <2>5
    <3>2. Len(g[k]) = b + k
      BY <1>2, <2>2, <2>5
    <3>3. q[k + 1] \in Ids /\ q[k + 1] = p[b + (k + 1)]
      BY <1>1, <2>1, ElementOfSeq
    <3> DEFINE t == g[k]
               u == g[k + 1]
    <3>4. t \in Seq(Ids) /\ \A i \in 1 .. Len(t) : t[i] = p[i]
      BY <2>2
    <3>5. /\ u \in Seq(Ids) /\ Len(u) = Len(t) + 1 /\ u[Len(t) + 1] = q[k + 1]
          /\ \A i \in 1 .. Len(t) : u[i] = t[i]
      BY <3>1, <3>3, <3>4, AppendProperties
    <3> HIDE DEF t, u
    <3>6. Len(t) = b + k
      BY <3>2 DEF t
    <3>7. \A i \in 1 .. Len(u) : u[i] = p[i]
      <4> TAKE i \in 1 .. Len(u)
      <4>1. i \in 1 .. Len(t) \/ i = Len(t) + 1
        BY <1>2, <3>5, <3>6
      <4>2. Len(t) + 1 = b + (k + 1)
        BY <1>2, <3>6
      <4> QED
        BY <3>3, <3>4, <3>5, <4>1, <4>2
    <3>8. Len(u) = b + (k + 1)
      BY <1>2, <3>5, <3>6
    <3> QED
      BY <2>5, <3>5, <3>7, <3>8 DEF u
  <2> QED
    BY <2>4, <2>5
<1>7. n \in S
  <2>1. n \in Nat
    BY <1>2
  <2> HIDE DEF S
  <2> QED
    BY <1>5, <1>6, <2>1, SetInduction
<1>8. Right(g[n], n)
  BY <1>2, <1>7
<1>9. StoredAfter(q, n) = g[n]
  BY <1>3
<1>10. (IF b + n <= Len(stored) THEN Len(stored) ELSE b + n) <= Len(p)
  BY <1>1, <1>2
<1> HIDE <1>3
<1> QED
  BY <1>8, <1>9, <1>10 DEF b, Longer

\* Moving the first messages of RAM to the Outbox keeps the FIFO, though the last batch
\* failed half way.
LEMMA SpillAligned ==
    ASSUME NEW p, NEW q, Aligned(p, q, stored, onDisk, tried),
           NEW d \in 0 .. Len(q), NEW w \in d .. Len(q), NEW n \in d .. w
    PROVE  Aligned(p, SubSeq(q, d + 1, Len(q)), StoredAfter(q, n),
                   onDisk \cup First(q, d), tried \cup First(q, w))
<1> DEFINE b == Len(p) - Len(q)
           f == SubSeq(q, d + 1, Len(q))
           s == StoredAfter(q, n)
           disk == onDisk \cup First(q, d)
           marked == tried \cup First(q, w)
<1>1. /\ p \in Seq(Ids) /\ q \in Seq(Ids) /\ stored \in Seq(Ids)
      /\ \A i, j \in 1 .. Len(p) : p[i] = p[j] => i = j
      /\ Len(q) <= Len(p) /\ Len(stored) <= Len(p) /\ b <= Len(stored)
      /\ \A i \in 1 .. Len(q) : q[i] = p[b + i]
      /\ onDisk = {p[i] : i \in 1 .. b}
      /\ \A i \in (b + 1) .. Len(stored) : p[i] \in tried
  BY DEF Aligned
<1>2. Len(p) \in Nat /\ Len(q) \in Nat /\ Len(stored) \in Nat /\ b \in Nat /\ b + Len(q) = Len(p)
  BY <1>1, LenProperties
<1>3. d \in Nat /\ d <= Len(q) /\ w \in Nat /\ w <= Len(q) /\ n \in Nat
      /\ d <= n /\ n <= w /\ n \in 0 .. Len(q) /\ w \in 0 .. Len(q)
  BY <1>2
<1>4. /\ f \in Seq(Ids) /\ Len(f) = Len(q) - d
      /\ \A k \in 1 .. (Len(q) - d) : f[k] = q[d + k]
  BY <1>1, Suffix
<1>5. /\ s \in Seq(Ids) /\ Len(s) <= Len(p)
      /\ Len(s) = Longer(b + n, Len(stored))
      /\ \A i \in 1 .. Len(s) : s[i] = p[i]
  BY <1>3, StoredIsPrefix, Zenon
<1>6. First(q, d) = {q[i] : i \in 1 .. d} /\ First(q, w) = {q[i] : i \in 1 .. w}
  BY <1>1, <1>3, FirstIs
<1>7. disk = onDisk \cup First(q, d) /\ marked = tried \cup First(q, w)
  OBVIOUS
<1> HIDE DEF b, f, s, disk, marked
<1>8. Len(p) - Len(f) = b + d
  <2>1. Len(f) = Len(q) - d /\ b = Len(p) - Len(q)
    BY <1>4 DEF b
  <2>2. ASSUME NEW x \in Nat, NEW y \in Nat, NEW e \in Nat
        PROVE  x - (y - e) = (x - y) + e
    OBVIOUS
  <2>3. Len(p) - Len(f) = Len(p) - (Len(q) - d)
    BY <2>1, Zenon
  <2>4. b + d = (Len(p) - Len(q)) + d
    BY <2>1, Zenon
  <2>5. Len(p) - (Len(q) - d) = (Len(p) - Len(q)) + d
    BY <1>2, <1>3, <2>2
  <2> QED
    BY <2>3, <2>4, <2>5, Zenon
<1>9. \A i \in 1 .. Len(f) : f[i] = p[Len(p) - Len(f) + i]
  <2> TAKE i \in 1 .. Len(f)
  <2>1. f[i] = q[d + i] /\ d + i \in 1 .. Len(q)
    <3>1. Len(f) = Len(q) - d
      BY <1>4
    <3>2. i \in 1 .. (Len(q) - d)
      BY <3>1, Zenon
    <3>3. f[i] = q[d + i]
      BY <1>4, <3>2, Zenon
    <3>4. ASSUME NEW x \in Nat, NEW c \in Nat, NEW k \in 1 .. (x - c)
          PROVE  c + k \in 1 .. x
      OBVIOUS
    <3>5. d + i \in 1 .. Len(q)
      BY <1>2, <1>3, <3>2, <3>4, Zenon
    <3> QED
      BY <3>3, <3>5, Zenon
  <2>2. q[d + i] = p[b + (d + i)]
    BY <1>1, <2>1
  <2>3. b + (d + i) = Len(p) - Len(f) + i
    BY <1>2, <1>3, <1>8
  <2> QED
    BY <2>1, <2>2, <2>3
<1>10. Len(f) <= Len(p) /\ Len(p) - Len(f) <= Len(s)
  BY <1>2, <1>3, <1>4, <1>5, <1>8 DEF Longer
<1>11. disk = {p[i] : i \in 1 .. (b + d)}
  <2>1. \A i \in 1 .. d : i \in 1 .. Len(q) /\ b + i \in 1 .. (b + d) /\ q[i] = p[b + i]
    BY <1>1, <1>2, <1>3
  <2>2. disk \subseteq {p[i] : i \in 1 .. (b + d)}
    <3>1. \A i \in 1 .. b : i \in 1 .. (b + d)
      BY <1>2, <1>3
    <3>2. onDisk \subseteq {p[i] : i \in 1 .. (b + d)}
      BY <1>1, <3>1
    <3>3. First(q, d) \subseteq {p[i] : i \in 1 .. (b + d)}
      BY <1>6, <2>1
    <3> QED
      BY <1>7, <3>2, <3>3
  <2>3. \A i \in 1 .. (b + d) : p[i] \in disk
    <3> TAKE i \in 1 .. (b + d)
    <3>1. CASE i \in 1 .. b
      BY <1>1, <1>7, <3>1
    <3>2. CASE i \notin 1 .. b
      <4>1. i - b \in 1 .. d /\ b + (i - b) = i
        BY <1>2, <1>3, <3>2
      <4>2. q[i - b] = p[i]
        BY <2>1, <4>1
      <4> QED
        BY <1>6, <1>7, <4>1, <4>2
    <3> QED
      BY <3>1, <3>2
  <2> QED
    BY <2>2, <2>3
<1>12. \A i \in (b + d + 1) .. Len(s) : p[i] \in marked
  <2> TAKE i \in (b + d + 1) .. Len(s)
  <2>1. CASE i \in (b + 1) .. Len(stored)
    BY <1>1, <1>7, <2>1
  <2>2. CASE i \notin (b + 1) .. Len(stored)
    <3>1. i \in Int /\ i > Len(stored) /\ i <= b + n
      BY <1>2, <1>3, <1>5, <2>2 DEF Longer
    <3>2. i - b \in 1 .. w /\ i - b \in 1 .. Len(q) /\ b + (i - b) = i
      BY <1>1, <1>2, <1>3, <3>1 DEF b
    <3>3. q[i - b] = p[i]
      BY <1>1, <3>2
    <3> QED
      BY <1>6, <1>7, <3>2, <3>3
  <2> QED
    BY <2>1, <2>2
<1>13. Aligned(p, f, s, disk, marked)
  BY <1>1, <1>4, <1>5, <1>8, <1>9, <1>10, <1>11, <1>12 DEF Aligned
<1> QED
  BY <1>13 DEF f, s, disk, marked

\* A new message joins the FIFO and RAM.
LEMMA JoinAligned ==
    ASSUME NEW p, NEW f, NEW s, NEW disk, NEW marked, Aligned(p, f, s, disk, marked),
           NEW m \in Ids, m \notin ToSet(p)
    PROVE  Aligned(Append(p, m), Append(f, m), s, disk, marked)
<1> DEFINE b == Len(p) - Len(f)
           x == Append(p, m)
           y == Append(f, m)
<1>1. /\ p \in Seq(Ids) /\ f \in Seq(Ids) /\ s \in Seq(Ids)
      /\ \A i, j \in 1 .. Len(p) : p[i] = p[j] => i = j
      /\ Len(f) <= Len(p) /\ Len(s) <= Len(p) /\ b <= Len(s)
      /\ \A i \in 1 .. Len(f) : f[i] = p[b + i]
      /\ \A i \in 1 .. Len(s) : s[i] = p[i]
      /\ disk = {p[i] : i \in 1 .. b}
      /\ \A i \in (b + 1) .. Len(s) : p[i] \in marked
  BY DEF Aligned
<1>2. Len(p) \in Nat /\ Len(f) \in Nat /\ Len(s) \in Nat /\ b \in Nat /\ b + Len(f) = Len(p)
  BY <1>1, LenProperties
<1>3. /\ x \in Seq(Ids) /\ Len(x) = Len(p) + 1 /\ x[Len(p) + 1] = m
      /\ \A i \in 1 .. Len(p) : x[i] = p[i]
  BY <1>1, AppendProperties
<1>4. /\ y \in Seq(Ids) /\ Len(y) = Len(f) + 1 /\ y[Len(f) + 1] = m
      /\ \A i \in 1 .. Len(f) : y[i] = f[i]
  BY <1>1, AppendProperties
<1>5. \A i \in 1 .. Len(p) : p[i] # m
  BY <1>1, ToSetIs
<1> HIDE DEF b, x, y
<1>6. Len(x) - Len(y) = b
  BY <1>2, <1>3, <1>4
<1>7. \A i, j \in 1 .. Len(x) : x[i] = x[j] => i = j
  <2> TAKE i, j \in 1 .. Len(x)
  <2>1. (i \in 1 .. Len(p) \/ i = Len(p) + 1) /\ (j \in 1 .. Len(p) \/ j = Len(p) + 1)
    BY <1>2, <1>3
  <2> QED
    BY <1>1, <1>3, <1>5, <2>1
<1>8. \A i \in 1 .. Len(y) : y[i] = x[b + i]
  <2> TAKE i \in 1 .. Len(y)
  <2>1. CASE i \in 1 .. Len(f)
    <3>1. b + i \in 1 .. Len(p)
      BY <1>2, <2>1
    <3> QED
      BY <1>1, <1>3, <1>4, <2>1, <3>1
  <2>2. CASE i = Len(f) + 1
    <3>1. b + i = Len(p) + 1
      BY <1>2, <2>2
    <3> QED
      BY <1>3, <1>4, <2>2, <3>1
  <2>3. i \in 1 .. Len(f) \/ i = Len(f) + 1
    BY <1>2, <1>4
  <2> QED
    BY <2>1, <2>2, <2>3
<1>9. \A i \in 1 .. Len(s) : i \in 1 .. Len(p)
  BY <1>1, <1>2
<1>10. \A i \in 1 .. b : i \in 1 .. Len(p)
  BY <1>2
<1>11. disk = {x[i] : i \in 1 .. b}
  <2>1. \A i \in 1 .. b : x[i] = p[i]
    BY <1>3, <1>10, Zenon
  <2>2. disk = {p[i] : i \in 1 .. b}
    BY <1>1, Zenon
  <2> QED
    BY <2>1, <2>2, Zenon
<1>12. \A i \in (b + 1) .. Len(s) : i \in 1 .. Len(p)
  BY <1>1, <1>2
<1>13. \A i \in (b + 1) .. Len(s) : x[i] \in marked
  BY <1>1, <1>3, <1>12
<1>14. Len(y) <= Len(x) /\ Len(s) <= Len(x)
  BY <1>1, <1>2, <1>3, <1>4
<1>15. Aligned(x, y, s, disk, marked)
  BY <1>1, <1>3, <1>4, <1>6, <1>7, <1>8, <1>9, <1>11, <1>13, <1>14 DEF Aligned
<1> QED
  BY <1>15 DEF x, y

\* The head leaves the FIFO, and the Outbox when it is on disk.
LEMMA HeadLeaves ==
    ASSUME NEW p, NEW f, NEW s, NEW disk, NEW marked, Aligned(p, f, s, disk, marked),
           p # <<>>
    PROVE  /\ Len(f) < Len(p) => /\ s # <<>> /\ Head(s) = Head(p)
                                 /\ Aligned(Tail(p), f, Tail(s), disk \ {Head(p)},
                                            marked \ {Head(p)})
           /\ s = <<>> => /\ f # <<>> /\ Head(f) = Head(p)
                          /\ Aligned(Tail(p), Tail(f), s, disk, marked)
<1> DEFINE b == Len(p) - Len(f)
           x == Tail(p)
<1>1. /\ p \in Seq(Ids) /\ f \in Seq(Ids) /\ s \in Seq(Ids)
      /\ \A i, j \in 1 .. Len(p) : p[i] = p[j] => i = j
      /\ Len(f) <= Len(p) /\ Len(s) <= Len(p) /\ b <= Len(s)
      /\ \A i \in 1 .. Len(f) : f[i] = p[b + i]
      /\ \A i \in 1 .. Len(s) : s[i] = p[i]
      /\ disk = {p[i] : i \in 1 .. b}
      /\ \A i \in (b + 1) .. Len(s) : p[i] \in marked
  BY DEF Aligned
<1>2. /\ Len(p) \in Nat /\ Len(f) \in Nat /\ Len(s) \in Nat /\ b \in Nat /\ b + Len(f) = Len(p)
      /\ Len(p) > 0
  BY <1>1, LenProperties, EmptySeq
<1>3. /\ x \in Seq(Ids) /\ Len(x) = Len(p) - 1 /\ Head(p) = p[1]
      /\ \A i \in 1 .. Len(x) : x[i] = p[i + 1]
  BY <1>1, HeadTailProperties
<1> HIDE DEF b, x
<1>4. \A i, j \in 1 .. Len(x) : x[i] = x[j] => i = j
  <2> TAKE i, j \in 1 .. Len(x)
  <2>1. i + 1 \in 1 .. Len(p) /\ j + 1 \in 1 .. Len(p)
    BY <1>2, <1>3
  <2> HAVE x[i] = x[j]
  <2>2. i + 1 = j + 1
    BY <1>1, <1>3, <2>1
  <2> QED
    BY <2>2
<1>5. \A i \in 2 .. Len(p) : p[i] # p[1]
  <2> TAKE i \in 2 .. Len(p)
  <2>1. i \in 1 .. Len(p) /\ 1 \in 1 .. Len(p) /\ i # 1
    BY <1>2
  <2> QED
    BY <1>1, <2>1
<1>6. ASSUME Len(f) < Len(p)
      PROVE  /\ s # <<>> /\ Head(s) = Head(p)
             /\ Aligned(x, f, Tail(s), disk \ {Head(p)}, marked \ {Head(p)})
  <2> DEFINE t == Tail(s)
  <2>1. b > 0 /\ Len(s) > 0 /\ s # <<>> /\ 1 \in 1 .. Len(s)
    <3>1. b > 0 /\ Len(s) > 0
      BY <1>1, <1>2, <1>6 DEF b
    <3> QED
      BY <1>1, <1>2, <3>1
  <2>2. /\ t \in Seq(Ids) /\ Len(t) = Len(s) - 1 /\ Head(s) = s[1]
        /\ \A i \in 1 .. Len(t) : t[i] = s[i + 1]
    BY <1>1, <2>1, HeadTailProperties
  <2> HIDE DEF t
  <2>3. Head(s) = Head(p)
    BY <1>1, <1>3, <2>1, <2>2
  <2>4. Len(f) <= Len(x) /\ Len(t) <= Len(x) /\ Len(x) - Len(f) = b - 1 /\ b - 1 <= Len(t)
    BY <1>1, <1>2, <1>3, <1>6, <2>2 DEF b
  <2>5. \A i \in 1 .. Len(f) : f[i] = x[(b - 1) + i]
    <3> TAKE i \in 1 .. Len(f)
    <3>1. (b - 1) + i \in 1 .. Len(x) /\ ((b - 1) + i) + 1 = b + i
      BY <1>2, <1>3, <2>1
    <3> QED
      BY <1>1, <1>3, <3>1
  <2>6. \A i \in 1 .. Len(t) : t[i] = x[i]
    <3> TAKE i \in 1 .. Len(t)
    <3>1. i + 1 \in 1 .. Len(s) /\ i \in 1 .. Len(x)
      BY <1>2, <1>3, <2>2, <2>4
    <3> QED
      BY <1>1, <1>3, <2>2, <3>1
  <2>7. disk \ {Head(p)} = {x[i] : i \in 1 .. (b - 1)}
    <3>1. \A i \in 1 .. (b - 1) : i + 1 \in 1 .. b /\ i \in 1 .. Len(x) /\ i + 1 \in 2 .. Len(p)
      BY <1>2, <1>3
    <3>2. \A i \in 1 .. (b - 1) : x[i] \in disk \ {Head(p)}
      BY <1>1, <1>3, <1>5, <3>1
    <3>3. \A y \in disk \ {Head(p)} : y \in {x[i] : i \in 1 .. (b - 1)}
      <4> TAKE y \in disk \ {Head(p)}
      <4>1. PICK i \in 1 .. b : y = p[i]
        BY <1>1
      <4>2. i # 1 /\ i - 1 \in 1 .. (b - 1) /\ (i - 1) + 1 = i /\ i - 1 \in 1 .. Len(x)
        <5>1. i # 1
          BY <1>3, <4>1
        <5> QED
          BY <1>2, <1>3, <4>1, <5>1
      <4>3. x[i - 1] = p[i]
        BY <1>3, <4>2
      <4> QED
        BY <4>1, <4>2, <4>3
    <3> QED
      BY <3>2, <3>3
  <2>8. \A i \in ((b - 1) + 1) .. Len(t) : x[i] \in marked \ {Head(p)}
    <3> TAKE i \in ((b - 1) + 1) .. Len(t)
    <3>1. /\ i + 1 \in (b + 1) .. Len(s) /\ i + 1 \in 2 .. Len(p) /\ i \in 1 .. Len(x)
      BY <1>1, <1>2, <1>3, <2>1, <2>2
    <3> QED
      BY <1>1, <1>3, <1>5, <3>1
  <2>9. Aligned(x, f, t, disk \ {Head(p)}, marked \ {Head(p)})
    BY <1>1, <1>3, <1>4, <2>2, <2>4, <2>5, <2>6, <2>7, <2>8 DEF Aligned
  <2> QED
    BY <2>1, <2>3, <2>9 DEF t
<1>7. ASSUME s = <<>>
      PROVE  f # <<>> /\ Head(f) = Head(p) /\ Aligned(x, Tail(f), s, disk, marked)
  <2> DEFINE t == Tail(f)
  <2>1. Len(s) = 0
    BY <1>7
  <2>2. b = 0 /\ Len(f) = Len(p) /\ Len(f) > 0
    BY <1>1, <1>2, <2>1 DEF b
  <2>3. f # <<>> /\ 1 \in 1 .. Len(f)
    BY <1>1, <1>2, <2>2
  <2>4. /\ t \in Seq(Ids) /\ Len(t) = Len(f) - 1 /\ Head(f) = f[1]
        /\ \A i \in 1 .. Len(t) : t[i] = f[i + 1]
    BY <1>1, <2>3, HeadTailProperties
  <2> HIDE DEF t
  <2>5. \A i \in 1 .. Len(f) : f[i] = p[i]
    BY <1>1, <1>2, <2>2
  <2>6. Head(f) = Head(p)
    BY <1>3, <2>3, <2>4, <2>5
  <2>7. Len(t) = Len(x) /\ Len(t) <= Len(x) /\ Len(x) - Len(t) = 0 /\ Len(x) \in Nat
    BY <1>2, <1>3, <2>2, <2>4
  <2>8. \A i \in 1 .. Len(t) : t[i] = x[(Len(x) - Len(t)) + i]
    <3> TAKE i \in 1 .. Len(t)
    <3>1. i + 1 \in 1 .. Len(f) /\ i \in 1 .. Len(x) /\ (Len(x) - Len(t)) + i = i
      BY <1>2, <2>2, <2>4, <2>7
    <3> QED
      BY <1>3, <2>4, <2>5, <3>1
  <2>9. /\ \A i \in 1 .. (Len(x) - Len(t)) : FALSE
        /\ \A i \in 1 .. Len(s) : FALSE
        /\ \A i \in (Len(x) - Len(t) + 1) .. Len(s) : FALSE
        /\ \A i \in 1 .. b : FALSE
    BY <2>1, <2>2, <2>7
  <2>10. disk = {x[i] : i \in 1 .. (Len(x) - Len(t))}
    BY <1>1, <2>9
  <2>11. Len(s) <= Len(x) /\ Len(x) - Len(t) <= Len(s)
    BY <2>1, <2>7
  <2>12. Aligned(x, t, s, disk, marked)
    BY <1>1, <1>3, <1>4, <2>4, <2>7, <2>8, <2>9, <2>10, <2>11 DEF Aligned
  <2> QED
    BY <2>3, <2>6, <2>12 DEF t
<1> QED
  BY <1>6, <1>7 DEF x
-----------------------------------------------------------------------------
(* The inductive invariant.                                                *)

\* Where the messages are, and what RAM accounts for.
Core(p, f, s, disk, marked, ram, fails) ==
    /\ Aligned(p, f, s, disk, marked) /\ marked \subseteq Ids
    /\ ram = BytesOf(f, 1, Len(f)) /\ Len(f) <= RamMaxMessages /\ ram <= RamMaxBytes
    /\ fails \in 0 .. MaxFailures

\* The FIFO is what was accepted and not completed.
History(p, in, out) == in \subseteq Ids /\ out \subseteq Ids /\ in \ out = ToSet(p)

Flags ==
    /\ timer \in BOOLEAN /\ offline \in BOOLEAN /\ backoff \in BOOLEAN
    /\ phase \in {"down", "running", "stopping"} /\ stopEvent \in BOOLEAN
    /\ stranded \in BOOLEAN

Inv ==
    /\ Core(pending, fast, stored, onDisk, tried, ramBytes, failures)
    /\ History(pending, accepted, completed)
    /\ Flags

\* How far a loop of batches got, on a queue of cap messages.
Fits(o, from, cap) ==
    /\ o.done \in from .. cap /\ o.tried \in o.done .. cap /\ o.kept \in o.done .. o.tried
    /\ o.failed \in BOOLEAN
    /\ o.failed => failures < MaxFailures

LEMMA OutcomeFits ==
    ASSUME NEW q, NEW from \in Nat, NEW cap \in Nat, from <= cap, NEW more, cap \notin more,
           NEW o \in Outcomes(q, from, cap, more)
    PROVE  Fits(o, from, cap) /\ (~ o.failed => o.done \notin more)
  BY OutcomeFacts, Zenon DEF Fits

\* The bytes of all, of the first, and of the rest.
LEMMA BytesSplit ==
    ASSUME NEW q \in Seq(Ids), NEW d \in 0 .. Len(q)
    PROVE  LET r == SubSeq(q, d + 1, Len(q))
           IN  /\ BytesOf(q, 1, d) = BytesUpTo(q)[d]
               /\ BytesOf(q, 1, Len(q)) = BytesUpTo(q)[Len(q)]
               /\ BytesOf(r, 1, Len(r)) = BytesOf(q, 1, Len(q)) - BytesOf(q, 1, d)
               /\ BytesOf(q, 1, d) \in Nat /\ BytesOf(q, 1, Len(q)) \in Nat
               /\ BytesOf(r, 1, Len(r)) \in Nat
<1> DEFINE r == SubSeq(q, d + 1, Len(q))
<1>1. /\ r \in Seq(Ids) /\ Len(r) = Len(q) - d /\ Len(q) \in Nat /\ d \in Nat
      /\ Len(q) - d \in 0 .. (Len(q) - d) /\ d + (Len(q) - d) = Len(q) /\ d <= Len(q)
      /\ 0 \in 0 .. Len(q) /\ Len(q) \in 0 .. Len(q)
  BY Suffix, LenProperties
<1>2. BytesUpTo(r)[Len(q) - d] = BytesUpTo(q)[d + (Len(q) - d)] - BytesUpTo(q)[d]
  BY <1>1, BytesSuffix
<1> HIDE DEF r
<1>3. /\ BytesUpTo(q)[0] = 0 /\ BytesUpTo(q)[d] \in Nat /\ BytesUpTo(q)[Len(q)] \in Nat
      /\ BytesUpTo(q)[d] <= BytesUpTo(q)[Len(q)]
  BY <1>1, BytesFacts
<1>4. BytesUpTo(r)[0] = 0
  BY <1>1, BytesFacts
<1>5. BytesUpTo(r)[Len(r)] = BytesUpTo(q)[Len(q)] - BytesUpTo(q)[d]
  BY <1>1, <1>2
<1>6. 1 - 1 = 0
  OBVIOUS
<1>7. /\ BytesOf(q, 1, d) = BytesUpTo(q)[d] - 0
      /\ BytesOf(q, 1, Len(q)) = BytesUpTo(q)[Len(q)] - 0
      /\ BytesOf(r, 1, Len(r)) = BytesUpTo(r)[Len(r)] - 0
  BY <1>3, <1>4, <1>6, Zenon DEF BytesOf
<1> QED
  BY <1>3, <1>5, <1>7 DEF r

\* The spill of an outcome keeps the queue in order, whatever batch failed.
LEMMA SpillCore ==
    ASSUME NEW p, NEW q, NEW ram, NEW o, Aligned(p, q, stored, onDisk, tried), tried \subseteq Ids,
           ram = BytesOf(q, 1, Len(q)), failures \in 0 .. MaxFailures,
           Fits(o, 0, Len(q)), Len(q) - o.done <= RamMaxMessages,
           ram - BytesOf(q, 1, o.done) <= RamMaxBytes, Spill(q, ram, o)
    PROVE  /\ Core(p, fast', stored', onDisk', tried', ramBytes', failures')
           /\ Len(fast') = Len(q) - o.done
<1> DEFINE d == o.done
           w == o.tried
           n == o.kept
           r == SubSeq(q, d + 1, Len(q))
<1>1. q \in Seq(Ids) /\ Len(q) \in Nat
  BY LenProperties DEF Aligned
<1>2. d \in 0 .. Len(q) /\ w \in d .. Len(q) /\ n \in d .. w /\ o.failed \in BOOLEAN
      /\ (o.failed => failures < MaxFailures)
  BY DEF Fits
<1>3. /\ fast' = r /\ ramBytes' = ram - BytesOf(q, 1, d) /\ onDisk' = onDisk \cup First(q, d)
      /\ tried' = tried \cup First(q, w) /\ stored' = StoredAfter(q, n)
      /\ failures' = IF o.failed THEN failures + 1 ELSE failures
  BY DEF Spill
<1>4. Len(q) - d <= RamMaxMessages /\ ram - BytesOf(q, 1, d) <= RamMaxBytes
  OBVIOUS
<1>5. w \in 0 .. Len(q)
  BY <1>1, <1>2
<1>6. failures' \in 0 .. MaxFailures
  BY <1>2, <1>3, FailureAssumption
<1> HIDE DEF d, w, n
<1>7. Aligned(p, fast', stored', onDisk', tried')
  <2>1. Aligned(p, r, StoredAfter(q, n), onDisk \cup First(q, d), tried \cup First(q, w))
    BY <1>2, SpillAligned, Zenon
  <2> QED
    BY <1>3, <2>1, Zenon
<1>8. First(q, w) \subseteq Ids
  <2>1. \A i \in 1 .. w : q[i] \in Ids
    BY <1>1, <1>5, ElementOfSeq
  <2> QED
    BY <1>1, <1>5, <2>1, FirstIs
<1>9. tried' \subseteq Ids
  BY <1>3, <1>8
<1>10. BytesOf(r, 1, Len(r)) = BytesOf(q, 1, Len(q)) - BytesOf(q, 1, d)
  BY <1>1, <1>2, BytesSplit, Zenon
<1>11. Len(r) = Len(q) - d
  BY <1>1, <1>2, Suffix
<1> HIDE DEF r
<1>12. ramBytes' = BytesOf(fast', 1, Len(fast'))
  BY <1>3, <1>10, Zenon
<1>13. Len(fast') <= RamMaxMessages /\ ramBytes' <= RamMaxBytes /\ Len(fast') = Len(q) - d
  BY <1>3, <1>4, <1>11
<1> QED
  BY <1>6, <1>7, <1>9, <1>12, <1>13, Zenon DEF Core, d

\* ... when no message joins.
LEMMA SpillKeeps ==
    ASSUME Core(pending, fast, stored, onDisk, tried, ramBytes, failures), pending' = pending,
           NEW o, Fits(o, 0, Len(fast)), Spill(fast, ramBytes, o)
    PROVE  /\ Core(pending', fast', stored', onDisk', tried', ramBytes', failures')
           /\ Len(fast') = Len(fast) - o.done
<1>1. fast \in Seq(Ids) /\ Len(fast) \in Nat
  BY LenProperties DEF Core, Aligned
<1>2. o.done \in 0 .. Len(fast)
  BY DEF Fits
<1>3. BytesOf(fast, 1, o.done) \in Nat /\ BytesOf(fast, 1, Len(fast)) \in Nat
  BY <1>1, <1>2, BytesSplit, Zenon
<1>4. /\ ramBytes = BytesOf(fast, 1, Len(fast)) /\ Len(fast) <= RamMaxMessages
      /\ ramBytes <= RamMaxBytes /\ tried \subseteq Ids /\ failures \in 0 .. MaxFailures
      /\ Aligned(pending, fast, stored, onDisk, tried)
  BY DEF Core
<1>5. RamMaxMessages \in Nat /\ RamMaxBytes \in Nat
  BY ModeAssumption DEF ValidFastMode
<1>6. ramBytes - BytesOf(fast, 1, o.done) <= RamMaxBytes
  BY <1>3, <1>4, <1>5
<1>7. Len(fast) - o.done <= RamMaxMessages
  BY <1>1, <1>2, <1>4, <1>5
<1>8. /\ Core(pending, fast', stored', onDisk', tried', ramBytes', failures')
      /\ Len(fast') = Len(fast) - o.done
  BY <1>4, <1>6, <1>7, SpillCore, Zenon
<1> QED
  BY <1>8, Zenon
-----------------------------------------------------------------------------
(* Every action keeps it.                                                  *)

LEMMA ScheduleTypes ==
    ASSUME Schedule
    PROVE  timer' \in BOOLEAN /\ stranded' \in BOOLEAN
<1>1. stranded' = FALSE
  BY DEF Schedule
<1>2. timer' = (fast' # <<>> /\ (MaxRamAge \/ (offline' /\ DisconnectGrace) \/ backoff'))
  BY DEF Schedule
<1> QED
  BY <1>1, <1>2, Zenon

LEMMA BackoffTypes ==
    ASSUME backoff \in BOOLEAN, NEW from, NEW o
    PROVE  BackoffAfter(from, o) \in BOOLEAN
  BY Zenon DEF BackoffAfter

LEMMA CoreFacts ==
    ASSUME Core(pending, fast, stored, onDisk, tried, ramBytes, failures)
    PROVE  /\ Aligned(pending, fast, stored, onDisk, tried) /\ tried \subseteq Ids
           /\ pending \in Seq(Ids) /\ fast \in Seq(Ids) /\ stored \in Seq(Ids)
           /\ Len(pending) \in Nat /\ Len(fast) \in Nat /\ Len(stored) \in Nat
           /\ ramBytes = BytesOf(fast, 1, Len(fast)) /\ ramBytes \in Nat
           /\ ramBytes = BytesUpTo(fast)[Len(fast)]
           /\ Len(fast) <= RamMaxMessages /\ ramBytes <= RamMaxBytes
           /\ failures \in 0 .. MaxFailures
<1>1. /\ Aligned(pending, fast, stored, onDisk, tried) /\ tried \subseteq Ids
      /\ ramBytes = BytesOf(fast, 1, Len(fast)) /\ failures \in 0 .. MaxFailures
      /\ Len(fast) <= RamMaxMessages /\ ramBytes <= RamMaxBytes
  BY DEF Core
<1>2. pending \in Seq(Ids) /\ fast \in Seq(Ids) /\ stored \in Seq(Ids)
  BY <1>1 DEF Aligned
<1>3. Len(pending) \in Nat /\ Len(fast) \in Nat /\ Len(stored) \in Nat
  BY <1>2, LenProperties
<1>4. Len(fast) \in 0 .. Len(fast)
  BY <1>3
<1>5. /\ BytesOf(fast, 1, Len(fast)) \in Nat
      /\ BytesOf(fast, 1, Len(fast)) = BytesUpTo(fast)[Len(fast)]
  BY <1>2, <1>4, BytesSplit, Zenon
<1> QED
  BY <1>1, <1>2, <1>3, <1>5

\* The condition of the loop that makes room is false once RAM is empty.
LEMMA RoomInTheEnd ==
    ASSUME Inv, NEW m \in Ids, SizeOf[m] <= RamMaxBytes
    PROVE  ~ NoRoom(m, Len(fast))
<1>1. /\ Len(fast) \in Nat /\ ramBytes \in Nat
      /\ ramBytes = BytesOf(fast, 1, Len(fast)) /\ SizeOf[m] \in Nat
  BY CoreFacts, SizeIsNat DEF Inv
<1>2. RamMaxMessages \in Nat \ {0} /\ RamMaxBytes \in Nat
  BY ModeAssumption DEF ValidFastMode
<1>3. ~ (Len(fast) - Len(fast) + 1 > RamMaxMessages)
  BY <1>1, <1>2
<1>4. ramBytes - BytesOf(fast, 1, Len(fast)) = 0
  BY <1>1
<1>5. ~ (ramBytes - BytesOf(fast, 1, Len(fast)) + SizeOf[m] > RamMaxBytes)
  BY <1>1, <1>2, <1>4
<1> QED
  BY <1>3, <1>5, Zenon DEF NoRoom

\* What a loop of batches leaves of RAM.
LEMMA RoomOutcome ==
    ASSUME Inv, NEW m \in Ids, SizeOf[m] <= RamMaxBytes,
           NEW room \in Outcomes(fast, 0, Len(fast), {j \in 0 .. Len(fast) : NoRoom(m, j)})
    PROVE  /\ Fits(room, 0, Len(fast))
           /\ ~ room.failed => ~ NoRoom(m, room.done)
<1> DEFINE more == {j \in 0 .. Len(fast) : NoRoom(m, j)}
<1>1. Len(fast) \in Nat /\ 0 <= Len(fast) /\ 0 \in Nat
  BY CoreFacts DEF Inv
<1>2. Len(fast) \notin more
  BY RoomInTheEnd, Zenon
<1>3. Fits(room, 0, Len(fast)) /\ (~ room.failed => room.done \notin more)
  <2> HIDE DEF more
  <2>1. room \in Outcomes(fast, 0, Len(fast), more)
    BY DEF more
  <2> QED
    BY <1>1, <1>2, <2>1, OutcomeFits, Zenon
<1>4. room.done \in 0 .. Len(fast)
  BY <1>3, Zenon DEF Fits
<1> QED
  BY <1>3, <1>4, Zenon

LEMMA HighWaterOutcome ==
    ASSUME NEW q, Len(q) \in Nat, NEW ram, NEW from \in Nat, from <= Len(q),
           NEW o \in Outcomes(q, from, Len(q), {j \in 0 .. Len(q) : HighWater(q, ram, j)})
    PROVE  Fits(o, from, Len(q))
<1> DEFINE more == {j \in 0 .. Len(q) : HighWater(q, ram, j)}
<1>1. ~ (Len(q) < Len(q))
  OBVIOUS
<1>2. Len(q) \notin more
  BY <1>1, Zenon DEF HighWater
<1> HIDE DEF more
<1>3. o \in Outcomes(q, from, Len(q), more)
  BY DEF more
<1> QED
  BY <1>2, <1>3, OutcomeFits, Zenon

LEMMA FitsLater ==
    ASSUME NEW o, NEW from \in Nat, NEW cap \in Nat, Fits(o, from, cap)
    PROVE  Fits(o, 0, cap)
<1>1. \A j \in from .. cap : j \in 0 .. cap
  OBVIOUS
<1> QED
  BY <1>1, Zenon DEF Fits

LEMMA JoinHistory ==
    ASSUME NEW p, p \in Seq(Ids), NEW in, NEW out, History(p, in, out), NEW m \in Ids,
           m \notin in \cup out
    PROVE  History(Append(p, m), in \cup {m}, out) /\ m \notin ToSet(p)
<1>1. in \subseteq Ids /\ out \subseteq Ids /\ in \ out = ToSet(p)
  BY DEF History
<1> DEFINE x == Append(p, m)
<1>2. /\ x \in Seq(Ids) /\ Len(x) = Len(p) + 1 /\ x[Len(p) + 1] = m
      /\ \A i \in 1 .. Len(p) : x[i] = p[i]
  BY AppendProperties
<1> HIDE DEF x
<1>3. /\ ToSet(p) = {p[i] : i \in 1 .. Len(p)} /\ Len(p) \in Nat
      /\ ToSet(x) = {x[i] : i \in 1 .. Len(x)}
  BY <1>2, ToSetIs
<1>4. /\ \A i \in 1 .. Len(x) : i \in 1 .. Len(p) \/ i = Len(p) + 1
      /\ \A i \in 1 .. Len(p) : i \in 1 .. Len(x)
      /\ Len(p) + 1 \in 1 .. Len(x)
  BY <1>2, <1>3
<1>5. ToSet(x) = ToSet(p) \cup {m}
  <2>1. ToSet(x) \subseteq ToSet(p) \cup {m}
    BY <1>2, <1>3, <1>4
  <2>2. ToSet(p) \cup {m} \subseteq ToSet(x)
    BY <1>2, <1>3, <1>4
  <2> QED
    BY <2>1, <2>2
<1>6. m \notin ToSet(p) /\ (in \cup {m}) \ out = ToSet(p) \cup {m}
  BY <1>1
<1> QED
  BY <1>1, <1>5, <1>6 DEF History, x

\* A message joins: first the room for it, then the high-water mark.
LEMMA PublishFastKeeps ==
    ASSUME Inv, NEW m \in Ids, PublishFast(m)
    PROVE  Inv'
<1> DEFINE q == Append(fast, m)
           p == Append(pending, m)
           ram == ramBytes + SizeOf[m]
<1>1. m \notin accepted \cup completed /\ SizeOf[m] <= RamMaxBytes
  BY Zenon DEF PublishFast
<1>2. PICK room \in Outcomes(fast, 0, Len(fast), {j \in 0 .. Len(fast) : NoRoom(m, j)}) :
         /\ ~ room.failed
         /\ \E o \in Outcomes(q, room.done, Len(q), {j \in 0 .. Len(q) : HighWater(q, ram, j)}) :
               Spill(q, ram, o) /\ backoff' = (o.failed \/ BackoffAfter(0, o))
  BY Zenon DEF PublishFast
<1>3. PICK o \in Outcomes(q, room.done, Len(q), {j \in 0 .. Len(q) : HighWater(q, ram, j)}) :
         Spill(q, ram, o) /\ backoff' = (o.failed \/ BackoffAfter(0, o))
  BY <1>2, Zenon
<1>4. /\ pending' = p /\ accepted' = accepted \cup {m} /\ completed' = completed
      /\ offline' = offline /\ phase' = phase /\ stopEvent' = stopEvent /\ Schedule
  BY Zenon DEF PublishFast, life
<1>5. /\ Aligned(pending, fast, stored, onDisk, tried) /\ tried \subseteq Ids
      /\ pending \in Seq(Ids) /\ fast \in Seq(Ids) /\ Len(fast) \in Nat
      /\ ramBytes = BytesUpTo(fast)[Len(fast)] /\ ramBytes \in Nat
      /\ failures \in 0 .. MaxFailures /\ ramBytes = BytesOf(fast, 1, Len(fast))
  BY CoreFacts, Zenon DEF Inv
<1>6. History(pending, accepted, completed) /\ Flags
  BY Zenon DEF Inv
<1>7. History(p, accepted \cup {m}, completed) /\ m \notin ToSet(pending)
  BY <1>1, <1>5, <1>6, JoinHistory, Zenon
<1>8. Aligned(p, q, stored, onDisk, tried)
  BY <1>5, <1>7, JoinAligned, Zenon
<1>9. q \in Seq(Ids) /\ Len(q) = Len(fast) + 1
  BY <1>5, AppendProperties
<1>10. Fits(room, 0, Len(fast)) /\ ~ NoRoom(m, room.done)
  BY <1>1, <1>2, RoomOutcome, Zenon
<1> DEFINE d == room.done
           e == o.done
<1>11. d \in 0 .. Len(fast)
  BY <1>10, Zenon DEF Fits
<1>12. d \in Nat /\ d <= Len(q) /\ Len(q) \in Nat /\ d \in 0 .. Len(q)
  BY <1>5, <1>9, <1>11
<1>13. Fits(o, d, Len(q))
  <2> HIDE DEF q
  <2> QED
    BY <1>3, <1>12, HighWaterOutcome, Zenon
<1>14. Fits(o, 0, Len(q)) /\ e \in d .. Len(q)
  <2>1. e \in d .. Len(q)
    BY <1>13, Zenon DEF Fits
  <2> QED
    BY <1>12, <1>13, <2>1, FitsLater, Zenon
<1>15. e \in Nat /\ d <= e /\ e <= Len(q) /\ e \in 0 .. Len(q)
  BY <1>12, <1>14
<1>16. /\ Len(fast) - d + 1 <= RamMaxMessages
       /\ ramBytes - BytesOf(fast, 1, d) + SizeOf[m] <= RamMaxBytes
  <2>1. /\ ~ (Len(fast) - d + 1 > RamMaxMessages)
        /\ ~ (ramBytes - BytesOf(fast, 1, d) + SizeOf[m] > RamMaxBytes)
    BY <1>10, Zenon DEF NoRoom
  <2>2. BytesOf(fast, 1, d) \in Nat
    BY <1>5, <1>11, BytesSplit, Zenon
  <2>3. RamMaxMessages \in Nat /\ RamMaxBytes \in Nat /\ SizeOf[m] \in Nat
    BY ModeAssumption, SizeIsNat DEF ValidFastMode
  <2>4. ASSUME NEW x \in Int, NEW y \in Nat, ~ (x > y)
        PROVE  x <= y
    BY <2>4
  <2>5. Len(fast) - d + 1 \in Int
    BY <1>5, <1>12
  <2>6. ramBytes - BytesOf(fast, 1, d) + SizeOf[m] \in Int
    BY <1>5, <2>2, <2>3
  <2> QED
    BY <2>1, <2>3, <2>4, <2>5, <2>6, Zenon
<1>17. /\ BytesUpTo(q)[d] = BytesUpTo(fast)[d]
       /\ BytesUpTo(q)[Len(fast) + 1] = BytesUpTo(fast)[Len(fast)] + SizeOf[m]
  BY <1>5, <1>11, BytesAppend
<1>18. BytesOf(fast, 1, d) = BytesUpTo(fast)[d] /\ BytesOf(fast, 1, d) \in Nat
  BY <1>5, <1>11, BytesSplit, Zenon
<1>19. /\ BytesOf(q, 1, e) = BytesUpTo(q)[e] /\ BytesOf(q, 1, e) \in Nat
       /\ BytesOf(q, 1, Len(q)) = BytesUpTo(q)[Len(q)]
  BY <1>9, <1>15, BytesSplit, Zenon
<1>20. BytesUpTo(q)[d] <= BytesUpTo(q)[e]
  BY <1>9, <1>12, <1>15, BytesFacts
<1>21. SizeOf[m] \in Nat /\ RamMaxMessages \in Nat /\ RamMaxBytes \in Nat
  BY ModeAssumption, SizeIsNat DEF ValidFastMode
<1>22. Spill(q, ram, o)
  BY <1>3
<1> HIDE DEF q, p, d, e
<1>23. ram = BytesOf(q, 1, Len(q))
  BY <1>5, <1>9, <1>17, <1>19
<1>24. Len(q) - e <= RamMaxMessages
  <2>1. ASSUME NEW x \in Nat, NEW y \in Nat, NEW z \in Nat, NEW M \in Nat,
               x - y + 1 <= M, y <= z
        PROVE  (x + 1) - z <= M
    BY <2>1
  <2> QED
    BY <1>5, <1>9, <1>12, <1>15, <1>16, <1>21, <2>1, Zenon
<1>25. ram - BytesOf(q, 1, e) <= RamMaxBytes
  <2>1. ASSUME NEW x \in Nat, NEW y \in Nat, NEW z \in Nat, NEW k \in Nat, NEW M \in Nat,
               x - y + k <= M, y <= z
        PROVE  (x + k) - z <= M
    BY <2>1
  <2>2. BytesOf(fast, 1, d) <= BytesOf(q, 1, e)
    BY <1>17, <1>18, <1>19, <1>20, Zenon
  <2> QED
    BY <1>5, <1>16, <1>18, <1>19, <1>21, <2>1, <2>2, Zenon
<1> HIDE DEF ram
<1>26. Core(p, fast', stored', onDisk', tried', ramBytes', failures')
  BY <1>5, <1>8, <1>14, <1>22, <1>23, <1>24, <1>25, SpillCore, Zenon DEF e
<1>27. Flags'
  <2>1. backoff' \in BOOLEAN
    <3>1. backoff' = (o.failed \/ BackoffAfter(0, o))
      BY <1>3
    <3> QED
      BY <3>1, Zenon
  <2> QED
    BY <1>4, <1>6, <2>1, ScheduleTypes, Zenon DEF Flags
<1> QED
  BY <1>4, <1>7, <1>26, <1>27, Zenon DEF Inv

LEMMA PublishFullKeeps ==
    ASSUME Inv, NEW m \in Ids, PublishFull(m)
    PROVE  Inv'
<1>1. SizeOf[m] <= RamMaxBytes
  BY Zenon DEF PublishFull
<1>2. PICK room \in Outcomes(fast, 0, Len(fast), {j \in 0 .. Len(fast) : NoRoom(m, j)}) :
         Spill(fast, ramBytes, room) /\ backoff' = BackoffAfter(0, room)
  BY Zenon DEF PublishFull
<1>3. UNCHANGED <<pending, timer, offline, phase, stopEvent, accepted, completed, stranded>>
  BY Zenon DEF PublishFull, life
<1>4. Fits(room, 0, Len(fast))
  BY <1>1, RoomOutcome, Zenon
<1>5. /\ Core(pending, fast, stored, onDisk, tried, ramBytes, failures)
      /\ History(pending, accepted, completed) /\ Flags
  BY Zenon DEF Inv
<1>6. Core(pending', fast', stored', onDisk', tried', ramBytes', failures')
  BY <1>2, <1>3, <1>4, <1>5, SpillKeeps, Zenon
<1>7. Flags'
  <2>1. backoff' \in BOOLEAN
    BY <1>2, <1>5, BackoffTypes, Zenon DEF Flags
  <2> QED
    BY <1>3, <1>5, <2>1, Zenon DEF Flags
<1> QED
  BY <1>3, <1>5, <1>6, <1>7, Zenon DEF Inv

\* "while there is one more: spill a batch" over the first cap messages.
LEMMA UpToCapFits ==
    ASSUME NEW q, NEW cap \in Nat, Len(q) \in Nat, cap <= Len(q),
           NEW o \in Outcomes(q, 0, cap, 0 .. (cap - 1))
    PROVE  Fits(o, 0, Len(q)) /\ o.done \in Nat /\ o.done <= Len(q)
<1>1. 0 <= cap /\ 0 \in Nat /\ cap \notin 0 .. (cap - 1)
  OBVIOUS
<1> DEFINE more == 0 .. (cap - 1)
<1>2. Fits(o, 0, cap)
  <2> HIDE DEF more
  <2>1. o \in Outcomes(q, 0, cap, more)
    BY DEF more
  <2>2. cap \notin more
    BY <1>1 DEF more
  <2> QED
    BY <1>1, <2>1, <2>2, OutcomeFits, Zenon
<1>3. \A j \in 0 .. cap : j \in Nat /\ j <= Len(q) /\ j \in 0 .. Len(q)
  OBVIOUS
<1>4. o.done \in 0 .. cap
  BY <1>2, Zenon DEF Fits
<1>5. \A d \in 0 .. cap : \A w \in d .. cap : w \in d .. Len(q)
  OBVIOUS
<1> QED
  BY <1>2, <1>3, <1>4, <1>5, Zenon DEF Fits

LEMMA MaintenanceKeeps ==
    ASSUME Inv, NEW aged \in Aged, NEW disconnected, RunMaintenance(aged, disconnected)
    PROVE  Inv'
<1>1. /\ Core(pending, fast, stored, onDisk, tried, ramBytes, failures)
      /\ History(pending, accepted, completed) /\ Flags
  BY Zenon DEF Inv
<1>2. UNCHANGED <<pending, offline, phase, stopEvent, accepted, completed>> /\ Schedule
  BY Zenon DEF RunMaintenance, life
<1>3. Len(fast) \in Nat
  BY <1>1, CoreFacts, Zenon
<1>4. /\ Core(pending', fast', stored', onDisk', tried', ramBytes', failures')
      /\ backoff' \in BOOLEAN
  <2>1. CASE backoff \/ fast = <<>>
    <3>1. UNCHANGED <<fast, ramBytes, onDisk, tried, stored, failures, backoff>>
      BY <2>1, Zenon DEF RunMaintenance
    <3> QED
      BY <1>1, <1>2, <3>1, Zenon DEF Flags
  <2>2. CASE SpillDisconnected
    <3>1. PICK o \in Outcomes(fast, 0, Len(fast), 0 .. (Len(fast) - 1)) :
             Spill(fast, ramBytes, o) /\ backoff' = o.failed
      BY <2>2, Zenon DEF SpillDisconnected
    <3>2. Len(fast) <= Len(fast)
      BY <1>3
    <3>3. Fits(o, 0, Len(fast))
      BY <1>3, <3>1, <3>2, UpToCapFits, Zenon
    <3>4. Core(pending', fast', stored', onDisk', tried', ramBytes', failures')
      BY <1>1, <1>2, <3>1, <3>3, SpillKeeps, Zenon
    <3> QED
      BY <3>1, <3>3, <3>4, Zenon DEF Fits
  <2>3. CASE SpillAged(aged)
    <3>1. PICK o \in Outcomes(fast, 0, aged, 0 .. (aged - 1)) :
             IF o.failed
             THEN Spill(fast, ramBytes, o) /\ backoff' = TRUE
             ELSE \E p \in Outcomes(fast, o.done, Len(fast),
                                    {j \in 0 .. Len(fast) : HighWater(fast, ramBytes, j)}) :
                     Spill(fast, ramBytes, p) /\ backoff' = p.failed
      BY <2>3, Zenon DEF SpillAged
    <3>2. aged \in Nat /\ aged <= Len(fast)
      <4>1. CASE MaxRamAge
        BY <1>3, <4>1 DEF Aged
      <4>2. CASE ~ MaxRamAge
        BY <1>3, <4>2 DEF Aged
      <4> QED
        BY <4>1, <4>2
    <3>3. Fits(o, 0, Len(fast)) /\ o.done \in Nat /\ o.done <= Len(fast)
      BY <1>3, <3>1, <3>2, UpToCapFits, Zenon
    <3>4. CASE o.failed
      <4>1. Spill(fast, ramBytes, o) /\ backoff' = TRUE
        BY <3>1, <3>4, Zenon
      <4>2. Core(pending', fast', stored', onDisk', tried', ramBytes', failures')
        BY <1>1, <1>2, <3>3, <4>1, SpillKeeps, Zenon
      <4> QED
        BY <4>1, <4>2, Zenon
    <3>5. CASE ~ o.failed
      <4>1. PICK p \in Outcomes(fast, o.done, Len(fast),
                                {j \in 0 .. Len(fast) : HighWater(fast, ramBytes, j)}) :
                Spill(fast, ramBytes, p) /\ backoff' = p.failed
        BY <3>1, <3>5, Zenon
      <4>2. Fits(p, o.done, Len(fast))
        BY <1>3, <3>3, <4>1, HighWaterOutcome, Zenon
      <4>3. Fits(p, 0, Len(fast))
        BY <1>3, <3>3, <4>2, FitsLater, Zenon
      <4>4. Core(pending', fast', stored', onDisk', tried', ramBytes', failures')
        BY <1>1, <1>2, <4>1, <4>3, SpillKeeps, Zenon
      <4> QED
        BY <4>1, <4>3, <4>4, Zenon DEF Fits
    <3> QED
      BY <3>4, <3>5, Zenon
  <2> QED
    BY <2>1, <2>2, <2>3, Zenon DEF RunMaintenance
<1>5. Flags'
  BY <1>1, <1>2, <1>4, ScheduleTypes, Zenon DEF Flags
<1> QED
  BY <1>1, <1>2, <1>4, <1>5, Zenon DEF Inv

\* While the head is not on disk it is the head of RAM.
LEMMA HeadInRam ==
    ASSUME Core(pending, fast, stored, onDisk, tried, ramBytes, failures), pending # <<>>
    PROVE  /\ Head(pending) \notin onDisk => Len(fast) = Len(pending) /\ 0 < Len(fast)
           /\ Head(pending) \in onDisk => Len(fast) < Len(pending)
           /\ Head(pending) \notin onDisk \cup tried => stored = <<>>
<1> DEFINE b == Len(pending) - Len(fast)
<1>1. /\ pending \in Seq(Ids) /\ fast \in Seq(Ids) /\ stored \in Seq(Ids)
      /\ Len(fast) <= Len(pending) /\ onDisk = {pending[i] : i \in 1 .. b}
      /\ \A i \in (b + 1) .. Len(stored) : pending[i] \in tried
      /\ Len(pending) \in Nat /\ Len(fast) \in Nat /\ Len(stored) \in Nat
  BY LenProperties DEF Core, Aligned
<1>2. Len(pending) > 0 /\ Head(pending) = pending[1]
  BY <1>1, HeadTailProperties, EmptySeq
<1>3. ASSUME Head(pending) \notin onDisk
      PROVE  b = 0
  <2>1. ~ (1 \in 1 .. b)
    BY <1>1, <1>2, <1>3
  <2> QED
    BY <1>1, <2>1
<1>4. ASSUME Head(pending) \in onDisk
      PROVE  Len(fast) < Len(pending)
  <2>1. PICK i \in 1 .. b : TRUE
    BY <1>1, <1>4
  <2> QED
    BY <1>1, <2>1
<1>5. ASSUME Head(pending) \notin onDisk \cup tried
      PROVE  stored = <<>>
  <2>1. b = 0
    BY <1>3, <1>5
  <2>2. ~ (1 \in (b + 1) .. Len(stored))
    BY <1>1, <1>2, <1>5
  <2>3. Len(stored) = 0
    BY <1>1, <2>1, <2>2
  <2> QED
    BY <1>1, <2>3, EmptySeq
<1>6. ASSUME Head(pending) \notin onDisk
      PROVE  Len(fast) = Len(pending) /\ 0 < Len(fast)
  BY <1>1, <1>2, <1>3, <1>6
<1> QED
  BY <1>4, <1>5, <1>6

\* The batch at the head of RAM.
LEMMA OneBatchFits ==
    ASSUME Core(pending, fast, stored, onDisk, tried, ramBytes, failures), pending # <<>>,
           Head(pending) \notin onDisk, NEW o \in OneBatch
    PROVE  /\ o = [done |-> o.done, tried |-> o.tried, kept |-> o.kept, failed |-> o.failed]
           /\ Fits(o, 0, Len(fast))
           /\ ~ o.failed => o.kept = o.done /\ o.tried = o.done /\ Len(fast) - o.done < Len(pending)
<1> DEFINE cap == BatchEnd(fast, 0, Len(fast))
           more == {0}
<1>1. Len(fast) \in Nat /\ Len(fast) = Len(pending) /\ 0 < Len(fast)
  BY CoreFacts, HeadInRam, Zenon
<1>2. cap \in (0 + 1) .. Len(fast)
  BY <1>1, BatchFacts
<1>3. o \in Outcomes(fast, 0, cap, more)
  BY Zenon DEF OneBatch
<1> HIDE DEF cap
<1>4. cap \in Nat /\ cap \notin more /\ 0 <= cap /\ 0 \in Nat /\ cap <= Len(fast)
  BY <1>1, <1>2
<1> HIDE DEF more
<1>5. o = [done |-> o.done, tried |-> o.tried, kept |-> o.kept, failed |-> o.failed]
  BY <1>3, <1>4, OutcomeFacts
<1>6. Fits(o, 0, cap) /\ (~ o.failed => o.done \notin more)
  BY <1>3, <1>4, OutcomeFits, Zenon
<1>7. ~ o.failed => o.tried = o.done /\ o.kept = o.done
  BY <1>3, <1>4, OutcomeFacts
<1>8. /\ \A j \in 0 .. cap : j \in Nat /\ j \in 0 .. Len(fast)
      /\ \A d \in 0 .. cap : \A w \in d .. cap : w \in d .. Len(fast)
      /\ \A j \in 0 .. cap : j \notin more => Len(fast) - j < Len(pending)
  BY <1>1, <1>4 DEF more
<1> QED
  BY <1>5, <1>6, <1>7, <1>8, Zenon DEF Fits

LEMMA PromoteKeeps ==
    ASSUME Inv, Promote
    PROVE  Inv'
<1>1. /\ Core(pending, fast, stored, onDisk, tried, ramBytes, failures)
      /\ History(pending, accepted, completed) /\ Flags
  BY Zenon DEF Inv
<1>2. pending # <<>> /\ Head(pending) \notin onDisk
  BY Zenon DEF Promote
<1>3. UNCHANGED <<pending, offline, phase, stopEvent, accepted, completed>>
  BY Zenon DEF Promote, life
<1>4. PICK o \in OneBatch :
         /\ Spill(fast, ramBytes, o) /\ backoff' = BackoffAfter(0, o)
         /\ IF o.failed THEN UNCHANGED <<timer, stranded>> ELSE Schedule
  BY Zenon DEF Promote
<1>5. Fits(o, 0, Len(fast))
  BY <1>1, <1>2, OneBatchFits, Zenon
<1>6. Core(pending', fast', stored', onDisk', tried', ramBytes', failures')
  BY <1>1, <1>3, <1>4, <1>5, SpillKeeps, Zenon
<1>7. timer' \in BOOLEAN /\ stranded' \in BOOLEAN
  BY <1>1, <1>4, ScheduleTypes, Zenon DEF Flags
<1>8. backoff' \in BOOLEAN
  BY <1>1, <1>4, BackoffTypes, Zenon DEF Flags
<1>9. Flags'
  BY <1>1, <1>3, <1>7, <1>8, Zenon DEF Flags
<1> QED
  BY <1>1, <1>3, <1>6, <1>9, Zenon DEF Inv

LEMMA LeaveHistory ==
    ASSUME NEW p, p \in Seq(Ids), p # <<>>, \A i, j \in 1 .. Len(p) : p[i] = p[j] => i = j,
           NEW in, NEW out, History(p, in, out)
    PROVE  History(Tail(p), in, out \cup {Head(p)})
<1> DEFINE x == Tail(p)
<1>1. in \subseteq Ids /\ out \subseteq Ids /\ in \ out = ToSet(p)
  BY DEF History
<1>2. /\ x \in Seq(Ids) /\ Len(x) = Len(p) - 1 /\ Head(p) = p[1] /\ Head(p) \in Ids
      /\ \A i \in 1 .. Len(x) : x[i] = p[i + 1]
  BY HeadTailProperties
<1> HIDE DEF x
<1>3. /\ ToSet(p) = {p[i] : i \in 1 .. Len(p)} /\ Len(p) \in Nat
      /\ ToSet(x) = {x[i] : i \in 1 .. Len(x)}
  BY <1>2, ToSetIs
<1>4. \A i \in 1 .. Len(x) : i + 1 \in 1 .. Len(p) /\ 1 \in 1 .. Len(p) /\ i + 1 # 1
  BY <1>2, <1>3
<1>5. ToSet(x) \subseteq ToSet(p) \ {Head(p)}
  <2>1. \A k \in 1 .. Len(x) : p[k + 1] # p[1]
    BY <1>4
  <2>2. \A y \in ToSet(x) : \E k \in 1 .. Len(x) : y = x[k]
    BY <1>3
  <2>3. \A k \in 1 .. Len(x) : x[k] \in ToSet(p) /\ x[k] # Head(p)
    BY <1>2, <1>3, <1>4, <2>1
  <2> QED
    BY <2>2, <2>3
<1>6. ToSet(p) \ {Head(p)} \subseteq ToSet(x)
  <2> SUFFICES ASSUME NEW y \in ToSet(p) \ {Head(p)}
               PROVE  y \in ToSet(x)
    OBVIOUS
  <2>1. PICK i \in 1 .. Len(p) : y = p[i]
    BY <1>3
  <2>2. i # 1
    BY <1>2, <2>1
  <2>3. i - 1 \in 1 .. Len(x) /\ (i - 1) + 1 = i
    BY <1>2, <1>3, <2>2
  <2> QED
    BY <1>2, <1>3, <2>1, <2>3
<1>7. in \ (out \cup {Head(p)}) = ToSet(p) \ {Head(p)}
  BY <1>1
<1>8. ToSet(x) = ToSet(p) \ {Head(p)}
  BY <1>5, <1>6
<1> QED
  BY <1>1, <1>2, <1>7, <1>8 DEF History, x

LEMMA ForgetKeeps ==
    ASSUME Inv, pending # <<>>, Forget, backoff' \in BOOLEAN
    PROVE  History(pending', accepted', completed') /\ Flags'
<1>1. /\ Core(pending, fast, stored, onDisk, tried, ramBytes, failures)
      /\ History(pending, accepted, completed) /\ Flags
  BY Zenon DEF Inv
<1>2. /\ pending' = Tail(pending) /\ completed' = completed \cup {Head(pending)}
      /\ UNCHANGED <<offline, phase, stopEvent, accepted>> /\ Schedule
  BY Zenon DEF Forget, life
<1>3. /\ pending \in Seq(Ids)
      /\ \A i, j \in 1 .. Len(pending) : pending[i] = pending[j] => i = j
  BY <1>1, Zenon DEF Core, Aligned
<1>4. History(Tail(pending), accepted, completed \cup {Head(pending)})
  BY <1>1, <1>3, LeaveHistory, Zenon
<1>5. Flags'
  BY <1>1, <1>2, ScheduleTypes, Zenon DEF Flags
<1> QED
  BY <1>2, <1>4, <1>5, Zenon

LEMMA CompleteInRamKeeps ==
    ASSUME Inv, CompleteInRam
    PROVE  Inv'
<1>1. /\ Core(pending, fast, stored, onDisk, tried, ramBytes, failures) /\ Flags
  BY Zenon DEF Inv
<1>2. pending # <<>> /\ Head(pending) \notin onDisk \cup tried /\ Forget
  BY Zenon DEF CompleteInRam, MayComplete
<1>3. /\ fast' = IF fast # <<>> /\ Head(fast) = Head(pending) THEN Tail(fast)
                 ELSE SelectSeq(fast, LAMBDA m : m # Head(pending))
      /\ ramBytes' = ramBytes - SizeOf[Head(pending)]
      /\ UNCHANGED <<onDisk, tried, stored, backoff, failures>>
  BY Zenon DEF CompleteInRam
<1>4. stored = <<>>
  BY <1>1, <1>2, HeadInRam, Zenon
<1>5. /\ Aligned(pending, fast, stored, onDisk, tried) /\ tried \subseteq Ids
      /\ fast \in Seq(Ids) /\ Len(fast) \in Nat /\ ramBytes \in Nat
      /\ ramBytes = BytesOf(fast, 1, Len(fast)) /\ failures \in 0 .. MaxFailures
      /\ Len(fast) <= RamMaxMessages /\ ramBytes <= RamMaxBytes
  BY <1>1, CoreFacts, Zenon
<1>6. /\ fast # <<>> /\ Head(fast) = Head(pending)
      /\ Aligned(Tail(pending), Tail(fast), stored, onDisk, tried)
  BY <1>2, <1>4, <1>5, HeadLeaves, Zenon
<1>7. fast' = Tail(fast)
  BY <1>3, <1>6, Zenon
<1>8. pending' = Tail(pending)
  BY <1>2, Zenon DEF Forget
<1>9. /\ Tail(fast) = SubSeq(fast, 2, Len(fast)) /\ Head(fast) = fast[1]
      /\ Len(Tail(fast)) = Len(fast) - 1 /\ Len(fast) > 0 /\ Head(fast) \in Ids
  BY <1>5, <1>6, TailIsSubSeq, HeadTailProperties, EmptySeq
<1>10. 1 \in 0 .. Len(fast) /\ 1 \in 1 .. Len(fast) /\ 1 + 1 = 2 /\ 1 - 1 = 0
  BY <1>5, <1>9
<1> DEFINE r == SubSeq(fast, 1 + 1, Len(fast))
<1>11. /\ BytesOf(r, 1, Len(r)) = BytesOf(fast, 1, Len(fast)) - BytesOf(fast, 1, 1)
       /\ BytesOf(fast, 1, 1) = BytesUpTo(fast)[1] /\ BytesOf(r, 1, Len(r)) \in Nat
  BY <1>5, <1>10, BytesSplit, Zenon
<1>12. BytesUpTo(fast)[0] = 0 /\ BytesUpTo(fast)[1] = BytesUpTo(fast)[1 - 1] + SizeOf[fast[1]]
  BY <1>5, <1>10, BytesFacts
<1>13. r = fast'
  BY <1>7, <1>9, <1>10, Zenon
<1> HIDE DEF r
<1>14. SizeOf[fast[1]] \in Nat
  BY <1>9, SizeIsNat
<1>15. BytesOf(fast, 1, 1) = SizeOf[fast[1]]
  BY <1>10, <1>11, <1>12, <1>14
<1>16. ramBytes' = BytesOf(r, 1, Len(r))
  BY <1>3, <1>5, <1>6, <1>9, <1>11, <1>15, Zenon
<1>17. ramBytes' <= RamMaxBytes /\ Len(r) <= RamMaxMessages
  <2>1. RamMaxMessages \in Nat /\ RamMaxBytes \in Nat
    BY ModeAssumption DEF ValidFastMode
  <2>2. Len(r) = Len(fast) - 1
    BY <1>7, <1>9, <1>13, Zenon
  <2>3. Len(r) <= RamMaxMessages
    BY <1>5, <2>1, <2>2
  <2>4. BytesOf(r, 1, Len(r)) <= RamMaxBytes
    BY <1>5, <1>11, <1>14, <1>15, <2>1
  <2> QED
    BY <1>16, <2>3, <2>4, Zenon
<1>18. Aligned(pending', fast', stored', onDisk', tried') /\ tried' \subseteq Ids
  BY <1>3, <1>5, <1>6, <1>7, <1>8, Zenon
<1>19. Core(pending', fast', stored', onDisk', tried', ramBytes', failures')
  BY <1>3, <1>5, <1>13, <1>16, <1>17, <1>18, Zenon DEF Core
<1>20. backoff' \in BOOLEAN
  BY <1>1, <1>3, Zenon DEF Flags
<1> QED
  BY <1>2, <1>19, <1>20, ForgetKeeps, Zenon DEF Inv

\* The head is on disk once it has been reconciled.
LEMMA ReconcileFits ==
    ASSUME Core(pending, fast, stored, onDisk, tried, ramBytes, failures), pending # <<>>,
           NEW o \in Reconcile
    PROVE  /\ o = [done |-> o.done, tried |-> o.tried, kept |-> o.kept, failed |-> o.failed]
           /\ Fits(o, 0, Len(fast))
           /\ ~ o.failed => o.kept = o.done /\ o.tried = o.done /\ Len(fast) - o.done < Len(pending)
<1>1. CASE Head(pending) \notin onDisk
  <2>1. o \in OneBatch
    BY <1>1, Zenon DEF Reconcile
  <2> QED
    BY <1>1, <2>1, OneBatchFits, Zenon
<1>2. CASE Head(pending) \in onDisk
  <2>1. o = [done |-> 0, tried |-> 0, kept |-> 0, failed |-> FALSE]
    BY <1>2, Zenon DEF Reconcile
  <2>2. o.done = 0 /\ o.tried = 0 /\ o.kept = 0 /\ o.failed = FALSE
    BY <2>1
  <2>3. Len(fast) \in Nat /\ Len(fast) < Len(pending) /\ Len(pending) \in Nat
    BY <1>2, CoreFacts, HeadInRam, Zenon
  <2>4. 0 \in 0 .. Len(fast) /\ 0 \in 0 .. 0 /\ Len(fast) - 0 < Len(pending)
    BY <2>3
  <2>5. Fits(o, 0, Len(fast))
    BY <2>2, <2>4, Zenon DEF Fits
  <2> QED
    BY <2>1, <2>2, <2>4, <2>5, Zenon
<1> QED
  BY <1>1, <1>2, Zenon

LEMMA CompletionFailsKeeps ==
    ASSUME Inv, CompletionFails
    PROVE  Inv'
<1>1. /\ Core(pending, fast, stored, onDisk, tried, ramBytes, failures)
      /\ History(pending, accepted, completed) /\ Flags
  BY Zenon DEF Inv
<1>2. pending # <<>> /\ failures < MaxFailures
  BY Zenon DEF CompletionFails, MayComplete
<1>3. UNCHANGED <<pending, timer, offline, phase, stopEvent, accepted, completed, stranded>>
  BY Zenon DEF CompletionFails, life
<1>4. PICK o \in Reconcile : /\ Spill(fast, ramBytes, [o EXCEPT !.failed = TRUE])
                             /\ backoff' = BackoffAfter(0, o)
  BY Zenon DEF CompletionFails
<1> DEFINE f == [o EXCEPT !.failed = TRUE]
<1>5. /\ o = [done |-> o.done, tried |-> o.tried, kept |-> o.kept, failed |-> o.failed]
      /\ Fits(o, 0, Len(fast))
  BY <1>1, <1>2, ReconcileFits, Zenon
<1>6. f.done = o.done /\ f.tried = o.tried /\ f.kept = o.kept /\ f.failed = TRUE
  BY <1>5
<1>7. Spill(fast, ramBytes, f)
  BY <1>4
<1> HIDE DEF f
<1>8. Fits(f, 0, Len(fast))
  BY <1>2, <1>5, <1>6, Zenon DEF Fits
<1>9. Core(pending', fast', stored', onDisk', tried', ramBytes', failures')
  BY <1>1, <1>3, <1>7, <1>8, SpillKeeps, Zenon
<1>10. backoff' \in BOOLEAN
  BY <1>1, <1>4, BackoffTypes, Zenon DEF Flags
<1>11. Flags'
  BY <1>1, <1>3, <1>10, Zenon DEF Flags
<1> QED
  BY <1>1, <1>3, <1>9, <1>11, Zenon DEF Inv

LEMMA CompleteOnDiskKeeps ==
    ASSUME Inv, CompleteOnDisk
    PROVE  Inv'
<1>1. Core(pending, fast, stored, onDisk, tried, ramBytes, failures) /\ Flags
  BY Zenon DEF Inv
<1>2. pending # <<>> /\ Forget /\ failures' = failures
  BY Zenon DEF CompleteOnDisk, MayComplete
<1>3. PICK o \in Reconcile :
         /\ ~ o.failed
         /\ fast' = SubSeq(fast, o.done + 1, Len(fast))
         /\ ramBytes' = ramBytes - BytesOf(fast, 1, o.done)
         /\ stored' = Tail(StoredAfter(fast, o.kept))
         /\ onDisk' = (onDisk \cup First(fast, o.done)) \ {Head(pending)}
         /\ tried' = (tried \cup First(fast, o.done)) \ {Head(pending)}
         /\ backoff' = BackoffAfter(0, o)
  BY Zenon DEF CompleteOnDisk
<1>4. /\ Fits(o, 0, Len(fast)) /\ o.kept = o.done /\ Len(fast) - o.done < Len(pending)
  BY <1>1, <1>2, <1>3, ReconcileFits, Zenon
<1>5. /\ Aligned(pending, fast, stored, onDisk, tried) /\ tried \subseteq Ids
      /\ fast \in Seq(Ids) /\ Len(fast) \in Nat /\ ramBytes \in Nat
      /\ ramBytes = BytesOf(fast, 1, Len(fast)) /\ failures \in 0 .. MaxFailures
      /\ Len(fast) <= RamMaxMessages /\ ramBytes <= RamMaxBytes
  BY <1>1, CoreFacts, Zenon
<1> DEFINE d == o.done
           f == SubSeq(fast, d + 1, Len(fast))
           s == StoredAfter(fast, d)
           disk == onDisk \cup First(fast, d)
           marked == tried \cup First(fast, d)
<1>6. d \in 0 .. Len(fast)
  BY <1>4, Zenon DEF Fits
<1>7. d \in Nat /\ d \in d .. Len(fast) /\ d \in d .. d
  BY <1>5, <1>6
<1>8. Aligned(pending, f, s, disk, marked)
  <2> HIDE DEF d
  <2> QED
    BY <1>5, <1>6, <1>7, SpillAligned, Zenon
<1>9. Len(f) = Len(fast) - d
  BY <1>5, <1>6, Suffix
<1>10. /\ BytesOf(f, 1, Len(f)) = BytesOf(fast, 1, Len(fast)) - BytesOf(fast, 1, d)
       /\ BytesOf(fast, 1, d) \in Nat /\ BytesOf(f, 1, Len(f)) \in Nat
  BY <1>5, <1>6, BytesSplit, Zenon
<1>11. First(fast, d) \subseteq Ids
  <2>1. \A i \in 1 .. d : fast[i] \in Ids
    BY <1>5, <1>6, ElementOfSeq
  <2> QED
    BY <1>5, <1>6, <2>1, FirstIs
<1>12. /\ fast' = f /\ ramBytes' = ramBytes - BytesOf(fast, 1, d) /\ stored' = Tail(s)
       /\ onDisk' = disk \ {Head(pending)} /\ tried' = marked \ {Head(pending)}
  BY <1>3, <1>4, Zenon
<1>13. Len(fast) - d < Len(pending) /\ marked \subseteq Ids
  BY <1>4, <1>5, <1>11
<1> HIDE DEF d, f, s, disk, marked
<1>14. Aligned(Tail(pending), f, Tail(s), disk \ {Head(pending)}, marked \ {Head(pending)})
  <2>1. Len(f) < Len(pending)
    BY <1>9, <1>13, Zenon
  <2> QED
    BY <1>2, <1>8, <2>1, HeadLeaves, Zenon
<1>15. pending' = Tail(pending)
  BY <1>2, Zenon DEF Forget
<1>16. Aligned(pending', fast', stored', onDisk', tried')
  BY <1>12, <1>14, <1>15, Zenon
<1>17. tried' \subseteq Ids
  BY <1>12, <1>13
<1>18. ramBytes' = BytesOf(f, 1, Len(f))
  BY <1>5, <1>10, <1>12, Zenon
<1>19. Len(f) <= RamMaxMessages /\ BytesOf(f, 1, Len(f)) <= RamMaxBytes
  <2>1. RamMaxMessages \in Nat /\ RamMaxBytes \in Nat
    BY ModeAssumption DEF ValidFastMode
  <2>2. Len(f) <= RamMaxMessages
    BY <1>5, <1>7, <1>9, <2>1
  <2>3. BytesOf(f, 1, Len(f)) <= RamMaxBytes
    BY <1>5, <1>10, <2>1
  <2> QED
    BY <2>2, <2>3
<1>20. Core(pending', fast', stored', onDisk', tried', ramBytes', failures')
  BY <1>2, <1>5, <1>12, <1>16, <1>17, <1>18, <1>19, Zenon DEF Core
<1>21. backoff' \in BOOLEAN
  BY <1>1, <1>3, BackoffTypes, Zenon DEF Flags
<1> QED
  BY <1>2, <1>20, <1>21, ForgetKeeps, Zenon DEF Inv

\* The rest of stop(): unless it raises, RAM is empty.
LEMMA StopPersistsKeeps ==
    ASSUME Inv, StopPersists
    PROVE  Inv' /\ (~ stranded' => Len(fast') = 0)
<1>1. /\ Core(pending, fast, stored, onDisk, tried, ramBytes, failures)
      /\ History(pending, accepted, completed) /\ Flags
  BY Zenon DEF Inv
<1>2. /\ phase' = "down" /\ offline' = FALSE /\ timer' = FALSE
      /\ UNCHANGED <<pending, stopEvent, accepted, completed>>
  BY Zenon DEF StopPersists
<1> DEFINE more == {j \in 0 .. Len(fast) : StopSpillsAll(j)}
<1>3. PICK o \in Outcomes(fast, 0, Len(fast), more) :
         /\ Spill(fast, ramBytes, o) /\ backoff' = BackoffAfter(0, o) /\ stranded' = o.failed
  BY Zenon DEF StopPersists
<1>4. Len(fast) \in Nat
  BY <1>1, CoreFacts, Zenon
<1>5. 0 \in Nat /\ 0 <= Len(fast) /\ ~ (Len(fast) < Len(fast))
  BY <1>4
<1>6. Len(fast) \notin more
  BY <1>5, Zenon DEF StopSpillsAll
<1>7. \A j \in 0 .. Len(fast) : j \notin more => j = Len(fast)
  BY <1>4 DEF StopSpillsAll
<1> HIDE DEF more
<1>8. Fits(o, 0, Len(fast)) /\ (~ o.failed => o.done \notin more)
  BY <1>3, <1>4, <1>5, <1>6, OutcomeFits, Zenon
<1>9. /\ Core(pending', fast', stored', onDisk', tried', ramBytes', failures')
      /\ Len(fast') = Len(fast) - o.done
  BY <1>1, <1>2, <1>3, <1>8, SpillKeeps, Zenon
<1>10. o.done \in 0 .. Len(fast) /\ o.failed \in BOOLEAN
  BY <1>8, Zenon DEF Fits
<1>11. ~ stranded' => Len(fast') = 0
  <2> HAVE ~ stranded'
  <2>1. ~ o.failed
    BY <1>3, Zenon
  <2>2. o.done = Len(fast)
    BY <1>7, <1>8, <1>10, <2>1, Zenon
  <2> QED
    BY <1>4, <1>9, <2>2
<1>12. backoff' \in BOOLEAN /\ stranded' \in BOOLEAN
  BY <1>1, <1>3, <1>10, BackoffTypes, Zenon DEF Flags
<1>13. Flags'
  BY <1>1, <1>2, <1>12, Zenon DEF Flags
<1> QED
  BY <1>1, <1>2, <1>9, <1>11, <1>13, Zenon DEF Inv

LEMMA EmptyRam ==
    Len(<<>>) = 0 /\ <<>> \in Seq(Ids) /\ BytesOf(<<>>, 1, Len(<<>>)) = 0
<1>1. Len(<<>>) = 0 /\ <<>> \in Seq(Ids) /\ 0 \in 0 .. 0
  OBVIOUS
<1> DEFINE e == <<>>
<1>2. e \in Seq(Ids) /\ Len(e) = 0
  BY <1>1
<1> HIDE DEF e
<1>3. 0 \in 0 .. Len(e)
  BY <1>2
<1>4. BytesOf(e, 1, 0) = BytesUpTo(e)[0] /\ BytesUpTo(e)[0] = 0
  <2>1. BytesOf(e, 1, 0) = BytesUpTo(e)[0]
    BY <1>2, <1>3, BytesSplit, Zenon
  <2>2. BytesUpTo(e)[0] = 0
    BY <1>2, BytesFacts
  <2> QED
    BY <2>1, <2>2
<1>5. BytesOf(e, 1, Len(e)) = 0
  BY <1>2, <1>4, Zenon
<1> QED
  BY <1>1, <1>5, Zenon DEF e

\* A new process finds the FIFO in the Outbox.
LEMMA RecoveredAligned ==
    ASSUME NEW s \in Seq(Ids), \A i, j \in 1 .. Len(s) : s[i] = s[j] => i = j
    PROVE  Aligned(s, <<>>, s, ToSet(s), {})
<1> DEFINE e == <<>>
<1>1. e \in Seq(Ids) /\ Len(e) = 0
  BY EmptyRam, Zenon
<1> HIDE DEF e
<1>2. Len(s) \in Nat /\ ToSet(s) = {s[i] : i \in 1 .. Len(s)}
  BY ToSetIs
<1>3. /\ Len(s) - Len(e) = Len(s) /\ Len(e) <= Len(s) /\ Len(s) <= Len(s)
      /\ \A i \in 1 .. Len(e) : FALSE
      /\ \A i \in (Len(s) + 1) .. Len(s) : FALSE
  BY <1>1, <1>2
<1>4. Aligned(s, e, s, ToSet(s), {})
  BY <1>1, <1>2, <1>3 DEF Aligned
<1> QED
  BY <1>4 DEF e

LEMMA KillKeeps ==
    ASSUME Inv, Kill
    PROVE  Inv'
<1>1. /\ Core(pending, fast, stored, onDisk, tried, ramBytes, failures)
      /\ History(pending, accepted, completed) /\ Flags
  BY Zenon DEF Inv
<1>2. /\ failures < MaxFailures /\ failures' = failures + 1
      /\ pending' = stored /\ onDisk' = ToSet(stored) /\ tried' = {}
      /\ fast' = <<>> /\ ramBytes' = 0
      /\ timer' = FALSE /\ offline' = FALSE /\ backoff' = FALSE
      /\ phase' = "down" /\ stopEvent' = FALSE /\ stranded' = FALSE
      /\ accepted' = accepted \ (ToSet(fast) \ ToSet(stored))
      /\ stored' = stored /\ completed' = completed
  BY Zenon DEF Kill
<1> DEFINE b == Len(pending) - Len(fast)
<1>3. /\ pending \in Seq(Ids) /\ fast \in Seq(Ids) /\ stored \in Seq(Ids)
      /\ \A i, j \in 1 .. Len(pending) : pending[i] = pending[j] => i = j
      /\ Len(fast) <= Len(pending) /\ Len(stored) <= Len(pending) /\ b <= Len(stored)
      /\ \A i \in 1 .. Len(fast) : fast[i] = pending[b + i]
      /\ \A i \in 1 .. Len(stored) : stored[i] = pending[i]
      /\ failures \in 0 .. MaxFailures
  BY <1>1 DEF Core, Aligned
<1>4. /\ ToSet(pending) = {pending[i] : i \in 1 .. Len(pending)} /\ Len(pending) \in Nat
      /\ ToSet(fast) = {fast[i] : i \in 1 .. Len(fast)} /\ Len(fast) \in Nat
      /\ ToSet(stored) = {stored[i] : i \in 1 .. Len(stored)} /\ Len(stored) \in Nat
  <2>1. ToSet(pending) = {pending[i] : i \in 1 .. Len(pending)} /\ Len(pending) \in Nat
    BY <1>3, ToSetIs
  <2>2. ToSet(fast) = {fast[i] : i \in 1 .. Len(fast)} /\ Len(fast) \in Nat
    BY <1>3, ToSetIs
  <2>3. ToSet(stored) = {stored[i] : i \in 1 .. Len(stored)} /\ Len(stored) \in Nat
    BY <1>3, ToSetIs
  <2> QED
    BY <2>1, <2>2, <2>3, Zenon
<1>5. \A i \in 1 .. Len(stored) : i \in 1 .. Len(pending)
  BY <1>3, <1>4
<1>6. \A i, j \in 1 .. Len(stored) : stored[i] = stored[j] => i = j
  BY <1>3, <1>5
<1>7. Aligned(stored, <<>>, stored, ToSet(stored), {})
  BY <1>3, <1>6, RecoveredAligned, Zenon
<1>8. Core(pending', fast', stored', onDisk', tried', ramBytes', failures')
  <2>1. failures' \in 0 .. MaxFailures
    BY <1>2, <1>3, FailureAssumption
  <2>2. 0 <= RamMaxMessages /\ 0 <= RamMaxBytes
    BY ModeAssumption DEF ValidFastMode
  <2> QED
    BY <1>2, <1>7, <2>1, <2>2, EmptyRam, Zenon DEF Core
<1>9. ToSet(stored) \subseteq ToSet(pending)
  BY <1>3, <1>4, <1>5
<1>10. ToSet(pending) \subseteq ToSet(fast) \cup ToSet(stored)
  <2> SUFFICES ASSUME NEW i \in 1 .. Len(pending)
               PROVE  pending[i] \in ToSet(fast) \cup ToSet(stored)
    BY <1>4
  <2>1. CASE i \in 1 .. Len(stored)
    BY <1>3, <1>4, <2>1
  <2>2. CASE i \notin 1 .. Len(stored)
    <3>1. i - b \in 1 .. Len(fast) /\ b + (i - b) = i
      BY <1>3, <1>4, <2>2
    <3>2. fast[i - b] = pending[i]
      BY <1>3, <3>1
    <3> QED
      BY <1>4, <3>1, <3>2
  <2> QED
    BY <2>1, <2>2
<1>11. History(pending', accepted', completed')
  <2>1. accepted \subseteq Ids /\ completed \subseteq Ids /\ accepted \ completed = ToSet(pending)
    BY <1>1 DEF History
  <2>2. (accepted \ (ToSet(fast) \ ToSet(stored))) \ completed = ToSet(stored)
    BY <1>9, <1>10, <2>1
  <2>3. accepted \ (ToSet(fast) \ ToSet(stored)) \subseteq Ids
    BY <2>1
  <2> QED
    BY <1>2, <2>1, <2>2, <2>3, Zenon DEF History
<1>12. Flags'
  BY <1>2, Zenon DEF Flags
<1> QED
  BY <1>8, <1>11, <1>12, Zenon DEF Inv

LEMMA LifecycleKeeps ==
    ASSUME Inv, RetryDelayPasses \/ OnConnect \/ MarkDisconnected \/ Start \/ StopBegins
    PROVE  Inv'
<1>1. /\ Core(pending, fast, stored, onDisk, tried, ramBytes, failures)
      /\ History(pending, accepted, completed) /\ Flags
  BY Zenon DEF Inv
<1>2. UNCHANGED <<pending, fast, stored, onDisk, tried, ramBytes, failures, accepted, completed>>
  BY Zenon DEF RetryDelayPasses, OnConnect, MarkDisconnected, Start, StopBegins, queue
<1>3. Flags'
  <2>1. CASE RetryDelayPasses
    BY <1>1, <2>1, Zenon DEF RetryDelayPasses, Flags, life
  <2>2. CASE OnConnect
    BY <1>1, <2>2, ScheduleTypes, Zenon DEF OnConnect, Flags, life
  <2>3. CASE MarkDisconnected
    BY <1>1, <2>3, ScheduleTypes, Zenon DEF MarkDisconnected, Flags, life
  <2>4. CASE Start
    BY <1>1, <2>4, ScheduleTypes, Zenon DEF Start, Flags
  <2>5. CASE StopBegins
    BY <1>1, <2>5, Zenon DEF StopBegins, Flags
  <2> QED
    BY <2>1, <2>2, <2>3, <2>4, <2>5
<1> QED
  BY <1>1, <1>2, <1>3, Zenon DEF Inv

LEMMA InitInv ==
    ASSUME Init
    PROVE  Inv
<1>1. /\ pending = <<>> /\ fast = <<>> /\ ramBytes = 0 /\ onDisk = {} /\ tried = {}
      /\ stored = <<>> /\ timer = FALSE /\ offline = FALSE /\ backoff = FALSE
      /\ phase = "down" /\ stopEvent = FALSE /\ failures = 0
      /\ accepted = {} /\ completed = {} /\ stranded = FALSE
  BY Zenon DEF Init
<1> DEFINE e == <<>>
<1>2. e \in Seq(Ids) /\ Len(e) = 0
  BY EmptyRam, Zenon
<1> HIDE DEF e
<1>3. \A i \in 1 .. Len(e) : FALSE
  BY <1>2
<1>4. ToSet(e) = {} /\ \A i, j \in 1 .. Len(e) : e[i] = e[j] => i = j
  BY <1>2, <1>3, ToSetIs
<1>5. Aligned(e, <<>>, e, ToSet(e), {})
  BY <1>2, <1>4, RecoveredAligned, Zenon
<1>6. 0 <= RamMaxMessages /\ 0 <= RamMaxBytes /\ 0 \in 0 .. MaxFailures
  BY ModeAssumption, FailureAssumption DEF ValidFastMode
<1>7. Core(pending, fast, stored, onDisk, tried, ramBytes, failures)
  BY <1>1, <1>4, <1>5, <1>6, EmptyRam, Zenon DEF Core, e
<1>8. History(pending, accepted, completed)
  BY <1>1, <1>4, Zenon DEF History, e
<1>9. Flags
  BY <1>1, Zenon DEF Flags
<1> QED
  BY <1>7, <1>8, <1>9 DEF Inv

LEMMA NextKeeps ==
    ASSUME Inv, Next
    PROVE  Inv'
<1>1. ASSUME NEW m \in Ids, PublishFast(m) \/ PublishFull(m)
      PROVE  Inv'
  BY <1>1, PublishFastKeeps, PublishFullKeeps, Zenon
<1>2. ASSUME NEW aged \in Aged, TimerFires(aged) \/ WorkerMaintains(aged)
      PROVE  Inv'
  <2>1. PICK d \in GraceOver : RunMaintenance(aged, d)
    BY <1>2, Zenon DEF TimerFires, WorkerMaintains
  <2> QED
    BY <2>1, MaintenanceKeeps, Zenon
<1>3. CASE RetryDelayPasses \/ OnConnect \/ MarkDisconnected \/ Start \/ StopBegins
  BY <1>3, LifecycleKeeps, Zenon
<1>4. CASE Promote
  BY <1>4, PromoteKeeps, Zenon
<1>5. CASE CompleteInRam
  BY <1>5, CompleteInRamKeeps, Zenon
<1>6. CASE CompleteOnDisk
  BY <1>6, CompleteOnDiskKeeps, Zenon
<1>7. CASE CompletionFails
  BY <1>7, CompletionFailsKeeps, Zenon
<1>8. CASE StopPersists
  BY <1>8, StopPersistsKeeps, Zenon
<1>9. CASE Kill
  BY <1>9, KillKeeps, Zenon
<1> QED
  BY <1>1, <1>2, <1>3, <1>4, <1>5, <1>6, <1>7, <1>8, <1>9, Zenon DEF Next

LEMMA StutterKeeps ==
    ASSUME Inv, UNCHANGED vars
    PROVE  Inv'
  BY Zenon DEF Inv, Flags, vars, queue, life

\* The inductive invariant holds in every reachable state: after any sequence of publishes,
\* spills that fail half way, completions, stops and crashes the FIFO is in order position
\* by position, RAM accounts for what it owns, and nothing was forgotten.
THEOREM InvariantCorrect == Spec => []Inv
<1>1. Init => Inv
  BY InitInv
<1>2. Inv /\ [Next]_vars => Inv'
  BY NextKeeps, StutterKeeps, Zenon
<1> QED
  BY <1>1, <1>2, PTL DEF Spec
-----------------------------------------------------------------------------
(* What it implies.                                                        *)

LEMMA InvGivesType ==
    ASSUME Inv
    PROVE  TypeOK
<1>1. /\ Core(pending, fast, stored, onDisk, tried, ramBytes, failures)
      /\ History(pending, accepted, completed) /\ Flags
  BY Zenon DEF Inv
<1>2. /\ pending \in Seq(Ids) /\ fast \in Seq(Ids) /\ stored \in Seq(Ids)
      /\ ramBytes \in Nat /\ failures \in 0 .. MaxFailures /\ tried \subseteq Ids
  BY <1>1, CoreFacts, Zenon
<1>3. onDisk \subseteq Ids
  <2> DEFINE b == Len(pending) - Len(fast)
  <2>1. onDisk = {pending[i] : i \in 1 .. b} /\ Len(fast) \in Nat /\ Len(pending) \in Nat
    BY <1>1, CoreFacts DEF Core, Aligned
  <2>2. \A i \in 1 .. b : i \in 1 .. Len(pending)
    BY <2>1
  <2>3. \A i \in 1 .. b : pending[i] \in Ids
    BY <1>2, <2>2, ElementOfSeq
  <2> QED
    BY <2>1, <2>3
<1>4. accepted \subseteq Ids /\ completed \subseteq Ids
  BY <1>1 DEF History
<1> QED
  BY <1>1, <1>2, <1>3, <1>4, Zenon DEF TypeOK, Flags

LEMMA InvGivesShape ==
    ASSUME Inv
    PROVE  QueueShape
<1> DEFINE b == Len(pending) - Len(fast)
           h == SubSeq(pending, 1, b)
<1>1. /\ pending \in Seq(Ids) /\ fast \in Seq(Ids) /\ stored \in Seq(Ids)
      /\ Len(fast) <= Len(pending) /\ Len(stored) <= Len(pending) /\ b <= Len(stored)
      /\ \A i \in 1 .. Len(fast) : fast[i] = pending[b + i]
      /\ \A i \in 1 .. Len(stored) : stored[i] = pending[i]
      /\ onDisk = {pending[i] : i \in 1 .. b}
      /\ \A i \in (b + 1) .. Len(stored) : pending[i] \in tried
  BY DEF Inv, Core, Aligned
<1>2. /\ Len(pending) \in Nat /\ Len(fast) \in Nat /\ Len(stored) \in Nat
      /\ b \in Nat /\ b \in 0 .. Len(pending) /\ b + Len(fast) = Len(pending)
      /\ Len(stored) \in 0 .. Len(pending)
  BY <1>1, LenProperties
<1>3. onDisk = First(pending, b)
  <2> HIDE DEF b
  <2> QED
    BY <1>1, <1>2, FirstIs
<1>4. \A i \in 1 .. Len(pending) : pending[i] \in Ids
  BY <1>1, ElementOfSeq
<1>5. h \in Seq(Ids) /\ Len(h) = b /\ \A i \in 1 .. b : h[i] = pending[i]
  <2> HIDE DEF b
  <2>1. \A i \in 1 .. b : pending[i] \in Ids
    BY <1>2, <1>4
  <2> QED
    BY <1>1, <1>2, <2>1, SubSeqProperties
<1> HIDE DEF b, h
<1>6. pending = h \o fast
  <2> DEFINE x == h \o fast
  <2>1. /\ x \in Seq(Ids) /\ Len(x) = Len(h) + Len(fast)
        /\ \A i \in 1 .. Len(h) + Len(fast) : x[i] = IF i <= Len(h) THEN h[i] ELSE fast[i - Len(h)]
    BY <1>1, <1>5, ConcatProperties
  <2> HIDE DEF x
  <2>2. Len(x) = Len(pending)
    BY <1>2, <1>5, <2>1
  <2>3. \A i \in 1 .. Len(pending) : x[i] = pending[i]
    <3> TAKE i \in 1 .. Len(pending)
    <3>1. i \in 1 .. Len(h) + Len(fast)
      BY <1>2, <1>5
    <3>2. CASE i <= Len(h)
      <4>1. i \in 1 .. b
        BY <1>2, <1>5, <3>2
      <4> QED
        BY <1>5, <2>1, <3>1, <3>2, <4>1
    <3>3. CASE ~ (i <= Len(h))
      <4>1. i - Len(h) \in 1 .. Len(fast) /\ b + (i - Len(h)) = i
        BY <1>2, <1>5, <3>3
      <4> QED
        BY <1>1, <2>1, <3>1, <3>3, <4>1
    <3> QED
      BY <3>2, <3>3
  <2>4. pending = x
    BY <1>1, <2>1, <2>2, <2>3, SeqEqual
  <2> QED
    BY <2>4 DEF x
<1>7. IsPrefix(stored, pending)
  <2> DEFINE y == SubSeq(pending, 1, Len(stored))
  <2>1. \A i \in 1 .. Len(stored) : pending[i] \in Ids
    BY <1>2, <1>4
  <2>2. y \in Seq(Ids) /\ Len(y) = Len(stored) /\ \A i \in 1 .. Len(stored) : y[i] = pending[i]
    BY <1>1, <1>2, <2>1, SubSeqProperties
  <2> HIDE DEF y
  <2>3. stored = y
    BY <1>1, <2>2, SeqEqual
  <2>4. SubSeq(stored, 1, Len(stored)) = stored
    BY <1>1, SubSeqFull
  <2> QED
    BY <1>1, <2>3, <2>4, Zenon DEF IsPrefix, y
<1>8. ToSet(stored) = {stored[i] : i \in 1 .. Len(stored)}
  BY <1>1, ToSetIs
<1>9. onDisk \subseteq ToSet(stored)
  <2>1. \A i \in 1 .. b : i \in 1 .. Len(stored)
    BY <1>1, <1>2
  <2> QED
    BY <1>1, <1>8, <2>1
<1>10. ToSet(stored) \subseteq onDisk \cup tried
  <2>1. \A i \in 1 .. Len(stored) : i \in 1 .. b \/ i \in (b + 1) .. Len(stored)
    BY <1>2
  <2>2. \A i \in 1 .. Len(stored) : stored[i] \in onDisk \cup tried
    BY <1>1, <2>1
  <2> QED
    BY <1>8, <2>2
<1> QED
  BY <1>3, <1>6, <1>7, <1>9, <1>10, Zenon DEF QueueShape, b, h

LEMMA InvGivesBounds ==
    ASSUME Inv
    PROVE  NothingForgotten /\ RamBounded
  BY Zenon DEF Inv, Core, History, NothingForgotten, RamBounded

\* RAM is empty: the Outbox lists the whole FIFO.
LEMMA AllStored ==
    ASSUME NEW p, NEW f, NEW s, NEW disk, NEW marked, Aligned(p, f, s, disk, marked),
           Len(f) = 0
    PROVE  ToSet(p) \subseteq ToSet(s)
<1>1. /\ p \in Seq(Ids) /\ s \in Seq(Ids) /\ Len(s) <= Len(p) /\ Len(p) - Len(f) <= Len(s)
      /\ \A i \in 1 .. Len(s) : s[i] = p[i]
  BY DEF Aligned
<1>2. /\ ToSet(p) = {p[i] : i \in 1 .. Len(p)} /\ Len(p) \in Nat
      /\ ToSet(s) = {s[i] : i \in 1 .. Len(s)} /\ Len(s) \in Nat
  BY <1>1, ToSetIs
<1>3. Len(p) = Len(s)
  BY <1>1, <1>2
<1> QED
  BY <1>1, <1>2, <1>3

LEMMA StopIsClean ==
    ASSUME Inv, Next, phase = "stopping", phase' = "down", ~ stranded'
    PROVE  ToSet(pending') \subseteq ToSet(stored')
<1>1. StopPersists \/ Kill
  <2>1. "down" # "stopping" /\ "down" # "running"
    OBVIOUS
  <2>2. ASSUME UNCHANGED phase
        PROVE  FALSE
    BY <2>1, <2>2, Zenon
  <2>3. ASSUME NEW m \in Ids, PublishFast(m) \/ PublishFull(m)
        PROVE  FALSE
    BY <2>2, <2>3, Zenon DEF PublishFast, PublishFull, life
  <2>4. ASSUME NEW aged \in Aged, TimerFires(aged) \/ WorkerMaintains(aged)
        PROVE  FALSE
    BY <2>2, <2>4, Zenon DEF TimerFires, WorkerMaintains, RunMaintenance, life
  <2>5. ASSUME RetryDelayPasses \/ OnConnect \/ MarkDisconnected \/ Promote
        PROVE  FALSE
    BY <2>2, <2>5, Zenon DEF RetryDelayPasses, OnConnect, MarkDisconnected, Promote, life
  <2>6. ASSUME CompleteInRam \/ CompleteOnDisk \/ CompletionFails
        PROVE  FALSE
    BY <2>2, <2>6, Zenon DEF CompleteInRam, CompleteOnDisk, CompletionFails, Forget, life
  <2>7. ASSUME Start \/ StopBegins
        PROVE  FALSE
    BY <2>1, <2>7, Zenon DEF Start, StopBegins
  <2> QED
    BY <2>3, <2>4, <2>5, <2>6, <2>7, Zenon DEF Next
<1>2. CASE StopPersists
  <2>1. Inv' /\ Len(fast') = 0
    BY <1>2, StopPersistsKeeps, Zenon
  <2>2. Aligned(pending', fast', stored', onDisk', tried')
    BY <2>1, Zenon DEF Inv, Core
  <2> QED
    BY <2>1, <2>2, AllStored, Zenon
<1>3. CASE Kill
  BY <1>3, Zenon DEF Kill
<1> QED
  BY <1>1, <1>2, <1>3

\* Every variable stays in its range, for any messages, sizes and limits FastMode accepts.
THEOREM TypeCorrect == Spec => []TypeOK
  BY InvariantCorrect, InvGivesType, PTL

\* RAM and Outbox are one FIFO in two places after every step, spills that failed half way
\* and crashes included.
THEOREM QueueShapeCorrect == Spec => []QueueShape
  BY InvariantCorrect, InvGivesShape, PTL

\* Every accepted message stays in the FIFO until its DeliveryAck.
THEOREM NothingForgottenCorrect == Spec => []NothingForgotten
<1>1. Inv => NothingForgotten
  BY InvGivesBounds
<1> QED
  BY <1>1, InvariantCorrect, PTL

\* RAM never exceeds ram_max_messages or ram_max_bytes, and its byte counter is the sum of
\* the sizes of the messages it owns.
THEOREM RamBoundedCorrect == Spec => []RamBounded
<1>1. Inv => RamBounded
  BY InvGivesBounds
<1> QED
  BY <1>1, InvariantCorrect, PTL

\* A stop() that does not raise has put every pending message into the Outbox.
THEOREM CleanStopCorrect == Spec => CleanStop
<1>1. Inv /\ [Next]_vars => [phase = "stopping" /\ phase' = "down" /\ ~ stranded'
                             => ToSet(pending') \subseteq ToSet(stored')]_vars
  BY StopIsClean
<1> QED
  BY <1>1, InvariantCorrect, PTL DEF Spec, CleanStop
=============================================================================
