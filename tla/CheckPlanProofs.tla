-------------------------- MODULE CheckPlanProofs --------------------------
(***************************************************************************)
(* Proofs about module CheckPlan for every list of windows and for all     *)
(* constants that satisfy SizesAssumption: CheckPlan::new gives a plan     *)
(* that fits the file.                                                     *)
(*                                                                         *)
(* That a repeated duration always meets the window planned before it, and *)
(* is not planned twice under two keys, rests on bucket_size giving one    *)
(* size per duration.  The sizes are those reached from MIN_BUCKET by      *)
(* doubling (Ladder), and only one of them fits a duration.                *)
(***************************************************************************)
EXTENDS CheckPlan, FiniteSetTheorems, SequenceTheorems, TLAPS

\* The script that is given the plan.
Script == INSTANCE CheckAndRecord

\* A set of numbers that the doublings of bucket_size cannot leave.
Closed(S) == MIN_BUCKET \in S /\ \A y \in S : 2 * y \in S

\* The sizes that bucket_size can reach: the least closed set.
Ladder == {x \in Nat : \A S \in SUBSET Nat : Closed(S) => x \in S}

\* A size fits a duration: it has enough buckets, and the next size has not.
FitsSpan(size, span) ==
    /\ size * BUCKET_TARGET_COUNT <= span
    /\ span < (2 * size) * BUCKET_TARGET_COUNT

----------------------------------------------------------------------------
(* The sizes *)

\* How the test of bucket_size, an integer division, reads as a product.
LEMMA DivAtLeast ==
    ASSUME NEW a \in Nat, NEW d \in Nat \ {0}, NEW m \in Nat
    PROVE  a \div d >= m <=> m * d <= a
  <1> DEFINE q == a \div d
  <1>1. q \in Nat /\ a = q * d + (a % d) /\ a % d \in 0 .. (d - 1)
    OBVIOUS
  <1> HIDE DEF q
  <1>2. ASSUME q >= m PROVE m * d <= a
    <2>1. m * d <= q * d
      BY <1>1, <1>2
    <2> QED
      BY <1>1, <2>1
  <1>3. ASSUME ~ (q >= m) PROVE ~ (m * d <= a)
    <2>1. (q + 1) * d <= m * d
      BY <1>1, <1>3
    <2>2. (q + 1) * d = q * d + d
      BY <1>1
    <2> QED
      BY <1>1, <2>1, <2>2
  <1> QED
    BY <1>2, <1>3 DEF q

\* The ladder starts at MIN_BUCKET, doubling stays on it, and a closed set
\* of numbers contains all of it.
LEMMA LadderFacts ==
    /\ MIN_BUCKET \in Ladder
    /\ \A x \in Ladder : 2 * x \in Ladder
    /\ \A S \in SUBSET Nat : Closed(S) => Ladder \subseteq S
    /\ Ladder \subseteq Nat
  <1>1. MIN_BUCKET \in Nat
    BY SizesAssumption
  <1>2. MIN_BUCKET \in Ladder
    BY <1>1 DEF Ladder, Closed
  <1>3. ASSUME NEW x \in Ladder PROVE 2 * x \in Ladder
    <2>1. x \in Nat /\ 2 * x \in Nat
      BY DEF Ladder
    <2>2. ASSUME NEW S \in SUBSET Nat, Closed(S) PROVE 2 * x \in S
      <3>1. x \in S
        BY <2>2 DEF Ladder
      <3> QED
        BY <2>2, <3>1 DEF Closed
    <2> QED
      BY <2>1, <2>2 DEF Ladder
  <1> QED
    BY <1>2, <1>3 DEF Ladder

\* Every size is MIN_BUCKET or twice a size, and at least MIN_BUCKET.
LEMMA LadderDown ==
    ASSUME NEW x \in Ladder
    PROVE  /\ x \in Nat \ {0} /\ x >= MIN_BUCKET
           /\ x = MIN_BUCKET \/ \E z \in Ladder : x = 2 * z
  <1>0. MIN_BUCKET \in Nat \ {0}
    BY SizesAssumption
  <1> DEFINE S == {y \in Nat : y >= MIN_BUCKET}
             T == {y \in Nat : y = MIN_BUCKET \/ \E z \in Ladder : y = 2 * z}
  <1>1. S \in SUBSET Nat /\ Closed(S)
    BY <1>0 DEF Closed
  <1>2. x \in S
    BY <1>1, LadderFacts
  <1>3. ASSUME NEW y \in T PROVE 2 * y \in T
    <2>1. y \in Ladder /\ 2 * y \in Nat
      BY LadderFacts
    <2> QED
      BY <2>1
  <1>4. T \in SUBSET Nat /\ Closed(T)
    BY <1>0, <1>3 DEF Closed
  <1>5. x \in T
    BY <1>4, LadderFacts
  <1> QED
    BY <1>0, <1>2, <1>5

\* Of two different sizes one is at least twice the other.
LEMMA LadderGaps ==
    ASSUME NEW x \in Ladder, NEW y \in Ladder
    PROVE  x = y \/ 2 * x <= y \/ 2 * y <= x
  <1> DEFINE Apart(a, b) == a = b \/ 2 * a <= b \/ 2 * b <= a
             S == {a \in Ladder : \A b \in Ladder : Apart(a, b)}
  <1>0. MIN_BUCKET \in Nat \ {0}
    BY SizesAssumption
  <1>1. MIN_BUCKET \in S
    <2> SUFFICES ASSUME NEW b \in Ladder PROVE Apart(MIN_BUCKET, b)
      BY LadderFacts
    <2>1. CASE b = MIN_BUCKET
      BY <2>1
    <2>2. CASE b # MIN_BUCKET
      <3>1. PICK z \in Ladder : b = 2 * z
        BY <2>2, LadderDown
      <3>2. z \in Nat /\ z >= MIN_BUCKET
        BY LadderDown
      <3> QED
        BY <1>0, <3>1, <3>2
    <2> QED
      BY <2>1, <2>2
  <1>2. ASSUME NEW a \in S PROVE 2 * a \in S
    <2>1. a \in Ladder /\ 2 * a \in Ladder /\ a \in Nat /\ a >= MIN_BUCKET
      BY LadderFacts, LadderDown
    <2>2. ASSUME NEW b \in Ladder PROVE Apart(2 * a, b)
      <3>1. CASE b = MIN_BUCKET
        BY <1>0, <2>1, <3>1
      <3>2. CASE b # MIN_BUCKET
        <4>1. PICK z \in Ladder : b = 2 * z
          BY <3>2, LadderDown
        <4>2. z \in Nat /\ Apart(a, z)
          BY LadderDown
        <4> QED
          BY <2>1, <4>1, <4>2
      <3> QED
        BY <3>1, <3>2
    <2> QED
      BY <2>1, <2>2
  <1>3. S \in SUBSET Nat
    BY LadderFacts
  <1>4. Closed(S)
    BY <1>1, <1>2 DEF Closed
  <1>5. x \in S
    BY <1>3, <1>4, LadderFacts
  <1> QED
    BY <1>5

\* Only one size fits a duration.
LEMMA OneSizeFits ==
    ASSUME NEW x \in Ladder, NEW y \in Ladder, NEW span \in Nat,
           FitsSpan(x, span), FitsSpan(y, span)
    PROVE  x = y
  <1>0. BUCKET_TARGET_COUNT \in Nat \ {0} /\ x \in Nat /\ y \in Nat
    BY SizesAssumption, LadderFacts
  <1>1. ASSUME NEW a \in Nat, NEW b \in Nat, FitsSpan(a, span), FitsSpan(b, span),
               2 * a <= b
        PROVE  FALSE
    <2>1. (2 * a) * BUCKET_TARGET_COUNT <= b * BUCKET_TARGET_COUNT
      BY <1>0, <1>1
    <2> QED
      BY <1>0, <1>1, <2>1 DEF FitsSpan
  <1> QED
    BY <1>0, <1>1, LadderGaps

----------------------------------------------------------------------------
(* The arrays of a plan *)

PlanType == [bucket_sizes : Seq(Nat), retention_secs : Seq(Nat), windows : Seq(PlannedWindow)]

\* One retention for each size, no size twice, and every window has its key.
ArraysOK(p) ==
    /\ p \in PlanType
    /\ Len(p.retention_secs) = Len(p.bucket_sizes)
    /\ \A i, j \in 1 .. Len(p.bucket_sizes) : p.bucket_sizes[i] = p.bucket_sizes[j] => i = j
    /\ \A j \in 1 .. Len(p.windows) : p.windows[j].key_index \in 1 .. Len(p.bucket_sizes)

\* Each key is retained as long as its longest window.
KeptOK(p) ==
    \A i \in 1 .. Len(p.bucket_sizes) :
        /\ \A j \in 1 .. Len(p.windows) :
            p.windows[j].key_index = i => p.windows[j].span_secs <= p.retention_secs[i]
        /\ \E j \in 1 .. Len(p.windows) :
            p.windows[j].key_index = i /\ p.windows[j].span_secs = p.retention_secs[i]

\* The sizes are sizes of the ladder that fit their windows.
SizesOK(p) ==
    /\ \A i \in 1 .. Len(p.bucket_sizes) : p.bucket_sizes[i] \in Ladder
    /\ \A j \in 1 .. Len(p.windows) :
        FitsSpan(p.bucket_sizes[p.windows[j].key_index], p.windows[j].span_secs)

\* One window for each duration of the windows in T, with the least count.
WindowsOK(p, T) ==
    /\ \A i, j \in 1 .. Len(p.windows) : p.windows[i].span_secs = p.windows[j].span_secs => i = j
    /\ \A j \in 1 .. Len(p.windows) :
        /\ \A t \in T : t.secs = p.windows[j].span_secs => p.windows[j].limit <= t.count
        /\ \E t \in T : t.secs = p.windows[j].span_secs /\ p.windows[j].limit = t.count
    /\ \A t \in T : \E j \in 1 .. Len(p.windows) : p.windows[j].span_secs = t.secs

PlanOK(p, T) == ArraysOK(p) /\ KeptOK(p) /\ SizesOK(p) /\ WindowsOK(p, T)

\* A function on 1 .. m is a sequence of length m.
LEMMA FunctionIsSeq ==
    ASSUME NEW m \in Nat, NEW S, NEW f \in [1 .. m -> S]
    PROVE  f \in Seq(S) /\ Len(f) = m
  OBVIOUS

\* What WithBucket does: the size has a key, and what was there has not moved.
LEMMA WithBucketFacts ==
    ASSUME NEW p, ArraysOK(p), NEW size \in Nat
    PROVE  LET b == WithBucket(p, size)
               k == KeyIndex(b, size)
               n == Len(p.bucket_sizes)
           IN  /\ ArraysOK(b) /\ b.windows = p.windows
               /\ k \in 1 .. Len(b.bucket_sizes) /\ b.bucket_sizes[k] = size
               /\ \A i \in 1 .. n : /\ i \in 1 .. Len(b.bucket_sizes)
                                    /\ b.bucket_sizes[i] = p.bucket_sizes[i]
                                    /\ b.retention_secs[i] = p.retention_secs[i]
               /\ \A i \in 1 .. Len(b.bucket_sizes) :
                    i \in 1 .. n \/ (i = k /\ b.retention_secs[i] = 0)
  <1> DEFINE n == Len(p.bucket_sizes)
             b == WithBucket(p, size)
             k == KeyIndex(b, size)
  <1>0. /\ p.bucket_sizes \in Seq(Nat) /\ p.retention_secs \in Seq(Nat)
        /\ p.windows \in Seq(PlannedWindow) /\ n \in Nat /\ Len(p.retention_secs) = n
        /\ \A i, j \in 1 .. n : p.bucket_sizes[i] = p.bucket_sizes[j] => i = j
        /\ \A j \in 1 .. Len(p.windows) : p.windows[j].key_index \in 1 .. n
    BY DEF ArraysOK, PlanType
  <1>1. CASE \E i \in 1 .. n : p.bucket_sizes[i] = size
    <2>1. b = p
      BY <1>1 DEF WithBucket
    <2>2. k \in 1 .. n /\ p.bucket_sizes[k] = size
      BY <1>1, <2>1 DEF KeyIndex
    <2> HIDE DEF b, k
    <2> QED
      BY <2>1, <2>2 DEF b, k
  <1>2. CASE ~ \E i \in 1 .. n : p.bucket_sizes[i] = size
    <2>1. /\ b.bucket_sizes = Append(p.bucket_sizes, size)
          /\ b.retention_secs = Append(p.retention_secs, 0)
          /\ b.windows = p.windows
          /\ b \in PlanType
      <3>1. b = [p EXCEPT !.bucket_sizes = Append(@, size), !.retention_secs = Append(@, 0)]
        BY <1>2 DEF WithBucket
      <3>2. p \in PlanType
        BY DEF ArraysOK
      <3>3. /\ Append(p.bucket_sizes, size) \in Seq(Nat)
            /\ Append(p.retention_secs, 0) \in Seq(Nat)
        BY <1>0, AppendProperties
      <3> QED
        BY <3>1, <3>2, <3>3 DEF PlanType
    <2>2. /\ Len(b.bucket_sizes) = n + 1 /\ Len(b.retention_secs) = n + 1
          /\ b.bucket_sizes[n + 1] = size /\ b.retention_secs[n + 1] = 0
          /\ \A i \in 1 .. n : /\ b.bucket_sizes[i] = p.bucket_sizes[i]
                               /\ b.retention_secs[i] = p.retention_secs[i]
      BY <1>0, <2>1, AppendProperties
    <2> HIDE DEF b
    <2>3. k \in 1 .. n + 1 /\ b.bucket_sizes[k] = size
      <3>1. n + 1 \in 1 .. Len(b.bucket_sizes) /\ b.bucket_sizes[n + 1] = size
        BY <1>0, <2>2
      <3> QED
        BY <2>2, <3>1 DEF KeyIndex
    <2>4. k = n + 1
      BY <1>0, <1>2, <2>2, <2>3
    <2>5. ArraysOK(b)
      <3>1. ASSUME NEW i \in 1 .. n + 1, NEW j \in 1 .. n + 1,
                   b.bucket_sizes[i] = b.bucket_sizes[j]
            PROVE  i = j
        <4>1. \A l \in 1 .. n + 1 : l \in 1 .. n \/ l = n + 1
          BY <1>0
        <4>2. \A l \in 1 .. n : b.bucket_sizes[l] # size
          BY <1>2, <2>2
        <4>3. CASE i \in 1 .. n /\ j \in 1 .. n
          BY <1>0, <2>2, <3>1, <4>3
        <4>4. CASE i = n + 1 \/ j = n + 1
          BY <2>2, <3>1, <4>1, <4>2, <4>4
        <4> QED
          BY <4>1, <4>3, <4>4
      <3>2. \A j \in 1 .. Len(b.windows) : b.windows[j].key_index \in 1 .. n + 1
        BY <1>0, <2>1
      <3> QED
        BY <2>1, <2>2, <3>1, <3>2 DEF ArraysOK
    <2> HIDE DEF k
    <2>6. \A i \in 1 .. n + 1 : i \in 1 .. n \/ i = n + 1
      BY <1>0
    <2>7. \A i \in 1 .. n : i \in 1 .. n + 1
      BY <1>0
    <2> QED
      BY <2>1, <2>2, <2>3, <2>4, <2>5, <2>6, <2>7 DEF b, k
  <1> QED
    BY <1>1, <1>2

\* The windows of p with this key and this duration.
Same(p, k, span) ==
    {j \in 1 .. Len(p.windows) :
        p.windows[j].key_index = k /\ p.windows[j].span_secs = span}

\* What WithWindow does, array by array.
LEMMA WithWindowFacts ==
    ASSUME NEW p, ArraysOK(p), NEW k \in 1 .. Len(p.bucket_sizes),
           NEW span \in Nat, NEW count \in Nat
    PROVE  LET q == WithWindow(p, k, span, count)
               m == Len(p.windows)
               same == Same(p, k, span)
           IN  /\ q \in PlanType
               /\ q.bucket_sizes = p.bucket_sizes
               /\ Len(q.retention_secs) = Len(p.retention_secs)
               /\ q.retention_secs[k] = Larger(p.retention_secs[k], span)
               /\ \A i \in 1 .. Len(p.retention_secs) :
                    i # k => q.retention_secs[i] = p.retention_secs[i]
               /\ same = {} =>
                    /\ Len(q.windows) = m + 1
                    /\ \A j \in 1 .. m : q.windows[j] = p.windows[j]
                    /\ q.windows[m + 1] = [key_index |-> k, span_secs |-> span, limit |-> count]
               /\ same # {} =>
                    /\ Len(q.windows) = m
                    /\ \A j \in 1 .. m :
                        /\ q.windows[j].key_index = p.windows[j].key_index
                        /\ q.windows[j].span_secs = p.windows[j].span_secs
                        /\ q.windows[j].limit = IF j \in same
                                                THEN Smaller(p.windows[j].limit, count)
                                                ELSE p.windows[j].limit
  <1> DEFINE q == WithWindow(p, k, span, count)
             m == Len(p.windows)
             same == Same(p, k, span)
             new == [key_index |-> k, span_secs |-> span, limit |-> count]
             R == [p.retention_secs EXCEPT ![k] = Larger(p.retention_secs[k], span)]
             W == IF same = {} THEN Append(p.windows, new)
                  ELSE [j \in DOMAIN p.windows |->
                          IF j \in same
                          THEN [p.windows[j] EXCEPT !.limit = Smaller(p.windows[j].limit, count)]
                          ELSE p.windows[j]]
  <1>0. /\ p \in PlanType
        /\ p.bucket_sizes \in Seq(Nat) /\ p.retention_secs \in Seq(Nat)
        /\ p.windows \in Seq(PlannedWindow) /\ m \in Nat
        /\ Len(p.retention_secs) = Len(p.bucket_sizes)
    BY DEF ArraysOK, PlanType
  <1>1. q = [p EXCEPT !.retention_secs = R, !.windows = W]
    BY DEF WithWindow, Same
  <1>2. /\ R \in Seq(Nat) /\ Len(R) = Len(p.retention_secs)
        /\ R[k] = Larger(p.retention_secs[k], span)
        /\ \A i \in 1 .. Len(p.retention_secs) : i # k => R[i] = p.retention_secs[i]
    <2>1. Larger(p.retention_secs[k], span) \in Nat
      BY <1>0 DEF Larger
    <2> QED
      BY <1>0, <2>1
  <1>3. CASE same = {}
    <2>1. new \in PlannedWindow
      BY <1>0 DEF PlannedWindow
    <2> HIDE DEF new
    <2>2. /\ W \in Seq(PlannedWindow) /\ Len(W) = m + 1 /\ W[m + 1] = new
          /\ \A j \in 1 .. m : W[j] = p.windows[j]
      BY <1>0, <1>3, <2>1, AppendProperties
    <2> HIDE DEF R, W
    <2>3. q \in PlanType /\ q.bucket_sizes = p.bucket_sizes /\ q.retention_secs = R /\ q.windows = W
      BY <1>0, <1>1, <1>2, <2>2 DEF PlanType
    <2> QED
      BY <1>2, <1>3, <2>2, <2>3 DEF new
  <1>4. CASE same # {}
    <2>1. ASSUME NEW j \in 1 .. m
          PROVE  /\ p.windows[j] \in PlannedWindow
                 /\ Smaller(p.windows[j].limit, count) \in Nat
      <3>1. p.windows[j] \in PlannedWindow
        BY <1>0
      <3> QED
        BY <3>1 DEF Smaller, PlannedWindow
    <2>2. ASSUME NEW j \in 1 .. m
          PROVE  LET x == [p.windows[j] EXCEPT !.limit = Smaller(p.windows[j].limit, count)]
                 IN  /\ x \in PlannedWindow
                     /\ x.key_index = p.windows[j].key_index
                     /\ x.span_secs = p.windows[j].span_secs
                     /\ x.limit = Smaller(p.windows[j].limit, count)
      BY <2>1 DEF PlannedWindow
    <2>3. DOMAIN p.windows = 1 .. m
      BY <1>0, LenProperties
    <2>4. /\ DOMAIN W = 1 .. m
          /\ \A j \in 1 .. m :
               /\ W[j] \in PlannedWindow
               /\ W[j].key_index = p.windows[j].key_index
               /\ W[j].span_secs = p.windows[j].span_secs
               /\ W[j].limit = IF j \in same THEN Smaller(p.windows[j].limit, count)
                               ELSE p.windows[j].limit
      BY <1>4, <2>1, <2>2, <2>3
    <2>5. W = [j \in 1 .. m |-> W[j]]
      BY <1>4, <2>3
    <2> HIDE DEF R, W
    <2>6. W \in Seq(PlannedWindow) /\ Len(W) = m
      <3>1. W \in [1 .. m -> PlannedWindow]
        BY <2>4, <2>5
      <3> QED
        BY <1>0, <3>1, FunctionIsSeq
    <2>7. q \in PlanType /\ q.bucket_sizes = p.bucket_sizes /\ q.retention_secs = R /\ q.windows = W
      BY <1>0, <1>1, <1>2, <2>6 DEF PlanType
    <2> QED
      BY <1>2, <1>4, <2>4, <2>6, <2>7
  <1> QED
    BY <1>3, <1>4

\* Planning one more window keeps a plan in order, wherever its duration
\* appeared before.
LEMMA AddWindowOK ==
    ASSUME NEW T, NEW p, PlanOK(p, T), T \subseteq Window,
           NEW v \in Window, NEW size \in Ladder, FitsSpan(size, v.secs)
    PROVE  LET b == WithBucket(p, size)
           IN  PlanOK(WithWindow(b, KeyIndex(b, size), v.secs, v.count), T \cup {v})
  <1> DEFINE b == WithBucket(p, size)
             k == KeyIndex(b, size)
             span == v.secs
             count == v.count
             q == WithWindow(b, k, span, count)
             n == Len(b.bucket_sizes)
             m == Len(p.windows)
             same == Same(b, k, span)
  <1>0. ArraysOK(p) /\ KeptOK(p) /\ SizesOK(p) /\ WindowsOK(p, T)
    BY DEF PlanOK
  <1>1. size \in Nat /\ span \in Nat /\ count \in Nat
    BY LadderFacts DEF Window
  <1>2. /\ ArraysOK(b) /\ b.windows = p.windows
        /\ k \in 1 .. n /\ b.bucket_sizes[k] = size
        /\ \A i \in 1 .. Len(p.bucket_sizes) : /\ i \in 1 .. n
                             /\ b.bucket_sizes[i] = p.bucket_sizes[i]
                             /\ b.retention_secs[i] = p.retention_secs[i]
        /\ \A i \in 1 .. n :
             i \in 1 .. Len(p.bucket_sizes) \/ (i = k /\ b.retention_secs[i] = 0)
    BY <1>0, <1>1, WithBucketFacts
  <1> HIDE DEF b, k
  <1>3. /\ q \in PlanType
        /\ q.bucket_sizes = b.bucket_sizes
        /\ Len(q.retention_secs) = Len(b.retention_secs)
        /\ q.retention_secs[k] = Larger(b.retention_secs[k], span)
        /\ \A i \in 1 .. Len(b.retention_secs) :
             i # k => q.retention_secs[i] = b.retention_secs[i]
        /\ same = {} =>
             /\ Len(q.windows) = m + 1
             /\ \A j \in 1 .. m : q.windows[j] = p.windows[j]
             /\ q.windows[m + 1] = [key_index |-> k, span_secs |-> span, limit |-> count]
        /\ same # {} =>
             /\ Len(q.windows) = m
             /\ \A j \in 1 .. m :
                 /\ q.windows[j].key_index = p.windows[j].key_index
                 /\ q.windows[j].span_secs = p.windows[j].span_secs
                 /\ q.windows[j].limit = IF j \in same
                                         THEN Smaller(p.windows[j].limit, count)
                                         ELSE p.windows[j].limit
    <2>0. ArraysOK(b) /\ k \in 1 .. Len(b.bucket_sizes) /\ span \in Nat /\ count \in Nat
      BY <1>1, <1>2
    <2> HIDE DEF span, count
    <2>1. /\ q \in PlanType
          /\ q.bucket_sizes = b.bucket_sizes
          /\ Len(q.retention_secs) = Len(b.retention_secs)
          /\ q.retention_secs[k] = Larger(b.retention_secs[k], span)
          /\ \A i \in 1 .. Len(b.retention_secs) :
               i # k => q.retention_secs[i] = b.retention_secs[i]
          /\ same = {} =>
               /\ Len(q.windows) = Len(b.windows) + 1
               /\ \A j \in 1 .. Len(b.windows) : q.windows[j] = b.windows[j]
               /\ q.windows[Len(b.windows) + 1]
                    = [key_index |-> k, span_secs |-> span, limit |-> count]
          /\ same # {} =>
               /\ Len(q.windows) = Len(b.windows)
               /\ \A j \in 1 .. Len(b.windows) :
                   /\ q.windows[j].key_index = b.windows[j].key_index
                   /\ q.windows[j].span_secs = b.windows[j].span_secs
                   /\ q.windows[j].limit = IF j \in same
                                           THEN Smaller(b.windows[j].limit, count)
                                           ELSE b.windows[j].limit
      BY <2>0, WithWindowFacts
    <2> HIDE DEF q, same
    <2> QED
      BY <1>2, <2>1
  <1>4. /\ n \in Nat /\ m \in Nat /\ Len(b.retention_secs) = n
        /\ \A i, j \in 1 .. n : b.bucket_sizes[i] = b.bucket_sizes[j] => i = j
        /\ \A j \in 1 .. m : /\ p.windows[j] \in PlannedWindow
                             /\ p.windows[j].key_index \in 1 .. n
                             /\ p.windows[j].key_index \in 1 .. Len(p.bucket_sizes)
                             /\ p.windows[j].span_secs \in Nat /\ p.windows[j].limit \in Nat
        /\ \A i \in 1 .. n : b.retention_secs[i] \in Nat
    <2>1. /\ b.bucket_sizes \in Seq(Nat) /\ b.retention_secs \in Seq(Nat)
          /\ p.windows \in Seq(PlannedWindow)
          /\ Len(b.retention_secs) = n
      BY <1>0, <1>2 DEF ArraysOK, PlanType
    <2>2. ASSUME NEW j \in 1 .. m
          PROVE  p.windows[j] \in PlannedWindow
      BY <2>1
    <2>3. \A j \in 1 .. m : p.windows[j].span_secs \in Nat /\ p.windows[j].limit \in Nat
      BY <2>2 DEF PlannedWindow
    <2>4. \A i, j \in 1 .. n : b.bucket_sizes[i] = b.bucket_sizes[j] => i = j
      BY <1>2 DEF ArraysOK
    <2>5. \A j \in 1 .. m : /\ p.windows[j].key_index \in 1 .. n
                            /\ p.windows[j].key_index \in 1 .. Len(p.bucket_sizes)
      BY <1>0, <1>2 DEF ArraysOK
    <2>6. \A i \in 1 .. n : b.retention_secs[i] \in Nat
      BY <2>1
    <2>7. n \in Nat /\ m \in Nat
      BY <2>1
    <2> HIDE DEF n, m
    <2> QED
      BY <2>1, <2>2, <2>3, <2>4, <2>5, <2>6, <2>7
  <1>5. same = {j \in 1 .. m : p.windows[j].key_index = k /\ p.windows[j].span_secs = span}
    BY <1>2 DEF Same
  <1>6. ASSUME NEW j \in 1 .. m, p.windows[j].span_secs = span
        PROVE  j \in same
    <2> DEFINE s == p.bucket_sizes[p.windows[j].key_index]
    <2>1. s \in Ladder /\ FitsSpan(s, span)
      BY <1>0, <1>4, <1>6 DEF SizesOK
    <2>2. s = size
      BY <1>1, <2>1, OneSizeFits
    <2>3. b.bucket_sizes[p.windows[j].key_index] = b.bucket_sizes[k]
      BY <1>2, <1>4, <2>2
    <2>4. p.windows[j].key_index = k
      BY <1>2, <1>4, <2>3
    <2> QED
      BY <1>5, <1>6, <2>4
  <1> HIDE DEF q, n, m, same, span, count
  <1> DEFINE M == Len(q.windows)
  <1>7. /\ 1 .. m \subseteq 1 .. M
        /\ \A j \in 1 .. m : /\ q.windows[j].key_index = p.windows[j].key_index
                             /\ q.windows[j].span_secs = p.windows[j].span_secs
                             /\ q.windows[j].limit \in Nat
                             /\ q.windows[j].limit = IF j \in same
                                                     THEN Smaller(p.windows[j].limit, count)
                                                     ELSE p.windows[j].limit
        /\ \A j \in 1 .. M : j \in 1 .. m
                             \/ (/\ same = {}
                                 /\ q.windows[j].key_index = k
                                 /\ q.windows[j].span_secs = span
                                 /\ q.windows[j].limit = count
                                 /\ j = m + 1)
        /\ \E j \in 1 .. M : q.windows[j].key_index = k /\ q.windows[j].span_secs = span
    <2>1. CASE same = {}
      <3>1. M = m + 1 /\ m + 1 \in 1 .. M /\ \A j \in 1 .. M : j \in 1 .. m \/ j = m + 1
        BY <1>3, <1>4, <2>1
      <3>2. \A j \in 1 .. m : q.windows[j] = p.windows[j]
        BY <1>3, <2>1
      <3>3. q.windows[m + 1] = [key_index |-> k, span_secs |-> span, limit |-> count]
        BY <1>3, <2>1
      <3>4. 1 .. m \subseteq 1 .. M
        BY <1>4, <3>1
      <3> HIDE DEF M
      <3>5. /\ q.windows[m + 1].key_index = k /\ q.windows[m + 1].span_secs = span
            /\ q.windows[m + 1].limit = count
        BY <3>3
      <3> QED
        BY <1>4, <2>1, <3>1, <3>2, <3>4, <3>5
    <2>2. CASE same # {}
      <3>1. M = m
        BY <1>3, <2>2
      <3>2. \A j \in 1 .. m : /\ q.windows[j].key_index = p.windows[j].key_index
                              /\ q.windows[j].span_secs = p.windows[j].span_secs
                              /\ q.windows[j].limit = IF j \in same
                                                      THEN Smaller(p.windows[j].limit, count)
                                                      ELSE p.windows[j].limit
        BY <1>3, <2>2
      <3>3. \A j \in 1 .. m : q.windows[j].limit \in Nat
        BY <1>1, <1>4, <3>2 DEF Smaller, count
      <3>4. PICK j \in same : TRUE
        BY <2>2
      <3>5. j \in 1 .. m /\ q.windows[j].key_index = k /\ q.windows[j].span_secs = span
        BY <1>5, <3>2
      <3> HIDE DEF M
      <3> QED
        BY <3>1, <3>2, <3>3, <3>5
    <2> QED
      BY <2>1, <2>2
  <1> HIDE DEF M
  <1>8. span \in Nat /\ count \in Nat
    BY <1>1 DEF span, count
  <1>9. ArraysOK(q)
    <2>1. \A j \in 1 .. M : q.windows[j].key_index \in 1 .. n
      BY <1>2, <1>4, <1>7
    <2> QED
      BY <1>3, <1>4, <2>1 DEF ArraysOK, M, n
  <1>10. KeptOK(q)
    <2> SUFFICES ASSUME NEW i \in 1 .. n
                 PROVE  /\ \A j \in 1 .. M : q.windows[j].key_index = i =>
                              q.windows[j].span_secs <= q.retention_secs[i]
                        /\ \E j \in 1 .. M :
                              /\ q.windows[j].key_index = i
                              /\ q.windows[j].span_secs = q.retention_secs[i]
      BY <1>3 DEF KeptOK, M, n
    <2>1. CASE i # k
      <3>1. i \in 1 .. Len(p.bucket_sizes) /\ q.retention_secs[i] = p.retention_secs[i]
        BY <1>2, <1>3, <1>4, <2>1 DEF n
      <3>2. /\ \A j \in 1 .. m : p.windows[j].key_index = i =>
                  p.windows[j].span_secs <= p.retention_secs[i]
            /\ \E j \in 1 .. m : /\ p.windows[j].key_index = i
                                 /\ p.windows[j].span_secs = p.retention_secs[i]
        BY <1>0, <3>1 DEF KeptOK, m
      <3> QED
        BY <1>7, <2>1, <3>1, <3>2
    <2>2. CASE i = k
      <3> DEFINE old == b.retention_secs[k]
      <3>1. /\ q.retention_secs[k] = Larger(old, span) /\ old \in Nat
        BY <1>2, <1>3, <1>4 DEF n
      <3>2. \A j \in 1 .. m : p.windows[j].key_index = k => p.windows[j].span_secs <= old
        BY <1>0, <1>2, <1>4 DEF KeptOK, m
      <3>3. old = 0 \/ \E j \in 1 .. m : p.windows[j].key_index = k
                                         /\ p.windows[j].span_secs = old
        BY <1>0, <1>2 DEF KeptOK, m, n
      <3> HIDE DEF old
      <3>4. old <= Larger(old, span) /\ span <= Larger(old, span) /\ Larger(old, span) \in Nat
        BY <1>8, <3>1 DEF Larger
      <3>5. ASSUME NEW j \in 1 .. M, q.windows[j].key_index = k
            PROVE  q.windows[j].span_secs <= Larger(old, span)
        <4>1. CASE j \in 1 .. m
          <5>1. /\ q.windows[j].span_secs = p.windows[j].span_secs
                /\ p.windows[j].span_secs \in Nat /\ p.windows[j].span_secs <= old
            BY <1>4, <1>7, <3>2, <3>5, <4>1
          <5> QED
            BY <3>1, <3>4, <5>1
        <4>2. CASE j \notin 1 .. m
          <5>1. q.windows[j].span_secs = span
            BY <1>7, <4>2
          <5> QED
            BY <3>4, <5>1
        <4> QED
          BY <4>1, <4>2
      <3>6. \E j \in 1 .. M : /\ q.windows[j].key_index = k
                              /\ q.windows[j].span_secs = Larger(old, span)
        <4>1. CASE Larger(old, span) = span
          BY <1>7, <4>1
        <4>2. CASE Larger(old, span) # span
          <5>1. Larger(old, span) = old /\ old # 0
            BY <1>8, <3>1, <4>2 DEF Larger
          <5>2. PICK j \in 1 .. m : p.windows[j].key_index = k /\ p.windows[j].span_secs = old
            BY <3>3, <5>1
          <5> QED
            BY <1>7, <5>1, <5>2
        <4> QED
          BY <4>1, <4>2
      <3> QED
        BY <2>2, <3>1, <3>5, <3>6
    <2> QED
      BY <2>1, <2>2
  <1>11. SizesOK(q)
    <2>1. ASSUME NEW i \in 1 .. n PROVE b.bucket_sizes[i] \in Ladder
      BY <1>0, <1>2 DEF SizesOK, n
    <2>2. ASSUME NEW j \in 1 .. M
          PROVE  FitsSpan(b.bucket_sizes[q.windows[j].key_index], q.windows[j].span_secs)
      <3>1. CASE j \in 1 .. m
        <4>1. FitsSpan(p.bucket_sizes[p.windows[j].key_index], p.windows[j].span_secs)
          BY <1>0, <3>1 DEF SizesOK, m
        <4>2. b.bucket_sizes[p.windows[j].key_index] = p.bucket_sizes[p.windows[j].key_index]
          BY <1>2, <1>4, <3>1
        <4> QED
          BY <1>7, <3>1, <4>1, <4>2
      <3>2. CASE j \notin 1 .. m
        BY <1>2, <1>7, <3>2 DEF span
      <3> QED
        BY <3>1, <3>2
    <2> QED
      BY <1>3, <2>1, <2>2 DEF SizesOK, n, M
  <1>12. WindowsOK(q, T \cup {v})
    <2> DEFINE U == T \cup {v}
    <2>0. /\ \A t \in U : t.count \in Nat /\ t.secs \in Nat
          /\ v.secs = span /\ v.count = count
      BY DEF Window, span, count
    <2>1. ASSUME NEW i \in 1 .. M, NEW j \in 1 .. M,
                 q.windows[i].span_secs = q.windows[j].span_secs
          PROVE  i = j
      <3>1. \A x, y \in 1 .. m : p.windows[x].span_secs = p.windows[y].span_secs => x = y
        BY <1>0 DEF WindowsOK, m
      <3>2. CASE i \in 1 .. m /\ j \in 1 .. m
        BY <1>7, <2>1, <3>1, <3>2
      <3>3. CASE i \notin 1 .. m
        BY <1>6, <1>7, <2>1, <3>3
      <3>4. CASE j \notin 1 .. m
        BY <1>6, <1>7, <2>1, <3>4
      <3> QED
        BY <3>2, <3>3, <3>4
    <2>2. ASSUME NEW j \in 1 .. M
          PROVE  /\ \A t \in U : t.secs = q.windows[j].span_secs => q.windows[j].limit <= t.count
                 /\ \E t \in U : t.secs = q.windows[j].span_secs /\ q.windows[j].limit = t.count
      <3>1. ASSUME NEW x \in 1 .. m
            PROVE  /\ \A t \in T : t.secs = p.windows[x].span_secs => p.windows[x].limit <= t.count
                   /\ \E t \in T : t.secs = p.windows[x].span_secs /\ p.windows[x].limit = t.count
        BY <1>0 DEF WindowsOK, m
      <3>2. CASE j \in 1 .. m /\ j \notin same
        <4>1. /\ q.windows[j].limit = p.windows[j].limit
              /\ q.windows[j].span_secs = p.windows[j].span_secs
              /\ p.windows[j].span_secs # span
          BY <1>6, <1>7, <3>2
        <4> QED
          BY <2>0, <3>1, <3>2, <4>1
      <3>3. CASE j \in 1 .. m /\ j \in same
        <4>1. /\ q.windows[j].limit = Smaller(p.windows[j].limit, count)
              /\ q.windows[j].span_secs = p.windows[j].span_secs
              /\ p.windows[j].span_secs = span /\ p.windows[j].limit \in Nat
          BY <1>4, <1>5, <1>7, <3>3
        <4>2. /\ Smaller(p.windows[j].limit, count) <= p.windows[j].limit
              /\ Smaller(p.windows[j].limit, count) <= count
              /\ Smaller(p.windows[j].limit, count) \in {p.windows[j].limit, count}
          BY <1>8, <4>1 DEF Smaller
        <4>3. ASSUME NEW t \in U, t.secs = span
              PROVE  Smaller(p.windows[j].limit, count) <= t.count
          <5>1. CASE t \in T
            <6>1. p.windows[j].limit <= t.count
              BY <3>1, <3>3, <4>1, <4>3, <5>1
            <6> QED
              BY <1>8, <2>0, <4>1, <4>2, <6>1
          <5>2. CASE t = v
            BY <2>0, <4>2, <5>2
          <5> QED
            BY <5>1, <5>2
        <4>4. \E t \in U : t.secs = span /\ Smaller(p.windows[j].limit, count) = t.count
          <5>1. CASE Smaller(p.windows[j].limit, count) = count
            BY <2>0, <5>1
          <5>2. CASE Smaller(p.windows[j].limit, count) = p.windows[j].limit
            BY <3>1, <3>3, <4>1, <5>2
          <5> QED
            BY <4>2, <5>1, <5>2
        <4> QED
          BY <4>1, <4>3, <4>4
      <3>4. CASE j \notin 1 .. m
        <4>1. same = {} /\ q.windows[j].span_secs = span /\ q.windows[j].limit = count
          BY <1>7, <3>4
        <4>2. ASSUME NEW t \in T PROVE t.secs # span
          <5>1. PICK x \in 1 .. m : p.windows[x].span_secs = t.secs
            BY <1>0 DEF WindowsOK, m
          <5> QED
            BY <1>6, <4>1, <5>1
        <4> QED
          BY <1>8, <2>0, <4>1, <4>2
      <3> QED
        BY <3>2, <3>3, <3>4
    <2>3. ASSUME NEW t \in U PROVE \E j \in 1 .. M : q.windows[j].span_secs = t.secs
      <3>1. CASE t \in T
        <4>1. PICK x \in 1 .. m : p.windows[x].span_secs = t.secs
          BY <1>0, <3>1 DEF WindowsOK, m
        <4> QED
          BY <1>7, <4>1
      <3>2. CASE t = v
        BY <1>7, <2>0, <3>2
      <3> QED
        BY <3>1, <3>2
    <2> QED
      BY <2>1, <2>2, <2>3 DEF WindowsOK, M
  <1> QED
    BY <1>9, <1>10, <1>11, <1>12 DEF PlanOK, q, k, b, span, count

----------------------------------------------------------------------------
(* The inductive invariant *)

NothingPlanned == [bucket_sizes |-> << >>, retention_secs |-> << >>, windows |-> << >>]

\* A duration that validate_windows accepts.
Valid(w) == MIN_WINDOW <= w.secs /\ w.secs <= MAX_WINDOW

\* What build_plan and validate_windows have established before a rule is
\* planned.
RuleOK ==
    \/ rule.windows = Absent /\ rule.unrestricted = TRUE
    \/ /\ rule.windows # Absent /\ Len(rule.windows) > 0
       /\ \A j \in 1 .. Len(rule.windows) : Valid(rule.windows[j])

\* Where the loops are.
Control ==
    /\ result = "none" <=> pc # "done"
    /\ pc \in {"match", "validate"} \/ result \in Errors => plan = NothingPlanned
    /\ pc = "match" => index = 1
    /\ pc = "validate" =>
        /\ rule.windows # Absent /\ index \in 1 .. Len(rule.windows) + 1
        /\ \A j \in 1 .. Len(rule.windows) : j < index => Valid(rule.windows[j])
    /\ pc \in {"window", "bucket"} \/ result = "Ok" => RuleOK
    /\ pc = "window" => index \in 1 .. Len(Slice) + 1
    /\ result = "Ok" => index > Len(Slice)
    /\ pc = "bucket" =>
        /\ index \in 1 .. Len(Slice) /\ secs \in Ladder
        /\ secs * BUCKET_TARGET_COUNT <= window.secs

\* The plan is in order for the windows that have been planned.
PlanInv == result \in {"none", "Ok"} => PlanOK(plan, Taken)

IInv == TypeOK /\ Control /\ PlanInv

\* A plan without windows is in order.
LEMMA EmptyPlanOK == PlanOK(NothingPlanned, {}) /\ NothingPlanned \in PlanType
  BY EmptySeq DEF PlanOK, ArraysOK, KeptOK, SizesOK, WindowsOK, NothingPlanned, PlanType

\* The slice is a sequence of windows.
LEMMA SliceType ==
    ASSUME rule \in Rule
    PROVE  /\ Slice \in Seq(Window)
           /\ rule.windows # Absent => Slice = rule.windows
           /\ rule.windows = Absent => Slice = << >>
  BY EmptySeq DEF Rule, Slice

\* What has been planned comes from the file.
LEMMA TakenType == ASSUME rule \in Rule PROVE Taken \subseteq Window
  <1> SUFFICES ASSUME NEW j \in 1 .. Len(Slice) PROVE rule.windows[j] \in Window
    BY DEF Taken
  <1>1. rule.windows # Absent
    BY SliceType, EmptySeq
  <1>2. rule.windows \in Seq(Window) /\ j \in 1 .. Len(rule.windows)
    BY <1>1, SliceType
  <1> QED
    BY <1>2

\* IInv holds initially.
LEMMA InitInv == Init => IInv
  <1> SUFFICES ASSUME Init PROVE IInv
    OBVIOUS
  <1> USE DEF Init
  <1>1. plan = NothingPlanned /\ rule \in Rule
    BY RulesAssumption DEF NothingPlanned
  <1>2. TypeOK
    BY <1>1, EmptyPlanOK DEF TypeOK, PlanType
  <1>3. Control
    BY <1>1 DEF Control, Errors
  <1>4. Taken = {}
    BY DEF Taken
  <1>5. PlanInv
    BY <1>1, <1>4, EmptyPlanOK DEF PlanInv
  <1> QED
    BY <1>2, <1>3, <1>5 DEF IInv

\* An early return leaves no plan.
LEMMA FailInv ==
    ASSUME IInv, NEW error \in Errors, pc \in {"match", "validate"}, Fail(error)
    PROVE  IInv'
  <1>1. TypeOK'
    BY DEF IInv, TypeOK, Fail
  <1>2. result' \notin {"none", "Ok"}
    BY DEF Fail, Errors
  <1>3. Control' /\ PlanInv'
    BY <1>2 DEF IInv, Control, PlanInv, Fail
  <1> QED
    BY <1>1, <1>3 DEF IInv

\* A window that is about to be planned.
LEMMA CurrentWindow ==
    ASSUME IInv, pc \in {"window", "bucket"}, index \in 1 .. Len(Slice)
    PROVE  /\ window \in Window /\ Valid(window)
           /\ rule.windows # Absent /\ Slice = rule.windows
  <1>1. rule \in Rule
    BY DEF IInv, TypeOK
  <1>2. rule.windows # Absent
    BY <1>1, SliceType, EmptySeq
  <1>3. Slice = rule.windows /\ rule.windows \in Seq(Window)
    BY <1>1, <1>2, SliceType
  <1>4. RuleOK
    BY DEF IInv, Control
  <1> QED
    BY <1>2, <1>3, <1>4 DEF RuleOK, window

\* The size at which bucket_size stops fits the window.
LEMMA StopsAtFit ==
    ASSUME IInv, pc = "bucket", ~ Doubles
    PROVE  secs \in Ladder /\ window \in Window /\ FitsSpan(secs, window.secs)
  <1> DEFINE B == BUCKET_TARGET_COUNT
             d == secs * 2
             w == window.secs
  <1>1. secs \in Ladder /\ secs * B <= w /\ index \in 1 .. Len(Slice)
    BY DEF IInv, Control
  <1>2. window \in Window /\ Valid(window)
    BY <1>1, CurrentWindow
  <1>3. /\ secs \in Nat \ {0} /\ d \in Nat \ {0} /\ B \in Nat /\ w \in Nat
        /\ MAX_BUCKET \in Nat /\ MAX_WINDOW \in Nat /\ w <= MAX_WINDOW
        /\ MAX_WINDOW < MAX_BUCKET * B
    BY <1>1, <1>2, LadderDown, SizesAssumption DEF Window, Valid
  <1>4. ~ (d <= MAX_BUCKET) \/ ~ (w \div d >= B)
    BY DEF Doubles
  <1> HIDE DEF d, w, B
  <1>5. w < d * B
    <2>1. CASE ~ (d <= MAX_BUCKET)
      <3>1. MAX_BUCKET * B <= d * B
        BY <1>3, <2>1
      <3> QED
        BY <1>3, <3>1
    <2>2. CASE ~ (w \div d >= B)
      <3>1. ~ (B * d <= w)
        BY <1>3, <2>2, DivAtLeast
      <3> QED
        BY <1>3, <3>1
    <2> QED
      BY <1>4, <2>1, <2>2
  <1>6. d = 2 * secs
    BY <1>3 DEF d
  <1> QED
    BY <1>1, <1>2, <1>5, <1>6 DEF FitsSpan, B, w

\* IInv is inductive.
LEMMA NextInv == IInv /\ [Next]_vars => IInv'
  <1> SUFFICES ASSUME IInv, [Next]_vars PROVE IInv'
    OBVIOUS
  <1>0. /\ TypeOK /\ Control /\ PlanInv
        /\ rule \in Rule /\ index \in Nat /\ secs \in Nat
    BY DEF IInv, TypeOK
  <1>a. Taken \subseteq Window
    BY <1>0, TakenType
  <1>1. CASE MatchUnrestricted
    <2>1. TypeOK'
      BY <1>0, <1>1 DEF TypeOK, MatchUnrestricted
    <2>2. plan = NothingPlanned /\ index = 1 /\ pc' = "window" /\ result = "none"
          /\ UNCHANGED <<rule, index, secs, plan, result>>
      BY <1>0, <1>1 DEF MatchUnrestricted, Control
    <2>3. Slice' = << >> /\ Len(<< >>) = 0
      BY <1>0, <1>1, <2>2, SliceType DEF MatchUnrestricted, Slice
    <2>4. Control'
      BY <1>1, <2>2, <2>3 DEF MatchUnrestricted, Control, RuleOK, Errors
    <2>5. Taken' = {}
      BY <2>3 DEF Taken
    <2> QED
      BY <2>1, <2>2, <2>4, <2>5, EmptyPlanOK DEF IInv, PlanInv
  <1>2. CASE MatchWindows
    <2>1. TypeOK'
      BY <1>0, <1>2 DEF TypeOK, MatchWindows
    <2>2. plan = NothingPlanned /\ index = 1 /\ pc' = "validate" /\ result = "none"
          /\ rule.windows # Absent /\ UNCHANGED <<rule, index, secs, plan, result>>
      BY <1>0, <1>2 DEF MatchWindows, Control
    <2>3. rule.windows \in Seq(Window)
      BY <1>0, <2>2 DEF Rule
    <2>4. Len(rule.windows) \in Nat
      BY <2>3
    <2>5. Control'
      BY <2>2, <2>4 DEF Control, Errors
    <2>6. Taken' = {}
      BY <2>2 DEF Taken
    <2> QED
      BY <2>1, <2>2, <2>5, <2>6, EmptyPlanOK DEF IInv, PlanInv
  <1>3. CASE MatchError
    <2>1. \E error \in Errors : Fail(error) /\ pc = "match"
      BY <1>3 DEF MatchError, Errors
    <2> QED
      BY <2>1, FailInv
  <1>4. CASE ValidateEmpty
    <2>1. \E error \in Errors : Fail(error) /\ pc = "validate"
      BY <1>4 DEF ValidateEmpty, Errors
    <2> QED
      BY <2>1, FailInv
  <1>5. CASE ValidateWindow
    <2>0. CASE \E error \in Errors : Fail(error) /\ pc = "validate"
      BY <2>0, FailInv
    <2>1. CASE /\ pc = "validate" /\ index \in 1 .. Len(rule.windows)
               /\ ~ TooShort /\ ~ TooLong /\ index' = index + 1
               /\ UNCHANGED <<rule, pc, secs, plan, result>>
      <3>1. TypeOK'
        BY <1>0, <2>1 DEF TypeOK
      <3>2. rule.windows # Absent /\ plan = NothingPlanned /\ result = "none"
            /\ \A j \in 1 .. Len(rule.windows) : j < index => Valid(rule.windows[j])
        BY <1>0, <2>1 DEF Control
      <3>3. rule.windows \in Seq(Window) /\ Len(rule.windows) \in Nat
        BY <1>0, <3>2 DEF Rule
      <3>4. window.secs \in Nat
        <4>1. window \in Window
          BY <2>1, <3>3 DEF window
        <4> QED
          BY <4>1 DEF Window
      <3>5. Valid(rule.windows[index])
        BY <2>1, <3>4, SizesAssumption DEF Valid, TooShort, TooLong, window
      <3>6. \A j \in 1 .. Len(rule.windows) : j < index + 1 => Valid(rule.windows[j])
        BY <1>0, <3>2, <3>3, <3>5
      <3>7. index + 1 \in 1 .. Len(rule.windows) + 1
        BY <2>1, <3>3
      <3>8. Control'
        BY <2>1, <3>2, <3>6, <3>7 DEF Control, Errors
      <3>9. Taken' = {}
        BY <2>1 DEF Taken
      <3> QED
        BY <2>1, <3>1, <3>2, <3>8, <3>9, EmptyPlanOK DEF IInv, PlanInv
    <2> QED
      BY <1>5, <2>0, <2>1 DEF ValidateWindow, Errors
  <1>6. CASE ValidateEnd
    <2>1. TypeOK'
      BY <1>0, <1>6 DEF TypeOK, ValidateEnd
    <2>2. /\ pc = "validate" /\ Len(rule.windows) > 0 /\ index > Len(rule.windows)
          /\ pc' = "window" /\ index' = 1 /\ UNCHANGED <<rule, secs, plan, result>>
      BY <1>6 DEF ValidateEnd
    <2>3. rule.windows # Absent /\ plan = NothingPlanned /\ result = "none"
          /\ \A j \in 1 .. Len(rule.windows) : j < index => Valid(rule.windows[j])
      BY <1>0, <2>2 DEF Control
    <2>4. rule.windows \in Seq(Window) /\ Len(rule.windows) \in Nat /\ Slice' = rule.windows
      BY <1>0, <2>2, <2>3, SliceType DEF Slice, Rule
    <2>5. \A j \in 1 .. Len(rule.windows) : j < index
      BY <1>0, <2>2, <2>4
    <2>6. RuleOK'
      BY <2>2, <2>3, <2>5 DEF RuleOK
    <2>7. 1 \in 1 .. Len(rule.windows) + 1 /\ ~ (\E j \in 1 .. Len(rule.windows) : j < 1)
      BY <2>4
    <2>8. Control'
      BY <2>2, <2>3, <2>4, <2>6, <2>7 DEF Control, Errors
    <2>9. Taken' = {}
      BY <2>2, <2>4, <2>7 DEF Taken
    <2> QED
      BY <2>1, <2>2, <2>3, <2>8, <2>9, EmptyPlanOK DEF IInv, PlanInv
  <1>7. CASE NextWindow
    <2>1. /\ pc = "window" /\ index <= Len(Slice) /\ secs' = MIN_BUCKET /\ pc' = "bucket"
          /\ UNCHANGED <<rule, index, plan, result>>
      BY <1>7 DEF NextWindow
    <2>2. result = "none" /\ index \in 1 .. Len(Slice) + 1 /\ RuleOK
      BY <1>0, <2>1 DEF Control
    <2>3. Len(Slice) \in Nat
      BY <1>0, SliceType
    <2>4. index \in 1 .. Len(Slice)
      BY <2>1, <2>2, <2>3
    <2>5. window \in Window /\ Valid(window)
      BY <2>1, <2>4, CurrentWindow
    <2>6. MIN_BUCKET * BUCKET_TARGET_COUNT <= window.secs /\ MIN_BUCKET \in Nat
      <3>1. window.secs \in Nat /\ MIN_WINDOW <= window.secs
        BY <2>5 DEF Window, Valid
      <3>2. MIN_BUCKET * BUCKET_TARGET_COUNT \in Nat
        BY SizesAssumption
      <3> QED
        BY <3>1, <3>2, SizesAssumption
    <2>7. Slice' = Slice /\ window' = window /\ RuleOK'
      BY <2>1, <2>2 DEF Slice, window, RuleOK
    <2>8. Control'
      BY <2>1, <2>2, <2>4, <2>6, <2>7, LadderFacts DEF Control, Errors
    <2>9. Taken' = Taken
      BY <2>1, <2>7 DEF Taken
    <2>10. TypeOK'
      BY <1>0, <2>1, <2>6 DEF TypeOK
    <2> QED
      BY <1>0, <2>1, <2>8, <2>9, <2>10 DEF IInv, PlanInv
  <1>8. CASE DoubleBucket
    <2>1. /\ pc = "bucket" /\ Doubles /\ secs' = secs * 2
          /\ UNCHANGED <<rule, pc, index, plan, result>>
      BY <1>8 DEF DoubleBucket
    <2>2. result = "none" /\ index \in 1 .. Len(Slice) /\ RuleOK /\ secs \in Ladder
      BY <1>0, <2>1 DEF Control
    <2>3. window.secs \in Nat /\ BUCKET_TARGET_COUNT \in Nat /\ secs \in Nat \ {0}
      BY <2>1, <2>2, CurrentWindow, LadderDown, SizesAssumption DEF Window
    <2>4. secs * 2 \in Nat \ {0} /\ secs * 2 = 2 * secs
      BY <2>3
    <2>5. BUCKET_TARGET_COUNT * (secs * 2) <= window.secs
      BY <2>1, <2>3, <2>4, DivAtLeast DEF Doubles
    <2>6. (secs * 2) * BUCKET_TARGET_COUNT <= window.secs
      BY <2>3, <2>4, <2>5
    <2>7. secs * 2 \in Ladder
      BY <2>2, <2>4, LadderFacts
    <2>8. Slice' = Slice /\ window' = window /\ RuleOK'
      BY <2>1, <2>2 DEF Slice, window, RuleOK
    <2>9. Control'
      BY <2>1, <2>2, <2>6, <2>7, <2>8 DEF Control, Errors
    <2>10. Taken' = Taken
      BY <2>1, <2>8 DEF Taken
    <2>11. TypeOK'
      BY <1>0, <2>1, <2>4 DEF TypeOK
    <2> QED
      BY <1>0, <2>1, <2>9, <2>10, <2>11 DEF IInv, PlanInv
  <1>9. CASE AddWindow
    <2> DEFINE b == WithBucket(plan, secs)
               q == WithWindow(b, KeyIndex(b, secs), window.secs, window.count)
    <2>1. /\ pc = "bucket" /\ ~ Doubles /\ plan' = q /\ pc' = "window" /\ index' = index + 1
          /\ UNCHANGED <<rule, secs, result>>
      BY <1>9 DEF AddWindow
    <2>2. result = "none" /\ index \in 1 .. Len(Slice) /\ RuleOK
      BY <1>0, <2>1 DEF Control
    <2>3. secs \in Ladder /\ window \in Window /\ FitsSpan(secs, window.secs)
      BY <2>1, StopsAtFit
    <2>4. PlanOK(plan, Taken)
      BY <1>0, <2>2 DEF PlanInv
    <2>5. PlanOK(q, Taken \cup {window})
      BY <1>a, <2>3, <2>4, AddWindowOK
    <2> HIDE DEF q
    <2>6. Slice' = Slice /\ RuleOK' /\ Len(Slice) \in Nat
      BY <1>0, <2>1, <2>2, SliceType DEF Slice, RuleOK
    <2>7. Taken' = Taken \cup {window}
      <3>1. \A j \in 1 .. Len(Slice) : j < index + 1 <=> j < index \/ j = index
        BY <1>0, <2>6
      <3>2. Taken = {rule.windows[j] : j \in {j \in 1 .. Len(Slice) : j < index}}
        BY <2>1 DEF Taken
      <3>3. Taken' = {rule.windows[j] : j \in {j \in 1 .. Len(Slice) : j < index + 1}}
        BY <2>1, <2>6 DEF Taken
      <3> QED
        BY <2>2, <3>1, <3>2, <3>3 DEF window
    <2>8. index + 1 \in 1 .. Len(Slice) + 1
      BY <2>2, <2>6
    <2>9. Control'
      BY <2>1, <2>2, <2>6, <2>8 DEF Control, Errors
    <2>10. q \in PlanType
      BY <2>5 DEF PlanOK, ArraysOK
    <2>11. TypeOK'
      BY <1>0, <2>1, <2>10 DEF TypeOK, PlanType
    <2> QED
      BY <2>1, <2>5, <2>7, <2>9, <2>11 DEF IInv, PlanInv
  <1>10. CASE Finish
    <2>1. /\ pc = "window" /\ index > Len(Slice) /\ pc' = "done" /\ result' = "Ok"
          /\ UNCHANGED <<rule, index, secs, plan>>
      BY <1>10 DEF Finish
    <2>2. result = "none" /\ RuleOK
      BY <1>0, <2>1 DEF Control
    <2>3. Slice' = Slice /\ RuleOK'
      BY <2>1, <2>2 DEF Slice, RuleOK
    <2>4. Control'
      BY <2>1, <2>2, <2>3 DEF Control, Errors
    <2>5. Taken' = Taken
      BY <2>1, <2>3 DEF Taken
    <2>6. TypeOK'
      BY <1>0, <2>1 DEF TypeOK
    <2> QED
      BY <1>0, <2>1, <2>2, <2>4, <2>5, <2>6 DEF IInv, PlanInv
  <1>11. CASE UNCHANGED vars
    <2>1. Slice' = Slice /\ window' = window
      BY <1>11 DEF vars, Slice, window
    <2>2. TypeOK' /\ Control' /\ Taken' = Taken
      BY <1>0, <1>11, <2>1 DEF vars, TypeOK, Control, RuleOK, Taken
    <2> QED
      BY <1>0, <1>11, <2>2 DEF vars, IInv, PlanInv
  <1> QED
    BY <1>1, <1>2, <1>3, <1>4, <1>5, <1>6, <1>7, <1>8, <1>9, <1>10, <1>11 DEF Next

\* IInv holds of every behaviour.
LEMMA Invariance == Spec => []IInv
  BY InitInv, NextInv, PTL DEF Spec

----------------------------------------------------------------------------
(* Theorems *)

\* n different values are n values.
LEMMA DistinctValues ==
    ASSUME NEW f, NEW n \in Nat, \A i, j \in 1 .. n : f[i] = f[j] => i = j
    PROVE  Cardinality({f[i] : i \in 1 .. n}) = n
  <1> DEFINE S == {f[i] : i \in 1 .. n}
             g == [i \in 1 .. n |-> f[i]]
  <1>1. g \in Surjection(1 .. n, S)
    BY DEF Surjection
  <1>2. g \in Injection(1 .. n, S)
    BY DEF Injection, IsInjective
  <1>3. IsFiniteSet(1 .. n) /\ Cardinality(1 .. n) = n
    <2>1. 1 \in Int /\ n \in Int
      OBVIOUS
    <2>2. /\ IsFiniteSet(1 .. n)
          /\ Cardinality(1 .. n) = IF 1 > n THEN 0 ELSE n - 1 + 1
      BY <2>1, FS_Interval
    <2> QED
      BY <2>2
  <1> HIDE DEF g, S
  <1>4. Cardinality(S) = Cardinality(1 .. n)
    BY <1>1, <1>2, <1>3, FS_Surjection
  <1> QED
    BY <1>3, <1>4 DEF S

\* The plan is in order for some windows in every state.
LEMMA AlwaysPlanOK == ASSUME IInv PROVE \E T : PlanOK(plan, T)
  <1>1. CASE result \in {"none", "Ok"}
    BY <1>1 DEF IInv, PlanInv
  <1>2. CASE result \notin {"none", "Ok"}
    <2>1. plan = NothingPlanned
      BY <1>2 DEF IInv, TypeOK, Control
    <2> QED
      BY <2>1, EmptyPlanOK
  <1> QED
    BY <1>1, <1>2

\* CheckPlan::new gives what module Limiter assumes of a plan, for any list of
\* windows: arrays that belong together, no bucket size twice, and the
\* retention of a key that of its longest window.
THEOREM PlanSound == Spec => []PlanIsSound
  <1>1. ASSUME IInv PROVE PlanIsSound
    <2>1. PICK T : PlanOK(plan, T)
      BY <1>1, AlwaysPlanOK
    <2>2. ArraysOK(plan) /\ KeptOK(plan)
      BY <2>1 DEF PlanOK
    <2>3. Len(plan.bucket_sizes) \in Nat
      BY <2>2 DEF ArraysOK, PlanType
    <2>4. Cardinality(Sizes) = Len(plan.bucket_sizes)
      BY <2>2, <2>3, DistinctValues DEF ArraysOK, Sizes
    <2>5. \A w \in Planned : \E j \in 1 .. Len(plan.windows) : w = plan.windows[j]
      BY DEF Planned
    <2>6. \A w \in Planned : w.key_index \in 1 .. Len(plan.bucket_sizes)
      BY <2>2, <2>5 DEF ArraysOK
    <2>7. ASSUME NEW i \in 1 .. Len(plan.bucket_sizes)
          PROVE  /\ \A w \in Planned : w.key_index = i => w.span_secs <= plan.retention_secs[i]
                 /\ \E w \in Planned : w.key_index = i /\ w.span_secs = plan.retention_secs[i]
      <3>1. \A w \in Planned : w.key_index = i => w.span_secs <= plan.retention_secs[i]
        BY <2>2, <2>5 DEF KeptOK
      <3>2. PICK j \in 1 .. Len(plan.windows) :
                plan.windows[j].key_index = i
                /\ plan.windows[j].span_secs = plan.retention_secs[i]
        BY <2>2 DEF KeptOK
      <3>3. plan.windows[j] \in Planned
        BY DEF Planned
      <3> QED
        BY <3>1, <3>2, <3>3
    <2> QED
      BY <1>1, <2>2, <2>4, <2>6, <2>7 DEF PlanIsSound, IInv, ArraysOK
  <1> QED
    BY <1>1, Invariance, PTL

\* bucket_size fits every window it is asked about: the overcount is at most
\* one part in BUCKET_TARGET_COUNT, and a key needs fewer than twice as many
\* buckets, for all constants that satisfy SizesAssumption.
THEOREM SizesFit == Spec => []BucketSizeFits
  <1>1. ASSUME IInv PROVE BucketSizeFits
    <2>1. PICK T : PlanOK(plan, T)
      BY <1>1, AlwaysPlanOK
    <2>2. ArraysOK(plan) /\ KeptOK(plan) /\ SizesOK(plan)
      BY <2>1 DEF PlanOK
    <2>3. \A w \in Planned : SizeOf(w) * BUCKET_TARGET_COUNT <= w.span_secs
      BY <2>2 DEF Planned, SizeOf, SizesOK, FitsSpan
    <2>4. ASSUME NEW i \in 1 .. Len(plan.retention_secs)
          PROVE  plan.retention_secs[i] \div plan.bucket_sizes[i] < 2 * BUCKET_TARGET_COUNT
      <3> DEFINE r == plan.retention_secs[i]
                 s == plan.bucket_sizes[i]
                 B == BUCKET_TARGET_COUNT
      <3>1. i \in 1 .. Len(plan.bucket_sizes) /\ plan.retention_secs \in Seq(Nat)
        BY <2>2 DEF ArraysOK, PlanType
      <3>2. r \in Nat
        BY <3>1
      <3>3. PICK j \in 1 .. Len(plan.windows) :
                plan.windows[j].key_index = i /\ plan.windows[j].span_secs = r
        BY <2>2, <3>1 DEF KeptOK
      <3>4. FitsSpan(s, r) /\ s \in Ladder
        BY <2>2, <3>1, <3>3 DEF SizesOK
      <3>5. s \in Nat \ {0} /\ B \in Nat /\ 2 * B \in Nat /\ r < (2 * s) * B
        BY <3>4, LadderDown, SizesAssumption DEF FitsSpan
      <3> HIDE DEF r, s, B
      <3>6. (2 * B) * s = (2 * s) * B
        BY <3>5
      <3>7. ~ ((2 * B) * s <= r)
        BY <3>2, <3>5, <3>6
      <3>8. ~ (r \div s >= 2 * B)
        BY <3>2, <3>5, <3>7, DivAtLeast
      <3>9. r \div s \in Nat
        BY <3>2, <3>5
      <3>10. r \div s < 2 * B
        BY <3>5, <3>8, <3>9
      <3> QED
        BY <3>10 DEF r, s, B
    <2> QED
      BY <2>3, <2>4 DEF BucketSizeFits
  <1> QED
    BY <1>1, Invariance, PTL

\* build_plan enforces what the file says, in whatever order and however
\* often a duration is repeated, and a rule gets a plan that checks nothing
\* only by an explicit unrestricted = true.
THEOREM PlanFaithful == Spec => []PlanIsFaithful
  <1>1. ASSUME IInv PROVE PlanIsFaithful
    <2> SUFFICES ASSUME result \in {"none", "Ok"}
                 PROVE  /\ result = "Ok" /\ Planned = {} =>
                            rule.unrestricted = TRUE /\ rule.windows = Absent
                        /\ Cardinality(Planned) = Len(plan.windows)
                        /\ {w.span_secs : w \in Planned} = {t.secs : t \in Taken}
                        /\ \A w \in Planned :
                            /\ \A t \in Taken : t.secs = w.span_secs => w.limit <= t.count
                            /\ \E t \in Taken : t.secs = w.span_secs /\ w.limit = t.count
      BY DEF PlanIsFaithful
    <2> DEFINE m == Len(plan.windows)
    <2>1. ArraysOK(plan) /\ WindowsOK(plan, Taken)
      BY <1>1 DEF IInv, PlanInv, PlanOK
    <2>2. m \in Nat
      BY <2>1 DEF ArraysOK, PlanType
    <2>3. \A i, j \in 1 .. m : plan.windows[i] = plan.windows[j] => i = j
      BY <2>1 DEF WindowsOK
    <2>4. Cardinality(Planned) = m
      BY <2>2, <2>3, DistinctValues DEF Planned
    <2>5. /\ \A w \in Planned : \E j \in 1 .. m : w = plan.windows[j]
          /\ \A j \in 1 .. m : plan.windows[j] \in Planned
      BY DEF Planned
    <2>6. \A w \in Planned :
            /\ \A t \in Taken : t.secs = w.span_secs => w.limit <= t.count
            /\ \E t \in Taken : t.secs = w.span_secs /\ w.limit = t.count
      BY <2>1, <2>5 DEF WindowsOK
    <2>7. \A t \in Taken : \E w \in Planned : w.span_secs = t.secs
      BY <2>1, <2>5 DEF WindowsOK
    <2>8. {w.span_secs : w \in Planned} = {t.secs : t \in Taken}
      BY <2>6, <2>7
    <2>9. ASSUME result = "Ok", Planned = {}
          PROVE  rule.unrestricted = TRUE /\ rule.windows = Absent
      <3>1. RuleOK /\ index > Len(Slice) /\ rule \in Rule /\ pc = "done" /\ index \in Nat
        BY <1>1, <2>9 DEF IInv, Control, TypeOK
      <3>2. Taken = {}
        BY <2>7, <2>9
      <3>3. ASSUME rule.windows # Absent, Len(rule.windows) > 0 PROVE FALSE
        <4>1. Slice = rule.windows /\ rule.windows \in Seq(Window)
          BY <3>1, <3>3, SliceType
        <4>2. 1 \in 1 .. Len(Slice) /\ 1 < index
          BY <3>1, <3>3, <4>1
        <4>3. rule.windows[1] \in Taken
          BY <3>1, <4>2 DEF Taken
        <4> QED
          BY <3>2, <4>3
      <3> QED
        BY <3>1, <3>3 DEF RuleOK
    <2> QED
      BY <2>4, <2>6, <2>8, <2>9
  <1> QED
    BY <1>1, Invariance, PTL

\* The arrays of a plan as the script's model takes them: functions of the
\* bucket size, in the place of key_index.
KeyOf(s) == CHOOSE i \in 1 .. Len(plan.bucket_sizes) : plan.bucket_sizes[i] = s
ScriptPlan ==
    [bucket_sizes |-> Sizes,
     retention_secs |-> [s \in Sizes |-> plan.retention_secs[KeyOf(s)]],
     windows |-> {[bucket_size |-> SizeOf(w), span_secs |-> w.span_secs, limit |-> w.limit] :
                    w \in Planned}]

\* A size is found where it stands, and nowhere else.
LEMMA KeyOfSize ==
    ASSUME ArraysOK(plan), NEW i \in 1 .. Len(plan.bucket_sizes)
    PROVE  KeyOf(plan.bucket_sizes[i]) = i
  <1> DEFINE s == plan.bucket_sizes[i]
  <1>1. \A j \in 1 .. Len(plan.bucket_sizes) : plan.bucket_sizes[j] = s => j = i
    BY DEF ArraysOK
  <1>2. \E j \in 1 .. Len(plan.bucket_sizes) : plan.bucket_sizes[j] = s
    OBVIOUS
  <1> HIDE DEF s
  <1>3. KeyOf(s) = i
    BY <1>1, <1>2 DEF KeyOf
  <1> QED
    BY <1>3 DEF s

\* No size is zero.
LEMMA LadderPositive == Ladder \subseteq Nat \ {0}
  <1>1. Closed(Nat \ {0})
    BY SizesAssumption DEF Closed
  <1> QED
    BY <1>1, LadderFacts

\* Whatever windows a rule lists, CheckPlan::new gives a plan of the kind that
\* the limiter and the script rely on: what the theorems about modules Limiter
\* and PlanChange assume of their plans is what build_plan delivers.
THEOREM PlansFitScript == Spec => []Script!IsPlan(ScriptPlan)
  <1>1. ASSUME IInv PROVE Script!IsPlan(ScriptPlan)
    <2> DEFINE n == Len(plan.bucket_sizes)
    <2>1. PICK T : PlanOK(plan, T)
      BY <1>1, AlwaysPlanOK
    <2>2. ArraysOK(plan) /\ KeptOK(plan) /\ SizesOK(plan)
      BY <2>1 DEF PlanOK
    <2>3. /\ plan \in PlanType /\ n \in Nat /\ Len(plan.retention_secs) = n
          /\ \A i \in 1 .. n : plan.retention_secs[i] \in Nat
          /\ \A j \in 1 .. Len(plan.windows) : plan.windows[j] \in PlannedWindow
      BY <2>2 DEF ArraysOK, PlanType
    <2>4. \A s \in Sizes : \E i \in 1 .. n : s = plan.bucket_sizes[i] /\ KeyOf(s) = i
      BY <2>2, KeyOfSize DEF Sizes
    <2>5. Sizes \subseteq Nat \ {0}
      BY <2>2, <2>4, LadderPositive DEF SizesOK
    <2>6. ASSUME NEW w \in Planned
          PROVE  /\ SizeOf(w) \in Sizes /\ w.span_secs \in Nat /\ w.limit \in Nat
                 /\ w.span_secs <= plan.retention_secs[KeyOf(SizeOf(w))]
      <3>1. PICK j \in 1 .. Len(plan.windows) : w = plan.windows[j]
        BY DEF Planned
      <3>2. w \in PlannedWindow /\ w.key_index \in 1 .. n
        BY <2>2, <2>3, <3>1 DEF ArraysOK
      <3>3. SizeOf(w) = plan.bucket_sizes[w.key_index] /\ SizeOf(w) \in Sizes
        BY <3>2 DEF SizeOf, Sizes
      <3>4. KeyOf(SizeOf(w)) = w.key_index
        BY <2>2, <3>2, <3>3, KeyOfSize
      <3>5. w.span_secs <= plan.retention_secs[w.key_index]
        BY <2>2, <3>1, <3>2 DEF KeptOK
      <3> QED
        BY <3>2, <3>3, <3>4, <3>5 DEF PlannedWindow
    <2>7. [s \in Sizes |-> plan.retention_secs[KeyOf(s)]] \in [Sizes -> Nat]
      BY <2>3, <2>4
    <2>8. ASSUME NEW v \in ScriptPlan.windows
          PROVE  /\ v \in [bucket_size : Sizes, span_secs : Nat, limit : Nat]
                 /\ v.span_secs <= ScriptPlan.retention_secs[v.bucket_size]
      <3>1. PICK w \in Planned :
                v = [bucket_size |-> SizeOf(w), span_secs |-> w.span_secs, limit |-> w.limit]
        BY DEF ScriptPlan
      <3>2. /\ v \in [bucket_size : Sizes, span_secs : Nat, limit : Nat]
            /\ v.span_secs = w.span_secs /\ v.bucket_size = SizeOf(w)
        BY <2>6, <3>1
      <3>3. ScriptPlan.retention_secs[SizeOf(w)] = plan.retention_secs[KeyOf(SizeOf(w))]
        BY <2>6 DEF ScriptPlan
      <3> QED
        BY <2>6, <3>2, <3>3
    <2>9. /\ ScriptPlan.bucket_sizes = Sizes
          /\ ScriptPlan.retention_secs = [s \in Sizes |-> plan.retention_secs[KeyOf(s)]]
      BY DEF ScriptPlan
    <2> QED
      BY <2>5, <2>7, <2>8, <2>9 DEF Script!IsPlan
  <1> QED
    BY <1>1, Invariance, PTL
=============================================================================
