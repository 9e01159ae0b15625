-------------------------- MODULE PlanChangeProofs --------------------------
(***************************************************************************)
(* Proofs about module PlanChange for every number of instances, every set *)
(* of plans and every order of reloads, commands and expiries.             *)
(*                                                                         *)
(* EnforcedAcrossPlans is not inductive: a command is admitted by what the *)
(* hash of a window's key says, so the invariant relates the hash to the   *)
(* streak of each kind of window (Remembered), and that survives an expiry *)
(* only because the TTL covers everything in the streak (Covered).         *)
(***************************************************************************)
EXTENDS PlanChange, TallyTheorems

\* The hashes and the histories are hashes of counters.
Tallies ==
    /\ \A s \in Sizes : IsTally(hash[s])
    /\ IsTally(sent)
    /\ DOMAIN streak = Kinds
    /\ \A k \in Kinds : IsTally(streak[k])

\* The key outlives, by the span, every bucket that the streak has charged.
Covered ==
    \A k \in Kinds : \A t \in DOMAIN streak[k] :
        /\ t <= now
        /\ BucketEnd(BucketOf(t, k[1]), k[1]) + k[2] <= expireAt[k[1]]

\* Above any cutoff that such a window can use, the hash holds at least what
\* its streak has charged.
Remembered ==
    \A k \in Kinds : \A oldest \in Int :
        oldest >= now - k[2] =>
            Total(streak[k], ChargedSet(k[1], oldest)) <= Total(hash[k[1]], LiveSet(k[1], oldest))

\* The seconds of a bucket.
Seconds(s, id) == {t \in Nat : BucketOf(t, s) = id}

\* No bucket holds more than was charged in its seconds.
Modest ==
    \A s \in Sizes : \A id \in DOMAIN hash[s] : hash[s][id] <= Total(sent, Seconds(s, id))

\* The last record was made by one of the plans.
LastOK ==
    /\ last.at \in Nat
    /\ \A w \in last.windows : \E p \in Plans : w \in p.windows

IInv ==
    /\ TypeOK /\ Tallies /\ Covered /\ Remembered /\ Modest
    /\ LastOK /\ EnforcedAcrossPlans

----------------------------------------------------------------------------
(* Plans and kinds of windows *)

\* A window of a plan: its key, its kind, and that its own plan keeps it.
LEMMA WindowFacts ==
    ASSUME NEW p \in Plans, NEW w \in p.windows
    PROVE  /\ w.bucket_size \in p.bucket_sizes /\ w.bucket_size \in Nat \ {0}
           /\ w.span_secs \in Nat /\ w.limit \in Nat
           /\ KindOf(w) \in Kinds /\ KindOf(w) = <<w.bucket_size, w.span_secs>>
           /\ Keeps(p, KindOf(w))
  <1>1. /\ w.bucket_size \in p.bucket_sizes /\ w.bucket_size \in Nat \ {0}
        /\ w.span_secs \in Nat /\ w.limit \in Nat
        /\ w.span_secs <= p.retention_secs[w.bucket_size]
    BY PlansAssumption DEF IsPlan
  <1> QED
    BY <1>1 DEF Kinds, AllWindows, KindOf, Keeps

\* A kind of window has a key and a span.
LEMMA KindFacts ==
    ASSUME NEW k \in Kinds
    PROVE  k[1] \in Sizes /\ k[1] \in Nat \ {0} /\ k[2] \in Nat
  <1>1. PICK p \in Plans : \E w \in p.windows : k = KindOf(w)
    BY DEF Kinds, AllWindows
  <1>2. PICK w \in p.windows : k = KindOf(w)
    BY <1>1
  <1> QED
    BY <1>2, WindowFacts DEF Sizes, KindOf

\* A size of a plan has a retention.
LEMMA SizeFacts ==
    /\ Sizes \subseteq Nat \ {0}
    /\ \A p \in Plans : \A s \in p.bucket_sizes :
        s \in Sizes /\ p.retention_secs[s] \in Nat
  BY PlansAssumption DEF IsPlan, Sizes

----------------------------------------------------------------------------
(* The inductive invariant *)

\* IInv holds of an empty store.
LEMMA InitInv == Init => IInv
  <1> SUFFICES ASSUME Init PROVE IInv
    OBVIOUS
  <1> USE DEF Init
  <1>1. DOMAIN NoFields = {} /\ NoFields \in [{} -> Nat]
    BY DEF NoFields
  <1>2. TypeOK
    BY <1>1 DEF TypeOK
  <1>3. Tallies
    BY NoFieldsTally DEF Tallies
  <1>4. Covered /\ Modest /\ LastOK /\ EnforcedAcrossPlans
    BY <1>1 DEF Covered, Modest, LastOK, EnforcedAcrossPlans
  <1>5. Remembered
    <2> SUFFICES ASSUME NEW k \in Kinds, NEW oldest \in Int
                 PROVE  Total(streak[k], ChargedSet(k[1], oldest))
                        <= Total(hash[k[1]], LiveSet(k[1], oldest))
      BY DEF Remembered
    <2>1. streak[k] = NoFields /\ hash[k[1]] = NoFields
      BY KindFacts
    <2> QED
      BY <2>1, NoFieldsTally
  <1> QED
    BY <1>2, <1>3, <1>4, <1>5 DEF IInv

\* The clock moves on: fewer cutoffs matter.
LEMMA TickInv == IInv /\ Tick => IInv'
  <1> SUFFICES ASSUME IInv, Tick PROVE IInv'
    OBVIOUS
  <1>1. /\ now \in Nat /\ now' = now + 1
        /\ UNCHANGED <<hash, expireAt, published, flight, sent, streak, last>>
    BY DEF Tick, IInv, TypeOK
  <1>2. TypeOK'
    BY <1>1 DEF IInv, TypeOK
  <1>3. Tallies' /\ Modest' /\ LastOK' /\ EnforcedAcrossPlans'
    BY <1>1 DEF IInv, Tallies, Modest, LastOK, EnforcedAcrossPlans
  <1>4. Covered'
    <2>1. \A k \in Kinds : \A t \in DOMAIN streak[k] : t \in Nat
      BY DEF IInv, Tallies, IsTally
    <2> QED
      BY <1>1, <2>1 DEF IInv, Covered
  <1>5. Remembered'
    <2> SUFFICES ASSUME NEW k \in Kinds, NEW oldest \in Int, oldest >= now' - k[2]
                 PROVE  Total(streak[k], ChargedSet(k[1], oldest))
                        <= Total(hash[k[1]], LiveSet(k[1], oldest))
      BY <1>1 DEF Remembered
    <2>1. oldest >= now - k[2]
      BY <1>1, KindFacts
    <2> QED
      BY <2>1 DEF IInv, Remembered
  <1> QED
    BY <1>2, <1>3, <1>4, <1>5 DEF IInv

\* A key expires only when nothing of a streak counts in it any more.
LEMMA ExpireInv == ASSUME NEW key \in Sizes PROVE IInv /\ Expire(key) => IInv'
  <1> SUFFICES ASSUME IInv, Expire(key) PROVE IInv'
    OBVIOUS
  <1>0. DOMAIN hash = Sizes /\ now \in Nat /\ expireAt \in [Sizes -> Nat]
    BY DEF IInv, TypeOK
  <1>1. /\ now >= expireAt[key]
        /\ DOMAIN hash' = Sizes
        /\ \A s \in Sizes : hash'[s] = IF s = key THEN NoFields ELSE hash[s]
        /\ UNCHANGED <<now, expireAt, published, flight, sent, streak, last>>
    BY <1>0 DEF Expire
  <1>2. DOMAIN NoFields = {} /\ NoFields \in [{} -> Nat]
    BY DEF NoFields
  <1>3. TypeOK'
    BY <1>1, <1>2 DEF IInv, TypeOK
  <1>4. Tallies'
    BY <1>1, NoFieldsTally DEF IInv, Tallies
  <1>5. Covered' /\ LastOK' /\ EnforcedAcrossPlans'
    BY <1>1 DEF IInv, Covered, LastOK, EnforcedAcrossPlans
  <1>6. Modest'
    BY <1>1, <1>2 DEF IInv, Modest
  <1>7. Remembered'
    <2> SUFFICES ASSUME NEW k \in Kinds, NEW oldest \in Int, oldest >= now - k[2]
                 PROVE  Total(streak[k], ChargedSet(k[1], oldest))
                        <= Total(hash'[k[1]], LiveSet(k[1], oldest))
      BY <1>1 DEF Remembered
    <2>1. k[1] \in Sizes /\ k[1] \in Nat \ {0} /\ k[2] \in Nat
      BY KindFacts
    <2>2. CASE k[1] # key
      BY <1>1, <2>1, <2>2 DEF IInv, Remembered
    <2>3. CASE k[1] = key
      <3>1. ASSUME NEW t \in DOMAIN streak[k], t \in ChargedSet(k[1], oldest) PROVE FALSE
        <4> DEFINE e == BucketEnd(BucketOf(t, k[1]), k[1])
        <4>1. t \in Nat /\ e > oldest
          BY <3>1 DEF ChargedSet
        <4>2. e \in Nat
          BY <2>1, <4>1, BucketBounds
        <4>3. e + k[2] <= expireAt[key] /\ expireAt[key] \in Nat
          BY <1>0, <2>3 DEF IInv, Covered
        <4> HIDE DEF e
        <4> QED
          BY <1>0, <1>1, <2>1, <4>1, <4>2, <4>3
      <3>2. Total(streak[k], ChargedSet(k[1], oldest)) = Total(streak[k], {})
        BY <3>1, UnitsAgree
      <3>3. Units(streak[k], {}) = {}
        BY DEF Units
      <3>4. Total(streak[k], {}) = 0
        BY <3>3, FS_EmptySet DEF Total
      <3>5. Total(hash'[k[1]], LiveSet(k[1], oldest)) = 0
        BY <1>1, <2>1, <2>3, NoFieldsTally
      <3> QED
        BY <3>2, <3>4, <3>5
    <2> QED
      BY <2>2, <2>3
  <1> QED
    BY <1>3, <1>4, <1>5, <1>6, <1>7 DEF IInv

\* What a run of the script that admits a command writes.
Records(p, n) ==
    /\ hash' = [s \in Sizes |->
            IF s \in p.bucket_sizes
            THEN Recorded(hash[s], s, p.retention_secs[s], Charges(p, s, n), now)
            ELSE hash[s]]
    /\ expireAt' = [s \in Sizes |->
            IF s \in p.bucket_sizes THEN Expiry(p, s) ELSE expireAt[s]]
    /\ sent' = Increment(sent, now, n)
    /\ streak' = [k \in Kinds |->
            IF Keeps(p, k) THEN Increment(streak[k], now, n) ELSE NoFields]
    /\ last' = [at |-> now, windows |-> p.windows]
    /\ now' = now

\* What a record does to the hash of one size: RecordsIn, and no field grows
\* but the current one.
LEMMA RecordedHash ==
    ASSUME IInv, NEW p \in Plans, NEW n \in Counts, Records(p, n), NEW s \in Sizes
    PROVE  /\ IsTally(hash'[s])
           /\ hash'[s] \in [DOMAIN hash'[s] -> Nat]
           /\ s \in p.bucket_sizes =>
                /\ \A oldest \in Int : oldest >= now - p.retention_secs[s] =>
                     Total(hash'[s], LiveSet(s, oldest))
                     = Total(hash[s], LiveSet(s, oldest))
                       + (IF BucketOf(now, s) \in LiveSet(s, oldest) THEN n ELSE 0)
                /\ \A id \in DOMAIN hash'[s] :
                     \/ id = BucketOf(now, s) /\ hash'[s][id] = Field(hash[s], id) + n
                     \/ id # BucketOf(now, s) /\ id \in DOMAIN hash[s]
                        /\ hash'[s][id] = hash[s][id]
           /\ s \notin p.bucket_sizes => hash'[s] = hash[s]
  <1> DEFINE h == hash[s]
             r == p.retention_secs[s]
             b == BucketOf(now, s)
             D == StaleIds(h, s, now - r)
             g == Increment(h, b, n)
  <1>0. n \in Nat /\ now \in Nat /\ IsTally(h) /\ s \in Nat \ {0}
        /\ h \in [DOMAIN h -> Nat]
    BY BoundsAssumption, SizeFacts DEF IInv, TypeOK, Tallies
  <1>1. hash'[s] = IF s \in p.bucket_sizes THEN Recorded(h, s, r, n, now) ELSE h
    BY DEF Records, Charges
  <1>2. CASE s \notin p.bucket_sizes
    BY <1>0, <1>1, <1>2
  <1>3. CASE s \in p.bucket_sizes
    <2>1. r \in Nat
      BY <1>3, SizeFacts
    <2>2. Recorded(h, s, r, n, now) = Without(g, D)
      BY DEF Recorded
    <2>3. /\ DOMAIN Without(g, D) \subseteq DOMAIN h \cup {b}
          /\ \A id \in DOMAIN Without(g, D) :
                Without(g, D)[id] = IF id = b THEN Field(h, b) + n ELSE h[id]
          /\ Without(g, D) = [id \in DOMAIN Without(g, D) |-> Without(g, D)[id]]
      BY DEF Without, Increment
    <2> HIDE DEF h, r, b, D, g
    <2>4. RecordsIn(h, s, r, n, now)
      BY <1>0, <2>1, RecordedTotal
    <2>5. /\ IsTally(hash'[s])
          /\ \A oldest \in Int : oldest >= now - r =>
               Total(hash'[s], LiveSet(s, oldest))
               = Total(h, LiveSet(s, oldest))
                 + (IF b \in LiveSet(s, oldest) THEN n ELSE 0)
      BY <1>1, <1>3, <2>4 DEF RecordsIn, b
    <2>6. hash'[s] \in [DOMAIN hash'[s] -> Nat]
      BY <1>1, <1>3, <2>2, <2>3, <2>5 DEF IsTally
    <2>7. \A id \in DOMAIN hash'[s] :
            \/ id = b /\ hash'[s][id] = Field(h, id) + n
            \/ id # b /\ id \in DOMAIN h /\ hash'[s][id] = h[id]
      BY <1>1, <1>3, <2>2, <2>3
    <2> QED
      BY <1>3, <2>5, <2>6, <2>7 DEF h, r, b
  <1> QED
    BY <1>2, <1>3

\* An admitted command keeps the invariant.
LEMMA RecordInv ==
    ASSUME IInv, NEW p \in Plans, NEW n \in Counts, Accepts(hash, p, n, now), Records(p, n)
    PROVE  /\ now' \in Nat /\ DOMAIN hash' = Sizes /\ expireAt' \in [Sizes -> Nat]
           /\ \A s \in Sizes : hash'[s] \in [DOMAIN hash'[s] -> Nat]
                               /\ DOMAIN hash'[s] \subseteq Nat
           /\ Tallies' /\ Covered' /\ Remembered' /\ Modest'
           /\ LastOK' /\ EnforcedAcrossPlans'
  <1>0. /\ n \in Nat /\ now \in Nat /\ now' = now
        /\ IsTally(sent) /\ \A k \in Kinds : IsTally(streak[k])
        /\ expireAt \in [Sizes -> Nat]
    BY BoundsAssumption DEF IInv, TypeOK, Tallies, Records
  <1>1. ASSUME NEW k \in Kinds
        PROVE  /\ Keeps(p, k) =>
                    /\ streak'[k] = Increment(streak[k], now, n)
                    /\ IsTally(streak'[k])
                    /\ \A S : Total(streak'[k], S)
                              = Total(streak[k], S) + (IF now \in S THEN n ELSE 0)
               /\ ~ Keeps(p, k) => streak'[k] = NoFields
    <2>1. streak'[k] = IF Keeps(p, k) THEN Increment(streak[k], now, n) ELSE NoFields
      BY DEF Records
    <2>2. /\ IsTally(Increment(streak[k], now, n))
          /\ \A S : Total(Increment(streak[k], now, n), S)
                    = Total(streak[k], S) + (IF now \in S THEN n ELSE 0)
      BY <1>0, IncrementTotal
    <2> QED
      BY <2>1, <2>2
  <1>2. /\ IsTally(sent')
        /\ \A S : Total(sent', S) = Total(sent, S) + (IF now \in S THEN n ELSE 0)
    BY <1>0, IncrementTotal DEF Records
  <1>3. \A s \in Sizes : expireAt'[s] = IF s \in p.bucket_sizes
                                        THEN now + (p.retention_secs[s] + s)
                                        ELSE expireAt[s]
    BY DEF Records, Expiry, TimeToLive
  <1>4. Tallies'
    <2>1. DOMAIN streak' = Kinds
      BY DEF Records
    <2>2. \A k \in Kinds : IsTally(streak'[k])
      BY <1>1, NoFieldsTally
    <2> QED
      BY <1>2, <2>1, <2>2, RecordedHash DEF Tallies
  <1>5. /\ now' \in Nat /\ DOMAIN hash' = Sizes /\ expireAt' \in [Sizes -> Nat]
        /\ \A s \in Sizes : hash'[s] \in [DOMAIN hash'[s] -> Nat]
                            /\ DOMAIN hash'[s] \subseteq Nat
    <2>1. DOMAIN hash' = Sizes /\ expireAt' = [s \in Sizes |-> expireAt'[s]]
      BY DEF Records
    <2>2. ASSUME NEW s \in Sizes PROVE expireAt'[s] \in Nat
      BY <1>0, <1>3, SizeFacts
    <2>3. expireAt' \in [Sizes -> Nat]
      BY <2>1, <2>2
    <2> QED
      BY <1>0, <2>1, <2>3, RecordedHash DEF IsTally
  <1>6. ASSUME NEW k \in Kinds, Keeps(p, k)
        PROVE  /\ k[1] \in p.bucket_sizes /\ k[1] \in Sizes /\ k[1] \in Nat \ {0}
               /\ k[2] \in Nat /\ p.retention_secs[k[1]] \in Nat
               /\ k[2] <= p.retention_secs[k[1]]
    BY <1>6, KindFacts, SizeFacts DEF Keeps
  <1>7. Covered'
    <2> SUFFICES ASSUME NEW k \in Kinds, NEW t \in DOMAIN streak'[k]
                 PROVE  /\ t <= now
                        /\ BucketEnd(BucketOf(t, k[1]), k[1]) + k[2] <= expireAt'[k[1]]
      BY <1>0 DEF Covered
    <2>1. Keeps(p, k)
      BY <1>1 DEF NoFields
    <2>2. t \in DOMAIN streak[k] \cup {now}
      BY <1>1, <2>1 DEF Increment
    <2>3. t \in Nat /\ t <= now
      BY <1>0, <2>2 DEF IInv, Covered, IsTally
    <2> DEFINE e == BucketEnd(BucketOf(t, k[1]), k[1])
    <2>4. e \in Nat /\ e <= t + k[1]
      BY <1>6, <2>1, <2>3, BucketBounds
    <2>5. expireAt'[k[1]] = now + (p.retention_secs[k[1]] + k[1])
      BY <1>3, <1>6, <2>1
    <2> HIDE DEF e
    <2>6. e + k[2] <= expireAt'[k[1]]
      BY <1>0, <1>6, <2>1, <2>3, <2>4, <2>5
    <2> QED
      BY <2>3, <2>6 DEF e
  <1>8. Remembered'
    <2> SUFFICES ASSUME NEW k \in Kinds, NEW oldest \in Int, oldest >= now - k[2]
                 PROVE  Total(streak'[k], ChargedSet(k[1], oldest))
                        <= Total(hash'[k[1]], LiveSet(k[1], oldest))
      BY <1>0 DEF Remembered
    <2> DEFINE s == k[1]
               L == LiveSet(s, oldest)
               C == ChargedSet(s, oldest)
    <2>0. s \in Sizes /\ s \in Nat \ {0}
      BY KindFacts
    <2>1. CASE ~ Keeps(p, k)
      <3>1. Total(streak'[k], C) = 0
        BY <1>1, <2>1, NoFieldsTally
      <3>2. IsTally(hash'[s])
        BY <2>0, RecordedHash
      <3>3. Total(hash'[s], L) \in Nat
        BY <3>2, TotalType
      <3> QED
        BY <3>1, <3>3
    <2>2. CASE Keeps(p, k)
      <3>1. oldest >= now - p.retention_secs[s]
        BY <1>0, <1>6, <2>2
      <3>2. Total(hash'[s], L) = Total(hash[s], L) + (IF BucketOf(now, s) \in L THEN n ELSE 0)
        BY <1>6, <2>2, <3>1, RecordedHash
      <3>3. Total(streak'[k], C) = Total(streak[k], C) + (IF now \in C THEN n ELSE 0)
        BY <1>1, <2>2
      <3>4. BucketOf(now, s) \in L <=> now \in C
        BY <1>0, <2>0, BucketBounds DEF LiveSet, ChargedSet
      <3>5. Total(streak[k], C) <= Total(hash[s], L)
        BY DEF IInv, Remembered
      <3>6. IsTally(streak[k]) /\ IsTally(hash[s])
        BY <1>0, <2>0 DEF IInv, Tallies
      <3>7. Total(streak[k], C) \in Nat /\ Total(hash[s], L) \in Nat
        BY <3>6, TotalType
      <3> QED
        BY <1>0, <3>2, <3>3, <3>4, <3>5, <3>7
    <2> QED
      BY <2>1, <2>2
  <1>9. Modest'
    <2> SUFFICES ASSUME NEW s \in Sizes, NEW id \in DOMAIN hash'[s]
                 PROVE  hash'[s][id] <= Total(sent', Seconds(s, id))
      BY DEF Modest
    <2> DEFINE S == Seconds(s, id)
    <2>1. Total(sent', S) = Total(sent, S) + (IF now \in S THEN n ELSE 0)
      BY <1>2
    <2>2. Total(sent, S) \in Nat
      BY <1>0, TotalType
    <2>3. now \in S <=> BucketOf(now, s) = id
      BY <1>0 DEF Seconds
    <2>4. id \in DOMAIN hash[s] => hash[s][id] \in Nat /\ hash[s][id] <= Total(sent, S)
      BY DEF IInv, Modest, Tallies, IsTally
    <2> HIDE DEF S
    <2>5. CASE s \notin p.bucket_sizes
      <3>1. hash'[s] = hash[s]
        BY <2>5, RecordedHash
      <3> QED
        BY <1>0, <2>1, <2>2, <2>4, <3>1 DEF S
    <2>6. CASE s \in p.bucket_sizes /\ id = BucketOf(now, s)
      <3>1. hash'[s][id] = Field(hash[s], id) + n
        BY <2>6, RecordedHash
      <3>2. Field(hash[s], id) \in Nat /\ Field(hash[s], id) <= Total(sent, S)
        BY <2>2, <2>4 DEF Field
      <3> QED
        BY <1>0, <2>1, <2>2, <2>3, <2>6, <3>1, <3>2 DEF S
    <2>7. CASE s \in p.bucket_sizes /\ id # BucketOf(now, s)
      <3>1. id \in DOMAIN hash[s] /\ hash'[s][id] = hash[s][id]
        BY <2>7, RecordedHash
      <3> QED
        BY <1>0, <2>1, <2>2, <2>3, <2>4, <2>7, <3>1 DEF S
    <2> QED
      BY <2>5, <2>6, <2>7
  <1>10. last'.at = now /\ last'.windows = p.windows
    BY DEF Records
  <1>11. LastOK'
    BY <1>0, <1>10 DEF LastOK
  <1>12. EnforcedAcrossPlans'
    <2> SUFFICES ASSUME NEW w \in p.windows
                 PROVE  Total(streak'[KindOf(w)], {t \in DOMAIN streak'[KindOf(w)] :
                                                     t >= now - w.span_secs}) <= w.limit
      BY <1>10 DEF EnforcedAcrossPlans
    <2> DEFINE k == KindOf(w)
               s == w.bucket_size
               oldest == now - w.span_secs
               L == LiveSet(s, oldest)
               C == ChargedSet(s, oldest)
               T == {t \in DOMAIN streak'[k] : t >= oldest}
    <2>1. /\ s \in p.bucket_sizes /\ s \in Nat \ {0} /\ w.span_secs \in Nat /\ w.limit \in Nat
          /\ k \in Kinds /\ k[1] = s /\ k[2] = w.span_secs /\ Keeps(p, k) /\ s \in Sizes
      BY WindowFacts, SizeFacts
    <2>2. IsTally(hash[s]) /\ IsTally(streak[k]) /\ IsTally(streak'[k])
      BY <1>0, <1>1, <2>1 DEF IInv, Tallies
    <2>3. oldest \in Int /\ oldest >= now - k[2]
      BY <1>0, <2>1
    <2>4. n + Total(hash[s], L) <= w.limit
      <3>1. n + WindowTotal(hash[s], w, now) <= w.limit
        BY DEF Accepts
      <3>2. WindowTotal(hash[s], w, now) = Total(hash[s], L)
        BY <2>1, <2>2, <2>3, LiveTotal DEF WindowTotal
      <3> QED
        BY <3>1, <3>2
    <2>5. Total(streak[k], C) <= Total(hash[s], L)
      BY <2>1, <2>3 DEF IInv, Remembered
    <2>6. Total(streak'[k], C) = Total(streak[k], C) + (IF now \in C THEN n ELSE 0)
      BY <1>1, <2>1
    <2>7. T \cap DOMAIN streak'[k] \subseteq C
      <3> SUFFICES ASSUME NEW t \in DOMAIN streak'[k], t >= oldest PROVE t \in C
        OBVIOUS
      <3>1. t \in Nat
        BY <2>2 DEF IsTally
      <3>2. /\ BucketEnd(BucketOf(t, s), s) \in Nat
            /\ t < BucketEnd(BucketOf(t, s), s)
        BY <2>1, <3>1, BucketBounds
      <3> QED
        BY <2>3, <3>1, <3>2 DEF ChargedSet
    <2> HIDE DEF k, L, C, T
    <2>8. Total(streak'[k], T) <= Total(streak'[k], C)
      BY <2>2, <2>7, TotalMonotone
    <2>9. /\ Total(streak'[k], T) \in Nat /\ Total(streak[k], C) \in Nat
          /\ Total(hash[s], L) \in Nat
      BY <2>2, TotalType
    <2>10. Total(streak'[k], T) <= w.limit
      BY <1>0, <2>1, <2>4, <2>5, <2>6, <2>8, <2>9
    <2> QED
      BY <2>10 DEF k, T
  <1> QED
    BY <1>4, <1>5, <1>7, <1>8, <1>9, <1>11, <1>12

\* IInv is inductive.
LEMMA NextInv == IInv /\ [Next]_vars => IInv'
  <1> SUFFICES ASSUME IInv, [Next]_vars PROVE IInv'
    OBVIOUS
  <1>1. CASE Tick
    BY <1>1, TickInv
  <1>2. ASSUME NEW s \in Sizes, Expire(s) PROVE IInv'
    BY <1>2, ExpireInv
  <1>3. ASSUME UNCHANGED <<now, hash, expireAt, sent, streak, last>>,
               published' \in [Instances -> Plans],
               flight' \in [Instances -> {NoCommand} \cup [plan : Plans, count : Counts]]
        PROVE  IInv'
    BY <1>3 DEF IInv, TypeOK, Tallies, Covered, Remembered, Modest, LastOK,
                EnforcedAcrossPlans
  <1>4. ASSUME NEW i \in Instances, NEW p \in Plans, Publish(i, p) PROVE IInv'
    BY <1>3, <1>4 DEF Publish, IInv, TypeOK
  <1>5. ASSUME NEW i \in Instances, NEW n \in Counts, Invoke(i, n) PROVE IInv'
    <2>1. published[i] \in Plans
      BY DEF IInv, TypeOK
    <2>2. [plan |-> published[i], count |-> n] \in [plan : Plans, count : Counts]
      BY <2>1
    <2> QED
      BY <1>3, <1>5, <2>2 DEF Invoke, IInv, TypeOK
  <1>6. ASSUME NEW i \in Instances, Execute(i) PROVE IInv'
    <2> DEFINE p == flight[i].plan
               n == flight[i].count
    <2>1. p \in Plans /\ n \in Counts
      BY <1>6 DEF Execute, IInv, TypeOK
    <2>2. /\ flight' = [flight EXCEPT ![i] = NoCommand] /\ UNCHANGED <<now, published>>
          /\ \/ Accepts(hash, p, n, now) /\ Records(p, n)
             \/ UNCHANGED <<hash, expireAt, sent, streak, last>>
      BY <1>6 DEF Execute, Records
    <2>3. /\ flight' \in [Instances -> {NoCommand} \cup [plan : Plans, count : Counts]]
          /\ published' \in [Instances -> Plans]
      BY <2>2 DEF IInv, TypeOK
    <2> HIDE DEF p, n
    <2>4. CASE Accepts(hash, p, n, now) /\ Records(p, n)
      BY <2>1, <2>3, <2>4, RecordInv DEF IInv, TypeOK
    <2>5. CASE UNCHANGED <<hash, expireAt, sent, streak, last>>
      BY <1>3, <2>2, <2>3, <2>5
    <2> QED
      BY <2>2, <2>4, <2>5
  <1>7. ASSUME NEW i \in Instances, Drop(i) PROVE IInv'
    BY <1>3, <1>7 DEF Drop, IInv, TypeOK
  <1>8. CASE UNCHANGED vars
    BY <1>3, <1>8 DEF vars, IInv, TypeOK
  <1> QED
    BY <1>1, <1>2, <1>4, <1>5, <1>6, <1>7, <1>8 DEF Next

\* IInv holds of every behaviour.
LEMMA Invariance == Spec => []IInv
  BY InitInv, NextInv, PTL DEF Spec

----------------------------------------------------------------------------
(* Theorems *)

\* Whatever plans and instances share a sender's keys, and whatever reloads
\* fall between a command and its execution, check_and_record.lua admits
\* nothing beyond a window of the command's plan, counted over everything
\* charged since a plan that does not keep such windows last recorded.
THEOREM LimitsSurviveReloads == Spec => []EnforcedAcrossPlans
  <1>1. IInv => EnforcedAcrossPlans
    BY DEF IInv
  <1> QED
    BY <1>1, Invariance, PTL

\* The state keeps its types, and no bucket ever holds more than was charged
\* in its seconds: commands of different plans that meet in a key each
\* increment it once.
THEOREM NeverInflated == Spec => []NothingIsInflated
  <1>1. ASSUME IInv PROVE NothingIsInflated
    <2> SUFFICES ASSUME NEW s \in Sizes, NEW id \in DOMAIN hash[s]
                 PROVE  hash[s][id]
                        <= Total(sent, {t \in DOMAIN sent : BucketOf(t, s) = id})
      BY <1>1 DEF NothingIsInflated, IInv
    <2>1. DOMAIN sent \subseteq Nat
      BY <1>1 DEF IInv, Tallies, IsTally
    <2>2. {t \in DOMAIN sent : BucketOf(t, s) = id} \cap DOMAIN sent
          = Seconds(s, id) \cap DOMAIN sent
      BY <2>1 DEF Seconds
    <2>3. Total(sent, {t \in DOMAIN sent : BucketOf(t, s) = id}) = Total(sent, Seconds(s, id))
      BY <2>2, UnitsAgree
    <2> QED
      BY <1>1, <2>3 DEF IInv, Modest
  <1> QED
    BY <1>1, Invariance, PTL
=============================================================================
