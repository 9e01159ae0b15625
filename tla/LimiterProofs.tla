--------------------------- MODULE LimiterProofs ---------------------------
(***************************************************************************)
(* Proofs about modules Limiter and ControlStatus for every set of users   *)
(* and connections, every plan that satisfies IsPlan and every history.    *)
(*                                                                         *)
(* SlidingWindowLimit is not inductive: what admits a message is the       *)
(* content of the hashes, so the invariant has to relate the hashes to the *)
(* history (Faithful), which in turn needs that a key never expires while  *)
(* one of its buckets can still count (Covered).  A status query changes   *)
(* nothing of the limiter; what it read in earlier steps stays related to  *)
(* the history by StatusInv.                                               *)
(***************************************************************************)
EXTENDS ControlStatus, TallyTheorems

\* Every hash and every log is a hash of counters.
Tallies ==
    /\ \A k \in Keys : IsTally(hash[k])
    /\ \A u \in Users : IsTally(sent[u])

\* The TTL of a key covers every bucket in it for the whole retention.
Covered ==
    \A k \in Keys :
        /\ expireAt[k] <= now + Retention(k) + k[2]
        /\ \A id \in DOMAIN hash[k] : BucketEnd(id, k[2]) + Retention(k) <= expireAt[k]

\* Above any cutoff within the retention, hash and history agree.
Faithful ==
    \A k \in Keys : \A oldest \in Int :
        oldest >= now - Retention(k) =>
            Total(hash[k], LiveSet(k[2], oldest))
            = Total(sent[k[1]], ChargedSet(k[2], oldest))

\* What the hashes say of every window is within its limit.
WithinLimits ==
    \A u \in Users : \A w \in Plan[u].windows :
        Total(hash[<<u, w.bucket_size>>], LiveSet(w.bucket_size, now - w.span_secs))
        <= w.limit

IInv == TypeOK /\ Tallies /\ Covered /\ Faithful /\ WithinLimits

----------------------------------------------------------------------------
(* Plans and keys *)

\* A key has a positive size and a retention.
LEMMA KeyFacts ==
    ASSUME NEW k \in Keys
    PROVE  /\ k[1] \in Users
           /\ k[2] \in Plan[k[1]].bucket_sizes
           /\ k[2] \in Nat \ {0}
           /\ Retention(k) \in Nat
           /\ k = <<k[1], k[2]>>
  BY PlanAssumption DEF Keys, IsPlan, Retention

\* Every window counts in a key of its plan, which is kept long enough.
LEMMA WindowFacts ==
    ASSUME NEW u \in Users, NEW w \in Plan[u].windows
    PROVE  /\ <<u, w.bucket_size>> \in Keys
           /\ w.bucket_size \in Plan[u].bucket_sizes
           /\ w.bucket_size \in Nat \ {0}
           /\ w.span_secs \in Nat
           /\ w.limit \in Nat
           /\ Retention(<<u, w.bucket_size>>) \in Nat
           /\ w.span_secs <= Retention(<<u, w.bucket_size>>)
  <1>1. IsPlan(Plan[u])
    BY PlanAssumption
  <1>2. /\ w.bucket_size \in Plan[u].bucket_sizes
        /\ w.span_secs \in Nat
        /\ w.limit \in Nat
        /\ w.span_secs <= Plan[u].retention_secs[w.bucket_size]
        /\ w.bucket_size \in Nat \ {0}
    BY <1>1 DEF IsPlan
  <1>3. <<u, w.bucket_size>> \in Keys
    BY <1>2 DEF Keys
  <1> QED
    BY <1>2, <1>3, KeyFacts DEF Retention

----------------------------------------------------------------------------
(* The inductive invariant *)

\* IInv holds of an empty store.
LEMMA InitInv == Init => IInv
  <1> SUFFICES ASSUME Init PROVE IInv
    OBVIOUS
  <1> USE DEF Init
  <1>1. DOMAIN NoFields = {}
    BY DEF NoFields
  <1>2. TypeOK
    BY <1>1 DEF TypeOK, CallsOK, StoreOK, Call
  <1>3. Tallies
    BY NoFieldsTally DEF Tallies
  <1>4. Covered
    BY <1>1, KeyFacts DEF Covered
  <1>5. Faithful
    BY NoFieldsTally, KeyFacts DEF Faithful
  <1>6. WithinLimits
    <2> SUFFICES ASSUME NEW u \in Users, NEW w \in Plan[u].windows
                 PROVE  Total(hash[<<u, w.bucket_size>>],
                              LiveSet(w.bucket_size, now - w.span_secs)) <= w.limit
      BY DEF WithinLimits
    <2>1. hash[<<u, w.bucket_size>>] = NoFields /\ w.limit \in Nat
      BY WindowFacts
    <2>2. \A S : Total(NoFields, S) = 0
      BY NoFieldsTally
    <2>3. Total(hash[<<u, w.bucket_size>>], LiveSet(w.bucket_size, now - w.span_secs)) = 0
      BY <2>1, <2>2
    <2> QED
      BY <2>1, <2>3
  <1> QED
    BY <1>2, <1>3, <1>4, <1>5, <1>6 DEF IInv

\* The clock moves on: fewer cutoffs are within the retention, and windows
\* count less.
LEMMA TickInv == IInv /\ Tick => IInv'
  <1> SUFFICES ASSUME IInv, Tick PROVE IInv'
    OBVIOUS
  <1> USE DEF IInv
  <1>1. now \in Nat /\ now' = now + 1 /\ UNCHANGED <<hash, expireAt, call, late, sent>>
    BY DEF Tick, TypeOK, CallsOK, StoreOK, store
  <1>2. TypeOK'
    BY <1>1 DEF TypeOK, CallsOK, StoreOK
  <1>3. Tallies'
    BY <1>1 DEF Tallies
  <1>4. Covered'
    <2> SUFFICES ASSUME NEW k \in Keys
                 PROVE  /\ expireAt[k] <= now + 1 + Retention(k) + k[2]
                        /\ \A id \in DOMAIN hash[k] :
                              BucketEnd(id, k[2]) + Retention(k) <= expireAt[k]
      BY <1>1 DEF Covered
    <2>1. expireAt[k] \in Nat /\ Retention(k) \in Nat /\ k[2] \in Nat
      BY KeyFacts DEF TypeOK, CallsOK, StoreOK
    <2> QED
      BY <1>1, <2>1 DEF Covered
  <1>5. Faithful'
    <2> SUFFICES ASSUME NEW k \in Keys, NEW oldest \in Int,
                        oldest >= now' - Retention(k)
                 PROVE  Total(hash'[k], LiveSet(k[2], oldest))
                        = Total(sent'[k[1]], ChargedSet(k[2], oldest))
      BY DEF Faithful
    <2>0. Retention(k) \in Nat
      BY KeyFacts
    <2>1. oldest >= now - Retention(k)
      BY <1>1, <2>0
    <2> QED
      BY <1>1, <2>1 DEF Faithful
  <1>6. WithinLimits'
    <2> SUFFICES ASSUME NEW u \in Users, NEW w \in Plan[u].windows
                 PROVE  Total(hash'[<<u, w.bucket_size>>],
                              LiveSet(w.bucket_size, now' - w.span_secs)) <= w.limit
      BY DEF WithinLimits
    <2> DEFINE h == hash[<<u, w.bucket_size>>]
               L == LiveSet(w.bucket_size, now - w.span_secs)
               L1 == LiveSet(w.bucket_size, now' - w.span_secs)
    <2>1. IsTally(h)
      BY WindowFacts DEF Tallies
    <2>2. L1 \subseteq L
      <3>1. w.bucket_size \in Nat \ {0} /\ w.span_secs \in Nat
        BY WindowFacts
      <3>2. \A id \in Nat : BucketEnd(id, w.bucket_size) \in Nat
        BY <3>1, BucketEndType
      <3> QED
        BY <1>1, <3>1, <3>2 DEF LiveSet
    <2>3. Total(h, L) <= w.limit
      BY DEF WithinLimits
    <2> HIDE DEF h, L, L1
    <2>4. Total(h, L1) <= Total(h, L) /\ Total(h, L) \in Nat /\ Total(h, L1) \in Nat
      BY <2>1, <2>2, TotalMonotone, TotalType
    <2> QED
      BY <1>1, <2>3, <2>4, WindowFacts DEF h, L1
  <1> QED
    BY <1>2, <1>3, <1>4, <1>5, <1>6

\* A key expires: none of its buckets counts any more.
LEMMA ExpireInv == ASSUME NEW key \in Keys PROVE IInv /\ Expire(key) => IInv'
  <1> SUFFICES ASSUME IInv, Expire(key) PROVE IInv'
    OBVIOUS
  <1> USE DEF IInv
  <1>0. DOMAIN hash = Keys /\ now \in Nat
    BY DEF TypeOK, CallsOK, StoreOK
  <1>1. /\ now >= expireAt[key]
        /\ \A k \in Keys : hash'[k] = IF k = key THEN NoFields ELSE hash[k]
        /\ DOMAIN hash' = Keys
        /\ UNCHANGED <<now, expireAt, call, late, sent>>
    BY <1>0 DEF Expire
  <1>a. DOMAIN NoFields = {}
    BY DEF NoFields
  <1>2. TypeOK'
    BY <1>1, <1>a DEF TypeOK, CallsOK, StoreOK
  <1>3. Tallies'
    BY <1>1, NoFieldsTally DEF Tallies
  <1>4. Covered'
    BY <1>1, <1>a DEF Covered
  <1>5. Faithful'
    <2> SUFFICES ASSUME NEW k \in Keys, NEW oldest \in Int,
                        oldest >= now - Retention(k)
                 PROVE  Total(hash'[k], LiveSet(k[2], oldest))
                        = Total(sent[k[1]], ChargedSet(k[2], oldest))
      BY <1>1 DEF Faithful
    <2>1. Total(hash[k], LiveSet(k[2], oldest))
          = Total(sent[k[1]], ChargedSet(k[2], oldest))
      BY DEF Faithful
    <2>2. CASE k # key
      BY <2>1, <2>2, <1>1
    <2>3. CASE k = key
      <3>1. \A id \in DOMAIN hash[k] : id \notin LiveSet(k[2], oldest)
        <4> SUFFICES ASSUME NEW id \in DOMAIN hash[k], id \in LiveSet(k[2], oldest)
                     PROVE  FALSE
          OBVIOUS
        <4>1. /\ id \in Nat
              /\ BucketEnd(id, k[2]) > oldest
              /\ BucketEnd(id, k[2]) + Retention(k) <= expireAt[k]
          BY DEF Covered, LiveSet
        <4>2. BucketEnd(id, k[2]) \in Nat /\ Retention(k) \in Nat /\ expireAt[k] \in Nat
          BY <4>1, KeyFacts, BucketEndType DEF TypeOK, CallsOK, StoreOK
        <4> QED
          BY <4>1, <4>2, <1>0, <1>1, <2>3
      <3>2. Total(hash[k], LiveSet(k[2], oldest)) = Total(hash[k], {})
        BY <3>1, UnitsAgree
      <3>3. Units(hash[k], {}) = {}
        BY DEF Units
      <3>4. Total(hash[k], {}) = 0
        BY <3>3, FS_EmptySet DEF Total
      <3>5. Total(hash'[k], LiveSet(k[2], oldest)) = 0
        BY <1>1, <2>3, NoFieldsTally
      <3> QED
        BY <2>1, <3>2, <3>4, <3>5
    <2> QED
      BY <2>2, <2>3
  <1>6. WithinLimits'
    <2> SUFFICES ASSUME NEW u \in Users, NEW w \in Plan[u].windows
                 PROVE  Total(hash'[<<u, w.bucket_size>>],
                              LiveSet(w.bucket_size, now - w.span_secs)) <= w.limit
      BY <1>1 DEF WithinLimits
    <2>1. <<u, w.bucket_size>> \in Keys /\ w.limit \in Nat
      BY WindowFacts
    <2>2. CASE <<u, w.bucket_size>> = key
      BY <2>1, <2>2, <1>1, NoFieldsTally
    <2>3. CASE <<u, w.bucket_size>> # key
      BY <2>1, <2>3, <1>1 DEF WithinLimits
    <2> QED
      BY <2>2, <2>3
  <1> QED
    BY <1>2, <1>3, <1>4, <1>5, <1>6

\* The script records an accepted message.
LEMMA RecordInv ==
    ASSUME IInv, NEW u \in Users, NEW n \in Nat,
           Fits(u, n), Record(u, n), now' = now
    PROVE  StoreOK' /\ Tallies' /\ Covered' /\ Faithful' /\ WithinLimits'
  <1> USE DEF IInv
  <1> DEFINE rec(k) == Recorded(hash[k], k[2], Retention(k), n, now)
  <1>0. /\ now \in Nat
        /\ DOMAIN sent = Users
        /\ expireAt \in [Keys -> Nat]
        /\ \A k \in Keys : IsTally(hash[k])
        /\ \A v \in Users : IsTally(sent[v])
    BY DEF TypeOK, StoreOK, Tallies
  <1>1. /\ DOMAIN hash' = Keys
        /\ \A k \in Keys : hash'[k] = IF k[1] = u THEN rec(k) ELSE hash[k]
    BY DEF Record
  <1>2. /\ DOMAIN expireAt' = Keys
        /\ expireAt' = [k \in Keys |-> expireAt'[k]]
        /\ \A k \in Keys : expireAt'[k] = IF k[1] = u THEN now + (Retention(k) + k[2])
                                                    ELSE expireAt[k]
    BY DEF Record, TimeToLive
  <1>3. /\ DOMAIN sent' = Users
        /\ \A v \in Users : sent'[v] = IF v = u THEN Increment(sent[u], now, n) ELSE sent[v]
    BY <1>0 DEF Record
  <1>4. ASSUME NEW k \in Keys
        PROVE  /\ IsTally(rec(k))
               /\ DOMAIN rec(k) \subseteq DOMAIN hash[k] \cup {BucketOf(now, k[2])}
               /\ \A oldest \in Int : oldest >= now - Retention(k) =>
                    Total(rec(k), LiveSet(k[2], oldest))
                    = Total(hash[k], LiveSet(k[2], oldest))
                      + (IF BucketOf(now, k[2]) \in LiveSet(k[2], oldest) THEN n ELSE 0)
    <2> DEFINE h == hash[k]
               s == k[2]
               r == Retention(k)
    <2>1. IsTally(h) /\ s \in Nat \ {0} /\ r \in Nat
      BY <1>0, KeyFacts
    <2> HIDE DEF h, s, r
    <2>2. RecordsIn(h, s, r, n, now)
      BY <2>1, <1>0, RecordedTotal
    <2> QED
      BY <2>2 DEF RecordsIn, h, s, r
  <1>5. /\ IsTally(Increment(sent[u], now, n))
        /\ \A S : Total(Increment(sent[u], now, n), S)
                  = Total(sent[u], S) + (IF now \in S THEN n ELSE 0)
    BY <1>0, IncrementTotal
  <1> HIDE DEF rec
  <1>6. Tallies'
    BY <1>0, <1>1, <1>3, <1>4, <1>5 DEF Tallies
  <1>7. StoreOK'
    <2>1. now' \in Nat
      BY <1>0
    <2>2. \A k \in Keys : expireAt'[k] \in Nat
      BY <1>0, <1>2, KeyFacts
    <2>3. expireAt' \in [Keys -> Nat]
      BY <1>2, <2>2
    <2> QED
      BY <1>1, <1>3, <1>6, <2>1, <2>3 DEF StoreOK, Tallies, IsTally
  <1>8. Covered'
    <2> SUFFICES ASSUME NEW k \in Keys
                 PROVE  /\ expireAt'[k] <= now' + Retention(k) + k[2]
                        /\ \A id \in DOMAIN hash'[k] :
                              BucketEnd(id, k[2]) + Retention(k) <= expireAt'[k]
      BY DEF Covered
    <2>1. /\ expireAt[k] \in Nat /\ Retention(k) \in Nat /\ k[2] \in Nat \ {0}
          /\ DOMAIN hash[k] \subseteq Nat
      BY <1>0, KeyFacts DEF IsTally
    <2>2. /\ expireAt[k] <= now + Retention(k) + k[2]
          /\ \A id \in DOMAIN hash[k] : BucketEnd(id, k[2]) + Retention(k) <= expireAt[k]
      BY DEF Covered
    <2>3. CASE k[1] # u
      BY <1>1, <1>2, <2>2, <2>3
    <2>4. CASE k[1] = u
      <3>1. expireAt'[k] = now + (Retention(k) + k[2]) /\ hash'[k] = rec(k)
        BY <1>1, <1>2, <2>4
      <3>2. ASSUME NEW id \in DOMAIN rec(k)
            PROVE  BucketEnd(id, k[2]) <= now + k[2] /\ BucketEnd(id, k[2]) \in Nat
        <4>1. CASE id \in DOMAIN hash[k]
          <5>1. BucketEnd(id, k[2]) \in Nat
            BY <2>1, <4>1, BucketEndType
          <5> QED
            BY <5>1, <1>0, <2>1, <2>2, <4>1
        <4>2. CASE id = BucketOf(now, k[2])
          BY <1>0, <2>1, <4>2, BucketBounds
        <4> QED
          BY <1>4, <4>1, <4>2
      <3> QED
        BY <1>0, <2>1, <3>1, <3>2
    <2> QED
      BY <2>3, <2>4
  <1>9. Faithful'
    <2> SUFFICES ASSUME NEW k \in Keys, NEW oldest \in Int,
                        oldest >= now' - Retention(k)
                 PROVE  Total(hash'[k], LiveSet(k[2], oldest))
                        = Total(sent'[k[1]], ChargedSet(k[2], oldest))
      BY DEF Faithful
    <2>0. oldest >= now - Retention(k)
      OBVIOUS
    <2>1. Total(hash[k], LiveSet(k[2], oldest))
          = Total(sent[k[1]], ChargedSet(k[2], oldest))
      BY <2>0 DEF Faithful
    <2>2. k[1] \in Users /\ k[2] \in Nat \ {0}
      BY KeyFacts
    <2>3. CASE k[1] # u
      BY <1>1, <1>3, <2>1, <2>2, <2>3
    <2>4. CASE k[1] = u
      <3>1. BucketOf(now, k[2]) \in LiveSet(k[2], oldest) <=> now \in ChargedSet(k[2], oldest)
        BY <1>0, <2>2, BucketBounds DEF LiveSet, ChargedSet
      <3>2. hash'[k] = rec(k) /\ sent'[k[1]] = Increment(sent[u], now, n)
        BY <1>1, <1>3, <2>2, <2>4
      <3>3. Total(rec(k), LiveSet(k[2], oldest))
            = Total(hash[k], LiveSet(k[2], oldest))
              + (IF BucketOf(now, k[2]) \in LiveSet(k[2], oldest) THEN n ELSE 0)
        BY <1>4, <2>0
      <3>4. Total(Increment(sent[u], now, n), ChargedSet(k[2], oldest))
            = Total(sent[u], ChargedSet(k[2], oldest))
              + (IF now \in ChargedSet(k[2], oldest) THEN n ELSE 0)
        BY <1>5
      <3> QED
        BY <2>1, <2>4, <3>1, <3>2, <3>3, <3>4
    <2> QED
      BY <2>3, <2>4
  <1>10. WithinLimits'
    <2> SUFFICES ASSUME NEW v \in Users, NEW w \in Plan[v].windows
                 PROVE  Total(hash'[<<v, w.bucket_size>>],
                              LiveSet(w.bucket_size, now' - w.span_secs)) <= w.limit
      BY DEF WithinLimits
    <2> DEFINE s == w.bucket_size
               k == <<v, s>>
               oldest == now - w.span_secs
    <2>1. /\ k \in Keys /\ s \in Plan[v].bucket_sizes /\ s \in Nat \ {0}
          /\ w.span_secs \in Nat /\ w.limit \in Nat
          /\ Retention(k) \in Nat /\ w.span_secs <= Retention(k)
      BY WindowFacts
    <2>2. k[1] = v /\ k[2] = s
      OBVIOUS
    <2>3. CASE v # u
      <3>1. hash'[k] = hash[k]
        BY <1>1, <2>1, <2>2, <2>3
      <3> QED
        BY <3>1 DEF WithinLimits
    <2>4. CASE v = u
      <3>1. oldest \in Int /\ oldest >= now - Retention(k)
        BY <1>0, <2>1
      <3>2. n + WindowTotal(hash[k], w, now) <= w.limit
        <4>1. \A x \in Plan[u].windows :
                n + WindowTotal([z \in Plan[u].bucket_sizes |-> hash[<<u, z>>]][x.bucket_size],
                                x, now) <= x.limit
          BY DEF Fits, Accepts
        <4>2. [z \in Plan[u].bucket_sizes |-> hash[<<u, z>>]][s] = hash[<<u, s>>]
          BY <2>1, <2>4
        <4> QED
          BY <4>1, <4>2, <2>4
      <3>3. WindowTotal(hash[k], w, now) = Total(hash[k], LiveSet(s, oldest))
        BY <1>0, <2>1, <3>1, LiveTotal DEF WindowTotal
      <3>4. hash'[k] = rec(k)
        BY <1>1, <2>1, <2>2, <2>4
      <3> HIDE DEF k, oldest
      <3>5. Total(rec(k), LiveSet(s, oldest))
            = Total(hash[k], LiveSet(s, oldest))
              + (IF BucketOf(now, s) \in LiveSet(s, oldest) THEN n ELSE 0)
        BY <1>4, <2>1, <2>2, <3>1
      <3>6. Total(hash[k], LiveSet(s, oldest)) \in Nat
        BY <1>0, <2>1, TotalType
      <3>7. Total(hash'[k], LiveSet(s, oldest)) <= w.limit
        BY <2>1, <3>2, <3>3, <3>4, <3>5, <3>6
      <3> QED
        BY <3>7 DEF k, oldest
    <2> QED
      BY <2>3, <2>4
  <1> QED
    BY <1>6, <1>7, <1>8, <1>9, <1>10

\* One run of the script, recording or not.
LEMMA ScriptInv ==
    ASSUME IInv, NEW u \in Users, NEW n \in Counts,
           Script(u, n), now' = now
    PROVE  StoreOK' /\ Tallies' /\ Covered' /\ Faithful' /\ WithinLimits'
  <1>0. n \in Nat
    BY CountsAssumption
  <1>1. CASE Fits(u, n) /\ Record(u, n)
    BY <1>0, <1>1, RecordInv
  <1>2. CASE UNCHANGED <<store, sent>>
    BY <1>2 DEF IInv, TypeOK, StoreOK, Tallies, Covered, Faithful, WithinLimits, store
  <1> QED
    BY <1>1, <1>2 DEF Script

\* A step that leaves Valkey and the history alone.
LEMMA StoreUnchanged ==
    ASSUME IInv, UNCHANGED <<now, store, sent>>
    PROVE  StoreOK' /\ Tallies' /\ Covered' /\ Faithful' /\ WithinLimits'
  BY DEF IInv, TypeOK, StoreOK, Tallies, Covered, Faithful, WithinLimits, store

\* What is known of a call in a given phase.
LEMMA CallFacts ==
    ASSUME CallsOK, NEW c \in Clients
    PROVE  /\ call[c] \in Call
           /\ call[c].phase \in {"sent", "executed", "returned"} =>
                call[c].user \in Users /\ call[c].count \in Counts
           /\ call[c].phase = "executed" => call[c].result \in {"accept", "reject"}
  BY DEF CallsOK, Call

\* SetCall keeps the type of call.
LEMMA SetCallType ==
    ASSUME CallsOK, NEW c \in Clients, NEW phase, NEW result,
           call[c].phase \in {"sent", "executed"},
           \/ phase = "executed" /\ result \in {"accept", "reject"}
           \/ phase = "returned" /\ result \in {"accept", "reject", "error"},
           SetCall(c, phase, result)
    PROVE  call' \in [Clients -> Call]
  <1>1. call[c].user \in Users /\ call[c].count \in Counts
    BY CallFacts
  <1>2. [phase |-> phase, user |-> call[c].user, count |-> call[c].count,
         result |-> result] \in Call
    BY <1>1 DEF Call
  <1> QED
    BY <1>2 DEF SetCall, CallsOK

\* IInv is inductive.
LEMMA NextInv == IInv /\ [Next]_vars => IInv'
  <1> SUFFICES ASSUME IInv, [Next]_vars PROVE IInv'
    OBVIOUS
  <1>0. CallsOK
    BY DEF IInv, TypeOK
  <1>a. \A c \in Clients, u \in Users, n \in Counts : 
          /\ [phase |-> "sent", user |-> u, count |-> n] \in Call
          /\ [phase |-> "returned", user |-> u, count |-> n, result |-> "accept"] \in Call
          /\ [phase |-> "idle"] \in Call
    BY DEF Call
  <1>1. CASE Tick
    BY <1>1, TickInv
  <1>2. CASE \E k \in Keys : Expire(k)
    BY <1>2, ExpireInv
  <1>3. ASSUME NEW c \in Clients, NEW u \in Users, NEW n \in Counts, Invoke(c, u, n)
        PROVE  IInv'
    <2>1. CallsOK'
      BY <1>0, <1>3, <1>a DEF Invoke, CallsOK
    <2> QED
      BY <1>3, <2>1, StoreUnchanged DEF Invoke, IInv, TypeOK
  <1>4. ASSUME NEW c \in Clients, Execute(c) PROVE IInv'
    <2>1. call[c].user \in Users /\ call[c].count \in Counts
      BY <1>0, <1>4, CallFacts DEF Execute
    <2>2. StoreOK' /\ Tallies' /\ Covered' /\ Faithful' /\ WithinLimits'
      BY <1>4, <2>1, ScriptInv DEF Execute
    <2>3. call' \in [Clients -> Call]
      BY <1>0, <1>4, SetCallType DEF Execute
    <2> QED
      BY <1>0, <1>4, <2>2, <2>3 DEF Execute, IInv, TypeOK, CallsOK
  <1>5. ASSUME NEW c \in Clients, Return(c) PROVE IInv'
    <2>1. call' \in [Clients -> Call]
      BY <1>0, <1>5, CallFacts, SetCallType DEF Return
    <2> QED
      BY <1>0, <1>5, <2>1, StoreUnchanged DEF Return, IInv, TypeOK, CallsOK
  <1>6. ASSUME NEW c \in Clients, Lose(c) PROVE IInv'
    <2>1. call' \in [Clients -> Call]
      BY <1>0, <1>6, SetCallType DEF Lose
    <2> QED
      BY <1>0, <1>6, <2>1, StoreUnchanged DEF Lose, IInv, TypeOK, CallsOK
  <1>7. ASSUME NEW c \in Clients, Abandon(c) PROVE IInv'
    <2>1. call' \in [Clients -> Call]
      BY <1>0, <1>7, SetCallType DEF Abandon
    <2>2. call[c].user \in Users /\ call[c].count \in Counts
      BY <1>0, <1>7, CallFacts DEF Abandon
    <2>3. late' \subseteq Command
      BY <1>0, <1>7, <2>2 DEF Abandon, CallsOK, Command
    <2> QED
      BY <1>7, <2>1, <2>3, StoreUnchanged DEF Abandon, IInv, TypeOK, CallsOK
  <1>8. ASSUME NEW c \in Clients, Finish(c) PROVE IInv'
    <2>1. CallsOK'
      BY <1>0, <1>8, <1>a DEF Finish, CallsOK, Call
    <2> QED
      BY <1>8, <2>1, StoreUnchanged DEF Finish, IInv, TypeOK
  <1>9. ASSUME NEW cmd \in late, ExecuteLate(cmd) PROVE IInv'
    <2>1. cmd.user \in Users /\ cmd.count \in Counts
      BY <1>0 DEF CallsOK, Command
    <2>2. StoreOK' /\ Tallies' /\ Covered' /\ Faithful' /\ WithinLimits'
      BY <1>9, <2>1, ScriptInv DEF ExecuteLate
    <2> QED
      BY <1>0, <1>9, <2>2 DEF ExecuteLate, IInv, TypeOK, CallsOK
  <1>10. CASE UNCHANGED vars
    <2>1. CallsOK'
      BY <1>0, <1>10 DEF vars, CallsOK
    <2> QED
      BY <1>10, <2>1, StoreUnchanged DEF vars, store, IInv, TypeOK
  <1> QED
    BY <1>1, <1>2, <1>3, <1>4, <1>5, <1>6, <1>7, <1>8, <1>9, <1>10 DEF Next

\* The invariant holds of every behaviour.
THEOREM Invariance == Spec => []IInv
  BY InitInv, NextInv, PTL DEF Spec

\* The state keeps its types: the hashes and the logs are finite maps to
\* naturals, every call is in one of its phases.
THEOREM TypeCorrect == Spec => []TypeOK
  <1>1. IInv => TypeOK
    BY DEF IInv
  <1> QED
    BY <1>1, Invariance, PTL

----------------------------------------------------------------------------
(* What the hashes say of the history *)

\* What a window counts is at least what was charged during its span and at
\* most what was charged during the span and one bucket more.
LEMMA WindowBounds ==
    ASSUME IInv, NEW u \in Users, NEW w \in Plan[u].windows
    PROVE  LET total == WindowTotal(hash[<<u, w.bucket_size>>], w, now)
               near == ChargedSince(u, now - w.span_secs)
               far == ChargedSince(u, now - w.span_secs - w.bucket_size + 1)
           IN  /\ total \in Nat
               /\ near \in Nat
               /\ far \in Nat
               /\ near <= total
               /\ total <= far
               /\ total <= w.limit
  <1> DEFINE s == w.bucket_size
             k == <<u, s>>
             oldest == now - w.span_secs
             total == WindowTotal(hash[k], w, now)
             T(t0) == {t \in DOMAIN sent[u] : t >= t0}
             C == ChargedSet(s, oldest)
  <1>1. /\ k \in Keys /\ s \in Nat \ {0} /\ w.span_secs \in Nat
        /\ Retention(k) \in Nat /\ w.span_secs <= Retention(k)
    BY WindowFacts
  <1>2. now \in Nat /\ IsTally(hash[k]) /\ IsTally(sent[u]) /\ DOMAIN sent[u] \subseteq Nat
    BY <1>1 DEF IInv, TypeOK, StoreOK, Tallies, IsTally
  <1>3. oldest \in Int /\ oldest >= now - Retention(k)
    BY <1>1, <1>2
  <1>4. total = Total(hash[k], LiveSet(s, oldest))
    BY <1>1, <1>2, <1>3, LiveTotal DEF WindowTotal
  <1>5. k[1] = u /\ k[2] = s
    OBVIOUS
  <1>6. Total(hash[k], LiveSet(s, oldest)) <= w.limit
    BY DEF IInv, WithinLimits
  <1> HIDE DEF k
  <1>7. Total(hash[k], LiveSet(s, oldest)) = Total(sent[u], C)
    BY <1>1, <1>3, <1>5 DEF IInv, Faithful
  <1>8. ASSUME NEW t \in Nat
        PROVE  /\ t >= oldest => t \in C
               /\ t \in C => t >= oldest - s + 1
    <2>1. /\ BucketEnd(BucketOf(t, s), s) \in Nat
          /\ t < BucketEnd(BucketOf(t, s), s)
          /\ BucketEnd(BucketOf(t, s), s) <= t + s
      BY <1>1, BucketBounds
    <2> QED
      BY <1>1, <1>3, <2>1 DEF ChargedSet
  <1>9. T(oldest) \cap DOMAIN sent[u] \subseteq C
    BY <1>2, <1>8
  <1>10. C \cap DOMAIN sent[u] \subseteq T(oldest - s + 1)
    BY <1>2, <1>8
  <1> HIDE DEF C, T, oldest
  <1>11. /\ Total(sent[u], T(oldest)) <= Total(sent[u], C)
         /\ Total(sent[u], C) <= Total(sent[u], T(oldest - s + 1))
    BY <1>2, <1>9, <1>10, TotalMonotone
  <1>12. /\ Total(sent[u], T(oldest)) \in Nat
         /\ Total(sent[u], C) \in Nat
         /\ Total(sent[u], T(oldest - s + 1)) \in Nat
    BY <1>2, TotalType
  <1> QED
    BY <1>4, <1>6, <1>7, <1>11, <1>12 DEF T, oldest, k, ChargedSince

\* No window is ever exceeded: check_sasl enforces every configured limit
\* over every span, for every interleaving, loss, pruning and expiry.
THEOREM LimitEnforced == Spec => []SlidingWindowLimit
  <1>1. ASSUME IInv PROVE SlidingWindowLimit
    <2> SUFFICES ASSUME NEW u \in Users, NEW w \in Plan[u].windows
                 PROVE  ChargedSince(u, now - w.span_secs) <= w.limit
      BY DEF SlidingWindowLimit
    <2>1. w.limit \in Nat
      BY WindowFacts
    <2> DEFINE total == WindowTotal(hash[<<u, w.bucket_size>>], w, now)
               near == ChargedSince(u, now - w.span_secs)
    <2>2. total \in Nat /\ near \in Nat /\ near <= total /\ total <= w.limit
      BY <1>1, WindowBounds
    <2> HIDE DEF total, near
    <2> QED
      BY <2>1, <2>2 DEF near
  <1> QED
    BY <1>1, Invariance, PTL

\* Neither pruning nor a TTL ever loses a bucket that a window still counts.
THEOREM StoreFaithful == Spec => []StoreIsFaithful
  <1>1. ASSUME IInv PROVE StoreIsFaithful
    <2> SUFFICES ASSUME NEW k \in Keys, NEW oldest \in (now - Retention(k)) .. now
                 PROVE  Total(hash[k], LiveIds(hash[k], k[2], oldest))
                        = Total(sent[k[1]], {t \in DOMAIN sent[k[1]] :
                                   BucketEnd(BucketOf(t, k[2]), k[2]) > oldest})
      BY DEF StoreIsFaithful
    <2> DEFINE C == {t \in DOMAIN sent[k[1]] : BucketEnd(BucketOf(t, k[2]), k[2]) > oldest}
    <2>1. /\ now \in Nat /\ k[1] \in Users /\ k[2] \in Nat \ {0} /\ Retention(k) \in Nat
          /\ IsTally(hash[k]) /\ DOMAIN sent[k[1]] \subseteq Nat
      BY <1>1, KeyFacts DEF IInv, TypeOK, StoreOK, Tallies, IsTally
    <2>2. oldest \in Int /\ oldest >= now - Retention(k)
      BY <2>1
    <2>3. Total(hash[k], LiveIds(hash[k], k[2], oldest)) = Total(hash[k], LiveSet(k[2], oldest))
      BY <2>1, <2>2, LiveTotal
    <2>4. Total(hash[k], LiveSet(k[2], oldest))
          = Total(sent[k[1]], ChargedSet(k[2], oldest))
      BY <1>1, <2>2 DEF IInv, Faithful
    <2>5. C \cap DOMAIN sent[k[1]] = ChargedSet(k[2], oldest) \cap DOMAIN sent[k[1]]
      BY <2>1 DEF ChargedSet
    <2>6. Total(sent[k[1]], C) = Total(sent[k[1]], ChargedSet(k[2], oldest))
      BY <2>5, UnitsAgree
    <2> QED
      BY <2>3, <2>4, <2>6
  <1> QED
    BY <1>1, Invariance, PTL

----------------------------------------------------------------------------
(* The size of a hash *)

\* All the buckets of a key were there, and not stale, at one instant.
Recent(k, t) ==
    \A id \in DOMAIN hash[k] :
        id * k[2] <= t /\ BucketEnd(id, k[2]) > t - Retention(k)

AllRecent == \A k \in Keys : \E t \in Nat : t <= now /\ Recent(k, t)

\* The script's shortcut loses nothing: if the oldest bucket is not stale, no
\* bucket is.  So after a record no bucket ends before the retention.
LEMMA NothingStaleIsLeft ==
    ASSUME NEW h, IsTally(h), NEW s \in Nat \ {0}, NEW r \in Nat,
           NEW n \in Nat, NEW t \in Nat, NEW id \in DOMAIN Recorded(h, s, r, n, t)
    PROVE  /\ id \in DOMAIN h \cup {BucketOf(t, s)}
           /\ BucketEnd(id, s) > t - r
  <1> DEFINE b == BucketOf(t, s)
             D == StaleIds(h, s, t - r)
  <1>1. id \in (DOMAIN h \cup {b}) \ D
    BY DEF Recorded, Without, Increment
  <1>2. CASE id = b
    <2>1. BucketEnd(b, s) > t /\ BucketEnd(b, s) \in Nat
      BY BucketBounds
    <2> QED
      BY <1>1, <1>2, <2>1
  <1>3. CASE id \in DOMAIN h
    <2>1. DOMAIN h \subseteq Nat /\ id \in Nat
      BY <1>3 DEF IsTally
    <2>2. PICK m \in DOMAIN h : \A y \in DOMAIN h : m <= y
      BY <1>3, <2>1, LeastNatural
    <2>3. m \in Nat /\ m <= id
      BY <1>3, <2>1, <2>2
    <2>4. \A x \in DOMAIN h : (\A y \in DOMAIN h : x <= y) => x = m
      BY <2>1, <2>2
    <2>5. Min(DOMAIN h) = m
      BY <2>2, <2>4 DEF Min
    <2>6. /\ BucketEnd(m, s) \in Nat /\ BucketEnd(id, s) \in Nat
          /\ BucketEnd(m, s) <= BucketEnd(id, s)
      <3>1. (m + 1) * s <= (id + 1) * s
        BY <2>1, <2>3
      <3> QED
        BY <2>1, <2>3, <3>1, BucketEndType DEF BucketEnd
    <2>7. CASE BucketEnd(m, s) <= t - r
      <3>1. D = {x \in DOMAIN h : BucketEnd(x, s) <= t - r}
        BY <1>3, <2>5, <2>7 DEF StaleIds
      <3> QED
        BY <1>1, <1>3, <2>6, <3>1
    <2>8. CASE ~ (BucketEnd(m, s) <= t - r)
      BY <1>1, <2>6, <2>8
    <2> QED
      BY <2>7, <2>8
  <1> QED
    BY <1>1, <1>2, <1>3

\* A record leaves the keys of its user recent at this instant.
LEMMA RecordRecent ==
    ASSUME IInv, AllRecent, NEW u \in Users, NEW n \in Counts, Script(u, n), now' = now
    PROVE  AllRecent'
  <1>1. CASE UNCHANGED <<store, sent>>
    BY <1>1 DEF AllRecent, Recent, store
  <1>2. CASE Record(u, n)
    <2> SUFFICES ASSUME NEW k \in Keys
                 PROVE  \E t \in Nat : t <= now /\ Recent(k, t)'
      BY DEF AllRecent
    <2>1. PICK t0 \in Nat : t0 <= now /\ Recent(k, t0)
      BY DEF AllRecent
    <2>2. hash'[k] = IF k[1] = u THEN Recorded(hash[k], k[2], Retention(k), n, now)
                                 ELSE hash[k]
      BY <1>2 DEF Record
    <2>3. CASE k[1] # u
      BY <2>1, <2>2, <2>3 DEF Recent
    <2>4. CASE k[1] = u
      <3>1. /\ IsTally(hash[k]) /\ k[2] \in Nat \ {0} /\ Retention(k) \in Nat
            /\ n \in Nat /\ now \in Nat
        BY KeyFacts, CountsAssumption DEF IInv, Tallies, TypeOK, StoreOK
      <3>2. ASSUME NEW id \in DOMAIN hash'[k]
            PROVE  id * k[2] <= now /\ BucketEnd(id, k[2]) > now - Retention(k)
        <4>1. /\ id \in DOMAIN hash[k] \cup {BucketOf(now, k[2])}
              /\ BucketEnd(id, k[2]) > now - Retention(k)
          BY <2>2, <2>4, <3>1, <3>2, NothingStaleIsLeft
        <4>2. CASE id \in DOMAIN hash[k]
          <5>1. id * k[2] <= t0 /\ id \in Nat
            BY <2>1, <3>1, <4>2 DEF Recent, IsTally
          <5> QED
            BY <2>1, <3>1, <4>1, <5>1
        <4>3. CASE id = BucketOf(now, k[2])
          <5>1. id \in Nat /\ BucketEnd(id, k[2]) <= now + k[2]
            BY <3>1, <4>3, BucketBounds
          <5>2. (id + 1) * k[2] = id * k[2] + k[2] /\ id * k[2] \in Nat
            BY <3>1, <5>1
          <5> QED
            BY <3>1, <4>1, <5>1, <5>2 DEF BucketEnd
        <4> QED
          BY <4>1, <4>2, <4>3
      <3> QED
        BY <3>1, <3>2 DEF Recent
    <2> QED
      BY <2>3, <2>4
  <1> QED
    BY <1>1, <1>2 DEF Script

\* Every step leaves every key recent at some instant.
LEMMA StepRecent == IInv /\ AllRecent /\ [Next]_vars => AllRecent'
  <1> SUFFICES ASSUME IInv, AllRecent, [Next]_vars PROVE AllRecent'
    OBVIOUS
  <1>0. CallsOK /\ now \in Nat /\ DOMAIN hash = Keys
    BY DEF IInv, TypeOK, StoreOK
  <1>1. CASE Tick
    <2>1. \A t \in Nat : t <= now => t <= now + 1
      BY <1>0
    <2> QED
      BY <1>1, <2>1 DEF Tick, AllRecent, Recent, store
  <1>2. ASSUME NEW key \in Keys, Expire(key) PROVE AllRecent'
    <2>1. \A k \in Keys : hash'[k] = IF k = key THEN NoFields ELSE hash[k]
      BY <1>0, <1>2 DEF Expire
    <2>2. DOMAIN NoFields = {} /\ now' = now
      BY <1>2 DEF NoFields, Expire
    <2> QED
      BY <2>1, <2>2 DEF AllRecent, Recent
  <1>3. CASE UNCHANGED <<now, hash>>
    BY <1>3 DEF AllRecent, Recent
  <1>4. ASSUME NEW c \in Clients, Execute(c) PROVE AllRecent'
    <2>1. call[c].user \in Users /\ call[c].count \in Counts
      BY <1>0, <1>4, CallFacts DEF Execute
    <2> QED
      BY <1>4, <2>1, RecordRecent DEF Execute
  <1>5. ASSUME NEW cmd \in late, ExecuteLate(cmd) PROVE AllRecent'
    <2>1. cmd.user \in Users /\ cmd.count \in Counts
      BY <1>0 DEF CallsOK, Command
    <2> QED
      BY <1>5, <2>1, RecordRecent DEF ExecuteLate
  <1>6. ASSUME NEW c \in Clients,
               \/ \E u \in Users, n \in Counts : Invoke(c, u, n)
               \/ Return(c) \/ Lose(c) \/ Abandon(c) \/ Finish(c)
        PROVE  UNCHANGED <<now, hash>>
    BY <1>6 DEF Invoke, Return, Lose, Abandon, Finish, store
  <1> QED
    BY <1>1, <1>2, <1>3, <1>4, <1>5, <1>6 DEF Next, vars

\* The buckets that are recent at an instant lie between two numbers.
LEMMA FewBuckets ==
    ASSUME NEW t \in Nat, NEW s \in Nat \ {0}, NEW r \in Nat, NEW id \in Nat,
           id * s <= t, BucketEnd(id, s) > t - r
    PROVE  id \in (t \div s - r \div s - 1) .. (t \div s)
  <1> DEFINE q == t \div s
             p == r \div s
  <1>1. /\ q \in Nat /\ p \in Nat
        /\ t = q * s + (t % s) /\ t % s \in 0 .. (s - 1)
        /\ r = p * s + (r % s) /\ r % s \in 0 .. (s - 1)
    OBVIOUS
  <1> HIDE DEF q, p
  <1>2. (q + 1) * s = q * s + s /\ (id + 1) * s = id * s + s
        /\ q * s \in Nat /\ p * s \in Nat /\ id * s \in Nat
    BY <1>1
  <1>3. id <= q
    <2> SUFFICES ASSUME id >= q + 1 PROVE FALSE
      BY <1>1
    <2>1. id * s >= (q + 1) * s
      BY <1>1
    <2> QED
      BY <1>1, <1>2, <2>1
  <1>4. id >= q - p - 1
    <2> SUFFICES ASSUME id + p + 2 <= q PROVE FALSE
      BY <1>1
    <2>1. (id + p + 2) * s <= q * s
      BY <1>1
    <2>2. (id + p + 2) * s = (id + 1) * s + p * s + s
      BY <1>1
    <2>3. (id + 1) * s > t - r
      BY DEF BucketEnd
    <2> QED
      BY <1>1, <1>2, <2>1, <2>2, <2>3
  <1> QED
    BY <1>1, <1>3, <1>4 DEF q, p

\* The hash of a key stays within its retention, for any plan and any
\* sending rate: the pruning keeps up although it skips its scan.
THEOREM HashBounded == Spec => []HashIsBounded
  <1>1. Init => AllRecent
    <2>1. DOMAIN NoFields = {}
      BY DEF NoFields
    <2> QED
      BY <2>1 DEF Init, AllRecent, Recent
  <1>2. ASSUME IInv, AllRecent PROVE HashIsBounded
    <2> SUFFICES ASSUME NEW k \in Keys
                 PROVE  Cardinality(DOMAIN hash[k]) <= Retention(k) \div k[2] + 2
      BY DEF HashIsBounded
    <2>1. PICK t \in Nat : Recent(k, t)
      BY <1>2 DEF AllRecent
    <2>2. k[2] \in Nat \ {0} /\ Retention(k) \in Nat /\ DOMAIN hash[k] \subseteq Nat
      BY <1>2, KeyFacts DEF IInv, Tallies, IsTally
    <2> DEFINE q == t \div k[2]
               p == Retention(k) \div k[2]
    <2>3. DOMAIN hash[k] \subseteq (q - p - 1) .. q
      BY <2>1, <2>2, FewBuckets DEF Recent
    <2>4. q \in Nat /\ p \in Nat
      BY <2>2
    <2> HIDE DEF q, p
    <2>5. /\ IsFiniteSet((q - p - 1) .. q)
          /\ Cardinality((q - p - 1) .. q) = p + 2
      <3>1. q - p - 1 \in Int /\ q \in Int
        BY <2>4
      <3>2. /\ IsFiniteSet((q - p - 1) .. q)
            /\ Cardinality((q - p - 1) .. q) =
                IF q - p - 1 > q THEN 0 ELSE q - (q - p - 1) + 1
        BY <3>1, FS_Interval
      <3> QED
        BY <2>4, <3>2
    <2>6. Cardinality(DOMAIN hash[k]) <= Cardinality((q - p - 1) .. q)
      BY <2>3, <2>5, FS_Subset
    <2> QED
      BY <2>5, <2>6 DEF p
  <1> QED
    BY <1>1, <1>2, Invariance, StepRecent, PTL DEF Spec

----------------------------------------------------------------------------
(* Limiter implements SlidingWindow *)

\* SlidingWindow counts with the same operators.
LEMMA SameCounting ==
    /\ SW!NoFields = NoFields
    /\ \A f, x, n : SW!Increment(f, x, n) = Increment(f, x, n)
    /\ \A u, t0 : SW!ChargedSince(u, t0) = ChargedSince(u, t0)
  <1>1. SW!NoFields = NoFields
    BY DEF SW!NoFields, NoFields
  <1>2. ASSUME NEW f, NEW x, NEW n PROVE SW!Increment(f, x, n) = Increment(f, x, n)
    BY DEF SW!Increment, SW!Field, Increment, Field
  <1>3. ASSUME NEW f, NEW S PROVE SW!Total(f, S) = Total(f, S)
    <2>1. SW!Units(f, S) = Units(f, S)
      BY DEF SW!Units, Units
    <2>2. SW!Cardinality(Units(f, S)) = Cardinality(Units(f, S))
      BY DEF SW!Cardinality, Cardinality
    <2> QED
      BY <2>1, <2>2 DEF SW!Total, Total
  <1>4. ASSUME NEW u, NEW t0 PROVE SW!ChargedSince(u, t0) = ChargedSince(u, t0)
    BY <1>3 DEF SW!ChargedSince, ChargedSince
  <1> QED
    BY <1>1, <1>2, <1>4

\* What the script decides is what the log allows.
LEMMA ScriptDecides ==
    ASSUME IInv, NEW u \in Users, NEW n \in Counts
    PROVE  /\ Fits(u, n) => SW!MayAdmit(u, n)
           /\ ~ Fits(u, n) => SW!MayRefuse(u, n)
  <1>0. n \in Nat
    BY CountsAssumption
  <1> DEFINE total(w) == WindowTotal(hash[<<u, w.bucket_size>>], w, now)
  <1>1. Fits(u, n) <=> \A w \in Plan[u].windows : n + total(w) <= w.limit
    <2>1. \A w \in Plan[u].windows :
            [s \in Plan[u].bucket_sizes |-> hash[<<u, s>>]][w.bucket_size]
            = hash[<<u, w.bucket_size>>]
      BY WindowFacts
    <2> QED
      BY <2>1 DEF Fits, Accepts
  <1> HIDE DEF total
  <1>2. ASSUME NEW w \in Plan[u].windows
        PROVE  /\ n + total(w) <= w.limit => SW!HasRoom(u, w, n)
               /\ ~ (n + total(w) <= w.limit) => SW!IsFull(u, w, n)
    <2>1. w.limit \in Nat
      BY WindowFacts
    <2> DEFINE near == ChargedSince(u, now - w.span_secs)
               far == ChargedSince(u, now - w.span_secs - w.bucket_size + 1)
    <2>2. /\ total(w) \in Nat /\ near \in Nat /\ far \in Nat
          /\ near <= total(w) /\ total(w) <= far
      BY WindowBounds DEF total
    <2>3. /\ SW!HasRoom(u, w, n) <=> n + near <= w.limit
          /\ SW!IsFull(u, w, n) <=> n + far > w.limit
      BY SameCounting DEF SW!HasRoom, SW!IsFull
    <2> HIDE DEF near, far
    <2> QED
      BY <1>0, <2>1, <2>2, <2>3
  <1> QED
    BY <1>1, <1>2 DEF SW!MayAdmit, SW!MayRefuse

\* Every step of Limiter is a step of SlidingWindow or leaves it alone.
LEMMA StepRefines == IInv /\ [Next]_vars => [SW!Next]_SW!vars
  <1> SUFFICES ASSUME IInv, [Next]_vars PROVE [SW!Next]_SW!vars
    OBVIOUS
  <1>0. CallsOK
    BY DEF IInv, TypeOK
  <1>1. CASE Tick
    BY <1>1 DEF Tick, store, SW!Next, SW!Tick
  <1>2. CASE \E k \in Keys : Expire(k)
    BY <1>2 DEF Expire, SW!vars
  <1>3. ASSUME NEW c \in Clients, NEW u \in Users, NEW n \in Counts, Invoke(c, u, n)
        PROVE  SW!Next
    <2>1. SW!Ask(c, u, n)
      BY <1>3 DEF Invoke, Unrestricted, SW!Ask, SW!Unrestricted
    <2> QED
      BY <2>1 DEF SW!Next
  <1>4. ASSUME NEW c \in Clients, Execute(c) PROVE SW!Next
    <2> DEFINE u == call[c].user
               n == call[c].count
    <2>1. u \in Users /\ n \in Counts
      BY <1>0, <1>4, CallFacts DEF Execute
    <2>2. CASE Fits(u, n)
      <3>1. SW!MayAdmit(u, n)
        BY <2>1, <2>2, ScriptDecides
      <3>2. SW!Admit(c)
        BY <1>4, <2>2, <3>1, SameCounting DEF Execute, Script, Record, SetCall, SW!Admit, SW!Charge
      <3> QED
        BY <3>2 DEF SW!Next
    <2>3. CASE ~ Fits(u, n)
      <3>1. SW!MayRefuse(u, n)
        BY <2>1, <2>3, ScriptDecides
      <3>2. SW!Refuse(c)
        BY <1>4, <2>3, <3>1 DEF Execute, Script, SetCall, SW!Refuse
      <3> QED
        BY <3>2 DEF SW!Next
    <2> QED
      BY <2>2, <2>3
  <1>5. ASSUME NEW c \in Clients, Return(c) PROVE SW!Next
    <2>1. SW!Answer(c)
      BY <1>5 DEF Return, SetCall, SW!Answer
    <2> QED
      BY <2>1 DEF SW!Next
  <1>6. ASSUME NEW c \in Clients, Lose(c) PROVE SW!Next
    <2>1. SW!Fail(c)
      BY <1>6 DEF Lose, SetCall, SW!Fail
    <2> QED
      BY <2>1 DEF SW!Next
  <1>7. ASSUME NEW c \in Clients, Abandon(c) PROVE SW!Next
    <2>1. SW!Fail(c)
      BY <1>7 DEF Abandon, SetCall, SW!Fail
    <2> QED
      BY <2>1 DEF SW!Next
  <1>8. ASSUME NEW c \in Clients, Finish(c) PROVE SW!Next
    <2>1. SW!Done(c)
      BY <1>8 DEF Finish, SW!Done
    <2> QED
      BY <2>1 DEF SW!Next
  <1>9. ASSUME NEW cmd \in late, ExecuteLate(cmd) PROVE SW!Next
    <2>1. cmd.user \in Users /\ cmd.count \in Counts
      BY <1>0 DEF CallsOK, Command
    <2>2. CASE Fits(cmd.user, cmd.count)
      <3>1. SW!MayAdmit(cmd.user, cmd.count)
        BY <2>1, <2>2, ScriptDecides
      <3>2. SW!LateAdmit(cmd)
        BY <1>9, <2>2, <3>1, SameCounting DEF ExecuteLate, Script, Record, SW!LateAdmit, SW!Charge
      <3> QED
        BY <3>2 DEF SW!Next
    <2>3. CASE ~ Fits(cmd.user, cmd.count)
      <3>1. SW!MayRefuse(cmd.user, cmd.count)
        BY <2>1, <2>3, ScriptDecides
      <3>2. SW!LateRefuse(cmd)
        BY <1>9, <2>3, <3>1 DEF ExecuteLate, Script, SW!LateRefuse
      <3> QED
        BY <3>2 DEF SW!Next
    <2> QED
      BY <2>2, <2>3
  <1>10. CASE UNCHANGED vars
    BY <1>10 DEF vars, SW!vars
  <1> QED
    BY <1>1, <1>2, <1>3, <1>4, <1>5, <1>6, <1>7, <1>8, <1>9, <1>10 DEF Next

\* The bucketed limiter implements the exact log: it admits nothing beyond a
\* limit and refuses nothing unless a window, stretched by one bucket, is full.
THEOREM Refinement == Spec => ImplementsSlidingWindow
  <1>1. Init => SW!Init
    BY SameCounting DEF Init, SW!Init
  <1>2. Spec => []IInv
    BY Invariance
  <1> QED
    BY <1>1, <1>2, StepRefines, PTL DEF Spec, SW!Spec, ImplementsSlidingWindow

----------------------------------------------------------------------------
(* Status queries *)

\* Whatever the cutoff, a hash holds no more than was charged.  Below the
\* retention Faithful says nothing, and a status query counts there when its
\* clock reading is older than its reading of the hash.
NoMore(f, log, s) ==
    \A oldest \in Int :
        Total(f, LiveSet(s, oldest)) <= Total(log, ChargedSet(s, oldest))

Modest == \A k \in Keys : NoMore(hash[k], sent[k[1]], k[2])

\* Above any cutoff within the retention r at time t, a hash and a log agree.
AgreeSince(f, log, s, t, r) ==
    \A oldest \in Int :
        oldest >= t - r => Total(f, LiveSet(s, oldest)) = Total(log, ChargedSet(s, oldest))

\* What the query has read of one key is what the key was at that instant,
\* which is not before the clock reading.
ReadingOK(r, k, time) ==
    /\ IsTally(r.fields) /\ IsTally(r.log)
    /\ r.at \in Nat /\ time <= r.at
    /\ NoMore(r.fields, r.log, k[2])
    /\ AgreeSince(r.fields, r.log, k[2], r.at, Retention(k))

Readings ==
    query.phase \in {"read", "replied"} =>
        \A s \in DOMAIN query.seen : ReadingOK(query.seen[s], <<query.user, s>>, query.time)

\* A reply counts what was read, by the clock that was read.
ReplyOK ==
    query.phase = "replied" =>
        /\ DOMAIN query.seen = Plan[query.user].bucket_sizes
        /\ \A w \in Plan[query.user].windows :
            query.total[w] = LET h == query.seen[w.bucket_size].fields
                             IN  Total(h, Counted(h, w, query.time))

\* The fields of a query that is reading.
Shape == query.phase = "read" => DOMAIN query = {"phase", "user", "time", "seen"}

StatusInv == IInv /\ Modest /\ QueryOK /\ Shape /\ Readings /\ ReplyOK

\* A record adds to the hash what it adds to the log, or less.
LEMMA RecordModest ==
    ASSUME IInv, Modest, NEW u \in Users, NEW n \in Counts, Script(u, n), now' = now
    PROVE  Modest'
  <1>1. CASE UNCHANGED <<store, sent>>
    BY <1>1 DEF Modest, store
  <1>2. CASE Record(u, n)
    <2> SUFFICES ASSUME NEW k \in Keys, NEW oldest \in Int
                 PROVE  Total(hash'[k], LiveSet(k[2], oldest))
                        <= Total(sent'[k[1]], ChargedSet(k[2], oldest))
      BY DEF Modest, NoMore
    <2> DEFINE L == LiveSet(k[2], oldest)
               C == ChargedSet(k[2], oldest)
               h == hash[k]
               log == sent[k[1]]
               s == k[2]
               r == Retention(k)
    <2>1. Total(h, L) <= Total(log, C)
      BY DEF Modest, NoMore
    <2>2. /\ IsTally(h) /\ IsTally(log) /\ s \in Nat \ {0} /\ r \in Nat
          /\ n \in Nat /\ now \in Nat /\ k[1] \in Users /\ DOMAIN sent = Users
      BY KeyFacts, CountsAssumption DEF IInv, Tallies, TypeOK, StoreOK
    <2>3. /\ hash'[k] = IF k[1] = u THEN Recorded(h, s, r, n, now) ELSE h
          /\ sent'[k[1]] = IF k[1] = u THEN Increment(log, now, n) ELSE log
      BY <1>2, <2>2 DEF Record
    <2>4. BucketOf(now, s) \in L <=> now \in C
      BY <2>2, BucketBounds DEF LiveSet, ChargedSet
    <2> HIDE DEF L, C, h, log, s, r
    <2>5. Total(Recorded(h, s, r, n, now), L)
          <= Total(h, L) + (IF BucketOf(now, s) \in L THEN n ELSE 0)
      BY <2>2, RecordedNoMore
    <2>6. /\ IsTally(Increment(log, now, n))
          /\ Total(Increment(log, now, n), C) = Total(log, C) + (IF now \in C THEN n ELSE 0)
      BY <2>2, IncrementTotal
    <2>7. RecordsIn(h, s, r, n, now)
      BY <2>2, RecordedTotal
    <2>8. /\ Total(h, L) \in Nat /\ Total(log, C) \in Nat
          /\ Total(Recorded(h, s, r, n, now), L) \in Nat
      BY <2>2, <2>7, TotalType DEF RecordsIn
    <2>9. Total(hash'[k], L) <= Total(sent'[k[1]], C)
      BY <2>1, <2>2, <2>3, <2>4, <2>5, <2>6, <2>8
    <2> QED
      BY <2>9 DEF L, C
  <1> QED
    BY <1>1, <1>2 DEF Script

\* No step of the limiter puts more in a hash than was charged, and the clock
\* never goes back.
LEMMA StepModest ==
    IInv /\ Modest /\ [Next]_vars => Modest' /\ now' \in Nat /\ now <= now'
  <1> SUFFICES ASSUME IInv, Modest, [Next]_vars
               PROVE  Modest' /\ now' \in Nat /\ now <= now'
    OBVIOUS
  <1>0. CallsOK /\ now \in Nat /\ DOMAIN hash = Keys
    BY DEF IInv, TypeOK, StoreOK
  <1>1. CASE Tick
    <2>1. now' = now + 1 /\ UNCHANGED <<hash, sent>>
      BY <1>1 DEF Tick, store
    <2> QED
      BY <1>0, <2>1 DEF Modest
  <1>2. ASSUME NEW key \in Keys, Expire(key) PROVE Modest' /\ now' = now
    <2>1. /\ \A k \in Keys : hash'[k] = IF k = key THEN NoFields ELSE hash[k]
          /\ UNCHANGED <<now, sent>>
      BY <1>0, <1>2 DEF Expire
    <2> SUFFICES ASSUME NEW k \in Keys, NEW oldest \in Int
                 PROVE  Total(hash'[k], LiveSet(k[2], oldest))
                        <= Total(sent[k[1]], ChargedSet(k[2], oldest))
      BY <2>1 DEF Modest, NoMore
    <2>2. IsTally(sent[k[1]])
      BY KeyFacts DEF IInv, Tallies
    <2>3. Total(sent[k[1]], ChargedSet(k[2], oldest)) \in Nat
      BY <2>2, TotalType
    <2>4. CASE k # key
      BY <2>1, <2>4 DEF Modest, NoMore
    <2>5. CASE k = key
      <3>1. Total(hash'[k], LiveSet(k[2], oldest)) = 0
        BY <2>1, <2>5, NoFieldsTally
      <3> QED
        BY <2>3, <3>1
    <2> QED
      BY <2>4, <2>5
  <1>3. CASE UNCHANGED <<now, hash, sent>>
    BY <1>0, <1>3 DEF Modest
  <1>4. ASSUME NEW c \in Clients, Execute(c) PROVE Modest' /\ now' = now
    <2>1. call[c].user \in Users /\ call[c].count \in Counts
      BY <1>0, <1>4, CallFacts DEF Execute
    <2> QED
      BY <1>4, <2>1, RecordModest DEF Execute
  <1>5. ASSUME NEW cmd \in late, ExecuteLate(cmd) PROVE Modest' /\ now' = now
    <2>1. cmd.user \in Users /\ cmd.count \in Counts
      BY <1>0 DEF CallsOK, Command
    <2> QED
      BY <1>5, <2>1, RecordModest DEF ExecuteLate
  <1>6. ASSUME NEW c \in Clients,
               \/ \E u \in Users, n \in Counts : Invoke(c, u, n)
               \/ Return(c) \/ Lose(c) \/ Abandon(c) \/ Finish(c)
        PROVE  UNCHANGED <<now, hash, sent>>
    BY <1>6 DEF Invoke, Return, Lose, Abandon, Finish, store
  <1>7. now' = now => now' \in Nat /\ now <= now'
    BY <1>0
  <1> QED
    BY <1>1, <1>2, <1>3, <1>4, <1>5, <1>6, <1>7 DEF Next, vars

\* A step of the limiter leaves the query alone and moves the clock forward.
LEMMA LimiterStepKeepsQuery ==
    StatusInv /\ [Next]_vars /\ UNCHANGED query => StatusInv'
  <1> SUFFICES ASSUME StatusInv, [Next]_vars, UNCHANGED query PROVE StatusInv'
    OBVIOUS
  <1>1. IInv' /\ Modest'
    BY NextInv, StepModest DEF StatusInv
  <1>2. now \in Nat /\ now' \in Nat /\ now <= now'
    BY StepModest DEF StatusInv, IInv, TypeOK, StoreOK
  <1>3. 0 .. now \subseteq 0 .. now'
    BY <1>2
  <1>4. QueryOK'
    BY <1>3 DEF StatusInv, QueryOK
  <1>5. Shape' /\ Readings' /\ ReplyOK'
    BY DEF StatusInv, Shape, Readings, ReplyOK
  <1> QED
    BY <1>1, <1>4, <1>5 DEF StatusInv

\* A query's step writes nothing, and what it reads is what is there.
LEMMA QueryStepInv == StatusInv /\ StatusStep /\ UNCHANGED vars => StatusInv'
  <1> SUFFICES ASSUME StatusInv, StatusStep, UNCHANGED vars PROVE StatusInv'
    OBVIOUS
  <1>0. UNCHANGED <<now, hash, expireAt, call, late, sent>> /\ now \in Nat
    BY DEF vars, StatusInv, IInv, TypeOK, StoreOK
  <1>1. IInv'
    BY NextInv DEF StatusInv
  <1>2. Modest'
    BY <1>0 DEF StatusInv, Modest
  <1>3. SUFFICES QueryOK' /\ Shape' /\ Readings' /\ ReplyOK'
    BY <1>1, <1>2 DEF StatusInv
  <1>4. CASE query'.phase \in {"idle", "failed", "unrestricted"}
    BY <1>4 DEF QueryOK, Shape, Readings, ReplyOK
  <1>5. ASSUME NEW u \in Users, AskStatus(u)
        PROVE  QueryOK' /\ Shape' /\ Readings' /\ ReplyOK'
    <2>1. CASE Unrestricted(u)
      BY <1>4, <1>5, <2>1 DEF AskStatus
    <2>2. CASE ~ Unrestricted(u)
      BY <1>5, <2>2 DEF AskStatus, QueryOK, Shape, Readings, ReplyOK
    <2> QED
      BY <2>1, <2>2
  <1>6. ASSUME ReadTime PROVE QueryOK' /\ Shape' /\ Readings' /\ ReplyOK'
    <2>1. query.user \in Users
      BY <1>6 DEF ReadTime, StatusInv, QueryOK
    <2>2. query' = [phase |-> "read", user |-> query.user, time |-> now, seen |-> << >>]
      BY <1>6 DEF ReadTime, Clock
    <2>3. DOMAIN << >> = {} /\ now \in 0 .. now
      BY <1>0
    <2> QED
      BY <1>0, <2>1, <2>2, <2>3 DEF QueryOK, Shape, Readings, ReplyOK
  <1>7. ASSUME NEW s, ReadHash(s) PROVE QueryOK' /\ Shape' /\ Readings' /\ ReplyOK'
    <2> DEFINE u == query.user
               k == <<u, s>>
               r == [fields |-> hash[k], at |-> now, log |-> sent[u]]
    <2>1. /\ query.phase = "read" /\ u \in Users
          /\ query.time \in 0 .. now
          /\ DOMAIN query.seen \subseteq Plan[u].bucket_sizes
          /\ s \in Plan[u].bucket_sizes
          /\ \A z \in DOMAIN query.seen : ReadingOK(query.seen[z], <<u, z>>, query.time)
      BY <1>7 DEF ReadHash, StatusInv, QueryOK, Readings
    <2>2. query' = [query EXCEPT !.seen = [z \in DOMAIN query.seen \cup {s} |->
                        IF z = s THEN r ELSE query.seen[z]]]
      BY <1>7 DEF ReadHash
    <2>3. /\ query'.phase = "read" /\ query'.user = u /\ query'.time = query.time
          /\ query'.seen = [z \in DOMAIN query.seen \cup {s} |->
                               IF z = s THEN r ELSE query.seen[z]]
      <3>1. DOMAIN query = {"phase", "user", "time", "seen"}
        BY <2>1 DEF StatusInv, Shape
      <3> QED
        BY <2>1, <2>2, <3>1
    <2>4. k \in Keys /\ k[1] = u /\ k[2] = s
      BY <2>1 DEF Keys
    <2>5. ReadingOK(r, k, query.time)
      <3>1. IsTally(hash[k]) /\ IsTally(sent[u])
        BY <2>1, <2>4 DEF StatusInv, IInv, Tallies
      <3>2. NoMore(hash[k], sent[u], s)
        BY <2>4 DEF StatusInv, Modest
      <3>3. AgreeSince(hash[k], sent[u], s, now, Retention(k))
        BY <2>4 DEF StatusInv, IInv, Faithful, AgreeSince
      <3>4. query.time <= now
        BY <1>0, <2>1
      <3> QED
        BY <1>0, <2>4, <3>1, <3>2, <3>3, <3>4 DEF ReadingOK
    <2> HIDE DEF r
    <2>6. QueryOK'
      BY <1>0, <2>1, <2>3 DEF QueryOK
    <2>7. Readings' /\ ReplyOK'
      BY <2>1, <2>3, <2>5 DEF Readings, ReplyOK
    <2>8. Shape'
      BY <2>1, <2>2 DEF StatusInv, Shape
    <2> QED
      BY <2>6, <2>7, <2>8
  <1>8. ASSUME ReplyStatus PROVE QueryOK' /\ Shape' /\ Readings' /\ ReplyOK'
    <2> DEFINE u == query.user
               total(w) == LET h == query.seen[w.bucket_size].fields
                           IN  Total(h, Counted(h, w, query.time))
    <2>1. /\ query.phase = "read" /\ u \in Users
          /\ query.time \in 0 .. now
          /\ DOMAIN query.seen = Plan[u].bucket_sizes
          /\ \A z \in DOMAIN query.seen : ReadingOK(query.seen[z], <<u, z>>, query.time)
      BY <1>8 DEF ReplyStatus, StatusInv, QueryOK, Readings
    <2>2. query' = [phase |-> "replied", user |-> u, time |-> query.time,
                    seen |-> query.seen, total |-> [w \in Plan[u].windows |-> total(w)]]
      BY <1>8 DEF ReplyStatus
    <2>3. ASSUME NEW w \in Plan[u].windows PROVE total(w) \in Nat
      <3>1. w.bucket_size \in Plan[u].bucket_sizes
        BY <2>1, WindowFacts
      <3>2. IsTally(query.seen[w.bucket_size].fields)
        BY <2>1, <3>1 DEF ReadingOK
      <3> QED
        BY <3>2, TotalType
    <2> HIDE DEF total
    <2>4. QueryOK'
      BY <1>0, <2>1, <2>2, <2>3 DEF QueryOK
    <2>5. Readings' /\ Shape'
      BY <2>1, <2>2 DEF Readings, Shape
    <2>6. ReplyOK'
      BY <2>1, <2>2 DEF ReplyOK, total
    <2> QED
      BY <2>4, <2>5, <2>6
  <1>9. CASE FailStatus \/ EndStatus
    BY <1>4, <1>9 DEF FailStatus, EndStatus
  <1> QED
    BY <1>5, <1>6, <1>7, <1>8, <1>9 DEF StatusStep

\* StatusInv holds of every behaviour of limiter and query together.
LEMMA StatusInvariance == StatusSpec => []StatusInv
  <1>1. StatusInit => StatusInv
    <2> SUFFICES ASSUME StatusInit PROVE StatusInv
      OBVIOUS
    <2>1. IInv
      BY InitInv DEF StatusInit
    <2>2. QueryOK /\ Shape /\ Readings /\ ReplyOK
      BY DEF StatusInit, QueryOK, Shape, Readings, ReplyOK
    <2>3. Modest
      <3> SUFFICES ASSUME NEW k \in Keys, NEW oldest \in Int
                   PROVE  Total(hash[k], LiveSet(k[2], oldest))
                          <= Total(sent[k[1]], ChargedSet(k[2], oldest))
        BY DEF Modest, NoMore
      <3>1. hash[k] = NoFields /\ sent[k[1]] = NoFields
        BY KeyFacts DEF StatusInit, Init
      <3> QED
        BY <3>1, NoFieldsTally
    <2> QED
      BY <2>1, <2>2, <2>3 DEF StatusInv
  <1>2. StatusInv /\ [StatusNext]_<<vars, query>> => StatusInv'
    <2> SUFFICES ASSUME StatusInv, [StatusNext]_<<vars, query>> PROVE StatusInv'
      OBVIOUS
    <2>1. \/ [Next]_vars /\ UNCHANGED query
          \/ StatusStep /\ UNCHANGED vars
      BY DEF StatusNext
    <2> QED
      BY <2>1, LimiterStepKeepsQuery, QueryStepInv
  <1> QED
    BY <1>1, <1>2, PTL DEF StatusSpec

\* What was charged in the buckets that count above a cutoff is at least what
\* was charged from the cutoff on, and at most that of one bucket more.
LEMMA ChargedBounds ==
    ASSUME NEW log, IsTally(log), NEW s \in Nat \ {0}, NEW oldest \in Int
    PROVE  /\ Charged(log, oldest) \in Nat
           /\ Total(log, ChargedSet(s, oldest)) \in Nat
           /\ Charged(log, oldest - s + 1) \in Nat
           /\ Charged(log, oldest) <= Total(log, ChargedSet(s, oldest))
           /\ Total(log, ChargedSet(s, oldest)) <= Charged(log, oldest - s + 1)
  <1> DEFINE T(t0) == {t \in DOMAIN log : t >= t0}
             C == ChargedSet(s, oldest)
  <1>1. ASSUME NEW t \in Nat
        PROVE  /\ t >= oldest => t \in C
               /\ t \in C => t >= oldest - s + 1
    <2>1. /\ BucketEnd(BucketOf(t, s), s) \in Nat
          /\ t < BucketEnd(BucketOf(t, s), s)
          /\ BucketEnd(BucketOf(t, s), s) <= t + s
      BY BucketBounds
    <2> QED
      BY <2>1 DEF ChargedSet
  <1>2. DOMAIN log \subseteq Nat
    BY DEF IsTally
  <1>3. T(oldest) \cap DOMAIN log \subseteq C
    BY <1>1, <1>2
  <1>4. C \cap DOMAIN log \subseteq T(oldest - s + 1)
    BY <1>1, <1>2
  <1> HIDE DEF C, T
  <1>5. /\ Total(log, T(oldest)) <= Total(log, C)
        /\ Total(log, C) <= Total(log, T(oldest - s + 1))
    BY <1>3, <1>4, TotalMonotone
  <1>6. /\ Total(log, T(oldest)) \in Nat /\ Total(log, C) \in Nat
        /\ Total(log, T(oldest - s + 1)) \in Nat
    BY TotalType
  <1> QED
    BY <1>5, <1>6 DEF Charged, C, T

\* The saturating subtraction of compute_sasl_status makes no difference: no
\* bucket ends at or before 0.
LEMMA SaturationIsHarmless ==
    ASSUME NEW u \in Users, NEW w \in Plan[u].windows, NEW t \in Nat, NEW h, IsTally(h)
    PROVE  Total(h, Counted(h, w, t)) = Total(h, LiveSet(w.bucket_size, t - w.span_secs))
  <1> DEFINE s == w.bucket_size
             span == w.span_secs
  <1>1. s \in Nat \ {0} /\ span \in Nat
    BY WindowFacts
  <1>2. ASSUME NEW id \in DOMAIN h
        PROVE  BucketEnd(id, s) > Oldest(w, t) <=> BucketEnd(id, s) > t - span
    <2>1. id \in Nat
      BY DEF IsTally
    <2>2. BucketEnd(id, s) \in Nat
      BY <1>1, <2>1, BucketEndType
    <2>3. BucketEnd(id, s) > 0
      <3>1. (id + 1) * s = id * s + s /\ id * s \in Nat
        BY <1>1, <2>1
      <3> QED
        BY <1>1, <3>1 DEF BucketEnd
    <2> QED
      BY <1>1, <2>2, <2>3 DEF Oldest
  <1>3. Counted(h, w, t) \cap DOMAIN h = LiveSet(s, t - span) \cap DOMAIN h
    BY <1>2 DEF Counted, LiveSet, IsTally
  <1> QED
    BY <1>3, UnitsAgree

\* What a reply is made of, window by window.
LEMMA ReplyFacts ==
    ASSUME StatusInv, query.phase = "replied", NEW w \in Plan[query.user].windows
    PROVE  /\ query.user \in Users /\ query.time \in Nat
           /\ w.bucket_size \in DOMAIN query.seen
           /\ ReadingOK(query.seen[w.bucket_size], <<query.user, w.bucket_size>>, query.time)
           /\ query.total[w] = Total(query.seen[w.bucket_size].fields,
                                     LiveSet(w.bucket_size, query.time - w.span_secs))
  <1>1. query.user \in Users /\ query.time \in 0 .. now
    BY DEF StatusInv, QueryOK
  <1>2. w.bucket_size \in DOMAIN query.seen
    BY <1>1, WindowFacts DEF StatusInv, ReplyOK
  <1>3. ReadingOK(query.seen[w.bucket_size], <<query.user, w.bucket_size>>, query.time)
    BY <1>2 DEF StatusInv, Readings
  <1>4. query.time \in Nat /\ IsTally(query.seen[w.bucket_size].fields)
    BY <1>1, <1>3 DEF ReadingOK, StatusInv, IInv, TypeOK, StoreOK
  <1>5. LET h == query.seen[w.bucket_size].fields
        IN  query.total[w] = Total(h, Counted(h, w, query.time))
    BY DEF StatusInv, ReplyOK
  <1> QED
    BY <1>1, <1>2, <1>3, <1>4, <1>5, SaturationIsHarmless

\* The state of limiter and query keeps its types.
THEOREM StatusTypeCorrect == StatusSpec => []StatusTypeOK
  <1>1. StatusInv => StatusTypeOK
    BY DEF StatusInv, IInv, StatusTypeOK
  <1> QED
    BY <1>1, StatusInvariance, PTL

\* The totals of limits.sasl lie between what each window held when its hash
\* was read and what it held at the clock reading, stretched by one bucket,
\* whatever checks, prunings and expiries fall between the commands of
\* compute_sasl_status and for every plan.
THEOREM StatusBracketed == StatusSpec => []StatusIsBracketed
  <1>1. ASSUME StatusInv PROVE StatusIsBracketed
    <2> SUFFICES ASSUME query.phase = "replied", NEW w \in Plan[query.user].windows
                 PROVE  LET r == query.seen[w.bucket_size]
                        IN  /\ Charged(r.log, r.at - w.span_secs) <= query.total[w]
                            /\ query.total[w]
                                <= Charged(r.log, query.time - w.span_secs - w.bucket_size + 1)
      BY DEF StatusIsBracketed
    <2> DEFINE s == w.bucket_size
               span == w.span_secs
               r == query.seen[s]
               k == <<query.user, s>>
               f == r.fields
               log == r.log
               t == query.time
               at == r.at
    <2>1. /\ query.user \in Users /\ t \in Nat /\ ReadingOK(r, k, t)
          /\ query.total[w] = Total(f, LiveSet(s, t - span))
      BY <1>1, ReplyFacts
    <2>2. /\ s \in Nat \ {0} /\ span \in Nat
          /\ Retention(k) \in Nat /\ span <= Retention(k)
      BY <2>1, WindowFacts
    <2>3. /\ IsTally(f) /\ IsTally(log) /\ at \in Nat /\ t <= at
          /\ NoMore(f, log, s) /\ AgreeSince(f, log, s, at, Retention(k))
      BY <2>1 DEF ReadingOK
    <2> HIDE DEF s, span, r, k, f, log, t, at
    <2>4. /\ t - span \in Int /\ at - span \in Int
          /\ at - span >= at - Retention(k) /\ t - span <= at - span
      BY <2>1, <2>2, <2>3
    <2>5. Charged(log, at - span) <= Total(f, LiveSet(s, t - span))
      <3>1. Charged(log, at - span) <= Total(log, ChargedSet(s, at - span))
        BY <2>2, <2>3, <2>4, ChargedBounds
      <3>2. Total(log, ChargedSet(s, at - span)) = Total(f, LiveSet(s, at - span))
        BY <2>3, <2>4 DEF AgreeSince
      <3>3. LiveSet(s, at - span) \subseteq LiveSet(s, t - span)
        <4>1. \A id \in Nat : BucketEnd(id, s) \in Nat
          BY <2>2, BucketEndType
        <4> QED
          BY <2>4, <4>1 DEF LiveSet
      <3>4. Total(f, LiveSet(s, at - span)) <= Total(f, LiveSet(s, t - span))
        BY <2>3, <3>3, TotalMonotone
      <3>5. /\ Charged(log, at - span) \in Nat
            /\ Total(f, LiveSet(s, at - span)) \in Nat
            /\ Total(f, LiveSet(s, t - span)) \in Nat
        BY <2>2, <2>3, <2>4, ChargedBounds, TotalType
      <3> QED
        BY <3>1, <3>2, <3>4, <3>5
    <2>6. Total(f, LiveSet(s, t - span)) <= Charged(log, t - span - s + 1)
      <3>1. Total(f, LiveSet(s, t - span)) <= Total(log, ChargedSet(s, t - span))
        BY <2>3, <2>4 DEF NoMore
      <3>2. /\ Total(log, ChargedSet(s, t - span)) <= Charged(log, t - span - s + 1)
            /\ Total(log, ChargedSet(s, t - span)) \in Nat
            /\ Charged(log, t - span - s + 1) \in Nat
        BY <2>2, <2>3, <2>4, ChargedBounds
      <3>3. Total(f, LiveSet(s, t - span)) \in Nat
        BY <2>3, TotalType
      <3> QED
        BY <3>1, <3>2, <3>3
    <2> QED
      BY <2>1, <2>5, <2>6 DEF s, span, r, f, log, t, at
  <1> QED
    BY <1>1, StatusInvariance, PTL

\* A status reply and the script decide alike: while the second lasts and
\* nothing has changed, the script admits a message exactly if every total of
\* the reply has room for it.
THEOREM StatusAgrees == StatusSpec => []StatusAgreesWithEnforcement
  <1>1. ASSUME StatusInv PROVE StatusAgreesWithEnforcement
    <2> SUFFICES ASSUME query.phase = "replied", query.time = now,
                        \A s \in DOMAIN query.seen :
                            query.seen[s].fields = hash[<<query.user, s>>],
                        NEW n \in Counts
                 PROVE  Fits(query.user, n)
                        <=> \A w \in Plan[query.user].windows : query.total[w] + n <= w.limit
      BY DEF StatusAgreesWithEnforcement
    <2> DEFINE u == query.user
               hashes == [s \in Plan[u].bucket_sizes |-> hash[<<u, s>>]]
    <2>1. ASSUME NEW w \in Plan[u].windows
          PROVE  /\ query.total[w] = WindowTotal(hashes[w.bucket_size], w, now)
                 /\ query.total[w] \in Nat
      <3>1. /\ u \in Users /\ now \in Nat
            /\ hash[<<u, w.bucket_size>>] = query.seen[w.bucket_size].fields
            /\ query.total[w] = Total(hash[<<u, w.bucket_size>>],
                                      LiveSet(w.bucket_size, now - w.span_secs))
        BY <1>1, ReplyFacts
      <3>2. /\ w.bucket_size \in Nat \ {0} /\ w.span_secs \in Nat
            /\ hashes[w.bucket_size] = hash[<<u, w.bucket_size>>]
            /\ IsTally(hash[<<u, w.bucket_size>>])
        BY <1>1, <3>1, WindowFacts DEF StatusInv, IInv, Tallies
      <3> QED
        BY <3>1, <3>2, LiveTotal, TotalType DEF WindowTotal
    <2>2. n \in Nat
      BY CountsAssumption
    <2> HIDE DEF hashes
    <2>3. ASSUME NEW w \in Plan[u].windows
          PROVE  query.total[w] + n <= w.limit
                 <=> n + WindowTotal(hashes[w.bucket_size], w, now) <= w.limit
      BY <2>1, <2>2
    <2> QED
      BY <2>3 DEF Fits, Accepts, hashes
  <1> QED
    BY <1>1, StatusInvariance, PTL

\* A status query is invisible to enforcement: limiter and query together
\* behave as the limiter alone, so whatever is proved of the limiter holds
\* beside any number of queries, and the exact log is still implemented.
THEOREM QueriesAreInvisible == StatusSpec => Spec /\ ImplementsSlidingWindow
  <1>1. StatusInit => Init
    BY DEF StatusInit
  <1>2. [StatusNext]_<<vars, query>> => [Next]_vars
    BY DEF StatusNext
  <1> QED
    BY <1>1, <1>2, Refinement, PTL DEF StatusSpec, Spec
=============================================================================
