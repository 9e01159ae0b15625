--------------------------- MODULE CheckAndRecord ---------------------------
(***************************************************************************)
(* lua/check_and_record.lua as operators on the hashes it reads and        *)
(* writes.  Valkey runs the script atomically, so a caller evaluates       *)
(* Accepts and, if it is TRUE, replaces every hash of the plan by Recorded *)
(* in one step.                                                            *)
(*                                                                         *)
(* A plan is a record with                                                 *)
(*   bucket_sizes    the set of bucket sizes in use, in seconds            *)
(*   retention_secs  a function from those sizes to seconds                *)
(*   windows         a set of [bucket_size, span_secs, limit]              *)
(* The code's parallel arrays and key_index become functions of the bucket *)
(* size, which CheckPlan::new never repeats.                               *)
(***************************************************************************)
EXTENDS Tally, FiniteSetsExt

\* What CheckPlan::new guarantees of a plan (module CheckPlan).
IsPlan(p) ==
    /\ p.bucket_sizes \subseteq Nat \ {0}
    /\ p.retention_secs \in [p.bucket_sizes -> Nat]
    /\ p.windows \subseteq [bucket_size : p.bucket_sizes, span_secs : Nat, limit : Nat]
    /\ \A w \in p.windows : w.span_secs <= p.retention_secs[w.bucket_size]

\* Definitions named Wrong... are variants that the code could have had; the
\* checks must tell them from the definition that follows.

\* The bucket that an instant falls into.
BucketOf(t, size) == t \div size

\* The first instant after a bucket.
BucketEnd(id, size) == (id + 1) * size

\* Drops a bucket as soon as its first instant leaves the window.
WrongLiveIdsEarly(h, size, oldest) == {id \in DOMAIN h : id * size > oldest}

\* Keeps a bucket for one second too long.
WrongLiveIdsLate(h, size, oldest) == {id \in DOMAIN h : BucketEnd(id, size) >= oldest}

\* The buckets a window still counts: in full until their end passes oldest.
LiveIds(h, size, oldest) == {id \in DOMAIN h : BucketEnd(id, size) > oldest}

\* What a window has recorded that still counts at time t.
WindowTotal(h, w, t) ==
    Total(h, LiveIds(h, w.bucket_size, t - w.span_secs))

\* Every window of the plan has room for n more recipients at time t.
\* hashes[s] is the content of the key for bucket size s.
Accepts(hashes, plan, n, t) ==
    \A w \in plan.windows :
        n + WindowTotal(hashes[w.bucket_size], w, t) <= w.limit

\* Never prunes.
WrongStaleIds(h, size, oldest) == {}

\* The buckets deleted with a record at time t.  The scan is skipped when
\* the oldest bucket is not stale.
StaleIds(h, size, oldest) ==
    IF DOMAIN h # {} /\ BucketEnd(Min(DOMAIN h), size) <= oldest
    THEN {id \in DOMAIN h : BucketEnd(id, size) <= oldest}
    ELSE {}

\* The hash of one key after recording n recipients at time t.
Recorded(h, size, retention, n, t) ==
    Without(Increment(h, BucketOf(t, size), n),
            StaleIds(h, size, t - retention))

\* Counts the retention from the start of the bucket.
WrongTimeToLive(size, retention) == retention

\* The TTL the script gives a key it records in.
TimeToLive(size, retention) == retention + size
=============================================================================
