----------------------------- MODULE PlanChange -----------------------------
(***************************************************************************)
(* One sender, several daemon instances that share a Valkey database and a *)
(* key prefix, and reloads that change their plans.  The keys are named by *)
(* bucket size alone, and each command of check_sasl carries the plan of   *)
(* the config that was loaded for its request, so commands of different    *)
(* plans meet in the same hashes: each checks, prunes and sets TTLs by its *)
(* own plan, also when it runs after a reload has replaced that plan.      *)
(***************************************************************************)
EXTENDS CheckAndRecord

CONSTANTS
    Instances,  \* daemons
    Plans,      \* the plans that configs may give the sender
    Counts,     \* recipient counts of a message
    MaxTime     \* bound on the clock

AllWindows == UNION {p.windows : p \in Plans}
Sizes == UNION {p.bucket_sizes : p \in Plans}

\* Each plan is one that CheckPlan::new can give.
ASSUME PlansAssumption == \A p \in Plans : IsPlan(p)
ASSUME BoundsAssumption == Counts \subseteq Nat /\ MaxTime \in Nat

VARIABLES
    now,        \* Valkey's clock
    hash,       \* hash[s]: the key of the sender for bucket size s
    expireAt,   \* expireAt[s]: the second during which that key expires
    published,  \* published[i]: the plan in the RuntimeState of instance i
    flight,     \* flight[i]: a command sent and not run yet: plan and count
    sent,       \* history: recipients charged, by second
    streak,     \* history, by kind of window: what was charged since a plan
                \* that does not keep such a window last recorded
    last        \* history: when and by which plan was recorded last

vars == <<now, hash, expireAt, published, flight, sent, streak, last>>

\* A kind of window: bucket size and span.
KindOf(w) == <<w.bucket_size, w.span_secs>>
Kinds == {KindOf(w) : w \in AllWindows}

\* The plan records in the key of such a window and retains it long enough.
Keeps(p, kind) == kind[1] \in p.bucket_sizes /\ kind[2] <= p.retention_secs[kind[1]]

NoCommand == [count |-> -1]

TypeOK ==
    /\ now \in Nat
    /\ DOMAIN hash = Sizes
    /\ \A s \in Sizes : hash[s] \in [DOMAIN hash[s] -> Nat] /\ DOMAIN hash[s] \subseteq Nat
    /\ expireAt \in [Sizes -> Nat]
    /\ published \in [Instances -> Plans]
    /\ flight \in [Instances -> {NoCommand} \cup [plan : Plans, count : Counts]]

Init ==
    /\ now = 0
    /\ hash = [s \in Sizes |-> NoFields]
    /\ expireAt = [s \in Sizes |-> 0]
    /\ published \in [Instances -> Plans]
    /\ flight = [i \in Instances |-> NoCommand]
    /\ sent = NoFields
    /\ streak = [k \in Kinds |-> NoFields]
    /\ last = [at |-> 0, windows |-> {}]

Tick ==
    /\ now < MaxTime
    /\ \A s \in Sizes : DOMAIN hash[s] # {} => now < expireAt[s]
    /\ now' = now + 1
    /\ UNCHANGED <<hash, expireAt, published, flight, sent, streak, last>>

Expire(s) ==
    /\ DOMAIN hash[s] # {} /\ now >= expireAt[s]
    /\ hash' = [hash EXCEPT ![s] = NoFields]
    /\ UNCHANGED <<now, expireAt, published, flight, sent, streak, last>>

\* reload_config publishes another plan; commands in flight keep theirs.
Publish(i, p) ==
    /\ published' = [published EXCEPT ![i] = p]
    /\ UNCHANGED <<now, hash, expireAt, flight, sent, streak, last>>

\* handle_request: plan_for, then the invocation.  An empty plan sends none.
Invoke(i, n) ==
    /\ flight[i] = NoCommand
    /\ published[i].bucket_sizes # {}
    /\ flight' = [flight EXCEPT ![i] = [plan |-> published[i], count |-> n]]
    /\ UNCHANGED <<now, hash, expireAt, published, sent, streak, last>>

\* Definitions named Wrong... are variants that the code could have had; the
\* checks must tell them from the definition that follows.

\* The TTL of a key is set once and not extended.
WrongExpiry(p, s) ==
    IF DOMAIN hash[s] # {} THEN expireAt[s]
    ELSE now + TimeToLive(s, p.retention_secs[s])

Expiry(p, s) == now + TimeToLive(s, p.retention_secs[s])

\* Increments the key once for every window that shares it.
WrongCharges(p, s, n) == n * Cardinality({w \in p.windows : w.bucket_size = s})

Charges(p, s, n) == n

\* The script, with the plan of the command.
Execute(i) ==
    LET p == flight[i].plan
        n == flight[i].count
    IN  /\ flight[i] # NoCommand
        /\ flight' = [flight EXCEPT ![i] = NoCommand]
        /\ IF Accepts(hash, p, n, now)
           THEN /\ hash' = [s \in Sizes |->
                    IF s \in p.bucket_sizes
                    THEN Recorded(hash[s], s, p.retention_secs[s], Charges(p, s, n), now)
                    ELSE hash[s]]
                /\ expireAt' = [s \in Sizes |->
                    IF s \in p.bucket_sizes THEN Expiry(p, s) ELSE expireAt[s]]
                /\ sent' = Increment(sent, now, n)
                /\ streak' = [k \in Kinds |->
                    IF Keeps(p, k) THEN Increment(streak[k], now, n) ELSE NoFields]
                /\ last' = [at |-> now, windows |-> p.windows]
           ELSE UNCHANGED <<hash, expireAt, sent, streak, last>>
        /\ UNCHANGED <<now, published>>

\* The command or its connection is lost before it runs.
Drop(i) ==
    /\ flight[i] # NoCommand
    /\ flight' = [flight EXCEPT ![i] = NoCommand]
    /\ UNCHANGED <<now, hash, expireAt, published, sent, streak, last>>

Next ==
    \/ Tick
    \/ \E s \in Sizes : Expire(s)
    \/ \E i \in Instances :
        \/ \E p \in Plans : Publish(i, p)
        \/ \E n \in Counts : Invoke(i, n)
        \/ Execute(i) \/ Drop(i)

Spec == Init /\ [][Next]_vars

----------------------------------------------------------------------------
(* Properties *)

\* A window keeps its history across reloads and instances: whenever a
\* message is let through, everything charged within the window since a plan
\* that does not keep such windows last recorded is within the limit the
\* command's plan gives it, whichever plans and instances charged it.  So a
\* window that all the plans keep is enforced globally, one whose count is
\* edited is enforced by its new count at once, and one that a reload
\* introduces or lengthens undercounts only what was charged before.
EnforcedAcrossPlans ==
    \A w \in last.windows :
        Total(streak[KindOf(w)], {t \in DOMAIN streak[KindOf(w)] : t >= last.at - w.span_secs})
            <= w.limit

\* "No data will be corrupted": whatever plans share a key, no bucket ever
\* holds more than was charged in its seconds, so no plan refuses mail for
\* what was never sent.
\* It is stated of well-typed states.
NothingIsInflated ==
    /\ TypeOK
    /\ \A s \in Sizes : \A id \in DOMAIN hash[s] :
        hash[s][id] <= Total(sent, {t \in DOMAIN sent : BucketOf(t, s) = id})
=============================================================================
