------------------------------ MODULE Limiter ------------------------------
(***************************************************************************)
(* Limiter::check_sasl (src/limiter.rs) called from concurrent             *)
(* connections, check_and_record.lua running in Valkey, and what Valkey    *)
(* contributes: its clock and the expiry of keys.                          *)
(*                                                                         *)
(* A call sends one script invocation and waits.  The script runs          *)
(* atomically at some later instant; its reply may be lost, or the caller  *)
(* may stop waiting (RESPONSE_TIMEOUT, a dropped connection) while the     *)
(* command is still to run.  The clock never goes back.                    *)
(***************************************************************************)
EXTENDS CheckAndRecord

CONSTANTS
    Users,      \* SASL usernames
    Clients,    \* connections that may have a check in flight
    Counts,     \* recipient counts of a message
    Plan,       \* Plan[u]: the CheckPlan that plan_for(u) returns
    MaxTime,    \* bound on the clock
    MaxLate     \* bound on the abandoned commands still to be executed

\* Each plan is one that CheckPlan::new can give.
ASSUME PlanAssumption == \A u \in Users : IsPlan(Plan[u])
ASSUME CountsAssumption == Counts \subseteq Nat
ASSUME TimeAssumption == MaxTime \in Nat

VARIABLES
    now,        \* Valkey's clock, in seconds
    hash,       \* hash[k]: the buckets stored under key k
    expireAt,   \* expireAt[k]: the second during which key k expires
    call,       \* call[c]: the check_sasl call of connection c
    late,       \* commands whose caller has given up, still to be executed
    sent        \* history: recipients charged to each user, by second

store == <<hash, expireAt>>
vars == <<now, hash, expireAt, call, late, sent>>

\* Keys are named by identity and bucket size (bucket_key).
Keys == UNION {{u} \X Plan[u].bucket_sizes : u \in Users}

Retention(k) == Plan[k[1]].retention_secs[k[2]]
Unrestricted(u) == Plan[u].bucket_sizes = {}

Command == [client : Clients, user : Users, count : Counts]

Call ==
    [phase : {"idle"}]
    \cup [phase : {"sent"}, user : Users, count : Counts]
    \cup [phase : {"executed"}, user : Users, count : Counts,
          result : {"accept", "reject"}]
    \cup [phase : {"returned"}, user : Users, count : Counts,
          result : {"accept", "reject", "error"}]

CallsOK ==
    /\ call \in [Clients -> Call]
    /\ late \subseteq Command

StoreOK ==
    /\ now \in Nat
    /\ DOMAIN hash = Keys
    /\ \A k \in Keys : /\ DOMAIN hash[k] \subseteq Nat
                       /\ \A id \in DOMAIN hash[k] : hash[k][id] \in Nat
    /\ expireAt \in [Keys -> Nat]
    /\ DOMAIN sent = Users
    /\ \A u \in Users : /\ DOMAIN sent[u] \subseteq Nat
                        /\ \A t \in DOMAIN sent[u] : sent[u][t] \in Nat

TypeOK == CallsOK /\ StoreOK

Init ==
    /\ now = 0
    /\ hash = [k \in Keys |-> NoFields]
    /\ expireAt = [k \in Keys |-> 0]
    /\ call = [c \in Clients |-> [phase |-> "idle"]]
    /\ late = {}
    /\ sent = [u \in Users |-> NoFields]

----------------------------------------------------------------------------
(* Valkey *)

\* A key whose TTL ends during this second is gone before the second is over.
Tick ==
    /\ now < MaxTime
    /\ \A k \in Keys : DOMAIN hash[k] # {} => now < expireAt[k]
    /\ now' = now + 1
    /\ UNCHANGED <<store, call, late, sent>>

Expire(k) ==
    /\ DOMAIN hash[k] # {}
    /\ now >= expireAt[k]
    /\ hash' = [hash EXCEPT ![k] = NoFields]
    /\ UNCHANGED <<now, expireAt, call, late, sent>>

\* Whether the script, run now for n recipients of u, would return 1.
Fits(u, n) ==
    Accepts([s \in Plan[u].bucket_sizes |-> hash[<<u, s>>]], Plan[u], n, now)

\* The script's writes: every key of the plan once, buckets and TTL.
Record(u, n) ==
    /\ hash' = [k \in Keys |->
            IF k[1] = u THEN Recorded(hash[k], k[2], Retention(k), n, now) ELSE hash[k]]
    /\ expireAt' = [k \in Keys |->
            IF k[1] = u THEN now + TimeToLive(k[2], Retention(k)) ELSE expireAt[k]]
    /\ sent' = [sent EXCEPT ![u] = Increment(@, now, n)]

\* One run of the script: all the windows are checked before anything is
\* written, and a rejected check writes nothing.
Script(u, n) ==
    \/ /\ Fits(u, n)
       /\ Record(u, n)
    \/ /\ ~ Fits(u, n)
       /\ UNCHANGED <<store, sent>>

----------------------------------------------------------------------------
(* check_sasl *)

SetCall(c, phase, result) ==
    call' = [call EXCEPT ![c] =
        [phase |-> phase, user |-> call[c].user, count |-> call[c].count,
         result |-> result]]

\* Sends the invocation; an unrestricted plan returns at once.
Invoke(c, u, n) ==
    /\ call[c].phase = "idle"
    /\ call' = [call EXCEPT ![c] =
            IF Unrestricted(u)
            THEN [phase |-> "returned", user |-> u, count |-> n, result |-> "accept"]
            ELSE [phase |-> "sent", user |-> u, count |-> n]]
    /\ UNCHANGED <<now, store, late, sent>>

Execute(c) ==
    /\ call[c].phase = "sent"
    /\ Script(call[c].user, call[c].count)
    /\ SetCall(c, "executed",
               IF Fits(call[c].user, call[c].count) THEN "accept" ELSE "reject")
    /\ UNCHANGED <<now, late>>

\* The reply arrives: Ok(allowed == 1).
Return(c) ==
    /\ call[c].phase = "executed"
    /\ SetCall(c, "returned", call[c].result)
    /\ UNCHANGED <<now, store, late, sent>>

\* The reply, or the command itself, is lost: Err.
Lose(c) ==
    /\ call[c].phase \in {"sent", "executed"}
    /\ SetCall(c, "returned", "error")
    /\ UNCHANGED <<now, store, late, sent>>

\* The caller times out on a command Valkey has still to run: Err.
Abandon(c) ==
    /\ call[c].phase = "sent"
    /\ Cardinality(late) < MaxLate
    /\ SetCall(c, "returned", "error")
    /\ late' = late \cup {[client |-> c, user |-> call[c].user, count |-> call[c].count]}
    /\ UNCHANGED <<now, store, sent>>

ExecuteLate(cmd) ==
    /\ Script(cmd.user, cmd.count)
    /\ late' = late \ {cmd}
    /\ UNCHANGED <<now, call>>

\* The caller has used the result.
Finish(c) ==
    /\ call[c].phase = "returned"
    /\ call' = [call EXCEPT ![c] = [phase |-> "idle"]]
    /\ UNCHANGED <<now, store, late, sent>>

Next ==
    \/ Tick
    \/ \E k \in Keys : Expire(k)
    \/ \E c \in Clients :
        \/ \E u \in Users, n \in Counts : Invoke(c, u, n)
        \/ Execute(c) \/ Return(c) \/ Lose(c) \/ Abandon(c) \/ Finish(c)
    \/ \E cmd \in late : ExecuteLate(cmd)

Spec == Init /\ [][Next]_vars

----------------------------------------------------------------------------
(* Properties *)

\* Recipients charged to u at or after instant t0.
ChargedSince(u, t0) == Total(sent[u], {t \in DOMAIN sent[u] : t >= t0})

\* At every instant, whatever was pruned or expired before and however many
\* connections raced, the recipients charged to a user during the last
\* span_secs (both ends included) are within the limit of that window.
SlidingWindowLimit ==
    \A u \in Users : \A w \in Plan[u].windows :
        ChargedSince(u, now - w.span_secs) <= w.limit

\* Pruning and TTLs never lose what a window still has to count: for every
\* cutoff that a window of the key can use, the buckets that count hold
\* exactly the recipients charged in those buckets.
StoreIsFaithful ==
    \A k \in Keys : \A oldest \in (now - Retention(k)) .. now :
        Total(hash[k], LiveIds(hash[k], k[2], oldest))
        = Total(sent[k[1]], {t \in DOMAIN sent[k[1]] :
                                BucketEnd(BucketOf(t, k[2]), k[2]) > oldest})

\* The hash of a key stays small, however long the sender keeps sending:
\* one bucket per bucket size in the retention, and one partial bucket at
\* each end.
HashIsBounded ==
    \A k \in Keys : Cardinality(DOMAIN hash[k]) <= Retention(k) \div k[2] + 2

SW == INSTANCE SlidingWindow WITH now <- now, sent <- sent, call <- call, late <- late

\* The buckets implement the exact log: no admission beyond a limit, no
\* refusal unless a window stretched by one bucket is full.
ImplementsSlidingWindow == SW!Spec
=============================================================================
