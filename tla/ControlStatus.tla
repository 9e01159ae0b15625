--------------------------- MODULE ControlStatus ---------------------------
(***************************************************************************)
(* compute_sasl_status (src/control/mod.rs) beside the limiter: the        *)
(* limits.sasl method of the control socket reads Valkey's clock and then  *)
(* every hash of the plan, each with a command of its own, while checks go *)
(* on.  A query writes nothing, so one at a time is enough.                *)
(***************************************************************************)
EXTENDS Limiter

VARIABLE query  \* the query: its phase, the clock it read, what it has read

\* seen[s] is the reply to the HGETALL of bucket size s, with the second of
\* the reading and the log at that moment as history; total[w] is the
\* current_total of a WindowStatus.
QueryOK ==
    \/ query.phase \in {"idle", "failed", "unrestricted"}
    \/ /\ query.phase \in {"time", "read", "replied"}
       /\ query.user \in Users
       /\ query.phase # "time" =>
            /\ query.time \in 0 .. now
            /\ DOMAIN query.seen \subseteq Plan[query.user].bucket_sizes
       /\ query.phase = "replied" => query.total \in [Plan[query.user].windows -> Nat]

StatusTypeOK == TypeOK /\ QueryOK

StatusInit == Init /\ query = [phase |-> "idle"]

\* dispatch loads the state; an exempt user has no hashes.
AskStatus(u) ==
    /\ query.phase = "idle"
    /\ query' = IF Unrestricted(u) THEN [phase |-> "unrestricted"]
                ELSE [phase |-> "time", user |-> u]

\* Definitions named Wrong... are variants that the code could have had; the
\* checks must tell them from the definition that follows.

\* The clock of this host, one second ahead.
WrongClock == now + 1

\* TIME, as in the script.
Clock == now

ReadTime ==
    /\ query.phase = "time"
    /\ query' = [phase |-> "read", user |-> query.user, time |-> Clock, seen |-> << >>]

\* HGETALL of one key.
ReadHash(s) ==
    /\ query.phase = "read"
    /\ s \in Plan[query.user].bucket_sizes \ DOMAIN query.seen
    /\ query' = [query EXCEPT !.seen = [r \in DOMAIN @ \cup {s} |->
            IF r = s THEN [fields |-> hash[<<query.user, s>>], at |-> now,
                           log |-> sent[query.user]]
                     ELSE @[r]]]

\* Counts a bucket only until its start leaves the window.
WrongCounted(h, w, t) == {id \in DOMAIN h : id * w.bucket_size > t - w.span_secs}

\* now.saturating_sub(span_secs).
Oldest(w, t) == IF t >= w.span_secs THEN t - w.span_secs ELSE 0

Counted(h, w, t) == {id \in DOMAIN h : BucketEnd(id, w.bucket_size) > Oldest(w, t)}

ReplyStatus ==
    /\ query.phase = "read"
    /\ DOMAIN query.seen = Plan[query.user].bucket_sizes
    /\ query' = [phase |-> "replied", user |-> query.user, time |-> query.time,
                 seen |-> query.seen,
                 total |-> [w \in Plan[query.user].windows |->
                    LET h == query.seen[w.bucket_size].fields
                    IN  Total(h, Counted(h, w, query.time))]]

\* A command fails: "error checking status".
FailStatus == query.phase \in {"time", "read"} /\ query' = [phase |-> "failed"]

EndStatus ==
    /\ query.phase \in {"replied", "failed", "unrestricted"}
    /\ query' = [phase |-> "idle"]

StatusStep ==
    \/ \E u \in Users : AskStatus(u)
    \/ ReadTime \/ ReplyStatus \/ FailStatus \/ EndStatus
    \/ \E s \in UNION {Plan[u].bucket_sizes : u \in Users} : ReadHash(s)

StatusNext ==
    \/ Next /\ UNCHANGED query
    \/ StatusStep /\ UNCHANGED vars

StatusSpec == StatusInit /\ [][StatusNext]_<<vars, query>>

----------------------------------------------------------------------------
(* Properties *)

Charged(log, t0) == Total(log, {t \in DOMAIN log : t >= t0})

\* However many checks, prunings and expiries fall between the commands of
\* compute_sasl_status, each total it replies is at least what its window held
\* when the hash was read, and at most what had been charged by then since one
\* bucket before the window that ended at the clock reading began.
StatusIsBracketed ==
    query.phase = "replied" =>
        \A w \in Plan[query.user].windows :
            LET r == query.seen[w.bucket_size]
            IN  /\ Charged(r.log, r.at - w.span_secs) <= query.total[w]
                /\ query.total[w]
                    <= Charged(r.log, query.time - w.span_secs - w.bucket_size + 1)

\* "Status can't disagree with real enforcement": as long as the second has
\* not passed and nothing was recorded since the reading, the script lets a
\* message through exactly if every total of the reply has room for it.
StatusAgreesWithEnforcement ==
    (/\ query.phase = "replied" /\ query.time = now
     /\ \A s \in DOMAIN query.seen : query.seen[s].fields = hash[<<query.user, s>>])
        => \A n \in Counts :
            Fits(query.user, n)
                <=> \A w \in Plan[query.user].windows : query.total[w] + n <= w.limit
=============================================================================
