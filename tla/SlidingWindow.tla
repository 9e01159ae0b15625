--------------------------- MODULE SlidingWindow ---------------------------
(***************************************************************************)
(* What Limiter::check_sasl promises its callers, with no buckets, keys,   *)
(* pruning or expiry: a log of every recipient charged, by second, and two *)
(* rules.  A message may be admitted only if in every window the           *)
(* recipients charged in the last span_secs, plus this message's, are      *)
(* within the limit; it may be refused only if some window is over its     *)
(* limit once the window is stretched by the tolerance of one bucket.      *)
(* Between the two the implementation may decide either way.               *)
(***************************************************************************)
EXTENDS Tally

CONSTANTS
    Users,      \* SASL usernames
    Clients,    \* connections that may have a check in flight
    Counts,     \* recipient counts of a message
    Plan,       \* Plan[u]: the CheckPlan enforced for user u
    MaxTime     \* bound on the clock

VARIABLES
    now,    \* Valkey's clock, in seconds
    sent,   \* sent[u]: recipients charged to u, by second
    call,   \* call[c]: the check_sasl call of connection c
    late    \* commands whose caller has given up, still to be executed

vars == <<now, sent, call, late>>

Unrestricted(u) == Plan[u].bucket_sizes = {}

\* Recipients charged to u at or after instant t0.
ChargedSince(u, t0) == Total(sent[u], {t \in DOMAIN sent[u] : t >= t0})

\* The whole window, no more, has room for n.
HasRoom(u, w, n) == n + ChargedSince(u, now - w.span_secs) <= w.limit

\* The window is full once stretched by its tolerance.
IsFull(u, w, n) ==
    n + ChargedSince(u, now - w.span_secs - w.bucket_size + 1) > w.limit

MayAdmit(u, n) == \A w \in Plan[u].windows : HasRoom(u, w, n)
MayRefuse(u, n) == \E w \in Plan[u].windows : IsFull(u, w, n)

Charge(u, n) == sent' = [sent EXCEPT ![u] = Increment(@, now, n)]

Init ==
    /\ now = 0
    /\ sent = [u \in Users |-> NoFields]
    /\ call = [c \in Clients |-> [phase |-> "idle"]]
    /\ late = {}

Tick ==
    /\ now < MaxTime
    /\ now' = now + 1
    /\ UNCHANGED <<sent, call, late>>

\* A caller asks; an unrestricted user is admitted at once and not charged.
Ask(c, u, n) ==
    /\ call[c].phase = "idle"
    /\ call' = [call EXCEPT ![c] =
            IF Unrestricted(u)
            THEN [phase |-> "returned", user |-> u, count |-> n, result |-> "accept"]
            ELSE [phase |-> "sent", user |-> u, count |-> n]]
    /\ UNCHANGED <<now, sent, late>>

Admit(c) ==
    /\ call[c].phase = "sent"
    /\ MayAdmit(call[c].user, call[c].count)
    /\ Charge(call[c].user, call[c].count)
    /\ call' = [call EXCEPT ![c] =
            [phase |-> "executed", user |-> call[c].user, count |-> call[c].count,
             result |-> "accept"]]
    /\ UNCHANGED <<now, late>>

Refuse(c) ==
    /\ call[c].phase = "sent"
    /\ MayRefuse(call[c].user, call[c].count)
    /\ call' = [call EXCEPT ![c] =
            [phase |-> "executed", user |-> call[c].user, count |-> call[c].count,
             result |-> "reject"]]
    /\ UNCHANGED <<now, sent, late>>

Answer(c) ==
    /\ call[c].phase = "executed"
    /\ call' = [call EXCEPT ![c] =
            [phase |-> "returned", user |-> call[c].user, count |-> call[c].count,
             result |-> call[c].result]]
    /\ UNCHANGED <<now, sent, late>>

\* The caller gets an error; a command not yet executed may be left behind.
Fail(c) ==
    /\ call[c].phase \in {"sent", "executed"}
    /\ call' = [call EXCEPT ![c] =
            [phase |-> "returned", user |-> call[c].user, count |-> call[c].count,
             result |-> "error"]]
    /\ \/ late' = late
       \/ /\ call[c].phase = "sent"
          /\ late' = late \cup {[client |-> c, user |-> call[c].user,
                                 count |-> call[c].count]}
    /\ UNCHANGED <<now, sent>>

\* A command left behind is executed after all, its verdict seen by nobody.
LateAdmit(cmd) ==
    /\ MayAdmit(cmd.user, cmd.count)
    /\ Charge(cmd.user, cmd.count)
    /\ late' = late \ {cmd}
    /\ UNCHANGED <<now, call>>

LateRefuse(cmd) ==
    /\ MayRefuse(cmd.user, cmd.count)
    /\ late' = late \ {cmd}
    /\ UNCHANGED <<now, sent, call>>

Done(c) ==
    /\ call[c].phase = "returned"
    /\ call' = [call EXCEPT ![c] = [phase |-> "idle"]]
    /\ UNCHANGED <<now, sent, late>>

Next ==
    \/ Tick
    \/ \E c \in Clients :
        \/ \E u \in Users, n \in Counts : Ask(c, u, n)
        \/ Admit(c) \/ Refuse(c) \/ Answer(c) \/ Fail(c) \/ Done(c)
    \/ \E cmd \in late : LateAdmit(cmd) \/ LateRefuse(cmd)

Spec == Init /\ [][Next]_vars
=============================================================================
