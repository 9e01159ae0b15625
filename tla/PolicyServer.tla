---------------------------- MODULE PolicyServer ----------------------------
(***************************************************************************)
(* The serving part of src/bin/postfix-ratelimitd.rs: the select! loop of  *)
(* main, the connection limit, one task per policy or control connection,  *)
(* and the shutdown drain.  check_sasl (module Limiter) and the reload     *)
(* worker (module ConfigReload) appear by what they hand to this part: a   *)
(* result, and a new RuntimeState.                                         *)
(*                                                                         *)
(* stats holds the totals of the STATS counters since the start; their     *)
(* periodic reset and the throttling of log lines are left out.            *)
(***************************************************************************)
EXTENDS Integers, FiniteSets

CONSTANTS
    Conns,              \* connections peers may open, each at most once
    MAX_CONNECTIONS,
    MaxRequests,        \* bound on the requests peers send in all
    MaxAcceptErrors     \* bound on the failures of accept()

ASSUME BoundsAssumption ==
    /\ IsFiniteSet(Conns)
    /\ MAX_CONNECTIONS \in Nat /\ MaxRequests \in Nat /\ MaxAcceptErrors \in Nat

VARIABLES
    main,       \* where the main loop is
    shutdown,   \* SIGINT or SIGTERM was received
    cancel,     \* the CancellationToken
    active,     \* ACTIVE_CONNECTIONS
    conn,       \* conn[c]: the task of a connection
    config,     \* what handle_request uses of the published config
    stats,      \* totals of the STATS counters
    read,       \* history: requests read from each connection
    answered,   \* history: answers written to each connection
    failed      \* history: connections whose last answer was not written for an error

vars == <<main, shutdown, cancel, active, conn, config, stats, read, answered, failed>>

history == <<read, answered, failed>>

Configs == {"defer", "permit"}  \* on_redis_error

\* A policy request by what handle_request looks at: whether protocol_state
\* is absent, one of the expected ones or another; whether there is a SASL
\* username; whether recipient_count parses.
Requests == [protocol_state : {"absent", "expected", "other"},
             sasl_username : BOOLEAN, recipient_count : BOOLEAN]

Actions == {"dunno", "unavailable", "rate_limited", "misconfigured"}

Counters == {"accepted", "rejected", "failed_deferred", "failed_permitted",
             "unauthenticated", "malformed", "misconfigured",
             "connections_accepted", "connections_rejected", "accept_errors"}

Kinds == {"policy", "control"}

Task ==
    [pc : {"none"}]
    \cup [pc : {"reading", "closed"}, kind : Kinds]
    \cup [pc : {"dispatching", "replying", "farewell"}, kind : {"control"}]
    \cup [pc : {"checking"}, kind : {"policy"}, request : Requests, config : Configs]
    \cup [pc : {"writing"}, kind : {"policy"}, request : Requests, config : Configs,
          result : {"none", "accept", "reject", "error"}, action : Actions]

TypeOK ==
    /\ main \in {"select", "backoff", "undo_policy", "undo_control", "drain", "exited"}
    /\ shutdown \in BOOLEAN /\ cancel \in BOOLEAN
    /\ active \in Nat
    /\ conn \in [Conns -> Task]
    /\ config \in Configs
    /\ stats \in [Counters -> Nat]
    /\ read \in [Conns -> Nat] /\ answered \in [Conns -> Nat]
    /\ failed \subseteq Conns

Init ==
    /\ main = "select"
    /\ shutdown = FALSE
    /\ cancel = FALSE
    /\ active = 0
    /\ conn = [c \in Conns |-> [pc |-> "none"]]
    /\ config \in Configs
    /\ stats = [x \in Counters |-> 0]
    /\ read = [c \in Conns |-> 0]
    /\ answered = [c \in Conns |-> 0]
    /\ failed = {}

At(c, pc) == conn[c].pc = pc
Is(c, kind) == ~ At(c, "none") /\ conn[c].kind = kind
Goto(c, task) == conn' = [conn EXCEPT ![c] = task]
Count(x) == stats' = [stats EXCEPT ![x] = @ + 1]
Live == {c \in Conns : ~ At(c, "none") /\ ~ At(c, "closed")}
Undoing == main \in {"undo_policy", "undo_control"}

\* Definitions named Wrong... are variants that the code could have had; the
\* checks must tell them from the definition that follows.

\* The slot is given back by the task and again by its guard.
WrongClose(c) ==
    /\ Goto(c, [pc |-> "closed", kind |-> conn[c].kind])
    /\ active' = active - 2

\* Counts control connections as well.
WrongCountPolicy(kind, x) == Count(x)

\* Nothing on the control socket is counted.
CountPolicy(kind, x) == IF kind = "policy" THEN Count(x) ELSE stats' = stats

\* The task returns and its ConnectionGuard is dropped.
Close(c) ==
    /\ Goto(c, [pc |-> "closed", kind |-> conn[c].kind])
    /\ active' = active - 1

----------------------------------------------------------------------------
(* The main loop *)

\* accept() fails: only the policy listener's failures are counted.
AcceptError(kind) ==
    /\ main = "select"
    /\ stats["accept_errors"] < MaxAcceptErrors
    /\ main' = "backoff"
    /\ CountPolicy(kind, "accept_errors")
    /\ UNCHANGED <<shutdown, cancel, active, conn, config, history>>

BackoffEnds ==
    /\ main = "backoff"
    /\ main' = "select"
    /\ UNCHANGED <<shutdown, cancel, active, conn, config, stats, history>>

\* Lets one connection too many in.
WrongAtLimit == active > MAX_CONNECTIONS

AtLimit == active >= MAX_CONNECTIONS

\* A connection is accepted and takes a slot; below the limit its task is
\* spawned.
Accept(c, kind) ==
    /\ main = "select"
    /\ At(c, "none")
    /\ active' = active + 1
    /\ IF AtLimit
       THEN /\ main' = IF kind = "policy" THEN "undo_policy" ELSE "undo_control"
            /\ Goto(c, [pc |-> "closed", kind |-> kind])
            /\ stats' = stats
       ELSE /\ main' = main
            /\ Goto(c, [pc |-> "reading", kind |-> kind])
            /\ CountPolicy(kind, "connections_accepted")
    /\ UNCHANGED <<shutdown, cancel, config, history>>

\* At the limit the slot is given back and the stream dropped.
UndoAccept ==
    /\ Undoing
    /\ active' = active - 1
    /\ CountPolicy(IF main = "undo_policy" THEN "policy" ELSE "control",
                   "connections_rejected")
    /\ main' = "select"
    /\ UNCHANGED <<shutdown, cancel, conn, config, history>>

\* The shutdown arm is taken: the loop ends and the token is cancelled.
StopAccepting ==
    /\ main = "select"
    /\ shutdown
    /\ main' = "drain"
    /\ cancel' = TRUE
    /\ UNCHANGED <<shutdown, active, conn, config, stats, history>>

\* tracker.wait() completes and main returns.
DrainDone ==
    /\ main = "drain"
    /\ Live = {}
    /\ main' = "exited"
    /\ UNCHANGED <<shutdown, cancel, active, conn, config, stats, history>>

\* SHUTDOWN_DRAIN_TIMEOUT passes: main returns and the runtime drops the
\* tasks that are left, wherever they are.
DrainTimeout ==
    /\ main = "drain"
    /\ Live # {}
    /\ main' = "exited"
    /\ conn' = [c \in Conns |->
            IF c \in Live THEN [pc |-> "closed", kind |-> conn[c].kind] ELSE conn[c]]
    /\ active' = active - Cardinality(Live)
    /\ UNCHANGED <<shutdown, cancel, config, stats, history>>

----------------------------------------------------------------------------
(* handle_request *)

\* Looks for the SASL username before the protocol state.
WrongShortcut(r) ==
    IF ~ r.sasl_username THEN <<"dunno", "unauthenticated">>
    ELSE IF r.protocol_state = "other" \/ ~ r.recipient_count
         THEN <<"misconfigured", "misconfigured">>
    ELSE << >>

\* What is decided without asking the limiter: <<action, counter>>.
Shortcut(r) ==
    IF r.protocol_state = "other" THEN <<"misconfigured", "misconfigured">>
    ELSE IF ~ r.sasl_username THEN <<"dunno", "unauthenticated">>
    ELSE IF ~ r.recipient_count THEN <<"misconfigured", "misconfigured">>
    ELSE << >>

\* What a result of check_sasl becomes under the config of the request.
Outcome(result, cfg) ==
    CASE result = "accept" -> <<"dunno", "accepted">>
      [] result = "reject" -> <<"rate_limited", "rejected">>
      [] result = "error" /\ cfg = "defer" -> <<"unavailable", "failed_deferred">>
      [] result = "error" /\ cfg = "permit" -> <<"dunno", "failed_permitted">>

Writing(r, cfg, result, action) ==
    [pc |-> "writing", kind |-> "policy", request |-> r, config |-> cfg,
     result |-> result, action |-> action]

----------------------------------------------------------------------------
(* A policy connection *)

\* The requests read from the connections in C.
ReadFrom(C) == Cardinality(UNION {{c} \X (1 .. read[c]) : c \in C})

\* A request is complete.  The select! is not biased, so this may be taken
\* although the token is cancelled.  The state is loaded for this request.
ReadRequest(c, r) ==
    /\ At(c, "reading") /\ Is(c, "policy")
    /\ ReadFrom(Conns) < MaxRequests
    /\ read' = [read EXCEPT ![c] = @ + 1]
    /\ IF Shortcut(r) # << >>
       THEN /\ Goto(c, Writing(r, config, "none", Shortcut(r)[1]))
            /\ Count(Shortcut(r)[2])
       ELSE /\ Goto(c, [pc |-> "checking", kind |-> "policy", request |-> r,
                        config |-> config])
            /\ stats' = stats
    /\ UNCHANGED <<main, shutdown, cancel, active, config, answered, failed>>

\* check_sasl returns.
CheckDone(c, result) ==
    /\ At(c, "checking")
    /\ LET out == Outcome(result, conn[c].config)
       IN  /\ Goto(c, Writing(conn[c].request, conn[c].config, result, out[1]))
           /\ Count(out[2])
    /\ UNCHANGED <<main, shutdown, cancel, active, config, history>>

\* The request does not parse, is too long or is cut off.
ReadError(c) ==
    /\ At(c, "reading")
    /\ Close(c)
    /\ CountPolicy(conn[c].kind, "malformed")
    /\ UNCHANGED <<main, shutdown, cancel, config, history>>

----------------------------------------------------------------------------
(* A control connection *)

\* A complete line is parsed and dispatched.
ReadLine(c) ==
    /\ At(c, "reading") /\ Is(c, "control")
    /\ ReadFrom(Conns) < MaxRequests
    /\ read' = [read EXCEPT ![c] = @ + 1]
    /\ Goto(c, [pc |-> "dispatching", kind |-> "control"])
    /\ UNCHANGED <<main, shutdown, cancel, active, config, stats, answered, failed>>

\* Every line gets a response, an error at worst; which one, and how long the
\* Valkey queries behind it take, is left open.
Dispatched(c) ==
    /\ At(c, "dispatching")
    /\ Goto(c, [pc |-> "replying", kind |-> "control"])
    /\ UNCHANGED <<main, shutdown, cancel, active, config, stats, history>>

\* An oversized or truncated line gets one last reply.
ReadTruncated(c) ==
    /\ At(c, "reading") /\ Is(c, "control")
    /\ ReadFrom(Conns) < MaxRequests
    /\ read' = [read EXCEPT ![c] = @ + 1]
    /\ Goto(c, [pc |-> "farewell", kind |-> "control"])
    /\ UNCHANGED <<main, shutdown, cancel, active, config, stats, answered, failed>>

----------------------------------------------------------------------------
(* Either kind *)

\* The answer is written: on to the next request, or the end.
WriteAnswer(c) ==
    /\ \/ /\ conn[c].pc \in {"writing", "replying"}
          /\ Goto(c, [pc |-> "reading", kind |-> conn[c].kind])
          /\ active' = active
       \/ /\ At(c, "farewell")
          /\ Close(c)
    /\ answered' = [answered EXCEPT ![c] = @ + 1]
    /\ UNCHANGED <<main, shutdown, cancel, config, stats, read, failed>>

WriteError(c) ==
    /\ conn[c].pc \in {"writing", "replying", "farewell"}
    /\ Close(c)
    /\ failed' = failed \cup {c}
    /\ UNCHANGED <<main, shutdown, cancel, config, stats, read, answered>>

PeerCloses(c) ==
    /\ At(c, "reading")
    /\ Close(c)
    /\ UNCHANGED <<main, shutdown, cancel, config, stats, history>>

\* The token races more than the wait for a request, or nothing at all.
WrongCancellable(c) == c \in Live
WrongUncancellable(c) == FALSE

\* Only the wait for the next request races the token.
Cancellable(c) == At(c, "reading")

SeeCancel(c) ==
    /\ Cancellable(c) /\ cancel
    /\ Close(c)
    /\ UNCHANGED <<main, shutdown, cancel, config, stats, history>>

----------------------------------------------------------------------------
(* The environment *)

RequestShutdown ==
    /\ main # "exited"
    /\ shutdown' = TRUE
    /\ UNCHANGED <<main, cancel, active, conn, config, stats, history>>

\* A reload publishes another config (ConfigReload!Store).
Reload ==
    /\ main # "exited"
    /\ config' \in Configs
    /\ UNCHANGED <<main, shutdown, cancel, active, conn, stats, history>>

MainStep ==
    BackoffEnds \/ UndoAccept \/ StopAccepting \/ DrainDone

TaskStep(c) ==
    \/ \E result \in {"accept", "reject", "error"} : CheckDone(c, result)
    \/ Dispatched(c) \/ WriteAnswer(c) \/ WriteError(c) \/ SeeCancel(c)

Next ==
    \/ MainStep \/ DrainTimeout
    \/ \E kind \in Kinds : AcceptError(kind) \/ \E c \in Conns : Accept(c, kind)
    \/ \E c \in Conns :
        \/ TaskStep(c)
        \/ \E r \in Requests : ReadRequest(c, r)
        \/ ReadError(c) \/ ReadLine(c) \/ ReadTruncated(c) \/ PeerCloses(c)
    \/ RequestShutdown \/ Reload

Spec == Init /\ [][Next]_vars

\* The runtime polls main and every task that is ready, check_sasl and the
\* control queries end because the Valkey client has timeouts, and an answer
\* fits in the socket buffer.  select! picks an arm at random, so the
\* shutdown arm is not starved by a stream of connections, nor the token by
\* a stream of requests (SF).  Nothing is assumed of peers, and DrainTimeout
\* is not needed.
FairSpec ==
    /\ Spec
    /\ WF_vars(BackoffEnds \/ UndoAccept \/ DrainDone)
    /\ SF_vars(StopAccepting)
    /\ \A c \in Conns : WF_vars(TaskStep(c)) /\ SF_vars(SeeCancel(c))

----------------------------------------------------------------------------
(* Properties *)

\* ACTIVE_CONNECTIONS is the number of live tasks, plus the slot that main
\* is about to give back: no path out of a task leaks or frees one twice,
\* and there are never more tasks than the limit.
SlotsAreExact ==
    /\ active = Cardinality(Live) + (IF Undoing THEN 1 ELSE 0)
    /\ Cardinality(Live) <= MAX_CONNECTIONS

\* While the process runs, every request that was read is answered, once and
\* before the next one is read: cancellation never ends a connection that is
\* handling a request, and only an error of the write itself leaves one
\* without its answer.
EveryRequestIsAnswered ==
    main # "exited" => \A c \in Conns :
        LET busy == c \in Live /\ ~ At(c, "reading")
        IN  read[c] - answered[c] = IF busy \/ c \in failed THEN 1 ELSE 0

\* What the comment of handle_connection says: shutdown does not race "a
\* request already being handled - that always runs to completion", so that
\* an exit leaves no request behind unless its answer could not be written.
\* DrainTimeout violates it.
RequestRunsToCompletion ==
    main = "exited" => \A c \in Conns \ failed : read[c] = answered[c]

\* Mail passes unchecked only if it is unauthenticated, or if Valkey failed
\* and the config in force when the request was read said to permit; a
\* wrongly wired or incomplete request is never let through.
FailsClosed ==
    \A c \in Conns : At(c, "writing") /\ conn[c].action = "dunno" =>
        LET t == conn[c]
        IN  /\ t.request.protocol_state # "other"
            /\ \/ ~ t.request.sasl_username /\ t.result = "none"
               \/ t.request.recipient_count /\ t.result = "accept"
               \/ t.request.recipient_count /\ t.result = "error" /\ t.config = "permit"

\* The counters account for everything that came in on the policy socket:
\* every request read is counted under exactly one outcome once its check has
\* ended, every connection as accepted or as rejected, and neither by what
\* happens on the control socket.
CountersAddUp ==
    LET policy == {c \in Conns : Is(c, "policy")}
        outcomes == stats["accepted"] + stats["rejected"] + stats["failed_deferred"]
                    + stats["failed_permitted"] + stats["unauthenticated"]
                    + stats["misconfigured"]
    IN  /\ main # "exited" =>
            outcomes + Cardinality({c \in Conns : At(c, "checking")}) = ReadFrom(policy)
        /\ stats["connections_accepted"] + stats["connections_rejected"]
            = Cardinality(policy) - (IF main = "undo_policy" THEN 1 ELSE 0)

\* A shutdown request ends the process even if the drain timeout never fires:
\* idle connections do not hold it up, and neither does the connection limit.
ShutdownCompletes == shutdown ~> main = "exited"
=============================================================================
