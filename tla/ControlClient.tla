--------------------------- MODULE ControlClient ---------------------------
(***************************************************************************)
(* src/bin/postfix-ratelimitctl.rs with the control socket of the daemon:  *)
(* one-shot queries that connect, send a line and wait for a reply with a  *)
(* timeout, against a listener whose backlog is bounded, a limit shared    *)
(* with the policy connections, a Valkey that may fail, a shutdown, and a  *)
(* daemon that stops running altogether.                                   *)
(***************************************************************************)
EXTENDS Integers, Sequences, FiniteSets

CONSTANTS
    Clients,        \* runs of the tool
    MaxConnections, \* MAX_CONNECTIONS
    Backlog         \* connections the kernel queues before connect() blocks

ASSUME ControlClientAssumption ==
    /\ Clients # {} /\ IsFiniteSet(Clients)
    /\ MaxConnections \in Nat \ {0} /\ Backlog \in Nat \ {0}

VARIABLES
    ctl,        \* ctl[c]: where run c of the tool is, and what it reported
    conn,       \* conn[c]: its connection, and the daemon's task for it
    queue,      \* connections waiting for accept()
    daemon,     \* up, draining or exited
    stalled,    \* the daemon does not run any more
    others,     \* policy connections, which share the limit
    fate        \* history: what the daemon did with the query of c

clientVars == <<ctl, conn, queue, daemon, stalled, others, fate>>
server == <<queue, daemon, stalled, others, fate>>

Queries == {"ping", "limits"}
Tasks == {"read", "check", "write"}
Replies == {"none", "pong", "status", "error"}
Reports == {"none", "config", "connect", "send", "read", "malformed", "failed", "ok"}

ClientInit ==
    /\ ctl = [c \in Clients |-> [pc |-> "idle", query |-> "ping", report |-> "none"]]
    /\ conn = [c \in Clients |-> [task |-> "none", line |-> FALSE, answer |-> "none",
                                  reply |-> "none"]]
    /\ queue = << >> /\ daemon = "up" /\ stalled = FALSE /\ others = 0
    /\ fate = [c \in Clients |-> "none"]

Active == others + Cardinality({c \in Clients : conn[c].task \in Tasks})

At(c, pc) == ctl[c].pc = pc
Goto(c, pc) == ctl' = [ctl EXCEPT ![c].pc = pc]

\* Ends the tool, which closes its end of the connection.
Report(c, report) == ctl' = [ctl EXCEPT ![c].pc = "done", ![c].report = report]

Gone(c) == conn[c].task = "gone"
Close(c) == conn' = [conn EXCEPT ![c].task = "gone"]

----------------------------------------------------------------------------
(* The tool *)

\* --socket, or the control_socket of a config that loads.
Resolve(c, query, found) ==
    /\ At(c, "idle")
    /\ ctl' = [ctl EXCEPT ![c] =
            [pc |-> IF found THEN "connect" ELSE "done", query |-> query,
             report |-> IF found THEN "none" ELSE "config"]]
    /\ UNCHANGED <<conn, server>>

\* connect() has no timeout: it waits while the backlog is full.
Connect(c) ==
    /\ At(c, "connect")
    /\ daemon # "exited" /\ Len(queue) < Backlog
    /\ queue' = Append(queue, c)
    /\ conn' = [conn EXCEPT ![c].task = "queued"]
    /\ Goto(c, "send")
    /\ UNCHANGED <<daemon, stalled, others, fate>>

ConnectRefused(c) ==
    /\ At(c, "connect") /\ daemon = "exited"
    /\ Report(c, "connect")
    /\ UNCHANGED <<conn, server>>

Send(c) ==
    /\ At(c, "send")
    /\ \/ Gone(c) /\ Report(c, "send") /\ conn' = conn
       \/ ~ Gone(c) /\ Goto(c, "read") /\ conn' = [conn EXCEPT ![c].line = TRUE]
    /\ UNCHANGED server

\* payload, then serde_json::from_value of the type the query asks for.
Decoded(c) ==
    CASE conn[c].reply = "error" -> "failed"
      [] conn[c].reply = IF ctl[c].query = "ping" THEN "pong" ELSE "status" -> "ok"
      [] OTHER -> "malformed"

\* An end of file leaves an empty line, which does not parse.
ReadReply(c) ==
    /\ At(c, "read")
    /\ \/ conn[c].reply # "none" /\ Report(c, Decoded(c))
       \/ conn[c].reply = "none" /\ Gone(c) /\ Report(c, "malformed")
    /\ UNCHANGED <<conn, server>>

\* Definitions named Wrong... are variants that the code could have had; the
\* checks must tell them from the definition that follows.

\* No set_read_timeout.
WrongQueryTimeout(c) ==
    /\ At(c, "read") /\ Gone(c)
    /\ Report(c, "read")
    /\ UNCHANGED <<conn, server>>

\* QUERY_TIMEOUT.
QueryTimeout(c) ==
    /\ At(c, "read") /\ conn[c].reply = "none" /\ ~ Gone(c)
    /\ Report(c, "read")
    /\ UNCHANGED <<conn, server>>

\* Any call may fail for a reason of its own.
ClientError(c) ==
    /\ ctl[c].pc \in {"connect", "send", "read"}
    /\ Report(c, ctl[c].pc)
    /\ UNCHANGED <<conn, server>>

----------------------------------------------------------------------------
(* The daemon *)

Runs == ~ stalled /\ daemon # "exited"

AtLimit == Active >= MaxConnections

\* A connection at the limit is dropped, without a reply.
Accept ==
    /\ Runs /\ daemon = "up" /\ queue # << >>
    /\ queue' = Tail(queue)
    /\ LET c == Head(queue) IN
        \/ AtLimit /\ Close(c) /\ fate' = [fate EXCEPT ![c] = "rejected"]
        \/ ~ AtLimit /\ conn' = [conn EXCEPT ![c].task = "read"] /\ fate' = fate
    /\ UNCHANGED <<ctl, daemon, stalled, others>>

\* handle_line: ping is answered at once, limits asks Valkey.
ReadLine(c) ==
    /\ Runs /\ conn[c].task = "read" /\ conn[c].line
    /\ conn' = [conn EXCEPT ![c].line = FALSE,
            ![c].task = IF ctl[c].query = "ping" THEN "write" ELSE "check",
            ![c].answer = IF ctl[c].query = "ping" THEN "pong" ELSE "none"]
    /\ fate' = [fate EXCEPT ![c] = IF ctl[c].query = "ping" THEN "answered" ELSE @]
    /\ UNCHANGED <<ctl, queue, daemon, stalled, others>>

\* Closes the connection on an error of Valkey.
WrongCheckDone(c, ok) ==
    /\ Runs /\ conn[c].task = "check"
    /\ conn' = [conn EXCEPT ![c].task = IF ok THEN "write" ELSE "gone",
                            ![c].answer = "status"]
    /\ fate' = [fate EXCEPT ![c] = IF ok THEN "answered" ELSE "failed"]
    /\ UNCHANGED <<ctl, queue, daemon, stalled, others>>

\* compute_sasl_status returns; its commands are bounded by timeouts.
CheckDone(c, ok) ==
    /\ Runs /\ conn[c].task = "check"
    /\ conn' = [conn EXCEPT ![c].task = "write",
                            ![c].answer = IF ok THEN "status" ELSE "error"]
    /\ fate' = [fate EXCEPT ![c] = IF ok THEN "answered" ELSE "failed"]
    /\ UNCHANGED <<ctl, queue, daemon, stalled, others>>

\* write_response fails if the tool has gone away.
WriteResponse(c) ==
    /\ Runs /\ conn[c].task = "write"
    /\ \/ At(c, "done") /\ Close(c)
       \/ ~ At(c, "done") /\ conn' = [conn EXCEPT ![c].task = "read",
                                                 ![c].reply = conn[c].answer]
    /\ UNCHANGED <<ctl, server>>

\* Takes the end of the file for an empty line.
WrongReadEof(c) ==
    /\ Runs /\ conn[c].task = "read" /\ At(c, "done") /\ ~ conn[c].line
    /\ UNCHANGED clientVars

\* read == 0, or a reset by a tool that left the reply unread.
ReadEof(c) ==
    /\ Runs /\ conn[c].task = "read" /\ At(c, "done") /\ ~ conn[c].line
    /\ Close(c)
    /\ UNCHANGED <<ctl, server>>

\* cancel.cancelled(), while waiting for a line.
SeeCancel(c) ==
    /\ Runs /\ daemon = "draining" /\ conn[c].task = "read"
    /\ Close(c)
    /\ UNCHANGED <<ctl, server>>

Shutdown ==
    /\ Runs /\ daemon = "up"
    /\ daemon' = "draining"
    /\ UNCHANGED <<ctl, conn, queue, stalled, others, fate>>

\* The tasks are done, or the drain timed out; the process ends.
Exit ==
    /\ Runs /\ daemon = "draining"
    /\ daemon' = "exited"
    /\ conn' = [c \in Clients |-> IF conn[c].task = "none" THEN conn[c]
                                  ELSE [conn[c] EXCEPT !.task = "gone"]]
    /\ queue' = << >>
    /\ UNCHANGED <<ctl, stalled, others, fate>>

\* The process is stopped, or its threads are stuck.
Stall ==
    /\ Runs
    /\ stalled' = TRUE
    /\ UNCHANGED <<ctl, conn, queue, daemon, others, fate>>

\* Policy connections come, up to the limit, and go.
OthersChange(n) ==
    /\ Runs /\ n \in 0 .. MaxConnections /\ n # others
    /\ n > others => Active + n - others <= MaxConnections
    /\ others' = n
    /\ UNCHANGED <<ctl, conn, queue, daemon, stalled, fate>>

----------------------------------------------------------------------------

ToolStep(c) == Connect(c) \/ ConnectRefused(c) \/ Send(c) \/ ReadReply(c) \/ QueryTimeout(c)
TaskStep(c) ==
    \/ ReadLine(c) \/ WriteResponse(c) \/ ReadEof(c) \/ SeeCancel(c)
    \/ \E ok \in BOOLEAN : CheckDone(c, ok)

ClientNext ==
    \/ \E c \in Clients :
        \/ \E query \in Queries, found \in BOOLEAN : Resolve(c, query, found)
        \/ ToolStep(c) \/ ClientError(c) \/ TaskStep(c)
    \/ Accept \/ Shutdown \/ Exit \/ Stall
    \/ \E n \in 0 .. MaxConnections : OthersChange(n)

ClientSpec == ClientInit /\ [][ClientNext]_clientVars

\* A process runs on: the tool's read is bounded by its timeout, the daemon's
\* commands by those of the Valkey client, its drain by SHUTDOWN_DRAIN_TIMEOUT.
\* A stalled daemon takes no step.
FairClientSpec ==
    /\ ClientSpec
    /\ \A c \in Clients : WF_clientVars(ToolStep(c)) /\ WF_clientVars(TaskStep(c))
    /\ WF_clientVars(Accept) /\ WF_clientVars(Exit)

----------------------------------------------------------------------------
(* Properties *)

ClientTypeOK ==
    /\ ctl \in [Clients -> [pc : {"idle", "connect", "send", "read", "done"},
                            query : Queries, report : Reports]]
    /\ conn \in [Clients -> [task : Tasks \cup {"none", "queued", "gone"},
                             line : BOOLEAN, answer : Replies, reply : Replies]]
    /\ queue \in Seq(Clients) /\ Len(queue) <= Backlog
    /\ daemon \in {"up", "draining", "exited"} /\ stalled \in BOOLEAN
    /\ others \in 0 .. MaxConnections /\ Active <= MaxConnections
    /\ fate \in [Clients -> {"none", "rejected", "answered", "failed"}]

\* What the tool reports is what happened, however late the daemon acted: a
\* result was computed for this query, an error is one of Valkey, and a reply
\* that ends early is a rejection at the limit or the end of the daemon.
\* It is stated of well-typed states.
ReportIsTrue ==
    /\ ClientTypeOK
    /\ \A c \in Clients :
        /\ ctl[c].report = "ok" => fate[c] = "answered"
        /\ ctl[c].report = "failed" => fate[c] = "failed"
        /\ ctl[c].report = "malformed" => fate[c] = "rejected" \/ daemon # "up"

\* A tool that has connected reports, even if the daemon stalls at any moment
\* or leaves it in the backlog for good: set_read_timeout comes before the
\* first read.
ConnectedQueryEnds ==
    \A c \in Clients : ctl[c].pc \in {"send", "read"} ~> At(c, "done")

\* What the comment of QUERY_TIMEOUT says: "a stuck or unresponsive daemon
\* can't hang this tool forever".  connect() has no timeout, so a stalled
\* daemon with a full backlog violates it.
ToolNeverHangs ==
    \A c \in Clients : ~ At(c, "idle") ~> At(c, "done")

\* A tool that gave up does not keep a connection of the daemon: its slot is
\* released, whether it left before the accept, the check or the reply.
SlotIsReleased ==
    \A c \in Clients :
        (conn[c].task \in Tasks /\ At(c, "done")) ~> (Gone(c) \/ stalled)
=============================================================================
