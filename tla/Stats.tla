------------------------------- MODULE Stats -------------------------------
(***************************************************************************)
(* STATS, log_throttled and report_stats of src/bin/postfix-ratelimitd.rs. *)
(* Connection tasks and the main loop increment the counters while the     *)
(* reporting task resets them one by one; log_throttled compares the value *)
(* it found with LOG_SUPPRESSION_LIMIT and writes, later, a line, a notice *)
(* or nothing.                                                             *)
(***************************************************************************)
EXTENDS Integers, Sequences, FiniteSets, Functions

CONSTANTS
    Tasks,                  \* tasks that count events
    Events,                 \* the counters they use
    LOG_SUPPRESSION_LIMIT,
    Levels,                 \* values of --log-level: "info", "warn"
    MaxEvents,              \* bound on the events counted
    MaxReports,             \* bound on the calls of report_stats
    MaxReloads              \* bound on the reloads that toggle the warning

\* In the order in which report_stats takes them.
Printed == <<"accepted", "rejected", "failed_deferred", "failed_permitted",
             "unauthenticated", "malformed", "connections_accepted",
             "connections_rejected", "accept_errors">>
Fields == {Printed[i] : i \in 1 .. Len(Printed)} \cup {"misconfigured"}

\* The counters that log_throttled is called with.
Throttled == {"misconfigured", "unauthenticated", "failed_deferred",
              "failed_permitted", "connections_rejected"}

ASSUME StatsAssumption ==
    /\ IsFiniteSet(Tasks)
    /\ Events \subseteq Fields /\ Levels \subseteq {"info", "warn"}
    /\ LOG_SUPPRESSION_LIMIT \in Nat
    /\ MaxEvents \in Nat /\ MaxReports \in Nat /\ MaxReloads \in Nat

VARIABLES
    counter,    \* STATS
    level,      \* the level given to init_logging
    warn,       \* warn_on_unauthenticated of the published config
    task,       \* task[t]: what it is about to write
    report,     \* where report_stats is, and the values it has taken
    interval,   \* history: the reports that have passed each counter
    calls,      \* history: calls of log_throttled, per counter and interval
    written,    \* history: lines and notices, per counter and interval
    reported,   \* history: the sum of the values printed, per counter
    events,     \* history: events per counter
    reloads     \* reloads so far

statsVars == <<counter, level, warn, task, report, interval, calls, written,
               reported, events, reloads>>

Zero == [x \in Fields |-> 0]
Intervals == 0 .. MaxReports
Idle == [says |-> "quiet"]

StatsTypeOK ==
    /\ counter \in [Fields -> Nat]
    /\ level \in Levels /\ warn \in BOOLEAN
    /\ task \in [Tasks -> {Idle} \cup [says : {"line", "notice"}, kind : Throttled,
                                       interval : Intervals]]
    /\ report \in [next : 0 .. Len(Printed) + 2, taken : [Fields -> Nat]]
    /\ interval \in [Fields -> Intervals]
    /\ calls \in [Fields \X Intervals -> Nat]
    /\ written \in [Fields \X Intervals \X {"line", "notice"} -> Nat]
    /\ reported \in [Fields -> Nat] /\ events \in [Fields -> Nat]
    /\ reloads \in Nat

StatsInit ==
    /\ counter = Zero
    /\ level \in Levels
    /\ warn \in BOOLEAN
    /\ task = [t \in Tasks |-> Idle]
    /\ report = [next |-> 0, taken |-> Zero]
    /\ interval = Zero
    /\ calls = [k \in Fields \X Intervals |-> 0]
    /\ written = [k \in Fields \X Intervals \X {"line", "notice"} |-> 0]
    /\ reported = Zero /\ events = Zero
    /\ reloads = 0

----------------------------------------------------------------------------
(* Counting an event *)

\* Definitions named Wrong... are variants that the code could have had; the
\* checks must tell them from the definition that follows.

\* Says one line more and never the notice.
WrongSays(previous) == IF previous <= LOG_SUPPRESSION_LIMIT THEN "line" ELSE "quiet"

Says(previous) ==
    IF previous < LOG_SUPPRESSION_LIMIT THEN "line"
    ELSE IF previous = LOG_SUPPRESSION_LIMIT THEN "notice" ELSE "quiet"

\* handle_request silences this one by configuration.
Silenced(x) == x = "unauthenticated" /\ ~ warn

\* fetch_add; what log_throttled says depends on the value it returns.
CountEvent(t, x) ==
    /\ task[t] = Idle
    /\ SumFunction(events) < MaxEvents
    /\ counter' = [counter EXCEPT ![x] = @ + 1]
    /\ events' = [events EXCEPT ![x] = @ + 1]
    /\ IF x \in Throttled /\ ~ Silenced(x)
       THEN /\ calls' = [calls EXCEPT ![<<x, interval[x]>>] = @ + 1]
            /\ task' = [task EXCEPT ![t] =
                    IF Says(counter[x]) = "quiet" THEN Idle
                    ELSE [says |-> Says(counter[x]), kind |-> x, interval |-> interval[x]]]
       ELSE UNCHANGED <<calls, task>>
    /\ UNCHANGED <<level, warn, report, interval, written, reported, reloads>>

\* The line or the notice is written.
Write(t) ==
    /\ task[t] # Idle
    /\ written' = [written EXCEPT ![<<task[t].kind, task[t].interval, task[t].says>>] = @ + 1]
    /\ task' = [task EXCEPT ![t] = Idle]
    /\ UNCHANGED <<counter, level, warn, report, interval, calls, reported, events, reloads>>

----------------------------------------------------------------------------
(* report_stats *)

\* The report reaches the counters in X.
Passes(X) == interval' = [x \in Fields |-> interval[x] + IF x \in X THEN 1 ELSE 0]

\* Loads the value and leaves it.
WrongAfterSwap(x) == counter

AfterSwap(x) == [counter EXCEPT ![x] = 0]

\* STATS_INTERVAL has passed.  log::info! evaluates its arguments only if the
\* level is enabled; otherwise the swaps are not made.
BeginReport ==
    /\ report.next = 0
    /\ interval["misconfigured"] < MaxReports
    /\ IF level = "info"
       THEN report' = [report EXCEPT !.next = 1] /\ interval' = interval
       ELSE report' = [report EXCEPT !.next = Len(Printed) + 2]
            /\ Passes(Fields \ {"misconfigured"})
    /\ UNCHANGED <<counter, level, warn, task, calls, written, reported, events, reloads>>

SwapNext ==
    /\ report.next \in 1 .. Len(Printed)
    /\ LET x == Printed[report.next]
       IN  /\ report' = [next |-> report.next + 1,
                         taken |-> [report.taken EXCEPT ![x] = counter[x]]]
           /\ counter' = AfterSwap(x)
           /\ Passes({x})
    /\ UNCHANGED <<level, warn, task, calls, written, reported, events, reloads>>

WriteReport ==
    /\ report.next = Len(Printed) + 1
    /\ reported' = [x \in Fields |-> reported[x] + report.taken[x]]
    /\ report' = [next |-> report.next + 1, taken |-> Zero]
    /\ UNCHANGED <<counter, level, warn, task, interval, calls, written, events, reloads>>

\* misconfigured is not printed but reset all the same.
ResetMisconfigured ==
    /\ report.next = Len(Printed) + 2
    /\ counter' = [counter EXCEPT !["misconfigured"] = 0]
    /\ Passes({"misconfigured"})
    /\ report' = [report EXCEPT !.next = 0]
    /\ UNCHANGED <<level, warn, task, calls, written, reported, events, reloads>>

----------------------------------------------------------------------------

\* A reload publishes a config with the other warn_on_unauthenticated.
ToggleWarning ==
    /\ reloads < MaxReloads
    /\ reloads' = reloads + 1
    /\ warn' = ~ warn
    /\ UNCHANGED <<counter, level, task, report, interval, calls, written, reported, events>>

StatsNext ==
    \/ \E t \in Tasks : (\E x \in Events : CountEvent(t, x)) \/ Write(t)
    \/ BeginReport \/ SwapNext \/ WriteReport \/ ResetMisconfigured
    \/ ToggleWarning

StatsSpec == StatsInit /\ [][StatsNext]_statsVars

----------------------------------------------------------------------------
(* Properties *)

\* No event is lost or reported twice: what has been counted has been
\* printed, or has been taken for the line being put together, or is still
\* in its counter, however the swaps of report_stats fall between the
\* increments.
\* It is stated of well-typed states.
EveryEventIsReportedOnce ==
    /\ StatsTypeOK
    /\ \A x \in Fields \ {"misconfigured"} :
        events[x] = reported[x] + report.taken[x] + counter[x]

\* Lines or notices about x that were written, or are about to be, for the
\* calls of interval i.
Said(x, i, what) ==
    written[<<x, i, what>>] + Cardinality({t \in Tasks :
        task[t] = [says |-> what, kind |-> x, interval |-> i]})

Exact(x, i) ==
    /\ Said(x, i, "line") = IF calls[<<x, i>>] < LOG_SUPPRESSION_LIMIT
                            THEN calls[<<x, i>>] ELSE LOG_SUPPRESSION_LIMIT
    /\ Said(x, i, "notice") = IF calls[<<x, i>>] > LOG_SUPPRESSION_LIMIT THEN 1 ELSE 0

\* A condition never floods the log: whatever tasks, reports and reloads
\* interleave, an interval gets LOG_SUPPRESSION_LIMIT lines and one notice at
\* most.  It gets exactly its first ones and the notice when the report is
\* printed and no reload has changed which requests are warned of.
ThrottleHolds ==
    \A x \in Throttled, i \in Intervals :
        /\ Said(x, i, "line") <= LOG_SUPPRESSION_LIMIT /\ Said(x, i, "notice") <= 1
        /\ (level = "info" /\ (x = "unauthenticated" => reloads = 0)) => Exact(x, i)

\* The doc comment of log_throttled: it "calls log_line for its first
\* LOG_SUPPRESSION_LIMIT occurrences since the last stats report (see
\* report_stats, which resets every STATS field to 0), then logs one
\* suppression notice naming kind, then stays quiet until the next report".
ThrottleIsExact == \A x \in Throttled, i \in Intervals : Exact(x, i)
=============================================================================
