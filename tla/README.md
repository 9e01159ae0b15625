# postfix-ratelimitd: a TLA+ verification project

postfix-ratelimitd is a Postfix policy daemon. For every message Postfix asks
it whether the authenticated sender may send to that many recipients; the
daemon asks Valkey, where a Lua script checks the sender's sliding windows and
records the message in one atomic step. This directory models that system,
checks the models with TLC on small instances and proves every safety property
with TLAPS for all instances.

## The system

| Part | State | Operations | Interaction |
|---|---|---|---|
| Rate-limit script (`lua/check_and_record.lua`) | one hash of buckets and a TTL per user and bucket size, in Valkey | check all windows, then record, prune, set the TTL | run atomically by Valkey for `check_sasl` |
| Limiter client (`src/limiter.rs`) | a connection shared by all callers | `check_sasl`, `Limiter::new` | called by every policy connection; timeouts, lost replies |
| Check plan (`src/config.rs`) | none | `build_plan`, `validate_windows`, `CheckPlan::new`, `bucket_size` | its result is the script's argument |
| Config loading (`src/config.rs`) | none | `Config::load`, `plan_for` | at startup and by each reload |
| Config reload (`src/bin/postfix-ratelimitd.rs`) | `reload_requests`, `reload_in_progress`, the published `RuntimeState` | SIGHUP arm of the main loop, worker task, `reload_config` | main loop, worker and connections share atomics and an `ArcSwap` |
| Policy server (same file, `src/protocol.rs`) | `ACTIVE_CONNECTIONS`, one task per connection, a cancellation token | accept, read, decide, answer, shut down, drain | calls the limiter, loads the state per request |
| Statistics (same file) | `STATS` counters | increment, throttled log, periodic report | all tasks and a timer |
| Control socket (`src/control/`) | none | ping, status of a user | reads the hashes directly, outside the script |
| Startup (same file) | lock files, socket files | lock, probe, remove, bind | two instances |
| Control client (`src/bin/postfix-ratelimitctl.rs`) | none | one request, one reply | control socket |

Hard to get right and hard to test: the boundary arithmetic of buckets, cutoffs
and TTLs; checks of one user in flight at once, with replies lost or commands
executed after the caller gave up; plans that change under commands in flight;
the SIGHUP flag and counter shared by main loop and worker; cancellation racing
requests; the slot counter of the connection limit; counters reset one by one
while tasks count; a status put together from separate reads; instances that
start, crash and start again over the same files; and a tool that waits for a
daemon that does not answer. `PROJECT.json` lists each hazard at its line with
the properties aimed at it.

What makes each part correct:

* limiter: no window is ever exceeded, nothing is refused beyond the promised
  tolerance of one bucket, the hashes stay small;
* plan: every configured window is enforced with its strictest count, the
  overcount is at most 2 %, nobody is exempted by accident;
* reload: one at a time, coherent pairs, no stale overwrite, no lost SIGHUP;
* server: every request read is answered before the next, cancellation drops
  none, failures fail closed as configured, slots are neither leaked nor freed
  twice, shutdown ends; requests are cut from the byte stream exactly where
  they end;
* config: the first match wins, the first fault is named, nothing is passed
  over;
* statistics: no event is lost or printed twice, and every interval gets its
  lines and its notice;
* status: what it shows lies between what was charged and what is enforced;
* startup: whoever serves owns its paths, nobody is evicted, stale files are no
  obstacle;
* keys: one per prefix, user and bucket size;
* control client: what it reports is what happened, and it ends.

## Modules

* `Tally` – hashes of counters: `HINCRBY`, `HDEL`, and the sum of some fields.
  The sum is the cardinality of a disjoint union, which lets TLAPS use the
  library's facts about finite sets; `MCLimiter` asserts that it is the
  ordinary sum.
* `CheckAndRecord` – the script as operators on those hashes. The code's
  parallel arrays and `key_index` become functions of the bucket size; `IsPlan`
  is what is asked of a plan, and `CheckPlanProofs` shows that every plan of
  `CheckPlan` is one.
* `Limiter` – `check_sasl` and Valkey. `Invoke` is the call (an unrestricted
  plan returns at once), `Execute` one atomic run of the script, `Return`,
  `Lose` and `Abandon` the ways the call ends, `ExecuteLate` a command that
  runs after its caller timed out. `Tick` and `Expire` are Valkey's clock and
  expiry: a key is gone at some instant of the second in which its TTL ends.
  `sent` is a history variable, the exact log of recipients charged.
* `SlidingWindow` – the abstract specification: an exact log. A message may be
  admitted only if every window has room for it, refused only if some window
  stretched by one bucket is full.
* `CheckPlan` – one action per iteration of the loops in `build_plan`,
  `validate_windows`, `CheckPlan::new` and `bucket_size`; `key_index` counts
  from 1.
* `ConfigReload` – one action per access to an atomic, to the `ArcSwap` or to
  the file. `served` is a history variable: the last generation whose pass read
  the file. The five fields `same_redis_connection` compares are one value.
* `PolicyServer` – main loop, connection tasks, drain. A request is the three
  facts `handle_request` looks at; the limiter's result and a reload's new
  config arrive nondeterministically, and the kinds of error that `dispatch` and
  `handle_line` reply are one step. `stats` holds totals since the start;
  `read`, `answered` count requests and answers, and `failed` holds the
  connections whose answer could not be written.
* `PlanChange` – the script under several instances that share a database and
  reload: a command carries the plan its request was given, and runs whenever
  Valkey gets to it. It uses `CheckAndRecord`. The history `streak` holds, for
  each kind of window, what was charged since a plan that does not keep such a
  window last recorded: that is the most the window can know.
* `KeyNaming` – `escape_identity_value`, `identity`, `bucket_key` on strings as
  sequences of characters. The fixed words of a key are one letter each. It has
  no steps: `MCPlanChange` asserts `KeysAreDistinct` over its inputs, because
  instances meet in a hash only if they name it alike.
* `ControlStatus` – composes `Limiter` with a status query: one action per
  command that `compute_sasl_status` sends, interleaved with everything the
  limiter does. Its reading of a bucket is written from the Rust code, not from
  the script's.
* `ConfigLoad` – one action per check of `Config::load` and per iteration of
  its loop; `PlanFor` is `plan_for`. A plan is the position of the rule it was
  built from, so that a plan given to the wrong user is visible.
* `RequestFraming` – `Request::read_from` and the reading of lines in
  `control::handle_connection`, byte by byte. The peer sends and closes when it
  likes.
* `Stats` – one action per `fetch_add`, `swap` and `store`, one for each line
  that is written later. `level` decides whether `log::info!` evaluates its
  arguments.
* `Startup` – one action per system call of `acquire_startup_lock`,
  `bind_socket` and `check_socket_directory`, in several processes. When `main`
  returns, locals are dropped in reverse order, so the listeners close before
  the locks are released; a killed process loses both in any order. A foreign
  program may be listening from before; it does not start later. Any call may
  fail (`IOError`), those of the self-check included; the probe's `connect()`
  has no backlog to wait for and returns.
* `ControlClient` – the tool's `resolve_control_socket`, `send_request` and
  `run_query_command` step by step, and of the daemon what it meets: backlog,
  accept, limit, task, shutdown, and a daemon that stalls for good.
* `TallyTheorems` – lemmas about `Tally` and `CheckAndRecord`, for the proofs of
  `Limiter` and `PlanChange`. `LimiterProofs` (which covers `ControlStatus` as
  well), `PlanChangeProofs`, `CheckPlanProofs`, `StartupProofs` – the theorems
  about the modules they are named after. `ConfigProofs` has those about
  `ConfigReload` and `ConfigLoad`, `ServerProofs` those about `PolicyServer` and
  `Stats`, `ConnectionProofs` those about `RequestFraming` and `ControlClient`;
  the second module of each pair has names of its own (`StatsSpec`,
  `loadVars`, `ClientTypeOK` and so on), so that one module can extend both.
* `MC...` – constants for TLC. `MCConfig`, `MCServer` and `MCConnection` each
  extend two modules that share no state, those that one proof module treats
  together; the variable `part` chooses which of them a behaviour runs, and the
  other one stays in an initial state.

`Limiter` implements `SlidingWindow` under the mapping that keeps `now`,
`sent`, `call` and `late` and forgets the store.

Definitions named `Wrong...` are plausible mistakes in the definition that
follows them; each property is known to fail when one of them takes its place.
Every module with variables has a type invariant (`TypeOK`, `StatsTypeOK`...),
an invariant of its own or the first conjunct of one.

## Runs

| Run | Question | Bounds |
|---|---|---|
| `limiter` | do buckets, pruning and TTLs keep what the windows count, stay small and implement the exact log, through lost replies and late commands? how far may a status be from what is charged and enforced? | `ControlStatus`, which contains `Limiter`: one connection and one command that outlives its call, counts 1–2, three windows on two keys (sizes 1 and 2), a user without limits, clock to 4, one query at a time |
| `plan_change` | what is enforced when plans change under running commands? can two uses share a key? | two instances, four plans that share and do not share keys and retentions, counts of 1, clock to 6; all pairs of two prefixes, 121 usernames, two sizes |
| `check_plan` | is every plan sound, faithful, within 2 % and small? | the code's constants; up to three windows at 8 boundary durations, two counts, all `windows`/`unrestricted` combinations |
| `config` | first match, first fault, nothing passed over? one worker, coherent state, no stale overwrite? does every reload end, and is a SIGHUP served unless it falls in the gap? | `ConfigLoad`: all files of up to three rules of every kind, all combinations of the other settings. `ConfigReload`: two edits, three SIGHUPs, two values per setting, two task names |
| `reload_dropped` | is a SIGHUP ever dropped? (**violated**) | one edit, three SIGHUPs |
| `server` | slots, answers, verdicts, counters? is every event reported once, and does every interval get its lines and its notice? | `PolicyServer`: three connections, limit 2, two requests in all. `Stats`: two tasks, three counters, limit 2, five events, two reports, one reload, both levels |
| `shutdown` | does shutdown end without the drain timeout? | three connections, limit 2, one request in all, one accept error |
| `drain_cut` | does a request always run to completion at a shutdown? (**violated**) | two connections, limit 1, one request, no accept errors |
| `connection` | are requests cut exactly, the cap exact, a close noticed? is the tool's report true, does it end once connected, is the slot released? | `RequestFraming`: three bytes (LF, CR, another), inputs up to 7, cap 3, both sockets. `ControlClient`: two runs of the tool, backlog 1, limit 2 shared with other connections |
| `stats_quiet_level` | the throttle at `--log-level warn` (**violated**) | one counter, five events |
| `startup` | reachable, private, nobody evicted? does every start end, do stale files not block? | two process ids, two paths, three configs that share and cross them, two starts |
| `tool_hangs` | can a stuck daemon hang the tool? (**violated**) | two runs of the tool, backlog 1, limit 2 |

In `limiter` the clock runs past the retention plus one bucket of the smaller
key, so that its buckets are recorded, counted, pruned and expire; the larger
key is counted in part and in full. A command that outlives its call is the
second command in flight: it runs before, after or between those of the calls
that follow it. More connections, counts, keys and time change nothing that
`LimiterProofs` does not cover. `plan_change` runs past the longest retention,
and its plans make a key shared, a count smaller, a retention longer and a key
foreign. Two task names suffice to see two workers at once, two edits to see a
stale file overwrite a newer one. Three connections against a limit of two make
a refusal, and a slot reused after a close, possible. Of two requests the second
may follow the first on its connection, so that an answer is due before a next
request, or be in flight beside it; the liveness of `shutdown` needs one. Inputs
of seven bytes against a cap of three hold two requests at the cap and the beginning of a
third. Five events against a throttle of two fill an interval past its notice
and reach into the next. Two starts contain a crash and a restart, or two
competitors, over the stale files and the foreign listener that the initial
states hold. With a backlog of one the second run of the tool finds it full.
`Server.cfg` has a `VIEW` that leaves out the variables of the part that does
not run: they never change, and no property relates the two parts.

`CHECK_DEADLOCK FALSE` is set where the system may stop: a plan is finished,
the process has exited, or nobody edits, signals, connects, sends or starts any
more.

**Fairness.** `ConfigReload!FairSpec`: weak fairness of the main loop's two
steps and of the worker, because the runtime polls every ready task and
`Limiter::new` has timeouts and a bounded number of retries. Nothing is assumed
of the administrator. `PolicyServer!FairSpec`: weak fairness of tasks (checks
end by the client's timeouts, an answer fits in the socket buffer) and of
main's steps; strong fairness of the shutdown arm and of an idle connection's
cancellation, because `select!` picks among ready arms at random.
`CheckPlan!FairSpec`: the program does not stop by itself.
`Startup!FairSpec`: a process runs on and its kernel cleans up; `Limiter::new`
ends by its timeouts; the probe's `connect()` (line 321) returns, which holds
unless the owner of the file is stuck with a full backlog; nothing makes anyone
start. `RequestFraming!FairSpec`:
the runtime polls a task whose socket is readable. `ControlClient!FairClientSpec`:
the tool runs on and its read times out; the daemon's tasks and its accept are
polled unless it is stalled.

## What was found

`reload_dropped`: the worker leaves its loop when `reload_requests` has not
changed (line 637) and clears `reload_in_progress` afterwards (line 642). A
SIGHUP that the main loop handles between the two finds the flag set and spawns
nothing, and nobody looks at the counter again. The comment at lines 622–626
says that such a signal is not dropped. `RequestIsServed` shows that this gap
is the only one.

`stats_quiet_level`: the swaps that reset the counters are arguments of
`log::info!` (line 121), which the `log` crate does not evaluate when the level
is disabled. At `--log-level warn` the counters only grow, and after six
occurrences a throttled error or warning is never logged again. The comments at
lines 118 and 147–152 say that every report resets every field.

`drain_cut`: `main` waits ten seconds for the connection tasks (line 692) and
then returns, which ends a task that is in `check_sasl` or writes its answer.
The comment at lines 231–234 says that a request already being handled "always
runs to completion", the one at lines 93–95 that the timeout is "comfortably
above how long a single rate-limit check should ever take"; but the client's
connection and response timeouts are three seconds each, with retries, a status
query sends several commands, and no write has a timeout. What does hold is
`EveryRequestIsAnswered`: as long as the process runs, cancellation drops no
request that was read.

`tool_hangs`: `QUERY_TIMEOUT` is to keep a stuck daemon from hanging the tool
forever (`postfix-ratelimitctl.rs`, lines 19–20), but it bounds the read (line
105), not the `connect()` before it (line 101). The connections of runs that
gave up stay in the backlog of a daemon that does not accept, and when it is
full the next run waits for as long as the daemon is stuck. What does hold is
`ConnectedQueryEnds`: once connected, the tool ends.

One more case is stated in a property that holds, as what it exempts. Requests
counted while `warn_on_unauthenticated` was off (line 185) move the same
counter, so after a reload turns it on the rest of the interval may pass without
a line or a notice, until the next report (`ThrottleHolds`).

## What is proved

Every theorem below is checked by TLAPS to its last leaf and holds for every
value of the constants that satisfies the named assumptions of its module; the
runs show the same properties on small instances. The bounds that keep TLC's
state spaces finite (`MaxTime`, `MaxSignals`, `MaxInput` and so on) are
arbitrary naturals in the proofs. The safety properties are proved of `Spec`,
and so hold of `FairSpec` too. Each proof has the same outline: an inductive
invariant (`IInv`; `StatusInv`, `LoadInv`, `StatsInv`, `ClientInv`), lemmas for
the actions, and the theorems as consequences.

**Limiter** (`LimiterProofs`; assumptions `PlanAssumption`,
`CountsAssumption`, `TimeAssumption`).

* `TypeCorrect` (`TypeOK`), `LimitEnforced` (`SlidingWindowLimit`),
  `StoreFaithful` (`StoreIsFaithful`), `HashBounded` (`HashIsBounded`),
  `Refinement` (`ImplementsSlidingWindow`).

`SlidingWindowLimit` talks of the history while the script decides by the
hashes, so it is not inductive. `IInv` adds four facts: the hashes and logs
have finitely many units (`Tallies`); the TTL of a key reaches at least a
retention beyond the end of each of its buckets, and at most retention + bucket
size beyond now (`Covered`), so that an expiring key holds only dead buckets;
above every cutoff within the retention, hash and history have the same total
(`Faithful`); and by the hashes every window is within its limit
(`WithinLimits`). `Faithful` survives recording because pruning only removes
buckets below every such cutoff, and the current second and its bucket are on
the same side of each cutoff. The limit and the refinement follow because a
bucket that counts contains every second of the span, and no second earlier
than the span plus one bucket (`WindowBounds`).

**Status queries** (same module and assumptions, of `ControlStatus`).

* `StatusTypeCorrect` (`StatusTypeOK`), `StatusBracketed`
  (`StatusIsBracketed`), `StatusAgrees` (`StatusAgreesWithEnforcement`);
* `QueriesAreInvisible`: `StatusSpec => Spec /\ ImplementsSlidingWindow`, so
  that all theorems about the limiter hold beside running queries.

A query reads the clock first and the hashes later, so its cutoff may have
fallen below the retention when a hash is read; `Faithful` says nothing there.
`StatusInv` therefore adds that for any cutoff at all a hash holds no more than
was charged (`Modest`), and keeps both facts for every hash read so far and the
log at the moment of its reading (`Readings`).

**Changing plans** (`PlanChangeProofs`; `PlansAssumption` and
`BoundsAssumption`).

* `LimitsSurviveReloads` (`EnforcedAcrossPlans`), `NeverInflated`
  (`NothingIsInflated`).

A command is judged by hashes that other plans wrote, pruned by their own
retention and gave their own TTL. `IInv` relates the hash to the streak of each
kind of window (`Remembered`) and has the TTL cover what is in a streak
(`Covered`); `Modest` is the upper bound.

**Plans** (`CheckPlanProofs`; `RulesAssumption`, `SizesAssumption`).

* `PlanSound` (`PlanIsSound`), `SizesFit` (`BucketSizeFits`), `PlanFaithful`
  (`PlanIsFaithful`), for any number of windows.

`SizesAssumption` asks two things of the constants: the shortest window has at
least `BUCKET_TARGET_COUNT` of the smallest buckets, and `MAX_WINDOW <
MAX_BUCKET * BUCKET_TARGET_COUNT`, which the comment of a test states too
(`src/config.rs`, lines 597–600): the clamp to `MAX_BUCKET` is never reached.
The invariant says that after every iteration the plan is in order for the
windows taken so far (`PlanOK`). Its hard part is that a repeated duration
meets the window planned before it instead of being planned again under another
key, which needs that a duration has one bucket size: sizes belong to the least
set that contains `MIN_BUCKET` and is closed under doubling (`Ladder`), and
only one member fits (`OneSizeFits`).

* `PlansFitScript`: in every state the plan, with its arrays read as functions
  of the bucket size (`ScriptPlan`), satisfies `CheckAndRecord!IsPlan`. That is
  all that `PlanAssumption` and `PlansAssumption` ask, so the theorems about the
  limiter and about changing plans apply to every plan that a config file can
  give.

**Config loading** (`ConfigProofs`; `FilesAssumption`).

* `FirstMatch` (`FirstMatchWins`), `NothingPassedOver` (`NothingIsPassedOver`),
  for files of any length, any files and any users.

Both properties speak of the end of `Config::load`, where the rules without the
default have other positions than in the file. `LoadInv` says what holds before
each entry: exactly the entries before it that are not the default have been
collected, each with its own plan and in increasing order, none of them at
fault, and `default_plan` is the default if that was among them
(`CollectedOK`); the earlier checks have passed (`CheckedOK`); and an error that
names a rule names the entry the loop is at (`NamedOK`). The order makes the
least position in `sasl_limits` the least position in the file. That the least
element exists for a set of naturals is `LeastNatural`.

**Reload** (`ConfigProofs`; `BoundsAssumption`).

* `TypeCorrect` (`TypeOK`), `ReloadIsExclusive` (`FlagIsWorker`),
  `StateCoherent` (`StateIsCoherent`), and the action property `NeverOlder`
  (`NeverGoesBack`).

The worker stores what it chose by a state that it loaded several steps before.
`IInv` adds that there is one worker at most (`OneWorker`), that the state it
loaded is still the published one and that what it holds is at least as new
(`TasksUpToDate`), and that nothing published is newer than the file.

**Policy server** (`ServerProofs`; `BoundsAssumption`).

* `TypeCorrect` (`TypeOK`), `SlotsExact` (`SlotsAreExact`), `RequestsAnswered`
  (`EveryRequestIsAnswered`), `NothingSlipsThrough` (`FailsClosed`),
  `CountersExact` (`CountersAddUp`).

`EveryRequestIsAnswered` speaks of the running process; a request that the drain
timeout cuts is the subject of `drain_cut`. The additional facts are about
single connections: one whose answer could not be written is closed, one not
accepted has read nothing, and a request in `check_sasl` is one that nothing
decides beforehand (`Closed`, `Sane`). The sums over all connections are
cardinalities of finite sets, as in `Tally`.

**Statistics** (`ServerProofs`; `StatsAssumption`, which asks that the tasks
are finitely many).

* `EveryEventReported` (`EveryEventIsReportedOnce`), `Throttle`
  (`ThrottleHolds`), for any number of tasks, any limit, both log levels, and
  any number of events, reports and reloads.

`log_throttled` decides by the counter, while `ThrottleHolds` compares what was
said with the calls of an interval. `StatsInv` relates the three. Nothing has
been said yet of an interval that the report has not begun, and no more lines
of the present one than the counter has seen, with no notice before it passes
the limit (`SeenOK`): this survives a report that resets nothing and a counter
that also counts silenced requests, which is why the upper bound holds always.
Where the report is printed and no reload has toggled the warning, the counter
is the number of calls in the interval (`ExactOK`), which gives the exact
statement. The report is at one place of its list for all counters
(`PositionsOK`), and holds only values that it took and has not printed
(`CountedOK`). What was said includes what tasks are about to write, so writing
changes nothing (`SaidAfterWrite`).

**Startup** (`StartupProofs`; `ConfigsAssumption`, `NamesAssumption`).

* `Reachable` (`ServingIsReachable`), `ControlPrivate`
  (`ControlSocketIsPrivate`), and the action property `NobodyIsEvicted`
  (`NoEviction`).

From its probe on a process holds the lock of the path (`Placed`), and whoever
listens on a path holds its lock, unless it is a foreign program or was killed
and lost its lock before its listener (`Listening`): that is the case the lock
does not exclude and the probe does.

**Framing** (`ConnectionProofs`; `BytesAssumption`).

* `FramingExact` (`FramingIsExact`), `EndJustified` (`EndIsJustified`), for
  every input and every cap.

The reader tests the current line while the property looks for a blank line
anywhere in the request. They agree (`TestIsExact`) because the reader knows
where the line began (`LineOK`) and has missed no end before (`NothingMissed`).

**Control client** (`ConnectionProofs`; `ControlClientAssumption`, which asks
that the tools are finitely many).

* `ReportTrue` (`ReportIsTrue`), for any number of tools, any backlog and any
  limit.

A report is made several steps after the daemon answered, and the daemon may
have moved on. `ClientInv` describes each connection at every step of the
daemon's task (`TaskOK`) and of the tool (`ToolOK`): a reply fits the query and
what the daemon did for it (`Fits`), a tool that reported had read such a reply,
and a connection that ended without one was rejected, cut by a shutdown or left
by the tool. The backlog holds only connections nobody has accepted, once
each (`QueueOK`), so that accepting one says nothing of the others.

**Only model-checked.**

* All liveness and everything under fairness (`Terminates`, `RequestIsServed`,
  `ReloadEnds`, `ShutdownCompletes`, `CloseIsNoticed`, `StartEnds`,
  `StaleFilesDoNotBlock`, `ConnectedQueryEnds`, `SlotIsReleased`): out
  of the prover's reach.
* That `Total` is the ordinary sum and that key names are distinct: assertions
  over small inputs. The library's induction theorems take an operator as a
  parameter, which the installed provers cannot instantiate, so facts about
  what a recursion computes are not proved. Where the proofs need induction
  they use a set instead: the least natural number of a non-empty set
  (`LeastNatural`), or a least closed set (`Ladder`).

## What is not modelled

* JSON, TOML, URL and regex parsing, TLS: libraries, present by their outcome.
  A byte sequence that is not UTF-8 ends a connection like any read error.
* The command line, `init_logging`, log wording and the formatting of the
  tool's output: no state of their own.
* The test-only `now_override`, and a Valkey clock that goes backwards.
* Loss of Valkey's data.
* The config file is read in one step.
* A foreign program that starts to listen between an instance's probe and its
  removal of the file: nothing in the code could notice it.
* The backlog of the socket that a start probes (line 321).
* u64/u32 overflow of counters: a bucket would need 2^53 recipients before
  Lua's numbers lose precision.

## Plan

1. Done: the limiter and its refinement, plan, reload and server.
2. Done: plans that change, key names, status, config loading, framing,
   statistics, startup and the control client.
3. Done: theorems for all safety properties of the limiter, status queries,
   changing plans, the check plan, reload, server, startup and framing.
4. Done: theorems for those of config loading, the statistics and the control
   client, and that the plans built are those the limiter assumes.

What is left is out of the prover's reach: liveness, and the two assertions
about recursive definitions.
