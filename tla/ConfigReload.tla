---------------------------- MODULE ConfigReload ----------------------------
(***************************************************************************)
(* SIGHUP handling in src/bin/postfix-ratelimitd.rs: the main loop counts  *)
(* the signal and claims reload_in_progress, the worker task it spawns     *)
(* runs reload_config until no signal came in meanwhile, and policy        *)
(* connections read the RuntimeState it publishes.  The runtime has        *)
(* several threads, so the main loop and a worker interleave at every      *)
(* access to an atomic or to the ArcSwap.                                  *)
(***************************************************************************)
EXTENDS Integers, FiniteSets

CONSTANTS
    Sockets,        \* values of server.socket
    Controls,       \* values of server.control_socket
    Connections,    \* redis settings that same_redis_connection tells apart
    Prefixes,       \* values of redis.key_prefix
    Workers,        \* names for spawned reload tasks
    MaxEdits,       \* bound on the changes to the config file
    MaxSignals      \* bound on the SIGHUPs the main loop receives

ASSUME BoundsAssumption == MaxEdits \in Nat /\ MaxSignals \in Nat

VARIABLES
    file,               \* the config file: contents, and a version
    pending,            \* a SIGHUP was raised and not received yet
    main,               \* where the main loop is
    reload_requests,
    reload_in_progress,
    worker,             \* worker[w]: where a task is, and its locals
    state,              \* the RuntimeState: a config and a limiter
    served              \* history: the last generation that read the file

vars == <<file, pending, main, reload_requests, reload_in_progress, worker,
          state, served>>

\* The main loop's part.
requests == <<pending, main, reload_requests>>

\* What a Config says that reload_config looks at.
Settings == [socket : Sockets, control_socket : Controls,
             redis : Connections, key_prefix : Prefixes]

\* Config::load fails on some contents.
Invalid == [error : {TRUE}]

\* The version tells successive contents apart; no code reads it.
Config == [version : Nat, settings : Settings]
File == [version : Nat, settings : Settings \cup Invalid]

\* A limiter is known by what Limiter::new was given.
Limiters == [redis : Connections, key_prefix : Prefixes]
LimiterFor(settings) == [redis |-> settings.redis, key_prefix |-> settings.key_prefix]
RuntimeState == [config : Config, limiter : Limiters]

Task ==
    [pc : {"idle", "generation", "clear"}]
    \cup [pc : {"current", "recheck"}, generation : Nat]
    \cup [pc : {"load"}, generation : Nat, current : RuntimeState]
    \cup [pc : {"connect"}, generation : Nat, current : RuntimeState, config : Config]
    \cup [pc : {"store"}, generation : Nat, config : Config, limiter : Limiters]

TypeOK ==
    /\ file \in File
    /\ pending \in BOOLEAN
    /\ main \in {"select", "swap"}
    /\ reload_requests \in Nat
    /\ reload_in_progress \in BOOLEAN
    /\ worker \in [Workers -> Task]
    /\ state \in RuntimeState
    /\ served \in Nat

\* main has loaded the file and connected.
Init ==
    /\ file \in [version : {0}, settings : Settings]
    /\ pending = FALSE
    /\ main = "select"
    /\ reload_requests = 0
    /\ reload_in_progress = FALSE
    /\ worker = [w \in Workers |-> [pc |-> "idle"]]
    /\ state = [config |-> file, limiter |-> LimiterFor(file.settings)]
    /\ served = 0

Idle == {w \in Workers : worker[w].pc = "idle"}
Running == Workers \ Idle

----------------------------------------------------------------------------
(* The administrator *)

Edit ==
    /\ file.version < MaxEdits
    /\ \E s \in Settings \cup Invalid :
        file' = [version |-> file.version + 1, settings |-> s]
    /\ UNCHANGED <<requests, reload_in_progress, worker, state, served>>

\* Signals not yet received coalesce.
RaiseSighup ==
    /\ reload_requests < MaxSignals
    /\ pending = FALSE
    /\ pending' = TRUE
    /\ UNCHANGED <<file, main, reload_requests, reload_in_progress, worker,
                   state, served>>

----------------------------------------------------------------------------
(* The main loop *)

\* reload_signal.recv() completes and the request is counted.
CountRequest ==
    /\ main = "select"
    /\ pending
    /\ pending' = FALSE
    /\ reload_requests' = reload_requests + 1
    /\ main' = "swap"
    /\ UNCHANGED <<file, reload_in_progress, worker, state, served>>

\* Definitions named Wrong... are variants that the code could have had; the
\* checks must tell them from the definition that follows.

\* Spawns a worker for every request.
WrongBusy == FALSE

\* What the swap returns.
Busy == reload_in_progress

\* reload_in_progress.swap(true), and tokio::spawn if it was false.
ClaimReload ==
    /\ main = "swap"
    /\ reload_in_progress' = TRUE
    /\ \/ Busy /\ worker' = worker
       \/ ~ Busy /\ \E w \in Idle : worker' = [worker EXCEPT ![w] = [pc |-> "generation"]]
    /\ main' = "select"
    /\ UNCHANGED <<file, pending, reload_requests, state, served>>

----------------------------------------------------------------------------
(* The worker *)

At(w, pc) == worker[w].pc = pc
Goto(w, task) == worker' = [worker EXCEPT ![w] = task]

LoadGeneration(w) ==
    /\ At(w, "generation")
    /\ Goto(w, [pc |-> "current", generation |-> reload_requests])
    /\ UNCHANGED <<file, requests, reload_in_progress, state, served>>

\* reload_config begins: state.load_full().
LoadCurrent(w) ==
    /\ At(w, "current")
    /\ Goto(w, [pc |-> "load", generation |-> worker[w].generation, current |-> state])
    /\ UNCHANGED <<file, requests, reload_in_progress, state, served>>

\* Goes on with a file that did not parse.
WrongReloadableAlways(current) == TRUE

\* The file parses and asks for the sockets this process has bound.
Reloadable(current) ==
    /\ file.settings \in Settings
    /\ file.settings.socket = current.config.settings.socket
    /\ file.settings.control_socket = current.config.settings.control_socket

\* Ends the task instead of the attempt.
WrongLeave(w) == Goto(w, [pc |-> "idle"])

\* reload_config returns, having changed nothing or having stored.
Leave(w) == Goto(w, [pc |-> "recheck", generation |-> worker[w].generation])

\* Config::load and the checks of the sockets.
LoadConfig(w) ==
    /\ At(w, "load")
    /\ served' = worker[w].generation
    /\ IF Reloadable(worker[w].current)
       THEN Goto(w, [pc |-> "connect", generation |-> worker[w].generation,
                     current |-> worker[w].current, config |-> file])
       ELSE Leave(w)
    /\ UNCHANGED <<file, requests, reload_in_progress, state>>

\* Forgets the key prefix.
WrongSameBackend(a, b) == a.redis = b.redis

\* Neither the connection nor the key prefix changed.
SameBackend(a, b) == a.redis = b.redis /\ a.key_prefix = b.key_prefix

\* The current limiter is kept, or Limiter::new connects, or it fails.
Connect(w) ==
    /\ At(w, "connect")
    /\ LET t == worker[w]
           keep == SameBackend(t.config.settings, t.current.config.settings)
           StoreWith(limiter) == Goto(w, [pc |-> "store", generation |-> t.generation,
                                          config |-> t.config, limiter |-> limiter])
       IN  \/ keep /\ StoreWith(t.current.limiter)
           \/ ~ keep /\ StoreWith(LimiterFor(t.config.settings))
           \/ ~ keep /\ Leave(w)
    /\ UNCHANGED <<file, requests, reload_in_progress, state, served>>

\* One store publishes the config and the limiter together.
Store(w) ==
    /\ At(w, "store")
    /\ state' = [config |-> worker[w].config, limiter |-> worker[w].limiter]
    /\ Leave(w)
    /\ UNCHANGED <<file, requests, reload_in_progress, served>>

\* Ends without looking for further requests.
WrongIsServed(w) == TRUE

IsServed(w) == reload_requests = worker[w].generation

\* Reload again if a request was counted since the generation was loaded.
Recheck(w) ==
    /\ At(w, "recheck")
    /\ Goto(w, [pc |-> IF IsServed(w) THEN "clear" ELSE "generation"])
    /\ UNCHANGED <<file, requests, reload_in_progress, state, served>>

\* reload_in_progress.store(false); the task ends.
ClearFlag(w) ==
    /\ At(w, "clear")
    /\ reload_in_progress' = FALSE
    /\ Goto(w, [pc |-> "idle"])
    /\ UNCHANGED <<file, requests, state, served>>

----------------------------------------------------------------------------

WorkerStep(w) ==
    \/ LoadGeneration(w) \/ LoadCurrent(w) \/ LoadConfig(w) \/ Connect(w)
    \/ Store(w) \/ Recheck(w) \/ ClearFlag(w)

Next ==
    \/ Edit \/ RaiseSighup
    \/ CountRequest \/ ClaimReload
    \/ \E w \in Workers : WorkerStep(w)

Spec == Init /\ [][Next]_vars

\* The runtime schedules every task that can run, and Limiter::new gives up
\* after its timeouts.  The administrator is under no obligation.
FairSpec ==
    /\ Spec
    /\ WF_vars(CountRequest)
    /\ WF_vars(ClaimReload)
    /\ \A w \in Workers : WF_vars(WorkerStep(w))

----------------------------------------------------------------------------
(* Properties *)

\* reload_in_progress caps the running reloads at one, and it is set exactly
\* while one runs: never two workers, never a flag that nobody will clear.
FlagIsWorker ==
    /\ Cardinality(Running) <= 1
    /\ reload_in_progress <=> Running # {}

\* A policy connection that loads the state finds a config and the limiter
\* that belongs to it, although the worker chose the limiter by comparing
\* with a state it had read before it waited for the connection.
StateIsCoherent == state.limiter = LimiterFor(state.config.settings)

\* A slow reload never overwrites a newer config with an older one.
NeverGoesBack == [][state'.config.version >= state.config.version]_state

\* A request counted while the worker is anywhere but between its recheck
\* and the clearing of the flag is served: the file is read again after it.
RequestIsServed ==
    \A k \in 1 .. MaxSignals :
        (main = "swap" /\ reload_requests = k /\ \A w \in Workers : ~ At(w, "clear"))
            ~> served >= k

\* A reload, failed or not, always gives the flag back.
ReloadEnds == reload_in_progress ~> ~ reload_in_progress

\* What the comment in main says: a SIGHUP that arrives mid-reload isn't
\* dropped, the running worker notices it and reloads again.
NoSighupIsDropped ==
    \A k \in 1 .. MaxSignals : reload_requests = k ~> served >= k
=============================================================================
