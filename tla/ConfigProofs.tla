---------------------------- MODULE ConfigProofs ----------------------------
(***************************************************************************)
(* Proofs about module ConfigReload for every set of settings, any number  *)
(* of worker tasks, of edits and of signals, and about module ConfigLoad   *)
(* for files of any length and any set of users.                           *)
(*                                                                         *)
(* StateIsCoherent and NeverGoesBack are about what a worker stores, which *)
(* it chose by comparing with a state it read several steps before.  They  *)
(* are inductive only together with the fact that nobody else can have     *)
(* stored in between (OneWorker), which is what reload_in_progress is for. *)
(*                                                                         *)
(* What Config::load promises of the file is about its end; LoadInv says   *)
(* what has been collected and checked before each entry.                  *)
(***************************************************************************)
EXTENDS ConfigReload, ConfigLoad, FiniteSetTheorems, SequenceTheorems,
        NaturalsInduction, WellFoundedInduction, TLAPS

----------------------------------------------------------------------------
(* ConfigReload *)

\* At most one task runs, and the flag is set exactly while one does.
OneWorker ==
    /\ \A v, w \in Running : v = w
    /\ reload_in_progress <=> Running # {}

\* What a task remembers of the state is still the state, what it has read of
\* the file is no older than the state, and its limiter fits its config.
UpToDate(t) ==
    /\ t.pc \in {"load", "connect"} => t.current = state
    /\ t.pc \in {"connect", "store"} =>
        /\ state.config.version <= t.config.version
        /\ t.config.version <= file.version
    /\ t.pc = "store" => t.limiter = LimiterFor(t.config.settings)

TasksUpToDate == \A w \in Workers : UpToDate(worker[w])

IInv ==
    /\ TypeOK
    /\ OneWorker
    /\ StateIsCoherent
    /\ state.config.version <= file.version
    /\ TasksUpToDate

----------------------------------------------------------------------------
(* Records *)

\* What a task holds at each of its steps.
LEMMA TaskFacts ==
    ASSUME NEW t \in Task
    PROVE  /\ t.pc \in {"current", "recheck", "load", "connect", "store"}
                => t.generation \in Nat
           /\ t.pc \in {"load", "connect"} => t.current \in RuntimeState
           /\ t.pc \in {"connect", "store"} => t.config \in Config
           /\ t.pc = "store" => t.limiter \in Limiters
  BY DEF Task

\* A limiter has the connection and the prefix of its config.
LEMMA LimiterForType ==
    ASSUME NEW s \in Settings
    PROVE  LimiterFor(s) \in Limiters
  BY DEF Settings, LimiterFor, Limiters

\* Two configs that SameBackend does not tell apart need the same limiter.
LEMMA SameBackendSameLimiter ==
    ASSUME NEW a \in Settings, NEW b \in Settings, SameBackend(a, b)
    PROVE  LimiterFor(a) = LimiterFor(b)
  BY DEF SameBackend, LimiterFor

\* A file that can be loaded is a config.
LEMMA ReloadableIsConfig ==
    ASSUME file \in File, NEW c, Reloadable(c)
    PROVE  file \in Config
  BY DEF File, Reloadable, Config

----------------------------------------------------------------------------
(* The inductive invariant *)

\* main has loaded the file: no task runs and the state is the file.
LEMMA InitInv == Init => IInv
  <1> SUFFICES ASSUME Init PROVE IInv
    OBVIOUS
  <1>1. file \in Config /\ file.version = 0 /\ file \in File
    BY DEF Init, Config, File
  <1>2. state \in RuntimeState /\ state.config = file /\ StateIsCoherent
    <2>1. file.settings \in Settings
      BY <1>1 DEF Config
    <2> QED
      BY <1>1, <2>1, LimiterForType DEF Init, RuntimeState, StateIsCoherent
  <1>3. \A w \in Workers : worker[w] = [pc |-> "idle"] /\ worker[w].pc = "idle"
    BY DEF Init
  <1>4. TypeOK
    BY <1>1, <1>2, <1>3 DEF Init, TypeOK, Task
  <1>5. OneWorker
    BY <1>3 DEF Init, OneWorker, Running, Idle
  <1>6. TasksUpToDate
    BY <1>3 DEF TasksUpToDate, UpToDate
  <1> QED
    BY <1>1, <1>2, <1>4, <1>5, <1>6 DEF IInv

\* The file only gets newer.
LEMMA EditInv == IInv /\ Edit => IInv'
  <1> SUFFICES ASSUME IInv, Edit PROVE IInv'
    OBVIOUS
  <1>1. /\ UNCHANGED <<requests, reload_in_progress, worker, state, served>>
        /\ UNCHANGED <<pending, main, reload_requests>>
        /\ file' \in File /\ file'.version = file.version + 1 /\ file.version \in Nat
    BY DEF Edit, requests, IInv, TypeOK, File
  <1>2. TypeOK'
    BY <1>1 DEF IInv, TypeOK
  <1>3. OneWorker' /\ StateIsCoherent'
    BY <1>1 DEF IInv, OneWorker, StateIsCoherent, Running, Idle
  <1>4. state.config.version \in Nat
    BY DEF IInv, TypeOK, RuntimeState, Config
  <1>5. (state.config.version <= file.version)'
    BY <1>1, <1>4 DEF IInv
  <1>6. TasksUpToDate'
    <2> SUFFICES ASSUME NEW w \in Workers PROVE UpToDate(worker[w])'
      BY DEF TasksUpToDate
    <2>1. worker[w] \in Task /\ UpToDate(worker[w])
      BY DEF IInv, TypeOK, TasksUpToDate
    <2>2. worker[w].pc \in {"connect", "store"} => worker[w].config.version \in Nat
      BY <2>1, TaskFacts DEF Config
    <2> QED
      BY <1>1, <1>4, <2>1, <2>2 DEF UpToDate
  <1> QED
    BY <1>2, <1>3, <1>5, <1>6 DEF IInv

\* The main loop spawns a task only when none runs.
LEMMA ClaimInv == IInv /\ ClaimReload => IInv'
  <1> SUFFICES ASSUME IInv, ClaimReload PROVE IInv'
    OBVIOUS
  <1>1. /\ UNCHANGED <<file, pending, reload_requests, state, served>>
        /\ main' = "select" /\ reload_in_progress' = TRUE
    BY DEF ClaimReload
  <1>2. worker \in [Workers -> Task] /\ [pc |-> "generation"] \in Task
    BY DEF IInv, TypeOK, Task
  <1>3. CASE reload_in_progress
    <2>1. worker' = worker
      BY <1>3 DEF ClaimReload, Busy
    <2> QED
      BY <1>1, <1>3, <2>1
         DEF IInv, TypeOK, OneWorker, StateIsCoherent, TasksUpToDate, UpToDate, Running, Idle
  <1>4. CASE ~ reload_in_progress
    <2>1. PICK w \in Workers : worker' = [worker EXCEPT ![w] = [pc |-> "generation"]]
      BY <1>4 DEF ClaimReload, Busy, Idle
    <2>2. TypeOK'
      BY <1>1, <1>2, <2>1 DEF IInv, TypeOK
    <2>3. \A v \in Workers : worker[v].pc = "idle"
      BY <1>4 DEF IInv, OneWorker, Running, Idle
    <2>4. Running' = {w}
      BY <1>2, <2>1, <2>3 DEF Running, Idle
    <2>5. OneWorker'
      BY <1>1, <2>4 DEF OneWorker
    <2>6. TasksUpToDate'
      BY <1>1, <1>2, <2>1, <2>3 DEF TasksUpToDate, UpToDate
    <2> QED
      BY <1>1, <2>2, <2>5, <2>6 DEF IInv, StateIsCoherent
  <1> QED
    BY <1>3, <1>4

\* What a step of task w changes: only its own record, and w goes on running.
Moves(w, t) ==
    /\ t \in Task
    /\ worker[w].pc # "idle"
    /\ t.pc # "idle"
    /\ worker' = [worker EXCEPT ![w] = t]
    /\ UNCHANGED <<file, pending, main, reload_requests, reload_in_progress>>
    /\ served' \in Nat

\* A step of the running task that does not store keeps the invariant if its
\* new record is up to date.
LEMMA MoveInv ==
    ASSUME IInv, NEW w \in Workers, NEW t, Moves(w, t), UNCHANGED state, UpToDate(t)
    PROVE  IInv'
  <1>1. worker \in [Workers -> Task]
    BY DEF IInv, TypeOK
  <1>2. \A v \in Workers : worker'[v] = IF v = w THEN t ELSE worker[v]
    BY <1>1 DEF Moves
  <1>3. TypeOK'
    BY <1>1 DEF IInv, TypeOK, Moves
  <1>4. Running' = Running
    BY <1>2 DEF Running, Idle, Moves
  <1>5. OneWorker' /\ StateIsCoherent' /\ (state.config.version <= file.version)'
    BY <1>4 DEF IInv, OneWorker, StateIsCoherent, Moves
  <1>6. TasksUpToDate'
    BY <1>2 DEF IInv, TasksUpToDate, UpToDate, Moves
  <1> QED
    BY <1>3, <1>5, <1>6 DEF IInv

\* The steps of a task before it connects.
LEMMA ReadInv ==
    ASSUME IInv, NEW w \in Workers,
           LoadGeneration(w) \/ LoadCurrent(w) \/ LoadConfig(w) \/ Recheck(w)
    PROVE  IInv'
  <1>1. worker[w] \in Task /\ UpToDate(worker[w])
    BY DEF IInv, TypeOK, TasksUpToDate
  <1>2. /\ file \in File /\ state \in RuntimeState /\ reload_requests \in Nat
        /\ served \in Nat /\ state.config.version <= file.version
    BY DEF IInv, TypeOK
  <1>3. CASE LoadGeneration(w)
    <2> DEFINE t == [pc |-> "current", generation |-> reload_requests]
    <2>1. Moves(w, t) /\ UNCHANGED state /\ UpToDate(t)
      BY <1>2, <1>3 DEF LoadGeneration, At, Goto, Moves, Task, UpToDate, requests
    <2> QED
      BY <2>1, MoveInv
  <1>4. CASE LoadCurrent(w)
    <2> DEFINE t == [pc |-> "load", generation |-> worker[w].generation, current |-> state]
    <2>1. worker[w].generation \in Nat
      BY <1>1, <1>4, TaskFacts DEF LoadCurrent, At
    <2>2. t \in Task /\ UpToDate(t)
      BY <1>2, <2>1 DEF Task, UpToDate
    <2>3. Moves(w, t) /\ UNCHANGED state
      BY <1>2, <1>4, <2>2 DEF LoadCurrent, At, Goto, Moves, requests
    <2> QED
      BY <2>2, <2>3, MoveInv
  <1>5. CASE LoadConfig(w)
    <2> DEFINE g == worker[w].generation
               c == worker[w].current
    <2>1. g \in Nat /\ c = state /\ worker[w].pc = "load" /\ served' = g
      BY <1>1, <1>5, TaskFacts DEF LoadConfig, At, UpToDate
    <2>2. CASE Reloadable(c)
      <3> DEFINE t == [pc |-> "connect", generation |-> g, current |-> c, config |-> file]
      <3>1. file \in Config /\ file.version \in Nat
        BY <1>2, <2>2, ReloadableIsConfig DEF Config
      <3>2. t \in Task
        BY <1>2, <2>1, <3>1 DEF Task
      <3>3. UpToDate(t)
        BY <1>2, <2>1, <3>1 DEF UpToDate
      <3>4. Moves(w, t) /\ UNCHANGED state
        BY <1>5, <2>1, <2>2, <3>2 DEF LoadConfig, Goto, Moves, requests
      <3> QED
        BY <3>3, <3>4, MoveInv
    <2>3. CASE ~ Reloadable(c)
      <3> DEFINE t == [pc |-> "recheck", generation |-> g]
      <3>1. t \in Task /\ UpToDate(t)
        BY <2>1 DEF Task, UpToDate
      <3>2. Moves(w, t) /\ UNCHANGED state
        BY <1>5, <2>1, <2>3, <3>1 DEF LoadConfig, Leave, Goto, Moves, requests
      <3> QED
        BY <3>1, <3>2, MoveInv
    <2> QED
      BY <2>2, <2>3
  <1>6. CASE Recheck(w)
    <2> DEFINE t == [pc |-> IF IsServed(w) THEN "clear" ELSE "generation"]
    <2>1. t \in Task /\ UpToDate(t) /\ t.pc # "idle"
      BY DEF Task, UpToDate
    <2>2. Moves(w, t) /\ UNCHANGED state
      BY <1>2, <1>6, <2>1 DEF Recheck, At, Goto, Moves, requests
    <2> QED
      BY <2>1, <2>2, MoveInv
  <1> QED
    BY <1>3, <1>4, <1>5, <1>6

\* The limiter that is kept is the state's own, and it fits because the new
\* config has the same backend; a new one fits by construction.
LEMMA ConnectInv ==
    ASSUME IInv, NEW w \in Workers, Connect(w)
    PROVE  IInv'
  <1> DEFINE T == worker[w]
             u == [pc |-> "recheck", generation |-> T.generation]
             s(l) == [pc |-> "store", generation |-> T.generation,
                      config |-> T.config, limiter |-> l]
             keep == SameBackend(T.config.settings, T.current.config.settings)
  <1>1. T \in Task /\ UpToDate(T) /\ T.pc = "connect" /\ served \in Nat
    BY DEF IInv, TypeOK, TasksUpToDate, Connect, At
  <1>2. /\ T.generation \in Nat /\ T.config \in Config /\ T.current = state
        /\ T.config.settings \in Settings
    BY <1>1, TaskFacts DEF UpToDate, Config
  <1>3. /\ state.limiter = LimiterFor(state.config.settings)
        /\ state.config.settings \in Settings
        /\ state.limiter \in Limiters
    BY DEF IInv, StateIsCoherent, TypeOK, RuntimeState, Config
  <1>4. UNCHANGED <<file, pending, main, reload_requests, reload_in_progress, state, served>>
    BY DEF Connect, requests
  <1>5. ASSUME NEW l \in Limiters, l = LimiterFor(T.config.settings), Goto(w, s(l))
        PROVE  IInv'
    <2>1. s(l) \in Task
      BY <1>2 DEF Task
    <2>2. UpToDate(s(l))
      BY <1>1, <1>5 DEF UpToDate
    <2>3. Moves(w, s(l))
      BY <1>1, <1>4, <1>5, <2>1 DEF Moves, Goto
    <2> HIDE DEF s
    <2> QED
      BY <1>4, <2>2, <2>3, MoveInv
  <1>6. CASE keep /\ Goto(w, s(T.current.limiter))
    <2>1. LimiterFor(T.config.settings) = LimiterFor(state.config.settings)
      BY <1>2, <1>3, <1>6, SameBackendSameLimiter
    <2> QED
      BY <1>2, <1>3, <1>5, <1>6, <2>1
  <1>7. CASE Goto(w, s(LimiterFor(T.config.settings)))
    BY <1>2, <1>5, <1>7, LimiterForType
  <1>8. CASE Leave(w)
    <2>1. u \in Task /\ UpToDate(u)
      BY <1>2 DEF Task, UpToDate
    <2>2. Moves(w, u)
      BY <1>1, <1>4, <1>8, <2>1 DEF Leave, Goto, Moves
    <2> QED
      BY <1>4, <2>1, <2>2, MoveInv
  <1> QED
    BY <1>6, <1>7, <1>8 DEF Connect

\* The task stores a config at least as new as the one it replaces, with the
\* limiter that fits it, and no other task remembers the old state.
LEMMA StoreInv ==
    ASSUME IInv, NEW w \in Workers, Store(w)
    PROVE  IInv' /\ state'.config.version >= state.config.version
  <1> DEFINE T == worker[w]
             u == [pc |-> "recheck", generation |-> T.generation]
  <1>1. T \in Task /\ UpToDate(T) /\ T.pc = "store"
    BY DEF IInv, TypeOK, TasksUpToDate, Store, At
  <1>2. /\ T.generation \in Nat /\ T.config \in Config /\ T.limiter \in Limiters
        /\ T.config.version \in Nat /\ T.limiter = LimiterFor(T.config.settings)
    BY <1>1, TaskFacts DEF Config, UpToDate
  <1>3. /\ state' = [config |-> T.config, limiter |-> T.limiter]
        /\ worker' = [worker EXCEPT ![w] = u]
        /\ UNCHANGED <<file, pending, main, reload_requests, reload_in_progress, served>>
    BY DEF Store, Leave, Goto, requests
  <1>4. state' \in RuntimeState /\ StateIsCoherent'
    BY <1>2, <1>3 DEF RuntimeState, StateIsCoherent
  <1>5. state.config.version \in Nat
    BY DEF IInv, TypeOK, RuntimeState, Config
  <1>6. /\ state'.config.version >= state.config.version
        /\ (state.config.version <= file.version)'
    BY <1>1, <1>2, <1>3, <1>5 DEF UpToDate
  <1>7. worker \in [Workers -> Task] /\ u \in Task
    BY <1>2 DEF IInv, TypeOK, Task
  <1>8. \A v \in Workers : worker'[v] = IF v = w THEN u ELSE worker[v]
    BY <1>3, <1>7
  <1>9. TypeOK'
    BY <1>3, <1>4, <1>7 DEF IInv, TypeOK
  <1>10. Running' = Running /\ w \in Running
    BY <1>1, <1>8 DEF Running, Idle
  <1>11. OneWorker'
    BY <1>3, <1>10 DEF IInv, OneWorker
  <1>12. TasksUpToDate'
    <2> SUFFICES ASSUME NEW v \in Workers PROVE UpToDate(worker[v])'
      BY DEF TasksUpToDate
    <2>1. CASE v = w
      BY <1>8, <2>1 DEF UpToDate
    <2>2. CASE v # w
      <3>1. worker[v].pc = "idle"
        BY <1>10, <2>2 DEF IInv, OneWorker, Running, Idle
      <3> QED
        BY <1>8, <2>2, <3>1 DEF UpToDate
    <2> QED
      BY <2>1, <2>2
  <1> QED
    BY <1>4, <1>6, <1>9, <1>11, <1>12 DEF IInv

\* The task that clears the flag was the only one, and ends with it.
LEMMA ClearInv ==
    ASSUME IInv, NEW w \in Workers, ClearFlag(w)
    PROVE  IInv'
  <1>1. /\ worker' = [worker EXCEPT ![w] = [pc |-> "idle"]]
        /\ worker[w].pc = "clear" /\ reload_in_progress' = FALSE
        /\ UNCHANGED <<file, pending, main, reload_requests, state, served>>
    BY DEF ClearFlag, At, Goto, requests
  <1>2. worker \in [Workers -> Task] /\ [pc |-> "idle"] \in Task
    BY DEF IInv, TypeOK, Task
  <1>3. TypeOK'
    BY <1>1, <1>2 DEF IInv, TypeOK
  <1>4. \A v \in Workers : worker'[v].pc = "idle"
    BY <1>1, <1>2 DEF IInv, OneWorker, Running, Idle
  <1>5. OneWorker'
    BY <1>1, <1>4 DEF OneWorker, Running, Idle
  <1>6. TasksUpToDate'
    BY <1>4 DEF TasksUpToDate, UpToDate
  <1> QED
    BY <1>1, <1>3, <1>5, <1>6 DEF IInv, StateIsCoherent

\* Every step keeps the invariant, and no step publishes an older config.
LEMMA StepInv ==
    ASSUME IInv, [Next]_vars
    PROVE  IInv' /\ [state'.config.version >= state.config.version]_state
  <1>1. CASE Edit
    BY <1>1, EditInv DEF Edit
  <1>2. CASE RaiseSighup
    BY <1>2 DEF RaiseSighup, IInv, TypeOK, OneWorker, StateIsCoherent, TasksUpToDate,
                UpToDate, Running, Idle
  <1>3. CASE CountRequest
    <2>1. reload_requests' \in Nat /\ pending' = FALSE /\ main' = "swap"
      BY <1>3 DEF CountRequest, IInv, TypeOK
    <2> QED
      BY <1>3, <2>1 DEF CountRequest, IInv, TypeOK, OneWorker, StateIsCoherent,
                        TasksUpToDate, UpToDate, Running, Idle
  <1>4. CASE ClaimReload
    BY <1>4, ClaimInv DEF ClaimReload
  <1>5. ASSUME NEW w \in Workers, WorkerStep(w)
        PROVE  IInv' /\ [state'.config.version >= state.config.version]_state
    <2>1. CASE LoadGeneration(w) \/ LoadCurrent(w) \/ LoadConfig(w) \/ Recheck(w)
      BY <2>1, ReadInv DEF LoadGeneration, LoadCurrent, LoadConfig, Recheck
    <2>2. CASE Connect(w)
      BY <2>2, ConnectInv DEF Connect
    <2>3. CASE Store(w)
      BY <2>3, StoreInv
    <2>4. CASE ClearFlag(w)
      BY <2>4, ClearInv DEF ClearFlag
    <2> QED
      BY <1>5, <2>1, <2>2, <2>3, <2>4 DEF WorkerStep
  <1>6. CASE UNCHANGED vars
    BY <1>6 DEF vars, IInv, TypeOK, OneWorker, StateIsCoherent, TasksUpToDate,
                UpToDate, Running, Idle
  <1> QED
    BY <1>1, <1>2, <1>3, <1>4, <1>5, <1>6 DEF Next

\* The inductive invariant holds throughout.
LEMMA Invariance == Spec => []IInv
  <1>1. IInv /\ [Next]_vars => IInv'
    BY StepInv
  <1> QED
    BY InitInv, <1>1, PTL DEF Spec

----------------------------------------------------------------------------
(* Theorems *)

\* Every variable, every task's locals included, keeps its type.
THEOREM TypeCorrect == Spec => []TypeOK
  <1>1. IInv => TypeOK
    BY DEF IInv
  <1> QED
    BY <1>1, Invariance, PTL

\* The flag excludes a second reload and is never left set by a task that
\* has ended, however the main loop and the worker interleave.
THEOREM ReloadIsExclusive == Spec => []FlagIsWorker
  <1>1. IInv => FlagIsWorker
    <2> SUFFICES ASSUME IInv PROVE Cardinality(Running) <= 1
      BY DEF FlagIsWorker, IInv, OneWorker
    <2>1. CASE Running = {}
      BY <2>1, FS_EmptySet
    <2>2. CASE Running # {}
      <3>1. PICK w \in Running : TRUE
        BY <2>2
      <3>2. Running = {w}
        BY <3>1 DEF IInv, OneWorker
      <3>3. Cardinality({w}) = 1
        BY FS_Singleton
      <3> QED
        BY <3>2, <3>3
    <2> QED
      BY <2>1, <2>2
  <1> QED
    BY <1>1, Invariance, PTL

\* Whoever loads the state finds a config with the limiter that belongs to it.
THEOREM StateCoherent == Spec => []StateIsCoherent
  <1>1. IInv => StateIsCoherent
    BY DEF IInv
  <1> QED
    BY <1>1, Invariance, PTL

\* A reload never publishes an older config than the one it replaces.
THEOREM NeverOlder == Spec => NeverGoesBack
  <1>1. IInv /\ [Next]_vars => [state'.config.version >= state.config.version]_state
    BY StepInv
  <1> QED
    BY <1>1, Invariance, PTL DEF Spec, NeverGoesBack

----------------------------------------------------------------------------
(* ConfigLoad *)

\* What the loop over [[sasl]] has collected from the entries before n: those
\* that are not the default, in their order, and the default.
CollectedOK(limits, default, n) ==
    /\ \A j \in 1 .. Len(limits) :
        /\ limits[j].plan \in 1 .. n /\ limits[j].plan \in Indices \ Defaults
        /\ limits[j].matches = rules[limits[j].plan].matches
    /\ \A j, k \in 1 .. Len(limits) : j < k => limits[j].plan < limits[k].plan
    /\ \A i \in 1 .. n :
        /\ Fault(rules[i]) = "none"
        /\ i \in Defaults => default = i
        /\ i \notin Defaults => \E j \in 1 .. Len(limits) : limits[j].plan = i
    /\ default # 0 => default \in 1 .. n /\ default \in Defaults
    /\ Len(limits) = n - IF default = 0 THEN 0 ELSE 1

\* The checks passed so far.
CheckedOK ==
    /\ pc # "done" => result = [status |-> "none"]
    /\ pc \in {"read", "url", "password", "defaults"} => index = 1
    /\ pc \in {"read", "url"} => config.password = "none"
    /\ pc = "password" => (config.password = "none" <=> raw.url # "password")
    /\ (pc \in {"defaults", "rules"} \/ Ok) =>
        ~ (raw.url = "password" /\ raw.password_file # Absent)
    /\ (pc = "rules" \/ Ok) => DefaultsOk
    /\ Ok => index = Len(rules) + 1 /\ raw.control_socket # "socket"

\* An error that names a rule names the one that the loop is at.
NamedOK ==
    (result.status \in Errors /\ result.index # 0) =>
        result.index = index /\ index \in Indices /\ Fault(rules[index]) # "none"

\* An entry of sasl_limits, and a config that is being put together.
Collected == [matches : SUBSET Users, plan : Indices]
PartialConfig ==
    [password : {"none", "url", "file"}, sasl_limits : Seq(Collected),
     default_plan : {0} \cup Indices]

\* The inductive invariant.
LoadInv ==
    /\ LoadTypeOK /\ config \in PartialConfig
    /\ CollectedOK(config.sasl_limits, config.default_plan, index - 1)
    /\ CheckedOK
    /\ NamedOK

\* The least element of a set of naturals, for Min.
LEMMA LeastNatural ==
    ASSUME NEW S, S \subseteq Nat, S # {}
    PROVE  \E x \in S : \A y \in S : x <= y
  <1> DEFINE R == OpToRel(<, Nat)
  <1>1. \A x, y \in Nat : <<x, y>> \in R <=> x < y
    BY DEF OpToRel
  <1>2. IsWellFoundedOn(R, Nat)
    BY NatLessThanWellFounded
  <1> HIDE DEF R
  <1>3. PICK x \in S : \A y \in S : ~ (<<y, x>> \in R)
    BY <1>2, WFMin
  <1>4. ASSUME NEW y \in S PROVE x <= y
    <2>1. x \in Nat /\ y \in Nat /\ ~ (<<y, x>> \in R)
      BY <1>3
    <2>2. ~ (y < x)
      BY <1>1, <2>1
    <2> QED
      BY <2>1, <2>2
  <1> QED
    BY <1>4

\* Min finds it.
LEMMA MinFacts ==
    ASSUME NEW S, S \subseteq Nat, S # {}
    PROVE  Min(S) \in S /\ \A y \in S : Min(S) <= y
  <1>1. \E x \in S : \A y \in S : x <= y
    BY LeastNatural
  <1> QED
    BY <1>1 DEF Min

\* Nothing else is the least.
LEMMA MinIs ==
    ASSUME NEW S, S \subseteq Nat, NEW x \in S, \A y \in S : x <= y
    PROVE  Min(S) = x
  <1>1. Min(S) \in S /\ Min(S) <= x
    BY MinFacts
  <1>2. Min(S) \in Nat /\ x \in Nat /\ x <= Min(S)
    BY <1>1
  <1> QED
    BY <1>1, <1>2

\* What is wrong with a rule, if anything.
LEMMA FaultFacts ==
    ASSUME NEW r \in Rule
    PROVE  /\ Fault(r) # "none" => Fault(r) \in Errors
           /\ Fault(r) = "none" <=> r.plan = "ok" /\ ~ (r.type # "default" /\ r.malformed)
           /\ r.plan \in {"ok", "error"}
           /\ r.type # "default" => r.matches \in SUBSET Users /\ r.malformed \in BOOLEAN
  <1>1. CASE r \in [type : {"username", "regex"}, matches : SUBSET Users, malformed : BOOLEAN,
                    plan : {"ok", "error"}]
    BY <1>1 DEF Fault, Errors
  <1>2. CASE r \in [type : {"default"}, plan : {"ok", "error"}]
    BY <1>2 DEF Fault, Errors
  <1> QED
    BY <1>1, <1>2 DEF Rule

\* The rules of a file and the loop's position.
LEMMA LoadTypes ==
    ASSUME LoadTypeOK
    PROVE  /\ raw \in RawConfig /\ rules \in Seq(Rule) /\ Len(rules) \in Nat
           /\ Indices = 1 .. Len(rules) /\ \A i \in Indices : rules[i] \in Rule
           /\ index \in Nat /\ 1 <= index /\ index <= Len(rules) + 1
           /\ Defaults \subseteq Indices
           /\ \A i \in Indices : i \in Defaults <=> rules[i].type = "default"
  <1>1. raw \in RawConfig /\ rules \in Seq(Rule) /\ Len(rules) \in Nat
    BY DEF LoadTypeOK, RawConfig, rules
  <1>2. \A i \in 1 .. Len(rules) : rules[i] \in Rule
    BY <1>1
  <1>3. index \in Nat /\ 1 <= index /\ index <= Len(rules) + 1
    BY <1>1 DEF LoadTypeOK
  <1> QED
    BY <1>1, <1>2, <1>3 DEF Indices, Defaults

\* With one default, Defaults is that one.
LEMMA OneDefault ==
    ASSUME LoadTypeOK, DefaultsOk
    PROVE  \E d \in Indices : Defaults = {d}
  <1>1. IsFiniteSet(Defaults)
    <2>1. IsFiniteSet(Indices)
      BY LoadTypes, FS_Interval
    <2> QED
      BY <2>1, LoadTypes, FS_Subset
  <1>2. \E d : Defaults = {d}
    BY <1>1, FS_Singleton DEF DefaultsOk
  <1> QED
    BY <1>2, LoadTypes

\* LoadInv holds before the file is read.
LEMMA LoadInitInv == LoadInit => LoadInv
  <1> SUFFICES ASSUME LoadInit PROVE LoadInv
    OBVIOUS
  <1>1. raw \in RawConfig
    BY FilesAssumption DEF LoadInit
  <1>2. rules \in Seq(Rule) /\ Len(rules) \in Nat
    BY <1>1 DEF rules, RawConfig
  <1>3. /\ config.password = "none" /\ config.sasl_limits = << >> /\ config.default_plan = 0
        /\ index = 1 /\ pc = "read" /\ result = [status |-> "none"]
    BY DEF LoadInit
  <1>4. Len(config.sasl_limits) = 0 /\ config.sasl_limits \in Seq(Collected)
    BY <1>3
  <1>5. config \in PartialConfig
    BY <1>4 DEF LoadInit, PartialConfig
  <1>6. index \in 1 .. Len(rules) + 1
    BY <1>2, <1>3
  <1>7. LoadTypeOK
    BY <1>1, <1>3, <1>4, <1>6 DEF LoadTypeOK, Collected
  <1>8. CollectedOK(config.sasl_limits, config.default_plan, index - 1)
    BY <1>3, <1>4 DEF CollectedOK
  <1>9. result.status = "none"
    BY <1>3
  <1>10. CheckedOK /\ NamedOK
    BY <1>3, <1>9 DEF CheckedOK, NamedOK, Ok, Errors
  <1> QED
    BY <1>5, <1>7, <1>8, <1>10 DEF LoadInv

\* A check fails, or the file is accepted: the loop stays where it is.
LEMMA EndInv ==
    ASSUME LoadInv, pc # "done", pc' = "done", UNCHANGED <<raw, index, config>>,
           \/ \E error \in Errors : result' = [status |-> error, index |-> 0]
           \/ /\ index \in Indices /\ Fault(rules[index]) \in Errors
              /\ result' = [status |-> Fault(rules[index]), index |-> index]
           \/ /\ result' = [status |-> "Ok"] /\ pc = "rules" /\ index = Len(rules) + 1
              /\ raw.control_socket # "socket"
    PROVE  LoadInv'
  <1>1. UNCHANGED <<rules, Indices, Defaults, DefaultsOk>>
    BY DEF rules, Indices, Defaults, DefaultsOk
  <1>2. result' \in {[status |-> "none"], [status |-> "Ok"]}
                    \cup [status : Errors, index : {0} \cup Indices]
    OBVIOUS
  <1>3. LoadTypeOK' /\ (config \in PartialConfig)'
    BY <1>1, <1>2 DEF LoadInv, LoadTypeOK, PartialConfig, Collected
  <1>4. CollectedOK(config.sasl_limits, config.default_plan, index - 1)'
    BY <1>1 DEF LoadInv, CollectedOK
  <1>5. result'.status = "Ok" => /\ pc = "rules" /\ index = Len(rules) + 1
                                 /\ raw.control_socket # "socket"
    BY DEF Errors
  <1>6. CheckedOK'
    BY <1>1, <1>5 DEF LoadInv, CheckedOK, Ok
  <1>7. NamedOK'
    <2>1. CASE \E error \in Errors : result' = [status |-> error, index |-> 0]
      BY <2>1 DEF NamedOK
    <2>2. CASE /\ index \in Indices /\ Fault(rules[index]) \in Errors
               /\ result' = [status |-> Fault(rules[index]), index |-> index]
      <3>1. Fault(rules[index]) # "none"
        BY <2>2 DEF Errors
      <3> QED
        BY <1>1, <2>2, <3>1 DEF NamedOK
    <2>3. CASE result' = [status |-> "Ok"]
      BY <2>3 DEF NamedOK, Errors
    <2> QED
      BY <2>1, <2>2, <2>3
  <1> QED
    BY <1>3, <1>4, <1>6, <1>7 DEF LoadInv

\* A check is passed; only the password may have been noted.
LEMMA ProceedInv ==
    ASSUME LoadInv, NEW next \in {"url", "password", "defaults", "rules"}, Proceed(next),
           pc \in {"read", "url", "password", "defaults"},
           config' \in PartialConfig,
           config'.sasl_limits = config.sasl_limits, config'.default_plan = config.default_plan,
           next = "url" => config'.password = "none",
           next = "password" => (config'.password = "none" <=> raw.url # "password"),
           next \in {"defaults", "rules"} =>
               ~ (raw.url = "password" /\ raw.password_file # Absent),
           next = "rules" => DefaultsOk
    PROVE  LoadInv'
  <1>1. /\ pc' = next /\ UNCHANGED <<raw, index, result>>
        /\ UNCHANGED <<rules, Indices, Defaults, DefaultsOk>>
    BY DEF Proceed, rules, Indices, Defaults, DefaultsOk
  <1>2. (config \in PartialConfig)'
    BY <1>1 DEF PartialConfig, Collected
  <1>3. LoadTypeOK'
    <2>1. /\ config'.password \in {"none", "url", "file"}
          /\ config'.sasl_limits \in Seq([matches : SUBSET Users, plan : Indices])
          /\ config'.default_plan \in {0} \cup Indices
      BY DEF PartialConfig, Collected
    <2> QED
      BY <1>1, <2>1 DEF LoadInv, LoadTypeOK
  <1>4. CollectedOK(config.sasl_limits, config.default_plan, index - 1)'
    BY <1>1 DEF LoadInv, CollectedOK
  <1>5. result = [status |-> "none"] /\ index = 1
    BY DEF LoadInv, CheckedOK
  <1>6. result.status = "none"
    BY <1>5
  <1>7. CheckedOK'
    BY <1>1, <1>5, <1>6 DEF CheckedOK, Ok
  <1>8. NamedOK'
    BY <1>1, <1>6 DEF NamedOK, Errors
  <1> QED
    BY <1>2, <1>3, <1>4, <1>7, <1>8 DEF LoadInv

\* The checks before the rules.
LEMMA SettingsInv ==
    ASSUME LoadInv, ReadAndParse \/ ParseUrl \/ ReadPassword \/ CountDefaults
    PROVE  LoadInv'
  <1>0. /\ config \in PartialConfig /\ raw \in RawConfig /\ CheckedOK
        /\ \A error \in Errors : Fail(error, 0) =>
            /\ pc' = "done" /\ result' = [status |-> error, index |-> 0]
            /\ UNCHANGED <<raw, index, config>>
    BY DEF LoadInv, LoadTypeOK, Fail
  <1>1. ASSUME pc # "done", \E error \in Errors : Fail(error, 0) PROVE LoadInv'
    BY <1>0, <1>1, EndInv
  <1>2. CASE ReadAndParse
    <2>1. CASE Proceed("url") /\ UNCHANGED config
      BY <1>0, <1>2, <2>1, ProceedInv DEF ReadAndParse, CheckedOK
    <2>2. CASE Fail("Read", 0) \/ Fail("Parse", 0)
      BY <1>1, <1>2, <2>2 DEF ReadAndParse, Errors
    <2> QED
      BY <1>2, <2>1, <2>2 DEF ReadAndParse
  <1>3. CASE ParseUrl
    <2>1. CASE /\ config' = [config EXCEPT !.password = IF raw.url = "password" THEN "url" ELSE @]
               /\ Proceed("password")
      <3>1. config.password = "none"
        BY <1>0, <1>3 DEF ParseUrl, CheckedOK
      <3>2. /\ config' \in PartialConfig
            /\ config'.sasl_limits = config.sasl_limits
            /\ config'.default_plan = config.default_plan
            /\ config'.password = "none" <=> raw.url # "password"
        BY <1>0, <2>1, <3>1 DEF PartialConfig
      <3> QED
        BY <1>3, <2>1, <3>2, ProceedInv DEF ParseUrl
    <2>2. CASE Fail("BadRedisUrl", 0)
      BY <1>1, <1>3, <2>2 DEF ParseUrl, Errors
    <2> QED
      BY <1>3, <2>1, <2>2 DEF ParseUrl
  <1>4. CASE ReadPassword
    <2>1. CASE raw.password_file = Absent /\ Proceed("defaults") /\ UNCHANGED config
      BY <1>0, <1>4, <2>1, ProceedInv DEF ReadPassword
    <2>2. CASE Fail("AmbiguousPassword", 0) \/ Fail("ReadPasswordFile", 0)
      BY <1>1, <1>4, <2>2 DEF ReadPassword, Errors
    <2>3. CASE /\ ~ Ambiguous /\ config' = [config EXCEPT !.password = "file"]
               /\ Proceed("defaults")
      <3>1. raw.url # "password"
        BY <1>0, <1>4, <2>3 DEF ReadPassword, Ambiguous, CheckedOK
      <3>2. /\ config' \in PartialConfig
            /\ config'.sasl_limits = config.sasl_limits
            /\ config'.default_plan = config.default_plan
        BY <1>0, <2>3 DEF PartialConfig
      <3> QED
        BY <1>4, <2>3, <3>1, <3>2, ProceedInv DEF ReadPassword
    <2> QED
      BY <1>4, <2>1, <2>2, <2>3 DEF ReadPassword
  <1>5. CASE CountDefaults
    <2>1. CASE DefaultsOk /\ Proceed("rules") /\ UNCHANGED config
      BY <1>0, <1>5, <2>1, ProceedInv DEF CountDefaults, CheckedOK
    <2>2. CASE Fail("DefaultCount", 0)
      BY <1>1, <1>5, <2>2 DEF CountDefaults, Errors
    <2> QED
      BY <1>5, <2>1, <2>2 DEF CountDefaults
  <1> QED
    BY <1>2, <1>3, <1>4, <1>5

\* The loop takes an entry that is a username or a regex.
LEMMA AppendCollected ==
    ASSUME LoadTypeOK, NEW limits \in Seq(Collected), NEW default, NEW n \in Nat,
           CollectedOK(limits, default, n), n + 1 \in Indices \ Defaults,
           Fault(rules[n + 1]) = "none", default \in Nat,
           NEW new, new = [matches |-> rules[n + 1].matches, plan |-> n + 1]
    PROVE  /\ Append(limits, new) \in Seq(Collected)
           /\ CollectedOK(Append(limits, new), default, n + 1)
  <1> DEFINE after == Append(limits, new)
             m == Len(limits)
  <1>1. new \in Collected /\ new.matches = rules[n + 1].matches /\ new.plan = n + 1
    BY LoadTypes, FaultFacts DEF Collected
  <1>2. m \in Nat /\ \A j \in 1 .. m : limits[j] \in Collected
    OBVIOUS
  <1>3. /\ after \in Seq(Collected) /\ Len(after) = m + 1 /\ after[m + 1] = new
        /\ \A j \in 1 .. m : after[j] = limits[j]
    BY <1>1, AppendProperties
  <1> HIDE DEF after, m
  <1>4. \A j \in 1 .. m + 1 : j \in 1 .. m \/ j = m + 1
    BY <1>2
  <1>5. \A i \in 1 .. n + 1 : i \in 1 .. n \/ i = n + 1
    OBVIOUS
  <1>6. ASSUME NEW j \in 1 .. m
        PROVE  /\ limits[j].plan \in 1 .. n /\ limits[j].plan \in Indices \ Defaults
               /\ limits[j].matches = rules[limits[j].plan].matches
    BY DEF CollectedOK, m
  <1>7. ASSUME NEW j \in 1 .. m + 1
        PROVE  /\ after[j].plan \in 1 .. n + 1 /\ after[j].plan \in Indices \ Defaults
               /\ after[j].matches = rules[after[j].plan].matches
    <2>1. CASE j \in 1 .. m
      BY <1>3, <1>6, <2>1
    <2>2. CASE j = m + 1
      BY <1>1, <1>3, <2>2
    <2> QED
      BY <1>4, <2>1, <2>2
  <1>8. ASSUME NEW j \in 1 .. m + 1, NEW k \in 1 .. m + 1, j < k
        PROVE  after[j].plan < after[k].plan
    <2>1. j \in 1 .. m
      BY <1>2, <1>8
    <2>2. CASE k \in 1 .. m
      BY <1>3, <1>8, <2>1, <2>2 DEF CollectedOK, m
    <2>3. CASE k = m + 1
      <3>1. after[k].plan = n + 1 /\ after[j].plan \in 1 .. n
        BY <1>1, <1>3, <1>6, <2>1, <2>3
      <3> QED
        BY <3>1
    <2> QED
      BY <1>4, <2>2, <2>3
  <1>9. ASSUME NEW i \in 1 .. n + 1
        PROVE  /\ Fault(rules[i]) = "none"
               /\ i \in Defaults => default = i
               /\ i \notin Defaults => \E j \in 1 .. m + 1 : after[j].plan = i
    <2>1. CASE i \in 1 .. n
      <3>1. /\ Fault(rules[i]) = "none" /\ (i \in Defaults => default = i)
            /\ i \notin Defaults => \E j \in 1 .. m : limits[j].plan = i
        BY <2>1 DEF CollectedOK, m
      <3>2. \A j \in 1 .. m : j \in 1 .. m + 1 /\ after[j] = limits[j]
        BY <1>2, <1>3
      <3> QED
        BY <3>1, <3>2
    <2>2. CASE i = n + 1
      <3>1. m + 1 \in 1 .. m + 1 /\ after[m + 1].plan = i
        BY <1>1, <1>2, <1>3, <2>2
      <3> QED
        BY <2>2, <3>1
    <2> QED
      BY <1>5, <2>1, <2>2
  <1>10. default # 0 => default \in 1 .. n + 1 /\ default \in Defaults
    BY DEF CollectedOK
  <1>11. m + 1 = n + 1 - IF default = 0 THEN 0 ELSE 1
    BY <1>2 DEF CollectedOK, m
  <1>12. CollectedOK(after, default, n + 1)
    BY <1>3, <1>7, <1>8, <1>9, <1>10, <1>11 DEF CollectedOK
  <1> QED
    BY <1>3, <1>12 DEF after

\* The loop takes the default.
LEMMA DefaultCollected ==
    ASSUME LoadTypeOK, DefaultsOk, NEW limits \in Seq(Collected), NEW default \in Nat,
           NEW n \in Nat, CollectedOK(limits, default, n), n + 1 \in Defaults,
           Fault(rules[n + 1]) = "none"
    PROVE  CollectedOK(limits, n + 1, n + 1)
  <1>1. PICK d \in Indices : Defaults = {d}
    BY OneDefault
  <1>2. default = 0 /\ d = n + 1
    BY <1>1 DEF CollectedOK
  <1>3. \A i \in 1 .. n + 1 : i \in 1 .. n \/ i = n + 1
    OBVIOUS
  <1>4. \A i \in 1 .. n : i \in 1 .. n + 1 /\ i \notin Defaults
    BY <1>1, <1>2
  <1>5. Len(limits) \in Nat /\ Len(limits) = n
    BY <1>2 DEF CollectedOK
  <1>6. Len(limits) = n + 1 - IF n + 1 = 0 THEN 0 ELSE 1
    BY <1>5
  <1>7. \A j \in 1 .. Len(limits) : limits[j].plan \in 1 .. n + 1
    BY <1>4 DEF CollectedOK
  <1>8. \A i \in 1 .. n + 1 :
            /\ Fault(rules[i]) = "none"
            /\ i \in Defaults => n + 1 = i
            /\ i \notin Defaults => \E j \in 1 .. Len(limits) : limits[j].plan = i
    BY <1>1, <1>2, <1>3 DEF CollectedOK
  <1>9. \A j \in 1 .. Len(limits) :
            /\ limits[j].plan \in Indices \ Defaults
            /\ limits[j].matches = rules[limits[j].plan].matches
    BY DEF CollectedOK
  <1>10. \A j, k \in 1 .. Len(limits) : j < k => limits[j].plan < limits[k].plan
    BY DEF CollectedOK
  <1>11. n + 1 \in 1 .. n + 1 /\ n + 1 \in Defaults
    OBVIOUS
  <1> QED
    BY <1>6, <1>7, <1>8, <1>9, <1>10, <1>11 DEF CollectedOK

\* The loop over the rules and its end.
LEMMA RulesInv == ASSUME LoadInv, AddRule \/ Finish PROVE LoadInv'
  <1> DEFINE n == index - 1
             r == rules[index]
  <1>0. /\ LoadTypeOK /\ config \in PartialConfig
        /\ CollectedOK(config.sasl_limits, config.default_plan, n) /\ CheckedOK /\ NamedOK
    BY DEF LoadInv
  <1>1. /\ index \in Nat /\ 1 <= index /\ index <= Len(rules) + 1 /\ Len(rules) \in Nat
        /\ n \in Nat /\ n + 1 = index /\ Indices = 1 .. Len(rules)
        /\ config.sasl_limits \in Seq(Collected) /\ config.default_plan \in Nat
    BY <1>0, LoadTypes DEF PartialConfig
  <1>2. CASE AddRule
    <2>1. pc = "rules" /\ index \in Indices /\ r \in Rule
      BY <1>0, <1>2, LoadTypes DEF AddRule
    <2>2. DefaultsOk /\ result = [status |-> "none"]
          /\ ~ (raw.url = "password" /\ raw.password_file # Absent)
      BY <1>0, <2>1 DEF CheckedOK
    <2>3. CASE Fault(r) # "none" /\ Fail(Fault(r), Number)
      <3>1. Fault(r) \in Errors
        BY <2>1, <2>3, FaultFacts
      <3>2. /\ pc' = "done" /\ UNCHANGED <<raw, index, config>>
            /\ result' = [status |-> Fault(r), index |-> index]
        BY <2>3 DEF Fail, Number
      <3> QED
        BY <2>1, <3>1, <3>2, EndInv
    <2>4. CASE /\ Fault(r) = "none"
               /\ config' = IF r.type = "default"
                            THEN [config EXCEPT !.default_plan = index]
                            ELSE [config EXCEPT !.sasl_limits =
                                     Append(@, [matches |-> r.matches, plan |-> index])]
               /\ index' = index + 1
               /\ UNCHANGED <<raw, pc, result>>
      <3>1. UNCHANGED <<rules, Indices, Defaults, DefaultsOk>>
        BY <2>4 DEF rules, Indices, Defaults, DefaultsOk
      <3>2. (config' \in PartialConfig) /\ CollectedOK(config'.sasl_limits, config'.default_plan, index)
        <4>1. CASE r.type = "default"
          <5>1. config' = [config EXCEPT !.default_plan = index]
            BY <2>4, <4>1
          <5>2. /\ config' \in PartialConfig /\ config'.default_plan = index
                /\ config'.sasl_limits = config.sasl_limits
            BY <1>0, <2>1, <5>1 DEF PartialConfig
          <5>3. n + 1 \in Defaults
            BY <1>0, <1>1, <2>1, <4>1, LoadTypes
          <5>4. CollectedOK(config.sasl_limits, n + 1, n + 1)
            BY <1>0, <1>1, <2>2, <2>4, <5>3, DefaultCollected
          <5> QED
            BY <1>1, <5>2, <5>4
        <4>2. CASE r.type # "default"
          <5> DEFINE new == [matches |-> r.matches, plan |-> index]
          <5>1. config' = [config EXCEPT !.sasl_limits = Append(config.sasl_limits, new)]
            BY <2>4, <4>2
          <5>2. n + 1 \in Indices \ Defaults
            BY <1>0, <1>1, <2>1, <4>2, LoadTypes
          <5>3. new = [matches |-> rules[n + 1].matches, plan |-> n + 1]
            BY <1>1
          <5> HIDE DEF new
          <5>4. /\ Append(config.sasl_limits, new) \in Seq(Collected)
                /\ CollectedOK(Append(config.sasl_limits, new), config.default_plan, n + 1)
            BY <1>0, <1>1, <2>4, <5>2, <5>3, AppendCollected
          <5>5. /\ config' \in PartialConfig /\ config'.default_plan = config.default_plan
                /\ config'.sasl_limits = Append(config.sasl_limits, new)
            BY <1>0, <5>1, <5>4 DEF PartialConfig
          <5> QED
            BY <1>1, <5>4, <5>5
        <4> QED
          BY <4>1, <4>2
      <3>3. index' - 1 = index /\ index' \in 1 .. Len(rules) + 1
        BY <1>1, <2>1, <2>4
      <3>4. (config \in PartialConfig)'
        BY <3>1, <3>2 DEF PartialConfig, Collected
      <3>5. LoadTypeOK'
        <4>1. /\ config'.password \in {"none", "url", "file"}
              /\ config'.sasl_limits \in Seq([matches : SUBSET Users, plan : Indices])
              /\ config'.default_plan \in {0} \cup Indices
          BY <3>2 DEF PartialConfig, Collected
        <4> QED
          BY <1>0, <2>4, <3>1, <3>3, <4>1 DEF LoadTypeOK
      <3>6. CollectedOK(config.sasl_limits, config.default_plan, index - 1)'
        <4> DEFINE limits == config'.sasl_limits
                   default == config'.default_plan
        <4>1. CollectedOK(limits, default, index' - 1)
          BY <3>2, <3>3
        <4> HIDE DEF limits, default
        <4>2. /\ \A j \in 1 .. Len(limits) :
                    /\ limits[j].plan \in 1 .. index' - 1 /\ limits[j].plan \in Indices' \ Defaults'
                    /\ limits[j].matches = rules'[limits[j].plan].matches
              /\ \A j, k \in 1 .. Len(limits) : j < k => limits[j].plan < limits[k].plan
              /\ \A i \in 1 .. index' - 1 :
                    /\ Fault(rules'[i]) = "none"
                    /\ i \in Defaults' => default = i
                    /\ i \notin Defaults' => \E j \in 1 .. Len(limits) : limits[j].plan = i
              /\ default # 0 => default \in 1 .. index' - 1 /\ default \in Defaults'
              /\ Len(limits) = index' - 1 - IF default = 0 THEN 0 ELSE 1
          BY <3>1, <4>1 DEF CollectedOK
        <4> QED
          BY <4>2 DEF CollectedOK, limits, default
      <3>7. result.status = "none"
        BY <2>2
      <3>8. CheckedOK'
        BY <2>1, <2>2, <2>4, <3>1, <3>7 DEF CheckedOK, Ok
      <3>9. NamedOK'
        BY <2>4, <3>7 DEF NamedOK, Errors
      <3> QED
        BY <3>4, <3>5, <3>6, <3>8, <3>9 DEF LoadInv
    <2> QED
      BY <1>2, <2>3, <2>4 DEF AddRule
  <1>3. CASE Finish
    <2>1. pc = "rules" /\ index = Len(rules) + 1
      BY <1>1, <1>3 DEF Finish
    <2>2. CASE Fail("ControlSocketSameAsSocket", 0)
      <3>1. /\ pc' = "done" /\ UNCHANGED <<raw, index, config>>
            /\ result' = [status |-> "ControlSocketSameAsSocket", index |-> 0]
            /\ "ControlSocketSameAsSocket" \in Errors
        BY <2>2 DEF Fail, Errors
      <3> QED
        BY <2>1, <3>1, EndInv
    <2>3. CASE /\ raw.control_socket # "socket" /\ pc' = "done"
               /\ result' = [status |-> "Ok"] /\ UNCHANGED <<raw, index, config>>
      BY <2>1, <2>3, EndInv
    <2> QED
      BY <1>3, <2>2, <2>3 DEF Finish
  <1> QED
    BY <1>2, <1>3

\* Every check of Config::load preserves LoadInv.
LEMMA LoadNextInv == LoadInv /\ [LoadNext]_loadVars => LoadInv'
  <1> SUFFICES ASSUME LoadInv, [LoadNext]_loadVars PROVE LoadInv'
    OBVIOUS
  <1>1. CASE UNCHANGED loadVars
    <2>1. UNCHANGED <<raw, pc, index, config, result>>
      BY <1>1 DEF loadVars
    <2>2. UNCHANGED <<rules, Indices, Defaults, DefaultsOk>>
      BY <2>1 DEF rules, Indices, Defaults, DefaultsOk
    <2>3. LoadTypeOK' /\ (config \in PartialConfig)'
      BY <2>1, <2>2 DEF LoadInv, LoadTypeOK, PartialConfig, Collected
    <2>4. CollectedOK(config.sasl_limits, config.default_plan, index - 1)'
      BY <2>1, <2>2 DEF LoadInv, CollectedOK
    <2>5. CheckedOK' /\ NamedOK'
      BY <2>1, <2>2 DEF LoadInv, CheckedOK, NamedOK, Ok
    <2> QED
      BY <2>3, <2>4, <2>5 DEF LoadInv
  <1> QED
    BY <1>1, SettingsInv, RulesInv DEF LoadNext

\* LoadInv holds throughout Config::load.
LEMMA LoadInvariance == LoadSpec => []LoadInv
  BY LoadInitInv, LoadNextInv, PTL DEF LoadSpec

\* A file that is accepted gives every user the plan of the first entry that
\* matches, wherever the default stands, for any number of rules and users:
\* Config::load shifts no plan to another rule and plan_for takes the first.
THEOREM FirstMatch == LoadSpec => []FirstMatchWins
  <1>1. LoadInv => FirstMatchWins
    <2> SUFFICES ASSUME LoadInv PROVE FirstMatchWins
      OBVIOUS
    <2> DEFINE limits == config.sasl_limits
               default == config.default_plan
    <2>0. LoadTypeOK
      BY DEF LoadInv
    <2>1. ASSUME Ok, NEW u \in Users
          PROVE  LET matching == {i \in Indices \ Defaults : u \in rules[i].matches}
                 IN  PlanFor(u) = IF matching = {} THEN CHOOSE i \in Defaults : TRUE
                                  ELSE Min(matching)
      <3> DEFINE found == Matching(u)
                 matching == {i \in Indices \ Defaults : u \in rules[i].matches}
      <3>1. /\ Len(rules) \in Nat /\ Indices = 1 .. Len(rules)
            /\ CollectedOK(limits, default, Len(rules))
            /\ DefaultsOk /\ limits \in Seq(Collected) /\ Len(limits) \in Nat
        <4>1. index = Len(rules) + 1 /\ DefaultsOk
          BY <2>1 DEF LoadInv, CheckedOK
        <4>2. Len(rules) \in Nat /\ Indices = 1 .. Len(rules)
          BY <2>0, LoadTypes
        <4>3. index - 1 = Len(rules)
          BY <4>1, <4>2
        <4> QED
          BY <4>1, <4>2, <4>3 DEF LoadInv, PartialConfig
      <3>2. ASSUME NEW j \in 1 .. Len(limits)
            PROVE  /\ limits[j].plan \in Indices \ Defaults
                   /\ limits[j].matches = rules[limits[j].plan].matches
        BY <3>1 DEF CollectedOK
      <3>3. ASSUME NEW i \in Indices \ Defaults
            PROVE  \E j \in 1 .. Len(limits) : limits[j].plan = i
        BY <3>1 DEF CollectedOK
      <3>4. found = {j \in 1 .. Len(limits) : u \in limits[j].matches}
        BY DEF Matching
      <3>5. \A j \in found : limits[j].plan \in matching
        BY <3>2, <3>4
      <3>6. \A i \in matching : \E j \in found : limits[j].plan = i
        BY <3>2, <3>3, <3>4
      <3>7. CASE found = {}
        <4>1. matching = {} /\ PlanFor(u) = default
          BY <3>6, <3>7 DEF PlanFor
        <4>2. PICK d \in Indices : Defaults = {d}
          BY <2>0, <3>1, OneDefault
        <4>3. default = d
          BY <3>1, <4>2 DEF CollectedOK
        <4>4. (CHOOSE i \in Defaults : TRUE) = d
          BY <4>2
        <4> QED
          BY <4>1, <4>3, <4>4
      <3>8. CASE found # {}
        <4> DEFINE m == Min(found)
                   p == limits[m].plan
        <4>1. found \subseteq Nat
          BY <3>4
        <4>2. m \in found /\ \A j \in found : m <= j
          BY <3>8, <4>1, MinFacts
        <4>3. PlanFor(u) = p
          BY <3>8 DEF PlanFor
        <4>4. p \in matching /\ matching \subseteq Nat
          BY <3>1, <3>5, <4>2
        <4>5. ASSUME NEW i \in matching PROVE p <= i
          <5>1. PICK j \in found : limits[j].plan = i
            BY <3>6
          <5>2. /\ m \in 1 .. Len(limits) /\ j \in 1 .. Len(limits) /\ m <= j
                /\ p \in Nat /\ i \in Nat
            BY <3>4, <4>2, <4>4
          <5>3. CASE m = j
            BY <5>1, <5>2, <5>3
          <5>4. CASE m < j
            <6>1. limits[m].plan < limits[j].plan
              BY <3>1, <5>2, <5>4 DEF CollectedOK
            <6> QED
              BY <5>1, <5>2, <6>1
          <5> QED
            BY <5>2, <5>3, <5>4
        <4> HIDE DEF matching, p
        <4>6. Min(matching) = p
          BY <4>4, <4>5, MinIs
        <4> QED
          BY <4>3, <4>4, <4>6 DEF matching
      <3> QED
        BY <3>7, <3>8
    <2> QED
      BY <2>0, <2>1 DEF FirstMatchWins
  <1> QED
    BY <1>1, LoadInvariance, PTL

\* Config::load accepts a file only if it has no fault, and an error that
\* names a rule names the first one at fault, for files of any length.
THEOREM NothingPassedOver == LoadSpec => []NothingIsPassedOver
  <1>1. LoadInv => NothingIsPassedOver
    <2> SUFFICES ASSUME LoadInv PROVE NothingIsPassedOver
      OBVIOUS
    <2>0. /\ Len(rules) \in Nat /\ Indices = 1 .. Len(rules)
          /\ \A i \in Indices : rules[i] \in Rule
          /\ \A i \in Indices : i \in Defaults <=> rules[i].type = "default"
          /\ index \in Nat /\ 1 <= index /\ LoadTypeOK
      BY LoadTypes DEF LoadInv
    <2>1. ASSUME Ok
          PROVE  /\ Cardinality(Defaults) = 1
                 /\ Len(config.sasl_limits) = Len(rules) - 1
                 /\ \A i \in Indices : rules[i].plan = "ok"
                 /\ \A i \in Indices \ Defaults : ~ rules[i].malformed
                 /\ raw.control_socket # "socket"
                 /\ ~ (raw.url = "password" /\ raw.password_file # Absent)
      <3>1. /\ index = Len(rules) + 1 /\ DefaultsOk /\ raw.control_socket # "socket"
            /\ ~ (raw.url = "password" /\ raw.password_file # Absent)
        BY <2>1 DEF LoadInv, CheckedOK
      <3>2. index - 1 = Len(rules)
        BY <2>0, <3>1
      <3>3. CollectedOK(config.sasl_limits, config.default_plan, Len(rules))
        BY <3>2 DEF LoadInv
      <3>4. PICK d \in Indices : Defaults = {d}
        BY <2>0, <3>1, OneDefault
      <3>5. config.default_plan = d /\ d # 0
        <4>1. d \in 1 .. Len(rules) /\ d \in Defaults /\ d # 0
          BY <2>0, <3>4
        <4> QED
          BY <3>3, <4>1 DEF CollectedOK
      <3>6. Len(config.sasl_limits) = Len(rules) - 1
        BY <3>3, <3>5 DEF CollectedOK
      <3>7. \A i \in Indices : Fault(rules[i]) = "none"
        BY <2>0, <3>3 DEF CollectedOK
      <3>8. \A i \in Indices : rules[i].plan = "ok" /\ ~ (rules[i].type # "default" /\ rules[i].malformed)
        BY <2>0, <3>7, FaultFacts
      <3> QED
        BY <2>0, <3>1, <3>6, <3>8 DEF DefaultsOk
    <2>2. ASSUME result.status \in Errors, result.index # 0
          PROVE  LET faulty == {i \in Indices : rules[i].plan = "error"
                                    \/ (rules[i].type # "default" /\ rules[i].malformed)}
                 IN  result.index = Min(faulty)
      <3> DEFINE faulty == {i \in Indices : rules[i].plan = "error"
                                \/ (rules[i].type # "default" /\ rules[i].malformed)}
      <3>1. result.index = index /\ index \in Indices /\ Fault(rules[index]) # "none"
        BY <2>2 DEF LoadInv, NamedOK
      <3>2. \A i \in Indices : i \in faulty <=> Fault(rules[i]) # "none"
        BY <2>0, FaultFacts
      <3>3. \A i \in 1 .. index - 1 : Fault(rules[i]) = "none"
        BY DEF LoadInv, CollectedOK
      <3>4. faulty \subseteq Indices
        OBVIOUS
      <3> HIDE DEF faulty
      <3>5. ASSUME NEW i \in faulty PROVE index <= i
        <4>1. i \in Indices /\ Fault(rules[i]) # "none"
          BY <3>2, <3>4
        <4>2. i \notin 1 .. index - 1
          BY <3>3, <4>1
        <4> QED
          BY <2>0, <4>1, <4>2
      <3>6. faulty \subseteq Nat /\ index \in faulty
        BY <2>0, <3>1, <3>2, <3>4
      <3>7. Min(faulty) = index
        BY <3>5, <3>6, MinIs
      <3> QED
        BY <3>1, <3>7 DEF faulty
    <2> QED
      BY <2>1, <2>2 DEF NothingIsPassedOver
  <1> QED
    BY <1>1, LoadInvariance, PTL
=============================================================================
