------------------------------ MODULE Startup ------------------------------
(***************************************************************************)
(* The start of src/bin/postfix-ratelimitd.rs up to its main loop, in      *)
(* several processes at once: the startup locks, the Valkey connection,    *)
(* the probing, removal and binding of the socket files, the self-check    *)
(* (-t), and the ways a process ends.  Nothing but the locks serialises    *)
(* two instances; their configs may name the same path in either role.     *)
(***************************************************************************)
EXTENDS Integers

CONSTANTS
    Instances,  \* process ids; an id may be used again
    Paths,      \* socket paths
    Configs,    \* [socket, control_socket] pairs the instances are given
    Absent,     \* no control_socket
    Nobody,     \* no process
    Foreign,    \* a program that listens on a path and knows nothing of locks
    MaxStarts   \* bound on the starts of processes

\* Config::load refuses a control_socket equal to socket.
ASSUME ConfigsAssumption ==
    /\ Configs \subseteq [socket : Paths, control_socket : Paths \cup {Absent}]
    /\ \A c \in Configs : c.control_socket # c.socket
ASSUME NamesAssumption ==
    /\ Nobody \notin Instances /\ Foreign \notin Instances \cup {Nobody}
    /\ Absent \notin Paths /\ MaxStarts \in Nat

VARIABLES
    file,       \* file[p]: the socket file at path p and who listens on it
    lock,       \* lock[p]: who holds the lock of path p
    proc,       \* proc[i]: where process i is
    probe,      \* processes whose .rl-check-<pid> file exists
    starts      \* starts so far

vars == <<file, lock, proc, probe, starts>>

\* "none" is no file; "denied" is one this user may not connect to.
Modes == {"none", "owner", "shared", "denied"}
Files == [listener : Instances \cup {Nobody, Foreign}, mode : Modes]
NoFile == [listener |-> Nobody, mode |-> "none"]

Starting == {"lock", "connect", "probe", "remove", "bind", "chmod"}
Checking == {"check", "uncheck"}
Ending == {"exiting", "dying", "closed", "unlocked"}

\* outcome is how the last start of the process ended before serving.
TypeOK ==
    /\ file \in [Paths -> Files]
    /\ lock \in [Paths -> Instances \cup {Nobody}]
    /\ proc \in [Instances ->
            [pc : Starting \cup Checking \cup Ending \cup {"serving", "down"},
             config : Configs, role : {"socket", "control_socket"},
             outcome : {"none", "refused", "error", "killed"}]]
    /\ probe \subseteq Instances
    /\ starts \in Nat

\* Files may be left from before, and a foreign program may be listening.
Init ==
    /\ file \in [Paths -> {NoFile} \cup [listener : {Nobody, Foreign},
                                         mode : {"shared", "denied"}]]
    /\ lock = [p \in Paths |-> Nobody]
    /\ \E c \in Configs : proc = [i \in Instances |->
            [pc |-> "down", config |-> c, role |-> "socket", outcome |-> "none"]]
    /\ probe = {}
    /\ starts = 0

At(i, pc) == proc[i].pc = pc
Goto(i, pc) == proc' = [proc EXCEPT ![i].pc = pc]
Path(i) == proc[i].config[proc[i].role]
Fail(i, outcome) ==
    proc' = [proc EXCEPT ![i].pc = "exiting", ![i].outcome = outcome]

\* Does the same for the control socket, if there is one and it is its turn,
\* and goes on otherwise.
Then(i, again, next) ==
    proc' = [proc EXCEPT ![i] =
        IF @.role = "socket" /\ @.config.control_socket # Absent
        THEN [@ EXCEPT !.pc = again, !.role = "control_socket"]
        ELSE [@ EXCEPT !.pc = next, !.role = "socket"]]

----------------------------------------------------------------------------
(* main *)

Start(i, c, pc) ==
    /\ At(i, "down")
    /\ starts < MaxStarts
    /\ starts' = starts + 1
    /\ proc' = [proc EXCEPT ![i] =
            [pc |-> pc, config |-> c, role |-> "socket", outcome |-> "none"]]
    /\ UNCHANGED <<file, lock, probe>>

\* Definitions named Wrong... are variants that the code could have had; the
\* checks must tell them from the definition that follows.

\* Ignores the lock of another process.
WrongWouldBlock(i) == FALSE

\* Waits for the lock instead of giving up.
WrongMayLock(i) == lock[Path(i)] = Nobody

WouldBlock(i) == lock[Path(i)] # Nobody
MayLock(i) == TRUE

\* acquire_startup_lock_or_fatal: try_lock never waits.
AcquireLock(i) ==
    /\ At(i, "lock") /\ MayLock(i)
    /\ \/ WouldBlock(i) /\ Fail(i, "refused") /\ lock' = lock
       \/ /\ ~ WouldBlock(i)
          /\ lock' = [lock EXCEPT ![Path(i)] = i]
          /\ Then(i, "lock", "connect")
    /\ UNCHANGED <<file, probe, starts>>

\* Limiter::new.
Connect(i) ==
    /\ At(i, "connect")
    /\ Goto(i, "probe")
    /\ UNCHANGED <<file, lock, probe, starts>>

\* Takes every file for a live socket, or for a stale one.
WrongSocketIsLive(p) == file[p].mode # "none"
WrongSocketIsStale(p) == FALSE

\* connect() succeeds or is not permitted.
SocketIsLive(p) ==
    file[p].mode # "none" /\ (file[p].listener # Nobody \/ file[p].mode = "denied")

\* connect() blocks while the backlog of a listener is full; the listeners
\* here are taken to have room, or to accept.
Probe(i) ==
    /\ At(i, "probe")
    /\ \/ SocketIsLive(Path(i)) /\ Fail(i, "refused")
       \/ ~ SocketIsLive(Path(i)) /\ Goto(i, "remove")
    /\ UNCHANGED <<file, lock, probe, starts>>

\* remove_file: it does not matter if there is none.
Remove(i) ==
    /\ At(i, "remove")
    /\ file' = [file EXCEPT ![Path(i)] = NoFile]
    /\ Goto(i, "bind")
    /\ UNCHANGED <<lock, probe, starts>>

\* The mode that the ambient umask gives.
WrongBindMode == "shared"

\* SOCKET_CREATE_UMASK.
BindMode == "owner"

\* bind() fails if there is a file at the path.
Bind(i) ==
    /\ At(i, "bind")
    /\ \/ /\ file[Path(i)] = NoFile
          /\ file' = [file EXCEPT ![Path(i)] = [listener |-> i, mode |-> BindMode]]
          /\ Goto(i, "chmod")
       \/ file[Path(i)] # NoFile /\ Fail(i, "error") /\ file' = file
    /\ UNCHANGED <<lock, probe, starts>>

\* SOCKET_MODE and CONTROL_SOCKET_MODE.
ModeOf(role) == IF role = "socket" THEN "shared" ELSE "owner"

\* set_permissions goes by the path; then the control socket, or the loop.
Chmod(i) ==
    /\ At(i, "chmod")
    /\ file' = [file EXCEPT ![Path(i)].mode = ModeOf(proc[i].role)]
    /\ Then(i, "probe", "serving")
    /\ UNCHANGED <<lock, probe, starts>>

\* Any of these calls, and of those of the self-check, may fail for a reason
\* of its own.
IOError(i) ==
    /\ proc[i].pc \in Starting \cup Checking
    /\ Fail(i, "error")
    /\ UNCHANGED <<file, lock, probe, starts>>

----------------------------------------------------------------------------
(* check_socket_directory *)

CheckBind(i) ==
    /\ At(i, "check")
    /\ \/ i \in probe /\ Fail(i, "error") /\ probe' = probe
       \/ i \notin probe /\ Goto(i, "uncheck") /\ probe' = probe \cup {i}
    /\ UNCHANGED <<file, lock, starts>>

CheckRemove(i) ==
    /\ At(i, "uncheck")
    /\ probe' = probe \ {i}
    /\ Then(i, "check", "exiting")
    /\ UNCHANGED <<file, lock, starts>>

----------------------------------------------------------------------------
(* The end of a process *)

\* The main loop has ended and the drain is over.
Stop(i) ==
    /\ At(i, "serving")
    /\ Goto(i, "exiting")
    /\ UNCHANGED <<file, lock, probe, starts>>

\* A crash, or a signal that has no handler yet.
Kill(i) ==
    /\ proc[i].pc \notin Ending \cup {"down"}
    /\ proc' = [proc EXCEPT ![i].pc = "dying", ![i].outcome = "killed"]
    /\ UNCHANGED <<file, lock, probe, starts>>

\* The listeners close; their files stay.
CloseListeners(i) ==
    /\ proc[i].pc \in {"exiting", "dying", "unlocked"}
    /\ file' = [p \in Paths |->
            IF file[p].listener = i THEN [file[p] EXCEPT !.listener = Nobody] ELSE file[p]]
    /\ Goto(i, IF At(i, "unlocked") THEN "down" ELSE "closed")
    /\ UNCHANGED <<lock, probe, starts>>

\* The locks go with their open files: dropped after the listeners when main
\* returns, in any order when the process is killed.
ReleaseLocks(i) ==
    /\ proc[i].pc \in {"dying", "closed"}
    /\ lock' = [p \in Paths |-> IF lock[p] = i THEN Nobody ELSE lock[p]]
    /\ Goto(i, IF At(i, "closed") THEN "down" ELSE "unlocked")
    /\ UNCHANGED <<file, probe, starts>>

\* The foreign program ends.
ForeignEnds(p) ==
    /\ file[p].listener = Foreign
    /\ file' = [file EXCEPT ![p].listener = Nobody]
    /\ UNCHANGED <<lock, proc, probe, starts>>

----------------------------------------------------------------------------

\* What the process and the kernel do by themselves.
Step(i) ==
    \/ AcquireLock(i) \/ Connect(i) \/ Probe(i) \/ Remove(i) \/ Bind(i) \/ Chmod(i)
    \/ CheckBind(i) \/ CheckRemove(i) \/ CloseListeners(i) \/ ReleaseLocks(i)

Next ==
    \/ \E i \in Instances :
        \/ \E c \in Configs, pc \in {"lock", "check"} : Start(i, c, pc)
        \/ Step(i) \/ IOError(i) \/ Stop(i) \/ Kill(i)
    \/ \E p \in Paths : ForeignEnds(p)

Spec == Init /\ [][Next]_vars

\* A process runs on, Limiter::new ends by its timeouts, and so does the
\* connect() of the probe, by assumption: it has no timeout of its own.
FairSpec == Spec /\ \A i \in Instances : WF_vars(Step(i))

----------------------------------------------------------------------------
(* Properties *)

SocketsOf(i) == {proc[i].config.socket, proc[i].config.control_socket} \ {Absent}

\* Whoever serves can be reached: the files at its paths are the ones it
\* listens on, whatever other instances probed, removed and bound meanwhile,
\* and each has the mode of its role.
\* It is stated of well-typed states.
ServingIsReachable ==
    /\ TypeOK
    /\ \A i \in Instances : At(i, "serving") =>
        /\ \A p \in SocketsOf(i) : file[p].listener = i
        /\ file[proc[i].config.socket].mode = "shared"

\* A starting instance never takes the path of a process that is still
\* listening there, not even of one that is being killed and has lost its
\* locks already, nor of a foreign program that was there first.
NoEviction ==
    [][\A p \in Paths : file[p].listener # Nobody =>
        file'[p].listener \in {file[p].listener, Nobody} /\ file'[p].mode # "none"]_vars

\* A socket is never open to more than its role allows, not even between
\* bind() and chmod(): "the window is only ever more restrictive than mode,
\* never less".
ControlSocketIsPrivate ==
    \A i \in Instances : \A p \in Paths :
        (file[p].listener = i /\ p = proc[i].config.control_socket)
            => file[p].mode = "owner"

\* Two instances whose configs cross never wait for each other's locks: every
\* start and every check comes to an end.  (A start can still wait in the
\* probe, for a listener that does not accept; see Probe.)
StartEnds ==
    \A i \in Instances :
        proc[i].pc \in Starting \cup Checking ~> proc[i].pc \notin Starting \cup Checking

\* No other process is there and the files are this user's own.
Alone(i) ==
    /\ \A j \in Instances \ {i} : At(j, "down")
    /\ \A p \in Paths : file[p].listener # Foreign /\ file[p].mode # "denied"

\* What a crash leaves behind, socket files and lock files, is no obstacle:
\* an instance that starts alone serves, unless it is killed, a call fails or
\* another one starts.
StaleFilesDoNotBlock ==
    \A i \in Instances :
        (At(i, "lock") /\ Alone(i))
            ~> (At(i, "serving") \/ ~ Alone(i) \/ proc[i].outcome \in {"error", "killed"})
=============================================================================
