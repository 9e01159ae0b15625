--------------------------- MODULE StartupProofs ---------------------------
(***************************************************************************)
(* Proofs about module Startup for every set of processes, paths and       *)
(* configs, however the configs share or cross their paths.                *)
(*                                                                         *)
(* A process removes, binds and chmods a path in separate steps, so that   *)
(* it serves on its own file because it holds the lock of the path from    *)
(* before the probe (Placed) and because whoever listens on a path holds   *)
(* that lock too, unless it was killed and has lost its locks already      *)
(* (Listening): that last one is what the probe is for.                    *)
(***************************************************************************)
EXTENDS Startup, TLAPS

Handling == {"probe", "remove", "bind", "chmod"}

\* What process i holds and what it has made, at each of its steps.
Placed(i) ==
    LET at == proc[i]
        IsOpen(p) == file[p].listener = i /\ file[p].mode = "shared"
    IN  /\ (at.pc \in Starting /\ at.role = "control_socket") =>
            /\ at.pc # "connect"
            /\ at.config.control_socket # Absent
            /\ lock[at.config.socket] = i
        /\ at.pc \in Handling \cup {"connect", "serving"} =>
            \A p \in SocketsOf(i) : lock[p] = i
        /\ at.pc = "serving" \/ (at.pc \in Handling /\ at.role = "control_socket") =>
            IsOpen(at.config.socket)
        /\ at.pc = "remove" => file[Path(i)].listener = Nobody
        /\ at.pc = "chmod" => file[Path(i)].listener = i
        /\ at.pc = "serving" => \A p \in SocketsOf(i) : file[p].listener = i

\* Whoever listens on a path holds its lock, or was killed and has lost it.
Listening(i) ==
    \A p \in Paths : file[p].listener = i =>
        /\ proc[i].pc \notin {"closed", "down"}
        /\ proc[i].pc # "unlocked" => lock[p] = i

\* The part of ControlSocketIsPrivate about process i.
Private(i) ==
    \A p \in Paths :
        (file[p].listener = i /\ p = proc[i].config.control_socket)
            => file[p].mode = "owner"

\* Nobody listens where there is no file.
FilesExist == \A p \in Paths : file[p].mode = "none" => file[p].listener = Nobody

IInv ==
    /\ TypeOK
    /\ FilesExist
    /\ \A i \in Instances : Placed(i) /\ Listening(i) /\ Private(i)

\* What NoEviction says of a step.
NobodyEvicted ==
    \A p \in Paths : file[p].listener # Nobody =>
        file'[p].listener \in {file[p].listener, Nobody} /\ file'[p].mode # "none"

----------------------------------------------------------------------------
(* Processes and their paths *)

\* The path a process is at is one of its own.
LEMMA PathFacts ==
    ASSUME TypeOK, NEW i \in Instances
    PROVE  /\ proc[i].config \in Configs
           /\ proc[i].config.socket \in Paths
           /\ proc[i].config.socket # Absent
           /\ proc[i].config.control_socket \in Paths \cup {Absent}
           /\ proc[i].config.socket # proc[i].config.control_socket
           /\ proc[i].role \in {"socket", "control_socket"}
           /\ proc[i].role = "socket" => Path(i) = proc[i].config.socket
           /\ proc[i].role = "control_socket" => Path(i) = proc[i].config.control_socket
           /\ SocketsOf(i) \subseteq Paths
           /\ \A p \in SocketsOf(i) :
                p = proc[i].config.socket \/ p = proc[i].config.control_socket
           /\ proc[i].config.socket \in SocketsOf(i)
           /\ proc[i].config.control_socket # Absent
                => proc[i].config.control_socket \in SocketsOf(i)
  <1>1. /\ proc[i].config \in Configs
        /\ proc[i].role \in {"socket", "control_socket"}
    BY DEF TypeOK
  <1>2. /\ proc[i].config.socket \in Paths
        /\ proc[i].config.control_socket \in Paths \cup {Absent}
        /\ proc[i].config.socket # proc[i].config.control_socket
    BY <1>1, ConfigsAssumption
  <1> QED
    BY <1>1, <1>2, NamesAssumption DEF Path, SocketsOf

\* A process that handles a path is at one of its sockets and holds its lock.
LEMMA HandlingFacts ==
    ASSUME IInv, NEW i \in Instances, proc[i].pc \in Handling
    PROVE  Path(i) \in SocketsOf(i) /\ Path(i) \in Paths /\ lock[Path(i)] = i
  <1>1. Path(i) \in SocketsOf(i)
    <2>1. CASE proc[i].role = "socket"
      BY <2>1, PathFacts DEF IInv
    <2>2. CASE proc[i].role = "control_socket"
      BY <2>2, PathFacts DEF IInv, Placed, Starting, Handling
    <2> QED
      BY <2>1, <2>2, PathFacts DEF IInv
  <1>2. Placed(i) /\ SocketsOf(i) \subseteq Paths
    BY PathFacts DEF IInv
  <1> QED
    BY <1>1, <1>2 DEF Placed

\* What a step of process i must leave alone for the others: their locks, the
\* files at their paths and the files they listen on.
Spares(i) ==
    /\ \A j \in Instances \ {i} : proc'[j] = proc[j]
    /\ \A p \in Paths : lock[p] \in Instances \ {i} => lock'[p] = lock[p]
    /\ \A p \in Paths : lock[p] \in Instances \ {i}
                        /\ file[p].listener \in {lock[p], Nobody}
                        => file'[p] = file[p]
    /\ \A p \in Paths : file'[p].listener \in Instances \ {i} => file'[p] = file[p]

\* A step that spares the others keeps what the invariant says of them.
LEMMA OthersKept ==
    ASSUME IInv, NEW i, Spares(i)
    PROVE  \A j \in Instances \ {i} : Placed(j)' /\ Listening(j)' /\ Private(j)'
  <1> SUFFICES ASSUME NEW j \in Instances, j # i
               PROVE  Placed(j)' /\ Listening(j)' /\ Private(j)'
    OBVIOUS
  <1>1. /\ TypeOK /\ Placed(j) /\ Listening(j) /\ Private(j)
        /\ proc'[j] = proc[j]
        /\ SocketsOf(j)' = SocketsOf(j) /\ Path(j)' = Path(j)
    BY DEF IInv, Spares, SocketsOf, Path
  <1>2. \A p \in Paths : lock[p] = j => lock'[p] = j
    BY DEF Spares
  <1>3. \A p \in Paths : lock[p] = j /\ file[p].listener \in {j, Nobody}
                         => file'[p] = file[p]
    BY DEF Spares
  <1>4. \A p \in Paths : file'[p].listener = j => file'[p] = file[p]
    BY DEF Spares
  <1>5. Listening(j)' /\ Private(j)'
    BY <1>1, <1>2, <1>4 DEF Listening, Private
  <1>6. SocketsOf(j) \subseteq Paths /\ proc[j].config.socket \in SocketsOf(j)
    BY <1>1, PathFacts
  <1>7. proc[j].pc \in {"remove", "chmod"} => Path(j) \in SocketsOf(j)
    BY HandlingFacts DEF Handling
  <1>8. Placed(j)'
    <2>1. (proc[j].pc \in Starting /\ proc[j].role = "control_socket") =>
            /\ proc[j].pc # "connect"
            /\ proc[j].config.control_socket # Absent
            /\ lock'[proc[j].config.socket] = j
      BY <1>1, <1>2, <1>6 DEF Placed
    <2>2. proc[j].pc \in Handling \cup {"connect", "serving"} =>
            \A p \in SocketsOf(j) : lock[p] = j /\ lock'[p] = j
      BY <1>1, <1>2, <1>6 DEF Placed
    <2>3. proc[j].pc = "serving"
          \/ (proc[j].pc \in Handling /\ proc[j].role = "control_socket") =>
            /\ file'[proc[j].config.socket].listener = j
            /\ file'[proc[j].config.socket].mode = "shared"
      BY <1>1, <1>3, <1>6, <2>2 DEF Placed
    <2>4. proc[j].pc = "remove" => file'[Path(j)].listener = Nobody
      BY <1>1, <1>3, <1>6, <1>7, <2>2 DEF Placed, Handling
    <2>5. proc[j].pc = "chmod" => file'[Path(j)].listener = j
      BY <1>1, <1>3, <1>6, <1>7, <2>2 DEF Placed, Handling
    <2>6. proc[j].pc = "serving" => \A p \in SocketsOf(j) : file'[p].listener = j
      BY <1>1, <1>3, <1>6, <2>2 DEF Placed
    <2> QED
      BY <1>1, <2>1, <2>2, <2>3, <2>4, <2>5, <2>6 DEF Placed
  <1> QED
    BY <1>5, <1>8

\* A step of process i keeps the invariant if it spares the others and keeps
\* what the invariant says of i and of the files.
LEMMA StepOf ==
    ASSUME IInv, NEW i \in Instances, Spares(i), TypeOK', FilesExist',
           Placed(i)', Listening(i)', Private(i)'
    PROVE  IInv'
  BY OthersKept DEF IInv

\* A step that leaves the files and the locks alone spares the others.
LEMMA ProcOnlySpares ==
    ASSUME IInv, NEW i \in Instances, UNCHANGED <<file, lock>>,
           \A j \in Instances \ {i} : proc'[j] = proc[j]
    PROVE  Spares(i) /\ FilesExist' /\ NobodyEvicted
  BY DEF Spares, IInv, FilesExist, NobodyEvicted

----------------------------------------------------------------------------
(* The inductive invariant *)

\* Before the first start nobody listens but foreign programs.
LEMMA InitInv == Init => IInv
  <1> SUFFICES ASSUME Init PROVE IInv
    OBVIOUS
  <1>1. PICK c \in Configs : proc = [i \in Instances |->
            [pc |-> "down", config |-> c, role |-> "socket", outcome |-> "none"]]
    BY DEF Init
  <1>2. \A p \in Paths : file[p] \in Files /\ file[p].listener \in {Nobody, Foreign}
                         /\ (file[p].mode = "none" => file[p].listener = Nobody)
    BY DEF Init, Files, Modes, NoFile
  <1>3. file \in [Paths -> Files]
    BY <1>2 DEF Init
  <1>4. TypeOK
    BY <1>1, <1>3 DEF Init, TypeOK
  <1>5. FilesExist
    BY <1>2 DEF FilesExist
  <1>6. ASSUME NEW i \in Instances PROVE Placed(i) /\ Listening(i) /\ Private(i)
    <2>1. \A p \in Paths : file[p].listener # i
      BY <1>2, NamesAssumption
    <2> QED
      BY <1>1, <2>1 DEF Placed, Listening, Private, Starting, Handling
  <1> QED
    BY <1>4, <1>5, <1>6 DEF IInv

\* The type of proc[i].
Procs ==
    [pc : Starting \cup Checking \cup Ending \cup {"serving", "down"},
     config : Configs, role : {"socket", "control_socket"},
     outcome : {"none", "refused", "error", "killed"}]

\* A process starts with nothing.
LEMMA StartInv ==
    ASSUME IInv, NEW i \in Instances, NEW c \in Configs, NEW pc \in {"lock", "check"},
           Start(i, c, pc)
    PROVE  IInv' /\ NobodyEvicted
  <1> DEFINE r == [pc |-> pc, config |-> c, role |-> "socket", outcome |-> "none"]
  <1>1. /\ UNCHANGED <<file, lock, probe>> /\ starts' = starts + 1
        /\ proc' = [proc EXCEPT ![i] = r] /\ proc[i].pc = "down"
    BY DEF Start, At
  <1>2. proc \in [Instances -> Procs] /\ r \in Procs
    BY DEF IInv, TypeOK, Procs, Starting, Checking
  <1>3. TypeOK'
    BY <1>1, <1>2 DEF IInv, TypeOK, Procs
  <1>4. Spares(i) /\ FilesExist' /\ NobodyEvicted
    BY <1>1, <1>2, ProcOnlySpares
  <1>5. proc'[i] = r /\ \A p \in Paths : file[p].listener # i
    BY <1>1, <1>2 DEF IInv, Listening
  <1>6. Placed(i)' /\ Listening(i)' /\ Private(i)'
    BY <1>1, <1>5 DEF Placed, Listening, Private, Handling
  <1> QED
    BY <1>3, <1>4, <1>6, StepOf

\* A process that gives up, is stopped or killed keeps its locks and its
\* listeners for now.
LEMMA GivesUp ==
    ASSUME IInv, TypeOK', NEW i \in Instances, UNCHANGED <<file, lock>>,
           \A j \in Instances \ {i} : proc'[j] = proc[j],
           proc[i].pc \notin {"closed", "down", "unlocked"},
           proc'[i].pc \in {"exiting", "dying", "check", "uncheck"},
           proc'[i].config = proc[i].config
    PROVE  IInv' /\ NobodyEvicted
  <1>1. Spares(i) /\ FilesExist' /\ NobodyEvicted
    BY ProcOnlySpares
  <1>2. Placed(i)'
    BY DEF Placed, Starting, Handling
  <1>3. Listening(i)' /\ Private(i)'
    BY DEF IInv, Listening, Private
  <1> QED
    BY <1>1, <1>2, <1>3, StepOf

\* Where a process can be.
PCs == Starting \cup Checking \cup Ending \cup {"serving", "down"}

\* Goto moves one process and leaves its config and role alone.
LEMMA GotoFacts ==
    ASSUME TypeOK, NEW i \in Instances, NEW pc \in PCs, Goto(i, pc)
    PROVE  /\ proc' \in [Instances -> Procs]
           /\ \A j \in Instances \ {i} : proc'[j] = proc[j]
           /\ proc'[i].pc = pc
           /\ proc'[i].config = proc[i].config /\ proc'[i].role = proc[i].role
  <1>1. proc \in [Instances -> Procs]
    BY DEF TypeOK, Procs
  <1>2. proc' = [proc EXCEPT ![i].pc = pc]
    BY DEF Goto
  <1> QED
    BY <1>1, <1>2 DEF Procs, PCs

\* Fail sends one process to its end and leaves its config alone.
LEMMA FailFacts ==
    ASSUME TypeOK, NEW i \in Instances, NEW o \in {"refused", "error"}, Fail(i, o)
    PROVE  /\ proc' \in [Instances -> Procs]
           /\ \A j \in Instances \ {i} : proc'[j] = proc[j]
           /\ proc'[i].pc = "exiting"
           /\ proc'[i].config = proc[i].config
  <1>1. proc \in [Instances -> Procs]
    BY DEF TypeOK, Procs
  <1>2. proc' = [proc EXCEPT ![i].pc = "exiting", ![i].outcome = o]
    BY DEF Fail
  <1> QED
    BY <1>1, <1>2 DEF Procs, Ending

\* Then goes on with the control socket if there is one and its turn has not
\* been, and to the next stage otherwise.
LEMMA ThenFacts ==
    ASSUME TypeOK, NEW i \in Instances, NEW again \in PCs, NEW next \in PCs,
           Then(i, again, next)
    PROVE  /\ proc' \in [Instances -> Procs]
           /\ \A j \in Instances \ {i} : proc'[j] = proc[j]
           /\ proc'[i].config = proc[i].config
           /\ \/ /\ proc[i].role = "socket" /\ proc[i].config.control_socket # Absent
                 /\ proc'[i].pc = again /\ proc'[i].role = "control_socket"
              \/ /\ proc[i].role # "socket" \/ proc[i].config.control_socket = Absent
                 /\ proc'[i].pc = next /\ proc'[i].role = "socket"
  <1>1. proc \in [Instances -> Procs] /\ proc[i] \in Procs
    BY DEF TypeOK, Procs
  <1>2. proc' = [proc EXCEPT ![i] =
        IF proc[i].role = "socket" /\ proc[i].config.control_socket # Absent
        THEN [proc[i] EXCEPT !.pc = again, !.role = "control_socket"]
        ELSE [proc[i] EXCEPT !.pc = next, !.role = "socket"]]
    BY DEF Then
  <1>3. CASE proc[i].role = "socket" /\ proc[i].config.control_socket # Absent
    <2>1. proc' = [proc EXCEPT ![i] = [proc[i] EXCEPT !.pc = again, !.role = "control_socket"]]
      BY <1>2, <1>3
    <2> QED
      BY <1>1, <1>3, <2>1 DEF Procs, PCs
  <1>4. CASE ~ (proc[i].role = "socket" /\ proc[i].config.control_socket # Absent)
    <2>1. proc' = [proc EXCEPT ![i] = [proc[i] EXCEPT !.pc = next, !.role = "socket"]]
      BY <1>2, <1>4
    <2> QED
      BY <1>1, <1>4, <2>1 DEF Procs, PCs
  <1> QED
    BY <1>3, <1>4

\* The lock of a path goes from nobody to the process that asks for it.
LEMMA AcquireInv ==
    ASSUME IInv, NEW i \in Instances, AcquireLock(i)
    PROVE  IInv' /\ NobodyEvicted
  <1>1. UNCHANGED <<file, probe, starts>> /\ proc[i].pc = "lock" /\ TypeOK
    BY DEF AcquireLock, At, IInv
  <1>2. CASE WouldBlock(i) /\ Fail(i, "refused") /\ lock' = lock
    <2>1. TypeOK'
      BY <1>1, <1>2, FailFacts DEF TypeOK, Procs
    <2> QED
      BY <1>1, <1>2, <2>1, FailFacts, GivesUp
  <1>3. CASE /\ ~ WouldBlock(i)
             /\ lock' = [lock EXCEPT ![Path(i)] = i]
             /\ Then(i, "lock", "connect")
    <2>1. /\ proc' \in [Instances -> Procs]
          /\ \A j \in Instances \ {i} : proc'[j] = proc[j]
          /\ proc'[i].config = proc[i].config
          /\ \/ /\ proc[i].role = "socket" /\ proc[i].config.control_socket # Absent
                /\ proc'[i].pc = "lock" /\ proc'[i].role = "control_socket"
             \/ /\ proc[i].role # "socket" \/ proc[i].config.control_socket = Absent
                /\ proc'[i].pc = "connect" /\ proc'[i].role = "socket"
      <3>1. "lock" \in PCs /\ "connect" \in PCs
        BY DEF PCs, Starting
      <3> QED
        BY <1>1, <1>3, <3>1, ThenFacts
    <2>2. lock[Path(i)] = Nobody /\ lock \in [Paths -> Instances \cup {Nobody}]
      BY <1>1, <1>3 DEF WouldBlock, TypeOK
    <2>3. Path(i) \in Paths
      BY <1>1, PathFacts DEF IInv, Placed, Starting
    <2>4. /\ \A p \in Paths : lock'[p] = IF p = Path(i) THEN i ELSE lock[p]
          /\ lock' \in [Paths -> Instances \cup {Nobody}]
      BY <1>3, <2>2
    <2>5. TypeOK'
      BY <1>1, <2>1, <2>4 DEF TypeOK, Procs
    <2>6. Spares(i) /\ FilesExist' /\ NobodyEvicted
      BY <1>1, <2>1, <2>2, <2>4, NamesAssumption
         DEF Spares, IInv, FilesExist, NobodyEvicted
    <2>7. Listening(i)' /\ Private(i)'
      BY <1>1, <2>1, <2>4 DEF IInv, Listening, Private
    <2>8. Placed(i)'
      <3>1. CASE proc'[i].pc = "lock" /\ proc[i].role = "socket"
                 /\ proc'[i].role = "control_socket" /\ proc[i].config.control_socket # Absent
        BY <1>1, <2>1, <2>3, <2>4, <3>1, PathFacts DEF Placed, Handling
      <3>2. CASE proc'[i].pc = "connect" /\ proc'[i].role = "socket"
        <4>1. SocketsOf(i)' = SocketsOf(i)
          BY <2>1 DEF SocketsOf
        <4>2. \A p \in SocketsOf(i) : lock'[p] = i
          <5>1. CASE proc[i].role = "socket" /\ proc[i].config.control_socket = Absent
            BY <1>1, <2>3, <2>4, <5>1, PathFacts DEF SocketsOf
          <5>2. CASE proc[i].role = "control_socket"
            <6>1. lock[proc[i].config.socket] = i
              BY <1>1, <5>2 DEF IInv, Placed, Starting
            <6> QED
              BY <1>1, <2>3, <2>4, <5>2, <6>1, PathFacts
          <5> QED
            BY <1>1, <2>1, <3>2, <5>1, <5>2, PathFacts
        <4> QED
          BY <3>2, <4>1, <4>2 DEF Placed, Handling
      <3> QED
        BY <2>1, <3>1, <3>2
    <2> QED
      BY <2>5, <2>6, <2>7, <2>8, StepOf
  <1> QED
    BY <1>2, <1>3 DEF AcquireLock

\* Valkey answers: the locks are held from here on.
LEMMA ConnectInv ==
    ASSUME IInv, NEW i \in Instances, Connect(i)
    PROVE  IInv' /\ NobodyEvicted
  <1>1. UNCHANGED <<file, lock, probe, starts>> /\ proc[i].pc = "connect" /\ TypeOK
    BY DEF Connect, At, IInv
  <1>2. /\ proc' \in [Instances -> Procs]
        /\ \A j \in Instances \ {i} : proc'[j] = proc[j]
        /\ proc'[i].pc = "probe"
        /\ proc'[i].config = proc[i].config /\ proc'[i].role = proc[i].role
    BY <1>1, GotoFacts DEF Connect, PCs, Starting
  <1>3. TypeOK'
    BY <1>1, <1>2 DEF TypeOK, Procs
  <1>4. Spares(i) /\ FilesExist' /\ NobodyEvicted
    BY <1>1, <1>2, ProcOnlySpares
  <1>5. Listening(i)' /\ Private(i)'
    BY <1>1, <1>2 DEF IInv, Listening, Private
  <1>6. Placed(i)'
    <2>1. proc[i].role # "control_socket" /\ \A p \in SocketsOf(i) : lock[p] = i
      BY <1>1 DEF IInv, Placed, Starting
    <2>2. SocketsOf(i)' = SocketsOf(i)
      BY <1>2 DEF SocketsOf
    <2> QED
      BY <1>1, <1>2, <2>1, <2>2 DEF Placed
  <1> QED
    BY <1>3, <1>4, <1>5, <1>6, StepOf

\* What a process that goes on handling its path keeps: its locks and the
\* socket it has opened before.
LEMMA HandlingKept ==
    ASSUME IInv, NEW i \in Instances, proc[i].pc \in Handling, UNCHANGED lock,
           proc'[i].config = proc[i].config, proc'[i].role = proc[i].role,
           proc'[i].pc \in Handling,
           \A p \in Paths \ {Path(i)} : file'[p] = file[p],
           proc'[i].pc = "remove" => file'[Path(i)].listener = Nobody,
           proc'[i].pc = "chmod" => file'[Path(i)].listener = i
    PROVE  Placed(i)'
  <1>1. SocketsOf(i)' = SocketsOf(i) /\ Path(i)' = Path(i)
    BY DEF SocketsOf, Path
  <1>2. /\ proc[i].role = "control_socket" => Path(i) # proc[i].config.socket
        /\ proc[i].config.socket \in Paths
    BY PathFacts DEF IInv
  <1> QED
    BY <1>1, <1>2 DEF IInv, Placed, Handling, Starting

\* The path has no listener left, or the process gives up.
LEMMA ProbeInv ==
    ASSUME IInv, NEW i \in Instances, Probe(i)
    PROVE  IInv' /\ NobodyEvicted
  <1>1. UNCHANGED <<file, lock, probe, starts>> /\ proc[i].pc = "probe" /\ TypeOK
    BY DEF Probe, At, IInv
  <1>2. CASE Fail(i, "refused")
    <2>1. TypeOK'
      BY <1>1, <1>2, FailFacts DEF TypeOK, Procs
    <2> QED
      BY <1>1, <1>2, <2>1, FailFacts, GivesUp
  <1>3. CASE ~ SocketIsLive(Path(i)) /\ Goto(i, "remove")
    <2>1. /\ proc' \in [Instances -> Procs]
          /\ \A j \in Instances \ {i} : proc'[j] = proc[j]
          /\ proc'[i].pc = "remove"
          /\ proc'[i].config = proc[i].config /\ proc'[i].role = proc[i].role
      BY <1>1, <1>3, GotoFacts DEF PCs, Starting
    <2>2. TypeOK'
      BY <1>1, <2>1 DEF TypeOK, Procs
    <2>3. Spares(i) /\ FilesExist' /\ NobodyEvicted
      BY <1>1, <2>1, ProcOnlySpares
    <2>4. Listening(i)' /\ Private(i)'
      BY <1>1, <2>1 DEF IInv, Listening, Private
    <2>5. Path(i) \in Paths
      BY <1>1, HandlingFacts DEF Handling
    <2>6. file[Path(i)].listener = Nobody
      BY <1>3, <2>5 DEF SocketIsLive, IInv, FilesExist
    <2>7. Placed(i)'
      BY <1>1, <2>1, <2>6, HandlingKept DEF Handling
    <2> QED
      BY <2>2, <2>3, <2>4, <2>7, StepOf
  <1> QED
    BY <1>2, <1>3 DEF Probe

\* A step that changes the file at the path whose lock process i holds, and
\* makes nobody else listen there, spares the others.
LEMMA OwnPathSpares ==
    ASSUME IInv, NEW i \in Instances, proc[i].pc \in Handling, NEW f \in Files,
           file' = [file EXCEPT ![Path(i)] = f], f.listener \in {i, Nobody},
           UNCHANGED lock, \A j \in Instances \ {i} : proc'[j] = proc[j]
    PROVE  /\ Spares(i)
           /\ file' \in [Paths -> Files]
           /\ \A p \in Paths : file'[p] = IF p = Path(i) THEN f ELSE file[p]
  <1>1. Path(i) \in Paths /\ lock[Path(i)] = i
    BY HandlingFacts
  <1>2. file \in [Paths -> Files]
    BY DEF IInv, TypeOK
  <1> QED
    BY <1>1, <1>2, NamesAssumption DEF Spares

\* A file nobody listens on is removed.
LEMMA RemoveInv ==
    ASSUME IInv, NEW i \in Instances, Remove(i)
    PROVE  IInv' /\ NobodyEvicted
  <1>1. /\ UNCHANGED <<lock, probe, starts>> /\ proc[i].pc = "remove" /\ TypeOK
        /\ file' = [file EXCEPT ![Path(i)] = NoFile] /\ NoFile \in Files
        /\ NoFile.listener = Nobody
    BY DEF Remove, At, IInv, NoFile, Files, Modes
  <1>2. /\ proc' \in [Instances -> Procs]
        /\ \A j \in Instances \ {i} : proc'[j] = proc[j]
        /\ proc'[i].pc = "bind"
        /\ proc'[i].config = proc[i].config /\ proc'[i].role = proc[i].role
    BY <1>1, GotoFacts DEF Remove, PCs, Starting
  <1>3. proc[i].pc \in Handling
    BY <1>1 DEF Handling
  <1>4. /\ Spares(i)
        /\ file' \in [Paths -> Files]
        /\ \A p \in Paths : file'[p] = IF p = Path(i) THEN NoFile ELSE file[p]
    BY <1>1, <1>2, <1>3, OwnPathSpares
  <1>5. TypeOK'
    BY <1>1, <1>2, <1>4 DEF TypeOK, Procs
  <1>6. FilesExist'
    BY <1>1, <1>4 DEF IInv, FilesExist
  <1>7. file[Path(i)].listener = Nobody
    BY <1>1 DEF IInv, Placed
  <1>8. NobodyEvicted
    BY <1>4, <1>7 DEF IInv, FilesExist, NobodyEvicted
  <1>9. Listening(i)' /\ Private(i)'
    BY <1>1, <1>2, <1>4, NamesAssumption DEF IInv, Listening, Private
  <1>10. Placed(i)'
    BY <1>1, <1>2, <1>3, <1>4, HandlingKept DEF Handling
  <1> QED
    BY <1>4, <1>5, <1>6, <1>8, <1>9, <1>10, StepOf

\* A new file appears where there was none, closed to everybody else.
LEMMA BindInv ==
    ASSUME IInv, NEW i \in Instances, Bind(i)
    PROVE  IInv' /\ NobodyEvicted
  <1>1. UNCHANGED <<lock, probe, starts>> /\ proc[i].pc = "bind" /\ TypeOK
    BY DEF Bind, At, IInv
  <1>2. CASE Fail(i, "error") /\ file' = file
    <2>1. TypeOK'
      BY <1>1, <1>2, FailFacts DEF TypeOK, Procs
    <2> QED
      BY <1>1, <1>2, <2>1, FailFacts, GivesUp
  <1>3. CASE /\ file[Path(i)] = NoFile
             /\ file' = [file EXCEPT ![Path(i)] = [listener |-> i, mode |-> BindMode]]
             /\ Goto(i, "chmod")
    <2> DEFINE f == [listener |-> i, mode |-> BindMode]
    <2>1. /\ proc' \in [Instances -> Procs]
          /\ \A j \in Instances \ {i} : proc'[j] = proc[j]
          /\ proc'[i].pc = "chmod"
          /\ proc'[i].config = proc[i].config /\ proc'[i].role = proc[i].role
      BY <1>1, <1>3, GotoFacts DEF PCs, Starting
    <2>2. proc[i].pc \in Handling /\ f \in Files
      BY <1>1 DEF Handling, Files, Modes, BindMode
    <2>3. /\ Spares(i)
          /\ file' \in [Paths -> Files]
          /\ \A p \in Paths : file'[p] = IF p = Path(i) THEN f ELSE file[p]
      BY <1>1, <1>3, <2>1, <2>2, OwnPathSpares
    <2>4. TypeOK'
      BY <1>1, <2>1, <2>3 DEF TypeOK, Procs
    <2>5. Path(i) \in Paths /\ lock[Path(i)] = i /\ file[Path(i)].listener = Nobody
      BY <1>3, <2>2, HandlingFacts DEF NoFile
    <2>6. FilesExist' /\ NobodyEvicted
      BY <2>3, <2>5 DEF IInv, FilesExist, NobodyEvicted, BindMode
    <2>7. Listening(i)' /\ Private(i)'
      BY <1>1, <2>1, <2>3, <2>5 DEF IInv, Listening, Private, BindMode
    <2>8. Placed(i)'
      <3>1. proc'[i].pc \in Handling /\ proc'[i].pc # "remove"
        BY <2>1 DEF Handling
      <3> QED
        BY <1>1, <2>1, <2>2, <2>3, <2>5, <3>1, HandlingKept
    <2> QED
      BY <2>3, <2>4, <2>6, <2>7, <2>8, StepOf
  <1> QED
    BY <1>2, <1>3 DEF Bind

\* The mode of the role is set on the process's own file; then it goes on
\* with the control socket, or serves.
LEMMA ChmodInv ==
    ASSUME IInv, NEW i \in Instances, Chmod(i)
    PROVE  IInv' /\ NobodyEvicted
  <1> DEFINE f == [file[Path(i)] EXCEPT !.mode = ModeOf(proc[i].role)]
             s == proc[i].config.socket
             c == proc[i].config.control_socket
  <1>1. /\ UNCHANGED <<lock, probe, starts>> /\ proc[i].pc = "chmod" /\ TypeOK
        /\ file' = [file EXCEPT ![Path(i)].mode = ModeOf(proc[i].role)]
    BY DEF Chmod, At, IInv
  <1>2. proc[i].pc \in Handling
    BY <1>1 DEF Handling
  <1>3. /\ Path(i) \in Paths /\ lock[Path(i)] = i /\ file[Path(i)].listener = i
        /\ file[Path(i)] \in Files /\ \A p \in SocketsOf(i) : lock[p] = i
    <2>1. Path(i) \in Paths /\ lock[Path(i)] = i
      BY <1>2, HandlingFacts
    <2> QED
      BY <1>1, <1>2, <2>1 DEF IInv, Placed, TypeOK
  <1>4. /\ f \in Files /\ f.listener = i /\ f.mode = ModeOf(proc[i].role)
        /\ f.mode # "none"
    BY <1>3 DEF Files, ModeOf, Modes
  <1>5. file' = [file EXCEPT ![Path(i)] = f]
    BY <1>1
  <1>6. /\ proc' \in [Instances -> Procs]
        /\ \A j \in Instances \ {i} : proc'[j] = proc[j]
        /\ proc'[i].config = proc[i].config
        /\ \/ /\ proc[i].role = "socket" /\ c # Absent
              /\ proc'[i].pc = "probe" /\ proc'[i].role = "control_socket"
           \/ /\ proc[i].role # "socket" \/ c = Absent
              /\ proc'[i].pc = "serving" /\ proc'[i].role = "socket"
    <2>1. "probe" \in PCs /\ "serving" \in PCs
      BY DEF PCs, Starting
    <2> QED
      BY <1>1, <2>1, ThenFacts DEF Chmod
  <1> HIDE DEF f
  <1>7. /\ Spares(i)
        /\ file' \in [Paths -> Files]
        /\ \A p \in Paths : file'[p] = IF p = Path(i) THEN f ELSE file[p]
    BY <1>1, <1>2, <1>4, <1>5, <1>6, OwnPathSpares
  <1>8. TypeOK'
    BY <1>1, <1>6, <1>7 DEF TypeOK, Procs
  <1>9. FilesExist' /\ NobodyEvicted
    BY <1>3, <1>4, <1>7 DEF IInv, FilesExist, NobodyEvicted
  <1>10. Listening(i)'
    BY <1>1, <1>3, <1>6, <1>7 DEF IInv, Listening
  <1>11. Private(i)'
    <2>1. f.mode = "owner" \/ Path(i) # c
      BY <1>1, <1>4, PathFacts DEF ModeOf
    <2> QED
      BY <1>6, <1>7, <2>1 DEF IInv, Private
  <1>12. Placed(i)'
    <2>1. SocketsOf(i)' = SocketsOf(i)
      BY <1>6 DEF SocketsOf
    <2>2. s \in Paths /\ s \in SocketsOf(i)
      BY <1>1, PathFacts
    <2>3. file'[s].listener = i /\ file'[s].mode = "shared"
      <3>1. CASE proc[i].role = "socket"
        BY <1>1, <1>4, <1>7, <2>2, <3>1, PathFacts DEF ModeOf
      <3>2. CASE proc[i].role = "control_socket"
        <4>1. file[s].listener = i /\ file[s].mode = "shared"
          BY <1>2, <3>2 DEF IInv, Placed
        <4> QED
          BY <1>1, <1>7, <2>2, <3>2, <4>1, PathFacts
      <3> QED
        BY <1>1, <3>1, <3>2, PathFacts
    <2>4. CASE proc'[i].pc = "probe" /\ proc'[i].role = "control_socket" /\ c # Absent
      BY <1>1, <1>3, <1>6, <2>1, <2>2, <2>3, <2>4 DEF Placed
    <2>5. CASE proc'[i].pc = "serving" /\ (proc[i].role # "socket" \/ c = Absent)
      <3>1. \A p \in SocketsOf(i) : p = s \/ (p = c /\ c = Path(i))
        BY <1>1, <2>5, PathFacts DEF SocketsOf
      <3>2. \A p \in SocketsOf(i) : file'[p].listener = i
        BY <1>3, <1>4, <1>7, <2>3, <3>1
      <3> QED
        BY <1>1, <1>3, <1>6, <2>1, <2>3, <2>5, <3>2 DEF Placed, Starting, Handling
    <2> QED
      BY <1>6, <2>4, <2>5
  <1> QED
    BY <1>7, <1>8, <1>9, <1>10, <1>11, <1>12, StepOf

\* The self-check touches no lock and no socket file.
LEMMA CheckInv ==
    ASSUME IInv, NEW i \in Instances, CheckBind(i) \/ CheckRemove(i)
    PROVE  IInv' /\ NobodyEvicted
  <1>1. /\ UNCHANGED <<file, lock, starts>> /\ proc[i].pc \in {"check", "uncheck"}
        /\ TypeOK /\ probe' \subseteq Instances
    BY DEF CheckBind, CheckRemove, At, IInv, TypeOK
  <1>2. /\ proc' \in [Instances -> Procs]
        /\ \A j \in Instances \ {i} : proc'[j] = proc[j]
        /\ proc'[i].pc \in {"exiting", "check", "uncheck"}
        /\ proc'[i].config = proc[i].config
    <2>1. "check" \in PCs /\ "uncheck" \in PCs /\ "exiting" \in PCs
      BY DEF PCs, Checking, Ending
    <2>2. CASE CheckBind(i)
      BY <1>1, <2>1, <2>2, FailFacts, GotoFacts DEF CheckBind
    <2>3. CASE CheckRemove(i)
      <3>1. Then(i, "check", "exiting")
        BY <2>3 DEF CheckRemove
      <3> QED
        BY <1>1, <2>1, <3>1, ThenFacts
    <2> QED
      BY <2>2, <2>3
  <1>3. TypeOK'
    BY <1>1, <1>2 DEF TypeOK, Procs
  <1> QED
    BY <1>1, <1>2, <1>3, GivesUp

\* A call fails, the main loop ends or the process is killed.
LEMMA EndInv ==
    ASSUME IInv, NEW i \in Instances, IOError(i) \/ Stop(i) \/ Kill(i)
    PROVE  IInv' /\ NobodyEvicted
  <1>1. /\ UNCHANGED <<file, lock, probe, starts>> /\ TypeOK
        /\ proc[i].pc \notin {"closed", "down", "unlocked"}
    BY DEF IOError, Stop, Kill, At, IInv, Starting, Checking, Ending
  <1>2. /\ proc' \in [Instances -> Procs]
        /\ \A j \in Instances \ {i} : proc'[j] = proc[j]
        /\ proc'[i].pc \in {"exiting", "dying"}
        /\ proc'[i].config = proc[i].config
    <2>1. CASE IOError(i)
      BY <1>1, <2>1, FailFacts DEF IOError
    <2>2. CASE Stop(i)
      BY <1>1, <2>2, GotoFacts DEF Stop, PCs, Ending
    <2>3. CASE Kill(i)
      BY <1>1, <2>3 DEF Kill, TypeOK, Procs, Ending
    <2> QED
      BY <2>1, <2>2, <2>3
  <1>3. TypeOK'
    BY <1>1, <1>2 DEF TypeOK, Procs
  <1> QED
    BY <1>1, <1>2, <1>3, GivesUp

\* The listeners close: the files stay, with nobody behind them.
LEMMA CloseInv ==
    ASSUME IInv, NEW i \in Instances, CloseListeners(i)
    PROVE  IInv' /\ NobodyEvicted
  <1>1. UNCHANGED <<lock, probe, starts>> /\ TypeOK
    BY DEF CloseListeners, IInv
  <1>2. \A p \in Paths : file[p] \in Files
    BY <1>1 DEF TypeOK
  <1>3. /\ file' \in [Paths -> Files]
        /\ \A p \in Paths : file[p].listener # i => file'[p] = file[p]
        /\ \A p \in Paths : file[p].listener = i =>
                file'[p].listener = Nobody /\ file'[p].mode = file[p].mode
    BY <1>2 DEF CloseListeners, Files
  <1>4. /\ proc' \in [Instances -> Procs]
        /\ \A j \in Instances \ {i} : proc'[j] = proc[j]
        /\ proc'[i].pc \in {"down", "closed"}
    <2>1. "down" \in PCs /\ "closed" \in PCs
      BY DEF PCs, Ending
    <2>2. CASE Goto(i, "down")
      BY <1>1, <2>1, <2>2, GotoFacts
    <2>3. CASE Goto(i, "closed")
      BY <1>1, <2>1, <2>3, GotoFacts
    <2> QED
      BY <2>2, <2>3 DEF CloseListeners
  <1>5. TypeOK'
    BY <1>1, <1>3, <1>4 DEF TypeOK, Procs
  <1>6. FilesExist' /\ NobodyEvicted
    BY <1>3 DEF IInv, FilesExist, NobodyEvicted
  <1>7. Spares(i)
    BY <1>1, <1>3, <1>4, NamesAssumption DEF Spares
  <1>8. \A p \in Paths : file'[p].listener # i
    BY <1>3, NamesAssumption
  <1>9. Placed(i)' /\ Listening(i)' /\ Private(i)'
    BY <1>4, <1>8 DEF Placed, Listening, Private, Starting, Handling
  <1> QED
    BY <1>5, <1>6, <1>7, <1>9, StepOf

\* The locks are released: after the listeners, unless the process was killed.
LEMMA ReleaseInv ==
    ASSUME IInv, NEW i \in Instances, ReleaseLocks(i)
    PROVE  IInv' /\ NobodyEvicted
  <1>1. UNCHANGED <<file, probe, starts>> /\ TypeOK
    BY DEF ReleaseLocks, IInv
  <1>2. /\ lock' \in [Paths -> Instances \cup {Nobody}]
        /\ \A p \in Paths : lock[p] # i => lock'[p] = lock[p]
    BY <1>1 DEF ReleaseLocks, TypeOK
  <1>3. /\ proc' \in [Instances -> Procs]
        /\ \A j \in Instances \ {i} : proc'[j] = proc[j]
        /\ proc'[i].config = proc[i].config
        /\ \/ proc[i].pc = "closed" /\ proc'[i].pc = "down"
           \/ proc[i].pc = "dying" /\ proc'[i].pc = "unlocked"
    <2>1. "down" \in PCs /\ "unlocked" \in PCs
      BY DEF PCs, Ending
    <2>2. CASE proc[i].pc = "closed" /\ Goto(i, "down")
      BY <1>1, <2>1, <2>2, GotoFacts
    <2>3. CASE proc[i].pc = "dying" /\ Goto(i, "unlocked")
      BY <1>1, <2>1, <2>3, GotoFacts
    <2> QED
      BY <2>2, <2>3 DEF ReleaseLocks, At
  <1>4. TypeOK'
    BY <1>1, <1>2, <1>3 DEF TypeOK, Procs
  <1>5. FilesExist' /\ NobodyEvicted
    BY <1>1 DEF IInv, FilesExist, NobodyEvicted
  <1>6. Spares(i)
    BY <1>1, <1>2, <1>3 DEF Spares
  <1>7. Placed(i)' /\ Listening(i)' /\ Private(i)'
    BY <1>1, <1>3 DEF IInv, Placed, Listening, Private, Starting, Handling
  <1> QED
    BY <1>4, <1>5, <1>6, <1>7, StepOf

\* A foreign program ends: its file is nobody's.
LEMMA ForeignInv ==
    ASSUME IInv, NEW q \in Paths, ForeignEnds(q)
    PROVE  IInv' /\ NobodyEvicted
  <1>1. /\ UNCHANGED <<lock, proc, probe, starts>> /\ TypeOK
        /\ file[q].listener = Foreign
        /\ file' = [file EXCEPT ![q].listener = Nobody]
    BY DEF ForeignEnds, IInv
  <1>2. /\ file' \in [Paths -> Files]
        /\ \A p \in Paths \ {q} : file'[p] = file[p]
        /\ file'[q].listener = Nobody /\ file'[q].mode = file[q].mode
    <2>1. file \in [Paths -> Files]
      BY <1>1 DEF TypeOK
    <2> QED
      BY <1>1, <2>1 DEF Files
  <1>3. TypeOK'
    BY <1>1, <1>2 DEF TypeOK
  <1>4. FilesExist' /\ NobodyEvicted
    BY <1>1, <1>2 DEF IInv, FilesExist, NobodyEvicted
  <1>5. Spares(Foreign)
    BY <1>1, <1>2, NamesAssumption DEF Spares
  <1>6. \A j \in Instances : Placed(j)' /\ Listening(j)' /\ Private(j)'
    BY <1>5, OthersKept, NamesAssumption
  <1> QED
    BY <1>3, <1>4, <1>6 DEF IInv

\* Every step keeps the invariant and evicts nobody.
LEMMA StepInv ==
    ASSUME IInv, [Next]_vars
    PROVE  IInv' /\ [NobodyEvicted]_vars
  <1>1. ASSUME NEW i \in Instances, NEW c \in Configs, NEW pc \in {"lock", "check"},
               Start(i, c, pc)
        PROVE  IInv' /\ NobodyEvicted
    BY <1>1, StartInv
  <1>2. ASSUME NEW i \in Instances, Step(i)
        PROVE  IInv' /\ NobodyEvicted
    BY <1>2, AcquireInv, ConnectInv, ProbeInv, RemoveInv, BindInv, ChmodInv, CheckInv,
       CloseInv, ReleaseInv DEF Step
  <1>3. ASSUME NEW i \in Instances, IOError(i) \/ Stop(i) \/ Kill(i)
        PROVE  IInv' /\ NobodyEvicted
    BY <1>3, EndInv
  <1>4. ASSUME NEW p \in Paths, ForeignEnds(p)
        PROVE  IInv' /\ NobodyEvicted
    BY <1>4, ForeignInv
  <1>5. CASE UNCHANGED vars
    BY <1>5 DEF vars, IInv, TypeOK, FilesExist, Placed, Listening, Private, SocketsOf, Path
  <1> QED
    BY <1>1, <1>2, <1>3, <1>4, <1>5 DEF Next

\* The inductive invariant holds throughout.
LEMMA Invariance == Spec => []IInv
  <1>1. IInv /\ [Next]_vars => IInv'
    BY StepInv
  <1> QED
    BY InitInv, <1>1, PTL DEF Spec

----------------------------------------------------------------------------
(* Theorems *)

\* An instance that serves listens on the files at its paths, whatever the
\* others probed, removed and bound meanwhile; types included.
THEOREM Reachable == Spec => []ServingIsReachable
  <1>1. IInv => ServingIsReachable
    BY DEF IInv, ServingIsReachable, Placed, At
  <1> QED
    BY <1>1, Invariance, PTL

\* The control socket is open to its owner only, between bind() and chmod()
\* too.
THEOREM ControlPrivate == Spec => []ControlSocketIsPrivate
  <1>1. IInv => ControlSocketIsPrivate
    BY DEF IInv, ControlSocketIsPrivate, Private
  <1> QED
    BY <1>1, Invariance, PTL

\* Nobody who listens loses its path to a starting instance.
THEOREM NobodyIsEvicted == Spec => NoEviction
  <1>1. IInv /\ [Next]_vars => [NobodyEvicted]_vars
    BY StepInv
  <1>2. [][NobodyEvicted]_vars => NoEviction
    BY PTL DEF NobodyEvicted, NoEviction
  <1> QED
    BY <1>1, <1>2, Invariance, PTL DEF Spec
=============================================================================
