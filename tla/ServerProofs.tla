---------------------------- MODULE ServerProofs ----------------------------
(***************************************************************************)
(* Proofs about module PolicyServer for any finite set of connections, any *)
(* connection limit, and any number of requests and of accept() failures,  *)
(* and about module Stats for any finite set of tasks and any limit.       *)
(*                                                                         *)
(* The properties of the server are inductive together with three facts    *)
(* about single connections: one whose write failed is closed, one that    *)
(* was not accepted yet has read nothing, and a request is handed to       *)
(* check_sasl only if nothing in it decides it beforehand.  CountersAddUp  *)
(* also needs that what was read is finite, for its size to count it.      *)
(*                                                                         *)
(* ThrottleHolds compares the log with the calls, while log_throttled looks*)
(* at a counter that report_stats resets on its own.  StatsInv says what   *)
(* the counter knows of the present interval (SeenOK, ExactOK).            *)
(***************************************************************************)
EXTENDS PolicyServer, Stats, FiniteSetTheorems, TLAPS

----------------------------------------------------------------------------
(* PolicyServer *)

\* What ReadFrom counts: an element <<c, n>> for the n-th request of c.
ReadBy(C) == UNION {{c} \X (1 .. read[c]) : c \in C}

\* The parts of EveryRequestIsAnswered and FailsClosed about connection c.
Answered(c) ==
    \/ main = "exited" /\ At(c, "closed")
    \/ read[c] - answered[c] =
            IF (c \in Live /\ ~ At(c, "reading")) \/ c \in failed THEN 1 ELSE 0
Closed(c) ==
    At(c, "writing") /\ conn[c].action = "dunno" =>
        LET t == conn[c]
        IN  /\ t.request.protocol_state # "other"
            /\ \/ ~ t.request.sasl_username /\ t.result = "none"
               \/ t.request.recipient_count /\ t.result = "accept"
               \/ t.request.recipient_count /\ t.result = "error" /\ t.config = "permit"

\* What else is true of connection c.
Sane(c) ==
    /\ c \in failed => At(c, "closed")
    /\ At(c, "none") => read[c] = 0
    /\ At(c, "checking") => Shortcut(conn[c].request) = << >>

\* The parts of CountersAddUp.
Policy == {c \in Conns : Is(c, "policy")}
Pending == {c \in Conns : At(c, "checking")}
Outcomes ==
    stats["accepted"] + stats["rejected"] + stats["failed_deferred"]
    + stats["failed_permitted"] + stats["unauthenticated"] + stats["misconfigured"]
RequestsAddUp ==
    main # "exited" => Outcomes + Cardinality(Pending) = Cardinality(ReadBy(Policy))
ConnectionsAddUp ==
    stats["connections_accepted"] + stats["connections_rejected"]
        = Cardinality(Policy) - (IF main = "undo_policy" THEN 1 ELSE 0)

IInv ==
    /\ TypeOK
    /\ SlotsAreExact
    /\ \A c \in Conns : Answered(c) /\ Closed(c) /\ Sane(c)
    /\ IsFiniteSet(ReadBy(Conns))
    /\ RequestsAddUp
    /\ ConnectionsAddUp

----------------------------------------------------------------------------
(* What a request becomes *)

OutcomeCounters == {"accepted", "rejected", "failed_deferred", "failed_permitted",
                    "unauthenticated", "misconfigured"}

\* What is decided without the limiter passes only unauthenticated mail.
LEMMA ShortcutFacts ==
    ASSUME NEW r \in Requests
    PROVE  /\ Shortcut(r) # << >> =>
                /\ Shortcut(r)[1] \in Actions
                /\ Shortcut(r)[2] \in OutcomeCounters
                /\ Shortcut(r)[1] = "dunno" =>
                    r.protocol_state # "other" /\ ~ r.sasl_username
           /\ Shortcut(r) = << >> => r.protocol_state # "other" /\ r.recipient_count
  <1>1. <<"misconfigured", "misconfigured">> # << >> /\ <<"dunno", "unauthenticated">> # << >>
    OBVIOUS
  <1> QED
    BY <1>1 DEF Shortcut, Requests, Actions, OutcomeCounters

\* What the limiter decides passes mail it accepted, or could not check under
\* a config that permits it.
LEMMA OutcomeFacts ==
    ASSUME NEW result \in {"accept", "reject", "error"}, NEW cfg \in Configs
    PROVE  LET out == Outcome(result, cfg)
           IN  /\ out[1] \in Actions
               /\ out[2] \in OutcomeCounters
               /\ out[1] = "dunno" =>
                    result = "accept" \/ (result = "error" /\ cfg = "permit")
  BY DEF Outcome, Actions, OutcomeCounters, Configs

----------------------------------------------------------------------------
(* Tasks *)

\* What a task holds at each of its steps.
LEMMA TaskFacts ==
    ASSUME NEW t \in Task, t.pc # "none"
    PROVE  /\ t.kind \in Kinds
           /\ t.pc \in {"dispatching", "replying", "farewell"} => t.kind = "control"
           /\ t.pc \in {"checking", "writing"} =>
                t.kind = "policy" /\ t.request \in Requests /\ t.config \in Configs
  BY DEF Task, Kinds

\* The sets of connections are finite.
LEMMA SetsFinite ==
    /\ IsFiniteSet(Live) /\ Cardinality(Live) \in Nat
    /\ IsFiniteSet(Policy) /\ Cardinality(Policy) \in Nat
    /\ IsFiniteSet(Pending) /\ Cardinality(Pending) \in Nat
  <1>1. IsFiniteSet(Conns) /\ Live \subseteq Conns /\ Policy \subseteq Conns
        /\ Pending \subseteq Conns
    BY BoundsAssumption DEF Live, Policy, Pending
  <1>2. IsFiniteSet(Live) /\ IsFiniteSet(Policy) /\ IsFiniteSet(Pending)
    BY <1>1, FS_Subset
  <1> QED
    BY <1>2, FS_CardinalityType

\* A step of the task of connection c that turns it into t: it gives its slot
\* back exactly if it ends.
TaskMove(c, t) ==
    /\ c \in Live
    /\ t \in Task /\ t.pc # "none" /\ t.kind = conn[c].kind
    /\ conn' = [conn EXCEPT ![c] = t]
    /\ active' = IF t.pc = "closed" THEN active - 1 ELSE active
    /\ UNCHANGED <<main, shutdown, cancel, config>>

\* What a step of a task does to the sets of connections.
LEMMA MoveSets ==
    ASSUME IInv, NEW c, NEW t, TaskMove(c, t)
    PROVE  /\ c \in Conns /\ conn[c] \in Task /\ conn[c].pc \notin {"none", "closed"}
           /\ conn' \in [Conns -> Task]
           /\ \A d \in Conns : conn'[d] = IF d = c THEN t ELSE conn[d]
           /\ Live' = IF t.pc = "closed" THEN Live \ {c} ELSE Live
           /\ Policy' = Policy
           /\ Pending' = IF t.pc = "checking" THEN Pending \cup {c} ELSE Pending \ {c}
  <1>1. c \in Conns /\ conn \in [Conns -> Task] /\ conn[c].pc \notin {"none", "closed"}
    BY DEF IInv, TypeOK, TaskMove, Live, At
  <1>2. conn' \in [Conns -> Task] /\ \A d \in Conns : conn'[d] = IF d = c THEN t ELSE conn[d]
    BY <1>1 DEF TaskMove
  <1>3. Live' = IF t.pc = "closed" THEN Live \ {c} ELSE Live
    BY <1>1, <1>2 DEF Live, At, TaskMove
  <1>4. Policy' = Policy
    BY <1>1, <1>2 DEF Policy, Is, At, TaskMove
  <1>5. Pending' = IF t.pc = "checking" THEN Pending \cup {c} ELSE Pending \ {c}
    BY <1>1, <1>2 DEF Pending, At
  <1> QED
    BY <1>1, <1>2, <1>3, <1>4, <1>5

\* A step of a task keeps the slots exact.
LEMMA MoveSlots ==
    ASSUME IInv, NEW c, NEW t, TaskMove(c, t)
    PROVE  SlotsAreExact' /\ active' \in Nat
  <1>1. Live' = IF t.pc = "closed" THEN Live \ {c} ELSE Live
    BY MoveSets
  <1>2. IsFiniteSet(Live) /\ Cardinality(Live) \in Nat /\ c \in Live
        /\ IsFiniteSet(Live \ {c}) /\ Cardinality(Live \ {c}) \in Nat
        /\ Cardinality(Live \ {c}) = Cardinality(Live) - 1
    BY SetsFinite, FS_RemoveElement, FS_CardinalityType DEF TaskMove
  <1>3. /\ active = Cardinality(Live) + (IF Undoing THEN 1 ELSE 0)
        /\ Cardinality(Live) <= MAX_CONNECTIONS /\ MAX_CONNECTIONS \in Nat
    BY BoundsAssumption DEF IInv, SlotsAreExact
  <1>4. /\ active' = IF t.pc = "closed" THEN active - 1 ELSE active
        /\ Undoing' = Undoing
    BY DEF TaskMove, Undoing
  <1>5. CASE t.pc = "closed"
    BY <1>1, <1>2, <1>3, <1>4, <1>5 DEF SlotsAreExact
  <1>6. CASE t.pc # "closed"
    BY <1>1, <1>2, <1>3, <1>4, <1>6 DEF SlotsAreExact
  <1> QED
    BY <1>5, <1>6

----------------------------------------------------------------------------
(* Counting requests *)

\* Membership in ReadBy, spelled out.
LEMMA ReadByMember ==
    ASSUME NEW C, NEW p
    PROVE  p \in ReadBy(C) <=> \E c \in C : \E n \in 1 .. read[c] : p = <<c, n>>
  BY DEF ReadBy

\* What some connections have read is part of what all have read.
LEMMA ReadByFinite ==
    ASSUME NEW C \in SUBSET Conns, IsFiniteSet(ReadBy(Conns))
    PROVE  IsFiniteSet(ReadBy(C)) /\ Cardinality(ReadBy(C)) \in Nat
  <1>1. ReadBy(C) \subseteq ReadBy(Conns)
    BY ReadByMember
  <1>2. IsFiniteSet(ReadBy(C))
    BY <1>1, FS_Subset
  <1> QED
    BY <1>2, FS_CardinalityType

\* A request read from c counts once in every set with c.
LEMMA ReadByGrows ==
    ASSUME NEW C \in SUBSET Conns, IsFiniteSet(ReadBy(Conns)), NEW c \in Conns,
           read \in [Conns -> Nat], read' = [read EXCEPT ![c] = @ + 1]
    PROVE  /\ IsFiniteSet(ReadBy(C)')
           /\ c \in C => Cardinality(ReadBy(C)') = Cardinality(ReadBy(C)) + 1
           /\ c \notin C => Cardinality(ReadBy(C)') = Cardinality(ReadBy(C))
  <1>1. \A d \in C : read'[d] = IF d = c THEN read[c] + 1 ELSE read[d]
    OBVIOUS
  <1>2. read[c] \in Nat
    OBVIOUS
  <1>3. IsFiniteSet(ReadBy(C))
    BY ReadByFinite
  <1>4. \A p : p \in ReadBy(C)' <=> \E d \in C : \E n \in 1 .. read'[d] : p = <<d, n>>
    BY DEF ReadBy
  <1>5. CASE c \notin C
    <2>1. \A d \in C : read'[d] = read[d]
      BY <1>1, <1>5
    <2>2. ReadBy(C)' = ReadBy(C)
      BY <2>1 DEF ReadBy
    <2> QED
      BY <1>3, <1>5, <2>2
  <1>6. CASE c \in C
    <2> DEFINE new == <<c, read[c] + 1>>
    <2>1. \A n : n \in 1 .. (read[c] + 1) <=> n \in 1 .. read[c] \/ n = read[c] + 1
      BY <1>2
    <2>2. ReadBy(C)' = ReadBy(C) \cup {new}
      <3>1. ASSUME NEW p \in ReadBy(C)' PROVE p \in ReadBy(C) \cup {new}
        <4>1. PICK d \in C : \E n \in 1 .. read'[d] : p = <<d, n>>
          BY <1>4, <3>1
        <4>2. PICK n \in 1 .. read'[d] : p = <<d, n>>
          BY <4>1
        <4> QED
          BY <1>1, <2>1, <4>1, <4>2, ReadByMember
      <3>2. ASSUME NEW p \in ReadBy(C) PROVE p \in ReadBy(C)'
        <4>1. PICK d \in C : \E n \in 1 .. read[d] : p = <<d, n>>
          BY <3>2, ReadByMember
        <4>2. PICK n \in 1 .. read[d] : p = <<d, n>>
          BY <4>1
        <4> QED
          BY <1>1, <1>4, <2>1, <4>1, <4>2
      <3>3. new \in ReadBy(C)'
        <4>1. read[c] + 1 \in 1 .. read'[c]
          BY <1>1, <1>2, <1>6
        <4> QED
          BY <1>4, <1>6, <4>1
      <3> QED
        BY <3>1, <3>2, <3>3
    <2>3. new \notin ReadBy(C)
      <3> SUFFICES ASSUME NEW d \in C, NEW n \in 1 .. read[d], new = <<d, n>> PROVE FALSE
        BY ReadByMember
      <3> QED
        BY <1>2
    <2> HIDE DEF new
    <2>4. /\ IsFiniteSet(ReadBy(C) \cup {new})
          /\ Cardinality(ReadBy(C) \cup {new}) = Cardinality(ReadBy(C)) + 1
      BY <1>3, <2>3, FS_AddElement
    <2> QED
      BY <1>6, <2>2, <2>4
  <1> QED
    BY <1>5, <1>6

\* A counter of outcomes counts once; the other counters do not.
LEMMA CountFacts ==
    ASSUME stats \in [Counters -> Nat], NEW x \in Counters, Count(x)
    PROVE  /\ stats' \in [Counters -> Nat]
           /\ Outcomes \in Nat
           /\ x \in OutcomeCounters => Outcomes' = Outcomes + 1
           /\ x \notin OutcomeCounters => Outcomes' = Outcomes
           /\ \A y \in Counters : stats'[y] = IF y = x THEN stats[x] + 1 ELSE stats[y]
  <1>1. \A y \in Counters : stats'[y] = IF y = x THEN stats[x] + 1 ELSE stats[y]
    BY DEF Count
  <1>2. OutcomeCounters \subseteq Counters
    BY DEF OutcomeCounters, Counters
  <1>3. \A y \in OutcomeCounters : stats[y] \in Nat
    BY <1>2
  <1>4. stats' \in [Counters -> Nat]
    BY DEF Count
  <1>5. x \in OutcomeCounters => Outcomes' = Outcomes + 1
    BY <1>1, <1>2, <1>3 DEF Outcomes, OutcomeCounters
  <1>6. x \notin OutcomeCounters => Outcomes' = Outcomes
    BY <1>1, <1>2 DEF Outcomes, OutcomeCounters
  <1>7. Outcomes \in Nat
    BY <1>3 DEF Outcomes, OutcomeCounters
  <1> QED
    BY <1>1, <1>4, <1>5, <1>6, <1>7

\* The outcomes counted are a number.
LEMMA OutcomesType ==
    ASSUME stats \in [Counters -> Nat]
    PROVE  Outcomes \in Nat
  BY DEF Outcomes, Counters

\* A step of the task of c keeps the invariant if it touches no other
\* connection's history and keeps what the invariant says of c.
LEMMA MoveInv ==
    ASSUME IInv, NEW c, NEW t, TaskMove(c, t),
           stats' \in [Counters -> Nat],
           read' \in [Conns -> Nat], answered' \in [Conns -> Nat], failed' \subseteq Conns,
           \A d \in Conns \ {c} : /\ read'[d] = read[d] /\ answered'[d] = answered[d]
                                  /\ d \in failed' <=> d \in failed,
           Answered(c)', Closed(c)', Sane(c)',
           IsFiniteSet(ReadBy(Conns)'), RequestsAddUp',
           stats'["connections_accepted"] = stats["connections_accepted"],
           stats'["connections_rejected"] = stats["connections_rejected"]
    PROVE  IInv'
  <1>1. /\ c \in Conns /\ conn' \in [Conns -> Task]
        /\ \A d \in Conns : conn'[d] = IF d = c THEN t ELSE conn[d]
        /\ Live' = IF t.pc = "closed" THEN Live \ {c} ELSE Live
        /\ Policy' = Policy
    BY MoveSets
  <1>2. SlotsAreExact' /\ active' \in Nat
    BY MoveSlots
  <1>3. TypeOK'
    BY <1>1, <1>2 DEF IInv, TypeOK, TaskMove
  <1>4. ASSUME NEW d \in Conns PROVE Answered(d)' /\ Closed(d)' /\ Sane(d)'
    <2>1. CASE d = c
      BY <2>1
    <2>2. CASE d # c
      <3>1. /\ conn'[d] = conn[d] /\ (d \in Live' <=> d \in Live)
            /\ read'[d] = read[d] /\ answered'[d] = answered[d]
            /\ (d \in failed' <=> d \in failed)
        BY <1>1, <2>2
      <3>2. Answered(d) /\ Closed(d) /\ Sane(d)
        BY DEF IInv
      <3>3. Answered(d)'
        <4>1. main' = main
          BY DEF TaskMove
        <4> QED
          BY <3>1, <3>2, <4>1 DEF Answered, At
      <3>4. Closed(d)'
        BY <3>1, <3>2 DEF Closed, At
      <3>5. Sane(d)'
        BY <3>1, <3>2 DEF Sane, At
      <3> QED
        BY <3>3, <3>4, <3>5
    <2> QED
      BY <2>1, <2>2
  <1>5. ConnectionsAddUp'
    BY <1>1 DEF IInv, ConnectionsAddUp, TaskMove
  <1> QED
    BY <1>2, <1>3, <1>4, <1>5 DEF IInv

\* A step of a task that neither reads a request nor begins or ends a check,
\* and counts no outcome, keeps the requests added up.
LEMMA QuietMove ==
    ASSUME IInv, NEW c, NEW t, TaskMove(c, t), UNCHANGED read, Outcomes' = Outcomes,
           t.pc # "checking", conn[c].pc # "checking"
    PROVE  IsFiniteSet(ReadBy(Conns)') /\ RequestsAddUp'
  <1>1. Policy' = Policy /\ Pending' = Pending
    BY MoveSets DEF Pending, At
  <1>2. ReadBy(Policy)' = ReadBy(Policy) /\ ReadBy(Conns)' = ReadBy(Conns)
    BY <1>1 DEF ReadBy
  <1> QED
    BY <1>1, <1>2 DEF IInv, RequestsAddUp, TaskMove

\* A step that ends a task before it has read, or after it has written.
LEMMA CloseInv ==
    ASSUME IInv, NEW c \in Conns,
           ReadError(c) \/ PeerCloses(c) \/ SeeCancel(c)
    PROVE  IInv'
  <1> DEFINE t == [pc |-> "closed", kind |-> conn[c].kind]
  <1>1. /\ conn[c] \in Task /\ conn[c].pc = "reading"
        /\ conn' = [conn EXCEPT ![c] = t] /\ active' = active - 1
        /\ UNCHANGED <<main, shutdown, cancel, config, read, answered, failed>>
    BY DEF ReadError, PeerCloses, SeeCancel, Cancellable, Close, Goto, At, history,
           IInv, TypeOK
  <1>2. t \in Task /\ c \in Live
    BY <1>1, TaskFacts DEF Task, Live, At
  <1>3. TaskMove(c, t)
    BY <1>1, <1>2 DEF TaskMove
  <1>4. stats \in [Counters -> Nat] /\ read \in [Conns -> Nat]
        /\ answered \in [Conns -> Nat] /\ failed \subseteq Conns
    BY DEF IInv, TypeOK
  <1>5. /\ stats' \in [Counters -> Nat] /\ Outcomes' = Outcomes
        /\ stats'["connections_accepted"] = stats["connections_accepted"]
        /\ stats'["connections_rejected"] = stats["connections_rejected"]
    <2>1. CASE stats' = stats
      BY <1>4, <2>1 DEF Outcomes
    <2>2. CASE Count("malformed")
      BY <1>4, <2>2, CountFacts DEF Counters, OutcomeCounters
    <2> QED
      BY <2>1, <2>2 DEF ReadError, PeerCloses, SeeCancel, CountPolicy
  <1>6. /\ conn'[c] = t /\ c \notin Live' /\ c \in Live
    BY <1>2, <1>3, MoveSets
  <1>7. Answered(c) /\ Sane(c)
    BY DEF IInv
  <1>8. Answered(c)' /\ Closed(c)' /\ Sane(c)'
    BY <1>1, <1>6, <1>7 DEF Answered, Closed, Sane, At
  <1>9. IsFiniteSet(ReadBy(Conns)') /\ RequestsAddUp'
    <2>1. t.pc # "checking" /\ conn[c].pc # "checking"
      BY <1>1
    <2> HIDE DEF t
    <2> QED
      BY <1>1, <1>3, <1>5, <2>1, QuietMove
  <1> HIDE DEF t
  <1> QED
    BY <1>1, <1>3, <1>4, <1>5, <1>8, <1>9, MoveInv

\* A request was read and not answered exactly while the task is busy.
LEMMA BusyFacts ==
    ASSUME IInv, NEW c \in Conns, c \in Live
    PROVE  /\ c \notin failed
           /\ read[c] \in Nat /\ answered[c] \in Nat
           /\ conn[c].pc = "reading" => read[c] = answered[c]
           /\ conn[c].pc # "reading" => read[c] = answered[c] + 1
  <1>1. c \notin failed
    BY DEF IInv, Sane, Live, At
  <1>2. read[c] \in Nat /\ answered[c] \in Nat /\ Answered(c)
    BY DEF IInv, TypeOK
  <1> QED
    BY <1>1, <1>2 DEF Answered, At, Live

\* The answer is written.
LEMMA WriteInv ==
    ASSUME IInv, NEW c \in Conns, WriteAnswer(c)
    PROVE  IInv'
  <1> DEFINE pc == IF At(c, "farewell") THEN "closed" ELSE "reading"
             t == [pc |-> pc, kind |-> conn[c].kind]
  <1>1. /\ conn[c] \in Task /\ conn[c].pc \in {"writing", "replying", "farewell"}
        /\ conn' = [conn EXCEPT ![c] = t]
        /\ active' = IF pc = "closed" THEN active - 1 ELSE active
        /\ answered' = [answered EXCEPT ![c] = @ + 1]
        /\ UNCHANGED <<main, shutdown, cancel, config, stats, read, failed>>
    BY DEF WriteAnswer, Close, Goto, At, IInv, TypeOK
  <1>2. t \in Task /\ c \in Live
    BY <1>1, TaskFacts DEF Task, Live, At
  <1>3. TaskMove(c, t)
    BY <1>1, <1>2 DEF TaskMove
  <1>4. stats \in [Counters -> Nat] /\ read \in [Conns -> Nat]
        /\ answered \in [Conns -> Nat] /\ failed \subseteq Conns
    BY DEF IInv, TypeOK
  <1>5. conn'[c] = t /\ t.pc \in {"closed", "reading"}
    BY <1>3, MoveSets
  <1>6. /\ c \notin failed /\ read[c] \in Nat /\ answered[c] \in Nat
        /\ read[c] = answered[c] + 1 /\ answered'[c] = answered[c] + 1
    BY <1>1, <1>2, <1>4, BusyFacts
  <1>7. Answered(c)'
    BY <1>1, <1>5, <1>6 DEF Answered, At, Live
  <1>8. Closed(c)' /\ Sane(c)'
    BY <1>1, <1>5, <1>6 DEF Closed, Sane, At
  <1>9. answered' \in [Conns -> Nat] /\ \A d \in Conns \ {c} : answered'[d] = answered[d]
    BY <1>1, <1>4
  <1>10. Outcomes' = Outcomes
    BY <1>1 DEF Outcomes
  <1>11. t.pc # "checking" /\ conn[c].pc # "checking"
    BY <1>1, <1>5
  <1> HIDE DEF t
  <1>12. IsFiniteSet(ReadBy(Conns)') /\ RequestsAddUp'
    BY <1>1, <1>3, <1>10, <1>11, QuietMove
  <1> QED
    BY <1>1, <1>3, <1>4, <1>7, <1>8, <1>9, <1>12, MoveInv

\* The connection ends with its answer unwritten.
LEMMA WriteErrorInv ==
    ASSUME IInv, NEW c \in Conns, WriteError(c)
    PROVE  IInv'
  <1> DEFINE t == [pc |-> "closed", kind |-> conn[c].kind]
  <1>1. /\ conn[c] \in Task /\ conn[c].pc \in {"writing", "replying", "farewell"}
        /\ conn' = [conn EXCEPT ![c] = t] /\ active' = active - 1
        /\ failed' = failed \cup {c}
        /\ UNCHANGED <<main, shutdown, cancel, config, stats, read, answered>>
    BY DEF WriteError, Close, Goto, At, IInv, TypeOK
  <1>2. t \in Task /\ c \in Live
    BY <1>1, TaskFacts DEF Task, Live, At
  <1>3. TaskMove(c, t)
    BY <1>1, <1>2 DEF TaskMove
  <1>4. stats \in [Counters -> Nat] /\ read \in [Conns -> Nat]
        /\ answered \in [Conns -> Nat] /\ failed \subseteq Conns
    BY DEF IInv, TypeOK
  <1>5. conn'[c] = t
    BY <1>3, MoveSets
  <1>6. read[c] = answered[c] + 1 /\ read[c] \in Nat /\ answered[c] \in Nat
    BY <1>1, <1>2, BusyFacts
  <1>7. Answered(c)'
    BY <1>1, <1>6 DEF Answered
  <1>8. Closed(c)' /\ Sane(c)'
    BY <1>1, <1>5, <1>6 DEF Closed, Sane, At
  <1>9. Outcomes' = Outcomes /\ t.pc # "checking" /\ conn[c].pc # "checking"
    BY <1>1 DEF Outcomes
  <1> HIDE DEF t
  <1>10. IsFiniteSet(ReadBy(Conns)') /\ RequestsAddUp'
    BY <1>1, <1>3, <1>9, QuietMove
  <1> QED
    BY <1>1, <1>3, <1>4, <1>7, <1>8, <1>10, MoveInv

\* A control line is parsed and dispatched.
LEMMA DispatchedInv ==
    ASSUME IInv, NEW c \in Conns, Dispatched(c)
    PROVE  IInv'
  <1> DEFINE t == [pc |-> "replying", kind |-> "control"]
  <1>1. /\ conn[c] \in Task /\ conn[c].pc = "dispatching"
        /\ conn' = [conn EXCEPT ![c] = t]
        /\ UNCHANGED <<main, shutdown, cancel, active, config, stats, read, answered, failed>>
    BY DEF Dispatched, Goto, At, history, IInv, TypeOK
  <1>2. t \in Task /\ c \in Live /\ conn[c].kind = "control"
    BY <1>1, TaskFacts DEF Task, Live, At
  <1>3. TaskMove(c, t)
    BY <1>1, <1>2 DEF TaskMove
  <1>4. stats \in [Counters -> Nat] /\ read \in [Conns -> Nat]
        /\ answered \in [Conns -> Nat] /\ failed \subseteq Conns
    BY DEF IInv, TypeOK
  <1>5. conn'[c] = t
    BY <1>3, MoveSets
  <1>6. c \notin failed /\ read[c] = answered[c] + 1 /\ read[c] \in Nat /\ answered[c] \in Nat
    BY <1>1, <1>2, BusyFacts
  <1>7. Answered(c)'
    BY <1>1, <1>5, <1>6 DEF Answered, Live, At
  <1>8. Closed(c)' /\ Sane(c)'
    BY <1>1, <1>5, <1>6 DEF Closed, Sane, At
  <1>9. Outcomes' = Outcomes /\ t.pc # "checking" /\ conn[c].pc # "checking"
    BY <1>1 DEF Outcomes
  <1> HIDE DEF t
  <1>10. IsFiniteSet(ReadBy(Conns)') /\ RequestsAddUp'
    BY <1>1, <1>3, <1>9, QuietMove
  <1> QED
    BY <1>1, <1>3, <1>4, <1>7, <1>8, <1>10, MoveInv

\* What reading a request from c does to the history of c.
LEMMA ReadFacts ==
    ASSUME IInv, NEW c \in Conns, NEW t, TaskMove(c, t), conn[c].pc = "reading",
           t.pc \notin {"reading", "closed"}, read' = [read EXCEPT ![c] = @ + 1],
           UNCHANGED <<answered, failed>>
    PROVE  /\ read' \in [Conns -> Nat] /\ answered' \in [Conns -> Nat] /\ failed' \subseteq Conns
           /\ \A d \in Conns \ {c} : read'[d] = read[d]
           /\ Answered(c)'
           /\ c \notin failed'
           /\ IsFiniteSet(ReadBy(Conns)')
  <1>1. /\ read \in [Conns -> Nat] /\ answered \in [Conns -> Nat] /\ failed \subseteq Conns
        /\ IsFiniteSet(ReadBy(Conns)) /\ c \in Live
    BY DEF IInv, TypeOK, TaskMove
  <1>2. /\ c \notin failed /\ read[c] = answered[c] /\ answered[c] \in Nat
        /\ read'[c] = read[c] + 1
    BY <1>1, BusyFacts
  <1>3. conn'[c] = t /\ c \in Live'
    BY <1>1, MoveSets
  <1>4. Answered(c)'
    BY <1>2, <1>3 DEF Answered, At
  <1>5. IsFiniteSet(ReadBy(Conns)')
    BY <1>1, ReadByGrows
  <1> QED
    BY <1>1, <1>2, <1>4, <1>5

\* A line is read from a control connection: nothing is counted.
LEMMA ReadLineInv ==
    ASSUME IInv, NEW c \in Conns, ReadLine(c) \/ ReadTruncated(c)
    PROVE  IInv'
  <1> DEFINE pc == IF ReadLine(c) THEN "dispatching" ELSE "farewell"
             t == [pc |-> pc, kind |-> "control"]
  <1>1. /\ conn[c] \in Task /\ conn[c].pc = "reading" /\ conn[c].kind = "control"
        /\ conn' = [conn EXCEPT ![c] = t]
        /\ read' = [read EXCEPT ![c] = @ + 1]
        /\ UNCHANGED <<main, shutdown, cancel, active, config, stats, answered, failed>>
    BY DEF ReadLine, ReadTruncated, Goto, At, Is, IInv, TypeOK
  <1> HIDE DEF pc
  <1>2. pc \in {"dispatching", "farewell"}
    BY DEF pc
  <1>3. t \in Task /\ c \in Live
    BY <1>1, <1>2 DEF Task, Live, At
  <1>4. TaskMove(c, t)
    BY <1>1, <1>2, <1>3 DEF TaskMove
  <1>5. /\ t.pc \notin {"reading", "closed", "checking", "writing", "none"}
        /\ stats \in [Counters -> Nat] /\ read \in [Conns -> Nat]
    BY <1>2 DEF IInv, TypeOK
  <1>6. conn'[c].pc = t.pc /\ Policy' = Policy /\ Pending' = Pending /\ c \notin Policy
    BY <1>1, <1>4, <1>5, MoveSets DEF Pending, Policy, Is, At
  <1> HIDE DEF t
  <1>7. /\ read' \in [Conns -> Nat] /\ answered' \in [Conns -> Nat] /\ failed' \subseteq Conns
        /\ \A d \in Conns \ {c} : read'[d] = read[d]
        /\ Answered(c)' /\ c \notin failed' /\ IsFiniteSet(ReadBy(Conns)')
    BY <1>1, <1>4, <1>5, ReadFacts
  <1>8. Closed(c)' /\ Sane(c)'
    BY <1>5, <1>6, <1>7 DEF Closed, Sane, At
  <1>9. RequestsAddUp'
    <2>1. Policy \in SUBSET Conns /\ IsFiniteSet(ReadBy(Conns))
      BY DEF Policy, IInv
    <2> DEFINE P == Policy
    <2>2. \A d \in P : read'[d] = read[d]
      BY <1>6, <1>7, <2>1
    <2>3. ReadBy(Policy)' = ReadBy(Policy)
      BY <1>6, <2>2 DEF ReadBy
    <2>4. Outcomes' = Outcomes
      BY <1>1 DEF Outcomes
    <2> QED
      BY <1>1, <1>6, <2>3, <2>4 DEF IInv, RequestsAddUp
  <1> QED
    BY <1>1, <1>4, <1>5, <1>7, <1>8, <1>9, MoveInv

\* A policy request is read: it is counted now, or its check is pending.
LEMMA ReadRequestInv ==
    ASSUME IInv, NEW c \in Conns, NEW r \in Requests, ReadRequest(c, r)
    PROVE  IInv'
  <1> DEFINE u == Writing(r, config, "none", Shortcut(r)[1])
             v == [pc |-> "checking", kind |-> "policy", request |-> r, config |-> config]
  <1>1. /\ conn[c] \in Task /\ conn[c].pc = "reading" /\ conn[c].kind = "policy"
        /\ read' = [read EXCEPT ![c] = @ + 1]
        /\ UNCHANGED <<main, shutdown, cancel, active, config, answered, failed>>
        /\ stats \in [Counters -> Nat] /\ read \in [Conns -> Nat] /\ config \in Configs
    BY DEF ReadRequest, At, Is, IInv, TypeOK
  <1>2. c \in Live /\ c \in Policy /\ c \notin Pending
    BY <1>1 DEF Live, Policy, Pending, Is, At
  <1>3. /\ IsFiniteSet(ReadBy(Conns)) /\ Policy \in SUBSET Conns
        /\ RequestsAddUp /\ Outcomes \in Nat /\ Cardinality(Pending) \in Nat
        /\ Cardinality(ReadBy(Policy)) \in Nat
    BY <1>1, ReadByFinite, SetsFinite, OutcomesType DEF IInv, Policy
  <1>4. ASSUME Policy' = Policy
        PROVE  Cardinality(ReadBy(Policy)') = Cardinality(ReadBy(Policy)) + 1
    <2> DEFINE P == Policy
    <2>1. ReadBy(Policy)' = UNION {{d} \X (1 .. read'[d]) : d \in P}
      BY <1>4 DEF ReadBy
    <2>2. Cardinality(UNION {{d} \X (1 .. read'[d]) : d \in P}) = Cardinality(ReadBy(P)) + 1
      <3>1. \A Q \in SUBSET Conns : c \in Q =>
              Cardinality(UNION {{d} \X (1 .. read'[d]) : d \in Q})
                = Cardinality(ReadBy(Q)) + 1
        <4> SUFFICES ASSUME NEW CONSTANT Q \in SUBSET Conns, c \in Q
                     PROVE  Cardinality(ReadBy(Q)') = Cardinality(ReadBy(Q)) + 1
          BY DEF ReadBy
        <4> QED
          BY <1>1, <1>3, ReadByGrows
      <3> QED
        BY <1>2, <1>3, <3>1
    <2> QED
      BY <2>1, <2>2
  <1>5. CASE Shortcut(r) # << >>
    <2>1. conn' = [conn EXCEPT ![c] = u] /\ Count(Shortcut(r)[2])
      BY <1>5 DEF ReadRequest, Goto
    <2>2. /\ Shortcut(r)[1] \in Actions /\ Shortcut(r)[2] \in OutcomeCounters
          /\ Shortcut(r)[1] = "dunno" => r.protocol_state # "other" /\ ~ r.sasl_username
      BY <1>5, ShortcutFacts
    <2>3. /\ u \in Task /\ u.pc = "writing" /\ u.kind = "policy" /\ u.request = r
          /\ u.result = "none" /\ u.action = Shortcut(r)[1]
      BY <1>1, <2>2 DEF Task, Writing
    <2> HIDE DEF u
    <2>4. TaskMove(c, u)
      BY <1>1, <1>2, <2>1, <2>3 DEF TaskMove
    <2>5. conn'[c] = u /\ Policy' = Policy /\ Pending' = Pending
      BY <1>2, <2>3, <2>4, MoveSets
    <2>6. /\ read' \in [Conns -> Nat] /\ answered' \in [Conns -> Nat] /\ failed' \subseteq Conns
          /\ \A d \in Conns \ {c} : read'[d] = read[d]
          /\ Answered(c)' /\ c \notin failed' /\ IsFiniteSet(ReadBy(Conns)')
      BY <1>1, <2>3, <2>4, ReadFacts
    <2>7. Closed(c)' /\ Sane(c)'
      BY <2>2, <2>3, <2>5, <2>6 DEF Closed, Sane, At
    <2>8. /\ stats' \in [Counters -> Nat] /\ Outcomes' = Outcomes + 1
          /\ stats'["connections_accepted"] = stats["connections_accepted"]
          /\ stats'["connections_rejected"] = stats["connections_rejected"]
      BY <1>1, <2>1, <2>2, CountFacts DEF Counters, OutcomeCounters
    <2>9. RequestsAddUp'
      BY <1>1, <1>3, <1>4, <2>5, <2>8 DEF RequestsAddUp
    <2> QED
      BY <1>1, <2>4, <2>6, <2>7, <2>8, <2>9, MoveInv
  <1>6. CASE Shortcut(r) = << >>
    <2>1. conn' = [conn EXCEPT ![c] = v] /\ stats' = stats
      BY <1>6 DEF ReadRequest, Goto
    <2>2. /\ v \in Task /\ v.pc = "checking" /\ v.kind = "policy" /\ v.request = r
      BY <1>1 DEF Task
    <2> HIDE DEF v
    <2>3. TaskMove(c, v)
      BY <1>1, <1>2, <2>1, <2>2 DEF TaskMove
    <2>4. conn'[c] = v /\ Policy' = Policy /\ Pending' = Pending \cup {c}
      BY <2>2, <2>3, MoveSets
    <2>5. /\ read' \in [Conns -> Nat] /\ answered' \in [Conns -> Nat] /\ failed' \subseteq Conns
          /\ \A d \in Conns \ {c} : read'[d] = read[d]
          /\ Answered(c)' /\ c \notin failed' /\ IsFiniteSet(ReadBy(Conns)')
      BY <1>1, <2>2, <2>3, ReadFacts
    <2>6. Closed(c)' /\ Sane(c)'
      BY <1>6, <2>2, <2>4, <2>5 DEF Closed, Sane, At
    <2>7. Cardinality(Pending') = Cardinality(Pending) + 1
      BY <1>2, <2>4, SetsFinite, FS_AddElement
    <2>8. Outcomes' = Outcomes
      BY <2>1 DEF Outcomes
    <2>9. RequestsAddUp'
      BY <1>1, <1>3, <1>4, <2>4, <2>7, <2>8 DEF RequestsAddUp
    <2> QED
      BY <1>1, <2>1, <2>3, <2>5, <2>6, <2>9, MoveInv
  <1> QED
    BY <1>5, <1>6

\* The check ends and is counted.
LEMMA CheckDoneInv ==
    ASSUME IInv, NEW c \in Conns, NEW result \in {"accept", "reject", "error"},
           CheckDone(c, result)
    PROVE  IInv'
  <1> DEFINE out == Outcome(result, conn[c].config)
             t == Writing(conn[c].request, conn[c].config, result, out[1])
  <1>1. /\ conn[c] \in Task /\ conn[c].pc = "checking"
        /\ conn' = [conn EXCEPT ![c] = t] /\ Count(out[2])
        /\ UNCHANGED <<main, shutdown, cancel, active, config, read, answered, failed>>
        /\ stats \in [Counters -> Nat] /\ read \in [Conns -> Nat]
        /\ answered \in [Conns -> Nat] /\ failed \subseteq Conns
    BY DEF CheckDone, Goto, At, history, IInv, TypeOK
  <1>2. /\ conn[c].kind = "policy" /\ conn[c].request \in Requests
        /\ conn[c].config \in Configs
    BY <1>1, TaskFacts
  <1>3. c \in Live /\ c \in Pending
    BY <1>1 DEF Live, Pending, At
  <1>4. /\ out[1] \in Actions /\ out[2] \in OutcomeCounters
        /\ out[1] = "dunno" =>
             result = "accept" \/ (result = "error" /\ conn[c].config = "permit")
    BY <1>2, OutcomeFacts
  <1> HIDE DEF out
  <1>5. /\ t \in Task /\ t.pc = "writing" /\ t.kind = "policy"
        /\ t.request = conn[c].request /\ t.config = conn[c].config
        /\ t.result = result /\ t.action = out[1]
    BY <1>2, <1>4 DEF Task, Writing
  <1> HIDE DEF t
  <1>6. TaskMove(c, t)
    BY <1>1, <1>2, <1>3, <1>5 DEF TaskMove
  <1>7. conn'[c] = t /\ Policy' = Policy /\ Pending' = Pending \ {c}
    BY <1>5, <1>6, MoveSets
  <1>8. c \notin failed /\ read[c] = answered[c] + 1 /\ read[c] \in Nat /\ answered[c] \in Nat
    BY <1>1, <1>3, BusyFacts
  <1>9. Answered(c)'
    BY <1>1, <1>5, <1>7, <1>8 DEF Answered, Live, At
  <1>10. Closed(c)' /\ Sane(c)'
    <2>1. Shortcut(conn[c].request) = << >>
      BY <1>1 DEF IInv, Sane, At
    <2>2. conn[c].request.protocol_state # "other" /\ conn[c].request.recipient_count
      BY <1>2, <2>1, ShortcutFacts
    <2> QED
      BY <1>1, <1>4, <1>5, <1>7, <1>8, <2>2 DEF Closed, Sane, At
  <1>11. /\ stats' \in [Counters -> Nat] /\ Outcomes' = Outcomes + 1 /\ Outcomes \in Nat
         /\ stats'["connections_accepted"] = stats["connections_accepted"]
         /\ stats'["connections_rejected"] = stats["connections_rejected"]
    BY <1>1, <1>4, CountFacts DEF Counters, OutcomeCounters
  <1>12. Cardinality(Pending') = Cardinality(Pending) - 1 /\ Cardinality(Pending) \in Nat
    BY <1>3, <1>7, SetsFinite, FS_RemoveElement
  <1>13. ReadBy(Policy)' = ReadBy(Policy) /\ ReadBy(Conns)' = ReadBy(Conns)
    BY <1>1, <1>7 DEF ReadBy
  <1>14. IsFiniteSet(ReadBy(Conns)') /\ RequestsAddUp'
    BY <1>1, <1>11, <1>12, <1>13 DEF IInv, RequestsAddUp
  <1> QED
    BY <1>1, <1>6, <1>9, <1>10, <1>11, <1>14, MoveInv

----------------------------------------------------------------------------
(* The main loop *)

\* A step of main that leaves the connections and their history alone keeps
\* the invariant if it keeps the slots and the counters right.
LEMMA MainInv ==
    ASSUME IInv, TypeOK', UNCHANGED <<conn, read, answered, failed>>,
           active' = Cardinality(Live) + (IF Undoing' THEN 1 ELSE 0),
           main' # "exited" => main # "exited", Outcomes' = Outcomes, ConnectionsAddUp'
    PROVE  IInv'
  <1>1. Live' = Live /\ Policy' = Policy /\ Pending' = Pending
    BY DEF Live, Policy, Pending, Is, At
  <1>2. ReadBy(Policy)' = ReadBy(Policy) /\ ReadBy(Conns)' = ReadBy(Conns)
    BY <1>1 DEF ReadBy
  <1>3. SlotsAreExact'
    BY <1>1 DEF IInv, SlotsAreExact
  <1>4. RequestsAddUp'
    BY <1>1, <1>2 DEF IInv, RequestsAddUp
  <1>5. \A c \in Conns : Answered(c)' /\ Closed(c)' /\ Sane(c)'
    BY <1>1 DEF IInv, Answered, Closed, Sane, At
  <1> QED
    BY <1>2, <1>3, <1>4, <1>5 DEF IInv

\* No step of these changes a slot: failures of accept(), the end of the
\* backoff, the shutdown arm, the end of the drain, signals and reloads.
LEMMA LoopInv ==
    ASSUME IInv,
           \/ \E kind \in Kinds : AcceptError(kind)
           \/ BackoffEnds \/ StopAccepting \/ DrainDone \/ RequestShutdown \/ Reload
    PROVE  IInv'
  <1>1. /\ UNCHANGED <<active, conn, read, answered, failed>>
        /\ main' # "exited" => main # "exited"
        /\ \/ main' = main
           \/ /\ main \notin {"undo_policy", "undo_control"}
              /\ main' \in {"select", "backoff", "drain", "exited"}
        /\ shutdown' \in BOOLEAN /\ cancel' \in BOOLEAN /\ config' \in Configs
    BY DEF AcceptError, BackoffEnds, StopAccepting, DrainDone, RequestShutdown, Reload,
           history, IInv, TypeOK
  <1>2. stats \in [Counters -> Nat]
    BY DEF IInv, TypeOK
  <1>3. /\ stats' \in [Counters -> Nat] /\ Outcomes' = Outcomes
        /\ stats'["connections_accepted"] = stats["connections_accepted"]
        /\ stats'["connections_rejected"] = stats["connections_rejected"]
    <2>1. CASE stats' = stats
      BY <1>2, <2>1 DEF Outcomes
    <2>2. CASE Count("accept_errors")
      BY <1>2, <2>2, CountFacts DEF Counters, OutcomeCounters
    <2> QED
      BY <2>1, <2>2 DEF AcceptError, CountPolicy, BackoffEnds, StopAccepting, DrainDone,
                        RequestShutdown, Reload
  <1>4. TypeOK'
    BY <1>1, <1>3 DEF IInv, TypeOK
  <1>5. Undoing' = Undoing /\ (main' = "undo_policy" <=> main = "undo_policy")
    BY <1>1 DEF Undoing
  <1>6. active' = Cardinality(Live) + (IF Undoing' THEN 1 ELSE 0)
    BY <1>1, <1>5 DEF IInv, SlotsAreExact
  <1>7. ConnectionsAddUp'
    <2>1. Policy' = Policy
      BY <1>1 DEF Policy, Is, At
    <2> QED
      BY <1>3, <1>5, <2>1 DEF IInv, ConnectionsAddUp
  <1> QED
    BY <1>1, <1>3, <1>4, <1>6, <1>7, MainInv

\* The slot of a connection beyond the limit is given back.
LEMMA UndoInv == IInv /\ UndoAccept => IInv'
  <1> SUFFICES ASSUME IInv, UndoAccept PROVE IInv'
    OBVIOUS
  <1>1. /\ UNCHANGED <<shutdown, cancel, conn, config, read, answered, failed>>
        /\ main' = "select" /\ Undoing /\ active' = active - 1
        /\ stats \in [Counters -> Nat]
    BY DEF UndoAccept, history, IInv, TypeOK
  <1>2. /\ active = Cardinality(Live) + 1 /\ Cardinality(Live) \in Nat
    BY <1>1, SetsFinite DEF IInv, SlotsAreExact
  <1>3. Policy' = Policy /\ Cardinality(Policy) \in Nat
    BY <1>1, SetsFinite DEF Policy, Is, At
  <1>4. /\ stats["connections_accepted"] \in Nat /\ stats["connections_rejected"] \in Nat
        /\ "connections_rejected" \in Counters
    BY <1>1 DEF Counters
  <1>5. /\ stats' \in [Counters -> Nat] /\ Outcomes' = Outcomes /\ ConnectionsAddUp'
    <2>1. CASE main = "undo_policy"
      <3>1. Count("connections_rejected")
        BY <2>1 DEF UndoAccept, CountPolicy
      <3>2. /\ stats' \in [Counters -> Nat] /\ Outcomes' = Outcomes
            /\ stats'["connections_accepted"] = stats["connections_accepted"]
            /\ stats'["connections_rejected"] = stats["connections_rejected"] + 1
        BY <1>1, <1>4, <3>1, CountFacts DEF Counters, OutcomeCounters
      <3> QED
        BY <1>1, <1>3, <1>4, <2>1, <3>2 DEF IInv, ConnectionsAddUp
    <2>2. CASE main # "undo_policy"
      <3>1. stats' = stats
        BY <2>2 DEF UndoAccept, CountPolicy
      <3> QED
        BY <1>1, <1>3, <1>4, <2>2, <3>1 DEF IInv, ConnectionsAddUp, Outcomes
    <2> QED
      BY <2>1, <2>2
  <1>6. TypeOK'
    BY <1>1, <1>2, <1>5 DEF IInv, TypeOK
  <1>7. ~ Undoing' /\ main # "exited"
    BY <1>1 DEF Undoing
  <1> QED
    BY <1>1, <1>2, <1>5, <1>6, <1>7, MainInv

\* A connection takes a slot: of a task, or one that is given back next.
LEMMA AcceptInv ==
    ASSUME IInv, NEW c \in Conns, NEW kind \in Kinds, Accept(c, kind)
    PROVE  IInv'
  <1> DEFINE pc == IF AtLimit THEN "closed" ELSE "reading"
             t == [pc |-> pc, kind |-> kind]
  <1>1. /\ main = "select" /\ conn[c].pc = "none" /\ conn \in [Conns -> Task]
        /\ conn' = [conn EXCEPT ![c] = t]
        /\ active' = active + 1
        /\ UNCHANGED <<shutdown, cancel, config, read, answered, failed>>
        /\ stats \in [Counters -> Nat]
    BY DEF Accept, Goto, At, history, IInv, TypeOK
  <1> HIDE DEF pc
  <1>2. t \in Task
    BY DEF Task, Kinds, pc
  <1>3. conn' \in [Conns -> Task] /\ \A d \in Conns : conn'[d] = IF d = c THEN t ELSE conn[d]
    BY <1>1, <1>2
  <1>4. c \notin Live /\ c \notin Policy /\ c \notin failed /\ read[c] = 0
    BY <1>1 DEF IInv, Live, Policy, Is, At, Sane
  <1>5. /\ Pending' = Pending
        /\ Policy' = IF kind = "policy" THEN Policy \cup {c} ELSE Policy
        /\ Live' = IF AtLimit THEN Live ELSE Live \cup {c}
    <2>1. Pending' = Pending
      BY <1>1, <1>3 DEF Pending, At, pc
    <2>2. Policy' = IF kind = "policy" THEN Policy \cup {c} ELSE Policy
      BY <1>1, <1>3, <1>4 DEF Policy, Is, At, pc
    <2>3. Live' = IF AtLimit THEN Live ELSE Live \cup {c}
      BY <1>1, <1>3, <1>4 DEF Live, At, pc
    <2> QED
      BY <2>1, <2>2, <2>3
  <1>6. /\ active = Cardinality(Live) /\ Cardinality(Live) \in Nat
        /\ Cardinality(Live) <= MAX_CONNECTIONS /\ MAX_CONNECTIONS \in Nat
    BY <1>1, SetsFinite, BoundsAssumption DEF IInv, SlotsAreExact, Undoing
  <1>7. Cardinality(Live \cup {c}) = Cardinality(Live) + 1
    BY <1>4, SetsFinite, FS_AddElement
  <1>8. Cardinality(Policy \cup {c}) = Cardinality(Policy) + 1 /\ Cardinality(Policy) \in Nat
    BY <1>4, SetsFinite, FS_AddElement
  <1>9. /\ stats["connections_accepted"] \in Nat /\ stats["connections_rejected"] \in Nat
        /\ "connections_accepted" \in Counters
        /\ stats["connections_accepted"] + stats["connections_rejected"] = Cardinality(Policy)
    BY <1>1, <1>8 DEF Counters, IInv, ConnectionsAddUp
  <1>10. \A d \in Conns : Answered(d)' /\ Closed(d)' /\ Sane(d)'
    <2> SUFFICES ASSUME NEW d \in Conns PROVE Answered(d)' /\ Closed(d)' /\ Sane(d)'
      OBVIOUS
    <2>1. Answered(d) /\ Closed(d) /\ Sane(d)
      BY DEF IInv
    <2>2. CASE d # c
      <3>1. conn'[d] = conn[d] /\ (d \in Live' <=> d \in Live)
        BY <1>3, <1>5, <2>2
      <3> QED
        BY <1>1, <2>1, <3>1 DEF Answered, Closed, Sane, At
    <2>3. CASE d = c
      <3>1. conn'[c].pc \in {"closed", "reading"}
        BY <1>3 DEF pc
      <3>2. read[c] - answered[c] = 0
        BY <1>1, <1>4, <2>1, <2>3 DEF Answered, At
      <3>3. Answered(c)'
        BY <1>1, <1>4, <3>1, <3>2 DEF Answered, Live, At
      <3>4. Closed(c)' /\ Sane(c)'
        BY <1>1, <1>4, <3>1 DEF Closed, Sane, At
      <3> QED
        BY <2>3, <3>3, <3>4
    <2> QED
      BY <2>2, <2>3
  <1>11. Cardinality(ReadBy(Policy)') = Cardinality(ReadBy(Policy))
         /\ ReadBy(Conns)' = ReadBy(Conns)
    <2>1. 1 .. read[c] = {} /\ {c} \X (1 .. read[c]) = {}
      BY <1>4
    <2>2. \A p : p \in ReadBy(Policy \cup {c}) <=> p \in ReadBy(Policy)
      BY <2>1, ReadByMember
    <2>3. ReadBy(Policy \cup {c}) = ReadBy(Policy)
      BY <2>2
    <2>4. ReadBy(Policy)' = ReadBy(Policy') /\ ReadBy(Conns)' = ReadBy(Conns)
      BY <1>1 DEF ReadBy
    <2> QED
      BY <1>5, <2>3, <2>4
  <1>12. CASE AtLimit
    <2>1. /\ main' = (IF kind = "policy" THEN "undo_policy" ELSE "undo_control")
          /\ stats' = stats
      BY <1>12 DEF Accept
    <2>2. TypeOK'
      BY <1>1, <1>3, <1>6, <2>1 DEF IInv, TypeOK
    <2>3. SlotsAreExact'
      BY <1>1, <1>5, <1>6, <1>12, <2>1 DEF SlotsAreExact, Undoing
    <2>4. ConnectionsAddUp'
      <3>1. CASE kind = "policy"
        BY <1>5, <1>8, <1>9, <2>1, <3>1 DEF ConnectionsAddUp
      <3>2. CASE kind # "policy"
        BY <1>5, <1>8, <1>9, <2>1, <3>2 DEF ConnectionsAddUp
      <3> QED
        BY <3>1, <3>2
    <2>5. RequestsAddUp'
      BY <1>1, <1>5, <1>11, <2>1 DEF IInv, RequestsAddUp, Outcomes
    <2> QED
      BY <1>10, <1>11, <2>2, <2>3, <2>4, <2>5 DEF IInv
  <1>13. CASE ~ AtLimit
    <2>1. main' = main /\ CountPolicy(kind, "connections_accepted")
      BY <1>13 DEF Accept
    <2>2. /\ stats' \in [Counters -> Nat] /\ Outcomes' = Outcomes
          /\ stats'["connections_rejected"] = stats["connections_rejected"]
          /\ stats'["connections_accepted"] =
                stats["connections_accepted"] + (IF kind = "policy" THEN 1 ELSE 0)
      <3>1. CASE kind = "policy"
        BY <1>1, <1>9, <2>1, <3>1, CountFacts DEF CountPolicy, Counters, OutcomeCounters
      <3>2. CASE kind # "policy"
        BY <1>1, <1>9, <2>1, <3>2 DEF CountPolicy, Outcomes
      <3> QED
        BY <3>1, <3>2
    <2>3. TypeOK'
      BY <1>1, <1>3, <1>6, <2>1, <2>2 DEF IInv, TypeOK
    <2>4. SlotsAreExact'
      BY <1>1, <1>5, <1>6, <1>7, <1>13, <2>1 DEF SlotsAreExact, Undoing, AtLimit
    <2>5. ConnectionsAddUp'
      <3>1. CASE kind = "policy"
        BY <1>1, <1>5, <1>8, <1>9, <2>1, <2>2, <3>1 DEF ConnectionsAddUp
      <3>2. CASE kind # "policy"
        BY <1>1, <1>5, <1>8, <1>9, <2>1, <2>2, <3>2 DEF ConnectionsAddUp
      <3> QED
        BY <3>1, <3>2
    <2>6. RequestsAddUp'
      BY <1>1, <1>5, <1>11, <2>1, <2>2 DEF IInv, RequestsAddUp
    <2> QED
      BY <1>10, <1>11, <2>3, <2>4, <2>5, <2>6 DEF IInv
  <1> QED
    BY <1>12, <1>13

\* The drain timeout: every task that is left is dropped with its slot.
LEMMA DrainTimeoutInv == IInv /\ DrainTimeout => IInv'
  <1> SUFFICES ASSUME IInv, DrainTimeout PROVE IInv'
    OBVIOUS
  <1>1. /\ main = "drain" /\ main' = "exited"
        /\ active' = active - Cardinality(Live)
        /\ UNCHANGED <<shutdown, cancel, config, stats, read, answered, failed>>
        /\ conn \in [Conns -> Task]
    BY DEF DrainTimeout, history, IInv, TypeOK
  <1>2. conn' = [c \in Conns |->
            IF c \in Live THEN [pc |-> "closed", kind |-> conn[c].kind] ELSE conn[c]]
    BY DEF DrainTimeout
  <1>3. \A c \in Live : c \in Conns /\ [pc |-> "closed", kind |-> conn[c].kind] \in Task
    BY <1>1, TaskFacts DEF Live, At, Task
  <1>4. conn' \in [Conns -> Task]
    BY <1>1, <1>2, <1>3
  <1>5. Live' = {} /\ Policy' = Policy
    <2>1. Live' = {}
      BY <1>2 DEF Live, At
    <2>2. Policy' = Policy
      BY <1>2 DEF Live, Policy, Is, At
    <2> QED
      BY <2>1, <2>2
  <1>6. active' = 0 /\ Cardinality(Live') = 0 /\ MAX_CONNECTIONS \in Nat
    BY <1>1, <1>5, SetsFinite, FS_EmptySet, BoundsAssumption
       DEF IInv, SlotsAreExact, Undoing
  <1>7. TypeOK' /\ SlotsAreExact'
    <2>1. active' \in Nat
      BY <1>6
    <2>2. TypeOK'
      BY <1>1, <1>4, <2>1 DEF IInv, TypeOK
    <2>3. SlotsAreExact'
      BY <1>1, <1>6 DEF SlotsAreExact, Undoing
    <2> QED
      BY <2>2, <2>3
  <1>8. ASSUME NEW c \in Conns PROVE Answered(c)' /\ Closed(c)' /\ Sane(c)'
    <2>1. Answered(c) /\ Closed(c) /\ Sane(c)
      BY DEF IInv
    <2>2. CASE c \in Live
      <3>1. conn'[c].pc = "closed"
        BY <1>2, <2>2
      <3> QED
        BY <1>1, <3>1 DEF Answered, Closed, Sane, At
    <2>3. CASE c \notin Live
      <3>1. conn'[c] = conn[c] /\ c \notin Live'
        BY <1>2, <1>5, <2>3
      <3> QED
        BY <1>1, <2>1, <2>3, <3>1 DEF Answered, Closed, Sane, At
    <2> QED
      BY <2>2, <2>3
  <1>9. IsFiniteSet(ReadBy(Conns)')
    <2>1. ReadBy(Conns)' = ReadBy(Conns)
      BY <1>1 DEF ReadBy
    <2> QED
      BY <2>1 DEF IInv
  <1>10. RequestsAddUp' /\ ConnectionsAddUp'
    BY <1>1, <1>5 DEF IInv, RequestsAddUp, ConnectionsAddUp
  <1> QED
    BY <1>7, <1>8, <1>9, <1>10 DEF IInv

----------------------------------------------------------------------------
(* The inductive invariant *)

\* IInv holds before the first connection.
LEMMA InitInv == Init => IInv
  <1> SUFFICES ASSUME Init PROVE IInv
    OBVIOUS
  <1>1. TypeOK
    BY DEF Init, TypeOK, Task
  <1>2. Live = {} /\ Policy = {} /\ Pending = {}
    BY DEF Init, Live, Policy, Pending, Is, At
  <1>3. SlotsAreExact
    BY <1>2, FS_EmptySet, BoundsAssumption DEF Init, SlotsAreExact, Undoing
  <1>4. \A c \in Conns : Answered(c) /\ Closed(c) /\ Sane(c)
    BY <1>2 DEF Init, Answered, Closed, Sane, At
  <1>5. ReadBy(Conns) = {} /\ ReadBy(Policy) = {}
    <2>1. \A c \in Conns : 1 .. read[c] = {}
      BY DEF Init
    <2>2. \A p : p \notin ReadBy(Conns)
      BY <2>1, ReadByMember
    <2> QED
      BY <1>2, <2>2 DEF ReadBy
  <1>6. RequestsAddUp /\ ConnectionsAddUp
    BY <1>2, <1>5, FS_EmptySet
       DEF Init, RequestsAddUp, ConnectionsAddUp, Outcomes, Counters
  <1> QED
    BY <1>1, <1>3, <1>4, <1>5, <1>6, FS_EmptySet DEF IInv

\* Every step keeps the invariant.
LEMMA StepInv == IInv /\ [Next]_vars => IInv'
  <1> SUFFICES ASSUME IInv, [Next]_vars PROVE IInv'
    OBVIOUS
  <1>1. CASE MainStep
    BY <1>1, LoopInv, UndoInv DEF MainStep
  <1>2. CASE DrainTimeout
    BY <1>2, DrainTimeoutInv
  <1>3. ASSUME NEW kind \in Kinds, AcceptError(kind) \/ \E c \in Conns : Accept(c, kind)
        PROVE  IInv'
    BY <1>3, LoopInv, AcceptInv
  <1>4. ASSUME NEW c \in Conns, TaskStep(c) PROVE IInv'
    BY <1>4, CheckDoneInv, DispatchedInv, WriteInv, WriteErrorInv, CloseInv DEF TaskStep
  <1>5. ASSUME NEW c \in Conns,
               \/ \E r \in Requests : ReadRequest(c, r)
               \/ ReadError(c) \/ ReadLine(c) \/ ReadTruncated(c) \/ PeerCloses(c)
        PROVE  IInv'
    BY <1>5, ReadRequestInv, ReadLineInv, CloseInv
  <1>6. CASE RequestShutdown \/ Reload
    BY <1>6, LoopInv
  <1>7. CASE UNCHANGED vars
    <2>1. /\ Live' = Live /\ Policy' = Policy /\ Pending' = Pending
          /\ ReadBy(Policy)' = ReadBy(Policy) /\ ReadBy(Conns)' = ReadBy(Conns)
      BY <1>7 DEF vars, Live, Policy, Pending, Is, At, ReadBy
    <2> QED
      BY <1>7, <2>1 DEF vars, IInv, TypeOK, SlotsAreExact, Undoing, Answered, Closed,
                        Sane, At, RequestsAddUp, ConnectionsAddUp, Outcomes
  <1> QED
    BY <1>1, <1>2, <1>3, <1>4, <1>5, <1>6, <1>7 DEF Next

\* The inductive invariant holds throughout.
LEMMA Invariance == Spec => []IInv
  BY InitInv, StepInv, PTL DEF Spec

----------------------------------------------------------------------------
(* Theorems *)

\* Every variable, every task included, keeps its type.
THEOREM TypeCorrect == Spec => []TypeOK
  <1>1. IInv => TypeOK
    BY DEF IInv
  <1> QED
    BY <1>1, Invariance, PTL

\* ACTIVE_CONNECTIONS is exact on every path out of a task, so the limit
\* holds and no slot is lost.
THEOREM SlotsExact == Spec => []SlotsAreExact
  <1>1. IInv => SlotsAreExact
    BY DEF IInv
  <1> QED
    BY <1>1, Invariance, PTL

\* Every request that was read is answered before the next one is read, as
\* long as the process runs: the cancellation of a shutdown drops none.
THEOREM RequestsAnswered == Spec => []EveryRequestIsAnswered
  <1>1. IInv => EveryRequestIsAnswered
    BY DEF IInv, EveryRequestIsAnswered, Answered
  <1> QED
    BY <1>1, Invariance, PTL

\* No mail passes unchecked but unauthenticated mail, and mail that the
\* config permits while Valkey fails.
THEOREM NothingSlipsThrough == Spec => []FailsClosed
  <1>1. IInv => FailsClosed
    BY DEF IInv, FailsClosed, Closed
  <1> QED
    BY <1>1, Invariance, PTL

\* The counters account for every request and every policy connection.
THEOREM CountersExact == Spec => []CountersAddUp
  <1>1. IInv => CountersAddUp
    BY DEF IInv, CountersAddUp, RequestsAddUp, ConnectionsAddUp, Policy, Pending,
           Outcomes, ReadFrom, ReadBy
  <1> QED
    BY <1>1, Invariance, PTL

----------------------------------------------------------------------------
(* Stats *)

\* report_stats passes the counters in the order of Printed, misconfigured
\* last.
PositionsOK ==
    /\ \A i \in 1 .. Len(Printed) :
        interval[Printed[i]] = interval["misconfigured"] + IF i < report.next THEN 1 ELSE 0
    /\ report.next # 0 => interval["misconfigured"] < MaxReports

\* The report holds the values of the counters that it has passed and not
\* yet printed; every event is somewhere.
CountedOK ==
    /\ \A i \in 1 .. Len(Printed) :
        ~ (i < report.next /\ report.next <= Len(Printed) + 1) => report.taken[Printed[i]] = 0
    /\ \A x \in Fields \ {"misconfigured"} :
        events[x] = reported[x] + report.taken[x] + counter[x]

\* The limit holds of every interval; nothing has been said of a later one;
\* and what has been said of the present one, the counter has seen.
SeenOK(x) ==
    \A i \in Intervals :
        /\ Said(x, i, "line") <= LOG_SUPPRESSION_LIMIT /\ Said(x, i, "notice") <= 1
        /\ i > interval[x] =>
            calls[<<x, i>>] = 0 /\ Said(x, i, "line") = 0 /\ Said(x, i, "notice") = 0
        /\ i = interval[x] =>
            /\ Said(x, i, "line") <= counter[x]
            /\ counter[x] <= LOG_SUPPRESSION_LIMIT => Said(x, i, "notice") = 0

\* Where the report is printed and the warnings stay as they are, the counter
\* is the number of calls in the present interval.
Steady(x) == level = "info" /\ (x = "unauthenticated" => reloads = 0)

ExactOK(x) ==
    Steady(x) =>
        /\ \A i \in Intervals : Exact(x, i)
        /\ ~ Silenced(x) => calls[<<x, interval[x]>>] = counter[x]
        /\ Silenced(x) => \A i \in Intervals : calls[<<x, i>>] = 0

\* The inductive invariant.
StatsInv ==
    /\ StatsTypeOK /\ PositionsOK /\ CountedOK
    /\ \A x \in Throttled : SeenOK(x) /\ ExactOK(x)

\* report_stats takes nine different counters; misconfigured is the tenth.
LEMMA PrintedFacts ==
    /\ Len(Printed) = 9
    /\ \A i \in 1 .. 9 : Printed[i] \in Fields \ {"misconfigured"}
    /\ \A i, j \in 1 .. 9 : Printed[i] = Printed[j] => i = j
    /\ \A x \in Fields \ {"misconfigured"} : \E i \in 1 .. 9 : x = Printed[i]
    /\ "misconfigured" \in Fields /\ Throttled \subseteq Fields
  <1>1. Len(Printed) = 9
    BY DEF Printed
  <1>2. /\ Printed[1] = "accepted" /\ Printed[2] = "rejected"
        /\ Printed[3] = "failed_deferred" /\ Printed[4] = "failed_permitted"
        /\ Printed[5] = "unauthenticated" /\ Printed[6] = "malformed"
        /\ Printed[7] = "connections_accepted" /\ Printed[8] = "connections_rejected"
        /\ Printed[9] = "accept_errors"
    BY DEF Printed
  <1>3. \A i \in 1 .. 9 : i = 1 \/ i = 2 \/ i = 3 \/ i = 4 \/ i = 5 \/ i = 6 \/ i = 7
                          \/ i = 8 \/ i = 9
    OBVIOUS
  <1>4. Fields = {Printed[i] : i \in 1 .. 9} \cup {"misconfigured"}
    BY <1>1 DEF Fields
  <1>5. \A i \in 1 .. 9 : Printed[i] # "misconfigured"
    BY <1>2, <1>3
  <1>6. \A i, j \in 1 .. 9 : Printed[i] = Printed[j] => i = j
    BY <1>2, <1>3
  <1>7. Throttled \subseteq Fields
    <2>1. 3 \in 1 .. 9 /\ 4 \in 1 .. 9 /\ 5 \in 1 .. 9 /\ 8 \in 1 .. 9
      OBVIOUS
    <2> QED
      BY <1>2, <1>4, <2>1 DEF Throttled
  <1> QED
    BY <1>1, <1>4, <1>5, <1>6, <1>7

\* The tasks that are about to write it.
AboutToSay(x, i, what) ==
    {t \in Tasks : task[t] = [says |-> what, kind |-> x, interval |-> i]}

\* Said counts: what was written and the tasks that are about to write.
LEMMA SaidTypes ==
    ASSUME StatsTypeOK, NEW x \in Fields, NEW i \in Intervals, NEW what \in {"line", "notice"}
    PROVE  /\ IsFiniteSet(AboutToSay(x, i, what)) /\ Cardinality(AboutToSay(x, i, what)) \in Nat
           /\ written[<<x, i, what>>] \in Nat /\ calls[<<x, i>>] \in Nat
           /\ Said(x, i, what) \in Nat
           /\ Said(x, i, what) = written[<<x, i, what>>] + Cardinality(AboutToSay(x, i, what))
  <1>1. IsFiniteSet(AboutToSay(x, i, what)) /\ Cardinality(AboutToSay(x, i, what)) \in Nat
    BY StatsAssumption, FS_Subset, FS_CardinalityType DEF AboutToSay
  <1>2. <<x, i, what>> \in Fields \X Intervals \X {"line", "notice"} /\ <<x, i>> \in Fields \X Intervals
    OBVIOUS
  <1>3. written[<<x, i, what>>] \in Nat /\ calls[<<x, i>>] \in Nat
    BY <1>2 DEF StatsTypeOK
  <1>4. Said(x, i, what) = written[<<x, i, what>>] + Cardinality(AboutToSay(x, i, what))
    BY DEF Said, AboutToSay
  <1> QED
    BY <1>1, <1>3, <1>4

\* Whatever leaves the tasks and the log alone leaves Said alone.
LEMMA SaidUnchanged ==
    ASSUME UNCHANGED <<task, written>>, NEW x, NEW i, NEW what
    PROVE  Said(x, i, what)' = Said(x, i, what)
  BY DEF Said

\* Writing moves a line or a notice from the task to the log.
LEMMA SaidAfterWrite ==
    ASSUME StatsTypeOK, NEW t \in Tasks, Write(t), StatsTypeOK',
           NEW x \in Fields, NEW i \in Intervals, NEW what \in {"line", "notice"}
    PROVE  Said(x, i, what)' = Said(x, i, what)
  <1> DEFINE r == [says |-> what, kind |-> x, interval |-> i]
             P == AboutToSay(x, i, what)
             Q == AboutToSay(x, i, what)'
  <1>1. /\ IsFiniteSet(P) /\ Cardinality(P) \in Nat
        /\ Said(x, i, what) = written[<<x, i, what>>] + Cardinality(P)
        /\ written[<<x, i, what>>] \in Nat
    BY SaidTypes
  <1>2. Said(x, i, what)' = written'[<<x, i, what>>] + Cardinality(Q)
    BY DEF Said, AboutToSay
  <1>3. /\ task[t] # Idle /\ task' = [task EXCEPT ![t] = Idle]
        /\ written' = [written EXCEPT ![<<task[t].kind, task[t].interval, task[t].says>>] = @ + 1]
    BY DEF Write
  <1>4. task \in [Tasks -> {Idle} \cup [says : {"line", "notice"}, kind : Throttled,
                                       interval : Intervals]]
    BY DEF StatsTypeOK
  <1>5. task[t] \in [says : {"line", "notice"}, kind : Throttled, interval : Intervals]
    BY <1>3, <1>4
  <1>6. Idle # r
    BY DEF Idle
  <1>7. \A u \in Tasks : task'[u] = IF u = t THEN Idle ELSE task[u]
    BY <1>3, <1>4
  <1>8. \A u : u \in P <=> u \in Tasks /\ task[u] = r
    BY DEF AboutToSay
  <1>9. \A u : u \in Q <=> u \in Tasks /\ task'[u] = r
    BY DEF AboutToSay
  <1>10. written \in [Fields \X Intervals \X {"line", "notice"} -> Nat]
         /\ <<x, i, what>> \in Fields \X Intervals \X {"line", "notice"}
    BY DEF StatsTypeOK
  <1>11. CASE task[t] = r
    <2>1. task[t].kind = x /\ task[t].interval = i /\ task[t].says = what
      BY <1>11
    <2>2. written'[<<x, i, what>>] = written[<<x, i, what>>] + 1
      BY <1>3, <1>10, <2>1
    <2> HIDE DEF P, Q, r
    <2>3. t \in P /\ Q = P \ {t}
      BY <1>6, <1>7, <1>8, <1>9, <1>11
    <2>4. Cardinality(Q) = Cardinality(P) - 1
      BY <1>1, <2>3, FS_RemoveElement
    <2> QED
      BY <1>1, <1>2, <2>2, <2>4
  <1>12. CASE task[t] # r
    <2>1. <<task[t].kind, task[t].interval, task[t].says>> # <<x, i, what>>
      BY <1>5, <1>12
    <2>2. written'[<<x, i, what>>] = written[<<x, i, what>>]
      BY <1>3, <1>10, <2>1
    <2> HIDE DEF P, Q, r
    <2>3. Q = P
      BY <1>6, <1>7, <1>8, <1>9, <1>12
    <2> QED
      BY <1>1, <1>2, <2>2, <2>3
  <1> QED
    BY <1>11, <1>12

\* log_throttled adds one to what it says, and to nothing else.
LEMMA SaidAfterCall ==
    ASSUME StatsTypeOK, NEW t \in Tasks, NEW y \in Throttled, CountEvent(t, y),
           ~ Silenced(y), Says(counter[y]) # "quiet",
           NEW x \in Fields, NEW i \in Intervals, NEW what \in {"line", "notice"}
    PROVE  Said(x, i, what)' = Said(x, i, what)
               + IF x = y /\ i = interval[y] /\ what = Says(counter[y]) THEN 1 ELSE 0
  <1> DEFINE k == interval[y]
             says == Says(counter[y])
             r == [says |-> what, kind |-> x, interval |-> i]
             new == [says |-> says, kind |-> y, interval |-> k]
             P == AboutToSay(x, i, what)
             Q == AboutToSay(x, i, what)'
  <1>1. /\ IsFiniteSet(P) /\ Cardinality(P) \in Nat
        /\ Said(x, i, what) = written[<<x, i, what>>] + Cardinality(P)
        /\ written[<<x, i, what>>] \in Nat
    BY SaidTypes
  <1>0. /\ task[t] = Idle /\ UNCHANGED written /\ task' = [task EXCEPT ![t] = new]
    BY DEF CountEvent
  <1>2. Said(x, i, what)' = written[<<x, i, what>>] + Cardinality(Q)
    BY <1>0 DEF Said, AboutToSay
  <1>3. \A u \in Tasks : task'[u] = IF u = t THEN new ELSE task[u]
    BY <1>0 DEF StatsTypeOK
  <1>4. task[t] # r
    BY <1>0 DEF Idle
  <1>5. \A u : u \in P <=> u \in Tasks /\ task[u] = r
    BY DEF AboutToSay
  <1>6. \A u : u \in Q <=> u \in Tasks /\ task'[u] = r
    BY DEF AboutToSay
  <1>7. new = r <=> x = y /\ i = k /\ what = says
    OBVIOUS
  <1> HIDE DEF P, Q, r, new, says, k
  <1>8. CASE new = r
    <2>1. t \notin P /\ Q = P \cup {t}
      BY <1>3, <1>4, <1>5, <1>6, <1>8
    <2>2. Cardinality(Q) = Cardinality(P) + 1
      BY <1>1, <2>1, FS_AddElement
    <2> QED
      BY <1>1, <1>2, <1>7, <1>8, <2>2 DEF k, says
  <1>9. CASE new # r
    <2>1. Q = P
      BY <1>3, <1>4, <1>5, <1>6, <1>9
    <2> QED
      BY <1>1, <1>2, <1>7, <1>9, <2>1 DEF k, says
  <1> QED
    BY <1>8, <1>9

\* The kinds of state that SeenOK and ExactOK are about.
LEMMA CounterTypes ==
    ASSUME StatsTypeOK, NEW x \in Fields
    PROVE  /\ counter[x] \in Nat /\ interval[x] \in Intervals /\ Intervals \subseteq Nat
           /\ interval[x] \in Nat /\ LOG_SUPPRESSION_LIMIT \in Nat
           /\ \A i \in Intervals : calls[<<x, i>>] \in Nat
           /\ \A i \in Intervals : Said(x, i, "line") \in Nat /\ Said(x, i, "notice") \in Nat
  <1>1. Intervals \subseteq Nat /\ LOG_SUPPRESSION_LIMIT \in Nat
    BY StatsAssumption DEF Intervals
  <1>2. counter[x] \in Nat /\ interval[x] \in Intervals
    BY DEF StatsTypeOK
  <1>3. \A i \in Intervals : calls[<<x, i>>] \in Nat
    BY SaidTypes
  <1>4. \A i \in Intervals : Said(x, i, "line") \in Nat /\ Said(x, i, "notice") \in Nat
    BY SaidTypes
  <1> QED
    BY <1>1, <1>2, <1>3, <1>4

\* A report that passes a counter, or leaves it alone, keeps SeenOK.
LEMMA SeenAfterPass ==
    ASSUME StatsTypeOK, StatsTypeOK', UNCHANGED calls, NEW x \in Throttled, SeenOK(x),
           \A i \in Intervals : /\ Said(x, i, "line")' = Said(x, i, "line")
                                /\ Said(x, i, "notice")' = Said(x, i, "notice"),
           \/ interval'[x] = interval[x] /\ counter'[x] = counter[x]
           \/ interval'[x] = interval[x] + 1
    PROVE  SeenOK(x)'
  <1>1. x \in Fields /\ interval[x] \in Nat /\ Intervals \subseteq Nat
    BY PrintedFacts, CounterTypes
  <1>2. interval'[x] \in Nat /\ counter'[x] \in Nat
    BY <1>1 DEF StatsTypeOK, Intervals
  <1> SUFFICES ASSUME NEW i \in Intervals
               PROVE  /\ Said(x, i, "line")' <= LOG_SUPPRESSION_LIMIT
                      /\ Said(x, i, "notice")' <= 1
                      /\ i > interval'[x] =>
                            /\ calls'[<<x, i>>] = 0
                            /\ Said(x, i, "line")' = 0 /\ Said(x, i, "notice")' = 0
                      /\ i = interval'[x] =>
                            /\ Said(x, i, "line")' <= counter'[x]
                            /\ counter'[x] <= LOG_SUPPRESSION_LIMIT =>
                                    Said(x, i, "notice")' = 0
    BY DEF SeenOK, Intervals
  <1>3. /\ Said(x, i, "line")' = Said(x, i, "line")
        /\ Said(x, i, "notice")' = Said(x, i, "notice")
        /\ i \in Nat
    BY <1>1
  <1>4. /\ Said(x, i, "line") <= LOG_SUPPRESSION_LIMIT /\ Said(x, i, "notice") <= 1
        /\ i > interval[x] =>
            calls[<<x, i>>] = 0 /\ Said(x, i, "line") = 0 /\ Said(x, i, "notice") = 0
        /\ i = interval[x] =>
            /\ Said(x, i, "line") <= counter[x]
            /\ counter[x] <= LOG_SUPPRESSION_LIMIT => Said(x, i, "notice") = 0
    BY DEF SeenOK
  <1> QED
    BY <1>1, <1>2, <1>3, <1>4

\* The same of ExactOK, if the report takes what it passes.
LEMMA ExactAfterPass ==
    ASSUME StatsTypeOK, UNCHANGED <<calls, level, warn, reloads>>,
           NEW x \in Throttled, SeenOK(x), ExactOK(x),
           \A i \in Intervals : /\ Said(x, i, "line")' = Said(x, i, "line")
                                /\ Said(x, i, "notice")' = Said(x, i, "notice"),
           \/ interval'[x] = interval[x] /\ counter'[x] = counter[x]
           \/ /\ interval'[x] = interval[x] + 1 /\ interval'[x] \in Intervals
              /\ counter'[x] = 0 \/ level # "info"
    PROVE  ExactOK(x)'
  <1>1. x \in Fields /\ interval[x] \in Nat /\ Intervals \subseteq Nat
    BY PrintedFacts, CounterTypes
  <1> SUFFICES ASSUME Steady(x)
               PROVE  /\ \A i \in Intervals : Exact(x, i)'
                      /\ ~ Silenced(x) => calls'[<<x, interval'[x]>>] = counter'[x]
                      /\ Silenced(x) => \A i \in Intervals : calls'[<<x, i>>] = 0
    BY DEF ExactOK, Steady, Silenced, Intervals
  <1>2. /\ \A i \in Intervals : Exact(x, i)
        /\ ~ Silenced(x) => calls[<<x, interval[x]>>] = counter[x]
        /\ Silenced(x) => \A i \in Intervals : calls[<<x, i>>] = 0
    BY DEF ExactOK
  <1>3. \A i \in Intervals : Exact(x, i)'
    BY <1>2 DEF Exact
  <1>4. ASSUME ~ Silenced(x) PROVE calls'[<<x, interval'[x]>>] = counter'[x]
    <2>1. CASE interval'[x] = interval[x] /\ counter'[x] = counter[x]
      BY <1>2, <1>4, <2>1
    <2>2. CASE interval'[x] = interval[x] + 1 /\ interval'[x] \in Intervals /\ counter'[x] = 0
      <3>1. interval'[x] > interval[x]
        BY <1>1, <2>2
      <3> QED
        BY <2>2, <3>1 DEF SeenOK
    <2> QED
      BY <2>1, <2>2 DEF Steady
  <1> QED
    BY <1>2, <1>3, <1>4

\* What a call of log_throttled adds to what has been said.
Adds(x, what) == IF Says(counter[x]) = what THEN 1 ELSE 0

\* A call of log_throttled for x, in the present interval of x.
LEMMA CallFacts ==
    ASSUME StatsTypeOK, NEW t \in Tasks, NEW y \in Throttled, CountEvent(t, y), ~ Silenced(y)
    PROVE  /\ counter' = [counter EXCEPT ![y] = @ + 1]
           /\ calls' = [calls EXCEPT ![<<y, interval[y]>>] = @ + 1]
           /\ UNCHANGED <<interval, level, warn, reloads>>
           /\ \A x \in Throttled, i \in Intervals, what \in {"line", "notice"} :
                Said(x, i, what)' = Said(x, i, what)
                    + IF x = y /\ i = interval[y] THEN Adds(y, what) ELSE 0
  <1>1. /\ counter' = [counter EXCEPT ![y] = @ + 1]
        /\ calls' = [calls EXCEPT ![<<y, interval[y]>>] = @ + 1]
        /\ UNCHANGED <<interval, level, warn, reloads, written>> /\ task[t] = Idle
        /\ task' = [task EXCEPT ![t] =
                IF Says(counter[y]) = "quiet" THEN Idle
                ELSE [says |-> Says(counter[y]), kind |-> y, interval |-> interval[y]]]
    BY DEF CountEvent
  <1>2. y \in Fields /\ interval[y] \in Intervals
    BY PrintedFacts, CounterTypes
  <1>3. Says(counter[y]) \in {"line", "notice", "quiet"}
    BY DEF Says
  <1>4. ASSUME NEW x \in Throttled, NEW i \in Intervals, NEW what \in {"line", "notice"}
        PROVE  Said(x, i, what)' = Said(x, i, what)
                   + IF x = y /\ i = interval[y] THEN Adds(y, what) ELSE 0
    <2>0. x \in Fields /\ Said(x, i, what) \in Nat
      BY PrintedFacts, SaidTypes
    <2>1. CASE Says(counter[y]) = "quiet"
      <3>1. UNCHANGED <<task, written>>
        BY <1>1, <2>1 DEF StatsTypeOK
      <3>2. Said(x, i, what)' = Said(x, i, what)
        BY <3>1, SaidUnchanged
      <3>3. Adds(y, what) = 0
        BY <2>1 DEF Adds
      <3> QED
        BY <2>0, <3>2, <3>3
    <2>2. CASE Says(counter[y]) # "quiet"
      <3>1. Said(x, i, what)' = Said(x, i, what)
               + IF x = y /\ i = interval[y] /\ what = Says(counter[y]) THEN 1 ELSE 0
        BY <2>0, <2>2, SaidAfterCall
      <3> QED
        BY <2>0, <3>1 DEF Adds
    <2> QED
      BY <2>1, <2>2
  <1> QED
    BY <1>1, <1>4

\* A call keeps SeenOK.
LEMMA SeenAfterCall ==
    ASSUME StatsTypeOK, NEW t \in Tasks, NEW y \in Throttled, CountEvent(t, y), ~ Silenced(y),
           NEW x \in Throttled, SeenOK(x)
    PROVE  SeenOK(x)'
  <1>0. /\ counter' = [counter EXCEPT ![y] = @ + 1]
        /\ calls' = [calls EXCEPT ![<<y, interval[y]>>] = @ + 1]
        /\ UNCHANGED <<interval, level, warn, reloads>>
        /\ \A i \in Intervals, what \in {"line", "notice"} :
                Said(x, i, what)' = Said(x, i, what)
                    + IF x = y /\ i = interval[y] THEN Adds(y, what) ELSE 0
    BY CallFacts
  <1> DEFINE c == counter[x]
             k == interval[x]
             L == LOG_SUPPRESSION_LIMIT
             line == IF x = y THEN Adds(y, "line") ELSE 0
             notice == IF x = y THEN Adds(y, "notice") ELSE 0
  <1>1. x \in Fields /\ y \in Fields /\ k \in Nat /\ Intervals \subseteq Nat /\ c \in Nat /\ L \in Nat
        /\ \A i \in Intervals : Said(x, i, "line") \in Nat /\ Said(x, i, "notice") \in Nat
    BY PrintedFacts, CounterTypes
  <1>2. interval'[x] = k /\ counter'[x] = c + IF x = y THEN 1 ELSE 0
    BY <1>0, <1>1 DEF StatsTypeOK
  <1>3. ASSUME NEW i \in Intervals
        PROVE  /\ Said(x, i, "line")' = Said(x, i, "line") + IF i = k THEN line ELSE 0
               /\ Said(x, i, "notice")' = Said(x, i, "notice") + IF i = k THEN notice ELSE 0
    BY <1>0, <1>1
  <1>4. /\ line = IF x = y /\ c < L THEN 1 ELSE 0
        /\ notice = IF x = y /\ c = L THEN 1 ELSE 0
    BY <1>1 DEF Adds, Says
  <1>5. ASSUME NEW i \in Intervals, i # k PROVE calls'[<<x, i>>] = calls[<<x, i>>]
    <2>1. <<x, i>> # <<y, interval[y]>>
      BY <1>5
    <2> QED
      BY <1>0, <1>1, <2>1 DEF StatsTypeOK
  <1> HIDE DEF c, k, L, line, notice
  <1> SUFFICES ASSUME NEW i \in Intervals
               PROVE  /\ Said(x, i, "line")' <= L
                      /\ Said(x, i, "notice")' <= 1
                      /\ i > k => /\ calls'[<<x, i>>] = 0
                                  /\ Said(x, i, "line")' = 0 /\ Said(x, i, "notice")' = 0
                      /\ i = k => /\ Said(x, i, "line")' <= counter'[x]
                                  /\ counter'[x] <= L => Said(x, i, "notice")' = 0
    BY <1>2 DEF SeenOK, Intervals, L
  <1>6. /\ Said(x, i, "line") <= L /\ Said(x, i, "notice") <= 1
        /\ i > k => calls[<<x, i>>] = 0 /\ Said(x, i, "line") = 0 /\ Said(x, i, "notice") = 0
        /\ i = k => /\ Said(x, i, "line") <= c
                    /\ c <= L => Said(x, i, "notice") = 0
    BY DEF SeenOK, k, c, L
  <1>7. CASE i = k
    BY <1>1, <1>2, <1>3, <1>4, <1>6, <1>7
  <1>8. CASE i # k
    BY <1>1, <1>3, <1>5, <1>6, <1>8
  <1> QED
    BY <1>7, <1>8

\* A call keeps ExactOK.
LEMMA ExactAfterCall ==
    ASSUME StatsTypeOK, NEW t \in Tasks, NEW y \in Throttled, CountEvent(t, y), ~ Silenced(y),
           NEW x \in Throttled, ExactOK(x)
    PROVE  ExactOK(x)'
  <1>0. /\ counter' = [counter EXCEPT ![y] = @ + 1]
        /\ calls' = [calls EXCEPT ![<<y, interval[y]>>] = @ + 1]
        /\ UNCHANGED <<interval, level, warn, reloads>>
        /\ \A i \in Intervals, what \in {"line", "notice"} :
                Said(x, i, what)' = Said(x, i, what)
                    + IF x = y /\ i = interval[y] THEN Adds(y, what) ELSE 0
    BY CallFacts
  <1> DEFINE c == counter[x]
             k == interval[x]
             L == LOG_SUPPRESSION_LIMIT
             line == IF x = y THEN Adds(y, "line") ELSE 0
             notice == IF x = y THEN Adds(y, "notice") ELSE 0
  <1>1. x \in Fields /\ y \in Fields /\ k \in Intervals /\ c \in Nat /\ L \in Nat
        /\ \A i \in Intervals : /\ Said(x, i, "line") \in Nat /\ Said(x, i, "notice") \in Nat
                                /\ calls[<<x, i>>] \in Nat
    BY PrintedFacts, CounterTypes
  <1>2. /\ interval'[x] = k /\ counter'[x] = c + IF x = y THEN 1 ELSE 0
        /\ UNCHANGED <<level, warn, reloads>>
    BY <1>0, <1>1 DEF StatsTypeOK
  <1>3. ASSUME NEW i \in Intervals
        PROVE  /\ Said(x, i, "line")' = Said(x, i, "line") + IF i = k THEN line ELSE 0
               /\ Said(x, i, "notice")' = Said(x, i, "notice") + IF i = k THEN notice ELSE 0
    BY <1>0, <1>1
  <1>4. /\ line = IF x = y /\ c < L THEN 1 ELSE 0
        /\ notice = IF x = y /\ c = L THEN 1 ELSE 0
    BY <1>1 DEF Adds, Says
  <1>5. ASSUME NEW i \in Intervals
        PROVE  calls'[<<x, i>>] = calls[<<x, i>>] + IF x = y /\ i = k THEN 1 ELSE 0
    <2>1. <<x, i>> \in Fields \X Intervals /\ <<y, interval[y]>> \in Fields \X Intervals
      BY <1>1, CounterTypes
    <2>2. calls' = [calls EXCEPT ![<<y, interval[y]>>] = @ + 1]
      BY <1>0
    <2>3. <<x, i>> = <<y, interval[y]>> <=> x = y /\ i = k
      OBVIOUS
    <2>4. calls \in [Fields \X Intervals -> Nat]
      BY DEF StatsTypeOK
    <2> QED
      BY <2>1, <2>2, <2>3, <2>4
  <1>6. x = y => ~ Silenced(x)
    OBVIOUS
  <1> SUFFICES ASSUME Steady(x)
               PROVE  /\ \A i \in Intervals : Exact(x, i)'
                      /\ ~ Silenced(x) => calls'[<<x, interval'[x]>>] = counter'[x]
                      /\ Silenced(x) => \A i \in Intervals : calls'[<<x, i>>] = 0
    BY <1>2 DEF ExactOK, Steady, Silenced, Intervals
  <1>7. /\ \A i \in Intervals : Exact(x, i)
        /\ ~ Silenced(x) => calls[<<x, k>>] = c
        /\ Silenced(x) => \A i \in Intervals : calls[<<x, i>>] = 0
    BY DEF ExactOK
  <1> HIDE DEF c, k, L, line, notice
  <1>8. ~ Silenced(x) => calls'[<<x, interval'[x]>>] = counter'[x]
    BY <1>1, <1>2, <1>5, <1>7
  <1>9. Silenced(x) => \A i \in Intervals : calls'[<<x, i>>] = 0
    BY <1>1, <1>5, <1>6, <1>7
  <1>10. ASSUME NEW i \in Intervals PROVE Exact(x, i)'
    <2> DEFINE n == calls[<<x, i>>]
    <2>1. /\ Said(x, i, "line") = IF n < L THEN n ELSE L
          /\ Said(x, i, "notice") = IF n > L THEN 1 ELSE 0
      BY <1>7 DEF Exact, L
    <2>2. n \in Nat /\ Said(x, i, "line") \in Nat /\ Said(x, i, "notice") \in Nat
      BY <1>1
    <2>3. /\ Said(x, i, "line")' = IF calls'[<<x, i>>] < L THEN calls'[<<x, i>>] ELSE L
          /\ Said(x, i, "notice")' = IF calls'[<<x, i>>] > L THEN 1 ELSE 0
      <3>1. CASE x = y /\ i = k
        <4>1. n = c
          BY <1>6, <1>7, <3>1
        <4>2. calls'[<<x, i>>] = n + 1
          BY <1>5, <3>1
        <4>3. /\ Said(x, i, "line")' = Said(x, i, "line") + IF n < L THEN 1 ELSE 0
              /\ Said(x, i, "notice")' = Said(x, i, "notice") + IF n = L THEN 1 ELSE 0
          BY <1>3, <1>4, <3>1, <4>1
        <4> HIDE DEF n
        <4> QED
          BY <1>1, <2>1, <2>2, <4>2, <4>3
      <3>2. CASE ~ (x = y /\ i = k)
        <4>1. calls'[<<x, i>>] = n
          BY <1>5, <2>2, <3>2
        <4>2. /\ Said(x, i, "line")' = Said(x, i, "line")
              /\ Said(x, i, "notice")' = Said(x, i, "notice")
          <5>1. \/ i # k
                \/ line = 0 /\ notice = 0
            BY <1>4, <3>2
          <5>2. CASE i # k
            <6>1. /\ Said(x, i, "line")' = Said(x, i, "line") + 0
                  /\ Said(x, i, "notice")' = Said(x, i, "notice") + 0
              BY <1>3, <5>2
            <6> QED
              BY <2>2, <6>1
          <5>3. CASE line = 0 /\ notice = 0
            <6>1. /\ Said(x, i, "line")' = Said(x, i, "line") + 0
                  /\ Said(x, i, "notice")' = Said(x, i, "notice") + 0
              BY <1>3, <5>3
            <6> QED
              BY <2>2, <6>1
          <5> QED
            BY <5>1, <5>2, <5>3
        <4> QED
          BY <2>1, <4>1, <4>2
      <3> QED
        BY <3>1, <3>2
    <2> QED
      BY <2>3 DEF Exact, L
  <1> QED
    BY <1>8, <1>9, <1>10

\* StatsInv holds when the daemon starts.
LEMMA StatsInitInv == StatsInit => StatsInv
  <1> SUFFICES ASSUME StatsInit PROVE StatsInv
    OBVIOUS
  <1>1. /\ \A x \in Fields : counter[x] = 0 /\ interval[x] = 0 /\ reported[x] = 0 /\ events[x] = 0
        /\ \A x \in Fields, i \in Intervals : calls[<<x, i>>] = 0
        /\ \A x \in Fields, i \in Intervals, what \in {"line", "notice"} :
                written[<<x, i, what>>] = 0
        /\ \A t \in Tasks : task[t] = Idle
    BY DEF StatsInit, Zero
  <1>2. report.next = 0 /\ \A x \in Fields : report.taken[x] = 0
    BY DEF StatsInit, Zero
  <1>3. 0 \in Intervals /\ LOG_SUPPRESSION_LIMIT \in Nat
    BY StatsAssumption DEF Intervals
  <1>4. StatsTypeOK
    <2>1. Zero \in [Fields -> Nat] /\ Zero \in [Fields -> Intervals]
      BY <1>3 DEF Zero
    <2>2. report \in [next : 0 .. Len(Printed) + 2, taken : [Fields -> Nat]]
      BY <2>1, PrintedFacts DEF StatsInit
    <2>3. /\ calls \in [Fields \X Intervals -> Nat]
          /\ written \in [Fields \X Intervals \X {"line", "notice"} -> Nat]
      BY DEF StatsInit
    <2> QED
      BY <2>1, <2>2, <2>3 DEF StatsInit, StatsTypeOK
  <1>5. PositionsOK /\ CountedOK
    <2>1. PositionsOK
      BY <1>1, <1>2, PrintedFacts DEF PositionsOK
    <2>2. CountedOK
      BY <1>1, <1>2, PrintedFacts DEF CountedOK
    <2> QED
      BY <2>1, <2>2
  <1>6. ASSUME NEW x \in Throttled, NEW i \in Intervals, NEW what \in {"line", "notice"}
        PROVE  Said(x, i, what) = 0
    <2>1. AboutToSay(x, i, what) = {}
      BY <1>1 DEF AboutToSay, Idle
    <2>2. x \in Fields /\ written[<<x, i, what>>] = 0
      BY <1>1, PrintedFacts
    <2>3. Cardinality({}) = 0
      BY FS_EmptySet
    <2>4. Said(x, i, what) = written[<<x, i, what>>] + Cardinality(AboutToSay(x, i, what))
      BY <1>4, <2>2, SaidTypes
    <2> QED
      BY <2>1, <2>2, <2>3, <2>4
  <1>7. ASSUME NEW x \in Throttled PROVE SeenOK(x) /\ ExactOK(x)
    <2>1. x \in Fields /\ interval[x] = 0 /\ counter[x] = 0
      BY <1>1, PrintedFacts
    <2>2. SeenOK(x)
      BY <1>1, <1>3, <1>6, <2>1 DEF SeenOK
    <2>3. \A i \in Intervals : Exact(x, i)
      BY <1>1, <1>3, <1>6, <2>1 DEF Exact
    <2>4. \A i \in Intervals : calls[<<x, i>>] = 0
      BY <1>1, <2>1
    <2> QED
      BY <1>3, <2>1, <2>2, <2>3, <2>4 DEF ExactOK
  <1> QED
    BY <1>4, <1>5, <1>7 DEF StatsInv

\* A counter that counts without a call: by configuration, or because
\* log_throttled is not called for it.
LEMMA SilentCount ==
    ASSUME StatsTypeOK, NEW t \in Tasks, NEW y \in Fields, CountEvent(t, y),
           ~ (y \in Throttled /\ ~ Silenced(y)), NEW x \in Throttled, SeenOK(x), ExactOK(x)
    PROVE  SeenOK(x)' /\ ExactOK(x)'
  <1>1. /\ counter' = [counter EXCEPT ![y] = @ + 1]
        /\ UNCHANGED <<calls, task, written, interval, level, warn, reloads>>
    BY DEF CountEvent
  <1>2. \A i \in Intervals, what \in {"line", "notice"} : Said(x, i, what)' = Said(x, i, what)
    BY <1>1, SaidUnchanged
  <1>3. /\ x \in Fields /\ counter[x] \in Nat /\ LOG_SUPPRESSION_LIMIT \in Nat
        /\ \A i \in Intervals : Said(x, i, "line") \in Nat
    BY PrintedFacts, CounterTypes
  <1>4. /\ counter'[x] = IF x = y THEN counter[x] + 1 ELSE counter[x]
        /\ interval'[x] = interval[x]
    BY <1>1, <1>3 DEF StatsTypeOK
  <1>5. counter'[x] \in Nat /\ counter[x] <= counter'[x]
    BY <1>3, <1>4
  <1>6. SeenOK(x)'
    <2> SUFFICES ASSUME NEW i \in Intervals
                 PROVE  /\ Said(x, i, "line")' <= LOG_SUPPRESSION_LIMIT
                        /\ Said(x, i, "notice")' <= 1
                        /\ i > interval'[x] =>
                            /\ calls'[<<x, i>>] = 0
                            /\ Said(x, i, "line")' = 0 /\ Said(x, i, "notice")' = 0
                        /\ i = interval'[x] =>
                            /\ Said(x, i, "line")' <= counter'[x]
                            /\ counter'[x] <= LOG_SUPPRESSION_LIMIT =>
                                    Said(x, i, "notice")' = 0
      BY DEF SeenOK, Intervals
    <2>1. /\ Said(x, i, "line")' = Said(x, i, "line")
          /\ Said(x, i, "notice")' = Said(x, i, "notice")
          /\ Said(x, i, "line") \in Nat
      BY <1>2, <1>3
    <2>2. /\ Said(x, i, "line") <= LOG_SUPPRESSION_LIMIT /\ Said(x, i, "notice") <= 1
          /\ i > interval[x] =>
              calls[<<x, i>>] = 0 /\ Said(x, i, "line") = 0 /\ Said(x, i, "notice") = 0
          /\ i = interval[x] =>
              /\ Said(x, i, "line") <= counter[x]
              /\ counter[x] <= LOG_SUPPRESSION_LIMIT => Said(x, i, "notice") = 0
      BY DEF SeenOK
    <2> QED
      BY <1>1, <1>3, <1>4, <1>5, <2>1, <2>2
  <1>7. ExactOK(x)'
    <2> SUFFICES ASSUME Steady(x)
                 PROVE  /\ \A i \in Intervals : Exact(x, i)'
                        /\ ~ Silenced(x) => calls'[<<x, interval'[x]>>] = counter'[x]
                        /\ Silenced(x) => \A i \in Intervals : calls'[<<x, i>>] = 0
      BY <1>1 DEF ExactOK, Steady, Silenced, Intervals
    <2>1. /\ \A i \in Intervals : Exact(x, i)
          /\ ~ Silenced(x) => calls[<<x, interval[x]>>] = counter[x]
          /\ Silenced(x) => \A i \in Intervals : calls[<<x, i>>] = 0
      BY DEF ExactOK
    <2>2. \A i \in Intervals : Exact(x, i)'
      BY <1>1, <1>2, <2>1 DEF Exact
    <2>3. ~ Silenced(x) => counter'[x] = counter[x]
      BY <1>4
    <2> QED
      BY <1>1, <1>4, <2>1, <2>2, <2>3
  <1> QED
    BY <1>6, <1>7

\* Counting an event, with or without a call.
LEMMA CountInv ==
    ASSUME StatsInv, NEW t \in Tasks, NEW y \in Events, CountEvent(t, y)
    PROVE  StatsInv'
  <1>0. StatsTypeOK /\ PositionsOK /\ CountedOK /\ y \in Fields /\ Throttled \subseteq Fields
    BY StatsAssumption, PrintedFacts DEF StatsInv
  <1>1. /\ counter' = [counter EXCEPT ![y] = @ + 1] /\ events' = [events EXCEPT ![y] = @ + 1]
        /\ UNCHANGED <<level, warn, report, interval, written, reported, reloads>>
    BY DEF CountEvent
  <1>2. calls' \in [Fields \X Intervals -> Nat]
        /\ task' \in [Tasks -> {Idle} \cup [says : {"line", "notice"}, kind : Throttled,
                                           interval : Intervals]]
    <2>1. CASE y \in Throttled /\ ~ Silenced(y)
      <3>1. <<y, interval[y]>> \in Fields \X Intervals /\ interval[y] \in Intervals
        BY <1>0, CounterTypes
      <3>2. calls' = [calls EXCEPT ![<<y, interval[y]>>] = @ + 1]
        BY <2>1 DEF CountEvent
      <3>3. calls' \in [Fields \X Intervals -> Nat]
        BY <1>0, <3>1, <3>2 DEF StatsTypeOK
      <3>4. Says(counter[y]) = "quiet" \/ Says(counter[y]) \in {"line", "notice"}
        BY DEF Says
      <3> DEFINE new == IF Says(counter[y]) = "quiet" THEN Idle
                        ELSE [says |-> Says(counter[y]), kind |-> y, interval |-> interval[y]]
      <3>5. new \in {Idle} \cup [says : {"line", "notice"}, kind : Throttled,
                                 interval : Intervals]
        BY <2>1, <3>1, <3>4
      <3>6. task' = [task EXCEPT ![t] = new]
        BY <2>1 DEF CountEvent
      <3> HIDE DEF new
      <3> QED
        BY <1>0, <3>3, <3>5, <3>6 DEF StatsTypeOK
    <2>2. CASE ~ (y \in Throttled /\ ~ Silenced(y))
      BY <1>0, <2>2 DEF CountEvent, StatsTypeOK
    <2> QED
      BY <2>1, <2>2
  <1>3. StatsTypeOK'
    <2>1. counter' \in [Fields -> Nat] /\ events' \in [Fields -> Nat]
      BY <1>0, <1>1 DEF StatsTypeOK
    <2> QED
      BY <1>0, <1>1, <1>2, <2>1 DEF StatsTypeOK, Intervals
  <1>4. PositionsOK'
    BY <1>0, <1>1 DEF PositionsOK
  <1>5. CountedOK'
    <2>1. ASSUME NEW x \in Fields \ {"misconfigured"}
          PROVE  events'[x] = reported'[x] + report'.taken[x] + counter'[x]
      <3>1. /\ events[x] \in Nat /\ counter[x] \in Nat /\ reported[x] \in Nat
            /\ report.taken[x] \in Nat
        BY <1>0 DEF StatsTypeOK
      <3>2. /\ events'[x] = events[x] + IF x = y THEN 1 ELSE 0
            /\ counter'[x] = counter[x] + IF x = y THEN 1 ELSE 0
        BY <1>0, <1>1, <3>1 DEF StatsTypeOK
      <3>3. events[x] = reported[x] + report.taken[x] + counter[x]
        BY <1>0 DEF CountedOK
      <3>4. UNCHANGED <<reported, report>>
        BY <1>1
      <3> QED
        BY <3>1, <3>2, <3>3, <3>4
    <2> QED
      BY <1>0, <1>1, <2>1 DEF CountedOK
  <1>6. ASSUME NEW x \in Throttled PROVE SeenOK(x)' /\ ExactOK(x)'
    <2>1. SeenOK(x) /\ ExactOK(x)
      BY DEF StatsInv
    <2>2. CASE y \in Throttled /\ ~ Silenced(y)
      BY <1>0, <2>1, <2>2, SeenAfterCall, ExactAfterCall
    <2>3. CASE ~ (y \in Throttled /\ ~ Silenced(y))
      BY <1>0, <2>1, <2>3, SilentCount
    <2> QED
      BY <2>2, <2>3
  <1> QED
    BY <1>3, <1>4, <1>5, <1>6 DEF StatsInv

\* Writing, reporting and everything else that calls nothing: the tasks and
\* the log change at most by what Said does not see.
LEMMA ReportKeepsLimit ==
    ASSUME StatsInv, StatsTypeOK', UNCHANGED <<calls, level, warn, reloads>>,
           \A x \in Throttled, i \in Intervals :
                /\ Said(x, i, "line")' = Said(x, i, "line")
                /\ Said(x, i, "notice")' = Said(x, i, "notice"),
           \A x \in Throttled :
                \/ interval'[x] = interval[x] /\ counter'[x] = counter[x]
                \/ interval'[x] = interval[x] + 1 /\ (counter'[x] = 0 \/ level # "info")
    PROVE  \A x \in Throttled : SeenOK(x)' /\ ExactOK(x)'
  <1> SUFFICES ASSUME NEW x \in Throttled PROVE SeenOK(x)' /\ ExactOK(x)'
    OBVIOUS
  <1>1. StatsTypeOK /\ SeenOK(x) /\ ExactOK(x)
    BY DEF StatsInv
  <1>2. interval'[x] \in Intervals
    BY PrintedFacts DEF StatsTypeOK, Intervals
  <1>3. SeenOK(x)'
    BY <1>1, SeenAfterPass
  <1>4. ExactOK(x)'
    BY <1>1, <1>2, ExactAfterPass
  <1> QED
    BY <1>3, <1>4

\* The line or the notice is written.
LEMMA WriteLineInv == ASSUME StatsInv, NEW t \in Tasks, Write(t) PROVE StatsInv'
  <1>0. StatsTypeOK /\ PositionsOK /\ CountedOK
    BY DEF StatsInv
  <1>1. UNCHANGED <<counter, level, warn, report, interval, calls, reported, events, reloads>>
    BY DEF Write
  <1>2. StatsTypeOK'
    <2>1. task[t] \in [says : {"line", "notice"}, kind : Throttled, interval : Intervals]
      BY <1>0 DEF StatsTypeOK, Write
    <2> DEFINE k == <<task[t].kind, task[t].interval, task[t].says>>
    <2>2. k \in Fields \X Intervals \X {"line", "notice"}
      BY <2>1, PrintedFacts
    <2>3. written' = [written EXCEPT ![k] = @ + 1] /\ task' = [task EXCEPT ![t] = Idle]
      BY DEF Write
    <2> HIDE DEF k
    <2>4. written' \in [Fields \X Intervals \X {"line", "notice"} -> Nat]
      BY <1>0, <2>2, <2>3 DEF StatsTypeOK
    <2>5. task' \in [Tasks -> {Idle} \cup [says : {"line", "notice"}, kind : Throttled,
                                          interval : Intervals]]
      BY <1>0, <2>3 DEF StatsTypeOK
    <2> QED
      BY <1>0, <1>1, <2>4, <2>5 DEF StatsTypeOK, Intervals
  <1>3. PositionsOK' /\ CountedOK'
    BY <1>0, <1>1 DEF PositionsOK, CountedOK
  <1>4. \A x \in Throttled, i \in Intervals :
            /\ Said(x, i, "line")' = Said(x, i, "line")
            /\ Said(x, i, "notice")' = Said(x, i, "notice")
    BY <1>0, <1>2, PrintedFacts, SaidAfterWrite
  <1>5. \A x \in Throttled : interval'[x] = interval[x] /\ counter'[x] = counter[x]
    BY <1>1
  <1>6. \A x \in Throttled : SeenOK(x)' /\ ExactOK(x)'
    BY <1>1, <1>2, <1>4, <1>5, ReportKeepsLimit
  <1> QED
    BY <1>2, <1>3, <1>6 DEF StatsInv

\* Where the report is.
LEMMA ReportTypes ==
    ASSUME StatsTypeOK
    PROVE  /\ report = [next |-> report.next, taken |-> report.taken]
           /\ report.next \in 0 .. 11 /\ report.taken \in [Fields -> Nat]
           /\ interval["misconfigured"] \in Nat /\ MaxReports \in Nat
           /\ \A x \in Fields : interval[x] \in Nat /\ interval[x] <= MaxReports
  BY StatsAssumption, PrintedFacts DEF StatsTypeOK, Intervals

\* STATS_INTERVAL has passed.
LEMMA BeginReportInv == ASSUME StatsInv, BeginReport PROVE StatsInv'
  <1>0. StatsTypeOK /\ PositionsOK /\ CountedOK
    BY DEF StatsInv
  <1>1. /\ UNCHANGED <<counter, level, warn, task, calls, written, reported, events, reloads>>
        /\ report.next = 0 /\ interval["misconfigured"] < MaxReports
    BY DEF BeginReport
  <1>2. \A x \in Fields \ {"misconfigured"} : interval[x] = interval["misconfigured"]
    <2>1. ASSUME NEW i \in 1 .. 9 PROVE interval[Printed[i]] = interval["misconfigured"]
      <3>1. ~ (i < report.next) /\ interval["misconfigured"] \in Nat
        BY <1>0, <1>1, ReportTypes
      <3> QED
        BY <1>0, <3>1, PrintedFacts DEF PositionsOK
    <2> QED
      BY <2>1, PrintedFacts
  <1>3. \A x \in Fields : report.taken[x] \in Nat
    BY <1>0, ReportTypes
  <1>4. \A i \in 1 .. 9 : report.taken[Printed[i]] = 0
    BY <1>0, <1>1, PrintedFacts DEF CountedOK
  <1>5. /\ report'.taken = report.taken /\ report'.next \in {1, 11}
        /\ report' \in [next : 0 .. Len(Printed) + 2, taken : [Fields -> Nat]]
        /\ report'.next = 1 => UNCHANGED interval
        /\ report'.next = 11 => /\ level # "info"
                                /\ interval' = [x \in Fields |-> interval[x] +
                                        IF x \in Fields \ {"misconfigured"} THEN 1 ELSE 0]
    <2>1. CASE level = "info"
      BY <1>0, <2>1, ReportTypes, PrintedFacts DEF BeginReport
    <2>2. CASE level # "info"
      BY <1>0, <2>2, ReportTypes, PrintedFacts DEF BeginReport, Passes
    <2> QED
      BY <2>1, <2>2
  <1>6. CASE report'.next = 1
    <2>1. UNCHANGED interval
      BY <1>5, <1>6
    <2>2. StatsTypeOK'
      BY <1>0, <1>1, <1>5, <2>1 DEF StatsTypeOK
    <2>3. PositionsOK'
      <3>1. \A i \in 1 .. 9 : ~ (i < report'.next)
        BY <1>6
      <3>2. interval["misconfigured"] \in Nat
        BY <1>0, ReportTypes
      <3> QED
        BY <1>1, <1>2, <2>1, <3>1, <3>2, PrintedFacts DEF PositionsOK
    <2>4. CountedOK'
      BY <1>0, <1>1, <1>4, <1>5, PrintedFacts DEF CountedOK
    <2>5. \A x \in Throttled, i \in Intervals :
              /\ Said(x, i, "line")' = Said(x, i, "line")
              /\ Said(x, i, "notice")' = Said(x, i, "notice")
      BY <1>1, SaidUnchanged
    <2>6. \A x \in Throttled : SeenOK(x)' /\ ExactOK(x)'
      BY <1>1, <2>1, <2>2, <2>5, ReportKeepsLimit
    <2> QED
      BY <2>2, <2>3, <2>4, <2>6 DEF StatsInv
  <1>7. CASE report'.next = 11
    <2>1. /\ \A x \in Fields \ {"misconfigured"} : interval'[x] = interval[x] + 1
          /\ interval'["misconfigured"] = interval["misconfigured"]
          /\ interval' \in [Fields -> Intervals]
      <3>1. interval' = [x \in Fields |-> interval[x] +
                            IF x \in Fields \ {"misconfigured"} THEN 1 ELSE 0]
        BY <1>5, <1>7
      <3>2. \A x \in Fields \ {"misconfigured"} : interval'[x] = interval[x] + 1
        BY <3>1
      <3>3. interval'["misconfigured"] = interval["misconfigured"]
        BY <1>0, <3>1, ReportTypes, PrintedFacts
      <3>4. \A x \in Fields : interval'[x] \in 0 .. MaxReports
        BY <1>0, <1>1, <1>2, <3>2, <3>3, ReportTypes
      <3> QED
        BY <3>1, <3>2, <3>3, <3>4 DEF Intervals
    <2>2. StatsTypeOK'
      BY <1>0, <1>1, <1>5, <2>1 DEF StatsTypeOK, Intervals
    <2>3. PositionsOK'
      <3>1. \A i \in 1 .. 9 : i < report'.next
        BY <1>7
      <3> QED
        BY <1>1, <1>2, <2>1, <3>1, PrintedFacts DEF PositionsOK
    <2>4. CountedOK'
      BY <1>0, <1>1, <1>4, <1>5, PrintedFacts DEF CountedOK
    <2>5. \A x \in Throttled, i \in Intervals :
              /\ Said(x, i, "line")' = Said(x, i, "line")
              /\ Said(x, i, "notice")' = Said(x, i, "notice")
      BY <1>1, SaidUnchanged
    <2>6. \A x \in Throttled :
              \/ interval'[x] = interval[x] /\ counter'[x] = counter[x]
              \/ interval'[x] = interval[x] + 1 /\ (counter'[x] = 0 \/ level # "info")
      BY <1>1, <1>5, <1>7, <2>1, PrintedFacts
    <2>7. \A x \in Throttled : SeenOK(x)' /\ ExactOK(x)'
      BY <1>1, <2>2, <2>5, <2>6, ReportKeepsLimit
    <2> QED
      BY <2>2, <2>3, <2>4, <2>7 DEF StatsInv
  <1> QED
    BY <1>5, <1>6, <1>7

\* The report takes the next counter.
LEMMA SwapNextInv == ASSUME StatsInv, SwapNext PROVE StatsInv'
  <1> DEFINE n == report.next
             p == Printed[n]
  <1>0. StatsTypeOK /\ PositionsOK /\ CountedOK
    BY DEF StatsInv
  <1>1. /\ UNCHANGED <<level, warn, task, calls, written, reported, events, reloads>>
        /\ n \in 1 .. 9 /\ report' = [next |-> n + 1, taken |-> [report.taken EXCEPT ![p] = counter[p]]]
        /\ counter' = [counter EXCEPT ![p] = 0]
        /\ interval' = [x \in Fields |-> interval[x] + IF x \in {p} THEN 1 ELSE 0]
    BY PrintedFacts DEF SwapNext, AfterSwap, Passes
  <1>2. p \in Fields /\ p # "misconfigured" /\ n \in Nat
    BY <1>1, PrintedFacts
  <1>3. interval[p] = interval["misconfigured"] /\ interval["misconfigured"] < MaxReports
    <2>1. interval[p] = interval["misconfigured"] + IF n < n THEN 1 ELSE 0
      BY <1>0, <1>1, PrintedFacts DEF PositionsOK
    <2>2. interval["misconfigured"] < MaxReports
      BY <1>0, <1>1 DEF PositionsOK
    <2> QED
      BY <1>0, <1>2, <2>1, <2>2, ReportTypes
  <1>4. /\ report'.next = n + 1 /\ report'.taken[p] = counter[p]
        /\ \A x \in Fields : x # p => report'.taken[x] = report.taken[x]
        /\ report'.taken \in [Fields -> Nat]
    BY <1>0, <1>1, <1>2, ReportTypes DEF StatsTypeOK
  <1>5. /\ counter'[p] = 0 /\ \A x \in Fields : x # p => counter'[x] = counter[x]
        /\ counter' \in [Fields -> Nat]
    BY <1>0, <1>1, <1>2 DEF StatsTypeOK
  <1>6. interval'[p] = interval[p] + 1 /\ \A x \in Fields : x # p => interval'[x] = interval[x]
    BY <1>0, <1>1, <1>2, ReportTypes
  <1>7. interval' \in [Fields -> Intervals]
    <2>1. \A x \in Fields : interval'[x] \in 0 .. MaxReports
      BY <1>0, <1>3, <1>6, ReportTypes
    <2> QED
      BY <1>1, <2>1 DEF Intervals
  <1> HIDE DEF n, p
  <1>8. StatsTypeOK'
    <2>1. report' \in [next : 0 .. Len(Printed) + 2, taken : [Fields -> Nat]]
      BY <1>1, <1>4, PrintedFacts
    <2> QED
      BY <1>0, <1>1, <1>5, <1>7, <2>1 DEF StatsTypeOK, Intervals
  <1>9. \A i \in 1 .. 9 : i # n => Printed[i] # p /\ Printed[i] \in Fields
    BY <1>1, PrintedFacts DEF p
  <1>10. \A i \in 1 .. 9 : i = n => Printed[i] = p
    BY DEF p
  <1>11. PositionsOK'
    <2>1. interval'["misconfigured"] = interval["misconfigured"] /\ interval["misconfigured"] \in Nat
      BY <1>0, <1>2, <1>6, PrintedFacts, ReportTypes
    <2>2. ASSUME NEW i \in 1 .. 9
          PROVE  interval'[Printed[i]] = interval'["misconfigured"]
                     + IF i < report'.next THEN 1 ELSE 0
      <3>1. CASE i = n
        BY <1>2, <1>3, <1>4, <1>6, <1>10, <2>1, <3>1
      <3>2. CASE i # n
        <4>1. interval'[Printed[i]] = interval[Printed[i]]
          BY <1>6, <1>9, <3>2
        <4>2. interval[Printed[i]] = interval["misconfigured"] + IF i < n THEN 1 ELSE 0
          BY <1>0, PrintedFacts DEF PositionsOK, n
        <4>3. i < report'.next <=> i < n
          BY <1>2, <1>4, <3>2
        <4> QED
          BY <2>1, <4>1, <4>2, <4>3
      <3> QED
        BY <3>1, <3>2
    <2> QED
      BY <1>3, <2>1, <2>2, PrintedFacts DEF PositionsOK
  <1>12. CountedOK'
    <2>1. ASSUME NEW i \in 1 .. 9, ~ (i < report'.next /\ report'.next <= 10)
          PROVE  report'.taken[Printed[i]] = 0
      <3>1. i # n /\ ~ (i < n /\ n <= 10)
        BY <1>1, <1>4, <2>1
      <3>2. report.taken[Printed[i]] = 0
        BY <1>0, <3>1, PrintedFacts DEF CountedOK, n
      <3> QED
        BY <1>4, <1>9, <3>1, <3>2
    <2>2. ASSUME NEW x \in Fields \ {"misconfigured"}
          PROVE  events'[x] = reported'[x] + report'.taken[x] + counter'[x]
      <3>1. /\ events[x] = reported[x] + report.taken[x] + counter[x]
            /\ UNCHANGED <<events, reported>>
        BY <1>0, <1>1 DEF CountedOK
      <3>2. reported[x] \in Nat /\ counter[x] \in Nat
        BY <1>0 DEF StatsTypeOK
      <3>3. CASE x = p
        <4>1. report.taken[p] = 0
          <5>1. ~ (n < n)
            BY <1>2
          <5> QED
            BY <1>0, <1>1, <5>1, PrintedFacts DEF CountedOK, n, p
        <4> QED
          BY <1>4, <1>5, <3>1, <3>2, <3>3, <4>1
      <3>4. CASE x # p
        BY <1>4, <1>5, <3>1, <3>4
      <3> QED
        BY <3>3, <3>4
    <2> QED
      BY <2>1, <2>2, PrintedFacts DEF CountedOK
  <1>13. \A x \in Throttled, i \in Intervals :
            /\ Said(x, i, "line")' = Said(x, i, "line")
            /\ Said(x, i, "notice")' = Said(x, i, "notice")
    BY <1>1, SaidUnchanged
  <1>14. \A x \in Throttled :
            \/ interval'[x] = interval[x] /\ counter'[x] = counter[x]
            \/ interval'[x] = interval[x] + 1 /\ (counter'[x] = 0 \/ level # "info")
    BY <1>5, <1>6, PrintedFacts
  <1>15. \A x \in Throttled : SeenOK(x)' /\ ExactOK(x)'
    BY <1>1, <1>8, <1>13, <1>14, ReportKeepsLimit
  <1> QED
    BY <1>8, <1>11, <1>12, <1>15 DEF StatsInv

\* The report is printed.
LEMMA WriteReportInv == ASSUME StatsInv, WriteReport PROVE StatsInv'
  <1>0. StatsTypeOK /\ PositionsOK /\ CountedOK
    BY DEF StatsInv
  <1>1. /\ UNCHANGED <<counter, level, warn, task, interval, calls, written, events, reloads>>
        /\ report.next = 10 /\ report' = [next |-> 11, taken |-> Zero]
        /\ reported' = [x \in Fields |-> reported[x] + report.taken[x]]
    BY PrintedFacts DEF WriteReport
  <1>2. report'.next = 11 /\ \A x \in Fields : report'.taken[x] = 0
    BY <1>1 DEF Zero
  <1>3. \A x \in Fields : /\ reported[x] \in Nat /\ report.taken[x] \in Nat /\ counter[x] \in Nat
                          /\ reported'[x] = reported[x] + report.taken[x]
    BY <1>0, <1>1, ReportTypes DEF StatsTypeOK
  <1>4. StatsTypeOK'
    <2>1. report' \in [next : 0 .. Len(Printed) + 2, taken : [Fields -> Nat]]
      BY <1>1, PrintedFacts DEF Zero
    <2>2. reported' \in [Fields -> Nat]
      BY <1>1, <1>3
    <2> QED
      BY <1>0, <1>1, <2>1, <2>2 DEF StatsTypeOK
  <1>5. PositionsOK'
    <2>1. \A i \in 1 .. 9 : i < report.next /\ i < report'.next
      BY <1>1, <1>2
    <2> QED
      BY <1>0, <1>1, <2>1, PrintedFacts DEF PositionsOK
  <1>6. CountedOK'
    <2>1. \A i \in 1 .. 9 : report'.taken[Printed[i]] = 0
      BY <1>2, PrintedFacts
    <2>2. ASSUME NEW x \in Fields \ {"misconfigured"}
          PROVE  events'[x] = reported'[x] + report'.taken[x] + counter'[x]
      <3>1. events[x] = reported[x] + report.taken[x] + counter[x] /\ UNCHANGED <<events, counter>>
        BY <1>0, <1>1 DEF CountedOK
      <3> QED
        BY <1>2, <1>3, <3>1
    <2> QED
      BY <2>1, <2>2, PrintedFacts DEF CountedOK
  <1>7. \A x \in Throttled, i \in Intervals :
            /\ Said(x, i, "line")' = Said(x, i, "line")
            /\ Said(x, i, "notice")' = Said(x, i, "notice")
    BY <1>1, SaidUnchanged
  <1>8. \A x \in Throttled : SeenOK(x)' /\ ExactOK(x)'
    BY <1>1, <1>4, <1>7, ReportKeepsLimit
  <1> QED
    BY <1>4, <1>5, <1>6, <1>8 DEF StatsInv

\* misconfigured is reset last.
LEMMA ResetMisconfiguredInv == ASSUME StatsInv, ResetMisconfigured PROVE StatsInv'
  <1>0. StatsTypeOK /\ PositionsOK /\ CountedOK /\ "misconfigured" \in Fields
    BY PrintedFacts DEF StatsInv
  <1>1. /\ UNCHANGED <<level, warn, task, calls, written, reported, events, reloads>>
        /\ report.next = 11 /\ report' = [report EXCEPT !.next = 0]
        /\ counter' = [counter EXCEPT !["misconfigured"] = 0]
        /\ interval' = [x \in Fields |-> interval[x] + IF x \in {"misconfigured"} THEN 1 ELSE 0]
    BY PrintedFacts DEF ResetMisconfigured, Passes
  <1>2. report'.next = 0 /\ report'.taken = report.taken
    BY <1>0, <1>1, ReportTypes
  <1>3. /\ counter'["misconfigured"] = 0 /\ counter' \in [Fields -> Nat]
        /\ \A x \in Fields \ {"misconfigured"} : counter'[x] = counter[x]
    BY <1>0, <1>1 DEF StatsTypeOK
  <1>4. /\ interval'["misconfigured"] = interval["misconfigured"] + 1
        /\ \A x \in Fields \ {"misconfigured"} : interval'[x] = interval[x]
        /\ interval["misconfigured"] < MaxReports
    <2>1. interval["misconfigured"] < MaxReports
      BY <1>0, <1>1 DEF PositionsOK
    <2> QED
      BY <1>0, <1>1, <2>1, ReportTypes
  <1>5. interval' \in [Fields -> Intervals]
    <2>1. \A x \in Fields : interval'[x] \in 0 .. MaxReports
      BY <1>0, <1>4, ReportTypes
    <2> QED
      BY <1>1, <2>1 DEF Intervals
  <1>6. StatsTypeOK'
    <2>1. report' \in [next : 0 .. Len(Printed) + 2, taken : [Fields -> Nat]]
      BY <1>0, <1>1, ReportTypes, PrintedFacts
    <2> QED
      BY <1>0, <1>1, <1>3, <1>5, <2>1 DEF StatsTypeOK, Intervals
  <1>7. PositionsOK'
    <2>1. ASSUME NEW i \in 1 .. 9
          PROVE  interval'[Printed[i]] = interval'["misconfigured"]
                     + IF i < report'.next THEN 1 ELSE 0
      <3>1. i < report.next /\ ~ (i < report'.next)
        BY <1>1, <1>2
      <3>2. interval[Printed[i]] = interval["misconfigured"] + 1
        BY <1>0, <3>1, PrintedFacts DEF PositionsOK
      <3>3. interval'[Printed[i]] = interval[Printed[i]]
        BY <1>4, PrintedFacts
      <3>4. interval["misconfigured"] \in Nat
        BY <1>0, ReportTypes
      <3> QED
        BY <1>4, <3>1, <3>2, <3>3, <3>4
    <2> QED
      BY <1>2, <2>1, PrintedFacts DEF PositionsOK
  <1>8. CountedOK'
    <2>1. \A i \in 1 .. 9 : report.taken[Printed[i]] = 0
      BY <1>0, <1>1, PrintedFacts DEF CountedOK
    <2> QED
      BY <1>0, <1>1, <1>2, <1>3, <2>1, PrintedFacts DEF CountedOK
  <1>9. \A x \in Throttled, i \in Intervals :
            /\ Said(x, i, "line")' = Said(x, i, "line")
            /\ Said(x, i, "notice")' = Said(x, i, "notice")
    BY <1>1, SaidUnchanged
  <1>10. \A x \in Throttled :
            \/ interval'[x] = interval[x] /\ counter'[x] = counter[x]
            \/ interval'[x] = interval[x] + 1 /\ (counter'[x] = 0 \/ level # "info")
    BY <1>3, <1>4, PrintedFacts
  <1>11. \A x \in Throttled : SeenOK(x)' /\ ExactOK(x)'
    BY <1>1, <1>6, <1>9, <1>10, ReportKeepsLimit
  <1> QED
    BY <1>6, <1>7, <1>8, <1>11 DEF StatsInv

\* A reload toggles the warning: unauthenticated is no longer steady.
LEMMA ToggleWarningInv == ASSUME StatsInv, ToggleWarning PROVE StatsInv'
  <1>0. StatsTypeOK /\ PositionsOK /\ CountedOK
    BY DEF StatsInv
  <1>1. /\ UNCHANGED <<counter, level, task, report, interval, calls, written, reported, events>>
        /\ reloads' = reloads + 1 /\ warn' = ~ warn
    BY DEF ToggleWarning
  <1>2. StatsTypeOK'
    <2>1. warn' \in BOOLEAN
      BY <1>1
    <2>2. reloads' \in Nat
      BY <1>0, <1>1 DEF StatsTypeOK
    <2> QED
      BY <1>0, <1>1, <2>1, <2>2 DEF StatsTypeOK, Intervals
  <1>3. PositionsOK' /\ CountedOK'
    BY <1>0, <1>1 DEF PositionsOK, CountedOK
  <1>4. ASSUME NEW x \in Throttled PROVE SeenOK(x)' /\ ExactOK(x)'
    <2>1. SeenOK(x) /\ ExactOK(x)
      BY DEF StatsInv
    <2>2. \A i \in Intervals : /\ Said(x, i, "line")' = Said(x, i, "line")
                               /\ Said(x, i, "notice")' = Said(x, i, "notice")
      BY <1>1, SaidUnchanged
    <2>3. SeenOK(x)'
      BY <1>0, <1>1, <1>2, <2>1, <2>2, SeenAfterPass
    <2>4. CASE x = "unauthenticated"
      <3>1. reloads' # 0
        BY <1>0, <1>1 DEF StatsTypeOK
      <3> QED
        BY <2>3, <2>4, <3>1 DEF ExactOK, Steady
    <2>5. CASE x # "unauthenticated"
      <3>1. \A i \in Intervals : Exact(x, i) => Exact(x, i)'
        BY <1>1, <2>2 DEF Exact
      <3>2. (Steady(x)' <=> Steady(x)) /\ ~ Silenced(x) /\ ~ Silenced(x)'
        BY <1>1, <2>5 DEF Steady, Silenced
      <3> QED
        BY <1>1, <2>1, <2>3, <3>1, <3>2 DEF ExactOK, Intervals
    <2> QED
      BY <2>4, <2>5
  <1> QED
    BY <1>2, <1>3, <1>4 DEF StatsInv

\* Every step of the tasks, the report and the reloads preserves StatsInv.
LEMMA StatsNextInv == StatsInv /\ [StatsNext]_statsVars => StatsInv'
  <1> SUFFICES ASSUME StatsInv, [StatsNext]_statsVars PROVE StatsInv'
    OBVIOUS
  <1>1. CASE UNCHANGED statsVars
    <2>1. UNCHANGED <<counter, level, warn, task, report, interval, calls, written,
                      reported, events, reloads>>
      BY <1>1 DEF statsVars
    <2>2. StatsTypeOK' /\ PositionsOK' /\ CountedOK'
      BY <2>1 DEF StatsInv, StatsTypeOK, PositionsOK, CountedOK, Intervals
    <2>3. \A x \in Throttled, i \in Intervals :
              /\ Said(x, i, "line")' = Said(x, i, "line")
              /\ Said(x, i, "notice")' = Said(x, i, "notice")
      BY <2>1, SaidUnchanged
    <2>4. \A x \in Throttled : SeenOK(x)' /\ ExactOK(x)'
      BY <2>1, <2>2, <2>3, ReportKeepsLimit
    <2> QED
      BY <2>2, <2>4 DEF StatsInv
  <1>2. CASE \E t \in Tasks : (\E x \in Events : CountEvent(t, x)) \/ Write(t)
    BY <1>2, CountInv, WriteLineInv
  <1> QED
    BY <1>1, <1>2, BeginReportInv, SwapNextInv, WriteReportInv, ResetMisconfiguredInv,
       ToggleWarningInv DEF StatsNext

\* StatsInv holds throughout.
LEMMA StatsInvariance == StatsSpec => []StatsInv
  BY StatsInitInv, StatsNextInv, PTL DEF StatsSpec

\* No event is lost or reported twice, for any number of tasks and events:
\* fetch_add and the swaps of report_stats may fall in any order.
THEOREM EveryEventReported == StatsSpec => []EveryEventIsReportedOnce
  <1>1. StatsInv => EveryEventIsReportedOnce
    BY DEF StatsInv, CountedOK, EveryEventIsReportedOnce
  <1> QED
    BY <1>1, StatsInvariance, PTL

\* log_throttled never floods the log, and says exactly its first lines and
\* the notice where the report is printed and no reload changed the warnings,
\* for any number of tasks, any limit and any interleaving with report_stats.
THEOREM Throttle == StatsSpec => []ThrottleHolds
  <1>1. StatsInv => ThrottleHolds
    BY DEF StatsInv, SeenOK, ExactOK, Steady, ThrottleHolds
  <1> QED
    BY <1>1, StatsInvariance, PTL
=============================================================================
