----------------------------- MODULE CheckPlan -----------------------------
(***************************************************************************)
(* build_plan, validate_windows, CheckPlan::new and bucket_size            *)
(* (src/config.rs), one step per iteration of their loops: from a rule of  *)
(* the config file to the plan that check_and_record.lua is given.         *)
(***************************************************************************)
EXTENDS Integers, Sequences, FiniteSets

CONSTANTS
    Rules,              \* the rules tried: [windows, unrestricted]
    Absent,             \* a key that the file omits
    MIN_WINDOW, MAX_WINDOW, BUCKET_TARGET_COUNT, MIN_BUCKET, MAX_BUCKET

\* A window of the file; whole says its duration has no fraction of a second.
Window == [count : Nat, secs : Nat, whole : BOOLEAN]

Rule == [windows : Seq(Window) \cup {Absent}, unrestricted : BOOLEAN \cup {Absent}]

ASSUME RulesAssumption == Rules \subseteq Rule

\* The shortest window has enough of the smallest buckets, and the longest
\* is too short for the clamp to MAX_BUCKET to be reached.
ASSUME SizesAssumption ==
    /\ MIN_WINDOW \in Nat /\ MAX_WINDOW \in Nat /\ MAX_BUCKET \in Nat
    /\ BUCKET_TARGET_COUNT \in Nat \ {0} /\ MIN_BUCKET \in Nat \ {0}
    /\ MIN_BUCKET * BUCKET_TARGET_COUNT <= MIN_WINDOW
    /\ MAX_WINDOW < MAX_BUCKET * BUCKET_TARGET_COUNT

VARIABLES
    rule,       \* the rule being built
    pc,         \* the loop that is running
    index,      \* the window it is at
    secs,       \* bucket_size's local
    plan,       \* the arrays under construction
    result      \* Ok or the ConfigError

vars == <<rule, pc, index, secs, plan, result>>

\* key_index counts from 1.
PlannedWindow == [key_index : Nat \ {0}, span_secs : Nat, limit : Nat]

Errors == {"NoWindows", "WindowsWithUnrestricted", "RedundantUnrestrictedFalse",
           "WindowTooShort", "WindowTooLong"}

TypeOK ==
    /\ rule \in Rule
    /\ pc \in {"match", "validate", "window", "bucket", "done"}
    /\ index \in Nat
    /\ secs \in Nat
    /\ plan \in [bucket_sizes : Seq(Nat), retention_secs : Seq(Nat),
                 windows : Seq(PlannedWindow)]
    /\ result \in {"none", "Ok"} \cup Errors

Init ==
    /\ rule \in Rules
    /\ pc = "match"
    /\ index = 1
    /\ secs = 0
    /\ plan = [bucket_sizes |-> << >>, retention_secs |-> << >>, windows |-> << >>]
    /\ result = "none"

Fail(error) ==
    /\ pc' = "done"
    /\ result' = error
    /\ UNCHANGED <<rule, index, secs, plan>>

----------------------------------------------------------------------------
(* build_plan *)

MatchUnrestricted ==
    /\ pc = "match"
    /\ rule.windows = Absent /\ rule.unrestricted = TRUE
    /\ pc' = "window"
    /\ UNCHANGED <<rule, index, secs, plan, result>>

MatchWindows ==
    /\ pc = "match"
    /\ rule.windows # Absent /\ rule.unrestricted = Absent
    /\ pc' = "validate"
    /\ UNCHANGED <<rule, index, secs, plan, result>>

MatchError ==
    /\ pc = "match"
    /\ \/ /\ rule.windows # Absent /\ rule.unrestricted = TRUE
          /\ Fail("WindowsWithUnrestricted")
       \/ /\ rule.windows # Absent /\ rule.unrestricted = FALSE
          /\ Fail("RedundantUnrestrictedFalse")
       \/ /\ rule.windows = Absent /\ rule.unrestricted \in {FALSE, Absent}
          /\ Fail("NoWindows")

----------------------------------------------------------------------------
(* validate_windows *)

window == rule.windows[index]

TooShort == ~ window.whole \/ window.secs < MIN_WINDOW
TooLong == window.secs > MAX_WINDOW

ValidateEmpty ==
    /\ pc = "validate"
    /\ Len(rule.windows) = 0
    /\ Fail("NoWindows")

ValidateWindow ==
    /\ pc = "validate"
    /\ index \in 1 .. Len(rule.windows)
    /\ \/ TooShort /\ Fail("WindowTooShort")
       \/ ~ TooShort /\ TooLong /\ Fail("WindowTooLong")
       \/ /\ ~ TooShort /\ ~ TooLong
          /\ index' = index + 1
          /\ UNCHANGED <<rule, pc, secs, plan, result>>

ValidateEnd ==
    /\ pc = "validate"
    /\ Len(rule.windows) > 0 /\ index > Len(rule.windows)
    /\ pc' = "window"
    /\ index' = 1
    /\ UNCHANGED <<rule, secs, plan, result>>

----------------------------------------------------------------------------
(* CheckPlan::new *)

\* The slice CheckPlan::new is given.
Slice == IF rule.windows = Absent THEN << >> ELSE rule.windows

\* bucket_size starts from the smallest bucket ...
NextWindow ==
    /\ pc = "window"
    /\ index <= Len(Slice)
    /\ secs' = MIN_BUCKET
    /\ pc' = "bucket"
    /\ UNCHANGED <<rule, index, plan, result>>

\* Definitions named Wrong... are variants that the code could have had; the
\* checks must tell them from the definition that follows.

\* Tests the current size where the next one is meant.
WrongDoublesLate ==
    secs * 2 <= MAX_BUCKET /\ window.secs \div secs >= BUCKET_TARGET_COUNT

Doubles == secs * 2 <= MAX_BUCKET /\ window.secs \div (secs * 2) >= BUCKET_TARGET_COUNT

\* Loses the new size.
WrongDoubleBucket ==
    /\ pc = "bucket"
    /\ Doubles
    /\ UNCHANGED vars

\* ... and doubles it while the window still has enough of them.
DoubleBucket ==
    /\ pc = "bucket"
    /\ Doubles
    /\ secs' = secs * 2
    /\ UNCHANGED <<rule, pc, index, plan, result>>

\* Keeps the last of two values.
WrongLarger(a, b) == b
WrongSmaller(a, b) == b

Larger(a, b) == IF a >= b THEN a ELSE b
Smaller(a, b) == IF a <= b THEN a ELSE b

\* The arrays with a bucket of this size, if there was none.
WithBucket(p, size) ==
    IF \E i \in 1 .. Len(p.bucket_sizes) : p.bucket_sizes[i] = size
    THEN p
    ELSE [p EXCEPT !.bucket_sizes = Append(@, size), !.retention_secs = Append(@, 0)]

KeyIndex(p, size) == CHOOSE i \in 1 .. Len(p.bucket_sizes) : p.bucket_sizes[i] = size

\* Of two windows of the same duration the smaller count is kept.
WithWindow(p, k, span, count) ==
    LET same == {j \in 1 .. Len(p.windows) :
                    p.windows[j].key_index = k /\ p.windows[j].span_secs = span}
        lowered(w) == [w EXCEPT !.limit = Smaller(@, count)]
    IN  [p EXCEPT
            !.retention_secs[k] = Larger(@, span),
            !.windows =
                IF same = {}
                THEN Append(@, [key_index |-> k, span_secs |-> span, limit |-> count])
                ELSE [j \in DOMAIN @ |-> IF j \in same THEN lowered(@[j]) ELSE @[j]]]

AddWindow ==
    /\ pc = "bucket"
    /\ ~ Doubles
    /\ LET p == WithBucket(plan, secs)
       IN  plan' = WithWindow(p, KeyIndex(p, secs), window.secs, window.count)
    /\ pc' = "window"
    /\ index' = index + 1
    /\ UNCHANGED <<rule, secs, result>>

Finish ==
    /\ pc = "window"
    /\ index > Len(Slice)
    /\ pc' = "done"
    /\ result' = "Ok"
    /\ UNCHANGED <<rule, index, secs, plan>>

Next ==
    \/ MatchUnrestricted \/ MatchWindows \/ MatchError
    \/ ValidateEmpty \/ ValidateWindow \/ ValidateEnd
    \/ NextWindow \/ DoubleBucket \/ AddWindow \/ Finish

Spec == Init /\ [][Next]_vars

FairSpec == Spec /\ WF_vars(Next)

----------------------------------------------------------------------------
(* Properties *)

Sizes == {plan.bucket_sizes[i] : i \in 1 .. Len(plan.bucket_sizes)}
SizeOf(w) == plan.bucket_sizes[w.key_index]
Planned == {plan.windows[j] : j \in 1 .. Len(plan.windows)}

\* The windows of the file that have been planned so far.
Taken == {rule.windows[j] : j \in {j \in 1 .. Len(Slice) :
                                     j < index /\ pc \in {"window", "bucket", "done"}}}

\* What module Limiter assumes of a plan: every window has its array entries,
\* no bucket size appears twice (its key would be incremented twice for one
\* message), and each key is retained as long as its longest window, no more.
\* It is stated of well-typed states.
PlanIsSound ==
    /\ TypeOK
    /\ Len(plan.retention_secs) = Len(plan.bucket_sizes)
    /\ \A w \in Planned : w.key_index \in 1 .. Len(plan.bucket_sizes)
    /\ Cardinality(Sizes) = Len(plan.bucket_sizes)
    /\ \A i \in 1 .. Len(plan.bucket_sizes) :
        /\ \A w \in Planned : w.key_index = i => w.span_secs <= plan.retention_secs[i]
        /\ \E w \in Planned : w.key_index = i /\ w.span_secs = plan.retention_secs[i]

\* The plan enforces what the file says, in whatever order and however often
\* a duration is repeated: per duration one window with its strictest count;
\* and only an explicit unrestricted = true gives a plan that checks nothing.
PlanIsFaithful ==
    result \in {"none", "Ok"} =>
        /\ result = "Ok" /\ Planned = {} => rule.unrestricted = TRUE /\ rule.windows = Absent
        /\ Cardinality(Planned) = Len(plan.windows)
        /\ {w.span_secs : w \in Planned} = {t.secs : t \in Taken}
        /\ \A w \in Planned :
            /\ \A t \in Taken : t.secs = w.span_secs => w.limit <= t.count
            /\ \E t \in Taken : t.secs = w.span_secs /\ w.limit = t.count

\* bucket_size picks the largest doubling that fits: the overcount is at most
\* one part in BUCKET_TARGET_COUNT of the window (the "maximum overcount of
\* 2%" of the change log), and a key never needs more than twice as many
\* buckets.
BucketSizeFits ==
    /\ \A w \in Planned : SizeOf(w) * BUCKET_TARGET_COUNT <= w.span_secs
    /\ \A i \in 1 .. Len(plan.retention_secs) :
        plan.retention_secs[i] \div plan.bucket_sizes[i] < 2 * BUCKET_TARGET_COUNT

\* Every rule gets its answer: the doubling loop ends at MAX_BUCKET.
Terminates == <>(pc = "done")
=============================================================================
