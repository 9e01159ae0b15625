----------------------------- MODULE ConfigLoad -----------------------------
(***************************************************************************)
(* Config::load and Config::plan_for (src/config.rs): the checks of a      *)
(* config file in the order in which the code makes them, rule by rule,    *)
(* and the rule that a user gets from the result.  build_plan (module      *)
(* CheckPlan) appears by its outcome, and a plan by the index of the rule  *)
(* it was built from; TOML, URLs and regexes by what their parsers say.    *)
(***************************************************************************)
EXTENDS Integers, Sequences, FiniteSets, FiniteSetsExt

CONSTANTS
    Users,      \* SASL usernames
    Files,      \* the config files tried
    Absent      \* a key that the file omits

\* A [[sasl]] entry: the users it matches, whether its username is empty or
\* its regex invalid, and whether build_plan accepts it.
Rule ==
    [type : {"username", "regex"}, matches : SUBSET Users, malformed : BOOLEAN,
     plan : {"ok", "error"}]
    \cup [type : {"default"}, plan : {"ok", "error"}]

RawConfig ==
    [text : {"unreadable", "unparsable", "parses"}, url : {"bad", "plain", "password"},
     password_file : {Absent, "unreadable", "readable"},
     control_socket : {Absent, "other", "socket"}, sasl_limits : Seq(Rule)]

ASSUME FilesAssumption == Files \subseteq RawConfig

VARIABLES
    raw,        \* the config file, by what its parsers say
    pc,         \* the next check
    index,      \* the rule that the loop is at
    config,     \* what has been put together so far
    result      \* none, Ok, or the ConfigError with the rule it names

loadVars == <<raw, pc, index, config, result>>

rules == raw.sasl_limits
Indices == 1 .. Len(rules)

Errors == {"Read", "Parse", "BadRedisUrl", "AmbiguousPassword", "ReadPasswordFile",
           "DefaultCount", "EmptyUsername", "BadRegex", "PlanError",
           "ControlSocketSameAsSocket"}

\* Rules are numbered from 1; an error that names no rule has index 0.
LoadTypeOK ==
    /\ raw \in RawConfig
    /\ pc \in {"read", "url", "password", "defaults", "rules", "done"}
    /\ index \in 1 .. Len(rules) + 1
    /\ config.password \in {"none", "url", "file"}
    /\ config.sasl_limits \in Seq([matches : SUBSET Users, plan : Indices])
    /\ config.default_plan \in {0} \cup Indices
    /\ result \in {[status |-> "none"], [status |-> "Ok"]}
                  \cup [status : Errors, index : {0} \cup Indices]

LoadInit ==
    /\ raw \in Files
    /\ pc = "read"
    /\ index = 1
    /\ config = [password |-> "none", sasl_limits |-> << >>, default_plan |-> 0]
    /\ result = [status |-> "none"]

----------------------------------------------------------------------------
(* Config::load *)

Proceed(next) == pc' = next /\ UNCHANGED <<raw, index, result>>

Fail(error, i) ==
    /\ pc' = "done"
    /\ result' = [status |-> error, index |-> i]
    /\ UNCHANGED <<raw, index, config>>

ReadAndParse ==
    /\ pc = "read"
    /\ \/ raw.text = "unreadable" /\ Fail("Read", 0)
       \/ raw.text = "unparsable" /\ Fail("Parse", 0)
       \/ raw.text = "parses" /\ Proceed("url") /\ UNCHANGED config

ParseUrl ==
    /\ pc = "url"
    /\ \/ raw.url = "bad" /\ Fail("BadRedisUrl", 0)
       \/ /\ raw.url # "bad"
          /\ config' = [config EXCEPT !.password = IF raw.url = "password" THEN "url" ELSE @]
          /\ Proceed("password")

Ambiguous == config.password # "none"

ReadPassword ==
    /\ pc = "password"
    /\ \/ raw.password_file = Absent /\ Proceed("defaults") /\ UNCHANGED config
       \/ raw.password_file # Absent /\ Ambiguous /\ Fail("AmbiguousPassword", 0)
       \/ raw.password_file = "unreadable" /\ ~ Ambiguous /\ Fail("ReadPasswordFile", 0)
       \/ /\ raw.password_file = "readable" /\ ~ Ambiguous
          /\ config' = [config EXCEPT !.password = "file"]
          /\ Proceed("defaults")

Defaults == {i \in Indices : rules[i].type = "default"}

\* Definitions named Wrong... are variants that the code could have had; the
\* checks must tell them from the definition that follows.

\* Is content with several.
WrongDefaultsOk == Defaults # {}

DefaultsOk == Cardinality(Defaults) = 1

CountDefaults ==
    /\ pc = "defaults"
    /\ \/ ~ DefaultsOk /\ Fail("DefaultCount", 0)
       \/ DefaultsOk /\ Proceed("rules") /\ UNCHANGED config

\* An empty username is found before its plan is built, a bad regex after.
Fault(r) ==
    IF r.type = "username" /\ r.malformed THEN "EmptyUsername"
    ELSE IF r.plan = "error" THEN "PlanError"
    ELSE IF r.type = "regex" /\ r.malformed THEN "BadRegex"
    ELSE "none"

\* enumerate() counts every entry of the file.
Number == index

\* One entry of [[sasl]]; the default may be anywhere.
AddRule ==
    /\ pc = "rules"
    /\ index \in Indices
    /\ LET r == rules[index]
       IN  \/ Fault(r) # "none" /\ Fail(Fault(r), Number)
           \/ /\ Fault(r) = "none"
              /\ config' = IF r.type = "default"
                           THEN [config EXCEPT !.default_plan = index]
                           ELSE [config EXCEPT !.sasl_limits =
                                    Append(@, [matches |-> r.matches, plan |-> index])]
              /\ index' = index + 1
              /\ UNCHANGED <<raw, pc, result>>

Finish ==
    /\ pc = "rules"
    /\ index > Len(rules)
    /\ \/ raw.control_socket = "socket" /\ Fail("ControlSocketSameAsSocket", 0)
       \/ /\ raw.control_socket # "socket"
          /\ pc' = "done"
          /\ result' = [status |-> "Ok"]
          /\ UNCHANGED <<raw, index, config>>

LoadNext == ReadAndParse \/ ParseUrl \/ ReadPassword \/ CountDefaults \/ AddRule \/ Finish

LoadSpec == LoadInit /\ [][LoadNext]_loadVars

----------------------------------------------------------------------------
(* Config::plan_for *)

Matching(u) == {j \in 1 .. Len(config.sasl_limits) : u \in config.sasl_limits[j].matches}

\* The most recent rule wins.
WrongPlanFor(u) ==
    IF Matching(u) = {} THEN config.default_plan ELSE config.sasl_limits[Max(Matching(u))].plan

PlanFor(u) ==
    IF Matching(u) = {} THEN config.default_plan ELSE config.sasl_limits[Min(Matching(u))].plan

----------------------------------------------------------------------------
(* Properties *)

Ok == result.status = "Ok"

\* What an administrator reads off the file: a user gets the plan of the
\* first entry that matches, wherever the default stands, and the default's
\* only if none does; skipping the default while the rules are collected
\* shifts no plan to another rule.
\* It is stated of well-typed states.
FirstMatchWins ==
    /\ LoadTypeOK
    /\ Ok => \A u \in Users :
        LET matching == {i \in Indices \ Defaults : u \in rules[i].matches}
        IN  PlanFor(u) = IF matching = {} THEN CHOOSE i \in Defaults : TRUE ELSE Min(matching)

\* A file that is accepted has no fault that was passed over: one default, no
\* rule at fault or dropped, two different sockets, and one source at most
\* for the password.  An error that names a rule names the first one that is
\* at fault, by its position in the file.
NothingIsPassedOver ==
    /\ Ok => /\ Cardinality(Defaults) = 1
             /\ Len(config.sasl_limits) = Len(rules) - 1
             /\ \A i \in Indices : rules[i].plan = "ok"
             /\ \A i \in Indices \ Defaults : ~ rules[i].malformed
             /\ raw.control_socket # "socket"
             /\ ~ (raw.url = "password" /\ raw.password_file # Absent)
    /\ (result.status \in Errors /\ result.index # 0) =>
        LET faulty == {i \in Indices : rules[i].plan = "error"
                            \/ (rules[i].type # "default" /\ rules[i].malformed)}
        IN  result.index = Min(faulty)
=============================================================================
