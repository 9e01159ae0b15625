------------------------------ MODULE MCConfig ------------------------------
(***************************************************************************)
(* The config file: either Config::load reads one of many (ConfigLoad), or *)
(* the running process is told to read it again (ConfigReload, where what  *)
(* load returns is one step).  They share no state, so a behaviour is of   *)
(* one part.                                                               *)
(*                                                                         *)
(* Files have up to three rules of every type around otherwise good        *)
(* settings, or every combination of settings around a few rules.          *)
(***************************************************************************)
EXTENDS ConfigReload, ConfigLoad

Ext == INSTANCE SequencesExt

MCRules ==
    {r \in Rule : r.type # "default" =>
        /\ r.malformed => r.matches = {}
        /\ r.type = "username" => Cardinality(r.matches) <= 1}

WithRules(rs) ==
    [text |-> "parses", url |-> "plain", password_file |-> Absent,
     control_socket |-> Absent, sasl_limits |-> rs]

MCFiles ==
    {WithRules(rs) : rs \in Ext!SeqOf(MCRules, 3)}
    \cup [text : {"unreadable", "unparsable", "parses"}, url : {"bad", "plain", "password"},
          password_file : {Absent, "unreadable", "readable"},
          control_socket : {Absent, "other", "socket"},
          sasl_limits : Ext!SeqOf({r \in MCRules : r.type = "default"}, 2)]

VARIABLE part   \* the part that runs

configVars == <<part, loadVars, vars>>

InLoad(A) == part = "load" /\ A /\ UNCHANGED <<part, vars>>
InReload(A) == part = "reload" /\ A /\ UNCHANGED <<part, loadVars>>

\* The part that does not run stays in one of its initial states.
ConfigInit ==
    \/ part = "load" /\ LoadInit /\ Init /\ file.settings = CHOOSE s \in Settings : TRUE
    \/ part = "reload" /\ Init /\ LoadInit /\ raw = WithRules(<< >>)

ConfigNext == InLoad(LoadNext) \/ InReload(Next)

\* The fairness of ConfigReload!FairSpec.
ConfigSpec ==
    /\ ConfigInit /\ [][ConfigNext]_configVars
    /\ WF_configVars(InReload(CountRequest))
    /\ WF_configVars(InReload(ClaimReload))
    /\ \A w \in Workers : WF_configVars(InReload(WorkerStep(w)))
=============================================================================
