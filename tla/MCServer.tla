------------------------------ MODULE MCServer ------------------------------
(***************************************************************************)
(* What the serving process does and what it says of it: either the main   *)
(* loop and its connections run (PolicyServer), or tasks count events that *)
(* report_stats prints and resets (Stats).  They share no state, so a      *)
(* behaviour is of one part.                                               *)
(***************************************************************************)
EXTENDS MCPolicyServer, MCStats

VARIABLE part   \* the part that runs

serverVars == <<part, vars, statsVars>>

\* The part that does not run stays in one of its initial states.
ServerInit ==
    /\ Init /\ StatsInit
    /\ \/ part = "server" /\ level = "info" /\ warn
       \/ part = "stats" /\ config = "defer"

ServerNext ==
    \/ part = "server" /\ Next /\ UNCHANGED <<part, statsVars>>
    \/ part = "stats" /\ StatsNext /\ UNCHANGED <<part, vars>>

ServerSpec == ServerInit /\ [][ServerNext]_serverVars
\* The part that does not run need not be compared.
PartView == <<part, IF part = "server" THEN vars ELSE statsVars>>
=============================================================================
