---------------------------- MODULE MCConnection ----------------------------
(***************************************************************************)
(* The two ends of a socket: either a reader cuts what a peer sends into   *)
(* requests (RequestFraming), or runs of the tool query the daemon         *)
(* (ControlClient).  They share no state, so a behaviour is of one part.   *)
(*                                                                         *)
(* Three bytes and a cap of three, so that requests end right before, at   *)
(* and beyond the cap, alone and after another one.                        *)
(***************************************************************************)
EXTENDS RequestFraming, ControlClient

VARIABLE part   \* the part that runs

connectionVars == <<part, vars, clientVars>>

InReader(A) == part = "reader" /\ A /\ UNCHANGED <<part, clientVars>>
InTool(A) == part = "tool" /\ A /\ UNCHANGED <<part, vars>>

\* The part that does not run stays in one of its initial states.
ConnectionInit ==
    /\ Init /\ ClientInit
    /\ part = "reader" \/ (part = "tool" /\ kind = "control")

ConnectionNext == InReader(Next) \/ InTool(ClientNext)

\* The fairness of FairSpec and of FairClientSpec.
ConnectionSpec ==
    /\ ConnectionInit /\ [][ConnectionNext]_connectionVars
    /\ WF_connectionVars(InReader(Reader))
    /\ \A c \in Clients : /\ WF_connectionVars(InTool(ToolStep(c)))
                          /\ WF_connectionVars(InTool(TaskStep(c)))
    /\ WF_connectionVars(InTool(Accept)) /\ WF_connectionVars(InTool(Exit))
=============================================================================
