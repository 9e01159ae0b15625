-------------------------- MODULE MCControlClient --------------------------
(***************************************************************************)
(* Runs of the tool; the .cfg files give the constants their values.       *)
(***************************************************************************)
EXTENDS ControlClient
=============================================================================
