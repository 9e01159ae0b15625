-------------------------- MODULE MCControlStatus --------------------------
(***************************************************************************)
(* ControlStatus on the plans of MCLimiter.                                *)
(***************************************************************************)
EXTENDS ControlStatus, MCLimiter
=============================================================================
