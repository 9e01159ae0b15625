--------------------------- MODULE MCPolicyServer ---------------------------
(***************************************************************************)
(* Small instances of PolicyServer.  More connections than slots, so that  *)
(* a refusal and the reuse of a slot occur.                                *)
(***************************************************************************)
EXTENDS PolicyServer

ASSUME Cardinality(Conns) > MAX_CONNECTIONS
=============================================================================
