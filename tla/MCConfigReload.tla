--------------------------- MODULE MCConfigReload ---------------------------
(***************************************************************************)
(* Small instances of ConfigReload: its constants are sets of names, given *)
(* in the configurations.                                                  *)
(***************************************************************************)
EXTENDS ConfigReload
=============================================================================
