----------------------------- MODULE MCStartup -----------------------------
(***************************************************************************)
(* Two process ids and two paths, named by configs in every role: the same *)
(* policy socket with and without a control socket, and crosswise.         *)
(***************************************************************************)
EXTENDS Startup

CONSTANTS x, y

C(socket, control) == [socket |-> socket, control_socket |-> control]
MCConfigs == {C(x, Absent), C(x, y), C(y, x)}
=============================================================================
