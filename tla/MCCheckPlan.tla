---------------------------- MODULE MCCheckPlan ----------------------------
(***************************************************************************)
(* CheckPlan with the constants of src/config.rs, on rules of up to three  *)
(* windows whose durations are at the boundaries: the shortest and longest *)
(* accepted, one second off them, and on either side of a doubling.        *)
(***************************************************************************)
EXTENDS CheckPlan, SequencesExt

Durations == {59, 60, 99, 100, 101, 86400, 2678400, 2678401}

MCWindows ==
    [count : {1, 2}, secs : Durations, whole : {TRUE}]
    \cup [count : {1}, secs : {100}, whole : {FALSE}]

MCRules ==
    [windows : SeqOf(MCWindows, 3), unrestricted : {Absent}]
    \cup [windows : SeqOf(MCWindows, 1) \cup {Absent},
          unrestricted : {TRUE, FALSE, Absent}]
=============================================================================
