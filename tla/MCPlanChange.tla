---------------------------- MODULE MCPlanChange ----------------------------
(***************************************************************************)
(* Plans that differ in what matters: one window, the same with a smaller  *)
(* count, the same sharing its key with a longer one, and a window with a  *)
(* key of its own.                                                         *)
(***************************************************************************)
EXTENDS PlanChange, KeyNaming, TLC

W(size, span, limit) == [bucket_size |-> size, span_secs |-> span, limit |-> limit]

OneKey(size, retention, windows) ==
    [bucket_sizes |-> {size}, retention_secs |-> size :> retention, windows |-> windows]

MCPlans ==
    {OneKey(2, 3, {W(2, 3, 2)}), OneKey(2, 3, {W(2, 3, 1)}),
     OneKey(2, 5, {W(2, 3, 2), W(2, 5, 3)}), OneKey(1, 2, {W(1, 2, 1)})}

InstanceSymmetry == Permutations(Instances)

\* Instances meet in the hashes of a sender only if they name the same prefix:
\* usernames over the separator, the escape character and a digit, one that
\* looks like the middle of a key, and a prefix that is the beginning of one.
ASSUME KeysAreDistinct(
    {<<"p">>, <<"p", ":", "b", ":", "v", ":", "s">>},
    (SeqOf({":", "\\", "1"}, 4) \ {<< >>}) \cup {<<"b", ":", "v", ":", "s", ":", "1">>},
    {<<"1">>, <<"1", "1">>})
=============================================================================
