----------------------------- MODULE MCLimiter -----------------------------
(***************************************************************************)
(* Small instances of Limiter.  A plan is scaled down: bucket sizes of 1   *)
(* to 3 seconds and spans of a few buckets.                                *)
(***************************************************************************)
EXTENDS Limiter, TLC

CONSTANTS alice, robot

W(size, span, limit) == [bucket_size |-> size, span_secs |-> span, limit |-> limit]

\* Two windows sharing the key of size 2 and a third with a key of its own.
SharedKeyPlan ==
    [bucket_sizes |-> {1, 2},
     retention_secs |-> (1 :> 1) @@ (2 :> 3),
     windows |-> {W(1, 1, 2), W(2, 2, 3), W(2, 3, 4)}]

\* unrestricted = true.
NoPlan ==
    [bucket_sizes |-> {}, retention_secs |-> [s \in {} |-> 0], windows |-> {}]

SharedKeyPlans == (alice :> SharedKeyPlan) @@ (robot :> NoPlan)

\* The size of the disjoint union is the ordinary sum.
ASSUME \A f \in [0 .. 2 -> 0 .. 2], S \in SUBSET (0 .. 3) :
    Total(f, S) = MapThenSumSet(LAMBDA x : f[x], S \cap DOMAIN f)
=============================================================================
