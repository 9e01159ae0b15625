------------------------------- MODULE Tally -------------------------------
(***************************************************************************)
(* Hashes of counters, as Valkey keeps them: a function from the fields    *)
(* that are present to natural numbers.  The sum of some fields is written *)
(* as the size of the disjoint union of the intervals 1 .. f[x], so that   *)
(* the facts about finite sets and cardinality apply to it and no          *)
(* induction is needed to reason about it.                                 *)
(***************************************************************************)
EXTENDS Integers, FiniteSets

\* A hash with no fields; Valkey does not keep such a key at all.
NoFields == [x \in {} |-> 0]

\* The value of field x, 0 when it is absent.
Field(f, x) == IF x \in DOMAIN f THEN f[x] ELSE 0

\* HINCRBY: adds n to field x, creating it at 0 first if it is absent.
Increment(f, x, n) ==
    [y \in DOMAIN f \cup {x} |-> IF y = x THEN Field(f, x) + n ELSE f[y]]

\* HDEL: the hash without the fields in D.
Without(f, D) == [y \in DOMAIN f \ D |-> f[y]]

\* One element <<x, j>> for each unit counted by f in a field of S.
Units(f, S) == UNION {{x} \X (1 .. f[x]) : x \in S \cap DOMAIN f}

\* The sum of the fields of f that are in S.
Total(f, S) == Cardinality(Units(f, S))
=============================================================================
