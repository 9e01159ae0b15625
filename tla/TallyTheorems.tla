--------------------------- MODULE TallyTheorems ---------------------------
(***************************************************************************)
(* Facts about hashes of counters: how Total behaves under a larger set of *)
(* fields, HINCRBY and HDEL, and what a record of the script does to it.   *)
(***************************************************************************)
EXTENDS CheckAndRecord, FiniteSetTheorems, TLAPS

\* Every set of naturals that is not empty has a least element.
LEMMA LeastNatural ==
    ASSUME NEW S, S \subseteq Nat, S # {}
    PROVE  \E x \in S : \A y \in S : x <= y
  <1> DEFINE R == OpToRel(<, Nat)
  <1>1. \A x, y \in Nat : <<x, y>> \in R <=> x < y
    BY DEF OpToRel
  <1>2. IsWellFoundedOn(R, Nat)
    BY NatLessThanWellFounded
  <1> HIDE DEF R
  <1>3. PICK x \in S : \A y \in S : ~ (<<y, x>> \in R)
    BY <1>2, WFMin
  <1>4. ASSUME NEW y \in S PROVE x <= y
    <2>1. x \in Nat /\ y \in Nat /\ ~ (<<y, x>> \in R)
      BY <1>3
    <2>2. ~ (y < x)
      BY <1>1, <2>1
    <2> QED
      BY <2>1, <2>2
  <1> QED
    BY <1>4

\* A hash of counters with finitely many units in all.
IsTally(f) ==
    /\ DOMAIN f \subseteq Nat
    /\ \A x \in DOMAIN f : f[x] \in Nat
    /\ IsFiniteSet(Units(f, DOMAIN f))

\* Membership in Units, spelled out.
LEMMA UnitsMember ==
    ASSUME NEW f, NEW S, NEW p
    PROVE  p \in Units(f, S) <=>
              \E x \in S \cap DOMAIN f : p \in {x} \X (1 .. f[x])
  BY DEF Units

\* Only the fields that are present matter: sets that agree on them have
\* the same units, hence the same total.
LEMMA UnitsAgree ==
    ASSUME NEW f, NEW S, NEW T, S \cap DOMAIN f = T \cap DOMAIN f
    PROVE  Units(f, S) = Units(f, T) /\ Total(f, S) = Total(f, T)
  BY DEF Units, Total

\* The units in a set of fields are among the units of a larger one.
LEMMA UnitsMonotone ==
    ASSUME NEW f, NEW S, NEW T, S \cap DOMAIN f \subseteq T
    PROVE  Units(f, S) \subseteq Units(f, T)
  BY UnitsMember

\* The total of any set of fields of a hash of counters is a number.
LEMMA TotalType ==
    ASSUME NEW f, IsTally(f), NEW S
    PROVE  IsFiniteSet(Units(f, S)) /\ Total(f, S) \in Nat
  <1>1. Units(f, S) \subseteq Units(f, DOMAIN f)
    BY UnitsMonotone
  <1>2. IsFiniteSet(Units(f, S))
    BY <1>1, FS_Subset DEF IsTally
  <1> QED
    BY <1>2, FS_CardinalityType DEF Total

\* A total can only grow with the set of fields.
LEMMA TotalMonotone ==
    ASSUME NEW f, IsTally(f), NEW S, NEW T, S \cap DOMAIN f \subseteq T
    PROVE  Total(f, S) <= Total(f, T)
  <1>1. Units(f, S) \subseteq Units(f, T)
    BY UnitsMonotone
  <1>2. IsFiniteSet(Units(f, T))
    BY TotalType
  <1> QED
    BY <1>1, <1>2, FS_Subset DEF Total

\* The empty hash counts nothing.
LEMMA NoFieldsTally ==
    IsTally(NoFields) /\ \A S : Total(NoFields, S) = 0
  <1>1. DOMAIN NoFields = {}
    BY DEF NoFields
  <1>2. \A S : Units(NoFields, S) = {}
    BY <1>1 DEF Units
  <1> QED
    BY <1>1, <1>2, FS_EmptySet DEF IsTally, Total

\* HDEL of fields outside S leaves the total of S alone.
LEMMA WithoutTotal ==
    ASSUME NEW f, IsTally(f), NEW D
    PROVE  /\ IsTally(Without(f, D))
           /\ \A S : S \cap D = {} => Total(Without(f, D), S) = Total(f, S)
  <1> DEFINE g == Without(f, D)
  <1>1. DOMAIN g = DOMAIN f \ D /\ \A x \in DOMAIN g : g[x] = f[x]
    BY DEF Without
  <1> HIDE DEF g
  <1>2. ASSUME NEW S PROVE Units(g, S) \subseteq Units(f, S)
    BY <1>1, UnitsMember
  <1>3. ASSUME NEW S, S \cap D = {} PROVE Units(f, S) \subseteq Units(g, S)
    BY <1>1, <1>3, UnitsMember
  <1>4. ASSUME NEW S, S \cap D = {} PROVE Total(g, S) = Total(f, S)
    BY <1>2, <1>3, <1>4 DEF Total
  <1>5. Units(g, DOMAIN g) \subseteq Units(f, DOMAIN f)
    BY <1>1, <1>2, UnitsMonotone
  <1>6. IsTally(g)
    BY <1>1, <1>5, FS_Subset DEF IsTally
  <1> QED
    BY <1>4, <1>6 DEF g

\* HINCRBY of n adds n to the total of every set with that field.
LEMMA IncrementTotal ==
    ASSUME NEW f, IsTally(f), NEW x \in Nat, NEW n \in Nat
    PROVE  /\ IsTally(Increment(f, x, n))
           /\ \A S : Total(Increment(f, x, n), S)
                     = Total(f, S) + (IF x \in S THEN n ELSE 0)
  <1> DEFINE g == Increment(f, x, n)
             v == Field(f, x)
             new == {x} \X ((v + 1) .. (v + n))
  <1>1. v \in Nat
    BY DEF Field, IsTally
  <1>2. /\ DOMAIN g = DOMAIN f \cup {x}
        /\ g[x] = v + n
        /\ \A y \in DOMAIN f \ {x} : g[y] = f[y]
    BY DEF Increment
  <1>3. x \in DOMAIN f => v = f[x]
    BY DEF Field
  <1>4. x \notin DOMAIN f => v = 0
    BY DEF Field
  <1>5. \A y \in DOMAIN f : f[y] \in Nat
    BY DEF IsTally
  <1>6. IsFiniteSet(new) /\ Cardinality(new) = n
    <2>1. IsFiniteSet({x}) /\ Cardinality({x}) = 1
      BY FS_Singleton
    <2> HIDE DEF v
    <2> DEFINE I == (v + 1) .. (v + n)
    <2>2. IsFiniteSet(I) /\ Cardinality(I) = n
      <3>1. v + 1 \in Int /\ v + n \in Int
        BY <1>1
      <3>2. /\ IsFiniteSet(I)
            /\ Cardinality(I) = IF v + 1 > v + n THEN 0 ELSE (v + n) - (v + 1) + 1
        BY <3>1, FS_Interval
      <3> QED
        BY <3>2, <1>1
    <2> HIDE DEF I
    <2>3. IsFiniteSet({x} \X I) /\ Cardinality({x} \X I) = 1 * n
      BY <2>1, <2>2, FS_Product
    <2> QED
      BY <2>3 DEF I
  <1>7. \A S : x \notin S => Units(g, S) = Units(f, S)
    <2> SUFFICES ASSUME NEW S, x \notin S PROVE Units(g, S) = Units(f, S)
      OBVIOUS
    <2> HIDE DEF g
    <2>1. S \cap DOMAIN g = S \cap DOMAIN f /\ \A y \in S \cap DOMAIN f : g[y] = f[y]
      BY <1>2
    <2> QED
      BY <2>1 DEF Units
  <1>8. ASSUME NEW S, x \in S
        PROVE  Units(g, S) = Units(f, S) \cup new /\ Units(f, S) \cap new = {}
    <2> HIDE DEF g
    <2>0. \A p, y, k : p \in {y} \X (1 .. k) <=> \E j \in 1 .. k : p = <<y, j>>
      OBVIOUS
    <2>1. ASSUME NEW p \in Units(g, S) PROVE p \in Units(f, S) \cup new
      <3>1. PICK y \in S \cap DOMAIN g : p \in {y} \X (1 .. g[y])
        BY <2>1, UnitsMember
      <3>2. PICK j \in 1 .. g[y] : p = <<y, j>>
        BY <3>1
      <3>3. CASE y # x
        BY <3>1, <3>3, <1>2, UnitsMember
      <3>4. CASE y = x /\ j \in (v + 1) .. (v + n)
        BY <3>2, <3>4
      <3>5. CASE y = x /\ j \in 1 .. v
        <4>1. x \in DOMAIN f /\ j \in 1 .. f[x]
          BY <3>5, <1>3, <1>4
        <4> QED
          BY <4>1, <3>2, <3>5, <1>8, UnitsMember
      <3> QED
        BY <3>2, <3>3, <3>4, <3>5, <1>1, <1>2
    <2>2. ASSUME NEW p \in Units(f, S) PROVE p \in Units(g, S) /\ p \notin new
      <3>1. PICK y \in S \cap DOMAIN f : p \in {y} \X (1 .. f[y])
        BY <2>2, UnitsMember
      <3>2. PICK j \in 1 .. f[y] : p = <<y, j>>
        BY <3>1
      <3>3. y \in S \cap DOMAIN g /\ j \in 1 .. g[y]
        BY <3>1, <3>2, <1>1, <1>2, <1>3, <1>5
      <3>4. p \in Units(g, S)
        BY <3>3, <3>2, UnitsMember
      <3>5. p \notin new
        <4> SUFFICES ASSUME y = x, j \in (v + 1) .. (v + n) PROVE FALSE
          BY <3>2
        <4> QED
          BY <3>1, <3>2, <1>3, <1>5
      <3> QED
        BY <3>4, <3>5
    <2>3. ASSUME NEW p \in new PROVE p \in Units(g, S)
      <3>1. PICK j \in (v + 1) .. (v + n) : p = <<x, j>>
        BY <2>3
      <3>2. j \in 1 .. g[x]
        BY <3>1, <1>1, <1>2
      <3> QED
        BY <3>1, <3>2, <1>2, <1>8, UnitsMember
    <2> QED
      BY <2>1, <2>2, <2>3
  <1>9. \A S : IsFiniteSet(Units(g, S))
                /\ Total(g, S) = Total(f, S) + (IF x \in S THEN n ELSE 0)
    <2> SUFFICES ASSUME NEW S
                 PROVE  IsFiniteSet(Units(g, S))
                        /\ Total(g, S) = Total(f, S) + (IF x \in S THEN n ELSE 0)
      OBVIOUS
    <2> HIDE DEF g
    <2>0. IsFiniteSet(Units(f, S)) /\ Total(f, S) \in Nat
      BY TotalType
    <2>1. CASE x \notin S
      BY <2>0, <2>1, <1>7 DEF Total
    <2>2. CASE x \in S
      <3>1. Units(g, S) = Units(f, S) \cup new /\ Units(f, S) \cap new = {}
        BY <1>8, <2>2
      <3> HIDE DEF new
      <3>2. IsFiniteSet(Units(g, S))
            /\ Cardinality(Units(g, S)) = Cardinality(Units(f, S)) + n - Cardinality({})
        BY <3>1, <2>0, <1>6, FS_Union
      <3> QED
        BY <3>2, <2>0, <2>2, FS_EmptySet DEF Total
    <2> QED
      BY <2>1, <2>2
  <1>10. IsTally(g)
    <2> HIDE DEF g
    <2>1. DOMAIN g \subseteq Nat /\ \A y \in DOMAIN g : g[y] \in Nat
      BY <1>1, <1>2, <1>5 DEF IsTally
    <2> QED
      BY <2>1, <1>9 DEF IsTally
  <1> QED
    BY <1>9, <1>10

----------------------------------------------------------------------------
(* Buckets *)

\* The buckets, and the seconds, that count above a cutoff.
LiveSet(s, oldest) == {id \in Nat : BucketEnd(id, s) > oldest}
ChargedSet(s, oldest) == {t \in Nat : BucketEnd(BucketOf(t, s), s) > oldest}

\* An instant lies in its bucket, and a bucket is size long.
LEMMA BucketBounds ==
    ASSUME NEW t \in Nat, NEW s \in Nat \ {0}
    PROVE  /\ BucketOf(t, s) \in Nat
           /\ BucketEnd(BucketOf(t, s), s) \in Nat
           /\ t < BucketEnd(BucketOf(t, s), s)
           /\ BucketEnd(BucketOf(t, s), s) <= t + s
  <1> DEFINE q == t \div s
  <1>1. q \in Nat /\ t = q * s + (t % s) /\ t % s \in 0 .. (s - 1)
    OBVIOUS
  <1>2. (q + 1) * s = q * s + s /\ q * s \in Nat
    BY <1>1
  <1> QED
    BY <1>1, <1>2 DEF BucketOf, BucketEnd

\* The end of a bucket is a number.
LEMMA BucketEndType ==
    ASSUME NEW id \in Nat, NEW s \in Nat \ {0}
    PROVE  BucketEnd(id, s) \in Nat
  BY DEF BucketEnd

\* The buckets the script counts are those of LiveSet.
LEMMA LiveTotal ==
    ASSUME NEW h, IsTally(h), NEW s \in Nat \ {0}, NEW oldest \in Int
    PROVE  Total(h, LiveIds(h, s, oldest)) = Total(h, LiveSet(s, oldest))
  <1>1. LiveIds(h, s, oldest) \cap DOMAIN h = LiveSet(s, oldest) \cap DOMAIN h
    BY DEF LiveIds, LiveSet, IsTally
  <1> QED
    BY <1>1, UnitsAgree

\* What recording does to a hash: above any cutoff within the retention it
\* adds n if the current bucket counts, and pruning takes nothing away.
RecordsIn(h, s, r, n, t) ==
    LET g == Recorded(h, s, r, n, t)
    IN  /\ IsTally(g)
        /\ DOMAIN g \subseteq DOMAIN h \cup {BucketOf(t, s)}
        /\ \A oldest \in Int : oldest >= t - r =>
             Total(g, LiveSet(s, oldest))
             = Total(h, LiveSet(s, oldest))
               + (IF BucketOf(t, s) \in LiveSet(s, oldest) THEN n ELSE 0)

\* Recorded, the script's HINCRBY followed by its pruning, does so.
LEMMA RecordedTotal ==
    ASSUME NEW h, IsTally(h), NEW s \in Nat \ {0}, NEW r \in Nat,
           NEW n \in Nat, NEW t \in Nat
    PROVE  RecordsIn(h, s, r, n, t)
  <1> DEFINE b == BucketOf(t, s)
             g == Increment(h, b, n)
             D == StaleIds(h, s, t - r)
  <1>1. b \in Nat
    BY BucketBounds
  <1>2. /\ IsTally(g)
        /\ \A S : Total(g, S) = Total(h, S) + (IF b \in S THEN n ELSE 0)
    BY <1>1, IncrementTotal
  <1>3. DOMAIN g = DOMAIN h \cup {b}
    BY DEF Increment
  <1>4. \A id \in D : id \in Nat /\ BucketEnd(id, s) <= t - r
    BY DEF StaleIds, IsTally
  <1>5. ASSUME NEW oldest \in Int, oldest >= t - r
        PROVE  LiveSet(s, oldest) \cap D = {}
    <2> SUFFICES ASSUME NEW id \in LiveSet(s, oldest), id \in D PROVE FALSE
      OBVIOUS
    <2>1. id \in Nat /\ BucketEnd(id, s) > oldest /\ BucketEnd(id, s) <= t - r
      BY <1>4 DEF LiveSet
    <2>2. BucketEnd(id, s) \in Nat
      BY <2>1, BucketEndType
    <2> QED
      BY <2>1, <2>2, <1>5
  <1> HIDE DEF D, g
  <1>6. /\ IsTally(Without(g, D))
        /\ \A S : S \cap D = {} => Total(Without(g, D), S) = Total(g, S)
    BY <1>2, WithoutTotal
  <1>7. DOMAIN Without(g, D) \subseteq DOMAIN h \cup {b}
    BY <1>3 DEF Without
  <1>8. Recorded(h, s, r, n, t) = Without(g, D)
    BY DEF Recorded, g, D
  <1>9. ASSUME NEW oldest \in Int, oldest >= t - r
        PROVE  Total(Without(g, D), LiveSet(s, oldest))
               = Total(h, LiveSet(s, oldest))
                 + (IF b \in LiveSet(s, oldest) THEN n ELSE 0)
    BY <1>2, <1>5, <1>6, <1>9
  <1> QED
    BY <1>6, <1>7, <1>8, <1>9 DEF RecordsIn

\* Whatever the cutoff, recording adds at most n, and only where the current
\* bucket counts: pruning can only take away.
LEMMA RecordedNoMore ==
    ASSUME NEW h, IsTally(h), NEW s \in Nat \ {0}, NEW r \in Nat,
           NEW n \in Nat, NEW t \in Nat, NEW S
    PROVE  Total(Recorded(h, s, r, n, t), S)
           <= Total(h, S) + (IF BucketOf(t, s) \in S THEN n ELSE 0)
  <1> DEFINE g == Increment(h, BucketOf(t, s), n)
             D == StaleIds(h, s, t - r)
  <1>0. BucketOf(t, s) \in Nat
    BY BucketBounds
  <1>1. /\ IsTally(g)
        /\ Total(g, S) = Total(h, S) + (IF BucketOf(t, s) \in S THEN n ELSE 0)
    BY <1>0, IncrementTotal
  <1>2. Recorded(h, s, r, n, t) = Without(g, D)
    BY DEF Recorded
  <1> HIDE DEF g, D
  <1>3. Units(Without(g, D), S) \subseteq Units(g, S)
    <2>1. /\ DOMAIN Without(g, D) = DOMAIN g \ D
          /\ \A x \in DOMAIN Without(g, D) : Without(g, D)[x] = g[x]
      BY DEF Without
    <2> QED
      BY <2>1, UnitsMember
  <1>4. IsFiniteSet(Units(g, S))
    BY <1>1, TotalType
  <1>5. Cardinality(Units(Without(g, D), S)) <= Cardinality(Units(g, S))
    BY <1>3, <1>4, FS_Subset
  <1>6. Total(Without(g, D), S) <= Total(g, S)
    BY <1>5 DEF Total
  <1> QED
    BY <1>1, <1>2, <1>6
=============================================================================
