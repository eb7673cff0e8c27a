------------------------------ MODULE Induction ------------------------------
(***************************************************************************)
(* Induction over the natural numbers and what follows from it about least *)
(* and greatest elements, for the loops of the other modules.  A set takes *)
(* the place of a predicate, so that the lemmas can be used as they are.   *)
(***************************************************************************)
EXTENDS Integers, FiniteSetsExt, FiniteSetTheorems, TLAPS

-----------------------------------------------------------------------------

\* A set of numbers that has 0, and with every number the next, has all of
\* them: a number it does not have would let the numbers up to it, less one
\* of them, hold as many as all of them.
LEMMA SetInduction ==
    ASSUME NEW S, 0 \in S, \A n \in Nat : n \in S => n + 1 \in S
    PROVE  Nat \subseteq S
<1> SUFFICES ASSUME NEW n \in Nat, n \notin S PROVE FALSE
  OBVIOUS
<1> DEFINE U == (0 .. n) \ S
           f == [k \in U |-> k - 1]
<1>1. IsFiniteSet(U)
  <2>1. IsFiniteSet(0 .. n)
    BY FS_Interval
  <2>2. U \in SUBSET (0 .. n)
    OBVIOUS
  <2> QED BY <2>1, <2>2, FS_Subset
<1>2. n \in U
  OBVIOUS
<1>3. f \in [U -> U \ {n}]
  <2>1. \A k \in U : k - 1 \in U \ {n}
    OBVIOUS
  <2> QED BY <2>1
<1>5. \A j, k \in U : f[j] = f[k] => j = k
  OBVIOUS
<1> HIDE DEF f, U
<1>4. IsFiniteSet(U \ {n}) /\ Cardinality(U \ {n}) < Cardinality(U)
  <2>1. IsFiniteSet(U \ {n}) /\ Cardinality(U \ {n}) = Cardinality(U) - 1
    BY <1>1, <1>2, FS_RemoveElement
  <2>2. Cardinality(U) \in Nat
    BY <1>1, FS_CardinalityType
  <2> QED BY <2>1, <2>2
<1>6. \E j, k \in U : j # k /\ f[j] = f[k]
  BY <1>1, <1>3, <1>4, FS_PigeonHole
<1> QED BY <1>5, <1>6

\* Numbers have a least one.
LEMMA Minimum ==
    ASSUME NEW S \in SUBSET Nat, S # {}
    PROVE  \E m \in S : \A k \in S : m <= k
<1> SUFFICES ASSUME \A m \in S : \E k \in S : k < m PROVE FALSE
  OBVIOUS
<1> DEFINE T == {n \in Nat : \A k \in S : k > n}
<1>0. 0 \in T
  <2> SUFFICES ASSUME NEW k \in S PROVE k > 0
    OBVIOUS
  <2>1. PICK j \in S : j < k
    OBVIOUS
  <2> QED BY <2>1
<1>1. \A n \in Nat : n \in T => n + 1 \in T
  <2> SUFFICES ASSUME NEW n \in T, NEW k \in S PROVE k > n + 1
    OBVIOUS
  <2>1. PICK j \in S : j < k
    OBVIOUS
  <2>2. j > n
    OBVIOUS
  <2> QED BY <2>1, <2>2
<1> HIDE DEF T
<1>2. Nat \subseteq T
  BY <1>0, <1>1, SetInduction
<1>3. PICK s \in S : TRUE
  OBVIOUS
<1>4. s \in T
  BY <1>2
<1> QED BY <1>3, <1>4 DEF T

\* Min of FiniteSetsExt is that one.
LEMMA MinIsLeast ==
    ASSUME NEW S \in SUBSET Nat, S # {}
    PROVE  Min(S) \in S /\ \A k \in S : Min(S) <= k
BY Minimum DEF Min

\* Max of FiniteSetsExt is the greatest of numbers that have a bound.
LEMMA MaxIsGreatest ==
    ASSUME NEW n \in Nat, NEW S \in SUBSET (0 .. n), S # {}
    PROVE  Max(S) \in S /\ \A k \in S : k <= Max(S)
<1> DEFINE T == {n - k : k \in S}
<1>1. T \in SUBSET Nat /\ T # {}
  <2>1. \A k \in S : n - k \in Nat
    OBVIOUS
  <2>2. PICK k \in S : TRUE
    OBVIOUS
  <2>3. n - k \in T
    OBVIOUS
  <2> QED BY <2>1, <2>3
<1>2. PICK m \in T : \A k \in T : m <= k
  <2> HIDE DEF T
  <2> QED BY <1>1, Minimum
<1>3. PICK l \in S : m = n - l
  BY <1>2
<1>4. ASSUME NEW k \in S PROVE l >= k
  <2>1. n - l <= n - k
    BY <1>2, <1>3
  <2> QED BY <2>1
<1>5. \E x \in S : \A y \in S : x >= y
  BY <1>4
<1>6. Max(S) \in S /\ \A y \in S : Max(S) >= y
  BY <1>5 DEF Max
<1> QED BY <1>6

=============================================================================
