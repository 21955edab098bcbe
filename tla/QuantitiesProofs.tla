---------------------------- MODULE QuantitiesProofs ----------------------------
(***************************************************************************)
(* What the proofs about stock need of a sum over finitely many rows.      *)
(***************************************************************************)
EXTENDS Quantities, FiniteSetTheorems, TLAPS

\* The units of one row, and the units of the others.
UnitsAt(quantity, x) == {x} \X (1..quantity[x])
UnitsBeside(quantity, x) ==
  UNION {{y} \X (1..quantity[y]) : y \in DOMAIN quantity \ {x}}

LEMMA RowOfUnits ==
  ASSUME NEW x, NEW n \in Nat
  PROVE  IsFiniteSet({x} \X (1..n)) /\ Cardinality({x} \X (1..n)) = n
<1>1. IsFiniteSet({x}) /\ Cardinality({x}) = 1
  BY FS_Singleton
<1>2. IsFiniteSet(1..n) /\ Cardinality(1..n) = n
  BY FS_Interval
<1>3. /\ IsFiniteSet({x} \X (1..n))
      /\ Cardinality({x} \X (1..n)) = Cardinality({x}) * Cardinality(1..n)
  BY <1>1, <1>2, FS_Product
<1>4. 1 * n = n
  OBVIOUS
<1> QED
  BY <1>1, <1>2, <1>3, <1>4

\* There are finitely many units.
LEMMA UnitsFinite ==
  ASSUME NEW S, IsFiniteSet(S), NEW q \in [S -> Nat]
  PROVE  IsFiniteSet(Units(q))
<1> DEFINE row == [x \in S |-> {x} \X (1..q[x])]
           T == {{x} \X (1..q[x]) : x \in S}
<1>1. row \in Surjection(S, T)
  BY DEF Surjection
<1>2. IsFiniteSet(T)
  BY <1>1, FS_Surjection
<1>3. \A t \in T : IsFiniteSet(t)
  <2> SUFFICES ASSUME NEW x \in S PROVE IsFiniteSet({x} \X (1..q[x]))
    OBVIOUS
  <2>1. q[x] \in Nat
    OBVIOUS
  <2> QED
    BY <2>1, RowOfUnits
<1> QED
  BY <1>2, <1>3, FS_UNION DEF Units

\* A sum of natural numbers is one.
LEMMA SumIsNat ==
  ASSUME NEW S, IsFiniteSet(S), NEW q \in [S -> Nat]
  PROVE  SumOf(q) \in Nat
BY UnitsFinite, FS_CardinalityType DEF SumOf

\* A sum splits into one row and the others.
LEMMA SumSplits ==
  ASSUME NEW S, IsFiniteSet(S), NEW q \in [S -> Nat], NEW x \in S
  PROVE  /\ Cardinality(UnitsBeside(q, x)) \in Nat
         /\ SumOf(q) = Cardinality(UnitsBeside(q, x)) + q[x]
<1> DEFINE A == UnitsBeside(q, x)
           B == UnitsAt(q, x)
<1>1. Units(q) = A \cup B
  BY DEF Units, UnitsBeside, UnitsAt
<1>2. A \cap B = {}
  BY DEF UnitsBeside, UnitsAt
<1>3. IsFiniteSet(A) /\ Cardinality(A) \in Nat
  <2>1. A \in SUBSET Units(q)
    BY <1>1
  <2> QED
    BY <2>1, UnitsFinite, FS_Subset, FS_CardinalityType
<1>4. IsFiniteSet(B) /\ Cardinality(B) = q[x]
  BY RowOfUnits DEF UnitsAt
<1>5. Cardinality(A \cup B) = Cardinality(A) + Cardinality(B) - Cardinality(A \cap B)
  BY <1>3, <1>4, FS_Union
<1>6. Cardinality(A \cap B) = 0
  BY <1>2, FS_EmptySet
<1> HIDE DEF A, B
<1>7. Cardinality(A \cup B) = Cardinality(A) + q[x]
  BY <1>3, <1>4, <1>5, <1>6
<1> QED
  BY <1>1, <1>3, <1>7 DEF SumOf, A

\* No row has more than all of them together.
LEMMA RowWithinSum ==
  ASSUME NEW S, IsFiniteSet(S), NEW q \in [S -> Nat], NEW x \in S
  PROVE  q[x] <= SumOf(q)
BY SumSplits

\* Where one row changes, the sum changes by as much.
LEMMA SumChanges ==
  ASSUME NEW S, IsFiniteSet(S), NEW q \in [S -> Nat], NEW t \in [S -> Nat], NEW x \in S,
         \A y \in S \ {x} : t[y] = q[y]
  PROVE  SumOf(t) = SumOf(q) - q[x] + t[x]
<1>1. UnitsBeside(t, x) = UnitsBeside(q, x)
  BY DEF UnitsBeside
<1> QED
  BY <1>1, SumSplits

\* Rows without units add up to none.
LEMMA SumOfNone ==
  ASSUME NEW S, NEW q \in [S -> Nat], \A x \in S : q[x] = 0
  PROVE  SumOf(q) = 0
<1>1. Units(q) = {}
  BY DEF Units
<1> QED
  BY <1>1, FS_EmptySet DEF SumOf
================================================================================
