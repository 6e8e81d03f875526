--------------------------- MODULE PositionsProofs ---------------------------
(***************************************************************************)
(* Facts about numbers, their order and the selection by position that the *)
(* proofs of the components share.                                         *)
(***************************************************************************)
EXTENDS Positions, Sequences, FiniteSetsExt, FiniteSetTheorems, WellFoundedInduction, TLAPS

(***************************************************************************)
(* A set of naturals that is not empty has a least member.                 *)
(***************************************************************************)
LEMMA LeastNatural ==
  ASSUME NEW S \in SUBSET Nat, S # {}
  PROVE  \E i \in S : \A j \in S : i <= j
<1>1. PICK i \in S : \A j \in S : <<j, i>> \notin OpToRel(<, Nat)
  <2>1. \E i \in S : \A j \in S : <<j, i>> \notin OpToRel(<, Nat)
    BY NatLessThanWellFounded, WFMin
  <2>. QED BY <2>1
<1>2. ASSUME NEW j \in S PROVE i <= j
  <2>1. ~ (j < i)
    BY <1>1 DEF OpToRel
  <2>. QED BY <2>1
<1>. QED BY <1>2

(***************************************************************************)
(* Min is that member.                                                     *)
(***************************************************************************)
LEMMA MinIsLeast ==
  ASSUME NEW S \in SUBSET Nat, S # {}
  PROVE  Min(S) \in S /\ \A j \in S : Min(S) <= j
<1>1. \E i \in S : \A j \in S : i <= j
  BY LeastNatural
<1>. QED BY <1>1 DEF Min

-----------------------------------------------------------------------------

UpTo(S, i) == {j \in S : j <= i}

Rank(S) == [i \in S |-> Cardinality(UpTo(S, i))]

(***************************************************************************)
(* The rank of a member counts it and those below it, so that ranks are    *)
(* ordered like the members.                                               *)
(***************************************************************************)
LEMMA RankGrows ==
  ASSUME NEW S \in SUBSET Int, IsFiniteSet(S)
  PROVE  /\ Rank(S) \in [S -> 1 .. Cardinality(S)]
         /\ \A i, j \in S : i < j => Rank(S)[i] < Rank(S)[j]
<1>1. Cardinality(S) \in Nat
  BY FS_CardinalityType
<1>2. ASSUME NEW i \in S
      PROVE  IsFiniteSet(UpTo(S, i)) /\ Cardinality(UpTo(S, i)) \in 1 .. Cardinality(S)
  <2>1. UpTo(S, i) \in SUBSET S /\ UpTo(S, i) # {}
    BY DEF UpTo
  <2>2. IsFiniteSet(UpTo(S, i)) /\ Cardinality(UpTo(S, i)) <= Cardinality(S)
    BY <2>1, FS_Subset
  <2>3. Cardinality(UpTo(S, i)) \in Nat /\ Cardinality(UpTo(S, i)) # 0
    BY <2>1, <2>2, FS_CardinalityType, FS_EmptySet
  <2>. QED BY <1>1, <2>2, <2>3
<1>3. ASSUME NEW i \in S, NEW j \in S, i < j
      PROVE  Cardinality(UpTo(S, i)) < Cardinality(UpTo(S, j))
  <2>1. UpTo(S, i) \in SUBSET UpTo(S, j) /\ j \in UpTo(S, j) /\ j \notin UpTo(S, i)
    <3>1. i \in Int /\ j \in Int /\ \A k \in S : k \in Int
      OBVIOUS
    <3>2. \A k \in S : k <= i => k <= j
      BY <1>3, <3>1
    <3>3. ~ (j <= i) /\ j <= j
      BY <1>3, <3>1
    <3>. QED BY <3>2, <3>3 DEF UpTo
  <2>2. UpTo(S, i) # UpTo(S, j)
    BY <2>1
  <2>3. /\ Cardinality(UpTo(S, i)) <= Cardinality(UpTo(S, j))
        /\ Cardinality(UpTo(S, j)) = Cardinality(UpTo(S, i)) => UpTo(S, j) = UpTo(S, i)
    BY <1>2, <2>1, FS_Subset
  <2>. QED BY <1>2, <2>2, <2>3
<1>. QED BY <1>2, <1>3 DEF Rank

(***************************************************************************)
(* Every rank from 1 on is somebody's.                                     *)
(***************************************************************************)
LEMMA RankCovers ==
  ASSUME NEW S \in SUBSET Int, IsFiniteSet(S), NEW n \in 1 .. Cardinality(S)
  PROVE  \E i \in S : Rank(S)[i] = n
<1> DEFINE T == 1 .. Cardinality(S)
<1>1. Cardinality(S) \in Nat
  BY FS_CardinalityType
<1>2. IsFiniteSet(T) /\ Cardinality(T) = Cardinality(S)
  BY <1>1, FS_Interval
<1>3. Rank(S) \in Injection(S, T)
  <2>1. Rank(S) \in [S -> T]
    BY RankGrows
  <2>2. ASSUME NEW i \in S, NEW j \in S, Rank(S)[i] = Rank(S)[j] PROVE i = j
    <3>1. ~ (Rank(S)[i] < Rank(S)[j]) /\ ~ (Rank(S)[j] < Rank(S)[i])
      BY <1>1, <2>1, <2>2
    <3>2. ~ (i < j) /\ ~ (j < i)
      BY <3>1, RankGrows
    <3>. QED BY <3>2
  <2>. QED BY <2>1, <2>2 DEF Injection, IsInjective
<1> HIDE DEF T
<1>4. Rank(S) \in Surjection(S, T)
  BY <1>2, <1>3, FS_Injection
<1>. QED BY <1>4 DEF Surjection, T

(***************************************************************************)
(* The n-th member is one of the set, and no member is left out.           *)
(***************************************************************************)
LEMMA NthFacts ==
  ASSUME NEW S \in SUBSET Int, IsFiniteSet(S)
  PROVE  /\ \A n \in 1 .. Cardinality(S) : Nth(S, n) \in S /\ Rank(S)[Nth(S, n)] = n
         /\ \A i \in S : Rank(S)[i] \in 1 .. Cardinality(S) /\ Nth(S, Rank(S)[i]) = i
<1>1. ASSUME NEW n \in 1 .. Cardinality(S)
      PROVE  Nth(S, n) \in S /\ Rank(S)[Nth(S, n)] = n
  <2>1. \E i \in S : Cardinality({j \in S : j <= i}) = n
    BY RankCovers DEF Rank, UpTo
  <2>. QED BY <2>1 DEF Nth, Rank, UpTo
<1>2. ASSUME NEW i \in S
      PROVE  Rank(S)[i] \in 1 .. Cardinality(S) /\ Nth(S, Rank(S)[i]) = i
  <2>1. Rank(S)[i] \in 1 .. Cardinality(S)
    BY RankGrows
  <2>2. Nth(S, Rank(S)[i]) \in S /\ Rank(S)[Nth(S, Rank(S)[i])] = Rank(S)[i]
    BY <1>1, <2>1
  <2>3. ~ (Nth(S, Rank(S)[i]) < i) /\ ~ (i < Nth(S, Rank(S)[i]))
    <3>1. ~ (Rank(S)[i] < Rank(S)[i])
      BY <2>1, FS_CardinalityType
    <3>. QED BY <2>2, <3>1, RankGrows
  <2>4. i \in Int /\ Nth(S, Rank(S)[i]) \in Int
    BY <2>2
  <2>. QED BY <2>1, <2>3, <2>4
<1>. QED BY <1>1, <1>2

(***************************************************************************)
(* The n-th members grow with n.                                           *)
(***************************************************************************)
LEMMA NthGrows ==
  ASSUME NEW S \in SUBSET Int, IsFiniteSet(S),
         NEW m \in 1 .. Cardinality(S), NEW n \in 1 .. Cardinality(S), m < n
  PROVE  Nth(S, m) < Nth(S, n)
<1>1. /\ Nth(S, m) \in S /\ Rank(S)[Nth(S, m)] = m
      /\ Nth(S, n) \in S /\ Rank(S)[Nth(S, n)] = n
  BY NthFacts
<1>2. Nth(S, n) < Nth(S, m) => n < m
  BY <1>1, RankGrows
<1>3. Nth(S, m) # Nth(S, n)
  BY <1>1
<1>4. m \in Int /\ n \in Int
  BY FS_CardinalityType
<1>5. Nth(S, m) \in Int /\ Nth(S, n) \in Int
  BY <1>1
<1>6. ~ (n < m)
  BY <1>4
<1>7. ~ (Nth(S, n) < Nth(S, m))
  BY <1>2, <1>6
<1>. QED BY <1>3, <1>5, <1>7

-----------------------------------------------------------------------------

(***************************************************************************)
(* Selecting rows keeps each row at one of the positions, and no other.    *)
(***************************************************************************)
LEMMA AtFacts ==
  ASSUME NEW X, NEW rows \in Seq(X), NEW S \in SUBSET (DOMAIN rows)
  PROVE  /\ IsFiniteSet(S) /\ Cardinality(S) \in Nat
         /\ At(rows, S) \in Seq(X)
         /\ Len(At(rows, S)) = Cardinality(S)
         /\ DOMAIN At(rows, S) = 1 .. Cardinality(S)
         /\ \A n \in DOMAIN At(rows, S) : Nth(S, n) \in S /\ At(rows, S)[n] = rows[Nth(S, n)]
         /\ \A i \in S : \E n \in DOMAIN At(rows, S) : Nth(S, n) = i
         /\ \A m, n \in DOMAIN At(rows, S) : Nth(S, m) = Nth(S, n) => m = n
<1>1. DOMAIN rows = 1 .. Len(rows) /\ Len(rows) \in Nat
  OBVIOUS
<1>2. IsFiniteSet(DOMAIN rows)
  BY <1>1, FS_Interval
<1>3. IsFiniteSet(S) /\ Cardinality(S) \in Nat
  BY <1>2, FS_Subset, FS_CardinalityType
<1>4. S \in SUBSET Int
  BY <1>1
<1>5. DOMAIN At(rows, S) = 1 .. Cardinality(S)
  BY DEF At
<1>6. ASSUME NEW n \in 1 .. Cardinality(S)
      PROVE  Nth(S, n) \in S /\ At(rows, S)[n] = rows[Nth(S, n)] /\ At(rows, S)[n] \in X
  <2>1. Nth(S, n) \in S /\ Nth(S, n) \in DOMAIN rows
    BY <1>3, <1>4, NthFacts
  <2>. QED BY <2>1 DEF At
<1>7. At(rows, S) \in Seq(X) /\ Len(At(rows, S)) = Cardinality(S)
  <2>1. At(rows, S) \in [1 .. Cardinality(S) -> X]
    BY <1>6 DEF At
  <2>. QED BY <1>3, <2>1
<1>8. ASSUME NEW i \in S PROVE \E n \in 1 .. Cardinality(S) : Nth(S, n) = i
  BY <1>3, <1>4, NthFacts
<1>9. ASSUME NEW m \in 1 .. Cardinality(S), NEW n \in 1 .. Cardinality(S), Nth(S, m) = Nth(S, n)
      PROVE  m = n
  BY <1>3, <1>4, <1>9, NthFacts
<1>. QED BY <1>3, <1>5, <1>6, <1>7, <1>8, <1>9

-----------------------------------------------------------------------------

(***************************************************************************)
(* Two initial segments with equally many members are the same.            *)
(***************************************************************************)
LEMMA SegmentsEqual ==
  ASSUME NEW n \in Nat, NEW A \in SUBSET (1 .. n), NEW B \in SUBSET (1 .. n),
         \A i, j \in 1 .. n : i < j /\ j \in A => i \in A,
         \A i, j \in 1 .. n : i < j /\ j \in B => i \in B,
         Cardinality(A) = Cardinality(B)
  PROVE  A = B
<1>0. IsFiniteSet(1 .. n)
  BY FS_Interval
<1>1. IsFiniteSet(A) /\ IsFiniteSet(B)
  BY <1>0, FS_Subset
<1>2. A \subseteq B \/ B \subseteq A
  <2> SUFFICES ASSUME NEW a \in A \ B, NEW b \in B \ A PROVE FALSE
    OBVIOUS
  <2>1. a \in 1 .. n /\ b \in 1 .. n
    OBVIOUS
  <2>2. a < b \/ b < a \/ a = b
    BY <2>1
  <2> QED
    BY <2>1, <2>2
<1> QED
  BY <1>1, <1>2, FS_Subset

(***************************************************************************)
(* Sorting a sorted list gives the list: when the keys of 1 .. n ascend,   *)
(* and they ascend in an arrangement of 1 .. n, too, then the arrangement  *)
(* changes no key.                                                         *)
(***************************************************************************)
LEMMA SortedTwice ==
  ASSUME NEW n \in Nat, NEW key \in [1 .. n -> Int], NEW f \in [1 .. n -> 1 .. n],
         IsInjective(f),
         \A i, j \in 1 .. n : i < j => key[i] <= key[j],
         \A i, j \in 1 .. n : i < j => key[f[i]] <= key[f[j]]
  PROVE  /\ \A v \in 1 .. n : \E i \in 1 .. n : f[i] = v
         /\ \A i \in 1 .. n : key[f[i]] = key[i]
<1>0. IsFiniteSet(1 .. n)
  BY FS_Interval
<1>1. IsFiniteSet(1 .. n) /\ f \in Injection(1 .. n, 1 .. n)
  BY <1>0 DEF Injection
<1>2. f \in Surjection(1 .. n, 1 .. n)
  BY <1>1, FS_Injection
<1>3. \A v \in 1 .. n : \E i \in 1 .. n : f[i] = v
  BY <1>2 DEF Surjection
<1>4. ASSUME NEW v \in Int
      PROVE  {i \in 1 .. n : key[f[i]] < v} = {i \in 1 .. n : key[i] < v}
  <2> DEFINE A == {i \in 1 .. n : key[f[i]] < v}
             B == {i \in 1 .. n : key[i] < v}
             g == [i \in A |-> f[i]]
  <2>1. g \in [A -> B]
    OBVIOUS
  <2>2. g \in Injection(A, B)
    BY <2>1 DEF Injection, IsInjective
  <2>3. \A r \in B : \E i \in A : g[i] = r
    BY <1>3
  <2>4. g \in Bijection(A, B)
    BY <2>1, <2>2, <2>3 DEF Bijection, Surjection
  <2>5. IsFiniteSet(A)
    BY <1>1, FS_Subset
  <2>6. Cardinality(A) = Cardinality(B)
    BY <2>4, <2>5, FS_Bijection DEF ExistsBijection
  <2>7. \A i, j \in 1 .. n : i < j /\ j \in A => i \in A
    OBVIOUS
  <2>8. \A i, j \in 1 .. n : i < j /\ j \in B => i \in B
    OBVIOUS
  <2>9. A \in SUBSET (1 .. n) /\ B \in SUBSET (1 .. n)
    OBVIOUS
  <2> HIDE DEF A, B
  <2>10. A = B
    BY <2>6, <2>7, <2>8, <2>9, SegmentsEqual
  <2> QED
    BY <2>10 DEF A, B
<1>5. ASSUME NEW i \in 1 .. n PROVE key[f[i]] = key[i]
  <2>1. key[f[i]] \in Int /\ key[i] \in Int
    OBVIOUS
  <2>2. i \in {k \in 1 .. n : key[k] < key[i] + 1} /\ key[i] + 1 \in Int
    BY <2>1
  <2>3. key[f[i]] < key[i] + 1
    BY <1>4, <2>2
  <2>4. i \in {k \in 1 .. n : key[f[k]] < key[f[i]] + 1} /\ key[f[i]] + 1 \in Int
    BY <2>1
  <2>5. key[i] < key[f[i]] + 1
    BY <1>4, <2>4
  <2> QED
    BY <2>1, <2>3, <2>5
<1> QED
  BY <1>3, <1>5

=============================================================================
