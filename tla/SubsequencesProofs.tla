------------------------- MODULE SubsequencesProofs -------------------------
(***************************************************************************)
(* What Keep returns.                                                      *)
(***************************************************************************)
EXTENDS Subsequences, SequencesExt, FiniteSetTheorems, TLAPS

\* How many of the numbers in I come before i.
Rank(I, i) == Cardinality({j \in I : j < i})

\* The members of a set of indices are ranked 0, 1, ... in their order.
LEMMA Ranks ==
  ASSUME NEW n \in Nat, NEW I \in SUBSET (1..n)
  PROVE  /\ Cardinality(I) \in Nat /\ Cardinality(I) <= n
         /\ \A i \in I : Rank(I, i) \in 0 .. Cardinality(I) - 1
         /\ \A i, j \in I : i < j <=> Rank(I, i) < Rank(I, j)
         /\ \A k \in 0 .. Cardinality(I) - 1 : \E i \in I : Rank(I, i) = k
<1>1. IsFiniteSet(I) /\ Cardinality(I) \in Nat /\ Cardinality(I) <= n
  <2>1. IsFiniteSet(1..n) /\ Cardinality(1..n) = n
    BY FS_Interval
  <2>2. IsFiniteSet(I) /\ Cardinality(I) <= n
    BY <2>1, FS_Subset
  <2> QED
    BY <2>2, FS_CardinalityType
<1> DEFINE Below(i) == {j \in I : j < i}
<1>2. \A i \in I : IsFiniteSet(Below(i)) /\ Cardinality(Below(i)) \in Nat
  <2> SUFFICES ASSUME NEW i \in I PROVE IsFiniteSet(Below(i)) /\ Cardinality(Below(i)) \in Nat
    OBVIOUS
  <2>1. Below(i) \in SUBSET I
    OBVIOUS
  <2> QED
    BY <1>1, <2>1, FS_Subset, FS_CardinalityType
<1>3. \A i \in I : Cardinality(Below(i)) < Cardinality(I)
  <2> SUFFICES ASSUME NEW i \in I PROVE Cardinality(Below(i)) < Cardinality(I)
    OBVIOUS
  <2>1. Below(i) \in SUBSET I /\ Below(i) # I
    OBVIOUS
  <2>2. Cardinality(Below(i)) <= Cardinality(I) /\ Cardinality(Below(i)) # Cardinality(I)
    BY <1>1, <2>1, FS_Subset
  <2> QED
    BY <1>1, <1>2, <2>2
<1>4. \A i, j \in I : i < j => Cardinality(Below(i)) < Cardinality(Below(j))
  <2> SUFFICES ASSUME NEW i \in I, NEW j \in I, i < j
               PROVE  Cardinality(Below(i)) < Cardinality(Below(j))
    OBVIOUS
  <2>1. Below(i) \in SUBSET Below(j) /\ i \in Below(j) /\ i \notin Below(i)
    <3>1. \A m \in I : m \in Nat
      OBVIOUS
    <3>2. \A m \in I : m < i => m < j
      BY <3>1
    <3>3. ~(i < i)
      BY <3>1
    <3> QED
      BY <3>2, <3>3
  <2>2. Cardinality(Below(i)) <= Cardinality(Below(j)) /\ Cardinality(Below(i)) # Cardinality(Below(j))
    BY <1>2, <2>1, FS_Subset
  <2> QED
    BY <1>2, <2>2
<1> DEFINE top == 0 .. Cardinality(I) - 1
           r == [i \in I |-> Cardinality(Below(i))]
<1>5. \A i \in I : r[i] \in top /\ r[i] = Rank(I, i)
  BY <1>1, <1>2, <1>3 DEF Rank
<1>6. \A i, j \in I : i < j <=> r[i] < r[j]
  <2>1. \A i, j \in I : i \in Nat /\ j \in Nat /\ r[i] \in Nat /\ r[j] \in Nat
    BY <1>2
  <2>2. \A i, j \in I : i < j => r[i] < r[j]
    BY <1>4
  <2> HIDE DEF r
  <2> QED
    BY <2>1, <2>2
<1>7. r \in Surjection(I, top)
  <2>1. \A i, j \in I : r[i] = r[j] => i = j
    <3>1. \A i, j \in I : i \in Nat /\ j \in Nat /\ r[i] \in Nat /\ r[j] \in Nat
      BY <1>2
    <3> HIDE DEF r
    <3> QED
      BY <1>6, <3>1
  <2>2. r \in Injection(I, top)
    <3>1. r \in [I -> top]
      BY <1>5
    <3> HIDE DEF r, top
    <3> QED
      BY <2>1, <3>1 DEF Injection, IsInjective
  <2>3. IsFiniteSet(top) /\ Cardinality(top) = Cardinality(I)
    <3>1. IsFiniteSet(0 .. Cardinality(I) - 1)
      BY <1>1, FS_Interval
    <3>2. Cardinality(0 .. Cardinality(I) - 1) = Cardinality(I)
      <4>1. 0 \in Int /\ Cardinality(I) - 1 \in Int
        BY <1>1
      <4>2. Cardinality(0 .. Cardinality(I) - 1) =
              IF 0 > Cardinality(I) - 1 THEN 0 ELSE Cardinality(I) - 1 - 0 + 1
        BY <4>1, FS_Interval
      <4> QED
        BY <1>1, <4>2
    <3> QED
      BY <3>1, <3>2
  <2> HIDE DEF r, top
  <2> QED
    BY <2>2, <2>3, FS_Injection
<1>8. \A k \in top : \E i \in I : r[i] = k
  <2> HIDE DEF r, top
  <2> QED
    BY <1>7 DEF Surjection
<1> HIDE DEF r
<1> QED
  BY <1>1, <1>5, <1>6, <1>8

\* Keep picks the elements in S, each once and in their order.
LEMMA KeepPicks ==
  ASSUME NEW T, NEW s \in Seq(T), NEW S
  PROVE  /\ Keep(s, S) \in Seq(T) /\ Len(Keep(s, S)) \in Nat /\ Len(Keep(s, S)) <= Len(s)
         /\ \E h \in [1..Len(Keep(s, S)) -> 1..Len(s)] :
              /\ \A k \in 1..Len(Keep(s, S)) : Keep(s, S)[k] = s[h[k]] /\ s[h[k]] \in S
              /\ \A k, l \in 1..Len(Keep(s, S)) : k < l <=> h[k] < h[l]
              /\ \A i \in 1..Len(s) : s[i] \in S => \E k \in 1..Len(Keep(s, S)) : h[k] = i
<1> DEFINE I == {i \in DOMAIN s : s[i] \in S}
           at(k) == CHOOSE i \in I : Rank(I, i) = k - 1
           h == [k \in 1..Cardinality(I) |-> at(k)]
<1>1. DOMAIN s = 1..Len(s) /\ Len(s) \in Nat /\ I \in SUBSET (1..Len(s))
  OBVIOUS
<1>2. /\ Cardinality(I) \in Nat /\ Cardinality(I) <= Len(s)
      /\ \A i \in I : Rank(I, i) \in 0 .. Cardinality(I) - 1
      /\ \A i, j \in I : i < j <=> Rank(I, i) < Rank(I, j)
      /\ \A k \in 0 .. Cardinality(I) - 1 : \E i \in I : Rank(I, i) = k
  BY <1>1, Ranks
<1>3. \A k \in 1..Cardinality(I) : h[k] \in I /\ Rank(I, h[k]) = k - 1
  <2> SUFFICES ASSUME NEW k \in 1..Cardinality(I) PROVE h[k] \in I /\ Rank(I, h[k]) = k - 1
    OBVIOUS
  <2>1. \E i \in I : Rank(I, i) = k - 1
    <3>1. k - 1 \in 0 .. Cardinality(I) - 1
      BY <1>2
    <3> QED
      BY <1>2, <3>1
  <2>2. h[k] = at(k)
    OBVIOUS
  <2>3. at(k) \in I /\ Rank(I, at(k)) = k - 1
    BY <2>1
  <2> QED
    BY <2>2, <2>3
<1>4. Keep(s, S) = [k \in 1..Cardinality(I) |-> s[h[k]]]
  BY DEF Keep, Rank
<1> HIDE DEF h
<1>5. \A i \in I : i \in 1..Len(s) /\ s[i] \in S /\ s[i] \in T
  BY <1>1
<1>6. \A i \in 1..Len(s) : s[i] \in S => i \in I
  BY <1>1
<1> HIDE DEF I
<1>7. Keep(s, S) \in Seq(T) /\ Len(Keep(s, S)) = Cardinality(I)
  <2>1. \A k \in 1..Cardinality(I) : s[h[k]] \in T
    BY <1>3, <1>5
  <2>2. Keep(s, S) \in [1..Cardinality(I) -> T]
    BY <1>4, <2>1
  <2>3. Cardinality(I) \in Nat
    BY <1>2
  <2> HIDE DEF h
  <2> QED
    BY <2>2, <2>3
<1>8. h \in [1..Cardinality(I) -> 1..Len(s)]
  BY <1>3, <1>5 DEF h
<1>9. \A k \in 1..Cardinality(I) : Keep(s, S)[k] = s[h[k]] /\ s[h[k]] \in S
  BY <1>3, <1>4, <1>5
<1>10. \A k, l \in 1..Cardinality(I) : k < l <=> h[k] < h[l]
  BY <1>2, <1>3
<1>11. \A i \in 1..Len(s) : s[i] \in S => \E k \in 1..Cardinality(I) : h[k] = i
  <2> SUFFICES ASSUME NEW i \in I PROVE \E k \in 1..Cardinality(I) : h[k] = i
    BY <1>6
  <2> DEFINE k == Rank(I, i) + 1
  <2>1. k \in 1..Cardinality(I) /\ k - 1 = Rank(I, i)
    BY <1>2
  <2>2. h[k] \in I /\ Rank(I, h[k]) = Rank(I, i)
    BY <1>3, <2>1
  <2>3. h[k] \in Nat /\ i \in Nat
    BY <1>5, <2>2
  <2>4. ~(h[k] < i) /\ ~(i < h[k])
    BY <1>2, <2>2
  <2> QED
    BY <2>1, <2>3, <2>4
<1>12. Len(Keep(s, S)) = Cardinality(I)
  BY <1>7
<1> QED
  <2>1. Keep(s, S) \in Seq(T) /\ Len(Keep(s, S)) \in Nat /\ Len(Keep(s, S)) <= Len(s)
    BY <1>2, <1>7
  <2>2. h \in [1..Len(Keep(s, S)) -> 1..Len(s)]
    BY <1>8, <1>12
  <2>3. \A k \in 1..Len(Keep(s, S)) : Keep(s, S)[k] = s[h[k]] /\ s[h[k]] \in S
    BY <1>9, <1>12
  <2>4. \A k, l \in 1..Len(Keep(s, S)) : k < l <=> h[k] < h[l]
    BY <1>10, <1>12
  <2>5. \A i \in 1..Len(s) : s[i] \in S => \E k \in 1..Len(Keep(s, S)) : h[k] = i
    BY <1>11, <1>12
  <2> QED
    BY <2>1, <2>2, <2>3, <2>4, <2>5

\* What is kept is what s and S share.
LEMMA KeepElements ==
  ASSUME NEW T, NEW s \in Seq(T), NEW S
  PROVE  ToSet(Keep(s, S)) = ToSet(s) \cap S
<1>1. PICK h \in [1..Len(Keep(s, S)) -> 1..Len(s)] :
        /\ \A k \in 1..Len(Keep(s, S)) : Keep(s, S)[k] = s[h[k]] /\ s[h[k]] \in S
        /\ \A i \in 1..Len(s) : s[i] \in S => \E k \in 1..Len(Keep(s, S)) : h[k] = i
  BY KeepPicks
<1>2. DOMAIN Keep(s, S) = 1..Len(Keep(s, S)) /\ DOMAIN s = 1..Len(s)
  BY KeepPicks
<1>3. \A x \in ToSet(Keep(s, S)) : x \in ToSet(s) /\ x \in S
  BY <1>1, <1>2 DEF ToSet
<1>4. \A x \in ToSet(s) : x \in S => x \in ToSet(Keep(s, S))
  BY <1>1, <1>2 DEF ToSet
<1> QED
  BY <1>3, <1>4

\* Two places of what is kept come from two places of s.
LEMMA KeepApart ==
  ASSUME NEW T, NEW s \in Seq(T), NEW S
  PROVE  \A k, l \in DOMAIN Keep(s, S) : k # l =>
           \E i, j \in DOMAIN s : i # j /\ Keep(s, S)[k] = s[i] /\ Keep(s, S)[l] = s[j]
<1>1. PICK h \in [1..Len(Keep(s, S)) -> 1..Len(s)] :
        /\ \A k \in 1..Len(Keep(s, S)) : Keep(s, S)[k] = s[h[k]]
        /\ \A k, l \in 1..Len(Keep(s, S)) : k < l <=> h[k] < h[l]
  BY KeepPicks
<1>2. DOMAIN Keep(s, S) = 1..Len(Keep(s, S)) /\ DOMAIN s = 1..Len(s) /\ Len(Keep(s, S)) \in Nat
  BY KeepPicks
<1>3. \A k, l \in 1..Len(Keep(s, S)) : k # l => h[k] # h[l]
  BY <1>1, <1>2
<1> QED
  BY <1>1, <1>2, <1>3


\* What is kept and what is not make up the sequence.
LEMMA KeepHalves ==
  ASSUME NEW T, NEW s \in Seq(T), NEW S
  PROVE  Len(Keep(s, S)) + Len(Keep(s, ToSet(s) \ S)) = Len(s)
<1> DEFINE I == {i \in DOMAIN s : s[i] \in S}
           R == ToSet(s) \ S
           J == {i \in DOMAIN s : s[i] \in R}
<1>1. DOMAIN s = 1..Len(s) /\ Len(s) \in Nat
  OBVIOUS
<1>2. J = (1..Len(s)) \ I /\ (1..Len(s)) \cap I = I
  BY <1>1 DEF ToSet
<1>3. IsFiniteSet(1..Len(s)) /\ Cardinality(1..Len(s)) = Len(s)
  <2>1. 1 \in Int /\ Len(s) \in Int
    BY <1>1
  <2> QED
    BY <1>1, <2>1, FS_Interval
<1>4. Cardinality(J) = Len(s) - Cardinality(I)
  <2> HIDE DEF I, J
  <2>1. Cardinality((1..Len(s)) \ I) = Cardinality(1..Len(s)) - Cardinality((1..Len(s)) \cap I)
    BY <1>3, FS_Difference
  <2> QED
    BY <1>2, <1>3, <2>1
<1>5. I \in SUBSET (1..Len(s)) /\ J \in SUBSET (1..Len(s))
  BY <1>1
<1>6. Cardinality(I) \in Nat /\ Cardinality(J) \in Nat
  BY <1>1, <1>5, Ranks
<1>7. Len(Keep(s, S)) = Cardinality(I)
  BY <1>6 DEF Keep
<1>8. Len(Keep(s, R)) = Cardinality(J)
  <2> HIDE DEF R
  <2> QED
    BY <1>6 DEF Keep
<1> QED
  BY <1>1, <1>4, <1>6, <1>7, <1>8
=============================================================================
