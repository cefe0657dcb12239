------------------------- MODULE SubsequencesProofs -------------------------
(***************************************************************************)
(* The members of a finite set in an order, and subsequences.              *)
(***************************************************************************)
EXTENDS Subsequences, FiniteSetTheorems, TLAPS

\* R orders the members of S, each two of them.
Orders(R, S) ==
  /\ \A d \in S : <<d, d>> \notin R
  /\ \A d, e, f \in S : <<d, e>> \in R /\ <<e, f>> \in R => <<d, f>> \in R
  /\ \A d, e \in S : d = e \/ <<d, e>> \in R \/ <<e, d>> \in R

Below(R, S, e) == {d \in S : <<d, e>> \in R}

\* A member has fewer members below it than one above it has.
LEMMA BelowGrows ==
  ASSUME NEW S, IsFiniteSet(S), NEW R, Orders(R, S), NEW d \in S, NEW e \in S,
         <<d, e>> \in R
  PROVE  Cardinality(Below(R, S, d)) < Cardinality(Below(R, S, e))
<1>1. IsFiniteSet(Below(R, S, e)) /\ Below(R, S, d) \subseteq Below(R, S, e)
  BY FS_Subset DEF Below, Orders
<1>2. d \in Below(R, S, e) /\ d \notin Below(R, S, d)
  BY DEF Below, Orders
<1>3. /\ IsFiniteSet(Below(R, S, d))
      /\ Cardinality(Below(R, S, d)) <= Cardinality(Below(R, S, e))
      /\ Cardinality(Below(R, S, d)) = Cardinality(Below(R, S, e))
           => Below(R, S, d) = Below(R, S, e)
  BY <1>1, FS_Subset
<1>4. Cardinality(Below(R, S, d)) \in Nat /\ Cardinality(Below(R, S, e)) \in Nat
  BY <1>1, <1>3, FS_CardinalityType
<1> QED
  BY <1>2, <1>3, <1>4

\* For each number less than their count, one member has that many below it.
LEMMA OrderStatistic ==
  ASSUME NEW S, IsFiniteSet(S), NEW R, Orders(R, S)
  PROVE  /\ \A e \in S : Cardinality(Below(R, S, e)) \in 0 .. Cardinality(S) - 1
         /\ \A d, e \in S : Cardinality(Below(R, S, d)) = Cardinality(Below(R, S, e)) => d = e
         /\ \A n \in 0 .. Cardinality(S) - 1 :
              \E e \in S : Cardinality(Below(R, S, e)) = n
<1> DEFINE below == [e \in S |-> Cardinality(Below(R, S, e))]
           T == 0 .. Cardinality(S) - 1
<1>0. Cardinality(S) \in Nat
  BY FS_CardinalityType
<1>1. ASSUME NEW e \in S
      PROVE  Cardinality(Below(R, S, e)) \in T
  <2>1. Below(R, S, e) \subseteq S /\ e \notin Below(R, S, e)
    BY DEF Below, Orders
  <2>2. /\ IsFiniteSet(Below(R, S, e))
        /\ Cardinality(Below(R, S, e)) <= Cardinality(S)
        /\ Cardinality(Below(R, S, e)) = Cardinality(S) => Below(R, S, e) = S
    BY <2>1, FS_Subset
  <2>3. Cardinality(Below(R, S, e)) \in Nat
    BY <2>2, FS_CardinalityType
  <2> QED
    BY <1>0, <2>1, <2>2, <2>3
<1>2. ASSUME NEW d \in S, NEW e \in S, Cardinality(Below(R, S, d)) = Cardinality(Below(R, S, e))
      PROVE  d = e
  <2>1. Cardinality(Below(R, S, d)) \in Int /\ Cardinality(Below(R, S, e)) \in Int
    BY <1>0, <1>1
  <2>2. ~(<<d, e>> \in R) /\ ~(<<e, d>> \in R)
    BY <1>2, <2>1, BelowGrows
  <2> QED
    BY <2>2 DEF Orders
<1>3. below \in Injection(S, T)
  BY <1>1, <1>2 DEF Injection, IsInjective
<1>4. IsFiniteSet(T) /\ Cardinality(T) = Cardinality(S)
  BY <1>0, FS_Interval
<1> HIDE DEF T
<1>5. below \in Surjection(S, T)
  BY <1>3, <1>4, FS_Injection
<1>6. \A n \in T : \E e \in S : below[e] = n
  BY <1>5 DEF Surjection
<1> QED
  BY <1>1, <1>2, <1>6 DEF T

-----------------------------------------------------------------------------
(* Subsequences.                                                           *)

\* NthOf counts through a set of numbers.
LEMMA NthOfCounts ==
  ASSUME NEW I \in SUBSET Int, IsFiniteSet(I)
  PROVE  /\ Cardinality(I) \in Nat
         /\ \A n \in 1 .. Cardinality(I) : NthOf(I, n) \in I
         /\ \A m, n \in 1 .. Cardinality(I) : m < n => NthOf(I, m) < NthOf(I, n)
         /\ \A i \in I : \E n \in 1 .. Cardinality(I) : NthOf(I, n) = i
<1> DEFINE R == {p \in I \X I : p[1] < p[2]}
<1>0. Cardinality(I) \in Nat
  BY FS_CardinalityType
<1>1. Orders(R, I)
  BY DEF Orders
<1>2. \A i \in I : Below(R, I, i) = {j \in I : j < i}
  BY DEF Below
<1>3. ASSUME NEW i \in I, NEW j \in I, j < i
      PROVE  Cardinality(Below(R, I, j)) < Cardinality(Below(R, I, i))
  <2>1. <<j, i>> \in R
    BY <1>3
  <2> HIDE DEF R
  <2> QED
    BY <1>1, <2>1, BelowGrows
<1> HIDE DEF R
<1>4. /\ \A i \in I : Cardinality(Below(R, I, i)) \in 0 .. Cardinality(I) - 1
      /\ \A i, j \in I : Cardinality(Below(R, I, i)) = Cardinality(Below(R, I, j)) => i = j
      /\ \A n \in 0 .. Cardinality(I) - 1 : \E i \in I : Cardinality(Below(R, I, i)) = n
  BY <1>1, OrderStatistic
<1>5. ASSUME NEW n \in 1 .. Cardinality(I)
      PROVE  NthOf(I, n) \in I /\ Cardinality(Below(R, I, NthOf(I, n))) = n - 1
  <2>1. n - 1 \in 0 .. Cardinality(I) - 1
    BY <1>0
  <2>2. \E i \in I : Cardinality({j \in I : j < i}) = n - 1
    BY <1>2, <1>4, <2>1
  <2>3. NthOf(I, n) \in I /\ Cardinality({j \in I : j < NthOf(I, n)}) = n - 1
    BY <2>2 DEF NthOf
  <2> QED
    BY <1>2, <2>3
<1>6. ASSUME NEW m \in 1 .. Cardinality(I), NEW n \in 1 .. Cardinality(I), m < n
      PROVE  NthOf(I, m) < NthOf(I, n)
  <2> DEFINE a == NthOf(I, m)
             b == NthOf(I, n)
  <2>1. /\ a \in I /\ Cardinality(Below(R, I, a)) = m - 1
        /\ b \in I /\ Cardinality(Below(R, I, b)) = n - 1
    BY <1>5
  <2> HIDE DEF a, b
  <2>2. a \in Int /\ b \in Int /\ m \in Int /\ n \in Int
    BY <1>0, <2>1
  <2>3. a # b
    BY <1>6, <2>1, <2>2
  <2>4. ~(b < a)
    BY <1>3, <1>6, <2>1, <2>2
  <2> QED
    BY <2>2, <2>3, <2>4 DEF a, b
<1>7. ASSUME NEW i \in I
      PROVE  \E n \in 1 .. Cardinality(I) : NthOf(I, n) = i
  <2> DEFINE n == Cardinality(Below(R, I, i)) + 1
  <2>1. n \in 1 .. Cardinality(I) /\ n - 1 = Cardinality(Below(R, I, i))
    BY <1>0, <1>4
  <2> HIDE DEF n
  <2>2. NthOf(I, n) = i
    BY <1>4, <1>5, <2>1
  <2> QED
    BY <2>1, <2>2
<1> QED
  BY <1>0, <1>5, <1>6, <1>7

\* A subsequence holds the elements at its indices, in their order.
LEMMA AtElements ==
  ASSUME NEW X, NEW s \in Seq(X), NEW I \in SUBSET DOMAIN s
  PROVE  /\ At(s, I) \in Seq(X)
         /\ DOMAIN At(s, I) = 1 .. Cardinality(I) /\ Cardinality(I) \in Nat
         /\ \A n \in DOMAIN At(s, I) : NthOf(I, n) \in I /\ At(s, I)[n] = s[NthOf(I, n)]
         /\ \A m, n \in DOMAIN At(s, I) : m < n => NthOf(I, m) < NthOf(I, n)
         /\ \A i \in I : \E n \in DOMAIN At(s, I) : NthOf(I, n) = i /\ At(s, I)[n] = s[i]
<1>1. DOMAIN s = 1 .. Len(s) /\ Len(s) \in Nat
  OBVIOUS
<1>2. IsFiniteSet(DOMAIN s)
  BY <1>1, FS_Interval
<1>3. I \in SUBSET Int /\ IsFiniteSet(I)
  BY <1>1, <1>2, FS_Subset
<1>4. /\ Cardinality(I) \in Nat
      /\ \A n \in 1 .. Cardinality(I) : NthOf(I, n) \in I
      /\ \A m, n \in 1 .. Cardinality(I) : m < n => NthOf(I, m) < NthOf(I, n)
      /\ \A i \in I : \E n \in 1 .. Cardinality(I) : NthOf(I, n) = i
  BY <1>3, NthOfCounts
<1>5. /\ DOMAIN At(s, I) = 1 .. Cardinality(I)
      /\ \A n \in 1 .. Cardinality(I) : At(s, I)[n] = s[NthOf(I, n)]
  BY DEF At
<1>6. \A i \in I : s[i] \in X
  BY <1>1
<1>7. At(s, I) = [n \in 1 .. Cardinality(I) |-> s[NthOf(I, n)]]
  BY DEF At
<1>8. At(s, I) \in Seq(X)
  BY <1>4, <1>6, <1>7
<1> QED
  BY <1>4, <1>5, <1>8

\* It holds what the sequence holds there, and nothing twice that the
\* sequence holds there once.
LEMMA AtRange ==
  ASSUME NEW X, NEW s \in Seq(X), NEW I \in SUBSET DOMAIN s
  PROVE  /\ {At(s, I)[n] : n \in DOMAIN At(s, I)} = {s[i] : i \in I}
         /\ (\A i, j \in I : s[i] = s[j] => i = j) =>
              \A m, n \in DOMAIN At(s, I) : At(s, I)[m] = At(s, I)[n] => m = n
<1> DEFINE a == At(s, I)
<1>1. /\ DOMAIN a = 1 .. Cardinality(I) /\ Cardinality(I) \in Nat
      /\ \A n \in DOMAIN a : NthOf(I, n) \in I /\ a[n] = s[NthOf(I, n)]
      /\ \A m, n \in DOMAIN a : m < n => NthOf(I, m) < NthOf(I, n)
      /\ \A i \in I : \E n \in DOMAIN a : NthOf(I, n) = i /\ a[n] = s[i]
  BY AtElements
<1>2. I \subseteq Int
  OBVIOUS
<1> HIDE DEF a
<1>3. {a[n] : n \in DOMAIN a} = {s[i] : i \in I}
  BY <1>1
<1>4. ASSUME \A i, j \in I : s[i] = s[j] => i = j,
             NEW m \in DOMAIN a, NEW n \in DOMAIN a, a[m] = a[n]
      PROVE  m = n
  <2>1. NthOf(I, m) = NthOf(I, n) /\ NthOf(I, m) \in Int
    BY <1>1, <1>2, <1>4
  <2>2. ~(m < n) /\ ~(n < m)
    BY <1>1, <2>1
  <2> QED
    BY <1>1, <2>2
<1> QED
  BY <1>3, <1>4 DEF a
=============================================================================
