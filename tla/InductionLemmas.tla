----------------------------- MODULE InductionLemmas -----------------------------
(***************************************************************************)
(* Induction over the natural numbers, stated of sets: the theorems of the *)
(* library are stated of operators, which no prover here can instantiate.  *)
(***************************************************************************)
EXTENDS Integers, FiniteSetTheorems, SequenceTheorems, WellFoundedInduction, TLAPS

\* A set of numbers that is not empty has a least one.
LEMMA LeastNumber ==
  ASSUME NEW T, T \subseteq Nat, T # {}
  PROVE  \E n \in T : \A m \in T : n <= m
<1> DEFINE R == {ss \in Nat \X Nat : ss[1] < ss[2]}
<1>1. IsWellFoundedOn(R, Nat)
  BY NatLessThanWellFounded DEF OpToRel
<1> HIDE DEF R
<1>2. \E x \in T : \A y \in T : ~(<<y, x>> \in R)
  BY <1>1, WFMin
<1>3. PICK x \in T : \A y \in T : <<y, x>> \notin R
  BY <1>2
<1>4. ASSUME NEW y \in T
      PROVE  x <= y
  <2>1. x \in Nat /\ y \in Nat
    OBVIOUS
  <2>2. y < x => <<y, x>> \in R
    BY <2>1 DEF R
  <2> QED
    BY <1>3, <2>1, <2>2
<1> QED
  BY <1>4

\* A set that holds 0, and with a number the next one, holds all of them.
LEMMA SetInduction ==
  ASSUME NEW T, 0 \in T, \A n \in Nat : n \in T => n + 1 \in T
  PROVE  Nat \subseteq T
<1> SUFFICES ASSUME Nat \ T # {}
             PROVE  FALSE
  OBVIOUS
<1>1. \E n \in Nat \ T : \A m \in Nat \ T : n <= m
  BY LeastNumber
<1>2. PICK n \in Nat \ T : \A m \in Nat \ T : n <= m
  BY <1>1
<1>3. n # 0 /\ n - 1 \in Nat /\ n - 1 \in T
  BY <1>2
<1> QED
  BY <1>3

-----------------------------------------------------------------------------
(* The members of a finite set of numbers in ascending order: there is one *)
(* such sequence, and a number above all of them is put at its end.        *)

IsAscending(s, S) ==
  /\ s \in [1 .. Cardinality(S) -> S]
  /\ \A i, j \in 1 .. Cardinality(S) : i < j => s[i] < s[j]

LEMMA AscendingExists ==
  ASSUME NEW S \in SUBSET Nat, IsFiniteSet(S)
  PROVE  \E s : IsAscending(s, S)
<1> DEFINE P(n) == \A A \in SUBSET Nat :
                     IsFiniteSet(A) /\ Cardinality(A) = n => \E s : IsAscending(s, A)
           T == {n \in Nat : P(n)}
<1>1. P(0)
  <2> SUFFICES ASSUME NEW A \in SUBSET Nat, IsFiniteSet(A), Cardinality(A) = 0
               PROVE  \E s : IsAscending(s, A)
    OBVIOUS
  <2>1. IsAscending([i \in 1 .. Cardinality(A) |-> 0], A)
    BY DEF IsAscending
  <2> QED
    BY <2>1
<1>2. ASSUME NEW n \in Nat, P(n)
      PROVE  P(n + 1)
  <2> SUFFICES ASSUME NEW A \in SUBSET Nat, IsFiniteSet(A), Cardinality(A) = n + 1
               PROVE  \E s : IsAscending(s, A)
    OBVIOUS
  <2>1. A # {}
    BY FS_EmptySet
  <2>2. PICK x \in A : \A m \in A : x <= m
    BY <2>1, LeastNumber
  <2> DEFINE B == A \ {x}
  <2>3. IsFiniteSet(B) /\ Cardinality(B) = n
    <3>1. IsFiniteSet(B) /\ Cardinality(B) = Cardinality(A) - 1
      BY FS_RemoveElement, Zenon
    <3> QED
      BY <3>1
  <2>4. PICK s : /\ s \in [1 .. n -> B]
                 /\ \A i, j \in 1 .. n : i < j => s[i] < s[j]
    BY <1>2, <2>3 DEF IsAscending
  <2> DEFINE t == [i \in 1 .. n + 1 |-> IF i = 1 THEN x ELSE s[i - 1]]
  <2>5. ASSUME NEW i \in 1 .. n + 1, i # 1
        PROVE  i - 1 \in 1 .. n /\ t[i] = s[i - 1] /\ t[i] \in B
    <3>1. i - 1 \in 1 .. n
      BY <2>5
    <3> QED
      BY <2>4, <2>5, <3>1
  <2>6. t[1] = x
    OBVIOUS
  <2>7. t \in [1 .. n + 1 -> A]
    BY <2>5, <2>6
  <2>8. ASSUME NEW i \in 1 .. n + 1, NEW j \in 1 .. n + 1, i < j
        PROVE  t[i] < t[j]
    <3>1. j # 1 /\ t[j] \in B /\ t[j] = s[j - 1] /\ j - 1 \in 1 .. n
      BY <2>5, <2>8
    <3>2. CASE i = 1
      <4>1. t[i] = x /\ x \in Nat /\ t[j] \in Nat /\ t[j] # x /\ x <= t[j]
        BY <2>2, <2>6, <3>1, <3>2
      <4> HIDE DEF t
      <4> QED
        BY <4>1
    <3>3. CASE i # 1
      <4>1. i - 1 \in 1 .. n /\ t[i] = s[i - 1]
        BY <2>5, <3>3
      <4>2. i - 1 < j - 1
        BY <2>8
      <4> QED
        BY <2>4, <3>1, <4>1, <4>2
    <3> QED
      BY <3>2, <3>3
  <2>9. IsAscending(t, A)
    BY <2>7, <2>8 DEF IsAscending
  <2> QED
    BY <2>9
<1>3. 0 \in T /\ \A n \in Nat : n \in T => n + 1 \in T
  BY <1>1, <1>2
<1> HIDE DEF T
<1>4. Nat \subseteq T
  BY <1>3, SetInduction
<1>5. Cardinality(S) \in T
  BY <1>4, FS_CardinalityType
<1> QED
  BY <1>5 DEF T

LEMMA AscendingTypes ==
  ASSUME NEW S \in SUBSET Nat, IsFiniteSet(S), NEW s, IsAscending(s, S)
  PROVE  /\ Cardinality(S) \in Nat
         /\ s \in [1 .. Cardinality(S) -> S]
         /\ \A i \in 1 .. Cardinality(S) : s[i] \in S /\ s[i] \in Nat
         /\ \A i, j \in 1 .. Cardinality(S) : i < j => s[i] < s[j]
<1>1. s \in [1 .. Cardinality(S) -> S]
  BY DEF IsAscending
<1>2. \A i \in 1 .. Cardinality(S) : s[i] \in S
  BY <1>1
<1> QED
  BY <1>1, <1>2, FS_CardinalityType DEF IsAscending

LEMMA AscendingOnto ==
  ASSUME NEW S \in SUBSET Nat, IsFiniteSet(S), NEW s, IsAscending(s, S), NEW x \in S
  PROVE  \E i \in 1 .. Cardinality(S) : s[i] = x
<1>1. Cardinality(S) \in Nat
  BY FS_CardinalityType
<1>2. ASSUME NEW i \in 1 .. Cardinality(S), NEW j \in 1 .. Cardinality(S), s[i] = s[j]
      PROVE  i = j
  <2>1. s[i] \in Nat /\ i \in Int /\ j \in Int
    BY AscendingTypes
  <2>2. (i < j => s[i] < s[j]) /\ (j < i => s[j] < s[i])
    BY AscendingTypes
  <2> QED
    BY <1>2, <2>1, <2>2
<1>3. s \in Injection(1 .. Cardinality(S), S)
  BY <1>2 DEF IsAscending, Injection, IsInjective
<1>4. Cardinality(1 .. Cardinality(S)) = Cardinality(S)
  BY <1>1, FS_Interval
<1>5. s \in Surjection(1 .. Cardinality(S), S)
  BY <1>3, <1>4, FS_Injection
<1> QED
  BY <1>5 DEF Surjection

LEMMA AscendingUnique ==
  ASSUME NEW S \in SUBSET Nat, IsFiniteSet(S),
         NEW s, IsAscending(s, S), NEW t, IsAscending(t, S)
  PROVE  s = t
<1>1. \A x \in S : /\ \E j \in 1 .. Cardinality(S) : t[j] = x
                   /\ \E k \in 1 .. Cardinality(S) : s[k] = x
  BY AscendingOnto
<1> DEFINE n == Cardinality(S)
           D == {i \in 1 .. n : s[i] # t[i]}
<1>2. n \in Nat /\ s \in [1 .. n -> S] /\ t \in [1 .. n -> S]
  BY FS_CardinalityType DEF IsAscending
<1> SUFFICES ASSUME NEW d \in 1 .. n, s[d] # t[d]
             PROVE  FALSE
  BY <1>2
<1>3. PICK i \in D : \A j \in D : i <= j
  <2>1. D \subseteq Nat /\ d \in D
    BY <1>2
  <2> HIDE DEF D
  <2> QED
    BY <2>1, LeastNumber
<1>4. \A j \in 1 .. n : j < i => s[j] = t[j]
  BY <1>2, <1>3
<1>5. s[i] \in S /\ t[i] \in S /\ i \in 1 .. n /\ s[i] # t[i]
  BY <1>2
<1> PICK j \in 1 .. n : t[j] = s[i]
  BY <1>1, <1>5
<1> PICK k \in 1 .. n : s[k] = t[i]
  BY <1>1, <1>5
<1>6. \A m \in 1 .. n : s[m] \in Nat /\ t[m] \in Nat
  BY <1>2
<1>7. \A a, b \in 1 .. n : a < b => s[a] < s[b] /\ t[a] < t[b]
  BY DEF IsAscending
<1> HIDE DEF n, D
<1>8. CASE s[i] < t[i]
  <2>1. (i < j => t[i] < t[j]) /\ (j < i => s[j] < s[i])
    BY <1>5, <1>7
  <2>2. t[j] \in Nat /\ t[i] \in Nat /\ s[i] \in Nat /\ i \in Nat /\ j \in Nat
    BY <1>2, <1>5, <1>6
  <2>3. j < i => s[j] = t[j]
    BY <1>4
  <2> QED
    BY <1>8, <2>1, <2>2, <2>3
<1>9. CASE t[i] < s[i]
  <2>1. (i < k => s[i] < s[k]) /\ (k < i => t[k] < t[i])
    BY <1>5, <1>7
  <2>2. s[k] \in Nat /\ s[i] \in Nat /\ t[i] \in Nat /\ i \in Nat /\ k \in Nat
    BY <1>2, <1>5, <1>6
  <2>3. k < i => s[k] = t[k]
    BY <1>4
  <2> QED
    BY <1>9, <2>1, <2>2, <2>3
<1> QED
  BY <1>5, <1>6, <1>8, <1>9

LEMMA AscendingGrows ==
  ASSUME NEW S \in SUBSET Nat, IsFiniteSet(S), NEW s, IsAscending(s, S),
         NEW m \in Nat, \A x \in S : x < m
  PROVE  IsAscending(Append(s, m), S \cup {m})
<1> DEFINE n == Cardinality(S)
           t == Append(s, m)
<1>1. n \in Nat /\ Cardinality(S \cup {m}) = n + 1
  BY FS_CardinalityType, FS_AddElement
<1>2. s \in [1 .. n -> S] /\ s \in Seq(S \cup {m}) /\ Len(s) = n
  BY <1>1 DEF IsAscending
<1>3. t \in [1 .. n + 1 -> S \cup {m}]
  <2>1. t \in Seq(S \cup {m}) /\ Len(t) = n + 1
    BY <1>2
  <2> QED
    BY <2>1, LenProperties
<1>4. t[n + 1] = m /\ \A i \in 1 .. n : t[i] = s[i] /\ t[i] \in S
  BY <1>1, <1>2 DEF IsAscending
<1>5. ASSUME NEW i \in 1 .. n + 1, NEW j \in 1 .. n + 1, i < j
      PROVE  t[i] < t[j]
  <2>1. i \in 1 .. n
    BY <1>1, <1>5
  <2>2. CASE j = n + 1
    BY <1>4, <2>1, <2>2
  <2>3. CASE j \in 1 .. n
    BY <1>4, <1>5, <2>1, <2>3 DEF IsAscending
  <2>4. j = n + 1 \/ j \in 1 .. n
    BY <1>1
  <2> QED
    BY <2>2, <2>3, <2>4
<1> QED
  BY <1>1, <1>3, <1>5 DEF IsAscending

=============================================================================
