----------------------------- MODULE DataFacts -----------------------------
(***************************************************************************)
(* What the proofs need of data: induction over the naturals, stated of a  *)
(* set of naturals instead of a predicate, finite sets by the number of    *)
(* their elements, and sequences whose elements have no type to name.      *)
(***************************************************************************)
EXTENDS Integers, Sequences, WellFoundedInduction, FiniteSetTheorems, TLAPS

(* Two integers that bound each other are one. *)
LEMMA Between == ASSUME NEW a \in Int, NEW b \in Int, a <= b, a >= b PROVE a = b
OBVIOUS

SmallerPairs == {ij \in Nat \X Nat : ij[1] < ij[2]}

(* A set of naturals has a least element. *)
LEMMA LeastOf ==
  ASSUME NEW S \in SUBSET Nat, S # {}
  PROVE  \E n \in S : \A m \in S : n <= m
<1>1. IsWellFoundedOn(SmallerPairs, Nat)
  <2>1. OpToRel(<, Nat) = SmallerPairs
    BY DEF OpToRel, SmallerPairs
  <2>2. QED
    BY <2>1, NatLessThanWellFounded, Zenon
<1>2. PICK n \in S : \A m \in S : <<m, n>> \notin SmallerPairs
  BY <1>1, WFMin
<1>3. \A m \in S : ~(m < n)
  BY <1>2 DEF SmallerPairs
<1>4. QED
  BY <1>3

(* A set with zero and the successor of each of its naturals has them all:
   the least natural outside it would follow one inside. *)
LEMMA Induction ==
  ASSUME NEW T, 0 \in T, \A n \in Nat : n \in T => n + 1 \in T
  PROVE  \A n \in Nat : n \in T
<1> DEFINE Out == Nat \ T
<1>1. SUFFICES ASSUME Out # {} PROVE FALSE
  OBVIOUS
<1>2. PICK n \in Out : \A m \in Out : n <= m
  BY <1>1, LeastOf
<1>3. n # 0 /\ n - 1 \in Nat /\ ~(n <= n - 1)
  BY <1>2
<1>4. n - 1 \in T
  BY <1>2, <1>3
<1>5. QED
  BY <1>3, <1>4

-----------------------------------------------------------------------------
(* Finite sets, smaller by one element at a time. *)

(* A set without one of its elements is smaller by one. *)
LEMMA Smaller ==
  ASSUME NEW S, IsFiniteSet(S), NEW s \in SUBSET S, NEW x \in s
  PROVE  /\ IsFiniteSet(s) /\ Cardinality(s) \in Nat
         /\ s \ {x} \in SUBSET S
         /\ Cardinality(s \ {x}) = Cardinality(s) - 1
         /\ Cardinality(s) - 1 \in Nat
<1>1. IsFiniteSet(s)
  BY FS_Subset
<1>2. Cardinality(s) \in Nat /\ Cardinality(s \ {x}) = Cardinality(s) - 1 /\ IsFiniteSet(s \ {x})
  BY <1>1, FS_CardinalityType, FS_RemoveElement
<1>3. Cardinality(s \ {x}) \in Nat
  BY <1>2, FS_CardinalityType
<1>4. QED
  BY <1>1, <1>2, <1>3

(* The subsets of up to n elements. *)
UpTo(S, n) == {s \in SUBSET S : Cardinality(s) <= n}

(* Only the empty set has no element. *)
LEMMA UpToNone == ASSUME NEW S, IsFiniteSet(S) PROVE UpTo(S, 0) = {{}}
<1>1. \A s \in SUBSET S : Cardinality(s) \in Nat /\ (Cardinality(s) = 0 <=> s = {})
  BY FS_EmptySet, FS_Subset, FS_CardinalityType
<1>2. QED
  BY <1>1 DEF UpTo

(* Every subset has up to as many elements as the set. *)
LEMMA UpToAll == ASSUME NEW S, IsFiniteSet(S) PROVE UpTo(S, Cardinality(S)) = SUBSET S
BY FS_Subset DEF UpTo

(* The rest of a set of up to n + 1 elements has up to n. *)
LEMMA UpToLess ==
  ASSUME NEW S, IsFiniteSet(S), NEW n \in Nat, NEW s \in UpTo(S, n + 1), NEW x \in s
  PROVE  s \ {x} \in UpTo(S, n) /\ s \ {x} \in UpTo(S, n + 1)
<1> DEFINE r == s \ {x}
<1>1. s \in SUBSET S /\ Cardinality(s) <= n + 1
  BY DEF UpTo
<1>2. r \in SUBSET S /\ Cardinality(r) = Cardinality(s) - 1 /\ Cardinality(s) \in Nat
  BY <1>1, Smaller
<1>3. Cardinality(r) <= n /\ Cardinality(r) <= n + 1
  BY <1>1, <1>2
<1>4. QED
  BY <1>2, <1>3 DEF UpTo

(* The naturals up to one are finitely many. *)
LEMMA UpToFinite ==
  ASSUME NEW n \in Nat
  PROVE  IsFiniteSet(1 .. n) /\ 1 .. n \in SUBSET Nat
<1>1. 1 \in Int /\ n \in Int
  OBVIOUS
<1>2. IsFiniteSet(1 .. n)
  BY <1>1, FS_Interval
<1>3. QED
  BY <1>2

(* A finite set of naturals has a greatest element. *)
LEMMA GreatestOf ==
  ASSUME NEW S \in SUBSET Nat, IsFiniteSet(S), S # {}
  PROVE  \E m \in S : \A k \in S : k <= m
<1> DEFINE T == {n \in Nat : \A s \in UpTo(S, n) : s # {} => \E m \in s : \A k \in s : k <= m}
<1>1. 0 \in T
  BY UpToNone
<1>2. ASSUME NEW n \in Nat, n \in T PROVE n + 1 \in T
  <2>1. ASSUME NEW s \in UpTo(S, n + 1), s # {} PROVE \E m \in s : \A k \in s : k <= m
    <3>1. PICK x \in s : TRUE
      BY <2>1
    <3> DEFINE r == s \ {x}
    <3>2. r \in UpTo(S, n) /\ s \subseteq Nat
      BY UpToLess DEF UpTo
    <3>3. CASE r = {}
      BY <3>2, <3>3
    <3>4. CASE r # {}
      <4>1. PICK m \in r : \A k \in r : k <= m
        BY <1>2, <3>2, <3>4
      <4>2. CASE x <= m
        BY <4>1, <4>2
      <4>3. CASE ~(x <= m)
        <5>1. \A k \in s : k <= x
          BY <3>2, <4>1, <4>3
        <5>2. QED
          BY <5>1
      <4>4. QED
        BY <4>2, <4>3
    <3>5. QED
      BY <3>3, <3>4
  <2>2. QED
    BY <2>1
<1> HIDE DEF T
<1>3. Cardinality(S) \in Nat /\ Cardinality(S) \in T
  BY <1>1, <1>2, Induction, FS_CardinalityType
<1>4. S \in UpTo(S, Cardinality(S))
  BY UpToAll
<1>5. QED
  BY <1>3, <1>4 DEF T

Increasing(f, n) == \A i, j \in 1 .. n : i < j => f[i] < f[j]

(* The greatest element comes after the others in order. *)
LEMMA OrderExtends ==
  ASSUME NEW s \in SUBSET Nat, NEW m \in s, \A k \in s : k <= m, NEW n \in Nat,
         NEW f \in [1 .. n -> s \ {m}], Increasing(f, n)
  PROVE  \E h \in [1 .. n + 1 -> s] : Increasing(h, n + 1)
<1> DEFINE h == [i \in 1 .. n + 1 |-> IF i = n + 1 THEN m ELSE f[i]]
<1>1. \A i \in 1 .. n + 1 : i = n + 1 \/ (i \in 1 .. n /\ i # n + 1)
  OBVIOUS
<1>2. \A k \in s \ {m} : k < m
  OBVIOUS
<1>3. \A i \in 1 .. n : f[i] \in s /\ f[i] < m
  BY <1>2
<1>4. h \in [1 .. n + 1 -> s]
  BY <1>1, <1>3
<1>5. ASSUME NEW i \in 1 .. n + 1, NEW j \in 1 .. n + 1, i < j PROVE h[i] < h[j]
  <2>1. i \in 1 .. n /\ i # n + 1
    BY <1>5
  <2>2. CASE j = n + 1
    BY <1>3, <2>1, <2>2
  <2>3. CASE j \in 1 .. n /\ j # n + 1
    BY <1>5, <2>1, <2>3 DEF Increasing
  <2>4. QED
    BY <1>1, <2>2, <2>3
<1>6. Increasing(h, n + 1)
  BY <1>5 DEF Increasing
<1>7. QED
  BY <1>4, <1>6

(* A finite set of naturals can be written down in increasing order. *)
LEMMA OrderExists ==
  ASSUME NEW S \in SUBSET Nat, IsFiniteSet(S)
  PROVE  \E f \in [1 .. Cardinality(S) -> S] : Increasing(f, Cardinality(S))
<1> DEFINE T == {n \in Nat : \A s \in SUBSET S : Cardinality(s) = n =>
                                \E f \in [1 .. n -> s] : Increasing(f, n)}
<1>1. 0 \in T
  <2>1. ASSUME NEW s \in SUBSET S PROVE \E f \in [1 .. 0 -> s] : Increasing(f, 0)
    <3>1. [i \in 1 .. 0 |-> i] \in [1 .. 0 -> s] /\ Increasing([i \in 1 .. 0 |-> i], 0)
      BY DEF Increasing
    <3>2. QED
      BY <3>1
  <2>2. QED
    BY <2>1
<1>2. ASSUME NEW n \in Nat, n \in T PROVE n + 1 \in T
  <2>1. ASSUME NEW s \in SUBSET S, Cardinality(s) = n + 1
        PROVE  \E f \in [1 .. n + 1 -> s] : Increasing(f, n + 1)
    <3>1. IsFiniteSet(s) /\ s \in SUBSET Nat
      BY FS_Subset
    <3>2. s # {}
      BY <2>1, FS_EmptySet
    <3>3. PICK m \in s : \A k \in s : k <= m
      BY <3>1, <3>2, GreatestOf
    <3>4. s \ {m} \in SUBSET S
      OBVIOUS
    <3>5. Cardinality(s \ {m}) = Cardinality(s) - 1
      BY Smaller
    <3>6. Cardinality(s \ {m}) = n
      BY <2>1, <3>5
    <3>7. PICK f \in [1 .. n -> s \ {m}] : Increasing(f, n)
      BY <1>2, <3>4, <3>6
    <3> HIDE DEF T
    <3>8. QED
      BY <3>1, <3>3, <3>7, OrderExtends
  <2>2. QED
    BY <2>1
<1> HIDE DEF T
<1>3. Cardinality(S) \in Nat /\ Cardinality(S) \in T
  BY <1>1, <1>2, Induction, FS_CardinalityType
<1>4. QED
  BY <1>3 DEF T

(* In that order, an element comes after as many as are smaller. *)
LEMMA PlaceOf ==
  ASSUME NEW S \in SUBSET Nat, IsFiniteSet(S), NEW n \in Nat, n = Cardinality(S),
         NEW f \in [1 .. n -> S], Increasing(f, n), NEW e \in S
  PROVE  LET k == Cardinality({d \in S : d < e}) + 1 IN k \in 1 .. n /\ f[k] = e
<1>0. ASSUME NEW i \in 1 .. n, NEW j \in 1 .. n
      PROVE  (f[i] < f[j] => i < j) /\ (f[i] = f[j] => i = j)
  <2>1. f[i] \in Nat /\ f[j] \in Nat
    OBVIOUS
  <2>2. i < j \/ i = j \/ j < i
    OBVIOUS
  <2>3. (i < j => f[i] < f[j]) /\ (j < i => f[j] < f[i])
    BY DEF Increasing
  <2>4. QED
    BY <2>1, <2>2, <2>3
<1>1. \A i, j \in 1 .. n : f[i] < f[j] => i < j
  BY <1>0
<1>2. f \in Injection(1 .. n, S)
  BY <1>0 DEF Injection, IsInjective
<1>3. f \in Surjection(1 .. n, S)
  <2>1. 1 \in Int /\ n \in Int /\ (IF 1 > n THEN 0 ELSE n - 1 + 1) = n
    OBVIOUS
  <2>2. IsFiniteSet(1 .. n) /\ Cardinality(1 .. n) = n
    BY <2>1, FS_Interval
  <2>3. QED
    BY <1>2, <2>2, FS_Injection
<1>4. PICK k \in 1 .. n : f[k] = e
  BY <1>3 DEF Surjection
<1> DEFINE s == {d \in S : d < e}
           g == [i \in 1 .. k - 1 |-> f[i]]
<1>5. k - 1 \in Nat /\ \A i \in 1 .. k - 1 : i \in 1 .. n /\ i < k
  OBVIOUS
<1>6. g \in [1 .. k - 1 -> s]
  BY <1>4, <1>5 DEF Increasing
<1>7. \A d \in s : \E i \in 1 .. k - 1 : g[i] = d
  <2>1. ASSUME NEW d \in s PROVE \E i \in 1 .. k - 1 : g[i] = d
    <3>1. PICK i \in 1 .. n : f[i] = d
      BY <1>3 DEF Surjection
    <3>2. i < k
      BY <1>1, <1>4, <3>1
    <3>3. QED
      BY <3>1, <3>2
  <2>2. QED
    BY <2>1
<1>8. \A i, j \in 1 .. k - 1 : g[i] = g[j] => i = j
  BY <1>2, <1>5 DEF Injection, IsInjective
<1> HIDE DEF s, g
<1>9. g \in Bijection(1 .. k - 1, s)
  BY <1>6, <1>7, <1>8 DEF Bijection, Injection, Surjection, IsInjective
<1>10. Cardinality(s) = k - 1
  BY <1>5, <1>9, FS_CountingElements DEF ExistsBijection
<1>11. QED
  BY <1>4, <1>10 DEF s

-----------------------------------------------------------------------------
(* Sequences. *)

IsSequence(s) ==
    /\ Len(s) \in Nat
    /\ s = [k \in 1 .. Len(s) |-> s[k]]

(* A sequence of anything is one. *)
LEMMA SequencesAre == ASSUME NEW S, NEW t \in Seq(S) PROVE IsSequence(t)
BY DEF IsSequence

(* An element appended to a sequence comes after those that were there. *)
LEMMA Appended ==
    ASSUME NEW s, IsSequence(s), NEW x
    PROVE  /\ IsSequence(Append(s, x))
           /\ Len(Append(s, x)) = Len(s) + 1
           /\ \A k \in 1 .. Len(s) : Append(s, x)[k] = s[k]
           /\ Append(s, x)[Len(s) + 1] = x
<1> DEFINE S == {s[k] : k \in 1 .. Len(s)} \cup {x}
<1>1. s \in Seq(S)
  BY DEF IsSequence
<1>2. Append(s, x) \in Seq(S)
  BY <1>1
<1> HIDE DEF S
<1>3. x \in S
  BY DEF S
<1>4. IsSequence(Append(s, x))
  BY <1>2, SequencesAre
<1>5. Len(Append(s, x)) = Len(s) + 1
  BY <1>1, <1>3
<1>6. Append(s, x)[Len(s) + 1] = x
  BY <1>1, <1>3
<1>7. \A k \in 1 .. Len(s) : Append(s, x)[k] = s[k]
  BY <1>1, <1>3
<1> QED
  BY <1>4, <1>5, <1>6, <1>7
=============================================================================
