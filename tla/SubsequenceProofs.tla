-------------------------- MODULE SubsequenceProofs --------------------------
(* What the models' lists do, for lists of any length: induction over the     *)
(* natural numbers in a form the provers can use (with a set in the place of  *)
(* a predicate), greatest and least positions, concatenations, subsequences   *)
(* and the last element of a kind.                                            *)
EXTENDS Subsequences, FiniteSetsExt, FiniteSetTheorems, TLAPS

-----------------------------------------------------------------------------
(* Natural numbers.                                                           *)

\* A set of natural numbers that is not empty has a least element.
LEMMA LeastNat == ASSUME NEW T, T \subseteq Nat, T # {} PROVE \E x \in T : \A y \in T : x <= y
<1>1. PICK x \in T : \A y \in T : <<y, x>> \notin OpToRel(<, Nat)
  BY NatLessThanWellFounded, WFMin
<1>2. \A y \in T : ~(y < x)
  BY <1>1 DEF OpToRel
<1>3. x \in Nat /\ \A y \in T : y \in Nat
  BY <1>1
<1>4. \A y \in T : x <= y
  BY <1>2, <1>3
<1> QED BY <1>1, <1>4

\* A set that has 0, and n + 1 whenever it has n, has every natural number.
LEMMA SetInduction == ASSUME NEW T, 0 \in T, \A n \in Nat : n \in T => n + 1 \in T PROVE Nat \subseteq T
<1> SUFFICES ASSUME ~(Nat \subseteq T) PROVE FALSE
  OBVIOUS
<1>1. PICK x \in Nat \ T : \A y \in Nat \ T : x <= y
  BY LeastNat
<1>2. x # 0 /\ x - 1 \in Nat /\ x - 1 \in T
  BY <1>1
<1> QED BY <1>1, <1>2

\* Min of positions is one of them, and no greater than any.
LEMMA MinFacts ==
    ASSUME NEW A, A \subseteq Nat, A # {}
    PROVE  Min(A) \in A /\ \A x \in A : Min(A) <= x
<1>1. PICK x \in A : \A y \in A : x <= y
  BY LeastNat
<1> QED BY <1>1 DEF Min

\* Max of positions is one of them, and no less than any.
LEMMA MaxFacts ==
    ASSUME NEW n \in Nat, NEW A, A \subseteq 1 .. n, A # {}
    PROVE  Max(A) \in A /\ \A x \in A : x <= Max(A)
<1>1. {n - x : x \in A} \subseteq Nat /\ {n - x : x \in A} # {}
  <2>1. \A x \in A : n - x \in Nat
    OBVIOUS
  <2> QED BY <2>1
<1>2. PICK z \in {n - x : x \in A} : \A y \in {n - x : x \in A} : z <= y
  BY <1>1, LeastNat
<1>3. PICK m \in A : z = n - m
  BY <1>2
<1>4. \A x \in A : n - m <= n - x
  BY <1>2, <1>3
<1>5. \A x \in A : m >= x
  BY <1>4
<1>6. Max(A) \in A /\ \A x \in A : Max(A) >= x
  BY <1>5 DEF Max
<1>7. \A x \in A : x \in Nat
  OBVIOUS
<1> QED BY <1>6, <1>7

\* An upper bound among the positions is Max.
LEMMA MaxIs ==
    ASSUME NEW n \in Nat, NEW A, A \subseteq 1 .. n, NEW m \in A, \A x \in A : x <= m
    PROVE  Max(A) = m
<1>1. Max(A) \in A /\ \A x \in A : x <= Max(A)
  BY MaxFacts
<1>2. \A x \in A : x \in Nat
  OBVIOUS
<1>3. Max(A) <= m /\ m <= Max(A) /\ m \in Nat /\ Max(A) \in Nat
  BY <1>1, <1>2
<1> QED BY ONLY <1>3

-----------------------------------------------------------------------------
(* Lists.                                                                     *)

\* The positions of a list, and its elements are its own.
LEMMA SeqFacts ==
    ASSUME NEW s, IsSeq(s)
    PROVE  /\ Len(s) \in Nat /\ DOMAIN s = 1 .. Len(s)
           /\ s = [i \in 1 .. Len(s) |-> s[i]]
BY DEF IsSeq

\* A sequence over any set is one.
LEMMA SeqIsSeq == ASSUME NEW S, NEW s \in Seq(S) PROVE IsSeq(s)
BY DEF IsSeq

\* So is a function on 1 .. n.
LEMMA FunIsSeq ==
    ASSUME NEW n \in Nat, NEW s, DOMAIN s = 1 .. n, s = [i \in 1 .. n |-> s[i]]
    PROVE  IsSeq(s) /\ Len(s) = n
<1>1. s \in Seq({s[i] : i \in DOMAIN s})
  OBVIOUS
<1>2. Len(s) = n
  BY <1>1
<1> QED BY <1>1, <1>2 DEF IsSeq

\* Two lists with the same elements at the same positions.
LEMMA SeqEqual ==
    ASSUME NEW s, NEW t, IsSeq(s), IsSeq(t), Len(s) = Len(t), \A i \in 1 .. Len(s) : s[i] = t[i]
    PROVE  s = t
BY SeqFacts

\* The elements of a concatenation.
LEMMA Concat ==
    ASSUME NEW a, NEW b, IsSeq(a), IsSeq(b)
    PROVE  /\ IsSeq(a \o b) /\ Len(a \o b) = Len(a) + Len(b)
           /\ DOMAIN (a \o b) = 1 .. (Len(a) + Len(b))
           /\ \A i \in 1 .. Len(a) : (a \o b)[i] = a[i]
           /\ \A j \in 1 .. Len(b) : (a \o b)[Len(a) + j] = b[j]
<1> DEFINE S == {a[i] : i \in DOMAIN a} \cup {b[i] : i \in DOMAIN b}
<1>1. a \in Seq(S) /\ b \in Seq(S)
  BY DEF IsSeq
<1> HIDE DEF S
<1>2. a \o b \in Seq(S)
  BY <1>1
<1>3. IsSeq(a \o b)
  BY <1>2, SeqIsSeq
<1>4. Len(a) \in Nat /\ Len(b) \in Nat /\ Len(a \o b) = Len(a) + Len(b)
  BY <1>1
<1>5. DOMAIN (a \o b) = 1 .. (Len(a) + Len(b))
  BY <1>2, <1>4
<1>6. \A i \in 1 .. Len(a) : (a \o b)[i] = a[i]
  BY <1>1, <1>4
<1>7. \A j \in 1 .. Len(b) : (a \o b)[Len(a) + j] = b[j]
  BY <1>1, <1>4
<1> QED BY <1>3, <1>4, <1>5, <1>6, <1>7

\* Every position of a concatenation is one of the first or one of the second list.
LEMMA ConcatSplit ==
    ASSUME NEW a, NEW b, IsSeq(a), IsSeq(b), NEW k \in DOMAIN (a \o b)
    PROVE  \/ k \in 1 .. Len(a) /\ (a \o b)[k] = a[k]
           \/ \E j \in 1 .. Len(b) : k = Len(a) + j /\ (a \o b)[k] = b[j]
<1>1. Len(a) \in Nat /\ Len(b) \in Nat /\ k \in 1 .. (Len(a) + Len(b))
  BY Concat, SeqFacts
<1>2. CASE k <= Len(a)
  BY <1>1, <1>2, Concat
<1>3. CASE k > Len(a)
  <2>1. PICK j : j = k - Len(a)
    OBVIOUS
  <2>2. j \in 1 .. Len(b) /\ k = Len(a) + j
    BY <1>1, <1>3, <2>1
  <2> QED BY <2>2, Concat
<1> QED BY <1>1, <1>2, <1>3

\* The empty list and a list of one element.
LEMMA ShortSeqs ==
    ASSUME NEW x
    PROVE  /\ IsSeq(<<>>) /\ Len(<<>>) = 0 /\ DOMAIN <<>> = {}
           /\ IsSeq(<<x>>) /\ Len(<<x>>) = 1 /\ DOMAIN <<x>> = {1} /\ <<x>>[1] = x
<1>1. <<>> \in Seq({x}) /\ <<x>> \in Seq({x})
  OBVIOUS
<1>2. IsSeq(<<>>) /\ IsSeq(<<x>>)
  BY <1>1, SeqIsSeq
<1>3. Len(<<>>) = 0 /\ Len(<<x>>) = 1 /\ DOMAIN <<>> = {} /\ <<x>>[1] = x
  OBVIOUS
<1>4. DOMAIN <<x>> = {1}
  OBVIOUS
<1> QED BY <1>2, <1>3, <1>4

\* The empty list adds nothing.
LEMMA ConcatEmpty == ASSUME NEW a, IsSeq(a) PROVE a \o <<>> = a
<1>1. IsSeq(<<>>) /\ Len(<<>>) = 0 /\ Len(a) \in Nat
  BY ShortSeqs, SeqFacts
<1>2. IsSeq(a \o <<>>) /\ Len(a \o <<>>) = Len(a) /\ \A i \in 1 .. Len(a) : (a \o <<>>)[i] = a[i]
  BY <1>1, Concat
<1> QED BY <1>2, SeqEqual

\* The positions of the elements that are in K.
Where(s, K) == {i \in DOMAIN s : s[i] \in K}

\* The last element of a kind in a concatenation: that of the second list, when
\* it has one, or else that of the first.
LEMMA LastOfConcat ==
    ASSUME NEW a, NEW b, IsSeq(a), IsSeq(b), NEW K
    PROVE  /\ Where(b, K) # {} => (a \o b)[Max(Where(a \o b, K))] = b[Max(Where(b, K))]
           /\ Where(b, K) = {} /\ Where(a, K) # {} =>
                  (a \o b)[Max(Where(a \o b, K))] = a[Max(Where(a, K))]
           /\ Where(a \o b, K) = {} <=> Where(a, K) = {} /\ Where(b, K) = {}
<1>1. /\ Len(a) \in Nat /\ Len(b) \in Nat /\ DOMAIN a = 1 .. Len(a) /\ DOMAIN b = 1 .. Len(b)
      /\ DOMAIN (a \o b) = 1 .. (Len(a) + Len(b))
  BY SeqFacts, Concat
<1>2. \A i \in 1 .. Len(a) : (a \o b)[i] = a[i]
  BY Concat
<1>3. \A j \in 1 .. Len(b) : (a \o b)[Len(a) + j] = b[j]
  BY Concat
<1>4. Where(a, K) \subseteq 1 .. Len(a) /\ Where(b, K) \subseteq 1 .. Len(b)
      /\ Where(a \o b, K) \subseteq 1 .. (Len(a) + Len(b)) /\ Len(a) + Len(b) \in Nat
  BY <1>1 DEF Where
<1>5. \A k \in Where(a \o b, K) : k \in Where(a, K) \/ \E j \in Where(b, K) : k = Len(a) + j
  <2> SUFFICES ASSUME NEW k \in Where(a \o b, K)
               PROVE  k \in Where(a, K) \/ \E j \in Where(b, K) : k = Len(a) + j
    OBVIOUS
  <2>1. k \in DOMAIN (a \o b) /\ (a \o b)[k] \in K
    BY DEF Where
  <2> QED BY <2>1, <1>1, ConcatSplit DEF Where
<1>6. \A k \in Where(a, K) : k \in Where(a \o b, K)
  BY <1>1, <1>2 DEF Where
<1>7. \A j \in Where(b, K) : Len(a) + j \in Where(a \o b, K)
  BY <1>1, <1>3 DEF Where
<1>8. ASSUME Where(b, K) # {} PROVE (a \o b)[Max(Where(a \o b, K))] = b[Max(Where(b, K))]
  <2>1. PICK m : m = Max(Where(b, K))
    OBVIOUS
  <2>2. m \in Where(b, K) /\ \A j \in Where(b, K) : j <= m
    BY <1>1, <1>4, <1>8, <2>1, MaxFacts
  <2>3. m \in 1 .. Len(b)
    BY <1>4, <2>2
  <2>4. \A k \in Where(a \o b, K) : k <= Len(a) + m
    <3> SUFFICES ASSUME NEW k \in Where(a \o b, K) PROVE k <= Len(a) + m
      OBVIOUS
    <3>1. CASE k \in Where(a, K)
      BY <3>1, <1>1, <1>4, <2>3
    <3>2. CASE \E j \in Where(b, K) : k = Len(a) + j
      BY <3>2, <1>1, <1>4, <2>2, <2>3
    <3> QED BY <3>1, <3>2, <1>5
  <2>5. Max(Where(a \o b, K)) = Len(a) + m
    BY <1>4, <1>7, <2>2, <2>4, MaxIs
  <2> QED BY <1>3, <2>1, <2>3, <2>5
<1>9. ASSUME Where(b, K) = {}, Where(a, K) # {}
      PROVE  (a \o b)[Max(Where(a \o b, K))] = a[Max(Where(a, K))]
  <2>1. Where(a \o b, K) = Where(a, K)
    BY <1>5, <1>6, <1>9
  <2>2. Max(Where(a, K)) \in 1 .. Len(a)
    BY <1>1, <1>4, <1>9, MaxFacts
  <2> QED BY <1>2, <2>1, <2>2
<1>10. Where(a \o b, K) = {} <=> Where(a, K) = {} /\ Where(b, K) = {}
  BY <1>5, <1>6, <1>7
<1> QED BY <1>8, <1>9, <1>10

-----------------------------------------------------------------------------
(* Subsequences.                                                              *)

\* f goes through the positions I of s one by one, in their order.
Visits(N, f, s, I) ==
    /\ N \in Nat /\ f \in [1 .. N -> I]
    /\ \A i \in I : \E k \in 1 .. N : f[k] = i
    /\ \A j, k \in 1 .. N : j < k => f[j] < f[k]
    /\ Subsequence(s, I) = [k \in 1 .. N |-> s[f[k]]]

\* A subsequence does just that.
LEMMA SubsequenceFacts ==
    ASSUME NEW n \in Nat, NEW I, I \subseteq 1 .. n, NEW s
    PROVE  \E N, f : Visits(N, f, s, I)
<1>0. \A i \in I : i \in Nat
  OBVIOUS
<1>1. IsFiniteSet(I) /\ Cardinality(I) \in Nat
  <2>1. IsFiniteSet(1 .. n)
    BY FS_Interval
  <2>2. IsFiniteSet(I)
    BY <2>1, FS_Subset
  <2> QED BY <2>2, FS_CardinalityType
<1>2. PICK N \in Nat : N = Cardinality(I)
  BY <1>1
<1> DEFINE upto(i) == {j \in I : j <= i}
           r == [i \in I |-> Cardinality(upto(i))]
<1>3. \A i \in I : IsFiniteSet(upto(i)) /\ r[i] \in Nat /\ r[i] <= N
  <2> SUFFICES ASSUME NEW i \in I PROVE IsFiniteSet(upto(i)) /\ r[i] \in Nat /\ r[i] <= N
    OBVIOUS
  <2>1. upto(i) \subseteq I
    OBVIOUS
  <2>2. IsFiniteSet(upto(i)) /\ Cardinality(upto(i)) <= Cardinality(I)
    BY <1>1, <2>1, FS_Subset
  <2>3. Cardinality(upto(i)) \in Nat
    BY <2>2, FS_CardinalityType
  <2> QED BY <1>2, <2>2, <2>3
<1>4. \A i, j \in I : j < i => r[j] < r[i]
  <2> SUFFICES ASSUME NEW i \in I, NEW j \in I, j < i PROVE r[j] < r[i]
    OBVIOUS
  <2>1. i \in Nat /\ j \in Nat /\ \A k \in I : k \in Nat
    BY <1>0
  <2>2. upto(j) \subseteq upto(i) /\ i \in upto(i) /\ i \notin upto(j)
    <3>1. \A k \in I : k <= j => k <= i
      BY <2>1
    <3>2. i <= i /\ ~(i <= j)
      BY <2>1
    <3> QED BY <3>1, <3>2
  <2>3. upto(j) # upto(i)
    BY <2>2
  <2>4. Cardinality(upto(j)) <= Cardinality(upto(i)) /\ Cardinality(upto(j)) # Cardinality(upto(i))
    BY <1>3, <2>2, <2>3, FS_Subset
  <2> QED BY <1>3, <2>4
<1>5. \A i \in I : r[i] >= 1
  <2> SUFFICES ASSUME NEW i \in I PROVE r[i] # 0
    BY <1>3
  <2>1. i \in upto(i)
    OBVIOUS
  <2>2. upto(i) # {}
    BY <2>1
  <2> QED BY <1>3, <2>2, FS_EmptySet
<1> HIDE DEF upto
<1>6. r \in [I -> 1 .. N]
  BY <1>3, <1>5
<1>7. \A i, j \in I : r[i] = r[j] => i = j
  <2>1. \A i, j \in I : i < j \/ j < i \/ i = j
    OBVIOUS
  <2>2. \A i \in I : r[i] \in Nat
    BY <1>3
  <2> QED BY <1>4, <2>1, <2>2
<1>8. r \in Injection(I, 1 .. N)
  BY <1>6, <1>7 DEF Injection, IsInjective
<1>9. IsFiniteSet(1 .. N) /\ Cardinality(1 .. N) = N
  BY FS_Interval
<1>10. r \in Surjection(I, 1 .. N)
  BY <1>2, <1>8, <1>9, FS_Injection
<1>11. \A k \in 1 .. N : \E i \in I : r[i] = k
  BY <1>10 DEF Surjection
<1> DEFINE f == [k \in 1 .. N |-> CHOOSE i \in I : r[i] = k]
<1>12. f \in [1 .. N -> I] /\ \A k \in 1 .. N : r[f[k]] = k
  BY <1>11
<1>13. \A i \in I : r[i] \in 1 .. N /\ f[r[i]] = i
  BY <1>6, <1>7, <1>12
<1>14. \A j, k \in 1 .. N : j < k => f[j] < f[k]
  <2> SUFFICES ASSUME NEW j \in 1 .. N, NEW k \in 1 .. N, j < k PROVE f[j] < f[k]
    OBVIOUS
  <2>1. f[j] \in I /\ f[k] \in I /\ r[f[j]] = j /\ r[f[k]] = k
    BY <1>12
  <2>2. f[j] \in Nat /\ f[k] \in Nat
    BY <1>0, <2>1
  <2>3. ~(f[k] < f[j]) /\ f[k] # f[j]
    <3>1. ~(k < j) /\ k # j
      OBVIOUS
    <3>2. f[k] < f[j] => r[f[k]] < r[f[j]]
      BY <1>4, <2>1
    <3> QED BY <2>1, <3>1, <3>2
  <2> QED BY <2>2, <2>3
<1>15. Subsequence(s, I) = [k \in 1 .. N |-> s[f[k]]]
  <2>1. Subsequence(s, I) = [k \in 1 .. N |-> s[CHOOSE i \in I : Cardinality({j \in I : j <= i}) = k]]
    BY <1>2 DEF Subsequence
  <2>2. \A k \in 1 .. N : (CHOOSE i \in I : Cardinality({j \in I : j <= i}) = k) = f[k]
    <3>1. \A i \in I : r[i] = Cardinality({j \in I : j <= i})
      BY DEF upto
    <3> HIDE DEF r
    <3>2. \A k \in 1 .. N : (CHOOSE i \in I : Cardinality({j \in I : j <= i}) = k) = (CHOOSE i \in I : r[i] = k)
      BY <3>1
    <3>3. \A k \in 1 .. N : f[k] = CHOOSE i \in I : r[i] = k
      OBVIOUS
    <3> HIDE DEF f
    <3> QED BY <3>2, <3>3
  <2> QED BY <2>1, <2>2
<1> HIDE DEF f
<1>16. Visits(N, f, s, I)
  BY <1>12, <1>13, <1>14, <1>15 DEF Visits
<1> QED BY <1>16

\* q is a list that has the elements of s at the positions I, and no others.
HasJust(q, s, I) ==
    /\ IsSeq(q)
    /\ \A k \in DOMAIN q : \E i \in I : q[k] = s[i]
    /\ \A i \in I : \E k \in DOMAIN q : q[k] = s[i]

\* Such is a subsequence.
LEMMA SubsequenceIsSeq ==
    ASSUME NEW n \in Nat, NEW I, I \subseteq 1 .. n, NEW s
    PROVE  HasJust(Subsequence(s, I), s, I)
<1>1. PICK N, f : Visits(N, f, s, I)
  BY SubsequenceFacts
<1> USE DEF Visits
<1>2. PICK q : q = Subsequence(s, I)
  OBVIOUS
<1>3. DOMAIN q = 1 .. N /\ (\A k \in 1 .. N : q[k] = s[f[k]]) /\ q = [k \in 1 .. N |-> q[k]]
  BY <1>1, <1>2
<1>4. IsSeq(q)
  BY <1>1, <1>3, FunIsSeq
<1> QED BY <1>1, <1>2, <1>3, <1>4 DEF HasJust

\* The last element of the kind K in q is the last of s at the positions J.
SameLast(q, s, K, J) ==
    /\ Where(q, K) = {} <=> J = {}
    /\ J # {} => q[Max(Where(q, K))] = s[Max(J)]

\* The last element of a kind in a subsequence: the one at the greatest of the
\* positions I that has one of that kind.
LEMMA LastOfSubsequence ==
    ASSUME NEW n \in Nat, NEW I, I \subseteq 1 .. n, NEW s, NEW K,
           NEW J, J = {i \in I : s[i] \in K}
    PROVE  SameLast(Subsequence(s, I), s, K, J)
<1>1. PICK N, f : Visits(N, f, s, I)
  BY SubsequenceFacts
<1> USE DEF Visits
<1>2. PICK q : q = Subsequence(s, I)
  OBVIOUS
<1>3. DOMAIN q = 1 .. N /\ \A k \in 1 .. N : q[k] = s[f[k]]
  BY <1>1, <1>2
<1>4. Where(q, K) = {k \in 1 .. N : f[k] \in J}
  BY <1>1, <1>3 DEF Where
<1>5. Where(q, K) = {} <=> J = {}
  BY <1>1, <1>4
<1>6. ASSUME J # {} PROVE q[Max(Where(q, K))] = s[Max(J)]
  <2>1. PICK m : m = Max(J)
    OBVIOUS
  <2>2. m \in J /\ \A i \in J : i <= m
    BY <1>6, <2>1, MaxFacts
  <2>3. PICK k \in 1 .. N : f[k] = m
    BY <1>1, <2>2
  <2>4. \A j \in Where(q, K) : j <= k
    <3> SUFFICES ASSUME NEW j \in Where(q, K), ~(j <= k) PROVE FALSE
      OBVIOUS
    <3>1. j \in 1 .. N /\ f[j] \in J
      BY <1>4
    <3>2. k < j
      BY <3>1, <2>3
    <3>3. f[k] < f[j]
      BY <1>1, <3>1, <3>2
    <3>4. f[j] <= m /\ m \in Nat /\ f[j] \in Nat
      <4>1. \A i \in J : i \in Nat
        OBVIOUS
      <4> QED BY <2>2, <3>1, <4>1
    <3> QED BY <2>3, <3>3, <3>4
  <2>5. k \in Where(q, K) /\ Where(q, K) \subseteq 1 .. N
    BY <1>4, <2>2, <2>3
  <2>6. Max(Where(q, K)) = k
    BY <2>4, <2>5, MaxIs
  <2> QED BY <1>3, <2>1, <2>3, <2>6
<1> QED BY <1>2, <1>5, <1>6 DEF SameLast

\* Distinct has the elements of the list, and no others.
LEMMA DistinctFacts ==
    ASSUME NEW s, IsSeq(s)
    PROVE  /\ IsSeq(Distinct(s))
           /\ {Distinct(s)[k] : k \in DOMAIN Distinct(s)} = {s[i] : i \in DOMAIN s}
<1> DEFINE I == {i \in DOMAIN s : \A j \in 1 .. (i - 1) : s[j] # s[i]}
<1>1. Len(s) \in Nat /\ DOMAIN s = 1 .. Len(s) /\ I \subseteq 1 .. Len(s)
  BY SeqFacts
<1>2. Distinct(s) = Subsequence(s, I)
  BY DEF Distinct
<1>3. \A i \in DOMAIN s : \E j \in I : s[j] = s[i]
  <2> SUFFICES ASSUME NEW i \in DOMAIN s PROVE \E j \in I : s[j] = s[i]
    OBVIOUS
  <2> DEFINE A == {j \in DOMAIN s : s[j] = s[i]}
  <2>1. A \subseteq Nat /\ A # {}
    BY <1>1
  <2>2. PICK m \in A : \A j \in A : m <= j
    BY <2>1, LeastNat
  <2>3. m \in DOMAIN s /\ s[m] = s[i] /\ \A j \in 1 .. (m - 1) : s[j] # s[m]
    BY <1>1, <2>2
  <2> QED BY <2>3
<1> HIDE DEF I
<1>10. PICK n \in Nat : I \subseteq 1 .. n
  BY <1>1
<1>4. HasJust(Distinct(s), s, I)
  BY <1>2, <1>10, SubsequenceIsSeq
<1>5. \A i \in I : i \in DOMAIN s
  BY <1>1
<1>6. \A i \in DOMAIN s : \E k \in DOMAIN Distinct(s) : Distinct(s)[k] = s[i]
  BY <1>3, <1>4 DEF HasJust
<1>7. \A k \in DOMAIN Distinct(s) : \E i \in DOMAIN s : Distinct(s)[k] = s[i]
  BY <1>4, <1>5 DEF HasJust
<1> QED BY <1>4, <1>6, <1>7 DEF HasJust
=============================================================================
