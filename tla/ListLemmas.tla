----------------------------- MODULE ListLemmas -----------------------------
(***************************************************************************)
(* Facts about the least and greatest element of a set of naturals and      *)
(* about inserting into and removing from a sequence, for the proofs about   *)
(* the ordered lists that the components keep.                              *)
(***************************************************************************)
EXTENDS Integers, FiniteSets, SequencesExt, FiniteSetTheorems,
        WellFoundedInduction, SequenceTheorems, TLAPS

(* A set of naturals that is not empty has a least element.                  *)
LEMMA LeastNatural ==
    ASSUME NEW S \in SUBSET Nat, S # {}
    PROVE  \E x \in S : \A y \in S : x <= y
<1>1. PICK x \in S : \A y \in S : ~ (<<y, x>> \in OpToRel(<, Nat))
  BY WFMin, NatLessThanWellFounded
<1>2. \A y \in S : ~ (y < x)
  BY <1>1 DEF OpToRel
<1> QED
  BY <1>2

(* FiniteSetsExt!Min of such a set is that element.                          *)
LEMMA MinProperties ==
    ASSUME NEW S \in SUBSET Nat, S # {}
    PROVE  Min(S) \in S /\ \A y \in S : Min(S) <= y
BY LeastNatural DEF Min

Unbounded(n, f) == \A b \in Nat : \E i \in 1 .. n : b < f[i]
UnboundedLengths == {n \in Nat : \E f \in [1 .. n -> Nat] : Unbounded(n, f)}

(* A finite sequence of naturals is bounded: a shortest unbounded one could  *)
(* be shortened.                                                             *)
LEMMA NoneUnbounded == UnboundedLengths = {}
<1> SUFFICES ASSUME UnboundedLengths # {} PROVE FALSE
  OBVIOUS
<1>1. PICK k : k \in UnboundedLengths /\ \A j \in UnboundedLengths : k <= j
  BY LeastNatural DEF UnboundedLengths
<1>2. k \in Nat /\ \E f \in [1 .. k -> Nat] : Unbounded(k, f)
  BY <1>1 DEF UnboundedLengths
<1>3. PICK g \in [1 .. k -> Nat] : Unbounded(k, g)
  BY <1>2
<1>4. k # 0
  BY <1>2, <1>3 DEF Unbounded
<1>5. k - 1 \in Nat /\ k - 1 \notin UnboundedLengths
  BY <1>1, <1>2, <1>4
<1> DEFINE h == [i \in 1 .. (k - 1) |-> g[i]]
<1>6. h \in [1 .. (k - 1) -> Nat]
  BY <1>2, <1>3
<1>7. ~ Unbounded(k - 1, h)
  BY <1>5, <1>6 DEF UnboundedLengths
<1>8. PICK b \in Nat : \A i \in 1 .. (k - 1) : ~ (b < g[i])
  BY <1>7 DEF Unbounded
<1>9. \A i \in 1 .. k : g[i] \in Nat
  BY <1>2, <1>3
<1>10. PICK c \in Nat : b <= c /\ g[k] <= c
  <2>1. g[k] \in Nat
    BY <1>2, <1>4, <1>9
  <2>2. CASE g[k] <= b
    BY <2>2
  <2>3. CASE ~ (g[k] <= b)
    BY <2>1, <2>3
  <2> QED
    BY <2>2, <2>3
<1>11. \A i \in 1 .. k : g[i] <= c
  <2> SUFFICES ASSUME NEW i \in 1 .. k PROVE g[i] <= c
    OBVIOUS
  <2>1. i = k \/ i \in 1 .. (k - 1)
    BY <1>2
  <2> QED
    BY <1>8, <1>9, <1>10, <2>1
<1>12. PICK i \in 1 .. k : c < g[i]
  BY <1>3, <1>10 DEF Unbounded
<1>13. g[i] \in Nat /\ c \in Nat /\ g[i] <= c
  BY <1>9, <1>10, <1>11
<1> QED
  BY <1>12, <1>13

LEMMA ListBounded ==
    ASSUME NEW n \in Nat, NEW f \in [1 .. n -> Nat]
    PROVE  \E b \in Nat : \A i \in 1 .. n : f[i] <= b
<1>1. ~ Unbounded(n, f)
  BY NoneUnbounded DEF UnboundedLengths
<1>2. \A i \in 1 .. n : f[i] \in Nat
  OBVIOUS
<1>3. PICK b \in Nat : \A i \in 1 .. n : ~ (b < f[i])
  BY <1>1 DEF Unbounded
<1>4. \A i \in 1 .. n : f[i] <= b
  BY <1>2, <1>3
<1> QED
  BY <1>4

(* FiniteSetsExt!Max of a finite set of naturals is its greatest element.    *)
LEMMA MaxProperties ==
    ASSUME NEW S \in SUBSET Nat, S # {}, IsFiniteSet(S)
    PROVE  Max(S) \in S /\ \A y \in S : y <= Max(S)
<1> DEFINE Bounds == {b \in Nat : \A y \in S : y <= b}
<1>1. Bounds # {}
  <2>1. PICK f : f \in Bijection(1 .. Cardinality(S), S)
    BY FS_CardinalityType DEF ExistsBijection
  <2>2. /\ f \in [1 .. Cardinality(S) -> Nat]
        /\ \A y \in S : \E i \in 1 .. Cardinality(S) : f[i] = y
    BY <2>1 DEF Bijection, Injection, Surjection
  <2>3. Cardinality(S) \in Nat
    BY FS_CardinalityType
  <2>4. PICK b \in Nat : \A i \in 1 .. Cardinality(S) : f[i] <= b
    BY <2>2, <2>3, ListBounded
  <2> QED
    BY <2>2, <2>4
<1>2. PICK m \in Bounds : \A b \in Bounds : m <= b
  BY <1>1, LeastNatural
<1>3. m \in S
  <2> SUFFICES ASSUME m \notin S PROVE FALSE
    OBVIOUS
  <2>1. \A y \in S : y <= m - 1
    OBVIOUS
  <2>2. PICK y \in S : TRUE
    OBVIOUS
  <2>3. m \in Nat /\ y \in Nat /\ y <= m - 1
    BY <2>1
  <2>4. m - 1 \in Nat
    BY <2>3
  <2> QED
    BY <1>2, <2>1, <2>4
<1> QED
  BY <1>3 DEF Max

(* Removing a position and inserting at one stay within the element type.    *)
LEMMA RemoveAtType ==
    ASSUME NEW T, NEW s \in Seq(T), NEW i \in 1 .. Len(s)
    PROVE  /\ RemoveAt(s, i) \in Seq(T)
           /\ Len(RemoveAt(s, i)) = Len(s) - 1
           /\ \A j \in 1 .. Len(s) - 1 :
                 RemoveAt(s, i)[j] = IF j < i THEN s[j] ELSE s[j + 1]
<1> DEFINE a == SubSeq(s, 1, i - 1)
           b == SubSeq(s, i + 1, Len(s))
<1>1. /\ a \in Seq(T) /\ Len(a) = i - 1
      /\ \A j \in 1 .. i - 1 : a[j] = s[j]
  BY SubSeqProperties, LenProperties
<1>2. /\ b \in Seq(T) /\ Len(b) = Len(s) - i
      /\ \A j \in 1 .. Len(s) - i : b[j] = s[i + j]
  BY SubSeqProperties, LenProperties
<1>3. /\ a \o b \in Seq(T) /\ Len(a \o b) = Len(a) + Len(b)
      /\ \A j \in 1 .. Len(a) + Len(b) :
            (a \o b)[j] = IF j <= Len(a) THEN a[j] ELSE b[j - Len(a)]
  BY <1>1, <1>2, ConcatProperties
<1>4. RemoveAt(s, i) = a \o b
  BY DEF RemoveAt
<1> HIDE DEF a, b
<1>5. Len(s) \in Nat /\ i \in Nat /\ i >= 1 /\ i <= Len(s)
  BY LenProperties
<1>6. Len(a \o b) = Len(s) - 1
  BY <1>1, <1>2, <1>3, <1>5
<1>7. ASSUME NEW j \in 1 .. Len(s) - 1
      PROVE  (a \o b)[j] = IF j < i THEN s[j] ELSE s[j + 1]
  <2>1. (a \o b)[j] = IF j <= i - 1 THEN a[j] ELSE b[j - (i - 1)]
    BY <1>1, <1>2, <1>3, <1>5
  <2>2. CASE j < i
    BY <1>1, <1>5, <2>1, <2>2
  <2>3. CASE ~ (j < i)
    <3>1. j - (i - 1) \in 1 .. Len(s) - i /\ i + (j - (i - 1)) = j + 1
      BY <1>5, <2>3
    <3> QED
      BY <1>2, <1>5, <2>1, <2>3, <3>1
  <2> QED
    BY <2>2, <2>3
<1> QED
  BY <1>3, <1>4, <1>6, <1>7

LEMMA InsertAtType ==
    ASSUME NEW T, NEW s \in Seq(T), NEW i \in 1 .. Len(s), NEW e \in T
    PROVE  /\ InsertAt(s, i, e) \in Seq(T)
           /\ Len(InsertAt(s, i, e)) = Len(s) + 1
           /\ \A j \in 1 .. Len(s) + 1 :
                 InsertAt(s, i, e)[j] = CASE j < i -> s[j]
                                          [] j = i -> e
                                          [] OTHER -> s[j - 1]
<1> DEFINE a == SubSeq(s, 1, i - 1)
           c == <<e>>
           b == SubSeq(s, i, Len(s))
<1>1. /\ a \in Seq(T) /\ Len(a) = i - 1
      /\ \A j \in 1 .. i - 1 : a[j] = s[j]
  BY SubSeqProperties, LenProperties
<1>2. /\ b \in Seq(T) /\ Len(b) = Len(s) - i + 1
      /\ \A j \in 1 .. Len(s) - i + 1 : b[j] = s[i + j - 1]
  BY SubSeqProperties, LenProperties
<1>3. c \in Seq(T) /\ Len(c) = 1 /\ c[1] = e
  OBVIOUS
<1>4. InsertAt(s, i, e) = a \o c \o b
  BY DEF InsertAt
<1> HIDE DEF a, b, c
<1>5. Len(s) \in Nat /\ i \in Nat /\ i >= 1 /\ i <= Len(s)
  BY LenProperties
<1>6. /\ a \o c \in Seq(T) /\ Len(a \o c) = Len(a) + Len(c)
      /\ \A j \in 1 .. Len(a) + Len(c) :
            (a \o c)[j] = IF j <= Len(a) THEN a[j] ELSE c[j - Len(a)]
  BY <1>1, <1>3, ConcatProperties
<1>7. Len(a) + Len(c) = i
  BY <1>1, <1>3, <1>5
<1>8. \A j \in 1 .. i : (a \o c)[j] = IF j < i THEN s[j] ELSE e
  <2> SUFFICES ASSUME NEW j \in 1 .. i
               PROVE  (a \o c)[j] = IF j < i THEN s[j] ELSE e
    OBVIOUS
  <2>1. (a \o c)[j] = IF j <= i - 1 THEN a[j] ELSE c[j - (i - 1)]
    BY <1>1, <1>6, <1>7
  <2>2. j \in Int
    BY <1>5
  <2>3. CASE j < i
    BY <1>1, <1>5, <2>1, <2>2, <2>3
  <2>4. CASE j = i
    BY <1>3, <1>5, <2>1, <2>4
  <2>5. j < i \/ j = i
    BY <1>5, <2>2
  <2> QED
    BY <2>3, <2>4, <2>5
<1> DEFINE d == a \o c
<1>9. /\ d \in Seq(T) /\ Len(d) = i
      /\ \A j \in 1 .. i : d[j] = IF j < i THEN s[j] ELSE e
  BY <1>6, <1>7, <1>8
<1>10. InsertAt(s, i, e) = d \o b
  BY <1>4
<1> HIDE DEF d
<1>11. /\ d \o b \in Seq(T) /\ Len(d \o b) = Len(d) + Len(b)
       /\ \A j \in 1 .. Len(d) + Len(b) :
             (d \o b)[j] = IF j <= Len(d) THEN d[j] ELSE b[j - Len(d)]
  BY <1>2, <1>9, ConcatProperties
<1>12. Len(d) + Len(b) = Len(s) + 1
  BY <1>2, <1>5, <1>9
<1>13. ASSUME NEW j \in 1 .. Len(s) + 1
       PROVE  (d \o b)[j] = CASE j < i -> s[j] [] j = i -> e [] OTHER -> s[j - 1]
  <2>1. (d \o b)[j] = IF j <= i THEN d[j] ELSE b[j - i]
    BY <1>9, <1>11, <1>12
  <2>2. j \in Int /\ 1 <= j /\ j <= Len(s) + 1
    BY <1>5
  <2>3. CASE j < i
    BY <1>5, <1>9, <2>1, <2>2, <2>3
  <2>4. CASE j = i
    BY <1>5, <1>9, <2>1, <2>2, <2>4
  <2>5. CASE j > i
    <3>1. j - i \in 1 .. Len(s) - i + 1 /\ i + (j - i) - 1 = j - 1
      BY <1>5, <2>2, <2>5
    <3>2. b[j - i] = s[j - 1]
      BY <1>2, <3>1
    <3> QED
      BY <1>5, <2>1, <2>2, <2>5, <3>2
  <2>6. j < i \/ j = i \/ j > i
    BY <1>5, <2>2
  <2> QED
    BY <2>3, <2>4, <2>5, <2>6
<1> QED
  BY <1>10, <1>11, <1>12, <1>13
=============================================================================
