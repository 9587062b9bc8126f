--------------------------- MODULE NodePoolProofs ---------------------------
(***************************************************************************)
(* Proofs about NodePool: for any number of nodes and addresses, the access*)
(* control list that a call leaves lets in whom it should, and the LB      *)
(* follows the nodes whenever the service controller has nothing to do.    *)
(***************************************************************************)
EXTENDS NodePool, FiniteSetTheorems, SequenceTheorems, TLAPS

-----------------------------------------------------------------------------
(***************************************************************************)
(* Finite sets of numbers, sorted lists, and lists in pieces.  Induction is*)
(* the choice of a least number.                                           *)
(***************************************************************************)

\* A set of natural numbers has a least element.
LEMMA LeastNatural ==
  ASSUME NEW T, T \subseteq Nat, T # {}
  PROVE  \E m \in T : \A k \in T : m <= k
<1>1. PICK m \in T : \A k \in T : ~ (<<k, m>> \in OpToRel(<, Nat))
  BY NatLessThanWellFounded, WFMin
<1>2. ASSUME NEW k \in T PROVE m <= k
  <2>1. k \in Nat /\ m \in Nat OBVIOUS
  <2>2. <<k, m>> \notin OpToRel(<, Nat) BY <1>1
  <2>3. ~(k < m) BY <2>1, <2>2 DEF OpToRel
  <2> QED BY <2>1, <2>3
<1> QED BY <1>2

\* Of finitely many positions of a list of numbers, one has the largest.
LEMMA LargestPosition ==
  ASSUME NEW n \in Nat, NEW s \in [1..n -> Int], NEW J, J \subseteq 1..n, J # {}
  PROVE  \E j \in J : \A i \in J : s[i] <= s[j]
<1> DEFINE Above(j) == {i \in J : s[i] > s[j]}
           T == {Cardinality(Above(j)) : j \in J}
<1>1. IsFiniteSet(1..n) BY FS_Interval
<1>2. ASSUME NEW j \in J PROVE IsFiniteSet(Above(j)) /\ Cardinality(Above(j)) \in Nat
  <2>1. Above(j) \subseteq 1..n OBVIOUS
  <2>2. IsFiniteSet(Above(j)) BY <1>1, <2>1, FS_Subset
  <2> QED BY <2>2, FS_CardinalityType
<1>3. T \subseteq Nat /\ T # {} BY <1>2
<1>4. PICK j \in J : \A i \in J : Cardinality(Above(j)) <= Cardinality(Above(i))
  <2>1. PICK m \in T : \A k \in T : m <= k
    <3> HIDE DEF T
    <3> QED BY <1>3, LeastNatural
  <2>2. PICK j \in J : m = Cardinality(Above(j)) OBVIOUS
  <2>3. \A i \in J : Cardinality(Above(j)) <= Cardinality(Above(i)) BY <2>1, <2>2
  <2> QED BY <2>3
<1>5. ASSUME NEW i \in J, s[i] > s[j] PROVE FALSE
  <2> HIDE DEF T
  <2>a. \A k \in J : s[k] \in Int OBVIOUS
  <2>b. Above(i) \subseteq Above(j)
    <3> SUFFICES ASSUME NEW k \in J, s[k] > s[i] PROVE s[k] > s[j] OBVIOUS
    <3> QED BY <2>a, <1>5
  <2>1. Above(i) \subseteq Above(j) /\ i \in Above(j) /\ i \notin Above(i)
    BY <1>5, <2>a, <2>b
  <2>2. Cardinality(Above(i)) <= Cardinality(Above(j)) BY <2>1, <1>2, FS_Subset
  <2>3. Cardinality(Above(i)) # Cardinality(Above(j))
    <3> HIDE DEF Above
    <3> QED BY <2>1, <1>2, FS_Subset
  <2>4. Cardinality(Above(j)) <= Cardinality(Above(i)) BY <1>4
  <2> HIDE DEF Above
  <2> QED BY <2>2, <2>3, <2>4, <1>2
<1> QED BY <1>5

\* A set with one element more is larger.
LEMMA StrictSubset ==
  ASSUME NEW S, IsFiniteSet(S), NEW T, T \subseteq S, NEW x \in S, x \notin T
  PROVE  Cardinality(T) < Cardinality(S)
<1>1. IsFiniteSet(T) /\ Cardinality(T) <= Cardinality(S) /\ Cardinality(T) # Cardinality(S)
  BY FS_Subset
<1>2. Cardinality(T) \in Nat /\ Cardinality(S) \in Nat BY <1>1, FS_CardinalityType
<1> QED BY <1>1, <1>2

\* Positions of a list whose elements are smaller than x, or not larger.
Below(s, x)  == {i \in DOMAIN s : s[i] < x}
UpTo(s, x)   == {i \in DOMAIN s : s[i] <= x}

LEMMA PositionsFinite ==
  ASSUME NEW n \in Nat, NEW s \in [1..n -> Int], NEW x \in Int
  PROVE  /\ IsFiniteSet(Below(s, x)) /\ Cardinality(Below(s, x)) \in Nat
         /\ IsFiniteSet(UpTo(s, x)) /\ Cardinality(UpTo(s, x)) \in 0..n
         /\ Below(s, x) \subseteq UpTo(s, x) /\ UpTo(s, x) \subseteq 1..n
<1>1. IsFiniteSet(1..n) /\ Cardinality(1..n) = n BY FS_Interval
<1>2. UpTo(s, x) \subseteq 1..n BY DEF UpTo
<1>3. Below(s, x) \subseteq UpTo(s, x)
  <2>1. ASSUME NEW i \in DOMAIN s, s[i] < x PROVE s[i] <= x
    <3>1. s[i] \in Int OBVIOUS
    <3> QED BY <3>1, <2>1
  <2> QED BY <2>1 DEF Below, UpTo
<1>4. IsFiniteSet(UpTo(s, x)) /\ Cardinality(UpTo(s, x)) <= n BY <1>1, <1>2, FS_Subset
<1>5. IsFiniteSet(Below(s, x)) BY <1>3, <1>4, FS_Subset
<1>6. Cardinality(UpTo(s, x)) \in Nat /\ Cardinality(Below(s, x)) \in Nat
  BY <1>4, <1>5, FS_CardinalityType
<1> QED BY <1>2, <1>3, <1>4, <1>5, <1>6

\* The k-th smallest element exists.
LEMMA RankExists ==
  ASSUME NEW n \in Nat, NEW s \in [1..n -> Int], NEW k \in 1..n
  PROVE  \E x \in Range(s) : Cardinality(Below(s, x)) < k /\ k <= Cardinality(UpTo(s, x))
<1> DEFINE C == {x \in Range(s) : k <= Cardinality(UpTo(s, x))}
           T == {Cardinality(UpTo(s, x)) : x \in C}
<1>1. Range(s) \subseteq Int BY DEF Range
<1>2. C # {}
  <2>1. PICK j \in 1..n : \A i \in 1..n : s[i] <= s[j] BY LargestPosition
  <2>2. UpTo(s, s[j]) = 1..n BY <2>1 DEF UpTo
  <2>3. Cardinality(UpTo(s, s[j])) = n BY <2>2, FS_Interval
  <2>4. s[j] \in C BY <2>3 DEF Range
  <2> QED BY <2>4
<1>3. T \subseteq Nat /\ T # {}
  <2>1. ASSUME NEW x \in C PROVE Cardinality(UpTo(s, x)) \in Nat
    BY <1>1, PositionsFinite
  <2> QED BY <1>2, <2>1
<1>4. PICK x \in C : \A y \in C : Cardinality(UpTo(s, x)) <= Cardinality(UpTo(s, y))
  <2>1. PICK m \in T : \A t \in T : m <= t
    <3> HIDE DEF T
    <3> QED BY <1>3, LeastNatural
  <2>2. PICK x \in C : m = Cardinality(UpTo(s, x)) OBVIOUS
  <2>3. \A y \in C : Cardinality(UpTo(s, x)) <= Cardinality(UpTo(s, y)) BY <2>1, <2>2
  <2> QED BY <2>3
<1> HIDE DEF T
<1>5. x \in Int /\ Cardinality(Below(s, x)) \in Nat BY <1>1, PositionsFinite
<1>6. Cardinality(Below(s, x)) < k
  <2>1. CASE Below(s, x) = {}
    <3>1. Cardinality(Below(s, x)) = 0 BY <2>1, FS_EmptySet
    <3> QED BY <3>1
  <2>2. CASE Below(s, x) # {}
    <3>1. Below(s, x) \subseteq 1..n BY <1>5, PositionsFinite
    <3>2. PICK j \in Below(s, x) : \A i \in Below(s, x) : s[i] <= s[j]
      BY <2>2, <3>1, LargestPosition
    <3>3. s[j] \in Range(s) /\ s[j] \in Int /\ s[j] < x BY <3>1 DEF Below, Range
    <3>4. UpTo(s, s[j]) = Below(s, x)
      <4>1. ASSUME NEW i \in 1..n, s[i] <= s[j] PROVE s[i] < x
        <5>1. s[i] \in Int OBVIOUS
        <5> QED BY <5>1, <4>1, <3>3, <1>5
      <4>2. UpTo(s, s[j]) \subseteq Below(s, x) BY <4>1 DEF UpTo, Below
      <4>3. Below(s, x) \subseteq UpTo(s, s[j]) BY <3>1, <3>2 DEF UpTo
      <4> QED BY <4>2, <4>3
    <3>5. PICK i \in DOMAIN s : s[i] = x BY DEF Range
    <3>6. i \in UpTo(s, x) /\ i \notin Below(s, x) BY <3>5, <1>5 DEF UpTo, Below
    <3>7. Cardinality(Below(s, x)) < Cardinality(UpTo(s, x))
      <4>1. IsFiniteSet(UpTo(s, x)) /\ Below(s, x) \subseteq UpTo(s, x)
        BY <1>5, PositionsFinite
      <4> QED BY <3>6, <4>1, StrictSubset
    <3>8. ~(Cardinality(UpTo(s, x)) <= Cardinality(UpTo(s, s[j])))
      <4> DEFINE b == Cardinality(Below(s, x))
                 u == Cardinality(UpTo(s, x))
      <4>1. b \in Nat /\ u \in Nat /\ b < u BY <3>7, <1>5, PositionsFinite
      <4>2. Cardinality(UpTo(s, s[j])) = b BY <3>4
      <4> HIDE DEF b, u
      <4>3. ~(u <= b) BY <4>1
      <4> QED BY <4>2, <4>3 DEF u
    <3>9. s[j] \notin C BY <3>8, <1>4
    <3>10. ~(k <= Cardinality(Below(s, x))) BY <3>9, <3>3, <3>4
    <3> QED BY <3>10, <1>5
  <2> QED BY <2>1, <2>2
<1> QED BY <1>6

\* Sorting a list changes neither its length nor the set of its elements.
LEMMA SortedRange ==
  ASSUME NEW s \in Seq(Int)
  PROVE  /\ Sorted[s] \in Seq(Range(s))
         /\ Len(Sorted[s]) = Len(s)
         /\ Range(Sorted[s]) = Range(s)
<1> DEFINE n == Len(s)
           Is(x, k) == Cardinality(Below(s, x)) < k /\ k <= Cardinality(UpTo(s, x))
<1>1. n \in Nat /\ s \in [1..n -> Int] /\ DOMAIN s = 1..n BY LenProperties
<1>2. Sorted[s] = [k \in 1..n |-> CHOOSE x \in Range(s) : Is(x, k)]
  BY <1>1 DEF Sorted, Below, UpTo
<1>3. \A k \in 1..n : \E x \in Range(s) : Is(x, k) BY <1>1, RankExists
<1>4. Range(s) \subseteq Int BY <1>1 DEF Range
<1>5. ASSUME NEW k \in 1..n
      PROVE  Sorted[s][k] \in Range(s) /\ Is(Sorted[s][k], k)
  <2>1. Sorted[s][k] = CHOOSE x \in Range(s) : Is(x, k) BY <1>2
  <2> HIDE DEF Is
  <2> QED BY <2>1, <1>3
<1>6. Sorted[s] \in [1..n -> Range(s)] BY <1>2, <1>5
<1>7. Sorted[s] \in Seq(Range(s)) /\ Len(Sorted[s]) = n /\ DOMAIN Sorted[s] = 1..n
  <2>1. \A S : \A f \in [1..n -> S] : f \in Seq(S) /\ Len(f) = n /\ DOMAIN f = 1..n
    BY <1>1
  <2> HIDE DEF n
  <2> QED BY <1>6, <2>1
<1>8. ASSUME NEW x \in Range(s) PROVE x \in Range(Sorted[s])
  <2> DEFINE k == Cardinality(Below(s, x)) + 1
  <2>1. x \in Int BY <1>4
  <2>2. Cardinality(Below(s, x)) < Cardinality(UpTo(s, x))
    <3>1. PICK i \in DOMAIN s : s[i] = x BY DEF Range
    <3>2. i \in UpTo(s, x) /\ i \notin Below(s, x) BY <3>1, <2>1 DEF UpTo, Below
    <3>3. IsFiniteSet(UpTo(s, x)) /\ Below(s, x) \subseteq UpTo(s, x)
      BY <2>1, <1>1, PositionsFinite
    <3> QED BY <3>2, <3>3, StrictSubset
  <2>a. /\ Cardinality(Below(s, x)) \in Nat /\ Cardinality(UpTo(s, x)) \in 0..n
        /\ \A y \in Int : /\ Cardinality(Below(s, y)) \in Nat
                          /\ Cardinality(UpTo(s, y)) \in 0..n
    BY <2>1, <1>1, PositionsFinite
  <2>3. k \in 1..n
    <3>1. \A a \in Nat, m \in Nat : \A b \in 0..m : a < b => a + 1 \in 1..m OBVIOUS
    <3> HIDE DEF n
    <3> QED BY <3>1, <2>a, <2>2, <1>1
  <2>4. PICK y \in Range(s) : y = Sorted[s][k] BY <2>3, <1>5
  <2>5. Is(y, k) /\ y \in Int BY <2>3, <2>4, <1>5, <1>4
  <2>6. ~(y < x)
    <3> SUFFICES ASSUME y < x PROVE FALSE OBVIOUS
    <3>1. UpTo(s, y) \subseteq Below(s, x)
      <4>1. ASSUME NEW i \in 1..n, s[i] <= y PROVE s[i] < x
        BY <4>1, <2>1, <2>5, <1>1
      <4> QED BY <4>1, <1>1 DEF UpTo, Below
    <3>2. Cardinality(UpTo(s, y)) <= Cardinality(Below(s, x))
      BY <3>1, <2>1, <1>1, PositionsFinite, FS_Subset
    <3>3. \A a, b \in Nat : b <= a => ~(a + 1 <= b) OBVIOUS
    <3>4. Cardinality(UpTo(s, y)) \in Nat BY <2>5, <1>1, <2>a
    <3> QED BY <3>2, <3>3, <3>4, <2>5, <2>a
  <2>7. ~(x < y)
    <3> SUFFICES ASSUME x < y PROVE FALSE OBVIOUS
    <3>1. UpTo(s, x) \subseteq Below(s, y)
      <4>1. ASSUME NEW i \in 1..n, s[i] <= x PROVE s[i] < y
        BY <4>1, <2>1, <2>5, <1>1
      <4> QED BY <4>1, <1>1 DEF UpTo, Below
    <3>2. Cardinality(UpTo(s, x)) <= Cardinality(Below(s, y))
      BY <3>1, <2>1, <2>5, <1>1, PositionsFinite, FS_Subset
    <3>3. \A a, b, c \in Nat : ~(a < b /\ b <= c /\ c < a + 1) OBVIOUS
    <3>4. /\ Cardinality(Below(s, x)) \in Nat /\ Cardinality(UpTo(s, x)) \in Nat
          /\ Cardinality(Below(s, y)) \in Nat
      BY <2>5, <1>1, <2>a
    <3>5. Cardinality(Below(s, y)) < k BY <2>5
    <3> HIDE DEF Is, n
    <3> QED BY <3>2, <3>3, <3>4, <3>5, <2>2
  <2>8. y = x BY <2>1, <2>5, <2>6, <2>7
  <2> QED BY <2>8, <2>4, <2>3, <1>7 DEF Range
<1>9. Range(Sorted[s]) \subseteq Range(s) BY <1>7, <1>5 DEF Range
<1> QED BY <1>7, <1>8, <1>9

\* A set in some order.
LEMMA ListOfSet ==
  ASSUME NEW S, IsFiniteSet(S)
  PROVE  SetToSeq(S) \in Seq(S) /\ Range(SetToSeq(S)) = S
<1> DEFINE c == Cardinality(S)
           f == SetToSeq(S)
<1>1. c \in Nat /\ ExistsBijection(1..c, S) BY FS_CardinalityType
<1>2. \E g \in [1..c -> S] : IsInjective(g)
  BY <1>1 DEF ExistsBijection, Bijection, Injection, IsInjective
<1>3. f \in [1..c -> S] /\ IsInjective(f)
  BY <1>2 DEF SetToSeq
<1>4. f \in Injection(1..c, S) BY <1>3 DEF Injection, IsInjective
<1>5. Cardinality(1..c) = c BY <1>1, FS_Interval
<1>6. f \in Surjection(1..c, S) BY <1>4, <1>5, FS_Injection
<1>7. f \in Seq(S) BY <1>1, <1>3
<1>8. Range(f) = S BY <1>6 DEF Surjection, Range
<1> QED BY <1>7, <1>8

\* Division.
LEMMA Quotient ==
  ASSUME NEW a \in Nat, NEW b \in Nat \ {0}
  PROVE  /\ a \div b \in Nat
         /\ (a \div b) * b <= a /\ a < (a \div b) * b + b
  OBVIOUS

\* The pieces of a list have its elements, no more and no less.
LEMMA ChunksCover ==
  ASSUME NEW S, NEW s \in Seq(S), NEW size \in Nat \ {0}
  PROVE  /\ chunkArray(s, size) \in Seq(Seq(S))
         /\ \A i \in DOMAIN chunkArray(s, size) : Range(chunkArray(s, size)[i]) \subseteq Range(s)
         /\ \A x \in Range(s) : \E i \in DOMAIN chunkArray(s, size) :
              x \in Range(chunkArray(s, size)[i])
<1> DEFINE len == Len(s)
           count == (len + size - 1) \div size
           first(i) == (i - 1) * size + 1
           last(i)  == IF i * size < len THEN i * size ELSE len
           chunk(i) == SubSeq(s, first(i), last(i))
           chunks   == chunkArray(s, size)
<1>1. len \in Nat /\ DOMAIN s = 1..len /\ s \in [1..len -> S] BY LenProperties
<1>2. chunks = [i \in 1..count |-> chunk(i)] BY DEF chunkArray
<1>3. count \in Nat /\ count * size <= len + size - 1 /\ len + size - 1 < count * size + size
  BY <1>1, Quotient
<1>4. ASSUME NEW i \in 1..count
      PROVE  /\ first(i) \in 1..len /\ last(i) \in 1..len /\ first(i) <= last(i)
  <2>1. i * size <= count * size BY <1>3
  <2>2. (i - 1) * size = i * size - size BY <1>3
  <2>3. i * size \in Nat /\ i * size >= size BY <1>3
  <2> QED BY <1>1, <1>3, <2>1, <2>2, <2>3
<1>5. ASSUME NEW i \in 1..count
      PROVE  /\ chunk(i) \in Seq(S)
             /\ DOMAIN chunk(i) = 1..(last(i) - first(i) + 1)
             /\ \A j \in 1..(last(i) - first(i) + 1) : chunk(i)[j] = s[first(i) + j - 1]
  <2> HIDE DEF first, last
  <2>1. first(i) \in 1..len /\ last(i) \in 1..len /\ first(i) <= last(i) BY <1>4
  <2>2. \A k \in first(i)..last(i) : s[k] \in S BY <2>1, <1>1
  <2>3. /\ chunk(i) \in Seq(S)
        /\ Len(chunk(i)) = last(i) - first(i) + 1
        /\ \A j \in 1..(last(i) - first(i) + 1) : chunk(i)[j] = s[first(i) + j - 1]
    <3> DEFINE a == first(i)
               b == last(i)
    <3>1. a \in Int /\ b \in Int /\ a <= b BY <2>1
    <3>2. \A k \in a..b : s[k] \in S BY <2>2
    <3>3. chunk(i) = SubSeq(s, a, b) OBVIOUS
    <3> HIDE DEF a, b, chunk
    <3>4. /\ chunk(i) \in Seq(S)
          /\ Len(chunk(i)) = b - a + 1
          /\ \A j \in 1..(b - a + 1) : chunk(i)[j] = s[a + j - 1]
      BY <3>1, <3>2, <3>3, SubSeqProperties
    <3> QED BY <3>4 DEF a, b
  <2> QED BY <2>3, LenProperties
<1>6. chunks \in Seq(Seq(S)) /\ DOMAIN chunks = 1..count
  <2> HIDE DEF chunk, chunks, count
  <2>1. chunks \in [1..count -> Seq(S)] BY <1>2, <1>5
  <2> QED BY <2>1, <1>3
<1>7. ASSUME NEW i \in 1..count PROVE Range(chunks[i]) \subseteq Range(s)
  <2> HIDE DEF chunk, first, last, chunks
  <2>1. chunks[i] = chunk(i) BY <1>2
  <2>2. ASSUME NEW j \in DOMAIN chunk(i) PROVE chunk(i)[j] \in Range(s)
    <3>1. j \in 1..(last(i) - first(i) + 1) BY <1>5
    <3>2. first(i) + j - 1 \in 1..len BY <3>1, <1>4, <1>1
    <3> QED BY <3>1, <3>2, <1>5, <1>1 DEF Range
  <2> QED BY <2>1, <2>2 DEF Range
<1>8. ASSUME NEW x \in Range(s) PROVE \E i \in 1..count : x \in Range(chunks[i])
  <2>1. PICK k \in 1..len : x = s[k] BY <1>1 DEF Range
  <2> DEFINE q == (k - 1) \div size
             i == q + 1
             j == k - first(i) + 1
  <2>2. q \in Nat /\ q * size <= k - 1 /\ k - 1 < q * size + size BY <1>1, Quotient
  <2>3. i \in 1..count
    <3> HIDE DEF q, count
    <3>1. SUFFICES ASSUME count <= q PROVE FALSE BY <2>2, <1>3
    <3>2. count * size <= q * size BY <3>1, <2>2, <1>3
    <3> QED BY <3>2, <2>2, <1>3, <1>1
  <2>4. first(i) <= k /\ k <= last(i) /\ first(i) \in 1..len
    <3> HIDE DEF q, count
    <3>1. (q + 1) * size = q * size + size /\ q * size \in Nat BY <2>2
    <3>2. i - 1 = q BY <2>2
    <3> QED BY <3>1, <3>2, <2>2, <1>1
  <2> HIDE DEF q, i, first, last, chunk, chunks, count
  <2>5. j \in 1..(last(i) - first(i) + 1) /\ first(i) + j - 1 = k
    BY <2>3, <2>4, <1>4, <1>1
  <2>6. chunk(i)[j] = x BY <2>5, <2>3, <1>5, <2>1
  <2>7. j \in DOMAIN chunk(i) BY <2>5, <2>3, <1>5
  <2>8. chunks[i] = chunk(i) BY <2>3, <1>2
  <2> QED BY <2>3, <2>6, <2>7, <2>8 DEF Range
<1> QED BY <1>6, <1>7, <1>8

-----------------------------------------------------------------------------
(***************************************************************************)
(* The access control list that a call wants, and what it lets in.         *)
(***************************************************************************)

\* A list of nodes, as a call takes it.
NodeLists == UNION {[D -> Node] : D \in SUBSET NodeNames}

\* Lists of addresses are lists of numbers.
LEMMA WiderLists ==
  ASSUME NEW S, NEW T, S \subseteq T
  PROVE  Seq(S) \subseteq Seq(T)
<1> SUFFICES ASSUME NEW s \in Seq(S) PROVE s \in Seq(T) OBVIOUS
<1>1. Len(s) \in Nat /\ s \in [1..Len(s) -> S] BY LenProperties
<1>2. s \in [1..Len(s) -> T] BY <1>1
<1> QED BY <1>1, <1>2

\* The addresses of nodes are addresses.
LEMMA AddressesOfNodes ==
  ASSUME NEW list \in NodeLists, NEW type
  PROVE  AllIPs(list, type) \subseteq IPs /\ IsFiniteSet(AllIPs(list, type))
<1>1. ASSUME NEW n \in DOMAIN list PROVE IPsOf(list[n], type) \subseteq IPs
  <2>1. list[n].addrs \subseteq Address BY DEF NodeLists, Node
  <2> QED BY <2>1 DEF IPsOf, Address
<1>2. AllIPs(list, type) \subseteq IPs BY <1>1 DEF AllIPs
<1> QED BY <1>2, NodePoolAssumption, FS_Subset

\* The whitelist of makeACLSpecs: every address of the nodes and every source
\* range that is one, and nothing else.
Whitelisted(list, r) ==
  AllIPs(list, "InternalIP") \cup AllIPs(list, "ExternalIP") \cup (r \ {InvalidCIDR})

LEMMA WhitelistExact ==
  ASSUME NEW list \in NodeLists, NEW r \in SUBSET (IPs \cup {InvalidCIDR})
  PROVE  /\ whitelist(list, r) \in Seq(IPs)
         /\ Range(whitelist(list, r)) = Whitelisted(list, r)
         /\ Whitelisted(list, r) \subseteq IPs
<1> DEFINE A == AllIPs(list, "InternalIP")
           B == AllIPs(list, "ExternalIP")
           C == r \ {InvalidCIDR}
           all == SetToSeq(A) \o SetToSeq(B) \o SetToSeq(C)
<1>1. A \subseteq IPs /\ IsFiniteSet(A) /\ B \subseteq IPs /\ IsFiniteSet(B)
  BY AddressesOfNodes
<1>2. C \subseteq IPs /\ IsFiniteSet(C)
  <2>1. C \subseteq IPs OBVIOUS
  <2> QED BY <2>1, NodePoolAssumption, FS_Subset
<1> HIDE DEF A, B, C
<1>3. ASSUME NEW S \in {A, B, C}
      PROVE  SetToSeq(S) \in Seq(IPs) /\ Range(SetToSeq(S)) = S
  <2>1. SetToSeq(S) \in Seq(S) /\ Range(SetToSeq(S)) = S BY <1>1, <1>2, ListOfSet
  <2>2. Seq(S) \subseteq Seq(IPs) BY <1>1, <1>2
  <2> QED BY <2>1, <2>2
<1>4. all \in Seq(IPs) /\ Range(all) = A \cup B \cup C
  <2>1. /\ SetToSeq(A) \in Seq(IPs) /\ SetToSeq(B) \in Seq(IPs) /\ SetToSeq(C) \in Seq(IPs)
        /\ Range(SetToSeq(A)) = A /\ Range(SetToSeq(B)) = B /\ Range(SetToSeq(C)) = C
    BY <1>3
  <2>2. SetToSeq(A) \o SetToSeq(B) \in Seq(IPs) BY <2>1, ConcatProperties
  <2>3. Range(SetToSeq(A) \o SetToSeq(B)) = A \cup B BY <2>1, RangeConcatenation
  <2>4. all \in Seq(IPs) BY <2>1, <2>2, ConcatProperties
  <2>5. Range(all) = A \cup B \cup C
    <3> DEFINE ab == SetToSeq(A) \o SetToSeq(B)
    <3> HIDE DEF ab
    <3>1. ab \in Seq(IPs) /\ Range(ab) = A \cup B BY <2>2, <2>3 DEF ab
    <3>2. Range(ab \o SetToSeq(C)) = Range(ab) \cup Range(SetToSeq(C))
      BY <2>1, <3>1, RangeConcatenation
    <3> QED BY <2>1, <3>1, <3>2 DEF ab
  <2> QED BY <2>4, <2>5
<1>5. all \in Seq(Int)
  <2>1. Seq(IPs) \subseteq Seq(Int) BY NodeLifeAssumption, WiderLists
  <2> QED BY <2>1, <1>4
<1>6. Sorted[all] \in Seq(Range(all)) /\ Range(Sorted[all]) = Range(all)
  BY <1>5, SortedRange
<1>7. Range(all) \subseteq IPs BY <1>1, <1>2, <1>4
<1>8. whitelist(list, r) = Sorted[all] BY DEF whitelist, A, B, C
<1>9. Seq(Range(all)) \subseteq Seq(IPs) BY <1>7
<1> QED BY <1>4, <1>6, <1>7, <1>8, <1>9 DEF Whitelisted, A, B, C

\* Rules that let in the addresses of W and refuse everyone else.
LetsIn(rules, W) ==
  /\ rules \in Seq(Rule) /\ Len(rules) >= 1
  /\ rules[Len(rules)] = Deny(<<Everyone>>)
  /\ \A i \in 1..(Len(rules) - 1) :
       /\ rules[i].action = "allow"
       /\ rules[i].entries \in Seq(IPs)
       /\ Range(rules[i].entries) \subseteq W
  /\ \A x \in W : \E i \in 1..(Len(rules) - 1) : x \in Range(rules[i].entries)

LEMMA SpecsExact ==
  ASSUME NEW list \in NodeLists, NEW r \in SUBSET (IPs \cup {InvalidCIDR})
  PROVE  /\ makeACLSpecs(list, r) \in Seq(Rule)
         /\ r = {} => makeACLSpecs(list, r) = <<>>
         /\ r # {} => LetsIn(makeACLSpecs(list, r), Whitelisted(list, r))
<1>1. CASE r = {}
  <2>1. makeACLSpecs(list, r) = <<>> BY <1>1 DEF makeACLSpecs
  <2>2. makeACLSpecs(list, r) \in Seq(Rule) BY <2>1
  <2> QED BY <1>1, <2>1, <2>2
<1>2. CASE r # {}
  <2> DEFINE chunks == chunkArray(whitelist(list, r), MaxEntriesPerACL)
             allows == [i \in DOMAIN chunks |-> Allow(chunks[i])]
             deny   == Deny(<<Everyone>>)
             specs  == Append(allows, deny)
  <2>1. /\ whitelist(list, r) \in Seq(IPs)
        /\ Range(whitelist(list, r)) = Whitelisted(list, r)
    BY WhitelistExact
  <2>2. MaxEntriesPerACL \in Nat \ {0} BY NodePoolAssumption
  <2>3. /\ chunks \in Seq(Seq(IPs))
        /\ \A i \in DOMAIN chunks : Range(chunks[i]) \subseteq Whitelisted(list, r)
        /\ \A x \in Whitelisted(list, r) : \E i \in DOMAIN chunks : x \in Range(chunks[i])
    <3> DEFINE white == whitelist(list, r)
               size  == MaxEntriesPerACL
    <3> HIDE DEF white, size
    <3>1. white \in Seq(IPs) /\ Range(white) = Whitelisted(list, r) BY <2>1 DEF white
    <3>2. size \in Nat \ {0} BY <2>2 DEF size
    <3>3. chunks = chunkArray(white, size) BY DEF white, size
    <3>4. /\ chunkArray(white, size) \in Seq(Seq(IPs))
          /\ \A i \in DOMAIN chunkArray(white, size) :
               Range(chunkArray(white, size)[i]) \subseteq Range(white)
          /\ \A x \in Range(white) : \E i \in DOMAIN chunkArray(white, size) :
               x \in Range(chunkArray(white, size)[i])
      BY <3>1, <3>2, ChunksCover
    <3> QED BY <3>1, <3>3, <3>4
  <2> HIDE DEF chunks
  <2>4. DOMAIN chunks = 1..Len(chunks) /\ Len(chunks) \in Nat
        /\ \A i \in DOMAIN chunks : chunks[i] \in Seq(IPs)
    BY <2>3
  <2>5. \A e \in Seq(IPs) : Allow(e) \in Rule
    <3>1. Seq(IPs) \subseteq Seq(IPs \cup {Everyone}) OBVIOUS
    <3> QED BY <3>1 DEF Allow, Rule
  <2>6. deny \in Rule BY DEF Deny, Rule
  <2>7. allows \in Seq(Rule) /\ Len(allows) = Len(chunks) BY <2>4, <2>5
  <2> HIDE DEF deny
  <2>8. /\ specs \in Seq(Rule) /\ Len(specs) = Len(chunks) + 1
        /\ \A i \in 1..Len(chunks) : specs[i] = allows[i]
        /\ specs[Len(chunks) + 1] = deny
    <3> HIDE DEF allows
    <3> QED BY <2>6, <2>7, AppendProperties
  <2>9. \A i \in 1..Len(chunks) : specs[i] = Allow(chunks[i])
    BY <2>8, <2>4
  <2> HIDE DEF specs, allows
  <2>10. \A i \in 1..Len(chunks) : specs[i].action = "allow" /\ specs[i].entries = chunks[i]
    <3>1. \A e : Allow(e).action = "allow" /\ Allow(e).entries = e BY DEF Allow
    <3> QED BY <2>9, <3>1
  <2>11. makeACLSpecs(list, r) = specs BY <1>2 DEF makeACLSpecs, specs, allows, chunks, deny
  <2>12. Len(specs) - 1 = Len(chunks) /\ Len(specs) >= 1 BY <2>4, <2>8
  <2>13. LetsIn(specs, Whitelisted(list, r))
    BY <2>3, <2>4, <2>8, <2>10, <2>12 DEF LetsIn, deny
  <2> QED BY <1>2, <2>8, <2>11, <2>13
<1> QED BY <1>1, <1>2

\* The rules of a frontend of the CCM: only a deny rule names everyone.
AllowsAddresses(rules) ==
  \A i \in DOMAIN rules : rules[i].action = "allow" => rules[i].entries \in Seq(IPs)

\* Rules that aclsEquals finds equal to the wanted ones let in the same.
LEMMA EqualRules ==
  ASSUME NEW got \in Seq(Rule), AllowsAddresses(got),
         NEW wanted, NEW W, LetsIn(wanted, W), aclsEquals(got, wanted)
  PROVE  LetsIn(got, W)
<1>1. /\ Len(got) = Len(wanted) /\ Len(got) \in Nat /\ Len(got) >= 1
      /\ DOMAIN wanted = 1..Len(got) /\ DOMAIN got = 1..Len(got)
  BY DEF aclsEquals, LetsIn
<1>2. ASSUME NEW i \in 1..(Len(got) - 1)
      PROVE  /\ got[i].action = "allow" /\ got[i].entries \in Seq(IPs)
             /\ Range(got[i].entries) = Range(wanted[i].entries)
  <2>1. i \in DOMAIN wanted /\ i \in DOMAIN got BY <1>1
  <2>2. wanted[i].action = "allow" /\ wanted[i].entries \in Seq(IPs)
    BY <1>1 DEF LetsIn
  <2>3. got[i].action = "allow" BY <2>1, <2>2 DEF aclsEquals
  <2>4. got[i].entries \in Seq(IPs) BY <2>1, <2>3 DEF AllowsAddresses
  <2>5. CASE got[i].entries = wanted[i].entries BY <2>5, <2>3, <2>4
  <2>6. CASE Sorted[got[i].entries] = Sorted[wanted[i].entries]
    <3>1. Seq(IPs) \subseteq Seq(Int) BY NodeLifeAssumption, WiderLists
    <3>2. Range(Sorted[got[i].entries]) = Range(got[i].entries)
      BY <3>1, <2>4, SortedRange
    <3>3. Range(Sorted[wanted[i].entries]) = Range(wanted[i].entries)
      BY <3>1, <2>2, SortedRange
    <3> QED BY <3>2, <3>3, <2>6, <2>3, <2>4
  <2> QED BY <2>1, <2>5, <2>6 DEF aclsEquals
<1>3. got[Len(got)] = Deny(<<Everyone>>)
  <2> DEFINE k == Len(got)
  <2>1. k \in DOMAIN wanted /\ k \in DOMAIN got BY <1>1
  <2>2. wanted[k] = Deny(<<Everyone>>) BY <1>1 DEF LetsIn
  <2>3. wanted[k].action = "deny" /\ wanted[k].entries = <<Everyone>> BY <2>2 DEF Deny
  <2>4. got[k].action = "deny" /\ got[k].entries = <<Everyone>>
    BY <2>1, <2>3 DEF aclsEquals
  <2>5. got[k] \in Rule BY <2>1
  <2>6. got[k] = [action |-> got[k].action, entries |-> got[k].entries]
    BY <2>5 DEF Rule
  <2> QED BY <2>4, <2>6 DEF Deny
<1> QED BY <1>1, <1>2, <1>3 DEF LetsIn

\* Whom such rules admit.
LEMMA AdmittedExactly ==
  ASSUME NEW W \in SUBSET IPs, LetsIn(acls, W), NEW ip \in IPs
  PROVE  Admitted(ip) <=> ip \in W
<1>1. Len(acls) \in Nat /\ Len(acls) >= 1 /\ DOMAIN acls = 1..Len(acls)
  BY DEF LetsIn
<1>2. Everyone \notin IPs BY NodePoolAssumption
<1>3. ASSUME NEW i \in 1..(Len(acls) - 1)
      PROVE  /\ i \in DOMAIN acls /\ acls[i].action = "allow"
             /\ Matches(acls[i], ip) <=> ip \in Range(acls[i].entries)
             /\ Range(acls[i].entries) \subseteq W
  <2>1. acls[i].entries \in Seq(IPs) /\ acls[i].action = "allow"
        /\ Range(acls[i].entries) \subseteq W
    BY DEF LetsIn
  <2>2. \A k \in DOMAIN acls[i].entries : acls[i].entries[k] \in IPs BY <2>1
  <2> QED BY <1>1, <1>2, <2>1, <2>2 DEF Matches, Range
<1>4. acls[Len(acls)].action = "deny" /\ Matches(acls[Len(acls)], ip)
  <2>1. /\ acls[Len(acls)].action = "deny"
        /\ acls[Len(acls)].entries = <<Everyone>>
    BY DEF LetsIn, Deny
  <2>2. 1 \in DOMAIN <<Everyone>> /\ <<Everyone>>[1] = Everyone OBVIOUS
  <2> QED BY <2>1, <2>2 DEF Matches
<1>5. ASSUME Admitted(ip) PROVE ip \in W
  <2>1. PICK i \in DOMAIN acls : acls[i].action = "allow" /\ Matches(acls[i], ip)
    BY <1>1, <1>4, <1>5 DEF Admitted
  <2>2. i # Len(acls) BY <2>1, <1>4
  <2>3. i \in 1..(Len(acls) - 1) BY <2>2, <1>1
  <2> QED BY <2>1, <2>3, <1>3
<1>6. ASSUME ip \in W PROVE Admitted(ip)
  <2> DEFINE M == {i \in 1..(Len(acls) - 1) : Matches(acls[i], ip)}
  <2>1. \E i \in 1..(Len(acls) - 1) : ip \in Range(acls[i].entries)
    BY <1>6 DEF LetsIn
  <2>2. M # {} /\ M \subseteq Nat BY <2>1, <1>3, <1>1
  <2>3. PICK m \in M : \A k \in M : m <= k
    <3> HIDE DEF M
    <3> QED BY <2>2, LeastNatural
  <2>4. \A j \in 1..(m - 1) : ~Matches(acls[j], ip)
    <3> SUFFICES ASSUME NEW j \in 1..(m - 1), Matches(acls[j], ip) PROVE FALSE OBVIOUS
    <3>1. j \in M BY <1>1
    <3> QED BY <3>1, <2>3
  <2> QED BY <2>3, <2>4, <1>3 DEF Admitted
<1> QED BY <1>5, <1>6

-----------------------------------------------------------------------------
(***************************************************************************)
(* Type correctness, and a list that says what its call wants.             *)
(***************************************************************************)
Calls == [pc : {"servers", "acls", "done"}, list : NodeLists, s : Services]

\* The records that stand for "none" are not among the others.
LEMMA NoPoolRecord == NoNode \notin Node /\ NoSync \notin Calls
<1>1. NoNode \notin Node
  <2> SUFFICES ASSUME NoNode \in Node PROVE FALSE OBVIOUS
  <2>1. DOMAIN NoNode = {"none"} BY DEF NoNode
  <2>2. DOMAIN NoNode = {"known", "uninit", "addrs"} BY DEF Node
  <2> QED BY <2>1, <2>2
<1>2. NoSync.pc = "idle" BY DEF NoSync
<1>3. \A c \in Calls : c.pc # "idle" BY DEF Calls
<1> QED BY <1>1, <1>2, <1>3

\* A call in progress, as TypeOK has it.
LEMMA CallTypes ==
  (\E D \in SUBSET NodeNames :
     sync \in [pc : {"servers", "acls", "done"}, list : [D -> Node], s : Services])
  <=> sync \in Calls
<1>1. ASSUME NEW D \in SUBSET NodeNames,
             sync \in [pc : {"servers", "acls", "done"}, list : [D -> Node], s : Services]
      PROVE  sync \in Calls
  <2>1. [D -> Node] \subseteq NodeLists BY DEF NodeLists
  <2> QED BY <1>1, <2>1 DEF Calls
<1>2. ASSUME sync \in Calls
      PROVE  \E D \in SUBSET NodeNames :
               sync \in [pc : {"servers", "acls", "done"}, list : [D -> Node], s : Services]
  <2>1. sync.list \in NodeLists BY <1>2 DEF Calls
  <2>2. PICK D \in SUBSET NodeNames : sync.list \in [D -> Node] BY <2>1 DEF NodeLists
  <2>3. sync \in [pc : {"servers", "acls", "done"}, list : [D -> Node], s : Services]
    BY <1>2, <2>2 DEF Calls
  <2> QED BY <2>3
<1> QED BY <1>1, <1>2

\* The copies of nodes that there are, filtered.
LEMMA FilteredList ==
  ASSUME nodes \in [NodeNames -> Node \cup {NoNode}], NEW s
  PROVE  LET list == filterNodes([n \in There |-> nodes[n]], s)
         IN  /\ list \in NodeLists
             /\ DOMAIN list = {n \in There : TargetedBy(n, s.target)}
             /\ \A n \in DOMAIN list : list[n] = nodes[n]
<1> DEFINE all  == [n \in There |-> nodes[n]]
           D    == {n \in There : TargetedBy(n, s.target)}
           list == filterNodes(all, s)
<1>1. list = [n \in D |-> nodes[n]]
  <2>1. DOMAIN all = There OBVIOUS
  <2>2. D = {m \in DOMAIN all : TargetedBy(m, s.target)} BY <2>1
  <2>3. \A n \in D : all[n] = nodes[n] OBVIOUS
  <2> HIDE DEF all, D
  <2> QED BY <2>2, <2>3 DEF filterNodes
<1>2. \A n \in There : nodes[n] \in Node BY DEF There
<1>3. D \in SUBSET NodeNames BY DEF There
<1>4. list \in [D -> Node] BY <1>1, <1>2
<1>5. list \in NodeLists BY <1>3, <1>4 DEF NodeLists
<1> QED BY <1>1, <1>5

\* NodeLife keeps the type of the nodes.
LEMMA NodeLifeTypes ==
  ASSUME nodes \in [NodeNames -> Node \cup {NoNode}], NEW n \in NodeNames
  PROVE  /\ Register(n) => /\ nodes' \in [NodeNames -> Node \cup {NoNode}]
                           /\ There' = There \cup {n} /\ n \notin There
         /\ Initialize(n) \/ Describe(n) =>
              /\ nodes' \in [NodeNames -> Node \cup {NoNode}]
              /\ There' = There /\ n \in There
         /\ Unregister(n) => /\ nodes' \in [NodeNames -> Node \cup {NoNode}]
                             /\ There' = There \ {n}
<1>0. NoNode \notin Node BY NoPoolRecord
<1>a. \A v \in Node : nodes' = [nodes EXCEPT ![n] = v] =>
        /\ nodes' \in [NodeNames -> Node \cup {NoNode}]
        /\ There' = There \cup {n}
  BY <1>0 DEF There
<1>1. ASSUME Register(n)
      PROVE  /\ nodes' \in [NodeNames -> Node \cup {NoNode}]
             /\ There' = There \cup {n} /\ n \notin There
  <2>1. PICK k \in BOOLEAN :
          nodes' = [nodes EXCEPT ![n] = [known |-> k, uninit |-> TRUE, addrs |-> {}]]
    BY <1>1 DEF Register
  <2>2. [known |-> k, uninit |-> TRUE, addrs |-> {}] \in Node BY DEF Node
  <2> QED BY <1>1, <1>a, <2>1, <2>2 DEF Register
<1>2. ASSUME Initialize(n)
      PROVE  /\ nodes' \in [NodeNames -> Node \cup {NoNode}] /\ There' = There /\ n \in There
  <2>1. PICK k \in BOOLEAN : nodes' = [nodes EXCEPT ![n] =
                               [known |-> k, uninit |-> FALSE, addrs |-> @.addrs]]
    BY <1>2 DEF Initialize
  <2>2. n \in There /\ nodes[n] \in Node BY <1>2 DEF Initialize, There
  <2>3. [known |-> k, uninit |-> FALSE, addrs |-> nodes[n].addrs] \in Node
    BY <2>2 DEF Node
  <2> QED BY <1>a, <2>1, <2>2, <2>3
<1>3. ASSUME Describe(n)
      PROVE  /\ nodes' \in [NodeNames -> Node \cup {NoNode}] /\ There' = There /\ n \in There
  <2>1. PICK A \in Describable[n] : nodes' = [nodes EXCEPT ![n] = [@ EXCEPT !.addrs = A]]
    BY <1>3 DEF Describe
  <2>2. n \in There /\ nodes[n] \in Node BY <1>3 DEF Describe, There
  <2>3. A \in SUBSET Address BY NodeLifeAssumption
  <2>4. [nodes[n] EXCEPT !.addrs = A] \in Node BY <2>2, <2>3 DEF Node
  <2> QED BY <1>a, <2>1, <2>2, <2>4
<1>4. ASSUME Unregister(n)
      PROVE  nodes' \in [NodeNames -> Node \cup {NoNode}] /\ There' = There \ {n}
  BY <1>4 DEF Unregister, There
<1> QED BY <1>1, <1>2, <1>3, <1>4

\* What SetACLs leaves: the wanted rules, or some that aclsEquals them.
LEMMA RulesAfter ==
  ASSUME acls \in Seq(Rule), AllowsAddresses(acls), sync \in Calls, SetACLs
  PROVE  /\ acls' \in Seq(Rule) /\ AllowsAddresses(acls')
         /\ aclsEquals(acls', makeACLSpecs(sync.list, sync.s.ranges))
<1> DEFINE specs == makeACLSpecs(sync.list, sync.s.ranges)
<1>1. sync.list \in NodeLists /\ sync.s.ranges \in SUBSET (IPs \cup {InvalidCIDR})
  BY NodePoolAssumption DEF Calls
<1>2. /\ specs \in Seq(Rule)
      /\ sync.s.ranges = {} => specs = <<>>
      /\ sync.s.ranges # {} => LetsIn(specs, Whitelisted(sync.list, sync.s.ranges))
  BY <1>1, SpecsExact
<1> HIDE DEF specs
<1>3. acls' = IF aclsEquals(acls, specs) THEN acls ELSE specs BY DEF SetACLs, specs
<1>4. aclsEquals(specs, specs) BY <1>2 DEF aclsEquals
<1>5. AllowsAddresses(specs)
  <2>1. CASE sync.s.ranges = {} BY <1>2, <2>1 DEF AllowsAddresses
  <2>2. CASE sync.s.ranges # {}
    <3>1. LetsIn(specs, Whitelisted(sync.list, sync.s.ranges)) BY <1>2, <2>2
    <3>2. DOMAIN specs = 1..Len(specs) /\ Len(specs) \in Nat BY <1>2
    <3>3. specs[Len(specs)].action = "deny" BY <3>1 DEF LetsIn, Deny
    <3>4. ASSUME NEW i \in DOMAIN specs, specs[i].action = "allow"
          PROVE  specs[i].entries \in Seq(IPs)
      <4>1. i # Len(specs) BY <3>3, <3>4
      <4>2. i \in 1..(Len(specs) - 1) BY <3>2, <4>1
      <4> QED BY <3>1, <4>2 DEF LetsIn
    <3> QED BY <3>4 DEF AllowsAddresses
  <2> QED BY <2>1, <2>2
<1>6. aclsEquals(acls', specs) /\ acls' \in Seq(Rule) /\ AllowsAddresses(acls')
  <2>1. CASE aclsEquals(acls, specs)
    <3>1. acls' = acls BY <1>3, <2>1
    <3> QED BY <2>1, <3>1
  <2>2. CASE ~aclsEquals(acls, specs)
    <3>1. acls' = specs BY <1>3, <2>2
    <3> QED BY <1>2, <1>4, <1>5, <3>1
  <2> QED BY <2>1, <2>2
<1> QED BY <1>6 DEF specs

\* The inductive invariant: a call that is done has left the rules it wants.
RulesInv ==
  /\ TypeOK
  /\ AllowsAddresses(acls)
  /\ sync.pc = "done" => aclsEquals(acls, makeACLSpecs(sync.list, sync.s.ranges))

LEMMA RulesInit == Init => RulesInv
<1> SUFFICES ASSUME Init PROVE RulesInv OBVIOUS
<1> USE DEF Init, LifeInit
<1>1. nodes \in [NodeNames -> Node \cup {NoNode}] OBVIOUS
<1>2. acls \in Seq(Rule) /\ AllowsAddresses(acls) BY DEF AllowsAddresses
<1>3. changes \in 0..MaxChanges BY NodePoolAssumption
<1>4. sync.pc # "done" BY DEF NoSync
<1> QED BY <1>1, <1>2, <1>3, <1>4 DEF RulesInv, TypeOK

LEMMA ChangeBound ==
  ASSUME changes \in 0..MaxChanges, changes' = changes \/ Change
  PROVE  changes' \in 0..MaxChanges
BY NodePoolAssumption DEF Change

\* Every step of the nodes, and every other step, keeps it.
LEMMA RulesNodes ==
  ASSUME RulesInv, NEW n \in NodeNames,
         NodeComes(n) \/ NodeGoes(n) \/ NodeInitialized(n) \/ NodeDescribed(n) \/ Age(n)
  PROVE  RulesInv'
<1> USE DEF RulesInv, TypeOK
<1>1. sync' = sync /\ acls' = acls /\ pool' = pool /\ service' = service
  BY DEF NodeComes, NodeGoes, NodeInitialized, NodeDescribed, Age, hist
<1>2. changes' \in 0..MaxChanges
  <2>1. changes' = changes \/ Change
    BY DEF NodeComes, NodeGoes, NodeInitialized, NodeDescribed, Age
  <2> QED BY <2>1, ChangeBound
<1>3. /\ nodes' \in [NodeNames -> Node \cup {NoNode}]
      /\ old' \subseteq There' /\ passed' \subseteq There' /\ moved' \subseteq There'
      /\ due' \in BOOLEAN
  <2>1. CASE NodeComes(n)
    BY <2>1, NodeLifeTypes DEF NodeComes, hist
  <2>2. CASE NodeGoes(n)
    BY <2>2, NodeLifeTypes DEF NodeGoes
  <2>3. CASE NodeInitialized(n)
    BY <2>3, NodeLifeTypes DEF NodeInitialized, hist
  <2>4. CASE NodeDescribed(n)
    BY <2>4, NodeLifeTypes DEF NodeDescribed
  <2>5. CASE Age(n)
    BY <2>5 DEF Age, There, hist
  <2> QED BY <2>1, <2>2, <2>3, <2>4, <2>5
<1>4. AllowsAddresses(acls)' /\ (sync.pc = "done" =>
        aclsEquals(acls, makeACLSpecs(sync.list, sync.s.ranges)))'
  BY <1>1
<1>5. (sync = NoSync \/ \E D \in SUBSET NodeNames :
        sync \in [pc : {"servers", "acls", "done"}, list : [D -> Node], s : Services])'
  BY <1>1
<1> QED BY <1>1, <1>2, <1>3, <1>4, <1>5

LEMMA RulesCalls ==
  ASSUME RulesInv, BeginSync \/ SyncStep \/ FailSync \/ EditService
  PROVE  RulesInv'
<1> USE DEF RulesInv, TypeOK
<1>1. nodes' = nodes /\ old' = old /\ There' = There
  BY DEF BeginSync, SyncStep, SetBackendServers, SetACLs, ReturnSync, FailSync,
         EditService, nodeVars, There
<1>2. changes' \in 0..MaxChanges
  <2>1. changes' = changes \/ Change
    BY DEF BeginSync, SyncStep, SetBackendServers, SetACLs, ReturnSync, FailSync, EditService
  <2> QED BY <2>1, ChangeBound
<1>3. sync = NoSync \/ sync \in Calls BY CallTypes
<1>4. service' \in Services /\ due' \in BOOLEAN
  BY DEF BeginSync, SyncStep, SetBackendServers, SetACLs, ReturnSync, FailSync, EditService
<1>5. passed' \subseteq There /\ moved' \subseteq There
  <2>1. CASE BeginSync
    <3> DEFINE list == filterNodes([n \in There |-> nodes[n]], service)
    <3>1. passed' \subseteq passed \cup old /\ moved' \subseteq moved
      <4> HIDE DEF list
      <4>1. /\ passed' = (passed \ DOMAIN list)
                 \cup {n \in DOMAIN list \cap old : ~IsInitialized(list[n], service)}
            /\ moved' = moved \ DOMAIN list
        BY <2>1 DEF BeginSync, list
      <4> QED BY <4>1
    <3> QED BY <3>1
  <2>2. CASE ~BeginSync
    BY <2>2 DEF SyncStep, SetBackendServers, SetACLs, ReturnSync, FailSync, EditService, hist
  <2> QED BY <2>1, <2>2
<1>6. /\ sync' \in {NoSync} \cup Calls
      /\ pool' \subseteq IPs /\ acls' \in Seq(Rule) /\ AllowsAddresses(acls')
      /\ sync'.pc = "done" => aclsEquals(acls', makeACLSpecs(sync'.list, sync'.s.ranges))
  <2>1. CASE BeginSync
    <3> DEFINE list == filterNodes([n \in There |-> nodes[n]], service)
    <3>1. list \in NodeLists BY FilteredList
    <3> HIDE DEF list
    <3>2. sync' = [pc |-> "servers", list |-> list, s |-> service]
      BY <2>1 DEF BeginSync, list
    <3>3. sync' \in Calls /\ sync'.pc = "servers" BY <3>1, <3>2 DEF Calls
    <3> QED BY <2>1, <3>3 DEF BeginSync
  <2>2. CASE SetBackendServers
    <3>1. sync.pc = "servers" /\ sync' = [sync EXCEPT !.pc = "acls"]
      BY <2>2 DEF SetBackendServers
    <3>2. sync \in Calls BY <1>3, <3>1 DEF NoSync
    <3>3. sync' \in Calls /\ sync'.pc = "acls" BY <3>1, <3>2 DEF Calls
    <3>4. pool' \subseteq IPs
      <4>1. sync.list \in NodeLists BY <3>2 DEF Calls
      <4>2. targetIPs(sync.list, sync.s) \subseteq IPs
        BY <4>1, AddressesOfNodes DEF targetIPs
      <4> QED BY <2>2, <4>2 DEF SetBackendServers
    <3> QED BY <2>2, <3>3, <3>4 DEF SetBackendServers
  <2>3. CASE SetACLs
    <3>1. sync.pc = "acls" /\ sync' = [sync EXCEPT !.pc = "done"]
      BY <2>3 DEF SetACLs
    <3>2. sync \in Calls BY <1>3, <3>1 DEF NoSync
    <3>3. sync' \in Calls /\ sync'.list = sync.list /\ sync'.s = sync.s
      BY <3>1, <3>2 DEF Calls
    <3>4. /\ acls' \in Seq(Rule) /\ AllowsAddresses(acls')
          /\ aclsEquals(acls', makeACLSpecs(sync.list, sync.s.ranges))
      BY <2>3, <3>2, RulesAfter
    <3> QED BY <2>3, <3>3, <3>4 DEF SetACLs
  <2>4. CASE ReturnSync \/ FailSync
    BY <2>4 DEF ReturnSync, FailSync, NoSync
  <2>5. CASE EditService
    <3>1. sync' = sync /\ acls' = acls /\ pool' = pool BY <2>5 DEF EditService
    <3> QED BY <1>3, <3>1
  <2> QED BY <2>1, <2>2, <2>3, <2>4, <2>5 DEF SyncStep
<1>7. sync' \in Calls => \E D \in SUBSET NodeNames :
        sync' \in [pc : {"servers", "acls", "done"}, list : [D -> Node], s : Services]
  <2>1. ASSUME sync' \in Calls
        PROVE  \E D \in SUBSET NodeNames : sync'.list \in [D -> Node]
    BY <2>1 DEF Calls, NodeLists
  <2> QED BY <2>1 DEF Calls
<1> QED BY <1>1, <1>2, <1>4, <1>5, <1>6, <1>7

LEMMA RulesNext == RulesInv /\ [Next]_vars => RulesInv'
<1>1. ASSUME RulesInv, Next PROVE RulesInv'
  <2>1. ASSUME NEW n \in NodeNames, NodeComes(n) \/ NodeGoes(n) \/ NodeInitialized(n)
                                     \/ NodeDescribed(n) \/ Age(n)
        PROVE  RulesInv'
    BY <1>1, <2>1, RulesNodes
  <2>2. ASSUME BeginSync \/ SyncStep \/ FailSync \/ EditService PROVE RulesInv'
    BY <1>1, <2>2, RulesCalls
  <2> QED BY <1>1, <2>1, <2>2 DEF Next
<1>2. ASSUME RulesInv, UNCHANGED vars PROVE RulesInv'
  BY <1>2 DEF RulesInv, TypeOK, vars, nodeVars, hist, There, AllowsAddresses
<1> QED BY <1>1, <1>2

\* The theorem of the types: among others, every rule of the frontend names
\* addresses only, although users write source ranges that are none
\* (makeACLSpecs, net.ParseCIDR).
THEOREM PoolTypeCorrect == Spec => []TypeOK
<1>1. RulesInv => TypeOK BY DEF RulesInv
<1> QED BY RulesInit, RulesNext, <1>1, PTL DEF Spec

LEMMA RulesExact == RulesInv => SyncedExactly
<1> SUFFICES ASSUME RulesInv, sync.pc = "done" PROVE SyncedExactly BY DEF SyncedExactly
<1> DEFINE list == sync.list
           r == sync.s.ranges
           specs == makeACLSpecs(list, r)
<1>1. sync \in Calls BY CallTypes DEF RulesInv, TypeOK, NoSync
<1>2. list \in NodeLists /\ r \in SUBSET (IPs \cup {InvalidCIDR})
  BY <1>1, NodePoolAssumption DEF Calls
<1>3. aclsEquals(acls, specs) /\ AllowsAddresses(acls) /\ acls \in Seq(Rule)
  BY DEF RulesInv, TypeOK
<1>4. /\ r = {} => specs = <<>>
      /\ r # {} => LetsIn(specs, Whitelisted(list, r))
  BY <1>2, SpecsExact
<1>5. Whitelisted(list, r) \subseteq IPs BY <1>2, WhitelistExact
<1>6. ASSUME NEW ip \in IPs
      PROVE  Admitted(ip) <=> \/ r = {}
                              \/ ip \in r \cup AllIPs(list, "InternalIP")
                                          \cup AllIPs(list, "ExternalIP")
  <2> HIDE DEF specs, list, r
  <2>1. CASE r = {}
    <3>1. Len(acls) = 0 BY <1>3, <1>4, <2>1 DEF aclsEquals
    <3>2. DOMAIN acls = {} BY <3>1, <1>3
    <3> QED BY <2>1, <3>2 DEF Admitted
  <2>2. CASE r # {}
    <3>1. LetsIn(acls, Whitelisted(list, r)) BY <1>3, <1>4, <2>2, EqualRules
    <3>2. Admitted(ip) <=> ip \in Whitelisted(list, r) BY <3>1, <1>5, AdmittedExactly
    <3>3. ip # InvalidCIDR BY NodePoolAssumption
    <3> QED BY <2>2, <3>2, <3>3 DEF Whitelisted
  <2> QED BY <2>1, <2>2
<1> QED BY <1>3, <1>6 DEF SyncedExactly

\* However many nodes and source ranges there are, whatever rules the frontend
\* had, in whatever order, and however many entries one rule may have: a call
\* that is done has left a frontend that lets in the nodes of the call and the
\* valid source ranges and no one else (makeACLSpecs, chunkArray, aclsEquals).
THEOREM SyncsAreExact == Spec => []SyncedExactly
BY RulesInit, RulesNext, RulesExact, PTL DEF Spec

-----------------------------------------------------------------------------
(***************************************************************************)
(* The LB follows the nodes.  The nodes may change while a call is in      *)
(* progress; unless that makes another call due, the list of the call is   *)
(* still good: an address in it is up to date unless its node has moved.   *)
(***************************************************************************)
Types == {"InternalIP", "ExternalIP"}

\* The node n has the addresses its copy has, and perhaps others.
Current(copy, n) == \A type \in Types : IPsOf(copy, type) \in {{}, IPsOf(nodes[n], type)}

KeepsUp(list) ==
  /\ DOMAIN list = Selected
  /\ \A n \in Selected \ moved :
       /\ Current(list[n], n)
       /\ n \notin passed => IPsOf(list[n], TargetType(service)) # {}

CallKeepsUp ==
  ~due /\ sync # NoSync =>
    /\ sync.s = service
    /\ KeepsUp(sync.list)
    /\ sync.pc \in {"acls", "done"} => pool = targetIPs(sync.list, service)

LEMMA TargetIsType == \A s : TargetType(s) \in Types
BY DEF TargetType, Types

\* What happens to a node and makes no call due keeps what its copy had, or
\* counts as a move.
LEMMA QuietChange ==
  ASSUME TypeOK, NEW n \in NodeNames, ~due',
         NodeComes(n) \/ NodeGoes(n) \/ NodeInitialized(n) \/ NodeDescribed(n) \/ Age(n)
  PROVE  /\ ~due /\ There' = There /\ Selected' = Selected
         /\ service' = service /\ sync' = sync /\ pool' = pool /\ acls' = acls
         /\ passed' = passed /\ moved \subseteq moved'
         /\ \A m \in There \ moved' : \A type \in Types :
              IPsOf(nodes[m], type) \in {{}, IPsOf(nodes'[m], type)}
<1>1. /\ ~due /\ service' = service /\ sync' = sync /\ pool' = pool /\ acls' = acls
      /\ passed' = passed /\ moved \subseteq moved'
      /\ NodeInitialized(n) \/ NodeDescribed(n) \/ Age(n)
  BY DEF NodeComes, NodeGoes, NodeInitialized, NodeDescribed, Age, hist, TypeOK
<1>2. nodes \in [NodeNames -> Node \cup {NoNode}] BY DEF TypeOK
<1>3. There' = There
  BY <1>1, <1>2, NodeLifeTypes DEF NodeInitialized, NodeDescribed, Age, There
<1>4. Selected' = Selected BY <1>1, <1>3 DEF Selected
<1>5. ASSUME NEW m \in There \ moved', NEW type \in Types
      PROVE  IPsOf(nodes[m], type) \in {{}, IPsOf(nodes'[m], type)}
  <2>1. CASE NodeInitialized(n)
    <3>1. PICK k \in BOOLEAN : nodes' = [nodes EXCEPT ![n] =
                                 [known |-> k, uninit |-> FALSE, addrs |-> @.addrs]]
      BY <2>1 DEF NodeInitialized, Initialize
    <3>2. nodes'[m].addrs = nodes[m].addrs BY <3>1, <1>2 DEF There
    <3> QED BY <3>2 DEF IPsOf
  <2>2. CASE NodeDescribed(n)
    <3>1. CASE m = n
      <4>1. n \notin moved' BY <3>1
      <4>2. ~ \E t \in {"InternalIP", "ExternalIP"} :
                IPsOf(nodes[n], t) \notin {{}, IPsOf(nodes'[n], t)}
        <5> DEFINE Moves == \E t \in {"InternalIP", "ExternalIP"} :
                              IPsOf(nodes[n], t) \notin {{}, IPsOf(nodes'[n], t)}
        <5>1. moved' = IF Moves THEN moved \cup {n} ELSE moved
          BY <2>2 DEF NodeDescribed
        <5> HIDE DEF Moves
        <5>2. ~Moves BY <5>1, <4>1
        <5> QED BY <5>2 DEF Moves
      <4> QED BY <3>1, <4>2 DEF Types
    <3>2. CASE m # n
      <4>1. nodes'[m] = nodes[m] BY <2>2, <3>2, <1>2 DEF NodeDescribed, Describe, There
      <4> QED BY <4>1
    <3> QED BY <3>1, <3>2
  <2>3. CASE Age(n)
    <3>1. nodes' = nodes BY <2>3 DEF Age
    <3> QED BY <3>1
  <2> QED BY <1>1, <2>1, <2>2, <2>3
<1> QED BY <1>1, <1>3, <1>4, <1>5

\* So a list that was good stays so.
LEMMA KeepsUpQuietly ==
  ASSUME NEW list, KeepsUp(list),
         There' = There, Selected' = Selected, service' = service,
         passed' = passed, moved \subseteq moved',
         \A m \in There \ moved' : \A type \in Types :
              IPsOf(nodes[m], type) \in {{}, IPsOf(nodes'[m], type)}
  PROVE  /\ DOMAIN list = Selected'
         /\ \A n \in Selected' \ moved' :
              /\ \A type \in Types : IPsOf(list[n], type) \in {{}, IPsOf(nodes'[n], type)}
              /\ n \notin passed' => IPsOf(list[n], TargetType(service')) # {}
<1>1. Selected \subseteq There BY DEF Selected
<1>2. ASSUME NEW n \in Selected' \ moved', NEW type \in Types
      PROVE  IPsOf(list[n], type) \in {{}, IPsOf(nodes'[n], type)}
  <2>1. n \in Selected \ moved /\ n \in There \ moved' BY <1>1
  <2>2. IPsOf(list[n], type) \in {{}, IPsOf(nodes[n], type)}
    BY <2>1 DEF KeepsUp, Current
  <2>3. IPsOf(nodes[n], type) \in {{}, IPsOf(nodes'[n], type)} BY <2>1
  <2> QED BY <2>2, <2>3
<1>3. ASSUME NEW n \in Selected' \ moved', n \notin passed'
      PROVE  IPsOf(list[n], TargetType(service')) # {}
  BY <1>3 DEF KeepsUp
<1> QED BY <1>2, <1>3 DEF KeepsUp

\* nodesInitialized lets a call begin with the nodes as they are, and those it
\* passes over are remembered.
LEMMA FreshList ==
  ASSUME TypeOK, BeginSync
  PROVE  /\ sync'.s = service' /\ sync'.pc = "servers"
         /\ KeepsUp(sync.list)'
<1> DEFINE list == filterNodes([n \in There |-> nodes[n]], service)
<1>1. /\ DOMAIN list = {n \in There : TargetedBy(n, service.target)}
      /\ \A n \in DOMAIN list : list[n] = nodes[n]
  BY FilteredList DEF TypeOK
<1> HIDE DEF list
<1>2. /\ nodesInitialized(list, old, service)
      /\ sync' = [pc |-> "servers", list |-> list, s |-> service]
      /\ passed' = (passed \ DOMAIN list)
                     \cup {n \in DOMAIN list \cap old : ~IsInitialized(list[n], service)}
      /\ moved' = moved \ DOMAIN list
      /\ service' = service /\ nodes' = nodes
  BY DEF BeginSync, list, nodeVars
<1>3. There' = There /\ Selected' = Selected BY <1>2 DEF There, Selected
<1>4. DOMAIN list = Selected' BY <1>1, <1>3 DEF Selected
<1>5. ASSUME NEW n \in Selected', n \notin passed'
      PROVE  IPsOf(list[n], TargetType(service')) # {}
  <2>1. n \in DOMAIN list BY <1>4
  <2>2. n \in old => IsInitialized(list[n], service) BY <1>2, <1>5, <2>1
  <2>3. IsInitialized(list[n], service) BY <1>2, <2>1, <2>2 DEF nodesInitialized
  <2> QED BY <2>3, <1>2 DEF IsInitialized
<1>6. ASSUME NEW n \in Selected', NEW type \in Types
      PROVE  IPsOf(list[n], type) = IPsOf(nodes'[n], type)
  <2>1. list[n] = nodes'[n] BY <1>1, <1>2, <1>4
  <2> QED BY <2>1
<1>7. sync'.list = list /\ sync'.s = service' /\ sync'.pc = "servers" BY <1>2
<1> QED BY <1>4, <1>5, <1>6, <1>7 DEF KeepsUp, Current

\* Who keeps up, and has the servers and the rules of its list, follows.
LEMMA KeptUpFollows ==
  ASSUME TypeOK, sync.pc = "done", sync.s = service, KeepsUp(sync.list),
         pool = targetIPs(sync.list, service), SyncedExactly
  PROVE  FollowsNodes
<1> DEFINE list == sync.list
           tt == TargetType(service)
           in == "InternalIP"
           ex == "ExternalIP"
<1>0. tt \in Types /\ in \in Types /\ ex \in Types BY TargetIsType DEF Types
<1>1. list \in NodeLists
  <2>1. sync \in Calls BY CallTypes DEF TypeOK, NoSync
  <2> QED BY <2>1 DEF Calls
<1>2. DOMAIN list = Selected BY DEF KeepsUp
<1>3. \A ip \in IPs : Admitted(ip) <=> \/ service.ranges = {}
                                        \/ ip \in service.ranges \cup AllIPs(list, in)
                                                                \cup AllIPs(list, ex)
  BY DEF SyncedExactly
<1>4. pool = AllIPs(list, tt) BY DEF targetIPs
<1>5. \A type : AllIPs(list, type) \subseteq IPs BY <1>1, AddressesOfNodes
<1>6. \A n \in Selected \ moved : \A type \in Types :
        IPsOf(list[n], type) \in {{}, IPsOf(nodes[n], type)}
  BY DEF KeepsUp, Current
<1>7. \A n \in Awaited : /\ n \in Selected \ moved
                         /\ IPsOf(list[n], tt) # {}
  BY DEF KeepsUp, Awaited
<1>8. tt = in \/ tt = ex BY DEF TargetType
<1> HIDE DEF list, tt, in, ex
<1>9. ASSUME NEW n \in Awaited, NEW ip \in IPsOf(nodes[n], tt)
      PROVE  ip \in pool /\ Admitted(ip)
  <2>1. IPsOf(list[n], tt) = IPsOf(nodes[n], tt) BY <1>0, <1>6, <1>7
  <2>2. ip \in AllIPs(list, tt) BY <1>2, <1>7, <2>1 DEF AllIPs
  <2>3. ip \in IPs BY <1>5, <2>2
  <2>4. ip \in AllIPs(list, in) \cup AllIPs(list, ex) BY <2>2, <1>8
  <2> QED BY <1>3, <1>4, <2>2, <2>3, <2>4
<1>10. \A n \in Awaited : IPsOf(nodes[n], tt) # {} BY <1>0, <1>6, <1>7
<1>11. ASSUME Selected \cap moved = {}, NEW type \in Types
       PROVE  AllIPs(list, type) \subseteq AllIPs(SelectedNodes, type)
  <2>1. SUFFICES ASSUME NEW ip \in AllIPs(list, type)
                 PROVE  ip \in AllIPs(SelectedNodes, type)
    OBVIOUS
  <2>2. PICK n \in Selected : ip \in IPsOf(list[n], type) BY <1>2 DEF AllIPs
  <2>3. IPsOf(list[n], type) \in {{}, IPsOf(nodes[n], type)} BY <1>6, <1>11
  <2>4. ip \in IPsOf(nodes[n], type) BY <2>2, <2>3
  <2>5. DOMAIN SelectedNodes = Selected /\ SelectedNodes[n] = nodes[n]
    BY DEF SelectedNodes
  <2> QED BY <2>4, <2>5 DEF AllIPs
<1>12. Selected \cap moved = {} => pool \subseteq AllIPs(SelectedNodes, tt)
  BY <1>0, <1>4, <1>11
<1>13. Selected \cap moved = {} /\ service.ranges # {} =>
         \A ip \in IPs : Admitted(ip) => ip \in service.ranges \cup AllIPs(SelectedNodes, in)
                                                              \cup AllIPs(SelectedNodes, ex)
  BY <1>0, <1>3, <1>11
<1> QED BY <1>9, <1>10, <1>12, <1>13 DEF FollowsNodes, targetIPs, tt, in, ex

\* And goes on following while nothing makes a call due.
LEMMA FollowsQuietly ==
  ASSUME FollowsNodes,
         There' = There, Selected' = Selected, service' = service, pool' = pool,
         acls' = acls, passed' = passed, moved \subseteq moved',
         \A m \in There \ moved' : \A type \in Types :
              IPsOf(nodes[m], type) \in {{}, IPsOf(nodes'[m], type)}
  PROVE  FollowsNodes'
<1>0. \A s : TargetType(s) \in Types BY TargetIsType
<1>1. Selected \subseteq There BY DEF Selected
<1>2. Awaited' \subseteq Awaited BY DEF Awaited
<1>3. \A ip : Admitted(ip)' <=> Admitted(ip) BY DEF Admitted
<1>4. ASSUME NEW n \in Awaited'
      PROVE  IPsOf(nodes'[n], TargetType(service)) = IPsOf(nodes[n], TargetType(service))
  <2>1. n \in There \ moved' BY <1>1 DEF Awaited
  <2>2. IPsOf(nodes[n], TargetType(service)) # {} BY <1>2, <1>4 DEF FollowsNodes
  <2> QED BY <1>0, <2>1, <2>2
<1>5. ASSUME Selected' \cap moved' = {}, NEW type \in Types
      PROVE  AllIPs(SelectedNodes, type) \subseteq AllIPs(SelectedNodes, type)'
  <2>1. SUFFICES ASSUME NEW ip \in AllIPs(SelectedNodes, type)
                 PROVE  ip \in AllIPs(SelectedNodes', type)
    OBVIOUS
  <2>2. /\ DOMAIN SelectedNodes = Selected /\ DOMAIN SelectedNodes' = Selected
        /\ \A n \in Selected : SelectedNodes[n] = nodes[n] /\ SelectedNodes'[n] = nodes'[n]
    BY DEF SelectedNodes
  <2>3. PICK n \in Selected : ip \in IPsOf(nodes[n], type) BY <2>1, <2>2 DEF AllIPs
  <2>4. IPsOf(nodes[n], type) \in {{}, IPsOf(nodes'[n], type)} BY <1>1, <1>5
  <2>5. ip \in IPsOf(nodes'[n], type) BY <2>3, <2>4
  <2> QED BY <2>2, <2>5 DEF AllIPs
<1>6. "InternalIP" \in Types /\ "ExternalIP" \in Types BY DEF Types
<1>7. \A n \in Awaited' :
        /\ IPsOf(nodes'[n], TargetType(service')) # {}
        /\ \A ip \in IPsOf(nodes'[n], TargetType(service')) : ip \in pool' /\ Admitted(ip)'
  BY <1>2, <1>3, <1>4 DEF FollowsNodes
<1>8. Selected' \cap moved' = {} =>
        /\ pool' \subseteq targetIPs(SelectedNodes', service')
        /\ service'.ranges # {} =>
             \A ip \in IPs : Admitted(ip)' => ip \in service'.ranges
                                               \cup AllIPs(SelectedNodes', "InternalIP")
                                               \cup AllIPs(SelectedNodes', "ExternalIP")
  <2>1. SUFFICES ASSUME Selected' \cap moved' = {}
                 PROVE  /\ pool' \subseteq targetIPs(SelectedNodes', service')
                        /\ service'.ranges # {} =>
                             \A ip \in IPs : Admitted(ip)' =>
                               ip \in service'.ranges \cup AllIPs(SelectedNodes', "InternalIP")
                                                     \cup AllIPs(SelectedNodes', "ExternalIP")
    OBVIOUS
  <2>2. Selected \cap moved = {} BY <2>1
  <2>3. /\ pool \subseteq AllIPs(SelectedNodes, TargetType(service))
        /\ service.ranges # {} =>
             \A ip \in IPs : Admitted(ip) => ip \in service.ranges
                                              \cup AllIPs(SelectedNodes, "InternalIP")
                                              \cup AllIPs(SelectedNodes, "ExternalIP")
    BY <2>2 DEF FollowsNodes, targetIPs
  <2>4. \A type \in Types : AllIPs(SelectedNodes, type) \subseteq AllIPs(SelectedNodes', type)
    BY <2>1, <1>5
  <2>5. pool' \subseteq AllIPs(SelectedNodes', TargetType(service'))
    BY <1>0, <2>3, <2>4
  <2> QED BY <1>3, <1>6, <2>3, <2>4, <2>5 DEF targetIPs
<1> QED BY <1>7, <1>8 DEF FollowsNodes

\* The inductive invariant.
FollowInv == RulesInv /\ CallKeepsUp /\ FollowsNodesAtRest

LEMMA FollowInit == Init => FollowInv
<1> SUFFICES ASSUME Init PROVE CallKeepsUp /\ FollowsNodesAtRest
  BY RulesInit DEF FollowInv
<1> QED BY DEF Init, CallKeepsUp, FollowsNodesAtRest

LEMMA FollowNodes ==
  ASSUME FollowInv, NEW n \in NodeNames,
         NodeComes(n) \/ NodeGoes(n) \/ NodeInitialized(n) \/ NodeDescribed(n) \/ Age(n)
  PROVE  CallKeepsUp' /\ FollowsNodesAtRest'
<1>1. TypeOK BY DEF FollowInv, RulesInv
<1>2. CASE due' BY <1>2 DEF CallKeepsUp, FollowsNodesAtRest
<1>3. CASE ~due'
  <2>1. /\ ~due /\ There' = There /\ Selected' = Selected
        /\ service' = service /\ sync' = sync /\ pool' = pool /\ acls' = acls
        /\ passed' = passed /\ moved \subseteq moved'
        /\ \A m \in There \ moved' : \A type \in Types :
             IPsOf(nodes[m], type) \in {{}, IPsOf(nodes'[m], type)}
    BY <1>1, <1>3, QuietChange
  <2>2. CASE sync = NoSync
    <3>1. FollowsNodes BY <2>1, <2>2 DEF FollowInv, FollowsNodesAtRest
    <3>2. FollowsNodes' BY <2>1, <3>1, FollowsQuietly
    <3> QED BY <2>1, <2>2, <3>2 DEF CallKeepsUp, FollowsNodesAtRest, NoSync
  <2>3. CASE sync # NoSync
    <3>1. /\ sync.s = service /\ KeepsUp(sync.list)
          /\ sync.pc \in {"acls", "done"} => pool = targetIPs(sync.list, service)
      BY <2>1, <2>3 DEF FollowInv, CallKeepsUp
    <3>2. /\ DOMAIN sync.list = Selected'
          /\ \A m \in Selected' \ moved' :
               /\ \A type \in Types : IPsOf(sync.list[m], type) \in {{}, IPsOf(nodes'[m], type)}
               /\ m \notin passed' => IPsOf(sync.list[m], TargetType(service')) # {}
      BY <2>1, <3>1, KeepsUpQuietly
    <3>3. KeepsUp(sync.list)' BY <2>1, <3>2 DEF KeepsUp, Current
    <3> QED BY <2>1, <2>3, <3>1, <3>3 DEF CallKeepsUp, FollowsNodesAtRest, NoSync
  <2> QED BY <2>2, <2>3
<1> QED BY <1>2, <1>3

\* The steps of the call itself.
LEMMA FollowCalls ==
  ASSUME FollowInv, BeginSync \/ SyncStep \/ FailSync \/ EditService
  PROVE  CallKeepsUp' /\ FollowsNodesAtRest'
<1>1. TypeOK /\ RulesInv BY DEF FollowInv, RulesInv
<1>2. sync # NoSync => sync \in Calls BY <1>1, CallTypes DEF TypeOK
<1>3. CASE BeginSync
  <2>1. sync'.s = service' /\ sync'.pc = "servers" /\ KeepsUp(sync.list)'
    BY <1>1, <1>3, FreshList
  <2>2. sync' # NoSync BY <2>1 DEF NoSync
  <2> QED BY <2>1, <2>2 DEF CallKeepsUp, FollowsNodesAtRest
<1>4. CASE SetBackendServers
  <2>1. /\ sync.pc = "servers" /\ sync' = [sync EXCEPT !.pc = "acls"]
        /\ pool' = targetIPs(sync.list, sync.s)
        /\ due' = due /\ service' = service /\ nodes' = nodes /\ hist' = hist
    BY <1>4 DEF SetBackendServers, nodeVars
  <2>2. sync # NoSync /\ sync \in Calls BY <1>2, <2>1 DEF NoSync
  <2>3. sync'.list = sync.list /\ sync'.s = sync.s /\ sync'.pc = "acls"
    BY <2>1, <2>2 DEF Calls
  <2>4. ASSUME ~due'
        PROVE  /\ sync'.s = service' /\ KeepsUp(sync.list)'
               /\ pool' = targetIPs(sync'.list, service')
    <3>1. sync.s = service /\ KeepsUp(sync.list)
      BY <2>1, <2>2, <2>4 DEF FollowInv, CallKeepsUp
    <3>2. KeepsUp(sync.list)'
      BY <2>1, <2>3, <3>1 DEF KeepsUp, Current, Selected, There, hist
    <3> QED BY <2>1, <2>3, <3>1, <3>2
  <2>5. sync' # NoSync BY <2>3 DEF NoSync
  <2> QED BY <2>4, <2>5 DEF CallKeepsUp, FollowsNodesAtRest
<1>5. CASE SetACLs
  <2>1. /\ sync.pc = "acls" /\ sync' = [sync EXCEPT !.pc = "done"] /\ pool' = pool
        /\ due' = due /\ service' = service /\ nodes' = nodes /\ hist' = hist
    BY <1>5 DEF SetACLs, nodeVars
  <2>2. sync # NoSync /\ sync \in Calls BY <1>2, <2>1 DEF NoSync
  <2>3. sync'.list = sync.list /\ sync'.s = sync.s /\ sync'.pc = "done"
    BY <2>1, <2>2 DEF Calls
  <2>4. ASSUME ~due'
        PROVE  /\ sync'.s = service' /\ KeepsUp(sync.list)'
               /\ pool' = targetIPs(sync'.list, service')
    <3>1. sync.s = service /\ KeepsUp(sync.list) /\ pool = targetIPs(sync.list, service)
      BY <2>1, <2>2, <2>4 DEF FollowInv, CallKeepsUp
    <3>2. KeepsUp(sync.list)'
      BY <2>1, <2>3, <3>1 DEF KeepsUp, Current, Selected, There, hist
    <3> QED BY <2>1, <2>3, <3>1, <3>2
  <2>5. sync' # NoSync BY <2>3 DEF NoSync
  <2> QED BY <2>4, <2>5 DEF CallKeepsUp, FollowsNodesAtRest
<1>6. CASE ReturnSync
  <2>1. /\ sync.pc = "done" /\ sync' = NoSync /\ pool' = pool /\ acls' = acls
        /\ due' = due /\ service' = service /\ nodes' = nodes /\ hist' = hist
    BY <1>6 DEF ReturnSync, nodeVars
  <2>2. ASSUME ~due' PROVE FollowsNodes'
    <3>1. sync # NoSync BY <2>1 DEF NoSync
    <3>2. /\ sync.s = service /\ KeepsUp(sync.list)
          /\ pool = targetIPs(sync.list, service)
      BY <2>1, <2>2, <3>1 DEF FollowInv, CallKeepsUp
    <3>3. FollowsNodes BY <1>1, <2>1, <3>2, RulesExact, KeptUpFollows
    <3>4. \A m \in There \ moved' : \A type \in Types :
            IPsOf(nodes[m], type) \in {{}, IPsOf(nodes'[m], type)}
      BY <2>1
    <3> QED BY <2>1, <3>3, <3>4, FollowsQuietly DEF Selected, There, hist
  <2> QED BY <2>1, <2>2 DEF CallKeepsUp, FollowsNodesAtRest
<1>7. CASE FailSync \/ EditService
  BY <1>7 DEF FailSync, EditService, CallKeepsUp, FollowsNodesAtRest
<1> QED BY <1>3, <1>4, <1>5, <1>6, <1>7 DEF SyncStep

LEMMA FollowNext == FollowInv /\ [Next]_vars => FollowInv'
<1>1. ASSUME FollowInv, Next PROVE FollowInv'
  <2>1. RulesInv' BY <1>1, RulesNext DEF FollowInv
  <2>2. CallKeepsUp' /\ FollowsNodesAtRest'
    <3>1. ASSUME NEW n \in NodeNames, NodeComes(n) \/ NodeGoes(n) \/ NodeInitialized(n)
                                       \/ NodeDescribed(n) \/ Age(n)
          PROVE  CallKeepsUp' /\ FollowsNodesAtRest'
      BY <1>1, <3>1, FollowNodes
    <3>2. ASSUME BeginSync \/ SyncStep \/ FailSync \/ EditService
          PROVE  CallKeepsUp' /\ FollowsNodesAtRest'
      BY <1>1, <3>2, FollowCalls
    <3> QED BY <1>1, <3>1, <3>2 DEF Next
  <2> QED BY <2>1, <2>2 DEF FollowInv
<1>2. ASSUME FollowInv, UNCHANGED vars PROVE FollowInv'
  <2>1. RulesInv' BY <1>2, RulesNext DEF FollowInv
  <2>2. CallKeepsUp'
    BY <1>2 DEF FollowInv, CallKeepsUp, KeepsUp, Current, Selected, There, vars,
                nodeVars, hist
  <2>3. FollowsNodesAtRest'
    BY <1>2 DEF FollowInv, FollowsNodesAtRest, FollowsNodes, Awaited, SelectedNodes,
                Selected, Admitted, There, vars, nodeVars, hist
  <2> QED BY <2>1, <2>2, <2>3 DEF FollowInv
<1> QED BY <1>1, <1>2

\* The events of the service controller and the error of nodesInitialized are
\* enough: with any number of nodes, although the addresses of a node come and
\* change without an event and a call works on the nodes as they were when it
\* began, the LB follows the nodes whenever no call is due or in progress.
THEOREM NodesAreFollowed == Spec => []FollowsNodesAtRest
<1>1. FollowInv => FollowsNodesAtRest BY DEF FollowInv
<1> QED BY FollowInit, FollowNext, <1>1, PTL DEF Spec
=============================================================================
