---------------------------- MODULE OrderProofs ----------------------------
(***************************************************************************)
(* What it means to be InOrder: the same numbers, each once, and           *)
(* ascending; and which elements the operations on sequences leave.        *)
(***************************************************************************)
EXTENDS Order, SequencesExt, TLAPS, FiniteSetTheorems, SequenceTheorems

Before(S, n) == {m \in S : m < n}

Rank(S, n) == Cardinality(Before(S, n))

LEMMA RankType ==
  ASSUME NEW S \in SUBSET Int, IsFiniteSet(S), NEW n \in S
  PROVE  /\ Rank(S, n) \in 0 .. Cardinality(S) - 1
         /\ IsFiniteSet(Before(S, n))
<1>1. Before(S, n) \subseteq S \ {n}
  BY DEF Before
<1>2. IsFiniteSet(S \ {n}) /\ Cardinality(S \ {n}) = Cardinality(S) - 1
  BY FS_RemoveElement
<1>3. IsFiniteSet(Before(S, n)) /\ Cardinality(Before(S, n)) <= Cardinality(S) - 1
  BY <1>1, <1>2, FS_Subset
<1>4. Cardinality(Before(S, n)) \in Nat /\ Cardinality(S) \in Nat
  BY <1>3, FS_CardinalityType
<1> QED
  BY <1>3, <1>4 DEF Rank

LEMMA RankAscends ==
  ASSUME NEW S \in SUBSET Int, IsFiniteSet(S), NEW a \in S, NEW b \in S, a < b
  PROVE  Rank(S, a) < Rank(S, b)
<1>1. Before(S, a) \cup {a} \subseteq Before(S, b) /\ a \notin Before(S, a)
  <2>1. \A m \in S : m \in Int
    OBVIOUS
  <2>2. \A m \in S : m < a => m < b
    BY <2>1
  <2>3. ~(a < a)
    BY <2>1
  <2> QED
    BY <2>2, <2>3, Zenon DEF Before
<1>2. /\ IsFiniteSet(Before(S, a)) /\ IsFiniteSet(Before(S, b))
      /\ Rank(S, a) \in Int /\ Rank(S, b) \in Int
  BY RankType
<1>3. Cardinality(Before(S, a) \cup {a}) = Cardinality(Before(S, a)) + 1
  BY <1>1, <1>2, FS_AddElement
<1>4. Cardinality(Before(S, a) \cup {a}) <= Cardinality(Before(S, b))
  BY <1>1, <1>2, FS_Subset
<1> QED
  BY <1>2, <1>3, <1>4 DEF Rank

(* Every rank up to the size of the set is somebody's. *)
LEMMA RankTaken ==
  ASSUME NEW S \in SUBSET Int, IsFiniteSet(S), NEW k \in 1 .. Cardinality(S)
  PROVE  \E n \in S : Rank(S, n) = k - 1
<1> DEFINE T == 0 .. Cardinality(S) - 1
           f == [n \in S |-> Rank(S, n)]
<1>1. Cardinality(S) \in Nat
  BY FS_CardinalityType
<1>2. IsFiniteSet(T) /\ Cardinality(T) = Cardinality(S)
  <2>1. /\ 0 \in Int /\ Cardinality(S) - 1 \in Int
        /\ (Cardinality(S) - 1) - 0 + 1 = Cardinality(S)
        /\ 0 > Cardinality(S) - 1 <=> Cardinality(S) = 0
    BY <1>1
  <2>2. /\ IsFiniteSet(T)
        /\ Cardinality(T) = IF 0 > Cardinality(S) - 1 THEN 0
                            ELSE (Cardinality(S) - 1) - 0 + 1
    BY <2>1, FS_Interval
  <2> QED
    BY <2>1, <2>2
<1>3. f \in [S -> T]
  <2>1. \A n \in S : Rank(S, n) \in T
    BY RankType
  <2> QED
    BY <2>1
<1>4. \A a, b \in S : f[a] = f[b] => a = b
  <2> SUFFICES ASSUME NEW a \in S, NEW b \in S, Rank(S, a) = Rank(S, b), a # b
               PROVE  FALSE
    OBVIOUS
  <2>1. a < b \/ b < a
    OBVIOUS
  <2>2. Rank(S, a) \in Int
    BY RankType
  <2> QED
    BY <2>1, <2>2, RankAscends
<1>5. f \in Injection(S, T)
  BY <1>3, <1>4 DEF Injection, IsInjective
<1>6. f \in Surjection(S, T)
  BY <1>2, <1>5, FS_Injection
<1>7. k - 1 \in T
  BY <1>1
<1> QED
  BY <1>6, <1>7 DEF Surjection

LEMMA InOrderFacts ==
  ASSUME NEW S \in SUBSET Int, IsFiniteSet(S)
  PROVE  /\ InOrder(S) \in Seq(S) /\ Len(InOrder(S)) = Cardinality(S)
         /\ Cardinality(S) \in Nat
         /\ \A n \in S : \E k \in 1 .. Cardinality(S) : InOrder(S)[k] = n
         /\ \A j, k \in 1 .. Cardinality(S) : j < k => InOrder(S)[j] < InOrder(S)[k]
<1>1. Cardinality(S) \in Nat
  BY FS_CardinalityType
<1>2. ASSUME NEW k \in 1 .. Cardinality(S)
      PROVE  InOrder(S)[k] \in S /\ Rank(S, InOrder(S)[k]) = k - 1
  <2>1. InOrder(S)[k] = CHOOSE n \in S : Rank(S, n) = k - 1
    BY DEF InOrder, Rank, Before
  <2> QED
    BY <2>1, RankTaken
<1>3. InOrder(S) \in [1 .. Cardinality(S) -> S]
  BY <1>2 DEF InOrder
<1>4. InOrder(S) \in Seq(S) /\ Len(InOrder(S)) = Cardinality(S)
  BY <1>1, <1>3, IsASeq, LenProperties
<1>5. ASSUME NEW n \in S
      PROVE  \E k \in 1 .. Cardinality(S) : InOrder(S)[k] = n
  <2>1. Rank(S, n) + 1 \in 1 .. Cardinality(S) /\ Rank(S, n) \in Int
    <3>1. Rank(S, n) \in 0 .. Cardinality(S) - 1
      BY RankType
    <3> QED
      BY <1>1, <3>1
  <2>2. PICK m \in S : m = InOrder(S)[Rank(S, n) + 1] /\ Rank(S, m) = Rank(S, n)
    <3>1. PICK k \in 1 .. Cardinality(S) : k = Rank(S, n) + 1
      BY <2>1
    <3>2. k - 1 = Rank(S, n)
      BY <2>1, <3>1
    <3> QED
      BY <1>2, <3>1, <3>2
  <2>3. ~(m < n) /\ ~(n < m)
    BY <2>1, <2>2, RankAscends
  <2> QED
    BY <2>1, <2>2, <2>3
<1>6. ASSUME NEW j \in 1 .. Cardinality(S), NEW k \in 1 .. Cardinality(S), j < k
      PROVE  InOrder(S)[j] < InOrder(S)[k]
  <2>1. PICK a \in S : a = InOrder(S)[j] /\ Rank(S, a) = j - 1
    BY <1>2
  <2>2. PICK b \in S : b = InOrder(S)[k] /\ Rank(S, b) = k - 1
    BY <1>2
  <2>3. a # b /\ ~(b < a)
    BY <1>1, <1>6, <2>1, <2>2, RankAscends
  <2> QED
    BY <2>1, <2>2, <2>3
<1> QED
  BY <1>1, <1>4, <1>5, <1>6

LEMMA InOrderInterval ==
  ASSUME NEW n \in Nat
  PROVE  InOrder(1 .. n) = [k \in 1 .. n |-> k]
<1> DEFINE S == 1 .. n
<1>1. S \in SUBSET Int /\ IsFiniteSet(S) /\ Cardinality(S) = n
  BY FS_Interval
<1>2. ASSUME NEW k \in S
      PROVE  Rank(S, k) = k - 1
  <2>1. Before(S, k) = 1 .. k - 1
    BY DEF Before
  <2>2. k - 1 \in Nat /\ Cardinality(1 .. k - 1) = k - 1
    BY FS_Interval
  <2> QED
    BY <2>1, <2>2 DEF Rank
<1>3. ASSUME NEW k \in S
      PROVE  InOrder(S)[k] = k
  <2>1. InOrder(S)[k] = CHOOSE m \in S : Rank(S, m) = k - 1
    BY <1>1 DEF InOrder, Rank, Before
  <2>2. \A m \in S : Rank(S, m) = k - 1 => m = k
    BY <1>2
  <2> QED
    BY <1>2, <2>1, <2>2
<1> QED
  BY <1>1, <1>3 DEF InOrder

-----------------------------------------------------------------------------
LEMMA ToSetIndexed ==
  ASSUME NEW S, NEW s \in Seq(S)
  PROVE  ToSet(s) = {s[i] : i \in 1 .. Len(s)} /\ ToSet(s) \subseteq S
BY LenProperties DEF ToSet

LEMMA ToSetEmpty == ToSet(<<>>) = {}
BY DEF ToSet

LEMMA ToSetAppend ==
  ASSUME NEW S, NEW s \in Seq(S), NEW e \in S
  PROVE  ToSet(Append(s, e)) = ToSet(s) \cup {e}
<1>1. /\ Len(s) \in Nat /\ Append(s, e) \in Seq(S) /\ Len(Append(s, e)) = Len(s) + 1
      /\ \A i \in 1 .. Len(s) : Append(s, e)[i] = s[i]
      /\ Append(s, e)[Len(s) + 1] = e
  BY AppendProperties, LenProperties
<1>2. /\ \A i \in 1 .. Len(s) : i \in 1 .. Len(s) + 1
      /\ \A i \in 1 .. Len(s) + 1 : i \in 1 .. Len(s) \/ i = Len(s) + 1
      /\ Len(s) + 1 \in 1 .. Len(s) + 1
  BY <1>1
<1>3. ToSet(s) = {s[i] : i \in 1 .. Len(s)}
  BY ToSetIndexed
<1>4. ToSet(Append(s, e)) = {Append(s, e)[i] : i \in 1 .. Len(s) + 1}
  BY <1>1, ToSetIndexed
<1> QED
  BY <1>1, <1>2, <1>3, <1>4

LEMMA ToSetTail ==
  ASSUME NEW S, NEW s \in Seq(S), s # <<>>
  PROVE  ToSet(s) = {Head(s)} \cup ToSet(Tail(s))
<1>1. /\ Len(s) \in Nat \ {0} /\ Tail(s) \in Seq(S) /\ Len(Tail(s)) = Len(s) - 1
      /\ \A i \in 1 .. Len(s) - 1 : Tail(s)[i] = s[i + 1]
      /\ Head(s) = s[1]
  BY HeadTailProperties, LenProperties, EmptySeq
<1>2. ToSet(s) = {s[i] : i \in 1 .. Len(s)}
  BY ToSetIndexed
<1>3. ToSet(Tail(s)) = {Tail(s)[i] : i \in 1 .. Len(s) - 1}
  BY <1>1, ToSetIndexed
<1>4. ASSUME NEW x \in ToSet(s)  PROVE x \in {Head(s)} \cup ToSet(Tail(s))
  <2>1. PICK i \in 1 .. Len(s) : x = s[i]
    BY <1>2
  <2>2. CASE i = 1
    BY <1>1, <2>1, <2>2
  <2>3. CASE i # 1
    <3>1. i - 1 \in 1 .. Len(s) - 1 /\ (i - 1) + 1 = i
      BY <1>1, <2>3
    <3> QED
      BY <1>1, <1>3, <2>1, <3>1
  <2> QED
    BY <2>2, <2>3
<1>5. Head(s) \in ToSet(s)
  BY <1>1, <1>2
<1>6. ASSUME NEW x \in ToSet(Tail(s))  PROVE x \in ToSet(s)
  <2>1. PICK i \in 1 .. Len(s) - 1 : x = Tail(s)[i]
    BY <1>3
  <2>2. i + 1 \in 1 .. Len(s)
    BY <1>1
  <2> QED
    BY <1>1, <1>2, <2>1, <2>2
<1> QED
  BY <1>4, <1>5, <1>6

LEMMA ToSetConcat ==
  ASSUME NEW S, NEW s \in Seq(S), NEW t \in Seq(S)
  PROVE  ToSet(s \o t) = ToSet(s) \cup ToSet(t) /\ s \o t \in Seq(S)
<1>1. Range(s \o t) = Range(s) \cup Range(t)
  BY RangeConcatenation
<1>2. s \o t \in Seq(S)
  BY ConcatProperties
<1> QED
  BY <1>1, <1>2, Zenon DEF ToSet, Range

LEMMA AtFacts ==
  ASSUME NEW S, NEW s \in Seq(S), NEW I \in SUBSET DOMAIN s
  PROVE  At(s, I) \in Seq(S) /\ ToSet(At(s, I)) = {s[i] : i \in I}
<1> DEFINE f == At(s, I)
           n == Cardinality(I)
<1>1. Len(s) \in Nat /\ DOMAIN s = 1 .. Len(s) /\ \A i \in 1 .. Len(s) : s[i] \in S
  BY LenProperties
<1>2. I \in SUBSET Int /\ IsFiniteSet(I)
  <2>1. I \in SUBSET (1 .. Len(s)) /\ IsFiniteSet(1 .. Len(s))
    BY <1>1, FS_Interval
  <2> QED
    BY <1>1, <2>1, FS_Subset
<1>3. /\ InOrder(I) \in Seq(I) /\ Len(InOrder(I)) = n /\ n \in Nat
      /\ \A i \in I : \E k \in 1 .. n : InOrder(I)[k] = i
  BY <1>2, InOrderFacts
<1>4. DOMAIN InOrder(I) = 1 .. n /\ \A k \in 1 .. n : InOrder(I)[k] \in I
  BY <1>3, LenProperties
<1>5. f = [k \in 1 .. n |-> s[InOrder(I)[k]]]
  BY <1>4 DEF At
<1> HIDE DEF n, f
<1>6. \A k \in 1 .. n : f[k] = s[InOrder(I)[k]] /\ f[k] \in S
  BY <1>1, <1>4, <1>5
<1>7. f \in Seq(S)
  <2>1. f \in [1 .. n -> S]
    BY <1>5, <1>6
  <2> QED
    BY <1>3, <2>1, SeqDef
<1>8. DOMAIN f = 1 .. n
  BY <1>5
<1>9. ToSet(f) \subseteq {s[i] : i \in I}
  BY <1>4, <1>6, <1>8 DEF ToSet
<1>10. {s[i] : i \in I} \subseteq ToSet(f)
  <2> SUFFICES ASSUME NEW i \in I
               PROVE  s[i] \in ToSet(f)
    OBVIOUS
  <2>1. PICK k \in 1 .. n : InOrder(I)[k] = i
    BY <1>3
  <2> QED
    BY <1>6, <1>8, <2>1 DEF ToSet
<1> QED
  BY <1>7, <1>9, <1>10 DEF f

LEMMA OnlyFacts ==
  ASSUME NEW S, NEW s \in Seq(S), NEW T
  PROVE  Only(s, T) \in Seq(S) /\ ToSet(Only(s, T)) = ToSet(s) \cap T
<1> DEFINE I == {i \in DOMAIN s : s[i] \in T}
<1>1. I \in SUBSET DOMAIN s
  OBVIOUS
<1>2. At(s, I) \in Seq(S) /\ ToSet(At(s, I)) = {s[i] : i \in I}
  BY <1>1, AtFacts
<1>3. {s[i] : i \in I} = ToSet(s) \cap T
  BY Zenon DEF ToSet
<1> QED
  BY <1>2, <1>3, Zenon DEF Only

(* Every element has a first occurrence. *)
LEMMA FirstOccurrence ==
  ASSUME NEW S, NEW s \in Seq(S), NEW i \in 1 .. Len(s)
  PROVE  \E k \in 1 .. Len(s) : s[k] = s[i] /\ \A j \in 1 .. Len(s) : j < k => s[j] # s[i]
<1> DEFINE K == {k \in 1 .. Len(s) : s[k] = s[i]}
           n == Cardinality(K)
<1>1. Len(s) \in Nat
  BY LenProperties
<1>2. K \in SUBSET Int /\ i \in K /\ IsFiniteSet(K)
  <2>1. K \in SUBSET (1 .. Len(s)) /\ IsFiniteSet(1 .. Len(s))
    BY <1>1, FS_Interval
  <2> QED
    BY <1>1, <2>1, FS_Subset
<1> HIDE DEF K
<1>3. /\ InOrder(K) \in Seq(K) /\ Len(InOrder(K)) = n /\ n \in Nat
      /\ \A m \in K : \E k \in 1 .. n : InOrder(K)[k] = m
      /\ \A j, k \in 1 .. n : j < k => InOrder(K)[j] < InOrder(K)[k]
  BY <1>2, InOrderFacts
<1>4. 1 \in 1 .. n /\ \A k \in 1 .. n : InOrder(K)[k] \in K
  BY <1>2, <1>3, LenProperties
<1>5. PICK k \in K : k = InOrder(K)[1]
  BY <1>4
<1> HIDE DEF n
<1>6. ASSUME NEW m \in K  PROVE ~(m < k)
  <2>1. PICK x \in 1 .. n : InOrder(K)[x] = m
    BY <1>3
  <2>2. x = 1 \/ 1 < x
    BY <1>3
  <2>3. x = 1 => ~(m < k)
    BY <1>2, <1>5, <2>1
  <2>4. 1 < x => k < m
    BY <1>3, <1>4, <1>5, <2>1
  <2>5. k \in Int /\ m \in Int
    BY <1>2
  <2> QED
    BY <2>2, <2>3, <2>4, <2>5
<1>7. k \in 1 .. Len(s) /\ s[k] = s[i]
  BY DEF K
<1> QED
  BY <1>6, <1>7 DEF K

LEMMA DistinctFacts ==
  ASSUME NEW S, NEW s \in Seq(S)
  PROVE  Distinct(s) \in Seq(S) /\ ToSet(Distinct(s)) = ToSet(s)
<1> DEFINE I == {i \in DOMAIN s : \A j \in DOMAIN s : j < i => s[j] # s[i]}
<1>1. I \in SUBSET DOMAIN s
  OBVIOUS
<1>2. At(s, I) \in Seq(S) /\ ToSet(At(s, I)) = {s[i] : i \in I}
  BY <1>1, AtFacts
<1>3. DOMAIN s = 1 .. Len(s)
  BY LenProperties
<1>4. ASSUME NEW i \in DOMAIN s  PROVE s[i] \in {s[k] : k \in I}
  <2>1. i \in 1 .. Len(s)
    BY <1>3
  <2>2. PICK k \in 1 .. Len(s) :
            s[k] = s[i] /\ \A j \in 1 .. Len(s) : j < k => s[j] # s[i]
    BY <2>1, FirstOccurrence
  <2>3. k \in I
    BY <1>3, <2>2
  <2> QED
    BY <2>2, <2>3
<1>5. {s[i] : i \in I} = ToSet(s)
  BY <1>4, Zenon DEF ToSet
<1> QED
  BY <1>2, <1>5, Zenon DEF Distinct
=============================================================================
