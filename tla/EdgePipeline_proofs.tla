-------------------------- MODULE EdgePipeline_proofs --------------------------
(***************************************************************************)
(* Proofs about EdgePipeline, for any texts that speech recognition may    *)
(* return and any bounds of the redactor and the segmenter: its types,     *)
(* that no text is lost, that numbers leave hidden in one segment or over  *)
(* several, and that a partial shows no more than its final would.         *)
(***************************************************************************)
EXTENDS EdgePipeline, SequenceTheorems, FiniteSetTheorems, WellFoundedInduction, TLAPS

-----------------------------------------------------------------------------
(* Numbers.                                                                 *)

(* Of some natural numbers one is the least.                                *)
LEMMA LeastOf ==
  ASSUME NEW S \in SUBSET Nat, S # {}
  PROVE  \E m \in S : \A n \in S : m <= n
  <1> DEFINE below == {0..n : n \in S}
  <1>1. below \subseteq FiniteSubsetsOf(Nat) /\ below # {}
    <2>1. ASSUME NEW n \in S PROVE 0..n \in FiniteSubsetsOf(Nat)
      <3>1. n \in Int /\ 0 \in Int /\ 0..n \in SUBSET Nat
        OBVIOUS
      <3>2. QED
        BY <3>1, FS_Interval DEF FiniteSubsetsOf
    <2>2. QED
      BY <2>1
  <1>2. PICK x \in below : \A y \in below : <<y, x>> \notin StrictSubsetOrdering(Nat)
    <2> HIDE DEF below
    <2>1. QED
      BY <1>1, FS_StrictSubsetOrderingWellFounded, WFMin
  <1>3. PICK m \in S : x = 0..m
    BY <1>2
  <1>4. ASSUME NEW n \in S, n < m PROVE FALSE
    <2>1. 0..n \in below /\ <<0..n, 0..m>> \notin StrictSubsetOrdering(Nat)
      BY <1>2, <1>3
    <2>2. 0..n \in SUBSET Nat /\ 0..m \in SUBSET Nat /\ 0..n \subseteq 0..m
      BY <1>4
    <2>3. m \in 0..m /\ m \notin 0..n
      BY <1>4
    <2>4. QED
      BY <2>1, <2>2, <2>3 DEF StrictSubsetOrdering
  <1>5. QED
    BY <1>4

LEMMA MinIs ==
  ASSUME NEW S \in SUBSET Nat, S # {}
  PROVE  Min(S) \in S /\ \A n \in S : Min(S) <= n
  BY LeastOf DEF Min

LEMMA MaxIs ==
  ASSUME NEW top \in Nat, NEW S \in SUBSET (0..top), S # {}
  PROVE  Max(S) \in S /\ \A n \in S : n <= Max(S)
  <1> DEFINE above == {n \in Nat : \A m \in S : m <= n}
  <1>1. top \in above /\ above \in SUBSET Nat
    OBVIOUS
  <1>2. PICK n \in above : \A m \in above : n <= m
    BY <1>1, LeastOf
  <1>3. n \in S
    <2>1. CASE n = 0
      <3>1. PICK m \in S : TRUE
        OBVIOUS
      <3>2. m \in 0..top /\ m <= 0
        BY <2>1, <1>2, <3>1
      <3>3. m = 0
        BY <3>2
      <3>4. QED
        BY <2>1, <3>1, <3>3
    <2>2. CASE n # 0 /\ n \notin S
      <3>1. n - 1 \in above
        BY <2>2, <1>2
      <3>2. QED
        BY <3>1, <1>2
    <2>3. QED
      BY <2>1, <2>2
  <1>4. QED
    BY <1>2, <1>3 DEF Max

LEMMA Induction ==
  ASSUME NEW T \in SUBSET Nat, 0 \in T, \A n \in T : n + 1 \in T
  PROVE  T = Nat
  <1> SUFFICES ASSUME Nat \ T # {} PROVE FALSE
    OBVIOUS
  <1>1. PICK m \in Nat \ T : \A n \in Nat \ T : m <= n
    BY LeastOf
  <1>2. m - 1 \in Nat /\ m - 1 \in T
    BY <1>1
  <1>3. QED
    BY <1>1, <1>2

-----------------------------------------------------------------------------
(* A set of positions in order.                                             *)

UpTo(S, i) == {j \in S : j <= i}

Positions(S, top) == \A j \in S : j \in Nat /\ 1 <= j /\ j <= top

LEMMA UpToFacts ==
  ASSUME NEW top \in Nat, NEW S \in SUBSET (1..top)
  PROVE  /\ Positions(S, top) /\ IsFiniteSet(S) /\ Cardinality(S) \in Nat
         /\ \A i \in Nat : /\ IsFiniteSet(UpTo(S, i)) /\ Cardinality(UpTo(S, i)) \in Nat
                           /\ Cardinality(UpTo(S, i)) <= Cardinality(S)
         /\ Cardinality(UpTo(S, 0)) = 0 /\ UpTo(S, top) = S
         /\ \A i \in Nat : Cardinality(UpTo(S, i + 1)) = Cardinality(UpTo(S, i))
                             + (IF i + 1 \in S THEN 1 ELSE 0)
  <1>1. Positions(S, top)
    BY DEF Positions
  <1>2. IsFiniteSet(S) /\ Cardinality(S) \in Nat
    <2>1. IsFiniteSet(1..top)
      BY FS_Interval
    <2>2. IsFiniteSet(S)
      BY <2>1, FS_Subset
    <2>3. QED
      BY <2>2, FS_CardinalityType
  <1>3. ASSUME NEW i \in Nat
        PROVE  /\ IsFiniteSet(UpTo(S, i)) /\ Cardinality(UpTo(S, i)) \in Nat
               /\ Cardinality(UpTo(S, i)) <= Cardinality(S)
    <2>1. UpTo(S, i) \in SUBSET S
      BY DEF UpTo
    <2>2. QED
      BY <2>1, <1>2, FS_Subset, FS_CardinalityType
  <1>4. Cardinality(UpTo(S, 0)) = 0
    <2>1. \A j \in S : ~(j <= 0)
      BY <1>1 DEF Positions
    <2>2. UpTo(S, 0) = {}
      BY <2>1 DEF UpTo
    <2>3. QED
      BY <2>2, FS_EmptySet
  <1>5. UpTo(S, top) = S
    <2>1. \A j \in S : j <= top
      BY <1>1 DEF Positions
    <2>2. QED
      BY <2>1 DEF UpTo
  <1>6. ASSUME NEW i \in Nat
        PROVE  Cardinality(UpTo(S, i + 1)) = Cardinality(UpTo(S, i))
                                             + (IF i + 1 \in S THEN 1 ELSE 0)
    <2>1. \A j \in S : j <= i + 1 <=> j <= i \/ j = i + 1
      BY <1>1 DEF Positions
    <2>2. CASE i + 1 \in S
      <3>1. UpTo(S, i + 1) = UpTo(S, i) \cup {i + 1} /\ i + 1 \notin UpTo(S, i)
        <4>1. ~(i + 1 <= i)
          OBVIOUS
        <4>2. QED
          BY <2>1, <2>2, <4>1, Zenon DEF UpTo
      <3>2. Cardinality(UpTo(S, i) \cup {i + 1}) = Cardinality(UpTo(S, i)) + 1
        BY <3>1, <1>3, FS_AddElement
      <3>3. QED
        BY <2>2, <3>1, <3>2
    <2>3. CASE i + 1 \notin S
      <3>1. UpTo(S, i + 1) = UpTo(S, i)
        BY <2>1, <2>3 DEF UpTo
      <3>2. QED
        BY <2>3, <3>1, <1>3
    <2>4. QED
      BY <2>2, <2>3
  <1>7. QED
    BY <1>1, <1>2, <1>3, <1>4, <1>5, <1>6

(* More of the set is counted up to a later position of it.                 *)
LEMMA UpToGrows ==
  ASSUME NEW top \in Nat, NEW S \in SUBSET (1..top), NEW i \in Nat, NEW j \in S, i < j
  PROVE  Cardinality(UpTo(S, i)) < Cardinality(UpTo(S, j))
  <1>1. Positions(S, top)
    BY UpToFacts
  <1>2. PICK n \in Nat : j = n + 1
    <2>1. j \in Nat /\ 1 <= j
      BY <1>1 DEF Positions
    <2>2. j - 1 \in Nat /\ j = (j - 1) + 1
      BY <2>1
    <2>3. QED
      BY <2>2
  <1>3. /\ IsFiniteSet(UpTo(S, n)) /\ Cardinality(UpTo(S, n)) \in Nat
        /\ Cardinality(UpTo(S, n + 1)) = Cardinality(UpTo(S, n)) + 1
    BY <1>2, UpToFacts
  <1>4. UpTo(S, i) \subseteq UpTo(S, n)
    <2>1. \A m \in S : m <= i => m <= n
      BY <1>1, <1>2 DEF Positions
    <2>2. QED
      BY <2>1 DEF UpTo
  <1>5. Cardinality(UpTo(S, i)) \in Nat /\ Cardinality(UpTo(S, i)) <= Cardinality(UpTo(S, n))
    BY <1>3, <1>4, FS_Subset, FS_CardinalityType
  <1>6. QED
    BY <1>2, <1>3, <1>5

(* The k-th of them exists, and is one.                                     *)
LEMMA KthExists ==
  ASSUME NEW top \in Nat, NEW S \in SUBSET (1..top), NEW k \in 1..Cardinality(S)
  PROVE  \E i \in S : Cardinality(UpTo(S, i)) = k
  <1> DEFINE enough == {i \in Nat : Cardinality(UpTo(S, i)) >= k}
  <1>1. /\ Cardinality(S) \in Nat /\ UpTo(S, top) = S /\ Cardinality(UpTo(S, 0)) = 0
        /\ \A i \in Nat : /\ Cardinality(UpTo(S, i)) \in Nat
                          /\ Cardinality(UpTo(S, i + 1)) = Cardinality(UpTo(S, i))
                               + (IF i + 1 \in S THEN 1 ELSE 0)
    BY UpToFacts
  <1>2. top \in enough
    BY <1>1
  <1>3. PICK i \in enough : \A j \in enough : i <= j
    BY <1>2, LeastOf
  <1>4. i # 0
    BY <1>1, <1>3
  <1>5. PICK n \in Nat : i = n + 1
    <2>1. i - 1 \in Nat /\ i = (i - 1) + 1
      BY <1>3, <1>4
    <2>2. QED
      BY <2>1
  <1>6. n \notin enough
    BY <1>3, <1>5
  <1>7. /\ Cardinality(UpTo(S, n)) \in Nat /\ Cardinality(UpTo(S, n)) < k
        /\ Cardinality(UpTo(S, i)) >= k
        /\ Cardinality(UpTo(S, i)) = Cardinality(UpTo(S, n)) + (IF i \in S THEN 1 ELSE 0)
    BY <1>1, <1>3, <1>5, <1>6
  <1>8. QED
    BY <1>7

(* InOrder lists the set once, in ascending order.                          *)
LEMMA InOrderFacts ==
  ASSUME NEW top \in Nat, NEW S \in SUBSET (1..top)
  PROVE  /\ Cardinality(S) \in Nat
         /\ InOrder(S) \in [1..Cardinality(S) -> S]
         /\ InOrder(S) \in Seq(S) /\ Len(InOrder(S)) = Cardinality(S)
         /\ \A k, l \in 1..Cardinality(S) : k < l => InOrder(S)[k] < InOrder(S)[l]
         /\ \A i \in S : \E k \in 1..Cardinality(S) : InOrder(S)[k] = i
  <1>1. Cardinality(S) \in Nat /\ Positions(S, top)
    BY UpToFacts
  <1>2. ASSUME NEW k \in 1..Cardinality(S)
        PROVE  InOrder(S)[k] \in S /\ Cardinality(UpTo(S, InOrder(S)[k])) = k
    <2>1. \E i \in S : Cardinality(UpTo(S, i)) = k
      BY KthExists
    <2>2. InOrder(S)[k] = CHOOSE i \in S : Cardinality(UpTo(S, i)) = k
      BY DEF InOrder, UpTo
    <2>3. QED
      BY <2>1, <2>2
  <1>3. InOrder(S) \in [1..Cardinality(S) -> S]
    <2>1. InOrder(S) = [k \in 1..Cardinality(S) |-> InOrder(S)[k]]
      BY DEF InOrder
    <2>2. QED
      BY <1>2, <2>1
  <1>4. InOrder(S) \in Seq(S) /\ Len(InOrder(S)) = Cardinality(S)
    <2>1. PICK n \in Nat : n = Cardinality(S)
      BY <1>1
    <2>2. InOrder(S) \in [1..n -> S]
      BY <1>3, <2>1
    <2>3. QED
      BY <2>1, <2>2, LenProperties
  <1>5. ASSUME NEW k \in 1..Cardinality(S), NEW l \in 1..Cardinality(S), k < l
        PROVE  InOrder(S)[k] < InOrder(S)[l]
    <2>1. PICK i \in S : i = InOrder(S)[k] /\ Cardinality(UpTo(S, i)) = k
      BY <1>2
    <2>2. PICK j \in S : j = InOrder(S)[l] /\ Cardinality(UpTo(S, j)) = l
      BY <1>2
    <2>3. i \in Nat /\ j \in Nat
      BY <1>1 DEF Positions
    <2>4. ~(j < i)
      <3>1. j < i => l < k
        BY <2>1, <2>2, <2>3, UpToGrows
      <3>2. QED
        BY <3>1, <1>5
    <2>5. i # j
      BY <2>1, <2>2, <1>5
    <2>6. QED
      BY <2>1, <2>2, <2>3, <2>4, <2>5
  <1>6. ASSUME NEW i \in S PROVE \E k \in 1..Cardinality(S) : InOrder(S)[k] = i
    <2>1. i \in Nat /\ 0 < i
      BY <1>1 DEF Positions
    <2>2. PICK k \in Nat : k = Cardinality(UpTo(S, i)) /\ k <= Cardinality(S)
      BY <2>1, UpToFacts
    <2>3. 0 < k
      <3>1. Cardinality(UpTo(S, 0)) = 0
        BY UpToFacts
      <3>2. QED
        BY <2>1, <2>2, <3>1, UpToGrows
    <2>4. k \in 1..Cardinality(S)
      BY <2>2, <2>3, <1>1
    <2>5. PICK j \in S : j = InOrder(S)[k] /\ Cardinality(UpTo(S, j)) = k
      BY <2>4, <1>2
    <2>6. j \in Nat
      BY <1>1 DEF Positions
    <2>7. ~(j < i) /\ ~(i < j)
      <3>1. (j < i => k < k) /\ (i < j => k < k)
        BY <2>1, <2>2, <2>5, <2>6, UpToGrows
      <3>2. QED
        BY <3>1
    <2>8. QED
      BY <2>1, <2>4, <2>5, <2>6, <2>7
  <1>7. QED
    BY <1>1, <1>3, <1>4, <1>5, <1>6
-----------------------------------------------------------------------------
(* Texts and their digits.                                                  *)

Atom == [is : Kinds, n : 0..9]

LEMMA TextFacts ==
  ASSUME NEW text \in Texts
  PROVE  /\ Len(text) \in Nat /\ DOMAIN text = 1..Len(text) /\ text \in Seq(Atom)
         /\ \A i \in 1..Len(text) : text[i] \in Atom
         /\ DigitsOf(text) \in SUBSET (1..Len(text))
         /\ Breaks(text) \in SUBSET DigitsOf(text) /\ Breaks(text) \in SUBSET (1..Len(text))
         /\ Positions(DigitsOf(text), Len(text))
  <1>1. text \in Seq(Atom)
    BY DEF Texts, Atom
  <1>2. /\ Len(text) \in Nat /\ DOMAIN text = 1..Len(text)
        /\ \A i \in 1..Len(text) : text[i] \in Atom
    BY <1>1, LenProperties, ElementOfSeq
  <1>3. DigitsOf(text) \in SUBSET (1..Len(text))
    BY <1>2 DEF DigitsOf
  <1>4. Breaks(text) \in SUBSET DigitsOf(text)
    BY DEF Breaks
  <1>5. QED
    BY <1>1, <1>2, <1>3, <1>4, UpToFacts

(* Two digits next to each other, between which a number cannot go on.      *)
Parted(text, a, b) ==
  /\ a < b /\ (a + 1)..(b - 1) \cap DigitsOf(text) = {}
  /\ \/ \E i \in a..b : text[i].is = "stop"
     \/ WordsBetween(text, a, b) > MaxGapWords

LEMMA BreaksParted ==
  ASSUME NEW text
  PROVE  Breaks(text) = {b \in DigitsOf(text) : \E a \in DigitsOf(text) : Parted(text, a, b)}
  BY DEF Breaks, Parted

(* A set of positions that is moved has as many elements.                   *)
LEMMA MovedCount ==
  ASSUME NEW S, NEW T, NEW k \in Nat, IsFiniteSet(S), S \subseteq Int,
         T = {i + k : i \in S}
  PROVE  IsFiniteSet(T) /\ Cardinality(T) = Cardinality(S)
  <1> DEFINE move == [i \in S |-> i + k]
  <1>1. move \in [S -> T] /\ \A i \in S : move[i] = i + k
    OBVIOUS
  <1>2. \A i, j \in S : move[i] = move[j] => i = j
    BY <1>1
  <1>3. \A t \in T : \E i \in S : move[i] = t
    BY <1>1
  <1> HIDE DEF move
  <1>4. move \in Bijection(S, T)
    BY <1>1, <1>2, <1>3 DEF Bijection, Injection, Surjection, IsInjective
  <1>5. ExistsBijection(S, T)
    BY <1>4 DEF ExistsBijection
  <1>6. QED
    BY <1>5, FS_Bijection

(* Text a is the part of b that follows its first k atoms, or begins it.    *)
PartOf(a, b, k) ==
  /\ a \in Texts /\ b \in Texts /\ k \in Nat /\ k + Len(a) <= Len(b)
  /\ \A i \in 1..Len(a) : a[i] = b[i + k]

LEMMA PartDigits ==
  ASSUME NEW a, NEW b, NEW k, PartOf(a, b, k), NEW i \in 1..Len(a)
  PROVE  i \in DigitsOf(a) <=> i + k \in DigitsOf(b)
  <1>1. Len(a) \in Nat /\ Len(b) \in Nat /\ k \in Nat /\ i \in Nat
    BY TextFacts DEF PartOf
  <1>2. i \in DOMAIN a /\ i + k \in DOMAIN b /\ a[i] = b[i + k]
    BY <1>1, TextFacts DEF PartOf
  <1>3. QED
    BY <1>2 DEF DigitsOf

LEMMA PartWords ==
  ASSUME NEW a, NEW b, NEW k, PartOf(a, b, k), NEW p \in 1..Len(a), NEW q \in 1..Len(a)
  PROVE  WordsBetween(a, p, q) = WordsBetween(b, p + k, q + k)
  <1> DEFINE A == {i \in (p + 1)..(q - 1) : a[i].is \notin {"digit", "stop"}}
             B == {i \in ((p + k) + 1)..((q + k) - 1) : b[i].is \notin {"digit", "stop"}}
  <1>1. /\ Len(a) \in Nat /\ Len(b) \in Nat /\ k \in Nat /\ k + Len(a) <= Len(b)
        /\ \A i \in 1..Len(a) : a[i] = b[i + k]
    BY TextFacts DEF PartOf
  <1>2. IsFiniteSet(A) /\ A \subseteq Int
    <2>1. p + 1 \in Int /\ q - 1 \in Int
      BY <1>1
    <2>2. IsFiniteSet((p + 1)..(q - 1))
      BY <2>1, FS_Interval
    <2>3. QED
      BY <2>2, FS_Subset
  <1>3. B = {i + k : i \in A}
    <2>1. ASSUME NEW i \in A PROVE i + k \in B
      <3>1. i \in 1..Len(a) /\ i + k \in ((p + k) + 1)..((q + k) - 1)
        BY <1>1
      <3>2. a[i] = b[i + k]
        BY <3>1, <1>1
      <3>3. QED
        BY <3>1, <3>2
    <2>2. ASSUME NEW j \in B PROVE j - k \in A /\ j = (j - k) + k
      <3>1. j \in Int /\ j - k \in (p + 1)..(q - 1) /\ j - k \in 1..Len(a) /\ j = (j - k) + k
        BY <1>1
      <3>2. a[j - k] = b[j]
        BY <3>1, <1>1
      <3>3. QED
        BY <3>1, <3>2
    <2> HIDE DEF A, B
    <2>3. QED
      BY <2>1, <2>2
  <1>4. Cardinality(B) = Cardinality(A)
    <2> HIDE DEF A, B
    <2>1. QED
      BY <1>1, <1>2, <1>3, MovedCount
  <1>5. QED
    BY <1>4 DEF WordsBetween

LEMMA PartParted ==
  ASSUME NEW a, NEW b, NEW k, PartOf(a, b, k), NEW p \in 1..Len(a), NEW q \in 1..Len(a)
  PROVE  Parted(a, p, q) <=> Parted(b, p + k, q + k)
  <1>1. /\ Len(a) \in Nat /\ Len(b) \in Nat /\ k \in Nat /\ k + Len(a) <= Len(b)
        /\ \A i \in 1..Len(a) : a[i] = b[i + k]
    BY TextFacts DEF PartOf
  <1>2. WordsBetween(a, p, q) = WordsBetween(b, p + k, q + k)
    BY PartWords
  <1>3. p < q <=> p + k < q + k
    BY <1>1
  <1>4. (\E i \in p..q : a[i].is = "stop") <=> (\E i \in (p + k)..(q + k) : b[i].is = "stop")
    <2>1. ASSUME NEW i \in p..q PROVE i + k \in (p + k)..(q + k) /\ a[i] = b[i + k]
      <3>1. i \in 1..Len(a)
        BY <1>1
      <3>2. QED
        BY <3>1, <1>1
    <2>2. ASSUME NEW j \in (p + k)..(q + k) PROVE j - k \in p..q /\ a[j - k] = b[j]
      <3>1. j - k \in 1..Len(a) /\ j - k \in p..q /\ (j - k) + k = j
        BY <1>1
      <3>2. QED
        BY <3>1, <1>1
    <2>3. QED
      BY <2>1, <2>2
  <1>5. (p + 1)..(q - 1) \cap DigitsOf(a) = {}
          <=> (p + k + 1)..(q + k - 1) \cap DigitsOf(b) = {}
    <2>1. ASSUME NEW i \in (p + 1)..(q - 1), i \in DigitsOf(a)
          PROVE  i + k \in (p + k + 1)..(q + k - 1) /\ i + k \in DigitsOf(b)
      <3>1. i \in 1..Len(a)
        BY <1>1
      <3>2. QED
        BY <3>1, <2>1, <1>1, PartDigits
    <2>2. ASSUME NEW j \in (p + k + 1)..(q + k - 1), j \in DigitsOf(b)
          PROVE  j - k \in (p + 1)..(q - 1) /\ j - k \in DigitsOf(a)
      <3>1. j - k \in 1..Len(a) /\ j - k \in (p + 1)..(q - 1) /\ (j - k) + k = j
        BY <1>1
      <3>2. j - k \in DigitsOf(a)
        BY <3>1, <2>2, PartDigits
      <3>3. QED
        BY <3>1, <3>2
    <2>3. QED
      BY <2>1, <2>2
  <1>6. p + k + 1 = (p + k) + 1 /\ q + k - 1 = (q + k) - 1
    BY <1>1
  <1>7. QED
    BY <1>2, <1>3, <1>4, <1>5, <1>6 DEF Parted

(* A text that begins another has the breaks of the other that are in it.   *)
LEMMA BeginsBreaks ==
  ASSUME NEW a, NEW b, PartOf(a, b, 0)
  PROVE  /\ DigitsOf(a) = {i \in DigitsOf(b) : i <= Len(a)}
         /\ Breaks(a) = {i \in Breaks(b) : i <= Len(a)}
  <1>1. /\ a \in Texts /\ b \in Texts
        /\ Len(a) \in Nat /\ Len(b) \in Nat /\ Len(a) <= Len(b)
        /\ Positions(DigitsOf(a), Len(a)) /\ Positions(DigitsOf(b), Len(b))
    BY TextFacts DEF PartOf
  <1>2. \A i \in 1..Len(a) : i + 0 = i
    BY <1>1
  <1>3. \A i \in 1..Len(a) : i \in DigitsOf(a) <=> i \in DigitsOf(b)
    BY <1>2, PartDigits
  <1>4. \A i \in DigitsOf(b) : i \in Nat /\ (i <= Len(a) => i \in 1..Len(a))
    BY <1>1 DEF Positions
  <1>5. \A i \in DigitsOf(a) : i \in 1..Len(a) /\ i <= Len(a)
    BY <1>1 DEF Positions
  <1>6. DigitsOf(a) = {i \in DigitsOf(b) : i <= Len(a)}
    BY <1>3, <1>4, <1>5
  <1>7. \A p, q \in 1..Len(a) : Parted(a, p, q) <=> Parted(b, p, q)
    BY <1>2, PartParted
  <1>8. ASSUME NEW i \in Breaks(a) PROVE i \in Breaks(b) /\ i <= Len(a)
    BY <1>3, <1>5, <1>7, BreaksParted
  <1>9. ASSUME NEW i \in Breaks(b), i <= Len(a) PROVE i \in Breaks(a)
    <2>1. PICK p \in DigitsOf(b) : Parted(b, p, i)
      BY BreaksParted
    <2>2. i \in DigitsOf(b) /\ p < i
      BY <2>1, BreaksParted DEF Parted
    <2>3. p <= Len(a)
      BY <1>1, <1>4, <1>9, <2>1, <2>2
    <2>4. p \in DigitsOf(a) /\ i \in DigitsOf(a) /\ Parted(a, p, i)
      BY <1>4, <1>6, <1>7, <1>9, <2>1, <2>2, <2>3
    <2>5. QED
      BY <2>4, BreaksParted
  <1>10. QED
    BY <1>6, <1>8, <1>9
-----------------------------------------------------------------------------
(* The runs of a text.                                                      *)

RunOf(text, i) == Joined(text, Breaks(text), i)

LEMMA RunOfFacts ==
  ASSUME NEW text \in Texts, NEW i \in DigitsOf(text)
  PROVE  /\ i \in RunOf(text, i)
         /\ RunOf(text, i) \in SUBSET DigitsOf(text)
         /\ RunOf(text, i) \in SUBSET (1..Len(text))
         /\ \A j \in RunOf(text, i) : RunOf(text, j) = RunOf(text, i)
         /\ \A j, k \in RunOf(text, i) : \A m \in DigitsOf(text) :
              j <= m /\ m <= k => m \in RunOf(text, i)
  <1>1. DigitsOf(text) \in SUBSET (1..Len(text)) /\ Breaks(text) \in SUBSET (1..Len(text))
        /\ Len(text) \in Nat /\ Positions(DigitsOf(text), Len(text))
    BY TextFacts
  <1>2. \A b \in Breaks(text) : b \in Nat
    BY <1>1
  <1>3. i \in RunOf(text, i) /\ RunOf(text, i) \in SUBSET DigitsOf(text)
    BY DEF RunOf, Joined
  <1>4. \A j \in RunOf(text, i) : RunOf(text, j) = RunOf(text, i)
    BY DEF RunOf, Joined
  <1>5. ASSUME NEW j \in RunOf(text, i), NEW k \in RunOf(text, i), NEW m \in DigitsOf(text),
               j <= m, m <= k
        PROVE  m \in RunOf(text, i)
    <2>1. j \in Nat /\ k \in Nat /\ m \in Nat /\ i \in Nat
      BY <1>1, <1>3 DEF Positions
    <2>2. ASSUME NEW b \in Breaks(text) PROVE b <= i <=> b <= m
      <3>1. (b <= i <=> b <= j) /\ (b <= i <=> b <= k) /\ b \in Nat
        BY <1>2 DEF RunOf, Joined
      <3>2. QED
        BY <3>1, <2>1, <1>5
    <2>3. QED
      BY <2>2 DEF RunOf, Joined
  <1>6. QED
    BY <1>1, <1>3, <1>4, <1>5

LEMMA RunsAre ==
  ASSUME NEW text
  PROVE  Runs(text) = {InOrder(digits) : digits \in {RunOf(text, i) : i \in DigitsOf(text)}}
  BY DEF Runs, RunOf

(* The digits of a run, as a set.                                           *)
IsRun(text, digits, run) ==
  \E i \in DigitsOf(text) : digits = RunOf(text, i) /\ run = InOrder(digits)

LEMMA RunIs ==
  ASSUME NEW text, NEW run \in Runs(text)
  PROVE  \E digits : IsRun(text, digits, run)
  BY RunsAre DEF IsRun

LEMMA IsRunIs ==
  ASSUME NEW text, NEW digits, NEW run, IsRun(text, digits, run)
  PROVE  run \in Runs(text)
  BY RunsAre DEF IsRun

LEMMA RunFacts ==
  ASSUME NEW text \in Texts, NEW digits, NEW run, IsRun(text, digits, run)
  PROVE  /\ digits \in SUBSET (1..Len(text)) /\ digits \in SUBSET DigitsOf(text)
         /\ Positions(digits, Len(text))
         /\ Len(run) \in Nat \ {0} /\ Len(run) = Cardinality(digits)
         /\ run \in [1..Len(run) -> digits]
         /\ \A k, l \in 1..Len(run) : k < l => run[k] < run[l]
         /\ \A i \in digits : \E k \in 1..Len(run) : run[k] = i
         /\ \A i \in digits : run[1] <= i /\ i <= run[Len(run)]
  <1>1. PICK i \in DigitsOf(text) : digits = RunOf(text, i) /\ run = InOrder(digits)
    BY DEF IsRun
  <1>2. i \in digits /\ digits \in SUBSET (1..Len(text)) /\ digits \in SUBSET DigitsOf(text)
        /\ Len(text) \in Nat
    BY <1>1, RunOfFacts, TextFacts
  <1>3. /\ Cardinality(digits) \in Nat
        /\ run \in [1..Cardinality(digits) -> digits]
        /\ Len(run) = Cardinality(digits)
        /\ \A k, l \in 1..Cardinality(digits) : k < l => run[k] < run[l]
        /\ \A j \in digits : \E k \in 1..Cardinality(digits) : run[k] = j
    BY <1>1, <1>2, InOrderFacts
  <1>4. Positions(digits, Len(text))
    BY <1>2, UpToFacts
  <1>5. PICK n \in Nat : n = Len(run)
    BY <1>3
  <1>6. n # 0
    <2>1. PICK k \in 1..n : run[k] = i
      BY <1>2, <1>3, <1>5
    <2>2. QED
      BY <2>1
  <1>7. ASSUME NEW j \in digits PROVE run[1] <= j /\ j <= run[n]
    <2>1. PICK k \in 1..n : run[k] = j
      BY <1>3, <1>5
    <2>2. 1 \in 1..n /\ n \in 1..n
      BY <1>6
    <2>3. run[1] \in digits /\ run[n] \in digits
      BY <2>2, <1>3, <1>5
    <2>4. run[1] \in Nat /\ run[n] \in Nat /\ j \in Nat
      BY <2>3, <1>4 DEF Positions
    <2>5. (1 < k => run[1] < j) /\ (k < n => j < run[n])
      BY <2>1, <2>2, <1>3, <1>5
    <2>6. QED
      BY <2>1, <2>4, <2>5
  <1>8. QED
    BY <1>2, <1>3, <1>4, <1>5, <1>6, <1>7

(* Two runs that meet are one.                                              *)
LEMMA RunsMeet ==
  ASSUME NEW text \in Texts, NEW d, NEW e, NEW run, NEW other,
         IsRun(text, d, run), IsRun(text, e, other), d \cap e # {}
  PROVE  d = e /\ run = other
  <1>1. PICK i \in DigitsOf(text) : d = RunOf(text, i) /\ run = InOrder(d)
    BY DEF IsRun
  <1>2. PICK j \in DigitsOf(text) : e = RunOf(text, j) /\ other = InOrder(e)
    BY DEF IsRun
  <1>3. PICK m : m \in d /\ m \in e
    OBVIOUS
  <1>4. RunOf(text, m) = d /\ RunOf(text, m) = e
    BY <1>1, <1>2, <1>3, RunOfFacts
  <1>5. QED
    BY <1>1, <1>2, <1>4

LEMMA RunIsConvex ==
  ASSUME NEW text \in Texts, NEW digits, NEW run, IsRun(text, digits, run),
         NEW j \in digits, NEW k \in digits, NEW m \in DigitsOf(text), j <= m, m <= k
  PROVE  m \in digits
  BY RunOfFacts DEF IsRun

-----------------------------------------------------------------------------
(* The last run of a text, from the digit at r on.                          *)

LEMMA LastRunFacts ==
  ASSUME NEW text \in Texts, DigitsOf(text) # {}
  PROVE  \E digits, r :
           /\ IsRun(text, digits, LastRun(text))
           /\ r = LastRun(text)[1] /\ r \in digits /\ r \in 1..Len(text)
           /\ digits = {j \in DigitsOf(text) : r <= j}
           /\ \A b \in Breaks(text) : b <= r
           /\ \A i \in DigitsOf(text) : i < r => r \in Breaks(text)
  <1> DEFINE D == DigitsOf(text)
             B == Breaks(text)
  <1>1. Len(text) \in Nat /\ D \in SUBSET (1..Len(text)) /\ B \in SUBSET D
        /\ Positions(D, Len(text))
    BY TextFacts
  <1>2. D \in SUBSET (0..Len(text)) /\ B \in SUBSET (0..Len(text))
    BY <1>1
  <1>3. PICK last \in D : last = Max(D) /\ \A j \in D : j <= last
    <2>1. D # {}
      OBVIOUS
    <2> HIDE DEF D
    <2>2. QED
      BY <1>1, <1>2, <2>1, MaxIs
  <1>4. PICK digits : digits = RunOf(text, last) /\ LastRun(text) = InOrder(digits)
    BY <1>3 DEF LastRun, RunOf
  <1>5. IsRun(text, digits, LastRun(text))
    BY <1>3, <1>4 DEF IsRun
  <1>6. PICK r \in digits : r = LastRun(text)[1] /\ \A i \in digits : r <= i
    <2>1. PICK n \in Nat \ {0} : n = Len(LastRun(text))
      BY <1>5, RunFacts
    <2>2. LastRun(text) \in [1..n -> digits] /\ 1 \in 1..n
      BY <1>5, <2>1, RunFacts
    <2>3. QED
      BY <1>5, <2>2, RunFacts
  <1>7. r \in D /\ \A j \in D : j \in Nat
    BY <1>1, <1>4, <1>3, RunOfFacts DEF Positions
  <1>8. ASSUME NEW b \in B PROVE b <= r
    <2>1. b \in D /\ b <= last
      BY <1>1, <1>3
    <2>2. b <= last <=> b <= r
      BY <1>4, <1>6 DEF RunOf, Joined
    <2>3. QED
      BY <2>1, <2>2
  <1>9. digits = {j \in D : r <= j}
    <2>1. ASSUME NEW j \in D, r <= j PROVE j \in digits
      <3>1. ASSUME NEW b \in B PROVE b <= last <=> b <= j
        <4>1. b \in D /\ b <= last /\ b <= r
          BY <1>1, <1>3, <1>8
        <4>2. b <= j
          BY <4>1, <1>7, <2>1
        <4>3. QED
          BY <4>1, <4>2
      <3>2. QED
        BY <3>1, <1>4 DEF RunOf, Joined
    <2>2. ASSUME NEW j \in digits PROVE j \in D /\ r <= j
      BY <1>4, <1>6, <1>3, RunOfFacts
    <2>3. QED
      BY <2>1, <2>2
  <1>10. ASSUME NEW i \in D, i < r PROVE r \in B
    <2>1. i \notin digits
      BY <1>9, <1>10, <1>7
    <2>2. PICK b \in B : ~(b <= last <=> b <= i)
      BY <2>1, <1>4 DEF RunOf, Joined
    <2>3. PICK top \in B : \A c \in B : c <= top
      <3> HIDE DEF B, D
      <3>1. QED
        BY <2>2, <1>1, <1>2, MaxIs
    <2>4. top \in D /\ top <= r
      BY <2>3, <1>1, <1>8
    <2>5. ASSUME NEW c \in B PROVE c <= last <=> c <= top
      BY <2>3, <1>1, <1>3
    <2>6. top \in digits
      BY <2>4, <2>5, <1>4 DEF RunOf, Joined
    <2>7. r <= top
      BY <2>6, <1>6
    <2>8. top = r
      BY <2>4, <2>7, <1>7
    <2>9. QED
      BY <2>3, <2>8
  <1>11. r \in 1..Len(text)
    BY <1>7, <1>1
  <1>12. QED
    BY <1>5, <1>6, <1>8, <1>9, <1>10, <1>11

(* What stands before the last run has the runs of the text but the last.   *)
LEMMA RunsBefore ==
  ASSUME NEW text \in Texts, NEW a, NEW r \in 1..Len(text), PartOf(a, text, 0), Len(a) = r - 1,
         \A i \in DigitsOf(text) : i < r => r \in Breaks(text),
         NEW digits, NEW run, IsRun(a, digits, run)
  PROVE  IsRun(text, digits, run)
  <1>1. PICK i \in DigitsOf(a) : digits = RunOf(a, i) /\ run = InOrder(digits)
    BY DEF IsRun
  <1>2. /\ DigitsOf(a) = {j \in DigitsOf(text) : j <= Len(a)}
        /\ Breaks(a) = {j \in Breaks(text) : j <= Len(a)}
    BY BeginsBreaks
  <1>3. /\ r \in Nat /\ Len(a) \in Nat /\ \A j \in DigitsOf(text) : j \in Nat
        /\ \A b \in Breaks(text) : b \in Nat
    BY TextFacts DEF Positions, PartOf
  <1>4. i \in DigitsOf(text) /\ i < r /\ i <= Len(a)
    BY <1>1, <1>2, <1>3
  <1>5. r \in Breaks(text)
    BY <1>4
  <1>6. ASSUME NEW j \in RunOf(a, i) PROVE j \in RunOf(text, i)
    <2>1. j \in DigitsOf(text) /\ j <= Len(a) /\ j \in Nat
      BY <1>2, <1>3 DEF RunOf, Joined
    <2>2. ASSUME NEW b \in Breaks(text) PROVE b <= i <=> b <= j
      <3>1. CASE b <= Len(a)
        BY <3>1, <1>2 DEF RunOf, Joined
      <3>2. CASE ~(b <= Len(a))
        BY <3>2, <1>3, <1>4, <2>1
      <3>3. QED
        BY <3>1, <3>2
    <2>3. QED
      BY <2>1, <2>2 DEF RunOf, Joined
  <1>7. ASSUME NEW j \in RunOf(text, i) PROVE j \in RunOf(a, i)
    <2>1. j \in DigitsOf(text) /\ j \in Nat
      BY <1>3 DEF RunOf, Joined
    <2>2. r <= i <=> r <= j
      BY <1>5 DEF RunOf, Joined
    <2>3. j <= Len(a)
      BY <2>1, <2>2, <1>3, <1>4
    <2>4. ASSUME NEW b \in Breaks(a) PROVE b <= i <=> b <= j
      BY <1>2 DEF RunOf, Joined
    <2>5. QED
      BY <2>1, <2>3, <2>4, <1>2 DEF RunOf, Joined
  <1>8. RunOf(a, i) = RunOf(text, i)
    BY <1>6, <1>7
  <1>9. QED
    BY <1>1, <1>4, <1>8 DEF IsRun

(* A text without breaks has one run.                                       *)
LEMMA Unbroken ==
  ASSUME NEW text \in Texts, Breaks(text) = {}, NEW i \in DigitsOf(text)
  PROVE  RunOf(text, i) = DigitsOf(text)
  BY DEF RunOf, Joined

(* The text from the last run on is such a text, and as many digits long.   *)
DigitsAfter(text, k) == {j \in DigitsOf(text) : k < j}

LEMMA FromLastRun ==
  ASSUME NEW text \in Texts, NEW h, NEW k \in Nat,
         PartOf(h, text, k), Len(h) + k = Len(text), \A b \in Breaks(text) : b <= k + 1
  PROVE  /\ Breaks(h) = {}
         /\ \A i \in DigitsOf(h) : i + k \in DigitsAfter(text, k)
         /\ \A j \in DigitsAfter(text, k) : j - k \in DigitsOf(h)
         /\ Cardinality(DigitsOf(h)) = Cardinality(DigitsAfter(text, k))
  <1>r. PICK r \in Nat : r = k + 1
    OBVIOUS
  <1>0. PICK digits : /\ digits = DigitsAfter(text, k)
                      /\ \A j : j \in digits <=> j \in DigitsOf(text) /\ k < j
    <2>1. \A j : j \in DigitsAfter(text, k) <=> j \in DigitsOf(text) /\ k < j
      BY Zenon DEF DigitsAfter
    <2>2. QED
      BY <2>1
  <1>1. /\ r \in Nat /\ Len(h) \in Nat /\ Len(text) \in Nat
        /\ Positions(DigitsOf(text), Len(text)) /\ Positions(DigitsOf(h), Len(h))
        /\ DigitsOf(h) \in SUBSET (1..Len(h))
    BY TextFacts DEF PartOf
  <1>2. ASSUME NEW i \in DigitsOf(h)
        PROVE  i \in 1..Len(h) /\ i + k \in digits /\ i \in Nat /\ 1 <= i
    <2>1. i \in 1..Len(h) /\ i \in Nat /\ 1 <= i
      BY <1>1 DEF Positions
    <2>2. i + k \in DigitsOf(text) /\ k < i + k
      BY <2>1, PartDigits
    <2>3. QED
      BY <2>1, <2>2, <1>0
  <1>3. ASSUME NEW j \in digits PROVE j - k \in DigitsOf(h) /\ j = (j - k) + k
    <2>1. j \in Nat /\ k < j /\ j <= Len(text) /\ j \in DigitsOf(text)
      BY <1>0, <1>1 DEF Positions
    <2>2. j - k \in 1..Len(h) /\ (j - k) + k = j
      BY <2>1, <1>1
    <2>3. QED
      BY <2>1, <2>2, PartDigits
  <1>4. ASSUME NEW b \in Breaks(h) PROVE FALSE
    <2>1. PICK a \in DigitsOf(h) : Parted(h, a, b)
      BY BreaksParted
    <2>2. b \in DigitsOf(h) /\ a < b
      BY <2>1, BreaksParted DEF Parted
    <2>3. /\ Parted(text, a + k, b + k) /\ a + k \in DigitsOf(text) /\ b + k \in DigitsOf(text)
      BY <2>1, <2>2, <1>0, <1>2, PartParted
    <2>4. b + k \in Breaks(text)
      BY <2>3, BreaksParted
    <2>5. b + k <= r
      BY <2>4, <1>r
    <2>6. QED
      BY <2>1, <2>2, <2>5, <1>r, <1>2, <1>1
  <1>5. digits = {i + k : i \in DigitsOf(h)}
    BY <1>2, <1>3
  <1>6. IsFiniteSet(DigitsOf(h)) /\ DigitsOf(h) \subseteq Int
    BY <1>1, UpToFacts
  <1>7. Cardinality(digits) = Cardinality(DigitsOf(h))
    BY <1>5, <1>6, MovedCount
  <1>8. QED
    BY <1>0, <1>2, <1>3, <1>4, <1>7
-----------------------------------------------------------------------------
(* What is claimed of a run.                                                *)

NumberTypes == {"CARD", "SSN", "PHONE", "DOB", "ACCOUNT"}

IsClaim(c, pos, avail) ==
  /\ c.type \in NumberTypes /\ c.start = pos /\ c.n \in Nat /\ 1 <= c.n /\ c.n <= avail
  /\ c.conf \in Nat

LEMMA RulesFacts ==
  ASSUME NEW text, NEW extra, NEW run, NEW pos \in Nat, NEW avail \in Nat \ {0},
         avail = Len(run) - pos + 1
  PROVE  /\ DOMAIN Rules(text, extra, run, pos) = 1..8
         /\ \A k \in 1..8 : \A c \in Rules(text, extra, run, pos)[k] : IsClaim(c, pos, avail)
         /\ avail >= 9 => Rules(text, extra, run, pos)[7] # {}
  <1> DEFINE rules == Rules(text, extra, run, pos)
  <1>1. DOMAIN rules = 1..8
    BY DEF Rules
  <1>2. \A c \in rules[1] : IsClaim(c, pos, avail)
    <2>1. ASSUME NEW c \in rules[1]
          PROVE  \E n \in (13..19) \cap (1..(Len(run) - pos + 1)) :
                   c = [type |-> "CARD", start |-> pos, n |-> n, conf |-> 99]
      BY Zenon DEF Rules
    <2>2. QED
      BY <2>1 DEF IsClaim, NumberTypes
  <1>3. \A c \in rules[2] : IsClaim(c, pos, avail)
    BY DEF Rules, IsClaim, NumberTypes
  <1>4. \A c \in rules[3] : IsClaim(c, pos, avail)
    BY DEF Rules, IsClaim, NumberTypes
  <1>5. \A c \in rules[4] : IsClaim(c, pos, avail)
    BY DEF Rules, IsClaim, NumberTypes
  <1>6. \A c \in rules[5] : IsClaim(c, pos, avail)
    <2>1. ASSUME NEW c \in rules[5]
          PROVE  \E n \in {10, 11} \cap (1..(Len(run) - pos + 1)) : \E conf \in {60, 90} :
                   c = [type |-> "PHONE", start |-> pos, n |-> n, conf |-> conf]
      BY DEF Rules
    <2>2. QED
      BY <2>1 DEF IsClaim, NumberTypes
  <1>7. \A c \in rules[6] : IsClaim(c, pos, avail)
    BY DEF Rules, IsClaim, NumberTypes
  <1>8. PICK most \in Nat : most = Min({avail, 12}) /\ most <= avail /\ most <= 12
                            /\ most \in {avail, 12}
    <2>1. {avail, 12} \in SUBSET Nat /\ {avail, 12} # {}
      OBVIOUS
    <2>2. QED
      BY <2>1, MinIs
  <1>9. /\ \A c \in rules[7] :
             \E n \in {most} \ 0..(UNCLAIMED_MIN - 1) : \E conf \in {40, 85} :
               c = [type |-> "ACCOUNT", start |-> pos, n |-> n, conf |-> conf]
        /\ \A n \in {most} \ 0..(UNCLAIMED_MIN - 1) : rules[7] # {}
    <2>1. most = Min({Len(run) - pos + 1, 12})
      BY <1>8
    <2>2. rules[7] = {[type |-> "ACCOUNT", start |-> pos, n |-> n,
                       conf |-> IF HasContext(text, run[pos], run[pos + n - 1], "ACCOUNT", extra)
                                THEN 85 ELSE 40] :
                      n \in {Min({Len(run) - pos + 1, 12})} \ 0..(UNCLAIMED_MIN - 1)}
      BY DEF Rules
    <2> HIDE DEF rules
    <2>3. ASSUME NEW c \in rules[7]
          PROVE  \E n \in {most} \ 0..(UNCLAIMED_MIN - 1) : \E conf \in {40, 85} :
                   c = [type |-> "ACCOUNT", start |-> pos, n |-> n, conf |-> conf]
      <3>1. PICK n \in {most} \ 0..(UNCLAIMED_MIN - 1) :
              c = [type |-> "ACCOUNT", start |-> pos, n |-> n,
                   conf |-> IF HasContext(text, run[pos], run[pos + n - 1], "ACCOUNT", extra)
                            THEN 85 ELSE 40]
        BY <2>1, <2>2, <2>3
      <3>2. QED
        BY <3>1
    <2>4. ASSUME NEW n \in {most} \ 0..(UNCLAIMED_MIN - 1) PROVE rules[7] # {}
      <3>1. n \in {Min({Len(run) - pos + 1, 12})} \ 0..(UNCLAIMED_MIN - 1)
        BY <2>1
      <3>2. [type |-> "ACCOUNT", start |-> pos, n |-> n,
             conf |-> IF HasContext(text, run[pos], run[pos + n - 1], "ACCOUNT", extra)
                      THEN 85 ELSE 40] \in rules[7]
        BY <3>1, <2>2, Zenon
      <3>3. QED
        BY <3>2
    <2>5. QED
      BY <2>3, <2>4
  <1>14. \A c \in rules[7] : IsClaim(c, pos, avail)
    <2>1. ASSUME NEW c \in rules[7] PROVE IsClaim(c, pos, avail)
      <3> HIDE DEF rules
      <3>1. PICK n \in {most} \ 0..(UNCLAIMED_MIN - 1), conf \in {40, 85} :
              c = [type |-> "ACCOUNT", start |-> pos, n |-> n, conf |-> conf]
        BY <1>9, <2>1
      <3>2. n \in Nat /\ 1 <= n /\ n <= avail
        BY <1>8 DEF UNCLAIMED_MIN
      <3>3. QED
        BY <3>1, <3>2 DEF IsClaim, NumberTypes
    <2>2. QED
      BY <2>1
  <1>10. \A c \in rules[8] : IsClaim(c, pos, avail)
    BY DEF Rules, IsClaim, NumberTypes, IDENTIFIER_MIN
  <1>11. avail >= 9 => rules[7] # {}
    <2>1. avail >= 9 => most \in {most} \ 0..(UNCLAIMED_MIN - 1)
      BY <1>8 DEF UNCLAIMED_MIN
    <2>2. QED
      BY <2>1, <1>9
  <1> HIDE DEF rules
  <1>12. \A k \in 1..8 : \A c \in rules[k] : IsClaim(c, pos, avail)
    <2>1. \A k \in 1..8 : k = 1 \/ k = 2 \/ k = 3 \/ k = 4 \/ k = 5 \/ k = 6 \/ k = 7 \/ k = 8
      OBVIOUS
    <2>2. QED
      BY <2>1, <1>2, <1>3, <1>4, <1>5, <1>6, <1>7, <1>14, <1>10
  <1>13. QED
    BY <1>1, <1>11, <1>12 DEF rules

LEMMA ClassifyFacts ==
  ASSUME NEW text, NEW extra, NEW run, NEW pos \in Nat, NEW avail \in Nat \ {0},
         avail = Len(run) - pos + 1
  PROVE  /\ \A c \in Classify(text, extra, run, pos) : IsClaim(c, pos, avail)
         /\ avail >= 9 => Classify(text, extra, run, pos) # {}
  <1> DEFINE rules == Rules(text, extra, run, pos)
             first == FirstThat(rules)
  <1>1. /\ DOMAIN rules = 1..8
        /\ \A k \in 1..8 : \A c \in rules[k] : IsClaim(c, pos, avail)
        /\ avail >= 9 => rules[7] # {}
    BY RulesFacts
  <1>2. Classify(text, extra, run, pos) = Longest(first)
    BY DEF Classify
  <1> HIDE DEF rules
  <1>3. \A c \in first : IsClaim(c, pos, avail)
    BY <1>1 DEF FirstThat
  <1>4. ASSUME avail >= 9 PROVE first # {}
    <2> DEFINE some == {k \in Nat : k \in 1..8 /\ rules[k] # {}}
    <2>1. some \in SUBSET Nat /\ some # {}
      BY <1>1, <1>4
    <2>2. PICK k \in some : \A l \in some : k <= l
      <3> HIDE DEF some
      <3>1. QED
        BY <2>1, LeastOf
    <2>3. \A l \in 1..(k - 1) : rules[l] = {}
      BY <2>2
    <2>4. PICK c : c \in rules[k]
      BY <2>2
    <2>5. k \in DOMAIN rules /\ c \in UNION ToSet(rules)
      BY <2>2, <2>4, <1>1 DEF ToSet
    <2>6. c \in first
      BY <2>3, <2>4, <2>5 DEF FirstThat
    <2>7. QED
      BY <2>6
  <1> HIDE DEF first
  <1>5. ASSUME first # {} PROVE Longest(first) # {}
    <2> DEFINE lengths == {n \in 0..avail : \E c \in first : c.n = n}
    <2>1. lengths \in SUBSET (0..avail) /\ lengths # {} /\ \A c \in first : c.n \in lengths
      BY <1>3, <1>5 DEF IsClaim
    <2>2. PICK top \in lengths : \A n \in lengths : n <= top
      <3> HIDE DEF lengths
      <3>1. QED
        BY <2>1, MaxIs
    <2>3. PICK c \in first : c.n = top
      BY <2>2
    <2>4. \A d \in first : d.n <= c.n
      BY <2>1, <2>2, <2>3
    <2>5. QED
      BY <2>3, <2>4 DEF Longest
  <1>6. Longest(first) \subseteq first
    BY DEF Longest
  <1>7. QED
    BY <1>2, <1>3, <1>4, <1>5, <1>6
(* What is claimed from a position on, when f is what is claimed from the   *)
(* later ones on.                                                           *)
Follow(f, text, extra, run, pos) ==
  IF pos > Len(run) THEN {}
  ELSE IF Classify(text, extra, run, pos) = {} THEN f[pos + 1]
  ELSE {OneOf(Classify(text, extra, run, pos))}
         \cup f[pos + OneOf(Classify(text, extra, run, pos)).n]

Scanned(f, low, text, extra, run) ==
  f = [pos \in low..(Len(run) + 1) |-> Follow(f, text, extra, run, pos)]

LEMMA OneOfFacts ==
  ASSUME NEW text, NEW extra, NEW run, NEW L \in Nat, L = Len(run), NEW pos \in 1..L,
         Classify(text, extra, run, pos) # {}
  PROVE  \E c : /\ c = OneOf(Classify(text, extra, run, pos))
                /\ c.type \in NumberTypes /\ c.conf \in Nat /\ c.start = pos
                /\ pos + c.n \in (pos + 1)..(L + 1)
  <1>1. PICK avail \in Nat \ {0} : avail = L - pos + 1
    <2>1. L - pos + 1 \in Nat \ {0}
      OBVIOUS
    <2>2. QED
      BY <2>1
  <1>2. \A c \in Classify(text, extra, run, pos) : IsClaim(c, pos, avail)
    BY <1>1, ClassifyFacts
  <1>3. PICK c \in Classify(text, extra, run, pos) : c = OneOf(Classify(text, extra, run, pos))
    BY DEF OneOf
  <1>4. IsClaim(c, pos, avail)
    BY <1>2
  <1>5. QED
    BY <1>1, <1>3, <1>4 DEF IsClaim

(* Two functions that agree on the later positions.                         *)
LEMMA FollowSame ==
  ASSUME NEW text, NEW extra, NEW run, NEW L \in Nat, L = Len(run), NEW pos \in 1..(L + 1),
         NEW f, NEW g, \A q \in (pos + 1)..(L + 1) : f[q] = g[q]
  PROVE  Follow(f, text, extra, run, pos) = Follow(g, text, extra, run, pos)
  <1>1. CASE pos > L
    BY <1>1 DEF Follow
  <1>2. CASE pos <= L /\ Classify(text, extra, run, pos) = {}
    <2>1. pos + 1 \in (pos + 1)..(L + 1)
      BY <1>2
    <2>2. QED
      BY <2>1, <1>2 DEF Follow
  <1>3. CASE pos <= L /\ Classify(text, extra, run, pos) # {}
    <2>1. pos \in 1..L
      BY <1>3
    <2>2. PICK c : /\ c = OneOf(Classify(text, extra, run, pos))
                   /\ pos + c.n \in (pos + 1)..(L + 1)
      BY <2>1, <1>3, OneOfFacts
    <2>3. f[pos + c.n] = g[pos + c.n]
      BY <2>2
    <2>4. QED
      BY <2>2, <2>3, <1>3 DEF Follow
  <1>4. QED
    BY <1>1, <1>2, <1>3

LEMMA ScanExists ==
  ASSUME NEW text, NEW extra, NEW run, NEW L \in Nat, L = Len(run)
  PROVE  \E f : Scanned(f, 1, text, extra, run)
  <1> DEFINE T == {m \in Nat : m <= L => \E f : Scanned(f, L + 1 - m, text, extra, run)}
  <1>1. 0 \in T
    <2> DEFINE f == [pos \in (L + 1)..(L + 1) |-> {}]
    <2>1. \A pos \in (L + 1)..(L + 1) : Follow(f, text, extra, run, pos) = {}
      BY DEF Follow
    <2>2. Scanned(f, L + 1, text, extra, run)
      BY <2>1 DEF Scanned
    <2>3. L + 1 - 0 = L + 1
      OBVIOUS
    <2>4. QED
      BY <2>2, <2>3
  <1>2. ASSUME NEW m \in T PROVE m + 1 \in T
    <2> SUFFICES ASSUME m + 1 <= L
                 PROVE  \E f : Scanned(f, L + 1 - (m + 1), text, extra, run)
      OBVIOUS
    <2>1. PICK low \in 1..L : low = L + 1 - (m + 1) /\ L + 1 - m = low + 1
      <3>1. L + 1 - (m + 1) \in 1..L /\ L + 1 - m = (L + 1 - (m + 1)) + 1
        OBVIOUS
      <3>2. QED
        BY <3>1
    <2>2. PICK f : Scanned(f, low + 1, text, extra, run)
      BY <2>1
    <2> DEFINE g == [pos \in low..(L + 1) |->
                       IF pos = low THEN Follow(f, text, extra, run, low) ELSE f[pos]]
    <2>3. \A q \in (low + 1)..(L + 1) : g[q] = f[q]
      OBVIOUS
    <2>4. ASSUME NEW pos \in low..(L + 1) PROVE g[pos] = Follow(g, text, extra, run, pos)
      <3>1. pos \in 1..(L + 1) /\ \A q \in (pos + 1)..(L + 1) : g[q] = f[q]
        BY <2>3
      <3>2. Follow(f, text, extra, run, pos) = Follow(g, text, extra, run, pos)
        <4> HIDE DEF g
        <4>1. QED
          BY <3>1, FollowSame
      <3>3. CASE pos = low
        BY <3>2, <3>3
      <3>4. CASE pos # low
        <4>1. pos \in (low + 1)..(L + 1)
          BY <3>4
        <4>2. g[pos] = f[pos] /\ f[pos] = Follow(f, text, extra, run, pos)
          BY <4>1, <2>2, <2>3 DEF Scanned
        <4>3. QED
          BY <3>2, <4>2
      <3>5. QED
        BY <3>3, <3>4
    <2>5. g = [pos \in low..(L + 1) |-> g[pos]]
      OBVIOUS
    <2>6. Scanned(g, low, text, extra, run)
      <3> HIDE DEF g
      <3>1. QED
        BY <2>4, <2>5 DEF Scanned
    <2>7. QED
      BY <2>1, <2>6
  <1>3. T = Nat
    <2> HIDE DEF T
    <2>1. T \in SUBSET Nat
      BY DEF T
    <2>2. QED
      BY <1>1, <1>2, <2>1, Induction
  <1>4. L + 1 - L = 1 /\ L \in T
    BY <1>3
  <1>5. QED
    BY <1>4

(* The claims on a run: each begins at a digit of it, no two at the same.   *)
Claims(found, L) ==
  /\ \A c \in found : c.type \in NumberTypes /\ c.conf \in Nat /\ c.start \in 1..L
  /\ \A c, d \in found : c.start = d.start => c = d

LEMMA ScanFacts ==
  ASSUME NEW text, NEW extra, NEW run, NEW L \in Nat \ {0}, L = Len(run)
  PROVE  /\ Claims(Scan(text, extra, run), L)
         /\ L >= 9 => Scan(text, extra, run) # {}
  <1>1. PICK f : Scanned(f, 1, text, extra, run) /\ Scan(text, extra, run) = f[1]
    <2>1. \E f : Scanned(f, 1, text, extra, run)
      BY ScanExists
    <2>2. QED
      BY <2>1 DEF Scan, Scanned, Follow
  <1>2. \A pos \in 1..(L + 1) : f[pos] = Follow(f, text, extra, run, pos)
    BY <1>1 DEF Scanned
  <1> DEFINE Good(pos) == Claims(f[pos], L) /\ \A c \in f[pos] : pos <= c.start
             T == {m \in Nat : \A pos \in 1..(L + 1) : pos + m >= L + 1 => Good(pos)}
  <1>3. 0 \in T
    <2>1. ASSUME NEW pos \in 1..(L + 1), pos + 0 >= L + 1 PROVE Good(pos)
      <3>0. f[pos] = Follow(f, text, extra, run, pos)
        BY <1>2
      <3>1. f[pos] = {}
        BY <2>1, <3>0 DEF Follow
      <3>2. QED
        BY <3>1 DEF Claims
    <2>2. QED
      BY <2>1
  <1>4. ASSUME NEW m \in T PROVE m + 1 \in T
    <2> SUFFICES ASSUME NEW pos \in 1..(L + 1), pos + (m + 1) >= L + 1 PROVE Good(pos)
      OBVIOUS
    <2>1. \A q \in (pos + 1)..(L + 1) : Good(q)
      <3>1. \A q \in (pos + 1)..(L + 1) : q \in 1..(L + 1) /\ q + m >= L + 1
        OBVIOUS
      <3>2. QED
        BY <3>1
    <2> HIDE DEF T
    <2>2. CASE pos > L
      <3>0. f[pos] = Follow(f, text, extra, run, pos)
        BY <1>2
      <3>1. f[pos] = {}
        BY <2>2, <3>0 DEF Follow
      <3>2. QED
        BY <3>1 DEF Claims
    <2>3. CASE pos <= L /\ Classify(text, extra, run, pos) = {}
      <3>0. f[pos] = Follow(f, text, extra, run, pos)
        BY <1>2
      <3>1. f[pos] = f[pos + 1]
        BY <2>3, <3>0 DEF Follow
      <3>2. pos + 1 \in (pos + 1)..(L + 1)
        BY <2>3
      <3>3. Good(pos + 1)
        BY <2>1, <3>2
      <3>4. \A c \in f[pos] : pos <= c.start
        BY <3>1, <3>3 DEF Claims
      <3>5. QED
        BY <3>1, <3>3, <3>4
    <2>4. CASE pos <= L /\ Classify(text, extra, run, pos) # {}
      <3>1. pos \in 1..L
        BY <2>4
      <3>2. PICK c : /\ c = OneOf(Classify(text, extra, run, pos))
                     /\ c.type \in NumberTypes /\ c.conf \in Nat /\ c.start = pos
                     /\ pos + c.n \in (pos + 1)..(L + 1)
        BY <3>1, <2>4, OneOfFacts
      <3>0. f[pos] = Follow(f, text, extra, run, pos)
        BY <1>2
      <3>3. f[pos] = {c} \cup f[pos + c.n]
        BY <2>4, <3>2, <3>0 DEF Follow
      <3>4. Good(pos + c.n)
        BY <2>1, <3>2
      <3>5. \A d \in f[pos + c.n] : pos < d.start
        BY <3>2, <3>4 DEF Claims
      <3>6. Claims(f[pos], L)
        BY <3>1, <3>2, <3>3, <3>4, <3>5 DEF Claims
      <3>7. \A d \in f[pos] : pos <= d.start
        BY <3>2, <3>3, <3>5, <3>6 DEF Claims
      <3>8. QED
        BY <3>6, <3>7
    <2>5. QED
      BY <2>2, <2>3, <2>4
  <1>5. T = Nat
    <2> HIDE DEF T
    <2>1. T \in SUBSET Nat
      BY DEF T
    <2>2. QED
      BY <1>3, <1>4, <2>1, Induction
  <1>6. Good(1)
    <2>1. L \in T /\ 1 \in 1..(L + 1) /\ 1 + L >= L + 1
      BY <1>5
    <2>2. QED
      BY <2>1
  <1>7. ASSUME L >= 9 PROVE f[1] # {}
    <2>1. L = L - 1 + 1 /\ L >= 9 /\ ~(1 > L)
      BY <1>7
    <2>2. Classify(text, extra, run, 1) # {}
      BY <2>1, ClassifyFacts
    <2>3. f[1] = Follow(f, text, extra, run, 1)
      BY <1>2
    <2>4. QED
      BY <2>1, <2>2, <2>3 DEF Follow
  <1>8. QED
    BY <1>1, <1>6, <1>7

(* The digits of a run, by their places in it, that a claim is widened to.  *)
Left(found, c) == IF \E d \in found : d.start < c.start THEN c.start ELSE 1

Right(found, c, L) ==
  Min({d.start : d \in {e \in found : e.start > c.start}} \cup {L + 1}) - 1

Widened(d, run, found, c, L) ==
  /\ d.type = c.type /\ d.first = run[Left(found, c)] /\ d.last = run[Right(found, c, L)]
  /\ d.conf \in {c.conf, Min({c.conf, 90})}

LEMMA AbsorbIs ==
  ASSUME NEW run, NEW found, NEW L, L = Len(run)
  PROVE  /\ \A d \in Absorb(run, found) : \E c \in found : Widened(d, run, found, c, L)
         /\ \A c \in found : \E d \in Absorb(run, found) : Widened(d, run, found, c, L)
         /\ \A d, e \in Absorb(run, found) : d # e =>
              \E c, b \in found : /\ c # b /\ Widened(d, run, found, c, L)
                                  /\ Widened(e, run, found, b, L)
  <1> DEFINE Wide(c) ==
        [type |-> c.type, first |-> run[Left(found, c)], last |-> run[Right(found, c, L)],
         conf |-> IF Right(found, c, L) - Left(found, c) + 1 > c.n
                  THEN Min({c.conf, 90}) ELSE c.conf]
  <1>1. Absorb(run, found) = {Wide(c) : c \in found}
    BY DEF Absorb, Left, Right
  <1>2. \A c \in found : Widened(Wide(c), run, found, c, L)
    BY DEF Widened
  <1> HIDE DEF Wide
  <1>3. QED
    BY <1>1, <1>2

LEMMA LeftRight ==
  ASSUME NEW L \in Nat \ {0}, NEW found, Claims(found, L), NEW c \in found
  PROVE  /\ Left(found, c) \in 1..L /\ Right(found, c, L) \in 1..L
         /\ Left(found, c) <= c.start /\ c.start <= Right(found, c, L)
         /\ \A d \in found : c.start < d.start =>
              /\ Left(found, d) = d.start /\ Right(found, c, L) < d.start
         /\ Right(found, c, L) # L =>
              \E d \in found : c.start < d.start /\ Right(found, c, L) = d.start - 1
  <1>1. \A d \in found : d.start \in 1..L
    BY DEF Claims
  <1> DEFINE S == {d.start : d \in {e \in found : e.start > c.start}} \cup {L + 1}
  <1>2. \A m \in S : m \in Nat /\ c.start < m /\ m <= L + 1
    BY <1>1
  <1>3. S \in SUBSET Nat /\ S # {}
    BY <1>2
  <1>4. Right(found, c, L) = Min(S) - 1
    BY DEF Right
  <1>5. \A d \in found : c.start < d.start => d.start \in S
    BY <1>1
  <1>6. \A m \in S : m # L + 1 => \E d \in found : c.start < d.start /\ m = d.start
    BY <1>1
  <1> HIDE DEF S
  <1>7. PICK m \in S : m = Min(S) /\ \A n \in S : m <= n
    BY <1>3, MinIs
  <1>8. Left(found, c) \in 1..L /\ Left(found, c) <= c.start
    BY <1>1 DEF Left
  <1>9. Right(found, c, L) = m - 1 /\ m \in Nat /\ c.start < m /\ m <= L + 1
    BY <1>2, <1>4, <1>7
  <1>10. \A d \in found : c.start < d.start => Left(found, d) = d.start
    BY DEF Left
  <1>11. \A d \in found : c.start < d.start => m <= d.start
    BY <1>5, <1>7
  <1>12. Right(found, c, L) \in 1..L /\ c.start <= Right(found, c, L)
    BY <1>1, <1>9
  <1>13. \A d \in found : c.start < d.start => Right(found, c, L) < d.start
    BY <1>1, <1>9, <1>11
  <1>14. ASSUME Right(found, c, L) # L
         PROVE \E d \in found : c.start < d.start /\ Right(found, c, L) = d.start - 1
    <2>1. m # L + 1
      BY <1>14, <1>9
    <2>2. QED
      BY <2>1, <1>6, <1>7, <1>9
  <1>15. QED
    BY <1>8, <1>10, <1>12, <1>13, <1>14

(* Every digit of a run that has a claim is widened to.                     *)
LEMMA Covered ==
  ASSUME NEW L \in Nat \ {0}, NEW found, Claims(found, L), found # {}, NEW i \in 1..L
  PROVE  \E c \in found : Left(found, c) <= i /\ i <= Right(found, c, L)
  <1>1. \A d \in found : d.start \in 1..L
    BY DEF Claims
  <1> DEFINE S == {d.start : d \in found}
             T == {d.start : d \in {e \in found : Left(found, e) <= i}}
  <1>2. PICK a \in found : \A d \in found : a.start <= d.start
    <2>1. S \in SUBSET Nat /\ S # {}
      BY <1>1
    <2>2. PICK m \in S : \A n \in S : m <= n
      BY <2>1, LeastOf
    <2>3. QED
      BY <2>2
  <1>3. Left(found, a) = 1
    <2>1. \A d \in found : ~(d.start < a.start)
      BY <1>1, <1>2
    <2>2. QED
      BY <2>1 DEF Left
  <1>4. T \in SUBSET (0..L) /\ T # {}
    BY <1>1, <1>3
  <1>5. PICK c \in found : Left(found, c) <= i
                           /\ \A d \in found : Left(found, d) <= i => d.start <= c.start
    <2>1. Max(T) \in T /\ \A n \in T : n <= Max(T)
      BY <1>4, MaxIs
    <2>2. \A d \in found : Left(found, d) <= i => d.start \in T
      OBVIOUS
    <2>3. PICK c \in found : Left(found, c) <= i /\ c.start = Max(T)
      BY <2>1
    <2> HIDE DEF T
    <2>4. QED
      BY <2>1, <2>2, <2>3
  <1>6. Right(found, c, L) \in 1..L
    BY LeftRight
  <1>7. i <= Right(found, c, L)
    <2> SUFFICES ASSUME Right(found, c, L) < i PROVE FALSE
      BY <1>6
    <2>1. Right(found, c, L) # L
      BY <1>6
    <2>2. PICK d \in found : c.start < d.start /\ Right(found, c, L) = d.start - 1
      BY <2>1, LeftRight
    <2>3. Left(found, d) = d.start
      BY <2>2, LeftRight
    <2>4. d.start <= i /\ d.start \in Nat /\ c.start \in Nat
      BY <1>1, <2>2
    <2>5. QED
      BY <1>5, <2>2, <2>3, <2>4
  <1>8. QED
    BY <1>5, <1>7

-----------------------------------------------------------------------------
(* What is detected in a run.                                               *)

IsNumber(d) == d.type \in NumberTypes /\ d.conf \in Nat

LEMMA RunDetectionsFacts ==
  ASSUME NEW text \in Texts, NEW extra, NEW digits, NEW run, IsRun(text, digits, run)
  PROVE  /\ \A d \in RunDetections(text, extra, run) :
              /\ IsNumber(d) /\ d.first \in digits /\ d.last \in digits /\ d.first <= d.last
         /\ \A d, e \in RunDetections(text, extra, run) : d # e => ~Overlap(d, e)
         /\ RunDetections(text, extra, run) # {} =>
              \A i \in digits : \E d \in RunDetections(text, extra, run) :
                d.first <= i /\ i <= d.last
         /\ Len(run) >= 9 => RunDetections(text, extra, run) # {}
  <1>1. PICK L \in Nat \ {0} :
          /\ L = Len(run) /\ run \in [1..L -> digits] /\ Positions(digits, Len(text))
          /\ \A k, l \in 1..L : k < l => run[k] < run[l]
          /\ \A i \in digits : \E k \in 1..L : run[k] = i
    BY RunFacts
  <1>2. PICK found : found = Scan(text, extra, run) /\ Claims(found, L) /\ (L >= 9 => found # {})
    BY <1>1, ScanFacts
  <1>3. PICK D : D = RunDetections(text, extra, run) /\ D = Absorb(run, found)
    BY <1>2 DEF RunDetections
  <1>4. /\ \A d \in D : \E c \in found : Widened(d, run, found, c, L)
        /\ \A c \in found : \E d \in D : Widened(d, run, found, c, L)
        /\ \A d, e \in D : d # e =>
              \E c, b \in found : /\ c # b /\ Widened(d, run, found, c, L)
                                  /\ Widened(e, run, found, b, L)
    BY <1>1, <1>3, AbsorbIs
  <1>5. \A c \in found : /\ Left(found, c) \in 1..L /\ Right(found, c, L) \in 1..L
                         /\ Left(found, c) <= c.start /\ c.start <= Right(found, c, L)
                         /\ c.start \in 1..L /\ c.type \in NumberTypes /\ c.conf \in Nat
    BY <1>2, LeftRight DEF Claims
  <1>6. \A k, l \in 1..L : k <= l => run[k] <= run[l] /\ run[k] \in Nat /\ run[l] \in Nat
    <2> SUFFICES ASSUME NEW k \in 1..L, NEW l \in 1..L, k <= l
                 PROVE  run[k] <= run[l] /\ run[k] \in Nat /\ run[l] \in Nat
      OBVIOUS
    <2>1. run[k] \in Nat /\ run[l] \in Nat
      BY <1>1 DEF Positions
    <2>2. CASE k = l
      BY <2>1, <2>2
    <2>3. CASE k < l
      BY <2>1, <2>3, <1>1
    <2>4. QED
      BY <2>2, <2>3
  <1>7. ASSUME NEW d \in D
        PROVE  IsNumber(d) /\ d.first \in digits /\ d.last \in digits /\ d.first <= d.last
    <2>1. PICK c \in found : Widened(d, run, found, c, L)
      BY <1>4
    <2>2. d.first \in digits /\ d.last \in digits
      BY <2>1, <1>1, <1>5 DEF Widened
    <2>3. Left(found, c) <= Right(found, c, L)
      BY <1>5
    <2>4. d.first <= d.last
      BY <2>1, <2>3, <1>5, <1>6 DEF Widened
    <2>5. {c.conf, 90} \in SUBSET Nat /\ {c.conf, 90} # {}
      BY <1>5
    <2>6. Min({c.conf, 90}) \in Nat
      BY <2>5, MinIs
    <2>7. IsNumber(d)
      BY <2>1, <2>6, <1>5 DEF Widened, IsNumber
    <2>8. QED
      BY <2>2, <2>4, <2>7
  <1>8. ASSUME NEW b \in found, NEW c \in found, b.start < c.start, NEW d, NEW e,
               Widened(d, run, found, b, L), Widened(e, run, found, c, L)
        PROVE  ~Overlap(d, e) /\ ~Overlap(e, d)
    <2>1. Left(found, c) = c.start /\ Right(found, b, L) < c.start
      BY <1>8, <1>2, LeftRight
    <2>2. run[Right(found, b, L)] < run[Left(found, c)]
      BY <2>1, <1>1, <1>5
    <2>3. d.last < e.first
      BY <2>2, <1>8 DEF Widened
    <2>4. run[Right(found, b, L)] \in Nat /\ run[Left(found, c)] \in Nat
      BY <1>5, <1>6
    <2>5. d.last \in Nat /\ e.first \in Nat
      BY <2>4, <1>8 DEF Widened
    <2>6. QED
      BY <2>3, <2>5 DEF Overlap
  <1>9. ASSUME NEW d \in D, NEW e \in D, d # e PROVE ~Overlap(d, e)
    <2>1. PICK c \in found, b \in found : /\ c # b /\ Widened(d, run, found, c, L)
                                          /\ Widened(e, run, found, b, L)
      BY <1>4, <1>9
    <2>2. c.start < b.start \/ b.start < c.start
      <3>1. c.start # b.start /\ c.start \in Nat /\ b.start \in Nat
        BY <2>1, <1>2, <1>5 DEF Claims
      <3>2. QED
        BY <3>1
    <2>3. QED
      BY <2>1, <2>2, <1>8
  <1>10. ASSUME D # {}, NEW i \in digits PROVE \E d \in D : d.first <= i /\ i <= d.last
    <2>1. PICK k \in 1..L : run[k] = i
      BY <1>1
    <2>2. found # {}
      BY <1>10, <1>4
    <2>3. PICK c \in found : Left(found, c) <= k /\ k <= Right(found, c, L)
      BY <2>2, <1>2, Covered
    <2>4. PICK d \in D : Widened(d, run, found, c, L)
      BY <1>4
    <2>5. run[Left(found, c)] <= run[k] /\ run[k] <= run[Right(found, c, L)]
      BY <2>3, <1>5, <1>6
    <2>6. QED
      BY <2>1, <2>4, <2>5 DEF Widened
  <1>11. L >= 9 => D # {}
    BY <1>2, <1>4
  <1>12. QED
    BY <1>1, <1>3, <1>7, <1>9, <1>10, <1>11

-----------------------------------------------------------------------------
(* Which of the detections are kept.                                        *)

IsDetection(d) ==
  d.type \in NumberTypes \cup {"PERSON"} /\ d.first \in Int /\ d.last \in Int /\ d.conf \in Nat

(* No detection gives way to itself, and a number never to a name.          *)
LEMMA StrongerFacts ==
  ASSUME NEW d, IsDetection(d)
  PROVE  /\ ~Stronger(d, d)
         /\ \A e : d.type = "PERSON" /\ IsDetection(e) /\ e.type \in NumberTypes
                     => ~Stronger(d, e)
  <1> DEFINE rank(x) == <<TYPE_PRIORITY[x.type], x.first - x.last, -x.conf, x.first>>
  <1>1. \A x, y : Stronger(x, y) <=> \E k \in 1..4 : rank(x)[k] < rank(y)[k]
                                        /\ \A l \in 1..(k - 1) : rank(x)[l] = rank(y)[l]
    BY DEF Stronger
  <1>2. \A t \in NumberTypes : TYPE_PRIORITY[t] \in 0..4
    BY DEF NumberTypes, TYPE_PRIORITY
  <1>3. TYPE_PRIORITY["PERSON"] = 6
    BY DEF TYPE_PRIORITY
  <1>4. /\ rank(d)[1] \in Int /\ rank(d)[2] \in Int /\ rank(d)[3] \in Int /\ rank(d)[4] \in Int
    BY <1>2, <1>3 DEF IsDetection
  <1>5. \A k \in 1..4 : rank(d)[k] \in Int
    <2> HIDE DEF rank
    <2>1. QED
      BY <1>4
  <1>6. ~Stronger(d, d)
    <2> HIDE DEF rank
    <2>1. QED
      BY <1>1, <1>5
  <1>7. ASSUME NEW e, d.type = "PERSON", IsDetection(e), e.type \in NumberTypes, Stronger(d, e)
        PROVE  FALSE
    <2>1. rank(d)[1] = 6 /\ rank(e)[1] \in 0..4
      BY <1>2, <1>3, <1>7
    <2> HIDE DEF rank
    <2>2. PICK k \in 1..4 : rank(d)[k] < rank(e)[k] /\ \A l \in 1..(k - 1) : rank(d)[l] = rank(e)[l]
      BY <1>1, <1>7
    <2>3. CASE k = 1
      BY <2>1, <2>2, <2>3
    <2>4. CASE k # 1
      BY <2>1, <2>2, <2>4
    <2>5. QED
      BY <2>3, <2>4
  <1>8. QED
    BY <1>6, <1>7

Beats(e, d) == Stronger(e, d) /\ Overlap(d, e)

(* Nothing in the set gives way to anything in it.                          *)
Settled(S) == \A d, e \in S : ~Beats(e, d)

(* If some detections give way to none, and the others to none of each      *)
(* other, then these are kept, and of the others those that give way to     *)
(* none of these.                                                           *)
LEMMA ResolveFacts ==
  ASSUME NEW all, NEW D \in SUBSET all, \A d \in D : \A e \in all : ~Beats(e, d),
         \A d, e \in all \ D : ~Beats(e, d)
  PROVE  D \subseteq Resolve(all) /\ Resolve(all) \subseteq all /\ Settled(Resolve(all))
  <1> DEFINE Solves(k) == k = [d \in all |-> ~\E e \in all : Stronger(e, d) /\ Overlap(d, e) /\ k[e]]
             w == [d \in all |-> ~\E e \in D : Beats(e, d)]
             kept == CHOOSE k : Solves(k)
  <1>1. \A d \in D : w[d] = TRUE
    BY Zenon
  <1>2. Solves(w)
    <2>1. ASSUME NEW d \in all
          PROVE  (~\E e \in D : Beats(e, d))
                   = (~\E e \in all : Stronger(e, d) /\ Overlap(d, e) /\ w[e])
      <3>1. ASSUME NEW e \in D, Beats(e, d)
            PROVE  \E b \in all : Stronger(b, d) /\ Overlap(d, b) /\ w[b]
        <4>1. w[e] /\ Stronger(e, d) /\ Overlap(d, e) /\ e \in all
          BY <1>1, <3>1 DEF Beats
        <4> HIDE DEF w
        <4>2. QED
          BY <4>1
      <3>2. ASSUME NEW e \in all, Stronger(e, d), Overlap(d, e), w[e]
            PROVE  \E b \in D : Beats(b, d)
        <4>1. Beats(e, d)
          BY <3>2 DEF Beats
        <4>2. d \notin D
          BY <4>1
        <4>3. e \in D
          BY <4>1, <4>2
        <4>4. QED
          BY <4>1, <4>3
      <3> HIDE DEF w
      <3>3. QED
        BY <3>1, <3>2
    <2>2. QED
      BY <2>1, Zenon
  <1> HIDE DEF w
  <1>3. Solves(kept)
    BY <1>2
  <1>4. Resolve(all) = {d \in all : kept[d]}
    BY DEF Resolve
  <1> HIDE DEF kept
  <1>5. \A d \in all : kept[d] = (~\E e \in all : Stronger(e, d) /\ Overlap(d, e) /\ kept[e])
    BY <1>3, Zenon
  <1>6. Resolve(all) \subseteq all
    BY <1>4
  <1>7. D \subseteq Resolve(all)
    BY <1>4, <1>5, Zenon DEF Beats
  <1>8. \A d, e \in Resolve(all) : ~Beats(e, d)
    BY <1>4, <1>5, Zenon DEF Beats
  <1>9. QED
    BY <1>6, <1>7, <1>8 DEF Settled

(* What gives way to nothing is kept as it is.                              *)
LEMMA ResolveSettled ==
  ASSUME NEW all, Settled(all)
  PROVE  Resolve(all) = all
  <1>1. \A d \in all : \A e \in all : ~Beats(e, d)
    BY DEF Settled
  <1>2. all \in SUBSET all /\ \A d, e \in all \ all : ~Beats(e, d)
    OBVIOUS
  <1>3. all \subseteq Resolve(all) /\ Resolve(all) \subseteq all
    BY <1>1, <1>2, ResolveFacts
  <1>4. QED
    BY <1>3

-----------------------------------------------------------------------------
(* What is detected in a text: the numbers of its runs, and names.          *)

Numbers(text, extra) == UNION {RunDetections(text, extra, run) : run \in Runs(text)}

LEMMA NumberOf ==
  ASSUME NEW text \in Texts, NEW extra, NEW d \in Numbers(text, extra)
  PROVE  \E digits, run :
           /\ IsRun(text, digits, run) /\ d \in RunDetections(text, extra, run)
           /\ IsNumber(d) /\ d.first \in digits /\ d.last \in digits /\ d.first <= d.last
           /\ digits \in SUBSET DigitsOf(text) /\ digits \in SUBSET (1..Len(text))
  <1>1. PICK run \in Runs(text) : d \in RunDetections(text, extra, run)
    BY DEF Numbers
  <1>2. PICK digits : IsRun(text, digits, run)
    BY RunIs
  <1>3. digits \in SUBSET DigitsOf(text) /\ digits \in SUBSET (1..Len(text))
    BY <1>2, RunFacts
  <1>4. IsNumber(d) /\ d.first \in digits /\ d.last \in digits /\ d.first <= d.last
    BY <1>1, <1>2, RunDetectionsFacts
  <1>5. QED
    BY <1>1, <1>2, <1>3, <1>4

(* Two numbers that share a position are one.                               *)
LEMMA NumbersApart ==
  ASSUME NEW text \in Texts, NEW extra, NEW d \in Numbers(text, extra),
         NEW e \in Numbers(text, extra), Overlap(d, e)
  PROVE  d = e
  <1>1. PICK a, run : /\ IsRun(text, a, run) /\ d \in RunDetections(text, extra, run)
                      /\ d.first \in a /\ d.last \in a /\ d.first <= d.last
                      /\ a \in SUBSET DigitsOf(text) /\ a \in SUBSET (1..Len(text))
    BY NumberOf
  <1>2. PICK b, other : /\ IsRun(text, b, other) /\ e \in RunDetections(text, extra, other)
                        /\ e.first \in b /\ e.last \in b /\ e.first <= e.last
                        /\ b \in SUBSET DigitsOf(text) /\ b \in SUBSET (1..Len(text))
    BY NumberOf
  <1>3. d.first \in Int /\ d.last \in Int /\ e.first \in Int /\ e.last \in Int
    <2>1. 1..Len(text) \subseteq Int
      OBVIOUS
    <2>2. QED
      BY <2>1, <1>1, <1>2, Zenon
  <1>4. d.first <= e.last /\ e.first <= d.last
    BY DEF Overlap
  <1>5. a \cap b # {}
    <2>1. CASE d.first <= e.first
      <3>1. e.first \in DigitsOf(text)
        BY <1>2
      <3>2. e.first \in a
        BY <2>1, <3>1, <1>1, <1>4, RunIsConvex
      <3>3. QED
        BY <3>2, <1>2
    <2>2. CASE e.first <= d.first
      <3>1. d.first \in DigitsOf(text)
        BY <1>1
      <3>2. d.first \in b
        BY <2>2, <3>1, <1>2, <1>4, RunIsConvex
      <3>3. QED
        BY <3>2, <1>1
    <2>3. QED
      BY <2>1, <2>2, <1>3
  <1>6. run = other
    BY <1>1, <1>2, <1>5, RunsMeet
  <1>7. QED
    BY <1>1, <1>2, <1>6, RunDetectionsFacts

LEMMA NumbersFacts ==
  ASSUME NEW text \in Texts, NEW extra, NEW d \in Numbers(text, extra)
  PROVE  /\ IsNumber(d) /\ IsDetection(d)
         /\ d.first \in DigitsOf(text) /\ d.last \in DigitsOf(text) /\ d.first <= d.last
         /\ d.first \in 1..Len(text) /\ d.last \in 1..Len(text)
         /\ \A digits, run : IsRun(text, digits, run) => (d.first \in digits <=> d.last \in digits)
  <1>1. PICK a, run : /\ IsRun(text, a, run) /\ IsNumber(d)
                      /\ d.first \in a /\ d.last \in a /\ d.first <= d.last
                      /\ a \in SUBSET DigitsOf(text) /\ a \in SUBSET (1..Len(text))
    BY NumberOf
  <1>2. ASSUME NEW b, NEW other, IsRun(text, b, other), d.first \in b \/ d.last \in b
        PROVE  d.first \in b /\ d.last \in b
    <2>1. a \cap b # {}
      BY <1>1, <1>2
    <2>2. a = b
      BY <2>1, <1>1, <1>2, RunsMeet
    <2>3. QED
      BY <2>2, <1>1
  <1>3. IsDetection(d)
    <2>1. 1..Len(text) \subseteq Int
      OBVIOUS
    <2>2. d.first \in Int /\ d.last \in Int
      BY <2>1, <1>1, Zenon
    <2>3. QED
      BY <2>2, <1>1 DEF IsDetection, IsNumber
  <1>4. QED
    BY <1>1, <1>2, <1>3

(* If a number of a run is detected, every digit of the run is in one.      *)
LEMMA RunIsClaimed ==
  ASSUME NEW text \in Texts, NEW extra, NEW digits, NEW run, IsRun(text, digits, run),
         Len(run) >= 9 \/ \E d \in Numbers(text, extra) : d.first \in digits,
         NEW i \in digits
  PROVE  \E d \in Numbers(text, extra) : d.first <= i /\ i <= d.last /\ d.last \in digits
  <1>1. RunDetections(text, extra, run) # {}
    <2>1. CASE Len(run) >= 9
      BY <2>1, RunDetectionsFacts
    <2>2. CASE \E d \in Numbers(text, extra) : d.first \in digits
      <3>1. PICK d \in Numbers(text, extra) : d.first \in digits
        BY <2>2
      <3>2. PICK a, other : /\ IsRun(text, a, other) /\ d \in RunDetections(text, extra, other)
                            /\ d.first \in a
        BY NumberOf
      <3>3. digits \cap a # {}
        BY <3>1, <3>2
      <3>4. run = other
        BY <3>2, <3>3, RunsMeet
      <3>5. QED
        BY <3>2, <3>4
    <2>3. QED
      BY <2>1, <2>2
  <1>2. PICK d \in RunDetections(text, extra, run) : d.first <= i /\ i <= d.last /\ d.last \in digits
    BY <1>1, RunDetectionsFacts
  <1>3. run \in Runs(text)
    BY IsRunIs
  <1>4. d \in Numbers(text, extra)
    BY <1>2, <1>3 DEF Numbers
  <1>5. QED
    BY <1>2, <1>4

LEMMA NamesFacts ==
  ASSUME NEW text \in Texts, NEW d \in Names(text)
  PROVE  /\ IsDetection(d) /\ d.type = "PERSON"
         /\ d.first \in 1..Len(text) /\ d.last = d.first /\ text[d.first].is = "name"
         /\ \A e \in Names(text) : Overlap(d, e) => d = e
  <1>1. DOMAIN text = 1..Len(text) /\ Len(text) \in Nat
    BY TextFacts
  <1>2. PICK i \in 1..Len(text) :
          text[i].is = "name" /\ d = [type |-> "PERSON", first |-> i, last |-> i, conf |-> 75]
    BY <1>1 DEF Names
  <1>3. ASSUME NEW e \in Names(text), Overlap(d, e) PROVE d = e
    <2>1. PICK j \in 1..Len(text) : e = [type |-> "PERSON", first |-> j, last |-> j, conf |-> 75]
      BY <1>1 DEF Names
    <2>2. i = j
      BY <2>1, <1>2, <1>3, <1>1 DEF Overlap
    <2>3. QED
      BY <2>1, <2>2, <1>2
  <1>4. QED
    BY <1>2, <1>3 DEF IsDetection

LEMMA DetectFacts ==
  ASSUME NEW text \in Texts, NEW extra
  PROVE  /\ Numbers(text, extra) \subseteq Detect(text, extra)
         /\ Detect(text, extra) \subseteq Numbers(text, extra) \cup Names(text)
         /\ Settled(Detect(text, extra))
  <1> DEFINE D == Numbers(text, extra)
             all == Names(text) \cup D
  <1>1. Detect(text, extra) = Resolve(all)
    BY DEF Detect, Numbers
  <1>2. \A d \in D : IsDetection(d) /\ d.type \in NumberTypes
    BY NumbersFacts DEF IsNumber
  <1>3. \A e \in Names(text) : IsDetection(e) /\ e.type = "PERSON"
    BY NamesFacts
  <1>4. \A d \in D : \A e \in all : ~Beats(e, d)
    <2> SUFFICES ASSUME NEW d \in D, NEW e \in all, Beats(e, d) PROVE FALSE
      OBVIOUS
    <2>1. Stronger(e, d) /\ Overlap(d, e)
      BY DEF Beats
    <2>2. CASE e \in Names(text)
      BY <2>1, <2>2, <1>2, <1>3, StrongerFacts
    <2>3. CASE e \in D
      <3>1. d = e
        BY <2>1, <2>3, NumbersApart
      <3>2. QED
        BY <2>1, <3>1, <1>2, StrongerFacts
    <2>4. QED
      BY <2>2, <2>3
  <1>5. \A d, e \in all \ D : ~Beats(e, d)
    <2> SUFFICES ASSUME NEW d \in Names(text), NEW e \in Names(text), Beats(e, d) PROVE FALSE
      OBVIOUS
    <2>1. Stronger(e, d) /\ Overlap(d, e)
      BY DEF Beats
    <2>2. d = e
      BY <2>1, NamesFacts
    <2>3. QED
      BY <2>1, <2>2, <1>3, StrongerFacts
  <1>6. D \in SUBSET all
    OBVIOUS
  <1> HIDE DEF D, all
  <1>7. D \subseteq Resolve(all) /\ Resolve(all) \subseteq all /\ Settled(Resolve(all))
    BY <1>4, <1>5, <1>6, ResolveFacts
  <1>8. QED
    BY <1>1, <1>7 DEF D, all

-----------------------------------------------------------------------------
(* What is claimed of a held fragment that nothing else claims: all of its  *)
(* digits, n atoms of the text being the fragment.                          *)
Added(d, text, n) ==
  /\ d.first \in DigitsOf(text) /\ d.last \in DigitsOf(text) /\ d.first <= d.last /\ d.last <= n
  /\ \A i \in DigitsOf(text) : i <= n => d.first <= i /\ i <= d.last

LEMMA ProtectFacts ==
  ASSUME NEW text \in Texts, NEW extra, NEW n \in 0..Len(text), NEW P,
         P = Protect(text, n, Detect(text, extra))
  PROVE  /\ Numbers(text, extra) \subseteq P
         /\ \A d \in P : d \in Numbers(text, extra) \/ d \in Names(text) \/ Added(d, text, n)
         /\ \/ \E d \in P : d \in Numbers(text, extra) \cup Names(text) /\ d.first <= n
            \/ \E d \in P : Added(d, text, n)
            \/ Cardinality({i \in DigitsOf(text) : i <= n}) < 3
  <1>1. /\ Len(text) \in Nat /\ DigitsOf(text) \in SUBSET (1..Len(text)) /\ n \in Nat
    BY TextFacts
  <1>2. PICK digits : digits = DigitsOf(text) \cap 1..n
    OBVIOUS
  <1>3. digits = {i \in DigitsOf(text) : i <= n}
    <2>1. \A i \in DigitsOf(text) : i \in Nat /\ (i \in 1..n <=> i <= n)
      BY <1>1
    <2>2. QED
      BY <1>2, <2>1, Zenon
  <1>4. PICK found : found = Detect(text, extra)
    OBVIOUS
  <1>5. /\ Numbers(text, extra) \subseteq found /\ Settled(found)
        /\ found \subseteq Numbers(text, extra) \cup Names(text)
    BY <1>4, DetectFacts
  <1> DEFINE acc == [type |-> "ACCOUNT", first |-> Min(digits), last |-> Max(digits), conf |-> 50]
             none == ~(\E d \in found : d.first <= n) /\ ~(Cardinality(digits) < 3)
  <1>6. P = IF none THEN Resolve(found \cup {acc}) ELSE found
    <2>1. MIN_HOLD_DIGITS = 3
      BY DEF MIN_HOLD_DIGITS
    <2>2. P = IF (\E d \in found : d.first <= n) \/ Cardinality(digits) < 3
              THEN found ELSE Resolve(found \cup {acc})
      BY <1>2, <1>4, <2>1 DEF Protect
    <2>3. QED
      BY <2>2
  <1>7. CASE ~none
    <2>1. P = found
      BY <1>6, <1>7
    <2>2. QED
      BY <2>1, <1>3, <1>5, <1>7
  <1>8. CASE none
    <2>1. digits # {}
      <3> SUFFICES ASSUME digits = {} PROVE FALSE
        OBVIOUS
      <3>1. Cardinality(digits) = 0
        BY FS_EmptySet
      <3>2. ~(Cardinality(digits) < 3)
        BY <1>8
      <3>3. QED
        BY <3>1, <3>2
    <2>2. digits \in SUBSET (0..n) /\ digits \in SUBSET Nat
      BY <1>1, <1>2
    <2>3. Min(digits) \in digits /\ \A i \in digits : Min(digits) <= i
      BY <2>1, <2>2, MinIs
    <2>4. Max(digits) \in digits /\ \A i \in digits : i <= Max(digits)
      BY <1>1, <2>1, <2>2, MaxIs
    <2>5. PICK a : a = acc /\ a.type = "ACCOUNT" /\ a.conf = 50
                   /\ a.first = Min(digits) /\ a.last = Max(digits)
      <3>1. /\ acc.type = "ACCOUNT" /\ acc.conf = 50
            /\ acc.first = Min(digits) /\ acc.last = Max(digits)
        OBVIOUS
      <3> HIDE DEF acc
      <3>2. QED
        BY <3>1
    <2>6. a.first \in digits /\ a.last \in digits /\ \A i \in digits : a.first <= i /\ i <= a.last
      BY <2>3, <2>4, <2>5
    <2>7. a.first \in Nat /\ a.last \in Nat /\ a.last <= n
      BY <2>6, <1>2, <1>1
    <2>8. IsDetection(a)
      BY <2>5, <2>7 DEF IsDetection, NumberTypes
    <2>9. \A d \in found : ~(d.first <= n) /\ d.first \in Int
      <3>1. \A d \in Numbers(text, extra) : IsDetection(d)
        BY NumbersFacts
      <3>2. \A d \in Names(text) : IsDetection(d)
        BY NamesFacts
      <3>3. QED
        BY <3>1, <3>2, <1>5, <1>8 DEF IsDetection
    <2>10. \A d \in found : ~Overlap(d, a) /\ ~Overlap(a, d)
      BY <2>7, <2>9, <1>1 DEF Overlap
    <2>11. ~Beats(a, a)
      BY <2>8, StrongerFacts DEF Beats
    <2>12. Settled(found \cup {a})
      BY <2>10, <2>11, <1>5 DEF Settled, Beats
    <2>13. P = found \cup {a}
      BY <2>5, <2>12, <1>6, <1>8, ResolveSettled
    <2>14. Added(a, text, n)
      <3>1. a.first <= a.last
        BY <2>6
      <3>2. \A i \in DigitsOf(text) : i <= n => i \in digits
        BY <1>3
      <3>3. QED
        BY <3>1, <3>2, <2>6, <2>7, <1>2 DEF Added
    <2>15. QED
      BY <2>13, <2>14, <1>5
  <1>9. QED
    BY <1>7, <1>8

-----------------------------------------------------------------------------
(* What is held back of a text.                                             *)

(* A held fragment: it begins with a digit, all of its digits may be one    *)
(* number, and there are enough of them to be claimed.                      *)
Fragment(text) ==
  /\ text \in Texts
  /\ 1 \in DigitsOf(text)
  /\ Breaks(text) = {}
  /\ Cardinality(DigitsOf(text)) >= 3

HeldIsFragment == carry = <<>> \/ Fragment(carry)

(* Where a text is cut: behind it, or where its last run begins, which has  *)
(* digits enough to be a fragment.                                          *)
CutAt(text, at) ==
  \/ at = Len(text) + 1
  \/ /\ DigitsOf(text) # {} /\ at = LastRun(text)[1]
     /\ \E digits : IsRun(text, digits, LastRun(text)) /\ Cardinality(digits) >= 3

LEMMA HoldPointFacts ==
  ASSUME NEW text \in Texts, NEW detections, NEW extra, NEW final \in BOOLEAN
  PROVE  CutAt(text, HoldPoint(text, detections, extra, final))
  <1>1. CASE DigitsOf(text) = {}
    BY <1>1 DEF HoldPoint, CutAt
  <1>2. CASE DigitsOf(text) # {}
    <2>1. PICK run : run = LastRun(text)
      OBVIOUS
    <2>2. HoldPoint(text, detections, extra, final)
            = IF MayGoOn(text, run, detections, extra, final) THEN run[1] ELSE Len(text) + 1
      BY <1>2, <2>1 DEF HoldPoint
    <2>3. ASSUME MayGoOn(text, run, detections, extra, final)
          PROVE  CutAt(text, HoldPoint(text, detections, extra, final))
      <3>1. PICK digits : IsRun(text, digits, run)
        BY <1>2, <2>1, LastRunFacts
      <3>2. Len(run) \in Nat /\ Len(run) = Cardinality(digits)
        BY <3>1, RunFacts
      <3>3. Len(run) \in 3..18
        BY <2>3 DEF MayGoOn, MIN_HOLD_DIGITS, MAX_PII_DIGITS
      <3>4. Cardinality(digits) >= 3
        BY <3>2, <3>3
      <3>5. QED
        BY <3>1, <3>4, <2>1, <2>2, <2>3, <1>2 DEF CutAt
    <2>4. QED
      BY <2>2, <2>3 DEF CutAt
  <1>3. QED
    BY <1>1, <1>2

(* A hold of a preview is one that its final may have no longer, and is     *)
(* never cut elsewhere.                                                     *)
LEMMA HoldPointsOf ==
  ASSUME NEW text \in Texts, NEW detections, NEW extra
  PROVE  \/ HoldPoint(text, detections, extra, TRUE) = HoldPoint(text, detections, extra, FALSE)
         \/ HoldPoint(text, detections, extra, TRUE) = Len(text) + 1
  <1>1. \A run : MayGoOn(text, run, detections, extra, TRUE)
                   => MayGoOn(text, run, detections, extra, FALSE)
    BY DEF MayGoOn
  <1>2. QED
    BY <1>1 DEF HoldPoint

LEMMA CutFacts ==
  ASSUME NEW text \in Texts, NEW at, CutAt(text, at)
  PROVE  /\ at \in 1..(Len(text) + 1)
         /\ at = Len(text) + 1 \/
              \E last : /\ IsRun(text, last, LastRun(text)) /\ at \in last /\ at \in 1..Len(text)
                        /\ last = {j \in DigitsOf(text) : at <= j} /\ Cardinality(last) >= 3
                        /\ \A b \in Breaks(text) : b <= at
                        /\ \A i \in DigitsOf(text) : i < at => at \in Breaks(text)
  <1>1. Len(text) \in Nat
    BY TextFacts
  <1>2. CASE at = Len(text) + 1
    BY <1>1, <1>2
  <1>3. CASE at # Len(text) + 1
    <2>1. DigitsOf(text) # {} /\ at = LastRun(text)[1]
      BY <1>3 DEF CutAt
    <2>2. PICK digits : IsRun(text, digits, LastRun(text)) /\ Cardinality(digits) >= 3
      BY <1>3 DEF CutAt
    <2>3. PICK last : /\ IsRun(text, last, LastRun(text))
                      /\ at \in last /\ at \in 1..Len(text)
                      /\ last = {j \in DigitsOf(text) : at <= j}
                      /\ \A b \in Breaks(text) : b <= at
                      /\ \A i \in DigitsOf(text) : i < at => at \in Breaks(text)
      BY <2>1, LastRunFacts
    <2>4. Cardinality(last) = Cardinality(digits)
      BY <2>2, <2>3, RunFacts
    <2>5. Cardinality(last) >= 3
      BY <2>2, <2>4
    <2>6. at \in 1..(Len(text) + 1)
      BY <1>1, <2>3
    <2>7. QED
      BY <2>3, <2>5, <2>6
  <1>4. QED
    BY <1>2, <1>3

(* No run is cut in two.                                                    *)
LEMMA CutKeepsRuns ==
  ASSUME NEW text \in Texts, NEW at, CutAt(text, at), NEW digits, NEW run,
         IsRun(text, digits, run), NEW i \in digits, i < at, NEW j \in digits
  PROVE  j < at
  <1>1. /\ digits \in SUBSET (1..Len(text)) /\ digits \in SUBSET DigitsOf(text)
        /\ Len(text) \in Nat /\ Positions(digits, Len(text))
    BY RunFacts, TextFacts
  <1>2. i \in Nat /\ j \in Nat /\ j <= Len(text)
    BY <1>1 DEF Positions
  <1>3. at \in 1..(Len(text) + 1)
    BY CutFacts
  <1> SUFFICES ASSUME ~(j < at) PROVE FALSE
    OBVIOUS
  <1>4. at # Len(text) + 1
    BY <1>1, <1>2
  <1>5. PICK last : /\ IsRun(text, last, LastRun(text))
                    /\ last = {k \in DigitsOf(text) : at <= k}
    BY <1>4, CutFacts
  <1>6. at <= j
    BY <1>1, <1>2, <1>3
  <1>7. j \in last
    BY <1>1, <1>5, <1>6
  <1>8. digits = last
    <2>1. digits \cap last # {}
      BY <1>7
    <2>2. QED
      BY <2>1, <1>5, RunsMeet
  <1>9. at <= i
    BY <1>5, <1>8
  <1>10. QED
    BY <1>2, <1>3, <1>9

LEMMA PartsJoin ==
  ASSUME NEW text, NEW a, NEW h, NEW k, PartOf(a, text, 0), PartOf(h, text, k),
         Len(a) = k, Len(a) + Len(h) = Len(text)
  PROVE  a \o h = text
  <1>1. /\ a \in Seq(Atom) /\ h \in Seq(Atom) /\ text \in Seq(Atom)
        /\ Len(a) \in Nat /\ Len(h) \in Nat /\ Len(text) \in Nat
    BY TextFacts DEF PartOf
  <1>2. /\ a \o h \in Seq(Atom) /\ Len(a \o h) = Len(a) + Len(h)
        /\ \A i \in 1..(Len(a) + Len(h)) :
             (a \o h)[i] = IF i <= Len(a) THEN a[i] ELSE h[i - Len(a)]
    BY <1>1, ConcatProperties
  <1>3. ASSUME NEW i \in 1..Len(text) PROVE (a \o h)[i] = text[i]
    <2>1. (a \o h)[i] = IF i <= Len(a) THEN a[i] ELSE h[i - k]
      BY <1>2
    <2>2. CASE i <= Len(a)
      <3>1. i \in 1..Len(a) /\ i + 0 = i
        BY <2>2, <1>1
      <3>2. QED
        BY <3>1, <2>1, <2>2 DEF PartOf
    <2>3. CASE ~(i <= Len(a))
      <3>1. i - k \in 1..Len(h) /\ i - k + k = i
        BY <2>3, <1>1
      <3>2. QED
        BY <3>1, <2>1, <2>3 DEF PartOf
    <2>4. QED
      BY <2>2, <2>3
  <1>4. QED
    BY <1>1, <1>2, <1>3, SeqEqual

(* The two parts of a text that is cut.                                     *)
LEMMA PartsFacts ==
  ASSUME NEW text \in Texts, NEW at \in 1..(Len(text) + 1)
  PROVE  \E a, h : /\ a = SubSeq(text, 1, at - 1) /\ h = SubSeq(text, at, Len(text))
                   /\ PartOf(a, text, 0) /\ Len(a) = at - 1
                   /\ PartOf(h, text, at - 1) /\ Len(h) = Len(text) - (at - 1)
                   /\ a \o h = text
  <1>0. PICK a, h : a = SubSeq(text, 1, at - 1) /\ h = SubSeq(text, at, Len(text))
    OBVIOUS
  <1>1. PICK n \in Nat : /\ n = Len(text) /\ text \in Seq(Atom) /\ DOMAIN text = 1..n
                         /\ \A i \in 1..n : text[i] \in Atom
    BY TextFacts
  <1>2. at \in Int /\ at - 1 \in Nat /\ at - 1 <= n /\ at \in 1..(n + 1)
    BY <1>1
  <1>3. (\A i \in 1..(at - 1) : text[i] \in Atom) /\ (\A i \in at..n : text[i] \in Atom)
    BY <1>1, <1>2
  <1>4. /\ a \in Seq(Atom) /\ Len(a) = at - 1
        /\ \A i \in 1..(at - 1) : a[i] = text[i]
    <2>1. /\ SubSeq(text, 1, at - 1) \in Seq(Atom)
          /\ Len(SubSeq(text, 1, at - 1)) = IF 1 <= at - 1 THEN at - 1 - 1 + 1 ELSE 0
          /\ \A i \in 1..(at - 1 - 1 + 1) : SubSeq(text, 1, at - 1)[i] = text[1 + i - 1]
      BY <1>2, <1>3, SubSeqProperties
    <2>2. \A i \in 1..(at - 1) : 1 + i - 1 = i /\ i \in 1..(at - 1 - 1 + 1)
      BY <1>2
    <2>3. QED
      BY <2>1, <2>2, <1>0, <1>2
  <1>5. /\ h \in Seq(Atom) /\ Len(h) = n - (at - 1)
        /\ \A i \in 1..(n - (at - 1)) : h[i] = text[i + (at - 1)]
    <2>1. /\ SubSeq(text, at, n) \in Seq(Atom)
          /\ Len(SubSeq(text, at, n)) = IF at <= n THEN n - at + 1 ELSE 0
          /\ \A i \in 1..(n - at + 1) : SubSeq(text, at, n)[i] = text[at + i - 1]
      BY <1>2, <1>3, SubSeqProperties
    <2>2. \A i \in 1..(n - (at - 1)) : at + i - 1 = i + (at - 1) /\ i \in 1..(n - at + 1)
      BY <1>2
    <2>3. QED
      BY <2>1, <2>2, <1>0, <1>1, <1>2
  <1>6. PartOf(a, text, 0) /\ PartOf(h, text, at - 1)
    <2>1. a \in Texts /\ h \in Texts
      BY <1>4, <1>5 DEF Texts, Atom
    <2>2. \A i \in 1..Len(a) : a[i] = text[i + 0]
      BY <1>2, <1>4
    <2>3. 0 + Len(a) <= Len(text) /\ at - 1 + Len(h) <= Len(text)
      BY <1>1, <1>2, <1>4, <1>5
    <2>4. QED
      BY <2>1, <2>2, <2>3, <1>2, <1>5 DEF PartOf
  <1>7. a \o h = text
    <2>1. Len(a) + Len(h) = Len(text) /\ Len(a) = at - 1
      <3>1. Len(a) = at - 1 /\ Len(h) = n - (at - 1)
        BY <1>4, <1>5
      <3>2. (at - 1) + (n - (at - 1)) = n
        BY <1>2
      <3>3. QED
        BY <3>1, <3>2, <1>1, Zenon
    <2>2. QED
      BY <1>6, <2>1, PartsJoin
  <1>8. QED
    BY <1>0, <1>1, <1>4, <1>5, <1>6, <1>7

(* The part of a text from its last run on is a fragment.                   *)
LEMMA LastIsFragment ==
  ASSUME NEW text \in Texts, NEW at \in 1..Len(text), NEW last, at \in last,
         last = {j \in DigitsOf(text) : at <= j}, Cardinality(last) >= 3,
         \A b \in Breaks(text) : b <= at,
         NEW h, PartOf(h, text, at - 1), Len(h) + (at - 1) = Len(text)
  PROVE  Fragment(h) /\ h # <<>>
  <1>1. PICK k \in Nat : k = at - 1 /\ at = k + 1 /\ at - k = 1
    OBVIOUS
  <1>2. PartOf(h, text, k) /\ Len(h) + k = Len(text)
    BY <1>1
  <1>3. last = DigitsAfter(text, k)
    <2>1. \A j \in DigitsOf(text) : j \in Nat /\ (at <= j <=> k < j)
      BY <1>1, TextFacts
    <2>2. QED
      BY <2>1 DEF DigitsAfter
  <1>3a. /\ Breaks(h) = {} /\ \A j \in last : j - k \in DigitsOf(h)
         /\ Cardinality(DigitsOf(h)) = Cardinality(last)
    <2>1. \A b \in Breaks(text) : b <= k + 1
      BY <1>1
    <2>2. /\ Breaks(h) = {}
          /\ \A j \in DigitsAfter(text, k) : j - k \in DigitsOf(h)
          /\ Cardinality(DigitsOf(h)) = Cardinality(DigitsAfter(text, k))
      BY <1>2, <2>1, FromLastRun
    <2>3. QED
      BY <2>2, <1>3
  <1>4. 1 \in DigitsOf(h)
    BY <1>1, <1>3a
  <1>5. h \in Texts
    BY DEF PartOf
  <1>6. h # <<>>
    <2> SUFFICES ASSUME h = <<>> PROVE FALSE
      OBVIOUS
    <2>1. DOMAIN h = {}
      OBVIOUS
    <2>2. QED
      BY <2>1, <1>4 DEF DigitsOf
  <1>7. QED
    BY <1>3a, <1>4, <1>5, <1>6 DEF Fragment

(* What is held back is nothing or a fragment.                              *)
LEMMA HeldFacts ==
  ASSUME NEW text \in Texts, NEW at, CutAt(text, at), NEW h, h = SubSeq(text, at, Len(text))
  PROVE  IF at = Len(text) + 1 THEN h = <<>> ELSE Fragment(h) /\ h # <<>>
  <1>1. Len(text) \in Nat /\ at \in 1..(Len(text) + 1)
    BY TextFacts, CutFacts
  <1>2. CASE at = Len(text) + 1
    BY <1>1, <1>2, SubSeqEmpty
  <1>3. CASE at # Len(text) + 1
    <2>1. PICK last : /\ at \in last /\ at \in 1..Len(text)
                      /\ last = {j \in DigitsOf(text) : at <= j} /\ Cardinality(last) >= 3
                      /\ \A b \in Breaks(text) : b <= at
      BY <1>3, CutFacts
    <2>2. PartOf(h, text, at - 1) /\ Len(h) + (at - 1) = Len(text)
      <3>1. PICK g : /\ g = SubSeq(text, at, Len(text))
                     /\ PartOf(g, text, at - 1) /\ Len(g) = Len(text) - (at - 1)
        BY <1>1, PartsFacts
      <3>2. QED
        BY <3>1, <1>1
    <2>3. QED
      BY <1>3, <2>1, <2>2, LastIsFragment
  <1>4. QED
    BY <1>2, <1>3

-----------------------------------------------------------------------------
(* A fragment at the beginning of a text: its digits are in one run.        *)
LEMMA FragmentBegins ==
  ASSUME NEW text, NEW c, PartOf(c, text, 0), Fragment(c)
  PROVE  /\ Len(c) \in Nat \ {0}
         /\ \E digits, run : /\ IsRun(text, digits, run) /\ 1 \in digits
                             /\ \A i \in DigitsOf(text) : i <= Len(c) => i \in digits
         /\ Cardinality({i \in DigitsOf(text) : i <= Len(c)}) >= 3
  <1>1. text \in Texts /\ c \in Texts
    BY DEF PartOf
  <1>2. /\ DigitsOf(c) = {i \in DigitsOf(text) : i <= Len(c)}
        /\ {i \in Breaks(text) : i <= Len(c)} = {}
    BY BeginsBreaks DEF Fragment
  <1>3. /\ Len(c) \in Nat /\ DigitsOf(c) \in SUBSET (1..Len(c)) /\ Len(text) \in Nat
        /\ Positions(DigitsOf(text), Len(text)) /\ Breaks(text) \in SUBSET DigitsOf(text)
    BY <1>1, TextFacts
  <1>4. 1 \in DigitsOf(c) /\ 1 \in DigitsOf(text) /\ 1 <= Len(c)
    BY <1>2, <1>3 DEF Fragment
  <1>5. PICK digits : digits = RunOf(text, 1)
    OBVIOUS
  <1>6. IsRun(text, digits, InOrder(digits))
    BY <1>4, <1>5 DEF IsRun
  <1>7. 1 \in digits
    BY <1>1, <1>4, <1>5, RunOfFacts
  <1>8. ASSUME NEW i \in DigitsOf(text), i <= Len(c) PROVE i \in digits
    <2>1. ASSUME NEW b \in Breaks(text) PROVE b <= 1 <=> b <= i
      <3>1. b \in Nat /\ ~(b <= Len(c)) /\ i \in Nat
        BY <1>2, <1>3 DEF Positions
      <3>2. QED
        BY <3>1, <1>3, <1>4, <1>8
    <2>2. QED
      BY <2>1, <1>5 DEF RunOf, Joined
  <1>9. Cardinality({i \in DigitsOf(text) : i <= Len(c)}) >= 3
    BY <1>2 DEF Fragment
  <1>10. QED
    BY <1>3, <1>4, <1>6, <1>7, <1>8, <1>9

(* A text is cut behind the fragment it begins with, or all of it is held.  *)
LEMMA CutBehind ==
  ASSUME NEW text, NEW c, PartOf(c, text, 0), Fragment(c), NEW at, CutAt(text, at), at # 1
  PROVE  at > Len(c)
  <1>1. text \in Texts /\ Len(text) \in Nat /\ Len(c) \in Nat /\ Len(c) <= Len(text)
    BY TextFacts DEF PartOf
  <1>2. at \in 1..(Len(text) + 1)
    BY <1>1, CutFacts
  <1>3. SUFFICES ASSUME at <= Len(c) PROVE FALSE
    BY <1>1, <1>2
  <1>4. at # Len(text) + 1
    BY <1>1, <1>2, <1>3
  <1>5. PICK last : at \in last /\ last = {j \in DigitsOf(text) : at <= j}
                    /\ IsRun(text, last, LastRun(text))
    BY <1>1, <1>4, CutFacts
  <1>6. at \in DigitsOf(text)
    BY <1>5
  <1>7. PICK digits, run : IsRun(text, digits, run) /\ 1 \in digits /\ at \in digits
    BY <1>3, <1>6, FragmentBegins
  <1>8. 1 < at
    BY <1>1, <1>2
  <1>9. at < at
    BY <1>1, <1>7, <1>8, CutKeepsRuns
  <1>10. QED
    BY <1>1, <1>2, <1>9

(* Every digit of a fragment that a text begins with is claimed by what     *)
(* goes out with it, or the fragment has a name in it.                      *)
LEMMA FragmentClaimed ==
  ASSUME NEW text, NEW c, PartOf(c, text, 0), Fragment(c), NEW extra,
         NEW P, P = Protect(text, Len(c), Detect(text, extra)),
         NEW at, CutAt(text, at), at > Len(c)
  PROVE  \/ \E i \in 1..Len(c) : text[i].is = "name"
         \/ \A i \in DigitsOf(text) : i <= Len(c) =>
              \E d \in P : d.last < at /\ d.first <= i /\ i <= d.last
  <1>1. /\ text \in Texts /\ Len(text) \in Nat /\ Len(c) \in 0..Len(text) /\ Len(c) \in Nat
        /\ Positions(DigitsOf(text), Len(text)) /\ at \in Int
    <2>1. text \in Texts /\ Len(text) \in Nat /\ Len(c) \in Nat /\ Len(c) <= Len(text)
          /\ Positions(DigitsOf(text), Len(text))
      BY TextFacts DEF PartOf
    <2>2. at \in 1..(Len(text) + 1)
      BY <2>1, CutFacts
    <2>3. QED
      BY <2>1, <2>2
  <1>2. /\ Numbers(text, extra) \subseteq P
        /\ \/ \E d \in P : d \in Numbers(text, extra) \cup Names(text) /\ d.first <= Len(c)
           \/ \E d \in P : Added(d, text, Len(c))
           \/ Cardinality({i \in DigitsOf(text) : i <= Len(c)}) < 3
    BY <1>1, ProtectFacts
  <1>3. Cardinality({i \in DigitsOf(text) : i <= Len(c)}) >= 3
    BY FragmentBegins
  <1>4. ~(Cardinality({i \in DigitsOf(text) : i <= Len(c)}) < 3)
    <2>1. DigitsOf(text) \in SUBSET (1..Len(text))
      BY <1>1, TextFacts
    <2>2. Cardinality(UpTo(DigitsOf(text), Len(c))) \in Nat
      BY <2>1, <1>1, UpToFacts
    <2>3. QED
      BY <2>2, <1>3 DEF UpTo
  <1>5. CASE \E d \in P : Added(d, text, Len(c))
    <2>1. PICK d \in P : Added(d, text, Len(c))
      BY <1>5
    <2>2. d.last \in Nat /\ d.last <= Len(c)
      BY <2>1, <1>1 DEF Added, Positions
    <2>3. d.last < at
      BY <2>2, <1>1
    <2>4. QED
      BY <2>1, <2>3 DEF Added
  <1>6. CASE \E d \in P : d \in Names(text) /\ d.first <= Len(c)
    <2>1. PICK d \in Names(text) : d.first <= Len(c)
      BY <1>6
    <2>2. d.first \in 1..Len(text) /\ text[d.first].is = "name"
      BY <2>1, <1>1, NamesFacts
    <2>3. d.first \in 1..Len(c)
      BY <2>1, <2>2, <1>1
    <2>4. QED
      BY <2>2, <2>3
  <1>7. CASE \E d \in P : d \in Numbers(text, extra) /\ d.first <= Len(c)
    <2>1. PICK d \in Numbers(text, extra) : d.first <= Len(c)
      BY <1>7
    <2>2. PICK digits, run : /\ IsRun(text, digits, run) /\ 1 \in digits
                             /\ \A i \in DigitsOf(text) : i <= Len(c) => i \in digits
      BY FragmentBegins
    <2>3. d.first \in digits
      BY <2>1, <2>2, <1>1, NumbersFacts
    <2>4. ASSUME NEW i \in DigitsOf(text), i <= Len(c)
          PROVE  \E e \in P : e.last < at /\ e.first <= i /\ i <= e.last
      <3>1. i \in digits
        BY <2>2, <2>4
      <3>2. PICK e \in Numbers(text, extra) :
              e.first <= i /\ i <= e.last /\ e.last \in digits
        BY <3>1, <2>1, <2>2, <2>3, <1>1, RunIsClaimed
      <3>3. 1 < at
        <4>1. Len(c) \in Nat \ {0}
          BY FragmentBegins
        <4>2. QED
          BY <4>1, <1>1
      <3>4. e.last < at
        BY <3>2, <3>3, <2>2, <1>1, CutKeepsRuns
      <3>5. QED
        BY <3>2, <3>4, <1>2
    <2>5. QED
      BY <2>4
  <1>8. QED
    BY <1>2, <1>4, <1>5, <1>6, <1>7

(* Every digit of a long run in what goes out of a text is claimed there.   *)
LEMMA LongRunClaimed ==
  ASSUME NEW text \in Texts, NEW extra, NEW at, CutAt(text, at),
         NEW digits, NEW run, IsRun(text, digits, run), Len(run) >= 9, NEW i \in digits, i < at
  PROVE  \E d \in Numbers(text, extra) : d.last < at /\ d.first <= i /\ i <= d.last
  <1>1. PICK d \in Numbers(text, extra) : d.first <= i /\ i <= d.last /\ d.last \in digits
    BY RunIsClaimed
  <1>2. d.last < at
    BY <1>1, CutKeepsRuns
  <1>3. QED
    BY <1>1, <1>2

-----------------------------------------------------------------------------
(* What leaves.                                                             *)

Mark == [atom : Atom, hidden : BOOLEAN]

(* The marks of a text.                                                     *)
MarksOf(out, text) ==
  out \in Seq(Mark) /\ Len(out) = Len(text) /\ \A i \in 1..Len(text) : out[i].atom = text[i]

LEMMA MarksFacts ==
  ASSUME NEW text \in Texts, NEW out, MarksOf(out, text)
  PROVE  DOMAIN out = 1..Len(text) /\ Atoms(out) = text
  <1>1. DOMAIN out = 1..Len(text)
    BY LenProperties DEF MarksOf
  <1>2. text \in Seq(Atom) /\ DOMAIN text = 1..Len(text)
    BY TextFacts
  <1>3. text = [i \in 1..Len(text) |-> text[i]]
    BY <1>2, LenProperties
  <1>4. Atoms(out) = [i \in 1..Len(text) |-> text[i]]
    BY <1>1 DEF Atoms, MarksOf
  <1>5. QED
    BY <1>1, <1>3, <1>4

LEMMA RedactFacts ==
  ASSUME NEW text \in Texts, NEW detections
  PROVE  /\ MarksOf(Redact(text, detections), text)
         /\ \A i \in 1..Len(text) : Redact(text, detections)[i].hidden
                                      <=> \E d \in detections : i \in d.first..d.last
  <1>1. Len(text) \in Nat /\ DOMAIN text = 1..Len(text) /\ \A i \in 1..Len(text) : text[i] \in Atom
    BY TextFacts
  <1> DEFINE mark(i) == [atom |-> text[i], hidden |-> \E d \in detections : i \in d.first..d.last]
             out == [i \in 1..Len(text) |-> mark(i)]
  <1>2. Redact(text, detections) = out
    BY <1>1 DEF Redact
  <1>3. \A i \in 1..Len(text) :
          mark(i) \in Mark /\ mark(i).atom = text[i]
            /\ (mark(i).hidden <=> \E d \in detections : i \in d.first..d.last)
    BY <1>1 DEF Mark
  <1> HIDE DEF mark
  <1>4. out \in Seq(Mark) /\ Len(out) = Len(text) /\ \A i \in 1..Len(text) : out[i] = mark(i)
    BY <1>1, <1>3
  <1> HIDE DEF out
  <1>5. QED
    BY <1>2, <1>3, <1>4 DEF MarksOf

(* Every digit of a long run of the text is hidden.                         *)
LongHidden(out, text) ==
  \A digits, run : IsRun(text, digits, run) /\ Len(run) >= 9 => \A i \in digits : out[i].hidden

(* Of what was withheld a name is shown, or every digit is hidden.          *)
HiddenOrNamed(out, withheld) ==
  \/ \E i \in withheld : out[i].atom.is = "name"
  \/ \A i \in withheld : out[i].atom.is = "digit" => out[i].hidden

(* ... that is cut at at.                                                   *)
LongHiddenBefore(out, text, at) ==
  \A digits, run : IsRun(text, digits, run) /\ Len(run) >= 9 =>
    \A i \in digits : i < at => out[i].hidden

Within(detections, at) == {d \in detections : d.last < at}

FirstOf(a, c) == {i \in 1..Len(a) : i <= Len(c)}

(* What goes out of a text that begins with what was held back.             *)
LEMMA CutOut ==
  ASSUME NEW whole, NEW c, PartOf(c, whole, 0), c = <<>> \/ Fragment(c), NEW extra,
         NEW P, P = Protect(whole, Len(c), Detect(whole, extra)), NEW at, CutAt(whole, at),
         NEW out, NEW a, PartOf(a, whole, 0), Len(a) = at - 1,
         out = Redact(a, Within(P, at))
  PROVE  /\ MarksOf(out, a)
         /\ LongHiddenBefore(out, whole, at)
         /\ HiddenOrNamed(out, FirstOf(a, c))
  <1>1. /\ whole \in Texts /\ Len(whole) \in Nat /\ Len(c) \in 0..Len(whole) /\ Len(c) \in Nat
        /\ at \in 1..(Len(whole) + 1) /\ a \in Texts /\ Len(a) \in Nat
    <2>1. /\ whole \in Texts /\ Len(whole) \in Nat /\ Len(c) \in Nat /\ Len(c) <= Len(whole)
          /\ a \in Texts /\ Len(a) \in Nat
      BY TextFacts DEF PartOf
    <2>2. at \in 1..(Len(whole) + 1)
      BY <2>1, CutFacts
    <2>3. QED
      BY <2>1, <2>2
  <1>2. MarksOf(out, a)
    BY <1>1, RedactFacts
  <1>3. ASSUME NEW i \in 1..Len(a), NEW d \in P, d.last < at, d.first <= i, i <= d.last,
               d.first \in Int, d.last \in Int
        PROVE  out[i].hidden
    <2>1. i \in d.first..d.last
      BY <1>3, <1>1
    <2>2. d \in Within(P, at)
      BY <1>3 DEF Within
    <2>3. QED
      BY <2>1, <2>2, <1>1, RedactFacts
  <1>4. \A i \in 1..Len(a) : a[i] = whole[i] /\ out[i].atom = whole[i] /\ i \in 1..Len(whole)
    <2>1. ASSUME NEW i \in 1..Len(a) PROVE a[i] = whole[i] /\ i \in 1..Len(whole)
      <3>1. i + 0 = i /\ i \in 1..Len(whole)
        BY <1>1
      <3>2. QED
        BY <3>1 DEF PartOf
    <2>2. QED
      BY <2>1, <1>2 DEF MarksOf
  <1>5. \A d \in P : d.first \in Int /\ d.last \in Int
    <2>1. ASSUME NEW d \in P PROVE d.first \in Int /\ d.last \in Int
      <3>1. d \in Numbers(whole, extra) \/ d \in Names(whole) \/ Added(d, whole, Len(c))
        BY <1>1, ProtectFacts
      <3>2. CASE d \in Numbers(whole, extra)
        BY <3>2, <1>1, NumbersFacts DEF IsDetection
      <3>3. CASE d \in Names(whole)
        BY <3>3, <1>1, NamesFacts DEF IsDetection
      <3>4. CASE Added(d, whole, Len(c))
        BY <3>4, <1>1, TextFacts DEF Added, Positions
      <3>5. QED
        BY <3>1, <3>2, <3>3, <3>4
    <2>2. QED
      BY <2>1
  <1>6. ASSUME NEW digits, NEW run, IsRun(whole, digits, run), Len(run) >= 9,
               NEW i \in digits, i < at
        PROVE  out[i].hidden
    <2>1. PICK d \in Numbers(whole, extra) : d.last < at /\ d.first <= i /\ i <= d.last
      BY <1>1, <1>6, LongRunClaimed
    <2>2. d \in P
      BY <2>1, <1>1, ProtectFacts
    <2>3. i \in 1..Len(a)
      <3>1. i \in Nat /\ 1 <= i
        BY <1>1, <1>6, RunFacts DEF Positions
      <3>2. QED
        BY <3>1, <1>1, <1>6
    <2>4. QED
      BY <2>1, <2>2, <2>3, <1>3, <1>5
  <1>7. HiddenOrNamed(out, FirstOf(a, c))
    <2>1. CASE c = <<>>
      <3>1. Len(c) = 0
        BY <2>1
      <3>2. \A i \in 1..Len(a) : ~(i <= Len(c))
        BY <3>1, <1>1
      <3>3. QED
        BY <3>2 DEF HiddenOrNamed, FirstOf
    <2>2. CASE at = 1
      <3>1. \A i \in 1..Len(a) : FALSE
        BY <2>2, <1>1
      <3>2. QED
        BY <3>1 DEF HiddenOrNamed, FirstOf
    <2>3. CASE Fragment(c) /\ at # 1
      <3>1. at > Len(c)
        BY <2>3, CutBehind
      <3>2. \/ \E i \in 1..Len(c) : whole[i].is = "name"
            \/ \A i \in DigitsOf(whole) : i <= Len(c) =>
                 \E d \in P : d.last < at /\ d.first <= i /\ i <= d.last
        BY <2>3, <3>1, FragmentClaimed
      <3>3. CASE \E i \in 1..Len(c) : whole[i].is = "name"
        <4>1. PICK i \in 1..Len(c) : whole[i].is = "name"
          BY <3>3
        <4>2. i \in 1..Len(a) /\ i <= Len(c)
          BY <3>1, <1>1
        <4>3. out[i].atom.is = "name"
          BY <4>1, <4>2, <1>4
        <4>4. QED
          BY <4>2, <4>3 DEF HiddenOrNamed, FirstOf
      <3>4. CASE \A i \in DigitsOf(whole) : i <= Len(c) =>
                   \E d \in P : d.last < at /\ d.first <= i /\ i <= d.last
        <4>1. ASSUME NEW i \in 1..Len(a), i <= Len(c), out[i].atom.is = "digit"
              PROVE  out[i].hidden
          <5>1. i \in DigitsOf(whole)
            BY <4>1, <1>1, <1>4, TextFacts DEF DigitsOf
          <5>2. PICK d \in P : d.last < at /\ d.first <= i /\ i <= d.last
            BY <5>1, <4>1, <3>4
          <5>3. QED
            BY <5>2, <1>3, <1>5
        <4>2. QED
          BY <4>1 DEF HiddenOrNamed, FirstOf
      <3>5. QED
        BY <3>2, <3>3, <3>4
    <2>4. QED
      BY <2>1, <2>2, <2>3
  <1>8. QED
    BY <1>2, <1>6, <1>7 DEF LongHiddenBefore

(* The runs of what goes out are runs of the whole text.                    *)
LEMMA RunsOfOut ==
  ASSUME NEW whole \in Texts, NEW at, CutAt(whole, at),
         NEW a, PartOf(a, whole, 0), Len(a) = at - 1, NEW digits, NEW run, IsRun(a, digits, run)
  PROVE  IsRun(whole, digits, run) /\ \A i \in digits : i < at
  <1>1. /\ Len(whole) \in Nat /\ at \in 1..(Len(whole) + 1) /\ a \in Texts /\ Len(a) \in Nat
    BY TextFacts, CutFacts DEF PartOf
  <1>2. \A i \in digits : i < at
    <2>1. \A i \in digits : i \in Nat /\ i <= Len(a)
      BY <1>1, RunFacts DEF Positions
    <2>2. QED
      BY <2>1, <1>1
  <1>3. CASE at = Len(whole) + 1
    <2>1. Len(a) = Len(whole) /\ a \in Seq(Atom) /\ whole \in Seq(Atom)
      BY <1>1, <1>3, TextFacts
    <2>2. \A i \in 1..Len(a) : a[i] = whole[i]
      BY <1>1 DEF PartOf
    <2>3. a = whole
      BY <2>1, <2>2, SeqEqual
    <2>4. QED
      BY <1>2, <2>3
  <1>4. CASE at # Len(whole) + 1
    <2>1. at \in 1..Len(whole) /\ \A i \in DigitsOf(whole) : i < at => at \in Breaks(whole)
      BY <1>4, CutFacts
    <2>2. QED
      BY <2>1, <1>2, RunsBefore
  <1>5. QED
    BY <1>3, <1>4

LEMMA PartOfItself ==
  ASSUME NEW text \in Texts
  PROVE  PartOf(text, text, 0)
  <1>1. Len(text) \in Nat
    BY TextFacts
  <1>2. \A i \in 1..Len(text) : i + 0 = i
    BY <1>1
  <1>3. 0 + Len(text) <= Len(text) /\ 0 \in Nat
    BY <1>1
  <1>4. \A i \in 1..Len(text) : text[i] = text[i + 0]
    BY <1>2
  <1>5. QED
    BY <1>3, <1>4 DEF PartOf

(* What goes out of a fragment that is not held any longer.                 *)
LEMMA WholeOut ==
  ASSUME NEW h \in Texts, h = <<>> \/ Fragment(h), NEW extra,
         NEW out, out = Redact(h, Protect(h, Len(h), Detect(h, extra)))
  PROVE  /\ MarksOf(out, h) /\ LongHidden(out, h) /\ HiddenOrNamed(out, 1..Len(h))
  <1>1. PICK P : P = Protect(h, Len(h), Detect(h, extra))
    OBVIOUS
  <1>2. PICK n \in Nat : n = Len(h) /\ n \in 0..n
    BY TextFacts
  <1>3. \A d \in P : d.last < n + 1
    <2>1. ASSUME NEW d \in P PROVE d.last < n + 1
      <3>1. n \in 0..Len(h)
        BY <1>2
      <3>2. P = Protect(h, n, Detect(h, extra))
        BY <1>1, <1>2
      <3>3. d \in Numbers(h, extra) \/ d \in Names(h) \/ Added(d, h, n)
        BY <3>1, <3>2, ProtectFacts
      <3>4. d.last \in 1..n
        <4>1. CASE d \in Numbers(h, extra)
          BY <4>1, <1>2, NumbersFacts
        <4>2. CASE d \in Names(h)
          <5>1. d.first \in 1..Len(h) /\ d.last = d.first
            BY <4>2, NamesFacts
          <5>2. QED
            BY <5>1, <1>2
        <4>3. CASE Added(d, h, n)
          BY <4>3, <1>2, TextFacts DEF Added
        <4>4. QED
          BY <3>3, <4>1, <4>2, <4>3
      <3>5. QED
        BY <3>4, <1>2
    <2>2. QED
      BY <2>1
  <1>4. Within(P, n + 1) = P
    BY <1>3 DEF Within
  <1>5. PICK at : at = n + 1
    OBVIOUS
  <1>6. CutAt(h, at)
    BY <1>2, <1>5 DEF CutAt
  <1>7. PartOf(h, h, 0) /\ Len(h) = at - 1
    BY <1>2, <1>5, PartOfItself
  <1>8. out = Redact(h, Within(P, at))
    BY <1>1, <1>4, <1>5
  <1>9. /\ MarksOf(out, h)
        /\ LongHiddenBefore(out, h, at)
        /\ HiddenOrNamed(out, FirstOf(h, h))
    BY <1>1, <1>6, <1>7, <1>8, CutOut
  <1>10. LongHidden(out, h)
    <2>1. ASSUME NEW digits, NEW run, IsRun(h, digits, run), Len(run) >= 9, NEW i \in digits
          PROVE  out[i].hidden
      <3>1. i \in Nat /\ i <= n
        BY <2>1, <1>2, RunFacts DEF Positions
      <3>2. QED
        BY <3>1, <2>1, <1>5, <1>9 DEF LongHiddenBefore
    <2>2. QED
      BY <2>1 DEF LongHidden
  <1>11. FirstOf(h, h) = 1..Len(h)
    BY <1>2 DEF FirstOf
  <1>12. QED
    BY <1>9, <1>10, <1>11

(* What goes out when a hold expires: all of the text.                      *)
LEMMA BothOut ==
  ASSUME NEW whole \in Texts, NEW at, CutAt(whole, at), at # Len(whole) + 1,
         NEW k \in Nat, k = at - 1, NEW a, PartOf(a, whole, 0), Len(a) = k,
         NEW h, PartOf(h, whole, k), Len(h) + k = Len(whole),
         NEW out, MarksOf(out, a), NEW rest, MarksOf(rest, h), LongHidden(rest, h),
         LongHiddenBefore(out, whole, at)
  PROVE  \E both : /\ both = out \o rest
                   /\ MarksOf(both, whole) /\ LongHidden(both, whole)
                   /\ \A i \in 1..k : both[i] = out[i]
                   /\ \A i \in 1..Len(h) : both[i + k] = rest[i]
  <1>1. /\ Len(whole) \in Nat /\ a \in Texts /\ h \in Texts /\ Len(h) \in Nat /\ at \in 1..Len(whole)
        /\ at = k + 1
    BY TextFacts, CutFacts DEF PartOf
  <1>2. /\ out \in Seq(Mark) /\ Len(out) = k /\ rest \in Seq(Mark) /\ Len(rest) = Len(h)
    BY DEF MarksOf
  <1>3. PICK both : both = out \o rest
    OBVIOUS
  <1>4. /\ both \in Seq(Mark) /\ Len(both) = Len(whole)
        /\ \A i \in 1..Len(whole) : both[i] = IF i <= k THEN out[i] ELSE rest[i - k]
    <2>1. /\ out \o rest \in Seq(Mark) /\ Len(out \o rest) = Len(out) + Len(rest)
          /\ \A i \in 1..(Len(out) + Len(rest)) :
               (out \o rest)[i] = IF i <= Len(out) THEN out[i] ELSE rest[i - Len(out)]
      BY <1>2, ConcatProperties
    <2>2. Len(out) + Len(rest) = Len(whole)
      BY <1>1, <1>2
    <2>3. QED
      BY <2>1, <2>2, <1>2, <1>3
  <1>5. \A i \in 1..k : both[i] = out[i] /\ i \in 1..Len(whole)
    BY <1>1, <1>4
  <1>6. ASSUME NEW i \in 1..Len(h) PROVE both[i + k] = rest[i] /\ i + k \in 1..Len(whole)
    <2>1. PICK j \in 1..Len(whole) : j = i + k /\ ~(j <= k) /\ j - k = i
      BY <1>1
    <2>2. both[j] = rest[i]
      BY <2>1, <1>4
    <2>3. QED
      BY <2>1, <2>2
  <1>7. ASSUME NEW i \in 1..Len(whole) PROVE both[i].atom = whole[i]
    <2>1. CASE i <= k
      <3>1. i \in 1..Len(a) /\ i + 0 = i
        BY <2>1
      <3>2. QED
        BY <2>1, <3>1, <1>4 DEF MarksOf, PartOf
    <2>2. CASE ~(i <= k)
      <3>1. PICK j \in 1..Len(h) : j = i - k /\ j + k = i
        BY <2>2, <1>1
      <3>2. both[i] = rest[j]
        BY <2>2, <3>1, <1>4
      <3>3. rest[j].atom = h[j] /\ h[j] = whole[i]
        BY <3>1 DEF MarksOf, PartOf
      <3>4. QED
        BY <3>2, <3>3
    <2>3. QED
      BY <2>1, <2>2
  <1>8. ASSUME NEW digits, NEW run, IsRun(whole, digits, run), Len(run) >= 9, NEW i \in digits
        PROVE  both[i].hidden
    <2>1. /\ i \in 1..Len(whole) /\ i \in DigitsOf(whole)
          /\ Len(run) = Cardinality(digits)
      BY <1>8, RunFacts
    <2>2. CASE i < at
      <3>1. i <= k
        BY <2>1, <2>2, <1>1
      <3>2. QED
        BY <3>1, <2>1, <2>2, <1>4, <1>8 DEF LongHiddenBefore
    <2>3. CASE ~(i < at)
      <3>1. PICK last : /\ last = {j \in DigitsOf(whole) : at <= j}
                        /\ IsRun(whole, last, LastRun(whole))
                        /\ \A b \in Breaks(whole) : b <= at
        BY CutFacts
      <3>2. i \in last
        BY <2>1, <2>3, <3>1, <1>1
      <3>3. digits = last
        <4>1. digits \cap last # {}
          BY <3>2
        <4>2. QED
          BY <4>1, <3>1, <1>8, RunsMeet
      <3>4. last = DigitsAfter(whole, k)
        <4>1. \A j \in DigitsOf(whole) : j \in Nat /\ (at <= j <=> k < j)
          BY <1>1, TextFacts
        <4>2. QED
          BY <3>1, <4>1 DEF DigitsAfter
      <3>5. \A b \in Breaks(whole) : b <= k + 1
        BY <3>1, <1>1
      <3>6. /\ Breaks(h) = {} /\ \A j \in DigitsAfter(whole, k) : j - k \in DigitsOf(h)
            /\ Cardinality(DigitsOf(h)) = Cardinality(DigitsAfter(whole, k))
        BY <3>5, FromLastRun
      <3>7. i - k \in DigitsOf(h)
        BY <3>2, <3>4, <3>6
      <3>8. RunOf(h, i - k) = DigitsOf(h)
        BY <3>6, <3>7, <1>1, Unbroken
      <3>9. IsRun(h, DigitsOf(h), InOrder(DigitsOf(h)))
        BY <3>7, <3>8 DEF IsRun
      <3>10. Len(InOrder(DigitsOf(h))) = Cardinality(DigitsOf(h))
        BY <3>9, <1>1, RunFacts
      <3>11. Len(InOrder(DigitsOf(h))) >= 9
        BY <3>3, <3>4, <3>6, <3>10, <2>1, <1>8
      <3>12. rest[i - k].hidden
        BY <3>7, <3>9, <3>11 DEF LongHidden
      <3>13. both[i] = rest[i - k]
        <4>1. ~(i <= k)
          BY <2>1, <2>3, <1>1
        <4>2. QED
          BY <4>1, <2>1, <1>4
      <3>14. QED
        BY <3>12, <3>13
    <2>4. QED
      BY <2>2, <2>3
  <1>9. MarksOf(both, whole) /\ LongHidden(both, whole)
    BY <1>4, <1>7, <1>8 DEF MarksOf, LongHidden
  <1>10. QED
    BY <1>3, <1>5, <1>6, <1>9

-----------------------------------------------------------------------------
(* A push and a preview.                                                    *)

LEMMA JoinedText ==
  ASSUME NEW c \in Texts, NEW t \in Texts
  PROVE  c \o t \in Texts /\ Len(c \o t) = Len(c) + Len(t) /\ PartOf(c, c \o t, 0)
  <1>1. c \in Seq(Atom) /\ t \in Seq(Atom) /\ Len(c) \in Nat /\ Len(t) \in Nat
    BY TextFacts
  <1>2. /\ c \o t \in Seq(Atom) /\ Len(c \o t) = Len(c) + Len(t)
        /\ \A i \in 1..(Len(c) + Len(t)) :
             (c \o t)[i] = IF i <= Len(c) THEN c[i] ELSE t[i - Len(c)]
    BY <1>1, ConcatProperties
  <1>3. PICK both : both = c \o t
    OBVIOUS
  <1>4. /\ both \in Texts /\ Len(both) = Len(c) + Len(t)
        /\ \A i \in 1..(Len(c) + Len(t)) : both[i] = IF i <= Len(c) THEN c[i] ELSE t[i - Len(c)]
    BY <1>2, <1>3 DEF Texts, Atom
  <1>5. \A i \in 1..Len(c) : i \in 1..(Len(c) + Len(t)) /\ i <= Len(c) /\ i + 0 = i
    BY <1>1
  <1>6. \A i \in 1..Len(c) : c[i] = both[i + 0]
    BY <1>4, <1>5
  <1>7. 0 \in Nat /\ 0 + Len(c) <= Len(both)
    BY <1>1, <1>4
  <1>8. PartOf(c, both, 0)
    BY <1>4, <1>6, <1>7 DEF PartOf
  <1>9. QED
    BY <1>2, <1>3, <1>4, <1>8

(* What is claimed of a text that is pushed.                                *)
Claimed(text, extra) ==
  Protect(carry \o text, Len(carry), Detect(carry \o text, extra))

LEMMA PassIs ==
  ASSUME NEW text, NEW extra, NEW final
  PROVE  /\ Pass(text, extra, final).at
              = HoldPoint(carry \o text, Claimed(text, extra), extra, final)
         /\ Pass(text, extra, final).held
              = SubSeq(carry \o text, Pass(text, extra, final).at, Len(carry \o text))
  BY DEF Pass, Divide, Cut, Claimed

(* Long numbers are hidden, and of what was withheld a name is shown or no  *)
(* digit.                                                                   *)
Safe(out, withheld) ==
  \E text \in Texts : /\ MarksOf(out, text) /\ LongHidden(out, text)
                      /\ HiddenOrNamed(out, withheld \cap 1..Len(text))

(* What a push or a preview lets go of a text, and what it holds back.      *)
Passes(text, extra, pass, whole, a, at, out, h) ==
  /\ whole = carry \o text /\ whole \in Texts /\ Len(whole) = Len(carry) + Len(text)
  /\ at = pass.at /\ CutAt(whole, at) /\ out = pass.out /\ h = pass.held
  /\ PartOf(a, whole, 0) /\ Len(a) = at - 1
  /\ PartOf(h, whole, at - 1) /\ Len(h) = Len(whole) - (at - 1)
  /\ a \o h = whole
  /\ IF at = Len(whole) + 1 THEN h = <<>> ELSE Fragment(h) /\ h # <<>>
  /\ MarksOf(out, a)
  /\ LongHiddenBefore(out, whole, at)
  /\ HiddenOrNamed(out, FirstOf(a, carry))

LEMMA PassFacts ==
  ASSUME carry \in Texts, HeldIsFragment, NEW text \in Texts, NEW extra, NEW final \in BOOLEAN
  PROVE  \E whole, a, at, out, h :
           /\ Passes(text, extra, Pass(text, extra, final), whole, a, at, out, h)
           /\ out = Redact(a, Within(Claimed(text, extra), at))
  <1>1. PICK whole : whole = carry \o text
    OBVIOUS
  <1>2. whole \in Texts /\ Len(whole) = Len(carry) + Len(text) /\ PartOf(carry, whole, 0)
    BY <1>1, JoinedText
  <1>3. PICK at : at = Pass(text, extra, final).at
    OBVIOUS
  <1>4. CutAt(whole, at) /\ at \in 1..(Len(whole) + 1)
    <2>0. Pass(text, extra, final).at
            = HoldPoint(carry \o text, Claimed(text, extra), extra, final)
      BY PassIs
    <2>1. at = HoldPoint(whole, Claimed(text, extra), extra, final)
      BY <1>1, <1>3, <2>0
    <2>2. CutAt(whole, at)
      BY <2>1, <1>2, HoldPointFacts
    <2>3. QED
      BY <2>2, <1>2, CutFacts
  <1>5. PICK a, h : /\ a = SubSeq(whole, 1, at - 1) /\ h = SubSeq(whole, at, Len(whole))
                    /\ PartOf(a, whole, 0) /\ Len(a) = at - 1
                    /\ PartOf(h, whole, at - 1) /\ Len(h) = Len(whole) - (at - 1)
                    /\ a \o h = whole
    BY <1>2, <1>4, PartsFacts
  <1>7. IF at = Len(whole) + 1 THEN h = <<>> ELSE Fragment(h) /\ h # <<>>
    BY <1>2, <1>4, <1>5, HeldFacts
  <1>8. PICK out, P : /\ out = Pass(text, extra, final).out /\ P = Claimed(text, extra)
                      /\ out = Redact(a, Within(P, at))
    <2>1. Pass(text, extra, final).out
            = Redact(SubSeq(carry \o text, 1, Pass(text, extra, final).at - 1),
                     Within(Claimed(text, extra), Pass(text, extra, final).at))
      BY DEF Pass, Divide, Cut, Claimed, Within
    <2>2. QED
      BY <2>1, <1>1, <1>3, <1>5
  <1>9. h = Pass(text, extra, final).held
    <2>1. Pass(text, extra, final).held
            = SubSeq(carry \o text, Pass(text, extra, final).at, Len(carry \o text))
      BY PassIs
    <2>2. QED
      BY <2>1, <1>1, <1>3, <1>5
  <1>10. P = Protect(whole, Len(carry), Detect(whole, extra))
    BY <1>1, <1>8 DEF Claimed
  <1>11. carry = <<>> \/ Fragment(carry)
    BY DEF HeldIsFragment
  <1>12. /\ MarksOf(out, a)
         /\ LongHiddenBefore(out, whole, at)
         /\ HiddenOrNamed(out, FirstOf(a, carry))
    BY <1>2, <1>4, <1>5, <1>8, <1>10, <1>11, CutOut
  <1>13. QED
    <2>1. Passes(text, extra, Pass(text, extra, final), whole, a, at, out, h)
      BY <1>1, <1>2, <1>3, <1>4, <1>5, <1>7, <1>8, <1>9, <1>12 DEF Passes
    <2>2. QED
      BY <2>1, <1>8

LEMMA PassSafe ==
  ASSUME carry \in Texts, HeldIsFragment, NEW text \in Texts, NEW extra, NEW final \in BOOLEAN,
         NEW pass, pass = Pass(text, extra, final)
  PROVE  /\ Safe(pass.out, 1..Len(carry))
         /\ Safe(pass.out, 1..Len(carry) \cup pass.at..(Len(carry) + Len(text)))
         /\ pass.held = <<>> \/ Fragment(pass.held)
         /\ pass.held \in Texts /\ pass.at \in Nat /\ Atoms(pass.out) \in Texts
         /\ Atoms(pass.out) \o pass.held = carry \o text
  <1>0. PICK whole, a, at, out, h : Passes(text, extra, pass, whole, a, at, out, h)
    BY PassFacts
  <1>1. /\ whole = carry \o text /\ whole \in Texts /\ Len(whole) = Len(carry) + Len(text)
        /\ at = pass.at /\ CutAt(whole, at)
        /\ out = pass.out /\ h = pass.held
        /\ PartOf(a, whole, 0) /\ Len(a) = at - 1
        /\ PartOf(h, whole, at - 1) /\ Len(h) = Len(whole) - (at - 1)
        /\ a \o h = whole
        /\ IF at = Len(whole) + 1 THEN h = <<>> ELSE Fragment(h) /\ h # <<>>
        /\ MarksOf(out, a)
        /\ LongHiddenBefore(out, whole, at)
        /\ HiddenOrNamed(out, FirstOf(a, carry))
    BY <1>0 DEF Passes
  <1>2. /\ a \in Texts /\ h \in Texts /\ Len(a) \in Nat /\ Len(whole) \in Nat
        /\ Len(carry) \in Nat /\ Len(text) \in Nat
    BY <1>1, TextFacts DEF PartOf
  <1>3. at \in 1..(Len(whole) + 1)
    BY <1>1, CutFacts
  <1>4. LongHidden(out, a)
    <2>1. ASSUME NEW digits, NEW run, IsRun(a, digits, run), Len(run) >= 9, NEW i \in digits
          PROVE  out[i].hidden
      <3>1. IsRun(whole, digits, run) /\ i < at
        BY <2>1, <1>1, RunsOfOut
      <3>2. QED
        BY <2>1, <3>1, <1>1 DEF LongHiddenBefore
    <2>2. QED
      BY <2>1 DEF LongHidden
  <1>5. ASSUME NEW W, \A i \in 1..Len(a) : i \in W <=> i <= Len(carry) PROVE Safe(out, W)
    <2>1. W \cap 1..Len(a) = FirstOf(a, carry)
      BY <1>5 DEF FirstOf
    <2>2. QED
      BY <2>1, <1>1, <1>2, <1>4 DEF Safe
  <1>6. Safe(out, 1..Len(carry))
    <2>1. \A i \in 1..Len(a) : i \in 1..Len(carry) <=> i <= Len(carry)
      BY <1>2
    <2>2. QED
      BY <2>1, <1>5
  <1>7. Safe(out, 1..Len(carry) \cup at..(Len(carry) + Len(text)))
    <2>1. ASSUME NEW i \in 1..Len(a)
          PROVE  i \in 1..Len(carry) \cup at..(Len(carry) + Len(text)) <=> i <= Len(carry)
      <3>1. ~(i \in at..(Len(carry) + Len(text)))
        BY <1>1, <1>2, <1>3
      <3>2. i \in 1..Len(carry) <=> i <= Len(carry)
        BY <1>2
      <3>3. QED
        BY <3>1, <3>2
    <2>2. QED
      BY <2>1, <1>5
  <1>8. Atoms(out) = a
    BY <1>1, <1>2, MarksFacts
  <1>9. at \in Nat
    BY <1>2, <1>3
  <1>10. h = <<>> \/ Fragment(h)
    BY <1>1
  <1>11. QED
    BY <1>1, <1>2, <1>6, <1>7, <1>8, <1>9, <1>10

(* What leaves when a hold expires.                                         *)
Expired(both, out, h, at, text) ==
  /\ both = out \o RedactCarry(h)
  /\ Safe(both, 1..Len(carry) \cup at..(Len(carry) + Len(text)))
  /\ Atoms(both) = carry \o text
  /\ \A i \in 1..Len(out) : both[i] = out[i]

LEMMA ExpiredOut ==
  ASSUME NEW text \in Texts, NEW extra, NEW pass, NEW whole, NEW a, NEW at, NEW out, NEW h,
         Passes(text, extra, pass, whole, a, at, out, h), h # <<>>, carry \in Texts
  PROVE  \E both : Expired(both, out, h, at, text)
  <1>1. /\ whole = carry \o text /\ whole \in Texts /\ Len(whole) = Len(carry) + Len(text)
        /\ at = pass.at /\ CutAt(whole, at)
        /\ out = pass.out /\ h = pass.held
        /\ PartOf(a, whole, 0) /\ Len(a) = at - 1
        /\ PartOf(h, whole, at - 1) /\ Len(h) = Len(whole) - (at - 1)
        /\ IF at = Len(whole) + 1 THEN h = <<>> ELSE Fragment(h) /\ h # <<>>
        /\ MarksOf(out, a)
        /\ LongHiddenBefore(out, whole, at)
        /\ HiddenOrNamed(out, FirstOf(a, carry))
    BY DEF Passes
  <1>2. /\ a \in Texts /\ h \in Texts /\ Len(a) \in Nat /\ Len(whole) \in Nat
        /\ Len(carry) \in Nat /\ Len(h) \in Nat
    BY <1>1, TextFacts DEF PartOf
  <1>3. at # Len(whole) + 1 /\ Fragment(h) /\ at \in 1..(Len(whole) + 1)
    BY <1>1, CutFacts
  <1>4. PICK k \in Nat : k = at - 1 /\ at = k + 1 /\ Len(a) = k /\ Len(h) + k = Len(whole)
                         /\ PartOf(h, whole, k)
    <2>1. PICK k \in Nat : k = at - 1 /\ at = k + 1
      BY <1>2, <1>3
    <2>2. Len(a) = k /\ PartOf(h, whole, k) /\ Len(h) = Len(whole) - k
      BY <2>1, <1>1
    <2>3. Len(h) + k = Len(whole)
      BY <2>2, <1>2
    <2>4. QED
      BY <2>1, <2>2, <2>3
  <1>5. PICK rest : /\ rest = RedactCarry(h)
                    /\ rest = Redact(h, Protect(h, Len(h), Detect(h, contextTail)))
    BY DEF RedactCarry
  <1>6. MarksOf(rest, h) /\ LongHidden(rest, h) /\ HiddenOrNamed(rest, 1..Len(h))
    BY <1>2, <1>3, <1>5, WholeOut
  <1>7. PICK both : /\ both = out \o rest
                    /\ MarksOf(both, whole) /\ LongHidden(both, whole)
                    /\ \A i \in 1..k : both[i] = out[i]
                    /\ \A i \in 1..Len(h) : both[i + k] = rest[i]
    <2>1. /\ whole \in Texts /\ CutAt(whole, at) /\ at # Len(whole) + 1 /\ k = at - 1
          /\ PartOf(a, whole, 0) /\ Len(a) = k /\ PartOf(h, whole, k) /\ Len(h) + k = Len(whole)
          /\ MarksOf(out, a) /\ MarksOf(rest, h) /\ LongHidden(rest, h)
          /\ LongHiddenBefore(out, whole, at)
      BY <1>1, <1>3, <1>4, <1>6
    <2>2. QED
      BY <2>1, BothOut
  <1>8. PICK W : W = (1..Len(carry) \cup at..Len(whole)) \cap 1..Len(whole)
    OBVIOUS
  <1>9. \A i \in 1..Len(a) : i <= Len(carry) => i \in W
    BY <1>2, <1>4, <1>8
  <1>10. \A j \in 1..Len(h) : j + k \in W
    BY <1>2, <1>4, <1>8
  <1>11. \A i \in W : \/ i \in FirstOf(a, carry) /\ i \in 1..k
                      \/ \E j \in 1..Len(h) : i = j + k
    <2>1. ASSUME NEW i \in W
          PROVE  \/ i \in FirstOf(a, carry) /\ i \in 1..k
                 \/ \E j \in 1..Len(h) : i = j + k
      <3>1. CASE i <= k
        <4>1. i \in 1..Len(a) /\ i <= Len(carry) /\ i \in 1..k
          BY <3>1, <2>1, <1>2, <1>4, <1>8
        <4>2. QED
          BY <4>1 DEF FirstOf
      <3>2. CASE ~(i <= k)
        <4>1. i - k \in 1..Len(h) /\ i = i - k + k
          BY <3>2, <2>1, <1>2, <1>4, <1>8
        <4>2. QED
          BY <4>1
      <3>3. QED
        BY <3>1, <3>2
    <2>2. QED
      BY <2>1
  <1>12. HiddenOrNamed(both, W)
    <2>1. CASE \E i \in FirstOf(a, carry) : out[i].atom.is = "name"
      <3>1. PICK i \in 1..Len(a) : i <= Len(carry) /\ out[i].atom.is = "name"
        BY <2>1 DEF FirstOf
      <3>2. both[i] = out[i] /\ i \in W
        BY <3>1, <1>4, <1>7, <1>9
      <3>3. QED
        BY <3>1, <3>2 DEF HiddenOrNamed
    <2>2. CASE \E j \in 1..Len(h) : rest[j].atom.is = "name"
      <3>1. PICK j \in 1..Len(h) : rest[j].atom.is = "name"
        BY <2>2
      <3>2. both[j + k] = rest[j] /\ j + k \in W
        BY <3>1, <1>7, <1>10
      <3>3. QED
        BY <3>1, <3>2 DEF HiddenOrNamed
    <2>3. CASE /\ \A i \in FirstOf(a, carry) : out[i].atom.is = "digit" => out[i].hidden
               /\ \A j \in 1..Len(h) : rest[j].atom.is = "digit" => rest[j].hidden
      <3>1. ASSUME NEW i \in W, both[i].atom.is = "digit" PROVE both[i].hidden
        <4>1. CASE i \in FirstOf(a, carry) /\ i \in 1..k
          BY <4>1, <3>1, <2>3, <1>7
        <4>2. CASE \E j \in 1..Len(h) : i = j + k
          <5>1. PICK j \in 1..Len(h) : i = j + k
            BY <4>2
          <5>2. both[i] = rest[j]
            BY <5>1, <1>7
          <5>3. QED
            BY <5>2, <3>1, <2>3
        <4>3. QED
          BY <4>1, <4>2, <1>11
      <3>2. QED
        BY <3>1 DEF HiddenOrNamed
    <2>4. QED
      BY <2>1, <2>2, <2>3, <1>1, <1>6 DEF HiddenOrNamed
  <1>13. Safe(both, 1..Len(carry) \cup at..(Len(carry) + Len(text)))
    BY <1>1, <1>7, <1>8, <1>12 DEF Safe
  <1>14. Atoms(both) = whole
    BY <1>1, <1>7, MarksFacts
  <1>15. Len(out) = k
    BY <1>1, <1>4 DEF MarksOf
  <1>16. QED
    <2>1. both = out \o RedactCarry(h)
      BY <1>5, <1>7
    <2>2. Atoms(both) = carry \o text
      BY <1>1, <1>14
    <2>3. \A i \in 1..Len(out) : both[i] = out[i]
      BY <1>7, <1>15
    <2>4. Expired(both, out, h, at, text)
      BY <2>1, <2>2, <2>3, <1>13, Zenon DEF Expired
    <2>5. QED
      BY <2>4

LEMMA ExpiredSafe ==
  ASSUME carry \in Texts, HeldIsFragment, NEW text \in Texts, NEW extra, NEW final \in BOOLEAN,
         NEW pass, pass = Pass(text, extra, final), pass.held # <<>>
  PROVE  \E both : Expired(both, pass.out, pass.held, pass.at, text)
  <1>1. PICK whole, a, at, out, h : Passes(text, extra, pass, whole, a, at, out, h)
    BY PassFacts
  <1>2. whole = carry \o text /\ at = pass.at /\ out = pass.out /\ h = pass.held
    BY <1>1 DEF Passes
  <1>3. h # <<>>
    BY <1>2
  <1>4. PICK both : Expired(both, out, h, at, text)
    BY <1>1, <1>3, ExpiredOut
  <1>5. QED
    BY <1>2, <1>4

LEMMA FlushSafe ==
  ASSUME carry \in Texts, HeldIsFragment
  PROVE  Safe(Flushed, 1..Len(carry)) /\ Atoms(Flushed) = carry
  <1>1. PICK out : out = Flushed /\ out = Redact(carry, Protect(carry, Len(carry),
                                                                Detect(carry, contextTail)))
    BY DEF Flushed, RedactCarry
  <1>2. MarksOf(out, carry) /\ LongHidden(out, carry) /\ HiddenOrNamed(out, 1..Len(carry))
    BY <1>1, WholeOut DEF HeldIsFragment
  <1>3. 1..Len(carry) \cap 1..Len(carry) = 1..Len(carry)
    OBVIOUS
  <1>4. Safe(out, 1..Len(carry))
    BY <1>2, <1>3 DEF Safe
  <1>5. QED
    BY <1>1, <1>2, <1>4, MarksFacts

(* What a push returns, whether the hold ends with it or not.               *)
Expires(pass) == Age(pass.held) >= MaxHold

LEMMA ReleasedSafe ==
  ASSUME carry \in Texts, carryAge \in Nat, HeldIsFragment, NEW text \in Texts,
         NEW pass, pass = Pushed(text)
  PROVE  /\ Safe(Released(pass), 1..Len(carry) \cup pass.at..(Len(carry) + Len(text)))
         /\ Expires(pass) => Atoms(Released(pass)) = carry \o text
         /\ ~Expires(pass) => Released(pass) = pass.out
         /\ \A i \in 1..Len(pass.out) :
              i \in DOMAIN Released(pass) /\ Released(pass)[i] = pass.out[i]
  <1>1. pass = Pass(text, contextTail, TRUE) /\ TRUE \in BOOLEAN
    BY DEF Pushed
  <1>2. /\ Safe(pass.out, 1..Len(carry) \cup pass.at..(Len(carry) + Len(text)))
        /\ pass.held = <<>> \/ Fragment(pass.held)
    BY <1>1, PassSafe
  <1>3. PICK whole, a, at, out, h : Passes(text, contextTail, pass, whole, a, at, out, h)
    <2>1. \E whole, a, at, out, h :
            Passes(text, contextTail, Pass(text, contextTail, TRUE), whole, a, at, out, h)
      BY PassFacts
    <2>2. QED
      BY <1>1, <2>1
  <1>4. /\ MarksOf(out, a) /\ a \in Texts /\ Len(a) <= Len(whole) /\ out = pass.out
        /\ whole \in Texts /\ whole = carry \o text
    <2>1. PartOf(a, whole, 0) /\ whole \in Texts
      BY <1>3 DEF Passes
    <2>2. Len(a) \in Nat /\ a \in Texts /\ 0 + Len(a) <= Len(whole)
      BY <2>1, TextFacts DEF PartOf
    <2>3. Len(a) <= Len(whole)
      BY <2>2
    <2>4. QED
      BY <2>2, <2>3, <1>3 DEF Passes
  <1>5. Len(out) = Len(a) /\ DOMAIN out = 1..Len(a)
    BY <1>4, MarksFacts DEF MarksOf
  <1>6. Released(pass) = IF Expires(pass) THEN pass.out \o RedactCarry(pass.held) ELSE pass.out
    BY DEF Released, Expires
  <1>7. CASE ~Expires(pass)
    <2>1. Released(pass) = pass.out
      BY <1>6, <1>7
    <2>2. \A i \in 1..Len(pass.out) : i \in DOMAIN pass.out
      BY <1>4, <1>5
    <2>3. QED
      BY <2>1, <2>2, <1>2, <1>7
  <1>8. CASE Expires(pass)
    <2>1. pass.held # <<>>
      <3>1. pass.held = <<>> => Age(pass.held) = 0
        BY DEF Age
      <3>2. MaxHold >= 1
        BY RedactorAssumption
      <3>3. MaxHold \in Nat
        BY RedactorAssumption
      <3>4. QED
        BY <3>1, <3>2, <3>3, <1>8 DEF Expires
    <2>2. PICK both : Expired(both, pass.out, pass.held, pass.at, text)
      BY <2>1, <1>1, ExpiredSafe
    <2>3. /\ both = Released(pass) /\ Atoms(both) = whole
          /\ Safe(both, 1..Len(carry) \cup pass.at..(Len(carry) + Len(text)))
          /\ \A i \in 1..Len(pass.out) : both[i] = pass.out[i]
      BY <2>2, <1>4, <1>6, <1>8 DEF Expired
    <2>4. DOMAIN both = 1..Len(whole)
      <3>1. DOMAIN Atoms(both) = DOMAIN both
        BY DEF Atoms
      <3>2. DOMAIN whole = 1..Len(whole)
        BY <1>4, TextFacts
      <3>3. QED
        BY <3>1, <3>2, <2>3
    <2>5. \A i \in 1..Len(pass.out) : i \in DOMAIN both
      <3>1. Len(a) \in Nat /\ Len(whole) \in Nat /\ Len(pass.out) = Len(a)
        BY <1>4, <1>5, TextFacts
      <3>2. QED
        BY <3>1, <2>4, <1>4
    <2>6. QED
      BY <2>3, <2>5, <1>4, <1>8
  <1>9. QED
    BY <1>7, <1>8

(* Of a text cut sooner no detection is lost that touches what goes out.    *)
LEMMA NothingStraddles ==
  ASSUME NEW whole, NEW c, PartOf(c, whole, 0), c = <<>> \/ Fragment(c), NEW extra,
         NEW P, P = Protect(whole, Len(c), Detect(whole, extra)), NEW at, CutAt(whole, at),
         NEW i \in 1..Len(whole), i < at, NEW d \in P, d.first <= i
  PROVE  d.last < at
  <1>1. /\ whole \in Texts /\ Len(whole) \in Nat /\ Len(c) \in 0..Len(whole) /\ Len(c) \in Nat
        /\ Positions(DigitsOf(whole), Len(whole)) /\ at \in 1..(Len(whole) + 1)
    <2>1. whole \in Texts /\ Len(whole) \in Nat /\ Len(c) \in Nat /\ Len(c) <= Len(whole)
          /\ Positions(DigitsOf(whole), Len(whole))
      BY TextFacts DEF PartOf
    <2>2. at \in 1..(Len(whole) + 1)
      BY <2>1, CutFacts
    <2>3. QED
      BY <2>1, <2>2
  <1>2. d \in Numbers(whole, extra) \/ d \in Names(whole) \/ Added(d, whole, Len(c))
    BY <1>1, ProtectFacts
  <1>3. CASE d \in Numbers(whole, extra)
    <2>1. PICK digits, run : IsRun(whole, digits, run) /\ d.first \in digits /\ d.last \in digits
      BY <1>1, <1>3, NumberOf
    <2>2. d.first < at
      <3>1. d.first \in 1..Len(whole)
        BY <1>1, <1>3, NumbersFacts
      <3>2. QED
        BY <3>1, <1>1
    <2>3. QED
      BY <2>1, <2>2, <1>1, CutKeepsRuns
  <1>4. CASE d \in Names(whole)
    <2>1. d.first \in 1..Len(whole) /\ d.last = d.first
      BY <1>1, <1>4, NamesFacts
    <2>2. QED
      BY <2>1, <1>1
  <1>5. CASE Added(d, whole, Len(c))
    <2>1. d.last \in Nat /\ 1 <= d.last /\ d.last <= Len(c)
      BY <1>1, <1>5 DEF Added, Positions
    <2>2. c # <<>>
      <3> SUFFICES ASSUME c = <<>> PROVE FALSE
        OBVIOUS
      <3>1. Len(c) = 0
        OBVIOUS
      <3>2. QED
        BY <3>1, <2>1
    <2>3. at # 1
      BY <1>1
    <2>4. at > Len(c)
      BY <2>2, <2>3, CutBehind
    <2>5. QED
      BY <2>1, <2>4, <1>1
  <1>6. QED
    BY <1>2, <1>3, <1>4, <1>5

(* What a partial shows its final shows as well.                            *)
ShowsNoMore(text) ==
  \E final \in {Released(Pushed(text))} : \A i \in DOMAIN Preview(text) :
    Preview(text)[i].hidden \/ (i \in DOMAIN final /\ ~final[i].hidden)

LEMMA PreviewShowsNoMore ==
  ASSUME carry \in Texts, carryAge \in Nat, HeldIsFragment, NEW text \in Texts
  PROVE  ShowsNoMore(text)
  <1>1. PICK pass, r : pass = Pushed(text) /\ r = Released(pass)
    OBVIOUS
  <1>2. pass = Pass(text, contextTail, TRUE)
    BY <1>1 DEF Pushed
  <1>3. PICK P : P = Claimed(text, contextTail)
    OBVIOUS
  <1>4. PICK whole, a, at, out, h : /\ Passes(text, contextTail, pass, whole, a, at, out, h)
                                    /\ out = Redact(a, Within(P, at))
    <2>1. \E whole, a, at, out, h :
            /\ Passes(text, contextTail, Pass(text, contextTail, TRUE), whole, a, at, out, h)
            /\ out = Redact(a, Within(Claimed(text, contextTail), at))
      BY PassFacts
    <2>2. QED
      BY <1>2, <1>3, <2>1
  <1>5. PICK first : first = Pass(text, contextTail, FALSE)
    OBVIOUS
  <1>6. PICK b, cut, shown, g : /\ Passes(text, contextTail, first, whole, b, cut, shown, g)
                                /\ shown = Redact(b, Within(P, cut))
    <2>1. \E w, b, cut, shown, g :
            /\ Passes(text, contextTail, Pass(text, contextTail, FALSE), w, b, cut, shown, g)
            /\ shown = Redact(b, Within(Claimed(text, contextTail), cut))
      BY PassFacts
    <2>2. PICK w, b, cut, shown, g : /\ Passes(text, contextTail, first, w, b, cut, shown, g)
                                     /\ shown = Redact(b, Within(P, cut))
      BY <1>3, <1>5, <2>1
    <2>3. w = whole
      BY <1>4, <2>2 DEF Passes
    <2>4. QED
      BY <2>2, <2>3
  <1>7. /\ whole = carry \o text /\ whole \in Texts /\ Len(whole) \in Nat
        /\ at = pass.at /\ CutAt(whole, at) /\ out = pass.out
        /\ PartOf(a, whole, 0) /\ Len(a) = at - 1 /\ MarksOf(out, a) /\ a \in Texts
        /\ at \in 1..(Len(whole) + 1)
    <2>1. /\ whole = carry \o text /\ whole \in Texts /\ at = pass.at /\ CutAt(whole, at)
          /\ out = pass.out /\ PartOf(a, whole, 0) /\ Len(a) = at - 1 /\ MarksOf(out, a)
      BY <1>4 DEF Passes
    <2>2. a \in Texts /\ Len(whole) \in Nat
      BY <2>1, TextFacts DEF PartOf
    <2>3. QED
      BY <2>1, <2>2, CutFacts
  <1>8. /\ cut = first.at /\ CutAt(whole, cut) /\ shown = first.out
        /\ Len(b) = cut - 1 /\ MarksOf(shown, b) /\ b \in Texts
        /\ cut \in 1..(Len(whole) + 1)
    <2>1. /\ cut = first.at /\ CutAt(whole, cut) /\ shown = first.out
          /\ PartOf(b, whole, 0) /\ Len(b) = cut - 1 /\ MarksOf(shown, b)
      BY <1>6 DEF Passes
    <2>2. b \in Texts
      BY <2>1 DEF PartOf
    <2>3. QED
      BY <2>1, <2>2, <1>7, CutFacts
  <1>9. at = cut \/ at = Len(whole) + 1
    <2>1. /\ Pass(text, contextTail, TRUE).at
               = HoldPoint(carry \o text, Claimed(text, contextTail), contextTail, TRUE)
          /\ Pass(text, contextTail, FALSE).at
               = HoldPoint(carry \o text, Claimed(text, contextTail), contextTail, FALSE)
      BY PassIs
    <2>2. at = HoldPoint(whole, P, contextTail, TRUE) /\ cut = HoldPoint(whole, P, contextTail, FALSE)
      BY <2>1, <1>2, <1>3, <1>5, <1>7, <1>8
    <2>3. QED
      BY <2>2, <1>7, HoldPointsOf
  <1>10. PartOf(carry, whole, 0) /\ (carry = <<>> \/ Fragment(carry))
         /\ P = Protect(whole, Len(carry), Detect(whole, contextTail))
    <2>1. PartOf(carry, carry \o text, 0)
      BY JoinedText
    <2>2. QED
      BY <2>1, <1>3, <1>7 DEF HeldIsFragment, Claimed
  <1>11. ASSUME NEW i \in 1..Len(b) PROVE shown[i].hidden \/ ~out[i].hidden
    <2> SUFFICES ASSUME out[i].hidden PROVE shown[i].hidden
      OBVIOUS
    <2>1. i \in 1..Len(a) /\ i \in 1..Len(whole) /\ i < cut
      BY <1>7, <1>8, <1>9
    <2>2. PICK d \in P : d.last < at /\ i \in d.first..d.last
      BY <2>1, <1>4, <1>7, RedactFacts DEF Within
    <2>3. d.last < cut
      <3>1. CASE at = cut
        BY <3>1, <2>2
      <3>2. d.first <= i
        BY <2>2
      <3>3. QED
        BY <2>1, <3>2, <1>7, <1>8, <1>10, NothingStraddles
    <2>4. d \in Within(P, cut)
      BY <2>2, <2>3 DEF Within
    <2>5. QED
      BY <2>2, <2>4, <1>6, <1>8, RedactFacts
  <1>12. \A i \in 1..Len(out) : i \in DOMAIN r /\ r[i] = out[i]
    BY <1>1, <1>7, ReleasedSafe
  <1>13. DOMAIN shown = 1..Len(b) /\ Len(out) = Len(a)
    BY <1>7, <1>8, MarksFacts DEF MarksOf
  <1>14. \A i \in 1..Len(b) : i \in 1..Len(a)
    BY <1>7, <1>8, <1>9
  <1>15. \A i \in DOMAIN shown : shown[i].hidden \/ (i \in DOMAIN r /\ ~r[i].hidden)
    BY <1>11, <1>12, <1>13, <1>14
  <1>16. Preview(text) = shown
    BY <1>5, <1>8 DEF Preview
  <1>17. QED
    BY <1>1, <1>15, <1>16 DEF ShowsNoMore

-----------------------------------------------------------------------------
(* The invariant.  The utterance that is open is shorter than the longest   *)
(* one, no counter of it exceeds its frames, and the first atom of what is  *)
(* held back has waited no longer than the hold is old.                     *)
SegmenterInv ==
  /\ SegmenterTypeOK
  /\ current.frames < MaxFrames
  /\ current.speech <= current.frames
  /\ current.silence <= current.frames
  /\ current.since <= current.frames

RedactorInv ==
  /\ RedactorTypeOK
  /\ waited <= carryAge
  /\ HeldIsFragment

LEMMA SegmenterConstants ==
  /\ SilenceFrames \in Nat /\ PartialFrames \in Nat /\ MaxFrames \in Nat
  /\ SilenceFrames # 0 /\ PartialFrames # 0 /\ MaxFrames # 0
  BY SegmenterAssumption

LEMMA EmptyText ==
  <<>> \in Texts /\ Len(<<>>) = 0
  BY EmptySeq DEF Texts

(* The segmenter.                                                           *)
LEMMA SegmenterInitially ==
  ASSUME SegmenterInit
  PROVE  SegmenterInv
  BY SegmenterConstants DEF SegmenterInit, SegmenterInv, SegmenterTypeOK, Nothing

LEMMA HeardFacts ==
  ASSUME SegmenterInv, NEW voiced \in BOOLEAN
  PROVE  /\ Heard(voiced) \in [{"frames", "speech", "silence", "since"} -> 0..MaxFrames]
         /\ Heard(voiced).speech <= Heard(voiced).frames
         /\ Heard(voiced).silence <= Heard(voiced).frames
         /\ Heard(voiced).since <= Heard(voiced).frames
         /\ current # Nothing => Heard(voiced).frames # 0
  <1>1. /\ current.frames \in 0..MaxFrames /\ current.speech \in 0..MaxFrames
        /\ current.silence \in 0..MaxFrames /\ current.since \in 0..MaxFrames
        /\ current.frames < MaxFrames /\ current.speech <= current.frames
        /\ current.silence <= current.frames /\ current.since <= current.frames
        /\ MaxFrames \in Nat
    BY SegmenterConstants DEF SegmenterInv, SegmenterTypeOK
  <1>2. CASE current = Nothing /\ ~voiced
    <2>1. Heard(voiced) = Nothing
      BY <1>2 DEF Heard
    <2>2. QED
      BY <2>1, <1>1, <1>2 DEF Nothing
  <1>3. CASE ~(current = Nothing /\ ~voiced)
    <2>1. PICK f, p, s, n : /\ f = current.frames + 1
                            /\ p = current.speech + (IF voiced THEN 1 ELSE 0)
                            /\ s = (IF voiced THEN 0 ELSE current.silence + 1)
                            /\ n = current.since + 1
      OBVIOUS
    <2>2. Heard(voiced) = [frames |-> f, speech |-> p, silence |-> s, since |-> n]
      BY <2>1, <1>3 DEF Heard
    <2>3. /\ f \in 0..MaxFrames /\ p \in 0..MaxFrames /\ s \in 0..MaxFrames /\ n \in 0..MaxFrames
          /\ p <= f /\ s <= f /\ n <= f /\ f # 0
      BY <2>1, <1>1
    <2>4. QED
      BY <2>2, <2>3
  <1>4. QED
    BY <1>2, <1>3

LEMMA SegmenterStep ==
  ASSUME SegmenterInv, NEW voiced \in BOOLEAN, Keep(voiced) \/ Partial(voiced) \/ Close(voiced)
  PROVE  /\ SegmenterInv'
         /\ current # Nothing /\ (Keep(voiced) \/ Partial(voiced)) => current' # Nothing
  <1> DEFINE Shape == [{"frames", "speech", "silence", "since"} -> 0..MaxFrames]
  <1>1. PICK u : u = Heard(voiced)
    OBVIOUS
  <1>2. /\ u \in Shape /\ u.speech <= u.frames /\ u.silence <= u.frames /\ u.since <= u.frames
        /\ current # Nothing => u.frames # 0
    BY <1>1, HeardFacts
  <1>3. ASSUME ~Closes(u) PROVE u.frames < MaxFrames
    BY <1>2, <1>3, SegmenterConstants DEF Closes
  <1>4. ASSUME NEW w, w \in Shape, w.frames = u.frames, w.speech = u.speech,
               w.silence = u.silence, w.since <= u.frames, ~Closes(u), current' = w
        PROVE  SegmenterInv' /\ (current # Nothing => current' # Nothing)
    <2>1. SegmenterInv'
      BY <1>2, <1>3, <1>4 DEF SegmenterInv, SegmenterTypeOK
    <2>2. current # Nothing => w # Nothing
      BY <1>2, <1>4 DEF Nothing
    <2>3. QED
      BY <2>1, <2>2, <1>4
  <1>5. CASE Keep(voiced)
    BY <1>1, <1>2, <1>4, <1>5 DEF Keep
  <1>6. CASE Partial(voiced)
    <2>1. PICK w : w = [u EXCEPT !.since = 0]
      OBVIOUS
    <2>2. /\ w \in Shape /\ w.frames = u.frames /\ w.speech = u.speech
          /\ w.silence = u.silence /\ w.since <= u.frames
      BY <2>1, <1>2, SegmenterConstants
    <2>3. current' = w /\ ~Closes(u)
      BY <2>1, <1>1, <1>6 DEF Partial
    <2>4. QED
      BY <2>2, <2>3, <1>4
  <1>7. CASE Close(voiced)
    <2>1. current' = Nothing
      BY <1>7 DEF Close
    <2>2. SegmenterInv'
      BY <2>1, SegmenterConstants DEF SegmenterInv, SegmenterTypeOK, Nothing
    <2>3. ~Keep(voiced) /\ ~Partial(voiced)
      BY <1>7 DEF Close, Keep, Partial
    <2>4. QED
      BY <2>2, <2>3
  <1>8. QED
    BY <1>5, <1>6, <1>7

(* The redactor.                                                            *)
LEMMA RedactorInitially ==
  ASSUME RedactorInit
  PROVE  RedactorInv
  <1>1. MaxHold \in Nat /\ MaxHold # 0 /\ ContextTail \in Nat
    BY RedactorAssumption
  <1>2. QED
    BY <1>1, EmptyText DEF RedactorInit, RedactorInv, RedactorTypeOK, HeldIsFragment

LEMMA EndFacts ==
  ASSUME NEW known \in Texts, NEW m \in Int, 1 <= m, Len(known) - ContextTail + 1 <= m
  PROVE  /\ SubSeq(known, m, Len(known)) \in Texts
         /\ Len(SubSeq(known, m, Len(known))) <= ContextTail
  <1>1. PICK n \in Int : n = Len(known) /\ n >= 0
    BY TextFacts
  <1>2. \A i \in m..n : known[i] \in Atom
    BY <1>1, TextFacts
  <1>3. /\ SubSeq(known, m, n) \in Seq(Atom)
        /\ Len(SubSeq(known, m, n)) = IF m <= n THEN n - m + 1 ELSE 0
    BY <1>2, SubSeqProperties
  <1>4. (IF m <= n THEN n - m + 1 ELSE 0) <= ContextTail
    BY <1>1, RedactorAssumption
  <1>5. QED
    BY <1>1, <1>3, <1>4 DEF Texts, Atom

LEMMA LaterOf ==
  ASSUME NEW z \in Int
  PROVE  \E m \in Int : m = Max({1, z}) /\ 1 <= m /\ z <= m
  <1>1. \E x \in {1, z} : \A y \in {1, z} : x >= y
    <2>1. CASE z >= 1
      BY <2>1
    <2>2. CASE ~(z >= 1)
      BY <2>2
    <2>3. QED
      BY <2>1, <2>2
  <1>2. PICK m : m = Max({1, z}) /\ m \in {1, z} /\ \A y \in {1, z} : m >= y
    BY <1>1 DEF Max
  <1>3. QED
    BY <1>2

LEMMA TailedFacts ==
  ASSUME contextTail \in Texts, NEW text \in Texts
  PROVE  Tailed(text) \in Texts /\ Len(Tailed(text)) <= ContextTail
  <1>1. PICK known \in Texts : known = contextTail \o text
    BY JoinedText
  <1>2. Len(known) - ContextTail + 1 \in Int
    BY TextFacts, RedactorAssumption
  <1>3. \E m \in Int : /\ m = Max({1, Len(known) - ContextTail + 1})
                       /\ 1 <= m /\ Len(known) - ContextTail + 1 <= m
    BY <1>2, LaterOf
  <1>4. \E m \in Int : /\ Tailed(text) = SubSeq(known, m, Len(known))
                       /\ 1 <= m /\ Len(known) - ContextTail + 1 <= m
    BY <1>1, <1>3 DEF Tailed
  <1>5. PICK m \in Int : /\ Tailed(text) = SubSeq(known, m, Len(known))
                         /\ 1 <= m /\ Len(known) - ContextTail + 1 <= m
    BY <1>4
  <1>6. /\ SubSeq(known, m, Len(known)) \in Texts
        /\ Len(SubSeq(known, m, Len(known))) <= ContextTail
    BY <1>5, EndFacts
  <1>7. QED
    BY <1>5, <1>6

LEMMA PushStep ==
  ASSUME RedactorInv, NEW text \in Texts, NEW pass, pass = Pushed(text), Push(text, pass)
  PROVE  RedactorInv' /\ Atoms(Released(pass)) \o carry' = carry \o text
  <1>1. /\ carry \in Texts /\ carryAge \in Nat /\ contextTail \in Texts /\ HeldIsFragment
        /\ waited \in Nat /\ waited <= carryAge
    BY RedactorAssumption DEF RedactorInv, RedactorTypeOK
  <1>2. MaxHold \in Nat /\ MaxHold # 0 /\ ContextTail \in Nat
    BY RedactorAssumption
  <1>3. /\ pass.held = <<>> \/ Fragment(pass.held)
        /\ pass.held \in Texts /\ Atoms(pass.out) \in Texts
        /\ Atoms(pass.out) \o pass.held = carry \o text
    <2>1. pass = Pass(text, contextTail, TRUE) /\ TRUE \in BOOLEAN
      BY DEF Pushed
    <2>2. QED
      BY <2>1, <1>1, PassSafe
  <1>4. contextTail' \in Texts /\ Len(contextTail') <= ContextTail
    BY <1>1, TailedFacts DEF Push
  <1>5. CASE Expires(pass)
    <2>1. carry' = <<>> /\ carryAge' = 0 /\ waited' = 0
      BY <1>5 DEF Push, Expires
    <2>2. RedactorInv'
      BY <2>1, <1>2, <1>4, EmptyText DEF RedactorInv, RedactorTypeOK, HeldIsFragment
    <2>3. Atoms(Released(pass)) = carry \o text
      BY <1>1, <1>5, ReleasedSafe
    <2>4. carry \o text \in Seq(Atom)
      BY <1>1, JoinedText, TextFacts
    <2>5. Atoms(Released(pass)) \o carry' = carry \o text
      BY <2>1, <2>3, <2>4, ConcatEmptySeq
    <2>6. QED
      BY <2>2, <2>5
  <1>6. CASE ~Expires(pass)
    <2>1. /\ carry' = pass.held /\ carryAge' = Age(pass.held)
          /\ waited' = IF carry' = <<>> THEN 0
                       ELSE IF pass.at <= Len(carry) THEN waited + 1 ELSE 1
      BY <1>6 DEF Push, Expires
    <2>2. carryAge' = IF pass.held = <<>> THEN 0 ELSE carryAge + 1
      BY <2>1 DEF Age
    <2>3. carryAge' \in 0..(MaxHold - 1)
      <3>1. ~(carryAge' >= MaxHold)
        BY <2>1, <1>6 DEF Expires
      <3>2. QED
        BY <3>1, <2>2, <1>1, <1>2
    <2>4. waited' \in Nat /\ waited' <= carryAge'
      BY <2>1, <2>2, <1>1
    <2>5. HeldIsFragment'
      BY <2>1, <1>3 DEF HeldIsFragment
    <2>6. RedactorInv'
      BY <2>1, <2>3, <2>4, <2>5, <1>3, <1>4 DEF RedactorInv, RedactorTypeOK
    <2>7. Released(pass) = pass.out
      BY <1>1, <1>6, ReleasedSafe
    <2>8. QED
      BY <2>1, <2>6, <2>7, <1>3
  <1>7. QED
    BY <1>5, <1>6

LEMMA FlushStep ==
  ASSUME RedactorInv, Flush
  PROVE  RedactorInv'
  <1>1. MaxHold \in Nat /\ MaxHold # 0
    BY RedactorAssumption
  <1>2. QED
    BY <1>1, EmptyText DEF Flush, RedactorInv, RedactorTypeOK, HeldIsFragment

LEMMA RedactorStays ==
  ASSUME RedactorInv, UNCHANGED redactorVars
  PROVE  RedactorInv'
  BY DEF RedactorInv, RedactorTypeOK, HeldIsFragment, redactorVars

-----------------------------------------------------------------------------
(* What a step hands to the transport.                                      *)

SegmentsSafe(s) ==
  /\ \A k \in DOMAIN s : \A run \in Runs(Atoms(s[k].out)) :
       Len(run) >= UNCLAIMED_MIN => \A i \in DOMAIN run : s[k].out[run[i]].hidden
  /\ \A k \in DOMAIN s : HiddenOrNamed(s[k].out, s[k].withheld \cap DOMAIN s[k].out)

LEMMA SegmentsSafeIs ==
  NumbersLeaveHidden <=> SegmentsSafe(sent)
  BY DEF NumbersLeaveHidden, LongRunsAreHidden, HeldDigitsLeaveHiddenOrNamed, SegmentsSafe,
         HiddenOrNamed

LEMMA SafeSegment ==
  ASSUME NEW final, NEW out, NEW withheld, Safe(out, withheld)
  PROVE  /\ SegmentsSafe(Segment(final, out, withheld))
         /\ Len(Segment(final, out, withheld)) <= 1
  <1>1. PICK text \in Texts : /\ MarksOf(out, text) /\ LongHidden(out, text)
                              /\ HiddenOrNamed(out, withheld \cap 1..Len(text))
    BY DEF Safe
  <1>2. DOMAIN out = 1..Len(text) /\ Atoms(out) = text
    BY <1>1, MarksFacts
  <1>3. ASSUME NEW run \in Runs(text), Len(run) >= 9, NEW i \in DOMAIN run
        PROVE  out[run[i]].hidden
    <2>1. PICK digits : IsRun(text, digits, run)
      BY RunIs
    <2>2. run \in [1..Len(run) -> digits]
      BY <2>1, RunFacts
    <2>3. run[i] \in digits
      BY <2>2
    <2>4. QED
      BY <2>1, <2>3, <1>1, <1>3 DEF LongHidden
  <1>4. CASE out = <<>>
    <2>1. Segment(final, out, withheld) = <<>>
      BY <1>4 DEF Segment
    <2>2. QED
      BY <2>1 DEF SegmentsSafe
  <1>5. CASE out # <<>>
    <2>1. PICK s : s = Segment(final, out, withheld)
                   /\ s = <<[final |-> final, out |-> out, withheld |-> withheld]>>
      BY <1>5 DEF Segment
    <2>2. DOMAIN s = {1} /\ Len(s) = 1 /\ s[1].out = out /\ s[1].withheld = withheld
      BY <2>1
    <2>3. \A k \in DOMAIN s : s[k].out = out /\ s[k].withheld = withheld
      BY <2>2
    <2>4. SegmentsSafe(s)
      BY <2>3, <1>1, <1>2, <1>3 DEF SegmentsSafe, UNCLAIMED_MIN
    <2>5. QED
      BY <2>1, <2>2, <2>4
  <1>6. QED
    BY <1>4, <1>5

LEMMA NothingIsSafe ==
  SegmentsSafe(<<>>) /\ Len(<<>>) <= 1
  BY DEF SegmentsSafe

LEMMA SegmentIs ==
  ASSUME NEW final, NEW out, NEW withheld
  PROVE  \A k \in DOMAIN Segment(final, out, withheld) :
           /\ Segment(final, out, withheld)[k].final = final
           /\ Segment(final, out, withheld)[k].out = out
  <1>1. CASE out = <<>>
    BY <1>1 DEF Segment
  <1>2. CASE out # <<>>
    <2>1. PICK s : s = Segment(final, out, withheld)
                   /\ s = <<[final |-> final, out |-> out, withheld |-> withheld]>>
      BY <1>2 DEF Segment
    <2>2. DOMAIN s = {1} /\ s[1].out = out /\ s[1].final = final
      BY <2>1
    <2>3. QED
      BY <1>2, <2>1, <2>2
  <1>3. QED
    BY <1>1, <1>2

(* A partial that is out shows no more than a final of text would.          *)
ShownBy(out, text) ==
  \E final \in {Released(Pushed(text))} : \A i \in DOMAIN out :
    out[i].hidden \/ (i \in DOMAIN final /\ ~final[i].hidden)

PartialsShowNoMore(s, text) == \A k \in DOMAIN s : ~s[k].final => ShownBy(s[k].out, text)

LEMMA PartialShowsNoMoreIs ==
  PartialShowsNoMore <=> PartialsShowNoMore(sent, heard)
  BY DEF PartialShowsNoMore, PartialsShowNoMore, ShownBy

LEMMA FinalStays ==
  ASSUME UNCHANGED redactorVars, NEW CONSTANT text
  PROVE  Released(Pushed(text))' = Released(Pushed(text))
  BY DEF Released, Pushed, Pass, Age, RedactCarry, redactorVars

LEMMA SegmentOf ==
  ASSUME NEW final, NEW out, NEW withheld, NEW k \in DOMAIN Segment(final, out, withheld)
  PROVE  /\ Segment(final, out, withheld)[k].final = final
         /\ Segment(final, out, withheld)[k].out = out
  BY SegmentIs

LEMMA OutOf ==
  ASSUME NEW s, NEW out, \E final, w : s = Segment(final, out, w)
  PROVE  \A k \in DOMAIN s : s[k].out = out
  <1>1. PICK final, w : s = Segment(final, out, w)
    OBVIOUS
  <1>2. QED
    BY <1>1, SegmentOf, Zenon

LEMMA AtomsOfSegment ==
  ASSUME NEW s, NEW out, \E final, w : s = Segment(final, out, w)
  PROVE  (IF s = <<>> THEN <<>> ELSE Atoms(s[1].out)) = Atoms(out)
  <1>1. PICK final, w : s = Segment(final, out, w)
    OBVIOUS
  <1>2. CASE out = <<>>
    <2>1. Atoms(out) = <<>>
      BY <1>2 DEF Atoms
    <2>2. s = <<>>
      BY <1>1, <1>2 DEF Segment
    <2>3. QED
      BY <2>1, <2>2
  <1>3. CASE out # <<>>
    <2>1. s = <<[final |-> final, out |-> out, withheld |-> w]>>
      BY <1>1, <1>3 DEF Segment
    <2>2. s # <<>> /\ s[1].out = out
      BY <2>1
    <2>3. QED
      BY <2>2
  <1>4. QED
    BY <1>2, <1>3

LEMMA ShownStays ==
  ASSUME UNCHANGED redactorVars, NEW CONSTANT text, NEW CONSTANT s,
         PartialsShowNoMore(s, text)
  PROVE  PartialsShowNoMore(s, text)'
  BY FinalStays DEF PartialsShowNoMore, ShownBy

LEMMA NothingShowsNothing ==
  ASSUME NEW text
  PROVE  PartialsShowNoMore(<<>>, text)
  BY DEF PartialsShowNoMore

(* What a step hands over, and the invariant.                               *)
SentInv ==
  /\ Len(sent) <= 1
  /\ NumbersLeaveHidden
  /\ PartialShowsNoMore

Inv ==
  /\ SegmenterInv
  /\ RedactorInv
  /\ running \in BOOLEAN
  /\ heard \in Texts
  /\ SentInv

LEMMA SentNext ==
  ASSUME NEW CONSTANT s, sent' = s, Len(s) <= 1, SegmentsSafe(s),
         NEW CONSTANT text, heard' = text, PartialsShowNoMore(s, text)'
  PROVE  SentInv'
  <1>1. NumbersLeaveHidden'
    <2>1. NumbersLeaveHidden' <=> SegmentsSafe(sent)'
      BY SegmentsSafeIs, PTL
    <2>2. QED
      BY <2>1
  <1>2. PartialShowsNoMore'
    <2>1. PartialShowsNoMore' <=> PartialsShowNoMore(sent, heard)'
      BY PartialShowsNoMoreIs, PTL
    <2>2. PartialsShowNoMore(sent, heard)' <=> PartialsShowNoMore(s, text)'
      BY DEF PartialsShowNoMore
    <2>3. QED
      BY <2>1, <2>2
  <1>3. QED
    BY <1>1, <1>2 DEF SentInv

-----------------------------------------------------------------------------
(* The steps.                                                               *)

LEMMA Initially ==
  ASSUME Init
  PROVE  Inv
  <1>1. SegmenterInv /\ RedactorInv
    BY SegmenterInitially, RedactorInitially DEF Init
  <1>2. running \in BOOLEAN /\ heard \in Texts /\ Len(sent) <= 1
    BY NothingIsSafe, EmptyText DEF Init
  <1>3. NumbersLeaveHidden
    BY NothingIsSafe, SegmentsSafeIs DEF Init
  <1>4. PartialShowsNoMore
    BY PartialShowsNoMoreIs, NothingShowsNothing DEF Init
  <1>5. QED
    BY <1>1, <1>2, <1>3, <1>4 DEF Inv, SentInv

LEMMA KeepFrameStep ==
  ASSUME Inv, NEW voiced \in BOOLEAN, KeepFrame(voiced)
  PROVE  Inv' /\ (current # Nothing => current' # Nothing)
  <1>1. SegmenterInv' /\ (current # Nothing => current' # Nothing)
    BY SegmenterStep DEF Inv, KeepFrame
  <1>2. RedactorInv'
    BY RedactorStays DEF Inv, KeepFrame
  <1>3. SentInv'
    <2>1. sent' = <<>> /\ heard' = <<>>
      BY DEF KeepFrame
    <2>2. PartialsShowNoMore(<<>>, <<>>)'
      BY DEF PartialsShowNoMore
    <2>3. QED
      BY <2>1, <2>2, NothingIsSafe, SentNext
  <1>4. running' \in BOOLEAN /\ heard' \in Texts
    BY EmptyText DEF Inv, KeepFrame
  <1>5. QED
    BY <1>1, <1>2, <1>3, <1>4 DEF Inv

LEMMA PartialFrameStep ==
  ASSUME Inv, NEW voiced \in BOOLEAN, NEW text \in Texts, PartialFrame(voiced, text)
  PROVE  Inv' /\ (current # Nothing => current' # Nothing)
  <1>1. SegmenterInv' /\ (current # Nothing => current' # Nothing)
    BY SegmenterStep DEF Inv, PartialFrame
  <1>2. RedactorInv'
    BY RedactorStays DEF Inv, PartialFrame
  <1>3. heard' = text /\ UNCHANGED redactorVars
    BY DEF PartialFrame
  <1>4. CASE text = <<>>
    <2>1. sent' = <<>>
      BY <1>4 DEF PartialFrame
    <2>2. PartialsShowNoMore(<<>>, text)'
      BY NothingShowsNothing, ShownStays, <1>3
    <2>3. SentInv'
      BY <2>1, <2>2, <1>3, NothingIsSafe, SentNext
    <2>4. QED
      BY <1>1, <1>2, <1>3, <2>3 DEF Inv, PartialFrame
  <1>5. CASE text # <<>>
    <2>1. /\ carry \in Texts /\ carryAge \in Nat /\ HeldIsFragment
      BY RedactorAssumption DEF Inv, RedactorInv, RedactorTypeOK
    <2>2. PICK out : out = Preview(text)
      OBVIOUS
    <2>3. PICK s : s = Segment(FALSE, out, 1..Len(carry)) /\ sent' = s
      BY <1>5, <2>2 DEF PartialFrame
    <2>4. Safe(out, 1..Len(carry))
      <3>1. PICK pass : pass = Pass(text, contextTail, FALSE) /\ FALSE \in BOOLEAN
        OBVIOUS
      <3>2. Safe(pass.out, 1..Len(carry))
        BY <3>1, <2>1, PassSafe
      <3>3. QED
        BY <3>1, <3>2, <2>2 DEF Preview
    <2>5. SegmentsSafe(s) /\ Len(s) <= 1
      BY <2>3, <2>4, SafeSegment
    <2>6. PartialsShowNoMore(s, text)
      <3>1. ShownBy(out, text)
        BY <2>1, <2>2, PreviewShowsNoMore DEF ShowsNoMore, ShownBy
      <3>2. \A k \in DOMAIN s : s[k].out = out
        <4>1. \E final, w : s = Segment(final, out, w)
          BY <2>3
        <4>2. QED
          BY <4>1, OutOf
      <3>3. QED
        BY <3>1, <3>2 DEF PartialsShowNoMore
    <2>7. PartialsShowNoMore(s, text)'
      BY <2>6, <1>3, ShownStays
    <2>8. SentInv'
      BY <2>3, <2>5, <2>7, <1>3, SentNext
    <2>9. QED
      BY <1>1, <1>2, <1>3, <2>8 DEF Inv, PartialFrame
  <1>6. QED
    BY <1>4, <1>5

LEMMA EndStep ==
  ASSUME Inv, End
  PROVE  Inv'
  <1>1. SegmenterInv'
    BY DEF Inv, End, SegmenterInv, SegmenterTypeOK
  <1>2. RedactorInv'
    BY FlushStep DEF Inv, End
  <1>3. PICK s : sent' = s /\ SegmentsSafe(s) /\ Len(s) <= 1
                 /\ (s = <<>> \/ \E out, w : s = Segment(TRUE, out, w))
    <2>1. CASE carry = <<>>
      BY <2>1, NothingIsSafe DEF End
    <2>2. CASE carry # <<>>
      <3>1. carry \in Texts /\ HeldIsFragment
        BY DEF Inv, RedactorInv, RedactorTypeOK
      <3>2. Safe(Flushed, 1..Len(carry))
        BY <3>1, FlushSafe
      <3>3. sent' = Segment(TRUE, Flushed, 1..Len(carry))
        BY <2>2 DEF End
      <3>4. QED
        BY <3>2, <3>3, SafeSegment
    <2>3. QED
      BY <2>1, <2>2
  <1>4. heard' = <<>> /\ running' = FALSE
    BY DEF End
  <1>5. PartialsShowNoMore(s, <<>>)'
    <2>1. \A k \in DOMAIN s : s[k].final
      <3>1. CASE s = <<>>
        BY <3>1
      <3>2. ASSUME NEW out, NEW w, s = Segment(TRUE, out, w)
            PROVE  \A k \in DOMAIN s : s[k].final
        BY <3>2, SegmentOf, Zenon
      <3>3. QED
        BY <1>3, <3>1, <3>2
    <2>2. QED
      BY <2>1 DEF PartialsShowNoMore
  <1>6. SentInv'
    BY <1>3, <1>4, <1>5, SentNext
  <1>7. QED
    BY <1>1, <1>2, <1>4, <1>6, EmptyText DEF Inv

LEMMA FinalFrameStep ==
  ASSUME Inv, NEW voiced \in BOOLEAN, NEW text \in Texts, FinalFrame(voiced, text)
  PROVE  /\ Inv'
         /\ (IF sent' = <<>> THEN <<>> ELSE Atoms(sent'[1].out)) \o carry' = carry \o text
  <1>1. SegmenterInv'
    BY SegmenterStep DEF Inv, FinalFrame
  <1>2. heard' = text /\ UNCHANGED running
    BY DEF FinalFrame
  <1>3. carry \in Texts /\ carryAge \in Nat /\ HeldIsFragment
    BY RedactorAssumption DEF Inv, RedactorInv, RedactorTypeOK
  <1>4. CASE text = <<>>
    <2>1. sent' = <<>> /\ UNCHANGED redactorVars
      BY <1>4 DEF FinalFrame
    <2>2. RedactorInv'
      BY <2>1, RedactorStays DEF Inv
    <2>3. PartialsShowNoMore(<<>>, text)'
      BY DEF PartialsShowNoMore
    <2>4. SentInv'
      BY <1>2, <2>1, <2>3, NothingIsSafe, SentNext
    <2>5. carry \in Seq(Atom)
      BY <1>3, TextFacts
    <2>6. <<>> \o carry' = carry \o text
      BY <1>4, <2>1, <2>5, ConcatEmptySeq DEF redactorVars
    <2>7. QED
      BY <1>1, <1>2, <2>1, <2>2, <2>4, <2>6 DEF Inv
  <1>5. CASE text # <<>>
    <2>1. PICK pass : /\ pass = Pushed(text) /\ Push(text, pass)
                      /\ sent' = Segment(TRUE, Released(pass), 1..Len(carry)
                                   \cup pass.at..(Len(carry) + Len(text)))
      BY <1>5 DEF FinalFrame
    <2>2. RedactorInv' /\ Atoms(Released(pass)) \o carry' = carry \o text
      BY <2>1, PushStep DEF Inv
    <2>3. Safe(Released(pass), 1..Len(carry) \cup pass.at..(Len(carry) + Len(text)))
      BY <1>3, <2>1, ReleasedSafe
    <2>4. PICK w : w = 1..Len(carry) \cup pass.at..(Len(carry) + Len(text))
      OBVIOUS
    <2>5. PICK out : out = Released(pass)
      OBVIOUS
    <2>6. sent' = Segment(TRUE, out, w) /\ Safe(out, w) /\ Atoms(out) \o carry' = carry \o text
      BY <2>1, <2>2, <2>3, <2>4, <2>5
    <2>7. PICK s : s = Segment(TRUE, out, w) /\ sent' = s
      BY <2>6
    <2>8. SegmentsSafe(s) /\ Len(s) <= 1
      BY <2>6, <2>7, SafeSegment
    <2>9. PartialsShowNoMore(s, text)'
      <3>1. \A k \in DOMAIN s : s[k].final
        BY <2>7, SegmentOf, Zenon
      <3>2. QED
        BY <3>1 DEF PartialsShowNoMore
    <2>10. SentInv'
      BY <1>2, <2>7, <2>8, <2>9, SentNext
    <2>11. (IF sent' = <<>> THEN <<>> ELSE Atoms(sent'[1].out)) = Atoms(out)
      <3>1. \E final, withheld : sent' = Segment(final, out, withheld)
        BY <2>6
      <3>2. QED
        BY <3>1, AtomsOfSegment
    <2>12. QED
      BY <1>1, <1>2, <2>2, <2>6, <2>10, <2>11 DEF Inv
  <1>6. QED
    BY <1>4, <1>5

LEMMA Stutters ==
  ASSUME Inv, UNCHANGED vars
  PROVE  Inv'
  <1>1. /\ UNCHANGED current /\ UNCHANGED redactorVars /\ UNCHANGED running
        /\ UNCHANGED heard /\ UNCHANGED sent
    BY DEF vars
  <1>2. SegmenterInv'
    BY <1>1 DEF Inv, SegmenterInv, SegmenterTypeOK
  <1>3. RedactorInv'
    BY <1>1, RedactorStays DEF Inv
  <1>4. PICK s, text : sent = s /\ heard = text
    OBVIOUS
  <1>5. sent' = s /\ heard' = text /\ Len(s) <= 1
    BY <1>1, <1>4 DEF Inv, SentInv
  <1>6. SegmentsSafe(s)
    BY <1>4, SegmentsSafeIs DEF Inv, SentInv
  <1>7. PartialsShowNoMore(s, text)
    BY <1>4, PartialShowsNoMoreIs DEF Inv, SentInv
  <1>8. PartialsShowNoMore(s, text)'
    BY <1>1, <1>7, ShownStays
  <1>9. SentInv'
    BY <1>5, <1>6, <1>8, SentNext
  <1>10. QED
    BY <1>1, <1>2, <1>3, <1>9 DEF Inv

LEMMA NextStep ==
  ASSUME Inv, Next
  PROVE  /\ Inv'
         /\ current # Nothing /\ current' = Nothing =>
              (IF sent' = <<>> THEN <<>> ELSE Atoms(sent'[1].out)) \o carry' = carry \o heard'
  <1>1. ASSUME NEW voiced \in BOOLEAN, KeepFrame(voiced)
        PROVE  Inv' /\ (current # Nothing => current' # Nothing)
    BY <1>1, KeepFrameStep
  <1>2. ASSUME NEW voiced \in BOOLEAN, NEW text \in Hypotheses, PartialFrame(voiced, text)
        PROVE  Inv' /\ (current # Nothing => current' # Nothing)
    <2>1. text \in Texts
      BY EdgePipelineAssumption
    <2>2. QED
      BY <1>2, <2>1, PartialFrameStep
  <1>3. ASSUME NEW voiced \in BOOLEAN, NEW text \in Hypotheses, FinalFrame(voiced, text)
        PROVE  /\ Inv'
               /\ (IF sent' = <<>> THEN <<>> ELSE Atoms(sent'[1].out)) \o carry'
                    = carry \o heard'
    <2>1. text \in Texts /\ heard' = text
      BY <1>3, EdgePipelineAssumption DEF FinalFrame
    <2>2. QED
      BY <1>3, <2>1, FinalFrameStep
  <1>4. CASE End
    <2>1. Inv' /\ UNCHANGED current
      BY <1>4, EndStep DEF End
    <2>2. QED
      BY <2>1
  <1>5. CASE \E voiced \in BOOLEAN : KeepFrame(voiced)
    BY <1>1, <1>5
  <1>6. CASE \E voiced \in BOOLEAN, text \in Hypotheses : PartialFrame(voiced, text)
    BY <1>2, <1>6
  <1>7. CASE \E voiced \in BOOLEAN, text \in Hypotheses : FinalFrame(voiced, text)
    BY <1>3, <1>7
  <1>8. QED
    BY <1>4, <1>5, <1>6, <1>7 DEF Next, Frame

(* The invariant: a fragment that is held is one number's, and it is        *)
(* younger than the give-up age; what was handed over last was safe.        *)
THEOREM Inductive == Spec => []Inv
  <1>1. Inv /\ [Next]_vars => Inv'
    BY NextStep, Stutters
  <1>2. QED
    BY <1>1, Initially, PTL DEF Spec

(* With redactor.py:115, "Give up on a hold after this many segments":      *)
(* however fragments replace each other in the carry, none waits longer,    *)
(* and no utterance grows past its longest.                                 *)
THEOREM TypeCorrect == Spec => []TypeOK
  <1>1. Inv => TypeOK
    <2> SUFFICES ASSUME Inv PROVE TypeOK
      OBVIOUS
    <2>2. SegmenterTypeOK /\ RedactorTypeOK /\ waited <= carryAge
      BY DEF Inv, SegmenterInv, RedactorInv
    <2>3. waited < MaxHold
      BY <2>2, RedactorAssumption DEF RedactorTypeOK
    <2>4. QED
      BY <2>2, <2>3 DEF Inv, SentInv, TypeOK
  <1>2. QED
    BY <1>1, Inductive, PTL

(* detectors.py:11-13, "no long digit run leaves the process", and          *)
(* redactor.py:380-381, "A hold that never resolves must not become a       *)
(* leak": whatever is spoken, and however a number is divided over          *)
(* utterances, in every segment that leaves a run of nine digits or more    *)
(* is hidden to the last digit, and so is every digit that was held back,   *)
(* unless a name was found with it.                                         *)
THEOREM NumbersAreHidden == Spec => []NumbersLeaveHidden
  <1>1. Inv => NumbersLeaveHidden
    BY DEF Inv, SentInv
  <1>2. QED
    BY <1>1, Inductive, PTL

(* redactor.py:283-287, the preview of a partial: what it shows of a text   *)
(* the final of that text would show as well, from the same carry and       *)
(* context.                                                                 *)
THEOREM PreviewsShowNoMore == Spec => []PartialShowsNoMore
  <1>1. Inv => PartialShowsNoMore
    BY DEF Inv, SentInv
  <1>2. QED
    BY <1>1, Inductive, PTL

(* redactor.py:338-403: what goes out when an utterance is closed, with     *)
(* what is held back after it, is what was held before and what was heard,  *)
(* atom by atom, in order and once, whatever the redactor cuts, holds or    *)
(* lets expire.                                                             *)
THEOREM TextGoesOutOnce == Spec => NothingIsLostOrRepeated
  <1>1. Inv /\ [Next]_vars =>
          [current # Nothing /\ current' = Nothing =>
             (IF sent' = <<>> THEN <<>> ELSE Atoms(sent'[1].out)) \o carry'
               = carry \o heard']_vars
    BY NextStep
  <1>2. QED
    BY <1>1, Inductive, PTL DEF Spec, NothingIsLostOrRepeated
=============================================================================
