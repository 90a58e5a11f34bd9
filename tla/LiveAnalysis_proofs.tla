-------------------------- MODULE LiveAnalysis_proofs --------------------------
(***************************************************************************)
(* Proofs about LiveAnalysis, for any calls, turns, catalogue and answers  *)
(* of the model, and any bounds of its loop: what was flagged is reported, *)
(* what is reported is news and cites turns of its call, and no prohibited *)
(* phrase is passed over.                                                  *)
(***************************************************************************)
EXTENDS LiveAnalysis, SequenceTheorems, FiniteSetTheorems, WellFoundedInduction, TLAPS

-----------------------------------------------------------------------------
(* Sequences of anything.                                                   *)

Listed(s) == s \in Seq(ToSet(s))

LEMMA ListedFacts ==
  ASSUME NEW s, Listed(s)
  PROVE  /\ Len(s) \in Nat /\ DOMAIN s = 1..Len(s)
         /\ ToSet(s) = {s[i] : i \in 1..Len(s)}
  BY LenProperties DEF Listed, ToSet

LEMMA IsListed ==
  ASSUME NEW S, NEW s \in Seq(S)
  PROVE  Listed(s)
  <1>1. s \in [1..Len(s) -> S] /\ Len(s) \in Nat /\ DOMAIN s = 1..Len(s)
    BY LenProperties
  <1>2. s \in [1..Len(s) -> ToSet(s)]
    BY <1>1 DEF ToSet
  <1>3. QED
    BY <1>1, <1>2 DEF Listed

LEMMA EmptyListed == Listed(<<>>) /\ Len(<<>>) = 0 /\ DOMAIN <<>> = {}
  <1>1. <<>> \in Seq({})
    OBVIOUS
  <1>2. Listed(<<>>) /\ Len(<<>>) = 0
    BY <1>1, IsListed, EmptySeq
  <1>3. DOMAIN <<>> = 1..0
    BY <1>2, ListedFacts
  <1>4. QED
    BY <1>2, <1>3

LEMMA FunctionListed ==
  ASSUME NEW s, NEW n \in Nat, DOMAIN s = 1..n, s = [i \in 1..n |-> s[i]]
  PROVE  Listed(s) /\ Len(s) = n
  <1>1. s \in [1..n -> ToSet(s)]
    BY DEF ToSet
  <1>2. s \in Seq(ToSet(s))
    BY <1>1
  <1>3. Len(s) \in Nat /\ 1..Len(s) = 1..n
    BY <1>2, LenProperties
  <1>4. Len(s) = n
    BY <1>3
  <1>5. QED
    BY <1>2, <1>4 DEF Listed

LEMMA AppendListed ==
  ASSUME NEW s, Listed(s), NEW e
  PROVE  /\ Listed(Append(s, e))
         /\ Len(Append(s, e)) = Len(s) + 1
         /\ DOMAIN Append(s, e) = 1..(Len(s) + 1)
         /\ \A i \in 1..Len(s) : Append(s, e)[i] = s[i]
         /\ Append(s, e)[Len(s) + 1] = e
         /\ ToSet(Append(s, e)) = ToSet(s) \union {e}
  <1> DEFINE S == ToSet(s) \union {e}
  <1>1. s \in Seq(S) /\ e \in S /\ Len(s) \in Nat /\ ToSet(s) = {s[i] : i \in 1..Len(s)}
    <2>1. s \in [1..Len(s) -> ToSet(s)] /\ Len(s) \in Nat
      BY LenProperties DEF Listed
    <2>2. s \in [1..Len(s) -> S]
      BY <2>1
    <2>3. QED
      BY <2>1, <2>2, ListedFacts
  <1> HIDE DEF S
  <1>2. /\ Append(s, e) \in Seq(S) /\ Len(Append(s, e)) = Len(s) + 1
        /\ \A i \in 1..Len(s) : Append(s, e)[i] = s[i]
        /\ Append(s, e)[Len(s) + 1] = e
    BY <1>1, AppendProperties
  <1>3. DOMAIN Append(s, e) = 1..(Len(s) + 1)
    BY <1>2, LenProperties
  <1>4. ToSet(Append(s, e)) = ToSet(s) \union {e}
    <2>1. ToSet(Append(s, e)) = {Append(s, e)[i] : i \in 1..(Len(s) + 1)}
      BY <1>3 DEF ToSet
    <2>2. 1..(Len(s) + 1) = (1..Len(s)) \union {Len(s) + 1}
      BY <1>1
    <2>3. QED
      BY <2>1, <2>2, <1>1, <1>2
  <1>5. QED
    BY <1>2, <1>3, <1>4, IsListed

LEMMA ConcatListed ==
  ASSUME NEW s, Listed(s), NEW t, Listed(t)
  PROVE  /\ Listed(s \o t)
         /\ Len(s \o t) = Len(s) + Len(t)
         /\ DOMAIN (s \o t) = 1..(Len(s) + Len(t))
         /\ \A i \in 1..Len(s) : (s \o t)[i] = s[i]
         /\ \A i \in 1..Len(t) : (s \o t)[Len(s) + i] = t[i]
         /\ ToSet(s \o t) = ToSet(s) \union ToSet(t)
         /\ \A e : s \o Append(t, e) = Append(s \o t, e)
  <1> DEFINE S == ToSet(s) \union ToSet(t)
  <1>1. /\ s \in Seq(S) /\ t \in Seq(S) /\ Len(s) \in Nat /\ Len(t) \in Nat
        /\ ToSet(s) = {s[i] : i \in 1..Len(s)} /\ ToSet(t) = {t[i] : i \in 1..Len(t)}
    <2>1. /\ s \in [1..Len(s) -> ToSet(s)] /\ Len(s) \in Nat
          /\ t \in [1..Len(t) -> ToSet(t)] /\ Len(t) \in Nat
      BY LenProperties DEF Listed
    <2>2. s \in [1..Len(s) -> S] /\ t \in [1..Len(t) -> S]
      BY <2>1
    <2>3. QED
      BY <2>1, <2>2, ListedFacts
  <1> HIDE DEF S
  <1>2. /\ s \o t \in Seq(S) /\ Len(s \o t) = Len(s) + Len(t)
        /\ \A i \in 1..(Len(s) + Len(t)) :
             (s \o t)[i] = IF i <= Len(s) THEN s[i] ELSE t[i - Len(s)]
    BY <1>1, ConcatProperties
  <1>3. DOMAIN (s \o t) = 1..(Len(s) + Len(t))
    BY <1>2, LenProperties
  <1>4. \A i \in 1..Len(s) : (s \o t)[i] = s[i]
    BY <1>1, <1>2
  <1>5. \A i \in 1..Len(t) : (s \o t)[Len(s) + i] = t[i]
    <2> SUFFICES ASSUME NEW i \in 1..Len(t) PROVE (s \o t)[Len(s) + i] = t[i]
      OBVIOUS
    <2>1. /\ Len(s) + i \in 1..(Len(s) + Len(t)) /\ ~(Len(s) + i <= Len(s))
          /\ Len(s) + i - Len(s) = i
      BY <1>1
    <2>2. QED
      BY <2>1, <1>2
  <1>6. ToSet(s \o t) = ToSet(s) \union ToSet(t)
    <2>1. ToSet(s \o t) = {(s \o t)[i] : i \in 1..(Len(s) + Len(t))}
      BY <1>3 DEF ToSet
    <2>2. ASSUME NEW i \in 1..(Len(s) + Len(t)) PROVE (s \o t)[i] \in ToSet(s) \union ToSet(t)
      <3>1. CASE i <= Len(s)
        BY <3>1, <1>1, <1>4
      <3>2. CASE ~(i <= Len(s))
        <4>1. i - Len(s) \in 1..Len(t) /\ i = Len(s) + (i - Len(s))
          BY <3>2, <1>1
        <4>2. (s \o t)[i] = t[i - Len(s)]
          BY <4>1, <1>5
        <4>3. QED
          BY <4>1, <4>2, <1>1
      <3>3. QED
        BY <3>1, <3>2
    <2>3. ASSUME NEW i \in 1..Len(s) PROVE s[i] \in ToSet(s \o t)
      <3>1. i \in 1..(Len(s) + Len(t))
        BY <1>1
      <3>2. QED
        BY <3>1, <2>1, <1>4
    <2>4. ASSUME NEW i \in 1..Len(t) PROVE t[i] \in ToSet(s \o t)
      <3>1. Len(s) + i \in 1..(Len(s) + Len(t))
        BY <1>1
      <3>2. QED
        BY <3>1, <2>1, <1>5
    <2>5. QED
      BY <2>1, <2>2, <2>3, <2>4, <1>1
  <1>7. ASSUME NEW e PROVE s \o Append(t, e) = Append(s \o t, e)
    <2> DEFINE T == S \union {e}
    <2>1. s \in Seq(T) /\ t \in Seq(T) /\ s \o t \in Seq(T) /\ <<e>> \in Seq(T) /\ e \in T
      <3>1. /\ s \in [1..Len(s) -> T] /\ t \in [1..Len(t) -> T]
            /\ s \o t \in [1..(Len(s) + Len(t)) -> T]
        BY <1>1, <1>2, LenProperties
      <3>2. QED
        BY <3>1, <1>1
    <2> HIDE DEF T
    <2>2. Append(t, e) = t \o <<e>> /\ Append(s \o t, e) = (s \o t) \o <<e>>
      BY <2>1, AppendIsConcat
    <2>3. QED
      BY <2>1, <2>2, ConcatAssociative
  <1>8. QED
    BY <1>2, <1>3, <1>4, <1>5, <1>6, <1>7, IsListed

LEMMA TailListed ==
  ASSUME NEW s, Listed(s), s # <<>>
  PROVE  /\ Listed(Tail(s)) /\ Len(Tail(s)) = Len(s) - 1 /\ Len(s) \in Nat \ {0}
         /\ \A i \in 1..Len(Tail(s)) : Tail(s)[i] = s[i + 1]
         /\ Head(s) = s[1]
         /\ ToSet(Tail(s)) \subseteq ToSet(s)
  <1>1. /\ Tail(s) \in Seq(ToSet(s)) /\ Len(Tail(s)) = Len(s) - 1
        /\ \A i \in 1..Len(Tail(s)) : Tail(s)[i] = s[i + 1]
    BY HeadTailProperties DEF Listed
  <1>2. Len(s) \in Nat \ {0}
    BY EmptySeq DEF Listed
  <1>3. Tail(s) \in [1..Len(Tail(s)) -> ToSet(s)]
    BY <1>1, LenProperties
  <1>4. ToSet(Tail(s)) \subseteq ToSet(s)
    BY <1>3 DEF ToSet
  <1>5. Head(s) = s[1]
    BY DEF Listed
  <1>6. QED
    BY <1>1, <1>2, <1>4, <1>5, IsListed

(* Of some natural numbers one is the least.                                *)
LEMMA LeastOf ==
  ASSUME NEW S \in SUBSET Nat, S # {}
  PROVE  \E m \in S : \A n \in S : m <= n
  <1> DEFINE below == {0..n : n \in S}
  <1>1. below \subseteq FiniteSubsetsOf(Nat) /\ below # {}
    <2>1. ASSUME NEW n \in S PROVE 0..n \in FiniteSubsetsOf(Nat)
      <3>1. n \in Int /\ 0 \in Int /\ 0..n \in SUBSET Nat
        OBVIOUS
      <3>2. QED
        BY <3>1, FS_Interval DEF FiniteSubsetsOf
    <2>2. QED
      BY <2>1
  <1>2. PICK x \in below : \A y \in below : <<y, x>> \notin StrictSubsetOrdering(Nat)
    <2> HIDE DEF below
    <2>1. QED
      BY <1>1, FS_StrictSubsetOrderingWellFounded, WFMin
  <1>3. PICK m \in S : x = 0..m
    BY <1>2
  <1>4. ASSUME NEW n \in S, n < m PROVE FALSE
    <2>1. 0..n \in below /\ <<0..n, 0..m>> \notin StrictSubsetOrdering(Nat)
      BY <1>2, <1>3
    <2>2. 0..n \in SUBSET Nat /\ 0..m \in SUBSET Nat /\ 0..n \subseteq 0..m
      BY <1>4
    <2>3. m \in 0..m /\ m \notin 0..n
      BY <1>4
    <2>4. QED
      BY <2>1, <2>2, <2>3 DEF StrictSubsetOrdering
  <1>5. QED
    BY <1>4

LEMMA Induction ==
  ASSUME NEW T \in SUBSET Nat, 0 \in T, \A n \in T : n + 1 \in T
  PROVE  T = Nat
  <1> SUFFICES ASSUME Nat \ T # {} PROVE FALSE
    OBVIOUS
  <1>1. PICK m \in Nat \ T : \A n \in Nat \ T : m <= n
    BY LeastOf
  <1>2. m - 1 \in Nat /\ m - 1 \in T
    BY <1>1
  <1>3. QED
    BY <1>1, <1>2

-----------------------------------------------------------------------------
(* Sequences of sequences: FlattenSeq puts them together one by one.        *)

Link(f, seqs, i) == IF i = 1 THEN seqs[i] ELSE f[i - 1] \o seqs[i]
Linked(f, seqs, n) == f = [i \in 1..n |-> Link(f, seqs, i)]

LEMMA LinkedExists ==
  ASSUME NEW seqs, NEW n \in Nat
  PROVE  \E f : Linked(f, seqs, n)
  <1> DEFINE T == {m \in Nat : \E f : Linked(f, seqs, m)}
  <1>1. 0 \in T
    <2> DEFINE f == [i \in 1..0 |-> {}]
    <2>1. f = [i \in 1..0 |-> Link(f, seqs, i)]
      OBVIOUS
    <2>2. QED
      BY <2>1 DEF Linked
  <1>2. ASSUME NEW m \in T PROVE m + 1 \in T
    <2>1. PICK f : Linked(f, seqs, m)
      OBVIOUS
    <2> DEFINE g == [i \in 1..(m + 1) |-> IF i = m + 1 THEN Link(f, seqs, i) ELSE f[i]]
    <2>2. \A i \in 1..m : g[i] = f[i]
      OBVIOUS
    <2>3. ASSUME NEW i \in 1..(m + 1) PROVE g[i] = Link(g, seqs, i)
      <3>1. Link(f, seqs, i) = Link(g, seqs, i)
        <4>1. i # 1 => i - 1 \in 1..m
          OBVIOUS
        <4> HIDE DEF g
        <4>2. QED
          BY <4>1, <2>2 DEF Link
      <3>2. CASE i = m + 1
        BY <3>1, <3>2
      <3>3. CASE i # m + 1
        <4>1. i \in 1..m
          BY <3>3
        <4>2. f[i] = Link(f, seqs, i)
          BY <4>1, <2>1 DEF Linked
        <4>3. QED
          BY <4>1, <4>2, <3>1, <2>2
      <3>4. QED
        BY <3>2, <3>3
    <2>4. g = [i \in 1..(m + 1) |-> g[i]]
      OBVIOUS
    <2> HIDE DEF g
    <2>5. Linked(g, seqs, m + 1)
      BY <2>3, <2>4 DEF Linked
    <2>6. QED
      BY <2>5
  <1> HIDE DEF T
  <1>3. T = Nat
    <2>1. T \in SUBSET Nat
      BY DEF T
    <2>2. QED
      BY <1>1, <1>2, <2>1, Induction
  <1>4. QED
    BY <1>3 DEF T

LEMMA FlattenFacts ==
  ASSUME NEW seqs, Listed(seqs), \A i \in 1..Len(seqs) : Listed(seqs[i])
  PROVE  /\ Listed(FlattenSeq(seqs))
         /\ \A e \in ToSet(FlattenSeq(seqs)) : \E i \in 1..Len(seqs) : e \in ToSet(seqs[i])
  <1> DEFINE n == Len(seqs)
             All == UNION {ToSet(seqs[i]) : i \in 1..n}
  <1>1. n \in Nat /\ DOMAIN seqs = 1..n
    BY ListedFacts
  <1>2. CASE n = 0
    <2>1. FlattenSeq(seqs) = seqs
      BY <1>2 DEF FlattenSeq
    <2>2. ToSet(seqs) = {}
      BY <1>1, <1>2 DEF ToSet
    <2>3. QED
      BY <2>1, <2>2
  <1>3. CASE n # 0
    <2>1. PICK f : Linked(f, seqs, n) /\ FlattenSeq(seqs) = f[n]
      <3>1. \E f : Linked(f, seqs, n)
        BY <1>1, LinkedExists
      <3>2. QED
        BY <3>1, <1>3 DEF FlattenSeq, Linked, Link
    <2>2. \A i \in 1..n : f[i] = Link(f, seqs, i)
      BY <2>1 DEF Linked
    <2> DEFINE T == {m \in Nat : m \in 1..n => Listed(f[m]) /\ ToSet(f[m]) \subseteq All}
    <2>3. 0 \in T
      OBVIOUS
    <2>4. ASSUME NEW m \in T PROVE m + 1 \in T
      <3> SUFFICES ASSUME m + 1 \in 1..n
                   PROVE  Listed(f[m + 1]) /\ ToSet(f[m + 1]) \subseteq All
        OBVIOUS
      <3>1. Listed(seqs[m + 1]) /\ ToSet(seqs[m + 1]) \subseteq All
        OBVIOUS
      <3>2. f[m + 1] = Link(f, seqs, m + 1)
        BY <2>2
      <3>3. CASE m = 0
        BY <3>1, <3>2, <3>3 DEF Link
      <3>4. CASE m # 0
        <4>1. m \in 1..n /\ m + 1 # 1 /\ m + 1 - 1 = m
          BY <3>4, <1>1
        <4>2. Listed(f[m]) /\ ToSet(f[m]) \subseteq All
          BY <4>1
        <4>3. f[m + 1] = f[m] \o seqs[m + 1]
          <5>1. PICK k : k = m + 1 /\ k # 1 /\ k - 1 = m
            BY <4>1
          <5>2. Link(f, seqs, k) = f[k - 1] \o seqs[k]
            BY <5>1 DEF Link
          <5> HIDE DEF T, All
          <5>3. QED
            BY <3>2, <5>1, <5>2
        <4> HIDE DEF All
        <4>4. QED
          BY <3>1, <4>2, <4>3, ConcatListed
      <3>5. QED
        BY <3>3, <3>4
    <2>5. n \in T
      <3> HIDE DEF T
      <3>1. T \in SUBSET Nat
        BY DEF T
      <3>2. QED
        BY <3>1, <2>3, <2>4, <1>1, Induction
    <2>6. Listed(f[n]) /\ ToSet(f[n]) \subseteq All
      BY <2>5, <1>1, <1>3
    <2>7. QED
      BY <2>1, <2>6
  <1>4. QED
    BY <1>2, <1>3

-----------------------------------------------------------------------------
(* Chosen picks each of the indices once, in their order.                   *)

Before(i, which) == {j \in which : j < i}
Rank(i, which) == Cardinality(Before(i, which))
At(k, which) == CHOOSE i \in which : Rank(i, which) = k - 1

LEMMA RankFacts ==
  ASSUME NEW n \in Nat, NEW which \in SUBSET (1..n)
  PROVE  /\ IsFiniteSet(which) /\ Cardinality(which) \in Nat
         /\ \A i \in which : Rank(i, which) \in 0..(Cardinality(which) - 1)
         /\ \A i, j \in which : i < j => Rank(i, which) < Rank(j, which)
  <1>1. IsFiniteSet(which) /\ Cardinality(which) \in Nat
    <2>1. IsFiniteSet(1..n)
      BY FS_Interval
    <2>2. QED
      BY <2>1, FS_Subset, FS_CardinalityType
  <1>2. ASSUME NEW i
        PROVE  /\ IsFiniteSet(Before(i, which)) /\ Rank(i, which) \in Nat
    <2>1. Before(i, which) \in SUBSET which
      BY DEF Before
    <2>2. QED
      BY <2>1, <1>1, FS_Subset, FS_CardinalityType DEF Rank
  <1>3. ASSUME NEW i \in which PROVE Rank(i, which) \in 0..(Cardinality(which) - 1)
    <2>1. i \notin Before(i, which)
      BY DEF Before
    <2>2. Before(i, which) \union {i} \in SUBSET which
      BY DEF Before
    <2>3. Cardinality(Before(i, which) \union {i}) = Rank(i, which) + 1
      BY <2>1, <1>2, FS_AddElement DEF Rank
    <2>4. Rank(i, which) + 1 <= Cardinality(which)
      BY <2>2, <2>3, <1>1, FS_Subset
    <2>5. QED
      BY <2>4, <1>1, <1>2
  <1>4. ASSUME NEW i \in which, NEW j \in which, i < j PROVE Rank(i, which) < Rank(j, which)
    <2>1. i \notin Before(i, which)
      BY DEF Before
    <2>2. Before(i, which) \union {i} \in SUBSET Before(j, which)
      <3>1. \A k \in which : k \in Nat
        OBVIOUS
      <3>2. \A k \in which : k < i => k < j
        BY <3>1, <1>4
      <3>3. QED
        BY <3>2, <1>4 DEF Before
    <2>3. Cardinality(Before(i, which) \union {i}) = Rank(i, which) + 1
      BY <2>1, <1>2, FS_AddElement DEF Rank
    <2>4. Rank(i, which) + 1 <= Rank(j, which)
      BY <2>2, <2>3, <1>2, FS_Subset DEF Rank
    <2>5. QED
      BY <2>4, <1>2
  <1>5. QED
    BY <1>1, <1>3, <1>4

LEMMA AtFacts ==
  ASSUME NEW n \in Nat, NEW which \in SUBSET (1..n)
  PROVE  /\ \A k \in 1..Cardinality(which) :
              At(k, which) \in which /\ Rank(At(k, which), which) = k - 1
         /\ \A i \in which : /\ Rank(i, which) + 1 \in 1..Cardinality(which)
                             /\ At(Rank(i, which) + 1, which) = i
  <1> DEFINE N == Cardinality(which)
  <1> DEFINE f == [i \in which |-> Rank(i, which)]
  <1>1. /\ IsFiniteSet(which) /\ N \in Nat /\ \A i \in which : Rank(i, which) \in 0..(N - 1)
        /\ \A i, j \in which : i < j => Rank(i, which) < Rank(j, which)
    BY RankFacts
  <1>2. \A i, j \in which : Rank(i, which) = Rank(j, which) => i = j
    <2> SUFFICES ASSUME NEW i \in which, NEW j \in which, Rank(i, which) = Rank(j, which)
                 PROVE  i = j
      OBVIOUS
    <2>1. i < j \/ j < i \/ i = j
      OBVIOUS
    <2>2. Rank(i, which) \in Nat /\ Rank(j, which) \in Nat
      BY <1>1
    <2>3. QED
      BY <2>1, <2>2, <1>1
  <1> HIDE DEF N
  <1>3. f \in [which -> 0..(N - 1)] /\ \A i, j \in which : f[i] = f[j] => i = j
    BY <1>1, <1>2
  <1>4. f \in Injection(which, 0..(N - 1))
    <2>1. IsInjective(f)
      BY <1>3 DEF IsInjective
    <2>2. QED
      BY <1>3, <2>1 DEF Injection
  <1>5. IsFiniteSet(0..(N - 1)) /\ Cardinality(0..(N - 1)) = N
    <2>1. 0 \in Int /\ N - 1 \in Int
      BY <1>1
    <2>2. /\ IsFiniteSet(0..(N - 1))
          /\ Cardinality(0..(N - 1)) = IF 0 > N - 1 THEN 0 ELSE N - 1 - 0 + 1
      BY <2>1, FS_Interval
    <2>3. QED
      BY <2>2, <1>1
  <1>6. f \in Surjection(which, 0..(N - 1))
    BY <1>4, <1>5, FS_Injection DEF N
  <1>7. ASSUME NEW k \in 1..N
        PROVE  At(k, which) \in which /\ Rank(At(k, which), which) = k - 1
    <2>1. k - 1 \in 0..(N - 1)
      BY <1>1
    <2>2. \E i \in which : f[i] = k - 1
      BY <2>1, <1>6 DEF Surjection
    <2>3. \E i \in which : Rank(i, which) = k - 1
      BY <2>2
    <2>4. QED
      BY <2>3 DEF At
  <1>8. ASSUME NEW i \in which
        PROVE  Rank(i, which) + 1 \in 1..N /\ At(Rank(i, which) + 1, which) = i
    <2>1. Rank(i, which) + 1 \in 1..N /\ Rank(i, which) + 1 - 1 = Rank(i, which)
      BY <1>1
    <2> DEFINE k == Rank(i, which) + 1
    <2>2. /\ At(k, which) \in which
          /\ Rank(At(k, which), which) = Rank(i, which)
      <3>1. k \in 1..N /\ k - 1 = Rank(i, which)
        BY <2>1, <1>1
      <3> HIDE DEF k
      <3>2. QED
        BY <3>1, <1>7
    <2>3. QED
      BY <2>1, <2>2, <1>2
  <1>9. QED
    BY <1>7, <1>8 DEF N

LEMMA ChosenFacts ==
  ASSUME NEW s, NEW n \in Nat, NEW which \in SUBSET (1..n)
  PROVE  /\ Listed(Chosen(s, which))
         /\ Len(Chosen(s, which)) = Cardinality(which) /\ Cardinality(which) \in Nat
         /\ \A k \in 1..Cardinality(which) :
              At(k, which) \in which /\ Chosen(s, which)[k] = s[At(k, which)]
         /\ Chosen(s, which) # <<>> <=> which # {}
  <1>1. Cardinality(which) \in Nat /\ IsFiniteSet(which)
    BY RankFacts
  <1>2. Chosen(s, which) = [k \in 1..Cardinality(which) |-> s[At(k, which)]]
    BY DEF Chosen, At, Rank, Before
  <1>3. Listed(Chosen(s, which)) /\ Len(Chosen(s, which)) = Cardinality(which)
    BY <1>1, <1>2, FunctionListed
  <1>4. Cardinality(which) = 0 <=> which = {}
    BY <1>1, FS_EmptySet
  <1>5. Chosen(s, which) # <<>> <=> which # {}
    <2>1. Chosen(s, which) = <<>> => Len(Chosen(s, which)) = 0
      BY EmptyListed
    <2>2. Len(Chosen(s, which)) = 0 => Chosen(s, which) = <<>>
      BY <1>3, EmptySeq DEF Listed
    <2>3. QED
      BY <2>1, <2>2, <1>3, <1>4
  <1>6. \A k \in 1..Cardinality(which) :
           At(k, which) \in which /\ Chosen(s, which)[k] = s[At(k, which)]
    <2>1. \A k \in 1..Cardinality(which) : At(k, which) \in which
      BY AtFacts
    <2>2. QED
      BY <1>2, <2>1
  <1>7. QED
    BY <1>1, <1>3, <1>5, <1>6

LEMMA ChosenElement ==
  ASSUME NEW s, NEW n \in Nat, NEW which \in SUBSET (1..n), NEW i \in which
  PROVE  \E k \in 1..Cardinality(which) : Chosen(s, which)[k] = s[i]
  <1>1. Chosen(s, which) = [k \in 1..Cardinality(which) |-> s[At(k, which)]]
    BY DEF Chosen, At, Rank, Before
  <1>2. Rank(i, which) + 1 \in 1..Cardinality(which) /\ At(Rank(i, which) + 1, which) = i
    BY AtFacts
  <1>3. QED
    BY <1>1, <1>2

(* A sequence made from another one, element by element.                    *)
LEMMA MappedListed ==
  ASSUME NEW s, Listed(s), NEW t, DOMAIN t = DOMAIN s, t = [k \in DOMAIN t |-> t[k]]
  PROVE  Listed(t)
  <1>1. Len(s) \in Nat /\ DOMAIN t = 1..Len(s)
    BY ListedFacts
  <1>2. QED
    BY <1>1, FunctionListed

(* What is chosen from a sequence is in it.                                 *)
LEMMA ChosenFrom ==
  ASSUME NEW s, Listed(s), NEW which, which \in SUBSET DOMAIN s
  PROVE  /\ Listed(Chosen(s, which))
         /\ \A k \in DOMAIN Chosen(s, which) : \E i \in which : Chosen(s, which)[k] = s[i]
  <1>1. Len(s) \in Nat /\ which \in SUBSET (1..Len(s))
    BY ListedFacts
  <1>2. Listed(Chosen(s, which)) /\ Cardinality(which) \in Nat
    BY <1>1, ChosenFacts
  <1>3. Chosen(s, which) = [k \in 1..Cardinality(which) |-> s[At(k, which)]]
    BY DEF Chosen, At, Rank, Before
  <1>4. \A k \in 1..Cardinality(which) : At(k, which) \in which
    BY <1>1, AtFacts
  <1>5. QED
    BY <1>2, <1>3, <1>4

-----------------------------------------------------------------------------
(* What the variables are, as far as the results need it.                   *)

PassFields == {"pc", "call", "required", "step", "repairs", "attempt", "said", "todo",
               "flagged", "content", "end"}

Stages == {"idle", "waiting", "fast", "fast_sift", "agent", "agent_sift", "publish", "failed"}

(* What the analysis relies on in a turn, or in the segment it comes from.  *)
TurnTyped(turn) == turn.speaker \in Speakers /\ Listed(turn.text.threats)
TurnsTyped(turns) == \A k \in 1..Len(turns) : TurnTyped(turns[k])

PassShaped ==
  /\ DOMAIN pass = Threads
  /\ \A p \in Threads : DOMAIN pass[p] = PassFields /\ pass[p].call \in Calls

Shaped ==
  /\ PassShaped /\ live \in Stages
  /\ Listed(topic) /\ \A k \in 1..Len(topic) : topic[k].call \in Calls
  /\ DOMAIN transcript = Calls /\ \A c \in Calls : Listed(transcript[c])
  /\ DOMAIN reported = Calls /\ DOMAIN upto = Calls
  /\ DOMAIN last = Calls /\ \A c \in Calls : DOMAIN last[c] = SignalTypes
  /\ DOMAIN published = Calls /\ \A c \in Calls : Listed(published[c])
  /\ Listed(batch)
  /\ live \in {"idle", "waiting", "fast"} => batch = <<>>
  /\ TurnsTyped(topic) /\ \A c \in Calls : TurnsTyped(transcript[c])
  /\ context.call \in Calls

LEMMA RestingFacts ==
  ASSUME NEW c
  PROVE  DOMAIN Resting(c) = PassFields /\ Resting(c).call = c
  BY DEF Resting, Fresh, PassFields

LEMMA FreshFacts ==
  ASSUME NEW c, NEW required
  PROVE  DOMAIN Fresh(c, required) = PassFields /\ Fresh(c, required).call = c
  BY DEF Fresh, PassFields

(* A step of the agent moves its own pass and changes no call's turns and   *)
(* no call's flags.                                                         *)
PassMoves(p) ==
  /\ PassShaped'
  /\ \A q \in Threads : pass'[q].call = pass[q].call
  /\ \A q \in Threads \ {p} : pass'[q] = pass[q]

LEMMA FinishMoves ==
  ASSUME PassShaped, NEW p \in Threads, NEW content, Finish(p, content)
  PROVE  PassMoves(p)
  <1>1. CASE ~Valid(p, content) /\ pass[p].repairs < MaxRepairs
    BY <1>1 DEF Finish, PassShaped, PassFields, PassMoves
  <1>2. CASE ~(~Valid(p, content) /\ pass[p].repairs < MaxRepairs)
    <2>1. PICK end : pass' = [pass EXCEPT ![p].pc = "stopped", ![p].content = content,
                                          ![p].end = end]
      BY <1>2 DEF Finish
    <2>2. QED
      BY <2>1 DEF PassShaped, PassFields, PassMoves
  <1>3. QED
    BY <1>1, <1>2

LEMMA UseToolsMoves ==
  ASSUME PassShaped, NEW p \in Threads, NEW calls, UseTools(p, calls)
  PROVE  PassMoves(p)
  BY DEF UseTools, PassShaped, PassFields, PassMoves

LEMMA StopMoves ==
  ASSUME PassShaped, NEW p \in Threads, NEW end, Stop(p, end)
  PROVE  PassMoves(p)
  BY DEF Stop, PassShaped, PassFields, PassMoves

LEMMA AgentMovesPass ==
  ASSUME PassShaped, NEW p \in Threads, AgentStep(p)
  PROVE  /\ PassMoves(p) /\ UNCHANGED <<provider, transcript, reported>>
         /\ context'.call \in {context.call, pass[p].call}
  <1>1. CASE SetContext(p)
    <2>1. PassMoves(p) /\ UNCHANGED <<provider, transcript, reported>>
      BY <1>1 DEF SetContext, callVars, PassShaped, PassFields, PassMoves
    <2>2. context'.call \in {context.call, pass[p].call}
      BY <1>1 DEF SetContext
    <2>3. QED
      BY <2>1, <2>2
  <1>2. CASE Exhausted(p) \/ OutOfTime(p) \/ PostRefused(p)
    BY <1>2, StopMoves DEF Exhausted, OutOfTime, PostRefused, callVars
  <1>3. CASE Ask(p)
    BY <1>3 DEF Ask, callVars, PassShaped, PassFields, PassMoves
  <1>4. CASE CompleteOffline(p)
    <2>1. PassMoves(p)
      <3>1. ASSUME NEW calls, NEW content, Complete(p, calls, content) PROVE PassMoves(p)
        BY <3>1, FinishMoves, UseToolsMoves DEF Complete
      <3>2. PICK turns \in {transcript[context.call]} :
              \/ Gather(p, turns)
              \/ IF flaggedYet THEN Conclude(p, context.call, turns)
                 ELSE RaiseFlags(p, context.call, turns)
        BY <1>4 DEF CompleteOffline
      <3>3. CASE Gather(p, turns)
        BY <3>3, UseToolsMoves DEF Gather
      <3>4. CASE Conclude(p, context.call, turns)
        BY <3>4, FinishMoves DEF Conclude
      <3>5. CASE RaiseFlags(p, context.call, turns)
        BY <3>5, <3>1 DEF RaiseFlags
      <3>6. QED
        BY <3>2, <3>3, <3>4, <3>5
    <2>2. QED
      BY <1>4, <2>1 DEF CompleteOffline
  <1>5. CASE CompleteAzure(p)
    BY <1>5, FinishMoves, UseToolsMoves DEF CompleteAzure, Complete, callVars
  <1>6. CASE PostFails(p)
    <2>1. CASE pass[p].attempt < MaxRetries
      BY <1>6, <2>1 DEF PostFails, callVars, PassShaped, PassFields, PassMoves
    <2>2. CASE ~(pass[p].attempt < MaxRetries)
      BY <1>6, <2>2, StopMoves DEF PostFails, callVars
    <2>3. QED
      BY <2>1, <2>2
  <1>7. CASE InvokeTools(p)
    <2>1. PICK more : pass' = [pass EXCEPT ![p].pc = "loop", ![p].todo = <<>>,
                                           ![p].flagged = @ \o more]
      BY <1>7 DEF InvokeTools
    <2>2. QED
      BY <1>7, <2>1 DEF InvokeTools, callVars, PassShaped, PassFields, PassMoves
  <1>8. QED
    BY <1>1, <1>2, <1>3, <1>4, <1>5, <1>6, <1>7 DEF AgentStep

LEMMA InitShaped == Init => Shaped
  <1> SUFFICES ASSUME Init PROVE Shaped
    OBVIOUS
  <1>1. PICK s \in Scenarios : topic = s.topic
    BY DEF Init
  <1>2. Listed(topic) /\ \A k \in 1..Len(topic) : topic[k].call \in Calls
    <2>1. Listed(topic) /\ \A segment \in ToSet(topic) : segment.call \in Calls
      BY <1>1, LiveAssumption DEF LiveAssumption, Listed
    <2>2. QED
      BY <2>1, ListedFacts
  <1>a. TurnsTyped(topic)
    <2>1. \A segment \in ToSet(topic) : TurnTyped(segment)
      BY <1>1, LiveAssumption DEF LiveAssumption, Listed, TurnTyped
    <2>2. QED
      BY <1>2, <2>1, ListedFacts DEF TurnsTyped
  <1>b. TurnsTyped(<<>>)
    BY EmptyListed DEF TurnsTyped
  <1>3. AnyCall \in Calls
    BY LiveAssumption DEF LiveAssumption, AnyCall
  <1>4. PassShaped
    BY <1>3, RestingFacts DEF Init, PassShaped
  <1>5. QED
    BY <1>2, <1>3, <1>4, <1>a, <1>b, EmptyListed DEF Init, Shaped, Stages

(* The other thread, and the agent on behalf of either.                     *)
Aside ==
  /\ UNCHANGED <<transcript, reported, liveVars>> /\ PassShaped' /\ Here' = Here
  /\ context'.call \in Calls

LEMMA AsideFacts ==
  ASSUME Shaped,
         \/ \E c \in Calls : Summarise(c)
         \/ PublishSummary
         \/ \E p \in Threads : Agent(p)
  PROVE  Aside
  <1> "live" \in Threads /\ "post_call" \in Threads /\ "live" # "post_call"
    BY DEF Threads, Kinds
  <1>1. ASSUME NEW c \in Calls, Summarise(c) PROVE Aside
    <2>1. pass' = [pass EXCEPT !["post_call"] = Fresh(c, given[c])]
          /\ UNCHANGED <<transcript, reported, liveVars, context>>
      BY <1>1 DEF Summarise, Begin, callVars
    <2>2. DOMAIN Fresh(c, given[c]) = PassFields /\ Fresh(c, given[c]).call = c
      BY FreshFacts
    <2> HIDE DEF Fresh
    <2>3. QED
      BY <2>1, <2>2 DEF Shaped, PassShaped, Aside, Here
  <1>2. CASE PublishSummary
    <2> DEFINE c == pass["post_call"].call
    <2>1. pass' = [pass EXCEPT !["post_call"] = Resting(c)]
          /\ UNCHANGED <<transcript, reported, liveVars, context>> /\ c \in Calls
      BY <1>2 DEF PublishSummary, callVars, Shaped, PassShaped
    <2>2. DOMAIN Resting(c) = PassFields /\ Resting(c).call = c
      BY RestingFacts
    <2> HIDE DEF Resting, c
    <2>3. QED
      BY <2>1, <2>2 DEF Shaped, PassShaped, Aside, Here
  <1>3. ASSUME NEW p \in Threads, Agent(p) PROVE Aside
    <2>1. /\ PassMoves(p) /\ UNCHANGED <<transcript, reported, liveVars>>
          /\ context'.call \in {context.call, pass[p].call}
      BY <1>3, AgentMovesPass DEF Agent, Shaped
    <2>2. QED
      BY <2>1 DEF PassMoves, Shaped, PassShaped, Aside, Here
  <1>4. QED
    BY <1>1, <1>2, <1>3

LEMMA HereIsACall == ASSUME Shaped PROVE Here \in Calls
  BY DEF Shaped, PassShaped, Here, Threads, Kinds

(* The live thread begins or ends with a call: only its own pass changes.   *)
LEMMA LivePassReplaced ==
  ASSUME PassShaped, NEW new, DOMAIN new = PassFields, new.call \in Calls,
         pass' = [pass EXCEPT !["live"] = new]
  PROVE  PassShaped' /\ Here' = new.call
  BY DEF PassShaped, Here, Threads, Kinds

LEMMA HearShaped ==
  ASSUME Shaped, Hear
  PROVE  /\ Shaped' /\ Here' = topic[1].call /\ batch = <<>> /\ Here' \in Calls
         /\ Listed(transcript[Here'])
         /\ \A c \in Calls \ {Here'} : transcript'[c] = transcript[c]
         /\ \E turn : transcript'[Here'] = Append(transcript[Here'], turn)
         /\ live = "idle"
         /\ live' = IF Summing(Here') THEN "waiting"
                    ELSE IF Len(transcript'[Here']) - upto[Here'] >= Stride THEN "fast"
                         ELSE "idle"
         /\ UNCHANGED <<upto, last, found, batch, published, reported>>
  <1> DEFINE c == Head(topic).call
  <1> DEFINE turn == Turn(Head(topic))
  <1>1. /\ transcript' = [transcript EXCEPT ![c] = Append(transcript[c], turn)]
        /\ live' = IF Summing(c) THEN "waiting"
                   ELSE IF Len(Append(transcript[c], turn)) - upto[c] >= Stride THEN "fast"
                        ELSE "idle"
        /\ pass' = [pass EXCEPT !["live"] = Resting(c)]
        /\ topic' = Tail(topic) /\ topic # <<>> /\ live = "idle"
        /\ UNCHANGED <<upto, last, found, batch, published, reported, context>>
    BY DEF Hear, Proceed, ShouldAnalyse
  <1>2. /\ Listed(Tail(topic)) /\ Head(topic) = topic[1] /\ Len(topic) \in Nat \ {0}
        /\ Len(Tail(topic)) = Len(topic) - 1
        /\ \A k \in 1..Len(Tail(topic)) : Tail(topic)[k] = topic[k + 1]
    BY <1>1, TailListed DEF Shaped
  <1>3. c \in Calls /\ c = topic[1].call
    BY <1>2 DEF Shaped
  <1>4. /\ \A k \in 1..Len(topic') : topic'[k].call \in Calls
        /\ TurnsTyped(topic') /\ TurnTyped(turn)
    <2>1. ASSUME NEW k \in 1..Len(topic') PROVE k + 1 \in 1..Len(topic) /\ topic'[k] = topic[k + 1]
      BY <1>1, <1>2
    <2>2. 1 \in 1..Len(topic) /\ Head(topic) = topic[1]
      BY <1>2
    <2>3. TurnTyped(turn)
      BY <2>2 DEF Shaped, TurnsTyped, TurnTyped, Turn
    <2>4. QED
      BY <2>1, <2>3 DEF Shaped, TurnsTyped
  <1> HIDE DEF c, turn
  <1>5. PassShaped' /\ Here' = c
    BY <1>1, <1>3, RestingFacts, LivePassReplaced DEF Shaped
  <1>6. Listed(Append(transcript[c], turn)) /\ TurnsTyped(Append(transcript[c], turn))
    <2>1. Listed(transcript[c]) /\ TurnsTyped(transcript[c])
      BY <1>3 DEF Shaped
    <2>2. /\ Len(transcript[c]) \in Nat /\ Len(Append(transcript[c], turn)) = Len(transcript[c]) + 1
          /\ \A k \in 1..Len(transcript[c]) : Append(transcript[c], turn)[k] = transcript[c][k]
          /\ Append(transcript[c], turn)[Len(transcript[c]) + 1] = turn
          /\ Listed(Append(transcript[c], turn))
      BY <2>1, AppendListed, ListedFacts
    <2>3. \A k \in 1..(Len(transcript[c]) + 1) :
            k \in 1..Len(transcript[c]) \/ k = Len(transcript[c]) + 1
      BY <2>2
    <2>4. QED
      BY <1>4, <2>1, <2>2, <2>3 DEF TurnsTyped
  <1>7. /\ transcript'[c] = Append(transcript[c], turn)
        /\ \A d \in Calls \ {c} : transcript'[d] = transcript[d]
        /\ DOMAIN transcript' = Calls
    BY <1>1, <1>3 DEF Shaped
  <1>8. live' \in {"idle", "waiting", "fast"} /\ batch = <<>>
    BY <1>1 DEF Shaped
  <1>9. Shaped'
    BY <1>1, <1>2, <1>4, <1>5, <1>6, <1>7, <1>8 DEF Shaped, Stages
  <1>10. QED
    BY <1>1, <1>3, <1>5, <1>7, <1>8, <1>9 DEF Shaped

(* A new state of the call of the next segment: nothing was analysed,       *)
(* reported or remembered.                                                  *)
LEMMA HearAnewShaped ==
  ASSUME Shaped, HearAnew
  PROVE  /\ Shaped' /\ batch = <<>> /\ Here' \in Calls /\ ~Summing(Here')
         /\ \A c \in Calls \ {Here'} :
              /\ transcript'[c] = transcript[c] /\ published'[c] = published[c]
              /\ reported'[c] = reported[c] /\ last'[c] = last[c] /\ upto'[c] = upto[c]
         /\ Len(transcript'[Here']) = 1 /\ published'[Here'] = <<>>
         /\ reported'[Here'] = {} /\ upto'[Here'] = 0
         /\ \A t \in SignalTypes : last'[Here'][t] = <<>>
         /\ live' = IF 1 >= Stride THEN "fast" ELSE "idle"
         /\ UNCHANGED <<found, batch>>
  <1> DEFINE c == Head(topic).call
             turn == Turn(Head(topic))
  <1>1. /\ transcript' = [transcript EXCEPT ![c] = <<turn>>]
        /\ reported' = [reported EXCEPT ![c] = {}] /\ upto' = [upto EXCEPT ![c] = 0]
        /\ last' = [last EXCEPT ![c] = [t \in SignalTypes |-> <<>>]]
        /\ published' = [published EXCEPT ![c] = <<>>]
        /\ live' = IF Len(<<turn>>) - 0 >= Stride THEN "fast" ELSE "idle"
        /\ pass' = [pass EXCEPT !["live"] = Resting(c)]
        /\ topic' = Tail(topic) /\ topic # <<>> /\ live = "idle" /\ ~Summing(c)
        /\ UNCHANGED <<found, batch, context>>
    BY DEF HearAnew, Proceed, ShouldAnalyse, Dropped
  <1>2. /\ Listed(Tail(topic)) /\ Head(topic) = topic[1] /\ Len(topic) \in Nat \ {0}
        /\ Len(Tail(topic)) = Len(topic) - 1
        /\ \A k \in 1..Len(Tail(topic)) : Tail(topic)[k] = topic[k + 1]
    BY <1>1, TailListed DEF Shaped
  <1>3. c \in Calls
    BY <1>2 DEF Shaped
  <1>4. /\ \A k \in 1..Len(topic') : topic'[k].call \in Calls
        /\ TurnsTyped(topic') /\ TurnTyped(turn)
    <2>1. ASSUME NEW k \in 1..Len(topic') PROVE k + 1 \in 1..Len(topic) /\ topic'[k] = topic[k + 1]
      BY <1>1, <1>2
    <2>2. 1 \in 1..Len(topic) /\ Head(topic) = topic[1]
      BY <1>2
    <2>3. TurnTyped(turn)
      BY <2>2 DEF Shaped, TurnsTyped, TurnTyped, Turn
    <2>4. QED
      BY <2>1, <2>3 DEF Shaped, TurnsTyped
  <1> HIDE DEF c, turn
  <1>5. PassShaped' /\ Here' = c
    BY <1>1, <1>3, RestingFacts, LivePassReplaced DEF Shaped
  <1>6. Listed(<<turn>>) /\ Len(<<turn>>) = 1 /\ TurnsTyped(<<turn>>)
    BY <1>4 DEF TurnsTyped, Listed, ToSet
  <1>7. /\ transcript'[c] = <<turn>> /\ published'[c] = <<>> /\ reported'[c] = {}
        /\ upto'[c] = 0 /\ last'[c] = [t \in SignalTypes |-> <<>>]
        /\ \A d \in Calls \ {c} :
             /\ transcript'[d] = transcript[d] /\ published'[d] = published[d]
             /\ reported'[d] = reported[d] /\ last'[d] = last[d] /\ upto'[d] = upto[d]
        /\ DOMAIN transcript' = Calls /\ DOMAIN published' = Calls /\ DOMAIN reported' = Calls
        /\ DOMAIN last' = Calls /\ DOMAIN upto' = Calls
    BY <1>1, <1>3 DEF Shaped
  <1>8. live' \in {"idle", "fast"} /\ batch = <<>>
    BY <1>1 DEF Shaped
  <1>9. Shaped'
    <2>1. \A d \in Calls : /\ Listed(transcript'[d]) /\ TurnsTyped(transcript'[d])
                           /\ Listed(published'[d]) /\ DOMAIN last'[d] = SignalTypes
      BY <1>6, <1>7, EmptyListed DEF Shaped
    <2>2. QED
      BY <1>1, <1>2, <1>4, <1>5, <1>7, <1>8, <2>1 DEF Shaped, Stages
  <1>10. QED
    BY <1>1, <1>3, <1>5, <1>6, <1>7, <1>8, <1>9

LEMMA FastPathShaped ==
  ASSUME Shaped, FastPath
  PROVE  /\ Shaped' /\ Here' = Here /\ live = "fast" /\ live' = "fast_sift"
         /\ \E required : found' = FastRisks(transcript[Here], required, {Here})
         /\ UNCHANGED <<transcript, reported, upto, last, batch, published>>
  <1> "live" \in Threads
    BY DEF Threads, Kinds
  <1>1. PICK required : /\ pass' = [pass EXCEPT !["live"].required = required]
                        /\ found' = FastRisks(Turns, required, {Here})
    BY DEF FastPath
  <1>2. PassShaped' /\ Here' = Here
    BY <1>1 DEF Shaped, PassShaped, PassFields, Here
  <1>3. /\ live = "fast" /\ live' = "fast_sift"
        /\ UNCHANGED <<topic, transcript, reported, upto, last, batch, published, context>>
    BY DEF FastPath
  <1>4. Shaped'
    BY <1>2, <1>3 DEF Shaped, Stages
  <1>5. QED
    BY <1>1, <1>2, <1>3, <1>4 DEF Turns

LEMMA AcceptShaped ==
  ASSUME Shaped, Sift
  PROVE  /\ Shaped' /\ Here' = Here /\ live \in {"fast_sift", "agent_sift"} /\ live' = live
         /\ found # <<>> /\ found' = Tail(found)
         /\ UNCHANGED <<transcript, upto, published>>
  <1>1. /\ live \in {"fast_sift", "agent_sift"} /\ found # <<>> /\ found' = Tail(found)
        /\ UNCHANGED <<transcript, upto, published, pass, topic, live, context>>
    BY DEF Sift
  <1>2. PassShaped' /\ Here' = Here
    BY <1>1 DEF Shaped, PassShaped, Here
  <1>3. Listed(batch') /\ DOMAIN reported' = Calls /\ DOMAIN last' = Calls
        /\ \A c \in Calls : DOMAIN last'[c] = SignalTypes
    <2> DEFINE risk == Head(found)
    <2> HIDE DEF risk
    <2>1. CASE Reject(risk)
      BY <2>1 DEF Reject, Shaped
    <2>2. CASE Accept(risk)
      <3>1. Listed(batch')
        BY <2>2, AppendListed DEF Accept, Shaped
      <3>2. DOMAIN reported' = Calls
        BY <2>2 DEF Accept, Shaped
      <3>3. \/ UNCHANGED last
            \/ last' = [last EXCEPT ![Here][risk.type] = <<risk>>]
        BY <2>2 DEF Accept
      <3>4. DOMAIN last' = Calls /\ \A c \in Calls : DOMAIN last'[c] = SignalTypes
        BY <3>3 DEF Shaped
      <3>5. QED
        BY <3>1, <3>2, <3>4
    <2>3. QED
      BY <2>1, <2>2 DEF Sift, risk
  <1>4. QED
    BY <1>1, <1>2, <1>3 DEF Shaped

(* The agent is asked and has answered, the analysis ends, its signals are  *)
(* published or lost with the worker.                                       *)
LEMMA TurnsOfAnalysisShaped ==
  ASSUME Shaped,
         TakeLock \/ AskAgent \/ AgentPath \/ EndAnalysis \/ Publish \/ PublishFails
  PROVE  /\ Shaped' /\ Here' = Here
         /\ UNCHANGED <<transcript, reported, last>>
  <1>1. /\ UNCHANGED <<transcript, reported, last, topic, context>>
        /\ live' \in Stages
    BY DEF TakeLock, Proceed, AskAgent, AgentPath, EndAnalysis, Publish, PublishFails, callVars,
           agentVars, Stages
  <1>2. PassShaped' /\ Here' = Here
    <2>1. CASE AskAgent
      <3> DEFINE new == Fresh(Here, pass["live"].required)
      <3>1. pass' = [pass EXCEPT !["live"] = new]
        BY <2>1 DEF AskAgent, Begin
      <3>2. DOMAIN new = PassFields /\ new.call = Here
        BY FreshFacts
      <3> HIDE DEF new
      <3>3. QED
        BY <3>1, <3>2, HereIsACall, LivePassReplaced DEF Shaped
    <2>2. CASE AgentPath \/ EndAnalysis
      <3> DEFINE new == Resting(Here)
      <3>1. pass' = [pass EXCEPT !["live"] = new]
        BY <2>2 DEF AgentPath, EndAnalysis
      <3>2. DOMAIN new = PassFields /\ new.call = Here
        BY RestingFacts
      <3> HIDE DEF new
      <3>3. QED
        BY <3>1, <3>2, HereIsACall, LivePassReplaced DEF Shaped
    <2>3. CASE TakeLock \/ Publish \/ PublishFails
      BY <2>3 DEF TakeLock, Publish, PublishFails, agentVars, Shaped, PassShaped, Here
    <2>4. QED
      BY <2>1, <2>2, <2>3
  <1>3. /\ DOMAIN published' = Calls /\ \A c \in Calls : Listed(published'[c])
        /\ Listed(batch')
    <2>1. CASE Publish
      <3>1. published' = [published EXCEPT ![Here] = published[Here] \o batch] /\ batch' = <<>>
        BY <2>1 DEF Publish
      <3>2. Listed(published[Here] \o batch)
        BY HereIsACall, ConcatListed DEF Shaped
      <3>3. QED
        BY <3>1, <3>2, EmptyListed DEF Shaped
    <2>2. CASE ~Publish
      BY <2>2 DEF TakeLock, AskAgent, AgentPath, EndAnalysis, PublishFails, Shaped
    <2>3. QED
      BY <2>1, <2>2
  <1>4. DOMAIN upto' = Calls /\ (live' \in {"idle", "waiting", "fast"} => batch' = <<>>)
    BY DEF TakeLock, Proceed, AskAgent, AgentPath, EndAnalysis, Publish, PublishFails, Shaped
  <1>5. QED
    BY <1>1, <1>2, <1>3, <1>4 DEF Shaped

-----------------------------------------------------------------------------
(* The signals of a call, published or about to be, against what the worker *)
(* remembers of it: the policies that are marked and the last signal of     *)
(* each other type.                                                         *)

Violation == "compliance_violation"
Others == SignalTypes \ {Violation}

Distinct(signals) ==
  \A j, k \in DOMAIN signals :
    j # k /\ signals[j].type = Violation /\ signals[k].type = Violation
      => signals[j].policy # signals[k].policy
Marked(signals, flags) ==
  \A k \in DOMAIN signals : signals[k].type = Violation => signals[k].policy \in flags
Told(signals, flags) == \A id \in flags : \E k \in DOMAIN signals : signals[k].policy = id
Changing(signals) ==
  \A t \in Others : \A j, k \in DOMAIN signals :
    Follows(j, k, t, signals) => IsChange(signals[k], signals[j])
IsLatest(k, t, signals) ==
  /\ signals[k].type = t
  /\ \A i \in DOMAIN signals : k < i => signals[i].type # t
Remembered(signals, memory) ==
  \A t \in Others :
    \/ memory[t] = <<>> /\ \A k \in DOMAIN signals : signals[k].type # t
    \/ \E k \in DOMAIN signals : memory[t] = <<signals[k]>> /\ IsLatest(k, t, signals)

Consistent(signals, flags, memory) ==
  /\ Distinct(signals) /\ Marked(signals, flags) /\ Told(signals, flags)
  /\ Changing(signals) /\ Remembered(signals, memory)

(* A violation that is not marked yet is marked and appended.               *)
LEMMA ViolationAppended ==
  ASSUME NEW signals, Listed(signals), NEW flags, NEW memory,
         Consistent(signals, flags, memory),
         NEW risk, risk.type = Violation, risk.policy \notin flags
  PROVE  Consistent(Append(signals, risk), flags \union {risk.policy}, memory)
  <1> DEFINE n == Len(signals)
             more == Append(signals, risk)
  <1>1. /\ n \in Nat /\ DOMAIN signals = 1..n /\ DOMAIN more = 1..(n + 1)
        /\ \A i \in 1..n : more[i] = signals[i]
        /\ more[n + 1] = risk
    BY AppendListed, ListedFacts
  <1>2. \A k \in 1..(n + 1) : k \in 1..n \/ k = n + 1
    BY <1>1
  <1>3. \A k \in 1..n : k \in 1..(n + 1) /\ k < n + 1 /\ k # n + 1
    BY <1>1
  <1> HIDE DEF n, more
  <1>4. Distinct(more)
    BY <1>1, <1>2, <1>3 DEF Consistent, Distinct, Marked
  <1>5. Marked(more, flags \union {risk.policy})
    BY <1>1, <1>2 DEF Consistent, Marked
  <1>6. Told(more, flags \union {risk.policy})
    <2>1. n + 1 \in DOMAIN more
      BY <1>1
    <2>2. QED
      BY <2>1, <1>1, <1>3 DEF Consistent, Told
  <1>7. Changing(more)
    <2> SUFFICES ASSUME NEW t \in Others, NEW j \in DOMAIN more, NEW k \in DOMAIN more,
                        Follows(j, k, t, more)
                 PROVE  IsChange(more[k], more[j])
      BY DEF Changing
    <2>1. j # n + 1 /\ k # n + 1
      BY <1>1 DEF Follows, Others
    <2>2. j \in 1..n /\ k \in 1..n
      BY <2>1, <1>1, <1>2
    <2>3. Follows(j, k, t, signals)
      BY <2>2, <1>1, <1>3 DEF Follows
    <2>4. QED
      BY <2>2, <2>3, <1>1 DEF Consistent, Changing
  <1>8. Remembered(more, memory)
    <2> SUFFICES ASSUME NEW t \in Others
                 PROVE  \/ memory[t] = <<>> /\ \A k \in DOMAIN more : more[k].type # t
                        \/ \E k \in DOMAIN more : memory[t] = <<more[k]>> /\ IsLatest(k, t, more)
      BY DEF Remembered
    <2>1. risk.type # t
      BY DEF Others
    <2>2. CASE memory[t] = <<>> /\ \A k \in DOMAIN signals : signals[k].type # t
      BY <2>1, <2>2, <1>1, <1>2
    <2>3. ASSUME NEW k \in DOMAIN signals, memory[t] = <<signals[k]>>, IsLatest(k, t, signals)
          PROVE  k \in DOMAIN more /\ memory[t] = <<more[k]>> /\ IsLatest(k, t, more)
      BY <2>1, <2>3, <1>1, <1>2, <1>3 DEF IsLatest
    <2>4. QED
      BY <2>2, <2>3 DEF Consistent, Remembered
  <1>9. QED
    BY <1>4, <1>5, <1>6, <1>7, <1>8 DEF Consistent, more

(* A signal of another type that changes the last of its type is appended   *)
(* and remembered.                                                          *)
LEMMA ChangeAppended ==
  ASSUME NEW signals, Listed(signals), NEW flags, NEW memory, DOMAIN memory = SignalTypes,
         Consistent(signals, flags, memory),
         NEW risk, risk.type # Violation,
         memory[risk.type] # <<>> => IsChange(risk, memory[risk.type][1])
  PROVE  Consistent(Append(signals, risk), flags, [memory EXCEPT ![risk.type] = <<risk>>])
  <1> DEFINE n == Len(signals)
             more == Append(signals, risk)
             new == [memory EXCEPT ![risk.type] = <<risk>>]
  <1>1. /\ n \in Nat /\ DOMAIN signals = 1..n /\ DOMAIN more = 1..(n + 1)
        /\ \A i \in 1..n : more[i] = signals[i]
        /\ more[n + 1] = risk
    BY AppendListed, ListedFacts
  <1>2. \A k \in 1..(n + 1) : k \in 1..n \/ k = n + 1
    BY <1>1
  <1>3. \A k \in 1..n : k \in 1..(n + 1) /\ k < n + 1 /\ k # n + 1 /\ ~(n + 1 < k)
    BY <1>1
  <1>a. n + 1 \in DOMAIN more /\ ~(n + 1 < n + 1)
    BY <1>1
  <1>b. \A t \in Others : t # risk.type => new[t] = memory[t]
    BY DEF Others
  <1>c. risk.type \in Others => new[risk.type] = <<risk>>
    BY DEF Others
  <1> HIDE DEF n, more, new
  <1>4. Distinct(more) /\ Marked(more, flags)
    BY <1>1, <1>2 DEF Consistent, Distinct, Marked
  <1>5. Told(more, flags)
    BY <1>1, <1>3 DEF Consistent, Told
  <1>6. Changing(more)
    <2> SUFFICES ASSUME NEW t \in Others, NEW j \in DOMAIN more, NEW k \in DOMAIN more,
                        Follows(j, k, t, more)
                 PROVE  IsChange(more[k], more[j])
      BY DEF Changing
    <2>1. j < k /\ j \in 1..n
      BY <1>1, <1>2, <1>3, <1>a DEF Follows
    <2>2. CASE k \in 1..n
      <3>1. Follows(j, k, t, signals)
        BY <2>1, <2>2, <1>1, <1>3 DEF Follows
      <3>2. QED
        BY <2>1, <2>2, <3>1, <1>1 DEF Consistent, Changing
    <2>3. CASE k = n + 1
      <3>1. signals[j].type = t /\ risk.type = t
        BY <2>1, <2>3, <1>1 DEF Follows
      <3>2. \A i \in 1..n : j < i => signals[i].type # t
        BY <2>3, <1>1, <1>3 DEF Follows
      <3>3. PICK i \in DOMAIN signals : memory[t] = <<signals[i]>> /\ IsLatest(i, t, signals)
        BY <2>1, <3>1, <1>1 DEF Consistent, Remembered
      <3>4. i = j
        <4>1. ~(j < i) /\ ~(i < j)
          BY <3>1, <3>2, <3>3, <2>1, <1>1 DEF IsLatest
        <4>2. QED
          BY <4>1, <2>1, <1>1, <3>3
      <3>5. memory[t] # <<>> /\ memory[t][1] = signals[j]
        BY <3>3, <3>4
      <3>6. QED
        BY <3>1, <3>5, <2>1, <2>3, <1>1
    <2>4. QED
      BY <2>2, <2>3, <1>1, <1>2
  <1>7. Remembered(more, new)
    <2> SUFFICES ASSUME NEW t \in Others
                 PROVE  \/ new[t] = <<>> /\ \A k \in DOMAIN more : more[k].type # t
                        \/ \E k \in DOMAIN more : new[t] = <<more[k]>> /\ IsLatest(k, t, more)
      BY DEF Remembered
    <2>1. CASE t = risk.type
      <3>1. new[t] = <<more[n + 1]>> /\ IsLatest(n + 1, t, more)
        BY <2>1, <1>1, <1>2, <1>3, <1>a, <1>c DEF IsLatest
      <3>2. QED
        BY <3>1, <1>a
    <2>2. CASE t # risk.type
      <3>1. new[t] = memory[t]
        BY <2>2, <1>b
      <3>2. CASE memory[t] = <<>> /\ \A k \in DOMAIN signals : signals[k].type # t
        BY <2>2, <3>1, <3>2, <1>1, <1>2
      <3>3. ASSUME NEW k \in DOMAIN signals, memory[t] = <<signals[k]>>,
                   IsLatest(k, t, signals)
            PROVE  k \in DOMAIN more /\ new[t] = <<more[k]>> /\ IsLatest(k, t, more)
        BY <2>2, <3>1, <3>3, <1>1, <1>2, <1>3 DEF IsLatest
      <3>4. QED
        BY <3>2, <3>3 DEF Consistent, Remembered
    <2>3. QED
      BY <2>1, <2>2
  <1>8. QED
    BY <1>4, <1>5, <1>6, <1>7 DEF Consistent, more, new

(* The invariant: the signals that are published, and for the call in hand  *)
(* those of its batch, agree with what is remembered.                       *)
SignalsOf(c) == published[c] \o (IF Here = c THEN batch ELSE <<>>)
SignalsInv == \A c \in Calls : Consistent(SignalsOf(c), reported[c], last[c])

LEMMA SignalsListed ==
  ASSUME Shaped, NEW c \in Calls
  PROVE  Listed(SignalsOf(c))
  BY ConcatListed, EmptyListed DEF Shaped, SignalsOf

LEMMA ConcatEmpty ==
  ASSUME NEW s, Listed(s)
  PROVE  s \o <<>> = s
  BY ConcatEmptySeq DEF Listed

LEMMA NothingConsistent ==
  ASSUME NEW memory, \A t \in SignalTypes : memory[t] = <<>>
  PROVE  Consistent(<<>>, {}, memory)
  BY EmptyListed
  DEF Consistent, Distinct, Marked, Told, Changing, Remembered, Others

LEMMA InitSignals == Init => SignalsInv
  <1> SUFFICES ASSUME Init, NEW c \in Calls
               PROVE  Consistent(SignalsOf(c), reported[c], last[c])
    BY DEF SignalsInv
  <1>1. published[c] = <<>> /\ batch = <<>> /\ reported[c] = {}
        /\ \A t \in SignalTypes : last[c][t] = <<>>
    BY DEF Init
  <1>2. SignalsOf(c) = <<>>
    BY <1>1, EmptyListed, ConcatEmpty DEF SignalsOf
  <1>3. QED
    BY <1>1, <1>2, NothingConsistent

(* Nothing of what the invariant speaks of changes.                         *)
LEMMA SignalsUntouched ==
  ASSUME Shaped, SignalsInv, Shaped', UNCHANGED <<reported, last>>,
         \A c \in Calls : SignalsOf(c)' = SignalsOf(c)
  PROVE  SignalsInv'
  BY DEF SignalsInv

LEMMA SiftSignals ==
  ASSUME Shaped, SignalsInv, Sift
  PROVE  SignalsInv'
  <1> DEFINE risk == Head(found)
             old == SignalsOf(Here)
  <1>1. /\ Shaped' /\ Here' = Here /\ UNCHANGED published
        /\ Accept(risk) \/ Reject(risk)
    BY AcceptShaped DEF Sift
  <1> HIDE DEF risk
  <1>2. CASE Reject(risk)
    <2>1. \A c \in Calls : SignalsOf(c)' = SignalsOf(c)
      BY <1>1, <1>2 DEF Reject, SignalsOf
    <2>2. QED
      BY <1>1, <1>2, <2>1, SignalsUntouched DEF Reject
  <1>3. CASE Accept(risk)
    <2>1. Here \in Calls /\ Listed(old)
      BY HereIsACall, SignalsListed
    <2>2. Consistent(old, reported[Here], last[Here]) /\ DOMAIN last[Here] = SignalTypes
      BY <2>1 DEF SignalsInv, Shaped
    <2>3. old = published[Here] \o batch
      BY DEF SignalsOf
    <2>4. SignalsOf(Here)' = Append(old, risk)
      <3>1. \A e : published[Here] \o Append(batch, e) = Append(published[Here] \o batch, e)
        BY <2>1, ConcatListed DEF Shaped
      <3>2. batch' = Append(batch, risk)
        BY <1>3 DEF Accept
      <3>3. QED
        BY <1>1, <2>3, <3>1, <3>2 DEF SignalsOf
    <2>5. \A c \in Calls : c # Here => SignalsOf(c)' = SignalsOf(c)
      BY <1>1 DEF SignalsOf
    <2> HIDE DEF old
    <2>6. ASSUME NEW c \in Calls, c # Here
          PROVE  reported'[c] = reported[c] /\ last'[c] = last[c]
      <3>1. CASE risk.type = Violation
        BY <1>3, <2>6, <3>1 DEF Accept, Violation, Shaped
      <3>2. CASE risk.type # Violation
        BY <1>3, <2>6, <3>2 DEF Accept, Violation, Shaped
      <3>3. QED
        BY <3>1, <3>2
    <2>7. Consistent(Append(old, risk), reported'[Here], last'[Here])
      <3>1. CASE risk.type = Violation
        <4>1. risk.policy \notin reported[Here]
          BY <1>3, <3>1 DEF Accept, IsNews, Violation
        <4>2. reported'[Here] = reported[Here] \union {risk.policy} /\ last' = last
          BY <1>3, <2>1, <3>1 DEF Accept, Violation, Shaped
        <4>3. QED
          BY <2>1, <2>2, <3>1, <4>1, <4>2, ViolationAppended
      <3>2. CASE risk.type # Violation
        <4>1. last[Here][risk.type] # <<>> => IsChange(risk, last[Here][risk.type][1])
          BY <1>3, <3>2 DEF Accept, IsNews, Violation
        <4>2. reported' = reported
              /\ last'[Here] = [last[Here] EXCEPT ![risk.type] = <<risk>>]
          BY <1>3, <2>1, <3>2 DEF Accept, Violation, Shaped
        <4>3. QED
          BY <2>1, <2>2, <3>2, <4>1, <4>2, ChangeAppended
      <3>3. QED
        BY <3>1, <3>2
    <2>8. ASSUME NEW c \in Calls PROVE Consistent(SignalsOf(c)', reported'[c], last'[c])
      <3>1. CASE c = Here
        BY <3>1, <1>1, <2>4, <2>7
      <3>2. CASE c # Here
        BY <3>2, <2>5, <2>6 DEF SignalsInv
      <3>3. QED
        BY <3>1, <3>2
    <2>9. QED
      BY <2>8 DEF SignalsInv
  <1>4. QED
    BY <1>1, <1>2, <1>3

LEMMA HearAnewSignals ==
  ASSUME Shaped, SignalsInv, HearAnew, NEW c \in Calls, c = Here'
  PROVE  /\ SignalsInv' /\ SignalsOf(c)' = <<>>
         /\ \A d \in Calls \ {c} : SignalsOf(d)' = SignalsOf(d)
  <1>1. /\ batch = <<>> /\ batch' = <<>>
        /\ published'[c] = <<>> /\ reported'[c] = {} /\ \A t \in SignalTypes : last'[c][t] = <<>>
        /\ \A d \in Calls \ {c} : /\ published'[d] = published[d] /\ reported'[d] = reported[d]
                                  /\ last'[d] = last[d]
    BY HearAnewShaped
  <1>2. SignalsOf(c)' = <<>>
    BY <1>1, EmptyListed, ConcatEmpty DEF SignalsOf
  <1>3. \A d \in Calls \ {c} : SignalsOf(d)' = SignalsOf(d)
    BY <1>1 DEF SignalsOf
  <1>4. \A d \in Calls : Consistent(SignalsOf(d)', reported'[d], last'[d])
    <2>1. Consistent(SignalsOf(c)', reported'[c], last'[c])
      BY <1>1, <1>2, NothingConsistent
    <2>2. ASSUME NEW d \in Calls, d # c PROVE Consistent(SignalsOf(d)', reported'[d], last'[d])
      BY <2>2, <1>1, <1>3 DEF SignalsInv
    <2>3. QED
      BY <2>1, <2>2
  <1>5. QED
    BY <1>2, <1>3, <1>4 DEF SignalsInv

LEMMA SignalsStep ==
  ASSUME Shaped, SignalsInv, [Next]_vars
  PROVE  Shaped' /\ SignalsInv'
  <1>1. CASE Hear
    <2>1. Shaped' /\ batch = <<>> /\ UNCHANGED <<last, batch, published, reported>>
      BY <1>1, HearShaped
    <2>2. \A c \in Calls : SignalsOf(c)' = SignalsOf(c)
      BY <2>1 DEF SignalsOf
    <2>3. QED
      BY <2>1, <2>2, SignalsUntouched
  <1>2. CASE FastPath
    <2>1. Shaped' /\ Here' = Here /\ UNCHANGED <<last, batch, published, reported>>
      BY <1>2, FastPathShaped
    <2>2. \A c \in Calls : SignalsOf(c)' = SignalsOf(c)
      BY <2>1 DEF SignalsOf
    <2>3. QED
      BY <2>1, <2>2, SignalsUntouched
  <1>3. CASE Sift
    BY <1>3, AcceptShaped, SiftSignals
  <1>4. CASE Publish
    <2>1. Shaped' /\ Here' = Here /\ UNCHANGED <<last, reported>>
      BY <1>4, TurnsOfAnalysisShaped
    <2>2. published' = [published EXCEPT ![Here] = published[Here] \o batch] /\ batch' = <<>>
      BY <1>4 DEF Publish
    <2>3. ASSUME NEW c \in Calls PROVE SignalsOf(c)' = SignalsOf(c)
      <3>1. CASE c = Here
        <4>1. published'[c] = SignalsOf(c)
          BY <3>1, <2>2 DEF Shaped, SignalsOf
        <4>2. SignalsOf(c)' = published'[c] \o <<>>
          BY <3>1, <2>1, <2>2 DEF SignalsOf
        <4>3. QED
          BY <4>1, <4>2, SignalsListed, ConcatEmpty
      <3>2. CASE c # Here
        BY <3>2, <2>1, <2>2 DEF Shaped, SignalsOf
      <3>3. QED
        BY <3>1, <3>2
    <2>4. QED
      BY <2>1, <2>3, SignalsUntouched
  <1>5. CASE TakeLock \/ AskAgent \/ AgentPath \/ EndAnalysis \/ PublishFails
    <2>1. Shaped' /\ Here' = Here /\ UNCHANGED <<last, reported, batch, published>>
      BY <1>5, TurnsOfAnalysisShaped
      DEF TakeLock, AskAgent, AgentPath, EndAnalysis, PublishFails
    <2>2. \A c \in Calls : SignalsOf(c)' = SignalsOf(c)
      BY <2>1 DEF SignalsOf
    <2>3. QED
      BY <2>1, <2>2, SignalsUntouched
  <1>6. CASE \/ \E c \in Calls : Summarise(c)
             \/ PublishSummary
             \/ \E p \in Threads : Agent(p)
             \/ UNCHANGED vars
    <2>1. Aside
      <3>1. CASE UNCHANGED vars
        BY <3>1 DEF vars, agentVars, callVars, Aside, Shaped, PassShaped, Here
      <3>2. QED
        BY <1>6, <3>1, AsideFacts
    <2>2. UNCHANGED <<transcript, reported, topic, upto, last, live, batch, published>>
          /\ PassShaped' /\ Here' = Here /\ context'.call \in Calls
      BY <2>1 DEF Aside, liveVars
    <2>3. Shaped'
      BY <2>2 DEF Shaped
    <2>4. \A c \in Calls : SignalsOf(c)' = SignalsOf(c)
      BY <2>2 DEF SignalsOf
    <2>5. QED
      BY <2>2, <2>3, <2>4, SignalsUntouched
  <1>a. CASE HearAnew
    <2>1. Here' \in Calls /\ Shaped'
      BY <1>a, HearAnewShaped
    <2>2. PICK c \in Calls : c = Here'
      BY <2>1
    <2>3. QED
      BY <1>a, <2>1, <2>2, HearAnewSignals
  <1>7. QED
    BY <1>1, <1>2, <1>3, <1>4, <1>5, <1>6, <1>a DEF Next

(* A marked policy has its signal among the published ones or in the batch. *)
LEMMA FlagsHaveSignals ==
  ASSUME Shaped, SignalsInv
  PROVE  FlaggedIsReported
  <1> SUFFICES ASSUME NEW c \in Calls, NEW id \in reported[c]
               PROVE  \/ \E s \in ToSet(published[c]) : s.policy = id
                      \/ Here = c /\ \E s \in ToSet(batch) : s.policy = id
    BY DEF FlaggedIsReported
  <1>1. PICK k \in DOMAIN SignalsOf(c) : SignalsOf(c)[k].policy = id
    BY DEF SignalsInv, Consistent, Told
  <1>2. Listed(published[c]) /\ Listed(batch) /\ Listed(SignalsOf(c))
    BY SignalsListed DEF Shaped
  <1>3. SignalsOf(c)[k] \in ToSet(SignalsOf(c))
    BY <1>1 DEF ToSet
  <1>4. CASE Here = c
    <2>1. ToSet(SignalsOf(c)) = ToSet(published[c]) \union ToSet(batch)
      BY <1>2, <1>4, ConcatListed DEF SignalsOf
    <2>2. QED
      BY <1>1, <1>3, <1>4, <2>1
  <1>5. CASE Here # c
    <2>1. SignalsOf(c) = published[c]
      BY <1>2, <1>5, ConcatEmpty DEF SignalsOf
    <2>2. QED
      BY <1>1, <1>3, <2>1
  <1>6. QED
    BY <1>4, <1>5

(* What is published is the beginning of what was accepted.                 *)
LEMMA AcceptedIsNews ==
  ASSUME Shaped, SignalsInv
  PROVE  SignalsAreNews
  <1> SUFFICES ASSUME NEW c \in Calls
               PROVE  Distinct(published[c]) /\ Changing(published[c])
    BY DEF SignalsAreNews, Distinct, Changing, Violation, Others
  <1> DEFINE n == Len(published[c])
             said == published[c]
             all == SignalsOf(c)
  <1>1. PICK more : Listed(more) /\ all = said \o more
    BY EmptyListed DEF Shaped, SignalsOf
  <1>2. /\ n \in Nat /\ DOMAIN said = 1..n /\ Len(more) \in Nat
        /\ DOMAIN all = 1..(n + Len(more)) /\ \A i \in 1..n : all[i] = said[i]
    BY <1>1, ConcatListed, ListedFacts DEF Shaped
  <1>3. 1..n \subseteq DOMAIN all
    BY <1>2
  <1>4. Distinct(all) /\ Changing(all)
    BY DEF SignalsInv, Consistent
  <1> HIDE DEF n, said, all
  <1>5. Distinct(said)
    BY <1>2, <1>3, <1>4 DEF Distinct
  <1>6. Changing(said)
    <2> SUFFICES ASSUME NEW t \in Others, NEW j \in 1..n, NEW k \in 1..n, Follows(j, k, t, said)
                 PROVE  IsChange(said[k], said[j])
      BY <1>2 DEF Changing
    <2>1. \A i \in DOMAIN all : j < i /\ i < k => i \in 1..n
      BY <1>2
    <2>2. Follows(j, k, t, all)
      BY <2>1, <1>2, <1>3 DEF Follows
    <2>3. QED
      BY <2>2, <1>2, <1>3, <1>4 DEF Changing
  <1>7. QED
    BY <1>5, <1>6 DEF said

LEMMA SignalsHold == Spec => [](Shaped /\ SignalsInv)
  <1>1. Init => Shaped /\ SignalsInv
    BY InitShaped, InitSignals
  <1>2. Shaped /\ SignalsInv /\ [Next]_vars => (Shaped /\ SignalsInv)'
    BY SignalsStep
  <1>3. QED
    BY <1>1, <1>2, PTL DEF Spec

(* live.py:_accept, _flush: a policy that is marked as flagged has its      *)
(* signal among those of the call, whichever path found it and whatever the *)
(* model answered.                                                          *)
THEOREM WhatIsFlaggedIsReported == Spec => []FlaggedIsReported
  <1>1. Shaped /\ SignalsInv => FlaggedIsReported
    BY FlagsHaveSignals
  <1>2. QED
    BY <1>1, SignalsHold, PTL

(* live.py:_is_change, _accept: a policy is reported once in a call, and a  *)
(* signal of another type differs from the one of its type before it in     *)
(* what makes news, over all analyses and both paths.                       *)
THEOREM WhatIsReportedIsNews == Spec => []SignalsAreNews
  <1>1. Shaped /\ SignalsInv => SignalsAreNews
    BY AcceptedIsNews
  <1>2. QED
    BY <1>1, SignalsHold, PTL

-----------------------------------------------------------------------------
(* The fast path finds every prohibited phrase of its window and is sure of *)
(* it.                                                                      *)

Sure(risk, id) ==
  risk.type = Violation /\ risk.policy = id /\ risk.confidence >= MinConfidence

LEMMA LeastOfTwo ==
  ASSUME NEW a \in Int, NEW b \in Int
  PROVE  Min({a, b}) = IF a <= b THEN a ELSE b
  <1> DEFINE m == IF a <= b THEN a ELSE b
  <1>1. m \in {a, b} /\ \A y \in {a, b} : m <= y
    OBVIOUS
  <1>2. \A x \in {a, b} : (\A y \in {a, b} : x <= y) => x = m
    OBVIOUS
  <1> HIDE DEF m
  <1>3. QED
    BY <1>1, <1>2 DEF Min, m

LEMMA GreatestOfTwo ==
  ASSUME NEW a \in Int, NEW b \in Int
  PROVE  Max({a, b}) = IF a <= b THEN b ELSE a
  <1> DEFINE m == IF a <= b THEN b ELSE a
  <1>1. m \in {a, b} /\ \A y \in {a, b} : m >= y
    OBVIOUS
  <1>2. \A x \in {a, b} : (\A y \in {a, b} : x >= y) => x = m
    OBVIOUS
  <1> HIDE DEF m
  <1>3. QED
    BY <1>1, <1>2 DEF Max, m

LEMMA CatalogueFacts ==
  /\ Listed(Catalogue) /\ Len(Catalogue) \in Nat /\ DOMAIN Catalogue = 1..Len(Catalogue)
  /\ \A k \in 1..Len(Catalogue) : Catalogue[k].weight \in Nat
  BY RulesAssumption, ListedFacts DEF RulesAssumption, Listed

(* Pick finds the turns of a property, if there are any.                    *)
LEMMA PickFacts ==
  ASSUME NEW turns, Listed(turns), NEW from \in Nat \ {0}, NEW which,
         which \in SUBSET (from..Len(turns))
  PROVE  Chosen([i \in 1..Len(turns) |-> i], which) # <<>> <=> which # {}
  <1>1. Len(turns) \in Nat
    BY ListedFacts
  <1>2. which \in SUBSET (1..Len(turns))
    BY <1>1
  <1>3. QED
    BY <1>1, <1>2, ChosenFacts

Culprits(turns, from, p) ==
  {i \in from..Len(turns) : ByAgent(turns[i]) /\ p.id \in turns[i].text.breaks}

LEMMA EveryPhraseIsFound ==
  ASSUME NEW turns, Listed(turns), NEW from \in Nat \ {0}, NEW i \in from..Len(turns),
         ByAgent(turns[i]), NEW id \in turns[i].text.breaks \intersect PolicyIds
  PROVE  \E k \in DOMAIN ComplianceFindings(turns, from) :
           /\ ComplianceFindings(turns, from)[k].policy = id
           /\ ComplianceFindings(turns, from)[k].score \in Nat
  <1> DEFINE culprits(p) == Chosen([j \in 1..Len(turns) |-> j], Culprits(turns, from, p))
             W == {k \in DOMAIN Catalogue : culprits(Catalogue[k]) # <<>>}
             broken == Chosen(Catalogue, W)
             found1 == [k \in DOMAIN broken |->
                          Finding(broken[k].id, broken[k].weight, culprits(broken[k])[1],
                                  broken[k].id)]
  <1>1. ComplianceFindings(turns, from) = found1
    BY DEF ComplianceFindings, Pick, Culprits
  <1>2. PICK c \in 1..Len(Catalogue) : Catalogue[c].id = id
    BY CatalogueFacts DEF PolicyIds
  <1>3. i \in Culprits(turns, from, Catalogue[c])
    BY <1>2 DEF Culprits
  <1>4. Culprits(turns, from, Catalogue[c]) \in SUBSET (from..Len(turns))
    BY DEF Culprits
  <1>5. culprits(Catalogue[c]) # <<>>
    BY <1>3, <1>4, PickFacts
  <1>6. c \in W /\ W \in SUBSET (1..Len(Catalogue))
    BY <1>2, <1>5, CatalogueFacts
  <1> HIDE DEF culprits, W
  <1>7. /\ Listed(broken) /\ Len(broken) = Cardinality(W) /\ Cardinality(W) \in Nat
        /\ DOMAIN broken = 1..Cardinality(W)
        /\ \E k \in 1..Cardinality(W) : broken[k] = Catalogue[c]
    <2>1. /\ Listed(broken) /\ Len(broken) = Cardinality(W) /\ Cardinality(W) \in Nat
          /\ \A j \in W : \E k \in 1..Cardinality(W) : broken[k] = Catalogue[j]
      <3>1. W \in SUBSET (1..Len(Catalogue)) /\ Len(Catalogue) \in Nat
        BY <1>6, CatalogueFacts
      <3>2. Listed(broken) /\ Len(broken) = Cardinality(W) /\ Cardinality(W) \in Nat
        BY <3>1, ChosenFacts
      <3>3. ASSUME NEW j \in W PROVE \E k \in 1..Cardinality(W) : broken[k] = Catalogue[j]
        BY <3>1, ChosenElement
      <3>4. QED
        BY <3>2, <3>3
    <2> HIDE DEF broken
    <2>2. DOMAIN broken = 1..Cardinality(W)
      BY <2>1, ListedFacts
    <2>3. QED
      BY <1>6, <2>1, <2>2
  <1> HIDE DEF broken
  <1>8. PICK k \in DOMAIN broken : broken[k] = Catalogue[c]
    BY <1>7
  <1>9. k \in DOMAIN found1 /\ found1[k].policy = id /\ found1[k].score \in Nat
    BY <1>2, <1>8, CatalogueFacts DEF Finding
  <1>10. QED
    BY <1>1, <1>9

LEMMA FindingsListed ==
  ASSUME NEW turns, NEW from, NEW required
  PROVE  /\ Listed(ComplianceFindings(turns, from))
         /\ Listed(MissingDisclosures(turns, required))
         /\ \A k \in DOMAIN ComplianceFindings(turns, from) :
              ComplianceFindings(turns, from)[k].policy \in PolicyIds
         /\ \A k \in DOMAIN MissingDisclosures(turns, required) :
              MissingDisclosures(turns, required)[k].policy \in PolicyIds
  <1>1. ASSUME NEW W, W \in SUBSET DOMAIN Catalogue, NEW s,
               DOMAIN s = DOMAIN Chosen(Catalogue, W), s = [k \in DOMAIN s |-> s[k]],
               \A k \in DOMAIN s : s[k].policy = Chosen(Catalogue, W)[k].id
        PROVE  Listed(s) /\ \A k \in DOMAIN s : s[k].policy \in PolicyIds
    <2>1. /\ Listed(Chosen(Catalogue, W))
          /\ \A k \in DOMAIN Chosen(Catalogue, W) :
               \E i \in W : Chosen(Catalogue, W)[k] = Catalogue[i]
      BY <1>1, CatalogueFacts, ChosenFrom
    <2>2. Listed(s)
      BY <1>1, <2>1, MappedListed
    <2>3. QED
      BY <1>1, <2>1, <2>2 DEF PolicyIds
  <1>2. /\ Listed(ComplianceFindings(turns, from))
        /\ \A k \in DOMAIN ComplianceFindings(turns, from) :
             ComplianceFindings(turns, from)[k].policy \in PolicyIds
    <2> DEFINE culprits(p) == Pick(turns, from, LAMBDA t : ByAgent(t) /\ p.id \in t.text.breaks)
               W == {k \in DOMAIN Catalogue : culprits(Catalogue[k]) # <<>>}
               broken == Chosen(Catalogue, W)
               s == [k \in DOMAIN broken |->
                       Finding(broken[k].id, broken[k].weight, culprits(broken[k])[1],
                               broken[k].id)]
    <2>1. ComplianceFindings(turns, from) = s
      BY DEF ComplianceFindings
    <2>2. W \in SUBSET DOMAIN Catalogue
      OBVIOUS
    <2> HIDE DEF W, culprits
    <2>3. /\ DOMAIN s = DOMAIN Chosen(Catalogue, W) /\ s = [k \in DOMAIN s |-> s[k]]
          /\ \A k \in DOMAIN s : s[k].policy = Chosen(Catalogue, W)[k].id
      BY DEF Finding
    <2> HIDE DEF s
    <2>4. QED
      BY <1>1, <2>1, <2>2, <2>3
  <1>3. /\ Listed(MissingDisclosures(turns, required))
        /\ \A k \in DOMAIN MissingDisclosures(turns, required) :
             MissingDisclosures(turns, required)[k].policy \in PolicyIds
    <2> DEFINE W == {k \in DOMAIN Catalogue :
                       /\ Catalogue[k].id \in required
                       /\ DisclosureTurns(turns, Catalogue[k]) # <<>>
                       /\ ~Discloses(turns, Catalogue[k])}
               absent == Chosen(Catalogue, W)
               s == [k \in DOMAIN absent |->
                       Finding(absent[k].id, absent[k].weight,
                               DisclosureTurns(turns, absent[k])[1], absent[k].id)]
    <2>1. MissingDisclosures(turns, required) = s
      BY DEF MissingDisclosures
    <2>2. W \in SUBSET DOMAIN Catalogue
      OBVIOUS
    <2> HIDE DEF W
    <2>3. /\ DOMAIN s = DOMAIN Chosen(Catalogue, W) /\ s = [k \in DOMAIN s |-> s[k]]
          /\ \A k \in DOMAIN s : s[k].policy = Chosen(Catalogue, W)[k].id
      BY DEF Finding
    <2> HIDE DEF s
    <2>4. QED
      BY <1>1, <2>1, <2>2, <2>3
  <1>4. QED
    BY <1>2, <1>3

LEMMA FastFlagsFacts ==
  ASSUME NEW findings, Listed(findings), NEW base, NEW top, NEW why, NEW about
  PROVE  /\ Listed(FastFlags(findings, base, top, why, about))
         /\ DOMAIN FastFlags(findings, base, top, why, about) = DOMAIN findings
         /\ \A k \in DOMAIN findings :
              LET flag == FastFlags(findings, base, top, why, about)[k]
              IN /\ flag.type = Violation /\ flag.policy = findings[k].policy
                 /\ flag.confidence = Min({top, base + (findings[k].score * 30) \div 100})
  <1>1. Len(findings) \in Nat /\ DOMAIN findings = 1..Len(findings)
    BY ListedFacts
  <1> DEFINE flags == FastFlags(findings, base, top, why, about)
  <1>2. /\ DOMAIN flags = DOMAIN findings
        /\ flags = [k \in DOMAIN findings |-> flags[k]]
    BY DEF FastFlags
  <1>3. \A k \in DOMAIN findings :
          /\ flags[k].type = Violation /\ flags[k].policy = findings[k].policy
          /\ flags[k].confidence = Min({top, base + (findings[k].score * 30) \div 100})
    BY DEF FastFlags, Risk, Violation
  <1> HIDE DEF flags
  <1>4. Listed(flags)
    BY <1>1, <1>2, FunctionListed
  <1>5. QED
    BY <1>2, <1>3, <1>4 DEF flags

LEMMA FastFlagsOrigin ==
  ASSUME NEW findings, NEW base, NEW top, NEW why, NEW about
  PROVE  /\ DOMAIN FastFlags(findings, base, top, why, about) = DOMAIN findings
         /\ \A k \in DOMAIN findings :
              /\ FastFlags(findings, base, top, why, about)[k].why = why
              /\ FastFlags(findings, base, top, why, about)[k].policy = findings[k].policy
  BY DEF FastFlags, Risk

LEMMA OneListed ==
  ASSUME NEW e
  PROVE  Listed(<<e>>)
  <1>1. <<e>> \in Seq({e})
    OBVIOUS
  <1>2. QED
    BY <1>1, IsListed

LEMMA EscalationFlagForm ==
  ASSUME NEW turns, NEW from, NEW about
  PROVE  /\ Listed(EscalationFlag(turns, from, about))
         /\ \/ EscalationFlag(turns, from, about) = <<>>
            \/ \E flag : /\ EscalationFlag(turns, from, about) = <<flag>>
                         /\ DOMAIN flag = RiskFields /\ flag.why = "threat"
                         /\ flag.type = "escalation_risk"
  <1> DEFINE findings == EscalationFindings(turns, from)
             score == EscalationRisk(turns, from)
             flag == Risk("escalation_risk", Top(findings).label, Band(score), score,
                          [k \in 1..Min({3, Len(findings)}) |-> findings[k].turn],
                          NoPolicy, "threat", about)
  <1>1. EscalationFlag(turns, from, about) = <<>> \/ EscalationFlag(turns, from, about) = <<flag>>
    BY DEF EscalationFlag, Escalates
  <1>2. DOMAIN flag = RiskFields /\ flag.why = "threat" /\ flag.type = "escalation_risk"
    BY DEF Risk, RiskFields
  <1> HIDE DEF flag
  <1>3. QED
    BY <1>1, <1>2, EmptyListed, OneListed

(* Evidence that a reader can look up: turns of the call, and at least one. *)
Grounded(evidence, turns) ==
  Listed(evidence) /\ evidence # <<>> /\ ToSet(evidence) \subseteq 1..Len(turns)

LEMMA OneGrounded ==
  ASSUME NEW turns, NEW i \in 1..Len(turns)
  PROVE  Grounded(<<i>>, turns)
  BY OneListed DEF Grounded, ToSet

LEMMA ThreatsFacts ==
  ASSUME NEW turn, TurnTyped(turn), NEW i
  PROVE  Listed(Threats(turn, i)) /\ \A f \in ToSet(Threats(turn, i)) : f.turn = i
  <1>1. CASE ByAgent(turn)
    BY <1>1, EmptyListed DEF Threats, ToSet
  <1>2. CASE ~ByAgent(turn)
    <2> DEFINE findings == [j \in DOMAIN turn.text.threats |->
                              Finding(turn.text.threats[j].label,
                                      turn.text.threats[j].weight, i, NoPolicy)]
    <2>1. Threats(turn, i) = findings
      BY <1>2 DEF Threats
    <2>2. /\ DOMAIN findings = DOMAIN turn.text.threats
          /\ findings = [j \in DOMAIN findings |-> findings[j]]
          /\ \A j \in DOMAIN findings : findings[j].turn = i
      BY DEF Finding
    <2> HIDE DEF findings
    <2>3. Listed(findings)
      BY <2>2, MappedListed DEF TurnTyped
    <2>4. QED
      BY <2>1, <2>2, <2>3 DEF ToSet
  <1>3. QED
    BY <1>1, <1>2

LEMMA EscalationTurns ==
  ASSUME NEW turns, Listed(turns), TurnsTyped(turns), NEW from \in Nat \ {0}
  PROVE  /\ Listed(EscalationFindings(turns, from))
         /\ \A f \in ToSet(EscalationFindings(turns, from)) : f.turn \in 1..Len(turns)
  <1> DEFINE n == IF Len(turns) + 1 - from >= 0 THEN Len(turns) + 1 - from ELSE 0
             seqs == [k \in 1..(Len(turns) + 1 - from) |->
                        Threats(turns[from + k - 1], from + k - 1)]
  <1>1. Len(turns) \in Nat
    BY ListedFacts
  <1>2. n \in Nat /\ 1..(Len(turns) + 1 - from) = 1..n
    BY <1>1
  <1>3. \A k \in 1..n : from + k - 1 \in 1..Len(turns)
    BY <1>1
  <1> HIDE DEF n
  <1>4. seqs = [k \in 1..n |-> seqs[k]] /\ DOMAIN seqs = 1..n
    BY <1>2
  <1>5. Listed(seqs) /\ Len(seqs) = n
    <2> HIDE DEF seqs
    <2>1. QED
      BY <1>2, <1>4, FunctionListed
  <1>6. ASSUME NEW k \in 1..n
        PROVE  Listed(seqs[k]) /\ \A f \in ToSet(seqs[k]) : f.turn \in 1..Len(turns)
    <2>1. PICK i \in 1..Len(turns) : i = from + k - 1
      BY <1>3
    <2>2. seqs[k] = Threats(turns[i], i)
      BY <2>1, <1>2
    <2>3. TurnTyped(turns[i])
      BY DEF TurnsTyped
    <2> HIDE DEF seqs
    <2>4. QED
      BY <2>2, <2>3, ThreatsFacts
  <1>7. EscalationFindings(turns, from) = FlattenSeq(seqs)
    BY DEF EscalationFindings
  <1> HIDE DEF seqs
  <1>8. QED
    BY <1>5, <1>6, <1>7, FlattenFacts

LEMMA EscalationEvidence ==
  ASSUME NEW turns, Listed(turns), TurnsTyped(turns), NEW from \in Nat \ {0}, NEW about
  PROVE  \A flag \in ToSet(EscalationFlag(turns, from, about)) : Grounded(flag.evidence, turns)
  <1> DEFINE findings == EscalationFindings(turns, from)
             score == EscalationRisk(turns, from)
             m == Min({3, Len(findings)})
             evidence == [k \in 1..m |-> findings[k].turn]
             flag == Risk("escalation_risk", Top(findings).label, Band(score), score,
                          evidence, NoPolicy, "threat", about)
  <1>1. Listed(findings) /\ \A f \in ToSet(findings) : f.turn \in 1..Len(turns)
    BY EscalationTurns
  <1>2. \/ EscalationFlag(turns, from, about) = <<>>
        \/ findings # <<>> /\ EscalationFlag(turns, from, about) = <<flag>>
    BY DEF EscalationFlag, Escalates
  <1>3. flag.evidence = evidence
    BY DEF Risk
  <1> HIDE DEF flag, findings
  <1>4. ASSUME findings # <<>> PROVE Grounded(evidence, turns)
    <2>1. Len(findings) \in Nat \ {0} /\ DOMAIN findings = 1..Len(findings)
      BY <1>1, <1>4, ListedFacts, EmptySeq DEF Listed
    <2>2. m \in Nat \ {0} /\ m <= Len(findings)
      BY <2>1, LeastOfTwo
    <2> HIDE DEF m
    <2>3. \A k \in 1..m : findings[k].turn \in 1..Len(turns)
      BY <1>1, <2>1, <2>2 DEF ToSet
    <2>4. DOMAIN evidence = 1..m /\ evidence = [k \in 1..m |-> evidence[k]]
      OBVIOUS
    <2>5. \A k \in 1..m : evidence[k] \in 1..Len(turns)
      BY <2>3
    <2> HIDE DEF evidence
    <2>6. Listed(evidence) /\ Len(evidence) = m
      BY <2>2, <2>4, FunctionListed
    <2>7. evidence # <<>>
      BY <2>2, <2>6, EmptyListed
    <2>8. QED
      BY <2>4, <2>5, <2>6, <2>7 DEF Grounded, ToSet
  <1> HIDE DEF evidence
  <1>5. QED
    BY <1>2, <1>3, <1>4, EmptyListed DEF ToSet

(* The turns at which policies are found broken, or disclosures missing.    *)
LEMMA FirstPicked ==
  ASSUME NEW turns, Listed(turns), NEW from \in Nat \ {0}, NEW which,
         which \in SUBSET (from..Len(turns)),
         Chosen([i \in 1..Len(turns) |-> i], which) # <<>>
  PROVE  Chosen([i \in 1..Len(turns) |-> i], which)[1] \in 1..Len(turns)
  <1> DEFINE numbers == [i \in 1..Len(turns) |-> i]
  <1>1. Len(turns) \in Nat
    BY ListedFacts
  <1>2. which \in SUBSET (1..Len(turns))
    BY <1>1
  <1>3. which # {} /\ Cardinality(which) \in Nat
    BY <1>1, <1>2, ChosenFacts
  <1>4. Cardinality(which) # 0
    BY <1>1, <1>2, <1>3, RankFacts, FS_EmptySet
  <1>5. 1 \in 1..Cardinality(which)
    BY <1>3, <1>4
  <1>6. At(1, which) \in which
    BY <1>1, <1>2, <1>5, AtFacts
  <1>7. Chosen(numbers, which) = [k \in 1..Cardinality(which) |-> numbers[At(k, which)]]
    BY DEF Chosen, At, Rank, Before
  <1>8. QED
    BY <1>2, <1>5, <1>6, <1>7

LEMMA ComplianceTurns ==
  ASSUME NEW turns, Listed(turns), NEW from \in Nat \ {0}
  PROVE  \A k \in DOMAIN ComplianceFindings(turns, from) :
           ComplianceFindings(turns, from)[k].turn \in 1..Len(turns)
  <1> DEFINE culprits(p) == Chosen([j \in 1..Len(turns) |-> j], Culprits(turns, from, p))
             W == {k \in DOMAIN Catalogue : culprits(Catalogue[k]) # <<>>}
             broken == Chosen(Catalogue, W)
             findings == [k \in DOMAIN broken |->
                            Finding(broken[k].id, broken[k].weight, culprits(broken[k])[1],
                                    broken[k].id)]
  <1>1. ComplianceFindings(turns, from) = findings
    BY DEF ComplianceFindings, Pick, Culprits
  <1>2. W \in SUBSET DOMAIN Catalogue /\ \A i \in W : culprits(Catalogue[i]) # <<>>
    OBVIOUS
  <1>3. ASSUME NEW p, culprits(p) # <<>> PROVE culprits(p)[1] \in 1..Len(turns)
    <2>1. Culprits(turns, from, p) \in SUBSET (from..Len(turns))
      BY DEF Culprits
    <2>2. QED
      BY <1>3, <2>1, FirstPicked
  <1> HIDE DEF W, culprits
  <1>4. \A k \in DOMAIN broken : \E i \in W : broken[k] = Catalogue[i]
    BY <1>2, CatalogueFacts, ChosenFrom
  <1> HIDE DEF broken
  <1>5. \A k \in DOMAIN findings : findings[k].turn = culprits(broken[k])[1]
    BY DEF Finding
  <1>6. \A k \in DOMAIN broken : culprits(broken[k])[1] \in 1..Len(turns)
    BY <1>2, <1>3, <1>4
  <1>7. QED
    BY <1>1, <1>5, <1>6

LEMMA FastRisksListed ==
  ASSUME NEW turns, NEW required, NEW about
  PROVE  Listed(FastRisks(turns, required, about))
  <1> DEFINE missing == MissingDisclosures(turns, required)
             closed == Chosen(missing,
                         {k \in DOMAIN missing : WindowClosed(turns, missing[k].policy)})
             phrases == FastFlags(ComplianceFindings(turns, WindowStart(turns)),
                                  65, 97, "phrase", about)
             omissions == FastFlags(closed, 60, 92, "closed", about)
             threats == EscalationFlag(turns, WindowStart(turns), about)
  <1>1. FastRisks(turns, required, about) = phrases \o omissions \o threats
    BY DEF FastRisks
  <1>2. Listed(closed)
    <2>1. Listed(missing)
      BY FindingsListed
    <2> HIDE DEF missing
    <2>2. Len(missing) \in Nat /\ DOMAIN missing = 1..Len(missing)
      BY <2>1, ListedFacts
    <2>3. {k \in DOMAIN missing : WindowClosed(turns, missing[k].policy)}
            \in SUBSET (1..Len(missing))
      BY <2>2
    <2>4. QED
      BY <2>2, <2>3, ChosenFacts
  <1> HIDE DEF closed
  <1>3. Listed(phrases) /\ Listed(omissions) /\ Listed(threats)
    BY <1>2, FindingsListed, FastFlagsFacts, EscalationFlagForm
  <1> HIDE DEF phrases, omissions, threats
  <1>4. Listed(phrases \o omissions)
    BY <1>3, ConcatListed
  <1>5. QED
    BY <1>1, <1>3, <1>4, ConcatListed

LEMMA FastRisksFacts ==
  ASSUME MinConfidence \in 0..65, NEW turns, Listed(turns), NEW required, NEW about
  PROVE  /\ Listed(FastRisks(turns, required, about))
         /\ \A i \in WindowStart(turns)..Len(turns) : ByAgent(turns[i]) =>
              \A id \in turns[i].text.breaks \intersect PolicyIds :
                \E k \in DOMAIN FastRisks(turns, required, about) :
                  Sure(FastRisks(turns, required, about)[k], id)
  <1> DEFINE from == WindowStart(turns)
             missing == MissingDisclosures(turns, required)
             closed == Chosen(missing,
                         {k \in DOMAIN missing : WindowClosed(turns, missing[k].policy)})
             phrases == FastFlags(ComplianceFindings(turns, from), 65, 97, "phrase", about)
             omissions == FastFlags(closed, 60, 92, "closed", about)
             threats == EscalationFlag(turns, from, about)
  <1>1. FastRisks(turns, required, about) = phrases \o omissions \o threats
    BY DEF FastRisks
  <1>2. from \in Nat \ {0}
    <2>1. Len(turns) \in Nat /\ WindowSize \in Nat
      BY ListedFacts, LiveAssumption DEF LiveAssumption
    <2>2. QED
      BY <2>1, GreatestOfTwo DEF WindowStart
  <1>3. Listed(closed)
    <2>1. Listed(missing)
      BY FindingsListed
    <2> HIDE DEF missing
    <2>2. Len(missing) \in Nat /\ DOMAIN missing = 1..Len(missing)
      BY <2>1, ListedFacts
    <2>3. {k \in DOMAIN missing : WindowClosed(turns, missing[k].policy)}
            \in SUBSET (1..Len(missing))
      BY <2>2
    <2>4. QED
      BY <2>2, <2>3, ChosenFacts
  <1> HIDE DEF closed
  <1>4. Listed(phrases) /\ Listed(omissions) /\ Listed(threats)
    BY <1>3, FindingsListed, FastFlagsFacts, EscalationFlagForm
  <1>5. /\ DOMAIN phrases = DOMAIN ComplianceFindings(turns, from)
        /\ \A k \in DOMAIN phrases :
             LET score == ComplianceFindings(turns, from)[k].score
             IN /\ phrases[k].type = Violation
                /\ phrases[k].policy = ComplianceFindings(turns, from)[k].policy
                /\ phrases[k].confidence = Min({97, 65 + (score * 30) \div 100})
    <2> DEFINE findings == ComplianceFindings(turns, from)
    <2>1. Listed(findings)
      BY FindingsListed
    <2> HIDE DEF findings
    <2>2. /\ DOMAIN FastFlags(findings, 65, 97, "phrase", about) = DOMAIN findings
          /\ \A k \in DOMAIN findings :
               LET flag == FastFlags(findings, 65, 97, "phrase", about)[k]
               IN /\ flag.type = Violation /\ flag.policy = findings[k].policy
                  /\ flag.confidence = Min({97, 65 + (findings[k].score * 30) \div 100})
      BY <2>1, FastFlagsFacts
    <2>3. QED
      BY <2>2 DEF findings
  <1> HIDE DEF phrases, omissions, threats
  <1>6. /\ Listed(phrases \o omissions) /\ Listed(phrases \o omissions \o threats)
        /\ \A k \in DOMAIN phrases : /\ k \in DOMAIN (phrases \o omissions \o threats)
                                     /\ (phrases \o omissions \o threats)[k] = phrases[k]
    <2>1. /\ Listed(phrases \o omissions) /\ DOMAIN phrases = 1..Len(phrases)
          /\ Len(phrases) \in Nat /\ Len(omissions) \in Nat /\ Len(threats) \in Nat
          /\ Len(phrases \o omissions) = Len(phrases) + Len(omissions)
          /\ \A k \in 1..Len(phrases) : (phrases \o omissions)[k] = phrases[k]
      BY <1>4, ConcatListed, ListedFacts
    <2> DEFINE first == phrases \o omissions
    <2> HIDE DEF first
    <2>2. /\ Listed(first \o threats) /\ DOMAIN (first \o threats) = 1..(Len(first) + Len(threats))
          /\ \A k \in 1..Len(first) : (first \o threats)[k] = first[k]
      BY <2>1, <1>4, ConcatListed DEF first
    <2>3. \A k \in 1..Len(phrases) :
            k \in 1..Len(first) /\ k \in 1..(Len(first) + Len(threats)) /\ first[k] = phrases[k]
      BY <2>1 DEF first
    <2>4. QED
      BY <2>1, <2>2, <2>3 DEF first
  <1>7. ASSUME NEW i \in from..Len(turns), ByAgent(turns[i]),
               NEW id \in turns[i].text.breaks \intersect PolicyIds
        PROVE  \E k \in DOMAIN phrases : Sure(phrases[k], id)
    <2>1. PICK k \in DOMAIN ComplianceFindings(turns, from) :
            /\ ComplianceFindings(turns, from)[k].policy = id
            /\ ComplianceFindings(turns, from)[k].score \in Nat
      BY <1>2, <1>7, EveryPhraseIsFound
    <2> DEFINE score == ComplianceFindings(turns, from)[k].score
               sure == 65 + (score * 30) \div 100
    <2>2. k \in DOMAIN phrases /\ phrases[k].type = Violation /\ phrases[k].policy = id
          /\ phrases[k].confidence = Min({97, sure})
      BY <1>5, <2>1
    <2>3. sure \in Int /\ sure >= 65
      BY <2>1
    <2> HIDE DEF sure
    <2>4. phrases[k].confidence \in Int /\ phrases[k].confidence >= 65
      BY <2>2, <2>3, LeastOfTwo
    <2>5. QED
      BY <2>2, <2>4 DEF Sure
  <1>8. QED
    BY <1>1, <1>6, <1>7

-----------------------------------------------------------------------------
(* No prohibited phrase is passed over.  While an analysis runs, the call   *)
(* may have as many new turns as the stride, at other times fewer; and each *)
(* phrase of the window is reported, or waits among the findings.           *)

Analysing == live \in {"waiting", "fast", "fast_sift", "agent", "agent_sift"}
Behind(c) == Len(transcript[c]) - upto[c]
KeepsUp ==
  \A c \in Calls :
    /\ upto[c] \in 0..Len(transcript[c])
    /\ Behind(c) < Stride \/ (Analysing /\ c = Here /\ Behind(c) <= Stride)

Settled(id) ==
  \/ id \in reported[Here]
  \/ live = "fast_sift" /\ \E k \in DOMAIN found : Sure(found[k], id)
WindowSettled ==
  /\ live = "fast_sift" => Listed(found)
  /\ live \in {"fast_sift", "agent", "agent_sift"} =>
       \A i \in WindowStart(Turns)..Len(Turns) :
         ByAgent(Turns[i]) => \A id \in Turns[i].text.breaks \intersect PolicyIds : Settled(id)

MissInv == KeepsUp /\ WindowSettled /\ NoViolationMissed

LEMMA InitMiss == Init => MissInv
  <1>1. Stride \in Nat \ {0}
    BY LiveAssumption DEF LiveAssumption
  <1>2. QED
    BY <1>1, EmptyListed
    DEF Init, MissInv, KeepsUp, WindowSettled, NoViolationMissed, Behind

LEMMA TurnsNumbered ==
  ASSUME Shaped, NEW c \in Calls
  PROVE  Len(transcript[c]) \in Nat
  BY ListedFacts DEF Shaped

LEMMA HearMiss ==
  ASSUME Shaped, MissInv, Hear
  PROVE  MissInv'
  <1> DEFINE c == Here'
  <1>1. /\ c \in Calls /\ Listed(transcript[c]) /\ live = "idle"
        /\ \A d \in Calls \ {c} : transcript'[d] = transcript[d]
        /\ live' \in {"waiting", "fast", "idle"}
        /\ live' = "idle" => ~(Len(transcript'[c]) - upto[c] >= Stride)
        /\ UNCHANGED <<upto, reported>>
    BY HearShaped
  <1>2. PICK turn : transcript'[c] = Append(transcript[c], turn)
    BY HearShaped
  <1> DEFINE n == Len(transcript[c])
  <1>3. /\ n \in Nat /\ Len(transcript'[c]) = n + 1
        /\ \A i \in 1..n : transcript'[c][i] = transcript[c][i]
    BY <1>1, <1>2, AppendListed, ListedFacts
  <1>4. Stride \in Nat \ {0}
    BY LiveAssumption DEF LiveAssumption
  <1>5. \A d \in Calls : upto[d] \in 0..Len(transcript[d]) /\ Behind(d) < Stride
    BY <1>1 DEF MissInv, KeepsUp, Analysing
  <1> HIDE DEF c
  <1>6. KeepsUp'
    <2>1. ASSUME NEW d \in Calls, d # c
          PROVE  upto'[d] \in 0..Len(transcript'[d]) /\ Len(transcript'[d]) - upto'[d] < Stride
      BY <2>1, <1>1, <1>5 DEF Behind
    <2>2. /\ upto'[c] \in 0..Len(transcript'[c]) /\ Len(transcript'[c]) - upto'[c] <= Stride
          /\ live' = "idle" => Len(transcript'[c]) - upto'[c] < Stride
          /\ live' \in {"idle", "waiting", "fast"}
      BY <1>1, <1>3, <1>4, <1>5 DEF Behind
    <2>3. QED
      BY <2>1, <2>2 DEF KeepsUp, Behind, Analysing, c
  <1>7. WindowSettled'
    BY <1>1 DEF WindowSettled
  <1>8. NoViolationMissed'
    <2> SUFFICES ASSUME NEW d \in Calls, NEW i \in 1..upto'[d], ByAgent(transcript'[d][i])
                 PROVE  transcript'[d][i].text.breaks \intersect PolicyIds \subseteq reported'[d]
      BY DEF NoViolationMissed, ByAgent
    <2>1. transcript'[d][i] = transcript[d][i] /\ i \in 1..upto[d] /\ reported'[d] = reported[d]
      <3>1. CASE d = c
        <4>1. i \in 1..n
          BY <3>1, <1>1, <1>3, <1>5
        <4>2. QED
          BY <3>1, <4>1, <1>1, <1>3
      <3>2. CASE d # c
        BY <3>2, <1>1
      <3>3. QED
        BY <3>1, <3>2
    <2>2. QED
      BY <2>1 DEF MissInv, NoViolationMissed
  <1>9. QED
    BY <1>6, <1>7, <1>8 DEF MissInv

LEMMA HearAnewMiss ==
  ASSUME Shaped, MissInv, HearAnew
  PROVE  MissInv'
  <1> DEFINE c == Here'
  <1>1. /\ c \in Calls /\ Len(transcript'[c]) = 1 /\ upto'[c] = 0
        /\ \A d \in Calls \ {c} : /\ transcript'[d] = transcript[d] /\ upto'[d] = upto[d]
                                  /\ reported'[d] = reported[d]
        /\ live' = IF 1 >= Stride THEN "fast" ELSE "idle"
    BY HearAnewShaped
  <1>2. Stride \in Nat \ {0}
    BY LiveAssumption DEF LiveAssumption
  <1>3. live = "idle"
    BY DEF HearAnew
  <1>4. \A d \in Calls : upto[d] \in 0..Len(transcript[d]) /\ Behind(d) < Stride
    BY <1>3 DEF MissInv, KeepsUp, Analysing
  <1> HIDE DEF c
  <1>5. KeepsUp'
    <2>1. ASSUME NEW d \in Calls, d # c
          PROVE  upto'[d] \in 0..Len(transcript'[d]) /\ Len(transcript'[d]) - upto'[d] < Stride
      BY <2>1, <1>1, <1>4 DEF Behind
    <2>2. /\ upto'[c] \in 0..Len(transcript'[c]) /\ Len(transcript'[c]) - upto'[c] <= Stride
          /\ live' = "idle" => Len(transcript'[c]) - upto'[c] < Stride
          /\ live' \in {"idle", "fast"}
      BY <1>1, <1>2
    <2>3. QED
      BY <2>1, <2>2 DEF KeepsUp, Behind, Analysing, c
  <1>6. WindowSettled'
    BY <1>1 DEF WindowSettled
  <1>7. NoViolationMissed'
    <2> SUFFICES ASSUME NEW d \in Calls, NEW i \in 1..upto'[d], ByAgent(transcript'[d][i])
                 PROVE  transcript'[d][i].text.breaks \intersect PolicyIds \subseteq reported'[d]
      BY DEF NoViolationMissed, ByAgent
    <2>1. d # c
      BY <1>1
    <2>2. transcript'[d] = transcript[d] /\ i \in 1..upto[d] /\ reported'[d] = reported[d]
      BY <2>1, <1>1
    <2>3. QED
      BY <2>2 DEF MissInv, NoViolationMissed
  <1>8. QED
    BY <1>5, <1>6, <1>7 DEF MissInv

LEMMA TakeLockMiss ==
  ASSUME Shaped, MissInv, TakeLock
  PROVE  MissInv'
  <1>1. /\ live = "waiting" /\ UNCHANGED <<transcript, reported, upto>> /\ Here' = Here
        /\ live' = IF Len(Turns) - upto[Here] >= Stride THEN "fast" ELSE "idle"
    BY DEF TakeLock, Proceed, ShouldAnalyse, agentVars, callVars, Here
  <1>2. Stride \in Nat \ {0} /\ Here \in Calls /\ Len(transcript[Here]) \in Nat
    BY LiveAssumption, HereIsACall, TurnsNumbered DEF LiveAssumption
  <1>3. KeepsUp'
    <2>1. ASSUME NEW d \in Calls
          PROVE  /\ upto[d] \in 0..Len(transcript[d])
                 /\ Behind(d) < Stride \/ (live' = "fast" /\ d = Here /\ Behind(d) <= Stride)
      <3>1. /\ upto[d] \in 0..Len(transcript[d])
            /\ Behind(d) < Stride \/ (d = Here /\ Behind(d) <= Stride)
        BY DEF MissInv, KeepsUp
      <3>2. CASE d = Here /\ ~(Behind(d) < Stride)
        <4>1. live' = "fast"
          BY <3>1, <3>2, <1>1, <1>2 DEF Behind, Turns
        <4>2. QED
          BY <3>1, <3>2, <4>1
      <3>3. QED
        BY <3>1, <3>2
    <2>2. QED
      BY <1>1, <2>1 DEF KeepsUp, Behind, Analysing
  <1>4. WindowSettled'
    BY <1>1 DEF WindowSettled
  <1>5. NoViolationMissed'
    BY <1>1 DEF MissInv, NoViolationMissed
  <1>6. QED
    BY <1>3, <1>4, <1>5 DEF MissInv

LEMMA FastPathMiss ==
  ASSUME MinConfidence \in 0..65, Shaped, MissInv, FastPath
  PROVE  MissInv'
  <1>1. /\ Here' = Here /\ live = "fast" /\ live' = "fast_sift"
        /\ UNCHANGED <<transcript, reported, upto>>
    BY FastPathShaped
  <1>2. PICK required : found' = FastRisks(transcript[Here], required, {Here})
    BY FastPathShaped
  <1>3. Here \in Calls /\ Listed(transcript[Here])
    BY HereIsACall DEF Shaped
  <1>4. KeepsUp' /\ NoViolationMissed'
    BY <1>1 DEF MissInv, KeepsUp, NoViolationMissed, Behind, Analysing
  <1>5. WindowSettled'
    <2> DEFINE turns == transcript[Here]
    <2> HIDE DEF turns
    <2>1. /\ Listed(FastRisks(turns, required, {Here}))
          /\ \A i \in WindowStart(turns)..Len(turns) : ByAgent(turns[i]) =>
               \A id \in turns[i].text.breaks \intersect PolicyIds :
                 \E k \in DOMAIN FastRisks(turns, required, {Here}) :
                   Sure(FastRisks(turns, required, {Here})[k], id)
      BY <1>3, FastRisksFacts DEF turns
    <2>2. found' = FastRisks(turns, required, {Here}) /\ Turns' = turns
      BY <1>1, <1>2 DEF turns, Turns
    <2>3. Listed(found')
      BY <2>1, <2>2
    <2>4. ASSUME NEW i \in WindowStart(turns)..Len(turns), ByAgent(turns[i]),
                 NEW id \in turns[i].text.breaks \intersect PolicyIds
          PROVE  \E k \in DOMAIN found' : Sure(found'[k], id)
      BY <2>1, <2>2, <2>4
    <2>5. QED
      BY <1>1, <2>2, <2>3, <2>4 DEF WindowSettled, Settled
  <1>6. QED
    BY <1>4, <1>5 DEF MissInv

(* A risk that is sure is accepted, or its policy was marked before.        *)
LEMMA SureIsMarked ==
  ASSUME Shaped, SignalsInv, NEW risk, NEW id, Sure(risk, id), Accept(risk) \/ Reject(risk)
  PROVE  id \in reported'[Here]
  <1>1. Here \in Calls /\ Here \in DOMAIN reported
    BY HereIsACall DEF Shaped
  <1>2. CASE Accept(risk)
    BY <1>1, <1>2 DEF Accept, Sure, Violation
  <1>3. CASE Reject(risk)
    <2>1. reported' = reported
      BY <1>3 DEF Reject
    <2>2. CASE ~IsNews(risk)
      BY <2>1, <2>2 DEF IsNews, Sure, Violation
    <2>3. CASE ~New(risk)
      <3>1. PICK s \in ToSet(batch) : Key(s) = Key(risk)
        BY <2>3 DEF New, Sure
      <3>2. s.type = Violation /\ s.policy = id
        BY <3>1 DEF Key, Sure
      <3>3. ToSet(SignalsOf(Here)) = ToSet(published[Here]) \union ToSet(batch)
        BY <1>1, ConcatListed DEF Shaped, SignalsOf
      <3>4. PICK k \in DOMAIN SignalsOf(Here) : SignalsOf(Here)[k] = s
        BY <3>1, <3>3 DEF ToSet
      <3>5. Marked(SignalsOf(Here), reported[Here])
        BY <1>1 DEF SignalsInv, Consistent
      <3>6. QED
        BY <2>1, <3>2, <3>4, <3>5 DEF Marked
    <2>4. QED
      BY <1>3, <2>2, <2>3 DEF Reject
  <1>4. QED
    BY <1>2, <1>3

LEMMA SiftMiss ==
  ASSUME Shaped, SignalsInv, MissInv, Sift
  PROVE  MissInv'
  <1> DEFINE risk == Head(found)
  <1>1. /\ Here' = Here /\ live' = live /\ found # <<>> /\ found' = Tail(found)
        /\ UNCHANGED <<transcript, upto>>
    BY AcceptShaped
  <1>2. Accept(risk) \/ Reject(risk)
    BY DEF Sift
  <1> HIDE DEF risk
  <1>3. \A c \in Calls : reported[c] \subseteq reported'[c]
    <2>1. CASE Reject(risk)
      BY <2>1 DEF Reject
    <2>2. CASE Accept(risk)
      BY <2>2 DEF Accept, Shaped
    <2>3. QED
      BY <1>2, <2>1, <2>2
  <1>4. KeepsUp' /\ NoViolationMissed'
    BY <1>1, <1>3 DEF MissInv, KeepsUp, NoViolationMissed, Behind, Analysing
  <1>5. live = "fast_sift" =>
          /\ Listed(found')
          /\ \A id : (\E k \in DOMAIN found : Sure(found[k], id)) =>
               Sure(risk, id) \/ \E k \in DOMAIN found' : Sure(found'[k], id)
    <2> SUFFICES ASSUME live = "fast_sift"
                 PROVE  /\ Listed(found')
                        /\ \A id : (\E k \in DOMAIN found : Sure(found[k], id)) =>
                             Sure(risk, id) \/ \E k \in DOMAIN found' : Sure(found'[k], id)
      OBVIOUS
    <2>1. Listed(found)
      BY DEF MissInv, WindowSettled
    <2>2. /\ Listed(found') /\ Len(found') = Len(found) - 1 /\ Len(found) \in Nat \ {0}
          /\ \A i \in 1..Len(found') : found'[i] = found[i + 1]
          /\ risk = found[1]
      BY <2>1, <1>1, TailListed DEF risk
    <2>3. DOMAIN found = 1..Len(found) /\ DOMAIN found' = 1..Len(found')
      BY <2>1, <2>2, ListedFacts
    <2>4. ASSUME NEW k \in DOMAIN found, k # 1
          PROVE  k - 1 \in DOMAIN found' /\ found'[k - 1] = found[k]
      <3>1. k - 1 \in 1..Len(found') /\ (k - 1) + 1 = k
        BY <2>2, <2>3, <2>4
      <3>2. found'[k - 1] = found[(k - 1) + 1]
        BY <3>1, <2>2
      <3>3. QED
        BY <3>1, <3>2, <2>3
    <2>5. QED
      BY <2>2, <2>4
  <1>6. ASSUME NEW id, Settled(id) PROVE Settled(id)'
    <2>1. CASE id \in reported[Here]
      BY <2>1, <1>1, <1>3, HereIsACall DEF Settled
    <2>2. CASE live = "fast_sift" /\ \E k \in DOMAIN found : Sure(found[k], id)
      <3>1. CASE Sure(risk, id)
        BY <3>1, <1>1, <1>2, SureIsMarked DEF Settled
      <3>2. CASE \E k \in DOMAIN found' : Sure(found'[k], id)
        BY <2>2, <3>2, <1>1 DEF Settled
      <3>3. QED
        BY <2>2, <3>1, <3>2, <1>5
    <2>3. QED
      BY <1>6, <2>1, <2>2 DEF Settled
  <1>7. WindowSettled'
    <2>1. Turns' = Turns
      BY <1>1 DEF Turns
    <2>2. live' = "fast_sift" => Listed(found')
      BY <1>1, <1>5
    <2>3. ASSUME live' \in {"fast_sift", "agent", "agent_sift"},
                 NEW i \in WindowStart(Turns)..Len(Turns), ByAgent(Turns[i]),
                 NEW id \in Turns[i].text.breaks \intersect PolicyIds
          PROVE  Settled(id)'
      <3>1. Settled(id)
        BY <2>3, <1>1 DEF MissInv, WindowSettled
      <3>2. QED
        BY <3>1, <1>6
    <2>4. QED
      BY <2>1, <2>2, <2>3 DEF WindowSettled
  <1>8. QED
    BY <1>4, <1>7 DEF MissInv

(* The findings of the fast path are all sifted before the agent is asked.  *)
LEMMA AgentMiss ==
  ASSUME Shaped, MissInv, AskAgent \/ AgentPath
  PROVE  MissInv'
  <1>1. /\ Here' = Here /\ UNCHANGED <<transcript, reported>>
    BY TurnsOfAnalysisShaped
  <1>2. /\ UNCHANGED upto
        /\ \/ live = "fast_sift" /\ found = <<>> /\ live' = "agent"
           \/ live = "agent" /\ live' = "agent_sift"
    BY DEF AskAgent, AgentPath
  <1>3. KeepsUp' /\ NoViolationMissed'
    BY <1>1, <1>2 DEF MissInv, KeepsUp, NoViolationMissed, Behind, Analysing
  <1>4. ASSUME NEW id, Settled(id) PROVE Settled(id)'
    <2>1. id \in reported[Here]
      BY <1>2, <1>4, EmptyListed DEF Settled
    <2>2. QED
      BY <1>1, <2>1 DEF Settled
  <1>5. WindowSettled'
    <2>1. Turns' = Turns
      BY <1>1 DEF Turns
    <2>2. live' # "fast_sift"
      BY <1>2
    <2>3. ASSUME NEW i \in WindowStart(Turns)..Len(Turns), ByAgent(Turns[i]),
                 NEW id \in Turns[i].text.breaks \intersect PolicyIds
          PROVE  Settled(id)'
      <3>1. Settled(id)
        BY <2>3, <1>2 DEF MissInv, WindowSettled
      <3>2. QED
        BY <3>1, <1>4
    <2>4. QED
      BY <2>1, <2>2, <2>3 DEF WindowSettled
  <1>6. QED
    BY <1>3, <1>5 DEF MissInv

(* The turns that become analysed are all within the window.                *)
LEMMA EndMiss ==
  ASSUME Stride <= WindowSize, Shaped, MissInv, EndAnalysis
  PROVE  MissInv'
  <1>1. /\ Here' = Here /\ UNCHANGED <<transcript, reported>> /\ Here \in Calls
    BY TurnsOfAnalysisShaped, HereIsACall
  <1> DEFINE n == Len(transcript[Here])
  <1>2. /\ upto' = [upto EXCEPT ![Here] = n] /\ found = <<>>
        /\ live \in {"fast_sift", "agent_sift"} /\ live' \in {"idle", "publish"}
    BY DEF EndAnalysis, Turns
  <1>3. /\ Stride \in Nat \ {0} /\ WindowSize \in Nat
        /\ \A c \in Calls : Len(transcript[c]) \in Nat
    BY LiveAssumption, TurnsNumbered DEF LiveAssumption
  <1>4. upto'[Here] = n /\ \A c \in Calls : c # Here => upto'[c] = upto[c]
    BY <1>1, <1>2 DEF Shaped
  <1>5. KeepsUp'
    <2> SUFFICES ASSUME NEW c \in Calls
                 PROVE  /\ upto'[c] \in 0..Len(transcript'[c])
                        /\ Len(transcript'[c]) - upto'[c] < Stride
      BY DEF KeepsUp, Behind
    <2>1. CASE c = Here
      BY <2>1, <1>1, <1>3, <1>4
    <2>2. CASE c # Here
      BY <2>2, <1>1, <1>3, <1>4 DEF MissInv, KeepsUp, Behind
    <2>3. QED
      BY <2>1, <2>2
  <1>6. WindowSettled'
    BY <1>2 DEF WindowSettled
  <1>7. NoViolationMissed'
    <2> SUFFICES ASSUME NEW c \in Calls, NEW i \in 1..upto'[c], ByAgent(transcript[c][i])
                 PROVE  transcript[c][i].text.breaks \intersect PolicyIds \subseteq reported[c]
      BY <1>1 DEF NoViolationMissed, ByAgent
    <2>1. CASE c # Here
      BY <2>1, <1>4 DEF MissInv, NoViolationMissed
    <2>2. CASE c = Here
      <3>1. i \in 1..n /\ n \in Nat
        BY <2>2, <1>1, <1>3, <1>4
      <3>2. CASE i <= upto[Here]
        <4>1. i \in 1..upto[Here]
          BY <3>1, <3>2, <1>1 DEF MissInv, KeepsUp
        <4>2. QED
          BY <2>2, <4>1 DEF MissInv, NoViolationMissed
      <3>3. CASE ~(i <= upto[Here])
        <4>1. n - upto[Here] <= Stride /\ upto[Here] \in 0..n
          BY <1>1, <1>3 DEF MissInv, KeepsUp, Behind
        <4>2. i \in Nat /\ i >= 1 /\ i >= n + 1 - WindowSize /\ i <= n
          BY <3>1, <3>3, <4>1, <1>3
        <4>3. i \in WindowStart(Turns)..Len(Turns)
          BY <4>2, <1>3, <3>1, GreatestOfTwo DEF WindowStart, Turns
        <4>4. \A id \in Turns[i].text.breaks \intersect PolicyIds : Settled(id)
          BY <2>2, <4>3, <1>2 DEF MissInv, WindowSettled, Turns
        <4>5. \A id : Settled(id) => id \in reported[Here]
          BY <1>2, EmptyListed DEF Settled
        <4>6. QED
          BY <2>2, <4>4, <4>5 DEF Turns
      <3>4. QED
        BY <3>2, <3>3
    <2>3. QED
      BY <2>1, <2>2
  <1>8. QED
    BY <1>5, <1>6, <1>7 DEF MissInv

(* Nothing of what the invariant speaks of changes, or the analysis is over *)
(* and its signals go out or are lost.                                      *)
LEMMA MissUntouched ==
  ASSUME Shaped, MissInv, Here' = Here,
         UNCHANGED <<transcript, reported, upto>>,
         UNCHANGED <<live, found>> \/ (live = "publish" /\ live' \in {"idle", "failed"})
  PROVE  MissInv'
  <1>1. CASE UNCHANGED <<live, found>>
    <2>1. Turns' = Turns /\ \A id : Settled(id) => Settled(id)'
      BY <1>1 DEF Turns, Settled
    <2>2. KeepsUp' /\ NoViolationMissed'
      BY <1>1 DEF MissInv, KeepsUp, NoViolationMissed, Behind, Analysing
    <2>3. WindowSettled'
      BY <1>1, <2>1 DEF MissInv, WindowSettled
    <2>4. QED
      BY <2>2, <2>3 DEF MissInv
  <1>2. CASE live = "publish" /\ live' \in {"idle", "failed"}
    BY <1>2 DEF MissInv, KeepsUp, NoViolationMissed, Behind, Analysing, WindowSettled
  <1>3. QED
    BY <1>1, <1>2

LEMMA MissStep ==
  ASSUME Stride <= WindowSize, MinConfidence \in 0..65,
         Shaped, SignalsInv, MissInv, [Next]_vars
  PROVE  MissInv'
  <1>1. CASE Hear
    BY <1>1, HearMiss
  <1>2. CASE FastPath
    BY <1>2, FastPathMiss
  <1>3. CASE Sift
    BY <1>3, SiftMiss
  <1>4. CASE AskAgent \/ AgentPath
    BY <1>4, AgentMiss
  <1>5. CASE EndAnalysis
    BY <1>5, EndMiss
  <1>6. CASE Publish \/ PublishFails
    <2>1. Here' = Here /\ UNCHANGED <<transcript, reported>>
      BY <1>6, TurnsOfAnalysisShaped
    <2>2. UNCHANGED upto /\ live = "publish" /\ live' \in {"idle", "failed"}
      BY <1>6 DEF Publish, PublishFails
    <2>3. QED
      BY <2>1, <2>2, MissUntouched
  <1>7. CASE \/ \E c \in Calls : Summarise(c)
             \/ PublishSummary
             \/ \E p \in Threads : Agent(p)
             \/ UNCHANGED vars
    <2>1. Aside \/ UNCHANGED vars
      BY <1>7, AsideFacts
    <2>2. UNCHANGED <<transcript, reported, upto, live, found>> /\ Here' = Here
      <3>1. CASE Aside
        BY <3>1 DEF Aside, liveVars
      <3>2. CASE UNCHANGED vars
        BY <3>2 DEF vars, agentVars, callVars, liveVars, Here
      <3>3. QED
        BY <2>1, <3>1, <3>2
    <2>3. QED
      BY <2>2, MissUntouched
  <1>a. CASE HearAnew
    BY <1>a, HearAnewMiss
  <1>b. CASE TakeLock
    BY <1>b, TakeLockMiss
  <1>8. QED
    BY <1>1, <1>2, <1>3, <1>4, <1>5, <1>6, <1>7, <1>a, <1>b DEF Next

(* live.py:_fast_path, analyse: whatever the model answers, and for any     *)
(* transcript, every prohibited phrase of an analysed turn of an agent has  *)
(* been reported, as long as the window is no shorter than the stride and   *)
(* the threshold no higher than the confidence of a prohibited phrase.      *)
THEOREM EveryViolationIsReported ==
  ASSUME Stride <= WindowSize, MinConfidence \in 0..65
  PROVE  Spec => []NoViolationMissed
  <1>1. Init => Shaped /\ SignalsInv /\ MissInv
    BY InitShaped, InitSignals, InitMiss
  <1>2. Shaped /\ SignalsInv /\ MissInv /\ [Next]_vars => (Shaped /\ SignalsInv /\ MissInv)'
    BY SignalsStep, MissStep
  <1>3. Shaped /\ SignalsInv /\ MissInv => NoViolationMissed
    BY DEF MissInv
  <1>4. QED
    BY <1>1, <1>2, <1>3, PTL DEF Spec

-----------------------------------------------------------------------------
(* What the fast path reports as missing can never be given afterwards: a   *)
(* window of the first turns of the agent that is full stays as it is.      *)

Agents(turns) == {i \in 1..Len(turns) : ByAgent(turns[i])}
Said(turns) == Pick(turns, 1, ByAgent)

LEMMA SaidFacts ==
  ASSUME NEW turns, Listed(turns)
  PROVE  /\ Len(turns) \in Nat /\ Agents(turns) \in SUBSET (1..Len(turns))
         /\ Listed(Said(turns)) /\ Len(Said(turns)) = Cardinality(Agents(turns))
         /\ Cardinality(Agents(turns)) \in Nat
         /\ \A k \in 1..Cardinality(Agents(turns)) :
              /\ Said(turns)[k] = At(k, Agents(turns))
              /\ At(k, Agents(turns)) \in Agents(turns)
  <1> DEFINE numbers == [i \in 1..Len(turns) |-> i]
             W == Agents(turns)
  <1>1. Said(turns) = Chosen(numbers, W)
    BY DEF Said, Pick, Agents
  <1>2. Len(turns) \in Nat /\ W \in SUBSET (1..Len(turns))
    BY ListedFacts DEF Agents
  <1> HIDE DEF W
  <1>3. Listed(Chosen(numbers, W)) /\ Len(Chosen(numbers, W)) = Cardinality(W)
        /\ Cardinality(W) \in Nat
    BY <1>2, ChosenFacts
  <1>4. ASSUME NEW k \in 1..Cardinality(W)
        PROVE  At(k, W) \in W /\ Chosen(numbers, W)[k] = At(k, W)
    <2>1. Chosen(numbers, W) = [j \in 1..Cardinality(W) |-> numbers[At(j, W)]]
      BY DEF Chosen, At, Rank, Before
    <2>2. At(k, W) \in W
      BY <1>2, AtFacts
    <2>3. QED
      BY <2>1, <2>2, <1>2
  <1>5. QED
    BY <1>1, <1>2, <1>3, <1>4 DEF W

LEMMA SaidGrows ==
  ASSUME NEW turns, Listed(turns), NEW turn
  PROVE  /\ Len(Said(turns)) <= Len(Said(Append(turns, turn)))
         /\ \A k \in 1..Len(Said(turns)) :
              /\ Said(Append(turns, turn))[k] = Said(turns)[k]
              /\ Append(turns, turn)[Said(turns)[k]] = turns[Said(turns)[k]]
  <1> DEFINE more == Append(turns, turn)
             n == Len(turns)
             W == Agents(turns)
             V == Agents(more)
  <1>1. /\ n \in Nat /\ Listed(more) /\ Len(more) = n + 1
        /\ \A i \in 1..n : more[i] = turns[i]
    BY AppendListed, ListedFacts
  <1>2. /\ W \in SUBSET (1..n) /\ V \in SUBSET (1..(n + 1))
        /\ \A i \in 1..n : i \in V <=> i \in W
    <2>1. \A i \in 1..n : i \in 1..(n + 1)
      BY <1>1
    <2> HIDE DEF more
    <2>2. QED
      BY <2>1, <1>1 DEF Agents
  <1>3. /\ Listed(Said(more)) /\ Len(Said(more)) = Cardinality(V) /\ Cardinality(V) \in Nat
        /\ \A k \in 1..Cardinality(V) : Said(more)[k] = At(k, V)
    BY <1>1, SaidFacts
  <1>4. /\ Len(Said(turns)) = Cardinality(W) /\ Cardinality(W) \in Nat
        /\ \A k \in 1..Cardinality(W) : Said(turns)[k] = At(k, W) /\ At(k, W) \in W
    BY SaidFacts
  <1> HIDE DEF more, n, W, V
  <1>5. Cardinality(W) <= Cardinality(V)
    <2>1. n + 1 \in Nat /\ IsFiniteSet(V)
      <3>1. n + 1 \in Nat
        BY <1>1
      <3>2. QED
        BY <3>1, <1>2, RankFacts
    <2>2. W \in SUBSET V
      BY <1>2
    <2>3. QED
      BY <2>1, <2>2, FS_Subset
  <1>6. ASSUME NEW k \in 1..Cardinality(W)
        PROVE  At(k, V) = At(k, W)
    <2> DEFINE i == At(k, W)
    <2>1. i \in W /\ Rank(i, W) = k - 1
      BY <1>1, <1>2, AtFacts
    <2> HIDE DEF i
    <2>2. Before(i, V) = Before(i, W)
      <3>1. \A j \in V : j < i => j \in 1..n
        BY <2>1, <1>1, <1>2
      <3>2. QED
        BY <3>1, <1>2 DEF Before
    <2>3. Rank(i, V) = k - 1
      BY <2>1, <2>2 DEF Rank
    <2>4. i \in V /\ n + 1 \in Nat
      BY <2>1, <1>1, <1>2
    <2>5. At(Rank(i, V) + 1, V) = i
      BY <2>4, <1>2, AtFacts
    <2>6. k - 1 + 1 = k
      BY <1>4
    <2>7. QED
      BY <2>3, <2>5, <2>6 DEF i
  <1>7. ASSUME NEW k \in 1..Len(Said(turns))
        PROVE  Said(more)[k] = Said(turns)[k] /\ more[Said(turns)[k]] = turns[Said(turns)[k]]
    <2>1. k \in 1..Cardinality(W) /\ k \in 1..Cardinality(V)
      BY <1>3, <1>4, <1>5
    <2>2. Said(turns)[k] = At(k, W) /\ At(k, W) \in 1..n /\ Said(more)[k] = At(k, V)
      BY <2>1, <1>2, <1>3, <1>4
    <2>3. QED
      BY <2>1, <2>2, <1>1, <1>6
  <1>8. QED
    BY <1>3, <1>4, <1>5, <1>7 DEF more

LEMMA MissingTurns ==
  ASSUME NEW turns, Listed(turns), NEW required
  PROVE  \A k \in DOMAIN MissingDisclosures(turns, required) :
           MissingDisclosures(turns, required)[k].turn \in 1..Len(turns)
  <1> DEFINE W == {k \in DOMAIN Catalogue :
                     /\ Catalogue[k].id \in required
                     /\ DisclosureTurns(turns, Catalogue[k]) # <<>>
                     /\ ~Discloses(turns, Catalogue[k])}
             absent == Chosen(Catalogue, W)
             findings == [k \in DOMAIN absent |->
                            Finding(absent[k].id, absent[k].weight,
                                    DisclosureTurns(turns, absent[k])[1], absent[k].id)]
  <1>1. MissingDisclosures(turns, required) = findings
    BY DEF MissingDisclosures
  <1>2. W \in SUBSET DOMAIN Catalogue
        /\ \A i \in W : DisclosureTurns(turns, Catalogue[i]) # <<>>
    OBVIOUS
  <1>3. ASSUME NEW i \in DOMAIN Catalogue, DisclosureTurns(turns, Catalogue[i]) # <<>>
        PROVE  DisclosureTurns(turns, Catalogue[i])[1] \in 1..Len(turns)
    <2> DEFINE s == Said(turns)
               w == Catalogue[i].window
    <2>1. /\ Listed(s) /\ Len(s) \in Nat /\ w \in Nat
          /\ \A k \in 1..Len(s) : s[k] \in 1..Len(turns)
      <3>1. Listed(s) /\ \A k \in 1..Len(s) : s[k] \in Agents(turns)
        BY SaidFacts
      <3>2. w \in Nat
        BY RulesAssumption DEF RulesAssumption, ToSet
      <3>3. QED
        BY <3>1, <3>2, ListedFacts DEF Agents
    <2>2. DisclosureTurns(turns, Catalogue[i]) =
            IF w = 0 THEN s ELSE SubSeq(s, 1, Min({w, Len(s)}))
      BY DEF DisclosureTurns, Said
    <2> HIDE DEF s, w
    <2>3. CASE s = <<>>
      <3>1. w = 0 \/ (Len(s) = 0 /\ Min({w, Len(s)}) = 0)
        BY <2>1, <2>3, LeastOfTwo, EmptyListed
      <3>2. SubSeq(s, 1, 0) = <<>>
        BY <2>1, SubSeqProperties, EmptySeq DEF Listed
      <3>3. QED
        BY <1>3, <2>2, <2>3, <3>1, <3>2
    <2>4. CASE s # <<>>
      <3>1. 1 \in 1..Len(s)
        BY <2>1, <2>4, EmptySeq DEF Listed
      <3>2. w # 0 => SubSeq(s, 1, Min({w, Len(s)}))[1] = s[1]
        <4>1. w # 0 => Min({w, Len(s)}) \in 1..Len(s)
          BY <2>1, <3>1, LeastOfTwo
        <4>2. \A m \in 1..Len(s) : SubSeq(s, 1, m)[1] = s[1]
          BY <2>1, SubSeqProperties DEF Listed
        <4>3. QED
          BY <4>1, <4>2
      <3>3. QED
        BY <2>1, <2>2, <3>1, <3>2
    <2>5. QED
      BY <2>3, <2>4
  <1> HIDE DEF W
  <1>4. \A k \in DOMAIN absent : \E i \in W : absent[k] = Catalogue[i]
    BY <1>2, CatalogueFacts, ChosenFrom
  <1> HIDE DEF absent
  <1>5. \A k \in DOMAIN findings : findings[k].turn = DisclosureTurns(turns, absent[k])[1]
    BY DEF Finding
  <1>6. \A k \in DOMAIN absent : DisclosureTurns(turns, absent[k])[1] \in 1..Len(turns)
    BY <1>2, <1>3, <1>4
  <1>7. QED
    BY <1>1, <1>5, <1>6

(* A disclosure whose window is full is given in its first turns or never.  *)
LEMMA FullWindow ==
  ASSUME NEW turns, Listed(turns), NEW policy, policy.window \in Nat \ {0},
         policy.window <= Len(Said(turns))
  PROVE  Discloses(turns, policy) <=>
           \E k \in 1..policy.window : policy.id \in turns[Said(turns)[k]].text.meets
  <1> DEFINE s == Said(turns)
             w == policy.window
  <1>1. Listed(s) /\ Len(s) \in Nat
    BY SaidFacts
  <1>2. DisclosureTurns(turns, policy) = SubSeq(s, 1, Min({w, Len(s)}))
    BY DEF DisclosureTurns, Said
  <1> HIDE DEF s, w
  <1>3. w \in Nat \ {0} /\ w <= Len(s)
    BY DEF s, w
  <1>4. Min({w, Len(s)}) = w
    BY <1>1, <1>3, LeastOfTwo
  <1>5. ToSet(SubSeq(s, 1, w)) = {s[k] : k \in 1..w}
    <2>1. /\ SubSeq(s, 1, w) \in Seq(ToSet(s)) /\ Len(SubSeq(s, 1, w)) = w
          /\ \A k \in 1..w : SubSeq(s, 1, w)[k] = s[k]
      <3>1. s \in Seq(ToSet(s)) /\ 1 \in 1..(Len(s) + 1) /\ w \in 0..Len(s)
        BY <1>1, <1>3 DEF Listed
      <3>2. /\ SubSeq(s, 1, w) \in Seq(ToSet(s))
            /\ Len(SubSeq(s, 1, w)) = IF 1 <= w THEN w - 1 + 1 ELSE 0
            /\ \A k \in 1..(w - 1 + 1) : SubSeq(s, 1, w)[k] = s[1 + k - 1]
        BY <3>1, <1>1, <1>3, SubSeqProperties
      <3>3. w - 1 + 1 = w /\ \A k \in 1..w : 1 + k - 1 = k
        BY <1>3
      <3>4. QED
        BY <3>2, <3>3, <1>3
    <2>2. DOMAIN SubSeq(s, 1, w) = 1..w
      BY <2>1, LenProperties
    <2>3. QED
      BY <2>1, <2>2 DEF ToSet
  <1>6. QED
    BY <1>2, <1>4, <1>5 DEF Discloses, s, w

LEMMA FullWindowStays ==
  ASSUME NEW turns, Listed(turns), NEW turn, NEW policy, policy.window \in Nat \ {0},
         policy.window < Len(Said(turns)), ~Discloses(turns, policy)
  PROVE  /\ policy.window < Len(Said(Append(turns, turn)))
         /\ ~Discloses(Append(turns, turn), policy)
  <1> DEFINE more == Append(turns, turn)
             w == policy.window
  <1>1. /\ Len(Said(turns)) <= Len(Said(more)) /\ Listed(more)
        /\ \A k \in 1..Len(Said(turns)) : /\ Said(more)[k] = Said(turns)[k]
                                          /\ more[Said(turns)[k]] = turns[Said(turns)[k]]
    <2>1. Listed(more)
      BY AppendListed
    <2>2. QED
      BY <2>1, SaidGrows
  <1>2. Len(Said(turns)) \in Nat /\ Len(Said(more)) \in Nat
    BY <1>1, SaidFacts
  <1> HIDE DEF more
  <1>3. w < Len(Said(more)) /\ w <= Len(Said(more)) /\ w <= Len(Said(turns))
    BY <1>1, <1>2
  <1>4. /\ Discloses(turns, policy) <=>
             \E k \in 1..w : policy.id \in turns[Said(turns)[k]].text.meets
        /\ Discloses(more, policy) <=>
             \E k \in 1..w : policy.id \in more[Said(more)[k]].text.meets
    BY <1>1, <1>3, FullWindow
  <1>5. \A k \in 1..w : more[Said(more)[k]] = turns[Said(turns)[k]]
    BY <1>1, <1>2, <1>3
  <1>6. QED
    BY <1>3, <1>4, <1>5 DEF more

(* The judgement that a disclosure is missing for good.                     *)
Verdict(risk, turns) ==
  \E policy \in ToSet(Catalogue) :
    /\ policy.id = risk.policy /\ policy.window \in Nat \ {0}
    /\ policy.window < Len(Said(turns)) /\ ~Discloses(turns, policy)

LEMMA PolicyOfFacts ==
  ASSUME NEW policy \in ToSet(Catalogue)
  PROVE  /\ PolicyOf(policy.id) = policy /\ policy.id \in PolicyIds
         /\ policy.window \in Nat
  <1>1. \A other \in ToSet(Catalogue) : other.id = policy.id => other = policy
    BY RulesAssumption DEF RulesAssumption, ToSet
  <1>2. PolicyOf(policy.id) = policy
    BY <1>1 DEF PolicyOf
  <1>3. policy.id \in PolicyIds /\ policy.window \in Nat
    BY RulesAssumption DEF RulesAssumption, PolicyIds, ToSet
  <1>4. QED
    BY <1>2, <1>3

LEMMA VerdictStays ==
  ASSUME NEW turns, Listed(turns), NEW turn, NEW risk, Verdict(risk, turns)
  PROVE  Verdict(risk, Append(turns, turn))
  <1>1. PICK policy \in ToSet(Catalogue) :
          /\ policy.id = risk.policy /\ policy.window \in Nat \ {0}
          /\ policy.window < Len(Said(turns)) /\ ~Discloses(turns, policy)
    BY DEF Verdict
  <1>2. /\ policy.window < Len(Said(Append(turns, turn)))
        /\ ~Discloses(Append(turns, turn), policy)
    BY <1>1, FullWindowStays
  <1>3. QED
    BY <1>1, <1>2 DEF Verdict

LEMMA VerdictNeverGiven ==
  ASSUME NEW c, NEW s, Verdict(s, transcript[c])
  PROVE  NeverGiven(s, c)
  <1>1. PICK policy \in ToSet(Catalogue) :
          policy.id = s.policy /\ ~Discloses(transcript[c], policy)
    BY DEF Verdict
  <1>2. PolicyOf(s.policy) = policy /\ s.policy \in PolicyIds
    BY <1>1, PolicyOfFacts
  <1>3. Resolve(s.policy) = s.policy
    BY <1>2 DEF Resolve
  <1>4. QED
    BY <1>1, <1>2, <1>3 DEF NeverGiven

(* A disclosure that the fast path calls closed and missing.                *)
LEMMA MissingVerdict ==
  ASSUME NEW turns, Listed(turns), NEW required,
         NEW finding \in ToSet(MissingDisclosures(turns, required)),
         WindowClosed(turns, finding.policy), NEW risk, risk.policy = finding.policy
  PROVE  Verdict(risk, turns)
  <1> DEFINE W == {k \in DOMAIN Catalogue :
                     /\ Catalogue[k].id \in required
                     /\ DisclosureTurns(turns, Catalogue[k]) # <<>>
                     /\ ~Discloses(turns, Catalogue[k])}
             absent == Chosen(Catalogue, W)
  <1>1. MissingDisclosures(turns, required) =
          [k \in DOMAIN absent |->
             Finding(absent[k].id, absent[k].weight, DisclosureTurns(turns, absent[k])[1],
                     absent[k].id)]
    BY DEF MissingDisclosures
  <1>2. W \in SUBSET (1..Len(Catalogue)) /\ Len(Catalogue) \in Nat
        /\ DOMAIN Catalogue = 1..Len(Catalogue)
        /\ \A k \in W : ~Discloses(turns, Catalogue[k])
    BY CatalogueFacts
  <1> HIDE DEF W
  <1>3. Listed(absent) /\ Len(absent) = Cardinality(W) /\ Cardinality(W) \in Nat
    BY <1>2, ChosenFacts
  <1>4. DOMAIN absent = 1..Cardinality(W)
    <2> HIDE DEF absent
    <2>1. QED
      BY <1>3, ListedFacts
  <1>5. \A k \in 1..Cardinality(W) : absent[k] = Catalogue[At(k, W)] /\ At(k, W) \in W
    <2>1. absent = [k \in 1..Cardinality(W) |-> Catalogue[At(k, W)]]
      BY DEF Chosen, At, Rank, Before
    <2>2. \A k \in 1..Cardinality(W) : At(k, W) \in W
      BY <1>2, AtFacts
    <2> HIDE DEF absent
    <2>3. QED
      BY <2>1, <2>2
  <1> HIDE DEF absent
  <1>6. PICK k \in DOMAIN absent : finding.policy = absent[k].id
    BY <1>1 DEF ToSet, Finding
  <1>7. PICK j \in DOMAIN Catalogue : Catalogue[j].id = finding.policy
                                      /\ ~Discloses(turns, Catalogue[j])
    <2>1. k \in 1..Cardinality(W)
      BY <1>4, <1>6
    <2>2. absent[k] = Catalogue[At(k, W)] /\ At(k, W) \in W
      BY <2>1, <1>5
    <2>3. At(k, W) \in DOMAIN Catalogue /\ ~Discloses(turns, Catalogue[At(k, W)])
      BY <2>2, <1>2
    <2>4. QED
      BY <2>2, <2>3, <1>6
  <1> DEFINE policy == Catalogue[j]
  <1>8. policy \in ToSet(Catalogue)
    BY DEF ToSet
  <1> HIDE DEF policy
  <1>9. PolicyOf(finding.policy) = policy /\ policy.window \in Nat
    BY <1>7, <1>8, PolicyOfFacts DEF policy
  <1>10. policy.window > 0 /\ Len(Said(turns)) > policy.window
    BY <1>9 DEF WindowClosed, Said
  <1>11. policy.window \in Nat \ {0} /\ policy.window < Len(Said(turns))
    <2>1. Len(Said(turns)) \in Nat
      BY SaidFacts
    <2>2. QED
      BY <2>1, <1>9, <1>10
  <1>12. QED
    BY <1>7, <1>8, <1>11 DEF Verdict, policy

LEMMA ClosedRisks ==
  ASSUME NEW turns, Listed(turns), NEW required, NEW about,
         NEW risk \in ToSet(FastRisks(turns, required, about)), risk.why = "closed"
  PROVE  Verdict(risk, turns)
  <1> DEFINE from == WindowStart(turns)
             missing == MissingDisclosures(turns, required)
             W == {k \in DOMAIN missing : WindowClosed(turns, missing[k].policy)}
             closed == Chosen(missing, W)
             phrases == FastFlags(ComplianceFindings(turns, from), 65, 97, "phrase", about)
             omissions == FastFlags(closed, 60, 92, "closed", about)
             threats == EscalationFlag(turns, from, about)
  <1>1. FastRisks(turns, required, about) = phrases \o omissions \o threats
    BY DEF FastRisks
  <1>2. /\ Listed(missing) /\ Len(missing) \in Nat /\ DOMAIN missing = 1..Len(missing)
        /\ W \in SUBSET (1..Len(missing))
        /\ \A k \in W : WindowClosed(turns, missing[k].policy)
    <2>1. Listed(missing)
      BY FindingsListed
    <2> HIDE DEF missing
    <2>2. QED
      BY <2>1, ListedFacts
  <1> HIDE DEF missing, W
  <1>3. /\ Listed(closed) /\ Len(closed) = Cardinality(W) /\ Cardinality(W) \in Nat
    BY <1>2, ChosenFacts
  <1>4. \A k \in 1..Cardinality(W) : closed[k] = missing[At(k, W)] /\ At(k, W) \in W
    <2>1. closed = [k \in 1..Cardinality(W) |-> missing[At(k, W)]]
      BY DEF Chosen, At, Rank, Before
    <2>2. \A k \in 1..Cardinality(W) : At(k, W) \in W
      BY <1>2, AtFacts
    <2> HIDE DEF closed
    <2>3. QED
      BY <2>1, <2>2
  <1> HIDE DEF closed
  <1>5. DOMAIN closed = 1..Cardinality(W)
    BY <1>3, ListedFacts
  <1>6. Listed(phrases) /\ Listed(omissions) /\ Listed(threats)
    BY <1>3, FindingsListed, FastFlagsFacts, EscalationFlagForm
  <1>7. ASSUME NEW r \in ToSet(phrases) PROVE r.why = "phrase"
    <2>1. PICK k \in DOMAIN phrases : r = phrases[k]
      BY DEF ToSet
    <2> DEFINE findings == ComplianceFindings(turns, from)
    <2>2. /\ DOMAIN phrases = DOMAIN findings
          /\ \A n \in DOMAIN findings : phrases[n].why = "phrase"
      <3> HIDE DEF findings
      <3>1. QED
        BY FastFlagsOrigin DEF findings
    <2>3. QED
      BY <2>1, <2>2
  <1>8. ASSUME NEW r \in ToSet(threats) PROVE r.why = "threat"
    <2>1. PICK k \in DOMAIN threats : r = threats[k]
      BY DEF ToSet
    <2>2. threats = <<>> \/ \E flag : threats = <<flag>> /\ flag.why = "threat"
      BY EscalationFlagForm
    <2> HIDE DEF threats
    <2>3. QED
      BY <2>1, <2>2
  <1>9. ASSUME NEW r \in ToSet(omissions)
        PROVE  \E k \in DOMAIN closed : r.policy = closed[k].policy
    <2>1. PICK k \in DOMAIN omissions : r = omissions[k]
      BY DEF ToSet
    <2>2. DOMAIN omissions = DOMAIN closed
          /\ \A n \in DOMAIN closed : omissions[n].policy = closed[n].policy
      BY FastFlagsOrigin
    <2>3. QED
      BY <2>1, <2>2
  <1> HIDE DEF phrases, omissions, threats
  <1>10. risk \in ToSet(omissions)
    <2>1. /\ Listed(phrases \o omissions)
          /\ ToSet(phrases \o omissions) = ToSet(phrases) \union ToSet(omissions)
      BY <1>6, ConcatListed
    <2> DEFINE first == phrases \o omissions
    <2> HIDE DEF first
    <2>2. ToSet(first \o threats) = ToSet(first) \union ToSet(threats)
      BY <2>1, <1>6, ConcatListed DEF first
    <2>3. QED
      BY <2>1, <2>2, <1>1, <1>7, <1>8 DEF first
  <1>11. PICK k \in 1..Cardinality(W) : risk.policy = closed[k].policy
    BY <1>5, <1>9, <1>10
  <1> DEFINE finding == missing[At(k, W)]
  <1>12. finding \in ToSet(missing) /\ WindowClosed(turns, finding.policy)
         /\ risk.policy = finding.policy
    BY <1>2, <1>4, <1>11 DEF ToSet
  <1> HIDE DEF finding
  <1>13. QED
    BY <1>12, MissingVerdict DEF missing

-----------------------------------------------------------------------------
(* A risk that the agent flags cites a list of turns and never claims to be *)
(* such a judgement, whoever answers it, and one of the offline provider    *)
(* names a policy as the catalogue does.                                    *)

Known(risk) == risk.type = Violation => risk.policy \in PolicyIds
Frank(risk, by) ==
  /\ DOMAIN risk = RiskFields /\ risk.why # "closed" /\ Listed(risk.evidence)
  /\ by = "offline" => Known(risk)
FrankRisks(risks, by) == Listed(risks) /\ \A r \in ToSet(risks) : Frank(r, by)
FrankCalls(calls, by) ==
  Listed(calls) /\ \A call \in ToSet(calls) : call.tool = "flag_risk" => Frank(call.risk, by)

LEMMA RiskFrank ==
  ASSUME NEW by, NEW type, NEW label, NEW severity, NEW confidence, NEW evidence, NEW policy,
         NEW why, why # "closed", NEW about, type = Violation => policy \in PolicyIds,
         Listed(evidence)
  PROVE  Frank(Risk(type, label, severity, confidence, evidence, policy, why, about), by)
  BY DEF Risk, Frank, RiskFields, Known

LEMMA OneFrank ==
  ASSUME NEW by, NEW risk, Frank(risk, by)
  PROVE  FrankRisks(<<risk>>, by)
  BY OneListed DEF FrankRisks, ToSet

LEMMA NoneFrank ==
  ASSUME NEW by
  PROVE  FrankRisks(<<>>, by) /\ FrankCalls(<<>>, by)
  BY EmptyListed DEF FrankRisks, FrankCalls, ToSet

LEMMA ConcatFrank ==
  ASSUME NEW by, NEW s, FrankRisks(s, by), NEW t, FrankRisks(t, by)
  PROVE  FrankRisks(s \o t, by)
  BY ConcatListed DEF FrankRisks

LEMMA FirstFacts ==
  ASSUME NEW s, Listed(s), NEW n \in Nat
  PROVE  Listed(First(n, s)) /\ ToSet(First(n, s)) \subseteq ToSet(s)
  <1> DEFINE m == Min({n, Len(s)})
  <1>1. Len(s) \in Nat /\ s \in Seq(ToSet(s))
    BY ListedFacts DEF Listed
  <1>2. m \in 0..Len(s)
    BY <1>1, LeastOfTwo
  <1> HIDE DEF m
  <1>3. SubSeq(s, 1, m) \in Seq(ToSet(s))
    BY <1>1, <1>2, SubSeqProperties
  <1>4. SubSeq(s, 1, m) \in [1..Len(SubSeq(s, 1, m)) -> ToSet(s)]
    BY <1>3, LenProperties
  <1>5. ToSet(SubSeq(s, 1, m)) \subseteq ToSet(s)
    BY <1>4 DEF ToSet
  <1>6. QED
    BY <1>3, <1>5, IsListed DEF First, m

LEMMA FirstFrank ==
  ASSUME NEW by, NEW calls, FrankCalls(calls, by), NEW n \in Nat
  PROVE  FrankCalls(First(n, calls), by)
  BY FirstFacts DEF FrankCalls

LEMMA ComplianceFlagsFrank ==
  ASSUME NEW by, NEW findings, Listed(findings),
         \A k \in DOMAIN findings : findings[k].policy \in PolicyIds,
         NEW already, NEW base, NEW top, NEW why,
         why # "closed", NEW about
  PROVE  FrankRisks(ComplianceFlags(findings, already, base, top, why, about), by)
  <1> DEFINE W == {k \in DOMAIN findings : findings[k].policy \notin already}
             fresh == Chosen(findings, W)
             flags == ComplianceFlags(findings, already, base, top, why, about)
  <1>1. W \in SUBSET DOMAIN findings
    OBVIOUS
  <1>2. /\ DOMAIN flags = DOMAIN fresh /\ flags = [k \in DOMAIN flags |-> flags[k]]
        /\ \A k \in DOMAIN flags : /\ DOMAIN flags[k] = RiskFields /\ flags[k].why = why
                                   /\ flags[k].policy = fresh[k].policy
                                   /\ flags[k].evidence = <<fresh[k].turn>>
    BY DEF ComplianceFlags, Risk, RiskFields
  <1> HIDE DEF W, flags
  <1>3. Listed(fresh) /\ \A k \in DOMAIN fresh : \E i \in W : fresh[k] = findings[i]
    BY <1>1, ChosenFrom
  <1> HIDE DEF fresh
  <1>a. \A k \in DOMAIN flags : flags[k].policy \in PolicyIds
    BY <1>1, <1>2, <1>3
  <1>4. Listed(flags)
    BY <1>2, <1>3, MappedListed
  <1>5. ASSUME NEW k \in DOMAIN flags PROVE Listed(flags[k].evidence)
    BY <1>2, OneListed
  <1>6. QED
    BY <1>2, <1>4, <1>5, <1>a DEF flags, FrankRisks, Frank, Known, ToSet

LEMMA SentimentShiftFrank ==
  ASSUME NEW by, NEW turns, NEW about
  PROVE  FrankRisks(SentimentShift(turns, about), by)
  <1>1. ASSUME NEW label, NEW size, NEW turn
        PROVE  FrankRisks(<<Shift(label, size, turn, about)>>, by)
    BY RiskFrank, OneFrank, OneListed DEF Shift, Violation
  <1>2. ASSUME NEW early, NEW late
        PROVE  FrankRisks(Contrast(turns, early, late, about), by)
    <2> DEFINE delta == Tone(turns, late) - Tone(turns, early)
    <2>1. Contrast(turns, early, late, about) = Drift(turns, late, delta, about)
      BY DEF Contrast
    <2> HIDE DEF delta
    <2>2. CASE delta <= -35 * Len(late)
      BY <2>1, <2>2, <1>1 DEF Drift
    <2>3. CASE ~(delta <= -35 * Len(late)) /\ delta >= 35 * Len(late)
      BY <2>1, <2>3, <1>1 DEF Drift
    <2>4. CASE ~(delta <= -35 * Len(late)) /\ ~(delta >= 35 * Len(late))
      BY <2>1, <2>4, NoneFrank DEF Drift
    <2>5. QED
      BY <2>2, <2>3, <2>4
  <1>3. QED
    BY <1>2, NoneFrank DEF SentimentShift, Halves

LEMMA IntentFlagFrank ==
  ASSUME NEW by, NEW turns, NEW about
  PROVE  FrankRisks(IntentFlag(turns, about), by)
  <1> DEFINE intent == ClassifyIntent(turns).primary
             turn == IntentEvidence(turns, intent)
  <1>1. Frank(Risk("intent", intent, "info", 70, <<turn>>, NoPolicy, "keywords", about), by)
    BY RiskFrank, OneListed DEF Violation
  <1>2. QED
    BY <1>1, OneFrank, NoneFrank DEF IntentFlag

LEMMA AsCallsFrank ==
  ASSUME NEW by, NEW risks, FrankRisks(risks, by)
  PROVE  FrankCalls(AsCalls(risks), by)
  <1>1. /\ DOMAIN AsCalls(risks) = DOMAIN risks
        /\ AsCalls(risks) = [k \in DOMAIN AsCalls(risks) |-> AsCalls(risks)[k]]
        /\ \A k \in DOMAIN risks : AsCalls(risks)[k].risk = risks[k]
    BY DEF AsCalls, Flag
  <1>2. Listed(AsCalls(risks))
    BY <1>1, MappedListed DEF FrankRisks
  <1>3. QED
    BY <1>1, <1>2 DEF FrankCalls, FrankRisks, ToSet

LEMMA FlagCallsFrank ==
  ASSUME NEW by, NEW turns, Listed(turns), TurnsTyped(turns), NEW required, NEW already, NEW about
  PROVE  FrankCalls(FlagCalls(turns, required, already, about), by)
  <1> DEFINE broken == ComplianceFlags(ComplianceFindings(turns, 1), already, 60, 95,
                                       "phrase", about)
             missing == ComplianceFlags(MissingDisclosures(turns, required), already, 55, 90,
                                        "missing", about)
             threats == EscalationFlag(turns, 1, about)
             shifts == SentimentShift(turns, about)
             intents == IntentFlag(turns, about)
             all == broken \o missing \o threats \o shifts \o intents
  <1>1. FlagCalls(turns, required, already, about) = First(12, AsCalls(all))
    BY DEF FlagCalls
  <1>2. FrankRisks(broken, by) /\ FrankRisks(missing, by)
    BY FindingsListed, ComplianceFlagsFrank
  <1>3. FrankRisks(threats, by)
    <2>1. \A flag \in ToSet(threats) : Listed(flag.evidence)
      BY EscalationEvidence DEF Grounded
    <2>2. \/ threats = <<>>
          \/ \E flag : /\ threats = <<flag>> /\ DOMAIN flag = RiskFields
                       /\ flag.why = "threat" /\ flag.type = "escalation_risk"
      BY EscalationFlagForm
    <2> HIDE DEF threats
    <2>3. threats = <<>> \/ \E flag : threats = <<flag>> /\ Frank(flag, by)
      BY <2>1, <2>2 DEF Frank, Known, Violation, ToSet
    <2>4. QED
      BY <2>3, OneFrank, NoneFrank
  <1>4. FrankRisks(shifts, by) /\ FrankRisks(intents, by)
    BY SentimentShiftFrank, IntentFlagFrank
  <1> HIDE DEF broken, missing, threats, shifts, intents
  <1>5. FrankRisks(broken \o missing, by)
    BY <1>2, ConcatFrank
  <1>6. FrankRisks(broken \o missing \o threats, by)
    BY <1>3, <1>5, ConcatFrank
  <1>7. FrankRisks(broken \o missing \o threats \o shifts, by)
    BY <1>4, <1>6, ConcatFrank
  <1>8. FrankRisks(all, by)
    BY <1>4, <1>7, ConcatFrank
  <1> HIDE DEF all
  <1>9. QED
    BY <1>1, <1>8, AsCallsFrank, FirstFrank

LEMMA GatherCallsFrank ==
  ASSUME NEW by, NEW turns, NEW required
  PROVE  FrankCalls(GatherCalls(turns, required), by)
  <1>1. ASSUME NEW policies, Listed(policies), NEW b \in BOOLEAN
        PROVE  FrankCalls([k \in DOMAIN policies |-> Lookup(policies[k].id)]
                            \o IF b THEN <<[tool |-> "search_transcript"]>> ELSE <<>>, by)
    <2> DEFINE lookups == [k \in DOMAIN policies |-> Lookup(policies[k].id)]
               search == IF b THEN <<[tool |-> "search_transcript"]>> ELSE <<>>
    <2>1. Listed(lookups) /\ \A call \in ToSet(lookups) : call.tool = "lookup_policy"
      <3>1. DOMAIN lookups = DOMAIN policies /\ lookups = [k \in DOMAIN lookups |-> lookups[k]]
            /\ \A k \in DOMAIN lookups : lookups[k].tool = "lookup_policy"
        BY DEF Lookup
      <3> HIDE DEF lookups
      <3>2. QED
        BY <3>1, <1>1, MappedListed DEF ToSet
    <2>2. Listed(search) /\ \A call \in ToSet(search) : call.tool = "search_transcript"
      <3> DEFINE call == [tool |-> "search_transcript"]
      <3>1. call.tool = "search_transcript"
        OBVIOUS
      <3> HIDE DEF call
      <3>2. search = <<>> \/ search = <<call>>
        BY DEF call
      <3> HIDE DEF search
      <3>3. QED
        BY <3>1, <3>2, OneListed, EmptyListed DEF ToSet
    <2> HIDE DEF lookups, search
    <2>3. /\ Listed(lookups \o search)
          /\ ToSet(lookups \o search) = ToSet(lookups) \union ToSet(search)
      BY <2>1, <2>2, ConcatListed
    <2>4. QED
      BY <2>1, <2>2, <2>3 DEF FrankCalls, lookups, search
  <1> DEFINE suspects == {f.policy : f \in ToSet(ComplianceFindings(turns, 1))
                                        \union ToSet(MissingDisclosures(turns, required))}
             W == {k \in DOMAIN Catalogue : Catalogue[k].id \in suspects}
             policies == Chosen(Catalogue, W)
             heard == EscalationFindings(turns, 1) # <<>> /\ Band(EscalationRisk(turns, 1)) # "none"
  <1>2. GatherCalls(turns, required) =
          First(8, [k \in DOMAIN policies |-> Lookup(policies[k].id)]
                     \o IF heard THEN <<[tool |-> "search_transcript"]>> ELSE <<>>)
    BY DEF GatherCalls
  <1>3. W \in SUBSET DOMAIN Catalogue
    OBVIOUS
  <1> HIDE DEF W
  <1>4. Listed(policies)
    BY <1>3, CatalogueFacts, ChosenFrom
  <1>5. heard \in BOOLEAN
    OBVIOUS
  <1> HIDE DEF policies, heard
  <1>6. QED
    BY <1>1, <1>2, <1>4, <1>5, FirstFrank

(* Only turns that exist are cited.                                         *)
LEMMA SpansFacts ==
  ASSUME NEW turns, NEW numbers, Listed(numbers)
  PROVE  Listed(Spans(turns, numbers)) /\ ToSet(Spans(turns, numbers)) \subseteq 1..Len(turns)
  <1> DEFINE cited == First(MaxSpans, numbers)
             W == {k \in DOMAIN cited : cited[k] \in 1..Len(turns)}
  <1>1. Listed(cited)
    BY FirstFacts, AgentAssumption DEF AgentAssumption
  <1>2. Spans(turns, numbers) = Chosen(cited, W)
    BY DEF Spans
  <1>3. W \subseteq DOMAIN cited /\ \A k \in W : cited[k] \in 1..Len(turns)
    OBVIOUS
  <1> HIDE DEF cited, W
  <1>4. QED
    BY <1>1, <1>2, <1>3, ChosenFrom DEF ToSet

LEMMA FlaggedFrank ==
  ASSUME NEW by, NEW turns, NEW calls, FrankCalls(calls, by)
  PROVE  FrankRisks(Flagged(turns, calls), by)
  <1> DEFINE W == {k \in DOMAIN calls :
                     calls[k].tool = "flag_risk" /\ Flaggable(turns, calls[k].risk)}
             taken == Chosen(calls, W)
             flagged == Flagged(turns, calls)
  <1>1. flagged = [k \in DOMAIN taken |->
          [taken[k].risk EXCEPT !.evidence = Spans(turns, taken[k].risk.evidence)]]
    BY DEF Flagged
  <1>2. W \in SUBSET DOMAIN calls /\ \A k \in W : calls[k].tool = "flag_risk"
    OBVIOUS
  <1> HIDE DEF W, flagged
  <1>3. /\ Listed(taken)
        /\ \A k \in DOMAIN taken : \E i \in W : taken[k] = calls[i]
    BY <1>2, ChosenFrom DEF FrankCalls
  <1> HIDE DEF taken
  <1>4. \A k \in DOMAIN taken : Frank(taken[k].risk, by)
    BY <1>2, <1>3 DEF FrankCalls, ToSet
  <1>5. DOMAIN flagged = DOMAIN taken /\ flagged = [k \in DOMAIN flagged |-> flagged[k]]
    BY <1>1
  <1>6. Listed(flagged)
    BY <1>3, <1>5, MappedListed
  <1>7. \A k \in DOMAIN flagged : Frank(flagged[k], by)
    <2>1. ASSUME NEW k \in DOMAIN taken
          PROVE  Listed(Spans(turns, taken[k].risk.evidence))
      BY <1>4, SpansFacts DEF Frank
    <2>2. QED
      BY <2>1, <1>1, <1>4, <1>5 DEF Frank, Known, RiskFields
  <1>8. QED
    BY <1>6, <1>7 DEF flagged, FrankRisks, ToSet

FrankPass(q, by) == FrankCalls(q.todo, by) /\ FrankRisks(q.flagged, by)
FrankInv == \A p \in Threads : FrankPass(pass[p], provider)

LEMMA UseToolsFrank ==
  ASSUME NEW by, PassShaped, NEW p \in Threads, FrankPass(pass[p], by),
         NEW calls, FrankCalls(calls, by),
         UseTools(p, calls)
  PROVE  FrankPass(pass'[p], by)
  BY DEF UseTools, PassShaped, PassFields, FrankPass

LEMMA FinishFrank ==
  ASSUME NEW by, PassShaped, NEW p \in Threads, FrankPass(pass[p], by),
         NEW content, Finish(p, content)
  PROVE  FrankPass(pass'[p], by)
  <1>1. CASE ~Valid(p, content) /\ pass[p].repairs < MaxRepairs
    BY <1>1 DEF Finish, PassShaped, PassFields, FrankPass
  <1>2. CASE ~(~Valid(p, content) /\ pass[p].repairs < MaxRepairs)
    <2>1. PICK end : pass' = [pass EXCEPT ![p].pc = "stopped", ![p].content = content,
                                          ![p].end = end]
      BY <1>2 DEF Finish
    <2>2. QED
      BY <2>1 DEF PassShaped, PassFields, FrankPass
  <1>3. QED
    BY <1>1, <1>2

LEMMA StopFrank ==
  ASSUME NEW by, PassShaped, NEW p \in Threads, FrankPass(pass[p], by), NEW end, Stop(p, end)
  PROVE  FrankPass(pass'[p], by)
  BY DEF Stop, PassShaped, PassFields, FrankPass

LEMMA CompleteFrank ==
  ASSUME NEW by, PassShaped, NEW p \in Threads, FrankPass(pass[p], by),
         NEW calls, FrankCalls(calls, by),
         NEW content, Complete(p, calls, content)
  PROVE  FrankPass(pass'[p], by)
  BY UseToolsFrank, FinishFrank DEF Complete

LEMMA AgentStepFrank ==
  ASSUME Shaped, FrankInv, NEW p \in Threads, AgentStep(p)
  PROVE  FrankInv'
  <1> PassShaped
    BY DEF Shaped
  <1>1. FrankPass(pass[p], provider)
    BY DEF FrankInv
  <1>2. FrankPass(pass'[p], provider)
    <2>1. CASE SetContext(p) \/ Ask(p)
      <3>1. CASE SetContext(p)
        BY <1>1, <3>1 DEF SetContext, PassShaped, PassFields, FrankPass
      <3>2. CASE Ask(p)
        BY <1>1, <3>2 DEF Ask, PassShaped, PassFields, FrankPass
      <3>3. QED
        BY <2>1, <3>1, <3>2
    <2>2. CASE Exhausted(p) \/ OutOfTime(p) \/ PostRefused(p)
      BY <1>1, <2>2, StopFrank DEF Exhausted, OutOfTime, PostRefused
    <2>3. CASE CompleteOffline(p)
      <3>1. PICK turns \in {transcript[context.call]} :
              \/ Gather(p, turns)
              \/ IF flaggedYet THEN Conclude(p, context.call, turns)
                 ELSE RaiseFlags(p, context.call, turns)
        BY <2>3 DEF CompleteOffline
      <3>2. CASE Gather(p, turns)
        <4>1. UseTools(p, GatherCalls(turns, context.required))
          BY <3>2 DEF Gather
        <4>2. QED
          BY <1>1, <4>1, GatherCallsFrank, UseToolsFrank
      <3>3. CASE Conclude(p, context.call, turns)
        <4>1. \E content : Finish(p, content)
          BY <3>3 DEF Conclude
        <4>2. QED
          BY <1>1, <4>1, FinishFrank
      <3>4. CASE RaiseFlags(p, context.call, turns)
        <4>1. \E content : Complete(p, FlagCalls(turns, context.required,
                                                 reported[context.call], {context.call}),
                                    content)
          BY <3>4 DEF RaiseFlags
        <4>2. Listed(turns) /\ TurnsTyped(turns)
          BY <3>1 DEF Shaped
        <4>3. QED
          BY <1>1, <4>1, <4>2, FlagCallsFrank, CompleteFrank
      <3>5. QED
        BY <3>1, <3>2, <3>3, <3>4
    <2>4. CASE CompleteAzure(p)
      <3>1. PICK answer \in Answers[p] : Complete(p, answer.calls, answer.content)
        BY <2>4 DEF CompleteAzure
      <3>2. provider # "offline"
        BY <2>4 DEF CompleteAzure
      <3>3. FrankCalls(answer.calls, provider)
        BY <3>2, AgentAssumption DEF AgentAssumption, Threads, FrankCalls, Frank, Listed
      <3>4. QED
        BY <1>1, <3>1, <3>3, CompleteFrank
    <2>5. CASE PostFails(p)
      <3>1. CASE pass[p].attempt < MaxRetries
        BY <1>1, <2>5, <3>1 DEF PostFails, PassShaped, PassFields, FrankPass
      <3>2. CASE ~(pass[p].attempt < MaxRetries)
        BY <1>1, <2>5, <3>2, StopFrank DEF PostFails
      <3>3. QED
        BY <3>1, <3>2
    <2>6. CASE InvokeTools(p)
      <3> DEFINE more == Flagged(transcript[pass[p].call], pass[p].todo)
      <3>1. pass' = [pass EXCEPT ![p].pc = "loop", ![p].todo = <<>>,
                                 ![p].flagged = @ \o more]
        BY <2>6 DEF InvokeTools
      <3>2. FrankRisks(pass[p].flagged \o more, provider)
        BY <1>1, FlaggedFrank, ConcatFrank DEF FrankPass
      <3> HIDE DEF more
      <3>3. pass'[p].todo = <<>> /\ pass'[p].flagged = pass[p].flagged \o more
        BY <3>1 DEF PassShaped, PassFields
      <3>4. QED
        BY <3>2, <3>3, NoneFrank DEF FrankPass
    <2>7. QED
      BY <2>1, <2>2, <2>3, <2>4, <2>5, <2>6 DEF AgentStep
  <1>3. UNCHANGED provider /\ \A q \in Threads \ {p} : pass'[q] = pass[q]
    BY AgentMovesPass DEF PassMoves
  <1>4. QED
    BY <1>2, <1>3 DEF FrankInv

(* A pass that begins or is over has flagged nothing.                       *)
LEMMA FreshFrank ==
  ASSUME NEW by, NEW c, NEW required
  PROVE  FrankPass(Fresh(c, required), by) /\ FrankPass(Resting(c), by)
  BY NoneFrank DEF Fresh, Resting, FrankPass

LEMMA PassReplacedFrank ==
  ASSUME PassShaped, FrankInv, UNCHANGED provider,
         NEW p \in Threads, NEW new, FrankPass(new, provider),
         pass' = [pass EXCEPT ![p] = new]
  PROVE  FrankInv'
  BY DEF PassShaped, FrankInv

LEMMA FrankStep ==
  ASSUME Shaped, FrankInv, [Next]_vars
  PROVE  FrankInv'
  <1> PassShaped /\ "live" \in Threads /\ "post_call" \in Threads
    BY DEF Shaped, Threads, Kinds
  <1>1. CASE Hear
    BY <1>1, FreshFrank, PassReplacedFrank DEF Hear
  <1>2. CASE FastPath
    <2>1. PICK required : pass' = [pass EXCEPT !["live"].required = required]
      BY <1>2 DEF FastPath
    <2>2. /\ pass'["live"].todo = pass["live"].todo
          /\ pass'["live"].flagged = pass["live"].flagged
          /\ \A p \in Threads \ {"live"} : pass'[p] = pass[p]
      BY <2>1 DEF PassShaped, PassFields
    <2>3. UNCHANGED provider
      BY <1>2 DEF FastPath
    <2>4. QED
      BY <2>2, <2>3 DEF FrankInv, FrankPass
  <1>3. CASE AskAgent
    BY <1>3, FreshFrank, PassReplacedFrank DEF AskAgent, Begin
  <1>4. CASE AgentPath \/ EndAnalysis
    BY <1>4, FreshFrank, PassReplacedFrank DEF AgentPath, EndAnalysis
  <1>5. ASSUME NEW c \in Calls, Summarise(c) PROVE FrankInv'
    BY <1>5, FreshFrank, PassReplacedFrank DEF Summarise, Begin
  <1>6. CASE PublishSummary
    BY <1>6, FreshFrank, PassReplacedFrank DEF PublishSummary
  <1>7. ASSUME NEW p \in Threads, Agent(p) PROVE FrankInv'
    BY <1>7, AgentStepFrank DEF Agent
  <1>8. CASE TakeLock \/ Sift \/ Publish \/ PublishFails \/ UNCHANGED vars
    <2>1. UNCHANGED <<pass, provider>>
      BY <1>8 DEF TakeLock, Sift, Publish, PublishFails, vars, agentVars
    <2>2. QED
      BY <2>1 DEF FrankInv
  <1>a. CASE HearAnew
    BY <1>a, FreshFrank, PassReplacedFrank DEF HearAnew
  <1>9. QED
    BY <1>1, <1>2, <1>3, <1>4, <1>5, <1>6, <1>7, <1>8, <1>a DEF Next

-----------------------------------------------------------------------------
(* The verdicts among the signals of a call and among the findings that are *)
(* being sifted stand.                                                      *)

Stands(risk, turns) == risk.why = "closed" => Verdict(risk, turns)
Sifting == live \in {"fast_sift", "agent_sift"}
VerdictInv ==
  /\ \A c \in Calls : \A s \in ToSet(SignalsOf(c)) : Stands(s, transcript[c])
  /\ Sifting => Listed(found) /\ \A r \in ToSet(found) : Stands(r, Turns)

LEMMA InitVerdict == Init => FrankInv /\ VerdictInv
  <1> SUFFICES ASSUME Init PROVE FrankInv /\ VerdictInv
    OBVIOUS
  <1>1. FrankInv
    <2>1. \A p \in Threads : pass[p] = Resting(AnyCall)
      BY DEF Init
    <2>2. FrankPass(Resting(AnyCall), provider)
      BY FreshFrank
    <2>3. QED
      BY <2>1, <2>2 DEF FrankInv
  <1>2. \A c \in Calls : SignalsOf(c) = <<>>
    BY EmptyListed, ConcatEmpty DEF Init, SignalsOf
  <1>3. VerdictInv
    BY <1>2, EmptyListed DEF Init, VerdictInv, Sifting, ToSet
  <1>4. QED
    BY <1>1, <1>3

LEMMA HearVerdict ==
  ASSUME Shaped, VerdictInv, Hear
  PROVE  VerdictInv'
  <1> DEFINE c == Here'
  <1>1. /\ c \in Calls /\ Listed(transcript[c]) /\ batch = <<>>
        /\ \A d \in Calls \ {c} : transcript'[d] = transcript[d]
        /\ live' \in {"idle", "waiting", "fast"}
        /\ UNCHANGED <<batch, published>>
    BY HearShaped
  <1>2. PICK turn : transcript'[c] = Append(transcript[c], turn)
    BY HearShaped
  <1>3. \A d \in Calls : SignalsOf(d)' = SignalsOf(d)
    BY <1>1 DEF SignalsOf
  <1> HIDE DEF c
  <1>4. ASSUME NEW d \in Calls, NEW s \in ToSet(SignalsOf(d))
        PROVE  Stands(s, transcript'[d])
    <2>1. Stands(s, transcript[d])
      BY DEF VerdictInv
    <2>2. CASE d = c
      BY <2>1, <2>2, <1>1, <1>2, VerdictStays DEF Stands
    <2>3. CASE d # c
      BY <2>1, <2>3, <1>1
    <2>4. QED
      BY <2>2, <2>3
  <1>5. QED
    BY <1>1, <1>3, <1>4 DEF VerdictInv, Sifting

LEMMA HearAnewVerdict ==
  ASSUME Shaped, SignalsInv, VerdictInv, HearAnew
  PROVE  VerdictInv'
  <1>0. PICK c \in Calls : c = Here'
    BY HearAnewShaped
  <1>1. /\ \A d \in Calls \ {c} : transcript'[d] = transcript[d]
        /\ live' \in {"idle", "fast"}
    BY <1>0, HearAnewShaped
  <1>2. SignalsOf(c)' = <<>> /\ \A d \in Calls \ {c} : SignalsOf(d)' = SignalsOf(d)
    BY <1>0, HearAnewSignals
  <1>3. ASSUME NEW d \in Calls, NEW s \in ToSet(SignalsOf(d)')
        PROVE  Stands(s, transcript'[d])
    <2>1. d # c
      BY <1>2, EmptyListed DEF ToSet
    <2>2. QED
      BY <2>1, <1>1, <1>2 DEF VerdictInv
  <1>4. QED
    BY <1>1, <1>3 DEF VerdictInv, Sifting

LEMMA FastPathVerdict ==
  ASSUME Shaped, VerdictInv, FastPath
  PROVE  VerdictInv'
  <1>1. /\ Here' = Here /\ live' = "fast_sift"
        /\ UNCHANGED <<transcript, batch, published>>
    BY FastPathShaped
  <1>2. PICK required : found' = FastRisks(transcript[Here], required, {Here})
    BY FastPathShaped
  <1>3. Listed(transcript[Here])
    BY HereIsACall DEF Shaped
  <1>4. Listed(found')
    BY <1>2, <1>3, FastRisksListed
  <1>5. \A r \in ToSet(found') : Stands(r, transcript[Here])
    BY <1>2, <1>3, ClosedRisks DEF Stands
  <1>6. \A c \in Calls : SignalsOf(c)' = SignalsOf(c)
    BY <1>1 DEF SignalsOf
  <1>7. QED
    BY <1>1, <1>4, <1>5, <1>6 DEF VerdictInv, Turns

LEMMA SiftVerdict ==
  ASSUME Shaped, VerdictInv, Sift
  PROVE  VerdictInv'
  <1> DEFINE risk == Head(found)
  <1>1. /\ Here' = Here /\ live' = live /\ Sifting /\ found # <<>> /\ found' = Tail(found)
        /\ UNCHANGED <<transcript, published>> /\ Here \in Calls
    BY AcceptShaped, HereIsACall DEF Sifting
  <1>2. Listed(found) /\ \A r \in ToSet(found) : Stands(r, transcript[Here])
    BY <1>1 DEF VerdictInv, Turns
  <1>3. Listed(found') /\ ToSet(found') \subseteq ToSet(found) /\ risk \in ToSet(found)
    <2>1. /\ Listed(Tail(found)) /\ ToSet(Tail(found)) \subseteq ToSet(found)
          /\ risk = found[1] /\ Len(found) \in Nat \ {0}
      BY <1>1, <1>2, TailListed
    <2>2. 1 \in DOMAIN found
      BY <2>1, <1>2, ListedFacts
    <2>3. QED
      BY <2>1, <2>2, <1>1 DEF ToSet
  <1>4. batch' = batch \/ batch' = Append(batch, risk)
    BY DEF Sift, Accept, Reject
  <1> HIDE DEF risk
  <1>5. ASSUME NEW c \in Calls
        PROVE  ToSet(SignalsOf(c)') \subseteq
                 ToSet(SignalsOf(c)) \union (IF c = Here THEN {risk} ELSE {})
    <2>1. CASE c # Here \/ batch' = batch
      BY <2>1, <1>1 DEF SignalsOf
    <2>2. CASE c = Here /\ batch' = Append(batch, risk)
      <3>1. /\ ToSet(SignalsOf(c)) = ToSet(published[c]) \union ToSet(batch)
            /\ ToSet(published[c] \o Append(batch, risk)) =
                 ToSet(published[c]) \union ToSet(Append(batch, risk))
            /\ ToSet(Append(batch, risk)) = ToSet(batch) \union {risk}
        BY <2>2, AppendListed, ConcatListed DEF Shaped, SignalsOf
      <3>2. SignalsOf(c)' = published[c] \o Append(batch, risk)
        BY <2>2, <1>1 DEF SignalsOf
      <3>3. QED
        BY <2>2, <3>1, <3>2
    <2>3. QED
      BY <1>4, <2>1, <2>2
  <1>6. \A c \in Calls : \A s \in ToSet(SignalsOf(c)') : Stands(s, transcript[c])
    BY <1>2, <1>3, <1>5 DEF VerdictInv
  <1>7. QED
    BY <1>1, <1>2, <1>3, <1>6 DEF VerdictInv, Turns

LEMMA VerdictUntouched ==
  ASSUME VerdictInv, UNCHANGED transcript, Here' = Here,
         \A c \in Calls : ToSet(SignalsOf(c)') = ToSet(SignalsOf(c)),
         Sifting' => Sifting /\ found' = found
  PROVE  VerdictInv'
  <1>1. Turns' = Turns
    BY DEF Turns
  <1>2. QED
    BY <1>1 DEF VerdictInv

(* What the agent flagged is frank.                                         *)
LEMMA AgentPathVerdict ==
  ASSUME Shaped, FrankInv, VerdictInv, AgentPath
  PROVE  VerdictInv'
  <1>1. Here' = Here /\ UNCHANGED <<transcript, batch, published>>
        /\ found' = pass["live"].flagged
    BY TurnsOfAnalysisShaped DEF AgentPath
  <1>2. FrankRisks(pass["live"].flagged, provider)
    BY DEF FrankInv, FrankPass, Threads, Kinds
  <1>3. Listed(found') /\ \A r \in ToSet(found') : Stands(r, transcript[Here])
    BY <1>1, <1>2 DEF FrankRisks, Frank, Stands
  <1>4. \A c \in Calls : SignalsOf(c)' = SignalsOf(c)
    BY <1>1 DEF SignalsOf
  <1>5. QED
    BY <1>1, <1>3, <1>4 DEF VerdictInv, Turns

LEMMA VerdictStep ==
  ASSUME Shaped, SignalsInv, FrankInv, VerdictInv, [Next]_vars
  PROVE  VerdictInv'
  <1>1. CASE Hear
    BY <1>1, HearVerdict
  <1>2. CASE FastPath
    BY <1>2, FastPathVerdict
  <1>3. CASE Sift
    BY <1>3, SiftVerdict
  <1>4. CASE AgentPath
    BY <1>4, AgentPathVerdict
  <1>5. CASE TakeLock \/ AskAgent \/ EndAnalysis \/ PublishFails
    <2>1. Here' = Here /\ UNCHANGED <<transcript, batch, published, found>>
      BY <1>5, TurnsOfAnalysisShaped DEF TakeLock, AskAgent, EndAnalysis, PublishFails
    <2>2. ~Sifting'
      BY <1>5 DEF TakeLock, Proceed, AskAgent, EndAnalysis, PublishFails, Sifting
    <2>3. \A c \in Calls : SignalsOf(c)' = SignalsOf(c)
      BY <2>1 DEF SignalsOf
    <2>4. QED
      BY <2>1, <2>2, <2>3, VerdictUntouched
  <1>6. CASE Publish
    <2>1. Here' = Here /\ UNCHANGED transcript /\ Here \in Calls
      BY <1>6, TurnsOfAnalysisShaped, HereIsACall
    <2>2. /\ published' = [published EXCEPT ![Here] = published[Here] \o batch]
          /\ batch' = <<>> /\ live' = "idle"
      BY <1>6 DEF Publish
    <2>3. ASSUME NEW c \in Calls PROVE SignalsOf(c)' = SignalsOf(c)
      <3>1. CASE c = Here
        <4>1. published'[c] = SignalsOf(c)
          BY <3>1, <2>2 DEF Shaped, SignalsOf
        <4>2. SignalsOf(c)' = published'[c] \o <<>>
          BY <3>1, <2>1, <2>2 DEF SignalsOf
        <4>3. QED
          BY <4>1, <4>2, SignalsListed, ConcatEmpty
      <3>2. CASE c # Here
        BY <3>2, <2>1, <2>2 DEF Shaped, SignalsOf
      <3>3. QED
        BY <3>1, <3>2
    <2>4. ~Sifting'
      BY <2>2 DEF Sifting
    <2>5. QED
      BY <2>1, <2>3, <2>4, VerdictUntouched
  <1>7. CASE \/ \E c \in Calls : Summarise(c)
             \/ PublishSummary
             \/ \E p \in Threads : Agent(p)
             \/ UNCHANGED vars
    <2>1. UNCHANGED <<transcript, batch, published, found, live>> /\ Here' = Here
      <3>1. CASE Aside
        BY <3>1 DEF Aside, liveVars
      <3>2. CASE UNCHANGED vars
        BY <3>2 DEF vars, agentVars, callVars, liveVars, Here
      <3>3. QED
        BY <1>7, <3>1, <3>2, AsideFacts
    <2>2. \A c \in Calls : SignalsOf(c)' = SignalsOf(c)
      BY <2>1 DEF SignalsOf
    <2>3. QED
      BY <2>1, <2>2, VerdictUntouched DEF Sifting
  <1>a. CASE HearAnew
    BY <1>a, HearAnewVerdict
  <1>8. QED
    BY <1>1, <1>2, <1>3, <1>4, <1>5, <1>6, <1>7, <1>a DEF Next

(* live.py:_disclosure_window_closed: a disclosure that the fast path has   *)
(* reported as missing is never given later in the call, in any turns.      *)
THEOREM ClosedVerdictsStand == Spec => []FastVerdictStands
  <1>1. Init => Shaped /\ SignalsInv /\ FrankInv /\ VerdictInv
    BY InitShaped, InitSignals, InitVerdict
  <1>2. Shaped /\ SignalsInv /\ FrankInv /\ VerdictInv /\ [Next]_vars
          => (SignalsInv /\ FrankInv /\ VerdictInv)'
    BY SignalsStep, FrankStep, VerdictStep
  <1>3. Shaped /\ VerdictInv => FastVerdictStands
    <2> SUFFICES ASSUME Shaped, VerdictInv, NEW c \in Calls, NEW s \in ToSet(published[c]),
                        s.why = "closed"
                 PROVE  NeverGiven(s, c)
      BY DEF FastVerdictStands
    <2>1. s \in ToSet(SignalsOf(c))
      BY ConcatListed, EmptyListed DEF Shaped, SignalsOf
    <2>2. Verdict(s, transcript[c])
      BY <2>1 DEF VerdictInv, Stands
    <2>3. QED
      BY <2>2, VerdictNeverGiven
  <1>4. Spec => []Shaped
    BY SignalsHold, PTL
  <1>5. QED
    BY <1>1, <1>2, <1>3, <1>4, PTL DEF Spec

-----------------------------------------------------------------------------
(* The offline provider knows every policy it names, and so do the marks.   *)

KnownInv ==
  provider = "offline" =>
    /\ \A c \in Calls : reported[c] \subseteq PolicyIds
    /\ Sifting => Listed(found) /\ \A r \in ToSet(found) : Known(r)

LEMMA FastRisksKnown ==
  ASSUME NEW turns, NEW required, NEW about, NEW r \in ToSet(FastRisks(turns, required, about))
  PROVE  Known(r)
  <1> DEFINE missing == MissingDisclosures(turns, required)
             W == {k \in DOMAIN missing : WindowClosed(turns, missing[k].policy)}
             closed == Chosen(missing, W)
             broken == ComplianceFindings(turns, WindowStart(turns))
             phrases == FastFlags(broken, 65, 97, "phrase", about)
             omissions == FastFlags(closed, 60, 92, "closed", about)
             threats == EscalationFlag(turns, WindowStart(turns), about)
  <1>1. FastRisks(turns, required, about) = phrases \o omissions \o threats
    BY DEF FastRisks
  <1>2. /\ Listed(broken) /\ \A k \in DOMAIN broken : broken[k].policy \in PolicyIds
        /\ Listed(missing) /\ \A k \in DOMAIN missing : missing[k].policy \in PolicyIds
    BY FindingsListed
  <1>3. W \in SUBSET DOMAIN missing
    OBVIOUS
  <1> HIDE DEF missing, W, broken
  <1>4. Listed(closed) /\ \A k \in DOMAIN closed : closed[k].policy \in PolicyIds
    BY <1>2, <1>3, ChosenFrom
  <1> HIDE DEF closed
  <1>5. ASSUME NEW findings, Listed(findings),
               \A k \in DOMAIN findings : findings[k].policy \in PolicyIds,
               NEW base, NEW top, NEW why
        PROVE  /\ Listed(FastFlags(findings, base, top, why, about))
               /\ \A f \in ToSet(FastFlags(findings, base, top, why, about)) : Known(f)
    <2>1. Listed(FastFlags(findings, base, top, why, about))
      BY <1>5, FastFlagsFacts
    <2>2. /\ DOMAIN FastFlags(findings, base, top, why, about) = DOMAIN findings
          /\ \A k \in DOMAIN findings :
               FastFlags(findings, base, top, why, about)[k].policy = findings[k].policy
      BY FastFlagsOrigin
    <2>3. QED
      BY <1>5, <2>1, <2>2 DEF ToSet, Known
  <1>6. /\ Listed(phrases) /\ \A f \in ToSet(phrases) : Known(f)
        /\ Listed(omissions) /\ \A f \in ToSet(omissions) : Known(f)
    BY <1>2, <1>4, <1>5
  <1>7. Listed(threats) /\ \A f \in ToSet(threats) : Known(f)
    <2>1. /\ Listed(threats)
          /\ threats = <<>> \/ \E flag : threats = <<flag>> /\ flag.type = "escalation_risk"
      BY EscalationFlagForm
    <2> HIDE DEF threats
    <2>2. QED
      BY <2>1 DEF ToSet, Known, Violation
  <1> HIDE DEF phrases, omissions, threats
  <1>8. /\ Listed(phrases \o omissions)
        /\ ToSet(phrases \o omissions) = ToSet(phrases) \union ToSet(omissions)
    BY <1>6, ConcatListed
  <1>9. ToSet(phrases \o omissions \o threats) = ToSet(phrases \o omissions) \union ToSet(threats)
    BY <1>7, <1>8, ConcatListed
  <1>10. QED
    BY <1>1, <1>6, <1>7, <1>8, <1>9

LEMMA KnownStep ==
  ASSUME Shaped, FrankInv, KnownInv, [Next]_vars
  PROVE  KnownInv' /\ UNCHANGED provider
  <1>1. CASE Hear
    BY <1>1 DEF Hear, Proceed, KnownInv, Sifting
  <1>2. CASE FastPath
    <2>1. PICK required : found' = FastRisks(transcript[Here], required, {Here})
      BY <1>2, FastPathShaped
    <2>2. Listed(found') /\ \A r \in ToSet(found') : Known(r)
      BY <2>1, FastRisksListed, FastRisksKnown
    <2>3. UNCHANGED <<provider, reported>>
      BY <1>2 DEF FastPath
    <2>4. QED
      BY <2>2, <2>3 DEF KnownInv
  <1>3. CASE Sift
    <2> DEFINE risk == Head(found)
    <2>1. /\ UNCHANGED <<provider, live>> /\ Sifting /\ found # <<>> /\ found' = Tail(found)
          /\ Accept(risk) \/ Reject(risk)
      BY <1>3 DEF Sift, Sifting
    <2>2. CASE provider = "offline"
      <3>1. Listed(found) /\ \A r \in ToSet(found) : Known(r)
        BY <2>1, <2>2 DEF KnownInv
      <3>2. /\ Listed(found') /\ ToSet(found') \subseteq ToSet(found)
            /\ risk = found[1] /\ 1 \in DOMAIN found
        <4>1. /\ Listed(Tail(found)) /\ ToSet(Tail(found)) \subseteq ToSet(found)
              /\ risk = found[1] /\ Len(found) \in Nat \ {0}
          BY <2>1, <3>1, TailListed
        <4>2. 1 \in DOMAIN found
          BY <4>1, <3>1, ListedFacts
        <4>3. QED
          BY <4>1, <4>2, <2>1
      <3>3. Known(risk)
        BY <3>1, <3>2 DEF ToSet
      <3> HIDE DEF risk
      <3>4. \A c \in Calls : reported'[c] \subseteq PolicyIds
        BY <2>1, <2>2, <3>3 DEF KnownInv, Accept, Reject, Known, Violation, Shaped
      <3>5. QED
        BY <2>1, <3>1, <3>2, <3>4 DEF KnownInv
    <2>3. QED
      BY <2>1, <2>2 DEF KnownInv
  <1>4. CASE AgentPath
    <2>1. UNCHANGED <<provider, reported>> /\ found' = pass["live"].flagged
      BY <1>4 DEF AgentPath, callVars
    <2>2. FrankRisks(pass["live"].flagged, provider)
      BY DEF FrankInv, FrankPass, Threads, Kinds
    <2>3. QED
      BY <2>1, <2>2 DEF KnownInv, FrankRisks, Frank
  <1>5. CASE TakeLock \/ AskAgent \/ EndAnalysis \/ Publish \/ PublishFails
    <2>1. UNCHANGED <<provider, reported>> /\ ~Sifting'
      BY <1>5
      DEF TakeLock, Proceed, AskAgent, EndAnalysis, Publish, PublishFails, callVars, agentVars,
          Sifting
    <2>2. QED
      BY <2>1 DEF KnownInv
  <1>6. CASE \/ \E c \in Calls : Summarise(c)
             \/ PublishSummary
             \/ \E p \in Threads : Agent(p)
             \/ UNCHANGED vars
    <2>1. UNCHANGED <<provider, reported, live, found>>
      <3>1. CASE UNCHANGED vars
        BY <3>1 DEF vars, agentVars, callVars, liveVars
      <3>2. ASSUME NEW c \in Calls, Summarise(c) PROVE UNCHANGED provider
        BY <3>2 DEF Summarise
      <3>3. CASE PublishSummary
        BY <3>3 DEF PublishSummary, liveVars, callVars
      <3>4. ASSUME NEW p \in Threads, Agent(p) PROVE UNCHANGED provider
        BY <3>4, AgentMovesPass DEF Agent, Shaped
      <3>5. QED
        BY <1>6, <3>1, <3>2, <3>3, <3>4, AsideFacts DEF Aside, liveVars
    <2>2. QED
      BY <2>1 DEF KnownInv, Sifting
  <1>a. CASE HearAnew
    <2>1. \A c \in Calls : reported'[c] = reported[c] \/ reported'[c] = {}
      BY <1>a, HearAnewShaped
    <2>2. ~Sifting' /\ UNCHANGED provider
      BY <1>a, HearAnewShaped DEF Sifting, HearAnew
    <2>3. QED
      BY <2>1, <2>2 DEF KnownInv
  <1>7. QED
    BY <1>1, <1>2, <1>3, <1>4, <1>5, <1>6, <1>a DEF Next

-----------------------------------------------------------------------------
(* While a call is summed up its lock is held: it is not analysed, what is  *)
(* marked for it stays, and the summary covers it.                          *)

Summed == pass["post_call"].call
LockInv ==
  pass["post_call"].pc # "idle" =>
    live \in {"idle", "waiting", "failed"} \/ Here # Summed

LEMMA InitLock == Init => KnownInv /\ LockInv
  <1> SUFFICES ASSUME Init PROVE KnownInv /\ LockInv
    OBVIOUS
  <1>1. KnownInv
    BY DEF Init, KnownInv, Sifting
  <1>2. Resting(AnyCall).pc = "idle"
    BY DEF Resting, Fresh
  <1>3. pass["post_call"].pc = "idle"
    BY <1>2 DEF Init, Threads, Kinds
  <1>4. QED
    BY <1>1, <1>3 DEF LockInv

LEMMA MarksStay ==
  ASSUME Shaped, LockInv, [Next]_vars, pass["post_call"].pc # "idle"
  PROVE  reported'[Summed] = reported[Summed]
  <1> Summed \in Calls
    BY DEF Shaped, PassShaped, Summed, Threads, Kinds
  <1>1. CASE Sift
    <2> DEFINE risk == Head(found)
    <2>1. Accept(risk) \/ Reject(risk)
      BY <1>1 DEF Sift
    <2>2. live \in {"fast_sift", "agent_sift"}
      BY <1>1 DEF Sift
    <2> HIDE DEF risk
    <2>3. Here # Summed
      BY <2>2 DEF LockInv
    <2>4. QED
      BY <2>1, <2>3 DEF Accept, Reject, Shaped
  <1>2. CASE Hear \/ FastPath
    BY <1>2, HearShaped, FastPathShaped
  <1>3. CASE HearAnew
    <2>1. Here' # Summed
      BY <1>3, HearAnewShaped DEF Summing, In, Summed
    <2>2. QED
      BY <1>3, <2>1, HearAnewShaped
  <1>4. CASE TakeLock \/ AskAgent \/ AgentPath \/ EndAnalysis \/ Publish \/ PublishFails
    BY <1>4, TurnsOfAnalysisShaped
  <1>5. CASE \/ \E c \in Calls : Summarise(c)
             \/ PublishSummary
             \/ \E p \in Threads : Agent(p)
    BY <1>5, AsideFacts DEF Aside
  <1>6. CASE UNCHANGED vars
    BY <1>6 DEF vars, agentVars, callVars
  <1>7. QED
    BY <1>1, <1>2, <1>3, <1>4, <1>5, <1>6 DEF Next

(* A pass that is not idle goes on for its call.                            *)
LEMMA AgentKeepsLock ==
  ASSUME Shaped, LockInv, NEW p \in Threads, Agent(p)
  PROVE  LockInv'
  <1> "post_call" \in Threads
    BY DEF Threads, Kinds
  <1>1. PassMoves(p) /\ UNCHANGED liveVars
    BY AgentMovesPass DEF Agent, Shaped
  <1>2. UNCHANGED live /\ Here' = Here
    BY <1>1 DEF PassMoves, liveVars, Here, Threads, Kinds
  <1>3. pass'["post_call"].pc # "idle" => pass["post_call"].pc # "idle"
    <2>1. CASE p = "post_call"
      BY <2>1 DEF Agent, AgentStep, SetContext, Exhausted, OutOfTime, Ask, CompleteOffline,
                  CompleteAzure, PostFails, PostRefused, InvokeTools, In
    <2>2. CASE p # "post_call"
      BY <2>2, <1>1 DEF PassMoves
    <2>3. QED
      BY <2>1, <2>2
  <1>4. Summed' = Summed
    BY <1>1 DEF PassMoves, Summed
  <1>5. QED
    BY <1>2, <1>3, <1>4 DEF LockInv

(* The other thread's pass does not change when the live thread steps.      *)
LiveStep ==
  Hear \/ HearAnew \/ TakeLock \/ FastPath \/ Sift \/ AskAgent \/ AgentPath
    \/ EndAnalysis \/ Publish \/ PublishFails
LEMMA LiveStepKeepsPass ==
  ASSUME PassShaped, LiveStep
  PROVE  pass'["post_call"] = pass["post_call"] /\ Summed' = Summed
  <1> "post_call" \in Threads /\ "live" # "post_call"
    BY DEF Threads, Kinds
  <1>1. UNCHANGED pass \/ \E new : pass' = [pass EXCEPT !["live"] = new]
    <2>1. CASE Hear \/ HearAnew \/ AskAgent \/ AgentPath \/ EndAnalysis
      BY <2>1 DEF Hear, HearAnew, AskAgent, Begin, AgentPath, EndAnalysis
    <2>2. CASE FastPath
      BY <2>2 DEF FastPath
    <2>3. CASE TakeLock \/ Sift \/ Publish \/ PublishFails
      BY <2>3 DEF TakeLock, Sift, Publish, PublishFails, agentVars
    <2>4. QED
      BY <2>1, <2>2, <2>3 DEF LiveStep
  <1>2. pass'["post_call"] = pass["post_call"]
    BY <1>1 DEF PassShaped
  <1>3. QED
    BY <1>2 DEF Summed

LEMMA LockStep ==
  ASSUME Shaped, LockInv, [Next]_vars
  PROVE  LockInv'
  <1> "live" \in Threads /\ "post_call" \in Threads /\ "live" # "post_call" /\ PassShaped
    BY DEF Threads, Kinds, Shaped
  <1>1. CASE Hear
    <2>1. live' = "waiting" \/ ~Summing(Here')
          \/ live' = "idle"
      BY <1>1, HearShaped
    <2>2. pass'["post_call"] = pass["post_call"] /\ Summed' = Summed
      BY <1>1, LiveStepKeepsPass DEF LiveStep
    <2>3. QED
      BY <2>1, <2>2 DEF LockInv, Summing, In, Summed
  <1>2. CASE HearAnew \/ TakeLock
    <2>1. ~Summing(Here')
      <3>1. CASE HearAnew
        BY <3>1, HearAnewShaped
      <3>2. CASE TakeLock
        BY <3>2, TurnsOfAnalysisShaped DEF TakeLock
      <3>3. QED
        BY <1>2, <3>1, <3>2
    <2>2. pass'["post_call"] = pass["post_call"] /\ Summed' = Summed
      BY <1>2, LiveStepKeepsPass DEF LiveStep
    <2>3. QED
      BY <2>1, <2>2 DEF LockInv, Summing, In, Summed
  <1>3. CASE FastPath \/ Sift \/ AskAgent \/ AgentPath \/ EndAnalysis \/ Publish \/ PublishFails
    <2>1. Here' = Here
      BY <1>3, FastPathShaped, AcceptShaped, TurnsOfAnalysisShaped
    <2>2. live \notin {"idle", "waiting", "failed"}
      BY <1>3 DEF FastPath, Sift, AskAgent, AgentPath, EndAnalysis, Publish, PublishFails
    <2>3. pass'["post_call"] = pass["post_call"] /\ Summed' = Summed
      BY <1>3, LiveStepKeepsPass DEF LiveStep
    <2>4. QED
      BY <2>1, <2>2, <2>3 DEF LockInv
  <1>4. ASSUME NEW c \in Calls, Summarise(c) PROVE LockInv'
    <2>1. /\ Free(c) /\ UNCHANGED live
          /\ pass' = [pass EXCEPT !["post_call"] = Fresh(c, given[c])]
      BY <1>4 DEF Summarise, Begin, liveVars
    <2>2. Summed' = c /\ Here' = Here
      BY <2>1, FreshFacts DEF PassShaped, Here, Summed
    <2>3. QED
      BY <2>1, <2>2 DEF LockInv, Free
  <1>5. CASE PublishSummary
    <2>1. pass' = [pass EXCEPT !["post_call"] = Resting(Summed)]
      BY <1>5 DEF PublishSummary, Summed
    <2>2. pass'["post_call"].pc = "idle"
      BY <2>1 DEF PassShaped, Resting, Fresh
    <2>3. QED
      BY <2>2 DEF LockInv
  <1>6. ASSUME NEW p \in Threads, Agent(p) PROVE LockInv'
    BY <1>6, AgentKeepsLock
  <1>7. CASE UNCHANGED vars
    BY <1>7 DEF vars, agentVars, liveVars, LockInv, Here, Summed
  <1>8. QED
    BY <1>1, <1>2, <1>3, <1>4, <1>5, <1>6, <1>7 DEF Next

Covers(content, c) ==
  content.kind = "summary" /\ content.about = {c} => reported[c] \subseteq content.violations
SummaryInv ==
  provider = "offline" =>
    /\ pass["post_call"].pc # "idle" =>
         Covers(pass["post_call"].content, pass["post_call"].call)
    /\ \A s \in summaries : s.about = {s.call} => s.told \subseteq s.violations

LEMMA FinishContent ==
  ASSUME PassShaped, NEW p \in Threads, NEW content, Finish(p, content)
  PROVE  pass'[p].content = pass[p].content \/ pass'[p].content = content
  <1>1. CASE ~Valid(p, content) /\ pass[p].repairs < MaxRepairs
    BY <1>1 DEF Finish, PassShaped, PassFields
  <1>2. CASE ~(~Valid(p, content) /\ pass[p].repairs < MaxRepairs)
    <2>1. PICK end : pass' = [pass EXCEPT ![p].pc = "stopped", ![p].content = content,
                                          ![p].end = end]
      BY <1>2 DEF Finish
    <2>2. QED
      BY <2>1 DEF PassShaped, PassFields
  <1>3. QED
    BY <1>1, <1>2

(* The summary of the offline provider is about the call of its context and *)
(* names what is marked for that one.                                       *)
LEMMA ClosingFacts ==
  ASSUME NEW turns, NEW required, NEW already, NEW disclosed, NEW c
  PROVE  /\ Closing("post_call", turns, required, already, disclosed, {c}).about = {c}
         /\ \A v \in already :
              v \in Closing("post_call", turns, required, already, disclosed, {c}).violations
  BY DEF Closing, SummaryJson, Violations

LEMMA AgentContent ==
  ASSUME PassShaped, provider = "offline", AgentStep("post_call")
  PROVE  LET new == pass'["post_call"].content
         IN \/ new = pass["post_call"].content
            \/ \E c : new.about = {c} /\ reported[c] \subseteq new.violations
  <1> DEFINE p == "post_call"
             new == pass'[p].content
             old == pass[p].content
  <1>0. p \in Threads
    BY DEF Threads, Kinds
  <1>1. CASE SetContext(p) \/ Ask(p)
    <2>1. CASE SetContext(p)
      BY <1>0, <2>1 DEF SetContext, PassShaped, PassFields
    <2>2. CASE Ask(p)
      BY <1>0, <2>2 DEF Ask, PassShaped, PassFields
    <2>3. QED
      BY <1>1, <2>1, <2>2
  <1>2. CASE Exhausted(p) \/ OutOfTime(p)
    BY <1>0, <1>2 DEF Exhausted, OutOfTime, Stop, PassShaped, PassFields
  <1>3. CASE CompleteOffline(p)
    <2>1. PICK turns \in {transcript[context.call]} :
            \/ Gather(p, turns)
            \/ IF flaggedYet THEN Conclude(p, context.call, turns)
               ELSE RaiseFlags(p, context.call, turns)
      BY <1>3 DEF CompleteOffline
    <2>2. ASSUME NEW calls, UseTools(p, calls) PROVE new = old
      BY <1>0, <2>2 DEF UseTools, PassShaped, PassFields
    <2>3. ASSUME NEW required, NEW disclosed, NEW content,
                 content = Closing(p, turns, required, reported[context.call], disclosed,
                                   {context.call}),
                 Finish(p, content)
          PROVE  new = old \/ \E c : new.about = {c} /\ reported[c] \subseteq new.violations
      <3>1. content.about = {context.call} /\ reported[context.call] \subseteq content.violations
        <4> DEFINE json == Closing("post_call", turns, required, reported[context.call],
                                   disclosed, {context.call})
        <4>1. json.about = {context.call} /\ \A v \in reported[context.call] : v \in json.violations
          BY ClosingFacts
        <4>2. content = json
          BY <2>3
        <4>3. QED
          BY <4>1, <4>2
      <3>2. new = old \/ new = content
        BY <1>0, <2>3, FinishContent
      <3>3. QED
        BY <3>1, <3>2
    <2>4. CASE Gather(p, turns)
      BY <2>2, <2>4 DEF Gather
    <2>5. CASE Conclude(p, context.call, turns)
      BY <2>3, <2>5 DEF Conclude
    <2>6. CASE RaiseFlags(p, context.call, turns)
      <3>1. PICK calls, content :
              /\ content = Closing(p, turns, context.required, reported[context.call],
                                   given'[context.call], {context.call})
              /\ Complete(p, calls, content)
        BY <2>6 DEF RaiseFlags
      <3>2. QED
        BY <2>2, <2>3, <3>1 DEF Complete
    <2>7. QED
      BY <2>1, <2>4, <2>5, <2>6
  <1>4. CASE CompleteAzure(p) \/ PostFails(p) \/ PostRefused(p)
    BY <1>4 DEF CompleteAzure, PostFails, PostRefused
  <1>5. CASE InvokeTools(p)
    <2>1. PICK more : pass' = [pass EXCEPT ![p].pc = "loop", ![p].todo = <<>>,
                                           ![p].flagged = @ \o more]
      BY <1>5 DEF InvokeTools
    <2>2. QED
      BY <1>0, <2>1 DEF PassShaped, PassFields
  <1>6. QED
    BY <1>1, <1>2, <1>3, <1>4, <1>5 DEF AgentStep

LEMMA InitSummary == Init => SummaryInv
  <1> SUFFICES ASSUME Init PROVE SummaryInv
    OBVIOUS
  <1>1. Resting(AnyCall).pc = "idle"
    BY DEF Resting, Fresh
  <1>2. pass["post_call"].pc = "idle" /\ summaries = {}
    BY <1>1 DEF Init, Threads, Kinds
  <1>3. QED
    BY <1>2 DEF SummaryInv

LEMMA AgentSummary ==
  ASSUME Shaped, SummaryInv, NEW p \in Threads, Agent(p)
  PROVE  SummaryInv'
  <1> "post_call" \in Threads
    BY DEF Threads, Kinds
  <1>1. PassMoves(p) /\ UNCHANGED <<provider, reported, summaries>>
    BY AgentMovesPass DEF Agent, Shaped
  <1>2. CASE p = "post_call" /\ provider = "offline"
    <2> DEFINE c == pass["post_call"].call
               old == pass["post_call"].content
               new == pass'["post_call"].content
    <2>1. pass["post_call"].pc # "idle" /\ Covers(old, c)
      BY <1>2 DEF Agent, AgentStep, SetContext, Exhausted, OutOfTime, Ask, CompleteOffline,
                  CompleteAzure, PostFails, PostRefused, InvokeTools, In, SummaryInv
    <2>2. new = old \/ \E d : new.about = {d} /\ reported[d] \subseteq new.violations
      BY <1>2, AgentContent DEF Agent, Shaped
    <2>3. pass'["post_call"].call = c
      BY <1>1 DEF PassMoves
    <2> HIDE DEF c, old, new
    <2>4. new.about = {c} /\ new.kind = "summary" => reported[c] \subseteq new.violations
      <3>1. \A d : {d} = {c} => d = c
        OBVIOUS
      <3>2. QED
        BY <2>1, <2>2, <3>1 DEF Covers
    <2>5. QED
      BY <1>1, <2>3, <2>4 DEF SummaryInv, Covers, new
  <1>3. CASE p # "post_call"
    <2>1. pass'["post_call"] = pass["post_call"]
      BY <1>1, <1>3 DEF PassMoves
    <2>2. QED
      BY <1>1, <2>1 DEF SummaryInv, Covers
  <1>4. QED
    BY <1>1, <1>2, <1>3 DEF SummaryInv

(* What is built from a content says no less of the policies it knows.      *)
LEMMA BuildFacts ==
  ASSUME NEW content, NEW c
  PROVE  /\ Build(content, c).call = c /\ Build(content, c).about = content.about
         /\ Build(content, c).violations = content.violations \intersect PolicyIds
         /\ Build(content, c).told = reported[c]
  BY DEF Build

LEMMA PublishSummaryCovers ==
  ASSUME Shaped, KnownInv, SummaryInv, PublishSummary
  PROVE  SummaryInv'
  <1> DEFINE c == pass["post_call"].call
             content == pass["post_call"].content
             made == Build(content, c)
  <1>1. /\ UNCHANGED <<provider, reported>> /\ pass["post_call"].pc = "stopped"
        /\ pass' = [pass EXCEPT !["post_call"] = Resting(c)]
        /\ \/ summaries' = summaries
           \/ content.kind = "summary" /\ summaries' = summaries \union {made}
    BY DEF PublishSummary, callVars, In
  <1>2. pass'["post_call"].pc = "idle"
    BY <1>1 DEF Shaped, PassShaped, Threads, Kinds, Resting, Fresh
  <1>3. c \in Calls
    BY DEF Shaped, PassShaped, Threads, Kinds
  <1>4. ASSUME provider = "offline", content.kind = "summary", made.about = {made.call}
        PROVE  made.told \subseteq made.violations
    <2>1. made.call = c /\ made.about = content.about /\ made.told = reported[c]
          /\ made.violations = content.violations \intersect PolicyIds
      BY BuildFacts
    <2>2. Covers(content, c)
      BY <1>1, <1>4 DEF SummaryInv
    <2>3. reported[c] \subseteq PolicyIds
      BY <1>3, <1>4 DEF KnownInv
    <2> HIDE DEF made, content, c
    <2>4. QED
      BY <1>4, <2>1, <2>2, <2>3 DEF Covers
  <1> HIDE DEF made, content, c
  <1>5. QED
    BY <1>1, <1>2, <1>4 DEF SummaryInv

LEMMA SummaryStep ==
  ASSUME Shaped, KnownInv, LockInv, SummaryInv, [Next]_vars
  PROVE  SummaryInv'
  <1> "live" \in Threads /\ "post_call" \in Threads /\ "live" # "post_call"
    BY DEF Threads, Kinds
  <1>1. pass["post_call"].pc # "idle" => reported'[Summed] = reported[Summed]
    BY MarksStay
  <1>2. ASSUME pass'["post_call"] = pass["post_call"], UNCHANGED <<provider, summaries>>
        PROVE  SummaryInv'
    BY <1>1, <1>2 DEF SummaryInv, Covers, Summed
  <1>3. CASE LiveStep
    <2>1. UNCHANGED <<provider, summaries>>
      BY <1>3 DEF LiveStep, Hear, HearAnew, TakeLock, FastPath, Sift, AskAgent, AgentPath,
                  EndAnalysis, Publish, PublishFails, agentVars
    <2>2. pass'["post_call"] = pass["post_call"]
      BY <1>3, LiveStepKeepsPass DEF Shaped
    <2>3. QED
      BY <1>2, <2>1, <2>2
  <1>4. CASE UNCHANGED vars
    BY <1>2, <1>4 DEF vars, agentVars
  <1>5. ASSUME NEW c \in Calls, Summarise(c) PROVE SummaryInv'
    <2>1. /\ pass' = [pass EXCEPT !["post_call"] = Fresh(c, given[c])]
          /\ UNCHANGED <<provider, summaries>>
      BY <1>5 DEF Summarise, Begin
    <2>2. pass'["post_call"].content.kind = "none"
      BY <2>1 DEF Shaped, PassShaped, Fresh, Unset
    <2>3. QED
      BY <2>1, <2>2 DEF SummaryInv, Covers
  <1>6. CASE PublishSummary
    BY <1>6, PublishSummaryCovers
  <1>7. ASSUME NEW p \in Threads, Agent(p) PROVE SummaryInv'
    BY <1>7, AgentSummary
  <1>8. QED
    BY <1>3, <1>4, <1>5, <1>6, <1>7 DEF Next, LiveStep

(* postcall.py:_build, llm/offline.py:_summary_json: a summary that was     *)
(* made from the call it is published for names every violation that had    *)
(* been reported live when it was published, whenever the call is summed up *)
(* and whatever is said meanwhile.                                          *)
THEOREM SummaryNamesWhatWasReported == Spec => []SummaryCoversLive
  <1> DEFINE Inv == Shaped /\ FrankInv /\ KnownInv /\ LockInv /\ SummaryInv
  <1>1. Init => Inv
    BY InitShaped, InitVerdict, InitLock, InitSummary
  <1>2. Inv /\ [Next]_vars => FrankInv' /\ KnownInv' /\ LockInv' /\ SummaryInv'
    BY FrankStep, KnownStep, LockStep, SummaryStep
  <1>3. Inv => SummaryCoversLive
    BY DEF SummaryInv, SummaryCoversLive
  <1>4. Spec => []Shaped
    BY SignalsHold, PTL
  <1>5. QED
    BY <1>1, <1>2, <1>3, <1>4, PTL DEF Spec

-----------------------------------------------------------------------------
(* What is reported cites turns of its call, and names a policy that the    *)
(* catalogue resolves if it is a violation.                                 *)

Named == PolicyIds \union DOMAIN Spelled
Cited(risk, turns) ==
  /\ risk.type \in SignalTypes /\ Grounded(risk.evidence, turns)
  /\ risk.type = Violation => risk.policy \in Named
AllCited(risks, turns) == \A r \in ToSet(risks) : Cited(r, turns)

CitedInv ==
  /\ \A c \in Calls : AllCited(SignalsOf(c), transcript[c])
  /\ Sifting => Listed(found) /\ AllCited(found, Turns)
  /\ AllCited(pass["live"].flagged, Turns)

LEMMA NoneCited ==
  ASSUME NEW turns
  PROVE  AllCited(<<>>, turns)
  BY EmptyListed DEF AllCited, ToSet

LEMMA CitedStays ==
  ASSUME NEW risk, NEW turns, Listed(turns), Cited(risk, turns), NEW turn
  PROVE  Cited(risk, Append(turns, turn))
  <1>1. Len(turns) \in Nat /\ Len(Append(turns, turn)) = Len(turns) + 1
    BY AppendListed, ListedFacts
  <1>2. 1..Len(turns) \subseteq 1..(Len(turns) + 1)
    BY <1>1
  <1>3. QED
    BY <1>1, <1>2 DEF Cited, Grounded

LEMMA FastFlagsCited ==
  ASSUME NEW turns, NEW findings, Listed(findings),
         \A k \in DOMAIN findings :
           findings[k].policy \in PolicyIds /\ findings[k].turn \in 1..Len(turns),
         NEW base, NEW top, NEW why, NEW about
  PROVE  AllCited(FastFlags(findings, base, top, why, about), turns)
  <1> DEFINE flags == FastFlags(findings, base, top, why, about)
  <1>1. /\ DOMAIN flags = DOMAIN findings
        /\ \A k \in DOMAIN findings : /\ flags[k].type = Violation
                                      /\ flags[k].policy = findings[k].policy
                                      /\ flags[k].evidence = <<findings[k].turn>>
    BY DEF FastFlags, Risk, Violation
  <1> HIDE DEF flags
  <1>2. ASSUME NEW k \in DOMAIN findings PROVE Cited(flags[k], turns)
    <2>1. Grounded(<<findings[k].turn>>, turns)
      BY OneGrounded
    <2>2. Violation \in SignalTypes
      BY DEF Violation, SignalTypes
    <2>3. QED
      BY <1>1, <2>1, <2>2 DEF Cited, Named
  <1>3. QED
    BY <1>1, <1>2 DEF flags, AllCited, ToSet

LEMMA FastRisksCited ==
  ASSUME NEW turns, Listed(turns), TurnsTyped(turns), NEW required, NEW about
  PROVE  AllCited(FastRisks(turns, required, about), turns)
  <1> DEFINE missing == MissingDisclosures(turns, required)
             W == {k \in DOMAIN missing : WindowClosed(turns, missing[k].policy)}
             closed == Chosen(missing, W)
             from == WindowStart(turns)
             broken == ComplianceFindings(turns, from)
             phrases == FastFlags(broken, 65, 97, "phrase", about)
             omissions == FastFlags(closed, 60, 92, "closed", about)
             threats == EscalationFlag(turns, from, about)
  <1>1. FastRisks(turns, required, about) = phrases \o omissions \o threats
    BY DEF FastRisks
  <1>2. from \in Nat \ {0}
    <2>1. Len(turns) \in Nat /\ WindowSize \in Nat
      BY ListedFacts, LiveAssumption DEF LiveAssumption
    <2>2. QED
      BY <2>1, GreatestOfTwo DEF WindowStart
  <1> HIDE DEF from
  <1>3. /\ Listed(broken)
        /\ \A k \in DOMAIN broken :
             broken[k].policy \in PolicyIds /\ broken[k].turn \in 1..Len(turns)
    BY <1>2, FindingsListed, ComplianceTurns
  <1>4. /\ Listed(missing)
        /\ \A k \in DOMAIN missing :
             missing[k].policy \in PolicyIds /\ missing[k].turn \in 1..Len(turns)
    BY FindingsListed, MissingTurns
  <1>5. W \in SUBSET DOMAIN missing
    OBVIOUS
  <1> HIDE DEF missing, W, broken
  <1>6. /\ Listed(closed)
        /\ \A k \in DOMAIN closed :
             closed[k].policy \in PolicyIds /\ closed[k].turn \in 1..Len(turns)
    BY <1>4, <1>5, ChosenFrom
  <1> HIDE DEF closed
  <1>7. Listed(phrases) /\ AllCited(phrases, turns)
    BY <1>3, FastFlagsFacts, FastFlagsCited
  <1>8. Listed(omissions) /\ AllCited(omissions, turns)
    BY <1>6, FastFlagsFacts, FastFlagsCited
  <1>9. Listed(threats) /\ AllCited(threats, turns)
    <2>1. /\ Listed(threats)
          /\ threats = <<>> \/ \E flag : threats = <<flag>> /\ flag.type = "escalation_risk"
      BY EscalationFlagForm
    <2>2. \A flag \in ToSet(threats) : Grounded(flag.evidence, turns)
      BY <1>2, EscalationEvidence
    <2> HIDE DEF threats
    <2>3. \A flag \in ToSet(threats) : flag.type = "escalation_risk"
      BY <2>1, EmptyListed DEF ToSet
    <2>4. QED
      BY <2>1, <2>2, <2>3 DEF AllCited, Cited, Violation, SignalTypes
  <1> HIDE DEF phrases, omissions, threats
  <1>10. /\ Listed(phrases \o omissions)
         /\ ToSet(phrases \o omissions) = ToSet(phrases) \union ToSet(omissions)
    BY <1>7, <1>8, ConcatListed
  <1>11. ToSet(phrases \o omissions \o threats) = ToSet(phrases \o omissions) \union ToSet(threats)
    BY <1>9, <1>10, ConcatListed
  <1>12. QED
    BY <1>1, <1>7, <1>8, <1>9, <1>10, <1>11 DEF AllCited

(* flag_risk refuses what it cannot resolve.                                *)
LEMMA FlaggedCited ==
  ASSUME NEW by, NEW turns, NEW calls, FrankCalls(calls, by)
  PROVE  AllCited(Flagged(turns, calls), turns)
  <1> DEFINE W == {k \in DOMAIN calls :
                     calls[k].tool = "flag_risk" /\ Flaggable(turns, calls[k].risk)}
             taken == Chosen(calls, W)
             flagged == Flagged(turns, calls)
  <1>1. flagged = [k \in DOMAIN taken |->
          [taken[k].risk EXCEPT !.evidence = Spans(turns, taken[k].risk.evidence)]]
    BY DEF Flagged
  <1>2. W \in SUBSET DOMAIN calls
        /\ \A k \in W : calls[k].tool = "flag_risk" /\ Flaggable(turns, calls[k].risk)
    OBVIOUS
  <1> HIDE DEF W, flagged
  <1>3. \A k \in DOMAIN taken : \E i \in W : taken[k] = calls[i]
    BY <1>2, ChosenFrom DEF FrankCalls
  <1> HIDE DEF taken
  <1>4. ASSUME NEW k \in DOMAIN taken
        PROVE  Frank(taken[k].risk, by) /\ Flaggable(turns, taken[k].risk)
    <2>1. PICK i \in W : taken[k] = calls[i]
      BY <1>3
    <2>2. Frank(calls[i].risk, by)
      BY <1>2 DEF FrankCalls, ToSet
    <2>3. QED
      BY <1>2, <2>1, <2>2
  <1>5. ASSUME NEW risk, Frank(risk, by), Flaggable(turns, risk)
        PROVE  Cited([risk EXCEPT !.evidence = Spans(turns, risk.evidence)], turns)
    <2> DEFINE spans == Spans(turns, risk.evidence)
               new == [risk EXCEPT !.evidence = spans]
    <2>1. Listed(spans) /\ ToSet(spans) \subseteq 1..Len(turns)
      BY <1>5, SpansFacts DEF Frank
    <2>2. spans # <<>> /\ risk.type \in SignalTypes
          /\ (risk.type = Violation => Resolve(risk.policy) # NoPolicy)
      BY <1>5 DEF Flaggable, Violation
    <2>3. risk.type = Violation => risk.policy \in Named
      BY <2>2 DEF Resolve, Named
    <2> HIDE DEF spans
    <2>4. new.type = risk.type /\ new.policy = risk.policy /\ new.evidence = spans
      BY <1>5 DEF Frank, RiskFields
    <2> HIDE DEF new
    <2>5. Cited(new, turns)
      BY <2>1, <2>2, <2>3, <2>4 DEF Cited, Grounded
    <2>6. QED
      BY <2>5 DEF new, spans
  <1>6. ASSUME NEW k \in DOMAIN flagged PROVE Cited(flagged[k], turns)
    <2>1. k \in DOMAIN taken
          /\ flagged[k] = [taken[k].risk EXCEPT !.evidence = Spans(turns, taken[k].risk.evidence)]
      BY <1>1
    <2>2. QED
      BY <1>4, <1>5, <2>1
  <1>7. QED
    BY <1>6 DEF flagged, AllCited, ToSet

LEMMA InitCited == Init => CitedInv
  <1> SUFFICES ASSUME Init PROVE CitedInv
    OBVIOUS
  <1>1. \A c \in Calls : SignalsOf(c) = <<>>
    BY EmptyListed, ConcatEmpty DEF Init, SignalsOf
  <1>2. pass["live"] = Resting(AnyCall)
    BY DEF Init, Threads, Kinds
  <1>3. Resting(AnyCall).flagged = <<>>
    BY DEF Resting, Fresh
  <1>4. ~Sifting
    BY DEF Init, Sifting
  <1>5. QED
    BY <1>1, <1>2, <1>3, <1>4, NoneCited DEF CitedInv

LEMMA CitedUntouched ==
  ASSUME CitedInv, UNCHANGED transcript, Here' = Here,
         \A c \in Calls : SignalsOf(c)' = SignalsOf(c),
         Sifting' => Sifting /\ found' = found,
         pass'["live"].flagged \in {pass["live"].flagged, <<>>}
  PROVE  CitedInv'
  <1>1. Turns' = Turns
    BY DEF Turns
  <1>2. AllCited(pass'["live"].flagged, Turns)
    BY NoneCited DEF CitedInv
  <1>3. QED
    BY <1>1, <1>2 DEF CitedInv

(* The live thread turns to another pass, which has flagged nothing.        *)
LEMMA NothingFlagged ==
  ASSUME PassShaped, NEW c, NEW required,
         \/ pass' = [pass EXCEPT !["live"] = Resting(c)]
         \/ pass' = [pass EXCEPT !["live"] = Fresh(c, required)]
  PROVE  pass'["live"].flagged = <<>>
  <1>1. Resting(c).flagged = <<>> /\ Fresh(c, required).flagged = <<>>
    BY DEF Resting, Fresh
  <1>2. pass'["live"] \in {Resting(c), Fresh(c, required)}
    <2> HIDE DEF Resting, Fresh
    <2>1. QED
      BY DEF PassShaped, Threads, Kinds
  <1>3. QED
    BY <1>1, <1>2

LEMMA HearCited ==
  ASSUME Shaped, CitedInv, Hear
  PROVE  CitedInv'
  <1> DEFINE c == Here'
  <1>1. /\ c \in Calls /\ Listed(transcript[c]) /\ batch = <<>>
        /\ \A d \in Calls \ {c} : transcript'[d] = transcript[d]
        /\ live' \in {"idle", "waiting", "fast"}
        /\ UNCHANGED <<batch, published>>
    BY HearShaped
  <1>2. PICK turn : transcript'[c] = Append(transcript[c], turn)
    BY HearShaped
  <1>3. \A d \in Calls : SignalsOf(d)' = SignalsOf(d)
    BY <1>1 DEF SignalsOf
  <1>4. pass'["live"].flagged = <<>>
    <2>1. \E d : pass' = [pass EXCEPT !["live"] = Resting(d)]
      BY DEF Hear
    <2>2. QED
      BY <2>1, NothingFlagged DEF Shaped
  <1> HIDE DEF c
  <1>5. ASSUME NEW d \in Calls, NEW s \in ToSet(SignalsOf(d))
        PROVE  Cited(s, transcript'[d])
    <2>1. Cited(s, transcript[d])
      BY DEF CitedInv, AllCited
    <2>2. CASE d = c
      BY <2>1, <2>2, <1>1, <1>2, CitedStays
    <2>3. CASE d # c
      BY <2>1, <2>3, <1>1
    <2>4. QED
      BY <2>2, <2>3
  <1>6. \A d \in Calls : AllCited(SignalsOf(d)', transcript'[d])
    BY <1>3, <1>5 DEF AllCited
  <1>7. AllCited(pass'["live"].flagged, Turns')
    BY <1>4, NoneCited
  <1>8. ~Sifting'
    BY <1>1 DEF Sifting
  <1>9. QED
    BY <1>6, <1>7, <1>8 DEF CitedInv

LEMMA HearAnewCited ==
  ASSUME Shaped, SignalsInv, CitedInv, HearAnew
  PROVE  CitedInv'
  <1>0. PICK c \in Calls : c = Here'
    BY HearAnewShaped
  <1>1. /\ \A d \in Calls \ {c} : transcript'[d] = transcript[d]
        /\ live' \in {"idle", "fast"}
    BY <1>0, HearAnewShaped
  <1>2. SignalsOf(c)' = <<>> /\ \A d \in Calls \ {c} : SignalsOf(d)' = SignalsOf(d)
    BY <1>0, HearAnewSignals
  <1>3. pass'["live"].flagged = <<>>
    <2>1. \E d : pass' = [pass EXCEPT !["live"] = Resting(d)]
      BY DEF HearAnew
    <2>2. QED
      BY <2>1, NothingFlagged DEF Shaped
  <1>4. ASSUME NEW d \in Calls PROVE AllCited(SignalsOf(d)', transcript'[d])
    <2>1. CASE d = c
      BY <2>1, <1>2, NoneCited
    <2>2. CASE d # c
      BY <2>2, <1>1, <1>2 DEF CitedInv
    <2>3. QED
      BY <2>1, <2>2
  <1>5. AllCited(pass'["live"].flagged, Turns')
    BY <1>3, NoneCited
  <1>6. ~Sifting'
    BY <1>1 DEF Sifting
  <1>7. QED
    BY <1>4, <1>5, <1>6 DEF CitedInv

LEMMA FastPathCited ==
  ASSUME Shaped, CitedInv, FastPath
  PROVE  CitedInv'
  <1>1. /\ Here' = Here /\ live' = "fast_sift"
        /\ UNCHANGED <<transcript, batch, published>>
    BY FastPathShaped
  <1>2. PICK required : found' = FastRisks(transcript[Here], required, {Here})
    BY FastPathShaped
  <1>3. Listed(transcript[Here]) /\ TurnsTyped(transcript[Here])
    BY HereIsACall DEF Shaped
  <1>4. Listed(found') /\ AllCited(found', transcript[Here])
    BY <1>2, <1>3, FastRisksListed, FastRisksCited
  <1>5. \A c \in Calls : SignalsOf(c)' = SignalsOf(c)
    BY <1>1 DEF SignalsOf
  <1>6. pass'["live"].flagged = pass["live"].flagged
    <2>1. \E required2 : pass' = [pass EXCEPT !["live"].required = required2]
      BY DEF FastPath
    <2>2. QED
      BY <2>1 DEF Shaped, PassShaped, PassFields, Threads, Kinds
  <1>7. Turns' = Turns /\ Turns = transcript[Here]
    BY <1>1 DEF Turns
  <1>8. QED
    BY <1>1, <1>4, <1>5, <1>6, <1>7 DEF CitedInv

LEMMA SiftCited ==
  ASSUME Shaped, CitedInv, Sift
  PROVE  CitedInv'
  <1> DEFINE risk == Head(found)
  <1>1. /\ Here' = Here /\ live' = live /\ Sifting /\ found # <<>> /\ found' = Tail(found)
        /\ UNCHANGED <<transcript, published>> /\ Here \in Calls
    BY AcceptShaped, HereIsACall DEF Sifting
  <1>2. Listed(found) /\ \A r \in ToSet(found) : Cited(r, transcript[Here])
    BY <1>1 DEF CitedInv, AllCited, Turns
  <1>3. Listed(found') /\ ToSet(found') \subseteq ToSet(found) /\ risk \in ToSet(found)
    <2>1. /\ Listed(Tail(found)) /\ ToSet(Tail(found)) \subseteq ToSet(found)
          /\ risk = found[1] /\ Len(found) \in Nat \ {0}
      BY <1>1, <1>2, TailListed
    <2>2. 1 \in DOMAIN found
      BY <2>1, <1>2, ListedFacts
    <2>3. QED
      BY <2>1, <2>2, <1>1 DEF ToSet
  <1>4. batch' = batch \/ batch' = Append(batch, risk)
    BY DEF Sift, Accept, Reject
  <1> HIDE DEF risk
  <1>5. ASSUME NEW c \in Calls
        PROVE  ToSet(SignalsOf(c)') \subseteq
                 ToSet(SignalsOf(c)) \union (IF c = Here THEN {risk} ELSE {})
    <2>1. CASE c # Here \/ batch' = batch
      BY <2>1, <1>1 DEF SignalsOf
    <2>2. CASE c = Here /\ batch' = Append(batch, risk)
      <3>1. /\ ToSet(SignalsOf(c)) = ToSet(published[c]) \union ToSet(batch)
            /\ ToSet(published[c] \o Append(batch, risk)) =
                 ToSet(published[c]) \union ToSet(Append(batch, risk))
            /\ ToSet(Append(batch, risk)) = ToSet(batch) \union {risk}
        BY <2>2, AppendListed, ConcatListed DEF Shaped, SignalsOf
      <3>2. SignalsOf(c)' = published[c] \o Append(batch, risk)
        BY <2>2, <1>1 DEF SignalsOf
      <3>3. QED
        BY <2>2, <3>1, <3>2
    <2>3. QED
      BY <1>4, <2>1, <2>2
  <1>6. \A c \in Calls : \A s \in ToSet(SignalsOf(c)') : Cited(s, transcript[c])
    BY <1>2, <1>3, <1>5 DEF CitedInv, AllCited
  <1>7. Turns' = Turns /\ Turns = transcript[Here] /\ pass' = pass
    BY <1>1 DEF Turns, Sift
  <1>8. QED
    BY <1>1, <1>2, <1>3, <1>6, <1>7 DEF CitedInv, AllCited

(* The agent flags what its tools have let through.                         *)
Flags(p) == pass[p].flagged \o Flagged(transcript[pass[p].call], pass[p].todo)

LEMMA AgentFlags ==
  ASSUME PassShaped, NEW p \in Threads, AgentStep(p)
  PROVE  pass'[p].flagged \in {pass[p].flagged, Flags(p)}
  <1>1. ASSUME NEW calls, UseTools(p, calls) PROVE pass'[p].flagged = pass[p].flagged
    BY <1>1 DEF UseTools, PassShaped, PassFields
  <1>2. ASSUME NEW content, Finish(p, content) PROVE pass'[p].flagged = pass[p].flagged
    <2>1. CASE ~Valid(p, content) /\ pass[p].repairs < MaxRepairs
      BY <1>2, <2>1 DEF Finish, PassShaped, PassFields
    <2>2. CASE ~(~Valid(p, content) /\ pass[p].repairs < MaxRepairs)
      <3>1. PICK end : pass' = [pass EXCEPT ![p].pc = "stopped", ![p].content = content,
                                            ![p].end = end]
        BY <1>2, <2>2 DEF Finish
      <3>2. QED
        BY <3>1 DEF PassShaped, PassFields
    <2>3. QED
      BY <2>1, <2>2
  <1>3. ASSUME NEW end, Stop(p, end) PROVE pass'[p].flagged = pass[p].flagged
    BY <1>3 DEF Stop, PassShaped, PassFields
  <1>4. ASSUME NEW calls, NEW content, Complete(p, calls, content)
        PROVE  pass'[p].flagged = pass[p].flagged
    BY <1>1, <1>2, <1>4 DEF Complete
  <1>5. CASE SetContext(p)
    BY <1>5 DEF SetContext, PassShaped, PassFields
  <1>6. CASE Exhausted(p) \/ OutOfTime(p) \/ PostRefused(p)
    BY <1>3, <1>6 DEF Exhausted, OutOfTime, PostRefused
  <1>7. CASE Ask(p)
    BY <1>7 DEF Ask, PassShaped, PassFields
  <1>8. CASE CompleteOffline(p)
    <2>1. \E calls, content : UseTools(p, calls) \/ Finish(p, content)
                              \/ Complete(p, calls, content)
      <3>1. PICK turns \in {transcript[context.call]} :
              \/ Gather(p, turns)
              \/ IF flaggedYet THEN Conclude(p, context.call, turns)
                 ELSE RaiseFlags(p, context.call, turns)
        BY <1>8 DEF CompleteOffline
      <3>2. CASE Gather(p, turns)
        BY <3>2 DEF Gather
      <3>3. CASE Conclude(p, context.call, turns)
        BY <3>3 DEF Conclude
      <3>4. CASE RaiseFlags(p, context.call, turns)
        BY <3>4 DEF RaiseFlags
      <3>5. QED
        BY <3>1, <3>2, <3>3, <3>4
    <2>2. QED
      BY <2>1, <1>1, <1>2, <1>4
  <1>9. CASE CompleteAzure(p)
    BY <1>4, <1>9 DEF CompleteAzure
  <1>10. CASE PostFails(p)
    <2>1. CASE pass[p].attempt < MaxRetries
      BY <1>10, <2>1 DEF PostFails, PassShaped, PassFields
    <2>2. CASE ~(pass[p].attempt < MaxRetries)
      BY <1>3, <1>10, <2>2 DEF PostFails
    <2>3. QED
      BY <2>1, <2>2
  <1>11. CASE InvokeTools(p)
    <2> DEFINE more == Flagged(transcript[pass[p].call], pass[p].todo)
    <2>1. pass' = [pass EXCEPT ![p].pc = "loop", ![p].todo = <<>>, ![p].flagged = @ \o more]
      BY <1>11 DEF InvokeTools
    <2> HIDE DEF more
    <2>2. pass'[p].flagged = pass[p].flagged \o more
      BY <2>1 DEF PassShaped, PassFields
    <2>3. QED
      BY <2>2 DEF more, Flags
  <1>12. QED
    BY <1>5, <1>6, <1>7, <1>8, <1>9, <1>10, <1>11 DEF AgentStep

LEMMA AgentCited ==
  ASSUME Shaped, FrankInv, CitedInv, NEW p \in Threads, Agent(p)
  PROVE  CitedInv'
  <1> "live" \in Threads /\ PassShaped
    BY DEF Threads, Kinds, Shaped
  <1>1. /\ UNCHANGED <<transcript, batch, published, found, live>> /\ Here' = Here
    BY AsideFacts DEF Aside, liveVars
  <1>2. \A c \in Calls : SignalsOf(c)' = SignalsOf(c)
    BY <1>1 DEF SignalsOf
  <1>3. AllCited(pass'["live"].flagged, Turns)
    <2>1. CASE p # "live"
      <3>1. pass'["live"] = pass["live"]
        BY <2>1, AgentMovesPass DEF Agent, PassMoves
      <3>2. QED
        BY <3>1 DEF CitedInv
    <2>2. CASE p = "live"
      <3>1. pass'["live"].flagged \in {pass["live"].flagged, Flags("live")}
        BY <2>2, AgentFlags DEF Agent
      <3> DEFINE more == Flagged(Turns, pass["live"].todo)
      <3>2. /\ FrankCalls(pass["live"].todo, provider)
            /\ FrankRisks(pass["live"].flagged, provider)
        BY DEF FrankInv, FrankPass
      <3>3. FrankRisks(more, provider) /\ AllCited(more, Turns)
        BY <3>2, FlaggedFrank, FlaggedCited
      <3>4. Flags("live") = pass["live"].flagged \o more
        BY DEF Flags, Turns, Here
      <3> HIDE DEF more
      <3>5. ToSet(pass["live"].flagged \o more) = ToSet(pass["live"].flagged) \union ToSet(more)
        BY <3>2, <3>3, ConcatListed DEF FrankRisks
      <3>6. AllCited(Flags("live"), Turns)
        BY <3>3, <3>4, <3>5 DEF AllCited, CitedInv
      <3>7. QED
        BY <3>1, <3>6 DEF CitedInv
    <2>3. QED
      BY <2>1, <2>2
  <1>4. Turns' = Turns /\ (Sifting' <=> Sifting)
    BY <1>1 DEF Turns, Sifting
  <1>5. QED
    BY <1>1, <1>2, <1>3, <1>4 DEF CitedInv

LEMMA CitedStep ==
  ASSUME Shaped, SignalsInv, FrankInv, CitedInv, [Next]_vars
  PROVE  CitedInv'
  <1> "live" \in Threads /\ "post_call" \in Threads /\ "live" # "post_call" /\ PassShaped
    BY DEF Threads, Kinds, Shaped
  <1>1. CASE Hear
    BY <1>1, HearCited
  <1>2. CASE FastPath
    BY <1>2, FastPathCited
  <1>3. CASE Sift
    BY <1>3, SiftCited
  <1>4. CASE AgentPath
    <2>1. Here' = Here /\ UNCHANGED <<transcript, batch, published>>
          /\ found' = pass["live"].flagged /\ pass' = [pass EXCEPT !["live"] = Resting(Here)]
      BY <1>4, TurnsOfAnalysisShaped DEF AgentPath
    <2>2. Listed(found') /\ AllCited(found', Turns)
      BY <2>1 DEF CitedInv, FrankInv, FrankPass, FrankRisks
    <2>3. \A c \in Calls : SignalsOf(c)' = SignalsOf(c)
      BY <2>1 DEF SignalsOf
    <2>4. pass'["live"].flagged = <<>>
      BY <2>1, NothingFlagged
    <2>5. Turns' = Turns
      BY <2>1 DEF Turns
    <2>6. QED
      BY <2>1, <2>2, <2>3, <2>4, <2>5, NoneCited DEF CitedInv
  <1>5. CASE TakeLock \/ AskAgent \/ EndAnalysis \/ PublishFails
    <2>1. Here' = Here /\ UNCHANGED <<transcript, batch, published, found>>
      BY <1>5, TurnsOfAnalysisShaped DEF TakeLock, AskAgent, EndAnalysis, PublishFails
    <2>2. ~Sifting'
      BY <1>5 DEF TakeLock, Proceed, AskAgent, EndAnalysis, PublishFails, Sifting
    <2>3. \A c \in Calls : SignalsOf(c)' = SignalsOf(c)
      BY <2>1 DEF SignalsOf
    <2>4. pass'["live"].flagged \in {pass["live"].flagged, <<>>}
      <3>1. CASE AskAgent
        BY <3>1, NothingFlagged DEF AskAgent, Begin
      <3>2. CASE EndAnalysis
        BY <3>2, NothingFlagged DEF EndAnalysis
      <3>3. CASE TakeLock \/ PublishFails
        BY <3>3 DEF TakeLock, PublishFails, agentVars
      <3>4. QED
        BY <1>5, <3>1, <3>2, <3>3
    <2>5. QED
      BY <2>1, <2>2, <2>3, <2>4, CitedUntouched
  <1>6. CASE Publish
    <2>1. Here' = Here /\ UNCHANGED <<transcript, pass>> /\ Here \in Calls
      BY <1>6, TurnsOfAnalysisShaped, HereIsACall DEF Publish, agentVars
    <2>2. /\ published' = [published EXCEPT ![Here] = published[Here] \o batch]
          /\ batch' = <<>> /\ live' = "idle"
      BY <1>6 DEF Publish
    <2>3. ASSUME NEW c \in Calls PROVE SignalsOf(c)' = SignalsOf(c)
      <3>1. CASE c = Here
        <4>1. published'[c] = SignalsOf(c)
          BY <3>1, <2>2 DEF Shaped, SignalsOf
        <4>2. SignalsOf(c)' = published'[c] \o <<>>
          BY <3>1, <2>1, <2>2 DEF SignalsOf
        <4>3. QED
          BY <4>1, <4>2, SignalsListed, ConcatEmpty
      <3>2. CASE c # Here
        BY <3>2, <2>1, <2>2 DEF Shaped, SignalsOf
      <3>3. QED
        BY <3>1, <3>2
    <2>4. ~Sifting'
      BY <2>2 DEF Sifting
    <2>5. QED
      BY <2>1, <2>3, <2>4, CitedUntouched
  <1>7. CASE (\E c \in Calls : Summarise(c)) \/ PublishSummary
    <2>1. UNCHANGED <<transcript, batch, published, found, live>> /\ Here' = Here
      BY <1>7, AsideFacts DEF Aside, liveVars
    <2>2. \A c \in Calls : SignalsOf(c)' = SignalsOf(c)
      BY <2>1 DEF SignalsOf
    <2>3. pass'["live"] = pass["live"]
      <3>1. \E new : pass' = [pass EXCEPT !["post_call"] = new]
        BY <1>7 DEF Summarise, Begin, PublishSummary
      <3>2. QED
        BY <3>1 DEF PassShaped
    <2>4. QED
      BY <2>1, <2>2, <2>3, CitedUntouched DEF Sifting
  <1>8. CASE UNCHANGED vars
    <2>1. UNCHANGED <<transcript, pass, batch, published, found, live>> /\ Here' = Here
      BY <1>8 DEF vars, agentVars, callVars, liveVars, Here
    <2>2. \A c \in Calls : SignalsOf(c)' = SignalsOf(c)
      BY <2>1 DEF SignalsOf
    <2>3. QED
      BY <2>1, <2>2, CitedUntouched DEF Sifting
  <1>a. CASE HearAnew
    BY <1>a, HearAnewCited
  <1>9. QED
    BY <1>1, <1>2, <1>3, <1>4, <1>5, <1>6, <1>7, <1>8, <1>a, AgentCited DEF Next
-----------------------------------------------------------------------------
(* The counters of a pass stay within their bounds, and what the worker     *)
(* remembers of a call is what it may be.                                   *)

PassPcs == {"idle", "ready", "loop", "asking", "tools", "stopped"}
PassTyped(q, most) ==
  /\ q.pc \in PassPcs
  /\ q.repairs \in 0..MaxRepairs /\ q.attempt \in 0..MaxRetries
  /\ q.step \in Nat /\ q.step <= most + q.repairs

LEMMA BeginsTyped ==
  ASSUME NEW c, NEW required, NEW most \in Nat
  PROVE  PassTyped(Fresh(c, required), most) /\ PassTyped(Resting(c), most)
  <1>1. /\ Fresh(c, required).pc = "ready" /\ Fresh(c, required).step = 0
        /\ Fresh(c, required).repairs = 0 /\ Fresh(c, required).attempt = 0
    BY Zenon DEF Fresh
  <1>2. /\ Resting(c).pc = "idle" /\ Resting(c).step = 0
        /\ Resting(c).repairs = 0 /\ Resting(c).attempt = 0
    BY DEF Resting, Fresh
  <1>3. MaxRepairs \in Nat /\ MaxRetries \in Nat
    BY AgentAssumption DEF AgentAssumption
  <1>4. QED
    BY <1>1, <1>2, <1>3 DEF PassTyped, PassPcs

(* A step of the agent that touches none of the counters.                   *)
KeepsCount(p) ==
  /\ pass'[p].pc \in PassPcs /\ pass'[p].step = pass[p].step
  /\ pass'[p].repairs = pass[p].repairs /\ pass'[p].attempt = pass[p].attempt

LEMMA AgentTyped ==
  ASSUME PassShaped, NEW p \in Threads, AgentStep(p), NEW most \in Nat, most = MaxSteps[p],
         PassTyped(pass[p], most)
  PROVE  PassTyped(pass'[p], most)
  <1>1. MaxRepairs \in Nat /\ MaxRetries \in Nat
    BY AgentAssumption DEF AgentAssumption
  <1>2. ASSUME KeepsCount(p) PROVE PassTyped(pass'[p], most)
    BY <1>2 DEF KeepsCount, PassTyped
  <1>3. ASSUME NEW calls, UseTools(p, calls) PROVE KeepsCount(p)
    BY <1>3 DEF UseTools, PassShaped, PassFields, KeepsCount, PassPcs
  <1>4. ASSUME NEW end, Stop(p, end) PROVE KeepsCount(p)
    BY <1>4 DEF Stop, PassShaped, PassFields, KeepsCount, PassPcs
  <1>5. ASSUME NEW content, Finish(p, content) PROVE PassTyped(pass'[p], most)
    <2>1. CASE ~Valid(p, content) /\ pass[p].repairs < MaxRepairs
      <3>1. pass' = [pass EXCEPT ![p].pc = "loop", ![p].repairs = @ + 1, ![p].said = @ + 1]
        BY <1>5, <2>1 DEF Finish
      <3>2. /\ pass'[p].pc = "loop" /\ pass'[p].step = pass[p].step
            /\ pass'[p].repairs = pass[p].repairs + 1 /\ pass'[p].attempt = pass[p].attempt
        BY <3>1 DEF PassShaped, PassFields
      <3>3. QED
        BY <1>1, <2>1, <3>2 DEF PassTyped, PassPcs
    <2>2. CASE ~(~Valid(p, content) /\ pass[p].repairs < MaxRepairs)
      <3>1. PICK end : pass' = [pass EXCEPT ![p].pc = "stopped", ![p].content = content,
                                            ![p].end = end]
        BY <1>5, <2>2 DEF Finish
      <3>2. KeepsCount(p)
        BY <3>1 DEF PassShaped, PassFields, KeepsCount, PassPcs
      <3>3. QED
        BY <1>2, <3>2
    <2>3. QED
      BY <2>1, <2>2
  <1>6. ASSUME NEW calls, NEW content, Complete(p, calls, content)
        PROVE  PassTyped(pass'[p], most)
    BY <1>2, <1>3, <1>5, <1>6 DEF Complete
  <1>7. CASE SetContext(p)
    <2>1. KeepsCount(p)
      BY <1>7 DEF SetContext, PassShaped, PassFields, KeepsCount, PassPcs
    <2>2. QED
      BY <1>2, <2>1
  <1>8. CASE Exhausted(p) \/ OutOfTime(p) \/ PostRefused(p)
    BY <1>2, <1>4, <1>8 DEF Exhausted, OutOfTime, PostRefused
  <1>9. CASE Ask(p)
    <2>1. /\ pass' = [pass EXCEPT ![p].pc = "asking", ![p].step = @ + 1, ![p].attempt = 0]
          /\ pass[p].step < most + pass[p].repairs
      BY <1>9 DEF Ask, StepsLeft
    <2>2. /\ pass'[p].pc = "asking" /\ pass'[p].step = pass[p].step + 1
          /\ pass'[p].repairs = pass[p].repairs /\ pass'[p].attempt = 0
      BY <2>1 DEF PassShaped, PassFields
    <2>3. QED
      BY <1>1, <2>1, <2>2 DEF PassTyped, PassPcs
  <1>10. CASE CompleteOffline(p)
    <2>1. \E calls, content : UseTools(p, calls) \/ Finish(p, content)
                              \/ Complete(p, calls, content)
      <3>1. PICK turns \in {transcript[context.call]} :
              \/ Gather(p, turns)
              \/ IF flaggedYet THEN Conclude(p, context.call, turns)
                 ELSE RaiseFlags(p, context.call, turns)
        BY <1>10 DEF CompleteOffline
      <3>2. CASE Gather(p, turns)
        BY <3>2 DEF Gather
      <3>3. CASE Conclude(p, context.call, turns)
        BY <3>3 DEF Conclude
      <3>4. CASE RaiseFlags(p, context.call, turns)
        BY <3>4 DEF RaiseFlags
      <3>5. QED
        BY <3>1, <3>2, <3>3, <3>4
    <2>2. QED
      BY <2>1, <1>2, <1>3, <1>5, <1>6
  <1>11. CASE CompleteAzure(p)
    BY <1>6, <1>11 DEF CompleteAzure
  <1>12. CASE PostFails(p)
    <2>1. CASE pass[p].attempt < MaxRetries
      <3>1. pass' = [pass EXCEPT ![p].attempt = @ + 1]
        BY <1>12, <2>1 DEF PostFails
      <3>2. /\ pass'[p].pc = pass[p].pc /\ pass'[p].step = pass[p].step
            /\ pass'[p].repairs = pass[p].repairs /\ pass'[p].attempt = pass[p].attempt + 1
        BY <3>1 DEF PassShaped, PassFields
      <3>3. QED
        BY <1>1, <2>1, <3>2 DEF PassTyped
    <2>2. CASE ~(pass[p].attempt < MaxRetries)
      BY <1>2, <1>4, <1>12, <2>2 DEF PostFails
    <2>3. QED
      BY <2>1, <2>2
  <1>13. CASE InvokeTools(p)
    <2>1. PICK more : pass' = [pass EXCEPT ![p].pc = "loop", ![p].todo = <<>>,
                                           ![p].flagged = @ \o more]
      BY <1>13 DEF InvokeTools
    <2>2. KeepsCount(p)
      BY <2>1 DEF PassShaped, PassFields, KeepsCount, PassPcs
    <2>3. QED
      BY <1>2, <2>2
  <1>14. QED
    BY <1>7, <1>8, <1>9, <1>10, <1>11, <1>12, <1>13 DEF AgentStep

PassesTyped == \A p \in Threads : PassTyped(pass[p], MaxSteps[p])

LEMMA PassReplacedTyped ==
  ASSUME PassShaped, PassesTyped, NEW p \in Threads, NEW new, PassTyped(new, MaxSteps[p]),
         pass' = [pass EXCEPT ![p] = new]
  PROVE  PassesTyped'
  BY DEF PassShaped, PassesTyped

LEMMA PassesStep ==
  ASSUME PassShaped, PassesTyped, [Next]_vars
  PROVE  PassesTyped'
  <1> "live" \in Threads /\ "post_call" \in Threads
    BY DEF Threads, Kinds
  <1>1. \A p \in Threads : MaxSteps[p] \in Nat
    BY AgentAssumption DEF AgentAssumption, Threads
  <1>2. ASSUME NEW p \in Threads, NEW c, NEW required,
               \/ pass' = [pass EXCEPT ![p] = Fresh(c, required)]
               \/ pass' = [pass EXCEPT ![p] = Resting(c)]
        PROVE  PassesTyped'
    <2>1. PassTyped(Fresh(c, required), MaxSteps[p]) /\ PassTyped(Resting(c), MaxSteps[p])
      BY <1>1, BeginsTyped
    <2>2. QED
      BY <1>2, <2>1, PassReplacedTyped
  <1>3. CASE Hear \/ HearAnew \/ AgentPath \/ EndAnalysis
    <2>1. \E c : pass' = [pass EXCEPT !["live"] = Resting(c)]
      BY <1>3 DEF Hear, HearAnew, AgentPath, EndAnalysis
    <2>2. QED
      BY <1>2, <2>1
  <1>4. CASE AskAgent
    BY <1>2, <1>4 DEF AskAgent, Begin
  <1>5. CASE (\E c \in Calls : Summarise(c)) \/ PublishSummary
    <2>1. \E c, required : \/ pass' = [pass EXCEPT !["post_call"] = Fresh(c, required)]
                           \/ pass' = [pass EXCEPT !["post_call"] = Resting(c)]
      BY <1>5 DEF Summarise, Begin, PublishSummary
    <2>2. QED
      BY <1>2, <2>1
  <1>6. CASE FastPath
    <2>1. PICK required : pass' = [pass EXCEPT !["live"].required = required]
      BY <1>6 DEF FastPath
    <2>2. /\ pass'["live"].pc = pass["live"].pc /\ pass'["live"].step = pass["live"].step
          /\ pass'["live"].repairs = pass["live"].repairs
          /\ pass'["live"].attempt = pass["live"].attempt
          /\ \A p \in Threads \ {"live"} : pass'[p] = pass[p]
      BY <2>1 DEF PassShaped, PassFields
    <2>3. QED
      BY <2>2 DEF PassesTyped, PassTyped
  <1>7. ASSUME NEW p \in Threads, Agent(p) PROVE PassesTyped'
    <2>1. PassTyped(pass'[p], MaxSteps[p])
      BY <1>1, <1>7, AgentTyped DEF Agent, PassesTyped
    <2>2. \A q \in Threads \ {p} : pass'[q] = pass[q]
      BY <1>7, AgentMovesPass DEF Agent, PassMoves
    <2>3. QED
      BY <2>1, <2>2 DEF PassesTyped
  <1>8. CASE TakeLock \/ Sift \/ Publish \/ PublishFails \/ UNCHANGED vars
    <2>1. UNCHANGED pass
      BY <1>8 DEF TakeLock, Sift, Publish, PublishFails, vars, agentVars
    <2>2. QED
      BY <2>1 DEF PassesTyped
  <1>9. QED
    BY <1>3, <1>4, <1>5, <1>6, <1>7, <1>8 DEF Next

(* The marks and the disclosures of a call are policies; what was analysed  *)
(* of it was heard.                                                         *)
MarksTyped ==
  /\ given \in [Calls -> SUBSET PolicyIds] /\ reported \in [Calls -> SUBSET Named]
  /\ ended \subseteq Calls
  /\ \A c \in Calls : upto[c] \in 0..Len(transcript[c])

LEMMA InitTyped == Init => PassesTyped /\ MarksTyped
  <1> SUFFICES ASSUME Init PROVE PassesTyped /\ MarksTyped
    OBVIOUS
  <1>1. \A p \in Threads : MaxSteps[p] \in Nat /\ pass[p] = Resting(AnyCall)
    BY AgentAssumption DEF AgentAssumption, Threads, Init
  <1>2. PassesTyped
    BY <1>1, BeginsTyped DEF PassesTyped
  <1>3. \A c \in Calls : transcript[c] = <<>> /\ upto[c] = 0
    BY DEF Init
  <1>4. \A c \in Calls : upto[c] \in 0..Len(transcript[c])
    BY <1>3, EmptyListed
  <1>5. given \in [Calls -> SUBSET PolicyIds] /\ reported \in [Calls -> SUBSET Named]
        /\ ended \subseteq Calls
    BY DEF Init
  <1>6. QED
    BY <1>2, <1>4, <1>5 DEF MarksTyped

LEMMA SiftMarks ==
  ASSUME Shaped, CitedInv, MarksTyped, Sift
  PROVE  MarksTyped'
  <1> DEFINE risk == Head(found)
  <1>1. /\ Sifting /\ found # <<>> /\ Here \in Calls
        /\ UNCHANGED <<transcript, upto, given, ended>>
    BY HereIsACall DEF Sift, Sifting
  <1>2. Cited(risk, Turns)
    <2>1. Listed(found) /\ AllCited(found, Turns)
      BY <1>1 DEF CitedInv
    <2>2. risk = found[1] /\ Len(found) \in Nat \ {0}
      BY <1>1, <2>1, TailListed
    <2>3. 1 \in DOMAIN found
      BY <2>1, <2>2, ListedFacts
    <2>4. QED
      BY <2>1, <2>2, <2>3 DEF AllCited, ToSet
  <1>3. \/ UNCHANGED reported
        \/ /\ risk.type = Violation
           /\ reported' = [reported EXCEPT ![Here] = @ \union {risk.policy}]
    BY DEF Sift, Accept, Reject, Violation
  <1> HIDE DEF risk
  <1>4. reported' \in [Calls -> SUBSET Named]
    BY <1>1, <1>2, <1>3 DEF MarksTyped, Cited
  <1>5. QED
    BY <1>1, <1>4 DEF MarksTyped

(* What the agent finds given of the obligations it works from.             *)
LEMMA AgentGives ==
  ASSUME Shaped, given \in [Calls -> SUBSET PolicyIds], NEW p \in Threads, Agent(p)
  PROVE  given' \in [Calls -> SUBSET PolicyIds] /\ UNCHANGED ended
  <1>1. ASSUME UNCHANGED given PROVE given' \in [Calls -> SUBSET PolicyIds]
    BY <1>1
  <1>2. ASSUME CompleteOffline(p) PROVE given' \in [Calls -> SUBSET PolicyIds]
    <2>1. PICK turns \in {transcript[context.call]} :
            \/ Gather(p, turns)
            \/ IF flaggedYet THEN Conclude(p, context.call, turns)
               ELSE RaiseFlags(p, context.call, turns)
      BY <1>2 DEF CompleteOffline
    <2>2. CASE Gather(p, turns) \/ Conclude(p, context.call, turns)
      BY <1>1, <2>2 DEF Gather, Conclude
    <2>3. CASE RaiseFlags(p, context.call, turns)
      <3> DEFINE more == GivenDisclosures(turns, context.required)
      <3>1. given' = [given EXCEPT ![context.call] = @ \union more]
        BY <2>3 DEF RaiseFlags
      <3>2. more \subseteq PolicyIds
        BY DEF GivenDisclosures, PolicyIds
      <3> HIDE DEF more
      <3>3. QED
        BY <3>1, <3>2 DEF Shaped
    <2>4. QED
      BY <2>1, <2>2, <2>3
  <1>3. ASSUME ~CompleteOffline(p) PROVE given' \in [Calls -> SUBSET PolicyIds]
    BY <1>1, <1>3 DEF Agent, AgentStep, SetContext, Exhausted, OutOfTime, Ask, CompleteAzure,
                      PostFails, PostRefused, InvokeTools, callVars
  <1>4. given' \in [Calls -> SUBSET PolicyIds]
    BY <1>2, <1>3
  <1>5. QED
    BY <1>4 DEF Agent
LEMMA MarksStep ==
  ASSUME Shaped, CitedInv, MarksTyped, [Next]_vars
  PROVE  MarksTyped'
  <1>1. \A c \in Calls : Listed(transcript[c]) /\ Len(transcript[c]) \in Nat
    BY ListedFacts DEF Shaped
  <1>2. CASE Hear
    <2> DEFINE c == Here'
    <2>1. /\ c \in Calls /\ \A d \in Calls \ {c} : transcript'[d] = transcript[d]
          /\ UNCHANGED <<upto, reported>>
      BY <1>2, HearShaped
    <2>2. PICK turn : transcript'[c] = Append(transcript[c], turn)
      BY <1>2, HearShaped
    <2>3. UNCHANGED <<given, ended>>
      BY <1>2 DEF Hear
    <2> HIDE DEF c
    <2>4. Len(transcript'[c]) = Len(transcript[c]) + 1
      BY <1>1, <2>1, <2>2, AppendListed
    <2>5. ASSUME NEW d \in Calls PROVE upto'[d] \in 0..Len(transcript'[d])
      <3>1. upto[d] \in 0..Len(transcript[d]) /\ Len(transcript[d]) \in Nat
        BY <1>1 DEF MarksTyped
      <3>2. Len(transcript'[d]) \in {Len(transcript[d]), Len(transcript[d]) + 1}
        BY <2>1, <2>4
      <3>3. QED
        BY <3>1, <3>2, <2>1
    <2>6. QED
      BY <2>1, <2>3, <2>5 DEF MarksTyped
  <1>3. CASE FastPath
    <2>1. PICK required :
            given' = [given EXCEPT ![Here] = @ \union GivenDisclosures(Turns, required)]
      BY <1>3 DEF FastPath
    <2>2. GivenDisclosures(Turns, required) \subseteq PolicyIds
      BY DEF GivenDisclosures
    <2>3. given' \in [Calls -> SUBSET PolicyIds]
      BY <2>1, <2>2, HereIsACall DEF MarksTyped
    <2>4. UNCHANGED <<transcript, reported, upto, ended>>
      BY <1>3 DEF FastPath
    <2>5. QED
      BY <2>3, <2>4 DEF MarksTyped
  <1>4. CASE Sift
    BY <1>4, SiftMarks
  <1>5. CASE EndAnalysis
    <2>1. /\ upto' = [upto EXCEPT ![Here] = Len(transcript[Here])]
          /\ UNCHANGED <<transcript, given, reported, ended>>
      BY <1>5 DEF EndAnalysis, callVars, Turns
    <2>2. ASSUME NEW c \in Calls PROVE upto'[c] \in 0..Len(transcript[c])
      <3>1. upto'[c] = IF c = Here THEN Len(transcript[c]) ELSE upto[c]
        BY <2>1 DEF Shaped
      <3>2. Len(transcript[c]) \in 0..Len(transcript[c])
        BY <1>1
      <3>3. QED
        BY <3>1, <3>2 DEF MarksTyped
    <2>3. QED
      BY <2>1, <2>2 DEF MarksTyped
  <1>6. ASSUME NEW c \in Calls, Summarise(c) PROVE MarksTyped'
    <2>1. UNCHANGED <<transcript, given, reported, upto>> /\ ended' = ended \union {c}
      BY <1>6 DEF Summarise, callVars, liveVars
    <2>2. QED
      BY <2>1 DEF MarksTyped
  <1>7. ASSUME NEW p \in Threads, Agent(p) PROVE MarksTyped'
    <2>1. UNCHANGED <<transcript, reported, upto>>
      BY <1>7, AsideFacts DEF Aside, liveVars
    <2>2. given' \in [Calls -> SUBSET PolicyIds] /\ UNCHANGED ended
      BY <1>7, AgentGives DEF MarksTyped
    <2>3. QED
      BY <2>1, <2>2 DEF MarksTyped
  <1>8. CASE TakeLock \/ AskAgent \/ AgentPath \/ Publish \/ PublishFails
             \/ PublishSummary \/ UNCHANGED vars
    <2>1. UNCHANGED <<transcript, given, reported, upto, ended>>
      BY <1>8 DEF TakeLock, AskAgent, AgentPath, Publish, PublishFails, PublishSummary, vars,
                  agentVars, callVars, liveVars
    <2>2. QED
      BY <2>1 DEF MarksTyped
  <1>a. CASE HearAnew
    <2>1. \A d \in Calls : upto'[d] \in 0..Len(transcript'[d])
      <3>1. ASSUME NEW d \in Calls, d # Here' PROVE upto'[d] \in 0..Len(transcript'[d])
        BY <1>a, <3>1, HearAnewShaped DEF MarksTyped
      <3>2. upto'[Here'] \in 0..Len(transcript'[Here'])
        BY <1>a, HearAnewShaped
      <3>3. QED
        BY <3>1, <3>2
    <2>2. PICK c : /\ given' = [given EXCEPT ![c] = {}] /\ reported' = [reported EXCEPT ![c] = {}]
                   /\ ended' = ended \ {c}
      BY <1>a DEF HearAnew
    <2>3. QED
      BY <2>1, <2>2 DEF MarksTyped
  <1>9. QED
    BY <1>2, <1>3, <1>4, <1>5, <1>6, <1>7, <1>8, <1>a DEF Next

LEMMA TypesHold ==
  ASSUME Shaped, CitedInv, PassesTyped, MarksTyped
  PROVE  TypeOK
  <1>1. ASSUME NEW c \in Calls, NEW turn \in ToSet(transcript[c])
        PROVE  turn.speaker \in Speakers
    <2>1. Listed(transcript[c]) /\ TurnsTyped(transcript[c])
      BY DEF Shaped
    <2>2. PICK k \in 1..Len(transcript[c]) : turn = transcript[c][k]
      BY <2>1, ListedFacts
    <2>3. QED
      BY <2>1, <2>2 DEF TurnsTyped, TurnTyped
  <1>2. ASSUME NEW p \in Threads
        PROVE  /\ pass[p].pc \in {"idle", "ready", "loop", "asking", "tools", "stopped"}
               /\ pass[p].step <= MaxSteps[p] + MaxRepairs
               /\ pass[p].repairs <= MaxRepairs /\ pass[p].attempt <= MaxRetries
    <2>1. MaxSteps[p] \in Nat /\ MaxRepairs \in Nat /\ MaxRetries \in Nat
      BY AgentAssumption DEF AgentAssumption, Threads
    <2>2. PassTyped(pass[p], MaxSteps[p])
      BY DEF PassesTyped
    <2>3. QED
      BY <2>1, <2>2 DEF PassTyped, PassPcs
  <1>3. ASSUME NEW c \in Calls PROVE upto[c] <= Len(transcript[c])
    <2>1. upto[c] \in 0..Len(transcript[c])
      BY DEF MarksTyped
    <2>2. QED
      BY <2>1
  <1>4. ASSUME NEW c \in Calls
        PROVE  /\ \A s \in ToSet(published[c]) : Cited(s, transcript[c])
               /\ c = Here => \A s \in ToSet(batch) : Cited(s, transcript[c])
    <2>1. \A s \in ToSet(SignalsOf(c)) : Cited(s, transcript[c])
      BY DEF CitedInv, AllCited
    <2>2. Listed(published[c]) /\ Listed(batch)
      BY DEF Shaped
    <2>3. ToSet(published[c]) \subseteq ToSet(SignalsOf(c))
      BY <2>2, ConcatListed, EmptyListed DEF SignalsOf
    <2>4. c = Here => ToSet(batch) \subseteq ToSet(SignalsOf(c))
      BY <2>2, ConcatListed DEF SignalsOf
    <2>5. QED
      BY <2>1, <2>3, <2>4
  <1>5. \A s \in ToSet(batch) : s.type \in SignalTypes
    BY <1>4, HereIsACall DEF Cited
  <1>6. \A c \in Calls : \A s \in ToSet(published[c]) :
          s.evidence # <<>> /\ ToSet(s.evidence) \subseteq 1..Len(transcript[c])
    BY <1>4 DEF Cited, Grounded
  <1>7. live \in Stages
    BY DEF Shaped
  <1>8. QED
    BY <1>1, <1>2, <1>3, <1>5, <1>6, <1>7 DEF TypeOK, Stages, MarksTyped, Named

(* tools.py:flag_risk, state.py:evidence_for, live.py:_to_signal: every     *)
(* signal that is published cites at least one turn, and only turns of its  *)
(* own call, whether the rules found it or the model flagged it; agent.py:  *)
(* run keeps to its bounds of steps and repairs and azure.py to its bound   *)
(* of retries, and no more of a call is ever taken for analysed than was    *)
(* heard of it.                                                             *)
THEOREM TypeCorrect == Spec => []TypeOK
  <1> DEFINE Typed == SignalsInv /\ FrankInv /\ CitedInv /\ PassesTyped /\ MarksTyped
  <1>1. Init => Typed
    BY InitSignals, InitVerdict, InitCited, InitTyped
  <1>2. Shaped /\ Typed /\ [Next]_vars => Typed'
    <2>1. Shaped => PassShaped
      BY DEF Shaped
    <2>2. QED
      BY <2>1, SignalsStep, FrankStep, CitedStep, PassesStep, MarksStep
  <1>3. Shaped /\ Typed => TypeOK
    BY TypesHold
  <1>4. Spec => []Shaped
    BY SignalsHold, PTL
  <1> HIDE DEF Typed
  <1>5. QED
    BY <1>1, <1>2, <1>3, <1>4, PTL DEF Spec
=============================================================================
