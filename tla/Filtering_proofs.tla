-------------------------- MODULE Filtering_proofs --------------------------
(***************************************************************************)
(* What a filter does to the ends of a sequence, and to a filter.  Facts   *)
(* about a whole sequence are by the least length at which they could      *)
(* fail (LeastNatural, from the well-foundedness of the naturals).         *)
(***************************************************************************)
EXTENDS Filtering, FiniteSetTheorems, SequenceTheorems, WellFoundedInduction, TLAPS

\* A set of naturals that is not empty has a least element.
LEMMA LeastNatural ==
    ASSUME NEW T \in SUBSET Nat, T # {}
    PROVE  \E n \in T : \A m \in T : n <= m
<1> DEFINE R == OpToRel(<, Nat)
<1>1. PICK n \in T : \A m \in T : ~(<<m, n>> \in R)
  <2>1. IsWellFoundedOn(R, Nat)
    BY NatLessThanWellFounded
  <2> HIDE DEF R
  <2> QED
    BY <2>1, WFMin
<1>2. \A m \in T : <<m, n>> \in R <=> m < n
  BY DEF OpToRel
<1> HIDE DEF R
<1>3. \A m \in T : ~(m < n)
  BY <1>1, <1>2
<1>4. \A m \in T : n <= m
  BY <1>3
<1> QED
  BY <1>4

-----------------------------------------------------------------------------
(* Counting.                                                               *)

LEMMA PassedNat ==
    ASSUME NEW s, NEW K, NEW n \in Nat
    PROVE  /\ Passed(s, K, n) \in Nat
           /\ Passed(s, K, n) <= n
           /\ IsFiniteSet({i \in 1 .. n : s[i] \in K})
<1>1. IsFiniteSet(1 .. n) /\ Cardinality(1 .. n) = n
  BY FS_Interval
<1>2. {i \in 1 .. n : s[i] \in K} \subseteq 1 .. n
  OBVIOUS
<1> QED
  BY <1>1, <1>2, FS_Subset, FS_CardinalityType DEF Passed

\* One element further, the count goes up if that element lies in the set.
LEMMA PassedStep ==
    ASSUME NEW s, NEW K, NEW n \in Nat
    PROVE  /\ Passed(s, K, 0) = 0
           /\ Passed(s, K, n + 1) = IF s[n + 1] \in K THEN Passed(s, K, n) + 1
                                                      ELSE Passed(s, K, n)
<1> DEFINE Up(k) == {i \in 1 .. k : s[i] \in K}
<1>1. Up(0) = {}
  OBVIOUS
<1>2. Passed(s, K, 0) = 0
  BY <1>1, FS_EmptySet DEF Passed
<1>3. CASE s[n + 1] \in K
  <2>1. Up(n + 1) = Up(n) \cup {n + 1} /\ n + 1 \notin Up(n)
    BY <1>3
  <2>2. IsFiniteSet(Up(n))
    BY PassedNat
  <2>3. Cardinality(Up(n + 1)) = Cardinality(Up(n)) + 1
    <3> HIDE DEF Up
    <3> QED
      BY <2>1, <2>2, FS_AddElement
  <2> QED
    BY <1>2, <1>3, <2>3 DEF Passed
<1>4. CASE s[n + 1] \notin K
  <2>1. Up(n + 1) = Up(n)
    BY <1>4
  <2> QED
    BY <1>2, <1>4, <2>1 DEF Passed
<1> QED
  BY <1>3, <1>4

\* The count never goes down.
LEMMA PassedMonotone ==
    ASSUME NEW s, NEW K, NEW n \in Nat, NEW m \in 0 .. n
    PROVE  Passed(s, K, m) <= Passed(s, K, n)
<1>1. {i \in 1 .. m : s[i] \in K} \subseteq {i \in 1 .. n : s[i] \in K}
  OBVIOUS
<1>2. IsFiniteSet({i \in 1 .. n : s[i] \in K})
  BY PassedNat
<1> QED
  BY <1>1, <1>2, FS_Subset DEF Passed

\* Every count up to the last one is reached, at an element of the set.
LEMMA SourceExists ==
    ASSUME NEW S, NEW s \in Seq(S), NEW K, NEW j \in 1 .. Passed(s, K, Len(s))
    PROVE  \E i \in DOMAIN s : s[i] \in K /\ Passed(s, K, i) = j
<1> DEFINE T == {n \in 0 .. Len(s) : j <= Passed(s, K, n)}
<1>1. Len(s) \in Nat /\ DOMAIN s = 1 .. Len(s)
  OBVIOUS
<1>2. Len(s) \in T /\ T \in SUBSET Nat
  BY <1>1, PassedNat
<1>3. PICK i \in T : \A m \in T : i <= m
  <2> HIDE DEF T
  <2> QED
    BY <1>2, LeastNatural
<1>4. i # 0
  BY <1>1, PassedStep
<1>5. i - 1 \in 0 .. Len(s) /\ i - 1 \notin T /\ i - 1 \in Nat /\ (i - 1) + 1 = i
  BY <1>1, <1>3, <1>4
<1>6. /\ Passed(s, K, i - 1) \in Nat
      /\ ~(j <= Passed(s, K, i - 1))
      /\ Passed(s, K, i) = IF s[i] \in K THEN Passed(s, K, i - 1) + 1
                                         ELSE Passed(s, K, i - 1)
  <2> DEFINE b == i - 1
  <2>1. b \in Nat /\ b \in 0 .. Len(s) /\ b + 1 = i /\ ~(j <= Passed(s, K, b))
    BY <1>5
  <2> HIDE DEF b
  <2>2. Passed(s, K, b) \in Nat
    BY <2>1, PassedNat
  <2>3. Passed(s, K, b + 1) = IF s[b + 1] \in K THEN Passed(s, K, b) + 1
                                                ELSE Passed(s, K, b)
    BY <2>1, PassedStep
  <2> QED
    BY <2>1, <2>2, <2>3 DEF b
<1>7. s[i] \in K /\ Passed(s, K, i) = j /\ i \in 1 .. Len(s)
  BY <1>1, <1>4, <1>6
<1> QED
  BY <1>1, <1>7

LEMMA SourceCorrect ==
    ASSUME NEW S, NEW s \in Seq(S), NEW K, NEW j \in 1 .. Passed(s, K, Len(s))
    PROVE  /\ Source(s, K, j) \in DOMAIN s
           /\ s[Source(s, K, j)] \in K
           /\ Passed(s, K, Source(s, K, j)) = j
  BY SourceExists DEF Source

\* And at one such element only.
LEMMA SourceUnique ==
    ASSUME NEW S, NEW s \in Seq(S), NEW K,
           NEW i \in DOMAIN s, NEW n \in DOMAIN s, s[i] \in K, s[n] \in K,
           Passed(s, K, i) = Passed(s, K, n)
    PROVE  i = n
<1>1. ASSUME NEW a \in DOMAIN s, NEW b \in DOMAIN s, s[b] \in K, a < b
      PROVE  Passed(s, K, a) # Passed(s, K, b)
  <2>1. b - 1 \in Nat /\ a \in 0 .. b - 1 /\ (b - 1) + 1 = b /\ a \in Nat
    BY <1>1
  <2>2. Passed(s, K, b) = Passed(s, K, b - 1) + 1
    BY <1>1, <2>1, PassedStep
  <2>3. Passed(s, K, a) <= Passed(s, K, b - 1)
    BY <2>1, PassedMonotone
  <2>4. Passed(s, K, a) \in Nat /\ Passed(s, K, b - 1) \in Nat
    BY <2>1, PassedNat
  <2> QED
    BY <2>2, <2>3, <2>4
<1> QED
  BY <1>1

-----------------------------------------------------------------------------
(* Filters.                                                                *)

\* A filter's elements are those of the sequence that lie in the set.
LEMMA FilterSeq ==
    ASSUME NEW S, NEW s \in Seq(S), NEW K
    PROVE  /\ Filter(s, K) \in Seq(S)
           /\ Len(Filter(s, K)) = Passed(s, K, Len(s))
           /\ DOMAIN Filter(s, K) = 1 .. Passed(s, K, Len(s))
           /\ \A j \in DOMAIN Filter(s, K) : Filter(s, K)[j] \in K
<1> Len(s) \in Nat
  OBVIOUS
<1>1. Passed(s, K, Len(s)) \in Nat
  BY PassedNat
<1>2. \A j \in 1 .. Passed(s, K, Len(s)) :
         s[Source(s, K, j)] \in S /\ s[Source(s, K, j)] \in K
  BY SourceCorrect
<1> QED
  BY <1>1, <1>2 DEF Filter

\* They are the sequence's.
LEMMA FilterFrom ==
    ASSUME NEW S, NEW s \in Seq(S), NEW K, NEW j \in DOMAIN Filter(s, K)
    PROVE  \E i \in DOMAIN s : Filter(s, K)[j] = s[i]
<1>1. j \in 1 .. Passed(s, K, Len(s))
  BY FilterSeq
<1>2. Filter(s, K)[j] = s[Source(s, K, j)]
  BY <1>1 DEF Filter
<1> QED
  BY <1>1, <1>2, SourceCorrect

\* None of them is lost.
LEMMA FilterKeeps ==
    ASSUME NEW S, NEW s \in Seq(S), NEW K, NEW i \in DOMAIN s, s[i] \in K
    PROVE  /\ Passed(s, K, i) \in DOMAIN Filter(s, K)
           /\ Filter(s, K)[Passed(s, K, i)] = s[i]
<1> DEFINE j == Passed(s, K, i)
<1>1. i \in Nat \ {0} /\ i - 1 \in Nat /\ (i - 1) + 1 = i /\ i \in 0 .. Len(s)
      /\ Len(s) \in Nat
  OBVIOUS
<1>2. j = Passed(s, K, i - 1) + 1 /\ Passed(s, K, i - 1) \in Nat
  <2> DEFINE b == i - 1
  <2>1. b \in Nat /\ b + 1 = i
    BY <1>1
  <2> HIDE DEF b
  <2>2. Passed(s, K, b) \in Nat
    BY <2>1, PassedNat
  <2>3. Passed(s, K, b + 1) = IF s[b + 1] \in K THEN Passed(s, K, b) + 1
                                                ELSE Passed(s, K, b)
    BY <2>1, PassedStep
  <2> QED
    BY <2>1, <2>2, <2>3 DEF b
<1>3. j <= Passed(s, K, Len(s)) /\ Passed(s, K, Len(s)) \in Nat
  BY <1>1, PassedMonotone, PassedNat
<1>4. j \in 1 .. Passed(s, K, Len(s))
  BY <1>2, <1>3
<1> HIDE DEF j
<1>5. Source(s, K, j) = i
  BY <1>4, SourceCorrect, SourceUnique DEF j
<1>6. Filter(s, K)[j] = s[i]
  BY <1>4, <1>5 DEF Filter
<1> QED
  BY <1>4, <1>6, FilterSeq DEF j

\* None is doubled.
LEMMA FilterDistinct ==
    ASSUME NEW S, NEW s \in Seq(S), NEW K,
           \A i, n \in DOMAIN s : s[i] = s[n] => i = n
    PROVE  \A i, n \in DOMAIN Filter(s, K) :
              Filter(s, K)[i] = Filter(s, K)[n] => i = n
<1> SUFFICES ASSUME NEW i \in DOMAIN Filter(s, K), NEW n \in DOMAIN Filter(s, K),
                    Filter(s, K)[i] = Filter(s, K)[n]
             PROVE  i = n
  OBVIOUS
<1>1. i \in 1 .. Passed(s, K, Len(s)) /\ n \in 1 .. Passed(s, K, Len(s))
  BY FilterSeq
<1>2. s[Source(s, K, i)] = s[Source(s, K, n)]
  BY <1>1 DEF Filter
<1>3. Source(s, K, i) = Source(s, K, n)
  BY <1>1, <1>2, SourceCorrect
<1> QED
  BY <1>1, <1>3, SourceCorrect

\* Only what the set has of the sequence matters.
LEMMA FilterAgree ==
    ASSUME NEW S, NEW s \in Seq(S), NEW K, NEW L,
           \A i \in DOMAIN s : s[i] \in K <=> s[i] \in L
    PROVE  Filter(s, K) = Filter(s, L)
<1>1. ASSUME NEW n \in 0 .. Len(s)
      PROVE  Passed(s, K, n) = Passed(s, L, n)
  <2>1. {i \in 1 .. n : s[i] \in K} = {i \in 1 .. n : s[i] \in L}
    BY <1>1
  <2> QED
    BY <2>1 DEF Passed
<1>2. Len(s) \in 0 .. Len(s) /\ DOMAIN s \subseteq 0 .. Len(s)
  OBVIOUS
<1>3. ASSUME NEW j \in 1 .. Passed(s, K, Len(s))
      PROVE  s[Source(s, K, j)] = s[Source(s, L, j)]
  <2>1. Passed(s, K, Len(s)) = Passed(s, L, Len(s))
    BY <1>1, <1>2
  <2>2. /\ Source(s, K, j) \in DOMAIN s /\ s[Source(s, K, j)] \in K
        /\ Passed(s, K, Source(s, K, j)) = j
    BY SourceCorrect
  <2>3. /\ Source(s, L, j) \in DOMAIN s /\ s[Source(s, L, j)] \in L
        /\ Passed(s, L, Source(s, L, j)) = j
    BY <2>1, SourceCorrect
  <2>4. s[Source(s, L, j)] \in K /\ Passed(s, K, Source(s, L, j)) = j
    BY <1>1, <1>2, <2>3
  <2>5. Source(s, K, j) = Source(s, L, j)
    BY <2>2, <2>3, <2>4, SourceUnique
  <2> QED
    BY <2>5
<1> QED
  BY <1>1, <1>2, <1>3 DEF Filter

LEMMA FilterEmpty == ASSUME NEW K PROVE Filter(<<>>, K) = <<>>
  BY PassedStep DEF Filter

\* What is appended is appended, or left out.
LEMMA FilterAppend ==
    ASSUME NEW S, NEW s \in Seq(S), NEW x \in S, NEW K
    PROVE  Filter(Append(s, x), K) = IF x \in K THEN Append(Filter(s, K), x)
                                                ELSE Filter(s, K)
<1> DEFINE t == Append(s, x)
           n == Len(s)
<1>1. /\ t \in Seq(S) /\ n \in Nat /\ Len(t) = n + 1
      /\ DOMAIN s = 1 .. n /\ DOMAIN t = 1 .. n + 1
      /\ t[n + 1] = x /\ \A i \in 1 .. n : t[i] = s[i]
  OBVIOUS
<1> HIDE DEF t, n
<1>2. ASSUME NEW i \in 0 .. n
      PROVE  Passed(t, K, i) = Passed(s, K, i)
  <2>1. {k \in 1 .. i : t[k] \in K} = {k \in 1 .. i : s[k] \in K}
    BY <1>1
  <2> QED
    BY <2>1 DEF Passed
<1>3. /\ Passed(s, K, n) \in Nat
      /\ Passed(t, K, n + 1) = IF x \in K THEN Passed(s, K, n) + 1 ELSE Passed(s, K, n)
  <2>1. n \in 0 .. n /\ n \in Nat
    BY <1>1
  <2>2. Passed(s, K, n) \in Nat
    BY <2>1, PassedNat
  <2> QED
    <3>1. Passed(t, K, n) = Passed(s, K, n)
      BY <1>2, <2>1
    <3>2. t[n + 1] = x
      BY <1>1
    <3>3. Passed(t, K, n + 1) = IF t[n + 1] \in K THEN Passed(t, K, n) + 1 ELSE Passed(t, K, n)
      BY <2>1, PassedStep
    <3> QED
      BY <2>2, <3>1, <3>2, <3>3
<1>4. ASSUME NEW j \in 1 .. Passed(s, K, n)
      PROVE  Filter(t, K)[j] = Filter(s, K)[j]
  <2>1. Source(s, K, j) \in DOMAIN s /\ s[Source(s, K, j)] \in K
        /\ Passed(s, K, Source(s, K, j)) = j
    BY SourceCorrect DEF n
  <2>2. t[Source(s, K, j)] = s[Source(s, K, j)] /\ Source(s, K, j) \in DOMAIN t
        /\ Passed(t, K, Source(s, K, j)) = j
    BY <1>1, <1>2, <2>1
  <2>3. Filter(t, K)[j] = s[Source(s, K, j)]
    BY <2>1, <2>2, <1>1, FilterKeeps
  <2> QED
    BY <2>3 DEF Filter, n
<1>5. CASE x \in K
  <2>1. /\ Passed(t, K, n + 1) = Passed(s, K, n) + 1
        /\ Filter(t, K)[Passed(s, K, n) + 1] = x
    BY <1>1, <1>3, <1>5, FilterKeeps
  <2>2. /\ Filter(t, K) \in Seq(S) /\ Len(Filter(t, K)) = Passed(s, K, n) + 1
        /\ Filter(s, K) \in Seq(S) /\ Len(Filter(s, K)) = Passed(s, K, n)
    BY <1>1, <2>1, FilterSeq DEF n
  <2> HIDE DEF Filter
  <2>3. Filter(t, K) = Append(Filter(s, K), x)
    BY <1>3, <1>4, <2>1, <2>2
  <2> QED
    BY <1>5, <2>3 DEF t
<1>6. CASE x \notin K
  <2>1. /\ Filter(t, K) \in Seq(S) /\ Len(Filter(t, K)) = Passed(s, K, n)
        /\ Filter(s, K) \in Seq(S) /\ Len(Filter(s, K)) = Passed(s, K, n)
    BY <1>1, <1>3, <1>6, FilterSeq DEF n
  <2>2. Filter(t, K) = Filter(s, K)
    BY <1>3, <1>4, <2>1
  <2> QED
    BY <1>6, <2>2 DEF t
<1> QED
  BY <1>5, <1>6

-----------------------------------------------------------------------------
(* By induction on the sequence.                                           *)

\* A set that has the empty sequence and, with a sequence, that sequence and
\* one element more, has all of them.
LEMMA SequenceInduction ==
    ASSUME NEW S, NEW G, <<>> \in G,
           \A s \in Seq(S), x \in S : s \in G => Append(s, x) \in G
    PROVE  Seq(S) \subseteq G
<1> SUFFICES ASSUME NEW t \in Seq(S), t \notin G PROVE FALSE
  OBVIOUS
<1> DEFINE T == {n \in Nat : \E s \in Seq(S) : s \notin G /\ Len(s) = n}
<1>1. T \in SUBSET Nat /\ Len(t) \in T
  OBVIOUS
<1>2. PICK n \in T : \A m \in T : n <= m
  <2> HIDE DEF T
  <2> QED
    BY <1>1, LeastNatural
<1>3. PICK s \in Seq(S) : s \notin G /\ Len(s) = n
  OBVIOUS
<1>4. PICK r \in Seq(S), x \in S : s = Append(r, x)
  BY <1>3, SequenceEmptyOrAppend
<1>5. r \notin G /\ Len(r) \in Nat /\ n = Len(r) + 1
  BY <1>3, <1>4
<1>6. Len(r) \in T
  BY <1>5
<1> QED
  BY <1>2, <1>5, <1>6

\* A filter of a filter is the filter of both.
LEMMA FilterTwice ==
    ASSUME NEW S, NEW s \in Seq(S), NEW K, NEW L
    PROVE  Filter(Filter(s, K), L) = Filter(s, K \cap L)
<1> DEFINE G == {r \in Seq(S) : Filter(Filter(r, K), L) = Filter(r, K \cap L)}
<1>1. <<>> \in G
  BY FilterEmpty
<1>2. ASSUME NEW r \in Seq(S), NEW x \in S, r \in G
      PROVE  Append(r, x) \in G
  <2>1. Filter(r, K) \in Seq(S) /\ Append(r, x) \in Seq(S)
    BY FilterSeq
  <2>2. Filter(Append(r, x), K) = IF x \in K THEN Append(Filter(r, K), x)
                                             ELSE Filter(r, K)
    BY FilterAppend
  <2>3. Filter(Append(r, x), K \cap L) =
           IF x \in K \cap L THEN Append(Filter(r, K \cap L), x) ELSE Filter(r, K \cap L)
    BY FilterAppend
  <2>4. Filter(Append(Filter(r, K), x), L) =
           IF x \in L THEN Append(Filter(Filter(r, K), L), x)
                      ELSE Filter(Filter(r, K), L)
    BY <2>1, FilterAppend
  <2>5. Filter(Filter(r, K), L) = Filter(r, K \cap L)
    BY <1>2
  <2>6. x \in K \cap L <=> x \in K /\ x \in L
    OBVIOUS
  <2>7. Filter(Filter(Append(r, x), K), L) = Filter(Append(r, x), K \cap L)
    <3>1. CASE x \in K
      BY <2>2, <2>3, <2>4, <2>5, <2>6, <3>1
    <3>2. CASE x \notin K
      BY <2>2, <2>3, <2>5, <2>6, <3>2
    <3> QED
      BY <3>1, <3>2
  <2> QED
    BY <2>1, <2>7
<1> HIDE DEF G
<1>3. Seq(S) \subseteq G
  BY <1>1, <1>2, SequenceInduction
<1> QED
  BY <1>3 DEF G

\* The first element is the filter's first, or is left out.
LEMMA FilterTail ==
    ASSUME NEW S, NEW s \in Seq(S), s # <<>>, NEW K
    PROVE  IF Head(s) \in K
           THEN /\ Filter(s, K) # <<>>
                /\ Head(Filter(s, K)) = Head(s)
                /\ Tail(Filter(s, K)) = Filter(Tail(s), K)
           ELSE Filter(s, K) = Filter(Tail(s), K)
<1> DEFINE Good(r) == IF Head(r) \in K
                      THEN /\ Filter(r, K) # <<>>
                           /\ Head(Filter(r, K)) = Head(r)
                           /\ Tail(Filter(r, K)) = Filter(Tail(r), K)
                      ELSE Filter(r, K) = Filter(Tail(r), K)
           G == {r \in Seq(S) : r = <<>> \/ Good(r)}
<1>1. <<>> \in G
  OBVIOUS
<1>2. ASSUME NEW r \in Seq(S), NEW x \in S, r \in G
      PROVE  Append(r, x) \in G
  <2> DEFINE f == Filter(r, K)
             g == Filter(Tail(r), K)
  <2>1. /\ Append(r, x) \in Seq(S)
        /\ Head(Append(r, x)) = IF r = <<>> THEN x ELSE Head(r)
        /\ Tail(Append(r, x)) = IF r = <<>> THEN <<>> ELSE Append(Tail(r), x)
    BY HeadTailAppend, AppendProperties
  <2>2. Filter(Append(r, x), K) = IF x \in K THEN Append(f, x) ELSE f
    BY FilterAppend
  <2>3. f \in Seq(S)
    BY FilterSeq
  <2>4. /\ Head(Append(f, x)) = IF f = <<>> THEN x ELSE Head(f)
        /\ Tail(Append(f, x)) = IF f = <<>> THEN <<>> ELSE Append(Tail(f), x)
        /\ Append(f, x) # <<>>
    BY <2>3, HeadTailAppend, AppendProperties
  <2>5. CASE r = <<>>
    <3>1. f = <<>>
      BY <2>5, FilterEmpty
    <3> QED
      BY <2>1, <2>2, <2>4, <2>5, <3>1, FilterEmpty
  <2>6. CASE r # <<>>
    <3>1. Good(r)
      BY <1>2, <2>6
    <3>2. Filter(Append(Tail(r), x), K) = IF x \in K THEN Append(g, x) ELSE g
      <4>1. Tail(r) \in Seq(S)
        BY <2>6, HeadTailProperties
      <4> HIDE DEF Good
      <4> QED
        BY <4>1, FilterAppend
    <3> HIDE DEF f, g
    <3>3. Good(Append(r, x))
      BY <2>1, <2>2, <2>4, <2>6, <3>1, <3>2 DEF f, g
    <3> QED
      BY <2>1, <3>3
  <2> QED
    BY <2>5, <2>6
<1> HIDE DEF G
<1>3. Seq(S) \subseteq G
  BY <1>1, <1>2, SequenceInduction
<1> QED
  BY <1>3 DEF G

-----------------------------------------------------------------------------
(* The places of sequences, and how many of them lie in a set.             *)

\* A sequence that grows at its end.
LEMMA AppendAt ==
  ASSUME NEW S, NEW q \in Seq(S), NEW e \in S
  PROVE  /\ Append(q, e) \in Seq(S)
         /\ DOMAIN q = 1 .. Len(q) /\ Len(q) \in Nat
         /\ DOMAIN Append(q, e) = 1 .. Len(q) + 1
         /\ \A i \in 1 .. Len(q) : Append(q, e)[i] = q[i]
         /\ Append(q, e)[Len(q) + 1] = e
  OBVIOUS

\* A sequence that loses its head.
LEMMA TailAt ==
  ASSUME NEW S, NEW q \in Seq(S), q # <<>>
  PROVE  /\ Tail(q) \in Seq(S) /\ Head(q) \in S
         /\ DOMAIN q = 1 .. Len(q) /\ Len(q) \in Nat /\ Len(q) > 0
         /\ DOMAIN Tail(q) = 1 .. Len(q) - 1
         /\ \A i \in 1 .. Len(q) - 1 : Tail(q)[i] = q[i + 1]
         /\ Head(q) = q[1]
  OBVIOUS

\* Two sequences, one behind the other.
LEMMA ConcatAt ==
  ASSUME NEW S, NEW q \in Seq(S), NEW w \in Seq(S)
  PROVE  /\ q \o w \in Seq(S)
         /\ Len(q) \in Nat /\ Len(w) \in Nat
         /\ DOMAIN q = 1 .. Len(q) /\ DOMAIN w = 1 .. Len(w)
         /\ DOMAIN (q \o w) = 1 .. Len(q) + Len(w)
         /\ \A i \in 1 .. Len(q) : (q \o w)[i] = q[i]
         /\ \A i \in 1 .. Len(w) : (q \o w)[Len(q) + i] = w[i]
         /\ \A i \in Len(q) + 1 .. Len(q) + Len(w) : (q \o w)[i] = w[i - Len(q)]
  OBVIOUS

\* One element behind a sequence.
LEMMA AppendOne ==
  ASSUME NEW S, NEW q \in Seq(S), NEW e \in S
  PROVE  q \o <<e>> = Append(q, e)
  OBVIOUS

\* The places of a sequence that are in K.
CountIn(s, K) == Cardinality({i \in DOMAIN s : s[i] \in K})

\* Sets with a bijection between them.
LEMMA SameCount ==
  ASSUME NEW S, NEW T, IsFiniteSet(S), NEW f \in [S -> T],
         \A a, b \in S : f[a] = f[b] => a = b,
         \A t \in T : \E a \in S : f[a] = t
  PROVE  IsFiniteSet(T) /\ Cardinality(T) = Cardinality(S)
<1>1. f \in Injection(S, T)
  BY DEF Injection, IsInjective
<1>2. f \in Surjection(S, T)
  BY DEF Surjection
<1>3. f \in Bijection(S, T)
  BY <1>1, <1>2 DEF Bijection
<1>4. ExistsBijection(S, T)
  BY <1>3 DEF ExistsBijection
<1>. QED
  BY <1>4, FS_Bijection

\* Sets with nothing in common.
LEMMA DisjointCount ==
  ASSUME NEW S, NEW T, IsFiniteSet(S), IsFiniteSet(T), S \cap T = {}
  PROVE  /\ IsFiniteSet(S \cup T)
         /\ Cardinality(S) \in Nat /\ Cardinality(T) \in Nat
         /\ Cardinality(S \cup T) = Cardinality(S) + Cardinality(T)
<1>1. Cardinality(S) \in Nat /\ Cardinality(T) \in Nat
  BY FS_CardinalityType
<1>2. Cardinality(S \cap T) = 0
  BY FS_EmptySet
<1>3. /\ IsFiniteSet(S \cup T)
      /\ Cardinality(S \cup T) = Cardinality(S) + Cardinality(T) - Cardinality(S \cap T)
  BY FS_Union
<1>. QED
  BY <1>1, <1>2, <1>3

\* What is counted in a sequence is finite.
LEMMA CountNat ==
  ASSUME NEW S, NEW s \in Seq(S), NEW K
  PROVE  /\ IsFiniteSet({i \in DOMAIN s : s[i] \in K})
         /\ CountIn(s, K) \in Nat
         /\ CountIn(s, K) = 0 <=> \A i \in DOMAIN s : s[i] \notin K
<1>. DEFINE A == {i \in DOMAIN s : s[i] \in K}
<1>1. Len(s) \in Nat /\ DOMAIN s = 1 .. Len(s)
  OBVIOUS
<1>2. IsFiniteSet(1 .. Len(s)) /\ A \subseteq 1 .. Len(s)
  BY <1>1, FS_Interval
<1>3. IsFiniteSet(A)
  BY <1>2, FS_Subset
<1>4. Cardinality(A) \in Nat /\ (Cardinality(A) = 0 <=> A = {})
  BY <1>3, FS_CardinalityType, FS_EmptySet
<1>. QED
  BY <1>3, <1>4 DEF CountIn

\* The same places of one sequence.
LEMMA CountSame ==
  ASSUME NEW s, NEW K, NEW L, \A i \in DOMAIN s : s[i] \in K <=> s[i] \in L
  PROVE  CountIn(s, K) = CountIn(s, L)
<1>1. {i \in DOMAIN s : s[i] \in K} = {i \in DOMAIN s : s[i] \in L}
  OBVIOUS
<1>. QED
  BY <1>1 DEF CountIn

\* Two kinds of entry that exclude each other.
LEMMA CountUnion ==
  ASSUME NEW S, NEW s \in Seq(S), NEW K, NEW L, NEW M,
         \A i \in DOMAIN s : /\ s[i] \in M <=> s[i] \in K \/ s[i] \in L
                             /\ ~(s[i] \in K /\ s[i] \in L)
  PROVE  CountIn(s, M) = CountIn(s, K) + CountIn(s, L)
<1>. DEFINE A == {i \in DOMAIN s : s[i] \in K}
            B == {i \in DOMAIN s : s[i] \in L}
<1>1. {i \in DOMAIN s : s[i] \in M} = A \cup B /\ A \cap B = {}
  OBVIOUS
<1>2. IsFiniteSet(A) /\ IsFiniteSet(B)
  BY CountNat
<1>. HIDE DEF A, B
<1>3. Cardinality(A \cup B) = Cardinality(A) + Cardinality(B)
  BY <1>1, <1>2, DisjointCount
<1>. QED
  BY <1>1, <1>3 DEF CountIn, A, B

\* One sequence behind the other.
LEMMA CountConcat ==
  ASSUME NEW S, NEW s \in Seq(S), NEW t \in Seq(S), NEW K
  PROVE  CountIn(s \o t, K) = CountIn(s, K) + CountIn(t, K)
<1>. DEFINE A == {i \in DOMAIN s : s[i] \in K}
            B == {i \in DOMAIN t : t[i] \in K}
            C == {i \in DOMAIN (s \o t) : (s \o t)[i] \in K}
            D == C \ A
            n == Len(s)
            g == [i \in B |-> n + i]
<1>1. /\ n \in Nat /\ Len(t) \in Nat /\ DOMAIN s = 1 .. n /\ DOMAIN t = 1 .. Len(t)
      /\ DOMAIN (s \o t) = 1 .. n + Len(t)
      /\ \A i \in 1 .. n : (s \o t)[i] = s[i]
      /\ \A i \in 1 .. Len(t) : (s \o t)[n + i] = t[i]
  BY ConcatAt
<1>2. /\ IsFiniteSet(A) /\ IsFiniteSet(B)
      /\ \A i \in A : i \in 1 .. n /\ s[i] \in K
      /\ \A i \in B : i \in 1 .. Len(t) /\ t[i] \in K
  BY <1>1, CountNat
<1>3. A \subseteq C
  BY <1>1, <1>2
<1>4. \A i \in B : n + i \in D
  <2>1. \A i \in B : n + i \in C
    BY <1>1, <1>2
  <2>2. \A i \in B : n + i \notin 1 .. n
    BY <1>1, <1>2
  <2>. QED
    BY <1>2, <2>1, <2>2
<1>5. \A j \in D : j \in Nat /\ j - n \in B
  <2>1. ASSUME NEW j \in D
        PROVE  j \in Nat /\ j - n \in 1 .. Len(t)
    <3>1. j \in 1 .. n + Len(t) /\ (s \o t)[j] \in K /\ j \notin A
      BY <1>1, <2>1
    <3>2. j \notin 1 .. n
      BY <1>1, <3>1
    <3>. QED
      BY <1>1, <3>1, <3>2
  <2>2. ASSUME NEW j \in D
        PROVE  t[j - n] \in K
    <3>1. (s \o t)[n + (j - n)] = t[j - n] /\ n + (j - n) = j
      BY <1>1, <2>1
    <3>. QED
      BY <3>1
  <2>. QED
    BY <1>1, <2>1, <2>2
<1>6. C = A \cup D /\ A \cap D = {}
  BY <1>3
<1>. HIDE DEF A, B, C, D, n
<1>7. g \in [B -> D]
  BY <1>4
<1>8. \A a, b \in B : g[a] = g[b] => a = b
  <2>1. \A a \in B : a \in Nat /\ n \in Nat
    BY <1>1, <1>2
  <2>. QED
    BY <2>1
<1>9. ASSUME NEW j \in D
      PROVE  \E a \in B : g[a] = j
  <2>1. j - n \in B /\ n + (j - n) = j
    BY <1>1, <1>5
  <2>. QED
    BY <2>1
<1>. HIDE DEF g
<1>10. IsFiniteSet(D) /\ Cardinality(D) = Cardinality(B)
  BY <1>2, <1>7, <1>8, <1>9, SameCount
<1>11. Cardinality(C) = Cardinality(A) + Cardinality(D)
  BY <1>2, <1>6, <1>10, DisjointCount
<1>. QED
  BY <1>10, <1>11 DEF CountIn, A, B, C

\* Nothing is in an empty list.
LEMMA CountEmpty ==
  ASSUME NEW K
  PROVE  CountIn(<<>>, K) = 0
<1>1. {i \in DOMAIN <<>> : <<>>[i] \in K} = {}
  OBVIOUS
<1>. QED
  BY <1>1, FS_EmptySet DEF CountIn
=============================================================================
