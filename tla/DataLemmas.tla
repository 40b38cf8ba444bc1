------------------------------ MODULE DataLemmas -------------------------------
(***************************************************************************)
(* Lemmas about operators of the community modules the models are built    *)
(* from: Front and Last of a sequence (the thread pool takes the oldest    *)
(* job), Min and Max of a set of naturals (the kernel gives out the lowest *)
(* free descriptor, and tables their first free slot).                     *)
(***************************************************************************)
EXTENDS Integers, SequencesExt, SequenceTheorems, FiniteSetTheorems, WellFoundedInduction, TLAPS

(***************************************************************************)
(* Front and Last of a sequence that is not empty.                         *)
(***************************************************************************)
LEMMA FrontLast ==
  ASSUME NEW S, NEW s \in Seq(S), s # <<>>
  PROVE  /\ Front(s) \in Seq(S)
         /\ Last(s) \in S
         /\ Len(Front(s)) = Len(s) - 1
         /\ Last(s) = s[Len(s)]
         /\ \A i \in 1 .. Len(s) - 1 : Front(s)[i] = s[i]
<1>1. Len(s) \in Nat /\ Len(s) # 0 /\ Len(s) >= 1
  BY LenProperties, EmptySeq
<1>2. \A i \in 1 .. Len(s) : s[i] \in S
  BY ElementOfSeq
<1>3. \A i \in 1 .. Len(s) - 1 : s[i] \in S
  BY <1>1, <1>2
<1>4. \A i \in 1 .. Len(s) - 1 : SubSeq(s, 1, Len(s) - 1)[i] = s[i]
  BY <1>1
<1>5. SubSeq(s, 1, Len(s) - 1) \in Seq(S) /\ Len(SubSeq(s, 1, Len(s) - 1)) = Len(s) - 1
  <2> DEFINE n == Len(s) - 1
  <2>1. n \in Nat
    BY <1>1
  <2>2. \A i \in 1 .. n : s[i] \in S
    BY <1>3
  <2> HIDE DEF n
  <2>3. 1 \in Int /\ n \in Int /\ (IF 1 <= n THEN n - 1 + 1 ELSE 0) = n
    BY <2>1
  <2>4. SubSeq(s, 1, n) \in Seq(S) /\ Len(SubSeq(s, 1, n)) = n
    BY <2>2, <2>3, SubSeqProperties
  <2> QED
    BY <2>4 DEF n
<1>6. Front(s) = SubSeq(s, 1, Len(s) - 1) /\ Last(s) = s[Len(s)]
  BY DEF Front, Last
<1>7. Last(s) \in S
  BY <1>1, <1>2, <1>6
<1>8. \A i \in 1 .. Len(s) - 1 : Front(s)[i] = s[i]
  BY <1>4, <1>6
<1> QED
  BY <1>5, <1>6, <1>7, <1>8

(***************************************************************************)
(* Min and Max.                                                            *)
(***************************************************************************)
\* A set of naturals that is not empty has a least element.  Of the intervals
\* that lead to its elements, one has none of the others in it.
LEMMA LeastNatural ==
  ASSUME NEW S \in SUBSET Nat, S # {}
  PROVE  \E m \in S : \A n \in S : m <= n
<1> DEFINE Below == {0 .. n : n \in S}
<1>1. Below \subseteq FiniteSubsetsOf(Nat) /\ Below # {}
  <2>1. \A n \in Nat : 0 .. n \subseteq Nat /\ IsFiniteSet(0 .. n)
    BY FS_Interval
  <2>2. QED BY <2>1 DEF FiniteSubsetsOf
<1>2. PICK I \in Below : \A J \in Below : <<J, I>> \notin StrictSubsetOrdering(Nat)
  <2> HIDE DEF Below
  <2>1. IsWellFoundedOn(StrictSubsetOrdering(Nat), FiniteSubsetsOf(Nat))
    BY FS_StrictSubsetOrderingWellFounded
  <2>2. QED BY <1>1, <2>1, WFMin
<1>3. PICK m \in S : I = 0 .. m
  BY <1>2
<1>4. ASSUME NEW n \in S, n < m PROVE FALSE
  <2>1. 0 .. n \in Below
    OBVIOUS
  <2>2. <<0 .. n, 0 .. m>> \notin StrictSubsetOrdering(Nat)
    BY <1>2, <1>3, <2>1
  <2>3. 0 .. n \in SUBSET Nat /\ 0 .. m \in SUBSET Nat /\ 0 .. n \subseteq 0 .. m
    BY <1>4
  <2>4. m \in 0 .. m /\ m \notin 0 .. n
    BY <1>4
  <2>5. QED BY <2>2, <2>3, <2>4 DEF StrictSubsetOrdering
<1>5. QED BY <1>4

LEMMA MinOf ==
  ASSUME NEW S \in SUBSET Nat, S # {}
  PROVE  Min(S) \in S /\ \A n \in S : Min(S) <= n
BY LeastNatural DEF Min

\* A finite set of naturals that is not empty has a greatest element: of the
\* sets of its elements from one of them on, one has none of the others in it.
LEMMA MaxOf ==
  ASSUME NEW S \in SUBSET Nat, IsFiniteSet(S), S # {}
  PROVE  Max(S) \in S /\ \A n \in S : n <= Max(S)
<1> DEFINE From(n) == {k \in S : k >= n}
           Above == {From(n) : n \in S}
<1>1. Above \subseteq FiniteSubsetsOf(Nat) /\ Above # {}
  <2>1. \A n \in S : From(n) \subseteq Nat /\ IsFiniteSet(From(n))
    BY FS_Subset
  <2>2. QED BY <2>1 DEF FiniteSubsetsOf
<1>2. PICK I \in Above : \A J \in Above : <<J, I>> \notin StrictSubsetOrdering(Nat)
  <2> HIDE DEF Above
  <2>1. IsWellFoundedOn(StrictSubsetOrdering(Nat), FiniteSubsetsOf(Nat))
    BY FS_StrictSubsetOrderingWellFounded
  <2>2. QED BY <1>1, <2>1, WFMin
<1>3. PICK m \in S : I = From(m)
  BY <1>2
<1>4. ASSUME NEW n \in S, n > m PROVE FALSE
  <2>1. <<From(n), From(m)>> \notin StrictSubsetOrdering(Nat)
    BY <1>2, <1>3
  <2>2. From(n) \in SUBSET Nat /\ From(m) \in SUBSET Nat /\ From(n) \subseteq From(m)
    <3>1. m \in Nat /\ n \in Nat
      OBVIOUS
    <3>2. \A k \in S : k \in Nat /\ (k >= n => k >= m)
      BY <1>4, <3>1
    <3>3. QED BY <3>2
  <2>3. m \in From(m) /\ m \notin From(n)
    BY <1>4
  <2>4. QED BY <2>1, <2>2, <2>3 DEF StrictSubsetOrdering
<1>5. \A n \in S : n <= m
  BY <1>4
<1>6. QED BY <1>5 DEF Max
===============================================================================
