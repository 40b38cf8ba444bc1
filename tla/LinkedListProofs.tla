--------------------------- MODULE LinkedListProofs ---------------------------
(***************************************************************************)
(* Proofs about LinkedList, for any heap: the links keep the order the     *)
(* calls ask for, no node is lost or used after it was freed, and the list *)
(* is the sequence of ListSeq.                                             *)
(***************************************************************************)
EXTENDS LinkedList, DataLemmas

LEMMA Addressed ==
  /\ ListHead \in Addresses /\ Nodes \subseteq Addresses /\ Addresses \ {ListHead} = Nodes
  /\ Null \notin Addresses /\ Null \notin Data
  /\ \A n \in Nodes : n # ListHead
BY ConstantsAssumption DEF Addresses
-------------------------------------------------------------------------------
(***************************************************************************)
(* Types.                                                                  *)
(***************************************************************************)
LEMMA SeqFacts ==
  ASSUME NEW S, NEW s \in Seq(S)
  PROVE  /\ Len(s) \in Nat /\ DOMAIN s = 1 .. Len(s)
         /\ \A i \in 1 .. Len(s) : s[i] \in S
         /\ ToSet(s) \subseteq S
         /\ \A n : n \in ToSet(s) <=> \E i \in 1 .. Len(s) : s[i] = n
<1>1. Len(s) \in Nat /\ DOMAIN s = 1 .. Len(s)
  BY LenProperties
<1>2. \A i \in 1 .. Len(s) : s[i] \in S
  BY ElementOfSeq
<1>3. QED BY <1>1, <1>2 DEF ToSet

\* A sequence with one more entry in front.
LEMMA Prepended ==
  ASSUME NEW S, NEW s \in Seq(S), NEW e \in S
  PROVE  /\ <<e>> \o s \in Seq(S) /\ Len(<<e>> \o s) = Len(s) + 1
         /\ (<<e>> \o s)[1] = e
         /\ \A i \in 2 .. Len(s) + 1 : (<<e>> \o s)[i] = s[i - 1]
<1>1. <<e>> \in Seq(S) /\ Len(<<e>>) = 1 /\ <<e>>[1] = e
  OBVIOUS
<1>2. Len(s) \in Nat
  BY SeqFacts
<1>3. /\ <<e>> \o s \in Seq(S) /\ Len(<<e>> \o s) = 1 + Len(s)
      /\ \A i \in 1 .. 1 + Len(s) : (<<e>> \o s)[i] = IF i <= 1 THEN <<e>>[i] ELSE s[i - 1]
  BY <1>1, ConcatProperties
<1>4. QED BY <1>1, <1>2, <1>3

\* A sequence of nodes with two of them exchanged.
LEMMA ExchangedAt ==
  ASSUME order \in Seq(Nodes), NEW n1 \in Nodes, NEW n2 \in Nodes
  PROVE  /\ Exchanged(n1, n2) \in Seq(Nodes) /\ Len(Exchanged(n1, n2)) = Len(order)
         /\ \A i \in 1 .. Len(order) : Exchanged(n1, n2)[i] =
              IF order[i] = n1 THEN n2 ELSE IF order[i] = n2 THEN n1 ELSE order[i]
<1>1. Len(order) \in Nat /\ DOMAIN order = 1 .. Len(order) /\ \A i \in 1 .. Len(order) : order[i] \in Nodes
  BY SeqFacts
<1>2. Exchanged(n1, n2) \in [1 .. Len(order) -> Nodes]
  BY <1>1 DEF Exchanged
<1>3. Exchanged(n1, n2) \in Seq(Nodes)
  BY <1>1, <1>2, SeqDef
<1>4. Len(Exchanged(n1, n2)) = Len(order)
  BY <1>1, <1>2, <1>3, LenProperties
<1>5. QED BY <1>1, <1>3, <1>4 DEF Exchanged

LEMMA TypesInit == Init => TypeOK
<1> SUFFICES ASSUME Init PROVE TypeOK
  OBVIOUS
<1>1. /\ next \in [Addresses -> Addresses \cup {Null}] /\ prev \in [Addresses -> Addresses \cup {Null}]
      /\ nodeData \in [Addresses -> Data \cup {Null}]
  BY Addressed DEF Init
<1>2. alloc \in SUBSET Addresses /\ ListHead \in alloc /\ held \in SUBSET Nodes
  BY Addressed DEF Init
<1>3. node \in Addresses \cup {Null} /\ out \in Data \cup {Null} /\ order \in Seq(Nodes)
  BY EmptySeq DEF Init
<1>4. usedFreed \in BOOLEAN
  BY DEF Init
<1>5. QED BY <1>1, <1>2, <1>3, <1>4 DEF TypeOK

LEMMA TypesStep ==
  ASSUME TypeOK, Next \/ UNCHANGED vars
  PROVE  TypeOK'
<1>1. CASE UNCHANGED vars
  BY <1>1 DEF TypeOK, vars, links
<1>2. ASSUME NEW n \in Nodes, NEW d \in Data, Create(n, d) PROVE TypeOK'
  BY <1>2, Addressed DEF Create, TypeOK
<1>3. ASSUME NEW n \in Nodes, InsertHead(n) PROVE TypeOK'
  <2>1. order' \in Seq(Nodes)
    BY <1>3, Prepended DEF InsertHead, TypeOK
  <2>2. next[ListHead] \in Addresses
    BY <1>3 DEF InsertHead, TypeOK
  <2>3. QED BY <1>3, <2>1, <2>2, Addressed DEF InsertHead, TypeOK
<1>4. ASSUME NEW n \in Nodes, InsertTail(n) PROVE TypeOK'
  <2>1. order' \in Seq(Nodes)
    BY <1>4, AppendProperties DEF InsertTail, TypeOK
  <2>2. prev[ListHead] \in Addresses
    BY <1>4 DEF InsertTail, TypeOK
  <2>3. QED BY <1>4, <2>1, <2>2, Addressed DEF InsertTail, TypeOK
<1>5. CASE DeleteHead
  <2>1. order' \in Seq(Nodes)
    BY <1>5, HeadTailProperties, EmptySeq DEF DeleteHead, TypeOK
  <2>2. next[ListHead] \in Addresses \ {ListHead} /\ next[next[ListHead]] \in Addresses
    BY <1>5 DEF DeleteHead, TypeOK
  <2>3. QED BY <1>5, <2>1, <2>2, Addressed DEF DeleteHead, TypeOK
<1>6. CASE DeleteTail
  <2>1. order' \in Seq(Nodes)
    BY <1>6, FrontLast, EmptySeq DEF DeleteTail, TypeOK
  <2>2. prev[ListHead] \in Addresses \ {ListHead} /\ prev[prev[ListHead]] \in Addresses
    BY <1>6 DEF DeleteTail, TypeOK
  <2>3. QED BY <1>6, <2>1, <2>2, Addressed DEF DeleteTail, TypeOK
<1>7. ASSUME NEW n1 \in Nodes, NEW n2 \in Nodes, SwapAdjacent(n1, n2) PROVE TypeOK'
  <2>1. order' \in Seq(Nodes)
    BY <1>7, ExchangedAt DEF SwapAdjacent, TypeOK
  <2>2. /\ next' \in [Addresses -> Addresses \cup {Null}]
        /\ prev' \in [Addresses -> Addresses \cup {Null}]
    BY <1>7, Addressed DEF SwapAdjacent, SwapNext, TypeOK
  <2>3. QED BY <1>7, <2>1, <2>2 DEF SwapAdjacent, TypeOK
<1>8. CASE DeInitBegin \/ DeInitFree \/ UseFreed
  BY <1>8, Addressed DEF DeInitBegin, DeInitFree, UseFreed, TypeOK, links
<1>9. CASE DeInitEnd
  BY <1>9, Addressed, EmptySeq DEF DeInitEnd, TypeOK
<1>10. QED BY <1>1, <1>2, <1>3, <1>4, <1>5, <1>6, <1>7, <1>8, <1>9 DEF Next, Grow, Shrink

\* Every field of the list has its type, and the head is never freed.
THEOREM TypeCorrect == Spec => []TypeOK
<1>1. TypeOK /\ [Next]_vars => TypeOK'
  BY TypesStep
<1>2. QED BY <1>1, TypesInit, PTL DEF Spec
-------------------------------------------------------------------------------
(***************************************************************************)
(* The circle: the links nx and pv hold the nodes of s in this order, the  *)
(* head at both ends.  What each call does to the links keeps it.          *)
(***************************************************************************)
Links == [Addresses -> Addresses \cup {Null}]

Circle(s, nx, pv) ==
  /\ \A i, j \in 1 .. Len(s) : s[i] = s[j] => i = j
  /\ nx[ListHead] = IF Len(s) = 0 THEN ListHead ELSE s[1]
  /\ pv[ListHead] = IF Len(s) = 0 THEN ListHead ELSE s[Len(s)]
  /\ \A i \in 1 .. Len(s) : /\ nx[s[i]] = IF i = Len(s) THEN ListHead ELSE s[i + 1]
                            /\ pv[s[i]] = IF i = 1 THEN ListHead ELSE s[i - 1]

LEMMA Indices ==
  ASSUME NEW m \in Nat
  PROVE  /\ \A i \in 1 .. m : (i # m => i + 1 \in 1 .. m) /\ (i # 1 => i - 1 \in 1 .. m)
         /\ \A i \in 0 .. m : /\ i # 0 => i \in 1 .. m
                              /\ i # m => i + 1 \in 1 .. m
                              /\ (i + 1) - 1 = i
OBVIOUS

LEMMA CircleMatchesOrder ==
  ASSUME order \in Seq(Nodes)
  PROVE  Circle(order, next, prev) <=> LinksMatchOrder
<1>1. Len(order) \in Nat /\ DOMAIN order = 1 .. Len(order)
  BY SeqFacts
<1>2. At(0) = ListHead /\ At(Len(order) + 1) = ListHead /\ \A i \in 1 .. Len(order) : At(i) = order[i]
  BY <1>1 DEF At
<1>3. IsInjective(order) <=> \A i, j \in 1 .. Len(order) : order[i] = order[j] => i = j
  BY <1>1 DEF IsInjective
<1>4. NextLinksMatch <=>
        /\ next[ListHead] = IF Len(order) = 0 THEN ListHead ELSE order[1]
        /\ \A i \in 1 .. Len(order) : next[order[i]] = IF i = Len(order) THEN ListHead ELSE order[i + 1]
  <2>1. ASSUME NextLinksMatch
        PROVE  /\ next[ListHead] = IF Len(order) = 0 THEN ListHead ELSE order[1]
               /\ \A i \in 1 .. Len(order) : next[order[i]] = IF i = Len(order) THEN ListHead ELSE order[i + 1]
    <3>1. next[At(0)] = At(0 + 1)
      BY <1>1, <2>1 DEF NextLinksMatch
    <3>2. ASSUME NEW i \in 1 .. Len(order)
          PROVE  next[order[i]] = IF i = Len(order) THEN ListHead ELSE order[i + 1]
      <4>1. next[At(i)] = At(i + 1)
        BY <1>1, <2>1 DEF NextLinksMatch
      <4>2. i # Len(order) => i + 1 \in 1 .. Len(order)
        BY <1>1, Indices
      <4>3. CASE i = Len(order)
        BY <1>2, <4>1, <4>3
      <4>4. CASE i # Len(order)
        BY <1>2, <4>1, <4>2, <4>4
      <4>5. QED BY <4>3, <4>4
    <3>3. At(0 + 1) = IF Len(order) = 0 THEN ListHead ELSE order[1]
      <4>1. Len(order) # 0 => 1 \in 1 .. Len(order)
        BY <1>1
      <4>2. Len(order) = 0 => At(1) = ListHead
        BY <1>2
      <4>3. QED BY <1>2, <4>1, <4>2
    <3>4. next[ListHead] = IF Len(order) = 0 THEN ListHead ELSE order[1]
      BY <1>2, <3>1, <3>3
    <3>5. QED BY <3>2, <3>4
  <2>2. ASSUME next[ListHead] = IF Len(order) = 0 THEN ListHead ELSE order[1],
               \A i \in 1 .. Len(order) : next[order[i]] = IF i = Len(order) THEN ListHead ELSE order[i + 1]
        PROVE  NextLinksMatch
    <3>1. ASSUME NEW i \in 0 .. Len(order) PROVE next[At(i)] = At(i + 1)
      <4>1. CASE i = 0
        <5>1. Len(order) # 0 => 1 \in 1 .. Len(order)
          BY <1>1
        <5>2. Len(order) = 0 => At(1) = ListHead
          BY <1>2
        <5>3. At(0 + 1) = IF Len(order) = 0 THEN ListHead ELSE order[1]
          BY <1>2, <5>1, <5>2
        <5>4. QED BY <1>2, <2>2, <4>1, <5>3
      <4>2. CASE i # 0
        <5>1. i \in 1 .. Len(order) /\ (i # Len(order) => i + 1 \in 1 .. Len(order))
          BY <1>1, <4>2, Indices
        <5>2. QED BY <1>2, <2>2, <5>1
      <4>3. QED BY <4>1, <4>2
    <3>2. QED BY <3>1 DEF NextLinksMatch
  <2>3. QED BY <2>1, <2>2
<1>5. PrevLinksMatch <=>
        /\ prev[ListHead] = IF Len(order) = 0 THEN ListHead ELSE order[Len(order)]
        /\ \A i \in 1 .. Len(order) : prev[order[i]] = IF i = 1 THEN ListHead ELSE order[i - 1]
  <2>1. ASSUME PrevLinksMatch
        PROVE  /\ prev[ListHead] = IF Len(order) = 0 THEN ListHead ELSE order[Len(order)]
               /\ \A i \in 1 .. Len(order) : prev[order[i]] = IF i = 1 THEN ListHead ELSE order[i - 1]
    <3>1. prev[At(Len(order) + 1)] = At(Len(order))
      BY <1>1, <2>1 DEF PrevLinksMatch
    <3>2. ASSUME NEW i \in 1 .. Len(order)
          PROVE  prev[order[i]] = IF i = 1 THEN ListHead ELSE order[i - 1]
      <4>1. i - 1 \in 0 .. Len(order) /\ (i - 1) + 1 = i
        BY <1>1
      <4>2. prev[At(i)] = At(i - 1)
        BY <2>1, <4>1 DEF PrevLinksMatch
      <4>3. i # 1 => i - 1 \in 1 .. Len(order)
        BY <1>1
      <4>4. QED BY <1>2, <4>2, <4>3
    <3>3. QED BY <1>1, <1>2, <3>1, <3>2
  <2>2. ASSUME prev[ListHead] = IF Len(order) = 0 THEN ListHead ELSE order[Len(order)],
               \A i \in 1 .. Len(order) : prev[order[i]] = IF i = 1 THEN ListHead ELSE order[i - 1]
        PROVE  PrevLinksMatch
    <3>1. ASSUME NEW i \in 0 .. Len(order) PROVE prev[At(i + 1)] = At(i)
      <4>1. CASE i = Len(order)
        BY <1>1, <1>2, <2>2, <4>1
      <4>2. CASE i # Len(order)
        <5>1. i + 1 \in 1 .. Len(order) /\ (i # 0 => i \in 1 .. Len(order)) /\ (i + 1) - 1 = i
          BY <1>1, <4>2, Indices
        <5>2. QED BY <1>2, <2>2, <5>1
      <4>3. QED BY <4>1, <4>2
    <3>2. QED BY <3>1 DEF PrevLinksMatch
  <2>3. QED BY <2>1, <2>2
<1>6. QED BY <1>3, <1>4, <1>5 DEF Circle, LinksMatchOrder

LEMMA CircleInsertHead ==
  ASSUME NEW s \in Seq(Nodes), NEW nx \in Links, NEW pv \in Links, Circle(s, nx, pv),
         NEW n \in Nodes, n \notin ToSet(s)
  PROVE  Circle(<<n>> \o s, [nx EXCEPT ![n] = nx[ListHead], ![ListHead] = n],
                [pv EXCEPT ![n] = ListHead, ![nx[ListHead]] = n])
<1> DEFINE t == <<n>> \o s
           nx2 == [nx EXCEPT ![n] = nx[ListHead], ![ListHead] = n]
           pv2 == [pv EXCEPT ![n] = ListHead, ![nx[ListHead]] = n]
<1>1. /\ Len(s) \in Nat /\ Len(t) = Len(s) + 1 /\ t[1] = n
      /\ \A i \in 2 .. Len(s) + 1 : t[i] = s[i - 1]
      /\ \A i \in 1 .. Len(s) : s[i] \in Nodes /\ s[i] # n
  BY Prepended, SeqFacts
<1>2. /\ nx[ListHead] = IF Len(s) = 0 THEN ListHead ELSE s[1]
      /\ pv[ListHead] = IF Len(s) = 0 THEN ListHead ELSE s[Len(s)]
  BY DEF Circle
<1>3. n # ListHead /\ nx[ListHead] # n /\ nx[ListHead] \in Addresses
  BY <1>1, <1>2, Addressed
<1>4. /\ nx2[ListHead] = n /\ nx2[n] = nx[ListHead]
      /\ \A a \in Addresses \ {n, ListHead} : nx2[a] = nx[a]
      /\ pv2[n] = ListHead /\ pv2[nx[ListHead]] = n
      /\ \A a \in Addresses \ {n, nx[ListHead]} : pv2[a] = pv[a]
  BY <1>3, Addressed DEF Links
<1> HIDE DEF t, nx2, pv2
<1>5. \A i, j \in 1 .. Len(t) : t[i] = t[j] => i = j
  <2>1. ASSUME NEW i \in 1 .. Len(t), NEW j \in 1 .. Len(t), t[i] = t[j] PROVE i = j
    <3>1. CASE i = 1 \/ j = 1
      <4>1. \A k \in 2 .. Len(s) + 1 : t[k] # n
        BY <1>1
      <4>2. QED BY <1>1, <2>1, <3>1, <4>1
    <3>2. CASE i # 1 /\ j # 1
      <4>1. i - 1 \in 1 .. Len(s) /\ j - 1 \in 1 .. Len(s) /\ s[i - 1] = s[j - 1]
        BY <1>1, <2>1, <3>2
      <4>2. i - 1 = j - 1
        BY <4>1 DEF Circle
      <4>3. QED BY <1>1, <4>2
    <3>3. QED BY <3>1, <3>2
  <2>2. QED BY <2>1
<1>6. nx2[ListHead] = t[1]
  BY <1>1, <1>4
<1>7. pv2[ListHead] = t[Len(t)]
  <2>1. CASE Len(s) = 0
    BY <1>1, <1>2, <1>4, <2>1
  <2>2. CASE Len(s) # 0
    <3>1. t[Len(t)] = s[Len(s)] /\ nx[ListHead] # ListHead
      BY <1>1, <1>2, <2>2, Addressed
    <3>2. QED BY <1>2, <1>3, <1>4, <2>2, <3>1, Addressed
  <2>3. QED BY <2>1, <2>2
<1>8. ASSUME NEW i \in 1 .. Len(t)
      PROVE  /\ nx2[t[i]] = IF i = Len(t) THEN ListHead ELSE t[i + 1]
             /\ pv2[t[i]] = IF i = 1 THEN ListHead ELSE t[i - 1]
  <2>1. CASE i = 1
    <3>1. Len(s) # 0 => t[2] = s[1]
      BY <1>1
    <3>2. QED BY <1>1, <1>2, <1>4, <2>1, <3>1
  <2>2. CASE i # 1
    <3> DEFINE k == i - 1
    <3>1. k \in 1 .. Len(s) /\ t[i] = s[k] /\ s[k] \in Addresses \ {n, ListHead}
      BY <1>1, <2>2, Addressed
    <3>2. /\ nx[s[k]] = IF k = Len(s) THEN ListHead ELSE s[k + 1]
          /\ pv[s[k]] = IF k = 1 THEN ListHead ELSE s[k - 1]
      BY <3>1 DEF Circle
    <3>3. i # Len(t) => t[i + 1] = s[k + 1]
      <4>1. i # Len(t) => i + 1 \in 2 .. Len(s) + 1 /\ i + 1 - 1 = k + 1
        BY <1>1, <2>2
      <4>2. QED BY <1>1, <4>1
    <3>4. nx2[t[i]] = IF i = Len(t) THEN ListHead ELSE t[i + 1]
      BY <1>1, <1>4, <3>1, <3>2, <3>3
    <3>5. pv2[t[i]] = t[i - 1]
      <4>1. CASE k = 1
        BY <1>1, <1>2, <1>4, <3>1, <4>1
      <4>2. CASE k # 1
        <5>1. s[k] # s[1] /\ 1 \in 1 .. Len(s)
          BY <1>1, <3>1, <4>2 DEF Circle
        <5>2. t[i - 1] = s[k - 1]
          BY <1>1, <3>1, <4>2
        <5>3. nx[ListHead] # s[k]
          BY <1>1, <1>2, <3>1, <5>1
        <5>4. QED BY <1>4, <3>1, <3>2, <4>2, <5>2, <5>3
      <4>3. QED BY <4>1, <4>2
    <3>6. QED BY <2>2, <3>4, <3>5
  <2>3. QED BY <2>1, <2>2
<1>9. Circle(t, nx2, pv2)
  BY <1>1, <1>5, <1>6, <1>7, <1>8 DEF Circle
<1>10. QED BY <1>9 DEF t, nx2, pv2

LEMMA CircleInsertTail ==
  ASSUME NEW s \in Seq(Nodes), NEW nx \in Links, NEW pv \in Links, Circle(s, nx, pv),
         NEW n \in Nodes, n \notin ToSet(s)
  PROVE  Circle(Append(s, n), [nx EXCEPT ![n] = ListHead, ![pv[ListHead]] = n],
                [pv EXCEPT ![n] = pv[ListHead], ![ListHead] = n])
<1> DEFINE t == Append(s, n)
           nx2 == [nx EXCEPT ![n] = ListHead, ![pv[ListHead]] = n]
           pv2 == [pv EXCEPT ![n] = pv[ListHead], ![ListHead] = n]
<1>1. /\ Len(s) \in Nat /\ Len(t) = Len(s) + 1 /\ t[Len(s) + 1] = n
      /\ \A i \in 1 .. Len(s) : t[i] = s[i]
      /\ \A i \in 1 .. Len(s) : s[i] \in Nodes /\ s[i] # n
  BY AppendProperties, SeqFacts
<1>2. /\ nx[ListHead] = IF Len(s) = 0 THEN ListHead ELSE s[1]
      /\ pv[ListHead] = IF Len(s) = 0 THEN ListHead ELSE s[Len(s)]
  BY DEF Circle
<1>3. n # ListHead /\ pv[ListHead] # n /\ pv[ListHead] \in Addresses
  BY <1>1, <1>2, Addressed
<1>4. /\ pv2[ListHead] = n /\ pv2[n] = pv[ListHead]
      /\ \A a \in Addresses \ {n, ListHead} : pv2[a] = pv[a]
      /\ nx2[n] = ListHead /\ nx2[pv[ListHead]] = n
      /\ \A a \in Addresses \ {n, pv[ListHead]} : nx2[a] = nx[a]
  BY <1>3, Addressed DEF Links
<1> HIDE DEF t, nx2, pv2
<1>5. \A i, j \in 1 .. Len(t) : t[i] = t[j] => i = j
  <2>1. ASSUME NEW i \in 1 .. Len(t), NEW j \in 1 .. Len(t), t[i] = t[j] PROVE i = j
    <3>1. CASE i = Len(t) \/ j = Len(t)
      BY <1>1, <2>1, <3>1
    <3>2. CASE i # Len(t) /\ j # Len(t)
      <4>1. i \in 1 .. Len(s) /\ j \in 1 .. Len(s) /\ s[i] = s[j]
        BY <1>1, <2>1, <3>2
      <4>2. QED BY <4>1 DEF Circle
    <3>3. QED BY <3>1, <3>2
  <2>2. QED BY <2>1
<1>6. pv2[ListHead] = t[Len(t)]
  BY <1>1, <1>4
<1>7. nx2[ListHead] = t[1]
  <2>1. CASE Len(s) = 0
    BY <1>1, <1>2, <1>4, <2>1
  <2>2. CASE Len(s) # 0
    <3>1. t[1] = s[1] /\ pv[ListHead] # ListHead
      BY <1>1, <1>2, <2>2, Addressed
    <3>2. QED BY <1>2, <1>3, <1>4, <2>2, <3>1, Addressed
  <2>3. QED BY <2>1, <2>2
<1>8. ASSUME NEW i \in 1 .. Len(t)
      PROVE  /\ nx2[t[i]] = IF i = Len(t) THEN ListHead ELSE t[i + 1]
             /\ pv2[t[i]] = IF i = 1 THEN ListHead ELSE t[i - 1]
  <2>1. CASE i = Len(t)
    <3>1. i # 1 => t[i - 1] = s[Len(s)]
      BY <1>1, <2>1
    <3>2. i = 1 <=> Len(s) = 0
      BY <1>1, <2>1
    <3>3. t[i] = n
      BY <1>1, <2>1
    <3>4. QED BY <1>2, <1>4, <2>1, <3>1, <3>2, <3>3
  <2>2. CASE i # Len(t)
    <3>1. i \in 1 .. Len(s) /\ t[i] = s[i] /\ s[i] \in Addresses \ {n, ListHead}
      BY <1>1, <2>2, Addressed
    <3>2. /\ nx[s[i]] = IF i = Len(s) THEN ListHead ELSE s[i + 1]
          /\ pv[s[i]] = IF i = 1 THEN ListHead ELSE s[i - 1]
      BY <3>1 DEF Circle
    <3>3. pv2[t[i]] = IF i = 1 THEN ListHead ELSE t[i - 1]
      <4>1. i # 1 => t[i - 1] = s[i - 1]
        BY <1>1, <3>1
      <4>2. QED BY <1>4, <3>1, <3>2, <4>1
    <3>4. nx2[t[i]] = t[i + 1]
      <4>1. CASE i = Len(s)
        BY <1>1, <1>2, <1>4, <3>1, <4>1
      <4>2. CASE i # Len(s)
        <5>1. s[i] # s[Len(s)] /\ Len(s) \in 1 .. Len(s) /\ Len(s) # 0
          BY <1>1, <3>1, <4>2 DEF Circle
        <5>2. t[i + 1] = s[i + 1]
          BY <1>1, <3>1, <4>2
        <5>3. QED BY <1>2, <1>4, <3>1, <3>2, <4>2, <5>1, <5>2
      <4>3. QED BY <4>1, <4>2
    <3>5. QED BY <2>2, <3>3, <3>4
  <2>3. QED BY <2>1, <2>2
<1>9. Circle(t, nx2, pv2)
  BY <1>1, <1>5, <1>6, <1>7, <1>8 DEF Circle
<1>10. QED BY <1>9 DEF t, nx2, pv2

LEMMA CircleDeleteHead ==
  ASSUME NEW s \in Seq(Nodes), NEW nx \in Links, NEW pv \in Links, Circle(s, nx, pv), Len(s) # 0
  PROVE  Circle(Tail(s), [nx EXCEPT ![ListHead] = nx[nx[ListHead]]],
                [pv EXCEPT ![nx[nx[ListHead]]] = ListHead])
<1> DEFINE t == Tail(s)
           a == nx[nx[ListHead]]
           nx2 == [nx EXCEPT ![ListHead] = a]
           pv2 == [pv EXCEPT ![a] = ListHead]
<1>1. /\ Len(s) \in Nat /\ Len(t) = Len(s) - 1 /\ \A i \in 1 .. Len(s) - 1 : t[i] = s[i + 1]
      /\ \A i \in 1 .. Len(s) : s[i] \in Nodes
  BY HeadTailProperties, SeqFacts
<1>2. nx[ListHead] = s[1] /\ pv[ListHead] = s[Len(s)] /\ 1 \in 1 .. Len(s)
  <2>1. nx[ListHead] = s[1] /\ pv[ListHead] = s[Len(s)]
    BY DEF Circle
  <2>2. QED BY <1>1, <2>1
<1>3. a = IF Len(s) = 1 THEN ListHead ELSE s[2]
  <2>1. nx[s[1]] = IF 1 = Len(s) THEN ListHead ELSE s[1 + 1]
    BY <1>2 DEF Circle
  <2>2. QED BY <1>2, <2>1
<1>4. a \in Addresses
  <2>1. Len(s) # 1 => 2 \in 1 .. Len(s)
    BY <1>1
  <2>2. QED BY <1>1, <1>3, <2>1, Addressed
<1> HIDE DEF a
<1>5. /\ nx2[ListHead] = a /\ \A b \in Addresses \ {ListHead} : nx2[b] = nx[b]
      /\ pv2[a] = ListHead /\ \A b \in Addresses \ {a} : pv2[b] = pv[b]
  BY <1>4, Addressed DEF Links
<1> HIDE DEF t, nx2, pv2
<1>6. \A i, j \in 1 .. Len(t) : t[i] = t[j] => i = j
  <2>1. ASSUME NEW i \in 1 .. Len(t), NEW j \in 1 .. Len(t), t[i] = t[j] PROVE i = j
    <3>1. i + 1 \in 1 .. Len(s) /\ j + 1 \in 1 .. Len(s) /\ s[i + 1] = s[j + 1]
      BY <1>1, <2>1
    <3>2. i + 1 = j + 1
      BY <3>1 DEF Circle
    <3>3. QED BY <1>1, <3>2
  <2>2. QED BY <2>1
<1>7. nx2[ListHead] = IF Len(t) = 0 THEN ListHead ELSE t[1]
  <2>1. CASE Len(s) = 1
    BY <1>1, <1>3, <1>5, <2>1
  <2>2. CASE Len(s) # 1
    <3>1. t[1] = s[2] /\ Len(t) # 0
      BY <1>1, <2>2
    <3>2. QED BY <1>3, <1>5, <2>2, <3>1
  <2>3. QED BY <2>1, <2>2
<1>8. pv2[ListHead] = IF Len(t) = 0 THEN ListHead ELSE t[Len(t)]
  <2>1. CASE Len(s) = 1
    BY <1>1, <1>3, <1>5, <2>1
  <2>2. CASE Len(s) # 1
    <3>1. t[Len(t)] = s[Len(s)] /\ Len(t) # 0 /\ 2 \in 1 .. Len(s)
      BY <1>1, <2>2
    <3>2. a # ListHead
      BY <1>1, <1>3, <2>2, <3>1, Addressed
    <3>3. QED BY <1>2, <1>5, <3>1, <3>2, Addressed
  <2>3. QED BY <2>1, <2>2
<1>9. ASSUME NEW i \in 1 .. Len(t)
      PROVE  /\ nx2[t[i]] = IF i = Len(t) THEN ListHead ELSE t[i + 1]
             /\ pv2[t[i]] = IF i = 1 THEN ListHead ELSE t[i - 1]
  <2> DEFINE k == i + 1
  <2>1. k \in 1 .. Len(s) /\ t[i] = s[k] /\ s[k] \in Addresses \ {ListHead} /\ k # 1 /\ (i = Len(t) <=> k = Len(s))
    BY <1>1, Addressed
  <2>2. /\ nx[s[k]] = IF k = Len(s) THEN ListHead ELSE s[k + 1]
        /\ pv[s[k]] = s[k - 1]
    BY <2>1 DEF Circle
  <2>3. nx2[t[i]] = IF i = Len(t) THEN ListHead ELSE t[i + 1]
    <3>1. i # Len(t) => t[i + 1] = s[k + 1]
      BY <1>1
    <3>2. QED BY <1>5, <2>1, <2>2, <3>1
  <2>4. pv2[t[i]] = IF i = 1 THEN ListHead ELSE t[i - 1]
    <3>1. CASE i = 1
      <4>1. k = 2 /\ Len(s) # 1
        BY <1>1, <3>1
      <4>2. QED BY <1>3, <1>5, <2>1, <3>1, <4>1
    <3>2. CASE i # 1
      <4>1. t[i - 1] = s[k - 1]
        BY <1>1, <3>2
      <4>2. 2 \in 1 .. Len(s) /\ k # 2 /\ Len(s) # 1
        BY <1>1, <3>2
      <4>3. s[k] # a
        BY <1>3, <2>1, <4>2 DEF Circle
      <4>4. QED BY <1>5, <2>1, <2>2, <3>2, <4>1, <4>3
    <3>3. QED BY <3>1, <3>2
  <2>5. QED BY <2>3, <2>4
<1>10. Circle(t, nx2, pv2)
  BY <1>6, <1>7, <1>8, <1>9 DEF Circle
<1>11. QED BY <1>10 DEF t, nx2, pv2, a

LEMMA CircleDeleteTail ==
  ASSUME NEW s \in Seq(Nodes), NEW nx \in Links, NEW pv \in Links, Circle(s, nx, pv), Len(s) # 0
  PROVE  Circle(Front(s), [nx EXCEPT ![pv[pv[ListHead]]] = ListHead],
                [pv EXCEPT ![ListHead] = pv[pv[ListHead]]])
<1> DEFINE t == Front(s)
           a == pv[pv[ListHead]]
           nx2 == [nx EXCEPT ![a] = ListHead]
           pv2 == [pv EXCEPT ![ListHead] = a]
<1>1. /\ Len(s) \in Nat /\ Len(t) = Len(s) - 1 /\ \A i \in 1 .. Len(s) - 1 : t[i] = s[i]
      /\ \A i \in 1 .. Len(s) : s[i] \in Nodes
  <2>1. s # <<>>
    BY EmptySeq
  <2>2. QED BY <2>1, FrontLast, SeqFacts
<1>2. nx[ListHead] = s[1] /\ pv[ListHead] = s[Len(s)] /\ Len(s) \in 1 .. Len(s)
  BY <1>1 DEF Circle
<1>3. a = IF Len(s) = 1 THEN ListHead ELSE s[Len(s) - 1]
  BY <1>1, <1>2 DEF Circle
<1>4. a \in Addresses
  <2>1. Len(s) # 1 => Len(s) - 1 \in 1 .. Len(s)
    BY <1>1
  <2>2. QED BY <1>1, <1>3, <2>1, Addressed
<1> HIDE DEF a
<1>5. /\ pv2[ListHead] = a /\ \A b \in Addresses \ {ListHead} : pv2[b] = pv[b]
      /\ nx2[a] = ListHead /\ \A b \in Addresses \ {a} : nx2[b] = nx[b]
  BY <1>4, Addressed DEF Links
<1> HIDE DEF t, nx2, pv2
<1>6. \A i, j \in 1 .. Len(t) : t[i] = t[j] => i = j
  <2>1. ASSUME NEW i \in 1 .. Len(t), NEW j \in 1 .. Len(t), t[i] = t[j] PROVE i = j
    <3>1. i \in 1 .. Len(s) /\ j \in 1 .. Len(s) /\ s[i] = s[j]
      BY <1>1, <2>1
    <3>2. QED BY <3>1 DEF Circle
  <2>2. QED BY <2>1
<1>7. pv2[ListHead] = IF Len(t) = 0 THEN ListHead ELSE t[Len(t)]
  <2>1. CASE Len(s) = 1
    BY <1>1, <1>3, <1>5, <2>1
  <2>2. CASE Len(s) # 1
    <3>1. t[Len(t)] = s[Len(s) - 1] /\ Len(t) # 0
      BY <1>1, <2>2
    <3>2. QED BY <1>3, <1>5, <2>2, <3>1
  <2>3. QED BY <2>1, <2>2
<1>8. nx2[ListHead] = IF Len(t) = 0 THEN ListHead ELSE t[1]
  <2>1. CASE Len(s) = 1
    BY <1>1, <1>3, <1>5, <2>1
  <2>2. CASE Len(s) # 1
    <3>1. t[1] = s[1] /\ Len(t) # 0 /\ Len(s) - 1 \in 1 .. Len(s)
      BY <1>1, <2>2
    <3>2. a # ListHead
      BY <1>1, <1>3, <2>2, <3>1, Addressed
    <3>3. QED BY <1>2, <1>5, <3>1, <3>2, Addressed
  <2>3. QED BY <2>1, <2>2
<1>9. ASSUME NEW i \in 1 .. Len(t)
      PROVE  /\ nx2[t[i]] = IF i = Len(t) THEN ListHead ELSE t[i + 1]
             /\ pv2[t[i]] = IF i = 1 THEN ListHead ELSE t[i - 1]
  <2>1. i \in 1 .. Len(s) /\ t[i] = s[i] /\ s[i] \in Addresses \ {ListHead} /\ i # Len(s)
    BY <1>1, Addressed
  <2>2. nx[s[i]] = s[i + 1] /\ pv[s[i]] = IF i = 1 THEN ListHead ELSE s[i - 1]
    BY <2>1 DEF Circle
  <2>3. pv2[t[i]] = IF i = 1 THEN ListHead ELSE t[i - 1]
    <3>1. i # 1 => t[i - 1] = s[i - 1]
      BY <1>1
    <3>2. QED BY <1>5, <2>1, <2>2, <3>1
  <2>4. nx2[t[i]] = IF i = Len(t) THEN ListHead ELSE t[i + 1]
    <3>1. CASE i = Len(t)
      <4>1. i = Len(s) - 1 /\ Len(s) # 1
        BY <1>1, <3>1
      <4>2. QED BY <1>3, <1>5, <2>1, <3>1, <4>1
    <3>2. CASE i # Len(t)
      <4>1. t[i + 1] = s[i + 1]
        BY <1>1, <3>2
      <4>2. Len(s) - 1 \in 1 .. Len(s) /\ i # Len(s) - 1 /\ Len(s) # 1
        BY <1>1, <3>2
      <4>3. s[i] # a
        BY <1>3, <2>1, <4>2 DEF Circle
      <4>4. QED BY <1>5, <2>1, <2>2, <3>2, <4>1, <4>3
    <3>3. QED BY <3>1, <3>2
  <2>5. QED BY <2>3, <2>4
<1>10. Circle(t, nx2, pv2)
  BY <1>6, <1>7, <1>8, <1>9 DEF Circle
<1>11. QED BY <1>10 DEF t, nx2, pv2, a

\* The two nodes are at k and k + 1; p and q are their neighbours.
LEMMA CircleSwapNext ==
  ASSUME NEW s \in Seq(Nodes), NEW nx \in Links, NEW pv \in Links, Circle(s, nx, pv),
         NEW k \in 1 .. Len(s), k # Len(s), NEW t \in Seq(Nodes), Len(t) = Len(s),
         \A i \in 1 .. Len(s) : t[i] = IF i = k THEN s[k + 1] ELSE IF i = k + 1 THEN s[k] ELSE s[i]
  PROVE  Circle(t, [nx EXCEPT ![s[k]] = nx[s[k + 1]], ![pv[s[k]]] = s[k + 1], ![s[k + 1]] = s[k]],
                [pv EXCEPT ![nx[s[k + 1]]] = s[k], ![s[k]] = s[k + 1], ![s[k + 1]] = pv[s[k]]])
<1> DEFINE a == s[k]
           b == s[k + 1]
           p == pv[a]
           q == nx[b]
           nx2 == [nx EXCEPT ![a] = q, ![p] = b, ![b] = a]
           pv2 == [pv EXCEPT ![q] = a, ![a] = b, ![b] = p]
<1>1. /\ Len(s) \in Nat /\ k + 1 \in 1 .. Len(s) /\ k \in Nat
      /\ \A i \in 1 .. Len(s) : s[i] \in Nodes
      /\ \A i, j \in 1 .. Len(s) : s[i] = s[j] => i = j
  BY SeqFacts, Indices DEF Circle
<1>2. /\ p = IF k = 1 THEN ListHead ELSE s[k - 1]
      /\ q = IF k + 1 = Len(s) THEN ListHead ELSE s[k + 1 + 1]
  BY <1>1 DEF Circle
<1>3. a \in Nodes /\ b \in Nodes /\ a # b /\ a # ListHead /\ b # ListHead
  BY <1>1, Addressed
<1>4. k # 1 => k - 1 \in 1 .. Len(s)
  BY <1>1, Indices
<1>5. k + 1 # Len(s) => k + 1 + 1 \in 1 .. Len(s)
  BY <1>1, Indices
<1>6. p \in Addresses \ {a, b} /\ q \in Addresses \ {a, b}
  <2>1. k - 1 # k /\ k - 1 # k + 1 /\ k + 1 + 1 # k /\ k + 1 + 1 # k + 1
    BY <1>1
  <2>2. p \in Addresses \ {a, b}
    BY <1>1, <1>2, <1>3, <1>4, <2>1, Addressed
  <2>3. q \in Addresses \ {a, b}
    BY <1>1, <1>2, <1>3, <1>5, <2>1, Addressed
  <2>4. QED BY <2>2, <2>3
<1>7. \A i \in 1 .. Len(s) : t[i] = IF i = k THEN b ELSE IF i = k + 1 THEN a ELSE s[i]
  OBVIOUS
<1>8. a \in Addresses /\ b \in Addresses
  BY <1>3, Addressed
<1> HIDE DEF p, q
<1>9. /\ nx2[a] = q /\ nx2[p] = b /\ nx2[b] = a /\ \A c \in Addresses \ {a, b, p} : nx2[c] = nx[c]
      /\ pv2[q] = a /\ pv2[a] = b /\ pv2[b] = p /\ \A c \in Addresses \ {a, b, q} : pv2[c] = pv[c]
  BY <1>3, <1>6, <1>8 DEF Links
<1>10. \A i \in 1 .. Len(s) : i # k /\ i # k + 1 => s[i] # a /\ s[i] # b
  BY <1>1
<1>11. nx[ListHead] = s[1] /\ pv[ListHead] = s[Len(s)] /\ Len(s) # 0 /\ 1 \in 1 .. Len(s) /\ Len(s) \in 1 .. Len(s)
  <2>1. Len(s) # 0 /\ 1 \in 1 .. Len(s) /\ Len(s) \in 1 .. Len(s)
    BY <1>1
  <2>2. QED BY <2>1 DEF Circle
<1> HIDE DEF a, b, nx2, pv2
<1>12. \A i, j \in 1 .. Len(t) : t[i] = t[j] => i = j
  BY <1>1, <1>3, <1>7, <1>10
<1>13. nx2[ListHead] = t[1]
  <2>1. CASE k = 1
    BY <1>2, <1>7, <1>9, <1>11, <2>1
  <2>2. CASE k # 1
    <3>1. t[1] = s[1] /\ p # ListHead
      BY <1>1, <1>2, <1>4, <1>7, <1>11, <2>2, Addressed
    <3>2. QED BY <1>3, <1>9, <1>11, <3>1, Addressed
  <2>3. QED BY <2>1, <2>2
<1>14. pv2[ListHead] = t[Len(t)]
  <2>1. CASE k + 1 = Len(s)
    BY <1>1, <1>2, <1>7, <1>9, <1>11, <2>1
  <2>2. CASE k + 1 # Len(s)
    <3>1. t[Len(s)] = s[Len(s)] /\ q # ListHead
      BY <1>1, <1>2, <1>5, <1>7, <1>11, <2>2, Addressed
    <3>2. QED BY <1>3, <1>9, <1>11, <3>1, Addressed
  <2>3. QED BY <2>1, <2>2
<1>15. ASSUME NEW i \in 1 .. Len(s) PROVE nx2[t[i]] = IF i = Len(s) THEN ListHead ELSE t[i + 1]
  <2>1. CASE i = k
    BY <1>1, <1>7, <1>9, <2>1
  <2>2. CASE i = k + 1
    <3>1. k + 1 # Len(s) => t[i + 1] = s[k + 1 + 1]
      BY <1>1, <1>5, <1>7, <2>2
    <3>2. t[i] = a
      BY <1>1, <1>7, <2>2
    <3>3. QED BY <1>2, <1>9, <2>2, <3>1, <3>2
  <2>3. CASE i # k /\ i # k + 1
    <3>1. t[i] = s[i] /\ s[i] \in Addresses \ {a, b} /\ s[i] # ListHead
      BY <1>1, <1>7, <1>10, <2>3, Addressed
    <3>2. nx[s[i]] = IF i = Len(s) THEN ListHead ELSE s[i + 1]
      BY DEF Circle
    <3>3. CASE i + 1 = k
      <4>1. k # 1 /\ k - 1 = i /\ i # Len(s)
        BY <1>1, <3>3
      <4>2. t[i + 1] = b
        BY <1>7, <3>3
      <4>3. QED BY <1>2, <1>9, <3>1, <4>1, <4>2
    <3>4. CASE i + 1 # k
      <4>1. p # s[i]
        <5>1. k # 1 => k - 1 # i
          BY <1>1, <3>4
        <5>2. QED BY <1>1, <1>2, <1>4, <3>1, <5>1
      <4>2. i # Len(s) => t[i + 1] = s[i + 1]
        <5>1. i + 1 # k + 1 /\ (i # Len(s) => i + 1 \in 1 .. Len(s))
          BY <1>1, <2>3
        <5>2. QED BY <1>7, <3>4, <5>1
      <4>3. QED BY <1>9, <3>1, <3>2, <4>1, <4>2
    <3>5. QED BY <3>3, <3>4
  <2>4. QED BY <2>1, <2>2, <2>3
<1>16. ASSUME NEW i \in 1 .. Len(s) PROVE pv2[t[i]] = IF i = 1 THEN ListHead ELSE t[i - 1]
  <2>1. CASE i = k
    <3>1. k # 1 => t[i - 1] = s[k - 1]
      BY <1>1, <1>4, <1>7, <2>1
    <3>2. t[i] = b
      BY <1>7, <2>1
    <3>3. QED BY <1>2, <1>9, <2>1, <3>1, <3>2
  <2>2. CASE i = k + 1
    <3>1. t[i] = a /\ i # 1 /\ t[i - 1] = b
      BY <1>1, <1>7, <2>2
    <3>2. QED BY <1>9, <3>1
  <2>3. CASE i # k /\ i # k + 1
    <3>1. t[i] = s[i] /\ s[i] \in Addresses \ {a, b} /\ s[i] # ListHead
      BY <1>1, <1>7, <1>10, <2>3, Addressed
    <3>2. pv[s[i]] = IF i = 1 THEN ListHead ELSE s[i - 1]
      BY DEF Circle
    <3>3. CASE i = k + 1 + 1
      <4>1. k + 1 # Len(s) /\ i # 1 /\ i - 1 = k + 1
        BY <1>1, <3>3
      <4>2. t[i - 1] = a
        BY <1>1, <1>7, <4>1
      <4>3. QED BY <1>2, <1>9, <3>1, <3>3, <4>1, <4>2
    <3>4. CASE i # k + 1 + 1
      <4>1. q # s[i]
        BY <1>1, <1>2, <1>5, <3>1, <3>4
      <4>2. i # 1 => t[i - 1] = s[i - 1]
        <5>1. i - 1 # k + 1 /\ i - 1 # k /\ (i # 1 => i - 1 \in 1 .. Len(s))
          BY <1>1, <2>3, <3>4
        <5>2. QED BY <1>7, <5>1
      <4>3. QED BY <1>9, <3>1, <3>2, <4>1, <4>2
    <3>5. QED BY <3>3, <3>4
  <2>4. QED BY <2>1, <2>2, <2>3
<1>17. Circle(t, nx2, pv2)
  BY <1>1, <1>11, <1>12, <1>13, <1>14, <1>15, <1>16 DEF Circle
<1>18. QED BY <1>17 DEF nx2, pv2, a, b, p, q
-------------------------------------------------------------------------------
(***************************************************************************)
(* The invariant.                                                          *)
(***************************************************************************)

\* A node is held by the caller or in the list, not both, and either way has
\* its data; DeInit is at one of the list's nodes or back at the head.
Placed ==
  /\ held \cap ToSet(order) = {}
  /\ node \in {Null, ListHead} \cup ToSet(order)
  /\ \A n \in held \cup ToSet(order) : nodeData[n] \in Data

Inv == TypeOK /\ Circle(order, next, prev) /\ NoNodeLost /\ NeverUsesFreed /\ Placed

LEMMA InvFacts ==
  ASSUME Inv
  PROVE  /\ Len(order) \in Nat /\ DOMAIN order = 1 .. Len(order)
         /\ \A i \in 1 .. Len(order) : order[i] \in Nodes
         /\ ToSet(order) \subseteq Nodes
         /\ \A n : n \in ToSet(order) <=> \E i \in 1 .. Len(order) : order[i] = n
         /\ next \in Links /\ prev \in Links /\ order \in Seq(Nodes)
         /\ next[ListHead] = IF Len(order) = 0 THEN ListHead ELSE order[1]
         /\ prev[ListHead] = IF Len(order) = 0 THEN ListHead ELSE order[Len(order)]
BY SeqFacts DEF Inv, TypeOK, Links, Circle

\* Outside DeInit the caller may reach the list's nodes and the head only, and
\* the links of these lead to one another.
LEMMA NothingFreedIsReached ==
  ASSUME Inv
  PROVE  Dereferenced \subseteq alloc
<1>1. CASE node = Null
  <2>1. alloc \ held = ToSet(order) \cup {ListHead} /\ ToSet(order) \cup {ListHead} \subseteq alloc
    BY <1>1, Addressed DEF Inv, NoNodeLost, Unfreed, Placed, TypeOK
  <2>2. ASSUME NEW n \in ToSet(order) \cup {ListHead}
        PROVE  next[n] \in ToSet(order) \cup {ListHead} /\ prev[n] \in ToSet(order) \cup {ListHead}
    <3>1. CASE n = ListHead
      <4>1. Len(order) # 0 => 1 \in 1 .. Len(order) /\ Len(order) \in 1 .. Len(order)
        BY InvFacts
      <4>2. QED BY <3>1, <4>1, InvFacts
    <3>2. ASSUME NEW i \in 1 .. Len(order), n = order[i]
          PROVE  next[n] \in ToSet(order) \cup {ListHead} /\ prev[n] \in ToSet(order) \cup {ListHead}
      <4>1. (i # Len(order) => i + 1 \in 1 .. Len(order)) /\ (i # 1 => i - 1 \in 1 .. Len(order))
        BY InvFacts, Indices
      <4>2. /\ next[n] = IF i = Len(order) THEN ListHead ELSE order[i + 1]
            /\ prev[n] = IF i = 1 THEN ListHead ELSE order[i - 1]
        BY <3>2 DEF Inv, Circle
      <4>3. QED BY <4>1, <4>2, InvFacts
    <3>3. QED BY <2>2, <3>1, <3>2, InvFacts
  <2>3. QED BY <1>1, <2>1, <2>2 DEF Dereferenced
<1>2. CASE node # Null
  <2>1. CASE node = ListHead
    BY <1>2, <2>1 DEF Dereferenced, Inv, TypeOK
  <2>2. CASE node \in ToSet(order)
    <3>1. PICK i \in 1 .. Len(order) : order[i] = node
      BY <2>2, InvFacts
    <3>2. i >= i
      BY InvFacts
    <3>3. node \in Unfreed
      BY <1>2, <2>2, <3>1, <3>2, InvFacts DEF Unfreed
    <3>4. QED BY <1>2, <3>3 DEF Dereferenced, Inv, NoNodeLost
  <2>3. QED BY <1>2, <2>1, <2>2 DEF Inv, Placed
<1>3. QED BY <1>1, <1>2

LEMMA InvInit == Init => Inv
<1> SUFFICES ASSUME Init PROVE Inv
  OBVIOUS
<1>1. /\ order = <<>> /\ alloc = {ListHead} /\ held = {} /\ node = Null /\ usedFreed = FALSE
      /\ next[ListHead] = ListHead /\ prev[ListHead] = ListHead
  BY Addressed DEF Init
<1>2. Len(order) = 0 /\ ToSet(order) = {}
  BY <1>1 DEF ToSet
<1>3. Circle(order, next, prev)
  BY <1>1, <1>2 DEF Circle
<1>4. NoNodeLost /\ NeverUsesFreed /\ Placed
  BY <1>1, <1>2 DEF NoNodeLost, NeverUsesFreed, Placed, Unfreed
<1>5. QED BY <1>3, <1>4, TypesInit DEF Inv

LEMMA CreateKeeps ==
  ASSUME Inv, NEW n \in Nodes, NEW d \in Data, Create(n, d)
  PROVE  Circle(order, next, prev)' /\ NoNodeLost' /\ Placed'
<1>1. /\ node = Null /\ n \notin alloc /\ alloc' = alloc \cup {n} /\ held' = held \cup {n}
      /\ nodeData' = [nodeData EXCEPT ![n] = d] /\ UNCHANGED <<node, order>>
      /\ next' = [next EXCEPT ![n] = n] /\ prev' = [prev EXCEPT ![n] = n]
  BY DEF Create
<1>2. n \notin held /\ n \notin ToSet(order) /\ n # ListHead
  BY <1>1, Addressed DEF Inv, NoNodeLost, Unfreed
<1>3. /\ \A i \in 1 .. Len(order) : order[i] # n
      /\ \A a \in Addresses \ {n} : next'[a] = next[a] /\ prev'[a] = prev[a]
  BY <1>1, <1>2, InvFacts DEF Links
<1>4. Circle(order, next, prev)'
  BY <1>1, <1>2, <1>3, InvFacts, Addressed DEF Inv, Circle
<1>5. NoNodeLost'
  BY <1>1, <1>2 DEF Inv, NoNodeLost, Unfreed
<1>6. Placed'
  BY <1>1, <1>2, Addressed DEF Inv, Placed, TypeOK
<1>7. QED BY <1>4, <1>5, <1>6

LEMMA InsertKeeps ==
  ASSUME Inv, NEW n \in Nodes, InsertHead(n) \/ InsertTail(n)
  PROVE  Circle(order, next, prev)' /\ NoNodeLost' /\ Placed'
<1>1. /\ node = Null /\ n \in held /\ held' = held \ {n} /\ UNCHANGED <<nodeData, alloc, node>>
      /\ n \notin ToSet(order)
  BY DEF InsertHead, InsertTail, Inv, Placed
<1>2. Circle(order, next, prev)'
  <2>1. CASE InsertHead(n)
    <3>1. /\ order' = <<n>> \o order
          /\ next' = [next EXCEPT ![n] = next[ListHead], ![ListHead] = n]
          /\ prev' = [prev EXCEPT ![n] = ListHead, ![next[ListHead]] = n]
      BY <2>1 DEF InsertHead
    <3>2. QED BY <1>1, <3>1, InvFacts, CircleInsertHead DEF Inv
  <2>2. CASE InsertTail(n)
    <3>1. /\ order' = Append(order, n)
          /\ next' = [next EXCEPT ![n] = ListHead, ![prev[ListHead]] = n]
          /\ prev' = [prev EXCEPT ![n] = prev[ListHead], ![ListHead] = n]
      BY <2>2 DEF InsertTail
    <3>2. QED BY <1>1, <3>1, InvFacts, CircleInsertTail DEF Inv
  <2>3. QED BY <2>1, <2>2
<1>3. ToSet(order') = ToSet(order) \cup {n}
  <2> DEFINE m == Len(order)
  <2>1. /\ m \in Nat /\ order' \in Seq(Nodes) /\ Len(order') = m + 1
        /\ \A i \in 1 .. m : order[i] \in Nodes
        /\ \/ order'[1] = n /\ \A i \in 2 .. m + 1 : order'[i] = order[i - 1]
           \/ order'[m + 1] = n /\ \A i \in 1 .. m : order'[i] = order[i]
    <3>1. CASE InsertHead(n)
      <4>1. order' = <<n>> \o order
        BY <3>1 DEF InsertHead
      <4>2. QED BY <4>1, InvFacts, Prepended
    <3>2. CASE InsertTail(n)
      <4>1. order' = Append(order, n)
        BY <3>2 DEF InsertTail
      <4>2. QED BY <4>1, InvFacts, AppendProperties
    <3>3. QED BY <3>1, <3>2
  <2> HIDE DEF m
  <2>2. \A a : (\E i \in 1 .. m + 1 : order'[i] = a) <=> a = n \/ \E i \in 1 .. m : order[i] = a
    <3>1. CASE order'[1] = n /\ \A i \in 2 .. m + 1 : order'[i] = order[i - 1]
      <4>1. \A i \in 1 .. m : i + 1 \in 2 .. m + 1 /\ order'[i + 1] = order[i]
        BY <2>1, <3>1
      <4>2. \A i \in 1 .. m + 1 : i = 1 \/ (i - 1 \in 1 .. m /\ order'[i] = order[i - 1])
        BY <2>1, <3>1
      <4>3. 1 \in 1 .. m + 1 /\ \A i \in 2 .. m + 1 : i \in 1 .. m + 1
        BY <2>1
      <4>4. ASSUME NEW a, NEW i \in 1 .. m, order[i] = a PROVE \E j \in 1 .. m + 1 : order'[j] = a
        BY <4>1, <4>3, <4>4
      <4>5. QED BY <3>1, <4>2, <4>3, <4>4
    <3>2. CASE order'[m + 1] = n /\ \A i \in 1 .. m : order'[i] = order[i]
      <4>1. /\ m + 1 \in 1 .. m + 1 /\ \A i \in 1 .. m : i \in 1 .. m + 1
            /\ \A i \in 1 .. m + 1 : i = m + 1 \/ i \in 1 .. m
        BY <2>1
      <4>2. QED BY <3>2, <4>1
    <3>3. QED BY <2>1, <3>1, <3>2
  <2>3. \A a : a \in ToSet(order') <=> \E i \in 1 .. m + 1 : order'[i] = a
    BY <2>1, SeqFacts
  <2>4. \A a : a \in ToSet(order) <=> \E i \in 1 .. m : order[i] = a
    BY InvFacts DEF m
  <2>5. QED BY <2>2, <2>3, <2>4
<1>4. NoNodeLost'
  BY <1>1, <1>3 DEF Inv, NoNodeLost, Unfreed
<1>5. Placed'
  BY <1>1, <1>3 DEF Inv, Placed
<1>6. QED BY <1>2, <1>4, <1>5

\* The first or the last node leaves the list and the heap.
LEMMA DeleteKeeps ==
  ASSUME Inv, DeleteHead \/ DeleteTail
  PROVE  Circle(order, next, prev)' /\ NoNodeLost' /\ Placed'
<1> DEFINE m == Len(order)
           k == IF DeleteHead THEN 1 ELSE m
<1>1. node = Null /\ m # 0 /\ m \in Nat /\ k \in 1 .. m
  <2>1. node = Null /\ (DeleteHead => next[ListHead] # ListHead) /\ (DeleteTail => prev[ListHead] # ListHead)
    BY DEF DeleteHead, DeleteTail
  <2>2. m # 0 /\ m \in Nat
    BY <2>1, InvFacts
  <2>3. QED BY <2>1, <2>2
<1>2. order # <<>>
  BY <1>1, EmptySeq
<1>3. /\ alloc' = alloc \ {order[k]} /\ UNCHANGED <<nodeData, held, node>>
      /\ \/ DeleteHead /\ k = 1 /\ order' = Tail(order)
         \/ DeleteTail /\ k = m /\ order' = Front(order)
  <2>1. next[ListHead] = order[1] /\ prev[ListHead] = order[m]
    BY <1>1, InvFacts
  <2>2. CASE DeleteHead
    BY <1>2, <2>1, <2>2 DEF DeleteHead
  <2>3. CASE ~DeleteHead /\ DeleteTail
    BY <1>2, <2>1, <2>3 DEF DeleteTail
  <2>4. QED BY <2>2, <2>3
<1> HIDE DEF k
<1>4. Circle(order, next, prev)'
  <2>1. CASE DeleteHead /\ order' = Tail(order)
    <3>1. /\ next' = [next EXCEPT ![ListHead] = next[next[ListHead]]]
          /\ prev' = [prev EXCEPT ![next[next[ListHead]]] = ListHead]
      BY <2>1 DEF DeleteHead
    <3>2. QED BY <1>1, <2>1, <3>1, InvFacts, CircleDeleteHead DEF Inv
  <2>2. CASE DeleteTail /\ order' = Front(order)
    <3>1. /\ prev' = [prev EXCEPT ![ListHead] = prev[prev[ListHead]]]
          /\ next' = [next EXCEPT ![prev[prev[ListHead]]] = ListHead]
      BY <2>2 DEF DeleteTail
    <3>2. QED BY <1>1, <2>2, <3>1, InvFacts, CircleDeleteTail DEF Inv
  <2>3. QED BY <1>3, <2>1, <2>2
<1>5. ToSet(order') = ToSet(order) \ {order[k]}
  <2>1. /\ order' \in Seq(Nodes) /\ Len(order') = m - 1
        /\ \/ k = 1 /\ \A i \in 1 .. m - 1 : order'[i] = order[i + 1]
           \/ k = m /\ \A i \in 1 .. m - 1 : order'[i] = order[i]
    <3>1. CASE k = 1 /\ order' = Tail(order)
      BY <1>2, <3>1, InvFacts, HeadTailProperties
    <3>2. CASE k = m /\ order' = Front(order)
      BY <1>2, <3>2, InvFacts, FrontLast
    <3>3. QED BY <1>3, <3>1, <3>2
  <2>2. \A a : a \in ToSet(order') <=> \E i \in 1 .. m - 1 : order'[i] = a
    BY <2>1, SeqFacts
  <2>3. \A a : a \in ToSet(order) <=> \E i \in 1 .. m : order[i] = a
    BY InvFacts
  <2>4. \A i, j \in 1 .. m : order[i] = order[j] => i = j
    BY DEF Inv, Circle
  <2> HIDE DEF m
  <2>5. \A a : (\E i \in 1 .. m - 1 : order'[i] = a) <=> a # order[k] /\ \E i \in 1 .. m : order[i] = a
    <3>1. CASE k = 1 /\ \A i \in 1 .. m - 1 : order'[i] = order[i + 1]
      <4>1. \A i \in 1 .. m - 1 : i + 1 \in 1 .. m /\ i + 1 # k /\ order'[i] = order[i + 1]
        BY <1>1, <3>1
      <4>2. \A i \in 1 .. m : i # k => i - 1 \in 1 .. m - 1 /\ order'[i - 1] = order[i]
        BY <1>1, <3>1
      <4>3. QED BY <1>1, <2>4, <4>1, <4>2
    <3>2. CASE k = m /\ \A i \in 1 .. m - 1 : order'[i] = order[i]
      <4>1. /\ \A i \in 1 .. m - 1 : i \in 1 .. m /\ i # k
            /\ \A i \in 1 .. m : i # k => i \in 1 .. m - 1
        BY <1>1, <3>2
      <4>2. QED BY <1>1, <2>4, <3>2, <4>1
    <3>3. QED BY <2>1, <3>1, <3>2
  <2>6. QED BY <2>2, <2>3, <2>5
<1>6. order[k] \in ToSet(order) /\ order[k] \notin held /\ order[k] # ListHead
  <2>1. order[k] \in ToSet(order)
    BY <1>1, InvFacts
  <2>2. QED BY <2>1, InvFacts, Addressed DEF Inv, Placed
<1>7. NoNodeLost'
  BY <1>1, <1>3, <1>5, <1>6 DEF Inv, NoNodeLost, Unfreed
<1>8. Placed'
  BY <1>1, <1>3, <1>5 DEF Inv, Placed
<1>9. QED BY <1>4, <1>7, <1>8

\* Where the two nodes are, and the order with both exchanged.
LEMMA SwapAt ==
  ASSUME Inv, NEW n1 \in Nodes, NEW n2 \in Nodes, SwapAdjacent(n1, n2)
  PROVE  \E k \in 1 .. Len(order) :
           /\ k # Len(order) /\ k + 1 \in 1 .. Len(order)
           /\ \/ n1 = order[k] /\ n2 = order[k + 1] /\ SwapNext(n1, n2)
              \/ n2 = order[k] /\ n1 = order[k + 1] /\ SwapNext(n2, n1)
           /\ order' \in Seq(Nodes) /\ Len(order') = Len(order)
           /\ \A i \in 1 .. Len(order) :
                order'[i] = IF i = k THEN order[k + 1] ELSE IF i = k + 1 THEN order[k] ELSE order[i]
<1>1. /\ order' = Exchanged(n1, n2)
      /\ \/ next[n1] = n2 /\ SwapNext(n1, n2)
         \/ prev[n1] = n2 /\ SwapNext(n2, n1)
  BY DEF SwapAdjacent
<1>2. PICK j \in 1 .. Len(order) : order[j] = n1
  BY DEF SwapAdjacent, Linked, Contains
<1>3. n2 # ListHead /\ Len(order) \in Nat
  BY InvFacts, Addressed
<1>4. PICK k \in 1 .. Len(order) :
        /\ k # Len(order) /\ k + 1 \in 1 .. Len(order)
        /\ \/ n1 = order[k] /\ n2 = order[k + 1] /\ SwapNext(n1, n2)
           \/ n2 = order[k] /\ n1 = order[k + 1] /\ SwapNext(n2, n1)
  <2>1. CASE next[n1] = n2 /\ SwapNext(n1, n2)
    <3>1. j # Len(order) /\ order[j + 1] = n2
      BY <1>2, <1>3, <2>1 DEF Inv, Circle
    <3>2. j + 1 \in 1 .. Len(order)
      BY <1>3, <3>1, Indices
    <3>3. QED BY <1>2, <2>1, <3>1, <3>2
  <2>2. CASE prev[n1] = n2 /\ SwapNext(n2, n1)
    <3>1. j # 1 /\ order[j - 1] = n2
      BY <1>2, <1>3, <2>2 DEF Inv, Circle
    <3>2. j - 1 \in 1 .. Len(order) /\ j - 1 # Len(order) /\ (j - 1) + 1 = j
      BY <1>3, <3>1
    <3>3. QED BY <1>2, <2>2, <3>1, <3>2
  <2>3. QED BY <1>1, <2>1, <2>2
<1>5. /\ order' \in Seq(Nodes) /\ Len(order') = Len(order)
      /\ \A i \in 1 .. Len(order) : order'[i] =
           IF order[i] = n1 THEN n2 ELSE IF order[i] = n2 THEN n1 ELSE order[i]
  <2>1. order \in Seq(Nodes)
    BY InvFacts
  <2> DEFINE t == Exchanged(n1, n2)
  <2>2. /\ t \in Seq(Nodes) /\ Len(t) = Len(order)
        /\ \A i \in 1 .. Len(order) : t[i] =
             IF order[i] = n1 THEN n2 ELSE IF order[i] = n2 THEN n1 ELSE order[i]
    BY <2>1, ExchangedAt, ZenonT(40)
  <2>3. order' = t
    BY <1>1
  <2> HIDE DEF t
  <2>4. QED BY <2>2, <2>3
<1>6. \A i \in 1 .. Len(order) : (order[i] = order[k] <=> i = k) /\ (order[i] = order[k + 1] <=> i = k + 1)
  BY <1>4 DEF Inv, Circle
<1>7. \A i \in 1 .. Len(order) :
        order'[i] = IF i = k THEN order[k + 1] ELSE IF i = k + 1 THEN order[k] ELSE order[i]
  <2>1. k # k + 1
    BY <1>3
  <2>2. CASE n1 = order[k] /\ n2 = order[k + 1]
    BY <1>5, <1>6, <2>1, <2>2
  <2>3. CASE n2 = order[k] /\ n1 = order[k + 1]
    BY <1>5, <1>6, <2>1, <2>3
  <2>4. QED BY <1>4, <2>2, <2>3
<1>8. QED BY <1>4, <1>5, <1>7

LEMMA SwapKeeps ==
  ASSUME Inv, NEW n1 \in Nodes, NEW n2 \in Nodes, SwapAdjacent(n1, n2)
  PROVE  Circle(order, next, prev)' /\ NoNodeLost' /\ Placed'
<1>1. PICK k \in 1 .. Len(order) :
        /\ k # Len(order) /\ k + 1 \in 1 .. Len(order)
        /\ SwapNext(order[k], order[k + 1])
        /\ order' \in Seq(Nodes) /\ Len(order') = Len(order)
        /\ \A i \in 1 .. Len(order) :
             order'[i] = IF i = k THEN order[k + 1] ELSE IF i = k + 1 THEN order[k] ELSE order[i]
  BY SwapAt
<1>2. /\ next' = [next EXCEPT ![order[k]] = next[order[k + 1]], ![prev[order[k]]] = order[k + 1],
                              ![order[k + 1]] = order[k]]
      /\ prev' = [prev EXCEPT ![next[order[k + 1]]] = order[k], ![order[k]] = order[k + 1],
                              ![order[k + 1]] = prev[order[k]]]
  BY <1>1 DEF SwapNext
<1>3. Circle(order, next, prev)'
  BY <1>1, <1>2, InvFacts, CircleSwapNext DEF Inv
<1>4. ToSet(order') = ToSet(order)
  <2>1. \A a : a \in ToSet(order') <=> \E i \in 1 .. Len(order) : order'[i] = a
    BY <1>1, SeqFacts
  <2>2. \A a : a \in ToSet(order) <=> \E i \in 1 .. Len(order) : order[i] = a
    BY InvFacts
  <2>3. k # k + 1
    BY InvFacts
  <2>4. \A a : (\E i \in 1 .. Len(order) : order'[i] = a) <=> \E i \in 1 .. Len(order) : order[i] = a
    BY <1>1, <2>3
  <2>5. QED BY <2>1, <2>2, <2>4
<1>5. node = Null /\ UNCHANGED <<nodeData, alloc, held, node>>
  BY DEF SwapAdjacent
<1>6. QED BY <1>3, <1>4, <1>5 DEF Inv, NoNodeLost, Unfreed, Placed

\* DeInit frees the nodes from the first to the last, then the list is empty.
LEMMA DeInitKeeps ==
  ASSUME Inv, DeInitBegin \/ DeInitFree \/ DeInitEnd
  PROVE  Circle(order, next, prev)' /\ NoNodeLost' /\ Placed'
<1>1. CASE DeInitBegin
  <2>1. node = Null /\ node' = next[ListHead] /\ UNCHANGED <<next, prev, nodeData, alloc, held, order>>
    BY <1>1 DEF DeInitBegin, links
  <2>2. ToSet(order) = Unfreed' /\ node' \in {ListHead} \cup ToSet(order)
    <3>1. CASE Len(order) = 0
      <4>1. node' = ListHead /\ ToSet(order) = {}
        BY <2>1, <3>1, InvFacts
      <4>2. QED BY <2>1, <4>1, ConstantsAssumption DEF Unfreed
    <3>2. CASE Len(order) # 0
      <4>1. node' = order[1] /\ 1 \in 1 .. Len(order) /\ \A k \in 1 .. Len(order) : k >= 1
        BY <2>1, <3>2, InvFacts
      <4>2. node' \in ToSet(order) /\ node' # Null
        BY <4>1, InvFacts, ConstantsAssumption
      <4>3. \A n \in ToSet(order) : \E i, k \in 1 .. Len(order) : order[i] = node' /\ k >= i /\ order[k] = n
        BY <4>1, InvFacts
      <4>4. QED BY <2>1, <4>2, <4>3, InvFacts DEF Unfreed
    <3>3. QED BY <3>1, <3>2
  <2>3. QED BY <2>1, <2>2 DEF Inv, Circle, NoNodeLost, Unfreed, Placed
<1>2. CASE DeInitFree
  <2>1. /\ node \in alloc /\ node # ListHead /\ node' = next[node] /\ alloc' = alloc \ {node}
        /\ UNCHANGED <<next, prev, nodeData, held, order>>
    BY <1>2 DEF DeInitFree, links
  <2>2. node # Null /\ node \in ToSet(order) /\ node \notin held
    BY <2>1, Addressed DEF Inv, TypeOK, Placed
  <2>3. PICK i \in 1 .. Len(order) : order[i] = node
    BY <2>2, InvFacts
  <2>4. node' = IF i = Len(order) THEN ListHead ELSE order[i + 1]
    BY <2>1, <2>3 DEF Inv, Circle
  <2>5. \A j \in 1 .. Len(order) : order[j] = node <=> j = i
    BY <2>3 DEF Inv, Circle
  <2>6. \A n : n \in Unfreed <=> \E k \in 1 .. Len(order) : k >= i /\ order[k] = n
    BY <2>2, <2>5, InvFacts DEF Unfreed
  <2>7. \A n : n \in Unfreed' <=> \E k \in 1 .. Len(order) : k >= i + 1 /\ order[k] = n
    <3>1. CASE i = Len(order)
      <4>1. node' = ListHead /\ node' # Null /\ \A j \in 1 .. Len(order) : order[j] # node'
        BY <2>4, <3>1, InvFacts, Addressed
      <4>2. \A k \in 1 .. Len(order) : ~(k >= i + 1)
        BY <3>1, InvFacts
      <4>3. QED BY <2>1, <4>1, <4>2, InvFacts DEF Unfreed
    <3>2. CASE i # Len(order)
      <4>1. node' = order[i + 1] /\ i + 1 \in 1 .. Len(order)
        BY <2>4, <3>2, InvFacts, Indices
      <4>2. node' # Null /\ \A j \in 1 .. Len(order) : order[j] = node' <=> j = i + 1
        BY <4>1, InvFacts, Addressed DEF Inv, Circle
      <4>3. QED BY <2>1, <4>1, <4>2, InvFacts DEF Unfreed
    <3>3. QED BY <3>1, <3>2
  <2>8. Unfreed' = Unfreed \ {node}
    <3>1. \A k \in 1 .. Len(order) : k >= i + 1 <=> k >= i /\ k # i
      BY InvFacts
    <3>2. QED BY <2>5, <2>6, <2>7, <3>1
  <2>9. NoNodeLost'
    BY <2>1, <2>2, <2>8 DEF Inv, NoNodeLost
  <2>10. node' \in {ListHead} \cup ToSet(order)
    BY <2>4, InvFacts, Indices
  <2>11. QED BY <2>1, <2>9, <2>10 DEF Inv, Circle, Placed
<1>3. CASE DeInitEnd
  <2>1. /\ node = ListHead /\ node' = Null /\ order' = <<>> /\ UNCHANGED <<nodeData, alloc, held>>
        /\ next'[ListHead] = ListHead /\ prev'[ListHead] = ListHead
    BY <1>3, Addressed, InvFacts DEF DeInitEnd, Links
  <2>2. Unfreed = {}
    <3>1. \A j \in 1 .. Len(order) : order[j] # node
      BY <2>1, InvFacts, Addressed
    <3>2. QED BY <2>1, <3>1, InvFacts, Addressed DEF Unfreed
  <2>3. Len(order') = 0 /\ ToSet(order') = {}
    BY <2>1 DEF ToSet
  <2>4. Circle(order, next, prev)'
    BY <2>1, <2>3 DEF Circle
  <2>5. QED BY <2>1, <2>2, <2>3, <2>4 DEF Inv, NoNodeLost, Unfreed, Placed
<1>4. QED BY <1>1, <1>2, <1>3

LEMMA InvStep == Inv /\ [Next]_vars => Inv'
<1> SUFFICES ASSUME Inv, Next \/ UNCHANGED vars PROVE Inv'
  OBVIOUS
<1>1. TypeOK'
  BY TypesStep DEF Inv
<1>2. ~UseFreed
  BY NothingFreedIsReached DEF UseFreed
<1>3. NeverUsesFreed'
  BY <1>2 DEF Inv, NeverUsesFreed, Next, Grow, Shrink, Create, InsertHead, InsertTail, SwapAdjacent, DeleteHead,
    DeleteTail, DeInitBegin, DeInitFree, DeInitEnd, vars
<1>4. CASE UNCHANGED vars
  BY <1>4, <1>1, <1>3 DEF Inv, Circle, NoNodeLost, Unfreed, Placed, vars, links
<1>5. CASE Next
  BY <1>1, <1>2, <1>3, <1>5, CreateKeeps, InsertKeeps, DeleteKeeps, SwapKeeps, DeInitKeeps
    DEF Inv, Next, Grow, Shrink
<1>6. QED BY <1>4, <1>5

LEMMA Invariance == Spec => []Inv
BY InvInit, InvStep, PTL DEF Spec

\* Following next visits the nodes in the order the calls ask for, following
\* prev visits them backwards, and no node is there twice, whatever the calls
\* (linked_list.c:52-130).
THEOREM ListIsCircular == Spec => []LinksMatchOrder
<1>1. Inv => LinksMatchOrder
  BY InvFacts, CircleMatchesOrder DEF Inv
<1>2. QED BY <1>1, Invariance, PTL

\* The nodes allocated are those in the list, or those DeInit has still to free,
\* and those the caller has not inserted yet (linked_list.c:23-30, 95 and 114).
THEOREM NodesAccounted == Spec => []NoNodeLost
<1>1. Inv => NoNodeLost
  BY DEF Inv
<1>2. QED BY <1>1, Invariance, PTL

\* No call dereferences a node that was freed, in particular not DeInit the node
\* it has just freed to get at the next one (linked_list.c:23-30).
THEOREM NoUseAfterFree == Spec => []NeverUsesFreed
<1>1. Inv => NeverUsesFreed
  BY DEF Inv
<1>2. QED BY <1>1, Invariance, PTL
-------------------------------------------------------------------------------
(***************************************************************************)
(* The list implements the sequence of ListSeq.                            *)
(***************************************************************************)

\* The data of the nodes of s, as the refinement mapping has it.
Stored(s, data) == [i \in DOMAIN s |-> data[s[i]]]

LEMMA StoredSeq ==
  ASSUME NEW s \in Seq(Nodes), NEW data, \A n \in ToSet(s) : data[n] \in Data
  PROVE  /\ Stored(s, data) \in Seq(Data) /\ Len(Stored(s, data)) = Len(s)
         /\ DOMAIN Stored(s, data) = 1 .. Len(s)
         /\ \A i \in 1 .. Len(s) : Stored(s, data)[i] = data[s[i]]
<1>1. Len(s) \in Nat /\ DOMAIN s = 1 .. Len(s) /\ \A i \in 1 .. Len(s) : s[i] \in ToSet(s)
  BY SeqFacts
<1>2. Stored(s, data) \in [1 .. Len(s) -> Data] /\ DOMAIN Stored(s, data) = 1 .. Len(s)
  BY <1>1 DEF Stored
<1>3. Stored(s, data) \in Seq(Data)
  BY <1>1, <1>2, SeqDef
<1>4. Len(Stored(s, data)) = Len(s)
  BY <1>1, <1>2, <1>3, LenProperties
<1>5. QED BY <1>1, <1>3, <1>4, <1>2 DEF Stored

LEMMA InsertHeadPushes ==
  ASSUME Inv, Inv', NEW n \in Nodes, InsertHead(n)
  PROVE  Stored(order, nodeData)' = <<nodeData[n]>> \o Stored(order, nodeData)
<1> DEFINE s == Stored(order, nodeData)
           t == Stored(order', nodeData)
<1>1. /\ n \in held /\ order' = <<n>> \o order /\ UNCHANGED nodeData
      /\ order \in Seq(Nodes) /\ order' \in Seq(Nodes) /\ Len(order) \in Nat
  BY InvFacts DEF InsertHead, Inv, TypeOK
<1>2. nodeData[n] \in Data /\ \A a \in ToSet(order) : nodeData[a] \in Data
  BY <1>1 DEF Inv, Placed
<1>3. \A a \in ToSet(order') : nodeData[a] \in Data
  BY <1>1 DEF Inv, Placed
<1>4. /\ s \in Seq(Data) /\ Len(s) = Len(order) /\ \A i \in 1 .. Len(order) : s[i] = nodeData[order[i]]
      /\ t \in Seq(Data) /\ Len(t) = Len(order') /\ \A i \in 1 .. Len(order') : t[i] = nodeData[order'[i]]
  BY <1>1, <1>2, <1>3, StoredSeq
<1>5. /\ Len(order') = Len(order) + 1 /\ order'[1] = n
      /\ \A i \in 2 .. Len(order) + 1 : order'[i] = order[i - 1]
  BY <1>1, Prepended
<1>6. t = <<nodeData[n]>> \o s
  <2> DEFINE u == <<nodeData[n]>> \o s
  <2>1. /\ u \in Seq(Data) /\ Len(u) = Len(order) + 1 /\ u[1] = nodeData[n]
        /\ \A i \in 2 .. Len(order) + 1 : u[i] = s[i - 1]
    BY <1>2, <1>4, Prepended
  <2> HIDE DEF u, s, t
  <2>2. ASSUME NEW i \in 1 .. Len(t) PROVE t[i] = u[i]
    <3>1. CASE i = 1
      BY <1>1, <1>4, <1>5, <2>1, <3>1
    <3>2. CASE i # 1
      <4>1. i \in 2 .. Len(order) + 1 /\ i - 1 \in 1 .. Len(order) /\ i \in 1 .. Len(order')
        BY <1>1, <1>4, <1>5, <3>2
      <4>2. t[i] = nodeData[order[i - 1]]
        BY <1>4, <1>5, <4>1
      <4>3. QED BY <1>4, <2>1, <4>1, <4>2
    <3>3. QED BY <3>1, <3>2
  <2>3. Len(t) = Len(u)
    BY <1>4, <1>5, <2>1
  <2>4. t = u
    BY <1>4, <2>1, <2>2, <2>3, SeqEqual
  <2>5. QED BY <2>4 DEF u
<1>7. QED BY <1>1, <1>6

LEMMA InsertTailPushes ==
  ASSUME Inv, Inv', NEW n \in Nodes, InsertTail(n)
  PROVE  Stored(order, nodeData)' = Append(Stored(order, nodeData), nodeData[n])
<1> DEFINE s == Stored(order, nodeData)
           t == Stored(order', nodeData)
<1>1. /\ n \in held /\ order' = Append(order, n) /\ UNCHANGED nodeData
      /\ order \in Seq(Nodes) /\ order' \in Seq(Nodes) /\ Len(order) \in Nat
  BY InvFacts DEF InsertTail, Inv, TypeOK
<1>2. nodeData[n] \in Data /\ \A a \in ToSet(order) : nodeData[a] \in Data
  BY <1>1 DEF Inv, Placed
<1>3. \A a \in ToSet(order') : nodeData[a] \in Data
  BY <1>1 DEF Inv, Placed
<1>4. /\ s \in Seq(Data) /\ Len(s) = Len(order) /\ \A i \in 1 .. Len(order) : s[i] = nodeData[order[i]]
      /\ t \in Seq(Data) /\ Len(t) = Len(order') /\ \A i \in 1 .. Len(order') : t[i] = nodeData[order'[i]]
  BY <1>1, <1>2, <1>3, StoredSeq
<1>5. /\ Len(order') = Len(order) + 1 /\ order'[Len(order) + 1] = n
      /\ \A i \in 1 .. Len(order) : order'[i] = order[i]
  BY <1>1, AppendProperties
<1>6. t = Append(s, nodeData[n])
  <2> DEFINE u == Append(s, nodeData[n])
  <2>1. /\ u \in Seq(Data) /\ Len(u) = Len(order) + 1 /\ u[Len(order) + 1] = nodeData[n]
        /\ \A i \in 1 .. Len(order) : u[i] = s[i]
    BY <1>2, <1>4, AppendProperties
  <2> HIDE DEF u, s, t
  <2>2. ASSUME NEW i \in 1 .. Len(t) PROVE t[i] = u[i]
    <3>1. CASE i = Len(order) + 1
      BY <1>1, <1>4, <1>5, <2>1, <3>1
    <3>2. CASE i # Len(order) + 1
      <4>1. i \in 1 .. Len(order) /\ i \in 1 .. Len(order')
        BY <1>1, <1>4, <1>5, <3>2
      <4>2. t[i] = nodeData[order[i]]
        BY <1>4, <1>5, <4>1
      <4>3. QED BY <1>4, <2>1, <4>1, <4>2
    <3>3. QED BY <3>1, <3>2
  <2>3. Len(t) = Len(u)
    BY <1>4, <1>5, <2>1
  <2>4. t = u
    BY <1>4, <2>1, <2>2, <2>3, SeqEqual
  <2>5. QED BY <2>4 DEF u
<1>7. QED BY <1>1, <1>6

LEMMA DeletePops ==
  ASSUME Inv, Inv', DeleteHead \/ DeleteTail
  PROVE  LET s == Stored(order, nodeData) IN
         /\ s # <<>>
         /\ \/ out' = Head(s) /\ Stored(order, nodeData)' = Tail(s)
            \/ out' = Last(s) /\ Stored(order, nodeData)' = Front(s)
<1> DEFINE m == Len(order)
           s == Stored(order, nodeData)
           t == Stored(order', nodeData)
<1>1. UNCHANGED nodeData /\ order \in Seq(Nodes) /\ order' \in Seq(Nodes) /\ m \in Nat
  BY InvFacts DEF DeleteHead, DeleteTail, Inv, TypeOK
<1>2. m # 0 /\ order # <<>> /\ next[ListHead] = order[1] /\ prev[ListHead] = order[m]
  <2>1. (DeleteHead => next[ListHead] # ListHead) /\ (DeleteTail => prev[ListHead] # ListHead)
    BY DEF DeleteHead, DeleteTail
  <2>2. m # 0
    BY <2>1, InvFacts
  <2>3. QED BY <2>2, InvFacts, EmptySeq
<1>3. (\A a \in ToSet(order) : nodeData[a] \in Data) /\ \A a \in ToSet(order') : nodeData[a] \in Data
  BY <1>1 DEF Inv, Placed
<1>4. /\ s \in Seq(Data) /\ Len(s) = m /\ \A i \in 1 .. m : s[i] = nodeData[order[i]]
      /\ t \in Seq(Data) /\ Len(t) = Len(order') /\ \A i \in 1 .. Len(order') : t[i] = nodeData[order'[i]]
  BY <1>1, <1>3, StoredSeq
<1> HIDE DEF s, t
<1>5. s # <<>>
  BY <1>2, <1>4, EmptySeq
<1>6. CASE DeleteHead
  <2>1. order' = Tail(order) /\ out' = nodeData[order[1]]
    BY <1>2, <1>6 DEF DeleteHead
  <2>2. Len(order') = m - 1 /\ \A i \in 1 .. m - 1 : order'[i] = order[i + 1]
    BY <1>1, <1>2, <2>1, HeadTailProperties
  <2>3. Tail(s) \in Seq(Data) /\ Len(Tail(s)) = m - 1 /\ \A i \in 1 .. m - 1 : Tail(s)[i] = s[i + 1]
    BY <1>4, <1>5, HeadTailProperties
  <2>4. \A i \in 1 .. m - 1 : i + 1 \in 1 .. m
    BY <1>1
  <2>5. t = Tail(s)
    <3>1. \A i \in 1 .. m - 1 : t[i] = Tail(s)[i]
      BY <1>4, <2>2, <2>3, <2>4, SMTT(30)
    <3>2. Len(t) = m - 1
      BY <1>4, <2>2
    <3>3. QED BY <1>4, <2>3, <3>1, <3>2, SeqEqual
  <2>6. out' = Head(s)
    <3>1. 1 \in 1 .. m
      BY <1>1, <1>2
    <3>2. s[1] = nodeData[order[1]]
      BY <1>4, <3>1
    <3>3. QED BY <1>4, <1>5, <2>1, <3>2
  <2>7. QED BY <1>1, <1>5, <2>5, <2>6 DEF s, t
<1>7. CASE DeleteTail
  <2>1. order' = Front(order) /\ out' = nodeData[order[m]]
    BY <1>2, <1>7 DEF DeleteTail
  <2>2. Len(order') = m - 1 /\ \A i \in 1 .. m - 1 : order'[i] = order[i]
    BY <1>1, <1>2, <2>1, FrontLast
  <2>3. /\ Front(s) \in Seq(Data) /\ Len(Front(s)) = m - 1 /\ \A i \in 1 .. m - 1 : Front(s)[i] = s[i]
        /\ Last(s) = s[m]
    BY <1>4, <1>5, FrontLast, SMTT(30)
  <2>4. m \in 1 .. m /\ \A i \in 1 .. m - 1 : i \in 1 .. m
    BY <1>1, <1>2
  <2>5. t = Front(s)
    <3>1. \A i \in 1 .. m - 1 : t[i] = Front(s)[i]
      BY <1>4, <2>2, <2>3, <2>4, SMTT(30)
    <3>2. Len(t) = m - 1
      BY <1>4, <2>2
    <3>3. QED BY <1>4, <2>3, <3>1, <3>2, SeqEqual
  <2>6. out' = Last(s)
    BY <1>4, <2>1, <2>3, <2>4
  <2>7. QED BY <1>1, <1>5, <2>5, <2>6 DEF s, t
<1>8. QED BY <1>6, <1>7

LEMMA SwapExchanges ==
  ASSUME Inv, Inv', NEW n1 \in Nodes, NEW n2 \in Nodes, SwapAdjacent(n1, n2)
  PROVE  LET s == Stored(order, nodeData) IN
         \E i, j \in DOMAIN s : Stored(order, nodeData)' = [s EXCEPT ![i] = s[j], ![j] = s[i]]
<1> DEFINE m == Len(order)
           s == Stored(order, nodeData)
           t == Stored(order', nodeData)
<1>1. UNCHANGED nodeData /\ order \in Seq(Nodes) /\ m \in Nat
  BY InvFacts DEF SwapAdjacent
<1>2. PICK k \in 1 .. m :
        /\ k # m /\ k + 1 \in 1 .. m
        /\ order' \in Seq(Nodes) /\ Len(order') = m
        /\ \A i \in 1 .. m :
             order'[i] = IF i = k THEN order[k + 1] ELSE IF i = k + 1 THEN order[k] ELSE order[i]
  BY SwapAt
<1>3. (\A a \in ToSet(order) : nodeData[a] \in Data) /\ \A a \in ToSet(order') : nodeData[a] \in Data
  BY <1>1 DEF Inv, Placed
<1>4. /\ s \in Seq(Data) /\ Len(s) = m /\ DOMAIN s = 1 .. m /\ \A i \in 1 .. m : s[i] = nodeData[order[i]]
      /\ t \in Seq(Data) /\ Len(t) = m /\ \A i \in 1 .. m : t[i] = nodeData[order'[i]]
  BY <1>1, <1>2, <1>3, StoredSeq
<1> HIDE DEF s, t
<1> DEFINE s1 == [s EXCEPT ![k] = s[k + 1]]
           u == [s1 EXCEPT ![k + 1] = s[k]]
<1>5. /\ s1 \in Seq(Data) /\ Len(s1) = m /\ \A i \in 1 .. m : s1[i] = IF i = k THEN s[k + 1] ELSE s[i]
  <2>1. s[k + 1] \in Data
    BY <1>2, <1>4, ElementOfSeq
  <2>2. QED BY <1>4, <2>1, ExceptSeq
<1> HIDE DEF s1
<1>6. /\ u \in Seq(Data) /\ Len(u) = m /\ \A i \in 1 .. m : u[i] = IF i = k + 1 THEN s[k] ELSE s1[i]
  <2>1. s[k] \in Data
    BY <1>2, <1>4, ElementOfSeq
  <2>2. QED BY <1>2, <1>5, <2>1, ExceptSeq
<1> HIDE DEF u
<1>7. \A i \in 1 .. m : t[i] = u[i]
  <2>1. k # k + 1
    BY <1>1
  <2>2. QED BY <1>2, <1>4, <1>5, <1>6, <2>1
<1>8. t = u
  BY <1>4, <1>6, <1>7, SeqEqual
<1>9. t = [s EXCEPT ![k] = s[k + 1], ![k + 1] = s[k]]
  BY <1>8 DEF u, s1
<1>10. QED BY <1>1, <1>2, <1>4, <1>9 DEF s, t

\* A node that was just created is not in the list yet.
LEMMA CreateStores ==
  ASSUME Inv, Inv', NEW n \in Nodes, NEW d \in Data, Create(n, d)
  PROVE  Stored(order, nodeData)' = Stored(order, nodeData)
<1>1. UNCHANGED order /\ order \in Seq(Nodes) /\ nodeData' = [nodeData EXCEPT ![n] = d] /\ n \notin alloc
  BY InvFacts DEF Create
<1>2. \A i \in DOMAIN order : order[i] # n
  BY <1>1, InvFacts DEF Create, Inv, Placed
<1>3. \A i \in DOMAIN order : nodeData'[order[i]] = nodeData[order[i]]
  BY <1>1, <1>2 DEF Inv, TypeOK
<1>4. QED BY <1>1, <1>3 DEF Stored

\* The list is a sequence to which data are added at both ends, from which they
\* are taken at both ends, in which two may change places and which may be
\* emptied; every call does one of these or nothing (linked_list.c:15-176).
THEOREM ListIsSequence == Spec => ImplementsListSeq
<1> DEFINE s == [i \in DOMAIN order |-> nodeData[order[i]]]
<1>1. s = Stored(order, nodeData)
  BY DEF Stored
<1>2. Init => Sequence!Init
  <2> SUFFICES ASSUME Init PROVE s = <<>> /\ out = Null
    BY DEF Sequence!Init
  <2>1. order = <<>> /\ out = Null
    BY DEF Init
  <2>2. DOMAIN order = {} /\ DOMAIN <<>> = {}
    BY <2>1
  <2>3. s = [i \in {} |-> nodeData[order[i]]]
    BY <2>2
  <2>4. QED BY <2>1, <2>2, <2>3
<1>3. Inv /\ Inv' /\ [Next]_vars => [Sequence!Next]_Sequence!vars
  <2> SUFFICES ASSUME Inv, Inv', Next \/ UNCHANGED vars
               PROVE  Sequence!Next \/ UNCHANGED <<s, out>>
    BY DEF Sequence!vars
  <2>1. s' = Stored(order, nodeData)'
    BY DEF Stored
  <2>2. Sequence!Next <=>
          \/ \E d \in Data : s' = <<d>> \o s /\ UNCHANGED out
          \/ \E d \in Data : s' = Append(s, d) /\ UNCHANGED out
          \/ s # <<>> /\ out' = Head(s) /\ s' = Tail(s)
          \/ s # <<>> /\ out' = Last(s) /\ s' = Front(s)
          \/ \E i, j \in DOMAIN s : s' = [s EXCEPT ![i] = s[j], ![j] = s[i]] /\ UNCHANGED out
          \/ s' = <<>> /\ UNCHANGED out
    BY DEF Sequence!Next, Sequence!PushHead, Sequence!PushTail, Sequence!PopHead, Sequence!PopTail,
      Sequence!Exchange, Sequence!Clear, Sequence!Last, Sequence!Front, Last, Front
  <2>3. CASE UNCHANGED vars
    BY <2>3 DEF vars
  <2>4. CASE DeInitBegin \/ DeInitFree
    BY <2>4 DEF DeInitBegin, DeInitFree
  <2>5. CASE DeInitEnd
    <3>1. s' = <<>> /\ UNCHANGED out
      BY <2>5 DEF DeInitEnd
    <3>2. QED BY <2>2, <3>1
  <2> HIDE DEF s
  <2>6. ASSUME NEW n \in Nodes, NEW d \in Data, Create(n, d) PROVE UNCHANGED <<s, out>>
    BY <2>6, <2>1, <1>1, CreateStores DEF Create
  <2>7. ASSUME NEW n \in Nodes, InsertHead(n) PROVE Sequence!Next
    <3>1. nodeData[n] \in Data /\ UNCHANGED out
      BY <2>7 DEF InsertHead, Inv, Placed
    <3>2. s' = <<nodeData[n]>> \o s
      BY <2>1, <2>7, <1>1, InsertHeadPushes
    <3>3. QED BY <2>2, <3>1, <3>2
  <2>8. ASSUME NEW n \in Nodes, InsertTail(n) PROVE Sequence!Next
    <3>1. nodeData[n] \in Data /\ UNCHANGED out
      BY <2>8 DEF InsertTail, Inv, Placed
    <3>2. s' = Append(s, nodeData[n])
      BY <2>1, <2>8, <1>1, InsertTailPushes
    <3>3. QED BY <2>2, <3>1, <3>2
  <2>9. ASSUME NEW n1 \in Nodes, NEW n2 \in Nodes, SwapAdjacent(n1, n2) PROVE Sequence!Next
    <3>1. \E i, j \in DOMAIN s : s' = [s EXCEPT ![i] = s[j], ![j] = s[i]]
      BY <2>1, <2>9, <1>1, SwapExchanges
    <3>2. UNCHANGED out
      BY <2>9 DEF SwapAdjacent
    <3>3. QED BY <2>2, <3>1, <3>2
  <2>10. CASE DeleteHead \/ DeleteTail
    <3> DEFINE u == Stored(order, nodeData)
    <3>1. s = u
      BY <1>1
    <3>2. u # <<>> /\ \/ out' = Head(u) /\ u' = Tail(u)
                      \/ out' = Last(u) /\ u' = Front(u)
      BY <2>10, DeletePops
    <3> HIDE DEF u
    <3>3. s' = u'
      BY <2>1 DEF u
    <3>4. QED BY <2>2, <3>1, <3>2, <3>3
  <2>11. ~UseFreed
    BY NothingFreedIsReached DEF UseFreed
  <2>12. QED BY <2>3, <2>4, <2>5, <2>6, <2>7, <2>8, <2>9, <2>10, <2>11 DEF Next, Grow, Shrink
<1>4. QED BY <1>2, <1>3, Invariance, PTL DEF Spec, ImplementsListSeq, Sequence!Spec
===============================================================================
