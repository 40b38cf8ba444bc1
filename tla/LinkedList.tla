------------------------------ MODULE LinkedList ------------------------------
(***************************************************************************)
(* framework/linked_list/linked_list.c: a circular doubly linked list      *)
(* around a head node that its user owns.  The heap is modelled: each node *)
(* is an address with its three fields, malloc hands out any address that  *)
(* is not in use, and a freed node keeps its contents until then.          *)
(*                                                                         *)
(* The list itself is sequential code: each call is one step, except that  *)
(* the loop of DeInitDoublyLinkedListNode takes one step per node.  A call *)
(* that returns without a change (a NULL argument, a failed malloc, a      *)
(* Delete on an empty list) is a stuttering step.                          *)
(***************************************************************************)
EXTENDS Integers, SequencesExt

CONSTANTS
  Nodes,            \* the addresses malloc may return
  ListHead,         \* the address of the head node
  Data,             \* the data pointers stored in nodes
  Null              \* NULL, and the contents of a field nothing was written to

ASSUME ConstantsAssumption ==
  /\ ListHead \notin Nodes
  /\ Null \notin Nodes \cup {ListHead} \cup Data

VARIABLES
  next,             \* node->next
  prev,             \* node->prev
  nodeData,         \* node->nodeData
  alloc,            \* the nodes that may be dereferenced, the head included
  held,             \* nodes created and not yet inserted
  node,             \* `node' in DeInitDoublyLinkedListNode, Null outside it
  out,              \* nodeData of the caller's node after the last Delete
  order,            \* history: the nodes in the order the calls ask for
  usedFreed         \* a call has dereferenced a node that is not allocated

links == <<next, prev>>
vars == <<links, nodeData, alloc, held, node, out, order, usedFreed>>

Addresses == Nodes \cup {ListHead}

\* InitDoublyLinkedListNode(&head).
Init ==
  /\ next = [n \in Addresses |-> IF n = ListHead THEN ListHead ELSE Null]
  /\ prev = [n \in Addresses |-> IF n = ListHead THEN ListHead ELSE Null]
  /\ nodeData = [n \in Addresses |-> Null]
  /\ alloc = {ListHead}
  /\ held = {}
  /\ node = Null
  /\ out = Null
  /\ order = <<>>
  /\ usedFreed = FALSE
-------------------------------------------------------------------------------
\* malloc returns a free address and the node is linked to itself.
Create(n, d) ==
  /\ node = Null
  /\ n \notin alloc
  /\ alloc' = alloc \cup {n}
  /\ held' = held \cup {n}
  /\ nodeData' = [nodeData EXCEPT ![n] = d]
  /\ next' = [next EXCEPT ![n] = n]
  /\ prev' = [prev EXCEPT ![n] = n]
  /\ UNCHANGED <<node, out, order, usedFreed>>

\* Mutant: the old first node keeps pointing back at the head.
InsertHeadOneWay(n) ==
  /\ node = Null
  /\ n \in held
  /\ next[ListHead] \in alloc
  /\ next' = [next EXCEPT ![n] = next[ListHead], ![ListHead] = n]
  /\ prev' = [prev EXCEPT ![n] = ListHead]
  /\ held' = held \ {n}
  /\ order' = <<n>> \o order
  /\ UNCHANGED <<nodeData, alloc, node, out, usedFreed>>

InsertHead(n) ==
  /\ node = Null
  /\ n \in held
  /\ next[ListHead] \in alloc
  /\ next' = [next EXCEPT ![n] = next[ListHead], ![ListHead] = n]
  /\ prev' = [prev EXCEPT ![n] = ListHead, ![next[ListHead]] = n]
  /\ held' = held \ {n}
  /\ order' = <<n>> \o order
  /\ UNCHANGED <<nodeData, alloc, node, out, usedFreed>>

InsertTail(n) ==
  /\ node = Null
  /\ n \in held
  /\ prev[ListHead] \in alloc
  /\ next' = [next EXCEPT ![n] = ListHead, ![prev[ListHead]] = n]
  /\ prev' = [prev EXCEPT ![n] = prev[ListHead], ![ListHead] = n]
  /\ held' = held \ {n}
  /\ order' = Append(order, n)
  /\ UNCHANGED <<nodeData, alloc, node, out, usedFreed>>

\* Mutant: the node that is taken out is not freed.
DeleteHeadLeaks ==
  LET headNext == next[ListHead]
      headNextNext == next[headNext] IN
  /\ node = Null
  /\ headNext # ListHead
  /\ {headNext, headNextNext} \subseteq alloc
  /\ next' = [next EXCEPT ![ListHead] = headNextNext]
  /\ prev' = [prev EXCEPT ![headNextNext] = ListHead]
  /\ out' = nodeData[headNext]
  /\ order' = IF order = <<>> THEN <<>> ELSE Tail(order)
  /\ UNCHANGED <<nodeData, alloc, held, node, usedFreed>>

DeleteHead ==
  LET headNext == next[ListHead]
      headNextNext == next[headNext] IN
  /\ node = Null
  /\ headNext # ListHead
  /\ {headNext, headNextNext} \subseteq alloc
  /\ next' = [next EXCEPT ![ListHead] = headNextNext]
  /\ prev' = [prev EXCEPT ![headNextNext] = ListHead]
  /\ out' = nodeData[headNext]
  /\ alloc' = alloc \ {headNext}
  /\ order' = IF order = <<>> THEN <<>> ELSE Tail(order)
  /\ UNCHANGED <<nodeData, held, node, usedFreed>>

\* Mutant: the last node is taken out of an empty list, and it is the head.
DeleteTailOfEmpty ==
  LET headPrev == prev[ListHead]
      headPrevPrev == prev[headPrev] IN
  /\ node = Null
  /\ {headPrev, headPrevPrev} \subseteq alloc
  /\ prev' = [prev EXCEPT ![ListHead] = headPrevPrev]
  /\ next' = [next EXCEPT ![headPrevPrev] = ListHead]
  /\ out' = nodeData[headPrev]
  /\ alloc' = alloc \ {headPrev}
  /\ order' = IF order = <<>> THEN <<>> ELSE Front(order)
  /\ UNCHANGED <<nodeData, held, node, usedFreed>>

\* Mutant: the data of the node before the last one is handed out.
DeleteTailWrongData ==
  LET headPrev == prev[ListHead]
      headPrevPrev == prev[headPrev] IN
  /\ node = Null
  /\ headPrev # ListHead
  /\ {headPrev, headPrevPrev} \subseteq alloc
  /\ prev' = [prev EXCEPT ![ListHead] = headPrevPrev]
  /\ next' = [next EXCEPT ![headPrevPrev] = ListHead]
  /\ out' = nodeData[headPrevPrev]
  /\ alloc' = alloc \ {headPrev}
  /\ order' = IF order = <<>> THEN <<>> ELSE Front(order)
  /\ UNCHANGED <<nodeData, held, node, usedFreed>>

DeleteTail ==
  LET headPrev == prev[ListHead]
      headPrevPrev == prev[headPrev] IN
  /\ node = Null
  /\ headPrev # ListHead
  /\ {headPrev, headPrevPrev} \subseteq alloc
  /\ prev' = [prev EXCEPT ![ListHead] = headPrevPrev]
  /\ next' = [next EXCEPT ![headPrevPrev] = ListHead]
  /\ out' = nodeData[headPrev]
  /\ alloc' = alloc \ {headPrev}
  /\ order' = IF order = <<>> THEN <<>> ELSE Front(order)
  /\ UNCHANGED <<nodeData, held, node, usedFreed>>
-------------------------------------------------------------------------------
\* The order with two of its nodes exchanged.
Exchanged(n1, n2) ==
  [i \in DOMAIN order |-> IF order[i] = n1 THEN n2
                          ELSE IF order[i] = n2 THEN n1 ELSE order[i]]

Linked(n) == Contains(order, n)

\* SwapDoublyLinkedListNextNode: node2 follows node1.
SwapNext(node1, node2) ==
  LET node1Prev == prev[node1]
      node2Next == next[node2] IN
  /\ {node1Prev, node2Next} \subseteq alloc
  /\ next' = [next EXCEPT ![node1] = node2Next, ![node1Prev] = node2,
                          ![node2] = node1]
  /\ prev' = [prev EXCEPT ![node2Next] = node1, ![node1] = node2,
                          ![node2] = node1Prev]

\* SwapDoublyLinkedListNode of two neighbours.  Callers pass two different
\* nodes of the list.
SwapAdjacent(node1, node2) ==
  /\ node = Null
  /\ node1 # node2 /\ Linked(node1) /\ Linked(node2)
  /\ {node1, node2} \subseteq alloc
  /\ \/ next[node1] = node2 /\ SwapNext(node1, node2)
     \/ next[node1] # node2 /\ prev[node1] = node2 /\ SwapNext(node2, node1)
  /\ order' = Exchanged(node1, node2)
  /\ UNCHANGED <<nodeData, alloc, held, node, out, usedFreed>>

\* SwapDoublyLinkedListNode of two nodes that are not neighbours.  The eight
\* assignments are in the order of the code: node2Next->prev becomes node2.
SwapFar(node1, node2) ==
  /\ node = Null
  /\ node1 # node2 /\ Linked(node1) /\ Linked(node2)
  /\ next[node1] # node2 /\ prev[node1] # node2
  /\ {node1, node2, prev[node1], next[node1], prev[node2], next[node2]}
        \subseteq alloc
  /\ next' = [next EXCEPT ![prev[node1]] = node2, ![node2] = next[node1],
                          ![prev[node2]] = node1, ![node1] = next[node2]]
  /\ prev' = [prev EXCEPT ![next[node1]] = node2, ![node2] = prev[node1],
                          ![next[node2]] = node2, ![node1] = prev[node2]]
  /\ order' = Exchanged(node1, node2)
  /\ UNCHANGED <<nodeData, alloc, held, node, out, usedFreed>>
-------------------------------------------------------------------------------
\* DeInitDoublyLinkedListNode: node = head->next.
DeInitBegin ==
  /\ node = Null
  /\ node' = next[ListHead]
  /\ UNCHANGED <<links, nodeData, alloc, held, out, order, usedFreed>>

\* node = node->next, and the node left behind is freed.
DeInitFree ==
  /\ node \in alloc \ {ListHead}
  /\ node' = next[node]
  /\ alloc' = alloc \ {node}
  /\ UNCHANGED <<links, nodeData, held, out, order, usedFreed>>

\* Mutant: the head keeps its links to the freed nodes.
DeInitEndNoReset ==
  /\ node = ListHead
  /\ node' = Null
  /\ order' = <<>>
  /\ UNCHANGED <<links, nodeData, alloc, held, out, usedFreed>>

DeInitEnd ==
  /\ node = ListHead
  /\ next' = [next EXCEPT ![ListHead] = ListHead]
  /\ prev' = [prev EXCEPT ![ListHead] = ListHead]
  /\ node' = Null
  /\ order' = <<>>
  /\ UNCHANGED <<nodeData, alloc, held, out, usedFreed>>

\* The nodes a next call may dereference: the loop's node inside DeInit, and
\* otherwise the neighbours of the head and of any node a caller may know.
Dereferenced ==
  IF node # Null THEN {node}
  ELSE LET known == alloc \ held IN
         {next[n] : n \in known} \cup {prev[n] : n \in known}

\* Any of them that is not allocated makes that call undefined.
UseFreed ==
  /\ ~(Dereferenced \subseteq alloc)
  /\ usedFreed' = TRUE
  /\ UNCHANGED <<links, nodeData, alloc, held, node, out, order>>

Grow ==
  \/ \E n \in Nodes, d \in Data : Create(n, d)
  \/ \E n \in Nodes : InsertHead(n) \/ InsertTail(n)
  \/ \E n1, n2 \in Nodes : SwapAdjacent(n1, n2)

Shrink ==
  \/ DeleteHead \/ DeleteTail
  \/ DeInitBegin \/ DeInitFree \/ DeInitEnd
  \/ UseFreed

\* The interface without the exchange of two nodes that are not neighbours, a
\* call framework/ does not make.  A call that uses a freed node is the end.
Next == ~usedFreed /\ (Grow \/ Shrink)

Spec == Init /\ [][Next]_vars
-------------------------------------------------------------------------------
(***************************************************************************)
(* Properties.                                                             *)
(***************************************************************************)

\* Every field of the list has its type, and the head is never freed.
TypeOK ==
  /\ next \in [Addresses -> Addresses \cup {Null}]
  /\ prev \in [Addresses -> Addresses \cup {Null}]
  /\ nodeData \in [Addresses -> Data \cup {Null}]
  /\ alloc \in SUBSET Addresses /\ ListHead \in alloc
  /\ held \in SUBSET Nodes
  /\ node \in Addresses \cup {Null}
  /\ out \in Data \cup {Null}
  /\ order \in Seq(Nodes)
  /\ usedFreed \in BOOLEAN

\* The i-th node, with the head at both ends of the circle.
At(i) == IF i \in DOMAIN order THEN order[i] ELSE ListHead

NextLinksMatch == \A i \in 0 .. Len(order) : next[At(i)] = At(i + 1)

PrevLinksMatch == \A i \in 0 .. Len(order) : prev[At(i + 1)] = At(i)

\* Whatever the calls, following next from the head visits the nodes in the
\* order the calls ask for, following prev visits them backwards, and no node
\* is there twice (linked_list.c:52-130).
LinksMatchOrder == IsInjective(order) /\ NextLinksMatch /\ PrevLinksMatch

\* The nodes DeInit has still to free, or all of them outside DeInit.
Unfreed ==
  IF node = Null THEN ToSet(order)
  ELSE {n \in ToSet(order) :
          \E i, k \in DOMAIN order : order[i] = node /\ k >= i /\ order[k] = n}

\* The allocated nodes are the ones on the list and the ones the caller has not
\* inserted yet: none is lost, none is freed while it is on the list
\* (linked_list.c:23-30, 95 and 114).
NoNodeLost == alloc \ {ListHead} = held \cup Unfreed

\* No sequence of calls reads or writes a freed node.
NeverUsesFreed == ~usedFreed

\* The list implements the sequence of ListSeq.
Sequence == INSTANCE ListSeq WITH
              NoData <- Null,
              seq <- [i \in DOMAIN order |-> nodeData[order[i]]]

ImplementsListSeq == Sequence!Spec

\* The whole interface, as test_linked_list.c calls it.  Bound: once the links
\* and the order disagree, nodes are only taken off the list.
NextWithSwap ==
  \/ /\ ~usedFreed
     /\ \/ Shrink
        \/ /\ LinksMatchOrder /\ NoNodeLost
           /\ Grow \/ \E n1, n2 \in Nodes : SwapFar(n1, n2)
  \/ usedFreed /\ UNCHANGED vars

SpecWithSwap == Init /\ [][NextWithSwap]_vars

\* linked_list.h:6-10 gives every node a prev as well as a next, and
\* test_linked_list.c:120-122 exchanges two nodes that are not neighbours and
\* then takes the tail: the prev links have to follow the swap.
PrevFollowsSwap == NextLinksMatch => PrevLinksMatch
===============================================================================
