------------------------------- MODULE ListSeq --------------------------------
(***************************************************************************)
(* What the doubly linked list promises: a sequence of data pointers that  *)
(* grows and shrinks at both ends, in which two entries can change places, *)
(* and which can be emptied at once.                                       *)
(***************************************************************************)
EXTENDS SequencesExt

CONSTANTS
  Data,             \* the pointers a caller may store
  NoData            \* nothing has been taken out yet

VARIABLES
  seq,              \* the stored pointers, head first
  out               \* what the last Delete call handed back

vars == <<seq, out>>

Init == seq = <<>> /\ out = NoData

PushHead(d) == seq' = <<d>> \o seq /\ UNCHANGED out

PushTail(d) == seq' = Append(seq, d) /\ UNCHANGED out

PopHead ==
  /\ seq # <<>>
  /\ out' = Head(seq)
  /\ seq' = Tail(seq)

PopTail ==
  /\ seq # <<>>
  /\ out' = Last(seq)
  /\ seq' = Front(seq)

Exchange(i, j) ==
  /\ seq' = [seq EXCEPT ![i] = seq[j], ![j] = seq[i]]
  /\ UNCHANGED out

Clear == seq' = <<>> /\ UNCHANGED out

Next ==
  \/ \E d \in Data : PushHead(d) \/ PushTail(d)
  \/ PopHead \/ PopTail
  \/ \E i, j \in DOMAIN seq : Exchange(i, j)
  \/ Clear

Spec == Init /\ [][Next]_vars
===============================================================================
