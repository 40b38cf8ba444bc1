---------------------------------- MODULE MCLog --------------------------------
(***************************************************************************)
(* A TLC instance of Log: lines of two lengths, or with one among them     *)
(* that is longer than LOG_LINE_MAX.                                       *)
(***************************************************************************)
EXTENDS Log, TLC

TwoLengths == [i \in 1 .. MaxLines |-> 1 + (i % 2)]

OneTooLong == [i \in 1 .. MaxLines |-> IF i = 3 THEN LineMax + 1 ELSE 2 - (i % 2)]

Symmetry == Permutations(Printers) \cup Permutations(Cyclers)
===============================================================================
