---------------------------- MODULE MCPyRetrieve ----------------------------
(* RetrieveHandle and PyRetrieve on results of up to MaxCount elements of 0..MaxLen bytes. *)
EXTENDS PyRetrieve, SequencesExt

CONSTANTS MaxCount, MaxLen

Lengths == UNION {[1..n -> 0..MaxLen] : n \in 0..MaxCount}

(* The layout of a concatenation of elements with the given lengths. *)
Layout(l) == [i \in 1..Len(l) |-> FoldLeft(+, 0, SubSeq(l, 1, i))]

MCResults == {Layout(l) : l \in Lengths}
=============================================================================
