------------------------------- MODULE Picking -------------------------------
(***************************************************************************)
(* The filter loops of the code (deliverDue, drop, the readers of the log, *)
(* the pruning of the risk gate): what they keep is given by its positions *)
(* and keeps its order.  SelectSeq would do for TLC, but no prover knows   *)
(* anything about it.                                                      *)
(***************************************************************************)
EXTENDS Integers, FiniteSets, Sequences, SequencesExt

\* The n-th smallest of a finite set of integers.
Nth(P, n) == CHOOSE k \in P : Cardinality({j \in P : j <= k}) = n

\* A finite set of integers in ascending order.
Ascending(S) == [n \in 1..Cardinality(S) |-> Nth(S, n)]

\* The elements of s at the positions P, in their order.
Pick(s, P) == [n \in 1..Cardinality(P) |-> s[Nth(P, n)]]

\* The sum of a sequence of integers.
Total(w) == FoldLeft(LAMBDA n, x : n + x, 0, w)
=============================================================================
