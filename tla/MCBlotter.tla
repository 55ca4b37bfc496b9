------------------------------ MODULE MCBlotter ------------------------------
(* Small sets of fills for Blotter. *)
EXTENDS Blotter

F(s, p, n, c) == [side |-> s, px |-> p, qty |-> n, fee |-> c]

\* Both sides, one to three contracts, prices on both sides of zero.
MixedFills == {F("bid", -1, 1, 1), F("bid", 2, 2, 0), F("bid", 3, 1, 1),
               F("ask", 1, 1, 1), F("ask", 4, 2, 0), F("ask", 2, 3, 1)}
\* A buyer of two who sells one.
ReducingFills == {F("bid", 1, 2, 0), F("ask", 1, 1, 0)}
==============================================================================
