------------------------------ MODULE MCL3Venue ------------------------------
(* Small instances of L3Venue for TLC. *)
EXTENDS L3Venue

Row(a, id, s, p, n) == [action |-> a, id |-> id, side |-> s, px |-> p, qty |-> n]

\* Two market bids that come (a modify of an unknown id adds it), shrink, grow,
\* change price and go, and one ask.
QueueRows ==
    {Row("modify", 1, "bid", 2, 1), Row("modify", 1, "bid", 2, 2),
     Row("cancel", 1, "bid", 2, 0), Row("add", 2, "bid", 2, 1),
     Row("modify", 2, "bid", 2, 0), Row("modify", 2, "bid", 1, 1),
     Row("clear", 0, "bid", 2, 0), Row("add", 3, "ask", 3, 1)}
\* Bids at the level of the market bids.
QueueOrders == {[side |-> "bid", kind |-> "limit", px |-> 2, qty |-> 1]}
\* Prints at that level that fall short of the queue or get past it.
QueuePrints == {[px |-> 2, qty |-> n, aggressor |-> "ask"] : n \in {1, 3}}
==============================================================================
