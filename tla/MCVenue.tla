------------------------------- MODULE MCVenue -------------------------------
(* A small instance of Venue for TLC: bids at the touch and below it and an  *)
(* offer, filled in several prints, whose fills are on their way back while  *)
(* cancels and the flush arrive.                                             *)
EXTENDS Venue

Lmt(s, p, n) == [side |-> s, kind |-> "limit", px |-> p, qty |-> n]
Q(b, bn, a, an) == [bidPx |-> b, bidQty |-> bn, askPx |-> a, askQty |-> an]
Hit(p, n, s)  == [px |-> p, qty |-> n, aggressor |-> s]

QueueRequests == {Lmt("bid", 2, 2), Lmt("bid", 1, 1), Lmt("ask", 3, 1)}
\* The touch, and the same a tick lower on the bid.
QueueQuotes == {Q(2, 2, 3, 1), Q(1, 2, 3, 1)}
\* Prints at the bid, through it, and at the ask.
QueueTrades == {Hit(2, 3, "ask"), Hit(1, 1, "ask"), Hit(3, 2, "bid")}
==============================================================================
