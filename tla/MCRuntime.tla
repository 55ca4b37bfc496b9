------------------------------ MODULE MCRuntime ------------------------------
(* Small instances of Runtime for TLC. *)
EXTENDS Runtime

Lmt(s, p, n) == [side |-> s, kind |-> "limit", px |-> p, qty |-> n]
Mkt(s, n)    == [side |-> s, kind |-> "market", px |-> 0, qty |-> n]

OneQuote == {[bidPx |-> 2, bidQty |-> 0, askPx |-> 3, askQty |-> 1]}
\* The bid with one contract ahead, and after that one has gone.
ThinningQuotes == OneQuote \cup {[bidPx |-> 2, bidQty |-> 1, askPx |-> 3, askQty |-> 1]}
\* A print that takes one contract of the bid.
OnePrint == {[px |-> 2, qty |-> 1, aggressor |-> "ask"]}

\* ... and one that trades through it and has no aggressor.
ThroughPrints == OnePrint \cup {[px |-> 1, qty |-> 1, aggressor |-> "none"]}

\* A bid that fills in two prints, and a market sell.
PartialRequests == {Lmt("bid", 2, 2), Mkt("ask", 1)}
\* Orders the limits refuse for their size, their position or their shape.
RiskRequests == {Lmt("bid", 2, 2), Mkt("ask", 1), Mkt("bid", 0)}
==============================================================================
