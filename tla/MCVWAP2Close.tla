---------------------------- MODULE MCVWAP2Close ----------------------------
(* Small tapes for VWAP2Close: minutes 0 to 2 are RTH, 3 is ETH, and 4 is   *)
(* RTH of the next date.  Every tape begins with two trades that leave the  *)
(* first close above, or below, the VWAP.                                   *)
EXTENDS VWAP2Close

One(p) == [px |-> p, qty |-> 1, aggressor |-> "none"]
BothPrints == {One(4), One(6)}
TwoQuotes == {[bidPx |-> 4, bidQty |-> 1, askPx |-> 5, askQty |-> 1],
              [bidPx |-> 6, bidQty |-> 1, askPx |-> 7, askQty |-> 1]}

TradeAt0(p) == [kind |-> "trade", t |-> One(p), ts |-> 0, bad |-> FALSE]
TwoOpenings == {<<TradeAt0(4), TradeAt0(6)>>, <<TradeAt0(6), TradeAt0(4)>>}

Dates == [t \in 0..4 |-> IF t <= 2 THEN 1 ELSE 2]

OneDate == [t \in 0..4 |-> 1]
==============================================================================
