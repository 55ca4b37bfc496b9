------------------------------ MODULE Position ------------------------------
(***************************************************************************)
(* internal/portfolio: what one fill does to a position (position.go), to  *)
(* the round-trip list of the blotter (blotter.go), and how an open        *)
(* position is marked (pnl.go).  Constant operators only.                  *)
(***************************************************************************)
EXTENDS Integers, Sequences, SequencesExt

CONSTANT CentsPerTick   \* portfolio.CentsPerTick of the instrument

ASSUME PositionAssumption == CentsPerTick \in Nat

PosRec == [qty: Int, avgPx: Int, realized: Int]
\* The fields of a Fill that the books read.
FillRec == [side: {"bid", "ask"}, px: Int, qty: Nat, fee: Nat]

Flat == [qty |-> 0, avgPx |-> 0, realized |-> 0]

AbsQty(q) == IF q < 0 THEN -q ELSE q
SameWay(a, b) == (a > 0 /\ b > 0) \/ (a < 0 /\ b < 0)
Signed(f) == IF f.side = "ask" THEN -f.qty ELSE f.qty

\* Go's integer division truncates toward zero.
Quotient(a, b) == IF a >= 0 THEN a \div b ELSE -((-a) \div b)

\* Opening or adding: the average of what was held and what came.
Extend(p, f) ==
    LET n == p.qty + Signed(f) IN
    [qty      |-> n,
     avgPx    |-> Quotient(p.avgPx * AbsQty(p.qty) + f.px * f.qty, AbsQty(n)),
     realized |-> p.realized - f.fee]

Close_Uncapped(p, f) ==
    LET ticks == IF p.qty < 0 THEN p.avgPx - f.px ELSE f.px - p.avgPx IN
    [qty      |-> p.qty + Signed(f),
     avgPx    |-> IF p.qty + Signed(f) = 0 THEN 0 ELSE f.px,
     realized |-> p.realized - f.fee + ticks * f.qty * CentsPerTick]

\* The other way: realize the closed part; what the fill has left over opens
\* at its price, and when nothing is left the position is flat.
Close(p, f) ==
    LET closed == IF f.qty > AbsQty(p.qty) THEN AbsQty(p.qty) ELSE f.qty
        ticks  == IF p.qty < 0 THEN p.avgPx - f.px ELSE f.px - p.avgPx
        remain == f.qty - closed
    IN [qty      |-> IF Signed(f) > 0 THEN remain ELSE -remain,
        avgPx    |-> IF remain = 0 THEN 0 ELSE f.px,
        realized |-> p.realized - f.fee + ticks * closed * CentsPerTick]

Apply(p, f) ==
    IF f.qty <= 0 THEN p
    ELSE IF p.qty = 0 \/ SameWay(p.qty, Signed(f)) THEN Extend(p, f)
    ELSE Close(p, f)

\* Unrealized: a long is marked at the bid, a short at the ask.
Unrealized(p, bidPx, askPx) ==
    IF p.qty > 0 THEN (bidPx - p.avgPx) * p.qty * CentsPerTick
    ELSE (p.avgPx - askPx) * (-p.qty) * CentsPerTick

-----------------------------------------------------------------------------
(* The blotter beside the position. *)

EmptyBooks == [pos |-> Flat, openRealized |-> 0, trades |-> <<>>]

NoteTrade_KeepsBase(b, after) ==
    LET total == after.realized - b.openRealized IN
    CASE b.pos.qty = 0 /\ after.qty # 0 -> [b EXCEPT !.openRealized = b.pos.realized]
      [] b.pos.qty # 0 /\ ~SameWay(b.pos.qty, after.qty) ->
            [b EXCEPT !.trades = Append(@, total)]
      [] OTHER -> b

\* noteTrade: which round trip, if any, the fill that led to after ends.
NoteTrade(b, after) ==
    LET was == b.pos.qty
        is  == after.qty
        total == after.realized - b.openRealized
    IN CASE was = 0 /\ is # 0 -> [b EXCEPT !.openRealized = b.pos.realized]
         [] was # 0 /\ is = 0 -> [b EXCEPT !.trades = Append(@, total)]
         [] was # 0 /\ is # 0 /\ ~SameWay(was, is) ->
               [b EXCEPT !.trades = Append(@, total), !.openRealized = after.realized]
         [] was # 0 /\ SameWay(was, is) /\ AbsQty(is) < AbsQty(was) ->
               [b EXCEPT !.trades = Append(@, after.realized - b.pos.realized)]
         [] OTHER -> b

\* One fill through the books: Position.Apply, then Blotter.Record.
Book(b, f) == LET after == Apply(b.pos, f) IN [NoteTrade(b, after) EXCEPT !.pos = after]

\* Runtime.Restore, Store.Replay: the books after a list of fills.
BooksAfter(fills) == FoldLeft(Book, EmptyBooks, fills)
=============================================================================
