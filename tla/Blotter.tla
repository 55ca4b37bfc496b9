------------------------------- MODULE Blotter -------------------------------
(***************************************************************************)
(* The books of internal/portfolio as a machine: a position and its        *)
(* blotter taking one fill after another in any order the venue may send.  *)
(***************************************************************************)
EXTENDS Position, Picking

CONSTANTS
    Fills,      \* the fills that may arrive
    MaxFills    \* bound: fills taken

ASSUME BlotterAssumption == Fills \subseteq FillRec /\ MaxFills \in Nat

VARIABLES
    books,      \* position, openRealized, trades
    net,        \* history: signed contracts filled
    taken       \* history: number of fills

blotterVars == <<books, net, taken>>

BInit == books = EmptyBooks /\ net = 0 /\ taken = 0

Record(f) ==
    /\ taken < MaxFills
    /\ books' = Book(books, f)
    /\ net' = net + Signed(f)
    /\ taken' = taken + 1

BNext == \E f \in Fills : Record(f)
BSpec == BInit /\ [][BNext]_blotterVars

-----------------------------------------------------------------------------
(* Properties. *)

\* Position at a price: what closing it there would leave realized.
Equity(p, px) == p.realized + Unrealized(p, px, px)

\* A fill that closes the whole position, reversing it or not, only moves value
\* from unrealized to realized: at the fill's own price the equity changes by
\* the fee and nothing else (one ticket, two economic events).
EquityKept ==
    [][\A f \in Fills :
          /\ Record(f)
          /\ books.pos.qty # 0 /\ ~SameWay(books.pos.qty, Signed(f))
          /\ f.qty >= AbsQty(books.pos.qty)
          => Equity(books'.pos, f.px) = Equity(books.pos, f.px) - f.fee]_blotterVars

\* The round trips account for the whole result: when flat, their sum is the
\* realized total, fees of opening, adding and reversing fills included.
TripsSumToRealized ==
    books.pos.qty = 0 =>
        Total(books.trades) = books.pos.realized

\* position.go:8: the position is one instrument's signed size, so it is the
\* signed sum of the fills.
PositionIsNet == books.pos.qty = net
==============================================================================
