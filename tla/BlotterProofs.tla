----------------------------- MODULE BlotterProofs -----------------------------
(* Proofs about Blotter.tla: the books over any sequence of fills. *)
EXTENDS Blotter, OperatorProofs

BlotterInv == books \in BooksRec /\ Counted(books)

LEMMA BlotterInvHolds == BSpec => []BlotterInv
<1>1. BInit => BlotterInv
  BY EmptyBooksFacts DEF BInit, BlotterInv
<1>2. BlotterInv /\ [BNext]_blotterVars => BlotterInv'
  <2> SUFFICES ASSUME BlotterInv, [BNext]_blotterVars PROVE BlotterInv'
    OBVIOUS
  <2>1. ASSUME NEW f \in Fills, Record(f) PROVE BlotterInv'
    <3>1. f \in FillRec /\ books' = Book(books, f)
      BY <2>1, BlotterAssumption DEF Record
    <3> QED BY <3>1, BookFacts DEF BlotterInv
  <2>2. CASE UNCHANGED blotterVars
    BY <2>2 DEF blotterVars, BlotterInv
  <2> QED BY <2>1, <2>2 DEF BNext
<1> QED BY <1>1, <1>2, PTL DEF BSpec

\* The round trips of the blotter add up to the realized result whenever the
\* position is flat: every fee and tick is in exactly one trip.
THEOREM TripsHold == BSpec => []TripsSumToRealized
<1>1. BlotterInv => TripsSumToRealized
  BY DEF BlotterInv, Counted, TripsSumToRealized
<1> QED BY <1>1, BlotterInvHolds, PTL

\* A closing fill moves what it closes from unrealized to realized, and costs
\* its fee: nothing else changes at the fill's price.
LEMMA CloseKeepsEquity ==
  ASSUME NEW p \in PosRec, NEW f \in FillRec, p.qty # 0, ~SameWay(p.qty, Signed(f)),
         f.qty >= AbsQty(p.qty)
  PROVE  Equity(Apply(p, f), f.px) = Equity(p, f.px) - f.fee
<1>1. p.qty \in Int /\ p.avgPx \in Int /\ p.realized \in Int
  BY DEF PosRec
<1>2. /\ f.px \in Int /\ f.qty \in Nat /\ f.fee \in Nat /\ Signed(f) \in Int
  BY SignedFacts
<1> DEFINE a == AbsQty(p.qty)
           ticks == IF p.qty < 0 THEN p.avgPx - f.px ELSE f.px - p.avgPx
           remain == f.qty - a
           gain == ticks * a * CentsPerTick
<1>3. a \in Nat /\ a > 0 /\ f.qty > 0 /\ remain \in Nat /\ ticks \in Int
  BY <1>1, <1>2 DEF AbsQty
<1>4. Apply(p, f) = [qty |-> IF Signed(f) > 0 THEN remain ELSE -remain,
                     avgPx |-> IF remain = 0 THEN 0 ELSE f.px,
                     realized |-> p.realized - f.fee + gain]
  <2>1. (IF f.qty > a THEN a ELSE f.qty) = a
    BY <1>2, <1>3
  <2> HIDE DEF a
  <2>2. Apply(p, f) = Close(p, f)
    BY <1>2, <1>3 DEF Apply
  <2> QED BY <2>1, <2>2 DEF Close, a
<1>5. gain \in Int
  <2> HIDE DEF ticks, a
  <2> DEFINE ta == ticks * a
  <2>1. ta \in Int /\ CentsPerTick \in Nat
    BY <1>3, PositionAssumption
  <2> HIDE DEF ta
  <2>2. ta * CentsPerTick \in Int
    BY <2>1
  <2> QED BY <2>2 DEF ta
<1>6. Unrealized(p, f.px, f.px) = gain
  <2>1. CASE p.qty > 0
    <3>1. a = p.qty /\ ticks = f.px - p.avgPx
      BY <1>1, <2>1 DEF AbsQty
    <3> HIDE DEF a, ticks
    <3> QED BY <2>1, <3>1 DEF Unrealized
  <2>2. CASE ~(p.qty > 0)
    <3>1. a = -p.qty /\ ticks = p.avgPx - f.px
      BY <1>1, <2>2 DEF AbsQty
    <3> HIDE DEF a, ticks
    <3> QED BY <2>2, <3>1 DEF Unrealized
  <2> QED BY <2>1, <2>2
<1>7. Unrealized(Apply(p, f), f.px, f.px) = 0
  <2> DEFINE q == Apply(p, f)
  <2>1. q.qty \in Int /\ q.avgPx \in Int /\ (q.qty = 0 \/ q.avgPx = f.px)
    BY <1>2, <1>3, <1>4
  <2> HIDE DEF q
  <2>2. (f.px - q.avgPx) * q.qty = 0 /\ (q.avgPx - f.px) * (-q.qty) = 0
    <3>1. CASE q.qty = 0
      BY <1>2, <2>1, <3>1
    <3>2. CASE q.avgPx = f.px
      BY <1>2, <2>1, <3>2
    <3> QED BY <2>1, <3>1, <3>2
  <2>3. 0 * CentsPerTick = 0
    BY PositionAssumption
  <2> QED BY <2>2, <2>3 DEF Unrealized, q
<1>8. Apply(p, f).realized = p.realized - f.fee + gain
  BY <1>4
<1> HIDE DEF gain, a, ticks, remain
<1> QED BY <1>1, <1>2, <1>5, <1>6, <1>7, <1>8 DEF Equity

\* EquityKept: a fill that ends or reverses the position moves equity at its price
\* by its fee alone (position.go, close; pnl.go, Unrealized).
THEOREM EquityKeptHolds == BSpec => EquityKept
<1> DEFINE Ending == \A f \in Fills :
                     /\ Record(f)
                     /\ books.pos.qty # 0 /\ ~SameWay(books.pos.qty, Signed(f))
                     /\ f.qty >= AbsQty(books.pos.qty)
                     => Equity(books'.pos, f.px) = Equity(books.pos, f.px) - f.fee
<1>1. BlotterInv => [Ending]_blotterVars
  <2> SUFFICES ASSUME BlotterInv, NEW f \in Fills, Record(f),
                      books.pos.qty # 0, ~SameWay(books.pos.qty, Signed(f)),
                      f.qty >= AbsQty(books.pos.qty)
               PROVE  Equity(books'.pos, f.px) = Equity(books.pos, f.px) - f.fee
    OBVIOUS
  <2>1. f \in FillRec /\ books.pos \in PosRec /\ books \in BooksRec /\ books' = Book(books, f)
    BY BlotterAssumption DEF BlotterInv, BooksRec, Record
  <2>2. books'.pos = Apply(books.pos, f)
    BY <2>1, BookFacts
  <2> QED BY <2>1, <2>2, CloseKeepsEquity
<1> QED BY <1>1, BlotterInvHolds, PTL DEF EquityKept
=============================================================================
