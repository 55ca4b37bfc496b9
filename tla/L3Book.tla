------------------------------- MODULE L3Book -------------------------------
(***************************************************************************)
(* internal/orderbook.L3: the order-by-order book of an MBO feed (l3.go).  *)
(* The maps bids and asks are one function from <<side, price>> to the ids *)
(* in priority; a level without ids is the absent key.                     *)
(***************************************************************************)
EXTENDS Integers, FiniteSets, FiniteSetsExt, Sequences, SequencesExt, Functions, TLC, Picking

CONSTANT Rows   \* KindBook events: [action, id, side, px, qty]

RowRec == [action: {"add", "cancel", "modify", "clear"}, id: Nat,
           side: {"bid", "ask"}, px: Int, qty: Int]

ASSUME RowsAssumption == Rows \subseteq RowRec

VARIABLE book   \* [byID, level]

Levels == {<<r.side, r.px>> : r \in Rows}
EmptyBook == [byID |-> <<>>, level |-> [l \in Levels |-> <<>>]]
BookInit == book = EmptyBook

\* L3.cancel and drop.
Drop(b, id) ==
    IF id \notin DOMAIN b.byID THEN b
    ELSE LET l == <<b.byID[id].side, b.byID[id].px>> IN
         [byID  |-> Restrict(b.byID, DOMAIN b.byID \ {id}),
          level |-> [b.level EXCEPT ![l] = Pick(@, {k \in DOMAIN @ : @[k] # id})]]

\* L3.add and push: to the back of its level, from wherever it was.
Add(b, r) ==
    IF r.id = 0 \/ r.qty <= 0 THEN b
    ELSE LET c == Drop(b, r.id) IN
         [byID  |-> [x \in DOMAIN c.byID \cup {r.id} |->
                        IF x = r.id THEN [side |-> r.side, px |-> r.px, qty |-> r.qty]
                                    ELSE c.byID[x]],
          level |-> [c.level EXCEPT ![<<r.side, r.px>>] = Append(@, r.id)]]

LosesPlace(o, r) == r.px # o.px \/ r.side # o.side \/ r.qty > o.qty

Modify_AlwaysToBack(b, r) == IF r.qty <= 0 THEN Drop(b, r.id) ELSE Add(Drop(b, r.id), r)
Modify_SameLevel(b, r) ==
    IF r.id \notin DOMAIN b.byID THEN Add(b, r)
    ELSE [b EXCEPT !.byID[r.id] = [side |-> r.side, px |-> r.px, qty |-> r.qty]]

\* L3.modify: only a smaller size at the same price keeps its place.
Modify(b, r) ==
    IF r.id \notin DOMAIN b.byID THEN Add(b, r)
    ELSE IF r.qty <= 0 THEN Drop(b, r.id)
    ELSE IF LosesPlace(b.byID[r.id], r) THEN Add(Drop(b, r.id), r)
    ELSE [b EXCEPT !.byID[r.id].qty = r.qty]

ApplyRow(b, r) == CASE r.action = "clear"  -> EmptyBook
                    [] r.action = "add"    -> Add(b, r)
                    [] r.action = "cancel" -> Drop(b, r.id)
                    [] r.action = "modify" -> Modify(b, r)

\* FIFO: the orders at a level, first to trade first.
FIFO(b, l) ==
    IF l \notin Levels THEN <<>>
    ELSE [k \in DOMAIN b.level[l] |->
            [id |-> b.level[l][k], qty |-> b.byID[b.level[l][k]].qty]]

QtyOf(q) == Total([k \in DOMAIN q |-> q[k].qty])

\* bestOf and Quote: zero price and size where a side is empty.
PricesOf(b, side) == {l[2] : l \in {k \in Levels : k[1] = side /\ b.level[k] # <<>>}}
BestPx(b, side) ==
    LET ps == PricesOf(b, side) IN
    IF ps = {} THEN 0 ELSE IF side = "bid" THEN Max(ps) ELSE Min(ps)
Touch(b) ==
    LET bid == BestPx(b, "bid")
        ask == BestPx(b, "ask")
    IN [bidPx |-> bid, bidQty |-> QtyOf(FIFO(b, <<"bid", bid>>)),
        askPx |-> ask, askQty |-> QtyOf(FIFO(b, <<"ask", ask>>))]

-----------------------------------------------------------------------------
(* Properties. *)

\* The two halves of the book agree: every live order stands once, in the queue
\* of its own side and price, and nothing else stands there.  modify and the
\* re-add of a live id take an order out of one queue and put it into another.
BookIndexed ==
    /\ \A id \in DOMAIN book.byID, l \in Levels :
          Cardinality({k \in DOMAIN book.level[l] : book.level[l][k] = id}) =
              (IF l = <<book.byID[id].side, book.byID[id].px>> THEN 1 ELSE 0)
    /\ \A l \in Levels : Range(book.level[l]) \subseteq DOMAIN book.byID

\* l3.go:25-28: each order keeps its place until it cancels, fills, or a modify
\* counts as a new order; a smaller size keeps it.  So of two orders at a level
\* the first stays first unless it lost its place itself.
InFront(b, l, x, y) ==
    \E j, k \in DOMAIN b.level[l] : j < k /\ b.level[l][j] = x /\ b.level[l][k] = y
PlaceKept ==
    [][\A l \in Levels : \A x, y \in Range(book.level[l]) :
          /\ InFront(book, l, x, y)
          /\ {x, y} \subseteq Range(book'.level[l])
          /\ book'.byID[x].qty <= book.byID[x].qty
          => InFront(book', l, x, y)]_book
=============================================================================
