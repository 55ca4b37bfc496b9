------------------------------- MODULE L3Venue -------------------------------
(***************************************************************************)
(* The venue under QueueL3 (queue_l3.go): its touch comes from the MBO     *)
(* book, and a resting order, a ghost the book does not contain, counts    *)
(* the market orders in front of it one by one.                            *)
(*                                                                         *)
(* The settlement and the loops of onTradeL3 are those of Matching, with   *)
(* ahead the sum of aheadIDs and joined always set.  The feed has no       *)
(* KindQuote rows, and every row has a side.                               *)
(***************************************************************************)
EXTENDS Matching, L3Book

CONSTANT ReAdds     \* TRUE: a row may add an id that is live

ASSUME L3Assumption == ReAdds \in BOOLEAN

VARIABLE aheadIDs   \* resting.aheadIDs: [id, qty] of what is in front
VARIABLE behind     \* history: market orders that took their place after it rested

l3vars == <<vars, book, aheadIDs, behind>>

LInit == Init /\ BookInit /\ aheadIDs = [i \in Ids |-> <<>>]
              /\ behind = [i \in Ids |-> {}]

Level(o) == <<o.side, o.px>>

\* Only what works has a queue.
Queues(q) == [i \in Ids |-> IF place'[i] = "working" THEN q[i] ELSE <<>>]
Trailing(s) == [i \in Ids |-> IF place'[i] = "working" THEN s[i] ELSE {}]

LEnqueue(o) == Enqueue(o) /\ UNCHANGED <<book, aheadIDs, behind>>
LCancel(i) ==
    /\ Cancel(i)
    /\ aheadIDs' = Queues(aheadIDs) /\ behind' = Trailing(behind)
    /\ UNCHANGED book

RestL3_InFront(S, ords) ==
    /\ remaining' = [i \in Ids |-> IF i \in S THEN ords[i].qty ELSE remaining[i]]
    /\ joined' = [i \in Ids |-> i \in S \/ joined[i]]
    /\ aheadIDs' = aheadIDs
    /\ ahead' = ahead /\ claim' = claim

\* restL3 and snapshotAhead.
RestL3(S, ords) ==
    /\ remaining' = [i \in Ids |-> IF i \in S THEN ords[i].qty ELSE remaining[i]]
    /\ joined' = [i \in Ids |-> i \in S \/ joined[i]]
    /\ aheadIDs' = [i \in Ids |-> IF i \in S THEN FIFO(book, Level(ords[i]))
                                             ELSE aheadIDs[i]]
    /\ ahead' = [i \in Ids |-> IF i \in S THEN QtyOf(aheadIDs'[i]) ELSE ahead[i]]
    /\ claim' = [i \in Ids |-> IF i \in S THEN ahead'[i] ELSE claim[i]]

SettleL3(D, ts) ==
    SettleOutcome(D, ts) /\ RestL3(Rests(D), order) /\ UNCHANGED <<book, behind>>
LSettle(ts) ==
    now' = Later(ts) /\ SettleL3(In("inbox") \cup Due(ts), ts) /\ UNCHANGED flushed
LFlush ==
    SettleL3(In("inbox") \cup In("delayed"), now) /\ flushed' = TRUE /\ UNCHANGED now

\* Reconcile, before the first row.
LAdoptFirst ==
    /\ nextID = 0 /\ ~hasQ
    /\ \E ords \in Snapshots, lastID \in 0..MaxOrders :
          /\ AdoptOutcome(DOMAIN ords, ords, lastID)
          /\ RestL3(Limits(DOMAIN ords, ords), ords)
    /\ UNCHANGED <<book, behind>>

-----------------------------------------------------------------------------
\* cutAhead: that order's size in front becomes n, or it leaves.
CutAhead(q, id, n) ==
    LET kept == Pick(q, {k \in DOMAIN q : q[k].id # id \/ n > 0}) IN
    [k \in DOMAIN kept |-> IF kept[k].id = id THEN [id |-> id, qty |-> n] ELSE kept[k]]

OnBook_KeepsLost(i, r) ==
    CASE r.action = "clear"  -> <<>>
      [] r.action = "cancel" -> CutAhead(aheadIDs[i], r.id, 0)
      [] r.action = "modify" -> CutAhead(aheadIDs[i], r.id, r.qty)
      [] OTHER -> aheadIDs[i]

\* onBook: what a row does to the queue in front of order i.
OnBook(i, r) ==
    LET old == {k \in DOMAIN aheadIDs[i] : aheadIDs[i][k].id = r.id}
        lost == \/ r.px # order[i].px \/ r.side # order[i].side
                \/ \E k \in old : r.qty > aheadIDs[i][k].qty
    IN CASE r.action = "clear"  -> <<>>
         [] r.action = "cancel" -> CutAhead(aheadIDs[i], r.id, 0)
         [] r.action = "modify" -> CutAhead(aheadIDs[i], r.id, IF lost THEN 0 ELSE r.qty)
         [] OTHER -> aheadIDs[i]

\* The row gave its order a new place in the book.
NewPlace(b, c, r) ==
    {id \in DOMAIN c.byID :
        /\ id = r.id
        /\ id \in DOMAIN b.byID /\ r.action = "modify" => LosesPlace(b.byID[id], c.byID[id])}

\* applyBook: the book, then the touch it shows, then the queues.
BookRow(r, ts) ==
    /\ r.action = "add" /\ ~ReAdds => r.id \notin DOMAIN book.byID
    /\ now' = Later(ts)
    /\ book' = ApplyRow(book, r)
    /\ quote' = Touch(book') /\ hasQ' = TRUE
    /\ aheadIDs' = [i \in Ids |-> IF place[i] = "working" THEN OnBook(i, r)
                                                          ELSE aheadIDs[i]]
    /\ ahead' = [i \in Ids |-> IF place[i] = "working" THEN QtyOf(aheadIDs'[i])
                                                       ELSE ahead[i]]
    /\ behind' = [i \in Ids |-> IF place[i] = "working"
                                THEN (behind[i] \cap DOMAIN book'.byID)
                                     \cup NewPlace(book, book', r)
                                ELSE {}]
    /\ raw' = {}
    /\ UNCHANGED <<nextID, order, place, ready, remaining, joined, history>>

\* consumeAheadFIFO: what n contracts of a print leave of the queue q.  It reaches
\* the k-th order with n less what stands before that order.
Consume(q, n) ==
    LET upto(k) == Total([j \in 1..k |-> q[j].qty]) IN
    Pick([k \in DOMAIN q |-> [id |-> q[k].id, qty |-> Min2(q[k].qty, upto(k) - n)]],
         {k \in DOMAIN q : upto(k) > n})

\* onTradeL3.
LTrade(t, ts) ==
    \E left \in Passes(t) :
        /\ OnTrade(t, ts, left)
        /\ aheadIDs' = Queues([i \in Ids |-> IF i \in Hits(t)
                                             THEN Consume(aheadIDs[i], left[i - 1])
                                             ELSE aheadIDs[i]])
        /\ behind' = Trailing(behind)
        /\ UNCHANGED book

LNext ==
    \/ \E o \in Requests : LEnqueue(o)
    \/ \E i \in Ids : LCancel(i)
    \/ \E ts \in Stamps : LSettle(ts)
    \/ \E r \in Rows, ts \in Stamps : BookRow(r, ts)
    \/ \E t \in Trades, ts \in Stamps : LTrade(t, ts)
    \/ LFlush
    \/ LAdoptFirst

LSpec == LInit /\ [][LNext]_l3vars

-----------------------------------------------------------------------------
(* Properties. *)

\* The orders at i's level that were there first and have kept their place.
Older(i) ==
    LET q == FIFO(book, Level(order[i])) IN Pick(q, {k \in DOMAIN q : q[k].id \notin behind[i]})

\* queue.go:30-31: until a print hits it, what a ghost counts in front of it is
\* exactly the older part of the FIFO, order by order: cancels and reductions
\* move it up, new adds and orders that lost their place stand behind.  A print
\* comes before the rows that report it; from then on each order it still counts
\* is one of the older part, with no more than the book shows of it.
GhostIsFifo ==
    \A i \in In("working") :
        /\ since[i] = 0 => aheadIDs[i] = Older(i)
        /\ \A a \in Range(aheadIDs[i]) :
              \E o \in Range(Older(i)) : o.id = a.id /\ a.qty <= o.qty

\* No jump of the queue: the first print that fills an order at its price has
\* to be larger than everything older that the book shows there.
FirstPrintClears ==
    [][\A i \in In("working") : since[i] = 0 /\ atPx'[i] > 0 =>
          since'[i] >= QtyOf(Older(i)) + atPx'[i]]_l3vars

==============================================================================
