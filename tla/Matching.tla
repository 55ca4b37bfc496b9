------------------------------ MODULE Matching ------------------------------
(***************************************************************************)
(* The matching half of internal/execution: order entry with its delay,    *)
(* settlement at the touch, and the aggregate queue models of queue.go.    *)
(* The way back to the strategy (holdOrEmit and its outbox) is Venue.tla.  *)
(*                                                                         *)
(* An order is its venue id.  The three slices of the code (delayed,       *)
(* inbox, working) become place[i]: ids grow, the entry delay is constant  *)
(* and now never moves back, so each slice is always in id order and its   *)
(* order carries no information (snapshots list their orders by id, as the *)
(* store's does).  What a call returns is the set raw; its                 *)
(* elements are ordered by (pass, id), the order the loops emit them in.   *)
(*                                                                         *)
(* A definition named X_Y is X with the defect Y: the checks swap it in to *)
(* see that a property notices.  Nothing else uses it.                     *)
(***************************************************************************)
EXTENDS Integers, FiniteSets, Picking

CONSTANTS
    MaxOrders,  \* bound: ids the venue may issue
    MaxTs,      \* bound: largest TsRecv in the feed
    Requests,   \* orders a strategy may submit
    Quotes,     \* tops of book the feed may show
    Trades,     \* prints the feed may carry
    Entry,      \* Latency.Entry
    Model,      \* the QueueModel
    BadStamps   \* TRUE: a TsRecv may be out of order (FlagBadTsRecv)

Ids     == 1..MaxOrders
Sides   == {"bid", "ask"}
RequestRec == [side: Sides, kind: {"market", "limit"}, px: Int, qty: Int]
OrderRec == [side: Sides, kind: {"market", "limit"}, px: Int, qty: Nat]
QuoteRec == [bidPx: Int, bidQty: Nat, askPx: Int, askQty: Nat]
TradeRec == [px: Int, qty: Nat, aggressor: Sides \cup {"none"}]

ASSUME MatchingAssumption ==
    /\ MaxOrders \in Nat /\ MaxTs \in Nat /\ Entry \in Nat
    /\ Requests \subseteq RequestRec
    /\ Quotes \subseteq QuoteRec
    /\ Trades \subseteq TradeRec
    /\ Model \in {"pessimistic", "proportional"}
    /\ BadStamps \in BOOLEAN

Ended  == {"filled", "canceled", "rejected"}
Places == {"none", "delayed", "inbox", "working"} \cup Ended

\* What a call of the venue returns, one record per OrderEvent.
Event == [id: Ids, status: {"filled", "rejected"}, px: Int, qty: Nat,
          ts: 0..MaxTs, pass: {1, 2}]

VARIABLES
    nextID,     \* last id issued
    now,        \* the venue clock
    hasQ,       \* a quote has been seen
    quote,      \* the last one
    order,      \* [Ids -> OrderRec]
    place,      \* [Ids -> Places]
    ready,      \* delayedOrder.ready
    remaining,  \* resting.remaining
    ahead,      \* resting.ahead
    joined,     \* resting.joined
    raw         \* the OrderEvents of the last call

\* History: what happened to each order, for the properties only.
VARIABLES
    executed,   \* contracts executed
    atPx,       \* ... of which by a print at the limit price itself
    paid,       \* prices it executed at
    claim,      \* displayed size ahead of it when it joined
    since,      \* contracts printed at its price, against it, since then
    flushed     \* the tape has ended

resting == <<remaining, ahead, joined>>
history == <<executed, atPx, paid, claim, since, flushed>>
vars == <<nextID, now, hasQ, quote, order, place, ready, resting, raw, history>>

NoOrder == [side |-> "bid", kind |-> "market", px |-> 0, qty |-> 0]
NoQuote == [bidPx |-> 0, bidQty |-> 0, askPx |-> 0, askQty |-> 0]

Init ==
    /\ nextID = 0 /\ now = 0 /\ hasQ = FALSE /\ quote = NoQuote
    /\ order = [i \in Ids |-> NoOrder]
    /\ place = [i \in Ids |-> "none"]
    /\ ready = [i \in Ids |-> 0]
    /\ remaining = [i \in Ids |-> 0]
    /\ ahead = [i \in Ids |-> 0]
    /\ joined = [i \in Ids |-> FALSE]
    /\ raw = {}
    /\ executed = [i \in Ids |-> 0]
    /\ atPx = [i \in Ids |-> 0]
    /\ paid = [i \in Ids |-> {}]
    /\ claim = [i \in Ids |-> 0]
    /\ since = [i \in Ids |-> 0]
    /\ flushed = FALSE

-----------------------------------------------------------------------------
(* Helpers. *)

Valid(o) == o.qty > 0 /\ (o.kind = "limit" => o.px # 0)

Min2(a, b) == IF a <= b THEN a ELSE b
Later(ts) == IF ts > now THEN ts ELSE now

In(p) == {i \in Ids : place[i] = p}
Live == In("delayed") \cup In("inbox") \cup In("working")

\* The touch on the order's own side, and the one it would cross to.
OwnPx(o, q)  == IF o.side = "bid" THEN q.bidPx ELSE q.askPx
OwnQty(o, q) == IF o.side = "bid" THEN q.bidQty ELSE q.askQty
FarPx(o, q)  == IF o.side = "bid" THEN q.askPx ELSE q.bidPx

Crosses_OwnTouch(o, q) ==
    \/ o.kind = "market"
    \/ o.side = "bid" /\ o.px >= q.bidPx
    \/ o.side = "ask" /\ o.px <= q.askPx

\* fillPx and marketableLimit: does o execute at once against quote q?
Crosses(o, q) ==
    \/ o.kind = "market"
    \/ o.side = "bid" /\ o.px >= q.askPx
    \/ o.side = "ask" /\ o.px <= q.bidPx

\* joinAhead: at the touch an order queues behind the displayed size, and
\* strictly inside the spread it is alone.
Joins(o, q) == o.px = OwnPx(o, q) \/ (q.bidPx < o.px /\ o.px < q.askPx)
JoinAhead(o, q) == IF o.px = OwnPx(o, q) THEN OwnQty(o, q) ELSE 0

\* shrinkAhead: a size drop at an unchanged touch moves the order up by its
\* expected share (integer division, as in the code).
ShrinkAhead(i, q) ==
    LET o == order[i]
        old == OwnQty(o, quote)
        new == OwnQty(o, q)
    IN IF /\ joined[i] /\ ahead[i] > 0
          /\ OwnPx(o, quote) = o.px /\ OwnPx(o, q) = o.px
          /\ old > 0 /\ new < old
       THEN (ahead[i] * new) \div old
       ELSE ahead[i]

TradedThrough(o, px) == IF o.side = "bid" THEN px < o.px ELSE px > o.px
HitAtPrice(o, t) ==
    t.px = o.px /\ t.aggressor = (IF o.side = "bid" THEN "ask" ELSE "bid")

Filled(i, px, n, ts, pass) ==
    [id |-> i, status |-> "filled", px |-> px, qty |-> n, ts |-> ts, pass |-> pass]
Rejected(i) ==
    [id |-> i, status |-> "rejected", px |-> 0, qty |-> 0, ts |-> 0, pass |-> 1]

-----------------------------------------------------------------------------
(* Client calls. *)

\* Enqueue: assign an id, then hold the order until Settle.
Enqueue(o) ==
    /\ Valid(o)
    /\ nextID < MaxOrders
    /\ LET i == nextID + 1 IN
        /\ nextID' = i
        /\ order' = [order EXCEPT ![i] = o]
        /\ ready' = [ready EXCEPT ![i] = now + Entry]
        /\ place' = [place EXCEPT ![i] = IF Entry = 0 THEN "inbox" ELSE "delayed"]
    /\ raw' = {}
    /\ UNCHANGED <<now, hasQ, quote, resting, history>>

Cancel_Ended(i) ==
    /\ place[i] # "none"
    /\ place' = [place EXCEPT ![i] = "canceled"]
    /\ raw' = {}
    /\ UNCHANGED <<nextID, now, hasQ, quote, order, ready, resting, history>>

\* Cancel succeeds for an order in any of the three slices.
Cancel(i) ==
    /\ i \in Live
    /\ place' = [place EXCEPT ![i] = "canceled"]
    /\ raw' = {}
    /\ UNCHANGED <<nextID, now, hasQ, quote, order, ready, resting, history>>

Sync(ts) ==
    /\ now' = Later(ts)
    /\ raw' = {}
    /\ UNCHANGED <<nextID, hasQ, quote, order, place, ready, resting, history>>

-----------------------------------------------------------------------------
(* Settlement. *)

\* rest: the orders of S enter working, behind quote q if there is one.
Rest(S, ords, seen, q) ==
    /\ remaining' = [i \in Ids |-> IF i \in S THEN ords[i].qty ELSE remaining[i]]
    /\ joined' = [i \in Ids |-> IF i \in S THEN seen /\ Joins(ords[i], q)
                                           ELSE joined[i]]
    /\ ahead' = [i \in Ids |-> IF i \notin S THEN ahead[i]
                               ELSE IF seen THEN JoinAhead(ords[i], q) ELSE 0]
    /\ claim' = [i \in Ids |-> IF i \in S THEN ahead'[i] ELSE claim[i]]

\* settleInbox for the orders of D, except where they rest: what crosses fills
\* whole at the far touch, a limit that does not cross works, and without a
\* quote all are rejected.
Rests(D) == {i \in D : hasQ /\ ~Crosses(order[i], quote)}
SettleOutcome(D, ts) ==
    LET fills == {i \in D : hasQ /\ Crosses(order[i], quote)}
        rests == Rests(D)
        lost  == {i \in D : ~hasQ}
    IN  /\ place' = [i \in Ids |-> CASE i \in fills -> "filled"
                                     [] i \in rests -> "working"
                                     [] i \in lost  -> "rejected"
                                     [] OTHER       -> place[i]]
        /\ raw' = {Filled(i, FarPx(order[i], quote), order[i].qty, ts, 1) : i \in fills}
                  \cup {Rejected(i) : i \in lost}
        /\ executed' = [i \in Ids |-> IF i \in fills THEN order[i].qty ELSE executed[i]]
        /\ paid' = [i \in Ids |-> IF i \in fills THEN {FarPx(order[i], quote)}
                                                 ELSE paid[i]]
        /\ UNCHANGED <<nextID, hasQ, quote, order, ready, atPx, since>>
SettleInbox(D, ts) == SettleOutcome(D, ts) /\ Rest(Rests(D), order, hasQ, quote)

Due_All(ts) == In("delayed")
Due(ts) == {i \in In("delayed") : ready[i] <= ts}

Settle(ts) ==
    /\ now' = Later(ts)
    /\ SettleInbox(In("inbox") \cup Due(ts), ts)
    /\ UNCHANGED flushed

Flush_InboxOnly ==
    /\ SettleInbox(In("inbox"), now)
    /\ flushed' = TRUE
    /\ UNCHANGED now

\* The tape has ended: everything still held goes to the inbox and settles.
Flush ==
    /\ SettleInbox(In("inbox") \cup In("delayed"), now)
    /\ flushed' = TRUE
    /\ UNCHANGED now

\* Adopt: the snapshot is the live set.  Limits rest, markets wait in the inbox.
Limits(S, ords) == {i \in S : ords[i].kind = "limit"}
AdoptOutcome(S, ords, lastID) ==
    /\ \A i \in S : Valid(ords[i])
    /\ LET limits == Limits(S, ords) IN
        place' = [i \in Ids |-> CASE i \in limits     -> "working"
                                  [] i \in S \ limits -> "inbox"
                                  [] i \in Live \ S   -> "canceled"
                                  [] OTHER            -> place[i]]
    /\ order' = [i \in Ids |-> IF i \in S THEN ords[i] ELSE order[i]]
    /\ \E n \in S \cup {lastID, nextID} :
          /\ \A m \in S \cup {lastID, nextID} : m <= n
          /\ nextID' = n
    /\ raw' = {}
    /\ UNCHANGED <<now, hasQ, quote, ready, executed, atPx, paid, since, flushed>>
Adopt(S, ords, lastID) ==
    AdoptOutcome(S, ords, lastID) /\ Rest(Limits(S, ords), ords, hasQ, quote)

-----------------------------------------------------------------------------
(* MatchResting. *)

\* applyQuote: shrink the queue ahead (proportional model only, and not on the
\* first quote), then let every order that has not joined yet try again.
Quote(q, ts) ==
    LET shrunk(i) == IF hasQ /\ Model = "proportional"
                     THEN ShrinkAhead(i, q) ELSE ahead[i]
        trying == {i \in In("working") : ~joined[i]}
    IN  /\ now' = Later(ts)
        /\ quote' = q
        /\ hasQ' = TRUE
        /\ joined' = [i \in Ids |-> IF i \in trying THEN Joins(order[i], q)
                                                    ELSE joined[i]]
        /\ ahead' = [i \in Ids |-> CASE i \in trying        -> JoinAhead(order[i], q)
                                     [] place[i] = "working" /\ joined[i] -> shrunk(i)
                                     [] OTHER               -> ahead[i]]
        /\ claim' = [i \in Ids |-> IF i \in trying THEN JoinAhead(order[i], q)
                                                   ELSE claim[i]]
        /\ raw' = {}
        /\ UNCHANGED <<nextID, order, place, ready, remaining,
                       executed, atPx, paid, since, flushed>>

Through(t) == {i \in In("working") : TradedThrough(order[i], t.px)}
Hits(t)    == {i \in In("working") : joined[i] /\ HitAtPrice(order[i], t)}

Used_NotShared(i, t, left) == 0

\* The print's size after the second loop of onTrade has visited order i: each
\* order it hits eats into the size ahead of it first, then fills.
Used(i, t, left) == IF i \in Hits(t) THEN Min2(left, ahead[i] + remaining[i]) ELSE 0
Passes(t) == {left \in [0..MaxOrders -> 0..t.qty] :
                 /\ left[0] = t.qty
                 /\ \A i \in Ids : left[i] = left[i - 1] - Used(i, t, left[i - 1])}

Take_SkipsQueue(i, l) == Min2(l, remaining[i])
Take_Overshoots(i, l) == IF l <= ahead[i] THEN 0 ELSE l - ahead[i]
Take_Negative(i, l)   == Min2(l - ahead[i], remaining[i])

\* Contracts the queue fills of order i when l contracts of the print reach it.
Take(i, l) == IF l <= ahead[i] THEN 0 ELSE Min2(l - ahead[i], remaining[i])
\* Contracts each order gets of the print: what trades through an order fills it
\* whole, what hits it has to get past the queue.
Taken(t, left) == [i \in Ids |-> CASE i \in Through(t) -> remaining[i]
                                  [] i \in Hits(t)    -> Take(i, left[i - 1])
                                  [] OTHER            -> 0]

\* onTrade with that pass: take, filled, dropFilled.
OnTrade(t, ts, left) ==
    LET taken == Taken(t, left)
        hits  == Hits(t)
    IN  /\ now' = Later(ts)
        /\ remaining' = [i \in Ids |-> remaining[i] - taken[i]]
        /\ ahead' = [i \in Ids |-> IF i \in hits
                                   THEN ahead[i] - Min2(ahead[i], left[i - 1])
                                   ELSE ahead[i]]
        /\ place' = [i \in Ids |-> IF taken[i] > 0 /\ taken[i] = remaining[i]
                                   THEN "filled" ELSE place[i]]
        /\ raw' = {Filled(i, t.px, taken[i], ts, IF i \in Through(t) THEN 1 ELSE 2) :
                      i \in {j \in Ids : taken[j] > 0}}
        /\ executed' = [i \in Ids |-> executed[i] + taken[i]]
        /\ paid' = [i \in Ids |-> IF taken[i] > 0 THEN paid[i] \cup {t.px} ELSE paid[i]]
        /\ atPx' = [i \in Ids |-> IF i \in hits THEN atPx[i] + taken[i] ELSE atPx[i]]
        /\ since' = [i \in Ids |-> IF i \in hits THEN since[i] + t.qty ELSE since[i]]
        /\ UNCHANGED <<nextID, hasQ, quote, order, ready, joined, claim, flushed>>

Trade(t, ts) == \E left \in Passes(t) : OnTrade(t, ts, left)

-----------------------------------------------------------------------------
\* TsRecv of the next event: in order, unless the feed may carry bad stamps.
Stamps == IF BadStamps THEN 0..MaxTs ELSE now..MaxTs

\* Reconcile runs on a fresh venue, before the first event and the first order.
Snapshots == UNION {[S -> Requests] : S \in SUBSET Ids}
AdoptFirst ==
    /\ nextID = 0 /\ ~hasQ
    /\ \E ords \in Snapshots, lastID \in 0..MaxOrders :
          Adopt(DOMAIN ords, ords, lastID)

Next ==
    \/ \E o \in Requests : Enqueue(o)
    \/ \E i \in Ids : Cancel(i)
    \/ \E ts \in Stamps : Sync(ts)
    \/ \E ts \in Stamps : Settle(ts)
    \/ \E q \in Quotes, ts \in Stamps : Quote(q, ts)
    \/ \E t \in Trades, ts \in Stamps : Trade(t, ts)
    \/ Flush
    \/ AdoptFirst

Spec == Init /\ [][Next]_vars

-----------------------------------------------------------------------------
(* Properties. *)

TypeOK ==
    /\ nextID \in 0..MaxOrders
    /\ now \in 0..MaxTs
    /\ hasQ \in BOOLEAN
    /\ quote \in QuoteRec
    /\ order \in [Ids -> OrderRec]
    /\ place \in [Ids -> Places]
    /\ ready \in [Ids -> Nat]
    /\ remaining \in [Ids -> Nat]
    /\ ahead \in [Ids -> Nat]
    /\ joined \in [Ids -> BOOLEAN]
    /\ raw \subseteq Event
    /\ executed \in [Ids -> Nat]
    /\ atPx \in [Ids -> Nat]
    /\ paid \in [Ids -> SUBSET Int]
    /\ claim \in [Ids -> Nat]
    /\ since \in [Ids -> Nat]
    /\ flushed \in BOOLEAN

\* No contract is lost or filled twice: what an order executed and what it
\* still has resting always add up to its size, whatever mix of partial fills,
\* trade-throughs and cancels it went through (take, dropFilled, settleInbox).
Conservation ==
    \A i \in Ids :
        /\ place[i] = "working" =>
              remaining[i] > 0 /\ executed[i] + remaining[i] = order[i].qty
        /\ place[i] = "filled" => executed[i] = order[i].qty
        /\ place[i] \in {"none", "delayed", "inbox", "rejected"} => executed[i] = 0
        /\ executed[i] <= order[i].qty

\* A limit never executes at a price worse than its own: not at a touch that
\* moved during the entry delay, not on a print that trades through it.
LimitRespected ==
    \A i \in Ids : order[i].kind = "limit" =>
        \A p \in paid[i] : IF order[i].side = "bid" THEN p <= order[i].px
                                                     ELSE p >= order[i].px

\* queue.go:21, QueuePessimistic: every contract ahead when the order joined
\* has to trade at its price before it fills there; shrinking quotes, touches
\* that leave and return and the prints own orders share do not help it.
PessimisticQueue ==
    Model = "pessimistic" =>
        \A i \in Ids : atPx[i] > 0 => since[i] >= claim[i] + atPx[i]

\* An order that rests away from the market is not forgotten: as soon as the
\* quote reaches its price, or opens a spread around it, it is in the queue.
JoinedAtTouch ==
    hasQ => \A i \in In("working") : Joins(order[i], quote) => joined[i]

\* latency.go:15, Entry: nothing rests or executes before its entry delay has
\* passed on the venue clock, except when the end of the tape flushes it.
EntryHonoured ==
    ~flushed => \A i \in Ids :
        place[i] \in {"inbox", "working", "filled"} => ready[i] <= now

\* Own orders that wait at one price.
SameQueue(j, i) ==
    /\ place[j] = "working" /\ place[i] = "working"
    /\ order[j].side = order[i].side /\ order[j].px = order[i].px

\* Own orders at one price share a print, they do not each see it whole: what the
\* queue gives out on it adds up to no more than it, and none of it goes to an
\* order while an older one there still waits, though each has its own ahead and
\* they joined at different quotes (queue.go:190).
PrintShared ==
    [][\A i \in Ids : atPx'[i] > atPx[i] =>
          /\ Total([j \in Ids |-> atPx'[j] - atPx[j]]) <= since'[i] - since[i]
          /\ \A j \in Ids : j < i /\ SameQueue(j, i) => place'[j] # "working"]_vars

\* What a strategy is promised about an order, with no venue inside.
Life == INSTANCE OrderLife WITH
            status <- [i \in Ids |-> IF place[i] \in {"delayed", "inbox", "working"}
                                     THEN "open" ELSE place[i]],
            size   <- [i \in Ids |-> order[i].qty],
            done   <- executed

\* Every step of the venue is, for each order, a step of that life cycle.
ImplementsLife == Life!Spec
=============================================================================
