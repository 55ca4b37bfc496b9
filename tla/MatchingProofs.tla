---------------------------- MODULE MatchingProofs ----------------------------
(***************************************************************************)
(* Proofs about Matching.tla for every value of its constants: type        *)
(* correctness, the safety invariants, and the life cycle it implements.   *)
(***************************************************************************)
EXTENDS Matching, OperatorProofs

-----------------------------------------------------------------------------
(* Facts about the helpers. *)

\* An expected share of the size ahead is a size: what shrinkAhead divides.
LEMMA ShareIsNat ==
    ASSUME NEW a \in Nat, NEW n \in Nat, NEW d \in Nat, d > 0
    PROVE  (a * n) \div d \in Nat
<1>1. a * n \in Nat  OBVIOUS
<1> QED BY <1>1

LEMMA StampsAreTimes == TypeOK => Stamps \subseteq 0..MaxTs
  BY MatchingAssumption DEF TypeOK, Stamps

LEMMA LaterIsTime ==
    ASSUME TypeOK, NEW ts \in Stamps
    PROVE  Later(ts) \in 0..MaxTs /\ ts \in Nat /\ ts <= Later(ts) /\ now <= Later(ts)
  BY StampsAreTimes, MatchingAssumption DEF TypeOK, Later

\* What an order queues behind is a size.
LEMMA JoinAheadIsNat ==
    ASSUME NEW o \in OrderRec, NEW q \in QuoteRec
    PROVE  JoinAhead(o, q) \in Nat /\ Joins(o, q) \in BOOLEAN /\ FarPx(o, q) \in Int
  BY DEF OrderRec, QuoteRec, JoinAhead, Joins, OwnPx, OwnQty, FarPx, Sides

LEMMA ShrinkAheadIsNat ==
    ASSUME TypeOK, NEW i \in Ids, NEW q \in QuoteRec
    PROVE  ShrinkAhead(i, q) \in Nat
<1> DEFINE old == OwnQty(order[i], quote)
           new == OwnQty(order[i], q)
<1>1. old \in Nat /\ new \in Nat /\ ahead[i] \in Nat
  BY DEF TypeOK, OwnQty, OrderRec, QuoteRec
<1>2. old > 0 => (ahead[i] * new) \div old \in Nat
  BY <1>1, ShareIsNat
<1> QED BY <1>1, <1>2 DEF ShrinkAhead

\* A print never takes more of an order than is left of it.
LEMMA TakeBounds ==
    ASSUME TypeOK, NEW i \in Ids, NEW l \in Nat
    PROVE  /\ Take(i, l) \in 0..remaining[i]
           /\ ahead[i] - Min2(ahead[i], l) \in Nat
           /\ l <= ahead[i] => Take(i, l) = 0
           /\ l > ahead[i] => Take(i, l) <= l - ahead[i]
  BY DEF TypeOK, Take, Min2

-----------------------------------------------------------------------------
(* Type correctness. *)

LEMMA InitType == Init => TypeOK
<1>1. NoOrder \in OrderRec /\ NoQuote \in QuoteRec
  BY DEF NoOrder, NoQuote, OrderRec, QuoteRec, Sides
<1>2. SUFFICES ASSUME Init PROVE TypeOK
  OBVIOUS
<1>3. order \in [Ids -> OrderRec] /\ quote \in QuoteRec
  BY <1>1, <1>2 DEF Init
<1>4. place \in [Ids -> Places] /\ paid \in [Ids -> SUBSET Int]
  BY <1>2 DEF Init, Places
<1>5. nextID \in 0..MaxOrders /\ now \in 0..MaxTs
  BY <1>2, MatchingAssumption DEF Init
<1>6. /\ ready \in [Ids -> Nat] /\ remaining \in [Ids -> Nat] /\ ahead \in [Ids -> Nat]
      /\ executed \in [Ids -> Nat] /\ atPx \in [Ids -> Nat]
      /\ claim \in [Ids -> Nat] /\ since \in [Ids -> Nat]
  BY <1>2 DEF Init
<1>7. hasQ \in BOOLEAN /\ flushed \in BOOLEAN /\ joined \in [Ids -> BOOLEAN] /\ raw \subseteq Event
  BY <1>2 DEF Init
<1> QED BY <1>3, <1>4, <1>5, <1>6, <1>7 DEF TypeOK

LEMMA EnqueueType ==
    ASSUME TypeOK, NEW o \in Requests, Enqueue(o)
    PROVE  TypeOK'
<1>1. nextID' \in 0..MaxOrders /\ nextID' \in Ids
  BY MatchingAssumption DEF TypeOK, Enqueue, Ids
<1>2. order' \in [Ids -> OrderRec]
  <2>1. o \in OrderRec
    BY MatchingAssumption DEF Enqueue, Valid, RequestRec, OrderRec
  <2> QED BY <1>1, <2>1 DEF TypeOK, Enqueue
<1>3. ready' \in [Ids -> Nat]
  BY <1>1, MatchingAssumption DEF TypeOK, Enqueue
<1>4. place' \in [Ids -> Places]
  BY <1>1 DEF TypeOK, Enqueue, Places
<1>5. raw' \subseteq Event
  BY DEF Enqueue
<1> QED BY <1>1, <1>2, <1>3, <1>4, <1>5 DEF TypeOK, Enqueue, resting, history

LEMMA CancelType ==
    ASSUME TypeOK, NEW i \in Ids, Cancel(i)
    PROVE  TypeOK'
  BY DEF TypeOK, Cancel, Places, Ended, resting, history

LEMMA SyncType ==
    ASSUME TypeOK, NEW ts \in Stamps, Sync(ts)
    PROVE  TypeOK'
  BY LaterIsTime DEF TypeOK, Sync, resting, history

\* Settlement under any queue model.
LEMMA OutcomeType ==
    ASSUME TypeOK, NEW D \in SUBSET Ids, NEW ts \in 0..MaxTs, SettleOutcome(D, ts),
           now' \in 0..MaxTs, flushed' \in BOOLEAN,
           remaining' \in [Ids -> Nat], ahead' \in [Ids -> Nat],
           joined' \in [Ids -> BOOLEAN], claim' \in [Ids -> Nat]
    PROVE  TypeOK'
<1> DEFINE fills == {i \in D : hasQ /\ Crosses(order[i], quote)}
           lost  == {i \in D : ~hasQ}
<1>1. place' \in [Ids -> Places]
  BY DEF TypeOK, SettleOutcome, Rests, Places, Ended
<1>2. \A i \in Ids : FarPx(order[i], quote) \in Int
  BY JoinAheadIsNat DEF TypeOK
<1>3. raw' \subseteq Event
  <2>1. raw' = {Filled(i, FarPx(order[i], quote), order[i].qty, ts, 1) : i \in fills}
               \cup {Rejected(i) : i \in lost}
    BY DEF SettleOutcome, Rests
  <2>2. \A i \in fills : Filled(i, FarPx(order[i], quote), order[i].qty, ts, 1) \in Event
    BY <1>2 DEF TypeOK, Filled, Event, OrderRec
  <2>3. \A i \in lost : Rejected(i) \in Event
    BY MatchingAssumption DEF Rejected, Event
  <2> QED BY <2>1, <2>2, <2>3
<1>4. executed' \in [Ids -> Nat]
  BY DEF TypeOK, SettleOutcome, Rests, OrderRec
<1>5. paid' \in [Ids -> SUBSET Int]
  BY <1>2 DEF TypeOK, SettleOutcome, Rests
<1>6. UNCHANGED <<nextID, hasQ, quote, order, ready, atPx, since>>
  BY DEF SettleOutcome, Rests
<1> QED BY <1>1, <1>3, <1>4, <1>5, <1>6 DEF TypeOK

LEMMA SettleInboxType ==
    ASSUME TypeOK, NEW D \in SUBSET Ids, NEW ts \in 0..MaxTs, SettleInbox(D, ts),
           now' \in 0..MaxTs, flushed' \in BOOLEAN
    PROVE  TypeOK'
<1> DEFINE rests == {i \in D : hasQ /\ ~Crosses(order[i], quote)}
<1>1. SettleOutcome(D, ts)
  BY DEF SettleInbox
<1>2. Rest(rests, order, hasQ, quote)
  BY DEF SettleInbox, SettleOutcome, Rests
<1>3. /\ remaining' \in [Ids -> Nat]
      /\ ahead' \in [Ids -> Nat]
      /\ joined' \in [Ids -> BOOLEAN]
      /\ claim' \in [Ids -> Nat]
  <2>1. \A i \in Ids : /\ order[i].qty \in Nat
                       /\ JoinAhead(order[i], quote) \in Nat
                       /\ Joins(order[i], quote) \in BOOLEAN
    BY JoinAheadIsNat DEF TypeOK, OrderRec
  <2>2. ahead' \in [Ids -> Nat]
    BY <1>2, <2>1 DEF TypeOK, Rest
  <2> HIDE DEF rests
  <2> QED BY <1>2, <2>1, <2>2 DEF TypeOK, Rest
<1> QED BY <1>1, <1>3, OutcomeType

LEMMA SettleType ==
    ASSUME TypeOK, NEW ts \in Stamps, Settle(ts)
    PROVE  TypeOK'
<1>1. In("inbox") \cup Due(ts) \in SUBSET Ids
  BY DEF In, Due
<1>2. ts \in 0..MaxTs /\ now' \in 0..MaxTs /\ flushed' \in BOOLEAN
  BY LaterIsTime, StampsAreTimes DEF Settle, TypeOK
<1>3. SettleInbox(In("inbox") \cup Due(ts), ts)
  BY DEF Settle
<1> QED BY <1>1, <1>2, <1>3, SettleInboxType

LEMMA FlushType ==
    ASSUME TypeOK, Flush
    PROVE  TypeOK'
<1>1. In("inbox") \cup In("delayed") \in SUBSET Ids
  BY DEF In
<1>2. now \in 0..MaxTs /\ now' \in 0..MaxTs /\ flushed' \in BOOLEAN
  BY MatchingAssumption DEF Flush, TypeOK
<1>3. PICK t \in 0..MaxTs : t = now
  BY <1>2
<1>4. SettleInbox(In("inbox") \cup In("delayed"), t)
  BY <1>3 DEF Flush
<1> QED BY <1>1, <1>2, <1>4, SettleInboxType

\* Any snapshot of well formed orders will do, the first of a session or not.
LEMMA AdoptOutcomeType ==
    ASSUME TypeOK, NEW S \in SUBSET Ids, NEW ords, NEW lastID \in 0..MaxOrders,
           \A i \in S : ords[i] \in OrderRec, AdoptOutcome(S, ords, lastID),
           remaining' \in [Ids -> Nat], ahead' \in [Ids -> Nat],
           joined' \in [Ids -> BOOLEAN], claim' \in [Ids -> Nat]
    PROVE  TypeOK'
<1>1. place' \in [Ids -> Places]
  BY DEF TypeOK, AdoptOutcome, Limits, Places, Ended
<1>2. order' \in [Ids -> OrderRec]
  BY DEF TypeOK, AdoptOutcome, Limits
<1>3. nextID' \in 0..MaxOrders
  BY DEF TypeOK, AdoptOutcome, Limits, Ids
<1>4. raw' \subseteq Event
  BY DEF AdoptOutcome, Limits
<1> QED BY <1>1, <1>2, <1>3, <1>4 DEF TypeOK, AdoptOutcome, Limits

LEMMA AdoptsType ==
    ASSUME TypeOK, NEW S \in SUBSET Ids, NEW ords, NEW lastID \in 0..MaxOrders,
           \A i \in S : ords[i] \in OrderRec, Adopt(S, ords, lastID)
    PROVE  TypeOK'
<1>4. \A i \in S : /\ ords[i].qty \in Nat
                   /\ JoinAhead(ords[i], quote) \in Nat
                   /\ Joins(ords[i], quote) \in BOOLEAN
  BY JoinAheadIsNat DEF TypeOK, OrderRec
<1> DEFINE limits == {i \in S : ords[i].kind = "limit"}
<1>5. Rest(limits, ords, hasQ, quote)
  BY DEF Adopt, AdoptOutcome, Limits
<1>6. limits \subseteq S
  OBVIOUS
<1>7. ahead' \in [Ids -> Nat]
  BY <1>4, <1>5 DEF TypeOK, Rest
<1>8. remaining' \in [Ids -> Nat] /\ joined' \in [Ids -> BOOLEAN] /\ claim' \in [Ids -> Nat]
  <2> HIDE DEF limits
  <2> QED BY <1>4, <1>5, <1>6, <1>7 DEF TypeOK, Rest
<1>9. AdoptOutcome(S, ords, lastID)
  BY DEF Adopt
<1> QED BY <1>7, <1>8, <1>9, AdoptOutcomeType

LEMMA AdoptType ==
    ASSUME TypeOK, AdoptFirst
    PROVE  TypeOK'
<1>1. PICK ords \in Snapshots, lastID \in 0..MaxOrders : Adopt(DOMAIN ords, ords, lastID)
  BY DEF AdoptFirst
<1> DEFINE S == DOMAIN ords
<1>2. S \in SUBSET Ids /\ ords \in [S -> Requests]
  BY DEF Snapshots
<1>3. \A i \in S : ords[i] \in OrderRec
  BY <1>1, <1>2, MatchingAssumption DEF Adopt, AdoptOutcome, Limits, Valid, RequestRec, OrderRec
<1> HIDE DEF S
<1> QED BY <1>1, <1>2, <1>3, AdoptsType DEF S

LEMMA QuoteType ==
    ASSUME TypeOK, NEW q \in Quotes, NEW ts \in Stamps, Quote(q, ts)
    PROVE  TypeOK'
<1>1. q \in QuoteRec /\ now' \in 0..MaxTs
  BY LaterIsTime, MatchingAssumption DEF Quote
<1>2. \A i \in Ids : /\ JoinAhead(order[i], q) \in Nat
                     /\ Joins(order[i], q) \in BOOLEAN
                     /\ ShrinkAhead(i, q) \in Nat
  BY <1>1, JoinAheadIsNat, ShrinkAheadIsNat DEF TypeOK
<1>3. joined' \in [Ids -> BOOLEAN]
  BY <1>2 DEF TypeOK, Quote
<1>4. ahead' \in [Ids -> Nat]
  BY <1>2 DEF TypeOK, Quote
<1>5. claim' \in [Ids -> Nat]
  BY <1>2 DEF TypeOK, Quote
<1>6. quote' \in QuoteRec /\ hasQ' \in BOOLEAN /\ raw' \subseteq Event
  BY <1>1 DEF Quote
<1> QED BY <1>1, <1>3, <1>4, <1>5, <1>6 DEF TypeOK, Quote

-----------------------------------------------------------------------------
(* What a print takes. *)

\* No print both trades through an order and hits it at its price.
LEMMA ThroughOrHit ==
    ASSUME TypeOK, NEW t \in TradeRec, NEW i \in Through(t)
    PROVE  i \notin Hits(t)
  BY DEF TypeOK, TradeRec, OrderRec, Through, Hits, TradedThrough, HitAtPrice, In

LEMMA LeftIsNat ==
    ASSUME NEW t \in Trades, NEW left \in Passes(t), NEW i \in Ids
    PROVE  t \in TradeRec /\ left[i - 1] \in Nat /\ left[i - 1] <= t.qty
<1>1. t \in TradeRec
  BY MatchingAssumption
<1>2. left \in [0..MaxOrders -> 0..t.qty]
  BY DEF Passes
<1>3. i - 1 \in 0..MaxOrders
  BY MatchingAssumption DEF Ids
<1> QED BY <1>1, <1>2, <1>3 DEF TradeRec

\* Pointwise: what every order gives up is no more than it has, what it had
\* ahead only falls, and only working orders give up anything.
LEMMA TakenBounds ==
    ASSUME TypeOK, NEW t \in Trades, NEW left \in Passes(t), NEW i \in Ids
    PROVE  /\ Taken(t, left)[i] \in 0..remaining[i]
           /\ ahead[i] - Min2(ahead[i], left[i - 1]) \in Nat
           /\ place[i] # "working" => Taken(t, left)[i] = 0
           /\ i \in Through(t) => Taken(t, left)[i] = remaining[i]
           /\ i \in Hits(t) => Taken(t, left)[i] = Take(i, left[i - 1])
           /\ i \notin Through(t) /\ i \notin Hits(t) => Taken(t, left)[i] = 0
<1>1. t \in TradeRec /\ left[i - 1] \in Nat
  BY LeftIsNat
<1>2. Take(i, left[i - 1]) \in 0..remaining[i] /\ ahead[i] - Min2(ahead[i], left[i - 1]) \in Nat
  BY <1>1, TakeBounds
<1>3. i \in Through(t) => i \notin Hits(t)
  BY <1>1, ThroughOrHit
<1>4. remaining[i] \in Nat
  BY DEF TypeOK
<1>5. (i \in Through(t) => place[i] = "working") /\ (i \in Hits(t) => place[i] = "working")
  BY DEF Through, Hits, In
<1> QED BY <1>2, <1>3, <1>4, <1>5 DEF Taken

LEMMA TradeType ==
    ASSUME TypeOK, NEW t \in Trades, NEW ts \in Stamps, Trade(t, ts)
    PROVE  TypeOK'
<1>1. PICK left \in Passes(t) : OnTrade(t, ts, left)
  BY DEF Trade
<1>2. \A i \in Ids : /\ Taken(t, left)[i] \in 0..remaining[i]
                     /\ ahead[i] - Min2(ahead[i], left[i - 1]) \in Nat
  BY TakenBounds
<1>3. t \in TradeRec /\ ts \in 0..MaxTs /\ now' \in 0..MaxTs
  BY <1>1, LaterIsTime, StampsAreTimes, MatchingAssumption DEF OnTrade
<1>4. remaining' \in [Ids -> Nat] /\ executed' \in [Ids -> Nat] /\ atPx' \in [Ids -> Nat]
  BY <1>1, <1>2 DEF TypeOK, OnTrade
<1>5. ahead' \in [Ids -> Nat]
  BY <1>1, <1>2 DEF TypeOK, OnTrade
<1>6. since' \in [Ids -> Nat] /\ paid' \in [Ids -> SUBSET Int]
  BY <1>1, <1>3 DEF TypeOK, TradeRec, OnTrade
<1>7. place' \in [Ids -> Places]
  BY <1>1 DEF TypeOK, Places, Ended, OnTrade
<1>8. raw' \subseteq Event
  <2>1. \A i \in Ids, n \in Nat, k \in {1, 2} : Filled(i, t.px, n, ts, k) \in Event
    BY <1>3 DEF Filled, Event, TradeRec
  <2>2. \A i \in Ids : Taken(t, left)[i] \in Nat
    BY <1>2 DEF TypeOK
  <2> QED BY <1>1, <2>1, <2>2 DEF OnTrade
<1> QED BY <1>1, <1>3, <1>4, <1>5, <1>6, <1>7, <1>8 DEF TypeOK, OnTrade

LEMMA NextType == TypeOK /\ [Next]_vars => TypeOK'
<1> SUFFICES ASSUME TypeOK, [Next]_vars PROVE TypeOK'
  OBVIOUS
<1>1. ASSUME NEW o \in Requests, Enqueue(o) PROVE TypeOK'
  BY <1>1, EnqueueType
<1>2. ASSUME NEW i \in Ids, Cancel(i) PROVE TypeOK'
  BY <1>2, CancelType
<1>3. ASSUME NEW ts \in Stamps, Sync(ts) PROVE TypeOK'
  BY <1>3, SyncType
<1>4. ASSUME NEW ts \in Stamps, Settle(ts) PROVE TypeOK'
  BY <1>4, SettleType
<1>5. ASSUME NEW q \in Quotes, NEW ts \in Stamps, Quote(q, ts) PROVE TypeOK'
  BY <1>5, QuoteType
<1>6. ASSUME NEW t \in Trades, NEW ts \in Stamps, Trade(t, ts) PROVE TypeOK'
  BY <1>6, TradeType
<1>7. CASE Flush
  BY <1>7, FlushType
<1>8. CASE AdoptFirst
  BY <1>8, AdoptType
<1>9. CASE UNCHANGED vars
  BY <1>9 DEF TypeOK, vars, resting, history
<1> QED BY <1>1, <1>2, <1>3, <1>4, <1>5, <1>6, <1>7, <1>8, <1>9 DEF Next

\* Every call of the venue, on any tape and with any strategy, keeps its state
\* well formed: in particular the size ahead of an order, and what is left of
\* it, never go below zero (take, onTrade, shrinkAhead).
THEOREM TypeCorrect == Spec => []TypeOK
  BY InitType, NextType, PTL DEF Spec
-----------------------------------------------------------------------------
(* Safety: Base is the inductive core, and each invariant after it is      *)
(* inductive relative to Base.                                             *)

\* Ids not issued yet have no order, and an id without an order has no past.
FreshIds  == \A i \in Ids : i > nextID => place[i] = "none"
Untouched == \A i \in Ids : place[i] = "none" => ready[i] = 0 /\ paid[i] = {}
\* What the venue holds has passed validate.
LiveValid == \A i \in Live : Valid(order[i])

Base == TypeOK /\ FreshIds /\ Untouched /\ LiveValid /\ Conservation

-----------------------------------------------------------------------------
(* Settlement, pointwise. *)

LEMMA NotSettled ==
    ASSUME TypeOK, NEW D \in SUBSET Ids, NEW ts, SettleInbox(D, ts), NEW i \in Ids, i \notin D
    PROVE  /\ place'[i] = place[i] /\ remaining'[i] = remaining[i] /\ ahead'[i] = ahead[i]
           /\ joined'[i] = joined[i] /\ claim'[i] = claim[i]
           /\ executed'[i] = executed[i] /\ paid'[i] = paid[i]
  BY DEF TypeOK, SettleInbox, SettleOutcome, Rests, Rest

LEMMA Settled ==
    ASSUME TypeOK, NEW D \in SUBSET Ids, NEW ts, SettleInbox(D, ts), NEW i \in D
    PROVE  \/ /\ hasQ /\ Crosses(order[i], quote)
              /\ place'[i] = "filled" /\ executed'[i] = order[i].qty
              /\ paid'[i] = {FarPx(order[i], quote)}
              /\ joined'[i] = joined[i] /\ ahead'[i] = ahead[i] /\ claim'[i] = claim[i]
           \/ /\ hasQ /\ ~Crosses(order[i], quote)
              /\ place'[i] = "working" /\ executed'[i] = executed[i]
              /\ remaining'[i] = order[i].qty /\ paid'[i] = paid[i]
              /\ joined'[i] = Joins(order[i], quote)
              /\ ahead'[i] = JoinAhead(order[i], quote) /\ claim'[i] = ahead'[i]
           \/ /\ ~hasQ
              /\ place'[i] = "rejected" /\ executed'[i] = executed[i]
              /\ paid'[i] = paid[i]
              /\ joined'[i] = joined[i] /\ ahead'[i] = ahead[i] /\ claim'[i] = claim[i]
<1>1. CASE hasQ /\ Crosses(order[i], quote)
  BY <1>1 DEF TypeOK, SettleInbox, SettleOutcome, Rests, Rest
<1>2. CASE hasQ /\ ~Crosses(order[i], quote)
  BY <1>2, JoinAheadIsNat DEF TypeOK, SettleInbox, SettleOutcome, Rests, Rest
<1>3. CASE ~hasQ
  BY <1>3 DEF TypeOK, SettleInbox, SettleOutcome, Rests, Rest
<1> QED BY <1>1, <1>2, <1>3

-----------------------------------------------------------------------------
(* Base is inductive. *)

LEMMA InitBase == Init => Base
<1> SUFFICES ASSUME Init PROVE Base
  OBVIOUS
<1>1. TypeOK
  BY InitType
<1>2. FreshIds /\ Untouched /\ LiveValid
  BY DEF Init, FreshIds, Untouched, LiveValid, Live, In
<1>3. Conservation
  BY DEF Init, Conservation, NoOrder
<1> QED BY <1>1, <1>2, <1>3 DEF Base

LEMMA EnqueueBase ==
    ASSUME Base, NEW o \in Requests, Enqueue(o)
    PROVE  Base'
<1> DEFINE n == nextID + 1
<1>1. TypeOK' /\ n \in Ids /\ nextID' = n /\ place[n] = "none"
  <2>1. TypeOK'
    BY EnqueueType DEF Base
  <2>2. n \in Ids /\ nextID' = n /\ n > nextID
    BY MatchingAssumption DEF Base, TypeOK, Enqueue, Ids
  <2> QED BY <2>1, <2>2 DEF Base, FreshIds
<1>2. o \in OrderRec /\ o.qty > 0
  BY MatchingAssumption DEF Enqueue, Valid, RequestRec, OrderRec
<1>3. /\ place'[n] \in {"inbox", "delayed"} /\ order'[n] = o /\ executed'[n] = 0
      /\ \A i \in Ids \ {n} : place'[i] = place[i] /\ order'[i] = order[i] /\ ready'[i] = ready[i]
      /\ executed' = executed /\ paid' = paid /\ remaining' = remaining
  BY <1>1 DEF Base, TypeOK, Conservation, Enqueue, resting, history
<1> HIDE DEF n
<1>4. FreshIds'
  BY <1>1, <1>3 DEF Base, TypeOK, FreshIds, n, Ids
<1>5. Untouched'
  BY <1>1, <1>3 DEF Base, Untouched
<1>6. LiveValid'
  <2>1. Valid(o)
    BY DEF Enqueue
  <2> QED BY <1>1, <1>3, <2>1 DEF Base, LiveValid, Live, In
<1>7. Conservation'
  BY <1>1, <1>2, <1>3 DEF Base, TypeOK, Conservation, OrderRec
<1> QED BY <1>1, <1>4, <1>5, <1>6, <1>7 DEF Base

LEMMA CancelBase ==
    ASSUME Base, NEW i \in Ids, Cancel(i)
    PROVE  Base'
<1>1. TypeOK'
  BY CancelType DEF Base
<1>2. /\ place' = [place EXCEPT ![i] = "canceled"] /\ place \in [Ids -> Places]
      /\ UNCHANGED <<nextID, order, ready, remaining, executed, paid>>
      /\ i \in Live
  BY DEF Base, TypeOK, Cancel, resting, history
<1>3. place[i] # "none"
  BY <1>2 DEF Live, In
<1>4. FreshIds' /\ Untouched'
  BY <1>2, <1>3 DEF Base, FreshIds, Untouched
<1>5. LiveValid'
  BY <1>2 DEF Base, LiveValid, Live, In
<1>6. Conservation'
  BY <1>2 DEF Base, Conservation
<1> QED BY <1>1, <1>4, <1>5, <1>6 DEF Base

\* What begins to rest has its whole size to do, under any queue model.
RestsWhole(S, ords) ==
    remaining' = [i \in Ids |-> IF i \in S THEN ords[i].qty ELSE remaining[i]]

LEMMA Outcome ==
    ASSUME TypeOK, NEW D \in SUBSET Ids, NEW ts, SettleOutcome(D, ts),
           RestsWhole(Rests(D), order), NEW i \in Ids
    PROVE  /\ i \notin D => /\ place'[i] = place[i] /\ remaining'[i] = remaining[i]
                           /\ executed'[i] = executed[i] /\ paid'[i] = paid[i]
           /\ i \in D =>
                 \/ /\ hasQ /\ Crosses(order[i], quote)
                    /\ place'[i] = "filled" /\ executed'[i] = order[i].qty
                    /\ paid'[i] = {FarPx(order[i], quote)}
                 \/ /\ hasQ /\ ~Crosses(order[i], quote)
                    /\ place'[i] = "working" /\ executed'[i] = executed[i]
                    /\ remaining'[i] = order[i].qty /\ paid'[i] = paid[i]
                 \/ /\ ~hasQ
                    /\ place'[i] = "rejected" /\ executed'[i] = executed[i]
                    /\ paid'[i] = paid[i]
<1>1. CASE i \notin D
  BY <1>1 DEF TypeOK, SettleOutcome, Rests, RestsWhole
<1>2. CASE i \in D /\ hasQ /\ Crosses(order[i], quote)
  BY <1>2 DEF TypeOK, SettleOutcome, Rests, RestsWhole
<1>3. CASE i \in D /\ hasQ /\ ~Crosses(order[i], quote)
  BY <1>3 DEF TypeOK, SettleOutcome, Rests, RestsWhole
<1>4. CASE i \in D /\ ~hasQ
  BY <1>4 DEF TypeOK, SettleOutcome, Rests, RestsWhole
<1> QED BY <1>1, <1>2, <1>3, <1>4

\* Both Settle and Flush: D is held, and nothing but place, resting, executed
\* and paid moves.
LEMMA OutcomeBase ==
    ASSUME Base, TypeOK', NEW D \in SUBSET Ids, NEW ts, SettleOutcome(D, ts),
           RestsWhole(Rests(D), order),
           \A i \in D : place[i] \in {"inbox", "delayed"}
    PROVE  Base'
<1>1. UNCHANGED <<nextID, order, ready>>
  BY DEF SettleOutcome, Rests
<1>2. \A i \in Ids : i \notin D =>
         place'[i] = place[i] /\ remaining'[i] = remaining[i]
         /\ executed'[i] = executed[i] /\ paid'[i] = paid[i]
  BY Outcome DEF Base
<1>3. \A i \in D :
         /\ executed[i] = 0
         /\ order[i].qty > 0 /\ Valid(order[i])
         /\ \/ place'[i] = "filled" /\ executed'[i] = order[i].qty
            \/ place'[i] = "working" /\ remaining'[i] = order[i].qty /\ executed'[i] = 0
            \/ place'[i] = "rejected" /\ executed'[i] = 0
  <2> TAKE i \in D
  <2>1. executed[i] = 0 /\ i \in Live
    BY DEF Base, Conservation, Live, In
  <2>2. order[i].qty > 0 /\ Valid(order[i])
    BY <2>1 DEF Base, LiveValid, Valid
  <2>3. \/ place'[i] = "filled" /\ executed'[i] = order[i].qty
        \/ place'[i] = "working" /\ remaining'[i] = order[i].qty /\ executed'[i] = 0
        \/ place'[i] = "rejected" /\ executed'[i] = 0
    BY <2>1, Outcome DEF Base
  <2> QED BY <2>1, <2>2, <2>3
<1>4. FreshIds' /\ Untouched'
  BY <1>1, <1>2, <1>3 DEF Base, FreshIds, Untouched
<1>5. LiveValid'
  BY <1>1, <1>2, <1>3 DEF Base, LiveValid, Live, In
<1>6. Conservation'
  <2> SUFFICES ASSUME NEW i \in Ids
               PROVE  /\ place'[i] = "working" =>
                            remaining'[i] > 0 /\ executed'[i] + remaining'[i] = order'[i].qty
                      /\ place'[i] = "filled" => executed'[i] = order'[i].qty
                      /\ place'[i] \in {"none", "delayed", "inbox", "rejected"} => executed'[i] = 0
                      /\ executed'[i] <= order'[i].qty
    BY DEF Conservation
  <2>1. order[i].qty \in Nat
    BY DEF Base, TypeOK, OrderRec
  <2>2. CASE i \in D
    BY <1>1, <1>3, <2>1, <2>2
  <2>3. CASE i \notin D
    BY <1>1, <1>2, <2>3 DEF Base, Conservation
  <2> QED BY <2>2, <2>3
<1> QED BY <1>4, <1>5, <1>6 DEF Base

LEMMA SettleBase ==
    ASSUME Base, TypeOK', NEW D \in SUBSET Ids, NEW ts, SettleInbox(D, ts),
           \A i \in D : place[i] \in {"inbox", "delayed"}
    PROVE  Base'
<1>1. SettleOutcome(D, ts) /\ RestsWhole(Rests(D), order)
  BY DEF SettleInbox, Rest, RestsWhole
<1> QED BY <1>1, OutcomeBase

\* On a fresh venue nothing is held that the snapshot does not have.
LEMMA AdoptOutcomeBase ==
    ASSUME Base, TypeOK', nextID = 0, NEW ords, DOMAIN ords \in SUBSET Ids,
           NEW lastID \in 0..MaxOrders, AdoptOutcome(DOMAIN ords, ords, lastID),
           RestsWhole(Limits(DOMAIN ords, ords), ords)
    PROVE  Base'
<1> DEFINE S == DOMAIN ords
           limits == {i \in S : ords[i].kind = "limit"}
<1>2. S \in SUBSET Ids /\ \A i \in S : Valid(ords[i])
  BY DEF AdoptOutcome, Limits
<1>3. TypeOK'
  OBVIOUS
<1>4. \A i \in Ids : place[i] = "none" /\ executed[i] = 0
  BY DEF Base, TypeOK, FreshIds, Conservation, Ids
<1>5. \A i \in Ids : /\ i \in S => order'[i] = ords[i]
                     /\ i \notin S => order'[i] = order[i] /\ place'[i] = "none"
                     /\ i \in limits => place'[i] = "working" /\ remaining'[i] = order'[i].qty
                     /\ i \in S \ limits => place'[i] = "inbox"
  BY <1>2, <1>4 DEF AdoptOutcome, Limits, RestsWhole, Live, In
<1>6. UNCHANGED <<ready, paid, executed>>
  BY DEF AdoptOutcome, Limits
<1>7. \A i \in S : i <= nextID'
  BY DEF AdoptOutcome, Limits
<1> HIDE DEF S, limits
<1>8. limits \subseteq S
  BY DEF limits
<1>9. FreshIds'
  BY <1>2, <1>3, <1>5, <1>7 DEF FreshIds, TypeOK, Ids
<1>10. Untouched'
  BY <1>4, <1>6 DEF Base, Untouched
<1>11. LiveValid'
  BY <1>2, <1>5, <1>8 DEF LiveValid, Live, In
<1>12. Conservation'
  <2>1. \A i \in S : order'[i].qty > 0
    BY <1>2, <1>5 DEF Valid
  <2>2. \A i \in Ids : order'[i].qty \in Nat
    BY <1>3 DEF TypeOK, OrderRec
  <2> QED BY <1>4, <1>5, <1>6, <1>8, <2>1, <2>2 DEF Conservation
<1> QED BY <1>3, <1>9, <1>10, <1>11, <1>12 DEF Base

LEMMA AdoptBase ==
    ASSUME Base, AdoptFirst
    PROVE  Base'
<1>1. PICK ords \in Snapshots, lastID \in 0..MaxOrders : Adopt(DOMAIN ords, ords, lastID)
  BY DEF AdoptFirst
<1>2. TypeOK' /\ nextID = 0 /\ DOMAIN ords \in SUBSET Ids
  BY AdoptType DEF Base, AdoptFirst, Snapshots
<1>3. AdoptOutcome(DOMAIN ords, ords, lastID) /\ RestsWhole(Limits(DOMAIN ords, ords), ords)
  BY <1>1 DEF Adopt, Rest, RestsWhole
<1> QED BY <1>2, <1>3, AdoptOutcomeBase

LEMMA QuoteBase ==
    ASSUME Base, NEW q \in Quotes, NEW ts \in Stamps, Quote(q, ts)
    PROVE  Base'
<1>1. TypeOK' /\ UNCHANGED <<nextID, order, place, ready, remaining, executed, paid>>
  BY QuoteType DEF Base, Quote
<1> QED BY <1>1 DEF Base, FreshIds, Untouched, LiveValid, Conservation, Live, In

LEMMA TradeBase ==
    ASSUME Base, NEW t \in Trades, NEW ts \in Stamps, Trade(t, ts)
    PROVE  Base'
<1>1. PICK left \in Passes(t) : OnTrade(t, ts, left)
  BY DEF Trade
<1> DEFINE taken == Taken(t, left)
<1>2. \A i \in Ids : taken[i] \in 0..remaining[i] /\ (place[i] # "working" => taken[i] = 0)
  BY TakenBounds DEF Base
<1> HIDE DEF taken
<1>3. TypeOK'
  BY TradeType DEF Base
<1>4. \A i \in Ids :
         /\ remaining'[i] = remaining[i] - taken[i]
         /\ executed'[i] = executed[i] + taken[i]
         /\ (taken[i] > 0 /\ taken[i] = remaining[i]) => place'[i] = "filled"
         /\ ~(taken[i] > 0 /\ taken[i] = remaining[i]) => place'[i] = place[i]
         /\ taken[i] > 0 => paid'[i] = paid[i] \cup {t.px}
         /\ ~(taken[i] > 0) => paid'[i] = paid[i]
  BY <1>1 DEF OnTrade, taken
<1>5. UNCHANGED <<nextID, order, ready>>
  BY <1>1 DEF OnTrade
<1>6. \A i \in Ids : place[i] # "working" =>
         place'[i] = place[i] /\ executed'[i] = executed[i] /\ paid'[i] = paid[i]
  <2>1. \A i \in Ids : executed[i] \in Nat
    BY DEF Base, TypeOK
  <2> QED BY <1>2, <1>4, <2>1
<1>7. \A i \in Ids : place'[i] = place[i] \/ (place[i] = "working" /\ place'[i] = "filled")
  BY <1>4, <1>6
<1>8. FreshIds' /\ Untouched'
  BY <1>5, <1>6, <1>7 DEF Base, FreshIds, Untouched
<1>9. LiveValid'
  BY <1>5, <1>7 DEF Base, LiveValid, Live, In
<1>10. Conservation'
  <2> SUFFICES ASSUME NEW i \in Ids
               PROVE  /\ place'[i] = "working" =>
                            remaining'[i] > 0 /\ executed'[i] + remaining'[i] = order'[i].qty
                      /\ place'[i] = "filled" => executed'[i] = order'[i].qty
                      /\ place'[i] \in {"none", "delayed", "inbox", "rejected"} => executed'[i] = 0
                      /\ executed'[i] <= order'[i].qty
    BY DEF Conservation
  <2>1. order[i].qty \in Nat /\ remaining[i] \in Nat /\ executed[i] \in Nat
    BY DEF Base, TypeOK, OrderRec
  <2>2. order'[i] = order[i]
    BY <1>5
  <2>3. CASE place[i] # "working"
    BY <1>6, <2>1, <2>2, <2>3 DEF Base, Conservation
  <2>4. CASE place[i] = "working"
    <3>1. remaining[i] > 0 /\ executed[i] + remaining[i] = order[i].qty
      BY <2>4 DEF Base, Conservation
    <3>2. CASE taken[i] = remaining[i]
      BY <1>4, <2>1, <2>2, <3>1, <3>2
    <3>3. CASE taken[i] < remaining[i]
      BY <1>2, <1>4, <2>1, <2>2, <2>4, <3>1, <3>3
    <3> QED BY <1>2, <2>1, <3>2, <3>3
  <2> QED BY <2>3, <2>4
<1> QED BY <1>3, <1>8, <1>9, <1>10 DEF Base

LEMMA NextBase == Base /\ [Next]_vars => Base'
<1> SUFFICES ASSUME Base, [Next]_vars PROVE Base'
  OBVIOUS
<1>1. TypeOK /\ TypeOK'
  BY NextType DEF Base
<1>2. ASSUME NEW o \in Requests, Enqueue(o) PROVE Base'
  BY <1>2, EnqueueBase
<1>3. ASSUME NEW i \in Ids, Cancel(i) PROVE Base'
  BY <1>3, CancelBase
<1>4. ASSUME NEW ts \in Stamps, Sync(ts) PROVE Base'
  BY <1>1, <1>4 DEF Sync, Base, FreshIds, Untouched, LiveValid, Conservation, Live, In,
     resting, history
<1>5. ASSUME NEW ts \in Stamps, Settle(ts) PROVE Base'
  <2> DEFINE D == In("inbox") \cup Due(ts)
  <2>1. D \in SUBSET Ids /\ \A i \in D : place[i] \in {"inbox", "delayed"}
    BY DEF In, Due
  <2>2. SettleInbox(D, ts)
    BY <1>5 DEF Settle
  <2> HIDE DEF D
  <2> QED BY <1>1, <2>1, <2>2, SettleBase
<1>6. ASSUME NEW q \in Quotes, NEW ts \in Stamps, Quote(q, ts) PROVE Base'
  BY <1>6, QuoteBase
<1>7. ASSUME NEW t \in Trades, NEW ts \in Stamps, Trade(t, ts) PROVE Base'
  BY <1>7, TradeBase
<1>8. CASE Flush
  <2> DEFINE D == In("inbox") \cup In("delayed")
  <2>1. D \in SUBSET Ids /\ \A i \in D : place[i] \in {"inbox", "delayed"}
    BY DEF In
  <2>2. SettleInbox(D, now)
    BY <1>8 DEF Flush
  <2> HIDE DEF D
  <2> QED BY <1>1, <2>1, <2>2, SettleBase
<1>9. CASE AdoptFirst
  BY <1>9, AdoptBase
<1>10. CASE UNCHANGED vars
  BY <1>1, <1>10 DEF Base, FreshIds, Untouched, LiveValid, Conservation, Live, In,
     vars, resting, history
<1> QED BY <1>2, <1>3, <1>4, <1>5, <1>6, <1>7, <1>8, <1>9, <1>10 DEF Next

LEMMA BaseHolds == Spec => []Base
  BY InitBase, NextBase, PTL DEF Spec

\* What an order executed and what it still has resting add up to its size,
\* through partial fills, trade-throughs, cancels, rejects and adoption.
THEOREM ConservationHolds == Spec => []Conservation
<1>1. Base => Conservation
  BY DEF Base
<1> QED BY <1>1, BaseHolds, PTL

-----------------------------------------------------------------------------
(* One print, pointwise, for the proofs below. *)

LEMMA Traded ==
    ASSUME TypeOK, NEW t \in Trades, NEW ts \in Stamps, NEW left \in Passes(t),
           OnTrade(t, ts, left), NEW i \in Ids
    PROVE  /\ place'[i] = place[i] \/ (place[i] = "working" /\ place'[i] = "filled")
           /\ i \in Hits(t) =>
                 /\ joined[i] /\ order[i].px = t.px
                 /\ ahead'[i] = ahead[i] - Min2(ahead[i], left[i - 1])
                 /\ atPx'[i] = atPx[i] + Take(i, left[i - 1])
                 /\ since'[i] = since[i] + t.qty
           /\ i \notin Hits(t) =>
                 ahead'[i] = ahead[i] /\ atPx'[i] = atPx[i] /\ since'[i] = since[i]
           /\ i \notin Hits(t) /\ i \notin Through(t) => paid'[i] = paid[i]
           /\ paid'[i] \subseteq paid[i] \cup {t.px}
<1> DEFINE taken == Taken(t, left)
<1>1. /\ taken[i] \in 0..remaining[i] /\ (place[i] # "working" => taken[i] = 0)
      /\ i \in Hits(t) => taken[i] = Take(i, left[i - 1])
      /\ i \notin Through(t) /\ i \notin Hits(t) => taken[i] = 0
  BY TakenBounds
<1> HIDE DEF taken
<1>2. /\ (taken[i] > 0 /\ taken[i] = remaining[i]) => place'[i] = "filled"
      /\ ~(taken[i] > 0 /\ taken[i] = remaining[i]) => place'[i] = place[i]
      /\ taken[i] > 0 => paid'[i] = paid[i] \cup {t.px}
      /\ ~(taken[i] > 0) => paid'[i] = paid[i]
  BY DEF OnTrade, taken
<1>3. /\ i \in Hits(t) => ahead'[i] = ahead[i] - Min2(ahead[i], left[i - 1])
                          /\ atPx'[i] = atPx[i] + taken[i]
                          /\ since'[i] = since[i] + t.qty
      /\ i \notin Hits(t) =>
            ahead'[i] = ahead[i] /\ atPx'[i] = atPx[i] /\ since'[i] = since[i]
  BY DEF OnTrade, taken
<1>4. i \in Hits(t) => joined[i] /\ order[i].px = t.px
  BY DEF Hits, HitAtPrice
<1> QED BY <1>1, <1>2, <1>3, <1>4

LEMMA TradeFixed ==
    ASSUME NEW t \in Trades, NEW ts \in Stamps, Trade(t, ts)
    PROVE  /\ now' = Later(ts)
           /\ UNCHANGED <<nextID, hasQ, quote, order, ready, joined, claim, flushed>>
  BY DEF Trade, OnTrade

-----------------------------------------------------------------------------
(* No order pays more than its limit. *)

LEMMA OutcomeLimit ==
    ASSUME Base, LimitRespected, NEW D \in SUBSET Ids, NEW ts, SettleOutcome(D, ts),
           RestsWhole(Rests(D), order)
    PROVE  LimitRespected'
<1>1. order' = order
  BY DEF SettleOutcome, Rests
<1>2. ASSUME NEW i \in Ids, i \notin D PROVE paid'[i] = paid[i]
  BY <1>2, Outcome DEF Base
<1>3. ASSUME NEW i \in D, order[i].kind = "limit"
      PROVE  \/ paid'[i] = paid[i]
             \/ \A p \in paid'[i] : IF order[i].side = "bid" THEN p <= order[i].px
                                                             ELSE p >= order[i].px
  <2>1. CASE hasQ /\ Crosses(order[i], quote)
    <3>1. paid'[i] = {FarPx(order[i], quote)}
      BY <2>1, Outcome DEF Base
    <3>2. order[i].px \in Int /\ quote.bidPx \in Int /\ quote.askPx \in Int
          /\ order[i].side \in {"bid", "ask"}
      BY DEF Base, TypeOK, OrderRec, QuoteRec, Sides
    <3> QED BY <1>3, <2>1, <3>1, <3>2 DEF Crosses, FarPx
  <2>2. CASE ~(hasQ /\ Crosses(order[i], quote))
    BY <2>2, Outcome DEF Base
  <2> QED BY <2>1, <2>2
<1> QED BY <1>1, <1>2, <1>3 DEF LimitRespected

LEMMA SettleLimit ==
    ASSUME Base, LimitRespected, NEW D \in SUBSET Ids, NEW ts, SettleInbox(D, ts)
    PROVE  LimitRespected'
<1>1. SettleOutcome(D, ts) /\ RestsWhole(Rests(D), order)
  BY DEF SettleInbox, Rest, RestsWhole
<1> QED BY <1>1, OutcomeLimit

LEMMA TradeLimit ==
    ASSUME Base, LimitRespected, NEW t \in Trades, NEW ts \in Stamps, Trade(t, ts)
    PROVE  LimitRespected'
<1>1. PICK left \in Passes(t) : OnTrade(t, ts, left)
  BY DEF Trade
<1>2. order' = order
  BY TradeFixed
<1>3. ASSUME NEW i \in Ids, order[i].kind = "limit",
             \A p \in paid[i] : IF order[i].side = "bid" THEN p <= order[i].px
                                                         ELSE p >= order[i].px
      PROVE  \A p \in paid'[i] : IF order[i].side = "bid" THEN p <= order[i].px
                                                          ELSE p >= order[i].px
  <2>1. t.px \in Int /\ order[i].px \in Int
    BY MatchingAssumption DEF Base, TypeOK, OrderRec, TradeRec
  <2>2. paid'[i] \subseteq paid[i] \cup {t.px}
    BY <1>1, Traded DEF Base
  <2>3. CASE i \in Hits(t)
    <3>1. order[i].px = t.px
      BY <1>1, <2>3, Traded DEF Base
    <3> QED BY <1>3, <2>1, <2>2, <3>1
  <2>4. CASE i \in Through(t)
    BY <1>3, <2>1, <2>2, <2>4 DEF Through, TradedThrough
  <2>5. CASE i \notin Hits(t) /\ i \notin Through(t)
    BY <1>1, <1>3, <2>5, Traded DEF Base
  <2> QED BY <2>3, <2>4, <2>5
<1> QED BY <1>2, <1>3 DEF LimitRespected

LEMMA NextLimit == Base /\ LimitRespected /\ [Next]_vars => LimitRespected'
<1> SUFFICES ASSUME Base, LimitRespected, [Next]_vars PROVE LimitRespected'
  OBVIOUS
<1>1. ASSUME NEW o \in Requests, Enqueue(o) PROVE LimitRespected'
  <2> DEFINE n == nextID + 1
  <2>1. n \in Ids /\ place[n] = "none"
    BY <1>1, MatchingAssumption DEF Base, TypeOK, Enqueue, Ids, FreshIds
  <2>2. paid' = paid /\ paid[n] = {} /\ \A i \in Ids \ {n} : order'[i] = order[i]
    BY <1>1, <2>1 DEF Base, TypeOK, Untouched, Enqueue, history
  <2> QED BY <2>1, <2>2 DEF LimitRespected
<1>2. ASSUME NEW i \in Ids, Cancel(i) PROVE LimitRespected'
  BY <1>2 DEF LimitRespected, Cancel, history
<1>3. ASSUME NEW ts \in Stamps, Sync(ts) PROVE LimitRespected'
  BY <1>3 DEF LimitRespected, Sync, history
<1>4. ASSUME NEW ts \in Stamps, Settle(ts) PROVE LimitRespected'
  <2>1. In("inbox") \cup Due(ts) \in SUBSET Ids
    BY DEF In, Due
  <2> QED BY <1>4, <2>1, SettleLimit DEF Settle
<1>5. ASSUME NEW q \in Quotes, NEW ts \in Stamps, Quote(q, ts) PROVE LimitRespected'
  BY <1>5 DEF LimitRespected, Quote
<1>6. ASSUME NEW t \in Trades, NEW ts \in Stamps, Trade(t, ts) PROVE LimitRespected'
  BY <1>6, TradeLimit
<1>7. CASE Flush
  <2>1. In("inbox") \cup In("delayed") \in SUBSET Ids
    BY DEF In
  <2> QED BY <1>7, <2>1, SettleLimit DEF Flush
<1>8. CASE AdoptFirst
  <2>1. paid' = paid
    BY <1>8 DEF AdoptFirst, Adopt, AdoptOutcome, Limits
  <2>2. \A i \in Ids : paid[i] = {}
    BY <1>8 DEF AdoptFirst, Base, TypeOK, FreshIds, Untouched, Ids
  <2> QED BY <2>1, <2>2 DEF LimitRespected
<1>9. CASE UNCHANGED vars
  BY <1>9 DEF LimitRespected, vars, history
<1> QED BY <1>1, <1>2, <1>3, <1>4, <1>5, <1>6, <1>7, <1>8, <1>9 DEF Next

\* No limit order ever executes at a price worse than its own, whatever the
\* quote did during its entry delay and whatever printed while it rested.
THEOREM LimitHolds == Spec => []LimitRespected
<1>1. Init => LimitRespected
  BY DEF Init, LimitRespected
<1> QED BY <1>1, BaseHolds, NextLimit, PTL DEF Spec

-----------------------------------------------------------------------------
(* Entry delay. *)

LEMMA NextEntry == Base /\ EntryHonoured /\ [Next]_vars => EntryHonoured'
<1> SUFFICES ASSUME Base, EntryHonoured, [Next]_vars, ~flushed'
             PROVE  \A i \in Ids :
                       place'[i] \in {"inbox", "working", "filled"} => ready'[i] <= now'
  BY DEF EntryHonoured
<1> USE MatchingAssumption
<1>0. /\ now \in Nat /\ ready \in [Ids -> Nat] /\ place \in [Ids -> Places]
      /\ \A ts \in Stamps : Later(ts) \in Nat /\ ts \in Nat
                             /\ ts <= Later(ts) /\ now <= Later(ts)
  BY LaterIsTime DEF Base, TypeOK
<1>1. ASSUME NEW o \in Requests, Enqueue(o)
      PROVE  \A i \in Ids : place'[i] \in {"inbox", "working", "filled"} => ready'[i] <= now'
  <2> DEFINE n == nextID + 1
  <2>1. n \in Ids /\ flushed' = flushed /\ now' = now
    BY <1>1 DEF Base, TypeOK, Enqueue, Ids, history
  <2>2. /\ ready'[n] = now + Entry
        /\ place'[n] = IF Entry = 0 THEN "inbox" ELSE "delayed"
        /\ \A i \in Ids \ {n} : ready'[i] = ready[i] /\ place'[i] = place[i]
    BY <1>0, <1>1, <2>1 DEF Enqueue
  <2> QED BY <1>0, <2>1, <2>2 DEF EntryHonoured
<1>2. ASSUME NEW i \in Ids, Cancel(i)
      PROVE  \A j \in Ids : place'[j] \in {"inbox", "working", "filled"} => ready'[j] <= now'
  BY <1>0, <1>2 DEF EntryHonoured, Cancel, history
<1>3. ASSUME NEW ts \in Stamps, Sync(ts)
      PROVE  \A i \in Ids : place'[i] \in {"inbox", "working", "filled"} => ready'[i] <= now'
  BY <1>0, <1>3 DEF EntryHonoured, Sync, history
<1>4. ASSUME NEW ts \in Stamps, Settle(ts)
      PROVE  \A i \in Ids : place'[i] \in {"inbox", "working", "filled"} => ready'[i] <= now'
  <2> DEFINE D == In("inbox") \cup Due(ts)
  <2>1. D \in SUBSET Ids /\ SettleInbox(D, ts) /\ flushed' = flushed
        /\ now' = Later(ts) /\ ready' = ready
    BY <1>4 DEF Settle, SettleInbox, SettleOutcome, Rests, In, Due
  <2>2. \A i \in D : ready[i] <= now'
    BY <1>0, <2>1 DEF EntryHonoured, In, Due
  <2> HIDE DEF D
  <2>3. \A i \in Ids : i \notin D => place'[i] = place[i]
    BY <2>1, NotSettled DEF Base
  <2> QED BY <1>0, <2>1, <2>2, <2>3 DEF EntryHonoured
<1>5. ASSUME NEW q \in Quotes, NEW ts \in Stamps, Quote(q, ts)
      PROVE  \A i \in Ids : place'[i] \in {"inbox", "working", "filled"} => ready'[i] <= now'
  BY <1>0, <1>5 DEF EntryHonoured, Quote
<1>6. ASSUME NEW t \in Trades, NEW ts \in Stamps, Trade(t, ts)
      PROVE  \A i \in Ids : place'[i] \in {"inbox", "working", "filled"} => ready'[i] <= now'
  <2>1. PICK left \in Passes(t) : OnTrade(t, ts, left)
    BY <1>6 DEF Trade
  <2>2. now' = Later(ts) /\ ready' = ready /\ flushed' = flushed
    BY <1>6, TradeFixed
  <2>3. \A i \in Ids : place'[i] = place[i] \/ (place[i] = "working" /\ place'[i] = "filled")
    BY <2>1, Traded DEF Base
  <2> QED BY <1>0, <2>2, <2>3 DEF EntryHonoured
<1>7. CASE Flush
  BY <1>7 DEF Flush
<1>8. CASE AdoptFirst
  <2>1. \A i \in Ids : ready[i] = 0
    BY <1>8 DEF AdoptFirst, Base, TypeOK, FreshIds, Untouched, Ids
  <2>2. ready' = ready /\ now' = now
    BY <1>8 DEF AdoptFirst, Adopt, AdoptOutcome, Limits
  <2> QED BY <1>0, <2>1, <2>2
<1>9. CASE UNCHANGED vars
  BY <1>9 DEF EntryHonoured, vars, history
<1> QED BY <1>1, <1>2, <1>3, <1>4, <1>5, <1>6, <1>7, <1>8, <1>9 DEF Next

\* Until the tape ends no order rests or executes before its entry delay is over
\* on the venue's clock, even when the feed's stamps jump back and forth.
THEOREM EntryHolds == Spec => []EntryHonoured
<1>1. Init => EntryHonoured
  BY DEF Init, EntryHonoured
<1> QED BY <1>1, BaseHolds, NextEntry, PTL DEF Spec

-----------------------------------------------------------------------------
(* Joining the queue. *)

LEMMA SettleJoined ==
    ASSUME Base, JoinedAtTouch, NEW D \in SUBSET Ids, NEW ts, SettleInbox(D, ts)
    PROVE  JoinedAtTouch'
<1>1. UNCHANGED <<order, quote, hasQ>>
  BY DEF SettleInbox, SettleOutcome, Rests
<1>2. \A i \in Ids : i \notin D => place'[i] = place[i] /\ joined'[i] = joined[i]
  BY NotSettled DEF Base
<1>3. \A i \in D : place'[i] = "working" => joined'[i] = Joins(order[i], quote)
  BY Settled DEF Base
<1>4. \A i \in Ids : Joins(order'[i], quote') = Joins(order[i], quote)
  BY <1>1
<1> QED BY <1>1, <1>2, <1>3, <1>4 DEF JoinedAtTouch, In

LEMMA NextJoined == Base /\ JoinedAtTouch /\ [Next]_vars => JoinedAtTouch'
<1> SUFFICES ASSUME Base, JoinedAtTouch, [Next]_vars PROVE JoinedAtTouch'
  OBVIOUS
<1>1. ASSUME NEW o \in Requests, Enqueue(o) PROVE JoinedAtTouch'
  <2> DEFINE n == nextID + 1
  <2>1. n \in Ids /\ place'[n] # "working"
        /\ \A i \in Ids \ {n} : place'[i] = place[i] /\ order'[i] = order[i]
    BY <1>1, MatchingAssumption DEF Base, TypeOK, Enqueue, Ids
  <2>2. UNCHANGED <<quote, hasQ, joined>>
    BY <1>1 DEF Enqueue, resting
  <2>3. \A i \in Ids \ {n} : Joins(order'[i], quote') = Joins(order[i], quote)
    BY <2>1, <2>2
  <2> QED BY <2>1, <2>2, <2>3 DEF JoinedAtTouch, In
<1>2. ASSUME NEW i \in Ids, Cancel(i) PROVE JoinedAtTouch'
  BY <1>2 DEF JoinedAtTouch, Cancel, In, resting, Base, TypeOK
<1>3. ASSUME NEW ts \in Stamps, Sync(ts) PROVE JoinedAtTouch'
  BY <1>3 DEF JoinedAtTouch, Sync, In, resting
<1>4. ASSUME NEW ts \in Stamps, Settle(ts) PROVE JoinedAtTouch'
  <2>1. In("inbox") \cup Due(ts) \in SUBSET Ids
    BY DEF In, Due
  <2> QED BY <1>4, <2>1, SettleJoined DEF Settle
<1>5. ASSUME NEW q \in Quotes, NEW ts \in Stamps, Quote(q, ts) PROVE JoinedAtTouch'
  <2>1. UNCHANGED <<order, place>> /\ quote' = q
    BY <1>5 DEF Quote
  <2>2. \A i \in In("working") : joined[i] \/ joined'[i] = Joins(order[i], q)
    BY <1>5 DEF Quote, In
  <2>3. \A i \in In("working") : joined[i] => joined'[i]
    BY <1>5 DEF Quote, In
  <2> QED BY <2>1, <2>2, <2>3 DEF JoinedAtTouch, In
<1>6. ASSUME NEW t \in Trades, NEW ts \in Stamps, Trade(t, ts) PROVE JoinedAtTouch'
  <2>1. PICK left \in Passes(t) : OnTrade(t, ts, left)
    BY <1>6 DEF Trade
  <2>2. \A i \in Ids : place'[i] = "working" => place[i] = "working"
    BY <2>1, Traded DEF Base
  <2>3. UNCHANGED <<order, quote, hasQ, joined>>
    BY <1>6, TradeFixed
  <2> QED BY <2>2, <2>3 DEF JoinedAtTouch, In
<1>7. CASE Flush
  <2>1. In("inbox") \cup In("delayed") \in SUBSET Ids
    BY DEF In
  <2> QED BY <1>7, <2>1, SettleJoined DEF Flush
<1>8. CASE AdoptFirst
  BY <1>8 DEF AdoptFirst, Adopt, AdoptOutcome, Limits, JoinedAtTouch
<1>9. CASE UNCHANGED vars
  BY <1>9 DEF JoinedAtTouch, vars, In, resting
<1> QED BY <1>1, <1>2, <1>3, <1>4, <1>5, <1>6, <1>7, <1>8, <1>9 DEF Next

\* An order the quote has reached is in the queue: no interleaving of rests,
\* quotes and adoptions leaves it waiting at a touch it could have joined.
THEOREM JoinedHolds == Spec => []JoinedAtTouch
<1>1. Init => JoinedAtTouch
  BY DEF Init, JoinedAtTouch
<1> QED BY <1>1, BaseHolds, NextJoined, PTL DEF Spec

-----------------------------------------------------------------------------
(* Who came first.                                                         *)

\* An older order gets there first: it does not wait for its delay, or in the
\* inbox, behind a younger one that rests, and it does not join after it.  An
\* adopted market order waits in the inbox, but it never rests.
Ranked(j, i) ==
    /\ place[j] = "delayed" =>
          place[i] \notin {"inbox", "working"} /\ (place[i] = "delayed" => ready[j] <= ready[i])
    /\ place[j] = "inbox" /\ order[j].kind = "limit" => place[i] # "working"
    /\ SameQueue(j, i) /\ joined[i] => joined[j]
Timely(i) ==
    /\ place[i] = "delayed" => Entry > 0 /\ ready[i] <= now + Entry
    /\ place[i] = "none" => ~joined[i]
AgeInv ==
    /\ \A j, i \in Ids : j < i => Ranked(j, i)
    /\ \A i \in Ids : Timely(i)

LEMMA RankTypes ==
    ASSUME TypeOK, NEW i \in Ids
    PROVE  /\ i \in Nat /\ ready[i] \in Nat /\ now \in Nat /\ Entry \in Nat
           /\ joined[i] \in BOOLEAN /\ order[i].kind \in {"market", "limit"}
  BY MatchingAssumption DEF TypeOK, OrderRec, Ids

LEMMA EnqueueAge ==
    ASSUME Base, AgeInv, NEW o \in Requests, Enqueue(o)
    PROVE  AgeInv'
<1> DEFINE n == nextID + 1
<1>1. n \in Ids /\ n \in Nat /\ nextID \in Nat
  BY MatchingAssumption DEF Base, TypeOK, Enqueue, Ids
<1>2. \A i \in Ids : i >= n => place[i] = "none"
  BY <1>1 DEF Base, TypeOK, FreshIds, Ids
<1>3. /\ place'[n] = IF Entry = 0 THEN "inbox" ELSE "delayed"
      /\ ready'[n] = now + Entry /\ now' = now /\ joined' = joined
      /\ \A i \in Ids \ {n} : place'[i] = place[i] /\ order'[i] = order[i] /\ ready'[i] = ready[i]
  BY <1>1 DEF Base, TypeOK, Enqueue, resting
<1> HIDE DEF n
<1>4. Entry \in Nat /\ now \in Nat
  BY MatchingAssumption DEF Base, TypeOK
<1>5. ASSUME NEW i \in Ids PROVE Timely(i)'
  <2>1. CASE i = n
    BY <1>3, <1>4, <2>1 DEF Timely
  <2>2. CASE i # n
    BY <1>3, <2>2 DEF AgeInv, Timely
  <2> QED BY <2>1, <2>2
<1>6. ASSUME NEW j \in Ids, NEW i \in Ids, j < i PROVE Ranked(j, i)'
  <2>1. j \in Nat /\ i \in Nat
    BY RankTypes DEF Base
  <2>2. CASE j = n
    <3>1. place'[i] = "none"
      BY <1>1, <1>2, <1>3, <1>6, <2>1, <2>2
    <3> QED BY <3>1 DEF Ranked, SameQueue
  <2>3. CASE i = n /\ j # n
    <3>1. place[j] = "delayed" => Entry > 0 /\ ready[j] <= now + Entry
      BY DEF AgeInv, Timely
    <3>2. place'[n] # "working"
      BY <1>3
    <3> QED BY <1>3, <2>3, <3>1, <3>2 DEF Ranked, SameQueue
  <2>4. CASE i # n /\ j # n
    <3>1. Ranked(j, i)
      BY <1>6 DEF AgeInv
    <3> QED BY <1>3, <2>4, <3>1 DEF Ranked, SameQueue
  <2> QED BY <2>2, <2>3, <2>4
<1> QED BY <1>5, <1>6 DEF AgeInv

\* A settlement takes the whole inbox, and of two delayed orders never the
\* younger one alone.
LEMMA SettleAge ==
    ASSUME Base, JoinedAtTouch, AgeInv, NEW D \in SUBSET Ids, NEW ts, SettleInbox(D, ts),
           In("inbox") \subseteq D,
           \A i \in D : place[i] \in {"inbox", "delayed"},
           \A i \in D, j \in Ids :
              j < i /\ place[j] = "delayed" /\ place[i] = "delayed" => j \in D,
           now' \in Nat, now <= now'
    PROVE  AgeInv'
<1>1. UNCHANGED <<order, quote, hasQ, ready>>
  BY DEF SettleInbox, SettleOutcome, Rests
<1>2. ASSUME NEW i \in Ids, i \notin D
      PROVE  place'[i] = place[i] /\ joined'[i] = joined[i] /\ place[i] # "inbox"
  BY <1>2, NotSettled DEF Base, In
<1>3. ASSUME NEW i \in D
      PROVE  /\ place'[i] \in {"filled", "working", "rejected"}
             /\ place'[i] = "working" =>
                   /\ hasQ /\ order[i].kind = "limit"
                   /\ joined'[i] = Joins(order[i], quote)
  <2>1. order[i].kind \in {"market", "limit"}
    BY RankTypes DEF Base
  <2> QED BY <2>1, Settled DEF Base, Crosses
<1>4. ASSUME NEW i \in Ids PROVE Timely(i)'
  <2>1. CASE i \in D
    BY <1>3, <2>1 DEF Timely
  <2>2. CASE i \notin D
    <3>1. Timely(i) /\ ready[i] \in Nat /\ now \in Nat /\ Entry \in Nat
      BY RankTypes DEF AgeInv, Base
    <3> QED BY <1>1, <1>2, <2>2, <3>1 DEF Timely
  <2> QED BY <2>1, <2>2
<1>5. ASSUME NEW j \in Ids, NEW i \in Ids, j < i PROVE Ranked(j, i)'
  <2>1. Ranked(j, i)
    BY <1>5 DEF AgeInv
  <2>2. place'[j] = "delayed" =>
           place'[i] \notin {"inbox", "working"} /\ (place'[i] = "delayed" => ready'[j] <= ready'[i])
    <3> SUFFICES ASSUME place'[j] = "delayed"
                 PROVE  place'[i] \notin {"inbox", "working"}
                        /\ (place'[i] = "delayed" => ready'[j] <= ready'[i])
      OBVIOUS
    <3>1. j \notin D /\ place[j] = "delayed"
      BY <1>2, <1>3
    <3>2. i \notin D
      BY <1>5, <2>1, <3>1 DEF Ranked
    <3> QED BY <1>1, <1>2, <2>1, <3>1, <3>2 DEF Ranked
  <2>3. place'[j] # "inbox"
    BY <1>2, <1>3
  <2>4. ASSUME SameQueue(j, i)', joined'[i] PROVE joined'[j]
    <3>1. /\ place'[j] = "working" /\ place'[i] = "working"
          /\ order[j].side = order[i].side /\ order[j].px = order[i].px
      BY <1>1, <2>4 DEF SameQueue
    <3>2. Joins(order[j], quote) = Joins(order[i], quote)
      BY <3>1 DEF Joins, OwnPx
    <3>3. CASE i \in D /\ j \in D
      BY <1>3, <2>4, <3>1, <3>2, <3>3
    <3>4. CASE i \in D /\ j \notin D
      <4>1. place[j] = "working" /\ hasQ /\ Joins(order[j], quote)
        BY <1>2, <1>3, <2>4, <3>1, <3>2, <3>4
      <4>2. joined[j]
        BY <4>1 DEF JoinedAtTouch, In
      <4> QED BY <1>2, <3>4, <4>2
    <3>5. CASE i \notin D /\ j \in D
      <4>1. place[i] = "working" /\ order[j].kind = "limit" /\ place[j] \in {"inbox", "delayed"}
        BY <1>2, <1>3, <3>1, <3>5
      <4> QED BY <2>1, <4>1 DEF Ranked
    <3>6. CASE i \notin D /\ j \notin D
      <4>1. SameQueue(j, i) /\ joined[i]
        BY <1>2, <2>4, <3>1, <3>6 DEF SameQueue
      <4> QED BY <1>2, <2>1, <3>6, <4>1 DEF Ranked
    <3> QED BY <3>3, <3>4, <3>5, <3>6
  <2> QED BY <2>2, <2>3, <2>4 DEF Ranked
<1> QED BY <1>4, <1>5 DEF AgeInv

LEMMA QuoteAge ==
    ASSUME Base, AgeInv, NEW q \in Quotes, NEW ts \in Stamps, Quote(q, ts)
    PROVE  AgeInv'
<1>1. UNCHANGED <<order, place, ready>> /\ now <= now' /\ now' \in Nat /\ now \in Nat
  BY LaterIsTime, MatchingAssumption DEF Quote, Base, TypeOK
<1>2. ASSUME NEW i \in Ids, ~(place[i] = "working" /\ ~joined[i]) PROVE joined'[i] = joined[i]
  BY <1>2 DEF Quote, In
<1>3. ASSUME NEW i \in Ids, place[i] = "working", ~joined[i]
      PROVE  joined'[i] = Joins(order[i], q)
  BY <1>3 DEF Quote, In
<1>4. ASSUME NEW i \in Ids PROVE Timely(i)'
  <2>1. Timely(i) /\ ready[i] \in Nat /\ Entry \in Nat
    BY RankTypes DEF AgeInv, Base
  <2> QED BY <1>1, <1>2, <2>1 DEF Timely
<1>5. ASSUME NEW j \in Ids, NEW i \in Ids, j < i PROVE Ranked(j, i)'
  <2>1. Ranked(j, i) /\ joined[j] \in BOOLEAN /\ joined[i] \in BOOLEAN
    BY <1>5, RankTypes DEF AgeInv, Base
  <2>2. ASSUME SameQueue(j, i), joined'[i] PROVE joined'[j]
    <3>1. Joins(order[j], q) = Joins(order[i], q) /\ place[i] = "working" /\ place[j] = "working"
      BY <2>2 DEF Joins, OwnPx, SameQueue
    <3>2. CASE joined[j]
      BY <1>2, <3>2
    <3>3. CASE ~joined[j]
      <4>1. ~joined[i]
        BY <2>1, <2>2, <3>3 DEF Ranked
      <4> QED BY <1>3, <2>2, <3>1, <3>3, <4>1
    <3> QED BY <3>2, <3>3
  <2>3. SameQueue(j, i)' => SameQueue(j, i)
    BY <1>1 DEF SameQueue
  <2> QED BY <1>1, <2>1, <2>2, <2>3 DEF Ranked
<1> QED BY <1>4, <1>5 DEF AgeInv

LEMMA AdoptAge ==
    ASSUME Base, AgeInv, AdoptFirst
    PROVE  AgeInv'
<1>1. PICK ords \in Snapshots, lastID \in 0..MaxOrders : Adopt(DOMAIN ords, ords, lastID)
  BY DEF AdoptFirst
<1> DEFINE S == DOMAIN ords
<1>2. S \in SUBSET Ids /\ hasQ = FALSE
  BY DEF AdoptFirst, Snapshots
<1>3. \A i \in Ids : place[i] = "none" /\ joined[i] = FALSE
  <2>1. \A i \in Ids : place[i] = "none"
    BY DEF AdoptFirst, Base, TypeOK, FreshIds, Ids
  <2>2. \A i \in Ids : joined[i] \in BOOLEAN /\ Timely(i)
    BY RankTypes DEF Base, AgeInv
  <2> QED BY <2>1, <2>2 DEF Timely
<1>4. \A i \in Ids : joined'[i] = FALSE
  BY <1>1, <1>2, <1>3 DEF Adopt, Rest
<1>5. \A i \in S : order'[i] = ords[i]
  BY <1>1, <1>2 DEF Adopt, AdoptOutcome
<1>6. \A i \in Ids : /\ place'[i] \in {"none", "working", "inbox"}
                     /\ place'[i] = "inbox" => i \in S /\ ords[i].kind # "limit"
  BY <1>1, <1>2, <1>3 DEF Adopt, AdoptOutcome, Limits, Live, In
<1> HIDE DEF S
<1>7. \A i \in Ids : Timely(i)'
  BY <1>4, <1>6 DEF Timely
<1>8. \A j, i \in Ids : Ranked(j, i)'
  BY <1>4, <1>5, <1>6 DEF Ranked
<1> QED BY <1>7, <1>8 DEF AgeInv

\* What only takes orders away, and lets time pass.
LEMMA LeaveAge ==
    ASSUME Base, AgeInv, UNCHANGED <<order, ready, joined>>, now' \in Nat, now <= now',
           \A i \in Ids : place'[i] = place[i] \/ place'[i] \in Ended
    PROVE  AgeInv'
<1>1. ASSUME NEW i \in Ids PROVE Timely(i)'
  <2>1. Timely(i) /\ ready[i] \in Nat /\ now \in Nat /\ Entry \in Nat
    BY RankTypes DEF AgeInv, Base
  <2> QED BY <2>1 DEF Timely, Ended
<1>2. ASSUME NEW j \in Ids, NEW i \in Ids, j < i PROVE Ranked(j, i)'
  <2>1. Ranked(j, i)
    BY <1>2 DEF AgeInv
  <2> QED BY <2>1 DEF Ranked, SameQueue, Ended
<1> QED BY <1>1, <1>2 DEF AgeInv

LEMMA NextAge == Base /\ JoinedAtTouch /\ AgeInv /\ [Next]_vars => AgeInv'
<1> SUFFICES ASSUME Base, JoinedAtTouch, AgeInv, [Next]_vars PROVE AgeInv'
  OBVIOUS
<1>0. /\ now \in Nat /\ \A i \in Ids : place[i] \in Places
      /\ \A ts \in Stamps : Later(ts) \in Nat /\ now <= Later(ts)
  BY LaterIsTime, MatchingAssumption DEF Base, TypeOK
<1>1. ASSUME NEW o \in Requests, Enqueue(o) PROVE AgeInv'
  BY <1>1, EnqueueAge
<1>2. ASSUME NEW c \in Ids, Cancel(c) PROVE AgeInv'
  <2>1. UNCHANGED <<order, ready, joined, now>>
    BY <1>2 DEF Cancel, resting
  <2>2. \A i \in Ids : place'[i] = place[i] \/ place'[i] \in Ended
    BY <1>2 DEF Cancel, Base, TypeOK, Ended
  <2> QED BY <1>0, <2>1, <2>2, LeaveAge
<1>3. ASSUME NEW ts \in Stamps, Sync(ts) PROVE AgeInv'
  <2>1. UNCHANGED <<order, ready, joined, place>> /\ now' = Later(ts)
    BY <1>3 DEF Sync, resting
  <2> QED BY <1>0, <2>1, LeaveAge
<1>4. ASSUME NEW ts \in Stamps, Settle(ts) PROVE AgeInv'
  <2> DEFINE D == In("inbox") \cup Due(ts)
  <2>1. D \in SUBSET Ids /\ \A i \in D : place[i] \in {"inbox", "delayed"}
    BY DEF In, Due
  <2>2. SettleInbox(D, ts) /\ In("inbox") \subseteq D /\ now' \in Nat /\ now <= now'
    BY <1>0, <1>4 DEF Settle
  <2>3. ASSUME NEW i \in D, NEW j \in Ids, j < i, place[j] = "delayed", place[i] = "delayed"
        PROVE  j \in D
    <3>1. ready[j] <= ready[i]
      BY <2>1, <2>3 DEF AgeInv, Ranked
    <3>2. ready[i] <= ts
      BY <2>3 DEF In, Due
    <3>3. ready[i] \in Nat /\ ready[j] \in Nat /\ ts \in Nat
      BY <2>1, LaterIsTime, RankTypes DEF Base
    <3> QED BY <2>3, <3>1, <3>2, <3>3 DEF In, Due
  <2> HIDE DEF D
  <2> QED BY <2>1, <2>2, <2>3, SettleAge
<1>5. ASSUME NEW q \in Quotes, NEW ts \in Stamps, Quote(q, ts) PROVE AgeInv'
  BY <1>5, QuoteAge
<1>6. ASSUME NEW t \in Trades, NEW ts \in Stamps, Trade(t, ts) PROVE AgeInv'
  <2>1. PICK left \in Passes(t) : OnTrade(t, ts, left)
    BY <1>6 DEF Trade
  <2>2. \A i \in Ids : place'[i] = place[i] \/ place'[i] \in Ended
    BY <2>1, Traded DEF Base, Ended
  <2>3. UNCHANGED <<order, ready, joined>> /\ now' = Later(ts)
    BY <1>6, TradeFixed
  <2> QED BY <1>0, <2>2, <2>3, LeaveAge
<1>7. CASE Flush
  <2> DEFINE D == In("inbox") \cup In("delayed")
  <2>1. D \in SUBSET Ids /\ \A i \in D : place[i] \in {"inbox", "delayed"}
    BY DEF In
  <2>2. SettleInbox(D, now) /\ In("inbox") \subseteq D /\ now' \in Nat /\ now <= now'
    BY <1>0, <1>7 DEF Flush
  <2>3. \A j \in Ids : place[j] = "delayed" => j \in D
    BY DEF In
  <2> HIDE DEF D
  <2> QED BY <2>1, <2>2, <2>3, SettleAge
<1>8. CASE AdoptFirst
  BY <1>8, AdoptAge
<1>9. CASE UNCHANGED vars
  <2>1. UNCHANGED <<order, ready, joined, place, now>>
    BY <1>9 DEF vars, resting
  <2> QED BY <1>0, <2>1, LeaveAge
<1> QED BY <1>1, <1>2, <1>3, <1>4, <1>5, <1>6, <1>7, <1>8, <1>9 DEF Next

LEMMA AgeHolds == Spec => []AgeInv
<1>1. Init => AgeInv
  BY DEF Init, AgeInv, Ranked, Timely, SameQueue
<1> QED BY <1>1, BaseHolds, JoinedHolds, NextAge, PTL DEF Spec

-----------------------------------------------------------------------------
(* The pessimistic queue. *)

\* Why nobody fills early: an order that has not joined has seen no print count
\* for it; once joined, the prints it saw and the size still ahead cover its
\* claim and its fills; and it fills only when nothing is ahead.
QueueInv ==
    Model = "pessimistic" => \A i \in Ids :
        /\ place[i] \in {"none", "delayed", "inbox"} => ~joined[i]
        /\ ~joined[i] => atPx[i] = 0 /\ since[i] = 0
        /\ joined[i] => since[i] + ahead[i] >= claim[i] + atPx[i]
        /\ atPx[i] > 0 => ahead[i] = 0

LEMMA QueueTypes ==
    ASSUME TypeOK, NEW i \in Ids
    PROVE  ahead[i] \in Nat /\ atPx[i] \in Nat /\ since[i] \in Nat /\ claim[i] \in Nat
           /\ remaining[i] \in Nat /\ joined[i] \in BOOLEAN
  BY DEF TypeOK

LEMMA SettleQueue ==
    ASSUME Base, QueueInv, NEW D \in SUBSET Ids, NEW ts, SettleInbox(D, ts),
           \A i \in D : place[i] \in {"inbox", "delayed"}
    PROVE  QueueInv'
<1> SUFFICES ASSUME Model = "pessimistic", NEW i \in Ids
             PROVE  /\ place'[i] \in {"none", "delayed", "inbox"} => ~joined'[i]
                    /\ ~joined'[i] => atPx'[i] = 0 /\ since'[i] = 0
                    /\ joined'[i] => since'[i] + ahead'[i] >= claim'[i] + atPx'[i]
                    /\ atPx'[i] > 0 => ahead'[i] = 0
  BY DEF QueueInv
<1>1. UNCHANGED <<atPx, since>>
  BY DEF SettleInbox, SettleOutcome, Rests
<1>2. CASE i \notin D
  BY <1>1, <1>2, NotSettled DEF Base, QueueInv
<1>3. CASE i \in D
  <2>1. ~joined[i] /\ atPx[i] = 0 /\ since[i] = 0
    BY <1>3 DEF QueueInv
  <2>2. \/ place'[i] \in {"filled", "rejected"} /\ joined'[i] = joined[i]
        \/ place'[i] = "working" /\ claim'[i] = ahead'[i]
    BY <1>3, Settled DEF Base
  <2>3. ahead'[i] \in Nat
    <3>1. JoinAhead(order[i], quote) \in Nat /\ ahead[i] \in Nat
      BY JoinAheadIsNat DEF Base, TypeOK
    <3> QED BY <1>3, <3>1, Settled DEF Base
  <2> QED BY <1>1, <2>1, <2>2, <2>3
<1> QED BY <1>2, <1>3

LEMMA QuoteQueue ==
    ASSUME Base, QueueInv, NEW q \in Quotes, NEW ts \in Stamps, Quote(q, ts)
    PROVE  QueueInv'
<1> SUFFICES ASSUME Model = "pessimistic", NEW i \in Ids
             PROVE  /\ place'[i] \in {"none", "delayed", "inbox"} => ~joined'[i]
                    /\ ~joined'[i] => atPx'[i] = 0 /\ since'[i] = 0
                    /\ joined'[i] => since'[i] + ahead'[i] >= claim'[i] + atPx'[i]
                    /\ atPx'[i] > 0 => ahead'[i] = 0
  BY DEF QueueInv
<1>1. UNCHANGED <<place, atPx, since>>
  BY DEF Quote
<1>2. CASE place[i] = "working" /\ ~joined[i]
  <2>1. ahead'[i] = JoinAhead(order[i], q) /\ claim'[i] = JoinAhead(order[i], q)
    BY <1>2 DEF Quote, In
  <2>2. JoinAhead(order[i], q) \in Nat
    BY JoinAheadIsNat, MatchingAssumption DEF Base, TypeOK
  <2> QED BY <1>1, <1>2, <2>1, <2>2 DEF QueueInv
<1>3. CASE ~(place[i] = "working" /\ ~joined[i])
  <2>1. ahead'[i] = ahead[i] /\ claim'[i] = claim[i] /\ joined'[i] = joined[i]
    BY <1>3 DEF Quote, In
  <2> QED BY <1>1, <2>1 DEF QueueInv
<1> QED BY <1>2, <1>3

LEMMA TradeQueue ==
    ASSUME Base, QueueInv, NEW t \in Trades, NEW ts \in Stamps, Trade(t, ts)
    PROVE  QueueInv'
<1> SUFFICES ASSUME Model = "pessimistic", NEW i \in Ids
             PROVE  /\ place'[i] \in {"none", "delayed", "inbox"} => ~joined'[i]
                    /\ ~joined'[i] => atPx'[i] = 0 /\ since'[i] = 0
                    /\ joined'[i] => since'[i] + ahead'[i] >= claim'[i] + atPx'[i]
                    /\ atPx'[i] > 0 => ahead'[i] = 0
  BY DEF QueueInv
<1>1. PICK left \in Passes(t) : OnTrade(t, ts, left)
  BY DEF Trade
<1>2. UNCHANGED <<joined, claim>>
  BY TradeFixed
<1>3. place'[i] = place[i] \/ (place[i] = "working" /\ place'[i] = "filled")
  BY <1>1, Traded DEF Base
<1>4. CASE i \notin Hits(t)
  <2>1. ahead'[i] = ahead[i] /\ atPx'[i] = atPx[i] /\ since'[i] = since[i]
    BY <1>1, <1>4, Traded DEF Base
  <2> QED BY <1>2, <1>3, <2>1 DEF QueueInv
<1>5. CASE i \in Hits(t)
  <2> DEFINE l == left[i - 1]
             n == Take(i, l)
  <2>1. /\ joined[i]
        /\ ahead'[i] = ahead[i] - Min2(ahead[i], l)
        /\ atPx'[i] = atPx[i] + n
        /\ since'[i] = since[i] + t.qty
    BY <1>1, <1>5, Traded DEF Base
  <2>2. l \in Nat /\ l <= t.qty /\ t.qty \in Nat
    BY LeftIsNat DEF TradeRec
  <2>3. n \in Nat /\ (l <= ahead[i] => n = 0) /\ (l > ahead[i] => n <= l - ahead[i])
    <3>1. n \in 0..remaining[i] /\ remaining[i] \in Nat
      BY <2>2, TakeBounds, QueueTypes DEF Base
    <3> QED BY <2>2, <3>1, TakeBounds DEF Base
  <2> HIDE DEF l, n
  <2>4. ahead[i] \in Nat /\ atPx[i] \in Nat /\ since[i] \in Nat /\ claim[i] \in Nat
    BY QueueTypes DEF Base
  <2>5. since[i] + ahead[i] >= claim[i] + atPx[i] /\ (atPx[i] > 0 => ahead[i] = 0)
        /\ place[i] \notin {"none", "delayed", "inbox"}
    BY <2>1 DEF QueueInv
  <2>6. CASE l <= ahead[i]
    <3>1. ahead'[i] = ahead[i] - l /\ atPx'[i] = atPx[i]
      BY <2>1, <2>2, <2>3, <2>4, <2>6 DEF Min2
    <3>2. atPx'[i] > 0 => ahead'[i] = 0
      BY <2>2, <2>4, <2>5, <2>6, <3>1
    <3>3. since'[i] + ahead'[i] >= claim'[i] + atPx'[i]
      <4>1. claim'[i] = claim[i]
        BY <1>2
      <4> QED BY <2>1, <2>2, <2>4, <2>5, <2>6, <3>1, <4>1
    <3> QED BY <1>2, <1>3, <2>1, <2>5, <3>2, <3>3
  <2>7. CASE l > ahead[i]
    <3>1. ahead'[i] = 0 /\ atPx'[i] <= atPx[i] + l - ahead[i] /\ atPx'[i] \in Nat
      BY <2>1, <2>2, <2>3, <2>4, <2>7 DEF Min2
    <3> QED BY <1>2, <1>3, <2>1, <2>2, <2>4, <2>5, <2>7, <3>1
  <2> QED BY <2>2, <2>4, <2>6, <2>7
<1> QED BY <1>4, <1>5

LEMMA NextQueue == Base /\ QueueInv /\ [Next]_vars => QueueInv'
<1> SUFFICES ASSUME Base, QueueInv, [Next]_vars PROVE QueueInv'
  OBVIOUS
<1>1. ASSUME NEW o \in Requests, Enqueue(o) PROVE QueueInv'
  <2> DEFINE n == nextID + 1
  <2>1. n \in Ids /\ place[n] = "none" /\ \A i \in Ids \ {n} : place'[i] = place[i]
    BY <1>1, MatchingAssumption DEF Base, TypeOK, Enqueue, Ids, FreshIds
  <2>2. UNCHANGED <<joined, ahead, claim, atPx, since>>
    BY <1>1 DEF Enqueue, resting, history
  <2> QED BY <2>1, <2>2 DEF QueueInv
<1>2. ASSUME NEW i \in Ids, Cancel(i) PROVE QueueInv'
  <2>1. \A j \in Ids : place'[j] = place[j] \/ place'[j] = "canceled"
    BY <1>2 DEF Cancel, Base, TypeOK
  <2>2. UNCHANGED <<joined, ahead, claim, atPx, since>>
    BY <1>2 DEF Cancel, resting, history
  <2> QED BY <2>1, <2>2 DEF QueueInv
<1>3. ASSUME NEW ts \in Stamps, Sync(ts) PROVE QueueInv'
  BY <1>3 DEF QueueInv, Sync, resting, history
<1>4. ASSUME NEW ts \in Stamps, Settle(ts) PROVE QueueInv'
  <2> DEFINE D == In("inbox") \cup Due(ts)
  <2>1. D \in SUBSET Ids /\ \A i \in D : place[i] \in {"inbox", "delayed"}
    BY DEF In, Due
  <2>2. SettleInbox(D, ts)
    BY <1>4 DEF Settle
  <2> HIDE DEF D
  <2> QED BY <2>1, <2>2, SettleQueue
<1>5. ASSUME NEW q \in Quotes, NEW ts \in Stamps, Quote(q, ts) PROVE QueueInv'
  BY <1>5, QuoteQueue
<1>6. ASSUME NEW t \in Trades, NEW ts \in Stamps, Trade(t, ts) PROVE QueueInv'
  BY <1>6, TradeQueue
<1>7. CASE Flush
  <2> DEFINE D == In("inbox") \cup In("delayed")
  <2>1. D \in SUBSET Ids /\ \A i \in D : place[i] \in {"inbox", "delayed"}
    BY DEF In
  <2>2. SettleInbox(D, now)
    BY <1>7 DEF Flush
  <2> HIDE DEF D
  <2> QED BY <2>1, <2>2, SettleQueue
<1>8. CASE AdoptFirst
  <2>1. PICK ords \in Snapshots, lastID \in 0..MaxOrders : Adopt(DOMAIN ords, ords, lastID)
    BY <1>8 DEF AdoptFirst
  <2>2. \A i \in Ids : place[i] = "none"
    BY <1>8 DEF AdoptFirst, Base, TypeOK, FreshIds, Ids
  <2>3. UNCHANGED <<atPx, since>>
    BY <2>1 DEF Adopt, AdoptOutcome, Limits
  <2>4. hasQ = FALSE
    BY <1>8 DEF AdoptFirst
  <2>5. ASSUME Model = "pessimistic", NEW i \in Ids
        PROVE  ~joined[i] /\ atPx[i] = 0 /\ since[i] = 0
    BY <2>2, <2>5 DEF QueueInv
  <2>6. ASSUME Model = "pessimistic", NEW i \in Ids PROVE ~joined'[i]
    BY <2>1, <2>4, <2>5, <2>6 DEF Adopt, AdoptOutcome, Limits, Rest
  <2> QED BY <2>3, <2>5, <2>6 DEF QueueInv
<1>9. CASE UNCHANGED vars
  BY <1>9 DEF QueueInv, vars, resting, history
<1> QED BY <1>1, <1>2, <1>3, <1>4, <1>5, <1>6, <1>7, <1>8, <1>9 DEF Next

LEMMA QueueMeans == Base /\ QueueInv => PessimisticQueue
<1> SUFFICES ASSUME Base, QueueInv, Model = "pessimistic", NEW i \in Ids, atPx[i] > 0
             PROVE  since[i] >= claim[i] + atPx[i]
  BY DEF PessimisticQueue
<1>1. ahead[i] = 0 /\ joined[i]
  BY QueueTypes DEF QueueInv, Base
<1>2. since[i] + ahead[i] >= claim[i] + atPx[i] /\ since[i] \in Nat
  BY <1>1, QueueTypes DEF QueueInv, Base
<1> QED BY <1>1, <1>2

\* Under the pessimistic model an order fills at its price only after the size
\* that was ahead when it joined, and every contract it filled, has printed.
THEOREM PessimisticHolds == Spec => []PessimisticQueue
<1>1. Init => QueueInv
  BY DEF Init, QueueInv
<1> QED BY <1>1, QueueMeans, BaseHolds, NextQueue, PTL DEF Spec

-----------------------------------------------------------------------------
(* Every step of the venue is, for each order, a step of OrderLife. *)

Held == {"delayed", "inbox", "working"}

\* What one call does to order i, as the life cycle sees it.
LifeStep(i) == Life!Accept(i) \/ Life!Execute(i) \/ Life!Withdraw(i)
               \/ Life!Refuse(i) \/ Life!Keep(i)

-----------------------------------------------------------------------------
(* How each kind of change of one order maps. *)

LEMMA Keeps ==
    ASSUME NEW i \in Ids, order'[i] = order[i], executed'[i] = executed[i],
           place'[i] = place[i] \/ (place[i] \in Held /\ place'[i] \in Held)
    PROVE  LifeStep(i)
  BY DEF LifeStep, Life!Keep, Held

LEMMA Opens ==
    ASSUME NEW i \in Ids, place[i] = "none", place'[i] \in Held,
           order'[i].qty > 0, executed'[i] = 0
    PROVE  LifeStep(i)
  BY DEF LifeStep, Life!Accept, Held

LEMMA Executes ==
    ASSUME NEW i \in Ids, order'[i] = order[i], place[i] \in Held,
           executed'[i] > executed[i], executed'[i] <= order[i].qty,
           executed'[i] = order[i].qty => place'[i] = "filled",
           executed'[i] # order[i].qty => place'[i] \in Held
    PROVE  LifeStep(i)
  BY DEF LifeStep, Life!Execute, Held

LEMMA Withdraws ==
    ASSUME NEW i \in Ids, order'[i] = order[i], place[i] \in Held,
           place'[i] = "canceled", executed[i] < order[i].qty,
           executed'[i] = executed[i]
    PROVE  LifeStep(i)
  BY DEF LifeStep, Life!Withdraw, Held

LEMMA Refuses ==
    ASSUME NEW i \in Ids, order'[i] = order[i], place[i] \in Held,
           place'[i] = "rejected", executed[i] = 0, executed'[i] = 0
    PROVE  LifeStep(i)
  BY DEF LifeStep, Life!Refuse, Held

-----------------------------------------------------------------------------
(* One lemma per kind of call. *)

LEMMA EnqueueLife ==
    ASSUME Base, NEW o \in Requests, Enqueue(o), NEW i \in Ids
    PROVE  LifeStep(i)
<1> DEFINE n == nextID + 1
<1>1. n \in Ids /\ place[n] = "none"
  BY MatchingAssumption DEF Base, TypeOK, Enqueue, Ids, FreshIds
<1>2. /\ place'[n] \in Held /\ order'[n] = o /\ o.qty > 0 /\ executed'[n] = 0
      /\ \A j \in Ids \ {n} : place'[j] = place[j] /\ order'[j] = order[j]
      /\ executed' = executed
  BY <1>1 DEF Base, TypeOK, Conservation, Enqueue, Valid, history, Held
<1> HIDE DEF n
<1>3. CASE i = n
  BY <1>1, <1>2, <1>3, Opens
<1>4. CASE i # n
  BY <1>2, <1>4, Keeps
<1> QED BY <1>3, <1>4

LEMMA CancelLife ==
    ASSUME Base, NEW c \in Ids, Cancel(c), NEW i \in Ids
    PROVE  LifeStep(i)
<1>1. /\ place'[c] = "canceled" /\ place[c] \in Held
      /\ \A j \in Ids \ {c} : place'[j] = place[j]
      /\ UNCHANGED <<order, executed>>
  BY DEF Base, TypeOK, Cancel, Live, In, Held, history
<1>2. executed[c] < order[c].qty
  <2>1. order[c].qty > 0
    BY DEF Cancel, Base, LiveValid, Valid
  <2>2. order[c].qty \in Nat /\ executed[c] \in Nat /\ remaining[c] \in Nat
    BY DEF Base, TypeOK, OrderRec
  <2>3. place[c] = "working" => remaining[c] > 0 /\ executed[c] + remaining[c] = order[c].qty
    BY DEF Base, Conservation
  <2>4. place[c] # "working" => executed[c] = 0
    BY <1>1 DEF Base, Conservation, Held
  <2> QED BY <2>1, <2>2, <2>3, <2>4
<1>3. CASE i = c
  BY <1>1, <1>2, <1>3, Withdraws
<1>4. CASE i # c
  BY <1>1, <1>4, Keeps
<1> QED BY <1>3, <1>4

LEMMA OutcomeLife ==
    ASSUME Base, NEW D \in SUBSET Ids, NEW ts, SettleOutcome(D, ts),
           RestsWhole(Rests(D), order),
           \A j \in D : place[j] \in {"inbox", "delayed"}, NEW i \in Ids
    PROVE  LifeStep(i)
<1>1. order'[i] = order[i]
  BY DEF SettleOutcome, Rests
<1>2. CASE i \notin D
  BY <1>1, <1>2, Outcome, Keeps DEF Base
<1>3. CASE i \in D
  <2>1. place[i] \in Held /\ i \in Live /\ executed[i] = 0
    BY <1>3 DEF Base, Conservation, Live, In, Held
  <2>2. order[i].qty > 0 /\ order[i].qty \in Nat
    BY <2>1 DEF Base, LiveValid, Valid, TypeOK, OrderRec
  <2>3. \/ place'[i] = "filled" /\ executed'[i] = order[i].qty
        \/ place'[i] = "working" /\ executed'[i] = 0
        \/ place'[i] = "rejected" /\ executed'[i] = 0
    BY <1>3, <2>1, Outcome DEF Base
  <2>4. CASE place'[i] = "filled" /\ executed'[i] = order[i].qty
    BY <1>1, <2>1, <2>2, <2>4, Executes
  <2>5. CASE place'[i] = "working" /\ executed'[i] = 0
    BY <1>1, <2>1, <2>5, Keeps DEF Held
  <2>6. CASE place'[i] = "rejected" /\ executed'[i] = 0
    BY <1>1, <2>1, <2>6, Refuses
  <2> QED BY <2>3, <2>4, <2>5, <2>6
<1> QED BY <1>2, <1>3

LEMMA SettleLife ==
    ASSUME Base, NEW D \in SUBSET Ids, NEW ts, SettleInbox(D, ts),
           \A j \in D : place[j] \in {"inbox", "delayed"}, NEW i \in Ids
    PROVE  LifeStep(i)
<1>1. SettleOutcome(D, ts) /\ RestsWhole(Rests(D), order)
  BY DEF SettleInbox, Rest, RestsWhole
<1> QED BY <1>1, OutcomeLife

LEMMA TradeLife ==
    ASSUME Base, NEW t \in Trades, NEW ts \in Stamps, Trade(t, ts), NEW i \in Ids
    PROVE  LifeStep(i)
<1>1. PICK left \in Passes(t) : OnTrade(t, ts, left)
  BY DEF Trade
<1> DEFINE taken == Taken(t, left)
<1>2. taken[i] \in 0..remaining[i] /\ (place[i] # "working" => taken[i] = 0)
  BY TakenBounds DEF Base
<1> HIDE DEF taken
<1>3. /\ executed'[i] = executed[i] + taken[i]
      /\ (taken[i] > 0 /\ taken[i] = remaining[i]) => place'[i] = "filled"
      /\ ~(taken[i] > 0 /\ taken[i] = remaining[i]) => place'[i] = place[i]
      /\ order'[i] = order[i]
  BY <1>1 DEF OnTrade, taken
<1>4. order[i].qty \in Nat /\ remaining[i] \in Nat /\ executed[i] \in Nat
  BY DEF Base, TypeOK, OrderRec
<1>5. CASE taken[i] = 0
  BY <1>3, <1>4, <1>5, Keeps
<1>6. CASE taken[i] > 0
  <2>1. place[i] = "working" /\ place[i] \in Held
    BY <1>2, <1>6 DEF Held
  <2>2. executed[i] + remaining[i] = order[i].qty
    BY <2>1 DEF Base, Conservation
  <2>3. executed'[i] > executed[i] /\ executed'[i] <= order[i].qty
    BY <1>2, <1>3, <1>4, <1>6, <2>2
  <2>4. executed'[i] = order[i].qty => taken[i] = remaining[i]
    BY <1>2, <1>3, <1>4, <2>2
  <2>5. executed'[i] # order[i].qty => taken[i] # remaining[i]
    BY <1>2, <1>3, <1>4, <2>2
  <2> QED BY <1>3, <1>6, <2>1, <2>3, <2>4, <2>5, Executes
<1> QED BY <1>2, <1>4, <1>5, <1>6

LEMMA AdoptOutcomeLife ==
    ASSUME Base, nextID = 0, NEW ords, DOMAIN ords \in SUBSET Ids, NEW lastID,
           AdoptOutcome(DOMAIN ords, ords, lastID), NEW i \in Ids
    PROVE  LifeStep(i)
<1> DEFINE S == DOMAIN ords
<1>2. S \in SUBSET Ids /\ \A j \in S : Valid(ords[j])
  BY DEF AdoptOutcome, Limits
<1>3. \A j \in Ids : place[j] = "none" /\ executed[j] = 0
  BY DEF Base, TypeOK, FreshIds, Conservation, Ids
<1>4. executed' = executed
  BY DEF AdoptOutcome, Limits
<1>5. CASE i \in S
  <2>1. place'[i] \in Held
    BY <1>2, <1>5 DEF AdoptOutcome, Limits, Held
  <2>2. order'[i].qty > 0
    BY <1>2, <1>5 DEF AdoptOutcome, Limits, Valid
  <2> QED BY <1>3, <1>4, <2>1, <2>2, Opens
<1>6. CASE i \notin S
  <2>1. place'[i] = place[i] /\ order'[i] = order[i]
    BY <1>2, <1>3, <1>6 DEF AdoptOutcome, Limits, Live, In
  <2> QED BY <1>4, <2>1, Keeps
<1> QED BY <1>5, <1>6

LEMMA AdoptLife ==
    ASSUME Base, AdoptFirst, NEW i \in Ids
    PROVE  LifeStep(i)
<1>1. PICK ords \in Snapshots, lastID \in 0..MaxOrders : Adopt(DOMAIN ords, ords, lastID)
  BY DEF AdoptFirst
<1>2. nextID = 0 /\ DOMAIN ords \in SUBSET Ids /\ AdoptOutcome(DOMAIN ords, ords, lastID)
  BY <1>1 DEF AdoptFirst, Snapshots, Adopt
<1> QED BY <1>2, AdoptOutcomeLife

LEMMA NextLife == Base /\ [Next]_vars => [Life!Next]_(Life!vars)
<1> SUFFICES ASSUME Base, [Next]_vars, NEW i \in Ids PROVE LifeStep(i)
  BY DEF LifeStep, Life!Next
<1>1. ASSUME NEW o \in Requests, Enqueue(o) PROVE LifeStep(i)
  BY <1>1, EnqueueLife
<1>2. ASSUME NEW c \in Ids, Cancel(c) PROVE LifeStep(i)
  BY <1>2, CancelLife
<1>3. ASSUME NEW ts \in Stamps, Sync(ts) PROVE LifeStep(i)
  BY <1>3, Keeps DEF Sync, history
<1>4. ASSUME NEW ts \in Stamps, Settle(ts) PROVE LifeStep(i)
  <2> DEFINE D == In("inbox") \cup Due(ts)
  <2>1. D \in SUBSET Ids /\ \A j \in D : place[j] \in {"inbox", "delayed"}
    BY DEF In, Due
  <2>2. SettleInbox(D, ts)
    BY <1>4 DEF Settle
  <2> HIDE DEF D
  <2> QED BY <2>1, <2>2, SettleLife
<1>5. ASSUME NEW q \in Quotes, NEW ts \in Stamps, Quote(q, ts) PROVE LifeStep(i)
  BY <1>5, Keeps DEF Quote
<1>6. ASSUME NEW t \in Trades, NEW ts \in Stamps, Trade(t, ts) PROVE LifeStep(i)
  BY <1>6, TradeLife
<1>7. CASE Flush
  <2> DEFINE D == In("inbox") \cup In("delayed")
  <2>1. D \in SUBSET Ids /\ \A j \in D : place[j] \in {"inbox", "delayed"}
    BY DEF In
  <2>2. SettleInbox(D, now)
    BY <1>7 DEF Flush
  <2> HIDE DEF D
  <2> QED BY <2>1, <2>2, SettleLife
<1>8. CASE AdoptFirst
  BY <1>8, AdoptLife
<1>9. CASE UNCHANGED vars
  BY <1>9, Keeps DEF vars, history
<1> QED BY <1>1, <1>2, <1>3, <1>4, <1>5, <1>6, <1>7, <1>8, <1>9 DEF Next

\* Every call of the venue - entry, cancel, settlement, print, end of tape,
\* adoption - moves each order along OrderLife's cycle or leaves it where it is.
THEOREM Implementation == Spec => ImplementsLife
<1>1. Init => Life!Init
  BY DEF Init, Life!Init, NoOrder
<1> QED BY <1>1, BaseHolds, NextLife, PTL DEF Spec, ImplementsLife, Life!Spec

-----------------------------------------------------------------------------
(* The fills of one print. *)

\* What the hits of the first k orders got is what the print has lost by then.
LEMMA SpentSoFar ==
    ASSUME Base, NEW t \in Trades, NEW ts \in Stamps, NEW left \in Passes(t),
           OnTrade(t, ts, left)
    PROVE  Total([j \in Ids |-> atPx'[j] - atPx[j]]) <= t.qty
<1> DEFINE w == [j \in Ids |-> atPx'[j] - atPx[j]]
<1>1. TypeOK /\ TypeOK' /\ MaxOrders \in Nat /\ t.qty \in Nat
  BY MatchingAssumption, TradeType DEF Base, Trade, TradeRec
<1>2. /\ left \in [0..MaxOrders -> 0..t.qty] /\ left[0] = t.qty
      /\ \A j \in Ids : left[j] = left[j - 1] - Used(j, t, left[j - 1])
  BY DEF Passes
<1>3. w \in Seq(Int) /\ DOMAIN w = 1..MaxOrders /\ Len(w) = MaxOrders
  <2>1. \A j \in 1..MaxOrders : atPx'[j] - atPx[j] \in Int
    <3>1. \A j \in Ids : atPx'[j] \in Nat /\ atPx[j] \in Nat
      BY <1>1 DEF TypeOK
    <3>2. \A a, b \in Nat : a - b \in Int
      OBVIOUS
    <3> QED BY <3>1, <3>2 DEF Ids
  <2>2. w = [j \in 1..MaxOrders |-> atPx'[j] - atPx[j]]
    BY DEF Ids
  <2> HIDE DEF w
  <2> QED BY <1>1, <2>1, <2>2
<1>4. ASSUME NEW j \in Ids
      PROVE  w[j] <= Used(j, t, left[j - 1]) /\ left[j - 1] \in Nat /\ left[j] \in Nat
  <2>1. left[j - 1] \in Nat /\ left[j] \in Nat
    BY <1>1, <1>2 DEF Ids
  <2>2. CASE j \in Hits(t)
    <3>1. w[j] = Take(j, left[j - 1])
      <4>1. atPx'[j] = atPx[j] + Take(j, left[j - 1])
        BY <1>1, <2>2, Traded
      <4>2. atPx[j] \in Nat /\ Take(j, left[j - 1]) \in Nat
        BY <1>1, <2>1, TakeBounds DEF TypeOK
      <4> QED BY <4>1, <4>2
    <3>2. Used(j, t, left[j - 1]) = Min2(left[j - 1], ahead[j] + remaining[j])
      BY <2>2 DEF Used
    <3>3. ahead[j] \in Nat /\ remaining[j] \in Nat
      BY <1>1 DEF TypeOK
    <3> HIDE DEF w
    <3> QED BY <2>1, <3>1, <3>2, <3>3 DEF Take, Min2
  <2>3. CASE j \notin Hits(t)
    <3>1. atPx'[j] = atPx[j] /\ atPx[j] \in Nat
      BY <1>1, <2>3, Traded DEF TypeOK
    <3>2. w[j] = 0 /\ Used(j, t, left[j - 1]) = 0
      BY <2>3, <3>1 DEF Used
    <3> QED BY <2>1, <3>2
  <2> QED BY <2>1, <2>2, <2>3
<1> HIDE DEF w
<1>5. PICK p : IsSumOf(p, w) /\ Total(w) = p[Len(w)]
  BY <1>3, TotalByPrefixes
<1>6. /\ p \in [0..MaxOrders -> Int] /\ p[0] = 0
      /\ \A k \in 1..MaxOrders : p[k] = p[k - 1] + w[k]
  BY <1>3, <1>5 DEF IsSumOf
<1> DEFINE S == {k \in Nat : k <= MaxOrders => p[k] <= t.qty - left[k]}
<1>7. 0 \in S
  BY <1>1, <1>2, <1>6
<1>8. ASSUME NEW k \in Nat, k \in S PROVE k + 1 \in S
  <2> SUFFICES ASSUME k + 1 <= MaxOrders PROVE p[k + 1] <= t.qty - left[k + 1]
    OBVIOUS
  <2> DEFINE j == k + 1
  <2>1. j \in Ids /\ j \in 1..MaxOrders /\ j - 1 = k /\ k <= MaxOrders /\ k \in 0..MaxOrders
    BY <1>1 DEF Ids
  <2>2. p[k] <= t.qty - left[k]
    BY <1>8, <2>1
  <2> HIDE DEF j, S
  <2>3. p[j] = p[k] + w[j]
    BY <1>6, <2>1
  <2>4. left[j] = left[k] - Used(j, t, left[k]) /\ w[j] <= Used(j, t, left[k])
        /\ left[k] \in Nat /\ left[j] \in Nat
    BY <1>2, <1>4, <2>1
  <2>5. w[j] \in Int /\ p[k] \in Int /\ Used(j, t, left[k]) \in Int
    <3>1. w[j] \in Int /\ p[k] \in Int
      <4>1. \A h \in 1..MaxOrders : w[h] \in Int
        BY <1>3
      <4> QED BY <4>1, <1>6, <2>1
    <3>2. Used(j, t, left[k]) \in Int
      BY <1>1, <2>1, <2>4 DEF Used, Min2, TypeOK
    <3> QED BY <3>1, <3>2
  <2> QED BY <1>1, <2>2, <2>3, <2>4, <2>5 DEF j
<1>9. \A k \in Nat : k \in S
  <2> HIDE DEF S
  <2> QED BY <1>7, <1>8, Induction
<1>10. p[MaxOrders] <= t.qty - left[MaxOrders] /\ left[MaxOrders] \in Nat /\ p[MaxOrders] \in Int
  BY <1>1, <1>2, <1>6, <1>9
<1> QED BY <1>1, <1>3, <1>5, <1>10 DEF w

\* A print that reaches an order has gone through every older one it hits first.
LEMMA LeftFalls ==
    ASSUME TypeOK, NEW t \in Trades, NEW left \in Passes(t), NEW j \in Ids, NEW i \in Ids, j < i
    PROVE  left[i - 1] <= left[j]
<1>1. /\ left \in [0..MaxOrders -> 0..t.qty] /\ t.qty \in Nat /\ MaxOrders \in Nat
      /\ \A k \in Ids : left[k] = left[k - 1] - Used(k, t, left[k - 1])
  BY MatchingAssumption DEF Passes, TradeRec
<1>2. ASSUME NEW k \in Ids PROVE left[k] <= left[k - 1]
  <2>1. left[k - 1] \in Nat /\ left[k] \in Nat /\ ahead[k] \in Nat /\ remaining[k] \in Nat
    BY <1>1, QueueTypes DEF Ids
  <2>2. Used(k, t, left[k - 1]) \in Nat
    BY <2>1 DEF Used, Min2
  <2>3. left[k] = left[k - 1] - Used(k, t, left[k - 1])
    BY <1>1
  <2> QED BY <2>1, <2>2, <2>3
<1> DEFINE S == {d \in Nat : j + d <= MaxOrders => left[j + d] <= left[j]}
<1>3. j \in Nat /\ j \in 1..MaxOrders /\ left[j] \in Nat
  BY <1>1 DEF Ids
<1>4. 0 \in S
  BY <1>3
<1>5. ASSUME NEW d \in Nat, d \in S PROVE d + 1 \in S
  <2> SUFFICES ASSUME j + (d + 1) <= MaxOrders PROVE left[j + (d + 1)] <= left[j]
    OBVIOUS
  <2> DEFINE k == j + (d + 1)
  <2>1. k \in Ids /\ k - 1 = j + d /\ j + d <= MaxOrders
    BY <1>1, <1>3 DEF Ids
  <2>2. left[j + d] <= left[j]
    BY <1>5, <2>1
  <2>3. left[k] <= left[j + d]
    BY <1>2, <2>1
  <2>4. left[k] \in Nat /\ left[j + d] \in Nat
    BY <1>1, <2>1 DEF Ids
  <2> HIDE DEF k
  <2> QED BY <1>3, <2>2, <2>3, <2>4 DEF k
<1>6. \A d \in Nat : d \in S
  <2> HIDE DEF S
  <2> QED BY <1>4, <1>5, Induction
<1>7. (i - 1) - j \in Nat /\ j + ((i - 1) - j) = i - 1 /\ i - 1 <= MaxOrders
  BY <1>1, <1>3 DEF Ids
<1>8. (i - 1) - j \in S
  BY <1>6, <1>7
<1> QED BY <1>7, <1>8

LEMMA TradeOldest ==
    ASSUME Base, NEW t \in Trades, NEW ts \in Stamps, NEW left \in Passes(t),
           OnTrade(t, ts, left), NEW j \in Ids, NEW i \in Ids, j < i,
           atPx'[i] > atPx[i], SameQueue(j, i), joined[i] => joined[j]
    PROVE  place'[j] = "filled"
<1>1. TypeOK /\ t \in TradeRec
  BY MatchingAssumption DEF Base
<1>2. i \in Hits(t)
  <2>1. i \notin Hits(t) => atPx'[i] = atPx[i]
    BY <1>1, Traded
  <2>2. atPx[i] \in Nat
    BY <1>1, QueueTypes
  <2> QED BY <2>1, <2>2
<1>3. j \in Hits(t)
  BY <1>2 DEF Hits, HitAtPrice, In, SameQueue
<1> DEFINE l == left[i - 1]
           m == left[j - 1]
           k == left[j]
<1>4. l \in Nat /\ m \in Nat /\ ahead[i] \in Nat /\ ahead[j] \in Nat /\ remaining[j] \in Nat
  BY <1>1, LeftIsNat, QueueTypes
<1>5. l > ahead[i]
  <2>1. atPx'[i] = atPx[i] + Take(i, l) /\ atPx[i] \in Nat
    BY <1>1, <1>2, Traded, QueueTypes
  <2>2. Take(i, l) # 0
    BY <2>1
  <2> HIDE DEF l
  <2> QED BY <1>1, <1>4, <2>2, TakeBounds
<1>6. l <= k
  BY <1>1, LeftFalls
<1>7. k = m - Min2(m, ahead[j] + remaining[j]) /\ k \in Int
  <2>1. k = m - Used(j, t, m)
    BY DEF Passes
  <2>2. Used(j, t, m) = Min2(m, ahead[j] + remaining[j])
    BY <1>3 DEF Used
  <2> HIDE DEF m, k, l
  <2> QED BY <1>4, <2>1, <2>2 DEF Min2
<1>8. Taken(t, left)[j] = Take(j, m) /\ remaining[j] > 0
  <2>1. place[j] = "working"
    BY DEF SameQueue
  <2> QED BY <1>1, <1>3, <2>1, TakenBounds DEF Base, Conservation
<1> HIDE DEF l, m, k
<1>9. m > ahead[j] + remaining[j]
  BY <1>4, <1>5, <1>6, <1>7 DEF Min2
<1>10. Take(j, m) = remaining[j]
  BY <1>4, <1>9 DEF Take, Min2
<1> QED BY <1>8, <1>10 DEF OnTrade

\* Own orders that rest at one price share the prints there: all the fills the
\* queue gives out on a print add up to no more than the print, and an order
\* gets none of it before every older one there has been filled.
THEOREM PrintSharedHolds == Spec => PrintShared
<1> DEFINE Shared == \A i \in Ids : atPx'[i] > atPx[i] =>
                        /\ Total([j \in Ids |-> atPx'[j] - atPx[j]]) <= since'[i] - since[i]
                        /\ \A j \in Ids : j < i /\ SameQueue(j, i) => place'[j] # "working"
<1>1. Base /\ AgeInv /\ [Next]_vars => [Shared]_vars
  <2> SUFFICES ASSUME Base, AgeInv, [Next]_vars PROVE Shared
    OBVIOUS
  <2>1. CASE UNCHANGED atPx
    <3>1. \A i \in Ids : atPx[i] \in Nat /\ atPx'[i] = atPx[i]
      BY <2>1 DEF Base, TypeOK
    <3>2. \A i \in Ids : ~(atPx'[i] > atPx[i])
      BY <3>1
    <3> QED BY <3>2
  <2>2. ASSUME NEW t \in Trades, NEW ts \in Stamps, Trade(t, ts) PROVE Shared
    <3>1. PICK left \in Passes(t) : OnTrade(t, ts, left)
      BY <2>2 DEF Trade
    <3>2. Total([j \in Ids |-> atPx'[j] - atPx[j]]) <= t.qty
      BY <3>1, SpentSoFar
    <3>3. ASSUME NEW i \in Ids, atPx'[i] > atPx[i] PROVE t.qty = since'[i] - since[i]
      <4>1. i \in Hits(t)
        <5>1. i \notin Hits(t) => atPx'[i] = atPx[i]
          BY <3>1, Traded DEF Base
        <5>2. atPx[i] \in Nat
          BY DEF Base, TypeOK
        <5> QED BY <3>3, <5>1, <5>2
      <4>2. since'[i] = since[i] + t.qty
        BY <3>1, <4>1, Traded DEF Base
      <4>3. since[i] \in Nat /\ t.qty \in Nat
        BY MatchingAssumption DEF Base, TypeOK, TradeRec
      <4> QED BY <4>2, <4>3
    <3>4. ASSUME NEW i \in Ids, atPx'[i] > atPx[i], NEW j \in Ids, j < i, SameQueue(j, i)
          PROVE  place'[j] # "working"
      <4>1. joined[i] => joined[j]
        BY <3>4 DEF AgeInv, Ranked
      <4> QED BY <3>1, <3>4, <4>1, TradeOldest
    <3> DEFINE sum == Total([j \in Ids |-> atPx'[j] - atPx[j]])
    <3> HIDE DEF sum
    <3>5. \A i \in Ids : atPx'[i] > atPx[i] => sum <= since'[i] - since[i]
      BY <3>2, <3>3 DEF sum
    <3> QED BY <3>4, <3>5 DEF sum
  <2>3. (\A t \in Trades, ts \in Stamps : ~Trade(t, ts)) => UNCHANGED atPx
    BY DEF Next, vars, history, Enqueue, Cancel, Sync, Settle, SettleInbox, SettleOutcome,
           Quote, Flush, AdoptFirst, Adopt, AdoptOutcome
  <2> QED BY <2>1, <2>2, <2>3
<1> QED BY <1>1, BaseHolds, AgeHolds, PTL DEF Spec, PrintShared
=============================================================================
