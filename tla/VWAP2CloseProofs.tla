--------------------------- MODULE VWAP2CloseProofs ---------------------------
(***************************************************************************)
(* Proofs about VWAP2Close.tla: until OnStop there is one order at a time, *)
(* its position is one entry, and stop and target hang on that entry; and  *)
(* the streaks that make it enter are those of the tape.                   *)
(***************************************************************************)
EXTENDS VWAP2Close, OperatorProofs

-----------------------------------------------------------------------------
(* The one order, which is the last one the venue issued: where it can be. *)

Idle == Live = {} /\ outbox = <<>> /\ batch = <<>>

Waits ==
    /\ nextID \in Ids /\ place[nextID] \in {"delayed", "inbox"}
    /\ Live = {nextID} /\ outbox = <<>> /\ batch = <<>>

\* Its report: it has filled whole.
Report(e) ==
    /\ nextID \in Ids /\ e.id = nextID /\ e.status = "filled"
    /\ e.qty = order[nextID].qty /\ e.px \in Int

Returning ==
    /\ Live = {} /\ batch = <<>>
    /\ \E e, t : outbox = <<[ev |-> e, ready |-> t]>> /\ Report(e)

Arrived ==
    /\ Live = {} /\ outbox = <<>>
    /\ \E e : batch = <<e>> /\ Report(e)

\* What it asks for: an entry, or the whole position back.
Asks ==
    LET o == order[nextID]
        q == books.pos.qty
    IN /\ o.kind = "market"
       /\ q = 0 => o.qty = Qty
       /\ q # 0 => o.qty = AbsQty(q) /\ o.side = (IF q < 0 THEN "bid" ELSE "ask")

\* What a call of the venue does for it: nothing, or it fills.
Nothing == raw' = {} /\ \A i \in Ids : place'[i] = place[i]
Fills ==
    /\ Waits /\ \E e : raw' = {e} /\ Report(e)
    /\ \A i \in Ids : place'[i] = IF i = nextID THEN "filled" ELSE place[i]

LEMMA LiveIs == \A i \in Ids : i \in Live <=> place[i] \in {"delayed", "inbox", "working"}
  BY DEF Live, In

LEMMA SettleAnswers ==
    ASSUME place \in [Ids -> Places], order \in [Ids -> OrderRec], quote \in QuoteRec,
           Idle \/ Returning \/ Waits,
           Waits => hasQ /\ order[nextID].kind = "market",
           NEW ts, Settle(ts)
    PROVE  /\ Nothing \/ Fills
           /\ place' \in [Ids -> Places]
           /\ UNCHANGED <<nextID, order, hasQ, quote>>
<1> DEFINE D     == In("inbox") \cup Due(ts)
           fills == {i \in D : hasQ /\ Crosses(order[i], quote)}
           rests == {i \in D : hasQ /\ ~Crosses(order[i], quote)}
           lost  == {i \in D : ~hasQ}
<1>1. /\ place' = [i \in Ids |-> CASE i \in fills -> "filled"
                                   [] i \in rests -> "working"
                                   [] i \in lost  -> "rejected"
                                   [] OTHER       -> place[i]]
      /\ raw' = {Filled(i, FarPx(order[i], quote), order[i].qty, ts, 1) : i \in fills}
                \cup {Rejected(i) : i \in lost}
      /\ UNCHANGED <<nextID, order, hasQ, quote>>
  BY DEF Settle, SettleInbox, SettleOutcome, Rests
<1>2. D \subseteq Live /\ D \subseteq Ids
  BY DEF Due, In, Live
<1> HIDE DEF D
<1>3. CASE D = {}
  <2>1. fills = {} /\ rests = {} /\ lost = {}
    BY <1>3
  <2>2. raw' = {} /\ \A i \in Ids : place'[i] = place[i]
    BY <1>1, <2>1
  <2>3. place' \in [Ids -> Places]
    BY <1>1, <2>1, <2>2
  <2> QED BY <1>1, <2>2, <2>3 DEF Nothing
<1>4. CASE D # {}
  <2>1. Waits /\ D = {nextID} /\ nextID \in Ids
    BY <1>2, <1>4 DEF Idle, Returning, Waits
  <2>2. fills = {nextID} /\ rests = {} /\ lost = {}
    BY <2>1 DEF Crosses
  <2> DEFINE e == Filled(nextID, FarPx(order[nextID], quote), order[nextID].qty, ts, 1)
  <2>3. raw' = {e}
    BY <1>1, <2>2
  <2>4. FarPx(order[nextID], quote) \in Int
    BY <2>1 DEF FarPx, QuoteRec
  <2>5. Report(e)
    BY <2>1, <2>4 DEF Report, Filled
  <2>6. \A i \in Ids : place'[i] = IF i = nextID THEN "filled" ELSE place[i]
    BY <1>1, <2>2
  <2>7. place' \in [Ids -> Places]
    BY <1>1, <2>2, <2>6 DEF Places, Ended
  <2> HIDE DEF e
  <2> QED BY <1>1, <2>1, <2>3, <2>5, <2>6, <2>7 DEF Fills
<1> QED BY <1>3, <1>4

LEMMA QuoteAnswers ==
    ASSUME place \in [Ids -> Places], NEW q, NEW ts, Quote(q, ts)
    PROVE  /\ Nothing /\ place' \in [Ids -> Places]
           /\ quote' = q /\ hasQ' = TRUE /\ UNCHANGED <<nextID, order>>
  BY DEF Quote, Nothing

\* With nothing working a print passes by.
LEMMA TradeAnswers ==
    ASSUME place \in [Ids -> Places], Idle \/ Returning \/ Waits,
           NEW t, NEW ts, Trade(t, ts)
    PROVE  /\ Nothing /\ place' \in [Ids -> Places]
           /\ UNCHANGED <<nextID, order, hasQ, quote>>
<1>1. PICK left \in Passes(t) : OnTrade(t, ts, left)
  BY DEF Trade
<1>2. In("working") = {}
  <2>1. \A i \in Ids : place[i] # "working"
    BY LiveIs DEF Idle, Returning, Waits
  <2> QED BY <2>1 DEF In
<1>3. Through(t) = {} /\ Hits(t) = {}
  BY <1>2 DEF Through, Hits
<1> DEFINE taken == Taken(t, left)
<1>4. \A i \in Ids : taken[i] = 0
  BY <1>3 DEF Taken
<1>5. /\ place' = [i \in Ids |-> IF taken[i] > 0 /\ taken[i] = remaining[i]
                                 THEN "filled" ELSE place[i]]
      /\ raw' = {Filled(i, t.px, taken[i], ts, IF i \in Through(t) THEN 1 ELSE 2) :
                    i \in {j \in Ids : taken[j] > 0}}
      /\ UNCHANGED <<nextID, order, hasQ, quote>>
  BY <1>1 DEF OnTrade
<1> HIDE DEF taken
<1>6. raw' = {} /\ \A i \in Ids : place'[i] = place[i]
  BY <1>4, <1>5
<1>7. place' \in [Ids -> Places]
  BY <1>5, <1>6
<1> QED BY <1>5, <1>6, <1>7 DEF Nothing

-----------------------------------------------------------------------------
(* What is handed back of it.                                              *)

LEMMA InOrderNone == InOrder({}) = <<>>
<1>1. Cardinality({}) = 0
  BY FS_EmptySet
<1>2. \A s \in [1..0 -> {}] : s = <<>>
  OBVIOUS
<1>3. \E s \in [1..Cardinality({}) -> {}] :
          \A j, k \in DOMAIN s : j < k => Before(s[j], s[k])
  <2>1. <<>> \in [1..0 -> {}]
    OBVIOUS
  <2> QED BY <1>1, <2>1
<1> QED BY <1>1, <1>2, <1>3 DEF InOrder

LEMMA InOrderOne == \A e : InOrder({e}) = <<e>>
<1> TAKE e
<1>1. Cardinality({e}) = 1
  BY FS_Singleton
<1>2. \A s \in [1..1 -> {e}] : s = <<e>>
  OBVIOUS
<1>3. <<e>> \in [1..1 -> {e}]
  OBVIOUS
<1>4. \A j, k \in 1..1 : ~(j < k)
  OBVIOUS
<1>5. \E s \in [1..Cardinality({e}) -> {e}] :
          \A j, k \in DOMAIN s : j < k => Before(s[j], s[k])
  BY <1>1, <1>3, <1>4
<1> QED BY <1>1, <1>2, <1>5 DEF InOrder

LEMMA PickOne ==
    ASSUME NEW h, NEW P, P \subseteq {1}
    PROVE  Pick(<<h>>, P) = IF P = {} THEN <<>> ELSE <<h>>
<1>1. <<h>> \in Seq({h}) /\ DOMAIN <<h>> = {1}
  OBVIOUS
<1>2. Pick(<<h>>, P) \in Seq({h}) /\ Len(Pick(<<h>>, P)) = Cardinality(P)
  BY <1>1, PickFacts
<1>3. P = {} \/ P = {1}
  OBVIOUS
<1>4. Cardinality({}) = 0 /\ Cardinality({1}) = 1
  BY FS_EmptySet, FS_Singleton
<1> DEFINE p == Pick(<<h>>, P)
<1> HIDE DEF p
<1>5. p \in Seq({h}) /\ (Len(p) = 0 => p = <<>>) /\ (Len(p) = 1 => p = <<h>>)
  BY <1>2 DEF p
<1> QED BY <1>2, <1>3, <1>4, <1>5 DEF p

LEMMA PickNone == Pick(<<>>, {}) = <<>>
<1>1. Cardinality({}) = 0
  BY FS_EmptySet
<1> QED BY <1>1 DEF Pick

LEMMA EvsOne == Evs(<<>>) = <<>> /\ \A e, t : Evs(<<[ev |-> e, ready |-> t]>>) = <<e>>
  BY DEF Evs

\* holdOrEmit keeps to one place: in the outbox or in the batch.
LEMMA HoldOne ==
    ASSUME outbox = <<>> \/ (raw' = {} /\ \E e, t : outbox = <<[ev |-> e, ready |-> t]>>),
           raw' = {} \/ \E e : raw' = {e},
           NEW ts, HoldOrEmit(ts)
    PROVE  /\ raw' = {} /\ outbox = <<>> => outbox' = <<>> /\ batch' = <<>>
           /\ \A e, t : outbox = <<[ev |-> e, ready |-> t]>> \/ (outbox = <<>> /\ raw' = {e}) =>
                 \/ outbox' = <<>> /\ batch' = <<e>>
                 \/ batch' = <<>> /\ \E u : outbox' = <<[ev |-> e, ready |-> u]>>
<1> DEFINE fresh == InOrder(raw')
           d     == [k \in DOMAIN fresh |-> [ev |-> fresh[k], ready |-> ts + Response]]
           held  == IF Response = 0 THEN outbox ELSE outbox \o d
           emit  == IF Response = 0 THEN fresh ELSE <<>>
           D     == DueOf(held, ts)
           C     == DOMAIN held \ D
<1>1. batch' = emit \o Evs(Pick(held, D)) /\ outbox' = Pick(held, C)
  BY DEF HoldOrEmit
<1>2. raw' = {} => fresh = <<>> /\ d = <<>>
  BY InOrderNone
<1>3. \A e : raw' = {e} => fresh = <<e>> /\ d = <<[ev |-> e, ready |-> ts + Response]>>
  <2> TAKE e
  <2> HAVE raw' = {e}
  <2>1. fresh = <<e>>
    BY InOrderOne
  <2> HIDE DEF fresh
  <2> QED BY <2>1
<1> HIDE DEF fresh, d
<1>4. held = <<>> =>
         /\ D = {} /\ C = {} /\ Pick(held, D) = <<>> /\ Pick(held, C) = <<>>
         /\ Evs(Pick(held, D)) = <<>>
  <2> HAVE held = <<>>
  <2>1. DOMAIN held = {}
    OBVIOUS
  <2>2. D = {} /\ C = {}
    BY <2>1 DEF DueOf
  <2> HIDE DEF held, D, C
  <2> QED BY <2>2, PickNone, EvsOne
<1>5. \A e, t : held = <<[ev |-> e, ready |-> t]>> =>
         \/ Evs(Pick(held, D)) = <<e>> /\ Pick(held, C) = <<>>
         \/ Evs(Pick(held, D)) = <<>> /\ Pick(held, C) = held
  <2> TAKE e, t
  <2> HAVE held = <<[ev |-> e, ready |-> t]>>
  <2>1. DOMAIN held = {1}
    OBVIOUS
  <2>2. D \subseteq {1} /\ C \subseteq {1} /\ (D = {} <=> C # {})
    BY <2>1 DEF DueOf
  <2> HIDE DEF D, C
  <2>3. Pick(held, D) = (IF D = {} THEN <<>> ELSE held) /\ Pick(held, C) = (IF C = {} THEN <<>> ELSE held)
    BY <2>2, PickOne
  <2>4. Evs(held) = <<e>> /\ Evs(<<>>) = <<>>
    BY EvsOne
  <2> HIDE DEF held
  <2> QED BY <2>2, <2>3, <2>4
<1> HIDE DEF D, C
<1>6. ASSUME raw' = {}, outbox = <<>>
      PROVE  outbox' = <<>> /\ batch' = <<>>
  <2>1. held = <<>> /\ emit = <<>>
    BY <1>2, <1>6
  <2> QED BY <1>1, <1>4, <2>1
<1>7. ASSUME NEW e, NEW t, outbox = <<[ev |-> e, ready |-> t]>> \/ (outbox = <<>> /\ raw' = {e})
      PROVE  \/ outbox' = <<>> /\ batch' = <<e>>
             \/ batch' = <<>> /\ \E u : outbox' = <<[ev |-> e, ready |-> u]>>
  <2>1. CASE outbox = <<[ev |-> e, ready |-> t]>>
    <3>1. raw' = {}
      BY <2>1
    <3>2. held = <<[ev |-> e, ready |-> t]>> /\ emit = <<>>
      BY <1>2, <2>1, <3>1
    <3> HIDE DEF held, emit
    <3>3. <<>> \o <<e>> = <<e>> /\ <<>> \o <<>> = <<>>
      OBVIOUS
    <3> QED BY <1>1, <1>5, <3>2, <3>3
  <2>2. CASE outbox = <<>> /\ raw' = {e}
    <3>1. fresh = <<e>> /\ d = <<[ev |-> e, ready |-> ts + Response]>>
      BY <1>3, <2>2
    <3>2. CASE Response = 0
      <4>1. held = <<>> /\ emit = <<e>>
        BY <2>2, <3>1, <3>2
      <4> HIDE DEF held, emit
      <4>2. <<e>> \o <<>> = <<e>>
        OBVIOUS
      <4> QED BY <1>1, <1>4, <4>1, <4>2
    <3>3. CASE Response # 0
      <4>1. held = <<[ev |-> e, ready |-> ts + Response]>> /\ emit = <<>>
        BY <2>2, <3>1, <3>3
      <4> HIDE DEF held, emit
      <4>2. <<>> \o <<e>> = <<e>> /\ <<>> \o <<>> = <<>>
        OBVIOUS
      <4> QED BY <1>1, <1>5, <4>1, <4>2
    <3> QED BY <3>2, <3>3
  <2> QED BY <1>7, <2>1, <2>2
<1> QED BY <1>6, <1>7

\* A call that answers leaves the order in one place, and with no order says
\* nothing.
LEMMA AnswerKeepsOne ==
    ASSUME Idle \/ Waits \/ Returning, Nothing \/ Fills, nextID' = nextID, order' = order,
           NEW ts, HoldOrEmit(ts)
    PROVE  /\ Idle => Idle'
           /\ Waits \/ Returning => (Waits \/ Returning \/ Arrived)'
<1>1. /\ raw' = {} /\ outbox = <<>> => outbox' = <<>> /\ batch' = <<>>
      /\ \A e, t : outbox = <<[ev |-> e, ready |-> t]>> \/ (outbox = <<>> /\ raw' = {e}) =>
            \/ outbox' = <<>> /\ batch' = <<e>>
            \/ batch' = <<>> /\ \E u : outbox' = <<[ev |-> e, ready |-> u]>>
  <2>1. outbox = <<>> \/ (raw' = {} /\ \E e, t : outbox = <<[ev |-> e, ready |-> t]>>)
    BY DEF Idle, Waits, Returning, Nothing, Fills
  <2>2. raw' = {} \/ \E e : raw' = {e}
    BY DEF Nothing, Fills
  <2> QED BY <2>1, <2>2, HoldOne
<1>2. \A e : Report(e) => Report(e)'
  BY DEF Report
<1>3. ASSUME Nothing
      PROVE  Live' = Live /\ \A i \in Ids : place'[i] = place[i]
  <2>1. \A i \in Ids : place'[i] = place[i]
    BY <1>3 DEF Nothing
  <2> QED BY <2>1 DEF Live, In
<1>4. ASSUME Fills
      PROVE  Live' = {}
  <2>1. /\ \A i \in Ids : place'[i] = IF i = nextID THEN "filled" ELSE place[i]
        /\ \A i \in Ids : i # nextID => i \notin Live
    BY <1>4 DEF Fills, Waits
  <2>2. \A i \in Ids : place'[i] \notin {"delayed", "inbox", "working"}
    BY <2>1, LiveIs
  <2> QED BY <2>2 DEF Live, In
<1>5. ASSUME Idle PROVE Idle'
  <2>1. Nothing /\ raw' = {}
    BY <1>5 DEF Idle, Waits, Fills, Nothing
  <2> QED BY <1>1, <1>3, <1>5, <2>1 DEF Idle
<1>6. ASSUME \E e, t : /\ Report(e)
                       /\ outbox = <<[ev |-> e, ready |-> t]>> \/ (outbox = <<>> /\ raw' = {e}),
             Live' = {}
      PROVE  (Returning \/ Arrived)'
  <2>1. PICK e, t : /\ Report(e)
                    /\ outbox = <<[ev |-> e, ready |-> t]>> \/ (outbox = <<>> /\ raw' = {e})
    BY <1>6
  <2>2. \/ outbox' = <<>> /\ batch' = <<e>>
        \/ batch' = <<>> /\ \E u : outbox' = <<[ev |-> e, ready |-> u]>>
    BY <1>1, <2>1
  <2>3. Report(e)'
    BY <1>2, <2>1
  <2> QED BY <1>6, <2>2, <2>3 DEF Returning, Arrived
<1>7. ASSUME Returning PROVE (Returning \/ Arrived)'
  <2>1. Nothing /\ Live = {} /\ \E e, t : outbox = <<[ev |-> e, ready |-> t]>> /\ Report(e)
    BY <1>7 DEF Returning, Waits, Fills
  <2> QED BY <1>3, <1>6, <2>1
<1>8. ASSUME Waits, Nothing PROVE Waits'
  BY <1>1, <1>3, <1>8 DEF Waits, Nothing
<1>9. ASSUME Fills PROVE (Returning \/ Arrived)'
  <2>1. outbox = <<>> /\ \E e : raw' = {e} /\ Report(e)
    BY <1>9 DEF Fills, Waits
  <2> QED BY <1>4, <1>6, <1>9, <2>1
<1> QED BY <1>5, <1>7, <1>8, <1>9

-----------------------------------------------------------------------------
(* What a report does to the books.                                        *)

LEMMA DivExact ==
    ASSUME NEW x \in Int, NEW d \in Nat \ {0}
    PROVE  Quotient(x * d, d) = x
<1>1. (x * d) \div d = x /\ (-(x * d)) \div d = -x
  OBVIOUS
<1> QED BY <1>1 DEF Quotient

LEMMA FillFlat ==
    ASSUME NEW p \in PosRec, NEW f \in FillRec, f.qty > 0
    PROVE  /\ p.qty = 0 => /\ Apply(p, f).qty = Signed(f)
                           /\ Apply(p, f).avgPx = f.px
           /\ p.qty # 0 /\ f.qty = AbsQty(p.qty) /\ f.side = (IF p.qty < 0 THEN "bid" ELSE "ask")
                => Apply(p, f).qty = 0
<1>1. /\ p.qty \in Int /\ p.avgPx \in Int /\ f.qty \in Nat /\ f.px \in Int
      /\ Signed(f) \in Int /\ AbsQty(Signed(f)) = f.qty
  BY SignedFacts DEF PosRec, FillRec
<1>2. ASSUME p.qty = 0
      PROVE  Apply(p, f).qty = Signed(f) /\ Apply(p, f).avgPx = f.px
  <2>1. Apply(p, f) = Extend(p, f)
    BY <1>1, <1>2 DEF Apply
  <2>2. p.qty + Signed(f) = Signed(f) /\ p.avgPx * AbsQty(p.qty) = 0
    BY <1>1, <1>2 DEF AbsQty
  <2>3. Extend(p, f).qty = Signed(f)
    BY <2>2 DEF Extend
  <2>4. Extend(p, f).avgPx = Quotient(0 + f.px * f.qty, f.qty)
    BY <1>1, <2>2 DEF Extend
  <2>5. Quotient(f.px * f.qty, f.qty) = f.px
    <3>1. f.qty \in Nat \ {0} /\ f.px \in Int
      BY <1>1
    <3> QED BY ONLY <3>1, DivExact
  <2>6. 0 + f.px * f.qty = f.px * f.qty
    BY <1>1
  <2> QED BY <2>1, <2>3, <2>4, <2>5, <2>6
<1>3. ASSUME p.qty # 0, f.qty = AbsQty(p.qty), f.side = (IF p.qty < 0 THEN "bid" ELSE "ask")
      PROVE  Apply(p, f).qty = 0
  <2>1. ~SameWay(p.qty, Signed(f)) /\ ~(f.qty <= 0)
    BY <1>1, <1>3 DEF SameWay, Signed
  <2>2. Apply(p, f) = Close(p, f)
    BY <1>3, <2>1 DEF Apply
  <2>3. Close(p, f).qty = IF Signed(f) > 0 THEN f.qty - AbsQty(p.qty) ELSE -(f.qty - AbsQty(p.qty))
    BY <1>1, <1>3 DEF Close, AbsQty
  <2>4. f.qty - AbsQty(p.qty) = 0
    BY <1>1, <1>3
  <2> QED BY <1>1, <2>2, <2>3, <2>4
<1> QED BY <1>2, <1>3

-----------------------------------------------------------------------------
(* The invariant.                                                          *)

\* Where Run is, and where apply returns to.  After OnStop no way leads back.
Control ==
    /\ pc \in {"boot", "start", "drain", "next", "match", "event", "settle", "apply",
               "order", "stop", "flush", "done", "failed"}
    /\ ret \in {"start", "match", "cascade", "stop", "flush"}
    /\ ret \in {"stop", "flush"} => pc \in {"drain", "flush", "apply", "order", "done", "failed"}
    /\ pc \in {"boot", "start"} => ret = "start"
    /\ pc = "drain" => ret \in {"start", "stop"}
    /\ pc = "flush" => ret = "stop"
    /\ called \in BOOLEAN /\ (called => pc \in Callbacks)

Running == ~Stopping

VenueTyped ==
    /\ nextID \in Nat /\ order \in [Ids -> OrderRec] /\ place \in [Ids -> Places]
    /\ hasQ \in BOOLEAN /\ quote \in QuoteRec
StrategyTyped ==
    /\ DOMAIN strat = DOMAIN NewStrategy
    /\ strat.working \in BOOLEAN /\ strat.want \in {"none", "bid", "ask"}
EventTyped ==
    /\ ev.kind \in {"none", "quote", "trade"}
    /\ ev.kind = "quote" => ev.q \in Quotes
    /\ ev.kind = "trade" => ev.t \in Trades

\* Between callbacks, and while OnOrder has not looked at its report.
OneOrder ==
    IF Asked
    THEN /\ strat.working => (Waits \/ Returning \/ Arrived) /\ Asks
         /\ ~strat.working => Idle
         /\ books.pos.qty # 0 => strat.entry = books.pos.avgPx
    ELSE /\ Idle /\ strat.working /\ told.status = "filled"
         /\ books.pos.qty # 0 => told.px = books.pos.avgPx

OneEntry == books \in BooksRec /\ books.pos.qty \in {0, Qty, -Qty}

\* There is a quote before there is an order, so that none is refused for want
\* of one.
Quoted ==
    /\ strat.working \/ books.pos.qty # 0 => hasQ
    /\ ev.kind = "quote" /\ pc # "match" => hasQ

\* A report found by cascade is a fill, and the strategy sees the event again.
Route ==
    /\ batch # <<>> => pc = "apply"
    /\ ret = "cascade" /\ pc \in {"apply", "order"} => refill
    /\ ret = "start" => pc \notin {"apply", "order"}
    /\ ret = "start" /\ pc \in {"boot", "start", "drain"} =>
          ~strat.working /\ books.pos.qty = 0

Watched == ev.kind = "quote" /\ books.pos.qty # 0 /\ ~strat.working => ~Beyond(strat)
Seen == pc \in {"next", "settle"} \/ (pc = "event" /\ called)

Trading == /\ VenueTyped /\ StrategyTyped /\ EventTyped
           /\ OneOrder /\ OneEntry /\ Quoted /\ Route /\ (Seen => Watched)

VWInv == Control /\ (Running => Trading)

LEMMA InitVW == VWInit => VWInv
<1> SUFFICES ASSUME VWInit PROVE VWInv
  OBVIOUS
<1>1. /\ Init /\ outbox = <<>> /\ batch = <<>>
      /\ pc = "boot" /\ ret = "start" /\ ev = NoEvent /\ books = EmptyBooks
      /\ strat = NewStrategy /\ called = FALSE
  BY DEF VWInit, RInit, VInit
<1>2. Control
  BY <1>1 DEF Control
<1>3. VenueTyped
  <2>1. NoOrder \in OrderRec /\ NoQuote \in QuoteRec /\ "none" \in Places
    BY DEF NoOrder, OrderRec, Sides, NoQuote, QuoteRec, Places
  <2> QED BY <1>1, <2>1 DEF Init, VenueTyped
<1>4. StrategyTyped /\ strat.working = FALSE
  BY <1>1 DEF StrategyTyped, NewStrategy
<1>5. EventTyped /\ ev.kind = "none"
  BY <1>1 DEF EventTyped, NoEvent
<1>6. books \in BooksRec /\ books.pos.qty = 0
  BY <1>1, EmptyBooksFacts DEF EmptyBooks, Flat
<1>7. Idle
  BY <1>1 DEF Idle, Live, In, Init
<1> QED BY <1>1, <1>2, <1>3, <1>4, <1>5, <1>6, <1>7
      DEF VWInv, Trading, OneOrder, OneEntry, Quoted, Route, Watched, Asked

\* Nothing of the strategy and the venue has moved, only Run.
LEMMA RunsOn ==
    ASSUME Trading, UNCHANGED <<vars, outbox, batch, books, ev, strat>>
    PROVE  /\ VenueTyped' /\ StrategyTyped' /\ EventTyped' /\ OneEntry'
           /\ (Idle <=> Idle') /\ (Waits <=> Waits') /\ (Returning <=> Returning')
           /\ (Arrived <=> Arrived') /\ (Asks <=> Asks') /\ (Watched <=> Watched')
  BY DEF Trading, VenueTyped, StrategyTyped, EventTyped, OneEntry, Idle, Waits, Returning,
         Arrived, Asks, Watched, Report, Live, In, Beyond, vars

LEMMA ControlStep ==
    ASSUME Control, VWNext
    PROVE  Control' /\ (Running' => Running)
<1> USE DEF Running, Stopping
<1>1. CASE OnStart
  BY <1>1 DEF Control, OnStart, Body, Leaves, rvars, control, Callbacks
<1>2. CASE OnEvent
  <2>1. pc = "event" /\ called' = TRUE /\ pc' = pc /\ ret' = ret
    BY <1>2 DEF OnEvent, Body, Act, Leaves, Flatten, Sends, Submit, rvars, control
  <2> QED BY <2>1 DEF Control, Callbacks
<1>3. CASE OnOrder
  BY <1>3 DEF Control, OnOrder, Body, Leaves, rvars, control, Callbacks
<1>4. CASE OnStop
  <2>1. pc = "stop" /\ called' = TRUE /\ pc' = pc /\ ret' = ret
    BY <1>4 DEF OnStop, Body, Leaves, Flatten, Sends, Submit, rvars, control
  <2> QED BY <2>1 DEF Control, Callbacks
<1>5. CASE Returns
  BY <1>5 DEF Control, Returns, Return, Callbacks
<1>6. CASE Tells
  BY <1>6 DEF Control, Tells, ApplyEvent, GoTo, Callbacks
<1>7. CASE Reads
  BY <1>7 DEF Control, Reads, Observe, GoTo, vs, Callbacks
<1>8. CASE Runs
  <2>0. called' = called
    BY <1>8 DEF Runs, vs
  <2>1. CASE Start
    BY <2>0, <2>1 DEF Control, Start, GoTo, Callbacks
  <2>2. CASE Drain
    BY <2>0, <2>2 DEF Control, Drain, GoTo, Callbacks
  <2>3. CASE MatchResting
    BY <2>0, <2>3 DEF Control, MatchResting, Callbacks
  <2>4. CASE SettleCascade
    BY <2>0, <2>4 DEF Control, SettleCascade, Callbacks
  <2>5. CASE Eof
    BY <2>0, <2>5 DEF Control, Eof, GoTo, Callbacks
  <2>6. CASE FlushTail
    BY <2>0, <2>6 DEF Control, FlushTail, GoTo, Callbacks
  <2>7. CASE Applied
    <3>1. /\ pc = "apply" /\ ret' = ret
          /\ pc' = CASE ret \in {"start", "stop"} -> "drain"
                     [] ret = "match" -> "event"
                     [] ret = "flush" -> "done"
                     [] ret = "cascade" /\ ~refill -> "next"
                     [] ret = "cascade" /\ refill /\ iter' < MaxCascade -> "event"
                     [] OTHER -> "failed"
      BY <2>7 DEF Applied
    <3>2. ret = "cascade" => pc' \in {"next", "event", "failed"}
      BY <3>1
    <3> QED BY <2>0, <3>1, <3>2 DEF Control, Callbacks
  <2> QED BY <1>8, <2>1, <2>2, <2>3, <2>4, <2>5, <2>6, <2>7 DEF Runs
<1> QED BY <1>1, <1>2, <1>3, <1>4, <1>5, <1>6, <1>7, <1>8 DEF VWNext

-----------------------------------------------------------------------------
(* The callbacks.                                                          *)

\* What OnEvent does before it acts leaves the order and the entry alone.
LEMMA BeforeActing ==
    ASSUME StrategyTyped, NEW e
    PROVE  LET s == AfterTrade(strat, e) IN
           /\ DOMAIN s = DOMAIN NewStrategy /\ s.working = strat.working /\ s.entry = strat.entry
           /\ s.want \in {"none", "bid", "ask"}
<1> USE DEF NewStrategy
<1> DEFINE closed == IF strat.bar # <<>> /\ strat.bar[1].start # e.ts
                     THEN OnClosed(strat, strat.bar[1].close) ELSE strat
           dated == IF strat.lastTD # 0 /\ strat.lastTD # DateOf[e.ts]
                    THEN [closed EXCEPT !.vwap = NoVwap, !.above = 0, !.below = 0, !.want = "none"]
                    ELSE closed
           s == AfterTrade(strat, e)
<1>1. /\ DOMAIN closed = DOMAIN NewStrategy /\ closed.working = strat.working
      /\ closed.entry = strat.entry /\ closed.want = strat.want
  BY DEF StrategyTyped, OnClosed
<1>2. s = IF e.ts \notin Rth THEN strat
          ELSE [dated EXCEPT !.bar = <<[start |-> e.ts, close |-> e.t.px]>>,
                             !.lastTD = DateOf[e.ts], !.vwap = WithTrade(@, e.t)]
  BY DEF AfterTrade
<1> HIDE DEF closed, s
<1>3. /\ DOMAIN dated = DOMAIN NewStrategy /\ dated.working = strat.working
      /\ dated.entry = strat.entry /\ dated.want \in {"none", "bid", "ask"}
  BY <1>1 DEF StrategyTyped
<1> HIDE DEF dated
<1>4. /\ DOMAIN s = DOMAIN NewStrategy /\ s.working = strat.working
      /\ s.entry = strat.entry /\ s.want \in {"none", "bid", "ask"}
  BY <1>2, <1>3 DEF StrategyTyped
<1> QED BY <1>4 DEF s

LEMMA LatchFacts ==
    ASSUME NEW s, DOMAIN s = DOMAIN NewStrategy, s.want \in {"none", "bid", "ask"}
    PROVE  /\ DOMAIN Latch(s) = DOMAIN NewStrategy /\ Latch(s).working = s.working
           /\ Latch(s).entry = s.entry /\ Latch(s).want \in {"none", "bid", "ask"}
  BY DEF Latch, NewStrategy

\* An order sent with none on its way waits at the venue.
LEMMA SendsOne ==
    ASSUME Trading, Asked, ~strat.working, NEW s, DOMAIN s = DOMAIN NewStrategy,
           s.want \in {"none", "bid", "ask"}, s.entry = strat.entry,
           NEW side \in Sides, NEW n \in Nat, hasQ,
           books.pos.qty = 0 => n = Qty,
           books.pos.qty # 0 => n = AbsQty(books.pos.qty)
                                /\ side = (IF books.pos.qty < 0 THEN "bid" ELSE "ask"),
           Sends(s, side, n)
    PROVE  /\ VenueTyped' /\ StrategyTyped' /\ strat'.working /\ strat'.entry = strat.entry
           /\ Waits' /\ Asks'
           /\ UNCHANGED <<pc, ret, ev, books, refill, hasQ, quote, batch>>
<1> DEFINE i == nextID + 1
           o == [side |-> side, kind |-> "market", px |-> 0, qty |-> n]
<1>1. /\ nextID < MaxOrders /\ nextID' = i
      /\ order' = [order EXCEPT ![i] = o]
      /\ place' = [place EXCEPT ![i] = IF Entry = 0 THEN "inbox" ELSE "delayed"]
      /\ UNCHANGED <<hasQ, quote, outbox, batch, pc, ret, ev, books, refill>>
      /\ strat' = [s EXCEPT !.working = TRUE]
  BY DEF Sends, Submit, VEnqueue, Enqueue, NoReply
<1>2. Idle /\ order \in [Ids -> OrderRec] /\ place \in [Ids -> Places] /\ nextID \in Nat
  BY DEF Trading, OneOrder, VenueTyped
<1>3. i \in Ids /\ i \in Nat
  BY <1>1, <1>2, MatchingAssumption DEF Ids
<1>4. o \in OrderRec
  BY DEF OrderRec, Sides
<1> HIDE DEF o, i
<1>5. order'[i] = o /\ order' \in [Ids -> OrderRec]
  BY <1>1, <1>2, <1>3, <1>4
<1>6. /\ place'[i] \in {"inbox", "delayed"} /\ place' \in [Ids -> Places]
      /\ \A j \in Ids : j # i => place'[j] = place[j]
  BY <1>1, <1>2, <1>3 DEF Places
<1>7. \A j \in Ids : place[j] \notin {"delayed", "inbox", "working"}
  BY <1>2, LiveIs DEF Idle
<1>8. Live' = {i}
  BY <1>3, <1>6, <1>7 DEF Live, In
<1>9. Waits'
  BY <1>1, <1>2, <1>3, <1>6, <1>8 DEF Waits, Idle
<1>10. Asks'
  BY <1>1, <1>5 DEF Asks, o
<1>11. VenueTyped'
  BY <1>1, <1>3, <1>5, <1>6 DEF VenueTyped, Trading
<1>12. StrategyTyped' /\ strat'.working /\ strat'.entry = strat.entry
  BY <1>1 DEF StrategyTyped, NewStrategy
<1> QED BY <1>1, <1>9, <1>10, <1>11, <1>12

LEMMA ActStep ==
    ASSUME Control, Trading, pc = "event", called' = TRUE, NEW s, DOMAIN s = DOMAIN NewStrategy,
           s.want \in {"none", "bid", "ask"}, s.entry = strat.entry, s.working = strat.working,
           Act(s)
    PROVE  Trading'
<1> DEFINE q == books.pos.qty
<1>1. /\ Asked /\ strat.working \in BOOLEAN /\ q \in {0, Qty, -Qty} /\ Qty \in Nat \ {0}
      /\ OneOrder /\ OneEntry /\ Quoted /\ Route /\ VenueTyped /\ StrategyTyped /\ EventTyped
  BY VWAP2CloseAssumption DEF Asked, Trading, OneEntry, StrategyTyped
<1>2. ASSUME NEW z, DOMAIN z = DOMAIN NewStrategy, z.want \in {"none", "bid", "ask"},
             z.entry = strat.entry, z.working = strat.working, Leaves(z),
             ev.kind = "quote" /\ q # 0 /\ ~z.working => ~Beyond(z)
      PROVE  Trading'
  <2>1. /\ strat' = z /\ UNCHANGED <<vars, outbox, batch, books, ev, pc, ret, refill>>
    BY <1>2 DEF Leaves, rvars, venueVars, control
  <2>2. VenueTyped' /\ EventTyped' /\ OneEntry'
    BY <1>1, <2>1 DEF VenueTyped, EventTyped, OneEntry, vars
  <2>3. StrategyTyped'
    BY <1>1, <1>2, <2>1 DEF StrategyTyped
  <2>4. /\ Live' = Live /\ (Idle <=> Idle') /\ (Waits <=> Waits') /\ (Returning <=> Returning')
        /\ (Arrived <=> Arrived') /\ (Asks <=> Asks')
    BY <2>1 DEF Idle, Waits, Returning, Arrived, Asks, Report, Live, In, vars
  <2>5. OneOrder' /\ Quoted' /\ Route'
    BY <1>1, <1>2, <2>1, <2>4 DEF OneOrder, Asked, Quoted, Route, vars
  <2>6. Watched'
    BY <1>2, <2>1 DEF Watched, Beyond, vars
  <2> QED BY <2>2, <2>3, <2>5, <2>6 DEF Trading
<1>3. ASSUME ~strat.working, hasQ, NEW z, DOMAIN z = DOMAIN NewStrategy, z.want \in {"none", "bid", "ask"},
             z.entry = strat.entry, NEW side \in Sides, NEW n \in Nat,
             q = 0 => n = Qty,
             q # 0 => n = AbsQty(q) /\ side = (IF q < 0 THEN "bid" ELSE "ask"),
             Sends(z, side, n)
      PROVE  Trading'
  <2>1. /\ VenueTyped' /\ StrategyTyped' /\ strat'.working /\ strat'.entry = strat.entry
        /\ Waits' /\ Asks'
        /\ UNCHANGED <<pc, ret, ev, books, refill, hasQ, quote, batch>>
    BY <1>1, <1>3, SendsOne
  <2>2. EventTyped' /\ OneEntry'
    BY <1>1, <2>1 DEF EventTyped, OneEntry
  <2>3. OneOrder'
    BY <1>1, <2>1 DEF OneOrder, Asked
  <2>4. Quoted' /\ Route' /\ Watched'
    BY <1>1, <1>3, <2>1 DEF Quoted, Route, Watched, Control
  <2> QED BY <2>1, <2>2, <2>3, <2>4 DEF Trading
<1>4. CASE s.working
  BY <1>2, <1>4 DEF Act
<1>5. CASE ~s.working /\ q # 0
  <2>1. CASE ev.kind = "quote" /\ hasQ /\ Beyond(s)
    <3>1. Sends(s, IF q < 0 THEN "bid" ELSE "ask", AbsQty(q))
      BY <1>5, <2>1 DEF Act, Flatten
    <3>2. AbsQty(q) \in Nat /\ (IF q < 0 THEN "bid" ELSE "ask") \in Sides
      BY <1>1 DEF AbsQty, Sides
    <3> QED BY <1>3, <1>5, <2>1, <3>1, <3>2
  <2>2. CASE ~(ev.kind = "quote" /\ hasQ /\ Beyond(s))
    <3>1. Leaves(s)
      BY <1>5, <2>2 DEF Act
    <3>2. ev.kind = "quote" => hasQ
      BY <1>1 DEF Quoted
    <3> QED BY <1>2, <2>2, <3>1, <3>2
  <2> QED BY <2>1, <2>2
<1>6. CASE ~s.working /\ q = 0
  <2> DEFINE z == Latch(s)
  <2>1. /\ DOMAIN z = DOMAIN NewStrategy /\ z.working = s.working
        /\ z.entry = s.entry /\ z.want \in {"none", "bid", "ask"}
    BY LatchFacts
  <2>2. IF z.want = "none" \/ ev.kind # "quote" THEN Leaves(z) ELSE Sends(z, z.want, Qty)
    BY <1>6 DEF Act
  <2> HIDE DEF z
  <2>3. CASE z.want = "none" \/ ev.kind # "quote"
    BY <1>2, <1>6, <2>1, <2>2, <2>3
  <2>4. CASE ~(z.want = "none" \/ ev.kind # "quote")
    <3>1. hasQ /\ z.want \in Sides /\ Qty \in Nat
      BY <1>1, <2>1, <2>4 DEF Quoted, Sides
    <3> QED BY <1>3, <1>6, <2>1, <2>2, <2>4, <3>1
  <2> QED BY <2>3, <2>4
<1> QED BY <1>4, <1>5, <1>6

LEMMA OnEventStep ==
    ASSUME Control, Trading, OnEvent
    PROVE  Trading'
<1> DEFINE s == IF ev.kind = "trade" THEN AfterTrade(strat, ev) ELSE strat
<1>1. pc = "event" /\ called' = TRUE /\ Act(s)
  BY DEF OnEvent, Body
<1>2. /\ DOMAIN s = DOMAIN NewStrategy /\ s.working = strat.working /\ s.entry = strat.entry
      /\ s.want \in {"none", "bid", "ask"}
  BY BeforeActing DEF Trading, StrategyTyped
<1> HIDE DEF s
<1> QED BY <1>1, <1>2, ActStep

LEMMA OnStartStep ==
    ASSUME Control, Trading, OnStart
    PROVE  Trading'
<1>1. /\ pc = "start" /\ strat' = NewStrategy /\ UNCHANGED <<vars, outbox, batch, books, ev, pc, ret, refill>>
  BY DEF OnStart, Body, Leaves, rvars, venueVars, control
<1>2. ~strat.working /\ books.pos.qty = 0 /\ ret = "start"
  BY <1>1 DEF Control, Trading, Route
<1>3. VenueTyped' /\ EventTyped' /\ OneEntry'
  BY <1>1 DEF Trading, VenueTyped, EventTyped, OneEntry, vars
<1>4. StrategyTyped' /\ strat'.working = FALSE
  BY <1>1 DEF StrategyTyped, NewStrategy
<1>5. Idle /\ Idle'
  <2>1. Idle
    BY <1>1, <1>2 DEF Trading, OneOrder, Asked
  <2> QED BY <1>1, <2>1 DEF Idle, Live, In, vars
<1> QED BY <1>1, <1>2, <1>3, <1>4, <1>5
       DEF Trading, OneOrder, Quoted, Route, Seen, Asked, vars

LEMMA OnOrderStep ==
    ASSUME Control, Trading, OnOrder
    PROVE  Trading'
<1>1. /\ pc = "order" /\ ~called /\ called' = TRUE /\ strat' = AfterOrder(strat, told)
      /\ UNCHANGED <<vars, outbox, batch, books, ev, pc, ret, refill>>
  BY DEF OnOrder, Body, Leaves, rvars, venueVars, control
<1>2. /\ Idle /\ strat.working /\ told.status = "filled"
      /\ books.pos.qty # 0 => told.px = books.pos.avgPx
  BY <1>1 DEF Trading, OneOrder, Asked
<1>3. VenueTyped' /\ EventTyped' /\ OneEntry'
  BY <1>1 DEF Trading, VenueTyped, EventTyped, OneEntry, vars
<1>4. /\ StrategyTyped' /\ strat'.working = FALSE
      /\ books.pos.qty # 0 => strat'.entry = told.px
  BY <1>1, <1>2 DEF AfterOrder, Trading, StrategyTyped, NewStrategy
<1>5. Idle'
  BY <1>1, <1>2 DEF Idle, Live, In, vars
<1> QED BY <1>1, <1>2, <1>3, <1>4, <1>5
       DEF Trading, OneOrder, Quoted, Route, Seen, Asked, vars

LEMMA ReturnsStep ==
    ASSUME Control, Trading, Returns, Running'
    PROVE  Trading'
<1>1. /\ pc \in Callbacks /\ called /\ called' = FALSE
      /\ pc' = CASE pc \in {"start", "stop"} -> "drain"
                 [] pc = "event" -> "settle"
                 [] pc = "order" -> "apply"
      /\ ret' = IF pc \in {"start", "stop"} THEN pc ELSE ret
      /\ UNCHANGED <<vars, outbox, batch, books, ev, refill, strat, told>>
  BY DEF Returns, Return, venueVars
<1>2. pc # "stop"
  BY <1>1 DEF Running, Stopping
<1>3. /\ VenueTyped' /\ StrategyTyped' /\ EventTyped' /\ OneEntry'
      /\ (Idle <=> Idle') /\ (Waits <=> Waits') /\ (Returning <=> Returning')
      /\ (Arrived <=> Arrived') /\ (Asks <=> Asks') /\ (Watched <=> Watched')
  BY <1>1, RunsOn
<1>4. OneOrder'
  BY <1>1, <1>2, <1>3 DEF Trading, OneOrder, Asked, Callbacks
<1>5. Quoted'
  BY <1>1, <1>2 DEF Trading, Quoted, Callbacks, vars
<1>6. Route'
  BY <1>1, <1>2 DEF Trading, Route, Callbacks, Control
<1>7. Seen' => Watched'
  <2>1. pc' # "next" /\ pc' # "event"
    BY <1>1, <1>2 DEF Callbacks
  <2>2. pc' = "settle" => Seen
    BY <1>1, <1>2 DEF Callbacks, Seen
  <2> QED BY <1>3, <2>1, <2>2 DEF Seen, Trading
<1> QED BY <1>3, <1>4, <1>5, <1>6, <1>7 DEF Trading

LEMMA TellsStep ==
    ASSUME Control, Trading, Tells
    PROVE  Trading'
<1>1. /\ pc = "apply" /\ batch # <<>> /\ pc' = "order" /\ told' = Head(batch) /\ batch' = Tail(batch)
      /\ books' = IF Head(batch).status = "filled" THEN Book(books, FillOf(Head(batch))) ELSE books
      /\ UNCHANGED <<vars, outbox, ev, ret, refill, strat, called>>
  BY DEF Tells, ApplyEvent, GoTo
<1>2. called = FALSE /\ Asked
  BY <1>1 DEF Control, Asked, Callbacks
<1>3. strat.working /\ Arrived /\ Asks
  BY <1>1, <1>2 DEF Trading, OneOrder, StrategyTyped, Idle, Waits, Returning
<1>4. PICK e : batch = <<e>> /\ Report(e)
  BY <1>3 DEF Arrived
<1> DEFINE f == FillOf(e)
           o == order[nextID]
           p == books.pos
<1>5. told' = e /\ batch' = <<>> /\ books' = Book(books, f) /\ e.status = "filled"
  BY <1>1, <1>4 DEF Report
<1>6. /\ nextID \in Ids /\ o \in OrderRec /\ o.qty \in Nat /\ o.side \in {"bid", "ask"} /\ e.px \in Int
      /\ f = [side |-> o.side, px |-> e.px, qty |-> o.qty, fee |-> Fee * o.qty]
  BY <1>4 DEF Report, Trading, VenueTyped, OrderRec, Sides, FillOf
<1>7. Fee * o.qty \in Nat
  BY <1>6, RuntimeAssumption
<1>8. f \in FillRec /\ f.qty = o.qty /\ f.px = e.px /\ f.side = o.side
  BY <1>6, <1>7 DEF FillRec
<1>9. books \in BooksRec /\ p \in PosRec /\ p.qty \in {0, Qty, -Qty} /\ Qty \in Nat \ {0}
  BY VWAP2CloseAssumption DEF Trading, OneEntry, BooksRec
<1> HIDE DEF f, o
<1>10. books' \in BooksRec /\ books'.pos = Apply(p, f)
  BY <1>5, <1>8, <1>9, BookFacts
<1>11. /\ p.qty = 0 => o.qty = Qty
       /\ p.qty # 0 => o.qty = AbsQty(p.qty) /\ o.side = (IF p.qty < 0 THEN "bid" ELSE "ask")
  BY <1>3 DEF Asks, o
<1>12. f.qty > 0
  BY <1>6, <1>8, <1>9, <1>11 DEF AbsQty
<1>13. CASE p.qty = 0
  <2>1. books'.pos.qty = Signed(f) /\ books'.pos.avgPx = e.px
    BY <1>8, <1>9, <1>10, <1>12, <1>13, FillFlat
  <2>2. Signed(f) \in {Qty, -Qty}
    BY <1>8, <1>11, <1>13, SignedFacts
  <2> QED BY <2>1, <2>2, <1>1, <1>2, <1>3, <1>5, <1>10
         DEF Trading, VenueTyped, StrategyTyped, EventTyped, OneOrder, OneEntry, Quoted, Route, Seen,
             Asked, Arrived, Idle, Live, In, vars, Control
<1>14. CASE p.qty # 0
  <2>1. books'.pos.qty = 0
    BY <1>8, <1>9, <1>10, <1>11, <1>12, <1>14, FillFlat
  <2> QED BY <2>1, <1>1, <1>2, <1>3, <1>5, <1>10
         DEF Trading, VenueTyped, StrategyTyped, EventTyped, OneOrder, OneEntry, Quoted, Route, Seen,
             Asked, Arrived, Idle, Live, In, vars, Control
<1> QED BY <1>13, <1>14

-----------------------------------------------------------------------------
(* Run around them.                                                        *)

LEMMA ReadsStep ==
    ASSUME Control, Trading, Reads
    PROVE  Trading'
<1>1. PICK e \in FeedEvents : Observe(e)
  BY DEF Reads
<1>2. /\ pc = "next" /\ pc' = "match" /\ ev' = e
      /\ UNCHANGED <<nextID, hasQ, quote, order, place, outbox, batch, books, ret, refill, strat, called>>
  BY <1>1 DEF Reads, Observe, VSync, Sync, NoReply, GoTo, vs
<1>3. EventTyped'
  BY <1>2 DEF EventTyped, FeedEvents, MarketEvents
<1>4. /\ VenueTyped' /\ StrategyTyped' /\ OneEntry'
      /\ (Idle <=> Idle') /\ (Waits <=> Waits') /\ (Returning <=> Returning')
      /\ (Arrived <=> Arrived') /\ (Asks <=> Asks')
  BY <1>2 DEF Trading, VenueTyped, StrategyTyped, OneEntry, Idle, Waits, Returning,
              Arrived, Asks, Report, Live, In
<1>5. OneOrder' /\ Quoted' /\ Route' /\ ~Seen'
  BY <1>2, <1>4 DEF Trading, OneOrder, Asked, Quoted, Route, Seen
<1> QED BY <1>3, <1>4, <1>5 DEF Trading

\* A step of Run that calls the venue.
LEMMA AskingStep ==
    ASSUME Control, Trading, Asked, batch = <<>>, Nothing \/ Fills, NEW ts, HoldOrEmit(ts),
           place' \in [Ids -> Places], UNCHANGED <<nextID, order, books, ev, strat, called>>,
           hasQ' \in BOOLEAN, quote' \in QuoteRec, hasQ => hasQ', pc' # "order"
    PROVE  /\ VenueTyped' /\ StrategyTyped' /\ EventTyped' /\ OneOrder' /\ OneEntry'
           /\ ~strat.working => batch' = <<>>
           /\ strat.working \/ books.pos.qty # 0 => hasQ'
           /\ batch' # <<>> => Arrived'
<1>1. VenueTyped' /\ StrategyTyped' /\ EventTyped' /\ OneEntry'
  BY DEF Trading, VenueTyped, StrategyTyped, EventTyped, OneEntry
<1>2. /\ strat.working => (Waits \/ Returning) /\ Asks
      /\ ~strat.working => Idle
  BY DEF Trading, OneOrder, Arrived, StrategyTyped
<1>3. /\ Idle => Idle'
      /\ Waits \/ Returning => (Waits \/ Returning \/ Arrived)'
  BY <1>2, AnswerKeepsOne DEF Trading, StrategyTyped
<1>4. Asks' <=> Asks
  BY DEF Asks
<1>5. OneOrder'
  BY <1>2, <1>3, <1>4 DEF OneOrder, Asked, Trading
<1>6. (~strat.working => batch' = <<>>) /\ (batch' # <<>> => Arrived')
  BY <1>2, <1>3 DEF Idle, Waits, Returning, Trading, StrategyTyped
<1>7. strat.working \/ books.pos.qty # 0 => hasQ'
  BY DEF Trading, Quoted
<1> QED BY <1>1, <1>5, <1>6, <1>7

LEMMA SettlesStep ==
    ASSUME Control, Trading, Asked, batch = <<>>, NEW ts, VSettle(ts),
           UNCHANGED <<books, ev, strat, called>>, pc' # "order"
    PROVE  /\ VenueTyped' /\ StrategyTyped' /\ EventTyped' /\ OneOrder' /\ OneEntry'
           /\ ~strat.working => batch' = <<>>
           /\ strat.working \/ books.pos.qty # 0 => hasQ'
           /\ batch' # <<>> => Arrived'
           /\ UNCHANGED <<hasQ, quote>>
<1>1. /\ Idle \/ Returning \/ Waits
      /\ Waits => hasQ /\ order[nextID].kind = "market"
  BY DEF Trading, OneOrder, Quoted, Asks, Arrived, Waits, Idle, StrategyTyped
<1>2. Settle(ts) /\ HoldOrEmit(ts)
  BY DEF VSettle
<1>3. /\ place \in [Ids -> Places] /\ order \in [Ids -> OrderRec] /\ quote \in QuoteRec
      /\ hasQ \in BOOLEAN
  BY DEF Trading, VenueTyped
<1>4. (Nothing \/ Fills) /\ place' \in [Ids -> Places] /\ UNCHANGED <<nextID, order, hasQ, quote>>
  BY <1>1, <1>2, <1>3, SettleAnswers
<1> QED BY <1>2, <1>3, <1>4, AskingStep

\* Run gives up: nothing else moves.
LEMMA Fails ==
    ASSUME Trading, Asked, batch = <<>>, pc # "match", pc' = "failed",
           UNCHANGED <<vars, outbox, batch, books, ev, ret, refill, strat, called, told>>
    PROVE  Trading'
<1>1. /\ VenueTyped' /\ StrategyTyped' /\ EventTyped' /\ OneEntry'
      /\ (Idle <=> Idle') /\ (Waits <=> Waits') /\ (Returning <=> Returning')
      /\ (Arrived <=> Arrived') /\ (Asks <=> Asks')
  BY RunsOn
<1>2. OneOrder' /\ Quoted' /\ Route' /\ ~Seen'
  BY <1>1 DEF Trading, OneOrder, Asked, Quoted, Route, Seen, vars
<1> QED BY <1>1, <1>2 DEF Trading

LEMMA DrainStep ==
    ASSUME Control, Trading, Drain, UNCHANGED vs, Running, Running'
    PROVE  Trading'
<1>1. /\ pc = "drain" /\ ret = "start" /\ ret' = "start"
      /\ UNCHANGED <<books, ev, strat, called, refill>>
  BY DEF Drain, Control, Running, Stopping, vs
<1>2. Asked /\ ~strat.working /\ books.pos.qty = 0
  BY <1>1 DEF Asked, Trading, Route
<1>3. batch = <<>>
  BY <1>1 DEF Trading, Route
<1>4. CASE VSettle(ns) /\ pc' = IF batch' # <<>> THEN "apply" ELSE "next"
  <2>1. /\ VenueTyped' /\ StrategyTyped' /\ EventTyped' /\ OneOrder' /\ OneEntry'
        /\ ~strat.working => batch' = <<>>
        /\ UNCHANGED <<hasQ, quote>>
    BY <1>1, <1>2, <1>3, <1>4, SettlesStep
  <2>2. pc' = "next" /\ batch' = <<>>
    BY <1>2, <1>4, <2>1
  <2>3. Quoted'
    BY <1>1, <1>2, <2>1 DEF Quoted, Trading
  <2>4. Route' /\ Watched'
    BY <1>1, <1>2, <2>2 DEF Route, Watched
  <2> QED BY <2>1, <2>3, <2>4 DEF Trading
<1>5. CASE pc' = "failed" /\ UNCHANGED venueVars
  <2>1. UNCHANGED <<vars, outbox, batch, told>>
    BY <1>5 DEF venueVars, vs
  <2> QED BY <1>1, <1>2, <1>3, <1>5, <2>1, Fails
<1> QED BY <1>1, <1>4, <1>5 DEF Drain, GoTo

LEMMA MatchStep ==
    ASSUME Control, Trading, MatchResting, UNCHANGED vs
    PROVE  Trading'
<1>1. /\ pc = "match" /\ ret' = "match" /\ UNCHANGED <<books, ev, strat, called, refill>>
      /\ IF ev.kind = "quote" THEN VQuote(ev.q, ev.ts) ELSE VTrade(ev.t, ev.ts)
      /\ pc' = IF batch' = <<>> THEN "event" ELSE "apply"
  BY DEF MatchResting, vs
<1>2. Asked /\ batch = <<>> /\ ~called
  BY <1>1 DEF Asked, Trading, Route, Control, Callbacks
<1>3. /\ place \in [Ids -> Places] /\ quote \in QuoteRec /\ hasQ \in BOOLEAN
      /\ Idle \/ Returning \/ Waits
  BY <1>2 DEF Trading, VenueTyped, OneOrder, Arrived, StrategyTyped
<1>4. CASE ev.kind = "quote"
  <2>1. Quote(ev.q, ev.ts) /\ HoldOrEmit(ev.ts) /\ ev.q \in QuoteRec
    BY <1>1, <1>4, MatchingAssumption DEF VQuote, Trading, EventTyped
  <2>2. /\ Nothing /\ place' \in [Ids -> Places]
        /\ quote' = ev.q /\ hasQ' = TRUE /\ UNCHANGED <<nextID, order>>
    BY <1>3, <2>1, QuoteAnswers
  <2>3. /\ VenueTyped' /\ StrategyTyped' /\ EventTyped' /\ OneOrder' /\ OneEntry'
        /\ batch' # <<>> => Arrived'
    BY <1>1, <1>2, <2>1, <2>2, AskingStep
  <2>4. Quoted' /\ Route' /\ ~Seen'
    BY <1>1, <1>2, <2>2 DEF Quoted, Route, Seen
  <2> QED BY <2>3, <2>4 DEF Trading
<1>5. CASE ev.kind # "quote"
  <2>1. Trade(ev.t, ev.ts) /\ HoldOrEmit(ev.ts)
    BY <1>1, <1>5 DEF VTrade
  <2>2. /\ Nothing /\ place' \in [Ids -> Places] /\ UNCHANGED <<nextID, order, hasQ, quote>>
    BY <1>3, <2>1, TradeAnswers
  <2>3. /\ VenueTyped' /\ StrategyTyped' /\ EventTyped' /\ OneOrder' /\ OneEntry'
        /\ batch' # <<>> => Arrived'
        /\ strat.working \/ books.pos.qty # 0 => hasQ'
    BY <1>1, <1>2, <1>3, <2>1, <2>2, AskingStep
  <2>4. Quoted' /\ Route' /\ ~Seen'
    BY <1>1, <1>2, <1>5, <2>3 DEF Quoted, Route, Seen
  <2> QED BY <2>3, <2>4 DEF Trading
<1> QED BY <1>4, <1>5

LEMMA CascadeStep ==
    ASSUME Control, Trading, SettleCascade, UNCHANGED vs
    PROVE  Trading'
<1>1. /\ pc = "settle" /\ VSettle(ns) /\ ret' = "cascade"
      /\ refill' = (\E k \in DOMAIN batch' : batch'[k].status = "filled")
      /\ pc' = IF batch' = <<>> THEN "next" ELSE "apply"
      /\ UNCHANGED <<books, ev, strat, called>>
  BY DEF SettleCascade, vs
<1>2. Asked /\ batch = <<>> /\ Watched
  BY <1>1 DEF Asked, Trading, Route, Seen
<1>3. /\ VenueTyped' /\ StrategyTyped' /\ EventTyped' /\ OneOrder' /\ OneEntry'
      /\ strat.working \/ books.pos.qty # 0 => hasQ'
      /\ batch' # <<>> => Arrived'
      /\ UNCHANGED <<hasQ, quote>>
  BY <1>1, <1>2, SettlesStep
<1>4. batch' # <<>> => refill'
  <2>1. ASSUME batch' # <<>> PROVE \E k \in DOMAIN batch' : batch'[k].status = "filled"
    <3>1. PICK e : batch' = <<e>> /\ e.status = "filled"
      BY <1>3, <2>1 DEF Arrived, Report
    <3>2. 1 \in DOMAIN batch' /\ batch'[1] = e
      BY <3>1
    <3> QED BY <3>1, <3>2
  <2> QED BY <1>1, <2>1
<1>5. Quoted'
  BY <1>1, <1>3 DEF Trading, Quoted
<1>6. Route' /\ Watched'
  BY <1>1, <1>2, <1>3, <1>4 DEF Route, Watched, Beyond
<1> QED BY <1>3, <1>5, <1>6 DEF Trading

LEMMA AppliedStep ==
    ASSUME Control, Trading, Applied, UNCHANGED vs, Running, Running'
    PROVE  Trading'
<1>1. /\ pc = "apply" /\ batch = <<>> /\ ret' = ret
      /\ UNCHANGED <<vars, outbox, batch, books, ev, refill, strat, called, told>>
      /\ pc' = CASE ret \in {"start", "stop"} -> "drain"
                 [] ret = "match" -> "event"
                 [] ret = "flush" -> "done"
                 [] ret = "cascade" /\ ~refill -> "next"
                 [] ret = "cascade" /\ refill /\ iter' < MaxCascade -> "event"
                 [] OTHER -> "failed"
  BY DEF Applied, venueVars, vs
<1>2. ret \in {"match", "cascade"} /\ ~called /\ (ret = "cascade" => refill)
  BY <1>1 DEF Control, Running, Stopping, Trading, Route, Callbacks
<1>3. pc' \in {"event", "failed"}
  BY <1>1, <1>2
<1>4. /\ VenueTyped' /\ StrategyTyped' /\ EventTyped' /\ OneEntry'
      /\ (Idle <=> Idle') /\ (Waits <=> Waits') /\ (Returning <=> Returning')
      /\ (Arrived <=> Arrived') /\ (Asks <=> Asks')
  BY <1>1, RunsOn
<1>5. OneOrder' /\ Quoted' /\ Route' /\ ~Seen'
  BY <1>1, <1>2, <1>3, <1>4 DEF Trading, OneOrder, Asked, Quoted, Route, Seen, vars
<1> QED BY <1>4, <1>5 DEF Trading

LEMMA StartStep ==
    ASSUME Control, Trading, Start, UNCHANGED vs
    PROVE  Trading'
<1>1. /\ pc = "boot" /\ pc' = "start" /\ ret' = ret
      /\ UNCHANGED <<vars, outbox, batch, books, ev, refill, strat, called, told>>
  BY DEF Start, Control, GoTo, venueVars, vs
<1>2. /\ VenueTyped' /\ StrategyTyped' /\ EventTyped' /\ OneEntry'
      /\ (Idle <=> Idle') /\ (Waits <=> Waits') /\ (Returning <=> Returning')
      /\ (Arrived <=> Arrived') /\ (Asks <=> Asks')
  BY <1>1, RunsOn
<1>3. OneOrder' /\ Quoted' /\ Route' /\ ~Seen'
  BY <1>1, <1>2 DEF Trading, OneOrder, Asked, Quoted, Route, Seen, vars, Control
<1> QED BY <1>2, <1>3 DEF Trading

LEMMA NextVW == VWInv /\ [VWNext]_vwVars => VWInv'
<1> SUFFICES ASSUME VWInv, [VWNext]_vwVars PROVE VWInv'
  OBVIOUS
<1>1. CASE VWNext
  <2>1. Control' /\ (Running' => Running)
    BY <1>1, ControlStep DEF VWInv
  <2> SUFFICES ASSUME Running' PROVE Trading'
    BY <2>1 DEF VWInv
  <2>2. Control /\ Running /\ Trading
    BY <2>1 DEF VWInv
  <2>3. CASE OnStart \/ OnEvent \/ OnOrder
    BY <2>2, <2>3, OnStartStep, OnEventStep, OnOrderStep
  <2>4. ~OnStop
    <3>1. OnStop => pc = "stop"
      BY DEF OnStop, Body
    <3> QED BY <2>2, <3>1 DEF Running, Stopping
  <2>5. CASE Returns \/ Tells \/ Reads
    BY <2>2, <2>5, ReturnsStep, TellsStep, ReadsStep
  <2>6. CASE Runs
    <3>1. UNCHANGED vs
      BY <2>6 DEF Runs
    <3>2. ~Eof
      <4>1. Eof => pc' = "stop"
        BY DEF Eof, GoTo
      <4> QED BY <4>1 DEF Running, Stopping
    <3>3. ~FlushTail
      <4>1. FlushTail => ret' = "flush"
        BY DEF FlushTail
      <4> QED BY <4>1 DEF Running, Stopping
    <3> QED BY <2>2, <2>6, <3>1, <3>2, <3>3, StartStep, DrainStep, MatchStep, CascadeStep, AppliedStep
            DEF Runs
  <2> QED BY <1>1, <2>3, <2>4, <2>5, <2>6 DEF VWNext
<1>2. CASE UNCHANGED vwVars
  <2>1. UNCHANGED <<vars, outbox, batch, books, ev, strat, pc, ret, refill, called, told>>
    BY <1>2 DEF vwVars, vs, rvars, venueVars, control
  <2>2. Control' /\ (Running' <=> Running)
    BY <2>1 DEF VWInv, Control, Running, Stopping
  <2>3. ASSUME Trading PROVE Trading'
    <3>1. /\ VenueTyped' /\ StrategyTyped' /\ EventTyped' /\ OneEntry'
          /\ (Idle <=> Idle') /\ (Waits <=> Waits') /\ (Returning <=> Returning')
          /\ (Arrived <=> Arrived') /\ (Asks <=> Asks') /\ (Watched <=> Watched')
      BY <2>1, <2>3, RunsOn
    <3> QED BY <2>1, <2>3, <3>1 DEF Trading, OneOrder, Asked, Quoted, Route, Seen, vars
  <2> QED BY <2>2, <2>3 DEF VWInv
<1> QED BY <1>1, <1>2

LEMMA VWHolds == VWSpec => []VWInv
<1> QED BY InitVW, NextVW, PTL DEF VWSpec

-----------------------------------------------------------------------------
(* Trades in the order of the tape, and what the strategy's streaks count. *)

SeenRec == [ts : 0..MaxTs, px : Int, qty : Nat]
SumRec == [pv : Int, v : Int]
InTime(w) == \A i, j \in DOMAIN w : i <= j => w[i].ts <= w[j].ts
Tape(w) == /\ w \in Seq(SeenRec) /\ InTime(w)
           /\ \A i \in DOMAIN w : w[i].ts \in Rth

VwapRun(w) == FoldLeft(WithTrade, NoVwap, w)

\* The VWAP of the trades so far, trade by trade.
LEMMA VwapFold ==
  /\ VwapRun(<<>>) = NoVwap
  /\ \A w \in Seq(SeenRec), e \in SeenRec : VwapRun(Append(w, e)) = WithTrade(VwapRun(w), e)
<1> DEFINE F == [a \in SumRec |-> [x \in SeenRec |-> WithTrade(a, x)]]
<1>1. IsStep(F, SeenRec, SumRec) /\ \A a \in SumRec, x \in SeenRec : F[a][x] = WithTrade(a, x)
  <2>1. ASSUME NEW a \in SumRec, NEW x \in SeenRec PROVE WithTrade(a, x) \in SumRec
    <3>1. a.pv \in Int /\ a.v \in Int /\ x.px \in Int /\ x.qty \in Int /\ x.px * x.qty \in Int
      BY DEF SumRec, SeenRec
    <3> QED BY <3>1 DEF WithTrade, SumRec
  <2> QED BY <2>1 DEF IsStep
<1>b. NoVwap \in SumRec
  BY DEF NoVwap, SumRec
<1> DEFINE V == SumRec
           A == SeenRec
           zero == NoVwap
<1> HIDE DEF F, V, A, zero
<1>2. ASSUME NEW w \in Seq(SeenRec)
      PROVE  VwapRun(w) = RunOf(F, zero, w)
  <2> DEFINE Fix(it) == it = [part \in SUBSET DOMAIN w |->
                                IF part = {} THEN zero
                                ELSE LET x == Max(part) IN WithTrade(it[part \ {x}], w[x])]
             it == CHOOSE it : Fix(it)
  <2>1. \A part \in SUBSET DOMAIN w : part # {} => w[Max(part)] \in SeenRec
    <3>1. DOMAIN w = 1..Len(w) /\ Len(w) \in Nat /\ \A k \in 1..Len(w) : w[k] \in SeenRec
      OBVIOUS
    <3> QED BY <3>1, MaxFacts
  <2>2. \E f : Fix(f)
    <3>1. PICK f : Solves(f, F, SumRec, zero, w)
      BY <1>1, <1>b, FoldSolution DEF zero
    <3>2. ASSUME NEW part \in SUBSET DOMAIN w, part # {}
          PROVE  f[part] = WithTrade(f[part \ {Max(part)}], w[Max(part)])
      <4>1. f[part \ {Max(part)}] \in SumRec /\ f[part] = F[f[part \ {Max(part)}]][w[Max(part)]]
        BY <3>1, <3>2 DEF Solves
      <4> QED BY <4>1, <3>2, <2>1, <1>1
    <3>3. f = [part \in SUBSET DOMAIN w |-> f[part]] /\ f[{}] = zero
      BY <3>1 DEF Solves
    <3> QED BY <3>2, <3>3
  <2>3. Fix(it)
    <3> HIDE DEF Fix
    <3> QED BY <2>2, Zenon
  <2>4. VwapRun(w) = it[DOMAIN w]
    BY DEF VwapRun, FoldLeft, MapThenFoldSet, zero
  <2> HIDE DEF it
  <2>5. it[{}] = zero
    BY <2>3
  <2>6. ASSUME NEW part \in SUBSET DOMAIN w, part # {}, it[part \ {Max(part)}] \in SumRec
        PROVE  it[part] = F[it[part \ {Max(part)}]][w[Max(part)]]
    BY <2>3, <2>6, <2>1, <1>1
  <2>7. it[DOMAIN w] = RunOf(F, zero, w)
    <3> HIDE DEF Fix
    <3>1. IsStep(F, A, V) /\ zero \in V /\ w \in Seq(A)
      BY <1>1, <1>b DEF V, A, zero
    <3>2. StepsAlong(it, F, V, zero, w)
      BY <2>5, <2>6 DEF V, StepsAlong
    <3> QED BY <3>1, <3>2, FoldIsRun
  <2> QED BY <2>4, <2>7
<1>3. /\ RunOf(F, zero, <<>>) = zero
      /\ \A w \in Seq(SeenRec) : RunOf(F, zero, w) \in SumRec
      /\ \A w \in Seq(SeenRec), e \in SeenRec :
            RunOf(F, zero, Append(w, e)) = F[RunOf(F, zero, w)][e]
  BY <1>1, <1>b, RunFacts DEF zero
<1>4. <<>> \in Seq(SeenRec) /\ \A w \in Seq(SeenRec), e \in SeenRec : Append(w, e) \in Seq(SeenRec)
  OBVIOUS
<1>5. ASSUME NEW w \in Seq(SeenRec), NEW e \in SeenRec
      PROVE  VwapRun(Append(w, e)) = WithTrade(VwapRun(w), e)
  <2>1. Append(w, e) \in Seq(SeenRec) /\ RunOf(F, zero, w) \in SumRec
    BY <1>3, <1>4
  <2>2. /\ VwapRun(Append(w, e)) = RunOf(F, zero, Append(w, e))
        /\ VwapRun(w) = RunOf(F, zero, w)
    BY <2>1, <1>2
  <2>3. F[RunOf(F, zero, w)][e] = WithTrade(RunOf(F, zero, w), e)
    BY <2>1, <1>1
  <2>4. RunOf(F, zero, Append(w, e)) = F[RunOf(F, zero, w)][e]
    BY <1>3
  <2> QED BY <2>2, <2>3, <2>4
<1>6. VwapRun(<<>>) = NoVwap
  BY <1>2, <1>3, <1>4 DEF zero
<1> QED BY <1>5, <1>6

\* The property's operators, of a tape w and the count b of trades before the
\* last position closed.
TodayOf(w) == {i \in DOMAIN w : DateOf[w[i].ts] = DateOf[Last(w).ts]}
Until(w, t) == {i \in TodayOf(w) : w[i].ts <= t}
ValueOf(w, t) == Value(VwapRun(Pick(w, Until(w, t))))
CloseOf(w, t) == w[Max({i \in DOMAIN w : w[i].ts = t})].px
Beyonds(w, t) == {i \in DOMAIN w : w[i].ts > t}
ClosedOf(w, b) ==
    {t \in {w[i].ts : i \in TodayOf(w)} : Beyonds(w, t) # {} /\ Beyonds(w, t) \cap 1..b = {}}
AboveOf(w, b) == {t \in ClosedOf(w, b) : CloseOf(w, t) > ValueOf(w, t)}
BelowOf(w, b) == {t \in ClosedOf(w, b) : CloseOf(w, t) < ValueOf(w, t)}
StreakOf(C, G) == Cardinality({t \in C : \A u \in C : u >= t => u \in G})

\* The struct after the trades w.
Streaks(s, w, b) ==
    IF w = <<>>
    THEN s.bar = <<>> /\ s.lastTD = 0 /\ s.vwap = NoVwap /\ s.above = 0 /\ s.below = 0
    ELSE /\ s.bar = <<[start |-> Last(w).ts, close |-> Last(w).px]>>
         /\ s.lastTD = DateOf[Last(w).ts]
         /\ s.vwap = VwapRun(Pick(w, TodayOf(w)))
         /\ s.above = StreakOf(ClosedOf(w, b), AboveOf(w, b))
         /\ s.below = StreakOf(ClosedOf(w, b), BelowOf(w, b))

LEMMA StreakNone == \A G : StreakOf({}, G) = 0
<1>1. \A G : {t \in {} : \A u \in {} : u >= t => u \in G} = {}
  OBVIOUS
<1> QED BY <1>1, FS_EmptySet DEF StreakOf

AllBefore(C, t0) == C \in SUBSET (0..MaxTs) /\ \A t \in C : t < t0
SameOn(C, G, H) == \A t \in C : t \in G <=> t \in H

\* One more close: it goes on with the streak or breaks it.
LEMMA StreakGrows ==
  ASSUME NEW t0 \in 0..MaxTs, NEW C, AllBefore(C, t0), NEW G, NEW H, SameOn(C, G, H)
  PROVE  StreakOf(C \cup {t0}, H) = IF t0 \in H THEN StreakOf(C, G) + 1 ELSE 0
<1> DEFINE R == {t \in C : \A u \in C : u >= t => u \in G}
           Q == {t \in C \cup {t0} : \A u \in C \cup {t0} : u >= t => u \in H}
<1>1. MaxTs \in Nat /\ C \subseteq Int /\ t0 \in Int
  BY MatchingAssumption DEF AllBefore
<1> USE DEF AllBefore, SameOn
<1>2. IsFiniteSet(R) /\ t0 \notin R
  <2>1. R \subseteq 0..MaxTs
    OBVIOUS
  <2>2. IsFiniteSet(0..MaxTs)
    BY <1>1, FS_Interval
  <2>3. t0 \notin C
    BY <1>1
  <2> QED BY <2>1, <2>2, <2>3, FS_Subset
<1>3. CASE t0 \in H
  <2>1. Q = R \cup {t0}
    <3>1. ASSUME NEW t \in Q PROVE t \in R \cup {t0}
      BY <3>1
    <3>2. ASSUME NEW t \in R PROVE t \in Q
      BY <3>2, <1>3
    <3>3. t0 \in Q
      <4>1. \A u \in C \cup {t0} : u >= t0 => u = t0
        BY <1>1
      <4> QED BY <4>1, <1>3
    <3> QED BY <3>1, <3>2, <3>3
  <2> HIDE DEF R, Q
  <2>2. Cardinality(Q) = Cardinality(R) + 1
    BY <2>1, <1>2, FS_AddElement
  <2> QED BY <2>2, <1>3 DEF StreakOf, R, Q
<1>4. CASE t0 \notin H
  <2>1. Q = {}
    <3>1. ASSUME NEW t \in C \cup {t0} PROVE t0 >= t
      BY <1>1
    <3> QED BY <3>1, <1>4
  <2> HIDE DEF Q
  <2>2. Cardinality(Q) = 0
    BY <2>1, FS_EmptySet
  <2> QED BY <2>2, <1>4 DEF StreakOf, Q
<1> QED BY <1>3, <1>4

\* The last trade of a tape.
LEMMA TapeEnds ==
  ASSUME NEW w, Tape(w), w # <<>>
  PROVE  LET n == Len(w)
         IN /\ n \in Nat /\ n >= 1 /\ DOMAIN w = 1..n /\ Last(w) = w[n] /\ n \in TodayOf(w)
            /\ TodayOf(w) \subseteq 1..n /\ w \in Seq(SeenRec)
            /\ \A i \in 1..n : /\ w[i] \in SeenRec /\ w[i].ts \in 0..MaxTs /\ w[i].ts \in Int
                               /\ w[i].ts \in Rth /\ w[i].ts <= w[n].ts
<1> DEFINE n == Len(w)
<1>1. w \in Seq(SeenRec)
  BY DEF Tape
<1>2. n \in Nat /\ n >= 1 /\ DOMAIN w = 1..n /\ Last(w) = w[n]
  BY <1>1 DEF Last
<1>3. \A i \in 1..n : w[i] \in SeenRec
  BY <1>1, <1>2
<1>4. \A x \in SeenRec : x.ts \in 0..MaxTs
  BY DEF SeenRec
<1>5. n \in 1..n
  BY <1>2
<1>6. \A i \in 1..n : w[i].ts \in Rth /\ w[i].ts <= w[n].ts
  BY <1>2, <1>5 DEF Tape, InTime
<1>7. n \in TodayOf(w) /\ TodayOf(w) \subseteq 1..n
  BY <1>2, <1>5 DEF TodayOf
<1>8. \A i \in 1..n : w[i].ts \in 0..MaxTs /\ w[i].ts \in Int
  BY <1>3, <1>4
<1> QED BY <1>1, <1>2, <1>3, <1>6, <1>7, <1>8

\* A trade that comes after all of them.
Comes(w, x) == Tape(w) /\ x \in SeenRec /\ x.ts \in Rth /\ \A i \in DOMAIN w : w[i].ts <= x.ts

LEMMA TapeGrows ==
  ASSUME NEW w, NEW x, Comes(w, x)
  PROVE  LET n == Len(w)
             u == Append(w, x)
         IN /\ Tape(u) /\ u # <<>> /\ Len(u) = n + 1 /\ DOMAIN u = 1..(n + 1) /\ Last(u) = x
            /\ n \in Nat /\ DOMAIN w = 1..n /\ u[n + 1] = x /\ \A i \in 1..n : u[i] = w[i]
            /\ x.ts \in 0..MaxTs /\ x.ts \in Int
<1> DEFINE n == Len(w)
           u == Append(w, x)
<1>1. w \in Seq(SeenRec) /\ x \in SeenRec
  BY DEF Comes, Tape
<1>2. /\ n \in Nat /\ DOMAIN w = 1..n /\ u \in Seq(SeenRec) /\ Len(u) = n + 1
      /\ DOMAIN u = 1..(n + 1) /\ u[n + 1] = x /\ \A i \in 1..n : u[i] = w[i]
  BY <1>1
<1>3. x.ts \in 0..MaxTs /\ x.ts \in Int
  BY <1>1 DEF SeenRec
<1> HIDE DEF u, n
<1>4. u # <<>> /\ Last(u) = x
  BY <1>2 DEF Last
<1>5. \A i \in 1..(n + 1) : i \in 1..n \/ i = n + 1
  BY <1>2
<1>6. \A i \in 1..(n + 1) : u[i].ts \in Rth
  BY <1>2, <1>5 DEF Comes, Tape
<1>7. ASSUME NEW i \in 1..(n + 1), NEW j \in 1..(n + 1), i <= j PROVE u[i].ts <= u[j].ts
  <2>1. CASE j \in 1..n
    <3>1. i \in 1..n
      BY <1>2, <1>7, <2>1
    <3> QED BY <1>2, <1>7, <2>1, <3>1 DEF Comes, Tape, InTime
  <2>2. CASE j = n + 1 /\ i \in 1..n
    BY <1>2, <2>2 DEF Comes
  <2>3. CASE j = n + 1 /\ i = n + 1
    BY <1>2, <1>3, <2>3
  <2> QED BY <1>5, <2>1, <2>2, <2>3
<1>8. Tape(u)
  BY <1>2, <1>6, <1>7 DEF Tape, InTime
<1> QED BY <1>2, <1>3, <1>4, <1>8 DEF u, n

\* What comes after minute t, with one trade more.
LEMMA BeyondsGrow ==
  ASSUME NEW w, NEW x, Comes(w, x), NEW t \in Int
  PROVE  Beyonds(Append(w, x), t)
            = IF x.ts > t THEN Beyonds(w, t) \cup {Len(w) + 1} ELSE Beyonds(w, t)
<1> DEFINE n == Len(w)
           u == Append(w, x)
<1>1. /\ n \in Nat /\ DOMAIN w = 1..n /\ DOMAIN u = 1..(n + 1) /\ u[n + 1] = x
      /\ \A i \in 1..n : u[i] = w[i]
  BY TapeGrows
<1> HIDE DEF u, n
<1>2. 1..(n + 1) = (1..n) \cup {n + 1}
  BY <1>1
<1>3. Beyonds(u, t) = {i \in 1..n : w[i].ts > t} \cup {i \in {n + 1} : x.ts > t}
  BY <1>1, <1>2 DEF Beyonds
<1> QED BY <1>1, <1>3 DEF Beyonds, u, n

\* A closed minute is before the last trade, and is a minute of the tape.
LEMMA ClosedBefore ==
  ASSUME NEW w, Tape(w), w # <<>>, NEW b, NEW t \in ClosedOf(w, b)
  PROVE  t < Last(w).ts /\ t \in 0..MaxTs /\ \E i \in DOMAIN w : w[i].ts = t
<1> DEFINE n == Len(w)
<1>1. /\ n \in Nat /\ DOMAIN w = 1..n /\ Last(w) = w[n] /\ TodayOf(w) \subseteq 1..n /\ n \in 1..n
      /\ \A i \in 1..n : w[i].ts \in 0..MaxTs /\ w[i].ts \in Int /\ w[i].ts <= w[n].ts
  BY TapeEnds
<1> HIDE DEF n
<1>2. PICK i \in 1..n : w[i].ts = t
  BY <1>1 DEF ClosedOf
<1>3. PICK j \in 1..n : w[j].ts > t
  BY <1>1 DEF ClosedOf, Beyonds
<1>4. t < w[n].ts
  <2>1. t \in Int /\ w[j].ts \in Int /\ w[n].ts \in Int /\ w[j].ts <= w[n].ts
    BY <1>1, <1>2
  <2> QED BY <1>3, <2>1
<1> QED BY <1>1, <1>2, <1>4

\* The close of a minute: the last trade of it, which a later minute leaves alone.
LEMMA CloseLast ==
  ASSUME NEW w, Tape(w), w # <<>>
  PROVE  CloseOf(w, Last(w).ts) = Last(w).px
<1> DEFINE n == Len(w)
           S == {i \in DOMAIN w : w[i].ts = Last(w).ts}
<1>1. n \in Nat /\ n \in 1..n /\ DOMAIN w = 1..n /\ Last(w) = w[n]
  BY TapeEnds
<1>2. n \in S /\ S \subseteq 1..n
  BY <1>1
<1> HIDE DEF S
<1>3. Max(S) \in S /\ \A y \in S : y <= Max(S)
  BY <1>1, <1>2, MaxFacts
<1>4. Max(S) = n
  <2>1. Max(S) \in 1..n /\ n <= Max(S)
    BY <1>2, <1>3
  <2> QED BY <1>1, <2>1
<1> QED BY <1>1, <1>4 DEF CloseOf, S

LEMMA CloseKept ==
  ASSUME NEW w, NEW x, Comes(w, x), NEW t \in Int, t < x.ts, \E i \in DOMAIN w : w[i].ts = t
  PROVE  CloseOf(Append(w, x), t) = CloseOf(w, t)
<1> DEFINE n == Len(w)
           u == Append(w, x)
           S == {i \in DOMAIN w : w[i].ts = t}
           R == {i \in DOMAIN u : u[i].ts = t}
<1>1. /\ n \in Nat /\ DOMAIN w = 1..n /\ DOMAIN u = 1..(n + 1) /\ u[n + 1] = x
      /\ x.ts \in Int /\ \A i \in 1..n : u[i] = w[i]
  BY TapeGrows
<1> HIDE DEF u, n
<1>2. R = S
  <2>1. 1..(n + 1) = (1..n) \cup {n + 1}
    BY <1>1
  <2>2. u[n + 1].ts # t
    BY <1>1
  <2> QED BY <1>1, <2>1, <2>2
<1>3. S # {} /\ S \subseteq 1..n
  BY <1>1
<1> HIDE DEF S, R
<1>4. Max(S) \in 1..n
  <2>1. Max(S) \in S
    BY <1>1, <1>3, MaxFacts
  <2> QED BY <1>3, <2>1
<1>5. u[Max(R)] = w[Max(S)]
  BY <1>1, <1>2, <1>4
<1> QED BY <1>5 DEF CloseOf, S, R, u

\* The first trade of a date starts the VWAP, and no minute is closed.
LEMMA Alone ==
  ASSUME NEW w, NEW x, Comes(w, x), TodayOf(Append(w, x)) = {Len(w) + 1}, NEW b
  PROVE  /\ ClosedOf(Append(w, x), b) = {}
         /\ VwapRun(Pick(Append(w, x), TodayOf(Append(w, x)))) = WithTrade(NoVwap, x)
<1> DEFINE n == Len(w)
           u == Append(w, x)
<1>1. /\ n \in Nat /\ DOMAIN w = 1..n /\ DOMAIN u = 1..(n + 1) /\ u[n + 1] = x /\ x.ts \in Int
      /\ \A i \in 1..n : u[i] = w[i]
  BY TapeGrows
<1>2. Beyonds(u, x.ts) = {}
  <2>1. Beyonds(u, x.ts) = Beyonds(w, x.ts)
    <3>1. ~(x.ts > x.ts)
      BY <1>1
    <3> QED BY <1>1, <3>1, BeyondsGrow
  <2>2. \A i \in DOMAIN w : w[i].ts \in Int /\ w[i].ts <= x.ts
    <3>1. \A y \in SeenRec : y.ts \in Int
      BY DEF SeenRec
    <3>2. w \in Seq(SeenRec)
      BY DEF Comes, Tape
    <3>3. \A i \in DOMAIN w : w[i] \in SeenRec
      BY <3>2
    <3> QED BY <3>1, <3>3 DEF Comes
  <2>3. \A i \in DOMAIN w : ~(w[i].ts > x.ts)
    BY <1>1, <2>2
  <2> QED BY <2>1, <2>3 DEF Beyonds
<1>3. ClosedOf(u, b) = {}
  <2> HIDE DEF u, n
  <2>1. {u[i].ts : i \in TodayOf(u)} = {x.ts}
    BY <1>1 DEF u, n
  <2> QED BY <2>1, <1>2 DEF ClosedOf
<1>4. VwapRun(Pick(u, {n + 1})) = WithTrade(NoVwap, x)
  <2>1. w \in Seq(SeenRec) /\ x \in SeenRec
    BY DEF Comes, Tape
  <2>2. Pick(u, {} \cup {n + 1}) = Append(Pick(w, {}), x)
    BY <2>1, PickTakes
  <2>3. Pick(w, {}) = <<>>
    <3>1. Pick(w, {}) \in Seq(SeenRec) /\ Len(Pick(w, {})) = 0
      BY <2>1, PickFacts, FS_EmptySet
    <3> QED BY <3>1
  <2>4. {} \cup {n + 1} = {n + 1} /\ <<>> \in Seq(SeenRec)
    OBVIOUS
  <2> HIDE DEF u, n
  <2>5. Pick(u, {n + 1}) = Append(<<>>, x)
    BY <2>2, <2>3, <2>4
  <2>6. VwapRun(Append(<<>>, x)) = WithTrade(VwapRun(<<>>), x)
    BY <2>1, <2>4, VwapFold
  <2> QED BY <2>5, <2>6, VwapFold
<1> QED BY <1>3, <1>4

\* A trade of a later date is alone.
LEMMA NewDate ==
  ASSUME NEW w, NEW x, Comes(w, x), w # <<>>, DateOf[x.ts] # DateOf[Last(w).ts]
  PROVE  TodayOf(Append(w, x)) = {Len(w) + 1} /\ x.ts # Last(w).ts
<1> DEFINE n == Len(w)
           u == Append(w, x)
<1>1. /\ n \in Nat /\ DOMAIN w = 1..n /\ DOMAIN u = 1..(n + 1) /\ u[n + 1] = x /\ Last(u) = x
      /\ x.ts \in 0..MaxTs /\ \A i \in 1..n : u[i] = w[i]
  BY TapeGrows
<1>2. /\ n \in 1..n /\ Last(w) = w[n]
      /\ \A i \in 1..n : w[i].ts \in 0..MaxTs /\ w[i].ts \in Rth /\ w[i].ts <= w[n].ts
  BY TapeEnds DEF Comes
<1>3. x.ts \in Rth /\ w[n].ts <= x.ts
  BY <1>1, <1>2 DEF Comes
<1> HIDE DEF u, n
<1>4. ASSUME NEW i \in 1..n PROVE DateOf[w[i].ts] # DateOf[x.ts]
  <2>1. DateOf[w[i].ts] <= DateOf[w[n].ts] /\ DateOf[w[n].ts] <= DateOf[x.ts]
    BY <1>1, <1>2, <1>3, DatesAssumption
  <2>2. DateOf[w[i].ts] \in Nat /\ DateOf[w[n].ts] \in Nat /\ DateOf[x.ts] \in Nat
    BY <1>1, <1>2, DatesAssumption
  <2>3. DateOf[w[n].ts] # DateOf[x.ts]
    BY <1>2
  <2> QED BY <2>1, <2>2, <2>3
<1>5. TodayOf(u) = {n + 1}
  <2>1. 1..(n + 1) = (1..n) \cup {n + 1}
    BY <1>1
  <2>2. \A i \in 1..n : DateOf[u[i].ts] # DateOf[Last(u).ts]
    BY <1>1, <1>4
  <2>3. DateOf[u[n + 1].ts] = DateOf[Last(u).ts]
    BY <1>1
  <2> QED BY <1>1, <2>1, <2>2, <2>3 DEF TodayOf
<1> QED BY <1>5 DEF u, n

\* A trade of the same date: what it adds to, and the minute it closes.
LEMMA SameDate ==
  ASSUME NEW w, NEW x, Comes(w, x), w # <<>>, DateOf[x.ts] = DateOf[Last(w).ts],
         NEW b \in 0..Len(w)
  PROVE  LET u == Append(w, x)
         IN /\ VwapRun(Pick(u, TodayOf(u))) = WithTrade(VwapRun(Pick(w, TodayOf(w))), x)
            /\ \A t \in Int : t < x.ts => ValueOf(u, t) = ValueOf(w, t)
            /\ ClosedOf(u, b) = IF x.ts = Last(w).ts THEN ClosedOf(w, b)
                                ELSE ClosedOf(w, b) \cup {Last(w).ts}
<1> DEFINE n == Len(w)
           u == Append(w, x)
           D == TodayOf(w)
           l == Last(w).ts
<1>1. /\ n \in Nat /\ DOMAIN w = 1..n /\ DOMAIN u = 1..(n + 1) /\ u[n + 1] = x /\ Last(u) = x
      /\ x.ts \in 0..MaxTs /\ x.ts \in Int /\ \A i \in 1..n : u[i] = w[i]
  BY TapeGrows
<1>2. /\ n \in 1..n /\ Last(w) = w[n] /\ n \in D /\ D \subseteq 1..n /\ w \in Seq(SeenRec)
      /\ \A i \in 1..n : w[i].ts \in Int /\ w[i].ts <= w[n].ts
  BY TapeEnds DEF Comes
<1>3. x \in SeenRec /\ l <= x.ts /\ l \in Int /\ b \in Int
  BY <1>1, <1>2 DEF Comes
<1> HIDE DEF u, n
<1>4. TodayOf(u) = D \cup {n + 1}
  <2>1. 1..(n + 1) = (1..n) \cup {n + 1}
    BY <1>1
  <2>2. \A i \in 1..n : u[i] = w[i] /\ DateOf[Last(u).ts] = DateOf[Last(w).ts]
    BY <1>1
  <2>3. DateOf[u[n + 1].ts] = DateOf[Last(u).ts]
    BY <1>1
  <2> QED BY <1>1, <2>1, <2>2, <2>3 DEF TodayOf
<1>5. VwapRun(Pick(u, TodayOf(u))) = WithTrade(VwapRun(Pick(w, D)), x)
  <2>1. Pick(u, D \cup {n + 1}) = Append(Pick(w, D), x)
    BY <1>1, <1>2, <1>3, PickTakes DEF u, n
  <2>2. Pick(w, D) \in Seq(SeenRec)
    BY <1>1, <1>2, PickFacts
  <2> HIDE DEF D
  <2> QED BY <1>3, <1>4, <2>1, <2>2, VwapFold
<1>6. ASSUME NEW t \in Int, t < x.ts PROVE ValueOf(u, t) = ValueOf(w, t)
  <2>1. Until(u, t) = Until(w, t)
    <3>1. ~(u[n + 1].ts <= t)
      BY <1>1, <1>6
    <3>2. \A i \in D : u[i] = w[i]
      BY <1>1, <1>2
    <3> HIDE DEF D
    <3>3. Until(u, t) = {i \in D : w[i].ts <= t}
      BY <1>4, <3>1, <3>2 DEF Until
    <3> QED BY <3>3 DEF Until, D
  <2>2. Until(w, t) \subseteq DOMAIN w
    BY <1>1, <1>2 DEF Until
  <2>3. Pick(u, Until(w, t)) = Pick(w, Until(w, t))
    BY <1>1, <1>2, <2>2, PickSkips
  <2> QED BY <2>1, <2>3 DEF ValueOf
<1>7. /\ {u[i].ts : i \in TodayOf(u)} = {w[i].ts : i \in D} \cup {x.ts}
      /\ l \in {w[i].ts : i \in D}
  <2>1. \A i \in D : u[i] = w[i]
    BY <1>1, <1>2
  <2> HIDE DEF D
  <2>2. {u[i].ts : i \in D \cup {n + 1}} = {u[i].ts : i \in D} \cup {u[n + 1].ts}
    OBVIOUS
  <2>3. {u[i].ts : i \in D} = {w[i].ts : i \in D}
    BY <2>1
  <2> QED BY <1>1, <1>2, <1>4, <2>2, <2>3
<1>8. ASSUME NEW t \in Int, t < l
      PROVE  /\ Beyonds(u, t) = Beyonds(w, t) \cup {n + 1} /\ Beyonds(w, t) # {}
             /\ Beyonds(u, t) \cap 1..b = Beyonds(w, t) \cap 1..b
  <2>1. x.ts > t
    BY <1>1, <1>3, <1>8
  <2>2. Beyonds(u, t) = Beyonds(w, t) \cup {n + 1}
    BY <2>1, BeyondsGrow DEF u, n
  <2>3. n \in Beyonds(w, t)
    BY <1>1, <1>2, <1>8 DEF Beyonds
  <2>4. n + 1 \notin 1..b
    BY <1>1 DEF n
  <2> QED BY <2>2, <2>3, <2>4
<1>9. \A t \in Int : ~(l > t) => Beyonds(w, t) = {}
  <2> SUFFICES ASSUME NEW t \in Int, ~(l > t), NEW i \in 1..n, w[i].ts > t PROVE FALSE
    BY <1>1 DEF Beyonds
  <2>1. w[i].ts \in Int /\ w[i].ts <= l
    BY <1>2
  <2> QED BY <1>3, <2>1
<1>10. ~(x.ts > x.ts) /\ Beyonds(u, x.ts) = {}
  <2>1. ~(x.ts > x.ts) /\ ~(l > x.ts)
    BY <1>1, <1>3
  <2>2. Beyonds(u, x.ts) = Beyonds(w, x.ts)
    BY <1>1, <2>1, BeyondsGrow DEF u
  <2> QED BY <1>1, <1>9, <2>1, <2>2
<1>11. \A t \in {w[i].ts : i \in D} : t \in Int /\ t <= l
  BY <1>2
<1> DEFINE T == {w[i].ts : i \in D}
<1>12. /\ ClosedOf(w, b) = {t \in T : Beyonds(w, t) # {} /\ Beyonds(w, t) \cap 1..b = {}}
       /\ ClosedOf(u, b) = {t \in T \cup {x.ts} : Beyonds(u, t) # {} /\ Beyonds(u, t) \cap 1..b = {}}
  BY <1>7 DEF ClosedOf
<1> HIDE DEF T, D, l
<1>13. \A t \in T : t \in Int /\ (t < l \/ t = l)
  <2>1. \A t \in T : t \in Int /\ t <= l
    BY <1>11 DEF T
  <2> QED BY <1>3, <2>1
<1>14. \A t \in T : t # l => (t \in ClosedOf(u, b) <=> t \in ClosedOf(w, b))
  BY <1>8, <1>12, <1>13
<1>15. l \in T /\ l \notin ClosedOf(w, b) /\ x.ts \notin ClosedOf(u, b)
  <2>1. ~(l > l)
    BY <1>3
  <2> QED BY <1>3, <1>7, <1>9, <1>10, <1>12, <2>1 DEF T
<1>16. CASE x.ts = l
  <2>1. \A t : t \in ClosedOf(u, b) <=> t \in ClosedOf(w, b)
    BY <1>12, <1>14, <1>15, <1>16
  <2> QED BY <1>5, <1>6, <1>16, <2>1 DEF u, D, l
<1>17. CASE x.ts # l
  <2>1. x.ts > l
    BY <1>1, <1>3, <1>17
  <2>2. Beyonds(u, l) = {n + 1}
    <3>1. ~(l > l)
      BY <1>3
    <3>2. Beyonds(w, l) = {}
      BY <1>3, <1>9, <3>1
    <3> QED BY <1>3, <2>1, <3>2, BeyondsGrow DEF u, n
  <2>3. n + 1 \notin 1..b
    BY <1>1 DEF n
  <2>4. l \in ClosedOf(u, b)
    <3>1. Beyonds(u, l) # {} /\ Beyonds(u, l) \cap 1..b = {}
      BY <2>2, <2>3
    <3> QED BY <1>12, <1>15, <3>1
  <2>5. \A t : t \in ClosedOf(u, b) <=> t \in ClosedOf(w, b) \cup {l}
    BY <1>12, <1>14, <1>15, <2>4
  <2> QED BY <1>5, <1>6, <1>17, <2>5 DEF u, D, l
<1> QED BY <1>16, <1>17

\* onTrade, as fields.
Closing(s, e) == s.bar # <<>> /\ s.bar[1].start # e.ts
Dating(s, e) == s.lastTD # 0 /\ s.lastTD # DateOf[e.ts]

LEMMA AfterTradeIs ==
  ASSUME NEW s, DOMAIN s = DOMAIN NewStrategy, NEW e, e.ts \in Rth
  PROVE  LET z == AfterTrade(s, e)
             c == s.bar[1].close
             v == Value(s.vwap)
         IN /\ DOMAIN z = DOMAIN NewStrategy
            /\ z.bar = <<[start |-> e.ts, close |-> e.t.px]>> /\ z.lastTD = DateOf[e.ts]
            /\ z.vwap = WithTrade(IF Dating(s, e) THEN NoVwap ELSE s.vwap, e.t)
            /\ z.above = IF Dating(s, e) THEN 0
                         ELSE IF Closing(s, e) THEN (IF c > v THEN s.above + 1 ELSE 0)
                         ELSE s.above
            /\ z.below = IF Dating(s, e) THEN 0
                         ELSE IF Closing(s, e) THEN (IF c < v THEN s.below + 1 ELSE 0)
                         ELSE s.below
<1> USE DEF NewStrategy
<1> DEFINE c == s.bar[1].close
           v == Value(s.vwap)
           closed == IF s.bar # <<>> /\ s.bar[1].start # e.ts THEN OnClosed(s, c) ELSE s
           dated == IF s.lastTD # 0 /\ s.lastTD # DateOf[e.ts]
                    THEN [closed EXCEPT !.vwap = NoVwap, !.above = 0, !.below = 0, !.want = "none"]
                    ELSE closed
           z == AfterTrade(s, e)
<1>1. /\ DOMAIN closed = DOMAIN NewStrategy /\ closed.vwap = s.vwap
      /\ closed.above = IF Closing(s, e) THEN (IF c > v THEN s.above + 1 ELSE 0) ELSE s.above
      /\ closed.below = IF Closing(s, e) THEN (IF c < v THEN s.below + 1 ELSE 0) ELSE s.below
  <2> HIDE DEF c
  <2>1. CASE Closing(s, e)
    <3>1. closed = [s EXCEPT !.above = IF c > v THEN @ + 1 ELSE 0,
                             !.below = IF c < v THEN @ + 1 ELSE 0]
      BY <2>1 DEF Closing, OnClosed
    <3> HIDE DEF closed, v
    <3> QED BY <2>1, <3>1
  <2>2. CASE ~Closing(s, e)
    <3>1. closed = s
      BY <2>2 DEF Closing
    <3> QED BY <2>2, <3>1
  <2> QED BY <2>1, <2>2
<1>2. z = [dated EXCEPT !.bar = <<[start |-> e.ts, close |-> e.t.px]>>,
                        !.lastTD = DateOf[e.ts], !.vwap = WithTrade(@, e.t)]
  BY DEF AfterTrade
<1> HIDE DEF closed, z, c, v
<1>3. /\ DOMAIN dated = DOMAIN NewStrategy
      /\ dated.vwap = IF Dating(s, e) THEN NoVwap ELSE s.vwap
      /\ dated.above = IF Dating(s, e) THEN 0 ELSE closed.above
      /\ dated.below = IF Dating(s, e) THEN 0 ELSE closed.below
  BY <1>1 DEF Dating
<1> HIDE DEF dated
<1>4. /\ DOMAIN z = DOMAIN NewStrategy
      /\ z.bar = <<[start |-> e.ts, close |-> e.t.px]>> /\ z.lastTD = DateOf[e.ts]
      /\ z.vwap = WithTrade(dated.vwap, e.t) /\ z.above = dated.above /\ z.below = dated.below
  BY <1>2, <1>3
<1> QED BY <1>1, <1>3, <1>4 DEF z, c, v

\* What is kept of a trade event.
SeenOf(e) == [ts |-> e.ts, px |-> e.t.px, qty |-> e.t.qty]

\* A trade of RTH moves the struct as it moves the tape.
LEMMA StreaksTrade ==
  ASSUME NEW s, DOMAIN s = DOMAIN NewStrategy, NEW w, NEW e, e.ts \in Rth,
         Comes(w, SeenOf(e)), NEW b \in 0..Len(w), Streaks(s, w, b)
  PROVE  Streaks(AfterTrade(s, e), Append(w, SeenOf(e)), b)
<1> DEFINE x == SeenOf(e)
           u == Append(w, x)
           n == Len(w)
           z == AfterTrade(s, e)
           d == Last(w).ts
           c == s.bar[1].close
           v == Value(s.vwap)
<1>1. x.ts = e.ts /\ x.px = e.t.px /\ x.qty = e.t.qty
  BY DEF SeenOf
<1>2. Tape(w) /\ Comes(w, x)
  BY DEF Comes
<1>3. /\ u # <<>> /\ Last(u) = x /\ n \in Nat /\ DOMAIN u = 1..(n + 1) /\ u[n + 1] = x
      /\ x.ts \in 0..MaxTs /\ x.ts \in Int
  BY <1>2, TapeGrows
<1>4. /\ DOMAIN z = DOMAIN NewStrategy
      /\ z.bar = <<[start |-> e.ts, close |-> e.t.px]>> /\ z.lastTD = DateOf[e.ts]
      /\ z.vwap = WithTrade(IF Dating(s, e) THEN NoVwap ELSE s.vwap, x)
      /\ z.above = IF Dating(s, e) THEN 0
                   ELSE IF Closing(s, e) THEN (IF c > v THEN s.above + 1 ELSE 0) ELSE s.above
      /\ z.below = IF Dating(s, e) THEN 0
                   ELSE IF Closing(s, e) THEN (IF c < v THEN s.below + 1 ELSE 0) ELSE s.below
  <2>1. \A a : WithTrade(a, e.t) = WithTrade(a, x)
    BY <1>1 DEF WithTrade
  <2> HIDE DEF x
  <2> QED BY <2>1, AfterTradeIs
<1> HIDE DEF x, z, u
<1>5. SUFFICES /\ z.vwap = VwapRun(Pick(u, TodayOf(u)))
               /\ z.above = StreakOf(ClosedOf(u, b), AboveOf(u, b))
               /\ z.below = StreakOf(ClosedOf(u, b), BelowOf(u, b))
  BY <1>1, <1>3, <1>4 DEF Streaks, u, x, z
<1>6. ASSUME TodayOf(u) = {n + 1}, s.vwap = NoVwap \/ Dating(s, e),
             Dating(s, e) \/ (~Closing(s, e) /\ s.above = 0 /\ s.below = 0)
      PROVE  /\ z.vwap = VwapRun(Pick(u, TodayOf(u)))
             /\ z.above = StreakOf(ClosedOf(u, b), AboveOf(u, b))
             /\ z.below = StreakOf(ClosedOf(u, b), BelowOf(u, b))
  <2>1. ClosedOf(u, b) = {} /\ VwapRun(Pick(u, TodayOf(u))) = WithTrade(NoVwap, x)
    BY <1>2, <1>6, Alone DEF u
  <2>2. z.vwap = WithTrade(NoVwap, x) /\ z.above = 0 /\ z.below = 0
    BY <1>4, <1>6
  <2> QED BY <2>1, <2>2, StreakNone
<1>7. CASE w = <<>>
  <2>1. s.bar = <<>> /\ s.lastTD = 0 /\ s.vwap = NoVwap /\ s.above = 0 /\ s.below = 0 /\ n = 0
    BY <1>7 DEF Streaks
  <2>2. TodayOf(u) = {n + 1}
    <3>1. DOMAIN u = {n + 1}
      BY <1>3, <2>1
    <3> QED BY <1>3, <3>1 DEF TodayOf
  <2>3. ~Closing(s, e)
    BY <2>1 DEF Closing
  <2> QED BY <1>6, <2>1, <2>2, <2>3
<1>8. CASE w # <<>>
  <2>1. /\ s.bar = <<[start |-> d, close |-> Last(w).px]>> /\ s.lastTD = DateOf[d]
        /\ s.vwap = VwapRun(Pick(w, TodayOf(w)))
        /\ s.above = StreakOf(ClosedOf(w, b), AboveOf(w, b))
        /\ s.below = StreakOf(ClosedOf(w, b), BelowOf(w, b))
    BY <1>8 DEF Streaks
  <2>2. /\ s.bar # <<>> /\ s.bar[1].start = d /\ c = Last(w).px
        /\ DateOf[d] # 0 /\ d \in 0..MaxTs /\ d \in Int /\ d <= x.ts
    <3>1. s.bar # <<>> /\ s.bar[1] = [start |-> d, close |-> Last(w).px]
      BY <2>1
    <3>2. n \in 1..n /\ Last(w) = w[n] /\ w[n].ts \in 0..MaxTs /\ DOMAIN w = 1..n
      BY <1>2, <1>8, TapeEnds
    <3>3. DateOf[d] # 0
      BY <3>2, DatesAssumption
    <3>4. d <= x.ts
      BY <1>2, <3>2 DEF Comes
    <3> QED BY <3>1, <3>2, <3>3, <3>4
  <2>3. (Closing(s, e) <=> d # x.ts) /\ (Dating(s, e) <=> DateOf[d] # DateOf[x.ts])
    BY <1>1, <2>1, <2>2 DEF Closing, Dating
  <2>4. CASE DateOf[d] # DateOf[x.ts]
    BY <1>2, <1>6, <1>8, <2>3, <2>4, NewDate DEF u
  <2>5. CASE DateOf[d] = DateOf[x.ts]
    <3>1. /\ VwapRun(Pick(u, TodayOf(u))) = WithTrade(VwapRun(Pick(w, TodayOf(w))), x)
          /\ \A t \in Int : t < x.ts => ValueOf(u, t) = ValueOf(w, t)
          /\ ClosedOf(u, b) = IF x.ts = d THEN ClosedOf(w, b) ELSE ClosedOf(w, b) \cup {d}
      BY <1>2, <1>8, <2>5, SameDate DEF u
    <3>2. z.vwap = VwapRun(Pick(u, TodayOf(u)))
      BY <1>4, <2>1, <2>3, <2>5, <3>1
    <3>3. \A t \in ClosedOf(w, b) : /\ t < d /\ t \in 0..MaxTs /\ t \in Int
                                    /\ \E i \in DOMAIN w : w[i].ts = t
      BY <1>2, <1>8, ClosedBefore
    <3>4. \A t \in ClosedOf(w, b) : CloseOf(u, t) = CloseOf(w, t) /\ ValueOf(u, t) = ValueOf(w, t)
      <4> TAKE t \in ClosedOf(w, b)
      <4>1. t \in Int /\ t < x.ts /\ \E i \in DOMAIN w : w[i].ts = t
        BY <1>3, <2>2, <3>3
      <4> QED BY <1>2, <3>1, <4>1, CloseKept DEF u
    <3>5. CASE x.ts = d
      <4>1. ClosedOf(u, b) = ClosedOf(w, b)
        BY <3>1, <3>5
      <4>2. AboveOf(u, b) = AboveOf(w, b) /\ BelowOf(u, b) = BelowOf(w, b)
        BY <3>4, <4>1 DEF AboveOf, BelowOf
      <4> QED BY <1>4, <2>1, <2>3, <2>5, <3>2, <3>5, <4>1, <4>2
    <3>6. CASE x.ts # d
      <4>1. ClosedOf(u, b) = ClosedOf(w, b) \cup {d} /\ d < x.ts
        BY <1>3, <2>2, <3>1, <3>6
      <4>2. CloseOf(u, d) = c
        <5>1. n \in DOMAIN w /\ w[n].ts = d
          BY <1>2, <1>8, TapeEnds
        <5>2. CloseOf(u, d) = CloseOf(w, d)
          BY <1>2, <2>2, <4>1, <5>1, CloseKept DEF u
        <5> QED BY <1>2, <1>8, <2>2, <5>2, CloseLast
      <4>3. ValueOf(u, d) = v
        <5>1. Until(w, d) = TodayOf(w)
          <6>1. \A i \in TodayOf(w) : w[i].ts <= d
            BY <1>2, <1>8, TapeEnds
          <6> QED BY <6>1 DEF Until
        <5>2. ValueOf(w, d) = v
          BY <2>1, <5>1 DEF ValueOf
        <5> QED BY <2>2, <3>1, <4>1, <5>2
      <4>4. /\ d \in AboveOf(u, b) <=> c > v
            /\ d \in BelowOf(u, b) <=> c < v
        BY <4>1, <4>2, <4>3 DEF AboveOf, BelowOf
      <4>5. /\ SameOn(ClosedOf(w, b), AboveOf(w, b), AboveOf(u, b))
            /\ SameOn(ClosedOf(w, b), BelowOf(w, b), BelowOf(u, b))
        BY <3>4, <4>1 DEF AboveOf, BelowOf, SameOn
      <4>6. AllBefore(ClosedOf(w, b), d)
        BY <3>3 DEF AllBefore
      <4> HIDE DEF c, v, d
      <4>7. /\ StreakOf(ClosedOf(u, b), AboveOf(u, b))
                  = IF c > v THEN StreakOf(ClosedOf(w, b), AboveOf(w, b)) + 1 ELSE 0
            /\ StreakOf(ClosedOf(u, b), BelowOf(u, b))
                  = IF c < v THEN StreakOf(ClosedOf(w, b), BelowOf(w, b)) + 1 ELSE 0
        <5>1. StreakOf(ClosedOf(w, b) \cup {d}, AboveOf(u, b))
                  = IF d \in AboveOf(u, b) THEN StreakOf(ClosedOf(w, b), AboveOf(w, b)) + 1 ELSE 0
          BY <2>2, <4>5, <4>6, StreakGrows
        <5>2. StreakOf(ClosedOf(w, b) \cup {d}, BelowOf(u, b))
                  = IF d \in BelowOf(u, b) THEN StreakOf(ClosedOf(w, b), BelowOf(w, b)) + 1 ELSE 0
          BY <2>2, <4>5, <4>6, StreakGrows
        <5> QED BY <4>1, <4>4, <5>1, <5>2
      <4>8. /\ z.above = IF c > v THEN s.above + 1 ELSE 0
            /\ z.below = IF c < v THEN s.below + 1 ELSE 0
        BY <1>4, <2>3, <2>5, <3>6
      <4> QED BY <2>1, <3>2, <4>7, <4>8
    <3> QED BY <3>5, <3>6
  <2> QED BY <2>4, <2>5
<1> QED BY <1>7, <1>8

\* A position that closes: no minute is closed since.
LEMMA StreaksReset ==
  ASSUME NEW s, NEW z, NEW w, Tape(w), NEW b, Streaks(s, w, b),
         z.bar = s.bar, z.lastTD = s.lastTD, z.vwap = s.vwap, z.above = 0, z.below = 0
  PROVE  Streaks(z, w, Len(w))
<1>1. CASE w = <<>>
  BY <1>1 DEF Streaks
<1>2. CASE w # <<>>
  <2>1. ClosedOf(w, Len(w)) = {}
    <3>1. \A t : Beyonds(w, t) # {} => Beyonds(w, t) \cap 1..Len(w) # {}
      <4>1. DOMAIN w = 1..Len(w)
        BY <1>2, TapeEnds
      <4> QED BY <4>1 DEF Beyonds
    <3> QED BY <3>1 DEF ClosedOf
  <2> QED BY <1>2, <2>1, StreakNone DEF Streaks
<1> QED BY <1>1, <1>2

-----------------------------------------------------------------------------
(* The streaks along the behaviour, when orders wait for no entry delay.   *)

\* Nothing in the outbox is due.
Held == \A k \in DOMAIN outbox : ~(outbox[k].ready <= ns)

\* An order waits only around the quote that sent it; a trade finds nothing
\* due after its match, so that its cascade hands nothing back; and a trade
\* the strategy is about to be shown is new to it.
Quiet ==
    /\ Waits => pc \in {"event", "settle"} /\ ev.kind # "trade" /\ place[nextID] = "inbox"
    /\ ev.kind = "trade" /\ pc \in {"apply", "order", "event", "settle"} => Held
    /\ ret = "cascade" /\ pc \in {"apply", "order"} => ev.kind # "trade"
    /\ \/ pc = "match"
       \/ pc \in {"apply", "order"} /\ ret = "match"
       \/ pc = "event" /\ ~called /\ ev.kind = "trade"
       => heard # events

\* The clock is that of the last event, and has passed every trade seen.
Clocked ==
    /\ events \in Nat /\ heard \in Nat /\ heard <= events /\ ns \in Nat
    /\ ev.kind # "none" => ev.ts = ns /\ ns \in 0..MaxTs
    /\ Tape(seen) /\ \A i \in DOMAIN seen : seen[i].ts <= ns
    /\ base \in 0..Len(seen)
    /\ pc \in {"boot", "start"} => seen = <<>>
    /\ DOMAIN strat = DOMAIN NewStrategy
    /\ Streaks(strat, seen, base)

StreakInv == VWInv /\ Clocked /\ (Running => Quiet)

\* A call with nothing new and nothing due hands nothing back.
LEMMA HoldDue ==
  ASSUME outbox = <<>> \/ \E e, t : outbox = <<[ev |-> e, ready |-> t]>>, raw' = {},
         NEW ts, HoldOrEmit(ts)
  PROVE  /\ \A k \in DOMAIN outbox' : ~(outbox'[k].ready <= ts)
         /\ (\A k \in DOMAIN outbox : ~(outbox[k].ready <= ts)) => batch' = <<>>
<1> DEFINE fresh == InOrder(raw')
           d     == [k \in DOMAIN fresh |-> [ev |-> fresh[k], ready |-> ts + Response]]
           held  == IF Response = 0 THEN outbox ELSE outbox \o d
           emit  == IF Response = 0 THEN fresh ELSE <<>>
           D     == DueOf(held, ts)
           C     == DOMAIN held \ D
<1>1. batch' = emit \o Evs(Pick(held, D)) /\ outbox' = Pick(held, C)
  BY DEF HoldOrEmit
<1>2. fresh = <<>> /\ d = <<>>
  BY InOrderNone
<1> HIDE DEF fresh, d
<1>3. held = outbox /\ emit = <<>>
  <2>1. <<>> \o <<>> = <<>> /\ \A x : <<x>> \o <<>> = <<x>>
    OBVIOUS
  <2> QED BY <1>2, <2>1
<1>4. D = {k \in DOMAIN outbox : outbox[k].ready <= ts} /\ C = DOMAIN outbox \ D
  BY <1>3 DEF DueOf
<1> HIDE DEF held, emit, D, C
<1>5. batch' = <<>> \o Evs(Pick(outbox, D)) /\ outbox' = Pick(outbox, C) /\ <<>> \o <<>> = <<>>
  <2>1. <<>> \o <<>> = <<>>
    OBVIOUS
  <2> QED BY <1>1, <1>3, <2>1
<1>6. CASE outbox = <<>>
  <2>1. D = {} /\ C = {}
    BY <1>4, <1>6
  <2> QED BY <1>5, <1>6, <2>1, PickNone, EvsOne
<1>7. ASSUME NEW h, outbox = <<h>>
      PROVE  /\ \A k \in DOMAIN outbox' : ~(outbox'[k].ready <= ts)
             /\ (\A k \in DOMAIN outbox : ~(outbox[k].ready <= ts)) => batch' = <<>>
  <2>1. DOMAIN outbox = {1} /\ outbox[1] = h
    BY <1>7
  <2>2. /\ D \subseteq {1} /\ C \subseteq {1}
        /\ D = {} <=> ~(h.ready <= ts)
        /\ C = {} <=> h.ready <= ts
    BY <1>4, <2>1
  <2>3. /\ Pick(outbox, D) = (IF D = {} THEN <<>> ELSE <<h>>)
        /\ Pick(outbox, C) = (IF C = {} THEN <<>> ELSE <<h>>)
    BY <1>7, <2>2, PickOne
  <2>4. Evs(<<>>) = <<>>
    BY EvsOne
  <2>5. ~(h.ready <= ts) => batch' = <<>>
    BY <1>5, <2>2, <2>3, <2>4
  <2>6. \A k \in DOMAIN outbox' : ~(outbox'[k].ready <= ts)
    <3>1. outbox' = <<>> \/ (outbox' = <<h>> /\ ~(h.ready <= ts))
      BY <1>5, <2>2, <2>3
    <3> QED BY <3>1
  <2> QED BY <2>1, <2>5, <2>6
<1> QED BY <1>6, <1>7

\* The fields of the struct the streaks are about.
Keeps(z, s) ==
    /\ DOMAIN z = DOMAIN NewStrategy /\ z.bar = s.bar /\ z.lastTD = s.lastTD
    /\ z.vwap = s.vwap /\ z.above = s.above /\ z.below = s.below

LEMMA StreaksKeep ==
  \A z, s, w, b : Keeps(z, s) /\ Streaks(s, w, b) => Streaks(z, w, b)
  BY DEF Keeps, Streaks

LEMMA SendsKeeps ==
  ASSUME NEW s, DOMAIN s = DOMAIN NewStrategy, NEW side, NEW n, Sends(s, side, n)
  PROVE  /\ Keeps(strat', s) /\ UNCHANGED <<pc, ret, ev, ns, events, outbox, batch>>
         /\ nextID' = nextID + 1
         /\ place' = [place EXCEPT ![nextID + 1] = IF Entry = 0 THEN "inbox" ELSE "delayed"]
<1>1. strat' = [s EXCEPT !.working = TRUE]
  BY DEF Sends
<1>2. Keeps(strat', s)
  BY <1>1 DEF Keeps, NewStrategy
<1> QED BY <1>2 DEF Sends, Submit, VEnqueue, Enqueue, NoReply

\* Acting sends on a quote or not at all, and leaves the streaks alone.
LEMMA ActKeeps ==
  ASSUME NEW s, DOMAIN s = DOMAIN NewStrategy, Act(s)
  PROVE  /\ Keeps(strat', s)
         /\ \/ UNCHANGED rvars
            \/ /\ ev.kind = "quote" /\ UNCHANGED <<pc, ret, ev, ns, events, outbox, batch>>
               /\ nextID' = nextID + 1
               /\ place' = [place EXCEPT ![nextID + 1] = IF Entry = 0 THEN "inbox" ELSE "delayed"]
<1>1. Keeps(s, s) /\ Keeps(Latch(s), s) /\ DOMAIN Latch(s) = DOMAIN NewStrategy
  BY DEF Keeps, Latch, NewStrategy
<1>2. \A z : Leaves(z) => strat' = z /\ UNCHANGED rvars
  BY DEF Leaves
<1>3. \A z : Keeps(z, Latch(s)) => Keeps(z, s)
  BY <1>1 DEF Keeps
<1>4. \/ Leaves(s) \/ Leaves(Latch(s))
      \/ ev.kind = "quote" /\ \E side, n : Sends(s, side, n)
      \/ ev.kind = "quote" /\ \E side, n : Sends(Latch(s), side, n)
  BY DEF Act, Flatten
<1>5. CASE Leaves(s) \/ Leaves(Latch(s))
  BY <1>1, <1>2, <1>5
<1>6. CASE ev.kind = "quote" /\ \E side, n : Sends(s, side, n)
  BY <1>6, SendsKeeps
<1>7. CASE ev.kind = "quote" /\ \E side, n : Sends(Latch(s), side, n)
  BY <1>1, <1>3, <1>7, SendsKeeps
<1> QED BY <1>4, <1>5, <1>6, <1>7

LEMMA InitStreak == VWInit => StreakInv
<1> SUFFICES ASSUME VWInit PROVE StreakInv
  OBVIOUS
<1>1. /\ Init /\ outbox = <<>> /\ batch = <<>> /\ pc = "boot" /\ ret = "start"
      /\ ev = NoEvent /\ ns = 0 /\ events = 0
      /\ strat = NewStrategy /\ called = FALSE /\ seen = <<>> /\ heard = 0 /\ base = 0
  BY DEF VWInit, RInit, VInit
<1>2. Tape(seen) /\ Len(seen) = 0 /\ DOMAIN seen = {}
  BY <1>1 DEF Tape, InTime
<1>3. Streaks(strat, seen, base)
  BY <1>1 DEF Streaks, NewStrategy
<1>4. Clocked
  BY <1>1, <1>2, <1>3 DEF Clocked, NoEvent
<1>5. ~Waits
  BY <1>1 DEF Waits, Init
<1>6. Quiet
  BY <1>1, <1>5 DEF Quiet
<1> QED BY <1>4, <1>6, InitVW DEF StreakInv

\* Nothing the streaks depend on has moved.
LEMMA ClockStays ==
  ASSUME Clocked, UNCHANGED <<seen, heard, base, ns, ev, events>>, Keeps(strat', strat),
         pc' \in {"boot", "start"} => pc \in {"boot", "start"}
  PROVE  Clocked'
<1>1. Streaks(strat', seen, base)
  BY StreaksKeep DEF Clocked
<1> QED BY <1>1 DEF Clocked, Keeps

LEMMA EventClocked ==
  ASSUME Control, Trading, Clocked, Quiet, Running, OnEvent
  PROVE  Clocked'
<1> DEFINE s == IF ev.kind = "trade" THEN AfterTrade(strat, ev) ELSE strat
<1>1. /\ pc = "event" /\ ~called /\ Act(s) /\ heard' = events /\ base' = base
      /\ seen' = IF heard # events /\ ev.kind = "trade" /\ ev.ts \in Rth
                 THEN Append(seen, SeenOf(ev)) ELSE seen
  BY DEF OnEvent, Body, SeenOf
<1>2. DOMAIN s = DOMAIN NewStrategy
  BY BeforeActing DEF Trading, StrategyTyped
<1> HIDE DEF s
<1>3. Keeps(strat', s) /\ UNCHANGED <<pc, ev, ns, events>>
  <2>1. UNCHANGED rvars => UNCHANGED <<pc, ev, ns, events>>
    BY DEF rvars, control
  <2> QED BY <1>1, <1>2, <2>1, ActKeeps
<1>4. /\ events \in Nat /\ ns \in Nat
      /\ Tape(seen) /\ \A i \in DOMAIN seen : seen[i].ts <= ns
      /\ base \in 0..Len(seen) /\ DOMAIN strat = DOMAIN NewStrategy
      /\ Streaks(strat, seen, base)
      /\ ev.kind # "none" => ev.ts = ns /\ ns \in 0..MaxTs
  BY DEF Clocked
<1>5. ASSUME ev.kind = "trade", ev.ts \in Rth
      PROVE  /\ Tape(seen') /\ \A i \in DOMAIN seen' : seen'[i].ts <= ns
             /\ base \in 0..Len(seen') /\ Streaks(s, seen', base)
  <2>1. heard # events /\ seen' = Append(seen, SeenOf(ev)) /\ s = AfterTrade(strat, ev)
    BY <1>1, <1>5 DEF Quiet, s
  <2>2. ev.t \in TradeRec /\ ev.ts = ns /\ ev.ts \in 0..MaxTs
    BY <1>4, <1>5, MatchingAssumption DEF Trading, EventTyped
  <2>3. SeenOf(ev) \in SeenRec /\ SeenOf(ev).ts = ns
    BY <2>2 DEF SeenOf, SeenRec, TradeRec
  <2>4. Comes(seen, SeenOf(ev))
    BY <1>4, <1>5, <2>2, <2>3 DEF Comes
  <2>5. Streaks(s, seen', base)
    BY <1>4, <1>5, <2>1, <2>4, StreaksTrade
  <2>6. /\ Tape(seen') /\ Len(seen') = Len(seen) + 1 /\ DOMAIN seen' = 1..(Len(seen) + 1)
        /\ Len(seen) \in Nat /\ DOMAIN seen = 1..Len(seen) /\ seen'[Len(seen) + 1] = SeenOf(ev)
        /\ \A i \in 1..Len(seen) : seen'[i] = seen[i]
    BY <2>1, <2>4, TapeGrows
  <2>7. \A i \in 1..(Len(seen) + 1) : i \in 1..Len(seen) \/ i = Len(seen) + 1
    BY <2>6
  <2>8. \A i \in DOMAIN seen' : seen'[i].ts <= ns
    BY <1>4, <2>3, <2>6, <2>7
  <2>9. base \in 0..Len(seen')
    BY <1>4, <2>6
  <2> QED BY <2>5, <2>6, <2>8, <2>9
<1>6. ASSUME ~(ev.kind = "trade" /\ ev.ts \in Rth)
      PROVE  seen' = seen /\ s = strat
  BY <1>1, <1>6 DEF s, AfterTrade
<1>7. /\ Tape(seen') /\ \A i \in DOMAIN seen' : seen'[i].ts <= ns
      /\ base \in 0..Len(seen') /\ Streaks(s, seen', base)
  BY <1>4, <1>5, <1>6
<1>8. Streaks(strat', seen', base) /\ DOMAIN strat' = DOMAIN NewStrategy
  <2>1. Streaks(strat', seen', base)
    BY <1>3, <1>7, StreaksKeep
  <2> QED BY <1>3, <2>1 DEF Keeps
<1>9. heard' \in Nat /\ heard' <= events'
  BY <1>1, <1>3, <1>4
<1> QED BY <1>1, <1>3, <1>4, <1>7, <1>8, <1>9 DEF Clocked

LEMMA OrderClocked ==
  ASSUME Clocked, OnOrder
  PROVE  Clocked'
<1> DEFINE flat == told.status = "filled" /\ books.pos.qty = 0
<1>1. /\ pc' = pc /\ strat' = AfterOrder(strat, told) /\ UNCHANGED <<ev, ns, events, seen, heard>>
      /\ base' = IF flat THEN Len(seen) ELSE base
  BY DEF OnOrder, Body, Leaves, rvars, control
<1>2. CASE ~flat
  <2>1. Keeps(strat', strat)
    BY <1>1, <1>2 DEF AfterOrder, Keeps, Clocked, NewStrategy
  <2> QED BY <1>1, <1>2, <2>1, ClockStays
<1>3. CASE flat
  <2>1. /\ DOMAIN strat' = DOMAIN NewStrategy
        /\ strat'.bar = strat.bar /\ strat'.lastTD = strat.lastTD /\ strat'.vwap = strat.vwap
        /\ strat'.above = 0 /\ strat'.below = 0
    BY <1>1, <1>3 DEF AfterOrder, Clocked, NewStrategy
  <2>2. Streaks(strat', seen, Len(seen))
    <3>1. Tape(seen) /\ Streaks(strat, seen, base)
      BY DEF Clocked
    <3> QED BY <2>1, <3>1, StreaksReset
  <2>3. Len(seen) \in 0..Len(seen)
    <3>1. seen \in Seq(SeenRec)
      BY DEF Clocked, Tape
    <3> QED BY <3>1
  <2> QED BY <1>1, <1>3, <2>1, <2>2, <2>3 DEF Clocked
<1> QED BY <1>2, <1>3

LEMMA ReadsClocked ==
  ASSUME ~BadStamps, Clocked, Reads
  PROVE  Clocked'
<1>1. PICK e \in FeedEvents : Observe(e)
  BY DEF Reads
<1>2. PICK ts \in ns..MaxTs : e \in MarketEvents(ts, FALSE)
  BY <1>1 DEF FeedEvents
<1>3. e.ts = ts /\ e.bad = FALSE
  BY <1>2 DEF MarketEvents
<1>4. /\ events' = events + 1 /\ ev' = e /\ ns' = (IF ~e.bad /\ e.ts > ns THEN e.ts ELSE ns)
      /\ pc' = "match" /\ UNCHANGED <<strat, seen, heard, base>>
  BY <1>1 DEF Reads, Observe, GoTo, vs
<1>5. ns \in Nat /\ ts \in Nat /\ ts <= MaxTs /\ ts >= ns /\ MaxTs \in Nat
  BY <1>2, MatchingAssumption DEF Clocked
<1>6. ns' = ts /\ ns' >= ns
  BY <1>3, <1>4, <1>5
<1>7. \A i \in DOMAIN seen : seen[i].ts <= ns'
  <2>1. seen \in Seq(SeenRec)
    BY DEF Clocked, Tape
  <2>2. \A i \in DOMAIN seen : seen[i] \in SeenRec
    BY <2>1
  <2>3. \A x \in SeenRec : x.ts \in Int
    BY DEF SeenRec
  <2> QED BY <1>5, <1>6, <2>2, <2>3 DEF Clocked
<1>8. events' \in Nat /\ heard \in Nat /\ heard <= events'
  BY <1>4 DEF Clocked
<1> QED BY <1>3, <1>4, <1>5, <1>6, <1>7, <1>8 DEF Clocked

LEMMA NextClocked ==
  ASSUME ~BadStamps, StreakInv, VWNext
  PROVE  Clocked'
<1>1. Control /\ Clocked /\ (Running => Trading /\ Quiet)
  BY DEF StreakInv, VWInv
<1>2. Keeps(strat, strat)
  BY <1>1 DEF Keeps, Clocked
<1>3. CASE OnStart
  <2>1. pc = "start" /\ strat' = NewStrategy /\ UNCHANGED <<pc, ns, ev, events, seen, heard, base>>
    BY <1>3 DEF OnStart, Body, Leaves, rvars, control
  <2>2. Streaks(NewStrategy, <<>>, base)
    BY DEF Streaks, NewStrategy
  <2> QED BY <1>1, <2>1, <2>2 DEF Clocked
<1>4. CASE OnEvent
  <2>1. Running
    BY <1>1, <1>4 DEF OnEvent, Body, Control, Running, Stopping
  <2> QED BY <1>1, <1>4, <2>1, EventClocked
<1>5. CASE OnOrder
  BY <1>1, <1>5, OrderClocked
<1>6. CASE OnStop
  <2>1. Leaves(strat) \/ \E side, n : Sends(strat, side, n)
    BY <1>6 DEF OnStop, Flatten
  <2>2. Keeps(strat', strat) /\ UNCHANGED <<pc, ev, ns, events>>
    <3>1. Leaves(strat) => strat' = strat /\ UNCHANGED <<pc, ev, ns, events>>
      BY DEF Leaves, rvars, control
    <3>2. DOMAIN strat = DOMAIN NewStrategy
      BY <1>1 DEF Clocked
    <3> QED BY <1>2, <2>1, <3>1, <3>2, SendsKeeps
  <2> QED BY <1>1, <1>6, <2>2, ClockStays DEF OnStop
<1>7. CASE Returns
  <2>1. pc' \notin {"boot", "start"} /\ UNCHANGED <<strat, seen, heard, base, ns, ev, events>>
    BY <1>7 DEF Returns, Return, Callbacks
  <2> QED BY <1>1, <1>2, <2>1, ClockStays
<1>8. CASE Tells
  <2>1. pc' = "order" /\ UNCHANGED <<strat, seen, heard, base, ns, ev, events>>
    BY <1>8 DEF Tells, ApplyEvent, GoTo
  <2> QED BY <1>1, <1>2, <2>1, ClockStays
<1>9. CASE Reads
  BY <1>1, <1>9, ReadsClocked
<1>10. CASE Runs
  <2>1. UNCHANGED <<strat, seen, heard, base>>
    BY <1>10 DEF Runs, vs
  <2>2. UNCHANGED <<ns, ev, events>>
    BY <1>10 DEF Runs, Start, Drain, MatchResting, SettleCascade, Eof, FlushTail, Applied
  <2>3. pc' \in {"boot", "start"} => pc \in {"boot", "start"}
    <3>1. CASE Start
      BY <1>1, <3>1 DEF Start, Control
    <3>2. CASE Drain
      BY <3>2 DEF Drain, GoTo
    <3>3. CASE MatchResting \/ SettleCascade
      BY <3>3 DEF MatchResting, SettleCascade
    <3>4. CASE Eof \/ FlushTail
      BY <3>4 DEF Eof, FlushTail, GoTo
    <3>5. CASE Applied
      BY <3>5 DEF Applied
    <3> QED BY <1>10, <3>1, <3>2, <3>3, <3>4, <3>5 DEF Runs
  <2> QED BY <1>1, <1>2, <2>1, <2>2, <2>3, ClockStays
<1> QED BY <1>3, <1>4, <1>5, <1>6, <1>7, <1>8, <1>9, <1>10 DEF VWNext

\* Between calls the order is in one place.
LEMMA Placed ==
  ASSUME Trading, Asked, pc # "apply"
  PROVE  /\ batch = <<>> /\ (Idle \/ Returning \/ Waits)
         /\ outbox = <<>> \/ \E e, t : outbox = <<[ev |-> e, ready |-> t]>>
         /\ place \in [Ids -> Places] /\ order \in [Ids -> OrderRec] /\ quote \in QuoteRec
         /\ Waits => hasQ /\ order[nextID].kind = "market"
<1>1. batch = <<>> /\ (Idle \/ Returning \/ Waits)
  BY DEF Trading, Route, OneOrder, Arrived, StrategyTyped
<1>2. Waits => strat.working
  BY DEF Trading, OneOrder, Idle, Waits, StrategyTyped
<1> QED BY <1>1, <1>2 DEF Trading, VenueTyped, OneOrder, Quoted, Asks, Idle, Returning, Waits

\* A call that fills nothing leaves a waiting order where it was.
LEMMA StillWaits ==
  ASSUME Nothing, nextID' = nextID, Idle \/ Returning \/ Waits, Waits'
  PROVE  Waits /\ place'[nextID] = place[nextID] /\ nextID \in Ids
<1>1. Live' = Live
  <2>1. \A i \in Ids : place'[i] = place[i]
    BY DEF Nothing
  <2> QED BY <2>1 DEF Live, In
<1>2. Live = {nextID}
  BY <1>1 DEF Waits
<1> QED BY <1>2 DEF Nothing, Waits, Idle, Returning

LEMMA EventQuiet ==
  ASSUME Entry = 0, Control, Trading, Quiet, OnEvent
  PROVE  Quiet'
<1> DEFINE s == IF ev.kind = "trade" THEN AfterTrade(strat, ev) ELSE strat
<1>1. pc = "event" /\ called' = TRUE /\ Act(s)
  BY DEF OnEvent, Body
<1>2. DOMAIN s = DOMAIN NewStrategy
  BY BeforeActing DEF Trading, StrategyTyped
<1> HIDE DEF s
<1>3. \/ UNCHANGED rvars
      \/ /\ ev.kind = "quote" /\ UNCHANGED <<pc, ret, ev, ns, events, outbox, batch>>
         /\ nextID' = nextID + 1
         /\ place' = [place EXCEPT ![nextID + 1] = IF Entry = 0 THEN "inbox" ELSE "delayed"]
  BY <1>1, <1>2, ActKeeps
<1>4. CASE UNCHANGED rvars
  <2>1. UNCHANGED <<vars, outbox, batch, pc, ret, ev, ns, events>>
    BY <1>4 DEF rvars, venueVars, control
  <2>2. (Waits' <=> Waits) /\ (Held' <=> Held) /\ place' = place /\ nextID' = nextID
    BY <2>1 DEF Waits, Live, In, vars, Held
  <2> QED BY <1>1, <2>1, <2>2 DEF Quiet
<1>5. CASE /\ ev.kind = "quote" /\ UNCHANGED <<pc, ret, ev, ns, events, outbox, batch>>
           /\ nextID' = nextID + 1
           /\ place' = [place EXCEPT ![nextID + 1] = IF Entry = 0 THEN "inbox" ELSE "delayed"]
  <2>1. Waits' => place'[nextID'] = "inbox"
    BY <1>5 DEF Waits, Trading, VenueTyped
  <2> QED BY <1>1, <1>5, <2>1 DEF Quiet
<1> QED BY <1>3, <1>4, <1>5

LEMMA MatchQuiet ==
  ASSUME Control, Trading, Clocked, Quiet, MatchResting, UNCHANGED vs
  PROVE  Quiet'
<1>1. /\ pc = "match" /\ ret' = "match" /\ UNCHANGED <<ev, ns, events, called, heard>>
      /\ IF ev.kind = "quote" THEN VQuote(ev.q, ev.ts) ELSE VTrade(ev.t, ev.ts)
      /\ pc' = IF batch' = <<>> THEN "event" ELSE "apply"
  BY DEF MatchResting, vs
<1>2. Asked /\ ~Waits /\ heard # events
  BY <1>1 DEF Asked, Quiet
<1>3. Nothing /\ nextID' = nextID /\ HoldOrEmit(ev.ts)
  <2>1. CASE ev.kind = "quote"
    BY <1>1, <1>2, <2>1, Placed, QuoteAnswers DEF VQuote
  <2>2. CASE ev.kind # "quote"
    BY <1>1, <1>2, <2>2, Placed, TradeAnswers DEF VTrade
  <2> QED BY <2>1, <2>2
<1>4. ~Waits'
  BY <1>1, <1>2, <1>3, Placed, StillWaits
<1>5. ev.kind = "trade" => Held'
  <2>1. \A k \in DOMAIN outbox' : ~(outbox'[k].ready <= ev.ts)
    BY <1>1, <1>2, <1>3, Placed, HoldDue DEF Nothing
  <2> QED BY <1>1, <2>1 DEF Held, Clocked
<1> QED BY <1>1, <1>2, <1>4, <1>5 DEF Quiet

LEMMA CascadeQuiet ==
  ASSUME Control, Trading, Quiet, SettleCascade, UNCHANGED vs
  PROVE  Quiet'
<1>1. /\ pc = "settle" /\ Settle(ns) /\ HoldOrEmit(ns) /\ ret' = "cascade"
      /\ pc' = IF batch' = <<>> THEN "next" ELSE "apply"
      /\ UNCHANGED <<ev, ns, events, heard>>
  BY DEF SettleCascade, VSettle, vs
<1>2. Asked
  BY <1>1 DEF Asked
<1>3. (Nothing \/ Fills) /\ nextID' = nextID
  BY <1>1, <1>2, Placed, SettleAnswers
<1>4. ~Waits'
  <2> SUFFICES ASSUME Waits' PROVE FALSE
    OBVIOUS
  <2>1. ~Fills
    BY <1>3 DEF Fills, Waits
  <2>2. Waits /\ place'[nextID] = place[nextID] /\ nextID \in Ids
    BY <1>1, <1>2, <1>3, <2>1, Placed, StillWaits
  <2>3. place[nextID] = "inbox"
    BY <2>2 DEF Quiet
  <2>4. nextID \in In("inbox")
    BY <2>2, <2>3 DEF In
  <2>5. place'[nextID] \in {"filled", "working", "rejected"}
    BY <1>1, <2>2, <2>4 DEF Settle, SettleInbox, SettleOutcome, Rests
  <2> QED BY <2>2, <2>3, <2>5
<1>5. ev.kind = "trade" => pc' = "next"
  <2> SUFFICES ASSUME ev.kind = "trade" PROVE batch' = <<>>
    BY <1>1
  <2>1. Held /\ ~Waits
    BY <1>1 DEF Quiet
  <2>2. raw' = {}
    BY <1>3, <2>1 DEF Fills, Nothing
  <2> QED BY <1>1, <1>2, <2>1, <2>2, Placed, HoldDue DEF Held
<1>6. pc' \in {"next", "apply"}
  BY <1>1
<1> QED BY <1>1, <1>4, <1>5, <1>6 DEF Quiet

LEMMA NextQuiet ==
  ASSUME Entry = 0, StreakInv, VWInv', Running, Running', VWNext
  PROVE  Quiet'
<1>1. Control /\ Trading /\ Clocked /\ Quiet /\ Trading' /\ Control'
  BY DEF StreakInv, VWInv
\* Where only Run moves.
<1>2. ASSUME UNCHANGED <<vars, outbox, batch, ev, ns>>
      PROVE  /\ (Waits' <=> Waits) /\ (Held' <=> Held) /\ place' = place /\ nextID' = nextID
  BY <1>2 DEF Waits, Live, In, vars, Held
<1>3. CASE OnStart \/ OnOrder
  <2>1. pc \in {"start", "order"} /\ UNCHANGED <<vars, outbox, batch, ev, ns, pc, ret, events, heard>>
    BY <1>3 DEF OnStart, OnOrder, Body, Leaves, rvars, venueVars, control
  <2> QED BY <1>1, <1>2, <2>1 DEF Quiet
<1>4. CASE OnEvent
  BY <1>1, <1>4, EventQuiet
<1>5. ~OnStop
  <2>1. OnStop => pc = "stop"
    BY DEF OnStop, Body
  <2> QED BY <2>1 DEF Running, Stopping
<1>6. CASE Returns
  <2>1. /\ pc \in Callbacks \ {"stop"} /\ called' = FALSE
        /\ pc' = CASE pc \in {"start", "stop"} -> "drain"
                   [] pc = "event" -> "settle"
                   [] pc = "order" -> "apply"
        /\ pc # "start" => ret' = ret
        /\ UNCHANGED <<vars, outbox, batch, ev, ns, events, heard>>
    BY <1>6 DEF Returns, Return, venueVars, Running, Stopping
  <2>2. \/ pc = "start" /\ pc' = "drain"
        \/ pc = "event" /\ pc' = "settle"
        \/ pc = "order" /\ pc' = "apply"
    BY <2>1 DEF Callbacks
  <2> QED BY <1>1, <1>2, <2>1, <2>2 DEF Quiet
<1>7. CASE Tells
  <2>1. /\ pc = "apply" /\ pc' = "order" /\ UNCHANGED <<outbox, ev, ns, ret, called, events, heard>>
    BY <1>7 DEF Tells, ApplyEvent, GoTo
  <2>2. ~Waits'
    <3>1. called' = FALSE
      BY <1>1, <2>1 DEF Control, Callbacks
    <3> QED BY <1>1, <2>1, <3>1 DEF Trading, OneOrder, Asked, Idle, Waits
  <2>3. Held' <=> Held
    BY <2>1 DEF Held
  <2> QED BY <1>1, <2>1, <2>2, <2>3 DEF Quiet
<1>8. CASE Reads
  <2>1. PICK e : Observe(e)
    BY <1>8 DEF Reads
  <2>2. /\ pc = "next" /\ pc' = "match" /\ events' = events + 1
        /\ UNCHANGED <<nextID, place, outbox, batch, ret, heard>>
    BY <1>8, <2>1 DEF Reads, Observe, VSync, Sync, NoReply, GoTo, vs
  <2>3. ~Waits'
    BY <1>1, <2>2 DEF Quiet, Waits, Live, In
  <2>4. heard' # events'
    BY <1>1, <2>2 DEF Clocked
  <2> QED BY <2>2, <2>3, <2>4 DEF Quiet
<1>9. CASE Runs
  <2>0. UNCHANGED vs
    BY <1>9 DEF Runs
  <2>1. CASE Start
    <3>1. pc' = "start" /\ pc = "boot" /\ UNCHANGED <<vars, outbox, batch, ev, ns>>
      BY <1>1, <2>1 DEF Start, GoTo, Control, venueVars
    <3> QED BY <1>1, <1>2, <3>1 DEF Quiet
  <2>2. CASE Drain
    <3>1. /\ pc = "drain" /\ ret = "start" /\ ret' = "start" /\ strat' = strat
          /\ pc' \in {"apply", "next", "failed"}
      BY <1>1, <2>0, <2>2 DEF Drain, GoTo, Control, Running, Stopping, vs
    <3>2. pc' # "apply" /\ ~strat'.working /\ Asked'
      BY <1>1, <3>1 DEF Trading, Route, Asked
    <3>3. ~Waits'
      BY <1>1, <3>2 DEF Trading, OneOrder, Idle, Waits
    <3> QED BY <3>1, <3>2, <3>3 DEF Quiet
  <2>3. CASE MatchResting
    BY <1>1, <2>0, <2>3, MatchQuiet
  <2>4. CASE SettleCascade
    BY <1>1, <2>0, <2>4, CascadeQuiet
  <2>5. ~Eof /\ ~FlushTail
    <3>1. (Eof => pc' = "stop") /\ (FlushTail => ret' = "flush")
      BY DEF Eof, FlushTail, GoTo
    <3> QED BY <3>1 DEF Running, Stopping
  <2>6. CASE Applied
    <3>1. /\ pc = "apply" /\ ret' = ret /\ UNCHANGED <<vars, outbox, batch, ev, ns, events, heard, called>>
          /\ pc' = CASE ret \in {"start", "stop"} -> "drain"
                     [] ret = "match" -> "event"
                     [] ret = "flush" -> "done"
                     [] ret = "cascade" /\ ~refill -> "next"
                     [] ret = "cascade" /\ refill /\ iter' < MaxCascade -> "event"
                     [] OTHER -> "failed"
      BY <2>0, <2>6 DEF Applied, venueVars, vs
    <3>2. ret \in {"match", "cascade"}
      BY <1>1, <3>1 DEF Control, Running, Stopping, Trading, Route
    <3>3. pc' \in {"event", "next", "failed"}
      BY <3>1, <3>2
    <3> QED BY <1>1, <1>2, <3>1, <3>2, <3>3 DEF Quiet
  <2> QED BY <1>9, <2>1, <2>2, <2>3, <2>4, <2>5, <2>6 DEF Runs
<1> QED BY <1>3, <1>4, <1>5, <1>6, <1>7, <1>8, <1>9 DEF VWNext

LEMMA NextStreak ==
  ASSUME Entry = 0, ~BadStamps, StreakInv, [VWNext]_vwVars
  PROVE  StreakInv'
<1>1. VWInv'
  BY NextVW DEF StreakInv
<1>2. CASE VWNext
  <2>1. Clocked'
    BY <1>2, NextClocked
  <2>2. Running' => Running
    BY <1>2, ControlStep DEF StreakInv, VWInv
  <2>3. Running' => Quiet'
    BY <1>1, <1>2, <2>2, NextQuiet
  <2> QED BY <1>1, <2>1, <2>3 DEF StreakInv
<1>3. CASE UNCHANGED vwVars
  <2>1. UNCHANGED <<vars, outbox, batch, ev, ns, events, pc, ret, strat, called, seen, heard, base>>
    BY <1>3 DEF vwVars, vs, rvars, venueVars, control
  <2>2. (Clocked <=> Clocked') /\ (Running <=> Running')
    BY <2>1 DEF Clocked, Running, Stopping
  <2>3. (Waits' <=> Waits) /\ (Held' <=> Held) /\ place' = place /\ nextID' = nextID
    BY <2>1 DEF Waits, Live, In, vars, Held
  <2>4. Quiet => Quiet'
    BY <2>1, <2>3 DEF Quiet
  <2> QED BY <1>1, <2>2, <2>4 DEF StreakInv
<1> QED BY <1>2, <1>3

-----------------------------------------------------------------------------
(* The properties.                                                         *)

\* One order on its way at a time, and the strategy knows when there is one; a
\* position is never more than one entry.
THEOREM OnePositionHolds == VWSpec => []OnePosition
<1>1. VWInv => OnePosition
  <2> SUFFICES ASSUME VWInv, ~Stopping, Asked
               PROVE  /\ InFlight = (IF strat.working THEN 1 ELSE 0)
                      /\ AbsQty(books.pos.qty) <= Qty
    BY DEF OnePosition
  <2>1. OneOrder /\ OneEntry /\ StrategyTyped /\ Qty \in Nat
    BY VWAP2CloseAssumption DEF VWInv, Running, Trading
  <2>2. AbsQty(books.pos.qty) <= Qty
    BY <2>1 DEF OneEntry, AbsQty
  <2>3. /\ Cardinality({}) = 0 /\ \A i : Cardinality({i}) = 1
        /\ Len(<<>>) = 0 /\ \A e : Len(<<e>>) = 1
    BY FS_EmptySet, FS_Singleton
  <2>4. Idle => InFlight = 0
    BY <2>3 DEF Idle, InFlight
  <2>5. Waits => InFlight = 1
    <3>1. Waits => Cardinality(Live) = 1 /\ Len(outbox) = 0 /\ Len(batch) = 0
      BY <2>3 DEF Waits
    <3> QED BY <3>1 DEF InFlight
  <2>6. Returning => InFlight = 1
    BY <2>3 DEF Returning, InFlight
  <2>7. Arrived => InFlight = 1
    BY <2>3 DEF Arrived, InFlight
  <2> QED BY <2>1, <2>2, <2>4, <2>5, <2>6, <2>7 DEF OneOrder
<1> QED BY <1>1, VWHolds, PTL

\* Stop and target hang on the price of the open position.
THEOREM EntryAnchoredHolds == VWSpec => []EntryAnchored
<1>1. VWInv => EntryAnchored
  <2> SUFFICES ASSUME VWInv, ~Stopping, Asked, books.pos.qty # 0
               PROVE  strat.entry = books.pos.avgPx
    BY DEF EntryAnchored
  <2> QED BY DEF VWInv, Running, Trading, OneOrder
<1> QED BY <1>1, VWHolds, PTL

\* A quote the strategy has seen has not passed the stop or the target of a
\* position no exit is on its way for.
THEOREM StopWatchedHolds == VWSpec => []StopWatched
<1>1. VWInv => StopWatched
  <2> SUFFICES ASSUME VWInv, pc = "next", ev.kind = "quote", books.pos.qty # 0, ~strat.working
               PROVE  LET p == books.pos IN
                      /\ p.qty > 0 => p.avgPx - SLTicks < quote.bidPx /\ quote.bidPx < p.avgPx + TPTicks
                      /\ p.qty < 0 => p.avgPx - TPTicks < quote.askPx /\ quote.askPx < p.avgPx + SLTicks
    BY DEF StopWatched
  <2>1. Running /\ Seen /\ Asked
    BY DEF VWInv, Control, Running, Stopping, Seen, Asked
  <2>2. ~Beyond(strat) /\ strat.entry = books.pos.avgPx
    BY <2>1 DEF VWInv, Trading, Watched, OneOrder
  <2>3. /\ quote.bidPx \in Int /\ quote.askPx \in Int /\ books.pos.avgPx \in Int /\ books.pos.qty \in Int
        /\ SLTicks \in Nat /\ TPTicks \in Nat
    BY <2>1, VWAP2CloseAssumption
       DEF VWInv, Trading, VenueTyped, QuoteRec, OneEntry, BooksRec, PosRec
  <2> QED BY <2>2, <2>3 DEF Beyond
<1> QED BY <1>1, VWHolds, PTL
\* The streaks of the strategy are those of the tape: with no entry delay and
\* with stamps in order no trade is counted twice, none is left out, and no
\* close is held against the VWAP of a later trade or of another date.  (With
\* an entry delay a fill may come back on a trade, and the strategy is shown
\* that trade again.)
THEOREM StreakIsTapeHolds == Entry = 0 /\ ~BadStamps => (VWSpec => []StreakIsTape)
<1> SUFFICES ASSUME Entry = 0, ~BadStamps PROVE VWSpec => []StreakIsTape
  OBVIOUS
<1>1. StreakInv => StreakIsTape
  <2> SUFFICES ASSUME Clocked, seen # <<>>
               PROVE  /\ strat.above = Streak({t \in ClosedMinutes : CloseAt(t) > VwapUpTo(t)})
                      /\ strat.below = Streak({t \in ClosedMinutes : CloseAt(t) < VwapUpTo(t)})
    BY DEF StreakInv, StreakIsTape
  <2>1. ClosedMinutes = ClosedOf(seen, base)
    BY DEF ClosedMinutes, ClosedOf, Beyonds, Today, TodayOf
  <2>2. \A t : CloseAt(t) = CloseOf(seen, t) /\ VwapUpTo(t) = ValueOf(seen, t)
    BY DEF CloseAt, CloseOf, VwapUpTo, SumsUpTo, ValueOf, VwapRun, Until, Today, TodayOf
  <2>3. \A S : Streak(S) = StreakOf(ClosedOf(seen, base), S)
    BY <2>1 DEF Streak, StreakOf
  <2>4. /\ {t \in ClosedMinutes : CloseAt(t) > VwapUpTo(t)} = AboveOf(seen, base)
        /\ {t \in ClosedMinutes : CloseAt(t) < VwapUpTo(t)} = BelowOf(seen, base)
    BY <2>1, <2>2 DEF AboveOf, BelowOf
  <2> QED BY <2>3, <2>4 DEF Clocked, Streaks
<1>2. VWInit => StreakInv
  BY InitStreak
<1>3. StreakInv /\ [VWNext]_vwVars => StreakInv'
  BY NextStreak
<1> QED BY <1>1, <1>2, <1>3, PTL DEF VWSpec
=============================================================================
