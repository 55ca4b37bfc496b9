----------------------------- MODULE VWAP2Close -----------------------------
(***************************************************************************)
(* internal/strategy/vwap2close.go, the strategy cmd/backtest runs, under  *)
(* the Run of Runtime.tla: what its callbacks do stands where Runtime has  *)
(* any strategy.  Two closes of RTH minute bars on one side of the         *)
(* session's VWAP are a signal; stop and target are watched on quotes.     *)
(*                                                                         *)
(* One unit of time is one bar, and an event's own time is its TsRecv.     *)
(***************************************************************************)
EXTENDS Runtime

CONSTANTS
    SLTicks, TPTicks, Qty,
    Rth,        \* times Classify puts into RTH
    DateOf,     \* [0..MaxTs -> trading date], dates from 1
    Openings    \* bound: every tape begins with one of these sequences

\* sl, tp and qty: anything else is replaced by the default.
ASSUME VWAP2CloseAssumption ==
    SLTicks \in Nat \ {0} /\ TPTicks \in Nat \ {0} /\ Qty \in Nat \ {0}

\* Classify: a later minute of RTH is not of an earlier date.
ASSUME DatesAssumption ==
    /\ DateOf \in [0..MaxTs -> Nat \ {0}]
    /\ \A t, u \in Rth \cap (0..MaxTs) : t <= u => DateOf[t] <= DateOf[u]

VARIABLES
    strat,      \* the VWAP2Close struct
    told,       \* the OrderEvent being handed to OnOrder
    called      \* the callback has run its body

\* History.
VARIABLES
    tape0,      \* the opening of this tape
    seen,       \* RTH trades of the tape, each once
    heard,      \* events whose trade is in seen
    base        \* how much of seen there was when the last position closed

vs == <<strat, told, called, tape0, seen, heard, base>>
vwVars == <<rvars, vs>>

NoVwap == [pv |-> 0, v |-> 0]
NewStrategy ==
    [bar |-> <<>>, vwap |-> NoVwap, above |-> 0, below |-> 0, want |-> "none",
     working |-> FALSE, entry |-> 0, lastTD |-> 0]

VWInit ==
    /\ RInit /\ strat = NewStrategy /\ told = NoEvent /\ called = FALSE
    /\ tape0 \in Openings /\ seen = <<>> /\ heard = 0 /\ base = 0
-----------------------------------------------------------------------------
(* The bodies of the callbacks. *)

Value(w) == IF w.v = 0 THEN 0 ELSE w.pv \div w.v
WithTrade(w, t) == [pv |-> w.pv + t.px * t.qty, v |-> w.v + t.qty]

\* A close at the VWAP breaks the streak.
OnClosed_EqualKeeps(s, close) ==
    [s EXCEPT !.above = IF close > Value(s.vwap) THEN @ + 1 ELSE IF close < Value(s.vwap) THEN 0 ELSE @,
              !.below = IF close < Value(s.vwap) THEN @ + 1 ELSE IF close > Value(s.vwap) THEN 0 ELSE @]
OnClosed(s, close) ==
    [s EXCEPT !.above = IF close > Value(s.vwap) THEN @ + 1 ELSE 0,
              !.below = IF close < Value(s.vwap) THEN @ + 1 ELSE 0]

\* onTrade: the first trade of a later minute closes the open bar, before it
\* counts in the VWAP itself.
AfterTrade(s, e) ==
    IF e.ts \notin Rth THEN s
    ELSE LET closed == IF s.bar # <<>> /\ s.bar[1].start # e.ts
                       THEN OnClosed(s, s.bar[1].close) ELSE s
             dated == IF s.lastTD # 0 /\ s.lastTD # DateOf[e.ts]
                      THEN [closed EXCEPT !.vwap = NoVwap, !.above = 0, !.below = 0,
                                          !.want = "none"]
                      ELSE closed
         IN [dated EXCEPT !.bar = <<[start |-> e.ts, close |-> e.t.px]>>,
                          !.lastTD = DateOf[e.ts], !.vwap = WithTrade(@, e.t)]

Latch(s) ==
    [s EXCEPT !.want = IF @ # "none" THEN @
                       ELSE IF s.above >= 2 THEN "bid"
                       ELSE IF s.below >= 2 THEN "ask" ELSE @]

Leaves(s) == strat' = s /\ UNCHANGED rvars
Sends(s, side, n) ==
    /\ Submit([side |-> side, kind |-> "market", px |-> 0, qty |-> n])
    /\ strat' = [s EXCEPT !.working = TRUE]

Flatten(s) ==
    LET q == books.pos.qty
    IN IF q = 0 THEN Leaves(s)
       ELSE Sends(s, IF q < 0 THEN "bid" ELSE "ask", AbsQty(q))

\* maybeExit; ctx.Quote is the quote the venue has too.
Beyond_Swapped(s) ==
    \/ books.pos.qty > 0 /\ (quote.bidPx <= s.entry - TPTicks \/ quote.bidPx >= s.entry + SLTicks)
    \/ books.pos.qty < 0 /\ (quote.askPx >= s.entry + TPTicks \/ quote.askPx <= s.entry - SLTicks)
Beyond(s) ==
    \/ books.pos.qty > 0 /\ (quote.bidPx <= s.entry - SLTicks \/ quote.bidPx >= s.entry + TPTicks)
    \/ books.pos.qty < 0 /\ (quote.askPx >= s.entry + SLTicks \/ quote.askPx <= s.entry - TPTicks)

Act_NotWaiting(s) ==
    LET onQuote == ev.kind = "quote"
    IN IF books.pos.qty # 0
         THEN IF onQuote /\ hasQ /\ Beyond(s) THEN Flatten(s) ELSE Leaves(s)
       ELSE IF Latch(s).want = "none" \/ ~onQuote THEN Leaves(Latch(s))
       ELSE Sends(Latch(s), Latch(s).want, Qty)
Act(s) ==
    LET onQuote == ev.kind = "quote"
    IN IF s.working THEN Leaves(s)
       ELSE IF books.pos.qty # 0
         THEN IF onQuote /\ hasQ /\ Beyond(s) THEN Flatten(s) ELSE Leaves(s)
       ELSE IF Latch(s).want = "none" \/ ~onQuote THEN Leaves(Latch(s))
       ELSE Sends(Latch(s), Latch(s).want, Qty)

AfterOrder_Unanchored(s, e) ==
    LET free == [s EXCEPT !.working = FALSE]
    IN IF e.status # "filled" THEN free
       ELSE IF books.pos.qty = 0
       THEN [free EXCEPT !.want = "none", !.above = 0, !.below = 0, !.entry = 0]
       ELSE [free EXCEPT !.want = "none", !.entry = quote.bidPx]
AfterOrder(s, e) ==
    LET free == [s EXCEPT !.working = FALSE]
    IN IF e.status # "filled" THEN free
       ELSE IF books.pos.qty = 0
       THEN [free EXCEPT !.want = "none", !.above = 0, !.below = 0, !.entry = 0]
       ELSE [free EXCEPT !.want = "none", !.entry = e.px]
-----------------------------------------------------------------------------
(* The callbacks, and Run around them. *)

Body(p) == pc = p /\ ~called /\ called' = TRUE /\ UNCHANGED <<told, tape0>>

OnStart == /\ Body("start") /\ Leaves(NewStrategy)
           /\ UNCHANGED <<seen, heard, base>>

OnEvent ==
    /\ Body("event")
    /\ Act(IF ev.kind = "trade" THEN AfterTrade(strat, ev) ELSE strat)
    /\ heard' = events /\ base' = base
    /\ seen' = IF heard # events /\ ev.kind = "trade" /\ ev.ts \in Rth
               THEN Append(seen, [ts |-> ev.ts, px |-> ev.t.px, qty |-> ev.t.qty])
               ELSE seen

OnOrder ==
    /\ Body("order") /\ Leaves(AfterOrder(strat, told))
    /\ base' = IF told.status = "filled" /\ books.pos.qty = 0 THEN Len(seen) ELSE base
    /\ UNCHANGED <<seen, heard>>

OnStop == Body("stop") /\ Flatten(strat) /\ UNCHANGED <<seen, heard, base>>

Returns == /\ Return /\ called /\ called' = FALSE
           /\ UNCHANGED <<strat, told, tape0, seen, heard, base>>

Tells == ApplyEvent /\ told' = Head(batch)
         /\ UNCHANGED <<strat, called, tape0, seen, heard, base>>

OnTape(e) == events < Len(tape0) => e = tape0[events + 1]
Reads == /\ \E e \in FeedEvents : OnTape(e) /\ Observe(e)
         /\ UNCHANGED vs

Runs == /\ \/ Start \/ Drain \/ MatchResting \/ SettleCascade \/ Eof
           \/ FlushTail \/ Applied
        /\ UNCHANGED vs

VWNext == \/ OnStart \/ OnEvent \/ OnOrder \/ OnStop
          \/ Returns \/ Tells \/ Reads \/ Runs

VWSpec == VWInit /\ [][VWNext]_vwVars
-----------------------------------------------------------------------------
(* Properties. *)

\* OnStop has been called.
Stopping == pc \in {"stop", "done"} \/ ret \in {"stop", "flush"}
Asked == pc # "order" \/ called
InFlight == Cardinality(Live) + Len(outbox) + Len(batch)

\* "One position": until OnStop the strategy never has more than one order on
\* its way, counting reports still held for the response delay, and knows when
\* it has; its position is never more than one entry.
OnePosition ==
    ~Stopping /\ Asked =>
        /\ InFlight = (IF strat.working THEN 1 ELSE 0)
        /\ AbsQty(books.pos.qty) <= Qty

\* Stop and target hang on the price of the open position, whatever the quote
\* has done between the signal, the fill and its report.
EntryAnchored ==
    ~Stopping /\ Asked /\ books.pos.qty # 0 => strat.entry = books.pos.avgPx

\* No quote is passed over: when the strategy has seen one, and no exit is on
\* its way, the position is inside its stop and its target.
StopWatched ==
    LET p == books.pos
    IN pc = "next" /\ ev.kind = "quote" /\ p.qty # 0 /\ ~strat.working =>
        /\ p.qty > 0 => p.avgPx - SLTicks < quote.bidPx /\ quote.bidPx < p.avgPx + TPTicks
        /\ p.qty < 0 => p.avgPx - TPTicks < quote.askPx /\ quote.askPx < p.avgPx + SLTicks

\* The trades of the current trading date, as indexes of seen.
Today == {i \in DOMAIN seen : DateOf[seen[i].ts] = DateOf[Last(seen).ts]}
SumsUpTo(t) == FoldLeft(WithTrade, NoVwap, Pick(seen, {i \in Today : seen[i].ts <= t}))
VwapUpTo(t) == Value(SumsUpTo(t))
CloseAt(t) == seen[Max({i \in DOMAIN seen : seen[i].ts = t})].px
\* Minutes of today that a trade after base closed.
ClosedMinutes ==
    LET later(t) == {i \in DOMAIN seen : seen[i].ts > t}
    IN {t \in {seen[i].ts : i \in Today} : later(t) # {} /\ later(t) \cap 1..base = {}}
\* How many of the last closed minutes in a row are in S.
Streak(S) == Cardinality({t \in ClosedMinutes : \A u \in ClosedMinutes : u >= t => u \in S})

\* The streak is that of the tape: how many of the last closes of this date,
\* and since the last position closed, are above (below) the VWAP of the date
\* up to that close, and not of any trade after it.
StreakIsTape ==
    seen # <<>> =>
        /\ strat.above = Streak({t \in ClosedMinutes : CloseAt(t) > VwapUpTo(t)})
        /\ strat.below = Streak({t \in ClosedMinutes : CloseAt(t) < VwapUpTo(t)})

\* vwap.go: "Sum(price x qty) / Sum(qty)" of the session: each RTH trade of the
\* date is in both sums, once.
VwapOfTape == seen # <<>> => strat.vwap = SumsUpTo(MaxTs)

\* README.md:202, "Flatten leftover size on stop."
EndsFlat == pc = "done" => books.pos.qty = 0
=============================================================================
