-------------------------------- MODULE Bars --------------------------------
(***************************************************************************)
(* internal/aggregation: trades into time, tick, volume and range bars.    *)
(*                                                                         *)
(* A spec is [kind, interval, count, band, anchor, sessions]; an           *)
(* aggregator is the bars it has closed and the open one, if any, as a     *)
(* sequence of at most one.  A trade is [ts, px, qty, side].               *)
(***************************************************************************)
EXTENDS Calendar

CONSTANT UtcOffset   \* quarters of an hour from UTC to exchange time

NoBars == [bars |-> <<>>, open |-> <<>>]
Snapshot(a) == a.bars \o a.open                     \* sink.Bars
FlushBars(a) == [bars |-> a.bars \o a.open, open |-> <<>>]

ValidSpec(s) ==
    CASE s.kind = "time" -> s.interval > 0
      [] s.kind \in {"tick", "volume"} -> s.count > 0
      [] s.kind = "range" -> s.band > 0

Accepts(s, t) == InSet(s.sessions, Classify(t)[2])

EmptyBar(from, to, label) ==
    [start |-> from, end |-> to, td |-> label[1], sess |-> label[2],
     open |-> 0, high |-> 0, low |-> 0, close |-> 0,
     vol |-> 0, buy |-> 0, sell |-> 0, n |-> 0]
BarAt(t) == EmptyBar(t, t, Classify(t))

ApplyTrade(b, px, qty, side) ==
    [b EXCEPT
        !.open = IF b.n = 0 THEN px ELSE @,
        !.high = IF b.n = 0 \/ px > @ THEN px ELSE @,
        !.low = IF b.n = 0 \/ px < @ THEN px ELSE @,
        !.close = px, !.vol = @ + qty, !.n = @ + 1,
        !.buy = IF side = "bid" THEN @ + qty ELSE @,
        !.sell = IF side = "ask" THEN @ + qty ELSE @]

\* Put qty of trade e in the open bar, or in a new one.
Put(a, e, qty) ==
    LET b == IF a.open = <<>> THEN BarAt(e.ts) ELSE a.open[1]
    IN [a EXCEPT !.open = <<[ApplyTrade(b, e.px, qty, e.side) EXCEPT !.end = e.ts]>>]
Full(s, b) == (IF s.kind = "tick" THEN b.n ELSE b.vol) >= s.count
FlushFull(s, a) == IF Full(s, a.open[1]) THEN FlushBars(a) ELSE a

AddTick(s, a, e) == FlushFull(s, Put(a, e, e.qty))

\* A print larger than the room left is split over as many bars as it takes.
Takes(room, qty, count) ==
    LET first == Min({qty, room})
        rest == qty - first
    IN <<first>> \o [i \in 1..((rest + count - 1) \div count) |->
                        Min({count, rest - (i - 1) * count})]
AddVolume(s, a, e) ==
    IF e.qty <= 0 THEN a
    ELSE LET room == s.count - (IF a.open = <<>> THEN 0 ELSE a.open[1].vol)
             take(x, q) == FlushFull(s, Put(x, e, q))
         IN FoldLeft(take, a, Takes(room, e.qty, s.count))

RangeExceeds(b, px, band) == Max({b.high, px}) - Min({b.low, px}) > band
AddRange(s, a, e) ==
    LET past == a.open # <<>> /\ RangeExceeds(a.open[1], e.px, s.band)
    IN Put(IF past THEN FlushBars(a) ELSE a, e, e.qty)

\* \div rounds down, as floorDiv does.
FloorDiv_Truncates(a, b) == IF a < 0 THEN -((-a) \div b) ELSE a \div b
FloorDiv(a, b) == a \div b
AddFloored(anchor, t, interval) == anchor + FloorDiv(t - anchor, interval) * interval

OpenOf(h, s, sess) ==
    IF s.anchor = "rthOpen" \/ sess = "RTH" THEN h.rthOpen ELSE h.ethOpen
AnchorOf(s, t, label) ==
    IF s.anchor = "midnight" THEN (t \div Day) * Day
    ELSE OpenOf(HoursFor(label[1]), s, label[2])
From(anchor, s, t) ==
    IF s.anchor # "midnight" /\ s.interval >= Day THEN anchor
    ELSE AddFloored(anchor, t, s.interval)
BucketStart(s, t) ==
    IF s.anchor = "utcEpoch"
    THEN AddFloored(0, t + UtcOffset, s.interval) - UtcOffset
    ELSE From(AnchorOf(s, t, Classify(t)), s, t)

\* The bar is labelled by its start, or its trade when the start is closed.
Label(atStart, atTrade) == IF atStart[1] = NoDate THEN atTrade ELSE atStart
InBucket(s, a, e, start) ==
    LET x == IF a.open # <<>> /\ a.open[1].start = start THEN a
             ELSE [bars |-> FlushBars(a).bars,
                   open |-> <<EmptyBar(start, start + s.interval,
                                       Label(Classify(start), Classify(e.ts)))>>]
    IN [x EXCEPT !.open = <<ApplyTrade(@[1], e.px, e.qty, e.side)>>]
AddTime(s, a, e) == InBucket(s, a, e, BucketStart(s, e.ts))

AddBar(s, a, e) ==
    IF ~Accepts(s, e.ts) THEN a
    ELSE CASE s.kind = "time" -> AddTime(s, a, e)
           [] s.kind = "tick" -> AddTick(s, a, e)
           [] s.kind = "volume" -> AddVolume(s, a, e)
           [] s.kind = "range" -> AddRange(s, a, e)
=============================================================================
