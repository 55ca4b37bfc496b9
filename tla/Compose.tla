------------------------------- MODULE Compose -------------------------------
(***************************************************************************)
(* internal/compose: the page of one trading date and session, built in    *)
(* one pass from collected trades.  cmd/render draws it and cmd/serve      *)
(* sends it.                                                               *)
(***************************************************************************)
EXTENDS Bars, OrderFlow

CONSTANTS TicksPerRow, Ratio, MinStack     \* 4, 3 and 3

Keep(trades, d, set) ==
    Pick(trades, {i \in DOMAIN trades :
                    LET c == Classify(trades[i].ts) IN c[1] = d /\ InSet(set, c[2])})

Aggregate(s, trades) == FoldLeft(LAMBDA a, e : AddBar(s, a, e), NoBars, trades)

\* A trade at the very end of a bar belongs to the next.
Used_Inclusive(trades, bars) ==
    LET upto[i \in 0..Len(bars)] ==
          IF i = 0 THEN 0
          ELSE Max({n \in upto[i - 1]..Len(trades) :
                      \A j \in (upto[i - 1] + 1)..n : trades[j].ts <= bars[i].end})
    IN [i \in 1..Len(bars) |-> upto[i]]
\* How many trades the loops of SampleFlow and SnapshotFootprints have used
\* after each bar: they stop at the first that is not before the bar's end.
Used(trades, bars) ==
    LET upto[i \in 0..Len(bars)] ==
          IF i = 0 THEN 0
          ELSE Max({n \in upto[i - 1]..Len(trades) :
                      \A j \in (upto[i - 1] + 1)..n : trades[j].ts < bars[i].end})
    IN [i \in 1..Len(bars) |-> upto[i]]

\* From the first bar's start to the last bar's end, and no less than from the
\* first trade to an instant past the last.
FlowRange(trades, bars) ==
    <<Min({bars[1].start, trades[1].ts}), Max({Last(bars).end, Last(trades).ts + 1})>>

SampleFlow(trades, bars) ==
    LET r == FlowRange(trades, bars)
        o0 == Orchestrator(Boundaries(r[1], r[2]))
        used == Used(trades, bars)
        after(n) == FoldLeft(OnFlow, o0, SubSeq(trades, 1, n)).flow
    IN [i \in 1..Len(bars) |->
            [vwap |-> VwapValue(after(used[i])), cvd |-> CvdValue(after(used[i]))]]

\* One grouped column with its marks.
InStack(stacks, m) ==
    \E s \in stacks : /\ s.dir = m.dir /\ s.from <= m.px /\ m.px <= s.to
                      /\ (m.px - s.from) % TicksPerRow = 0
SnapshotBarFootprint(f) ==
    LET imbs == Imbalances(f, Ratio, TicksPerRow)
        stacks == Stacks(imbs, MinStack, TicksPerRow)
    IN [levels |-> Grouped(f, TicksPerRow),
        marks |-> {[mark |-> m, stacked |-> InStack(stacks, m)] : m \in imbs}]

SnapshotFootprints(trades, bars) ==
    LET used == Used(trades, bars)
        from(i) == IF i = 1 THEN 1 ELSE used[i - 1] + 1
    IN [i \in 1..Len(bars) |->
          SnapshotBarFootprint(
            FoldLeft(FootprintTrade, << >>, SubSeq(trades, from(i), used[i])))]

SnapshotProfile(p) == [levels |-> p, area |-> ValueArea(p)]
TpoAnchor(d, sess) ==
    IF sess = "ETH" THEN HoursFor(d).ethOpen ELSE HoursFor(d).rthOpen
TPOView(t) == [levels |-> t.seen, poc |-> TpoPoc(t), ib |-> InitialBalance(t),
               single |-> SinglePrints(t), periods |-> PeriodCount(t)]

\* The page of trading date d: s is the bars' spec, sess the session shown.
\* A page without bars is an error.
ViewOf(kept, bars, d, sess) ==
    IF bars = <<>> THEN [error |-> TRUE]
    ELSE [error |-> FALSE, bars |-> bars, flow |-> SampleFlow(kept, bars),
          footprints |-> SnapshotFootprints(kept, bars),
          profile |-> SnapshotProfile(FoldLeft(ProfileTrade, NoProfile, kept)),
          tpo |-> TPOView(FoldLeft(TpoTrade, NewTPO(TpoAnchor(d, sess)), kept))]
FromKept(kept, d, sess, s) == ViewOf(kept, Snapshot(Aggregate(s, kept)), d, sess)
FromTrades(all, d, sess, s) == FromKept(Keep(all, d, s.sessions), d, sess, s)
==============================================================================
