-------------------------------- MODULE Page --------------------------------
(***************************************************************************)
(* cmd/serve/live.go, runLive: the page built trade by trade as a tape     *)
(* replays.  It must come to what compose makes of the same trades at      *)
(* once, for "SVG and the browser are the same page".                      *)
(*                                                                         *)
(* A behaviour has one bar spec.  When it is that of a page (PageSpec) the *)
(* page's state moves too; any other spec is some user of aggregation.New. *)
(* Trades come in the order of their exchange stamps, as Orchestrator asks *)
(* of its feed; equal stamps are common.                                   *)
(***************************************************************************)
EXTENDS Compose

CONSTANTS
    Days,       \* trading dates a page is asked for
    Clocks,     \* times of trades, relative to the trading date
    Prints,     \* their other fields: records [px, qty, side]
    Specs,      \* the bar specs
    MaxTrades   \* bound: trades on the tape

SpecRec ==
    [kind : {"time", "tick", "volume", "range"}, interval : Nat, count : Nat, band : Nat,
     anchor : {"sessionOpen", "rthOpen", "midnight", "utcEpoch"},
     sessions : SUBSET {"RTH", "ETH"}]
PrintRec == [px : Int, qty : Nat, side : {"bid", "ask", "none"}]

\* New refuses a spec that is not valid; Qty of a trade has no sign.
ASSUME PageAssumption ==
    /\ MaxTrades \in Nat /\ UtcOffset \in Int
    /\ Days \subseteq Int /\ Clocks \subseteq Int /\ Prints \subseteq PrintRec
    /\ Specs \subseteq SpecRec /\ \A s \in Specs : ValidSpec(s)

VARIABLES
    date, spec, \* the page: Date, Sessions and Anchor
    trades,     \* the tape so far
    agg,        \* runLive's aggregator
    orch,       \* its orchestrator with VWAP and CVD
    vp, tpo,    \* its VolumeProfile and TPO
    fps,        \* its footprints, one for each bar
    shown,      \* the flow of the last frame sent for each bar
    home        \* history: for each trade taken, the last bar it went into

pageVars == <<date, spec, trades, agg, orch, vp, tpo, fps, shown, home>>

\* parseSession: a page shows RTH anchored at its open, or ETH.
PageSpec == /\ spec.kind = "time"
            /\ <<spec.anchor, spec.sessions>> \in
                 {<<"rthOpen", {"RTH"}>>, <<"sessionOpen", {"ETH"}>>}
Shown == IF spec.sessions = {"ETH"} THEN "ETH" ELSE "RTH"

\* [from, to) of the page's boundaries: one instant past the close.
SessionRange(d, sess) ==
    LET h == HoursFor(d)
    IN IF sess = "ETH" THEN <<h.ethOpen, h.ethClose + 1>> ELSE <<h.rthOpen, h.rthClose + 1>>

PageInit ==
    /\ date \in Days /\ spec \in Specs
    /\ trades = <<>> /\ agg = NoBars
    /\ orch = LET r == SessionRange(date, Shown)
              IN Orchestrator(Boundaries(r[1], r[2]))
    /\ vp = NoProfile /\ tpo = NewTPO(TpoAnchor(date, Shown))
    /\ fps = <<>> /\ shown = <<>> /\ home = <<>>

Trades == {[ts |-> date * Day + c, px |-> p.px, qty |-> p.qty, side |-> p.side] :
             c \in Clocks, p \in Prints}

\* Some other user of an aggregator: one trade goes into the bars.
Feed(e) ==
    /\ ~PageSpec
    /\ agg' = AddBar(spec, agg, e)
    /\ home' = IF Accepts(spec, e.ts) THEN Append(home, Len(Snapshot(agg'))) ELSE home
    /\ UNCHANGED <<orch, vp, tpo, fps, shown>>

\* runLive's handler: a trade compose.Keep leaves out never reaches it.
Deliver(e) ==
    /\ PageSpec /\ Keep(<<e>>, date, spec.sessions) # <<>>
    /\ orch' = OnFlow(orch, e)
    /\ agg' = AddBar(spec, agg, e)
    /\ vp' = ProfileTrade(vp, e) /\ tpo' = TpoTrade(tpo, e)
    /\ LET idx == Len(Snapshot(agg'))
           at == [i \in 1..idx |-> IF i \in DOMAIN fps THEN fps[i] ELSE << >>]
           flow == [vwap |-> VwapValue(orch'.flow), cvd |-> CvdValue(orch'.flow)]
       IN /\ fps' = [at EXCEPT ![idx] = FootprintTrade(@, e)]
          /\ shown' = [i \in 1..idx |-> IF i = idx THEN flow ELSE shown[i]]
          /\ home' = Append(home, idx)

Skip(e) ==
    /\ PageSpec /\ Keep(<<e>>, date, spec.sessions) = <<>>
    /\ UNCHANGED <<agg, orch, vp, tpo, fps, shown, home>>

PageNext ==
    \E e \in Trades :
        /\ Len(trades) < MaxTrades
        /\ trades # <<>> => Last(trades).ts <= e.ts
        /\ trades' = Append(trades, e) /\ UNCHANGED <<date, spec>>
        /\ Feed(e) \/ Deliver(e) \/ Skip(e)

PageSpecification == PageInit /\ [][PageNext]_pageVars
-----------------------------------------------------------------------------
Taken == IF PageSpec THEN Keep(trades, date, spec.sessions)
         ELSE Pick(trades, {i \in DOMAIN trades : Accepts(spec, trades[i].ts)})
TheBars == Snapshot(agg)
QtyOver(S) == Total([i \in DOMAIN Taken |-> IF i \in S THEN Taken[i].qty ELSE 0])

\* The replayed page is the composed page: the bars, the last VWAP and CVD sent
\* for each, its footprint and marks, the profile and the TPO.
SamePage ==
    PageSpec /\ Taken # <<>> =>
        FromTrades(trades, date, Shown, spec) =
            [error |-> FALSE, bars |-> TheBars, flow |-> shown,
             footprints |-> [i \in DOMAIN fps |-> SnapshotBarFootprint(fps[i])],
             profile |-> SnapshotProfile(vp), tpo |-> TPOView(tpo)]

\* VWAP and CVD are of the trades since the calendar last changed its answer,
\* a halt's two edges included, and of no other.
FlowSinceEdge ==
    PageSpec /\ Taken # <<>> =>
        LET now == Last(Taken).ts
            since == Pick(Taken, {i \in DOMAIN Taken : \A t \in (Taken[i].ts + 1)..now :
                                                          Classify(t) = Classify(t - 1)})
        IN orch.flow = FoldLeft(FlowTrade, NoFlow, since)

\* Bars cut the tape in order: each trade is in one bar (a volume bar's print
\* may spread over several), no contract is lost or counted twice, a bar keeps
\* to the bound of its kind, and a bucket shorter than a day holds its trades.
BarsPartition ==
    /\ Len(home) = Len(Taken)
    /\ \A i, j \in DOMAIN home : i <= j => home[i] <= home[j]
    /\ \A k \in DOMAIN TheBars :
         LET b == TheBars[k]
             mine == {i \in DOMAIN home : home[i] = k}
         IN /\ spec.kind = "volume" \/ (b.vol = QtyOver(mine) /\ b.n = Cardinality(mine))
            /\ b.low <= Min({b.open, b.close}) /\ Max({b.open, b.close}) <= b.high
            /\ spec.kind = "time" /\ spec.interval < Day =>
                 \A i \in mine : b.start <= Taken[i].ts /\ Taken[i].ts < b.end
            /\ spec.kind = "tick" => b.n <= spec.count /\ (k <= Len(agg.bars) => b.n = spec.count)
            /\ spec.kind = "volume" =>
                 b.vol <= spec.count /\ (k <= Len(agg.bars) => b.vol = spec.count)
            /\ spec.kind = "range" => b.high - b.low <= spec.band
    /\ Total([k \in DOMAIN TheBars |-> TheBars[k].vol]) = QtyOver(DOMAIN Taken)

\* x is an end of the area lo..hi of p: the row just beyond the other end has no
\* more volume, and less if it is the lower one.
Beats(p, lo, hi, x) ==
    \A y \in DOMAIN p :
        (\A z \in DOMAIN p : ~(hi < z /\ z < y) /\ ~(y < z /\ z < lo)) =>
            /\ y > hi /\ x = lo => p[y] <= p[x]
            /\ y < lo /\ x = hi => p[y] < p[x]

\* The value area holds 70% of the volume; unless it is the POC alone it would not
\* without the row taken in last, and that row has more volume than the one the
\* walk left out for it on the other side, the lower one of two equals
\* (volumeprofile.go:99).  No row of the profile has more volume than the POC.
AreaCovers ==
    DOMAIN vp # {} =>
        LET a == ValueArea(vp)
            rows == {x \in DOMAIN vp : a[1] <= x /\ x <= a[3]}
        IN /\ {a[1], a[2], a[3]} \subseteq rows
           /\ 100 * Volume(vp, rows) >= 70 * Volume(vp, DOMAIN vp)
           /\ \/ rows = {a[2]}
              \/ \E x \in {a[1], a[3]} \ {a[2]} :
                    /\ 100 * Volume(vp, rows \ {x}) < 70 * Volume(vp, DOMAIN vp)
                    /\ Beats(vp, a[1], a[3], x)
           /\ \A x \in DOMAIN vp : vp[x] <= vp[a[2]]
=============================================================================
