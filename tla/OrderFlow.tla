------------------------------ MODULE OrderFlow ------------------------------
(***************************************************************************)
(* internal/orderflow: what is accumulated from trades [ts, px, qty, side] *)
(* and the orchestrator that resets it where the session changes.  None of *)
(* it knows of bars.  Prices are positive.                                 *)
(***************************************************************************)
EXTENDS Calendar

Over(f, k, zero) == IF k \in DOMAIN f THEN f[k] ELSE zero
With(f, k, v) == [x \in DOMAIN f \cup {k} |-> IF x = k THEN v ELSE f[x]]
-----------------------------------------------------------------------------
(* Delta (and CVD, which is one), VWAP and the orchestrator over both. *)

NoFlow == [buy |-> 0, sell |-> 0, pv |-> 0, v |-> 0]
CvdValue(f) == f.buy - f.sell
VwapValue(f) == IF f.v = 0 THEN 0 ELSE f.pv \div f.v

FlowTrade(f, e) ==
    [buy |-> f.buy + (IF e.side = "bid" THEN e.qty ELSE 0),
     sell |-> f.sell + (IF e.side = "ask" THEN e.qty ELSE 0),
     pv |-> f.pv + (IF e.qty > 0 THEN e.px * e.qty ELSE 0),
     v |-> f.v + (IF e.qty > 0 THEN e.qty ELSE 0)]

Orchestrator(bounds) == [bounds |-> bounds, next |-> 1, flow |-> NoFlow]
\* Every boundary up to the event's time is passed, each with a Reset.
OnFlow(o, e) ==
    LET passed == {i \in o.next..Len(o.bounds) :
                     \A j \in o.next..i : o.bounds[j] <= e.ts}
    IN [o EXCEPT !.next = @ + Cardinality(passed),
                 !.flow = FlowTrade(IF passed = {} THEN @ ELSE NoFlow, e)]
-----------------------------------------------------------------------------
(* Volume profile: a function from prices to volume. *)

NoProfile == << >>
ProfileTrade(p, e) == IF e.qty <= 0 THEN p ELSE With(p, e.px, Over(p, e.px, 0) + e.qty)
Volume(p, levels) == FoldSet(LAMBDA x, acc : acc + p[x], 0, levels)

Poc(p) == Min({x \in DOMAIN p : \A y \in DOMAIN p : p[y] <= p[x]})

\* One step of the walk from the area lo..hi: the neighbour with more volume,
\* the lower one of two equals.
Widen(p, lo, hi) ==
    LET below == {x \in DOMAIN p : x < lo}
        above == {x \in DOMAIN p : x > hi}
    IN IF below = {} THEN <<lo, Min(above)>>
       ELSE IF above = {} THEN <<Max(below), hi>>
       ELSE IF p[Min(above)] > p[Max(below)] THEN <<lo, Min(above)>>
       ELSE <<Max(below), hi>>

\* 70% of the volume, rounded up.
Target_Truncates(p) == (Volume(p, DOMAIN p) * 70) \div 100
Target(p) == (Volume(p, DOMAIN p) * 70 + 99) \div 100
Rows(p, lo, hi) == {x \in DOMAIN p : lo <= x /\ x <= hi}
Enough(p, a) == Volume(p, Rows(p, a[1], a[2])) >= Target(p)
\* The area when the loop ends: it has no more turns than there are rows.
Walk(p) ==
    LET area[n \in 0..Cardinality(DOMAIN p)] ==
          IF n = 0 THEN <<Poc(p), Poc(p)>>
          ELSE IF Enough(p, area[n - 1]) THEN area[n - 1]
          ELSE Widen(p, area[n - 1][1], area[n - 1][2])
    IN area[Cardinality(DOMAIN p)]

\* VAL, POC, VAH
ValueArea(p) ==
    IF DOMAIN p = {} THEN <<0, 0, 0>>
    ELSE <<Walk(p)[1], Poc(p), Walk(p)[2]>>
-----------------------------------------------------------------------------
(* Footprint: a function from prices to [buy, sell]. *)

NoVol == [buy |-> 0, sell |-> 0]
FootprintTrade(f, e) ==
    IF e.qty <= 0 \/ e.side = "none" THEN f
    ELSE With(f, e.px,
              LET v == Over(f, e.px, NoVol)
              IN IF e.side = "bid" THEN [v EXCEPT !.buy = @ + e.qty]
                 ELSE [v EXCEPT !.sell = @ + e.qty])

Grouped(f, n) ==
    LET rows == {px - (px % n) : px \in DOMAIN f}
        sum(g, side) == FoldSet(LAMBDA px, acc : acc + f[px][side], 0,
                                {px \in DOMAIN f : px - (px % n) = g})
    IN [g \in rows |-> [buy |-> sum(g, "buy"), sell |-> sum(g, "sell")]]

\* Buy(P) against Sell(P-n), marked at the row that dominates.
Imbalances(f, ratio, n) ==
    LET rows == Grouped(f, n)
        ask(p) == rows[p].buy
        bid(p) == Over(rows, p - n, NoVol).sell
        pairs == {p \in DOMAIN rows : ask(p) > 0 /\ bid(p) > 0}
    IN {[px |-> p, dir |-> "ask"] : p \in {q \in pairs : ask(q) >= ratio * bid(q)}}
       \cup {[px |-> p - n, dir |-> "bid"] : p \in {q \in pairs : bid(q) >= ratio * ask(q)}}

\* Maximal runs of at least minRun marks of one direction, n apart.
Stacks(imbs, minRun, n) ==
    LET run(d, i, j) == \A k \in 0..((j - i) \div n) : [px |-> i + k * n, dir |-> d] \in imbs
        pxs == {m.px : m \in imbs}
    IN {s \in [dir : {"ask", "bid"}, from : pxs, to : pxs] :
          /\ s.from <= s.to /\ (s.to - s.from) % n = 0
          /\ (s.to - s.from) \div n + 1 >= minRun
          /\ run(s.dir, s.from, s.to)
          /\ [px |-> s.from - n, dir |-> s.dir] \notin imbs
          /\ [px |-> s.to + n, dir |-> s.dir] \notin imbs}
-----------------------------------------------------------------------------
(* TPO: the 30-minute periods since the open in which a price traded. *)

TPOPeriod == 2
NewTPO(anchor) == [anchor |-> anchor, seen |-> << >>]
TpoTrade(t, e) ==
    IF e.qty <= 0 \/ e.ts < t.anchor THEN t
    ELSE [t EXCEPT !.seen = With(@, e.px, Over(@, e.px, {})
                                   \cup {(e.ts - t.anchor) \div TPOPeriod})]

TpoPoc(t) == IF DOMAIN t.seen = {} THEN 0
             ELSE Min({x \in DOMAIN t.seen :
                    \A y \in DOMAIN t.seen : Cardinality(t.seen[y]) <= Cardinality(t.seen[x])})
InitialBalance(t) ==
    LET first == {x \in DOMAIN t.seen : t.seen[x] \cap {0, 1} # {}}
    IN IF first = {} THEN <<>> ELSE <<Min(first), Max(first)>>
SinglePrints(t) == {x \in DOMAIN t.seen : Cardinality(t.seen[x]) = 1}
PeriodCount(t) == Cardinality(UNION {t.seen[x] : x \in DOMAIN t.seen})
=============================================================================
